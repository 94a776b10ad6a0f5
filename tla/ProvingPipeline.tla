-------------------------- MODULE ProvingPipeline --------------------------
(***************************************************************************)
(* The threads that prove one block (bench/src/prover.rs, bin/prove.rs).   *)
(* The main thread waits for the pre-execution proof and the circuits and  *)
(* starts three lanes: the heavy path, the light path and the lane that    *)
(* builds the block circuit.  A path starts one thread per transaction     *)
(* proof, keeps a window of them in flight, and starts one thread per      *)
(* chain step, each of which waits for its predecessor.  The lanes share   *)
(* the circuits (read-write locks), the number of active paths, the        *)
(* process-global exclusive GPU phase and the backlog of chain steps.  The *)
(* build aborts on panic, so a failing thread ends the process.            *)
(***************************************************************************)
EXTENDS Integers, Sequences, FiniteSets

CONSTANTS
    LightChunks, HeavyChunks,           \* chunks of each path (49 and 3)
    Window,                             \* light_tx_proof_window()
    LIGHT_TX_PROOF_OVERLAP_START_STEP   \* (3)

\* A path has at least one chunk; the window is validated when it is read.
ASSUME PipelineAssumption ==
    /\ {LightChunks, HeavyChunks, Window} \subseteq Nat \ {0}
    /\ LIGHT_TX_PROOF_OVERLAP_START_STEP \in Nat

Paths == {"light", "heavy"}
ChunkCount == [light |-> LightChunks, heavy |-> HeavyChunks]
Steps(p) == 0 .. ChunkCount[p] - 1
None == -1

VARIABLES
    \* the path threads
    pc,             \* where the path's thread is
    step,           \* current_step
    inFlight,       \* in_flight: steps whose transaction proof is not joined
    pending,        \* pending_tx: the step that was joined last, or None
    chain,          \* the latest chain step started, or None
    drains,         \* exclusive_drain: the path has claimed the GPU
    \* the threads a path starts
    tx,             \* transaction proof of each step
    fold,           \* chain step: its state, its predecessor, the steps in its proof
    \* shared
    activePaths, exclusive, backlog,
    readers,        \* lanes that hold shared guards of a path's circuits
    released,       \* paths whose circuit extensions were released
    \* the other threads
    preExec, loads, \* startup: pre-execution proof, remaining circuits
    lane,           \* block-circuit-build
    main,
    prewarm,        \* block-store-prewarm, detached
    exit            \* how the process ended

pathVars == <<pc, step, inFlight, pending, chain, drains>>
threadVars == <<tx, fold>>
sharedVars == <<activePaths, exclusive, backlog>>
circuitVars == <<readers, released>>
otherVars == <<preExec, loads, lane, main, prewarm, exit>>
vars == <<pathVars, threadVars, sharedVars, circuitVars, otherVars>>

Init ==
    /\ pc = [p \in Paths |-> "none"]
    /\ step = [p \in Paths |-> 0]
    /\ inFlight = [p \in Paths |-> <<>>]
    /\ pending = [p \in Paths |-> None]
    /\ chain = [p \in Paths |-> None]
    /\ drains = [p \in Paths |-> FALSE]
    /\ tx = [p \in Paths |-> [k \in Steps(p) |-> "none"]]
    /\ fold = [p \in Paths |-> [k \in Steps(p) |-> [at |-> "none", previous |-> None, proof |-> <<>>]]]
    /\ activePaths = 2 /\ exclusive = FALSE /\ backlog = 0
    /\ readers = [p \in Paths |-> {}] /\ released = {}
    /\ preExec = "proving" /\ loads = "loading"
    /\ lane = "none" /\ main = "startup" /\ prewarm = "none" /\ exit = "running"

Running == exit = "running"

----------------------------------------------------------------------------
(***************************************************************************)
(* A path (prove_path).                                                    *)
(***************************************************************************)
\* Takes both shared guards, generates the first witness.
StartPath(p) ==
    /\ Running /\ pc[p] = "start"
    /\ readers' = [readers EXCEPT ![p] = @ \cup {"path"}]
    /\ pc' = [pc EXCEPT ![p] = "loop"]
    /\ UNCHANGED <<step, inFlight, pending, chain, drains, threadVars, sharedVars, released, otherVars>>

\* Starts the chain step k after the latest one; it is now part of the backlog.
SpawnChainStep(p, k) ==
    /\ fold' = [fold EXCEPT ![p][k] = [at |-> "seeding", previous |-> chain[p], proof |-> <<>>]]
    /\ chain' = [chain EXCEPT ![p] = k]
    /\ backlog' = backlog + 1
    /\ pending' = [pending EXCEPT ![p] = None]

\* The chain step of the transaction proof joined last, if there is one.
FoldPending(p) ==
    IF pending[p] # None THEN SpawnChainStep(p, pending[p])
    ELSE UNCHANGED <<fold, chain, backlog, pending>>

\* Top of the loop: start that chain step and the next transaction proof.
LoopTop(p) ==
    /\ Running /\ pc[p] = "loop"
    /\ FoldPending(p)
    /\ tx' = [tx EXCEPT ![p][step[p]] = "proving"]
    /\ pc' = [pc EXCEPT ![p] = "generate"]
    /\ UNCHANGED <<step, inFlight, drains, activePaths, exclusive, circuitVars, otherVars>>

MaxInFlight(p) ==
    IF p = "light"
    THEN IF step[p] >= LIGHT_TX_PROOF_OVERLAP_START_STEP THEN Window ELSE 2
    ELSE 1

\* The end of a round: the next chunk, if its witness was generated.
NextRound(p) ==
    /\ step' = [step EXCEPT ![p] = @ + 1]
    /\ pc' = [pc EXCEPT ![p] = IF step[p] + 1 < ChunkCount[p] THEN "loop" ELSE "tail"]

\* Generates the next witness, then joins the oldest proof if the window is full.
Generate(p) ==
    /\ Running /\ pc[p] = "generate"
    /\ inFlight' = [inFlight EXCEPT ![p] = Append(@, step[p])]
    /\ IF Len(inFlight[p]) + 1 >= MaxInFlight(p)
       THEN pc' = [pc EXCEPT ![p] = "join"] /\ UNCHANGED step
       ELSE NextRound(p)
    /\ UNCHANGED <<pending, chain, drains, threadVars, sharedVars, circuitVars, otherVars>>

\* Waits for the oldest transaction proof in flight.
JoinOldest(p) ==
    /\ inFlight[p] # <<>>
    /\ tx[p][Head(inFlight[p])] = "proved"
    /\ tx' = [tx EXCEPT ![p][Head(inFlight[p])] = "joined"]
    /\ pending' = [pending EXCEPT ![p] = Head(inFlight[p])]
    /\ inFlight' = [inFlight EXCEPT ![p] = Tail(@)]

JoinWindow(p) ==
    /\ Running /\ pc[p] = "join"
    /\ JoinOldest(p)
    /\ NextRound(p)
    /\ UNCHANGED <<chain, drains, fold, sharedVars, circuitVars, otherVars>>

(* Mutant: the step after the loop is not counted. *)
LoopEnd_NotCounted(p) ==
    /\ Running /\ pc[p] = "tail"
    /\ IF pending[p] = None THEN UNCHANGED <<fold, chain, pending>>
       ELSE /\ fold' = [fold EXCEPT ![p][pending[p]] =
                          [at |-> "seeding", previous |-> chain[p], proof |-> <<>>]]
            /\ chain' = [chain EXCEPT ![p] = pending[p]]
            /\ pending' = [pending EXCEPT ![p] = None]
    /\ pc' = [pc EXCEPT ![p] = "drain"]
    /\ UNCHANGED <<step, inFlight, drains, tx, sharedVars, circuitVars, otherVars>>

\* After the loop: the chain step that is still pending.
LoopEnd(p) ==
    /\ Running /\ pc[p] = "tail"
    /\ FoldPending(p)
    /\ pc' = [pc EXCEPT ![p] = "drain"]
    /\ UNCHANGED <<step, inFlight, drains, tx, activePaths, exclusive, circuitVars, otherVars>>

DrainJoin(p) ==
    /\ Running /\ pc[p] = "drain"
    /\ JoinOldest(p)
    /\ pc' = [pc EXCEPT ![p] = "claim"]
    /\ UNCHANGED <<step, chain, drains, fold, sharedVars, circuitVars, otherVars>>

(* Mutant: the path's own end is enough. *)
ClaimsExclusiveGpuPhase_OwnEnd(observed) == observed <= 2

ClaimsExclusiveGpuPhase(observed) == observed = 1

\* Claims the exclusive phase after the last transaction proof, if it observes
\* that the other path has retired (the load may return an older count); then
\* starts the chain step.
DrainStep(p) ==
    \E observed \in activePaths .. 2 :
        LET claims == ~drains[p] /\ inFlight[p] = <<>> /\ ClaimsExclusiveGpuPhase(observed)
        IN  /\ Running /\ pc[p] = "claim"
            /\ drains' = [drains EXCEPT ![p] = @ \/ claims]
            /\ exclusive' = (exclusive \/ claims)
            /\ SpawnChainStep(p, pending[p])
            /\ pc' = [pc EXCEPT ![p] = "drain"]
            /\ UNCHANGED <<step, inFlight, tx, activePaths, circuitVars, otherVars>>

\* Waits for the last chain step: its proof is the path's.
DrainEnd(p) ==
    /\ Running /\ pc[p] = "drain"
    /\ inFlight[p] = <<>>
    /\ chain[p] # None
    /\ fold[p][chain[p]].at = "proved"
    /\ exclusive' = (exclusive /\ ~drains[p])
    /\ pc' = [pc EXCEPT ![p] = "retire"]
    /\ UNCHANGED <<step, inFlight, pending, chain, drains, threadVars, activePaths, backlog,
                   circuitVars, otherVars>>

\* The path is no longer active; it returns and drops its guards.  The heavy
\* path leaves a detached thread behind.
RetirePath(p) ==
    /\ Running /\ pc[p] = "retire"
    /\ activePaths' = activePaths - 1
    /\ prewarm' = IF p = "heavy" THEN "running" ELSE prewarm
    /\ readers' = [readers EXCEPT ![p] = @ \ {"path"}]
    /\ pc' = [pc EXCEPT ![p] = "returned"]
    /\ UNCHANGED <<step, inFlight, pending, chain, drains, threadVars, exclusive, backlog,
                   released, preExec, loads, lane, main, exit>>

----------------------------------------------------------------------------
(***************************************************************************)
(* The threads of a path: transaction proofs and chain steps.              *)
(***************************************************************************)
ProveTxWitness(p, k) ==
    /\ Running /\ tx[p][k] = "proving"
    /\ tx' = [tx EXCEPT ![p][k] = "proved"]
    /\ UNCHANGED <<pathVars, fold, sharedVars, circuitVars, otherVars>>

\* Phase 1: the inputs that do not depend on the predecessor.
SeedChainStep(p, k) ==
    /\ Running /\ fold[p][k].at = "seeding"
    /\ fold' = [fold EXCEPT ![p][k].at = "waiting"]
    /\ UNCHANGED <<pathVars, tx, sharedVars, circuitVars, otherVars>>

(* Mutant: takes the predecessor as it is. *)
FeedChainStep_NoWait(p, k) ==
    /\ Running /\ fold[p][k].at = "waiting"
    /\ fold' = [fold EXCEPT ![p][k].at = "proving"]
    /\ UNCHANGED <<pathVars, tx, sharedVars, circuitVars, otherVars>>

\* Phase 2: wait for the predecessor's proof and feed it.
FeedChainStep(p, k) ==
    /\ Running /\ fold[p][k].at = "waiting"
    /\ fold[p][k].previous # None => fold[p][fold[p][k].previous].at = "proved"
    /\ fold' = [fold EXCEPT ![p][k].at = "proving"]
    /\ UNCHANGED <<pathVars, tx, sharedVars, circuitVars, otherVars>>

PreviousProof(p, k) ==
    IF fold[p][k].previous = None THEN <<>> ELSE fold[p][fold[p][k].previous].proof

ProveChainStep(p, k) ==
    /\ Running /\ fold[p][k].at = "proving"
    /\ fold' = [fold EXCEPT ![p][k].at = "proved",
                            ![p][k].proof = Append(PreviousProof(p, k), k)]
    /\ backlog' = backlog - 1
    /\ UNCHANGED <<pathVars, tx, activePaths, exclusive, circuitVars, otherVars>>

----------------------------------------------------------------------------
(***************************************************************************)
(* The lane that builds the block circuit and feeds the heavy chain proof. *)
(***************************************************************************)
\* build_block_circuit holds guards of both chain circuits while it defines.
DefineBlockCircuit ==
    /\ Running /\ lane = "start"
    /\ readers' = [p \in Paths |-> readers[p] \cup {"lane"}]
    /\ lane' = "defining"
    /\ UNCHANGED <<pathVars, threadVars, sharedVars, released, preExec, loads, main, prewarm, exit>>

(* Mutant: the lane keeps its guards. *)
BuildBlockCircuit_KeepsGuards ==
    /\ Running /\ lane = "defining"
    /\ lane' = "seeded"
    /\ UNCHANGED <<pathVars, threadVars, sharedVars, circuitVars, preExec, loads, main, prewarm, exit>>

BuildBlockCircuit ==
    /\ Running /\ lane = "defining"
    /\ readers' = [p \in Paths |-> readers[p] \ {"lane"}]
    /\ lane' = "seeded"
    /\ UNCHANGED <<pathVars, threadVars, sharedVars, released, preExec, loads, main, prewarm, exit>>

Returned(p) == pc[p] = "returned"

(* Mutant: trusts the locks alone. *)
JoinHeavy_NoWait ==
    /\ Running /\ lane = "seeded"
    /\ lane' = "release"
    /\ UNCHANGED <<pathVars, threadVars, sharedVars, circuitVars, preExec, loads, main, prewarm, exit>>

JoinHeavy ==
    /\ Running /\ lane = "seeded"
    /\ Returned("heavy")
    /\ lane' = "release"
    /\ UNCHANGED <<pathVars, threadVars, sharedVars, circuitVars, preExec, loads, main, prewarm, exit>>

\* The exclusive guard is granted when no shared one is held.
ReleaseHeavy ==
    /\ Running /\ lane = "release"
    /\ readers["heavy"] = {}
    /\ released' = released \cup {"heavy"}
    /\ lane' = "done"
    /\ UNCHANGED <<pathVars, threadVars, sharedVars, readers, preExec, loads, main, prewarm, exit>>

----------------------------------------------------------------------------
(***************************************************************************)
(* The main thread.                                                        *)
(***************************************************************************)
PreExecutionProof ==
    /\ Running /\ preExec = "proving"
    /\ preExec' = "proved"
    /\ UNCHANGED <<pathVars, threadVars, sharedVars, circuitVars, loads, lane, main, prewarm, exit>>

LoadRemaining ==
    /\ Running /\ loads = "loading"
    /\ loads' = "loaded"
    /\ UNCHANGED <<pathVars, threadVars, sharedVars, circuitVars, preExec, lane, main, prewarm, exit>>

\* Both startup threads are joined, then the three lanes start.
StartLanes ==
    /\ Running /\ main = "startup"
    /\ preExec = "proved" /\ loads = "loaded"
    /\ pc' = [p \in Paths |-> "start"]
    /\ lane' = "start"
    /\ main' = "join lane"
    /\ UNCHANGED <<step, inFlight, pending, chain, drains, threadVars, sharedVars, circuitVars,
                   preExec, loads, prewarm, exit>>

JoinLane ==
    /\ Running /\ main = "join lane"
    /\ lane = "done"
    /\ main' = "join light"
    /\ UNCHANGED <<pathVars, threadVars, sharedVars, circuitVars, preExec, loads, lane, prewarm, exit>>

JoinLight ==
    /\ Running /\ main = "join light"
    /\ Returned("light")
    /\ main' = "release"
    /\ UNCHANGED <<pathVars, threadVars, sharedVars, circuitVars, preExec, loads, lane, prewarm, exit>>

\* Releases the light pair and, as a backstop, every finished circuit.
ReleaseLight ==
    /\ Running /\ main = "release"
    /\ readers["light"] = {}
    /\ released' = Paths
    /\ exclusive' = TRUE
    /\ main' = "final"
    /\ UNCHANGED <<pathVars, threadVars, activePaths, backlog, readers, preExec, loads, lane, prewarm, exit>>

\* The final block proof, from both chain proofs.
ProveBlock ==
    /\ Running /\ main = "final"
    /\ exclusive' = FALSE
    /\ main' = "write"
    /\ UNCHANGED <<pathVars, threadVars, activePaths, backlog, circuitVars, preExec, loads, lane, prewarm, exit>>

\* Writes the proof and leaves without waiting for anything.
WriteAndExit ==
    /\ Running /\ main = "write"
    /\ exit' = "written"
    /\ UNCHANGED <<pathVars, threadVars, sharedVars, circuitVars, preExec, loads, lane, main, prewarm>>

PrewarmDone ==
    /\ Running /\ prewarm = "running"
    /\ prewarm' = "done"
    /\ UNCHANGED <<pathVars, threadVars, sharedVars, circuitVars, preExec, loads, lane, main, exit>>

\* Some thread panics: the process aborts without a proof.
Panic ==
    /\ Running
    /\ exit' = "aborted"
    /\ UNCHANGED <<pathVars, threadVars, sharedVars, circuitVars, preExec, loads, lane, main, prewarm>>

Ended == ~Running /\ UNCHANGED vars

----------------------------------------------------------------------------
PathNext(p) ==
    \/ StartPath(p) \/ LoopTop(p) \/ Generate(p) \/ JoinWindow(p) \/ LoopEnd(p)
    \/ DrainJoin(p) \/ DrainStep(p) \/ DrainEnd(p) \/ RetirePath(p)
StepNext(p, k) ==
    \/ ProveTxWitness(p, k) \/ SeedChainStep(p, k) \/ FeedChainStep(p, k) \/ ProveChainStep(p, k)
LaneNext == DefineBlockCircuit \/ BuildBlockCircuit \/ JoinHeavy \/ ReleaseHeavy
MainNext == StartLanes \/ JoinLane \/ JoinLight \/ ReleaseLight \/ ProveBlock \/ WriteAndExit

Next ==
    \/ \E p \in Paths : PathNext(p) \/ (\E k \in Steps(p) : StepNext(p, k))
    \/ LaneNext \/ MainNext
    \/ PreExecutionProof \/ LoadRemaining \/ PrewarmDone
    \/ Panic \/ Ended

Spec == Init /\ [][Next]_vars

\* Every thread that can run is run by the operating system.
FairSpec ==
    /\ Spec
    /\ \A p \in Paths : WF_vars(PathNext(p)) /\ \A k \in Steps(p) : WF_vars(StepNext(p, k))
    /\ WF_vars(LaneNext) /\ WF_vars(MainNext)
    /\ WF_vars(PreExecutionProof) /\ WF_vars(LoadRemaining)

----------------------------------------------------------------------------
ProvingTxs(p) == {k \in Steps(p) : tx[p][k] = "proving"}
ProvingFolds(p) == {k \in Steps(p) : fold[p][k].at = "proving"}
Unproved(p) == {k \in Steps(p) : fold[p][k].at \in {"seeding", "waiting", "proving"}}

\* Each thread is somewhere in its program.
TypeOK ==
    /\ \A p \in Paths :
          /\ pc[p] \in {"none", "start", "loop", "generate", "join", "tail", "drain", "claim",
                        "retire", "returned"}
          /\ step[p] \in 0 .. ChunkCount[p]
          /\ inFlight[p] \in Seq(Steps(p))
          /\ {pending[p], chain[p]} \subseteq Steps(p) \cup {None}
          /\ tx[p] \in [Steps(p) -> {"none", "proving", "proved", "joined"}]
          /\ readers[p] \subseteq {"path", "lane"}
    /\ activePaths \in 0 .. 2
    /\ released \subseteq Paths

\* While the exclusive GPU phase is on, nothing but one proof is being computed:
\* its users rely on it and the switch is process-global (set_exclusive_gpu_phase).
ExclusivePhaseIsAlone ==
    exclusive =>
        /\ preExec = "proved"
        /\ \A p \in Paths : ProvingTxs(p) = {}
        /\ \A p, q \in Paths : \A j \in ProvingFolds(p), k \in ProvingFolds(q) : p = q /\ j = k
        /\ main = "final" => \A p \in Paths : ProvingFolds(p) = {}

\* No circuit's extensions are released while a proof of that circuit, or the
\* definition of the block circuit, may still read them.
ReleasedIsUnused ==
    \A p \in released :
        /\ ProvingTxs(p) = {} /\ ProvingFolds(p) = {}
        /\ Returned(p) /\ lane # "defining"

\* The backlog counts the chain steps that were started and are not proved, at
\* all three places that start one; otherwise the spine stays urgent for good.
BacklogExact ==
    backlog = Cardinality(Unproved("light")) + Cardinality(Unproved("heavy"))

\* The transaction proofs in flight never exceed the window, nor, when the
\* window is narrower than the ramp before it, the ramp (max_in_flight).
WindowBounds ==
    /\ Cardinality(ProvingTxs("heavy")) <= 1
    /\ Cardinality(ProvingTxs("light")) <= (IF Window < 2 THEN 2 ELSE Window)

\* What decides when a step may start agrees with the threads that run: the
\* backlog of the spine and the window of each path.
CountersExact == BacklogExact /\ WindowBounds

\* The pipeline folds every chunk in order and proves the block from complete
\* chains, whatever the order in which its threads finish.
LatestProof(p) ==
    LET done == {k \in Steps(p) : fold[p][k].at = "proved"}
    IN  IF done = {} THEN <<>>
        ELSE fold[p][CHOOSE k \in done : \A j \in done : j <= k].proof
Abstract == INSTANCE BlockProof WITH
    Paths <- Paths, ChunkCount <- ChunkCount,
    chain <- [p \in Paths |-> LatestProof(p)],
    proved <- main = "write"
RefinesBlockProof == Abstract!Spec

\* No thread waits for ever: the proof is written unless a thread panics.
ProofIsWritten == <>(exit # "running")

============================================================================
