----------------------- MODULE ProvingPipelineProofs -----------------------
(***************************************************************************)
(* Theorems about ProvingPipeline, for any number of chunks and any window.*)
(***************************************************************************)
EXTENDS ProvingPipeline, FiniteSetTheorems, TLAPS

PathStates == {"none", "start", "loop", "generate", "join", "tail", "drain", "claim",
               "retire", "returned"}
TxStates == {"none", "proving", "proved", "joined"}
FoldStates == {"none", "seeding", "waiting", "proving", "proved"}
FoldRecords == [at : FoldStates, previous : Int, proof : Seq(Nat)]
LaneStates == {"none", "start", "defining", "seeded", "release", "done"}
MainStates == {"startup", "join lane", "join light", "release", "final", "write"}

Types ==
    /\ pc \in [Paths -> PathStates]
    /\ step \in [Paths -> Nat]
    /\ inFlight \in [Paths -> Seq(Nat)]
    /\ pending \in [Paths -> Int]
    /\ chain \in [Paths -> Int]
    /\ drains \in [Paths -> BOOLEAN]
    /\ DOMAIN tx = Paths /\ DOMAIN fold = Paths
    /\ \A p \in Paths :
          /\ tx[p] \in [Steps(p) -> TxStates]
          /\ fold[p] \in [Steps(p) -> FoldRecords]
    /\ readers \in [Paths -> SUBSET {"path", "lane"}]
    /\ released \subseteq Paths
    /\ exclusive \in BOOLEAN
    /\ lane \in LaneStates /\ main \in MainStates

\* The steps whose transaction proof was joined, and the ones that were started.
Joined(p) == IF pending[p] = None THEN chain[p] + 1 ELSE chain[p] + 2
Started(p) == IF pc[p] \in {"generate", "join"} THEN step[p] + 1 ELSE step[p]

\* The queue holds the steps that were started and not joined, in order.
QueueInv(p) ==
    /\ \A i \in 1 .. Len(inFlight[p]) : inFlight[p][i] = Joined(p) + i - 1
    /\ Joined(p) + Len(inFlight[p]) = IF pc[p] = "join" THEN step[p] + 1 ELSE step[p]
    /\ -1 <= chain[p]
    /\ pending[p] # None => pending[p] = chain[p] + 1

\* Where the thread is tells how far it is.
PathInv(p) ==
    /\ pc[p] \in {"none", "start"} => step[p] = 0 /\ chain[p] = None /\ pending[p] = None
    /\ pc[p] \in {"none", "start", "loop", "generate", "join"} => step[p] < ChunkCount[p]
    /\ pc[p] \in {"tail", "drain", "claim", "retire", "returned"} => step[p] = ChunkCount[p]
    /\ pc[p] \in {"generate", "join", "drain", "retire", "returned"} => pending[p] = None
    /\ pc[p] = "claim" => pending[p] # None
    /\ pc[p] \in {"retire", "returned"} =>
          /\ inFlight[p] = <<>>
          /\ fold[p][ChunkCount[p] - 1].at = "proved"

TxInv(p) ==
    \A k \in Steps(p) :
        /\ tx[p][k] = "none" <=> k >= Started(p)
        /\ tx[p][k] = "joined" <=> k < Joined(p)

UpTo(k) == [i \in 1 .. k + 1 |-> i - 1]

FoldInv(p) ==
    \A k \in Steps(p) :
        /\ fold[p][k].at = "none" <=> k > chain[p]
        /\ fold[p][k].at # "none" => fold[p][k].previous = k - 1
        /\ fold[p][k].at \in {"proving", "proved"} =>
              \A j \in Steps(p) : j < k => fold[p][j].at = "proved"
        /\ fold[p][k].at = "proved" => fold[p][k].proof = UpTo(k)

Active(p) == IF pc[p] = "returned" THEN 0 ELSE 1

\* How the lanes are synchronised.
SyncInv ==
    /\ main # "startup" => preExec = "proved"
    /\ \A p \in Paths : pc[p] = "none" <=> main = "startup"
    /\ activePaths = Active("light") + Active("heavy")
    /\ lane = "none" <=> main = "startup"
    /\ lane \in {"release", "done"} => pc["heavy"] = "returned"
    /\ main \notin {"startup", "join lane"} => lane = "done"
    /\ main \in {"release", "final", "write"} => pc["light"] = "returned"
    /\ \A p \in released : pc[p] = "returned"
    /\ released # {} => lane = "done"
    /\ \A p \in Paths : drains[p] =>
          /\ pc[p] \in {"drain", "retire", "returned"}
          /\ inFlight[p] = <<>>
          /\ \A q \in Paths : q # p => pc[q] = "returned"
    /\ exclusive => main = "final" \/ \E p \in Paths : drains[p] /\ pc[p] = "drain"

LocalInv(p) == QueueInv(p) /\ PathInv(p) /\ TxInv(p) /\ FoldInv(p)

IInv ==
    /\ Types
    /\ \A p \in Paths : LocalInv(p)
    /\ SyncInv

----------------------------------------------------------------------------
\* Every path has at least one chunk.
LEMMA ChunkCountType == \A p \in Paths : ChunkCount[p] \in Nat /\ ChunkCount[p] > 0
BY PipelineAssumption DEF Paths, ChunkCount

\* The inductive invariant holds when the process starts.
LEMMA InitIInv == Init => IInv
<1> SUFFICES ASSUME Init PROVE IInv
  OBVIOUS
<1>1. Types
  <2> DEFINE r == [at |-> "none", previous |-> None, proof |-> <<>>]
  <2>1. r \in FoldRecords
    BY DEF FoldRecords, FoldStates, None
  <2>2. fold = [p \in Paths |-> [k \in Steps(p) |-> r]]
    BY DEF Init
  <2> HIDE DEF r
  <2>3. DOMAIN fold = Paths /\ \A p \in Paths : fold[p] \in [Steps(p) -> FoldRecords]
    BY <2>1, <2>2
  <2>4. DOMAIN tx = Paths /\ \A p \in Paths : tx[p] \in [Steps(p) -> TxStates]
    BY DEF Init, TxStates
  <2>5. /\ pc \in [Paths -> PathStates] /\ step \in [Paths -> Nat] /\ inFlight \in [Paths -> Seq(Nat)]
        /\ pending \in [Paths -> Int] /\ chain \in [Paths -> Int] /\ drains \in [Paths -> BOOLEAN]
        /\ readers \in [Paths -> SUBSET {"path", "lane"}]
    BY DEF Init, PathStates, None
  <2> QED
    BY <2>3, <2>4, <2>5 DEF Init, Types, LaneStates, MainStates
<1>2. ASSUME NEW p \in Paths PROVE LocalInv(p)
  BY <1>2, ChunkCountType DEF Init, LocalInv, QueueInv, PathInv, TxInv, FoldInv, Joined, Started, Steps, None
<1>3. SyncInv
  BY DEF Init, SyncInv, Active, Paths
<1> QED
  BY <1>1, <1>2, <1>3 DEF IInv


\* Replacing one chain step's record, as a function of paths and steps.
LEMMA FoldUpdate ==
  ASSUME Types, NEW p \in Paths, NEW k \in Steps(p), NEW r,
         fold' = [fold EXCEPT ![p][k] = r]
  PROVE  /\ DOMAIN fold' = Paths
         /\ \A q \in Paths : DOMAIN fold'[q] = Steps(q)
         /\ \A q \in Paths : \A j \in Steps(q) :
               fold'[q][j] = IF q = p /\ j = k THEN r ELSE fold[q][j]
         /\ r \in FoldRecords => \A q \in Paths : fold'[q] \in [Steps(q) -> FoldRecords]
BY DEF Types

\* Replacing the state of one transaction proof.
LEMMA TxUpdate ==
  ASSUME Types, NEW p \in Paths, NEW k \in Steps(p), NEW r,
         tx' = [tx EXCEPT ![p][k] = r]
  PROVE  /\ DOMAIN tx' = Paths
         /\ \A q \in Paths : \A j \in Steps(q) :
               tx'[q][j] = IF q = p /\ j = k THEN r ELSE tx[q][j]
         /\ r \in TxStates => \A q \in Paths : tx'[q] \in [Steps(q) -> TxStates]
BY DEF Types

\* What SpawnChainStep does to the table of chain steps.
LEMMA SpawnUpdate ==
  ASSUME Types, NEW p \in Paths, NEW k \in Steps(p), SpawnChainStep(p, k)
  PROVE  /\ DOMAIN fold' = Paths
         /\ \A q \in Paths : fold'[q] \in [Steps(q) -> FoldRecords]
         /\ \A q \in Paths : \A j \in Steps(q) : q # p \/ j # k => fold'[q][j] = fold[q][j]
         /\ fold'[p][k].at = "seeding" /\ fold'[p][k].previous = chain[p]
         /\ chain' = [chain EXCEPT ![p] = k]
         /\ pending' = [pending EXCEPT ![p] = None]
<1> DEFINE r == [at |-> "seeding", previous |-> chain[p], proof |-> <<>>]
<1>1. r \in FoldRecords
  BY DEF FoldRecords, FoldStates, Types
<1>2. r.at = "seeding" /\ r.previous = chain[p]
  OBVIOUS
<1>3. fold' = [fold EXCEPT ![p][k] = r] /\ chain' = [chain EXCEPT ![p] = k]
      /\ pending' = [pending EXCEPT ![p] = None]
  BY DEF SpawnChainStep
<1> HIDE DEF r
<1>4. /\ DOMAIN fold' = Paths
      /\ \A q \in Paths : \A j \in Steps(q) :
            fold'[q][j] = IF q = p /\ j = k THEN r ELSE fold[q][j]
      /\ \A q \in Paths : fold'[q] \in [Steps(q) -> FoldRecords]
  <2>1. fold' = [fold EXCEPT ![p][k] = r]
    BY <1>3
  <2> QED
    BY ONLY <1>1, <2>1, FoldUpdate, Types, p \in Paths, k \in Steps(p)
<1>5. \A q \in Paths : \A j \in Steps(q) : q # p \/ j # k => fold'[q][j] = fold[q][j]
  BY ONLY <1>4
<1>6. fold'[p][k] = r
  BY ONLY <1>4, p \in Paths, k \in Steps(p)
<1>7. fold'[p][k].at = "seeding" /\ fold'[p][k].previous = chain[p]
  BY ONLY <1>2, <1>6
<1> QED
  BY ONLY <1>3, <1>4, <1>5, <1>7

SetAt(p, k, a) == fold' = [fold EXCEPT ![p][k].at = a]
SetProof(p, k, s) == fold' = [fold EXCEPT ![p][k].at = "proved", ![p][k].proof = s]

\* A chain step that moves on keeps its predecessor and its proof.
LEMMA AtUpdate ==
  ASSUME Types, NEW p \in Paths, NEW k \in Steps(p), NEW a \in FoldStates, SetAt(p, k, a)
  PROVE  /\ DOMAIN fold' = Paths
         /\ \A q \in Paths : fold'[q] \in [Steps(q) -> FoldRecords]
         /\ \A q \in Paths : \A j \in Steps(q) : q # p \/ j # k => fold'[q][j] = fold[q][j]
         /\ fold'[p][k].at = a /\ fold'[p][k].previous = fold[p][k].previous
         /\ fold'[p][k].proof = fold[p][k].proof
<1> DEFINE r == [fold[p][k] EXCEPT !.at = a]
<1>1. fold[p][k] \in FoldRecords
  BY DEF Types
<1>2. r \in FoldRecords /\ r.at = a /\ r.previous = fold[p][k].previous /\ r.proof = fold[p][k].proof
  BY <1>1 DEF FoldRecords
<1>3. fold' = [fold EXCEPT ![p][k] = r]
  BY DEF SetAt
<1> HIDE DEF r
<1>4. /\ DOMAIN fold' = Paths
      /\ \A q \in Paths : fold'[q] \in [Steps(q) -> FoldRecords]
      /\ \A q \in Paths : \A j \in Steps(q) :
            fold'[q][j] = IF q = p /\ j = k THEN r ELSE fold[q][j]
  BY <1>2, <1>3, FoldUpdate, Zenon
<1>5. fold'[p][k] = r
  BY <1>4, Zenon
<1>6. \A q \in Paths : \A j \in Steps(q) : q # p \/ j # k => fold'[q][j] = fold[q][j]
  BY <1>4, Zenon
<1> QED
  BY <1>2, <1>4, <1>5, <1>6, Zenon

\* A chain step that ends keeps its predecessor.
LEMMA ProofUpdate ==
  ASSUME Types, NEW p \in Paths, NEW k \in Steps(p), NEW s \in Seq(Nat), SetProof(p, k, s)
  PROVE  /\ DOMAIN fold' = Paths
         /\ \A q \in Paths : fold'[q] \in [Steps(q) -> FoldRecords]
         /\ \A q \in Paths : \A j \in Steps(q) : q # p \/ j # k => fold'[q][j] = fold[q][j]
         /\ fold'[p][k].at = "proved" /\ fold'[p][k].previous = fold[p][k].previous
         /\ fold'[p][k].proof = s
<1> DEFINE r == [fold[p][k] EXCEPT !.at = "proved", !.proof = s]
<1>1. fold[p][k] \in FoldRecords
  BY DEF Types
<1>2. r \in FoldRecords /\ r.at = "proved" /\ r.previous = fold[p][k].previous /\ r.proof = s
  BY <1>1 DEF FoldRecords, FoldStates
<1>3. fold' = [fold EXCEPT ![p][k] = r]
  BY DEF Types, SetProof
<1> HIDE DEF r
<1>4. /\ DOMAIN fold' = Paths
      /\ \A q \in Paths : fold'[q] \in [Steps(q) -> FoldRecords]
      /\ \A q \in Paths : \A j \in Steps(q) :
            fold'[q][j] = IF q = p /\ j = k THEN r ELSE fold[q][j]
  BY <1>2, <1>3, FoldUpdate, Zenon
<1>5. fold'[p][k] = r
  BY <1>4, Zenon
<1>6. \A q \in Paths : \A j \in Steps(q) : q # p \/ j # k => fold'[q][j] = fold[q][j]
  BY <1>4, Zenon
<1> QED
  BY <1>2, <1>4, <1>5, <1>6, Zenon

----------------------------------------------------------------------------
\* The other path does not notice.
SamePath(q) ==
    /\ pc'[q] = pc[q] /\ step'[q] = step[q] /\ inFlight'[q] = inFlight[q]
    /\ pending'[q] = pending[q] /\ chain'[q] = chain[q]
    /\ tx'[q] = tx[q] /\ fold'[q] = fold[q]

\* A step that leaves everything local to a path alone keeps its local invariant.
LEMMA Frame ==
  ASSUME NEW q \in Paths, LocalInv(q), SamePath(q)
  PROVE  LocalInv(q)'
BY DEF LocalInv, SamePath, QueueInv, PathInv, TxInv, FoldInv, Joined, Started

\* Starting the chain step of the pending transaction proof.
LEMMA SpawnFacts ==
  ASSUME Types, NEW p \in Paths, QueueInv(p), FoldInv(p),
         pending[p] # None, pending[p] \in Steps(p), SpawnChainStep(p, pending[p])
  PROVE  /\ FoldInv(p)'
         /\ chain'[p] = pending[p] /\ pending'[p] = None
         /\ \A q \in Paths : q # p => /\ fold'[q] = fold[q]
                                      /\ chain'[q] = chain[q] /\ pending'[q] = pending[q]
<1>1. chain'[p] = pending[p] /\ pending'[p] = None
  BY SpawnUpdate DEF Types
<1>2. ASSUME NEW q \in Paths, q # p
      PROVE  fold'[q] = fold[q] /\ chain'[q] = chain[q] /\ pending'[q] = pending[q]
  BY <1>2 DEF SpawnChainStep, Types
<1>3. FoldInv(p)'
  <2> DEFINE k == pending[p]
  <2>1. k = chain[p] + 1 /\ k \in Int /\ chain[p] \in Int
    BY DEF QueueInv, Types
  <2>2. /\ \A j \in Steps(p) : j # k => fold'[p][j] = fold[p][j]
        /\ fold'[p][k].at = "seeding" /\ fold'[p][k].previous = chain[p]
    BY SpawnUpdate
  <2> HIDE DEF k
  <2>3. chain'[p] = k
    BY <1>1 DEF k
  <2> QED
    BY <2>1, <2>2, <2>3 DEF FoldInv, Steps
<1> QED
  BY <1>1, <1>2, <1>3

\* What the top and the end of the loop do to the chain steps.
LEMMA FoldPendingFacts ==
  ASSUME Types, NEW p \in Paths, QueueInv(p), FoldInv(p),
         pending[p] # None => pending[p] \in Steps(p), FoldPending(p)
  PROVE  /\ FoldInv(p)'
         /\ chain'[p] \in Int /\ -1 <= chain'[p] /\ pending'[p] = None /\ chain'[p] + 1 = Joined(p)
         /\ \A q \in Paths : q # p => /\ fold'[q] = fold[q]
                                      /\ chain'[q] = chain[q] /\ pending'[q] = pending[q]
<1>1. CASE pending[p] # None
  <2>1. SpawnChainStep(p, pending[p])
    BY <1>1 DEF FoldPending
  <2>2. /\ FoldInv(p)'
        /\ chain'[p] = pending[p] /\ pending'[p] = None
        /\ \A q \in Paths : q # p => /\ fold'[q] = fold[q]
                                     /\ chain'[q] = chain[q] /\ pending'[q] = pending[q]
    BY <1>1, <2>1, SpawnFacts
  <2>3. pending[p] \in Int /\ -1 <= pending[p] /\ pending[p] + 1 = Joined(p)
    BY <1>1 DEF QueueInv, Joined, Types
  <2> QED
    BY <2>2, <2>3
<1>2. CASE pending[p] = None
  <2>1. fold' = fold /\ chain' = chain /\ pending' = pending
    BY <1>2 DEF FoldPending
  <2> QED
    <3>1. FoldInv(p)'
      BY <2>1 DEF FoldInv
    <3>2. chain[p] \in Int /\ -1 <= chain[p] /\ chain[p] + 1 = Joined(p)
      BY <1>2 DEF QueueInv, Joined, Types
    <3> QED
      BY <1>2, <2>1, <3>1, <3>2
<1> QED
  BY <1>1, <1>2

\* Joining the oldest transaction proof.
LEMMA JoinFacts ==
  ASSUME Types, NEW p \in Paths, QueueInv(p), PathInv(p), TxInv(p),
         pc[p] \in {"join", "drain"}, JoinOldest(p)
  PROVE  /\ pending'[p] = chain[p] + 1 /\ pending'[p] \in Steps(p) /\ pending[p] = None
         /\ Len(inFlight'[p]) = Len(inFlight[p]) - 1
         /\ \A i \in 1 .. Len(inFlight'[p]) : inFlight'[p][i] = chain[p] + 1 + i
         /\ \A j \in Steps(p) : tx'[p][j] = IF j = chain[p] + 1 THEN "joined" ELSE tx[p][j]
         /\ \A q \in Paths : q # p => /\ tx'[q] = tx[q] /\ pending'[q] = pending[q]
                                      /\ inFlight'[q] = inFlight[q]
<1> DEFINE k == Head(inFlight[p])
<1>1. inFlight[p] \in Seq(Nat) /\ inFlight[p] # <<>> /\ Len(inFlight[p]) \in Nat /\ Len(inFlight[p]) > 0
  BY DEF Types, JoinOldest
<1>2. pending[p] = None /\ chain[p] \in Int /\ step[p] \in Nat
  BY DEF PathInv, Types
<1>3. k = inFlight[p][1]
  BY <1>1
<1>4. k = chain[p] + 1
  <2>1. Joined(p) = chain[p] + 1
    BY <1>2 DEF Joined
  <2>2. inFlight[p][1] = Joined(p) + 1 - 1
    BY <1>1 DEF QueueInv
  <2> QED
    BY <1>2, <1>3, <2>1, <2>2
<1>5. k \in Steps(p)
  <2>1. chain[p] + 1 + Len(inFlight[p]) = IF pc[p] = "join" THEN step[p] + 1 ELSE step[p]
    BY <1>2 DEF QueueInv, Joined
  <2>2. step[p] <= ChunkCount[p] /\ (pc[p] = "join" => step[p] < ChunkCount[p])
    BY <1>2, ChunkCountType DEF PathInv
  <2>3. -1 <= chain[p]
    BY DEF QueueInv
  <2> HIDE DEF k
  <2> QED
    <3>1. ChunkCount[p] \in Nat
      BY ChunkCountType
    <3>2. k \in Int /\ 0 <= k
      BY <1>2, <1>4, <2>3
    <3>3. k < ChunkCount[p]
      <4>1. CASE pc[p] = "join"
        BY <1>1, <1>2, <1>4, <2>1, <2>2, <3>1, <4>1
      <4>2. CASE pc[p] # "join"
        BY <1>1, <1>2, <1>4, <2>1, <2>2, <3>1, <4>2
      <4> QED
        BY <4>1, <4>2
    <3> QED
      BY <3>1, <3>2, <3>3 DEF Steps
<1>6. /\ tx' = [tx EXCEPT ![p][k] = "joined"]
      /\ pending' = [pending EXCEPT ![p] = k]
      /\ inFlight' = [inFlight EXCEPT ![p] = Tail(inFlight[p])]
  BY DEF JoinOldest
<1>7. Len(inFlight'[p]) = Len(inFlight[p]) - 1
      /\ \A i \in 1 .. Len(inFlight'[p]) : inFlight'[p][i] = inFlight[p][i + 1]
  BY <1>1, <1>6 DEF Types
<1>8. \A i \in 1 .. Len(inFlight'[p]) : inFlight'[p][i] = chain[p] + 1 + i
  BY <1>1, <1>2, <1>7 DEF QueueInv, Joined
<1> HIDE DEF k
<1>9. \A j \in Steps(p) : tx'[p][j] = IF j = chain[p] + 1 THEN "joined" ELSE tx[p][j]
  BY <1>4, <1>5, <1>6 DEF Types
<1>10. \A q \in Paths : q # p => tx'[q] = tx[q] /\ pending'[q] = pending[q] /\ inFlight'[q] = inFlight[q]
  BY <1>6 DEF Types
<1>11. pending'[p] = k
  BY <1>6 DEF Types
<1> QED
  BY <1>2, <1>4, <1>5, <1>7, <1>8, <1>9, <1>10, <1>11

\* What is pending is the next step of the path.
LEMMA PendingStep ==
  ASSUME Types, NEW p \in Paths, QueueInv(p), PathInv(p), pending[p] # None
  PROVE  pending[p] \in Steps(p)
<1>1. /\ chain[p] + 2 + Len(inFlight[p]) = IF pc[p] = "join" THEN step[p] + 1 ELSE step[p]
      /\ -1 <= chain[p] /\ pending[p] = chain[p] + 1
  BY DEF QueueInv, Joined
<1>2. step[p] <= ChunkCount[p] /\ pc[p] # "join"
  BY ChunkCountType DEF PathInv, Types, PathStates
<1>3. chain[p] \in Int /\ step[p] \in Nat /\ Len(inFlight[p]) \in Nat
  BY DEF Types
<1> QED
  BY <1>1, <1>2, <1>3, ChunkCountType DEF Steps

\* Starting the pending chain step keeps the types.
LEMMA FoldPendingTypes ==
  ASSUME Types, NEW p \in Paths, LocalInv(p), FoldPending(p)
  PROVE  /\ DOMAIN fold' = Paths /\ \A q \in Paths : fold'[q] \in [Steps(q) -> FoldRecords]
         /\ chain' \in [Paths -> Int] /\ pending' \in [Paths -> Int]
<1>1. CASE pending[p] # None
  <2>1. pending[p] \in Steps(p) /\ SpawnChainStep(p, pending[p])
    BY <1>1, PendingStep DEF FoldPending, LocalInv
  <2>2. /\ DOMAIN fold' = Paths /\ \A q \in Paths : fold'[q] \in [Steps(q) -> FoldRecords]
        /\ chain' = [chain EXCEPT ![p] = pending[p]]
        /\ pending' = [pending EXCEPT ![p] = None]
    BY <2>1, SpawnUpdate
  <2> QED
    BY <2>2 DEF Types, None
<1>2. CASE pending[p] = None
  BY <1>2 DEF FoldPending, Types
<1> QED
  BY <1>1, <1>2

\* Joining the oldest transaction proof keeps the types.
LEMMA JoinTypes ==
  ASSUME Types, NEW p \in Paths, LocalInv(p), pc[p] \in {"join", "drain"}, JoinOldest(p)
  PROVE  /\ DOMAIN tx' = Paths /\ \A q \in Paths : tx'[q] \in [Steps(q) -> TxStates]
         /\ pending' \in [Paths -> Int] /\ inFlight' \in [Paths -> Seq(Nat)]
<1>1. /\ tx' = [tx EXCEPT ![p][Head(inFlight[p])] = "joined"]
      /\ pending' = [pending EXCEPT ![p] = Head(inFlight[p])]
      /\ inFlight' = [inFlight EXCEPT ![p] = Tail(inFlight[p])]
      /\ inFlight[p] # <<>> /\ inFlight[p] \in Seq(Nat)
  BY DEF JoinOldest, Types
<1>2. Head(inFlight[p]) \in Nat /\ Tail(inFlight[p]) \in Seq(Nat)
  BY <1>1
<1>3. pending' \in [Paths -> Int] /\ inFlight' \in [Paths -> Seq(Nat)]
  BY <1>1, <1>2 DEF Types
<1>4. pending'[p] = Head(inFlight[p]) /\ pending'[p] \in Steps(p)
  BY <1>1, JoinFacts DEF LocalInv, Types
<1>5. DOMAIN tx' = Paths /\ \A q \in Paths : tx'[q] \in [Steps(q) -> TxStates]
  BY <1>1, <1>4, TxUpdate DEF TxStates
<1> QED
  BY <1>3, <1>5

\* The proof that a chain step extends.
LEMMA PreviousProofIs ==
  ASSUME IInv, NEW p \in Paths, NEW k \in Steps(p), ProveChainStep(p, k)
  PROVE  Append(PreviousProof(p, k), k) = UpTo(k) /\ UpTo(k) \in Seq(Nat)
<1>0. FoldInv(p) /\ k \in Nat /\ fold[p][k].at = "proving"
  BY ChunkCountType DEF IInv, LocalInv, Steps, ProveChainStep
<1>1. fold[p][k].previous = k - 1
  BY <1>0 DEF FoldInv
<1>2. UpTo(k) \in Seq(Nat)
  BY <1>0 DEF UpTo
<1>3. CASE k = 0
  BY <1>1, <1>2, <1>3 DEF PreviousProof, UpTo, None
<1>4. CASE k > 0
  <2>1. k - 1 \in Steps(p) /\ k - 1 # None
    BY <1>0, <1>4, ChunkCountType DEF Steps, None
  <2>2. fold[p][k - 1].at = "proved"
    BY <1>0, <1>4, <2>1 DEF FoldInv
  <2>3. PreviousProof(p, k) = UpTo(k - 1)
    BY <1>0, <1>1, <2>1, <2>2 DEF FoldInv, PreviousProof
  <2>4. Append(UpTo(k - 1), k) = UpTo(k)
    BY <1>0, <1>4 DEF UpTo
  <2> QED
    BY <1>2, <2>3, <2>4
<1> QED
  BY <1>0, <1>3, <1>4

\* The steps of the lane, of the main thread and of the process.
OtherNext ==
    \/ LaneNext \/ MainNext
    \/ PreExecutionProof \/ LoadRemaining \/ PrewarmDone \/ Panic \/ Ended

----------------------------------------------------------------------------
(***************************************************************************)
(* Every step keeps the types.                                             *)
(***************************************************************************)
LEMMA PathTypes ==
  ASSUME IInv, NEW p \in Paths, PathNext(p)
  PROVE  Types'
<1> USE DEF PathStates
<1>0. Types /\ LocalInv(p)
  BY DEF IInv
<1>1. CASE StartPath(p)
  BY <1>0, <1>1 DEF Types, StartPath, threadVars, sharedVars, circuitVars, otherVars
<1>2. CASE LoopTop(p)
  <2>1. step[p] \in Steps(p)
    BY <1>0, <1>2, ChunkCountType DEF LoopTop, LocalInv, PathInv, Types, Steps
  <2>2. tx' = [tx EXCEPT ![p][step[p]] = "proving"]
    BY <1>2 DEF LoopTop
  <2>3. DOMAIN tx' = Paths /\ \A q \in Paths : tx'[q] \in [Steps(q) -> TxStates]
    BY <1>0, <2>1, <2>2, TxUpdate DEF TxStates
  <2>4. FoldPending(p)
    BY <1>2 DEF LoopTop
  <2> QED
    BY <1>0, <1>2, <2>3, <2>4, FoldPendingTypes DEF Types, LoopTop, circuitVars, otherVars
<1>3. CASE Generate(p)
  <2>1. inFlight' \in [Paths -> Seq(Nat)]
    BY <1>0, <1>3 DEF Types, Generate
  <2>2. (pc' = [pc EXCEPT ![p] = "join"] /\ step' = step) \/ NextRound(p)
    BY <1>3 DEF Generate
  <2>3. pc' \in [Paths -> PathStates] /\ step' \in [Paths -> Nat]
    <3>1. CASE NextRound(p)
      BY <1>0, <3>1 DEF Types, NextRound
    <3>2. CASE pc' = [pc EXCEPT ![p] = "join"] /\ step' = step
      BY <1>0, <3>2 DEF Types
    <3> QED
      BY <2>2, <3>1, <3>2
  <2> QED
    BY <1>0, <1>3, <2>1, <2>3 DEF Types, Generate, threadVars, sharedVars, circuitVars, otherVars
<1>4. CASE JoinWindow(p)
  <2>1. pc[p] \in {"join", "drain"} /\ JoinOldest(p)
    BY <1>4 DEF JoinWindow
  <2>2. pc' \in [Paths -> PathStates] /\ step' \in [Paths -> Nat]
    BY <1>0, <1>4 DEF Types, JoinWindow, NextRound
  <2> QED
    BY <1>0, <1>4, <2>1, <2>2, JoinTypes DEF Types, JoinWindow, sharedVars, circuitVars, otherVars
<1>5. CASE LoopEnd(p)
  <2>1. FoldPending(p)
    BY <1>5 DEF LoopEnd
  <2> QED
    BY <1>0, <1>5, <2>1, FoldPendingTypes DEF Types, LoopEnd, circuitVars, otherVars
<1>6. CASE DrainJoin(p)
  <2>1. pc[p] \in {"join", "drain"} /\ JoinOldest(p)
    BY <1>6 DEF DrainJoin
  <2> QED
    BY <1>0, <1>6, <2>1, JoinTypes DEF Types, DrainJoin, sharedVars, circuitVars, otherVars
<1>7. CASE DrainStep(p)
  <2>1. FoldPending(p)
    BY <1>0, <1>7 DEF DrainStep, FoldPending, LocalInv, PathInv
  <2>2. drains' \in [Paths -> BOOLEAN] /\ exclusive' \in BOOLEAN
    BY <1>0, <1>7 DEF DrainStep, Types
  <2> QED
    BY <1>0, <1>7, <2>1, <2>2, FoldPendingTypes DEF Types, DrainStep, circuitVars, otherVars
<1>8. CASE DrainEnd(p)
  <2>1. exclusive' \in BOOLEAN
    BY <1>0, <1>8 DEF DrainEnd, Types
  <2> QED
    BY <1>0, <1>8, <2>1 DEF Types, DrainEnd, threadVars, circuitVars, otherVars
<1>9. CASE RetirePath(p)
  BY <1>0, <1>9 DEF Types, RetirePath, threadVars
<1> QED
  BY <1>1, <1>2, <1>3, <1>4, <1>5, <1>6, <1>7, <1>8, <1>9 DEF PathNext

\* The threads a path starts keep the types.
LEMMA StepTypes ==
  ASSUME IInv, NEW p \in Paths, NEW k \in Steps(p), StepNext(p, k)
  PROVE  Types'
<1>0. Types
  BY DEF IInv
<1>1. CASE ProveTxWitness(p, k)
  <2>1. DOMAIN tx' = Paths /\ \A q \in Paths : tx'[q] \in [Steps(q) -> TxStates]
    BY <1>0, <1>1, TxUpdate DEF ProveTxWitness, TxStates
  <2> QED
    BY <1>0, <1>1, <2>1 DEF Types, ProveTxWitness, pathVars, sharedVars, circuitVars, otherVars
<1>2. CASE SeedChainStep(p, k)
  <2>1. DOMAIN fold' = Paths /\ \A q \in Paths : fold'[q] \in [Steps(q) -> FoldRecords]
    <3>1. "waiting" \in FoldStates /\ SetAt(p, k, "waiting")
      BY <1>2 DEF SeedChainStep, FoldStates, SetAt
    <3> QED
      BY <1>0, <3>1, AtUpdate
  <2> QED
    BY <1>0, <1>2, <2>1 DEF Types, SeedChainStep, pathVars, sharedVars, circuitVars, otherVars
<1>3. CASE FeedChainStep(p, k)
  <2>1. DOMAIN fold' = Paths /\ \A q \in Paths : fold'[q] \in [Steps(q) -> FoldRecords]
    <3>1. "proving" \in FoldStates /\ SetAt(p, k, "proving")
      BY <1>3 DEF FeedChainStep, FoldStates, SetAt
    <3> QED
      BY <1>0, <3>1, AtUpdate
  <2> QED
    BY <1>0, <1>3, <2>1 DEF Types, FeedChainStep, pathVars, sharedVars, circuitVars, otherVars
<1>4. CASE ProveChainStep(p, k)
  <2>1. Append(PreviousProof(p, k), k) \in Seq(Nat)
    BY <1>4, PreviousProofIs
  <2>2. DOMAIN fold' = Paths /\ \A q \in Paths : fold'[q] \in [Steps(q) -> FoldRecords]
    <3>1. SetProof(p, k, Append(PreviousProof(p, k), k))
      BY <1>4 DEF ProveChainStep, SetProof
    <3> QED
      BY <1>0, <2>1, <3>1, ProofUpdate
  <2> QED
    BY <1>0, <1>4, <2>2 DEF Types, ProveChainStep, pathVars, sharedVars, circuitVars, otherVars
<1> QED
  BY <1>1, <1>2, <1>3, <1>4 DEF StepNext

\* The lane, the main thread and the startup threads keep the types.
LEMMA OtherTypes ==
  ASSUME IInv, OtherNext \/ UNCHANGED vars
  PROVE  Types'
<1>0. Types
  BY DEF IInv
<1> USE DEF PathStates, LaneStates, MainStates, pathVars, threadVars, sharedVars, circuitVars
<1>1. CASE StartLanes
  <2>1. pc' \in [Paths -> PathStates]
    BY <1>1 DEF StartLanes
  <2> QED
    BY <1>0, <1>1, <2>1 DEF StartLanes, Types
<1>2. CASE DefineBlockCircuit \/ BuildBlockCircuit
  <2>1. readers' \in [Paths -> SUBSET {"path", "lane"}]
    <3>1. \A q \in Paths : readers[q] \subseteq {"path", "lane"}
      BY <1>0 DEF Types
    <3>2. CASE DefineBlockCircuit
      BY <3>1, <3>2 DEF DefineBlockCircuit
    <3>3. CASE BuildBlockCircuit
      BY <3>1, <3>3 DEF BuildBlockCircuit
    <3> QED
      BY <1>2, <3>2, <3>3
  <2> QED
    BY <1>0, <1>2, <2>1 DEF DefineBlockCircuit, BuildBlockCircuit, Types
<1>3. CASE JoinHeavy
  BY <1>0, <1>3 DEF JoinHeavy, Types
<1>4. CASE ReleaseHeavy
  BY <1>0, <1>4 DEF ReleaseHeavy, Types, Paths
<1>5. CASE JoinLane \/ JoinLight
  BY <1>0, <1>5 DEF JoinLane, JoinLight, Types
<1>6. CASE ReleaseLight \/ ProveBlock
  BY <1>0, <1>6 DEF ReleaseLight, ProveBlock, Types
<1>7. CASE WriteAndExit \/ PrewarmDone \/ Panic \/ PreExecutionProof \/ LoadRemaining
  BY <1>0, <1>7 DEF WriteAndExit, PrewarmDone, Panic, PreExecutionProof, LoadRemaining, Types
<1>8. CASE UNCHANGED vars
  BY <1>0, <1>8 DEF vars, otherVars, Types
<1> QED
  BY <1>1, <1>2, <1>3, <1>4, <1>5, <1>6, <1>7, <1>8 DEF OtherNext, LaneNext, MainNext, Ended

----------------------------------------------------------------------------
(***************************************************************************)
(* Every step of a path and of its threads keeps the path's own invariant. *)
(***************************************************************************)
\* The two ways in which a path's progress moves, used by several actions.
LEMMA JoinKeeps ==
  ASSUME Types, NEW p \in Paths, QueueInv(p), PathInv(p), TxInv(p),
         pc[p] \in {"join", "drain"}, JoinOldest(p), chain' = chain,
         Started(p)' = Started(p), pc'[p] # "join", Joined(p) + Len(inFlight[p]) = step'[p]
  PROVE  QueueInv(p)' /\ TxInv(p)'
<1>1. /\ pending'[p] = chain[p] + 1 /\ pending'[p] \in Steps(p) /\ pending[p] = None
      /\ Len(inFlight'[p]) = Len(inFlight[p]) - 1
      /\ \A i \in 1 .. Len(inFlight'[p]) : inFlight'[p][i] = chain[p] + 1 + i
      /\ \A j \in Steps(p) : tx'[p][j] = IF j = chain[p] + 1 THEN "joined" ELSE tx[p][j]
  BY JoinFacts
<1>2. chain[p] \in Int /\ Len(inFlight[p]) \in Nat /\ Len(inFlight[p]) > 0
  BY DEF Types, JoinOldest
<1>3. Joined(p) = chain[p] + 1 /\ Joined(p)' = chain[p] + 2 /\ pending'[p] # None
  BY <1>1, ChunkCountType DEF Joined, None, Steps
<1>4. QueueInv(p)'
  <2>1. \A i \in 1 .. Len(inFlight'[p]) : inFlight'[p][i] = Joined(p)' + i - 1
    BY <1>1, <1>2, <1>3
  <2>2. Joined(p)' + Len(inFlight'[p]) = step'[p]
    BY <1>1, <1>2, <1>3, SMTT(30)
  <2>3. chain'[p] = chain[p] /\ -1 <= chain[p]
    BY DEF QueueInv
  <2> QED
    BY <1>1, <2>1, <2>2, <2>3 DEF QueueInv
<1>5. TxInv(p)'
  <2>1. Started(p) > chain[p] + 1 /\ Started(p) \in Int
    <3>1. step[p] \in Nat
      BY DEF Types
    <3>2. Joined(p) + Len(inFlight[p]) = Started(p)
      BY DEF QueueInv, Started
    <3> QED
      BY <1>2, <1>3, <3>1, <3>2 DEF Started
  <2>2. ASSUME NEW k \in Steps(p)
        PROVE  (tx'[p][k] = "none" <=> k >= Started(p)) /\ (tx'[p][k] = "joined" <=> k < chain[p] + 2)
    <3>1. (tx[p][k] = "none" <=> k >= Started(p)) /\ (tx[p][k] = "joined" <=> k < chain[p] + 1)
      BY <1>3 DEF TxInv
    <3>2. k \in Int
      BY ChunkCountType DEF Steps
    <3> QED
      BY <1>1, <1>2, <2>1, <3>1, <3>2
  <2> QED
    BY <1>3, <2>2 DEF TxInv
<1> QED
  BY <1>4, <1>5

\* Starting the pending chain step keeps the local invariant of its path.
LEMMA FoldKeeps ==
  ASSUME Types, NEW p \in Paths, LocalInv(p), NEW q \in Paths, LocalInv(q),
         pc[p] \in {"tail", "claim"}, pc' = [pc EXCEPT ![p] = "drain"],
         FoldPending(p), UNCHANGED <<step, inFlight, tx>>
  PROVE  LocalInv(q)'
<1>a. QueueInv(p) /\ PathInv(p) /\ TxInv(p) /\ FoldInv(p)
  BY DEF LocalInv
<1>1. /\ FoldInv(p)'
      /\ chain'[p] \in Int /\ -1 <= chain'[p] /\ pending'[p] = None /\ chain'[p] + 1 = Joined(p)
      /\ \A r \in Paths : r # p => /\ fold'[r] = fold[r]
                                   /\ chain'[r] = chain[r] /\ pending'[r] = pending[r]
  BY <1>a, FoldPendingFacts, PendingStep
<1>2. pc'[p] = "drain" /\ (q # p => pc'[q] = pc[q])
  BY DEF Types
<1>3. CASE q # p
  BY <1>1, <1>2, <1>3, Frame DEF SamePath
<1>4. CASE q = p
  <2>1. Joined(p)' = Joined(p) /\ Started(p)' = Started(p)
    BY <1>1, <1>2 DEF Joined, Started
  <2>2. QueueInv(p)'
    BY <1>a, <1>1, <1>2, <2>1 DEF QueueInv
  <2>3. PathInv(p)'
    BY <1>a, <1>1, <1>2 DEF PathInv
  <2>4. TxInv(p)'
    BY <1>a, <2>1 DEF TxInv
  <2> QED
    BY <1>1, <1>4, <2>2, <2>3, <2>4 DEF LocalInv
<1> QED
  BY <1>3, <1>4

\* The actions of a path keep the local invariant of every path.
LEMMA PathLocal ==
  ASSUME IInv, NEW p \in Paths, PathNext(p), NEW q \in Paths
  PROVE  LocalInv(q)'
<1>0. Types /\ LocalInv(p) /\ LocalInv(q)
  BY DEF IInv
<1>a. QueueInv(p) /\ PathInv(p) /\ TxInv(p) /\ FoldInv(p)
  BY <1>0 DEF LocalInv
<1>t. /\ chain[p] \in Int /\ pending[p] \in Int /\ step[p] \in Nat
      /\ inFlight[p] \in Seq(Nat) /\ Len(inFlight[p]) \in Nat
  BY <1>0 DEF Types
<1>1. CASE StartPath(p)
  <2>1. pc' = [pc EXCEPT ![p] = "loop"] /\ pc[p] = "start"
    BY <1>1 DEF StartPath
  <2>2. UNCHANGED <<step, inFlight, pending, chain, tx, fold>>
    BY <1>1 DEF StartPath, threadVars
  <2>3. CASE q # p
    BY <1>0, <2>1, <2>2, <2>3, Frame DEF SamePath, Types
  <2>4. CASE q = p
    <3>1. pc'[p] = "loop"
      BY <1>0, <2>1 DEF Types
    <3> QED
      BY <1>a, <2>1, <2>2, <2>4, <3>1 DEF LocalInv, QueueInv, PathInv, TxInv, FoldInv, Joined, Started
  <2> QED
    BY <2>3, <2>4
<1>2. CASE LoopTop(p)
  <2>1. /\ pc' = [pc EXCEPT ![p] = "generate"] /\ pc[p] = "loop"
        /\ tx' = [tx EXCEPT ![p][step[p]] = "proving"]
        /\ FoldPending(p) /\ UNCHANGED <<step, inFlight>>
    BY <1>2 DEF LoopTop
  <2>2. /\ FoldInv(p)'
        /\ chain'[p] \in Int /\ -1 <= chain'[p] /\ pending'[p] = None /\ chain'[p] + 1 = Joined(p)
        /\ \A r \in Paths : r # p => /\ fold'[r] = fold[r]
                                     /\ chain'[r] = chain[r] /\ pending'[r] = pending[r]
    BY <1>0, <1>a, <2>1, FoldPendingFacts, PendingStep
  <2>3. pc'[p] = "generate" /\ (q # p => pc'[q] = pc[q] /\ tx'[q] = tx[q])
    BY <1>0, <2>1 DEF Types
  <2>4. CASE q # p
    BY <1>0, <2>1, <2>2, <2>3, <2>4, Frame DEF SamePath
  <2>5. CASE q = p
    <3>1. Joined(p)' = Joined(p)
      BY <2>2 DEF Joined
    <3>2. QueueInv(p)'
      BY <1>a, <2>1, <2>2, <2>3, <3>1 DEF QueueInv
    <3>3. PathInv(p)'
      BY <1>a, <2>1, <2>2, <2>3 DEF PathInv
    <3>4. TxInv(p)'
      <4>1. \A j \in Steps(p) : tx'[p][j] = IF j = step[p] THEN "proving" ELSE tx[p][j]
        BY <1>0, <2>1 DEF Types
      <4>2. Started(p) = step[p] /\ Started(p)' = step[p] + 1 /\ Joined(p) <= step[p] /\ Joined(p) \in Int
        BY <1>a, <1>t, <2>1, <2>3 DEF Started, QueueInv, Joined
      <4> QED
        BY <1>a, <1>t, <3>1, <4>1, <4>2, ChunkCountType DEF TxInv, Steps
    <3> QED
      BY <2>2, <2>5, <3>2, <3>3, <3>4 DEF LocalInv
  <2> QED
    BY <2>4, <2>5
<1>3. CASE Generate(p)
  <2>1. /\ inFlight' = [inFlight EXCEPT ![p] = Append(inFlight[p], step[p])] /\ pc[p] = "generate"
        /\ UNCHANGED <<pending, chain, tx, fold>>
        /\ (pc' = [pc EXCEPT ![p] = "join"] /\ step' = step) \/ NextRound(p)
    BY <1>3 DEF Generate, threadVars
  <2>2. q # p => pc'[q] = pc[q] /\ step'[q] = step[q] /\ inFlight'[q] = inFlight[q]
    BY <1>0, <2>1 DEF Types, NextRound
  <2>3. CASE q # p
    BY <1>0, <2>1, <2>2, <2>3, Frame DEF SamePath
  <2>4. CASE q = p
    <3>1. /\ Len(inFlight'[p]) = Len(inFlight[p]) + 1
          /\ \A i \in 1 .. Len(inFlight'[p]) :
                inFlight'[p][i] = IF i <= Len(inFlight[p]) THEN inFlight[p][i] ELSE step[p]
      <4>1. inFlight'[p] = Append(inFlight[p], step[p])
        BY <1>0, <2>1 DEF Types
      <4> QED
        BY <1>t, <4>1
    <3>2. Joined(p)' = Joined(p) /\ Joined(p) \in Int /\ Joined(p) + Len(inFlight[p]) = step[p]
      BY <1>a, <1>t, <2>1 DEF Joined, QueueInv
    <3>3. pending[p] = None /\ step[p] < ChunkCount[p] /\ Started(p) = step[p] + 1
      BY <1>a, <2>1 DEF PathInv, Started
    <3>4. \/ pc'[p] = "join" /\ step'[p] = step[p]
          \/ pc'[p] = "loop" /\ step'[p] = step[p] + 1 /\ step[p] + 1 < ChunkCount[p]
          \/ pc'[p] = "tail" /\ step'[p] = step[p] + 1 /\ ~(step[p] + 1 < ChunkCount[p])
      BY <1>0, <2>1 DEF Types, NextRound
    <3>5. QueueInv(p)'
      <4>1. \A i \in 1 .. Len(inFlight'[p]) : inFlight'[p][i] = Joined(p) + i - 1
        <5>1. \A i \in 1 .. Len(inFlight[p]) : inFlight[p][i] = Joined(p) + i - 1
          BY <1>a DEF QueueInv
        <5>2. ASSUME NEW i \in 1 .. Len(inFlight'[p])
              PROVE  inFlight'[p][i] = Joined(p) + i - 1
          <6>1. i \in Int /\ 1 <= i /\ i <= Len(inFlight[p]) + 1
            BY <1>t, <3>1
          <6>2. CASE i <= Len(inFlight[p])
            BY <1>t, <3>1, <5>1, <6>1, <6>2
          <6>3. CASE i = Len(inFlight[p]) + 1
            BY <1>t, <3>1, <3>2, <6>1, <6>3, SMTT(30)
          <6> QED
            BY <1>t, <6>1, <6>2, <6>3
        <5> QED
          BY <5>2
      <4>2. Joined(p) + Len(inFlight'[p]) = IF pc'[p] = "join" THEN step'[p] + 1 ELSE step'[p]
        BY <1>t, <3>1, <3>2, <3>4
      <4> QED
        BY <1>a, <2>1, <3>2, <4>1, <4>2 DEF QueueInv
    <3>6. PathInv(p)'
      BY <1>t, <2>1, <3>3, <3>4, ChunkCountType DEF PathInv
    <3>7. TxInv(p)'
      <4>1. Started(p)' = Started(p)
        BY <3>3, <3>4 DEF Started
      <4> QED
        BY <1>a, <2>1, <3>2, <4>1 DEF TxInv
    <3>8. FoldInv(p)'
      BY <1>a, <2>1 DEF FoldInv
    <3> QED
      BY <2>4, <3>5, <3>6, <3>7, <3>8 DEF LocalInv
  <2> QED
    BY <2>3, <2>4
<1>4. CASE JoinWindow(p)
  <2>1. pc[p] = "join" /\ JoinOldest(p) /\ NextRound(p) /\ UNCHANGED <<chain, fold>>
    BY <1>4 DEF JoinWindow
  <2>2. q # p => pc'[q] = pc[q] /\ step'[q] = step[q]
    BY <1>0, <2>1 DEF Types, NextRound
  <2>3. CASE q # p
    BY <1>0, <1>a, <2>1, <2>2, <2>3, Frame, JoinFacts DEF SamePath
  <2>4. CASE q = p
    <3>1. \/ pc'[p] = "loop" /\ step'[p] = step[p] + 1 /\ step[p] + 1 < ChunkCount[p]
          \/ pc'[p] = "tail" /\ step'[p] = step[p] + 1 /\ ~(step[p] + 1 < ChunkCount[p])
      BY <1>0, <2>1 DEF Types, NextRound
    <3>2. QueueInv(p)' /\ TxInv(p)'
      <4>1. Started(p)' = Started(p)
        BY <2>1, <3>1 DEF Started
      <4>2. Joined(p) + Len(inFlight[p]) = step'[p]
        BY <1>a, <2>1, <3>1 DEF QueueInv
      <4>3. pc'[p] # "join"
        BY <3>1
      <4> QED
        BY <1>0, <1>a, <2>1, <4>1, <4>2, <4>3, JoinKeeps
    <3>3. PathInv(p)'
      BY <1>a, <1>t, <2>1, <3>1, ChunkCountType DEF PathInv
    <3>4. FoldInv(p)'
      BY <1>a, <2>1 DEF FoldInv
    <3> QED
      BY <2>4, <3>2, <3>3, <3>4 DEF LocalInv
  <2> QED
    BY <2>3, <2>4
<1>5. CASE LoopEnd(p)
  <2>1. /\ pc' = [pc EXCEPT ![p] = "drain"] /\ pc[p] = "tail"
        /\ FoldPending(p) /\ UNCHANGED <<step, inFlight, tx>>
    BY <1>5 DEF LoopEnd
  <2> QED
    BY <1>0, <2>1, FoldKeeps
<1>6. CASE DrainJoin(p)
  <2>1. /\ pc[p] = "drain" /\ JoinOldest(p) /\ pc' = [pc EXCEPT ![p] = "claim"]
        /\ UNCHANGED <<step, chain, fold>>
    BY <1>6 DEF DrainJoin
  <2>2. pc'[p] = "claim" /\ (q # p => pc'[q] = pc[q])
    BY <1>0, <2>1 DEF Types
  <2>3. CASE q # p
    BY <1>0, <1>a, <2>1, <2>2, <2>3, Frame, JoinFacts DEF SamePath
  <2>4. CASE q = p
    <3>2. QueueInv(p)' /\ TxInv(p)'
      <4>1. Started(p)' = Started(p)
        BY <2>1, <2>2 DEF Started
      <4>2. Joined(p) + Len(inFlight[p]) = step'[p]
        BY <1>a, <2>1 DEF QueueInv
      <4> QED
        BY <1>0, <1>a, <2>1, <2>2, <4>1, <4>2, JoinKeeps
    <3>3. PathInv(p)'
      <4>1. pending'[p] # None
        BY <1>0, <1>a, <2>1, JoinFacts DEF Steps, None
      <4> QED
        BY <1>a, <1>t, <2>1, <2>2, <4>1 DEF PathInv
    <3>4. FoldInv(p)'
      BY <1>a, <2>1 DEF FoldInv
    <3> QED
      BY <2>4, <3>2, <3>3, <3>4 DEF LocalInv
  <2> QED
    BY <2>3, <2>4
<1>7. CASE DrainStep(p)
  <2>1. /\ pc' = [pc EXCEPT ![p] = "drain"] /\ pc[p] = "claim"
        /\ SpawnChainStep(p, pending[p]) /\ UNCHANGED <<step, inFlight, tx>>
    BY <1>7 DEF DrainStep
  <2>2. FoldPending(p)
    BY <1>a, <2>1 DEF FoldPending, PathInv
  <2> QED
    BY <1>0, <2>1, <2>2, FoldKeeps
<1>8. CASE DrainEnd(p)
  <2>1. /\ pc' = [pc EXCEPT ![p] = "retire"] /\ pc[p] = "drain" /\ inFlight[p] = <<>>
        /\ fold[p][chain[p]].at = "proved" /\ UNCHANGED <<step, inFlight, pending, chain, tx, fold>>
    BY <1>8 DEF DrainEnd, threadVars
  <2>2. chain[p] = ChunkCount[p] - 1
    <3>1. pending[p] = None /\ step[p] = ChunkCount[p] /\ Len(inFlight[p]) = 0
      BY <1>a, <2>1 DEF PathInv
    <3>2. chain[p] + 1 + Len(inFlight[p]) = step[p]
      BY <1>a, <2>1, <3>1 DEF QueueInv, Joined
    <3> QED
      BY <1>t, <3>1, <3>2, ChunkCountType
  <2>3. pc'[p] = "retire" /\ (q # p => pc'[q] = pc[q])
    BY <1>0, <2>1 DEF Types
  <2>4. CASE q # p
    BY <1>0, <2>1, <2>3, <2>4, Frame DEF SamePath
  <2>5. CASE q = p
    BY <1>a, <2>1, <2>2, <2>3, <2>5 DEF LocalInv, QueueInv, PathInv, TxInv, FoldInv, Joined, Started
  <2> QED
    BY <2>4, <2>5
<1>9. CASE RetirePath(p)
  <2>1. /\ pc' = [pc EXCEPT ![p] = "returned"] /\ pc[p] = "retire"
        /\ UNCHANGED <<step, inFlight, pending, chain, tx, fold>>
    BY <1>9 DEF RetirePath, threadVars
  <2>2. pc'[p] = "returned" /\ (q # p => pc'[q] = pc[q])
    BY <1>0, <2>1 DEF Types
  <2>3. CASE q # p
    BY <1>0, <2>1, <2>2, <2>3, Frame DEF SamePath
  <2>4. CASE q = p
    BY <1>a, <2>1, <2>2, <2>4 DEF LocalInv, QueueInv, PathInv, TxInv, FoldInv, Joined, Started
  <2> QED
    BY <2>3, <2>4
<1> QED
  BY <1>1, <1>2, <1>3, <1>4, <1>5, <1>6, <1>7, <1>8, <1>9 DEF PathNext

\* The threads a path starts keep the local invariant of every path.
LEMMA StepLocal ==
  ASSUME IInv, NEW p \in Paths, NEW k \in Steps(p), StepNext(p, k), NEW q \in Paths
  PROVE  LocalInv(q)'
<1>0. Types /\ LocalInv(p) /\ LocalInv(q)
  BY DEF IInv
<1>a. QueueInv(p) /\ PathInv(p) /\ TxInv(p) /\ FoldInv(p)
  BY <1>0 DEF LocalInv
<1>b. UNCHANGED <<pc, step, inFlight, pending, chain>>
  BY DEF StepNext, ProveTxWitness, SeedChainStep, FeedChainStep, ProveChainStep, pathVars
<1>c. Joined(p)' = Joined(p) /\ Started(p)' = Started(p) /\ QueueInv(p)'
  BY <1>a, <1>b DEF Joined, Started, QueueInv
<1>d. ASSUME q = p, tx' = tx, FoldInv(p)',
             \A j \in Steps(p) : fold[p][j].at = "proved" => fold'[p][j].at = "proved"
      PROVE  LocalInv(q)'
  <2>1. TxInv(p)'
    BY <1>a, <1>c, <1>d DEF TxInv
  <2>2. ChunkCount[p] - 1 \in Steps(p)
    BY ChunkCountType DEF Steps
  <2>3. PathInv(p)'
    BY <1>a, <1>b, <1>d, <2>2 DEF PathInv
  <2> QED
    BY <1>c, <1>d, <2>1, <2>3 DEF LocalInv
<1>1. CASE ProveTxWitness(p, k)
  <2>1. tx' = [tx EXCEPT ![p][k] = "proved"] /\ tx[p][k] = "proving" /\ fold' = fold
    BY <1>1 DEF ProveTxWitness
  <2>2. CASE q # p
    BY <1>0, <1>b, <2>1, <2>2, Frame DEF SamePath, Types
  <2>3. CASE q = p
    <3>1. \A j \in Steps(p) : tx'[p][j] = IF j = k THEN "proved" ELSE tx[p][j]
      BY <1>0, <2>1 DEF Types
    <3>2. TxInv(p)'
      BY <1>a, <1>c, <2>1, <3>1 DEF TxInv
    <3>3. PathInv(p)' /\ FoldInv(p)'
      BY <1>a, <1>b, <2>1 DEF PathInv, FoldInv
    <3> QED
      BY <1>c, <2>3, <3>2, <3>3 DEF LocalInv
  <2> QED
    BY <2>2, <2>3
<1>2. CASE SeedChainStep(p, k)
  <2>1. fold' = [fold EXCEPT ![p][k].at = "waiting"] /\ fold[p][k].at = "seeding" /\ tx' = tx
    BY <1>2 DEF SeedChainStep
  <2>2. /\ \A j \in Steps(p) : j # k => fold'[p][j] = fold[p][j]
        /\ fold'[p][k].at = "waiting" /\ fold'[p][k].previous = fold[p][k].previous
    <3>1. Types /\ "waiting" \in FoldStates /\ SetAt(p, k, "waiting")
      BY <1>0, <2>1 DEF FoldStates, SetAt
    <3>2. /\ \A r \in Paths : \A j \in Steps(r) : r # p \/ j # k => fold'[r][j] = fold[r][j]
          /\ fold'[p][k].at = "waiting" /\ fold'[p][k].previous = fold[p][k].previous
      BY <3>1, AtUpdate
    <3> QED
      BY <3>2
  <2>3. CASE q # p
    BY <1>0, <1>b, <2>1, <2>3, Frame DEF SamePath, Types
  <2>4. CASE q = p
    <3>1. FoldInv(p)'
      BY <1>a, <1>b, <2>1, <2>2 DEF FoldInv
    <3> QED
      BY <1>d, <2>1, <2>2, <2>4, <3>1
  <2> QED
    BY <2>3, <2>4
<1>3. CASE FeedChainStep(p, k)
  <2>1. /\ fold' = [fold EXCEPT ![p][k].at = "proving"] /\ fold[p][k].at = "waiting" /\ tx' = tx
        /\ fold[p][k].previous # None => fold[p][fold[p][k].previous].at = "proved"
    BY <1>3 DEF FeedChainStep
  <2>2. /\ \A j \in Steps(p) : j # k => fold'[p][j] = fold[p][j]
        /\ fold'[p][k].at = "proving" /\ fold'[p][k].previous = fold[p][k].previous
    <3>1. Types /\ "proving" \in FoldStates /\ SetAt(p, k, "proving")
      BY <1>0, <2>1 DEF FoldStates, SetAt
    <3>2. /\ \A r \in Paths : \A j \in Steps(r) : r # p \/ j # k => fold'[r][j] = fold[r][j]
          /\ fold'[p][k].at = "proving" /\ fold'[p][k].previous = fold[p][k].previous
      BY <3>1, AtUpdate
    <3> QED
      BY <3>2
  <2>3. \A j \in Steps(p) : j < k => fold[p][j].at = "proved"
    <3>1. fold[p][k].previous = k - 1 /\ k \in Nat
      BY <1>a, <2>1, ChunkCountType DEF FoldInv, Steps
    <3>2. CASE k = 0
      BY <3>2, ChunkCountType DEF Steps
    <3>3. CASE k > 0
      <4>1. k - 1 \in Steps(p) /\ fold[p][k - 1].at = "proved"
        BY <2>1, <3>1, <3>3, ChunkCountType DEF Steps, None
      <4>2. \A j \in Steps(p) : j < k - 1 => fold[p][j].at = "proved"
        BY <1>a, <4>1 DEF FoldInv
      <4> QED
        BY <3>1, <4>1, <4>2, ChunkCountType DEF Steps
    <3> QED
      BY <3>1, <3>2, <3>3
  <2>4. CASE q # p
    BY <1>0, <1>b, <2>1, <2>4, Frame DEF SamePath, Types
  <2>5. CASE q = p
    <3>1. FoldInv(p)'
      BY <1>a, <1>b, <2>1, <2>2, <2>3 DEF FoldInv, Steps
    <3> QED
      BY <1>d, <2>1, <2>2, <2>5, <3>1
  <2> QED
    BY <2>4, <2>5
<1>4. CASE ProveChainStep(p, k)
  <2>1. /\ fold' = [fold EXCEPT ![p][k].at = "proved", ![p][k].proof = Append(PreviousProof(p, k), k)]
        /\ fold[p][k].at = "proving" /\ tx' = tx
    BY <1>4 DEF ProveChainStep
  <2>2. Append(PreviousProof(p, k), k) = UpTo(k) /\ UpTo(k) \in Seq(Nat)
    BY <1>4, PreviousProofIs
  <2>3. /\ \A j \in Steps(p) : j # k => fold'[p][j] = fold[p][j]
        /\ fold'[p][k].at = "proved" /\ fold'[p][k].previous = fold[p][k].previous
        /\ fold'[p][k].proof = UpTo(k)
    <3>1. /\ Types /\ UpTo(k) \in Seq(Nat)
          /\ SetProof(p, k, UpTo(k))
      BY <1>0, <2>1, <2>2 DEF SetProof
    <3>2. /\ \A r \in Paths : \A j \in Steps(r) : r # p \/ j # k => fold'[r][j] = fold[r][j]
          /\ fold'[p][k].at = "proved" /\ fold'[p][k].previous = fold[p][k].previous
          /\ fold'[p][k].proof = UpTo(k)
      BY <3>1, ProofUpdate
    <3> QED
      BY <3>2
  <2>4. CASE q # p
    BY <1>0, <1>b, <2>1, <2>4, Frame DEF SamePath, Types
  <2>5. CASE q = p
    <3>1. FoldInv(p)'
      <4>1. ASSUME NEW j \in Steps(p), j # k, fold[p][j].at \in {"proving", "proved"}
            PROVE  \A i \in Steps(p) : i < j => fold'[p][i].at = "proved"
        BY <1>a, <2>3, <4>1 DEF FoldInv
      <4>2. \A i \in Steps(p) : i < k => fold'[p][i].at = "proved"
        <5>1. \A i \in Steps(p) : i < k => i # k
          BY ChunkCountType DEF Steps
        <5>2. \A i \in Steps(p) : i < k => fold[p][i].at = "proved"
          BY <1>a, <2>1 DEF FoldInv
        <5> QED
          BY <2>3, <5>1, <5>2
      <4>3. ASSUME NEW j \in Steps(p)
            PROVE  /\ fold'[p][j].at = "none" <=> j > chain[p]
                   /\ fold'[p][j].at # "none" => fold'[p][j].previous = j - 1
                   /\ fold'[p][j].at \in {"proving", "proved"} =>
                        \A i \in Steps(p) : i < j => fold'[p][i].at = "proved"
                   /\ fold'[p][j].at = "proved" => fold'[p][j].proof = UpTo(j)
        <5>1. CASE j = k
          BY <1>a, <2>1, <2>3, <4>2, <5>1 DEF FoldInv
        <5>2. CASE j # k
          BY <1>a, <2>3, <4>1, <5>2 DEF FoldInv
        <5> QED
          BY <5>1, <5>2
      <4> QED
        BY <1>b, <4>3 DEF FoldInv
    <3> QED
      BY <1>d, <2>1, <2>3, <2>5, <3>1
  <2> QED
    BY <2>4, <2>5
<1> QED
  BY <1>1, <1>2, <1>3, <1>4 DEF StepNext

\* The other threads do not touch what is local to a path.
LEMMA OtherLocal ==
  ASSUME IInv, OtherNext \/ UNCHANGED vars, NEW q \in Paths
  PROVE  LocalInv(q)'
<1>0. Types /\ LocalInv(q) /\ SyncInv
  BY DEF IInv
<1> USE DEF pathVars, threadVars
<1>1. CASE StartLanes
  <2>1. pc[q] = "none" /\ pc'[q] = "start" /\ UNCHANGED <<step, inFlight, pending, chain, tx, fold>>
    BY <1>0, <1>1 DEF StartLanes, SyncInv
  <2> QED
    BY <1>0, <2>1 DEF LocalInv, QueueInv, PathInv, TxInv, FoldInv, Joined, Started
<1>2. CASE UNCHANGED <<pc, step, inFlight, pending, chain, tx, fold>>
  BY <1>0, <1>2, Frame DEF SamePath
<1>3. StartLanes \/ UNCHANGED <<pc, step, inFlight, pending, chain, tx, fold>>
  BY DEF OtherNext, LaneNext, MainNext, DefineBlockCircuit, BuildBlockCircuit, JoinHeavy, ReleaseHeavy,
         JoinLane, JoinLight, ReleaseLight, ProveBlock, WriteAndExit, PreExecutionProof, LoadRemaining,
         PrewarmDone, Panic, Ended, vars
<1> QED
  BY <1>1, <1>2, <1>3

----------------------------------------------------------------------------
(***************************************************************************)
(* Every step keeps the lanes synchronised.                                *)
(***************************************************************************)
\* The number of active paths, seen from a path that has not returned.
LEMMA ActiveCount ==
  ASSUME SyncInv, NEW p \in Paths, pc[p] # "returned"
  PROVE  /\ activePaths \in {1, 2}
         /\ activePaths = 1 => \A q \in Paths : q # p => pc[q] = "returned"
<1>1. activePaths = Active("light") + Active("heavy")
  BY DEF SyncInv
<1>2. CASE p = "light"
  BY <1>1, <1>2 DEF Active, Paths
<1>3. CASE p = "heavy"
  BY <1>1, <1>3 DEF Active, Paths
<1> QED
  BY <1>2, <1>3 DEF Paths

\* The actions of a path keep what the threads know about each other.
LEMMA PathSync ==
  ASSUME IInv, NEW p \in Paths, PathNext(p)
  PROVE  SyncInv'
<1>0. Types /\ LocalInv(p) /\ SyncInv
  BY DEF IInv
<1>p. PathInv(p)
  BY <1>0 DEF LocalInv
<1>a. UNCHANGED <<preExec, lane, main, released>>
  BY DEF PathNext, StartPath, LoopTop, Generate, JoinWindow, LoopEnd, DrainJoin, DrainStep, DrainEnd,
         RetirePath, circuitVars, otherVars
<1>b. pc[p] # "none" /\ pc[p] # "returned"
  BY DEF PathNext, StartPath, LoopTop, Generate, JoinWindow, LoopEnd, DrainJoin, DrainStep, DrainEnd, RetirePath
<1>c. \A q \in Paths : q # p => pc'[q] = pc[q] /\ drains'[q] = drains[q] /\ inFlight'[q] = inFlight[q]
  BY <1>0 DEF PathNext, StartPath, LoopTop, Generate, JoinWindow, LoopEnd, DrainJoin, DrainStep, DrainEnd,
         RetirePath, NextRound, JoinOldest, Types
<1>d. \A q \in Paths : q # p => ~drains[q]
  BY <1>0, <1>b DEF SyncInv
<1>e. main \notin {"release", "final", "write"}
  BY <1>0, <1>b DEF SyncInv, Paths
<1>1. ASSUME pc'[p] \notin {"none", "returned"}, activePaths' = activePaths,
             drains'[p] => /\ pc'[p] \in {"drain", "retire", "returned"} /\ inFlight'[p] = <<>>
                           /\ \A q \in Paths : q # p => pc[q] = "returned",
             exclusive' => drains'[p] /\ pc'[p] = "drain"
      PROVE  SyncInv'
  <2>1. \A q \in Paths : pc'[q] = "none" <=> pc[q] = "none"
    BY <1>b, <1>c, <1>1
  <2>2. \A q \in Paths : pc'[q] = "returned" <=> pc[q] = "returned"
    BY <1>b, <1>c, <1>1
  <2>3. activePaths' = (Active("light") + Active("heavy"))'
    BY <1>0, <1>1, <2>2 DEF SyncInv, Active, Paths
  <2>4. (\A q \in Paths : drains[q] =>
          /\ pc[q] \in {"drain", "retire", "returned"}
          /\ inFlight[q] = <<>>
          /\ \A r \in Paths : r # q => pc[r] = "returned")'
    BY <1>c, <1>d, <1>1, <2>2
  <2>5. (exclusive => main = "final" \/ \E q \in Paths : drains[q] /\ pc[q] = "drain")'
    BY <1>1
  <2>6. "light" \in Paths /\ "heavy" \in Paths /\ released \subseteq Paths
    BY <1>0 DEF Paths, Types
  <2> QED
    BY <1>0, <1>a, <2>1, <2>2, <2>3, <2>4, <2>5, <2>6 DEF SyncInv
<1>2. CASE pc[p] # "drain" /\ pc[p] # "claim" /\ pc[p] # "retire"
  <2>1. ~drains[p] /\ ~exclusive
    BY <1>0, <1>b, <1>d, <1>e, <1>2 DEF SyncInv
  <2>2. UNCHANGED <<drains, exclusive, activePaths>>
    BY <1>2 DEF PathNext, StartPath, LoopTop, Generate, JoinWindow, LoopEnd, DrainJoin, DrainStep, DrainEnd,
         RetirePath, sharedVars
  <2>3. pc'[p] \notin {"none", "returned"}
    BY <1>0, <1>2 DEF PathNext, StartPath, LoopTop, Generate, JoinWindow, LoopEnd, DrainJoin, DrainStep, DrainEnd,
         RetirePath, NextRound, Types
  <2> QED
    BY <1>1, <2>1, <2>2, <2>3
<1>3. CASE DrainJoin(p)
  <2>1. ~drains[p] /\ ~exclusive
    BY <1>0, <1>d, <1>e, <1>3 DEF SyncInv, DrainJoin, JoinOldest
  <2>2. UNCHANGED <<drains, exclusive, activePaths>> /\ pc'[p] = "claim"
    BY <1>0, <1>3 DEF DrainJoin, sharedVars, Types
  <2> QED
    BY <1>1, <2>1, <2>2
<1>4. CASE DrainStep(p)
  <2>1. ~drains[p] /\ ~exclusive
    BY <1>0, <1>d, <1>e, <1>4 DEF SyncInv, DrainStep
  <2>2. PICK observed \in activePaths .. 2 :
           /\ drains' = [drains EXCEPT ![p] = drains[p] \/ (~drains[p] /\ inFlight[p] = <<>> /\ observed = 1)]
           /\ exclusive' = (exclusive \/ (~drains[p] /\ inFlight[p] = <<>> /\ observed = 1))
           /\ pc' = [pc EXCEPT ![p] = "drain"]
           /\ UNCHANGED <<inFlight, activePaths>>
    BY <1>4 DEF DrainStep, ClaimsExclusiveGpuPhase
  <2>3. pc'[p] = "drain" /\ drains'[p] = exclusive'
        /\ drains'[p] = (inFlight[p] = <<>> /\ observed = 1)
    BY <1>0, <2>1, <2>2 DEF Types
  <2>4. observed = 1 => \A q \in Paths : q # p => pc[q] = "returned"
    BY <1>0, <1>b, ActiveCount
  <2> QED
    BY <1>1, <2>2, <2>3, <2>4
<1>5. CASE DrainEnd(p)
  <2>1. ~exclusive'
    BY <1>0, <1>b, <1>d, <1>e, <1>5 DEF SyncInv, DrainEnd
  <2>2. UNCHANGED <<drains, inFlight, activePaths>> /\ pc'[p] = "retire"
    BY <1>0, <1>5 DEF DrainEnd, Types
  <2>3. drains[p] => inFlight[p] = <<>> /\ \A q \in Paths : q # p => pc[q] = "returned"
    BY <1>0 DEF SyncInv
  <2> QED
    BY <1>1, <2>1, <2>2, <2>3
<1>6. CASE RetirePath(p)
  <2>1. ~exclusive
    BY <1>0, <1>d, <1>e, <1>6 DEF SyncInv, RetirePath
  <2>2. UNCHANGED <<drains, inFlight, exclusive>> /\ pc'[p] = "returned" /\ activePaths' = activePaths - 1
    BY <1>0, <1>6 DEF RetirePath, Types
  <2>3. activePaths' = (Active("light") + Active("heavy"))'
    <3>1. activePaths = Active("light") + Active("heavy")
      BY <1>0 DEF SyncInv
    <3>2. CASE p = "light"
      BY <1>b, <1>c, <2>2, <3>1, <3>2 DEF Active, Paths
    <3>3. CASE p = "heavy"
      BY <1>b, <1>c, <2>2, <3>1, <3>3 DEF Active, Paths
    <3> QED
      BY <3>2, <3>3 DEF Paths
  <2>4. \A q \in Paths : pc'[q] = "none" <=> pc[q] = "none"
    BY <1>b, <1>c, <2>2
  <2>5. \A q \in Paths : pc[q] = "returned" => pc'[q] = "returned"
    BY <1>c, <2>2
  <2>6. (\A q \in Paths : drains[q] =>
          /\ pc[q] \in {"drain", "retire", "returned"}
          /\ inFlight[q] = <<>>
          /\ \A r \in Paths : r # q => pc[r] = "returned")'
    BY <1>0, <1>d, <2>2, <2>5 DEF SyncInv
  <2>7. "light" \in Paths /\ "heavy" \in Paths /\ released \subseteq Paths
    BY <1>0 DEF Paths, Types
  <2> QED
    BY <1>0, <1>a, <2>1, <2>2, <2>3, <2>4, <2>5, <2>6, <2>7 DEF SyncInv
<1> QED
  BY <1>2, <1>3, <1>4, <1>5, <1>6 DEF PathNext, StartPath, LoopTop, Generate, JoinWindow, LoopEnd

\* The part of SyncInv that only the paths can disturb.
Framed ==
    /\ \A p \in Paths : pc[p] = "none" <=> main = "startup"
    /\ activePaths = Active("light") + Active("heavy")
    /\ \A p \in Paths : drains[p] =>
          /\ pc[p] \in {"drain", "retire", "returned"}
          /\ inFlight[p] = <<>>
          /\ \A q \in Paths : q # p => pc[q] = "returned"

\* The lane, the main thread and the startup threads keep it.
LEMMA OtherSync ==
  ASSUME IInv, OtherNext \/ UNCHANGED vars
  PROVE  SyncInv'
<1>0. Types /\ SyncInv
  BY DEF IInv
<1> USE DEF pathVars, threadVars, sharedVars, circuitVars, otherVars
<1>1. CASE StartLanes
  <2>1. /\ main = "startup" /\ preExec = "proved" /\ main' = "join lane" /\ lane' = "start"
        /\ pc' = [p \in Paths |-> "start"]
        /\ UNCHANGED <<inFlight, drains, activePaths, exclusive, released, preExec>>
    BY <1>1 DEF StartLanes
  <2>2. \A p \in Paths : pc[p] = "none" /\ pc'[p] = "start" /\ ~drains[p]
    BY <1>0, <2>1 DEF SyncInv
  <2>3. ~exclusive /\ released = {} /\ activePaths = Active("light") + Active("heavy")
    BY <1>0, <2>1, <2>2 DEF SyncInv
  <2>4. activePaths' = (Active("light") + Active("heavy"))'
    BY <2>1, <2>2, <2>3 DEF Active, Paths
  <2> QED
    BY <2>1, <2>2, <2>3, <2>4 DEF SyncInv, Paths
<1>2. ASSUME UNCHANGED <<pc, inFlight, drains, activePaths>>, main' = "startup" <=> main = "startup"
      PROVE  Framed'
  BY <1>0, <1>2 DEF SyncInv, Active, Framed
<1>3. CASE DefineBlockCircuit
  <2>1. /\ UNCHANGED <<pc, inFlight, drains, activePaths, exclusive, preExec, main, released>>
        /\ lane = "start" /\ lane' = "defining"
    BY <1>3 DEF DefineBlockCircuit
  <2>2. Framed'
    BY <1>2, <2>1
  <2> QED
    BY <1>0, <2>1, <2>2 DEF SyncInv, Framed, Paths
<1>8. CASE BuildBlockCircuit
  <2>1. /\ UNCHANGED <<pc, inFlight, drains, activePaths, exclusive, preExec, main, released>>
        /\ lane = "defining" /\ lane' = "seeded"
    BY <1>8 DEF BuildBlockCircuit
  <2>2. Framed'
    BY <1>2, <2>1
  <2> QED
    BY <1>0, <2>1, <2>2 DEF SyncInv, Framed, Paths
<1>9. CASE JoinHeavy
  <2>1. /\ UNCHANGED <<pc, inFlight, drains, activePaths, exclusive, preExec, main, released>>
        /\ lane = "seeded" /\ lane' = "release" /\ pc["heavy"] = "returned"
    BY <1>9 DEF JoinHeavy, Returned
  <2>2. Framed'
    BY <1>2, <2>1
  <2> QED
    BY <1>0, <2>1, <2>2 DEF SyncInv, Framed, Paths
<1>10. CASE ReleaseHeavy
  <2>1. /\ UNCHANGED <<pc, inFlight, drains, activePaths, exclusive, preExec, main>>
        /\ lane = "release" /\ lane' = "done" /\ released' = released \cup {"heavy"}
    BY <1>10 DEF ReleaseHeavy
  <2>2. Framed'
    BY <1>2, <2>1
  <2> QED
    BY <1>0, <2>1, <2>2 DEF SyncInv, Framed, Paths
<1>4. CASE JoinLane
  <2>1. /\ UNCHANGED <<pc, inFlight, drains, activePaths, exclusive, preExec, lane, released>>
        /\ main = "join lane" /\ main' = "join light" /\ lane = "done"
    BY <1>4 DEF JoinLane
  <2>2. Framed'
    BY <1>2, <2>1
  <2> QED
    BY <1>0, <2>1, <2>2 DEF SyncInv, Framed, Paths
<1>11. CASE JoinLight
  <2>1. /\ UNCHANGED <<pc, inFlight, drains, activePaths, exclusive, preExec, lane, released>>
        /\ main = "join light" /\ main' = "release" /\ pc["light"] = "returned"
    BY <1>11 DEF JoinLight, Returned
  <2>2. Framed'
    BY <1>2, <2>1
  <2> QED
    BY <1>0, <2>1, <2>2 DEF SyncInv, Framed, Paths
<1>5. CASE ReleaseLight \/ ProveBlock
  <2>1. /\ UNCHANGED <<pc, inFlight, drains, activePaths, lane, preExec>>
        /\ \/ main = "release" /\ main' = "final" /\ released' = Paths
           \/ main = "final" /\ main' = "write" /\ released' = released /\ ~exclusive'
    BY <1>5 DEF ReleaseLight, ProveBlock
  <2>2. Framed'
    BY <1>2, <2>1
  <2> QED
    BY <1>0, <2>1, <2>2 DEF SyncInv, Framed, Paths
<1>6. CASE WriteAndExit \/ PrewarmDone \/ Panic \/ PreExecutionProof \/ LoadRemaining
  <2>1. /\ UNCHANGED <<pc, inFlight, drains, activePaths, exclusive, lane, main, released>>
        /\ preExec' = preExec \/ preExec' = "proved"
    BY <1>6 DEF WriteAndExit, PrewarmDone, Panic, PreExecutionProof, LoadRemaining
  <2>2. Framed'
    BY <1>2, <2>1
  <2> QED
    BY <1>0, <2>1, <2>2 DEF SyncInv, Framed
<1>7. CASE UNCHANGED vars
  <2>1. UNCHANGED <<pc, inFlight, drains, activePaths, exclusive, preExec, lane, main, released>>
    BY <1>7 DEF vars
  <2> QED
    BY <1>0, <2>1 DEF SyncInv, Active
<1> QED
  BY <1>1, <1>3, <1>4, <1>5, <1>6, <1>7, <1>8, <1>9, <1>10, <1>11 DEF OtherNext, LaneNext, MainNext, Ended

\* The threads a path starts keep it.
LEMMA StepSync ==
  ASSUME IInv, NEW p \in Paths, NEW k \in Steps(p), StepNext(p, k)
  PROVE  SyncInv'
<1>1. UNCHANGED <<pc, inFlight, drains, activePaths, exclusive, released, preExec, lane, main>>
  BY DEF StepNext, ProveTxWitness, SeedChainStep, FeedChainStep, ProveChainStep,
         pathVars, sharedVars, circuitVars, otherVars
<1> QED
  BY <1>1 DEF IInv, SyncInv, Active

\* IInv is inductive: every action of every thread preserves it.
LEMMA NextIInv == IInv /\ [Next]_vars => IInv'
<1> SUFFICES ASSUME IInv, [Next]_vars PROVE IInv'
  OBVIOUS
<1>1. CASE \E p \in Paths : PathNext(p)
  BY <1>1, PathTypes, PathLocal, PathSync DEF IInv
<1>2. CASE \E p \in Paths : \E k \in Steps(p) : StepNext(p, k)
  BY <1>2, StepTypes, StepLocal, StepSync DEF IInv
<1>3. CASE OtherNext \/ UNCHANGED vars
  BY <1>3, OtherTypes, OtherLocal, OtherSync DEF IInv
<1> QED
  BY <1>1, <1>2, <1>3 DEF Next, OtherNext

\* The inductive invariant of the pipeline holds for any number of chunks and any window.
THEOREM PipelineIInv == Spec => []IInv
BY InitIInv, NextIInv, PTL DEF Spec

----------------------------------------------------------------------------
(***************************************************************************)
(* The safety properties.                                                  *)
(***************************************************************************)
\* A path that has returned has joined every transaction proof and proved every chain step.
LEMMA ReturnedIsDone ==
  ASSUME IInv, NEW p \in Paths, pc[p] \in {"retire", "returned"}
  PROVE  /\ \A k \in Steps(p) : tx[p][k] = "joined"
         /\ \A k \in Steps(p) : fold[p][k].at = "proved"
<1>1. QueueInv(p) /\ PathInv(p) /\ TxInv(p) /\ FoldInv(p)
  BY DEF IInv, LocalInv
<1>2. chain[p] \in Int /\ step[p] \in Nat
  BY DEF IInv, Types
<1>3. pending[p] = None /\ step[p] = ChunkCount[p] /\ inFlight[p] = <<>>
      /\ fold[p][ChunkCount[p] - 1].at = "proved"
  BY <1>1 DEF PathInv
<1>4. Joined(p) = ChunkCount[p]
  BY <1>1, <1>2, <1>3 DEF QueueInv, Joined
<1>5. \A k \in Steps(p) : tx[p][k] = "joined"
  BY <1>1, <1>4, ChunkCountType DEF TxInv, Steps
<1>6. \A k \in Steps(p) : fold[p][k].at = "proved"
  <2>1. ChunkCount[p] - 1 \in Steps(p)
    BY ChunkCountType DEF Steps
  <2>2. \A k \in Steps(p) : k < ChunkCount[p] - 1 => fold[p][k].at = "proved"
    BY <1>1, <1>3, <2>1 DEF FoldInv
  <2> QED
    BY <1>3, <2>2, ChunkCountType DEF Steps
<1> QED
  BY <1>5, <1>6

\* At most one chain step of a path is being proved at any time.
LEMMA OneChainStep ==
  ASSUME IInv, NEW p \in Paths, NEW j \in ProvingFolds(p), NEW k \in ProvingFolds(p)
  PROVE  j = k
<1>1. FoldInv(p) /\ j \in Steps(p) /\ k \in Steps(p) /\ fold[p][j].at = "proving" /\ fold[p][k].at = "proving"
  BY DEF IInv, LocalInv, ProvingFolds
<1>2. ~(j < k) /\ ~(k < j)
  BY <1>1 DEF FoldInv
<1> QED
  BY <1>1, <1>2, ChunkCountType DEF Steps

\* A path whose queue is empty in its last loop proves no transaction any more.
LEMMA DrainedIsJoined ==
  ASSUME IInv, NEW p \in Paths, pc[p] = "drain", inFlight[p] = <<>>
  PROVE  \A k \in Steps(p) : tx[p][k] = "joined"
<1>1. QueueInv(p) /\ PathInv(p) /\ TxInv(p)
  BY DEF IInv, LocalInv
<1>2. chain[p] \in Int /\ step[p] \in Nat
  BY DEF IInv, Types
<1>3. pending[p] = None /\ step[p] = ChunkCount[p]
  BY <1>1 DEF PathInv
<1>4. Joined(p) = ChunkCount[p]
  BY <1>1, <1>2, <1>3 DEF QueueInv, Joined
<1> QED
  BY <1>1, <1>4, ChunkCountType DEF TxInv, Steps

\* While the exclusive GPU phase is on (set_exclusive_gpu_phase), whoever turned it
\* on, no other proof is being computed.
THEOREM PipelineExclusive == Spec => []ExclusivePhaseIsAlone
<1>1. IInv => ExclusivePhaseIsAlone
  <2> SUFFICES ASSUME IInv, exclusive
      PROVE  /\ preExec = "proved"
             /\ \A p \in Paths : ProvingTxs(p) = {}
             /\ \A p, q \in Paths : \A j \in ProvingFolds(p), k \in ProvingFolds(q) : p = q /\ j = k
             /\ main = "final" => \A p \in Paths : ProvingFolds(p) = {}
    BY DEF ExclusivePhaseIsAlone
  <2>0. SyncInv
    BY DEF IInv
  <2>1. ASSUME NEW p \in Paths, pc[p] = "returned"
        PROVE  ProvingTxs(p) = {} /\ ProvingFolds(p) = {}
    BY <2>1, ReturnedIsDone DEF ProvingTxs, ProvingFolds
  <2>2. CASE main = "final"
    <3>1. \A p \in Paths : pc[p] = "returned"
      BY <2>0, <2>2 DEF SyncInv, Paths
    <3> QED
      BY <2>0, <2>1, <2>2, <3>1 DEF SyncInv
  <2>3. CASE main # "final"
    <3>1. PICK d \in Paths : drains[d] /\ pc[d] = "drain"
      BY <2>0, <2>3 DEF SyncInv
    <3>2. inFlight[d] = <<>> /\ \A q \in Paths : q # d => pc[q] = "returned"
      BY <2>0, <3>1 DEF SyncInv
    <3>3. ProvingTxs(d) = {}
      BY <3>1, <3>2, DrainedIsJoined DEF ProvingTxs
    <3>4. \A q \in Paths : q # d => ProvingTxs(q) = {} /\ ProvingFolds(q) = {}
      BY <2>1, <3>2
    <3>5. preExec = "proved"
      BY <2>0, <3>1 DEF SyncInv
    <3> QED
      BY <2>3, <3>3, <3>4, <3>5, OneChainStep
  <2> QED
    BY <2>2, <2>3
<1> QED
  BY <1>1, PipelineIInv, PTL

\* A path's circuits lose their extensions (release_heavy_circuits and the others)
\* only when no proof of theirs and no definition of the block circuit can read them.
THEOREM PipelineRelease == Spec => []ReleasedIsUnused
<1>1. IInv => ReleasedIsUnused
  <2> SUFFICES ASSUME IInv, NEW p \in released
      PROVE  ProvingTxs(p) = {} /\ ProvingFolds(p) = {} /\ Returned(p) /\ lane # "defining"
    BY DEF ReleasedIsUnused
  <2>1. p \in Paths /\ pc[p] = "returned" /\ lane = "done"
    BY DEF IInv, Types, SyncInv
  <2> QED
    BY <2>1, ReturnedIsDone DEF ProvingTxs, ProvingFolds, Returned
<1> QED
  BY <1>1, PipelineIInv, PTL

\* Every variable has its type: the threads are somewhere in their programs, the
\* queues and the latest steps are steps of their path.
THEOREM PipelineTypeOK == Spec => []TypeOK
<1>1. IInv => TypeOK
  <2> SUFFICES ASSUME IInv PROVE TypeOK
    OBVIOUS
  <2>1. ASSUME NEW p \in Paths
        PROVE  /\ step[p] \in 0 .. ChunkCount[p]
               /\ inFlight[p] \in Seq(Steps(p))
               /\ {pending[p], chain[p]} \subseteq Steps(p) \cup {None}
    <3>1. Types /\ QueueInv(p) /\ PathInv(p)
      BY DEF IInv, LocalInv
    <3>2. /\ step[p] \in Nat /\ chain[p] \in Int /\ pending[p] \in Int /\ pc[p] \in PathStates
          /\ inFlight[p] \in Seq(Nat) /\ Len(inFlight[p]) \in Nat
      BY <3>1 DEF Types
    <3>3. step[p] <= ChunkCount[p] /\ (pc[p] = "join" => step[p] < ChunkCount[p])
      BY <3>1, <3>2, ChunkCountType DEF PathInv, PathStates
    <3>4. /\ Joined(p) \in Int /\ chain[p] + 1 <= Joined(p) /\ -1 <= chain[p]
          /\ Joined(p) + Len(inFlight[p]) <= ChunkCount[p]
      BY <3>1, <3>2, <3>3, ChunkCountType DEF QueueInv, Joined
    <3> DEFINE joined == Joined(p)
               n == Len(inFlight[p])
               count == ChunkCount[p]
    <3>9. joined \in Int /\ 0 <= joined /\ joined + n <= count /\ n \in Nat /\ count \in Nat
      BY <3>2, <3>4, ChunkCountType
    <3>5. chain[p] \in Steps(p) \cup {None}
      BY <3>2, <3>4, ChunkCountType DEF Steps, None
    <3>6. pending[p] \in Steps(p) \cup {None}
      BY <3>1, PendingStep
    <3>7. \A i \in 1 .. Len(inFlight[p]) : inFlight[p][i] \in Steps(p)
      <4>1. \A i \in 1 .. Len(inFlight[p]) : inFlight[p][i] = Joined(p) + i - 1
        BY <3>1 DEF QueueInv
      <4>2. ASSUME NEW i \in 1 .. Len(inFlight[p]) PROVE Joined(p) + i - 1 \in Steps(p)
        <5>1. i \in 1 .. n
          OBVIOUS
        <5> HIDE DEF joined, n, count
        <5>2. joined + i - 1 \in 0 .. count - 1
          BY <3>9, <5>1
        <5> QED
          BY <5>2 DEF Steps, joined, count
      <4> QED
        BY <4>1, <4>2
    <3>8. inFlight[p] \in Seq(Steps(p))
      BY <3>2, <3>7
    <3> QED
      BY <3>2, <3>3, <3>5, <3>6, <3>8, ChunkCountType
  <2>2. activePaths \in 0 .. 2
    <3>1. activePaths = Active("light") + Active("heavy")
      BY DEF IInv, SyncInv
    <3> QED
      BY <3>1 DEF Active
  <2>3. Types
    BY DEF IInv
  <2> QED
    BY <2>1, <2>2, <2>3 DEF TypeOK, Types, PathStates, TxStates
<1> QED
  BY <1>1, PipelineIInv, PTL

----------------------------------------------------------------------------
(***************************************************************************)
(* The pipeline implements BlockProof.                                     *)
(***************************************************************************)
\* The proved chain steps of a path are its first n steps.
Proved(p, n) ==
    /\ n \in 0 .. ChunkCount[p]
    /\ \A j \in Steps(p) : fold[p][j].at = "proved" <=> j < n
PrefixInv == \A p \in Paths : \E n \in Nat : Proved(p, n)

\* The proof of the last proved one of the steps S, in a table f of chain steps.
LatestIn(S, f) ==
    LET done == {k \in S : f[k].at = "proved"}
    IN  IF done = {} THEN <<>> ELSE f[CHOOSE k \in done : \A j \in done : j <= k].proof

\* If the first n steps are proved it is the proof of these.
LEMMA LatestOf ==
  ASSUME NEW S, NEW f, NEW c \in Nat, S = 0 .. c - 1, NEW n \in 0 .. c,
         \A j \in S : f[j].at = "proved" <=> j < n,
         \A j \in S : f[j].at = "proved" => f[j].proof = UpTo(j)
  PROVE  LatestIn(S, f) = UpTo(n - 1)
<1> DEFINE done == {k \in S : f[k].at = "proved"}
           top == CHOOSE k \in done : \A j \in done : j <= k
<1>1. CASE n = 0
  <2>1. done = {}
    BY <1>1
  <2>2. UpTo(n - 1) = <<>>
    BY <1>1 DEF UpTo
  <2> QED
    BY <2>1, <2>2 DEF LatestIn
<1>2. CASE n > 0
  <2>1. n - 1 \in done /\ \A j \in done : j <= n - 1
    BY <1>2
  <2>2. top \in done /\ \A j \in done : j <= top
    BY <2>1
  <2>3. top = n - 1
    <3> HIDE DEF top
    <3>1. top <= n - 1 /\ n - 1 <= top
      BY <2>1, <2>2
    <3>2. top \in Int
      BY <2>2
    <3> QED
      BY <3>1, <3>2
  <2>4. f[top].proof = UpTo(n - 1)
    BY <2>1, <2>3
  <2> HIDE DEF top
  <2>5. done # {}
    BY <2>1
  <2> HIDE DEF done
  <2> QED
    BY <2>4, <2>5 DEF top, done, LatestIn
<1> QED
  BY <1>1, <1>2

\* A path whose first n chain steps are proved, and no other, exposes them in order.
LEMMA LatestIs ==
  ASSUME NEW p \in Paths, FoldInv(p), NEW n \in Nat, Proved(p, n)
  PROVE  LatestProof(p) = UpTo(n - 1)
<1>1. ChunkCount[p] \in Nat /\ Steps(p) = 0 .. ChunkCount[p] - 1 /\ n \in 0 .. ChunkCount[p]
  BY ChunkCountType DEF Steps, Proved
<1>2. \A j \in Steps(p) : fold[p][j].at = "proved" <=> j < n
  BY DEF Proved
<1>3. \A j \in Steps(p) : fold[p][j].at = "proved" => fold[p][j].proof = UpTo(j)
  BY DEF FoldInv
<1>4. LatestProof(p) = LatestIn(Steps(p), fold[p])
  BY DEF LatestProof, LatestIn
<1> QED
  BY <1>1, <1>2, <1>3, <1>4, LatestOf

\* The same in the state after the step.
LEMMA LatestIsNext ==
  ASSUME NEW p \in Paths, FoldInv(p)', NEW n \in Nat, Proved(p, n)'
  PROVE  LatestProof(p)' = UpTo(n - 1)
<1>1. ChunkCount[p] \in Nat /\ Steps(p) = 0 .. ChunkCount[p] - 1 /\ n \in 0 .. ChunkCount[p]
  BY ChunkCountType DEF Steps, Proved
<1>2. \A j \in Steps(p) : fold'[p][j].at = "proved" <=> j < n
  BY DEF Proved
<1>3. \A j \in Steps(p) : fold'[p][j].at = "proved" => fold'[p][j].proof = UpTo(j)
  BY DEF FoldInv
<1>4. LatestProof(p)' = LatestIn(Steps(p), fold'[p])
  BY DEF LatestProof, LatestIn
<1> QED
  BY <1>1, <1>2, <1>3, <1>4, LatestOf

\* A step that is not the end of a chain step leaves every proved prefix alone.
LEMMA QuietStep ==
  ASSUME IInv, [Next]_vars, NEW p \in Paths, ~(\E k \in Steps(p) : ProveChainStep(p, k))
  PROVE  \A j \in Steps(p) : fold'[p][j].at = "proved" <=> fold[p][j].at = "proved"
<1>0. Types /\ \A r \in Paths : LocalInv(r)
  BY DEF IInv
<1>1. ASSUME NEW q \in Paths, PathNext(q)
      PROVE  \A j \in Steps(p) : fold'[p][j].at = "proved" <=> fold[p][j].at = "proved"
  <2>1. CASE fold' = fold
    BY <2>1
  <2>2. CASE pending[q] # None /\ SpawnChainStep(q, pending[q])
    <3>1. QueueInv(q) /\ PathInv(q) /\ FoldInv(q)
      BY <1>0 DEF LocalInv
    <3>2. pending[q] \in Steps(q)
      BY <1>0, <2>2, <3>1, PendingStep
    <3>3. /\ \A r \in Paths : \A j \in Steps(r) : r # q \/ j # pending[q] => fold'[r][j] = fold[r][j]
          /\ fold'[q][pending[q]].at = "seeding"
      BY <1>0, <2>2, <3>2, SpawnUpdate
    <3>4. fold[q][pending[q]].at = "none"
      <4>1. pending[q] = chain[q] + 1 /\ chain[q] \in Int
        BY <1>0, <2>2, <3>1 DEF QueueInv, Types
      <4> QED
        BY <3>1, <3>2, <4>1 DEF FoldInv
    <3> QED
      BY <3>3, <3>4
  <2>3. fold' = fold \/ (pending[q] # None /\ SpawnChainStep(q, pending[q]))
    <3>1. DrainStep(q) => pending[q] # None
      BY <1>0 DEF DrainStep, LocalInv, PathInv
    <3> QED
      BY <1>1, <3>1 DEF PathNext, StartPath, LoopTop, Generate, JoinWindow, LoopEnd, DrainJoin, DrainStep,
         DrainEnd, RetirePath, FoldPending, threadVars
  <2> QED
    BY <2>1, <2>2, <2>3
<1>2. ASSUME NEW q \in Paths, NEW k \in Steps(q), StepNext(q, k)
      PROVE  \A j \in Steps(p) : fold'[p][j].at = "proved" <=> fold[p][j].at = "proved"
  <2>1. CASE ProveTxWitness(q, k)
    BY <2>1 DEF ProveTxWitness
  <2>2. CASE SeedChainStep(q, k)
    <3>1. "waiting" \in FoldStates /\ SetAt(q, k, "waiting") /\ fold[q][k].at = "seeding"
      BY <2>2 DEF SeedChainStep, FoldStates, SetAt
    <3>2. /\ \A r \in Paths : \A j \in Steps(r) : r # q \/ j # k => fold'[r][j] = fold[r][j]
          /\ fold'[q][k].at = "waiting"
      BY <1>0, <3>1, AtUpdate
    <3> QED
      BY <3>1, <3>2
  <2>3. CASE FeedChainStep(q, k)
    <3>1. "proving" \in FoldStates /\ SetAt(q, k, "proving") /\ fold[q][k].at = "waiting"
      BY <2>3 DEF FeedChainStep, FoldStates, SetAt
    <3>2. /\ \A r \in Paths : \A j \in Steps(r) : r # q \/ j # k => fold'[r][j] = fold[r][j]
          /\ fold'[q][k].at = "proving"
      BY <1>0, <3>1, AtUpdate
    <3> QED
      BY <3>1, <3>2
  <2>4. CASE ProveChainStep(q, k)
    <3>1. q # p
      BY <2>4
    <3>2. fold'[p] = fold[p]
      BY <1>0, <2>4, <3>1 DEF ProveChainStep, Types
    <3> QED
      BY <3>2
  <2> QED
    BY <1>2, <2>1, <2>2, <2>3, <2>4 DEF StepNext
<1>3. CASE OtherNext \/ UNCHANGED vars
  <2>1. fold' = fold
    BY <1>3 DEF OtherNext, LaneNext, MainNext, DefineBlockCircuit, BuildBlockCircuit, JoinHeavy, ReleaseHeavy,
         StartLanes, JoinLane, JoinLight, ReleaseLight, ProveBlock, WriteAndExit, PreExecutionProof,
         LoadRemaining, PrewarmDone, Panic, Ended, vars, threadVars
  <2> QED
    BY <2>1
<1> QED
  BY <1>1, <1>2, <1>3 DEF Next, OtherNext

\* The end of the chain step n extends the proved prefix from n to n + 1 steps.
LEMMA PrefixNext ==
  ASSUME IInv, [Next]_vars, NEW p \in Paths, NEW n \in Nat, Proved(p, n)
  PROVE  \/ Proved(p, n)'
         \/ /\ \E k \in Steps(p) : ProveChainStep(p, k)
            /\ n < ChunkCount[p] /\ Proved(p, n + 1)'
<1>1. CASE ~(\E k \in Steps(p) : ProveChainStep(p, k))
  BY <1>1, QuietStep DEF Proved
<1>2. ASSUME NEW k \in Steps(p), ProveChainStep(p, k)
      PROVE  n < ChunkCount[p] /\ Proved(p, n + 1)'
  <2>0. Types /\ FoldInv(p) /\ k \in Nat /\ k < ChunkCount[p] /\ ChunkCount[p] \in Nat
    BY ChunkCountType DEF IInv, LocalInv, Steps
  <2>1. /\ Append(PreviousProof(p, k), k) \in Seq(Nat) /\ SetProof(p, k, Append(PreviousProof(p, k), k))
        /\ fold[p][k].at = "proving"
    <3>1. Append(PreviousProof(p, k), k) \in Seq(Nat)
      BY <1>2, PreviousProofIs
    <3> QED
      BY <1>2, <3>1 DEF ProveChainStep, SetProof
  <2>2. /\ \A r \in Paths : \A j \in Steps(r) : r # p \/ j # k => fold'[r][j] = fold[r][j]
        /\ fold'[p][k].at = "proved"
    BY <2>0, <2>1, ProofUpdate
  <2>3. ~(k < n)
    BY <2>1 DEF Proved
  <2>4. ~(n < k)
    <3>1. \A j \in Steps(p) : j < k => fold[p][j].at = "proved"
      BY <2>0, <2>1 DEF FoldInv
    <3>2. n < k => n \in Steps(p)
      BY <2>0 DEF Steps
    <3> QED
      BY <3>1, <3>2 DEF Proved
  <2>5. k = n
    BY <2>0, <2>3, <2>4
  <2>6. \A j \in Steps(p) : fold'[p][j].at = "proved" <=> j < n + 1
    <3>1. ASSUME NEW j \in Steps(p) PROVE fold'[p][j].at = "proved" <=> j < n + 1
      <4>1. j \in Int
        BY <2>0 DEF Steps
      <4>2. CASE j = n
        BY <2>2, <2>5, <4>2
      <4>3. CASE j # n
        <5>1. fold'[p][j].at = "proved" <=> j < n
          BY <2>2, <2>5, <4>3 DEF Proved
        <5> QED
          BY <4>1, <4>3, <5>1
      <4> QED
        BY <4>2, <4>3
    <3> QED
      BY <3>1
  <2>7. n + 1 \in 0 .. ChunkCount[p]
    BY <2>0, <2>5
  <2> QED
    BY <2>0, <2>5, <2>6, <2>7 DEF Proved
<1> QED
  BY <1>1, <1>2

\* The prefixes of the chain: their length, and how one extends the other.
LEMMA UpToFacts ==
  ASSUME NEW n \in Nat
  PROVE  UpTo(n - 1) \in Seq(Nat) /\ Len(UpTo(n - 1)) = n /\ Append(UpTo(n - 1), n) = UpTo(n)
<1>1. UpTo(n - 1) = [i \in 1 .. n |-> i - 1]
  BY DEF UpTo
<1>2. UpTo(n - 1) \in Seq(Nat) /\ Len(UpTo(n - 1)) = n
  BY <1>1
<1>3. Append(UpTo(n - 1), n) = UpTo(n)
  BY <1>1, <1>2 DEF UpTo
<1> QED
  BY <1>2, <1>3

\* A step changes the latest proof of no path, or folds the next step into one.
LEMMA LatestNext ==
  ASSUME IInv, PrefixInv, IInv', [Next]_vars, NEW p \in Paths
  PROVE  \/ LatestProof(p)' = LatestProof(p)
         \/ /\ \E k \in Steps(p) : ProveChainStep(p, k)
            /\ Len(LatestProof(p)) < ChunkCount[p]
            /\ LatestProof(p)' = Append(LatestProof(p), Len(LatestProof(p)))
<1>1. PICK n \in Nat : Proved(p, n)
  BY DEF PrefixInv
<1>2. FoldInv(p) /\ FoldInv(p)'
  BY DEF IInv, LocalInv
<1>3. LatestProof(p) = UpTo(n - 1)
  BY <1>1, <1>2, LatestIs
<1>4. CASE Proved(p, n)'
  BY <1>2, <1>3, <1>4, LatestIsNext
<1>5. CASE /\ \E k \in Steps(p) : ProveChainStep(p, k)
           /\ n < ChunkCount[p] /\ Proved(p, n + 1)'
  <2>1. LatestProof(p)' = UpTo((n + 1) - 1)
    BY <1>2, <1>5, LatestIsNext
  <2>2. (n + 1) - 1 = n
    OBVIOUS
  <2> QED
    BY <1>3, <1>5, <2>1, <2>2, UpToFacts
<1> QED
  BY <1>1, <1>4, <1>5, PrefixNext

\* The proved chain steps of a path are always a prefix of its steps.
LEMMA PrefixInvInductive ==
  /\ Init => PrefixInv
  /\ IInv /\ PrefixInv /\ [Next]_vars => PrefixInv'
<1>1. ASSUME Init PROVE PrefixInv
  <2>1. ASSUME NEW p \in Paths PROVE Proved(p, 0)
    BY <1>1, ChunkCountType DEF Init, Proved, Steps
  <2> QED
    BY <2>1 DEF PrefixInv
<1>2. ASSUME IInv, PrefixInv, [Next]_vars PROVE PrefixInv'
  <2>1. ASSUME NEW p \in Paths PROVE \E n \in Nat : Proved(p, n)'
    <3>1. PICK n \in Nat : Proved(p, n)
      BY <1>2 DEF PrefixInv
    <3>2. n + 1 \in Nat
      OBVIOUS
    <3> QED
      BY <1>2, <3>1, <3>2, PrefixNext
  <2> QED
    BY <2>1 DEF PrefixInv
<1> QED
  BY <1>1, <1>2

\* Every step of the pipeline is a fold, the final proof or a stutter of BlockProof.
LEMMA RefinementStep ==
  ASSUME IInv, PrefixInv, IInv', [Next]_vars
  PROVE  [Abstract!Next]_<<[p \in Paths |-> LatestProof(p)], main = "write">>
<1>0. Types /\ SyncInv
  BY DEF IInv
<1>1. CASE \E p \in Paths : \E k \in Steps(p) : ProveChainStep(p, k)
  <2>0. PICK p \in Paths : \E k \in Steps(p) : ProveChainStep(p, k)
    BY <1>1
  <2>1. PICK k \in Steps(p) : ProveChainStep(p, k)
    BY <2>0
  <2>2. main' = main
    BY <2>1 DEF ProveChainStep, otherVars
  <2>3. \A q \in Paths : q # p => LatestProof(q)' = LatestProof(q)
    <3>1. ASSUME NEW q \in Paths, q # p PROVE LatestProof(q)' = LatestProof(q)
      <4>1. fold'[q] = fold[q]
        BY <1>0, <2>1, <3>1 DEF ProveChainStep, Types
      <4>2. PICK n \in Nat : Proved(q, n)
        BY DEF PrefixInv
      <4>3. Proved(q, n)'
        BY <4>1, <4>2 DEF Proved
      <4> QED
        BY <4>2, <4>3, LatestIs, LatestIsNext DEF IInv, LocalInv
    <3> QED
      BY <3>1
  <2>4. CASE LatestProof(p)' = LatestProof(p)
    BY <2>2, <2>3, <2>4
  <2>5. CASE /\ Len(LatestProof(p)) < ChunkCount[p]
             /\ LatestProof(p)' = Append(LatestProof(p), Len(LatestProof(p)))
    <3>1. Abstract!Fold(p)
      BY <2>2, <2>3, <2>5 DEF Abstract!Fold
    <3> QED
      BY <3>1 DEF Abstract!Next
  <2> QED
    BY <2>4, <2>5, LatestNext
<1>2. CASE ~(\E p \in Paths : \E k \in Steps(p) : ProveChainStep(p, k))
  <2>1. \A p \in Paths : LatestProof(p)' = LatestProof(p)
    BY <1>2, LatestNext
  <2>2. CASE ProveBlock
    <3>1. main = "final" /\ main' = "write"
      BY <2>2 DEF ProveBlock
    <3>2. ASSUME NEW p \in Paths PROVE Len(LatestProof(p)) = ChunkCount[p]
      <4>1. pc[p] = "returned" /\ FoldInv(p)
        BY <1>0, <3>1 DEF SyncInv, Paths, IInv, LocalInv
      <4>2. Proved(p, ChunkCount[p]) /\ ChunkCount[p] \in Nat
        BY <4>1, ReturnedIsDone, ChunkCountType DEF Proved, Steps
      <4> QED
        BY <4>1, <4>2, LatestIs, UpToFacts
    <3>3. Abstract!Prove
      BY <2>1, <3>1, <3>2 DEF Abstract!Prove
    <3> QED
      BY <3>3 DEF Abstract!Next
  <2>3. CASE main' = main
    BY <2>1, <2>3
  <2>4. CASE main # "write" /\ main' # "write"
    BY <2>1, <2>4
  <2>5. ProveBlock \/ main' = main \/ (main # "write" /\ main' # "write")
    BY ZenonT(60) DEF Next, PathNext, StartPath, LoopTop, Generate, JoinWindow, LoopEnd, DrainJoin, DrainStep, DrainEnd,
         RetirePath, StepNext, ProveTxWitness, SeedChainStep, FeedChainStep, ProveChainStep,
         LaneNext, MainNext, DefineBlockCircuit, BuildBlockCircuit, JoinHeavy, ReleaseHeavy,
         StartLanes, JoinLane, JoinLight, ReleaseLight, WriteAndExit, PreExecutionProof,
         LoadRemaining, PrewarmDone, Panic, Ended, vars, otherVars
  <2> QED
    BY <2>2, <2>3, <2>4, <2>5
<1> QED
  BY <1>1, <1>2

\* The pipeline implements BlockProof: whatever the order in which its threads
\* finish, each chain proof grows by the next chunk, and the block proof is
\* made once, from the complete chain proofs of both paths (prove_path, prove_block_after_pre).
THEOREM PipelineRefines == Spec => RefinesBlockProof
<1>1. Init => Abstract!Init
  <2> SUFFICES ASSUME Init PROVE Abstract!Init
    OBVIOUS
  <2>1. ASSUME NEW p \in Paths PROVE LatestProof(p) = <<>>
    <3>1. {k \in Steps(p) : fold[p][k].at = "proved"} = {}
      BY DEF Init
    <3> QED
      BY <3>1 DEF LatestProof
  <2>2. main = "startup"
    BY DEF Init
  <2> QED
    BY <2>1, <2>2 DEF Abstract!Init
<1>2. Spec => []PrefixInv
  BY PipelineIInv, PrefixInvInductive, PTL DEF Spec
<1>3. IInv /\ PrefixInv /\ IInv' /\ [Next]_vars =>
        [Abstract!Next]_<<[p \in Paths |-> LatestProof(p)], main = "write">>
  BY RefinementStep
<1> QED
  BY <1>1, <1>2, <1>3, PipelineIInv, PTL DEF Spec, RefinesBlockProof, Abstract!Spec

----------------------------------------------------------------------------
(***************************************************************************)
(* What the scheduling counters say agrees with the threads.               *)
(***************************************************************************)
\* The most transaction proofs of a path in flight, and what the queue keeps of it.
WindowOf(p) == IF p = "heavy" THEN 1 ELSE IF Window < 2 THEN 2 ELSE Window
WidthInv ==
    \A p \in Paths :
        /\ Len(inFlight[p]) <= WindowOf(p)
        /\ pc[p] \in {"none", "start", "loop", "generate"} => Len(inFlight[p]) < WindowOf(p)

\* The bound of a round is within the bound of the path.
LEMMA WindowIsBound ==
  ASSUME NEW p \in Paths
  PROVE  WindowOf(p) \in Nat /\ WindowOf(p) > 0 /\ MaxInFlight(p) \in Nat /\ MaxInFlight(p) <= WindowOf(p)
BY PipelineAssumption DEF Paths, WindowOf, MaxInFlight

\* The path with a full window joins before it goes on (max_in_flight).
LEMMA WidthNext ==
  ASSUME IInv, IInv', WidthInv, [Next]_vars
  PROVE  WidthInv'
<1>0. Types /\ \A p \in Paths : inFlight[p] \in Seq(Nat) /\ Len(inFlight[p]) \in Nat
  BY DEF IInv, Types
<1>1. ASSUME NEW p \in Paths
      PROVE  /\ Len(inFlight'[p]) <= WindowOf(p)
             /\ pc'[p] \in {"none", "start", "loop", "generate"} => Len(inFlight'[p]) < WindowOf(p)
  <2>0. /\ Len(inFlight[p]) \in Nat /\ inFlight[p] \in Seq(Nat) /\ Len(inFlight[p]) <= WindowOf(p)
        /\ pc[p] \in {"none", "start", "loop", "generate"} => Len(inFlight[p]) < WindowOf(p)
        /\ WindowOf(p) \in Nat /\ MaxInFlight(p) \in Nat /\ MaxInFlight(p) <= WindowOf(p)
    BY <1>0, WindowIsBound DEF WidthInv
  <2>1. CASE Generate(p)
    <3>1. inFlight'[p] = Append(inFlight[p], step[p]) /\ pc[p] = "generate" /\ step[p] \in Nat
      BY <1>0, <2>1 DEF Generate, Types
    <3>2. Len(inFlight'[p]) = Len(inFlight[p]) + 1
      BY <2>0, <3>1
    <3>3. Len(inFlight[p]) + 1 >= MaxInFlight(p) => pc'[p] = "join"
      BY <1>0, <2>1 DEF Generate, Types
    <3> QED
      BY <2>0, <3>1, <3>2, <3>3
  <2>2. CASE JoinWindow(p) \/ DrainJoin(p)
    <3>1. inFlight'[p] = Tail(inFlight[p]) /\ inFlight[p] # <<>>
      BY <1>0, <2>2 DEF JoinWindow, DrainJoin, JoinOldest, Types
    <3>2. Len(inFlight'[p]) = Len(inFlight[p]) - 1
      BY <2>0, <3>1
    <3> QED
      BY <2>0, <3>2
  <2>3. CASE inFlight'[p] = inFlight[p]
             /\ (pc'[p] \in {"none", "start", "loop", "generate"} =>
                    pc[p] \in {"none", "start", "loop", "generate"})
    BY <2>0, <2>3
  <2>4. ASSUME NEW q \in Paths, PathNext(q), ~(Generate(p) \/ JoinWindow(p) \/ DrainJoin(p))
        PROVE  inFlight'[p] = inFlight[p]
               /\ (pc'[p] \in {"none", "start", "loop", "generate"} =>
                      pc[p] \in {"none", "start", "loop", "generate"})
    <3>1. CASE q = p
      BY <1>0, <2>4, <3>1 DEF PathNext, StartPath, LoopTop, LoopEnd, DrainStep, DrainEnd, RetirePath, Types
    <3>2. CASE q # p
      BY <1>0, <2>4, <3>2 DEF PathNext, StartPath, LoopTop, Generate, JoinWindow, LoopEnd, DrainJoin,
         DrainStep, DrainEnd, RetirePath, JoinOldest, NextRound, Types
    <3> QED
      BY <3>1, <3>2
  <2>5. ASSUME NEW q \in Paths, NEW k \in Steps(q), StepNext(q, k)
        PROVE  inFlight' = inFlight /\ pc' = pc
    BY <2>5 DEF StepNext, ProveTxWitness, SeedChainStep, FeedChainStep, ProveChainStep, pathVars
  <2>6. CASE OtherNext \/ UNCHANGED vars
    <3>1. CASE StartLanes
      <4>1. pc[p] = "none" /\ inFlight' = inFlight
        BY <3>1 DEF StartLanes, IInv, SyncInv
      <4> QED
        BY <2>3, <4>1
    <3>2. CASE ~StartLanes
      <4>1. inFlight' = inFlight /\ pc' = pc
        BY <2>6, <3>2 DEF OtherNext, LaneNext, MainNext, DefineBlockCircuit, BuildBlockCircuit, JoinHeavy,
           ReleaseHeavy, JoinLane, JoinLight, ReleaseLight, ProveBlock, WriteAndExit, PreExecutionProof,
           LoadRemaining, PrewarmDone, Panic, Ended, vars, pathVars
      <4> QED
        BY <2>3, <4>1
    <3> QED
      BY <3>1, <3>2
  <2> QED
    BY <2>1, <2>2, <2>3, <2>4, <2>5, <2>6 DEF Next, OtherNext
<1> QED
  BY <1>1 DEF WidthInv, WindowOf

\* The transaction proofs that run are among those started and not joined.
LEMMA ProvingAreInFlight ==
  ASSUME IInv, WidthInv, NEW p \in Paths
  PROVE  Cardinality(ProvingTxs(p)) <= WindowOf(p)
<1> DEFINE first == Joined(p)
           last == Started(p) - 1
<1>1. /\ pc[p] \in PathStates /\ step[p] \in Nat /\ Len(inFlight[p]) \in Nat /\ chain[p] \in Int
      /\ QueueInv(p) /\ TxInv(p)
      /\ tx[p] \in [Steps(p) -> TxStates]
  BY DEF IInv, Types, LocalInv
<1>2. first \in Int /\ last \in Int
  BY <1>1 DEF Joined, Started
<1>3. last - first + 1 <= WindowOf(p) /\ WindowOf(p) \in Nat
  <2>1. first + Len(inFlight[p]) = IF pc[p] = "join" THEN step[p] + 1 ELSE step[p]
    BY <1>1 DEF QueueInv
  <2>2. last = IF pc[p] \in {"generate", "join"} THEN step[p] ELSE step[p] - 1
    BY <1>1 DEF Started
  <2>3. /\ Len(inFlight[p]) <= WindowOf(p) /\ (pc[p] = "generate" => Len(inFlight[p]) < WindowOf(p))
        /\ WindowOf(p) \in Nat
    BY WindowIsBound DEF WidthInv
  <2>4. Len(inFlight[p]) \in Nat /\ step[p] \in Nat /\ first \in Int /\ last \in Int
    BY <1>1, <1>2
  <2> HIDE DEF first, last
  <2>5. CASE pc[p] = "join"
    BY <2>1, <2>2, <2>3, <2>4, <2>5
  <2>6. CASE pc[p] = "generate"
    BY <2>1, <2>2, <2>3, <2>4, <2>6
  <2>7. CASE pc[p] \notin {"join", "generate"}
    BY <2>1, <2>2, <2>3, <2>4, <2>7, SMTT(30)
  <2> QED
    BY <2>5, <2>6, <2>7
<1>4. ProvingTxs(p) \subseteq first .. last
  <2>1. ASSUME NEW k \in Steps(p), tx[p][k] = "proving"
        PROVE  k \in Int /\ ~(k < Joined(p)) /\ ~(k >= Started(p))
    <3>1. /\ tx[p][k] = "none" <=> k >= Started(p)
          /\ tx[p][k] = "joined" <=> k < Joined(p)
      BY <1>1 DEF TxInv
    <3>2. k \in Int
      BY ChunkCountType DEF Steps
    <3> QED
      BY <2>1, <3>1, <3>2
  <2>2. Joined(p) \in Int /\ Started(p) \in Int
    BY <1>1 DEF Joined, Started
  <2> QED
    BY <2>1, <2>2 DEF ProvingTxs
<1> HIDE DEF first, last
<1>5. IsFiniteSet(first .. last) /\ Cardinality(first .. last) = IF first > last THEN 0 ELSE last - first + 1
  BY <1>2, FS_Interval
<1>6. Cardinality(first .. last) <= WindowOf(p) /\ Cardinality(first .. last) \in Nat
  BY <1>2, <1>3, <1>5
<1>7. IsFiniteSet(ProvingTxs(p)) /\ Cardinality(ProvingTxs(p)) <= Cardinality(first .. last)
  BY <1>4, <1>5, FS_Subset
<1>8. Cardinality(ProvingTxs(p)) \in Nat
  BY <1>7, FS_CardinalityType
<1> QED
  BY <1>3, <1>6, <1>7, <1>8

----------------------------------------------------------------------------
\* The table of chain steps is finite, and so is every part of it.
LEMMA UnprovedFinite ==
  ASSUME NEW p \in Paths
  PROVE  IsFiniteSet(Unproved(p)) /\ Cardinality(Unproved(p)) \in Nat
<1>1. IsFiniteSet(Steps(p))
  <2>1. 0 \in Int /\ ChunkCount[p] - 1 \in Int
    BY ChunkCountType
  <2>2. IsFiniteSet(0 .. (ChunkCount[p] - 1))
    BY <2>1, FS_Interval
  <2> QED
    BY <2>2 DEF Steps
<1>2. Unproved(p) \subseteq Steps(p)
  BY DEF Unproved
<1>3. IsFiniteSet(Unproved(p))
  BY <1>1, <1>2, FS_Subset
<1> QED
  BY <1>3, FS_CardinalityType

\* How a step changes the chain steps that are started and not proved.
Spawns(p, k) ==
    /\ k \notin Unproved(p) /\ Unproved(p)' = Unproved(p) \cup {k}
    /\ backlog' = backlog + 1
Proves(p, k) ==
    /\ k \in Unproved(p) /\ Unproved(p)' = Unproved(p) \ {k}
    /\ backlog' = backlog - 1
Others(p) == \A q \in Paths : q # p => Unproved(q)' = Unproved(q)
Quiet == (\A p \in Paths : Unproved(p)' = Unproved(p)) /\ backlog' = backlog

\* Starting the chain step that is pending adds it.
LEMMA SpawnAdds ==
  ASSUME IInv, NEW p \in Paths, pending[p] # None, SpawnChainStep(p, pending[p])
  PROVE  Spawns(p, pending[p]) /\ Others(p)
<1> DEFINE k == pending[p]
<1>1. Types /\ QueueInv(p) /\ PathInv(p) /\ FoldInv(p)
  BY DEF IInv, LocalInv
<1>2. k \in Steps(p)
  BY <1>1, PendingStep
<1>3. /\ \A r \in Paths : \A j \in Steps(r) : r # p \/ j # k => fold'[r][j] = fold[r][j]
      /\ fold'[p][k].at = "seeding"
  BY <1>1, <1>2, SpawnUpdate
<1>4. fold[p][k].at = "none"
  <2>1. k = chain[p] + 1 /\ chain[p] \in Int
    BY <1>1 DEF QueueInv, Types
  <2> QED
    BY <1>1, <1>2, <2>1 DEF FoldInv
<1>5. backlog' = backlog + 1
  BY DEF SpawnChainStep
<1> HIDE DEF k
<1>6. k \notin Unproved(p) /\ Unproved(p)' = Unproved(p) \cup {k}
  BY <1>2, <1>3, <1>4 DEF Unproved
<1>7. Others(p)
  BY <1>3 DEF Others, Unproved
<1> QED
  BY <1>5, <1>6, <1>7 DEF Spawns, k

\* The end of a chain step removes it.
LEMMA ProofRemoves ==
  ASSUME IInv, NEW p \in Paths, NEW k \in Steps(p), ProveChainStep(p, k)
  PROVE  Proves(p, k) /\ Others(p)
<1>1. Types /\ FoldInv(p)
  BY DEF IInv, LocalInv
<1>2. /\ Append(PreviousProof(p, k), k) \in Seq(Nat) /\ SetProof(p, k, Append(PreviousProof(p, k), k))
      /\ fold[p][k].at = "proving" /\ backlog' = backlog - 1
  <2>1. Append(PreviousProof(p, k), k) \in Seq(Nat)
    BY PreviousProofIs DEF IInv
  <2> QED
    BY <2>1 DEF ProveChainStep, SetProof
<1>3. /\ \A r \in Paths : \A j \in Steps(r) : r # p \/ j # k => fold'[r][j] = fold[r][j]
      /\ fold'[p][k].at = "proved"
  BY <1>1, <1>2, ProofUpdate
<1>4. k \in Unproved(p) /\ Unproved(p)' = Unproved(p) \ {k}
  BY <1>2, <1>3 DEF Unproved
<1>5. Others(p)
  BY <1>3 DEF Others, Unproved
<1> QED
  BY <1>2, <1>4, <1>5 DEF Proves

\* Moving on within a chain step changes nothing.
LEMMA MoveIsQuiet ==
  ASSUME IInv, NEW p \in Paths, NEW k \in Steps(p), SeedChainStep(p, k) \/ FeedChainStep(p, k)
  PROVE  Quiet
<1>0. Types
  BY DEF IInv
<1>1. ASSUME NEW a \in {"waiting", "proving"}, SetAt(p, k, a),
             fold[p][k].at \in {"seeding", "waiting"}, backlog' = backlog
      PROVE  Quiet
  <2>1. a \in FoldStates
    BY DEF FoldStates
  <2>2. /\ \A r \in Paths : \A j \in Steps(r) : r # p \/ j # k => fold'[r][j] = fold[r][j]
        /\ fold'[p][k].at = a
    BY <1>0, <1>1, <2>1, AtUpdate
  <2>3. ASSUME NEW q \in Paths PROVE Unproved(q)' = Unproved(q)
    BY <1>1, <2>2 DEF Unproved
  <2> QED
    BY <1>1, <2>3 DEF Quiet
<1>2. CASE SeedChainStep(p, k)
  BY <1>1, <1>2 DEF SeedChainStep, SetAt, sharedVars
<1>3. CASE FeedChainStep(p, k)
  BY <1>1, <1>3 DEF FeedChainStep, SetAt, sharedVars
<1> QED
  BY <1>2, <1>3

\* Every step leaves the unproved steps alone, starts one chain step of one path,
\* or finishes one of one path.
LEMMA UnprovedNext ==
  ASSUME IInv, [Next]_vars
  PROVE  Quiet \/ \E p \in Paths : \E k : (Spawns(p, k) \/ Proves(p, k)) /\ Others(p)
<1>0. Types /\ \A r \in Paths : LocalInv(r)
  BY DEF IInv
<1>1. CASE fold' = fold /\ backlog' = backlog
  BY <1>1 DEF Quiet, Unproved
<1>2. ASSUME NEW p \in Paths, PathNext(p)
      PROVE  \/ fold' = fold /\ backlog' = backlog
             \/ pending[p] # None /\ SpawnChainStep(p, pending[p])
  <2>1. DrainStep(p) => pending[p] # None
    BY <1>0 DEF DrainStep, LocalInv, PathInv
  <2> QED
    BY <1>2, <2>1 DEF PathNext, StartPath, LoopTop, Generate, JoinWindow, LoopEnd, DrainJoin, DrainStep,
       DrainEnd, RetirePath, FoldPending, threadVars, sharedVars
<1>3. ASSUME NEW p \in Paths, pending[p] # None, SpawnChainStep(p, pending[p])
      PROVE  \E q \in Paths : \E k : (Spawns(q, k) \/ Proves(q, k)) /\ Others(q)
  BY <1>3, SpawnAdds
<1>4. ASSUME NEW p \in Paths, NEW k \in Steps(p), StepNext(p, k)
      PROVE  \/ fold' = fold /\ backlog' = backlog
             \/ Quiet
             \/ Proves(p, k) /\ Others(p)
  <2>1. CASE ProveTxWitness(p, k)
    BY <2>1 DEF ProveTxWitness, sharedVars
  <2>2. CASE SeedChainStep(p, k) \/ FeedChainStep(p, k)
    BY <2>2, MoveIsQuiet
  <2>3. CASE ProveChainStep(p, k)
    BY <2>3, ProofRemoves
  <2> QED
    BY <1>4, <2>1, <2>2, <2>3 DEF StepNext
<1>5. CASE OtherNext \/ UNCHANGED vars
  <2>1. fold' = fold /\ backlog' = backlog
    BY <1>5 DEF OtherNext, LaneNext, MainNext, DefineBlockCircuit, BuildBlockCircuit, JoinHeavy, ReleaseHeavy,
       StartLanes, JoinLane, JoinLight, ReleaseLight, ProveBlock, WriteAndExit, PreExecutionProof,
       LoadRemaining, PrewarmDone, Panic, Ended, vars, threadVars, sharedVars
  <2> QED
    BY <1>1, <2>1
<1> QED
  BY <1>1, <1>2, <1>3, <1>4, <1>5 DEF Next, OtherNext

\* The backlog follows the set of unproved chain steps.
LEMMA BacklogNext ==
  ASSUME IInv, BacklogExact, [Next]_vars
  PROVE  BacklogExact'
<1> DEFINE n(p) == Cardinality(Unproved(p))
<1>1. \A p \in Paths : n(p) \in Nat /\ IsFiniteSet(Unproved(p))
  BY UnprovedFinite
<1>2. backlog = n("light") + n("heavy") /\ "light" \in Paths /\ "heavy" \in Paths
  BY DEF BacklogExact, Paths
<1>3. CASE Quiet
  BY <1>2, <1>3 DEF Quiet, BacklogExact
<1>4. ASSUME NEW p \in Paths, NEW k, Spawns(p, k), Others(p)
      PROVE  BacklogExact'
  <2>1. Cardinality(Unproved(p) \cup {k}) = n(p) + 1
    BY <1>1, <1>4, FS_AddElement DEF Spawns
  <2>2. n(p)' = n(p) + 1 /\ backlog' = backlog + 1 /\ \A q \in Paths : q # p => n(q)' = n(q)
    BY <1>4, <2>1 DEF Spawns, Others
  <2> HIDE DEF n
  <2>3. n("light")' + n("heavy")' = backlog'
    BY <1>1, <1>2, <2>2 DEF Paths
  <2> QED
    BY <2>3 DEF BacklogExact, n
<1>5. ASSUME NEW p \in Paths, NEW k, Proves(p, k), Others(p)
      PROVE  BacklogExact'
  <2>1. Cardinality(Unproved(p) \ {k}) = n(p) - 1
    BY <1>1, <1>5, FS_RemoveElement DEF Proves
  <2>2. n(p)' = n(p) - 1 /\ backlog' = backlog - 1 /\ \A q \in Paths : q # p => n(q)' = n(q)
    BY <1>5, <2>1 DEF Proves, Others
  <2> HIDE DEF n
  <2>3. n("light")' + n("heavy")' = backlog'
    BY <1>1, <1>2, <2>2 DEF Paths
  <2> QED
    BY <2>3 DEF BacklogExact, n
<1> QED
  BY <1>3, <1>4, <1>5, UnprovedNext

\* The backlog is the number of chain steps that run, whichever of the three
\* places in prove_path started them, and the transaction proofs in flight
\* stay within the window: for every number of chunks, window and ramp.
THEOREM PipelineCounters == Spec => []CountersExact
<1>1. Init => BacklogExact /\ WidthInv
  <2> SUFFICES ASSUME Init PROVE BacklogExact /\ WidthInv
    OBVIOUS
  <2>1. Unproved("light") = {} /\ Unproved("heavy") = {} /\ backlog = 0
    BY DEF Init, Unproved, Paths
  <2>2. BacklogExact
    BY <2>1, FS_EmptySet DEF BacklogExact
  <2>3. ASSUME NEW p \in Paths
        PROVE  Len(inFlight[p]) = 0 /\ WindowOf(p) \in Nat /\ WindowOf(p) > 0
    BY WindowIsBound DEF Init
  <2> QED
    BY <2>2, <2>3 DEF WidthInv
<1>2. IInv /\ IInv' /\ BacklogExact /\ WidthInv /\ [Next]_vars => BacklogExact' /\ WidthInv'
  BY BacklogNext, WidthNext
<1>3. IInv /\ BacklogExact /\ WidthInv => CountersExact
  <2> SUFFICES ASSUME IInv, BacklogExact, WidthInv PROVE CountersExact
    OBVIOUS
  <2>1. Cardinality(ProvingTxs("heavy")) <= WindowOf("heavy")
        /\ Cardinality(ProvingTxs("light")) <= WindowOf("light")
    BY ProvingAreInFlight DEF Paths
  <2>2. WindowOf("heavy") = 1 /\ WindowOf("light") = IF Window < 2 THEN 2 ELSE Window
    BY DEF WindowOf
  <2>3. WindowBounds
    BY <2>1, <2>2 DEF WindowBounds
  <2> QED
    BY <2>3 DEF CountersExact
<1> QED
  BY <1>1, <1>2, <1>3, PipelineIInv, PTL DEF Spec
============================================================================
