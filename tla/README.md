# A TLA+ model of the Lighter prover

The repository is the prover of a zk-rollup exchange. Its circuits
(`src/circuit/src`, plonky2) *are* the exchange's state transition function: a
block is valid if and only if every transaction in it satisfies the constraints
written there. So a disagreement between two handlers is not an exception in a
log: it is a wrong state with a valid proof, or a block that nobody can prove.

This directory models the system in TLA+, checks the models with TLC and proves
the most important results with TLAPS. From the inside out:

* the life of orders, which carries most of the control of the state transition
  function: from the transactions that create them, through the matching engine
  and the instruction register stack, to the transactions that remove them;
* the ledger: everything that moves value or changes its terms (transfers, pools,
  staking, trades, liquidations, funding, markets, assets, keys), with its
  arithmetic;
* the state trees by which one transaction takes the chain from one root to the
  next;
* the composition of a block from two chains of proofs, which must be worth one
  sequential execution, of a batch from blocks, and of what both publish, down to
  the blob that the exit tool reads;
* the custom gates and the arithmetic gadgets all of this is written in;
* the threads that prove a block.

## 1. Inventory

Sources are relative to `src/circuit/src`.

| component | source | state | operations | what makes it correct |
|---|---|---|---|---|
| instruction register stack | `types/register/*`, `types/tx_state.rs` | 9 registers and a count; 8 slots for new instructions | put aside, push with compaction and shift, pop, rewrite the top | a bounded LIFO: nothing lost, reordered or doubled |
| matching engine | `matching_engine.rs`, `apply_trade.rs` | the pending order (top register), one maker order, both positions, the market | one matching step | best maker first, never a stale one, never beyond slippage or reduce-only, counters right on every branch |
| order bookkeeping | `types/order.rs`, `types/account_order.rs`, `types/market.rs`, `types/account_position/` | two trees of orders, five order counters, nonces, locked balances | insert, remove, count, lock | counters, trees and locks describe the same orders |
| order transactions | `transactions/*order*.rs` | none of their own | verify, apply | parents, children and partners of a group stay consistent over many transactions |
| ledger | `transactions/` (deposits, withdrawals, transfers, configuration), `types/account*/` | balances, locked amounts, supply of an asset, public balances | credit, debit, publish | value conserved to the last unit; totals are sums of their parts |
| public pools and staking | `transactions/*shares*.rs`, `*pool*.rs`, `*stake*.rs`, `types/public_pool.rs` | shares, principal, cooldown, pending unlocks | mint, burn, stake, unlock | no holder pays for another's rounding |
| risk, liquidation, deleverage | `types/risk_info.rs`, `liquidation.rs`, `internal_liquidate_*.rs`, `internal_deleverage.rs` | requirement and value of an account | compare, zero price, liquidate, deleverage | a healthy account is never made unhealthy by someone's action |
| markets, assets, system | `l1_*market*.rs`, `l1_*asset*.rs`, `l2_update_*.rs`, `internal_exit_position.rs` | terms of markets and assets, configuration | create, update, expire, reuse | terms change only when nothing depends on the old ones |
| block pre-execution | `block_pre_execution*.rs` | mark and index price, funding, premium | once per block | funding sums to zero; open interest bound |
| dispatch and authorisation | `tx_constraints.rs`, `types/tx_type.rs`, `tx_attributes.rs`, `l1_change_pub_key.rs` | keys, nonces, approvals | common checks of all transactions | a signed message runs once, an integrator takes what was granted |
| light transaction path | `light_tx_constraints.rs`, `execute_matching_light` | as above | transactions that do not trade | must agree with the full path |
| state trees | `tx_constraints.rs`, `light_tx_constraints.rs`, `types/*` (hashes) | account, position, order, asset, market, public data and delta trees | open, rewrite, fold | what was read is current, what was written is committed to |
| transaction chains of a block | `block_tx*.rs`, `block_constraints.rs` | jump state of each chain; operations of segment, chain and block | take a transaction, close a segment, prove the block | two proofs that never saw each other are one execution |
| block witness | `block.rs` | list of transactions, groups by circuit type | index, group, pad | gives what the chains accept |
| batches | `recursion/` | roots, timestamps, hashes of operations, segment info | fold, merge | a batch says exactly what its blocks did |
| deltas and blob | `delta/`, `blob/`, `types/account_delta/`; exit tool in `src/desertexit` | tree of changes, numbers, half-bytes | aggregate, pack, compare, read | the exit tool reads exactly what changed |
| gadgets | `bigint`, `uint`, `nonnative`, `comparison`, `eddsa`, ... | wires | arithmetic, comparison, selection | an accepted row is right over the integers, an honest one is accepted |
| proving pipeline | `src/bench/src/prover.rs`, `api.rs`, `bin/prove.rs` | windows of proofs in flight, chain steps, locks, three process-wide counters and switches | prove chunks, fold, release circuits, exit | no deadlock, no use after release, every chunk folded once and in order |

What is hard in the circuits is not concurrency in the usual sense: a circuit is
sequential. The interleaving is that of *transactions*. A single user action
(an order that meets ten makers, a cancel-all of five hundred orders, a trade
that closes a position with orders tied to it) takes many transactions; what is
left to do sits in the register stack; counters and sizes that were read when an
instruction was pushed are used when it is executed. The sequencer chooses the
order and the witnesses within what the circuit accepts. The same holds one level
up: the two chains of a block, and the segments of a batch, are proved without
seeing each other, by a prover who chooses indices, roots, padding and
assumptions. Inside a transaction the hazard is aliasing: three account slots
that may be one account, each with its copy of the same leaf. The pipeline, on
the other hand, is ordinary concurrency: some sixty threads per block, of which
at most a dozen run at a time, around locks, atomics and joins. `PROJECT.json`
lists the hazards, each at its line with the properties that would catch it.

## 2. Modules

| module | models | composed from |
|---|---|---|
| `InstructionStack` | abstract: a bounded LIFO of instructions | |
| `RegisterOps` | the operations on the register stack as operators | |
| `RegisterStack` | the register stack as a state machine, arbitrary instructions | `RegisterOps`; refines `InstructionStack` |
| `RegisterStackProofs` | theorems about it | `RegisterStack` |
| `Orders` | order counters, nonces, locked balances, the two trees, instructions | `RegisterOps` |
| `Matching` | one call of `execute_matching` | `Orders` |
| `OrderFlow` | all order transactions of one active market, clock and mark price | `Matching` |
| `OrderFlowProofs` | theorems about the book, matching and the pending orders | `OrderFlow` |
| `OrderCountsProofs` | theorems about the counters of orders and the cancel-alls that rely on them | `OrderFlowProofs` |
| `Risk` | margin arithmetic: value, requirements, health, zero price | |
| `Balances` | balances, the three account slots of a transaction, published balances | `Risk` |
| `Pools` | shares, entry price, operator's part | `Balances` |
| `Ledger` | deposits, withdrawals, transfers and their fees, trading modes, lending, sub accounts | `Pools` |
| `PoolLedger` | pools, minting and burning of shares, staking, pending unlocks | `Ledger` |
| `Clearing` | what a trade does to positions, balances and fees; liquidation, deleverage | `PoolLedger` |
| `Markets` | leverage, isolated margin, administration of markets, assets and system, exit of positions | `Clearing` |
| `PreExecution` | oracle prices, premium samples, funding rounds | `Markets` |
| `Authorisation` | keys, nonces and their skipping, integrators | `Ledger` |
| `Exchange` | all of these in any order, and what must hold whatever the order | `PreExecution`, `Authorisation` |
| `ExchangeProofs` | theorems about signed messages | `Exchange` |
| `UintGates`, `BitGates`, `QuinticGates` | the field and polynomials over it; the custom gates: layout, constraints of every evaluator, generator | |
| `Words`, `BigNumbers`, `SignedNumbers`, `NonNative` | what the builder offers on words, big, signed, half-limb and non-native numbers | `UintGates` |
| `Gadgets` | one call of one gadget and what it should yield | `NonNative` |
| `Gates` | one operation of a gate or one call of a gadget, honest or forged | `QuinticGates`, `Gadgets` |
| `StateHashes` | what each hash of the state covers | |
| `StateTrees` | roots, witnesses and the heavy and light transaction circuit between them | `StateHashes` |
| `StateTreesProofs` | theorems about what the circuits accept and write | `StateTrees` |
| `BlockChains` | the jump states of the light and heavy chain and the block circuit that joins them | |
| `BlockChunks` | the honest prover: indices, groups and padding of a block's transactions | `BlockChains` |
| `BlockOperations` | on-chain operations, priority operation and L1 message, from transaction to block | `BlockChains` |
| `BlockProofs` | theorems about the chains and about their operations | `BlockOperations` |
| `Batches` | blocks folded into segments, segments merged into a batch | |
| `BatchesProofs` | theorems about them | `Batches` |
| `DeltaStream` | the changes of a batch: tree, delta proofs, blob, reader of the exit tool | |
| `BlockProof` | abstract: chains that grow in order and one block proof | |
| `ProvingPipeline` | the threads that prove a block | refines `BlockProof` |
| `ProvingPipelineProofs` | theorems about it | `ProvingPipeline` |
| `MCOrderFlow`, `MCExchange`, `MCBlocks`, `MCPublicData` | instances for TLC | |

### How the model corresponds to the code

`TxState` of the code is a record `s` that the operators of `Orders` and
`Matching` take and return; `OrderFlow!Tx` builds it from the variables and
`Become` writes it back. An assertion of the circuit is `Assert(s, p)`: if `p`
is false then `s.ok` is false and the transaction has no proof, so the action is
not enabled. One action of `OrderFlow` is one transaction: guard (`verify`),
effect (`apply`), `push_instruction_stack::<3>`, matching if the handler asked
for it, `push_instruction_stack::<8>` (`tx_constraints.rs`, `define`).

| variable | code |
|---|---|
| `rs` | `register_stack`: `stack[0..8]`, `count` |
| `market` | `ask_nonce`, `bid_nonce`, `total_order_count`, `open_interest` |
| `acct` | `total_order_count`, `total_non_cross_order_count`, `cancel_all_time` |
| `pos` | `position`, its two order counts, `margin_mode`, `margin_set_flag` |
| `orders` | account orders tree, by order index (there is one market: the nonce) |
| `book` | order book tree: the set of its non-empty leaves |
| `locked` | `locked_balance` of base and quote asset |
| `now`, `mark` | `block_created_at`, `mark_price` |

A market's orders are `orders` *and* `book`: the code keeps the remaining size in
both trees, and the model does too, so that it can be asked whether they agree.

What is abstracted: the risk engine, fee rates and spot balances speak through a
*verdict* that is chosen freely for each trade (`Matching`; the arithmetic behind
it is in `Clearing` and `Risk`); the quote multiplier
is one; minimum sizes and quote limits are left out; TWAP slices are cut at the
order's own price; client order ids, public pools' rights and the market's status
(always active) are left out; prices and sizes are small numbers. The Merkle
witnesses the sequencer presents are modelled by what the constraints force them
to be: `Best` is the leaf for which nothing on the opposite side comes before it.

**Exchange.** `Exchange` is the other half of the same transactions: it knows no
order books, and the trades that matching may decide on are inputs that happen if
both accounts can bear them. As in the code a transaction copies its accounts
into the slots OWNER, SUB and FEE, which may be one account; a change to one copy
reaches the others (`Balances`), the slots are written back at the end, and the
differences are added to the public data. Amounts, prices and fractions are
integers with small ticks (margin fractions and fees count eighths), so that
every rounding of the code happens and matters. Liquidation orders, fee transfers
and the cancelling of tied orders wait on the register stack (`stack`) between
two transactions. History variables: `flow` (deposits less withdrawals), `drift`
(what a transfer within one account keeps from the public balances), `executed`,
`last` and `granted`.

| variable | code |
|---|---|
| `acct` | account leaves with assets, positions, strategies, pool, shares, unlocks |
| `market`, `asset`, `system` | `Market`/`MarketDetails`, `Asset`, `SystemConfig` |
| `stack` | the instructions of `register_stack` that move value |
| `clock`, `rounds` | block time; last funding round, premium sample and oracle update |
| `keys`, `approved` | API key tree, `approved_integrators` |

**State trees.** A hash is the tuple of what it covers and a root is a function
from indexes to leaves, so that equality of hashes is equality of contents. The
sequencer's `ledger` is the state itself, `root` and `deltaRoot` are what the
chain keeps. A transaction is reduced to what it reads and writes; each part of
its witness may come from the state before the last transaction (`Stale`). The
openings happen in the code's order, each against the root the one before left.
That a change of a public balance is suppressed when sender and receiver are one
account (`tx_constraints.rs`, line 1475) is left to `Balances`, where
`PublishedIsHeld` depends on it: here a public balance always moves with its asset.

**Gates.** The field has p = 2^(2W) - 2^W + 1 elements, as Goldilocks has with
W = 32; TLC uses W = 4, p = 241. What makes gates wrong is the shape of the field
(a pair of halves is not unique) and the boundary of a width, and both survive.
For each gate there is the wire layout, checked in the sizes of the code, the
constraints once per evaluator (verifier, recursive verifier, prover) and the
generator. Rows are filled by the generator, with other values that fit together
(a second representation of the same element, an output at an edge with the limbs
that go with it), or with one wire corrupted. A gadget is called with the hint of
its generator or with another.

**Blocks.** A transaction of `BlockChains` is only its index, whether it is empty,
and the roots before and after (state and account delta tree root together, as
the code treats them alike); that the roots belong to a valid transition is the
business of the transaction circuit. `jump` is `JumpState`; its two folded hashes
are the sequences of records folded into them. Indices and counts are elements of
a field whose order is a constant, so that the sentinel -1 and the range check of
a gap are what they are in the code. `log` is a history variable. In
`BlockChunks` the same actions are driven by the chunks of `chunk_txs`, with
roots numbered by position. In `BlockOperations` `segment`, `chain` and
`published` are the accumulators of the three circuits, and an operation's data is the number
of its transaction; light segments are left out because the light circuit admits
no type with operations and the block circuit asserts that there are none.

**Batches and public data.** In `Batches` a block is any transition between two
roots at any height; the hash of the on-chain operations is the sequence folded
into it, the prefix hash of the priority operations their number. A segment proof
says what it assumed of the operations before it; only the wrapper can compare.
In `DeltaStream` a hash is the pair of what it covers; the delta circuit's matrix
of hashes and its rule for the lowest common ancestor are those of the code, on a
tree of eight leaves. The evaluation of a polynomial at a point drawn from both
sides stands for its coefficients. `Styles` are the ways to write the same
numbers that the wrapper cannot tell apart; the reader is the exit tool's.

**Pipeline.** One action is one statement, or a run of statements that touches
nothing shared, of one thread.

| variable | code |
|---|---|
| `pc`, `step`, `inFlight`, `pending`, `chain`, `drains` | locals of `prove_path`: `current_step`, `in_flight`, `pending_tx`, `chain`, `exclusive_drain` |
| `tx`, `fold` | the threads a path spawns: `prove_tx_witness`, `chain_step_proof` (`previous` is the handle it joins) |
| `activePaths`, `exclusive`, `backlog` | `active_paths`, `set_exclusive_gpu_phase`, `spine_backlog_add` |
| `readers`, `released` | guards of the circuits' `RwLock`s; emptied extensions |
| `lane`, `main`, `preExec`, `loads`, `prewarm`, `exit` | block-circuit-build lane, main thread, the two startup threads, the detached pre-warm, the end of the process |

Both circuits of a path are locked and released together, so that `readers` is
per path. The load of `active_paths` may return an older value, as the comment at
its definition allows. Left out: the recorded seed layouts (how a witness is
written, not which), thread priorities, profiling, and the fallback that builds
the circuits when the embedded ones cannot be loaded. A panic ends the process
(`panic = "abort"` in `Cargo.toml`).

## 3. Runs

| run | instance | what it asks |
|---|---|---|
| `register_stack` | two instructions, all 3^8 fillings of the slots | is the shifting and compacting a bounded LIFO? |
| `orders` | four setups: *matching* (limit, market, post-only, reduce-only; all verdicts; 2 mark prices; open interest limits that bite), *spot* (limit, market, TWAP), *margin* (isolated default, liquidations, L1 orders, margin mode changes; all self-trade modes, integrators' fees), *timed* (clock, expiring and TWAP orders, dead man's switch) | counters, trees, crossing, open interest, slippage, cancel-all, locked balances, reduce-only, stale makers |
| `grouped` | 2 accounts, 6 nonces, one OCO, OTO and OTOCO group each, under `FairSpec` | children, partners, tied orders, depth of the stack; does the stack drain? |
| `exchange` | eleven setups: *transfers*, *pools*, *staking*, *cross*, *isolated*, *terms*, *funds*, *spot*, *assets*, *rounds*, *keys*; 4 to 7 transactions in any order | is value conserved, are totals sums and public balances true, do healthy accounts stay healthy, do shares keep their value, can a pending fee be paid, does a signed message run once, are fees as granted? |
| `gates` | every custom gate and gadget over p = 241, values at the edges | is what is accepted right, what is honest accepted, and do all evaluators agree? |
| `public_data` | three views: *trees* (3 accounts in 3 slots, 2 transactions, any stale part), *batch* (3 blocks in up to 3 segments, any assumption), *stream* (up to four of five changed accounts, two delta proofs, tree of 8 leaves, every style of blob) | is what was read current and what was written committed to; does a batch say what its blocks did; does the exit tool read what changed? |
| `blocks` | three views: *any* (field of 11, gaps below 3, 2 roots, up to 3 transactions per chain, every index, root and padding), *own* (every mix of up to 6 light and heavy transactions, chunks of 3 and 2), *operations* (2 accounts, 2 segments of 2 transactions, 2 on-chain slots, every type) | does the block circuit accept exactly the sequential executions; does every block get its proof; is everything published and nothing that fits refused? |
| `pipeline` | 5 light and 2 heavy chunks, window 2 then 3, under `FairSpec` | exclusive GPU phase, release of circuits, counters, order of folding; does every join return? |
| `resting_stop`, `sliced_twap`, `updated_asset`, `signed_limbs` | one or two requests, one asset, one gadget | something the repository says of itself that the code does not keep |

The properties, with what they mean for the code, are stated above their
definitions in the module of the component. Each is known to be falsifiable: for
every property `PROJECT.json` names a plausible mistake (an operator with a
suffix such as `LcaHeight_AllLevels`, next to the one it replaces) that breaks it
under the run's own configuration.

**Setups and views.** A run with several setups or views chooses one in its
initial state and never leaves it; each has the inputs, the constants and the
number of steps that its questions need. Within a setup everything is in any
order.

**Bounds.** `MaxNonce` stands for 2^48 - 1. Asks take nonces from below and bids
from above, so five or six nonces allow that many orders in a behaviour and also
reach the full market, where creation and triggering are refused. Two accounts
are enough for taker and maker, for self-trades, and (as master and sub-account)
for the master rule. Sizes up to 3 allow partial fills, a maker that outlives its
taker and the reverse, and a position that is closed or turned. Prices 1 to 3
allow better, equal and worse. The clock stops at `MaxTime`.

In `exchange` a behaviour has `maxSteps` transactions. What these properties need
is at most: open, change the terms or the price, act on what is left, and one
step of somebody else; *staking*, *keys*, *assets* and *rounds* have
more. Amounts are a few units around one USDC of eight, so that exact, rounded
and insufficient amounts occur; lists (shares, unlocks, margined assets,
integrators) have two or three places, so that they fill up. MAX_ORDER_PRICE and
the other limits of width are beyond what a setup reaches, except where a setup is
about them.

Three transactions per chain give every pattern of runs of up to three in both
chains (a run that is opened, closed and opened again, on either side), and the
field and gap bounds leave room for a gap that is too large and for an index
behind the last one. `ConstantsAssumption` says what the real numbers satisfy by
far: a chain is too short for its gaps to go around the field. The *own* view has
full, partly filled and missing groups of either type. In *operations* two
segments of two transactions put two operations of a kind into one segment, into
two, and against the limit.

In *trees* two transactions are the least after which a witness can be stale, and
three slots over three accounts coincide in every way. Three blocks make segments
of one, two and three, and a segment whose assumption is wrong at either end. In
*stream* a fifth leaf would only repeat a step of the matrix; blobs have numbers
written wider than needed, zero to six left-over half-bytes, and a last number
that the blob's end cuts off.

Five light chunks go through the ramp, the full window and the drain; two heavy
ones make both paths end first in some behaviour.

What three properties leave open: `HealthyStaysHealthy` says nothing of the account
that changes its leverage, which the code judges by the one position
(`l2_update_leverage.rs`, line 256); `StackDrains` says nothing of a market whose
2^48 nonces are used up, where a child order really blocks the stack; `TypeOK`
bounds the premiums of an hour from above only.

Runs with `CHECK_DEADLOCK FALSE` model something that really stops: a row of a
gate that has been judged, a block, batch or stream that has been proved, a
witness for which there is no proof, or an exchange at its last step.

**Fairness.** `grouped`: while the stack is not empty a block
cannot contain a transaction other than the one its top asks for; a sequencer
that goes on producing blocks therefore executes the top if the circuit accepts
it. That is weak fairness of `RegisterNext`, written out with `TopExecutable` as
its enabling condition. Nothing is assumed of users. `pipeline`: weak
fairness for each thread, which is what the operating system gives a thread that
can run; a guard that nobody holds is granted, since nobody else asks for it any
more. Panics are possible and not fair. The other runs check safety only.

**Violations found.** The findings in `PROJECT.json` quote the lines.

* `resting_stop`: the rules for the orders of a group bind only orders of size
  zero, so a stop loss *market* order with time in force GTT is accepted and can
  neither rest nor be cancelled after it was triggered.
* `sliced_twap`: modifying a spot TWAP order below its filled size unlocks a
  balance it never locked.
* `updated_asset`: an update of an asset resets its total supply, although
  accounts have lent it; what they lent cannot be taken back.
* `signed_limbs`: a limb that is a negative multiple of 2^16 is left at 2^16. The
  number is preserved, and the second loop carries a full limb into the next one;
  but if the final carry is -1 it complements first. In TLC's trace, with the limbs
  (0, -4, 1) in base 4, all limbs become zero and the sign -1: a negative zero.
  Otherwise the complement may leave -1 in a limb, which puts the 32-bit limb out
  of range, as for (-8, -1, -8). With the final carry 0 a limb is out of range only
  where the carry of one full limb meets a second, as for (-8, -1, 5); a single one
  is put right. `GateSound` says that the result is exact in all other cases
  (`SpoiltByFullLimbs` names these), and right in the field in all.

The passing runs use requests and operands without these.

More were met while reading and have no run of their own.

* "Both orders should be reduce only" (`l2_create_grouped_orders.rs:172`) is
  asserted as equality of the two flags.
* A TWAP order of size zero yields a slice of one
  (`internal_create_order.rs:424`), after which its remaining size does not fit
  48 bits.
* The comment before the fast exit (`bin/prove.rs:247`) knows one detached
  thread; the block store pre-warm (`prover.rs:891`) is another, but nothing
  reads what it does.
* The new market details of a batch are not connected when two batches are
  (`recursion/batch.rs:486-523`), although the wrapper says that it verifies that
  the blob has the correct market details.
* The native `aggregate_on_chain_operations_pub_data` tests `i > count`
  (`recursion/batch.rs:245`) where the circuit tests `i < count`.
* The exit tool's `getUsdcBalanceForWitness` scales by the operator's shares only
  for public pools; the circuit does so for insurance funds too.
* A blob whose last number is cut off by its end is accepted by the wrapper. The
  exit tool stops reading there, after all the changes.
* A cancel-all of position tied orders does not follow the children of what it
  cancels (`internal_cancel_order.rs:397`).

## 4. Proofs

`RegisterStackProofs` holds for every set of instructions (only
`EmptyIsNoInstruction`: an empty register is no instruction):

* `StackInvariant`: the inductive invariant `IInv`. The occupied registers are
  exactly the first `count` and there are at most eight. It is needed because
  neither part is inductive alone: without the bound a push may run into the
  register that is never shifted, and without the shape the bound says nothing
  about where instructions are.
* `TypeCorrect`, `StackHasNoHoles`, `StackNeverFull`: what follows from it.
* `StackRefinesLIFO`: every step of `RegisterStack` is a step of `InstructionStack`.

The argument: `PlacedStep`, `PlaceIsTaken` and `NewStackCompact` say that the
compaction loop hands out the places 0, 1, 2, ... in slot order; `PushShifts`
that the shift by `count`, less one on an empty stack, moves every old
instruction by exactly the number of new ones, provided the loop knows that
shift; `NewCountBound` and `StayCountBound` that it does. The one thing taken
from the users of the stack is that matching pushes onto at most one pending
instruction and leaves the taker's children alone while the taker stays; the
first half is `MatchesAlone`, proved of the real handlers in `OrderFlowProofs`.

`ProvingPipelineProofs` holds for any number of chunks of either path, any window
and any length of the ramp (`PipelineAssumption`: all but the last are positive):

* `PipelineIInv`: the inductive invariant `IInv`, in three parts. *Types*.
  *LocalInv*, for each path on its own: the queue of proofs in flight is the
  interval of steps between the one that was joined last and the current one
  (`QueueInv`), so that the path can tell from its queue which steps are joined
  and which are folded (`PathInv`, `TxInv`); and a chain step's predecessor is
  the step before it, a step that is being proved has all earlier steps proved,
  and its proof consists of the steps up to it (`FoldInv`). *SyncInv*, between
  threads: how `activePaths` follows from where the paths are, who holds which
  guards, and what the positions of lane and main thread say about the paths.
  Without the queue's shape the drain could fold a step twice; without `SyncInv`
  a stale count could let both paths claim the GPU.
* `PipelineTypeOK`, `PipelineExclusive`, `PipelineRelease`: what follows from it.
  For the exclusive phase the count may be read late: it only decreases, so a
  path that reads one knows that the other one has joined all its threads.
* `PipelineRefines`: every step folds the next chunk into a chain, proves the
  block, or is invisible in `BlockProof`. The latest proof of a path is that of
  the last proved step; `PrefixInv` says that the proved steps of a path are a
  prefix of its steps, so that the end of a chain step extends the abstract chain
  by exactly one, at its end.

* `PipelineCounters`: `CountersExact`. The number of unproved chain steps changes
  by one exactly when a step is spawned or proved (`UnprovedNext`), which is when
  the counter does; the queue is an interval (`QueueInv`), so that its length
  bounds the transaction proofs in flight.

`BlockProofs` holds, of the chains, for every set of roots, every length of a proof and every
field, gap range and length of chains that satisfy `ConstantsAssumption`:

* `JumpStatesExact`: the inductive invariant. For each chain (`ChainInv`): its end
  is behind all its transactions (`EndInv`), neighbours fit together (`RunInv`),
  its coverage and its open run are exactly its own indices (`CoverageInv`) and its
  claims exactly the gaps between them (`ClaimsInv`). The bound on
  the gaps (`CountInv`) is part of it: without it an index could go around the field
  and come out behind the end.
* `BlocksAreSequential`: `BlockIsSequential`. If the claims of each chain are the
  coverage of the other (`DefineBlock`), the two sets of indices divide the indices
  below the total between them, and at each index the root that the transaction
  before it left is the one it starts from: within a run by `RunInv`, at the border of
  two runs because claim and coverage name the same roots.

`BlockProofs` holds, of their operations, for every set of accounts, every length of a segment
and every limit of on-chain operations (`OperationsAssumption`: a natural number):

* `NothingIsLost`: the inductive invariant. A segment keeps only its last operation
  of a kind and counts them; what it keeps is all there was as long as the count is
  at most one, which the chain step asserts before it takes it over; the chain's
  operations are those of the closed segments in order.
* `BlocksPublishExactly`: `PublishesExactly`, which the last step adds.

`BatchesProofs` holds for any roots, block numbers, number of blocks and of segments
(`BatchAssumption`: numbers are natural, and a pair of root and delta root is
determined by its parts):

* `SegmentsAreTold`: the inductive invariant. A segment describes its blocks, and
  its hash of operations is the assumed one followed by theirs (`Told`). Folding one
  more block is merging with the segment that has this block alone, so that one
  lemma (`MergeTold`) serves both circuits.
* `BatchesAreTheirBlocks`: `BatchIsItsBlocks`. The first segment of a batch must have
  assumed nothing and each other one what the segments before it published.

`ExchangeProofs` holds for every set of setups, accounts, keys and messages
(`AuthAssumption`: a key starts with a nonce that is not beyond the cap of skipping,
and messages name a key and a natural nonce):

* `NoncesOnlyGrow`: the inductive invariant. What a key index has used ascends and is
  below the nonce it expects; and since a skip is at most to the cap, nothing it used
  is beyond the cap plus the number of its uses.
* `SignedMessagesRunOnce`: `SignedRunsOnce`. It needs the whole of `Exchange`, since
  every transaction of every module is a step: one lemma per group of transactions
  shows that it leaves keys alone (`TransfersKeep` to `BlocksKeep`).

`OrderFlowProofs` holds for any number of accounts and of order nonces, any requests and
verdicts of the risk engine, any mark prices and any clock. It assumes of the constants
`OrderFlowAssumption` (mark prices are positive), `RequestsAssumption` (the fields of a
request have the types and signs their range checks leave them; which requests there
are is open) and `EmptyAssumption` (an empty leaf is no order, an empty register no
instruction). The inductive invariant `IInv` has these parts, for the state of the
exchange and for every intermediate state `s` of a transaction alike (`StateInv`):

* `TreeInv`: each account order is at an index that the market has already handed out,
  and active orders have nonces of their own;
* `BookInv`: the order book is exactly the leaves of the active orders with something
  left, and every ask is above every bid;
* `StackInv`: the first `count` registers hold instructions. A pending order's index is
  free in the account orders, its nonce is no active order's, no two pending orders share
  an index, its slippage accumulator is natural, and if it can trade then it is the lowest
  instruction of the stack, so that it is on top only when it is alone;
* `NewInv`: the same of the instructions that a transaction has put aside and not yet
  pushed;
* the open interest fits its field.

The parts about instructions carry the proof. An order reaches the book from its
instruction, perhaps several transactions after its nonce and index were taken; without
`Fresh` the leaf it adds could replace another order's, and without the order of the stack
a second pending order could find a book that the first one has not yet traded with. The
argument goes bottom up: the compaction and the shift keep the stack sound
(`PushIsStack`, `PopIsStack`); the trees stay sound when an order goes, is filled in part
or is inserted where it meets nothing (`OrderGone`, `OrderFilled`, `OrderInserted`);
a best maker exists, by two least elements, and is the order its leaf says
(`BestExists`, `MakerIsFound`); the amount the engine decides on is within both orders,
the reduce-only caps and the slippage (`AmountBounds`, `DecisionIsGood`); one call of
`execute_matching` then leaves a sound state with room on the stack (`MatchingIsGood`).
On top of that is one lemma per action (`L2CreateOrderStep` to `L2UpdateLeverageStep`),
and `NextInv` puts them together. `GoodStep` says along the way what a step does
to positions: nothing, or one trade with one maker that is not stale, in which reduce-only
orders reduce. What follows:

* `BookIsSound`: `BookMatchesOrders` and `BookNotCrossed`;
* `MarketOrdersKeepTheirPrice`: `SlippageCovered`;
* `MatchingIsAlone`: `MatchesAlone`, which `RegisterStackProofs` builds on;
* `OpenInterestAlwaysFits`: `OpenInterestFits`;
* `ReduceOnlyOrdersReduce` and `StaleOrdersNeverTrade`: the action properties
  `ReduceOnlyReduces` and `StaleMakersNeverTrade`.

The third part of `BookSound`, `NoUsedUpOrder`, is *not* a consequence of the code for all
requests. `l2_create_order.rs` lets a conditional order of a perps market have base amount
zero also if it is not reduce-only (lines 505-534), and `internal_create_order.rs` then
takes the position tied amount for it when it triggers (lines 140-152), which may be zero
too: with such a request among those of a setup TLC finds an order of size zero that rests
without a leaf until it is cancelled. Nothing in the repository says otherwise; the
property holds for the requests of the runs, and TLC checks it there.

`OrderCountsProofs` holds under the same assumptions:

* `CountersAreExact`: `CountsMatchOrders`. Its invariant `CountsInv` says of the fields of
  a transaction's state what types they have, and of each of the five counters (of the
  market, of an account, of its orders that are not cross, of a position, of the orders
  tied to it) that it is the number of orders it stands for (`Counted`); besides, that a
  spot market has no isolated position. Next to it the proof needs `IInv`, which says that
  the place an order is put in is free and that the order found in the book is there.
* `CancelAllsAreExact`: `CancelAllExact`. Its invariant `CutsInv` says of the whole stack
  what the property says of each instruction, that a cancel-all has for its size the number
  of orders it may take (`CutBy`), and besides what may lie on top of a cancel-all: the
  integrators' fees, and cancel-alls of other accounts (`MayLieOn`). Without the second
  half an instruction above could take or add one of the orders counted. It rests on `IInv`
  and `CountsInv`.

The argument for the counters: an order that comes, goes or is rewritten changes the number of orders by
one, or not at all, and so those of its account and its position (`OrderPlaced`,
`OrderCleared`, `OrderRewritten`, from the cardinality theorems of the library);
`IncrementOrderCount` and its like change the counters by as much (`CountsAreAdded`,
`CountsFollow`). What a handler does besides, to instructions, locked funds, nonces and
the book, is `Beside` them (`SmallSteps`). `MatchingCounts` goes through one call of
`execute_matching`: one order filled, the used up orders dropped with their counters, the
pending order inserted with its own. Then follows one lemma per handler; the margin mode of
a position changes only when it has no order (`RemodedCounts`), and a child order that
is activated may become tied to its position, counter included (`ChildCounts`).

The argument for the cancel-alls: a stack whose top is not itself a cancel-all or a fee
holds none (`CutsExact` with `MayLieOn`), so that every handler that places, changes or
takes a single order starts from a stack without cancel-alls (`Calm`) and none of them has
a size to keep. A handler that pushes one reads its size from a counter that is exact
(`CountedCuts`, one lemma per handler). `NoticedCuts` covers what the matching engine pushes
after a trade: the orders tied to the position of the taker, and to that of the maker, if
the trade closes or turns it. The two are different accounts, since a trade with oneself
leaves the position as it is. A cancel-all in progress takes one order, which is counted by
the instruction on top and by no other (`CutOneLess`, `CancelOneOfAllCuts`).

`StateTreesProofs` holds for any accounts and treasury (`AccountsAreIndexes`: indexes
are natural), any number of transactions of the kinds in `Txs`, any arrangement of the
accounts in the slots, and any choice of the parts of a witness that are out of date;
`MaxTx` plays no part. The sizes inside `StateHashes` (three markets with positions in
two buckets, three assets, five order indexes, two prices) are definitions and stay as
they are; a hash is the tuple of what it covers. The inductive invariant `IInv`:

* the roots the chain holds are those of the sequencer's state, nothing was misread and
  nothing current was refused: the three properties;
* `StateInv`, of the state and of the one before it, since a witness may be read from
  either. *Types*. `BlankInv`: an account without an owner is blank in all its parts.
  Its leaf is empty in both trees and so says nothing of its public sums, which the
  circuit nevertheless writes; without this part a witness could bring sums of its own
  for an account that is opened for the first time. `NilInv`: the order and the
  position change at the indexes that stand for "none" are empty, so that opening them
  proves nothing and rewriting them changes nothing. `OrderInv`: an order with a client
  index has its second leaf, which is opened with the value of the first.

The argument, for a witness with leaves of any origin (`Brings`):

* *Taking hashes apart.* Equal leaves are leaves of equal contents (`AccountLeafTells`,
  `PublicLeafTells`, `DeltaLeafTells`, `RiskTells`), so that the old root fixes every
  tree, list and counter (`RootTells`) and each opened leaf one part of the witness
  (`KeyOpened`, `OrderOpened`, `AssetsOpened`, `SizesOpened`, `MarketOpened`).
  Slots are opened one after the other, each in the tree that the last one left;
  `AllSlots` reduces this to the old roots: because slots with the same account bring
  the same leaves (`SameAccountSameLeaf`), the last of them writes what all of them do.
* *Writing.* `KeyWritten`, `OrderWritten`, `AssetsWritten`, `SumsWritten`,
  `SizesWritten` and `PositionsWritten` show that each part rewritten is that of the next state;
  `LeafWritten` and `HeavyTrees` or `LightTrees` put them together for the accounts a
  transaction names, `Untouched` says that the others stay as they are, and
  `RootWritten` adds markets, lists and the root. The light circuit passes the public
  trees on as they are; `LightKeepsPublic` says why it may.
* *Both directions.* `HeavySound` and `LightSound`: what is accepted was legal in the
  state (`Legal`), read from the state, and left the state's new roots. `HeavyComplete`
  and `LightComplete`: what is legal and brings the state's leaves is accepted, so that
  no two checks of a circuit contradict each other.

What follows:

* `RootsAlwaysCommit`, `NoStaleLeaf` and `CurrentWitnessSuffices`: `RootsCommitToLedger`,
  `NothingStaleIsRead` and `CurrentWitnessIsProved`;
* `PublicDataExplained`: `ChangesExplainPublicData`, the first of the two views of
  `PublicDataIsExplained`. It needs `ChangesInv` besides, that balances and sizes move
  together with the changes kept of them, and what a missing leaf or a missing half of
  one says (`PublicLeaf`, `ChangeLeaf`).

Only model-checked, and why:

* what is a sum over a set (`ValueConserved`, `TotalsAddUp`, `PublishedIsHeld`,
  `LockedIsNeeded`, `OpenInterestIsSum`): that a sum follows a change of one term is an
  induction over the set, which the provers at hand cannot do for an operator such as
  `MapThenSumSet`; for a count the library has the theorems;
* `NoUsedUpOrder`, which depends on the requests (above);
* `TiedOrdersReduce`, `ChildrenHaveParent` and `OneCancelsTheOther`: they need an
  invariant about who still has to follow whose children;
* the gates and gadgets: remainders and products of bounded numbers, where a proof
  would be about the arithmetic of the field rather than about the code;
* the delta stream, whose reader and writer are recursive functions over half-bytes;
* liveness (`StackDrains`, `ProofIsWritten`): there are no rules for fairness and
  ENABLED;
* of `Exchange`, `TypeOK` and `PendingFeeCanBePaid`, which are next.

## 5. Not modelled, and the plan

Next, in this order:

1. Proofs: `OneCancelsTheOther` and `ChildrenHaveParent` on top of the invariant of
   `OrderFlowProofs`; `TypeOK` and `PendingFeeCanBePaid` of the exchange.
2. `execute_matching_light` shown to agree with `ExecuteMatching` on the
   transactions that may take it, impact prices, and the books of an expired
   market.
3. The recorded seed layouts that the chain steps of the pipeline share.

Left out, and why:

* hashes (Poseidon, Keccak, SHA), the curves of EdDSA and ECDSA, their tables and
  constants: pure computation on 64 to 256 bits with no small instance that has
  the same properties. Signatures are modelled by key and message, hashes by what
  they cover;
* the hashing of a transaction's attributes, layouts of public inputs and
  witnesses, parsing of the JSON witness: encodings without state;
* KZG opening and the market part of the blob, the batch commitment as bytes and
  the outer wrapper: encodings of what `Batches` and `DeltaStream` describe;
* the exit circuit and the witness of one account's exit: one computation over a
  state that no longer changes;
* the circuit cache and the embedding of circuits: serialisation;
* thread priorities, profiling, benchmark harness;
* the vendored proof system.
