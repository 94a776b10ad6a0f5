----------------------------- MODULE StateTrees -----------------------------
(***************************************************************************)
(* How one transaction circuit takes the chain from one state root to the  *)
(* next (tx_constraints.rs, light_tx_constraints.rs).  Two parties act:    *)
(* the sequencer keeps the state itself (ledger) and hands the circuit the *)
(* leaves a transaction reads; the chain only keeps roots.  A witness may  *)
(* have been built from the state before the last transaction, in part or  *)
(* as a whole.  The circuit loads three accounts, which may coincide, and  *)
(* opens and rewrites about twenty leaves of nested trees one after the    *)
(* other, each against the root the one before it left.                    *)
(***************************************************************************)
EXTENDS StateHashes, FiniteSetsExt

CONSTANTS MaxTx          \* bound: transactions accepted

VARIABLES ledger,        \* the state, as the sequencer keeps it
          before,        \* the state before the last accepted transaction
          root,          \* the state root the chain holds
          deltaRoot,     \* root of the tree of the block's public changes
          outcome,       \* what became of the last transaction
          misread,       \* parts of its witness that were used but not true
          proved         \* transactions accepted
vars == <<ledger, before, root, deltaRoot, outcome, misread, proved>>

-----------------------------------------------------------------------------
(* What the sequencer reads out of a state.                                *)

KeyRoot(a)   == [k \in Keys |-> LeafHash(a.keys[k], 0)]
OrderRoot(a) == [o \in OrderIndexes |-> LeafHash(a.orders[o], 0)]
AssetRoot(a) == [k \in AssetIndexes |-> LeafHash(a.assets[k], NoAsset)]
SumRoot(a)   == [k \in AssetIndexes |-> LeafHash(a.aggregated[k], 0)]
DeltaPositionRoot(d) == [p \in DOMAIN d.positions |-> LeafHash(d.positions[p], 0)]
BookRoot(m)  == [p \in Prices |-> LeafHash(m.book[p], 0)]

LoadedAccount(a) == [a EXCEPT !.keys = KeyRoot(a), !.orders = OrderRoot(a),
                              !.assets = AssetRoot(a), !.aggregated = SumRoot(a)]
LoadedDelta(d) == [d EXCEPT !.positions = DeltaPositionRoot(d),
                            !.assets = [k \in AssetIndexes |-> LeafHash(d.assets[k], 0)]]
LoadedMarket(m) == [m EXCEPT !.book = BookRoot(m)]

Leaf(L, i) == AccountHash(LoadedAccount(L.accounts[i]), i,
                          PositionBuckets(L.accounts[i].positions))
Trees(L) ==
    [account |-> [i \in Accounts |-> Leaf(L, i).account],
     pub     |-> [i \in Accounts |-> Leaf(L, i).pub],
     market  |-> [m \in DOMAIN L.markets |-> MarketHash(LoadedMarket(L.markets[m]))],
     details |-> [p \in DOMAIN L.details |-> LeafHash(L.details[p], 0)]]
DeltaTree(L) == [i \in Accounts |-> DeltaHash(LoadedDelta(L.deltas[i]))]
Commitment(L) ==
    compute_validium_and_state_root(L.lists, RiskHashes(RiskBuckets(L.lists.risk)),
                                    L.stack, Trees(L))

-----------------------------------------------------------------------------
(* Transactions, reduced to what they read and write.  Amounts move        *)
(* between slots; slots that hold the same account share one amount.       *)

Kinds == {"order", "fill", "move", "open", "burn", "terms"}

Moved(kind, s) ==
    CASE kind = "move" -> <<<<-1, -1>>, <<1, 0>>, <<0, 1>>>>[s + 1]
      [] kind = "fill" -> <<<<0, -1>>, <<0, 0>>, <<0, 1>>>>[s + 1]
      [] OTHER -> <<0, 0>>
MovedFor(tx, i, j) ==
    LET of(t) == IF tx.index[t] = i THEN Moved(tx.kind, t)[j + 1] ELSE 0
    IN  of(TAKER) + of(MAKER) + of(FEE)
MovedBy(tx, s, j) == MovedFor(tx, tx.index[s], j)
SizeBy(tx, s) == IF tx.kind = "fill" /\ s # FEE THEN <<1, -1>>[s + 1] ELSE 0

RestingBy(tx) == CASE tx.kind = "order" -> 1 [] tx.kind = "fill" -> -1 [] OTHER -> 0

KeySlot(tx)   == IF tx.kind = "burn" THEN MAKER ELSE TAKER
OrderSlot(tx) == IF tx.kind = "fill" THEN MAKER ELSE TAKER
UsesOrder(tx) == tx.kind \in {"order", "fill"}
Signed(tx)    == tx.kind \in {"order", "move", "open", "burn"}

Txs == { tx \in [kind : Kinds, light : BOOLEAN, index : [Slots -> Accounts],
                 assets : {<<1, 2>>, <<2, 1>>, <<NIL_ASSET, NIL_ASSET>>},
                 market : {0, 2, 7}, client : {NIL_ORDER, 3}] :
           /\ tx.light => /\ tx.kind \in {"order", "terms"}
                          /\ \A s \in Slots : tx.index[s] = tx.index[TAKER]
           /\ tx.kind \notin {"move", "fill"} /\ ~tx.light => tx.index[FEE] = 1
           /\ tx.kind # "order" => tx.client = IF tx.kind = "fill" THEN 3 ELSE NIL_ORDER
           /\ tx.market \in (CASE tx.kind = "order" -> {0, 7} [] tx.kind = "fill" -> {0}
                                [] OTHER -> {2})
           /\ tx.assets \in (CASE tx.kind = "move" -> {<<1, 2>>, <<2, 1>>}
                                [] tx.kind \in {"open", "burn"} -> {<<NIL_ASSET, NIL_ASSET>>}
                                [] OTHER -> {<<1, 2>>}) }

(* The leaves a transaction needs, each from the current state or, if its  *)
(* part of the witness is stale, from the one before.                      *)
Parts == ({"account", "delta", "assets", "position"} \X Slots)
             \cup ({"lists", "trees", "key", "order", "market", "details",
                    "impact"} \X {TAKER})
Stale == { {} } \cup { {p} : p \in Parts } \cup { Parts }

OrderOf(L, tx) ==
    IF UsesOrder(tx)
    THEN [index_0 |-> IF tx.kind = "fill" THEN 8 ELSE 9, index_1 |-> tx.client,
          owner |-> tx.index[OrderSlot(tx)],
          live |-> L.accounts[tx.index[OrderSlot(tx)]].orders[IF tx.kind = "fill" THEN 8 ELSE 9]]
    ELSE [index_0 |-> NIL_ORDER, index_1 |-> NIL_ORDER, owner |-> tx.index[TAKER], live |-> 0]

(* Everything a witness brings, each part read from the state `L` names.   *)
WitnessFrom(tx, stale) ==
    LET L(part) == IF part \in stale THEN before ELSE ledger IN
    [accounts |-> [s \in Slots |-> LoadedAccount(L(<<"account", s>>).accounts[tx.index[s]])],
     deltas   |-> [s \in Slots |-> LoadedDelta(L(<<"delta", s>>).deltas[tx.index[s]])],
     assets   |-> [s \in Slots |-> [j \in 0..1 |->
                     L(<<"assets", s>>).accounts[tx.index[s]].assets[tx.assets[j + 1]]]],
     sums     |-> [s \in Slots |-> [j \in 0..1 |->
                     L(<<"assets", s>>).accounts[tx.index[s]].aggregated[tx.assets[j + 1]]]],
     assetDeltas |-> [s \in Slots |-> [j \in 0..1 |->
                     L(<<"assets", s>>).deltas[tx.index[s]].assets[tx.assets[j + 1]]]],
     positionDeltas |-> [s \in {TAKER, MAKER} |->
                     L(<<"position", s>>).deltas[tx.index[s]].positions[perps_market_index(tx.market)]],
     key      |-> L(<<"key", TAKER>>).accounts[tx.index[KeySlot(tx)]].keys[0],
     order    |-> OrderOf(L(<<"order", TAKER>>), tx),
     market   |-> LoadedMarket(L(<<"market", TAKER>>).markets[tx.market]),
     resting  |-> L(<<"market", TAKER>>).markets[tx.market].book[0],
     impact   |-> IF tx.market \in Perps
                  THEN L(<<"impact", TAKER>>).markets[tx.market].book[0]
                         + (IF L(<<"impact", TAKER>>) = ledger THEN RestingBy(tx) ELSE 0)
                  ELSE 0,
     details  |-> L(<<"details", TAKER>>).details[perps_market_index(tx.market)],
     lists    |-> L(<<"lists", TAKER>>).lists,
     stack    |-> L(<<"lists", TAKER>>).stack,
     trees    |-> Trees(L(<<"trees", TAKER>>)),
     deltaTree |-> DeltaTree(L(<<"trees", TAKER>>))]

-----------------------------------------------------------------------------
(* The circuit.  `w` is the witness, `x` the transaction's own copy of the *)
(* loaded state as it goes through the steps below; x.ok says that every   *)
(* assertion so far holds.                                                 *)

is_sender_receiver_different(tx) == tx.index[TAKER] # tx.index[MAKER]
fee_account_is(tx, s) == tx.index[FEE] = tx.index[s]
is_fee_account_different(tx) == ~fee_account_is(tx, TAKER) /\ ~fee_account_is(tx, MAKER)

(* The slots that are opened and written back: the others hold an account  *)
(* a slot before them holds already.                                       *)
Loaded(tx, s) ==
    CASE s = TAKER -> TRUE
      [] s = MAKER -> is_sender_receiver_different(tx)
      [] s = FEE   -> is_fee_account_different(tx)

(* Slots that hold one account were given the same leaves.                 *)
SameAccountSameLeaf_NotFee(tx, leaf) ==
    ~is_sender_receiver_different(tx) => leaf[TAKER] = leaf[MAKER]
SameAccountSameLeaf(tx, leaf) ==
    /\ ~is_sender_receiver_different(tx) => leaf[TAKER] = leaf[MAKER]
    /\ fee_account_is(tx, TAKER) => leaf[TAKER] = leaf[FEE]
    /\ fee_account_is(tx, MAKER) => leaf[MAKER] = leaf[FEE]

PartialOf(a) == AccountPartial(a, PositionBuckets(a.positions))
OldHash(tx, w, s) == HashFromPartial(w.accounts[s], tx.index[s], PartialOf(w.accounts[s]))
is_new_account(tx, w, s) == OldHash(tx, w, s).empty

(* try_verify_merkle_proof only says yes to a leaf that is there.          *)
is_cloid_unique(tx, w) ==
    verify_merkle_proof(w.accounts[TAKER].orders, <<>>, tx.client)

validate_asset_indices(tx) == tx.assets[1] = NIL_ASSET \/ tx.assets[1] # tx.assets[2]

(* What the transaction's own checks demand of the leaves it reads.        *)
verify_transactions(tx, w) ==
    CASE tx.kind = "order" -> /\ ~is_new_account(tx, w, TAKER) /\ w.order.live = 0
                              /\ is_cloid_unique(tx, w) \/ tx.client = NIL_ORDER
      [] tx.kind = "fill"  -> /\ w.order.live = tx.client + 1 /\ is_sender_receiver_different(tx)
                              /\ \A s \in Slots : ~is_new_account(tx, w, s)
                              /\ w.assets[TAKER][1].balance > 0
      [] tx.kind = "move"  -> /\ \A s \in Slots : ~is_new_account(tx, w, s)
                              /\ \A j \in 0..1 : w.assets[TAKER][j].balance > 0
      [] tx.kind = "open"  -> ~is_new_account(tx, w, TAKER) /\ is_new_account(tx, w, MAKER)
      [] tx.kind = "burn"  -> /\ is_sender_receiver_different(tx)
                              /\ ~is_new_account(tx, w, TAKER) /\ ~is_new_account(tx, w, MAKER)
      [] tx.kind = "terms" -> TRUE

(* The first place of the list of margined assets that is free.            *)
get_next_margin_asset_index(margined) ==
    IF \E i \in MarginIndexes : margined[i] = 0
    THEN CHOOSE i \in MarginIndexes : margined[i] = 0 /\ \A k \in MarginIndexes :
             margined[k] = 0 => i <= k
    ELSE Max(MarginIndexes) + 1

NewAccount(tx, a, s) ==
    [a EXCEPT !.l1     = IF tx.kind = "open" /\ s = MAKER THEN 1 ELSE @,
              !.shares = IF tx.kind = "burn" /\ s = TAKER THEN @ + 1 ELSE @,
              !.fixed  = IF tx.kind = "burn" /\ s = MAKER THEN @ + 1 ELSE @,
              !.open   = IF UsesOrder(tx) /\ s = OrderSlot(tx) THEN @ + 1 ELSE @]
NewAsset(tx, asset, s, j) ==
    [asset EXCEPT !.balance = @ + MovedBy(tx, s, j),
                  !.locked  = IF tx.kind = "order" /\ s = TAKER /\ j = 0 THEN @ + 1 ELSE @]
NewPosition(tx, position, s) ==
    [position EXCEPT !.size = @ + SizeBy(tx, s),
                     !.tied = IF UsesOrder(tx) /\ s = OrderSlot(tx) THEN @ + RestingBy(tx) ELSE @]
(* A list entry is changed by adding the difference at its index; an index *)
(* that is not in the list changes nothing.                                *)
Added(list, i, d) == [k \in DOMAIN list |-> IF k = i THEN list[k] + d ELSE list[k]]
update_assets(tx, lists) ==
    [lists EXCEPT !.assets = Added(@, tx.assets[1], 1),
                  !.margined = Added(@, get_next_margin_asset_index(lists.margined), 1)]
NewLists(tx, lists) ==
    IF tx.kind = "terms" /\ ~tx.light
    THEN [update_assets(tx, lists) EXCEPT !.config = @ + 1,
                                          !.risk[perps_market_index(tx.market)].mark = @ + 1]
    ELSE lists

(* Only the bucket of the transaction's market is hashed again.            *)
apply_position_delta(tx, w) ==
    [s \in {TAKER, MAKER} |->
        [PositionBuckets(w.accounts[s].positions) EXCEPT
           ![perps_market_index(tx.market) \div BUCKET] =
               LET changed == [p \in Perps |-> IF p = perps_market_index(tx.market)
                                  THEN NewPosition(tx, w.accounts[s].positions[p], s)
                                  ELSE w.accounts[s].positions[p]]
               IN  PositionBuckets(changed)[perps_market_index(tx.market) \div BUCKET]]]

apply_transaction(tx, w) ==
    [ok        |-> validate_asset_indices(tx) /\ verify_transactions(tx, w),
     accounts  |-> [s \in Slots |-> NewAccount(tx, w.accounts[s], s)],
     deltas    |-> [s \in Slots |->
                      [w.deltas[s] EXCEPT
                         !.l1 = IF s # FEE /\ is_new_account(tx, w, s)
                                THEN NewAccount(tx, w.accounts[s], s).l1 ELSE @,
                         !.shares = IF tx.kind = "burn" /\ s = TAKER THEN @ + 1 ELSE @]],
     assets    |-> [s \in Slots |-> [j \in 0..1 |-> NewAsset(tx, w.assets[s][j], s, j)]],
     sums      |-> [s \in Slots |-> [j \in 0..1 |-> w.sums[s][j] + MovedBy(tx, s, j)]],
     assetDeltas |-> [s \in Slots |-> [j \in 0..1 |->
                        w.assetDeltas[s][j] + MovedBy(tx, s, j)]],
     positionDeltas |-> [s \in {TAKER, MAKER} |-> w.positionDeltas[s] + SizeBy(tx, s)],
     buckets   |-> apply_position_delta(tx, w),
     key       |-> IF Signed(tx) THEN w.key + 1 ELSE w.key,
     order     |-> [w.order EXCEPT !.live = CASE tx.kind = "order" -> tx.client + 1
                                              [] tx.kind = "fill" -> 0 [] OTHER -> @],
     market    |-> [w.market EXCEPT !.nonce = IF tx.kind = "order" THEN @ + 1 ELSE @],
     resting   |-> w.resting + RestingBy(tx),
     details   |-> IF UsesOrder(tx) /\ tx.market \in Perps THEN w.impact + 1 ELSE w.details,
     lists     |-> NewLists(tx, w.lists),
     stack     |-> IF UsesOrder(tx) THEN w.stack + 1 ELSE w.stack]

-----------------------------------------------------------------------------
(* Opening the old leaves and writing the new ones.                        *)

verify_old_state_root(w, oldRoot) ==
    oldRoot = compute_validium_and_state_root(w.lists, RiskHashes(RiskBuckets(w.lists.risk)),
                                              w.stack, w.trees)

(* While no position changes or has changed the leaf of no market is used. *)
DeltaMarket_BeforeOnly(tx, w, x) ==
    IF \A s \in {TAKER, MAKER} : w.positionDeltas[s] = 0
    THEN NIL_MARKET ELSE perps_market_index(tx.market)
DeltaMarket(tx, w, x) ==
    IF \A s \in {TAKER, MAKER} : w.positionDeltas[s] = 0 /\ x.positionDeltas[s] = 0
    THEN NIL_MARKET ELSE perps_market_index(tx.market)

verify_position_delta_merkle_proofs(tx, w, x) ==
    [x EXCEPT
       !.ok = @ /\ \A s \in {TAKER, MAKER} :
                  conditional_verify_merkle_proof(Loaded(tx, s), w.deltas[s].positions,
                      LeafHash(w.positionDeltas[s], 0), DeltaMarket(tx, w, x)),
       !.deltas = [s \in Slots |->
                    IF s # FEE /\ Loaded(tx, s)
                    THEN [x.deltas[s] EXCEPT !.positions =
                            recalculate_root(w.deltas[s].positions,
                                LeafHash(x.positionDeltas[s], 0), DeltaMarket(tx, w, x))]
                    ELSE x.deltas[s]]]

(* A forced burn is signed by the pool, which is in the second slot.       *)
verify_api_key_merkle_proof(tx, w, x) ==
    [x EXCEPT
       !.ok = @ /\ verify_merkle_proof(w.accounts[KeySlot(tx)].keys, LeafHash(w.key, 0), 0),
       !.accounts[KeySlot(tx)].keys =
           recalculate_root(w.accounts[KeySlot(tx)].keys, LeafHash(x.key, 0), 0)]

(* An order has a leaf at its own index and, if it has one, the same leaf  *)
(* at its client index: the second is opened in the tree the first leaves. *)
OrdersOf(tx, w, x) ==
    IF /\ x.order.index_0 # NIL_ORDER
       /\ tx.index[MAKER] = x.order.owner /\ is_sender_receiver_different(tx)
    THEN MAKER ELSE TAKER
ClientLeaf(o) == IF o.index_1 = NIL_ORDER THEN <<>> ELSE LeafHash(o.live, 0)
AfterOrderLeaf(w, x, s) ==
    recalculate_root(w.accounts[s].orders, LeafHash(x.order.live, 0), w.order.index_0)

verify_account_orders_merkle_proof(tx, w, x) ==
    LET s == OrdersOf(tx, w, x)
    IN  [x EXCEPT
           !.ok = /\ @
                  /\ w.order.index_0 = NIL_ORDER \/ w.order.index_0 > MAX_CLIENT_ORDER
                  /\ w.order.index_1 <= MAX_CLIENT_ORDER
                  /\ verify_merkle_proof(w.accounts[s].orders, LeafHash(w.order.live, 0),
                                         w.order.index_0)
                  /\ verify_merkle_proof(AfterOrderLeaf(w, x, s), ClientLeaf(w.order),
                                         w.order.index_1),
           !.accounts[s].orders =
               recalculate_root(AfterOrderLeaf(w, x, s), ClientLeaf(x.order), w.order.index_1)]

(* Two assets of each account, in the account's own tree, in its tree of   *)
(* public sums and in its tree of changes: `hash` gives the leaf.          *)
AssetPaths(root0, tx, old, new, zero) ==
    LET mid == recalculate_root(root0, LeafHash(new[0], zero), tx.assets[1])
    IN  [ok   |-> /\ verify_merkle_proof(root0, LeafHash(old[0], zero), tx.assets[1])
                  /\ verify_merkle_proof(mid, LeafHash(old[1], zero), tx.assets[2]),
         root |-> recalculate_root(mid, LeafHash(new[1], zero), tx.assets[2])]

verify_assets_merkle_proofs(tx, w, x) ==
    LET own(s)   == AssetPaths(x.accounts[s].assets, tx, w.assets[s], x.assets[s], NoAsset)
        sums(s)  == AssetPaths(x.accounts[s].aggregated, tx, w.sums[s], x.sums[s], 0)
        delta(s) == AssetPaths(x.deltas[s].assets, tx, w.assetDeltas[s], x.assetDeltas[s], 0)
    IN  [x EXCEPT
           !.ok = /\ @
                  /\ \A s \in Slots : Loaded(tx, s) => own(s).ok /\ sums(s).ok /\ delta(s).ok
                  /\ SameAccountSameLeaf(tx, w.assets)
                  /\ SameAccountSameLeaf(tx, w.sums)
                  /\ SameAccountSameLeaf(tx, w.assetDeltas),
           !.accounts = [s \in Slots |-> IF Loaded(tx, s)
                           THEN [x.accounts[s] EXCEPT !.assets = own(s).root,
                                                      !.aggregated = sums(s).root]
                           ELSE x.accounts[s]],
           !.deltas = [s \in Slots |-> IF Loaded(tx, s)
                           THEN [x.deltas[s] EXCEPT !.assets = delta(s).root]
                           ELSE x.deltas[s]]]

(* The leaves of a slot before and after: those of the fee account are     *)
(* made with the parts the transaction cannot see left as they are.        *)
OldLeaves(tx, w, s) ==
    [account |-> OldHash(tx, w, s).account, pub |-> OldHash(tx, w, s).pub,
     delta |-> DeltaHash(w.deltas[s])]
NewLeaves(tx, w, x, s) ==
    LET h == IF s = FEE
             THEN HashFromPartial(x.accounts[s], tx.index[s], PartialOf(w.accounts[s]))
             ELSE AccountHash(x.accounts[s], tx.index[s], x.buckets[s])
    IN  [account |-> h.account, pub |-> h.pub,
         delta |-> IF s = FEE THEN DeltaFromPartial(x.deltas[s], DeltaPartial(w.deltas[s]))
                              ELSE DeltaHash(x.deltas[s])]

(* One slot after the other, each against the roots the last one left.     *)
SlotOpened_FromOldRoots(tx, w, x, t, s) ==
    IF Loaded(tx, s)
    THEN [ok |-> t.ok /\ verify_merkle_proof(w.trees.account, OldLeaves(tx, w, s).account,
                                             tx.index[s]),
          account |-> recalculate_root(w.trees.account, NewLeaves(tx, w, x, s).account, tx.index[s]),
          pub     |-> recalculate_root(w.trees.pub, NewLeaves(tx, w, x, s).pub, tx.index[s]),
          delta   |-> recalculate_root(w.deltaTree, NewLeaves(tx, w, x, s).delta, tx.index[s])]
    ELSE t
SlotOpened(tx, w, x, t, s) ==
    IF Loaded(tx, s)
    THEN [ok |-> t.ok /\ \A tree \in {"account", "pub", "delta"} :
                   verify_merkle_proof(t[tree], OldLeaves(tx, w, s)[tree], tx.index[s]),
          account |-> recalculate_root(t.account, NewLeaves(tx, w, x, s).account, tx.index[s]),
          pub     |-> recalculate_root(t.pub, NewLeaves(tx, w, x, s).pub, tx.index[s]),
          delta   |-> recalculate_root(t.delta, NewLeaves(tx, w, x, s).delta, tx.index[s])]
    ELSE t

verify_account_and_pub_data_merkle_proofs(tx, w, x) ==
    LET first  == SlotOpened(tx, w, x, [ok |-> SameAccountSameLeaf(tx,
                                                  [s \in Slots |-> OldLeaves(tx, w, s)]),
                                        account |-> w.trees.account, pub |-> w.trees.pub,
                                        delta |-> w.deltaTree], TAKER)
        second == SlotOpened(tx, w, x, first, MAKER)
    IN  SlotOpened(tx, w, x, second, FEE)

(* The resting order is opened in the old book; the order the impact price *)
(* is read from is opened in the new one, or in an empty book for spot.    *)
NewBook(w, x) == recalculate_root(w.market.book, LeafHash(x.resting, 0), 0)
verify_market_and_order_book_proofs_OldBook(tx, w, x) ==
    [ok |-> /\ verify_merkle_proof(w.market.book, LeafHash(w.resting, 0), 0)
            /\ verify_merkle_proof(w.trees.market, MarketHash(w.market), tx.market)
            /\ verify_merkle_proof(IF tx.market \in Perps THEN w.market.book
                                                         ELSE EmptyRoot(Prices),
                                   LeafHash(w.impact, 0), 0),
     root |-> recalculate_root(w.trees.market,
                  MarketHash([x.market EXCEPT !.book = NewBook(w, x)]), tx.market)]
verify_market_and_order_book_proofs(tx, w, x) ==
    [ok |-> /\ verify_merkle_proof(w.market.book, LeafHash(w.resting, 0), 0)
            /\ verify_merkle_proof(w.trees.market, MarketHash(w.market), tx.market)
            /\ verify_merkle_proof(IF tx.market \in Perps THEN NewBook(w, x)
                                                         ELSE EmptyRoot(Prices),
                                   LeafHash(w.impact, 0), 0),
     root |-> recalculate_root(w.trees.market,
                  MarketHash([x.market EXCEPT !.book = NewBook(w, x)]), tx.market)]

verify_market_details_merkle_proof(tx, w, x) ==
    [ok |-> verify_merkle_proof(w.trees.details, LeafHash(w.details, 0),
                                perps_market_index(tx.market)),
     root |-> recalculate_root(w.trees.details, LeafHash(x.details, 0),
                               perps_market_index(tx.market))]

(* The bucket of the market is hashed again from the list and the change.  *)
update_market_details_hashes(tx, w, x) ==
    LET b == perps_market_index(tx.market) \div BUCKET
    IN  RiskHashes([RiskBuckets(w.lists.risk) EXCEPT ![b] = RiskBuckets(x.lists.risk)[b]])

(* The result of a circuit: whether the proof exists, and the new roots.   *)
Result(tx, w, x, t, market, details, oldRoot) ==
    [ok    |-> x.ok /\ t.ok /\ market.ok /\ details.ok /\ verify_old_state_root(w, oldRoot),
     delta |-> t.delta,
     root  |-> compute_validium_and_state_root(x.lists, update_market_details_hashes(tx, w, x),
                   x.stack, [account |-> t.account, pub |-> t.pub,
                             market |-> market.root, details |-> details.root])]

define(tx, w, oldRoot) ==
    LET applied == apply_transaction(tx, w)
        x == verify_assets_merkle_proofs(tx, w,
               verify_account_orders_merkle_proof(tx, w,
                 verify_api_key_merkle_proof(tx, w,
                   verify_position_delta_merkle_proofs(tx, w, applied))))
    IN  Result(tx, w, x, verify_account_and_pub_data_merkle_proofs(tx, w, x),
               verify_market_and_order_book_proofs(tx, w, x),
               verify_market_details_merkle_proof(tx, w, x), oldRoot)

(* The light circuit loads one account and opens only its own leaves: the  *)
(* trees of public data and of changes are passed on as they are.          *)
LightAllowed == {"order", "terms"}

verify_light_api_key_merkle_proof(w, x) ==
    [x EXCEPT !.ok = @ /\ verify_merkle_proof(w.accounts[TAKER].keys, LeafHash(w.key, 0), 0),
              !.accounts[TAKER].keys =
                  recalculate_root(w.accounts[TAKER].keys, LeafHash(x.key, 0), 0)]

verify_light_account_orders_merkle_proof(w, x) ==
    [x EXCEPT
       !.ok = /\ @
              /\ w.order.index_0 = NIL_ORDER \/ w.order.index_0 > MAX_CLIENT_ORDER
              /\ w.order.index_1 <= MAX_CLIENT_ORDER
              /\ verify_merkle_proof(w.accounts[TAKER].orders, LeafHash(w.order.live, 0),
                                     w.order.index_0)
              /\ verify_merkle_proof(AfterOrderLeaf(w, x, TAKER), ClientLeaf(w.order),
                                     w.order.index_1),
       !.accounts[TAKER].orders =
           recalculate_root(AfterOrderLeaf(w, x, TAKER), ClientLeaf(x.order), w.order.index_1)]

verify_light_assets_merkle_proofs(tx, w, x) ==
    LET own == AssetPaths(x.accounts[TAKER].assets, tx, w.assets[TAKER], x.assets[TAKER], NoAsset)
    IN  [x EXCEPT !.ok = @ /\ own.ok, !.accounts[TAKER].assets = own.root]

verify_light_account_merkle_proof(tx, w, x) ==
    [ok |-> verify_merkle_proof(w.trees.account, OldLeaves(tx, w, TAKER).account, tx.index[TAKER]),
     account |-> recalculate_root(w.trees.account, NewLeaves(tx, w, x, TAKER).account,
                                  tx.index[TAKER]),
     pub |-> w.trees.pub, delta |-> w.deltaTree]

define_light(tx, w, oldRoot) ==
    LET applied == [apply_transaction(tx, w) EXCEPT !.ok = @ /\ tx.kind \in LightAllowed]
        x == verify_light_assets_merkle_proofs(tx, w,
               verify_light_account_orders_merkle_proof(w,
                 verify_light_api_key_merkle_proof(w, applied)))
    IN  Result(tx, w, x, verify_light_account_merkle_proof(tx, w, x),
               verify_market_and_order_book_proofs(tx, w, x),
               verify_market_details_merkle_proof(tx, w, x), oldRoot)

-----------------------------------------------------------------------------
(* The same transaction on the state itself, account by account.           *)

AccountMoved(tx, i, k) ==
    LET as(j) == IF tx.assets[j + 1] = k THEN MovedFor(tx, i, j) ELSE 0
    IN  as(0) + as(1)
Holds(tx, s, i) == tx.index[s] = i
Filled(tx, i) == IF tx.kind # "fill" THEN 0
                 ELSE (IF Holds(tx, TAKER, i) THEN 1 ELSE 0) - (IF Holds(tx, MAKER, i) THEN 1 ELSE 0)
Owns(tx, i) == UsesOrder(tx) /\ Holds(tx, OrderSlot(tx), i)

AccountAfter(tx, a, i) ==
    [a EXCEPT
       !.l1     = IF tx.kind = "open" /\ Holds(tx, MAKER, i) THEN 1 ELSE @,
       !.shares = IF tx.kind = "burn" /\ Holds(tx, TAKER, i) THEN @ + 1 ELSE @,
       !.fixed  = IF tx.kind = "burn" /\ Holds(tx, MAKER, i) THEN @ + 1 ELSE @,
       !.open   = IF Owns(tx, i) THEN @ + 1 ELSE @,
       !.keys[0] = IF Signed(tx) /\ Holds(tx, KeySlot(tx), i) THEN @ + 1 ELSE @,
       !.orders = IF Owns(tx, i)
                  THEN [o \in OrderIndexes |->
                          IF o = (IF tx.kind = "fill" THEN 8 ELSE 9) \/ (o = tx.client /\ o # NIL_ORDER)
                          THEN IF tx.kind = "fill" THEN 0 ELSE tx.client + 1
                          ELSE a.orders[o]]
                  ELSE @,
       !.assets = [k \in AssetIndexes |->
                     [balance |-> a.assets[k].balance + AccountMoved(tx, i, k),
                      locked  |-> a.assets[k].locked +
                          (IF tx.kind = "order" /\ Owns(tx, i) /\ k = tx.assets[1] THEN 1 ELSE 0)]],
       !.aggregated = [k \in AssetIndexes |-> a.aggregated[k] + AccountMoved(tx, i, k)],
       !.positions = [p \in Perps |->
                        IF p # tx.market THEN a.positions[p]
                        ELSE [size |-> a.positions[p].size + Filled(tx, i),
                              tied |-> a.positions[p].tied +
                                       (IF Owns(tx, i) THEN RestingBy(tx) ELSE 0)]]]

DeltaAfter(tx, d, i) ==
    [d EXCEPT !.l1 = IF tx.kind = "open" /\ Holds(tx, MAKER, i) THEN 1 ELSE @,
              !.shares = IF tx.kind = "burn" /\ Holds(tx, TAKER, i) THEN @ + 1 ELSE @,
              !.positions = [p \in DOMAIN d.positions |->
                               d.positions[p] + (IF p = tx.market THEN Filled(tx, i) ELSE 0)],
              !.assets = [k \in AssetIndexes |-> d.assets[k] + AccountMoved(tx, i, k)]]

LedgerAfter(tx, L) ==
    [accounts |-> [i \in Accounts |-> AccountAfter(tx, L.accounts[i], i)],
     deltas   |-> [i \in Accounts |-> DeltaAfter(tx, L.deltas[i], i)],
     markets  |-> [L.markets EXCEPT ![tx.market].nonce = IF tx.kind = "order" THEN @ + 1 ELSE @,
                                    ![tx.market].book[0] = @ + RestingBy(tx)],
     details  |-> IF UsesOrder(tx) /\ tx.market \in Perps
                  THEN [L.details EXCEPT ![tx.market] =
                            L.markets[tx.market].book[0] + RestingBy(tx) + 1]
                  ELSE L.details,
     lists    |-> NewLists(tx, L.lists),
     stack    |-> IF UsesOrder(tx) THEN L.stack + 1 ELSE L.stack]

-----------------------------------------------------------------------------
(* What a transaction used of its witness although it is not the state.    *)
(* The light circuit has no use for public sums and changes.               *)
SlotParts(tx) == IF tx.light THEN {"accounts", "assets"}
                 ELSE {"accounts", "deltas", "assets", "sums", "assetDeltas"}
SlotsUsed(tx) == IF tx.light THEN {TAKER} ELSE Slots
Private(tx, w) == IF tx.light
                  THEN [w EXCEPT !.accounts[TAKER].aggregated = EmptyRoot(AssetIndexes)]
                  ELSE w
Differ(tx, w, truth) ==
    { part \in SlotParts(tx) : \E s \in SlotsUsed(tx) : w[part][s] # truth[part][s] }
    \cup { part \in {"key", "order", "market", "resting", "impact", "details", "lists", "stack"}
                       \cup (IF tx.kind = "fill" THEN {"positionDeltas"} ELSE {}) :
              w[part] # truth[part] }
Misread(tx, w, truth) == Differ(tx, Private(tx, w), Private(tx, truth))

BlankAccount(l1, balance, order) ==
    [l1 |-> l1, shares |-> 0, fixed |-> 0,
     positions |-> [p \in Perps |-> IF p = 0 /\ order > 0 THEN [size |-> 0, tied |-> 1]
                                                          ELSE NoPosition],
     open |-> 0, keys |-> [k \in Keys |-> l1],
     orders |-> [o \in OrderIndexes |-> IF o \in {8, order - 1} /\ order > 0 THEN order ELSE 0],
     assets |-> [k \in AssetIndexes |-> [balance |-> IF k = NIL_ASSET THEN 0 ELSE balance,
                                         locked |-> 0]],
     aggregated |-> [k \in AssetIndexes |-> IF k = NIL_ASSET THEN 0 ELSE balance]]

Genesis ==
    [accounts |-> [i \in Accounts |->
                     CASE i = 1 -> BlankAccount(1, 3, 0) [] i = 2 -> BlankAccount(1, 1, 4)
                       [] OTHER -> BlankAccount(0, 0, 0)],
     deltas   |-> [i \in Accounts |->
                     [l1 |-> 0, shares |-> 0,
                      positions |-> [p \in Perps \cup {NIL_MARKET} |-> 0],
                      assets |-> [k \in AssetIndexes |-> 0]]],
     markets  |-> [m \in {0, 2, 7} |-> [nonce |-> IF m = 2 THEN 0 ELSE 1,
                                        book |-> [p \in Prices |-> IF m = 0 /\ p = 0 THEN 1 ELSE 0]]],
     details  |-> [p \in Perps \cup {NIL_MARKET} |-> 0],
     lists    |-> [risk |-> [p \in Perps |-> [mark |-> 0, status |-> 0]],
                   assets |-> [k \in AssetIndexes |-> 0],
                   margined |-> [i \in MarginIndexes |-> 1 - i], config |-> 0],
     stack    |-> 0]

Init == /\ ledger = Genesis /\ before = Genesis
        /\ root = Commitment(Genesis) /\ deltaRoot = DeltaTree(Genesis)
        /\ outcome = "none" /\ misread = {} /\ proved = 0

Judged(tx, stale, w, result) ==
    /\ ledger' = IF result.ok THEN LedgerAfter(tx, ledger) ELSE ledger
    /\ before' = IF result.ok THEN ledger ELSE before
    /\ root' = IF result.ok THEN result.root ELSE root
    /\ deltaRoot' = IF result.ok THEN result.delta ELSE deltaRoot
    /\ proved' = IF result.ok THEN proved + 1 ELSE proved
    /\ misread' = IF result.ok THEN Misread(tx, w, WitnessFrom(tx, {})) ELSE {}
    /\ outcome' = CASE result.ok -> "accepted"
                    [] ~result.ok /\ verify_transactions(tx, WitnessFrom(tx, {}))
                         -> IF stale = {} THEN "refused though current" ELSE "refused"
                    [] OTHER -> "not legal"

(* A transaction is given to the heavy or to the light circuit.            *)
Prove(tx, stale) ==
    /\ ~tx.light /\ proved < MaxTx
    /\ \E w \in {WitnessFrom(tx, stale)} :
         /\ w.deltaTree = deltaRoot
         /\ \E result \in {define(tx, w, root)} : Judged(tx, stale, w, result)

ProveLight(tx, stale) ==
    /\ tx.light /\ proved < MaxTx
    /\ \E w \in {WitnessFrom(tx, stale)} :
         /\ w.deltaTree = deltaRoot
         /\ \E result \in {define_light(tx, w, root)} : Judged(tx, stale, w, result)

Next == \E tx \in Txs, stale \in Stale : Prove(tx, stale) \/ ProveLight(tx, stale)
Spec == Init /\ [][Next]_vars

-----------------------------------------------------------------------------
(* The chain's roots commit to the state the sequencer keeps: no update of *)
(* an account that fills several slots is lost or made twice, no leaf that *)
(* a transaction does not name changes, and every leaf written through a   *)
(* nested tree reaches the root.                                           *)
RootsCommitToLedger ==
    proved > 0 => root = Commitment(ledger) /\ deltaRoot = DeltaTree(ledger)

(* No transaction is proved from a leaf that is out of date, not even in a *)
(* slot whose account is opened through another slot.                      *)
NothingStaleIsRead == misread = {}

(* A legal transaction with the current state as its witness is provable,  *)
(* whatever slots its accounts share.                                      *)
CurrentWitnessIsProved == outcome # "refused though current"

(* The tree of changes of the block explains the tree of public data: the  *)
(* public sums and position sizes committed for an account are those of    *)
(* the beginning of the block and the changes committed for it.            *)
Value(hash) == IF hash = <<>> THEN 0 ELSE hash[1]
PublicSum(i, k)  == IF root[1][i] = <<>> THEN 0 ELSE Value(root[1][i][3][k])
PublicSize(i, p) == IF root[1][i] = <<>> THEN 0 ELSE root[1][i][1][1][p \div BUCKET][p]
ChangedSum(i, k) == IF deltaRoot[i] = <<>> THEN 0 ELSE Value(deltaRoot[i][2][k])
ChangedSize(i, p) == IF deltaRoot[i] = <<>> \/ deltaRoot[i][1] = <<>> THEN 0
                     ELSE Value(deltaRoot[i][1][3][p])
ChangesExplainPublicData ==
    \A i \in Accounts :
        /\ \A k \in AssetIndexes :
             PublicSum(i, k) = Genesis.accounts[i].aggregated[k] + ChangedSum(i, k)
        /\ \A p \in Perps :
             PublicSize(i, p) = Genesis.accounts[i].positions[p].size + ChangedSize(i, p)
=============================================================================
