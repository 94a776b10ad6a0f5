---------------------------- MODULE StateHashes ----------------------------
(***************************************************************************)
(* The hashes a transaction circuit commits to the state with.  A hash is  *)
(* the tuple of what it covers (the hash functions are taken to be free of *)
(* collisions), the hash of an empty leaf is <<>>, and the root of a       *)
(* Merkle tree is the function from its indexes to the hashes of its       *)
(* leaves: the siblings a proof brings can then open a root at one index   *)
(* in one way only.                                                        *)
(***************************************************************************)
EXTENDS Integers, Sequences

CONSTANTS Accounts,      \* indexes of accounts
          Treasury       \* the account whose leaf is never empty

ASSUME AccountsAreIndexes == Accounts \subseteq Nat /\ Treasury \in Nat

Slots      == 0..2       \* the accounts a transaction loads
TAKER      == 0          \* also the owner and the sender
MAKER      == 1          \* also the sub account and the receiver
FEE        == 2          \* the account that collects the fee
BUCKET     == 2          \* POSITION_HASH_BUCKET_SIZE and _COUNT
Perps      == 0..(BUCKET * BUCKET - 2)
NIL_MARKET == BUCKET * BUCKET - 1
NIL_ASSET  == 0
AssetIndexes  == 0..2
MarginIndexes == 0..1
Keys       == 0..1
NIL_ORDER  == 0
MAX_CLIENT_ORDER == 3
OrderIndexes == {NIL_ORDER, 2, 3, 8, 9}
Prices     == 0..1

(* Reading and writing one leaf of a Merkle tree.                          *)
verify_merkle_proof(root, leaf, i) == root[i] = leaf
recalculate_root(root, leaf, i)    == [root EXCEPT ![i] = leaf]
conditional_verify_merkle_proof(cond, root, leaf, i) ==
    cond => verify_merkle_proof(root, leaf, i)

(* The hash of a leaf that is empty when its value is zero.                *)
LeafHash(value, zero) == IF value = zero THEN <<>> ELSE <<value>>

NoPosition == [size |-> 0, tied |-> 0]
NoAsset    == [balance |-> 0, locked |-> 0]

(* The positions of a bucket: first what is public, then the rest.  The    *)
(* bucket of the last market has an empty position in its last place.      *)
InBucket(b) == { p \in Perps : p \div BUCKET = b }
PositionBuckets(positions) ==
    [b \in 0..(BUCKET - 1) |->
        [pub |-> [p \in InBucket(b) |-> positions[p].size],
         all |-> [p \in InBucket(b) |-> positions[p]]]]

(* What only the first two slots read or write: for the fee account it is  *)
(* a pair of hashes the transaction cannot look into.                      *)
AccountPartial(a, buckets) ==
    [pub |-> <<[b \in DOMAIN buckets |-> buckets[b].pub], a.shares>>,
     all |-> <<[b \in DOMAIN buckets |-> buckets[b].all], a.shares, a.fixed>>]

EmptyRoot(indexes) == [i \in indexes |-> <<>>]

EmptyAccount == [l1 |-> 0, shares |-> 0, fixed |-> 0,
                 positions |-> [p \in Perps |-> NoPosition], open |-> 0,
                 keys |-> EmptyRoot(Keys), orders |-> EmptyRoot(OrderIndexes),
                 assets |-> EmptyRoot(AssetIndexes),
                 aggregated |-> EmptyRoot(AssetIndexes)]

AccountElements(a, partial) ==
    <<partial.all, a.l1, a.open, a.keys, a.orders, a.assets>>

EMPTY_ACCOUNT_HASH ==
    AccountElements(EmptyAccount,
                    AccountPartial(EmptyAccount, PositionBuckets(EmptyAccount.positions)))

(* An account's leaf in the account tree, in the tree of public data, and  *)
(* whether it is empty: the public root of balances is only in the second. *)
HashFromPartial(a, i, partial) ==
    IF AccountElements(a, partial) = EMPTY_ACCOUNT_HASH /\ i # Treasury
    THEN [account |-> <<>>, pub |-> <<>>, empty |-> TRUE]
    ELSE [account |-> AccountElements(a, partial),
          pub |-> <<partial.pub, a.l1, a.aggregated>>, empty |-> FALSE]

AccountHash(a, i, buckets) == HashFromPartial(a, i, AccountPartial(a, buckets))

(* The changes of an account's public data since the block began.          *)
EmptyDelta == [l1 |-> 0, shares |-> 0,
               positions |-> EmptyRoot(Perps \cup {NIL_MARKET}),
               assets |-> EmptyRoot(AssetIndexes)]

DeltaPartial(d) ==
    IF d.shares = 0 /\ d.l1 = 0 /\ d.positions = EmptyDelta.positions
    THEN <<>>
    ELSE <<d.shares, d.l1, d.positions>>

DeltaFromPartial(d, partial) ==
    IF partial = <<>> /\ d.assets = EmptyDelta.assets THEN <<>> ELSE <<partial, d.assets>>

DeltaHash(d) == DeltaFromPartial(d, DeltaPartial(d))

(* Markets, and the lists that are hashed whole.                           *)
perps_market_index(m) == IF m \in Perps THEN m ELSE NIL_MARKET
MarketHash(m) == LeafHash(m, [nonce |-> 0, book |-> EmptyRoot(Prices)])
RiskBuckets(risk) ==
    [b \in 0..(BUCKET - 1) |->
        [pub |-> [p \in InBucket(b) |-> risk[p].mark],
         all |-> [p \in InBucket(b) |-> risk[p]]]]
RiskHashes(buckets) ==
    [all |-> [b \in DOMAIN buckets |-> buckets[b].all],
     pub |-> [b \in DOMAIN buckets |-> buckets[b].pub]]

(* The two roots a transaction takes the chain from and to.                *)
StateRoot(trees, risk, validium) == <<trees.pub, risk.pub, validium>>
compute_validium_and_state_root(lists, risk, stack, trees) ==
    StateRoot(trees, risk,
              <<stack, trees.account, trees.details, trees.market,
                lists.assets, lists.margined, risk.all, lists.config>>)
=============================================================================
