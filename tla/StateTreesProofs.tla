-------------------------- MODULE StateTreesProofs --------------------------
(***************************************************************************)
(* Proofs about the state trees, for every set of accounts, every treasury *)
(* and any number of transactions.  The invariant IInv says of a state:    *)
(*                                                                         *)
(*   StateInv  of the state and of the one before it: an account without   *)
(*             an owner is blank (its leaf is the empty one, which says    *)
(*             nothing of its public sums), the leaves at the indexes that *)
(*             stand for "none" are empty, and an order with a client      *)
(*             index has its second leaf;                                  *)
(*   the roots the chain holds commit to the state;                        *)
(*   the last transaction misread nothing and was not refused without      *)
(*   reason.                                                               *)
(*                                                                         *)
(* A transaction is accepted only if each leaf it uses is the state's:     *)
(* that is where the hashes, free of collisions, are taken apart (the      *)
(* lemmas named Opened and Tells).  With the state's leaves the circuit    *)
(* writes those of the next state (Written, Trees), and accepts them all   *)
(* (Closes).  HeavySound, HeavyComplete, LightSound and LightComplete put  *)
(* the two circuits together; StateInvariant is the result.                *)
(*                                                                         *)
(* ChangesInv, on top of it, says that the state and its changes move      *)
(* together; what the two public trees show then explains one another.     *)
(***************************************************************************)
EXTENDS StateTrees, TLAPS

-----------------------------------------------------------------------------
(* The types.                                                              *)
Position == [size : Int, tied : Int]
Asset    == [balance : Int, locked : Int]

AccountSet ==
    [l1 : Int, shares : Int, fixed : Int, positions : [Perps -> Position], open : Int,
     keys : [Keys -> Int], orders : [OrderIndexes -> Int],
     assets : [AssetIndexes -> Asset], aggregated : [AssetIndexes -> Int]]
DeltaSet ==
    [l1 : Int, shares : Int, positions : [Perps \cup {NIL_MARKET} -> Int],
     assets : [AssetIndexes -> Int]]
MarketSet == [nonce : Int, book : [Prices -> Int]]
ListSet ==
    [risk : [Perps -> [mark : Int, status : Int]], assets : [AssetIndexes -> Int],
     margined : [MarginIndexes -> Int], config : Int]
LedgerSet ==
    [accounts : [Accounts -> AccountSet], deltas : [Accounts -> DeltaSet],
     markets : [{0, 2, 7} -> MarketSet], details : [Perps \cup {NIL_MARKET} -> Int],
     lists : ListSet, stack : Int]

-----------------------------------------------------------------------------
(* The invariant.                                                          *)
Blank == BlankAccount(0, 0, 0)

(* An account without an owner is blank, and no change made it so.         *)
BlankInv(L) ==
    \A i \in Accounts \ {Treasury} :
        L.accounts[i].l1 = 0 => L.accounts[i] = Blank /\ L.deltas[i].l1 = 0

(* The leaves at the indexes that stand for "none" are empty.              *)
NilInv(L) ==
    \A i \in Accounts : L.accounts[i].orders[NIL_ORDER] = 0 /\ L.deltas[i].positions[NIL_MARKET] = 0

(* The order with a client index has its second leaf.                      *)
OrderInv(L) ==
    \A i \in Accounts : L.accounts[i].orders[8] # 0 => L.accounts[i].orders[3] = L.accounts[i].orders[8]

StateInv(L) == L \in LedgerSet /\ BlankInv(L) /\ NilInv(L) /\ OrderInv(L)

IInv ==
    /\ StateInv(ledger) /\ StateInv(before)
    /\ root = Commitment(ledger) /\ deltaRoot = DeltaTree(ledger)
    /\ misread = {} /\ outcome # "refused though current"

-----------------------------------------------------------------------------
(* The sizes.                                                              *)
LEMMA Sizes ==
  /\ Perps = {0, 1, 2} /\ NIL_MARKET = 3 /\ BUCKET = 2
  /\ Slots = {TAKER, MAKER, FEE} /\ TAKER = 0 /\ MAKER = 1 /\ FEE = 2
  /\ AssetIndexes = {0, 1, 2} /\ NIL_ASSET = 0 /\ Keys = {0, 1} /\ Prices = {0, 1}
  /\ InBucket(0) = {0, 1} /\ InBucket(1) = {2}
BY DEF Perps, NIL_MARKET, BUCKET, Slots, TAKER, MAKER, FEE, AssetIndexes, NIL_ASSET, Keys, Prices,
       InBucket

-----------------------------------------------------------------------------
(* Hashes.  A leaf's hash tells its value.                                 *)
LEMMA LeafHashTells ==
  ASSUME NEW a, NEW b, NEW zero, LeafHash(a, zero) = LeafHash(b, zero)
  PROVE  a = b
BY DEF LeafHash

(* A leaf is empty just when its value is zero.                            *)
LEMMA LeafHashEmpty ==
  ASSUME NEW a, NEW zero
  PROVE  LeafHash(a, zero) = <<>> <=> a = zero
BY DEF LeafHash

(* The buckets cover every position.                                       *)
LEMMA CoverTells ==
  ASSUME NEW S, NEW p \in [Perps -> S], NEW q \in [Perps -> S],
         \A b \in 0 .. 1 : [m \in InBucket(b) |-> p[m]] = [m \in InBucket(b) |-> q[m]]
  PROVE  p = q
<1>1. \A m \in Perps : \E b \in 0 .. 1 : m \in InBucket(b)
  BY Sizes
<1>2. ASSUME NEW m \in Perps PROVE p[m] = q[m]
  <2>1. PICK b \in 0 .. 1 : m \in InBucket(b)
    BY <1>1
  <2>2. [k \in InBucket(b) |-> p[k]][m] = [k \in InBucket(b) |-> q[k]][m]
    OBVIOUS
  <2> QED
    BY <2>1, <2>2
<1> QED
  BY <1>2

(* So the hashes of the buckets tell the positions.                        *)
LEMMA BucketsTell ==
  ASSUME NEW S, NEW p \in [Perps -> S], NEW q \in [Perps -> S],
         [b \in DOMAIN PositionBuckets(p) |-> PositionBuckets(p)[b].all] =
         [b \in DOMAIN PositionBuckets(q) |-> PositionBuckets(q)[b].all]
  PROVE  p = q
<1>1. \A r \in [Perps -> S] :
         /\ DOMAIN PositionBuckets(r) = 0 .. 1
         /\ \A b \in 0 .. 1 : PositionBuckets(r)[b].all = [m \in InBucket(b) |-> r[m]]
  BY DEF PositionBuckets, BUCKET
<1>2. \A b \in 0 .. 1 : [m \in InBucket(b) |-> p[m]] = [m \in InBucket(b) |-> q[m]]
  <2> DEFINE pa == [b \in DOMAIN PositionBuckets(p) |-> PositionBuckets(p)[b].all]
             qa == [b \in DOMAIN PositionBuckets(q) |-> PositionBuckets(q)[b].all]
  <2>1. TAKE b \in 0 .. 1
  <2>2. pa[b] = [m \in InBucket(b) |-> p[m]] /\ qa[b] = [m \in InBucket(b) |-> q[m]]
    BY <1>1
  <2> QED
    BY <2>2
<1> QED
  BY <1>2, CoverTells

-----------------------------------------------------------------------------
(* Accounts as a witness brings them: the nested trees are given by roots. *)
LoadedSet ==
    [l1 : Int, shares : Int, fixed : Int, positions : [Perps -> Position], open : Int,
     keys : [Keys -> Seq(Int)], orders : [OrderIndexes -> Seq(Int)],
     assets : [AssetIndexes -> Seq(Asset)], aggregated : [AssetIndexes -> Seq(Int)]]

(* Such an account at index i: one without an owner is empty.              *)
Proper(a, i) == a \in LoadedSet /\ (i # Treasury /\ a.l1 = 0 => a = EmptyAccount)

(* What the leaf in the account tree covers: all but the public sums.      *)
Agree(a, b) ==
    /\ a.l1 = b.l1 /\ a.shares = b.shares /\ a.fixed = b.fixed /\ a.open = b.open
    /\ a.positions = b.positions /\ a.keys = b.keys /\ a.orders = b.orders /\ a.assets = b.assets

(* The hash of a number or of an asset is a sequence of at most one.       *)
LEMMA LeafHashType ==
  ASSUME NEW S, NEW a \in S, NEW zero
  PROVE  LeafHash(a, zero) \in Seq(S)
BY DEF LeafHash

(* The fields of an account.                                               *)
AccountFields ==
    {"l1", "shares", "fixed", "positions", "open", "keys", "orders", "assets", "aggregated"}

(* An account is made of its fields.                                       *)
LEMMA AccountFromFields ==
  ASSUME NEW c, c = [x \in AccountFields |-> c[x]]
  PROVE  c = [l1 |-> c.l1, shares |-> c.shares, fixed |-> c.fixed, positions |-> c.positions,
              open |-> c.open, keys |-> c.keys, orders |-> c.orders, assets |-> c.assets,
              aggregated |-> c.aggregated]
BY DEF AccountFields

(* What the sequencer reads of an account has the types of a witness.      *)
LEMMA LoadedType ==
  ASSUME NEW a \in AccountSet
  PROVE  /\ LoadedAccount(a) \in LoadedSet
         /\ LoadedAccount(a) = [l1 |-> a.l1, shares |-> a.shares, fixed |-> a.fixed,
              positions |-> a.positions, open |-> a.open, keys |-> KeyRoot(a),
              orders |-> OrderRoot(a), assets |-> AssetRoot(a), aggregated |-> SumRoot(a)]
<1>1. KeyRoot(a) \in [Keys -> Seq(Int)]
  BY LeafHashType DEF KeyRoot, AccountSet
<1>2. OrderRoot(a) \in [OrderIndexes -> Seq(Int)]
  BY LeafHashType DEF OrderRoot, AccountSet
<1>3. AssetRoot(a) \in [AssetIndexes -> Seq(Asset)]
  BY LeafHashType DEF AssetRoot, AccountSet
<1>4. SumRoot(a) \in [AssetIndexes -> Seq(Int)]
  BY LeafHashType DEF SumRoot, AccountSet
<1>5. LoadedAccount(a) = [l1 |-> a.l1, shares |-> a.shares, fixed |-> a.fixed,
              positions |-> a.positions, open |-> a.open, keys |-> KeyRoot(a),
              orders |-> OrderRoot(a), assets |-> AssetRoot(a), aggregated |-> SumRoot(a)]
  <2> DEFINE c == LoadedAccount(a)
  <2>1. DOMAIN a = AccountFields
    BY DEF AccountSet, AccountFields
  <2>2. c = [x \in AccountFields |-> c[x]]
    BY <2>1 DEF LoadedAccount, AccountFields
  <2>3. /\ c.l1 = a.l1 /\ c.shares = a.shares /\ c.fixed = a.fixed /\ c.positions = a.positions
        /\ c.open = a.open /\ c.keys = KeyRoot(a) /\ c.orders = OrderRoot(a)
        /\ c.assets = AssetRoot(a) /\ c.aggregated = SumRoot(a)
    BY <2>1 DEF LoadedAccount, AccountFields
  <2> HIDE DEF c
  <2>4. c = [l1 |-> c.l1, shares |-> c.shares, fixed |-> c.fixed, positions |-> c.positions,
             open |-> c.open, keys |-> c.keys, orders |-> c.orders, assets |-> c.assets,
             aggregated |-> c.aggregated]
    BY <2>2, AccountFromFields
  <2> QED
    BY <2>3, <2>4 DEF c
<1> QED
  BY <1>1, <1>2, <1>3, <1>4, <1>5 DEF LoadedSet, AccountSet

(* The blank account is the one whose leaf is empty.                       *)
LEMMA BlankIsEmpty ==
  Blank \in AccountSet /\ LoadedAccount(Blank) = EmptyAccount
<1>1. Blank = [l1 |-> 0, shares |-> 0, fixed |-> 0, positions |-> [p \in Perps |-> NoPosition],
               open |-> 0, keys |-> [k \in Keys |-> 0], orders |-> [o \in OrderIndexes |-> 0],
               assets |-> [k \in AssetIndexes |-> NoAsset],
               aggregated |-> [k \in AssetIndexes |-> 0]]
  BY DEF Blank, BlankAccount, NoAsset
<1>2. NoPosition \in Position /\ NoAsset \in Asset
  BY DEF NoPosition, NoAsset, Position, Asset
<1>3. Blank \in AccountSet
  BY <1>1, <1>2 DEF AccountSet
<1>4. /\ KeyRoot(Blank) = EmptyRoot(Keys) /\ OrderRoot(Blank) = EmptyRoot(OrderIndexes)
      /\ AssetRoot(Blank) = EmptyRoot(AssetIndexes) /\ SumRoot(Blank) = EmptyRoot(AssetIndexes)
  BY <1>1 DEF KeyRoot, OrderRoot, AssetRoot, SumRoot, EmptyRoot, LeafHash
<1> QED
  BY <1>1, <1>3, <1>4, LoadedType DEF EmptyAccount

(* An account of a good state is read as a proper one.                     *)
LEMMA LoadedProper ==
  ASSUME NEW L, StateInv(L), NEW i \in Accounts
  PROVE  Proper(LoadedAccount(L.accounts[i]), i)
<1>1. L.accounts[i] \in AccountSet
  BY DEF StateInv, LedgerSet
<1>2. LoadedAccount(L.accounts[i]).l1 = L.accounts[i].l1
  BY <1>1, LoadedType
<1>3. i # Treasury /\ L.accounts[i].l1 = 0 => L.accounts[i] = Blank
  BY DEF StateInv, BlankInv
<1> QED
  BY <1>1, <1>2, <1>3, LoadedType, BlankIsEmpty DEF Proper

(* The elements of a leaf tell what they cover.                            *)
LEMMA ElementsTell ==
  ASSUME NEW a \in LoadedSet, NEW b \in LoadedSet,
         AccountElements(a, PartialOf(a)) = AccountElements(b, PartialOf(b))
  PROVE  Agree(a, b)
<1>1. /\ PartialOf(a).all = PartialOf(b).all /\ a.l1 = b.l1 /\ a.open = b.open
      /\ a.keys = b.keys /\ a.orders = b.orders /\ a.assets = b.assets
  BY DEF AccountElements
<1> DEFINE all(c) == [k \in DOMAIN PositionBuckets(c.positions) |-> PositionBuckets(c.positions)[k].all]
<1>2. /\ PartialOf(a).all = <<all(a), a.shares, a.fixed>>
      /\ PartialOf(b).all = <<all(b), b.shares, b.fixed>>
  BY DEF PartialOf, AccountPartial
<1>3. all(a) = all(b) /\ a.shares = b.shares /\ a.fixed = b.fixed
  <2>1. <<all(a), a.shares, a.fixed>> = <<all(b), b.shares, b.fixed>>
    BY <1>1, <1>2
  <2> HIDE DEF all
  <2> QED
    BY <2>1
<1>4. a.positions = b.positions
  <2>1. a.positions \in [Perps -> Position] /\ b.positions \in [Perps -> Position]
    BY DEF LoadedSet
  <2> QED
    BY <1>3, <2>1, BucketsTell
<1> QED
  BY <1>1, <1>3, <1>4 DEF Agree

(* A leaf is empty just when its account has no owner.                     *)
LEMMA EmptyIsUnowned ==
  ASSUME NEW i, NEW a, Proper(a, i)
  PROVE  LET h == HashFromPartial(a, i, PartialOf(a)) IN
         /\ h.empty <=> i # Treasury /\ a.l1 = 0
         /\ h.account = IF i # Treasury /\ a.l1 = 0 THEN <<>> ELSE AccountElements(a, PartialOf(a))
         /\ h.pub = IF i # Treasury /\ a.l1 = 0 THEN <<>>
                                                ELSE <<PartialOf(a).pub, a.l1, a.aggregated>>
<1>1. EMPTY_ACCOUNT_HASH = AccountElements(EmptyAccount, PartialOf(EmptyAccount))
  BY DEF EMPTY_ACCOUNT_HASH, PartialOf
<1>2. AccountElements(a, PartialOf(a)) = EMPTY_ACCOUNT_HASH => a.l1 = 0
  BY <1>1 DEF AccountElements, EmptyAccount
<1>3. i # Treasury => (AccountElements(a, PartialOf(a)) = EMPTY_ACCOUNT_HASH <=> a.l1 = 0)
  BY <1>1, <1>2 DEF Proper
<1> QED
  BY <1>3 DEF HashFromPartial

(* Two leaves of an account with one hash are the leaves of one account,   *)
(* but for its public sums.                                                *)
LEMMA AccountLeafTells ==
  ASSUME NEW i, NEW a, NEW b, Proper(a, i), Proper(b, i),
         HashFromPartial(a, i, PartialOf(a)).account = HashFromPartial(b, i, PartialOf(b)).account
  PROVE  Agree(a, b)
<1> DEFINE none(c) == i # Treasury /\ c.l1 = 0
           h(c) == HashFromPartial(c, i, PartialOf(c)).account
           e(c) == AccountElements(c, PartialOf(c))
<1>1. (h(a) = IF none(a) THEN <<>> ELSE e(a)) /\ (h(b) = IF none(b) THEN <<>> ELSE e(b))
  BY EmptyIsUnowned
<1>2. e(a) # <<>> /\ e(b) # <<>>
  BY DEF AccountElements
<1>3. a \in LoadedSet /\ b \in LoadedSet
  BY DEF Proper
<1>4. CASE none(a) /\ none(b)
  <2>1. a = EmptyAccount /\ b = EmptyAccount
    BY <1>4 DEF Proper
  <2> QED
    BY <2>1 DEF Agree
<1>5. CASE ~none(a) /\ ~none(b)
  <2>1. e(a) = e(b)
    <3> HIDE DEF none, h, e
    <3> QED
      BY <1>1, <1>5 DEF h
  <2> QED
    BY <2>1, <1>3, ElementsTell
<1>6. none(a) <=> none(b)
  <2> HIDE DEF none, e
  <2> QED
    BY <1>1, <1>2
<1> QED
  BY <1>4, <1>5, <1>6

(* With the leaf in the tree of public data the sums are told as well.     *)
LEMMA PublicLeafTells ==
  ASSUME NEW i, NEW a, NEW b, Proper(a, i), Proper(b, i), Agree(a, b),
         HashFromPartial(a, i, PartialOf(a)).pub = HashFromPartial(b, i, PartialOf(b)).pub
  PROVE  a = b
<1>1. a \in LoadedSet /\ b \in LoadedSet /\ a.l1 = b.l1
  BY DEF Proper, Agree
<1>2. a.aggregated = b.aggregated => a = b
  <2>1. \A c \in LoadedSet :
          c = [l1 |-> c.l1, shares |-> c.shares, fixed |-> c.fixed,
               positions |-> c.positions, open |-> c.open, keys |-> c.keys,
               orders |-> c.orders, assets |-> c.assets, aggregated |-> c.aggregated]
    BY DEF LoadedSet
  <2>2. /\ a = [l1 |-> a.l1, shares |-> a.shares, fixed |-> a.fixed,
               positions |-> a.positions, open |-> a.open, keys |-> a.keys,
               orders |-> a.orders, assets |-> a.assets, aggregated |-> a.aggregated]
        /\ b = [l1 |-> b.l1, shares |-> b.shares, fixed |-> b.fixed,
               positions |-> b.positions, open |-> b.open, keys |-> b.keys,
               orders |-> b.orders, assets |-> b.assets, aggregated |-> b.aggregated]
    BY <1>1, <2>1
  <2> QED
    BY <2>2, Zenon DEF Agree
<1>3. CASE i # Treasury /\ a.l1 = 0
  BY <1>1, <1>3 DEF Proper
<1>4. CASE ~(i # Treasury /\ a.l1 = 0)
  <2>1. <<PartialOf(a).pub, a.l1, a.aggregated>> = <<PartialOf(b).pub, b.l1, b.aggregated>>
    BY <1>1, <1>4, EmptyIsUnowned
  <2> QED
    BY <1>2, <2>1
<1> QED
  BY <1>3, <1>4

-----------------------------------------------------------------------------
(* Changes, lists and roots.                                               *)
LoadedDeltaSet ==
    [l1 : Int, shares : Int, positions : [Perps \cup {NIL_MARKET} -> Seq(Int)],
     assets : [AssetIndexes -> Seq(Int)]]

(* What the sequencer reads of the changes of an account.                  *)
LEMMA LoadedDeltaType ==
  ASSUME NEW d \in DeltaSet
  PROVE  /\ LoadedDelta(d) \in LoadedDeltaSet
         /\ LoadedDelta(d).l1 = d.l1 /\ LoadedDelta(d).shares = d.shares
         /\ LoadedDelta(d).positions = DeltaPositionRoot(d)
         /\ LoadedDelta(d).assets = [k \in AssetIndexes |-> LeafHash(d.assets[k], 0)]
<1>1. DOMAIN d = {"l1", "shares", "positions", "assets"}
  BY DEF DeltaSet
<1>2. DeltaPositionRoot(d) \in [Perps \cup {NIL_MARKET} -> Seq(Int)]
  BY LeafHashType DEF DeltaPositionRoot, DeltaSet
<1>3. [k \in AssetIndexes |-> LeafHash(d.assets[k], 0)] \in [AssetIndexes -> Seq(Int)]
  BY LeafHashType DEF DeltaSet
<1> DEFINE c == LoadedDelta(d)
<1>4. c = [x \in {"l1", "shares", "positions", "assets"} |-> c[x]]
  BY <1>1 DEF LoadedDelta
<1>5. /\ c.l1 = d.l1 /\ c.shares = d.shares /\ c.positions = DeltaPositionRoot(d)
      /\ c.assets = [k \in AssetIndexes |-> LeafHash(d.assets[k], 0)]
  BY <1>1 DEF LoadedDelta
<1> HIDE DEF c
<1>6. c = [l1 |-> c.l1, shares |-> c.shares, positions |-> c.positions, assets |-> c.assets]
  BY <1>4
<1>7. d.l1 \in Int /\ d.shares \in Int
  BY DEF DeltaSet
<1>8. c \in LoadedDeltaSet
  BY <1>2, <1>3, <1>5, <1>6, <1>7 DEF LoadedDeltaSet
<1> QED
  BY <1>5, <1>8 DEF c

(* The leaf of an account's changes tells them.                            *)
LEMMA DeltaLeafTells ==
  ASSUME NEW d \in LoadedDeltaSet, NEW e \in LoadedDeltaSet, DeltaHash(d) = DeltaHash(e)
  PROVE  d = e
<1> DEFINE none(c) == c.shares = 0 /\ c.l1 = 0 /\ c.positions = EmptyDelta.positions
           free(c) == c.assets = EmptyDelta.assets
           all(c)  == <<c.shares, c.l1, c.positions>>
<1>1. ASSUME NEW c
      PROVE  /\ none(c) => DeltaPartial(c) = <<>>
             /\ ~none(c) => DeltaPartial(c) = all(c) /\ all(c) # <<>>
  BY DEF DeltaPartial
<1>2. ASSUME NEW c
      PROVE  /\ DeltaPartial(c) = <<>> /\ free(c) => DeltaHash(c) = <<>>
             /\ ~(DeltaPartial(c) = <<>> /\ free(c)) =>
                   DeltaHash(c) = <<DeltaPartial(c), c.assets>> /\ <<DeltaPartial(c), c.assets>> # <<>>
  BY DEF DeltaHash, DeltaFromPartial
<1>3. DeltaPartial(d) = DeltaPartial(e) /\ d.assets = e.assets
  <2>1. CASE DeltaPartial(d) = <<>> /\ free(d)
    <3>1. DeltaPartial(e) = <<>> /\ free(e)
      <4> HIDE DEF free
      <4> QED
        BY <2>1, <1>2
    <3> QED
      BY <2>1, <3>1
  <2>2. CASE ~(DeltaPartial(d) = <<>> /\ free(d))
    <3>1. <<DeltaPartial(d), d.assets>> = <<DeltaPartial(e), e.assets>>
      <4> HIDE DEF free
      <4> QED
        BY <2>2, <1>2
    <3> QED
      BY <3>1
  <2> QED
    BY <2>1, <2>2
<1>4. d.l1 = e.l1 /\ d.shares = e.shares /\ d.positions = e.positions
  <2>1. CASE none(d) /\ none(e)
    BY <2>1
  <2>2. CASE ~none(d) /\ ~none(e)
    <3>1. all(d) = all(e)
      <4> HIDE DEF none, all
      <4> QED
        BY <1>1, <1>3, <2>2
    <3> QED
      BY <3>1
  <2>3. none(d) <=> none(e)
    <3> HIDE DEF none, all
    <3> QED
      BY <1>1, <1>3
  <2> QED
    BY <2>1, <2>2, <2>3
<1>5. /\ d = [l1 |-> d.l1, shares |-> d.shares, positions |-> d.positions, assets |-> d.assets]
      /\ e = [l1 |-> e.l1, shares |-> e.shares, positions |-> e.positions, assets |-> e.assets]
  BY DEF LoadedDeltaSet
<1> QED
  BY <1>3, <1>4, <1>5, Zenon

(* The two hashes of the list of markets tell it.                          *)
LEMMA RiskTells ==
  ASSUME NEW S, NEW p \in [Perps -> S], NEW q \in [Perps -> S],
         RiskHashes(RiskBuckets(p)).all = RiskHashes(RiskBuckets(q)).all
  PROVE  p = q
<1>1. ASSUME NEW r \in [Perps -> S]
      PROVE  RiskHashes(RiskBuckets(r)).all = [b \in 0 .. 1 |-> [m \in InBucket(b) |-> r[m]]]
  BY DEF RiskBuckets, RiskHashes, BUCKET
<1>2. [b \in 0 .. 1 |-> [m \in InBucket(b) |-> p[m]]] = [b \in 0 .. 1 |-> [m \in InBucket(b) |-> q[m]]]
  BY <1>1
<1>3. ASSUME NEW b \in 0 .. 1
      PROVE  [m \in InBucket(b) |-> p[m]] = [m \in InBucket(b) |-> q[m]]
  <2>1. [k \in 0 .. 1 |-> [m \in InBucket(k) |-> p[m]]][b] = [k \in 0 .. 1 |-> [m \in InBucket(k) |-> q[m]]][b]
    BY <1>2
  <2> QED
    BY <2>1
<1> QED
  BY <1>3, CoverTells

(* The state root tells the lists, the stack and the roots of the trees.   *)
LEMMA RootTells ==
  ASSUME NEW L \in LedgerSet, NEW w, w.lists \in ListSet, verify_old_state_root(w, Commitment(L))
  PROVE  /\ w.lists = L.lists /\ w.stack = L.stack
         /\ w.trees.account = Trees(L).account /\ w.trees.pub = Trees(L).pub
         /\ w.trees.market = Trees(L).market /\ w.trees.details = Trees(L).details
<1>1. L.lists \in ListSet
  BY DEF LedgerSet
<1> DEFINE hl == RiskHashes(RiskBuckets(L.lists.risk))
           hw == RiskHashes(RiskBuckets(w.lists.risk))
<1>2. <<Trees(L).pub, hl.pub,
        <<L.stack, Trees(L).account, Trees(L).details, Trees(L).market,
          L.lists.assets, L.lists.margined, hl.all, L.lists.config>>>> =
      <<w.trees.pub, hw.pub,
        <<w.stack, w.trees.account, w.trees.details, w.trees.market,
          w.lists.assets, w.lists.margined, hw.all, w.lists.config>>>>
  BY DEF verify_old_state_root, Commitment, compute_validium_and_state_root, StateRoot
<1> HIDE DEF hl, hw
<1>3. /\ w.stack = L.stack
      /\ w.trees.account = Trees(L).account /\ w.trees.pub = Trees(L).pub
      /\ w.trees.market = Trees(L).market /\ w.trees.details = Trees(L).details
      /\ w.lists.assets = L.lists.assets /\ w.lists.margined = L.lists.margined
      /\ hw.all = hl.all /\ w.lists.config = L.lists.config
  BY <1>2
<1>4. w.lists.risk = L.lists.risk
  <2>1. /\ w.lists.risk \in [Perps -> [mark : Int, status : Int]]
        /\ L.lists.risk \in [Perps -> [mark : Int, status : Int]]
    BY <1>1 DEF ListSet
  <2> QED
    BY <1>3, <2>1, RiskTells DEF hl, hw
<1>5. ASSUME NEW m \in ListSet
      PROVE  m = [risk |-> m.risk, assets |-> m.assets, margined |-> m.margined, config |-> m.config]
  BY DEF ListSet
<1>6. w.lists = L.lists
  <2>1. /\ w.lists = [risk |-> w.lists.risk, assets |-> w.lists.assets,
                      margined |-> w.lists.margined, config |-> w.lists.config]
        /\ L.lists = [risk |-> L.lists.risk, assets |-> L.lists.assets,
                      margined |-> L.lists.margined, config |-> L.lists.config]
    BY <1>1, <1>5
  <2> QED
    BY <1>3, <1>4, <2>1, Zenon
<1> QED
  BY <1>3, <1>6

-----------------------------------------------------------------------------
(* What a transaction is.                                                  *)
LEMMA TxIs ==
  ASSUME NEW tx \in Txs
  PROVE  /\ tx.kind \in Kinds /\ tx.light \in BOOLEAN
         /\ \A s \in Slots : tx.index[s] \in Accounts
         /\ tx.light => /\ tx.kind \in {"order", "terms"} /\ tx.index[MAKER] = tx.index[TAKER]
                        /\ tx.index[FEE] = tx.index[TAKER]
         /\ tx.assets[1] \in AssetIndexes /\ tx.assets[2] \in AssetIndexes
         /\ tx.kind \in {"open", "burn"} => tx.assets[1] = NIL_ASSET /\ tx.assets[2] = NIL_ASSET
         /\ tx.kind \notin {"open", "burn"} => tx.assets[1] # tx.assets[2]
         /\ tx.market \in {0, 2, 7} /\ tx.client \in {NIL_ORDER, 3}
         /\ tx.kind = "fill" => tx.market = 0 /\ tx.client = 3
         /\ tx.kind = "order" => tx.market \in {0, 7}
         /\ tx.kind \notin {"order", "fill"} => tx.market = 2
<1>1. Slots = {TAKER, MAKER, FEE} /\ AssetIndexes = {0, 1, 2} /\ NIL_ASSET = 0
  BY Sizes
<1>2. /\ tx \in [kind : Kinds, light : BOOLEAN, index : [Slots -> Accounts],
                 assets : {<<1, 2>>, <<2, 1>>, <<NIL_ASSET, NIL_ASSET>>},
                 market : {0, 2, 7}, client : {NIL_ORDER, 3}]
      /\ tx.light => tx.kind \in {"order", "terms"} /\ \A s \in Slots : tx.index[s] = tx.index[TAKER]
      /\ tx.kind # "order" => tx.client = IF tx.kind = "fill" THEN 3 ELSE NIL_ORDER
      /\ tx.market \in (CASE tx.kind = "order" -> {0, 7} [] tx.kind = "fill" -> {0}
                                [] OTHER -> {2})
      /\ tx.assets \in (CASE tx.kind = "move" -> {<<1, 2>>, <<2, 1>>}
                                [] tx.kind \in {"open", "burn"} -> {<<NIL_ASSET, NIL_ASSET>>}
                                [] OTHER -> {<<1, 2>>})
  BY DEF Txs
<1>3. /\ tx.kind \in Kinds /\ tx.light \in BOOLEAN /\ tx.index \in [Slots -> Accounts]
      /\ tx.assets \in {<<1, 2>>, <<2, 1>>, <<0, 0>>}
      /\ tx.market \in {0, 2, 7} /\ tx.client \in {NIL_ORDER, 3}
  BY <1>1, <1>2
<1>4. /\ tx.kind = "move" => tx.assets \in {<<1, 2>>, <<2, 1>>}
      /\ tx.kind \in {"open", "burn"} => tx.assets = <<0, 0>>
      /\ tx.kind \notin {"move", "open", "burn"} => tx.assets = <<1, 2>>
  <2>1. CASE tx.kind = "move"
    BY <1>2, <2>1
  <2>2. CASE tx.kind \in {"open", "burn"}
    BY <1>1, <1>2, <2>2
  <2>3. CASE tx.kind \notin {"move", "open", "burn"}
    BY <1>2, <2>3
  <2> QED
    BY <2>1, <2>2, <2>3
<1>5. /\ tx.kind = "order" => tx.market \in {0, 7}
      /\ tx.kind = "fill" => tx.market = 0
      /\ tx.kind \notin {"order", "fill"} => tx.market = 2
  BY <1>2
<1> QED
  BY <1>1, <1>2, <1>3, <1>4, <1>5

-----------------------------------------------------------------------------
(* What a witness brings, from whatever states its parts are read.         *)
Brings(tx, w) ==
    /\ \A s \in Slots : Proper(w.accounts[s], tx.index[s]) /\ w.deltas[s] \in LoadedDeltaSet
    /\ \A s \in Slots : /\ w.assets[s] \in [0 .. 1 -> Asset] /\ w.sums[s] \in [0 .. 1 -> Int]
                        /\ w.assetDeltas[s] \in [0 .. 1 -> Int]
    /\ w.positionDeltas \in [{TAKER, MAKER} -> Int]
    /\ w.key \in Int /\ w.resting \in Int /\ w.impact \in Int /\ w.details \in Int
    /\ w.market \in [nonce : Int, book : [Prices -> Seq(Int)]]
    /\ w.lists \in ListSet /\ w.stack \in Int
    /\ \E M : StateInv(M) /\ w.order = OrderOf(M, tx)

(* The index of the details of a market.                                   *)
LEMMA PerpsIndex ==
  ASSUME NEW tx \in Txs
  PROVE  /\ perps_market_index(tx.market) \in Perps \cup {NIL_MARKET}
         /\ tx.market \in Perps => perps_market_index(tx.market) = tx.market
         /\ tx.market \in Perps <=> tx.market # 7
BY TxIs, Sizes DEF perps_market_index

(* Every witness brings what its parts should be, if not of this state.    *)
LEMMA WitnessBrings ==
  ASSUME StateInv(ledger), StateInv(before), NEW tx \in Txs, NEW stale
  PROVE  Brings(tx, WitnessFrom(tx, stale))
<1> DEFINE w == WitnessFrom(tx, stale)
           L(part) == IF part \in stale THEN before ELSE ledger
<1>1. ASSUME NEW part PROVE StateInv(L(part)) /\ L(part) \in LedgerSet
  BY DEF StateInv
<1>2. \A s \in Slots : tx.index[s] \in Accounts
  BY TxIs
<1>3. ASSUME NEW s \in Slots
      PROVE  Proper(w.accounts[s], tx.index[s]) /\ w.deltas[s] \in LoadedDeltaSet
  <2>1. w.accounts[s] = LoadedAccount(L(<<"account", s>>).accounts[tx.index[s]])
    BY DEF WitnessFrom
  <2>2. w.deltas[s] = LoadedDelta(L(<<"delta", s>>).deltas[tx.index[s]])
    BY DEF WitnessFrom
  <2>3. L(<<"delta", s>>).deltas[tx.index[s]] \in DeltaSet
    BY <1>1, <1>2 DEF LedgerSet
  <2> HIDE DEF w, L
  <2> QED
    BY <1>1, <1>2, <2>1, <2>2, <2>3, LoadedProper, LoadedDeltaType, ZenonT(60)
<1>4. \A j \in 0 .. 1 : tx.assets[j + 1] \in AssetIndexes
  BY TxIs
<1>5. ASSUME NEW s \in Slots
      PROVE  /\ w.assets[s] \in [0 .. 1 -> Asset] /\ w.sums[s] \in [0 .. 1 -> Int]
             /\ w.assetDeltas[s] \in [0 .. 1 -> Int]
  <2> DEFINE M == L(<<"assets", s>>)
  <2>1. M.accounts[tx.index[s]] \in AccountSet /\ M.deltas[tx.index[s]] \in DeltaSet
    BY <1>1, <1>2 DEF LedgerSet
  <2>2. /\ w.assets[s] = [j \in 0 .. 1 |-> M.accounts[tx.index[s]].assets[tx.assets[j + 1]]]
        /\ w.sums[s] = [j \in 0 .. 1 |-> M.accounts[tx.index[s]].aggregated[tx.assets[j + 1]]]
        /\ w.assetDeltas[s] = [j \in 0 .. 1 |-> M.deltas[tx.index[s]].assets[tx.assets[j + 1]]]
    BY DEF WitnessFrom
  <2> HIDE DEF w, M
  <2>3. \A j \in 0 .. 1 : /\ M.accounts[tx.index[s]].assets[tx.assets[j + 1]] \in Asset
                          /\ M.accounts[tx.index[s]].aggregated[tx.assets[j + 1]] \in Int
                          /\ M.deltas[tx.index[s]].assets[tx.assets[j + 1]] \in Int
    BY <1>4, <2>1 DEF AccountSet, DeltaSet
  <2> QED
    BY <2>2, <2>3
<1>6. w.positionDeltas \in [{TAKER, MAKER} -> Int]
  <2>1. w.positionDeltas = [s \in {TAKER, MAKER} |->
            L(<<"position", s>>).deltas[tx.index[s]].positions[perps_market_index(tx.market)]]
    BY DEF WitnessFrom
  <2>2. ASSUME NEW s \in {TAKER, MAKER}
        PROVE  L(<<"position", s>>).deltas[tx.index[s]].positions[perps_market_index(tx.market)] \in Int
    <3>1. s \in Slots
      BY Sizes
    <3>2. L(<<"position", s>>).deltas[tx.index[s]] \in DeltaSet
      BY <1>1, <1>2, <3>1 DEF LedgerSet
    <3> HIDE DEF L
    <3> QED
      BY <3>2, PerpsIndex DEF DeltaSet
  <2> HIDE DEF w, L
  <2> QED
    BY <2>1, <2>2
<1>7. KeySlot(tx) \in Slots
  BY Sizes DEF KeySlot
<1>8. w.key \in Int
  <2>1. w.key = L(<<"key", TAKER>>).accounts[tx.index[KeySlot(tx)]].keys[0]
    BY DEF WitnessFrom
  <2>2. L(<<"key", TAKER>>).accounts[tx.index[KeySlot(tx)]] \in AccountSet
    BY <1>1, <1>2, <1>7 DEF LedgerSet
  <2> HIDE DEF w, L
  <2> QED
    BY <2>1, <2>2, Sizes DEF AccountSet
<1>9. ASSUME NEW part
      PROVE  /\ L(part).markets[tx.market] \in MarketSet /\ L(part).markets[tx.market].book[0] \in Int
             /\ L(part).lists \in ListSet /\ L(part).stack \in Int
             /\ L(part).details[perps_market_index(tx.market)] \in Int
  <2>1. tx.market \in {0, 2, 7}
    BY TxIs
  <2>2. L(part).markets[tx.market] \in MarketSet
    BY <1>1, <2>1 DEF LedgerSet
  <2> HIDE DEF L
  <2> QED
    BY <1>1, <2>2, PerpsIndex, Sizes DEF LedgerSet, MarketSet
<1>10. w.market \in [nonce : Int, book : [Prices -> Seq(Int)]]
  <2> DEFINE m == L(<<"market", TAKER>>).markets[tx.market]
  <2>1. w.market = LoadedMarket(m)
    BY DEF WitnessFrom
  <2>2. m \in MarketSet
    BY <1>9
  <2> HIDE DEF w, m
  <2>3. BookRoot(m) \in [Prices -> Seq(Int)]
    BY <2>2, LeafHashType DEF BookRoot, MarketSet
  <2> QED
    BY <2>1, <2>2, <2>3 DEF LoadedMarket, MarketSet
<1>11. w.resting \in Int /\ w.details \in Int /\ w.lists \in ListSet /\ w.stack \in Int
  <2>1. /\ w.resting = L(<<"market", TAKER>>).markets[tx.market].book[0]
        /\ w.details = L(<<"details", TAKER>>).details[perps_market_index(tx.market)]
        /\ w.lists = L(<<"lists", TAKER>>).lists /\ w.stack = L(<<"lists", TAKER>>).stack
    BY DEF WitnessFrom
  <2> HIDE DEF w, L
  <2> QED
    BY <1>9, <2>1
<1>12. RestingBy(tx) \in Int
  BY DEF RestingBy
<1>13. w.impact \in Int
  <2> DEFINE b == L(<<"impact", TAKER>>).markets[tx.market].book[0]
  <2>1. w.impact = IF tx.market \in Perps
                   THEN b + (IF L(<<"impact", TAKER>>) = ledger THEN RestingBy(tx) ELSE 0) ELSE 0
    BY DEF WitnessFrom
  <2>2. b \in Int
    BY <1>9
  <2> HIDE DEF w, b
  <2> QED
    BY <1>12, <2>1, <2>2
<1>14. \E M : StateInv(M) /\ w.order = OrderOf(M, tx)
  <2>1. w.order = OrderOf(L(<<"order", TAKER>>), tx)
    BY DEF WitnessFrom
  <2> HIDE DEF w, L
  <2> QED
    BY <1>1, <2>1
<1> HIDE DEF w
<1> QED
  BY <1>3, <1>5, <1>6, <1>8, <1>10, <1>11, <1>13, <1>14 DEF Brings, w

-----------------------------------------------------------------------------
(* The slots.  Each account is opened in one slot.                         *)
LEMMA OneSlotEach ==
  ASSUME NEW tx
  PROVE  /\ Loaded(tx, TAKER)
         /\ Loaded(tx, MAKER) <=> tx.index[MAKER] # tx.index[TAKER]
         /\ Loaded(tx, FEE) <=> tx.index[FEE] # tx.index[TAKER] /\ tx.index[FEE] # tx.index[MAKER]
         /\ \A s, t \in Slots : (Loaded(tx, s) /\ Loaded(tx, t) /\ tx.index[s] = tx.index[t]) => s = t
         /\ \A s \in Slots : \E t \in Slots : Loaded(tx, t) /\ tx.index[t] = tx.index[s]
<1>1. TAKER = 0 /\ MAKER = 1 /\ FEE = 2 /\ Slots = {0, 1, 2}
  BY Sizes
<1>2. /\ Loaded(tx, 0)
      /\ Loaded(tx, 1) <=> tx.index[1] # tx.index[0]
      /\ Loaded(tx, 2) <=> tx.index[2] # tx.index[0] /\ tx.index[2] # tx.index[1]
  BY <1>1 DEF Loaded, is_sender_receiver_different, is_fee_account_different, fee_account_is
<1> QED
  BY <1>1, <1>2

(* The leaf of slot s is where the roots of the witness say.               *)
Stands(tx, w, s) ==
    /\ w.trees.account[tx.index[s]] = OldLeaves(tx, w, s).account
    /\ w.trees.pub[tx.index[s]] = OldLeaves(tx, w, s).pub
    /\ w.deltaTree[tx.index[s]] = OldLeaves(tx, w, s).delta

(* A function of the accounts.                                             *)
Tree(r) == r = [i \in Accounts |-> r[i]]

(* The roots of the witness are roots of trees of accounts.                *)
Rooted(w) ==
    /\ Tree(w.trees.account)
    /\ Tree(w.trees.pub)
    /\ Tree(w.deltaTree)

(* A leaf is written into a root.                                          *)
Wrote(r, t, i, n) == r = [t EXCEPT ![i] = n]

(* One slot: its leaf is opened in the roots t, and written into them.     *)
LEMMA OneSlot ==
  ASSUME NEW tx \in Txs, NEW w, NEW x, NEW s \in Slots, NEW t, t.ok \in BOOLEAN,
         NEW u, u = SlotOpened(tx, w, x, t, s)
  PROVE  /\ ~Loaded(tx, s) => u = t
         /\ u.ok \in BOOLEAN
         /\ Loaded(tx, s) =>
              /\ u.ok <=> /\ t.ok
                          /\ t.account[tx.index[s]] = OldLeaves(tx, w, s).account
                          /\ t.pub[tx.index[s]] = OldLeaves(tx, w, s).pub
                          /\ t.delta[tx.index[s]] = OldLeaves(tx, w, s).delta
              /\ Wrote(u.account, t.account, tx.index[s], NewLeaves(tx, w, x, s).account)
              /\ Wrote(u.pub, t.pub, tx.index[s], NewLeaves(tx, w, x, s).pub)
              /\ Wrote(u.delta, t.delta, tx.index[s], NewLeaves(tx, w, x, s).delta)
<1>1. CASE ~Loaded(tx, s)
  BY <1>1 DEF SlotOpened
<1>2. CASE Loaded(tx, s)
  <2> DEFINE O == OldLeaves(tx, w, s)
             N == NewLeaves(tx, w, x, s)
             good == t.ok /\ \A tree \in {"account", "pub", "delta"} :
                               verify_merkle_proof(t[tree], O[tree], tx.index[s])
  <2>1. u = [ok |-> good,
             account |-> recalculate_root(t.account, N.account, tx.index[s]),
             pub     |-> recalculate_root(t.pub, N.pub, tx.index[s]),
             delta   |-> recalculate_root(t.delta, N.delta, tx.index[s])]
    BY <1>2 DEF SlotOpened
  <2>2. good \in BOOLEAN
    OBVIOUS
  <2>3. good <=> /\ t.ok /\ t.account[tx.index[s]] = O.account
                 /\ t.pub[tx.index[s]] = O.pub /\ t.delta[tx.index[s]] = O.delta
    <3> HIDE DEF O
    <3> QED
      BY DEF verify_merkle_proof
  <2> HIDE DEF O, N, good
  <2>4. /\ Wrote(u.account, t.account, tx.index[s], N.account)
        /\ Wrote(u.pub, t.pub, tx.index[s], N.pub)
        /\ Wrote(u.delta, t.delta, tx.index[s], N.delta)
    BY <2>1 DEF recalculate_root, Wrote
  <2> QED
    BY <1>2, <2>1, <2>2, <2>3, <2>4 DEF O, N
<1> QED
  BY <1>1, <1>2

(* Three leaves are written one after the other, of which the second and   *)
(* the third may be left out.                                              *)
WroteThree(i0, i1, i2, r0, r1, r2, r3, n0, n1, n2) ==
    /\ Tree(r0) /\ Wrote(r1, r0, i0, n0)
    /\ (i1 = i0 => r2 = r1) /\ (i1 # i0 => Wrote(r2, r1, i1, n1))
    /\ (~(i2 # i0 /\ i2 # i1) => r3 = r2) /\ (i2 # i0 /\ i2 # i1 => Wrote(r3, r2, i2, n2))

(* Each is where it was written, and no other leaf has changed.            *)
LEMMA ThreeWrites ==
  ASSUME NEW i0 \in Accounts, NEW i1 \in Accounts, NEW i2 \in Accounts,
         NEW r0, NEW r1, NEW r2, NEW r3, NEW n0, NEW n1, NEW n2,
         WroteThree(i0, i1, i2, r0, r1, r2, r3, n0, n1, n2)
  PROVE  /\ Tree(r3)
         /\ r3[i0] = n0 /\ (i1 # i0 => r3[i1] = n1) /\ (i2 # i0 /\ i2 # i1 => r3[i2] = n2)
         /\ (i1 # i0 => r1[i1] = r0[i1]) /\ (i2 # i0 /\ i2 # i1 => r2[i2] = r0[i2])
         /\ \A i \in Accounts : (i # i0 /\ i # i1 /\ i # i2) => r3[i] = r0[i]
<1>1. r1 = [i \in Accounts |-> IF i = i0 THEN n0 ELSE r0[i]]
  BY DEF WroteThree, Wrote, Tree
<1>2. r2 = [i \in Accounts |-> IF i = i1 /\ i1 # i0 THEN n1 ELSE r1[i]]
  BY <1>1 DEF WroteThree, Wrote, Tree
<1>3. r3 = [i \in Accounts |-> IF i = i2 /\ i2 # i0 /\ i2 # i1 THEN n2 ELSE r2[i]]
  BY <1>2 DEF WroteThree, Wrote, Tree
<1> QED
  BY <1>1, <1>2, <1>3 DEF Tree

(* Slots that hold one account open the same leaves.                       *)
SlotsAgree(tx, w) == SameAccountSameLeaf(tx, [s \in Slots |-> OldLeaves(tx, w, s)])

(* All slots, each against the roots the one before it left: every opened  *)
(* leaf stands in the old trees, and the new trees differ in those only.   *)
LEMMA AllSlots ==
  ASSUME NEW tx \in Txs, NEW w, NEW x, Rooted(w),
         NEW t, t = verify_account_and_pub_data_merkle_proofs(tx, w, x)
  PROVE  /\ t.ok <=> /\ SlotsAgree(tx, w)
                     /\ \A s \in Slots : Loaded(tx, s) => Stands(tx, w, s)
         /\ \A s \in Slots : Loaded(tx, s) =>
              /\ t.account[tx.index[s]] = NewLeaves(tx, w, x, s).account
              /\ t.pub[tx.index[s]] = NewLeaves(tx, w, x, s).pub
              /\ t.delta[tx.index[s]] = NewLeaves(tx, w, x, s).delta
         /\ \A i \in Accounts : (\A s \in Slots : tx.index[s] # i) =>
              /\ t.account[i] = w.trees.account[i] /\ t.pub[i] = w.trees.pub[i]
              /\ t.delta[i] = w.deltaTree[i]
         /\ Tree(t.account)
         /\ Tree(t.pub)
         /\ Tree(t.delta)
<1> DEFINE same == SameAccountSameLeaf(tx, [s \in Slots |-> OldLeaves(tx, w, s)])
           t0 == [ok |-> same, account |-> w.trees.account, pub |-> w.trees.pub,
                  delta |-> w.deltaTree]
           t1 == SlotOpened(tx, w, x, t0, TAKER)
           t2 == SlotOpened(tx, w, x, t1, MAKER)
           O(s) == OldLeaves(tx, w, s)
           N(s) == NewLeaves(tx, w, x, s)
           i0 == tx.index[TAKER]
           i1 == tx.index[MAKER]
           i2 == tx.index[FEE]
<1>1. t = SlotOpened(tx, w, x, t2, FEE)
  BY DEF verify_account_and_pub_data_merkle_proofs
<1>2. Slots = {TAKER, MAKER, FEE} /\ TAKER # MAKER /\ MAKER # FEE /\ TAKER # FEE
  BY Sizes
<1>3. i0 \in Accounts /\ i1 \in Accounts /\ i2 \in Accounts
  BY <1>2, TxIs
<1>4. /\ Loaded(tx, TAKER) /\ (Loaded(tx, MAKER) <=> i1 # i0)
      /\ Loaded(tx, FEE) <=> i2 # i0 /\ i2 # i1
  BY OneSlotEach
<1>5. /\ t0.ok \in BOOLEAN /\ (t0.ok <=> same) /\ t0.account = w.trees.account
      /\ t0.pub = w.trees.pub /\ t0.delta = w.deltaTree
  BY DEF SameAccountSameLeaf
<1> HIDE DEF same, t0, t1, t2
<1>6. /\ t1.ok \in BOOLEAN
      /\ t1.ok <=> /\ same /\ t0.account[i0] = O(TAKER).account
                   /\ t0.pub[i0] = O(TAKER).pub /\ t0.delta[i0] = O(TAKER).delta
      /\ Wrote(t1.account, t0.account, i0, N(TAKER).account)
      /\ Wrote(t1.pub, t0.pub, i0, N(TAKER).pub)
      /\ Wrote(t1.delta, t0.delta, i0, N(TAKER).delta)
  BY <1>2, <1>4, <1>5, OneSlot DEF t1
<1>7. /\ t2.ok \in BOOLEAN
      /\ i1 = i0 => t2 = t1
      /\ i1 # i0 =>
           /\ t2.ok <=> /\ t1.ok /\ t1.account[i1] = O(MAKER).account
                        /\ t1.pub[i1] = O(MAKER).pub /\ t1.delta[i1] = O(MAKER).delta
           /\ Wrote(t2.account, t1.account, i1, N(MAKER).account)
           /\ Wrote(t2.pub, t1.pub, i1, N(MAKER).pub)
           /\ Wrote(t2.delta, t1.delta, i1, N(MAKER).delta)
  BY <1>2, <1>4, <1>6, OneSlot DEF t2
<1>8. /\ t.ok \in BOOLEAN
      /\ ~(i2 # i0 /\ i2 # i1) => t = t2
      /\ i2 # i0 /\ i2 # i1 =>
           /\ t.ok <=> /\ t2.ok /\ t2.account[i2] = O(FEE).account
                       /\ t2.pub[i2] = O(FEE).pub /\ t2.delta[i2] = O(FEE).delta
           /\ Wrote(t.account, t2.account, i2, N(FEE).account)
           /\ Wrote(t.pub, t2.pub, i2, N(FEE).pub)
           /\ Wrote(t.delta, t2.delta, i2, N(FEE).delta)
  <2> DEFINE t3 == SlotOpened(tx, w, x, t2, FEE)
  <2>1. t = t3
    BY <1>1
  <2> HIDE DEF t3
  <2>4. FEE \in Slots /\ t2.ok \in BOOLEAN
    BY <1>2, <1>7
  <2>2. CASE ~Loaded(tx, FEE)
    <3>1. t3 = t2
      BY <2>2 DEF t3, SlotOpened
    <3> QED
      BY <1>4, <1>7, <2>1, <2>2, <3>1
  <2>3. CASE Loaded(tx, FEE)
    <3>1. /\ t3.ok \in BOOLEAN
          /\ t3.ok <=> /\ t2.ok /\ t2.account[i2] = O(FEE).account
                       /\ t2.pub[i2] = O(FEE).pub /\ t2.delta[i2] = O(FEE).delta
          /\ Wrote(t3.account, t2.account, i2, N(FEE).account)
          /\ Wrote(t3.pub, t2.pub, i2, N(FEE).pub)
          /\ Wrote(t3.delta, t2.delta, i2, N(FEE).delta)
      BY <2>4, <2>3, OneSlot DEF t3
    <3> QED
      BY <1>4, <2>1, <2>3, <3>1
  <2> QED
    BY <2>2, <2>3
<1>9. /\ Tree(t0.account) /\ Tree(t0.pub)
      /\ Tree(t0.delta)
  BY <1>5 DEF Rooted
<1>10. /\ Tree(t.account)
       /\ t.account[i0] = N(TAKER).account
       /\ (i1 # i0 => t.account[i1] = N(MAKER).account)
       /\ (i2 # i0 /\ i2 # i1 => t.account[i2] = N(FEE).account)
       /\ i1 # i0 => t1.account[i1] = t0.account[i1]
       /\ i2 # i0 /\ i2 # i1 => t2.account[i2] = t0.account[i2]
       /\ \A i \in Accounts : (i # i0 /\ i # i1 /\ i # i2) => t.account[i] = t0.account[i]
  <2> DEFINE a0 == t0.account
             a1 == t1.account
             a2 == t2.account
             a3 == t.account
             m0 == N(TAKER).account
             m1 == N(MAKER).account
             m2 == N(FEE).account
  <2>1. WroteThree(i0, i1, i2, a0, a1, a2, a3, m0, m1, m2)
    <3> HIDE DEF i0, i1, i2, N
    <3> QED
      BY <1>6, <1>7, <1>8, <1>9 DEF WroteThree
  <2> HIDE DEF i0, i1, i2, a0, a1, a2, a3, m0, m1, m2, N
  <2>2. /\ Tree(a3)
        /\ a3[i0] = m0 /\ (i1 # i0 => a3[i1] = m1) /\ (i2 # i0 /\ i2 # i1 => a3[i2] = m2)
        /\ (i1 # i0 => a1[i1] = a0[i1]) /\ (i2 # i0 /\ i2 # i1 => a2[i2] = a0[i2])
        /\ \A i \in Accounts : (i # i0 /\ i # i1 /\ i # i2) => a3[i] = a0[i]
    BY <1>3, <2>1, ThreeWrites
  <2> QED
    BY <2>2 DEF a0, a1, a2, a3, m0, m1, m2
<1>11. /\ Tree(t.pub)
       /\ t.pub[i0] = N(TAKER).pub
       /\ (i1 # i0 => t.pub[i1] = N(MAKER).pub)
       /\ (i2 # i0 /\ i2 # i1 => t.pub[i2] = N(FEE).pub)
       /\ i1 # i0 => t1.pub[i1] = t0.pub[i1]
       /\ i2 # i0 /\ i2 # i1 => t2.pub[i2] = t0.pub[i2]
       /\ \A i \in Accounts : (i # i0 /\ i # i1 /\ i # i2) => t.pub[i] = t0.pub[i]
  <2> DEFINE a0 == t0.pub
             a1 == t1.pub
             a2 == t2.pub
             a3 == t.pub
             m0 == N(TAKER).pub
             m1 == N(MAKER).pub
             m2 == N(FEE).pub
  <2>1. WroteThree(i0, i1, i2, a0, a1, a2, a3, m0, m1, m2)
    <3> HIDE DEF i0, i1, i2, N
    <3> QED
      BY <1>6, <1>7, <1>8, <1>9 DEF WroteThree
  <2> HIDE DEF i0, i1, i2, a0, a1, a2, a3, m0, m1, m2, N
  <2>2. /\ Tree(a3)
        /\ a3[i0] = m0 /\ (i1 # i0 => a3[i1] = m1) /\ (i2 # i0 /\ i2 # i1 => a3[i2] = m2)
        /\ (i1 # i0 => a1[i1] = a0[i1]) /\ (i2 # i0 /\ i2 # i1 => a2[i2] = a0[i2])
        /\ \A i \in Accounts : (i # i0 /\ i # i1 /\ i # i2) => a3[i] = a0[i]
    BY <1>3, <2>1, ThreeWrites
  <2> QED
    BY <2>2 DEF a0, a1, a2, a3, m0, m1, m2
<1>12. /\ Tree(t.delta)
       /\ t.delta[i0] = N(TAKER).delta
       /\ (i1 # i0 => t.delta[i1] = N(MAKER).delta)
       /\ (i2 # i0 /\ i2 # i1 => t.delta[i2] = N(FEE).delta)
       /\ i1 # i0 => t1.delta[i1] = t0.delta[i1]
       /\ i2 # i0 /\ i2 # i1 => t2.delta[i2] = t0.delta[i2]
       /\ \A i \in Accounts : (i # i0 /\ i # i1 /\ i # i2) => t.delta[i] = t0.delta[i]
  <2> DEFINE a0 == t0.delta
             a1 == t1.delta
             a2 == t2.delta
             a3 == t.delta
             m0 == N(TAKER).delta
             m1 == N(MAKER).delta
             m2 == N(FEE).delta
  <2>1. WroteThree(i0, i1, i2, a0, a1, a2, a3, m0, m1, m2)
    <3> HIDE DEF i0, i1, i2, N
    <3> QED
      BY <1>6, <1>7, <1>8, <1>9 DEF WroteThree
  <2> HIDE DEF i0, i1, i2, a0, a1, a2, a3, m0, m1, m2, N
  <2>2. /\ Tree(a3)
        /\ a3[i0] = m0 /\ (i1 # i0 => a3[i1] = m1) /\ (i2 # i0 /\ i2 # i1 => a3[i2] = m2)
        /\ (i1 # i0 => a1[i1] = a0[i1]) /\ (i2 # i0 /\ i2 # i1 => a2[i2] = a0[i2])
        /\ \A i \in Accounts : (i # i0 /\ i # i1 /\ i # i2) => a3[i] = a0[i]
    BY <1>3, <2>1, ThreeWrites
  <2> QED
    BY <2>2 DEF a0, a1, a2, a3, m0, m1, m2
<1> DEFINE st(s) == /\ w.trees.account[tx.index[s]] = O(s).account
                    /\ w.trees.pub[tx.index[s]] = O(s).pub
                    /\ w.deltaTree[tx.index[s]] = O(s).delta
<1>13. t.ok <=> same /\ st(TAKER) /\ (i1 # i0 => st(MAKER)) /\ (i2 # i0 /\ i2 # i1 => st(FEE))
  <2> HIDE DEF O
  <2> QED
    BY <1>5, <1>6, <1>7, <1>8, <1>10, <1>11, <1>12
<1>14. \A s \in Slots : Stands(tx, w, s) <=> st(s)
  BY DEF Stands
<1> HIDE DEF st, N, O
<1>15. t.ok <=> same /\ \A s \in Slots : Loaded(tx, s) => st(s)
  BY <1>2, <1>4, <1>13
<1> QED
  BY <1>2, <1>4, <1>5, <1>10, <1>11, <1>12, <1>14, <1>15 DEF same, N, SlotsAgree

-----------------------------------------------------------------------------
(* The leaves a transaction opens are those of the state.                  *)
TrueAccount(tx, L, s) == LoadedAccount(L.accounts[tx.index[s]])
TrueDelta(tx, L, s)   == LoadedDelta(L.deltas[tx.index[s]])

(* The roots of the witness are the state's.                               *)
TrueRoots(w, L) ==
    /\ w.trees.account = Trees(L).account /\ w.trees.pub = Trees(L).pub
    /\ w.deltaTree = DeltaTree(L)

(* What stands in the state's trees.                                       *)
LEMMA StateLeaves ==
  ASSUME NEW L, StateInv(L), NEW i \in Accounts
  PROVE  LET a == LoadedAccount(L.accounts[i]) IN
         /\ Trees(L).account[i] = HashFromPartial(a, i, PartialOf(a)).account
         /\ Trees(L).pub[i] = HashFromPartial(a, i, PartialOf(a)).pub
         /\ DeltaTree(L)[i] = DeltaHash(LoadedDelta(L.deltas[i]))
<1>1. L.accounts[i] \in AccountSet
  BY DEF StateInv, LedgerSet
<1>2. LoadedAccount(L.accounts[i]).positions = L.accounts[i].positions
  BY <1>1, LoadedType
<1>3. Leaf(L, i) = HashFromPartial(LoadedAccount(L.accounts[i]), i, PartialOf(LoadedAccount(L.accounts[i])))
  BY <1>2 DEF Leaf, AccountHash, PartialOf
<1>4. /\ Trees(L).account[i] = Leaf(L, i).account /\ Trees(L).pub[i] = Leaf(L, i).pub
      /\ DeltaTree(L)[i] = DeltaHash(LoadedDelta(L.deltas[i]))
  BY DEF Trees, DeltaTree
<1> QED
  BY <1>3, <1>4

(* The trees of a state are functions of the accounts.                     *)
LEMMA StateRooted ==
  ASSUME NEW L, NEW w, TrueRoots(w, L)
  PROVE  Rooted(w)
<1>1. Tree(Trees(L).account) /\ Tree(Trees(L).pub) /\ Tree(DeltaTree(L))
  BY DEF Tree, Trees, DeltaTree
<1> QED
  BY <1>1 DEF TrueRoots, Rooted

(* Every slot of the heavy circuit, opened or not, holds the account and   *)
(* the changes of the state.                                               *)
LEMMA SlotsAreTrue ==
  ASSUME NEW tx \in Txs, NEW w, NEW L, Brings(tx, w), StateInv(L), TrueRoots(w, L),
         SlotsAgree(tx, w),
         \A s \in Slots : Loaded(tx, s) => Stands(tx, w, s)
  PROVE  \A s \in Slots : w.accounts[s] = TrueAccount(tx, L, s) /\ w.deltas[s] = TrueDelta(tx, L, s)
<1> DEFINE O(s) == OldLeaves(tx, w, s)
           T(s) == /\ O(s).account = Trees(L).account[tx.index[s]]
                   /\ O(s).pub = Trees(L).pub[tx.index[s]]
                   /\ O(s).delta = DeltaTree(L)[tx.index[s]]
<1>1. \A s \in Slots : Loaded(tx, s) => T(s)
  BY DEF Stands, TrueRoots
<1>2. Slots = {TAKER, MAKER, FEE}
  BY Sizes
<1>3. /\ tx.index[MAKER] = tx.index[TAKER] => O(TAKER) = O(MAKER)
      /\ tx.index[FEE] = tx.index[TAKER] => O(TAKER) = O(FEE)
      /\ tx.index[FEE] = tx.index[MAKER] => O(MAKER) = O(FEE)
  BY <1>2 DEF SlotsAgree, SameAccountSameLeaf, is_sender_receiver_different, fee_account_is
<1>4. ASSUME NEW s \in Slots PROVE T(s)
  <2> HIDE DEF O
  <2>1. T(TAKER)
    BY <1>1, <1>2, OneSlotEach
  <2>2. T(MAKER)
    BY <1>1, <1>2, <1>3, <2>1, OneSlotEach
  <2>3. T(FEE)
    BY <1>1, <1>2, <1>3, <2>1, <2>2, OneSlotEach
  <2> QED
    BY <1>2, <2>1, <2>2, <2>3
<1> TAKE s \in Slots
<1> DEFINE i == tx.index[s]
           a == w.accounts[s]
           b == TrueAccount(tx, L, s)
<1>5. i \in Accounts
  BY TxIs
<1>6. /\ O(s).account = HashFromPartial(a, i, PartialOf(a)).account
      /\ O(s).pub = HashFromPartial(a, i, PartialOf(a)).pub
      /\ O(s).delta = DeltaHash(w.deltas[s])
  BY DEF OldLeaves, OldHash
<1>7. /\ HashFromPartial(a, i, PartialOf(a)).account = HashFromPartial(b, i, PartialOf(b)).account
      /\ HashFromPartial(a, i, PartialOf(a)).pub = HashFromPartial(b, i, PartialOf(b)).pub
      /\ DeltaHash(w.deltas[s]) = DeltaHash(TrueDelta(tx, L, s))
  BY <1>4, <1>5, <1>6, StateLeaves DEF TrueAccount, TrueDelta
<1>8. Proper(a, i) /\ Proper(b, i)
  BY <1>5, LoadedProper DEF Brings, TrueAccount
<1>9. Agree(a, b)
  BY <1>7, <1>8, AccountLeafTells
<1>10. a = b
  BY <1>7, <1>8, <1>9, PublicLeafTells
<1>11. w.deltas[s] \in LoadedDeltaSet /\ TrueDelta(tx, L, s) \in LoadedDeltaSet
  <2>1. L.deltas[i] \in DeltaSet
    BY <1>5 DEF StateInv, LedgerSet
  <2> QED
    BY <2>1, LoadedDeltaType DEF Brings, TrueDelta
<1>12. w.deltas[s] = TrueDelta(tx, L, s)
  BY <1>7, <1>11, DeltaLeafTells
<1> QED
  BY <1>10, <1>12

(* The light circuit's only slot holds the account of the state, but for   *)
(* its public sums.                                                        *)
LEMMA LightSlotIsTrue ==
  ASSUME NEW tx \in Txs, NEW w, NEW L, Brings(tx, w), StateInv(L), TrueRoots(w, L),
         w.trees.account[tx.index[TAKER]] = OldLeaves(tx, w, TAKER).account
  PROVE  Agree(w.accounts[TAKER], TrueAccount(tx, L, TAKER))
<1> DEFINE i == tx.index[TAKER]
           a == w.accounts[TAKER]
           b == TrueAccount(tx, L, TAKER)
<1>1. TAKER \in Slots /\ i \in Accounts
  BY Sizes, TxIs
<1>2. HashFromPartial(a, i, PartialOf(a)).account = HashFromPartial(b, i, PartialOf(b)).account
  <2>1. OldLeaves(tx, w, TAKER).account = HashFromPartial(a, i, PartialOf(a)).account
    BY DEF OldLeaves, OldHash
  <2> QED
    BY <1>1, <2>1, StateLeaves DEF TrueAccount, TrueRoots
<1>3. Proper(a, i) /\ Proper(b, i)
  BY <1>1, LoadedProper DEF Brings, TrueAccount
<1> QED
  BY <1>2, <1>3, AccountLeafTells

-----------------------------------------------------------------------------
(* The steps of the circuit, one after the other, on its copy x of what    *)
(* the witness brings: what each of them changes and what it demands.      *)
CopyFields ==
    {"ok", "accounts", "deltas", "assets", "sums", "assetDeltas", "positionDeltas", "buckets",
     "key", "order", "market", "resting", "details", "lists", "stack"}
DeltaFields == {"l1", "shares", "positions", "assets"}

Copy(x) ==
    /\ DOMAIN x = CopyFields /\ x.ok \in BOOLEAN
    /\ DOMAIN x.accounts = Slots /\ \A s \in Slots : DOMAIN x.accounts[s] = AccountFields
    /\ DOMAIN x.deltas = Slots /\ \A s \in Slots : DOMAIN x.deltas[s] = DeltaFields

(* What no step touches again.                                             *)
Kept(y, x) ==
    /\ y.assets = x.assets /\ y.sums = x.sums /\ y.assetDeltas = x.assetDeltas
    /\ y.positionDeltas = x.positionDeltas /\ y.buckets = x.buckets /\ y.key = x.key
    /\ y.order = x.order /\ y.market = x.market /\ y.resting = x.resting
    /\ y.details = x.details /\ y.lists = x.lists /\ y.stack = x.stack

(* Two records agree on all fields of F but g.                             *)
SameBut(F, G, a, b) == \A f \in F \ G : a[f] = b[f]

(* The fields outside the set G are those of the other record.             *)
LEMMA SameAccountFields ==
  ASSUME NEW G, NEW a, NEW b, SameBut(AccountFields, G, a, b)
  PROVE  /\ ("l1" \notin G => a.l1 = b.l1) /\ ("shares" \notin G => a.shares = b.shares)
         /\ ("fixed" \notin G => a.fixed = b.fixed) /\ ("open" \notin G => a.open = b.open)
         /\ ("positions" \notin G => a.positions = b.positions)
         /\ ("keys" \notin G => a.keys = b.keys) /\ ("orders" \notin G => a.orders = b.orders)
         /\ ("assets" \notin G => a.assets = b.assets)
         /\ ("aggregated" \notin G => a.aggregated = b.aggregated)
BY DEF SameBut, AccountFields

(* The same for changes.                                                   *)
LEMMA SameDeltaFields ==
  ASSUME NEW G, NEW a, NEW b, SameBut(DeltaFields, G, a, b)
  PROVE  /\ ("l1" \notin G => a.l1 = b.l1) /\ ("shares" \notin G => a.shares = b.shares)
         /\ ("positions" \notin G => a.positions = b.positions)
         /\ ("assets" \notin G => a.assets = b.assets)
BY DEF SameBut, DeltaFields

(* The fields of an account that are not trees.                            *)
LEMMA NewAccountFields ==
  ASSUME NEW tx, NEW a, DOMAIN a = AccountFields, NEW s, NEW b, b = NewAccount(tx, a, s)
  PROVE  /\ DOMAIN b = AccountFields
         /\ SameBut(AccountFields, {"l1", "shares", "fixed", "open"}, b, a)
         /\ b.l1 = IF tx.kind = "open" /\ s = MAKER THEN 1 ELSE a.l1
         /\ b.shares = IF tx.kind = "burn" /\ s = TAKER THEN a.shares + 1 ELSE a.shares
         /\ b.fixed = IF tx.kind = "burn" /\ s = MAKER THEN a.fixed + 1 ELSE a.fixed
         /\ b.open = IF UsesOrder(tx) /\ s = OrderSlot(tx) THEN a.open + 1 ELSE a.open
<1>1. /\ DOMAIN b = AccountFields
      /\ b.positions = a.positions /\ b.keys = a.keys /\ b.orders = a.orders
      /\ b.assets = a.assets /\ b.aggregated = a.aggregated
  BY DEF NewAccount, AccountFields
<1>2. SameBut(AccountFields, {"l1", "shares", "fixed", "open"}, b, a)
  BY <1>1 DEF SameBut, AccountFields
<1>3. /\ b.l1 = IF tx.kind = "open" /\ s = MAKER THEN 1 ELSE a.l1
      /\ b.shares = IF tx.kind = "burn" /\ s = TAKER THEN a.shares + 1 ELSE a.shares
  BY DEF NewAccount, AccountFields
<1>4. /\ b.fixed = IF tx.kind = "burn" /\ s = MAKER THEN a.fixed + 1 ELSE a.fixed
      /\ b.open = IF UsesOrder(tx) /\ s = OrderSlot(tx) THEN a.open + 1 ELSE a.open
  BY DEF NewAccount, AccountFields
<1> QED
  BY <1>1, <1>2, <1>3, <1>4

(* What the transaction makes of the accounts and of their changes.        *)
LEMMA ApplyStep ==
  ASSUME NEW tx \in Txs, NEW w, Brings(tx, w), NEW x, x = apply_transaction(tx, w)
  PROVE  /\ Copy(x)
         /\ x.ok <=> validate_asset_indices(tx) /\ verify_transactions(tx, w)
         /\ \A s \in Slots :
              /\ x.accounts[s] = NewAccount(tx, w.accounts[s], s)
              /\ SameBut(AccountFields, {"l1", "shares", "fixed", "open"}, x.accounts[s], w.accounts[s])
              /\ SameBut(DeltaFields, {"l1", "shares"}, x.deltas[s], w.deltas[s])
              /\ x.deltas[s].l1 = IF s # FEE /\ is_new_account(tx, w, s)
                                  THEN x.accounts[s].l1 ELSE w.deltas[s].l1
              /\ x.deltas[s].shares = IF tx.kind = "burn" /\ s = TAKER
                                      THEN w.deltas[s].shares + 1 ELSE w.deltas[s].shares
<1>1. /\ DOMAIN x = CopyFields
      /\ x.accounts = [s \in Slots |-> NewAccount(tx, w.accounts[s], s)]
  BY DEF apply_transaction, CopyFields
<1>2. \A s \in Slots : DOMAIN w.accounts[s] = AccountFields /\ DOMAIN w.deltas[s] = DeltaFields
  BY DEF Brings, Proper, LoadedSet, LoadedDeltaSet, AccountFields, DeltaFields
<1>3. ASSUME NEW s \in Slots
      PROVE  /\ DOMAIN x.accounts[s] = AccountFields
             /\ SameBut(AccountFields, {"l1", "shares", "fixed", "open"}, x.accounts[s], w.accounts[s])
  <2>1. x.accounts[s] = NewAccount(tx, w.accounts[s], s) /\ DOMAIN w.accounts[s] = AccountFields
    BY <1>1, <1>2
  <2> QED
    BY <2>1, NewAccountFields
<1>4. x.deltas = [s \in Slots |->
         [w.deltas[s] EXCEPT
            !.l1 = IF s # FEE /\ is_new_account(tx, w, s)
                   THEN NewAccount(tx, w.accounts[s], s).l1 ELSE @,
            !.shares = IF tx.kind = "burn" /\ s = TAKER THEN @ + 1 ELSE @]]
  BY DEF apply_transaction
<1>5. ASSUME NEW s \in Slots
      PROVE  /\ DOMAIN x.deltas[s] = DeltaFields
             /\ SameBut(DeltaFields, {"l1", "shares"}, x.deltas[s], w.deltas[s])
             /\ x.deltas[s].l1 = IF s # FEE /\ is_new_account(tx, w, s)
                                 THEN NewAccount(tx, w.accounts[s], s).l1 ELSE w.deltas[s].l1
             /\ x.deltas[s].shares = IF tx.kind = "burn" /\ s = TAKER
                                     THEN w.deltas[s].shares + 1 ELSE w.deltas[s].shares
  <2> DEFINE d == w.deltas[s]
             l == IF s # FEE /\ is_new_account(tx, w, s)
                   THEN NewAccount(tx, w.accounts[s], s).l1 ELSE d.l1
             h == IF tx.kind = "burn" /\ s = TAKER THEN d.shares + 1 ELSE d.shares
  <2>1. DOMAIN d = DeltaFields
    BY <1>2
  <2>2. x.deltas[s] = [d EXCEPT !.l1 = l, !.shares = h]
    BY <1>4
  <2> HIDE DEF d, l, h
  <2>3. /\ DOMAIN x.deltas[s] = DeltaFields /\ x.deltas[s].l1 = l /\ x.deltas[s].shares = h
        /\ x.deltas[s].positions = d.positions /\ x.deltas[s].assets = d.assets
    BY <2>1, <2>2 DEF DeltaFields
  <2>4. SameBut(DeltaFields, {"l1", "shares"}, x.deltas[s], d)
    BY <2>3 DEF SameBut, DeltaFields
  <2> QED
    BY <2>3, <2>4 DEF d, l, h
<1>6. x.ok \in BOOLEAN /\ (x.ok <=> validate_asset_indices(tx) /\ verify_transactions(tx, w))
  BY DEF apply_transaction
<1> QED
  <2>1. DOMAIN x.accounts = Slots /\ DOMAIN x.deltas = Slots
    BY <1>1, <1>4
  <2>2. Copy(x)
    BY <1>1, <1>3, <1>5, <1>6, <2>1 DEF Copy
  <2>3. \A s \in Slots : x.accounts[s] = NewAccount(tx, w.accounts[s], s)
    BY <1>1
  <2> QED
    BY <1>3, <1>5, <1>6, <2>2, <2>3

(* The leaves of changes of positions.                                     *)
PositionsOpen(tx, w, x) ==
    \A s \in {TAKER, MAKER} : Loaded(tx, s) =>
        w.deltas[s].positions[DeltaMarket(tx, w, x)] = LeafHash(w.positionDeltas[s], 0)

NewPositions(tx, w, x, s) ==
    [w.deltas[s].positions EXCEPT ![DeltaMarket(tx, w, x)] = LeafHash(x.positionDeltas[s], 0)]

(* The step rewrites a leaf of the changes of both traders.                *)
LEMMA PositionStep ==
  ASSUME NEW tx, NEW w, NEW x, Copy(x), NEW y, y = verify_position_delta_merkle_proofs(tx, w, x)
  PROVE  /\ Copy(y) /\ Kept(y, x) /\ y.accounts = x.accounts
         /\ y.ok <=> x.ok /\ PositionsOpen(tx, w, x)
         /\ \A s \in Slots :
              /\ SameBut(DeltaFields, {"positions"}, y.deltas[s], x.deltas[s])
              /\ y.deltas[s].positions =
                   IF s # FEE /\ Loaded(tx, s)
                   THEN NewPositions(tx, w, x, s)
                   ELSE x.deltas[s].positions
<1>1. /\ DOMAIN y = CopyFields /\ Kept(y, x) /\ y.accounts = x.accounts
      /\ y.deltas = [s \in Slots |->
                    IF s # FEE /\ Loaded(tx, s)
                    THEN [x.deltas[s] EXCEPT !.positions =
                            recalculate_root(w.deltas[s].positions,
                                LeafHash(x.positionDeltas[s], 0), DeltaMarket(tx, w, x))]
                    ELSE x.deltas[s]]
  BY DEF Copy, CopyFields, Kept, verify_position_delta_merkle_proofs
<1>2. y.ok \in BOOLEAN /\ (y.ok <=> x.ok /\ PositionsOpen(tx, w, x))
  BY DEF Copy, CopyFields, PositionsOpen, verify_position_delta_merkle_proofs,
         conditional_verify_merkle_proof, verify_merkle_proof
<1>3. ASSUME NEW s \in Slots
      PROVE  /\ DOMAIN y.deltas[s] = DeltaFields
             /\ SameBut(DeltaFields, {"positions"}, y.deltas[s], x.deltas[s])
             /\ y.deltas[s].positions =
                   IF s # FEE /\ Loaded(tx, s)
                   THEN NewPositions(tx, w, x, s)
                   ELSE x.deltas[s].positions
  <2>1. DOMAIN x.deltas[s] = DeltaFields
    BY DEF Copy
  <2>2. CASE s # FEE /\ Loaded(tx, s)
    BY <1>1, <2>1, <2>2 DEF SameBut, DeltaFields, recalculate_root, NewPositions
  <2>3. CASE ~(s # FEE /\ Loaded(tx, s))
    BY <1>1, <2>1, <2>3 DEF SameBut, DeltaFields
  <2> QED
    BY <2>2, <2>3
<1> QED
  BY <1>1, <1>2, <1>3 DEF Copy

(* The leaf of the key that signs.                                         *)
KeyOpens(tx, w) == w.accounts[KeySlot(tx)].keys[0] = LeafHash(w.key, 0)

NewKeys(w, x, s) == [w.accounts[s].keys EXCEPT ![0] = LeafHash(x.key, 0)]

(* The step rewrites the key of one slot.                                  *)
LEMMA KeyStep ==
  ASSUME NEW tx, NEW w, NEW x, Copy(x), NEW y, y = verify_api_key_merkle_proof(tx, w, x)
  PROVE  /\ Copy(y) /\ Kept(y, x) /\ y.deltas = x.deltas
         /\ y.ok <=> x.ok /\ KeyOpens(tx, w)
         /\ \A s \in Slots :
              /\ SameBut(AccountFields, {"keys"}, y.accounts[s], x.accounts[s])
              /\ y.accounts[s].keys = IF s = KeySlot(tx)
                                      THEN NewKeys(w, x, s)
                                      ELSE x.accounts[s].keys
<1>1. /\ DOMAIN y = CopyFields /\ Kept(y, x) /\ y.deltas = x.deltas
  BY DEF Copy, CopyFields, Kept, verify_api_key_merkle_proof
<1>2. y.ok \in BOOLEAN /\ (y.ok <=> x.ok /\ KeyOpens(tx, w))
  BY DEF Copy, CopyFields, KeyOpens, verify_api_key_merkle_proof, verify_merkle_proof
<1>3. KeySlot(tx) \in Slots
  BY Sizes DEF KeySlot
<1>4. /\ DOMAIN y.accounts = DOMAIN x.accounts
      /\ \A s \in Slots : s # KeySlot(tx) => y.accounts[s] = x.accounts[s]
      /\ y.accounts[KeySlot(tx)] = [x.accounts[KeySlot(tx)] EXCEPT !.keys =
                 recalculate_root(w.accounts[KeySlot(tx)].keys, LeafHash(x.key, 0), 0)]
  BY <1>3 DEF Copy, CopyFields, verify_api_key_merkle_proof
<1>5. ASSUME NEW s \in Slots
      PROVE  /\ DOMAIN y.accounts[s] = AccountFields
             /\ SameBut(AccountFields, {"keys"}, y.accounts[s], x.accounts[s])
             /\ y.accounts[s].keys = IF s = KeySlot(tx)
                                      THEN NewKeys(w, x, s)
                                      ELSE x.accounts[s].keys
  <2>1. DOMAIN x.accounts[s] = AccountFields
    BY DEF Copy
  <2>2. CASE s = KeySlot(tx)
    BY <1>4, <2>1, <2>2 DEF SameBut, AccountFields, recalculate_root, NewKeys
  <2>3. CASE s # KeySlot(tx)
    BY <1>4, <2>1, <2>3 DEF SameBut, AccountFields
  <2> QED
    BY <2>2, <2>3
<1> QED
  BY <1>1, <1>2, <1>4, <1>5 DEF Copy

(* The two leaves of an order.                                             *)
OrdersOpen(w, x, s) ==
    /\ w.order.index_0 = NIL_ORDER \/ w.order.index_0 > MAX_CLIENT_ORDER
    /\ w.order.index_1 <= MAX_CLIENT_ORDER
    /\ w.accounts[s].orders[w.order.index_0] = LeafHash(w.order.live, 0)
    /\ AfterOrderLeaf(w, x, s)[w.order.index_1] = ClientLeaf(w.order)

NewOrders(w, x, s) == [AfterOrderLeaf(w, x, s) EXCEPT ![w.order.index_1] = ClientLeaf(x.order)]

(* The step rewrites the orders of one slot.                               *)
LEMMA OrderStep ==
  ASSUME NEW tx, NEW w, NEW x, Copy(x), NEW y, y = verify_account_orders_merkle_proof(tx, w, x)
  PROVE  /\ Copy(y) /\ Kept(y, x) /\ y.deltas = x.deltas
         /\ y.ok <=> x.ok /\ OrdersOpen(w, x, OrdersOf(tx, w, x))
         /\ \A s \in Slots :
              /\ SameBut(AccountFields, {"orders"}, y.accounts[s], x.accounts[s])
              /\ y.accounts[s].orders = IF s = OrdersOf(tx, w, x) THEN NewOrders(w, x, s)
                                        ELSE x.accounts[s].orders
<1> DEFINE k == OrdersOf(tx, w, x)
           good == /\ x.ok
                   /\ w.order.index_0 = NIL_ORDER \/ w.order.index_0 > MAX_CLIENT_ORDER
                   /\ w.order.index_1 <= MAX_CLIENT_ORDER
                   /\ verify_merkle_proof(w.accounts[k].orders, LeafHash(w.order.live, 0),
                                          w.order.index_0)
                   /\ verify_merkle_proof(AfterOrderLeaf(w, x, k), ClientLeaf(w.order),
                                          w.order.index_1)
           new == recalculate_root(AfterOrderLeaf(w, x, k), ClientLeaf(x.order), w.order.index_1)
<1>1. y = [x EXCEPT !.ok = good, !.accounts[k].orders = new]
  BY Zenon DEF verify_account_orders_merkle_proof
<1>2. good \in BOOLEAN /\ (good <=> x.ok /\ OrdersOpen(w, x, k))
  <2> HIDE DEF k
  <2> QED
    BY Zenon DEF OrdersOpen, verify_merkle_proof
<1>3. k \in Slots
  BY Sizes DEF OrdersOf
<1>4. new = NewOrders(w, x, k)
  BY DEF NewOrders, recalculate_root
<1> HIDE DEF k, good, new
<1>5. /\ DOMAIN y = CopyFields /\ Kept(y, x) /\ y.deltas = x.deltas /\ y.ok = good
  BY <1>1 DEF Copy, CopyFields, Kept
<1>6. /\ DOMAIN y.accounts = DOMAIN x.accounts
      /\ \A s \in Slots : s # k => y.accounts[s] = x.accounts[s]
      /\ y.accounts[k] = [x.accounts[k] EXCEPT !.orders = new]
  BY <1>1, <1>3 DEF Copy, CopyFields
<1>7. ASSUME NEW s \in Slots
      PROVE  /\ DOMAIN y.accounts[s] = AccountFields
             /\ SameBut(AccountFields, {"orders"}, y.accounts[s], x.accounts[s])
             /\ y.accounts[s].orders = IF s = k THEN NewOrders(w, x, s) ELSE x.accounts[s].orders
  <2>1. DOMAIN x.accounts[s] = AccountFields
    BY DEF Copy
  <2>2. CASE s = k
    BY <1>4, <1>6, <2>1, <2>2 DEF SameBut, AccountFields
  <2>3. CASE s # k
    BY <1>6, <2>1, <2>3 DEF SameBut, AccountFields
  <2> QED
    BY <2>2, <2>3
<1> QED
  BY <1>2, <1>5, <1>6, <1>7 DEF Copy, k

(* The leaves of two assets, in three trees of each opened account.        *)
OwnPaths(tx, w, x, s)   == AssetPaths(x.accounts[s].assets, tx, w.assets[s], x.assets[s], NoAsset)
SumPaths(tx, w, x, s)   == AssetPaths(x.accounts[s].aggregated, tx, w.sums[s], x.sums[s], 0)
DeltaPaths(tx, w, x, s) == AssetPaths(x.deltas[s].assets, tx, w.assetDeltas[s], x.assetDeltas[s], 0)

AssetsOpen(tx, w, x) ==
    /\ \A s \in Slots : Loaded(tx, s) =>
         OwnPaths(tx, w, x, s).ok /\ SumPaths(tx, w, x, s).ok /\ DeltaPaths(tx, w, x, s).ok
    /\ SameAccountSameLeaf(tx, w.assets)
    /\ SameAccountSameLeaf(tx, w.sums)
    /\ SameAccountSameLeaf(tx, w.assetDeltas)

(* The step rewrites the assets of every opened slot.                      *)
LEMMA AssetStep ==
  ASSUME NEW tx, NEW w, NEW x, Copy(x), NEW y, y = verify_assets_merkle_proofs(tx, w, x)
  PROVE  /\ Copy(y) /\ Kept(y, x)
         /\ y.ok <=> x.ok /\ AssetsOpen(tx, w, x)
         /\ \A s \in Slots :
              /\ SameBut(AccountFields, {"assets", "aggregated"}, y.accounts[s], x.accounts[s])
              /\ SameBut(DeltaFields, {"assets"}, y.deltas[s], x.deltas[s])
              /\ Loaded(tx, s) => /\ y.accounts[s].assets = OwnPaths(tx, w, x, s).root
                                  /\ y.accounts[s].aggregated = SumPaths(tx, w, x, s).root
                                  /\ y.deltas[s].assets = DeltaPaths(tx, w, x, s).root
<1> DEFINE good == /\ x.ok
                   /\ \A s \in Slots : Loaded(tx, s) =>
                        OwnPaths(tx, w, x, s).ok /\ SumPaths(tx, w, x, s).ok /\ DeltaPaths(tx, w, x, s).ok
                   /\ SameAccountSameLeaf(tx, w.assets)
                   /\ SameAccountSameLeaf(tx, w.sums)
                   /\ SameAccountSameLeaf(tx, w.assetDeltas)
           acc == [s \in Slots |-> IF Loaded(tx, s)
                           THEN [x.accounts[s] EXCEPT !.assets = OwnPaths(tx, w, x, s).root,
                                                      !.aggregated = SumPaths(tx, w, x, s).root]
                           ELSE x.accounts[s]]
           del == [s \in Slots |-> IF Loaded(tx, s)
                           THEN [x.deltas[s] EXCEPT !.assets = DeltaPaths(tx, w, x, s).root]
                           ELSE x.deltas[s]]
<1>1. y = [x EXCEPT !.ok = good, !.accounts = acc, !.deltas = del]
  BY Zenon DEF verify_assets_merkle_proofs, OwnPaths, SumPaths, DeltaPaths
<1>2. good \in BOOLEAN /\ (good <=> x.ok /\ AssetsOpen(tx, w, x))
  BY DEF AssetsOpen
<1>3. ASSUME NEW s \in Slots
      PROVE  /\ DOMAIN acc[s] = AccountFields
             /\ SameBut(AccountFields, {"assets", "aggregated"}, acc[s], x.accounts[s])
             /\ Loaded(tx, s) => /\ acc[s].assets = OwnPaths(tx, w, x, s).root
                                 /\ acc[s].aggregated = SumPaths(tx, w, x, s).root
  <2> DEFINE r == OwnPaths(tx, w, x, s).root
             g == SumPaths(tx, w, x, s).root
  <2>1. DOMAIN x.accounts[s] = AccountFields
    BY DEF Copy
  <2>2. CASE Loaded(tx, s)
    <3>1. acc[s] = [x.accounts[s] EXCEPT !.assets = r, !.aggregated = g]
      BY <2>2
    <3> HIDE DEF acc, r, g
    <3>2. /\ DOMAIN acc[s] = AccountFields /\ acc[s].assets = r /\ acc[s].aggregated = g
          /\ acc[s].l1 = x.accounts[s].l1 /\ acc[s].shares = x.accounts[s].shares
          /\ acc[s].fixed = x.accounts[s].fixed /\ acc[s].positions = x.accounts[s].positions
          /\ acc[s].open = x.accounts[s].open /\ acc[s].keys = x.accounts[s].keys
          /\ acc[s].orders = x.accounts[s].orders
      BY <2>1, <3>1 DEF AccountFields
    <3> QED
      BY <3>2 DEF SameBut, AccountFields, r, g
  <2>3. CASE ~Loaded(tx, s)
    <3>1. acc[s] = x.accounts[s]
      BY <2>3
    <3> HIDE DEF acc
    <3> QED
      BY <2>1, <2>3, <3>1 DEF SameBut
  <2> QED
    BY <2>2, <2>3
<1>4. ASSUME NEW s \in Slots
      PROVE  /\ DOMAIN del[s] = DeltaFields
             /\ SameBut(DeltaFields, {"assets"}, del[s], x.deltas[s])
             /\ Loaded(tx, s) => del[s].assets = DeltaPaths(tx, w, x, s).root
  <2> DEFINE r == DeltaPaths(tx, w, x, s).root
  <2>1. DOMAIN x.deltas[s] = DeltaFields
    BY DEF Copy
  <2>2. CASE Loaded(tx, s)
    <3>1. del[s] = [x.deltas[s] EXCEPT !.assets = r]
      BY <2>2
    <3> HIDE DEF del, r
    <3> QED
      BY <2>1, <3>1 DEF SameBut, DeltaFields, r
  <2>3. CASE ~Loaded(tx, s)
    <3>1. del[s] = x.deltas[s]
      BY <2>3
    <3> HIDE DEF del
    <3> QED
      BY <2>1, <2>3, <3>1 DEF SameBut
  <2> QED
    BY <2>2, <2>3
<1>5. DOMAIN acc = Slots /\ DOMAIN del = Slots
  OBVIOUS
<1> HIDE DEF good, acc, del
<1>6. /\ DOMAIN y = CopyFields /\ Kept(y, x) /\ y.ok = good /\ y.accounts = acc /\ y.deltas = del
  BY <1>1 DEF Copy, CopyFields, Kept
<1> QED
  BY <1>2, <1>3, <1>4, <1>5, <1>6 DEF Copy

(* In the light circuit the key and the orders go the same way, and the    *)
(* assets of the only slot in one tree.                                    *)
LEMMA LightSteps ==
  ASSUME NEW tx, NEW w, NEW x, Copy(x)
  PROVE  /\ KeySlot(tx) = TAKER =>
              verify_light_api_key_merkle_proof(w, x) = verify_api_key_merkle_proof(tx, w, x)
         /\ OrdersOf(tx, w, x) = TAKER =>
              verify_light_account_orders_merkle_proof(w, x) = verify_account_orders_merkle_proof(tx, w, x)
<1>1. ASSUME KeySlot(tx) = TAKER
      PROVE  verify_light_api_key_merkle_proof(w, x) = verify_api_key_merkle_proof(tx, w, x)
  BY <1>1, Zenon DEF verify_light_api_key_merkle_proof, verify_api_key_merkle_proof
<1>2. ASSUME OrdersOf(tx, w, x) = TAKER
      PROVE  verify_light_account_orders_merkle_proof(w, x) = verify_account_orders_merkle_proof(tx, w, x)
  BY <1>2, Zenon DEF verify_light_account_orders_merkle_proof, verify_account_orders_merkle_proof
<1> QED
  BY <1>1, <1>2

(* The assets of the light circuit's slot.                                 *)
LEMMA LightAssetStep ==
  ASSUME NEW tx, NEW w, NEW x, Copy(x), NEW y, y = verify_light_assets_merkle_proofs(tx, w, x)
  PROVE  /\ Copy(y) /\ Kept(y, x) /\ y.deltas = x.deltas
         /\ y.ok <=> x.ok /\ OwnPaths(tx, w, x, TAKER).ok
         /\ SameBut(AccountFields, {"assets"}, y.accounts[TAKER], x.accounts[TAKER])
         /\ y.accounts[TAKER].assets = OwnPaths(tx, w, x, TAKER).root
<1> DEFINE good == x.ok /\ OwnPaths(tx, w, x, TAKER).ok
           r == OwnPaths(tx, w, x, TAKER).root
<1>1. y = [x EXCEPT !.ok = good, !.accounts[TAKER].assets = r]
  BY Zenon DEF verify_light_assets_merkle_proofs, OwnPaths
<1>2. OwnPaths(tx, w, x, TAKER).ok \in BOOLEAN
  BY DEF OwnPaths, AssetPaths
<1>3. good \in BOOLEAN /\ (good <=> x.ok /\ OwnPaths(tx, w, x, TAKER).ok)
  BY <1>2
<1>4. TAKER \in Slots
  BY Sizes
<1> HIDE DEF good, r
<1>5. /\ DOMAIN y = CopyFields /\ Kept(y, x) /\ y.deltas = x.deltas /\ y.ok = good
  BY <1>1 DEF Copy, CopyFields, Kept
<1>6. /\ DOMAIN y.accounts = DOMAIN x.accounts
      /\ \A s \in Slots : s # TAKER => y.accounts[s] = x.accounts[s]
      /\ y.accounts[TAKER] = [x.accounts[TAKER] EXCEPT !.assets = r]
  BY <1>1, <1>4 DEF Copy, CopyFields
<1>7. /\ DOMAIN y.accounts[TAKER] = AccountFields
      /\ SameBut(AccountFields, {"assets"}, y.accounts[TAKER], x.accounts[TAKER])
      /\ y.accounts[TAKER].assets = r
  <2>1. DOMAIN x.accounts[TAKER] = AccountFields
    BY <1>4 DEF Copy
  <2> QED
    BY <1>6, <2>1 DEF SameBut, AccountFields
<1>8. \A s \in Slots : DOMAIN y.accounts[s] = AccountFields
  BY <1>6, <1>7 DEF Copy
<1> QED
  BY <1>3, <1>5, <1>6, <1>7, <1>8 DEF Copy, r

-----------------------------------------------------------------------------
(* What the steps have made of the copy in the end.                        *)
Applied(tx, w) == apply_transaction(tx, w)

OwnTree(tx, w, s) == AssetPaths(w.accounts[s].assets, tx, w.assets[s], Applied(tx, w).assets[s], NoAsset)
SumTree(tx, w, s) == AssetPaths(w.accounts[s].aggregated, tx, w.sums[s], Applied(tx, w).sums[s], 0)
ChangeTree(tx, w, s) ==
    AssetPaths(w.deltas[s].assets, tx, w.assetDeltas[s], Applied(tx, w).assetDeltas[s], 0)

(* An account but for its public sums, and these.                          *)
Rewritten(tx, w, z, s) ==
    /\ z.l1 = NewAccount(tx, w.accounts[s], s).l1
    /\ z.shares = NewAccount(tx, w.accounts[s], s).shares
    /\ z.fixed = NewAccount(tx, w.accounts[s], s).fixed
    /\ z.open = NewAccount(tx, w.accounts[s], s).open
    /\ z.keys = IF s = KeySlot(tx)
                THEN NewKeys(w, Applied(tx, w), s)
                ELSE w.accounts[s].keys
    /\ z.orders = IF s = OrdersOf(tx, w, Applied(tx, w)) THEN NewOrders(w, Applied(tx, w), s)
                  ELSE w.accounts[s].orders
    /\ z.assets = OwnTree(tx, w, s).root
RewrittenSums(tx, w, z, s) == z.aggregated = SumTree(tx, w, s).root

(* The changes of an account.                                              *)
RewrittenDelta(tx, w, d, s) ==
    /\ d.l1 = IF s # FEE /\ is_new_account(tx, w, s)
              THEN NewAccount(tx, w.accounts[s], s).l1 ELSE w.deltas[s].l1
    /\ d.shares = IF tx.kind = "burn" /\ s = TAKER THEN w.deltas[s].shares + 1 ELSE w.deltas[s].shares
    /\ d.positions = IF s # FEE
                     THEN NewPositions(tx, w, Applied(tx, w), s)
                     ELSE w.deltas[s].positions
    /\ d.assets = ChangeTree(tx, w, s).root

(* What the steps demand together.                                         *)
HeavyOpens(tx, w) ==
    /\ validate_asset_indices(tx) /\ verify_transactions(tx, w)
    /\ PositionsOpen(tx, w, Applied(tx, w)) /\ KeyOpens(tx, w)
    /\ OrdersOpen(w, Applied(tx, w), OrdersOf(tx, w, Applied(tx, w)))
    /\ \A s \in Slots : Loaded(tx, s) =>
         OwnTree(tx, w, s).ok /\ SumTree(tx, w, s).ok /\ ChangeTree(tx, w, s).ok
    /\ SameAccountSameLeaf(tx, w.assets)
    /\ SameAccountSameLeaf(tx, w.sums)
    /\ SameAccountSameLeaf(tx, w.assetDeltas)

LightOpens(tx, w) ==
    /\ validate_asset_indices(tx) /\ verify_transactions(tx, w)
    /\ KeyOpens(tx, w) /\ OrdersOpen(w, Applied(tx, w), TAKER) /\ OwnTree(tx, w, TAKER).ok

(* A step does not touch what another reads.                               *)
LEMMA KeptReads ==
  ASSUME NEW tx, NEW w, NEW x, NEW y, Kept(y, x)
  PROVE  /\ DeltaMarket(tx, w, y) = DeltaMarket(tx, w, x)
         /\ OrdersOf(tx, w, y) = OrdersOf(tx, w, x)
         /\ \A s \in Slots : NewOrders(w, y, s) = NewOrders(w, x, s)
                             /\ (OrdersOpen(w, y, s) <=> OrdersOpen(w, x, s))
                             /\ NewKeys(w, y, s) = NewKeys(w, x, s)
BY DEF Kept, DeltaMarket, OrdersOf, NewOrders, OrdersOpen, AfterOrderLeaf, NewKeys

(* The heavy circuit's copy.                                               *)
LEMMA HeavyCopy ==
  ASSUME NEW tx \in Txs, NEW w, Brings(tx, w), NEW x,
         x = verify_assets_merkle_proofs(tx, w, verify_account_orders_merkle_proof(tx, w,
               verify_api_key_merkle_proof(tx, w,
                 verify_position_delta_merkle_proofs(tx, w, apply_transaction(tx, w)))))
  PROVE  /\ Kept(x, Applied(tx, w))
         /\ x.ok <=> HeavyOpens(tx, w)
         /\ \A s \in Slots : Loaded(tx, s) => /\ Rewritten(tx, w, x.accounts[s], s)
                                              /\ RewrittenSums(tx, w, x.accounts[s], s)
                                              /\ RewrittenDelta(tx, w, x.deltas[s], s)
<1> DEFINE x0 == Applied(tx, w)
           x1 == verify_position_delta_merkle_proofs(tx, w, x0)
           x2 == verify_api_key_merkle_proof(tx, w, x1)
           x3 == verify_account_orders_merkle_proof(tx, w, x2)
<1>1. x = verify_assets_merkle_proofs(tx, w, x3)
  BY Zenon DEF Applied
<1>2. /\ Copy(x0)
      /\ x0.ok <=> validate_asset_indices(tx) /\ verify_transactions(tx, w)
      /\ \A s \in Slots :
              /\ x0.accounts[s] = NewAccount(tx, w.accounts[s], s)
              /\ SameBut(AccountFields, {"l1", "shares", "fixed", "open"}, x0.accounts[s], w.accounts[s])
              /\ SameBut(DeltaFields, {"l1", "shares"}, x0.deltas[s], w.deltas[s])
              /\ x0.deltas[s].l1 = IF s # FEE /\ is_new_account(tx, w, s)
                                  THEN x0.accounts[s].l1 ELSE w.deltas[s].l1
              /\ x0.deltas[s].shares = IF tx.kind = "burn" /\ s = TAKER
                                      THEN w.deltas[s].shares + 1 ELSE w.deltas[s].shares
  BY ApplyStep DEF Applied
<1> HIDE DEF x0, x1, x2, x3
<1>3. /\ Copy(x1) /\ Kept(x1, x0) /\ x1.accounts = x0.accounts
      /\ x1.ok <=> x0.ok /\ PositionsOpen(tx, w, x0)
      /\ \A s \in Slots :
              /\ SameBut(DeltaFields, {"positions"}, x1.deltas[s], x0.deltas[s])
              /\ x1.deltas[s].positions =
                   IF s # FEE /\ Loaded(tx, s)
                   THEN NewPositions(tx, w, x0, s)
                   ELSE x0.deltas[s].positions
  BY <1>2, PositionStep DEF x1
<1>4. /\ Copy(x2) /\ Kept(x2, x1) /\ x2.deltas = x1.deltas
      /\ x2.ok <=> x1.ok /\ KeyOpens(tx, w)
      /\ \A s \in Slots :
              /\ SameBut(AccountFields, {"keys"}, x2.accounts[s], x1.accounts[s])
              /\ x2.accounts[s].keys = IF s = KeySlot(tx)
                                      THEN NewKeys(w, x1, s)
                                      ELSE x1.accounts[s].keys
  BY <1>3, KeyStep DEF x2
<1>5. /\ Copy(x3) /\ Kept(x3, x2) /\ x3.deltas = x2.deltas
      /\ x3.ok <=> x2.ok /\ OrdersOpen(w, x2, OrdersOf(tx, w, x2))
      /\ \A s \in Slots :
              /\ SameBut(AccountFields, {"orders"}, x3.accounts[s], x2.accounts[s])
              /\ x3.accounts[s].orders = IF s = OrdersOf(tx, w, x2) THEN NewOrders(w, x2, s)
                                        ELSE x2.accounts[s].orders
  BY <1>4, OrderStep DEF x3
<1>6. /\ Copy(x) /\ Kept(x, x3)
      /\ x.ok <=> x3.ok /\ AssetsOpen(tx, w, x3)
      /\ \A s \in Slots :
              /\ SameBut(AccountFields, {"assets", "aggregated"}, x.accounts[s], x3.accounts[s])
              /\ SameBut(DeltaFields, {"assets"}, x.deltas[s], x3.deltas[s])
              /\ Loaded(tx, s) => /\ x.accounts[s].assets = OwnPaths(tx, w, x3, s).root
                                  /\ x.accounts[s].aggregated = SumPaths(tx, w, x3, s).root
                                  /\ x.deltas[s].assets = DeltaPaths(tx, w, x3, s).root
  BY <1>1, <1>5, AssetStep
<1>7. Kept(x2, x0) /\ Kept(x3, x0) /\ Kept(x, x0) /\ Kept(x1, x0)
  BY <1>3, <1>4, <1>5, <1>6 DEF Kept
<1>8. OrdersOf(tx, w, x2) = OrdersOf(tx, w, x0) /\ OrdersOf(tx, w, x0) \in Slots
  BY <1>7, KeptReads, Sizes DEF OrdersOf
<1>9. \A s \in Slots : NewOrders(w, x2, s) = NewOrders(w, x0, s)
                       /\ (OrdersOpen(w, x2, s) <=> OrdersOpen(w, x0, s))
                       /\ NewKeys(w, x1, s) = NewKeys(w, x0, s)
  BY <1>7, KeptReads
<1>10. ASSUME NEW s \in Slots
       PROVE  /\ x3.accounts[s].assets = w.accounts[s].assets
              /\ x3.accounts[s].aggregated = w.accounts[s].aggregated
              /\ x3.deltas[s].assets = w.deltas[s].assets
              /\ x2.accounts[s].orders = w.accounts[s].orders
              /\ x1.accounts[s].keys = w.accounts[s].keys
  <2>1. /\ x0.accounts[s].assets = w.accounts[s].assets
        /\ x0.accounts[s].aggregated = w.accounts[s].aggregated
        /\ x0.accounts[s].orders = w.accounts[s].orders /\ x0.accounts[s].keys = w.accounts[s].keys
        /\ x0.deltas[s].assets = w.deltas[s].assets
    BY <1>2, SameAccountFields, SameDeltaFields
  <2>2. x1.accounts[s] = x0.accounts[s] /\ x1.deltas[s].assets = x0.deltas[s].assets
    BY <1>3, SameDeltaFields
  <2>3. /\ x2.accounts[s].assets = x1.accounts[s].assets
        /\ x2.accounts[s].aggregated = x1.accounts[s].aggregated
        /\ x2.accounts[s].orders = x1.accounts[s].orders
        /\ x2.deltas[s].assets = x1.deltas[s].assets
    BY <1>4, SameAccountFields
  <2>4. /\ x3.accounts[s].assets = x2.accounts[s].assets
        /\ x3.accounts[s].aggregated = x2.accounts[s].aggregated
        /\ x3.deltas[s].assets = x2.deltas[s].assets
    BY <1>5, SameAccountFields
  <2> QED
    BY <2>1, <2>2, <2>3, <2>4
<1>11. ASSUME NEW s \in Slots
       PROVE  /\ OwnPaths(tx, w, x3, s) = OwnTree(tx, w, s)
              /\ SumPaths(tx, w, x3, s) = SumTree(tx, w, s)
              /\ DeltaPaths(tx, w, x3, s) = ChangeTree(tx, w, s)
  <2>1. x3.assets = x0.assets /\ x3.sums = x0.sums /\ x3.assetDeltas = x0.assetDeltas
    BY <1>7 DEF Kept
  <2> QED
    BY <1>10, <2>1 DEF OwnPaths, SumPaths, DeltaPaths, OwnTree, SumTree, ChangeTree, x0
<1>12. AssetsOpen(tx, w, x3) <=>
          /\ \A s \in Slots : Loaded(tx, s) =>
               OwnTree(tx, w, s).ok /\ SumTree(tx, w, s).ok /\ ChangeTree(tx, w, s).ok
          /\ SameAccountSameLeaf(tx, w.assets)
          /\ SameAccountSameLeaf(tx, w.sums)
          /\ SameAccountSameLeaf(tx, w.assetDeltas)
  BY <1>11 DEF AssetsOpen
<1>13. x.ok <=> HeavyOpens(tx, w)
  BY <1>2, <1>3, <1>4, <1>5, <1>6, <1>8, <1>9, <1>12 DEF HeavyOpens, x0
<1>14. ASSUME NEW s \in Slots, Loaded(tx, s)
       PROVE  Rewritten(tx, w, x.accounts[s], s) /\ RewrittenSums(tx, w, x.accounts[s], s)
  <2>1. /\ x.accounts[s].l1 = NewAccount(tx, w.accounts[s], s).l1
        /\ x.accounts[s].shares = NewAccount(tx, w.accounts[s], s).shares
        /\ x.accounts[s].fixed = NewAccount(tx, w.accounts[s], s).fixed
        /\ x.accounts[s].open = NewAccount(tx, w.accounts[s], s).open
    <3>1. x1.accounts[s] = NewAccount(tx, w.accounts[s], s)
      BY <1>2, <1>3
    <3>2. /\ x2.accounts[s].l1 = x1.accounts[s].l1 /\ x2.accounts[s].shares = x1.accounts[s].shares
          /\ x2.accounts[s].fixed = x1.accounts[s].fixed /\ x2.accounts[s].open = x1.accounts[s].open
      BY <1>4, SameAccountFields
    <3>3. /\ x3.accounts[s].l1 = x2.accounts[s].l1 /\ x3.accounts[s].shares = x2.accounts[s].shares
          /\ x3.accounts[s].fixed = x2.accounts[s].fixed /\ x3.accounts[s].open = x2.accounts[s].open
      BY <1>5, SameAccountFields
    <3>4. /\ x.accounts[s].l1 = x3.accounts[s].l1 /\ x.accounts[s].shares = x3.accounts[s].shares
          /\ x.accounts[s].fixed = x3.accounts[s].fixed /\ x.accounts[s].open = x3.accounts[s].open
      BY <1>6, SameAccountFields
    <3> QED
      BY <3>1, <3>2, <3>3, <3>4
  <2>2. x.accounts[s].keys = x2.accounts[s].keys /\ x.accounts[s].orders = x3.accounts[s].orders
    BY <1>5, <1>6 DEF SameBut, AccountFields
  <2>3. x.accounts[s].keys = IF s = KeySlot(tx)
                THEN NewKeys(w, x0, s)
                ELSE w.accounts[s].keys
    BY <1>4, <1>9, <1>10, <2>2
  <2>4. x.accounts[s].orders = IF s = OrdersOf(tx, w, x0) THEN NewOrders(w, x0, s)
                  ELSE w.accounts[s].orders
    BY <1>5, <1>8, <1>9, <1>10, <2>2
  <2>5. x.accounts[s].assets = OwnTree(tx, w, s).root /\ x.accounts[s].aggregated = SumTree(tx, w, s).root
    BY <1>6, <1>11, <1>14
  <2> QED
    BY <2>1, <2>3, <2>4, <2>5 DEF Rewritten, RewrittenSums, x0
<1>15. ASSUME NEW s \in Slots, Loaded(tx, s)
       PROVE  RewrittenDelta(tx, w, x.deltas[s], s)
  <2>1. /\ x.deltas[s].l1 = x0.deltas[s].l1 /\ x.deltas[s].shares = x0.deltas[s].shares
        /\ x.deltas[s].positions = x1.deltas[s].positions
        /\ x0.deltas[s].positions = w.deltas[s].positions
    <3>1. x0.deltas[s].positions = w.deltas[s].positions
      BY <1>2, SameDeltaFields
    <3>2. x1.deltas[s].l1 = x0.deltas[s].l1 /\ x1.deltas[s].shares = x0.deltas[s].shares
      BY <1>3, SameDeltaFields
    <3>3. x3.deltas[s] = x1.deltas[s]
      BY <1>4, <1>5
    <3>4. /\ x.deltas[s].l1 = x3.deltas[s].l1 /\ x.deltas[s].shares = x3.deltas[s].shares
          /\ x.deltas[s].positions = x3.deltas[s].positions
      BY <1>6, SameDeltaFields
    <3> QED
      BY <3>1, <3>2, <3>3, <3>4
  <2>2. x.deltas[s].assets = ChangeTree(tx, w, s).root
    BY <1>6, <1>11, <1>15
  <2>3. x.deltas[s].positions = IF s # FEE
                     THEN NewPositions(tx, w, x0, s)
                     ELSE w.deltas[s].positions
    BY <1>3, <1>15, <2>1
  <2> QED
    BY <1>2, <2>1, <2>2, <2>3 DEF RewrittenDelta, x0
<1> QED
  BY <1>7, <1>13, <1>14, <1>15 DEF x0

(* The light circuit's copy.                                               *)
LEMMA LightCopy ==
  ASSUME NEW tx \in Txs, tx.light, NEW w, Brings(tx, w), NEW x,
         x = verify_light_assets_merkle_proofs(tx, w, verify_light_account_orders_merkle_proof(w,
               verify_light_api_key_merkle_proof(w,
                 [apply_transaction(tx, w) EXCEPT !.ok = @ /\ tx.kind \in LightAllowed])))
  PROVE  /\ Kept(x, Applied(tx, w))
         /\ x.ok <=> LightOpens(tx, w)
         /\ Rewritten(tx, w, x.accounts[TAKER], TAKER)
<1> DEFINE a == Applied(tx, w)
           good == a.ok /\ tx.kind \in LightAllowed
           x0 == [a EXCEPT !.ok = good]
           x1 == verify_light_api_key_merkle_proof(w, x0)
           x2 == verify_light_account_orders_merkle_proof(w, x1)
<1>1. x = verify_light_assets_merkle_proofs(tx, w, x2)
  BY Zenon DEF Applied
<1>2. /\ Copy(a)
      /\ a.ok <=> validate_asset_indices(tx) /\ verify_transactions(tx, w)
      /\ \A s \in Slots :
              /\ a.accounts[s] = NewAccount(tx, w.accounts[s], s)
              /\ SameBut(AccountFields, {"l1", "shares", "fixed", "open"}, a.accounts[s], w.accounts[s])
  BY ApplyStep DEF Applied
<1>3. tx.kind \in {"order", "terms"} /\ TAKER \in Slots /\ tx.index[MAKER] = tx.index[TAKER]
  BY TxIs, Sizes
<1>4. good \in BOOLEAN /\ (good <=> validate_asset_indices(tx) /\ verify_transactions(tx, w))
  BY <1>2, <1>3 DEF LightAllowed, Copy
<1> HIDE DEF a, good
<1>5. DOMAIN x0 = CopyFields /\ x0.ok = good /\ x0.accounts = a.accounts /\ x0.deltas = a.deltas /\ Kept(x0, a)
  BY <1>2 DEF Copy, CopyFields, Kept
<1> HIDE DEF x0, x1, x2
<1>6. Copy(x0)
  BY <1>2, <1>4, <1>5 DEF Copy
<1>7. KeySlot(tx) = TAKER
  BY <1>3 DEF KeySlot
<1>8. \A y : OrdersOf(tx, w, y) = TAKER
  BY <1>3 DEF OrdersOf, is_sender_receiver_different
<1>9. /\ Copy(x1) /\ Kept(x1, x0)
      /\ x1.ok <=> x0.ok /\ KeyOpens(tx, w)
      /\ \A s \in Slots :
              /\ SameBut(AccountFields, {"keys"}, x1.accounts[s], x0.accounts[s])
              /\ x1.accounts[s].keys = IF s = KeySlot(tx)
                                      THEN NewKeys(w, x0, s)
                                      ELSE x0.accounts[s].keys
  <2>1. x1 = verify_api_key_merkle_proof(tx, w, x0)
    BY <1>6, <1>7, LightSteps DEF x1
  <2> QED
    BY <1>6, <2>1, KeyStep
<1>10. /\ Copy(x2) /\ Kept(x2, x1)
       /\ x2.ok <=> x1.ok /\ OrdersOpen(w, x1, TAKER)
       /\ \A s \in Slots :
              /\ SameBut(AccountFields, {"orders"}, x2.accounts[s], x1.accounts[s])
              /\ x2.accounts[s].orders = IF s = TAKER THEN NewOrders(w, x1, s)
                                        ELSE x1.accounts[s].orders
  <2>1. OrdersOf(tx, w, x1) = TAKER
    BY <1>8
  <2>2. x2 = verify_account_orders_merkle_proof(tx, w, x1)
    BY <1>9, <2>1, LightSteps DEF x2
  <2> QED
    BY <1>9, <2>1, <2>2, OrderStep
<1>11. /\ Kept(x, x2)
       /\ x.ok <=> x2.ok /\ OwnPaths(tx, w, x2, TAKER).ok
       /\ SameBut(AccountFields, {"assets"}, x.accounts[TAKER], x2.accounts[TAKER])
       /\ x.accounts[TAKER].assets = OwnPaths(tx, w, x2, TAKER).root
  <2>1. Copy(x2)
    BY <1>10
  <2> QED
    BY <1>1, <2>1, LightAssetStep
<1>12. Kept(x1, a) /\ Kept(x2, a) /\ Kept(x, a) /\ Kept(x0, a)
  BY <1>5, <1>9, <1>10, <1>11 DEF Kept
<1>13. /\ NewOrders(w, x1, TAKER) = NewOrders(w, a, TAKER) /\ NewKeys(w, x0, TAKER) = NewKeys(w, a, TAKER)
       /\ OrdersOpen(w, x1, TAKER) <=> OrdersOpen(w, a, TAKER)
  BY <1>3, <1>12, KeptReads
<1>14. /\ x2.accounts[TAKER].assets = w.accounts[TAKER].assets
       /\ x1.accounts[TAKER].orders = w.accounts[TAKER].orders
       /\ x0.accounts[TAKER].keys = w.accounts[TAKER].keys
  <2>1. /\ x0.accounts[TAKER].assets = w.accounts[TAKER].assets
        /\ x0.accounts[TAKER].orders = w.accounts[TAKER].orders
        /\ x0.accounts[TAKER].keys = w.accounts[TAKER].keys
    BY <1>2, <1>3, <1>5, SameAccountFields
  <2>2. /\ x1.accounts[TAKER].assets = x0.accounts[TAKER].assets
        /\ x1.accounts[TAKER].orders = x0.accounts[TAKER].orders
    BY <1>3, <1>9, SameAccountFields
  <2>3. x2.accounts[TAKER].assets = x1.accounts[TAKER].assets
    BY <1>3, <1>10, SameAccountFields
  <2> QED
    BY <2>1, <2>2, <2>3
<1>15. OwnPaths(tx, w, x2, TAKER) = OwnTree(tx, w, TAKER)
  <2>1. x2.assets = a.assets
    BY <1>12 DEF Kept
  <2> QED
    BY <1>14, <2>1 DEF OwnPaths, OwnTree, a
<1>16. x.ok <=> LightOpens(tx, w)
  BY <1>4, <1>5, <1>9, <1>10, <1>11, <1>13, <1>15 DEF LightOpens, a
<1>17. Rewritten(tx, w, x.accounts[TAKER], TAKER)
  <2>1. /\ x.accounts[TAKER].l1 = NewAccount(tx, w.accounts[TAKER], TAKER).l1
        /\ x.accounts[TAKER].shares = NewAccount(tx, w.accounts[TAKER], TAKER).shares
        /\ x.accounts[TAKER].fixed = NewAccount(tx, w.accounts[TAKER], TAKER).fixed
        /\ x.accounts[TAKER].open = NewAccount(tx, w.accounts[TAKER], TAKER).open
    <3> DEFINE b0 == x0.accounts[TAKER]
               b1 == x1.accounts[TAKER]
               b2 == x2.accounts[TAKER]
               b == x.accounts[TAKER]
    <3>1. b0 = NewAccount(tx, w.accounts[TAKER], TAKER)
      BY <1>2, <1>3, <1>5
    <3>2. b1.l1 = b0.l1 /\ b1.shares = b0.shares /\ b1.fixed = b0.fixed /\ b1.open = b0.open
      BY <1>3, <1>9, SameAccountFields
    <3>3. b2.l1 = b1.l1 /\ b2.shares = b1.shares /\ b2.fixed = b1.fixed /\ b2.open = b1.open
      BY <1>3, <1>10, SameAccountFields
    <3>4. b.l1 = b2.l1 /\ b.shares = b2.shares /\ b.fixed = b2.fixed /\ b.open = b2.open
      BY <1>11, SameAccountFields
    <3> QED
      BY <3>1, <3>2, <3>3, <3>4
  <2>2. /\ x.accounts[TAKER].keys = x1.accounts[TAKER].keys
        /\ x.accounts[TAKER].orders = x2.accounts[TAKER].orders
    <3>1. x2.accounts[TAKER].keys = x1.accounts[TAKER].keys
      BY <1>3, <1>10, SameAccountFields
    <3> QED
      BY <3>1, <1>11, SameAccountFields
  <2>3. x.accounts[TAKER].keys = NewKeys(w, a, TAKER)
    BY <1>3, <1>7, <1>9, <1>13, <2>2
  <2>4. x.accounts[TAKER].orders = NewOrders(w, a, TAKER)
    BY <1>3, <1>10, <1>13, <2>2
  <2>5. x.accounts[TAKER].assets = OwnTree(tx, w, TAKER).root
    BY <1>11, <1>15
  <2>6. OrdersOf(tx, w, a) = TAKER
    BY <1>8
  <2> QED
    BY <1>7, <2>1, <2>3, <2>4, <2>5, <2>6 DEF Rewritten, a
<1> QED
  BY <1>12, <1>16, <1>17 DEF a

-----------------------------------------------------------------------------
(* Two leaves of a tree, one after the other.                              *)

(* The tree r holds the hashes of the values v.                            *)
HashTree(r, v, zero) == r = [k \in AssetIndexes |-> LeafHash(v[k], zero)]

(* The paths of a transaction's two assets are in the tree of the values v *)
(* just when their old leaves are these values', and lead to the tree of   *)
(* the values that have changed there and nowhere else.                    *)
LEMMA AssetLeaves ==
  ASSUME NEW tx \in Txs, NEW v, NEW u, NEW zero, NEW old, NEW new, NEW r, HashTree(r, v, zero),
         tx.assets[1] = tx.assets[2] => new[0] = old[0] /\ new[1] = old[1],
         NEW p, p = AssetPaths(r, tx, old, new, zero)
  PROVE  /\ p.ok <=> old[0] = v[tx.assets[1]] /\ old[1] = v[tx.assets[2]]
         /\ (/\ p.ok /\ u[tx.assets[1]] = new[0] /\ u[tx.assets[2]] = new[1]
             /\ \A k \in AssetIndexes : k # tx.assets[1] /\ k # tx.assets[2] => u[k] = v[k])
            => HashTree(p.root, u, zero)
<1> DEFINE i == tx.assets[1]
           j == tx.assets[2]
           mid == [r EXCEPT ![i] = LeafHash(new[0], zero)]
<1>1. i \in AssetIndexes /\ j \in AssetIndexes
  BY TxIs
<1>2. /\ p.ok <=> r[i] = LeafHash(old[0], zero) /\ mid[j] = LeafHash(old[1], zero)
      /\ p.root = [mid EXCEPT ![j] = LeafHash(new[1], zero)]
  BY DEF AssetPaths, verify_merkle_proof, recalculate_root
<1> HIDE DEF i, j
<1>3. /\ r = [k \in AssetIndexes |-> LeafHash(v[k], zero)]
      /\ \A k \in AssetIndexes : mid[k] = IF k = i THEN LeafHash(new[0], zero) ELSE LeafHash(v[k], zero)
      /\ DOMAIN mid = AssetIndexes
  BY DEF HashTree
<1> HIDE DEF mid
<1>4. /\ r[i] = LeafHash(old[0], zero) <=> v[i] = old[0]
      /\ i # j => (mid[j] = LeafHash(old[1], zero) <=> v[j] = old[1])
      /\ i = j => (mid[j] = LeafHash(old[1], zero) <=> new[0] = old[1])
  BY <1>1, <1>3, LeafHashTells
<1>5. p.ok <=> old[0] = v[i] /\ old[1] = v[j]
  BY <1>2, <1>4 DEF i, j
<1>6. ASSUME p.ok, u[i] = new[0], u[j] = new[1],
             \A k \in AssetIndexes : k # i /\ k # j => u[k] = v[k]
      PROVE  HashTree(p.root, u, zero)
  <2>1. p.root = [k \in AssetIndexes |-> IF k = j THEN LeafHash(new[1], zero) ELSE mid[k]]
    BY <1>2, <1>3
  <2>2. ASSUME NEW k \in AssetIndexes PROVE p.root[k] = LeafHash(u[k], zero)
    BY <1>3, <1>6, <2>1
  <2> QED
    BY <2>1, <2>2 DEF HashTree
<1> QED
  BY <1>5, <1>6 DEF i, j

-----------------------------------------------------------------------------
(* What a witness reads, compared with a state.                            *)
AssetReads(tx, w, L, s) ==
    \A j \in 0 .. 1 : w.assets[s][j] = L.accounts[tx.index[s]].assets[tx.assets[j + 1]]

SumReads(tx, w, L, s) ==
    \A j \in 0 .. 1 : w.sums[s][j] = L.accounts[tx.index[s]].aggregated[tx.assets[j + 1]]
ChangeReads(tx, w, L, s) ==
    \A j \in 0 .. 1 : w.assetDeltas[s][j] = L.deltas[tx.index[s]].assets[tx.assets[j + 1]]
SlotReads(tx, w, L, s) ==
    /\ w.accounts[s] = TrueAccount(tx, L, s) /\ w.deltas[s] = TrueDelta(tx, L, s)
    /\ AssetReads(tx, w, L, s) /\ SumReads(tx, w, L, s) /\ ChangeReads(tx, w, L, s)

KeyReads(tx, w, L)   == w.key = L.accounts[tx.index[KeySlot(tx)]].keys[0]
OrderReads(tx, w, L) == w.order = OrderOf(L, tx)

MarketReads(tx, w, L) ==
    /\ w.market = LoadedMarket(L.markets[tx.market]) /\ w.resting = L.markets[tx.market].book[0]
    /\ w.impact = IF tx.market \in Perps THEN L.markets[tx.market].book[0] + RestingBy(tx) ELSE 0
    /\ w.details = L.details[perps_market_index(tx.market)]

RootReads(w, L) ==
    /\ TrueRoots(w, L)
    /\ w.trees.market = Trees(L).market /\ w.trees.details = Trees(L).details
    /\ w.lists = L.lists /\ w.stack = L.stack

(* Whether the account at index i has no owner yet.                        *)
NewAt(L, i) == i # Treasury /\ L.accounts[i].l1 = 0

(* What a transaction's own checks say of the state they read.             *)
Legal(tx, L) ==
    /\ tx.kind \in {"order", "open", "burn"} => ~NewAt(L, tx.index[TAKER])
    /\ tx.kind \in {"fill", "move"} => \A s \in Slots : ~NewAt(L, tx.index[s])
    /\ tx.kind = "open" => NewAt(L, tx.index[MAKER])
    /\ tx.kind = "burn" => ~NewAt(L, tx.index[MAKER])
    /\ tx.kind \in {"fill", "burn", "open"} => tx.index[TAKER] # tx.index[MAKER]
    /\ tx.kind = "order" => /\ L.accounts[tx.index[TAKER]].orders[9] = 0
                            /\ tx.client # NIL_ORDER =>
                                 L.accounts[tx.index[TAKER]].orders[tx.client] = 0
    /\ tx.kind = "fill" => L.accounts[tx.index[MAKER]].orders[8] = tx.client + 1

(* Whether an account is new, from what the witness brings of it.          *)
LEMMA NewIsNew ==
  ASSUME NEW tx \in Txs, NEW w, Brings(tx, w), NEW L, StateInv(L), NEW s \in Slots,
         Agree(w.accounts[s], TrueAccount(tx, L, s))
  PROVE  is_new_account(tx, w, s) <=> NewAt(L, tx.index[s])
<1>1. tx.index[s] \in Accounts
  BY TxIs
<1>2. L.accounts[tx.index[s]] \in AccountSet
  BY <1>1 DEF StateInv, LedgerSet
<1>3. w.accounts[s].l1 = L.accounts[tx.index[s]].l1
  BY <1>2, LoadedType DEF Agree, TrueAccount
<1>4. Proper(w.accounts[s], tx.index[s])
  BY DEF Brings
<1>5. OldHash(tx, w, s).empty <=> tx.index[s] # Treasury /\ w.accounts[s].l1 = 0
  BY <1>4, EmptyIsUnowned DEF OldHash
<1> QED
  BY <1>3, <1>5 DEF is_new_account, NewAt

(* A transaction that passes its own checks is legal in the state.         *)
LEMMA LegalMeans ==
  ASSUME NEW tx \in Txs, NEW w, Brings(tx, w), NEW L, StateInv(L), OrderReads(tx, w, L),
         \A s \in (IF tx.light THEN {TAKER} ELSE Slots) : Agree(w.accounts[s], TrueAccount(tx, L, s)),
         verify_transactions(tx, w)
  PROVE  Legal(tx, L)
<1> DEFINE n(s) == is_new_account(tx, w, s)
<1>1. n(TAKER) <=> NewAt(L, tx.index[TAKER])
  BY Sizes, NewIsNew
<1>2. \A s \in Slots : tx.light \/ (n(s) <=> NewAt(L, tx.index[s]))
  BY NewIsNew
<1>3. tx.light => tx.kind \in {"order", "terms"}
  BY TxIs
<1>4. /\ tx.kind = "order" => ~n(TAKER) /\ w.order.live = 0
                              /\ (is_cloid_unique(tx, w) \/ tx.client = NIL_ORDER)
      /\ tx.kind = "fill" => w.order.live = tx.client + 1 /\ tx.index[TAKER] # tx.index[MAKER]
                             /\ \A s \in Slots : ~n(s)
      /\ tx.kind = "move" => \A s \in Slots : ~n(s)
      /\ tx.kind = "open" => ~n(TAKER) /\ n(MAKER)
      /\ tx.kind = "burn" => ~n(TAKER) /\ ~n(MAKER) /\ tx.index[TAKER] # tx.index[MAKER]
  BY DEF verify_transactions, is_sender_receiver_different
<1> HIDE DEF n
<1>5. tx.kind = "order" => L.accounts[tx.index[TAKER]].orders[9] = 0
  BY <1>4 DEF OrderReads, OrderOf, UsesOrder, OrderSlot
<1>6. tx.kind = "fill" => L.accounts[tx.index[MAKER]].orders[8] = tx.client + 1
  BY <1>4 DEF OrderReads, OrderOf, UsesOrder, OrderSlot
<1>7. ASSUME tx.kind = "order", tx.client # NIL_ORDER
      PROVE  L.accounts[tx.index[TAKER]].orders[tx.client] = 0
  <2> DEFINE a == L.accounts[tx.index[TAKER]]
  <2>1. w.accounts[TAKER].orders[tx.client] = <<>>
    BY <1>4, <1>7 DEF is_cloid_unique, verify_merkle_proof
  <2>2. a \in AccountSet
    BY TxIs, Sizes DEF StateInv, LedgerSet
  <2>3. w.accounts[TAKER].orders = OrderRoot(a)
    BY <2>2, Sizes, LoadedType DEF Agree, TrueAccount
  <2>4. tx.client \in OrderIndexes
    BY TxIs DEF OrderIndexes
  <2>5. LeafHash(a.orders[tx.client], 0) = <<>>
    BY <2>1, <2>3, <2>4 DEF OrderRoot
  <2> QED
    BY <2>5, LeafHashEmpty
<1>8. MAKER \in Slots
  BY Sizes
<1>9. tx.kind = "open" => tx.index[TAKER] # tx.index[MAKER]
  BY <1>1, <1>2, <1>3, <1>4, <1>8
<1> QED
  BY <1>1, <1>2, <1>3, <1>4, <1>5, <1>6, <1>7, <1>8, <1>9 DEF Legal

(* What the order books and the details of a market demand is that they    *)
(* are the state's.                                                        *)
LEMMA MarketOpened ==
  ASSUME NEW tx \in Txs, NEW w, Brings(tx, w), NEW L, StateInv(L), RootReads(w, L),
         NEW x, x.resting = w.resting + RestingBy(tx),
         NEW m, m = verify_market_and_order_book_proofs(tx, w, x),
         NEW d, d = verify_market_details_merkle_proof(tx, w, x)
  PROVE  m.ok /\ d.ok <=> MarketReads(tx, w, L)
<1> DEFINE M == L.markets[tx.market]
           P == perps_market_index(tx.market)
<1>1. tx.market \in {0, 2, 7} /\ P \in Perps \cup {NIL_MARKET} /\ 0 \in Prices
  BY TxIs, PerpsIndex, Sizes
<1>2. L \in LedgerSet /\ M \in MarketSet /\ M.book[0] \in Int
  BY <1>1 DEF StateInv, LedgerSet, MarketSet
<1>3. /\ Trees(L).market[tx.market] = MarketHash(LoadedMarket(M))
      /\ Trees(L).details[P] = LeafHash(L.details[P], 0)
  BY <1>1, <1>2 DEF Trees, LedgerSet
<1>4. d.ok <=> w.details = L.details[P]
  <2>1. d.ok <=> Trees(L).details[P] = LeafHash(w.details, 0)
    BY DEF verify_market_details_merkle_proof, verify_merkle_proof, RootReads
  <2> QED
    BY <1>3, <2>1, LeafHashTells
<1>5. /\ MarketHash(w.market) = MarketHash(LoadedMarket(M)) <=> w.market = LoadedMarket(M)
      /\ LoadedMarket(M).book[0] = LeafHash(M.book[0], 0)
      /\ DOMAIN LoadedMarket(M).book = Prices
  <2>1. MarketHash(w.market) = MarketHash(LoadedMarket(M)) <=> w.market = LoadedMarket(M)
    BY LeafHashTells DEF MarketHash
  <2>2. LoadedMarket(M).book = BookRoot(M)
    BY <1>2 DEF LoadedMarket, MarketSet
  <2> QED
    BY <1>1, <2>1, <2>2 DEF BookRoot
<1> HIDE DEF M, P
<1>6. m.ok <=> /\ w.market.book[0] = LeafHash(w.resting, 0)
               /\ w.market = LoadedMarket(M)
               /\ (IF tx.market \in Perps THEN NewBook(w, x) ELSE EmptyRoot(Prices))[0] =
                      LeafHash(w.impact, 0)
  <2>1. m.ok <=> /\ w.market.book[0] = LeafHash(w.resting, 0)
                 /\ Trees(L).market[tx.market] = MarketHash(w.market)
                 /\ (IF tx.market \in Perps THEN NewBook(w, x) ELSE EmptyRoot(Prices))[0] =
                        LeafHash(w.impact, 0)
    BY DEF verify_market_and_order_book_proofs, verify_merkle_proof, RootReads
  <2> QED
    BY <1>3, <1>5, <2>1
<1>7. ASSUME w.market = LoadedMarket(M)
      PROVE  /\ w.market.book[0] = LeafHash(w.resting, 0) <=> w.resting = M.book[0]
             /\ NewBook(w, x)[0] = LeafHash(w.impact, 0) <=> w.impact = w.resting + RestingBy(tx)
             /\ EmptyRoot(Prices)[0] = LeafHash(w.impact, 0) <=> w.impact = 0
  <2>1. w.market.book[0] = LeafHash(w.resting, 0) <=> w.resting = M.book[0]
    BY <1>5, <1>7, LeafHashTells
  <2>2. NewBook(w, x)[0] = LeafHash(w.resting + RestingBy(tx), 0)
    BY <1>1, <1>5, <1>7 DEF NewBook, recalculate_root
  <2>3. EmptyRoot(Prices)[0] = <<>>
    BY <1>1 DEF EmptyRoot
  <2> QED
    BY <2>1, <2>2, <2>3, LeafHashTells, LeafHashEmpty
<1>8. m.ok <=> /\ w.market = LoadedMarket(M) /\ w.resting = M.book[0]
               /\ w.impact = IF tx.market \in Perps THEN M.book[0] + RestingBy(tx) ELSE 0
  BY <1>6, <1>7
<1> QED
  BY <1>4, <1>8 DEF MarketReads, M, P

-----------------------------------------------------------------------------
(* The state after a transaction, account by account.                      *)
OrdersAfter(tx, a, i) ==
    IF Owns(tx, i)
    THEN [o \in OrderIndexes |->
            IF o = (IF tx.kind = "fill" THEN 8 ELSE 9) \/ (o = tx.client /\ o # NIL_ORDER)
            THEN IF tx.kind = "fill" THEN 0 ELSE tx.client + 1
            ELSE a.orders[o]]
    ELSE a.orders
AssetsAfter(tx, a, i) ==
    [k \in AssetIndexes |->
       [balance |-> a.assets[k].balance + AccountMoved(tx, i, k),
        locked  |-> a.assets[k].locked +
            (IF tx.kind = "order" /\ Owns(tx, i) /\ k = tx.assets[1] THEN 1 ELSE 0)]]
PositionsAfter(tx, a, i) ==
    [p \in Perps |->
       IF p # tx.market THEN a.positions[p]
       ELSE [size |-> a.positions[p].size + Filled(tx, i),
             tied |-> a.positions[p].tied + (IF Owns(tx, i) THEN RestingBy(tx) ELSE 0)]]
KeysAfter(tx, a, i) ==
    [k \in Keys |-> IF k = 0 /\ Signed(tx) /\ Holds(tx, KeySlot(tx), i) THEN a.keys[k] + 1
                                                                      ELSE a.keys[k]]

SumsAfter(tx, a, i) == [k \in AssetIndexes |-> a.aggregated[k] + AccountMoved(tx, i, k)]
SizesAfter(tx, d, i) ==
    [p \in Perps \cup {NIL_MARKET} |->
       d.positions[p] + (IF p = tx.market THEN Filled(tx, i) ELSE 0)]
ChangesAfter(tx, d, i) == [k \in AssetIndexes |-> d.assets[k] + AccountMoved(tx, i, k)]

(* An account made of its fields.                                          *)
IsAccount(b) == b = [x \in AccountFields |-> b[x]]

(* The fields of an account after a transaction.                           *)
LEMMA AfterFields ==
  ASSUME NEW tx, NEW a \in AccountSet, NEW i, NEW b, b = AccountAfter(tx, a, i)
  PROVE  /\ DOMAIN b = AccountFields /\ IsAccount(b)
         /\ b.l1 = IF tx.kind = "open" /\ Holds(tx, MAKER, i) THEN 1 ELSE a.l1
         /\ b.shares = IF tx.kind = "burn" /\ Holds(tx, TAKER, i) THEN a.shares + 1 ELSE a.shares
         /\ b.fixed = IF tx.kind = "burn" /\ Holds(tx, MAKER, i) THEN a.fixed + 1 ELSE a.fixed
         /\ b.open = IF Owns(tx, i) THEN a.open + 1 ELSE a.open
         /\ b.keys = KeysAfter(tx, a, i) /\ b.orders = OrdersAfter(tx, a, i)
         /\ b.assets = AssetsAfter(tx, a, i)
         /\ b.aggregated = SumsAfter(tx, a, i)
         /\ b.positions = PositionsAfter(tx, a, i)
<1> DEFINE l == IF tx.kind = "open" /\ Holds(tx, MAKER, i) THEN 1 ELSE a.l1
           h == IF tx.kind = "burn" /\ Holds(tx, TAKER, i) THEN a.shares + 1 ELSE a.shares
           f == IF tx.kind = "burn" /\ Holds(tx, MAKER, i) THEN a.fixed + 1 ELSE a.fixed
           o == IF Owns(tx, i) THEN a.open + 1 ELSE a.open
           k0 == IF Signed(tx) /\ Holds(tx, KeySlot(tx), i) THEN a.keys[0] + 1 ELSE a.keys[0]
           r == OrdersAfter(tx, a, i)
           s == AssetsAfter(tx, a, i)
           g == SumsAfter(tx, a, i)
           p == PositionsAfter(tx, a, i)
<1>1. b = [a EXCEPT !.l1 = l, !.shares = h, !.fixed = f, !.open = o, !.keys[0] = k0,
                    !.orders = r, !.assets = s, !.aggregated = g, !.positions = p]
  BY Zenon DEF AccountAfter, OrdersAfter, AssetsAfter, PositionsAfter, SumsAfter
<1>2. DOMAIN a = AccountFields
  BY DEF AccountSet, AccountFields
<1>3. a.keys \in [Keys -> Int]
  BY DEF AccountSet
<1>4. KeysAfter(tx, a, i) = [a.keys EXCEPT ![0] = k0]
  <2>1. ASSUME NEW k \in Keys PROVE KeysAfter(tx, a, i)[k] = [a.keys EXCEPT ![0] = k0][k]
    BY <1>3 DEF KeysAfter
  <2> QED
    BY <1>3, <2>1 DEF KeysAfter
<1> HIDE DEF l, h, f, o, k0, r, s, g, p
<1>5. /\ DOMAIN b = AccountFields /\ b.l1 = l /\ b.shares = h /\ b.fixed = f /\ b.open = o
      /\ b.orders = r /\ b.assets = s /\ b.aggregated = g /\ b.positions = p
      /\ IsAccount(b)
  BY <1>1, <1>2 DEF AccountFields, IsAccount
<1>6. b.keys = [a.keys EXCEPT ![0] = k0]
  BY <1>1, <1>2 DEF AccountFields
<1> QED
  BY <1>4, <1>5, <1>6 DEF l, h, f, o, r, s, g, p

(* What the slots of one account move together.                            *)
LEMMA Movement ==
  ASSUME NEW tx \in Txs, NEW i
  PROVE  /\ \A j \in 0 .. 1 : MovedFor(tx, i, j) \in Int
         /\ \A k : AccountMoved(tx, i, k) \in Int
         /\ AccountMoved(tx, i, tx.assets[1]) =
              IF tx.assets[1] = tx.assets[2] THEN 0 ELSE MovedFor(tx, i, 0)
         /\ AccountMoved(tx, i, tx.assets[2]) =
              IF tx.assets[1] = tx.assets[2] THEN 0 ELSE MovedFor(tx, i, 1)
         /\ \A k : k # tx.assets[1] /\ k # tx.assets[2] => AccountMoved(tx, i, k) = 0
         /\ tx.kind \notin {"move", "fill"} =>
              (\A j \in 0 .. 1 : MovedFor(tx, i, j) = 0) /\ (\A k : AccountMoved(tx, i, k) = 0)
         /\ (\A s \in Slots : tx.index[s] # i) =>
              (\A j \in 0 .. 1 : MovedFor(tx, i, j) = 0) /\ (\A k : AccountMoved(tx, i, k) = 0)
<1> DEFINE of(t, j) == IF tx.index[t] = i THEN Moved(tx.kind, t)[j + 1] ELSE 0
<1>1. ASSUME NEW j \in 0 .. 1
      PROVE  MovedFor(tx, i, j) = of(TAKER, j) + of(MAKER, j) + of(FEE, j)
  BY DEF MovedFor
<1>2. ASSUME NEW t \in Slots, NEW j \in 0 .. 1
      PROVE  /\ Moved(tx.kind, t)[j + 1] \in Int
             /\ tx.kind \notin {"move", "fill"} => Moved(tx.kind, t)[j + 1] = 0
  <2>1. (t = 0 \/ t = 1 \/ t = 2) /\ (j = 0 \/ j = 1)
    BY Sizes
  <2>2. CASE tx.kind = "move"
    <3>1. Moved(tx.kind, t) = <<<<-1, -1>>, <<1, 0>>, <<0, 1>>>>[t + 1]
      BY <2>2 DEF Moved
    <3> QED
      BY <2>1, <2>2, <3>1
  <2>3. CASE tx.kind = "fill"
    <3>1. Moved(tx.kind, t) = <<<<0, -1>>, <<0, 0>>, <<0, 1>>>>[t + 1]
      BY <2>3 DEF Moved
    <3> QED
      BY <2>1, <2>3, <3>1
  <2>4. CASE tx.kind \notin {"move", "fill"}
    <3>1. Moved(tx.kind, t) = <<0, 0>>
      BY <2>4 DEF Moved
    <3> QED
      BY <2>1, <3>1
  <2> QED
    BY <2>2, <2>3, <2>4
<1>3. ASSUME NEW t \in Slots, NEW j \in 0 .. 1
      PROVE  of(t, j) \in Int /\ (tx.kind \notin {"move", "fill"} \/ tx.index[t] # i => of(t, j) = 0)
  BY <1>2
<1> HIDE DEF of
<1>4. Slots = {TAKER, MAKER, FEE}
  BY Sizes
<1>5. ASSUME NEW j \in 0 .. 1
      PROVE  /\ MovedFor(tx, i, j) \in Int
             /\ tx.kind \notin {"move", "fill"} => MovedFor(tx, i, j) = 0
             /\ (\A s \in Slots : tx.index[s] # i) => MovedFor(tx, i, j) = 0
  BY <1>1, <1>3, <1>4
<1>6. ASSUME NEW k
      PROVE  AccountMoved(tx, i, k) = (IF tx.assets[1] = k THEN MovedFor(tx, i, 0) ELSE 0) +
                                      (IF tx.assets[2] = k THEN MovedFor(tx, i, 1) ELSE 0)
  BY DEF AccountMoved
<1>7. tx.assets[1] = tx.assets[2] => tx.kind \notin {"move", "fill"}
  BY TxIs
<1>8. /\ MovedFor(tx, i, 0) \in Int /\ MovedFor(tx, i, 1) \in Int
      /\ tx.kind \notin {"move", "fill"} => MovedFor(tx, i, 0) = 0 /\ MovedFor(tx, i, 1) = 0
      /\ (\A s \in Slots : tx.index[s] # i) => MovedFor(tx, i, 0) = 0 /\ MovedFor(tx, i, 1) = 0
  BY <1>5
<1>9. ASSUME NEW k
      PROVE  /\ AccountMoved(tx, i, k) \in Int
             /\ k # tx.assets[1] /\ k # tx.assets[2] => AccountMoved(tx, i, k) = 0
             /\ tx.kind \notin {"move", "fill"} => AccountMoved(tx, i, k) = 0
             /\ (\A s \in Slots : tx.index[s] # i) => AccountMoved(tx, i, k) = 0
  BY <1>6, <1>8
<1>10. /\ AccountMoved(tx, i, tx.assets[1]) =
              IF tx.assets[1] = tx.assets[2] THEN 0 ELSE MovedFor(tx, i, 0)
       /\ AccountMoved(tx, i, tx.assets[2]) =
              IF tx.assets[1] = tx.assets[2] THEN 0 ELSE MovedFor(tx, i, 1)
  BY <1>6, <1>7, <1>8
<1> QED
  BY <1>5, <1>9, <1>10

(* An account stays an account.                                            *)
LEMMA AfterType ==
  ASSUME NEW tx \in Txs, NEW a \in AccountSet, NEW i
  PROVE  AccountAfter(tx, a, i) \in AccountSet
<1> DEFINE b == AccountAfter(tx, a, i)
<1>1. /\ IsAccount(b)
      /\ b.l1 = IF tx.kind = "open" /\ Holds(tx, MAKER, i) THEN 1 ELSE a.l1
      /\ b.shares = IF tx.kind = "burn" /\ Holds(tx, TAKER, i) THEN a.shares + 1 ELSE a.shares
      /\ b.fixed = IF tx.kind = "burn" /\ Holds(tx, MAKER, i) THEN a.fixed + 1 ELSE a.fixed
      /\ b.open = IF Owns(tx, i) THEN a.open + 1 ELSE a.open
      /\ b.keys = KeysAfter(tx, a, i) /\ b.orders = OrdersAfter(tx, a, i)
      /\ b.assets = AssetsAfter(tx, a, i)
      /\ b.aggregated = SumsAfter(tx, a, i)
      /\ b.positions = PositionsAfter(tx, a, i)
  BY AfterFields
<1> HIDE DEF b
<1>2. b = [l1 |-> b.l1, shares |-> b.shares, fixed |-> b.fixed, positions |-> b.positions,
           open |-> b.open, keys |-> b.keys, orders |-> b.orders, assets |-> b.assets,
           aggregated |-> b.aggregated]
  BY <1>1, AccountFromFields DEF IsAccount
<1>3. b.l1 \in Int /\ b.shares \in Int /\ b.fixed \in Int /\ b.open \in Int
  BY <1>1 DEF AccountSet
<1>4. b.keys \in [Keys -> Int]
  <2>1. a.keys \in [Keys -> Int] /\ b.keys = KeysAfter(tx, a, i)
    BY <1>1 DEF AccountSet
  <2> QED
    BY <2>1 DEF KeysAfter
<1>5. b.orders \in [OrderIndexes -> Int]
  <2>1. a.orders \in [OrderIndexes -> Int] /\ b.orders = OrdersAfter(tx, a, i) /\ tx.client \in Int
    BY <1>1, TxIs DEF AccountSet, NIL_ORDER
  <2>2. CASE Owns(tx, i)
    <3>1. \A o \in OrderIndexes : a.orders[o] \in Int
      BY <2>1
    <3> QED
      BY <2>1, <2>2, <3>1 DEF OrdersAfter
  <2>3. CASE ~Owns(tx, i)
    BY <2>1, <2>3 DEF OrdersAfter
  <2> QED
    BY <2>2, <2>3
<1>6. b.assets \in [AssetIndexes -> Asset]
  <2>1. a.assets \in [AssetIndexes -> Asset] /\ b.assets = AssetsAfter(tx, a, i)
    BY <1>1 DEF AccountSet
  <2>2. \A k \in AssetIndexes : a.assets[k].balance \in Int /\ a.assets[k].locked \in Int
    BY <2>1 DEF Asset
  <2>3. \A k \in AssetIndexes : AccountMoved(tx, i, k) \in Int
    BY Movement
  <2> QED
    BY <2>1, <2>2, <2>3 DEF AssetsAfter, Asset
<1>7. b.aggregated \in [AssetIndexes -> Int]
  <2>1. a.aggregated \in [AssetIndexes -> Int]
        /\ b.aggregated = SumsAfter(tx, a, i)
    BY <1>1 DEF AccountSet
  <2>2. \A k \in AssetIndexes : AccountMoved(tx, i, k) \in Int
    BY Movement
  <2> QED
    BY <2>1, <2>2 DEF SumsAfter
<1>8. b.positions \in [Perps -> Position]
  <2>1. a.positions \in [Perps -> Position] /\ b.positions = PositionsAfter(tx, a, i)
    BY <1>1 DEF AccountSet
  <2>2. \A p \in Perps : a.positions[p].size \in Int /\ a.positions[p].tied \in Int
    BY <2>1 DEF Position
  <2>3. Filled(tx, i) \in Int /\ RestingBy(tx) \in Int
    BY DEF Filled, RestingBy
  <2> QED
    BY <2>1, <2>2, <2>3 DEF PositionsAfter, Position
<1> QED
  BY <1>2, <1>3, <1>4, <1>5, <1>6, <1>7, <1>8 DEF AccountSet, b

(* Changes stay changes.                                                   *)
LEMMA DeltaAfterFields ==
  ASSUME NEW tx \in Txs, NEW d \in DeltaSet, NEW i, NEW e, e = DeltaAfter(tx, d, i)
  PROVE  /\ e \in DeltaSet
         /\ e.l1 = IF tx.kind = "open" /\ Holds(tx, MAKER, i) THEN 1 ELSE d.l1
         /\ e.shares = IF tx.kind = "burn" /\ Holds(tx, TAKER, i) THEN d.shares + 1 ELSE d.shares
         /\ e.positions = SizesAfter(tx, d, i)
         /\ e.assets = ChangesAfter(tx, d, i)
<1> DEFINE l == IF tx.kind = "open" /\ Holds(tx, MAKER, i) THEN 1 ELSE d.l1
           h == IF tx.kind = "burn" /\ Holds(tx, TAKER, i) THEN d.shares + 1 ELSE d.shares
           p0 == [p \in DOMAIN d.positions |->
                             d.positions[p] + (IF p = tx.market THEN Filled(tx, i) ELSE 0)]
           s == ChangesAfter(tx, d, i)
<1>1. e = [d EXCEPT !.l1 = l, !.shares = h, !.positions = p0, !.assets = s]
  BY Zenon DEF DeltaAfter, SizesAfter, ChangesAfter
<1>2. DOMAIN d = DeltaFields /\ d.l1 \in Int /\ d.shares \in Int
  BY DEF DeltaSet, DeltaFields
<1>3. p0 \in [Perps \cup {NIL_MARKET} -> Int] /\ s \in [AssetIndexes -> Int]
  <2>1. \A k \in AssetIndexes : AccountMoved(tx, i, k) \in Int
    BY Movement
  <2>2. Filled(tx, i) \in Int
    BY DEF Filled
  <2> QED
    BY <2>1, <2>2 DEF DeltaSet, ChangesAfter
<1>4. l \in Int /\ h \in Int
  BY <1>2
<1>5. p0 = SizesAfter(tx, d, i)
  BY DEF DeltaSet, SizesAfter
<1> HIDE DEF l, h, p0, s
<1>6. /\ DOMAIN e = DeltaFields /\ e.l1 = l /\ e.shares = h /\ e.positions = p0 /\ e.assets = s
      /\ e = [x \in DeltaFields |-> e[x]]
  BY <1>1, <1>2 DEF DeltaFields
<1>7. e = [l1 |-> e.l1, shares |-> e.shares, positions |-> e.positions, assets |-> e.assets]
  BY <1>6 DEF DeltaFields
<1>8. e \in DeltaSet
  BY <1>3, <1>4, <1>6, <1>7 DEF DeltaSet
<1> QED
  BY <1>5, <1>6, <1>8 DEF l, h, s

(* A transaction leaves an account alone that it does not name.            *)
LeftAlone(tx, i) ==
    /\ ~Owns(tx, i)
    /\ Signed(tx) => ~Holds(tx, KeySlot(tx), i)
    /\ tx.kind \in {"move", "fill"} => \A s \in Slots : ~Holds(tx, s, i)
    /\ tx.kind = "open" => ~Holds(tx, MAKER, i)
    /\ tx.kind = "burn" => ~Holds(tx, TAKER, i) /\ ~Holds(tx, MAKER, i)

(* What it does not name stays as it is.                                   *)
LEMMA Untouched ==
  ASSUME NEW tx \in Txs, NEW i, LeftAlone(tx, i)
  PROVE  /\ \A a \in AccountSet : AccountAfter(tx, a, i) = a
         /\ \A d \in DeltaSet : DeltaAfter(tx, d, i) = d
<1>1. Filled(tx, i) = 0
  BY Sizes DEF Filled, LeftAlone
<1>2. \A k : AccountMoved(tx, i, k) = 0
  BY Movement DEF LeftAlone, Holds
<1>3. ASSUME NEW a \in AccountSet PROVE AccountAfter(tx, a, i) = a
  <2> DEFINE b == AccountAfter(tx, a, i)
  <2>1. /\ IsAccount(b)
        /\ b.l1 = a.l1 /\ b.shares = a.shares /\ b.fixed = a.fixed /\ b.open = a.open
        /\ b.keys = KeysAfter(tx, a, i) /\ b.orders = a.orders
        /\ b.assets = AssetsAfter(tx, a, i)
        /\ b.aggregated = SumsAfter(tx, a, i)
        /\ b.positions = PositionsAfter(tx, a, i)
    <3>1. /\ IsAccount(b)
          /\ b.l1 = IF tx.kind = "open" /\ Holds(tx, MAKER, i) THEN 1 ELSE a.l1
          /\ b.shares = IF tx.kind = "burn" /\ Holds(tx, TAKER, i) THEN a.shares + 1 ELSE a.shares
          /\ b.fixed = IF tx.kind = "burn" /\ Holds(tx, MAKER, i) THEN a.fixed + 1 ELSE a.fixed
          /\ b.open = IF Owns(tx, i) THEN a.open + 1 ELSE a.open
          /\ b.keys = KeysAfter(tx, a, i) /\ b.orders = OrdersAfter(tx, a, i)
          /\ b.assets = AssetsAfter(tx, a, i)
          /\ b.aggregated = SumsAfter(tx, a, i)
          /\ b.positions = PositionsAfter(tx, a, i)
      BY AfterFields
    <3>2. OrdersAfter(tx, a, i) = a.orders
      BY DEF OrdersAfter, LeftAlone
    <3> HIDE DEF b
    <3> QED
      BY <3>1, <3>2 DEF LeftAlone
  <2> HIDE DEF b
  <2>2. /\ a.keys \in [Keys -> Int] /\ a.assets \in [AssetIndexes -> Asset]
        /\ a.aggregated \in [AssetIndexes -> Int] /\ a.positions \in [Perps -> Position]
    BY DEF AccountSet
  <2>3. KeysAfter(tx, a, i) = a.keys
    BY <2>2 DEF KeysAfter, LeftAlone
  <2>4. AssetsAfter(tx, a, i) = a.assets
    <3>1. ASSUME NEW k \in AssetIndexes PROVE AssetsAfter(tx, a, i)[k] = a.assets[k]
      <4>1. AssetsAfter(tx, a, i)[k] = [balance |-> a.assets[k].balance + 0,
                                        locked |-> a.assets[k].locked + 0]
        BY <1>2 DEF AssetsAfter, LeftAlone
      <4>2. a.assets[k] \in Asset
        BY <2>2
      <4> QED
        BY <4>1, <4>2 DEF Asset
    <3> QED
      BY <2>2, <3>1 DEF AssetsAfter
  <2>5. SumsAfter(tx, a, i) = a.aggregated
    BY <1>2, <2>2 DEF SumsAfter
  <2>6. PositionsAfter(tx, a, i) = a.positions
    <3>1. ASSUME NEW p \in Perps PROVE PositionsAfter(tx, a, i)[p] = a.positions[p]
      <4>1. CASE p # tx.market
        BY <4>1 DEF PositionsAfter
      <4>2. CASE p = tx.market
        <5>1. PositionsAfter(tx, a, i)[p] = [size |-> a.positions[p].size + 0,
                                             tied |-> a.positions[p].tied + 0]
          BY <1>1, <4>2 DEF PositionsAfter, LeftAlone
        <5>2. a.positions[p] \in Position
          BY <2>2
        <5> QED
          BY <5>1, <5>2 DEF Position
      <4> QED
        BY <4>1, <4>2
    <3> QED
      BY <2>2, <3>1 DEF PositionsAfter
  <2>7. b = [l1 |-> b.l1, shares |-> b.shares, fixed |-> b.fixed, positions |-> b.positions,
             open |-> b.open, keys |-> b.keys, orders |-> b.orders, assets |-> b.assets,
             aggregated |-> b.aggregated]
    BY <2>1, AccountFromFields DEF IsAccount
  <2>8. a = [l1 |-> a.l1, shares |-> a.shares, fixed |-> a.fixed, positions |-> a.positions,
             open |-> a.open, keys |-> a.keys, orders |-> a.orders, assets |-> a.assets,
             aggregated |-> a.aggregated]
    BY DEF AccountSet
  <2>9. /\ b.keys = a.keys /\ b.assets = a.assets /\ b.aggregated = a.aggregated
        /\ b.positions = a.positions
    BY <2>1, <2>3, <2>4, <2>5, <2>6
  <2> QED
    BY <2>1, <2>7, <2>8, <2>9, Zenon DEF b
<1>4. ASSUME NEW d \in DeltaSet PROVE DeltaAfter(tx, d, i) = d
  <2> DEFINE e == DeltaAfter(tx, d, i)
  <2>1. /\ e \in DeltaSet /\ e.l1 = d.l1 /\ e.shares = d.shares
        /\ e.positions = SizesAfter(tx, d, i)
        /\ e.assets = ChangesAfter(tx, d, i)
    BY DeltaAfterFields DEF LeftAlone
  <2> HIDE DEF e
  <2>2. d.positions \in [Perps \cup {NIL_MARKET} -> Int] /\ d.assets \in [AssetIndexes -> Int]
    BY DEF DeltaSet
  <2>3. e.positions = d.positions
    BY <1>1, <2>1, <2>2 DEF SizesAfter
  <2>4. e.assets = d.assets
    BY <1>2, <2>1, <2>2 DEF ChangesAfter
  <2>5. /\ e = [l1 |-> e.l1, shares |-> e.shares, positions |-> e.positions, assets |-> e.assets]
        /\ d = [l1 |-> d.l1, shares |-> d.shares, positions |-> d.positions, assets |-> d.assets]
    BY <2>1 DEF DeltaSet
  <2> QED
    BY <2>1, <2>3, <2>4, <2>5, Zenon DEF e
<1> QED
  BY <1>3, <1>4

(* The lists after a transaction: one market of the list has changed.      *)
LEMMA ListsType ==
  ASSUME NEW tx \in Txs, NEW l \in ListSet, NEW m, m = NewLists(tx, l)
  PROVE  /\ m \in ListSet
         /\ \A p \in Perps : p # perps_market_index(tx.market) => m.risk[p] = l.risk[p]
<1>1. l.risk \in [Perps -> [mark : Int, status : Int]] /\ l.assets \in [AssetIndexes -> Int]
      /\ l.margined \in [MarginIndexes -> Int] /\ l.config \in Int
  BY DEF ListSet
<1>2. CASE ~(tx.kind = "terms" /\ ~tx.light)
  BY <1>2 DEF NewLists
<1>3. CASE tx.kind = "terms" /\ ~tx.light
  <2> DEFINE P == perps_market_index(tx.market)
             g == Added(l.assets, tx.assets[1], 1)
             h == Added(l.margined, get_next_margin_asset_index(l.margined), 1)
             u == update_assets(tx, l)
             c == l.config + 1
             k == l.risk[P].mark + 1
  <2>1. u = [l EXCEPT !.assets = g, !.margined = h]
    BY DEF update_assets
  <2>2. g \in [AssetIndexes -> Int] /\ h \in [MarginIndexes -> Int]
    BY <1>1 DEF Added
  <2> HIDE DEF g, h, u
  <2>3. /\ DOMAIN u = {"risk", "assets", "margined", "config"} /\ u.risk = l.risk
        /\ u.assets = g /\ u.margined = h /\ u.config = l.config
    BY <2>1 DEF ListSet
  <2>4. m = [u EXCEPT !.config = c, !.risk[P].mark = k]
    <3>1. m = [u EXCEPT !.config = @ + 1, !.risk[P].mark = @ + 1]
      BY <1>3, Zenon DEF NewLists, u
    <3> QED
      BY <2>3, <3>1
  <2>5. P \in Perps
    BY <1>3, TxIs, PerpsIndex
  <2> HIDE DEF P, c, k
  <2>6. /\ DOMAIN m = {"risk", "assets", "margined", "config"} /\ m.assets = g /\ m.margined = h
        /\ m.config = c /\ m.risk = [l.risk EXCEPT ![P].mark = k]
        /\ m = [x \in {"risk", "assets", "margined", "config"} |-> m[x]]
    BY <2>3, <2>4
  <2>7. m = [risk |-> m.risk, assets |-> m.assets, margined |-> m.margined, config |-> m.config]
    BY <2>6
  <2>8. c \in Int /\ k \in Int
    BY <1>1, <2>5 DEF c, k
  <2>9. m.risk \in [Perps -> [mark : Int, status : Int]]
    <3>1. [l.risk[P] EXCEPT !.mark = k] \in [mark : Int, status : Int]
      BY <1>1, <2>5, <2>8
    <3>2. m.risk = [l.risk EXCEPT ![P] = [l.risk[P] EXCEPT !.mark = k]]
      BY <2>6
    <3> QED
      BY <1>1, <3>1, <3>2
  <2>10. \A p \in Perps : p # P => m.risk[p] = l.risk[p]
    BY <1>1, <2>6
  <2> QED
    BY <2>2, <2>6, <2>7, <2>8, <2>9, <2>10 DEF ListSet, P
<1> QED
  BY <1>2, <1>3

(* One market of many.                                                     *)
MarketWritten(g, f, n, kind, r) ==
    g = [f EXCEPT ![n].nonce = IF kind = "order" THEN @ + 1 ELSE @, ![n].book[0] = @ + r]

(* The rest of the state after a transaction.                              *)
MarketAfter(tx, m) ==
    [nonce |-> IF tx.kind = "order" THEN m.nonce + 1 ELSE m.nonce,
     book  |-> [p \in Prices |-> IF p = 0 THEN m.book[0] + RestingBy(tx) ELSE m.book[p]]]

(* The state after a transaction, part by part.                            *)
LEMMA LedgerAfterIs ==
  ASSUME NEW tx \in Txs, NEW L \in LedgerSet, NEW M, M = LedgerAfter(tx, L)
  PROVE  /\ M \in LedgerSet
         /\ \A i \in Accounts : /\ M.accounts[i] = AccountAfter(tx, L.accounts[i], i)
                                /\ M.deltas[i] = DeltaAfter(tx, L.deltas[i], i)
         /\ \A n \in {0, 2, 7} : M.markets[n] = IF n = tx.market THEN MarketAfter(tx, L.markets[n])
                                                                 ELSE L.markets[n]
         /\ \A p \in Perps \cup {NIL_MARKET} :
              M.details[p] = IF UsesOrder(tx) /\ tx.market \in Perps /\ p = tx.market
                             THEN L.markets[tx.market].book[0] + RestingBy(tx) + 1 ELSE L.details[p]
         /\ M.lists = NewLists(tx, L.lists)
         /\ M.stack = IF UsesOrder(tx) THEN L.stack + 1 ELSE L.stack
<1>1. /\ M.accounts = [i \in Accounts |-> AccountAfter(tx, L.accounts[i], i)]
      /\ M.deltas = [i \in Accounts |-> DeltaAfter(tx, L.deltas[i], i)]
      /\ M.lists = NewLists(tx, L.lists)
      /\ M.stack = IF UsesOrder(tx) THEN L.stack + 1 ELSE L.stack
      /\ M.details = IF UsesOrder(tx) /\ tx.market \in Perps
                     THEN [L.details EXCEPT ![tx.market] =
                               L.markets[tx.market].book[0] + RestingBy(tx) + 1]
                     ELSE L.details
      /\ M.markets = [L.markets EXCEPT ![tx.market].nonce = IF tx.kind = "order" THEN @ + 1 ELSE @,
                                       ![tx.market].book[0] = @ + RestingBy(tx)]
  BY DEF LedgerAfter
<1>2. M = [accounts |-> M.accounts, deltas |-> M.deltas, markets |-> M.markets,
           details |-> M.details, lists |-> M.lists, stack |-> M.stack]
  BY DEF LedgerAfter
<1>3. M.accounts \in [Accounts -> AccountSet]
  BY <1>1, AfterType DEF LedgerSet
<1>4. M.deltas \in [Accounts -> DeltaSet]
  <2>1. ASSUME NEW i \in Accounts PROVE DeltaAfter(tx, L.deltas[i], i) \in DeltaSet
    BY DeltaAfterFields DEF LedgerSet
  <2> QED
    BY <1>1, <2>1
<1>5. RestingBy(tx) \in Int /\ tx.market \in {0, 2, 7} /\ (tx.market \in Perps => tx.market # NIL_MARKET)
  BY TxIs, Sizes DEF RestingBy
<1>6. ASSUME NEW n \in {0, 2, 7}
      PROVE  M.markets[n] = IF n = tx.market THEN MarketAfter(tx, L.markets[n]) ELSE L.markets[n]
  <2> DEFINE m == L.markets[n]
  <2>1. m \in MarketSet /\ DOMAIN L.markets = {0, 2, 7}
    BY DEF LedgerSet
  <2>2. CASE n # tx.market
    BY <1>1, <2>1, <2>2
  <2>3. CASE n = tx.market
    <3> DEFINE c == IF tx.kind = "order" THEN m.nonce + 1 ELSE m.nonce
               q == M.markets[n]
    <3>1. /\ q.nonce = c /\ q.book = [m.book EXCEPT ![0] = m.book[0] + RestingBy(tx)]
          /\ DOMAIN q = {"nonce", "book"} /\ q = [x \in {"nonce", "book"} |-> q[x]]
      <4>1. L.markets \in [{0, 2, 7} -> [nonce : Int, book : [Prices -> Int]]]
        BY DEF LedgerSet, MarketSet
      <4>2. MarketWritten(M.markets, L.markets, tx.market, tx.kind, RestingBy(tx))
        BY <1>1, Zenon DEF MarketWritten
      <4> HIDE DEF m, q, c
      <4> QED
        <5> DEFINE f == L.markets
                   g == M.markets
                   t == tx.market
        <5>1. t \in {0, 2, 7} /\ f \in [{0, 2, 7} -> [nonce : Int, book : [Prices -> Int]]]
          BY <1>5, <4>1
        <5>2. MarketWritten(g, f, t, tx.kind, RestingBy(tx))
          BY <4>2
        <5> HIDE DEF f, g, t
        <5>3. /\ g[t].nonce = IF tx.kind = "order" THEN f[t].nonce + 1 ELSE f[t].nonce
              /\ g[t].book = [f[t].book EXCEPT ![0] = f[t].book[0] + RestingBy(tx)]
              /\ DOMAIN g[t] = {"nonce", "book"} /\ g[t] = [x \in {"nonce", "book"} |-> g[t][x]]
          BY <5>1, <5>2 DEF MarketWritten
        <5>4. q = g[t] /\ m = f[t]
          BY <2>3 DEF q, m, f, g, t
        <5> QED
          BY <5>3, <5>4, Zenon DEF c
    <3>2. m.book \in [Prices -> Int]
      BY <2>1 DEF MarketSet
    <3> HIDE DEF q, m, c
    <3>3. q.book = [p \in Prices |-> IF p = 0 THEN m.book[0] + RestingBy(tx) ELSE m.book[p]]
      BY <3>1, <3>2
    <3>4. q = [nonce |-> q.nonce, book |-> q.book]
      BY <3>1
    <3> QED
      BY <2>3, <3>1, <3>3, <3>4 DEF MarketAfter, q, m, c
  <2> QED
    BY <2>2, <2>3
<1>7. M.markets \in [{0, 2, 7} -> MarketSet]
  <2>1. M.markets = [n \in {0, 2, 7} |-> M.markets[n]]
    BY <1>1 DEF LedgerSet
  <2>2. ASSUME NEW n \in {0, 2, 7} PROVE M.markets[n] \in MarketSet
    <3>1. L.markets[n] \in MarketSet
      BY DEF LedgerSet
    <3>2. MarketAfter(tx, L.markets[n]) \in MarketSet
      BY <1>5, <3>1 DEF MarketAfter, MarketSet
    <3> QED
      BY <1>6, <3>1, <3>2
  <2> QED
    BY <2>1, <2>2
<1>8. /\ M.details \in [Perps \cup {NIL_MARKET} -> Int]
      /\ \A p \in Perps \cup {NIL_MARKET} :
              M.details[p] = IF UsesOrder(tx) /\ tx.market \in Perps /\ p = tx.market
                             THEN L.markets[tx.market].book[0] + RestingBy(tx) + 1 ELSE L.details[p]
  <2>1. L.details \in [Perps \cup {NIL_MARKET} -> Int] /\ L.markets[tx.market] \in MarketSet
    BY <1>5 DEF LedgerSet
  <2>2. L.markets[tx.market].book[0] \in Int
    BY <2>1, Sizes DEF MarketSet
  <2> QED
    BY <1>1, <1>5, <2>1, <2>2
<1>9. M.lists \in ListSet
  <2> DEFINE l == L.lists
  <2>1. l \in ListSet
    BY DEF LedgerSet
  <2> QED
    BY <1>1, <2>1, ListsType
<1>10. M.stack \in Int
  BY <1>1 DEF LedgerSet
<1>11. M \in LedgerSet
  BY <1>2, <1>3, <1>4, <1>7, <1>8, <1>9, <1>10 DEF LedgerSet
<1> QED
  BY <1>1, <1>6, <1>8, <1>11

(* An account without an owner is left alone by a legal transaction, but   *)
(* for the one that gives it an owner.                                     *)
LEMMA UnownedIsLeftAlone ==
  ASSUME NEW tx \in Txs, NEW L, StateInv(L), Legal(tx, L), NEW i \in Accounts, NewAt(L, i),
         ~(tx.kind = "open" /\ Holds(tx, MAKER, i))
  PROVE  LeftAlone(tx, i)
<1>1. Slots = {TAKER, MAKER, FEE}
  BY Sizes
<1>2. tx.kind \in {"move", "fill"} => \A s \in Slots : ~Holds(tx, s, i)
  BY DEF Legal, Holds
<1>3. tx.kind \in {"order", "open", "burn"} => ~Holds(tx, TAKER, i)
  BY DEF Legal, Holds
<1>4. tx.kind = "burn" => ~Holds(tx, MAKER, i)
  BY DEF Legal, Holds
<1>5. ~Owns(tx, i)
  BY <1>1, <1>2, <1>3 DEF Owns, UsesOrder, OrderSlot
<1>6. Signed(tx) => ~Holds(tx, KeySlot(tx), i)
  BY <1>1, <1>2, <1>3, <1>4 DEF Signed, KeySlot
<1> QED
  BY <1>2, <1>3, <1>4, <1>5, <1>6 DEF LeftAlone

(* A legal transaction leads from a good state to a good state.            *)
LEMMA NextState ==
  ASSUME NEW tx \in Txs, NEW L, StateInv(L), Legal(tx, L)
  PROVE  StateInv(LedgerAfter(tx, L))
<1> DEFINE M == LedgerAfter(tx, L)
<1>1. L \in LedgerSet /\ BlankInv(L) /\ NilInv(L) /\ OrderInv(L)
  BY DEF StateInv
<1>2. /\ M \in LedgerSet
      /\ \A i \in Accounts : /\ M.accounts[i] = AccountAfter(tx, L.accounts[i], i)
                             /\ M.deltas[i] = DeltaAfter(tx, L.deltas[i], i)
  BY <1>1, LedgerAfterIs
<1> HIDE DEF M
<1>3. \A i \in Accounts : L.accounts[i] \in AccountSet /\ L.deltas[i] \in DeltaSet
  BY <1>1 DEF LedgerSet
<1>4. ASSUME NEW i \in Accounts
      PROVE  /\ M.accounts[i].l1 = IF tx.kind = "open" /\ Holds(tx, MAKER, i) THEN 1
                                                                             ELSE L.accounts[i].l1
             /\ M.accounts[i].orders = OrdersAfter(tx, L.accounts[i], i)
  <2> DEFINE a == L.accounts[i]
             b == M.accounts[i]
  <2>1. a \in AccountSet /\ b = AccountAfter(tx, a, i)
    BY <1>2, <1>3
  <2> HIDE DEF a, b
  <2>2. /\ b.l1 = IF tx.kind = "open" /\ Holds(tx, MAKER, i) THEN 1 ELSE a.l1
        /\ b.orders = OrdersAfter(tx, a, i)
    BY <2>1, AfterFields
  <2> QED
    BY <2>2 DEF a, b
<1>5. ASSUME NEW i \in Accounts
      PROVE  \A p \in Perps \cup {NIL_MARKET} : M.deltas[i].positions[p] =
                   L.deltas[i].positions[p] + (IF p = tx.market THEN Filled(tx, i) ELSE 0)
  <2> DEFINE d == L.deltas[i]
             e == M.deltas[i]
  <2>1. d \in DeltaSet /\ e = DeltaAfter(tx, d, i)
    BY <1>2, <1>3
  <2> HIDE DEF d, e
  <2>2. e.positions = SizesAfter(tx, d, i)
    BY <2>1, DeltaAfterFields
  <2> QED
    BY <2>2 DEF d, e, SizesAfter
<1>6. BlankInv(M)
  <2> SUFFICES ASSUME NEW i \in Accounts \ {Treasury}, M.accounts[i].l1 = 0
               PROVE  M.accounts[i] = Blank /\ M.deltas[i].l1 = 0
    BY DEF BlankInv
  <2>1. ~(tx.kind = "open" /\ Holds(tx, MAKER, i)) /\ L.accounts[i].l1 = 0
    BY <1>4
  <2>2. L.accounts[i] = Blank /\ L.deltas[i].l1 = 0
    BY <1>1, <2>1 DEF BlankInv
  <2>3. LeftAlone(tx, i)
    BY <2>1, UnownedIsLeftAlone DEF NewAt
  <2>4. M.accounts[i] = L.accounts[i] /\ M.deltas[i] = L.deltas[i]
    BY <1>2, <1>3, <2>3, Untouched
  <2> QED
    BY <2>2, <2>4
<1>7. NilInv(M)
  <2> SUFFICES ASSUME NEW i \in Accounts
               PROVE  M.accounts[i].orders[NIL_ORDER] = 0 /\ M.deltas[i].positions[NIL_MARKET] = 0
    BY DEF NilInv
  <2>1. L.accounts[i].orders[NIL_ORDER] = 0 /\ L.deltas[i].positions[NIL_MARKET] = 0
    BY <1>1 DEF NilInv
  <2>2. NIL_ORDER \in OrderIndexes /\ NIL_ORDER = 0
    BY DEF NIL_ORDER, OrderIndexes
  <2>3. M.accounts[i].orders[NIL_ORDER] = 0
    <3> DEFINE a == L.accounts[i]
    <3>1. a.orders[0] = 0 /\ 0 \in OrderIndexes
      BY <2>1, <2>2
    <3>2. OrdersAfter(tx, a, i)[0] = 0
      <4>1. CASE Owns(tx, i)
        BY <2>2, <3>1, <4>1 DEF OrdersAfter
      <4>2. CASE ~Owns(tx, i)
        BY <3>1, <4>2 DEF OrdersAfter
      <4> QED
        BY <4>1, <4>2
    <3> QED
      BY <1>4, <2>2, <3>2
  <2>4. tx.market # NIL_MARKET
    BY TxIs, Sizes
  <2>5. M.deltas[i].positions[NIL_MARKET] = 0
    BY <1>5, <2>1, <2>4
  <2> QED
    BY <2>3, <2>5
<1>8. OrderInv(M)
  <2> SUFFICES ASSUME NEW i \in Accounts, M.accounts[i].orders[8] # 0
               PROVE  M.accounts[i].orders[3] = M.accounts[i].orders[8]
    BY DEF OrderInv
  <2> DEFINE a == L.accounts[i]
  <2>1. a.orders[8] # 0 => a.orders[3] = a.orders[8]
    BY <1>1 DEF OrderInv
  <2>2. M.accounts[i].orders = OrdersAfter(tx, a, i)
    BY <1>4
  <2>3. 3 \in OrderIndexes /\ 8 \in OrderIndexes /\ NIL_ORDER = 0 /\ tx.client \in {0, 3}
    BY TxIs DEF NIL_ORDER, OrderIndexes
  <2>4. CASE ~Owns(tx, i)
    BY <2>1, <2>2, <2>4 DEF OrdersAfter
  <2>5. CASE Owns(tx, i) /\ tx.kind = "fill"
    BY <2>2, <2>3, <2>5 DEF OrdersAfter
  <2>6. CASE Owns(tx, i) /\ tx.kind = "order"
    <3>1. i = tx.index[TAKER]
      BY <2>6 DEF Owns, OrderSlot, Holds
    <3>2. tx.client = 3 => a.orders[3] = 0
      BY <2>3, <2>6, <3>1 DEF Legal
    <3>3. /\ M.accounts[i].orders[8] = a.orders[8]
          /\ tx.client # 3 => M.accounts[i].orders[3] = a.orders[3]
      BY <2>2, <2>3, <2>6 DEF OrdersAfter
    <3> QED
      BY <2>1, <2>3, <3>2, <3>3
  <2>7. Owns(tx, i) => tx.kind \in {"order", "fill"}
    BY DEF Owns, UsesOrder
  <2> QED
    BY <2>4, <2>5, <2>6, <2>7
<1> QED
  BY <1>2, <1>6, <1>7, <1>8 DEF StateInv, M

-----------------------------------------------------------------------------
(* What the transaction makes of what it reads, part by part.              *)
LEMMA AppliedIs ==
  ASSUME NEW tx \in Txs, NEW w, Brings(tx, w), NEW x, x = Applied(tx, w)
  PROVE  /\ x.key = IF Signed(tx) THEN w.key + 1 ELSE w.key
         /\ x.order.live = CASE tx.kind = "order" -> tx.client + 1 [] tx.kind = "fill" -> 0
                             [] OTHER -> w.order.live
         /\ x.order.index_0 = w.order.index_0 /\ x.order.index_1 = w.order.index_1
         /\ x.order.owner = w.order.owner
         /\ x.resting = w.resting + RestingBy(tx)
         /\ x.details = IF UsesOrder(tx) /\ tx.market \in Perps THEN w.impact + 1 ELSE w.details
         /\ x.lists = NewLists(tx, w.lists)
         /\ x.stack = IF UsesOrder(tx) THEN w.stack + 1 ELSE w.stack
         /\ \A s \in Slots, j \in 0 .. 1 :
              /\ x.assets[s][j] = NewAsset(tx, w.assets[s][j], s, j)
              /\ x.sums[s][j] = w.sums[s][j] + MovedBy(tx, s, j)
              /\ x.assetDeltas[s][j] = w.assetDeltas[s][j] + MovedBy(tx, s, j)
         /\ \A s \in {TAKER, MAKER} : x.positionDeltas[s] = w.positionDeltas[s] + SizeBy(tx, s)
         /\ x.buckets = apply_position_delta(tx, w)
<1>1. DOMAIN w.order = {"index_0", "index_1", "owner", "live"}
  <2>1. PICK M : w.order = OrderOf(M, tx)
    BY DEF Brings
  <2> QED
    BY <2>1 DEF OrderOf
<1> DEFINE live == CASE tx.kind = "order" -> tx.client + 1 [] tx.kind = "fill" -> 0
                     [] OTHER -> w.order.live
<1>2. x.order = [w.order EXCEPT !.live = live]
  BY DEF Applied, apply_transaction
<1>3. /\ x.order.live = live /\ x.order.index_0 = w.order.index_0
      /\ x.order.index_1 = w.order.index_1 /\ x.order.owner = w.order.owner
  <2> HIDE DEF live
  <2> QED
    BY <1>1, <1>2
<1>4. /\ x.key = IF Signed(tx) THEN w.key + 1 ELSE w.key
      /\ x.resting = w.resting + RestingBy(tx)
      /\ x.details = IF UsesOrder(tx) /\ tx.market \in Perps THEN w.impact + 1 ELSE w.details
      /\ x.lists = NewLists(tx, w.lists)
      /\ x.stack = IF UsesOrder(tx) THEN w.stack + 1 ELSE w.stack
      /\ x.buckets = apply_position_delta(tx, w)
  BY DEF Applied, apply_transaction
<1>5. ASSUME NEW s \in Slots, NEW j \in 0 .. 1
      PROVE  /\ x.assets[s][j] = NewAsset(tx, w.assets[s][j], s, j)
             /\ x.sums[s][j] = w.sums[s][j] + MovedBy(tx, s, j)
             /\ x.assetDeltas[s][j] = w.assetDeltas[s][j] + MovedBy(tx, s, j)
  BY DEF Applied, apply_transaction
<1>6. ASSUME NEW s \in {TAKER, MAKER}
      PROVE  x.positionDeltas[s] = w.positionDeltas[s] + SizeBy(tx, s)
  BY DEF Applied, apply_transaction
<1> QED
  BY <1>3, <1>4, <1>5, <1>6

(* Where one account is opened in one slot, what a slot does is what is    *)
(* done to its account.                                                    *)
LEMMA SlotsHold ==
  ASSUME NEW tx \in Txs, NEW L, Legal(tx, L), NEW s \in Slots, Loaded(tx, s),
         NEW i, i = tx.index[s]
  PROVE  /\ KeySlot(tx) \in Slots /\ OrderSlot(tx) \in Slots
         /\ Loaded(tx, KeySlot(tx)) /\ Loaded(tx, OrderSlot(tx))
         /\ Holds(tx, KeySlot(tx), i) <=> s = KeySlot(tx)
         /\ Owns(tx, i) <=> UsesOrder(tx) /\ s = OrderSlot(tx)
         /\ Holds(tx, TAKER, i) <=> s = TAKER
         /\ tx.kind \in {"open", "burn", "fill"} => (Holds(tx, MAKER, i) <=> s = MAKER)
<1>1. Slots = {TAKER, MAKER, FEE} /\ TAKER # MAKER
  BY Sizes
<1>2. \A t \in Slots : Loaded(tx, t) => (Holds(tx, t, i) <=> s = t)
  BY OneSlotEach DEF Holds
<1>3. Loaded(tx, TAKER) /\ (tx.kind \in {"open", "burn", "fill"} => Loaded(tx, MAKER))
  BY OneSlotEach DEF Legal
<1>4. /\ KeySlot(tx) \in Slots /\ Loaded(tx, KeySlot(tx))
      /\ OrderSlot(tx) \in Slots /\ Loaded(tx, OrderSlot(tx))
  BY <1>1, <1>3 DEF KeySlot, OrderSlot
<1> QED
  BY <1>1, <1>2, <1>3, <1>4 DEF Owns

(* The key.                                                                *)
LEMMA KeyOpened ==
  ASSUME NEW tx \in Txs, NEW w, NEW L, StateInv(L), NEW s, s = KeySlot(tx),
         w.accounts[s].keys = KeyRoot(L.accounts[tx.index[s]])
  PROVE  KeyOpens(tx, w) <=> KeyReads(tx, w, L)
<1>1. KeyRoot(L.accounts[tx.index[s]])[0] = LeafHash(L.accounts[tx.index[s]].keys[0], 0)
  BY Sizes DEF KeyRoot
<1> QED
  BY <1>1, LeafHashTells DEF KeyOpens, KeyReads

(* What is written of the keys of an account.                              *)
LEMMA KeyWritten ==
  ASSUME NEW tx \in Txs, NEW w, Brings(tx, w), NEW L, StateInv(L), Legal(tx, L), KeyReads(tx, w, L),
         NEW s \in Slots, Loaded(tx, s), NEW a, a = L.accounts[tx.index[s]],
         w.accounts[s].keys = KeyRoot(a),
         NEW b, b = AccountAfter(tx, a, tx.index[s])
  PROVE  KeyRoot(b) = IF s = KeySlot(tx) THEN NewKeys(w, Applied(tx, w), s) ELSE w.accounts[s].keys
<1> DEFINE i == tx.index[s]
           v == Applied(tx, w).key
<1>1. a \in AccountSet
  BY TxIs DEF StateInv, LedgerSet
<1>2. b.keys = KeysAfter(tx, a, i)
  BY <1>1, AfterFields
<1>3. Holds(tx, KeySlot(tx), i) <=> s = KeySlot(tx)
  BY SlotsHold
<1>4. v = IF Signed(tx) THEN w.key + 1 ELSE w.key
  BY AppliedIs
<1> HIDE DEF i, v
<1>5. CASE s = KeySlot(tx)
  <2>1. w.key = a.keys[0]
    BY <1>5 DEF KeyReads
  <2>2. \A k \in Keys : b.keys[k] = IF k = 0 THEN v ELSE a.keys[k]
    <3>1. \A k \in Keys : b.keys[k] = IF k = 0 /\ Signed(tx) THEN a.keys[k] + 1 ELSE a.keys[k]
      BY <1>2, <1>3, <1>5 DEF KeysAfter
    <3>2. v = IF Signed(tx) THEN a.keys[0] + 1 ELSE a.keys[0]
      BY <1>4, <2>1
    <3> QED
      BY <3>1, <3>2
  <2>3. NewKeys(w, Applied(tx, w), s) = [KeyRoot(a) EXCEPT ![0] = LeafHash(v, 0)]
    BY DEF NewKeys, v
  <2>4. \A k \in Keys : KeyRoot(b)[k] = [KeyRoot(a) EXCEPT ![0] = LeafHash(v, 0)][k]
    BY <2>2 DEF KeyRoot
  <2>5. KeyRoot(b) = [KeyRoot(a) EXCEPT ![0] = LeafHash(v, 0)]
    BY <2>4 DEF KeyRoot
  <2> QED
    BY <1>5, <2>3, <2>5
<1>6. CASE s # KeySlot(tx)
  <2>1. \A k \in Keys : b.keys[k] = a.keys[k]
    BY <1>2, <1>3, <1>6 DEF KeysAfter
  <2>2. KeyRoot(b) = KeyRoot(a)
    BY <2>1 DEF KeyRoot
  <2> QED
    BY <1>6, <2>2
<1> QED
  BY <1>5, <1>6

(* What a witness says of the order, and where it is.                      *)
LEMMA OrderKnown ==
  ASSUME NEW tx \in Txs, NEW w, Brings(tx, w)
  PROVE  /\ w.order.index_0 = IF UsesOrder(tx) THEN (IF tx.kind = "fill" THEN 8 ELSE 9) ELSE NIL_ORDER
         /\ w.order.index_1 = IF UsesOrder(tx) THEN tx.client ELSE NIL_ORDER
         /\ ~UsesOrder(tx) => w.order.live = 0
         /\ (tx.kind = "fill" => tx.index[TAKER] # tx.index[MAKER]) =>
              OrdersOf(tx, w, Applied(tx, w)) = OrderSlot(tx)
         /\ \A L : OrderReads(tx, w, L) <=>
              (UsesOrder(tx) => w.order.live =
                 L.accounts[tx.index[OrderSlot(tx)]].orders[IF tx.kind = "fill" THEN 8 ELSE 9])
<1>1. PICK M : w.order = OrderOf(M, tx)
  BY DEF Brings
<1>2. /\ w.order.index_0 = IF UsesOrder(tx) THEN (IF tx.kind = "fill" THEN 8 ELSE 9) ELSE NIL_ORDER
      /\ w.order.index_1 = IF UsesOrder(tx) THEN tx.client ELSE NIL_ORDER
      /\ w.order.owner = IF UsesOrder(tx) THEN tx.index[OrderSlot(tx)] ELSE tx.index[TAKER]
      /\ ~UsesOrder(tx) => w.order.live = 0
  BY <1>1 DEF OrderOf
<1>3. /\ Applied(tx, w).order.index_0 = w.order.index_0
      /\ Applied(tx, w).order.owner = w.order.owner
  BY AppliedIs
<1>4. ASSUME tx.kind = "fill" => tx.index[TAKER] # tx.index[MAKER]
      PROVE  OrdersOf(tx, w, Applied(tx, w)) = OrderSlot(tx)
  <2>1. CASE tx.kind = "fill"
    BY <1>2, <1>3, <1>4, <2>1
       DEF OrdersOf, OrderSlot, UsesOrder, is_sender_receiver_different, NIL_ORDER
  <2>2. CASE tx.kind # "fill"
    <3>1. OrderSlot(tx) = TAKER /\ w.order.owner = tx.index[TAKER]
      BY <1>2, <2>2 DEF OrderSlot
    <3> QED
      BY <1>3, <3>1 DEF OrdersOf, is_sender_receiver_different
  <2> QED
    BY <2>1, <2>2
<1>5. ASSUME NEW L
      PROVE  OrderReads(tx, w, L) <=>
              (UsesOrder(tx) => w.order.live =
                 L.accounts[tx.index[OrderSlot(tx)]].orders[IF tx.kind = "fill" THEN 8 ELSE 9])
  BY <1>1 DEF OrderReads, OrderOf
<1> QED
  BY <1>2, <1>4, <1>5

(* An order is opened only if it is the state's.                           *)
LEMMA OrderOpened ==
  ASSUME NEW tx \in Txs, NEW w, Brings(tx, w), NEW L, StateInv(L), NEW s, s = OrderSlot(tx),
         w.accounts[s].orders = OrderRoot(L.accounts[tx.index[s]]),
         OrdersOpen(w, Applied(tx, w), s)
  PROVE  OrderReads(tx, w, L)
<1> DEFINE a == L.accounts[tx.index[s]]
           o == IF tx.kind = "fill" THEN 8 ELSE 9
<1>1. SUFFICES ASSUME UsesOrder(tx) PROVE w.order.live = a.orders[o]
  BY OrderKnown
<1>2. w.order.index_0 = o /\ o \in OrderIndexes
  BY <1>1, OrderKnown DEF OrderIndexes
<1>3. OrderRoot(a)[o] = LeafHash(w.order.live, 0)
  BY <1>2 DEF OrdersOpen
<1>4. OrderRoot(a)[o] = LeafHash(a.orders[o], 0)
  BY <1>2 DEF OrderRoot
<1> QED
  BY <1>3, <1>4, LeafHashTells

(* The state's order is opened, and its leaves are written.                *)
LEMMA OrderWritten ==
  ASSUME NEW tx \in Txs, NEW w, Brings(tx, w), NEW L, StateInv(L), Legal(tx, L), OrderReads(tx, w, L),
         NEW s \in Slots, s = OrderSlot(tx), NEW a, a = L.accounts[tx.index[s]],
         w.accounts[s].orders = OrderRoot(a),
         NEW b, b = AccountAfter(tx, a, tx.index[s])
  PROVE  /\ OrdersOpen(w, Applied(tx, w), s)
         /\ OrderRoot(b) = NewOrders(w, Applied(tx, w), s)
<1> DEFINE i == tx.index[s]
           x == Applied(tx, w)
           i0 == w.order.index_0
           i1 == w.order.index_1
           old == w.order.live
           new == x.order.live
           r == OrderRoot(a)
           mid == [r EXCEPT ![i0] = LeafHash(new, 0)]
           c0 == IF i1 = NIL_ORDER THEN <<>> ELSE LeafHash(old, 0)
           c1 == IF i1 = NIL_ORDER THEN <<>> ELSE LeafHash(new, 0)
<1>1. a \in AccountSet /\ a.orders[0] = 0 /\ (a.orders[8] # 0 => a.orders[3] = a.orders[8])
  <2>1. i \in Accounts
    BY TxIs
  <2> QED
    BY <2>1 DEF StateInv, LedgerSet, NilInv, OrderInv, NIL_ORDER
<1>2. b.orders = OrdersAfter(tx, a, i)
  BY <1>1, AfterFields
<1>3. Owns(tx, i) <=> UsesOrder(tx)
  <2>1. tx.kind = "fill" => Loaded(tx, MAKER)
    BY OneSlotEach DEF Legal
  <2>2. Loaded(tx, s)
    BY <2>1, OneSlotEach DEF OrderSlot
  <2> QED
    BY <2>2, SlotsHold
<1>4. OrderIndexes = {0, 2, 3, 8, 9} /\ NIL_ORDER = 0 /\ MAX_CLIENT_ORDER = 3 /\ tx.client \in {0, 3}
  BY TxIs DEF OrderIndexes, NIL_ORDER, MAX_CLIENT_ORDER
<1>5. /\ tx.kind = "order" => /\ UsesOrder(tx) /\ i0 = 9 /\ i1 = tx.client /\ old = a.orders[9] /\ old = 0
                              /\ new = tx.client + 1 /\ (tx.client # 0 => a.orders[3] = 0)
      /\ tx.kind = "fill" => /\ UsesOrder(tx) /\ i0 = 8 /\ i1 = 3 /\ tx.client = 3
                             /\ old = a.orders[8] /\ old = 4 /\ new = 0 /\ a.orders[3] = 4
      /\ ~UsesOrder(tx) => i0 = 0 /\ i1 = 0 /\ old = 0 /\ new = 0
  <2>1. /\ i0 = IF UsesOrder(tx) THEN (IF tx.kind = "fill" THEN 8 ELSE 9) ELSE NIL_ORDER
        /\ i1 = IF UsesOrder(tx) THEN tx.client ELSE NIL_ORDER
        /\ ~UsesOrder(tx) => old = 0
        /\ UsesOrder(tx) => old = a.orders[IF tx.kind = "fill" THEN 8 ELSE 9]
    BY OrderKnown
  <2>2. new = CASE tx.kind = "order" -> tx.client + 1 [] tx.kind = "fill" -> 0 [] OTHER -> old
    BY AppliedIs
  <2>3. /\ tx.kind = "order" => s = TAKER /\ a.orders[9] = 0 /\ (tx.client # 0 => a.orders[tx.client] = 0)
        /\ tx.kind = "fill" => s = MAKER /\ a.orders[8] = tx.client + 1 /\ tx.client = 3
    BY <1>4, TxIs DEF Legal, OrderSlot
  <2>4. UsesOrder(tx) <=> tx.kind \in {"order", "fill"}
    BY DEF UsesOrder
  <2> HIDE DEF i0, i1, old, new
  <2> QED
    BY <1>1, <1>4, <2>1, <2>2, <2>3, <2>4
<1>6. /\ OrdersOpen(w, x, s) <=> /\ i0 = 0 \/ i0 > 3
                                 /\ i1 <= 3
                                 /\ r[i0] = LeafHash(old, 0)
                                 /\ mid[i1] = c0
      /\ NewOrders(w, x, s) = [mid EXCEPT ![i1] = c1]
  <2>1. i1 = x.order.index_1
    BY AppliedIs
  <2> QED
    BY <1>4, <2>1 DEF OrdersOpen, NewOrders, AfterOrderLeaf, ClientLeaf, recalculate_root
<1>7. r = [o \in OrderIndexes |-> LeafHash(a.orders[o], 0)]
  BY DEF OrderRoot
<1>8. OrderRoot(b) = [o \in OrderIndexes |-> LeafHash(b.orders[o], 0)]
  BY DEF OrderRoot
<1> HIDE DEF i, x, i0, i1, old, new, r, c0, c1
<1>9. LeafHash(0, 0) = <<>>
  BY DEF LeafHash
<1>10. CASE tx.kind = "order"
  <2>1. /\ r[9] = LeafHash(0, 0) /\ (tx.client = 3 => r[3] = LeafHash(0, 0)) /\ r[0] = LeafHash(0, 0)
        /\ DOMAIN r = OrderIndexes
    BY <1>1, <1>4, <1>5, <1>7, <1>10
  <2>2. mid[i1] = c0
    BY <1>4, <1>5, <1>9, <1>10, <2>1 DEF c0
  <2>3. \A o \in OrderIndexes : [mid EXCEPT ![i1] = c1][o] =
          IF o = 9 THEN LeafHash(new, 0) ELSE IF o = i1 THEN c1 ELSE r[o]
    BY <1>4, <1>5, <1>10, <2>1
  <2>4. \A o \in OrderIndexes : b.orders[o] =
          IF o = 9 \/ (o = tx.client /\ o # 0) THEN tx.client + 1 ELSE a.orders[o]
    BY <1>2, <1>3, <1>4, <1>5, <1>10 DEF OrdersAfter
  <2> DEFINE n == [mid EXCEPT ![i1] = c1]
  <2> HIDE DEF mid
  <2>5. ASSUME NEW o \in OrderIndexes PROVE OrderRoot(b)[o] = n[o]
    <3>1. OrderRoot(b)[o] = LeafHash(b.orders[o], 0) /\ r[o] = LeafHash(a.orders[o], 0)
      BY <1>7, <1>8
    <3>2. n[o] = IF o = 9 THEN LeafHash(new, 0) ELSE IF o = i1 THEN c1 ELSE r[o]
      BY <2>3
    <3>3. b.orders[o] = IF o = 9 \/ (o = tx.client /\ o # 0) THEN tx.client + 1 ELSE a.orders[o]
      BY <2>4
    <3>4. i1 = tx.client /\ new = tx.client + 1 /\ c1 = IF i1 = 0 THEN <<>> ELSE LeafHash(new, 0)
      BY <1>4, <1>5, <1>10 DEF c1
    <3>5. a.orders[0] = 0
      BY <1>1
    <3> HIDE DEF n
    <3> QED
      BY <1>9, <3>1, <3>2, <3>3, <3>4, <3>5
  <2>6. OrderRoot(b) = n
    <3>1. DOMAIN n = OrderIndexes
      BY <2>1 DEF mid
    <3>2. n = [o \in OrderIndexes |-> n[o]]
      BY <3>1
    <3> HIDE DEF n
    <3> QED
      BY <1>8, <2>5, <3>2
  <2> QED
    BY <1>4, <1>5, <1>6, <1>10, <2>1, <2>2, <2>6 DEF x
<1>11. CASE tx.kind = "fill"
  <2>1. r[8] = LeafHash(4, 0) /\ r[3] = LeafHash(4, 0) /\ DOMAIN r = OrderIndexes
    BY <1>1, <1>4, <1>5, <1>7, <1>11
  <2>2. mid[i1] = c0
    BY <1>4, <1>5, <1>11, <2>1 DEF c0
  <2>3. \A o \in OrderIndexes : [mid EXCEPT ![i1] = c1][o] =
          IF o = 8 THEN LeafHash(0, 0) ELSE IF o = 3 THEN c1 ELSE r[o]
    BY <1>4, <1>5, <1>11, <2>1
  <2>4. \A o \in OrderIndexes : b.orders[o] = IF o = 8 \/ o = 3 THEN 0 ELSE a.orders[o]
    <3>1. Owns(tx, i) /\ tx.client = 3 /\ NIL_ORDER = 0
      BY <1>3, <1>4, <1>5, <1>11
    <3> HIDE DEF i
    <3>2. b.orders = [o \in OrderIndexes |-> IF o = 8 \/ (o = 3 /\ o # 0) THEN 0 ELSE a.orders[o]]
      BY <1>2, <1>11, <3>1 DEF OrdersAfter
    <3> QED
      BY <3>2
  <2> DEFINE n == [mid EXCEPT ![i1] = c1]
  <2> HIDE DEF mid
  <2>5. ASSUME NEW o \in OrderIndexes PROVE OrderRoot(b)[o] = n[o]
    <3>1. OrderRoot(b)[o] = LeafHash(b.orders[o], 0) /\ r[o] = LeafHash(a.orders[o], 0)
      BY <1>7, <1>8
    <3>2. n[o] = IF o = 8 THEN LeafHash(0, 0) ELSE IF o = 3 THEN c1 ELSE r[o]
      BY <2>3
    <3>3. b.orders[o] = IF o = 8 \/ o = 3 THEN 0 ELSE a.orders[o]
      BY <2>4
    <3>4. c1 = LeafHash(0, 0)
      BY <1>4, <1>5, <1>11 DEF c1
    <3> HIDE DEF n
    <3> QED
      BY <3>1, <3>2, <3>3, <3>4
  <2>6. OrderRoot(b) = n
    <3>1. DOMAIN n = OrderIndexes
      BY <2>1 DEF mid
    <3>2. n = [o \in OrderIndexes |-> n[o]]
      BY <3>1
    <3> HIDE DEF n
    <3> QED
      BY <1>8, <2>5, <3>2
  <2> QED
    BY <1>4, <1>5, <1>6, <1>11, <2>1, <2>2, <2>6 DEF x
<1>12. CASE ~UsesOrder(tx)
  <2>1. r[0] = LeafHash(0, 0) /\ DOMAIN r = OrderIndexes
    BY <1>1, <1>4, <1>7
  <2>2. mid[i1] = c0
    BY <1>4, <1>5, <1>9, <1>12, <2>1 DEF c0
  <2>3. \A o \in OrderIndexes : [mid EXCEPT ![i1] = c1][o] = r[o]
    BY <1>4, <1>5, <1>9, <1>12, <2>1 DEF c1
  <2>4. b.orders = a.orders
    BY <1>2, <1>3, <1>12 DEF OrdersAfter
  <2> DEFINE n == [mid EXCEPT ![i1] = c1]
  <2>5. OrderRoot(b) = n
    <3>1. n = [o \in OrderIndexes |-> n[o]]
      BY <2>1
    <3>2. \A o \in OrderIndexes : n[o] = r[o]
      BY <2>3
    <3> HIDE DEF n
    <3>3. n = r
      BY <1>7, <3>1, <3>2
    <3> QED
      BY <1>7, <1>8, <2>4, <3>3
  <2> QED
    BY <1>4, <1>5, <1>6, <1>12, <2>1, <2>2, <2>5 DEF x
<1> QED
  BY <1>10, <1>11, <1>12 DEF UsesOrder

(* An asset after the transaction.                                         *)
LEMMA NewAssetIs ==
  ASSUME NEW tx, NEW e \in Asset, NEW s, NEW j
  PROVE  NewAsset(tx, e, s, j) =
           [balance |-> e.balance + MovedBy(tx, s, j),
            locked  |-> e.locked + (IF tx.kind = "order" /\ s = TAKER /\ j = 0 THEN 1 ELSE 0)]
<1> DEFINE f == NewAsset(tx, e, s, j)
           v == e.balance + MovedBy(tx, s, j)
           k == IF tx.kind = "order" /\ s = TAKER /\ j = 0 THEN e.locked + 1 ELSE e.locked
<1>1. f = [e EXCEPT !.balance = v, !.locked = k]
  BY Zenon DEF NewAsset
<1>2. k = e.locked + (IF tx.kind = "order" /\ s = TAKER /\ j = 0 THEN 1 ELSE 0)
  BY DEF Asset
<1>3. DOMAIN e = {"balance", "locked"}
  BY DEF Asset
<1> HIDE DEF f, v, k
<1>4. f = [x \in {"balance", "locked"} |-> f[x]] /\ f.balance = v /\ f.locked = k
  BY <1>1, <1>3
<1>5. f = [balance |-> f.balance, locked |-> f.locked]
  BY <1>4
<1>6. f = [balance |-> v, locked |-> k]
  BY <1>4, <1>5
<1> QED
  BY <1>2, <1>6 DEF f, v

(* A transaction that names one asset twice, as it has no use for any,     *)
(* moves nothing.                                                          *)
LEMMA NothingMoves ==
  ASSUME NEW tx \in Txs, tx.assets[1] = tx.assets[2], NEW w, Brings(tx, w), NEW s \in Slots,
         NEW j \in 0 .. 1, NEW x, x = Applied(tx, w)
  PROVE  /\ x.assets[s][j] = w.assets[s][j] /\ x.sums[s][j] = w.sums[s][j]
         /\ x.assetDeltas[s][j] = w.assetDeltas[s][j]
<1>1. tx.kind \in {"open", "burn"}
  BY TxIs
<1>2. MovedBy(tx, s, j) = 0
  BY <1>1, Movement DEF MovedBy
<1>3. /\ x.assets[s][j] = NewAsset(tx, w.assets[s][j], s, j)
      /\ x.sums[s][j] = w.sums[s][j] + 0 /\ x.assetDeltas[s][j] = w.assetDeltas[s][j] + 0
  BY <1>2, AppliedIs
<1>4. w.assets[s][j] \in Asset /\ w.sums[s][j] \in Int /\ w.assetDeltas[s][j] \in Int
  BY DEF Brings
<1>5. NewAsset(tx, w.assets[s][j], s, j) =
         [balance |-> w.assets[s][j].balance + 0, locked |-> w.assets[s][j].locked + 0]
  <2>1. NewAsset(tx, w.assets[s][j], s, j) =
         [balance |-> w.assets[s][j].balance + MovedBy(tx, s, j),
          locked  |-> w.assets[s][j].locked + (IF tx.kind = "order" /\ s = TAKER /\ j = 0 THEN 1 ELSE 0)]
    BY <1>4, NewAssetIs
  <2> QED
    BY <1>1, <1>2, <2>1
<1> QED
  BY <1>3, <1>4, <1>5 DEF Asset

(* The two assets a transaction names are opened if they are the state's.  *)
LEMMA AssetsOpened ==
  ASSUME NEW tx \in Txs, NEW w, Brings(tx, w), NEW L, StateInv(L), NEW s \in Slots
  PROVE  /\ w.accounts[s].assets = AssetRoot(L.accounts[tx.index[s]]) =>
              (OwnTree(tx, w, s).ok <=> AssetReads(tx, w, L, s))
         /\ w.accounts[s].aggregated = SumRoot(L.accounts[tx.index[s]]) =>
              (SumTree(tx, w, s).ok <=> SumReads(tx, w, L, s))
         /\ HashTree(w.deltas[s].assets, L.deltas[tx.index[s]].assets, 0) =>
              (ChangeTree(tx, w, s).ok <=> ChangeReads(tx, w, L, s))
<1> DEFINE a == L.accounts[tx.index[s]]
           d == L.deltas[tx.index[s]]
           x == Applied(tx, w)
<1>2. ASSUME tx.assets[1] = tx.assets[2], NEW j \in 0 .. 1
      PROVE  /\ x.assets[s][j] = w.assets[s][j] /\ x.sums[s][j] = w.sums[s][j]
             /\ x.assetDeltas[s][j] = w.assetDeltas[s][j]
  BY <1>2, NothingMoves
<1>3. 0 \in 0 .. 1 /\ 1 \in 0 .. 1 /\ \A j \in 0 .. 1 : j = 0 \/ j = 1
  OBVIOUS
<1>4. ASSUME w.accounts[s].assets = AssetRoot(a)
      PROVE  OwnTree(tx, w, s).ok <=> AssetReads(tx, w, L, s)
  <2>1. HashTree(w.accounts[s].assets, a.assets, NoAsset)
    BY <1>4 DEF HashTree, AssetRoot
  <2> HIDE DEF a, x
  <2>2. OwnTree(tx, w, s).ok <=> w.assets[s][0] = a.assets[tx.assets[1]] /\ w.assets[s][1] = a.assets[tx.assets[2]]
    BY <1>2, <1>3, <2>1, AssetLeaves DEF OwnTree, x
  <2> QED
    BY <1>3, <2>2 DEF AssetReads, a
<1>5. ASSUME w.accounts[s].aggregated = SumRoot(a)
      PROVE  SumTree(tx, w, s).ok <=> SumReads(tx, w, L, s)
  <2>1. HashTree(w.accounts[s].aggregated, a.aggregated, 0)
    BY <1>5 DEF HashTree, SumRoot
  <2> HIDE DEF a, x
  <2>2. SumTree(tx, w, s).ok <=> w.sums[s][0] = a.aggregated[tx.assets[1]] /\ w.sums[s][1] = a.aggregated[tx.assets[2]]
    BY <1>2, <1>3, <2>1, AssetLeaves DEF SumTree, x
  <2> QED
    BY <1>3, <2>2 DEF SumReads, a
<1>6. ASSUME HashTree(w.deltas[s].assets, d.assets, 0)
      PROVE  ChangeTree(tx, w, s).ok <=> ChangeReads(tx, w, L, s)
  <2> HIDE DEF d, x
  <2>2. ChangeTree(tx, w, s).ok <=> w.assetDeltas[s][0] = d.assets[tx.assets[1]] /\ w.assetDeltas[s][1] = d.assets[tx.assets[2]]
    BY <1>2, <1>3, <1>6, AssetLeaves DEF ChangeTree, x
  <2> QED
    BY <1>3, <2>2 DEF ChangeReads, d
<1> QED
  BY <1>4, <1>5, <1>6

(* What is written of the assets of an account.                            *)
LEMMA AssetsWritten ==
  ASSUME NEW tx \in Txs, NEW w, Brings(tx, w), NEW L, StateInv(L), Legal(tx, L),
         NEW s \in Slots, Loaded(tx, s),
         NEW a, a = L.accounts[tx.index[s]], w.accounts[s].assets = AssetRoot(a),
         AssetReads(tx, w, L, s),
         NEW b, b = AccountAfter(tx, a, tx.index[s])
  PROVE  OwnTree(tx, w, s).ok /\ OwnTree(tx, w, s).root = AssetRoot(b)
<1> DEFINE i == tx.index[s]
           x == Applied(tx, w)
           k0 == tx.assets[1]
           k1 == tx.assets[2]
           u == AssetsAfter(tx, a, i)
<1>1. a \in AccountSet
  BY TxIs DEF StateInv, LedgerSet
<1>2. b.assets = u
  BY <1>1, AfterFields
<1>3. k0 \in AssetIndexes /\ k1 \in AssetIndexes
  BY TxIs
<1>4. \A k \in AssetIndexes : a.assets[k] \in Asset
  BY <1>1 DEF AccountSet
<1>5. OwnTree(tx, w, s).ok
  BY AssetsOpened
<1>6. w.assets[s][0] = a.assets[k0] /\ w.assets[s][1] = a.assets[k1]
  BY DEF AssetReads
<1>7. Owns(tx, i) <=> UsesOrder(tx) /\ s = OrderSlot(tx)
  BY SlotsHold
<1>8. tx.kind = "order" => (Owns(tx, i) <=> s = TAKER)
  BY <1>7 DEF UsesOrder, OrderSlot
<1>9. /\ x.assets[s][0] = [balance |-> a.assets[k0].balance + MovedFor(tx, i, 0),
                           locked |-> a.assets[k0].locked + (IF tx.kind = "order" /\ s = TAKER THEN 1 ELSE 0)]
      /\ x.assets[s][1] = [balance |-> a.assets[k1].balance + MovedFor(tx, i, 1),
                           locked |-> a.assets[k1].locked + 0]
  <2>1. /\ x.assets[s][0] = NewAsset(tx, a.assets[k0], s, 0)
        /\ x.assets[s][1] = NewAsset(tx, a.assets[k1], s, 1)
    <3> DEFINE y == x
    <3>1. y = Applied(tx, w)
      OBVIOUS
    <3> HIDE DEF x, y
    <3>2. \A j \in 0 .. 1 : y.assets[s][j] = NewAsset(tx, w.assets[s][j], s, j)
      BY <3>1, AppliedIs
    <3> QED
      BY <1>6, <3>2 DEF y
  <2>2. ASSUME NEW e \in Asset, NEW j
        PROVE  NewAsset(tx, e, s, j) =
           [balance |-> e.balance + MovedFor(tx, i, j),
            locked  |-> e.locked + (IF tx.kind = "order" /\ s = TAKER /\ j = 0 THEN 1 ELSE 0)]
    BY NewAssetIs DEF MovedBy
  <2> HIDE DEF x, i, k0, k1
  <2> QED
    BY <1>3, <1>4, <2>1, <2>2, ZenonT(60)
<1>10. u[k0] = x.assets[s][0] /\ u[k1] = x.assets[s][1]
  <2>1. /\ u[k0] = [balance |-> a.assets[k0].balance + AccountMoved(tx, i, k0),
                    locked |-> a.assets[k0].locked + (IF tx.kind = "order" /\ Owns(tx, i) THEN 1 ELSE 0)]
        /\ u[k1] = [balance |-> a.assets[k1].balance + AccountMoved(tx, i, k1),
                    locked |-> a.assets[k1].locked +
                         (IF tx.kind = "order" /\ Owns(tx, i) /\ k1 = k0 THEN 1 ELSE 0)]
    BY <1>3 DEF AssetsAfter
  <2>2. CASE k0 # k1
    <3>1. AccountMoved(tx, i, k0) = MovedFor(tx, i, 0) /\ AccountMoved(tx, i, k1) = MovedFor(tx, i, 1)
      BY <2>2, Movement
    <3> HIDE DEF u, x, i, k0, k1
    <3> QED
      BY <1>8, <1>9, <2>1, <2>2, <3>1
  <2>3. CASE k0 = k1
    <3>1. tx.kind \in {"open", "burn"}
      BY <2>3, TxIs
    <3>2. /\ AccountMoved(tx, i, k0) = 0 /\ AccountMoved(tx, i, k1) = 0
          /\ MovedFor(tx, i, 0) = 0 /\ MovedFor(tx, i, 1) = 0
      BY <3>1, Movement
    <3> HIDE DEF u, x, i, k0, k1
    <3> QED
      BY <1>9, <2>1, <3>1, <3>2
  <2> QED
    BY <2>2, <2>3
<1>11. ASSUME NEW k \in AssetIndexes, k # k0, k # k1 PROVE u[k] = a.assets[k]
  <2>1. u[k] = [balance |-> a.assets[k].balance + 0, locked |-> a.assets[k].locked + 0]
    BY <1>11, Movement DEF AssetsAfter
  <2> QED
    <3>1. PICK e \in Asset : e = a.assets[k]
      BY <1>4, <1>11
    <3>2. e = [balance |-> e.balance, locked |-> e.locked] /\ e.balance \in Int /\ e.locked \in Int
      BY DEF Asset
    <3>3. e.balance + 0 = e.balance /\ e.locked + 0 = e.locked
      BY <3>2
    <3> QED
      BY <2>1, <3>1, <3>2, <3>3, Zenon
<1>12. HashTree(w.accounts[s].assets, a.assets, NoAsset)
  BY DEF HashTree, AssetRoot
<1> HIDE DEF u, i
<1>13. HashTree(OwnTree(tx, w, s).root, u, NoAsset)
  <2>1. tx.assets[1] = tx.assets[2] => x.assets[s][0] = w.assets[s][0] /\ x.assets[s][1] = w.assets[s][1]
    BY NothingMoves
  <2> QED
    BY <1>5, <1>10, <1>11, <1>12, <2>1, AssetLeaves DEF OwnTree
<1> QED
  BY <1>2, <1>5, <1>13 DEF HashTree, AssetRoot

(* The amounts v of an account, after what moves.                          *)
Moves(tx, i, v, u) == u = [k \in AssetIndexes |-> v[k] + AccountMoved(tx, i, k)]

(* The public sums of an account, and the changes of its balances, follow *)
(* what moves.                                                             *)
LEMMA SumsWritten ==
  ASSUME NEW tx \in Txs, NEW w, Brings(tx, w), NEW s \in Slots, NEW i, i = tx.index[s],
         NEW v \in [AssetIndexes -> Int], NEW u, Moves(tx, i, v, u)
  PROVE  /\ (/\ HashTree(w.accounts[s].aggregated, v, 0)
             /\ w.sums[s][0] = v[tx.assets[1]] /\ w.sums[s][1] = v[tx.assets[2]])
            => SumTree(tx, w, s).ok /\ HashTree(SumTree(tx, w, s).root, u, 0)
         /\ (/\ HashTree(w.deltas[s].assets, v, 0)
             /\ w.assetDeltas[s][0] = v[tx.assets[1]] /\ w.assetDeltas[s][1] = v[tx.assets[2]])
            => ChangeTree(tx, w, s).ok /\ HashTree(ChangeTree(tx, w, s).root, u, 0)
<1> DEFINE x == Applied(tx, w)
           k0 == tx.assets[1]
           k1 == tx.assets[2]
<1>1. k0 \in AssetIndexes /\ k1 \in AssetIndexes
  BY TxIs
<1>2. MovedFor(tx, i, 0) \in Int /\ MovedFor(tx, i, 1) \in Int
  BY Movement
<1>3. ASSUME NEW k \in AssetIndexes, k # k0, k # k1 PROVE u[k] = v[k]
  <2>1. u[k] = v[k] + 0
    BY <1>3, Movement DEF Moves
  <2> QED
    BY <2>1
<1>4. /\ x.sums[s][0] = w.sums[s][0] + MovedFor(tx, i, 0)
      /\ x.sums[s][1] = w.sums[s][1] + MovedFor(tx, i, 1)
      /\ x.assetDeltas[s][0] = w.assetDeltas[s][0] + MovedFor(tx, i, 0)
      /\ x.assetDeltas[s][1] = w.assetDeltas[s][1] + MovedFor(tx, i, 1)
  BY AppliedIs DEF MovedBy
<1>5. u[k0] = v[k0] + MovedFor(tx, i, 0) /\ u[k1] = v[k1] + MovedFor(tx, i, 1)
  <2>1. u[k0] = v[k0] + AccountMoved(tx, i, k0) /\ u[k1] = v[k1] + AccountMoved(tx, i, k1)
    BY <1>1 DEF Moves
  <2>2. CASE k0 # k1
    BY <2>1, <2>2, Movement
  <2>3. CASE k0 = k1
    <3>1. tx.kind \in {"open", "burn"}
      BY <2>3, TxIs
    <3>2. /\ AccountMoved(tx, i, k0) = 0 /\ AccountMoved(tx, i, k1) = 0
          /\ MovedFor(tx, i, 0) = 0 /\ MovedFor(tx, i, 1) = 0
      BY <3>1, Movement
    <3> QED
      BY <2>1, <3>2
  <2> QED
    BY <2>2, <2>3
<1>6. tx.assets[1] = tx.assets[2] => /\ x.sums[s][0] = w.sums[s][0] /\ x.sums[s][1] = w.sums[s][1]
                                     /\ x.assetDeltas[s][0] = w.assetDeltas[s][0]
                                     /\ x.assetDeltas[s][1] = w.assetDeltas[s][1]
  BY NothingMoves
<1> HIDE DEF x
<1>8. ASSUME HashTree(w.accounts[s].aggregated, v, 0),
             w.sums[s][0] = v[tx.assets[1]], w.sums[s][1] = v[tx.assets[2]]
      PROVE  SumTree(tx, w, s).ok /\ HashTree(SumTree(tx, w, s).root, u, 0)
  <2>1. w.sums[s][0] = v[k0] /\ w.sums[s][1] = v[k1]
    BY <1>8
  <2>2. u[k0] = x.sums[s][0] /\ u[k1] = x.sums[s][1]
    BY <1>4, <1>5, <2>1
  <2> QED
    BY <1>3, <1>6, <1>8, <2>1, <2>2, AssetLeaves DEF SumTree, x
<1>9. ASSUME HashTree(w.deltas[s].assets, v, 0),
             w.assetDeltas[s][0] = v[tx.assets[1]], w.assetDeltas[s][1] = v[tx.assets[2]]
      PROVE  ChangeTree(tx, w, s).ok /\ HashTree(ChangeTree(tx, w, s).root, u, 0)
  <2>1. w.assetDeltas[s][0] = v[k0] /\ w.assetDeltas[s][1] = v[k1]
    BY <1>9
  <2>2. u[k0] = x.assetDeltas[s][0] /\ u[k1] = x.assetDeltas[s][1]
    BY <1>4, <1>5, <2>1
  <2> QED
    BY <1>3, <1>6, <1>9, <2>1, <2>2, AssetLeaves DEF ChangeTree, x
<1> QED
  BY <1>8, <1>9

-----------------------------------------------------------------------------
(* The changes of position sizes a fill reads.                             *)
SizeReads(tx, w, L) ==
    tx.kind = "fill" =>
      \A s \in {TAKER, MAKER} :
        w.positionDeltas[s] = L.deltas[tx.index[s]].positions[perps_market_index(tx.market)]

(* A fill changes two sizes, of one market: one of them is not zero before *)
(* or not zero after.  Nothing else changes a size.                        *)
LEMMA SizeMarket ==
  ASSUME NEW tx \in Txs, NEW w, Brings(tx, w), NEW x, x = Applied(tx, w)
  PROVE  /\ tx.kind = "fill" => /\ DeltaMarket(tx, w, x) = tx.market /\ tx.market = 0
                                /\ perps_market_index(tx.market) = 0
                                /\ x.positionDeltas[TAKER] = w.positionDeltas[TAKER] + 1
                                /\ x.positionDeltas[MAKER] = w.positionDeltas[MAKER] - 1
         /\ tx.kind # "fill" => \A s \in {TAKER, MAKER} : x.positionDeltas[s] = w.positionDeltas[s]
         /\ DeltaMarket(tx, w, x) \in Perps \cup {NIL_MARKET}
         /\ DeltaMarket(tx, w, x) # perps_market_index(tx.market) =>
              DeltaMarket(tx, w, x) = NIL_MARKET /\ \A s \in {TAKER, MAKER} : w.positionDeltas[s] = 0
<1>1. \A s \in {TAKER, MAKER} : /\ x.positionDeltas[s] = w.positionDeltas[s] + SizeBy(tx, s)
                                /\ w.positionDeltas[s] \in Int
  BY AppliedIs DEF Brings
<1>2. /\ tx.kind = "fill" => SizeBy(tx, TAKER) = 1 /\ SizeBy(tx, MAKER) = -1
      /\ tx.kind # "fill" => SizeBy(tx, TAKER) = 0 /\ SizeBy(tx, MAKER) = 0
  BY DEF SizeBy, TAKER, MAKER, FEE
<1>3. /\ x.positionDeltas[TAKER] = w.positionDeltas[TAKER] + SizeBy(tx, TAKER)
      /\ x.positionDeltas[MAKER] = w.positionDeltas[MAKER] + SizeBy(tx, MAKER)
      /\ w.positionDeltas[TAKER] \in Int /\ w.positionDeltas[MAKER] \in Int
  BY <1>1
<1>4. ASSUME tx.kind = "fill"
      PROVE  /\ DeltaMarket(tx, w, x) = tx.market /\ tx.market = 0
             /\ perps_market_index(tx.market) = 0
             /\ x.positionDeltas[TAKER] = w.positionDeltas[TAKER] + 1
             /\ x.positionDeltas[MAKER] = w.positionDeltas[MAKER] - 1
  <2>1. tx.market = 0 /\ perps_market_index(tx.market) = 0
    BY <1>4, TxIs, PerpsIndex, Sizes
  <2>2. x.positionDeltas[TAKER] = w.positionDeltas[TAKER] + 1
    BY <1>2, <1>3, <1>4
  <2>3. x.positionDeltas[MAKER] = w.positionDeltas[MAKER] - 1
    BY <1>2, <1>3, <1>4
  <2>4. ~(w.positionDeltas[TAKER] = 0 /\ x.positionDeltas[TAKER] = 0)
    BY <1>3, <2>2
  <2>5. DeltaMarket(tx, w, x) = perps_market_index(tx.market)
    BY <2>4 DEF DeltaMarket
  <2> QED
    BY <2>1, <2>2, <2>3, <2>5
<1>5. ASSUME tx.kind # "fill"
      PROVE  \A s \in {TAKER, MAKER} : x.positionDeltas[s] = w.positionDeltas[s]
  BY <1>2, <1>3, <1>5
<1>6. /\ DeltaMarket(tx, w, x) \in Perps \cup {NIL_MARKET}
      /\ DeltaMarket(tx, w, x) # perps_market_index(tx.market) =>
           DeltaMarket(tx, w, x) = NIL_MARKET /\ \A s \in {TAKER, MAKER} : w.positionDeltas[s] = 0
  BY PerpsIndex DEF DeltaMarket
<1> QED
  BY <1>4, <1>5, <1>6

(* A fill that opens the two leaves read them as they are, and the current *)
(* ones open.                                                              *)
LEMMA SizesOpened ==
  ASSUME NEW tx \in Txs, NEW w, Brings(tx, w), NEW L, StateInv(L),
         tx.kind = "fill" => tx.index[TAKER] # tx.index[MAKER],
         \A s \in {TAKER, MAKER} : w.deltas[s].positions = DeltaPositionRoot(L.deltas[tx.index[s]])
  PROVE  /\ PositionsOpen(tx, w, Applied(tx, w)) => SizeReads(tx, w, L)
         /\ (\A s \in {TAKER, MAKER} : w.positionDeltas[s] =
               L.deltas[tx.index[s]].positions[perps_market_index(tx.market)])
            => PositionsOpen(tx, w, Applied(tx, w))
<1> DEFINE x == Applied(tx, w)
           m == DeltaMarket(tx, w, x)
           n == perps_market_index(tx.market)
<1>1. n \in Perps \cup {NIL_MARKET} /\ m \in Perps \cup {NIL_MARKET}
  BY PerpsIndex, SizeMarket
<1>2. ASSUME NEW s \in {TAKER, MAKER} PROVE tx.index[s] \in Accounts /\ L.deltas[tx.index[s]] \in DeltaSet
  BY <1>2, TxIs, Sizes DEF StateInv, LedgerSet
<1>3. ASSUME NEW s \in {TAKER, MAKER}, NEW p \in Perps \cup {NIL_MARKET}
      PROVE  w.deltas[s].positions[p] = LeafHash(L.deltas[tx.index[s]].positions[p], 0)
  <2>1. p \in DOMAIN L.deltas[tx.index[s]].positions
    BY <1>2 DEF DeltaSet
  <2> QED
    BY <2>1 DEF DeltaPositionRoot
<1>4. ASSUME PositionsOpen(tx, w, x), tx.kind = "fill", NEW s \in {TAKER, MAKER}
      PROVE  w.positionDeltas[s] = L.deltas[tx.index[s]].positions[n]
  <2>1. Loaded(tx, s)
    BY <1>4, OneSlotEach
  <2>2. m = n
    BY <1>4, SizeMarket
  <2>3. w.deltas[s].positions[n] = LeafHash(w.positionDeltas[s], 0)
    BY <1>4, <2>1, <2>2 DEF PositionsOpen
  <2> HIDE DEF n, m
  <2> QED
    BY <1>1, <1>3, <2>3, LeafHashTells
<1>5. ASSUME \A s \in {TAKER, MAKER} : w.positionDeltas[s] = L.deltas[tx.index[s]].positions[n]
      PROVE  PositionsOpen(tx, w, x)
  <2>1. SUFFICES ASSUME NEW s \in {TAKER, MAKER}
                 PROVE  w.deltas[s].positions[m] = LeafHash(w.positionDeltas[s], 0)
    BY DEF PositionsOpen
  <2>2. CASE m = n
    BY <1>3, <1>5, <2>2, <1>1
  <2>3. CASE m # n
    <3>1. m = NIL_MARKET /\ w.positionDeltas[s] = 0
      BY <2>3, SizeMarket
    <3>2. L.deltas[tx.index[s]].positions[m] = 0
      BY <1>2, <3>1 DEF StateInv, NilInv
    <3> HIDE DEF n, m
    <3> QED
      BY <1>1, <1>3, <3>1, <3>2
  <2> QED
    BY <2>2, <2>3
<1> QED
  BY <1>4, <1>5 DEF SizeReads

(* What is written of the changes of an account's position sizes.          *)
LEMMA SizesWritten ==
  ASSUME NEW tx \in Txs, NEW w, Brings(tx, w), NEW L, StateInv(L), Legal(tx, L),
         SizeReads(tx, w, L), PositionsOpen(tx, w, Applied(tx, w)),
         NEW s \in Slots, Loaded(tx, s), NEW d, d = L.deltas[tx.index[s]],
         w.deltas[s].positions = DeltaPositionRoot(d),
         NEW e, e = DeltaAfter(tx, d, tx.index[s])
  PROVE  DeltaPositionRoot(e) = IF s # FEE THEN NewPositions(tx, w, Applied(tx, w), s)
                                           ELSE w.deltas[s].positions
<1> DEFINE x == Applied(tx, w)
           m == DeltaMarket(tx, w, x)
           i == tx.index[s]
           All == Perps \cup {NIL_MARKET}
           n == NewPositions(tx, w, x, s)
<1>1. d \in DeltaSet
  BY TxIs DEF StateInv, LedgerSet
<1>2. e.positions = SizesAfter(tx, d, i)
  BY <1>1, DeltaAfterFields
<1>3. /\ DOMAIN d.positions = All
      /\ \A p \in All : d.positions[p] \in Int
  BY <1>1 DEF DeltaSet
<1>4. w.deltas[s].positions = [p \in All |-> LeafHash(d.positions[p], 0)]
  BY <1>3 DEF DeltaPositionRoot
<1>5. DeltaPositionRoot(e) = [p \in All |-> LeafHash(SizesAfter(tx, d, i)[p], 0)]
  BY <1>2 DEF DeltaPositionRoot, SizesAfter
<1>6. \A p \in All : SizesAfter(tx, d, i)[p] = d.positions[p] + (IF p = tx.market THEN Filled(tx, i) ELSE 0)
  BY DEF SizesAfter
<1>7. CASE Filled(tx, i) = 0 /\ (s # FEE => x.positionDeltas[s] = w.positionDeltas[s])
  <2>1. \A p \in All : SizesAfter(tx, d, i)[p] = d.positions[p]
    BY <1>3, <1>6, <1>7
  <2>2. DeltaPositionRoot(e) = w.deltas[s].positions
    BY <1>4, <1>5, <2>1
  <2>3. ASSUME s # FEE PROVE n = w.deltas[s].positions
    <3>1. s \in {TAKER, MAKER}
      BY <2>3, Sizes
    <3>2. w.deltas[s].positions[m] = LeafHash(x.positionDeltas[s], 0)
      BY <1>7, <2>3, <3>1 DEF PositionsOpen
    <3> HIDE DEF m, x
    <3>3. n = [w.deltas[s].positions EXCEPT ![m] = w.deltas[s].positions[m]]
      BY <3>2 DEF NewPositions, m
    <3> QED
      BY <1>4, <3>3
  <2> QED
    BY <2>2, <2>3
<1>8. CASE tx.kind = "fill" /\ s # FEE
  <2>1. s \in {TAKER, MAKER}
    BY <1>8, Sizes
  <2>2. m = 0 /\ tx.market = 0 /\ perps_market_index(tx.market) = 0
    BY <1>8, SizeMarket
  <2>3. w.positionDeltas[s] = d.positions[0]
    BY <1>8, <2>1, <2>2 DEF SizeReads
  <2>4. x.positionDeltas[s] = d.positions[0] + Filled(tx, i)
    <3>1. (Holds(tx, TAKER, i) <=> s = TAKER) /\ (Holds(tx, MAKER, i) <=> s = MAKER)
      BY <1>8, SlotsHold
    <3>2. Filled(tx, i) = IF s = TAKER THEN 1 ELSE -1
      BY <1>8, <2>1, <3>1, Sizes DEF Filled
    <3>3. /\ x.positionDeltas[TAKER] = w.positionDeltas[TAKER] + 1
          /\ x.positionDeltas[MAKER] = w.positionDeltas[MAKER] - 1
      BY <1>8, SizeMarket
    <3>4. 0 \in All /\ d.positions[0] \in Int
      BY <1>3, Sizes
    <3> HIDE DEF x, i
    <3> QED
      BY <2>1, <2>3, <3>2, <3>3, <3>4, Sizes
  <2>5. n = [p \in All |-> IF p = 0 THEN LeafHash(x.positionDeltas[s], 0) ELSE LeafHash(d.positions[p], 0)]
    <3> HIDE DEF x
    <3>1. n = [w.deltas[s].positions EXCEPT ![0] = LeafHash(x.positionDeltas[s], 0)]
      BY <2>2 DEF NewPositions, m
    <3> QED
      BY <1>4, <3>1
  <2>6. \A p \in All : SizesAfter(tx, d, i)[p] = IF p = 0 THEN x.positionDeltas[s] ELSE d.positions[p]
    <3> HIDE DEF x, i
    <3> QED
      BY <1>3, <1>6, <2>2, <2>4
  <2> QED
    BY <1>5, <1>8, <2>5, <2>6
<1>9. CASE tx.kind # "fill" \/ s = FEE
  <2>1. Filled(tx, i) = 0
    <3>1. s = FEE => ~Holds(tx, TAKER, i) /\ ~Holds(tx, MAKER, i)
      BY OneSlotEach DEF Holds
    <3> QED
      BY <1>9, <3>1 DEF Filled
  <2>2. s # FEE => x.positionDeltas[s] = w.positionDeltas[s]
    BY <1>9, SizeMarket, Sizes
  <2> QED
    BY <1>7, <2>1, <2>2
<1> QED
  BY <1>8, <1>9

-----------------------------------------------------------------------------
(* The buckets f with bucket b taken from g.                               *)
Rehashed(f, g, b) == [f EXCEPT ![b] = g[b]]

(* One bucket is hashed again when one market has changed: the others are  *)
(* what they would be.                                                     *)
LEMMA OneBucket ==
  ASSUME NEW P, NEW Q, NEW n \in Perps \cup {NIL_MARKET}, \A p \in Perps : p # n => Q[p] = P[p]
  PROVE  /\ Rehashed(PositionBuckets(P), PositionBuckets(Q), n \div BUCKET) = PositionBuckets(Q)
         /\ Rehashed(RiskBuckets(P), RiskBuckets(Q), n \div BUCKET) = RiskBuckets(Q)
<1> DEFINE b == n \div BUCKET
<1>1. b \in 0 .. 1
  BY Sizes
<1>2. ASSUME NEW c \in 0 .. 1, c # b, NEW p \in InBucket(c) PROVE Q[p] = P[p]
  BY <1>2, Sizes
<1> HIDE DEF b
<1>3. /\ [p \in InBucket(0) |-> Q[p]] = [p \in InBucket(0) |-> P[p]] \/ b = 0
      /\ [p \in InBucket(1) |-> Q[p]] = [p \in InBucket(1) |-> P[p]] \/ b = 1
      /\ [p \in InBucket(0) |-> Q[p].size] = [p \in InBucket(0) |-> P[p].size] \/ b = 0
      /\ [p \in InBucket(1) |-> Q[p].size] = [p \in InBucket(1) |-> P[p].size] \/ b = 1
      /\ [p \in InBucket(0) |-> Q[p].mark] = [p \in InBucket(0) |-> P[p].mark] \/ b = 0
      /\ [p \in InBucket(1) |-> Q[p].mark] = [p \in InBucket(1) |-> P[p].mark] \/ b = 1
  BY <1>2
<1>4. ASSUME NEW c \in 0 .. 1, c # b
      PROVE  PositionBuckets(Q)[c] = PositionBuckets(P)[c] /\ RiskBuckets(Q)[c] = RiskBuckets(P)[c]
  <2>1. c = 0 \/ c = 1
    OBVIOUS
  <2>2. /\ PositionBuckets(Q)[c] = [pub |-> [p \in InBucket(c) |-> Q[p].size], all |-> [p \in InBucket(c) |-> Q[p]]]
        /\ PositionBuckets(P)[c] = [pub |-> [p \in InBucket(c) |-> P[p].size], all |-> [p \in InBucket(c) |-> P[p]]]
        /\ RiskBuckets(Q)[c] = [pub |-> [p \in InBucket(c) |-> Q[p].mark], all |-> [p \in InBucket(c) |-> Q[p]]]
        /\ RiskBuckets(P)[c] = [pub |-> [p \in InBucket(c) |-> P[p].mark], all |-> [p \in InBucket(c) |-> P[p]]]
    BY DEF PositionBuckets, RiskBuckets, BUCKET
  <2>3. /\ [p \in InBucket(c) |-> Q[p]] = [p \in InBucket(c) |-> P[p]]
        /\ [p \in InBucket(c) |-> Q[p].size] = [p \in InBucket(c) |-> P[p].size]
        /\ [p \in InBucket(c) |-> Q[p].mark] = [p \in InBucket(c) |-> P[p].mark]
    BY <1>3, <1>4, <2>1
  <2> QED
    BY <2>2, <2>3
<1>5. \A R : /\ PositionBuckets(R) = [c \in 0 .. 1 |-> PositionBuckets(R)[c]]
             /\ RiskBuckets(R) = [c \in 0 .. 1 |-> RiskBuckets(R)[c]]
  BY DEF PositionBuckets, RiskBuckets, BUCKET
<1>6. ASSUME NEW f, NEW g, f = [c \in 0 .. 1 |-> f[c]], g = [c \in 0 .. 1 |-> g[c]],
             \A c \in 0 .. 1 : c # b => g[c] = f[c]
      PROVE  [f EXCEPT ![b] = g[b]] = g
  <2> DEFINE h == [f EXCEPT ![b] = g[b]]
  <2>1. h = [c \in 0 .. 1 |-> h[c]]
    BY <1>6
  <2>2. \A c \in 0 .. 1 : h[c] = g[c]
    BY <1>6, <1>1
  <2> HIDE DEF h
  <2>3. h = g
    BY <1>6, <2>1, <2>2
  <2> QED
    BY <2>3 DEF h
<1>7. [PositionBuckets(P) EXCEPT ![b] = PositionBuckets(Q)[b]] = PositionBuckets(Q)
  BY <1>4, <1>5, <1>6
<1>8. [RiskBuckets(P) EXCEPT ![b] = RiskBuckets(Q)[b]] = RiskBuckets(Q)
  BY <1>4, <1>5, <1>6
<1> QED
  BY <1>7, <1>8 DEF b, Rehashed

(* What is written of the positions of an account in the first two slots,  *)
(* and in the third, where nothing changes them.                           *)
LEMMA PositionsWritten ==
  ASSUME NEW tx \in Txs, NEW w, Brings(tx, w), NEW L, StateInv(L), Legal(tx, L),
         NEW s \in Slots, Loaded(tx, s), NEW a, a = L.accounts[tx.index[s]],
         w.accounts[s].positions = a.positions
  PROVE  /\ s # FEE => Applied(tx, w).buckets[s] = PositionBuckets(PositionsAfter(tx, a, tx.index[s]))
         /\ s = FEE => PositionsAfter(tx, a, tx.index[s]) = a.positions
<1> DEFINE i == tx.index[s]
           Q == PositionsAfter(tx, a, i)
           n == perps_market_index(tx.market)
           ch == [p \in Perps |-> IF p = n THEN NewPosition(tx, a.positions[p], s) ELSE a.positions[p]]
<1>1. a \in AccountSet
  BY TxIs DEF StateInv, LedgerSet
<1>2. a.positions \in [Perps -> Position]
  BY <1>1 DEF AccountSet
<1>3. \A p \in Perps : p = n <=> p = tx.market
  BY PerpsIndex, Sizes DEF perps_market_index
<1>4. Owns(tx, i) <=> UsesOrder(tx) /\ s = OrderSlot(tx)
  BY SlotsHold
<1>5. Filled(tx, i) = SizeBy(tx, s) /\ (s = FEE => SizeBy(tx, s) = 0)
  <2>1. CASE tx.kind = "fill"
    <3>1. (Holds(tx, TAKER, i) <=> s = TAKER) /\ (Holds(tx, MAKER, i) <=> s = MAKER)
      BY <2>1, SlotsHold
    <3> HIDE DEF i
    <3> QED
      BY <2>1, <3>1, Sizes DEF Filled, SizeBy
  <2>2. CASE tx.kind # "fill"
    BY <2>2 DEF Filled, SizeBy
  <2> QED
    BY <2>1, <2>2
<1>6. SizeBy(tx, s) \in Int /\ RestingBy(tx) \in Int
  BY Sizes DEF SizeBy, RestingBy
<1>7. ASSUME NEW e \in Position
      PROVE  NewPosition(tx, e, s) =
               [size |-> e.size + SizeBy(tx, s),
                tied |-> e.tied + (IF UsesOrder(tx) /\ s = OrderSlot(tx) THEN RestingBy(tx) ELSE 0)]
  <2>1. e = [size |-> e.size, tied |-> e.tied] /\ e.size \in Int /\ e.tied \in Int
    BY DEF Position
  <2>2. CASE UsesOrder(tx) /\ s = OrderSlot(tx)
    <3>1. NewPosition(tx, e, s) = [e EXCEPT !.size = e.size + SizeBy(tx, s), !.tied = e.tied + RestingBy(tx)]
      BY <2>2, Zenon DEF NewPosition
    <3> HIDE DEF NewPosition
    <3> QED
      BY <2>1, <2>2, <3>1
  <2>3. CASE ~(UsesOrder(tx) /\ s = OrderSlot(tx))
    <3>1. NewPosition(tx, e, s) = [e EXCEPT !.size = e.size + SizeBy(tx, s), !.tied = e.tied]
      BY <2>3, Zenon DEF NewPosition
    <3>2. NewPosition(tx, e, s) = [size |-> e.size + SizeBy(tx, s), tied |-> e.tied]
      <4> HIDE DEF NewPosition
      <4> QED
        BY <2>1, <3>1
    <3>3. e.tied + 0 = e.tied
      BY <2>1
    <3> QED
      BY <2>3, <3>2, <3>3
  <2> QED
    BY <2>2, <2>3
<1>8. ASSUME NEW p \in Perps PROVE ch[p] = Q[p]
  <2>1. a.positions[p] \in Position
    BY <1>2
  <2>2. Q[p] = IF p # tx.market THEN a.positions[p]
               ELSE [size |-> a.positions[p].size + SizeBy(tx, s),
                     tied |-> a.positions[p].tied + (IF Owns(tx, i) THEN RestingBy(tx) ELSE 0)]
    BY <1>5 DEF PositionsAfter
  <2> HIDE DEF Q, n, i
  <2> QED
    BY <1>3, <1>4, <1>7, <2>1, <2>2
<1>9. Q = [p \in Perps |-> Q[p]]
  BY DEF PositionsAfter
<1>10. ch = Q
  <2> HIDE DEF Q
  <2>1. ch = [p \in Perps |-> ch[p]]
    OBVIOUS
  <2> HIDE DEF ch
  <2> QED
    BY <1>8, <1>9, <2>1
<1>11. ASSUME s # FEE
       PROVE  Applied(tx, w).buckets[s] = PositionBuckets(Q)
  <2>1. s \in {TAKER, MAKER}
    BY <1>11, Sizes
  <2>2. apply_position_delta(tx, w)[s] =
          [PositionBuckets(a.positions) EXCEPT ![n \div BUCKET] = PositionBuckets(ch)[n \div BUCKET]]
    BY <2>1 DEF apply_position_delta
  <2>3. n \in Perps \cup {NIL_MARKET}
    BY PerpsIndex
  <2>4. \A p \in Perps : p # n => Q[p] = a.positions[p]
    BY <1>3 DEF PositionsAfter
  <2> HIDE DEF Q, n, ch
  <2>5. apply_position_delta(tx, w)[s] =
          Rehashed(PositionBuckets(a.positions), PositionBuckets(Q), n \div BUCKET)
    BY <1>10, <2>2, Zenon DEF Rehashed
  <2>6. Rehashed(PositionBuckets(a.positions), PositionBuckets(Q), n \div BUCKET) = PositionBuckets(Q)
    BY <2>3, <2>4, OneBucket
  <2>7. apply_position_delta(tx, w)[s] = PositionBuckets(Q)
    BY <2>5, <2>6, Zenon
  <2> QED
    BY <2>7, AppliedIs
<1>12. ASSUME s = FEE PROVE Q = a.positions
  <2>1. ~Owns(tx, i)
    BY <1>4, <1>12, Sizes DEF OrderSlot
  <2>2. \A p \in Perps : Q[p] = IF p # tx.market THEN a.positions[p]
                                ELSE [size |-> a.positions[p].size + 0, tied |-> a.positions[p].tied + 0]
    BY <1>5, <1>12, <2>1 DEF PositionsAfter
  <2>3. ASSUME NEW p \in Perps PROVE Q[p] = a.positions[p]
    <3>1. a.positions[p] \in Position
      BY <1>2
    <3> DEFINE e == a.positions[p]
    <3>2. e = [size |-> e.size + 0, tied |-> e.tied + 0]
      <4> HIDE DEF e
      <4> QED
        BY <3>1 DEF Position, e
    <3> QED
      BY <2>2, <3>2
  <2> HIDE DEF Q
  <2> QED
    BY <1>2, <1>9, <2>3
<1> QED
  BY <1>11, <1>12

(* What is written of the fields of an account that are not trees.         *)
LEMMA ScalarsWritten ==
  ASSUME NEW tx \in Txs, NEW w, Brings(tx, w), NEW L, StateInv(L), Legal(tx, L),
         NEW s \in Slots, Loaded(tx, s), NEW a, a = L.accounts[tx.index[s]],
         Agree(w.accounts[s], LoadedAccount(a)),
         NEW b, b = AccountAfter(tx, a, tx.index[s]),
         NEW n, n = NewAccount(tx, w.accounts[s], s)
  PROVE  n.l1 = b.l1 /\ n.shares = b.shares /\ n.fixed = b.fixed /\ n.open = b.open
<1> DEFINE i == tx.index[s]
           c == w.accounts[s]
<1>1. a \in AccountSet
  BY TxIs DEF StateInv, LedgerSet
<1>2. c.l1 = a.l1 /\ c.shares = a.shares /\ c.fixed = a.fixed /\ c.open = a.open
  BY <1>1, LoadedType DEF Agree
<1>3. DOMAIN c = AccountFields
  <2>1. c \in LoadedSet
    BY DEF Brings, Proper
  <2> QED
    BY <2>1 DEF LoadedSet, AccountFields
<1>4. /\ n.l1 = IF tx.kind = "open" /\ s = MAKER THEN 1 ELSE c.l1
      /\ n.shares = IF tx.kind = "burn" /\ s = TAKER THEN c.shares + 1 ELSE c.shares
      /\ n.fixed = IF tx.kind = "burn" /\ s = MAKER THEN c.fixed + 1 ELSE c.fixed
      /\ n.open = IF UsesOrder(tx) /\ s = OrderSlot(tx) THEN c.open + 1 ELSE c.open
  BY <1>3, NewAccountFields
<1>5. /\ b.l1 = IF tx.kind = "open" /\ Holds(tx, MAKER, i) THEN 1 ELSE a.l1
      /\ b.shares = IF tx.kind = "burn" /\ Holds(tx, TAKER, i) THEN a.shares + 1 ELSE a.shares
      /\ b.fixed = IF tx.kind = "burn" /\ Holds(tx, MAKER, i) THEN a.fixed + 1 ELSE a.fixed
      /\ b.open = IF Owns(tx, i) THEN a.open + 1 ELSE a.open
  BY <1>1, AfterFields
<1>6. /\ Owns(tx, i) <=> UsesOrder(tx) /\ s = OrderSlot(tx)
      /\ Holds(tx, TAKER, i) <=> s = TAKER
      /\ tx.kind \in {"open", "burn"} => (Holds(tx, MAKER, i) <=> s = MAKER)
  BY SlotsHold
<1> HIDE DEF i, c
<1> QED
  BY <1>2, <1>4, <1>5, <1>6

(* What a slot's leaf covers of an account but the fields of the account   *)
(* itself: that of the third slot is not computed again.                   *)
Part(tx, w, z, s) ==
    IF s = FEE THEN PartialOf(w.accounts[s]) ELSE AccountPartial(z, Applied(tx, w).buckets[s])

(* A slot rewrites its account's leaf to that of the account after the     *)
(* transaction.                                                            *)
LEMMA AccountWritten ==
  ASSUME NEW tx \in Txs, NEW w, Brings(tx, w), NEW L, StateInv(L), Legal(tx, L),
         KeyReads(tx, w, L), OrderReads(tx, w, L),
         NEW s \in Slots, Loaded(tx, s), NEW a, a = L.accounts[tx.index[s]],
         Agree(w.accounts[s], LoadedAccount(a)), AssetReads(tx, w, L, s),
         NEW b, b = AccountAfter(tx, a, tx.index[s]),
         NEW z, Rewritten(tx, w, z, s)
  PROVE  /\ AccountElements(z, Part(tx, w, z, s)) =
              AccountElements(LoadedAccount(b), PartialOf(LoadedAccount(b)))
         /\ Part(tx, w, z, s) = PartialOf(LoadedAccount(b))
         /\ z.l1 = b.l1
<1> DEFINE i == tx.index[s]
           c == w.accounts[s]
           n == NewAccount(tx, c, s)
           la == LoadedAccount(a)
           lb == LoadedAccount(b)
<1>1. a \in AccountSet
  BY TxIs DEF StateInv, LedgerSet
<1>2. b \in AccountSet
  BY <1>1, AfterType
<1>3. /\ c.keys = KeyRoot(a) /\ c.orders = OrderRoot(a) /\ c.assets = AssetRoot(a)
      /\ c.positions = a.positions /\ c.shares = a.shares /\ c.fixed = a.fixed
  BY <1>1, LoadedType DEF Agree
<1>4. /\ lb.l1 = b.l1 /\ lb.shares = b.shares /\ lb.fixed = b.fixed /\ lb.open = b.open
      /\ lb.positions = b.positions /\ lb.keys = KeyRoot(b) /\ lb.orders = OrderRoot(b)
      /\ lb.assets = AssetRoot(b)
  BY <1>2, LoadedType
<1>5. n.l1 = b.l1 /\ n.shares = b.shares /\ n.fixed = b.fixed /\ n.open = b.open
  BY ScalarsWritten
<1>6. z.l1 = b.l1 /\ z.shares = b.shares /\ z.fixed = b.fixed /\ z.open = b.open
  BY <1>5 DEF Rewritten
<1>7. z.keys = KeyRoot(b)
  <2>1. KeyRoot(b) = IF s = KeySlot(tx) THEN NewKeys(w, Applied(tx, w), s) ELSE c.keys
    BY <1>3, KeyWritten
  <2> QED
    BY <2>1 DEF Rewritten
<1>8. z.orders = OrderRoot(b)
  <2>1. OrdersOf(tx, w, Applied(tx, w)) = OrderSlot(tx)
    BY OrderKnown DEF Legal
  <2>2. CASE s = OrderSlot(tx)
    BY <1>3, <2>1, <2>2, OrderWritten DEF Rewritten
  <2>3. CASE s # OrderSlot(tx)
    <3>1. ~Owns(tx, i)
      BY <2>3, SlotsHold
    <3>2. b.orders = OrdersAfter(tx, a, i)
      BY <1>1, AfterFields
    <3>3. OrdersAfter(tx, a, i) = a.orders
      BY <3>1 DEF OrdersAfter
    <3>4. OrderRoot(b) = OrderRoot(a)
      BY <3>2, <3>3 DEF OrderRoot
    <3> QED
      BY <1>3, <2>1, <2>3, <3>4 DEF Rewritten
  <2> QED
    BY <2>2, <2>3
<1>9. z.assets = AssetRoot(b)
  BY <1>3, AssetsWritten DEF Rewritten
<1>10. b.positions = PositionsAfter(tx, a, i)
  BY <1>1, AfterFields
<1>11. Part(tx, w, z, s) = PartialOf(lb)
  <2>1. PartialOf(lb) = AccountPartial(lb, PositionBuckets(b.positions))
    BY <1>4 DEF PartialOf
  <2>2. CASE s # FEE
    <3>1. Applied(tx, w).buckets[s] = PositionBuckets(b.positions)
      BY <1>3, <1>10, <2>2, PositionsWritten
    <3>2. Part(tx, w, z, s) = AccountPartial(z, PositionBuckets(b.positions))
      BY <2>2, <3>1 DEF Part
    <3> HIDE DEF lb
    <3> QED
      BY <1>4, <1>6, <2>1, <3>2 DEF AccountPartial
  <2>3. CASE s = FEE
    <3>1. b.positions = a.positions
      BY <1>3, <1>10, <2>3, PositionsWritten
    <3>2. n.shares = c.shares /\ n.fixed = c.fixed
      <4>1. DOMAIN c = AccountFields
        <5>1. c \in LoadedSet
          BY DEF Brings, Proper
        <5> QED
          BY <5>1 DEF LoadedSet, AccountFields
      <4> QED
        BY <2>3, <4>1, NewAccountFields, Sizes
    <3>3. Part(tx, w, z, s) = AccountPartial(c, PositionBuckets(b.positions))
      BY <1>3, <2>3, <3>1 DEF Part, PartialOf
    <3> HIDE DEF lb, c, n
    <3> QED
      BY <1>4, <1>5, <2>1, <3>2, <3>3 DEF AccountPartial
  <2> QED
    BY <2>2, <2>3
<1>12. AccountElements(z, Part(tx, w, z, s)) = AccountElements(lb, PartialOf(lb))
  <2> HIDE DEF lb
  <2> QED
    BY <1>4, <1>6, <1>7, <1>8, <1>9, <1>11 DEF AccountElements
<1> QED
  BY <1>6, <1>11, <1>12

(* So does a slot of the heavy circuit with the account's changes.         *)
LEMMA DeltaWritten ==
  ASSUME NEW tx \in Txs, NEW w, Brings(tx, w), NEW L, StateInv(L), Legal(tx, L),
         SizeReads(tx, w, L), PositionsOpen(tx, w, Applied(tx, w)),
         NEW s \in Slots, Loaded(tx, s), SlotReads(tx, w, L, s),
         NEW d, d = L.deltas[tx.index[s]],
         NEW e, e = DeltaAfter(tx, d, tx.index[s]),
         NEW z, RewrittenDelta(tx, w, z, s)
  PROVE  /\ z.l1 = e.l1 /\ z.shares = e.shares /\ z.positions = DeltaPositionRoot(e)
         /\ z.assets = [k \in AssetIndexes |-> LeafHash(e.assets[k], 0)]
         /\ s = FEE => /\ w.deltas[s].l1 = e.l1 /\ w.deltas[s].shares = e.shares
                       /\ w.deltas[s].positions = DeltaPositionRoot(e)
<1> DEFINE i == tx.index[s]
           a == L.accounts[i]
           c == w.accounts[s]
           n == NewAccount(tx, c, s)
           t == w.deltas[s]
<1>1. a \in AccountSet /\ d \in DeltaSet /\ i \in Accounts
  BY TxIs DEF StateInv, LedgerSet
<1>2. /\ c = LoadedAccount(a) /\ t = LoadedDelta(d)
      /\ t.l1 = d.l1 /\ t.shares = d.shares /\ t.positions = DeltaPositionRoot(d)
      /\ t.assets = [k \in AssetIndexes |-> LeafHash(d.assets[k], 0)]
  BY <1>1, LoadedDeltaType DEF SlotReads, TrueAccount, TrueDelta
<1>3. /\ e.l1 = IF tx.kind = "open" /\ Holds(tx, MAKER, i) THEN 1 ELSE d.l1
      /\ e.shares = IF tx.kind = "burn" /\ Holds(tx, TAKER, i) THEN d.shares + 1 ELSE d.shares
      /\ e.assets = ChangesAfter(tx, d, i)
  BY <1>1, DeltaAfterFields
<1>4. /\ Holds(tx, TAKER, i) <=> s = TAKER
      /\ tx.kind = "open" => (Holds(tx, MAKER, i) <=> s = MAKER)
  BY SlotsHold
<1>5. DeltaPositionRoot(e) = IF s # FEE THEN NewPositions(tx, w, Applied(tx, w), s) ELSE t.positions
  BY <1>2, SizesWritten
<1>6. z.positions = DeltaPositionRoot(e)
  BY <1>5 DEF RewrittenDelta
<1>7. z.shares = e.shares
  <2>1. z.shares = IF tx.kind = "burn" /\ s = TAKER THEN t.shares + 1 ELSE t.shares
    BY DEF RewrittenDelta
  <2> HIDE DEF i, t
  <2> QED
    BY <1>2, <1>3, <1>4, <2>1
<1>8. Agree(c, LoadedAccount(a))
  <2> HIDE DEF c, a
  <2> QED
    BY <1>2 DEF Agree
<1>9. n.l1 = AccountAfter(tx, a, i).l1
  BY <1>8, ScalarsWritten
<1>10. AccountAfter(tx, a, i).l1 = IF tx.kind = "open" /\ Holds(tx, MAKER, i) THEN 1 ELSE a.l1
  BY <1>1, AfterFields
<1>11. is_new_account(tx, w, s) <=> NewAt(L, i)
  BY <1>8, NewIsNew DEF TrueAccount
<1>12. NewAt(L, i) => a.l1 = 0 /\ d.l1 = 0
  BY <1>1 DEF NewAt, StateInv, BlankInv
<1>13. tx.kind = "open" /\ s = MAKER => NewAt(L, i)
  BY DEF Legal
<1>14. z.l1 = e.l1
  <2>1. z.l1 = IF s # FEE /\ is_new_account(tx, w, s) THEN n.l1 ELSE t.l1
    BY DEF RewrittenDelta
  <2>2. MAKER # FEE
    BY Sizes
  <2>3. t.l1 = d.l1
    BY <1>2
  <2> HIDE DEF i, t, n, a
  <2> QED
    BY <1>3, <1>4, <1>9, <1>10, <1>11, <1>12, <1>13, <2>1, <2>2, <2>3
<1>15. z.assets = [k \in AssetIndexes |-> LeafHash(e.assets[k], 0)]
  <2>1. z.assets = ChangeTree(tx, w, s).root
    BY DEF RewrittenDelta
  <2>2. d.assets \in [AssetIndexes -> Int]
    BY <1>1 DEF DeltaSet
  <2>3. w.assetDeltas[s][0] = d.assets[tx.assets[1]] /\ w.assetDeltas[s][1] = d.assets[tx.assets[2]]
    <3>1. 0 \in 0 .. 1 /\ 1 \in 0 .. 1
      OBVIOUS
    <3> QED
      BY <3>1, SMTT(30) DEF SlotReads, SumReads, ChangeReads
  <2>4. HashTree(ChangeTree(tx, w, s).root, ChangesAfter(tx, d, i), 0)
    <3> DEFINE v == d.assets
               u == ChangesAfter(tx, d, i)
    <3>1. Moves(tx, i, v, u)
      BY DEF ChangesAfter, Moves
    <3>2. HashTree(t.assets, v, 0)
      BY <1>2 DEF HashTree
    <3>3. v \in [AssetIndexes -> Int] /\ w.assetDeltas[s][0] = v[tx.assets[1]]
          /\ w.assetDeltas[s][1] = v[tx.assets[2]]
      BY <2>2, <2>3
    <3> HIDE DEF u, v
    <3>4. HashTree(ChangeTree(tx, w, s).root, u, 0)
      BY <3>1, <3>2, <3>3, SumsWritten
    <3> QED
      BY <3>4 DEF u
  <2> QED
    BY <1>3, <2>1, <2>4 DEF HashTree
<1>16. s = FEE => t.l1 = e.l1 /\ t.shares = e.shares /\ t.positions = DeltaPositionRoot(e)
  <2>1. FEE # MAKER /\ FEE # TAKER
    BY Sizes
  <2>2. t.l1 = d.l1 /\ t.shares = d.shares
    BY <1>2
  <2> HIDE DEF i, t
  <2> QED
    BY <1>3, <1>4, <1>5, <2>1, <2>2
<1> QED
  BY <1>6, <1>7, <1>14, <1>15, <1>16

-----------------------------------------------------------------------------
(* Two accounts with the same elements have the same leaves.               *)
LEMMA SameLeaves ==
  ASSUME NEW a, NEW b, NEW i, NEW p, AccountElements(a, p) = AccountElements(b, p), a.l1 = b.l1
  PROVE  /\ HashFromPartial(a, i, p).account = HashFromPartial(b, i, p).account
         /\ a.aggregated = b.aggregated =>
              HashFromPartial(a, i, p).pub = HashFromPartial(b, i, p).pub
BY DEF HashFromPartial

(* The account's leaf a slot writes is that of the state after.            *)
LEMMA LeafWritten ==
  ASSUME NEW tx \in Txs, NEW w, Brings(tx, w), NEW L, StateInv(L), Legal(tx, L),
         KeyReads(tx, w, L), OrderReads(tx, w, L),
         NEW s \in Slots, Loaded(tx, s),
         Agree(w.accounts[s], TrueAccount(tx, L, s)), AssetReads(tx, w, L, s),
         NEW x, Rewritten(tx, w, x.accounts[s], s), x.buckets = Applied(tx, w).buckets,
         NEW M, M = LedgerAfter(tx, L)
  PROVE  /\ NewLeaves(tx, w, x, s).account = Trees(M).account[tx.index[s]]
         /\ x.accounts[s].aggregated = SumRoot(M.accounts[tx.index[s]]) =>
              NewLeaves(tx, w, x, s).pub = Trees(M).pub[tx.index[s]]
<1> DEFINE i == tx.index[s]
           a == L.accounts[i]
           b == AccountAfter(tx, a, i)
           z == x.accounts[s]
           lb == LoadedAccount(b)
           h == HashFromPartial(z, i, Part(tx, w, z, s))
<1>1. i \in Accounts /\ a \in AccountSet /\ L \in LedgerSet
  BY TxIs DEF StateInv, LedgerSet
<1>2. /\ AccountElements(z, Part(tx, w, z, s)) = AccountElements(lb, PartialOf(lb))
      /\ Part(tx, w, z, s) = PartialOf(lb) /\ z.l1 = b.l1
  BY AccountWritten DEF TrueAccount
<1>3. M.accounts[i] = b
  BY <1>1, LedgerAfterIs
<1>4. lb.l1 = b.l1 /\ lb.aggregated = SumRoot(b)
  BY <1>1, AfterType, LoadedType
<1>5. /\ Trees(M).account[i] = HashFromPartial(lb, i, PartialOf(lb)).account
      /\ Trees(M).pub[i] = HashFromPartial(lb, i, PartialOf(lb)).pub
  BY <1>1, <1>3, NextState, StateLeaves
<1>6. NewLeaves(tx, w, x, s).account = h.account /\ NewLeaves(tx, w, x, s).pub = h.pub
  BY DEF NewLeaves, AccountHash, Part
<1> HIDE DEF lb, h, z, b, a, i
<1>7. h.account = HashFromPartial(lb, i, PartialOf(lb)).account
  BY <1>2, <1>4, SameLeaves DEF h
<1>8. z.aggregated = SumRoot(b) => h.pub = HashFromPartial(lb, i, PartialOf(lb)).pub
  BY <1>2, <1>4, SameLeaves DEF h
<1> QED
  BY <1>3, <1>5, <1>6, <1>7, <1>8 DEF z, i

(* All three leaves, in the heavy circuit.                                 *)
LEMMA HeavyLeaves ==
  ASSUME NEW tx \in Txs, NEW w, Brings(tx, w), NEW L, StateInv(L), Legal(tx, L),
         KeyReads(tx, w, L), OrderReads(tx, w, L), SizeReads(tx, w, L),
         PositionsOpen(tx, w, Applied(tx, w)),
         NEW s \in Slots, Loaded(tx, s), SlotReads(tx, w, L, s),
         NEW x, Rewritten(tx, w, x.accounts[s], s), RewrittenSums(tx, w, x.accounts[s], s),
         RewrittenDelta(tx, w, x.deltas[s], s), x.buckets = Applied(tx, w).buckets,
         NEW M, M = LedgerAfter(tx, L)
  PROVE  /\ NewLeaves(tx, w, x, s).account = Trees(M).account[tx.index[s]]
         /\ NewLeaves(tx, w, x, s).pub = Trees(M).pub[tx.index[s]]
         /\ NewLeaves(tx, w, x, s).delta = DeltaTree(M)[tx.index[s]]
<1> DEFINE i == tx.index[s]
           a == L.accounts[i]
           d == L.deltas[i]
           e == DeltaAfter(tx, d, i)
           z == x.deltas[s]
           le == LoadedDelta(e)
<1>1. i \in Accounts /\ a \in AccountSet /\ d \in DeltaSet /\ L \in LedgerSet
  BY TxIs DEF StateInv, LedgerSet
<1>2. M.accounts[i] = AccountAfter(tx, a, i) /\ M.deltas[i] = e
  BY <1>1, LedgerAfterIs
<1>3. w.accounts[s] = LoadedAccount(a) /\ w.deltas[s] = LoadedDelta(d)
  BY DEF SlotReads, TrueAccount, TrueDelta
<1>4. Agree(w.accounts[s], TrueAccount(tx, L, s))
  <2>1. w.accounts[s] = TrueAccount(tx, L, s)
    BY DEF SlotReads
  <2> QED
    BY <2>1 DEF Agree
<1>5. x.accounts[s].aggregated = SumRoot(M.accounts[i])
  <2>1. x.accounts[s].aggregated = SumTree(tx, w, s).root
    BY DEF RewrittenSums
  <2>2. AccountAfter(tx, a, i).aggregated = SumsAfter(tx, a, i)
    BY <1>1, AfterFields
  <2> DEFINE v == a.aggregated
             u == SumsAfter(tx, a, i)
  <2>3. v \in [AssetIndexes -> Int]
    BY <1>1 DEF AccountSet
  <2>4. w.sums[s][0] = v[tx.assets[1]] /\ w.sums[s][1] = v[tx.assets[2]]
    <3>1. 0 \in 0 .. 1 /\ 1 \in 0 .. 1
      OBVIOUS
    <3> QED
      BY <3>1, SMTT(30) DEF SlotReads, SumReads, ChangeReads
  <2>5. Moves(tx, i, v, u)
    BY DEF SumsAfter, Moves
  <2>6. HashTree(w.accounts[s].aggregated, v, 0)
    BY <1>1, <1>3, LoadedType DEF HashTree, SumRoot
  <2> HIDE DEF u, v
  <2>7. HashTree(SumTree(tx, w, s).root, u, 0)
    BY <2>3, <2>4, <2>5, <2>6, SumsWritten
  <2> QED
    BY <1>2, <2>1, <2>2, <2>7 DEF u, HashTree, SumRoot
<1>6. /\ NewLeaves(tx, w, x, s).account = Trees(M).account[i]
      /\ NewLeaves(tx, w, x, s).pub = Trees(M).pub[i]
  BY <1>4, <1>5, LeafWritten DEF SlotReads
<1>7. DeltaTree(M)[i] = DeltaHash(le)
  BY <1>1, <1>2, NextState, StateLeaves
<1>8. /\ z.l1 = e.l1 /\ z.shares = e.shares /\ z.positions = DeltaPositionRoot(e)
      /\ z.assets = [k \in AssetIndexes |-> LeafHash(e.assets[k], 0)]
      /\ s = FEE => /\ w.deltas[s].l1 = e.l1 /\ w.deltas[s].shares = e.shares
                    /\ w.deltas[s].positions = DeltaPositionRoot(e)
  BY DeltaWritten
<1>9. /\ le.l1 = e.l1 /\ le.shares = e.shares /\ le.positions = DeltaPositionRoot(e)
      /\ le.assets = [k \in AssetIndexes |-> LeafHash(e.assets[k], 0)]
  <2>1. e \in DeltaSet
    BY <1>1, DeltaAfterFields
  <2> HIDE DEF e
  <2> QED
    BY <2>1, LoadedDeltaType
<1>10. NewLeaves(tx, w, x, s).delta = IF s = FEE THEN DeltaFromPartial(z, DeltaPartial(w.deltas[s]))
                                                 ELSE DeltaHash(z)
  BY DEF NewLeaves
<1> HIDE DEF le, e, z
<1>11. z.assets = le.assets
  BY <1>8, <1>9
<1>12. DeltaPartial(z) = DeltaPartial(le) /\ (s = FEE => DeltaPartial(w.deltas[s]) = DeltaPartial(le))
  BY <1>8, <1>9 DEF DeltaPartial
<1>13. NewLeaves(tx, w, x, s).delta = DeltaHash(le)
  BY <1>10, <1>11, <1>12 DEF DeltaHash, DeltaFromPartial
<1> QED
  BY <1>6, <1>7, <1>13

(* An account a transaction leaves alone keeps its leaves.                 *)
LEMMA OtherLeaves ==
  ASSUME NEW tx \in Txs, NEW L, StateInv(L), Legal(tx, L), NEW M, M = LedgerAfter(tx, L),
         NEW i \in Accounts, LeftAlone(tx, i)
  PROVE  /\ Trees(M).account[i] = Trees(L).account[i] /\ Trees(M).pub[i] = Trees(L).pub[i]
         /\ DeltaTree(M)[i] = DeltaTree(L)[i]
<1>1. L.accounts[i] \in AccountSet /\ L.deltas[i] \in DeltaSet /\ L \in LedgerSet
  BY DEF StateInv, LedgerSet
<1>2. M.accounts[i] = L.accounts[i] /\ M.deltas[i] = L.deltas[i]
  BY <1>1, LedgerAfterIs, Untouched
<1>3. StateInv(M)
  BY NextState
<1> QED
  BY <1>2, <1>3, StateLeaves

(* The trees of a state are indexed by the accounts.                       *)
LEMMA TreesAreTrees ==
  ASSUME NEW L
  PROVE  /\ Tree(Trees(L).account)
         /\ Tree(Trees(L).pub)
         /\ Tree(DeltaTree(L))
BY DEF Trees, DeltaTree, Tree

(* Two trees with the same leaves are the same.                            *)
LEMMA SameTree ==
  ASSUME NEW r, NEW q, Tree(r), Tree(q), \A i \in Accounts : r[i] = q[i]
  PROVE  r = q
BY DEF Tree

HeavyReads(tx, w, L) ==
    /\ KeyReads(tx, w, L) /\ OrderReads(tx, w, L) /\ SizeReads(tx, w, L)
    /\ \A s \in Slots : SlotReads(tx, w, L, s)

(* The slots of the heavy circuit take the three trees of accounts to      *)
(* those of the state after.                                               *)
LEMMA HeavyTrees ==
  ASSUME NEW tx \in Txs, NEW w, Brings(tx, w), NEW L, StateInv(L), Legal(tx, L),
         TrueRoots(w, L), HeavyReads(tx, w, L), PositionsOpen(tx, w, Applied(tx, w)),
         NEW x, x.buckets = Applied(tx, w).buckets,
         \A s \in Slots : Loaded(tx, s) => /\ Rewritten(tx, w, x.accounts[s], s)
                                           /\ RewrittenSums(tx, w, x.accounts[s], s)
                                           /\ RewrittenDelta(tx, w, x.deltas[s], s),
         NEW t, t = verify_account_and_pub_data_merkle_proofs(tx, w, x),
         NEW M, M = LedgerAfter(tx, L)
  PROVE  t.account = Trees(M).account /\ t.pub = Trees(M).pub /\ t.delta = DeltaTree(M)
<1> DEFINE Same(i) == /\ t.account[i] = Trees(M).account[i] /\ t.pub[i] = Trees(M).pub[i]
                      /\ t.delta[i] = DeltaTree(M)[i]
<1>1. Rooted(w)
  BY StateRooted
<1>2. /\ \A s \in Slots : Loaded(tx, s) =>
           /\ t.account[tx.index[s]] = NewLeaves(tx, w, x, s).account
           /\ t.pub[tx.index[s]] = NewLeaves(tx, w, x, s).pub
           /\ t.delta[tx.index[s]] = NewLeaves(tx, w, x, s).delta
      /\ \A i \in Accounts : (\A s \in Slots : tx.index[s] # i) =>
           /\ t.account[i] = w.trees.account[i] /\ t.pub[i] = w.trees.pub[i]
           /\ t.delta[i] = w.deltaTree[i]
      /\ Tree(t.account)
      /\ Tree(t.pub)
      /\ Tree(t.delta)
  BY <1>1, AllSlots
<1>3. ASSUME NEW s \in Slots, Loaded(tx, s) PROVE Same(tx.index[s])
  <2>1. /\ NewLeaves(tx, w, x, s).account = Trees(M).account[tx.index[s]]
        /\ NewLeaves(tx, w, x, s).pub = Trees(M).pub[tx.index[s]]
        /\ NewLeaves(tx, w, x, s).delta = DeltaTree(M)[tx.index[s]]
    BY <1>3, HeavyLeaves DEF HeavyReads
  <2> QED
    BY <1>2, <1>3, <2>1
<1>4. ASSUME NEW i \in Accounts, \A s \in Slots : tx.index[s] # i PROVE Same(i)
  <2>1. LeftAlone(tx, i)
    <3>1. \A s \in Slots : ~Holds(tx, s, i)
      BY <1>4 DEF Holds
    <3>2. TAKER \in Slots /\ MAKER \in Slots
      BY Sizes
    <3> QED
      BY <3>1, <3>2 DEF LeftAlone, Owns, KeySlot, OrderSlot
  <2>2. /\ Trees(M).account[i] = Trees(L).account[i] /\ Trees(M).pub[i] = Trees(L).pub[i]
        /\ DeltaTree(M)[i] = DeltaTree(L)[i]
    BY <2>1, OtherLeaves
  <2>3. /\ t.account[i] = w.trees.account[i] /\ t.pub[i] = w.trees.pub[i]
        /\ t.delta[i] = w.deltaTree[i]
    BY <1>2, <1>4
  <2> QED
    BY <2>2, <2>3 DEF TrueRoots
<1>5. ASSUME NEW i \in Accounts PROVE Same(i)
  <2>1. CASE \A s \in Slots : tx.index[s] # i
    BY <1>4, <2>1
  <2>2. CASE ~(\A s \in Slots : tx.index[s] # i)
    <3>1. PICK s \in Slots : tx.index[s] = i
      BY <2>2
    <3>2. PICK r \in Slots : Loaded(tx, r) /\ tx.index[r] = tx.index[s]
      BY OneSlotEach
    <3> HIDE DEF Same
    <3> QED
      BY <1>3, <3>1, <3>2
  <2> QED
    BY <2>1, <2>2
<1>6. /\ Tree(Trees(M).account)
      /\ Tree(Trees(M).pub)
      /\ Tree(DeltaTree(M))
  BY TreesAreTrees
<1> QED
  BY <1>2, <1>5, <1>6, SameTree

(* What only the heavy circuit rewrites the light circuit has no need to.  *)
LEMMA LightKeepsPublic ==
  ASSUME NEW tx \in Txs, tx.light, NEW L, StateInv(L), Legal(tx, L), NEW M, M = LedgerAfter(tx, L)
  PROVE  Trees(M).pub = Trees(L).pub /\ DeltaTree(M) = DeltaTree(L)
<1>1. tx.kind \in {"order", "terms"}
  BY TxIs
<1>2. StateInv(M) /\ L \in LedgerSet
  BY NextState DEF StateInv
<1>3. ASSUME NEW i \in Accounts
      PROVE  Trees(M).pub[i] = Trees(L).pub[i] /\ DeltaTree(M)[i] = DeltaTree(L)[i]
  <2> DEFINE a == L.accounts[i]
             b == M.accounts[i]
             d == L.deltas[i]
             e == M.deltas[i]
             la == LoadedAccount(a)
             lb == LoadedAccount(b)
  <2>1. a \in AccountSet /\ b \in AccountSet /\ d \in DeltaSet /\ e \in DeltaSet
    BY <1>2 DEF StateInv, LedgerSet
  <2>2. b = AccountAfter(tx, a, i) /\ e = DeltaAfter(tx, d, i)
    BY <1>2, LedgerAfterIs
  <2>3. /\ \A k : AccountMoved(tx, i, k) = 0
        /\ Filled(tx, i) = 0
    BY <1>1, Movement DEF Filled
  <2>4. /\ b.l1 = a.l1 /\ b.shares = a.shares
        /\ b.aggregated = SumsAfter(tx, a, i) /\ b.positions = PositionsAfter(tx, a, i)
    BY <1>1, <2>1, <2>2, AfterFields
  <2>5. b.aggregated = a.aggregated
    <3>1. ASSUME NEW k \in AssetIndexes PROVE SumsAfter(tx, a, i)[k] = a.aggregated[k]
      <4>1. a.aggregated[k] \in Int /\ SumsAfter(tx, a, i)[k] = a.aggregated[k] + 0
        BY <2>1, <2>3 DEF AccountSet, SumsAfter
      <4> QED
        BY <4>1
    <3>2. SumsAfter(tx, a, i) = [k \in AssetIndexes |-> SumsAfter(tx, a, i)[k]]
      BY DEF SumsAfter
    <3>3. a.aggregated \in [AssetIndexes -> Int]
      BY <2>1 DEF AccountSet
    <3> HIDE DEF a, b
    <3> QED
      BY <2>4, <3>1, <3>2, <3>3
  <2>6. ASSUME NEW p \in Perps PROVE b.positions[p].size = a.positions[p].size
    <3>1. a.positions[p].size \in Int
      BY <2>1 DEF AccountSet, Position
    <3>2. PositionsAfter(tx, a, i)[p].size = IF p # tx.market THEN a.positions[p].size
                                             ELSE a.positions[p].size + 0
      BY <2>3 DEF PositionsAfter
    <3> HIDE DEF a, b
    <3> QED
      BY <2>4, <3>1, <3>2
  <2>7. /\ la.l1 = a.l1 /\ la.shares = a.shares /\ la.positions = a.positions
        /\ la.aggregated = SumRoot(a)
        /\ lb.l1 = b.l1 /\ lb.shares = b.shares /\ lb.positions = b.positions
        /\ lb.aggregated = SumRoot(b)
    BY <2>1, LoadedType
  <2>8. PartialOf(lb).pub = PartialOf(la).pub
    <3>1. \A c \in 0 .. 1 : PositionBuckets(b.positions)[c].pub = PositionBuckets(a.positions)[c].pub
      <4>1. \A c \in 0 .. 1 : [p \in InBucket(c) |-> b.positions[p].size]
                                = [p \in InBucket(c) |-> a.positions[p].size]
        <5>1. \A c \in 0 .. 1 : \A p \in InBucket(c) : p \in Perps
          BY DEF InBucket
        <5> HIDE DEF a, b
        <5> QED
          BY <2>6, <5>1
      <4>2. TAKE c \in 0 .. 1
      <4>3. /\ PositionBuckets(b.positions)[c].pub = [p \in InBucket(c) |-> b.positions[p].size]
            /\ PositionBuckets(a.positions)[c].pub = [p \in InBucket(c) |-> a.positions[p].size]
        BY DEF PositionBuckets, BUCKET
      <4>4. [p \in InBucket(c) |-> b.positions[p].size] = [p \in InBucket(c) |-> a.positions[p].size]
        BY <4>1
      <4> QED
        BY <4>3, <4>4, Zenon
    <3>2. /\ PartialOf(lb).pub = <<[c \in 0 .. 1 |-> PositionBuckets(b.positions)[c].pub], b.shares>>
          /\ PartialOf(la).pub = <<[c \in 0 .. 1 |-> PositionBuckets(a.positions)[c].pub], a.shares>>
      <4>1. DOMAIN PositionBuckets(b.positions) = 0 .. 1 /\ DOMAIN PositionBuckets(a.positions) = 0 .. 1
        BY DEF PositionBuckets, BUCKET
      <4> HIDE DEF a, b, la, lb
      <4> QED
        BY <2>7, <4>1 DEF PartialOf, AccountPartial
    <3> QED
      BY <2>4, <3>1, <3>2
  <2>9. SumRoot(b) = SumRoot(a)
    BY <2>5 DEF SumRoot
  <2>10. /\ HashFromPartial(la, i, PartialOf(la)).pub =
              IF i # Treasury /\ la.l1 = 0 THEN <<>> ELSE <<PartialOf(la).pub, la.l1, la.aggregated>>
         /\ HashFromPartial(lb, i, PartialOf(lb)).pub =
              IF i # Treasury /\ lb.l1 = 0 THEN <<>> ELSE <<PartialOf(lb).pub, lb.l1, lb.aggregated>>
    <3>1. Proper(la, i) /\ Proper(lb, i)
      BY <1>2, LoadedProper
    <3> QED
      BY <3>1, EmptyIsUnowned
  <2>11. Trees(M).pub[i] = Trees(L).pub[i]
    <3>1. /\ Trees(M).pub[i] = HashFromPartial(lb, i, PartialOf(lb)).pub
          /\ Trees(L).pub[i] = HashFromPartial(la, i, PartialOf(la)).pub
      BY <1>2, StateLeaves
    <3> HIDE DEF la, lb, a, b
    <3> QED
      BY <2>4, <2>7, <2>8, <2>9, <2>10, <3>1
  <2>12. e = d
    <3>1. /\ e.l1 = d.l1 /\ e.shares = d.shares
          /\ e.positions = SizesAfter(tx, d, i) /\ e.assets = ChangesAfter(tx, d, i)
      BY <1>1, <2>1, <2>2, DeltaAfterFields
    <3>2. ASSUME NEW p \in Perps \cup {NIL_MARKET} PROVE SizesAfter(tx, d, i)[p] = d.positions[p]
      <4>1. d.positions[p] \in Int /\ SizesAfter(tx, d, i)[p] = d.positions[p] + 0
        BY <2>1, <2>3 DEF DeltaSet, SizesAfter
      <4> QED
        BY <4>1
    <3>3. ASSUME NEW k \in AssetIndexes PROVE ChangesAfter(tx, d, i)[k] = d.assets[k]
      <4>1. d.assets[k] \in Int /\ ChangesAfter(tx, d, i)[k] = d.assets[k] + 0
        BY <2>1, <2>3 DEF DeltaSet, ChangesAfter
      <4> QED
        BY <4>1
    <3>4. /\ SizesAfter(tx, d, i) = [p \in Perps \cup {NIL_MARKET} |-> SizesAfter(tx, d, i)[p]]
          /\ ChangesAfter(tx, d, i) = [k \in AssetIndexes |-> ChangesAfter(tx, d, i)[k]]
      BY DEF SizesAfter, ChangesAfter
    <3>5. d.positions \in [Perps \cup {NIL_MARKET} -> Int] /\ d.assets \in [AssetIndexes -> Int]
      BY <2>1 DEF DeltaSet
    <3>6. SizesAfter(tx, d, i) = d.positions
      <4> HIDE DEF d
      <4> QED
        BY <3>2, <3>4, <3>5
    <3>7. ChangesAfter(tx, d, i) = d.assets
      <4> HIDE DEF d
      <4> QED
        BY <3>3, <3>4, <3>5
    <3> HIDE DEF d, e
    <3> QED
      BY <2>1, <3>1, <3>6, <3>7 DEF DeltaSet
  <2> QED
    BY <1>2, <2>11, <2>12, StateLeaves
<1>4. /\ Tree(Trees(M).pub)
      /\ Tree(DeltaTree(M))
      /\ Tree(Trees(L).pub)
      /\ Tree(DeltaTree(L))
  BY TreesAreTrees
<1> QED
  BY <1>3, <1>4, SameTree

(* The one slot of the light circuit takes the tree of accounts to that of *)
(* the state after, and has nothing to do in the other two.                *)
LEMMA LightTrees ==
  ASSUME NEW tx \in Txs, tx.light, NEW w, Brings(tx, w), NEW L, StateInv(L), Legal(tx, L),
         TrueRoots(w, L), KeyReads(tx, w, L), OrderReads(tx, w, L),
         Agree(w.accounts[TAKER], TrueAccount(tx, L, TAKER)), AssetReads(tx, w, L, TAKER),
         NEW x, x.buckets = Applied(tx, w).buckets, Rewritten(tx, w, x.accounts[TAKER], TAKER),
         NEW t, t = verify_light_account_merkle_proof(tx, w, x),
         NEW M, M = LedgerAfter(tx, L)
  PROVE  t.account = Trees(M).account /\ t.pub = Trees(M).pub /\ t.delta = DeltaTree(M)
<1> DEFINE i == tx.index[TAKER]
           n == NewLeaves(tx, w, x, TAKER).account
<1>1. t.pub = Trees(M).pub /\ t.delta = DeltaTree(M)
  BY LightKeepsPublic DEF verify_light_account_merkle_proof, TrueRoots
<1>2. Wrote(t.account, Trees(L).account, i, n)
  BY DEF verify_light_account_merkle_proof, TrueRoots, recalculate_root, Wrote
<1>3. TAKER \in Slots /\ Loaded(tx, TAKER) /\ i \in Accounts
  BY Sizes, OneSlotEach, TxIs
<1>4. n = Trees(M).account[i]
  BY <1>3, LeafWritten
<1>5. ASSUME NEW k \in Accounts, k # i PROVE Trees(M).account[k] = Trees(L).account[k]
  <2>1. LeftAlone(tx, k)
    <3>1. ~Holds(tx, TAKER, k) /\ tx.kind \in {"order", "terms"}
      BY <1>5, TxIs DEF Holds
    <3> QED
      BY <3>1 DEF LeftAlone, Owns, KeySlot, OrderSlot
  <2> QED
    BY <2>1, OtherLeaves
<1>6. /\ Tree(Trees(M).account)
      /\ Tree(Trees(L).account)
  BY TreesAreTrees
<1> DEFINE r == Trees(M).account
           q == Trees(L).account
<1> HIDE DEF r, q, n, i
<1>7. Tree(t.account) /\ \A k \in Accounts : t.account[k] = IF k = i THEN n ELSE q[k]
  BY <1>2, <1>6, <1>3 DEF Wrote, Tree, q, r
<1>8. t.account = r
  BY <1>4, <1>5, <1>6, <1>7, SameTree DEF r, q
<1> QED
  BY <1>1, <1>8 DEF r

-----------------------------------------------------------------------------
(* The market's leaf after.                                                *)
LEMMA MarketLeaf ==
  ASSUME NEW tx \in Txs, NEW w, Brings(tx, w), NEW m \in MarketSet,
         w.market = LoadedMarket(m), w.resting = m.book[0],
         NEW x, x.market = Applied(tx, w).market, x.resting = Applied(tx, w).resting
  PROVE  [x.market EXCEPT !.book = NewBook(w, x)] = LoadedMarket(MarketAfter(tx, m))
<1> DEFINE n == IF tx.kind = "order" THEN m.nonce + 1 ELSE m.nonce
           a == MarketAfter(tx, m)
<1>1. ASSUME NEW c \in MarketSet
      PROVE  LoadedMarket(c) = [nonce |-> c.nonce, book |-> BookRoot(c)]
  BY <1>1 DEF LoadedMarket, MarketSet
<1>2. w.market = [nonce |-> m.nonce, book |-> BookRoot(m)]
  BY <1>1
<1>3. x.market = [w.market EXCEPT !.nonce = n]
  <2>1. x.market = [w.market EXCEPT !.nonce = IF tx.kind = "order" THEN w.market.nonce + 1 ELSE w.market.nonce]
    BY DEF Applied, apply_transaction
  <2>2. w.market.nonce = m.nonce
    BY <1>2
  <2> QED
    BY <2>1, <2>2, Zenon DEF n
<1>4. x.market = [nonce |-> n, book |-> BookRoot(m)]
  <2> HIDE DEF n
  <2> QED
    BY <1>2, <1>3
<1>5. x.resting = m.book[0] + RestingBy(tx)
  BY AppliedIs
<1>6. w.market.book = BookRoot(m)
  BY <1>2
<1>7. NewBook(w, x) = BookRoot(a)
  <2>1. NewBook(w, x) = [BookRoot(m) EXCEPT ![0] = LeafHash(m.book[0] + RestingBy(tx), 0)]
    BY <1>5, <1>6, Zenon DEF NewBook, recalculate_root
  <2>2. BookRoot(m) = [p \in Prices |-> LeafHash(m.book[p], 0)]
    BY DEF BookRoot
  <2>3. BookRoot(a) = [p \in Prices |-> LeafHash(a.book[p], 0)]
    BY DEF BookRoot
  <2>4. \A p \in Prices : a.book[p] = IF p = 0 THEN m.book[0] + RestingBy(tx) ELSE m.book[p]
    BY DEF MarketAfter
  <2> DEFINE v == m.book[0] + RestingBy(tx)
             g == [BookRoot(m) EXCEPT ![0] = LeafHash(v, 0)]
  <2> HIDE DEF a, v
  <2>5. g = [p \in Prices |-> g[p]]
    BY <2>2
  <2>6. \A p \in Prices : g[p] = LeafHash(a.book[p], 0)
    BY <2>2, <2>4 DEF v
  <2> HIDE DEF g
  <2>7. g = BookRoot(a)
    BY <2>3, <2>5, <2>6
  <2> QED
    BY <2>1, <2>7 DEF g, v
<1>8. [x.market EXCEPT !.book = NewBook(w, x)] = [nonce |-> n, book |-> BookRoot(a)]
  <2> HIDE DEF n, a
  <2> QED
    BY <1>4, <1>7
<1>9. LoadedMarket(a) = [nonce |-> n, book |-> BookRoot(a)]
  <2>1. a \in MarketSet
    <3>1. RestingBy(tx) \in Int
      BY DEF RestingBy
    <3>2. m.nonce \in Int /\ \A p \in Prices : m.book[p] \in Int
      BY DEF MarketSet
    <3>3. 0 \in Prices
      BY Sizes
    <3> QED
      BY <3>1, <3>2, <3>3 DEF MarketAfter, MarketSet
  <2>2. a.nonce = n
    BY DEF MarketAfter
  <2> HIDE DEF a, n
  <2> QED
    BY <1>1, <2>1, <2>2
<1> QED
  BY <1>8, <1>9

(* The trees of markets and of market details after.                       *)
LEMMA MarketTrees ==
  ASSUME NEW tx \in Txs, NEW w, Brings(tx, w), NEW L, StateInv(L), RootReads(w, L),
         MarketReads(tx, w, L), NEW x, Kept(x, Applied(tx, w)),
         NEW M, M = LedgerAfter(tx, L)
  PROVE  /\ verify_market_and_order_book_proofs(tx, w, x).root = Trees(M).market
         /\ verify_market_details_merkle_proof(tx, w, x).root = Trees(M).details
<1> DEFINE m == tx.market
           n == perps_market_index(tx.market)
           g == verify_market_and_order_book_proofs(tx, w, x).root
           h == verify_market_details_merkle_proof(tx, w, x).root
           All == Perps \cup {NIL_MARKET}
<1>1. m \in {0, 2, 7} /\ n \in All /\ (m \in Perps => n = m)
  BY TxIs, PerpsIndex
<1>2. L \in LedgerSet /\ L.markets[m] \in MarketSet
  BY <1>1 DEF StateInv, LedgerSet
<1>3. /\ M \in LedgerSet
      /\ \A k \in {0, 2, 7} : M.markets[k] = IF k = m THEN MarketAfter(tx, L.markets[k]) ELSE L.markets[k]
      /\ \A p \in All : M.details[p] = IF UsesOrder(tx) /\ m \in Perps /\ p = m
                                       THEN L.markets[m].book[0] + RestingBy(tx) + 1 ELSE L.details[p]
  BY <1>2, LedgerAfterIs
<1>4. ASSUME NEW N \in LedgerSet
      PROVE  /\ Trees(N).market = [k \in {0, 2, 7} |-> MarketHash(LoadedMarket(N.markets[k]))]
             /\ Trees(N).details = [p \in All |-> LeafHash(N.details[p], 0)]
  BY <1>4 DEF Trees, LedgerSet
<1>5. g = Trees(M).market
  <2> DEFINE new == MarketHash([x.market EXCEPT !.book = NewBook(w, x)])
             f == [Trees(L).market EXCEPT ![m] = new]
  <2>1. g = f
    <3>1. g = recalculate_root(w.trees.market, new, m)
      BY DEF verify_market_and_order_book_proofs
    <3>2. w.trees.market = Trees(L).market
      BY DEF RootReads
    <3> HIDE DEF new, g
    <3> QED
      BY <3>1, <3>2 DEF recalculate_root
  <2>2. new = MarketHash(LoadedMarket(M.markets[m]))
    <3>1. [x.market EXCEPT !.book = NewBook(w, x)] = LoadedMarket(MarketAfter(tx, L.markets[m]))
      BY <1>2, MarketLeaf DEF MarketReads, Kept
    <3> QED
      BY <1>1, <1>3, <3>1
  <2> HIDE DEF new, g
  <2>3. f = [k \in {0, 2, 7} |-> f[k]]
    BY <1>2, <1>4
  <2>4. \A k \in {0, 2, 7} : f[k] = MarketHash(LoadedMarket(M.markets[k]))
    <3>1. \A k \in {0, 2, 7} : f[k] = IF k = m THEN new ELSE Trees(L).market[k]
      BY <1>2, <1>4
    <3>2. \A k \in {0, 2, 7} : Trees(L).market[k] = MarketHash(LoadedMarket(L.markets[k]))
      BY <1>2, <1>4
    <3> HIDE DEF f, m
    <3> QED
      BY <1>3, <2>2, <3>1, <3>2
  <2> HIDE DEF f
  <2> QED
    BY <1>3, <1>4, <2>1, <2>3, <2>4
<1>6. h = Trees(M).details
  <2> DEFINE new == LeafHash(x.details, 0)
             f == [Trees(L).details EXCEPT ![n] = new]
  <2>1. h = f
    <3>1. h = recalculate_root(w.trees.details, new, n)
      BY DEF verify_market_details_merkle_proof
    <3>2. w.trees.details = Trees(L).details
      BY DEF RootReads
    <3> HIDE DEF new, h
    <3> QED
      BY <3>1, <3>2 DEF recalculate_root
  <2>2. x.details = M.details[n]
    <3>1. x.details = IF UsesOrder(tx) /\ m \in Perps THEN w.impact + 1 ELSE w.details
      BY AppliedIs DEF Kept
    <3>2. /\ m \in Perps => w.impact = L.markets[m].book[0] + RestingBy(tx)
          /\ w.details = L.details[n]
      BY DEF MarketReads
    <3>3. m \notin Perps => n # m
      BY <1>1, Sizes
    <3> HIDE DEF m, n
    <3> QED
      BY <1>1, <1>3, <3>1, <3>2
  <2> HIDE DEF h
  <2>3. f = [p \in All |-> f[p]]
    BY <1>2, <1>4
  <2>4. \A p \in All : f[p] = LeafHash(M.details[p], 0)
    <3>1. \A p \in All : f[p] = IF p = n THEN LeafHash(M.details[n], 0) ELSE Trees(L).details[p]
      BY <1>2, <1>4, <2>2
    <3>2. \A p \in All : Trees(L).details[p] = LeafHash(L.details[p], 0)
      BY <1>2, <1>4
    <3>3. \A p \in All : p # n => M.details[p] = L.details[p]
      BY <1>1, <1>3
    <3> HIDE DEF f, n
    <3> QED
      BY <3>1, <3>2, <3>3
  <2> HIDE DEF f
  <2> QED
    BY <1>3, <1>4, <2>1, <2>3, <2>4
<1> QED
  BY <1>5, <1>6

(* The new state root commits to the state after.                          *)
LEMMA RootWritten ==
  ASSUME NEW tx \in Txs, NEW w, Brings(tx, w), NEW L, StateInv(L), RootReads(w, L),
         MarketReads(tx, w, L), NEW x, Kept(x, Applied(tx, w)),
         NEW M, M = LedgerAfter(tx, L),
         NEW t, t.account = Trees(M).account, t.pub = Trees(M).pub, t.delta = DeltaTree(M),
         NEW o, NEW r, r = Result(tx, w, x, t, verify_market_and_order_book_proofs(tx, w, x),
                                  verify_market_details_merkle_proof(tx, w, x), o)
  PROVE  r.root = Commitment(M) /\ r.delta = DeltaTree(M)
<1> DEFINE n == perps_market_index(tx.market)
           p == w.lists.risk
           q == x.lists.risk
           m == verify_market_and_order_book_proofs(tx, w, x)
           d == verify_market_details_merkle_proof(tx, w, x)
<1>1. L \in LedgerSet /\ w.lists = L.lists /\ w.stack = L.stack
  BY DEF StateInv, RootReads
<1>2. M.lists = NewLists(tx, L.lists) /\ M.stack = IF UsesOrder(tx) THEN L.stack + 1 ELSE L.stack
  BY <1>1, LedgerAfterIs
<1>3. x.lists = M.lists /\ x.stack = M.stack
  BY <1>1, <1>2, AppliedIs DEF Kept
<1>4. n \in Perps \cup {NIL_MARKET} /\ \A k \in Perps : k # n => q[k] = p[k]
  <2>1. L.lists \in ListSet
    BY <1>1 DEF LedgerSet
  <2> QED
    BY <1>1, <1>2, <1>3, <2>1, ListsType, PerpsIndex
<1>5. update_market_details_hashes(tx, w, x) = RiskHashes(RiskBuckets(M.lists.risk))
  <2>1. update_market_details_hashes(tx, w, x) =
          RiskHashes(Rehashed(RiskBuckets(p), RiskBuckets(q), n \div BUCKET))
    BY Zenon DEF update_market_details_hashes, Rehashed
  <2>2. Rehashed(RiskBuckets(p), RiskBuckets(q), n \div BUCKET) = RiskBuckets(q)
    <3> HIDE DEF p, q, n
    <3> QED
      BY <1>4, OneBucket
  <2> QED
    BY <1>3, <2>1, <2>2
<1>6. m.root = Trees(M).market /\ d.root = Trees(M).details
  BY MarketTrees
<1> DEFINE c == [account |-> t.account, pub |-> t.pub, market |-> m.root, details |-> d.root]
<1>7. /\ r.delta = t.delta
      /\ r.root = compute_validium_and_state_root(x.lists, update_market_details_hashes(tx, w, x), x.stack, c)
  BY DEF Result
<1>8. /\ c.account = Trees(M).account /\ c.pub = Trees(M).pub /\ c.market = Trees(M).market
      /\ c.details = Trees(M).details
  BY <1>6
<1> HIDE DEF c
<1> QED
  BY <1>3, <1>5, <1>7, <1>8 DEF Commitment, compute_validium_and_state_root, StateRoot

-----------------------------------------------------------------------------
(* The witness read from the current state.                                *)
LEMMA TruthIs ==
  ASSUME StateInv(ledger), NEW tx \in Txs, NEW w, w = WitnessFrom(tx, {})
  PROVE  /\ HeavyReads(tx, w, ledger) /\ MarketReads(tx, w, ledger)
         /\ RootReads(w, ledger)
         /\ \A s \in {TAKER, MAKER} : w.positionDeltas[s] =
              ledger.deltas[tx.index[s]].positions[perps_market_index(tx.market)]
<1>1. ASSUME NEW s \in Slots PROVE SlotReads(tx, w, ledger, s)
  <2>1. w.accounts[s] = LoadedAccount(ledger.accounts[tx.index[s]])
    BY DEF WitnessFrom
  <2>2. w.deltas[s] = LoadedDelta(ledger.deltas[tx.index[s]])
    BY DEF WitnessFrom
  <2>3. ASSUME NEW j \in 0 .. 1
        PROVE  /\ w.assets[s][j] = ledger.accounts[tx.index[s]].assets[tx.assets[j + 1]]
               /\ w.sums[s][j] = ledger.accounts[tx.index[s]].aggregated[tx.assets[j + 1]]
               /\ w.assetDeltas[s][j] = ledger.deltas[tx.index[s]].assets[tx.assets[j + 1]]
    BY DEF WitnessFrom
  <2> QED
    BY <2>1, <2>2, <2>3 DEF SlotReads, TrueAccount, TrueDelta, AssetReads, SumReads, ChangeReads
<1>2. ASSUME NEW s \in {TAKER, MAKER}
      PROVE  w.positionDeltas[s] = ledger.deltas[tx.index[s]].positions[perps_market_index(tx.market)]
  BY DEF WitnessFrom
<1>3. KeyReads(tx, w, ledger)
  BY DEF WitnessFrom, KeyReads
<1>4. OrderReads(tx, w, ledger)
  BY DEF WitnessFrom, OrderReads
<1>5. MarketReads(tx, w, ledger)
  <2>1. w.market = LoadedMarket(ledger.markets[tx.market])
    BY DEF WitnessFrom
  <2>2. w.resting = ledger.markets[tx.market].book[0]
    BY DEF WitnessFrom
  <2>3. w.details = ledger.details[perps_market_index(tx.market)]
    BY DEF WitnessFrom
  <2>4. w.impact = IF tx.market \in Perps THEN ledger.markets[tx.market].book[0] + RestingBy(tx) ELSE 0
    BY DEF WitnessFrom
  <2> QED
    BY <2>1, <2>2, <2>3, <2>4 DEF MarketReads
<1>6. RootReads(w, ledger)
  BY DEF WitnessFrom, RootReads, TrueRoots
<1>7. SizeReads(tx, w, ledger)
  BY <1>2 DEF SizeReads
<1> QED
  BY <1>1, <1>2, <1>3, <1>4, <1>5, <1>6, <1>7 DEF HeavyReads

(* A witness whose leaves are those of the state's roots differs from the  *)
(* state's own in nothing that the heavy circuit uses.                     *)
LEMMA HeavyTruth ==
  ASSUME StateInv(ledger), StateInv(before), NEW tx \in Txs, ~tx.light, NEW w, Brings(tx, w),
         HeavyReads(tx, w, ledger), MarketReads(tx, w, ledger), RootReads(w, ledger)
  PROVE  Misread(tx, w, WitnessFrom(tx, {})) = {}
<1> DEFINE T == WitnessFrom(tx, {})
<1>1. /\ HeavyReads(tx, T, ledger) /\ MarketReads(tx, T, ledger) /\ RootReads(T, ledger)
      /\ Brings(tx, T)
  BY TruthIs, WitnessBrings
<1> HIDE DEF T
<1>2. ASSUME NEW s \in Slots
      PROVE  /\ w.accounts[s] = T.accounts[s] /\ w.deltas[s] = T.deltas[s]
             /\ w.assets[s] = T.assets[s] /\ w.sums[s] = T.sums[s]
             /\ w.assetDeltas[s] = T.assetDeltas[s]
  <2>1. SlotReads(tx, w, ledger, s) /\ SlotReads(tx, T, ledger, s)
    BY <1>1 DEF HeavyReads
  <2>2. \A j \in 0 .. 1 : /\ w.assets[s][j] = T.assets[s][j] /\ w.sums[s][j] = T.sums[s][j]
                          /\ w.assetDeltas[s][j] = T.assetDeltas[s][j]
    BY <2>1 DEF SlotReads, AssetReads, SumReads, ChangeReads
  <2>3. /\ w.assets[s] \in [0 .. 1 -> Asset] /\ T.assets[s] \in [0 .. 1 -> Asset]
        /\ w.sums[s] \in [0 .. 1 -> Int] /\ T.sums[s] \in [0 .. 1 -> Int]
        /\ w.assetDeltas[s] \in [0 .. 1 -> Int] /\ T.assetDeltas[s] \in [0 .. 1 -> Int]
    BY <1>1 DEF Brings
  <2>4. ASSUME NEW S, NEW f \in [0 .. 1 -> S], NEW g \in [0 .. 1 -> S], \A j \in 0 .. 1 : f[j] = g[j]
        PROVE  f = g
    BY <2>4
  <2>5. w.assets[s] = T.assets[s]
    BY <2>2, <2>3, <2>4
  <2>6. w.sums[s] = T.sums[s]
    BY <2>2, <2>3, <2>4
  <2>7. w.assetDeltas[s] = T.assetDeltas[s]
    BY <2>2, <2>3, <2>4
  <2> QED
    BY <2>1, <2>5, <2>6, <2>7 DEF SlotReads
<1>3. ASSUME tx.kind = "fill" PROVE w.positionDeltas = T.positionDeltas
  <2>1. \A s \in {TAKER, MAKER} : w.positionDeltas[s] = T.positionDeltas[s]
    BY <1>1, <1>3 DEF HeavyReads, SizeReads
  <2>2. w.positionDeltas \in [{TAKER, MAKER} -> Int] /\ T.positionDeltas \in [{TAKER, MAKER} -> Int]
    BY <1>1 DEF Brings
  <2> QED
    BY <2>1, <2>2
<1>4. /\ w.key = T.key /\ w.order = T.order /\ w.market = T.market /\ w.resting = T.resting
      /\ w.impact = T.impact /\ w.details = T.details /\ w.lists = T.lists /\ w.stack = T.stack
  BY <1>1 DEF HeavyReads, KeyReads, OrderReads, MarketReads, RootReads
<1>5. Private(tx, w) = w /\ Private(tx, T) = T
  BY DEF Private
<1>6. ASSUME NEW part \in SlotParts(tx), NEW s \in SlotsUsed(tx) PROVE w[part][s] = T[part][s]
  <2>1. s \in Slots /\ part \in {"accounts", "deltas", "assets", "sums", "assetDeltas"}
    BY <1>6 DEF SlotsUsed, SlotParts
  <2> QED
    BY <1>2, <2>1
<1>7. ASSUME NEW part \in {"key", "order", "market", "resting", "impact", "details", "lists", "stack"}
                            \cup (IF tx.kind = "fill" THEN {"positionDeltas"} ELSE {})
      PROVE  w[part] = T[part]
  BY <1>3, <1>4, <1>7
<1>8. Differ(tx, w, T) = {}
  BY <1>6, <1>7 DEF Differ
<1> QED
  BY <1>5, <1>8 DEF Misread, T

(* The order's slot, where the transaction's own checks hold.              *)
LEMMA OrdersAreIn ==
  ASSUME NEW tx \in Txs, NEW w, Brings(tx, w), verify_transactions(tx, w)
  PROVE  OrdersOf(tx, w, Applied(tx, w)) = OrderSlot(tx)
<1>1. tx.kind = "fill" => tx.index[TAKER] # tx.index[MAKER]
  BY DEF verify_transactions, is_sender_receiver_different
<1> QED
  BY <1>1, OrderKnown

(* What a slot that holds the account of the state has of it.              *)
SlotHolds(tx, w, L, s) ==
    /\ Agree(w.accounts[s], TrueAccount(tx, L, s))
    /\ w.accounts[s].keys = KeyRoot(L.accounts[tx.index[s]])
    /\ w.accounts[s].orders = OrderRoot(L.accounts[tx.index[s]])
    /\ w.accounts[s].assets = AssetRoot(L.accounts[tx.index[s]])
    /\ w.accounts[s].aggregated = SumRoot(L.accounts[tx.index[s]])
    /\ w.deltas[s].positions = DeltaPositionRoot(L.deltas[tx.index[s]])
    /\ HashTree(w.deltas[s].assets, L.deltas[tx.index[s]].assets, 0)

(* A slot that holds the account of the state has the state's nested trees. *)
LEMMA TrueFields ==
  ASSUME NEW tx \in Txs, NEW w, NEW L, StateInv(L), NEW s \in Slots,
         w.accounts[s] = TrueAccount(tx, L, s), w.deltas[s] = TrueDelta(tx, L, s)
  PROVE  SlotHolds(tx, w, L, s)
<1>1. L.accounts[tx.index[s]] \in AccountSet /\ L.deltas[tx.index[s]] \in DeltaSet
  BY TxIs DEF StateInv, LedgerSet
<1>2. w.accounts[s] = LoadedAccount(L.accounts[tx.index[s]]) /\ w.deltas[s] = LoadedDelta(L.deltas[tx.index[s]])
  BY DEF TrueAccount, TrueDelta
<1>3. Agree(w.accounts[s], TrueAccount(tx, L, s))
  BY DEF Agree
<1>4. /\ w.accounts[s].keys = KeyRoot(L.accounts[tx.index[s]])
      /\ w.accounts[s].orders = OrderRoot(L.accounts[tx.index[s]])
      /\ w.accounts[s].assets = AssetRoot(L.accounts[tx.index[s]])
      /\ w.accounts[s].aggregated = SumRoot(L.accounts[tx.index[s]])
  BY <1>1, <1>2, LoadedType
<1>5. /\ w.deltas[s].positions = DeltaPositionRoot(L.deltas[tx.index[s]])
      /\ HashTree(w.deltas[s].assets, L.deltas[tx.index[s]].assets, 0)
  BY <1>1, <1>2, LoadedDeltaType DEF HashTree
<1> QED
  BY <1>3, <1>4, <1>5 DEF SlotHolds

(* The heavy circuit proves a transaction only from leaves of the state    *)
(* whose roots it is given, and only a legal one.                          *)
LEMMA HeavyOpened ==
  ASSUME NEW tx \in Txs, NEW w, Brings(tx, w), NEW L, StateInv(L), RootReads(w, L),
         HeavyOpens(tx, w), SlotsAgree(tx, w), \A s \in Slots : Loaded(tx, s) => Stands(tx, w, s)
  PROVE  HeavyReads(tx, w, L) /\ (~tx.light => Legal(tx, L))
<1>1. \A s \in Slots : w.accounts[s] = TrueAccount(tx, L, s) /\ w.deltas[s] = TrueDelta(tx, L, s)
  BY SlotsAreTrue DEF RootReads
<1>2. \A s \in Slots : SlotHolds(tx, w, L, s)
  BY <1>1, TrueFields
<1>3. KeySlot(tx) \in Slots /\ OrderSlot(tx) \in Slots /\ TAKER \in Slots /\ MAKER \in Slots
  BY Sizes DEF KeySlot, OrderSlot
<1>4. KeyReads(tx, w, L)
  BY <1>2, <1>3, KeyOpened DEF HeavyOpens, SlotHolds
<1>5. OrderReads(tx, w, L)
  <2>1. OrdersOf(tx, w, Applied(tx, w)) = OrderSlot(tx)
    BY OrdersAreIn DEF HeavyOpens
  <2>2. OrdersOpen(w, Applied(tx, w), OrderSlot(tx))
    BY <2>1 DEF HeavyOpens
  <2> QED
    BY <1>2, <1>3, <2>2, OrderOpened DEF SlotHolds
<1>6. ~tx.light => Legal(tx, L)
  BY <1>2, <1>5, LegalMeans DEF HeavyOpens, SlotHolds
<1>7. SizeReads(tx, w, L)
  <2>1. tx.kind = "fill" => tx.index[TAKER] # tx.index[MAKER]
    BY DEF HeavyOpens, verify_transactions, is_sender_receiver_different
  <2> QED
    BY <1>2, <1>3, <2>1, SizesOpened DEF HeavyOpens, SlotHolds
<1> DEFINE Three(s) == AssetReads(tx, w, L, s) /\ SumReads(tx, w, L, s) /\ ChangeReads(tx, w, L, s)
<1>8. ASSUME NEW s \in Slots, Loaded(tx, s) PROVE Three(s)
  BY <1>2, <1>8, AssetsOpened DEF HeavyOpens, SlotHolds
<1>9. ASSUME NEW s \in Slots, NEW r \in Slots, tx.index[s] = tx.index[r],
             w.assets[s] = w.assets[r], w.sums[s] = w.sums[r], w.assetDeltas[s] = w.assetDeltas[r], Three(s)
      PROVE  Three(r)
  BY <1>9 DEF AssetReads, SumReads, ChangeReads
<1>10. /\ tx.index[MAKER] = tx.index[TAKER] => /\ w.assets[TAKER] = w.assets[MAKER]
                                               /\ w.sums[TAKER] = w.sums[MAKER]
                                               /\ w.assetDeltas[TAKER] = w.assetDeltas[MAKER]
       /\ tx.index[FEE] = tx.index[TAKER] => /\ w.assets[TAKER] = w.assets[FEE]
                                             /\ w.sums[TAKER] = w.sums[FEE]
                                             /\ w.assetDeltas[TAKER] = w.assetDeltas[FEE]
       /\ tx.index[FEE] = tx.index[MAKER] => /\ w.assets[MAKER] = w.assets[FEE]
                                             /\ w.sums[MAKER] = w.sums[FEE]
                                             /\ w.assetDeltas[MAKER] = w.assetDeltas[FEE]
  BY DEF HeavyOpens, SameAccountSameLeaf, is_sender_receiver_different, fee_account_is
<1> HIDE DEF Three
<1>11. Slots = {TAKER, MAKER, FEE}
  BY Sizes
<1>12. Three(TAKER)
  BY <1>3, <1>8, OneSlotEach
<1>13. Three(MAKER)
  BY <1>3, <1>8, <1>9, <1>10, <1>12, OneSlotEach
<1>14. Three(FEE)
  BY <1>3, <1>8, <1>9, <1>10, <1>11, <1>12, <1>13, OneSlotEach
<1>15. \A s \in Slots : SlotReads(tx, w, L, s)
  BY <1>1, <1>11, <1>12, <1>13, <1>14 DEF Three, SlotReads
<1> QED
  BY <1>4, <1>5, <1>6, <1>7, <1>15 DEF HeavyReads

(* It proves a legal one from the leaves of the state.                     *)
LEMMA HeavyCloses ==
  ASSUME NEW tx \in Txs, ~tx.light, NEW w, Brings(tx, w), NEW L, StateInv(L), RootReads(w, L),
         HeavyReads(tx, w, L), verify_transactions(tx, w),
         \A s \in {TAKER, MAKER} : w.positionDeltas[s] =
           L.deltas[tx.index[s]].positions[perps_market_index(tx.market)]
  PROVE  HeavyOpens(tx, w) /\ SlotsAgree(tx, w) /\ \A s \in Slots : Loaded(tx, s) => Stands(tx, w, s)
<1>1. \A s \in Slots : /\ SlotReads(tx, w, L, s) /\ w.accounts[s] = TrueAccount(tx, L, s)
                        /\ w.deltas[s] = TrueDelta(tx, L, s) /\ SlotHolds(tx, w, L, s)
  BY TrueFields DEF HeavyReads, SlotReads
<1>2. KeySlot(tx) \in Slots /\ OrderSlot(tx) \in Slots /\ TAKER \in Slots /\ MAKER \in Slots /\ FEE \in Slots
  BY Sizes DEF KeySlot, OrderSlot
<1>3. OrderReads(tx, w, L) /\ KeyReads(tx, w, L)
  BY DEF HeavyReads
<1>4. Legal(tx, L)
  BY <1>1, <1>3, LegalMeans DEF SlotHolds
<1>5. validate_asset_indices(tx)
  BY TxIs DEF validate_asset_indices
<1>6. PositionsOpen(tx, w, Applied(tx, w))
  <2>1. \A s \in {TAKER, MAKER} : w.deltas[s].positions = DeltaPositionRoot(L.deltas[tx.index[s]])
    BY <1>1, <1>2 DEF SlotHolds
  <2>2. tx.kind = "fill" => tx.index[TAKER] # tx.index[MAKER]
    BY <1>4 DEF Legal
  <2> QED
    BY <2>1, <2>2, SizesOpened
<1>7. KeyOpens(tx, w)
  BY <1>1, <1>2, <1>3, KeyOpened DEF SlotHolds
<1>8. OrdersOpen(w, Applied(tx, w), OrdersOf(tx, w, Applied(tx, w)))
  <2>1. OrdersOf(tx, w, Applied(tx, w)) = OrderSlot(tx)
    BY OrdersAreIn
  <2>2. OrdersOpen(w, Applied(tx, w), OrderSlot(tx))
    <3> DEFINE s == OrderSlot(tx)
               a == L.accounts[tx.index[s]]
               b == AccountAfter(tx, a, tx.index[s])
    <3>1. w.accounts[s].orders = OrderRoot(a) /\ s \in Slots
      BY <1>1, <1>2 DEF SlotHolds
    <3> HIDE DEF b
    <3> QED
      BY <1>3, <1>4, <3>1, OrderWritten DEF b
  <2> QED
    BY <2>1, <2>2
<1>9. ASSUME NEW s \in Slots
      PROVE  OwnTree(tx, w, s).ok /\ SumTree(tx, w, s).ok /\ ChangeTree(tx, w, s).ok
  <2>1. SlotReads(tx, w, L, s) /\ SlotHolds(tx, w, L, s)
    BY <1>1
  <2>2. OwnTree(tx, w, s).ok
    BY <2>1, AssetsOpened DEF SlotReads, SlotHolds
  <2>3. SumTree(tx, w, s).ok
    BY <2>1, AssetsOpened DEF SlotReads, SlotHolds
  <2>4. ChangeTree(tx, w, s).ok
    BY <2>1, AssetsOpened DEF SlotReads, SlotHolds
  <2> QED
    BY <2>2, <2>3, <2>4
<1>10. ASSUME NEW s \in Slots, NEW r \in Slots, tx.index[s] = tx.index[r]
       PROVE  /\ w.assets[s] = w.assets[r] /\ w.sums[s] = w.sums[r]
              /\ w.assetDeltas[s] = w.assetDeltas[r] /\ OldLeaves(tx, w, s) = OldLeaves(tx, w, r)
  <2>1. ASSUME NEW j \in 0 .. 1
        PROVE  /\ w.assets[s][j] = w.assets[r][j] /\ w.sums[s][j] = w.sums[r][j]
               /\ w.assetDeltas[s][j] = w.assetDeltas[r][j]
    <3>1. /\ AssetReads(tx, w, L, s) /\ SumReads(tx, w, L, s) /\ ChangeReads(tx, w, L, s)
          /\ AssetReads(tx, w, L, r) /\ SumReads(tx, w, L, r) /\ ChangeReads(tx, w, L, r)
      BY <1>1 DEF SlotReads
    <3>2. w.assets[s][j] = w.assets[r][j]
      BY <1>10, <3>1 DEF AssetReads
    <3>3. w.sums[s][j] = w.sums[r][j]
      BY <1>10, <3>1 DEF SumReads
    <3>4. w.assetDeltas[s][j] = w.assetDeltas[r][j]
      BY <1>10, <3>1 DEF ChangeReads
    <3> QED
      BY <3>2, <3>3, <3>4
  <2>2. /\ w.assets[s] \in [0 .. 1 -> Asset] /\ w.assets[r] \in [0 .. 1 -> Asset]
        /\ w.sums[s] \in [0 .. 1 -> Int] /\ w.sums[r] \in [0 .. 1 -> Int]
        /\ w.assetDeltas[s] \in [0 .. 1 -> Int] /\ w.assetDeltas[r] \in [0 .. 1 -> Int]
    BY DEF Brings
  <2>3. ASSUME NEW S, NEW f \in [0 .. 1 -> S], NEW g \in [0 .. 1 -> S], \A j \in 0 .. 1 : f[j] = g[j]
        PROVE  f = g
    BY <2>3
  <2>4. w.assets[s] = w.assets[r]
    BY <2>1, <2>2, <2>3
  <2>5. w.sums[s] = w.sums[r]
    BY <2>1, <2>2, <2>3
  <2>6. w.assetDeltas[s] = w.assetDeltas[r]
    BY <2>1, <2>2, <2>3
  <2>7. w.accounts[s] = w.accounts[r] /\ w.deltas[s] = w.deltas[r]
    BY <1>1, <1>10 DEF TrueAccount, TrueDelta
  <2>8. OldLeaves(tx, w, s) = OldLeaves(tx, w, r)
    BY <1>10, <2>7 DEF OldLeaves, OldHash
  <2> QED
    BY <2>4, <2>5, <2>6, <2>8
<1>11. /\ SlotsAgree(tx, w) /\ SameAccountSameLeaf(tx, w.assets) /\ SameAccountSameLeaf(tx, w.sums)
       /\ SameAccountSameLeaf(tx, w.assetDeltas)
  BY <1>2, <1>10 DEF SlotsAgree, SameAccountSameLeaf, is_sender_receiver_different, fee_account_is
<1>12. ASSUME NEW s \in Slots PROVE Stands(tx, w, s)
  <2> DEFINE i == tx.index[s]
             a == LoadedAccount(L.accounts[i])
  <2>1. i \in Accounts /\ w.accounts[s] = a /\ w.deltas[s] = LoadedDelta(L.deltas[i])
    BY <1>1, TxIs DEF TrueAccount, TrueDelta
  <2>2. /\ Trees(L).account[i] = HashFromPartial(a, i, PartialOf(a)).account
        /\ Trees(L).pub[i] = HashFromPartial(a, i, PartialOf(a)).pub
        /\ DeltaTree(L)[i] = DeltaHash(LoadedDelta(L.deltas[i]))
    BY <2>1, StateLeaves
  <2>3. /\ OldLeaves(tx, w, s).account = HashFromPartial(a, i, PartialOf(a)).account
        /\ OldLeaves(tx, w, s).pub = HashFromPartial(a, i, PartialOf(a)).pub
        /\ OldLeaves(tx, w, s).delta = DeltaHash(LoadedDelta(L.deltas[i]))
    BY <2>1 DEF OldLeaves, OldHash
  <2> QED
    BY <2>2, <2>3 DEF Stands, RootReads, TrueRoots
<1> QED
  BY <1>5, <1>6, <1>7, <1>8, <1>9, <1>11, <1>12 DEF HeavyOpens

-----------------------------------------------------------------------------
(* The light circuit's only slot, which agrees with the account of the     *)
(* state, has the state's nested trees that it uses.                       *)
LEMMA LightFields ==
  ASSUME NEW tx \in Txs, tx.light, NEW w, NEW L, StateInv(L),
         Agree(w.accounts[TAKER], TrueAccount(tx, L, TAKER))
  PROVE  /\ KeySlot(tx) = TAKER /\ OrderSlot(tx) = TAKER /\ TAKER \in Slots
         /\ w.accounts[TAKER].keys = KeyRoot(L.accounts[tx.index[TAKER]])
         /\ w.accounts[TAKER].orders = OrderRoot(L.accounts[tx.index[TAKER]])
         /\ w.accounts[TAKER].assets = AssetRoot(L.accounts[tx.index[TAKER]])
<1>1. TAKER \in Slots
  BY Sizes
<1>2. L.accounts[tx.index[TAKER]] \in AccountSet
  BY <1>1, TxIs DEF StateInv, LedgerSet
<1>3. KeySlot(tx) = TAKER /\ OrderSlot(tx) = TAKER
  <2>1. tx.kind \in {"order", "terms"}
    BY TxIs
  <2> QED
    BY <2>1 DEF KeySlot, OrderSlot
<1>4. /\ w.accounts[TAKER].keys = KeyRoot(L.accounts[tx.index[TAKER]])
      /\ w.accounts[TAKER].orders = OrderRoot(L.accounts[tx.index[TAKER]])
      /\ w.accounts[TAKER].assets = AssetRoot(L.accounts[tx.index[TAKER]])
  BY <1>2, LoadedType DEF Agree, TrueAccount
<1> QED
  BY <1>1, <1>3, <1>4

LightReads(tx, w, L) ==
    /\ Agree(w.accounts[TAKER], TrueAccount(tx, L, TAKER))
    /\ KeyReads(tx, w, L) /\ OrderReads(tx, w, L) /\ AssetReads(tx, w, L, TAKER)

(* The light circuit proves a transaction only from leaves of the state    *)
(* whose roots it is given, and only a legal one.                          *)
LEMMA LightOpened ==
  ASSUME NEW tx \in Txs, tx.light, NEW w, Brings(tx, w), NEW L, StateInv(L), RootReads(w, L),
         LightOpens(tx, w), w.trees.account[tx.index[TAKER]] = OldLeaves(tx, w, TAKER).account
  PROVE  LightReads(tx, w, L) /\ Legal(tx, L)
<1>1. Agree(w.accounts[TAKER], TrueAccount(tx, L, TAKER))
  BY LightSlotIsTrue DEF RootReads
<1>2. /\ KeySlot(tx) = TAKER /\ OrderSlot(tx) = TAKER /\ TAKER \in Slots
      /\ w.accounts[TAKER].keys = KeyRoot(L.accounts[tx.index[TAKER]])
      /\ w.accounts[TAKER].orders = OrderRoot(L.accounts[tx.index[TAKER]])
      /\ w.accounts[TAKER].assets = AssetRoot(L.accounts[tx.index[TAKER]])
  BY <1>1, LightFields
<1>3. KeyReads(tx, w, L)
  BY <1>2, KeyOpened DEF LightOpens
<1>4. OrderReads(tx, w, L)
  BY <1>2, OrderOpened DEF LightOpens
<1>5. AssetReads(tx, w, L, TAKER)
  BY <1>2, AssetsOpened DEF LightOpens
<1>6. Legal(tx, L)
  BY <1>1, <1>4, LegalMeans DEF LightOpens
<1> QED
  BY <1>1, <1>3, <1>4, <1>5, <1>6 DEF LightReads

(* It proves a legal one from the leaves of the state.                     *)
LEMMA LightCloses ==
  ASSUME NEW tx \in Txs, tx.light, NEW w, Brings(tx, w), NEW L, StateInv(L), RootReads(w, L),
         LightReads(tx, w, L), w.accounts[TAKER] = TrueAccount(tx, L, TAKER),
         verify_transactions(tx, w)
  PROVE  LightOpens(tx, w) /\ w.trees.account[tx.index[TAKER]] = OldLeaves(tx, w, TAKER).account
<1>1. Agree(w.accounts[TAKER], TrueAccount(tx, L, TAKER)) /\ KeyReads(tx, w, L)
      /\ OrderReads(tx, w, L) /\ AssetReads(tx, w, L, TAKER)
  BY DEF LightReads
<1>2. /\ KeySlot(tx) = TAKER /\ OrderSlot(tx) = TAKER /\ TAKER \in Slots
      /\ w.accounts[TAKER].keys = KeyRoot(L.accounts[tx.index[TAKER]])
      /\ w.accounts[TAKER].orders = OrderRoot(L.accounts[tx.index[TAKER]])
      /\ w.accounts[TAKER].assets = AssetRoot(L.accounts[tx.index[TAKER]])
  BY <1>1, LightFields
<1>3. Legal(tx, L)
  BY <1>1, LegalMeans
<1>4. KeyOpens(tx, w)
  BY <1>1, <1>2, KeyOpened
<1>5. OrdersOpen(w, Applied(tx, w), TAKER)
  <2> DEFINE a == L.accounts[tx.index[TAKER]]
             b == AccountAfter(tx, a, tx.index[TAKER])
  <2>1. w.accounts[TAKER].orders = OrderRoot(a)
    BY <1>2
  <2> HIDE DEF b
  <2> QED
    BY <1>1, <1>2, <1>3, <2>1, OrderWritten DEF b
<1>6. OwnTree(tx, w, TAKER).ok
  BY <1>1, <1>2, AssetsOpened
<1>7. validate_asset_indices(tx)
  BY TxIs DEF validate_asset_indices
<1>8. w.trees.account[tx.index[TAKER]] = OldLeaves(tx, w, TAKER).account
  <2> DEFINE i == tx.index[TAKER]
             a == LoadedAccount(L.accounts[i])
  <2>1. i \in Accounts /\ w.accounts[TAKER] = a
    BY <1>2, TxIs DEF TrueAccount
  <2>2. Trees(L).account[i] = HashFromPartial(a, i, PartialOf(a)).account
    BY <2>1, StateLeaves
  <2>3. OldLeaves(tx, w, TAKER).account = HashFromPartial(a, i, PartialOf(a)).account
    BY <2>1 DEF OldLeaves, OldHash
  <2> QED
    BY <2>2, <2>3 DEF RootReads, TrueRoots
<1> QED
  BY <1>4, <1>5, <1>6, <1>7, <1>8 DEF LightOpens

(* What is left of a witness when what the light circuit has no use for is *)
(* blanked.                                                                *)
LEMMA PrivateIs ==
  ASSUME NEW tx, tx.light, NEW w, {"accounts", "assets"} \subseteq DOMAIN w,
         NEW p, p = Private(tx, w), TAKER \in DOMAIN w.accounts,
         DOMAIN w.accounts[TAKER] = AccountFields
  PROVE  /\ \A part \in DOMAIN w : part # "accounts" => p[part] = w[part]
         /\ DOMAIN p = DOMAIN w
         /\ DOMAIN p["accounts"][TAKER] = AccountFields
         /\ p["accounts"][TAKER].aggregated = EmptyRoot(AssetIndexes)
         /\ \A f \in AccountFields \ {"aggregated"} : p["accounts"][TAKER][f] = w.accounts[TAKER][f]
         /\ IsAccount(p["accounts"][TAKER])
<1> DEFINE e == EmptyRoot(AssetIndexes)
           q == [w.accounts EXCEPT ![TAKER].aggregated = e]
           z == [w.accounts[TAKER] EXCEPT !.aggregated = e]
<1>1. p = [w EXCEPT !.accounts[TAKER].aggregated = e]
  BY DEF Private
<1>2. p["accounts"] = q /\ DOMAIN p = DOMAIN w /\ \A part \in DOMAIN w : part # "accounts" => p[part] = w[part]
  <2> HIDE DEF e
  <2> QED
    BY <1>1
<1>3. q[TAKER] = z
  <2> HIDE DEF e
  <2> QED
    OBVIOUS
<1>4. /\ DOMAIN z = AccountFields /\ z.aggregated = e /\ z = [f \in AccountFields |-> z[f]]
      /\ \A f \in AccountFields \ {"aggregated"} : z[f] = w.accounts[TAKER][f]
  <2> HIDE DEF e
  <2> QED
    BY DEF AccountFields
<1> HIDE DEF z, q
<1> QED
  BY <1>2, <1>3, <1>4 DEF IsAccount

(* The parts of a witness.                                                 *)
WitnessFields ==
    {"accounts", "deltas", "assets", "sums", "assetDeltas", "positionDeltas", "key", "order",
     "market", "resting", "impact", "details", "lists", "stack", "trees", "deltaTree"}

(* What a witness consists of.                                             *)
LEMMA WitnessShape ==
  ASSUME NEW tx, NEW stale
  PROVE  DOMAIN WitnessFrom(tx, stale) = WitnessFields /\ DOMAIN WitnessFrom(tx, stale).accounts = Slots
<1> DEFINE w == WitnessFrom(tx, stale)
<1>1. DOMAIN w = WitnessFields
  BY DEF WitnessFrom, WitnessFields
<1>2. DOMAIN w.accounts = Slots
  BY DEF WitnessFrom
<1> QED
  BY <1>1, <1>2

(* A witness whose leaves are those of the state's roots differs from the  *)
(* state's own in nothing that the light circuit uses.                     *)
LEMMA LightTruth ==
  ASSUME StateInv(ledger), StateInv(before), NEW tx \in Txs, tx.light, NEW w, Brings(tx, w),
         DOMAIN w = WitnessFields, DOMAIN w.accounts = Slots,
         LightReads(tx, w, ledger), MarketReads(tx, w, ledger), RootReads(w, ledger)
  PROVE  Misread(tx, w, WitnessFrom(tx, {})) = {}
<1> DEFINE T == WitnessFrom(tx, {})
           p == Private(tx, w)
           t == Private(tx, T)
<1>1. /\ HeavyReads(tx, T, ledger) /\ MarketReads(tx, T, ledger) /\ RootReads(T, ledger)
      /\ Brings(tx, T) /\ DOMAIN T = WitnessFields /\ DOMAIN T.accounts = Slots
  BY TruthIs, WitnessBrings, WitnessShape
<1> HIDE DEF T
<1>2. TAKER \in Slots
  BY Sizes
<1>3. /\ SlotReads(tx, T, ledger, TAKER) /\ Agree(w.accounts[TAKER], TrueAccount(tx, ledger, TAKER))
      /\ AssetReads(tx, w, ledger, TAKER)
  BY <1>1, <1>2 DEF HeavyReads, LightReads
<1>4. w.assets[TAKER] = T.assets[TAKER]
  <2>1. \A j \in 0 .. 1 : w.assets[TAKER][j] = T.assets[TAKER][j]
    BY <1>3 DEF SlotReads, AssetReads
  <2>2. w.assets[TAKER] \in [0 .. 1 -> Asset] /\ T.assets[TAKER] \in [0 .. 1 -> Asset]
    BY <1>1, <1>2 DEF Brings
  <2> QED
    BY <2>1, <2>2
<1>5. Agree(w.accounts[TAKER], T.accounts[TAKER])
  BY <1>3 DEF SlotReads
<1>6. DOMAIN w.accounts[TAKER] = AccountFields /\ DOMAIN T.accounts[TAKER] = AccountFields
  <2>1. w.accounts[TAKER] \in LoadedSet /\ T.accounts[TAKER] \in LoadedSet
    BY <1>1, <1>2 DEF Brings, Proper
  <2> QED
    BY <2>1 DEF LoadedSet, AccountFields
<1> DEFINE P == p["accounts"][TAKER]
           Q == t["accounts"][TAKER]
<1>7. /\ {"accounts", "assets"} \subseteq DOMAIN w /\ TAKER \in DOMAIN w.accounts
      /\ {"accounts", "assets"} \subseteq DOMAIN T /\ TAKER \in DOMAIN T.accounts
  BY <1>1, <1>2 DEF WitnessFields
<1>8. /\ \A part : part # "accounts" => (part \in DOMAIN w => p[part] = w[part])
      /\ P.aggregated = EmptyRoot(AssetIndexes) /\ IsAccount(P)
      /\ \A f \in AccountFields \ {"aggregated"} : P[f] = w.accounts[TAKER][f]
  <2> HIDE DEF p
  <2> QED
    BY <1>6, <1>7, PrivateIs DEF p
<1>9. /\ \A part : part # "accounts" => (part \in DOMAIN T => t[part] = T[part])
      /\ Q.aggregated = EmptyRoot(AssetIndexes) /\ IsAccount(Q)
      /\ \A f \in AccountFields \ {"aggregated"} : Q[f] = T.accounts[TAKER][f]
  <2> HIDE DEF t
  <2> QED
    BY <1>1, <1>6, <1>7, PrivateIs DEF t
<1>10. P = Q
  <2> HIDE DEF P, Q
  <2>1. \A f \in AccountFields \ {"aggregated"} : w.accounts[TAKER][f] = T.accounts[TAKER][f]
    BY <1>5 DEF Agree, AccountFields
  <2>2. \A f \in AccountFields : P[f] = Q[f]
    BY <1>8, <1>9, <2>1
  <2> QED
    BY <1>8, <1>9, <2>2 DEF IsAccount
<1>11. /\ w.key = T.key /\ w.order = T.order /\ w.market = T.market /\ w.resting = T.resting
       /\ w.impact = T.impact /\ w.details = T.details /\ w.lists = T.lists /\ w.stack = T.stack
  BY <1>1 DEF HeavyReads, LightReads, KeyReads, OrderReads, MarketReads, RootReads
<1>12. tx.kind # "fill"
  BY TxIs
<1> HIDE DEF p, t
<1>13. ASSUME NEW part \in SlotParts(tx), NEW s \in SlotsUsed(tx) PROVE p[part][s] = t[part][s]
  <2>1. s = TAKER /\ part \in {"accounts", "assets"}
    BY <1>13 DEF SlotsUsed, SlotParts
  <2>2. CASE part = "accounts"
    BY <1>10, <2>1, <2>2
  <2>3. CASE part = "assets"
    <3>1. p["assets"] = w.assets /\ t["assets"] = T.assets
      BY <1>7, <1>8, <1>9
    <3> QED
      BY <1>4, <2>1, <2>3, <3>1
  <2> QED
    BY <2>1, <2>2, <2>3
<1>14. ASSUME NEW part \in {"key", "order", "market", "resting", "impact", "details", "lists", "stack"}
       PROVE  p[part] = t[part]
  <2>1. part \in DOMAIN w /\ part \in DOMAIN T /\ part # "accounts"
    BY <1>1 DEF WitnessFields
  <2>2. p[part] = w[part] /\ t[part] = T[part]
    BY <1>8, <1>9, <2>1
  <2>3. w[part] = T[part]
    BY <1>11
  <2> QED
    BY <2>2, <2>3
<1>15. Differ(tx, p, t) = {}
  BY <1>12, <1>13, <1>14 DEF Differ
<1> QED
  BY <1>15 DEF Misread, T, p, t

(* A proof exists when every step of the circuit accepts.                  *)
LEMMA ResultOk ==
  ASSUME NEW tx, NEW w, NEW x, NEW t, NEW m, NEW d, NEW o, NEW r, r = Result(tx, w, x, t, m, d, o)
  PROVE  r.ok <=> x.ok /\ t.ok /\ m.ok /\ d.ok /\ verify_old_state_root(w, o)
<1>1. r.ok = (x.ok /\ t.ok /\ m.ok /\ d.ok /\ verify_old_state_root(w, o))
  BY Zenon DEF Result
<1> QED
  BY <1>1, Zenon

(* The heavy circuit is its copy of the parts, its trees and the check of  *)
(* the root.                                                               *)
LEMMA HeavyResult ==
  ASSUME NEW tx, NEW w, NEW o
  PROVE  \E x, t :
           /\ x = verify_assets_merkle_proofs(tx, w, verify_account_orders_merkle_proof(tx, w,
                    verify_api_key_merkle_proof(tx, w,
                      verify_position_delta_merkle_proofs(tx, w, apply_transaction(tx, w)))))
           /\ t = verify_account_and_pub_data_merkle_proofs(tx, w, x)
           /\ define(tx, w, o) = Result(tx, w, x, t, verify_market_and_order_book_proofs(tx, w, x),
                                        verify_market_details_merkle_proof(tx, w, x), o)
BY Zenon DEF define

(* The same of the light circuit.                                          *)
LEMMA LightResult ==
  ASSUME NEW tx, NEW w, NEW o
  PROVE  \E x, t :
           /\ x = verify_light_assets_merkle_proofs(tx, w, verify_light_account_orders_merkle_proof(w,
                    verify_light_api_key_merkle_proof(w,
                      [apply_transaction(tx, w) EXCEPT !.ok = @ /\ tx.kind \in LightAllowed])))
           /\ t = verify_light_account_merkle_proof(tx, w, x)
           /\ define_light(tx, w, o) =
                Result(tx, w, x, t, verify_market_and_order_book_proofs(tx, w, x),
                       verify_market_details_merkle_proof(tx, w, x), o)
BY Zenon DEF define_light

(* With the roots of the state, the check of the old root accepts exactly  *)
(* the state's own trees, lists and stack.                                 *)
LEMMA RootChecked ==
  ASSUME NEW tx, NEW w, Brings(tx, w), NEW L, StateInv(L), w.deltaTree = DeltaTree(L)
  PROVE  verify_old_state_root(w, Commitment(L)) <=> RootReads(w, L)
<1>1. L \in LedgerSet /\ w.lists \in ListSet
  BY DEF StateInv, Brings
<1>2. verify_old_state_root(w, Commitment(L)) => RootReads(w, L)
  BY <1>1, RootTells DEF RootReads, TrueRoots
<1>3. ASSUME RootReads(w, L) PROVE verify_old_state_root(w, Commitment(L))
  BY <1>3 DEF RootReads, TrueRoots, verify_old_state_root, Commitment,
              compute_validium_and_state_root, StateRoot
<1> QED
  BY <1>2, <1>3

(* What the heavy circuit proves: the transaction was legal in the state   *)
(* whose roots it was given, everything it read was that state's, and the  *)
(* roots it returns are those of the state after the transaction.          *)
LEMMA HeavySound ==
  ASSUME NEW tx \in Txs, ~tx.light, NEW w, Brings(tx, w), NEW L, StateInv(L),
         w.deltaTree = DeltaTree(L), NEW r, r = define(tx, w, Commitment(L)), r.ok
  PROVE  /\ Legal(tx, L) /\ HeavyReads(tx, w, L) /\ MarketReads(tx, w, L)
         /\ RootReads(w, L)
         /\ r.root = Commitment(LedgerAfter(tx, L))
         /\ r.delta = DeltaTree(LedgerAfter(tx, L))
<1> DEFINE m(x) == verify_market_and_order_book_proofs(tx, w, x)
           d(x) == verify_market_details_merkle_proof(tx, w, x)
           M == LedgerAfter(tx, L)
<1>1. PICK x, t :
        /\ x = verify_assets_merkle_proofs(tx, w, verify_account_orders_merkle_proof(tx, w,
                 verify_api_key_merkle_proof(tx, w,
                   verify_position_delta_merkle_proofs(tx, w, apply_transaction(tx, w)))))
        /\ t = verify_account_and_pub_data_merkle_proofs(tx, w, x)
        /\ r = Result(tx, w, x, t, m(x), d(x), Commitment(L))
  BY HeavyResult, Zenon
<1>2. x.ok /\ t.ok /\ m(x).ok /\ d(x).ok /\ verify_old_state_root(w, Commitment(L))
  <2> HIDE DEF m, d
  <2> QED
    BY <1>1, ResultOk
<1>3. /\ Kept(x, Applied(tx, w)) /\ HeavyOpens(tx, w)
      /\ \A s \in Slots : Loaded(tx, s) => /\ Rewritten(tx, w, x.accounts[s], s)
                                           /\ RewrittenSums(tx, w, x.accounts[s], s)
                                           /\ RewrittenDelta(tx, w, x.deltas[s], s)
  BY <1>1, <1>2, HeavyCopy, Zenon
<1>4. RootReads(w, L) /\ TrueRoots(w, L)
  BY <1>2, RootChecked, Zenon DEF RootReads
<1>5. SlotsAgree(tx, w) /\ \A s \in Slots : Loaded(tx, s) => Stands(tx, w, s)
  <2>1. Rooted(w)
    BY <1>4, StateRooted, Zenon
  <2> QED
    BY <2>1, <1>1, <1>2, AllSlots, Zenon
<1>6. HeavyReads(tx, w, L) /\ Legal(tx, L)
  BY <1>3, <1>4, <1>5, HeavyOpened, Zenon
<1>7. x.resting = w.resting + RestingBy(tx) /\ x.buckets = Applied(tx, w).buckets
  <2>1. Applied(tx, w).resting = w.resting + RestingBy(tx)
    BY AppliedIs, Zenon
  <2> QED
    BY <2>1, <1>3, Zenon DEF Kept
<1>8. MarketReads(tx, w, L)
  BY <1>2, <1>4, <1>7, MarketOpened, Zenon
<1>9. t.account = Trees(M).account /\ t.pub = Trees(M).pub /\ t.delta = DeltaTree(M)
  <2>1. PositionsOpen(tx, w, Applied(tx, w))
    BY <1>3, Zenon DEF HeavyOpens
  <2> QED
    BY <2>1, <1>1, <1>3, <1>4, <1>6, <1>7, HeavyTrees
<1>10. r.root = Commitment(M) /\ r.delta = DeltaTree(M)
  <2> HIDE DEF M
  <2>1. M = LedgerAfter(tx, L)
    BY Zenon DEF M
  <2> QED
    BY <2>1, <1>1, <1>3, <1>4, <1>8, <1>9, RootWritten
<1> QED
  BY <1>4, <1>6, <1>8, <1>10, Zenon

(* What the light circuit proves, which opens one account only.            *)
LEMMA LightSound ==
  ASSUME NEW tx \in Txs, tx.light, NEW w, Brings(tx, w), NEW L, StateInv(L),
         w.deltaTree = DeltaTree(L), NEW r, r = define_light(tx, w, Commitment(L)), r.ok
  PROVE  /\ Legal(tx, L) /\ LightReads(tx, w, L) /\ MarketReads(tx, w, L)
         /\ RootReads(w, L)
         /\ r.root = Commitment(LedgerAfter(tx, L))
         /\ r.delta = DeltaTree(LedgerAfter(tx, L))
<1> DEFINE m(x) == verify_market_and_order_book_proofs(tx, w, x)
           d(x) == verify_market_details_merkle_proof(tx, w, x)
           M == LedgerAfter(tx, L)
<1>1. PICK x, t :
        /\ x = verify_light_assets_merkle_proofs(tx, w, verify_light_account_orders_merkle_proof(w,
                 verify_light_api_key_merkle_proof(w,
                   [apply_transaction(tx, w) EXCEPT !.ok = @ /\ tx.kind \in LightAllowed])))
        /\ t = verify_light_account_merkle_proof(tx, w, x)
        /\ r = Result(tx, w, x, t, m(x), d(x), Commitment(L))
  BY LightResult, Zenon
<1>2. x.ok /\ t.ok /\ m(x).ok /\ d(x).ok /\ verify_old_state_root(w, Commitment(L))
  <2> HIDE DEF m, d
  <2> QED
    BY <1>1, ResultOk
<1>3. Kept(x, Applied(tx, w)) /\ LightOpens(tx, w) /\ Rewritten(tx, w, x.accounts[TAKER], TAKER)
  BY <1>1, <1>2, LightCopy, Zenon
<1>4. RootReads(w, L) /\ TrueRoots(w, L)
  BY <1>2, RootChecked, Zenon DEF RootReads
<1>5. w.trees.account[tx.index[TAKER]] = OldLeaves(tx, w, TAKER).account
  <2>1. t.ok = verify_merkle_proof(w.trees.account, OldLeaves(tx, w, TAKER).account, tx.index[TAKER])
    BY <1>1, Zenon DEF verify_light_account_merkle_proof
  <2> QED
    BY <2>1, <1>2, Zenon DEF verify_merkle_proof
<1>6. LightReads(tx, w, L) /\ Legal(tx, L)
  BY <1>3, <1>4, <1>5, LightOpened, Zenon
<1>7. x.resting = w.resting + RestingBy(tx) /\ x.buckets = Applied(tx, w).buckets
  <2>1. Applied(tx, w).resting = w.resting + RestingBy(tx)
    BY AppliedIs, Zenon
  <2> QED
    BY <2>1, <1>3, Zenon DEF Kept
<1>8. MarketReads(tx, w, L)
  BY <1>2, <1>4, <1>7, MarketOpened, Zenon
<1>9. t.account = Trees(M).account /\ t.pub = Trees(M).pub /\ t.delta = DeltaTree(M)
  <2>1. /\ Agree(w.accounts[TAKER], TrueAccount(tx, L, TAKER)) /\ KeyReads(tx, w, L)
        /\ OrderReads(tx, w, L) /\ AssetReads(tx, w, L, TAKER)
    BY <1>6, Zenon DEF LightReads
  <2> QED
    BY <2>1, <1>1, <1>3, <1>4, <1>6, <1>7, LightTrees
<1>10. r.root = Commitment(M) /\ r.delta = DeltaTree(M)
  <2> HIDE DEF M
  <2>1. M = LedgerAfter(tx, L)
    BY Zenon DEF M
  <2> QED
    BY <2>1, <1>1, <1>3, <1>4, <1>8, <1>9, RootWritten
<1> QED
  BY <1>4, <1>6, <1>8, <1>10, Zenon

(* A transaction the rules allow is proved when it is given the state's    *)
(* own leaves: no check of the heavy circuit stands in its way.            *)
LEMMA HeavyComplete ==
  ASSUME StateInv(ledger), StateInv(before), NEW tx \in Txs, ~tx.light,
         NEW w, w = WitnessFrom(tx, {}), verify_transactions(tx, w),
         NEW r, r = define(tx, w, Commitment(ledger))
  PROVE  r.ok
<1> DEFINE m(x) == verify_market_and_order_book_proofs(tx, w, x)
           d(x) == verify_market_details_merkle_proof(tx, w, x)
<1>0. Brings(tx, w)
  BY WitnessBrings, Zenon
<1>1. PICK x, t :
        /\ x = verify_assets_merkle_proofs(tx, w, verify_account_orders_merkle_proof(tx, w,
                 verify_api_key_merkle_proof(tx, w,
                   verify_position_delta_merkle_proofs(tx, w, apply_transaction(tx, w)))))
        /\ t = verify_account_and_pub_data_merkle_proofs(tx, w, x)
        /\ r = Result(tx, w, x, t, m(x), d(x), Commitment(ledger))
  BY HeavyResult, Zenon
<1>2. /\ HeavyReads(tx, w, ledger) /\ MarketReads(tx, w, ledger)
      /\ RootReads(w, ledger)
      /\ \A s \in {TAKER, MAKER} : w.positionDeltas[s] =
           ledger.deltas[tx.index[s]].positions[perps_market_index(tx.market)]
  BY TruthIs, Zenon
<1>3. HeavyOpens(tx, w) /\ SlotsAgree(tx, w) /\ \A s \in Slots : Loaded(tx, s) => Stands(tx, w, s)
  BY <1>0, <1>2, HeavyCloses, Zenon
<1>4. x.ok /\ Kept(x, Applied(tx, w))
  BY <1>0, <1>1, <1>3, HeavyCopy, Zenon
<1>5. TrueRoots(w, ledger) /\ w.deltaTree = DeltaTree(ledger)
  BY <1>2, Zenon DEF RootReads, TrueRoots
<1>6. t.ok
  <2>1. Rooted(w)
    BY <1>5, StateRooted, Zenon
  <2> QED
    BY <2>1, <1>1, <1>3, AllSlots, Zenon
<1>7. m(x).ok /\ d(x).ok
  <2>1. Applied(tx, w).resting = w.resting + RestingBy(tx)
    BY <1>0, AppliedIs, Zenon
  <2>2. x.resting = w.resting + RestingBy(tx)
    BY <2>1, <1>4, Zenon DEF Kept
  <2> QED
    BY <1>0, <2>2, <1>2, MarketOpened, Zenon
<1>8. verify_old_state_root(w, Commitment(ledger))
  BY <1>0, <1>2, <1>5, RootChecked, Zenon
<1> HIDE DEF m, d
<1> QED
  BY <1>1, <1>4, <1>6, <1>7, <1>8, ResultOk

(* The light circuit refuses no such transaction either.                   *)
LEMMA LightComplete ==
  ASSUME StateInv(ledger), StateInv(before), NEW tx \in Txs, tx.light,
         NEW w, w = WitnessFrom(tx, {}), verify_transactions(tx, w),
         NEW r, r = define_light(tx, w, Commitment(ledger))
  PROVE  r.ok
<1> DEFINE m(x) == verify_market_and_order_book_proofs(tx, w, x)
           d(x) == verify_market_details_merkle_proof(tx, w, x)
<1>0. Brings(tx, w)
  BY WitnessBrings, Zenon
<1>1. PICK x, t :
        /\ x = verify_light_assets_merkle_proofs(tx, w, verify_light_account_orders_merkle_proof(w,
                 verify_light_api_key_merkle_proof(w,
                   [apply_transaction(tx, w) EXCEPT !.ok = @ /\ tx.kind \in LightAllowed])))
        /\ t = verify_light_account_merkle_proof(tx, w, x)
        /\ r = Result(tx, w, x, t, m(x), d(x), Commitment(ledger))
  BY LightResult, Zenon
<1>2. HeavyReads(tx, w, ledger) /\ MarketReads(tx, w, ledger) /\ RootReads(w, ledger)
  BY TruthIs, Zenon
<1>3. w.accounts[TAKER] = TrueAccount(tx, ledger, TAKER) /\ LightReads(tx, w, ledger)
  <2>1. TAKER \in Slots
    BY DEF TAKER, Slots
  <2>2. SlotReads(tx, w, ledger, TAKER) /\ KeyReads(tx, w, ledger) /\ OrderReads(tx, w, ledger)
    BY <2>1, <1>2, Zenon DEF HeavyReads
  <2>3. w.accounts[TAKER] = TrueAccount(tx, ledger, TAKER) /\ AssetReads(tx, w, ledger, TAKER)
    BY <2>2, Zenon DEF SlotReads
  <2>4. Agree(w.accounts[TAKER], TrueAccount(tx, ledger, TAKER))
    BY <2>3, Zenon DEF Agree
  <2> QED
    BY <2>2, <2>3, <2>4, Zenon DEF LightReads
<1>4. LightOpens(tx, w) /\ w.trees.account[tx.index[TAKER]] = OldLeaves(tx, w, TAKER).account
  BY <1>0, <1>2, <1>3, LightCloses, Zenon
<1>5. x.ok /\ Kept(x, Applied(tx, w))
  BY <1>0, <1>1, <1>4, LightCopy, Zenon
<1>6. t.ok
  <2>1. t.ok = verify_merkle_proof(w.trees.account, OldLeaves(tx, w, TAKER).account, tx.index[TAKER])
    BY <1>1, Zenon DEF verify_light_account_merkle_proof
  <2> QED
    BY <2>1, <1>4, Zenon DEF verify_merkle_proof
<1>7. m(x).ok /\ d(x).ok
  <2>1. Applied(tx, w).resting = w.resting + RestingBy(tx)
    BY <1>0, AppliedIs, Zenon
  <2>2. x.resting = w.resting + RestingBy(tx)
    BY <2>1, <1>5, Zenon DEF Kept
  <2> QED
    BY <1>0, <2>2, <1>2, MarketOpened, Zenon
<1>8. verify_old_state_root(w, Commitment(ledger))
  <2>1. w.deltaTree = DeltaTree(ledger)
    BY <1>2, Zenon DEF RootReads, TrueRoots
  <2> QED
    BY <1>0, <1>2, <2>1, RootChecked, Zenon
<1> HIDE DEF m, d
<1> QED
  BY <1>1, <1>5, <1>6, <1>7, <1>8, ResultOk

-----------------------------------------------------------------------------
(* The invariant holds at the beginning of a block.                        *)
LEMMA BlankAccountType ==
  ASSUME NEW l1 \in Int, NEW balance \in Int, NEW order \in Int
  PROVE  BlankAccount(l1, balance, order) \in AccountSet
<1> DEFINE a == BlankAccount(l1, balance, order)
<1>1. \A p \in Perps : [size |-> 0, tied |-> 1] \in Position /\ NoPosition \in Position
  BY DEF Position, NoPosition
<1>2. a.positions \in [Perps -> Position]
  BY <1>1 DEF BlankAccount
<1>3. a.keys \in [Keys -> Int] /\ a.orders \in [OrderIndexes -> Int]
  BY DEF BlankAccount
<1>4. a.assets \in [AssetIndexes -> Asset] /\ a.aggregated \in [AssetIndexes -> Int]
  BY DEF BlankAccount, Asset
<1>5. a = [l1 |-> l1, shares |-> 0, fixed |-> 0, positions |-> a.positions, open |-> 0,
           keys |-> a.keys, orders |-> a.orders, assets |-> a.assets, aggregated |-> a.aggregated]
  BY DEF BlankAccount
<1> HIDE DEF a
<1>6. a \in AccountSet
  BY <1>2, <1>3, <1>4, <1>5 DEF AccountSet
<1> QED
  BY <1>6, Zenon DEF a

(* The state at the beginning of a block, part by part.                    *)
LEMMA GenesisIs ==
  /\ \A i \in Accounts :
       Genesis.accounts[i] = CASE i = 1 -> BlankAccount(1, 3, 0) [] i = 2 -> BlankAccount(1, 1, 4)
                               [] OTHER -> BlankAccount(0, 0, 0)
  /\ Genesis.accounts = [i \in Accounts |-> Genesis.accounts[i]]
  /\ \A i \in Accounts : /\ Genesis.deltas[i] \in DeltaSet
                         /\ Genesis.deltas[i].l1 = 0 /\ Genesis.deltas[i].positions[NIL_MARKET] = 0
  /\ Genesis.deltas = [i \in Accounts |-> Genesis.deltas[i]]
  /\ Genesis.markets \in [{0, 2, 7} -> MarketSet]
  /\ Genesis.details \in [Perps \cup {NIL_MARKET} -> Int]
  /\ Genesis.lists \in ListSet /\ Genesis.stack = 0
<1>1. \A i \in Accounts :
        Genesis.accounts[i] = CASE i = 1 -> BlankAccount(1, 3, 0) [] i = 2 -> BlankAccount(1, 1, 4)
                                [] OTHER -> BlankAccount(0, 0, 0)
  BY Zenon DEF Genesis
<1>2. /\ Genesis.accounts = [i \in Accounts |-> Genesis.accounts[i]]
      /\ Genesis.deltas = [i \in Accounts |-> Genesis.deltas[i]]
  BY DEF Genesis
<1>3. ASSUME NEW i \in Accounts
      PROVE  /\ Genesis.deltas[i] \in DeltaSet
             /\ Genesis.deltas[i].l1 = 0 /\ Genesis.deltas[i].positions[NIL_MARKET] = 0
  <2>1. Genesis.deltas[i] = [l1 |-> 0, shares |-> 0,
                             positions |-> [p \in Perps \cup {NIL_MARKET} |-> 0],
                             assets |-> [k \in AssetIndexes |-> 0]]
    BY DEF Genesis
  <2> QED
    BY <2>1 DEF DeltaSet
<1>4. Genesis.markets \in [{0, 2, 7} -> MarketSet]
  BY DEF Genesis, MarketSet
<1>5. Genesis.details \in [Perps \cup {NIL_MARKET} -> Int] /\ Genesis.stack = 0
  BY DEF Genesis
<1>6. Genesis.lists \in ListSet
  <2>1. \A i \in MarginIndexes : 1 - i \in Int
    BY DEF MarginIndexes
  <2> QED
    BY <2>1 DEF Genesis, ListSet
<1> QED
  BY <1>1, <1>2, <1>3, <1>4, <1>5, <1>6

(* It satisfies the invariant.                                             *)
LEMMA GenesisInv == StateInv(Genesis)
<1>1. ASSUME NEW i \in Accounts
      PROVE  \E l1 \in {0, 1}, balance \in {0, 1, 3}, order \in {0, 4} :
               /\ Genesis.accounts[i] = BlankAccount(l1, balance, order)
               /\ l1 = 0 => balance = 0 /\ order = 0
  BY GenesisIs
<1>2. ASSUME NEW i \in Accounts
      PROVE  /\ Genesis.accounts[i] \in AccountSet
             /\ Genesis.accounts[i].l1 = 0 => Genesis.accounts[i] = Blank
             /\ Genesis.accounts[i].orders[NIL_ORDER] = 0
             /\ Genesis.accounts[i].orders[8] # 0 =>
                  Genesis.accounts[i].orders[3] = Genesis.accounts[i].orders[8]
  <2>1. PICK l1 \in {0, 1}, balance \in {0, 1, 3}, order \in {0, 4} :
          /\ Genesis.accounts[i] = BlankAccount(l1, balance, order)
          /\ l1 = 0 => balance = 0 /\ order = 0
    BY <1>1
  <2> DEFINE a == BlankAccount(l1, balance, order)
  <2>2. a \in AccountSet
    BY BlankAccountType
  <2>3. a.l1 = l1
    BY DEF BlankAccount
  <2>4. a.orders = [o \in OrderIndexes |-> IF o \in {8, order - 1} /\ order > 0 THEN order ELSE 0]
    BY DEF BlankAccount
  <2>5. a.orders[NIL_ORDER] = 0 /\ (a.orders[8] # 0 => a.orders[3] = a.orders[8])
    <3>1. NIL_ORDER \in OrderIndexes /\ 3 \in OrderIndexes /\ 8 \in OrderIndexes /\ NIL_ORDER = 0
      BY DEF OrderIndexes, NIL_ORDER
    <3> HIDE DEF a
    <3> QED
      BY <3>1, <2>4
  <2>6. l1 = 0 => a = Blank
    BY <2>1 DEF Blank
  <2>7. Genesis.accounts[i] = a
    BY <2>1
  <2> HIDE DEF a
  <2> QED
    BY <2>2, <2>3, <2>5, <2>6, <2>7
<1>3. Genesis.accounts \in [Accounts -> AccountSet] /\ Genesis.deltas \in [Accounts -> DeltaSet]
  <2> DEFINE f == Genesis.accounts
             g == Genesis.deltas
  <2>1. f = [i \in Accounts |-> f[i]] /\ g = [i \in Accounts |-> g[i]]
    BY GenesisIs, Zenon
  <2>2. \A i \in Accounts : f[i] \in AccountSet /\ g[i] \in DeltaSet
    BY <1>2, GenesisIs, Zenon
  <2> HIDE DEF f, g
  <2>3. f \in [Accounts -> AccountSet] /\ g \in [Accounts -> DeltaSet]
    BY <2>1, <2>2
  <2> QED
    BY <2>3, Zenon DEF f, g
<1>4. Genesis = [accounts |-> Genesis.accounts, deltas |-> Genesis.deltas,
                 markets |-> Genesis.markets, details |-> Genesis.details,
                 lists |-> Genesis.lists, stack |-> Genesis.stack]
  BY DEF Genesis
<1> DEFINE G == Genesis
<1>5. G \in LedgerSet
  <2>1. G.markets \in [{0, 2, 7} -> MarketSet] /\ G.lists \in ListSet /\ G.stack \in Int
        /\ G.details \in [Perps \cup {NIL_MARKET} -> Int]
    BY GenesisIs
  <2> QED
    BY <2>1, <1>3, <1>4 DEF LedgerSet
<1>6. BlankInv(G) /\ NilInv(G) /\ OrderInv(G)
  BY <1>2, GenesisIs, Zenon DEF BlankInv, NilInv, OrderInv
<1> QED
  BY <1>5, <1>6 DEF StateInv

-----------------------------------------------------------------------------
(* Every transaction leaves the invariant in force.  Accepted: what the    *)
(* circuit proves.  Refused: a witness that is the state's own is not.     *)
LEMMA AcceptedStep ==
  ASSUME IInv, NEW tx \in Txs, NEW stale, NEW w, NEW result, result.ok,
         Judged(tx, stale, w, result), Legal(tx, ledger),
         Misread(tx, w, WitnessFrom(tx, {})) = {},
         result.root = Commitment(LedgerAfter(tx, ledger)),
         result.delta = DeltaTree(LedgerAfter(tx, ledger))
  PROVE  IInv'
<1>1. StateInv(ledger)
  BY Zenon DEF IInv
<1>2. /\ ledger' = LedgerAfter(tx, ledger) /\ before' = ledger
      /\ root' = result.root /\ deltaRoot' = result.delta
      /\ misread' = Misread(tx, w, WitnessFrom(tx, {}))
      /\ outcome' = "accepted"
  <2>1. /\ ledger' = IF result.ok THEN LedgerAfter(tx, ledger) ELSE ledger
        /\ before' = IF result.ok THEN ledger ELSE before
        /\ root' = IF result.ok THEN result.root ELSE root
        /\ deltaRoot' = IF result.ok THEN result.delta ELSE deltaRoot
        /\ misread' = IF result.ok THEN Misread(tx, w, WitnessFrom(tx, {})) ELSE {}
    BY Zenon DEF Judged
  <2>2. outcome' = "accepted"
    BY DEF Judged
  <2> QED
    BY <2>1, <2>2, Zenon
<1>3. StateInv(LedgerAfter(tx, ledger))
  BY <1>1, NextState, Zenon
<1>4. /\ StateInv(ledger') /\ StateInv(before')
      /\ root' = Commitment(ledger') /\ deltaRoot' = DeltaTree(ledger')
      /\ misread' = {} /\ outcome' # "refused though current"
  <2>1. outcome' # "refused though current"
    BY <1>2
  <2> QED
    BY <1>1, <1>2, <1>3, <2>1, Zenon
<1> QED
  BY <1>4, Zenon DEF IInv

(* A refusal changes nothing, and is never of the state's own witness.     *)
LEMMA RefusedStep ==
  ASSUME IInv, NEW tx \in Txs, NEW stale, NEW w, NEW result, ~result.ok,
         Judged(tx, stale, w, result),
         stale = {} => ~verify_transactions(tx, WitnessFrom(tx, {}))
  PROVE  IInv'
<1>1. /\ ledger' = ledger /\ before' = before /\ root' = root /\ deltaRoot' = deltaRoot
      /\ misread' = {}
  BY Zenon DEF Judged
<1>2. outcome' # "refused though current"
  <2> DEFINE v == verify_transactions(tx, WitnessFrom(tx, {}))
  <2>1. outcome' = CASE result.ok -> "accepted"
                     [] ~result.ok /\ v -> IF stale = {} THEN "refused though current" ELSE "refused"
                     [] OTHER -> "not legal"
    BY Zenon DEF Judged
  <2>2. CASE v
    <3>1. stale # {}
      BY <2>2
    <3> HIDE DEF v
    <3> QED
      BY <2>1, <2>2, <3>1
  <2>3. CASE ~v
    <3> HIDE DEF v
    <3> QED
      BY <2>1, <2>3
  <2> QED
    BY <2>2, <2>3
<1> QED
  BY <1>1, <1>2, Zenon DEF IInv

(* A transaction given to the heavy circuit.                               *)
LEMMA ProveStep ==
  ASSUME IInv, NEW tx \in Txs, NEW stale, Prove(tx, stale)
  PROVE  IInv'
<1>1. ~tx.light
  BY Zenon DEF Prove
<1>2. PICK w, result : /\ w = WitnessFrom(tx, stale) /\ w.deltaTree = deltaRoot
                       /\ result = define(tx, w, root) /\ Judged(tx, stale, w, result)
  <2>1. \E w \in {WitnessFrom(tx, stale)} :
          /\ w.deltaTree = deltaRoot
          /\ \E result \in {define(tx, w, root)} : Judged(tx, stale, w, result)
    BY Zenon DEF Prove
  <2> QED
    BY <2>1, Zenon
<1>3. /\ StateInv(ledger) /\ StateInv(before)
      /\ root = Commitment(ledger) /\ deltaRoot = DeltaTree(ledger)
  BY Zenon DEF IInv
<1>4. Brings(tx, w)
  BY <1>2, <1>3, WitnessBrings, Zenon
<1>5. CASE result.ok
  <2>1. /\ Legal(tx, ledger) /\ HeavyReads(tx, w, ledger) /\ MarketReads(tx, w, ledger)
        /\ RootReads(w, ledger)
        /\ result.root = Commitment(LedgerAfter(tx, ledger))
        /\ result.delta = DeltaTree(LedgerAfter(tx, ledger))
    BY <1>1, <1>2, <1>3, <1>4, <1>5, HeavySound, Zenon
  <2>2. Misread(tx, w, WitnessFrom(tx, {})) = {}
    BY <1>1, <1>3, <1>4, <2>1, HeavyTruth, Zenon
  <2> QED
    BY <1>2, <1>5, <2>1, <2>2, AcceptedStep, Zenon
<1>6. CASE ~result.ok
  <2>1. ASSUME stale = {}, verify_transactions(tx, WitnessFrom(tx, {})) PROVE FALSE
    BY <1>1, <1>2, <1>3, <1>6, <2>1, HeavyComplete, Zenon
  <2> QED
    BY <1>2, <1>6, <2>1, RefusedStep, Zenon
<1> QED
  BY <1>5, <1>6

(* A transaction given to the light circuit.                               *)
LEMMA ProveLightStep ==
  ASSUME IInv, NEW tx \in Txs, NEW stale, ProveLight(tx, stale)
  PROVE  IInv'
<1>1. tx.light
  BY Zenon DEF ProveLight
<1>2. PICK w, result : /\ w = WitnessFrom(tx, stale) /\ w.deltaTree = deltaRoot
                       /\ result = define_light(tx, w, root) /\ Judged(tx, stale, w, result)
  <2>1. \E w \in {WitnessFrom(tx, stale)} :
          /\ w.deltaTree = deltaRoot
          /\ \E result \in {define_light(tx, w, root)} : Judged(tx, stale, w, result)
    BY Zenon DEF ProveLight
  <2> QED
    BY <2>1, Zenon
<1>3. /\ StateInv(ledger) /\ StateInv(before)
      /\ root = Commitment(ledger) /\ deltaRoot = DeltaTree(ledger)
  BY Zenon DEF IInv
<1>4. Brings(tx, w) /\ DOMAIN w = WitnessFields /\ DOMAIN w.accounts = Slots
  BY <1>2, <1>3, WitnessBrings, WitnessShape, Zenon
<1>5. CASE result.ok
  <2>1. /\ Legal(tx, ledger) /\ LightReads(tx, w, ledger) /\ MarketReads(tx, w, ledger)
        /\ RootReads(w, ledger)
        /\ result.root = Commitment(LedgerAfter(tx, ledger))
        /\ result.delta = DeltaTree(LedgerAfter(tx, ledger))
    BY <1>1, <1>2, <1>3, <1>4, <1>5, LightSound, Zenon
  <2>2. Misread(tx, w, WitnessFrom(tx, {})) = {}
    BY <1>1, <1>3, <1>4, <2>1, LightTruth, Zenon
  <2> QED
    BY <1>2, <1>5, <2>1, <2>2, AcceptedStep, Zenon
<1>6. CASE ~result.ok
  <2>1. ASSUME stale = {}, verify_transactions(tx, WitnessFrom(tx, {})) PROVE FALSE
    BY <1>1, <1>2, <1>3, <1>6, <2>1, LightComplete, Zenon
  <2> QED
    BY <1>2, <1>6, <2>1, RefusedStep, Zenon
<1> QED
  BY <1>5, <1>6

(* The invariant that the three theorems rest on holds in every state.     *)
THEOREM StateInvariant == Spec => []IInv
<1>1. Init => IInv
  <2>1. Init => /\ StateInv(ledger) /\ StateInv(before)
                /\ root = Commitment(ledger) /\ deltaRoot = DeltaTree(ledger)
                /\ misread = {} /\ outcome = "none"
    BY GenesisInv, Zenon DEF Init
  <2> QED
    BY <2>1 DEF IInv
<1>2. IInv /\ [Next]_vars => IInv'
  <2>1. ASSUME IInv, NEW tx \in Txs, NEW stale \in Stale, Prove(tx, stale) \/ ProveLight(tx, stale)
        PROVE  IInv'
    BY <2>1, ProveStep, ProveLightStep, Zenon
  <2>2. ASSUME IInv, UNCHANGED vars PROVE IInv'
    <3>1. /\ ledger' = ledger /\ before' = before /\ root' = root /\ deltaRoot' = deltaRoot
          /\ outcome' = outcome /\ misread' = misread
      BY <2>2, Zenon DEF vars
    <3> QED
      BY <2>2, <3>1, Zenon DEF IInv
  <2> QED
    BY <2>1, <2>2, Zenon DEF Next
<1> QED
  BY <1>1, <1>2, PTL DEF Spec

(* RootsCommitToLedger: the roots the chain holds are those of the state   *)
(* the sequencer keeps, whatever slots the accounts of a transaction share *)
(* and whichever leaves its witness brings (define of tx_constraints.rs    *)
(* and of light_tx_constraints.rs).                                        *)
THEOREM RootsAlwaysCommit == Spec => []RootsCommitToLedger
<1>1. IInv => RootsCommitToLedger
  BY Zenon DEF IInv, RootsCommitToLedger
<1> QED
  BY <1>1, StateInvariant, PTL

(* NothingStaleIsRead: a circuit accepts no witness with a leaf in it that *)
(* the transaction uses and that is not the state's.                       *)
THEOREM NoStaleLeaf == Spec => []NothingStaleIsRead
<1>1. IInv => NothingStaleIsRead
  BY Zenon DEF IInv, NothingStaleIsRead
<1> QED
  BY <1>1, StateInvariant, PTL

(* CurrentWitnessIsProved: a transaction that passes its own checks and is *)
(* given the state's leaves is accepted: no check of a circuit contradicts *)
(* another, whichever of its slots hold the same account.                  *)
THEOREM CurrentWitnessSuffices == Spec => []CurrentWitnessIsProved
<1>1. IInv => CurrentWitnessIsProved
  BY Zenon DEF IInv, CurrentWitnessIsProved
<1> QED
  BY <1>1, StateInvariant, PTL

-----------------------------------------------------------------------------
(* What the two public trees say.  The changes of an account are kept with *)
(* the account, one by one.                                                *)
ChangesInv(L) ==
    \A i \in Accounts :
        /\ \A k \in AssetIndexes : L.accounts[i].aggregated[k] =
             Genesis.accounts[i].aggregated[k] + L.deltas[i].assets[k]
        /\ \A p \in Perps : L.accounts[i].positions[p].size =
             Genesis.accounts[i].positions[p].size + L.deltas[i].positions[p]

(* An account's leaf in the tree of public data is empty for the blank     *)
(* account only; otherwise it shows the sums and sizes.                    *)
LEMMA PublicLeaf ==
  ASSUME NEW L, StateInv(L), NEW i \in Accounts, NEW a, a = L.accounts[i],
         NEW h, h = Trees(L).pub[i]
  PROVE  /\ h = <<>> => a = Blank
         /\ h # <<>> => /\ \A k \in AssetIndexes : h[3][k] = LeafHash(a.aggregated[k], 0)
                        /\ \A p \in Perps : h[1][1][p \div BUCKET][p] = a.positions[p].size
<1> DEFINE c == LoadedAccount(a)
           q == PositionBuckets(a.positions)
<1>1. a \in AccountSet
  BY DEF StateInv, LedgerSet
<1>2. /\ c.l1 = a.l1 /\ c.positions = a.positions /\ c.aggregated = SumRoot(a)
  <2> HIDE DEF c
  <2>1. c = [l1 |-> a.l1, shares |-> a.shares, fixed |-> a.fixed,
             positions |-> a.positions, open |-> a.open, keys |-> KeyRoot(a),
             orders |-> OrderRoot(a), assets |-> AssetRoot(a), aggregated |-> SumRoot(a)]
    BY <1>1, LoadedType, Zenon DEF c
  <2> QED
    BY <2>1
<1>3. h = AccountHash(c, i, q).pub
  BY DEF Trees, Leaf
<1> DEFINE part == AccountPartial(c, q)
<1>4. h = HashFromPartial(c, i, part).pub
  BY <1>3, Zenon DEF AccountHash
<1>5. CASE AccountElements(c, part) = EMPTY_ACCOUNT_HASH /\ i # Treasury
  <2>1. h = <<>>
    <3> HIDE DEF part, c
    <3> QED
      BY <1>4, <1>5 DEF HashFromPartial
  <2>2. AccountElements(c, part)[2] = c.l1 /\ EMPTY_ACCOUNT_HASH[2] = 0
    <3> HIDE DEF part, c
    <3> QED
      BY DEF AccountElements, EMPTY_ACCOUNT_HASH, EmptyAccount
  <2>3. a.l1 = 0
    <3> HIDE DEF part, c
    <3> QED
      BY <1>2, <1>5, <2>2
  <2>4. a = Blank
    BY <1>5, <2>3 DEF StateInv, BlankInv
  <2> QED
    BY <2>1, <2>4, Zenon
<1>6. CASE ~(AccountElements(c, part) = EMPTY_ACCOUNT_HASH /\ i # Treasury)
  <2>1. h = <<part.pub, c.l1, c.aggregated>>
    <3> HIDE DEF part, c
    <3> QED
      BY <1>4, <1>6 DEF HashFromPartial
  <2>2. h[1] = part.pub /\ h[3] = SumRoot(a) /\ h # <<>>
    <3> HIDE DEF part, c
    <3> QED
      BY <1>2, <2>1
  <2>3. part.pub[1] = [b \in DOMAIN q |-> q[b].pub]
    <3> HIDE DEF q, c
    <3> QED
      BY DEF AccountPartial
  <2>4. \A p \in Perps : part.pub[1][p \div BUCKET][p] = a.positions[p].size
    <3>1. /\ DOMAIN q = 0 .. 1
          /\ \A b \in 0 .. 1 : q[b].pub = [m \in InBucket(b) |-> a.positions[m].size]
      BY DEF PositionBuckets, BUCKET
    <3>2. \A p \in Perps : p \div BUCKET \in 0 .. 1 /\ p \in InBucket(p \div BUCKET)
      BY Sizes DEF InBucket
    <3> HIDE DEF q
    <3> QED
      BY <2>3, <3>1, <3>2
  <2>5. \A k \in AssetIndexes : SumRoot(a)[k] = LeafHash(a.aggregated[k], 0)
    BY DEF SumRoot
  <2> HIDE DEF part
  <2> QED
    BY <2>2, <2>4, <2>5
<1> QED
  BY <1>5, <1>6

(* The leaf of its changes shows them, a missing part that there are none. *)
LEMMA ChangeLeaf ==
  ASSUME NEW d \in DeltaSet, NEW h, h = DeltaHash(LoadedDelta(d))
  PROVE  /\ h = <<>> => /\ \A k \in AssetIndexes : d.assets[k] = 0
                        /\ \A p \in Perps : d.positions[p] = 0
         /\ h # <<>> => \A k \in AssetIndexes : h[2][k] = LeafHash(d.assets[k], 0)
         /\ h # <<>> /\ h[1] = <<>> => \A p \in Perps : d.positions[p] = 0
         /\ h # <<>> /\ h[1] # <<>> => \A p \in Perps : h[1][3][p] = LeafHash(d.positions[p], 0)
<1> DEFINE c == LoadedDelta(d)
           part == DeltaPartial(c)
<1>1. /\ c.positions = DeltaPositionRoot(d)
      /\ c.assets = [k \in AssetIndexes |-> LeafHash(d.assets[k], 0)]
  BY LoadedDeltaType, Zenon
<1>2. DOMAIN d.positions = Perps \cup {NIL_MARKET}
  BY DEF DeltaSet
<1>3. /\ \A p \in Perps : c.positions[p] = LeafHash(d.positions[p], 0)
      /\ \A k \in AssetIndexes : c.assets[k] = LeafHash(d.assets[k], 0)
  <2> HIDE DEF c
  <2> QED
    BY <1>1, <1>2 DEF DeltaPositionRoot
<1>4. c.positions = EmptyDelta.positions => \A p \in Perps : d.positions[p] = 0
  <2>1. \A p \in Perps : EmptyDelta.positions[p] = <<>>
    BY DEF EmptyDelta, EmptyRoot
  <2> HIDE DEF c
  <2> QED
    BY <1>3, <2>1, LeafHashEmpty
<1>5. c.assets = EmptyDelta.assets => \A k \in AssetIndexes : d.assets[k] = 0
  <2>1. \A k \in AssetIndexes : EmptyDelta.assets[k] = <<>>
    BY DEF EmptyDelta, EmptyRoot
  <2> HIDE DEF c
  <2> QED
    BY <1>3, <2>1, LeafHashEmpty
<1>6. /\ part = <<>> => c.positions = EmptyDelta.positions
      /\ part # <<>> => part[3] = c.positions
  <2> HIDE DEF c
  <2> QED
    BY DEF DeltaPartial
<1>7. h = IF part = <<>> /\ c.assets = EmptyDelta.assets THEN <<>> ELSE <<part, c.assets>>
  BY Zenon DEF DeltaHash, DeltaFromPartial
<1> HIDE DEF c, part
<1>8. CASE part = <<>> /\ c.assets = EmptyDelta.assets
  BY <1>4, <1>5, <1>6, <1>7, <1>8
<1>9. CASE ~(part = <<>> /\ c.assets = EmptyDelta.assets)
  <2>1. h # <<>> /\ h[1] = part /\ h[2] = c.assets
    BY <1>7, <1>9
  <2> QED
    BY <2>1, <1>3, <1>4, <1>6
<1> QED
  BY <1>8, <1>9

(* A transaction changes public data and the changes by the same.          *)
LEMMA ChangesKept ==
  ASSUME NEW tx \in Txs, NEW L \in LedgerSet, ChangesInv(L)
  PROVE  ChangesInv(LedgerAfter(tx, L))
<1> DEFINE M == LedgerAfter(tx, L)
<1>0. ASSUME NEW i, NEW a \in AccountSet
      PROVE  /\ AccountAfter(tx, a, i).aggregated = SumsAfter(tx, a, i)
             /\ AccountAfter(tx, a, i).positions = PositionsAfter(tx, a, i)
  <2>1. PICK b : b = AccountAfter(tx, a, i)
    OBVIOUS
  <2>2. b.aggregated = SumsAfter(tx, a, i)
    BY <2>1, AfterFields
  <2>3. b.positions = PositionsAfter(tx, a, i)
    BY <2>1, AfterFields
  <2> QED
    BY <2>1, <2>2, <2>3
<1>1. ASSUME NEW i \in Accounts
      PROVE  /\ \A k \in AssetIndexes : M.accounts[i].aggregated[k] =
                  Genesis.accounts[i].aggregated[k] + M.deltas[i].assets[k]
             /\ \A p \in Perps : M.accounts[i].positions[p].size =
                  Genesis.accounts[i].positions[p].size + M.deltas[i].positions[p]
  <2> DEFINE a == L.accounts[i]
             d == L.deltas[i]
             b == AccountAfter(tx, a, i)
             e == DeltaAfter(tx, d, i)
             g == Genesis.accounts[i]
  <2>0. /\ M = LedgerAfter(tx, L) /\ b = AccountAfter(tx, a, i) /\ e = DeltaAfter(tx, d, i)
        /\ a = L.accounts[i] /\ d = L.deltas[i]
    OBVIOUS
  <2>1. a \in AccountSet /\ d \in DeltaSet
    BY DEF LedgerSet
  <2>2. M.accounts[i] = b /\ M.deltas[i] = e
    <3> HIDE DEF M, a, b, d, e
    <3> QED
      BY <2>0, LedgerAfterIs
  <2>3. b.aggregated = SumsAfter(tx, a, i) /\ b.positions = PositionsAfter(tx, a, i)
    BY <2>1, <1>0, Zenon
  <2>4. e.assets = ChangesAfter(tx, d, i) /\ e.positions = SizesAfter(tx, d, i)
    <3> HIDE DEF M, a, b, d, e
    <3> QED
      BY <2>0, <2>1, DeltaAfterFields
  <2>5. g \in AccountSet
    BY GenesisInv DEF StateInv, LedgerSet
  <2>6. /\ \A k \in AssetIndexes : a.aggregated[k] = g.aggregated[k] + d.assets[k]
        /\ \A p \in Perps : a.positions[p].size = g.positions[p].size + d.positions[p]
    BY Zenon DEF ChangesInv
  <2>7. ASSUME NEW k \in AssetIndexes PROVE b.aggregated[k] = g.aggregated[k] + e.assets[k]
    <3> DEFINE n == AccountMoved(tx, i, k)
    <3>1. n \in Int
      BY Movement
    <3>2. b.aggregated[k] = a.aggregated[k] + n
      BY <2>3, Zenon DEF SumsAfter
    <3>3. e.assets[k] = d.assets[k] + n
      BY <2>4, Zenon DEF ChangesAfter
    <3>4. g.aggregated[k] \in Int /\ d.assets[k] \in Int /\ a.aggregated[k] = g.aggregated[k] + d.assets[k]
      <4> HIDE DEF a, d, g
      <4> QED
        BY <2>1, <2>5, <2>6 DEF AccountSet, DeltaSet
    <3> HIDE DEF n, a, d, g, b, e
    <3> QED
      BY <3>1, <3>2, <3>3, <3>4
  <2>8. ASSUME NEW p \in Perps PROVE b.positions[p].size = g.positions[p].size + e.positions[p]
    <3> DEFINE n == IF p = tx.market THEN Filled(tx, i) ELSE 0
    <3>1. n \in Int
      BY DEF Filled
    <3>2. b.positions[p].size = a.positions[p].size + n
      <4>1. a.positions[p].size \in Int
        BY <2>1 DEF AccountSet, Position
      <4> HIDE DEF a, b
      <4> QED
        BY <2>3, <4>1 DEF PositionsAfter
    <3>3. e.positions[p] = d.positions[p] + n
      <4> HIDE DEF d, e
      <4> QED
        BY <2>4 DEF SizesAfter
    <3>4. /\ g.positions[p].size \in Int /\ d.positions[p] \in Int
          /\ a.positions[p].size = g.positions[p].size + d.positions[p]
      <4> HIDE DEF a, d, g
      <4> QED
        BY <2>1, <2>5, <2>6 DEF AccountSet, DeltaSet, Position
    <3> HIDE DEF n, a, d, g, b, e
    <3> QED
      BY <3>1, <3>2, <3>3, <3>4
  <2> HIDE DEF M, a, d, b, e, g
  <2>9. /\ \A k \in AssetIndexes : M.accounts[i].aggregated[k] = g.aggregated[k] + M.deltas[i].assets[k]
        /\ \A p \in Perps : M.accounts[i].positions[p].size = g.positions[p].size + M.deltas[i].positions[p]
    BY <2>2, <2>7, <2>8
  <2> QED
    BY <2>9, Zenon DEF g
<1> HIDE DEF M
<1>2. ChangesInv(M)
  BY <1>1, Zenon DEF ChangesInv
<1> QED
  BY <1>2, Zenon DEF M

(* The state only changes by whole transactions.                           *)
LEMMA LedgerMoves ==
  ASSUME [Next]_vars
  PROVE  ledger' = ledger \/ \E tx \in Txs : ledger' = LedgerAfter(tx, ledger)
<1>1. ASSUME NEW tx, NEW stale, NEW w, NEW result, Judged(tx, stale, w, result)
      PROVE  ledger' = ledger \/ ledger' = LedgerAfter(tx, ledger)
  <2>1. ledger' = IF result.ok THEN LedgerAfter(tx, ledger) ELSE ledger
    BY <1>1, Zenon DEF Judged
  <2> QED
    BY <2>1
<1>2. ASSUME NEW tx \in Txs, NEW stale \in Stale, Prove(tx, stale) \/ ProveLight(tx, stale)
      PROVE  \E w, result : Judged(tx, stale, w, result)
  BY <1>2, Zenon DEF Prove, ProveLight
<1>3. CASE Next
  <2>1. PICK tx \in Txs, stale \in Stale : Prove(tx, stale) \/ ProveLight(tx, stale)
    BY <1>3, Zenon DEF Next
  <2>2. PICK w, result : Judged(tx, stale, w, result)
    BY <2>1, <1>2, Zenon
  <2>3. ledger' = ledger \/ ledger' = LedgerAfter(tx, ledger)
    BY <2>2, <1>1, Zenon
  <2> QED
    BY <2>3, Zenon
<1>4. CASE UNCHANGED vars
  BY <1>4, Zenon DEF vars
<1> QED
  BY <1>3, <1>4

(* With the roots of a state, what the two trees show is what it holds.    *)
LEMMA RootsExplain ==
  ASSUME IInv, ChangesInv(ledger)
  PROVE  ChangesExplainPublicData
<1> DEFINE G == Genesis
<1>1. StateInv(ledger) /\ root = Commitment(ledger) /\ deltaRoot = DeltaTree(ledger)
  BY Zenon DEF IInv
<1>2. root[1] = Trees(ledger).pub
  BY <1>1 DEF Commitment, compute_validium_and_state_root, StateRoot
<1>3. ASSUME NEW v \in Int PROVE Value(LeafHash(v, 0)) = v
  BY DEF Value, LeafHash
<1>4. ASSUME NEW i \in Accounts
      PROVE  /\ \A k \in AssetIndexes : PublicSum(i, k) = G.accounts[i].aggregated[k] + ChangedSum(i, k)
             /\ \A p \in Perps : PublicSize(i, p) = G.accounts[i].positions[p].size + ChangedSize(i, p)
  <2> DEFINE a == ledger.accounts[i]
             d == ledger.deltas[i]
             h == root[1][i]
             c == deltaRoot[i]
  <2>1. a \in AccountSet /\ d \in DeltaSet
    BY <1>1 DEF StateInv, LedgerSet
  <2>2. /\ \A k \in AssetIndexes : a.aggregated[k] = G.accounts[i].aggregated[k] + d.assets[k]
        /\ \A p \in Perps : a.positions[p].size = G.accounts[i].positions[p].size + d.positions[p]
    BY Zenon DEF ChangesInv
  <2>3. h = Trees(ledger).pub[i]
    BY <1>2, Zenon
  <2>4. c = DeltaHash(LoadedDelta(d))
    BY <1>1 DEF DeltaTree
  <2>5. /\ h = <<>> => a = Blank
        /\ h # <<>> => /\ \A k \in AssetIndexes : h[3][k] = LeafHash(a.aggregated[k], 0)
                       /\ \A p \in Perps : h[1][1][p \div BUCKET][p] = a.positions[p].size
    <3>1. a = ledger.accounts[i]
      OBVIOUS
    <3> HIDE DEF a, h
    <3> QED
      BY <1>1, <2>3, <3>1, PublicLeaf, SMTT(30)
  <2>6. /\ c = <<>> => /\ \A k \in AssetIndexes : d.assets[k] = 0
                       /\ \A p \in Perps : d.positions[p] = 0
        /\ c # <<>> => \A k \in AssetIndexes : c[2][k] = LeafHash(d.assets[k], 0)
        /\ c # <<>> /\ c[1] = <<>> => \A p \in Perps : d.positions[p] = 0
        /\ c # <<>> /\ c[1] # <<>> => \A p \in Perps : c[1][3][p] = LeafHash(d.positions[p], 0)
    BY <2>1, <2>4, ChangeLeaf, Zenon
  <2>7. /\ \A k \in AssetIndexes : Blank.aggregated[k] = 0
        /\ \A p \in Perps : Blank.positions[p].size = 0
    BY DEF Blank, BlankAccount, NoPosition
  <2>8. ASSUME NEW k \in AssetIndexes PROVE PublicSum(i, k) = a.aggregated[k]
    <3>1. a.aggregated[k] \in Int
      BY <2>1 DEF AccountSet
    <3>2. PublicSum(i, k) = IF h = <<>> THEN 0 ELSE Value(h[3][k])
      BY Zenon DEF PublicSum
    <3> HIDE DEF a, h
    <3> QED
      BY <3>1, <3>2, <2>5, <2>7, <1>3
  <2>9. ASSUME NEW k \in AssetIndexes PROVE ChangedSum(i, k) = d.assets[k]
    <3>1. d.assets[k] \in Int
      BY <2>1 DEF DeltaSet
    <3>2. ChangedSum(i, k) = IF c = <<>> THEN 0 ELSE Value(c[2][k])
      BY Zenon DEF ChangedSum
    <3> HIDE DEF d, c
    <3> QED
      BY <3>1, <3>2, <2>6, <1>3
  <2>10. ASSUME NEW p \in Perps PROVE PublicSize(i, p) = a.positions[p].size
    <3>1. PublicSize(i, p) = IF h = <<>> THEN 0 ELSE h[1][1][p \div BUCKET][p]
      BY Zenon DEF PublicSize
    <3> HIDE DEF a, h
    <3> QED
      BY <3>1, <2>5, <2>7
  <2>11. ASSUME NEW p \in Perps PROVE ChangedSize(i, p) = d.positions[p]
    <3>1. d.positions[p] \in Int
      BY <2>1 DEF DeltaSet
    <3>2. ChangedSize(i, p) = IF c = <<>> \/ c[1] = <<>> THEN 0 ELSE Value(c[1][3][p])
      BY Zenon DEF ChangedSize
    <3> HIDE DEF d, c
    <3> QED
      BY <3>1, <3>2, <2>6, <1>3
  <2> HIDE DEF a, d, G
  <2> QED
    BY <2>2, <2>8, <2>9, <2>10, <2>11
<1> QED
  BY <1>4, Zenon DEF ChangesExplainPublicData

(* ChangesExplainPublicData: the changes committed for a block, added to   *)
(* the public data at its beginning, give the public data committed at its *)
(* end, account by account (account_hash.rs, account_delta_hash.rs): what  *)
(* is published of a block explains its new public state.                  *)
THEOREM PublicDataExplained == Spec => []ChangesExplainPublicData
<1>1. Init => ChangesInv(ledger)
  <2>1. ASSUME NEW i \in Accounts
        PROVE  /\ \A k \in AssetIndexes : Genesis.accounts[i].aggregated[k] =
                    Genesis.accounts[i].aggregated[k] + Genesis.deltas[i].assets[k]
               /\ \A p \in Perps : Genesis.accounts[i].positions[p].size =
                    Genesis.accounts[i].positions[p].size + Genesis.deltas[i].positions[p]
    <3> DEFINE g == Genesis.accounts[i]
               d == Genesis.deltas[i]
    <3>1. g \in AccountSet
      BY GenesisInv DEF StateInv, LedgerSet
    <3>2. (\A k \in AssetIndexes : d.assets[k] = 0) /\ \A p \in Perps : d.positions[p] = 0
      BY DEF Genesis
    <3> HIDE DEF g, d
    <3>3. /\ \A k \in AssetIndexes : g.aggregated[k] = g.aggregated[k] + d.assets[k]
          /\ \A p \in Perps : g.positions[p].size = g.positions[p].size + d.positions[p]
      BY <3>1, <3>2 DEF AccountSet, Position
    <3> QED
      BY <3>3, Zenon DEF g, d
  <2>2. ChangesInv(Genesis)
    BY <2>1, Zenon DEF ChangesInv
  <2> QED
    BY <2>2, Zenon DEF Init
<1>2. IInv /\ ChangesInv(ledger) /\ [Next]_vars => ChangesInv(ledger)'
  <2> SUFFICES ASSUME IInv, ChangesInv(ledger), [Next]_vars PROVE ChangesInv(ledger')
    OBVIOUS
  <2>1. ledger \in LedgerSet
    BY Zenon DEF IInv, StateInv
  <2>2. CASE ledger' = ledger
    BY <2>2, Zenon
  <2>3. CASE \E tx \in Txs : ledger' = LedgerAfter(tx, ledger)
    BY <2>1, <2>3, ChangesKept, Zenon
  <2> QED
    BY <2>2, <2>3, LedgerMoves
<1>3. IInv /\ ChangesInv(ledger) => ChangesExplainPublicData
  BY RootsExplain
<1> QED
  BY <1>1, <1>2, <1>3, StateInvariant, PTL DEF Spec

=============================================================================
