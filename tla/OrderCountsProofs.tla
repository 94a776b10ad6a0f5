------------------------- MODULE OrderCountsProofs -------------------------
(***************************************************************************)
(* Proofs about the counters of orders, and about the cancel-alls that     *)
(* wait on the instruction stack and take their size from these counters,  *)
(* for every number of accounts, order nonces and requests.                *)
(***************************************************************************)
EXTENDS OrderFlowProofs

-----------------------------------------------------------------------------
(* The orders of an account, and those tied to its position.               *)
LiveIn(tree)     == {i \in Nonces : tree[i] # NoOrder}
OwnedIn(tree, a) == {i \in LiveIn(tree) : tree[i].owner = a}
TiedIn(tree, a)  == {i \in OwnedIn(tree, a) : IsTied(tree[i])}

OrderRows == [Nonces -> OrderRecords \cup {NoOrder}]

MarketFields == {"ask_nonce", "bid_nonce", "total_order_count", "open_interest"}

(* The part of a transaction state that is about orders and counters.      *)
Shaped(s) ==
  /\ DOMAIN s = TxFields
  /\ DOMAIN s.market = MarketFields
  /\ s.acct \in AcctTree /\ s.pos \in PosTree /\ s.orders \in OrderRows

(* The counters of an account agree with the orders; a spot market has no  *)
(* isolated positions.                                                     *)
AccountCounted(s, a) ==
  /\ s.acct[a].total_order_count = Cardinality(OwnedIn(s.orders, a))
  /\ s.acct[a].total_non_cross_order_count =
       IF Spot \/ s.pos[a].isolated THEN Cardinality(OwnedIn(s.orders, a)) ELSE 0
  /\ s.pos[a].total_order_count = IF Spot THEN 0 ELSE Cardinality(OwnedIn(s.orders, a))
  /\ s.pos[a].total_position_tied_order_count = IF Spot THEN 0 ELSE Cardinality(TiedIn(s.orders, a))
  /\ Spot => ~s.pos[a].isolated

\* The counters of a state and its orders agree.
Counted(s) ==
  /\ Shaped(s)
  /\ s.market.total_order_count = Cardinality(LiveIn(s.orders))
  /\ \A a \in Accounts : AccountCounted(s, a)

\* The inductive invariant, next to that of OrderFlowProofs.
CountsInv == Counted(Tx)

-----------------------------------------------------------------------------
(* What one order more or less does to the sets.                           *)

\* There are finitely many orders, since there are finitely many nonces.
LEMMA SetsAreFinite ==
  ASSUME setup.max_nonce \in Nat, NEW tree
  PROVE  /\ IsFiniteSet(LiveIn(tree)) /\ Cardinality(LiveIn(tree)) \in Nat
         /\ \A a : IsFiniteSet(OwnedIn(tree, a)) /\ Cardinality(OwnedIn(tree, a)) \in Nat
         /\ \A a : IsFiniteSet(TiedIn(tree, a)) /\ Cardinality(TiedIn(tree, a)) \in Nat
<1>1. IsFiniteSet(Nonces)
  <2>1. Nonces = 1 .. setup.max_nonce
    BY DEF Nonces, FIRST_ASK_NONCE, FIRST_BID_NONCE, MaxNonce
  <2> QED
    BY <2>1, FS_Interval
<1>2. IsFiniteSet(LiveIn(tree))
  BY <1>1, FS_Subset DEF LiveIn
<1>3. \A a : IsFiniteSet(OwnedIn(tree, a))
  <2> SUFFICES ASSUME NEW a PROVE IsFiniteSet(OwnedIn(tree, a))
    OBVIOUS
  <2>1. OwnedIn(tree, a) \subseteq LiveIn(tree)
    BY DEF OwnedIn
  <2> QED
    BY <1>2, <2>1, FS_Subset
<1>4. \A a : IsFiniteSet(TiedIn(tree, a))
  <2> SUFFICES ASSUME NEW a PROVE IsFiniteSet(TiedIn(tree, a))
    OBVIOUS
  <2>1. TiedIn(tree, a) \subseteq OwnedIn(tree, a)
    BY DEF TiedIn
  <2> QED
    BY <1>3, <2>1, FS_Subset
<1> QED
  BY <1>2, <1>3, <1>4, FS_CardinalityType

One(condition) == IF condition THEN 1 ELSE 0

Clears(tree, i, o, rest) ==
  /\ setup.max_nonce \in Nat /\ tree \in OrderRows /\ i \in Nonces /\ o = tree[i] /\ o # NoOrder
  /\ rest = [tree EXCEPT ![i] = NoOrder]

\* One order less: only the counts of its account change.
LEMMA OrderCleared ==
  ASSUME NEW tree, NEW i, NEW o, NEW rest, Clears(tree, i, o, rest)
  PROVE  /\ rest \in OrderRows
         /\ Cardinality(LiveIn(rest)) = Cardinality(LiveIn(tree)) - 1
         /\ \A a : Cardinality(OwnedIn(rest, a)) = Cardinality(OwnedIn(tree, a)) - One(a = o.owner)
         /\ \A a : Cardinality(TiedIn(rest, a)) =
                     Cardinality(TiedIn(tree, a)) - One(a = o.owner /\ IsTied(o))
<1>0. /\ setup.max_nonce \in Nat /\ tree \in OrderRows /\ i \in Nonces /\ o = tree[i] /\ o # NoOrder
      /\ rest = [tree EXCEPT ![i] = NoOrder]
  BY DEF Clears
<1>1. rest \in OrderRows /\ rest[i] = NoOrder /\ \A j \in Nonces : j # i => rest[j] = tree[j]
  BY <1>0 DEF OrderRows
<1>2. ASSUME NEW S, IsFiniteSet(S), NEW R, R = S \ {i}
      PROVE  Cardinality(R) = Cardinality(S) - One(i \in S)
  <2>1. Cardinality(R) = IF i \in S THEN Cardinality(S) - 1 ELSE Cardinality(S)
    BY <1>2, FS_RemoveElement
  <2>2. Cardinality(S) \in Nat
    BY <1>2, FS_CardinalityType
  <2> QED
    BY <2>1, <2>2 DEF One
<1>3. LiveIn(rest) = LiveIn(tree) \ {i} /\ i \in LiveIn(tree)
  BY <1>0, <1>1 DEF LiveIn
<1>4. ASSUME NEW a PROVE OwnedIn(rest, a) = OwnedIn(tree, a) \ {i} /\ (i \in OwnedIn(tree, a) <=> a = o.owner)
  BY <1>0, <1>1, <1>3 DEF OwnedIn, LiveIn
<1>5. ASSUME NEW a
      PROVE  /\ TiedIn(rest, a) = TiedIn(tree, a) \ {i}
             /\ i \in TiedIn(tree, a) <=> (a = o.owner /\ IsTied(o))
  <2>1. \A j \in OwnedIn(rest, a) : rest[j] = tree[j]
    BY <1>1, <1>4 DEF OwnedIn, LiveIn
  <2> QED
    BY <1>0, <1>4, <2>1 DEF TiedIn
<1>6. Cardinality(LiveIn(rest)) = Cardinality(LiveIn(tree)) - 1
  BY <1>0, <1>2, <1>3, SetsAreFinite DEF One
<1>7. ASSUME NEW a
      PROVE  /\ Cardinality(OwnedIn(rest, a)) = Cardinality(OwnedIn(tree, a)) - One(a = o.owner)
             /\ Cardinality(TiedIn(rest, a)) = Cardinality(TiedIn(tree, a)) - One(a = o.owner /\ IsTied(o))
  <2>1. IsFiniteSet(OwnedIn(tree, a)) /\ IsFiniteSet(TiedIn(tree, a))
    BY <1>0, SetsAreFinite
  <2>2. Cardinality(OwnedIn(rest, a)) = Cardinality(OwnedIn(tree, a)) - One(i \in OwnedIn(tree, a))
    BY <1>2, <1>4, <2>1
  <2>3. Cardinality(TiedIn(rest, a)) = Cardinality(TiedIn(tree, a)) - One(i \in TiedIn(tree, a))
    BY <1>2, <1>5, <2>1
  <2> QED
    BY <1>4, <1>5, <2>2, <2>3 DEF One
<1> QED
  BY <1>1, <1>6, <1>7

Places(tree, i, o, more) ==
  /\ setup.max_nonce \in Nat /\ tree \in OrderRows /\ i \in Nonces /\ tree[i] = NoOrder
  /\ o \in OrderRecords /\ more = [tree EXCEPT ![i] = o]

\* One order more: only the counts of its account change.
LEMMA OrderPlaced ==
  ASSUME NEW tree, NEW i, NEW o, NEW more, Places(tree, i, o, more)
  PROVE  /\ more \in OrderRows
         /\ Cardinality(LiveIn(more)) = Cardinality(LiveIn(tree)) + 1
         /\ \A a : Cardinality(OwnedIn(more, a)) = Cardinality(OwnedIn(tree, a)) + One(a = o.owner)
         /\ \A a : Cardinality(TiedIn(more, a)) =
                     Cardinality(TiedIn(tree, a)) + One(a = o.owner /\ IsTied(o))
<1>0. /\ setup.max_nonce \in Nat /\ tree \in OrderRows /\ i \in Nonces /\ tree[i] = NoOrder
      /\ o \in OrderRecords /\ more = [tree EXCEPT ![i] = o]
  BY DEF Places
<1>1. more \in OrderRows /\ Clears(more, i, o, tree)
  BY <1>0, EmptyAssumption DEF OrderRows, Clears
<1>2. /\ Cardinality(LiveIn(tree)) = Cardinality(LiveIn(more)) - 1
      /\ \A a : Cardinality(OwnedIn(tree, a)) = Cardinality(OwnedIn(more, a)) - One(a = o.owner)
      /\ \A a : Cardinality(TiedIn(tree, a)) =
                  Cardinality(TiedIn(more, a)) - One(a = o.owner /\ IsTied(o))
  BY <1>1, OrderCleared
<1>3. /\ Cardinality(LiveIn(more)) \in Nat
      /\ \A a : Cardinality(OwnedIn(more, a)) \in Nat /\ Cardinality(TiedIn(more, a)) \in Nat
  BY <1>0, SetsAreFinite
<1>4. \A x \in Nat : \A c, d : (d = x - One(c)) => x = d + One(c)
  BY DEF One
<1>5. Cardinality(LiveIn(more)) = Cardinality(LiveIn(tree)) + 1
  BY <1>2, <1>3
<1>6. ASSUME NEW a
      PROVE  /\ Cardinality(OwnedIn(more, a)) = Cardinality(OwnedIn(tree, a)) + One(a = o.owner)
             /\ Cardinality(TiedIn(more, a)) = Cardinality(TiedIn(tree, a)) + One(a = o.owner /\ IsTied(o))
  BY <1>2, <1>3, <1>4
<1> QED
  BY <1>1, <1>5, <1>6

(* An order that is rewritten for the same owner.                          *)
Rewrites(tree, i, p, o, same) ==
  /\ setup.max_nonce \in Nat /\ tree \in OrderRows /\ i \in Nonces /\ p = tree[i] /\ p # NoOrder
  /\ o \in OrderRecords /\ o.owner = p.owner /\ same = [tree EXCEPT ![i] = o]

\* An order rewritten in its place, perhaps tied or untied by it.
LEMMA OrderRewritten ==
  ASSUME NEW tree, NEW i, NEW p, NEW o, NEW same, Rewrites(tree, i, p, o, same)
  PROVE  /\ same \in OrderRows
         /\ Cardinality(LiveIn(same)) = Cardinality(LiveIn(tree))
         /\ \A a : Cardinality(OwnedIn(same, a)) = Cardinality(OwnedIn(tree, a))
         /\ \A a : Cardinality(TiedIn(same, a)) = Cardinality(TiedIn(tree, a))
                     - One(a = o.owner /\ IsTied(p)) + One(a = o.owner /\ IsTied(o))
<1> DEFINE rest == [tree EXCEPT ![i] = NoOrder]
<1>0. /\ setup.max_nonce \in Nat /\ tree \in OrderRows /\ i \in Nonces /\ p = tree[i] /\ p # NoOrder
      /\ o \in OrderRecords /\ o.owner = p.owner /\ same = [tree EXCEPT ![i] = o]
  BY DEF Rewrites
<1>1. Clears(tree, i, p, rest) /\ same = [rest EXCEPT ![i] = o] /\ rest[i] = NoOrder
  BY <1>0 DEF OrderRows, Clears
<1> HIDE DEF rest
<1>2. /\ rest \in OrderRows
      /\ Cardinality(LiveIn(rest)) = Cardinality(LiveIn(tree)) - 1
      /\ \A a : Cardinality(OwnedIn(rest, a)) = Cardinality(OwnedIn(tree, a)) - One(a = p.owner)
      /\ \A a : Cardinality(TiedIn(rest, a)) =
                  Cardinality(TiedIn(tree, a)) - One(a = p.owner /\ IsTied(p))
  BY <1>1, OrderCleared
<1>3. /\ same \in OrderRows
      /\ Cardinality(LiveIn(same)) = Cardinality(LiveIn(rest)) + 1
      /\ \A a : Cardinality(OwnedIn(same, a)) = Cardinality(OwnedIn(rest, a)) + One(a = o.owner)
      /\ \A a : Cardinality(TiedIn(same, a)) =
                  Cardinality(TiedIn(rest, a)) + One(a = o.owner /\ IsTied(o))
  <2>1. Places(rest, i, o, same)
    BY <1>0, <1>1, <1>2 DEF Places
  <2> QED
    BY <2>1, OrderPlaced
<1>4. /\ Cardinality(LiveIn(tree)) \in Nat
      /\ \A a : Cardinality(OwnedIn(tree, a)) \in Nat /\ Cardinality(TiedIn(tree, a)) \in Nat
  BY <1>0, SetsAreFinite
<1>5. \A c : One(c) \in Nat
  BY DEF One
<1>6. Cardinality(LiveIn(same)) = Cardinality(LiveIn(tree))
  BY <1>2, <1>3, <1>4
<1>7. ASSUME NEW a
      PROVE  /\ Cardinality(OwnedIn(same, a)) = Cardinality(OwnedIn(tree, a))
             /\ Cardinality(TiedIn(same, a)) = Cardinality(TiedIn(tree, a))
                  - One(a = o.owner /\ IsTied(p)) + One(a = o.owner /\ IsTied(o))
  <2>1. /\ Cardinality(OwnedIn(rest, a)) = Cardinality(OwnedIn(tree, a)) - One(a = o.owner)
        /\ Cardinality(OwnedIn(same, a)) = Cardinality(OwnedIn(rest, a)) + One(a = o.owner)
    BY <1>0, <1>2, <1>3
  <2>2. Cardinality(OwnedIn(tree, a)) \in Nat /\ One(a = o.owner) \in Nat
    BY <1>4, <1>5
  <2>3. Cardinality(TiedIn(same, a)) = (Cardinality(TiedIn(tree, a)) - One(a = p.owner /\ IsTied(p)))
          + One(a = o.owner /\ IsTied(o))
    BY <1>2, <1>3
  <2>4. (a = p.owner /\ IsTied(p)) <=> (a = o.owner /\ IsTied(p))
    BY <1>0
  <2>5. One(a = p.owner /\ IsTied(p)) = One(a = o.owner /\ IsTied(p))
    BY <2>4 DEF One
  <2> QED
    BY <2>1, <2>2, <2>3, <2>5
<1> QED
  BY <1>3, <1>6, <1>7

-----------------------------------------------------------------------------
(* What handlers do to the counters: one order o of the account a more, or  *)
(* one less.                                                               *)
CountsMoved(s, t, a, o, n) ==
  /\ DOMAIN t = TxFields
  /\ DOMAIN t.market = MarketFields
  /\ t.acct \in AcctTree /\ t.pos \in PosTree
  /\ t.market.total_order_count = s.market.total_order_count + n
  /\ \A b \in Accounts :
       /\ t.acct[b].total_order_count = s.acct[b].total_order_count + n * One(b = a)
       /\ t.acct[b].total_non_cross_order_count =
            s.acct[b].total_non_cross_order_count + n * One(b = a /\ (Spot \/ s.pos[b].isolated))
       /\ t.pos[b].total_order_count = s.pos[b].total_order_count + n * One(b = a /\ ~Spot)
       /\ t.pos[b].total_position_tied_order_count =
            s.pos[b].total_position_tied_order_count + n * One(b = a /\ ~Spot /\ IsTied(o))
       /\ t.pos[b].isolated = s.pos[b].isolated

\* The counters move by one for the account of an order that comes or goes.
LEMMA CountsAreAdded ==
  ASSUME NEW s, Shaped(s), NEW a \in Accounts, NEW o, NEW n \in {-1, 1},
         NEW t, t = AddToOrderCounts(s, a, o, n)
  PROVE  /\ CountsMoved(s, t, a, o, n) /\ Shaped(t) /\ t.orders = s.orders
         /\ t.rs = s.rs /\ t.new = s.new /\ \A b \in Accounts : t.pos[b].position = s.pos[b].position
<1> DEFINE b == B2N(Spot \/ s.pos[a].isolated)
           d == B2N(~Spot /\ IsTied(o))
           e == B2N(~Spot)
           x == s.acct[a]
           y == s.pos[a]
           v == x.total_order_count + n
           w == x.total_non_cross_order_count + n * b
           p == y.total_position_tied_order_count + n * d
           q == y.total_order_count + n * e
           mk == [s.market EXCEPT !.total_order_count = @ + n]
           ac == [s.acct[a] EXCEPT !.total_order_count = @ + n,
                                   !.total_non_cross_order_count = @ + n * b]
           ps == [s.pos[a] EXCEPT !.total_position_tied_order_count = @ + n * d,
                                  !.total_order_count = @ + n * e]
<1>1. /\ DOMAIN s = TxFields /\ s.acct \in AcctTree /\ s.pos \in PosTree /\ s.orders \in OrderRows
      /\ DOMAIN s.market = MarketFields
  BY DEF Shaped
<1>2. x \in [total_order_count : Int, total_non_cross_order_count : Int, cancel_all_time : Nat]
      /\ y \in PosSet
  BY <1>1 DEF AcctTree, PosTree
<1>3. b \in {0, 1} /\ d \in {0, 1} /\ e \in {0, 1}
  BY DEF B2N
<1>4. /\ b = One(Spot \/ s.pos[a].isolated) /\ d = One(~Spot /\ IsTied(o)) /\ e = One(~Spot)
  BY DEF B2N, One
<1>5. /\ DOMAIN t = TxFields /\ t.orders = s.orders /\ t.rs = s.rs /\ t.new = s.new
      /\ t.market = mk /\ t.acct = [s.acct EXCEPT ![a] = ac] /\ t.pos = [s.pos EXCEPT ![a] = ps]
  BY <1>1 DEF AddToOrderCounts, TxFields
<1> HIDE DEF b, d, e
<1>6. v \in Int /\ w \in Int /\ p \in Int /\ q \in Int
  BY <1>2, <1>3 DEF PosSet
<1>7. /\ ac \in [total_order_count : Int, total_non_cross_order_count : Int, cancel_all_time : Nat]
      /\ ac.total_order_count = v /\ ac.total_non_cross_order_count = w
  <2>1. ac = [x EXCEPT !.total_order_count = v, !.total_non_cross_order_count = w]
    BY <1>2
  <2> HIDE DEF x, v, w, ac
  <2> QED
    BY <1>2, <1>6, <2>1
<1>8. /\ ps \in PosSet /\ ps.total_position_tied_order_count = p /\ ps.total_order_count = q
      /\ ps.isolated = y.isolated /\ ps.position = y.position
  <2>1. ps = [y EXCEPT !.total_position_tied_order_count = p, !.total_order_count = q]
    BY <1>2 DEF PosSet
  <2> HIDE DEF y, p, q, ps
  <2> QED
    BY <1>2, <1>6, <2>1 DEF PosSet
<1>9. /\ DOMAIN mk = MarketFields
      /\ mk.total_order_count = s.market.total_order_count + n
  BY <1>1
<1>10. /\ DOMAIN t = TxFields /\ t.market = mk /\ t.acct = [s.acct EXCEPT ![a] = ac]
       /\ t.pos = [s.pos EXCEPT ![a] = ps] /\ t.orders = s.orders /\ t.rs = s.rs /\ t.new = s.new
  BY <1>5
<1> HIDE DEF mk, ac, ps
<1>11. t.acct \in AcctTree /\ t.pos \in PosTree
  BY <1>1, <1>7, <1>8, <1>10 DEF AcctTree, PosTree
<1>12. ASSUME NEW c \in Accounts, c # a
       PROVE  t.acct[c] = s.acct[c] /\ t.pos[c] = s.pos[c]
  BY <1>1, <1>10, <1>12 DEF AcctTree, PosTree
<1>13. t.acct[a] = ac /\ t.pos[a] = ps
  BY <1>1, <1>10 DEF AcctTree, PosTree
<1>14. ASSUME NEW c \in Accounts
       PROVE  /\ t.acct[c].total_order_count = s.acct[c].total_order_count + n * One(c = a)
              /\ t.acct[c].total_non_cross_order_count =
                   s.acct[c].total_non_cross_order_count + n * One(c = a /\ (Spot \/ s.pos[c].isolated))
              /\ t.pos[c].total_order_count = s.pos[c].total_order_count + n * One(c = a /\ ~Spot)
              /\ t.pos[c].total_position_tied_order_count =
                   s.pos[c].total_position_tied_order_count + n * One(c = a /\ ~Spot /\ IsTied(o))
              /\ t.pos[c].isolated = s.pos[c].isolated /\ t.pos[c].position = s.pos[c].position
  <2>1. CASE c = a
    BY <1>4, <1>7, <1>8, <1>13, <2>1 DEF One
  <2>2. CASE c # a
    <3>1. /\ s.acct[c].total_order_count \in Int /\ s.acct[c].total_non_cross_order_count \in Int
          /\ s.pos[c].total_order_count \in Int /\ s.pos[c].total_position_tied_order_count \in Int
      BY <1>1 DEF AcctTree, PosTree, PosSet
    <3>2. \A f : One(c = a /\ f) = 0
      BY <2>2 DEF One
    <3>3. n * 0 = 0 /\ One(c = a) = 0
      BY <2>2 DEF One
    <3> QED
      BY <1>12, <2>2, <3>1, <3>2, <3>3
  <2> QED
    BY <2>1, <2>2
<1> QED
  BY <1>1, <1>9, <1>10, <1>11, <1>14 DEF CountsMoved, Shaped

-----------------------------------------------------------------------------
(* Handlers that touch neither an order nor a counter.                     *)
Beside(s, t) ==
  /\ DOMAIN t = TxFields /\ DOMAIN t.market = MarketFields
  /\ t.market.total_order_count = s.market.total_order_count
  /\ t.acct = s.acct /\ t.pos = s.pos /\ t.orders = s.orders

\* A step beside the orders and the counters leaves them in agreement.
LEMMA BesideCounts ==
  ASSUME NEW s, NEW t, Beside(s, t)
  PROVE  /\ Counted(s) => Counted(t)
         /\ Shaped(s)  => Shaped(t)
         /\ \A v : Beside(t, v) => Beside(s, v)
BY DEF Beside, Counted, Shaped, AccountCounted, MarketFields

\* Instructions, locked funds and nonces are beside the orders and the counters.
LEMMA SmallSteps ==
  ASSUME NEW s, DOMAIN s = TxFields, DOMAIN s.market = MarketFields
  PROVE  /\ Beside(s, s)
         /\ \A flag, reg, k : Beside(s, Put(s, flag, reg, k))
         /\ \A flag : Beside(s, Pop(s, flag))
         /\ \A condition : Beside(s, Assert(s, condition))
         /\ \A flag, o, size : Beside(s, Unlock(s, flag, o, size))
         /\ \A flag, o : Beside(s, Lock(s, flag, o))
         /\ \A max : Beside(s, PushInstructionStack(s, max))
         /\ \A is_ask : Beside(s, BumpNonce(s, is_ask))
<1>1. Beside(s, s)
  BY DEF Beside
<1>2. ASSUME NEW flag, NEW reg, NEW k PROVE Beside(s, Put(s, flag, reg, k))
  BY DEF Beside, Put, TxFields
<1>3. ASSUME NEW condition PROVE Beside(s, Assert(s, condition))
  BY DEF Beside, Assert, TxFields
<1>4. ASSUME NEW flag PROVE Beside(s, Pop(s, flag))
  <2> DEFINE a == Assert(s, s.rs.count # 0)
  <2>1. Beside(s, a) /\ a.rs = s.rs
    BY <1>3 DEF Assert, TxFields
  <2>2. Pop(s, flag) = IF flag THEN [a EXCEPT !.rs = PopFront(@)] ELSE s
    BY DEF Pop
  <2> HIDE DEF a
  <2> QED
    BY <1>1, <2>1, <2>2 DEF Beside, TxFields
<1>5. ASSUME NEW flag, NEW o, NEW size PROVE Beside(s, Unlock(s, flag, o, size))
  <2> DEFINE a == Assert(s, s.locked[o.owner].base >= size)
             b == Assert(s, s.locked[o.owner].quote >= size * o.price)
  <2>1. Beside(s, a) /\ Beside(s, b)
    BY <1>3
  <2>2. Unlock(s, flag, o, size) =
          IF ~flag THEN s
          ELSE IF o.is_ask THEN [a EXCEPT !.locked[o.owner].base = @ - size]
                           ELSE [b EXCEPT !.locked[o.owner].quote = @ - size * o.price]
    BY DEF Unlock
  <2> HIDE DEF a, b
  <2> QED
    BY <1>1, <2>1, <2>2 DEF Beside, TxFields
<1>6. ASSUME NEW flag, NEW o PROVE Beside(s, Lock(s, flag, o))
  BY DEF Beside, Lock, TxFields
<1>7. ASSUME NEW max PROVE Beside(s, PushInstructionStack(s, max))
  <2> DEFINE a == Assert(s, PushAllowed(s.rs, s.new, max))
  <2>1. Beside(s, a)
    BY <1>3
  <2>2. PushInstructionStack(s, max) =
          [a EXCEPT !.rs = PushInstructions(@, s.new, max), !.new = NoNewInstructions]
    BY DEF PushInstructionStack
  <2> HIDE DEF a
  <2> QED
    BY <2>1, <2>2 DEF Beside, TxFields
<1>8. ASSUME NEW is_ask PROVE Beside(s, BumpNonce(s, is_ask))
  BY DEF Beside, BumpNonce, TxFields, MarketFields
<1> QED
  BY <1>1, <1>2, <1>3, <1>4, <1>5, <1>6, <1>7, <1>8

(* Instructions for children and tied orders are put aside.                *)
LEMMA SmallPuts ==
  ASSUME NEW s, DOMAIN s = TxFields, DOMAIN s.market = MarketFields
  PROVE  /\ \A flag, type, o, size, max : Beside(s, ForChildren(s, flag, type, o, size, max))
         /\ \A flag, o, max : Beside(s, CancelChildOrders(s, flag, o, max))
         /\ \A flag, o, filled, max : Beside(s, TriggerChildOrders(s, flag, o, filled, max))
         /\ \A flag, a, slot : Beside(s, CancelPositionTied(s, flag, a, slot))
<1>1. ASSUME NEW flag, NEW type, NEW o, NEW size, NEW max
      PROVE  Beside(s, ForChildren(s, flag, type, o, size, max))
  <2> DEFINE f == flag /\ o.child0 # NIL
             g == flag /\ o.child1 # NIL
             a == Instruction(type, o.owner, size, o.child0)
             b == Instruction(type, o.owner, size, o.child1)
             t == Put(s, f, a, max)
  <2>1. ForChildren(s, flag, type, o, size, max) = Put(t, g, b, max - 1)
    BY DEF ForChildren
  <2>2. Beside(s, t)
    <3> HIDE DEF f, a
    <3> QED
      BY SmallSteps
  <2> HIDE DEF t, g, b
  <2>3. Beside(t, Put(t, g, b, max - 1))
    BY <2>2, SmallSteps DEF Beside
  <2> QED
    BY <2>1, <2>2, <2>3, BesideCounts
<1>2. ASSUME NEW flag, NEW a, NEW slot PROVE Beside(s, CancelPositionTied(s, flag, a, slot))
  <2> DEFINE count == s.pos[a].total_position_tied_order_count
             f == flag /\ count # 0
             r == Instruction("CANCEL_POSITION_TIED_ACCOUNT_ORDERS", a, count, NIL)
  <2>1. CancelPositionTied(s, flag, a, slot) = Put(s, f, r, slot)
    BY DEF CancelPositionTied
  <2> HIDE DEF f, r
  <2> QED
    BY <2>1, SmallSteps
<1> QED
  BY <1>1, <1>2 DEF CancelChildOrders, TriggerChildOrders

-----------------------------------------------------------------------------
(* Counters that move with the orders agree with them.                     *)
Followed(x, y, a, o, n) ==
  /\ y \in OrderRows
  /\ Cardinality(LiveIn(y)) = Cardinality(LiveIn(x)) + n
  /\ \A b : Cardinality(OwnedIn(y, b)) = Cardinality(OwnedIn(x, b)) + n * One(b = a)
  /\ \A b : Cardinality(TiedIn(y, b)) = Cardinality(TiedIn(x, b)) + n * One(b = a /\ IsTied(o))

\* Where the counters move as the orders do, they stay in agreement.
LEMMA CountsFollow ==
  ASSUME setup.max_nonce \in Nat, NEW s, Counted(s), NEW a, NEW o, NEW n \in {-1, 1},
         NEW t, CountsMoved(s, t, a, o, n), Followed(s.orders, t.orders, a, o, n)
  PROVE  Counted(t)
<1>1. Shaped(t)
  BY DEF CountsMoved, Followed, Shaped
<1>2. t.market.total_order_count = Cardinality(LiveIn(t.orders))
  BY DEF CountsMoved, Followed, Counted
<1>3. ASSUME NEW b \in Accounts PROVE AccountCounted(t, b)
  <2> DEFINE x == Cardinality(OwnedIn(s.orders, b))
             y == Cardinality(OwnedIn(t.orders, b))
             v == Cardinality(TiedIn(s.orders, b))
             w == Cardinality(TiedIn(t.orders, b))
             same == b = a
             tied == IsTied(o)
             apart == Spot \/ s.pos[b].isolated
  <2>1. x \in Nat /\ y \in Nat /\ v \in Nat /\ w \in Nat
    BY SetsAreFinite
  <2>2. y = x + n * One(same) /\ w = v + n * One(same /\ tied)
    BY DEF Followed
  <2>3. /\ s.acct[b].total_order_count = x
        /\ s.acct[b].total_non_cross_order_count = IF apart THEN x ELSE 0
        /\ s.pos[b].total_order_count = IF Spot THEN 0 ELSE x
        /\ s.pos[b].total_position_tied_order_count = IF Spot THEN 0 ELSE v
        /\ Spot => ~s.pos[b].isolated
    BY DEF Counted, AccountCounted
  <2>4. /\ t.acct[b].total_order_count = s.acct[b].total_order_count + n * One(same)
        /\ t.acct[b].total_non_cross_order_count =
             s.acct[b].total_non_cross_order_count + n * One(same /\ apart)
        /\ t.pos[b].total_order_count = s.pos[b].total_order_count + n * One(same /\ ~Spot)
        /\ t.pos[b].total_position_tied_order_count =
             s.pos[b].total_position_tied_order_count + n * One(same /\ ~Spot /\ tied)
        /\ t.pos[b].isolated = s.pos[b].isolated
    BY DEF CountsMoved
  <2>5. apart <=> Spot \/ t.pos[b].isolated
    BY <2>4
  <2> HIDE DEF x, y, v, w, same, tied, apart
  <2>6. /\ t.acct[b].total_order_count = y
        /\ t.acct[b].total_non_cross_order_count = IF apart THEN y ELSE 0
        /\ t.pos[b].total_order_count = IF Spot THEN 0 ELSE y
        /\ t.pos[b].total_position_tied_order_count = IF Spot THEN 0 ELSE w
    BY <2>1, <2>2, <2>3, <2>4 DEF One
  <2> QED
    BY <2>3, <2>4, <2>5, <2>6 DEF AccountCounted, x, y, v, w
<1> QED
  BY <1>1, <1>2, <1>3 DEF Counted

(* An order leaves.                                                        *)
LEMMA RemovedCounts ==
  ASSUME setup.max_nonce \in Nat, NEW s, Counted(s), NEW i \in Nonces,
         NEW o, o = s.orders[i], o # NoOrder,
         NEW s1, s1 = DecrementOrderCount(s, o.owner, o), NEW s2, Beside(s1, s2),
         NEW t, t = RemoveOrder(s2, i)
  PROVE  Counted(t) /\ t.orders = [s.orders EXCEPT ![i] = NoOrder]
<1> DEFINE a == o.owner
<1>1. Shaped(s) /\ s.orders \in OrderRows /\ o \in OrderRecords
  BY DEF Counted, Shaped, OrderRows
<1>2. a \in Accounts
  BY <1>1 DEF OrderRecords
<1>3. /\ CountsMoved(s, s1, a, o, -1) /\ Shaped(s1) /\ s1.orders = s.orders
  BY <1>1, <1>2, CountsAreAdded DEF DecrementOrderCount
<1> HIDE DEF a
<1>4. CountsMoved(s, s2, a, o, -1) /\ Shaped(s2) /\ s2.orders = s.orders
  <2>1. /\ DOMAIN s2 = TxFields /\ DOMAIN s2.market = MarketFields
        /\ s2.market.total_order_count = s1.market.total_order_count
        /\ s2.acct = s1.acct /\ s2.pos = s1.pos /\ s2.orders = s1.orders
    BY DEF Beside
  <2>2. Shaped(s2)
    BY <1>3, BesideCounts
  <2>3. CountsMoved(s, s2, a, o, -1)
    <3>1. /\ s2.acct \in AcctTree /\ s2.pos \in PosTree
          /\ s2.market.total_order_count = s.market.total_order_count + (-1)
      BY <1>3, <2>1 DEF CountsMoved
    <3>2. ASSUME NEW b \in Accounts
          PROVE  /\ s2.acct[b].total_order_count = s.acct[b].total_order_count + (-1) * One(b = a)
                 /\ s2.acct[b].total_non_cross_order_count =
                      s.acct[b].total_non_cross_order_count + (-1) * One(b = a /\ (Spot \/ s.pos[b].isolated))
                 /\ s2.pos[b].total_order_count = s.pos[b].total_order_count + (-1) * One(b = a /\ ~Spot)
                 /\ s2.pos[b].total_position_tied_order_count =
                      s.pos[b].total_position_tied_order_count + (-1) * One(b = a /\ ~Spot /\ IsTied(o))
                 /\ s2.pos[b].isolated = s.pos[b].isolated
      <4>1. /\ s1.acct[b].total_order_count = s.acct[b].total_order_count + (-1) * One(b = a)
            /\ s1.acct[b].total_non_cross_order_count =
                 s.acct[b].total_non_cross_order_count + (-1) * One(b = a /\ (Spot \/ s.pos[b].isolated))
            /\ s1.pos[b].total_order_count = s.pos[b].total_order_count + (-1) * One(b = a /\ ~Spot)
            /\ s1.pos[b].total_position_tied_order_count =
                 s.pos[b].total_position_tied_order_count + (-1) * One(b = a /\ ~Spot /\ IsTied(o))
            /\ s1.pos[b].isolated = s.pos[b].isolated
        BY <1>3, Zenon DEF CountsMoved
      <4>2. s2.acct[b] = s1.acct[b] /\ s2.pos[b] = s1.pos[b]
        BY <2>1
      <4> QED
        BY <4>1, <4>2, Zenon
    <3> QED
      BY <2>1, <3>1, <3>2, Zenon DEF CountsMoved
  <2> QED
    BY <1>3, <2>1, <2>2, <2>3
<1>5. /\ DOMAIN t = TxFields /\ t.market = s2.market /\ t.acct = s2.acct /\ t.pos = s2.pos
      /\ t.orders = [s.orders EXCEPT ![i] = NoOrder]
  BY <1>4 DEF RemoveOrder, Shaped, TxFields
<1>6. CountsMoved(s, t, a, o, -1)
  BY <1>4, <1>5 DEF CountsMoved
<1>7. Followed(s.orders, t.orders, a, o, -1)
  <2>1. Clears(s.orders, i, o, t.orders)
    BY <1>1, <1>5 DEF Clears
  <2>2. /\ t.orders \in OrderRows
        /\ Cardinality(LiveIn(t.orders)) = Cardinality(LiveIn(s.orders)) - 1
        /\ \A b : Cardinality(OwnedIn(t.orders, b)) = Cardinality(OwnedIn(s.orders, b)) - One(b = a)
        /\ \A b : Cardinality(TiedIn(t.orders, b)) =
                    Cardinality(TiedIn(s.orders, b)) - One(b = a /\ IsTied(o))
    BY <2>1, OrderCleared DEF a
  <2>3. \A c : One(c) \in Nat
    BY DEF One
  <2>4. /\ Cardinality(LiveIn(s.orders)) \in Nat
        /\ \A b : Cardinality(OwnedIn(s.orders, b)) \in Nat /\ Cardinality(TiedIn(s.orders, b)) \in Nat
    BY SetsAreFinite
  <2>5. \A x \in Nat : \A c : x - One(c) = x + (-1) * One(c)
    BY <2>3
  <2> QED
    BY <2>2, <2>4, <2>5 DEF Followed
<1> QED
  BY <1>5, <1>6, <1>7, CountsFollow

(* The margin mode of a position without orders, and its size.             *)
Remoded(s, t, a, q) ==
  /\ t = [s EXCEPT !.pos = [s.pos EXCEPT ![a] = q]]
  /\ q \in PosSet
  /\ q.total_order_count = s.pos[a].total_order_count
  /\ q.total_position_tied_order_count = s.pos[a].total_position_tied_order_count
  /\ q.isolated = s.pos[a].isolated \/ s.pos[a].total_order_count = 0

\* A position may change its margin mode only when it has no open order.
LEMMA RemodedCounts ==
  ASSUME setup.max_nonce \in Nat, NEW s, Counted(s), ~Spot, NEW a \in Accounts, NEW q,
         NEW t, Remoded(s, t, a, q)
  PROVE  Counted(t) /\ t.orders = s.orders
<1>1. /\ DOMAIN s = TxFields /\ s.pos \in PosTree /\ s.acct \in AcctTree /\ s.orders \in OrderRows
      /\ DOMAIN s.market = MarketFields
  BY DEF Counted, Shaped
<1>2. /\ q \in PosSet
      /\ q.total_order_count = s.pos[a].total_order_count
      /\ q.total_position_tied_order_count = s.pos[a].total_position_tied_order_count
      /\ q.isolated = s.pos[a].isolated \/ s.pos[a].total_order_count = 0
  BY DEF Remoded
<1>3. /\ DOMAIN t = TxFields /\ t.pos = [s.pos EXCEPT ![a] = q]
      /\ t.market = s.market /\ t.acct = s.acct /\ t.orders = s.orders
  BY <1>1 DEF Remoded, TxFields
<1>4. t.pos \in PosTree /\ t.pos[a] = q /\ \A b \in Accounts : b # a => t.pos[b] = s.pos[b]
  BY <1>1, <1>2, <1>3 DEF PosTree
<1>5. ASSUME NEW b \in Accounts PROVE AccountCounted(t, b)
  <2> DEFINE x == Cardinality(OwnedIn(s.orders, b))
             v == Cardinality(TiedIn(s.orders, b))
  <2>1. /\ s.acct[b].total_order_count = x
        /\ s.acct[b].total_non_cross_order_count = IF s.pos[b].isolated THEN x ELSE 0
        /\ s.pos[b].total_order_count = x
        /\ s.pos[b].total_position_tied_order_count = v
    BY DEF Counted, AccountCounted
  <2> HIDE DEF x, v
  <2>2. CASE b # a
    BY <1>3, <1>4, <2>1, <2>2 DEF AccountCounted, x, v
  <2>3. CASE b = a
    <3>1. q.isolated = s.pos[b].isolated \/ x = 0
      BY <1>2, <2>1, <2>3
    <3>2. (IF q.isolated THEN x ELSE 0) = (IF s.pos[b].isolated THEN x ELSE 0)
      BY <3>1
    <3> QED
      BY <1>2, <1>3, <1>4, <2>1, <2>3, <3>2 DEF AccountCounted, x, v
  <2> QED
    BY <2>2, <2>3
<1> QED
  BY <1>1, <1>3, <1>4, <1>5 DEF Counted, Shaped

\* An empty position is set up with the margin mode asked for, its counters as they were.
LEMMA InitRemodes ==
  ASSUME NEW p \in PosSet, NEW a, NEW q, q = InitIfEmpty(p, a)
  PROVE  /\ q \in PosSet /\ q.position = p.position /\ q.total_order_count = p.total_order_count
         /\ q.total_position_tied_order_count = p.total_position_tied_order_count
         /\ q.isolated = p.isolated \/ p.total_order_count = 0
<1> DEFINE b == DefaultIsolated /\ a \notin InsuranceFund
<1>1. b \in BOOLEAN
  BY Zenon
<1>2. q = p \/ (q = [p EXCEPT !.isolated = b, !.margin_set = TRUE] /\ p.total_order_count = 0)
  BY DEF InitIfEmpty, IsPositionEmpty
<1> HIDE DEF b
<1>3. CASE q = p
  BY <1>3
<1>4. CASE q = [p EXCEPT !.isolated = b, !.margin_set = TRUE] /\ p.total_order_count = 0
  BY <1>1, <1>4 DEF PosSet
<1> QED
  BY <1>2, <1>3, <1>4

(* The two sides of a trade.                                               *)
LEMMA MovedCounts ==
  ASSUME setup.max_nonce \in Nat, NEW s, Counted(s), NEW o \in OrderRecords, NEW amount \in Int,
         NEW t, t = SetPosition(s, o, amount)
  PROVE  Counted(t) /\ t.orders = s.orders
<1> DEFINE a == o.owner
           p == InitIfEmpty(s.pos[a], a)
           n == p.position + Delta(o, amount)
           q == [p EXCEPT !.position = n]
<1>1. a \in Accounts /\ s.pos[a] \in PosSet
  BY DEF Counted, Shaped, PosTree, OrderRecords
<1>2. /\ p \in PosSet /\ p.total_order_count = s.pos[a].total_order_count
      /\ p.total_position_tied_order_count = s.pos[a].total_position_tied_order_count
      /\ p.isolated = s.pos[a].isolated \/ s.pos[a].total_order_count = 0
  BY <1>1, InitRemodes
<1>3. t = IF Spot THEN s ELSE [s EXCEPT !.pos = [s.pos EXCEPT ![a] = [p EXCEPT !.position = p.position + Delta(o, amount)]]]
  BY DEF SetPosition
<1>4. Delta(o, amount) \in Int
  BY DEF Delta
<1> HIDE DEF p, a
<1>5. n \in Int
  BY <1>2, <1>4 DEF PosSet
<1>6. t = IF Spot THEN s ELSE [s EXCEPT !.pos = [s.pos EXCEPT ![a] = q]]
  BY <1>3
<1> HIDE DEF n
<1>7. /\ q \in PosSet /\ q.total_order_count = p.total_order_count
      /\ q.total_position_tied_order_count = p.total_position_tied_order_count
      /\ q.isolated = p.isolated
  BY <1>2, <1>5 DEF PosSet
<1> HIDE DEF q
<1>8. CASE Spot
  BY <1>6, <1>8
<1>9. CASE ~Spot
  <2>1. Remoded(s, t, a, q)
    BY <1>2, <1>6, <1>7, <1>9 DEF Remoded
  <2> QED
    BY <1>1, <1>9, <2>1, RemodedCounts
<1> QED
  BY <1>8, <1>9

(* An order comes.                                                         *)
LEMMA PlacedCounts ==
  ASSUME setup.max_nonce \in Nat, NEW s, Counted(s), NEW i \in Nonces, s.orders[i] = NoOrder,
         NEW o \in OrderRecords, NEW s1, Beside([s EXCEPT !.orders = [s.orders EXCEPT ![i] = o]], s1),
         NEW t, t = IncrementOrderCount(s1, o.owner, o)
  PROVE  Counted(t) /\ t.orders = [s.orders EXCEPT ![i] = o]
<1> DEFINE a == o.owner
           tree == [s.orders EXCEPT ![i] = o]
           p == s.pos[a]
           q == InitIfEmpty(p, a)
           s0 == IF Spot THEN s ELSE [s EXCEPT !.pos = [s.pos EXCEPT ![a] = q]]
           s2 == IF Spot THEN s1 ELSE [s1 EXCEPT !.pos = [s1.pos EXCEPT ![a] = q]]
<1>1. /\ Shaped(s) /\ DOMAIN s = TxFields /\ s.pos \in PosTree /\ s.acct \in AcctTree
      /\ s.orders \in OrderRows /\ DOMAIN s.market = MarketFields
  BY DEF Counted, Shaped
<1>2. a \in Accounts /\ p \in PosSet
  BY <1>1 DEF OrderRecords, PosTree
<1>3. /\ q \in PosSet /\ q.position = p.position /\ q.total_order_count = p.total_order_count
      /\ q.total_position_tied_order_count = p.total_position_tied_order_count
      /\ q.isolated = p.isolated \/ p.total_order_count = 0
  BY <1>2, InitRemodes
<1>4. Places(s.orders, i, o, tree)
  BY <1>1 DEF Places
<1>5. /\ tree \in OrderRows
      /\ Cardinality(LiveIn(tree)) = Cardinality(LiveIn(s.orders)) + 1
      /\ \A b : Cardinality(OwnedIn(tree, b)) = Cardinality(OwnedIn(s.orders, b)) + One(b = a)
      /\ \A b : Cardinality(TiedIn(tree, b)) =
                  Cardinality(TiedIn(s.orders, b)) + One(b = a /\ IsTied(o))
  <2> HIDE DEF tree
  <2> QED
    BY <1>4, OrderPlaced
<1>6. /\ DOMAIN s1 = TxFields /\ DOMAIN s1.market = MarketFields /\ s1.orders = tree
      /\ s1.market.total_order_count = s.market.total_order_count
      /\ s1.acct = s.acct /\ s1.pos = s.pos
  BY <1>1 DEF Beside, TxFields
<1>7. t = AddToOrderCounts(s2, a, o, 1)
  <2> QED
    BY <1>6 DEF IncrementOrderCount
<1> HIDE DEF a, tree, p, q
<1>8. Counted(s0) /\ s0.orders = s.orders
  <2>1. CASE Spot
    BY <2>1
  <2>2. CASE ~Spot
    <3>1. Remoded(s, s0, a, q)
      BY <1>3, <2>2 DEF Remoded, p
    <3> QED
      BY <1>2, <2>2, <3>1, RemodedCounts
  <2> QED
    BY <2>1, <2>2
<1>9. /\ Shaped(s2) /\ s2.market.total_order_count = s0.market.total_order_count
      /\ s2.acct = s0.acct /\ s2.pos = s0.pos /\ s2.orders = tree
  <2>1. [s.pos EXCEPT ![a] = q] \in PosTree
    BY <1>1, <1>2, <1>3 DEF PosTree
  <2> QED
    BY <1>1, <1>5, <1>6, <2>1 DEF Shaped, TxFields
<1> HIDE DEF s0, s2
<1>10. CountsMoved(s2, t, a, o, 1) /\ Shaped(t) /\ t.orders = tree
  BY <1>2, <1>7, <1>9, CountsAreAdded
<1>11. CountsMoved(s0, t, a, o, 1)
  BY <1>9, <1>10 DEF CountsMoved
<1>12. Followed(s0.orders, t.orders, a, o, 1)
  <2>1. \A c : One(c) \in Nat
    BY DEF One
  <2>2. \A c : 1 * One(c) = One(c)
    BY <2>1
  <2> QED
    BY <1>5, <1>8, <1>10, <2>2 DEF Followed
<1> QED
  BY <1>8, <1>10, <1>11, <1>12, CountsFollow DEF tree

(* An order is rewritten and stays as tied as it was.                      *)
WithTree(s, tree) == [s EXCEPT !.orders = tree]

\* An order of the same owner, tied as before, in the place of another.
LEMMA RewrittenCounts ==
  ASSUME setup.max_nonce \in Nat, NEW s, Counted(s), NEW i \in Nonces,
         NEW p, p = s.orders[i], p # NoOrder, NEW o \in OrderRecords,
         o.owner = p.owner, IsTied(o) <=> IsTied(p),
         NEW tree, tree = [s.orders EXCEPT ![i] = o], NEW t, Beside(WithTree(s, tree), t)
  PROVE  Counted(t) /\ t.orders = tree
<1>1. /\ DOMAIN s = TxFields /\ s.pos \in PosTree /\ s.acct \in AcctTree
      /\ s.orders \in OrderRows /\ DOMAIN s.market = MarketFields
  BY DEF Counted, Shaped
<1>2. Rewrites(s.orders, i, p, o, tree)
  BY <1>1 DEF Rewrites
<1>3. /\ tree \in OrderRows
      /\ Cardinality(LiveIn(tree)) = Cardinality(LiveIn(s.orders))
      /\ \A a : Cardinality(OwnedIn(tree, a)) = Cardinality(OwnedIn(s.orders, a))
      /\ \A a : Cardinality(TiedIn(tree, a)) = Cardinality(TiedIn(s.orders, a))
                  - One(a = o.owner /\ IsTied(p)) + One(a = o.owner /\ IsTied(o))
  BY <1>2, OrderRewritten
<1>4. ASSUME NEW a PROVE Cardinality(TiedIn(tree, a)) = Cardinality(TiedIn(s.orders, a))
  <2>1. One(a = o.owner /\ IsTied(p)) = One(a = o.owner /\ IsTied(o))
    BY DEF One
  <2>2. One(a = o.owner /\ IsTied(o)) \in Nat /\ Cardinality(TiedIn(s.orders, a)) \in Nat
    BY SetsAreFinite DEF One
  <2> QED
    BY <1>3, <2>1, <2>2
<1>5. /\ DOMAIN t = TxFields /\ DOMAIN t.market = MarketFields /\ t.orders = tree
      /\ t.market.total_order_count = s.market.total_order_count
      /\ t.acct = s.acct /\ t.pos = s.pos
  BY <1>1 DEF Beside, WithTree, TxFields
<1>6. ASSUME NEW a \in Accounts PROVE AccountCounted(t, a)
  <2>1. AccountCounted(s, a)
    BY DEF Counted
  <2> QED
    BY <1>3, <1>4, <1>5, <2>1 DEF AccountCounted
<1>7. t.market.total_order_count = Cardinality(LiveIn(t.orders))
  BY <1>3, <1>5 DEF Counted
<1> QED
  BY <1>1, <1>3, <1>5, <1>6, <1>7 DEF Counted, Shaped

-----------------------------------------------------------------------------
(* Matching: fill and trade, ...                                           *)
LEMMA FilledCounts ==
  ASSUME setup.max_nonce \in Nat, NEW s, Counted(s), NEW m \in Nonces,
         NEW mk, mk = s.orders[m], mk # NoOrder, NEW amount \in Int,
         NEW t, t = FilledBoth(s, m, mk, amount)
  PROVE  Counted(t) /\ t.orders = [s.orders EXCEPT ![m] = LessOrder(mk, amount)]
<1> DEFINE left == mk.remaining - amount
           o == LessOrder(mk, amount)
           x == Unlock(s, Locks(mk), mk, amount)
           tree == [s.orders EXCEPT ![m] = o]
<1>1. Shaped(s) /\ mk \in OrderRecords /\ DOMAIN s = TxFields /\ DOMAIN s.market = MarketFields
  BY DEF Counted, Shaped, OrderRows
<1>2. /\ o \in OrderRecords /\ o.owner = mk.owner /\ o.reduce_only = mk.reduce_only
      /\ o.trigger_status = mk.trigger_status
  <2>1. left \in Int
    BY <1>1 DEF OrderRecords
  <2>2. o = [mk EXCEPT !.remaining = left]
    BY DEF LessOrder
  <2> HIDE DEF left, o
  <2> QED
    BY <1>1, <2>1, <2>2 DEF OrderRecords
<1>3. Beside(s, x)
  BY <1>1, SmallSteps
<1>4. t = [x EXCEPT !.rs.stack[0].order.remaining = @ - amount,
                    !.orders[m].remaining = @ - amount,
                    !.book = SetLeaf(@, mk, left)]
  BY DEF FilledBoth
<1> HIDE DEF x, left
<1>5. /\ DOMAIN t = TxFields /\ t.market = x.market /\ t.acct = x.acct /\ t.pos = x.pos
      /\ t.orders = [x.orders EXCEPT ![m] = [x.orders[m] EXCEPT !.remaining = x.orders[m].remaining - amount]]
  BY <1>3, <1>4 DEF Beside, TxFields
<1>6. t.orders = tree
  BY <1>3, <1>5 DEF Beside, LessOrder
<1> HIDE DEF o, tree
<1>7. Beside(WithTree(s, tree), t)
  BY <1>1, <1>3, <1>5, <1>6 DEF Beside, WithTree, TxFields
<1> QED
  BY <1>1, <1>2, <1>6, <1>7, RewrittenCounts DEF IsTied, o, tree

SameOrders(s, t) == t.orders = s.orders

\* A trade settled moves positions and funds, and no order.
LEMMA SettledCounts ==
  ASSUME setup.max_nonce \in Nat, NEW s, Counted(s), NEW o \in OrderRecords, NEW mk \in OrderRecords,
         NEW amount \in Int, NEW t, t = SettledTrade(s, o, mk, amount)
  PROVE  Counted(t) /\ SameOrders(s, t)
<1> DEFINE x == SetPosition(s, o, amount)
           y == SetPosition(x, mk, amount)
           oi == NewOpenInterest(s, o, mk, amount)
           paid == B2N(MarketFlag(o)) * PriceDiff(o, mk) * amount
<1>1. Counted(x) /\ x.orders = s.orders
  BY MovedCounts
<1> HIDE DEF x
<1>2. Counted(y) /\ y.orders = s.orders
  BY <1>1, MovedCounts
<1>3. t = [y EXCEPT !.market.open_interest = oi, !.rs.stack[0].acc = @ - paid]
  BY DEF SettledTrade, x, y
<1> HIDE DEF y, oi, paid
<1>4. Beside(y, t)
  BY <1>2, <1>3 DEF Beside, Counted, Shaped, TxFields, MarketFields
<1> QED
  BY <1>2, <1>4, BesideCounts DEF Beside, SameOrders

\* One trade of the matching engine: the maker is left in place with less.
LEMMA TradedCounts ==
  ASSUME setup.max_nonce \in Nat, NEW s, Counted(s), NEW reg, reg = Top(s), NEW o, o = reg.order,
         o \in OrderRecords, NEW m \in Nonces, NEW mk, mk = s.orders[m], mk # NoOrder,
         NEW d, Feasible(o, mk, d), NEW x, Trades(s, x, m, d),
         DOMAIN s.rs = {"stack", "count"}, DOMAIN s.rs.stack = Slots, reg \in InstructionRecords
  PROVE  Counted(x) /\ x.orders[m] # NoOrder
<1>0. x = Trade(Fill(s, m, d), m, d) /\ mk \in OrderRecords
  BY DEF Trades, Counted, Shaped, OrderRows
<1>f. PICK f, size : f = Fill(s, m, d) /\ size = d.amount
  OBVIOUS
<1>1. CASE d.kind = "NONE"
  BY <1>0, <1>1, NothingTraded
<1>2. CASE d.kind # "NONE"
  <2>1. size \in Nat
    BY <1>2, <1>f DEF Feasible
  <2>2. f = FilledBoth(s, m, mk, size)
    BY <1>2, <1>f DEF Fill, FilledBoth
  <2>3. Counted(f) /\ f.orders = [s.orders EXCEPT ![m] = LessOrder(mk, size)]
    BY <2>1, <2>2, FilledCounts
  <2>4. f.orders[m] = LessOrder(mk, size) /\ f.orders[m] # NoOrder
    <3>1. LessOrder(mk, size) \in OrderRecords
      BY <1>0, <2>1 DEF LessOrder, OrderRecords
    <3>2. s.orders \in OrderRows
      BY DEF Counted, Shaped
    <3> QED
      BY <2>3, <3>1, <3>2, EmptyAssumption DEF OrderRows
  <2>5. CASE d.kind # "TRADE"
    BY <1>0, <1>f, <2>3, <2>4, <2>5 DEF Trade
  <2>6. CASE d.kind = "TRADE"
    <3>0. PICK o2, mk2 : o2 = Top(f).order /\ mk2 = f.orders[m]
      OBVIOUS
    <3>1. o2 \in OrderRecords
      <4> DEFINE y == Unlock(s, Locks(mk), mk, size)
      <4>1. y.rs = s.rs /\ DOMAIN y = TxFields
        <5>1. DOMAIN s = TxFields
          BY DEF Counted, Shaped
        <5> QED
          BY <5>1 DEF Unlock, Assert, TxFields
      <4>2. f = [y EXCEPT !.rs.stack[0].order.remaining = @ - size,
                          !.orders[m].remaining = @ - size,
                          !.book = SetLeaf(@, mk, mk.remaining - size)]
        BY <2>2 DEF FilledBoth
      <4> HIDE DEF y
      <4>3. f.rs = [y.rs EXCEPT !.stack = [y.rs.stack EXCEPT ![0] = [y.rs.stack[0] EXCEPT
                    !.order = [y.rs.stack[0].order EXCEPT !.remaining = y.rs.stack[0].order.remaining - size]]]]
        BY <4>1, <4>2 DEF TxFields
      <4>4. Top(f) = [reg EXCEPT !.order = LessOrder(o, size)]
        BY <4>1, <4>3 DEF Top, Slots, REGISTER_STACK_SIZE, LessOrder
      <4>5. o2 = LessOrder(o, size)
        BY <3>0, <4>4 DEF InstructionRecords
      <4>6. o.remaining - size \in Int
        BY <2>1 DEF OrderRecords
      <4> QED
        BY <4>5, <4>6 DEF LessOrder, OrderRecords
    <3>2. mk2 \in OrderRecords
      BY <2>3, <2>4, <3>0 DEF Counted, Shaped, OrderRows
    <3>3. x = SettledTrade(f, o2, mk2, size)
      BY <1>0, <1>f, <2>6, <3>0 DEF Trade, SettledTrade
    <3>4. Counted(x) /\ SameOrders(f, x)
      <4>1. size \in Int
        BY <2>1
      <4>2. Counted(f)
        BY <2>3
      <4> QED
        BY <3>1, <3>2, <3>3, <4>1, <4>2, SettledCounts
    <3> QED
      BY <2>4, <3>4 DEF SameOrders
  <2> QED
    BY <2>5, <2>6
<1> QED
  BY <1>1, <1>2

(* ... the orders that are used up leave, ...                              *)
LEMMA DroppedCounts ==
  ASSUME setup.max_nonce \in Nat, NEW s, Counted(s), NEW m \in Nonces, s.orders[m] # NoOrder,
         NEW t, t = MakerDropped(s, m)
  PROVE  Counted(t)
<1> DEFINE mk == s.orders[m]
           filled == mk.initial - mk.remaining
           less == DecrementOrderCount(s, mk.owner, mk)
           x == Unlock(less, Locks(mk), mk, mk.remaining)
           gone == RemoveOrder(x, m)
           y == CancelChildOrders(gone, filled = 0, mk, 7)
<1>1. Shaped(s) /\ mk \in OrderRecords /\ mk.owner \in Accounts
  BY DEF Counted, Shaped, OrderRows, OrderRecords
<1>2. t = TriggerChildOrders(y, filled # 0, mk, filled, 7)
  BY DEF MakerDropped, DropMaker
<1>3. Shaped(less)
  BY <1>1, CountsAreAdded DEF DecrementOrderCount
<1> HIDE DEF filled
<1>4. Beside(less, x)
  <2> HIDE DEF less
  <2> QED
    BY <1>3, SmallSteps DEF Shaped
<1>5. Counted(gone)
  <2>1. gone = RemoveOrder(x, m) /\ less = DecrementOrderCount(s, mk.owner, mk)
    OBVIOUS
  <2> HIDE DEF less, x, gone
  <2> QED
    BY <1>4, <2>1, RemovedCounts
<1> HIDE DEF gone, mk
<1>6. Counted(y)
  BY <1>5, SmallPuts, BesideCounts DEF Counted, Shaped
<1> HIDE DEF y
<1> QED
  BY <1>2, <1>6, SmallPuts, BesideCounts DEF Counted, Shaped

\* An order that is used up leaves, the maker as well as the taker.
LEMMA LeftCounts ==
  ASSUME setup.max_nonce \in Nat, NEW s, Counted(s), NEW m \in Nonces, s.orders[m] # NoOrder,
         NEW o, NEW t, Leaves(s, t, o, m)
  PROVE  Counted(t)
<1>1. PICK p, s1 : /\ s1 = p \/ s1 = MakerDropped(p, m)
                   /\ \/ p = s /\ t = s1
                      \/ p = Popped(s) /\ t = TakerDropped(s1, o)
  BY DEF Leaves
<1>2. Counted(p) /\ p.orders = s.orders
  <2>1. Beside(s, Popped(s))
    BY SmallSteps DEF Popped, Counted, Shaped
  <2> QED
    BY <1>1, <2>1, BesideCounts DEF Beside
<1>3. Counted(s1)
  BY <1>1, <1>2, DroppedCounts
<1>4. CASE t = s1
  BY <1>3, <1>4
<1>5. CASE t = TakerDropped(s1, o)
  <2> DEFINE filled == o.initial - o.remaining
             y == CancelChildOrders(s1, TRUE /\ filled = 0, o, 5)
  <2>1. t = TriggerChildOrders(y, TRUE /\ filled # 0, o, filled, 5)
    BY <1>5 DEF TakerDropped, DropTaker
  <2> HIDE DEF filled
  <2>2. Counted(y)
    BY <1>3, SmallPuts, BesideCounts DEF Counted, Shaped
  <2> HIDE DEF y
  <2> QED
    BY <2>1, <2>2, SmallPuts, BesideCounts DEF Counted, Shaped
<1> QED
  BY <1>1, <1>4, <1>5

(* ... what follows is put aside, ...                                      *)
LEMMA NoticedCounts ==
  ASSUME NEW s, Counted(s), NEW v, NEW w, NEW o, NEW mk, NEW c,
         NEW t, Notices(v, w, s, t, o, mk, c)
  PROVE  Counted(t)
<1> DEFINE y == CancelPositionTied(s, SignChanged(v, w, o.owner), o.owner, 3)
           z == CancelPositionTied(y, SignChanged(v, w, mk.owner), mk.owner, 2)
           fee == Instruction("TRANSFER_ASSET", FeeAccount, 1, NIL)
           f == c.taker_fee /\ o.integrator
           g == c.maker_fee /\ mk.integrator
           q == Put(z, f, fee, 1)
<1>1. t = Put(q, g, fee, 0)
  BY DEF Notices, PutTransfers
<1> HIDE DEF fee, f, g
<1>2. Counted(y)
  BY SmallPuts, BesideCounts DEF Counted, Shaped
<1> HIDE DEF y
<1>3. Counted(z)
  BY <1>2, SmallPuts, BesideCounts DEF Counted, Shaped
<1> HIDE DEF z
<1>4. Counted(q)
  BY <1>3, SmallSteps, BesideCounts DEF Counted, Shaped
<1> HIDE DEF q
<1> QED
  BY <1>1, <1>4, SmallSteps, BesideCounts DEF Counted, Shaped

(* ... or the pending order takes its place among the orders.              *)
LEMMA InsertedCounts ==
  ASSUME setup.max_nonce \in Nat, NEW s, Counted(s), NEW i \in Nonces, s.orders[i] = NoOrder,
         NEW o \in OrderRecords, NEW t, t = TakerPlaced(s, o, i)
  PROVE  Counted(t)
<1> DEFINE tree == [s.orders EXCEPT ![i] = o]
           leaves == IF o.trigger_status = "NA" THEN SetLeaf(s.book, o, o.remaining) ELSE s.book
           x == [s EXCEPT !.orders = tree, !.book = leaves]
           y == IncrementOrderCount(x, o.owner, o)
           flag == o.trigger_status = "NA" /\ Locks(o)
<1>1. DOMAIN s = TxFields /\ DOMAIN s.market = MarketFields
  BY DEF Counted, Shaped
<1>2. t = Lock(y, flag, o)
  BY DEF TakerPlaced, InsertTakerOrder
<1>3. Beside([s EXCEPT !.orders = [s.orders EXCEPT ![i] = o]], x)
  BY <1>1 DEF Beside, TxFields
<1>4. y = IncrementOrderCount(x, o.owner, o)
  OBVIOUS
<1> HIDE DEF x, y, flag
<1>5. Counted(y)
  BY <1>3, <1>4, PlacedCounts
<1> QED
  BY <1>2, <1>5, SmallSteps, BesideCounts DEF Counted, Shaped

\* A whole step of the matching engine keeps the counters in agreement.
LEMMA MatchingCounts ==
  ASSUME NEW u, u = setup, u.max_nonce \in Nat, NEW s, StateInv(u, s), Counted(s),
         s.new = NoNewInstructions, NEW reg, reg = Top(s), IsInsert(reg), NEW c, Verdict(c),
         NEW time, NEW price, NEW t, t = ExecuteMatching(s, c, time, price)
  PROVE  Counted(t)
<1> DEFINE d  == Decide(s, c, time, price)
           o  == reg.order
           m  == IF LeafIsEmpty(s, o) THEN NIL ELSE Maker(s, o)
           mk == s.orders[m]
           s0 == Assert(s, RestingAssertion(s, d))
           x  == Trade(Fill(s0, m, d), m, d)
           p  == Pop(x, d.cancel_taker \/ d.insert)
           s1 == DropMaker(p, m, d.cancel_maker)
           s2 == DropTaker(s1, Top(x).order, d.cancel_taker)
           s3 == InsertTakerOrder(s2, Top(x).order, reg.index, d.insert)
<1>0. Nonces = NoncesOf(u)
  BY DEF Nonces, NoncesOf, FIRST_ASK_NONCE, FIRST_BID_NONCE, MaxNonce
<1>1. (d.kind # "TRADE" => t = s3) /\ (d.kind = "TRADE" => Notices(s, x, s3, t, o, mk, c))
  BY DEF ExecuteMatching, Notices
<1>2. \/ d = InsertTaker
      \/ d = CancelTaker
      \/ /\ CanTrade(reg) /\ ~LeafIsEmpty(s, o) /\ Feasible(o, s.orders[Maker(s, o)], d)
  <2> DEFINE e == d
  <2>1. e = Decide(s, c, time, price)
    OBVIOUS
  <2> HIDE DEF d
  <2> QED
    BY <2>1, DecideIsGood
<1> HIDE DEF d
<1>3. Trades(s0, x, m, d)
  BY DEF Trades
<1>4. /\ d.kind = "NONE" => x = s0
      /\ p = IF d.cancel_taker \/ d.insert THEN Popped(x) ELSE x
      /\ s1 = IF d.cancel_maker THEN MakerDropped(p, m) ELSE p
      /\ s2 = IF d.cancel_taker THEN TakerDropped(s1, Top(x).order) ELSE s1
      /\ s3 = IF d.insert THEN TakerPlaced(s2, Top(x).order, reg.index) ELSE s2
  <2>1. d.kind = "NONE" => x = s0
    BY <1>3, NothingTraded DEF Trades
  <2> HIDE DEF x
  <2>2. p = IF d.cancel_taker \/ d.insert THEN Popped(x) ELSE x
    BY DEF Pop, Popped
  <2> HIDE DEF p
  <2>3. s1 = IF d.cancel_maker THEN MakerDropped(p, m) ELSE p
    BY DEF DropMaker, MakerDropped
  <2> HIDE DEF s1
  <2>4. s2 = IF d.cancel_taker THEN TakerDropped(s1, Top(x).order) ELSE s1
    BY DEF DropTaker, TakerDropped, CancelChildOrders, TriggerChildOrders, ForChildren, Put
  <2> HIDE DEF s2
  <2>5. s3 = IF d.insert THEN TakerPlaced(s2, Top(x).order, reg.index) ELSE s2
    BY DEF InsertTakerOrder, TakerPlaced
  <2> QED
    BY <2>1, <2>2, <2>3, <2>4, <2>5
<1>5. Counted(s0) /\ s0.rs = s.rs /\ s0.orders = s.orders
  <2>1. DOMAIN s = TxFields
    BY DEF Counted, Shaped
  <2>2. s0.rs = s.rs /\ s0.orders = s.orders
    BY <2>1 DEF Assert, TxFields
  <2>3. Beside(s, s0)
    BY SmallSteps DEF Counted, Shaped
  <2> QED
    BY <2>2, <2>3, BesideCounts
<1> HIDE DEF s0, x, p, s1, s2, s3
<1>6. reg # EmptyRegister /\ Top(s0) = reg
  BY <1>5 DEF IsInsert, Top
<1>7. RegisterInv(u, s.market, s.orders, reg) /\ reg \in InstructionRecords
  BY <1>6, TopIsInstruction
<1>8. /\ o \in OrderSet(u) /\ o \in OrderRecords /\ reg.index \in Nonces /\ s.orders[reg.index] = NoOrder
  BY <1>0, <1>7 DEF RegisterInv, OrderSet, IndexTaken
<1>9. CASE d = InsertTaker
  <2>1. d.cancel_taker = FALSE /\ d.cancel_maker = FALSE /\ d.insert = TRUE /\ d.kind = "NONE"
    BY <1>9 DEF InsertTaker, Decision
  <2>2. x = s0 /\ p = Popped(s0) /\ t = TakerPlaced(p, o, reg.index)
    BY <1>1, <1>4, <1>6, <2>1
  <2>3. Beside(s0, p)
    BY <1>5, <2>2, SmallSteps DEF Popped, Counted, Shaped
  <2>4. Counted(p) /\ p.orders = s0.orders
    BY <1>5, <2>3, BesideCounts DEF Beside
  <2> HIDE DEF o
  <2> QED
    BY <1>5, <1>8, <2>2, <2>4, InsertedCounts
<1>10. CASE d = CancelTaker
  <2>1. d.cancel_taker = TRUE /\ d.cancel_maker = FALSE /\ d.insert = FALSE /\ d.kind = "NONE"
    BY <1>10 DEF CancelTaker, Decision
  <2>2. x = s0 /\ p = Popped(s0) /\ t = TakerDropped(p, o)
    BY <1>1, <1>4, <1>6, <2>1
  <2>3. Beside(s0, p)
    BY <1>5, <2>2, SmallSteps DEF Popped, Counted, Shaped
  <2>4. Counted(p)
    BY <1>5, <2>3, BesideCounts
  <2> HIDE DEF o
  <2> DEFINE filled == o.initial - o.remaining
             y == CancelChildOrders(p, TRUE /\ filled = 0, o, 5)
  <2>5. t = TriggerChildOrders(y, TRUE /\ filled # 0, o, filled, 5)
    BY <2>2 DEF TakerDropped, DropTaker
  <2> HIDE DEF filled
  <2>6. Counted(y)
    BY <2>4, SmallPuts, BesideCounts DEF Counted, Shaped
  <2> HIDE DEF y
  <2> QED
    BY <2>5, <2>6, SmallPuts, BesideCounts DEF Counted, Shaped
<1>11. CASE CanTrade(reg) /\ ~LeafIsEmpty(s, o) /\ Feasible(o, s.orders[Maker(s, o)], d)
  <2>1. m = Maker(s, o)
    BY <1>11
  <2>2. d.cancel_taker \in BOOLEAN /\ d.cancel_maker \in BOOLEAN /\ d.insert = FALSE
    BY <1>11 DEF Feasible
  <2>3. Leaves(x, s3, Top(x).order, m)
    <3>1. s1 = p \/ s1 = MakerDropped(p, m)
      BY <1>4
    <3>2. \/ p = x /\ s3 = s1
          \/ p = Popped(x) /\ s3 = TakerDropped(s1, Top(x).order)
      BY <1>4, <2>2
    <3> QED
      BY <3>1, <3>2 DEF Leaves
  <2>4. TreeInv(u, s.market, s.orders) /\ BookInv(u, s.orders, s.book) /\ StackInv(u, s.market, s.orders, s.rs)
    BY DEF StateInv, TreesInv
  <2>5. m \in Nonces /\ mk # NoOrder
    <3>1. LET n == Maker(s, o) IN n \in NoncesOf(u) /\ Active(s.orders, n)
      <4>1. ~LeafIsEmpty(s, o)
        BY <1>11
      <4> HIDE DEF o
      <4> QED
        BY <1>8, <2>4, <4>1, MakerIsFound
    <3> QED
      BY <1>0, <2>1, <3>1 DEF Active
  <2>6. DOMAIN s0.rs = {"stack", "count"} /\ DOMAIN s0.rs.stack = Slots
    BY <1>5, <2>4 DEF StackInv
  <2>7. mk = s0.orders[m] /\ Feasible(o, mk, d) /\ o = reg.order /\ reg = Top(s0)
    BY <1>5, <1>6, <1>11, <2>1
  <2> HIDE DEF o, m, mk
  <2>8. Counted(x) /\ x.orders[m] # NoOrder
    BY <1>3, <1>5, <1>7, <1>8, <2>5, <2>6, <2>7, TradedCounts
  <2>9. Counted(s3)
    <3> DEFINE left == Top(x).order
    <3>1. Leaves(x, s3, left, m)
      BY <2>3
    <3> HIDE DEF left
    <3> QED
      BY <2>5, <2>8, <3>1, LeftCounts
  <2>10. CASE d.kind # "TRADE"
    BY <1>1, <2>9, <2>10
  <2>11. CASE d.kind = "TRADE"
    <3>1. Notices(s, x, s3, t, o, mk, c)
      BY <1>1, <2>11
    <3> QED
      BY <2>9, <3>1, NoticedCounts
  <2> QED
    BY <2>10, <2>11
<1> QED
  BY <1>2, <1>9, <1>10, <1>11

-----------------------------------------------------------------------------
(* The end of a transaction.                                               *)
LEMMA BecomeCounts ==
  ASSUME NEW s, Counted(s), Become(s)
  PROVE  CountsInv'
<1> DEFINE t == Done(s)
           eight == 8
           q == Tx'
<1>1. /\ rs' = t.rs /\ market' = t.market /\ acct' = t.acct /\ pos' = t.pos
      /\ orders' = t.orders /\ setup' = setup
  BY DEF Become
<1>2. t = PushInstructionStack(s, eight)
  BY DEF Done
<1> HIDE DEF t, eight
<1>3. Beside(s, t)
  BY <1>2, SmallSteps DEF Counted, Shaped
<1>4. Counted(t)
  BY <1>3, BesideCounts
<1>5. /\ DOMAIN q = TxFields /\ q.market = t.market /\ q.acct = t.acct /\ q.pos = t.pos
      /\ q.orders = t.orders
  BY <1>1 DEF Tx, TxFields
<1> HIDE DEF q
<1>6. Beside(t, q)
  BY <1>4, <1>5 DEF Beside, Counted, Shaped
<1>7. Counted(q)
  BY <1>4, <1>6, BesideCounts
<1>8. Spot' = Spot /\ Nonces' = Nonces /\ OrderRows' = OrderRows
  BY <1>1 DEF Spot, Nonces, FIRST_ASK_NONCE, FIRST_BID_NONCE, MaxNonce, OrderRows
<1> QED
  BY <1>7, <1>8, Zenon DEF CountsInv, Counted, Shaped, AccountCounted, LiveIn, OwnedIn, TiedIn, q

(* A transaction that does not match.                                      *)
LEMMA ApplyCounts ==
  ASSUME NEW s, Counted(s), Become(Apply(s))
  PROVE  CountsInv'
<1> DEFINE three == 3
           t == PushInstructionStack(s, three)
<1>1. Become(t)
  BY DEF Apply
<1>2. Beside(s, t)
  <2> HIDE DEF three
  <2> QED
    BY SmallSteps DEF Counted, Shaped
<1> HIDE DEF t
<1> QED
  BY <1>1, <1>2, BesideCounts, BecomeCounts

(* One that does.                                                          *)
LEMMA MatchedCounts ==
  ASSUME IInv, CountsInv, Matched
  PROVE  CountsInv'
<1>1. PICK s, c : Matches(s, c)
  BY DEF Matched
<1>2. /\ StateInv(setup, s) /\ (s.rs.count = 0 \/ s.new.count = 0) /\ PushAllowed(s.rs, s.new, 3)
      /\ s.new.count = 0 => IsInsert(Top(s))
      /\ \A i \in NewSlots : s.new.slot[i] # EmptyRegister => IsInsert(s.new.slot[i])
      /\ s.acct = acct /\ s.pos = pos /\ s.orders = orders
      /\ s.market.total_order_count = market.total_order_count
      /\ Verdict(c) /\ Become(ApplyAndMatch(s, c))
  BY <1>1 DEF Matches
<1>3. Counted(s)
  <2>1. DOMAIN s = TxFields /\ DOMAIN s.market = MarketFields
    BY <1>2 DEF StateInv, TreesInv, TreeInv, Typed, MarketSet, MarketFields
  <2>2. Beside(Tx, s)
    BY <1>2, <2>1, TxFacts DEF Beside
  <2> QED
    BY <2>2, BesideCounts DEF CountsInv
<1> DEFINE three == 3
           x == PushInstructionStack(s, three)
           reg == Top(x)
           t == ExecuteMatching(x, c, now, mark)
<1>4. Become(t)
  BY <1>2 DEF ApplyAndMatch, Apply
<1>5. x = PushInstructionStack(s, three) /\ three \in {3, 8} /\ PushAllowed(s.rs, s.new, three)
  BY <1>2
<1>6. Counted(x)
  <2> HIDE DEF three
  <2>1. Beside(s, x)
    BY <1>3, SmallSteps DEF Counted, Shaped
  <2> QED
    BY <1>3, <2>1, BesideCounts
<1>7. t = ExecuteMatching(x, c, now, mark) /\ reg = Top(x)
  OBVIOUS
<1> HIDE DEF three, x, reg, t
<1>8. /\ StateInv(setup, x) /\ x.new = NoNewInstructions /\ IsInsert(Top(x))
  <2>1. /\ StateInv(setup, x) /\ x.new = NoNewInstructions
        /\ s.new.count = 0 => x.rs.stack = s.rs.stack
        /\ s.new.count # 0 => \E i \in NewSlots : /\ s.new.slot[i] # EmptyRegister
                                                  /\ Top(x) = s.new.slot[i]
    BY <1>2, <1>5, PushIsGood
  <2>2. s.new.count = 0 => Top(x) = Top(s)
    BY <2>1 DEF Top
  <2> QED
    BY <1>2, <2>1, <2>2
<1>9. setup.max_nonce \in Nat
  BY SetupFacts DEF IInv
<1>10. Counted(t)
  <2> DEFINE u == setup
  <2>1. u = setup /\ u.max_nonce \in Nat /\ StateInv(u, x)
    BY <1>8, <1>9
  <2> HIDE DEF u
  <2> QED
    BY <1>2, <1>6, <1>7, <1>8, <2>1, MatchingCounts
<1> QED
  BY <1>4, <1>10, BecomeCounts

(* Orders leave by a cancel, or without unlocking.                         *)
LEMMA CancelledCounts ==
  ASSUME setup.max_nonce \in Nat, NEW s, Counted(s), NEW i \in Nonces, s.orders[i] # NoOrder
  PROVE  Counted(CancelOne(s, i)) /\ Counted(Dropped(s, i))
<1> DEFINE o == s.orders[i]
           s1 == DecrementOrderCount(s, o.owner, o)
           s2 == Unlock(s1, Locks(o), o, o.remaining)
           t == CancelOne(s, i)
           v == Dropped(s, i)
<1>1. o = s.orders[i] /\ o # NoOrder /\ s1 = DecrementOrderCount(s, o.owner, o)
      /\ t = RemoveOrder(s2, i) /\ v = RemoveOrder(s1, i)
  BY DEF CancelOne, Dropped
<1>2. Shaped(s1)
  <2>1. Shaped(s) /\ o \in OrderRecords
    BY DEF Counted, Shaped, OrderRows
  <2>2. o.owner \in Accounts
    BY <2>1 DEF OrderRecords
  <2> HIDE DEF o, s1
  <2> QED
    BY <1>1, <2>1, <2>2, CountsAreAdded DEF DecrementOrderCount
<1>3. s2 = Unlock(s1, Locks(o), o, o.remaining)
  OBVIOUS
<1> HIDE DEF o, s1, s2, t, v
<1>4. Beside(s1, s2) /\ Beside(s1, s1)
  BY <1>2, <1>3, SmallSteps DEF Shaped
<1>5. Counted(t) /\ Counted(v)
  BY <1>1, <1>4, RemovedCounts
<1> QED
  BY <1>5 DEF t, v

-----------------------------------------------------------------------------
(* The transactions, from the state in which they begin.                   *)
LEMMA CountsFacts ==
  ASSUME IInv, CountsInv
  PROVE  /\ setup.max_nonce \in Nat /\ Nonces = NoncesOf(setup)
         /\ Counted(Tx) /\ Shaped(Tx) /\ DOMAIN Tx = TxFields /\ DOMAIN Tx.market = MarketFields
         /\ Tx.orders = orders /\ Tx.pos = pos /\ Tx.acct = acct /\ Tx.market = market
         /\ orders \in OrderRows /\ orders \in OrderTree(setup)
BY SetupFacts, TxFacts DEF IInv, CountsInv, Counted, Shaped

(* The handlers that cancel one order.                                     *)
LEMMA CancelFollowedCounts ==
  ASSUME IInv, CountsInv, NEW i \in Nonces, orders[i] # NoOrder,
         Become(Apply(CancelChildOrders(CancelOne(Tx, i), TRUE, orders[i], 1)))
  PROVE  CountsInv'
<1> DEFINE one == 1
           s == CancelOne(Tx, i)
           t == CancelChildOrders(s, TRUE, orders[i], one)
<1>1. Become(Apply(t))
  OBVIOUS
<1>2. Counted(s)
  <2>1. setup.max_nonce \in Nat /\ Counted(Tx) /\ Tx.orders[i] # NoOrder
    BY CountsFacts
  <2> QED
    BY <2>1, CancelledCounts
<1> HIDE DEF one, s
<1>3. Beside(s, t)
  BY <1>2, SmallPuts DEF Counted, Shaped
<1> HIDE DEF t
<1> QED
  BY <1>1, <1>2, <1>3, BesideCounts, ApplyCounts

\* The cancellation on top of the stack.
LEMMA SingleCancelCounts ==
  ASSUME IInv, CountsInv, InternalCancelSingleOrder
  PROVE  CountsInv'
<1> DEFINE reg == Top(Tx)
           i == reg.index
           s == Popped(Tx)
           condition == orders[i].owner = reg.account /\ orders[i].child0 = NIL /\ orders[i].child1 = NIL
           x == Assert(s, condition)
           t == CancelOne(x, i)
<1>1. /\ reg # EmptyRegister /\ reg.type = "CANCEL_SINGLE_ACCOUNT_ORDER"
      /\ Become(Apply(IF orders[i] = NoOrder THEN s ELSE t))
  BY DEF InternalCancelSingleOrder, TopIs, SingleCancelled, Popped
<1>2. reg = Top(Tx) /\ s = Popped(Tx) /\ x = Assert(s, condition) /\ t = CancelOne(x, i) /\ i = reg.index
  OBVIOUS
<1> HIDE DEF reg, i, s, condition, x, t
<1>3. i \in Nonces
  <2>1. RegisterInv(setup, market, orders, reg)
    BY <1>1, <1>2, TopIsPopped
  <2> QED
    BY <1>1, <1>2, <2>1, CountsFacts DEF RegisterInv
<1>4. Counted(s) /\ s.orders = orders
  <2>1. Beside(Tx, s)
    BY <1>2, CountsFacts, SmallSteps DEF Popped
  <2> QED
    BY <2>1, CountsFacts, BesideCounts DEF Beside
<1>5. Counted(x) /\ x.orders = orders
  <2>1. Beside(s, x)
    BY <1>2, <1>4, SmallSteps DEF Counted, Shaped
  <2> QED
    BY <1>4, <2>1, BesideCounts DEF Beside
<1>6. orders[i] # NoOrder => Counted(t)
  BY <1>2, <1>3, <1>5, CountsFacts, CancelledCounts
<1> QED
  BY <1>1, <1>4, <1>6, ApplyCounts

\* One order of a cancel-all on top of the stack.
LEMMA CancelOneOfAllCounts ==
  ASSUME IInv, CountsInv, NEW i \in Nonces, InternalCancelOneOfAll(i)
  PROVE  CountsInv'
<1> DEFINE reg == Top(Tx)
           s == [Tx EXCEPT !.rs.stack[0].size = @ - 1]
           last == reg.size = 1
           p == Pop(s, last)
           condition == CancelAllTakes(reg, orders[i])
           x == Assert(p, condition)
           t == CancelOne(x, i)
<1>1. orders[i] # NoOrder /\ Become(Apply(t))
  BY Zenon DEF InternalCancelOneOfAll, OneOfAllCancelled
<1>2. Beside(Tx, s) /\ DOMAIN s = TxFields /\ DOMAIN s.market = MarketFields
  BY CountsFacts DEF Beside, TxFields
<1> HIDE DEF s, last, condition
<1>3. Beside(s, p)
  BY <1>2, SmallSteps
<1>4. DOMAIN p = TxFields /\ DOMAIN p.market = MarketFields
  BY <1>3 DEF Beside
<1> HIDE DEF p
<1>5. Beside(p, x)
  BY <1>4, SmallSteps
<1> HIDE DEF x
<1>6. Counted(x) /\ x.orders = orders
  BY <1>2, <1>3, <1>5, CountsFacts, BesideCounts DEF Beside
<1>7. Counted(t)
  BY <1>1, <1>6, CountsFacts, CancelledCounts
<1> QED
  BY <1>1, <1>7, ApplyCounts

(* The handlers that push a cancel-all.                                    *)
LEMMA SwitchedCounts ==
  ASSUME NEW s, Counted(s), NEW a \in Accounts, NEW time \in Nat, NEW t, t = SwitchSet(s, a, time)
  PROVE  Counted(t)
<1> DEFINE x == [s.acct[a] EXCEPT !.cancel_all_time = time]
<1>1. /\ DOMAIN s = TxFields /\ DOMAIN s.market = MarketFields
      /\ s.acct \in AcctTree /\ s.pos \in PosTree /\ s.orders \in OrderRows
  BY DEF Counted, Shaped
<1>2. /\ x \in [total_order_count : Int, total_non_cross_order_count : Int, cancel_all_time : Nat]
      /\ x.total_order_count = s.acct[a].total_order_count
      /\ x.total_non_cross_order_count = s.acct[a].total_non_cross_order_count
  BY <1>1 DEF AcctTree
<1>3. t = [s EXCEPT !.acct = [s.acct EXCEPT ![a] = x]]
  BY DEF SwitchSet
<1> HIDE DEF x
<1>4. /\ DOMAIN t = TxFields /\ t.market = s.market /\ t.pos = s.pos /\ t.orders = s.orders
      /\ t.acct = [s.acct EXCEPT ![a] = x]
  BY <1>1, <1>3 DEF TxFields
<1>5. t.acct \in AcctTree /\ t.acct[a] = x /\ \A b \in Accounts : b # a => t.acct[b] = s.acct[b]
  BY <1>1, <1>2, <1>4 DEF AcctTree
<1>6. ASSUME NEW b \in Accounts PROVE AccountCounted(t, b)
  <2>1. /\ t.acct[b].total_order_count = s.acct[b].total_order_count
        /\ t.acct[b].total_non_cross_order_count = s.acct[b].total_non_cross_order_count
    BY <1>2, <1>5
  <2>2. AccountCounted(s, b)
    BY DEF Counted
  <2> QED
    BY <1>4, <2>1, <2>2 DEF AccountCounted
<1> QED
  BY <1>1, <1>4, <1>5, <1>6 DEF Counted, Shaped

\* A cancel-all asked for leaves the orders to the instruction it pushes.
LEMMA CancelAllCounts ==
  ASSUME IInv, CountsInv, NEW a \in Accounts, Become(Apply(CancelAll(Tx, a)))
  PROVE  CountsInv'
<1> DEFINE nil == NIL
           zero == 0
           s == SwitchSet(Tx, a, nil)
           flag == acct[a].total_order_count # 0
           reg == Instruction("CANCEL_ALL_ACCOUNT_ORDERS", a, acct[a].total_order_count, NIL)
           t == Put(s, flag, reg, zero)
<1>1. CancelAll(Tx, a) = t
  BY CountsFacts DEF CancelAll, SwitchSet
<1>2. nil \in Nat
  BY DEF NIL
<1> HIDE DEF nil, zero, flag, reg
<1>3. Counted(s)
  BY <1>2, CountsFacts, SwitchedCounts
<1> HIDE DEF s
<1>4. Beside(s, t)
  BY <1>3, SmallSteps DEF Counted, Shaped
<1> HIDE DEF t
<1> QED
  BY <1>1, <1>3, <1>4, BesideCounts, ApplyCounts

\* A transaction that is beside the orders and the counters.
LEMMA BesideTx ==
  ASSUME IInv, CountsInv, NEW t, Beside(Tx, t), Become(Apply(t))
  PROVE  CountsInv'
BY CountsFacts, BesideCounts, ApplyCounts

\* A cancel-all of the user, immediate, scheduled or aborted.
LEMMA CancelAllOrdersCounts ==
  ASSUME IInv, CountsInv, NEW a \in Accounts, NEW kind \in CancelAllRequests, NEW time \in 0 .. MaxTime,
         L2CancelAllOrders(a, kind, time)
  PROVE  CountsInv'
<1> DEFINE t == CASE kind = "IMMEDIATE" -> CancelAll(Tx, a)
                  [] kind = "SCHEDULED" -> SwitchSet(Tx, a, time)
                  [] kind = "ABORT"     -> SwitchSet(Tx, a, NIL)
                  [] kind = "MARKET"    -> CancelAllMarket(Tx, a)
<1>1. Become(Apply(t))
  BY DEF L2CancelAllOrders, SwitchSet
<1>2. kind \in {"IMMEDIATE", "SCHEDULED", "ABORT", "MARKET"} /\ time \in Nat
  BY CancelKinds, SetupFacts DEF IInv
<1>3. CASE kind = "IMMEDIATE"
  BY <1>1, <1>3, CancelAllCounts
<1>4. CASE kind = "SCHEDULED"
  <2>1. t = SwitchSet(Tx, a, time)
    BY <1>4
  <2> HIDE DEF t
  <2>2. Counted(t)
    BY <1>2, <2>1, CountsFacts, SwitchedCounts
  <2> QED
    BY <1>1, <2>2, ApplyCounts
<1>5. CASE kind = "ABORT"
  <2> DEFINE nil == NIL
  <2>1. t = SwitchSet(Tx, a, nil) /\ nil \in Nat
    BY <1>5 DEF NIL
  <2> HIDE DEF t, nil
  <2>2. Counted(t)
    BY <2>1, CountsFacts, SwitchedCounts
  <2> QED
    BY <1>1, <2>2, ApplyCounts
<1>6. CASE kind = "MARKET"
  <2>1. t = CancelAllMarket(Tx, a)
    BY <1>6
  <2> HIDE DEF t
  <2>2. Beside(Tx, t)
    BY <2>1, CountsFacts, SmallSteps DEF CancelAllMarket
  <2> QED
    BY <1>1, <2>2, BesideTx
<1> QED
  BY <1>2, <1>3, <1>4, <1>5, <1>6

\* A cancel-all that prepares a liquidation.
LEMMA LiquidationCounts ==
  ASSUME IInv, CountsInv, NEW a \in Accounts, InternalCancelAllLiquidation(a)
  PROVE  CountsInv'
<1> DEFINE x == CancelAllIsolated(Tx, a)
           y == CancelAllCross(Tx, a)
           t == IF pos[a].isolated THEN x ELSE y
<1>1. Become(Apply(t))
  BY DEF InternalCancelAllLiquidation
<1>2. Beside(Tx, x)
  BY CountsFacts, SmallSteps DEF CancelAllIsolated
<1>3. Beside(Tx, y)
  BY CountsFacts, SmallSteps DEF CancelAllCross
<1> HIDE DEF x, y
<1>4. Beside(Tx, t)
  BY <1>2, <1>3
<1> HIDE DEF t
<1> QED
  BY <1>1, <1>4, BesideTx

\* A transfer on top of the stack.
LEMMA TransferCounts ==
  ASSUME IInv, CountsInv, InternalTransfer
  PROVE  CountsInv'
<1>1. Become(Apply(Pop(Tx, TRUE)))
  BY DEF InternalTransfer
<1>2. Beside(Tx, Pop(Tx, TRUE))
  BY CountsFacts, SmallSteps
<1> QED
  BY <1>1, <1>2, BesideTx

\* A change of leverage, and of margin mode where no order is open.
LEMMA LeverageCounts ==
  ASSUME IInv, CountsInv, NEW a \in Accounts, NEW isolated \in BOOLEAN, L2UpdateLeverage(a, isolated)
  PROVE  CountsInv'
<1> DEFINE q == [[pos[a] EXCEPT !.isolated = isolated] EXCEPT !.margin_set = TRUE]
           t == [Tx EXCEPT !.pos = [Tx.pos EXCEPT ![a] = q]]
<1>1. /\ setup.max_nonce \in Nat /\ Counted(Tx) /\ Tx.pos = pos /\ pos \in PosTree
  BY CountsFacts DEF Shaped
<1>2. ~Spot /\ (pos[a].isolated # isolated => pos[a].total_order_count = 0)
  BY DEF L2UpdateLeverage
<1>3. /\ q \in PosSet /\ q.total_order_count = pos[a].total_order_count
      /\ q.total_position_tied_order_count = pos[a].total_position_tied_order_count
      /\ q.isolated = isolated
  BY <1>1 DEF PosTree, PosSet
<1>4. Become(t)
  <2>1. t = [Tx EXCEPT !.pos[a].isolated = isolated, !.pos[a].margin_set = TRUE]
    BY <1>1 DEF PosTree, Tx
  <2> HIDE DEF t
  <2> QED
    BY <2>1 DEF L2UpdateLeverage
<1> HIDE DEF q
<1>5. Remoded(Tx, t, a, q)
  BY <1>1, <1>2, <1>3 DEF Remoded
<1> HIDE DEF t
<1>6. Counted(t)
  BY <1>1, <1>2, <1>5, RemodedCounts
<1> QED
  BY <1>4, <1>6, BecomeCounts

\* A step that changes neither the state nor the set-up.
LEMMA SameTxCounts ==
  ASSUME CountsInv, Tx' = Tx, setup' = setup
  PROVE  CountsInv'
<1>1. Spot' = Spot /\ Nonces' = Nonces /\ OrderRows' = OrderRows
  BY DEF Spot, Nonces, FIRST_ASK_NONCE, FIRST_BID_NONCE, MaxNonce, OrderRows
<1> DEFINE q == Tx'
<1>2. Counted(q)
  BY DEF CountsInv
<1> QED
  BY <1>1, <1>2, Zenon DEF CountsInv, Counted, Shaped, AccountCounted, LiveIn, OwnedIn, TiedIn, q

-----------------------------------------------------------------------------
(* An order that waits for its price, or for its slices, is created.       *)
LEMMA CreateCounts ==
  ASSUME IInv, CountsInv, NEW a \in Accounts, NEW f \in CreateRequests, NEW c \in Verdicts,
         L2CreateOrder(a, f, c)
  PROVE  CountsInv'
<1> DEFINE conditional == f.type \in ConditionalTypes
           status == IF f.type = "TWAP" THEN "TWAP" ELSE IF conditional THEN "MARK_PRICE" ELSE "NA"
           base  == IF f.base = 0 /\ ~conditional THEN PositionTiedAmount(a) ELSE f.base
           index == NextNonce(Tx, f.is_ask)
           s     == BumpNonce(Tx, f.is_ask)
           n     == IF status = "NA" THEN index ELSE NIL
           o     == NewOrder(a, f, base, n, status)
           x     == WithOrder(s, index, o)
           t     == IncrementOrderCount(x, a, o)
<1>1. /\ ~BookFull(Tx) /\ IsEmpty(rs) /\ (status # "NA" => Become(Apply(t)))
  BY DEF L2CreateOrder, UserTransaction, WithOrder
<1>2. /\ setup.max_nonce \in Nat /\ StateInv(setup, Tx) /\ f \in Requests
      /\ PositionTiedAmount(a) \in Nat /\ Nonces = NoncesOf(setup) /\ Tx.orders = orders
      /\ Counted(Tx) /\ DOMAIN Tx = TxFields /\ DOMAIN Tx.market = MarketFields
  BY <1>1, SetupFacts, TxFacts, CountsFacts DEF IInv
<1>3. Requested(f) /\ f.base \in Nat /\ f.is_ask \in BOOLEAN
  BY <1>2, RequestIsRequested DEF Requested
<1>4. base \in Nat /\ status \in TriggerStatuses /\ (status # "NA" => n = 0)
  BY <1>2, <1>3 DEF TriggerStatuses, NIL
<1>5. /\ s = BumpNonce(Tx, f.is_ask) /\ index = NextNonce(Tx, f.is_ask)
      /\ o = NewOrder(a, f, base, n, status) /\ x = WithOrder(s, index, o)
      /\ t = IncrementOrderCount(x, a, o) /\ status = OfStatus(f)
  BY DEF OfStatus
<1> HIDE DEF conditional, status, base, index, s, n, o, x, t
<1>6. CASE status = "NA"
  BY <1>5, <1>6, L2CreateOrderStep, MatchedCounts
<1>7. CASE status # "NA"
  <2>1. index \in Nonces /\ Tx.orders[index] = NoOrder
    BY <1>1, <1>2, <1>3, <1>5, BumpIsGood
  <2>2. n \in 0 .. setup.max_nonce
    BY <1>2, <1>4, <1>7
  <2>3. o \in OrderRecords /\ o.owner = a
    <3>1. o \in OrderSet(setup) /\ o.owner = a
      BY <1>2, <1>3, <1>4, <1>5, <2>2, NewOrderIsOrder
    <3> QED
      BY <3>1 DEF OrderSet
  <2>4. Beside(Tx, s)
    BY <1>2, <1>5, SmallSteps
  <2>5. Beside([Tx EXCEPT !.orders = [Tx.orders EXCEPT ![index] = o]], x)
    BY <1>2, <1>5, <2>4 DEF Beside, WithOrder, TxFields
  <2>6. t = IncrementOrderCount(x, o.owner, o)
    BY <1>5, <2>3
  <2>7. Counted(t)
    BY <1>2, <2>1, <2>3, <2>5, <2>6, PlacedCounts
  <2> QED
    BY <1>1, <1>7, <2>7, ApplyCounts
<1> QED
  BY <1>6, <1>7

(* An order is changed in place.                                           *)
InPlace(s, i, p, o, t) ==
  /\ setup.max_nonce \in Nat /\ Counted(s) /\ i \in Nonces /\ p = s.orders[i] /\ p # NoOrder
  /\ o \in OrderRecords /\ o.owner = p.owner
  /\ o.reduce_only = p.reduce_only /\ o.trigger_status = p.trigger_status
  /\ t = WithOrder(s, i, o)

\* An order of the same owner put in its place keeps the agreement.
LEMMA InPlaceCounts ==
  ASSUME NEW s, NEW i, NEW p, NEW o, NEW t, InPlace(s, i, p, o, t)
  PROVE  Counted(t)
<1>1. /\ setup.max_nonce \in Nat /\ Counted(s) /\ i \in Nonces /\ p = s.orders[i] /\ p # NoOrder
      /\ o \in OrderRecords /\ o.owner = p.owner /\ (IsTied(o) <=> IsTied(p))
      /\ t = WithOrder(s, i, o)
  BY DEF InPlace, IsTied
<1>2. DOMAIN s = TxFields /\ DOMAIN s.market = MarketFields
  BY <1>1 DEF Counted, Shaped
<1> DEFINE tree == [s.orders EXCEPT ![i] = o]
<1>3. t = WithTree(s, tree)
  BY <1>1 DEF WithOrder, WithTree
<1>4. Beside(WithTree(s, tree), t)
  BY <1>2, <1>3 DEF Beside, WithTree, TxFields
<1>5. tree = [s.orders EXCEPT ![i] = o]
  OBVIOUS
<1> HIDE DEF tree
<1> QED
  BY <1>1, <1>4, <1>5, RewrittenCounts

(* An order is sliced.                                                     *)
LEMMA SliceCounts ==
  ASSUME IInv, CountsInv, NEW i \in Nonces, NEW base \in TwapSlices,
         InternalCreateTwapSlice(i, base, orders[i].price)
  PROVE  CountsInv'
<1> DEFINE o == orders[i]
           y == BumpNonce(Tx, o.is_ask)
           n == NextNonce(Tx, o.is_ask)
           less == LessBy(o, base)
           x == WithOrder(y, i, less)
           slice == SliceOf(o, base, o.price, n)
           reg == InsertOrder(slice, n)
           zero == 0
           s == Put(x, TRUE, reg, zero)
<1>1. /\ Counted(Tx) /\ DOMAIN Tx = TxFields /\ DOMAIN Tx.market = MarketFields
      /\ Tx.orders = orders /\ orders \in OrderRows /\ setup.max_nonce \in Nat
  BY CountsFacts
<1>2. Beside(Tx, y)
  BY <1>1, SmallSteps
<1>3. y.orders = orders /\ DOMAIN y = TxFields /\ DOMAIN y.market = MarketFields /\ Counted(y)
  BY <1>1, <1>2, BesideCounts DEF Beside
<1>4. o # NoOrder
      /\ Become(Apply(IF MustCancel(o) THEN Dropped(Tx, i) ELSE IF base = o.remaining THEN Dropped(s, i) ELSE s))
  <2> DEFINE w == [BumpNonce(Tx, o.is_ask) EXCEPT !.orders[i].remaining = @ - base]
  <2>1. w = x
    <3>1. y.orders[i] = o
      BY <1>3
    <3> QED
      BY <3>1 DEF WithOrder, LessBy
  <2> HIDE DEF w, x, s
  <2>3. s = Put(w, TRUE, InsertOrder(slice, n), 0)
    BY <2>1 DEF s
  <2> QED
    BY Zenon, <2>3 DEF InternalCreateTwapSlice, SliceOf, w
<1>5. /\ less \in OrderRecords /\ less.owner = o.owner /\ less.reduce_only = o.reduce_only
      /\ less.trigger_status = o.trigger_status
  <2>1. o \in OrderRecords /\ base \in Nat
    BY <1>1, <1>4, SetupFacts DEF OrderRows, IInv
  <2> HIDE DEF o
  <2> QED
    BY <2>1 DEF LessBy, OrderRecords
<1>6. x = WithOrder(y, i, less) /\ o = y.orders[i]
  BY <1>3
<1> HIDE DEF o, y, n, less, x, slice, reg, zero
<1>7. Counted(x) /\ x.orders = [orders EXCEPT ![i] = less]
  <2>1. InPlace(y, i, o, less, x)
    BY <1>1, <1>3, <1>4, <1>5, <1>6 DEF InPlace
  <2>2. x.orders = [orders EXCEPT ![i] = less]
    BY <1>3, <1>6 DEF WithOrder, TxFields
  <2> QED
    BY <2>1, <2>2, InPlaceCounts
<1>8. Beside(x, s)
  BY <1>7, SmallSteps DEF Counted, Shaped
<1> HIDE DEF s
<1>9. Counted(s) /\ s.orders[i] # NoOrder
  <2>1. less # NoOrder
    BY <1>5, EmptyAssumption
  <2> QED
    BY <1>1, <1>7, <1>8, <2>1, BesideCounts DEF Beside, OrderRows
<1>10. Counted(Dropped(s, i))
  BY <1>1, <1>9, CancelledCounts
<1>11. Counted(Dropped(Tx, i))
  BY <1>1, <1>3, <1>4, <1>6, CancelledCounts
<1> QED
  BY <1>4, <1>9, <1>10, <1>11, ApplyCounts

(* An order whose price is met leaves, to be inserted by an instruction.   *)
LEMMA TriggerCounts ==
  ASSUME IInv, CountsInv, NEW i \in Nonces, InternalTriggerOrder(i)
  PROVE  CountsInv'
<1> DEFINE o == orders[i]
           base == IF o.remaining = 0 THEN PositionTiedAmount(o.owner) ELSE o.remaining
           y == BumpNonce(Tx, o.is_ask)
           active == [o EXCEPT !.nonce = NextNonce(Tx, o.is_ask), !.initial = base,
                               !.remaining = base, !.trigger_status = "NA"]
           reg == InsertOrder(active, i)
           one == 1
           zero == 0
           s == Put(y, TRUE, reg, one)
           t == Dropped(s, i)
           partner == Instruction("CANCEL_SINGLE_ACCOUNT_ORDER", o.owner, 0, o.cancel0)
           flag == o.cancel0 # NIL
           r == Put(t, flag, partner, zero)
<1>1. orders[i] # NoOrder /\ Become(Apply(IF MustCancel(o) THEN Dropped(Tx, i) ELSE r))
  BY Zenon DEF InternalTriggerOrder
<1> HIDE DEF base, active, reg, one, zero, partner, flag
<1>2. Beside(Tx, y)
  BY CountsFacts, SmallSteps
<1>3. DOMAIN y = TxFields /\ DOMAIN y.market = MarketFields
  BY <1>2 DEF Beside
<1> HIDE DEF y
<1>4. Beside(y, s)
  BY <1>3, SmallSteps
<1> HIDE DEF s
<1>5. Counted(s) /\ s.orders = orders
  BY <1>2, <1>4, CountsFacts, BesideCounts DEF Beside
<1>6. Counted(t) /\ Counted(Dropped(Tx, i))
  <2>1. s.orders[i] # NoOrder /\ Tx.orders[i] # NoOrder /\ Counted(Tx) /\ setup.max_nonce \in Nat
    BY <1>1, <1>5, CountsFacts
  <2> QED
    BY <1>5, <2>1, CancelledCounts
<1> HIDE DEF t
<1>7. Beside(t, r)
  BY <1>6, SmallSteps DEF Counted, Shaped
<1> HIDE DEF r
<1>8. Counted(r)
  BY <1>6, <1>7, BesideCounts
<1> QED
  BY <1>1, <1>6, <1>8, ApplyCounts

(* An order is changed: it is done, it leaves to be inserted again, or it  *)
(* stays.                                                                  *)
LEMMA ModifyCounts ==
  ASSUME IInv, CountsInv, NEW i \in Nonces, NEW r \in Modifications, L2ModifyOrder(i, r)
  PROVE  CountsInv'
<1> DEFINE o == orders[i]
           flag == ModifyUnlocks(o)
           matched == o.initial - o.remaining
           filled == r.base # 0 /\ r.base <= matched
           changed == ChangedOf(o, r)
           s1 == DecrementOrderCount(Tx, o.owner, o)
           s2 == Unlock(s1, flag, o, o.remaining)
           gone == RemoveOrder(s2, i)
           again == [changed EXCEPT !.nonce = NextNonce(Tx, o.is_ask)]
           zero == 0
           one == 1
           y == BumpNonce(gone, o.is_ask)
           reg == InsertOrder(again, i)
           s == Put(y, TRUE, reg, zero)
           kids == TriggerChildOrders(gone, TRUE, o, matched, one)
           here == WithOrder(Tx, i, changed)
<1>1. o # NoOrder /\ Become(Apply(IF filled THEN kids ELSE IF o.trigger_status = "NA" THEN s ELSE here))
  <2> DEFINE other == [o EXCEPT !.price = r.price, !.trigger_price = r.trigger_price,
                                !.initial = IF r.base = 0 THEN @ ELSE r.base,
                                !.remaining = IF r.base = 0 THEN @ ELSE r.base - matched,
                                !.stp = r.stp, !.by_master = r.by_master,
                                !.integrator = r.integrator]
  <2>1. other = changed
    BY DEF ChangedOf
  <2>2. here = [Tx EXCEPT !.orders[i] = changed]
    BY DEF WithOrder
  <2> HIDE DEF changed, here
  <2> QED
    BY Zenon, <2>1, <2>2 DEF L2ModifyOrder
<1>2. /\ Counted(Tx) /\ Shaped(Tx) /\ Tx.orders = orders /\ setup.max_nonce \in Nat /\ i \in NoncesOf(setup)
      /\ orders \in OrderRows /\ orders \in OrderTree(setup)
  BY CountsFacts
<1>3. o \in OrderSet(setup) /\ o \in OrderRecords /\ o.owner \in Accounts
  BY <1>1, <1>2 DEF OrderTree, OrderSet, OrderRecords
<1>4. (~filled /\ r.base # 0) => r.base > o.initial - o.remaining
  <2>1. o.initial \in Nat /\ o.remaining \in Int /\ r.base \in Nat
    BY <1>3 DEF OrderRecords, Modifications
  <2> QED
    BY <2>1
<1>5. /\ s1 = DecrementOrderCount(Tx, o.owner, o) /\ gone = RemoveOrder(s2, i) /\ o = Tx.orders[i]
      /\ changed = ChangedOf(o, r)
  BY <1>2
<1> HIDE DEF o, flag, matched, filled, changed, again, zero, one, reg, s1
<1>6. Shaped(s1)
  BY <1>2, <1>3, <1>5, CountsAreAdded DEF DecrementOrderCount
<1>7. Beside(s1, s2)
  BY <1>6, SmallSteps DEF Shaped
<1> HIDE DEF s2, gone
<1>8. Counted(gone)
  BY <1>1, <1>2, <1>5, <1>7, RemovedCounts
<1>9. Beside(gone, kids) /\ Beside(gone, y)
  BY <1>8, SmallSteps, SmallPuts DEF Counted, Shaped
<1>10. Counted(kids) /\ Counted(y)
  BY <1>8, <1>9, BesideCounts
<1> HIDE DEF kids, y
<1>11. Beside(y, s)
  BY <1>10, SmallSteps DEF Counted, Shaped
<1>12. Counted(s)
  BY <1>10, <1>11, BesideCounts
<1> HIDE DEF s
<1>13. ~filled => Counted(here)
  <2> SUFFICES ASSUME ~filled PROVE Counted(here)
    OBVIOUS
  <2>1. IsChangedOf(setup, changed, o, r)
    BY <1>2, <1>3, <1>4, <1>5 DEF IsChangedOf
  <2>2. changed \in OrderSet(setup) /\ changed.owner = o.owner /\ changed.trigger_status = o.trigger_status
    BY <2>1, ChangedIsOrder
  <2>3. changed \in OrderRecords /\ changed.reduce_only = o.reduce_only
    BY <1>3, <1>5, <2>2 DEF OrderSet, ChangedOf, OrderRecords
  <2>4. InPlace(Tx, i, o, changed, here)
    BY <1>1, <1>2, <1>5, <2>2, <2>3 DEF InPlace
  <2> QED
    BY <2>4, InPlaceCounts
<1> QED
  BY <1>1, <1>10, <1>12, <1>13, ApplyCounts

(* A child starts to watch the price, and counts from then on as tied.     *)
Watches(s, i, p, o, n, t) ==
  /\ setup.max_nonce \in Nat /\ Counted(s) /\ ~Spot /\ i \in Nonces /\ p = s.orders[i] /\ p # NoOrder
  /\ ~IsTied(p) /\ o \in OrderRecords /\ o.owner = p.owner /\ n = One(IsTied(o))
  /\ t = TiedCounted(WithOrder(s, i, o), o.owner, n)

\* A child that is activated may become tied to its position, and is counted.
LEMMA ChildCounts ==
  ASSUME NEW s, NEW i, NEW p, NEW o, NEW n, NEW t, Watches(s, i, p, o, n, t)
  PROVE  Counted(t)
<1> DEFINE a == o.owner
           tree == [s.orders EXCEPT ![i] = o]
           q == [s.pos[a] EXCEPT !.total_position_tied_order_count =
                   s.pos[a].total_position_tied_order_count + n]
<1>1. /\ setup.max_nonce \in Nat /\ Counted(s) /\ ~Spot /\ i \in Nonces /\ p = s.orders[i] /\ p # NoOrder
      /\ ~IsTied(p) /\ o \in OrderRecords /\ o.owner = p.owner /\ n = One(IsTied(o))
      /\ t = TiedCounted(WithOrder(s, i, o), o.owner, n)
  BY DEF Watches
<1>2. /\ DOMAIN s = TxFields /\ s.pos \in PosTree /\ s.acct \in AcctTree
      /\ s.orders \in OrderRows /\ DOMAIN s.market = MarketFields
  BY <1>1 DEF Counted, Shaped
<1>3. a \in Accounts /\ n \in Int
  BY <1>1 DEF OrderRecords, One
<1>4. /\ q \in PosSet /\ q.total_order_count = s.pos[a].total_order_count
      /\ q.total_position_tied_order_count = s.pos[a].total_position_tied_order_count + n
      /\ q.isolated = s.pos[a].isolated
  <2> DEFINE x == s.pos[a]
             v == x.total_position_tied_order_count + n
  <2>1. x \in PosSet
    BY <1>2, <1>3 DEF PosTree
  <2>2. v \in Int /\ q = [x EXCEPT !.total_position_tied_order_count = v]
    BY <1>3, <2>1 DEF PosSet
  <2> HIDE DEF x, v, q
  <2>3. /\ q \in PosSet /\ q.total_order_count = x.total_order_count
        /\ q.total_position_tied_order_count = v /\ q.isolated = x.isolated
    BY <2>1, <2>2 DEF PosSet
  <2> QED
    BY <2>3 DEF x, v
<1>5. /\ DOMAIN t = TxFields /\ t.market = s.market /\ t.acct = s.acct /\ t.orders = tree
      /\ t.pos = [s.pos EXCEPT ![a] = q]
  BY <1>1, <1>2 DEF TiedCounted, WithOrder, TxFields
<1>6. Rewrites(s.orders, i, p, o, tree)
  BY <1>1, <1>2 DEF Rewrites
<1> HIDE DEF tree, q
<1>7. /\ tree \in OrderRows
      /\ Cardinality(LiveIn(tree)) = Cardinality(LiveIn(s.orders))
      /\ \A b : Cardinality(OwnedIn(tree, b)) = Cardinality(OwnedIn(s.orders, b))
      /\ \A b : Cardinality(TiedIn(tree, b)) = Cardinality(TiedIn(s.orders, b))
                  - One(b = o.owner /\ IsTied(p)) + One(b = o.owner /\ IsTied(o))
  BY <1>6, OrderRewritten
<1>8. /\ t.pos \in PosTree /\ t.pos[a] = q /\ \A b \in Accounts : b # a => t.pos[b] = s.pos[b]
  BY <1>2, <1>3, <1>4, <1>5 DEF PosTree
<1>9. ASSUME NEW b \in Accounts
      PROVE  Cardinality(TiedIn(tree, b)) = Cardinality(TiedIn(s.orders, b)) + One(b = a /\ IsTied(o))
  <2>1. One(b = o.owner /\ IsTied(p)) = 0
    BY <1>1 DEF One
  <2>2. Cardinality(TiedIn(s.orders, b)) \in Nat /\ One(b = o.owner /\ IsTied(o)) \in Nat
    BY <1>1, SetsAreFinite DEF One
  <2> QED
    BY <1>7, <2>1, <2>2
<1>10. ASSUME NEW b \in Accounts PROVE AccountCounted(t, b)
  <2> DEFINE x == Cardinality(OwnedIn(s.orders, b))
             v == Cardinality(TiedIn(s.orders, b))
             w == Cardinality(TiedIn(tree, b))
  <2>1. /\ s.acct[b].total_order_count = x
        /\ s.acct[b].total_non_cross_order_count = IF s.pos[b].isolated THEN x ELSE 0
        /\ s.pos[b].total_order_count = x
        /\ s.pos[b].total_position_tied_order_count = v
    BY <1>1 DEF Counted, AccountCounted
  <2>2. v \in Nat
    BY <1>1, SetsAreFinite
  <2>3. Cardinality(OwnedIn(t.orders, b)) = x /\ Cardinality(TiedIn(t.orders, b)) = w
    BY <1>5, <1>7
  <2>4. w = v + One(b = a /\ IsTied(o))
    BY <1>9
  <2> HIDE DEF x, v, w, a
  <2>5. t.pos[b].total_position_tied_order_count = w
    <3>1. CASE b = a
      <4>1. One(b = a /\ IsTied(o)) = n
        BY <1>1, <3>1 DEF One
      <4> QED
        BY <1>4, <1>8, <2>1, <2>4, <3>1, <4>1
    <3>2. CASE b # a
      <4>1. One(b = a /\ IsTied(o)) = 0
        BY <3>2 DEF One
      <4> QED
        BY <1>8, <2>1, <2>2, <2>4, <3>2, <4>1
    <3> QED
      BY <3>1, <3>2
  <2>6. t.pos[b].isolated = s.pos[b].isolated /\ t.pos[b].total_order_count = x
    BY <1>4, <1>8, <2>1
  <2> QED
    BY <1>1, <1>5, <2>1, <2>3, <2>5, <2>6 DEF AccountCounted
<1>11. t.market.total_order_count = Cardinality(LiveIn(t.orders))
  BY <1>1, <1>5, <1>7 DEF Counted
<1> QED
  BY <1>2, <1>5, <1>7, <1>8, <1>10, <1>11 DEF Counted, Shaped

\* The activation of a child order on top of the stack.
LEMMA TriggerChildCounts ==
  ASSUME IInv, CountsInv, InternalTriggerChildOrder
  PROVE  CountsInv'
<1> DEFINE reg == Top(Tx)
           i == reg.index
           o == orders[i]
           p == Popped(Tx)
           condition == /\ ~BookFull(Tx) /\ ~Spot
                        /\ o # NoOrder => o.owner = reg.account /\ o.trigger_status = "PARENT_ORDER"
           s == Assert(p, condition)
           n == reg.size
           m == B2N(o.reduce_only)
           active == ChildActive(o, n)
           x == WithOrder(s, i, active)
           t == TiedCounted(x, o.owner, m)
<1>1. /\ reg # EmptyRegister /\ reg.type = "TRIGGER_CHILD_ORDER"
      /\ Become(Apply(IF o = NoOrder THEN s ELSE IF MustCancel(o) THEN Dropped(s, i) ELSE t))
  <2>1. reg # EmptyRegister /\ reg.type = "TRIGGER_CHILD_ORDER" /\ Become(ChildTriggered)
    BY DEF InternalTriggerChildOrder, TopIs
  <2>2. t = [s EXCEPT !.orders[i] = active,
                      !.pos[o.owner].total_position_tied_order_count = @ + m]
    BY DEF TiedCounted, WithOrder
  <2> HIDE DEF t
  <2>3. ChildTriggered = Apply(IF o = NoOrder THEN s ELSE IF MustCancel(o) THEN Dropped(s, i) ELSE t)
    BY Zenon, <2>2 DEF ChildTriggered, Popped, ChildActive
  <2> QED
    BY <2>1, <2>3
<1>2. /\ reg = Top(Tx) /\ p = Popped(Tx) /\ s = Assert(p, condition) /\ i = reg.index /\ o = orders[i]
      /\ x = WithOrder(s, i, active) /\ t = TiedCounted(x, o.owner, m) /\ n = reg.size
      /\ active = ChildActive(o, n) /\ m = B2N(o.reduce_only)
  OBVIOUS
<1>3. condition => ~Spot /\ (o # NoOrder => o.trigger_status = "PARENT_ORDER")
  OBVIOUS
<1> HIDE DEF reg, i, o, p, condition, s, n, m, active, x, t
<1>4. /\ RegisterInv(setup, market, orders, reg) /\ StateInv(setup, p) /\ p.market = market
      /\ p.orders = orders
  BY <1>1, <1>2, TopIsPopped
<1>5. i \in Nonces /\ n \in Nat
  BY <1>1, <1>2, <1>4, CountsFacts DEF RegisterInv
<1>6. Counted(p)
  <2>1. Beside(Tx, p)
    BY <1>2, CountsFacts, SmallSteps DEF Popped
  <2> QED
    BY <2>1, CountsFacts, BesideCounts
<1>7. Counted(s) /\ s.orders = orders
  <2>1. Beside(p, s)
    BY <1>2, <1>6, SmallSteps DEF Counted, Shaped
  <2> QED
    BY <1>4, <1>6, <2>1, BesideCounts DEF Beside
<1>8. o # NoOrder => Counted(Dropped(s, i))
  BY <1>2, <1>5, <1>7, CountsFacts, CancelledCounts
<1>9. CASE o # NoOrder /\ ~MustCancel(o)
  <2>1. Become(Apply(t))
    BY <1>1, <1>9
  <2>2. DOMAIN s = TxFields /\ s.ok \in BOOLEAN /\ (s.ok => condition)
    <3>1. Typed(p) /\ p.market \in MarketSet(setup)
      BY <1>4 DEF StateInv, TreesInv, TreeInv
    <3>2. s.ok => condition
      BY <1>2, <3>1, AssertIsKept
    <3>3. StateInv(setup, s)
      BY <1>2, <1>4, CountsFacts, AssertedIsGood
    <3> QED
      BY <3>2, <3>3 DEF StateInv, TreesInv, Typed
  <2>3. t.ok = s.ok /\ DOMAIN t = TxFields
    BY <1>2, <2>2 DEF TiedCounted, WithOrder, TxFields
  <2>4. ~Spot /\ o.trigger_status = "PARENT_ORDER"
    BY <1>3, <1>9, <2>1, <2>2, <2>3, BecomeIsOk
  <2>5. o \in OrderRecords
    BY <1>2, <1>5, <1>9, CountsFacts DEF OrderRows
  <2>6. active \in OrderRecords /\ active.owner = o.owner /\ active.reduce_only = o.reduce_only
        /\ active.trigger_status = "MARK_PRICE"
    <3>1. o \in OrderSet(setup)
      BY <1>2, <1>5, <1>9, CountsFacts DEF OrderTree
    <3>2. active \in OrderSet(setup) /\ active.owner = o.owner /\ active.trigger_status = "MARK_PRICE"
      BY <1>2, <1>5, <2>4, <3>1, CountsFacts, ChildIsOrder
    <3> QED
      BY <1>2, <2>5, <3>2 DEF OrderSet, ChildActive, OrderRecords
  <2>7. ~IsTied(o) /\ m = One(IsTied(active))
    BY <1>2, <2>4, <2>6 DEF IsTied, One, B2N
  <2>8. Watches(s, i, o, active, m, t)
    BY <1>2, <1>5, <1>7, <1>9, <2>4, <2>6, <2>7, CountsFacts DEF Watches
  <2>9. Counted(t)
    BY <2>8, ChildCounts
  <2> QED
    BY <2>1, <2>9, ApplyCounts
<1> QED
  BY <1>1, <1>7, <1>8, <1>9, ApplyCounts

-----------------------------------------------------------------------------
(* The counters agree with the orders in every state.                      *)
LEMMA InitCounts == Init => CountsInv
<1> SUFFICES ASSUME Init PROVE CountsInv
  OBVIOUS
<1>1. IInv
  BY InitInv
<1>2. /\ orders = [i \in Nonces |-> NoOrder] /\ Nonces = NoncesOf(setup)
      /\ Tx.acct = acct /\ Tx.pos = pos /\ Tx.orders = orders /\ Tx.market = market
  BY <1>1, SetupFacts, TxFacts DEF Init, IInv
<1>3. LiveIn(orders) = {} /\ \A a : OwnedIn(orders, a) = {} /\ TiedIn(orders, a) = {}
  BY <1>2 DEF LiveIn, OwnedIn, TiedIn
<1>4. /\ Cardinality(LiveIn(orders)) = 0
      /\ \A a : Cardinality(OwnedIn(orders, a)) = 0 /\ Cardinality(TiedIn(orders, a)) = 0
  BY <1>3, FS_EmptySet
<1>5. Shaped(Tx)
  <2>1. Typed(Tx) /\ DOMAIN market = MarketFields
    BY <1>1, TxFacts DEF Init, MarketFields
  <2> QED
    BY <1>2, <2>1 DEF Shaped, Typed, OrderRows
<1>6. ASSUME NEW a \in Accounts PROVE AccountCounted(Tx, a)
  <2>1. /\ acct[a].total_order_count = 0 /\ acct[a].total_non_cross_order_count = 0
        /\ pos[a].total_order_count = 0 /\ pos[a].total_position_tied_order_count = 0
        /\ pos[a].isolated = FALSE
    BY DEF Init
  <2> QED
    BY <1>2, <1>4, <2>1 DEF AccountCounted
<1>7. market.total_order_count = 0
  BY DEF Init
<1> QED
  BY <1>2, <1>4, <1>5, <1>6, <1>7 DEF CountsInv, Counted

\* Every request of a user.
LEMMA UserCounts == ASSUME IInv, CountsInv, UserNext PROVE CountsInv'
<1>1. /\ ModifyRequests \subseteq Modifications
      /\ \A g \in GroupRequests : g.orders \in Seq(Requests) /\ g.type \in GroupTypes
  BY SetupFacts DEF IInv, GroupTypes
<1>2. ASSUME NEW i \in Nonces, NEW r \in ModifyRequests, L2ModifyOrder(i, r) PROVE CountsInv'
  BY <1>1, <1>2, ModifyCounts
<1>3. ASSUME NEW i \in Nonces, L2CancelOrder(i) PROVE CountsInv'
  BY <1>3, CancelFollowedCounts DEF L2CancelOrder
<1>4. ASSUME NEW a \in Accounts, NEW f \in CreateRequests, NEW c \in Verdicts, L2CreateOrder(a, f, c)
      PROVE  CountsInv'
  BY <1>4, CreateCounts
<1>5. ASSUME NEW a \in Accounts, NEW g \in GroupRequests, NEW c \in Verdicts,
             L2CreateGroupedOrders(a, g.orders, g.type, c)
      PROVE  CountsInv'
  <2> DEFINE list == g.orders
             type == g.type
  <2>1. list \in Seq(Requests) /\ type \in GroupTypes /\ L2CreateGroupedOrders(a, list, type, c)
    BY <1>1, <1>5
  <2> HIDE DEF list, type
  <2> QED
    BY <2>1, L2CreateGroupedOrdersStep, MatchedCounts
<1>6. ASSUME NEW a \in Accounts, NEW f \in L1Requests, NEW c \in Verdicts, L1CreateOrder(a, f, c)
      PROVE  CountsInv'
  BY <1>6, L1CreateOrderStep, MatchedCounts
<1>7. ASSUME NEW a \in Accounts, NEW kind \in CancelAllRequests, NEW time \in 0 .. MaxTime,
             L2CancelAllOrders(a, kind, time)
      PROVE  CountsInv'
  BY <1>7, CancelAllOrdersCounts
<1>8. ASSUME NEW a \in Accounts, L1CancelAllOrders(a) PROVE CountsInv'
  BY <1>8, CancelAllCounts DEF L1CancelAllOrders
<1>9. ASSUME NEW a \in Accounts, NEW isolated \in BOOLEAN, L2UpdateLeverage(a, isolated)
      PROVE  CountsInv'
  BY <1>9, LeverageCounts
<1> QED
  BY <1>2, <1>3, <1>4, <1>5, <1>6, <1>7, <1>8, <1>9 DEF UserNext

\* Every transaction the sequencer adds by itself.
LEMMA SequencerCounts == ASSUME IInv, CountsInv, SequencerNext PROVE CountsInv'
<1>1. ASSUME NEW i \in Nonces, InternalCancelExpiredOrder(i) PROVE CountsInv'
  BY <1>1, CancelFollowedCounts DEF InternalCancelExpiredOrder
<1>2. ASSUME NEW i \in Nonces, InternalTriggerOrder(i) PROVE CountsInv'
  BY <1>2, TriggerCounts
<1>3. ASSUME NEW i \in Nonces, NEW base \in TwapSlices,
             InternalCreateTwapSlice(i, base, orders[i].price)
      PROVE  CountsInv'
  BY <1>3, SliceCounts
<1>4. ASSUME NEW a \in Accounts, InternalCancelAllDms(a) PROVE CountsInv'
  BY <1>4, CancelAllCounts DEF InternalCancelAllDms
<1>5. ASSUME NEW a \in Accounts, InternalCancelAllLiquidation(a) PROVE CountsInv'
  BY <1>5, LiquidationCounts
<1>6. ASSUME NEW a \in Accounts, NEW base \in 1 .. PositionTiedAmount(a),
             NEW price \in LiquidationPrices, NEW c \in Verdicts,
             InternalLiquidatePosition(a, base, price, c)
      PROVE  CountsInv'
  BY <1>6, InternalLiquidatePositionStep, MatchedCounts
<1> QED
  BY <1>1, <1>2, <1>3, <1>4, <1>5, <1>6 DEF SequencerNext

\* Every instruction taken from the stack.
LEMMA RegisterCounts == ASSUME IInv, CountsInv, RegisterNext PROVE CountsInv'
<1>1. ASSUME NEW c \in Verdicts, InternalClaimOrder(c) PROVE CountsInv'
  BY <1>1, InternalClaimOrderStep, MatchedCounts
<1> QED
  BY <1>1, SingleCancelCounts, CancelOneOfAllCounts, TriggerChildCounts, TransferCounts DEF RegisterNext

\* Every step.
LEMMA NextCounts == ASSUME IInv, CountsInv, [Next]_vars PROVE CountsInv'
<1>1. CASE UserNext
  BY <1>1, UserCounts
<1>2. CASE SequencerNext
  BY <1>2, SequencerCounts
<1>3. CASE RegisterNext
  BY <1>3, RegisterCounts
<1>4. CASE BlockNext \/ UNCHANGED vars
  <2>1. Tx' = Tx /\ setup' = setup
    BY <1>4 DEF BlockNext, Tick, UpdateMarkPrice, vars, Tx
  <2> QED
    BY <2>1, SameTxCounts
<1> QED
  BY <1>1, <1>2, <1>3, <1>4 DEF Next

\* The counters and the orders agree in every state.
LEMMA SpecCounts == Spec => []CountsInv
<1>1. IInv /\ CountsInv /\ [Next]_vars => CountsInv'
  BY NextCounts
<1> QED
  BY <1>1, InitCounts, SpecInv, PTL DEF Spec

(* The counters of a market, of its accounts and of their positions are    *)
(* the numbers of orders there are, whatever the requests and the order of *)
(* the transactions (tx_state.rs, the order counts, which every handler    *)
(* maintains on its own).                                                  *)
THEOREM CountersAreExact == Spec => []CountsMatchOrders
<1>1. IInv /\ CountsInv => CountsMatchOrders
  <2> SUFFICES ASSUME IInv, CountsInv PROVE CountsMatchOrders
    OBVIOUS
  <2>1. /\ Tx.orders = orders /\ Tx.pos = pos /\ Tx.acct = acct /\ Tx.market = market
    BY CountsFacts
  <2>2. Live = LiveIn(orders) /\ \A a : LiveOf(a) = OwnedIn(orders, a)
    BY DEF Live, LiveOf, LiveIn, OwnedIn
  <2>3. \A a : {i \in LiveOf(a) : IsTied(orders[i])} = TiedIn(orders, a)
    BY <2>2 DEF TiedIn
  <2>4. market.total_order_count = Cardinality(Live)
    BY <2>1, <2>2 DEF CountsInv, Counted
  <2>5. ASSUME NEW a \in Accounts
        PROVE  /\ acct[a].total_order_count = Cardinality(LiveOf(a))
               /\ acct[a].total_non_cross_order_count =
                    IF Spot \/ pos[a].isolated THEN Cardinality(LiveOf(a)) ELSE 0
               /\ pos[a].total_order_count = IF Spot THEN 0 ELSE Cardinality(LiveOf(a))
               /\ pos[a].total_position_tied_order_count =
                    IF Spot THEN 0 ELSE Cardinality({i \in LiveOf(a) : IsTied(orders[i])})
    <3>1. AccountCounted(Tx, a)
      BY DEF CountsInv, Counted
    <3> QED
      BY <2>1, <2>2, <2>3, <3>1 DEF AccountCounted
  <2> QED
    BY <2>4, <2>5 DEF CountsMatchOrders
<1> QED
  BY <1>1, SpecInv, SpecCounts, PTL


-----------------------------------------------------------------------------
(* Cancel-alls on the stack.  What one takes, as of the state s.           *)
IsCut(reg) == reg # EmptyRegister /\ reg.type \in CancelAllKinds

CutBy(s, reg) ==
  {i \in OwnedIn(s.orders, reg.account) :
     /\ reg.type = "CANCEL_POSITION_TIED_ACCOUNT_ORDERS" => IsTied(s.orders[i])
     /\ reg.type = "CANCEL_ALL_ISOLATED_MARGIN_ORDERS" => s.pos[reg.account].isolated
     /\ reg.type = "CANCEL_ALL_CROSS_MARGIN_ORDERS" => ~s.pos[reg.account].isolated}

(* What may lie on top of a cancel-all: the integrators' fees, and         *)
(* cancel-alls of other accounts.  Neither takes any of its orders.        *)
MayLieOn(reg, cut) ==
  reg # EmptyRegister => \/ reg.type = "TRANSFER_ASSET"
                         \/ reg.type \in CancelAllKinds /\ reg.account # cut.account

(* The cancel-alls in the registers f, from the top down.                  *)
CutsExact(s, f) ==
  \A k \in DOMAIN f : IsCut(f[k]) =>
    /\ f[k].size = Cardinality(CutBy(s, f[k]))
    /\ \A j \in DOMAIN f : j < k => MayLieOn(f[j], f[k])

NoCuts(f) == \A k \in DOMAIN f : ~IsCut(f[k])

\* The inductive invariant of cancel-alls.
CutsInv == CutsExact(Tx, rs.stack)

Registered(s) ==
  /\ DOMAIN s = TxFields
  /\ DOMAIN s.rs = {"stack", "count"} /\ DOMAIN s.rs.stack = Slots
  /\ DOMAIN s.new = {"slot", "count"} /\ DOMAIN s.new.slot = NewSlots /\ s.new.count \in Int

(* No cancel-all is pending or about to be.                                *)
Calm(s) == Registered(s) /\ NoCuts(s.rs.stack) /\ NoCuts(s.new.slot)

SameStacks(s, t) == DOMAIN t = TxFields /\ t.rs = s.rs /\ t.new = s.new

\* A state is calm or not by its instructions alone.
LEMMA SameStacksCalm ==
  ASSUME NEW s, NEW t, SameStacks(s, t)
  PROVE  /\ Calm(s) => Calm(t)
         /\ Registered(s) => Registered(t)
         /\ \A v : SameStacks(t, v) => SameStacks(s, v)
BY DEF SameStacks, Calm, Registered

\* What has nothing to do with instructions.
LEMMA StacksStay ==
  ASSUME NEW s, DOMAIN s = TxFields
  PROVE  /\ SameStacks(s, s)
         /\ \A condition : SameStacks(s, Assert(s, condition))
         /\ \A flag, o, size : SameStacks(s, Unlock(s, flag, o, size))
         /\ \A flag, o : SameStacks(s, Lock(s, flag, o))
         /\ \A is_ask : SameStacks(s, BumpNonce(s, is_ask))
         /\ \A a, o, n : SameStacks(s, AddToOrderCounts(s, a, o, n))
         /\ \A i : SameStacks(s, RemoveOrder(s, i))
         /\ \A i, o : SameStacks(s, WithOrder(s, i, o))
         /\ \A a, time : SameStacks(s, SwitchSet(s, a, time))
         /\ \A a, n : SameStacks(s, TiedCounted(s, a, n))
         /\ \A o, amount : SameStacks(s, SetPosition(s, o, amount))
<1>1. ASSUME NEW condition PROVE SameStacks(s, Assert(s, condition))
  BY DEF SameStacks, Assert, TxFields
<1>2. ASSUME NEW flag, NEW o, NEW size PROVE SameStacks(s, Unlock(s, flag, o, size))
  <2> DEFINE a == Assert(s, s.locked[o.owner].base >= size)
             b == Assert(s, s.locked[o.owner].quote >= size * o.price)
  <2>1. SameStacks(s, a) /\ SameStacks(s, b)
    BY <1>1
  <2>2. Unlock(s, flag, o, size) =
          IF ~flag THEN s
          ELSE IF o.is_ask THEN [a EXCEPT !.locked[o.owner].base = @ - size]
                           ELSE [b EXCEPT !.locked[o.owner].quote = @ - size * o.price]
    BY DEF Unlock
  <2> HIDE DEF a, b
  <2> QED
    BY <2>1, <2>2 DEF SameStacks, TxFields
<1>3. ASSUME NEW flag, NEW o PROVE SameStacks(s, Lock(s, flag, o))
  BY DEF SameStacks, Lock, TxFields
<1>4. ASSUME NEW is_ask PROVE SameStacks(s, BumpNonce(s, is_ask))
  BY DEF SameStacks, BumpNonce, TxFields
<1>5. ASSUME NEW a, NEW o, NEW n PROVE SameStacks(s, AddToOrderCounts(s, a, o, n))
  BY DEF SameStacks, AddToOrderCounts, TxFields
<1>6. ASSUME NEW i PROVE SameStacks(s, RemoveOrder(s, i))
  BY DEF SameStacks, RemoveOrder, TxFields
<1>7. ASSUME NEW i, NEW o PROVE SameStacks(s, WithOrder(s, i, o))
  BY DEF SameStacks, WithOrder, TxFields
<1>8. ASSUME NEW a, NEW time PROVE SameStacks(s, SwitchSet(s, a, time))
  BY DEF SameStacks, SwitchSet, TxFields
<1>9. ASSUME NEW a, NEW n PROVE SameStacks(s, TiedCounted(s, a, n))
  BY DEF SameStacks, TiedCounted, TxFields
<1>10. ASSUME NEW o, NEW amount PROVE SameStacks(s, SetPosition(s, o, amount))
  BY DEF SameStacks, SetPosition, TxFields
<1>11. SameStacks(s, s)
  BY DEF SameStacks
<1> QED
  BY <1>1, <1>2, <1>3, <1>4, <1>5, <1>6, <1>7, <1>8, <1>9, <1>10, <1>11

\* Orders that come and go.
LEMMA OrdersComeAndGo ==
  ASSUME NEW s, DOMAIN s = TxFields
  PROVE  /\ \A a, o : SameStacks(s, IncrementOrderCount(s, a, o))
         /\ \A a, o : SameStacks(s, DecrementOrderCount(s, a, o))
         /\ \A i : SameStacks(s, CancelOne(s, i))
         /\ \A i : SameStacks(s, Dropped(s, i))
<1>1. ASSUME NEW a, NEW o PROVE SameStacks(s, DecrementOrderCount(s, a, o))
  BY StacksStay DEF DecrementOrderCount
<1>2. ASSUME NEW a, NEW o PROVE SameStacks(s, IncrementOrderCount(s, a, o))
  <2> DEFINE p == [s EXCEPT !.pos[a] = InitIfEmpty(@, a)]
             q == IF Spot THEN s ELSE p
             one == 1
  <2>1. SameStacks(s, q)
    BY DEF SameStacks, TxFields
  <2>2. IncrementOrderCount(s, a, o) = AddToOrderCounts(q, a, o, one)
    BY DEF IncrementOrderCount
  <2> HIDE DEF q, one
  <2>3. SameStacks(q, AddToOrderCounts(q, a, o, one))
    BY <2>1, StacksStay DEF SameStacks
  <2> QED
    BY <2>1, <2>2, <2>3, SameStacksCalm
<1>3. ASSUME NEW i PROVE SameStacks(s, CancelOne(s, i)) /\ SameStacks(s, Dropped(s, i))
  <2> DEFINE o == s.orders[i]
             x == DecrementOrderCount(s, o.owner, o)
             y == Unlock(x, Locks(o), o, o.remaining)
  <2>1. CancelOne(s, i) = RemoveOrder(y, i) /\ Dropped(s, i) = RemoveOrder(x, i)
    BY DEF CancelOne, Dropped
  <2>2. SameStacks(s, x)
    BY <1>1
  <2> HIDE DEF x
  <2>3. SameStacks(s, y) /\ SameStacks(x, RemoveOrder(x, i))
    BY <2>2, StacksStay, SameStacksCalm DEF SameStacks
  <2> HIDE DEF y
  <2>4. SameStacks(y, RemoveOrder(y, i))
    BY <2>3, StacksStay DEF SameStacks
  <2> QED
    BY <2>1, <2>2, <2>3, <2>4, SameStacksCalm
<1> QED
  BY <1>1, <1>2, <1>3

-----------------------------------------------------------------------------
(* Instructions that come and go.                                          *)

\* What the places of the registers are.
LEMMA StackPlaces ==
  /\ Slots = 0 .. 8 /\ NewSlots = 0 .. 7 /\ REGISTER_STACK_SIZE = 9
  /\ ~IsCut(EmptyRegister) /\ "TRANSFER_ASSET" \notin CancelAllKinds
<1>1. Slots = 0 .. 8 /\ NewSlots = 0 .. 7 /\ REGISTER_STACK_SIZE = 9
  BY DEF Slots, NewSlots, NEW_INSTRUCTIONS_MAX_SIZE, REGISTER_STACK_SIZE
<1>2. ~IsCut(EmptyRegister)
  BY DEF IsCut
<1>3. "TRANSFER_ASSET" \notin CancelAllKinds
  BY DEF CancelAllKinds
<1> QED
  BY <1>1, <1>2, <1>3

\* The instruction on top leaves.
LEMMA PoppedStack ==
  ASSUME NEW s, Registered(s), NEW t, t = Popped(s)
  PROVE  /\ Registered(t) /\ t.new = s.new /\ t.orders = s.orders /\ t.pos = s.pos
         /\ \A k \in Slots : t.rs.stack[k] = IF k = 8 THEN EmptyRegister ELSE s.rs.stack[k + 1]
         /\ NoCuts(s.rs.stack) => NoCuts(t.rs.stack)
<1>1. /\ DOMAIN t = TxFields /\ t.rs = PopFront(s.rs) /\ t.new = s.new
      /\ t.orders = s.orders /\ t.pos = s.pos
  <2> DEFINE a == Assert(s, s.rs.count # 0)
  <2>1. DOMAIN a = TxFields /\ a.rs = s.rs /\ a.new = s.new /\ a.orders = s.orders /\ a.pos = s.pos
    BY DEF Assert, Registered, TxFields
  <2>2. t = [a EXCEPT !.rs = PopFront(@)]
    BY DEF Popped, Pop
  <2> HIDE DEF a
  <2> QED
    BY <2>1, <2>2 DEF TxFields
<1>2. /\ DOMAIN t.rs = {"stack", "count"} /\ DOMAIN t.rs.stack = Slots
      /\ \A k \in Slots : t.rs.stack[k] = IF k = 8 THEN EmptyRegister ELSE s.rs.stack[k + 1]
  BY <1>1, StackPlaces DEF PopFront
<1>3. Registered(t)
  BY <1>1, <1>2 DEF Registered
<1>4. ASSUME NoCuts(s.rs.stack), NEW k \in Slots PROVE ~IsCut(t.rs.stack[k])
  <2>1. k # 8 => k + 1 \in Slots
    BY StackPlaces
  <2> QED
    BY <1>2, <1>4, <2>1, StackPlaces DEF NoCuts, Registered
<1> QED
  BY <1>1, <1>2, <1>3, <1>4 DEF NoCuts

\* With it, a calm state stays calm.
LEMMA PoppedCalm ==
  ASSUME NEW s, Calm(s), NEW flag
  PROVE  Calm(Pop(s, flag))
<1>1. CASE flag
  <2>1. Pop(s, flag) = Popped(s)
    BY <1>1 DEF Pop, Popped
  <2>2. Calm(Popped(s))
    BY PoppedStack DEF Calm
  <2> QED
    BY <2>1, <2>2
<1>2. CASE ~flag
  BY <1>2 DEF Pop
<1> QED
  BY <1>1, <1>2

\* An instruction is put aside.
LEMMA PutCalm ==
  ASSUME NEW s, Registered(s), NEW flag, NEW reg, NEW k, NEW t, t = Put(s, flag, reg, k)
  PROVE  /\ Registered(t) /\ t.rs = s.rs /\ t.orders = s.orders /\ t.pos = s.pos
         /\ \A j \in NewSlots : j # k => t.new.slot[j] = s.new.slot[j]
         /\ (flag /\ k \in NewSlots) => t.new.slot[k] = reg
         /\ ~flag => t = s
         /\ (Calm(s) /\ ~IsCut(reg)) => Calm(t)
<1>1. CASE ~flag
  BY <1>1 DEF Put
<1>2. CASE flag
  <2>1. /\ DOMAIN t = TxFields /\ t.rs = s.rs /\ t.orders = s.orders /\ t.pos = s.pos
        /\ t.new = [slot |-> [s.new.slot EXCEPT ![k] = reg], count |-> s.new.count + 1]
    BY <1>2 DEF Put, Registered, TxFields, PutToInstructionStack
  <2>2. /\ DOMAIN t.new = {"slot", "count"} /\ DOMAIN t.new.slot = NewSlots /\ t.new.count \in Int
        /\ \A j \in NewSlots : t.new.slot[j] = IF j = k THEN reg ELSE s.new.slot[j]
    BY <2>1 DEF Registered
  <2>3. Registered(t)
    BY <2>1, <2>2 DEF Registered
  <2> QED
    BY <1>2, <2>1, <2>2, <2>3 DEF Calm, NoCuts, Registered
<1> QED
  BY <1>1, <1>2

\* The places that push_instructions hands out ascend.
LEMMA PlacesAscend ==
  ASSUME NEW slot, NEW i \in NewSlots, NEW h \in NewSlots, PlacedCount(slot, i) < PlacedCount(slot, h)
  PROVE  i < h
<1> SUFFICES ASSUME h <= i PROVE FALSE
  BY StackPlaces
<1> DEFINE F(n) == {k \in 0 .. n - 1 : slot[k] # EmptyRegister}
<1>0. i \in Int /\ h \in Int
  BY StackPlaces
<1>1. IsFiniteSet(0 .. i - 1) /\ F(i) \subseteq 0 .. i - 1
  <2>1. 0 \in Int /\ i - 1 \in Int
    BY <1>0
  <2>2. IsFiniteSet(0 .. i - 1)
    BY <2>1, FS_Interval
  <2> QED
    BY <2>2
<1>2. IsFiniteSet(F(i))
  BY <1>1, FS_Subset
<1>3. F(h) \subseteq F(i)
  BY <1>0
<1>4. Cardinality(F(h)) <= Cardinality(F(i)) /\ Cardinality(F(i)) \in Nat /\ Cardinality(F(h)) \in Nat
  <2> HIDE DEF F
  <2> QED
    BY <1>2, <1>3, FS_Subset, FS_CardinalityType
<1>5. PlacedCount(slot, i) = Cardinality(F(i)) /\ PlacedCount(slot, h) = Cardinality(F(h))
  BY DEF PlacedCount
<1> HIDE DEF F
<1> QED
  BY <1>4, <1>5

-----------------------------------------------------------------------------
(* What was put aside goes on the stack.                                   *)

\* What push_instruction_stack leaves in each register.
LEMMA PushedRegisters ==
  ASSUME NEW s, Registered(s), NEW max \in {3, 8}, NEW t, t = PushInstructionStack(s, max)
  PROVE  /\ Registered(t) /\ t.new = NoNewInstructions
         /\ t.orders = s.orders /\ t.pos = s.pos
         /\ s.new = NoNewInstructions => \A k \in Slots : t.rs.stack[k] = s.rs.stack[k]
         /\ \A k \in Slots : \/ t.rs.stack[k] = EmptyRegister
                             \/ \E j \in Slots : t.rs.stack[k] = s.rs.stack[j]
                             \/ k < PlacedCount(s.new.slot, max) /\ k < max /\ k < s.new.count
         /\ \A k \in Slots : (k < PlacedCount(s.new.slot, max) /\ k < max /\ k < s.new.count) =>
              \E i \in NewSlots : /\ PlacedCount(s.new.slot, i) = k
                                  /\ t.rs.stack[k] = s.new.slot[i]
<1> DEFINE q == PushInstructions(s.rs, s.new, max)
           shift == s.new.count - (IF s.rs.stack[0] = EmptyRegister THEN 1 ELSE 0)
           placed == PlacedCount(s.new.slot, max)
<1>1. /\ DOMAIN t = TxFields /\ t.rs = q /\ t.new = NoNewInstructions
      /\ t.orders = s.orders /\ t.pos = s.pos
  BY DEF PushInstructionStack, Assert, Registered, TxFields
<1>2. /\ DOMAIN q = {"stack", "count"} /\ DOMAIN q.stack = Slots
      /\ \A k \in Slots : q.stack[k] = IF k < s.new.count /\ k < max
                                       THEN NewStack(s.new.slot, max)[k]
                                       ELSE ShiftRight(s.rs, s.new, max)[k]
  BY DEF PushInstructions
<1>3. \A k \in Slots : ShiftRight(s.rs, s.new, max)[k] =
        IF s.new.count # 0 /\ shift \in 1 .. max - 1 /\ k >= shift
        THEN s.rs.stack[k - shift] ELSE s.rs.stack[k]
  BY DEF ShiftRight
<1> HIDE DEF q
<1>4. Registered(t)
  BY <1>1, <1>2 DEF Registered, NoNewInstructions
<1>5. ASSUME s.new = NoNewInstructions, NEW k \in Slots PROVE t.rs.stack[k] = s.rs.stack[k]
  <2>1. s.new.count = 0
    BY <1>5 DEF NoNewInstructions
  <2> HIDE DEF shift
  <2> QED
    BY <1>1, <1>2, <1>3, <2>1, StackPlaces
<1>6. ASSUME NEW k \in Slots PROVE \E j \in Slots : ShiftRight(s.rs, s.new, max)[k] = s.rs.stack[j]
  <2>1. CASE s.new.count # 0 /\ shift \in 1 .. max - 1 /\ k >= shift
    <3>1. ShiftRight(s.rs, s.new, max)[k] = s.rs.stack[k - shift]
      BY <1>3, <2>1
    <3>2. k - shift \in Slots
      <4> HIDE DEF shift
      <4> QED
        BY <2>1, StackPlaces
    <3> QED
      BY <3>1, <3>2
  <2>2. CASE ~(s.new.count # 0 /\ shift \in 1 .. max - 1 /\ k >= shift)
    BY <1>3, <2>2
  <2> QED
    BY <2>1, <2>2
<1>7. ASSUME NEW k \in Slots, k < max
      PROVE  /\ k \in NewSlots
             /\ k < placed \/ NewStack(s.new.slot, max)[k] = EmptyRegister
  <2>1. k \in NewSlots
    BY <1>7, StackPlaces
  <2> QED
    BY <2>1 DEF NewStack
<1>8. ASSUME NEW k \in Slots
      PROVE  \/ t.rs.stack[k] = EmptyRegister
             \/ \E j \in Slots : t.rs.stack[k] = s.rs.stack[j]
             \/ k < placed /\ k < max /\ k < s.new.count
  BY <1>1, <1>2, <1>6, <1>7
<1>9. ASSUME NEW k \in Slots, k < placed, k < max, k < s.new.count
      PROVE  \E i \in NewSlots : PlacedCount(s.new.slot, i) = k /\ t.rs.stack[k] = s.new.slot[i]
  <2>1. k \in NewSlots
    BY <1>7, <1>9
  <2>2. \E i \in NewSlots : PlacedCount(s.new.slot, i) = k /\ NewStack(s.new.slot, max)[k] = s.new.slot[i]
    BY <1>9, <2>1, PlacedInstruction
  <2> QED
    BY <1>1, <1>2, <1>9, <2>2
<1> QED
  BY <1>1, <1>4, <1>5, <1>8, <1>9

\* The cancel-alls depend on the orders and the margin modes, and on nothing else.
LEMMA CutsSame ==
  ASSUME NEW s, NEW t, t.orders = s.orders, t.pos = s.pos, NEW f, CutsExact(s, f)
  PROVE  CutsExact(t, f)
BY DEF CutsExact, CutBy

\* New cancel-alls are as exact on the stack as they were before.
LEMMA PushedCuts ==
  ASSUME NEW s, Registered(s), NEW max \in {3, 8}, NEW t, t = PushInstructionStack(s, max)
  PROVE  /\ (s.new = NoNewInstructions /\ CutsExact(s, s.rs.stack)) => CutsExact(t, t.rs.stack)
         /\ (NoCuts(s.rs.stack) /\ CutsExact(s, s.new.slot)) => CutsExact(t, t.rs.stack)
         /\ Calm(s) => Calm(t)
<1> DEFINE Placed(k) == k < PlacedCount(s.new.slot, max) /\ k < max /\ k < s.new.count
<1>1. /\ Registered(t) /\ t.new = NoNewInstructions /\ t.orders = s.orders /\ t.pos = s.pos
      /\ s.new = NoNewInstructions => \A k \in Slots : t.rs.stack[k] = s.rs.stack[k]
      /\ \A k \in Slots : \/ t.rs.stack[k] = EmptyRegister
                          \/ \E j \in Slots : t.rs.stack[k] = s.rs.stack[j]
                          \/ Placed(k)
      /\ \A k \in Slots : Placed(k) => \E i \in NewSlots : /\ PlacedCount(s.new.slot, i) = k
                                                          /\ t.rs.stack[k] = s.new.slot[i]
  BY PushedRegisters
<1>2. DOMAIN t.rs.stack = Slots /\ DOMAIN s.rs.stack = Slots /\ DOMAIN s.new.slot = NewSlots
  BY <1>1 DEF Registered
<1>3. \A j, k \in Slots : (Placed(k) /\ j < k) => Placed(j)
  <2> SUFFICES ASSUME NEW j \in Slots, NEW k \in Slots, Placed(k), j < k PROVE Placed(j)
    OBVIOUS
  <2>1. j \in Int /\ k \in Int /\ PlacedCount(s.new.slot, max) \in Int /\ s.new.count \in Int
    BY StackPlaces, PlacedBounds DEF Registered
  <2> QED
    BY <2>1
<1>4. ASSUME s.new = NoNewInstructions, CutsExact(s, s.rs.stack) PROVE CutsExact(t, t.rs.stack)
  <2>1. CutsExact(s, t.rs.stack)
    BY <1>1, <1>2, <1>4 DEF CutsExact
  <2> QED
    BY <1>1, <2>1, CutsSame
<1>5. ASSUME NoCuts(s.rs.stack), CutsExact(s, s.new.slot) PROVE CutsExact(t, t.rs.stack)
  <2>1. ASSUME NEW k \in Slots, IsCut(t.rs.stack[k])
        PROVE  /\ t.rs.stack[k].size = Cardinality(CutBy(s, t.rs.stack[k]))
               /\ \A j \in Slots : j < k => MayLieOn(t.rs.stack[j], t.rs.stack[k])
    <3>1. Placed(k)
      BY <1>1, <1>2, <1>5, <2>1, StackPlaces DEF NoCuts
    <3>2. PICK h \in NewSlots : PlacedCount(s.new.slot, h) = k /\ t.rs.stack[k] = s.new.slot[h]
      BY <1>1, <3>1
    <3>3. t.rs.stack[k].size = Cardinality(CutBy(s, t.rs.stack[k]))
      BY <1>2, <1>5, <2>1, <3>2 DEF CutsExact
    <3>4. ASSUME NEW j \in Slots, j < k PROVE MayLieOn(t.rs.stack[j], t.rs.stack[k])
      <4>1. Placed(j)
        BY <1>3, <3>1, <3>4
      <4>2. PICK i \in NewSlots : PlacedCount(s.new.slot, i) = j /\ t.rs.stack[j] = s.new.slot[i]
        BY <1>1, <4>1
      <4>3. i < h
        BY <3>2, <3>4, <4>2, PlacesAscend
      <4> QED
        BY <1>2, <1>5, <2>1, <3>2, <4>2, <4>3 DEF CutsExact
    <3> QED
      BY <3>3, <3>4
  <2>2. CutsExact(s, t.rs.stack)
    BY <1>2, <2>1 DEF CutsExact
  <2> QED
    BY <1>1, <2>2, CutsSame
<1>6. ASSUME Calm(s) PROVE Calm(t)
  <2>1. NoCuts(t.rs.stack)
    <3> SUFFICES ASSUME NEW k \in Slots PROVE ~IsCut(t.rs.stack[k])
      BY <1>2 DEF NoCuts
    <3>1. CASE Placed(k)
      BY <1>1, <1>2, <1>6, <3>1 DEF Calm, NoCuts
    <3>2. CASE ~Placed(k)
      BY <1>1, <1>2, <1>6, <3>2, StackPlaces DEF Calm, NoCuts
    <3> QED
      BY <3>1, <3>2
  <2>2. NoCuts(t.new.slot)
    <3>1. t.new = NoNewInstructions
      BY <1>1
    <3>2. t.new.slot = [i \in NewSlots |-> EmptyRegister]
      BY <3>1 DEF NoNewInstructions
    <3> QED
      BY <3>2, StackPlaces DEF NoCuts
  <2> QED
    BY <1>1, <2>1, <2>2 DEF Calm
<1> QED
  BY <1>4, <1>5, <1>6

(* The end of a transaction that puts exact cancel-alls aside, or that     *)
(* leaves those on the stack exact.                                        *)
EndsExact(s) ==
  /\ Registered(s)
  /\ \/ s.new = NoNewInstructions /\ CutsExact(s, s.rs.stack)
     \/ NoCuts(s.rs.stack) /\ CutsExact(s, s.new.slot)

\* No cancel-all is exact for want of one.
LEMMA CalmIsExact ==
  ASSUME NEW s, Calm(s)
  PROVE  NoCuts(s.rs.stack) /\ CutsExact(s, s.new.slot) /\ CutsExact(s, s.rs.stack) /\ EndsExact(s)
BY DEF Calm, NoCuts, CutsExact, EndsExact

\* What was put aside is pushed, once.
LEMMA EndsOnce ==
  ASSUME NEW s, EndsExact(s), NEW max \in {3, 8}, NEW t, t = PushInstructionStack(s, max)
  PROVE  EndsExact(t) /\ t.new = NoNewInstructions /\ CutsExact(t, t.rs.stack)
BY PushedCuts, PushedRegisters DEF EndsExact

\* A transaction ends.
LEMMA BecomeCuts ==
  ASSUME NEW s, EndsExact(s), Become(s)
  PROVE  CutsInv'
<1> DEFINE t == Done(s)
           eight == 8
           q == Tx'
<1>1. rs' = t.rs /\ pos' = t.pos /\ orders' = t.orders /\ setup' = setup
  BY DEF Become
<1>2. t = PushInstructionStack(s, eight) /\ eight \in {3, 8}
  BY DEF Done
<1> HIDE DEF t, eight
<1>3. CutsExact(t, t.rs.stack)
  BY <1>2, EndsOnce
<1>4. q.pos = t.pos /\ q.orders = t.orders /\ rs' = t.rs
  BY <1>1 DEF Tx
<1> HIDE DEF q
<1>5. CutsExact(q, t.rs.stack)
  BY <1>3, <1>4, CutsSame
<1>6. Nonces' = Nonces
  BY <1>1 DEF Nonces, FIRST_ASK_NONCE, FIRST_BID_NONCE, MaxNonce
<1> QED
  BY <1>4, <1>5, <1>6, ZenonT(60) DEF CutsInv, CutsExact, CutBy, OwnedIn, LiveIn, q

\* A transaction that does not match ends.
LEMMA ApplyCuts ==
  ASSUME NEW s, EndsExact(s), Become(Apply(s))
  PROVE  CutsInv'
<1> DEFINE three == 3
           t == PushInstructionStack(s, three)
<1>1. Become(t) /\ three \in {3, 8}
  BY DEF Apply
<1>2. EndsExact(t)
  <2> HIDE DEF three
  <2> QED
    BY <1>1, EndsOnce
<1> HIDE DEF t
<1> QED
  BY <1>1, <1>2, BecomeCuts

-----------------------------------------------------------------------------
(* The state in which a transaction begins.                                *)

\* Nothing is put aside, and the cancel-alls on the stack are exact.
LEMMA TxCuts ==
  ASSUME IInv, CutsInv
  PROVE  /\ Registered(Tx) /\ Tx.new = NoNewInstructions /\ NoCuts(Tx.new.slot)
         /\ CutsExact(Tx, Tx.rs.stack) /\ Tx.rs = rs
<1>1. Tx.rs = rs /\ Tx.new = NoNewInstructions /\ DOMAIN Tx = TxFields
  BY DEF Tx, TxFields
<1>2. DOMAIN rs = {"stack", "count"} /\ DOMAIN rs.stack = Slots
  BY TxFacts DEF IInv, StateInv, TreesInv, StackInv
<1>3. /\ DOMAIN NoNewInstructions = {"slot", "count"} /\ DOMAIN NoNewInstructions.slot = NewSlots
      /\ NoNewInstructions.count \in Int
      /\ \A k \in NewSlots : NoNewInstructions.slot[k] = EmptyRegister
  BY DEF NoNewInstructions
<1>4. NoCuts(NoNewInstructions.slot)
  BY <1>3, StackPlaces DEF NoCuts
<1> QED
  BY <1>1, <1>2, <1>3, <1>4 DEF Registered, CutsInv

\* What neither may lie on a cancel-all nor is one.
Keeps(reg) == reg # EmptyRegister /\ reg.type \notin CancelAllKinds \cup {"TRANSFER_ASSET"}

\* Below any other instruction there is no cancel-all, and of course none in an empty stack.
LEMMA CalmTx ==
  ASSUME IInv, CutsInv, IsEmpty(rs) \/ Keeps(Top(Tx))
  PROVE  Calm(Tx)
<1>1. /\ Registered(Tx) /\ NoCuts(Tx.new.slot) /\ CutsExact(Tx, Tx.rs.stack) /\ Tx.rs = rs
  BY TxCuts
<1>2. CASE IsEmpty(rs)
  BY <1>1, <1>2, StackPlaces DEF IsEmpty, Calm, NoCuts, Registered
<1>3. CASE Keeps(Top(Tx))
  <2> SUFFICES ASSUME NEW k \in Slots, IsCut(rs.stack[k]) PROVE FALSE
    BY <1>1 DEF Calm, NoCuts, Registered
  <2>1. k # 0
    BY <1>1, <1>3 DEF Keeps, Top, IsCut
  <2>2. 0 \in Slots /\ 0 < k
    BY <2>1, StackPlaces
  <2>3. MayLieOn(rs.stack[0], rs.stack[k])
    BY <1>1, <2>2 DEF CutsExact, Registered
  <2> QED
    BY <1>1, <1>3, <2>3 DEF MayLieOn, Keeps, Top
<1> QED
  BY <1>2, <1>3

\* Children are cancelled and triggered one by one, not by a cancel-all.
LEMMA ChildrenCalm ==
  ASSUME NEW s, Registered(s), NEW flag, NEW o, NEW size, NEW max \in Int,
         NEW type \in {"TRIGGER_CHILD_ORDER", "CANCEL_SINGLE_ACCOUNT_ORDER"},
         NEW t, t = ForChildren(s, flag, type, o, size, max)
  PROVE  /\ Registered(t) /\ t.rs = s.rs /\ t.orders = s.orders /\ t.pos = s.pos
         /\ \A j \in NewSlots : j < max - 1 => t.new.slot[j] = s.new.slot[j]
         /\ Calm(s) => Calm(t)
<1> DEFINE a == Instruction(type, o.owner, size, o.child0)
           b == Instruction(type, o.owner, size, o.child1)
           f == flag /\ o.child0 # NIL
           g == flag /\ o.child1 # NIL
           less == max - 1
           x == Put(s, f, a, max)
<1>1. ~IsCut(a) /\ ~IsCut(b)
  BY DEF Instruction, IsCut, CancelAllKinds
<1>2. t = Put(x, g, b, less)
  BY DEF ForChildren
<1> HIDE DEF a, b, f, g
<1>3. /\ Registered(x) /\ x.rs = s.rs /\ x.orders = s.orders /\ x.pos = s.pos
      /\ \A j \in NewSlots : j # max => x.new.slot[j] = s.new.slot[j]
      /\ Calm(s) => Calm(x)
  BY <1>1, PutCalm
<1> HIDE DEF x, less
<1>4. /\ Registered(t) /\ t.rs = x.rs /\ t.orders = x.orders /\ t.pos = x.pos
      /\ \A j \in NewSlots : j # less => t.new.slot[j] = x.new.slot[j]
      /\ Calm(x) => Calm(t)
  BY <1>1, <1>2, <1>3, PutCalm
<1>5. \A j \in NewSlots : j < max - 1 => j # max /\ j # less
  BY StackPlaces DEF less
<1> QED
  BY <1>3, <1>4, <1>5

\* Only instructions for children are put aside, in the slots max - 1 and max.
ChildrenAside(s, t, max) ==
  /\ Registered(t) /\ t.rs = s.rs /\ t.orders = s.orders /\ t.pos = s.pos
  /\ \A j \in NewSlots : j < max - 1 => t.new.slot[j] = s.new.slot[j]
  /\ Calm(s) => Calm(t)

\* The children of an order, all cancelled or all triggered.
LEMMA AllChildrenCalm ==
  ASSUME NEW s, Registered(s), NEW flag, NEW o, NEW max \in Int
  PROVE  /\ ChildrenAside(s, CancelChildOrders(s, flag, o, max), max)
         /\ \A size : ChildrenAside(s, TriggerChildOrders(s, flag, o, size, max), max)
<1>1. ChildrenAside(s, CancelChildOrders(s, flag, o, max), max)
  <2> DEFINE type == "CANCEL_SINGLE_ACCOUNT_ORDER"
             zero == 0
             t == CancelChildOrders(s, flag, o, max)
  <2>1. t = ForChildren(s, flag, type, o, zero, max)
    BY DEF CancelChildOrders
  <2>2. type \in {"TRIGGER_CHILD_ORDER", "CANCEL_SINGLE_ACCOUNT_ORDER"}
    OBVIOUS
  <2> HIDE DEF type, zero, t
  <2>3. ChildrenAside(s, t, max)
    BY <2>1, <2>2, ChildrenCalm DEF ChildrenAside
  <2> QED
    BY <2>3 DEF t
<1>2. ASSUME NEW size PROVE ChildrenAside(s, TriggerChildOrders(s, flag, o, size, max), max)
  <2> DEFINE type == "TRIGGER_CHILD_ORDER"
             t == TriggerChildOrders(s, flag, o, size, max)
  <2>1. t = ForChildren(s, flag, type, o, size, max)
    BY DEF TriggerChildOrders
  <2>2. type \in {"TRIGGER_CHILD_ORDER", "CANCEL_SINGLE_ACCOUNT_ORDER"}
    OBVIOUS
  <2> HIDE DEF type, t
  <2>3. ChildrenAside(s, t, max)
    BY <2>1, <2>2, ChildrenCalm DEF ChildrenAside
  <2> QED
    BY <2>3 DEF t
<1> QED
  BY <1>1, <1>2

\* Order instructions are not cancel-alls.
LEMMA OthersAreNoCuts ==
  /\ \A o, i : ~IsCut(InsertOrder(o, i))
  /\ \A a, size, i : ~IsCut(Instruction("CANCEL_SINGLE_ACCOUNT_ORDER", a, size, i))
  /\ \A a, size, i : ~IsCut(Instruction("TRANSFER_ASSET", a, size, i))
<1>1. ASSUME NEW o, NEW i PROVE ~IsCut(InsertOrder(o, i))
  BY DEF InsertOrder, Instruction, IsCut, CancelAllKinds
<1>2. ASSUME NEW a, NEW size, NEW i PROVE ~IsCut(Instruction("CANCEL_SINGLE_ACCOUNT_ORDER", a, size, i))
  BY DEF Instruction, IsCut, CancelAllKinds
<1>3. ASSUME NEW a, NEW size, NEW i PROVE ~IsCut(Instruction("TRANSFER_ASSET", a, size, i))
  BY DEF Instruction, IsCut, CancelAllKinds
<1> QED
  BY <1>1, <1>2, <1>3

-----------------------------------------------------------------------------
(* The handlers that push no cancel-all.                                   *)

\* An order cancelled with its children.
LEMMA CancelFollowedCuts ==
  ASSUME IInv, CutsInv, NEW i, IsEmpty(rs),
         Become(Apply(CancelChildOrders(CancelOne(Tx, i), TRUE, orders[i], 1)))
  PROVE  CutsInv'
<1> DEFINE one == 1
           s == CancelOne(Tx, i)
           t == CancelChildOrders(s, TRUE, orders[i], one)
<1>0. one \in Int
  OBVIOUS
<1>1. Become(Apply(t))
  OBVIOUS
<1>2. Calm(s)
  <2>1. Calm(Tx)
    BY CalmTx
  <2> QED
    BY <2>1, OrdersComeAndGo, SameStacksCalm DEF Calm, Registered
<1> HIDE DEF one, s
<1>3. Calm(t)
  <2>1. Registered(s)
    BY <1>2 DEF Calm
  <2> QED
    BY <1>0, <1>2, <2>1, AllChildrenCalm DEF ChildrenAside
<1> HIDE DEF t
<1> QED
  BY <1>1, <1>3, CalmIsExact, ApplyCuts

\* The cancellation on top of the stack.
LEMMA SingleCancelCuts ==
  ASSUME IInv, CutsInv, InternalCancelSingleOrder
  PROVE  CutsInv'
<1> DEFINE reg == Top(Tx)
           i == reg.index
           s == Pop(Tx, TRUE)
           condition == orders[i].owner = reg.account /\ orders[i].child0 = NIL /\ orders[i].child1 = NIL
           x == Assert(s, condition)
           t == CancelOne(x, i)
           r == IF orders[i] = NoOrder THEN s ELSE t
<1>1. Keeps(Top(Tx)) /\ Become(Apply(r))
  BY DEF InternalCancelSingleOrder, TopIs, SingleCancelled, Keeps, CancelAllKinds
<1>2. Calm(Tx)
  BY <1>1, CalmTx
<1> HIDE DEF condition, reg, i
<1>3. Calm(s)
  BY <1>2, PoppedCalm
<1> HIDE DEF s
<1>4. Calm(x)
  BY <1>3, StacksStay, SameStacksCalm DEF Calm, Registered
<1> HIDE DEF x
<1>5. Calm(t)
  BY <1>4, OrdersComeAndGo, SameStacksCalm DEF Calm, Registered
<1> HIDE DEF t
<1>6. Calm(r)
  BY <1>3, <1>5
<1> HIDE DEF r
<1> QED
  BY <1>1, <1>6, CalmIsExact, ApplyCuts

\* The activation of a child order on top of the stack.
LEMMA TriggerChildCuts ==
  ASSUME IInv, CutsInv, InternalTriggerChildOrder
  PROVE  CutsInv'
<1> DEFINE reg == Top(Tx)
           i == reg.index
           o == orders[i]
           p == Pop(Tx, TRUE)
           condition == /\ ~BookFull(Tx) /\ ~Spot
                        /\ o # NoOrder => o.owner = reg.account /\ o.trigger_status = "PARENT_ORDER"
           s == Assert(p, condition)
           m == B2N(o.reduce_only)
           active == ChildActive(o, reg.size)
           x == WithOrder(s, i, active)
           t == TiedCounted(x, o.owner, m)
           r == IF o = NoOrder THEN s ELSE IF MustCancel(o) THEN Dropped(s, i) ELSE t
<1>1. Keeps(Top(Tx)) /\ Become(Apply(r))
  <2>1. reg # EmptyRegister /\ reg.type = "TRIGGER_CHILD_ORDER" /\ Become(ChildTriggered)
    BY DEF InternalTriggerChildOrder, TopIs
  <2>2. t = [s EXCEPT !.orders[i] = active,
                      !.pos[o.owner].total_position_tied_order_count = @ + m]
    BY DEF TiedCounted, WithOrder
  <2> HIDE DEF t
  <2>3. ChildTriggered = Apply(r)
    BY Zenon, <2>2 DEF ChildTriggered, ChildActive
  <2> QED
    BY <2>1, <2>3 DEF Keeps, CancelAllKinds
<1>2. Calm(Tx)
  BY <1>1, CalmTx
<1> HIDE DEF condition, reg, i, m, active
<1>3. Calm(p)
  BY <1>2, PoppedCalm
<1> HIDE DEF p
<1>4. Calm(s)
  BY <1>3, StacksStay, SameStacksCalm DEF Calm, Registered
<1> HIDE DEF s
<1>5. Calm(x) /\ Calm(Dropped(s, i))
  BY <1>4, StacksStay, OrdersComeAndGo, SameStacksCalm DEF Calm, Registered
<1> HIDE DEF x
<1>6. Calm(t)
  BY <1>5, StacksStay, SameStacksCalm DEF Calm, Registered
<1> HIDE DEF t
<1>7. Calm(r)
  BY <1>4, <1>5, <1>6
<1> HIDE DEF r
<1> QED
  BY <1>1, <1>7, CalmIsExact, ApplyCuts

\* What keeps a state calm: the operators that leave the instructions alone, ...
LEMMA CalmSteps ==
  ASSUME NEW s, Calm(s)
  PROVE  /\ \A condition : Calm(Assert(s, condition))
         /\ \A flag, o, size : Calm(Unlock(s, flag, o, size))
         /\ \A flag, o : Calm(Lock(s, flag, o))
         /\ \A is_ask : Calm(BumpNonce(s, is_ask))
         /\ \A a, o : Calm(IncrementOrderCount(s, a, o))
         /\ \A a, o : Calm(DecrementOrderCount(s, a, o))
         /\ \A i : Calm(RemoveOrder(s, i))
         /\ \A i, o : Calm(WithOrder(s, i, o))
         /\ \A i : Calm(CancelOne(s, i))
         /\ \A i : Calm(Dropped(s, i))
         /\ \A a, time : Calm(SwitchSet(s, a, time))
         /\ \A o, amount : Calm(SetPosition(s, o, amount))
<1>1. DOMAIN s = TxFields
  BY DEF Calm, Registered
<1>2. \A t : SameStacks(s, t) => Calm(t)
  BY SameStacksCalm
<1> QED
  BY <1>1, <1>2, StacksStay, OrdersComeAndGo

\* ... and those that put aside anything but a cancel-all.
LEMMA CalmPuts ==
  ASSUME NEW s, Calm(s), NEW k
  PROVE  /\ \A flag, o, i : Calm(Put(s, flag, InsertOrder(o, i), k))
         /\ \A flag, a, size, i : Calm(Put(s, flag, Instruction("CANCEL_SINGLE_ACCOUNT_ORDER", a, size, i), k))
<1>1. \A flag, reg : ~IsCut(reg) => Calm(Put(s, flag, reg, k))
  BY PutCalm DEF Calm
<1> QED
  BY <1>1, OthersAreNoCuts

\* An order that waits for its price, or for its slices, is created.
LEMMA CreateCuts ==
  ASSUME IInv, CutsInv, NEW a, NEW f, NEW c, L2CreateOrder(a, f, c), Matched => CutsInv',
         Matched \/ OfStatus(f) # "NA"
  PROVE  CutsInv'
<1> DEFINE conditional == f.type \in ConditionalTypes
           status == IF f.type = "TWAP" THEN "TWAP" ELSE IF conditional THEN "MARK_PRICE" ELSE "NA"
           base  == IF f.base = 0 /\ ~conditional THEN PositionTiedAmount(a) ELSE f.base
           index == NextNonce(Tx, f.is_ask)
           s     == BumpNonce(Tx, f.is_ask)
           o     == NewOrder(a, f, base, IF status = "NA" THEN index ELSE NIL, status)
           x     == WithOrder(s, index, o)
           t     == IncrementOrderCount(x, a, o)
<1>1. IsEmpty(rs) /\ (status # "NA" => Become(Apply(t)))
  BY DEF L2CreateOrder, UserTransaction, WithOrder
<1>2. status = OfStatus(f)
  BY DEF OfStatus
<1> HIDE DEF conditional, status, base, index, o
<1>3. Calm(s)
  BY <1>1, CalmTx, CalmSteps
<1> HIDE DEF s
<1>4. Calm(x)
  BY <1>3, CalmSteps
<1> HIDE DEF x
<1>5. Calm(t)
  BY <1>4, CalmSteps
<1> HIDE DEF t
<1> QED
  BY <1>1, <1>2, <1>5, CalmIsExact, ApplyCuts

\* A slice is cut from an order.
LEMMA SliceCuts ==
  ASSUME IInv, CutsInv, NEW i, NEW base, NEW price, InternalCreateTwapSlice(i, base, price)
  PROVE  CutsInv'
<1> DEFINE o == orders[i]
           y == BumpNonce(Tx, o.is_ask)
           n == NextNonce(Tx, o.is_ask)
           x == [y EXCEPT !.orders[i].remaining = @ - base]
           slice == SliceOf(o, base, price, n)
           s == Put(x, TRUE, InsertOrder(slice, n), 0)
           r == IF MustCancel(o) THEN Dropped(Tx, i) ELSE IF base = o.remaining THEN Dropped(s, i) ELSE s
<1>1. IsEmpty(rs) /\ Become(Apply(r))
  BY Zenon DEF InternalCreateTwapSlice, SliceOf
<1>2. Calm(Tx)
  BY <1>1, CalmTx
<1>3. Calm(y)
  BY <1>2, CalmSteps
<1> HIDE DEF y
<1>4. Calm(x)
  <2>1. SameStacks(y, x)
    BY <1>3 DEF SameStacks, Calm, Registered, TxFields
  <2> QED
    BY <1>3, <2>1, SameStacksCalm
<1> HIDE DEF x, n, slice
<1>5. Calm(s)
  BY <1>4, CalmPuts
<1> HIDE DEF s
<1>6. Calm(r)
  BY <1>2, <1>5, CalmSteps
<1> HIDE DEF r
<1> QED
  BY <1>1, <1>6, CalmIsExact, ApplyCuts

\* An order whose price is met leaves, to be inserted by an instruction.
LEMMA TriggerCuts ==
  ASSUME IInv, CutsInv, NEW i, InternalTriggerOrder(i)
  PROVE  CutsInv'
<1> DEFINE o == orders[i]
           base == IF o.remaining = 0 THEN PositionTiedAmount(o.owner) ELSE o.remaining
           y == BumpNonce(Tx, o.is_ask)
           active == [o EXCEPT !.nonce = NextNonce(Tx, o.is_ask), !.initial = base,
                               !.remaining = base, !.trigger_status = "NA"]
           s == Put(y, TRUE, InsertOrder(active, i), 1)
           t == Dropped(s, i)
           flag == o.cancel0 # NIL
           p == Put(t, flag, Instruction("CANCEL_SINGLE_ACCOUNT_ORDER", o.owner, 0, o.cancel0), 0)
           r == IF MustCancel(o) THEN Dropped(Tx, i) ELSE p
<1>1. IsEmpty(rs) /\ Become(Apply(r))
  BY Zenon DEF InternalTriggerOrder
<1>2. Calm(Tx)
  BY <1>1, CalmTx
<1> HIDE DEF base, active, flag
<1>3. Calm(y)
  BY <1>2, CalmSteps
<1> HIDE DEF y
<1>4. Calm(s)
  BY <1>3, CalmPuts
<1> HIDE DEF s
<1>5. Calm(t) /\ Calm(Dropped(Tx, i))
  BY <1>2, <1>4, CalmSteps
<1> HIDE DEF t
<1>6. Calm(p)
  BY <1>5, CalmPuts
<1> HIDE DEF p
<1>7. Calm(r)
  BY <1>5, <1>6
<1> HIDE DEF r
<1> QED
  BY <1>1, <1>7, CalmIsExact, ApplyCuts

\* An order is changed: it is done, it leaves to be inserted again, or it stays.
LEMMA ModifyCuts ==
  ASSUME IInv, CutsInv, NEW i, NEW q, L2ModifyOrder(i, q)
  PROVE  CutsInv'
<1> DEFINE o == orders[i]
           flag == ModifyUnlocks(o)
           matched == o.initial - o.remaining
           filled == q.base # 0 /\ q.base <= matched
           changed == [o EXCEPT !.price = q.price, !.trigger_price = q.trigger_price,
                                !.initial = IF q.base = 0 THEN @ ELSE q.base,
                                !.remaining = IF q.base = 0 THEN @ ELSE q.base - matched,
                                !.stp = q.stp, !.by_master = q.by_master,
                                !.integrator = q.integrator]
           s1 == DecrementOrderCount(Tx, o.owner, o)
           s2 == Unlock(s1, flag, o, o.remaining)
           gone == RemoveOrder(s2, i)
           again == [changed EXCEPT !.nonce = NextNonce(Tx, o.is_ask)]
           one == 1
           y == BumpNonce(gone, o.is_ask)
           s == Put(y, TRUE, InsertOrder(again, i), 0)
           kids == TriggerChildOrders(gone, TRUE, o, matched, one)
           here == WithOrder(Tx, i, changed)
           r == IF filled THEN kids ELSE IF o.trigger_status = "NA" THEN s ELSE here
<1>1. IsEmpty(rs) /\ Become(Apply(r))
  <2>1. here = [Tx EXCEPT !.orders[i] = changed]
    BY DEF WithOrder
  <2> HIDE DEF here
  <2> QED
    BY Zenon, <2>1 DEF L2ModifyOrder, UserTransaction
<1>2. Calm(Tx)
  BY <1>1, CalmTx
<1>3. one \in Int
  OBVIOUS
<1> HIDE DEF o, flag, matched, filled, changed, again, one
<1>4. Calm(s1) /\ Calm(here)
  BY <1>2, CalmSteps
<1> HIDE DEF s1, here
<1>5. Calm(s2)
  BY <1>4, CalmSteps
<1> HIDE DEF s2
<1>6. Calm(gone)
  BY <1>5, CalmSteps
<1> HIDE DEF gone
<1>7. Calm(y) /\ Calm(kids)
  <2>1. Registered(gone)
    BY <1>6 DEF Calm
  <2> QED
    BY <1>3, <1>6, <2>1, CalmSteps, AllChildrenCalm DEF ChildrenAside
<1> HIDE DEF y, kids
<1>8. Calm(s)
  BY <1>7, CalmPuts
<1> HIDE DEF s
<1>9. Calm(r)
  BY <1>4, <1>7, <1>8
<1> HIDE DEF r
<1> QED
  BY <1>1, <1>9, CalmIsExact, ApplyCuts

\* A change of leverage, and of margin mode where no order is open.
LEMMA LeverageCuts ==
  ASSUME IInv, CutsInv, NEW a, NEW isolated, L2UpdateLeverage(a, isolated)
  PROVE  CutsInv'
<1> DEFINE t == [Tx EXCEPT !.pos[a].isolated = isolated, !.pos[a].margin_set = TRUE]
<1>1. IsEmpty(rs) /\ Become(t)
  BY DEF L2UpdateLeverage, UserTransaction
<1>2. Calm(Tx)
  BY <1>1, CalmTx
<1>3. SameStacks(Tx, t)
  BY <1>2 DEF SameStacks, Calm, Registered, TxFields
<1> HIDE DEF t
<1>4. Calm(t)
  BY <1>2, <1>3, SameStacksCalm
<1> QED
  BY <1>1, <1>4, CalmIsExact, BecomeCuts

-----------------------------------------------------------------------------
(* The stack with cancel-alls on it.                                       *)

(* The cancel-alls below the top of the stack f.                           *)
BelowExact(s, f) ==
  \A k \in DOMAIN f : (k # 0 /\ IsCut(f[k])) =>
    /\ f[k].size = Cardinality(CutBy(s, f[k]))
    /\ \A j \in DOMAIN f : j < k => MayLieOn(f[j], f[k])

\* What is below the top is as exact without it.
LEMMA PoppedCuts ==
  ASSUME NEW s, Registered(s), NEW v, BelowExact(v, s.rs.stack), NEW t, t = Popped(s)
  PROVE  CutsExact(v, t.rs.stack)
<1>1. Registered(t) /\ \A k \in Slots : t.rs.stack[k] = IF k = 8 THEN EmptyRegister ELSE s.rs.stack[k + 1]
  BY PoppedStack
<1>2. DOMAIN t.rs.stack = Slots /\ DOMAIN s.rs.stack = Slots
  BY <1>1 DEF Registered
<1>3. ASSUME NEW k \in Slots, IsCut(t.rs.stack[k])
      PROVE  /\ t.rs.stack[k].size = Cardinality(CutBy(v, t.rs.stack[k]))
             /\ \A j \in Slots : j < k => MayLieOn(t.rs.stack[j], t.rs.stack[k])
  <2>1. k # 8 /\ t.rs.stack[k] = s.rs.stack[k + 1]
    BY <1>1, <1>3, StackPlaces
  <2>2. k + 1 \in Slots /\ k + 1 # 0
    BY <2>1, StackPlaces
  <2>3. ASSUME NEW j \in Slots, j < k PROVE MayLieOn(t.rs.stack[j], t.rs.stack[k])
    <3>1. j # 8 /\ j + 1 \in Slots /\ j + 1 < k + 1
      BY <2>1, <2>3, StackPlaces
    <3>2. t.rs.stack[j] = s.rs.stack[j + 1]
      BY <1>1, <3>1
    <3> QED
      BY <1>2, <1>3, <2>1, <2>2, <3>1, <3>2 DEF BelowExact
  <2> QED
    BY <1>2, <1>3, <2>1, <2>2, <2>3 DEF BelowExact
<1> QED
  BY <1>2, <1>3 DEF CutsExact

\* A transfer on top of the stack.
LEMMA TransferCuts ==
  ASSUME IInv, CutsInv, InternalTransfer
  PROVE  CutsInv'
<1> DEFINE t == Popped(Tx)
<1>1. Become(Apply(t))
  BY DEF InternalTransfer, Pop, Popped
<1>2. Registered(Tx) /\ Tx.new = NoNewInstructions /\ CutsExact(Tx, Tx.rs.stack)
  BY TxCuts
<1>3. CutsExact(t, t.rs.stack)
  <2>1. CutsExact(Tx, t.rs.stack)
    BY <1>2, PoppedCuts DEF CutsExact, BelowExact
  <2> QED
    BY <1>2, <2>1, PoppedStack, CutsSame
<1>4. Registered(t) /\ t.new = NoNewInstructions
  BY <1>2, PoppedStack
<1> HIDE DEF t
<1> QED
  BY <1>1, <1>3, <1>4, ApplyCuts DEF EndsExact

(* One order i of s less; the margin modes stay.                           *)
OneLess(s, t, i) ==
  /\ setup.max_nonce \in Nat /\ i \in Nonces /\ s.orders[i] # NoOrder /\ s.orders \in OrderRows
  /\ t.orders = [s.orders EXCEPT ![i] = NoOrder]
  /\ \A a \in Accounts : t.pos[a].isolated = s.pos[a].isolated

\* It is taken from the cancel-alls of its account only.
LEMMA CutOneLess ==
  ASSUME NEW s, NEW t, NEW i, OneLess(s, t, i), NEW reg
  PROVE  /\ CutBy(t, reg) = CutBy(s, reg) \ {i}
         /\ i \in CutBy(s, reg) => Cardinality(CutBy(t, reg)) = Cardinality(CutBy(s, reg)) - 1
         /\ reg.account # s.orders[i].owner => CutBy(t, reg) = CutBy(s, reg)
<1>1. /\ setup.max_nonce \in Nat /\ i \in Nonces /\ s.orders[i] # NoOrder /\ s.orders \in OrderRows
      /\ t.orders = [s.orders EXCEPT ![i] = NoOrder]
      /\ \A a \in Accounts : t.pos[a].isolated = s.pos[a].isolated
  BY DEF OneLess
<1>2. t.orders[i] = NoOrder /\ \A j \in Nonces : j # i => t.orders[j] = s.orders[j]
  BY <1>1 DEF OrderRows
<1>3. OwnedIn(t.orders, reg.account) = OwnedIn(s.orders, reg.account) \ {i}
  BY <1>2 DEF OwnedIn, LiveIn
<1>4. \A j \in OwnedIn(s.orders, reg.account) : reg.account \in Accounts
  BY <1>1, EmptyAssumption DEF OwnedIn, LiveIn, OrderRows, OrderRecords
<1>5. \A j \in OwnedIn(t.orders, reg.account) : t.orders[j] = s.orders[j]
  BY <1>2, <1>3 DEF OwnedIn, LiveIn
<1>6. CutBy(t, reg) = CutBy(s, reg) \ {i}
  BY <1>1, <1>3, <1>4, <1>5 DEF CutBy
<1>7. IsFiniteSet(CutBy(s, reg))
  <2>1. IsFiniteSet(OwnedIn(s.orders, reg.account)) /\ CutBy(s, reg) \subseteq OwnedIn(s.orders, reg.account)
    BY <1>1, SetsAreFinite DEF CutBy
  <2> QED
    BY <2>1, FS_Subset
<1>8. ASSUME i \in CutBy(s, reg) PROVE Cardinality(CutBy(t, reg)) = Cardinality(CutBy(s, reg)) - 1
  BY <1>6, <1>7, <1>8, FS_RemoveElement
<1>9. ASSUME reg.account # s.orders[i].owner PROVE i \notin CutBy(s, reg)
  BY <1>9 DEF CutBy, OwnedIn
<1> QED
  BY <1>6, <1>8, <1>9

\* A cancelled order is one less.
LEMMA CancelledIsLess ==
  ASSUME setup.max_nonce \in Nat, NEW s, Counted(s), NEW i \in Nonces, s.orders[i] # NoOrder,
         NEW t, t = CancelOne(s, i)
  PROVE  OneLess(s, t, i)
<1> DEFINE o == s.orders[i]
           x == DecrementOrderCount(s, o.owner, o)
           flag == Locks(o)
           y == Unlock(x, flag, o, o.remaining)
<1>1. Shaped(s) /\ o \in OrderRecords /\ o.owner \in Accounts /\ s.orders \in OrderRows
  BY DEF Counted, Shaped, OrderRows, OrderRecords
<1>2. /\ Shaped(x) /\ x.orders = s.orders
      /\ \A a \in Accounts : x.pos[a].isolated = s.pos[a].isolated
  BY <1>1, CountsAreAdded DEF DecrementOrderCount, CountsMoved
<1>3. t = RemoveOrder(y, i)
  BY DEF CancelOne
<1> HIDE DEF x, flag, o
<1>4. Beside(x, y)
  BY <1>2, SmallSteps DEF Shaped
<1> HIDE DEF y
<1>5. y.orders = x.orders /\ y.pos = x.pos /\ DOMAIN y = TxFields
  BY <1>4 DEF Beside
<1>6. t.orders = [s.orders EXCEPT ![i] = NoOrder] /\ t.pos = x.pos
  BY <1>2, <1>3, <1>5 DEF RemoveOrder, TxFields
<1> QED
  BY <1>1, <1>2, <1>6 DEF OneLess

\* One order of a cancel-all on top of the stack.
LEMMA CancelOneOfAllCuts ==
  ASSUME IInv, CountsInv, CutsInv, NEW i \in Nonces, InternalCancelOneOfAll(i)
  PROVE  CutsInv'
<1> DEFINE reg == Top(Tx)
           s == LessPending(Tx, reg)
           p == IF reg.size = 1 THEN Popped(s) ELSE s
           condition == CancelAllTakes(reg, orders[i])
           x == Assert(p, condition)
           t == CancelOne(x, i)
           f == s.rs.stack
           less == [reg EXCEPT !.size = reg.size - 1]
<1>1. reg # EmptyRegister /\ reg.type \in CancelAllKinds /\ orders[i] # NoOrder
  BY DEF InternalCancelOneOfAll, TopIsCancelAll
<1>2. Become(Apply(t))
  <2>1. Pop(s, reg.size = 1) = p
    BY DEF Pop, Popped
  <2> DEFINE y == [Tx EXCEPT !.rs.stack[0].size = @ - 1]
  <2>2. s = y
    BY DEF LessPending, Top
  <2>3. OneOfAllCancelled(i) = Apply(CancelOne(Assert(Pop(y, reg.size = 1), CancelAllTakes(reg, orders[i])), i))
    BY Zenon DEF OneOfAllCancelled
  <2> HIDE DEF y
  <2>4. OneOfAllCancelled(i) = Apply(CancelOne(Assert(Pop(s, reg.size = 1), CancelAllTakes(reg, orders[i])), i))
    BY Zenon, <2>2, <2>3
  <2>5. OneOfAllCancelled(i) = Apply(t)
    BY Zenon, <2>1, <2>4
  <2> QED
    BY <2>5 DEF InternalCancelOneOfAll
<1>3. /\ Registered(Tx) /\ Tx.new = NoNewInstructions /\ CutsExact(Tx, Tx.rs.stack) /\ Tx.rs = rs
      /\ StateInv(setup, Tx) /\ setup.max_nonce \in Nat /\ Counted(Tx) /\ Tx.orders = orders /\ Tx.pos = pos
      /\ i \in NoncesOf(setup)
  BY TxCuts, CountsFacts DEF IInv
<1>4. reg \in InstructionRecords /\ reg = rs.stack[0]
  <2>1. reg \in Instructions(setup)
    BY <1>1, TopIsPopped
  <2> QED
    BY <1>3, <2>1 DEF Instructions, Top
<1>5. /\ Registered(s) /\ s.new = Tx.new /\ s.orders = Tx.orders /\ s.pos = Tx.pos
      /\ f[0] = less /\ \A k \in Slots : k # 0 => f[k] = rs.stack[k]
  <2> DEFINE q == [rs EXCEPT !.stack = [rs.stack EXCEPT ![0] = less]]
  <2>1. s = [Tx EXCEPT !.rs = q]
    BY <1>3, <1>4 DEF LessPending
  <2>2. DOMAIN Tx = TxFields /\ DOMAIN rs = {"stack", "count"} /\ DOMAIN rs.stack = Slots /\ 0 \in Slots
    BY <1>3, StackPlaces DEF Registered
  <2> HIDE DEF less
  <2>3. /\ DOMAIN q = {"stack", "count"} /\ DOMAIN q.stack = Slots
        /\ q.stack[0] = less /\ \A k \in Slots : k # 0 => q.stack[k] = rs.stack[k]
    BY <2>2
  <2> HIDE DEF q, s
  <2>4. DOMAIN s = TxFields /\ s.rs = q /\ s.new = Tx.new /\ s.orders = Tx.orders /\ s.pos = Tx.pos
    BY <2>1, <2>2 DEF TxFields
  <2> QED
    BY <1>3, <2>3, <2>4 DEF Registered
<1>6. less.type = reg.type /\ less.account = reg.account /\ less.size = reg.size - 1
  BY <1>4 DEF InstructionRecords
<1>7. /\ Registered(p) /\ p.new = Tx.new /\ p.orders = Tx.orders /\ p.pos = Tx.pos
      /\ IF reg.size = 1 THEN p = Popped(s) ELSE p = s
  <2> HIDE DEF s
  <2> QED
    BY <1>5, PoppedStack
<1>8. /\ StateInv(setup, p) /\ Counted(p)
  <2>1. StateInv(setup, s) /\ s.rs.count # 0
    BY <1>1, <1>3, PendingIsCounted
  <2>2. Beside(Tx, s)
    <3>1. s.market = Tx.market /\ s.acct = Tx.acct /\ DOMAIN s = TxFields /\ DOMAIN Tx.market = MarketFields
      BY <1>1, <1>3, <1>5, PendingIsCounted DEF Registered, Counted, Shaped
    <3> QED
      BY <1>5, <3>1 DEF Beside
  <2> HIDE DEF s
  <2>3. Counted(s)
    BY <1>3, <2>2, BesideCounts
  <2>4. Counted(Popped(s))
    <3>1. Beside(s, Popped(s))
      BY <2>3, SmallSteps DEF Counted, Shaped, Popped
    <3> QED
      BY <2>3, <3>1, BesideCounts
  <2>5. StateInv(setup, p)
    BY <1>7, <2>1, PerhapsPopped
  <2> QED
    BY <1>7, <2>3, <2>4, <2>5
<1>9. x = Assert(p, condition) /\ t = CancelOne(x, i)
  OBVIOUS
<1>10. condition => /\ orders[i].owner = reg.account
                    /\ reg.type = "CANCEL_POSITION_TIED_ACCOUNT_ORDERS" => IsTied(orders[i])
                    /\ reg.type = "CANCEL_ALL_ISOLATED_MARGIN_ORDERS" => pos[orders[i].owner].isolated
                    /\ reg.type = "CANCEL_ALL_CROSS_MARGIN_ORDERS" => ~pos[orders[i].owner].isolated
  BY DEF CancelAllTakes
<1> HIDE DEF s, p, x, t, condition, reg, less
<1>11. /\ Counted(x) /\ StateInv(setup, x) /\ x.orders = orders /\ x.pos = pos /\ SameStacks(p, x)
       /\ x.ok => condition
  <2>1. StateInv(setup, x) /\ x.orders = p.orders
    BY <1>3, <1>8, <1>9, AssertedIsGood
  <2>2. Typed(p) /\ p.market \in MarketSet(setup)
    BY <1>8 DEF StateInv, TreesInv, TreeInv
  <2>3. (x.ok => condition) /\ x.pos = p.pos
    BY <1>9, <2>2, AssertIsKept
  <2>4. SameStacks(p, x)
    BY <1>7, <1>9, StacksStay DEF Registered
  <2>5. Beside(p, x)
    BY <1>8, <1>9, SmallSteps DEF Counted, Shaped
  <2>6. Counted(x)
    BY <1>8, <2>5, BesideCounts
  <2> QED
    BY <1>3, <1>7, <2>1, <2>3, <2>4, <2>6
<1>12. t.ok \in BOOLEAN /\ DOMAIN t = TxFields /\ (t.ok => x.ok)
  <2>1. TreesInv(setup, x) /\ x.orders[i] # NoOrder
    BY <1>1, <1>11 DEF StateInv
  <2>2. TreesInv(setup, t) /\ Removed(x, t, i)
    BY <1>3, <1>9, <2>1, CancelledIsRemoved
  <2> QED
    BY <2>2 DEF TreesInv, Typed, Removed
<1>13. condition
  BY <1>2, <1>11, <1>12, BecomeIsOk
<1>14. OneLess(x, t, i)
  BY <1>1, <1>3, <1>9, <1>11, CancelledIsLess
<1>15. SameStacks(p, t)
  <2>1. SameStacks(x, t)
    BY <1>9, <1>11, OrdersComeAndGo DEF SameStacks
  <2> QED
    BY <1>11, <2>1, SameStacksCalm
<1>16. \A r : CutBy(x, r) = CutBy(Tx, r)
  BY <1>3, <1>11 DEF CutBy
<1>17. BelowExact(t, f)
  <2> SUFFICES ASSUME NEW k \in Slots, k # 0, IsCut(f[k])
               PROVE  /\ f[k].size = Cardinality(CutBy(t, f[k]))
                      /\ \A j \in Slots : j < k => MayLieOn(f[j], f[k])
    BY <1>5 DEF BelowExact, Registered
  <2>1. f[k] = rs.stack[k] /\ 0 \in Slots /\ 0 < k
    BY <1>5, StackPlaces
  <2>2. /\ f[k].size = Cardinality(CutBy(Tx, f[k]))
        /\ \A j \in Slots : j < k => MayLieOn(rs.stack[j], f[k])
    BY <1>3, <2>1 DEF CutsExact, Registered
  <2>3. reg.account # f[k].account
    <3>1. MayLieOn(reg, f[k])
      BY <1>4, <2>1, <2>2
    <3>2. reg.type # "TRANSFER_ASSET"
      BY <1>1, StackPlaces
    <3> QED
      BY <1>1, <3>1, <3>2 DEF MayLieOn
  <2>4. CutBy(t, f[k]) = CutBy(Tx, f[k])
    BY <1>10, <1>11, <1>13, <1>14, <1>16, <2>3, CutOneLess
  <2>5. ASSUME NEW j \in Slots, j < k PROVE MayLieOn(f[j], f[k])
    <3>1. CASE j = 0
      BY <1>1, <1>5, <1>6, <2>3, <3>1 DEF MayLieOn
    <3>2. CASE j # 0
      BY <1>5, <2>2, <2>5, <3>2
    <3> QED
      BY <3>1, <3>2
  <2> QED
    BY <2>2, <2>4, <2>5
<1>18. CutsExact(t, t.rs.stack)
  <2>1. CASE reg.size = 1
    BY <1>5, <1>7, <1>15, <1>17, <2>1, PoppedCuts DEF SameStacks
  <2>2. CASE reg.size # 1
    <3>1. t.rs.stack = f
      BY <1>7, <1>15, <2>2 DEF SameStacks
    <3>2. less.size = Cardinality(CutBy(t, less))
      <4>1. CutBy(t, less) = CutBy(t, reg)
        BY <1>6 DEF CutBy
      <4>2. i \in CutBy(x, reg)
        BY <1>1, <1>10, <1>11, <1>13 DEF CutBy, OwnedIn, LiveIn
      <4>3. Cardinality(CutBy(t, reg)) = Cardinality(CutBy(x, reg)) - 1
        BY <1>14, <4>2, CutOneLess
      <4>4. reg.size = Cardinality(CutBy(Tx, reg))
        BY <1>1, <1>3, <1>4, StackPlaces DEF CutsExact, Registered, IsCut
      <4> QED
        BY <1>6, <1>16, <4>1, <4>3, <4>4
    <3>3. DOMAIN f = Slots /\ \A j \in Slots : ~(j < 0)
      BY <1>5, StackPlaces DEF Registered
    <3>4. f[0].size = Cardinality(CutBy(t, f[0]))
      BY <1>5, <3>2
    <3> QED
      BY <1>17, <3>1, <3>3, <3>4 DEF BelowExact, CutsExact
  <2> QED
    BY <2>1, <2>2
<1>19. Registered(t) /\ t.new = NoNewInstructions
  BY <1>3, <1>7, <1>15, SameStacksCalm DEF SameStacks
<1> QED
  BY <1>2, <1>18, <1>19, ApplyCuts DEF EndsExact

-----------------------------------------------------------------------------
(* The handlers that push a cancel-all.                                    *)

\* One cancel-all is put aside, with the right size.
LEMMA SinglePutCuts ==
  ASSUME NEW s, Calm(s), NEW flag, NEW reg, flag => reg.size = Cardinality(CutBy(s, reg)),
         NEW t, t = Put(s, flag, reg, 0)
  PROVE  EndsExact(t)
<1> DEFINE zero == 0
<1>1. t = Put(s, flag, reg, zero) /\ zero \in NewSlots /\ \A j \in NewSlots : ~(j < zero)
  BY StackPlaces
<1> HIDE DEF zero
<1>2. /\ Registered(t) /\ t.rs = s.rs /\ t.orders = s.orders /\ t.pos = s.pos
      /\ \A j \in NewSlots : j # zero => t.new.slot[j] = s.new.slot[j]
      /\ flag => t.new.slot[zero] = reg
      /\ ~flag => t = s
  BY <1>1, PutCalm DEF Calm
<1>3. CASE ~flag
  BY <1>2, <1>3, CalmIsExact
<1>4. CASE flag
  <2>1. DOMAIN t.new.slot = NewSlots /\ DOMAIN s.new.slot = NewSlots
    BY <1>2 DEF Registered, Calm
  <2>2. \A k \in NewSlots : IsCut(t.new.slot[k]) => k = zero
    BY <1>2, <2>1 DEF Calm, NoCuts
  <2>3. CutBy(t, reg) = CutBy(s, reg)
    BY <1>2 DEF CutBy
  <2>4. CutsExact(t, t.new.slot)
    BY <1>1, <1>2, <1>4, <2>1, <2>2, <2>3 DEF CutsExact
  <2> QED
    BY <1>2, <2>4 DEF EndsExact, Calm
<1> QED
  BY <1>3, <1>4

\* The orders each kind of cancel-all takes, by the counters.
LEMMA CountedCuts ==
  ASSUME NEW s, Counted(s), NEW a \in Accounts, NEW size, NEW i
  PROVE  /\ Cardinality(CutBy(s, Instruction("CANCEL_ALL_ACCOUNT_ORDERS", a, size, i)))
              = s.acct[a].total_order_count
         /\ Cardinality(CutBy(s, Instruction("CANCEL_ALL_MARKET_ACCOUNT_ORDERS", a, size, i)))
              = s.acct[a].total_order_count
         /\ s.pos[a].isolated =>
              Cardinality(CutBy(s, Instruction("CANCEL_ALL_ISOLATED_MARGIN_ORDERS", a, size, i)))
                = s.acct[a].total_order_count
         /\ ~s.pos[a].isolated =>
              Cardinality(CutBy(s, Instruction("CANCEL_ALL_CROSS_MARGIN_ORDERS", a, size, i)))
                = s.acct[a].total_order_count
         /\ Cardinality(CutBy(s, Instruction("CANCEL_POSITION_TIED_ACCOUNT_ORDERS", a, size, i)))
              = Cardinality(TiedIn(s.orders, a))
<1>1. s.acct[a].total_order_count = Cardinality(OwnedIn(s.orders, a))
  BY DEF Counted, AccountCounted
<1>2. CutBy(s, Instruction("CANCEL_ALL_ACCOUNT_ORDERS", a, size, i)) = OwnedIn(s.orders, a)
  BY DEF CutBy, Instruction
<1>3. CutBy(s, Instruction("CANCEL_ALL_MARKET_ACCOUNT_ORDERS", a, size, i)) = OwnedIn(s.orders, a)
  BY DEF CutBy, Instruction
<1>4. s.pos[a].isolated =>
        CutBy(s, Instruction("CANCEL_ALL_ISOLATED_MARGIN_ORDERS", a, size, i)) = OwnedIn(s.orders, a)
  BY DEF CutBy, Instruction
<1>5. ~s.pos[a].isolated =>
        CutBy(s, Instruction("CANCEL_ALL_CROSS_MARGIN_ORDERS", a, size, i)) = OwnedIn(s.orders, a)
  BY DEF CutBy, Instruction
<1>6. CutBy(s, Instruction("CANCEL_POSITION_TIED_ACCOUNT_ORDERS", a, size, i)) = TiedIn(s.orders, a)
  BY DEF CutBy, Instruction, TiedIn
<1> QED
  BY <1>1, <1>2, <1>3, <1>4, <1>5, <1>6

\* What the instructions that are built say.
LEMMA InstructionFields ==
  \A type, a, size, i : /\ Instruction(type, a, size, i).size = size
                        /\ Instruction(type, a, size, i).type = type
                        /\ Instruction(type, a, size, i).account = a
BY DEF Instruction

\* All orders of an account.
LEMMA CancelAllCuts ==
  ASSUME IInv, CountsInv, CutsInv, IsEmpty(rs), NEW a \in Accounts, Become(Apply(CancelAll(Tx, a)))
  PROVE  CutsInv'
<1> DEFINE nil == NIL
           size == acct[a].total_order_count
           s == SwitchSet(Tx, a, nil)
           flag == size # 0
           reg == Instruction("CANCEL_ALL_ACCOUNT_ORDERS", a, size, nil)
           t == Put(s, flag, reg, 0)
<1>1. CancelAll(Tx, a) = t
  BY CountsFacts DEF CancelAll, SwitchSet
<1>2. nil \in Nat
  BY DEF NIL
<1>3. s.acct[a].total_order_count = size
  BY CountsFacts DEF SwitchSet, Shaped, AcctTree, TxFields
<1> HIDE DEF nil, flag, s, size
<1>4. Counted(s)
  BY <1>2, CountsFacts, SwitchedCounts DEF s
<1>5. Calm(s)
  BY CalmTx, CalmSteps DEF s
<1>6. reg.size = Cardinality(CutBy(s, reg))
  BY <1>3, <1>4, CountedCuts, InstructionFields
<1> HIDE DEF reg
<1>7. EndsExact(t)
  BY <1>5, <1>6, SinglePutCuts
<1> HIDE DEF t
<1> QED
  BY <1>1, <1>7, ApplyCuts

\* A cancel-all put aside beside the orders.
LEMMA OnePutCuts ==
  ASSUME IInv, CountsInv, CutsInv, IsEmpty(rs), NEW flag, NEW reg,
         flag => reg.size = Cardinality(CutBy(Tx, reg)),
         Become(Apply(Put(Tx, flag, reg, 0)))
  PROVE  CutsInv'
<1> DEFINE t == Put(Tx, flag, reg, 0)
<1>1. Calm(Tx)
  BY CalmTx
<1>2. EndsExact(t)
  BY <1>1, SinglePutCuts
<1> HIDE DEF t
<1> QED
  BY <1>2, ApplyCuts DEF t

\* All orders of an account, at once or by its switch, or those of one market.
LEMMA CancelAllOrdersCuts ==
  ASSUME IInv, CountsInv, CutsInv, NEW a \in Accounts, NEW kind \in CancelAllRequests,
         NEW time \in 0 .. MaxTime, L2CancelAllOrders(a, kind, time)
  PROVE  CutsInv'
<1> DEFINE t == CASE kind = "IMMEDIATE" -> CancelAll(Tx, a)
                  [] kind = "SCHEDULED" -> SwitchSet(Tx, a, time)
                  [] kind = "ABORT"     -> SwitchSet(Tx, a, NIL)
                  [] kind = "MARKET"    -> CancelAllMarket(Tx, a)
<1>1. IsEmpty(rs) /\ Become(Apply(t))
  BY DEF L2CancelAllOrders, SwitchSet, UserTransaction
<1>2. kind \in {"IMMEDIATE", "SCHEDULED", "ABORT", "MARKET"}
  BY CancelKinds, SetupFacts DEF IInv
<1>3. Calm(Tx)
  BY <1>1, CalmTx
<1>4. CASE kind = "IMMEDIATE"
  BY <1>1, <1>4, CancelAllCuts
<1>5. CASE kind = "SCHEDULED"
  <2>1. t = SwitchSet(Tx, a, time)
    BY <1>5
  <2> HIDE DEF t
  <2> QED
    BY <1>1, <1>3, <2>1, CalmSteps, CalmIsExact, ApplyCuts
<1>6. CASE kind = "ABORT"
  <2> DEFINE nil == NIL
  <2>1. t = SwitchSet(Tx, a, nil)
    BY <1>6
  <2> HIDE DEF t, nil
  <2> QED
    BY <1>1, <1>3, <2>1, CalmSteps, CalmIsExact, ApplyCuts
<1>7. CASE kind = "MARKET"
  <2> DEFINE size == pos[a].total_order_count
             flag == size # 0
             reg == Instruction("CANCEL_ALL_MARKET_ACCOUNT_ORDERS", a, size, NIL)
  <2>1. t = Put(Tx, flag, reg, 0)
    BY <1>7, CountsFacts DEF CancelAllMarket
  <2>2. flag => size = acct[a].total_order_count
    BY CountsFacts DEF Counted, AccountCounted
  <2> HIDE DEF size, flag, t
  <2>3. flag => reg.size = Cardinality(CutBy(Tx, reg))
    BY <2>2, CountsFacts, CountedCuts, InstructionFields
  <2> HIDE DEF reg
  <2> QED
    BY <1>1, <2>1, <2>3, OnePutCuts
<1> QED
  BY <1>2, <1>4, <1>5, <1>6, <1>7

\* All orders of an account, from L1.
LEMMA L1CancelAllCuts ==
  ASSUME IInv, CountsInv, CutsInv, NEW a \in Accounts, L1CancelAllOrders(a)
  PROVE  CutsInv'
BY CancelAllCuts DEF L1CancelAllOrders, UserTransaction

\* All orders of an account whose switch is due.
LEMMA DmsCuts ==
  ASSUME IInv, CountsInv, CutsInv, NEW a \in Accounts, InternalCancelAllDms(a)
  PROVE  CutsInv'
BY CancelAllCuts DEF InternalCancelAllDms

\* The orders that stand in the way of a liquidation.
LEMMA LiquidationCuts ==
  ASSUME IInv, CountsInv, CutsInv, NEW a \in Accounts, InternalCancelAllLiquidation(a)
  PROVE  CutsInv'
<1>1. IsEmpty(rs)
  BY DEF InternalCancelAllLiquidation
<1>2. /\ acct[a].total_order_count = Cardinality(OwnedIn(orders, a))
      /\ acct[a].total_non_cross_order_count =
           IF Spot \/ pos[a].isolated THEN Cardinality(OwnedIn(orders, a)) ELSE 0
      /\ pos[a].total_order_count = IF Spot THEN 0 ELSE Cardinality(OwnedIn(orders, a))
      /\ Cardinality(OwnedIn(orders, a)) \in Nat
  BY CountsFacts, SetsAreFinite DEF Counted, AccountCounted
<1>3. CASE pos[a].isolated
  <2> DEFINE size == pos[a].total_order_count
             flag == size # 0
             reg == Instruction("CANCEL_ALL_ISOLATED_MARGIN_ORDERS", a, size, NIL)
             t == CancelAllIsolated(Tx, a)
  <2>1. t = Put(Tx, flag, reg, 0)
    BY CountsFacts DEF CancelAllIsolated
  <2>2. Become(Apply(t))
    BY <1>3 DEF InternalCancelAllLiquidation
  <2>3. flag => size = acct[a].total_order_count
    BY <1>2
  <2> HIDE DEF size, flag, t
  <2>4. flag => reg.size = Cardinality(CutBy(Tx, reg))
    BY <1>3, <2>3, CountsFacts, CountedCuts, InstructionFields
  <2> HIDE DEF reg
  <2> QED
    BY <1>1, <2>1, <2>2, <2>4, OnePutCuts
<1>4. CASE ~pos[a].isolated
  <2> DEFINE all == acct[a].total_order_count
             size == IF a \in Unified THEN all ELSE all - acct[a].total_non_cross_order_count
             flag == size # 0
             kind == IF a \in Unified THEN "CANCEL_ALL_ACCOUNT_ORDERS"
                                      ELSE "CANCEL_ALL_CROSS_MARGIN_ORDERS"
             reg == Instruction(kind, a, size, NIL)
             t == CancelAllCross(Tx, a)
  <2>1. t = Put(Tx, flag, reg, 0)
    BY CountsFacts DEF CancelAllCross
  <2>2. Become(Apply(t))
    BY <1>4 DEF InternalCancelAllLiquidation
  <2>3. flag => size = acct[a].total_order_count
    BY <1>2, <1>4
  <2> HIDE DEF size, flag, t
  <2>4. flag => reg.size = Cardinality(CutBy(Tx, reg))
    <3>1. reg.size = size
      BY InstructionFields
    <3>2. CASE a \in Unified
      <4>1. reg = Instruction("CANCEL_ALL_ACCOUNT_ORDERS", a, size, NIL)
        BY <3>2
      <4> HIDE DEF reg
      <4> QED
        BY <2>3, <3>1, <4>1, CountsFacts, CountedCuts
    <3>3. CASE a \notin Unified
      <4>1. reg = Instruction("CANCEL_ALL_CROSS_MARGIN_ORDERS", a, size, NIL)
        BY <3>3
      <4> HIDE DEF reg
      <4> QED
        BY <1>4, <2>3, <3>1, <4>1, CountsFacts, CountedCuts
    <3> QED
      BY <3>2, <3>3
  <2> HIDE DEF reg
  <2> QED
    BY <1>1, <2>1, <2>2, <2>4, OnePutCuts
<1> QED
  BY <1>3, <1>4

-----------------------------------------------------------------------------
(* What a step of the matching engine comes to, by the operators of the    *)
(* proofs: there is no maker to meet, ...                                  *)
NoMakerMet(s, t, reg) ==
  \/ t = TakerPlaced(Popped(s), reg.order, reg.index)
  \/ t = TakerDropped(Popped(s), reg.order)

(* ... or the maker m was met: x is the state after fill and trade, y the  *)
(* one after the orders that are used up have left.                        *)
MakerMet(s, t, reg, c, m, d, x, y) ==
  /\ CanTrade(reg) /\ Active(s.orders, m) /\ s.orders[m].remaining # 0
  /\ s.orders[m].is_ask # reg.order.is_ask
  /\ Feasible(reg.order, s.orders[m], d)
  /\ Trades(s, x, m, d) /\ Leaves(x, y, Top(x).order, m)
  /\ d.kind # "TRADE" => t = y
  /\ d.kind = "TRADE" => /\ SlippageFits(reg.order, s.orders[m], d.amount, reg.acc)
                         /\ Notices(s, x, y, t, reg.order, s.orders[m], c)

\* A step of the matching engine, after its assertion, is one of these.
LEMMA MatchingCases ==
  ASSUME NEW u, u = setup, u.max_nonce \in Nat, NEW s, StateInv(u, s),
         NEW reg, reg = Top(s), IsInsert(reg), NEW c, Verdict(c),
         NEW time, NEW price, NEW t, t = ExecuteMatching(s, c, time, price)
  PROVE  \E condition :
           \/ NoMakerMet(Assert(s, condition), t, reg)
           \/ \E m \in Nonces : \E d, x, y : MakerMet(Assert(s, condition), t, reg, c, m, d, x, y)
<1> DEFINE d  == Decide(s, c, time, price)
           o  == reg.order
           m  == IF LeafIsEmpty(s, o) THEN NIL ELSE Maker(s, o)
           mk == s.orders[m]
           condition == RestingAssertion(s, d)
           s0 == Assert(s, condition)
           x  == Trade(Fill(s0, m, d), m, d)
           p  == Pop(x, d.cancel_taker \/ d.insert)
           s1 == DropMaker(p, m, d.cancel_maker)
           s2 == DropTaker(s1, Top(x).order, d.cancel_taker)
           s3 == InsertTakerOrder(s2, Top(x).order, reg.index, d.insert)
<1>0. Nonces = NoncesOf(u)
  BY DEF Nonces, NoncesOf, FIRST_ASK_NONCE, FIRST_BID_NONCE, MaxNonce
<1>1. (d.kind # "TRADE" => t = s3) /\ (d.kind = "TRADE" => Notices(s, x, s3, t, o, mk, c))
  BY DEF ExecuteMatching, Notices
<1>2. \/ d = InsertTaker
      \/ d = CancelTaker
      \/ /\ CanTrade(reg) /\ ~LeafIsEmpty(s, o) /\ Feasible(o, s.orders[Maker(s, o)], d)
         /\ d.kind = "TRADE" => GoodTrade(s, o, s.orders[Maker(s, o)], reg.acc, d.amount, time, price)
  <2> DEFINE e == d
  <2>1. e = Decide(s, c, time, price)
    OBVIOUS
  <2> HIDE DEF d
  <2> QED
    BY <2>1, DecideIsGood
<1> HIDE DEF d, condition
<1>3. Trades(s0, x, m, d)
  BY DEF Trades
<1>4. /\ d.kind = "NONE" => x = s0
      /\ p = IF d.cancel_taker \/ d.insert THEN Popped(x) ELSE x
      /\ s1 = IF d.cancel_maker THEN MakerDropped(p, m) ELSE p
      /\ s2 = IF d.cancel_taker THEN TakerDropped(s1, Top(x).order) ELSE s1
      /\ s3 = IF d.insert THEN TakerPlaced(s2, Top(x).order, reg.index) ELSE s2
  <2>1. d.kind = "NONE" => x = s0
    BY <1>3, NothingTraded DEF Trades
  <2> HIDE DEF x
  <2>2. p = IF d.cancel_taker \/ d.insert THEN Popped(x) ELSE x
    BY DEF Pop, Popped
  <2> HIDE DEF p
  <2>3. s1 = IF d.cancel_maker THEN MakerDropped(p, m) ELSE p
    BY DEF DropMaker, MakerDropped
  <2> HIDE DEF s1
  <2>4. s2 = IF d.cancel_taker THEN TakerDropped(s1, Top(x).order) ELSE s1
    BY DEF DropTaker, TakerDropped, CancelChildOrders, TriggerChildOrders, ForChildren, Put
  <2> HIDE DEF s2
  <2>5. s3 = IF d.insert THEN TakerPlaced(s2, Top(x).order, reg.index) ELSE s2
    BY DEF InsertTakerOrder, TakerPlaced
  <2> QED
    BY <2>1, <2>2, <2>3, <2>4, <2>5
<1>5. s0 = Assert(s, condition) /\ s0.rs = s.rs /\ s0.orders = s.orders /\ s0.pos = s.pos
  BY DEF Assert, StateInv, TreesInv, Typed, TxFields
<1> HIDE DEF s0, x, p, s1, s2, s3
<1>6. reg # EmptyRegister /\ Top(s0) = reg
  BY <1>5 DEF IsInsert, Top
<1>7. CASE d = InsertTaker
  <2>1. d.cancel_taker = FALSE /\ d.cancel_maker = FALSE /\ d.insert = TRUE /\ d.kind = "NONE"
    BY <1>7 DEF InsertTaker, Decision
  <2>2. t = TakerPlaced(Popped(s0), o, reg.index)
    BY <1>1, <1>4, <1>6, <2>1
  <2> QED
    BY <1>5, <2>2 DEF NoMakerMet
<1>8. CASE d = CancelTaker
  <2>1. d.cancel_taker = TRUE /\ d.cancel_maker = FALSE /\ d.insert = FALSE /\ d.kind = "NONE"
    BY <1>8 DEF CancelTaker, Decision
  <2>2. t = TakerDropped(Popped(s0), o)
    BY <1>1, <1>4, <1>6, <2>1
  <2> QED
    BY <1>5, <2>2 DEF NoMakerMet
<1>9. CASE /\ CanTrade(reg) /\ ~LeafIsEmpty(s, o) /\ Feasible(o, s.orders[Maker(s, o)], d)
           /\ d.kind = "TRADE" => GoodTrade(s, o, s.orders[Maker(s, o)], reg.acc, d.amount, time, price)
  <2>1. m = Maker(s, o)
    BY <1>9
  <2>2. d.cancel_taker \in BOOLEAN /\ d.cancel_maker \in BOOLEAN /\ d.insert = FALSE
    BY <1>9 DEF Feasible
  <2>3. Leaves(x, s3, Top(x).order, m)
    <3>1. s1 = p \/ s1 = MakerDropped(p, m)
      BY <1>4
    <3>2. \/ p = x /\ s3 = s1
          \/ p = Popped(x) /\ s3 = TakerDropped(s1, Top(x).order)
      BY <1>4, <2>2
    <3> QED
      BY <3>1, <3>2 DEF Leaves
  <2>4. m \in Nonces /\ Active(s.orders, m) /\ mk.remaining # 0 /\ mk.is_ask # o.is_ask
    <3>1. TreeInv(u, s.market, s.orders) /\ BookInv(u, s.orders, s.book)
      BY DEF StateInv, TreesInv
    <3>2. o \in OrderSet(u)
      BY <1>6, TopIsInstruction DEF RegisterInv
    <3>3. LET n == Maker(s, o) IN /\ n \in NoncesOf(u) /\ Active(s.orders, n)
                                  /\ s.orders[n].remaining \in Nat \ {0} /\ s.orders[n].is_ask # o.is_ask
      <4>1. ~LeafIsEmpty(s, o)
        BY <1>9
      <4> HIDE DEF o
      <4> QED
        BY <3>1, <3>2, <4>1, MakerIsFound
    <3> QED
      BY <1>0, <2>1, <3>3
  <2>5. d.kind = "TRADE" => SlippageFits(o, mk, d.amount, reg.acc)
    BY <1>9, <2>1 DEF GoodTrade, SlippageFits
  <2>6. Feasible(o, mk, d) /\ s0.orders[m] = mk
    BY <1>5, <1>9, <2>1
  <2>7. d.kind = "TRADE" => Notices(s0, x, s3, t, o, mk, c)
    <3> HIDE DEF o, mk
    <3> QED
      BY <1>1, <1>5 DEF Notices, SignChanged
  <2> HIDE DEF m, mk
  <2>8. MakerMet(s0, t, reg, c, m, d, x, s3)
    BY <1>1, <1>3, <1>5, <1>9, <2>3, <2>4, <2>5, <2>6, <2>7 DEF MakerMet, Active
  <2> QED
    BY <1>5, <2>4, <2>8
<1> QED
  BY <1>2, <1>7, <1>8, <1>9

-----------------------------------------------------------------------------
(* The matching engine puts cancel-alls aside only when it is done.        *)
Inserting(reg) == "type" \in DOMAIN reg /\ reg.type = "INSERT_ORDER"

(* Calm, and the first slots are still free.                               *)
Free(s) == Calm(s) /\ \A j \in NewSlots : j < 4 => s.new.slot[j] = EmptyRegister

(* Of all instructions only the one on top changes, into reg.              *)
TopBecomes(s, t, reg) ==
  /\ DOMAIN t = TxFields /\ t.new = s.new
  /\ DOMAIN t.rs = {"stack", "count"} /\ DOMAIN t.rs.stack = Slots
  /\ t.rs.stack[0] = reg /\ \A k \in Slots : k # 0 => t.rs.stack[k] = s.rs.stack[k]

\* The pending order on top is rewritten.
LEMMA TopStaysCalm ==
  ASSUME NEW s, Free(s), NEW reg, Inserting(reg), NEW t, TopBecomes(s, t, reg)
  PROVE  Free(t) /\ Top(t) = reg
<1>1. /\ Registered(s) /\ NoCuts(s.rs.stack) /\ NoCuts(s.new.slot)
      /\ \A j \in NewSlots : j < 4 => s.new.slot[j] = EmptyRegister
  BY DEF Free, Calm
<1>2. ~IsCut(reg)
  BY DEF Inserting, IsCut, CancelAllKinds
<1>3. Registered(t) /\ t.new = s.new /\ Top(t) = reg
  BY <1>1 DEF TopBecomes, Registered, Top
<1>4. ASSUME NEW k \in Slots PROVE ~IsCut(t.rs.stack[k])
  <2>1. CASE k = 0
    BY <1>2, <2>1 DEF TopBecomes
  <2>2. CASE k # 0
    <3>1. t.rs.stack[k] = s.rs.stack[k]
      BY <2>2 DEF TopBecomes
    <3> QED
      BY <1>1, <3>1 DEF NoCuts, Registered
  <2> QED
    BY <2>1, <2>2
<1>5. NoCuts(t.rs.stack)
  BY <1>3, <1>4 DEF NoCuts, Registered
<1> QED
  BY <1>1, <1>3, <1>5 DEF Free, Calm

\* A fill takes from the pending order, ...
LEMMA FilledCalm ==
  ASSUME NEW s, Free(s), Inserting(Top(s)), NEW m, NEW mk, NEW amount,
         NEW t, t = FilledBoth(s, m, mk, amount)
  PROVE  Free(t) /\ Inserting(Top(t))
<1> DEFINE y == Unlock(s, Locks(mk), mk, amount)
           reg == Top(s)
           o == [reg.order EXCEPT !.remaining = reg.order.remaining - amount]
           r == [reg EXCEPT !.order = o]
<1>1. SameStacks(s, y)
  BY StacksStay DEF Free, Calm, Registered
<1>2. t = [y EXCEPT !.rs.stack[0].order.remaining = @ - amount,
                    !.orders[m].remaining = @ - amount,
                    !.book = SetLeaf(@, mk, mk.remaining - amount)]
  BY DEF FilledBoth
<1> HIDE DEF y
<1>3. Inserting(r)
  <2> HIDE DEF o
  <2> QED
    BY DEF Inserting
<1>4. DOMAIN t = TxFields /\ t.new = y.new /\ t.rs = [y.rs EXCEPT !.stack = [y.rs.stack EXCEPT ![0] =
        [y.rs.stack[0] EXCEPT !.order =
           [y.rs.stack[0].order EXCEPT !.remaining = y.rs.stack[0].order.remaining - amount]]]]
  BY <1>1, <1>2 DEF SameStacks, TxFields
<1>5. TopBecomes(s, t, r)
  BY <1>1, <1>4, StackPlaces DEF TopBecomes, SameStacks, Top, Free, Calm, Registered
<1> HIDE DEF r
<1> QED
  BY <1>3, <1>5, TopStaysCalm

\* ... a trade changes its slippage, ...
LEMMA SettledCalm ==
  ASSUME NEW s, Free(s), Inserting(Top(s)), NEW o, NEW mk, NEW amount,
         NEW t, t = SettledTrade(s, o, mk, amount)
  PROVE  Free(t) /\ Inserting(Top(t))
<1> DEFINE x == SetPosition(s, o, amount)
           y == SetPosition(x, mk, amount)
           oi == NewOpenInterest(s, o, mk, amount)
           paid == B2N(MarketFlag(o)) * PriceDiff(o, mk) * amount
           reg == Top(s)
           r == [reg EXCEPT !.acc = reg.acc - paid]
<1>1. SameStacks(s, x)
  BY StacksStay DEF Free, Calm, Registered
<1> HIDE DEF x
<1>2. SameStacks(x, y)
  BY <1>1, StacksStay DEF SameStacks
<1>3. t = [y EXCEPT !.market.open_interest = oi, !.rs.stack[0].acc = @ - paid]
  BY DEF SettledTrade, x
<1> HIDE DEF y, oi, paid
<1>4. SameStacks(s, y)
  BY <1>1, <1>2, SameStacksCalm
<1>5. Inserting(r)
  BY DEF Inserting
<1>6. DOMAIN t = TxFields /\ t.new = y.new /\ t.rs = [y.rs EXCEPT !.stack = [y.rs.stack EXCEPT ![0] =
        [y.rs.stack[0] EXCEPT !.acc = y.rs.stack[0].acc - paid]]]
  BY <1>3, <1>4 DEF SameStacks, TxFields
<1>7. TopBecomes(s, t, r)
  BY <1>4, <1>6, StackPlaces DEF TopBecomes, SameStacks, Top, Free, Calm, Registered
<1> HIDE DEF r
<1> QED
  BY <1>5, <1>7, TopStaysCalm

\* ... and both leave the other instructions alone.
LEMMA TradedCalm ==
  ASSUME NEW s, Free(s), Inserting(Top(s)), NEW m, NEW d, NEW x, Trades(s, x, m, d)
  PROVE  Free(x)
<1>0. x = Trade(Fill(s, m, d), m, d)
  BY DEF Trades
<1>1. PICK f, size, mk, o, mk2 : /\ f = Fill(s, m, d) /\ size = d.amount /\ mk = s.orders[m]
                                 /\ o = Top(f).order /\ mk2 = f.orders[m]
  OBVIOUS
<1>2. Free(f) /\ Inserting(Top(f))
  <2>1. f = IF d.kind = "NONE" THEN s ELSE FilledBoth(s, m, mk, size)
    BY <1>1 DEF Fill, FilledBoth
  <2> QED
    BY <2>1, FilledCalm
<1>3. x = IF d.kind # "TRADE" THEN f ELSE SettledTrade(f, o, mk2, size)
  BY <1>0, <1>1 DEF Trade, SettledTrade
<1> QED
  BY <1>2, <1>3, SettledCalm

\* What leaves the state free: the operators that leave the instructions alone.
LEMMA FreeSteps ==
  ASSUME NEW s, Free(s)
  PROVE  /\ \A t : SameStacks(s, t) => Free(t)
         /\ Free(Popped(s))
<1>1. \A t : SameStacks(s, t) => Free(t)
  BY SameStacksCalm DEF Free, SameStacks
<1>2. Free(Popped(s))
  <2> DEFINE t == Popped(s)
  <2>1. Registered(t) /\ t.new = s.new /\ NoCuts(t.rs.stack)
    BY PoppedStack DEF Free, Calm
  <2> HIDE DEF t
  <2>2. Free(t)
    BY <2>1 DEF Free, Calm
  <2> QED
    BY <2>2 DEF t
<1> QED
  BY <1>1, <1>2

\* The children of an order are put aside in other slots.
LEMMA ChildrenFree ==
  ASSUME NEW s, Free(s), NEW o, NEW max \in {5, 7}
  PROVE  /\ \A flag : Free(CancelChildOrders(s, flag, o, max))
         /\ \A flag, size : Free(TriggerChildOrders(s, flag, o, size, max))
<1>1. Registered(s) /\ Calm(s) /\ max \in Int
  BY DEF Free, Calm
<1>2. \A t : ChildrenAside(s, t, max) => Free(t)
  <2> SUFFICES ASSUME NEW t, ChildrenAside(s, t, max) PROVE Free(t)
    OBVIOUS
  <2>1. Calm(t) /\ \A j \in NewSlots : j < max - 1 => t.new.slot[j] = s.new.slot[j]
    BY <1>1 DEF ChildrenAside
  <2>2. \A j \in NewSlots : j < 4 => j < max - 1
    BY StackPlaces
  <2> QED
    BY <2>1, <2>2 DEF Free
<1>3. \A flag : ChildrenAside(s, CancelChildOrders(s, flag, o, max), max)
  BY <1>1, AllChildrenCalm
<1>4. \A flag, size : ChildrenAside(s, TriggerChildOrders(s, flag, o, size, max), max)
  BY <1>1, AllChildrenCalm
<1> QED
  BY <1>2, <1>3, <1>4

\* So do the orders that are used up, ...
LEMMA LeavesFree ==
  ASSUME NEW s, Free(s)
  PROVE  /\ \A o : Free(TakerDropped(s, o))
         /\ \A m : Free(MakerDropped(s, m))
         /\ \A o, i : Free(TakerPlaced(s, o, i))
<1>1. ASSUME NEW o PROVE Free(TakerDropped(s, o))
  <2> DEFINE size == o.initial - o.remaining
             max == 5
             f == TRUE /\ size = 0
             g == TRUE /\ size # 0
             y == CancelChildOrders(s, f, o, max)
             t == TriggerChildOrders(y, g, o, size, max)
  <2>1. TakerDropped(s, o) = t
    BY DEF TakerDropped, DropTaker
  <2>2. max \in {5, 7}
    OBVIOUS
  <2> HIDE DEF size, max, f, g
  <2>3. Free(y)
    BY <2>2, ChildrenFree
  <2> HIDE DEF y
  <2>4. Free(t)
    BY <2>2, <2>3, ChildrenFree
  <2> QED
    BY <2>1, <2>4
<1>2. ASSUME NEW m PROVE Free(MakerDropped(s, m))
  <2> DEFINE mk == s.orders[m]
             size == mk.initial - mk.remaining
             less == DecrementOrderCount(s, mk.owner, mk)
             x == Unlock(less, Locks(mk), mk, mk.remaining)
             gone == RemoveOrder(x, m)
             max == 7
             f == size = 0
             g == size # 0
             y == CancelChildOrders(gone, f, mk, max)
             t == TriggerChildOrders(y, g, mk, size, max)
  <2>1. MakerDropped(s, m) = t
    BY DEF MakerDropped, DropMaker
  <2>2. max \in {5, 7}
    OBVIOUS
  <2>3. SameStacks(s, less)
    BY OrdersComeAndGo DEF Free, Calm, Registered
  <2> HIDE DEF size, max, f, g, less, mk
  <2>4. SameStacks(less, x)
    BY <2>3, StacksStay DEF SameStacks
  <2> HIDE DEF x
  <2>5. SameStacks(x, gone)
    BY <2>4, StacksStay DEF SameStacks
  <2> HIDE DEF gone
  <2>6. SameStacks(s, gone)
    BY <2>3, <2>4, <2>5, SameStacksCalm
  <2>7. Free(gone)
    BY <2>6, FreeSteps
  <2>8. Free(y)
    BY <2>2, <2>7, ChildrenFree
  <2> HIDE DEF y
  <2>9. Free(t)
    BY <2>2, <2>8, ChildrenFree
  <2> QED
    BY <2>1, <2>9
<1>3. ASSUME NEW o, NEW i PROVE Free(TakerPlaced(s, o, i))
  <2> DEFINE x == [s EXCEPT !.orders[i] = o,
                            !.book = IF o.trigger_status = "NA" THEN SetLeaf(@, o, o.remaining) ELSE @]
             y == IncrementOrderCount(x, o.owner, o)
             flag == o.trigger_status = "NA" /\ Locks(o)
             t == Lock(y, flag, o)
  <2>1. TakerPlaced(s, o, i) = t
    BY DEF TakerPlaced, InsertTakerOrder
  <2>2. SameStacks(s, x)
    BY DEF SameStacks, Free, Calm, Registered, TxFields
  <2> HIDE DEF x, flag
  <2>3. SameStacks(x, y)
    BY <2>2, OrdersComeAndGo DEF SameStacks
  <2> HIDE DEF y
  <2>4. SameStacks(y, t)
    BY <2>3, StacksStay DEF SameStacks
  <2> HIDE DEF t
  <2>5. SameStacks(s, t)
    BY <2>2, <2>3, <2>4, SameStacksCalm
  <2> QED
    BY <2>1, <2>5, FreeSteps
<1> QED
  BY <1>1, <1>2, <1>3

\* ... those of both sides after a trade.
LEMMA BothLeaveFree ==
  ASSUME NEW s, Free(s), NEW t, NEW o, NEW m, Leaves(s, t, o, m)
  PROVE  Free(t)
<1>1. PICK p, s1 : /\ s1 = p \/ s1 = MakerDropped(p, m)
                   /\ \/ p = s /\ t = s1
                      \/ p = Popped(s) /\ t = TakerDropped(s1, o)
  BY DEF Leaves
<1>2. Free(p)
  BY <1>1, FreeSteps
<1>3. Free(s1)
  BY <1>1, <1>2, LeavesFree
<1> QED
  BY <1>1, <1>3, LeavesFree

\* The slots after an instruction is put aside.
LEMMA PutSlots ==
  ASSUME NEW s, Registered(s), NEW flag, NEW reg, NEW k \in NewSlots, NEW t, t = Put(s, flag, reg, k)
  PROVE  /\ Registered(t) /\ t.rs = s.rs /\ t.orders = s.orders /\ t.pos = s.pos
         /\ \A j \in NewSlots : j # k => t.new.slot[j] = s.new.slot[j]
         /\ (t.new.slot[k] = reg /\ flag) \/ t.new.slot[k] = s.new.slot[k]
BY PutCalm

\* What the engine puts aside after a trade is exact: fees on top, then the cancel-alls of
\* the orders tied to the positions that turned or closed, of different accounts.
LEMMA NoticedCuts ==
  ASSUME NEW s, Free(s), Counted(s), NEW v, NEW w, NEW o, NEW mk, NEW c,
         o.owner \in Accounts, mk.owner \in Accounts,
         o.owner = mk.owner => ~SignChanged(v, w, o.owner),
         NEW t, Notices(v, w, s, t, o, mk, c)
  PROVE  EndsExact(t)
<1> DEFINE kind == "CANCEL_POSITION_TIED_ACCOUNT_ORDERS"
           zero == 0
           one == 1
           two == 2
           three == 3
           n == s.pos[o.owner].total_position_tied_order_count
           taker == Instruction(kind, o.owner, n, NIL)
           f3 == SignChanged(v, w, o.owner) /\ n # 0
           y == Put(s, f3, taker, three)
           k == y.pos[mk.owner].total_position_tied_order_count
           maker == Instruction(kind, mk.owner, k, NIL)
           f2 == SignChanged(v, w, mk.owner) /\ k # 0
           z == Put(y, f2, maker, two)
           fee == Instruction("TRANSFER_ASSET", FeeAccount, 1, NIL)
           f1 == c.taker_fee /\ o.integrator
           f0 == c.maker_fee /\ mk.integrator
           q == Put(z, f1, fee, one)
<1>1. t = Put(q, f0, fee, zero)
  BY DEF Notices, PutTransfers, CancelPositionTied
<1>2. /\ zero \in NewSlots /\ one \in NewSlots /\ two \in NewSlots /\ three \in NewSlots
      /\ \A j \in NewSlots : j < 4 <=> j \in {zero, one, two, three}
      /\ zero # one /\ zero # two /\ zero # three /\ one # two /\ one # three /\ two # three
      /\ \A i, j \in NewSlots : (j \in {two, three} /\ i < j) => i \in {zero, one, two}
      /\ \A i, j \in NewSlots : (j = two /\ i < j) => i \in {zero, one}
  BY StackPlaces
<1>3. /\ taker.account = o.owner /\ taker.size = n /\ taker.type = kind
      /\ maker.account = mk.owner /\ maker.size = k /\ maker.type = kind
      /\ fee.type = "TRANSFER_ASSET" /\ kind \in CancelAllKinds
  BY DEF Instruction, CancelAllKinds
<1>4. f3 /\ f2 => o.owner # mk.owner
  OBVIOUS
<1>5. n # 0 => n = Cardinality(CutBy(s, taker))
  <2>1. n = IF Spot THEN 0 ELSE Cardinality(TiedIn(s.orders, o.owner))
    BY DEF Counted, AccountCounted
  <2> HIDE DEF n
  <2>2. Cardinality(CutBy(s, taker)) = Cardinality(TiedIn(s.orders, o.owner))
    BY CountedCuts
  <2> QED
    BY <2>1, <2>2
<1>6. s.pos[mk.owner] = y.pos[mk.owner] => (k # 0 => k = Cardinality(CutBy(s, maker)))
  <2>1. s.pos[mk.owner].total_position_tied_order_count = IF Spot THEN 0 ELSE Cardinality(TiedIn(s.orders, mk.owner))
    BY DEF Counted, AccountCounted
  <2> HIDE DEF k, y
  <2>2. Cardinality(CutBy(s, maker)) = Cardinality(TiedIn(s.orders, mk.owner))
    BY CountedCuts
  <2> QED
    BY <2>1, <2>2 DEF k
<1>7. (f3 => n # 0) /\ (f2 => k # 0)
  <2> HIDE DEF n, k, y
  <2> QED
    OBVIOUS
<1>8. Registered(s) /\ NoCuts(s.rs.stack) /\ NoCuts(s.new.slot)
      /\ \A j \in NewSlots : j < 4 => s.new.slot[j] = EmptyRegister
  BY DEF Free, Calm
<1> HIDE DEF zero, one, two, three, kind, n, taker, f3, maker, f2, fee, f1, f0, q, z, y, k
<1>9. /\ Registered(y) /\ y.rs = s.rs /\ y.orders = s.orders /\ y.pos = s.pos
      /\ \A j \in NewSlots : j # three => y.new.slot[j] = s.new.slot[j]
      /\ (y.new.slot[three] = taker /\ f3) \/ y.new.slot[three] = s.new.slot[three]
  <2>1. y = Put(s, f3, taker, three)
    BY DEF y
  <2> QED
    BY <1>2, <1>8, <2>1, PutSlots
<1>10. /\ Registered(z) /\ z.rs = s.rs /\ z.orders = s.orders /\ z.pos = s.pos
       /\ \A j \in NewSlots : j # two => z.new.slot[j] = y.new.slot[j]
       /\ (z.new.slot[two] = maker /\ f2) \/ z.new.slot[two] = y.new.slot[two]
  <2>1. z = Put(y, f2, maker, two)
    BY DEF z
  <2> QED
    BY <1>2, <1>9, <2>1, PutSlots
<1>11. /\ Registered(q) /\ q.rs = s.rs /\ q.orders = s.orders /\ q.pos = s.pos
       /\ \A j \in NewSlots : j # one => q.new.slot[j] = z.new.slot[j]
       /\ (q.new.slot[one] = fee /\ f1) \/ q.new.slot[one] = z.new.slot[one]
  <2>1. q = Put(z, f1, fee, one)
    BY DEF q
  <2> QED
    BY <1>2, <1>10, <2>1, PutSlots
<1>12. /\ Registered(t) /\ t.rs = s.rs /\ t.orders = s.orders /\ t.pos = s.pos
       /\ \A j \in NewSlots : j # zero => t.new.slot[j] = q.new.slot[j]
       /\ (t.new.slot[zero] = fee /\ f0) \/ t.new.slot[zero] = q.new.slot[zero]
  BY <1>1, <1>2, <1>11, PutSlots
<1>13. /\ t.new.slot[zero] \in {fee, EmptyRegister} /\ t.new.slot[one] \in {fee, EmptyRegister}
       /\ (t.new.slot[two] = maker /\ f2) \/ t.new.slot[two] = EmptyRegister
       /\ (t.new.slot[three] = taker /\ f3) \/ t.new.slot[three] = EmptyRegister
       /\ \A j \in NewSlots : j \notin {zero, one, two, three} => t.new.slot[j] = s.new.slot[j]
  BY <1>2, <1>8, <1>9, <1>10, <1>11, <1>12
<1>14. \A r : CutBy(t, r) = CutBy(s, r)
  BY <1>12 DEF CutBy
<1>15. /\ f3 => taker.size = Cardinality(CutBy(t, taker))
       /\ f2 => maker.size = Cardinality(CutBy(t, maker))
  BY <1>3, <1>5, <1>6, <1>7, <1>9, <1>14
<1>16. DOMAIN t.new.slot = NewSlots /\ DOMAIN s.new.slot = NewSlots
  BY <1>8, <1>12 DEF Registered
<1>17. ASSUME NEW j \in NewSlots, IsCut(t.new.slot[j])
       PROVE  /\ t.new.slot[j].size = Cardinality(CutBy(t, t.new.slot[j]))
              /\ \A i \in NewSlots : i < j => MayLieOn(t.new.slot[i], t.new.slot[j])
  <2>1. ~IsCut(fee) /\ ~IsCut(EmptyRegister)
    BY <1>3, StackPlaces DEF IsCut
  <2>2. \A r : r \in {fee, EmptyRegister} => MayLieOn(r, t.new.slot[j])
    BY <1>3 DEF MayLieOn
  <2>3. j \in {two, three}
    <3>1. j \in {zero, one, two, three}
      BY <1>8, <1>13, <1>16, <1>17 DEF NoCuts
    <3> QED
      BY <1>13, <1>17, <2>1, <3>1
  <2>4. CASE j = two
    <3>1. t.new.slot[j] = maker /\ f2
      BY <1>13, <1>17, <2>1, <2>4
    <3>2. \A i \in NewSlots : i < j => t.new.slot[i] \in {fee, EmptyRegister}
      BY <1>2, <1>13, <2>4
    <3> QED
      BY <1>15, <2>2, <3>1, <3>2
  <2>5. CASE j = three
    <3>1. t.new.slot[j] = taker /\ f3
      BY <1>13, <1>17, <2>1, <2>5
    <3>2. ASSUME NEW i \in NewSlots, i < j PROVE MayLieOn(t.new.slot[i], t.new.slot[j])
      <4>1. t.new.slot[i] \in {fee, EmptyRegister} \/ (t.new.slot[i] = maker /\ f2)
        BY <1>2, <1>13, <2>5, <3>2
      <4>2. CASE t.new.slot[i] = maker /\ f2
        BY <1>3, <1>4, <3>1, <4>2 DEF MayLieOn
      <4> QED
        BY <2>2, <4>1, <4>2
    <3> QED
      BY <1>15, <3>1, <3>2
  <2> QED
    BY <2>3, <2>4, <2>5
<1> QED
  BY <1>8, <1>12, <1>16, <1>17 DEF EndsExact, CutsExact

\* An account that trades with itself keeps its position.
LEMMA SelfTradeStays ==
  ASSUME NEW s, NEW t, s.pos \in PosTree, NEW o \in OrderRecords, NEW mk \in OrderRecords,
         o.owner = mk.owner, o.is_ask # mk.is_ask, NEW amount \in Nat, Moved(s, t, o, mk, amount)
  PROVE  ~SignChanged(s, t, o.owner)
<1>1. o.owner \in Accounts /\ o.is_ask \in BOOLEAN /\ mk.is_ask \in BOOLEAN
  BY DEF OrderRecords
<1>2. s.pos[o.owner].position \in Int
  BY <1>1 DEF PosTree, PosSet
<1>3. Delta(o, amount) \in Int /\ Delta(mk, amount) = -Delta(o, amount)
  BY <1>1 DEF Delta
<1>4. t.pos[o.owner].position =
        s.pos[o.owner].position + (IF ~Spot THEN Delta(o, amount) ELSE 0)
                                + (IF ~Spot THEN Delta(mk, amount) ELSE 0)
  BY <1>1 DEF Moved
<1>5. t.pos[o.owner].position = s.pos[o.owner].position
  BY <1>2, <1>3, <1>4
<1> QED
  BY <1>5 DEF SignChanged

\* A whole step of the matching engine leaves exact cancel-alls.
LEMMA MatchingCuts ==
  ASSUME NEW u, u = setup, u.max_nonce \in Nat, NEW s, StateInv(u, s), Counted(s), Calm(s),
         s.new = NoNewInstructions, NEW reg, reg = Top(s), IsInsert(reg), NEW c, Verdict(c),
         NEW time, NEW price, NEW t, t = ExecuteMatching(s, c, time, price)
  PROVE  EndsExact(t)
<1>1. PICK condition :
        \/ NoMakerMet(Assert(s, condition), t, reg)
        \/ \E m \in Nonces : \E d, x, y : MakerMet(Assert(s, condition), t, reg, c, m, d, x, y)
  BY MatchingCases
<1>2. reg # EmptyRegister /\ reg.type = "INSERT_ORDER"
  BY DEF IsInsert
<1>3. RegisterInv(u, s.market, s.orders, reg) /\ reg \in InstructionRecords
  BY <1>2, TopIsInstruction
<1>4. reg.order \in OrderSet(u) /\ reg.order \in OrderRecords /\ Inserting(reg)
  BY <1>2, <1>3 DEF RegisterInv, OrderSet, IsInsert, Inserting, InstructionRecords
<1> DEFINE s0 == Assert(s, condition)
<1>5. /\ StateInv(u, s0) /\ s0.rs = s.rs /\ s0.new = s.new /\ s0.pos = s.pos /\ s0.orders = s.orders
  BY AssertedIsGood
<1>6. Counted(s0)
  <2>1. Beside(s, s0)
    BY SmallSteps DEF Counted, Shaped
  <2> QED
    BY <2>1, BesideCounts
<1>7. NoMakerMet(s0, t, reg) \/ \E m \in Nonces : \E d, x, y : MakerMet(s0, t, reg, c, m, d, x, y)
  BY <1>1
<1>8. Free(s0)
  <2>1. Free(s)
    BY StackPlaces DEF Free, Calm, NoNewInstructions
  <2>2. SameStacks(s, s0)
    BY StacksStay DEF Calm, Registered
  <2> QED
    BY <2>1, <2>2, FreeSteps
<1> HIDE DEF s0
<1>9. Top(s0) = reg /\ Nonces = NoncesOf(u)
  BY <1>5 DEF Top, Nonces, NoncesOf, FIRST_ASK_NONCE, FIRST_BID_NONCE, MaxNonce
<1>10. CASE NoMakerMet(s0, t, reg)
  <2>1. Free(Popped(s0))
    BY <1>8, FreeSteps
  <2>2. Free(t)
    BY <1>10, <2>1, LeavesFree DEF NoMakerMet
  <2> QED
    BY <2>2, CalmIsExact DEF Free
<1>11. ASSUME NEW m \in Nonces, NEW d, NEW x, NEW y, MakerMet(s0, t, reg, c, m, d, x, y)
       PROVE  EndsExact(t)
  <2> DEFINE o == reg.order
             mk == s0.orders[m]
             amount == d.amount
             left == Top(x).order
  <2>1. /\ CanTrade(reg) /\ Active(s0.orders, m) /\ mk.remaining # 0 /\ mk.is_ask # o.is_ask
        /\ Feasible(o, mk, d) /\ Trades(s0, x, m, d) /\ Leaves(x, y, left, m)
        /\ d.kind # "TRADE" => t = y
        /\ d.kind = "TRADE" => SlippageFits(o, mk, amount, reg.acc) /\ Notices(s0, x, y, t, o, mk, c)
    BY <1>11 DEF MakerMet
  <2>2. mk # NoOrder /\ mk \in OrderRecords
    BY <1>6, <2>1 DEF Active, Counted, Shaped, OrderRows
  <2>3. o = reg.order /\ o \in OrderRecords /\ mk = s0.orders[m] /\ amount = d.amount
    BY <1>4
  <2> HIDE DEF o, mk, amount, left
  <2>4. Free(x)
    BY <1>4, <1>8, <1>9, <2>1, TradedCalm
  <2>5. Free(y)
    BY <2>1, <2>4, BothLeaveFree
  <2>6. CASE d.kind # "TRADE"
    BY <2>1, <2>5, <2>6, CalmIsExact DEF Free
  <2>7. CASE d.kind = "TRADE"
    <3>1. Counted(x) /\ x.orders[m] # NoOrder
      <4>1. DOMAIN s0.rs = {"stack", "count"} /\ DOMAIN s0.rs.stack = Slots
        BY <1>8 DEF Free, Calm, Registered
      <4> QED
        BY <1>3, <1>6, <1>9, <2>1, <2>2, <2>3, <4>1, TradedCounts
    <3>2. Counted(y)
      BY <2>1, <3>1, LeftCounts
    <3>3. Moved(s0, x, o, mk, amount)
      <4>1. m \in NoncesOf(u) /\ s0.new = NoNewInstructions /\ Top(s0) = reg
        BY <1>5, <1>9
      <4> QED
        BY <1>5, <2>1, <2>3, <2>7, <4>1, TradedIsGood
    <3>4. amount \in Nat
      BY <2>1, <2>3, <2>7 DEF Feasible
    <3>5. o.owner = mk.owner => ~SignChanged(s0, x, o.owner)
      <4>1. s0.pos \in PosTree
        BY <1>6 DEF Counted, Shaped
      <4> QED
        BY <2>1, <2>2, <2>3, <3>3, <3>4, <4>1, SelfTradeStays
    <3>6. o.owner \in Accounts /\ mk.owner \in Accounts
      BY <2>2, <2>3 DEF OrderRecords
    <3>7. Notices(s0, x, y, t, o, mk, c)
      BY <2>1, <2>7
    <3> QED
      BY <2>5, <3>2, <3>5, <3>6, <3>7, NoticedCuts
  <2> QED
    BY <2>6, <2>7
<1> QED
  BY <1>7, <1>10, <1>11

\* A transaction that matches ends with exact cancel-alls.
LEMMA MatchedCuts ==
  ASSUME IInv, CountsInv, CutsInv, Matched
  PROVE  CutsInv'
<1>1. PICK s, c : Matches(s, c)
  BY DEF Matched
<1>2. /\ StateInv(setup, s) /\ (s.rs.count = 0 \/ s.new.count = 0) /\ PushAllowed(s.rs, s.new, 3)
      /\ s.new.count = 0 => IsInsert(Top(s))
      /\ \A i \in NewSlots : s.new.slot[i] # EmptyRegister => IsInsert(s.new.slot[i])
      /\ s.rs = rs /\ s.acct = acct /\ s.pos = pos /\ s.orders = orders
      /\ s.market.total_order_count = market.total_order_count
      /\ Verdict(c) /\ Become(ApplyAndMatch(s, c))
  BY <1>1 DEF Matches
<1>3. Registered(s) /\ \A k \in Slots : rs.stack[k] # EmptyRegister <=> k < rs.count
  BY <1>2 DEF StateInv, TreesInv, Typed, StackInv, NewInv, Registered
<1>4. Calm(s)
  <2>1. NoCuts(s.new.slot)
    <3>1. \A r : IsInsert(r) => ~IsCut(r)
      BY DEF IsInsert, IsCut, CancelAllKinds
    <3> QED
      BY <1>2, <1>3, <3>1 DEF NoCuts, IsCut, Registered
  <2>2. IsEmpty(rs) \/ Keeps(Top(Tx))
    <3>1. CASE s.new.count = 0
      <4>1. Top(s) = Top(Tx) /\ IsInsert(Top(Tx))
        BY <1>2, <3>1, TxCuts DEF Top
      <4> QED
        BY <4>1 DEF IsInsert, Keeps, CancelAllKinds
    <3>2. CASE s.rs.count = 0
      BY <1>2, <1>3, <3>2, StackPlaces DEF IsEmpty
    <3> QED
      BY <1>2, <3>1, <3>2
  <2>3. NoCuts(rs.stack)
    BY <2>2, CalmTx, TxCuts DEF Calm
  <2> QED
    BY <1>2, <1>3, <2>1, <2>3 DEF Calm
<1>5. Counted(s)
  <2>1. DOMAIN s = TxFields /\ DOMAIN s.market = MarketFields
    BY <1>2 DEF StateInv, TreesInv, TreeInv, Typed, MarketSet, MarketFields
  <2>2. Beside(Tx, s)
    BY <1>2, <2>1, TxFacts DEF Beside
  <2> QED
    BY <2>2, BesideCounts DEF CountsInv
<1> DEFINE three == 3
           x == PushInstructionStack(s, three)
           reg == Top(x)
           t == ExecuteMatching(x, c, now, mark)
<1>6. Become(t)
  BY <1>2 DEF ApplyAndMatch, Apply
<1>7. x = PushInstructionStack(s, three) /\ three \in {3, 8} /\ PushAllowed(s.rs, s.new, three)
  BY <1>2
<1>8. Counted(x)
  <2> HIDE DEF three
  <2>1. Beside(s, x)
    BY <1>5, SmallSteps DEF Counted, Shaped
  <2> QED
    BY <1>5, <2>1, BesideCounts
<1>9. t = ExecuteMatching(x, c, now, mark) /\ reg = Top(x)
  OBVIOUS
<1> HIDE DEF three, x, reg, t
<1>10. Calm(x)
  BY <1>3, <1>4, <1>7, PushedCuts
<1>11. /\ StateInv(setup, x) /\ x.new = NoNewInstructions /\ IsInsert(Top(x))
  <2>1. /\ StateInv(setup, x) /\ x.new = NoNewInstructions
        /\ s.new.count = 0 => x.rs.stack = s.rs.stack
        /\ s.new.count # 0 => \E i \in NewSlots : /\ s.new.slot[i] # EmptyRegister
                                                  /\ Top(x) = s.new.slot[i]
    BY <1>2, <1>7, PushIsGood
  <2>2. s.new.count = 0 => Top(x) = Top(s)
    BY <2>1 DEF Top
  <2> QED
    BY <1>2, <2>1, <2>2
<1>12. setup.max_nonce \in Nat
  BY SetupFacts DEF IInv
<1>13. EndsExact(t)
  <2> DEFINE u == setup
  <2>1. u = setup /\ u.max_nonce \in Nat /\ StateInv(u, x)
    BY <1>11, <1>12
  <2> HIDE DEF u
  <2> QED
    BY <1>2, <1>8, <1>9, <1>10, <1>11, <2>1, MatchingCuts
<1> QED
  BY <1>6, <1>13, BecomeCuts

-----------------------------------------------------------------------------
(* The cancel-alls on the stack are exact in every state.                  *)

\* At first the stack is empty.
LEMMA InitCuts == Init => CutsInv
<1> SUFFICES ASSUME Init PROVE CutsInv
  OBVIOUS
<1>1. rs.stack = EmptyStack.stack
  <2>1. rs = EmptyStack
    BY DEF Init
  <2> QED
    BY <2>1
<1>2. DOMAIN EmptyStack.stack = Slots /\ \A k \in Slots : EmptyStack.stack[k] = EmptyRegister
  BY DEF EmptyStack
<1> QED
  BY <1>1, <1>2, StackPlaces DEF CutsInv, CutsExact

\* A step that changes neither the state nor the set-up.
LEMMA SameTxCuts ==
  ASSUME CutsInv, Tx' = Tx, setup' = setup, rs' = rs
  PROVE  CutsInv'
<1>1. Nonces' = Nonces
  BY DEF Nonces, FIRST_ASK_NONCE, FIRST_BID_NONCE, MaxNonce
<1> DEFINE q == Tx'
<1>2. CutsExact(q, rs.stack)
  BY DEF CutsInv
<1> QED
  BY <1>1, <1>2, Zenon DEF CutsInv, CutsExact, CutBy, OwnedIn, LiveIn, q

\* Every request of a user.
LEMMA UserCuts == ASSUME IInv, CountsInv, CutsInv, UserNext PROVE CutsInv'
<1>1. \A g \in GroupRequests : g.orders \in Seq(Requests) /\ g.type \in GroupTypes
  BY SetupFacts DEF IInv, GroupTypes
<1>2. ASSUME NEW i \in Nonces, NEW r \in ModifyRequests, L2ModifyOrder(i, r) PROVE CutsInv'
  BY <1>2, ModifyCuts
<1>3. ASSUME NEW i \in Nonces, L2CancelOrder(i) PROVE CutsInv'
  BY <1>3, CancelFollowedCuts DEF L2CancelOrder, UserTransaction
<1>4. ASSUME NEW a \in Accounts, NEW f \in CreateRequests, NEW c \in Verdicts, L2CreateOrder(a, f, c)
      PROVE  CutsInv'
  <2>1. Matched \/ OfStatus(f) # "NA"
    BY <1>4, L2CreateOrderStep
  <2> QED
    BY <1>4, <2>1, MatchedCuts, CreateCuts
<1>5. ASSUME NEW a \in Accounts, NEW g \in GroupRequests, NEW c \in Verdicts,
             L2CreateGroupedOrders(a, g.orders, g.type, c)
      PROVE  CutsInv'
  <2> DEFINE list == g.orders
             type == g.type
  <2>1. list \in Seq(Requests) /\ type \in GroupTypes /\ L2CreateGroupedOrders(a, list, type, c)
    BY <1>1, <1>5
  <2> HIDE DEF list, type
  <2> QED
    BY <2>1, L2CreateGroupedOrdersStep, MatchedCuts
<1>6. ASSUME NEW a \in Accounts, NEW f \in L1Requests, NEW c \in Verdicts, L1CreateOrder(a, f, c)
      PROVE  CutsInv'
  BY <1>6, L1CreateOrderStep, MatchedCuts
<1>7. ASSUME NEW a \in Accounts, NEW kind \in CancelAllRequests, NEW time \in 0 .. MaxTime,
             L2CancelAllOrders(a, kind, time)
      PROVE  CutsInv'
  BY <1>7, CancelAllOrdersCuts
<1>8. ASSUME NEW a \in Accounts, L1CancelAllOrders(a) PROVE CutsInv'
  BY <1>8, L1CancelAllCuts
<1>9. ASSUME NEW a \in Accounts, NEW isolated \in BOOLEAN, L2UpdateLeverage(a, isolated)
      PROVE  CutsInv'
  BY <1>9, LeverageCuts
<1> QED
  BY <1>2, <1>3, <1>4, <1>5, <1>6, <1>7, <1>8, <1>9 DEF UserNext

\* Every transaction the sequencer adds by itself.
LEMMA SequencerCuts == ASSUME IInv, CountsInv, CutsInv, SequencerNext PROVE CutsInv'
<1>1. ASSUME NEW i \in Nonces, InternalCancelExpiredOrder(i) PROVE CutsInv'
  BY <1>1, CancelFollowedCuts DEF InternalCancelExpiredOrder
<1>2. ASSUME NEW i \in Nonces, InternalTriggerOrder(i) PROVE CutsInv'
  BY <1>2, TriggerCuts
<1>3. ASSUME NEW i \in Nonces, NEW base \in TwapSlices,
             InternalCreateTwapSlice(i, base, orders[i].price)
      PROVE  CutsInv'
  BY <1>3, SliceCuts
<1>4. ASSUME NEW a \in Accounts, InternalCancelAllDms(a) PROVE CutsInv'
  BY <1>4, DmsCuts
<1>5. ASSUME NEW a \in Accounts, InternalCancelAllLiquidation(a) PROVE CutsInv'
  BY <1>5, LiquidationCuts
<1>6. ASSUME NEW a \in Accounts, NEW base \in 1 .. PositionTiedAmount(a),
             NEW price \in LiquidationPrices, NEW c \in Verdicts,
             InternalLiquidatePosition(a, base, price, c)
      PROVE  CutsInv'
  BY <1>6, InternalLiquidatePositionStep, MatchedCuts
<1> QED
  BY <1>1, <1>2, <1>3, <1>4, <1>5, <1>6 DEF SequencerNext

\* Every instruction taken from the stack.
LEMMA RegisterCuts == ASSUME IInv, CountsInv, CutsInv, RegisterNext PROVE CutsInv'
<1>1. ASSUME NEW c \in Verdicts, InternalClaimOrder(c) PROVE CutsInv'
  BY <1>1, InternalClaimOrderStep, MatchedCuts
<1> QED
  BY <1>1, SingleCancelCuts, CancelOneOfAllCuts, TriggerChildCuts, TransferCuts DEF RegisterNext

\* Every step.
LEMMA NextCuts == ASSUME IInv, CountsInv, CutsInv, [Next]_vars PROVE CutsInv'
<1>1. CASE UserNext
  BY <1>1, UserCuts
<1>2. CASE SequencerNext
  BY <1>2, SequencerCuts
<1>3. CASE RegisterNext
  BY <1>3, RegisterCuts
<1>4. CASE BlockNext \/ UNCHANGED vars
  <2>1. Tx' = Tx /\ setup' = setup /\ rs' = rs
    BY <1>4 DEF BlockNext, Tick, UpdateMarkPrice, vars, Tx
  <2> QED
    BY <2>1, SameTxCuts
<1> QED
  BY <1>1, <1>2, <1>3, <1>4 DEF Next

\* The cancel-alls on the stack are exact in every state.
LEMMA SpecCuts == Spec => []CutsInv
<1>1. IInv /\ CountsInv /\ CutsInv /\ [Next]_vars => CutsInv'
  BY NextCuts
<1> QED
  BY <1>1, InitCuts, SpecInv, SpecCounts, PTL DEF Spec

(* A cancel-all on the stack counts, at any time, exactly the orders it    *)
(* may still cancel: whatever instructions of other accounts and fees lie  *)
(* on top of it, it neither ends with orders left nor waits for orders     *)
(* that are gone (internal_cancel_order.rs counts down a size that the     *)
(* handlers and the matching engine took from the counters of tx_state.rs  *)
(* when they pushed it).                                                   *)
THEOREM CancelAllsAreExact == Spec => []CancelAllExact
<1>1. IInv /\ CutsInv => CancelAllExact
  <2> SUFFICES ASSUME IInv, CutsInv, NEW reg \in Pending, reg.type \in CancelAllKinds
               PROVE  reg.size = Cardinality({i \in Live : CancelAllTakes(reg, orders[i])})
    BY DEF CancelAllExact
  <2>1. /\ Registered(Tx) /\ CutsExact(Tx, Tx.rs.stack) /\ Tx.rs = rs
        /\ rs.count \in 0 .. 8 /\ \A k \in Slots : rs.stack[k] # EmptyRegister <=> k < rs.count
        /\ Tx.orders = orders /\ Tx.pos = pos
    BY TxCuts, TxFacts DEF IInv, StateInv, TreesInv, StackInv
  <2>2. PICK k \in 0 .. rs.count - 1 : reg = rs.stack[k]
    BY DEF Pending
  <2>3. k \in Slots /\ reg # EmptyRegister
    BY <2>1, <2>2, StackPlaces
  <2>4. reg.size = Cardinality(CutBy(Tx, reg))
    BY <2>1, <2>2, <2>3 DEF CutsExact, IsCut, Registered
  <2>5. CutBy(Tx, reg) = {i \in Live : CancelAllTakes(reg, orders[i])}
    BY <2>1 DEF CutBy, OwnedIn, LiveIn, Live, CancelAllTakes
  <2> QED
    BY <2>4, <2>5
<1> QED
  BY <1>1, SpecInv, SpecCuts, PTL

=============================================================================
