---------------------------- MODULE BlockProofs ----------------------------
(***************************************************************************)
(* A proved block is one sequential execution of the transactions of both  *)
(* chains, for every set of roots, every field and every length of the     *)
(* chains that satisfy ConstantsAssumption, and it publishes exactly what  *)
(* its transactions did, for every number of segments and every limit of   *)
(* on-chain operations.                                                    *)
(*                                                                         *)
(* The invariant of one chain says what its jump state knows: the covered  *)
(* runs and the open run are exactly the indices of its transactions, the  *)
(* claims are exactly the gaps between them, a run is an execution, and a  *)
(* record's new root is the root at its end.  The block circuit compares   *)
(* what one chain covers with what the other one claims; then the gaps of  *)
(* one chain are the transactions of the other, and where the execution    *)
(* goes over from one chain to the other the roots are compared too.       *)
(*                                                                         *)
(* A segment only keeps its last operation of a kind, with a count; what   *)
(* it keeps is all it had as long as the count is at most one, which the   *)
(* chain demands of it.  A message is recognised by its account, so that   *)
(* the treasury, whose index is the one of no account, must sign none.     *)
(***************************************************************************)
EXTENDS BlockOperations, TLAPS

-----------------------------------------------------------------------------
(* Field arithmetic.                                                       *)

\* Remainders: a value in the field is its own,
LEMMA ModSmall ==
  ASSUME NEW n \in Nat \ {0}, NEW x \in Int, 0 <= x, x < n
  PROVE  x % n = x
OBVIOUS

\* one below zero wraps once from below,
LEMMA ModNegative ==
  ASSUME NEW n \in Nat \ {0}, NEW x \in Int, -n <= x, x < 0
  PROVE  x % n = x + n
OBVIOUS

\* one past the end wraps once from above.
LEMMA ModWrapped ==
  ASSUME NEW n \in Nat \ {0}, NEW x \in Int, n <= x, x < 2 * n
  PROVE  x % n = x - n
OBVIOUS

\* Multiples of the gap range.
LEMMA OneMore ==
  ASSUME NEW n \in Nat \ {0}, NEW x \in Nat
  PROVE  (x + 1) * n = x * n + n
OBVIOUS

\* A longer chain may jump further.
LEMMA TimesMonotone ==
  ASSUME NEW n \in Nat \ {0}, NEW x \in Nat, NEW y \in Nat, x <= y
  PROVE  x * n \in Nat /\ x * n <= y * n
OBVIOUS

\* The field has elements, -1 and 0 among them.
LEMMA FieldNat == FieldOrder \in Nat \ {0} /\ NEG_ONE \in Field /\ 0 \in Field
BY ConstantsAssumption DEF Field, NEG_ONE

(* Adding one goes from NEG_ONE to 0 and is otherwise plain addition.      *)
LEMMA AddOne ==
  ASSUME NEW a \in Field
  PROVE  /\ Add(a, 1) \in Field
         /\ Add(a, 1) = IF a = NEG_ONE THEN 0 ELSE a + 1
<1>1. CASE a = NEG_ONE
  <2>1. (a + 1) % FieldOrder = 0
    BY <1>1, FieldNat, ModWrapped DEF Field, NEG_ONE
  <2> QED
    BY <1>1, <2>1, FieldNat DEF Add
<1>2. CASE a # NEG_ONE
  <2>1. a + 1 \in Field /\ 0 <= a + 1 /\ a + 1 < FieldOrder /\ a + 1 \in Int
    BY <1>2, FieldNat DEF Field, NEG_ONE
  <2>2. (a + 1) % FieldOrder = a + 1
    BY <2>1, FieldNat, ModSmall
  <2> QED
    BY <1>2, <2>1, <2>2 DEF Add
<1> QED
  BY <1>1, <1>2

(* Taking one goes from 0 to NEG_ONE and is otherwise plain subtraction.   *)
LEMMA SubOne ==
  ASSUME NEW a \in Field
  PROVE  /\ Sub(a, 1) \in Field
         /\ Sub(a, 1) = IF a = 0 THEN NEG_ONE ELSE a - 1
         /\ Add(Sub(a, 1), 1) = a
<1>1. CASE a = 0
  <2>1. (a - 1) % FieldOrder = FieldOrder - 1
    BY <1>1, FieldNat, ModNegative
  <2>2. Sub(a, 1) = NEG_ONE
    BY <2>1 DEF Sub, NEG_ONE
  <2> QED
    BY <1>1, <2>2, AddOne, FieldNat
<1>2. CASE a # 0
  <2>1. a - 1 \in Field /\ 0 <= a - 1 /\ a - 1 < FieldOrder /\ a - 1 \in Int /\ a - 1 # NEG_ONE
    BY <1>2, FieldNat DEF Field, NEG_ONE
  <2>2. (a - 1) % FieldOrder = a - 1
    BY <2>1, FieldNat, ModSmall
  <2>3. Sub(a, 1) = a - 1 /\ Add(a - 1, 1) = a - 1 + 1
    BY <2>1, <2>2, AddOne DEF Sub
  <2> QED
    BY <1>2, <2>1, <2>3, FieldNat DEF Field
<1> QED
  BY <1>1, <1>2

\* Successors in the field tell indices apart, -1 included.
LEMMA AddOneInjective ==
  ASSUME NEW a \in Field, NEW b \in Field
  PROVE  a = b <=> Add(a, 1) = Add(b, 1)
BY AddOne, FieldNat DEF Field, NEG_ONE

(* An accepted gap is the distance from the end of the chain: the range    *)
(* check leaves no room to go around the field.                            *)
LEMMA GapIsDistance ==
  ASSUME NEW last \in Field, NEW index \in Field, NEW end \in Field,
         end = Add(last, 1), end + GapRange < FieldOrder,
         Sub(Sub(index, last), 1) < GapRange
  PROVE  /\ index = end + Sub(Sub(index, last), 1)
         /\ Sub(Sub(index, last), 1) \in Nat
<1> DEFINE d == Sub(index, last)
<1>0. /\ GapRange \in Nat \ {0} /\ FieldOrder \in Nat \ {0}
      /\ last \in Int /\ index \in Int /\ end \in Int
      /\ 0 <= last /\ last < FieldOrder /\ 0 <= index /\ index < FieldOrder
      /\ 0 <= end /\ end < FieldOrder
  BY ConstantsAssumption DEF Field
<1>1. end = IF last = NEG_ONE THEN 0 ELSE last + 1
  BY AddOne
<1>2. d \in Field /\ d = IF index >= last THEN index - last ELSE index - last + FieldOrder
  <2>1. CASE index >= last
    BY <1>0, <2>1, ModSmall DEF Sub, Field
  <2>2. CASE index < last
    <3>1. (index - last) % FieldOrder = index - last + FieldOrder
      BY <1>0, <2>2, ModNegative
    <3> QED
      BY <1>0, <2>2, <3>1 DEF Sub, Field
  <2> QED
    BY <1>0, <2>1, <2>2
<1>3. Sub(d, 1) \in Field /\ Sub(d, 1) = IF d = 0 THEN NEG_ONE ELSE d - 1
  BY <1>2, SubOne
<1>4. Sub(d, 1) < GapRange
  OBVIOUS
<1> HIDE DEF d
<1>5. d # 0
  BY <1>0, <1>3, <1>4 DEF NEG_ONE
<1>6. index = end + Sub(d, 1)
  BY <1>0, <1>1, <1>2, <1>3, <1>4, <1>5 DEF NEG_ONE, Field
<1> QED
  BY <1>3, <1>6 DEF Field, d

-----------------------------------------------------------------------------
(* The inductive invariant.                                                *)

ActiveTxs == [empty : {FALSE}, index : Field, old : Roots, new : Roots]
Records == [from : Field, to : Field, old : Roots, new : Roots]
JumpStates ==
    [last_active_tx_index : Field, prev_new_root : Roots,
     run_start_prev_index : Field, run_start_old_root : Roots,
     coverage : Seq(Records), claims : Seq(Records), tx_count : Field]

TypeOK ==
    /\ jump \in [Chains -> JumpStates]
    /\ exposed \in [Chains -> Roots]
    /\ size \in [Chains -> Nat]
    /\ log \in [Chains -> Seq(ActiveTxs)]
    /\ block \in Roots \cup {Open}

Elements(s) == {s[k] : k \in 1 .. Len(s)}

\* The indices of a record, `from` being the last one before them.
Low(r) == Add(r.from, 1)
Span(r) == Low(r) .. (r.to - 1)
Spans(records) == UNION {Span(r) : r \in records}

Indices(T) == {t.index : t \in T}

\* Transactions T end before E, in the given root.
EndInv(T, E, root) ==
    /\ \A t \in T : t.index < E
    /\ E = 0 => root = InitialRoot
    /\ E # 0 => \E t \in T : t.index = E - 1 /\ t.new = root

\* The records and the open run S .. E - 1 are the transactions.
CoverageInv(T, records, S, E) ==
    /\ S <= E
    /\ \A r \in records : \E t \in T : t.index = r.to - 1 /\ t.new = r.new
    /\ Indices(T) = (S .. (E - 1)) \cup Spans(records)

\* The records are the gaps before E; a transaction after a gap starts from
\* the root that is claimed for the end of the gap.
ClaimsInv(T, records, E) ==
    /\ (0 .. (E - 1)) \ Indices(T) = Spans(records)
    /\ \A t \in T : \/ t.index = 0
                    \/ t.index - 1 \in Indices(T)
                    \/ \E r \in records : r.to = t.index /\ r.new = t.old

\* The transactions of a run are one execution, and no index occurs twice.
RunInv(T) ==
    /\ \A t \in T : t.index = 0 => t.old = InitialRoot
    /\ \A t, u \in T : u.index = t.index + 1 => u.old = t.new
    /\ \A t, u \in T : u.index = t.index => u = t

TxsOf(c) == Elements(log[c])
End(c) == Add(jump[c].last_active_tx_index, 1)
Start(c) == Add(jump[c].run_start_prev_index, 1)

CountInv(c) ==
    /\ size[c] <= MaxTxs[c]
    /\ Len(log[c]) <= size[c]
    /\ jump[c].tx_count = Len(log[c])
    /\ End(c) <= size[c] * GapRange

ChainInv(c) ==
    /\ CountInv(c)
    /\ EndInv(TxsOf(c), End(c), jump[c].prev_new_root)
    /\ CoverageInv(TxsOf(c), Elements(jump[c].coverage), Start(c), End(c))
    /\ ClaimsInv(TxsOf(c), Elements(jump[c].claims), End(c))
    /\ RunInv(TxsOf(c))

IInv == TypeOK /\ (\A c \in Chains : ChainInv(c)) /\ BlockIsSequential

-----------------------------------------------------------------------------
(* What an accepted transaction tx does to each part of the invariant.     *)

\* Indices are natural numbers below the order of the field.
LEMMA IndexNat ==
  ASSUME NEW T \in SUBSET ActiveTxs
  PROVE  \A t \in T : t.index \in Nat /\ t.index < FieldOrder
<1> SUFFICES ASSUME NEW t \in T PROVE t.index \in Nat /\ t.index < FieldOrder
  OBVIOUS
<1>1. t.index \in Field
  BY DEF ActiveTxs
<1> QED
  BY <1>1, FieldNat DEF Field

\* Field elements are integers in range.
LEMMA FieldIsNat == \A x \in Field : x \in Nat /\ x < FieldOrder
BY FieldNat DEF Field

\* The transaction that comes behind all others is the new end of the chain.
LEMMA EndStep ==
  ASSUME NEW T \in SUBSET ActiveTxs, NEW E \in Field, NEW root, EndInv(T, E, root),
         NEW tx \in ActiveTxs, E <= tx.index
  PROVE  EndInv(T \cup {tx}, tx.index + 1, tx.new)
<1> USE FieldIsNat, IndexNat
<1>0. T \cup {tx} \subseteq ActiveTxs /\ E \in Nat
  OBVIOUS
<1>1. \A t \in T \cup {tx} : t.index \in Nat
  BY <1>0
<1>2. \A t \in T \cup {tx} : t.index < tx.index + 1
  BY <1>0, <1>1 DEF EndInv
<1>3. tx.index + 1 # 0 /\ tx.index + 1 - 1 = tx.index
  BY <1>1
<1> QED
  BY <1>2, <1>3 DEF EndInv

\* Neighbours in a chain fit together: a transaction with the index that was
\* next starts from the root the chain was at.
LEMMA RunStep ==
  ASSUME NEW T \in SUBSET ActiveTxs, NEW E \in Field, NEW root, EndInv(T, E, root),
         NEW tx \in ActiveTxs, E <= tx.index, tx.index = E => tx.old = root, RunInv(T)
  PROVE  RunInv(T \cup {tx})
<1>0. /\ \A x \in Field : x \in Nat
      /\ \A t \in T \cup {tx} : t.index \in Nat /\ t.index \in Field
  BY FieldIsNat, IndexNat DEF ActiveTxs
<1> USE <1>0
<1>1. \A t \in T : t.index \in Nat /\ t.index < tx.index
  BY DEF EndInv
<1>2. tx.index = 0 => tx.old = InitialRoot
  BY DEF EndInv
<1>3. \A t \in T : tx.index = t.index + 1 => tx.old = t.new
  <2> TAKE t \in T
  <2> HAVE tx.index = t.index + 1
  <2>1. E = tx.index /\ E # 0
    BY DEF EndInv
  <2>2. PICK u \in T : u.index = E - 1 /\ u.new = root
    BY <2>1 DEF EndInv
  <2>3. u.index = t.index
    BY <2>1, <2>2
  <2>4. u = t
    BY <2>3 DEF RunInv
  <2> QED
    BY <2>1, <2>2, <2>4
<1>4. \A t, u \in T \cup {tx} : u.index = t.index + 1 => u.old = t.new
  BY <1>1, <1>3 DEF RunInv
<1>5. \A t, u \in T \cup {tx} : u.index = t.index => u = t
  BY <1>1 DEF RunInv
<1> QED
  BY <1>2, <1>4, <1>5 DEF RunInv

\* One transaction adds one index.
LEMMA IndicesStep ==
  ASSUME NEW T, NEW tx
  PROVE  Indices(T \cup {tx}) = Indices(T) \cup {tx.index}
BY DEF Indices

\* One record adds one span of indices.
LEMMA SpansStep ==
  ASSUME NEW records, NEW r
  PROVE  Spans(records \cup {r}) = Spans(records) \cup Span(r)
BY DEF Spans

(* A transaction without a gap continues the open run.                     *)
LEMMA CoverageContinues ==
  ASSUME NEW T \in SUBSET ActiveTxs, NEW E \in Field, NEW S \in Field,
         NEW records, CoverageInv(T, records, S, E),
         NEW tx \in ActiveTxs, tx.index = E
  PROVE  CoverageInv(T \cup {tx}, records, S, E + 1)
<1>1. E \in Nat /\ S \in Nat /\ S <= E
  BY FieldIsNat DEF CoverageInv
<1>2. S .. ((E + 1) - 1) = (S .. (E - 1)) \cup {E}
  BY <1>1
<1>3. Indices(T \cup {tx}) = (S .. ((E + 1) - 1)) \cup Spans(records)
  BY <1>2, IndicesStep DEF CoverageInv
<1>4. S <= E + 1
  BY <1>1
<1>5. \A r \in records : \E t \in T \cup {tx} : t.index = r.to - 1 /\ t.new = r.new
  BY Zenon DEF CoverageInv
<1> QED
  BY <1>3, <1>4, <1>5, Zenon DEF CoverageInv

(* A transaction after a gap opens a run, and closes the open one.         *)
LEMMA CoverageJumps ==
  ASSUME NEW T \in SUBSET ActiveTxs, NEW E \in Field, NEW S \in Field, NEW root,
         NEW records, CoverageInv(T, records, S, E), EndInv(T, E, root),
         NEW tx \in ActiveTxs,
         NEW r, Low(r) = S, r.to = E, r.new = root
  PROVE  LET more == IF E # S THEN records \cup {r} ELSE records
         IN  CoverageInv(T \cup {tx}, more, tx.index, tx.index + 1)
<1> DEFINE more == IF E # S THEN records \cup {r} ELSE records
<1>0. (E # S => more = records \cup {r}) /\ (E = S => more = records)
  OBVIOUS
<1> SUFFICES CoverageInv(T \cup {tx}, more, tx.index, tx.index + 1)
  OBVIOUS
<1> HIDE DEF more
<1>1. E \in Nat /\ S \in Nat /\ S <= E /\ tx.index \in Nat
  BY FieldIsNat DEF CoverageInv, ActiveTxs
<1>2. Spans(more) = (S .. (E - 1)) \cup Spans(records)
  <2>1. CASE E # S
    BY <1>0, <2>1, SpansStep DEF Span
  <2>2. CASE E = S
    BY <1>0, <1>1, <2>2
  <2> QED
    BY <2>1, <2>2
<1>3. Indices(T \cup {tx}) = (tx.index .. ((tx.index + 1) - 1)) \cup Spans(more)
  <2>1. tx.index .. ((tx.index + 1) - 1) = {tx.index}
    BY <1>1
  <2>2. Indices(T \cup {tx}) = Indices(T) \cup {tx.index}
    BY IndicesStep, Zenon
  <2>3. Indices(T) = Spans(more)
    BY <1>2, Zenon DEF CoverageInv
  <2> QED
    BY <2>1, <2>2, <2>3
<1>4. \A q \in more : \E t \in T \cup {tx} : t.index = q.to - 1 /\ t.new = q.new
  <2>1. E # S => \E t \in T : t.index = E - 1 /\ t.new = root
    BY <1>1 DEF EndInv
  <2> QED
    BY <1>0, <2>1 DEF CoverageInv
<1>5. tx.index <= tx.index + 1
  BY <1>1
<1> QED
  BY <1>3, <1>4, <1>5, Zenon DEF CoverageInv

(* A transaction without a gap claims nothing.                             *)
LEMMA ClaimsContinue ==
  ASSUME NEW T \in SUBSET ActiveTxs, NEW E \in Field, NEW root,
         NEW records, ClaimsInv(T, records, E), EndInv(T, E, root),
         NEW tx \in ActiveTxs, tx.index = E
  PROVE  ClaimsInv(T \cup {tx}, records, E + 1)
<1>1. E \in Nat
  BY FieldIsNat
<1>2. 0 .. ((E + 1) - 1) = (0 .. (E - 1)) \cup {E}
  BY <1>1
<1>3. (0 .. ((E + 1) - 1)) \ Indices(T \cup {tx}) = (0 .. (E - 1)) \ Indices(T)
  <2>1. E \notin 0 .. (E - 1)
    BY <1>1
  <2> QED
    BY <1>2, <2>1, IndicesStep
<1>4. E = 0 \/ E - 1 \in Indices(T)
  BY DEF EndInv, Indices
<1>5. \A x \in Indices(T) : x \in Indices(T \cup {tx})
  BY IndicesStep
<1>6. \A t \in T \cup {tx} : \/ t.index = 0
                             \/ t.index - 1 \in Indices(T \cup {tx})
                             \/ \E r \in records : r.to = t.index /\ r.new = t.old
  BY <1>4, <1>5, Zenon DEF ClaimsInv
<1> QED
  BY <1>3, <1>6, Zenon DEF ClaimsInv

(* A transaction after a gap claims the gap, up to its own old root.       *)
LEMMA ClaimsJump ==
  ASSUME NEW T \in SUBSET ActiveTxs, NEW E \in Field, NEW root,
         NEW records, ClaimsInv(T, records, E), EndInv(T, E, root),
         NEW tx \in ActiveTxs, E < tx.index,
         NEW r, Low(r) = E, r.to = tx.index, r.new = tx.old
  PROVE  ClaimsInv(T \cup {tx}, records \cup {r}, tx.index + 1)
<1>1. E \in Nat /\ tx.index \in Nat
  BY FieldIsNat DEF ActiveTxs
<1>2. Span(r) = E .. (tx.index - 1)
  BY DEF Span
<1>3. 0 .. ((tx.index + 1) - 1) = (0 .. (E - 1)) \cup (E .. (tx.index - 1)) \cup {tx.index}
  BY <1>1
<1>4. \A x \in Indices(T) \cup {tx.index} : x \notin E .. (tx.index - 1)
  BY <1>1, IndexNat DEF EndInv, Indices
<1>5. tx.index \notin 0 .. (E - 1)
  BY <1>1
<1>6. (0 .. ((tx.index + 1) - 1)) \ Indices(T \cup {tx}) = Spans(records \cup {r})
  <2>1. Indices(T \cup {tx}) = Indices(T) \cup {tx.index}
    BY IndicesStep, Zenon
  <2>2. Spans(records \cup {r}) = Spans(records) \cup (E .. (tx.index - 1))
    BY <1>2, SpansStep, Zenon
  <2>3. Spans(records) = (0 .. (E - 1)) \ Indices(T)
    BY Zenon DEF ClaimsInv
  <2> QED
    BY <1>3, <1>4, <1>5, <2>1, <2>2, <2>3
<1>7. \A x \in Indices(T) : x \in Indices(T \cup {tx})
  BY IndicesStep
<1>8. \A t \in T \cup {tx} : \/ t.index = 0
                             \/ t.index - 1 \in Indices(T \cup {tx})
                             \/ \E q \in records \cup {r} : q.to = t.index /\ q.new = t.old
  BY <1>7, Zenon DEF ClaimsInv
<1> QED
  BY <1>6, <1>8, Zenon DEF ClaimsInv

-----------------------------------------------------------------------------
(* The steps of a chain.                                                   *)

\* Appending adds one element to a sequence and to its set.
LEMMA ElementsAppend ==
  ASSUME NEW S, NEW s \in Seq(S), NEW x \in S
  PROVE  /\ Elements(s) \subseteq S
         /\ Append(s, x) \in Seq(S)
         /\ Len(Append(s, x)) = Len(s) + 1
         /\ Elements(Append(s, x)) = Elements(s) \cup {x}
<1>1. /\ Append(s, x) \in Seq(S)
      /\ Len(Append(s, x)) = Len(s) + 1
      /\ Len(s) \in Nat
  OBVIOUS
<1>2. \A k \in 1 .. Len(s) : s[k] \in S /\ Append(s, x)[k] = s[k]
  OBVIOUS
<1>3. Append(s, x)[Len(s) + 1] = x
  OBVIOUS
<1>4. 1 .. Len(s) + 1 = (1 .. Len(s)) \cup {Len(s) + 1}
  BY <1>1
<1> QED
  BY <1>1, <1>2, <1>3, <1>4 DEF Elements

\* No chain is long enough for its gaps to go around the field.
LEMMA BoundFits ==
  ASSUME NEW c \in Chains
  PROVE  MaxTxs[c] \in Nat /\ MaxTxs[c] * GapRange < FieldOrder - 1
BY ConstantsAssumption DEF MaxTxs, Chains

\* The types of the fields of a jump state.
LEMMA JumpStateFields ==
  ASSUME NEW j \in JumpStates
  PROVE  /\ j.last_active_tx_index \in Field /\ j.prev_new_root \in Roots
         /\ j.run_start_prev_index \in Field /\ j.run_start_old_root \in Roots
         /\ j.coverage \in Seq(Records) /\ j.claims \in Seq(Records)
         /\ j.tx_count \in Field
BY DEF JumpStates

\* The types of the fields of a transaction that is not padding.
LEMMA ActiveFields ==
  ASSUME NEW tx \in ActiveTxs
  PROVE  tx.empty = FALSE /\ tx.index \in Field /\ tx.old \in Roots /\ tx.new \in Roots
BY DEF ActiveTxs

(* An accepted transaction comes at or after the end of its chain, within  *)
(* the range of the gap, and the new end does not wrap around.             *)
LEMMA AcceptedIndex ==
  ASSUME NEW c \in Chains, TypeOK, CountInv(c), size[c] < MaxTxs[c],
         NEW tx \in ActiveTxs, JumpStepAccepted(jump[c], tx)
  PROVE  /\ GapMinusOne(jump[c], tx) \in Nat
         /\ tx.index = End(c) + GapMinusOne(jump[c], tx)
         /\ Add(tx.index, 1) = tx.index + 1
         /\ tx.index + 1 <= (size[c] + 1) * GapRange
         /\ End(c) \in Field
<1> DEFINE gap == GapMinusOne(jump[c], tx)
<1>1. jump[c] \in JumpStates /\ size[c] \in Nat
  BY DEF TypeOK
<1>2. End(c) \in Field /\ jump[c].last_active_tx_index \in Field /\ tx.index \in Field
  BY <1>1, AddOne, JumpStateFields, ActiveFields DEF End
<1>3. GapRange \in Nat \ {0} /\ FieldOrder \in Nat \ {0}
  BY ConstantsAssumption
<1>4. (size[c] + 1) * GapRange = size[c] * GapRange + GapRange /\ size[c] * GapRange \in Nat
  BY <1>1, <1>3, OneMore, TimesMonotone
<1>5. (size[c] + 1) * GapRange <= MaxTxs[c] * GapRange
  <2>1. size[c] + 1 <= MaxTxs[c] /\ size[c] + 1 \in Nat /\ MaxTxs[c] \in Nat
    BY <1>1, BoundFits
  <2> QED
    BY <1>3, <2>1, TimesMonotone
<1>6. End(c) <= size[c] * GapRange
  BY DEF CountInv
<1>7. End(c) + GapRange < FieldOrder - 1 /\ End(c) + GapRange <= (size[c] + 1) * GapRange
  <2>1. End(c) \in Int /\ MaxTxs[c] * GapRange < FieldOrder - 1 /\ MaxTxs[c] * GapRange \in Int
    BY <1>2, <1>3, BoundFits, FieldIsNat
  <2> QED
    BY <1>3, <1>4, <1>5, <1>6, <2>1
<1>8. gap < GapRange
  BY ActiveFields DEF JumpStepAccepted
<1>9. gap \in Nat /\ tx.index = End(c) + gap
  <2>1. End(c) + GapRange < FieldOrder
    BY <1>2, <1>3, <1>7, FieldIsNat
  <2>2. End(c) = Add(jump[c].last_active_tx_index, 1)
    BY DEF End
  <2> QED
    BY <1>2, <1>8, <2>1, <2>2, GapIsDistance DEF GapMinusOne
<1> HIDE DEF gap
<1>10. tx.index + 1 <= End(c) + GapRange
  BY <1>2, <1>3, <1>8, <1>9, FieldIsNat
<1>11. tx.index # NEG_ONE
  BY <1>2, <1>3, <1>7, <1>10, FieldIsNat DEF NEG_ONE
<1>12. Add(tx.index, 1) = tx.index + 1
  BY <1>2, <1>11, AddOne
<1>13. tx.index + 1 <= (size[c] + 1) * GapRange
  BY <1>2, <1>3, <1>4, <1>7, <1>10, FieldIsNat
<1> QED
  BY <1>2, <1>9, <1>12, <1>13 DEF gap

\* A record of a run or of a gap holds what it was made from.
LEMMA RecordIsTyped ==
  ASSUME NEW from \in Field, NEW to \in Field, NEW old \in Roots, NEW new \in Roots
  PROVE  /\ Record(from, to, old, new) \in Records
         /\ Record(from, to, old, new).from = from
         /\ Record(from, to, old, new).to = to
         /\ Record(from, to, old, new).new = new
BY DEF Record, Records

\* The jump state a chain starts from.
LEMMA InitialJumpIsTyped ==
  /\ InitialJump \in JumpStates
  /\ InitialJump.last_active_tx_index = NEG_ONE /\ InitialJump.prev_new_root = InitialRoot
  /\ InitialJump.run_start_prev_index = NEG_ONE /\ InitialJump.tx_count = 0
  /\ InitialJump.coverage = <<>> /\ InitialJump.claims = <<>>
<1>1. NEG_ONE \in Field /\ 0 \in Field /\ InitialRoot \in Roots /\ <<>> \in Seq(Records)
  BY FieldNat, ConstantsAssumption
<1> QED
  BY <1>1 DEF InitialJump, JumpStates

(* The jump state after an active transaction, field by field.             *)
LEMMA ActiveJump ==
  ASSUME NEW j \in JumpStates, NEW tx \in ActiveTxs,
         NEW j2, j2 = DefineJumpStep(j, tx)
  PROVE  /\ j2 \in JumpStates
         /\ j2.last_active_tx_index = tx.index
         /\ j2.prev_new_root = tx.new
         /\ j2.run_start_prev_index = IF GapMinusOne(j, tx) # 0 THEN Sub(tx.index, 1) ELSE j.run_start_prev_index
         /\ j2.coverage = FoldIf(GapMinusOne(j, tx) # 0 /\ RunNonempty(j), j.coverage, CoverageRecord(j))
         /\ j2.claims = FoldIf(GapMinusOne(j, tx) # 0, j.claims, ClaimRecord(j, tx.index, tx.old))
         /\ j2.tx_count = Add(j.tx_count, 1)
<1>1. /\ CoverageRecord(j) \in Records
      /\ ClaimRecord(j, tx.index, tx.old) \in Records
  BY JumpStateFields, ActiveFields, AddOne, RecordIsTyped DEF CoverageRecord, ClaimRecord
<1>2. /\ Sub(tx.index, 1) \in Field
      /\ Add(j.tx_count, 1) \in Field
  BY JumpStateFields, ActiveFields, AddOne, SubOne
<1>3. /\ j.coverage \in Seq(Records) /\ Append(j.coverage, CoverageRecord(j)) \in Seq(Records)
      /\ j.claims \in Seq(Records) 
      /\ Append(j.claims, ClaimRecord(j, tx.index, tx.old)) \in Seq(Records)
  BY <1>1, JumpStateFields
<1>4. j2 = [last_active_tx_index |-> tx.index,
              prev_new_root        |-> tx.new,
              run_start_prev_index |-> IF GapMinusOne(j, tx) # 0 THEN Sub(tx.index, 1) ELSE j.run_start_prev_index,
              run_start_old_root   |-> IF GapMinusOne(j, tx) # 0 THEN tx.old ELSE j.run_start_old_root,
              coverage |-> FoldIf(GapMinusOne(j, tx) # 0 /\ RunNonempty(j), j.coverage, CoverageRecord(j)),
              claims   |-> FoldIf(GapMinusOne(j, tx) # 0, j.claims, ClaimRecord(j, tx.index, tx.old)),
              tx_count |-> Add(j.tx_count, 1)]
  BY ActiveFields DEF DefineJumpStep
<1>5. /\ FoldIf(GapMinusOne(j, tx) # 0 /\ RunNonempty(j), j.coverage, CoverageRecord(j)) \in Seq(Records)
      /\ FoldIf(GapMinusOne(j, tx) # 0, j.claims, ClaimRecord(j, tx.index, tx.old)) \in Seq(Records)
      /\ (IF GapMinusOne(j, tx) # 0 THEN Sub(tx.index, 1) ELSE j.run_start_prev_index) \in Field
      /\ (IF GapMinusOne(j, tx) # 0 THEN tx.old ELSE j.run_start_old_root) \in Roots
  BY <1>2, <1>3, JumpStateFields, ActiveFields DEF FoldIf
<1>6. tx.index \in Field /\ tx.new \in Roots
  BY ActiveFields
<1>7. j2 \in JumpStates
  BY <1>2, <1>4, <1>5, <1>6 DEF JumpStates
<1> QED
  BY <1>4, <1>7

(* An active transaction preserves the invariant of its chain.             *)
LEMMA ActiveStep ==
  ASSUME NEW c \in Chains, TypeOK, ChainInv(c), NEW tx \in ActiveTxs, DefineTx(c, tx)
  PROVE  ChainInv(c)'
<1> DEFINE j == jump[c]
           gap == GapMinusOne(j, tx)
           T == TxsOf(c)
           E == End(c)
           S == Start(c)
           C == Elements(j.coverage)
           K == Elements(j.claims)
<1>1. /\ j \in JumpStates /\ log[c] \in Seq(ActiveTxs) /\ size[c] \in Nat
      /\ jump'[c] = DefineJumpStep(j, tx)
      /\ log'[c] = Append(log[c], tx)
      /\ size'[c] = size[c] + 1
      /\ size[c] < MaxTxs[c] /\ JumpStepAccepted(j, tx)
  BY ActiveFields DEF TypeOK, DefineTx
<1>2. /\ gap \in Nat /\ tx.index = E + gap /\ Add(tx.index, 1) = tx.index + 1
      /\ tx.index + 1 <= (size[c] + 1) * GapRange /\ E \in Field
  BY <1>1, AcceptedIndex DEF ChainInv
<1>3. S \in Field /\ T \in SUBSET ActiveTxs /\ E \in Nat /\ tx.index \in Nat
  <2>1. S \in Field
    BY <1>1, AddOne, JumpStateFields DEF Start
  <2>2. T \in SUBSET ActiveTxs
    BY <1>1, ElementsAppend DEF TxsOf
  <2> QED
    BY <1>2, <2>1, <2>2, FieldIsNat, ActiveFields
<1>4. TxsOf(c)' = T \cup {tx} /\ Len(log'[c]) = Len(log[c]) + 1
  BY <1>1, ElementsAppend DEF TxsOf
<1>5. /\ jump'[c] \in JumpStates
      /\ jump'[c].last_active_tx_index = tx.index
      /\ jump'[c].prev_new_root = tx.new
      /\ jump'[c].run_start_prev_index = IF gap # 0 THEN Sub(tx.index, 1) ELSE j.run_start_prev_index
      /\ jump'[c].coverage = FoldIf(gap # 0 /\ RunNonempty(j), j.coverage, CoverageRecord(j))
      /\ jump'[c].claims = FoldIf(gap # 0, j.claims, ClaimRecord(j, tx.index, tx.old))
      /\ jump'[c].tx_count = Add(j.tx_count, 1)
  BY <1>1, ActiveJump
<1>6. End(c)' = tx.index + 1
  BY <1>2, <1>5 DEF End
<1>7. EndInv(T, E, j.prev_new_root) /\ CoverageInv(T, C, S, E) /\ ClaimsInv(T, K, E) /\ RunInv(T)
  BY DEF ChainInv
<1>8. gap = 0 => tx.old = j.prev_new_root
  BY <1>1, ActiveFields DEF JumpStepAccepted
<1>9. CountInv(c)'
  <2>1. /\ size[c] <= MaxTxs[c] /\ Len(log[c]) <= size[c] /\ j.tx_count = Len(log[c])
        /\ Len(log[c]) \in Nat
    BY <1>1 DEF ChainInv, CountInv
  <2>2. MaxTxs[c] \in Nat /\ MaxTxs[c] < FieldOrder - 1
    BY ConstantsAssumption DEF MaxTxs, Chains
  <2>3. j.tx_count \in Field /\ j.tx_count # NEG_ONE
    BY <1>1, <2>1, <2>2, JumpStateFields, FieldNat DEF NEG_ONE
  <2>4. Add(j.tx_count, 1) = Len(log[c]) + 1
    BY <2>1, <2>3, AddOne
  <2>5. size'[c] <= MaxTxs[c] /\ Len(log'[c]) <= size'[c]
    BY <1>1, <1>4, <2>1, <2>2
  <2>6. End(c)' <= size'[c] * GapRange
    BY <1>1, <1>2, <1>6
  <2>7. jump'[c].tx_count = Len(log'[c])
    BY <1>4, <1>5, <2>4
  <2> QED
    BY <2>5, <2>6, <2>7 DEF CountInv
<1>10. EndInv(T \cup {tx}, tx.index + 1, tx.new) /\ RunInv(T \cup {tx})
  <2>1. E <= tx.index /\ (tx.index = E => tx.old = j.prev_new_root)
    BY <1>2, <1>3, <1>8
  <2> HIDE DEF T, E, j
  <2> QED
    BY <1>2, <1>3, <1>7, <2>1, EndStep, RunStep
<1>11. /\ CoverageInv(T \cup {tx}, Elements(jump'[c].coverage), Start(c)', tx.index + 1)
       /\ ClaimsInv(T \cup {tx}, Elements(jump'[c].claims), tx.index + 1)
  <2>1. CASE gap = 0
    <3>1. /\ jump'[c].coverage = j.coverage /\ jump'[c].claims = j.claims
          /\ Start(c)' = S /\ tx.index = E
      BY <1>2, <1>3, <1>5, <2>1 DEF FoldIf, Start
    <3> HIDE DEF T, E, j, S, C, K
    <3>2. CoverageInv(T \cup {tx}, C, S, E + 1)
      BY <1>2, <1>3, <1>7, <3>1, CoverageContinues
    <3>3. ClaimsInv(T \cup {tx}, K, E + 1)
      BY <1>2, <1>3, <1>7, <3>1, ClaimsContinue
    <3> QED
      BY <3>1, <3>2, <3>3 DEF C, K
  <2>2. CASE gap # 0
    <3> DEFINE cov == CoverageRecord(j)
               claim == ClaimRecord(j, tx.index, tx.old)
    <3>1. Start(c)' = tx.index /\ E < tx.index
      <4>1. Start(c)' = Add(Sub(tx.index, 1), 1)
        BY <1>5, <2>2 DEF Start
      <4> QED
        <5>1. Start(c)' = tx.index
          BY <4>1, SubOne, ActiveFields
        <5> HIDE DEF gap, E
        <5>2. E < tx.index
          BY <1>2, <1>3, <2>2
        <5> QED
          BY <5>1, <5>2
    <3>2. /\ cov \in Records /\ claim \in Records
          /\ Low(cov) = S /\ cov.to = E /\ cov.new = j.prev_new_root
          /\ Low(claim) = E /\ claim.to = tx.index /\ claim.new = tx.old
      <4>1. /\ j.run_start_prev_index \in Field /\ j.last_active_tx_index \in Field
            /\ j.prev_new_root \in Roots /\ j.run_start_old_root \in Roots
            /\ tx.index \in Field /\ tx.old \in Roots
        BY <1>1, JumpStateFields, ActiveFields
      <4>2. /\ cov = Record(j.run_start_prev_index, E, j.run_start_old_root, j.prev_new_root)
            /\ claim = Record(j.last_active_tx_index, tx.index, j.prev_new_root, tx.old)
        BY DEF CoverageRecord, ClaimRecord, End
      <4>3. /\ cov \in Records /\ cov.from = j.run_start_prev_index /\ cov.to = E
            /\ cov.new = j.prev_new_root
        BY <1>2, <4>1, <4>2, RecordIsTyped
      <4>4. /\ claim \in Records /\ claim.from = j.last_active_tx_index
            /\ claim.to = tx.index /\ claim.new = tx.old
        BY <4>1, <4>2, RecordIsTyped
      <4> QED
        BY <4>3, <4>4 DEF Low, Start, End
    <3>3. RunNonempty(j) <=> E # S
      BY <1>1, JumpStateFields, AddOneInjective DEF RunNonempty, Start, End
    <3>4. Elements(jump'[c].coverage) = IF E # S THEN C \cup {cov} ELSE C
      <4>1. CASE E # S
        <5>1. jump'[c].coverage = Append(j.coverage, cov)
          BY <1>5, <2>2, <3>3, <4>1 DEF FoldIf
        <5>2. Elements(Append(j.coverage, cov)) = C \cup {cov}
          BY <1>1, <3>2, JumpStateFields, ElementsAppend
        <5> QED
          BY <4>1, <5>1, <5>2
      <4>2. CASE E = S
        BY <1>5, <3>3, <4>2 DEF FoldIf
      <4> QED
        BY <4>1, <4>2
    <3>5. Elements(jump'[c].claims) = K \cup {claim}
      BY <1>1, <1>5, <2>2, <3>2, JumpStateFields, ElementsAppend DEF FoldIf
    <3> HIDE DEF T, E, j, S, C, K, cov, claim
    <3>6. CoverageInv(T \cup {tx}, Elements(jump'[c].coverage), tx.index, tx.index + 1)
      <4> DEFINE more == Elements(jump'[c].coverage)
      <4> HIDE DEF more
      <4>1. more = IF E # S THEN C \cup {cov} ELSE C
        BY <3>4 DEF more
      <4>2. CoverageInv(T \cup {tx}, more, tx.index, tx.index + 1)
        <5>1. CASE E # S
          BY <1>2, <1>3, <1>7, <3>2, <4>1, <5>1, CoverageJumps
        <5>2. CASE E = S
          BY <1>2, <1>3, <1>7, <3>2, <4>1, <5>2, CoverageJumps
        <5> QED
          BY <5>1, <5>2
      <4> QED
        BY <4>2 DEF more
    <3>7. ClaimsInv(T \cup {tx}, K \cup {claim}, tx.index + 1)
      BY <1>2, <1>3, <1>7, <3>1, <3>2, ClaimsJump
    <3> QED
      BY <3>1, <3>5, <3>6, <3>7
  <2> QED
    BY <2>1, <2>2
<1> QED
  BY <1>4, <1>5, <1>6, <1>9, <1>10, <1>11 DEF ChainInv

(* Padding and the other chain's transactions leave a chain as it is.      *)
LEMMA Unmoved ==
  ASSUME NEW c \in Chains, TypeOK, ChainInv(c),
         jump'[c] = jump[c], log'[c] = log[c],
         size'[c] \in Nat, size[c] <= size'[c], size'[c] <= MaxTxs[c]
  PROVE  ChainInv(c)'
<1>1. TxsOf(c)' = TxsOf(c) /\ End(c)' = End(c) /\ Start(c)' = Start(c)
  BY DEF TxsOf, End, Start
<1>2. CountInv(c)'
  <2>1. size[c] * GapRange <= size'[c] * GapRange /\ size[c] \in Nat
        /\ size[c] * GapRange \in Nat /\ size'[c] * GapRange \in Nat
    <3>1. GapRange \in Nat \ {0} /\ size[c] \in Nat
      BY ConstantsAssumption DEF TypeOK
    <3>2. size'[c] <= size'[c]
      OBVIOUS
    <3>3. size[c] * GapRange \in Nat /\ size[c] * GapRange <= size'[c] * GapRange
      BY <3>1, TimesMonotone
    <3>4. size'[c] * GapRange \in Nat
      BY <3>1, <3>2, TimesMonotone
    <3> QED
      BY <3>1, <3>3, <3>4
  <2>2. /\ Len(log[c]) <= size[c] /\ End(c) <= size[c] * GapRange
        /\ jump[c].tx_count = Len(log[c])
    BY DEF ChainInv, CountInv
  <2>3. End(c) \in Nat /\ Len(log[c]) \in Nat
    BY AddOne, JumpStateFields, FieldIsNat DEF End, TypeOK
  <2> QED
    BY <1>1, <2>1, <2>2, <2>3 DEF CountInv
<1>3. /\ EndInv(TxsOf(c), End(c), jump[c].prev_new_root)
      /\ CoverageInv(TxsOf(c), Elements(jump[c].coverage), Start(c), End(c))
      /\ ClaimsInv(TxsOf(c), Elements(jump[c].claims), End(c))
      /\ RunInv(TxsOf(c))
  BY DEF ChainInv
<1> QED
  BY <1>1, <1>2, <1>3 DEF ChainInv

\* Every step of either chain keeps the types.
LEMMA TypeStep ==
  ASSUME TypeOK, Next
  PROVE  TypeOK'
<1>1. ASSUME NEW c \in Chains, NEW tx, tx.new \in Roots, DefineTx(c, tx),
             tx.empty = TRUE \/ tx \in ActiveTxs
      PROVE  TypeOK'
  <2>1. DefineJumpStep(jump[c], tx) \in JumpStates
    <3>1. jump[c] \in JumpStates
      BY DEF TypeOK
    <3>2. CASE tx.empty = TRUE
      BY <3>1, <3>2 DEF DefineJumpStep
    <3>3. CASE tx \in ActiveTxs
      BY <3>1, <3>3, ActiveJump
    <3> QED
      BY <1>1, <3>2, <3>3
  <2>2. jump' \in [Chains -> JumpStates]
    BY <1>1, <2>1 DEF DefineTx, TypeOK
  <2>3. exposed' \in [Chains -> Roots]
    BY <1>1 DEF DefineTx, TypeOK
  <2>4. size' \in [Chains -> Nat]
    BY <1>1 DEF DefineTx, TypeOK
  <2>5. log' \in [Chains -> Seq(ActiveTxs)]
    <3>1. log[c] \in Seq(ActiveTxs)
      BY DEF TypeOK
    <3>2. CASE tx.empty = TRUE
      BY <1>1, <3>1, <3>2 DEF DefineTx, TypeOK
    <3>3. CASE tx \in ActiveTxs
      <4>1. Append(log[c], tx) \in Seq(ActiveTxs) /\ tx.empty = FALSE
        BY <3>1, <3>3, ActiveFields, ElementsAppend
      <4> QED
        BY <1>1, <4>1 DEF DefineTx, TypeOK
    <3> QED
      BY <1>1, <3>2, <3>3
  <2>6. block' \in Roots \cup {Open}
    BY <1>1 DEF DefineTx, TypeOK
  <2> QED
    BY <2>2, <2>3, <2>4, <2>5, <2>6 DEF TypeOK
<1>2. ASSUME NEW c \in Chains, ActiveTx(c) PROVE TypeOK'
  <2>1. PICK tx \in ActiveTxs : DefineTx(c, tx)
    BY <1>2 DEF ActiveTx, ActiveTxs
  <2> QED
    BY <1>1, <2>1, ActiveFields
<1>3. ASSUME NEW c \in Chains, PaddingTx(c) PROVE TypeOK'
  <2>1. PICK tx \in [empty : {TRUE}, index : {jump[c].last_active_tx_index}, old : Roots, new : Roots] :
            DefineTx(c, tx)
    BY <1>3 DEF PaddingTx
  <2> QED
    BY <1>1, <2>1
<1>4. CASE DefineBlock
  <2>1. block' \in Roots
    BY <1>4 DEF DefineBlock, EndChain, Chains, TypeOK
  <2> QED
    BY <1>4, <2>1 DEF DefineBlock, TypeOK
<1> QED
  BY <1>2, <1>3, <1>4 DEF Next

\* Every step keeps what the jump state of each chain knows of its transactions.
LEMMA ChainStep ==
  ASSUME TypeOK, \A c \in Chains : ChainInv(c), Next
  PROVE  \A d \in Chains : ChainInv(d)'
<1> SUFFICES ASSUME NEW d \in Chains PROVE ChainInv(d)'
  OBVIOUS
<1>0. size[d] \in Nat /\ size[d] <= MaxTxs[d] /\ ChainInv(d)
  BY DEF TypeOK, ChainInv, CountInv
<1>1. ASSUME NEW c \in Chains, NEW tx, DefineTx(c, tx), d # c PROVE ChainInv(d)'
  <2>1. jump'[d] = jump[d] /\ log'[d] = log[d] /\ size'[d] = size[d]
    BY <1>1 DEF DefineTx, TypeOK
  <2> QED
    BY <1>0, <2>1, Unmoved
<1>2. ASSUME NEW c \in Chains, ActiveTx(c) PROVE ChainInv(d)'
  <2>1. PICK tx \in ActiveTxs : DefineTx(c, tx)
    BY <1>2 DEF ActiveTx, ActiveTxs
  <2>2. CASE d = c
    BY <2>1, <2>2, ActiveStep
  <2> QED
    BY <1>1, <2>1, <2>2
<1>3. ASSUME NEW c \in Chains, PaddingTx(c) PROVE ChainInv(d)'
  <2>1. PICK tx \in [empty : {TRUE}, index : {jump[c].last_active_tx_index}, old : Roots, new : Roots] :
            DefineTx(c, tx)
    BY <1>3 DEF PaddingTx
  <2>2. CASE d = c
    <3>1. jump'[d] = jump[d] /\ log'[d] = log[d] /\ size'[d] = size[d] + 1 /\ size[d] < MaxTxs[d]
      BY <2>1, <2>2 DEF DefineTx, DefineJumpStep, TypeOK
    <3>2. size'[d] \in Nat /\ size[d] <= size'[d] /\ size'[d] <= MaxTxs[d]
      BY <1>0, <3>1, BoundFits
    <3> QED
      BY <1>0, <3>1, <3>2, Unmoved
  <2> QED
    BY <1>1, <2>1, <2>2
<1>4. CASE DefineBlock
  BY <1>0, <1>4, Unmoved DEF DefineBlock
<1> QED
  BY <1>2, <1>3, <1>4 DEF Next

-----------------------------------------------------------------------------
(* The block circuit.                                                      *)

\* The coverage and the claims of a chain that the block circuit compares.
Covered(c, total, root) == Elements(FinalizeJump(jump[c], total, root).coverage)
Claimed(c, total, root) == Elements(FinalizeJump(jump[c], total, root).claims)

(* With its open run closed, a chain covers exactly its transactions.      *)
LEMMA FinalCoverage ==
  ASSUME NEW c \in Chains, TypeOK, ChainInv(c), NEW total, NEW root
  PROVE  /\ Indices(TxsOf(c)) = Spans(Covered(c, total, root))
         /\ \A r \in Covered(c, total, root) :
                \E t \in TxsOf(c) : t.index = r.to - 1 /\ t.new = r.new
<1> DEFINE j == jump[c]
           T == TxsOf(c)
           E == End(c)
           S == Start(c)
           C == Elements(j.coverage)
           cov == CoverageRecord(j)
<1>1. j \in JumpStates /\ E \in Field /\ S \in Field
  BY AddOne, JumpStateFields DEF TypeOK, End, Start
<1>2. EndInv(T, E, j.prev_new_root) /\ CoverageInv(T, C, S, E)
  BY DEF ChainInv
<1>3. RunNonempty(j) <=> E # S
  BY <1>1, JumpStateFields, AddOneInjective DEF RunNonempty, Start, End
<1>4. cov \in Records /\ Low(cov) = S /\ cov.to = E /\ cov.new = j.prev_new_root
  <2>1. /\ j.run_start_prev_index \in Field /\ j.prev_new_root \in Roots
        /\ j.run_start_old_root \in Roots
    BY <1>1, JumpStateFields
  <2>2. cov = Record(j.run_start_prev_index, E, j.run_start_old_root, j.prev_new_root)
    BY DEF CoverageRecord, End
  <2>3. /\ cov \in Records /\ cov.from = j.run_start_prev_index /\ cov.to = E
        /\ cov.new = j.prev_new_root
    BY <1>1, <2>1, <2>2, RecordIsTyped
  <2> QED
    BY <2>3 DEF Low, Start
<1>5. S <= E /\ S \in Nat /\ E \in Nat
  BY <1>1, <1>2, FieldIsNat DEF CoverageInv
<1>6. CASE E # S
  <2>1. Covered(c, total, root) = C \cup {cov}
    <3>1. Covered(c, total, root) = Elements(Append(j.coverage, cov))
      BY <1>3, <1>6 DEF Covered, FinalizeJump, FoldIf
    <3> QED
      BY <1>1, <1>4, <3>1, JumpStateFields, ElementsAppend
  <2> HIDE DEF T, E, S, C, cov
  <2>2. Spans(C \cup {cov}) = Spans(C) \cup (S .. (E - 1))
    BY <1>4, SpansStep DEF Span
  <2>3. \E t \in T : t.index = E - 1 /\ t.new = cov.new
    BY <1>2, <1>4, <1>5, <1>6 DEF EndInv
  <2>4. Indices(T) = (S .. (E - 1)) \cup Spans(C)
    BY <1>2 DEF CoverageInv
  <2>5. \A r \in C \cup {cov} : \E t \in T : t.index = r.to - 1 /\ t.new = r.new
    BY <1>2, <1>4, <2>3 DEF CoverageInv
  <2>6. Indices(T) = Spans(Covered(c, total, root))
    BY <2>1, <2>2, <2>4
  <2> QED
    BY <2>1, <2>5, <2>6 DEF T
<1>7. CASE E = S
  <2>1. Covered(c, total, root) = C
    BY <1>3, <1>7 DEF Covered, FinalizeJump, FoldIf
  <2> HIDE DEF T, E, S, C
  <2>2. S .. (E - 1) = {}
    BY <1>5, <1>7
  <2>3. Indices(T) = Spans(C)
    BY <1>2, <2>2 DEF CoverageInv
  <2>4. \A r \in C : \E t \in T : t.index = r.to - 1 /\ t.new = r.new
    BY <1>2 DEF CoverageInv
  <2> QED
    BY <2>1, <2>3, <2>4 DEF T
<1> QED
  BY <1>6, <1>7

(* A chain claims its gaps; if it ends the block it claims nothing else.   *)
LEMMA FinalClaims ==
  ASSUME NEW c \in Chains, TypeOK, ChainInv(c), NEW total \in Field, NEW root \in Roots
  PROVE  /\ End(c) = total =>
                Spans(Claimed(c, total, root)) = (0 .. (total - 1)) \ Indices(TxsOf(c))
         /\ \A t \in TxsOf(c) :
                \/ t.index = 0
                \/ t.index - 1 \in Indices(TxsOf(c))
                \/ \E r \in Claimed(c, total, root) : r.to = t.index /\ r.new = t.old
<1> DEFINE j == jump[c]
           T == TxsOf(c)
           E == End(c)
           K == Elements(j.claims)
           claim == ClaimRecord(j, total, root)
<1>1. j \in JumpStates
  BY DEF TypeOK
<1>2. ClaimsInv(T, K, E)
  BY DEF ChainInv
<1>3. claim \in Records
  BY <1>1, JumpStateFields, RecordIsTyped DEF ClaimRecord
<1>4. E = total => Claimed(c, total, root) = K
  BY DEF Claimed, FinalizeJump, FoldIf, End
<1>5. E # total => Claimed(c, total, root) = K \cup {claim}
  <2> SUFFICES ASSUME E # total PROVE Claimed(c, total, root) = K \cup {claim}
    OBVIOUS
  <2>1. Claimed(c, total, root) = Elements(Append(j.claims, claim))
    BY DEF Claimed, FinalizeJump, FoldIf, End
  <2> QED
    BY <1>1, <1>3, <2>1, JumpStateFields, ElementsAppend
<1> HIDE DEF T, E, K, claim
<1>6. E = total => Spans(Claimed(c, total, root)) = (0 .. (total - 1)) \ Indices(T)
  BY <1>2, <1>4 DEF ClaimsInv
<1>7. \A t \in T : \/ t.index = 0
                   \/ t.index - 1 \in Indices(T)
                   \/ \E r \in Claimed(c, total, root) : r.to = t.index /\ r.new = t.old
  <2>1. \A r \in K : r \in Claimed(c, total, root)
    BY <1>4, <1>5
  <2> QED
    BY <1>2, <2>1, Zenon DEF ClaimsInv
<1> QED
  BY <1>6, <1>7 DEF T, E

\* The transactions T reach the records' new roots; those of U start from
\* them, but for the ones that follow a transaction of U.
Reaches(T, records) ==
    \A r \in records : \E t \in T : t.index = r.to - 1 /\ t.new = r.new
StartsFrom(U, records) ==
    \A u \in U : \/ u.index = 0
                 \/ u.index - 1 \in Indices(U)
                 \/ \E r \in records : r.to = u.index /\ r.new = u.old

(* Where the execution goes over to the other chain the roots agree.       *)
LEMMA Crossing ==
  ASSUME NEW T \in SUBSET ActiveTxs, NEW U \in SUBSET ActiveTxs, NEW records,
         Indices(T) \cap Indices(U) = {}, RunInv(T),
         Reaches(T, records), StartsFrom(U, records),
         NEW tx \in T, NEW next \in U, next.index = tx.index + 1
  PROVE  next.old = tx.new
<1>1. tx.index \in Nat /\ next.index # 0 /\ next.index - 1 = tx.index
  BY IndexNat
<1>2. tx.index \in Indices(T)
  BY DEF Indices
<1>3. PICK r \in records : r.to = next.index /\ r.new = next.old
  BY <1>1, <1>2 DEF StartsFrom
<1>4. PICK t \in T : t.index = r.to - 1 /\ t.new = r.new
  BY <1>3 DEF Reaches
<1>5. t.index = tx.index
  BY <1>1, <1>3, <1>4
<1>6. t = tx
  BY <1>5 DEF RunInv
<1> QED
  BY <1>3, <1>4, <1>6

\* The sum of the two counts is the number of transactions, not its remainder.
LEMMA TotalDoesNotWrap ==
  ASSUME TypeOK, \A c \in Chains : ChainInv(c)
  PROVE  TotalTxCount = TxTotal /\ TotalTxCount \in Field
<1> DEFINE l == Len(log["light"])
           h == Len(log["heavy"])
<1>1. l \in Nat /\ h \in Nat
  BY DEF TypeOK, Chains
<1>2. /\ jump["light"].tx_count = l /\ jump["heavy"].tx_count = h
      /\ l <= size["light"] /\ size["light"] <= MaxLightTxs
      /\ h <= size["heavy"] /\ size["heavy"] <= MaxHeavyTxs
  BY DEF ChainInv, CountInv, Chains, MaxTxs
<1>3. size["light"] \in Nat /\ size["heavy"] \in Nat
  BY DEF TypeOK, Chains
<1>4. /\ MaxLightTxs \in Nat /\ MaxHeavyTxs \in Nat /\ FieldOrder \in Nat \ {0}
      /\ MaxLightTxs + MaxHeavyTxs < FieldOrder - 1
  BY ConstantsAssumption
<1> HIDE DEF l, h
<1>5. l + h \in Int /\ 0 <= l + h /\ l + h < FieldOrder
  BY <1>1, <1>2, <1>3, <1>4
<1>6. (l + h) % FieldOrder = l + h
  BY <1>4, <1>5, ModSmall
<1>7. TotalTxCount = l + h
  BY <1>2, <1>6 DEF TotalTxCount, Add
<1> QED
  <2>1. TxTotal = l + h
    BY DEF TxTotal, l, h
  <2>2. l + h \in Field
    BY <1>4, <1>5 DEF Field
  <2> QED
    BY <1>7, <2>1, <2>2

(* What the block circuit accepts, with e the chain that ends the block    *)
(* and d the other one.                                                    *)
LEMMA BlockAccepted ==
  ASSUME TypeOK, \A c \in Chains : ChainInv(c), DefineBlock
  PROVE  \E e, d \in Chains :
            /\ e # d /\ Chains = {e, d}
            /\ End(e) = TotalTxCount
            /\ block' = jump[e].prev_new_root /\ block' \in Roots
            /\ Covered(d, TotalTxCount, block') = Claimed(e, TotalTxCount, block')
            /\ Covered(e, TotalTxCount, block') = Claimed(d, TotalTxCount, block')
<1> DEFINE e == EndChain
           d == IF e = "heavy" THEN "light" ELSE "heavy"
           final(c) == FinalizeJump(jump[c], TotalTxCount, exposed[EndChain])
<1>1. /\ \E c \in Chains : IsEnd(c)
      /\ exposed[e] = jump[e].prev_new_root
      /\ final("heavy").coverage = final("light").claims
      /\ final("light").coverage = final("heavy").claims
      /\ block' = exposed[e]
  BY DEF DefineBlock, JumpChecksAccepted
<1>2. e \in Chains /\ d \in Chains /\ e # d /\ Chains = {e, d}
  BY DEF EndChain, Chains
<1>3. End(e) = TotalTxCount
  BY <1>1 DEF EndChain, Chains, IsEnd, End
<1>4. block' \in Roots
  BY <1>1, <1>2 DEF TypeOK
<1>5. final(d).coverage = final(e).claims /\ final(e).coverage = final(d).claims
  <2>1. CASE e = "heavy"
    BY <1>1, <2>1
  <2>2. CASE e = "light"
    BY <1>1, <2>2
  <2> QED
    BY <1>2, <2>1, <2>2 DEF Chains
<1>6. /\ Covered(d, TotalTxCount, block') = Claimed(e, TotalTxCount, block')
      /\ Covered(e, TotalTxCount, block') = Claimed(d, TotalTxCount, block')
  BY <1>1, <1>5 DEF Covered, Claimed
<1> QED
  BY <1>1, <1>2, <1>3, <1>4, <1>6

\* The heart of it: if the claims of each chain are the coverage of the other and
\* one of them ends at the total count, then the transactions of both are one
\* sequential execution (DefineBlock).
LEMMA SequentialBlock ==
  ASSUME TypeOK, \A c \in Chains : ChainInv(c), DefineBlock
  PROVE  Sequential /\ block' = LastRoot
<1> DEFINE total == TotalTxCount
<1>1. PICK e \in Chains, d \in Chains :
            /\ e # d /\ Chains = {e, d}
            /\ End(e) = total
            /\ block' = jump[e].prev_new_root /\ block' \in Roots
            /\ Covered(d, total, block') = Claimed(e, total, block')
            /\ Covered(e, total, block') = Claimed(d, total, block')
  BY BlockAccepted
<1> DEFINE T == TxsOf(e)
           U == TxsOf(d)
           I == Indices(T)
           J == Indices(U)
<1>2. total = TxTotal /\ total \in Field /\ total \in Nat
  BY TotalDoesNotWrap, FieldIsNat
<1>3. T \in SUBSET ActiveTxs /\ U \in SUBSET ActiveTxs
  <2>1. log[e] \in Seq(ActiveTxs) /\ log[d] \in Seq(ActiveTxs)
    BY DEF TypeOK
  <2> QED
    BY <2>1 DEF TxsOf, Elements
<1>4. AllTxs = T \cup U
  <2>1. AllTxs = UNION {TxsOf(c) : c \in Chains}
    BY DEF AllTxs, TxsOf, Elements
  <2> QED
    BY <1>1, <2>1
<1>5. EndInv(T, total, block') /\ RunInv(T) /\ RunInv(U)
  BY <1>1 DEF ChainInv
<1>6. J = (0 .. (total - 1)) \ I
  <2>1. J = Spans(Covered(d, total, block'))
    BY FinalCoverage
  <2>2. Spans(Claimed(e, total, block')) = (0 .. (total - 1)) \ I
    BY <1>1, <1>2, FinalClaims
  <2> QED
    BY <1>1, <2>1, <2>2
<1>7. I \subseteq 0 .. (total - 1)
  BY <1>2, <1>3, <1>5, IndexNat DEF EndInv, Indices
<1>8. Reaches(U, Covered(d, total, block')) /\ Reaches(T, Covered(e, total, block'))
  BY FinalCoverage DEF Reaches
<1>9. StartsFrom(U, Covered(e, total, block')) /\ StartsFrom(T, Covered(d, total, block'))
  BY <1>1, <1>2, FinalClaims DEF StartsFrom
<1> HIDE DEF T, U, total
<1>11. I \cap J = {} /\ I \cup J = 0 .. (total - 1)
  BY <1>6, <1>7
<1>12. {tx.index : tx \in AllTxs} = 0 .. TxTotal - 1
  BY <1>2, <1>4, <1>11 DEF Indices
<1>13. \A tx \in AllTxs : tx.index = 0 => tx.old = InitialRoot
  BY <1>4, <1>5 DEF RunInv
<1>14. \A tx, next \in AllTxs : next.index = tx.index + 1 => next.old = tx.new
  <2> SUFFICES ASSUME NEW tx \in T \cup U, NEW next \in T \cup U, next.index = tx.index + 1
               PROVE  next.old = tx.new
    BY <1>4
  <2>1. CASE tx \in T /\ next \in T
    BY <1>5, <2>1 DEF RunInv
  <2>2. CASE tx \in U /\ next \in U
    BY <1>5, <2>2 DEF RunInv
  <2>3. CASE tx \in T /\ next \in U
    BY <1>3, <1>5, <1>8, <1>9, <1>11, <2>3, Crossing
  <2>4. CASE tx \in U /\ next \in T
    BY <1>3, <1>5, <1>8, <1>9, <1>11, <2>4, Crossing
  <2> QED
    BY <2>1, <2>2, <2>3, <2>4
<1>15. block' = LastRoot
  <2>1. CASE total = 0
    BY <1>2, <1>5, <2>1 DEF EndInv, LastRoot
  <2>2. CASE total # 0
    <3>1. PICK t \in T : t.index = total - 1 /\ t.new = block'
      BY <1>5, <2>2 DEF EndInv
    <3>2. \A u \in AllTxs : u.index = TxTotal - 1 => u = t
      <4> SUFFICES ASSUME NEW u \in T \cup U, u.index = total - 1 PROVE u = t
        BY <1>2, <1>4
      <4>1. CASE u \in T
        BY <1>5, <3>1, <4>1 DEF RunInv
      <4>2. CASE u \in U
        <5>1. u.index \in J /\ t.index \in I
          BY <4>2 DEF Indices
        <5> QED
          BY <1>11, <3>1, <5>1
      <4> QED
        BY <4>1, <4>2
    <3>3. t \in AllTxs /\ t.index = TxTotal - 1
      BY <1>2, <1>4, <3>1
    <3>4. (CHOOSE tx \in AllTxs : tx.index = TxTotal - 1) = t
      BY <3>2, <3>3
    <3>5. LastRoot = (CHOOSE tx \in AllTxs : tx.index = TxTotal - 1).new
      BY <1>2, <2>2, Zenon DEF LastRoot
    <3> QED
      BY <3>1, <3>4, <3>5, Zenon
  <2> QED
    BY <2>1, <2>2
<1> QED
  BY <1>12, <1>13, <1>14, <1>15 DEF Sequential

-----------------------------------------------------------------------------
(* The theorems.                                                           *)

\* Empty chains satisfy the invariant.
LEMMA InitIInv == Init => IInv
<1> SUFFICES ASSUME Init PROVE IInv
  OBVIOUS
<1>1. TypeOK
  <2>1. InitialJump \in JumpStates /\ InitialRoot \in Roots /\ <<>> \in Seq(ActiveTxs)
    BY InitialJumpIsTyped, ConstantsAssumption
  <2> QED
    BY <2>1 DEF Init, TypeOK
<1>2. ASSUME NEW c \in Chains PROVE ChainInv(c)
  <2>1. jump[c] = InitialJump /\ log[c] = <<>> /\ size[c] = 0
    BY DEF Init
  <2>2. End(c) = 0 /\ Start(c) = 0
    BY <2>1, InitialJumpIsTyped, AddOne, FieldNat DEF End, Start
  <2>3. TxsOf(c) = {} /\ Elements(jump[c].coverage) = {} /\ Elements(jump[c].claims) = {}
    BY <2>1, InitialJumpIsTyped DEF TxsOf, Elements
  <2>4. CountInv(c)
    <3>1. 0 * GapRange = 0 /\ MaxTxs[c] \in Nat
      BY BoundFits, ConstantsAssumption
    <3> QED
      BY <2>1, <2>2, <3>1, InitialJumpIsTyped DEF CountInv
  <2>5. Indices({}) = {} /\ Spans({}) = {} /\ 0 .. (0 - 1) = {}
    BY DEF Indices, Spans
  <2>6. EndInv({}, 0, InitialRoot) /\ RunInv({})
    BY DEF EndInv, RunInv
  <2>7. CoverageInv({}, {}, 0, 0) /\ ClaimsInv({}, {}, 0)
    BY <2>5 DEF CoverageInv, ClaimsInv
  <2> QED
    BY <2>1, <2>2, <2>3, <2>4, <2>6, <2>7, InitialJumpIsTyped DEF ChainInv
<1>3. BlockIsSequential
  BY DEF Init, BlockIsSequential
<1> QED
  BY <1>1, <1>2, <1>3 DEF IInv

\* Whether the log is sequential depends on nothing else.
LEMMA SequentialFrame ==
  ASSUME log' = log
  PROVE  (Sequential <=> Sequential') /\ LastRoot' = LastRoot
<1>1. AllTxs' = AllTxs
  BY DEF AllTxs
<1>2. TxTotal' = TxTotal
  BY DEF TxTotal
<1>3. Sequential <=> Sequential'
  BY <1>1, <1>2 DEF Sequential
<1>4. LastRoot' = LastRoot
  BY <1>1, <1>2 DEF LastRoot
<1> QED
  BY <1>3, <1>4

\* Every step keeps the invariant.
LEMMA StepIInv ==
  ASSUME IInv, [Next]_vars
  PROVE  IInv'
<1>1. CASE Next
  <2>1. TypeOK /\ (\A c \in Chains : ChainInv(c)) /\ BlockIsSequential
    BY DEF IInv
  <2>2. TypeOK' /\ \A c \in Chains : ChainInv(c)'
    BY <1>1, <2>1, TypeStep, ChainStep
  <2>3. BlockIsSequential'
    <3>1. ASSUME NEW c \in Chains, ActiveTx(c) \/ PaddingTx(c) PROVE block' = Open
      BY <3>1 DEF ActiveTx, PaddingTx, DefineTx
    <3>2. CASE DefineBlock
      <4>1. Sequential /\ block' = LastRoot
        BY <2>1, <3>2, SequentialBlock
      <4>2. log' = log
        BY <3>2 DEF DefineBlock
      <4>3. Sequential' /\ block' = LastRoot'
        BY <4>1, <4>2, SequentialFrame
      <4> QED
        BY <4>3 DEF BlockIsSequential
    <3> QED
      BY <1>1, <3>1, <3>2 DEF Next, BlockIsSequential
  <2> QED
    BY <2>2, <2>3 DEF IInv
<1>2. CASE UNCHANGED vars
  <2>1. /\ jump' = jump /\ exposed' = exposed /\ size' = size /\ log' = log
        /\ block' = block
    BY <1>2 DEF vars
  <2>2. TypeOK'
    BY <2>1 DEF IInv, TypeOK
  <2>3. ASSUME NEW c \in Chains PROVE ChainInv(c)'
    <3>1. TypeOK /\ ChainInv(c) /\ size[c] \in Nat /\ size[c] <= size[c] /\ size[c] <= MaxTxs[c]
      BY DEF IInv, TypeOK, ChainInv, CountInv
    <3> QED
      BY <2>1, <3>1, Unmoved
  <2>4. BlockIsSequential'
    BY <2>1, SequentialFrame DEF IInv, BlockIsSequential
  <2> QED
    BY <2>2, <2>3, <2>4 DEF IInv
<1> QED
  BY <1>1, <1>2

(* The jump states of the two chains always say what the chains hold: the  *)
(* covered runs and the open run are the chain's transactions, the claims  *)
(* are its gaps, and no index wraps around the field (define_jump_step).   *)
THEOREM JumpStatesExact == Spec => []IInv
<1>1. IInv /\ [Next]_vars => IInv'
  BY StepIInv
<1> QED
  BY InitIInv, <1>1, PTL DEF Spec

(* Whatever indices, roots and padding the sequencer chooses, a block that *)
(* the block circuit accepts is one sequential execution of both chains'   *)
(* transactions that ends in the block's new root (define_jump_checks).    *)
THEOREM BlocksAreSequential == Spec => []BlockIsSequential
<1>1. IInv => BlockIsSequential
  BY DEF IInv
<1> QED
  BY JumpStatesExact, <1>1, PTL

-----------------------------------------------------------------------------
(* What segments and chain hold of the operations of their transactions.   *)
Messages == [account : Accounts \cup {0}, tx : Nat]
SegmentRecords ==
    [size : Nat, on_chain_count : Nat, on_chain : Nat, priority_count : Nat, priority : Nat,
     message_count : [MessageKinds -> Nat], message : [MessageKinds -> Messages]]
ChainRecords ==
    [on_chain_count : Nat, on_chain : [Slots -> Nat], priority_count : Nat, priority : Nat,
     message : [MessageKinds -> Messages]]

OperationsTypeOK ==
    /\ opLog \in Seq(Txs)
    /\ segment \in SegmentRecords
    /\ chain \in ChainRecords
    /\ segment.size <= Len(opLog)

\* The transactions of the segments in the chain, and those of the current one.
Closed == 1 .. (Len(opLog) - segment.size)
Current == (Len(opLog) - segment.size + 1) .. Len(opLog)

OnChainIn(S) == {i \in S : ExistsOnChain(opLog[i])}
PriorityIn(S) == {i \in S : ExistsPriority(opLog[i])}
NeedsIn(S, kind) == {i \in S : NeedsL1Signature(opLog[i], kind)}

\* What is kept is all there is, unless there was more than one.
Keeps(count, kept, S) == (count = 0 => S = {}) /\ (count = 1 => S = {kept})

SegmentInv ==
    /\ Keeps(segment.on_chain_count, segment.on_chain, OnChainIn(Current))
    /\ Keeps(segment.priority_count, segment.priority, PriorityIn(Current))
    /\ \A kind \in MessageKinds :
          /\ Keeps(segment.message_count[kind], segment.message[kind].tx, NeedsIn(Current, kind))
          /\ MessageExists(segment.message[kind]) <=> segment.message_count[kind] # 0

OnChainInv ==
    /\ chain.on_chain_count <= ON_CHAIN_OPERATIONS_LIMIT
    /\ {chain.on_chain[i] : i \in 0 .. (chain.on_chain_count - 1)} = OnChainIn(Closed)
    /\ \A i, j \in 0 .. (chain.on_chain_count - 1) : i < j => chain.on_chain[i] < chain.on_chain[j]
    /\ chain.priority_count <= 1
    /\ Keeps(chain.priority_count, chain.priority, PriorityIn(Closed))
    /\ \A kind \in MessageKinds :
          NeedsIn(Closed, kind) = IF MessageExists(chain.message[kind])
                                  THEN {chain.message[kind].tx} ELSE {}

OperationsInv == OperationsTypeOK /\ SegmentInv /\ OnChainInv /\ PublishesExactly

-----------------------------------------------------------------------------
\* The types of the fields of a segment.
LEMMA SegmentFields ==
  ASSUME NEW s \in SegmentRecords
  PROVE  /\ s.size \in Nat /\ s.on_chain_count \in Nat /\ s.on_chain \in Nat
         /\ s.priority_count \in Nat /\ s.priority \in Nat
         /\ s.message_count \in [MessageKinds -> Nat] /\ s.message \in [MessageKinds -> Messages]
BY DEF SegmentRecords

\* The types of the fields of a chain.
LEMMA ChainFields ==
  ASSUME NEW c \in ChainRecords
  PROVE  /\ c.on_chain_count \in Nat /\ c.on_chain \in [Slots -> Nat]
         /\ c.priority_count \in Nat /\ c.priority \in Nat
         /\ c.message \in [MessageKinds -> Messages]
BY DEF ChainRecords

\* A new segment holds no operation and no message.
LEMMA EmptySegmentFields ==
  /\ EmptySegment \in SegmentRecords /\ EmptySegment.size = 0
  /\ EmptySegment.on_chain_count = 0 /\ EmptySegment.priority_count = 0
  /\ \A kind \in MessageKinds : /\ EmptySegment.message_count[kind] = 0
                                /\ ~MessageExists(EmptySegment.message[kind])
<1>1. NoMessage \in Messages /\ NoMessage.account = 0 /\ NoData \in Nat
  BY DEF NoMessage, Messages, NoData
<1> QED
  BY <1>1 DEF EmptySegment, SegmentRecords, MessageExists

(* A transaction that needs the signature of an L1 key has an account      *)
(* other than the treasury.                                                *)
LEMMA SignerIsNoTreasury ==
  ASSUME NEW tx, NEW kind \in MessageKinds, NeedsL1Signature(tx, kind),
         TreasuryAllowed(tx), TransferAllowed(tx)
  PROVE  tx.account # 0
BY DEF NeedsL1Signature, TreasuryAllowed, TransferAllowed, MessageKinds, TREASURY_ACCOUNT_INDEX

(* One more operation replaces the kept one and raises the count.          *)
LEMMA KeepsNext ==
  ASSUME NEW count \in Nat, NEW kept, NEW S, NEW id, Keeps(count, kept, S)
  PROVE  Keeps(count + 1, id, S \cup {id})
<1>1. count + 1 # 0 /\ (count + 1 = 1 => count = 0)
  OBVIOUS
<1> QED
  BY <1>1 DEF Keeps

-----------------------------------------------------------------------------
(* One more transaction in the segment.                                    *)

\* A transaction is added at the end, to the segment that is open.
LEMMA LogStep ==
  ASSUME NEW tx, OperationsTypeOK, DefineHeavyTx(tx), tx \in Txs
  PROVE  /\ Len(opLog) \in Nat /\ opLog' \in Seq(Txs) /\ Len(opLog') = Len(opLog) + 1
         /\ opLog'[Len(opLog) + 1] = tx
         /\ \A i \in 1 .. Len(opLog) : opLog'[i] = opLog[i]
         /\ segment'.size = segment.size + 1
         /\ Closed' = Closed
         /\ Closed \subseteq 1 .. Len(opLog) /\ Current \subseteq 1 .. Len(opLog)
         /\ Current' = Current \cup {Len(opLog) + 1}
<1>1. opLog \in Seq(Txs) /\ opLog' = Append(opLog, tx)
  BY DEF OperationsTypeOK, DefineHeavyTx
<1>2. /\ Len(opLog) \in Nat /\ opLog' \in Seq(Txs) /\ Len(opLog') = Len(opLog) + 1
      /\ opLog'[Len(opLog) + 1] = tx
      /\ \A i \in 1 .. Len(opLog) : opLog'[i] = opLog[i]
  BY <1>1
<1>3. segment'.size = segment.size + 1 /\ segment.size \in Nat /\ segment.size <= Len(opLog)
  BY SegmentFields DEF OperationsTypeOK, DefineHeavyTx
<1>4. Len(opLog') - segment'.size = Len(opLog) - segment.size
  <2> SUFFICES ASSUME NEW n \in Nat, NEW k \in Nat PROVE (n + 1) - (k + 1) = n - k
    BY <1>2, <1>3, Zenon
  <2> QED
    OBVIOUS
<1>5. Closed' = Closed /\ Closed \subseteq 1 .. Len(opLog) /\ Current \subseteq 1 .. Len(opLog)
  BY <1>2, <1>3, <1>4 DEF Closed, Current
<1>6. Current' = (Len(opLog) - segment.size + 1) .. (Len(opLog) + 1)
  BY <1>2, <1>4 DEF Current
<1>7. Current' = Current \cup {Len(opLog) + 1}
  BY <1>2, <1>3, <1>6 DEF Current
<1> QED
  BY <1>2, <1>3, <1>5, <1>7

\* DefineHeavyTx keeps the invariant of the open segment: its counters and operations
\* are those of its transactions.
LEMMA SegmentStep ==
  ASSUME NEW tx \in Txs, OperationsTypeOK, SegmentInv, DefineHeavyTx(tx)
  PROVE  OperationsTypeOK' /\ SegmentInv'
<1> DEFINE id == Len(opLog) + 1
<1>1. /\ Len(opLog) \in Nat /\ opLog' \in Seq(Txs) /\ Len(opLog') = id /\ opLog'[id] = tx
      /\ \A i \in 1 .. Len(opLog) : opLog'[i] = opLog[i]
      /\ Current \subseteq 1 .. Len(opLog) /\ Current' = Current \cup {id}
  BY LogStep
<1>2. /\ segment.size \in Nat /\ segment.on_chain_count \in Nat /\ segment.on_chain \in Nat
      /\ segment.priority_count \in Nat /\ segment.priority \in Nat
      /\ segment.message_count \in [MessageKinds -> Nat]
      /\ segment.message \in [MessageKinds -> Messages]
      /\ segment.size <= Len(opLog)
  BY SegmentFields DEF OperationsTypeOK
<1>3. /\ segment'.size = segment.size + 1
      /\ segment'.on_chain_count = segment.on_chain_count + One(ExistsOnChain(tx))
      /\ segment'.on_chain = Select(ExistsOnChain(tx), id, segment.on_chain)
      /\ segment'.priority_count = segment.priority_count + One(ExistsPriority(tx))
      /\ segment'.priority = Select(ExistsPriority(tx), id, segment.priority)
      /\ segment'.message_count = [kind \in MessageKinds |->
            segment.message_count[kind] + One(NeedsL1Signature(tx, kind))]
      /\ segment'.message = [kind \in MessageKinds |->
            Select(NeedsL1Signature(tx, kind), [account |-> tx.account, tx |-> id],
                   segment.message[kind])]
      /\ segment' = [size |-> segment'.size, on_chain_count |-> segment'.on_chain_count,
                     on_chain |-> segment'.on_chain, priority_count |-> segment'.priority_count,
                     priority |-> segment'.priority, message_count |-> segment'.message_count,
                     message |-> segment'.message]
      /\ chain' = chain
  BY DEF DefineHeavyTx
<1>4. /\ tx.on_chain \in BOOLEAN /\ tx.account \in Accounts /\ id \in Nat
      /\ [account |-> tx.account, tx |-> id] \in Messages
  BY <1>1 DEF Txs, Messages
<1>5. /\ ExistsOnChain(tx) \in BOOLEAN /\ ExistsPriority(tx) \in BOOLEAN
      /\ \A kind \in MessageKinds : NeedsL1Signature(tx, kind) \in BOOLEAN
  BY <1>4 DEF ExistsOnChain, ExistsPriority, NeedsL1Signature
<1> HIDE DEF id
<1>6. OperationsTypeOK'
  <2>1. /\ segment'.on_chain_count \in Nat /\ segment'.on_chain \in Nat
        /\ segment'.priority_count \in Nat /\ segment'.priority \in Nat
    BY <1>2, <1>3, <1>4 DEF One, Select
  <2>2. /\ segment'.message_count \in [MessageKinds -> Nat]
        /\ segment'.message \in [MessageKinds -> Messages]
    BY <1>2, <1>3, <1>4 DEF One, Select
  <2>3. segment'.size \in Nat /\ segment'.size <= Len(opLog')
    BY <1>1, <1>2, <1>3 DEF id
  <2>4. segment' \in SegmentRecords
    BY <1>3, <2>1, <2>2, <2>3 DEF SegmentRecords
  <2> QED
    BY <1>1, <1>3, <2>3, <2>4 DEF OperationsTypeOK
<1>7. Keeps(segment.on_chain_count, segment.on_chain, OnChainIn(Current))'
  <2>1. Keeps(segment.on_chain_count, segment.on_chain, OnChainIn(Current))
    BY DEF SegmentInv
  <2>2. CASE ExistsOnChain(tx)
    <3>1. OnChainIn(Current)' = OnChainIn(Current) \cup {id}
      BY <1>1, <2>2 DEF OnChainIn
    <3>2. segment'.on_chain_count = segment.on_chain_count + 1 /\ segment'.on_chain = id
      BY <1>3, <2>2 DEF One, Select
    <3>3. Keeps(segment.on_chain_count + 1, id, OnChainIn(Current) \cup {id})
      BY <1>2, <2>1, KeepsNext
    <3> QED
      BY <3>1, <3>2, <3>3
  <2>3. CASE ~ExistsOnChain(tx)
    <3>1. OnChainIn(Current)' = OnChainIn(Current)
      BY <1>1, <2>3 DEF OnChainIn
    <3>2. segment'.on_chain_count = segment.on_chain_count /\ segment'.on_chain = segment.on_chain
      BY <1>2, <1>3, <2>3 DEF One, Select
    <3> QED
      BY <2>1, <3>1, <3>2
  <2> QED
    BY <2>2, <2>3
<1>8. Keeps(segment.priority_count, segment.priority, PriorityIn(Current))'
  <2>1. Keeps(segment.priority_count, segment.priority, PriorityIn(Current))
    BY DEF SegmentInv
  <2>2. CASE ExistsPriority(tx)
    <3>1. PriorityIn(Current)' = PriorityIn(Current) \cup {id}
      BY <1>1, <2>2 DEF PriorityIn
    <3>2. segment'.priority_count = segment.priority_count + 1 /\ segment'.priority = id
      BY <1>3, <2>2 DEF One, Select
    <3>3. Keeps(segment.priority_count + 1, id, PriorityIn(Current) \cup {id})
      BY <1>2, <2>1, KeepsNext
    <3> QED
      BY <3>1, <3>2, <3>3
  <2>3. CASE ~ExistsPriority(tx)
    <3>1. PriorityIn(Current)' = PriorityIn(Current)
      BY <1>1, <2>3 DEF PriorityIn
    <3>2. segment'.priority_count = segment.priority_count /\ segment'.priority = segment.priority
      BY <1>2, <1>3, <2>3 DEF One, Select
    <3> QED
      BY <2>1, <3>1, <3>2
  <2> QED
    BY <2>2, <2>3
<1>9. ASSUME NEW kind \in MessageKinds
      PROVE  /\ Keeps(segment.message_count[kind], segment.message[kind].tx, NeedsIn(Current, kind))'
             /\ (MessageExists(segment.message[kind]) <=> segment.message_count[kind] # 0)'
  <2>1. /\ Keeps(segment.message_count[kind], segment.message[kind].tx, NeedsIn(Current, kind))
        /\ MessageExists(segment.message[kind]) <=> segment.message_count[kind] # 0
        /\ segment.message_count[kind] \in Nat
    BY <1>2 DEF SegmentInv
  <2>2. CASE NeedsL1Signature(tx, kind)
    <3>1. NeedsIn(Current, kind)' = NeedsIn(Current, kind) \cup {id}
      BY <1>1, <2>2 DEF NeedsIn
    <3>2. /\ segment'.message_count[kind] = segment.message_count[kind] + 1
          /\ segment'.message[kind] = [account |-> tx.account, tx |-> id]
      BY <1>3, <2>2 DEF One, Select
    <3>3. segment'.message[kind].tx = id /\ segment'.message[kind].account = tx.account
      BY <3>2
    <3>4. Keeps(segment.message_count[kind] + 1, id, NeedsIn(Current, kind) \cup {id})
      BY <2>1, KeepsNext
    <3>5. tx.account # 0
      BY <2>2, SignerIsNoTreasury DEF DefineHeavyTx
    <3>6. segment.message_count[kind] + 1 # 0
      BY <2>1
    <3>7. MessageExists(segment.message[kind])' /\ segment'.message_count[kind] # 0
      BY <3>2, <3>3, <3>5, <3>6 DEF MessageExists
    <3> QED
      BY <3>1, <3>2, <3>3, <3>4, <3>7
  <2>3. CASE ~NeedsL1Signature(tx, kind)
    <3>1. NeedsIn(Current, kind)' = NeedsIn(Current, kind)
      BY <1>1, <2>3 DEF NeedsIn
    <3>2. /\ segment'.message_count[kind] = segment.message_count[kind]
          /\ segment'.message[kind] = segment.message[kind]
      BY <1>2, <1>3, <2>3 DEF One, Select
    <3> QED
      BY <2>1, <3>1, <3>2 DEF MessageExists
  <2> QED
    BY <2>2, <2>3
<1>10. SegmentInv'
  BY <1>7, <1>8, <1>9 DEF SegmentInv
<1> QED
  BY <1>6, <1>10

(* The segments in the chain are those they were.                          *)
LEMMA ChainKept ==
  ASSUME NEW tx \in Txs, OperationsTypeOK, OnChainInv, DefineHeavyTx(tx)
  PROVE  OnChainInv'
<1>1. Closed' = Closed /\ Closed \subseteq 1 .. Len(opLog)
      /\ \A i \in 1 .. Len(opLog) : opLog'[i] = opLog[i]
  BY LogStep
<1>2. chain' = chain
  BY DEF DefineHeavyTx
<1>3. OnChainIn(Closed)' = OnChainIn(Closed)
  BY <1>1 DEF OnChainIn
<1>4. PriorityIn(Closed)' = PriorityIn(Closed)
  BY <1>1 DEF PriorityIn
<1>5. \A kind \in MessageKinds : NeedsIn(Closed, kind)' = NeedsIn(Closed, kind)
  BY <1>1 DEF NeedsIn
<1>6. /\ chain'.on_chain_count <= ON_CHAIN_OPERATIONS_LIMIT
      /\ {chain'.on_chain[i] : i \in 0 .. (chain'.on_chain_count - 1)} = OnChainIn(Closed)'
      /\ \A i, j \in 0 .. (chain'.on_chain_count - 1) :
            i < j => chain'.on_chain[i] < chain'.on_chain[j]
      /\ chain'.priority_count <= 1
      /\ Keeps(chain'.priority_count, chain'.priority, PriorityIn(Closed)')
  BY <1>2, <1>3, <1>4 DEF OnChainInv
<1>7. ASSUME NEW kind \in MessageKinds
      PROVE  NeedsIn(Closed, kind)' = IF MessageExists(chain'.message[kind])
                                      THEN {chain'.message[kind].tx} ELSE {}
  BY <1>2, <1>5 DEF OnChainInv
<1> QED
  BY <1>6, <1>7 DEF OnChainInv, MessageExists

-----------------------------------------------------------------------------
(* A segment goes into the chain.                                          *)

\* A chain step moves all transactions of the open segment, which come after the
\* closed ones, to the closed ones.
LEMMA SegmentCloses ==
  ASSUME OperationsTypeOK, DefineChainStep
  PROVE  /\ Len(opLog) \in Nat /\ opLog' = opLog /\ segment' = EmptySegment
         /\ Closed' = Closed \cup Current /\ Current' = {}
         /\ \A i \in Closed, j \in Current : i \in Nat /\ j \in Nat /\ i < j
         /\ OnChainIn(Closed)' = OnChainIn(Closed) \cup OnChainIn(Current)
         /\ PriorityIn(Closed)' = PriorityIn(Closed) \cup PriorityIn(Current)
         /\ \A kind \in MessageKinds :
               NeedsIn(Closed, kind)' = NeedsIn(Closed, kind) \cup NeedsIn(Current, kind)
<1>1. /\ Len(opLog) \in Nat /\ opLog' = opLog /\ segment' = EmptySegment
      /\ segment.size \in Nat /\ segment.size <= Len(opLog)
  BY SegmentFields DEF OperationsTypeOK, DefineChainStep
<1>2. segment'.size = 0
  BY <1>1, EmptySegmentFields
<1>3. Closed' = 1 .. Len(opLog) /\ Current' = {}
  BY <1>1, <1>2 DEF Closed, Current
<1>4. Closed' = Closed \cup Current
  <2>1. ASSUME NEW l \in Nat, NEW n \in Nat, n <= l
        PROVE  1 .. l = (1 .. (l - n)) \cup ((l - n + 1) .. l)
    BY <2>1
  <2> QED
    BY <1>1, <1>3, <2>1 DEF Closed, Current
<1>5. \A i \in Closed, j \in Current : i \in Nat /\ j \in Nat /\ i < j
  BY <1>1 DEF Closed, Current
<1>6. OnChainIn(Closed)' = OnChainIn(Closed) \cup OnChainIn(Current)
  BY <1>1, <1>4 DEF OnChainIn
<1>7. PriorityIn(Closed)' = PriorityIn(Closed) \cup PriorityIn(Current)
  BY <1>1, <1>4 DEF PriorityIn
<1>8. ASSUME NEW kind \in MessageKinds
      PROVE  NeedsIn(Closed, kind)' = NeedsIn(Closed, kind) \cup NeedsIn(Current, kind)
  BY <1>1, <1>4 DEF NeedsIn
<1> QED
  BY <1>1, <1>3, <1>4, <1>5, <1>6, <1>7, <1>8

(* A new segment has nothing yet.                                          *)
LEMMA SegmentIsNew ==
  ASSUME opLog' \in Seq(Txs), segment' = EmptySegment, Current' = {}
  PROVE  SegmentInv'
<1>1. /\ segment'.on_chain_count = 0 /\ segment'.priority_count = 0
      /\ \A kind \in MessageKinds : /\ segment'.message_count[kind] = 0
                                    /\ ~MessageExists(segment'.message[kind])
  BY EmptySegmentFields
<1>2. OnChainIn(Current)' = {} /\ PriorityIn(Current)' = {}
      /\ \A kind \in MessageKinds : NeedsIn(Current, kind)' = {}
  BY DEF OnChainIn, PriorityIn, NeedsIn
<1>3. /\ Keeps(segment.on_chain_count, segment.on_chain, OnChainIn(Current))'
      /\ Keeps(segment.priority_count, segment.priority, PriorityIn(Current))'
  BY <1>1, <1>2 DEF Keeps
<1>4. ASSUME NEW kind \in MessageKinds
      PROVE  /\ Keeps(segment.message_count[kind], segment.message[kind].tx, NeedsIn(Current, kind))'
             /\ (MessageExists(segment.message[kind]) <=> segment.message_count[kind] # 0)'
  BY <1>1, <1>2 DEF Keeps, MessageExists
<1> QED
  BY <1>3, <1>4 DEF SegmentInv

\* DefineChainStep keeps the invariant: what the segment held is in the chain, in
\* order and behind what was there.
LEMMA ChainGrows ==
  ASSUME OperationsTypeOK, SegmentInv, OnChainInv, DefineChainStep
  PROVE  OperationsTypeOK' /\ SegmentInv' /\ OnChainInv'
<1> DEFINE count == chain.on_chain_count
<1>1. /\ Len(opLog) \in Nat /\ opLog' = opLog /\ segment' = EmptySegment
      /\ Current' = {}
      /\ \A i \in Closed, j \in Current : i \in Nat /\ j \in Nat /\ i < j
      /\ OnChainIn(Closed)' = OnChainIn(Closed) \cup OnChainIn(Current)
      /\ PriorityIn(Closed)' = PriorityIn(Closed) \cup PriorityIn(Current)
      /\ \A kind \in MessageKinds :
            NeedsIn(Closed, kind)' = NeedsIn(Closed, kind) \cup NeedsIn(Current, kind)
  BY SegmentCloses
<1>2. /\ segment.on_chain_count \in Nat /\ segment.on_chain \in Nat
      /\ segment.priority_count \in Nat /\ segment.priority \in Nat
      /\ segment.message_count \in [MessageKinds -> Nat]
      /\ segment.message \in [MessageKinds -> Messages]
  BY SegmentFields DEF OperationsTypeOK
<1>3. /\ count \in Nat /\ chain.on_chain \in [Slots -> Nat]
      /\ chain.priority_count \in Nat /\ chain.priority \in Nat
      /\ chain.message \in [MessageKinds -> Messages]
      /\ count <= ON_CHAIN_OPERATIONS_LIMIT
  BY ChainFields DEF OperationsTypeOK, OnChainInv
<1>4. /\ chain'.on_chain_count = count + segment.on_chain_count
      /\ chain'.on_chain = [i \in Slots |->
            Select(segment.on_chain_count # 0 /\ i = count, segment.on_chain, chain.on_chain[i])]
      /\ chain'.priority_count = chain.priority_count + segment.priority_count
      /\ chain'.priority = Select(segment.priority_count # 0, segment.priority, chain.priority)
      /\ chain'.message = [kind \in MessageKinds |->
            Select(MessageExists(segment.message[kind]), segment.message[kind], chain.message[kind])]
      /\ chain' = [on_chain_count |-> chain'.on_chain_count, on_chain |-> chain'.on_chain,
                   priority_count |-> chain'.priority_count, priority |-> chain'.priority,
                   message |-> chain'.message]
  BY DEF DefineChainStep
<1>5. /\ segment.on_chain_count <= 1
      /\ segment.on_chain_count # 0 => count # ON_CHAIN_OPERATIONS_LIMIT
      /\ segment.priority_count <= 1
      /\ segment.priority_count # 0 => chain.priority_count = 0
      /\ \A kind \in MessageKinds :
            /\ segment.message_count[kind] <= 1
            /\ MessageExists(segment.message[kind]) => ~MessageExists(chain.message[kind])
  BY DEF DefineChainStep, SegmentAccepted, PostTxBatchAccepted, MessagesAccepted,
         PriorityAccepted, OnChainAccepted
<1>6. OperationsTypeOK'
  <2>1. chain'.on_chain_count \in Nat /\ chain'.priority_count \in Nat /\ chain'.priority \in Nat
    BY <1>2, <1>3, <1>4 DEF Select
  <2>2. chain'.on_chain \in [Slots -> Nat]
    BY <1>2, <1>3, <1>4 DEF Select
  <2>3. chain'.message \in [MessageKinds -> Messages]
    BY <1>2, <1>3, <1>4 DEF Select
  <2>4. chain' \in ChainRecords
    BY <1>4, <2>1, <2>2, <2>3 DEF ChainRecords
  <2>5. segment' \in SegmentRecords /\ segment'.size = 0
    BY <1>1, EmptySegmentFields
  <2> QED
    BY <1>1, <2>4, <2>5 DEF OperationsTypeOK
<1>7. SegmentInv'
  BY <1>1, <1>6, SegmentIsNew DEF OperationsTypeOK
<1>8. /\ (chain.on_chain_count <= ON_CHAIN_OPERATIONS_LIMIT)'
      /\ {chain'.on_chain[i] : i \in 0 .. (chain'.on_chain_count - 1)} = OnChainIn(Closed)'
      /\ \A i, j \in 0 .. (chain'.on_chain_count - 1) :
            i < j => chain'.on_chain[i] < chain'.on_chain[j]
  <2>1. /\ {chain.on_chain[i] : i \in 0 .. (count - 1)} = OnChainIn(Closed)
        /\ \A i, j \in 0 .. (count - 1) : i < j => chain.on_chain[i] < chain.on_chain[j]
        /\ Keeps(segment.on_chain_count, segment.on_chain, OnChainIn(Current))
    BY DEF OnChainInv, SegmentInv
  <2>2. \A i \in 0 .. (count - 1) : i \in Slots /\ i # count
    BY OperationsAssumption, <1>3 DEF Slots
  <2>3. \A i \in 0 .. (count - 1) : chain'.on_chain[i] = chain.on_chain[i]
    BY <1>3, <1>4, <2>2 DEF Select
  <2>4. CASE segment.on_chain_count = 0
    <3>1. chain'.on_chain_count = count /\ OnChainIn(Current) = {}
      BY <1>3, <1>4, <2>1, <2>4 DEF Keeps
    <3>2. OnChainIn(Closed)' = OnChainIn(Closed)
      BY <1>1, <3>1
    <3> QED
      BY <1>3, <2>1, <2>3, <3>1, <3>2
  <2>5. CASE segment.on_chain_count = 1
    <3>1. OnChainIn(Current) = {segment.on_chain}
      BY <2>1, <2>5 DEF Keeps
    <3>2. chain'.on_chain_count = count + 1 /\ count \in Slots
          /\ count + 1 <= ON_CHAIN_OPERATIONS_LIMIT
      BY OperationsAssumption, <1>3, <1>4, <1>5, <2>5 DEF Slots
    <3>3. chain'.on_chain[count] = segment.on_chain
      BY <1>4, <2>5, <3>2 DEF Select
    <3>4. 0 .. ((count + 1) - 1) = (0 .. (count - 1)) \cup {count}
      BY <1>3
    <3>5. {chain'.on_chain[i] : i \in 0 .. ((count + 1) - 1)} =
            {chain.on_chain[i] : i \in 0 .. (count - 1)} \cup {segment.on_chain}
      BY <2>3, <3>3, <3>4
    <3>6. \A i \in 0 .. (count - 1) : chain.on_chain[i] < segment.on_chain
      <4>1. OnChainIn(Closed) \subseteq Closed /\ OnChainIn(Current) \subseteq Current
        BY DEF OnChainIn
      <4> QED
        BY <1>1, <2>1, <3>1, <4>1
    <3>7. ASSUME NEW i \in 0 .. ((count + 1) - 1), NEW j \in 0 .. ((count + 1) - 1), i < j
          PROVE  chain'.on_chain[i] < chain'.on_chain[j]
      <4>1. i \in 0 .. (count - 1)
        BY <1>3, <3>7
      <4>2. CASE j = count
        BY <2>3, <3>3, <3>6, <4>1, <4>2
      <4>3. CASE j # count
        <5>1. j \in 0 .. (count - 1)
          BY <1>3, <4>3
        <5> QED
          BY <2>1, <2>3, <3>7, <4>1, <5>1
      <4> QED
        BY <4>2, <4>3
    <3>8. {chain'.on_chain[i] : i \in 0 .. ((count + 1) - 1)} = OnChainIn(Closed)'
      BY <1>1, <2>1, <3>1, <3>5
    <3> QED
      BY <3>2, <3>7, <3>8
  <2> QED
    BY <1>2, <1>5, <2>4, <2>5
<1>9. /\ (chain.priority_count <= 1)'
      /\ Keeps(chain.priority_count, chain.priority, PriorityIn(Closed))'
  <2>1. /\ chain.priority_count <= 1
        /\ Keeps(chain.priority_count, chain.priority, PriorityIn(Closed))
        /\ Keeps(segment.priority_count, segment.priority, PriorityIn(Current))
    BY DEF OnChainInv, SegmentInv
  <2>2. CASE segment.priority_count = 0
    <3>1. PriorityIn(Current) = {}
      BY <2>1, <2>2 DEF Keeps
    <3>2. chain'.priority_count = chain.priority_count /\ chain'.priority = chain.priority
      BY <1>3, <1>4, <2>2 DEF Select
    <3>3. PriorityIn(Closed)' = PriorityIn(Closed)
      BY <1>1, <3>1
    <3> QED
      BY <2>1, <3>2, <3>3
  <2>3. CASE segment.priority_count = 1
    <3>1. PriorityIn(Current) = {segment.priority}
      BY <2>1, <2>3 DEF Keeps
    <3>2. chain'.priority_count = 1 /\ chain'.priority = segment.priority /\ chain.priority_count = 0
      BY <1>3, <1>4, <1>5, <2>3 DEF Select
    <3>3. PriorityIn(Closed)' = {segment.priority}
      BY <1>1, <2>1, <3>1, <3>2 DEF Keeps
    <3> QED
      BY <3>2, <3>3 DEF Keeps
  <2> QED
    BY <1>2, <1>5, <2>2, <2>3
<1>10. ASSUME NEW kind \in MessageKinds
       PROVE  NeedsIn(Closed, kind)' = IF MessageExists(chain'.message[kind])
                                       THEN {chain'.message[kind].tx} ELSE {}
  <2>1. /\ Keeps(segment.message_count[kind], segment.message[kind].tx, NeedsIn(Current, kind))
        /\ MessageExists(segment.message[kind]) <=> segment.message_count[kind] # 0
        /\ NeedsIn(Closed, kind) = IF MessageExists(chain.message[kind])
                                   THEN {chain.message[kind].tx} ELSE {}
    BY DEF OnChainInv, SegmentInv
  <2>2. NeedsIn(Closed, kind)' = NeedsIn(Closed, kind) \cup NeedsIn(Current, kind)
    BY <1>1
  <2>3. chain'.message[kind] = Select(MessageExists(segment.message[kind]),
                                      segment.message[kind], chain.message[kind])
    BY <1>4
  <2>4. CASE MessageExists(segment.message[kind])
    <3>1. segment.message_count[kind] = 1 /\ ~MessageExists(chain.message[kind])
      BY <1>2, <1>5, <2>1, <2>4
    <3>2. NeedsIn(Current, kind) = {segment.message[kind].tx} /\ NeedsIn(Closed, kind) = {}
      BY <2>1, <3>1 DEF Keeps
    <3>3. chain'.message[kind] = segment.message[kind]
      BY <2>3, <2>4 DEF Select
    <3>4. NeedsIn(Closed, kind)' = {segment.message[kind].tx}
      BY <2>2, <3>2
    <3> QED
      BY <2>4, <3>3, <3>4
  <2>5. CASE ~MessageExists(segment.message[kind])
    <3>1. NeedsIn(Current, kind) = {}
      BY <2>1, <2>5 DEF Keeps
    <3>2. chain'.message[kind] = chain.message[kind]
      BY <2>3, <2>5 DEF Select
    <3>3. NeedsIn(Closed, kind)' = NeedsIn(Closed, kind)
      BY <2>2, <3>1
    <3> QED
      BY <2>1, <3>2, <3>3
  <2> QED
    BY <2>4, <2>5
<1>11. OnChainInv'
  BY <1>8, <1>9, <1>10 DEF OnChainInv, MessageExists
<1> QED
  BY <1>6, <1>7, <1>11

-----------------------------------------------------------------------------
(* The block circuit publishes what the chain has.                         *)
LEMMA BlockPublishes ==
  ASSUME OperationsTypeOK, OnChainInv, PublishBlock
  PROVE  PublishesExactly'
<1> DEFINE count == chain.on_chain_count
           told == [i \in 1 .. count |-> chain.on_chain[i - 1]]
           operation == Select(chain.priority_count # 0, <<chain.priority>>, <<>>)
<1>1. /\ count \in Nat /\ chain.on_chain \in [Slots -> Nat] /\ count <= ON_CHAIN_OPERATIONS_LIMIT
      /\ chain.priority_count \in Nat /\ chain.priority \in Nat
  BY ChainFields DEF OperationsTypeOK, OnChainInv
<1>2. opLog' = opLog /\ published'.on_chain = told /\ published'.priority = operation
      /\ published'.signed = {chain.message[kind].tx : kind \in ExistingKinds}
  BY DEF PublishBlock
<1>3. Closed = 1 .. Len(opLog)
  BY DEF PublishBlock, OperationsTypeOK, Closed
<1>4. Enumerates(told, OnChainTxs)
  <2>1. /\ {chain.on_chain[i] : i \in 0 .. (count - 1)} = OnChainTxs
        /\ \A i, j \in 0 .. (count - 1) : i < j => chain.on_chain[i] < chain.on_chain[j]
    BY <1>3 DEF OnChainInv, OnChainIn, OnChainTxs
  <2>2. Len(told) = count /\ \A i \in 1 .. count : told[i] = chain.on_chain[i - 1]
    <3>1. \A i \in 1 .. count : chain.on_chain[i - 1] \in Nat
      BY OperationsAssumption, <1>1 DEF Slots
    <3> QED
      BY <1>1, <3>1
  <2>3. {chain.on_chain[i - 1] : i \in 1 .. count} = {chain.on_chain[i] : i \in 0 .. (count - 1)}
    <3>1. \A i \in 1 .. count : i - 1 \in 0 .. (count - 1)
      BY <1>1
    <3>2. \A i \in 0 .. (count - 1) : i + 1 \in 1 .. count /\ (i + 1) - 1 = i
      BY <1>1
    <3> QED
      BY <3>1, <3>2
  <2>4. {told[i] : i \in 1 .. count} = OnChainTxs
    BY <2>1, <2>2, <2>3
  <2>5. ASSUME NEW i \in 1 .. count, NEW j \in 1 .. count, i < j
        PROVE  told[i] < told[j]
    <3>1. i - 1 \in 0 .. (count - 1) /\ j - 1 \in 0 .. (count - 1) /\ i - 1 < j - 1
      BY <1>1, <2>5
    <3>2. chain.on_chain[i - 1] < chain.on_chain[j - 1]
      BY <2>1, <3>1
    <3> QED
      BY <2>2, <3>2
  <2> QED
    BY <2>2, <2>4, <2>5 DEF Enumerates
<1>5. Enumerates(operation, PriorityTxs)
  <2>1. Keeps(chain.priority_count, chain.priority, PriorityTxs) /\ chain.priority_count <= 1
    BY <1>3 DEF OnChainInv, PriorityIn, PriorityTxs
  <2>2. CASE chain.priority_count = 0
    <3>1. operation = <<>> /\ PriorityTxs = {}
      BY <2>1, <2>2 DEF Select, Keeps
    <3> QED
      BY <3>1 DEF Enumerates
  <2>3. CASE chain.priority_count = 1
    <3>1. operation = <<chain.priority>> /\ PriorityTxs = {chain.priority}
      BY <2>1, <2>3 DEF Select, Keeps
    <3>2. Len(operation) = 1 /\ operation[1] = chain.priority
      BY <3>1
    <3> QED
      BY <3>1, <3>2 DEF Enumerates
  <2> QED
    BY <1>1, <2>1, <2>2, <2>3
<1>6. {chain.message[kind].tx : kind \in ExistingKinds} = Signable
  <2>1. ASSUME NEW kind \in MessageKinds
        PROVE  {i \in 1 .. Len(opLog) : NeedsL1Signature(opLog[i], kind)} =
                 IF kind \in ExistingKinds THEN {chain.message[kind].tx} ELSE {}
    BY <1>3 DEF OnChainInv, NeedsIn, ExistingKinds
  <2> QED
    BY <2>1 DEF Signable, ExistingKinds
<1>7. OnChainTxs' = OnChainTxs /\ PriorityTxs' = PriorityTxs /\ Signable' = Signable
  BY <1>2 DEF OnChainTxs, PriorityTxs, Signable
<1> QED
  BY <1>2, <1>4, <1>5, <1>6, <1>7 DEF PublishesExactly

(* Nothing is in an empty chain.                                           *)
LEMMA NothingAtFirst ==
  ASSUME OperationsInit
  PROVE  OperationsInv
<1>1. opLog = <<>> /\ segment = EmptySegment /\ chain = EmptyChain /\ published = Open
  BY DEF OperationsInit
<1>2. segment \in SegmentRecords /\ segment.size = 0
      /\ segment.on_chain_count = 0 /\ segment.priority_count = 0
      /\ \A kind \in MessageKinds : /\ segment.message_count[kind] = 0
                                    /\ ~MessageExists(segment.message[kind])
  BY <1>1, EmptySegmentFields
<1>3. NoMessage \in Messages /\ NoMessage.account = 0 /\ NoData \in Nat
  BY DEF NoMessage, Messages, NoData
<1>4. /\ chain \in ChainRecords /\ chain.on_chain_count = 0 /\ chain.priority_count = 0
      /\ \A kind \in MessageKinds : ~MessageExists(chain.message[kind])
  BY <1>1, <1>3 DEF EmptyChain, ChainRecords, MessageExists
<1>5. Len(opLog) = 0 /\ opLog \in Seq(Txs)
  BY <1>1
<1>6. Closed = {} /\ Current = {}
  BY <1>2, <1>5 DEF Closed, Current
<1>7. OperationsTypeOK
  BY <1>2, <1>4, <1>5 DEF OperationsTypeOK
<1>8. SegmentInv
  BY <1>2, <1>6 DEF SegmentInv, Keeps, OnChainIn, PriorityIn, NeedsIn
<1>9. OnChainInv
  <2>1. {chain.on_chain[i] : i \in 0 .. (chain.on_chain_count - 1)} = {}
        /\ 0 .. (chain.on_chain_count - 1) = {}
    BY <1>4
  <2> QED
    BY OperationsAssumption, <1>4, <1>6, <2>1 DEF OnChainInv, Keeps, OnChainIn, PriorityIn, NeedsIn
<1> QED
  BY <1>1, <1>7, <1>8, <1>9 DEF OperationsInv, PublishesExactly

-----------------------------------------------------------------------------
(* What segment and chain keep is all their transactions have, as long as  *)
(* no limit is exceeded: the data that define_tx of the heavy circuit      *)
(* overwrites, and the slots the chain's step fills, lose no operation.    *)
THEOREM NothingIsLost == OperationsSpec => []OperationsInv
<1>1. OperationsInit => OperationsInv
  BY NothingAtFirst
<1>2. OperationsInv /\ [OperationsNext]_opVars => OperationsInv'
  <2> SUFFICES ASSUME OperationsInv, [OperationsNext]_opVars
               PROVE  OperationsInv'
    OBVIOUS
  <2>1. OperationsTypeOK /\ SegmentInv /\ OnChainInv /\ PublishesExactly
    BY DEF OperationsInv
  <2>2. ASSUME NEW tx \in Txs, DefineHeavyTx(tx)
        PROVE  OperationsInv'
    <3>1. OperationsTypeOK' /\ SegmentInv'
      BY <2>1, <2>2, SegmentStep
    <3>2. OnChainInv'
      BY <2>1, <2>2, ChainKept
    <3>3. published' = Open
      BY <2>2 DEF DefineHeavyTx
    <3> QED
      BY <3>1, <3>2, <3>3 DEF OperationsInv, PublishesExactly
  <2>3. CASE DefineChainStep
    <3>1. OperationsTypeOK' /\ SegmentInv' /\ OnChainInv'
      BY <2>1, <2>3, ChainGrows
    <3>2. published' = Open
      BY <2>3 DEF DefineChainStep
    <3> QED
      BY <3>1, <3>2 DEF OperationsInv, PublishesExactly
  <2>4. CASE PublishBlock
    <3>1. PublishesExactly'
      BY <2>1, <2>4, BlockPublishes
    <3>2. opLog' = opLog /\ segment' = segment /\ chain' = chain
      BY <2>4 DEF PublishBlock
    <3>3. OperationsTypeOK'
      BY <2>1, <3>2 DEF OperationsTypeOK
    <3>4. SegmentInv' /\ OnChainInv'
      BY <2>1, <3>2 DEF SegmentInv, OnChainInv, Current, Closed, OnChainIn, PriorityIn, NeedsIn,
                        MessageExists
    <3> QED
      BY <3>1, <3>3, <3>4 DEF OperationsInv
  <2>5. CASE UNCHANGED opVars
    <3>1. opLog' = opLog /\ segment' = segment /\ chain' = chain /\ published' = published
      BY <2>5 DEF opVars
    <3>2. OperationsTypeOK'
      BY <2>1, <3>1 DEF OperationsTypeOK
    <3>3. SegmentInv' /\ OnChainInv'
      BY <2>1, <3>1 DEF SegmentInv, OnChainInv, Current, Closed, OnChainIn, PriorityIn, NeedsIn,
                        MessageExists
    <3>4. PublishesExactly'
      BY <2>1, <3>1 DEF PublishesExactly, OnChainTxs, PriorityTxs, Signable
    <3> QED
      BY <3>2, <3>3, <3>4 DEF OperationsInv
  <2> QED
    BY <2>2, <2>3, <2>4, <2>5 DEF OperationsNext
<1> QED
  BY <1>1, <1>2, PTL DEF OperationsSpec

(* A proved block tells the base chain every on-chain operation in order,  *)
(* its priority operation, and has every transaction that needs the        *)
(* signature of an L1 key checked for one: for every number of accounts,   *)
(* segments, transactions of a segment and slots for on-chain operations.  *)
THEOREM BlocksPublishExactly == OperationsSpec => []PublishesExactly
<1>1. OperationsInv => PublishesExactly
  BY DEF OperationsInv
<1> QED
  BY <1>1, NothingIsLost, PTL

============================================================================
