---------------------------- MODULE BatchesProofs ----------------------------
(***************************************************************************)
(* A batch describes exactly its blocks, for any number of blocks and of   *)
(* segments, whatever each segment assumed of the operations before it.    *)
(*                                                                         *)
(* A segment is described like a batch, but for what was published before  *)
(* it: its hash is the assumed one followed by its own operations.  Adding *)
(* a block to a segment is merging the segment that has only this block,   *)
(* so that one lemma (MergeTold) serves both circuits.                     *)
(***************************************************************************)
EXTENDS Batches, SequenceTheorems, TLAPS

BatchRecords ==
    [size : Nat, end : BlockNumbers, info : Seq(BlockNumbers),
     start_at : Timestamps, end_at : Timestamps, old : BatchRoots, new : BatchRoots,
     validium : BlockNumbers, on_chain : Seq(BlockNumbers),
     priority_count : Nat, old_prefix : Nat, new_prefix : Nat]

\* Each block continues the one before it.
Chained(blocks) ==
    \A i \in 1 .. (Len(blocks) - 1) : Continues(blocks[i], blocks[i + 1])

\* The batch says of the blocks where they begin and where they end.
Describes(batch, blocks) ==
    LET n == Len(blocks)
    IN  /\ n >= 1
        /\ Chained(blocks)
        /\ \A i \in 1 .. n : blocks[i].number = (batch.end - batch.size) + i
        /\ batch.size = n /\ batch.end = blocks[n].number /\ batch.validium = blocks[n].number
        /\ batch.start_at = blocks[1].at /\ batch.end_at = blocks[n].at
        /\ batch.old = blocks[1].old /\ batch.new = blocks[n].new
        /\ batch.old_prefix = blocks[1].prefix /\ batch.new_prefix = NewPrefix(blocks[n])
        /\ batch.priority_count = NewPrefix(blocks[n]) - blocks[1].prefix

\* What it publishes is what it assumed and then the blocks' own operations.
Tells(batch, blocks) ==
    \E own \in Seq(BlockNumbers) :
        batch.on_chain = batch.info \o own /\ Enumerates(own, Publishing(blocks))

Told(batch, blocks) ==
    batch \in BatchRecords /\ blocks \in Seq(Blocks) /\ Describes(batch, blocks) /\ Tells(batch, blocks)

TypeOK ==
    /\ segment \in BatchRecords \cup {NoSegment}
    /\ merged \in [count : Nat, batch : BatchRecords \cup {NoBatch}]
    /\ described \in [merged : Seq(Blocks), segment : Seq(Blocks)]

MergedInv ==
    /\ merged.count = 0 => described.merged = <<>>
    /\ merged.count > 0 =>
          /\ Told(merged.batch, described.merged)
          /\ merged.batch.info = <<>>
          /\ merged.batch.old.delta = EmptyDeltaRoot

SegmentInv == segment # NoSegment => Told(segment, described.segment)

IInv == TypeOK /\ MergedInv /\ SegmentInv

-----------------------------------------------------------------------------
\* The types of a block's fields.
LEMMA BlockFields ==
  ASSUME NEW block \in Blocks
  PROVE  /\ block.number \in BlockNumbers /\ block.number \in Nat
         /\ block.at \in Timestamps /\ block.at \in Nat
         /\ block.old \in BatchRoots /\ block.new \in BatchRoots
         /\ block.prefix \in Nat
         /\ block.operations.on_chain \in {0, 1} /\ block.operations.priority \in {0, 1}
         /\ NewPrefix(block) \in Nat
<1>1. /\ block.number \in BlockNumbers /\ block.at \in Timestamps
      /\ block.old \in BatchRoots /\ block.new \in BatchRoots
      /\ block.prefix \in Prefixes /\ block.operations \in OperationCounts
  BY DEF Blocks
<1>2. block.operations \in [on_chain : {0, 1}, priority : {0, 1}]
  BY <1>1, BatchAssumption
<1>3. block.operations.on_chain \in {0, 1} /\ block.operations.priority \in {0, 1}
  BY <1>2
<1>4. block.number \in Nat /\ block.at \in Nat /\ block.prefix \in Nat
  BY <1>1, BatchAssumption
<1> QED
  BY <1>1, <1>3, <1>4 DEF NewPrefix

\* The types of the fields of a segment or batch.
LEMMA RecordFields ==
  ASSUME NEW batch \in BatchRecords
  PROVE  /\ batch.size \in Nat /\ batch.end \in BlockNumbers /\ batch.end \in Nat
         /\ batch.info \in Seq(BlockNumbers) /\ batch.on_chain \in Seq(BlockNumbers)
         /\ batch.start_at \in Timestamps /\ batch.end_at \in Timestamps
         /\ batch.start_at \in Nat /\ batch.end_at \in Nat
         /\ batch.old \in BatchRoots /\ batch.new \in BatchRoots
         /\ batch.priority_count \in Nat /\ batch.old_prefix \in Nat /\ batch.new_prefix \in Nat
<1>1. /\ batch.size \in Nat /\ batch.end \in BlockNumbers
      /\ batch.info \in Seq(BlockNumbers) /\ batch.on_chain \in Seq(BlockNumbers)
      /\ batch.start_at \in Timestamps /\ batch.end_at \in Timestamps
      /\ batch.old \in BatchRoots /\ batch.new \in BatchRoots
      /\ batch.priority_count \in Nat /\ batch.old_prefix \in Nat /\ batch.new_prefix \in Nat
  BY DEF BatchRecords
<1> QED
  BY <1>1, BatchAssumption

(* The merged record, field by field.                                      *)
LEMMA MergedFields ==
  ASSUME NEW a \in BatchRecords, NEW b \in BatchRecords,
         NEW m, m = merge_consecutive(a, b)
  PROVE  /\ m \in BatchRecords
         /\ m.size = a.size + b.size /\ m.end = b.end /\ m.info = a.info
         /\ m.start_at = a.start_at /\ m.end_at = b.end_at
         /\ m.old = a.old /\ m.new = b.new /\ m.validium = b.validium
         /\ m.on_chain = b.on_chain
         /\ m.priority_count = a.priority_count + b.priority_count
         /\ m.old_prefix = a.old_prefix /\ m.new_prefix = b.new_prefix
<1>1. /\ m.size = a.size + b.size /\ m.end = b.end /\ m.info = a.info
      /\ m.start_at = a.start_at /\ m.end_at = b.end_at
      /\ m.old = a.old /\ m.new = b.new /\ m.validium = b.validium
      /\ m.on_chain = b.on_chain
      /\ m.priority_count = a.priority_count + b.priority_count
      /\ m.old_prefix = a.old_prefix /\ m.new_prefix = b.new_prefix
  BY DEF merge_consecutive, BatchRecords
<1>2. m.size \in Nat /\ m.priority_count \in Nat
  BY <1>1, RecordFields
<1>3. m \in BatchRecords
  BY <1>2 DEF merge_consecutive, BatchRecords
<1> QED
  BY <1>1, <1>3

-----------------------------------------------------------------------------
(* The operations that are published.                                      *)

\* A sequence over a set is one over any larger set.
LEMMA SeqMonotone ==
  ASSUME NEW S, NEW R, S \subseteq R, NEW s \in Seq(S)
  PROVE  s \in Seq(R)
OBVIOUS

\* Concatenation is associative.
LEMMA Reassociate ==
  \A p, q, r \in Seq(BlockNumbers) : (p \o q) \o r = p \o (q \o r)
BY ConcatAssociative

\* Two ascending enumerations, all of the first below all of the second,
\* concatenate to one of the union.
LEMMA EnumeratesConcat ==
  ASSUME NEW X, NEW Y, NEW x \in Seq(Nat), NEW y \in Seq(Nat),
         Enumerates(x, X), Enumerates(y, Y), \A a \in X, b \in Y : a < b
  PROVE  Enumerates(x \o y, X \cup Y)
<1> DEFINE m == Len(x)
           n == Len(y)
           z == x \o y
<1>1. /\ z \in Seq(Nat) /\ Len(z) = m + n /\ m \in Nat /\ n \in Nat
      /\ \A i \in 1 .. m + n : z[i] = IF i <= m THEN x[i] ELSE y[i - m]
  BY ConcatProperties
<1>2. /\ \A i \in 1 .. m : i \in 1 .. m + n /\ z[i] = x[i] /\ x[i] \in X
      /\ \A i \in 1 .. n : i + m \in 1 .. m + n /\ z[i + m] = y[i] /\ y[i] \in Y
  BY <1>1 DEF Enumerates
<1>3. \A i \in 1 .. m + n : i \in 1 .. m \/ (i - m \in 1 .. n /\ z[i] = y[i - m])
  BY <1>1
<1> HIDE DEF z, m, n
<1>4. {z[i] : i \in 1 .. m + n} = X \cup Y
  <2>1. \A v \in X : \E i \in 1 .. m + n : z[i] = v
    BY <1>2 DEF Enumerates, m
  <2>2. \A v \in Y : \E i \in 1 .. m + n : z[i] = v
    BY <1>2 DEF Enumerates, n
  <2>3. \A i \in 1 .. m + n : z[i] \in X \cup Y
    BY <1>2, <1>3
  <2> QED
    BY <2>1, <2>2, <2>3
<1>5. \A i, j \in 1 .. m + n : i < j => z[i] < z[j]
  <2> SUFFICES ASSUME NEW i \in 1 .. m + n, NEW j \in 1 .. m + n, i < j PROVE z[i] < z[j]
    OBVIOUS
  <2>1. CASE j \in 1 .. m
    <3>1. i \in 1 .. m
      BY <1>1, <2>1
    <3> QED
      BY <1>2, <2>1, <3>1 DEF Enumerates, m
  <2>2. CASE i \in 1 .. m /\ j \notin 1 .. m
    BY <1>2, <1>3, <2>2
  <2>3. CASE i \notin 1 .. m
    <3>1. j \notin 1 .. m
      BY <1>1, <2>3
    <3>2. /\ i - m \in 1 .. n /\ j - m \in 1 .. n /\ i - m < j - m
          /\ z[i] = y[i - m] /\ z[j] = y[j - m]
      BY <1>1, <1>3, <2>3, <3>1
    <3> QED
      BY <3>2 DEF Enumerates, n
  <2> QED
    BY <2>1, <2>2, <2>3
<1> QED
  BY <1>1, <1>4, <1>5 DEF Enumerates, z

\* What two runs of blocks publish is what each of them publishes.
LEMMA PublishingConcat ==
  ASSUME NEW s \in Seq(Blocks), NEW t \in Seq(Blocks)
  PROVE  Publishing(s \o t) = Publishing(s) \cup Publishing(t)
<1> DEFINE m == Len(s)
           n == Len(t)
           u == s \o t
<1>1. /\ Len(u) = m + n /\ m \in Nat /\ n \in Nat
      /\ \A i \in 1 .. m + n : u[i] = IF i <= m THEN s[i] ELSE t[i - m]
  BY ConcatProperties
<1> HIDE DEF u, m, n
<1>2. /\ \A i \in 1 .. m : i \in 1 .. m + n /\ u[i] = s[i]
      /\ \A i \in 1 .. n : i + m \in 1 .. m + n /\ u[i + m] = t[i]
      /\ \A i \in 1 .. m + n : i \in 1 .. m \/ (i - m \in 1 .. n /\ u[i] = t[i - m])
  BY <1>1
<1>3. Publishing(u) \subseteq Publishing(s) \cup Publishing(t)
  BY <1>1, <1>2 DEF Publishing, m, n
<1>4. Publishing(s) \subseteq Publishing(u)
  BY <1>1, <1>2 DEF Publishing, m
<1>5. Publishing(t) \subseteq Publishing(u)
  BY <1>1, <1>2, SMTT(30) DEF Publishing, n
<1> QED
  BY <1>3, <1>4, <1>5 DEF u

\* A block folds its own number into the operations hash, or nothing.
LEMMA PubDataEnumerates ==
  ASSUME NEW block \in Blocks
  PROVE  PubData(block) \in Seq(BlockNumbers) /\ Enumerates(PubData(block), Publishing(<<block>>))
<1>1. block.operations.on_chain \in {0, 1} /\ block.number \in BlockNumbers
  BY BlockFields
<1>2. /\ Len(<<block>>) = 1 /\ <<block>>[1] = block
      /\ Publishing(<<block>>) = IF block.operations.on_chain = 1 THEN {block.number} ELSE {}
  BY DEF Publishing
<1>3. PubData(block) = IF block.operations.on_chain = 1 THEN <<block.number>> ELSE <<>>
  BY <1>1 DEF PubData
<1> QED
  BY <1>1, <1>2, <1>3 DEF Enumerates

-----------------------------------------------------------------------------
(* A segment of one block, and two segments merged.                        *)

\* A segment of one block tells what the block did (FirstBlock).
LEMMA FirstTold ==
  ASSUME NEW info \in Seq(BlockNumbers), NEW block \in Blocks
  PROVE  Told(FirstBlock(info, block), <<block>>)
<1> DEFINE b == FirstBlock(info, block)
<1>1. PubData(block) \in Seq(BlockNumbers) /\ Enumerates(PubData(block), Publishing(<<block>>))
  BY PubDataEnumerates
<1>2. b.on_chain = info \o PubData(block) /\ b.info = info
  BY DEF FirstBlock, aggregate_on_chain_operations_pub_data
<1>3. info \o PubData(block) \in Seq(BlockNumbers)
  BY <1>1, ConcatProperties
<1>4. b \in BatchRecords
  BY <1>3, BlockFields DEF FirstBlock, BatchRecords, aggregate_on_chain_operations_pub_data
<1>5. <<block>> \in Seq(Blocks) /\ Len(<<block>>) = 1 /\ <<block>>[1] = block
  OBVIOUS
<1>6. Describes(b, <<block>>)
  <2>1. /\ b.size = 1 /\ b.end = block.number /\ b.validium = block.number
        /\ b.start_at = block.at /\ b.end_at = block.at
        /\ b.old = block.old /\ b.new = block.new
        /\ b.old_prefix = block.prefix /\ b.new_prefix = NewPrefix(block)
        /\ b.priority_count = block.operations.priority
    BY DEF FirstBlock
  <2>2. block.operations.priority = NewPrefix(block) - block.prefix
    BY BlockFields DEF NewPrefix
  <2>3. 1 .. (1 - 1) = {} /\ block.number = (block.number - 1) + 1
    BY BlockFields
  <2> HIDE DEF b
  <2> QED
    BY <1>5, <2>1, <2>2, <2>3 DEF Describes, Chained
<1>7. Tells(b, <<block>>)
  BY <1>1, <1>2 DEF Tells
<1> QED
  BY <1>4, <1>5, <1>6, <1>7 DEF Told

\* merge_consecutive of two segments tells what the blocks of both did, if the
\* second assumed the operations hash the first ended with.
LEMMA MergeTold ==
  ASSUME NEW a, NEW s, NEW b, NEW t, Told(a, s), Told(b, t),
         b.info = a.on_chain, ConsecutiveAccepted(a, b)
  PROVE  Told(merge_consecutive(a, b), s \o t)
<1> DEFINE c == merge_consecutive(a, b)
           u == s \o t
           m == Len(s)
           n == Len(t)
<1>1. /\ a \in BatchRecords /\ b \in BatchRecords /\ s \in Seq(Blocks) /\ t \in Seq(Blocks)
      /\ Describes(a, s) /\ Describes(b, t) /\ Tells(a, s) /\ Tells(b, t)
  BY DEF Told
<1>2. /\ u \in Seq(Blocks) /\ Len(u) = m + n /\ m \in Nat /\ n \in Nat
      /\ \A i \in 1 .. m + n : u[i] = IF i <= m THEN s[i] ELSE t[i - m]
  BY <1>1, ConcatProperties
<1>3. /\ c \in BatchRecords
      /\ c.size = a.size + b.size /\ c.end = b.end /\ c.info = a.info
      /\ c.start_at = a.start_at /\ c.end_at = b.end_at
      /\ c.old = a.old /\ c.new = b.new /\ c.validium = b.validium
      /\ c.on_chain = b.on_chain
      /\ c.priority_count = a.priority_count + b.priority_count
      /\ c.old_prefix = a.old_prefix /\ c.new_prefix = b.new_prefix
  BY <1>1, MergedFields
<1> HIDE DEF c, u
<1>4. m >= 1 /\ n >= 1 /\ a.size = m /\ b.size = n /\ a.end \in Nat /\ b.end \in Nat
  BY <1>1, RecordFields DEF Describes
<1>5. u[1] = s[1] /\ u[m] = s[m] /\ u[m + 1] = t[1] /\ u[m + n] = t[n]
  <2>1. 1 \in 1 .. m + n /\ m \in 1 .. m + n /\ m + 1 \in 1 .. m + n /\ m + n \in 1 .. m + n
    BY <1>2, <1>4
  <2>2. (m + 1) - m = 1 /\ (m + n) - m = n /\ ~(m + 1 <= m) /\ ~(m + n <= m)
    BY <1>2, <1>4
  <2> QED
    BY <1>2, <1>4, <2>1, <2>2
<1>6. /\ s[1] \in Blocks /\ s[m] \in Blocks /\ t[1] \in Blocks /\ t[n] \in Blocks
  BY <1>1, <1>4
<1>7. a.end = b.end - b.size /\ a.end_at <= b.start_at /\ a.new = b.old /\ a.new_prefix = b.old_prefix
  BY <1>1, RecordFields, BatchAssumption DEF ConsecutiveAccepted
<1>8. Continues(s[m], t[1])
  <2>1. a.end = s[m].number /\ t[1].number = (b.end - b.size) + 1
    BY <1>1, <1>4 DEF Describes
  <2>2. /\ a.end_at = s[m].at /\ b.start_at = t[1].at /\ a.new = s[m].new /\ b.old = t[1].old
        /\ a.new_prefix = NewPrefix(s[m]) /\ b.old_prefix = t[1].prefix
    BY <1>1 DEF Describes
  <2> QED
    BY <1>4, <1>7, <2>1, <2>2 DEF Continues
<1>9. Chained(u)
  <2> SUFFICES ASSUME NEW i \in 1 .. ((m + n) - 1) PROVE Continues(u[i], u[i + 1])
    BY <1>2 DEF Chained
  <2>1. CASE i < m
    <3>1. i \in 1 .. (m - 1) /\ u[i] = s[i] /\ u[i + 1] = s[i + 1]
      BY <1>2, <2>1
    <3> QED
      BY <1>1, <3>1 DEF Describes, Chained
  <2>2. CASE i = m
    BY <1>5, <1>8, <2>2
  <2>3. CASE i > m
    <3>1. i - m \in 1 .. (n - 1) /\ u[i] = t[i - m] /\ u[i + 1] = t[(i - m) + 1]
      <4>1. (i + 1) - m = (i - m) + 1 /\ ~(i <= m) /\ ~(i + 1 <= m)
        BY <1>2, <2>3
      <4>2. i \in 1 .. m + n /\ i + 1 \in 1 .. m + n
        BY <1>2
      <4> QED
        BY <1>2, <2>3, <4>1, <4>2
    <3> QED
      BY <1>1, <3>1 DEF Describes, Chained
  <2> QED
    BY <1>2, <2>1, <2>2, <2>3
<1>10. \A i \in 1 .. m + n : u[i].number = (c.end - c.size) + i
  <2> TAKE i \in 1 .. m + n
  <2>1. CASE i <= m
    <3>1. u[i] = s[i] /\ s[i].number = (a.end - a.size) + i
      BY <1>1, <1>2, <2>1 DEF Describes
    <3> QED
      BY <1>2, <1>3, <1>4, <1>7, <3>1
  <2>2. CASE i > m
    <3>1. u[i] = t[i - m] /\ t[i - m].number = (b.end - b.size) + (i - m)
      <4>1. ~(i <= m) /\ i - m \in 1 .. n
        BY <1>2, <2>2
      <4>2. u[i] = t[i - m]
        BY <1>2, <4>1
      <4>3. \A k \in 1 .. n : t[k].number = (b.end - b.size) + k
        BY <1>1 DEF Describes
      <4> QED
        BY <4>1, <4>2, <4>3
    <3> QED
      BY <1>2, <1>3, <1>4, <3>1
  <2> QED
    BY <1>2, <2>1, <2>2
<1>11. Describes(c, u)
  <2>1. /\ c.end = u[m + n].number /\ c.validium = u[m + n].number
        /\ c.start_at = u[1].at /\ c.end_at = u[m + n].at
        /\ c.old = u[1].old /\ c.new = u[m + n].new
        /\ c.old_prefix = u[1].prefix /\ c.new_prefix = NewPrefix(u[m + n])
    BY <1>1, <1>3, <1>5 DEF Describes
  <2>2. c.priority_count = NewPrefix(u[m + n]) - u[1].prefix
    <3>1. /\ a.priority_count = NewPrefix(s[m]) - s[1].prefix
          /\ b.priority_count = NewPrefix(t[n]) - t[1].prefix
      BY <1>1 DEF Describes
    <3>2. NewPrefix(s[m]) = t[1].prefix
      BY <1>8 DEF Continues
    <3>3. /\ NewPrefix(s[m]) \in Nat /\ NewPrefix(t[n]) \in Nat
          /\ s[1].prefix \in Nat /\ t[1].prefix \in Nat
      BY <1>6, BlockFields
    <3> QED
      BY <1>3, <1>5, <3>1, <3>2, <3>3
  <2>3. m + n >= 1 /\ c.size = m + n
    BY <1>2, <1>3, <1>4
  <2> QED
    BY <1>2, <1>9, <1>10, <2>1, <2>2, <2>3 DEF Describes
<1>12. Tells(c, u)
  <2>1. PICK x \in Seq(BlockNumbers) : a.on_chain = a.info \o x /\ Enumerates(x, Publishing(s))
    BY <1>1 DEF Tells
  <2>2. PICK y \in Seq(BlockNumbers) : b.on_chain = b.info \o y /\ Enumerates(y, Publishing(t))
    BY <1>1 DEF Tells
  <2>3. x \in Seq(Nat) /\ y \in Seq(Nat) /\ x \o y \in Seq(BlockNumbers)
    <3>1. BlockNumbers \subseteq Nat
      BY BatchAssumption
    <3> QED
      BY <3>1, ConcatProperties, SeqMonotone
  <2>4. \A p \in Publishing(s), q \in Publishing(t) : p < q
    <3>1. \A p \in Publishing(s) : p \in Nat /\ p <= a.end
      <4> SUFFICES ASSUME NEW i \in 1 .. m PROVE s[i].number \in Nat /\ s[i].number <= a.end
        BY DEF Publishing
      <4>1. s[i] \in Blocks /\ s[i].number = (a.end - a.size) + i
        BY <1>1 DEF Describes
      <4> QED
        <5>1. s[i].number \in Nat /\ i \in Nat /\ i <= m
          BY <1>2, <4>1, BlockFields
        <5> QED
          BY <1>2, <1>4, <4>1, <5>1
    <3>2. \A q \in Publishing(t) : q \in Nat /\ q > a.end
      <4> SUFFICES ASSUME NEW i \in 1 .. n PROVE t[i].number \in Nat /\ t[i].number > a.end
        BY DEF Publishing
      <4>1. t[i] \in Blocks /\ t[i].number = (b.end - b.size) + i
        BY <1>1 DEF Describes
      <4> QED
        <5>1. t[i].number \in Nat /\ i \in Nat /\ i >= 1
          BY <1>2, <4>1, BlockFields
        <5> QED
          BY <1>2, <1>4, <1>7, <4>1, <5>1
    <3> QED
      BY <1>4, <3>1, <3>2
  <2>5. Enumerates(x \o y, Publishing(s) \cup Publishing(t))
    BY <2>1, <2>2, <2>3, <2>4, EnumeratesConcat
  <2>6. Publishing(u) = Publishing(s) \cup Publishing(t)
    BY <1>1, PublishingConcat DEF u
  <2>7. c.on_chain = c.info \o (x \o y)
    <3>1. c.on_chain = (a.info \o x) \o y
      BY <1>3, <2>1, <2>2
    <3>2. a.info \in Seq(BlockNumbers)
      BY <1>1, RecordFields
    <3>3. (a.info \o x) \o y = a.info \o (x \o y)
      BY <3>2, Reassociate
    <3> QED
      BY <1>3, <3>1, <3>3
  <2> QED
    BY <2>3, <2>5, <2>6, <2>7 DEF Tells
<1> QED
  BY <1>2, <1>3, <1>11, <1>12 DEF Told, c, u

-----------------------------------------------------------------------------
(* Adding a block is merging a segment of one block.                       *)
LEMMA NextBlockMerges ==
  ASSUME NEW batch \in BatchRecords, NEW block \in Blocks
  PROVE  NextBlock(batch, block) = merge_consecutive(batch, FirstBlock(batch.on_chain, block))
BY ZenonT(60) DEF NextBlock, merge_consecutive, FirstBlock, BatchRecords

\* What perform_sanity_checks asks of the next block is what the merge asks of
\* the segment made of that block alone.
LEMMA SanityIsConsecutive ==
  ASSUME NEW batch \in BatchRecords, NEW block \in Blocks, NEW info,
         perform_sanity_checks(batch, block)
  PROVE  ConsecutiveAccepted(batch, FirstBlock(info, block))
<1> DEFINE b == FirstBlock(info, block)
<1>1. /\ b.size = 1 /\ b.end = block.number /\ b.start_at = block.at
      /\ b.old = block.old /\ b.old_prefix = block.prefix
  BY DEF FirstBlock
<1>2. batch.end = block.number - 1
  BY RecordFields, BlockFields DEF perform_sanity_checks
<1> HIDE DEF b
<1>3. ConsecutiveAccepted(batch, b)
  BY <1>1, <1>2 DEF ConsecutiveAccepted, perform_sanity_checks
<1> QED
  BY <1>3 DEF b

\* Nothing has been told at first.
LEMMA InitIInv == BatchInit => IInv
BY DEF BatchInit, IInv, TypeOK, MergedInv, SegmentInv, NoSegment, NoBatch

\* A description of blocks is not the missing segment.
LEMMA ToldIsNotNone ==
  ASSUME NEW batch, NEW blocks, Told(batch, blocks)
  PROVE  batch # NoSegment
BY DEF Told, Describes, NoSegment

\* StartSegment keeps the invariant.
LEMMA StartStep ==
  ASSUME IInv, NEW info \in Infos, NEW block \in Blocks, StartSegment(info, block)
  PROVE  IInv'
<1>1. Told(segment', <<block>>)
  BY BatchAssumption, FirstTold DEF StartSegment
<1>2. described'.segment = <<block>> /\ described'.merged = described.merged /\ merged' = merged
  BY DEF StartSegment, IInv, TypeOK
<1>3. TypeOK'
  <2>1. segment' \in BatchRecords
    BY <1>1 DEF Told
  <2>2. described' \in [merged : Seq(Blocks), segment : Seq(Blocks)]
    <3>1. <<block>> \in Seq(Blocks)
      OBVIOUS
    <3> QED
      BY <3>1 DEF StartSegment, IInv, TypeOK
  <2> QED
    BY <1>2, <2>1, <2>2 DEF IInv, TypeOK
<1>4. SegmentInv' /\ MergedInv'
  BY <1>1, <1>2 DEF SegmentInv, MergedInv, IInv
<1> QED
  BY <1>3, <1>4 DEF IInv

\* AggregateBlock keeps the invariant.
LEMMA AggregateStep ==
  ASSUME IInv, NEW block \in Blocks, AggregateBlock(block)
  PROVE  IInv'
<1>1. Told(segment, described.segment)
  BY DEF IInv, SegmentInv, AggregateBlock
<1>2. segment \in BatchRecords /\ segment.on_chain \in Seq(BlockNumbers) /\ described.segment \in Seq(Blocks)
  BY <1>1, RecordFields DEF Told
<1>3. Told(FirstBlock(segment.on_chain, block), <<block>>)
  BY <1>2, FirstTold
<1>4. ConsecutiveAccepted(segment, FirstBlock(segment.on_chain, block))
  BY <1>2, SanityIsConsecutive DEF AggregateBlock
<1>5. FirstBlock(segment.on_chain, block).info = segment.on_chain
  BY DEF FirstBlock
<1>6. Told(merge_consecutive(segment, FirstBlock(segment.on_chain, block)), described.segment \o <<block>>)
  BY <1>1, <1>3, <1>4, <1>5, MergeTold
<1>7. segment' = merge_consecutive(segment, FirstBlock(segment.on_chain, block))
  BY <1>2, NextBlockMerges DEF AggregateBlock
<1>8. /\ described'.segment = described.segment \o <<block>>
      /\ described'.merged = described.merged /\ merged' = merged
  BY <1>2, AppendIsConcat DEF AggregateBlock, IInv, TypeOK
<1>9. Told(segment', described'.segment)
  BY <1>6, <1>7, <1>8
<1>10. TypeOK'
  <2>1. segment' \in BatchRecords /\ described'.segment \in Seq(Blocks)
    BY <1>9 DEF Told
  <2>2. described' \in [merged : Seq(Blocks), segment : Seq(Blocks)]
    BY <1>2, AppendProperties DEF AggregateBlock, IInv, TypeOK
  <2> QED
    BY <1>8, <2>1, <2>2 DEF IInv, TypeOK
<1>11. SegmentInv' /\ MergedInv'
  BY <1>8, <1>9 DEF SegmentInv, MergedInv, IInv
<1> QED
  BY <1>10, <1>11 DEF IInv

\* MergeSegment keeps the invariant.
LEMMA MergeStep ==
  ASSUME IInv, MergeSegment
  PROVE  IInv'
<1>1. Told(segment, described.segment) /\ segment \in BatchRecords /\ described.segment \in Seq(Blocks)
  BY DEF IInv, SegmentInv, MergeSegment, Told
<1>2. /\ merged.count \in Nat /\ described.merged \in Seq(Blocks)
      /\ merged'.count = merged.count + 1
      /\ described'.merged = described.merged \o described.segment /\ described'.segment = <<>>
      /\ segment' = NoSegment
  BY DEF IInv, TypeOK, MergeSegment
<1>3. /\ Told(merged'.batch, described'.merged)
      /\ merged'.batch.info = <<>> /\ merged'.batch.old.delta = EmptyDeltaRoot
  <2>1. CASE merged.count = 0
    <3>1. merged'.batch = segment /\ FirstSegmentAccepted
      BY <2>1 DEF MergeSegment
    <3>2. described'.merged = described.segment
      BY <1>1, <1>2, <2>1, ConcatEmptySeq DEF IInv, MergedInv
    <3> QED
      BY <1>1, <3>1, <3>2 DEF FirstSegmentAccepted
  <2>2. CASE merged.count # 0
    <3>1. /\ merged'.batch = merge_consecutive(merged.batch, segment)
          /\ segment.info = merged.batch.on_chain /\ ConsecutiveAccepted(merged.batch, segment)
      BY <2>2 DEF MergeSegment, NextSegmentAccepted
    <3>2. /\ Told(merged.batch, described.merged) /\ merged.batch \in BatchRecords
          /\ merged.batch.info = <<>> /\ merged.batch.old.delta = EmptyDeltaRoot
      BY <1>2, <2>2 DEF IInv, MergedInv, Told
    <3>3. Told(merged'.batch, described'.merged)
      BY <1>1, <1>2, <3>1, <3>2, MergeTold
    <3>4. merged'.batch.info = merged.batch.info /\ merged'.batch.old = merged.batch.old
      BY <1>1, <3>1, <3>2, MergedFields
    <3> QED
      BY <3>2, <3>3, <3>4
  <2> QED
    BY <2>1, <2>2
<1>4. TypeOK'
  <2>1. merged'.batch \in BatchRecords /\ described'.merged \in Seq(Blocks)
    BY <1>3 DEF Told
  <2>2. merged' \in [count : Nat, batch : BatchRecords \cup {NoBatch}]
    BY <1>2, <2>1 DEF MergeSegment
  <2>3. described' \in [merged : Seq(Blocks), segment : Seq(Blocks)]
    BY <1>2, <2>1 DEF MergeSegment
  <2> QED
    BY <1>2, <2>2, <2>3 DEF TypeOK
<1>5. MergedInv'
  BY <1>2, <1>3 DEF MergedInv
<1>6. SegmentInv'
  BY <1>2 DEF SegmentInv
<1> QED
  BY <1>4, <1>5, <1>6 DEF IInv

(* Every segment says what its blocks did after what it assumed, and the   *)
(* batch says what its blocks did from the start (cyclic_circuit.rs,       *)
(* wrapper_circuit.rs).                                                    *)
THEOREM SegmentsAreTold == BatchSpec => []IInv
<1>1. IInv /\ [BatchNext]_batchVars => IInv'
  <2> SUFFICES ASSUME IInv, [BatchNext]_batchVars PROVE IInv'
    OBVIOUS
  <2>1. CASE BatchNext
    BY <2>1, StartStep, AggregateStep, MergeStep DEF BatchNext
  <2>2. CASE UNCHANGED batchVars
    BY <2>2 DEF batchVars, IInv, TypeOK, MergedInv, SegmentInv
  <2> QED
    BY <2>1, <2>2
<1> QED
  BY InitIInv, <1>1, PTL DEF BatchSpec

(* The commitment of a wrapper proof describes exactly its blocks, each of *)
(* which continues the one before it, whatever segments the prover brings  *)
(* and whatever they assumed of each other (handle_segment_proofs).        *)
THEOREM BatchesAreTheirBlocks == BatchSpec => []BatchIsItsBlocks
<1>1. IInv => BatchIsItsBlocks
  <2> SUFFICES ASSUME IInv, merged.count > 0
               PROVE  LET blocks == described.merged
                          batch == merged.batch
                          n == Len(blocks)
                      IN  /\ \A i \in 1 .. n - 1 : Continues(blocks[i], blocks[i + 1])
                          /\ blocks[1].old.delta = EmptyDeltaRoot
                          /\ batch.size = n /\ batch.end = blocks[n].number
                          /\ batch.start_at = blocks[1].at /\ batch.end_at = blocks[n].at
                          /\ batch.old = blocks[1].old /\ batch.new = blocks[n].new
                          /\ batch.validium = blocks[n].number
                          /\ Enumerates(batch.on_chain, Publishing(blocks))
                          /\ batch.new_prefix = NewPrefix(blocks[n])
                          /\ batch.priority_count = NewPrefix(blocks[n]) - blocks[1].prefix
    BY DEF BatchIsItsBlocks
  <2>1. /\ Told(merged.batch, described.merged) /\ merged.batch.info = <<>>
        /\ merged.batch.old.delta = EmptyDeltaRoot
    BY DEF IInv, MergedInv
  <2>2. Describes(merged.batch, described.merged) /\ Tells(merged.batch, described.merged)
    BY <2>1 DEF Told
  <2>3. Enumerates(merged.batch.on_chain, Publishing(described.merged))
    <3>1. PICK own \in Seq(BlockNumbers) : /\ merged.batch.on_chain = <<>> \o own
                                           /\ Enumerates(own, Publishing(described.merged))
      BY <2>1, <2>2 DEF Tells
    <3>2. <<>> \o own = own
      BY ConcatEmptySeq
    <3> QED
      BY <3>1, <3>2
  <2> QED
    BY <2>1, <2>2, <2>3 DEF Describes, Chained
<1> QED
  BY SegmentsAreTold, <1>1, PTL

=============================================================================
