--------------------------- MODULE JobQueueProofs ---------------------------
(***************************************************************************)
(* The lists of jobQueue.ts implement the abstract waiting line.           *)
(***************************************************************************)
EXTENDS JobQueue, SequenceTheorems, NaturalsInduction, WellFoundedInduction, TLAPS

(***************************************************************************)
(* LREM with count 1 either changes nothing, when the id is not in the     *)
(* list, or cuts out one occurrence of it.                                 *)
(***************************************************************************)
LEMMA FirstIndex ==
    ASSUME NEW list \in Seq(Jobs), NEW j \in Range(list)
    PROVE  \E i \in 1 .. Len(list) :
              /\ list[i] = j
              /\ i = SelectInSeq(list, LAMBDA v : v = j)
<1> DEFINE I == { i \in 1 .. Len(list) : list[i] = j }
<1>1. I # {} /\ I \subseteq Nat
  BY RangeEquality
<1>2. \E x \in I : \A y \in I : ~ (<<y, x>> \in OpToRel(<, Nat))
  BY <1>1, WFMin, NatLessThanWellFounded, Zenon
<1>3. \E x \in I : \A y \in I : x <= y
  <2>1. PICK x \in I : \A y \in I : ~ (<<y, x>> \in OpToRel(<, Nat))
    BY <1>2, Zenon
  <2>2. ASSUME NEW y \in I PROVE x <= y
    <3>1. x \in Nat /\ y \in Nat
      BY <1>1
    <3>2. y < x => <<y, x>> \in { ss \in Nat \X Nat : ss[1] < ss[2] }
      BY <3>1
    <3>3. ~ (y < x)
      BY <3>2, <2>1, Zenon DEF OpToRel
    <3> QED
      BY <3>1, <3>3
  <2> QED
    BY <2>2
<1>4. Min(I) \in I
  BY <1>3 DEF Min
<1>5. SelectInSeq(list, LAMBDA v : v = j) = Min(I)
  BY <1>1 DEF SelectInSeq
<1> QED
  BY <1>4, <1>5

LEMMA WithoutOneCuts ==
    ASSUME NEW list \in Seq(Jobs), NEW j \in Range(list)
    PROVE  \E i \in 1 .. Len(list) :
              list[i] = j /\ WithoutOne(list, j) = RemoveAt(list, i)
<1>1. \E i \in 1 .. Len(list) : list[i] = j
  BY RangeEquality
<1>2. WithoutOne(list, j) = RemoveAt(list, SelectInSeq(list, LAMBDA v : v = j))
  BY <1>1 DEF WithoutOne, RemoveFirst
<1> QED
  BY <1>2, FirstIndex, Zenon

LEMMA WithoutOneMisses ==
    ASSUME NEW list \in Seq(Jobs), NEW j, j \notin Range(list)
    PROVE  WithoutOne(list, j) = list
<1>1. ~ \E i \in 1 .. Len(list) : list[i] = j
  BY RangeEquality
<1> QED
  BY <1>1 DEF WithoutOne, RemoveFirst

(***************************************************************************)
(* What is left of a list when one position is cut out.                    *)
(***************************************************************************)
LEMMA RemoveAtProperties ==
    ASSUME NEW S, NEW list \in Seq(S), NEW i \in 1 .. Len(list)
    PROVE  /\ RemoveAt(list, i) \in Seq(S)
           /\ Len(RemoveAt(list, i)) = Len(list) - 1
           /\ \A k \in 1 .. Len(list) - 1 :
                 RemoveAt(list, i)[k] = IF k < i THEN list[k] ELSE list[k + 1]
<1> DEFINE before == SubSeq(list, 1, i - 1)
           after  == SubSeq(list, i + 1, Len(list))
<1>1. Len(list) \in Nat /\ \A k \in 1 .. Len(list) : list[k] \in S
  BY ElementOfSeq, LenProperties
<1>2. /\ before \in Seq(S) /\ Len(before) = i - 1
      /\ \A k \in 1 .. i - 1 : before[k] = list[k]
  <2>1. \A k \in 1 .. i - 1 : list[k] \in S
    BY <1>1
  <2> QED
    BY <1>1, <2>1, SubSeqProperties
<1>3. /\ after \in Seq(S) /\ Len(after) = Len(list) - i
      /\ \A k \in 1 .. Len(list) - i : after[k] = list[k + i]
  <2>1. \A k \in i + 1 .. Len(list) : list[k] \in S
    BY <1>1
  <2>2. i + 1 \in Int /\ Len(list) \in Int
    BY <1>1
  <2>3. /\ after \in Seq(S)
        /\ Len(after) = IF i + 1 <= Len(list) THEN Len(list) - (i + 1) + 1 ELSE 0
        /\ \A k \in 1 .. Len(list) - (i + 1) + 1 : after[k] = list[(i + 1) + k - 1]
    BY <2>1, <2>2, SubSeqProperties
  <2> QED
    BY <1>1, <2>3
<1>4. RemoveAt(list, i) = before \o after
  BY DEF RemoveAt
<1> HIDE DEF before, after
<1>5. /\ before \o after \in Seq(S)
      /\ Len(before \o after) = Len(before) + Len(after)
      /\ \A k \in 1 .. Len(before) + Len(after) :
            (before \o after)[k] =
               IF k <= Len(before) THEN before[k] ELSE after[k - Len(before)]
  BY <1>2, <1>3, ConcatProperties, Zenon
<1>6. ASSUME NEW k \in 1 .. Len(list) - 1
      PROVE  (before \o after)[k] = IF k < i THEN list[k] ELSE list[k + 1]
  <2>1. (before \o after)[k] = IF k <= i - 1 THEN before[k] ELSE after[k - (i - 1)]
    BY <1>1, <1>2, <1>3, <1>5
  <2>2. CASE k < i
    BY <1>1, <1>2, <2>1, <2>2
  <2>3. CASE ~ (k < i)
    <3>1. k - (i - 1) \in 1 .. Len(list) - i /\ (k - (i - 1)) + i = k + 1
      BY <1>1, <2>3
    <3>2. after[k - (i - 1)] = list[(k - (i - 1)) + i]
      BY <1>3, <3>1
    <3> QED
      BY <1>1, <2>1, <2>3, <3>1, <3>2
  <2> QED
    BY <2>2, <2>3
<1>7. Len(before \o after) = Len(list) - 1
  BY <1>1, <1>2, <1>3, <1>5
<1> QED
  BY <1>4, <1>5, <1>6, <1>7

LEMMA WithoutOneType ==
    ASSUME NEW list \in Seq(Jobs), NEW j
    PROVE  WithoutOne(list, j) \in Seq(Jobs)
<1>1. CASE j \in Range(list)
  BY <1>1, WithoutOneCuts, RemoveAtProperties
<1>2. CASE j \notin Range(list)
  BY <1>2, WithoutOneMisses
<1> QED
  BY <1>1, <1>2

(***************************************************************************)
(* Claiming the last id of the queue, and requeueing the first one of the  *)
(* processing list, leave the two lists side by side as they are.          *)
(***************************************************************************)
LEMMA LastMovesOver ==
    ASSUME NEW q \in Seq(Jobs), NEW p \in Seq(Jobs), q # <<>>
    PROVE  /\ q[Len(q)] \in Jobs
           /\ SubSeq(q, 1, Len(q) - 1) \in Seq(Jobs)
           /\ SubSeq(q, 1, Len(q) - 1) \o (<<q[Len(q)]>> \o p) = q \o p
           /\ Len(<<q[Len(q)]>> \o p) = Len(p) + 1
<1> DEFINE front == SubSeq(q, 1, Len(q) - 1)
           last  == <<q[Len(q)]>>
<1>1. Len(q) \in Nat \ {0} /\ q[Len(q)] \in Jobs
  BY EmptySeq, ElementOfSeq
<1>2. last \in Seq(Jobs) /\ Len(last) = 1
  BY <1>1
<1>3. front \in Seq(Jobs)
  <2>1. \A k \in 1 .. Len(q) - 1 : q[k] \in Jobs
    BY ElementOfSeq
  <2> QED
    BY <1>1, <2>1, SubSeqProperties
<1>4. front \o last = q
  BY <1>1, SubSeqRecursiveSecond, SubSeqFull
<1> HIDE DEF front, last
<1>5. (front \o last) \o p = front \o (last \o p)
  <2>1. \A f, l \in Seq(Jobs) : (f \o l) \o p = f \o (l \o p)
    BY ConcatAssociative
  <2> QED
    BY <1>2, <1>3, <2>1
<1>6. Len(last \o p) = Len(p) + 1
  <2>1. Len(last \o p) = Len(last) + Len(p)
    BY <1>2, ConcatProperties, Zenon
  <2>2. Len(p) \in Nat
    BY LenProperties
  <2> QED
    BY <1>2, <2>1, <2>2
<1> QED
  BY <1>1, <1>3, <1>4, <1>5, <1>6 DEF front, last

LEMMA HeadMovesBack ==
    ASSUME NEW q \in Seq(Jobs), NEW p \in Seq(Jobs), p # <<>>
    PROVE  /\ Head(p) \in Jobs
           /\ Append(q, Head(p)) \in Seq(Jobs) /\ Tail(p) \in Seq(Jobs)
           /\ Append(q, Head(p)) \o Tail(p) = q \o p
           /\ Len(p) > 0 /\ Len(Tail(p)) = Len(p) - 1
<1>1. Head(p) \in Jobs /\ Tail(p) \in Seq(Jobs) /\ Len(Tail(p)) = Len(p) - 1
  BY HeadTailProperties
<1>2. Append(q, Head(p)) = q \o <<Head(p)>> /\ Append(q, Head(p)) \in Seq(Jobs)
  BY <1>1, AppendIsConcat, AppendProperties
<1>3. <<Head(p)>> \in Seq(Jobs)
  BY <1>1
<1>4. <<Head(p)>> \o Tail(p) = p
  BY <1>1, <1>3, SeqEqual, ConcatProperties, HeadTailProperties, LenProperties
<1>5. (q \o <<Head(p)>>) \o Tail(p) = q \o (<<Head(p)>> \o Tail(p))
  BY <1>1, <1>3, ConcatAssociative
<1>6. Len(p) > 0
  BY EmptySeq
<1> QED
  BY <1>1, <1>2, <1>4, <1>5, <1>6

(***************************************************************************)
(* Completing a job takes one position out of the processing part of the   *)
(* line, or nothing.                                                       *)
(***************************************************************************)
LEMMA CutInSuffix ==
    ASSUME NEW S, NEW q \in Seq(S), NEW p \in Seq(S), NEW i \in 1 .. Len(p)
    PROVE  /\ Len(q) + i \in (Len(q \o p) - Len(p) + 1) .. Len(q \o p)
           /\ (q \o p)[Len(q) + i] = p[i]
           /\ q \o RemoveAt(p, i) = RemoveAt(q \o p, Len(q) + i)
<1>1. Len(q) \in Nat /\ Len(p) \in Nat
  BY LenProperties
<1>2. /\ q \o p \in Seq(S) /\ Len(q \o p) = Len(q) + Len(p)
      /\ \A k \in 1 .. Len(q) + Len(p) :
            (q \o p)[k] = IF k <= Len(q) THEN q[k] ELSE p[k - Len(q)]
  BY ConcatProperties
<1>3. Len(q) + i \in 1 .. Len(q \o p) /\ (q \o p)[Len(q) + i] = p[i]
  BY <1>1, <1>2
<1> DEFINE r == RemoveAt(p, i)
           lhs == q \o r
           rhs == RemoveAt(q \o p, Len(q) + i)
<1>4. /\ r \in Seq(S) /\ Len(r) = Len(p) - 1
      /\ \A k \in 1 .. Len(p) - 1 : r[k] = IF k < i THEN p[k] ELSE p[k + 1]
  BY RemoveAtProperties
<1>5. /\ rhs \in Seq(S) /\ Len(rhs) = Len(q) + Len(p) - 1
      /\ \A k \in 1 .. Len(q) + Len(p) - 1 :
            rhs[k] = IF k < Len(q) + i THEN (q \o p)[k] ELSE (q \o p)[k + 1]
  <2>1. /\ rhs \in Seq(S) /\ Len(rhs) = Len(q \o p) - 1
        /\ \A k \in 1 .. Len(q \o p) - 1 :
              rhs[k] = IF k < Len(q) + i THEN (q \o p)[k] ELSE (q \o p)[k + 1]
    BY <1>2, <1>3, RemoveAtProperties, Zenon
  <2> HIDE DEF rhs
  <2> QED
    BY <1>1, <1>2, <2>1
<1> HIDE DEF r, rhs
<1>6. /\ lhs \in Seq(S) /\ Len(lhs) = Len(q) + Len(r)
      /\ \A k \in 1 .. Len(q) + Len(r) :
            lhs[k] = IF k <= Len(q) THEN q[k] ELSE r[k - Len(q)]
  BY <1>4, ConcatProperties
<1> HIDE DEF lhs
<1>7. Len(lhs) = Len(rhs)
  BY <1>1, <1>4, <1>5, <1>6
<1>8. ASSUME NEW k \in 1 .. Len(lhs)
      PROVE  lhs[k] = rhs[k]
  <2>1. k \in 1 .. Len(q) + Len(p) - 1
    BY <1>1, <1>4, <1>6
  <2>2. CASE k <= Len(q)
    <3>1. lhs[k] = q[k]
      BY <1>1, <1>4, <1>6, <2>1, <2>2
    <3>2. rhs[k] = (q \o p)[k]
      BY <1>1, <1>5, <2>1, <2>2
    <3>3. (q \o p)[k] = q[k]
      BY <1>1, <1>2, <2>1, <2>2
    <3> QED
      BY <3>1, <3>2, <3>3
  <2>3. CASE ~ (k <= Len(q))
    <3> DEFINE m == k - Len(q)
    <3>1. m \in 1 .. Len(p) - 1 /\ k = Len(q) + m
      BY <1>1, <2>1, <2>3
    <3>2. lhs[k] = r[m]
      BY <1>1, <1>4, <1>6, <2>1, <2>3
    <3>3. (q \o p)[k] = p[m]
      BY <1>1, <1>2, <2>1, <2>3
    <3>4. (q \o p)[k + 1] = p[m + 1]
      <4>1. k + 1 \in 1 .. Len(q) + Len(p) /\ ~ (k + 1 <= Len(q)) /\ (k + 1) - Len(q) = m + 1
        BY <1>1, <2>1, <2>3
      <4> QED
        BY <1>2, <4>1
    <3>5. k < Len(q) + i <=> m < i
      BY <1>1, <2>1
    <3> HIDE DEF m
    <3> QED
      BY <1>4, <1>5, <2>1, <3>1, <3>2, <3>3, <3>4, <3>5
  <2> QED
    BY <2>2, <2>3
<1>9. lhs = rhs
  BY <1>5, <1>6, <1>7, <1>8, SeqEqual, Zenon
<1> QED
  BY <1>1, <1>2, <1>3, <1>9 DEF lhs, rhs, r

(***************************************************************************)
(* Each operation of the queue keeps the two lists well typed and is one   *)
(* step of the abstract line, or none.                                     *)
(***************************************************************************)
LEMMA EnqueueRefines ==
    ASSUME QueueTypeOK, NEW j \in Jobs, Enqueue(j)
    PROVE  QueueTypeOK' /\ Abstract!Put(j)
<1>1. <<j>> \in Seq(Jobs) /\ queue \in Seq(Jobs) /\ processing \in Seq(Jobs)
  BY DEF QueueTypeOK
<1>2. <<j>> \o queue \in Seq(Jobs)
  BY <1>1, ConcatProperties
<1>3. (<<j>> \o queue) \o processing = <<j>> \o (queue \o processing)
  BY <1>1, ConcatAssociative
<1> QED
  BY <1>1, <1>2, <1>3 DEF Enqueue, QueueTypeOK, Abstract!Put

LEMMA DequeueRefines ==
    ASSUME QueueTypeOK, NEW j, Dequeue(j)
    PROVE  QueueTypeOK' /\ j \in Jobs /\ Abstract!Take
<1>1. queue \in Seq(Jobs) /\ processing \in Seq(Jobs) /\ queue # <<>>
  BY DEF QueueTypeOK, Dequeue
<1>2. /\ j \in Jobs /\ queue' \in Seq(Jobs)
      /\ queue' \o processing' = queue \o processing
      /\ Len(processing') = Len(processing) + 1
  BY <1>1, LastMovesOver DEF Dequeue
<1>3. processing' \in Seq(Jobs)
  BY <1>1, <1>2, ConcatProperties DEF Dequeue
<1>4. Len(processing) < Len(queue \o processing)
  <2>1. Len(queue \o processing) = Len(queue) + Len(processing)
    BY <1>1, ConcatProperties
  <2>2. Len(queue) \in Nat \ {0} /\ Len(processing) \in Nat
    BY <1>1, EmptySeq, LenProperties
  <2> QED
    BY <2>1, <2>2
<1> QED
  BY <1>2, <1>3, <1>4 DEF QueueTypeOK, Abstract!Take

LEMMA RequeueRefines ==
    ASSUME QueueTypeOK, NEW j, RequeueOne(j)
    PROVE  QueueTypeOK' /\ j \in Jobs /\ Abstract!GiveBack
<1>1. queue \in Seq(Jobs) /\ processing \in Seq(Jobs) /\ processing # <<>>
  BY DEF QueueTypeOK, RequeueOne
<1>2. /\ j \in Jobs /\ queue' \in Seq(Jobs) /\ processing' \in Seq(Jobs)
      /\ queue' \o processing' = queue \o processing
      /\ Len(processing) > 0 /\ Len(processing') = Len(processing) - 1
  BY <1>1, HeadMovesBack DEF RequeueOne
<1> QED
  BY <1>2 DEF QueueTypeOK, Abstract!GiveBack

LEMMA CompleteRefines ==
    ASSUME QueueTypeOK, NEW j, CompleteProcessing(j)
    PROVE  /\ QueueTypeOK'
           /\ Abstract!Discard(j) \/ UNCHANGED queueVars
<1>1. queue \in Seq(Jobs) /\ processing \in Seq(Jobs)
  BY DEF QueueTypeOK
<1>2. QueueTypeOK'
  BY <1>1, WithoutOneType DEF CompleteProcessing, QueueTypeOK
<1>3. CASE j \notin Range(processing)
  BY <1>1, <1>2, <1>3, WithoutOneMisses DEF CompleteProcessing, queueVars
<1>4. CASE j \in Range(processing)
  <2>1. PICK i \in 1 .. Len(processing) :
           processing[i] = j /\ WithoutOne(processing, j) = RemoveAt(processing, i)
    BY <1>1, <1>4, WithoutOneCuts
  <2>2. /\ Len(queue) + i \in
              (Len(queue \o processing) - Len(processing) + 1) .. Len(queue \o processing)
        /\ (queue \o processing)[Len(queue) + i] = j
        /\ queue \o RemoveAt(processing, i) = RemoveAt(queue \o processing, Len(queue) + i)
    BY <1>1, <2>1, CutInSuffix
  <2>3. Len(RemoveAt(processing, i)) = Len(processing) - 1
    BY <1>1, RemoveAtProperties
  <2>4. RemoveAt(queue \o processing, Len(queue) + i)
          = Abstract!RemoveAt(queue \o processing, Len(queue) + i)
    BY DEF RemoveAt, Abstract!RemoveAt
  <2> QED
    BY <1>2, <2>1, <2>2, <2>3, <2>4 DEF CompleteProcessing, Abstract!Discard
<1> QED
  BY <1>3, <1>4

(***************************************************************************)
(* One step of any of them, as a step of the abstract line.                *)
(***************************************************************************)
LEMMA QueueStepRefines ==
    ASSUME QueueTypeOK, [QueueNext]_queueVars
    PROVE  /\ QueueTypeOK'
           /\ [Abstract!Next]_<<queue \o processing, Len(processing)>>
<1>1. CASE UNCHANGED queueVars
  BY <1>1 DEF queueVars, QueueTypeOK
<1>2. ASSUME NEW j \in Jobs, Enqueue(j)
      PROVE  QueueTypeOK' /\ Abstract!Next
  BY <1>2, EnqueueRefines DEF Abstract!Next
<1>3. ASSUME NEW j \in Jobs, Dequeue(j)
      PROVE  QueueTypeOK' /\ Abstract!Next
  BY <1>3, DequeueRefines DEF Abstract!Next
<1>4. ASSUME NEW j \in Jobs, CompleteProcessing(j)
      PROVE  /\ QueueTypeOK'
             /\ Abstract!Next \/ UNCHANGED queueVars
  BY <1>4, CompleteRefines DEF Abstract!Next
<1>5. ASSUME NEW j \in Jobs, RequeueOne(j)
      PROVE  QueueTypeOK' /\ Abstract!Next
  BY <1>5, RequeueRefines DEF Abstract!Next
<1> QED
  BY <1>1, <1>2, <1>3, <1>4, <1>5 DEF QueueNext, queueVars

(***************************************************************************)
(* jobQueue.ts:6-17: used by any number of producers, consumers and        *)
(* recoveries in any order, the two lists are one reliable waiting line.   *)
(***************************************************************************)
THEOREM QueueImplementsLine == QueueSpec => KeepsTheLine
<1>1. QueueInit => QueueTypeOK /\ Abstract!Init
  <2>1. <<>> \in Seq(Jobs) /\ Len(<<>>) = 0 /\ <<>> \o <<>> = <<>>
    BY EmptySeq, ConcatEmptySeq
  <2> QED
    BY <2>1 DEF QueueInit, QueueTypeOK, Abstract!Init
<1>2. QueueTypeOK /\ [QueueNext]_queueVars => QueueTypeOK'
  BY QueueStepRefines
<1>3. QueueTypeOK /\ [QueueNext]_queueVars
        => [Abstract!Next]_<<queue \o processing, Len(processing)>>
  BY QueueStepRefines
<1> QED
  BY <1>1, <1>2, <1>3, PTL DEF QueueSpec, KeepsTheLine, Abstract!Spec
=============================================================================
