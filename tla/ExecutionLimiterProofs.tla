----------------------- MODULE ExecutionLimiterProofs -----------------------
(***************************************************************************)
(* What the execution limiter guarantees for any number of workers and any *)
(* limits.                                                                 *)
(***************************************************************************)
EXTENDS ExecutionLimiter, FiniteSetTheorems, SequenceTheorems, TLAPS

\* The workers that p places at one of the awaits P.
At(p, P) == { w \in Workers : p[w] \in P }

\* Inside task(); found no record, so a turn late; in the microtask queue.
Started == {"task", "hung", "settled"}
Late == {"missing", "skipped", "lateCall"}
Queued == {"stored", "missing", "call", "skipped", "lateCall", "woken", "settled"}

\* The turn of the microtask queue a continuation belongs to, counted from
\* the chunk of replies.
Turn(c) == IF c \in {"stored", "missing"} THEN 1
           ELSE IF c \in {"call", "skipped"} THEN 2 ELSE 3

\* The microtask queue m of workers that await what p says.
MicrotasksOK(m, p) ==
    /\ \A i \in 1 .. Len(m) : p[m[i]] \in Queued
    /\ \A i, k \in 1 .. Len(m) :
          i < k => /\ m[i] # m[k]
                   /\ Turn(p[m[i]]) <= Turn(p[m[k]])
                   /\ Turn(p[m[k]]) <= Turn(p[m[i]]) + 1
    /\ \A w \in Workers : p[w] = "woken" =>
          /\ \E i \in 1 .. Len(m) : m[i] = w
          /\ \A i \in 1 .. Len(m) : Turn(p[m[i]]) = 3

\* The limiter's queue q.
WaitersOK(q, p) ==
    /\ \A i \in 1 .. Len(q) : p[q[i]] = "waiting"
    /\ \A i, k \in 1 .. Len(q) : i < k => q[i] # q[k]
    /\ \A w \in Workers : p[w] = "waiting" => \E i \in 1 .. Len(q) : q[i] = w

\* A woken worker has the slot it was woken for as good as taken, and a late
\* one may take a slot on top; while any wait, the others fill max.
Counts(r, q, p, g) ==
    /\ r = Cardinality(At(p, Started))
    /\ Cardinality(At(p, Late)) <= g
    /\ r + Cardinality(At(p, {"woken"})) + Cardinality(At(p, Late)) <= MaxConcurrent + g
    /\ q # <<>> => r + Cardinality(At(p, {"woken"})) >= MaxConcurrent

\* The inductive invariant.
LimiterInv ==
    /\ TypeOK
    /\ MicrotasksOK(micro, pc)
    /\ WaitersOK(waiting, pc)
    /\ Counts(running, waiting, pc, gone)

(***************************************************************************)
(* How many workers are at one of the awaits P, when one of them moves.    *)
(***************************************************************************)
LEMMA CountIsNat ==
    ASSUME NEW p, NEW P
    PROVE  IsFiniteSet(At(p, P)) /\ Cardinality(At(p, P)) \in Nat
<1>1. At(p, P) \subseteq Workers
  BY DEF At
<1> QED
  BY <1>1, WorkersAssumption, FS_Subset, FS_CardinalityType

\* Worker w moves to c.
Moves(p, w, c, q) ==
    /\ w \in Workers /\ p \in [Workers -> WorkerPc]
    /\ q = [p EXCEPT ![w] = c]

LEMMA CountEnters ==
    ASSUME NEW p, NEW w, NEW c, NEW q, Moves(p, w, c, q), NEW P, p[w] \notin P, c \in P
    PROVE  Cardinality(At(q, P)) = Cardinality(At(p, P)) + 1
<1>1. At(q, P) = At(p, P) \cup {w} /\ w \notin At(p, P)
  BY DEF At, Moves
<1> QED
  BY <1>1, CountIsNat, FS_AddElement

LEMMA CountLeaves ==
    ASSUME NEW p, NEW w, NEW c, NEW q, Moves(p, w, c, q), NEW P, p[w] \in P, c \notin P
    PROVE  Cardinality(At(p, P)) = Cardinality(At(q, P)) + 1
<1>1. At(p, P) = At(q, P) \cup {w} /\ w \notin At(q, P)
  BY DEF At, Moves
<1> QED
  BY <1>1, CountIsNat, FS_AddElement

LEMMA CountStays ==
    ASSUME NEW p, NEW w, NEW c, NEW q, Moves(p, w, c, q), NEW P, p[w] \in P <=> c \in P
    PROVE  At(q, P) = At(p, P)
BY DEF At, Moves

(***************************************************************************)
(* What Tail and Append do to positions.                                   *)
(***************************************************************************)
LEMMA TailAt ==
    ASSUME NEW m \in Seq(Workers), m # <<>>
    PROVE  /\ Head(m) \in Workers /\ Head(m) = m[1] /\ Len(m) \in Nat \ {0}
           /\ Tail(m) \in Seq(Workers) /\ Len(Tail(m)) = Len(m) - 1
           /\ \A i \in 1 .. Len(m) - 1 : Tail(m)[i] = m[i + 1]
BY HeadTailProperties, LenProperties, EmptySeq

LEMMA AppendAt ==
    ASSUME NEW m \in Seq(Workers), NEW w \in Workers
    PROVE  /\ Append(m, w) \in Seq(Workers) /\ Len(Append(m, w)) = Len(m) + 1
           /\ \A i \in 1 .. Len(m) : Append(m, w)[i] = m[i]
           /\ Append(m, w)[Len(m) + 1] = w
BY AppendProperties, LenProperties

LEMMA MoveAt ==
    ASSUME NEW m \in Seq(Workers), m # <<>>, NEW w \in Workers
    PROVE  /\ Append(Tail(m), w) \in Seq(Workers)
           /\ Len(Append(Tail(m), w)) = Len(m)
           /\ \A i \in 1 .. Len(m) - 1 : Append(Tail(m), w)[i] = m[i + 1]
           /\ Append(Tail(m), w)[Len(m)] = w
<1> DEFINE t == Tail(m)
<1>1. t \in Seq(Workers) /\ Len(t) = Len(m) - 1 /\ Len(m) \in Nat
      /\ \A i \in 1 .. Len(m) - 1 : t[i] = m[i + 1]
  BY TailAt
<1> HIDE DEF t
<1>2. /\ Append(t, w) \in Seq(Workers) /\ Len(Append(t, w)) = Len(t) + 1
      /\ \A i \in 1 .. Len(t) : Append(t, w)[i] = t[i]
      /\ Append(t, w)[Len(t) + 1] = w
  BY <1>1, AppendAt
<1> QED
  BY <1>1, <1>2 DEF t

(***************************************************************************)
(* The microtask queue when the continuation at its head runs: it drops    *)
(* out, or goes to the back for the next turn, or another worker is woken. *)
(***************************************************************************)
LEMMA HeadDropsOut ==
    ASSUME NEW m \in Seq(Workers), NEW p \in [Workers -> WorkerPc],
           m # <<>>, MicrotasksOK(m, p), NEW c, c # "woken"
    PROVE  MicrotasksOK(Tail(m), [p EXCEPT ![Head(m)] = c])
<1> DEFINE t == Tail(m)
           q == [p EXCEPT ![Head(m)] = c]
<1>1. /\ Head(m) \in Workers /\ Head(m) = m[1] /\ Len(m) \in Nat \ {0}
      /\ Len(t) = Len(m) - 1
      /\ \A i \in 1 .. Len(m) - 1 : t[i] = m[i + 1]
      /\ \A i \in 1 .. Len(m) : m[i] \in Workers
  BY TailAt, ElementOfSeq
<1>2. \A w \in Workers : q[w] = IF w = m[1] THEN c ELSE p[w]
  BY <1>1
<1>3. \A i \in 1 .. Len(m) - 1 : q[t[i]] = p[m[i + 1]] /\ t[i] # m[1]
  BY <1>1, <1>2 DEF MicrotasksOK
<1> HIDE DEF t, q
<1>4. \A i \in 1 .. Len(t) : q[t[i]] \in Queued
  BY <1>1, <1>3 DEF MicrotasksOK
<1>5. \A i, k \in 1 .. Len(t) :
         i < k => /\ t[i] # t[k]
                  /\ Turn(q[t[i]]) <= Turn(q[t[k]])
                  /\ Turn(q[t[k]]) <= Turn(q[t[i]]) + 1
  <2> SUFFICES ASSUME NEW i \in 1 .. Len(t), NEW k \in 1 .. Len(t), i < k
               PROVE  /\ t[i] # t[k]
                      /\ Turn(q[t[i]]) <= Turn(q[t[k]])
                      /\ Turn(q[t[k]]) <= Turn(q[t[i]]) + 1
    OBVIOUS
  <2>1. i + 1 \in 1 .. Len(m) /\ k + 1 \in 1 .. Len(m) /\ i + 1 < k + 1
    BY <1>1
  <2>2. t[i] = m[i + 1] /\ t[k] = m[k + 1]
        /\ q[t[i]] = p[m[i + 1]] /\ q[t[k]] = p[m[k + 1]]
    BY <1>1, <1>3
  <2> QED
    BY <2>1, <2>2 DEF MicrotasksOK
<1>6. ASSUME NEW w \in Workers, q[w] = "woken"
      PROVE  /\ \E i \in 1 .. Len(t) : t[i] = w
             /\ \A i \in 1 .. Len(t) : Turn(q[t[i]]) = 3
  <2>1. w # m[1] /\ p[w] = "woken"
    BY <1>2, <1>6
  <2>2. PICK i \in 1 .. Len(m) : m[i] = w
    BY <2>1 DEF MicrotasksOK
  <2>3. i # 1 /\ i - 1 \in 1 .. Len(m) - 1
    BY <1>1, <2>1, <2>2
  <2>4. t[i - 1] = m[(i - 1) + 1] /\ (i - 1) + 1 = i
    BY <1>1, <2>3
  <2>5. \A k \in 1 .. Len(t) : k + 1 \in 1 .. Len(m) /\ Turn(p[m[k + 1]]) = 3
    BY <1>1, <2>1 DEF MicrotasksOK
  <2> QED
    BY <1>1, <1>3, <2>2, <2>3, <2>4, <2>5
<1> QED
  BY <1>4, <1>5, <1>6 DEF MicrotasksOK, t, q

LEMMA JoinsAtBack ==
    ASSUME NEW m \in Seq(Workers), NEW p \in [Workers -> WorkerPc],
           MicrotasksOK(m, p), NEW h \in Workers, p[h] \notin Queued,
           NEW c \in Queued,
           \A i \in 1 .. Len(m) : /\ Turn(p[m[i]]) <= Turn(c)
                                  /\ Turn(c) <= Turn(p[m[i]]) + 1,
           c = "woken" => \A i \in 1 .. Len(m) : Turn(p[m[i]]) = 3,
           (\E w \in Workers : p[w] = "woken") => Turn(c) = 3
    PROVE  MicrotasksOK(Append(m, h), [p EXCEPT ![h] = c])
<1> DEFINE t == Append(m, h)
           q == [p EXCEPT ![h] = c]
<1>1. /\ Len(m) \in Nat /\ Len(t) = Len(m) + 1 /\ t[Len(m) + 1] = h
      /\ \A i \in 1 .. Len(m) : t[i] = m[i]
      /\ \A i \in 1 .. Len(m) : m[i] \in Workers
  BY AppendAt, ElementOfSeq, LenProperties
<1>2. \A w \in Workers : q[w] = IF w = h THEN c ELSE p[w]
  OBVIOUS
<1>3. \A i \in 1 .. Len(m) : q[t[i]] = p[m[i]] /\ t[i] # h
  BY <1>1, <1>2 DEF MicrotasksOK
<1>4. q[t[Len(m) + 1]] = c
  BY <1>1, <1>2
<1> HIDE DEF t, q
<1>5. \A i \in 1 .. Len(t) : q[t[i]] \in Queued
  BY <1>1, <1>3, <1>4 DEF MicrotasksOK
<1>6. \A i, k \in 1 .. Len(t) :
         i < k => /\ t[i] # t[k]
                  /\ Turn(q[t[i]]) <= Turn(q[t[k]])
                  /\ Turn(q[t[k]]) <= Turn(q[t[i]]) + 1
  <2> SUFFICES ASSUME NEW i \in 1 .. Len(t), NEW k \in 1 .. Len(t), i < k
               PROVE  /\ t[i] # t[k]
                      /\ Turn(q[t[i]]) <= Turn(q[t[k]])
                      /\ Turn(q[t[k]]) <= Turn(q[t[i]]) + 1
    OBVIOUS
  <2>1. i \in 1 .. Len(m)
    BY <1>1
  <2>2. CASE k \in 1 .. Len(m)
    BY <1>1, <1>3, <2>1, <2>2 DEF MicrotasksOK
  <2>3. CASE k = Len(m) + 1
    BY <1>1, <1>3, <1>4, <2>1, <2>3
  <2> QED
    BY <1>1, <2>2, <2>3
<1>7. ASSUME NEW w \in Workers, q[w] = "woken"
      PROVE  /\ \E i \in 1 .. Len(t) : t[i] = w
             /\ \A i \in 1 .. Len(t) : Turn(q[t[i]]) = 3
  <2>1. CASE w = h
    <3>1. c = "woken" /\ Turn(c) = 3
      BY <1>2, <1>7, <2>1 DEF Turn
    <3>2. Len(m) + 1 \in 1 .. Len(t) /\ t[Len(m) + 1] = w
      BY <1>1, <2>1
    <3> QED
      BY <1>1, <1>3, <1>4, <3>1, <3>2
  <2>2. CASE w # h
    <3>1. p[w] = "woken" /\ Turn(c) = 3
      BY <1>2, <1>7, <2>2
    <3>2. PICK i \in 1 .. Len(m) : m[i] = w
      BY <3>1 DEF MicrotasksOK
    <3>3. \A k \in 1 .. Len(m) : Turn(p[m[k]]) = 3
      BY <3>1 DEF MicrotasksOK
    <3> QED
      BY <1>1, <1>3, <1>4, <3>1, <3>2, <3>3
  <2> QED
    BY <2>1, <2>2
<1> QED
  BY <1>5, <1>6, <1>7 DEF MicrotasksOK, t, q

LEMMA HeadGoesBack ==
    ASSUME NEW m \in Seq(Workers), NEW p \in [Workers -> WorkerPc],
           m # <<>>, MicrotasksOK(m, p),
           NEW c \in Queued, c # "woken",
           \/ Turn(c) = Turn(p[Head(m)]) + 1
           \/ Turn(c) = 3 /\ Turn(p[Head(m)]) = 3
    PROVE  MicrotasksOK(Append(Tail(m), Head(m)), [p EXCEPT ![Head(m)] = c])
<1> DEFINE w == Head(m)
           t == Tail(m)
           q == [p EXCEPT ![w] = "idle"]
<1>1. /\ w \in Workers /\ w = m[1] /\ Len(m) \in Nat \ {0}
      /\ t \in Seq(Workers) /\ Len(t) = Len(m) - 1
      /\ \A i \in 1 .. Len(m) - 1 : t[i] = m[i + 1]
      /\ \A i \in 1 .. Len(m) : m[i] \in Workers
  BY TailAt, ElementOfSeq
<1>2. q \in [Workers -> WorkerPc] /\ q[w] \notin Queued /\ [q EXCEPT ![w] = c] = [p EXCEPT ![w] = c]
  BY <1>1 DEF WorkerPc, Queued
<1>3. MicrotasksOK(t, q)
  BY HeadDropsOut
<1>4. ASSUME NEW i \in 1 .. Len(t)
      PROVE  q[t[i]] = p[m[i + 1]] /\ 1 < i + 1 /\ i + 1 \in 1 .. Len(m)
  <2>1. 1 < i + 1 /\ i + 1 \in 1 .. Len(m) /\ t[i] = m[i + 1] /\ 1 \in 1 .. Len(m)
    BY <1>1
  <2>2. m[i + 1] # m[1] /\ m[i + 1] \in Workers
    BY <1>1, <2>1 DEF MicrotasksOK
  <2> QED
    BY <1>1, <2>1, <2>2
<1> HIDE DEF w, t, q
<1>5. 1 \in 1 .. Len(m) /\ (Turn(c) = Turn(p[m[1]]) + 1 \/ (Turn(c) = 3 /\ Turn(p[m[1]]) = 3))
  BY <1>1 DEF w
<1>6. \A x : Turn(x) \in 1 .. 3
  BY DEF Turn
<1>7. \A i \in 1 .. Len(t) : Turn(q[t[i]]) <= Turn(c) /\ Turn(c) <= Turn(q[t[i]]) + 1
  <2> TAKE i \in 1 .. Len(t)
  <2>1. /\ Turn(p[m[1]]) <= Turn(p[m[i + 1]])
        /\ Turn(p[m[i + 1]]) <= Turn(p[m[1]]) + 1
    BY <1>4, <1>5 DEF MicrotasksOK
  <2> QED
    BY <1>4, <1>5, <1>6, <2>1
<1>8. (\E v \in Workers : q[v] = "woken") => Turn(c) = 3
  <2> SUFFICES ASSUME NEW v \in Workers, q[v] = "woken" PROVE Turn(c) = 3
    OBVIOUS
  <2>1. p[v] = "woken"
    BY <1>1 DEF q
  <2>2. Turn(p[m[1]]) = 3
    BY <1>5, <2>1 DEF MicrotasksOK
  <2> QED
    BY <1>5, <1>6, <2>2
<1>9. MicrotasksOK(Append(t, w), [q EXCEPT ![w] = c])
  BY <1>1, <1>2, <1>3, <1>7, <1>8, JoinsAtBack
<1> QED
  BY <1>2, <1>9 DEF w, t, q

(***************************************************************************)
(* The limiter's queue when a worker moves elsewhere, joins it, leaves it. *)
(***************************************************************************)
LEMMA WaitersUntouched ==
    ASSUME NEW q \in Seq(Workers), NEW p \in [Workers -> WorkerPc],
           WaitersOK(q, p), NEW w \in Workers, p[w] # "waiting",
           NEW c, c # "waiting"
    PROVE  WaitersOK(q, [p EXCEPT ![w] = c])
<1>1. \A i \in 1 .. Len(q) : q[i] \in Workers
  BY ElementOfSeq
<1> QED
  BY <1>1 DEF WaitersOK

LEMMA WaiterJoins ==
    ASSUME NEW q \in Seq(Workers), NEW p \in [Workers -> WorkerPc],
           WaitersOK(q, p), NEW w \in Workers, p[w] # "waiting"
    PROVE  WaitersOK(Append(q, w), [p EXCEPT ![w] = "waiting"])
<1> DEFINE t == Append(q, w)
           r == [p EXCEPT ![w] = "waiting"]
<1>1. /\ Len(q) \in Nat /\ Len(t) = Len(q) + 1 /\ t[Len(q) + 1] = w
      /\ \A i \in 1 .. Len(q) : t[i] = q[i] /\ q[i] \in Workers /\ q[i] # w
  BY AppendAt, ElementOfSeq, LenProperties DEF WaitersOK
<1>2. \A v \in Workers : r[v] = IF v = w THEN "waiting" ELSE p[v]
  OBVIOUS
<1> HIDE DEF t, r
<1>3. \A i \in 1 .. Len(t) : i \in 1 .. Len(q) \/ i = Len(q) + 1
  BY <1>1
<1>4. \A i \in 1 .. Len(t) : r[t[i]] = "waiting"
  BY <1>1, <1>2, <1>3 DEF WaitersOK
<1>5. \A i, k \in 1 .. Len(t) : i < k => t[i] # t[k]
  <2> SUFFICES ASSUME NEW i \in 1 .. Len(t), NEW k \in 1 .. Len(t), i < k
               PROVE  t[i] # t[k]
    OBVIOUS
  <2>1. i \in 1 .. Len(q)
    BY <1>1
  <2> QED
    BY <1>1, <1>3, <2>1 DEF WaitersOK
<1>6. ASSUME NEW v \in Workers, r[v] = "waiting"
      PROVE  \E i \in 1 .. Len(t) : t[i] = v
  <2>1. CASE v = w
    BY <1>1, <2>1
  <2>2. CASE v # w
    <3>1. PICK i \in 1 .. Len(q) : q[i] = v
      BY <1>2, <1>6, <2>2 DEF WaitersOK
    <3> QED
      BY <1>1, <3>1
  <2> QED
    BY <2>1, <2>2
<1> QED
  BY <1>4, <1>5, <1>6 DEF WaitersOK, t, r

LEMMA WaiterLeaves ==
    ASSUME NEW q \in Seq(Workers), NEW p \in [Workers -> WorkerPc],
           q # <<>>, WaitersOK(q, p)
    PROVE  WaitersOK(Tail(q), [p EXCEPT ![Head(q)] = "woken"])
<1> DEFINE t == Tail(q)
           r == [p EXCEPT ![Head(q)] = "woken"]
<1>1. /\ Head(q) \in Workers /\ Head(q) = q[1] /\ Len(q) \in Nat \ {0}
      /\ Len(t) = Len(q) - 1
      /\ \A i \in 1 .. Len(q) - 1 : t[i] = q[i + 1]
      /\ \A i \in 1 .. Len(q) : q[i] \in Workers
  BY TailAt, ElementOfSeq
<1>2. \A v \in Workers : r[v] = IF v = q[1] THEN "woken" ELSE p[v]
  BY <1>1
<1> HIDE DEF t, r
<1>3. ASSUME NEW i \in 1 .. Len(t)
      PROVE  i + 1 \in 1 .. Len(q) /\ q[i + 1] # q[1] /\ t[i] = q[i + 1]
             /\ r[t[i]] = "waiting"
  <2>1. i + 1 \in 1 .. Len(q) /\ 1 \in 1 .. Len(q) /\ 1 < i + 1 /\ t[i] = q[i + 1]
    BY <1>1
  <2>2. q[i + 1] # q[1]
    BY <2>1 DEF WaitersOK
  <2> QED
    BY <1>1, <1>2, <2>1, <2>2 DEF WaitersOK
<1>4. \A i, k \in 1 .. Len(t) : i < k => t[i] # t[k]
  <2> SUFFICES ASSUME NEW i \in 1 .. Len(t), NEW k \in 1 .. Len(t), i < k
               PROVE  t[i] # t[k]
    OBVIOUS
  <2>1. i + 1 < k + 1 /\ i + 1 \in 1 .. Len(q) /\ k + 1 \in 1 .. Len(q)
    BY <1>1
  <2> QED
    BY <1>3, <2>1 DEF WaitersOK
<1>5. ASSUME NEW v \in Workers, r[v] = "waiting"
      PROVE  \E i \in 1 .. Len(t) : t[i] = v
  <2>1. v # q[1] /\ p[v] = "waiting"
    BY <1>2, <1>5
  <2>2. PICK i \in 1 .. Len(q) : q[i] = v
    BY <2>1 DEF WaitersOK
  <2>3. i - 1 \in 1 .. Len(t) /\ (i - 1) + 1 = i
    BY <1>1, <2>1, <2>2
  <2> QED
    BY <1>1, <2>2, <2>3
<1> QED
  BY <1>3, <1>4, <1>5 DEF WaitersOK, t, r

LEMMA StartedInRange ==
    ASSUME NEW p
    PROVE  Cardinality(At(p, Started)) \in 0 .. Cardinality(Workers)
<1>1. At(p, Started) \subseteq Workers
  BY DEF At
<1>2. Cardinality(At(p, Started)) \in Nat /\ Cardinality(Workers) \in Nat
      /\ Cardinality(At(p, Started)) <= Cardinality(Workers)
  BY <1>1, WorkersAssumption, FS_Subset, FS_CardinalityType
<1> QED
  BY <1>2

\* No worker is woken while one is about to call run in time.
LEMMA CallBeforeWoken ==
    ASSUME NEW m \in Seq(Workers), NEW p \in [Workers -> WorkerPc],
           m # <<>>, MicrotasksOK(m, p), p[Head(m)] = "call"
    PROVE  At(p, {"woken"}) = {}
<1>1. Head(m) = m[1] /\ 1 \in 1 .. Len(m)
  BY TailAt
<1>2. Turn(p[m[1]]) # 3
  BY <1>1 DEF Turn
<1> QED
  BY <1>1, <1>2 DEF MicrotasksOK, At

-----------------------------------------------------------------------------
(***************************************************************************)
(* Every step preserves the invariant.                                     *)
(***************************************************************************)
LEMMA InitInv == Init => LimiterInv
<1> SUFFICES ASSUME Init PROVE LimiterInv
  OBVIOUS
<1> USE DEF Init
<1>1. \A P : (P = Started \/ P = Late \/ P = {"woken"}) => At(pc, P) = {}
  BY DEF At, Started, Late
<1>2. Cardinality({}) = 0
  BY FS_EmptySet
<1>3. <<>> \in Seq(Workers) /\ Len(<<>>) = 0 /\ Cardinality(Workers) \in Nat
  BY WorkersAssumption, FS_CardinalityType
<1>4. TypeOK
  BY <1>3, LimitsAssumption DEF TypeOK, WorkerPc
<1>5. MicrotasksOK(micro, pc) /\ WaitersOK(waiting, pc)
  BY <1>3 DEF MicrotasksOK, WaitersOK
<1>6. /\ Cardinality(At(pc, Started)) = 0
      /\ Cardinality(At(pc, Late)) = 0
      /\ Cardinality(At(pc, {"woken"})) = 0
  BY <1>1, <1>2
<1>7. Counts(running, waiting, pc, gone)
  BY <1>6, LimitsAssumption DEF Counts
<1> QED
  BY <1>4, <1>5, <1>7 DEF LimiterInv

LEMMA ReturnKeeps ==
    ASSUME LimiterInv, NEW w, micro # <<>>, w = Head(micro), Return(w),
           UNCHANGED <<gone, hangs>>
    PROVE  LimiterInv'
<1> DEFINE c == IF pc[w] = "stored" THEN "call"
                ELSE IF pc[w] = "missing" THEN "skipped" ELSE "lateCall"
<1>1. /\ w \in Workers /\ pc \in [Workers -> WorkerPc] /\ micro \in Seq(Workers)
      /\ waiting \in Seq(Workers) /\ running \in Nat
  BY TailAt DEF LimiterInv, TypeOK
<1>2. /\ pc[w] \in {"stored", "missing", "skipped"}
      /\ pc' = [pc EXCEPT ![w] = c] /\ micro' = Append(Tail(micro), w)
      /\ UNCHANGED <<running, waiting>>
  <2> DEFINE next == [stored |-> "call", missing |-> "skipped", skipped |-> "lateCall"]
  <2>1. pc[w] \in {"stored", "missing", "skipped"} /\ pc' = [pc EXCEPT ![w] = next[pc[w]]]
    BY DEF Return
  <2>2. next[pc[w]] = c
    BY <2>1
  <2> QED
    BY <2>1, <2>2 DEF Return
<1>3. c \in Queued /\ c \in WorkerPc /\ c # "woken" /\ c # "waiting"
      /\ Turn(c) = Turn(pc[w]) + 1
  BY <1>2 DEF Queued, WorkerPc, Turn
<1>4. /\ pc[w] \notin Started /\ c \notin Started
      /\ pc[w] \notin {"woken"} /\ c \notin {"woken"}
      /\ pc[w] \in Late <=> c \in Late
  BY <1>2 DEF Started, Late
<1> HIDE DEF c
<1>0. Moves(pc, w, c, pc')
  BY <1>1, <1>2 DEF Moves
<1>5. /\ At(pc', Started) = At(pc, Started)
      /\ At(pc', {"woken"}) = At(pc, {"woken"})
      /\ At(pc', Late) = At(pc, Late)
  <2>1. At(pc', Started) = At(pc, Started)
    BY <1>0, <1>4, CountStays
  <2>2. At(pc', {"woken"}) = At(pc, {"woken"})
    BY <1>0, <1>4, CountStays
  <2>3. At(pc', Late) = At(pc, Late)
    BY <1>0, <1>4, CountStays
  <2> QED
    BY <2>1, <2>2, <2>3
<1>6. Counts(running, waiting, pc, gone)'
  BY <1>2, <1>5 DEF LimiterInv, Counts
<1>7. MicrotasksOK(micro, pc)'
  BY <1>1, <1>2, <1>3, HeadGoesBack DEF LimiterInv
<1>8. WaitersOK(waiting, pc)'
  BY <1>1, <1>2, <1>3, WaitersUntouched DEF LimiterInv
<1>9. TypeOK'
  BY <1>1, <1>2, <1>3, MoveAt DEF LimiterInv, TypeOK
<1> QED
  BY <1>6, <1>7, <1>8, <1>9 DEF LimiterInv

\* The body starts: the caller has found a slot, or was woken for one.
LEMMA BeginKeeps ==
    ASSUME LimiterInv, NEW w, micro # <<>>, w = Head(micro), Begin(w),
           UNCHANGED <<gone, hangs>>,
           \/ pc[w] = "woken"
           \/ pc[w] \in {"call", "lateCall"} /\ running < MaxConcurrent
    PROVE  LimiterInv'
<1>1. /\ w \in Workers /\ pc \in [Workers -> WorkerPc] /\ micro \in Seq(Workers)
      /\ waiting \in Seq(Workers) /\ running \in Nat /\ gone \in Nat
  BY TailAt DEF LimiterInv, TypeOK
<1>2. PICK c \in {"task", "settled"} :
         /\ pc' = [pc EXCEPT ![w] = c]
         /\ micro' = IF c = "task" THEN Tail(micro) ELSE Append(Tail(micro), w)
  BY DEF Begin
<1>3. running' = running + 1 /\ UNCHANGED <<waiting, gone, hangs>>
  BY DEF Begin
<1>4. /\ c \in WorkerPc /\ c # "woken" /\ c # "waiting" /\ c \in Started /\ c \notin Late
      /\ pc[w] \notin Started /\ pc[w] # "waiting" /\ pc[w] \notin {"task", "settled"}
      /\ c \notin {"woken"} /\ (pc[w] \in Late <=> pc[w] = "lateCall")
  BY DEF WorkerPc, Started, Late
<1> DEFINE s == Cardinality(At(pc, Started))
           l == Cardinality(At(pc, Late))
           k == Cardinality(At(pc, {"woken"}))
           s1 == Cardinality(At(pc', Started))
           l1 == Cardinality(At(pc', Late))
           k1 == Cardinality(At(pc', {"woken"}))
<1>5. s \in Nat /\ l \in Nat /\ k \in Nat /\ s1 \in Nat /\ l1 \in Nat /\ k1 \in Nat
  BY CountIsNat
<1>6. Moves(pc, w, c, pc')
  BY <1>1, <1>2 DEF Moves
<1>7. /\ s1 = s + 1
      /\ pc[w] = "lateCall" => l = l1 + 1
      /\ pc[w] # "lateCall" => l1 = l
      /\ pc[w] = "woken" => k = k1 + 1
      /\ pc[w] # "woken" => k1 = k
  <2>1. s1 = s + 1
    BY <1>4, <1>6, CountEnters
  <2>2. pc[w] = "lateCall" => l = l1 + 1
    BY <1>4, <1>6, CountLeaves
  <2>3. pc[w] # "lateCall" => l1 = l
    BY <1>4, <1>6, CountStays
  <2>4. pc[w] = "woken" => k = k1 + 1
    <3> SUFFICES ASSUME pc[w] = "woken" PROVE k = k1 + 1
      OBVIOUS
    <3>1. pc[w] \in {"woken"}
      OBVIOUS
    <3> QED
      BY <1>4, <1>6, <3>1, CountLeaves
  <2>5. pc[w] # "woken" => k1 = k
    <3> SUFFICES ASSUME pc[w] # "woken" PROVE k1 = k
      OBVIOUS
    <3>1. pc[w] \notin {"woken"}
      OBVIOUS
    <3> QED
      BY <1>4, <1>6, <3>1, CountStays
  <2> QED
    BY <2>1, <2>2, <2>3, <2>4, <2>5
<1>8. pc[w] = "call" => k = 0
  BY <1>1, CallBeforeWoken, FS_EmptySet DEF LimiterInv
<1>9. /\ running = s /\ l <= gone /\ running + k + l <= MaxConcurrent + gone
      /\ waiting # <<>> => running + k >= MaxConcurrent
  BY DEF LimiterInv, Counts
<1>10. waiting # <<>> => running' + k1 >= MaxConcurrent
  <2> HIDE DEF s, l, k, s1, l1, k1
  <2> QED
    BY <1>1, <1>3, <1>5, <1>7, <1>9, LimitsAssumption
<1>11. running' + k1 + l1 <= MaxConcurrent + gone
  <2> HIDE DEF s, l, k, s1, l1, k1
  <2>1. CASE pc[w] = "woken"
    BY <1>1, <1>3, <1>5, <1>7, <1>9, <2>1, LimitsAssumption
  <2>2. CASE pc[w] = "call" /\ running < MaxConcurrent
    BY <1>1, <1>3, <1>5, <1>7, <1>8, <1>9, <2>2, LimitsAssumption
  <2>3. CASE pc[w] = "lateCall" /\ running < MaxConcurrent
    BY <1>1, <1>3, <1>5, <1>7, <1>9, <2>3, LimitsAssumption
  <2> QED
    BY <2>1, <2>2, <2>3
<1>12. running' = s1 /\ l1 <= gone
  <2> HIDE DEF s, l, k, s1, l1, k1
  <2> QED
    BY <1>1, <1>3, <1>5, <1>7, <1>9
<1>13. Counts(running, waiting, pc, gone)'
  BY <1>3, <1>10, <1>11, <1>12 DEF Counts
<1>14. MicrotasksOK(micro, pc)'
  <2>1. CASE c = "task"
    BY <1>1, <1>2, <1>4, <2>1, HeadDropsOut DEF LimiterInv
  <2>2. CASE c = "settled"
    <3>1. c \in Queued /\ Turn(c) = 3
      BY <2>2 DEF Queued, Turn
    <3>2. Turn(pc[w]) = 2 \/ Turn(pc[w]) = 3
      BY DEF Turn
    <3>3. c # "task"
      BY <2>2
    <3>4. micro' = Append(Tail(micro), w)
      BY <1>2, <3>3
    <3>5. \/ Turn(c) = Turn(pc[Head(micro)]) + 1
          \/ Turn(c) = 3 /\ Turn(pc[Head(micro)]) = 3
      BY <3>1, <3>2
    <3>6. MicrotasksOK(Append(Tail(micro), Head(micro)), [pc EXCEPT ![Head(micro)] = c])
      BY <1>1, <1>4, <3>1, <3>5, HeadGoesBack DEF LimiterInv
    <3> QED
      BY <1>2, <3>4, <3>6
  <2> QED
    BY <2>1, <2>2
<1>15. WaitersOK(waiting, pc)'
  BY <1>1, <1>2, <1>3, <1>4, WaitersUntouched DEF LimiterInv
<1>16. TypeOK'
  <2>1. running' \in 0 .. Cardinality(Workers)
    BY <1>12, StartedInRange
  <2>2. micro' \in Seq(Workers)
    BY <1>1, <1>2, TailAt, MoveAt
  <2> QED
    BY <1>1, <1>2, <1>3, <1>4, <2>1, <2>2 DEF LimiterInv, TypeOK
<1> QED
  BY <1>13, <1>14, <1>15, <1>16 DEF LimiterInv

LEMMA CallKeeps ==
    ASSUME LimiterInv, NEW w, micro # <<>>, w = Head(micro), Call(w),
           UNCHANGED <<gone, hangs>>
    PROVE  LimiterInv'
<1>1. /\ w \in Workers /\ pc \in [Workers -> WorkerPc] /\ micro \in Seq(Workers)
      /\ waiting \in Seq(Workers) /\ running \in Nat /\ gone \in Nat
      /\ pc[w] \in {"call", "lateCall"}
  BY TailAt DEF LimiterInv, TypeOK, Call
<1>2. ASSUME NEW c \in {"waiting", "idle"},
             running >= MaxConcurrent,
             pc' = [pc EXCEPT ![w] = c], micro' = Tail(micro), running' = running,
             c = "waiting" => /\ Len(waiting) < MaxQueue
                              /\ waiting' = Append(waiting, w),
             c = "idle" => waiting' = waiting
      PROVE  LimiterInv'
  <2>1. /\ c \in WorkerPc /\ c # "woken"
        /\ pc[w] \notin Started /\ c \notin Started /\ c \notin Late
        /\ pc[w] \notin {"woken"} /\ c \notin {"woken"} /\ pc[w] # "waiting"
    BY <1>1 DEF WorkerPc, Started, Late
  <2>2. Moves(pc, w, c, pc')
    BY <1>1, <1>2 DEF Moves
  <2>3. At(pc', Started) = At(pc, Started) /\ At(pc', {"woken"}) = At(pc, {"woken"})
    <3>1. At(pc', Started) = At(pc, Started)
      BY <2>1, <2>2, CountStays
    <3>2. At(pc', {"woken"}) = At(pc, {"woken"})
      BY <2>1, <2>2, CountStays
    <3> QED
      BY <3>1, <3>2
  <2>4. Cardinality(At(pc', Late)) <= Cardinality(At(pc, Late))
    <3>1. CASE pc[w] \in Late
      <4>1. Cardinality(At(pc, Late)) = Cardinality(At(pc', Late)) + 1
        BY <2>1, <2>2, <3>1, CountLeaves
      <4>2. Cardinality(At(pc', Late)) \in Nat
        BY CountIsNat
      <4> QED
        BY <4>1, <4>2
    <3>2. CASE pc[w] \notin Late
      <4>1. At(pc', Late) = At(pc, Late)
        BY <2>1, <2>2, <3>2, CountStays
      <4>2. Cardinality(At(pc, Late)) \in Nat
        BY CountIsNat
      <4> QED
        BY <4>1, <4>2
    <3> QED
      BY <3>1, <3>2
  <2>5. Counts(running, waiting, pc, gone)'
    <3> DEFINE l == Cardinality(At(pc, Late))
               k == Cardinality(At(pc, {"woken"}))
               l1 == Cardinality(At(pc', Late))
    <3>1. l \in Nat /\ k \in Nat /\ l1 \in Nat /\ l1 <= l
      BY <2>4, CountIsNat
    <3>2. /\ running = Cardinality(At(pc, Started))
          /\ l <= gone /\ running + k + l <= MaxConcurrent + gone
      BY DEF LimiterInv, Counts
    <3>3. /\ l1 <= gone /\ running + k + l1 <= MaxConcurrent + gone
          /\ running + k >= MaxConcurrent
      <4> HIDE DEF l, k, l1
      <4> QED
        BY <1>1, <1>2, <3>1, <3>2, LimitsAssumption
    <3> QED
      BY <1>2, <2>3, <3>2, <3>3 DEF Counts
  <2>6. MicrotasksOK(micro, pc)'
    BY <1>1, <1>2, <2>1, HeadDropsOut DEF LimiterInv
  <2>7. WaitersOK(waiting, pc)'
    <3>1. CASE c = "waiting"
      BY <1>1, <1>2, <2>1, <3>1, WaiterJoins DEF LimiterInv
    <3>2. CASE c = "idle"
      BY <1>1, <1>2, <2>1, <3>2, WaitersUntouched DEF LimiterInv
    <3> QED
      BY <3>1, <3>2
  <2>8. waiting' \in Seq(Workers) /\ Len(waiting') <= MaxQueue
    <3>1. CASE c = "waiting"
      <4>1. waiting' = Append(waiting, w) /\ Len(waiting) < MaxQueue
        BY <1>2, <3>1
      <4>2. Append(waiting, w) \in Seq(Workers) /\ Len(Append(waiting, w)) = Len(waiting) + 1
            /\ Len(waiting) \in Nat
        BY <1>1, AppendAt, LenProperties
      <4> QED
        BY <4>1, <4>2, LimitsAssumption
    <3>2. CASE c = "idle"
      BY <1>1, <1>2, <3>2 DEF LimiterInv, TypeOK
    <3> QED
      BY <3>1, <3>2
  <2>9. micro' \in Seq(Workers)
    BY <1>1, <1>2, TailAt
  <2>10. TypeOK'
    BY <1>1, <1>2, <2>1, <2>8, <2>9 DEF LimiterInv, TypeOK
  <2> QED
    BY <2>5, <2>6, <2>7, <2>10 DEF LimiterInv
<1>3. CASE running < MaxConcurrent /\ Begin(w)
  BY <1>1, <1>3, BeginKeeps
<1>4. CASE /\ running >= MaxConcurrent
           /\ Len(waiting) < MaxQueue
           /\ waiting' = Append(waiting, w)
           /\ pc' = [pc EXCEPT ![w] = "waiting"]
           /\ micro' = Tail(micro)
           /\ UNCHANGED running
  BY <1>2, <1>4
<1>5. CASE /\ running >= MaxConcurrent
           /\ Len(waiting) >= MaxQueue
           /\ pc' = [pc EXCEPT ![w] = "idle"]
           /\ micro' = Tail(micro)
           /\ UNCHANGED <<running, waiting>>
  BY <1>2, <1>5
<1> QED
  BY <1>3, <1>4, <1>5 DEF Call

LEMMA ResumeKeeps ==
    ASSUME LimiterInv, NEW w, micro # <<>>, w = Head(micro), Resume(w),
           UNCHANGED <<gone, hangs>>
    PROVE  LimiterInv'
BY BeginKeeps DEF Resume

LEMMA TaskEndsKeeps ==
    ASSUME LimiterInv, NEW w \in Workers, TaskEnds(w)
    PROVE  LimiterInv'
<1>1. /\ pc \in [Workers -> WorkerPc] /\ waiting \in Seq(Workers)
      /\ micro = <<>> /\ <<>> \in Seq(Workers) /\ pc[w] = "task"
      /\ pc' = [pc EXCEPT ![w] = "settled"] /\ micro' = <<w>>
      /\ UNCHANGED <<running, waiting, gone, hangs>>
  BY DEF LimiterInv, TypeOK, TaskEnds
<1>2. /\ "settled" \in WorkerPc /\ "settled" \in Queued /\ Turn("settled") = 3
      /\ pc[w] \notin Queued
      /\ pc[w] \in Started /\ "settled" \in Started
      /\ pc[w] \notin Late /\ "settled" \notin Late
      /\ pc[w] \notin {"woken"} /\ "settled" \notin {"woken"}
  BY <1>1 DEF WorkerPc, Queued, Turn, Started, Late
<1>3. Moves(pc, w, "settled", pc')
  BY <1>1 DEF Moves
<1>4. At(pc', Started) = At(pc, Started)
  BY <1>2, <1>3, CountStays
<1>5. At(pc', Late) = At(pc, Late)
  BY <1>2, <1>3, CountStays
<1>6. At(pc', {"woken"}) = At(pc, {"woken"})
  BY <1>2, <1>3, CountStays
<1>7. Counts(running, waiting, pc, gone)'
  BY <1>1, <1>4, <1>5, <1>6 DEF LimiterInv, Counts
<1>8. MicrotasksOK(micro, pc)'
  <2>1. /\ micro \in Seq(Workers) /\ MicrotasksOK(micro, pc)
        /\ Len(micro) = 0 /\ Append(micro, w) = <<w>>
    BY <1>1 DEF LimiterInv
  <2>2. \A i \in 1 .. Len(micro) : FALSE
    BY <2>1
  <2>3. MicrotasksOK(Append(micro, w), [pc EXCEPT ![w] = "settled"])
    BY <1>1, <1>2, <2>1, <2>2, JoinsAtBack
  <2> QED
    BY <1>1, <2>1, <2>3
<1>9. WaitersOK(waiting, pc)'
  BY <1>1, WaitersUntouched DEF LimiterInv
<1>10. TypeOK'
  BY <1>1, <1>2 DEF LimiterInv, TypeOK
<1> QED
  BY <1>7, <1>8, <1>9, <1>10 DEF LimiterInv

LEMMA MicrotasksUntouched ==
    ASSUME NEW m \in Seq(Workers), NEW p \in [Workers -> WorkerPc],
           MicrotasksOK(m, p), NEW w \in Workers, p[w] \notin Queued,
           NEW c, c # "woken"
    PROVE  MicrotasksOK(m, [p EXCEPT ![w] = c])
<1>1. \A i \in 1 .. Len(m) : m[i] \in Workers /\ m[i] # w
  BY ElementOfSeq DEF MicrotasksOK
<1>2. \A v \in Workers : [p EXCEPT ![w] = c][v] = IF v = w THEN c ELSE p[v]
  OBVIOUS
<1> QED
  BY <1>1, <1>2 DEF MicrotasksOK

LEMMA TaskHangsKeeps ==
    ASSUME LimiterInv, NEW w \in Workers, TaskHangs(w)
    PROVE  LimiterInv'
<1>1. /\ pc \in [Workers -> WorkerPc] /\ waiting \in Seq(Workers) /\ micro \in Seq(Workers)
      /\ pc[w] = "task" /\ pc' = [pc EXCEPT ![w] = "hung"]
      /\ hangs < MaxHangs /\ hangs' = hangs + 1 /\ hangs \in Nat
      /\ UNCHANGED <<running, waiting, micro, gone>>
  BY DEF LimiterInv, TypeOK, TaskHangs
<1>2. /\ "hung" \in WorkerPc /\ pc[w] \notin Queued
      /\ pc[w] \in Started /\ "hung" \in Started
      /\ pc[w] \notin Late /\ "hung" \notin Late
      /\ pc[w] \notin {"woken"} /\ "hung" \notin {"woken"}
  BY <1>1 DEF WorkerPc, Queued, Started, Late
<1>3. Moves(pc, w, "hung", pc')
  BY <1>1 DEF Moves
<1>4. At(pc', Started) = At(pc, Started)
  BY <1>2, <1>3, CountStays
<1>5. At(pc', Late) = At(pc, Late)
  BY <1>2, <1>3, CountStays
<1>6. At(pc', {"woken"}) = At(pc, {"woken"})
  BY <1>2, <1>3, CountStays
<1>7. Counts(running, waiting, pc, gone)'
  BY <1>1, <1>4, <1>5, <1>6 DEF LimiterInv, Counts
<1>8. MicrotasksOK(micro, pc)'
  BY <1>1, <1>2, MicrotasksUntouched DEF LimiterInv
<1>9. WaitersOK(waiting, pc)'
  BY <1>1, WaitersUntouched DEF LimiterInv
<1>10. TypeOK'
  BY <1>1, <1>2, LimitsAssumption DEF LimiterInv, TypeOK
<1> QED
  BY <1>7, <1>8, <1>9, <1>10 DEF LimiterInv

LEMMA SettleKeeps ==
    ASSUME LimiterInv, NEW w, micro # <<>>, w = Head(micro), Settle(w),
           UNCHANGED <<gone, hangs>>
    PROVE  LimiterInv'
<1> DEFINE p == [pc EXCEPT ![w] = "idle"]
<1>1. /\ w \in Workers /\ pc \in [Workers -> WorkerPc] /\ micro \in Seq(Workers)
      /\ waiting \in Seq(Workers) /\ running \in Nat /\ gone \in Nat
      /\ pc[w] = "settled" /\ p[w] = "idle"
      /\ Tail(micro) \in Seq(Workers)
  BY TailAt DEF LimiterInv, TypeOK, Settle
<1>2. /\ "idle" \in WorkerPc /\ "idle" \notin Started /\ "idle" \notin Late
      /\ "idle" \notin {"woken"}
      /\ pc[w] \in Started /\ pc[w] \notin Late /\ pc[w] \notin {"woken"}
  BY <1>1 DEF WorkerPc, Started, Late
<1>3. Moves(pc, w, "idle", p) /\ p \in [Workers -> WorkerPc]
  BY <1>1, <1>2 DEF Moves
<1>4. MicrotasksOK(Tail(micro), p) /\ WaitersOK(waiting, p)
  BY <1>1, HeadDropsOut, WaitersUntouched DEF LimiterInv
<1>5. \A i \in 1 .. Len(Tail(micro)) : Turn(p[Tail(micro)[i]]) = 3
  <2> SUFFICES ASSUME NEW i \in 1 .. Len(Tail(micro))
               PROVE  Turn(p[Tail(micro)[i]]) = 3
    OBVIOUS
  <2>1. /\ w = micro[1] /\ 1 \in 1 .. Len(micro) /\ i + 1 \in 1 .. Len(micro) /\ 1 < i + 1
        /\ Tail(micro)[i] = micro[i + 1] /\ micro[i + 1] \in Workers
    BY <1>1, TailAt, ElementOfSeq
  <2>2. micro[i + 1] # w /\ Turn(pc[micro[1]]) <= Turn(pc[micro[i + 1]])
    BY <2>1 DEF LimiterInv, MicrotasksOK
  <2>3. Turn(pc[micro[1]]) = 3 /\ Turn(pc[micro[i + 1]]) \in 1 .. 3
    BY <1>1, <2>1 DEF Turn
  <2> QED
    BY <1>1, <2>1, <2>2, <2>3
<1> DEFINE s == Cardinality(At(pc, Started))
           l == Cardinality(At(pc, Late))
           k == Cardinality(At(pc, {"woken"}))
           r == Cardinality(At(p, Started))
<1>6. /\ s = r + 1
      /\ l = Cardinality(At(p, Late))
      /\ k = Cardinality(At(p, {"woken"}))
      /\ s \in Nat /\ r \in Nat /\ l \in Nat /\ k \in Nat
  <2>1. s = r + 1
    BY <1>2, <1>3, CountLeaves
  <2>2. At(p, Late) = At(pc, Late)
    BY <1>2, <1>3, CountStays
  <2>3. At(p, {"woken"}) = At(pc, {"woken"})
    BY <1>2, <1>3, CountStays
  <2> QED
    BY <2>1, <2>2, <2>3, CountIsNat
<1>7. /\ running = s /\ l <= gone /\ running + k + l <= MaxConcurrent + gone
      /\ waiting # <<>> => running + k >= MaxConcurrent
  BY DEF LimiterInv, Counts
<1>8. running' = running - 1 /\ UNCHANGED <<gone, hangs>>
  BY DEF Settle
<1> HIDE DEF p
<1>9. CASE waiting = <<>>
  <2>1. pc' = p /\ micro' = Tail(micro) /\ UNCHANGED waiting
    BY <1>9 DEF Settle, p
  <2>2. Counts(running, waiting, pc, gone)'
    <3>1. /\ running' = r
          /\ running' + k + l <= MaxConcurrent + gone
      <4> HIDE DEF s, l, k, r
      <4> QED
        BY <1>1, <1>6, <1>7, <1>8, LimitsAssumption
    <3> QED
      BY <1>6, <1>7, <1>8, <1>9, <2>1, <3>1 DEF Counts
  <2>3. running' \in 0 .. Cardinality(Workers)
    BY <2>1, <2>2, StartedInRange DEF Counts
  <2>4. TypeOK'
    BY <1>1, <1>3, <1>8, <2>1, <2>3 DEF LimiterInv, TypeOK
  <2> QED
    BY <1>4, <1>8, <2>1, <2>2, <2>4 DEF LimiterInv
<1>10. CASE waiting # <<>>
  <2> DEFINE h == Head(waiting)
             q == [p EXCEPT ![h] = "woken"]
  <2>1. /\ h \in Workers /\ h = waiting[1] /\ Len(waiting) \in Nat \ {0}
        /\ Tail(waiting) \in Seq(Workers) /\ Len(Tail(waiting)) = Len(waiting) - 1
    BY <1>1, <1>10, TailAt
  <2>2. p[h] = "waiting"
    BY <1>4, <2>1 DEF WaitersOK
  <2>3. /\ micro' = Append(Tail(micro), h) /\ waiting' = Tail(waiting)
        /\ pc' = [pc EXCEPT ![w] = "idle", ![h] = "woken"]
    BY <1>10 DEF Settle
  <2>4. pc' = q
    BY <2>3 DEF p
  <2>5. /\ "woken" \in WorkerPc /\ "woken" \in Queued /\ Turn("woken") = 3
        /\ p[h] \notin Queued /\ p[h] \notin Started /\ p[h] \notin Late
        /\ p[h] \notin {"woken"} /\ "woken" \in {"woken"}
        /\ "woken" \notin Started /\ "woken" \notin Late
    BY <2>2 DEF WorkerPc, Queued, Turn, Started, Late
  <2>6. Moves(p, h, "woken", q)
    BY <1>3, <2>1 DEF Moves
  <2>7. q \in [Workers -> WorkerPc]
    BY <1>3, <2>5
  <2> HIDE DEF h, q
  <2>8. /\ Cardinality(At(q, Started)) = Cardinality(At(p, Started))
        /\ Cardinality(At(q, Late)) = l
        /\ Cardinality(At(q, {"woken"})) = k + 1
    <3>1. At(q, Started) = At(p, Started)
      BY <2>5, <2>6, CountStays
    <3>2. At(q, Late) = At(p, Late)
      BY <2>5, <2>6, CountStays
    <3>3. Cardinality(At(q, {"woken"})) = Cardinality(At(p, {"woken"})) + 1
      BY <2>5, <2>6, CountEnters
    <3> QED
      BY <1>6, <3>1, <3>2, <3>3
  <2>9. Counts(running, waiting, pc, gone)'
    <3>1. /\ running' = r
          /\ running' + (k + 1) + l <= MaxConcurrent + gone
          /\ running' + (k + 1) >= MaxConcurrent
      <4> HIDE DEF s, l, k, r
      <4> QED
        BY <1>1, <1>6, <1>7, <1>8, <1>10, LimitsAssumption
    <3> QED
      BY <1>7, <1>8, <2>4, <2>8, <3>1 DEF Counts
  <2>10. MicrotasksOK(micro, pc)'
    <3>1. \A i \in 1 .. Len(Tail(micro)) :
             /\ Turn(p[Tail(micro)[i]]) <= Turn("woken")
             /\ Turn("woken") <= Turn(p[Tail(micro)[i]]) + 1
      BY <1>5, <2>5
    <3>2. MicrotasksOK(Append(Tail(micro), h), [p EXCEPT ![h] = "woken"])
      BY <1>1, <1>3, <1>4, <1>5, <2>1, <2>5, <3>1, JoinsAtBack
    <3> QED
      BY <2>3, <2>4, <3>2 DEF q
  <2>11. WaitersOK(waiting, pc)'
    BY <1>1, <1>3, <1>4, <1>10, <2>3, <2>4, WaiterLeaves DEF h, q
  <2>12. running' \in 0 .. Cardinality(Workers)
    BY <2>9, StartedInRange DEF Counts
  <2>13. micro' \in Seq(Workers)
    BY <1>1, <2>1, <2>3, AppendAt
  <2>14. Len(waiting') <= MaxQueue
    BY <2>1, <2>3, LimitsAssumption DEF LimiterInv, TypeOK
  <2>15. TypeOK'
    BY <1>1, <1>8, <2>1, <2>3, <2>4, <2>7, <2>12, <2>13, <2>14 DEF LimiterInv, TypeOK
  <2> QED
    BY <1>8, <2>9, <2>10, <2>11, <2>15 DEF LimiterInv
<1> QED
  BY <1>9, <1>10

LEMMA RepliesKeeps ==
    ASSUME LimiterInv, Replies
    PROVE  LimiterInv'
<1> DEFINE Arrive(ws, lost) ==
         /\ gone + Cardinality(lost) <= MaxGone
         /\ gone' = gone + Cardinality(lost)
         /\ pc' = [w \in Workers |-> IF w \in lost THEN "missing"
                                     ELSE IF w \in ws THEN "stored" ELSE pc[w]]
         /\ micro' \in SetToSeqs(ws)
<1>0. PICK ws \in SUBSET { w \in Workers : pc[w] = "idle" } \ {{}} :
         \E lost \in SUBSET ws : Arrive(ws, lost)
  BY DEF Replies
<1>1. PICK lost \in SUBSET ws : Arrive(ws, lost)
  BY <1>0
<1>2. /\ pc \in [Workers -> WorkerPc] /\ waiting \in Seq(Workers)
      /\ running \in Nat /\ gone \in Nat /\ micro = <<>>
      /\ UNCHANGED <<running, waiting, hangs>>
  BY DEF LimiterInv, TypeOK, Replies
<1>3. /\ ws \subseteq Workers /\ lost \subseteq ws
      /\ \A w \in ws : pc[w] = "idle"
      /\ IsFiniteSet(ws) /\ Cardinality(ws) \in Nat
      /\ IsFiniteSet(lost) /\ Cardinality(lost) \in Nat
  <2>1. ws \subseteq Workers /\ lost \subseteq Workers /\ \A w \in ws : pc[w] = "idle"
    BY <1>1
  <2> QED
    BY <1>1, <2>1, WorkersAssumption, FS_Subset, FS_CardinalityType
<1>4. \A w \in Workers : pc'[w] = IF w \in lost THEN "missing"
                                  ELSE IF w \in ws THEN "stored" ELSE pc[w]
  BY <1>1
<1>5. At(pc', Started) = At(pc, Started)
  BY <1>3, <1>4 DEF At, Started
<1>6. At(pc, {"woken"}) = {} /\ At(pc', {"woken"}) = {}
  <2>1. Len(micro) = 0 /\ \A i \in 1 .. Len(micro) : FALSE
    BY <1>2
  <2>2. \A w \in Workers : pc[w] # "woken"
    BY <2>1 DEF LimiterInv, MicrotasksOK
  <2> QED
    BY <1>3, <1>4, <2>2 DEF At
<1>7. At(pc', Late) = At(pc, Late) \cup lost /\ At(pc, Late) \cap lost = {}
  BY <1>3, <1>4 DEF At, Late
<1>8. Cardinality(At(pc', Late)) = Cardinality(At(pc, Late)) + Cardinality(lost)
  <2>1. IsFiniteSet(At(pc, Late)) /\ Cardinality(At(pc, Late)) \in Nat
    BY CountIsNat
  <2>2. Cardinality(At(pc, Late) \cap lost) = 0
    BY <1>7, FS_EmptySet
  <2>3. Cardinality(At(pc, Late) \cup lost)
          = Cardinality(At(pc, Late)) + Cardinality(lost) - Cardinality(At(pc, Late) \cap lost)
    BY <1>3, <2>1, FS_Union
  <2> QED
    BY <1>3, <1>7, <2>1, <2>2, <2>3
<1>9. Counts(running, waiting, pc, gone)'
  <2> DEFINE l == Cardinality(At(pc, Late))
             n == Cardinality(lost)
  <2>1. /\ running = Cardinality(At(pc, Started))
        /\ l <= gone /\ running + 0 + l <= MaxConcurrent + gone
        /\ waiting # <<>> => running + 0 >= MaxConcurrent
    BY <1>6, FS_EmptySet DEF LimiterInv, Counts
  <2>2. l \in Nat /\ n \in Nat /\ gone' = gone + n
    BY <1>1, <1>3, CountIsNat
  <2>3. l + n <= gone' /\ running + 0 + (l + n) <= MaxConcurrent + gone'
    <3> HIDE DEF l, n
    <3> QED
      BY <1>2, <2>1, <2>2, LimitsAssumption
  <2> QED
    BY <1>2, <1>5, <1>6, <1>8, <2>1, <2>3, FS_EmptySet DEF Counts
<1>10. /\ micro' \in Seq(ws) /\ Len(micro') = Cardinality(ws)
       /\ \A i, k \in 1 .. Len(micro') : i # k => micro'[i] # micro'[k]
       /\ \A i \in 1 .. Len(micro') : micro'[i] \in ws
  <2>1. /\ micro' \in [1 .. Cardinality(ws) -> ws]
        /\ \A i, k \in 1 .. Cardinality(ws) : i # k => micro'[i] # micro'[k]
    BY <1>1 DEF SetToSeqs
  <2>2. micro' \in Seq(ws) /\ Len(micro') = Cardinality(ws)
    BY <1>3, <2>1, SeqDef, LenProperties
  <2> QED
    BY <2>1, <2>2
<1>11. MicrotasksOK(micro, pc)'
  <2>1. \A i \in 1 .. Len(micro') : pc'[micro'[i]] \in {"stored", "missing"}
    BY <1>3, <1>4, <1>10
  <2>2. \A i \in 1 .. Len(micro') : Turn(pc'[micro'[i]]) = 1 /\ pc'[micro'[i]] \in Queued
    BY <2>1 DEF Turn, Queued
  <2>3. Len(micro') \in Nat /\ \A w \in Workers : pc'[w] # "woken"
    BY <1>3, <1>6, <1>10 DEF At
  <2> QED
    BY <1>10, <2>2, <2>3 DEF MicrotasksOK
<1>12. WaitersOK(waiting, pc)'
  <2>1. \A i \in 1 .. Len(waiting) : waiting[i] \in Workers
    BY <1>2, ElementOfSeq
  <2>2. \A w \in Workers : (pc'[w] = "waiting") <=> (pc[w] = "waiting")
    BY <1>3, <1>4
  <2> QED
    BY <1>2, <2>1, <2>2 DEF LimiterInv, WaitersOK
<1>13. TypeOK'
  <2>1. pc' \in [Workers -> WorkerPc]
    BY <1>1, <1>2 DEF WorkerPc
  <2>2. micro' \in Seq(Workers)
    BY <1>3, <1>10, SeqMonotonic
  <2>3. gone' \in 0 .. MaxGone
    BY <1>1, <1>2, <1>3, LimitsAssumption
  <2> QED
    BY <1>2, <2>1, <2>2, <2>3 DEF LimiterInv, TypeOK
<1> QED
  BY <1>9, <1>11, <1>12, <1>13 DEF LimiterInv

LEMMA MicrotaskKeeps ==
    ASSUME LimiterInv, Microtask
    PROVE  LimiterInv'
<1>1. micro # <<>> /\ UNCHANGED <<gone, hangs>>
  BY DEF Microtask
<1>2. CASE Return(Head(micro))
  BY <1>1, <1>2, ReturnKeeps
<1>3. CASE Call(Head(micro))
  BY <1>1, <1>3, CallKeeps
<1>4. CASE Resume(Head(micro))
  BY <1>1, <1>4, ResumeKeeps
<1>5. CASE Settle(Head(micro))
  BY <1>1, <1>5, SettleKeeps
<1> QED
  BY <1>2, <1>3, <1>4, <1>5 DEF Microtask

LEMMA StepKeeps == LimiterInv /\ [Next]_vars => LimiterInv'
<1> SUFFICES ASSUME LimiterInv, [Next]_vars PROVE LimiterInv'
  OBVIOUS
<1>1. CASE Replies
  BY <1>1, RepliesKeeps
<1>2. CASE Microtask
  BY <1>2, MicrotaskKeeps
<1>3. ASSUME NEW w \in Workers, TaskEnds(w) PROVE LimiterInv'
  BY <1>3, TaskEndsKeeps
<1>4. ASSUME NEW w \in Workers, TaskHangs(w) PROVE LimiterInv'
  BY <1>4, TaskHangsKeeps
<1>5. CASE UNCHANGED vars
  BY <1>5 DEF vars, LimiterInv, TypeOK, MicrotasksOK, WaitersOK, Counts, At
<1> QED
  BY <1>1, <1>2, <1>3, <1>4, <1>5 DEF Next

\* The invariant, of which the theorems are consequences.
LEMMA LimiterInvariant == Spec => []LimiterInv
<1> QED
  BY InitInv, StepKeeps, PTL DEF Spec

-----------------------------------------------------------------------------
(***************************************************************************)
(* The guarantees.                                                         *)
(***************************************************************************)

\* The counter, the waiters and the microtasks have their types: the
\* counter is neither negative nor above the number of workers, and no more
\* than MaxQueue runs wait.
THEOREM LimiterTyped == Spec => []TypeOK
<1>1. LimiterInv => TypeOK
  BY DEF LimiterInv
<1> QED
  BY <1>1, LimiterInvariant, PTL

\* The counter is exactly the number of runs inside task(), however they
\* end.
THEOREM CounterIsExact == Spec => []CountsRuns
<1>1. LimiterInv => CountsRuns
  BY DEF LimiterInv, Counts, At, Started, CountsRuns
<1> QED
  BY <1>1, LimiterInvariant, PTL

\* The number of containers never exceeds max by more than the jobs whose
\* record was gone: a slot is handed over only between runs of one turn.
THEOREM OvershootIsBounded == Spec => []OvershootBounded
<1>1. LimiterInv => OvershootBounded
  <2> SUFFICES ASSUME LimiterInv PROVE OvershootBounded
    OBVIOUS
  <2> DEFINE e == Cardinality(Executing)
             s == Cardinality(At(pc, Started))
             k == Cardinality(At(pc, {"woken"}))
             l == Cardinality(At(pc, Late))
  <2>1. Executing \subseteq At(pc, Started)
    BY DEF Executing, At, Started
  <2>2. e \in Nat /\ s \in Nat /\ e <= s
    <3>1. IsFiniteSet(At(pc, Started)) /\ s \in Nat
      BY CountIsNat
    <3> QED
      BY <2>1, <3>1, FS_Subset, FS_CardinalityType
  <2>3. k \in Nat /\ l \in Nat /\ gone \in Nat
    BY CountIsNat DEF LimiterInv, TypeOK
  <2>4. s + k + l <= MaxConcurrent + gone
    BY DEF LimiterInv, Counts
  <2>5. e <= MaxConcurrent + gone
    <3> HIDE DEF e, s, k, l
    <3> QED
      BY <2>2, <2>3, <2>4, LimitsAssumption
  <2> QED
    BY <2>5 DEF OvershootBounded
<1> QED
  BY <1>1, LimiterInvariant, PTL

\* Whenever the event loop is idle, a run waits only if max are running.
THEOREM NoSlotIsIdle == Spec => []NoIdleSlot
<1>1. LimiterInv => NoIdleSlot
  <2> SUFFICES ASSUME LimiterInv, micro = <<>>, waiting # <<>>
               PROVE  running >= MaxConcurrent
    BY DEF NoIdleSlot
  <2>1. Len(micro) = 0 /\ \A i \in 1 .. Len(micro) : FALSE
    OBVIOUS
  <2>2. \A w \in Workers : pc[w] # "woken"
    BY <2>1 DEF LimiterInv, MicrotasksOK
  <2>3. Cardinality(At(pc, {"woken"})) = 0
    <3>1. At(pc, {"woken"}) = {}
      BY <2>2 DEF At
    <3> QED
      BY <3>1, FS_EmptySet
  <2> QED
    BY <2>3 DEF LimiterInv, Counts, TypeOK
<1> QED
  BY <1>1, LimiterInvariant, PTL

\* A run whose record was there begins only when no other waits or was woken
\* before it.
THEOREM NobodyOvertakes == Spec => NoOvertaking
<1> DEFINE Fair == \A w \in Workers :
                      pc[w] = "call" /\ pc'[w] \in {"task", "settled"}
                         => \A v \in Workers : pc[v] \notin {"waiting", "woken"}
<1>1. LimiterInv /\ [Next]_vars => Fair
  <2> SUFFICES ASSUME LimiterInv, [Next]_vars, NEW w \in Workers,
                      pc[w] = "call", pc'[w] \in {"task", "settled"}
               PROVE  \A v \in Workers : pc[v] \notin {"waiting", "woken"}
    OBVIOUS
  <2>1. pc \in [Workers -> WorkerPc] /\ micro \in Seq(Workers) /\ waiting \in Seq(Workers)
    BY DEF LimiterInv, TypeOK
  <2>2. micro # <<>> /\ w = Head(micro) /\ Call(w)
    <3>1. ~ Replies /\ ~ UNCHANGED vars
      BY <2>1 DEF Replies, vars
    <3>2. \A v \in Workers : ~ TaskEnds(v) /\ ~ TaskHangs(v)
      BY <2>1 DEF TaskEnds, TaskHangs
    <3>3. Microtask
      BY <3>1, <3>2 DEF Next
    <3> DEFINE u == Head(micro)
    <3>4. micro # <<>> /\ u \in Workers /\ (Return(u) \/ Call(u) \/ Resume(u) \/ Settle(u))
      BY <2>1, <3>3, TailAt DEF Microtask
    <3> HIDE DEF u
    <3>5. CASE Return(u)
      <4>1. u # w
        BY <3>5 DEF Return
      <4> QED
        BY <2>1, <3>4, <3>5, <4>1 DEF Return
    <3>6. CASE Call(u)
      <4>1. u # w => pc'[w] = pc[w]
        BY <2>1, <3>4, <3>6 DEF Call, Begin
      <4> QED
        BY <3>4, <3>6, <4>1 DEF u
    <3>7. CASE Resume(u)
      <4>1. u # w
        BY <3>7 DEF Resume
      <4> QED
        BY <2>1, <3>4, <3>7, <4>1 DEF Resume, Begin
    <3>8. CASE Settle(u)
      <4>1. u # w
        BY <3>8 DEF Settle
      <4>2. pc'[w] \in {"call", "woken"}
        BY <2>1, <3>4, <3>8, <4>1 DEF Settle
      <4> QED
        BY <4>2
    <3> QED
      BY <3>4, <3>5, <3>6, <3>7, <3>8
  <2>3. running < MaxConcurrent
    BY <2>1, <2>2 DEF Call
  <2>4. At(pc, {"woken"}) = {} /\ Cardinality(At(pc, {"woken"})) = 0
    BY <2>1, <2>2, CallBeforeWoken, FS_EmptySet DEF LimiterInv
  <2>5. waiting = <<>>
    BY <2>3, <2>4, LimitsAssumption DEF LimiterInv, Counts, TypeOK
  <2>6. \A v \in Workers : pc[v] # "woken"
    BY <2>4 DEF At
  <2>7. \A v \in Workers : pc[v] # "waiting"
    <3>1. \A i \in 1 .. Len(waiting) : FALSE
      BY <2>5
    <3> QED
      BY <3>1 DEF LimiterInv, WaitersOK
  <2> QED
    BY <2>6, <2>7
<1>2. LimiterInv /\ [Next]_vars => [Fair]_vars
  BY <1>1
<1> QED
  BY <1>2, LimiterInvariant, PTL DEF Spec, NoOvertaking
=============================================================================
