-------------------------- MODULE RateLimiterProofs --------------------------
(***************************************************************************)
(* What the rate limiter guarantees for any number of requests and callers *)
(* and any limits.                                                         *)
(***************************************************************************)
EXTENDS RateLimiter, FiniteSetTheorems, TLAPS

\* The types the argument needs.
Typed ==
    /\ now \in Nat
    /\ count \in [Callers -> [Windows -> Nat]]
    /\ dies \in [Callers -> [Windows -> Nat]]
    /\ pc \in [Requests -> {"new", "incr", "expire", "failed", "passed", "refused"}]
    /\ caller \in [Requests -> Callers]
    /\ limit \in [Requests -> Limits]
    /\ since \in [Requests -> Times]
    /\ reply \in [Requests -> Nat]

\* The inductive invariant.
FadeInv == Typed /\ now \in Times /\ CountersFade

\* The window of a moment of the clock is a window.
LEMMA WindowTyped == \A t \in Times : WindowOf(t) \in Windows
  BY DEF Windows

\* The counter of a request is one of those Redis may hold.
LEMMA CounterTyped ==
    ASSUME NEW r \in Requests, Typed
    PROVE  LET c == caller[r]
               w == WindowOf(since[r])
           IN  c \in Callers /\ w \in Windows /\ count[c][w] + 1 \in Nat
<1>1. caller[r] \in Callers /\ since[r] \in Times
  BY DEF Typed
<1>2. WindowOf(since[r]) \in Windows
  BY <1>1, WindowTyped
<1>3. ASSUME NEW x \in Windows PROVE count[caller[r]][x] \in Nat
  BY <1>1 DEF Typed
<1>4. count[caller[r]][WindowOf(since[r])] \in Nat
  BY <1>2, <1>3
<1> QED BY <1>1, <1>2, <1>4

LEMMA FadeInit == Init => FadeInv
<1> SUFFICES ASSUME Init PROVE FadeInv
  OBVIOUS
<1>1. now \in Times /\ 0 \in Times
  BY ClockAssumption DEF Init, Times
<1>2. Typed
  BY <1>1 DEF Init, Typed
<1>3. CountersFade
  BY DEF Init, CountersFade
<1> QED BY <1>1, <1>2, <1>3 DEF FadeInv

LEMMA FadeArrive ==
    ASSUME NEW r \in Requests, FadeInv, Arrive(r) PROVE FadeInv'
<1>1. Typed' /\ (now \in Times)'
  BY DEF FadeInv, Typed, Arrive, fixed
<1>2. \A q \in Requests : pc'[q] = IF q = r THEN "incr" ELSE pc[q]
  BY DEF FadeInv, Typed, Arrive
<1>3. \A q \in Requests : q # r => since'[q] = since[q]
  BY DEF FadeInv, Typed, Arrive
<1>4. CountersFade'
  BY <1>2, <1>3 DEF FadeInv, CountersFade, Arrive, fixed, WindowOf, Windows, Times
<1> QED BY <1>1, <1>4 DEF FadeInv

\* The INCR that creates a counter makes its request the one that will give
\* it a time to live.
LEMMA FadeIncr ==
    ASSUME NEW r \in Requests, FadeInv, Incr(r) PROVE FadeInv'
<1> DEFINE c == caller[r]
           w == WindowOf(since[r])
           n == count[c][w] + 1
<1>1. c \in Callers /\ w \in Windows /\ n \in Nat
  BY CounterTyped DEF FadeInv
<1>2. /\ count' = [count EXCEPT ![c][w] = n]
      /\ reply' = [reply EXCEPT ![r] = n]
      /\ UNCHANGED <<now, dies, caller, limit, since>>
  BY DEF Incr, fixed
<1>3. /\ pc[r] = "incr"
      /\ \E s \in {"expire", "failed", "passed", "refused"} :
            pc' = [pc EXCEPT ![r] = s] /\ (n = 1 => s \in {"expire", "failed"})
  BY DEF Incr, Verdict
<1> HIDE DEF n
<1>4. Typed' /\ (now \in Times)'
  BY <1>1, <1>2, <1>3 DEF FadeInv, Typed
<1>5. /\ \A q \in Requests : q # r => pc'[q] = pc[q] /\ reply'[q] = reply[q]
      /\ reply'[r] = n
      /\ n = 1 => pc'[r] \in {"expire", "failed"}
  BY <1>2, <1>3 DEF FadeInv, Typed
<1>6. \A d \in Callers, x \in Windows :
         count'[d][x] = IF d = c /\ x = w THEN n ELSE count[d][x]
  BY <1>1, <1>2 DEF FadeInv, Typed
<1>7. ASSUME NEW d \in Callers, NEW x \in Windows, count'[d][x] > 0, dies'[d][x] = 0
      PROVE  \E q \in Requests :
                /\ caller'[q] = d /\ WindowOf(since'[q]) = x /\ reply'[q] = 1
                /\ pc'[q] \in {"expire", "failed"}
  <2>1. CASE d = c /\ x = w /\ n = 1
    BY <2>1, <1>2, <1>5
  <2>2. CASE ~(d = c /\ x = w /\ n = 1)
    <3>1. count[d][x] > 0
      <4>1. CASE d = c /\ x = w
        <5>1. count[c][w] \in Nat /\ n # 1
          BY <1>1, <2>2, <4>1 DEF FadeInv, Typed
        <5> QED BY <5>1, <4>1 DEF n
      <4>2. CASE ~(d = c /\ x = w)
        BY <1>6, <1>7, <4>2
      <4> QED BY <4>1, <4>2
    <3>2. PICK q \in Requests :
             /\ caller[q] = d /\ WindowOf(since[q]) = x /\ reply[q] = 1
             /\ pc[q] \in {"expire", "failed"}
      BY <3>1, <1>2, <1>7 DEF FadeInv, CountersFade
    <3>3. q # r
      BY <3>2, <1>3
    <3> QED BY <3>2, <3>3, <1>2, <1>5
  <2> QED BY <2>1, <2>2
<1>8. CountersFade'
  BY <1>2, <1>7 DEF CountersFade, WindowOf, Windows, Times
<1> QED BY <1>4, <1>8 DEF FadeInv

LEMMA FadeExpire ==
    ASSUME NEW r \in Requests, FadeInv, Expire(r) PROVE FadeInv'
<1> DEFINE c == caller[r]
           w == WindowOf(since[r])
           e == IF count[c][w] = 0 THEN 0 ELSE now + 2 * Window
<1>1. c \in Callers /\ w \in Windows /\ e \in Nat
  <2>1. c \in Callers /\ w \in Windows
    BY CounterTyped DEF FadeInv
  <2>2. now + 2 * Window \in Nat
    BY ClockAssumption DEF FadeInv, Typed
  <2> QED BY <2>1, <2>2
<1>2. /\ dies' = [dies EXCEPT ![c][w] = e]
      /\ UNCHANGED <<now, count, caller, limit, since, reply>>
      /\ \E s \in {"passed", "refused"} : pc' = [pc EXCEPT ![r] = s]
  BY DEF Expire, fixed, Verdict
<1>3. e = 0 => count[c][w] = 0
  BY ClockAssumption DEF FadeInv, Typed
<1> HIDE DEF e
<1>4. Typed' /\ (now \in Times)'
  BY <1>1, <1>2 DEF FadeInv, Typed
<1>5. /\ \A q \in Requests : q # r => pc'[q] = pc[q]
      /\ \A d \in Callers, x \in Windows :
            dies'[d][x] = IF d = c /\ x = w THEN e ELSE dies[d][x]
  BY <1>1, <1>2 DEF FadeInv, Typed
<1>6. ASSUME NEW d \in Callers, NEW x \in Windows, count'[d][x] > 0, dies'[d][x] = 0
      PROVE  \E q \in Requests :
                /\ caller'[q] = d /\ WindowOf(since'[q]) = x /\ reply'[q] = 1
                /\ pc'[q] \in {"expire", "failed"}
  <2>1. ~(d = c /\ x = w) /\ dies[d][x] = 0 /\ count[d][x] > 0
    BY <1>2, <1>3, <1>5, <1>6
  <2>2. PICK q \in Requests :
           /\ caller[q] = d /\ WindowOf(since[q]) = x /\ reply[q] = 1
           /\ pc[q] \in {"expire", "failed"}
    BY <2>1 DEF FadeInv, CountersFade
  <2>3. q # r
    BY <2>1, <2>2
  <2> QED BY <2>2, <2>3, <1>2, <1>5
<1>7. CountersFade'
  BY <1>2, <1>6 DEF CountersFade, WindowOf, Windows, Times
<1> QED BY <1>4, <1>7 DEF FadeInv

LEMMA FadeStop ==
    ASSUME NEW r \in Requests, FadeInv, Stop(r) PROVE FadeInv'
<1>1. Typed' /\ (now \in Times)'
  BY DEF FadeInv, Typed, Stop, fixed
<1>2. \A q \in Requests : pc'[q] = IF q = r THEN "failed" ELSE pc[q]
  BY DEF FadeInv, Typed, Stop
<1>3. CountersFade'
  BY <1>2 DEF FadeInv, CountersFade, Stop, fixed, WindowOf, Windows, Times
<1> QED BY <1>1, <1>3 DEF FadeInv

\* A counter loses its time to live only by expiring.
LEMMA FadeTick == ASSUME FadeInv, Tick PROVE FadeInv'
<1>1. now \in Nat /\ now' = now + 1 /\ now' \in Nat /\ now' # 0
  BY DEF FadeInv, Typed, Tick
<1>2. now' \in Times
  BY ClockAssumption DEF FadeInv, Tick, Times
<1>3. Typed'
  BY <1>1 DEF FadeInv, Typed, Tick, fixed, Windows, WindowOf, Times
<1>4. \A d \in Callers, x \in Windows :
         /\ count'[d][x] = IF dies[d][x] = now' THEN 0 ELSE count[d][x]
         /\ dies'[d][x] = IF dies[d][x] = now' THEN 0 ELSE dies[d][x]
  BY DEF Tick
<1>5. \A d \in Callers, x \in Windows :
         count'[d][x] > 0 /\ dies'[d][x] = 0 => count[d][x] > 0 /\ dies[d][x] = 0
  BY <1>4
<1>6. UNCHANGED <<caller, since, reply, pc>>
  BY DEF Tick, fixed
<1>7. CountersFade'
  BY <1>5, <1>6 DEF FadeInv, CountersFade, WindowOf, Windows, Times
<1> QED BY <1>2, <1>3, <1>7 DEF FadeInv

LEMMA FadeStep == FadeInv /\ [Next]_vars => FadeInv'
<1> SUFFICES ASSUME FadeInv, [Next]_vars PROVE FadeInv'
  OBVIOUS
<1>1. ASSUME NEW r \in Requests, Arrive(r) PROVE FadeInv'
  BY <1>1, FadeArrive
<1>2. ASSUME NEW r \in Requests, Incr(r) PROVE FadeInv'
  BY <1>2, FadeIncr
<1>3. ASSUME NEW r \in Requests, Expire(r) PROVE FadeInv'
  BY <1>3, FadeExpire
<1>4. ASSUME NEW r \in Requests, Stop(r) PROVE FadeInv'
  BY <1>4, FadeStop
<1>5. CASE Tick
  BY <1>5, FadeTick
<1>6. CASE UNCHANGED vars
  BY <1>6 DEF FadeInv, Typed, CountersFade, vars, fixed, Windows, WindowOf, Times
<1> QED BY <1>1, <1>2, <1>3, <1>4, <1>5, <1>6 DEF Next

\* A counter in Redis has a time to live, or the request that created it is
\* about to set one or was stopped between INCR and EXPIRE: no interleaving
\* of requests, late commands or expiring keys leaves one behind for ever.
THEOREM CountersAreFading == Spec => []CountersFade
<1>1. FadeInv => CountersFade
  BY DEF FadeInv
<1> QED BY <1>1, FadeInit, FadeStep, PTL DEF Spec

-----------------------------------------------------------------------------
(* The limit *)

LEMMA Division ==
    ASSUME NEW t \in Nat, NEW w \in Nat \ {0}
    PROVE  t \div w \in Nat /\ (t \div w) * w <= t /\ t < (t \div w) * w + w
  OBVIOUS

\* Moments of one window are less than a window apart.
LEMMA SameWindow ==
    ASSUME NEW s \in Times, NEW t \in Times, WindowOf(s) = WindowOf(t)
    PROVE  s < t + Window
<1>1. s \in Nat /\ t \in Nat /\ Window \in Nat \ {0}
  BY ClockAssumption DEF Times
<1> QED BY <1>1, Division DEF WindowOf

\* A stretch of time as long as a window touches two of them.
LEMMA NextWindow ==
    ASSUME NEW a \in Nat, NEW b \in Nat, NEW w \in Nat \ {0}, NEW s \in Nat, NEW t \in Nat,
           a * w <= s, s < a * w + w, b * w <= t, t < b * w + w, t <= s, s < t + w
    PROVE  a = b \/ a = b + 1
<1>1. ASSUME a < b PROVE FALSE
  <2>1. (a + 1) * w <= b * w
    BY <1>1
  <2> QED BY <2>1
<1>2. ASSUME a > b + 1 PROVE FALSE
  <2>1. (b + 2) * w <= a * w
    BY <1>2
  <2> QED BY <2>1
<1> QED BY <1>1, <1>2

LEMMA TwoWindows ==
    ASSUME NEW t \in Times, NEW s \in Times, s \in t .. (t + Window - 1)
    PROVE  WindowOf(s) = WindowOf(t) \/ WindowOf(s) = WindowOf(t) + 1
<1>1. s \in Nat /\ t \in Nat /\ Window \in Nat \ {0} /\ t <= s /\ s < t + Window
  BY ClockAssumption DEF Times
<1> QED BY <1>1, Division, NextWindow DEF WindowOf

Begun == { r \in Requests : pc[r] # "new" }

\* r was counted in window w of caller c.
Counted(r, c, w) == caller[r] = c /\ WindowOf(since[r]) = w /\ reply[r] > 0

\* No request of the window w can be in time any more.
Past(w) == \A t \in Times : WindowOf(t) = w => now > t + Window

\* What the answer of a request says of the reply it got.
Answered(r) ==
    /\ since[r] <= now
    /\ pc[r] \in {"new", "incr"} => reply[r] = 0
    /\ pc[r] = "expire" => reply[r] > 0
    /\ pc[r] = "passed" => reply[r] \in 1 .. limit[r]
    /\ pc[r] = "refused" => reply[r] > limit[r]

\* A counter outlives the requests that are in time for it.
OutliveInv ==
    \A c \in Callers, w \in Windows, t \in Times :
        WindowOf(t) = w /\ dies[c][w] # 0 => dies[c][w] > t + Window

\* Requests that were in time got different replies, which the counter is
\* not below before its window is past.
DistinctInv ==
    \A r \in Requests, c \in Callers, w \in Windows :
        Counted(r, c, w) /\ r \notin late =>
            /\ reply[r] <= count[c][w] \/ Past(w)
            /\ \A q \in Requests \ {r} :
                  Counted(q, c, w) /\ q \notin late => reply[q] # reply[r]

\* Every number up to a counter, or below a reply, was the reply to a request.
CoveredInv ==
    \A c \in Callers, w \in Windows :
        /\ \A k \in 1 .. count[c][w] : \E q \in Requests : Counted(q, c, w) /\ reply[q] = k
        /\ \A r \in Requests : Counted(r, c, w) =>
              \A k \in 1 .. (reply[r] - 1) : \E q \in Requests : Counted(q, c, w) /\ reply[q] = k

LimitInv ==
    /\ FadeInv
    /\ IsFiniteSet(Begun)
    /\ \A r \in Requests : Answered(r)
    /\ OutliveInv /\ DistinctInv /\ CoveredInv

LEMMA LimitInit == Init => LimitInv
<1> SUFFICES ASSUME Init PROVE LimitInv
  OBVIOUS
<1>1. Begun = {} /\ IsFiniteSet(Begun)
  BY FS_EmptySet DEF Init, Begun
<1>2. \A r \in Requests : Answered(r) /\ reply[r] = 0
  BY DEF Init, Answered
<1>3. OutliveInv /\ DistinctInv /\ CoveredInv
  BY <1>2 DEF Init, OutliveInv, DistinctInv, CoveredInv, Counted
<1> QED BY <1>1, <1>2, <1>3, FadeInit DEF LimitInv

\* Steps that count nothing and let no time pass.
LEMMA CountsStay ==
    ASSUME LimitInv, UNCHANGED <<now, count, dies, caller, reply, late>>,
           \A q \in Requests : reply[q] > 0 => since'[q] = since[q]
    PROVE  OutliveInv' /\ DistinctInv' /\ CoveredInv'
<1>1. \A c, w : \A q \in Requests : Counted(q, c, w)' <=> Counted(q, c, w)
  BY DEF Counted, WindowOf
<1>2. \A w : Past(w)' <=> Past(w)
  BY DEF Past, Times, WindowOf
<1>3. OutliveInv'
  BY DEF LimitInv, OutliveInv, Windows, WindowOf, Times
<1>4. DistinctInv'
  BY <1>1, <1>2 DEF LimitInv, DistinctInv, Windows, WindowOf, Times
<1>5. CoveredInv'
  BY <1>1 DEF LimitInv, CoveredInv, Windows, WindowOf, Times
<1> QED BY <1>3, <1>4, <1>5

LEMMA LimitArrive ==
    ASSUME NEW r \in Requests, LimitInv, Arrive(r) PROVE LimitInv'
<1>a. /\ Typed /\ pc[r] = "new" /\ pc' = [pc EXCEPT ![r] = "incr"]
      /\ since' = [since EXCEPT ![r] = now] /\ Answered(r) /\ now \in Nat
      /\ UNCHANGED <<now, count, dies, caller, limit, reply, late>>
  BY DEF Arrive, LimitInv, FadeInv, Typed, fixed
<1>1. Begun' = Begun \cup {r}
  BY <1>a DEF Begun, Typed
<1>2. IsFiniteSet(Begun')
  BY <1>1, FS_AddElement DEF LimitInv
<1>3. \A q \in Requests : Answered(q)'
  BY <1>a DEF LimitInv, Answered, Typed
<1>4. OutliveInv' /\ DistinctInv' /\ CoveredInv'
  BY <1>a, CountsStay DEF Answered, Typed
<1> QED BY <1>2, <1>3, <1>4, FadeArrive DEF LimitInv

LEMMA LimitStop ==
    ASSUME NEW r \in Requests, LimitInv, Stop(r) PROVE LimitInv'
<1>a. /\ Typed /\ pc[r] # "new" /\ pc' = [pc EXCEPT ![r] = "failed"]
      /\ UNCHANGED <<now, count, dies, caller, limit, since, reply, late>>
  BY DEF Stop, LimitInv, FadeInv, Typed, fixed
<1>1. Begun' = Begun
  BY <1>a DEF Begun, Typed
<1>2. \A q \in Requests : Answered(q)'
  BY <1>a DEF LimitInv, Answered, Typed
<1>3. OutliveInv' /\ DistinctInv' /\ CoveredInv'
  BY <1>a, CountsStay
<1> QED BY <1>1, <1>2, <1>3, FadeStop DEF LimitInv

LEMMA LimitIncr ==
    ASSUME NEW r \in Requests, LimitInv, Incr(r) PROVE LimitInv'
<1> DEFINE c == caller[r]
           w == WindowOf(since[r])
           n == count[c][w] + 1
<1>a. /\ Typed /\ c \in Callers /\ w \in Windows /\ n \in Nat /\ count[c][w] \in Nat
      /\ since[r] \in Times /\ n > 0
  <2>1. Typed /\ c \in Callers /\ w \in Windows /\ since[r] \in Times
    BY CounterTyped DEF LimitInv, FadeInv, Typed
  <2>2. \A x \in Windows : count[c][x] \in Nat
    BY <2>1 DEF Typed
  <2>3. count[c][w] \in Nat
    BY <2>1, <2>2
  <2> QED BY <2>1, <2>3
<1>b. /\ pc[r] = "incr" /\ reply[r] = 0
      /\ count' = [count EXCEPT ![c][w] = n]
      /\ reply' = [reply EXCEPT ![r] = n]
      /\ late' = IF now > since[r] + Window THEN late \cup {r} ELSE late
      /\ UNCHANGED <<now, dies, caller, limit, since>>
  BY DEF Incr, fixed, LimitInv, Answered
<1>c. \E s \in {"expire", "failed", "passed", "refused"} :
         /\ pc' = [pc EXCEPT ![r] = s]
         /\ s = "passed" => n <= limit[r]
         /\ s = "refused" => n > limit[r]
  <2>1. limit[r] \in Nat \ {0}
    BY <1>a, LimitsAssumption DEF Typed
  <2> QED BY <1>a, <2>1 DEF Incr, Verdict
<1>d. n = count[c][w] + 1
  OBVIOUS
<1> HIDE DEF n
<1>e. /\ \A d \in Callers, x \in Windows :
            count'[d][x] = IF d = c /\ x = w THEN n ELSE count[d][x]
      /\ \A q \in Requests : reply'[q] = IF q = r THEN n ELSE reply[q]
      /\ \A q \in Requests : q # r => pc'[q] = pc[q] /\ (q \in late' <=> q \in late)
      /\ limit[r] \in Nat
  BY <1>a, <1>b, <1>c, LimitsAssumption DEF Typed
<1>1. Begun' = Begun
  BY <1>a, <1>b, <1>c DEF Begun, Typed
<1>2. \A q \in Requests : Answered(q)'
  <2>1. Answered(r)'
    BY <1>a, <1>b, <1>c, <1>e DEF LimitInv, Answered, Typed
  <2>2. \A q \in Requests : q # r => Answered(q)'
    BY <1>b, <1>e DEF LimitInv, Answered
  <2> QED BY <2>1, <2>2
<1>f. /\ \A d, x : \A q \in Requests : q # r => (Counted(q, d, x)' <=> Counted(q, d, x))
      /\ \A d, x : Counted(r, d, x)' <=> d = c /\ x = w
      /\ \A d, x : ~Counted(r, d, x)
      /\ \A x : Past(x)' <=> Past(x)
  BY <1>a, <1>b, <1>e DEF Counted, WindowOf, Past, Times
<1>3. OutliveInv'
  BY <1>b DEF LimitInv, OutliveInv, Windows, WindowOf, Times
<1>g. Windows' = Windows
  BY DEF Windows, Times, WindowOf
<1>4. DistinctInv'
  <2>1. ASSUME NEW q \in Requests, NEW d \in Callers, NEW x \in Windows, q # r,
               Counted(q, d, x), q \notin late
        PROVE  reply[q] <= count'[d][x] \/ Past(x)'
    <3>1. reply[q] <= count[d][x] \/ Past(x)
      BY <2>1 DEF LimitInv, DistinctInv
    <3>2. reply[q] \in Nat
      BY <1>a DEF Typed
    <3>3. CASE d = c /\ x = w
      BY <1>a, <1>d, <1>e, <1>f, <3>1, <3>2, <3>3
    <3>4. CASE ~(d = c /\ x = w)
      BY <1>e, <1>f, <3>1, <3>4
    <3> QED BY <3>3, <3>4
  <2>2. ASSUME r \notin late', NEW q \in Requests, q # r, Counted(q, c, w), q \notin late
        PROVE  reply[q] # n
    <3>1. ~Past(w)
      BY <1>a, <1>b, <2>2, ClockAssumption DEF Past, Typed, Times
    <3>2. reply[q] <= count[c][w] /\ reply[q] \in Nat
      BY <1>a, <2>2, <3>1 DEF LimitInv, DistinctInv, Typed
    <3> QED BY <1>a, <1>d, <3>2
  <2>3. ASSUME NEW q \in Requests, NEW d \in Callers, NEW x \in Windows,
               Counted(q, d, x)', q \notin late'
        PROVE  /\ reply'[q] <= count'[d][x] \/ Past(x)'
               /\ \A s \in Requests \ {q} :
                     Counted(s, d, x)' /\ s \notin late' => reply'[s] # reply'[q]
    <3>1. CASE q = r
      BY <1>a, <1>e, <1>f, <2>2, <2>3, <3>1
    <3>2. CASE q # r
      <4>1. Counted(q, d, x) /\ q \notin late /\ reply'[q] = reply[q]
        BY <1>e, <1>f, <2>3, <3>2
      <4>2. \A s \in Requests \ {q} :
                Counted(s, d, x) /\ s \notin late => reply[s] # reply[q]
        BY <4>1 DEF LimitInv, DistinctInv
      <4> QED BY <1>e, <1>f, <2>1, <2>2, <3>2, <4>1, <4>2
    <3> QED BY <3>1, <3>2
  <2> QED BY <1>b, <1>g, <2>3 DEF DistinctInv
<1>5. CoveredInv'
  <2>1. ASSUME NEW d \in Callers, NEW x \in Windows, NEW k,
               \E q \in Requests : Counted(q, d, x) /\ reply[q] = k
        PROVE  \E q \in Requests : Counted(q, d, x)' /\ reply'[q] = k
    BY <1>e, <1>f, <2>1
  <2>2. ASSUME NEW d \in Callers, NEW x \in Windows, NEW k \in 1 .. count'[d][x]
        PROVE  \E q \in Requests : Counted(q, d, x)' /\ reply'[q] = k
    <3>1. CASE d = c /\ x = w /\ k = n
      BY <1>e, <1>f, <3>1
    <3>2. CASE ~(d = c /\ x = w /\ k = n)
      <4>1. k \in 1 .. count[d][x]
        BY <1>a, <1>d, <1>e, <2>2, <3>2
      <4> QED BY <2>1, <4>1 DEF LimitInv, CoveredInv
    <3> QED BY <3>1, <3>2
  <2>3. ASSUME NEW d \in Callers, NEW x \in Windows, NEW q \in Requests, Counted(q, d, x)',
               NEW k \in 1 .. (reply'[q] - 1)
        PROVE  \E s \in Requests : Counted(s, d, x)' /\ reply'[s] = k
    <3>1. CASE q = r
      <4>1. d = c /\ x = w /\ k \in 1 .. count[c][w]
        BY <1>a, <1>d, <1>e, <1>f, <2>3, <3>1
      <4> QED BY <2>1, <4>1 DEF LimitInv, CoveredInv
    <3>2. CASE q # r
      <4>1. Counted(q, d, x) /\ k \in 1 .. (reply[q] - 1)
        BY <1>e, <1>f, <2>3, <3>2
      <4> QED BY <2>1, <4>1 DEF LimitInv, CoveredInv
    <3> QED BY <3>1, <3>2
  <2> QED BY <1>b, <1>g, <2>2, <2>3 DEF CoveredInv
<1> QED BY <1>1, <1>2, <1>3, <1>4, <1>5, FadeIncr DEF LimitInv

LEMMA LimitExpire ==
    ASSUME NEW r \in Requests, LimitInv, Expire(r) PROVE LimitInv'
<1> DEFINE c == caller[r]
           w == WindowOf(since[r])
           e == IF count[c][w] = 0 THEN 0 ELSE now + 2 * Window
<1>a. /\ Typed /\ c \in Callers /\ w \in Windows /\ since[r] \in Times /\ Answered(r)
      /\ reply[r] \in Nat
  BY CounterTyped DEF LimitInv, FadeInv, Typed
<1>b. /\ pc[r] = "expire" /\ dies' = [dies EXCEPT ![c][w] = e]
      /\ UNCHANGED <<now, count, caller, limit, since, reply, late>>
      /\ \E s \in {"passed", "refused"} :
            /\ pc' = [pc EXCEPT ![r] = s]
            /\ s = "passed" => ~(reply[r] > limit[r])
            /\ s = "refused" => reply[r] > limit[r]
  BY DEF Expire, fixed, Verdict
<1>1. Begun' = Begun
  BY <1>a, <1>b DEF Begun, Typed
<1>2. \A q \in Requests : Answered(q)'
  <2>1. limit[r] \in Nat
    BY <1>a, LimitsAssumption DEF Typed
  <2>2. Answered(r)'
    BY <1>a, <1>b, <2>1 DEF Answered, Typed
  <2>3. \A q \in Requests : q # r => Answered(q)'
    BY <1>a, <1>b DEF LimitInv, Answered, Typed
  <2> QED BY <2>2, <2>3
<1>3. OutliveInv'
  <2>1. ASSUME NEW t \in Times, WindowOf(t) = w, e # 0 PROVE e > t + Window
    <3>1. t < since[r] + Window
      BY <1>a, <2>1, SameWindow
    <3>2. since[r] <= now /\ now \in Nat /\ Window \in Nat /\ t \in Nat /\ since[r] \in Nat
      BY <1>a, ClockAssumption DEF Answered, Typed, Times
    <3> QED BY <2>1, <3>1, <3>2
  <2> HIDE DEF e
  <2>2. \A d \in Callers, x \in Windows :
           dies'[d][x] = IF d = c /\ x = w THEN e ELSE dies[d][x]
    BY <1>a, <1>b DEF Typed
  <2> QED BY <2>1, <2>2 DEF LimitInv, OutliveInv, Windows, WindowOf, Times
<1>4. DistinctInv' /\ CoveredInv'
  <2>1. \A d, x : \A q \in Requests : Counted(q, d, x)' <=> Counted(q, d, x)
    BY <1>b DEF Counted, WindowOf
  <2>2. \A x : Past(x)' <=> Past(x)
    BY <1>b DEF Past, Times, WindowOf
  <2>3. Windows' = Windows
    BY DEF Windows, Times, WindowOf
  <2>4. DistinctInv'
    BY <1>b, <2>1, <2>2, <2>3 DEF LimitInv, DistinctInv
  <2>5. CoveredInv'
    BY <1>b, <2>1, <2>3 DEF LimitInv, CoveredInv
  <2> QED BY <2>4, <2>5
<1> QED BY <1>1, <1>2, <1>3, <1>4, FadeExpire DEF LimitInv

LEMMA LimitTick == ASSUME LimitInv, Tick PROVE LimitInv'
<1>a. /\ Typed /\ now \in Nat /\ now' = now + 1 /\ Window \in Nat
      /\ UNCHANGED <<pc, caller, limit, since, reply, late>>
  BY ClockAssumption DEF Tick, fixed, LimitInv, FadeInv, Typed
<1>b. \A d \in Callers, x \in Windows :
         /\ count'[d][x] = IF dies[d][x] = now' THEN 0 ELSE count[d][x]
         /\ dies'[d][x] = IF dies[d][x] = now' THEN 0 ELSE dies[d][x]
  BY DEF Tick
<1>1. Begun' = Begun
  BY <1>a DEF Begun
<1>2. \A q \in Requests : Answered(q)'
  BY <1>a DEF LimitInv, Answered, Typed, Times
<1>c. /\ \A d, x : \A q \in Requests : Counted(q, d, x)' <=> Counted(q, d, x)
      /\ Windows' = Windows
  BY <1>a DEF Counted, WindowOf, Windows, Times
<1>3. OutliveInv'
  BY <1>b DEF LimitInv, OutliveInv, Windows, WindowOf, Times
<1>d. ASSUME NEW x, Past(x) PROVE Past(x)'
  BY <1>a, <1>d DEF Past, WindowOf, Times
<1>e. ASSUME NEW d \in Callers, NEW x \in Windows, dies[d][x] = now' PROVE Past(x)'
  BY <1>a, <1>e DEF LimitInv, OutliveInv, Past, WindowOf, Times
<1>4. DistinctInv'
  <2>1. ASSUME NEW q \in Requests, NEW d \in Callers, NEW x \in Windows, Counted(q, d, x),
               q \notin late
        PROVE  reply[q] <= count'[d][x] \/ Past(x)'
    <3>1. reply[q] <= count[d][x] \/ Past(x)
      BY <2>1 DEF LimitInv, DistinctInv
    <3> QED BY <1>b, <1>d, <1>e, <3>1
  <2>2. ASSUME NEW q \in Requests, NEW d \in Callers, NEW x \in Windows, Counted(q, d, x),
               q \notin late, NEW s \in Requests \ {q}, Counted(s, d, x), s \notin late
        PROVE  reply[s] # reply[q]
    BY <2>2 DEF LimitInv, DistinctInv
  <2> QED BY <1>a, <1>c, <2>1, <2>2 DEF DistinctInv
<1>5. CoveredInv'
  <2>1. ASSUME NEW d \in Callers, NEW x \in Windows, NEW k \in 1 .. count'[d][x]
        PROVE  k \in 1 .. count[d][x]
    BY <1>b, <2>1
  <2> QED BY <1>a, <1>c, <2>1 DEF LimitInv, CoveredInv
<1> QED BY <1>1, <1>2, <1>3, <1>4, <1>5, FadeTick DEF LimitInv

LEMMA LimitStep == LimitInv /\ [Next]_vars => LimitInv'
<1> SUFFICES ASSUME LimitInv, [Next]_vars PROVE LimitInv'
  OBVIOUS
<1>1. CASE UNCHANGED vars
  <2>1. FadeInv'
    BY <1>1, FadeStep DEF LimitInv
  <2>2. OutliveInv' /\ DistinctInv' /\ CoveredInv'
    BY <1>1, CountsStay DEF vars, fixed
  <2>3. Begun' = Begun /\ \A r \in Requests : Answered(r)'
    BY <1>1 DEF vars, fixed, Begun, Answered, LimitInv
  <2> QED BY <2>1, <2>2, <2>3 DEF LimitInv
<1> QED BY <1>1, LimitArrive, LimitIncr, LimitExpire, LimitStop, LimitTick DEF Next

\* Requests of one window and caller that passed in time are as many as the
\* largest of their limits at most.
LEMMA OfOneWindow ==
    ASSUME LimitInv, NEW c \in Callers, NEW w, NEW l \in Nat,
           NEW S \in SUBSET Passed(c),
           \A r \in S : WindowOf(since[r]) = w /\ limit[r] <= l
    PROVE  IsFiniteSet(S) /\ Cardinality(S) <= l
<1> DEFINE f == [r \in S |-> reply[r]]
<1>1. \A r \in S : r \in Requests /\ reply[r] \in 1 .. l /\ Counted(r, c, w) /\ r \notin late
                   /\ w \in Windows
  <2>1. ASSUME NEW r \in S
        PROVE  r \in Requests /\ reply[r] \in 1 .. l /\ Counted(r, c, w) /\ r \notin late
               /\ w \in Windows
    <3>1. r \in Requests /\ pc[r] = "passed" /\ caller[r] = c /\ r \notin late
      BY DEF Passed
    <3>2. reply[r] \in 1 .. limit[r] /\ limit[r] \in Nat /\ limit[r] <= l /\ reply[r] \in Nat
          /\ since[r] \in Times
      BY <3>1, LimitsAssumption DEF LimitInv, Answered, FadeInv, Typed
    <3> QED BY <3>1, <3>2, WindowTyped DEF Counted
  <2> QED BY <2>1
<1>2. \A r, q \in S : r # q => reply[r] # reply[q]
  BY <1>1 DEF LimitInv, DistinctInv
<1>3. f \in Injection(S, 1 .. l)
  BY <1>1, <1>2 DEF Injection, IsInjective
<1>4. IsFiniteSet(1 .. l) /\ Cardinality(1 .. l) = l
  BY FS_Interval
<1> QED BY <1>3, <1>4, FS_Injection

LEMMA TwiceAtMost == LimitInv => AtMostTwice
<1> SUFFICES ASSUME LimitInv, NEW c \in Callers, NEW t \in Times, NEW l \in Limits
             PROVE  Cardinality({ r \in Passed(c) :
                        limit[r] <= l /\ since[r] \in t .. (t + Window - 1) }) <= 2 * l
  BY DEF AtMostTwice
<1> DEFINE S == { r \in Passed(c) : limit[r] <= l /\ since[r] \in t .. (t + Window - 1) }
           A == { r \in S : WindowOf(since[r]) = WindowOf(t) }
           B == { r \in S : WindowOf(since[r]) = WindowOf(t) + 1 }
<1>1. l \in Nat
  BY LimitsAssumption
<1>2. \A r \in S : since[r] \in Times
  BY DEF LimitInv, FadeInv, Typed, Passed
<1>3. S = A \cup B
  BY <1>2, TwoWindows
<1>4. IsFiniteSet(A) /\ Cardinality(A) <= l
  BY <1>1, OfOneWindow
<1>5. IsFiniteSet(B) /\ Cardinality(B) <= l
  BY <1>1, OfOneWindow
<1> HIDE DEF A, B
<1>6. Cardinality(A) \in Nat /\ Cardinality(B) \in Nat
  BY <1>4, <1>5, FS_CardinalityType
<1>7. Cardinality(A \cap B) \in Nat
  BY <1>4, FS_Intersection, FS_CardinalityType
<1>8. Cardinality(A \cup B) = Cardinality(A) + Cardinality(B) - Cardinality(A \cap B)
  BY <1>4, <1>5, FS_Union
<1>9. Cardinality(A \cup B) <= 2 * l
  BY <1>1, <1>4, <1>5, <1>6, <1>7, <1>8
<1> QED BY <1>3, <1>9

LEMMA DueRefusals == LimitInv => RefusalsAreDue
<1> SUFFICES ASSUME LimitInv, NEW r \in Requests, pc[r] = "refused"
             PROVE  Cardinality({ q \in Requests \ {r} :
                        /\ caller[q] = caller[r] /\ WindowOf(since[q]) = WindowOf(since[r])
                        /\ reply[q] \in 1 .. (reply[r] - 1) }) >= limit[r]
  BY DEF RefusalsAreDue
<1> DEFINE c == caller[r]
           w == WindowOf(since[r])
           S == { q \in Requests \ {r} :
                    /\ caller[q] = caller[r] /\ WindowOf(since[q]) = WindowOf(since[r])
                    /\ reply[q] \in 1 .. (reply[r] - 1) }
           f == [k \in 1 .. limit[r] |-> CHOOSE q \in S : reply[q] = k]
<1>1. /\ limit[r] \in Nat /\ reply[r] \in Nat /\ reply[r] > limit[r] /\ c \in Callers
      /\ w \in Windows /\ reply[r] > 0
  <2>1. c \in Callers /\ w \in Windows
    BY CounterTyped DEF LimitInv, FadeInv
  <2>2. limit[r] \in Nat /\ reply[r] \in Nat /\ reply[r] > limit[r]
    BY LimitsAssumption DEF LimitInv, Answered, FadeInv, Typed
  <2> QED BY <2>1, <2>2
<1>2. ASSUME NEW k \in 1 .. limit[r] PROVE \E q \in S : reply[q] = k
  <2>1. k \in 1 .. (reply[r] - 1) /\ k # reply[r]
    BY <1>1
  <2>2. Counted(r, c, w)
    BY <1>1 DEF Counted
  <2>3. PICK q \in Requests : Counted(q, c, w) /\ reply[q] = k
    BY <1>1, <2>1, <2>2 DEF LimitInv, CoveredInv
  <2> QED BY <2>1, <2>3 DEF Counted
<1>3. S \subseteq Begun
  BY DEF LimitInv, Answered, Begun
<1>4. IsFiniteSet(S)
  BY <1>3, FS_Subset DEF LimitInv
<1> HIDE DEF S
<1>5. \A k \in 1 .. limit[r] : f[k] \in S /\ reply[f[k]] = k
  BY <1>2
<1>6. f \in Injection(1 .. limit[r], S)
  BY <1>5 DEF Injection, IsInjective
<1>7. Cardinality(1 .. limit[r]) = limit[r]
  BY <1>1, FS_Interval
<1>8. Cardinality(1 .. limit[r]) <= Cardinality(S)
  BY <1>4, <1>6, FS_Injection
<1>9. Cardinality(S) \in Nat
  BY <1>4, FS_CardinalityType
<1>10. Cardinality(S) >= limit[r]
  BY <1>1, <1>7, <1>8, <1>9
<1> QED BY <1>10 DEF S

(***************************************************************************)
(* rateLimiter.ts:9: at most twice the limit of a caller passes in any     *)
(* stretch of time as long as a window, and what is refused comes after as *)
(* many as the limit in its window, however commands are delayed, fail or  *)
(* interleave and keys expire.                                             *)
(***************************************************************************)
THEOREM LimitsAreKept == Spec => []LimitIsKept
<1>1. LimitInv => LimitIsKept
  BY TwiceAtMost, DueRefusals DEF LimitIsKept
<1> QED BY <1>1, LimitInit, LimitStep, PTL DEF Spec
=============================================================================
