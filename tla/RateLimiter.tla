----------------------------- MODULE RateLimiter -----------------------------
(***************************************************************************)
(* src/src/middleware/rateLimiter.ts: counters in Redis, one per caller    *)
(* (a user or an IP address) and window of the clock, incremented by each  *)
(* request and given a time to live by the first.  The clock goes in steps *)
(* of which a window has `Window`.  A request finds its window and, for    *)
(* users, its limit before the INCR, whose effect may come any time later: *)
(* commands issued while Redis is away wait in the client.                 *)
(***************************************************************************)
EXTENDS Naturals, FiniteSets

CONSTANTS
    Requests,
    Callers,     \* users (rateLimitByUser) or addresses (rateLimitByIp)
    Limits,      \* req.user.rateLimit, which may change; or that of the route
    Window,      \* steps of the clock in a window (a minute)
    MaxTime,     \* bound: steps of the clock
    MaxFaults    \* bound: requests that stop at a command

ASSUME LimitsAssumption == Limits \subseteq Nat \ {0} /\ Limits # {}
ASSUME ClockAssumption == Window \in Nat \ {0} /\ MaxTime \in Nat /\ MaxFaults \in Nat

VARIABLES
    now,         \* Date.now()
    count,       \* keys ratelimit:<caller>:<window>; 0: no such key
    dies,        \* when each expires; 0: never
    pc, caller, limit,
    since,       \* the `now` of a request
    reply,       \* what its INCR returned
    late,        \* history: requests whose INCR took longer than a window
    faults

vars == <<now, count, dies, pc, caller, limit, since, reply, late, faults>>
fixed == <<caller, limit>>

Times == 0..MaxTime
WindowOf(t) == t \div Window
Windows == { WindowOf(t) : t \in Times }

Init ==
    /\ now = 0
    /\ count = [c \in Callers |-> [w \in Windows |-> 0]]
    /\ dies = [c \in Callers |-> [w \in Windows |-> 0]]
    /\ pc = [r \in Requests |-> "new"]
    /\ caller \in [Requests -> Callers]
    /\ limit \in [Requests -> Limits]
    /\ since = [r \in Requests |-> 0]
    /\ reply = [r \in Requests |-> 0]
    /\ late = {}
    /\ faults = 0

-----------------------------------------------------------------------------

Arrive(r) ==
    /\ pc[r] = "new"
    /\ pc' = [pc EXCEPT ![r] = "incr"]
    /\ since' = [since EXCEPT ![r] = now]
    /\ UNCHANGED <<now, count, dies, fixed, reply, late, faults>>

\* Slip: one more than the limit.
Verdict_Inclusive(r, n) == IF n > limit[r] + 1 THEN "refused" ELSE "passed"

\* 429, or the next handler
Verdict(r, n) == IF n > limit[r] THEN "refused" ELSE "passed"

\* INCR.  It may take effect and the request stop all the same.
Incr(r) ==
    LET c == caller[r]
        w == WindowOf(since[r])
        n == count[c][w] + 1
    IN  /\ pc[r] = "incr"
        /\ count' = [count EXCEPT ![c][w] = n]
        /\ reply' = [reply EXCEPT ![r] = n]
        /\ late' = IF now > since[r] + Window THEN late \cup {r} ELSE late
        /\ \/ /\ pc' = [pc EXCEPT ![r] = IF n = 1 THEN "expire" ELSE Verdict(r, n)]
              /\ UNCHANGED faults
           \/ /\ faults < MaxFaults /\ faults' = faults + 1
              /\ pc' = [pc EXCEPT ![r] = "failed"]
        /\ UNCHANGED <<now, dies, fixed, since>>

\* Slip: the first reply is taken to be 0, so that no EXPIRE is sent.
Expire_Never(r) ==
    /\ pc[r] = "expire"
    /\ pc' = [pc EXCEPT ![r] = Verdict(r, reply[r])]
    /\ UNCHANGED <<now, count, dies, fixed, since, reply, late, faults>>

\* EXPIRE, two windows from now
Expire(r) ==
    LET c == caller[r]
        w == WindowOf(since[r])
    IN  /\ pc[r] = "expire"
        /\ dies' = [dies EXCEPT ![c][w] = IF count[c][w] = 0 THEN 0 ELSE now + 2 * Window]
        /\ pc' = [pc EXCEPT ![r] = Verdict(r, reply[r])]
        /\ UNCHANGED <<now, count, fixed, since, reply, late, faults>>

\* A command is rejected (500), or the process dies.
Stop(r) ==
    /\ pc[r] \in {"incr", "expire"}
    /\ faults < MaxFaults /\ faults' = faults + 1
    /\ pc' = [pc EXCEPT ![r] = "failed"]
    /\ UNCHANGED <<now, count, dies, fixed, since, reply, late>>

\* Time passes; Redis deletes what has expired.
Tick ==
    /\ now < MaxTime /\ now' = now + 1
    /\ count' = [c \in Callers |-> [w \in Windows |->
                   IF dies[c][w] = now' THEN 0 ELSE count[c][w]]]
    /\ dies' = [c \in Callers |-> [w \in Windows |->
                  IF dies[c][w] = now' THEN 0 ELSE dies[c][w]]]
    /\ UNCHANGED <<fixed, pc, since, reply, late, faults>>

Next ==
    \/ \E r \in Requests : Arrive(r) \/ Incr(r) \/ Expire(r) \/ Stop(r)
    \/ Tick

Spec == Init /\ [][Next]_vars

-----------------------------------------------------------------------------
(* Properties *)

\* Requests of c let through whose INCR was not delayed for a whole window.
Passed(c) ==
    { r \in Requests : pc[r] = "passed" /\ caller[r] = c /\ r \notin late }

\* In no stretch of time as long as a window do more requests of a caller
\* get through than twice their limit: windows are fixed, so the limit itself
\* ("requests per minute", rateLimiter.ts:9) is exceeded around a boundary.
AtMostTwice ==
    \A c \in Callers, t \in Times, l \in Limits :
        Cardinality({ r \in Passed(c) :
            limit[r] <= l /\ since[r] \in t .. (t + Window - 1) }) <= 2 * l

\* A request is refused only if as many as its limit came before it from
\* the same caller in the same window.
RefusalsAreDue ==
    \A r \in Requests : pc[r] = "refused" =>
        Cardinality({ q \in Requests \ {r} :
            /\ caller[q] = caller[r] /\ WindowOf(since[q]) = WindowOf(since[r])
            /\ reply[q] \in 1 .. (reply[r] - 1) }) >= limit[r]

\* The limit bounds what passes and refuses nothing else, whatever commands
\* are delayed, fail or interleave, and however the limit changes.
LimitIsKept == AtMostTwice /\ RefusalsAreDue

\* A counter without a time to live is about to get it from the request
\* that made it, or that request stopped in between (rateLimiter.ts:34).
CountersFade ==
    \A c \in Callers, w \in Windows :
        count[c][w] > 0 /\ dies[c][w] = 0 =>
            \E r \in Requests :
                /\ caller[r] = c /\ WindowOf(since[r]) = w /\ reply[r] = 1
                /\ pc[r] \in {"expire", "failed"}
=============================================================================
