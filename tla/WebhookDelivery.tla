-------------------------- MODULE WebhookDelivery ---------------------------
(***************************************************************************)
(* deliverWebhook, src/src/core/webhooks/webhookDispatcher.ts: the tries   *)
(* to POST one event to one webhook.  Every try is a run of tryDeliver     *)
(* with an isLastAttempt of its own; attemptCount and the promise are      *)
(* shared by all of them.  A step is one event of a request or of a timer. *)
(* Delays are left out: a timer may fire at any time.                      *)
(*                                                                         *)
(* A request that times out before any answer is destroyed, which emits    *)
(* "error" in the same turn: both handlers schedule a try.  An answer that *)
(* is cut in its body emits neither "end" nor "error" on the request.      *)
(***************************************************************************)
EXTENDS Naturals, FiniteSets

CONSTANTS
    Deliveries,  \* calls of deliverWebhook
    MaxRetries,  \* MAX_RETRIES
    MaxTries,    \* bound: tries of one delivery
    Eventful     \* bound: deliveries with tries that fail; the others meet
                 \* a 2xx answer or a blocked URL

ASSUME TriesAssumption ==
    MaxRetries \in Nat \ {0} /\ MaxTries \in Nat /\ MaxRetries <= MaxTries
ASSUME EventfulAssumption == Eventful \subseteq Deliveries

VARIABLES
    attemptCount,  \* of each delivery; 0 before the call
    try,           \* where the try with each number is
    timers,        \* pending setTimeout(tryDeliver)
    outcome,       \* of the promise of each delivery
    unanswered,    \* history: deliveries with a request that timed out
                   \* before any answer
    accepted       \* history: deliveries with a 2xx answer

deliveryVars == <<attemptCount, try, timers, outcome, unanswered, accepted>>

Numbers == 1..MaxTries
TryState == {"none", "check",     \* awaits isBlockedUrl
             "sent", "body",      \* awaits the headers, the rest of the answer
             "cut", "over"}
Outcome == {"none", "success", "failure", "refused"}

DeliveryInit ==
    /\ attemptCount = [d \in Deliveries |-> 0]
    /\ try = [d \in Deliveries |-> [i \in Numbers |-> "none"]]
    /\ timers = [d \in Deliveries |-> 0]
    /\ outcome = [d \in Deliveries |-> "none"]
    /\ unanswered = {} /\ accepted = {}

Started(d) == attemptCount[d] > 0

\* Tries under way or scheduled.
Alive(d) == { i \in Numbers : try[d][i] \in {"check", "sent", "body"} }
Load(d) == Cardinality(Alive(d)) + timers[d]

\* resolve: only the first one counts.
Resolve(d, result) ==
    outcome' = [outcome EXCEPT ![d] = IF @ = "none" THEN result ELSE @]

\* tryDeliver, up to its await, once more
Begin(d) ==
    /\ attemptCount[d] < MaxTries
    /\ attemptCount' = [attemptCount EXCEPT ![d] = @ + 1]
    /\ try' = [try EXCEPT ![d][attemptCount[d] + 1] = "check"]

Over(d, i) == try' = [try EXCEPT ![d][i] = "over"]

\* Slip: the last try retries too.
Failed_NeverLast(d, i, handlers) ==
    timers' = [timers EXCEPT ![d] = @ + handlers] /\ UNCHANGED outcome

\* `handlers` handlers of try i are told that it failed.
Failed(d, i, handlers) ==
    /\ d \in Eventful
    /\ \/ /\ i = MaxRetries               \* isLastAttempt
          /\ Resolve(d, "failure")
          /\ UNCHANGED timers
       \/ /\ i # MaxRetries
          /\ timers' = [timers EXCEPT ![d] = @ + handlers]
          /\ UNCHANGED outcome

-----------------------------------------------------------------------------

\* The first tries of new deliveries
Deliver(ds) ==
    /\ attemptCount' = [d \in Deliveries |-> IF d \in ds THEN 1 ELSE attemptCount[d]]
    /\ try' = [d \in Deliveries |->
                 IF d \in ds THEN [try[d] EXCEPT ![1] = "check"] ELSE try[d]]
    /\ UNCHANGED <<timers, outcome, unanswered, accepted>>

\* The URL is re-checked; a blocked one, or a request that cannot be made,
\* is a result at once.
Checked(d, i) ==
    /\ try[d][i] = "check"
    /\ \/ try' = [try EXCEPT ![d][i] = "sent"] /\ UNCHANGED outcome
       \/ Over(d, i) /\ Resolve(d, "refused")
    /\ UNCHANGED <<attemptCount, timers, unanswered, accepted>>

Answered(d, i) ==
    /\ try[d][i] = "sent"
    /\ try' = [try EXCEPT ![d][i] = "body"]
    /\ UNCHANGED <<attemptCount, timers, outcome, unanswered, accepted>>

\* Slip: an answer is a success only while it is not the last try.
Ended_LastFails(d, i) ==
    /\ try[d][i] = "body"
    /\ Over(d, i)
    /\ \/ /\ IF i = MaxRetries THEN Resolve(d, "failure") ELSE Resolve(d, "success")
          /\ accepted' = accepted \cup {d}
          /\ UNCHANGED timers
       \/ Failed(d, i, 1) /\ UNCHANGED accepted
    /\ UNCHANGED <<attemptCount, unanswered>>

\* res "end": 2xx, or another status
Ended(d, i) ==
    /\ try[d][i] = "body"
    /\ Over(d, i)
    /\ \/ /\ Resolve(d, "success")
          /\ accepted' = accepted \cup {d}
          /\ UNCHANGED timers
       \/ Failed(d, i, 1) /\ UNCHANGED accepted
    /\ UNCHANGED <<attemptCount, unanswered>>

\* The connection ends in the middle of the answer: no handler is told.
BodyCut(d, i) ==
    /\ try[d][i] = "body" /\ d \in Eventful
    /\ try' = [try EXCEPT ![d][i] = "cut"]
    /\ UNCHANGED <<attemptCount, timers, outcome, unanswered, accepted>>

\* Slip: "error" retries at once and keeps the timer.
Errored_Twice(d, i) ==
    /\ try[d][i] = "sent"
    /\ Over(d, i) /\ Failed(d, i, 2)
    /\ UNCHANGED <<attemptCount, unanswered, accepted>>

\* req "error" before any answer: refused, reset, no such host
Errored(d, i) ==
    /\ try[d][i] = "sent"
    /\ Over(d, i) /\ Failed(d, i, 1)
    /\ UNCHANGED <<attemptCount, unanswered, accepted>>

\* req "timeout", and the "error" of req.destroy() if there is no answer yet
TimedOut(d, i) ==
    /\ \/ /\ try[d][i] = "sent"
          /\ Failed(d, i, 2)
          /\ unanswered' = unanswered \cup {d}
       \/ /\ try[d][i] = "body"
          /\ Failed(d, i, 1)
          /\ UNCHANGED unanswered
    /\ Over(d, i)
    /\ UNCHANGED <<attemptCount, accepted>>

\* A timer fires: tryDeliver again.
Retry(d) ==
    /\ timers[d] > 0 /\ Begin(d)
    /\ timers' = [timers EXCEPT ![d] = @ - 1]
    /\ UNCHANGED <<outcome, unanswered, accepted>>

\* The request of try i comes to an end.
TryEnds(d, i) == Ended(d, i) \/ BodyCut(d, i) \/ Errored(d, i) \/ TimedOut(d, i)

DeliveryStep(d) ==
    \/ Retry(d)
    \/ \E i \in Numbers : Checked(d, i) \/ Answered(d, i) \/ TryEnds(d, i)

\* The process dies: its requests and timers go with it.
DeliveriesLost ==
    /\ try' = [d \in Deliveries |-> [i \in Numbers |->
                  IF try[d][i] = "none" THEN "none" ELSE "over"]]
    /\ timers' = [d \in Deliveries |-> 0]
    /\ UNCHANGED <<attemptCount, outcome, unanswered, accepted>>

-----------------------------------------------------------------------------

DeliveryTypeOK ==
    /\ attemptCount \in [Deliveries -> 0..MaxTries]
    /\ try \in [Deliveries -> [Numbers -> TryState]]
    /\ timers \in [Deliveries -> Nat]
    /\ outcome \in [Deliveries -> Outcome]
    /\ unanswered \subseteq Deliveries /\ accepted \subseteq Deliveries

\* As long as no request of a delivery times out unanswered, its tries come
\* one after the other and there are at most MAX_RETRIES of them
\* (webhookDispatcher.ts:15, 49).
OneTryAtATime ==
    \A d \in Deliveries \ unanswered :
        Load(d) <= 1 /\ attemptCount[d] <= MaxRetries

Contract == INSTANCE DeliveryContract WITH promise <-
    [d \in Deliveries |-> [posts |-> attemptCount[d],
                           accepted |-> d \in accepted,
                           outcome |-> outcome[d]]]

\* Each delivery keeps the promise of DeliveryContract.
KeepsContract == Contract!Spec
=============================================================================
