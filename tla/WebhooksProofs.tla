--------------------------- MODULE WebhooksProofs ---------------------------
(***************************************************************************)
(* What webhook deliveries guarantee for any number of events, webhooks    *)
(* and retries, whatever receivers do, with failing Redis commands and     *)
(* deaths of the process.                                                  *)
(***************************************************************************)
EXTENDS Webhooks, FiniteSetTheorems, SequenceTheorems, NaturalsInduction, WellFoundedInduction,
        TLAPS

DeliveryTypes ==
    /\ attemptCount \in [Deliveries -> Nat]
    /\ try \in [Deliveries -> [Numbers -> TryState]]
    /\ timers \in [Deliveries -> Nat]
    /\ outcome \in [Deliveries -> Outcome]
    /\ unanswered \subseteq Deliveries /\ accepted \subseteq Deliveries

\* Tries have been begun, timers too, and an accepted delivery has a result.
Begun(d) ==
    /\ \A i \in Numbers : try[d][i] # "none" => i <= attemptCount[d]
    /\ timers[d] > 0 => attemptCount[d] > 0
    /\ d \in accepted => outcome[d] # "none"

\* Only the latest try is under way, or a timer waits that some try but the
\* last has set.
InTurn(d) ==
    /\ attemptCount[d] <= MaxRetries
    /\ timers[d] <= 1
    /\ timers[d] = 1 => attemptCount[d] < MaxRetries
    /\ \A i \in Alive(d) : i = attemptCount[d] /\ timers[d] = 0

\* The inductive invariant of deliveries.
DeliveryInv ==
    /\ DeliveryTypes
    /\ \A d \in Deliveries : Begun(d) /\ (d \notin unanswered => InTurn(d))

\* An event has no deliveries before its scan is over.
Unstarted ==
    /\ trig \in [Events -> {"new", "scan", "each", "done"}]
    /\ \A e \in Events, h \in Hooks : trig[e] # "done" => attemptCount[<<e, h>>] = 0

WebhooksInv == DeliveryInv /\ Unstarted

\* The promise of one delivery.
Promise(d) ==
    [posts |-> attemptCount[d], accepted |-> d \in accepted, outcome |-> outcome[d]]

Promises ==
    [d \in Deliveries |-> [posts |-> attemptCount[d], accepted |-> d \in accepted,
                           outcome |-> outcome[d]]]

\* What the routes and triggerWebhooks know of a webhook that was deleted: its
\* index is gone for good, because only a webhook that is created is deleted.
RoutesInv ==
    /\ create \in [Hooks -> {"new", "stored", "created", "failed"}]
    /\ drop \in [Hooks -> {"idle", "found", "erased"}]
    /\ deleted \subseteq Hooks
    /\ \A h \in Hooks :
          drop[h] # "idle" \/ h \in deleted => create[h] \in {"created", "failed"}
    /\ indexed \subseteq Hooks \ deleted

EventInv ==
    /\ {todo, found, late} \subseteq [Events -> SUBSET Hooks]
    /\ \A e \in Events :
          /\ trig[e] = "new" => todo[e] = {} /\ found[e] = {}
          /\ late[e] \subseteq deleted
          /\ late[e] \cap (todo[e] \cup found[e]) = {}

SilentInv == RoutesInv /\ EventInv /\ DeletedStaysSilent

-----------------------------------------------------------------------------

LEMMA NumbersAreNat == Numbers \subseteq Nat \ {0} /\ 1 \in Numbers /\ MaxRetries \in Numbers
  BY TriesAssumption DEF Numbers

\* The invariant of a delivery only depends on its own state.
LEMMA OneDeliveryMoves ==
    ASSUME DeliveryInv, DeliveryTypes', NEW d \in Deliveries,
           Begun(d)', d \notin unanswered' => InTurn(d)',
           \A c \in Deliveries : c # d =>
              /\ attemptCount'[c] = attemptCount[c] /\ try'[c] = try[c]
              /\ timers'[c] = timers[c] /\ outcome'[c] = outcome[c]
              /\ c \in unanswered' <=> c \in unanswered
              /\ c \in accepted' <=> c \in accepted
    PROVE  DeliveryInv'
<1>1. ASSUME NEW c \in Deliveries PROVE Begun(c)' /\ (c \notin unanswered' => InTurn(c)')
  <2>1. CASE c = d
    BY <2>1
  <2>2. CASE c # d
    BY <2>2 DEF DeliveryInv, Begun, InTurn, Alive
  <2> QED BY <2>1, <2>2
<1> QED BY <1>1 DEF DeliveryInv

LEMMA AllPromisesMove ==
    ASSUME \A d \in Deliveries : Contract!Step(Promise(d), Promise(d)')
    PROVE  [Contract!Next]_Promises
<1>1. \A d \in Deliveries : Promises[d] = Promise(d) /\ Promises'[d] = Promise(d)'
  BY DEF Promises, Promise
<1>2. \A d \in Deliveries : Contract!Step(Promises[d], Promises'[d])
  BY <1>1
<1> QED BY <1>2 DEF Contract!Next, Promises

\* Nor does its promise.
LEMMA OnePromiseMoves ==
    ASSUME NEW d \in Deliveries,
           Contract!Step(Promise(d), Promise(d)'),
           \A c \in Deliveries : c # d =>
              /\ attemptCount'[c] = attemptCount[c] /\ outcome'[c] = outcome[c]
              /\ c \in accepted' <=> c \in accepted
    PROVE  [Contract!Next]_Promises
<1>1. ASSUME NEW c \in Deliveries PROVE Contract!Step(Promise(c), Promise(c)')
  <2>1. CASE c = d
    BY <2>1
  <2>2. CASE c # d
    <3>1. Promise(c)' = Promise(c)
      BY <2>2 DEF Promise
    <3> QED BY <3>1 DEF Contract!Step
  <2> QED BY <2>1, <2>2
<1> QED BY <1>1, AllPromisesMove

-----------------------------------------------------------------------------
(* Steps of one promise *)

\* The promise of d with another result, or accepted.
Now(d, acc, o) == [posts |-> attemptCount[d], accepted |-> acc, outcome |-> o]

LEMMA KeepsIsStep ==
    ASSUME NEW d \in Deliveries
    PROVE  Contract!Step(Promise(d), Now(d, d \in accepted, outcome[d]))
  BY DEF Promise, Now, Contract!Step

\* The steps of the contract, on records.
LEMMA WithOutcome ==
    ASSUME NEW n, NEW a, NEW o, NEW r
    PROVE  [[posts |-> n, accepted |-> a, outcome |-> o] EXCEPT !.outcome = r]
             = [posts |-> n, accepted |-> a, outcome |-> r]
  OBVIOUS

LEMMA GivesUp ==
    ASSUME NEW n, NEW p, p = [posts |-> n, accepted |-> FALSE, outcome |-> "none"],
           n >= MaxRetries
    PROVE  Contract!Step(p, [posts |-> n, accepted |-> FALSE, outcome |-> "failure"])
<1>1. p.posts = n /\ ~p.accepted /\ p.outcome = "none"
  OBVIOUS
<1>2. [p EXCEPT !.outcome = "failure"]
         = [posts |-> n, accepted |-> FALSE, outcome |-> "failure"]
  BY WithOutcome
<1> QED BY <1>1, <1>2 DEF Contract!Step, Contract!GiveUp

LEMMA Refuses ==
    ASSUME NEW n, NEW p, p = [posts |-> n, accepted |-> FALSE, outcome |-> "none"], n > 0
    PROVE  Contract!Step(p, [posts |-> n, accepted |-> FALSE, outcome |-> "refused"])
<1>1. p.posts = n /\ ~p.accepted /\ p.outcome = "none"
  OBVIOUS
<1>2. [p EXCEPT !.outcome = "refused"]
         = [posts |-> n, accepted |-> FALSE, outcome |-> "refused"]
  BY WithOutcome
<1> QED BY <1>1, <1>2 DEF Contract!Step, Contract!Refuse

LEMMA Accepts ==
    ASSUME NEW n, NEW a, NEW o, n > 0,
           NEW p, p = [posts |-> n, accepted |-> a, outcome |-> o]
    PROVE  Contract!Step(p, [posts |-> n, accepted |-> TRUE,
                             outcome |-> IF o = "none" THEN "success" ELSE o])
<1>1. p.posts = n /\ p.outcome = o
  OBVIOUS
<1>2. Contract!Settled(p, "success") = IF o = "none" THEN "success" ELSE o
  BY <1>1 DEF Contract!Settled
<1> QED BY <1>1, <1>2 DEF Contract!Step, Contract!Accept

LEMMA Posts ==
    ASSUME NEW n, NEW a, NEW o, NEW p, p = [posts |-> n, accepted |-> a, outcome |-> o]
    PROVE  Contract!Step(p, [posts |-> n + 1, accepted |-> a, outcome |-> o])
<1>1. [p EXCEPT !.posts = @ + 1] = [posts |-> n + 1, accepted |-> a, outcome |-> o]
  OBVIOUS
<1> QED BY <1>1 DEF Contract!Step, Contract!Post

LEMMA FailureIsStep ==
    ASSUME DeliveryInv, NEW d \in Deliveries, attemptCount[d] >= MaxRetries
    PROVE  Contract!Step(Promise(d),
              Now(d, d \in accepted, IF outcome[d] = "none" THEN "failure" ELSE outcome[d]))
<1>1. CASE outcome[d] # "none"
  BY <1>1, KeepsIsStep
<1>2. CASE outcome[d] = "none"
  <2>1. (d \in accepted) = FALSE
    BY <1>2 DEF DeliveryInv, Begun
  <2>2. Promise(d) = Now(d, FALSE, "none")
    BY <1>2, <2>1, Zenon DEF Promise, Now
  <2>3. Contract!Step(Promise(d), Now(d, FALSE, "failure"))
    BY <2>2, GivesUp DEF Now
  <2> QED BY <1>2, <2>1, <2>3, Zenon
<1> QED BY <1>1, <1>2

LEMMA RefusalIsStep ==
    ASSUME DeliveryInv, NEW d \in Deliveries, attemptCount[d] > 0
    PROVE  Contract!Step(Promise(d),
              Now(d, d \in accepted, IF outcome[d] = "none" THEN "refused" ELSE outcome[d]))
<1>1. CASE outcome[d] # "none"
  BY <1>1, KeepsIsStep
<1>2. CASE outcome[d] = "none"
  <2>1. (d \in accepted) = FALSE
    BY <1>2 DEF DeliveryInv, Begun
  <2>2. Promise(d) = Now(d, FALSE, "none")
    BY <1>2, <2>1, Zenon DEF Promise, Now
  <2>3. Contract!Step(Promise(d), Now(d, FALSE, "refused"))
    BY <2>2, Refuses DEF Now
  <2> QED BY <1>2, <2>1, <2>3, Zenon
<1> QED BY <1>1, <1>2

LEMMA AcceptanceIsStep ==
    ASSUME NEW d \in Deliveries, attemptCount[d] > 0
    PROVE  Contract!Step(Promise(d),
              Now(d, TRUE, IF outcome[d] = "none" THEN "success" ELSE outcome[d]))
  BY Accepts, Zenon DEF Promise, Now

LEMMA PostIsStep ==
    ASSUME NEW d \in Deliveries
    PROVE  Contract!Step(Promise(d),
              [posts |-> attemptCount[d] + 1, accepted |-> d \in accepted,
               outcome |-> outcome[d]])
  BY Posts, Zenon DEF Promise

-----------------------------------------------------------------------------
(* Steps of one delivery *)

\* Under way.
Live == {"check", "sent", "body"}

\* Try i of d moves on to s, t timers wait, the result is o.
LEMMA TryMoves ==
    ASSUME DeliveryInv, NEW d \in Deliveries, NEW i \in Numbers,
           NEW s \in TryState \ {"none"}, NEW t \in Nat, NEW o \in Outcome,
           try[d][i] \in Live,
           attemptCount' = attemptCount,
           try' = [try EXCEPT ![d][i] = s],
           timers' = [timers EXCEPT ![d] = t],
           outcome' = [outcome EXCEPT ![d] = o],
           unanswered' \in {unanswered, unanswered \cup {d}},
           accepted' \in {accepted, accepted \cup {d}},
           d \in accepted' => o # "none",
           \/ t = timers[d]
           \/ s \notin Live /\ (d \in unanswered' \/ (t = timers[d] + 1 /\ i # MaxRetries)),
           Contract!Step(Promise(d), Now(d, d \in accepted', o))
    PROVE  DeliveryInv' /\ [Contract!Next]_Promises
<1>1. DeliveryTypes'
  BY DEF DeliveryInv, DeliveryTypes
<1>2. \A c \in Deliveries : c # d =>
         /\ attemptCount'[c] = attemptCount[c] /\ try'[c] = try[c]
         /\ timers'[c] = timers[c] /\ outcome'[c] = outcome[c]
         /\ c \in unanswered' <=> c \in unanswered
         /\ c \in accepted' <=> c \in accepted
  BY DEF DeliveryInv, DeliveryTypes
<1>3. /\ \A k \in Numbers : try'[d][k] = IF k = i THEN s ELSE try[d][k]
      /\ timers'[d] = t /\ outcome'[d] = o
  BY DEF DeliveryInv, DeliveryTypes
<1>4. attemptCount[d] \in Nat /\ timers[d] \in Nat /\ i \in Nat \ {0} /\ i <= attemptCount[d]
  BY NumbersAreNat DEF DeliveryInv, DeliveryTypes, Begun, Live
<1>5. Begun(d)'
  <2>1. \A k \in Numbers : try'[d][k] # "none" => k <= attemptCount'[d]
    BY <1>3, <1>4 DEF DeliveryInv, Begun
  <2>2. attemptCount'[d] > 0
    BY <1>4
  <2> QED BY <1>3, <2>1, <2>2 DEF Begun
<1>6. ASSUME d \notin unanswered' PROVE InTurn(d)'
  <2>1. d \notin unanswered
    BY <1>6
  <2>2. InTurn(d)
    BY <2>1 DEF DeliveryInv
  <2>3. i \in Alive(d)
    BY DEF Alive, Live
  <2>4. i = attemptCount[d] /\ timers[d] = 0
    BY <2>2, <2>3 DEF InTurn
  <2>5. \A k \in Alive(d)' : k \in Alive(d) /\ (k = i => s \in Live)
    BY <1>3, <2>3 DEF Alive, Live
  <2>6. \A k \in Alive(d)' : k = i /\ s \in Live
    BY <2>2, <2>4, <2>5 DEF InTurn
  <2>7. t = 0 \/ (t = 1 /\ s \notin Live /\ i # MaxRetries)
    BY <1>6, <2>4
  <2>8. attemptCount[d] <= MaxRetries /\ (t = 1 => attemptCount[d] < MaxRetries)
    BY <1>4, <2>2, <2>4, <2>7, TriesAssumption DEF InTurn
  <2> QED BY <1>3, <2>4, <2>6, <2>7, <2>8 DEF InTurn
<1>7. DeliveryInv'
  BY <1>1, <1>2, <1>5, <1>6, OneDeliveryMoves
<1>8. Promise(d)' = Now(d, d \in accepted', o)
  BY <1>3 DEF Promise, Now
<1>9. [Contract!Next]_Promises
  BY <1>2, <1>8, OnePromiseMoves
<1> QED BY <1>7, <1>9

\* What is known of a delivery with a try under way.
LEMMA UnderWay ==
    ASSUME DeliveryInv, NEW d \in Deliveries, NEW i \in Numbers, try[d][i] \in Live
    PROVE  /\ i \in Nat /\ attemptCount[d] \in Nat
           /\ i <= attemptCount[d] /\ attemptCount[d] > 0
           /\ timers[d] \in Nat /\ timers = [timers EXCEPT ![d] = timers[d]]
           /\ outcome[d] \in Outcome /\ outcome = [outcome EXCEPT ![d] = outcome[d]]
           /\ d \in accepted => outcome[d] # "none"
<1>1. i \in Nat \ {0} /\ i <= attemptCount[d]
  BY NumbersAreNat DEF DeliveryInv, Begun, Live
<1> QED BY <1>1 DEF DeliveryInv, DeliveryTypes, Begun

\* A try fails, with one timer for each handler that is told.
LEMMA FailedMoves ==
    ASSUME DeliveryInv, NEW d \in Deliveries, NEW i \in Numbers, try[d][i] \in Live,
           NEW handlers \in {1, 2}, Over(d, i), Failed(d, i, handlers),
           attemptCount' = attemptCount, accepted' = accepted,
           unanswered' \in {unanswered, unanswered \cup {d}},
           handlers = 2 => d \in unanswered'
    PROVE  DeliveryInv' /\ [Contract!Next]_Promises
<1>1. CASE i = MaxRetries /\ Resolve(d, "failure") /\ UNCHANGED timers
  <2> DEFINE o == IF outcome[d] = "none" THEN "failure" ELSE outcome[d]
  <2>1. outcome' = [outcome EXCEPT ![d] = o]
    BY <1>1 DEF Resolve
  <2>2. Contract!Step(Promise(d), Now(d, d \in accepted, o))
    BY <1>1, UnderWay, FailureIsStep
  <2>3. Contract!Step(Promise(d), Now(d, d \in accepted', o))
    BY <2>2, Zenon
  <2>4. o \in Outcome /\ (d \in accepted' => o # "none") /\ timers[d] \in Nat
    BY UnderWay DEF Outcome
  <2>5. timers' = [timers EXCEPT ![d] = timers[d]]
    BY <1>1, UnderWay
  <2>6. "over" \in TryState \ {"none"}
    BY DEF TryState
  <2> HIDE DEF o
  <2> QED BY <2>1, <2>3, <2>4, <2>5, <2>6, TryMoves DEF Over
<1>2. CASE i # MaxRetries /\ UNCHANGED outcome
             /\ timers' = [timers EXCEPT ![d] = @ + handlers]
  <2>1. Contract!Step(Promise(d), Now(d, d \in accepted', outcome[d]))
    BY KeepsIsStep, Zenon
  <2>2. /\ outcome[d] \in Outcome /\ timers[d] + handlers \in Nat
        /\ outcome' = [outcome EXCEPT ![d] = outcome[d]]
        /\ timers' = [timers EXCEPT ![d] = timers[d] + handlers]
        /\ d \in accepted' => outcome[d] # "none"
    BY <1>2, UnderWay
  <2>3. "over" \in TryState \ {"none"} /\ "over" \notin Live
    BY DEF TryState, Live
  <2>4. d \in unanswered' \/ (timers[d] + handlers = timers[d] + 1 /\ i # MaxRetries)
    BY <1>2
  <2> QED BY <2>1, <2>2, <2>3, <2>4, TryMoves DEF Over
<1> QED BY <1>1, <1>2 DEF Failed

LEMMA CheckedMoves ==
    ASSUME DeliveryInv, NEW d \in Deliveries, NEW i \in Numbers, Checked(d, i)
    PROVE  DeliveryInv' /\ [Contract!Next]_Promises
<1>1. try[d][i] \in Live /\ {"sent", "over"} \subseteq TryState \ {"none"}
  BY DEF Checked, Live, TryState
<1>2. CASE UNCHANGED outcome /\ try' = [try EXCEPT ![d][i] = "sent"]
  <2>1. Contract!Step(Promise(d), Now(d, d \in accepted', outcome[d]))
    BY KeepsIsStep, Zenon DEF Checked
  <2> QED BY <1>1, <1>2, <2>1, UnderWay, TryMoves DEF Checked
<1>3. CASE Over(d, i) /\ Resolve(d, "refused")
  <2> DEFINE o == IF outcome[d] = "none" THEN "refused" ELSE outcome[d]
  <2>1. outcome' = [outcome EXCEPT ![d] = o]
    BY <1>3 DEF Resolve
  <2>2. Contract!Step(Promise(d), Now(d, d \in accepted, o))
    BY <1>1, UnderWay, RefusalIsStep
  <2>3. Contract!Step(Promise(d), Now(d, d \in accepted', o))
    BY <2>2, Zenon DEF Checked
  <2>4. o \in Outcome /\ (d \in accepted' => o # "none")
    BY <1>1, UnderWay DEF Outcome, Checked
  <2> HIDE DEF o
  <2> QED BY <1>1, <1>3, <2>1, <2>3, <2>4, UnderWay, TryMoves DEF Over, Checked
<1> QED BY <1>2, <1>3 DEF Checked

\* Answered and BodyCut
LEMMA SilentMoves ==
    ASSUME DeliveryInv, NEW d \in Deliveries, NEW i \in Numbers,
           Answered(d, i) \/ BodyCut(d, i)
    PROVE  DeliveryInv' /\ [Contract!Next]_Promises
<1>1. PICK s \in {"body", "cut"} : try' = [try EXCEPT ![d][i] = s]
  BY DEF Answered, BodyCut
<1>2. /\ try[d][i] \in Live /\ s \in TryState \ {"none"}
      /\ UNCHANGED <<attemptCount, timers, outcome, unanswered, accepted>>
  BY DEF Answered, BodyCut, Live, TryState
<1>3. Contract!Step(Promise(d), Now(d, d \in accepted', outcome[d]))
  BY <1>2, KeepsIsStep, Zenon
<1> QED BY <1>1, <1>2, <1>3, UnderWay, TryMoves

LEMMA EndedMoves ==
    ASSUME DeliveryInv, NEW d \in Deliveries, NEW i \in Numbers, Ended(d, i)
    PROVE  DeliveryInv' /\ [Contract!Next]_Promises
<1>1. try[d][i] \in Live /\ "over" \in TryState \ {"none"}
  BY DEF Ended, Live, TryState
<1>2. CASE Resolve(d, "success") /\ accepted' = accepted \cup {d} /\ UNCHANGED timers
  <2> DEFINE o == IF outcome[d] = "none" THEN "success" ELSE outcome[d]
  <2>1. outcome' = [outcome EXCEPT ![d] = o]
    BY <1>2 DEF Resolve
  <2>2. Contract!Step(Promise(d), Now(d, TRUE, o))
    BY <1>1, UnderWay, AcceptanceIsStep
  <2>3. (d \in accepted') = TRUE
    BY <1>2
  <2>4. Contract!Step(Promise(d), Now(d, d \in accepted', o))
    BY <2>2, <2>3, Zenon
  <2>5. o \in Outcome /\ o # "none"
    BY <1>1, UnderWay DEF Outcome
  <2> HIDE DEF o
  <2> QED BY <1>1, <1>2, <2>1, <2>4, <2>5, UnderWay, TryMoves DEF Over, Ended
<1>3. CASE Failed(d, i, 1) /\ UNCHANGED accepted
  BY <1>1, <1>3, FailedMoves DEF Ended
<1> QED BY <1>2, <1>3 DEF Ended

LEMMA ErroredMoves ==
    ASSUME DeliveryInv, NEW d \in Deliveries, NEW i \in Numbers,
           Errored(d, i) \/ TimedOut(d, i)
    PROVE  DeliveryInv' /\ [Contract!Next]_Promises
<1>1. /\ try[d][i] \in Live /\ Over(d, i) /\ UNCHANGED <<attemptCount, accepted>>
  BY DEF Errored, TimedOut, Live
<1>2. CASE Failed(d, i, 1) /\ UNCHANGED unanswered
  BY <1>1, <1>2, FailedMoves
<1>3. CASE Failed(d, i, 2) /\ unanswered' = unanswered \cup {d}
  BY <1>1, <1>3, FailedMoves
<1> QED BY <1>2, <1>3 DEF Errored, TimedOut

\* A timer begins one more try.
LEMMA RetryMoves ==
    ASSUME DeliveryInv, NEW d \in Deliveries, Retry(d)
    PROVE  DeliveryInv' /\ [Contract!Next]_Promises
<1> DEFINE n == attemptCount[d] + 1
<1>1. /\ attemptCount' = [attemptCount EXCEPT ![d] = n]
      /\ try' = [try EXCEPT ![d][n] = "check"]
      /\ timers' = [timers EXCEPT ![d] = @ - 1]
      /\ timers[d] > 0 /\ attemptCount[d] < MaxTries
      /\ UNCHANGED <<outcome, unanswered, accepted>>
  BY DEF Retry, Begin
<1>2. attemptCount[d] \in Nat /\ timers[d] \in Nat
  BY DEF DeliveryInv, DeliveryTypes
<1>3. n \in Numbers /\ n \in Nat \ {0} /\ "check" \in TryState /\ timers[d] - 1 \in Nat
  BY <1>1, <1>2, TriesAssumption DEF Numbers, TryState
<1>4. /\ attemptCount'[d] = n /\ timers'[d] = timers[d] - 1 /\ outcome'[d] = outcome[d]
      /\ \A k \in Numbers : try'[d][k] = IF k = n THEN "check" ELSE try[d][k]
  BY <1>1, <1>2, <1>3 DEF DeliveryInv, DeliveryTypes
<1>5. \A c \in Deliveries : c # d =>
         /\ attemptCount'[c] = attemptCount[c] /\ try'[c] = try[c]
         /\ timers'[c] = timers[c] /\ outcome'[c] = outcome[c]
         /\ c \in unanswered' <=> c \in unanswered
         /\ c \in accepted' <=> c \in accepted
  BY <1>1 DEF DeliveryInv, DeliveryTypes
<1>6. DeliveryTypes'
  BY <1>1, <1>3 DEF DeliveryInv, DeliveryTypes
<1>7. Begun(d)'
  <2>1. \A k \in Numbers : try'[d][k] # "none" => k <= attemptCount'[d]
    <3>1. \A k \in Numbers : k \in Nat /\ (try[d][k] # "none" => k <= attemptCount[d])
      BY NumbersAreNat DEF DeliveryInv, Begun
    <3> QED BY <1>2, <1>4, <3>1
  <2> QED BY <1>1, <1>3, <1>4, <2>1 DEF DeliveryInv, Begun
<1>8. ASSUME d \notin unanswered' PROVE InTurn(d)'
  <2>1. InTurn(d)
    BY <1>1, <1>8 DEF DeliveryInv
  <2>2. timers[d] = 1 /\ attemptCount[d] < MaxRetries /\ Alive(d) = {}
    BY <1>1, <1>2, <2>1 DEF InTurn
  <2>3. \A k \in Alive(d)' : k = n
    BY <1>4, <2>2 DEF Alive
  <2>4. n <= MaxRetries
    BY <1>2, <2>2, TriesAssumption
  <2> QED BY <1>4, <2>2, <2>3, <2>4 DEF InTurn
<1>9. Promise(d)' = [posts |-> n, accepted |-> d \in accepted, outcome |-> outcome[d]]
  BY <1>1, <1>4 DEF Promise
<1>10. [Contract!Next]_Promises
  BY <1>5, <1>9, PostIsStep, OnePromiseMoves
<1> QED BY <1>5, <1>6, <1>7, <1>8, <1>10, OneDeliveryMoves

LEMMA DeliveryStepMoves ==
    ASSUME DeliveryInv, NEW d \in Deliveries, DeliveryStep(d)
    PROVE  DeliveryInv' /\ [Contract!Next]_Promises
  BY CheckedMoves, SilentMoves, EndedMoves, ErroredMoves, RetryMoves
     DEF DeliveryStep, TryEnds

-----------------------------------------------------------------------------
(* Steps of many deliveries *)

\* Deliveries that were not started get their first try.
LEMMA DeliverMoves ==
    ASSUME DeliveryInv, NEW ds, Deliver(ds),
           \A d \in Deliveries : d \in ds => attemptCount[d] = 0
    PROVE  DeliveryInv' /\ [Contract!Next]_Promises
<1>1. 1 \in Numbers /\ MaxRetries \in Nat /\ 1 <= MaxRetries /\ "check" \in TryState
  BY NumbersAreNat, TriesAssumption DEF TryState
<1>2. ASSUME NEW d \in Deliveries, d \notin ds
      PROVE  /\ attemptCount'[d] = attemptCount[d] /\ try'[d] = try[d]
             /\ UNCHANGED <<timers, outcome, unanswered, accepted>>
  BY <1>2 DEF Deliver
<1>3. ASSUME NEW d \in Deliveries, d \in ds
      PROVE  /\ attemptCount[d] = 0 /\ attemptCount'[d] = 1
             /\ timers[d] = 0 /\ \A k \in Numbers : try[d][k] = "none"
             /\ \A k \in Numbers : try'[d][k] = IF k = 1 THEN "check" ELSE "none"
             /\ UNCHANGED <<timers, outcome, unanswered, accepted>>
  <2>1. attemptCount[d] = 0 /\ attemptCount'[d] = 1 /\ try'[d] = [try[d] EXCEPT ![1] = "check"]
    BY <1>3 DEF Deliver
  <2>2. \A k \in Numbers : try[d][k] = "none"
    BY <2>1, NumbersAreNat DEF DeliveryInv, Begun
  <2>3. timers[d] \in Nat /\ ~(timers[d] > 0)
    BY <2>1 DEF DeliveryInv, DeliveryTypes, Begun
  <2>4. try[d] \in [Numbers -> TryState]
    BY DEF DeliveryInv, DeliveryTypes
  <2> QED BY <1>1, <2>1, <2>2, <2>3, <2>4 DEF Deliver
<1>4. DeliveryTypes'
  <2>1. attemptCount' \in [Deliveries -> Nat]
    BY DEF Deliver, DeliveryInv, DeliveryTypes
  <2>2. try' \in [Deliveries -> [Numbers -> TryState]]
    BY <1>1 DEF Deliver, DeliveryInv, DeliveryTypes
  <2> QED BY <2>1, <2>2 DEF Deliver, DeliveryInv, DeliveryTypes
<1>5. ASSUME NEW d \in Deliveries
      PROVE  Begun(d)' /\ (d \notin unanswered' => InTurn(d)')
  <2>1. CASE d \in ds
    <3>1. \A k \in Alive(d)' : k = 1
      BY <1>3, <2>1 DEF Alive
    <3> QED BY <1>1, <1>3, <2>1, <3>1 DEF DeliveryInv, Begun, InTurn
  <2>2. CASE d \notin ds
    BY <1>2, <2>2 DEF DeliveryInv, Begun, InTurn, Alive
  <2> QED BY <2>1, <2>2
<1>6. ASSUME NEW d \in Deliveries
      PROVE  Contract!Step(Promise(d), Promise(d)')
  <2>1. CASE d \in ds
    <3>1. Promise(d)' = [posts |-> attemptCount[d] + 1, accepted |-> d \in accepted,
                         outcome |-> outcome[d]]
      BY <1>3, <2>1 DEF Promise
    <3> QED BY <3>1, PostIsStep
  <2>2. CASE d \notin ds
    <3>1. Promise(d)' = Promise(d)
      BY <1>2, <2>2 DEF Promise
    <3> QED BY <3>1 DEF Contract!Step
  <2> QED BY <2>1, <2>2
<1> QED BY <1>4, <1>5, <1>6, AllPromisesMove DEF DeliveryInv

\* The process dies.
LEMMA LossMoves ==
    ASSUME DeliveryInv, DeliveriesLost
    PROVE  DeliveryInv' /\ [Contract!Next]_Promises
<1>1. UNCHANGED <<attemptCount, outcome, unanswered, accepted>>
  BY DEF DeliveriesLost
<1>2. \A d \in Deliveries :
         /\ timers'[d] = 0
         /\ \A k \in Numbers : try'[d][k] = IF try[d][k] = "none" THEN "none" ELSE "over"
  BY DEF DeliveriesLost
<1>3. DeliveryTypes'
  <2>1. try' \in [Deliveries -> [Numbers -> TryState]]
    BY DEF DeliveriesLost, TryState
  <2> QED BY <2>1 DEF DeliveriesLost, DeliveryInv, DeliveryTypes
<1>4. ASSUME NEW d \in Deliveries
      PROVE  Begun(d)' /\ (d \notin unanswered' => InTurn(d)')
  <2>1. Alive(d)' = {}
    BY <1>2 DEF Alive
  <2>2. Begun(d)'
    BY <1>1, <1>2 DEF DeliveryInv, Begun
  <2> QED BY <1>1, <1>2, <2>1, <2>2 DEF DeliveryInv, InTurn
<1>5. UNCHANGED Promises
  BY <1>1 DEF Promises
<1> QED BY <1>3, <1>4, <1>5 DEF DeliveryInv

LEMMA RestingDeliveries ==
    ASSUME DeliveryInv, UNCHANGED deliveryVars
    PROVE  DeliveryInv' /\ [Contract!Next]_Promises
  BY DEF DeliveryInv, DeliveryTypes, Begun, InTurn, Alive, deliveryVars, Promises

-----------------------------------------------------------------------------
(* Steps of the system *)

\* Events move on only forwards.
LEMMA UnstartedStays ==
    ASSUME Unstarted,
           \/ trig' = trig
           \/ \E e \in Events, s \in {"scan", "each", "done"} :
                 trig[e] # "done" /\ trig' = [trig EXCEPT ![e] = s],
           \A e \in Events, h \in Hooks :
              trig'[e] # "done" => attemptCount'[<<e, h>>] = attemptCount[<<e, h>>]
    PROVE  Unstarted'
<1>1. trig' \in [Events -> {"new", "scan", "each", "done"}]
  BY DEF Unstarted
<1>2. \A e \in Events : trig'[e] # "done" => trig[e] # "done"
  BY DEF Unstarted
<1> QED BY <1>1, <1>2 DEF Unstarted

LEMMA ReadMoves ==
    ASSUME WebhooksInv, NEW e \in Events, NEW h \in Hooks, ReadHook(e, h)
    PROVE  WebhooksInv' /\ [Contract!Next]_Promises
<1> DEFINE active == IF record[h].status = "active" THEN found[e] \cup {h} ELSE found[e]
<1>1. trig[e] = "each"
  BY DEF ReadHook
<1>2. CASE trig' = trig /\ UNCHANGED deliveryVars
  <2>1. Unstarted'
    BY <1>2, UnstartedStays DEF WebhooksInv, deliveryVars
  <2> QED BY <1>2, <2>1, RestingDeliveries DEF WebhooksInv
<1>3. CASE trig' = [trig EXCEPT ![e] = "done"] /\ Deliver({e} \X active)
  <2>1. ASSUME NEW d \in Deliveries, d \in {e} \X active
        PROVE  attemptCount[d] = 0
    <3>1. PICK c \in Events, g \in Hooks : d = <<c, g>>
      BY DeliveriesAssumption
    <3>2. c = e
      BY <2>1, <3>1
    <3> QED BY <1>1, <3>1, <3>2 DEF WebhooksInv, Unstarted
  <2>2. DeliveryInv' /\ [Contract!Next]_Promises
    BY <1>3, <2>1, DeliverMoves DEF WebhooksInv
  <2>3. ASSUME NEW c \in Events, NEW g \in Hooks, trig'[c] # "done"
        PROVE  attemptCount'[<<c, g>>] = attemptCount[<<c, g>>]
    <3>1. c # e
      BY <1>3, <2>3 DEF WebhooksInv, Unstarted
    <3>2. <<c, g>> \in Deliveries /\ <<c, g>> \notin {e} \X active
      BY <3>1, DeliveriesAssumption
    <3> QED BY <1>3, <3>2 DEF Deliver
  <2>4. Unstarted'
    BY <1>1, <1>3, <2>3, UnstartedStays DEF WebhooksInv
  <2> QED BY <2>2, <2>4 DEF WebhooksInv
<1> QED BY <1>2, <1>3 DEF ReadHook

LEMMA DeliveringMoves ==
    ASSUME WebhooksInv, NEW d \in Deliveries, Delivering(d)
    PROVE  WebhooksInv' /\ [Contract!Next]_Promises
<1>1. DeliveryInv' /\ [Contract!Next]_Promises
  BY DeliveryStepMoves DEF Delivering, WebhooksInv
<1>2. trig' = trig
  BY DEF Delivering, triggerVars
<1>3. Retry(d) => attemptCount[d] > 0
  BY DEF Retry, WebhooksInv, DeliveryInv, Begun
<1>4. Retry(d) \/ attemptCount' = attemptCount
  BY DEF Delivering, DeliveryStep, TryEnds, Checked, Answered, Ended, BodyCut, Errored, TimedOut
<1>5. Unstarted'
  <2>1. CASE attemptCount' = attemptCount
    BY <1>2, <2>1 DEF WebhooksInv, Unstarted
  <2>2. CASE Retry(d)
    <3>1. ASSUME NEW e \in Events, NEW h \in Hooks, trig'[e] # "done"
          PROVE  attemptCount'[<<e, h>>] = attemptCount[<<e, h>>]
      <4>1. attemptCount[<<e, h>>] = 0
        BY <1>2, <3>1 DEF WebhooksInv, Unstarted
      <4>2. <<e, h>> # d
        BY <1>3, <2>2, <4>1
      <4>3. <<e, h>> \in Deliveries
        BY DeliveriesAssumption
      <4> QED BY <2>2, <4>2, <4>3 DEF Retry, Begin, WebhooksInv, DeliveryInv, DeliveryTypes
    <3> QED BY <1>2, <3>1, UnstartedStays DEF WebhooksInv
  <2> QED BY <1>4, <2>1, <2>2
<1> QED BY <1>1, <1>5 DEF WebhooksInv

LEMMA RestartMoves ==
    ASSUME WebhooksInv, Restart
    PROVE  WebhooksInv' /\ [Contract!Next]_Promises
<1>1. DeliveryInv' /\ [Contract!Next]_Promises
  BY LossMoves DEF Restart, WebhooksInv
<1>2. attemptCount' = attemptCount
  BY DEF Restart, DeliveriesLost
<1>3. trig' = [e \in Events |-> IF trig[e] = "new" THEN "new" ELSE "done"]
  BY DEF Restart
<1> QED BY <1>1, <1>2, <1>3 DEF WebhooksInv, Unstarted

\* The other steps leave deliveries alone.
LEMMA RestingStep ==
    ASSUME WebhooksInv, UNCHANGED deliveryVars,
           \/ trig' = trig
           \/ \E e \in Events, s \in {"scan", "each", "done"} :
                 trig[e] # "done" /\ trig' = [trig EXCEPT ![e] = s]
    PROVE  WebhooksInv' /\ [Contract!Next]_Promises
<1>1. Unstarted'
  BY UnstartedStays DEF WebhooksInv, deliveryVars
<1> QED BY <1>1, RestingDeliveries DEF WebhooksInv

LEMMA WebhooksStep ==
    ASSUME WebhooksInv, [Next]_vars
    PROVE  WebhooksInv' /\ [Contract!Next]_Promises
<1>1. CASE UNCHANGED vars
  BY <1>1, RestingStep DEF vars, triggerVars
<1>2. ASSUME NEW h \in Hooks, Routes(h) \/ Expire(h)
      PROVE  UNCHANGED deliveryVars /\ trig' = trig
  BY <1>2 DEF Routes, CreateRecord, CreateIndex, DeleteLookup, DeleteRecord, DeleteIndex,
              Expire, triggerVars
<1>3. ASSUME NEW e \in Events, Trigger(e) \/ ScanIndex(e) \/ TriggerFails(e)
      PROVE  /\ UNCHANGED deliveryVars
             /\ \E s \in {"scan", "each", "done"} :
                   trig[e] # "done" /\ trig' = [trig EXCEPT ![e] = s]
  BY <1>3 DEF Trigger, ScanIndex, TriggerFails
<1>4. ASSUME NEW d \in Deliveries, Bookkeeping(d) \/ BookFails(d)
      PROVE  UNCHANGED deliveryVars /\ trig' = trig
  BY <1>4 DEF Bookkeeping, RecordDelivery, ScanHistory, Prune, ReadRecord, WriteRecord,
              BookFails, triggerVars
<1> QED BY <1>1, <1>2, <1>3, <1>4, RestingStep, ReadMoves, DeliveringMoves, RestartMoves
        DEF Next, Triggering

LEMMA WebhooksBegin ==
    ASSUME Init
    PROVE  WebhooksInv /\ Contract!Init
<1>1. DeliveryInv
  BY TriesAssumption DEF Init, DeliveryInit, DeliveryInv, DeliveryTypes, Begun, InTurn, Alive,
                         TryState, Outcome
<1>2. Unstarted
  BY DeliveriesAssumption DEF Init, DeliveryInit, Unstarted
<1>3. Contract!Init
  <2>1. ASSUME NEW d \in Deliveries
        PROVE  attemptCount[d] = 0 /\ (d \in accepted) = FALSE /\ outcome[d] = "none"
    BY DEF Init, DeliveryInit
  <2>2. Promises = [d \in Deliveries |->
                      [posts |-> 0, accepted |-> FALSE, outcome |-> "none"]]
    BY <2>1, Zenon DEF Promises
  <2> QED BY <2>2 DEF Contract!Init, Promises
<1> QED BY <1>1, <1>2, <1>3 DEF WebhooksInv

LEMMA InTurnIsOne ==
    ASSUME DeliveryInv
    PROVE  OneTryAtATime
<1> SUFFICES ASSUME NEW d \in Deliveries \ unanswered
             PROVE  Load(d) <= 1 /\ attemptCount[d] <= MaxRetries
  BY DEF OneTryAtATime
<1>1. InTurn(d) /\ timers[d] \in Nat
  BY DEF DeliveryInv, DeliveryTypes
<1>2. CASE Alive(d) = {}
  <2>1. Cardinality(Alive(d)) = 0
    BY <1>2, FS_EmptySet
  <2> QED BY <1>1, <2>1 DEF InTurn, Load
<1>3. CASE Alive(d) # {}
  <2>1. Alive(d) = {attemptCount[d]} /\ timers[d] = 0
    BY <1>1, <1>3 DEF InTurn
  <2>2. Cardinality(Alive(d)) = 1
    BY <2>1, FS_Singleton
  <2> QED BY <1>1, <2>1, <2>2 DEF InTurn, Load
<1> QED BY <1>2, <1>3

-----------------------------------------------------------------------------

(***************************************************************************)
(* webhookDispatcher.ts:15, 49: however many events and webhooks there     *)
(* are, and whatever fails, a delivery none of whose requests times out    *)
(* unanswered has one try at a time and at most MaxRetries of them.        *)
(***************************************************************************)
THEOREM TriesComeInTurn == Spec => []OneTryAtATime
<1>1. Init => WebhooksInv
  BY WebhooksBegin
<1>2. WebhooksInv /\ [Next]_vars => WebhooksInv'
  BY WebhooksStep
<1>3. WebhooksInv => OneTryAtATime
  BY InTurnIsOne DEF WebhooksInv
<1> QED BY <1>1, <1>2, <1>3, PTL DEF Spec

(***************************************************************************)
(* webhookDispatcher.ts:36-150: deliverWebhook, with the retries, double   *)
(* retries and lost timers of its many concurrent calls, implements the    *)
(* contract of DeliveryContract.                                           *)
(***************************************************************************)
THEOREM DeliveriesKeepContract == Spec => KeepsContract
<1>1. Init => WebhooksInv /\ Contract!Init
  BY WebhooksBegin
<1>2. WebhooksInv /\ [Next]_vars => WebhooksInv' /\ [Contract!Next]_Promises
  BY WebhooksStep
<1> QED BY <1>1, <1>2, PTL DEF Spec, KeepsContract, Contract!Spec, Promises

-----------------------------------------------------------------------------
(* Deleted webhooks *)

\* The routes, whatever the rest does.
LEMMA RoutesKept ==
    ASSUME RoutesInv, NEW h \in Hooks, Routes(h)
    PROVE  RoutesInv' /\ deleted \subseteq deleted'
<1>1. CASE CreateRecord(h)
  BY <1>1 DEF CreateRecord, RoutesInv, storeVars, routeVars
<1>2. CASE CreateIndex(h)
  BY <1>2 DEF CreateIndex, RoutesInv
<1>3. CASE DeleteLookup(h)
  BY <1>3 DEF DeleteLookup, RoutesInv, storeVars
<1>4. CASE DeleteRecord(h)
  BY <1>4 DEF DeleteRecord, RoutesInv
<1>5. CASE DeleteIndex(h)
  BY <1>5 DEF DeleteIndex, RoutesInv
<1> QED BY <1>1, <1>2, <1>3, <1>4, <1>5 DEF Routes

\* The invariant of events only depends on what is deleted.
LEMMA EventsRest ==
    ASSUME EventInv, deleted \subseteq deleted', UNCHANGED triggerVars
    PROVE  EventInv'
  BY DEF EventInv, triggerVars

\* A webhook that was deleted before the event is not started.
LEMMA SilenceIsKept ==
    ASSUME DeletedStaysSilent,
           \A e \in Events, h \in Hooks : h \in late'[e] =>
              attemptCount'[<<e, h>>] = attemptCount[<<e, h>>]
                 /\ (h \in late[e] \/ attemptCount[<<e, h>>] = 0)
    PROVE  DeletedStaysSilent'
  BY DEF DeletedStaysSilent, Started

LEMMA TriggerKept ==
    ASSUME WebhooksInv, SilentInv, NEW e \in Events,
           Trigger(e) \/ ScanIndex(e) \/ TriggerFails(e)
    PROVE  SilentInv'
<1>1. UNCHANGED <<deliveryVars, storeVars, routeVars>>
  BY DEF Trigger, ScanIndex, TriggerFails
<1>2. RoutesInv'
  BY <1>1 DEF RoutesInv, SilentInv, routeVars, storeVars
<1>3. CASE Trigger(e)
  <2>1. EventInv'
    BY <1>1, <1>3 DEF Trigger, SilentInv, RoutesInv, EventInv, WebhooksInv, Unstarted,
                      routeVars
  <2>2. \A h \in Hooks : attemptCount[<<e, h>>] = 0
    BY <1>3 DEF Trigger, WebhooksInv, Unstarted
  <2>3. DeletedStaysSilent'
    BY <1>1, <1>3, <2>2, SilenceIsKept DEF Trigger, SilentInv, EventInv, deliveryVars
  <2> QED BY <1>2, <2>1, <2>3 DEF SilentInv
<1>4. CASE ScanIndex(e)
  <2>1. late[e] \cap indexed = {} /\ indexed \subseteq Hooks
    BY DEF SilentInv, RoutesInv, EventInv
  <2>2. EventInv'
    BY <1>1, <1>4, <2>1 DEF ScanIndex, SilentInv, EventInv, WebhooksInv, Unstarted, routeVars
  <2>3. DeletedStaysSilent'
    BY <1>1, <1>4, SilenceIsKept DEF ScanIndex, SilentInv, deliveryVars
  <2> QED BY <1>2, <2>2, <2>3 DEF SilentInv
<1>5. CASE TriggerFails(e)
  <2>1. EventInv'
    BY <1>1, <1>5 DEF TriggerFails, SilentInv, EventInv, WebhooksInv, Unstarted, routeVars
  <2>2. DeletedStaysSilent'
    BY <1>1, <1>5, SilenceIsKept DEF TriggerFails, SilentInv, deliveryVars
  <2> QED BY <1>2, <2>1, <2>2 DEF SilentInv
<1> QED BY <1>3, <1>4, <1>5

LEMMA ReadKept ==
    ASSUME WebhooksInv, SilentInv, NEW e \in Events, NEW h \in Hooks, ReadHook(e, h)
    PROVE  SilentInv'
<1> DEFINE active == IF record[h].status = "active" THEN found[e] \cup {h} ELSE found[e]
<1>1. /\ UNCHANGED <<storeVars, routeVars, late>>
      /\ trig[e] = "each" /\ h \in todo[e]
      /\ todo' = [todo EXCEPT ![e] = @ \ {h}]
  BY DEF ReadHook
<1>2. RoutesInv'
  BY <1>1 DEF RoutesInv, SilentInv, routeVars, storeVars
<1>3. late[e] \cap active = {} /\ active \subseteq Hooks
  BY <1>1 DEF SilentInv, EventInv
<1> HIDE DEF active
<1>4. CASE UNCHANGED <<trig, deliveryVars>> /\ found' = [found EXCEPT ![e] = active]
  <2>1. EventInv'
    BY <1>1, <1>3, <1>4 DEF SilentInv, EventInv, routeVars
  <2>2. DeletedStaysSilent'
    BY <1>1, <1>4, SilenceIsKept DEF SilentInv, deliveryVars
  <2> QED BY <1>2, <2>1, <2>2 DEF SilentInv
<1>5. CASE /\ trig' = [trig EXCEPT ![e] = "done"]
           /\ found' = [found EXCEPT ![e] = {}] /\ Deliver({e} \X active)
  <2>1. EventInv'
    BY <1>1, <1>5 DEF SilentInv, EventInv, routeVars, WebhooksInv, Unstarted
  <2>2. ASSUME NEW c \in Events, NEW g \in Hooks, g \in late'[c]
        PROVE  attemptCount'[<<c, g>>] = attemptCount[<<c, g>>] /\ g \in late[c]
    <3>1. <<c, g>> \in Deliveries /\ <<c, g>> \notin {e} \X active
      BY <1>1, <1>3, <2>2, DeliveriesAssumption
    <3> QED BY <1>1, <1>5, <2>2, <3>1 DEF Deliver
  <2>3. DeletedStaysSilent'
    BY <2>2, SilenceIsKept DEF SilentInv
  <2> QED BY <1>2, <2>1, <2>3 DEF SilentInv
<1> QED BY <1>4, <1>5 DEF ReadHook, active

LEMMA DeliveringKept ==
    ASSUME WebhooksInv, SilentInv, NEW d \in Deliveries, Delivering(d)
    PROVE  SilentInv'
<1>1. UNCHANGED <<storeVars, routeVars, triggerVars>>
  BY DEF Delivering
<1>2. RoutesInv' /\ EventInv'
  BY <1>1, EventsRest DEF RoutesInv, SilentInv, routeVars, storeVars
<1>3. ASSUME NEW e \in Events, NEW h \in Hooks, h \in late'[e]
      PROVE  attemptCount'[<<e, h>>] = attemptCount[<<e, h>>] /\ h \in late[e]
  <2>1. h \in late[e]
    BY <1>1, <1>3 DEF triggerVars
  <2>2. ~(attemptCount[<<e, h>>] > 0) /\ <<e, h>> \in Deliveries
    BY <2>1, DeliveriesAssumption DEF SilentInv, DeletedStaysSilent, Started
  <2>3. CASE Retry(d)
    <3>1. d # <<e, h>>
      BY <2>2, <2>3 DEF Retry, WebhooksInv, DeliveryInv, Begun
    <3> QED BY <2>1, <2>2, <2>3, <3>1
            DEF Retry, Begin, WebhooksInv, DeliveryInv, DeliveryTypes
  <2>4. Retry(d) \/ attemptCount' = attemptCount
    BY DEF Delivering, DeliveryStep, TryEnds, Checked, Answered, Ended, BodyCut, Errored,
           TimedOut
  <2> QED BY <2>1, <2>3, <2>4
<1> QED BY <1>2, <1>3, SilenceIsKept DEF SilentInv

LEMMA RestartKept ==
    ASSUME WebhooksInv, SilentInv, Restart
    PROVE  SilentInv'
<1>1. UNCHANGED <<storeVars, deleted, late>> /\ UNCHANGED attemptCount
  BY DEF Restart, DeliveriesLost
<1>2. RoutesInv'
  BY <1>1 DEF Restart, RoutesInv, SilentInv, storeVars
<1>3. EventInv'
  BY <1>1 DEF Restart, EventInv, SilentInv
<1>4. DeletedStaysSilent'
  BY <1>1, SilenceIsKept DEF SilentInv
<1> QED BY <1>2, <1>3, <1>4 DEF SilentInv

LEMMA SilentStep ==
    ASSUME WebhooksInv, SilentInv, [Next]_vars
    PROVE  SilentInv'
<1>1. ASSUME UNCHANGED <<deliveryVars, triggerVars>>, RoutesInv', deleted \subseteq deleted'
      PROVE  SilentInv'
  <2>1. DeletedStaysSilent'
    BY <1>1, SilenceIsKept DEF SilentInv, deliveryVars, triggerVars
  <2> QED BY <1>1, <2>1, EventsRest DEF SilentInv
<1>2. ASSUME NEW h \in Hooks, Routes(h)
      PROVE  SilentInv'
  <2>1. UNCHANGED <<deliveryVars, triggerVars>>
    BY <1>2 DEF Routes, CreateRecord, CreateIndex, DeleteLookup, DeleteRecord, DeleteIndex
  <2> QED BY <1>1, <1>2, <2>1, RoutesKept DEF SilentInv
<1>3. ASSUME NEW h \in Hooks, Expire(h)
      PROVE  SilentInv'
  <2>1. UNCHANGED <<deliveryVars, triggerVars, routeVars>> /\ indexed' \subseteq indexed
    BY <1>3 DEF Expire
  <2>2. RoutesInv' /\ deleted \subseteq deleted'
    BY <2>1 DEF RoutesInv, SilentInv, routeVars
  <2> QED BY <1>1, <2>1, <2>2
<1>4. ASSUME UNCHANGED <<deliveryVars, triggerVars, routeVars, indexed>>
      PROVE  SilentInv'
  <2>1. RoutesInv' /\ deleted \subseteq deleted'
    BY <1>4 DEF RoutesInv, SilentInv, routeVars
  <2> QED BY <1>1, <1>4, <2>1
<1>5. ASSUME NEW d \in Deliveries, Bookkeeping(d) \/ BookFails(d)
      PROVE  UNCHANGED <<deliveryVars, triggerVars, routeVars, indexed>>
  BY <1>5 DEF Bookkeeping, RecordDelivery, ScanHistory, Prune, ReadRecord, WriteRecord,
              BookFails, storeVars
<1>6. CASE UNCHANGED vars
  BY <1>4, <1>6 DEF vars, storeVars
<1> QED BY <1>2, <1>3, <1>4, <1>5, <1>6, TriggerKept, ReadKept, DeliveringKept, RestartKept
        DEF Next, Triggering

(***************************************************************************)
(* webhooks.routes.ts:142, webhookStore.ts:262: whatever bookkeeping       *)
(* writes the record of a deleted webhook again, and whatever fails, an    *)
(* event that comes after the answer to its DELETE is not delivered to it. *)
(***************************************************************************)
THEOREM DeletedHooksStaySilent == Spec => []DeletedStaysSilent
<1>1. Init => WebhooksInv /\ SilentInv
  <2>1. Init => SilentInv
    BY DeliveriesAssumption DEF Init, DeliveryInit, SilentInv, RoutesInv, EventInv,
                                DeletedStaysSilent
  <2> QED BY <2>1, WebhooksBegin
<1>2. WebhooksInv /\ SilentInv /\ [Next]_vars => WebhooksInv' /\ SilentInv'
  BY WebhooksStep, SilentStep
<1>3. SilentInv => DeletedStaysSilent
  BY DEF SilentInv
<1> QED BY <1>1, <1>2, <1>3, PTL DEF Spec

-----------------------------------------------------------------------------
(* Types *)

Record == [fails : Nat, status : {"absent", "active", "failed"}]

\* The parts of TypeOK that the invariants above do not have.
BookTypes ==
    /\ attemptCount \in [Deliveries -> 0 .. MaxTries]
    /\ record \in [Hooks -> Record]
    /\ history \in [Hooks -> Seq(Deliveries)]
    /\ raced \subseteq Hooks
    /\ book \in [Deliveries -> {"none", "scan", "prune", "get", "put", "done"}]
    /\ doomed \in [Deliveries -> SUBSET Deliveries]
    /\ copy \in [Deliveries -> Record]
    /\ expected \in [Hooks -> Nat]
    /\ restarts \in 0 .. MaxTroubles /\ faults \in 0 .. MaxTroubles
    /\ expiries \in 0 .. MaxTroubles

LEMMA HookIsHook ==
    ASSUME NEW d \in Deliveries
    PROVE  Hook(d) \in Hooks
<1>1. PICK e \in Events, h \in Hooks : d = <<e, h>>
  BY DeliveriesAssumption
<1> QED BY <1>1 DEF Hook

LEMMA RecordTypes ==
    /\ Fresh \in Record /\ Absent \in Record /\ Fresh # Absent
    /\ \A result : \A r \in Record : Booked(r, result) \in Record
<1>1. Fresh \in Record /\ Absent \in Record
  BY DEF Fresh, Absent, Record
<1>2. Fresh.status = "active" /\ Absent.status = "absent"
  BY DEF Fresh, Absent
<1>3. ASSUME NEW r \in Record, NEW result PROVE Booked(r, result) \in Record
  <2>1. r.fails \in Nat /\ r.status \in {"absent", "active", "failed"}
    BY DEF Record
  <2>2. /\ r.fails + 1 \in Nat
        /\ (IF r.fails + 1 >= FailLimit THEN "failed" ELSE r.status)
              \in {"absent", "active", "failed"}
    BY <2>1
  <2> QED BY <1>1, <2>2 DEF Booked, Record
<1> QED BY <1>1, <1>2, <1>3

LEMMA TroubleBounds ==
    ASSUME BookTypes, Trouble
    PROVE  {restarts + 1, faults + 1, expiries + 1} \subseteq 0 .. MaxTroubles
  BY HookBoundsAssumption DEF BookTypes, Trouble

LEMMA FirstPosition ==
    ASSUME NEW list \in Seq(Deliveries), NEW o, \E i \in 1 .. Len(list) : list[i] = o
    PROVE  \E i \in 1 .. Len(list) : list[i] = o /\ i = SelectInSeq(list, LAMBDA v : v = o)
<1> DEFINE Places == { i \in 1 .. Len(list) : list[i] = o }
<1>1. Places # {} /\ Places \subseteq Nat
  BY LenProperties
<1>2. PICK x \in Places : \A y \in Places : ~ (<<y, x>> \in OpToRel(<, Nat))
  BY <1>1, WFMin, NatLessThanWellFounded, Zenon
<1>3. ASSUME NEW y \in Places PROVE x <= y
  <2>1. x \in Nat /\ y \in Nat
    BY <1>1
  <2>2. y < x => <<y, x>> \in { p \in Nat \X Nat : p[1] < p[2] }
    BY <2>1
  <2>3. ~ (y < x)
    BY <2>2, <1>2, Zenon DEF OpToRel
  <2> QED BY <2>1, <2>3
<1>4. Min(Places) \in Places
  BY <1>3 DEF Min
<1>5. SelectInSeq(list, LAMBDA v : v = o) = Min(Places)
  BY <1>1 DEF SelectInSeq
<1> QED BY <1>4, <1>5

\* A position with o is cut out of the list, if there is one.
IsCut(list, o, rest) ==
    \/ o \notin ToSet(list) /\ rest = list
    \/ \E i \in 1 .. Len(list) :
          /\ list[i] = o
          /\ rest \in Seq(Deliveries) /\ Len(rest) = Len(list) - 1
          /\ \A k \in 1 .. Len(list) - 1 : rest[k] = IF k < i THEN list[k] ELSE list[k + 1]

LEMMA FirstIsCut ==
    ASSUME NEW list \in Seq(Deliveries), NEW o
    PROVE  IsCut(list, o, RemoveFirst(list, o))
<1>1. /\ Len(list) \in Nat /\ DOMAIN list = 1 .. Len(list)
      /\ \A k \in 1 .. Len(list) : list[k] \in Deliveries
  BY LenProperties, ElementOfSeq
<1>2. CASE ~ \E i \in 1 .. Len(list) : list[i] = o
  BY <1>1, <1>2 DEF RemoveFirst, ToSet, IsCut
<1>3. CASE \E i \in 1 .. Len(list) : list[i] = o
  <2> DEFINE i == SelectInSeq(list, LAMBDA v : v = o)
             before == SubSeq(list, 1, i - 1)
             after == SubSeq(list, i + 1, Len(list))
  <2>1. RemoveFirst(list, o) = before \o after
    BY <1>3 DEF RemoveFirst, RemoveAt
  <2>2. i \in 1 .. Len(list) /\ list[i] = o
    <3>1. \E k \in 1 .. Len(list) : list[k] = o /\ k = i
      BY <1>3, FirstPosition, Zenon
    <3> QED BY <3>1, Zenon
  <2> HIDE DEF i
  <2>3. /\ before \in Seq(Deliveries) /\ Len(before) = i - 1
        /\ \A k \in 1 .. i - 1 : before[k] = list[k]
    <3>1. \A k \in 1 .. i - 1 : list[k] \in Deliveries
      BY <1>1, <2>2
    <3>2. i - 1 \in Int /\ (1 <= i - 1 => i - 1 - 1 + 1 = i - 1) /\ (~(1 <= i - 1) => i - 1 = 0)
      BY <1>1, <2>2
    <3> QED BY <1>1, <2>2, <3>1, <3>2, SubSeqProperties
  <2>4. /\ after \in Seq(Deliveries) /\ Len(after) = Len(list) - i
        /\ \A k \in 1 .. Len(list) - i : after[k] = list[k + i]
    <3>1. \A k \in i + 1 .. Len(list) : list[k] \in Deliveries
      BY <1>1, <2>2
    <3>2. i + 1 \in Int /\ Len(list) \in Int
      BY <1>1, <2>2
    <3>3. /\ after \in Seq(Deliveries)
          /\ Len(after) = IF i + 1 <= Len(list) THEN Len(list) - (i + 1) + 1 ELSE 0
          /\ \A k \in 1 .. Len(list) - (i + 1) + 1 : after[k] = list[(i + 1) + k - 1]
      BY <3>1, <3>2, SubSeqProperties
    <3> HIDE DEF after
    <3>4. /\ (IF i + 1 <= Len(list) THEN Len(list) - (i + 1) + 1 ELSE 0) = Len(list) - i
          /\ Len(list) - (i + 1) + 1 = Len(list) - i
      <4>1. Len(list) \in Int /\ i \in Int /\ i <= Len(list)
        BY <1>1, <2>2
      <4> QED BY <4>1
    <3>5. \A k \in 1 .. Len(list) - i : (i + 1) + k - 1 = k + i
      BY <1>1, <2>2
    <3> QED BY <3>3, <3>4, <3>5
  <2> HIDE DEF before, after
  <2>5. /\ before \o after \in Seq(Deliveries)
        /\ Len(before \o after) = Len(before) + Len(after)
        /\ \A k \in 1 .. Len(before) + Len(after) :
              (before \o after)[k] =
                 IF k <= Len(before) THEN before[k] ELSE after[k - Len(before)]
    BY <2>3, <2>4, ConcatProperties, Zenon
  <2>6. ASSUME NEW k \in 1 .. Len(list) - 1
        PROVE  (before \o after)[k] = IF k < i THEN list[k] ELSE list[k + 1]
    <3>1. CASE k < i
      <4>1. k \in 1 .. Len(before) + Len(after) /\ k <= Len(before) /\ k \in 1 .. i - 1
        BY <1>1, <2>2, <2>3, <2>4, <3>1
      <4> QED BY <2>3, <2>5, <3>1, <4>1
    <3>2. CASE ~(k < i)
      <4>1. /\ k \in 1 .. Len(before) + Len(after) /\ ~(k <= Len(before))
            /\ k - (i - 1) \in 1 .. Len(list) - i /\ k - (i - 1) + i = k + 1
        BY <1>1, <2>2, <2>3, <2>4, <3>2
      <4> QED BY <2>3, <2>4, <2>5, <3>2, <4>1
    <3> QED BY <3>1, <3>2
  <2>7. Len(before \o after) = Len(list) - 1
    BY <1>1, <2>2, <2>3, <2>4, <2>5
  <2> QED BY <2>1, <2>2, <2>5, <2>6, <2>7 DEF IsCut
<1> QED BY <1>2, <1>3

LEMMA RemoveFirstType ==
    ASSUME NEW list \in Seq(Deliveries), NEW o
    PROVE  RemoveFirst(list, o) \in Seq(Deliveries)
  BY FirstIsCut DEF IsCut

LEMMA OldestType ==
    ASSUME NEW list \in Seq(Deliveries)
    PROVE  Oldest(list) = { list[i] : i \in 1 .. Len(list) - Keep } /\ Oldest(list) \subseteq Deliveries
<1> DEFINE n == Len(list) - Keep
           old == SubSeq(list, 1, n)
<1>1. /\ Len(list) \in Nat /\ n \in Int /\ n <= Len(list)
      /\ \A i \in 1 .. Len(list) : list[i] \in Deliveries
  BY LenProperties, ElementOfSeq, HookLimitsAssumption
<1>2. /\ old \in Seq(Deliveries) /\ Len(old) = IF 1 <= n THEN n - 1 + 1 ELSE 0
      /\ \A i \in 1 .. n - 1 + 1 : old[i] = list[1 + i - 1]
  <2>1. \A i \in 1 .. n : list[i] \in Deliveries
    BY <1>1
  <2> HIDE DEF n
  <2> QED BY <1>1, <2>1, SubSeqProperties
<1>3. DOMAIN old = 1 .. Len(old) /\ ToSet(old) = { old[i] : i \in DOMAIN old }
  BY <1>2, LenProperties DEF ToSet
<1> HIDE DEF n, old
<1>4. DOMAIN old = 1 .. n /\ \A i \in 1 .. n : old[i] = list[i]
  <2>1. CASE 1 <= n
    BY <1>1, <1>2, <1>3, <2>1
  <2>2. CASE ~(1 <= n)
    BY <1>1, <1>2, <1>3, <2>2
  <2> QED BY <2>1, <2>2
<1>5. ToSet(old) = { list[i] : i \in 1 .. n }
  BY <1>3, <1>4
<1>6. \A i \in 1 .. n : list[i] \in Deliveries
  BY <1>1
<1> QED BY <1>5, <1>6 DEF Oldest, n, old

\* A step that leaves the books alone.
LEMMA BookTypesRest ==
    ASSUME BookTypes, UNCHANGED <<attemptCount, record, history, bookVars, boundVars>>
    PROVE  BookTypes'
  BY DEF BookTypes, bookVars, boundVars

LEMMA RouteTypes ==
    ASSUME BookTypes, NEW h \in Hooks, Routes(h) \/ Expire(h)
    PROVE  BookTypes'
<1>1. /\ UNCHANGED <<attemptCount, history, bookVars>>
      /\ record' \in {record, [record EXCEPT ![h] = Fresh], [record EXCEPT ![h] = Absent]}
  BY DEF Routes, Expire, CreateRecord, CreateIndex, DeleteLookup, DeleteRecord, DeleteIndex,
         deliveryVars, storeVars
<1>2. record' \in [Hooks -> Record]
  BY <1>1, RecordTypes DEF BookTypes
<1>3. /\ UNCHANGED boundVars \/ Fault
         \/ (Trouble /\ expiries' = expiries + 1 /\ UNCHANGED <<restarts, faults>>)
  BY DEF Routes, Expire, CreateRecord, CreateIndex, DeleteLookup, DeleteRecord, DeleteIndex
<1>4. {restarts', faults', expiries'} \subseteq 0 .. MaxTroubles
  BY <1>3, TroubleBounds DEF Fault, BookTypes, boundVars
<1> QED BY <1>1, <1>2, <1>4 DEF BookTypes, bookVars

LEMMA EventTypes ==
    ASSUME BookTypes, NEW e \in Events, Trigger(e) \/ Triggering(e) \/ TriggerFails(e)
    PROVE  BookTypes'
<1>1. CASE TriggerFails(e)
  <2>1. {restarts', faults', expiries'} \subseteq 0 .. MaxTroubles
    BY <1>1, TroubleBounds DEF TriggerFails, Fault, BookTypes
  <2> QED BY <1>1, <2>1 DEF TriggerFails, BookTypes, bookVars, deliveryVars, storeVars
<1>2. CASE Trigger(e) \/ ScanIndex(e)
  BY <1>2, BookTypesRest DEF Trigger, ScanIndex, deliveryVars, storeVars
<1>3. ASSUME NEW h \in Hooks, ReadHook(e, h)
      PROVE  BookTypes'
  <2>1. UNCHANGED <<record, history, bookVars, boundVars>>
    BY <1>3 DEF ReadHook, storeVars
  <2>2. attemptCount' \in [Deliveries -> 0 .. MaxTries]
    <3>1. 1 \in 0 .. MaxTries
      BY TriesAssumption
    <3>2. ASSUME NEW ds, Deliver(ds)
          PROVE  attemptCount' \in [Deliveries -> 0 .. MaxTries]
      BY <3>1, <3>2 DEF Deliver, BookTypes
    <3>3. CASE UNCHANGED deliveryVars
      BY <3>3 DEF deliveryVars, BookTypes
    <3> QED BY <1>3, <3>2, <3>3 DEF ReadHook
  <2> QED BY <2>1, <2>2 DEF BookTypes, bookVars, boundVars
<1> QED BY <1>1, <1>2, <1>3 DEF Triggering

LEMMA TryTypes ==
    ASSUME BookTypes, NEW d \in Deliveries, Delivering(d)
    PROVE  BookTypes'
<1>1. UNCHANGED <<record, history, bookVars, boundVars>> /\ DeliveryStep(d)
  BY DEF Delivering, storeVars
<1>2. attemptCount' \in [Deliveries -> 0 .. MaxTries]
  <2>1. attemptCount[d] \in 0 .. MaxTries /\ MaxTries \in Nat
    BY TriesAssumption DEF BookTypes
  <2>2. \/ attemptCount' = attemptCount
        \/ attemptCount[d] < MaxTries /\ attemptCount' = [attemptCount EXCEPT ![d] = @ + 1]
    BY <1>1 DEF DeliveryStep, Retry, Begin, TryEnds, Checked, Answered, Ended, BodyCut, Errored,
       TimedOut
  <2>3. attemptCount[d] < MaxTries => attemptCount[d] + 1 \in 0 .. MaxTries
    BY <2>1
  <2> QED BY <2>2, <2>3 DEF BookTypes
<1> QED BY <1>1, <1>2 DEF BookTypes, bookVars, boundVars

LEMMA BookingTypes ==
    ASSUME BookTypes, NEW d \in Deliveries, Bookkeeping(d) \/ BookFails(d)
    PROVE  BookTypes'
<1>1. Hook(d) \in Hooks
  BY HookIsHook
<1>2. CASE RecordDelivery(d)
  <2>1. Append(history[Hook(d)], d) \in Seq(Deliveries)
    BY <1>1, AppendProperties DEF BookTypes
  <2> QED BY <1>1, <1>2, <2>1 DEF RecordDelivery, BookAt, BookTypes, deliveryVars, boundVars
<1>3. CASE ScanHistory(d)
  <2>1. Oldest(history[Hook(d)]) \subseteq Deliveries
    BY <1>1, OldestType DEF BookTypes
  <2> QED BY <1>3, <2>1 DEF ScanHistory, BookAt, BookTypes, deliveryVars, storeVars, boundVars
<1>4. CASE Prune(d)
  <2>1. PICK o \in doomed[d] :
          /\ history' = [history EXCEPT ![Hook(d)] = RemoveFirst(@, o)]
          /\ doomed' = [doomed EXCEPT ![d] = @ \ {o}]
    BY <1>4 DEF Prune
  <2>2. RemoveFirst(history[Hook(d)], o) \in Seq(Deliveries)
    BY <1>1, RemoveFirstType DEF BookTypes
  <2>3. history' \in [Hooks -> Seq(Deliveries)] /\ doomed' \in [Deliveries -> SUBSET Deliveries]
    BY <1>1, <2>1, <2>2 DEF BookTypes
  <2> QED BY <1>4, <2>3 DEF Prune, BookAt, BookTypes, deliveryVars, boundVars
<1>5. CASE ReadRecord(d)
  BY <1>1, <1>5 DEF ReadRecord, BookAt, BookTypes, deliveryVars, storeVars, boundVars
<1>6. CASE WriteRecord(d)
  <2>1. Booked(copy[d], outcome[d]) \in Record
    BY RecordTypes DEF BookTypes
  <2>2. (IF outcome[d] = "success" THEN 0 ELSE expected[Hook(d)] + 1) \in Nat
    BY <1>1 DEF BookTypes
  <2> QED BY <1>1, <1>6, <2>1, <2>2, RecordTypes
          DEF WriteRecord, BookAt, BookTypes, deliveryVars, boundVars
<1>7. CASE BookFails(d)
  <2>1. {restarts', faults', expiries'} \subseteq 0 .. MaxTroubles
    BY <1>7, TroubleBounds DEF BookFails, Fault, BookTypes
  <2> QED BY <1>7, <2>1, RecordTypes DEF BookFails, BookAt, BookTypes, deliveryVars, storeVars
<1> QED BY <1>2, <1>3, <1>4, <1>5, <1>6, <1>7 DEF Bookkeeping

LEMMA BookTypesStep ==
    ASSUME BookTypes, [Next]_vars
    PROVE  BookTypes'
<1>1. CASE Restart
  <2>1. {restarts', faults', expiries'} \subseteq 0 .. MaxTroubles
    BY <1>1, TroubleBounds DEF Restart, BookTypes
  <2> QED BY <1>1, <2>1, RecordTypes DEF Restart, DeliveriesLost, BookTypes, storeVars
<1>2. CASE UNCHANGED vars
  BY <1>2, BookTypesRest DEF vars, deliveryVars, storeVars
<1> QED BY <1>1, <1>2, RouteTypes, EventTypes, TryTypes, BookingTypes DEF Next

LEMMA BookTypesBegin == Init => BookTypes
  BY RecordTypes, TriesAssumption, HookBoundsAssumption, EmptySeq
     DEF Init, DeliveryInit, BookTypes

(***************************************************************************)
(* webhookStore.ts, webhookDispatcher.ts: the keys in Redis and the locals *)
(* of the requests, events and deliveries have their types.                *)
(***************************************************************************)
THEOREM WebhooksTyped == Spec => []TypeOK
<1>1. Init => WebhooksInv /\ SilentInv /\ BookTypes
  <2>1. Init => SilentInv
    BY DeliveriesAssumption DEF Init, DeliveryInit, SilentInv, RoutesInv, EventInv,
                                DeletedStaysSilent
  <2> QED BY <2>1, WebhooksBegin, BookTypesBegin
<1>2. WebhooksInv /\ SilentInv /\ BookTypes /\ [Next]_vars
        => WebhooksInv' /\ SilentInv' /\ BookTypes'
  BY WebhooksStep, SilentStep, BookTypesStep
<1>3. WebhooksInv /\ SilentInv /\ BookTypes => TypeOK
  BY DEF WebhooksInv, DeliveryInv, DeliveryTypes, Unstarted, SilentInv, RoutesInv, EventInv,
         BookTypes, Record, TypeOK, DeliveryTypeOK
<1> QED BY <1>1, <1>2, <1>3, PTL DEF Spec

-----------------------------------------------------------------------------
(* Failures *)

\* Failed deliveries of h whose bookkeeping is over.
BookedFailures(h) == { d \in FailedOf(h) : book[d] = "done" }

\* A record that n failed deliveries account for.
Justified(r, n) == r.fails <= n /\ (r.status = "failed" => n >= FailLimit)

\* A delivery counts once, when its bookkeeping ends: a copy that it holds
\* until then was written by others, however old it is.
RealInv ==
    /\ IsFiniteSet({ d \in Deliveries : outcome[d] # "none" })
    /\ \A d \in Deliveries : book[d] # "none" => outcome[d] # "none"
    /\ \A h \in Hooks : Justified(record[h], Cardinality(BookedFailures(h)))
    /\ \A d \in Deliveries :
          book[d] = "put" => Justified(copy[d], Cardinality(BookedFailures(Hook(d))))

\* A result is final, and one step gives at most one.
LEMMA OutcomeStep ==
    ASSUME WebhooksInv, [Next]_vars
    PROVE  /\ \A d \in Deliveries : outcome[d] # "none" => outcome'[d] = outcome[d]
           /\ UNCHANGED outcome \/ \E d \in Deliveries :
                \A c \in Deliveries \ {d} : outcome'[c] = outcome[c]
<1>1. outcome \in [Deliveries -> Outcome]
  BY DEF WebhooksInv, DeliveryInv, DeliveryTypes
<1>2. ASSUME NEW d \in Deliveries, NEW result, Resolve(d, result)
      PROVE  /\ \A c \in Deliveries : outcome[c] # "none" => outcome'[c] = outcome[c]
             /\ \A c \in Deliveries \ {d} : outcome'[c] = outcome[c]
  BY <1>1, <1>2 DEF Resolve
<1>3. ASSUME NEW d \in Deliveries, Delivering(d), ~UNCHANGED outcome
      PROVE  \E result : Resolve(d, result)
  BY <1>3 DEF Delivering, DeliveryStep, Retry, TryEnds, Checked, Answered, Ended, BodyCut, Errored,
     TimedOut, Failed
<1>4. (\E d \in Deliveries : Delivering(d)) \/ UNCHANGED outcome
  <2>1. ASSUME NEW h \in Hooks, Routes(h) \/ Expire(h) PROVE UNCHANGED outcome
    BY <2>1 DEF Routes, CreateRecord, CreateIndex, DeleteLookup, DeleteRecord, DeleteIndex, Expire,
       deliveryVars
  <2>2. ASSUME NEW e \in Events, Trigger(e) \/ Triggering(e) \/ TriggerFails(e)
        PROVE  UNCHANGED outcome
    BY <2>2 DEF Trigger, Triggering, TriggerFails, ScanIndex, ReadHook, Deliver, deliveryVars
  <2>3. ASSUME NEW d \in Deliveries, Bookkeeping(d) \/ BookFails(d) PROVE UNCHANGED outcome
    BY <2>3 DEF Bookkeeping, BookFails, RecordDelivery, ScanHistory, Prune, ReadRecord, WriteRecord,
       deliveryVars
  <2>4. Restart \/ UNCHANGED vars => UNCHANGED outcome
    BY DEF Restart, DeliveriesLost, vars, deliveryVars
  <2> QED BY <2>1, <2>2, <2>3, <2>4 DEF Next
<1> QED BY <1>2, <1>3, <1>4

LEMMA BookMoves ==
    ASSUME BookTypes, NEW d \in Deliveries, NEW s, BookAt(d, s)
    PROVE  book'[d] = s /\ \A c \in Deliveries \ {d} : book'[c] = book[c]
  BY DEF BookAt, BookTypes

\* What a step does to the record of a webhook and to the book of a delivery.
LEMMA BookSteps ==
    ASSUME BookTypes, [Next]_vars
    PROVE  /\ \A h \in Hooks : record'[h] # record[h] =>
                 \/ record'[h] \in {Fresh, Absent}
                 \/ \E d \in Deliveries : WriteRecord(d) /\ Hook(d) = h
           /\ \A d \in Deliveries : book'[d] = "put" =>
                 (book[d] = "put" /\ copy'[d] = copy[d]) \/ ReadRecord(d)
           /\ \A d \in Deliveries :
                 book[d] = "done" /\ outcome[d] # "none" => book'[d] = "done"
           /\ \A d \in Deliveries : book'[d] # "none" => book[d] # "none" \/ outcome[d] # "none"
<1>1. ASSUME NEW h \in Hooks, Routes(h) \/ Expire(h)
      PROVE  /\ UNCHANGED bookVars
             /\ \A g \in Hooks : record'[g] # record[g] => record'[g] \in {Fresh, Absent}
  BY <1>1 DEF Routes, Expire, CreateRecord, CreateIndex, DeleteLookup, DeleteRecord, DeleteIndex,
     storeVars, BookTypes
<1>2. ASSUME NEW e \in Events, Trigger(e) \/ Triggering(e) \/ TriggerFails(e)
      PROVE  UNCHANGED <<bookVars, record>>
  BY <1>2 DEF Trigger, Triggering, TriggerFails, ScanIndex, ReadHook, storeVars
<1>3. ASSUME NEW d \in Deliveries, Delivering(d)
      PROVE  UNCHANGED <<bookVars, record>>
  BY <1>3 DEF Delivering, storeVars
<1>4. ASSUME NEW d \in Deliveries, Bookkeeping(d) \/ BookFails(d)
      PROVE  /\ \A c \in Deliveries \ {d} : book'[c] = book[c] /\ copy'[c] = copy[c]
             /\ ~WriteRecord(d) => UNCHANGED record
             /\ WriteRecord(d) => \A g \in Hooks \ {Hook(d)} : record'[g] = record[g]
             /\ book'[d] = "put" => ReadRecord(d)
             /\ book[d] # "done"
             /\ book[d] # "none" \/ outcome[d] # "none"
  <2>2. CASE RecordDelivery(d)
    BY BookMoves, <2>2 DEF RecordDelivery
  <2>3. CASE ScanHistory(d)
    BY BookMoves, <2>3 DEF ScanHistory, storeVars, WriteRecord
  <2>4. CASE Prune(d)
    BY BookMoves, <2>4 DEF Prune
  <2>5. CASE ReadRecord(d)
    BY BookMoves, <2>5 DEF ReadRecord, BookTypes, storeVars
  <2>6. CASE WriteRecord(d)
    BY BookMoves, <2>6 DEF WriteRecord, BookTypes
  <2>7. CASE BookFails(d)
    BY BookMoves, <2>7 DEF BookFails, BookTypes, storeVars
  <2> QED BY <1>4, <2>2, <2>3, <2>4, <2>5, <2>6, <2>7 DEF Bookkeeping
<1>5. CASE Restart
  <2>1. UNCHANGED record
    BY <1>5 DEF Restart, storeVars
  <2>2. \A d \in Deliveries : book'[d] = IF outcome[d] = "none" THEN "none" ELSE "done"
    BY <1>5 DEF Restart
  <2> QED BY <2>1, <2>2
<1>6. CASE UNCHANGED <<bookVars, record>>
  BY <1>6 DEF bookVars
<1>7. UNCHANGED vars => UNCHANGED <<bookVars, record>>
  BY DEF vars, storeVars
<1>8. ASSUME NEW h \in Hooks, Routes(h) \/ Expire(h)
      PROVE  /\ \A g \in Hooks : record'[g] # record[g] => record'[g] \in {Fresh, Absent}
             /\ UNCHANGED <<book, copy>>
  BY <1>1, <1>8 DEF bookVars
<1>9. ASSUME NEW d \in Deliveries, Bookkeeping(d) \/ BookFails(d)
      PROVE  /\ \A h \in Hooks : record'[h] # record[h] => WriteRecord(d) /\ Hook(d) = h
             /\ \A c \in Deliveries : book'[c] = "put" =>
                   (book[c] = "put" /\ copy'[c] = copy[c]) \/ ReadRecord(c)
             /\ \A c \in Deliveries : book[c] = "done" => book'[c] = "done"
             /\ \A c \in Deliveries : book'[c] # "none" => book[c] # "none" \/ outcome[c] # "none"
  BY <1>4, <1>9
<1> QED BY <1>2, <1>3, <1>5, <1>6, <1>7, <1>8, <1>9 DEF Next

LEMMA BookedGrow ==
    ASSUME WebhooksInv, BookTypes, RealInv, [Next]_vars
    PROVE  /\ IsFiniteSet({ d \in Deliveries : outcome[d] # "none" })'
           /\ (\A d \in Deliveries : book[d] # "none" => outcome[d] # "none")'
           /\ \A h \in Hooks :
                 /\ IsFiniteSet(BookedFailures(h)) /\ IsFiniteSet(BookedFailures(h)')
                 /\ BookedFailures(h) \subseteq BookedFailures(h)'
                 /\ Cardinality(BookedFailures(h)) \in Nat
                 /\ Cardinality(BookedFailures(h)') \in Nat
                 /\ Cardinality(BookedFailures(h)) <= Cardinality(BookedFailures(h)')
<1> DEFINE Over0 == { d \in Deliveries : outcome[d] # "none" }
           Over1 == { d \in Deliveries : outcome'[d] # "none" }
<1>1. IsFiniteSet(Over1)
  <2>1. IsFiniteSet(Over0)
    BY DEF RealInv
  <2>2. CASE UNCHANGED outcome
    BY <2>1, <2>2
  <2>3. ASSUME NEW d \in Deliveries, \A c \in Deliveries \ {d} : outcome'[c] = outcome[c]
        PROVE  IsFiniteSet(Over1)
    <3>1. IsFiniteSet(Over0 \cup {d})
      BY <2>1, FS_AddElement
    <3>2. Over1 \subseteq Over0 \cup {d}
      BY <2>3
    <3> QED BY <3>1, <3>2, FS_Subset
  <2> QED BY <2>2, <2>3, OutcomeStep
<1>2. \A d \in Deliveries : book'[d] # "none" => outcome'[d] # "none"
  BY OutcomeStep, BookSteps DEF RealInv
<1>3. ASSUME NEW h \in Hooks
      PROVE  /\ IsFiniteSet(BookedFailures(h)) /\ IsFiniteSet(BookedFailures(h)')
             /\ BookedFailures(h) \subseteq BookedFailures(h)'
  <2>1. BookedFailures(h) \subseteq Over0 /\ BookedFailures(h)' \subseteq Over1
    BY DEF BookedFailures, FailedOf
  <2>2. BookedFailures(h) \subseteq BookedFailures(h)'
    BY OutcomeStep, BookSteps DEF BookedFailures, FailedOf
  <2> QED BY <1>1, <2>1, <2>2, FS_Subset DEF RealInv
<1>4. ASSUME NEW h \in Hooks
      PROVE  /\ Cardinality(BookedFailures(h)) \in Nat
             /\ Cardinality(BookedFailures(h)') \in Nat
             /\ Cardinality(BookedFailures(h)) <= Cardinality(BookedFailures(h)')
  BY <1>3, FS_CardinalityType, FS_Subset
<1> QED BY <1>1, <1>2, <1>3, <1>4

\* A written record: the failure it adds is that of the delivery itself.
LEMMA WrittenIsJustified ==
    ASSUME WebhooksInv, BookTypes, RealInv, [Next]_vars, NEW d \in Deliveries, WriteRecord(d)
    PROVE  Justified(record'[Hook(d)], Cardinality(BookedFailures(Hook(d))'))
<1> DEFINE h == Hook(d)
           n == Cardinality(BookedFailures(h))
           m == Cardinality(BookedFailures(h)')
<1>1. /\ h \in Hooks /\ book[d] = "put" /\ book'[d] = "done"
      /\ record'[h] = Booked(copy[d], outcome[d]) /\ UNCHANGED outcome
      /\ outcome[d] \in Outcome \ {"none"}
      /\ copy[d].fails \in Nat
  BY HookIsHook DEF WriteRecord, BookAt, BookTypes, deliveryVars, RealInv, WebhooksInv, DeliveryInv,
     DeliveryTypes, Record
<1>2. /\ Justified(copy[d], n) /\ n \in Nat /\ m \in Nat /\ n <= m
      /\ IsFiniteSet(BookedFailures(h)) /\ IsFiniteSet(BookedFailures(h)')
      /\ BookedFailures(h) \subseteq BookedFailures(h)'
  BY <1>1, BookedGrow DEF RealInv
<1>3. CASE outcome[d] = "success"
  <2>1. record'[h].fails = 0 /\ record'[h].status = "active"
    BY <1>1, <1>3 DEF Booked, Fresh
  <2> QED BY <1>2, <2>1 DEF Justified
<1>4. CASE outcome[d] # "success"
  <2>1. d \in BookedFailures(h)' /\ d \notin BookedFailures(h)
    BY <1>1, <1>4 DEF BookedFailures, FailedOf, Outcome
  <2>2. IsFiniteSet(BookedFailures(h) \cup {d}) /\ Cardinality(BookedFailures(h) \cup {d}) = n + 1
    BY <1>2, <2>1, FS_AddElement
  <2>3. BookedFailures(h) \cup {d} \subseteq BookedFailures(h)'
    BY <1>2, <2>1
  <2>4. n + 1 <= m
    BY <1>2, <2>2, <2>3, FS_Subset
  <2>5. /\ record'[h].fails = copy[d].fails + 1
        /\ record'[h].status = IF copy[d].fails + 1 >= FailLimit THEN "failed" ELSE copy[d].status
    BY <1>1, <1>4 DEF Booked
  <2> HIDE DEF n, m
  <2>6. copy[d].fails <= n /\ (copy[d].status = "failed" => n >= FailLimit)
    BY <1>2 DEF Justified
  <2>7. copy[d].fails + 1 <= m /\ (copy[d].fails + 1 >= FailLimit => m >= FailLimit)
        /\ (n >= FailLimit => m >= FailLimit)
    BY <1>1, <1>2, <2>4, <2>6, HookLimitsAssumption
  <2> QED BY <2>5, <2>6, <2>7 DEF Justified, m
<1> QED BY <1>3, <1>4

LEMMA JustifiedStays ==
    ASSUME NEW r \in Record, NEW n \in Nat, NEW m \in Nat, n <= m, Justified(r, n)
    PROVE  Justified(r, m)
<1>1. r.fails \in Nat
  BY DEF Record
<1> QED BY <1>1, HookLimitsAssumption DEF Justified

LEMMA RealStep ==
    ASSUME WebhooksInv, BookTypes, RealInv, [Next]_vars
    PROVE  RealInv'
<1>1. ASSUME NEW h \in Hooks
      PROVE  Justified(record[h], Cardinality(BookedFailures(h)'))
  BY BookedGrow, JustifiedStays DEF RealInv, BookTypes
<1>2. ASSUME NEW h \in Hooks
      PROVE  Justified(record'[h], Cardinality(BookedFailures(h)'))
  <2>1. CASE record'[h] = record[h]
    BY <1>1, <2>1
  <2>2. CASE record'[h] \in {Fresh, Absent}
    <3>1. record'[h].fails = 0 /\ record'[h].status # "failed"
      BY <2>2 DEF Fresh, Absent
    <3> QED BY <3>1, BookedGrow DEF Justified
  <2>3. ASSUME NEW d \in Deliveries, WriteRecord(d), Hook(d) = h
        PROVE  Justified(record'[h], Cardinality(BookedFailures(h)'))
    BY <2>3, WrittenIsJustified
  <2> QED BY <2>1, <2>2, <2>3, BookSteps
<1>3. ASSUME NEW d \in Deliveries, book'[d] = "put"
      PROVE  Justified(copy'[d], Cardinality(BookedFailures(Hook(d))'))
  <2>1. Hook(d) \in Hooks
    BY HookIsHook
  <2>2. CASE book[d] = "put" /\ copy'[d] = copy[d]
    <3>1. Justified(copy[d], Cardinality(BookedFailures(Hook(d))'))
      BY <2>1, <2>2, BookedGrow, JustifiedStays DEF RealInv, BookTypes
    <3> QED BY <2>2, <3>1
  <2>3. CASE ReadRecord(d)
    <3>1. copy'[d] = record[Hook(d)]
      BY <2>3 DEF ReadRecord, BookTypes
    <3> QED BY <1>1, <2>1, <3>1
  <2> QED BY <1>3, <2>2, <2>3, BookSteps
<1>4. \A h \in Hooks : Cardinality(BookedFailures(h))' = Cardinality(BookedFailures(h)')
  OBVIOUS
<1> QED BY <1>2, <1>3, BookedGrow DEF RealInv

LEMMA RealBegin == Init => RealInv
<1> SUFFICES ASSUME Init PROVE RealInv
  OBVIOUS
<1>1. \A d \in Deliveries : outcome[d] = "none" /\ book[d] = "none"
  BY DEF Init, DeliveryInit
<1>2. { d \in Deliveries : outcome[d] # "none" } = {}
      /\ \A h \in Hooks : BookedFailures(h) = {}
  BY <1>1 DEF BookedFailures, FailedOf
<1>3. \A h \in Hooks : Justified(record[h], 0)
  BY HookLimitsAssumption DEF Init, Absent, Justified
<1> QED BY <1>1, <1>2, <1>3, FS_EmptySet DEF RealInv

LEMMA RealIsReal ==
    ASSUME BookTypes, RealInv
    PROVE  FailuresAreReal
<1> SUFFICES ASSUME NEW h \in Hooks PROVE Justified(record[h], Cardinality(FailedOf(h)))
  BY DEF FailuresAreReal, Justified
<1>1. IsFiniteSet(FailedOf(h))
  <2>1. FailedOf(h) \subseteq { d \in Deliveries : outcome[d] # "none" }
    BY DEF FailedOf
  <2> QED BY <2>1, FS_Subset DEF RealInv
<1>2. BookedFailures(h) \subseteq FailedOf(h)
  BY DEF BookedFailures
<1>3. /\ Cardinality(BookedFailures(h)) \in Nat /\ Cardinality(FailedOf(h)) \in Nat
      /\ Cardinality(BookedFailures(h)) <= Cardinality(FailedOf(h))
  BY <1>1, <1>2, FS_Subset, FS_CardinalityType
<1> QED BY <1>3, JustifiedStays DEF RealInv, BookTypes

(***************************************************************************)
(* webhookStore.ts:254: however many updates of its record are lost, a     *)
(* webhook is charged with no more failures than deliveries to it have     *)
(* failed, and is disabled only when FailLimit of them did.                *)
(***************************************************************************)
THEOREM DisabledForAReason == Spec => []FailuresAreReal
<1>1. Init => WebhooksInv /\ BookTypes /\ RealInv
  BY WebhooksBegin, BookTypesBegin, RealBegin
<1>2. WebhooksInv /\ BookTypes /\ RealInv /\ [Next]_vars => WebhooksInv' /\ BookTypes' /\ RealInv'
  BY WebhooksStep, BookTypesStep, RealStep
<1>3. BookTypes /\ RealInv => FailuresAreReal
  BY RealIsReal
<1> QED BY <1>1, <1>2, <1>3, PTL DEF Spec

-----------------------------------------------------------------------------
(* Exact books *)

Exact(r, h) ==
    r.fails = expected[h] /\ (r.status = "failed" <=> expected[h] >= FailLimit)

\* Unless two of its deliveries kept them at once, the record of a webhook,
\* and the copy a delivery is about to write, say what is expected.
ExactInv ==
    /\ \A h \in Hooks : create[h] = "new" =>
          /\ ~Exists(h) /\ expected[h] = 0
          /\ \A d \in Deliveries : Hook(d) = h => book[d] # "put"
    /\ \A h \in Hooks \ raced : Exists(h) => Exact(record[h], h)
    /\ \A d \in Deliveries : book[d] = "put" /\ Hook(d) \notin raced =>
          /\ Exact(copy[d], Hook(d))
          /\ \A c \in Deliveries : Hook(c) = Hook(d) /\ book[c] = "put" => c = d

\* A step that writes no count.
LEMMA ExactRest ==
    ASSUME BookTypes, ExactInv, UNCHANGED expected, raced \subseteq raced',
           \A h \in Hooks : create'[h] = "new" => create[h] = "new",
           \A h \in Hooks :
              \/ record'[h] = record[h] \/ record'[h] = Absent
              \/ create[h] = "new" /\ create'[h] # "new" /\ record'[h] = Fresh,
           \A d \in Deliveries : book'[d] = "put" => book[d] = "put" /\ copy'[d] = copy[d]
    PROVE  ExactInv'
<1>1. ASSUME NEW h \in Hooks, create'[h] = "new"
      PROVE  /\ ~Exists(h)' /\ expected'[h] = 0
             /\ \A d \in Deliveries : Hook(d) = h => book'[d] # "put"
  BY <1>1 DEF ExactInv, Exists
<1>2. ASSUME NEW h \in Hooks \ raced', Exists(h)'
      PROVE  Exact(record[h], h)' /\ UNCHANGED expected
  <2>1. CASE record'[h] = record[h]
    BY <1>2, <2>1 DEF ExactInv, Exists, Exact
  <2>2. CASE create[h] = "new" /\ record'[h] = Fresh
    <3>1. expected'[h] = 0 /\ ~(0 >= FailLimit)
      BY <2>2, HookLimitsAssumption DEF ExactInv
    <3> QED BY <2>2, <3>1 DEF Exact, Fresh
  <2> QED BY <1>2, <2>1, <2>2 DEF Exists
<1>3. ASSUME NEW d \in Deliveries, book'[d] = "put", Hook(d) \notin raced'
      PROVE  /\ Exact(copy[d], Hook(d))'
             /\ \A c \in Deliveries : Hook(c) = Hook(d) /\ book'[c] = "put" => c = d
  BY <1>3 DEF ExactInv, Exact
<1> QED BY <1>1, <1>2, <1>3 DEF ExactInv, Hook

LEMMA ExactRead ==
    ASSUME BookTypes, ExactInv, NEW d \in Deliveries, ReadRecord(d)
    PROVE  ExactInv'
<1>1. /\ UNCHANGED <<record, create, expected>> /\ Hook(d) \in Hooks
      /\ \A c \in Deliveries \ {d} : book'[c] = book[c] /\ copy'[c] = copy[c]
      /\ copy'[d] = record[Hook(d)]
      /\ book'[d] = IF Exists(Hook(d)) THEN "put" ELSE "done"
      /\ raced \subseteq raced'
      /\ Hook(d) \notin raced' =>
            \A c \in Deliveries : Hook(c) = Hook(d) => book[c] # "put"
  BY HookIsHook DEF ReadRecord, BookAt, BookTypes, storeVars, routeVars
<1>2. CASE ~Exists(Hook(d))
  BY <1>1, <1>2, ExactRest
<1>3. CASE Exists(Hook(d))
  <2>1. ASSUME NEW h \in Hooks, create'[h] = "new"
        PROVE  /\ ~Exists(h)' /\ expected'[h] = 0
               /\ \A c \in Deliveries : Hook(c) = h => book'[c] # "put"
    <3>1. h # Hook(d)
      BY <1>1, <1>3, <2>1 DEF ExactInv
    <3> QED BY <1>1, <2>1, <3>1 DEF ExactInv, Exists
  <2>2. ASSUME NEW h \in Hooks \ raced', Exists(h)'
        PROVE  Exact(record[h], h)'
    BY <1>1, <2>2 DEF ExactInv, Exists, Exact
  <2>3. ASSUME NEW c \in Deliveries, book'[c] = "put", Hook(c) \notin raced'
        PROVE  /\ Exact(copy[c], Hook(c))'
               /\ \A b \in Deliveries : Hook(b) = Hook(c) /\ book'[b] = "put" => b = c
    <3>1. CASE Hook(c) = Hook(d)
      <4>1. c = d /\ \A b \in Deliveries : Hook(b) = Hook(c) /\ book'[b] = "put" => b = d
        BY <1>1, <2>3, <3>1
      <4>2. Exact(record[Hook(d)], Hook(d)) /\ UNCHANGED expected
        BY <1>1, <1>3, <2>3, <3>1 DEF ExactInv
      <4> QED BY <1>1, <4>1, <4>2 DEF Exact
    <3>2. CASE Hook(c) # Hook(d)
      BY <1>1, <2>3, <3>2 DEF ExactInv, Exact
    <3> QED BY <3>1, <3>2
  <2> QED BY <2>1, <2>2, <2>3 DEF ExactInv, Hook
<1> QED BY <1>2, <1>3

LEMMA ExactWrite ==
    ASSUME BookTypes, ExactInv, NEW d \in Deliveries, WriteRecord(d)
    PROVE  ExactInv'
<1> DEFINE h == Hook(d)
<1>1. /\ UNCHANGED <<create, raced>> /\ h \in Hooks /\ book[d] = "put"
      /\ \A c \in Deliveries \ {d} : book'[c] = book[c] /\ copy'[c] = copy[c]
      /\ book'[d] = "done"
      /\ \A g \in Hooks \ {h} : record'[g] = record[g] /\ expected'[g] = expected[g]
      /\ record'[h] = Booked(copy[d], outcome[d])
      /\ expected'[h] = IF outcome[d] = "success" THEN 0 ELSE expected[h] + 1
  BY HookIsHook DEF WriteRecord, BookAt, BookTypes, routeVars
<1>2. create[h] # "new"
  BY <1>1 DEF ExactInv
<1>3. ASSUME h \notin raced
      PROVE  Exact(record[h], h)'
  <2>1. Exact(copy[d], h) /\ copy[d].fails \in Nat /\ expected[h] \in Nat
    BY <1>1, <1>3 DEF ExactInv, BookTypes, Record
  <2>2. CASE outcome[d] = "success"
    <3>1. record'[h].fails = 0 /\ record'[h].status = "active" /\ expected'[h] = 0
          /\ ~(0 >= FailLimit)
      BY <1>1, <2>2, HookLimitsAssumption DEF Booked, Fresh
    <3> QED BY <3>1 DEF Exact
  <2>3. CASE outcome[d] # "success"
    <3>1. /\ record'[h].fails = copy[d].fails + 1 /\ expected'[h] = expected[h] + 1
          /\ record'[h].status =
                IF copy[d].fails + 1 >= FailLimit THEN "failed" ELSE copy[d].status
      BY <1>1, <2>3 DEF Booked
    <3>2. copy[d].fails = expected[h] /\ (copy[d].status = "failed" <=> expected[h] >= FailLimit)
      BY <2>1 DEF Exact
    <3>3. expected[h] >= FailLimit => expected[h] + 1 >= FailLimit
      BY <2>1, HookLimitsAssumption
    <3> HIDE DEF h
    <3> QED BY <3>1, <3>2, <3>3 DEF Exact
  <2> QED BY <2>2, <2>3
<1>4. ASSUME NEW g \in Hooks, create'[g] = "new"
      PROVE  /\ ~Exists(g)' /\ expected'[g] = 0
             /\ \A c \in Deliveries : Hook(c) = g => book'[c] # "put"
  <2>1. g # h
    BY <1>1, <1>2, <1>4
  <2> QED BY <1>1, <1>4, <2>1 DEF ExactInv, Exists
<1>5. ASSUME NEW g \in Hooks \ raced', Exists(g)'
      PROVE  Exact(record[g], g)'
  <2>1. CASE g = h
    BY <1>1, <1>3, <1>5, <2>1
  <2>2. CASE g # h
    BY <1>1, <1>5, <2>2 DEF ExactInv, Exists, Exact
  <2> QED BY <2>1, <2>2
<1>6. ASSUME NEW c \in Deliveries, book'[c] = "put", Hook(c) \notin raced'
      PROVE  /\ Exact(copy[c], Hook(c))'
             /\ \A b \in Deliveries : Hook(b) = Hook(c) /\ book'[b] = "put" => b = c
  <2>1. c # d /\ book[c] = "put" /\ copy'[c] = copy[c] /\ Hook(c) \notin raced
    BY <1>1, <1>6
  <2>2. Hook(c) # h /\ Hook(c) \in Hooks
    BY <1>1, <2>1, HookIsHook DEF ExactInv
  <2> HIDE DEF h
  <2> QED BY <1>1, <2>1, <2>2 DEF ExactInv, Exact
<1> QED BY <1>4, <1>5, <1>6 DEF ExactInv, Hook

LEMMA ExactStep ==
    ASSUME BookTypes, RoutesInv, ExactInv, [Next]_vars
    PROVE  ExactInv'
<1>1. ASSUME NEW h \in Hooks, Routes(h) \/ Expire(h)
      PROVE  ExactInv'
  <2>1. UNCHANGED <<book, copy, expected, raced>>
    BY <1>1 DEF Routes, Expire, CreateRecord, CreateIndex, DeleteLookup, DeleteRecord, DeleteIndex,
       bookVars
  <2>2. \A g \in Hooks :
           /\ create'[g] = "new" => create[g] = "new"
           /\ \/ record'[g] = record[g] \/ record'[g] = Absent
              \/ create[g] = "new" /\ create'[g] # "new" /\ record'[g] = Fresh
    BY <1>1 DEF Routes, Expire, CreateRecord, CreateIndex, DeleteLookup, DeleteRecord, DeleteIndex,
       storeVars, routeVars, BookTypes, RoutesInv
  <2> QED BY <2>1, <2>2, ExactRest
<1>2. CASE UNCHANGED <<bookVars, record, create>>
  BY <1>2, ExactRest DEF bookVars
<1>3. ASSUME NEW e \in Events, Trigger(e) \/ Triggering(e) \/ TriggerFails(e)
      PROVE  UNCHANGED <<bookVars, record, create>>
  BY <1>3 DEF Trigger, Triggering, TriggerFails, ScanIndex, ReadHook, storeVars, routeVars
<1>4. ASSUME NEW d \in Deliveries, Delivering(d)
      PROVE  UNCHANGED <<bookVars, record, create>>
  BY <1>4 DEF Delivering, storeVars, routeVars
<1>5. ASSUME NEW d \in Deliveries,
             RecordDelivery(d) \/ ScanHistory(d) \/ Prune(d) \/ BookFails(d)
      PROVE  ExactInv'
  <2>1. UNCHANGED <<record, create, expected, raced>>
    BY <1>5 DEF RecordDelivery, ScanHistory, Prune, BookFails, storeVars, routeVars
  <2>2. \A c \in Deliveries : book'[c] = "put" => book[c] = "put" /\ copy'[c] = copy[c]
    <3>1. PICK s : BookAt(d, s) /\ s # "put"
      BY <1>5 DEF RecordDelivery, ScanHistory, Prune, BookFails
    <3>2. \A c \in Deliveries \ {d} : copy'[c] = copy[c]
      BY <1>5 DEF RecordDelivery, ScanHistory, Prune, BookFails, BookTypes
    <3> QED BY <3>1, <3>2, BookMoves
  <2> QED BY <2>1, <2>2, ExactRest
<1>6. CASE Restart
  <2>1. /\ UNCHANGED <<record, expected, raced>>
        /\ \A h \in Hooks : create'[h] = "new" => create[h] = "new"
        /\ \A d \in Deliveries : book'[d] # "put"
    BY <1>6 DEF Restart, storeVars
  <2> QED BY <2>1, ExactRest
<1>7. UNCHANGED vars => UNCHANGED <<bookVars, record, create>>
  BY DEF vars, storeVars, routeVars
<1> QED BY <1>1, <1>2, <1>3, <1>4, <1>5, <1>6, <1>7, ExactRead, ExactWrite DEF Next, Bookkeeping

LEMMA ExactBegin == Init => ExactInv
  BY DEF Init, DeliveryInit, ExactInv, Exists, Absent

(***************************************************************************)
(* webhookStore.ts:237-277: the books of a webhook that no two deliveries  *)
(* kept at the same time are exact, whatever is deleted, expires or fails. *)
(***************************************************************************)
THEOREM BooksStayExact == Spec => []BooksAreExact
<1>1. Init => WebhooksInv /\ SilentInv /\ BookTypes /\ ExactInv
  <2>1. Init => SilentInv
    BY DeliveriesAssumption DEF Init, DeliveryInit, SilentInv, RoutesInv, EventInv,
                                DeletedStaysSilent
  <2> QED BY <2>1, WebhooksBegin, BookTypesBegin, ExactBegin
<1>2. WebhooksInv /\ SilentInv /\ BookTypes /\ ExactInv /\ [Next]_vars
        => WebhooksInv' /\ SilentInv' /\ BookTypes' /\ ExactInv'
  BY WebhooksStep, SilentStep, BookTypesStep, ExactStep DEF SilentInv
<1>3. ExactInv => BooksAreExact
  BY DEF ExactInv, Exact, BooksAreExact
<1> QED BY <1>1, <1>2, <1>3, PTL DEF Spec

-----------------------------------------------------------------------------
(* The history is cut *)

Pruning(h) == { d \in Deliveries : Hook(d) = h /\ book[d] = "prune" }

\* What is left of the history once the deliveries of s have deleted all
\* they are to delete.
Spared(h, s) == { x \in ToSet(history[h]) : \A d \in s : x \notin doomed[d] }

\* A history holds deliveries of its webhook that were recorded, each once.
ListInv ==
    \A h \in Hooks :
        /\ \A i, j \in 1 .. Len(history[h]) : history[h][i] = history[h][j] => i = j
        /\ \A i \in 1 .. Len(history[h]) :
              book[history[h][i]] # "none" /\ Hook(history[h][i]) = h

\* Keys to delete are those of recorded deliveries that have Keep later ones.
DoomInv ==
    \A d \in Deliveries :
        /\ book[d] # "prune" => doomed[d] = {}
        /\ \A x \in doomed[d] : book[x] # "none"
        /\ \A i \in 1 .. Len(history[Hook(d)]) :
              history[Hook(d)][i] \in doomed[d] => Len(history[Hook(d)]) - i >= Keep

\* The bound holds already of what any of the deliveries that prune will
\* leave, and those need no allowance.
CountInv ==
    restarts = 0 =>
        \A h \in Hooks : \A s \in SUBSET Pruning(h) :
            Cardinality(Spared(h, s)) <= Keep + Cardinality(Recording(h) \ s) + faults

CutInv == ListInv /\ DoomInv /\ CountInv

BooksFinite ==
    \A h \in Hooks : IsFiniteSet(Recording(h)) /\ IsFiniteSet(ToSet(history[h]))

\* The image of an interval has no more members than the interval.
LEMMA PlacesCount ==
    ASSUME NEW list \in Seq(Deliveries), NEW a \in Nat \ {0}
    PROVE  /\ IsFiniteSet({ list[i] : i \in a .. Len(list) })
           /\ Cardinality({ list[i] : i \in a .. Len(list) })
                 <= IF a > Len(list) THEN 0 ELSE Len(list) - a + 1
<1> DEFINE S == a .. Len(list)
           T == { list[i] : i \in S }
           f == [i \in S |-> list[i]]
<1>1. Len(list) \in Int /\ a \in Int
  BY LenProperties
<1>2. IsFiniteSet(S) /\ Cardinality(S) = (IF a > Len(list) THEN 0 ELSE Len(list) - a + 1)
  BY <1>1, FS_Interval, Zenon
<1>3. f \in Surjection(S, T)
  BY DEF Surjection
<1>4. IsFiniteSet(T) /\ Cardinality(T) <= Cardinality(S)
  BY <1>2, <1>3, FS_Surjection
<1> QED BY <1>2, <1>4

LEMMA SetOfList ==
    ASSUME NEW list \in Seq(Deliveries)
    PROVE  /\ Len(list) \in Nat
           /\ ToSet(list) = { list[i] : i \in 1 .. Len(list) }
           /\ IsFiniteSet(ToSet(list))
<1>1. Len(list) \in Nat /\ DOMAIN list = 1 .. Len(list)
  BY LenProperties
<1>2. ToSet(list) = { list[i] : i \in 1 .. Len(list) }
  BY <1>1 DEF ToSet
<1> QED BY <1>1, <1>2, PlacesCount

LEMMA BooksAreFinite == BookTypes /\ RealInv => BooksFinite
<1> SUFFICES ASSUME BookTypes, RealInv, NEW h \in Hooks
             PROVE  IsFiniteSet(Recording(h)) /\ IsFiniteSet(ToSet(history[h]))
  BY DEF BooksFinite
<1>1. Recording(h) \subseteq { d \in Deliveries : outcome[d] # "none" }
  BY DEF Recording, RealInv
<1>2. IsFiniteSet(Recording(h))
  BY <1>1, FS_Subset DEF RealInv
<1> QED BY <1>2, SetOfList DEF BookTypes

\* All but the oldest are Keep at most.
LEMMA NewestFit ==
    ASSUME NEW list \in Seq(Deliveries)
    PROVE  /\ IsFiniteSet(ToSet(list) \ Oldest(list))
           /\ Cardinality(ToSet(list) \ Oldest(list)) <= Keep
<1> DEFINE n == Len(list)
           a == IF n > Keep THEN n - Keep + 1 ELSE 1
           T == { list[i] : i \in a .. n }
<1>1. n \in Nat /\ Keep \in Nat \ {0}
  BY SetOfList, HookLimitsAssumption
<1>2. a \in Nat \ {0}
  BY <1>1
<1>3. IsFiniteSet(T) /\ Cardinality(T) <= IF a > n THEN 0 ELSE n - a + 1
  BY <1>2, PlacesCount
<1>4. (IF a > n THEN 0 ELSE n - a + 1) <= Keep
  BY <1>1
<1>5. ToSet(list) \ Oldest(list) \subseteq T
  <2>1. ASSUME NEW i \in 1 .. n, i \notin 1 .. n - Keep PROVE i \in a .. n
    BY <1>1, <2>1
  <2>2. /\ ToSet(list) = { list[i] : i \in 1 .. n }
        /\ Oldest(list) = { list[i] : i \in 1 .. n - Keep }
    BY SetOfList, OldestType
  <2> HIDE DEF a
  <2> QED BY <2>1, <2>2
<1> HIDE DEF T, a
<1>6. Cardinality(T) \in Nat /\ Cardinality(T) <= Keep
  BY <1>1, <1>2, <1>3, <1>4, FS_CardinalityType
<1> QED
  <2>1. /\ IsFiniteSet(ToSet(list) \ Oldest(list))
        /\ Cardinality(ToSet(list) \ Oldest(list)) <= Cardinality(T)
    BY <1>3, <1>5, FS_Subset
  <2> QED BY <1>1, <1>6, <2>1, FS_CardinalityType

\* How the bound moves: the left side shrinks and the right side grows.
LEMMA BoundStays ==
    ASSUME NEW a0, NEW a1, NEW b0, NEW b1, NEW m \in Nat, NEW n \in Nat,
           IsFiniteSet(a0), IsFiniteSet(b1), a1 \subseteq a0, b0 \subseteq b1, m <= n,
           Cardinality(a0) <= Keep + Cardinality(b0) + m
    PROVE  Cardinality(a1) <= Keep + Cardinality(b1) + n
<1>1. IsFiniteSet(a1) /\ Cardinality(a1) <= Cardinality(a0)
  BY FS_Subset
<1>2. IsFiniteSet(b0) /\ Cardinality(b0) <= Cardinality(b1)
  BY FS_Subset
<1>3. {Cardinality(a0), Cardinality(a1), Cardinality(b0), Cardinality(b1)} \subseteq Nat
  BY <1>1, <1>2, FS_CardinalityType
<1> QED BY <1>1, <1>2, <1>3, HookLimitsAssumption

\* A delivery that is recorded adds one to each side.
LEMMA BoundGrows ==
    ASSUME NEW a0, NEW b0, NEW x, NEW m \in Nat,
           IsFiniteSet(a0), IsFiniteSet(b0), x \notin b0,
           Cardinality(a0) <= Keep + Cardinality(b0) + m
    PROVE  Cardinality(a0 \cup {x}) <= Keep + Cardinality(b0 \cup {x}) + m
<1>1. Cardinality(a0 \cup {x}) = IF x \in a0 THEN Cardinality(a0) ELSE Cardinality(a0) + 1
  BY FS_AddElement
<1>2. Cardinality(b0 \cup {x}) = Cardinality(b0) + 1
  BY FS_AddElement
<1>3. Cardinality(a0) \in Nat /\ Cardinality(b0) \in Nat
  BY FS_CardinalityType
<1> QED BY <1>1, <1>2, <1>3, HookLimitsAssumption

\* One that fails leaves the right side, and a fault joins it.
LEMMA BoundSurvives ==
    ASSUME NEW a, NEW b, NEW x, NEW m \in Nat,
           IsFiniteSet(a), IsFiniteSet(b), Cardinality(a) <= Keep + Cardinality(b) + m
    PROVE  Cardinality(a) <= Keep + Cardinality(b \ {x}) + (m + 1)
<1>1. Cardinality(b \ {x}) = IF x \in b THEN Cardinality(b) - 1 ELSE Cardinality(b)
  BY FS_RemoveElement
<1>2. Cardinality(a) \in Nat /\ Cardinality(b) \in Nat
  BY FS_CardinalityType
<1> QED BY <1>1, <1>2, HookLimitsAssumption

LEMMA BoundHolds ==
    ASSUME BookTypes, BooksFinite, CutInv, restarts = 0,
           NEW h \in Hooks, NEW s \in SUBSET Pruning(h)
    PROVE  /\ Cardinality(Spared(h, s)) <= Keep + Cardinality(Recording(h) \ s) + faults
           /\ IsFiniteSet(Spared(h, s)) /\ IsFiniteSet(Recording(h) \ s) /\ faults \in Nat
<1>1. Spared(h, s) \subseteq ToSet(history[h]) /\ Recording(h) \ s \subseteq Recording(h)
  BY DEF Spared
<1>2. IsFiniteSet(Recording(h)) /\ IsFiniteSet(ToSet(history[h]))
  BY DEF BooksFinite
<1>3. IsFiniteSet(Spared(h, s)) /\ IsFiniteSet(Recording(h) \ s)
  BY <1>1, <1>2, FS_Subset
<1>4. faults \in Nat
  BY HookBoundsAssumption DEF BookTypes
<1> QED BY <1>3, <1>4 DEF CutInv, CountInv

\* The books of one delivery move.
LEMMA RecordCut ==
    ASSUME BookTypes, BooksFinite, CutInv, NEW d \in Deliveries, RecordDelivery(d)
    PROVE  CutInv'
<1> DEFINE h == Hook(d)
           list == history[h]
<1>1. /\ h \in Hooks /\ list \in Seq(Deliveries) /\ Len(list) \in Nat
      /\ \A g \in Hooks : history[g] \in Seq(Deliveries)
      /\ book[d] = "none" /\ book'[d] = "scan"
      /\ \A c \in Deliveries \ {d} : book'[c] = book[c]
      /\ history'[h] = Append(list, d)
      /\ \A g \in Hooks \ {h} : history'[g] = history[g]
      /\ UNCHANGED <<doomed, restarts, faults>>
  <2>1. BookAt(d, "scan")
    BY DEF RecordDelivery
  <2>2. h \in Hooks /\ list \in Seq(Deliveries)
    BY HookIsHook DEF BookTypes
  <2> QED BY <2>1, <2>2, BookMoves, LenProperties DEF RecordDelivery, BookTypes, boundVars
<1>2. /\ Append(list, d) \in Seq(Deliveries)
      /\ Len(Append(list, d)) = Len(list) + 1
      /\ \A i \in 1 .. Len(list) : Append(list, d)[i] = list[i]
      /\ Append(list, d)[Len(list) + 1] = d
  BY <1>1, AppendProperties
<1>3. ToSet(Append(list, d)) = ToSet(list) \cup {d}
  <2>1. /\ ToSet(Append(list, d)) = { Append(list, d)[i] : i \in 1 .. Len(list) + 1 }
        /\ ToSet(list) = { list[i] : i \in 1 .. Len(list) }
    BY <1>1, <1>2, SetOfList
  <2>2. 1 .. Len(list) + 1 = (1 .. Len(list)) \cup {Len(list) + 1}
    BY <1>1
  <2> QED BY <1>2, <2>1, <2>2
<1> HIDE DEF h, list
<1>4. ListInv'
  <2>1. \A i \in 1 .. Len(list) : list[i] # d /\ list[i] \in Deliveries
    BY <1>1, SetOfList, ElementOfSeq DEF CutInv, ListInv, list
  <2>2. ASSUME NEW i \in 1 .. Len(list) + 1, NEW j \in 1 .. Len(list) + 1,
               Append(list, d)[i] = Append(list, d)[j]
        PROVE  i = j
    <3>1. (i \in 1 .. Len(list) \/ i = Len(list) + 1) /\ (j \in 1 .. Len(list) \/ j = Len(list) + 1)
      BY <1>1
    <3> QED BY <1>1, <1>2, <2>1, <2>2, <3>1 DEF CutInv, ListInv, list
  <2>3. ASSUME NEW i \in 1 .. Len(list) + 1
        PROVE  book'[Append(list, d)[i]] # "none" /\ Hook(Append(list, d)[i]) = h
    <3>1. i \in 1 .. Len(list) \/ i = Len(list) + 1
      BY <1>1
    <3> QED BY <1>1, <1>2, <2>1, <3>1 DEF CutInv, ListInv, list, h
  <2>4. ASSUME NEW g \in Hooks \ {h}
        PROVE  /\ \A i, j \in 1 .. Len(history'[g]) : history'[g][i] = history'[g][j] => i = j
               /\ \A i \in 1 .. Len(history'[g]) :
                     book'[history'[g][i]] # "none" /\ Hook(history'[g][i]) = g
    <3>1. \A i \in 1 .. Len(history[g]) : history[g][i] \in Deliveries
      BY <1>1, ElementOfSeq
    <3>2. \A x \in Deliveries : book[x] # "none" => book'[x] # "none"
      BY <1>1
    <3>3. history'[g] = history[g]
      BY <1>1
    <3> QED BY <3>1, <3>2, <3>3 DEF CutInv, ListInv
  <2>5. /\ \A i, j \in 1 .. Len(history'[h]) : history'[h][i] = history'[h][j] => i = j
        /\ \A i \in 1 .. Len(history'[h]) :
              book'[history'[h][i]] # "none" /\ Hook(history'[h][i]) = h
    BY <1>1, <1>2, <2>2, <2>3
  <2> QED BY <2>4, <2>5 DEF ListInv, Hook
<1>5. DoomInv'
  <2>1. ASSUME NEW c \in Deliveries, NEW i \in 1 .. Len(history'[Hook(c)]),
               history'[Hook(c)][i] \in doomed[c]
        PROVE  Len(history'[Hook(c)]) - i >= Keep
    <3>1. CASE Hook(c) # h
      BY <1>1, <2>1, <3>1, HookIsHook DEF CutInv, DoomInv
    <3>2. CASE Hook(c) = h
      <4>1. d \notin doomed[c]
        BY <1>1 DEF CutInv, DoomInv
      <4>2. i \in 1 .. Len(list)
        BY <1>1, <1>2, <2>1, <3>2, <4>1
      <4>3. Len(list) - i >= Keep
        BY <1>1, <1>2, <2>1, <3>2, <4>2 DEF CutInv, DoomInv, list
      <4> QED BY <1>1, <1>2, <3>2, <4>2, <4>3, HookLimitsAssumption
    <3> QED BY <3>1, <3>2
  <2>2. ASSUME NEW c \in Deliveries
        PROVE  (book'[c] # "prune" => doomed[c] = {}) /\ \A x \in doomed[c] : book'[x] # "none"
    BY <1>1 DEF CutInv, DoomInv, BookTypes
  <2> QED BY <1>1, <2>1, <2>2 DEF DoomInv, Hook
<1>6. CountInv'
  <2> SUFFICES ASSUME restarts' = 0, NEW g \in Hooks, NEW s \in SUBSET Pruning(g)'
               PROVE  Cardinality(Spared(g, s)') <= Keep + Cardinality(Recording(g)' \ s) + faults
    BY <1>1 DEF CountInv
  <2>1. /\ Pruning(g)' = Pruning(g) /\ d \notin s /\ d \notin Recording(g)
        /\ Recording(g)' = IF g = h THEN Recording(g) \cup {d} ELSE Recording(g)
    BY <1>1 DEF Pruning, Recording, Hook, h
  <2>2. /\ Cardinality(Spared(g, s)) <= Keep + Cardinality(Recording(g) \ s) + faults
        /\ IsFiniteSet(Spared(g, s)) /\ IsFiniteSet(Recording(g) \ s) /\ faults \in Nat
    <3>1. restarts = 0 /\ s \in SUBSET Pruning(g)
      BY <1>1, <2>1
    <3> QED BY <3>1, BoundHolds
  <2>3. CASE g # h
    <3>1. Spared(g, s)' = Spared(g, s)
      BY <1>1, <2>3 DEF Spared
    <3> QED BY <2>1, <2>2, <2>3, <3>1
  <2>4. CASE g = h
    <3>1. Spared(g, s)' \subseteq Spared(g, s) \cup {d}
      BY <1>1, <1>3, <2>4 DEF Spared, list
    <3>2. Recording(g)' \ s = (Recording(g) \ s) \cup {d}
      BY <2>1, <2>4
    <3>3. /\ Cardinality(Spared(g, s) \cup {d})
               <= Keep + Cardinality((Recording(g) \ s) \cup {d}) + faults
          /\ IsFiniteSet(Spared(g, s) \cup {d}) /\ IsFiniteSet((Recording(g) \ s) \cup {d})
      BY <2>1, <2>2, BoundGrows, FS_AddElement
    <3> QED BY <2>2, <3>1, <3>2, <3>3, BoundStays
  <2> QED BY <2>3, <2>4
<1> QED BY <1>4, <1>5, <1>6 DEF CutInv

LEMMA ScanCut ==
    ASSUME BookTypes, BooksFinite, CutInv, NEW d \in Deliveries, ScanHistory(d)
    PROVE  CutInv'
<1> DEFINE h == Hook(d)
           list == history[h]
           old == Oldest(list)
<1>1. /\ h \in Hooks /\ list \in Seq(Deliveries) /\ Len(list) \in Nat
      /\ book[d] = "scan" /\ book'[d] = IF old = {} THEN "get" ELSE "prune"
      /\ \A c \in Deliveries \ {d} : book'[c] = book[c] /\ doomed'[c] = doomed[c]
      /\ doomed'[d] = old
      /\ UNCHANGED <<history, restarts, faults>>
  <2>1. doomed' = [doomed EXCEPT ![d] = old]
    BY DEF ScanHistory
  <2>2. doomed'[d] = old /\ \A c \in Deliveries \ {d} : doomed'[c] = doomed[c]
    BY <2>1 DEF BookTypes
  <2>3. BookAt(d, IF old = {} THEN "get" ELSE "prune")
    BY <2>2 DEF ScanHistory
  <2>4. h \in Hooks /\ list \in Seq(Deliveries)
    BY HookIsHook DEF BookTypes
  <2> HIDE DEF h, old
  <2> QED BY <2>2, <2>3, <2>4, BookMoves, LenProperties DEF ScanHistory, storeVars, boundVars
<1>2. /\ old = { list[i] : i \in 1 .. Len(list) - Keep } /\ old \subseteq Deliveries
      /\ ToSet(list) = { list[i] : i \in 1 .. Len(list) }
  BY <1>1, OldestType, SetOfList
<1>3. \A c \in Deliveries : book[c] # "none" => book'[c] # "none"
  BY <1>1
<1> HIDE DEF h, list, old
<1>4. ListInv'
  <2>1. \A g \in Hooks : \A i \in 1 .. Len(history[g]) : history[g][i] \in Deliveries
    BY ElementOfSeq DEF BookTypes
  <2> QED BY <1>1, <1>3, <2>1 DEF CutInv, ListInv, Hook
<1>5. DoomInv'
  <2>1. \A i \in 1 .. Len(list) - Keep : i \in 1 .. Len(list)
    BY <1>1, HookLimitsAssumption
  <2>2. ASSUME NEW i \in 1 .. Len(list), list[i] \in old
        PROVE  Len(list) - i >= Keep
    <3>1. PICK k \in 1 .. Len(list) - Keep : list[i] = list[k]
      BY <1>2, <2>2
    <3>2. i = k
      BY <1>1, <2>1, <3>1 DEF CutInv, ListInv, list
    <3> QED BY <1>1, <3>2, HookLimitsAssumption
  <2>3. \A x \in old : book[x] # "none"
    BY <1>1, <1>2, <2>1 DEF CutInv, ListInv, list
  <2>4. /\ book'[d] # "prune" => doomed'[d] = {}
        /\ \A x \in doomed'[d] : book'[x] # "none"
        /\ \A i \in 1 .. Len(history'[h]) :
              history'[h][i] \in doomed'[d] => Len(history'[h]) - i >= Keep
    BY <1>1, <1>2, <1>3, <2>2, <2>3 DEF list
  <2>5. ASSUME NEW c \in Deliveries \ {d}
        PROVE  /\ book'[c] # "prune" => doomed'[c] = {}
               /\ \A x \in doomed'[c] : book'[x] # "none"
               /\ \A i \in 1 .. Len(history'[Hook(c)]) :
                     history'[Hook(c)][i] \in doomed'[c] => Len(history'[Hook(c)]) - i >= Keep
    BY <1>1, <1>3 DEF CutInv, DoomInv, BookTypes
  <2> QED BY <2>4, <2>5 DEF DoomInv, Hook, h
<1>6. CountInv'
  <2> SUFFICES ASSUME restarts' = 0, NEW g \in Hooks, NEW s \in SUBSET Pruning(g)'
               PROVE  Cardinality(Spared(g, s)') <= Keep + Cardinality(Recording(g)' \ s) + faults
    BY <1>1 DEF CountInv
  <2>1. IsFiniteSet(Recording(g)' \ s) /\ Cardinality(Recording(g)' \ s) \in Nat /\ faults \in Nat
    <3>1. Recording(g)' \ s \subseteq Recording(g)
      BY <1>1 DEF Recording, Hook
    <3>2. IsFiniteSet(Recording(g)' \ s)
      BY <3>1, FS_Subset DEF BooksFinite
    <3> QED BY <3>2, FS_CardinalityType, HookBoundsAssumption DEF BookTypes
  <2>2. CASE d \in s \/ (g = h /\ old = {})
    <3>1. g = h
      BY <2>2 DEF Pruning, Hook, h
    <3>2. Spared(g, s)' \subseteq ToSet(list) \ old
      BY <1>1, <2>2, <3>1 DEF Spared, list
    <3>3. IsFiniteSet(ToSet(list) \ old) /\ Cardinality(ToSet(list) \ old) <= Keep
      BY <1>1, NewestFit DEF old
    <3>4. IsFiniteSet(Spared(g, s)') /\ Cardinality(Spared(g, s)') <= Cardinality(ToSet(list) \ old)
      BY <3>2, <3>3, FS_Subset
    <3>5. Cardinality(Spared(g, s)') \in Nat /\ Cardinality(ToSet(list) \ old) \in Nat
      BY <3>3, <3>4, FS_CardinalityType
    <3> QED BY <2>1, <3>3, <3>4, <3>5, HookLimitsAssumption
  <2>3. CASE ~(d \in s \/ (g = h /\ old = {}))
    <3>1. Recording(g)' = Recording(g)
      BY <1>1, <2>3 DEF Recording, Hook, h
    <3>2. s \in SUBSET Pruning(g)
      BY <1>1, <2>3 DEF Pruning, Hook
    <3>3. Spared(g, s)' = Spared(g, s)
      BY <1>1, <2>3, <3>2 DEF Spared, Pruning
    <3>4. Cardinality(Spared(g, s)) <= Keep + Cardinality(Recording(g) \ s) + faults
      BY <1>1, <3>2, BoundHolds
    <3> QED BY <3>1, <3>3, <3>4
  <2> QED BY <2>2, <2>3
<1> QED BY <1>4, <1>5, <1>6 DEF CutInv

\* Prune cuts one position of one history, or none when the key has gone.
LEMMA PruneMoves ==
    ASSUME BookTypes, NEW d \in Deliveries, Prune(d)
    PROVE  /\ Hook(d) \in Hooks /\ book[d] = "prune"
           /\ book'[d] = IF doomed'[d] = {} THEN "get" ELSE "prune"
           /\ \A c \in Deliveries \ {d} : book'[c] = book[c] /\ doomed'[c] = doomed[c]
           /\ \A g \in Hooks \ {Hook(d)} : history'[g] = history[g]
           /\ UNCHANGED <<restarts, faults>>
           /\ \E o \in doomed[d] :
                 /\ doomed'[d] = doomed[d] \ {o}
                 /\ history'[Hook(d)] = RemoveFirst(history[Hook(d)], o)
<1>1. PICK o \in doomed[d] :
        /\ history' = [history EXCEPT ![Hook(d)] = RemoveFirst(@, o)]
        /\ doomed' = [doomed EXCEPT ![d] = @ \ {o}]
  BY DEF Prune
<1>2. Hook(d) \in Hooks
  BY HookIsHook
<1>3. /\ doomed'[d] = doomed[d] \ {o} /\ history'[Hook(d)] = RemoveFirst(history[Hook(d)], o)
      /\ \A c \in Deliveries \ {d} : doomed'[c] = doomed[c]
      /\ \A g \in Hooks \ {Hook(d)} : history'[g] = history[g]
  BY <1>1, <1>2 DEF BookTypes
<1>4. BookAt(d, IF doomed'[d] = {} THEN "get" ELSE "prune") /\ book[d] = "prune"
  BY DEF Prune
<1> QED BY <1>2, <1>3, <1>4, BookMoves DEF Prune, boundVars

\* The position that is cut has Keep later ones.
IsOldCut(list, o, rest) ==
    /\ o \notin ToSet(rest) /\ ToSet(rest) \subseteq ToSet(list)
    /\ \/ rest = list
       \/ \E p \in 1 .. Len(list) :
             /\ list[p] = o /\ Len(list) - p >= Keep
             /\ rest \in Seq(Deliveries) /\ Len(rest) = Len(list) - 1
             /\ \A k \in 1 .. Len(list) - 1 : rest[k] = IF k < p THEN list[k] ELSE list[k + 1]

LEMMA CutAt ==
    ASSUME BookTypes, CutInv, NEW d \in Deliveries, NEW o \in doomed[d],
           NEW list, NEW rest, list = history[Hook(d)], rest = RemoveFirst(list, o)
    PROVE  IsOldCut(list, o, rest)
<1>1. list \in Seq(Deliveries) /\ Len(list) \in Nat /\ Hook(d) \in Hooks
  BY HookIsHook, LenProperties DEF BookTypes
<1>2. CASE o \notin ToSet(list) /\ rest = list
  BY <1>2 DEF IsOldCut
<1>3. ASSUME NEW p \in 1 .. Len(list), list[p] = o,
             rest \in Seq(Deliveries), Len(rest) = Len(list) - 1,
             \A k \in 1 .. Len(list) - 1 : rest[k] = IF k < p THEN list[k] ELSE list[k + 1]
      PROVE  /\ o \notin ToSet(rest) /\ ToSet(rest) \subseteq ToSet(list)
             /\ Len(list) - p >= Keep
  <2>1. ASSUME NEW k \in 1 .. Len(list) - 1
        PROVE  \E j \in 1 .. Len(list) : j # p /\ rest[k] = list[j]
    <3>1. CASE k < p
      <4>1. k \in 1 .. Len(list) /\ k # p
        BY <1>1, <3>1
      <4> QED BY <1>3, <3>1, <4>1
    <3>2. CASE ~(k < p)
      <4>1. k + 1 \in 1 .. Len(list) /\ k + 1 # p
        BY <1>1, <3>2
      <4> QED BY <1>3, <3>2, <4>1
    <3> QED BY <3>1, <3>2
  <2>2. \A j \in 1 .. Len(list) : j # p => list[j] # o
    BY <1>1, <1>3 DEF CutInv, ListInv
  <2>3. /\ ToSet(rest) = { rest[k] : k \in 1 .. Len(list) - 1 }
        /\ ToSet(list) = { list[k] : k \in 1 .. Len(list) }
    BY <1>1, <1>3, SetOfList
  <2>4. Len(list) - p >= Keep
    BY <1>3 DEF CutInv, DoomInv
  <2> QED BY <2>1, <2>2, <2>3, <2>4
<1>4. IsCut(list, o, rest)
  BY <1>1, FirstIsCut, Zenon
<1> QED BY <1>2, <1>3, <1>4 DEF IsCut, IsOldCut

LEMMA PruneCut ==
    ASSUME BookTypes, BooksFinite, CutInv, NEW d \in Deliveries, Prune(d)
    PROVE  CutInv'
<1> DEFINE h == Hook(d)
           list == history[h]
           rest == history'[h]
<1>1. PICK o \in doomed[d] :
        doomed'[d] = doomed[d] \ {o} /\ rest = RemoveFirst(list, o)
  BY PruneMoves
<1>2. /\ h \in Hooks /\ book[d] = "prune"
      /\ book'[d] = IF doomed'[d] = {} THEN "get" ELSE "prune"
      /\ \A c \in Deliveries \ {d} : book'[c] = book[c] /\ doomed'[c] = doomed[c]
      /\ \A g \in Hooks \ {h} : history'[g] = history[g]
      /\ UNCHANGED <<restarts, faults>>
      /\ \A g \in Hooks : history[g] \in Seq(Deliveries) /\ Len(history[g]) \in Nat
      /\ \A c \in Deliveries : book[c] # "none" => book'[c] # "none"
      /\ \A c \in Deliveries : doomed'[c] \subseteq doomed[c]
  BY <1>1, PruneMoves, LenProperties DEF BookTypes
<1>3. IsOldCut(list, o, rest)
  <2> HIDE DEF list, rest
  <2>1. list = history[Hook(d)] /\ rest = RemoveFirst(list, o)
    BY <1>1 DEF list
  <2> QED BY <2>1, CutAt, Zenon
<1> HIDE DEF h, list, rest
\* where an entry that stays was
<1>4. \A k \in 1 .. Len(rest) :
         \E j \in 1 .. Len(list) :
            /\ rest[k] = list[j]
            /\ Len(list) - j >= Keep => Len(rest) - k >= Keep
            /\ \A i \in 1 .. Len(rest) :
                  rest[i] = rest[k] => i = k
  <2>1. \A i, j \in 1 .. Len(list) : list[i] = list[j] => i = j
    BY <1>2 DEF CutInv, ListInv, list
  <2>2. CASE rest = list
    BY <2>1, <2>2
  <2>3. ASSUME NEW p \in 1 .. Len(list), Len(list) - p >= Keep, Len(rest) = Len(list) - 1,
               \A k \in 1 .. Len(list) - 1 : rest[k] = IF k < p THEN list[k] ELSE list[k + 1]
        PROVE  \A k \in 1 .. Len(rest) :
                  \E j \in 1 .. Len(list) :
                     /\ rest[k] = list[j]
                     /\ Len(list) - j >= Keep => Len(rest) - k >= Keep
                     /\ \A i \in 1 .. Len(rest) :
                           rest[i] = rest[k] => i = k
    <3> DEFINE From(k) == IF k < p THEN k ELSE k + 1
    <3>1. Len(list) \in Nat
      BY <1>2 DEF list
    <3>2. ASSUME NEW k \in 1 .. Len(rest)
          PROVE  /\ From(k) \in 1 .. Len(list) /\ rest[k] = list[From(k)]
                 /\ Len(list) - From(k) >= Keep => Len(rest) - k >= Keep
      <4>1. k \in 1 .. Len(list) - 1
        BY <2>3
      <4>2. rest[k] = list[From(k)]
        BY <2>3, <4>1
      <4> QED BY <2>3, <3>1, <4>1, <4>2, HookLimitsAssumption
    <3>3. ASSUME NEW k \in 1 .. Len(rest), NEW i \in 1 .. Len(rest), rest[i] = rest[k]
          PROVE  i = k
      <4>1. From(i) = From(k)
        BY <2>1, <3>2, <3>3
      <4> QED BY <2>3, <3>1, <4>1
    <3> HIDE DEF From
    <3> QED BY <3>2, <3>3
  <2> QED BY <1>3, <2>2, <2>3 DEF IsOldCut
<1>5. ListInv'
  <2>1. /\ \A i, j \in 1 .. Len(rest) : rest[i] = rest[j] => i = j
        /\ \A i \in 1 .. Len(rest) : book'[rest[i]] # "none" /\ Hook(rest[i]) = h
    <3>1. \A j \in 1 .. Len(list) : list[j] \in Deliveries /\ book[list[j]] # "none" /\ Hook(list[j]) = h
      BY <1>2, ElementOfSeq DEF CutInv, ListInv, list
    <3> QED BY <1>2, <1>4, <3>1
  <2>2. ASSUME NEW g \in Hooks \ {h}
        PROVE  /\ \A i, j \in 1 .. Len(history'[g]) : history'[g][i] = history'[g][j] => i = j
               /\ \A i \in 1 .. Len(history'[g]) :
                     book'[history'[g][i]] # "none" /\ Hook(history'[g][i]) = g
    <3>1. \A i \in 1 .. Len(history[g]) : history[g][i] \in Deliveries
      BY <1>2, ElementOfSeq
    <3>2. history'[g] = history[g]
      BY <1>2
    <3> QED BY <1>2, <3>1, <3>2 DEF CutInv, ListInv
  <2> QED BY <2>1, <2>2 DEF ListInv, Hook, rest
<1>6. DoomInv'
  <2>1. ASSUME NEW c \in Deliveries, NEW i \in 1 .. Len(history'[Hook(c)]),
               history'[Hook(c)][i] \in doomed'[c]
        PROVE  Len(history'[Hook(c)]) - i >= Keep
    <3>1. CASE Hook(c) # h
      BY <1>2, <2>1, <3>1, HookIsHook DEF CutInv, DoomInv
    <3>2. CASE Hook(c) = h
      <4>1. \A j \in 1 .. Len(list) : list[j] \in doomed[c] => Len(list) - j >= Keep
        BY <3>2 DEF CutInv, DoomInv, list
      <4> QED BY <1>2, <1>4, <2>1, <3>2, <4>1 DEF rest
    <3> QED BY <3>1, <3>2
  <2>2. ASSUME NEW c \in Deliveries
        PROVE  (book'[c] # "prune" => doomed'[c] = {}) /\ \A x \in doomed'[c] : book'[x] # "none"
    BY <1>2 DEF CutInv, DoomInv, BookTypes
  <2> QED BY <2>1, <2>2 DEF DoomInv, Hook
<1>7. CountInv'
  <2> SUFFICES ASSUME restarts' = 0, NEW g \in Hooks, NEW s \in SUBSET Pruning(g)'
               PROVE  Cardinality(Spared(g, s)') <= Keep + Cardinality(Recording(g)' \ s) + faults
    BY <1>2 DEF CountInv
  <2> DEFINE t == IF g = h /\ doomed'[d] = {} THEN s \cup {d} ELSE s
  <2>1. t \in SUBSET Pruning(g)
    BY <1>2 DEF Pruning, Hook, h
  <2>2. Recording(g) \ t \subseteq Recording(g)' \ s
    BY <1>2 DEF Recording, Hook, h
  <2>3. Spared(g, s)' \subseteq Spared(g, t)
    <3>1. CASE g # h
      BY <1>2, <3>1 DEF Spared, Pruning, Hook, h
    <3>2. CASE g = h
      <4>1. ASSUME NEW x \in ToSet(rest), \A c \in s : x \notin doomed'[c], NEW c \in t
            PROVE  x \notin doomed[c]
        <5>1. x # o
          BY <1>3, <4>1 DEF IsOldCut
        <5>2. CASE c = d
          BY <1>1, <4>1, <5>1, <5>2
        <5>3. CASE c # d
          <6>1. c \in Deliveries
            BY <2>1 DEF Pruning
          <6> QED BY <1>2, <4>1, <5>3, <6>1
        <5> QED BY <5>2, <5>3
      <4>2. ToSet(rest) \subseteq ToSet(list)
        BY <1>3 DEF IsOldCut
      <4> HIDE DEF t
      <4> QED BY <3>2, <4>1, <4>2 DEF Spared, list, rest
    <3> QED BY <3>1, <3>2
  <2> HIDE DEF t
  <2>4. /\ Cardinality(Spared(g, t)) <= Keep + Cardinality(Recording(g) \ t) + faults
        /\ IsFiniteSet(Spared(g, t)) /\ faults \in Nat
    BY <1>2, <2>1, BoundHolds
  <2>5. IsFiniteSet(Recording(g)' \ s)
    <3>1. Recording(g)' \ s \subseteq Recording(g)
      BY <1>2 DEF Recording, Hook
    <3> QED BY <3>1, FS_Subset DEF BooksFinite
  <2> QED BY <2>2, <2>3, <2>4, <2>5, BoundStays
<1> QED BY <1>5, <1>6, <1>7 DEF CutInv

\* Steps that leave the history alone, and the lists of what to delete of
\* the deliveries that prune.
LEMMA CutRest ==
    ASSUME BookTypes, BooksFinite, CutInv, UNCHANGED <<history, doomed, restarts>>,
           faults' \in Nat, faults <= faults',
           \A c \in Deliveries :
              \/ book'[c] = book[c]
              \/ {book[c], book'[c]} \cap {"none", "scan", "prune"} = {}
    PROVE  CutInv'
<1>1. \A g \in Hooks : Pruning(g)' = Pruning(g) /\ Recording(g)' = Recording(g)
  BY DEF Pruning, Recording, Hook
<1>2. \A s : \A g \in Hooks : Spared(g, s)' = Spared(g, s)
  BY DEF Spared
<1>3. \A g \in Hooks : \A i \in 1 .. Len(history[g]) : history[g][i] \in Deliveries
  BY ElementOfSeq DEF BookTypes
<1>4. ListInv'
  BY <1>3 DEF CutInv, ListInv, Hook
<1>5. DoomInv'
  <2>1. \A c \in Deliveries : \A x \in doomed[c] : x \in Deliveries
    BY DEF BookTypes
  <2> QED BY <2>1 DEF CutInv, DoomInv, Hook
<1>6. CountInv'
  <2> SUFFICES ASSUME restarts' = 0, NEW g \in Hooks, NEW s \in SUBSET Pruning(g)'
               PROVE  Cardinality(Spared(g, s)') <= Keep + Cardinality(Recording(g)' \ s) + faults'
    BY DEF CountInv
  <2>1. s \in SUBSET Pruning(g) /\ restarts = 0
    BY <1>1
  <2>2. /\ Cardinality(Spared(g, s)) <= Keep + Cardinality(Recording(g) \ s) + faults
        /\ IsFiniteSet(Spared(g, s)) /\ IsFiniteSet(Recording(g) \ s) /\ faults \in Nat
    BY <2>1, BoundHolds
  <2>3. Cardinality(Spared(g, s)) <= Keep + Cardinality(Recording(g) \ s) + faults'
    BY <2>2, BoundStays
  <2>4. Spared(g, s)' = Spared(g, s) /\ Recording(g)' \ s = Recording(g) \ s
    BY <1>1, <1>2
  <2> QED BY <2>3, <2>4
<1> QED BY <1>4, <1>5, <1>6 DEF CutInv

\* A recording that is given up leaves the bound to the fault.
LEMMA FailCut ==
    ASSUME BookTypes, BooksFinite, CutInv, NEW d \in Deliveries, BookFails(d)
    PROVE  CutInv'
<1>1. /\ book'[d] = "done" /\ \A c \in Deliveries \ {d} : book'[c] = book[c]
      /\ doomed'[d] = {} /\ \A c \in Deliveries \ {d} : doomed'[c] = doomed[c]
      /\ UNCHANGED <<history, restarts>> /\ faults' = faults + 1
  <2>1. BookAt(d, "done") /\ doomed' = [doomed EXCEPT ![d] = {}]
    BY DEF BookFails
  <2>2. UNCHANGED <<history, restarts>> /\ faults' = faults + 1
    BY DEF BookFails, Fault, storeVars
  <2> QED BY <2>1, <2>2, BookMoves DEF BookTypes
<1>2. \A g \in Hooks : \A i \in 1 .. Len(history[g]) : history[g][i] \in Deliveries
  BY ElementOfSeq DEF BookTypes
<1>3. \A c \in Deliveries : book[c] # "none" => book'[c] # "none"
  BY <1>1
<1>4. ListInv'
  BY <1>1, <1>2, <1>3 DEF CutInv, ListInv, Hook
<1>5. DoomInv'
  <2>1. \A c \in Deliveries : \A x \in doomed[c] : x \in Deliveries
    BY DEF BookTypes
  <2>2. \A c \in Deliveries : doomed'[c] \subseteq doomed[c]
    BY <1>1
  <2>3. \A c \in Deliveries : book'[c] # "prune" => doomed'[c] = {}
    BY <1>1 DEF CutInv, DoomInv
  <2> QED BY <1>1, <1>3, <2>1, <2>2, <2>3 DEF CutInv, DoomInv, Hook
<1>6. CountInv'
  <2> SUFFICES ASSUME restarts' = 0, NEW g \in Hooks, NEW s \in SUBSET Pruning(g)'
               PROVE  Cardinality(Spared(g, s)') <= Keep + Cardinality(Recording(g)' \ s) + faults'
    BY DEF CountInv
  <2>1. s \in SUBSET Pruning(g) /\ restarts = 0 /\ d \notin s
    BY <1>1 DEF Pruning, Hook
  <2>2. /\ Cardinality(Spared(g, s)) <= Keep + Cardinality(Recording(g) \ s) + faults
        /\ IsFiniteSet(Spared(g, s)) /\ IsFiniteSet(Recording(g) \ s) /\ faults \in Nat
    BY <2>1, BoundHolds
  <2>3. Cardinality(Spared(g, s)) <= Keep + Cardinality((Recording(g) \ s) \ {d}) + (faults + 1)
    BY <2>2, BoundSurvives
  <2>4. Spared(g, s)' = Spared(g, s)
    BY <1>1, <2>1 DEF Spared, Pruning
  <2>5. Recording(g)' \ s = (Recording(g) \ s) \ {d}
    BY <1>1 DEF Recording, Hook
  <2> QED BY <1>1, <2>3, <2>4, <2>5
<1> QED BY <1>4, <1>5, <1>6 DEF CutInv

LEMMA RestartCut ==
    ASSUME BookTypes, BooksFinite, RealInv, CutInv, Restart
    PROVE  CutInv'
<1>1. /\ \A d \in Deliveries : book'[d] = IF outcome[d] = "none" THEN "none" ELSE "done"
      /\ \A d \in Deliveries : doomed'[d] = {}
      /\ UNCHANGED history
      /\ restarts' # 0
  BY DEF Restart, storeVars, BookTypes
<1>2. \A g \in Hooks : \A i \in 1 .. Len(history[g]) : history[g][i] \in Deliveries
  BY ElementOfSeq DEF BookTypes
<1>3. \A d \in Deliveries : book[d] # "none" => book'[d] # "none"
  BY <1>1 DEF RealInv
<1> QED BY <1>1, <1>2, <1>3 DEF CutInv, ListInv, DoomInv, CountInv, Hook

\* Everything but the history and its pruning.
LEMMA QuietSteps ==
    ASSUME BookTypes, [Next]_vars, ~Restart,
           ~ \E d \in Deliveries :
                RecordDelivery(d) \/ ScanHistory(d) \/ Prune(d) \/ BookFails(d)
    PROVE  /\ UNCHANGED <<history, doomed, restarts>>
           /\ faults' \in Nat /\ faults <= faults'
           /\ \A c \in Deliveries :
                 \/ book'[c] = book[c]
                 \/ {book[c], book'[c]} \cap {"none", "scan", "prune"} = {}
<1>1. faults \in Nat /\ faults + 1 \in Nat
  BY HookBoundsAssumption DEF BookTypes
<1>2. ASSUME NEW h \in Hooks, Routes(h) \/ Expire(h)
      PROVE  UNCHANGED <<history, doomed, book, restarts>> /\ faults' \in {faults, faults + 1}
  BY <1>2 DEF Routes, Expire, CreateRecord, CreateIndex, DeleteLookup, DeleteRecord, DeleteIndex,
     Fault, storeVars, bookVars, boundVars
<1>3. ASSUME NEW e \in Events, Trigger(e) \/ Triggering(e) \/ TriggerFails(e)
      PROVE  UNCHANGED <<history, doomed, book, restarts>> /\ faults' \in {faults, faults + 1}
  BY <1>3 DEF Trigger, Triggering, TriggerFails, ScanIndex, ReadHook, Fault, storeVars, bookVars,
     boundVars
<1>4. ASSUME NEW d \in Deliveries, Delivering(d)
      PROVE  UNCHANGED <<history, doomed, book, restarts, faults>>
  BY <1>4 DEF Delivering, storeVars, bookVars, boundVars
<1>5. ASSUME NEW d \in Deliveries, ReadRecord(d) \/ WriteRecord(d)
      PROVE  /\ UNCHANGED <<history, doomed, restarts, faults>>
             /\ \A c \in Deliveries :
                   \/ book'[c] = book[c]
                   \/ {book[c], book'[c]} \cap {"none", "scan", "prune"} = {}
  <2>1. UNCHANGED <<history, doomed, restarts, faults>> /\ book[d] \in {"get", "put"}
    BY <1>5 DEF ReadRecord, WriteRecord, storeVars, boundVars
  <2>2. BookAt(d, "put") \/ BookAt(d, "done")
    BY <1>5 DEF ReadRecord, WriteRecord
  <2>3. book'[d] \in {"put", "done"} /\ \A c \in Deliveries \ {d} : book'[c] = book[c]
    BY <2>2, BookMoves
  <2> QED BY <2>1, <2>3
<1>6. UNCHANGED vars => UNCHANGED <<history, doomed, book, restarts, faults>>
  BY DEF vars, storeVars, bookVars, boundVars
<1> QED BY <1>1, <1>2, <1>3, <1>4, <1>5, <1>6 DEF Next, Bookkeeping

LEMMA CutStep ==
    ASSUME BookTypes, BooksFinite, RealInv, CutInv, [Next]_vars
    PROVE  CutInv'
  BY RecordCut, ScanCut, PruneCut, FailCut, RestartCut, QuietSteps, CutRest

LEMMA CutBegin == Init => CutInv
<1> SUFFICES ASSUME Init PROVE CutInv
  OBVIOUS
<1>1. /\ \A h \in Hooks : history[h] = <<>>
      /\ \A d \in Deliveries : book[d] = "none" /\ doomed[d] = {}
      /\ faults = 0
  BY DEF Init
<1>2. \A h \in Hooks : Len(history[h]) = 0 /\ ToSet(history[h]) = {}
  BY <1>1 DEF ToSet
<1>3. \A h \in Hooks : Recording(h) = {} /\ \A s : Spared(h, s) = {} /\ Recording(h) \ s = {}
  BY <1>1, <1>2 DEF Recording, Spared
<1>4. ListInv /\ DoomInv
  BY <1>1, <1>2, HookIsHook DEF ListInv, DoomInv
<1>5. CountInv
  <2>1. ASSUME NEW h \in Hooks, NEW s
        PROVE  Cardinality(Spared(h, s)) <= Keep + Cardinality(Recording(h) \ s) + faults
    <3>1. Cardinality(Spared(h, s)) = 0 /\ Cardinality(Recording(h) \ s) = 0
      BY <1>3, FS_EmptySet
    <3> QED BY <1>1, <3>1, HookLimitsAssumption
  <2> QED BY <2>1 DEF CountInv
<1> QED BY <1>4, <1>5 DEF CutInv

\* The history has no more entries than members, and s may be empty.
LEMMA CutIsCut ==
    ASSUME BookTypes, BooksFinite, CutInv
    PROVE  HistoryIsCut
<1> SUFFICES ASSUME restarts = 0, NEW h \in Hooks
             PROVE  Len(history[h]) <= Keep + Cardinality(Recording(h)) + faults
  BY DEF HistoryIsCut
<1> DEFINE list == history[h]
<1>1. list \in Seq(Deliveries) /\ Len(list) \in Nat
  BY SetOfList DEF BookTypes
<1>2. Cardinality(ToSet(list)) = Len(list)
  <2> DEFINE f == [i \in 1 .. Len(list) |-> list[i]]
  <2>1. ToSet(list) = { list[i] : i \in 1 .. Len(list) }
    BY <1>1, SetOfList
  <2>2. \A i, j \in 1 .. Len(list) : list[i] = list[j] => i = j
    BY DEF CutInv, ListInv
  <2> HIDE DEF list
  <2>3. f \in Bijection(1 .. Len(list), ToSet(list))
    BY <2>1, <2>2 DEF Bijection, Injection, Surjection, IsInjective
  <2>4. IsFiniteSet(1 .. Len(list)) /\ Cardinality(1 .. Len(list)) = Len(list)
    BY <1>1, FS_Interval
  <2> QED BY <2>3, <2>4, FS_Bijection DEF ExistsBijection
<1>3. Spared(h, {}) = ToSet(list) /\ Recording(h) \ {} = Recording(h)
  BY DEF Spared
<1>4. Cardinality(Spared(h, {})) <= Keep + Cardinality(Recording(h) \ {}) + faults
  BY DEF CutInv, CountInv
<1> QED BY <1>2, <1>3, <1>4

LEMMA NewestStay ==
    ASSUME BookTypes, CutInv, [Next]_vars, NEW h \in Hooks, NEW i \in DOMAIN history[h],
           history[h][i] \notin ToSet(history'[h])
    PROVE  Len(history[h]) - i >= Keep
<1> DEFINE list == history[h]
           x == list[i]
<1>1. /\ list \in Seq(Deliveries) /\ Len(list) \in Nat /\ i \in 1 .. Len(list)
      /\ ToSet(list) = { list[k] : k \in 1 .. Len(list) } /\ x \in ToSet(list)
  BY SetOfList, LenProperties DEF BookTypes
<1>2. history'[h] # list
  BY <1>1
<1>3. ASSUME NEW d \in Deliveries, RecordDelivery(d)
      PROVE  FALSE
  <2>1. history'[h] = Append(list, d)
    BY <1>2, <1>3 DEF RecordDelivery, BookTypes
  <2>2. /\ Append(list, d) \in Seq(Deliveries) /\ Len(Append(list, d)) = Len(list) + 1
        /\ Append(list, d)[i] = x
    BY <1>1, AppendProperties
  <2>3. x \in ToSet(Append(list, d))
    <3>1. ToSet(Append(list, d)) = { Append(list, d)[k] : k \in 1 .. Len(list) + 1 }
      BY <2>2, SetOfList
    <3>2. i \in 1 .. Len(list) + 1
      BY <1>1
    <3> QED BY <2>2, <3>1, <3>2
  <2> QED BY <2>1, <2>3
<1>4. ASSUME NEW d \in Deliveries, Prune(d)
      PROVE  Len(list) - i >= Keep
  <2>1. PICK o \in doomed[d] : history'[Hook(d)] = RemoveFirst(history[Hook(d)], o)
    BY <1>4, PruneMoves
  <2>2. Hook(d) = h
    BY <1>2, <1>4, PruneMoves
  <2>3. IsCut(list, o, history'[h])
    BY <1>1, <2>1, <2>2, FirstIsCut
  <2>4. PICK p \in 1 .. Len(list) :
          /\ list[p] = o
          /\ history'[h] \in Seq(Deliveries) /\ Len(history'[h]) = Len(list) - 1
          /\ \A k \in 1 .. Len(list) - 1 : history'[h][k] = IF k < p THEN list[k] ELSE list[k + 1]
    BY <1>2, <2>3 DEF IsCut
  <2>5. i = p
    <3>1. ToSet(history'[h]) = { history'[h][k] : k \in 1 .. Len(list) - 1 }
      BY <2>4, SetOfList
    <3>2. i < p => i \in 1 .. Len(list) - 1 /\ history'[h][i] = x
      BY <1>1, <2>4
    <3>3. i > p => i - 1 \in 1 .. Len(list) - 1 /\ history'[h][i - 1] = x
      <4>1. i > p => i - 1 \in 1 .. Len(list) - 1 /\ ~(i - 1 < p) /\ i - 1 + 1 = i
        BY <1>1
      <4> QED BY <2>4, <4>1
    <3> QED BY <1>1, <3>1, <3>2, <3>3
  <2> QED BY <2>2, <2>4, <2>5 DEF CutInv, DoomInv
<1>5. (\E d \in Deliveries : ScanHistory(d) \/ BookFails(d)) \/ Restart => UNCHANGED history
  BY DEF ScanHistory, BookFails, Restart, storeVars
<1> QED BY <1>2, <1>3, <1>4, <1>5, QuietSteps

(***************************************************************************)
(* webhookDispatcher.ts, recordWebhookDelivery: however many recordings    *)
(* overlap, each deletes by a list that was read before others wrote, only *)
(* deliveries with Keep later ones are deleted, and the history is as long *)
(* as it should be when they are over.                                     *)
(***************************************************************************)
THEOREM NewestAreKept == Spec => KeepsNewest
<1> DEFINE I == WebhooksInv /\ BookTypes /\ RealInv /\ CutInv
<1>1. Init => I
  BY WebhooksBegin, BookTypesBegin, RealBegin, CutBegin
<1>2. I /\ [Next]_vars => I'
  BY WebhooksStep, BookTypesStep, RealStep, CutStep, BooksAreFinite
<1>3. I => HistoryIsCut
  BY CutIsCut, BooksAreFinite
<1>4. I /\ [Next]_vars =>
        \A h \in Hooks : \A i \in DOMAIN history[h] :
           history[h][i] \notin ToSet(history'[h]) => Len(history[h]) - i >= Keep
  BY NewestStay
<1> HIDE DEF I
<1>5. I /\ I' /\ [Next]_vars =>
        [/\ HistoryIsCut'
         /\ \A h \in Hooks : \A i \in DOMAIN history[h] :
               history[h][i] \notin ToSet(history'[h]) => Len(history[h]) - i >= Keep]_vars
  <2>1. I' => HistoryIsCut'
    BY <1>3, PTL
  <2> QED BY <1>4, <2>1
<1> QED BY <1>1, <1>2, <1>5, PTL DEF Spec, KeepsNewest
=============================================================================
