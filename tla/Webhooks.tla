------------------------------ MODULE Webhooks ------------------------------
(***************************************************************************)
(* The webhooks of one user that are subscribed to job.completed (others   *)
(* are read and skipped): the routes that create and delete them           *)
(* (webhooks.routes.ts), their records in Redis (webhookStore.ts), and     *)
(* triggerWebhooks (webhookDispatcher.ts), which starts a delivery for     *)
(* each and keeps their books when it is over.  One action is one Redis    *)
(* command or one event of a delivery, with the code up to the next await. *)
(***************************************************************************)
EXTENDS WebhookDelivery, SequencesExt

CONSTANTS
    Hooks,        \* webhook ids
    Events,       \* calls of onJobCompleted for the user
    FailLimit,    \* failed attempts that disable a webhook
    Keep,         \* deliveries kept in the history of a webhook
    MaxTroubles   \* bound: deaths of the process, Redis commands that fail
                  \* and keys that expire, together

ASSUME DeliveriesAssumption == Deliveries = Events \X Hooks
ASSUME HookLimitsAssumption == FailLimit \in Nat \ {0} /\ Keep \in Nat \ {0}
ASSUME HookBoundsAssumption == MaxTroubles \in Nat

VARIABLES
    record,    \* key webhook:<id>
    indexed,   \* keys user:<id>:webhooks:<id>
    history,   \* keys webhook:<id>:deliveries:*, in their order
    create,    \* how far the POST /webhooks of each webhook is
    drop,      \* how far a DELETE /webhooks/:id is
    deleted,   \* history: webhooks some DELETE has answered 200 for
    trig,      \* how far triggerWebhooks is for each event
    todo,      \* webhook ids it has yet to read
    found,     \* those it has found fit for a delivery
    late,      \* history: webhooks deleted before the event
    book,      \* how far the bookkeeping of each delivery is
    doomed,    \* history keys it has yet to delete
    copy,      \* the record it has read
    expected,  \* history: failed_attempts if no bookkeeping overlaps another
    raced,     \* history: webhooks with two that did
    restarts, faults, expiries

storeVars == <<record, indexed, history>>
routeVars == <<create, drop, deleted>>
triggerVars == <<trig, todo, found, late>>
bookVars == <<book, doomed, copy, expected, raced>>
boundVars == <<restarts, faults, expiries>>
vars == <<deliveryVars, storeVars, routeVars, triggerVars, bookVars, boundVars>>

Hook(d) == d[2]
Absent == [fails |-> 0, status |-> "absent"]
Fresh == [fails |-> 0, status |-> "active"]

Init ==
    /\ DeliveryInit
    /\ record = [h \in Hooks |-> Absent] /\ indexed = {}
    /\ history = [h \in Hooks |-> <<>>]
    /\ create = [h \in Hooks |-> "new"] /\ drop = [h \in Hooks |-> "idle"]
    /\ deleted = {}
    /\ trig = [e \in Events |-> "new"] /\ todo = [e \in Events |-> {}]
    /\ found = [e \in Events |-> {}] /\ late = [e \in Events |-> {}]
    /\ book = [d \in Deliveries |-> "none"]
    /\ doomed = [d \in Deliveries |-> {}]
    /\ copy = [d \in Deliveries |-> Absent]
    /\ expected = [h \in Hooks |-> 0] /\ raced = {}
    /\ restarts = 0 /\ faults = 0 /\ expiries = 0

Exists(h) == record[h] # Absent

Trouble == restarts + faults + expiries < MaxTroubles

Fault == Trouble /\ faults' = faults + 1 /\ UNCHANGED <<restarts, expiries>>

-----------------------------------------------------------------------------
(* POST /webhooks and DELETE /webhooks/:id.  A URL that is blocked or not   *)
(* well-formed, an unknown webhook and one of another user are answered     *)
(* before anything is written.                                              *)

CreateRecord(h) ==
    /\ create[h] = "new"
    /\ record' = [record EXCEPT ![h] = Fresh]
    /\ create' = [create EXCEPT ![h] = "stored"]
    /\ UNCHANGED <<deliveryVars, indexed, history, drop, deleted, triggerVars,
                   bookVars, boundVars>>

\* the index; when it fails the record stays, unlisted
CreateIndex(h) ==
    /\ create[h] = "stored"
    /\ \/ /\ indexed' = indexed \cup {h}
          /\ create' = [create EXCEPT ![h] = "created"]
          /\ UNCHANGED boundVars
       \/ /\ create' = [create EXCEPT ![h] = "failed"]
          /\ Fault
          /\ UNCHANGED indexed
    /\ UNCHANGED <<deliveryVars, record, history, drop, deleted, triggerVars,
                   bookVars>>

\* deleteWebhook: getWebhook finds one of the user's
DeleteLookup(h) ==
    /\ drop[h] = "idle" /\ create[h] \in {"created", "failed"} /\ Exists(h)
    /\ drop' = [drop EXCEPT ![h] = "found"]
    /\ UNCHANGED <<deliveryVars, storeVars, create, deleted, triggerVars, bookVars,
                   boundVars>>

DeleteRecord(h) ==
    /\ drop[h] = "found"
    /\ \/ /\ record' = [record EXCEPT ![h] = Absent]
          /\ drop' = [drop EXCEPT ![h] = "erased"]
          /\ UNCHANGED boundVars
       \/ /\ drop' = [drop EXCEPT ![h] = "idle"]
          /\ Fault
          /\ UNCHANGED record
    /\ UNCHANGED <<deliveryVars, indexed, history, create, deleted, triggerVars,
                   bookVars>>

\* Slip: the index is left to expire.
DeleteIndex_Forgotten(h) ==
    /\ drop[h] = "erased"
    /\ drop' = [drop EXCEPT ![h] = "idle"]
    /\ deleted' = deleted \cup {h}
    /\ UNCHANGED <<deliveryVars, storeVars, create, triggerVars, bookVars, boundVars>>

\* when it fails the index key stays, and a second DELETE answers 404
DeleteIndex(h) ==
    /\ drop[h] = "erased"
    /\ drop' = [drop EXCEPT ![h] = "idle"]
    /\ \/ /\ indexed' = indexed \ {h}
          /\ deleted' = deleted \cup {h}
          /\ UNCHANGED boundVars
       \/ Fault /\ UNCHANGED <<indexed, deleted>>
    /\ UNCHANGED <<deliveryVars, record, history, create, triggerVars, bookVars>>

\* The record has its time to live renewed by every delivery, its index has
\* not: either may expire.
Expire(h) ==
    /\ Trouble /\ expiries' = expiries + 1
    /\ \/ /\ Exists(h)
          /\ record' = [record EXCEPT ![h] = Absent]
          /\ UNCHANGED indexed
       \/ /\ h \in indexed
          /\ indexed' = indexed \ {h}
          /\ UNCHANGED record
    /\ UNCHANGED <<deliveryVars, history, routeVars, triggerVars, bookVars, restarts,
                   faults>>

-----------------------------------------------------------------------------
(* triggerWebhooks *)

\* A job is over (executorWorker.ts): onJobCompleted is called.
Trigger(e) ==
    /\ trig[e] = "new"
    /\ trig' = [trig EXCEPT ![e] = "scan"]
    /\ late' = [late EXCEPT ![e] = deleted]
    /\ UNCHANGED <<deliveryVars, storeVars, routeVars, todo, found, bookVars, boundVars>>

\* Slip: the scan stops before the first key.
ScanIndex_NoPage(e) ==
    /\ trig[e] = "scan"
    /\ trig' = [trig EXCEPT ![e] = "done"]
    /\ UNCHANGED <<deliveryVars, storeVars, routeVars, todo, found, late, bookVars,
                   boundVars>>

\* getUserWebhooks: the SCAN of the index
ScanIndex(e) ==
    /\ trig[e] = "scan"
    /\ todo' = [todo EXCEPT ![e] = indexed]
    /\ trig' = [trig EXCEPT ![e] = IF indexed = {} THEN "done" ELSE "each"]
    /\ UNCHANGED <<deliveryVars, storeVars, routeVars, found, late, bookVars,
                   boundVars>>

\* getUserWebhooks: one record.  After the last one a delivery starts for
\* each webhook found that has not failed.
ReadHook(e, h) ==
    /\ trig[e] = "each" /\ h \in todo[e]
    /\ todo' = [todo EXCEPT ![e] = @ \ {h}]
    /\ LET active == IF record[h].status = "active" THEN found[e] \cup {h} ELSE found[e]
       IN  IF todo[e] = {h}
           THEN /\ trig' = [trig EXCEPT ![e] = "done"]
                /\ found' = [found EXCEPT ![e] = {}]
                /\ Deliver({e} \X active)
           ELSE /\ found' = [found EXCEPT ![e] = active]
                /\ UNCHANGED <<trig, deliveryVars>>
    /\ UNCHANGED <<storeVars, routeVars, late, bookVars, boundVars>>

\* a command rejects: the event is dropped
TriggerFails(e) ==
    /\ trig[e] \in {"scan", "each"} /\ Fault
    /\ trig' = [trig EXCEPT ![e] = "done"]
    /\ todo' = [todo EXCEPT ![e] = {}] /\ found' = [found EXCEPT ![e] = {}]
    /\ UNCHANGED <<deliveryVars, storeVars, routeVars, late, bookVars>>

-----------------------------------------------------------------------------
(* The result of a delivery: recordWebhookDelivery, then resetFailedAttempts *)
(* or incrementFailedAttempts                                                *)

BookAt(d, next) == book' = [book EXCEPT ![d] = next]

\* SET webhook:<id>:deliveries:<now>
RecordDelivery(d) ==
    /\ outcome[d] # "none" /\ book[d] = "none"
    /\ history' = [history EXCEPT ![Hook(d)] = Append(@, d)]
    /\ BookAt(d, "scan")
    /\ UNCHANGED <<deliveryVars, record, indexed, routeVars, triggerVars, doomed,
                   copy, expected, raced, boundVars>>

\* Slip: sort() is taken to put the newest first.
Oldest_Newest(deliveries) ==
    ToSet(SubSeq(deliveries, Keep + 1, Len(deliveries)))

\* deliveries.sort().slice(0, deliveries.length - 100)
Oldest(deliveries) == ToSet(SubSeq(deliveries, 1, Len(deliveries) - Keep))

ScanHistory(d) ==
    /\ book[d] = "scan"
    /\ doomed' = [doomed EXCEPT ![d] = Oldest(history[Hook(d)])]
    /\ BookAt(d, IF doomed'[d] = {} THEN "get" ELSE "prune")
    /\ UNCHANGED <<deliveryVars, storeVars, routeVars, triggerVars, copy, expected,
                   raced, boundVars>>

\* DEL of one of them (oldest first in the code; the order is left out)
Prune(d) ==
    /\ book[d] = "prune"
    /\ \E o \in doomed[d] :
          /\ history' = [history EXCEPT ![Hook(d)] = RemoveFirst(@, o)]
          /\ doomed' = [doomed EXCEPT ![d] = @ \ {o}]
    /\ BookAt(d, IF doomed'[d] = {} THEN "get" ELSE "prune")
    /\ UNCHANGED <<deliveryVars, record, indexed, routeVars, triggerVars, copy,
                   expected, raced, boundVars>>

\* GET webhook:<id>; nothing to write when it is gone
ReadRecord(d) ==
    /\ book[d] = "get"
    /\ BookAt(d, IF Exists(Hook(d)) THEN "put" ELSE "done")
    /\ copy' = [copy EXCEPT ![d] = record[Hook(d)]]
    /\ raced' = IF \E c \in Deliveries : Hook(c) = Hook(d) /\ book[c] = "put"
                THEN raced \cup {Hook(d)} ELSE raced
    /\ UNCHANGED <<deliveryVars, storeVars, routeVars, triggerVars, doomed, expected,
                   boundVars>>

\* Slip: the counter is not cleared, only the status.
Booked_KeepsCount(r, result) ==
    IF result = "success" THEN [r EXCEPT !.status = "active"]
    ELSE [fails |-> r.fails + 1,
          status |-> IF r.fails + 1 >= FailLimit THEN "failed" ELSE r.status]

\* Slip: each try of a failed delivery is counted.
Booked_EachTry(r, result) ==
    IF result = "success" THEN Fresh
    ELSE [fails |-> r.fails + MaxRetries,
          status |-> IF r.fails + MaxRetries >= FailLimit THEN "failed" ELSE r.status]

\* Slip: INACTIVE in place of FAILED.
Booked_Inactive(r, result) ==
    IF result = "success" THEN Fresh
    ELSE [fails |-> r.fails + 1,
          status |-> IF r.fails + 1 >= FailLimit THEN "inactive" ELSE r.status]

\* the record after one more result
Booked(r, result) ==
    IF result = "success" THEN Fresh
    ELSE [fails |-> r.fails + 1,
          status |-> IF r.fails + 1 >= FailLimit THEN "failed" ELSE r.status]

\* SET webhook:<id> from what was read: a webhook deleted since comes back
WriteRecord(d) ==
    /\ book[d] = "put"
    /\ record' = [record EXCEPT ![Hook(d)] = Booked(copy[d], outcome[d])]
    /\ expected' = [expected EXCEPT ![Hook(d)] =
                       IF outcome[d] = "success" THEN 0 ELSE @ + 1]
    /\ BookAt(d, "done")
    /\ copy' = [copy EXCEPT ![d] = Absent]
    /\ UNCHANGED <<deliveryVars, indexed, history, routeVars, triggerVars, doomed,
                   raced, boundVars>>

\* a command rejects: logged, and the rest is left undone
BookFails(d) ==
    /\ \/ outcome[d] # "none" /\ book[d] = "none"
       \/ book[d] \in {"scan", "prune", "get", "put"}
    /\ Fault
    /\ BookAt(d, "done")
    /\ doomed' = [doomed EXCEPT ![d] = {}] /\ copy' = [copy EXCEPT ![d] = Absent]
    /\ UNCHANGED <<deliveryVars, storeVars, routeVars, triggerVars, expected, raced>>

Bookkeeping(d) ==
    RecordDelivery(d) \/ ScanHistory(d) \/ Prune(d) \/ ReadRecord(d) \/ WriteRecord(d)

-----------------------------------------------------------------------------

\* The process dies and starts again: what was under way is lost, the
\* keys in Redis stay.
Restart ==
    /\ Trouble /\ restarts' = restarts + 1
    /\ DeliveriesLost
    /\ create' = [h \in Hooks |-> IF create[h] = "stored" THEN "failed" ELSE create[h]]
    /\ drop' = [h \in Hooks |-> "idle"]
    /\ trig' = [e \in Events |-> IF trig[e] = "new" THEN "new" ELSE "done"]
    /\ todo' = [e \in Events |-> {}] /\ found' = [e \in Events |-> {}]
    /\ book' = [d \in Deliveries |->
                  IF outcome[d] = "none" THEN "none" ELSE "done"]
    /\ doomed' = [d \in Deliveries |-> {}]
    /\ copy' = [d \in Deliveries |-> Absent]
    /\ UNCHANGED <<storeVars, deleted, late, expected, raced, faults, expiries>>

Routes(h) ==
    \/ CreateRecord(h) \/ CreateIndex(h)
    \/ DeleteLookup(h) \/ DeleteRecord(h) \/ DeleteIndex(h)

Triggering(e) == ScanIndex(e) \/ \E h \in Hooks : ReadHook(e, h)

Delivering(d) ==
    /\ DeliveryStep(d)
    /\ UNCHANGED <<storeVars, routeVars, triggerVars, bookVars, boundVars>>

Next ==
    \/ \E h \in Hooks : Routes(h) \/ Expire(h)
    \/ \E e \in Events : Trigger(e) \/ Triggering(e) \/ TriggerFails(e)
    \/ \E d \in Deliveries : Delivering(d) \/ Bookkeeping(d) \/ BookFails(d)
    \/ Restart

Spec == Init /\ [][Next]_vars

Progress ==
    \/ \E e \in Events : Triggering(e)
    \/ \E d \in Deliveries : Delivering(d) \/ Bookkeeping(d)

\* Replies of Redis and timers come.  A request is over in the end: Node
\* destroys it after 10 s of silence, and a receiver that sends a byte now
\* and then for ever is left out.
Fairness == WF_vars(Progress)

LiveSpec == Spec /\ Fairness

-----------------------------------------------------------------------------
(* Properties *)

TypeOK ==
    /\ DeliveryTypeOK
    /\ record \in [Hooks -> [fails : Nat, status : {"absent", "active", "failed"}]]
    /\ indexed \subseteq Hooks
    /\ history \in [Hooks -> Seq(Deliveries)]
    /\ create \in [Hooks -> {"new", "stored", "created", "failed"}]
    /\ drop \in [Hooks -> {"idle", "found", "erased"}]
    /\ deleted \subseteq Hooks /\ raced \subseteq Hooks
    /\ trig \in [Events -> {"new", "scan", "each", "done"}]
    /\ {todo, found, late} \subseteq [Events -> SUBSET Hooks]
    /\ book \in [Deliveries -> {"none", "scan", "prune", "get", "put", "done"}]
    /\ doomed \in [Deliveries -> SUBSET Deliveries]
    /\ copy \in [Deliveries -> [fails : Nat, status : {"absent", "active", "failed"}]]
    /\ expected \in [Hooks -> Nat]
    /\ {restarts, faults, expiries} \subseteq 0..MaxTroubles

\* An event that comes after a DELETE was answered 200 is not delivered to
\* that webhook, although bookkeeping that was under way may have written
\* the record again (webhooks.routes.ts:142, webhookStore.ts:262).
DeletedStaysSilent ==
    \A e \in Events, h \in Hooks : h \in late[e] => ~Started(<<e, h>>)

FailedOf(h) == { d \in Deliveries : Hook(d) = h /\ outcome[d] \in {"failure", "refused"} }

\* Lost updates never count too much: failed_attempts is at most the number
\* of failed deliveries, and so many must fail to disable a webhook
\* ("Disable after 10 failed attempts", webhookStore.ts:254).
FailuresAreReal ==
    \A h \in Hooks :
        /\ record[h].fails <= Cardinality(FailedOf(h))
        /\ record[h].status = "failed" => Cardinality(FailedOf(h)) >= FailLimit

\* The books of a webhook are exact when no two deliveries kept them at the
\* same time: the failures since the last success, and the status that
\* follows from them.
BooksAreExact ==
    \A h \in Hooks \ raced : Exists(h) =>
        /\ record[h].fails = expected[h]
        /\ record[h].status = "failed" <=> expected[h] >= FailLimit

\* Deliveries of h that are being recorded.
Recording(h) == { d \in Deliveries : Hook(d) = h /\ book[d] \in {"scan", "prune"} }

\* However recordings overlap, the history has at most Keep entries when
\* they are over, and one more for each that failed.
HistoryIsCut ==
    restarts = 0 =>
        \A h \in Hooks : Len(history[h]) <= Keep + Cardinality(Recording(h)) + faults

\* However recordings overlap, only deliveries with Keep later ones go, and
\* the others are cut in the end.
KeepsNewest ==
    [][/\ HistoryIsCut'
       /\ \A h \in Hooks : \A i \in DOMAIN history[h] :
             history[h][i] \notin ToSet(history'[h]) => Len(history[h]) - i >= Keep]_vars

\* A delivery gets its result, unless an answer was cut in its body or the
\* process died.
DeliverySettles ==
    \A d \in Deliveries :
        Started(d) ~> \/ outcome[d] # "none"
                      \/ \E i \in Numbers : try[d][i] = "cut"
                      \/ restarts > 0

\* An event reaches a listed webhook unless it is disabled or deleted, Redis
\* fails or the process dies.
EventIsDelivered ==
    \A e \in Events, h \in Hooks :
        trig[e] = "scan" /\ h \in indexed
           ~> Started(<<e, h>>) \/ record[h].status # "active" \/ h \notin indexed
                 \/ faults > 0 \/ restarts > 0
=============================================================================
