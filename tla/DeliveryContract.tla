-------------------------- MODULE DeliveryContract --------------------------
(***************************************************************************)
(* What a call of deliverWebhook (webhookDispatcher.ts) promises its       *)
(* caller, whatever the receiver does: one result, "success" with the      *)
(* first answer the receiver accepts with, "failure" when MaxRetries tries *)
(* were made in vain, "refused" when the URL is blocked.  How many tries   *)
(* are made is not part of the promise.                                    *)
(***************************************************************************)
EXTENDS Naturals

CONSTANTS Deliveries, MaxRetries

VARIABLE promise  \* of each call: the tries made, whether one was accepted,
                  \* the result

Init == promise = [d \in Deliveries |->
                     [posts |-> 0, accepted |-> FALSE, outcome |-> "none"]]

Settled(p, result) == IF p.outcome = "none" THEN result ELSE p.outcome

Post(p, q) == q = [p EXCEPT !.posts = @ + 1]

\* A 2xx answer is the result, unless there is one.
Accept(p, q) ==
    /\ p.posts > 0
    /\ q = [posts |-> p.posts, accepted |-> TRUE, outcome |-> Settled(p, "success")]

GiveUp(p, q) ==
    /\ p.posts >= MaxRetries /\ ~p.accepted /\ p.outcome = "none"
    /\ q = [p EXCEPT !.outcome = "failure"]

Refuse(p, q) ==
    /\ p.posts > 0 /\ ~p.accepted /\ p.outcome = "none"
    /\ q = [p EXCEPT !.outcome = "refused"]

Step(p, q) == q = p \/ Post(p, q) \/ Accept(p, q) \/ GiveUp(p, q) \/ Refuse(p, q)

Next == \A d \in Deliveries : Step(promise[d], promise'[d])

Spec == Init /\ [][Next]_promise
=============================================================================
