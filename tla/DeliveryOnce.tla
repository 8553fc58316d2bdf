---------------------------- MODULE DeliveryOnce ----------------------------
(***************************************************************************)
(* What the webhook receiver promises GitHub about one delivery: however   *)
(* often it is sent, it is taken up once and queues at most one build, and *)
(* a delivery that was taken up is never taken up again, whether it queued *)
(* a build, was ignored, or was abandoned half-way.                        *)
(***************************************************************************)
EXTENDS Integers

CONSTANT Deliveries

VARIABLES
    stage,  \* "new", "taken" while a request works on it, then "settled"
    rows    \* how many deployment rows carry its delivery id

Init ==
    /\ stage = [d \in Deliveries |-> "new"]
    /\ rows = [d \in Deliveries |-> 0]

\* An event that nothing listens to is settled at once.
Take(d) ==
    /\ stage[d] = "new"
    /\ \E s \in {"taken", "settled"} : stage' = [stage EXCEPT ![d] = s]
    /\ UNCHANGED rows

Queue(d) ==
    /\ stage[d] = "taken"
    /\ stage' = [stage EXCEPT ![d] = "settled"]
    /\ rows' = [rows EXCEPT ![d] = @ + 1]

\* One delivery is ignored or fails; a crash abandons several at once.
Abandon ==
    \E S \in SUBSET {d \in Deliveries : stage[d] = "taken"} :
        stage' = [d \in Deliveries |-> IF d \in S THEN "settled" ELSE stage[d]]
    /\ UNCHANGED rows

Next == Abandon \/ \E d \in Deliveries : Take(d) \/ Queue(d)

Spec == Init /\ [][Next]_<<stage, rows>>
=============================================================================
