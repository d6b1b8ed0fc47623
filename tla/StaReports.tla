----------------------------- MODULE StaReports -----------------------------
(***************************************************************************)
(* What the client side of the HAL promises to the process that called     *)
(* wifi_client_event_callback_register: each callback tells of a state the *)
(* backhaul station was really in, and never of one older than the state   *)
(* told before. Changes may be skipped, and nothing is promised about when *)
(* a callback comes.                                                       *)
(***************************************************************************)
EXTENDS Naturals

CONSTANT Sta

VARIABLES
    truth,   \* truth[s]: how often the association of s has changed
    seen     \* seen[s]: the change the last callback told of

Init == truth = [s \in Sta |-> 0] /\ seen = [s \in Sta |-> 0]

Change(s) == /\ truth' = [truth EXCEPT ![s] = @ + 1]
             /\ UNCHANGED seen

Report(s) == /\ \E v \in (seen[s] + 1)..truth[s] : seen' = [seen EXCEPT ![s] = v]
             /\ UNCHANGED truth

Next == \E s \in Sta : Change(s) \/ Report(s)

Spec == Init /\ [][Next]_<<truth, seen>>
=============================================================================
