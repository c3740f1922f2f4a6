-------------------------- MODULE RerouteContract --------------------------
(***************************************************************************)
(* What a caller of run() is promised, without nodes, edges or retries: an *)
(* alert ends with a viable carrier booked and SUCCESS, or with nothing    *)
(* booked and ESCALATED or FAILED.  Until then it is IN_PROGRESS, which is *)
(* also how a run that raises leaves it.                                   *)
(***************************************************************************)
CONSTANT AllCarriers

VARIABLES
    viable,     \* the carriers that may be booked for this alert
    booked,     \* the carriers that have been booked
    status

vars == <<viable, booked, status>>

Init ==
    /\ viable \in SUBSET AllCarriers
    /\ booked = {}
    /\ status = "IN_PROGRESS"

\* The one booking of a run.
Book ==
    /\ status = "IN_PROGRESS"
    /\ booked = {}
    /\ \E c \in viable : booked' = {c}
    /\ UNCHANGED <<viable, status>>

Succeed ==
    /\ status = "IN_PROGRESS"
    /\ booked # {}
    /\ status' = "SUCCESS"
    /\ UNCHANGED <<viable, booked>>

GiveUp ==
    /\ status = "IN_PROGRESS"
    /\ booked = {}
    /\ status' \in {"ESCALATED", "FAILED"}
    /\ UNCHANGED <<viable, booked>>

Next == Book \/ Succeed \/ GiveUp

Spec == Init /\ [][Next]_vars

=============================================================================
