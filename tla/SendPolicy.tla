----------------------------- MODULE SendPolicy -----------------------------
(***************************************************************************)
(* The operator's send boundary (core/send_policy.py): a file that every   *)
(* sender reads anew each time it asks.  An unreadable file, another       *)
(* schema and another authority all read as a file that allows nothing.    *)
(***************************************************************************)
VARIABLE policy  \* what config/mail-execution-policy.json says

PolicyFiles == {"human_click_in_mailapp", "explicit_programmatic_receipt"}

AutomatedSendAllowed == policy = "explicit_programmatic_receipt"

PolicyInit == policy \in PolicyFiles

\* The operator takes the permission back, for good.
PolicyOff ==
    /\ AutomatedSendAllowed
    /\ policy' = "human_click_in_mailapp"
=============================================================================
