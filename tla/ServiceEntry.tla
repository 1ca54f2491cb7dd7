----------------------------- MODULE ServiceEntry -----------------------------
(***************************************************************************)
(* What a service registry promises about one server instance, whatever    *)
(* protocol keeps the promise: while its process lives the instance may    *)
(* publish itself as up or down and may drop out of the directory again;   *)
(* a dead process publishes nothing more, and what it left behind is       *)
(* eventually withdrawn.  Registration implements this for one instance;   *)
(* Discovery takes one such entry per instance as its environment.         *)
(***************************************************************************)

VARIABLES
    live,   \* does the process of the instance still run?
    entry   \* what the directory shows for it: "absent", "up" or "down"

entryVars == <<live, entry>>

EntryInit == live = TRUE /\ entry = "absent"

Publish(status) ==
    /\ live = TRUE
    /\ status \in {"up", "down"}
    /\ entry' = status
    /\ UNCHANGED live

Withdraw ==
    /\ entry # "absent"
    /\ entry' = "absent"
    /\ UNCHANGED live

Die ==
    /\ live = TRUE
    /\ live' = FALSE
    /\ UNCHANGED entry

EntryNext == Publish("up") \/ Publish("down") \/ Withdraw \/ Die

EntrySafety == EntryInit /\ [][EntryNext]_entryVars

\* The directory owes the withdrawal of a dead instance only.
EntrySpec == EntrySafety /\ WF_entryVars(live = FALSE /\ Withdraw)
===============================================================================
