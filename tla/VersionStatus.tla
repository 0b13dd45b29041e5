---------------------------- MODULE VersionStatus ----------------------------
(***************************************************************************)
(* What docs/architecture.md promises of a version's status: it is created  *)
(* PENDING, goes PENDING -> PROCESSING -> READY | FAILED; a settled one may *)
(* be converted again, any may be deleted, and a restart puts interrupted   *)
(* conversions back to PENDING.                                             *)
(***************************************************************************)
CONSTANT Versions
VARIABLE status

Init == status = [v \in Versions |-> "none"]

Move(v, from, to) ==
    /\ status[v] \in from
    /\ status' = [status EXCEPT ![v] = to]

Submit(v)  == Move(v, {"none"}, "PENDING")
Begin(v)   == Move(v, {"PENDING"}, "PROCESSING")
Settle(v)  == Move(v, {"PROCESSING"}, "READY") \/ Move(v, {"PROCESSING"}, "FAILED")
Again(v)   == Move(v, {"READY", "FAILED"}, "PENDING")
Remove(v)  == Move(v, {"PENDING", "PROCESSING", "READY", "FAILED"}, "deleted")
Restart    == status' = [v \in Versions |->
                 IF status[v] = "PROCESSING" THEN "PENDING" ELSE status[v]]

Next ==
    \/ \E v \in Versions :
          Submit(v) \/ Begin(v) \/ Settle(v) \/ Again(v) \/ Remove(v)
    \/ Restart

Spec == Init /\ [][Next]_status
=============================================================================
