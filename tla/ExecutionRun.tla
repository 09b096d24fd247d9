---------------------------- MODULE ExecutionRun ----------------------------
(***************************************************************************)
(* What one run of an execution promises to whoever polls its row or       *)
(* listens to its events: the row goes from queued to running and at most  *)
(* once further to a final status; an outcome is announced after it is     *)
(* stored, at most once, and never another one; nothing changes after the  *)
(* run returns.                                                            *)
(***************************************************************************)
VARIABLES row, announced, returned

vars == <<row, announced, returned>>

Init == row = "queued" /\ announced = "nothing" /\ returned = FALSE

Begin == row = "queued" /\ row' = "running" /\ UNCHANGED announced

Settle(s) ==
    /\ row = "running" /\ announced = "started"
    /\ row' = s
    /\ UNCHANGED announced

Announce(e) ==
    /\ CASE e = "started"   -> announced = "nothing" /\ row = "running"
         [] e = "completed" -> announced = "started" /\ row = "succeeded"
         [] e = "failed"    -> announced = "started" /\ row \in {"failed", "cancelled"}
    /\ announced' = e
    /\ UNCHANGED row

\* The last write or announcement and the return may be one step.
Next ==
    /\ ~returned
    /\ returned' \in BOOLEAN
    /\ \/ Begin
       \/ \E s \in {"succeeded", "failed", "cancelled"} : Settle(s)
       \/ \E e \in {"started", "completed", "failed"} : Announce(e)
       \/ returned' /\ UNCHANGED <<row, announced>>

Spec == Init /\ [][Next]_vars
=============================================================================
