-------------------------- MODULE DeadMansSwitch ---------------------------
(***************************************************************************)
(* What the contract promises about every will, whatever else happens to   *)
(* it: the life cycle drawn in types.rs, with the clock that governs it.   *)
(* `heard` is the last sign of life of the owner.  One step may move       *)
(* several wills (a batch check-in, a merge), each by one arrow.           *)
(***************************************************************************)
EXTENDS Integers

CONSTANTS Ids, SecondsPerDay

VARIABLES clock, estate

Absent == [status |-> "Absent", heard |-> 0, checkin |-> 0, grace |-> 0]
Archived == [Absent EXCEPT !.status = "Archived"]

Due(e) == e.heard + e.checkin * SecondsPerDay
Mercy(e) == Due(e) + e.grace * SecondsPerDay

\* e2 is e1 but for its status.
Becomes(e1, e2, status) == e2 = [e1 EXCEPT !.status = status]

Create(e1, e2) ==
    /\ e1 = Absent
    /\ e2.status \in {"PendingConfirmation", "Active"}
    /\ e2.heard = clock

Confirm(e1, e2) ==
    /\ e1.status = "PendingConfirmation"
    /\ e2 = [e1 EXCEPT !.status = "Active", !.heard = clock]

CheckIn(e1, e2) ==
    /\ e1.status = "Active"
    /\ e2 = [e1 EXCEPT !.heard = clock]

\* The owner changes the periods; that is no sign of life to the clock.
ChangePeriods(e1, e2) ==
    /\ e1.status = "Active"
    /\ e2 = [e1 EXCEPT !.checkin = e2.checkin, !.grace = e2.grace]

Trigger(e1, e2) ==
    /\ e1.status = "Active"
    /\ clock >= Due(e1)
    /\ Becomes(e1, e2, "Triggered")

Recover(e1, e2) ==
    /\ e1.status = "Triggered"
    /\ clock <= Mercy(e1)
    /\ e2 = [e1 EXCEPT !.status = "Active", !.heard = clock]

Release(e1, e2) ==
    /\ e1.status = "Triggered"
    /\ clock > Mercy(e1)
    /\ Becomes(e1, e2, "Released")

GuardianRelease(e1, e2) ==
    /\ e1.status = "Active"
    /\ Becomes(e1, e2, "Released")

Cancel(e1, e2) ==
    /\ e1.status \in {"PendingConfirmation", "Active"}
    /\ Becomes(e1, e2, "Cancelled")

Close(e1, e2) ==
    /\ e1.status = "Released"
    /\ Becomes(e1, e2, "Settled")

Archive(e1, e2) ==
    /\ e1.status \in {"Released", "Cancelled"}
    /\ e2 = Archived

Arrow(e1, e2) ==
    \/ Create(e1, e2)  \/ Confirm(e1, e2) \/ CheckIn(e1, e2) \/ ChangePeriods(e1, e2)
    \/ Trigger(e1, e2) \/ Recover(e1, e2) \/ Release(e1, e2) \/ GuardianRelease(e1, e2)
    \/ Cancel(e1, e2)  \/ Close(e1, e2)   \/ Archive(e1, e2)

Init ==
    /\ clock = 0
    /\ estate = [id \in Ids |-> Absent]

Pass ==
    /\ clock' = clock + 1
    /\ UNCHANGED estate

Move ==
    /\ \A id \in Ids : estate'[id] = estate[id] \/ Arrow(estate[id], estate'[id])
    /\ UNCHANGED clock

Next == Pass \/ Move

Spec == Init /\ [][Next]_<<clock, estate>>
=============================================================================
