-------------------------- MODULE WillProperties ---------------------------
(***************************************************************************)
(* The correctness properties of the contract, stated over its storage, so *)
(* that every specification built on WillStorage can be checked against    *)
(* them.                                                                   *)
(***************************************************************************)
EXTENDS WillStorage

\* Every storage entry holds a value of the type its DataKey declares.
TypeOK == StorageTypeOK

----------------------------------------------------------------------------
(* The clock *)

\* A Triggered will carries the deadline its owner actually missed, which is
\* in the past, and a will whose clock runs carries no trigger time: nothing
\* moves the deadline of a triggered will (trigger_will, emergency_checkin,
\* update_periods).
TriggerTimeIsTheMissedDeadline ==
    \A id \in DOMAIN wills :
        LET w == wills[id] IN
        CASE w.status = "Triggered" -> /\ w.trigger_time = CheckinDeadline(w)
                                       /\ w.trigger_time <= now
          [] w.status \in {"PendingConfirmation", "Active"} -> w.trigger_time = NoTime
          [] OTHER -> TRUE

\* The owner's last sign of life and the periods are what the life cycle of
\* types.rs runs on: no will is created, triggered, recovered, released,
\* cancelled, closed or archived except along an arrow of that diagram and at
\* the right side of its deadline.
AbstractEstate ==
    [id \in WillIds |->
        IF id \in DOMAIN wills
        THEN [status  |-> wills[id].status,
              heard   |-> wills[id].last_checkin,
              checkin |-> wills[id].checkin_period_days,
              grace   |-> wills[id].grace_period_days]
        ELSE [status  |-> IF id \in DOMAIN archived_wills THEN "Archived" ELSE "Absent",
              heard   |-> 0, checkin |-> 0, grace |-> 0]]

Promise == INSTANCE DeadMansSwitch WITH
    Ids <- WillIds, SecondsPerDay <- SECONDS_PER_DAY,
    clock <- now, estate <- AbstractEstate

ImplementsDeadMansSwitch == Promise!Spec

----------------------------------------------------------------------------
(* Derived storage agrees with the wills *)

\* get_triggered_wills lists exactly the wills whose grace period is running.
TriggeredIndexExact == triggered_wills = {id \in DOMAIN wills : wills[id].status = "Triggered"}

\* get_wills_by_owner and get_wills_by_beneficiary list exactly the live wills
\* of an address; a listed id that is not stored would make the readers panic.
AddressIndexesExact ==
    \A a \in Accounts :
        /\ owner_wills[a] = {id \in LiveWills : wills[id].owner = a}
        /\ beneficiary_wills[a] =
                {id \in LiveWills : a \in Addresses(wills[id].beneficiaries)}

\* No list of an address outgrows its limit, whichever of creation, batch, clone,
\* split, merge or a change of heirs adds to it: these calls reserve their places
\* in three different ways, one by one, before any transfer, or for a whole batch.
IndexesWithinCap ==
    \A a \in Accounts :
        /\ Cardinality(owner_wills[a]) <= MAX_WILLS_PER_INDEX
        /\ Cardinality(beneficiary_wills[a]) <= MAX_WILLS_PER_INDEX

\* The newest history entry of a stored will ends in the status the will has,
\* and only stored wills have a history: every entry point that changes a
\* status records that change.
TrailEndsInStatus ==
    /\ DOMAIN history = DOMAIN wills
    /\ \A id \in DOMAIN wills : history[id].to = wills[id].status

\* The legacy `balance` mirror equals the primary token's entry of `balances`.
MirrorAgrees ==
    \A id \in DOMAIN wills : wills[id].balance = BalanceOf(wills[id].balances, wills[id].token)

----------------------------------------------------------------------------
(* Money *)

HeldByArchive(t) ==
    SumFunction([id \in DOMAIN archived_wills |-> BalanceOf(archived_wills[id].balances, t)])

Parked(t) == SumFunctionOnSet(failed_payout, {key \in DOMAIN failed_payout : key[2] = t})

Owed(t) == HeldBy(DOMAIN wills, t) + HeldByArchive(t) + Parked(t)

\* The contract always holds what it owes: the balances of all its wills and
\* the payouts it has parked.  No sequence of releases, refusals, retries and
\* cancellations pays one will out of another will's money.
Solvent == \A t \in Tokens : bank[t][Contract] >= Owed(t)

\* The whole of it is accounted for: nothing in the contract belongs to nobody.
NothingStranded == \A t \in Tokens : bank[t][Contract] = Owed(t)

\* A will that is over keeps nothing back but the reserve of hashed shares
\* still to be claimed.
OverMeansPaidOut ==
    \A id \in DOMAIN wills :
        /\ wills[id].status = "Cancelled" => wills[id].balances = << >>
        /\ wills[id].status \in {"Released", "Settled"}
           /\ unclaimed_hashed_bps(wills[id].hashed_beneficiaries) = 0
                => \A t \in DOMAIN wills[id].balances : wills[id].balances[t] = 0

\* The fixed bequests of a live will never exceed what it holds of its primary
\* token, so distribute never has to cut one short.
FixedBequestsCovered ==
    \A id \in LiveWills :
        TotalOf(wills[id].beneficiaries, "FixedAmount")
            <= BalanceOf(wills[id].balances, wills[id].token)

\* The percentages of a live will add up to exactly 100 % if it has any.
PercentagesWhole ==
    \A id \in LiveWills :
        OfKind(wills[id].beneficiaries, "Percentage") # {}
            => TotalOf(wills[id].beneficiaries, "Percentage") = 10000

----------------------------------------------------------------------------
(* Guardians *)

Voted(records, id) == {a \in Accounts : records[id][a] # NoTime}

\* Only guardians on the current list of a stored will have vote records:
\* whoever leaves the list (a replacement, a merge, an archived will) leaves no
\* vote behind that a later reappointment would revive.
VotesOfGuardiansOnly ==
    \A id \in WillIds :
        Voted(guardian_vote, id) \cup Voted(guardian_cancel_vote, id)
            \subseteq (IF id \in DOMAIN wills THEN DOMAIN wills[id].guardians ELSE {})

\* Every vote on record was cast when the current guardian list had been in
\* place for the cooldown: a list swapped in cannot use the votes, nor the
\* seniority, of the one it replaced.
VotesPostdateCooldown ==
    \A id \in DOMAIN wills :
        LET settled == wills[id].guardian_list_updated_at
                            + GUARDIAN_COOLDOWN_DAYS * SECONDS_PER_DAY
        IN  /\ \A a \in Voted(guardian_vote, id) : guardian_vote[id][a] >= settled
            /\ \A a \in Voted(guardian_cancel_vote, id) : guardian_cancel_vote[id][a] >= settled

\* Each trigger starts a new round of cancel votes: a will that is not
\* triggered yet has no cancel vote on record and none counted, although
\* reset_guardian_cancel_votes skips its work when the count is zero.
CancelRoundsStartEmpty ==
    \A id \in DOMAIN wills :
        wills[id].status \in {"PendingConfirmation", "Active"}
            => /\ Voted(guardian_cancel_vote, id) = {}
               /\ assert_no_guardian_cancel_in_flight(wills[id])

\* The stored tallies never claim more than the vote records can back: not more
\* heads, and not more weight, than the guardians with a record on file.
TalliesBackedByRecords ==
    \A id \in DOMAIN wills :
        LET w       == wills[id]
            release == Voted(guardian_vote, id) \cap DOMAIN w.guardians
            cancel  == Voted(guardian_cancel_vote, id) \cap DOMAIN w.guardians
        IN  /\ w.guardian_votes <= Cardinality(release)
            /\ w.guardian_vote_weight <= WeightOf(w.guardians, release)
            /\ w.guardian_cancel_votes <= Cardinality(cancel)
            /\ w.guardian_cancel_vote_weight <= WeightOf(w.guardians, cancel)

\* No quorum waits: an Active will whose tally reaches its threshold has been
\* released by the vote that completed it, and a Triggered one taken back.
NoIdleQuorum ==
    \A id \in DOMAIN wills :
        LET w == wills[id] IN
        w.guardian_threshold > 0 =>
            /\ w.status = "Active" => w.guardian_vote_weight < w.guardian_threshold
            /\ w.status = "Triggered" => w.guardian_cancel_vote_weight < w.guardian_threshold

\* Guardians release an Active will only together: the consenting guardians
\* whose votes are alive at that moment carry the weight of the threshold,
\* counted from the records themselves (no vote counts twice, none from a
\* guardian who declined, none that expired).
QuorumBehind(id, w, records) ==
    WeightOf(w.guardians,
        {g \in DOMAIN w.guardians :
            /\ w.guardians[g].consent = "Accepted"
            /\ has_voted(records, id, g, w.grace_period_days)}) >= w.guardian_threshold

GuardianReleaseNeedsQuorum ==
    [][\A id \in DOMAIN wills :
        (HasStatus(id, "Active") /\ id \in DOMAIN wills' /\ wills'[id].status = "Released")
            => QuorumBehind(id, wills[id], guardian_vote')]_vars

\* "stop stale votes being replayed without the guardians re-voting": a vote
\* that has expired is never live again unless it is cast again.
ExpiredVotesStayExpired ==
    [][\A id \in DOMAIN wills, g \in Accounts :
        (/\ id \in DOMAIN wills'
         /\ guardian_vote[id][g] # NoTime
         /\ guardian_vote'[id][g] = guardian_vote[id][g]
         /\ ~has_voted(guardian_vote, id, g, wills[id].grace_period_days))
            => ~has_voted(guardian_vote, id, g, wills[id].grace_period_days)']_vars

\* "validated in 1..=total_weight": a will with guardians has a threshold that
\* at least one of them is needed for, and that all of them can reach.
ThresholdInRange ==
    \A id \in LiveWills :
        LET w == wills[id] IN
        DOMAIN w.guardians # {} =>
            w.guardian_threshold \in 1..WeightOf(w.guardians, DOMAIN w.guardians)

----------------------------------------------------------------------------
(* Protocol statistics: the consistency invariant of types.rs *)

\* active_will_count is the number of live wills.
ActiveCountExact == protocol_stats.active_will_count = Cardinality(LiveWills)

----------------------------------------------------------------------------
(* Progress *)

\* A triggered will does not stay in limbo: once its grace period is over it is
\* released (or was taken back in time).
TriggeredResolves ==
    \A id \in WillIds :
        (HasStatus(id, "Triggered") /\ grace_deadline(wills[id]) < MaxTime)
            ~> ~HasStatus(id, "Triggered")

\* A missed check-in does not go unnoticed: the will is triggered, or the owner
\* turns out to be alive.
MissedCheckinIsNoticed ==
    \A id \in WillIds :
        (HasStatus(id, "Active") /\ now >= CheckinDeadline(wills[id]))
            ~> ~(HasStatus(id, "Active") /\ now >= CheckinDeadline(wills[id]))
=============================================================================
