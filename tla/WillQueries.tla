---------------------------- MODULE WillQueries ----------------------------
(***************************************************************************)
(* The read-only entry points that compute an answer from the storage, and *)
(* what clients may conclude from their answers: keepers and owners about  *)
(* deadlines, guardians about their vote, dashboards about totals.         *)
(***************************************************************************)
EXTENDS GuardianQuorum

NoAnswer == [none |-> TRUE]
Answer(n) == [none |-> FALSE, value |-> n]

get_will_status(id) == wills[id].status

\* Faulty: the grace period is counted from the owner's last sign of life.
get_time_until_deadline_unanchored(id) ==
    LET w == wills[id] IN
    CASE w.status = "Active" -> Answer(CheckinDeadline(w) - now)
      [] w.status = "Triggered" ->
            Answer(w.last_checkin + w.grace_period_days * SECONDS_PER_DAY - now)
      [] OTHER -> NoAnswer

\* Negative once the deadline is past.
get_time_until_deadline(id) ==
    LET w == wills[id] IN
    CASE w.status = "Active" -> Answer(CheckinDeadline(w) - now)
      [] w.status = "Triggered" ->
            LET anchor == IF w.trigger_time = NoTime THEN w.last_checkin ELSE w.trigger_time
            IN  Answer(anchor + w.grace_period_days * SECONDS_PER_DAY - now)
      [] OTHER -> NoAnswer

\* Faulty: the record is returned whatever its age.
get_guardian_vote_status_expired(id, guardian) ==
    IF guardian_vote[id][guardian] = NoTime THEN NoAnswer
    ELSE Answer(guardian_vote[id][guardian])

get_guardian_vote_status(id, guardian) ==
    IF has_voted(guardian_vote, id, guardian, wills[id].grace_period_days)
    THEN Answer(guardian_vote[id][guardian])
    ELSE NoAnswer

\* Faulty: Triggered wills are left out.
OwnerStatsOf_running(ids) ==
    LET live == {id \in ids : get_will_status(id) \in {"PendingConfirmation", "Active"}}
    IN  [total_wills           |-> Cardinality(ids),
         active_wills          |-> Cardinality(live),
         total_locked_by_token |-> [t \in Tokens |-> HeldBy(live, t)]]

OwnerStatsOf(ids) ==
    LET live == {id \in ids : get_will_status(id) \in LiveStatus}
    IN  [total_wills           |-> Cardinality(ids),
         active_wills          |-> Cardinality(live),
         total_locked_by_token |-> [t \in Tokens |-> HeldBy(live, t)]]

get_owner_stats(owner) == OwnerStatsOf(owner_wills[owner])

audit_protocol_stats ==
    [stored     |-> protocol_stats,
     computed   |-> recompute_protocol_stats,
     consistent |-> protocol_stats = recompute_protocol_stats]

----------------------------------------------------------------------------
(* What the answers are worth *)

DueIn(id) == get_time_until_deadline(id).value

\* A client who asks how much time is left knows which calls will succeed: a
\* keeper may trigger from zero on; zero on a triggered will is the owner's last
\* second, and below zero it is the keepers' turn, never both and never nobody's
\* (lib.rs:2438-2449).
DeadlineAnswersHonest ==
    \A id \in DOMAIN wills :
        CASE HasStatus(id, "Active") -> DueIn(id) <= 0 <=> ENABLED trigger_will(id)
          [] HasStatus(id, "Triggered") ->
                /\ DueIn(id) >= 0 <=> ENABLED emergency_checkin(id, wills[id].owner)
                /\ DueIn(id) < 0 <=> ENABLED release_inheritance(id, NoAccount, {})
          [] OTHER -> get_time_until_deadline(id) = NoAnswer

\* "Lets a guardian's own dashboard show 'you already voted'" (lib.rs:2495-2497):
\* a vote is only ever accepted from a guardian whose dashboard shows none, also
\* when an earlier one is still on file but has expired, and while the will and
\* its terms stand it is shown from then on until it expires or is taken back.
VoteAnswersHonest ==
    [][\A id \in DOMAIN wills, g \in Accounts :
        /\ guardian_vote'[id][g] \notin {guardian_vote[id][g], NoTime}
            => /\ get_guardian_vote_status(id, g) = NoAnswer
               /\ get_guardian_vote_status(id, g)' = Answer(now)
        /\ (/\ get_guardian_vote_status(id, g) # NoAnswer
            /\ id \in DOMAIN wills'
            /\ get_guardian_vote_status(id, g)' = NoAnswer)
            => \/ guardian_vote'[id][g] = NoTime
               \/ now' # now
               \/ wills'[id].grace_period_days < wills[id].grace_period_days]_vars

\* The summaries agree with each other: what get_owner_stats tells the owners
\* adds up to what an audit computes for the protocol, and no owner is shown a
\* will that is over.
OwnerStatsAddUp ==
    LET audit == audit_protocol_stats
        stats == [a \in Accounts |-> get_owner_stats(a)]
    IN  /\ \A a \in Accounts : stats[a].active_wills = stats[a].total_wills
        /\ SumFunction([a \in Accounts |-> stats[a].active_wills])
                = audit.stored.active_will_count
        /\ \A t \in Tokens :
            SumFunction([a \in Accounts |-> stats[a].total_locked_by_token[t]])
                = audit.computed.total_locked_by_token[t]
=============================================================================
