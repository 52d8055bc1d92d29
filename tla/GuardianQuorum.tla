--------------------------- MODULE GuardianQuorum --------------------------
(***************************************************************************)
(* The guardians of a will: appointed by the owner, consenting or          *)
(* declining for themselves, and able to release an Active will or to take *)
(* back a trigger when the weight of their live votes reaches the will's   *)
(* threshold.  Votes expire after the grace period; new lists must wait    *)
(* out a cooldown.                                                         *)
(***************************************************************************)
EXTENDS WillLifecycle

CONSTANTS
    GuardianLists,   \* lists for update_guardians
    WeightedLists    \* [guardians: Seq(<<address, weight>>), threshold] for
                     \* update_guardians_weighted; threshold NoTime = None

ASSUME GuardianInputsAssumption ==
    /\ GuardianLists \subseteq Seq(Accounts)
    /\ WeightedLists \subseteq [guardians : Seq(Accounts \X Nat), threshold : OptionalTime]

----------------------------------------------------------------------------
(* Voting *)

\* Faulty: a new list may vote at once.
CooledDown_at_once(w) == now >= w.guardian_list_updated_at

CooledDown(w) == now >= w.guardian_list_updated_at + GUARDIAN_COOLDOWN_DAYS * SECONDS_PER_DAY

MayVote(w, guardian) ==
    /\ CooledDown(w)
    /\ guardian \in DOMAIN w.guardians
    /\ w.guardians[guardian].consent = "Accepted"

\* Whose votes tally_guardian_votes counts: consenting guardians with a live vote.
Counted(id, w, records) ==
    {g \in DOMAIN w.guardians : /\ w.guardians[g].consent = "Accepted"
                                /\ has_voted(records, id, g, w.grace_period_days)}

\* The second opinion asked before a release: consent is not looked at.
live_guardian_vote_weight(id, w, records) ==
    WeightOf(w.guardians,
             {g \in DOMAIN w.guardians : has_voted(records, id, g, w.grace_period_days)})

\* Faulty: one head more than before, not a recount.
TalliedIncrementally(id, w, records) ==
    [w EXCEPT !.guardian_votes       = @ + 1,
              !.guardian_vote_weight = WeightOf(w.guardians, Counted(id, w, records))]

\* Recounted from the records, so an expired vote drops out.
Tallied(id, w, records) ==
    [w EXCEPT !.guardian_votes       = Cardinality(Counted(id, w, records)),
              !.guardian_vote_weight = WeightOf(w.guardians, Counted(id, w, records))]

CancelTallied(id, w, records) ==
    [w EXCEPT !.guardian_cancel_votes       = Cardinality(Counted(id, w, records)),
              !.guardian_cancel_vote_weight = WeightOf(w.guardians, Counted(id, w, records))]

\* Faulty: reaching the threshold is not enough.
ReleaseQuorum_strict(id, w, records) == w.guardian_vote_weight > w.guardian_threshold

\* Faulty: one vote short of the threshold is enough.
ReleaseQuorum_one_short(id, w, records) == w.guardian_vote_weight + 1 >= w.guardian_threshold

ReleaseQuorum(id, w, records) ==
    /\ w.guardian_vote_weight >= w.guardian_threshold
    /\ live_guardian_vote_weight(id, w, records) >= w.guardian_threshold

\* One vote to release; the vote that completes the quorum pays out the will in
\* the same call, without a keeper bounty.
guardian_trigger(id, guardian, refused) ==
    LET records == [guardian_vote EXCEPT ![id][guardian] = now]
        w       == Tallied(id, wills[id], records)
    IN  /\ HasStatus(id, "Active")
        /\ MayVote(wills[id], guardian)
        /\ ~has_voted(guardian_vote, id, guardian, wills[id].grace_period_days)
        /\ \/ /\ ReleaseQuorum(id, w, records)
              /\ record_transition(id, "Active", "Released")
              /\ distribute(id, w, NoAccount, refused, protocol_stats, records)
           \/ /\ ~ReleaseQuorum(id, w, records)
              /\ SaveWithVotes(id, w, records, guardian_cancel_vote)
              /\ UNCHANGED history
              /\ OnlyTheWill

\* Faulty: the window of the guardians never closes.
TriggerTimeSliding(w) == now

TriggerTimeOrZero(w) == IF w.trigger_time = NoTime THEN 0 ELSE w.trigger_time

\* One vote to take back the trigger, within the grace period.  At quorum both
\* kinds of votes are wiped and the clock restarts.
guardian_cancel_trigger(id, guardian) ==
    LET records == [guardian_cancel_vote EXCEPT ![id][guardian] = now]
        w       == CancelTallied(id, wills[id], records)
    IN  /\ HasStatus(id, "Triggered")
        /\ now <= TriggerTimeOrZero(wills[id]) + wills[id].grace_period_days * SECONDS_PER_DAY
        /\ MayVote(wills[id], guardian)
        /\ ~has_voted(guardian_cancel_vote, id, guardian, wills[id].grace_period_days)
        /\ \/ /\ w.guardian_cancel_vote_weight >= w.guardian_threshold
              /\ SaveWithVotes(id, Revived(w),
                               reset_guardian_votes(guardian_vote, id, w),
                               reset_guardian_cancel_votes(records, id, w))
              /\ unindex_triggered_will(id)
              /\ record_transition(id, "Triggered", "Active")
              /\ UNCHANGED <<now, next_will_id, archived_wills, protocol_stats,
                             owner_wills, beneficiary_wills, money>>
           \/ /\ w.guardian_cancel_vote_weight < w.guardian_threshold
              /\ SaveWithVotes(id, w, guardian_vote, records)
              /\ UNCHANGED history
              /\ OnlyTheWill

----------------------------------------------------------------------------
(* Consent *)

\* Accepting twice changes nothing; accepting after a rejection fails.
accept_guardian_role(id, guardian) ==
    /\ Stored(id)
    /\ assert_consent_changeable(wills[id])
    /\ guardian \in DOMAIN wills[id].guardians
    /\ wills[id].guardians[guardian].consent = "Pending"
    /\ save_will(id, [wills[id] EXCEPT !.guardians[guardian].consent = "Accepted"])
    /\ UNCHANGED history
    /\ OnlyTheWill

\* Faulty: a vote the tally no longer contains is subtracted from it all the same.
Withdrawn_unsaturated(id, w, guardian) ==
    LET weight   == w.guardians[guardian].weight
        released == has_voted(guardian_vote, id, guardian, w.grace_period_days)
        canceled == has_voted(guardian_cancel_vote, id, guardian, w.grace_period_days)
        Less(n, by, live) == IF live THEN n - by ELSE n
    IN  [w EXCEPT !.guardians[guardian].consent   = "Rejected",
                  !.guardian_vote_weight          = Less(@, weight, released),
                  !.guardian_votes                = Less(@, 1, released),
                  !.guardian_cancel_vote_weight   = Less(@, weight, canceled),
                  !.guardian_cancel_votes         = Less(@, 1, canceled)]

\* A guardian who leaves takes its live votes back.
Withdrawn(id, w, guardian) ==
    LET weight   == w.guardians[guardian].weight
        released == has_voted(guardian_vote, id, guardian, w.grace_period_days)
        canceled == has_voted(guardian_cancel_vote, id, guardian, w.grace_period_days)
        Less(n, by, live) == IF live THEN SaturatingSub(n, by) ELSE n
    IN  [w EXCEPT !.guardians[guardian].consent   = "Rejected",
                  !.guardian_vote_weight          = Less(@, weight, released),
                  !.guardian_votes                = Less(@, 1, released),
                  !.guardian_cancel_vote_weight   = Less(@, weight, canceled),
                  !.guardian_cancel_votes         = Less(@, 1, canceled)]

WithdrawnVote(records, id, guardian) ==
    IF has_voted(records, id, guardian, wills[id].grace_period_days)
    THEN ClearedVotes(records, id, {guardian})
    ELSE records

reject_guardian_role(id, guardian) ==
    /\ Stored(id)
    /\ assert_consent_changeable(wills[id])
    /\ guardian \in DOMAIN wills[id].guardians
    /\ wills[id].guardians[guardian].consent # "Rejected"
    /\ SaveWithVotes(id, Withdrawn(id, wills[id], guardian),
                     WithdrawnVote(guardian_vote, id, guardian),
                     WithdrawnVote(guardian_cancel_vote, id, guardian))
    /\ UNCHANGED history
    /\ OnlyTheWill

----------------------------------------------------------------------------
(* The owner replaces the list *)

WithGuardians(w, guardians, threshold) ==
    [w EXCEPT !.guardians                   = guardians,
              !.guardian_threshold          = threshold,
              !.guardian_votes              = 0,
              !.guardian_vote_weight        = 0,
              !.guardian_cancel_votes       = 0,
              !.guardian_cancel_vote_weight = 0,
              !.guardian_list_updated_at    = now]

ReplaceGuardians(id, guardians, threshold) ==
    /\ assert_no_guardian_cancel_in_flight(wills[id])
    /\ SaveWithVotes(id, WithGuardians(wills[id], guardians, threshold),
                     reset_guardian_votes(guardian_vote, id, wills[id]),
                     reset_guardian_cancel_votes(guardian_cancel_vote, id, wills[id]))
    /\ UNCHANGED history
    /\ OnlyTheWill

\* The threshold stays; a list too short for it is refused.
update_guardians(id, owner, list) ==
    /\ OwnedBy(id, owner)
    /\ HasStatus(id, "Active")
    /\ assert_valid_guardians(owner, list)
    /\ list # << >> => wills[id].guardian_threshold <= Len(list)
    /\ ReplaceGuardians(id, UnweightedGuardians(list), wills[id].guardian_threshold)

GuardianNames(list) == [i \in DOMAIN list |-> list[i][1]]
GuardianWeights(list) ==
    [g \in ToSet(GuardianNames(list)) |->
        [weight  |-> (CHOOSE pair \in ToSet(list) : pair[1] = g)[2],
         consent |-> "Pending"]]

update_guardians_weighted(id, owner, list, given) ==
    LET guardians == GuardianWeights(list)
        threshold == IF given = NoTime THEN wills[id].guardian_threshold ELSE given
    IN  /\ OwnedBy(id, owner)
        /\ HasStatus(id, "Active")
        /\ assert_valid_guardians(owner, GuardianNames(list))
        /\ list # << >> =>
             /\ \A i \in DOMAIN list : list[i][2] \in 1..MAX_GUARDIAN_WEIGHT
             /\ threshold \in 1..WeightOf(guardians, DOMAIN guardians)
        /\ ReplaceGuardians(id, guardians, threshold)

----------------------------------------------------------------------------
GuardianNext ==
    \E id \in DOMAIN wills, guardian \in Accounts :
        \/ \E refused \in Refusals : guardian_trigger(id, guardian, refused)
        \/ guardian_cancel_trigger(id, guardian)
        \/ accept_guardian_role(id, guardian)
        \/ reject_guardian_role(id, guardian)

AppointNext ==
    \E id \in DOMAIN wills, owner \in Accounts :
        \/ \E list \in GuardianLists : update_guardians(id, owner, list)
        \/ \E w \in WeightedLists :
                update_guardians_weighted(id, owner, w.guardians, w.threshold)

QuorumNext == LifecycleNext \/ GuardianNext \/ AppointNext

QuorumSpec == LifecycleInit /\ [][QuorumNext]_vars
=============================================================================
