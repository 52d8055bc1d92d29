----------------------------- MODULE TallyProofs -----------------------------
(***************************************************************************)
(* What the guardians' tallies are worth, for any lists, weights and       *)
(* thresholds: a release by the guardians has a quorum of live votes       *)
(* behind it, the stored counters never claim more than the records, and   *)
(* no quorum waits.                                                        *)
(***************************************************************************)
EXTENDS VoteProofs, SumProofs

----------------------------------------------------------------------------
(* Only a completed vote releases an Active will *)

\* A step after which no Active will of before is Released, told by the history.
NoneReleased ==
    \A id \in DOMAIN history :
        history[id].to = "Active" /\ id \in DOMAIN history'
            => history'[id].to # "Released"

LEMMA RecordsNoRelease ==
    ASSUME NEW id, NEW from, NEW to, record_transition(id, from, to),
           to # "Released" \/ (id \in DOMAIN history /\ history[id].to # "Active")
    PROVE  NoneReleased
<1>1. /\ \A x \in DOMAIN history : x # id => history'[x] = history[x]
      /\ history'[id].to = to
    BY Recorded
<1> QED  BY <1>1 DEF NoneReleased

LEMMA NothingRecorded ==
    ASSUME UNCHANGED history
    PROVE  NoneReleased
BY DEF NoneReleased

\* The entry points of a will's owner, its heirs, its keepers and of guardians
\* who take a trigger back or change their mind.
LEMMA SingleCallsReleaseNothing ==
    ASSUME LifecycleInv, NEW id \in DOMAIN wills, NEW owner, NEW caller, NEW guardian,
           \/ \E form : create_will(owner, form)
           \/ confirm_will(id, owner)
           \/ \E delegate : set_delegate(id, owner, delegate)
           \/ \E checkin, grace : update_periods(id, owner, checkin, grace)
           \/ emergency_checkin(id, owner)
           \/ cancel_will(id, owner)
           \/ close_will(id, owner)
           \/ check_in(id, caller)
           \/ trigger_will(id)
           \/ \E keeper, refused : release_inheritance(id, keeper, refused)
           \/ guardian_cancel_trigger(id, guardian)
           \/ accept_guardian_role(id, guardian)
           \/ reject_guardian_role(id, guardian)
           \/ \E list : update_guardians(id, owner, list)
           \/ \E list, given : update_guardians_weighted(id, owner, list, given)
           \/ \E t, amount : top_up(id, owner, t, amount)
           \/ \E list : update_beneficiaries(id, owner, list)
           \/ \E s : update_will_settings(id, owner, s)
           \/ \E h : add_hashed_beneficiary(id, owner, h)
           \/ \E heir : renounce_beneficiary(id, heir)
           \/ \E claimant, salt : reveal_and_claim(id, claimant, salt)
    PROVE  NoneReleased
<1>1. \/ UNCHANGED history
      \/ \E x, from, to : record_transition(x, from, to) /\ to # "Released"
      \/ \E keeper, refused : release_inheritance(id, keeper, refused)
    <2>1. CASE \E form : create_will(owner, form)
        <3>1. PICK form : create_will(owner, form)
            BY <2>1
        <3>2. NewWill(owner, form).status # "Released"
            BY DEF NewWill
        <3> QED  BY <3>1, <3>2 DEF create_will
    <2>2. CASE \/ confirm_will(id, owner)
               \/ \E delegate : set_delegate(id, owner, delegate)
               \/ \E checkin, grace : update_periods(id, owner, checkin, grace)
               \/ emergency_checkin(id, owner)
               \/ cancel_will(id, owner)
               \/ close_will(id, owner)
               \/ check_in(id, caller)
               \/ trigger_will(id)
        <3>1. CASE \/ confirm_will(id, owner) \/ cancel_will(id, owner)
                   \/ check_in(id, caller) \/ trigger_will(id)
            <4>1. \/ record_transition(id, "PendingConfirmation", "Active")
                  \/ record_transition(id, wills[id].status, "Cancelled")
                  \/ record_transition(id, "Active", "Active")
                  \/ record_transition(id, "Active", "Triggered")
                BY <3>1 DEF confirm_will, cancel_will, check_in, trigger_will
            <4> QED  BY <4>1
        <3>2. CASE \/ \E delegate : set_delegate(id, owner, delegate)
                   \/ \E checkin, grace : update_periods(id, owner, checkin, grace)
                   \/ emergency_checkin(id, owner)
                   \/ close_will(id, owner)
            <4>1. \/ UNCHANGED history
                  \/ record_transition(id, "Triggered", "Active")
                  \/ record_transition(id, "Released", "Settled")
                BY <3>2 DEF set_delegate, update_periods, emergency_checkin, close_will
            <4> QED  BY <4>1
        <3> QED  BY <2>2, <3>1, <3>2
    <2>3. CASE \/ guardian_cancel_trigger(id, guardian)
               \/ accept_guardian_role(id, guardian)
               \/ reject_guardian_role(id, guardian)
               \/ \E list : update_guardians(id, owner, list)
               \/ \E list, given : update_guardians_weighted(id, owner, list, given)
        BY <2>3 DEF guardian_cancel_trigger, accept_guardian_role, reject_guardian_role,
                    update_guardians, update_guardians_weighted, ReplaceGuardians
    <2>4. CASE \/ \E t, amount : top_up(id, owner, t, amount)
               \/ \E list : update_beneficiaries(id, owner, list)
               \/ \E s : update_will_settings(id, owner, s)
               \/ \E h : add_hashed_beneficiary(id, owner, h)
               \/ \E heir : renounce_beneficiary(id, heir)
               \/ \E claimant, salt : reveal_and_claim(id, claimant, salt)
        BY <2>4 DEF top_up, update_beneficiaries, update_will_settings,
                    add_hashed_beneficiary, renounce_beneficiary, reveal_and_claim
    <2> QED  BY <2>1, <2>2, <2>3, <2>4
<1>2. ASSUME NEW keeper, NEW refused, release_inheritance(id, keeper, refused)
      PROVE  NoneReleased
    <2>1. /\ record_transition(id, "Triggered", "Released")
          /\ wills[id].status = "Triggered"
        BY <1>2 DEF release_inheritance, HasStatus
    <2>2. id \in DOMAIN history /\ history[id].to = "Triggered"
        BY <2>1 DEF LifecycleInv, Kept
    <2> QED  BY <2>1, <2>2, RecordsNoRelease
<1> QED  BY <1>1, <1>2, NothingRecorded, RecordsNoRelease

LEMMA OtherCallsReleaseNothing ==
    ASSUME LifecycleInv, NEW owner,
           \/ \E ids : batch_check_in(owner, ids)
           \/ \E id : archive_will(id)
           \/ \E id, t, recipient : retry_failed_payout(id, t, recipient)
           \/ \E source, tokens : clone_will(source, owner, tokens)
           \/ \E id, split : split_will(id, owner, split)
           \/ \E forms : batch_create_wills(owner, forms)
           \/ \E a, b : merge_wills(owner, a, b)
           \/ repair_protocol_stats
           \/ Tick
           \/ UNCHANGED vars
    PROVE  NoneReleased
<1>1. CASE \/ \E id, t, recipient : retry_failed_payout(id, t, recipient)
           \/ repair_protocol_stats
           \/ Tick
           \/ UNCHANGED vars
    BY <1>1, NothingRecorded DEF retry_failed_payout, repair_protocol_stats, Tick, vars
<1>2. CASE \/ \E source, tokens : clone_will(source, owner, tokens)
           \/ \E id, split : split_will(id, owner, split)
    <2>1. ASSUME NEW source, NEW tokens, clone_will(source, owner, tokens)
          PROVE  record_transition(next_will_id + 1, "Active", "Active")
        BY <2>1, Zenon DEF clone_will
    <2>2. ASSUME NEW id, NEW split, split_will(id, owner, split)
          PROVE  record_transition(next_will_id + 1, "Active", "Active")
        BY <2>2, Zenon DEF split_will
    <2>3. record_transition(next_will_id + 1, "Active", "Active")
        BY <1>2, <2>1, <2>2
    <2> QED  BY <2>3, RecordsNoRelease
<1>3. CASE \E id : archive_will(id)
    BY <1>3 DEF archive_will, Without, NoneReleased
<1>4. CASE \E ids : batch_check_in(owner, ids)
    BY <1>4 DEF batch_check_in, CheckedIn, NoneReleased
<1>5. CASE \E forms : batch_create_wills(owner, forms)
    <2>1. \E ids : history' = [id \in DOMAIN history \cup ids |->
                        IF id \in ids THEN [from |-> "Active", to |-> "Active"]
                                      ELSE history[id]]
        BY <1>5 DEF batch_create_wills
    <2> QED  BY <2>1 DEF NoneReleased
<1>6. CASE \E a, b : merge_wills(owner, a, b)
    <2>1. PICK a, b : merge_wills(owner, a, b)
        BY <1>6
    <2>2. history' = Put(Put(history, b, [from |-> "Active", to |-> "Cancelled"]),
                         a, [from |-> "Active", to |-> "Active"])
        BY <2>1 DEF merge_wills
    <2> QED  BY <2>2 DEF NoneReleased, Put
<1> QED  BY <1>1, <1>2, <1>3, <1>4, <1>5, <1>6

\* The vote that releases the will is counted, and so are only live votes of
\* guardians who consented.
LEMMA VoteHasQuorum ==
    ASSUME LifecycleInv, VoteInv, FieldsInv, NEW id \in DOMAIN wills,
           NEW guardian \in Accounts, NEW refused, guardian_trigger(id, guardian, refused)
    PROVE  /\ NoneReleased \/ QuorumBehind(id, wills[id], guardian_vote')
           /\ \A x \in DOMAIN history : x # id => history'[x] = history[x]
<1> DEFINE records == [guardian_vote EXCEPT ![id][guardian] = now]
           w       == Tallied(id, wills[id], records)
<1>1. \/ UNCHANGED history
      \/ /\ ReleaseQuorum(id, w, records)
         /\ record_transition(id, "Active", "Released")
         /\ distribute(id, w, NoAccount, refused, protocol_stats, records)
    BY DEF guardian_trigger
<1>2. CASE UNCHANGED history
    BY <1>2, NothingRecorded
<1>3. CASE /\ ReleaseQuorum(id, w, records)
           /\ record_transition(id, "Active", "Released")
           /\ distribute(id, w, NoAccount, refused, protocol_stats, records)
    <2>1. /\ id \in WillIds /\ now \in Nat
          /\ guardian_vote \in VoteRecords /\ guardian_cancel_vote \in VoteRecords
        BY DEF VoteInv, LifecycleInv
    <2>2. records \in VoteRecords
        BY <2>1, VoteCast
    <2>3. /\ w.guardians = wills[id].guardians
          /\ w.guardian_threshold = wills[id].guardian_threshold
          /\ w.guardian_vote_weight
                = WeightOf(wills[id].guardians, Counted(id, wills[id], records))
          /\ "guardians" \in DOMAIN w
        BY DEF Tallied, FieldsInv, WillFields
    <2>4. guardian_vote' = records
        <3>1. PICK left :
                SaveWithVotes(id, [w EXCEPT !.balances = left,
                                            !.balance  = BalanceOf(left, w.token),
                                            !.status   = "Released"],
                              records, guardian_cancel_vote)
            BY <1>3 DEF distribute
        <3> HIDE DEF w, records
        <3>2. [w EXCEPT !.balances = left, !.balance = BalanceOf(left, w.token),
                        !.status = "Released"].guardians = w.guardians
            BY <2>3
        <3> QED  BY <2>1, <2>2, <2>3, <3>1, <3>2, SavedAsGiven
    <2>5. w.guardian_vote_weight >= w.guardian_threshold
        BY <1>3 DEF ReleaseQuorum
    <2> HIDE DEF w, records
    <2>6. QuorumBehind(id, wills[id], records)
        BY <2>3, <2>5 DEF QuorumBehind, Counted
    <2> QED  BY <1>3, <2>4, <2>6, Recorded
<1> QED  BY <1>1, <1>2, <1>3

LEMMA ReleaseStep ==
    LifecycleInv /\ VoteInv /\ FieldsInv /\ [PortfolioNext]_vars
        => \/ NoneReleased
           \/ \E id \in DOMAIN wills :
                /\ QuorumBehind(id, wills[id], guardian_vote')
                /\ \A x \in DOMAIN history : x # id => history'[x] = history[x]
<1> SUFFICES ASSUME LifecycleInv, VoteInv, FieldsInv, [PortfolioNext]_vars
             PROVE  \/ NoneReleased
                    \/ \E id \in DOMAIN wills :
                        /\ QuorumBehind(id, wills[id], guardian_vote')
                        /\ \A x \in DOMAIN history : x # id => history'[x] = history[x]
    OBVIOUS
<1>1. CASE OwnerNext
    <2>1. ASSUME NEW owner, NEW form, create_will(owner, form)
          PROVE  NoneReleased
        <3>1. NewWill(owner, form).status # "Released"
            BY DEF NewWill
        <3> QED  BY <2>1, <3>1, RecordsNoRelease DEF create_will
    <2> QED  BY <1>1, <2>1, SingleCallsReleaseNothing DEF OwnerNext
<1>2. CASE \E ids \in SUBSET DOMAIN wills : SignOfLife(ids)
    BY <1>2, SingleCallsReleaseNothing, OtherCallsReleaseNothing DEF SignOfLife
<1>3. CASE AnyoneNext \/ AppointNext \/ EstateOwnerNext
    BY <1>3, SingleCallsReleaseNothing DEF AnyoneNext, AppointNext, EstateOwnerNext
<1>4. CASE GuardianNext
    BY <1>4, SingleCallsReleaseNothing, VoteHasQuorum DEF GuardianNext
<1>5. CASE EstateHeirNext
    BY <1>5, SingleCallsReleaseNothing, OtherCallsReleaseNothing DEF EstateHeirNext
<1>6. CASE PortfolioOnlyNext
    BY <1>6, OtherCallsReleaseNothing DEF PortfolioOnlyNext, MultiplyNext, Merging
<1>7. CASE Tick \/ UNCHANGED vars
    BY <1>7, OtherCallsReleaseNothing
<1> QED  BY <1>1, <1>2, <1>3, <1>4, <1>5, <1>6, <1>7
         DEF PortfolioNext, EstateNext, QuorumNext, LifecycleNext

\* Guardians release an Active will only together (guardian_trigger): whatever
\* was merged, cloned, split, expired or declined before, the consenting guardians
\* with a live vote carry the threshold at that moment, and no other entry point
\* of the contract pays out an Active will.
THEOREM ReleaseTakesQuorum == PortfolioSpec => GuardianReleaseNeedsQuorum
<1>1. LifecycleInv /\ LifecycleInv' /\ VoteInv /\ FieldsInv /\ [PortfolioNext]_vars
        => [\A id \in DOMAIN wills :
                (HasStatus(id, "Active") /\ id \in DOMAIN wills' /\ wills'[id].status = "Released")
                    => QuorumBehind(id, wills[id], guardian_vote')]_vars
    <2> SUFFICES ASSUME LifecycleInv, LifecycleInv', VoteInv, FieldsInv, [PortfolioNext]_vars,
                        NEW id \in DOMAIN wills, HasStatus(id, "Active"),
                        id \in DOMAIN wills', wills'[id].status = "Released"
                 PROVE  QuorumBehind(id, wills[id], guardian_vote')
        OBVIOUS
    <2>1. /\ id \in DOMAIN history /\ history[id].to = "Active"
          /\ id \in DOMAIN history' /\ history'[id].to = "Released"
        BY DEF LifecycleInv, Kept, HasStatus
    <2>2. ~ NoneReleased
        BY <2>1 DEF NoneReleased
    <2>3. PICK x \in DOMAIN wills :
                /\ QuorumBehind(x, wills[x], guardian_vote')
                /\ \A y \in DOMAIN history : y # x => history'[y] = history[y]
        BY <2>2, ReleaseStep
    <2>4. x = id
        BY <2>1, <2>3
    <2> QED  BY <2>3, <2>4
<1> QED  BY <1>1, ContractInvariantHolds, ContractVotesHold, FieldsHold, PTL
         DEF PortfolioSpec, GuardianReleaseNeedsQuorum

----------------------------------------------------------------------------
(* The counters *)

\* Every guardian has a weight.
WellWeighed(guardians) ==
    \A g \in DOMAIN guardians : "weight" \in DOMAIN guardians[g] /\ guardians[g].weight \in Nat

\* A tally of `heads` votes that carry `weight`, against the records v.
Backed(heads, weight, guardians, v) ==
    /\ heads \in Nat /\ heads <= Cardinality(Cast(v))
    /\ weight \in Nat /\ weight <= WeightOf(guardians, Cast(v))

\* The tallies of a stored will w with the records rv and cv.
Tally(w, rv, cv) ==
    /\ WellWeighed(w.guardians)
    /\ w.guardian_threshold \in Nat
    /\ Backed(w.guardian_votes, w.guardian_vote_weight, w.guardians, rv)
    /\ Backed(w.guardian_cancel_votes, w.guardian_cancel_vote_weight, w.guardians, cv)
    /\ w.guardian_threshold > 0 =>
        /\ w.status \in {"PendingConfirmation", "Active"}
                => w.guardian_vote_weight < w.guardian_threshold
        /\ w.status = "Triggered" => w.guardian_cancel_vote_weight < w.guardian_threshold

TallyInv ==
    \A id \in DOMAIN wills : Tally(wills[id], guardian_vote[id], guardian_cancel_vote[id])

\* What all these proofs start from.
Known == LifecycleInv /\ VoteInv /\ FieldsInv /\ TallyInv

LEMMA WeightIsNatural ==
    ASSUME NEW guardians, WellWeighed(guardians), NEW voters, NEW all,
           voters \subseteq all, all \subseteq DOMAIN guardians, IsFiniteSet(all)
    PROVE  /\ WeightOf(guardians, voters) \in Nat /\ WeightOf(guardians, all) \in Nat
           /\ WeightOf(guardians, voters) <= WeightOf(guardians, all)
<1> DEFINE f == Weights(guardians)
<1>1. \A g \in all : f[g] \in Nat
    BY DEF WellWeighed, Weights
<1>2. \A g \in voters : f[g] \in Nat /\ f[g] <= f[g]
    BY <1>1
<1> HIDE DEF f
<1>3. /\ SumFunctionOnSet(f, voters) \in Nat /\ SumFunctionOnSet(f, all) \in Nat
      /\ SumFunctionOnSet(f, voters) <= SumFunctionOnSet(f, all)
    BY <1>1, <1>2, SumGrows
<1> QED  BY <1>3 DEF WeightOf, f

LEMMA SameWeights ==
    ASSUME NEW g, NEW h, DOMAIN g = DOMAIN h, \A a \in DOMAIN h : g[a].weight = h[a].weight
    PROVE  Weights(g) = Weights(h)
BY DEF Weights

\* A will without counted votes, whatever the records.
Zeroed(w) ==
    /\ WellWeighed(w.guardians)
    /\ w.guardian_threshold \in Nat
    /\ w.guardian_votes = 0 /\ w.guardian_vote_weight = 0
    /\ w.guardian_cancel_votes = 0 /\ w.guardian_cancel_vote_weight = 0

LEMMA ZeroedTally ==
    ASSUME NEW w, Zeroed(w), NEW rv, NEW cv,
           Cast(rv) \subseteq DOMAIN w.guardians, Cast(cv) \subseteq DOMAIN w.guardians
    PROVE  Tally(w, rv, cv)
<1>1. IsFiniteSet(Cast(rv)) /\ IsFiniteSet(Cast(cv))
    BY CastFinite
<1>2. Cardinality(Cast(rv)) \in Nat /\ Cardinality(Cast(cv)) \in Nat
    BY <1>1, FS_CardinalityType
<1>3. WeightOf(w.guardians, Cast(rv)) \in Nat /\ WeightOf(w.guardians, Cast(cv)) \in Nat
    BY <1>1, WeightIsNatural DEF Zeroed
<1> QED  BY <1>2, <1>3 DEF Zeroed, Tally, Backed

\* A will that keeps its guardians, their weights and the counters.
SameTally(w, v) ==
    /\ DOMAIN w.guardians = DOMAIN v.guardians
    /\ \A g \in DOMAIN v.guardians : /\ DOMAIN w.guardians[g] = DOMAIN v.guardians[g]
                                      /\ w.guardians[g].weight = v.guardians[g].weight
    /\ w.guardian_threshold = v.guardian_threshold
    /\ w.guardian_votes = v.guardian_votes
    /\ w.guardian_vote_weight = v.guardian_vote_weight
    /\ w.guardian_cancel_votes = v.guardian_cancel_votes
    /\ w.guardian_cancel_vote_weight = v.guardian_cancel_vote_weight
    /\ \/ w.status = v.status
       \/ w.status \notin LiveStatus
       \/ v.status \in {"PendingConfirmation", "Active"} /\ w.status \in LiveStatus

LEMMA SameTallyCarries ==
    ASSUME NEW v, NEW w, NEW t, NEW rv, NEW cv,
           Tally(v, rv, cv), Ballot(v, t, rv, cv), SameTally(w, v)
    PROVE  Tally(w, rv, cv)
<1>1. Weights(w.guardians) = Weights(v.guardians)
    BY SameWeights DEF SameTally
<1>2. \A voters : WeightOf(w.guardians, voters) = WeightOf(v.guardians, voters)
    BY <1>1 DEF WeightOf
<1>3. /\ Backed(w.guardian_votes, w.guardian_vote_weight, w.guardians, rv)
      /\ Backed(w.guardian_cancel_votes, w.guardian_cancel_vote_weight, w.guardians, cv)
    BY <1>2 DEF SameTally, Tally, Backed
<1>4. WellWeighed(w.guardians) /\ w.guardian_threshold \in Nat
    BY DEF SameTally, Tally, WellWeighed
<1>5. v.status \in {"PendingConfirmation", "Active"} => v.guardian_cancel_vote_weight = 0
    BY DEF Ballot
<1>6. w.guardian_threshold > 0 =>
        /\ w.status \in {"PendingConfirmation", "Active"}
                => w.guardian_vote_weight < w.guardian_threshold
        /\ w.status = "Triggered" => w.guardian_cancel_vote_weight < w.guardian_threshold
    BY <1>4, <1>5 DEF SameTally, Tally, LiveStatus
<1> QED  BY <1>3, <1>4, <1>6 DEF Tally

----------------------------------------------------------------------------
(* Steps on one will *)

LEMMA OneTally ==
    ASSUME Known, NEW id \in WillIds, NEW w,
           wills' = Put(wills, id, w),
           \A x \in WillIds : x # id => /\ guardian_vote'[x] = guardian_vote[x]
                                        /\ guardian_cancel_vote'[x] = guardian_cancel_vote[x],
           Tally(w, guardian_vote'[id], guardian_cancel_vote'[id])
    PROVE  TallyInv'
<1>1. DOMAIN wills \subseteq WillIds
    BY DEF Known, VoteInv
<1>2. /\ DOMAIN wills' = DOMAIN wills \cup {id} /\ wills'[id] = w
      /\ \A x \in DOMAIN wills : x # id => wills'[x] = wills[x]
    BY DEF Put
<1> QED  BY <1>1, <1>2 DEF Known, TallyInv

LEMMA OthersKeepVotes ==
    ASSUME NEW id \in WillIds, NEW w, NEW rv \in VoteRecords, NEW cv \in VoteRecords,
           SaveWithVotes(id, w, rv, cv)
    PROVE  \A x \in WillIds : x # id => /\ guardian_vote'[x] = rv[x]
                                        /\ guardian_cancel_vote'[x] = cv[x]
BY ClearedVotesFact DEF SaveWithVotes

\* An entry point that saves a will with its counters and the records as they are.
LEMMA SavedTally ==
    ASSUME Known, NEW id \in DOMAIN wills, NEW w, save_will(id, w), SameTally(w, wills[id])
    PROVE  TallyInv'
<1>1. id \in WillIds /\ guardian_vote \in VoteRecords /\ guardian_cancel_vote \in VoteRecords
    BY DEF Known, VoteInv
<1>2. guardian_vote' = guardian_vote /\ guardian_cancel_vote' = guardian_cancel_vote
    BY <1>1, SavedAsGiven DEF save_will, SameTally
<1>3. Tally(w, guardian_vote[id], guardian_cancel_vote[id])
    BY SameTallyCarries DEF Known, TallyInv, VoteInv
<1>4. wills' = Put(wills, id, w)
    BY DEF save_will, SaveWithVotes
<1> QED  BY <1>1, <1>2, <1>3, <1>4, OneTally

\* A will saved with all counters at zero.
LEMMA ZeroedSave ==
    ASSUME Known, VoteInv', NEW id \in WillIds, NEW w,
           NEW rv \in VoteRecords, NEW cv \in VoteRecords,
           \A x \in WillIds : x # id => rv[x] = guardian_vote[x] /\ cv[x] = guardian_cancel_vote[x],
           SaveWithVotes(id, w, rv, cv), Zeroed(w)
    PROVE  TallyInv'
<1>1. wills' = Put(wills, id, w)
    BY DEF SaveWithVotes
<1>2. id \in DOMAIN wills' /\ wills'[id] = w
    BY <1>1 DEF Put
<1>3. Ballot(w, now', guardian_vote'[id], guardian_cancel_vote'[id])
    BY <1>2 DEF VoteInv
<1>4. Tally(w, guardian_vote'[id], guardian_cancel_vote'[id])
    BY <1>3, ZeroedTally DEF Ballot
<1> QED  BY <1>1, <1>4, OthersKeepVotes, OneTally

LEMMA ResetRecords ==
    ASSUME NEW id \in WillIds, NEW w, NEW records \in VoteRecords
    PROVE  /\ reset_guardian_votes(records, id, w) \in VoteRecords
           /\ reset_guardian_cancel_votes(records, id, w) \in VoteRecords
           /\ \A x \in WillIds : x # id =>
                /\ reset_guardian_votes(records, id, w)[x] = records[x]
                /\ reset_guardian_cancel_votes(records, id, w)[x] = records[x]
BY ClearedVotesFact DEF reset_guardian_votes, reset_guardian_cancel_votes

----------------------------------------------------------------------------
(* Entry points that leave the counters alone *)

LEMMA LifecycleTally ==
    ASSUME Known, NEW id \in DOMAIN wills, NEW owner, NEW caller,
           \/ confirm_will(id, owner)
           \/ \E delegate : set_delegate(id, owner, delegate)
           \/ \E p \in PeriodUpdates : update_periods(id, owner, p[1], p[2])
           \/ cancel_will(id, owner)
           \/ close_will(id, owner)
           \/ check_in(id, caller)
           \/ trigger_will(id)
    PROVE  TallyInv'
<1>1. WillFields \subseteq DOMAIN wills[id]
    BY DEF Known, FieldsInv
<1>2. \E w : save_will(id, w) /\ SameTally(w, wills[id])
    <2>1. CASE confirm_will(id, owner)
        BY <1>1, <2>1 DEF confirm_will, SameTally, WillFields, LiveStatus, HasStatus
    <2>2. CASE \E delegate : set_delegate(id, owner, delegate)
        BY <1>1, <2>2 DEF set_delegate, SameTally, WillFields
    <2>3. CASE \E p \in PeriodUpdates : update_periods(id, owner, p[1], p[2])
        <3>1. PICK p \in PeriodUpdates :
                    save_will(id, WithPeriods(wills[id], p[1], p[2]))
            BY <2>3 DEF update_periods
        <3>2. SameTally(WithPeriods(wills[id], p[1], p[2]), wills[id])
            BY <1>1 DEF WithPeriods, SameTally, WillFields
        <3> QED  BY <3>1, <3>2
    <2>4. CASE cancel_will(id, owner)
        BY <1>1, <2>4 DEF cancel_will, SameTally, WillFields, LiveStatus
    <2>5. CASE close_will(id, owner)
        BY <1>1, <2>5 DEF close_will, SameTally, WillFields, LiveStatus
    <2>6. CASE check_in(id, caller)
        BY <1>1, <2>6 DEF check_in, SameTally, WillFields
    <2>7. CASE trigger_will(id)
        BY <1>1, <2>7 DEF trigger_will, SameTally, WillFields, LiveStatus, HasStatus
    <2> QED  BY <2>1, <2>2, <2>3, <2>4, <2>5, <2>6, <2>7
<1> QED  BY <1>2, SavedTally

LEMMA BatchCheckInTally ==
    ASSUME Known, NEW owner, NEW ids \in SUBSET DOMAIN wills, batch_check_in(owner, ids)
    PROVE  TallyInv'
<1>1. /\ UNCHANGED <<guardian_vote, guardian_cancel_vote>>
      /\ DOMAIN wills' = DOMAIN wills
    BY DEF batch_check_in, CheckedIn, OnlyTheWill, votes
<1>2. ASSUME NEW id \in DOMAIN wills
      PROVE  Tally(wills'[id], guardian_vote[id], guardian_cancel_vote[id])
    <2>1. /\ Ballot(wills[id], now, guardian_vote[id], guardian_cancel_vote[id])
          /\ Tally(wills[id], guardian_vote[id], guardian_cancel_vote[id])
          /\ WillFields \subseteq DOMAIN wills[id]
        BY DEF Known, VoteInv, TallyInv, FieldsInv
    <2>2. SameTally(wills'[id], wills[id])
        <3>1. wills'[id] = wills[id] \/ wills'[id] = [wills[id] EXCEPT !.last_checkin = now]
            BY DEF batch_check_in, CheckedIn
        <3> QED  BY <2>1, <3>1 DEF SameTally, WillFields
    <2> QED  BY <2>1, <2>2, SameTallyCarries
<1> QED  BY <1>1, <1>2 DEF TallyInv

\* What a release saves: the will with the tally it was given.
LEMMA ReleaseTally ==
    ASSUME Known, NEW id \in DOMAIN wills, NEW keeper, NEW refused,
           release_inheritance(id, keeper, refused)
    PROVE  TallyInv'
<1>1. WillFields \subseteq DOMAIN wills[id]
    BY DEF Known, FieldsInv
<1>2. PICK left :
            SaveWithVotes(id, [wills[id] EXCEPT !.balances = left,
                                                !.balance  = BalanceOf(left, wills[id].token),
                                                !.status   = "Released"],
                          guardian_vote, guardian_cancel_vote)
    BY DEF release_inheritance, distribute
<1> DEFINE w == [wills[id] EXCEPT !.balances = left,
                                  !.balance  = BalanceOf(left, wills[id].token),
                                  !.status   = "Released"]
<1>3. SameTally(w, wills[id])
    BY <1>1 DEF SameTally, WillFields, LiveStatus
<1> HIDE DEF w
<1> QED  BY <1>2, <1>3, SavedTally DEF save_will, w

LEMMA EstateTally ==
    ASSUME Known, NEW id \in DOMAIN wills, NEW owner,
           \/ \E t, amount : top_up(id, owner, t, amount)
           \/ \E list : update_beneficiaries(id, owner, list)
           \/ \E heir : renounce_beneficiary(id, heir)
           \/ \E h : add_hashed_beneficiary(id, owner, h)
           \/ \E claimant, salt : reveal_and_claim(id, claimant, salt)
    PROVE  TallyInv'
<1>1. WillFields \subseteq DOMAIN wills[id]
    BY DEF Known, FieldsInv
<1>2. \E w : save_will(id, w) /\ SameTally(w, wills[id])
    <2>1. CASE \E t, amount : top_up(id, owner, t, amount)
        <3>1. PICK balances :
                save_will(id, sync_primary_balance([wills[id] EXCEPT !.balances = balances]))
            BY <2>1 DEF top_up
        <3>2. SameTally(sync_primary_balance([wills[id] EXCEPT !.balances = balances]), wills[id])
            BY <1>1 DEF sync_primary_balance, SameTally, WillFields
        <3> QED  BY <3>1, <3>2
    <2>2. CASE \/ \E list : update_beneficiaries(id, owner, list)
               \/ \E heir : renounce_beneficiary(id, heir)
        <3>1. PICK heirs : save_will(id, [wills[id] EXCEPT !.beneficiaries = heirs])
            BY <2>2 DEF update_beneficiaries, renounce_beneficiary
        <3>2. SameTally([wills[id] EXCEPT !.beneficiaries = heirs], wills[id])
            BY <1>1 DEF SameTally, WillFields
        <3> QED  BY <3>1, <3>2
    <2>3. CASE \E h : add_hashed_beneficiary(id, owner, h)
        <3>1. PICK hashed : save_will(id, [wills[id] EXCEPT !.hashed_beneficiaries = hashed])
            BY <2>3 DEF add_hashed_beneficiary
        <3>2. SameTally([wills[id] EXCEPT !.hashed_beneficiaries = hashed], wills[id])
            BY <1>1 DEF SameTally, WillFields
        <3> QED  BY <3>1, <3>2
    <2>4. CASE \E claimant, salt : reveal_and_claim(id, claimant, salt)
        <3>1. PICK i, left :
                save_will(id, [wills[id] EXCEPT !.balances = left,
                                                !.balance = BalanceOf(left, wills[id].token),
                                                !.hashed_beneficiaries[i].claimed = TRUE])
            BY <2>4 DEF reveal_and_claim
        <3>2. SameTally([wills[id] EXCEPT !.balances = left,
                                          !.balance = BalanceOf(left, wills[id].token),
                                          !.hashed_beneficiaries[i].claimed = TRUE], wills[id])
            BY <1>1 DEF SameTally, WillFields
        <3> QED  BY <3>1, <3>2
    <2> QED  BY <2>1, <2>2, <2>3, <2>4
<1> QED  BY <1>2, SavedTally

LEMMA ArchiveTally ==
    ASSUME Known, NEW id \in DOMAIN wills, archive_will(id)
    PROVE  TallyInv'
<1>1. id \in WillIds /\ guardian_vote \in VoteRecords /\ guardian_cancel_vote \in VoteRecords
      /\ DOMAIN wills \subseteq WillIds
    BY DEF Known, VoteInv
<1>2. /\ DOMAIN wills' = DOMAIN wills \ {id}
      /\ \A x \in DOMAIN wills' : wills'[x] = wills[x]
    BY DEF archive_will, Without
<1>3. \A x \in WillIds : x # id => /\ guardian_vote'[x] = guardian_vote[x]
                                  /\ guardian_cancel_vote'[x] = guardian_cancel_vote[x]
    BY <1>1, ClearedVotesFact DEF archive_will
<1> QED  BY <1>1, <1>2, <1>3 DEF Known, TallyInv

----------------------------------------------------------------------------
(* Entry points that start the count again *)

LEMMA UnweightedWeighed == \A list : WellWeighed(UnweightedGuardians(list))
BY DEF UnweightedGuardians, WellWeighed

LEMMA CreateTally ==
    ASSUME Known, VoteInv', NEW owner, NEW form \in CreateForms, create_will(owner, form)
    PROVE  TallyInv'
<1> DEFINE id == next_will_id + 1
           w  == NewWill(owner, form)
<1>1. save_will(id, w) /\ next_will_id < MaxWills
    BY DEF create_will
<1>2. id \in WillIds
    BY <1>1, BoundsAssumption DEF Known, LifecycleInv, WillIds
<1>3. form.threshold \in Nat
    BY InputsAssumption DEF SetOfForms
<1>4. Zeroed(w)
    BY <1>3, UnweightedWeighed DEF NewWill, Zeroed
<1>5. guardian_vote \in VoteRecords /\ guardian_cancel_vote \in VoteRecords
    BY DEF Known, VoteInv
<1> HIDE DEF id, w
<1> QED  BY <1>1, <1>2, <1>4, <1>5, ZeroedSave DEF save_will

LEMMA RevivedTally ==
    ASSUME Known, VoteInv', NEW id \in DOMAIN wills, NEW v, NEW w,
           NEW records \in VoteRecords,
           \A x \in WillIds : x # id => records[x] = guardian_cancel_vote[x],
           DOMAIN v = DOMAIN wills[id],
           v.guardians = wills[id].guardians,
           v.guardian_threshold = wills[id].guardian_threshold,
           w = Revived(v) \/ w = sync_primary_balance(Revived(v)),
           SaveWithVotes(id, w, reset_guardian_votes(guardian_vote, id, v),
                         reset_guardian_cancel_votes(records, id, v))
    PROVE  TallyInv'
<1>1. /\ id \in WillIds /\ guardian_vote \in VoteRecords
      /\ WellWeighed(wills[id].guardians) /\ wills[id].guardian_threshold \in Nat
      /\ WillFields \subseteq DOMAIN v
    BY DEF Known, VoteInv, TallyInv, Tally, FieldsInv
<1>2. Zeroed(w)
    BY <1>1 DEF Revived, sync_primary_balance, Zeroed, WillFields
<1> DEFINE rv == reset_guardian_votes(guardian_vote, id, v)
           cv == reset_guardian_cancel_votes(records, id, v)
<1>3. /\ rv \in VoteRecords /\ cv \in VoteRecords
      /\ \A x \in WillIds : x # id => rv[x] = guardian_vote[x] /\ cv[x] = guardian_cancel_vote[x]
    BY <1>1, ResetRecords
<1>4. SaveWithVotes(id, w, rv, cv)
    OBVIOUS
<1> HIDE DEF rv, cv
<1> QED  BY <1>1, <1>2, <1>3, <1>4, ZeroedSave

LEMMA EmergencyTally ==
    ASSUME Known, VoteInv', NEW id \in DOMAIN wills, NEW owner, emergency_checkin(id, owner)
    PROVE  TallyInv'
<1>1. guardian_cancel_vote \in VoteRecords
    BY DEF Known, VoteInv
<1>2. SaveWithVotes(id, sync_primary_balance(Revived(wills[id])),
                    reset_guardian_votes(guardian_vote, id, wills[id]),
                    reset_guardian_cancel_votes(guardian_cancel_vote, id, wills[id]))
    BY DEF emergency_checkin
<1> DEFINE w == sync_primary_balance(Revived(wills[id]))
<1> HIDE DEF w
<1> QED  BY <1>1, <1>2, RevivedTally DEF w

LEMMA ReplacedTally ==
    ASSUME Known, VoteInv', NEW id \in DOMAIN wills, NEW v, DOMAIN v = DOMAIN wills[id],
           NEW guardians, WellWeighed(guardians), NEW threshold \in Nat,
           SaveWithVotes(id, WithGuardians(v, guardians, threshold),
                         reset_guardian_votes(guardian_vote, id, wills[id]),
                         reset_guardian_cancel_votes(guardian_cancel_vote, id, wills[id]))
    PROVE  TallyInv'
<1> DEFINE w  == WithGuardians(v, guardians, threshold)
           rv == reset_guardian_votes(guardian_vote, id, wills[id])
           cv == reset_guardian_cancel_votes(guardian_cancel_vote, id, wills[id])
<1>1. /\ id \in WillIds /\ guardian_vote \in VoteRecords
      /\ guardian_cancel_vote \in VoteRecords /\ WillFields \subseteq DOMAIN v
    BY DEF Known, VoteInv, FieldsInv
<1>2. Zeroed(w)
    BY <1>1 DEF WithGuardians, Zeroed, WillFields
<1>3. /\ rv \in VoteRecords /\ cv \in VoteRecords
      /\ \A x \in WillIds : x # id => rv[x] = guardian_vote[x] /\ cv[x] = guardian_cancel_vote[x]
    BY <1>1, ResetRecords
<1>4. SaveWithVotes(id, w, rv, cv)
    OBVIOUS
<1> HIDE DEF w, rv, cv
<1> QED  BY <1>1, <1>2, <1>3, <1>4, ZeroedSave

LEMMA NewWeightsWeighed ==
    ASSUME NEW list \in Seq(Accounts \X Nat)
    PROVE  WellWeighed(GuardianWeights(list))
<1> SUFFICES ASSUME NEW g \in ToSet(GuardianNames(list))
             PROVE  (CHOOSE pair \in ToSet(list) : pair[1] = g)[2] \in Nat
    BY DEF WellWeighed, GuardianWeights
<1>1. \E pair \in ToSet(list) : pair[1] = g
    BY DEF GuardianNames, ToSet
<1>2. (CHOOSE pair \in ToSet(list) : pair[1] = g) \in ToSet(list)
    BY <1>1
<1>3. ToSet(list) \subseteq Accounts \X Nat
    BY DEF ToSet
<1> QED  BY <1>2, <1>3

LEMMA AppointTally ==
    ASSUME Known, VoteInv', AppointNext
    PROVE  TallyInv'
<1>1. ASSUME NEW id \in DOMAIN wills, NEW owner, NEW list, update_guardians(id, owner, list)
      PROVE  TallyInv'
    <2>1. wills[id].guardian_threshold \in Nat
        BY DEF Known, TallyInv, Tally
    <2> QED  BY <1>1, <2>1, UnweightedWeighed, ReplacedTally
             DEF update_guardians, ReplaceGuardians
<1>2. ASSUME NEW id \in DOMAIN wills, NEW owner, NEW l \in WeightedLists,
             update_guardians_weighted(id, owner, l.guardians, l.threshold)
      PROVE  TallyInv'
    <2> DEFINE threshold == IF l.threshold = NoTime THEN wills[id].guardian_threshold
                            ELSE l.threshold
    <2>1. ReplaceGuardians(id, GuardianWeights(l.guardians), threshold)
        BY <1>2 DEF update_guardians_weighted
    <2>2. l.guardians \in Seq(Accounts \X Nat) /\ l.threshold \in OptionalTime
        BY GuardianInputsAssumption
    <2>3. threshold \in Nat
        BY <2>2 DEF Known, TallyInv, Tally, OptionalTime
    <2>4. WellWeighed(GuardianWeights(l.guardians))
        BY <2>2, NewWeightsWeighed
    <2> HIDE DEF threshold
    <2> QED  BY <2>1, <2>3, <2>4, ReplacedTally DEF ReplaceGuardians
<1> QED  BY <1>1, <1>2 DEF AppointNext

LEMMA SettingsTally ==
    ASSUME Known, VoteInv', NEW id \in DOMAIN wills, NEW owner, NEW s,
           update_will_settings(id, owner, s)
    PROVE  TallyInv'
<1> DEFINE w1(list) == WithPeriods([wills[id] EXCEPT !.beneficiaries = list], s.checkin, s.grace)
<1>1. PICK list :
        \/ save_will(id, w1(list))
        \/ SaveWithVotes(id, WithGuardians(w1(list), UnweightedGuardians(s.guardians),
                                           wills[id].guardian_threshold),
                         reset_guardian_votes(guardian_vote, id, wills[id]),
                         reset_guardian_cancel_votes(guardian_cancel_vote, id, wills[id]))
    BY DEF update_will_settings
<1>2. /\ WillFields \subseteq DOMAIN wills[id] /\ wills[id].guardian_threshold \in Nat
    BY DEF Known, FieldsInv, TallyInv, Tally
<1>3. DOMAIN w1(list) = DOMAIN wills[id] /\ SameTally(w1(list), wills[id])
    BY <1>2 DEF WithPeriods, SameTally, WillFields
<1> HIDE DEF w1
<1> QED  BY <1>1, <1>2, <1>3, SavedTally, ReplacedTally, UnweightedWeighed

----------------------------------------------------------------------------
(* Votes and consent *)

\* A recount finds no more than what is on record, and a quorum if the live
\* votes of guardians who did not consent are left out.
LEMMA RecountBacked ==
    ASSUME NEW id, NEW v, WellWeighed(v.guardians), NEW records,
           Cast(records[id]) \subseteq DOMAIN v.guardians,
           DOMAIN v.guardians \subseteq Accounts
    PROVE  /\ Backed(Cardinality(Counted(id, v, records)),
                     WeightOf(v.guardians, Counted(id, v, records)),
                     v.guardians, records[id])
           /\ live_guardian_vote_weight(id, v, records) \in Nat
           /\ WeightOf(v.guardians, Counted(id, v, records))
                    <= live_guardian_vote_weight(id, v, records)
<1> DEFINE counted == Counted(id, v, records)
           live    == {g \in DOMAIN v.guardians :
                            has_voted(records, id, g, v.grace_period_days)}
           cast    == Cast(records[id])
<1>1. counted \subseteq live /\ live \subseteq cast
    BY DEF Counted, has_voted, VoteIsLive, Cast
<1>2. IsFiniteSet(cast)
    BY CastFinite
<1>3. live_guardian_vote_weight(id, v, records) = WeightOf(v.guardians, live)
    BY DEF live_guardian_vote_weight
<1> HIDE DEF counted, live, cast
<1>4. IsFiniteSet(live) /\ live \subseteq DOMAIN v.guardians /\ cast \subseteq DOMAIN v.guardians
    BY <1>1, <1>2, FS_Subset DEF cast
<1>5. /\ WeightOf(v.guardians, counted) \in Nat /\ WeightOf(v.guardians, live) \in Nat
      /\ WeightOf(v.guardians, counted) <= WeightOf(v.guardians, live)
    BY <1>1, <1>4, WeightIsNatural
<1>6. WeightOf(v.guardians, live) <= WeightOf(v.guardians, cast)
      /\ WeightOf(v.guardians, cast) \in Nat
    BY <1>1, <1>2, <1>4, WeightIsNatural
<1>7. /\ Cardinality(counted) \in Nat /\ Cardinality(cast) \in Nat
      /\ Cardinality(counted) <= Cardinality(cast)
    <2>1. counted \subseteq cast
        BY <1>1
    <2> QED  BY <1>2, <2>1, FS_Subset, FS_CardinalityType
<1>8. WeightOf(v.guardians, counted) <= WeightOf(v.guardians, cast)
    BY <1>5, <1>6
<1>9. Backed(Cardinality(counted), WeightOf(v.guardians, counted), v.guardians, records[id])
    BY <1>5, <1>7, <1>8 DEF Backed, cast
<1> QED  BY <1>3, <1>5, <1>9 DEF counted

LEMMA GuardianTriggerTally ==
    ASSUME Known, VoteInv', NEW id \in DOMAIN wills, NEW guardian \in Accounts, NEW refused,
           guardian_trigger(id, guardian, refused)
    PROVE  TallyInv'
<1> DEFINE records == [guardian_vote EXCEPT ![id][guardian] = now]
           v       == wills[id]
           w       == Tallied(id, v, records)
           Out(left) == [w EXCEPT !.balances = left,
                                  !.balance  = BalanceOf(left, w.token),
                                  !.status   = "Released"]
<1>1. /\ v.status = "Active" /\ guardian \in DOMAIN v.guardians
      /\ \/ \E left : SaveWithVotes(id, Out(left), records, guardian_cancel_vote)
         \/ ~ReleaseQuorum(id, w, records) /\ SaveWithVotes(id, w, records, guardian_cancel_vote)
    BY DEF guardian_trigger, distribute, HasStatus, MayVote
<1>2. /\ id \in WillIds /\ now \in Nat
      /\ guardian_vote \in VoteRecords /\ guardian_cancel_vote \in VoteRecords
      /\ WillFields \subseteq DOMAIN v
      /\ Ballot(v, now, guardian_vote[id], guardian_cancel_vote[id])
      /\ Tally(v, guardian_vote[id], guardian_cancel_vote[id])
    BY DEF Known, VoteInv, LifecycleInv, FieldsInv, TallyInv
<1>3. /\ records \in VoteRecords
      /\ \A x \in WillIds : x # id => records[x] = guardian_vote[x]
      /\ Cast(records[id]) = Cast(guardian_vote[id]) \cup {guardian}
    BY <1>2, VoteCast
<1>4. /\ w.guardians = v.guardians /\ w.status = "Active"
      /\ w.guardian_threshold = v.guardian_threshold
      /\ w.guardian_votes = Cardinality(Counted(id, v, records))
      /\ w.guardian_vote_weight = WeightOf(v.guardians, Counted(id, v, records))
      /\ w.guardian_cancel_votes = v.guardian_cancel_votes
      /\ w.guardian_cancel_vote_weight = v.guardian_cancel_vote_weight
      /\ WillFields \subseteq DOMAIN w
      /\ live_guardian_vote_weight(id, w, records) = live_guardian_vote_weight(id, v, records)
    BY <1>1, <1>2 DEF Tallied, WillFields, live_guardian_vote_weight
<1>5. ASSUME NEW left
      PROVE  SameTally(Out(left), w) /\ Out(left).guardians = v.guardians
             /\ Out(left).status = "Released"
    BY <1>4 DEF SameTally, WillFields, LiveStatus
<1> HIDE DEF records, w, Out, v
<1>6. Backed(w.guardian_votes, w.guardian_vote_weight, w.guardians, records[id])
      /\ live_guardian_vote_weight(id, w, records) \in Nat
      /\ w.guardian_vote_weight <= live_guardian_vote_weight(id, w, records)
    BY <1>1, <1>2, <1>3, <1>4, RecountBacked DEF Tally, Ballot
<1>7. /\ WellWeighed(w.guardians) /\ w.guardian_threshold \in Nat
      /\ Backed(w.guardian_cancel_votes, w.guardian_cancel_vote_weight, w.guardians,
                guardian_cancel_vote[id])
    BY <1>2, <1>4 DEF Tally
<1>8. CASE \E left : SaveWithVotes(id, Out(left), records, guardian_cancel_vote)
    <2>1. PICK left : SaveWithVotes(id, Out(left), records, guardian_cancel_vote)
        BY <1>8
    <2> DEFINE out == Out(left)
    <2>2. SameTally(out, w) /\ out.guardians = v.guardians /\ out.status = "Released"
        BY <1>5
    <2> HIDE DEF out
    <2>3. guardian_vote' = records /\ guardian_cancel_vote' = guardian_cancel_vote
        <3>1. SaveWithVotes(id, out, records, guardian_cancel_vote)
            BY <2>1 DEF out
        <3>2. DOMAIN out.guardians = DOMAIN wills[id].guardians
            BY <2>2 DEF v
        <3> QED  BY ONLY <1>2, <1>3, <3>1, <3>2, SavedAsGiven
    <2>4. Tally(out, records[id], guardian_cancel_vote[id])
        <3>1. /\ Backed(out.guardian_votes, out.guardian_vote_weight, w.guardians, records[id])
              /\ Backed(out.guardian_cancel_votes, out.guardian_cancel_vote_weight, w.guardians,
                        guardian_cancel_vote[id])
            BY <1>6, <1>7, <2>2 DEF SameTally
        <3> QED  BY <1>4, <1>7, <2>2, <3>1 DEF SameTally, Tally
    <2>5. wills' = Put(wills, id, out)
        BY <2>1 DEF SaveWithVotes, out
    <2> QED  BY <1>2, <1>3, <2>3, <2>4, <2>5, OneTally
<1>9. CASE ~ReleaseQuorum(id, w, records) /\ SaveWithVotes(id, w, records, guardian_cancel_vote)
    <2>1. guardian_vote' = records /\ guardian_cancel_vote' = guardian_cancel_vote
        <3>1. DOMAIN w.guardians = DOMAIN wills[id].guardians
            BY <1>4 DEF v
        <3> QED  BY ONLY <1>2, <1>3, <1>9, <3>1, SavedAsGiven
    <2>2. w.guardian_vote_weight < w.guardian_threshold
        BY <1>6, <1>7, <1>9 DEF ReleaseQuorum, Backed
    <2>3. Tally(w, records[id], guardian_cancel_vote[id])
        BY <1>4, <1>6, <1>7, <2>2 DEF Tally
    <2>4. wills' = Put(wills, id, w)
        BY <1>9 DEF SaveWithVotes
    <2> QED  BY <1>2, <1>3, <2>1, <2>3, <2>4, OneTally
<1> QED  BY <1>1, <1>8, <1>9

LEMMA GuardianCancelTally ==
    ASSUME Known, VoteInv', NEW id \in DOMAIN wills, NEW guardian \in Accounts,
           guardian_cancel_trigger(id, guardian)
    PROVE  TallyInv'
<1> DEFINE records == [guardian_cancel_vote EXCEPT ![id][guardian] = now]
           v       == wills[id]
           w       == CancelTallied(id, v, records)
<1>1. /\ v.status = "Triggered" /\ guardian \in DOMAIN v.guardians
      /\ \/ SaveWithVotes(id, Revived(w), reset_guardian_votes(guardian_vote, id, w),
                          reset_guardian_cancel_votes(records, id, w))
         \/ /\ w.guardian_cancel_vote_weight < w.guardian_threshold
            /\ SaveWithVotes(id, w, guardian_vote, records)
    BY DEF guardian_cancel_trigger, HasStatus, MayVote
<1>2. /\ id \in WillIds /\ now \in Nat
      /\ guardian_vote \in VoteRecords /\ guardian_cancel_vote \in VoteRecords
      /\ WillFields \subseteq DOMAIN v
      /\ Ballot(v, now, guardian_vote[id], guardian_cancel_vote[id])
      /\ Tally(v, guardian_vote[id], guardian_cancel_vote[id])
    BY DEF Known, VoteInv, LifecycleInv, FieldsInv, TallyInv
<1>3. /\ records \in VoteRecords
      /\ \A x \in WillIds : x # id => records[x] = guardian_cancel_vote[x]
      /\ Cast(records[id]) = Cast(guardian_cancel_vote[id]) \cup {guardian}
    BY <1>2, VoteCast
<1>4. /\ w.guardians = v.guardians /\ w.status = "Triggered" /\ DOMAIN w = DOMAIN v
      /\ w.guardian_threshold = v.guardian_threshold
      /\ w.guardian_cancel_votes = Cardinality(Counted(id, v, records))
      /\ w.guardian_cancel_vote_weight = WeightOf(v.guardians, Counted(id, v, records))
      /\ w.guardian_votes = v.guardian_votes
      /\ w.guardian_vote_weight = v.guardian_vote_weight
    BY <1>1, <1>2 DEF CancelTallied, WillFields
<1> HIDE DEF records, w
<1>5. CASE SaveWithVotes(id, Revived(w), reset_guardian_votes(guardian_vote, id, w),
                         reset_guardian_cancel_votes(records, id, w))
    <2> DEFINE u == Revived(w)
    <2> HIDE DEF u
    <2>1. SaveWithVotes(id, u, reset_guardian_votes(guardian_vote, id, w),
                        reset_guardian_cancel_votes(records, id, w))
        BY <1>5 DEF u
    <2>2. u = Revived(w) \/ u = sync_primary_balance(Revived(w))
        BY DEF u
    <2> QED  BY <1>3, <1>4, <2>1, <2>2, RevivedTally
<1>6. CASE /\ w.guardian_cancel_vote_weight < w.guardian_threshold
           /\ SaveWithVotes(id, w, guardian_vote, records)
    <2>1. guardian_vote' = guardian_vote /\ guardian_cancel_vote' = records
        <3>1. DOMAIN w.guardians = DOMAIN wills[id].guardians
            BY <1>4
        <3> QED  BY ONLY <1>2, <1>3, <1>6, <3>1, SavedAsGiven
    <2> HIDE DEF v
    <2>2. Backed(w.guardian_cancel_votes, w.guardian_cancel_vote_weight, w.guardians, records[id])
        BY <1>1, <1>2, <1>3, <1>4, RecountBacked DEF Tally, Ballot
    <2>3. Tally(w, guardian_vote[id], records[id])
        BY <1>2, <1>4, <1>6, <2>2 DEF Tally
    <2>4. wills' = Put(wills, id, w)
        BY <1>6 DEF SaveWithVotes
    <2> QED  BY <1>2, <1>3, <2>1, <2>3, <2>4, OneTally
<1> QED  BY <1>1, <1>5, <1>6

LEMMA AcceptTally ==
    ASSUME Known, NEW id \in DOMAIN wills, NEW guardian, accept_guardian_role(id, guardian)
    PROVE  TallyInv'
<1> DEFINE w == [wills[id] EXCEPT !.guardians[guardian].consent = "Accepted"]
<1>1. save_will(id, w)
    BY DEF accept_guardian_role
<1>2. WillFields \subseteq DOMAIN wills[id] /\ WellWeighed(wills[id].guardians)
    BY DEF Known, FieldsInv, TallyInv, Tally
<1>3. SameTally(w, wills[id])
    BY <1>2 DEF SameTally, WillFields
<1> HIDE DEF w
<1> QED  BY <1>1, <1>3, SavedTally

\* Taking back one vote, and one guardian's weight, leaves what the remaining
\* records can back.
LEMMA OneLessBacked ==
    ASSUME NEW heads, NEW weight, NEW guardians, NEW rec, NEW after,
           WellWeighed(guardians), Backed(heads, weight, guardians, rec),
           Cast(rec) \subseteq DOMAIN guardians,
           NEW g \in Cast(rec), Cast(after) = Cast(rec) \ {g}
    PROVE  /\ Backed(SaturatingSub(heads, 1), SaturatingSub(weight, guardians[g].weight),
                     guardians, after)
           /\ SaturatingSub(weight, guardians[g].weight) <= weight
<1> DEFINE f == Weights(guardians)
           full == Cast(rec)
           rest == Cast(after)
<1>1. IsFiniteSet(full) /\ IsFiniteSet(rest) /\ rest \subseteq full /\ rest = full \ {g}
    BY CastFinite
<1>2. Cardinality(full) \in Nat /\ Cardinality(rest) = Cardinality(full) - 1
    BY <1>1, FS_RemoveElement, FS_CardinalityType
<1>3. f[g] = guardians[g].weight /\ f[g] \in Nat /\ \A x \in full : f[x] \in Int
    BY DEF WellWeighed, Weights
<1>4. WeightOf(guardians, rest) \in Nat
    BY <1>1, WeightIsNatural
<1> HIDE DEF f, full, rest
<1>5. SumFunctionOnSet(f, full) = f[g] + SumFunctionOnSet(f, full \ {g})
    <2>1. g \in full
        BY DEF full
    <2> QED  BY <1>1, <1>3, <2>1, SumTakeOut
<1>6. WeightOf(guardians, full) = guardians[g].weight + WeightOf(guardians, rest)
    BY <1>1, <1>3, <1>5 DEF WeightOf, f
<1>7. /\ heads \in Nat /\ heads <= Cardinality(full)
      /\ weight \in Nat /\ weight <= WeightOf(guardians, full)
      /\ guardians[g].weight \in Nat
    BY <1>3 DEF Backed, full
<1>8. SaturatingSub(heads, 1) \in Nat /\ SaturatingSub(heads, 1) <= Cardinality(rest)
    <2>1. CASE heads > 1
        BY <1>2, <1>7, <2>1 DEF SaturatingSub
    <2>2. CASE ~(heads > 1)
        <3>1. Cardinality(rest) \in Nat
            BY <1>1, FS_CardinalityType
        <3> QED  BY <1>7, <2>2, <3>1 DEF SaturatingSub
    <2> QED  BY <2>1, <2>2
<1>9. /\ SaturatingSub(weight, guardians[g].weight) \in Nat
      /\ SaturatingSub(weight, guardians[g].weight) <= WeightOf(guardians, rest)
      /\ SaturatingSub(weight, guardians[g].weight) <= weight
    BY <1>4, <1>6, <1>7 DEF SaturatingSub
<1> QED  BY <1>8, <1>9 DEF Backed, rest

\* One kind of votes when a guardian leaves.
LEMMA WithdrawalBacked ==
    ASSUME NEW id \in WillIds, NEW records \in VoteRecords, NEW g \in Accounts,
           NEW heads, NEW weight, NEW live,
           live = has_voted(records, id, g, wills[id].grace_period_days),
           WellWeighed(wills[id].guardians),
           Backed(heads, weight, wills[id].guardians, records[id]),
           Cast(records[id]) \subseteq DOMAIN wills[id].guardians
    PROVE  LET after == WithdrawnVote(records, id, g)
               less  == IF live THEN SaturatingSub(weight, wills[id].guardians[g].weight)
                        ELSE weight
           IN  /\ after \in VoteRecords
               /\ \A x \in WillIds : x # id => after[x] = records[x]
               /\ Backed(IF live THEN SaturatingSub(heads, 1) ELSE heads, less,
                         wills[id].guardians, after[id])
               /\ less <= weight
<1> DEFINE after == WithdrawnVote(records, id, g)
<1>1. /\ after \in VoteRecords
      /\ \A x \in WillIds : x # id => after[x] = records[x]
      /\ \A a \in Accounts : after[id][a] = IF a = g /\ live THEN NoTime ELSE records[id][a]
    BY WithdrawnVoteFact
<1>2. CASE live
    <2>1. g \in Cast(records[id])
        BY <1>2 DEF has_voted, VoteIsLive, Cast
    <2>2. Cast(after[id]) = Cast(records[id]) \ {g}
        BY <1>1, <1>2 DEF Cast
    <2> HIDE DEF after
    <2>3. /\ Backed(SaturatingSub(heads, 1),
                    SaturatingSub(weight, wills[id].guardians[g].weight),
                    wills[id].guardians, after[id])
          /\ SaturatingSub(weight, wills[id].guardians[g].weight) <= weight
        BY <2>1, <2>2, OneLessBacked
    <2> QED  BY <1>1, <1>2, <2>3 DEF after
<1>3. CASE ~live
    <2>1. Cast(after[id]) = Cast(records[id])
        BY <1>1, <1>3 DEF Cast
    <2>2. Backed(heads, weight, wills[id].guardians, after[id]) /\ weight <= weight
        BY <2>1 DEF Backed
    <2> QED  BY <1>1, <1>3, <2>2
<1> QED  BY <1>2, <1>3

LEMMA RejectTally ==
    ASSUME Known, NEW id \in DOMAIN wills, NEW guardian \in Accounts,
           reject_guardian_role(id, guardian)
    PROVE  TallyInv'
<1> DEFINE v  == wills[id]
           w  == Withdrawn(id, v, guardian)
           rv == WithdrawnVote(guardian_vote, id, guardian)
           cv == WithdrawnVote(guardian_cancel_vote, id, guardian)
           released == has_voted(guardian_vote, id, guardian, v.grace_period_days)
           canceled == has_voted(guardian_cancel_vote, id, guardian, v.grace_period_days)
           Weight(n, live) == IF live THEN SaturatingSub(n, v.guardians[guardian].weight) ELSE n
           Heads(n, live)  == IF live THEN SaturatingSub(n, 1) ELSE n
<1>1. SaveWithVotes(id, w, rv, cv)
    BY DEF reject_guardian_role
<1>2. /\ id \in WillIds
      /\ guardian_vote \in VoteRecords /\ guardian_cancel_vote \in VoteRecords
      /\ WillFields \subseteq DOMAIN v
      /\ Cast(guardian_vote[id]) \subseteq DOMAIN v.guardians
      /\ Cast(guardian_cancel_vote[id]) \subseteq DOMAIN v.guardians
      /\ Tally(v, guardian_vote[id], guardian_cancel_vote[id])
    BY DEF Known, VoteInv, Ballot, FieldsInv, TallyInv
<1>3. WellWeighed(v.guardians)
    BY <1>2 DEF Tally
<1>4. /\ DOMAIN w.guardians = DOMAIN v.guardians
      /\ \A g \in DOMAIN v.guardians : /\ DOMAIN w.guardians[g] = DOMAIN v.guardians[g]
                                        /\ w.guardians[g].weight = v.guardians[g].weight
      /\ w.guardian_threshold = v.guardian_threshold
      /\ w.status = v.status
      /\ w.guardian_votes = Heads(v.guardian_votes, released)
      /\ w.guardian_vote_weight = Weight(v.guardian_vote_weight, released)
      /\ w.guardian_cancel_votes = Heads(v.guardian_cancel_votes, canceled)
      /\ w.guardian_cancel_vote_weight = Weight(v.guardian_cancel_vote_weight, canceled)
    BY <1>2, <1>3 DEF Withdrawn, WillFields, WellWeighed
<1>5. /\ rv \in VoteRecords /\ \A x \in WillIds : x # id => rv[x] = guardian_vote[x]
      /\ Backed(Heads(v.guardian_votes, released), Weight(v.guardian_vote_weight, released),
                v.guardians, rv[id])
      /\ Weight(v.guardian_vote_weight, released) <= v.guardian_vote_weight
    BY <1>2, WithdrawalBacked DEF Tally
<1>6. /\ cv \in VoteRecords /\ \A x \in WillIds : x # id => cv[x] = guardian_cancel_vote[x]
      /\ Backed(Heads(v.guardian_cancel_votes, canceled),
                Weight(v.guardian_cancel_vote_weight, canceled), v.guardians, cv[id])
      /\ Weight(v.guardian_cancel_vote_weight, canceled) <= v.guardian_cancel_vote_weight
    BY <1>2, WithdrawalBacked DEF Tally
<1> HIDE DEF w, rv, cv, Weight, Heads, released, canceled
<1>7. guardian_vote' = rv /\ guardian_cancel_vote' = cv
    BY <1>1, <1>2, <1>4, <1>5, <1>6, SavedAsGiven
<1>8. Weights(w.guardians) = Weights(v.guardians)
    BY <1>4, SameWeights
<1>9. \A heads, weight, rec :
            Backed(heads, weight, v.guardians, rec) => Backed(heads, weight, w.guardians, rec)
    BY <1>8 DEF Backed, WeightOf
<1>10. WellWeighed(w.guardians)
    BY <1>3, <1>4 DEF WellWeighed
<1>11. /\ v.guardian_threshold \in Nat
       /\ v.guardian_vote_weight \in Nat /\ v.guardian_cancel_vote_weight \in Nat
       /\ w.guardian_vote_weight \in Nat /\ w.guardian_cancel_vote_weight \in Nat
       /\ w.guardian_vote_weight <= v.guardian_vote_weight
       /\ w.guardian_cancel_vote_weight <= v.guardian_cancel_vote_weight
    BY <1>2, <1>4, <1>5, <1>6 DEF Tally, Backed
<1>12. w.guardian_threshold > 0 =>
        /\ w.status \in {"PendingConfirmation", "Active"}
                => w.guardian_vote_weight < w.guardian_threshold
        /\ w.status = "Triggered" => w.guardian_cancel_vote_weight < w.guardian_threshold
    <2>1. v.guardian_threshold > 0 =>
            /\ v.status \in {"PendingConfirmation", "Active"}
                    => v.guardian_vote_weight < v.guardian_threshold
            /\ v.status = "Triggered" => v.guardian_cancel_vote_weight < v.guardian_threshold
        BY <1>2 DEF Tally
    <2> QED  BY <1>4, <1>11, <2>1
<1>13. Tally(w, rv[id], cv[id])
    BY <1>4, <1>5, <1>6, <1>9, <1>10, <1>11, <1>12 DEF Tally
<1>14. wills' = Put(wills, id, w)
    BY <1>1 DEF SaveWithVotes
<1> QED  BY <1>2, <1>5, <1>6, <1>7, <1>13, <1>14, OneTally

----------------------------------------------------------------------------
(* Wills that descend from others *)

LEMMA DescendantZeroed ==
    ASSUME NEW w, WillFields \subseteq DOMAIN w, WellWeighed(w.guardians),
           w.guardian_threshold \in Nat,
           NEW owner, NEW balances, NEW token, NEW balance
    PROVE  Zeroed(Descendant(w, owner, balances, token, balance))
<1> DEFINE d == Descendant(w, owner, balances, token, balance)
<1>1. /\ d.guardians = reset_guardian_consent(w.guardians)
      /\ d.guardian_threshold = w.guardian_threshold
      /\ d.guardian_votes = 0 /\ d.guardian_vote_weight = 0
      /\ d.guardian_cancel_votes = 0 /\ d.guardian_cancel_vote_weight = 0
    BY DEF Descendant, WillFields
<1>2. WellWeighed(reset_guardian_consent(w.guardians))
    BY DEF reset_guardian_consent, WellWeighed
<1> HIDE DEF d
<1>3. Zeroed(d)
    BY <1>1, <1>2 DEF Zeroed
<1> QED  BY <1>3 DEF d

\* A step that leaves the records alone and opens wills with counters at zero.
LEMMA OpenedTallies ==
    ASSUME Known, VoteInv', UNCHANGED <<guardian_vote, guardian_cancel_vote>>,
           DOMAIN wills \subseteq DOMAIN wills',
           \A x \in DOMAIN wills : wills'[x] = wills[x] \/ SameTally(wills'[x], wills[x]),
           \A x \in DOMAIN wills' \ DOMAIN wills : Zeroed(wills'[x])
    PROVE  TallyInv'
<1> SUFFICES ASSUME NEW x \in DOMAIN wills'
             PROVE  Tally(wills'[x], guardian_vote[x], guardian_cancel_vote[x])
    BY DEF TallyInv
<1>1. CASE x \in DOMAIN wills
    <2>1. /\ Ballot(wills[x], now, guardian_vote[x], guardian_cancel_vote[x])
          /\ Tally(wills[x], guardian_vote[x], guardian_cancel_vote[x])
        BY <1>1 DEF Known, VoteInv, TallyInv
    <2> QED  BY <1>1, <2>1, SameTallyCarries
<1>2. CASE x \notin DOMAIN wills
    <2>1. Ballot(wills'[x], now', guardian_vote'[x], guardian_cancel_vote'[x])
        BY DEF VoteInv
    <2> QED  BY <1>2, <2>1, ZeroedTally DEF Ballot
<1> QED  BY <1>1, <1>2

LEMMA CloneTally ==
    ASSUME Known, VoteInv', NEW source \in DOMAIN wills, NEW owner, NEW tokens,
           clone_will(source, owner, tokens)
    PROVE  TallyInv'
<1> DEFINE id == next_will_id + 1
           w  == Descendant(wills[source], owner, BalancesOf(tokens), tokens[1][1], tokens[1][2])
<1>1. save_will(id, w) /\ id \in WillIds
    BY DEF clone_will
<1>2. Zeroed(w)
    BY DescendantZeroed DEF Known, FieldsInv, TallyInv, Tally
<1>3. guardian_vote \in VoteRecords /\ guardian_cancel_vote \in VoteRecords
    BY DEF Known, VoteInv
<1> HIDE DEF id, w
<1> QED  BY <1>1, <1>2, <1>3, ZeroedSave DEF save_will

LEMMA SplitTally ==
    ASSUME Known, VoteInv', NEW id \in DOMAIN wills, NEW owner, NEW split,
           split_will(id, owner, split)
    PROVE  TallyInv'
<1> DEFINE child_id == next_will_id + 1
           Source(staying, remaining) ==
                sync_primary_balance([wills[id] EXCEPT !.balances = staying,
                                                       !.beneficiaries = remaining])
           Parent(moving, token) ==
                Descendant(wills[id], wills[id].owner, moving, token, moving[token])
           Child(moving, token, parted) ==
                [Parent(moving, token) EXCEPT !.beneficiaries = parted, !.keeper_bounty_bps = 0]
<1>1. /\ \E staying, remaining, moving, token, parted :
            wills' = Put(Put(wills, id, Source(staying, remaining)),
                         child_id, Child(moving, token, parted))
      /\ UNCHANGED <<guardian_vote, guardian_cancel_vote>>
    BY DEF split_will, votes
<1>2. PICK staying, remaining, moving, token, parted :
            wills' = Put(Put(wills, id, Source(staying, remaining)),
                         child_id, Child(moving, token, parted))
    BY <1>1
<1>3. /\ WillFields \subseteq DOMAIN wills[id] /\ WellWeighed(wills[id].guardians)
      /\ wills[id].guardian_threshold \in Nat
    BY DEF Known, FieldsInv, TallyInv, Tally
<1>4. SameTally(Source(staying, remaining), wills[id])
    BY <1>3 DEF sync_primary_balance, SameTally, WillFields
<1>5. Zeroed(Parent(moving, token)) /\ DOMAIN Parent(moving, token) = DOMAIN wills[id]
    BY <1>3, DescendantZeroed DEF Descendant
<1> HIDE DEF Source, Parent
<1>6. Zeroed(Child(moving, token, parted))
    BY <1>3, <1>5 DEF Zeroed, WillFields
<1> HIDE DEF Child
<1>7. child_id \notin DOMAIN wills
    <2>1. next_will_id \in Nat /\ DOMAIN wills \subseteq 1..next_will_id
        BY DEF Known, LifecycleInv
    <2> QED  BY <2>1
<1> HIDE DEF child_id
<1>8. /\ DOMAIN wills' = DOMAIN wills \cup {child_id}
      /\ wills'[id] = Source(staying, remaining)
      /\ wills'[child_id] = Child(moving, token, parted)
      /\ \A x \in DOMAIN wills : x # id => wills'[x] = wills[x]
    BY <1>2, <1>7 DEF Put
<1> QED  BY <1>1, <1>4, <1>6, <1>8, OpenedTallies

LEMMA BatchCreateTally ==
    ASSUME Known, VoteInv', NEW owner, NEW forms \in Batches, batch_create_wills(owner, forms)
    PROVE  TallyInv'
<1> DEFINE ids == (next_will_id + 1)..(next_will_id + Len(forms))
           Form(id) == [forms[id - next_will_id] EXCEPT !.bounty = 0, !.delay = 0]
           fresh == [id \in ids |-> NewWill(owner, Form(id))]
<1>1. /\ wills' = [id \in DOMAIN wills \cup ids |->
                        IF id \in ids THEN fresh[id] ELSE wills[id]]
      /\ UNCHANGED <<guardian_vote, guardian_cancel_vote>>
    BY DEF batch_create_wills, votes
<1>2. next_will_id \in Nat /\ Len(forms) \in Nat /\ forms \in Seq(SetOfForms)
    BY PortfolioInputsAssumption DEF Known, LifecycleInv
<1>3. \A id \in ids : id \notin DOMAIN wills
    BY <1>2 DEF Known, LifecycleInv
<1>4. ASSUME NEW id \in ids
      PROVE  Zeroed(fresh[id])
    <2>1. forms[id - next_will_id] \in SetOfForms
        BY <1>2
    <2>2. Form(id).threshold \in Nat
        BY <2>1 DEF SetOfForms
    <2>3. fresh[id] = NewWill(owner, Form(id))
        OBVIOUS
    <2> HIDE DEF Form, fresh
    <2> QED  BY <2>2, <2>3, UnweightedWeighed DEF NewWill, Zeroed
<1> HIDE DEF ids, fresh
<1>5. /\ DOMAIN wills' = DOMAIN wills \cup ids
      /\ \A id \in ids : wills'[id] = fresh[id]
      /\ \A id \in DOMAIN wills : wills'[id] = wills[id]
    BY <1>1, <1>3
<1> QED  BY <1>1, <1>4, <1>5, OpenedTallies

----------------------------------------------------------------------------
(* All calls but merge_wills *)

LEMMA TalliesUntouched ==
    ASSUME TallyInv, UNCHANGED <<wills, guardian_vote, guardian_cancel_vote>>
    PROVE  TallyInv'
BY DEF TallyInv

LEMMA TalliesKept == Known /\ VoteInv' /\ [UnmergedNext]_vars => TallyInv'
<1> SUFFICES ASSUME Known, VoteInv', [UnmergedNext]_vars
             PROVE  TallyInv'
    OBVIOUS
<1>1. CASE OwnerNext
    BY <1>1, CreateTally, LifecycleTally, EmergencyTally DEF OwnerNext
<1>2. CASE \E ids \in SUBSET DOMAIN wills : SignOfLife(ids)
    BY <1>2, LifecycleTally, BatchCheckInTally DEF SignOfLife
<1>3. CASE AnyoneNext
    BY <1>3, LifecycleTally, ReleaseTally DEF AnyoneNext
<1>4. CASE GuardianNext
    BY <1>4, GuardianTriggerTally, GuardianCancelTally, AcceptTally, RejectTally
       DEF GuardianNext
<1>5. CASE AppointNext
    BY <1>5, AppointTally
<1>6. CASE EstateOwnerNext
    BY <1>6, EstateTally, SettingsTally DEF EstateOwnerNext
<1>7. CASE EstateHeirNext
    <2>1. CASE \E key \in DOMAIN failed_payout : retry_failed_payout(key[1], key[2], key[3])
        BY <2>1, TalliesUntouched DEF retry_failed_payout, votes, Known
    <2> QED  BY <1>7, <2>1, EstateTally, ArchiveTally DEF EstateHeirNext
<1>8. CASE MultiplyNext
    <2>1. CASE repair_protocol_stats
        BY <2>1, TalliesUntouched DEF repair_protocol_stats, votes, Known
    <2> QED  BY <1>8, <2>1, CloneTally, SplitTally, BatchCreateTally DEF MultiplyNext
<1>9. CASE Tick \/ UNCHANGED vars
    BY <1>9, TalliesUntouched DEF Tick, vars, votes, Known
<1> QED  BY <1>1, <1>2, <1>3, <1>4, <1>5, <1>6, <1>7, <1>8, <1>9
         DEF UnmergedNext, EstateNext, QuorumNext, LifecycleNext

\* What guardians of an unmerged contract do is a part of it.
LEMMA QuorumIsUnmerged == QuorumSpec => UnmergedSpec
<1>1. [QuorumNext]_vars => [UnmergedNext]_vars
    BY DEF UnmergedNext, EstateNext
<1> QED  BY <1>1, PTL DEF UnmergedSpec, QuorumSpec

\* No entry point but merge_wills lets a counter run ahead of the records, and a
\* vote or a withdrawal never leaves a reached threshold behind.
THEOREM TalliesHold == UnmergedSpec => []TallyInv
<1>1. LifecycleInit => TallyInv
    BY DEF LifecycleInit, StorageInit, TallyInv
<1>2. LifecycleInv /\ VoteInv /\ VoteInv' /\ FieldsInv /\ TallyInv /\ [UnmergedNext]_vars
        => TallyInv'
    BY TalliesKept DEF Known
<1> QED  BY <1>1, <1>2, UnmergedIsPortfolio, ContractInvariantHolds, ContractVotesHold,
            FieldsHold, PTL DEF UnmergedSpec

\* The tallies guardian_trigger and guardian_cancel_trigger store, and those
\* reject_guardian_role takes a vote back from, never claim more heads or more
\* weight than the guardians with a record on file have.
THEOREM TalliesAreBacked == UnmergedSpec => []TalliesBackedByRecords
<1>1. VoteInv /\ TallyInv => TalliesBackedByRecords
    <2> SUFFICES ASSUME VoteInv, TallyInv, NEW id \in DOMAIN wills
                 PROVE  LET w       == wills[id]
                            release == Voted(guardian_vote, id) \cap DOMAIN w.guardians
                            cancel  == Voted(guardian_cancel_vote, id) \cap DOMAIN w.guardians
                        IN  /\ w.guardian_votes <= Cardinality(release)
                            /\ w.guardian_vote_weight <= WeightOf(w.guardians, release)
                            /\ w.guardian_cancel_votes <= Cardinality(cancel)
                            /\ w.guardian_cancel_vote_weight <= WeightOf(w.guardians, cancel)
        BY DEF TalliesBackedByRecords
    <2>1. /\ Ballot(wills[id], now, guardian_vote[id], guardian_cancel_vote[id])
          /\ Tally(wills[id], guardian_vote[id], guardian_cancel_vote[id])
        BY DEF VoteInv, TallyInv
    <2>2. /\ Voted(guardian_vote, id) \cap DOMAIN wills[id].guardians = Cast(guardian_vote[id])
          /\ Voted(guardian_cancel_vote, id) \cap DOMAIN wills[id].guardians
                = Cast(guardian_cancel_vote[id])
        BY <2>1 DEF Ballot, Voted, Cast
    <2> QED  BY <2>1, <2>2 DEF Tally, Backed
<1> QED  BY <1>1, TalliesHold, UnmergedIsPortfolio, ContractVotesHold, PTL

\* No quorum waits for another call: whenever the stored weight of an Active will
\* reaches its threshold the vote has released it (guardian_trigger), and when
\* that of a Triggered will does, the trigger is taken back.
THEOREM QuorumsActAtOnce == UnmergedSpec => []NoIdleQuorum
<1>1. TallyInv => NoIdleQuorum
    BY DEF TallyInv, Tally, NoIdleQuorum
<1> QED  BY <1>1, TalliesHold, PTL
=============================================================================
