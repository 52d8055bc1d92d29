----------------------------- MODULE VoteProofs -----------------------------
(***************************************************************************)
(* What the vote records of the guardians can be relied on for, for any    *)
(* lists, weights, periods and cooldown.  Ballot is the inductive          *)
(* statement about one will.  Its last conjunct is what the early return   *)
(* of reset_guardian_cancel_votes needs: while the trigger can still be    *)
(* taken back no cancel vote has expired, so the counter that decides      *)
(* whether there is something to clear is exact.                           *)
(*                                                                         *)
(* The second half carries it through the whole contract: a will that is   *)
(* merged, cloned, split or archived, whose heirs, funds or settings       *)
(* change, keeps no vote it should not have, and what a guardian's         *)
(* dashboard shows is true of the votes.                                   *)
(***************************************************************************)
EXTENDS ContractProofs, WillQueries, FiniteSetTheorems

VoteFields == {"guardians", "guardian_cancel_votes", "guardian_cancel_vote_weight",
               "guardian_list_updated_at"}

Cast(v) == {a \in Accounts : v[a] # NoTime}

SettledAt(w) == w.guardian_list_updated_at + GUARDIAN_COOLDOWN_DAYS * SECONDS_PER_DAY

\* A trigger that may still be taken back at time t.
InTime(w, t) ==
    /\ w.status = "Triggered"
    /\ t <= w.trigger_time + w.grace_period_days * SECONDS_PER_DAY

\* The votes rv and cv on record for a stored will w at time t.
Ballot(w, t, rv, cv) ==
    /\ VoteFields \subseteq DOMAIN w
    /\ DOMAIN w.guardians \subseteq Accounts
    /\ Cast(rv) \subseteq DOMAIN w.guardians
    /\ Cast(cv) \subseteq DOMAIN w.guardians
    /\ \A a \in Cast(rv) : rv[a] >= SettledAt(w)
    /\ \A a \in Cast(cv) : cv[a] >= SettledAt(w)
    /\ w.status \in {"PendingConfirmation", "Active"} =>
            /\ Cast(cv) = {}
            /\ w.guardian_cancel_votes = 0
            /\ w.guardian_cancel_vote_weight = 0
    /\ InTime(w, t) =>
            /\ \A a \in Cast(cv) : /\ w.trigger_time <= cv[a]
                                   /\ cv[a] <= t
                                   /\ w.guardians[a].consent = "Accepted"
            /\ w.guardian_cancel_votes = Cardinality(Cast(cv))

NoVotes(id) == Cast(guardian_vote[id]) = {} /\ Cast(guardian_cancel_vote[id]) = {}

VoteInv ==
    /\ guardian_vote \in VoteRecords
    /\ guardian_cancel_vote \in VoteRecords
    /\ DOMAIN wills \subseteq WillIds
    /\ \A id \in WillIds :
        /\ id \in DOMAIN wills
                => Ballot(wills[id], now, guardian_vote[id], guardian_cancel_vote[id])
        /\ id \notin DOMAIN wills => NoVotes(id)

----------------------------------------------------------------------------
(* Vote records *)

LEMMA ClearedVotesFact ==
    ASSUME NEW records \in VoteRecords, NEW id \in WillIds, NEW gone
    PROVE  /\ ClearedVotes(records, id, gone) \in VoteRecords
           /\ \A x \in WillIds : x # id => ClearedVotes(records, id, gone)[x] = records[x]
           /\ \A a \in Accounts : ClearedVotes(records, id, gone)[id][a]
                                    = IF a \in gone THEN NoTime ELSE records[id][a]
           /\ Cast(ClearedVotes(records, id, gone)[id]) = Cast(records[id]) \ gone
BY DEF ClearedVotes, VoteRecords, OptionalTime, Cast

LEMMA NobodyCleared ==
    ASSUME NEW records \in VoteRecords, NEW id \in WillIds
    PROVE  ClearedVotes(records, id, {}) = records
<1>1. ClearedVotes(records, id, {}) \in VoteRecords
    BY ClearedVotesFact
<1>2. \A x \in WillIds : \A a \in Accounts : ClearedVotes(records, id, {})[x][a] = records[x][a]
    BY ClearedVotesFact
<1> QED  BY <1>1, <1>2 DEF VoteRecords

LEMMA VoteCast ==
    ASSUME NEW records \in VoteRecords, NEW id \in WillIds, NEW g \in Accounts, now \in Nat
    PROVE  LET after == [records EXCEPT ![id][g] = now]
           IN  /\ after \in VoteRecords
               /\ \A x \in WillIds : x # id => after[x] = records[x]
               /\ \A a \in Accounts : after[id][a] = IF a = g THEN now ELSE records[id][a]
               /\ Cast(after[id]) = Cast(records[id]) \cup {g}
BY DEF VoteRecords, OptionalTime, NoTime, Cast

LEMMA CastFinite == \A v : IsFiniteSet(Cast(v))
<1> SUFFICES ASSUME NEW v
             PROVE  IsFiniteSet(Cast(v))
    OBVIOUS
<1> QED  BY AccountsAssumption, FS_Subset DEF Cast

----------------------------------------------------------------------------
(* Steps on one will *)

\* A step that rewrites will `id` to w and touches no other votes.
LEMMA OneBallot ==
    ASSUME VoteInv, NEW id \in WillIds, NEW w,
           wills' = Put(wills, id, w),
           now' = now,
           guardian_vote' \in VoteRecords,
           guardian_cancel_vote' \in VoteRecords,
           \A x \in WillIds : x # id => /\ guardian_vote'[x] = guardian_vote[x]
                                        /\ guardian_cancel_vote'[x] = guardian_cancel_vote[x],
           Ballot(w, now, guardian_vote'[id], guardian_cancel_vote'[id])
    PROVE  VoteInv'
<1>1. /\ DOMAIN wills' = DOMAIN wills \cup {id}
      /\ wills'[id] = w
      /\ \A x \in DOMAIN wills : x # id => wills'[x] = wills[x]
    BY DEF Put
<1>2. DOMAIN wills' \subseteq WillIds
    BY <1>1 DEF VoteInv
<1>3. ASSUME NEW x \in WillIds, x \in DOMAIN wills'
      PROVE  Ballot(wills'[x], now', guardian_vote'[x], guardian_cancel_vote'[x])
    <2>1. CASE x = id
        BY <1>1, <2>1
    <2>2. CASE x # id
        BY <1>1, <1>3, <2>2 DEF VoteInv
    <2> QED  BY <2>1, <2>2
<1>4. ASSUME NEW x \in WillIds, x \notin DOMAIN wills'
      PROVE  NoVotes(x)'
    BY <1>1, <1>4 DEF VoteInv, NoVotes
<1> QED  BY <1>2, <1>3, <1>4 DEF VoteInv

\* What save_will does to the records when no guardian leaves.
LEMMA SavedAsGiven ==
    ASSUME NEW id \in WillIds, NEW w,
           NEW rv \in VoteRecords, NEW cv \in VoteRecords,
           SaveWithVotes(id, w, rv, cv),
           id \in DOMAIN wills => DOMAIN w.guardians = DOMAIN wills[id].guardians
    PROVE  guardian_vote' = rv /\ guardian_cancel_vote' = cv
<1>1. Departed(id, w) = {}
    BY DEF Departed, Stored
<1> QED  BY <1>1, NobodyCleared DEF SaveWithVotes

\* Wills on which the guardians and the count of cancel votes are the same.
SameGuardians(w, v) ==
    /\ VoteFields \subseteq DOMAIN w
    /\ w.guardians = v.guardians
    /\ w.guardian_list_updated_at = v.guardian_list_updated_at
    /\ w.guardian_cancel_votes = v.guardian_cancel_votes
    /\ w.guardian_cancel_vote_weight = v.guardian_cancel_vote_weight

\* The moves of the life cycle that leave the votes alone: staying before the
\* trigger, being triggered, or ending.
LEMMA BallotCarriedOn ==
    ASSUME NEW v, NEW w, NEW t, NEW rv, NEW cv,
           Ballot(v, t, rv, cv), SameGuardians(w, v),
           \/ w.status \notin LiveStatus
           \/ /\ v.status \in {"PendingConfirmation", "Active"}
              /\ w.status \in LiveStatus
    PROVE  Ballot(w, t, rv, cv)
<1>1. v.status \in {"PendingConfirmation", "Active"}
        => Cast(cv) = {} /\ w.guardian_cancel_votes = 0 /\ w.guardian_cancel_vote_weight = 0
    BY DEF Ballot, SameGuardians
<1>2. InTime(w, t) => v.status \in {"PendingConfirmation", "Active"}
    BY DEF InTime, LiveStatus
<1>3. Cast(cv) = {} => Cardinality(Cast(cv)) = 0
    BY FS_EmptySet
<1>4. w.status \in {"PendingConfirmation", "Active"}
        => v.status \in {"PendingConfirmation", "Active"}
    BY DEF LiveStatus
<1> QED  BY <1>1, <1>2, <1>3, <1>4 DEF Ballot, SameGuardians, SettledAt

LEMMA BallotCleared ==
    ASSUME NEW w, NEW t, NEW rv, NEW cv,
           VoteFields \subseteq DOMAIN w, DOMAIN w.guardians \subseteq Accounts,
           w.status \in {"PendingConfirmation", "Active"},
           w.guardian_cancel_votes = 0, w.guardian_cancel_vote_weight = 0,
           Cast(rv) = {}, Cast(cv) = {}
    PROVE  Ballot(w, t, rv, cv)
BY DEF Ballot, InTime

\* An entry point that saves the will and none of the votes.
LEMMA SavedCarriesOn ==
    ASSUME VoteInv, NEW id \in DOMAIN wills, NEW w,
           save_will(id, w), now' = now,
           SameGuardians(w, wills[id]),
           Ballot(w, now, guardian_vote[id], guardian_cancel_vote[id])
    PROVE  VoteInv'
<1>1. id \in WillIds /\ guardian_vote \in VoteRecords /\ guardian_cancel_vote \in VoteRecords
    BY DEF VoteInv
<1>2. guardian_vote' = guardian_vote /\ guardian_cancel_vote' = guardian_cancel_vote
    BY <1>1, SavedAsGiven DEF save_will, SameGuardians
<1>3. wills' = Put(wills, id, w)
    BY DEF save_will, SaveWithVotes
<1> QED  BY <1>1, <1>2, <1>3, OneBallot

----------------------------------------------------------------------------
(* The life cycle *)

LEMMA CreateBallot ==
    ASSUME LifecycleInv, VoteInv, NEW owner, NEW form \in CreateForms,
           create_will(owner, form)
    PROVE  VoteInv'
<1> DEFINE id == next_will_id + 1
           w  == NewWill(owner, form)
<1>1. save_will(id, w) /\ now' = now /\ next_will_id < MaxWills
    BY DEF create_will
<1>2. id \in WillIds /\ id \notin DOMAIN wills
    BY <1>1, BoundsAssumption DEF LifecycleInv, WillIds
<1>3. guardian_vote \in VoteRecords /\ guardian_cancel_vote \in VoteRecords /\ NoVotes(id)
    BY <1>2 DEF VoteInv
<1>4. form.guardians \in Seq(Accounts)
    BY InputsAssumption DEF SetOfForms
<1>5. DOMAIN w.guardians \subseteq Accounts
    BY <1>4 DEF NewWill, UnweightedGuardians, ToSet
<1>6. /\ VoteFields \subseteq DOMAIN w
      /\ w.status \in {"PendingConfirmation", "Active"}
      /\ w.guardian_cancel_votes = 0 /\ w.guardian_cancel_vote_weight = 0
    BY DEF NewWill, VoteFields
<1> HIDE DEF id, w
<1>7. guardian_vote' = guardian_vote /\ guardian_cancel_vote' = guardian_cancel_vote
    BY <1>1, <1>2, <1>3, SavedAsGiven DEF save_will
<1>8. Ballot(w, now, guardian_vote'[id], guardian_cancel_vote'[id])
    BY <1>3, <1>5, <1>6, <1>7, BallotCleared DEF NoVotes
<1>9. wills' = Put(wills, id, w)
    BY <1>1 DEF save_will, SaveWithVotes
<1> QED  BY <1>1, <1>2, <1>3, <1>7, <1>8, <1>9, OneBallot

\* The entry points that only rewrite fields of one will, none of them a vote.
LEMMA RewriteBallot ==
    ASSUME LifecycleInv, VoteInv, NEW id \in DOMAIN wills, NEW owner, NEW caller,
           \/ confirm_will(id, owner)
           \/ \E delegate \in Delegates : set_delegate(id, owner, delegate)
           \/ \E p \in PeriodUpdates : update_periods(id, owner, p[1], p[2])
           \/ cancel_will(id, owner)
           \/ close_will(id, owner)
           \/ check_in(id, caller)
           \/ trigger_will(id)
    PROVE  VoteInv'
<1>1. Ballot(wills[id], now, guardian_vote[id], guardian_cancel_vote[id])
    BY DEF VoteInv
<1>2. VoteFields \subseteq DOMAIN wills[id] /\ ControlFields \subseteq DOMAIN wills[id]
    BY <1>1 DEF Ballot, LifecycleInv, Kept, Shaped
<1>3. \E w : /\ save_will(id, w)
             /\ now' = now
             /\ SameGuardians(w, wills[id])
             /\ \/ w.status \notin LiveStatus
                \/ /\ wills[id].status \in {"PendingConfirmation", "Active"}
                   /\ w.status \in LiveStatus
    <2>1. CASE confirm_will(id, owner)
        BY <1>2, <2>1 DEF confirm_will, SameGuardians, VoteFields, ControlFields, LiveStatus,
                          HasStatus, OnlyTheWill
    <2>2. CASE \E delegate \in Delegates : set_delegate(id, owner, delegate)
        BY <1>2, <2>2 DEF set_delegate, SameGuardians, VoteFields, ControlFields, LiveStatus,
                          HasStatus, OnlyTheWill
    <2>3. CASE \E p \in PeriodUpdates : update_periods(id, owner, p[1], p[2])
        BY <1>2, <2>3 DEF update_periods, WithPeriods, SameGuardians, VoteFields,
                          ControlFields, LiveStatus, HasStatus, OnlyTheWill
    <2>4. CASE cancel_will(id, owner)
        BY <1>2, <2>4 DEF cancel_will, SameGuardians, VoteFields, ControlFields, LiveStatus
    <2>5. CASE close_will(id, owner)
        BY <1>2, <2>5 DEF close_will, SameGuardians, VoteFields, ControlFields, LiveStatus,
                          OnlyTheWill
    <2>6. CASE check_in(id, caller)
        BY <1>2, <2>6 DEF check_in, SameGuardians, VoteFields, ControlFields, LiveStatus,
                          HasStatus, OnlyTheWill
    <2>7. CASE trigger_will(id)
        BY <1>2, <2>7 DEF trigger_will, SameGuardians, VoteFields, ControlFields, LiveStatus,
                          HasStatus
    <2> QED  BY <2>1, <2>2, <2>3, <2>4, <2>5, <2>6, <2>7
<1> QED  BY <1>1, <1>3, BallotCarriedOn, SavedCarriesOn

LEMMA BatchCheckInBallot ==
    ASSUME VoteInv, NEW owner, NEW ids \in SUBSET DOMAIN wills, batch_check_in(owner, ids)
    PROVE  VoteInv'
<1>1. /\ UNCHANGED <<now, guardian_vote, guardian_cancel_vote>>
      /\ DOMAIN wills' = DOMAIN wills
    BY DEF batch_check_in, CheckedIn, OnlyTheWill, votes
<1>2. ASSUME NEW id \in DOMAIN wills
      PROVE  Ballot(wills'[id], now, guardian_vote[id], guardian_cancel_vote[id])
    <2>1. Ballot(wills[id], now, guardian_vote[id], guardian_cancel_vote[id])
        BY DEF VoteInv
    <2>2. CASE id \in ids
        <3>1. /\ wills[id].status = "Active"
              /\ wills'[id] = [wills[id] EXCEPT !.last_checkin = now]
            BY <2>2 DEF batch_check_in, CheckedIn, HasStatus
        <3>2. SameGuardians(wills'[id], wills[id]) /\ wills'[id].status = "Active"
            BY <2>1, <3>1 DEF SameGuardians, Ballot, VoteFields
        <3> QED  BY <2>1, <3>1, <3>2, BallotCarriedOn DEF LiveStatus
    <2>3. CASE id \notin ids
        BY <2>1, <2>3 DEF batch_check_in, CheckedIn
    <2> QED  BY <2>2, <2>3
<1> QED  BY <1>1, <1>2 DEF VoteInv, NoVotes

\* While the trigger can be taken back, no counted cancel votes means no cancel
\* vote on record: the early return of reset_guardian_cancel_votes is right.
LEMMA CancelVotesReset ==
    ASSUME VoteInv, NEW id \in WillIds, NEW w, NEW records \in VoteRecords,
           Cast(records[id]) \subseteq DOMAIN w.guardians,
           w.guardian_cancel_votes = Cardinality(Cast(records[id]))
    PROVE  LET after == reset_guardian_cancel_votes(records, id, w)
           IN  /\ after \in VoteRecords
               /\ \A x \in WillIds : x # id => after[x] = records[x]
               /\ Cast(after[id]) = {}
<1>1. CASE w.guardian_cancel_votes = 0
    <2>1. Cast(records[id]) = {}
        BY <1>1, CastFinite, FS_EmptySet
    <2> QED  BY <1>1, <2>1 DEF reset_guardian_cancel_votes
<1>2. CASE w.guardian_cancel_votes # 0
    BY <1>2, ClearedVotesFact DEF reset_guardian_cancel_votes
<1> QED  BY <1>1, <1>2

\* A will put back on its clock starts without votes of either kind.
LEMMA RevivedBallot ==
    ASSUME VoteInv, NEW id \in DOMAIN wills, NEW v, NEW w, NEW records \in VoteRecords,
           now' = now,
           \A x \in WillIds : x # id => records[x] = guardian_cancel_vote[x],
           Cast(records[id]) \subseteq DOMAIN v.guardians,
           v.guardian_cancel_votes = Cardinality(Cast(records[id])),
           v.guardians = wills[id].guardians,
           VoteFields \subseteq DOMAIN w,
           w.guardians = v.guardians, w.status = "Active",
           w.guardian_cancel_votes = 0, w.guardian_cancel_vote_weight = 0,
           SaveWithVotes(id, w, reset_guardian_votes(guardian_vote, id, v),
                         reset_guardian_cancel_votes(records, id, v))
    PROVE  VoteInv'
<1> DEFINE rv == reset_guardian_votes(guardian_vote, id, v)
           cv == reset_guardian_cancel_votes(records, id, v)
<1>1. /\ id \in WillIds
      /\ guardian_vote \in VoteRecords
      /\ Ballot(wills[id], now, guardian_vote[id], guardian_cancel_vote[id])
    BY DEF VoteInv
<1>2. /\ rv \in VoteRecords
      /\ \A x \in WillIds : x # id => rv[x] = guardian_vote[x]
      /\ Cast(rv[id]) = Cast(guardian_vote[id]) \ DOMAIN v.guardians
    BY <1>1, ClearedVotesFact DEF reset_guardian_votes
<1>3. /\ cv \in VoteRecords
      /\ \A x \in WillIds : x # id => cv[x] = guardian_cancel_vote[x]
      /\ Cast(cv[id]) = {}
    BY <1>1, CancelVotesReset
<1> HIDE DEF rv, cv
<1>4. SaveWithVotes(id, w, rv, cv)
    BY DEF rv, cv
<1>5. guardian_vote' = rv /\ guardian_cancel_vote' = cv
    BY <1>1, <1>2, <1>3, <1>4, SavedAsGiven
<1>6. Cast(rv[id]) = {} /\ DOMAIN w.guardians \subseteq Accounts
    BY <1>1, <1>2 DEF Ballot
<1>7. Ballot(w, now, guardian_vote'[id], guardian_cancel_vote'[id])
    BY <1>3, <1>5, <1>6, BallotCleared
<1>8. wills' = Put(wills, id, w)
    BY <1>4 DEF SaveWithVotes
<1> QED  BY <1>1, <1>2, <1>3, <1>5, <1>7, <1>8, OneBallot

LEMMA EmergencyCheckinBallot ==
    ASSUME LifecycleInv, VoteInv, NEW id \in DOMAIN wills, NEW owner,
           emergency_checkin(id, owner)
    PROVE  VoteInv'
<1> DEFINE w == sync_primary_balance(Revived(wills[id]))
<1>1. /\ SaveWithVotes(id, w, reset_guardian_votes(guardian_vote, id, wills[id]),
                       reset_guardian_cancel_votes(guardian_cancel_vote, id, wills[id]))
      /\ wills[id].status = "Triggered"
      /\ ~(now > grace_deadline(wills[id]))
      /\ now' = now
    BY DEF emergency_checkin, HasStatus, grace_elapsed
<1>2. /\ Ballot(wills[id], now, guardian_vote[id], guardian_cancel_vote[id])
      /\ guardian_cancel_vote \in VoteRecords
    BY DEF VoteInv
<1>3. Kept(wills[id], now, id \in triggered_wills, history[id]) /\ now \in Nat
    BY DEF LifecycleInv
<1>4. InTime(wills[id], now)
    <2>1. CheckinDeadline(wills[id]) \in Nat
        BY <1>3, BoundsAssumption DEF CheckinDeadline, Kept, Shaped
    <2>2. wills[id].grace_period_days * SECONDS_PER_DAY \in Nat
        BY <1>3, BoundsAssumption DEF Kept, Shaped
    <2> QED  BY <1>1, <1>3, <2>1, <2>2 DEF InTime, Kept, grace_deadline, NoTime
<1>5. /\ Cast(guardian_cancel_vote[id]) \subseteq DOMAIN wills[id].guardians
      /\ wills[id].guardian_cancel_votes = Cardinality(Cast(guardian_cancel_vote[id]))
    BY <1>2, <1>4 DEF Ballot
<1>6. /\ VoteFields \subseteq DOMAIN w
      /\ w.guardians = wills[id].guardians
      /\ w.status = "Active"
      /\ w.guardian_cancel_votes = 0 /\ w.guardian_cancel_vote_weight = 0
    BY <1>2, <1>3 DEF sync_primary_balance, Revived, Ballot, VoteFields, Kept, Shaped,
                      ControlFields
<1> HIDE DEF w
<1> QED  BY <1>1, <1>2, <1>5, <1>6, RevivedBallot

LEMMA ReleaseBallot ==
    ASSUME LifecycleInv, VoteInv, NEW id \in DOMAIN wills, NEW keeper, NEW refused,
           release_inheritance(id, keeper, refused)
    PROVE  VoteInv'
<1> DEFINE Released(left) == [wills[id] EXCEPT !.balances = left,
                                               !.balance  = BalanceOf(left, wills[id].token),
                                               !.status   = "Released"]
<1>1. now' = now /\ \E left : save_will(id, Released(left))
    BY DEF release_inheritance, distribute, save_will
<1>2. PICK left : save_will(id, Released(left))
    BY <1>1
<1>3. Ballot(wills[id], now, guardian_vote[id], guardian_cancel_vote[id])
    BY DEF VoteInv
<1>4. ControlFields \subseteq DOMAIN wills[id]
    BY DEF LifecycleInv, Kept, Shaped
<1>5. SameGuardians(Released(left), wills[id]) /\ Released(left).status \notin LiveStatus
    BY <1>3, <1>4 DEF SameGuardians, Ballot, VoteFields, ControlFields, LiveStatus
<1> HIDE DEF Released
<1> QED  BY <1>1, <1>2, <1>3, <1>5, BallotCarriedOn, SavedCarriesOn

\* Time only closes windows.
LEMMA TickBallot ==
    ASSUME LifecycleInv, VoteInv, Tick
    PROVE  VoteInv'
<1>1. /\ now' = now + 1 /\ now \in Nat
      /\ UNCHANGED <<wills, guardian_vote, guardian_cancel_vote>>
    BY DEF Tick, votes, LifecycleInv
<1>2. ASSUME NEW id \in DOMAIN wills
      PROVE  Ballot(wills[id], now + 1, guardian_vote[id], guardian_cancel_vote[id])
    <2>1. /\ Ballot(wills[id], now, guardian_vote[id], guardian_cancel_vote[id])
          /\ id \in WillIds /\ guardian_cancel_vote \in VoteRecords
        BY DEF VoteInv
    <2>2. Shaped(wills[id])
        BY DEF LifecycleInv, Kept
    <2>3. wills[id].grace_period_days * SECONDS_PER_DAY \in Nat
        BY <2>2, BoundsAssumption DEF Shaped
    <2>4. InTime(wills[id], now + 1) => InTime(wills[id], now)
        BY <1>1, <2>2, <2>3 DEF InTime, Shaped, OptionalTime, NoTime
    <2>5. \A a \in Cast(guardian_cancel_vote[id]) : guardian_cancel_vote[id][a] \in Int
        BY <2>1 DEF Cast, VoteRecords, OptionalTime, NoTime
    <2>6. \A a \in Cast(guardian_cancel_vote[id]) :
            guardian_cancel_vote[id][a] <= now => guardian_cancel_vote[id][a] <= now + 1
        BY <1>1, <2>5
    <2> QED  BY <2>1, <2>4, <2>6 DEF Ballot
<1> QED  BY <1>1, <1>2 DEF VoteInv, NoVotes

----------------------------------------------------------------------------
(* The guardians *)

LEMMA GuardianTriggerBallot ==
    ASSUME LifecycleInv, VoteInv, NEW id \in DOMAIN wills, NEW guardian \in Accounts,
           NEW refused, guardian_trigger(id, guardian, refused)
    PROVE  VoteInv'
<1> DEFINE records == [guardian_vote EXCEPT ![id][guardian] = now]
           w       == Tallied(id, wills[id], records)
           Released(left) == [w EXCEPT !.balances = left,
                                       !.balance  = BalanceOf(left, w.token),
                                       !.status   = "Released"]
<1>1. /\ \/ SaveWithVotes(id, w, records, guardian_cancel_vote)
         \/ \E left : SaveWithVotes(id, Released(left), records, guardian_cancel_vote)
      /\ now' = now
      /\ MayVote(wills[id], guardian)
      /\ wills[id].status = "Active"
    BY DEF guardian_trigger, distribute, HasStatus, OnlyTheWill
<1>2. /\ id \in WillIds
      /\ guardian_vote \in VoteRecords /\ guardian_cancel_vote \in VoteRecords
      /\ Ballot(wills[id], now, guardian_vote[id], guardian_cancel_vote[id])
    BY DEF VoteInv
<1>3. now \in Nat /\ ControlFields \subseteq DOMAIN wills[id]
    BY DEF LifecycleInv, Kept, Shaped
<1>4. /\ records \in VoteRecords
      /\ \A x \in WillIds : x # id => records[x] = guardian_vote[x]
      /\ \A a \in Accounts : records[id][a] = IF a = guardian THEN now ELSE guardian_vote[id][a]
      /\ Cast(records[id]) = Cast(guardian_vote[id]) \cup {guardian}
    BY <1>2, <1>3, VoteCast
<1>5. guardian \in DOMAIN wills[id].guardians /\ now >= SettledAt(wills[id])
    BY <1>1 DEF MayVote, CooledDown, SettledAt
<1> HIDE DEF records
<1>6. Ballot(wills[id], now, records[id], guardian_cancel_vote[id])
    <2>1. \A a \in Cast(records[id]) : records[id][a] >= SettledAt(wills[id])
        BY <1>2, <1>4, <1>5 DEF Ballot, Cast
    <2> QED  BY <1>2, <1>4, <1>5, <2>1 DEF Ballot
<1>7. SameGuardians(w, wills[id]) /\ w.status = "Active" /\ ControlFields \subseteq DOMAIN w
    BY <1>1, <1>2, <1>3 DEF Tallied, SameGuardians, Ballot, VoteFields, ControlFields
<1> HIDE DEF w
<1>8. Ballot(w, now, records[id], guardian_cancel_vote[id])
    BY <1>1, <1>6, <1>7, BallotCarriedOn DEF LiveStatus
<1>9. ASSUME NEW saved, SaveWithVotes(id, saved, records, guardian_cancel_vote),
             saved.guardians = w.guardians,
             Ballot(saved, now, records[id], guardian_cancel_vote[id])
      PROVE  VoteInv'
    <2>1. guardian_vote' = records /\ guardian_cancel_vote' = guardian_cancel_vote
        BY <1>2, <1>4, <1>7, <1>9, SavedAsGiven DEF SameGuardians
    <2>2. wills' = Put(wills, id, saved)
        BY <1>9 DEF SaveWithVotes
    <2> QED  BY <1>1, <1>2, <1>4, <1>9, <2>1, <2>2, OneBallot
<1>10. CASE SaveWithVotes(id, w, records, guardian_cancel_vote)
    BY <1>8, <1>9, <1>10
<1>11. ASSUME NEW left, SaveWithVotes(id, Released(left), records, guardian_cancel_vote)
       PROVE  VoteInv'
    <2>1. /\ SameGuardians(Released(left), w)
          /\ Released(left).status \notin LiveStatus
        BY <1>7 DEF SameGuardians, VoteFields, ControlFields, LiveStatus
    <2> HIDE DEF Released
    <2>2. Ballot(Released(left), now, records[id], guardian_cancel_vote[id])
        BY <1>8, <2>1, BallotCarriedOn
    <2> QED  BY <1>9, <1>11, <2>1, <2>2 DEF SameGuardians
<1> QED  BY <1>1, <1>10, <1>11

\* In time, the recount of the cancel votes counts every vote on record: none of
\* them can have expired, and none comes from a guardian who declined.
LEMMA AllCancelVotesCount ==
    ASSUME LifecycleInv, NEW id \in DOMAIN wills, NEW records,
           DOMAIN wills[id].guardians \subseteq Accounts,
           Cast(records[id]) \subseteq DOMAIN wills[id].guardians,
           InTime(wills[id], now),
           \A a \in Cast(records[id]) : /\ records[id][a] \in Nat
                                        /\ wills[id].trigger_time <= records[id][a]
                                        /\ records[id][a] <= now
                                        /\ wills[id].guardians[a].consent = "Accepted"
    PROVE  Counted(id, wills[id], records) = Cast(records[id])
<1>1. Kept(wills[id], now, id \in triggered_wills, history[id]) /\ now \in Nat
    BY DEF LifecycleInv
<1>2. /\ wills[id].trigger_time \in Int
      /\ wills[id].grace_period_days * SECONDS_PER_DAY \in Nat
    BY <1>1, BoundsAssumption DEF Kept, Shaped, OptionalTime, NoTime
<1>3. ASSUME NEW a \in Cast(records[id])
      PROVE  has_voted(records, id, a, wills[id].grace_period_days)
    BY <1>1, <1>2 DEF has_voted, VoteIsLive, InTime, Cast
<1>4. ASSUME NEW a \in DOMAIN wills[id].guardians,
             has_voted(records, id, a, wills[id].grace_period_days)
      PROVE  a \in Cast(records[id])
    BY <1>4 DEF has_voted, VoteIsLive, Cast
<1> QED  BY <1>3, <1>4 DEF Counted

LEMMA GuardianCancelBallot ==
    ASSUME LifecycleInv, VoteInv, NEW id \in DOMAIN wills, NEW guardian \in Accounts,
           guardian_cancel_trigger(id, guardian)
    PROVE  VoteInv'
<1> DEFINE records == [guardian_cancel_vote EXCEPT ![id][guardian] = now]
           w       == CancelTallied(id, wills[id], records)
<1>1. /\ \/ SaveWithVotes(id, Revived(w), reset_guardian_votes(guardian_vote, id, w),
                          reset_guardian_cancel_votes(records, id, w))
         \/ SaveWithVotes(id, w, guardian_vote, records)
      /\ now' = now
      /\ MayVote(wills[id], guardian)
      /\ wills[id].status = "Triggered"
      /\ now <= TriggerTimeOrZero(wills[id]) + wills[id].grace_period_days * SECONDS_PER_DAY
    BY DEF guardian_cancel_trigger, HasStatus, OnlyTheWill
<1>2. /\ id \in WillIds
      /\ guardian_vote \in VoteRecords /\ guardian_cancel_vote \in VoteRecords
      /\ Ballot(wills[id], now, guardian_vote[id], guardian_cancel_vote[id])
    BY DEF VoteInv
<1>3. Kept(wills[id], now, id \in triggered_wills, history[id]) /\ now \in Nat
    BY DEF LifecycleInv
<1>4. /\ records \in VoteRecords
      /\ \A x \in WillIds : x # id => records[x] = guardian_cancel_vote[x]
      /\ \A a \in Accounts :
            records[id][a] = IF a = guardian THEN now ELSE guardian_cancel_vote[id][a]
      /\ Cast(records[id]) = Cast(guardian_cancel_vote[id]) \cup {guardian}
    BY <1>2, <1>3, VoteCast
<1>5. /\ guardian \in DOMAIN wills[id].guardians
      /\ wills[id].guardians[guardian].consent = "Accepted"
      /\ now >= SettledAt(wills[id])
    BY <1>1 DEF MayVote, CooledDown, SettledAt
<1>6. InTime(wills[id], now) /\ wills[id].trigger_time <= now
    <2>1. CheckinDeadline(wills[id]) \in Nat
        BY <1>3, BoundsAssumption DEF CheckinDeadline, Kept, Shaped
    <2> QED  BY <1>1, <1>3, <2>1 DEF InTime, Kept, TriggerTimeOrZero, NoTime
<1> HIDE DEF records
<1>7. \A a \in Cast(records[id]) : /\ records[id][a] \in Nat
                                   /\ wills[id].trigger_time <= records[id][a]
                                   /\ records[id][a] <= now
                                   /\ wills[id].guardians[a].consent = "Accepted"
                                   /\ records[id][a] >= SettledAt(wills[id])
    <2>1. ASSUME NEW a \in Cast(records[id])
          PROVE  /\ wills[id].trigger_time <= records[id][a]
                 /\ records[id][a] <= now
                 /\ wills[id].guardians[a].consent = "Accepted"
                 /\ records[id][a] >= SettledAt(wills[id])
        <3>1. CASE a = guardian
            BY <1>3, <1>4, <1>5, <1>6, <3>1
        <3>2. CASE a # guardian
            BY <1>2, <1>4, <1>6, <3>2 DEF Ballot, Cast
        <3> QED  BY <3>1, <3>2
    <2>2. \A a \in Cast(records[id]) : records[id][a] \in Nat
        BY <1>2, <1>4 DEF Cast, VoteRecords, OptionalTime
    <2> QED  BY <2>1, <2>2
<1>8. /\ DOMAIN wills[id].guardians \subseteq Accounts
      /\ Cast(records[id]) \subseteq DOMAIN wills[id].guardians
    BY <1>2, <1>4, <1>5 DEF Ballot
<1>9. Counted(id, wills[id], records) = Cast(records[id])
    BY <1>6, <1>7, <1>8, AllCancelVotesCount
<1>10. /\ VoteFields \cup ControlFields \subseteq DOMAIN w
       /\ w.guardians = wills[id].guardians
       /\ w.guardian_list_updated_at = wills[id].guardian_list_updated_at
       /\ w.status = "Triggered"
       /\ w.trigger_time = wills[id].trigger_time
       /\ w.grace_period_days = wills[id].grace_period_days
       /\ w.guardian_cancel_votes = Cardinality(Cast(records[id]))
    BY <1>1, <1>2, <1>3, <1>9
       DEF CancelTallied, Ballot, VoteFields, Kept, Shaped, ControlFields
<1> HIDE DEF w
<1>11. CASE SaveWithVotes(id, w, guardian_vote, records)
    <2>1. guardian_vote' = guardian_vote /\ guardian_cancel_vote' = records
        BY <1>2, <1>4, <1>10, <1>11, SavedAsGiven
    <2>2. Ballot(w, now, guardian_vote[id], records[id])
        BY <1>2, <1>7, <1>8, <1>10 DEF Ballot, InTime, SettledAt
    <2>3. wills' = Put(wills, id, w)
        BY <1>11 DEF SaveWithVotes
    <2> QED  BY <1>1, <1>2, <1>4, <2>1, <2>2, <2>3, OneBallot
<1>12. CASE SaveWithVotes(id, Revived(w), reset_guardian_votes(guardian_vote, id, w),
                          reset_guardian_cancel_votes(records, id, w))
    <2>1. /\ VoteFields \subseteq DOMAIN Revived(w)
          /\ Revived(w).guardians = w.guardians
          /\ Revived(w).status = "Active"
          /\ Revived(w).guardian_cancel_votes = 0
          /\ Revived(w).guardian_cancel_vote_weight = 0
        BY <1>10 DEF Revived, VoteFields, ControlFields
    <2> QED  BY <1>1, <1>4, <1>8, <1>10, <1>12, <2>1, RevivedBallot
<1> QED  BY <1>1, <1>11, <1>12

LEMMA AcceptBallot ==
    ASSUME VoteInv, NEW id \in DOMAIN wills, NEW guardian, accept_guardian_role(id, guardian)
    PROVE  VoteInv'
<1> DEFINE w == [wills[id] EXCEPT !.guardians[guardian].consent = "Accepted"]
<1>1. /\ save_will(id, w) /\ now' = now
      /\ wills[id].guardians[guardian].consent = "Pending"
    BY DEF accept_guardian_role, OnlyTheWill
<1>2. /\ id \in WillIds
      /\ guardian_vote \in VoteRecords /\ guardian_cancel_vote \in VoteRecords
      /\ Ballot(wills[id], now, guardian_vote[id], guardian_cancel_vote[id])
    BY DEF VoteInv
<1>3. /\ VoteFields \subseteq DOMAIN w
      /\ DOMAIN w.guardians = DOMAIN wills[id].guardians
      /\ \A a \in DOMAIN w.guardians :
            a # guardian => w.guardians[a] = wills[id].guardians[a]
      /\ \A f \in DOMAIN w : f # "guardians" => w[f] = wills[id][f]
    BY <1>2 DEF Ballot, VoteFields
<1>4. /\ w.guardian_list_updated_at = wills[id].guardian_list_updated_at
      /\ w.guardian_cancel_votes = wills[id].guardian_cancel_votes
      /\ w.guardian_cancel_vote_weight = wills[id].guardian_cancel_vote_weight
      /\ w.status = wills[id].status
      /\ w.trigger_time = wills[id].trigger_time
      /\ w.grace_period_days = wills[id].grace_period_days
    OBVIOUS
<1> HIDE DEF w
<1>5. InTime(w, now) => \A a \in Cast(guardian_cancel_vote[id]) :
                                w.guardians[a].consent = "Accepted"
    BY <1>1, <1>2, <1>3, <1>4 DEF Ballot, InTime
<1>6. Ballot(w, now, guardian_vote[id], guardian_cancel_vote[id])
    BY <1>2, <1>3, <1>4, <1>5 DEF Ballot, InTime, SettledAt
<1>7. guardian_vote' = guardian_vote /\ guardian_cancel_vote' = guardian_cancel_vote
    BY <1>1, <1>2, <1>3, SavedAsGiven DEF save_will
<1>8. wills' = Put(wills, id, w)
    BY <1>1 DEF save_will, SaveWithVotes
<1> QED  BY <1>1, <1>2, <1>6, <1>7, <1>8, OneBallot

\* A will whose guardians are replaced starts without votes of either kind.
LEMMA NewListBallot ==
    ASSUME VoteInv, NEW id \in DOMAIN wills, NEW w,
           wills[id].status = "Active",
           now' = now,
           VoteFields \subseteq DOMAIN w, w.status = "Active",
           DOMAIN w.guardians \subseteq Accounts,
           w.guardian_cancel_votes = 0, w.guardian_cancel_vote_weight = 0,
           SaveWithVotes(id, w, reset_guardian_votes(guardian_vote, id, wills[id]),
                         reset_guardian_cancel_votes(guardian_cancel_vote, id, wills[id]))
    PROVE  VoteInv'
<1> DEFINE rv == reset_guardian_votes(guardian_vote, id, wills[id])
           cv == reset_guardian_cancel_votes(guardian_cancel_vote, id, wills[id])
           gone == Departed(id, w)
<1>1. SaveWithVotes(id, w, rv, cv)
    OBVIOUS
<1>2. /\ id \in WillIds
      /\ guardian_vote \in VoteRecords /\ guardian_cancel_vote \in VoteRecords
      /\ Ballot(wills[id], now, guardian_vote[id], guardian_cancel_vote[id])
    BY DEF VoteInv
<1>3. /\ rv \in VoteRecords
      /\ \A x \in WillIds : x # id => rv[x] = guardian_vote[x]
      /\ Cast(rv[id]) = {}
    BY <1>2, ClearedVotesFact DEF reset_guardian_votes, Ballot
<1>4. /\ cv \in VoteRecords
      /\ \A x \in WillIds : x # id => cv[x] = guardian_cancel_vote[x]
      /\ Cast(cv[id]) = {}
    BY <1>2, ClearedVotesFact DEF reset_guardian_cancel_votes, Ballot
<1>5. /\ wills' = Put(wills, id, w)
      /\ guardian_vote' = ClearedVotes(rv, id, gone)
      /\ guardian_cancel_vote' = ClearedVotes(cv, id, gone)
    BY <1>1 DEF SaveWithVotes
<1> HIDE DEF rv, cv, gone
<1>6. /\ guardian_vote' \in VoteRecords /\ guardian_cancel_vote' \in VoteRecords
      /\ \A x \in WillIds : x # id => /\ guardian_vote'[x] = guardian_vote[x]
                                      /\ guardian_cancel_vote'[x] = guardian_cancel_vote[x]
      /\ Cast(guardian_vote'[id]) = {} /\ Cast(guardian_cancel_vote'[id]) = {}
    <2>1. /\ ClearedVotes(rv, id, gone) \in VoteRecords
          /\ \A x \in WillIds : x # id => ClearedVotes(rv, id, gone)[x] = rv[x]
          /\ Cast(ClearedVotes(rv, id, gone)[id]) = Cast(rv[id]) \ gone
        <3>1. rv \in VoteRecords
            BY <1>3
        <3> QED  BY <1>2, <3>1, ClearedVotesFact
    <2>2. /\ ClearedVotes(cv, id, gone) \in VoteRecords
          /\ \A x \in WillIds : x # id => ClearedVotes(cv, id, gone)[x] = cv[x]
          /\ Cast(ClearedVotes(cv, id, gone)[id]) = Cast(cv[id]) \ gone
        <3>1. cv \in VoteRecords
            BY <1>4
        <3> QED  BY <1>2, <3>1, ClearedVotesFact
    <2> QED  BY <1>3, <1>4, <1>5, <2>1, <2>2
<1>7. Ballot(w, now, guardian_vote'[id], guardian_cancel_vote'[id])
    BY <1>6, BallotCleared
<1> QED  BY <1>2, <1>5, <1>6, <1>7, OneBallot

LEMMA ReplaceBallot ==
    ASSUME VoteInv, NEW id \in DOMAIN wills, NEW guardians, NEW threshold,
           DOMAIN guardians \subseteq Accounts,
           wills[id].status = "Active",
           ReplaceGuardians(id, guardians, threshold)
    PROVE  VoteInv'
<1> DEFINE w == WithGuardians(wills[id], guardians, threshold)
<1>1. /\ SaveWithVotes(id, w, reset_guardian_votes(guardian_vote, id, wills[id]),
                       reset_guardian_cancel_votes(guardian_cancel_vote, id, wills[id]))
      /\ now' = now
    BY DEF ReplaceGuardians, OnlyTheWill
<1>2. VoteFields \subseteq DOMAIN wills[id]
    BY DEF VoteInv, Ballot
<1>3. /\ VoteFields \subseteq DOMAIN w
      /\ w.guardians = guardians
      /\ w.status = "Active"
      /\ w.guardian_cancel_votes = 0 /\ w.guardian_cancel_vote_weight = 0
    BY <1>2 DEF WithGuardians, VoteFields
<1> HIDE DEF w
<1> QED  BY <1>1, <1>3, NewListBallot

\* What is left on record when a guardian declines: its vote goes if it is live.
LEMMA WithdrawnVoteFact ==
    ASSUME NEW records \in VoteRecords, NEW id \in WillIds, NEW guardian
    PROVE  /\ WithdrawnVote(records, id, guardian) \in VoteRecords
           /\ \A x \in WillIds : x # id => WithdrawnVote(records, id, guardian)[x] = records[x]
           /\ \A a \in Accounts : WithdrawnVote(records, id, guardian)[id][a]
                = IF a = guardian /\ has_voted(records, id, guardian, wills[id].grace_period_days)
                  THEN NoTime ELSE records[id][a]
<1>1. CASE has_voted(records, id, guardian, wills[id].grace_period_days)
    <2>1. WithdrawnVote(records, id, guardian) = ClearedVotes(records, id, {guardian})
        BY <1>1 DEF WithdrawnVote
    <2> QED  BY <1>1, <2>1, ClearedVotesFact
<1>2. CASE ~has_voted(records, id, guardian, wills[id].grace_period_days)
    BY <1>2 DEF WithdrawnVote
<1> QED  BY <1>1, <1>2

LEMMA RejectBallot ==
    ASSUME LifecycleInv, VoteInv, NEW id \in DOMAIN wills, NEW guardian \in Accounts,
           reject_guardian_role(id, guardian)
    PROVE  VoteInv'
<1> DEFINE w  == Withdrawn(id, wills[id], guardian)
           rv == WithdrawnVote(guardian_vote, id, guardian)
           cv == WithdrawnVote(guardian_cancel_vote, id, guardian)
           live == has_voted(guardian_cancel_vote, id, guardian, wills[id].grace_period_days)
           gone == IF live THEN {guardian} ELSE {}
<1>1. SaveWithVotes(id, w, rv, cv) /\ now' = now
    BY DEF reject_guardian_role, OnlyTheWill
<1>2. /\ id \in WillIds
      /\ guardian_vote \in VoteRecords /\ guardian_cancel_vote \in VoteRecords
      /\ Ballot(wills[id], now, guardian_vote[id], guardian_cancel_vote[id])
    BY DEF VoteInv
<1>3. Kept(wills[id], now, id \in triggered_wills, history[id]) /\ now \in Nat
    BY DEF LifecycleInv
<1>4. /\ VoteFields \subseteq DOMAIN w
      /\ DOMAIN w.guardians = DOMAIN wills[id].guardians
      /\ \A a \in DOMAIN w.guardians :
            a # guardian => w.guardians[a] = wills[id].guardians[a]
    BY <1>2 DEF Withdrawn, Ballot, VoteFields
<1>5. /\ w.guardian_list_updated_at = wills[id].guardian_list_updated_at
      /\ w.status = wills[id].status
      /\ w.trigger_time = wills[id].trigger_time
      /\ w.grace_period_days = wills[id].grace_period_days
    BY DEF Withdrawn
<1>6. /\ live => /\ w.guardian_cancel_votes = SaturatingSub(wills[id].guardian_cancel_votes, 1)
                 /\ w.guardian_cancel_vote_weight
                        = SaturatingSub(wills[id].guardian_cancel_vote_weight,
                                        wills[id].guardians[guardian].weight)
      /\ ~live => /\ w.guardian_cancel_votes = wills[id].guardian_cancel_votes
                  /\ w.guardian_cancel_vote_weight = wills[id].guardian_cancel_vote_weight
    BY <1>2 DEF Withdrawn, Ballot, VoteFields
<1>7. /\ rv \in VoteRecords
      /\ \A x \in WillIds : x # id => rv[x] = guardian_vote[x]
      /\ Cast(rv[id]) \subseteq Cast(guardian_vote[id])
      /\ \A a \in Cast(rv[id]) : rv[id][a] = guardian_vote[id][a]
    <2>1. /\ rv \in VoteRecords
          /\ \A x \in WillIds : x # id => rv[x] = guardian_vote[x]
          /\ \A a \in Accounts : rv[id][a] \in {NoTime, guardian_vote[id][a]}
        BY <1>2, WithdrawnVoteFact
    <2> QED  BY <2>1 DEF Cast
<1>8. /\ cv \in VoteRecords
      /\ \A x \in WillIds : x # id => cv[x] = guardian_cancel_vote[x]
      /\ Cast(cv[id]) = Cast(guardian_cancel_vote[id]) \ gone
      /\ \A a \in Cast(cv[id]) : cv[id][a] = guardian_cancel_vote[id][a]
    <2>1. /\ cv \in VoteRecords
          /\ \A x \in WillIds : x # id => cv[x] = guardian_cancel_vote[x]
          /\ \A a \in Accounts : cv[id][a] = IF a = guardian /\ live THEN NoTime
                                             ELSE guardian_cancel_vote[id][a]
        BY <1>2, WithdrawnVoteFact
    <2> HIDE DEF cv, live
    <2> QED  BY <2>1 DEF Cast
<1>9. live => guardian \in Cast(guardian_cancel_vote[id])
    BY DEF has_voted, VoteIsLive, Cast
<1>10. /\ wills[id].trigger_time \in Int
       /\ wills[id].grace_period_days * SECONDS_PER_DAY \in Nat
    BY <1>3, BoundsAssumption DEF Kept, Shaped, OptionalTime, NoTime
<1>11. InTime(wills[id], now) /\ guardian \in Cast(guardian_cancel_vote[id]) => live
    <2> SUFFICES ASSUME InTime(wills[id], now), guardian \in Cast(guardian_cancel_vote[id])
                 PROVE  live
        OBVIOUS
    <2>1. guardian_cancel_vote[id][guardian] \in Int
        BY <1>2 DEF VoteRecords, OptionalTime, NoTime
    <2> QED  BY <1>2, <1>3, <1>10, <2>1 DEF has_voted, VoteIsLive, InTime, Ballot, Cast
<1> HIDE DEF w, rv, cv, live
<1>12. w.status \in {"PendingConfirmation", "Active"} =>
            /\ Cast(cv[id]) = {}
            /\ w.guardian_cancel_votes = 0
            /\ w.guardian_cancel_vote_weight = 0
    BY <1>2, <1>5, <1>6, <1>8, <1>9 DEF Ballot
<1>13. ASSUME InTime(w, now)
       PROVE  /\ \A a \in Cast(cv[id]) : /\ w.trigger_time <= cv[id][a]
                                         /\ cv[id][a] <= now
                                         /\ w.guardians[a].consent = "Accepted"
              /\ w.guardian_cancel_votes = Cardinality(Cast(cv[id]))
    <2>1. /\ InTime(wills[id], now)
          /\ wills[id].guardian_cancel_votes = Cardinality(Cast(guardian_cancel_vote[id]))
        BY <1>2, <1>5, <1>13 DEF InTime, Ballot
    <2>2. guardian \notin Cast(cv[id])
        BY <1>8, <1>11, <2>1
    <2>3. \A a \in Cast(cv[id]) : /\ w.trigger_time <= cv[id][a]
                                  /\ cv[id][a] <= now
                                  /\ w.guardians[a].consent = "Accepted"
        BY <1>2, <1>4, <1>5, <1>8, <2>1, <2>2 DEF Ballot
    <2>4. CASE live
        <3>1. /\ IsFiniteSet(Cast(guardian_cancel_vote[id]))
              /\ guardian \in Cast(guardian_cancel_vote[id])
            BY <1>9, <2>4, CastFinite
        <3>2. Cardinality(Cast(guardian_cancel_vote[id]) \ {guardian})
                = Cardinality(Cast(guardian_cancel_vote[id])) - 1
            BY <3>1, FS_RemoveElement
        <3>3. /\ Cardinality(Cast(guardian_cancel_vote[id])) \in Nat
              /\ Cardinality(Cast(guardian_cancel_vote[id])) # 0
            BY <3>1, FS_CardinalityType, FS_EmptySet
        <3>4. Cast(cv[id]) = Cast(guardian_cancel_vote[id]) \ {guardian}
            BY <1>8, <2>4
        <3> QED  BY <1>6, <2>1, <2>3, <2>4, <3>2, <3>3, <3>4 DEF SaturatingSub
    <2>5. CASE ~live
        <3>1. Cast(cv[id]) = Cast(guardian_cancel_vote[id])
            BY <1>8, <2>5
        <3> QED  BY <1>6, <2>1, <2>3, <2>5, <3>1
    <2> QED  BY <2>4, <2>5
<1>14. Ballot(w, now, rv[id], cv[id])
    <2>1. /\ Cast(rv[id]) \subseteq DOMAIN w.guardians
          /\ Cast(cv[id]) \subseteq DOMAIN w.guardians
          /\ DOMAIN w.guardians \subseteq Accounts
        BY <1>2, <1>4, <1>7, <1>8 DEF Ballot
    <2>2. /\ \A a \in Cast(rv[id]) : rv[id][a] >= SettledAt(w)
          /\ \A a \in Cast(cv[id]) : cv[id][a] >= SettledAt(w)
        BY <1>2, <1>5, <1>7, <1>8 DEF Ballot, SettledAt
    <2> QED  BY <1>4, <1>12, <1>13, <2>1, <2>2 DEF Ballot
<1>15. guardian_vote' = rv /\ guardian_cancel_vote' = cv
    BY <1>1, <1>2, <1>4, <1>7, <1>8, SavedAsGiven
<1>16. wills' = Put(wills, id, w)
    BY <1>1 DEF SaveWithVotes
<1> QED  BY <1>1, <1>2, <1>7, <1>8, <1>14, <1>15, <1>16, OneBallot

LEMMA AppointBallot ==
    ASSUME VoteInv, AppointNext
    PROVE  VoteInv'
<1>1. ASSUME NEW id \in DOMAIN wills, NEW owner \in Accounts, NEW list \in GuardianLists,
             update_guardians(id, owner, list)
      PROVE  VoteInv'
    <2>1. DOMAIN UnweightedGuardians(list) \subseteq Accounts
        BY GuardianInputsAssumption DEF UnweightedGuardians, ToSet
    <2>2. /\ wills[id].status = "Active"
          /\ ReplaceGuardians(id, UnweightedGuardians(list), wills[id].guardian_threshold)
        BY <1>1 DEF update_guardians, HasStatus
    <2> QED  BY <2>1, <2>2, ReplaceBallot
<1>2. ASSUME NEW id \in DOMAIN wills, NEW owner \in Accounts, NEW given \in WeightedLists,
             update_guardians_weighted(id, owner, given.guardians, given.threshold)
      PROVE  VoteInv'
    <2>1. given.guardians \in Seq(Accounts \X Nat)
        BY GuardianInputsAssumption
    <2>2. \A i \in DOMAIN given.guardians : given.guardians[i] \in Accounts \X Nat
        BY <2>1
    <2>3. DOMAIN GuardianWeights(given.guardians) \subseteq Accounts
        BY <2>2 DEF GuardianWeights, GuardianNames, ToSet
    <2>4. /\ wills[id].status = "Active"
          /\ \E threshold : ReplaceGuardians(id, GuardianWeights(given.guardians), threshold)
        BY <1>2 DEF update_guardians_weighted, HasStatus
    <2> QED  BY <2>3, <2>4, ReplaceBallot
<1> QED  BY <1>1, <1>2 DEF AppointNext

----------------------------------------------------------------------------
(* All calls together *)

LEMMA NobodyHasVoted == LifecycleInit => VoteInv
<1> SUFFICES ASSUME LifecycleInit
             PROVE  VoteInv
    OBVIOUS
<1>1. /\ guardian_vote = [id \in WillIds |-> [a \in Accounts |-> NoTime]]
      /\ guardian_cancel_vote = [id \in WillIds |-> [a \in Accounts |-> NoTime]]
      /\ DOMAIN wills = {}
    BY DEF LifecycleInit, StorageInit, NoRecords
<1> QED  BY <1>1 DEF VoteInv, VoteRecords, OptionalTime, NoVotes, Cast

LEMMA VotesKept == LifecycleInv /\ VoteInv /\ [QuorumNext]_vars => VoteInv'
<1> SUFFICES ASSUME LifecycleInv, VoteInv, [QuorumNext]_vars
             PROVE  VoteInv'
    OBVIOUS
<1>1. CASE OwnerNext
    BY <1>1, CreateBallot, RewriteBallot, EmergencyCheckinBallot DEF OwnerNext
<1>2. CASE \E ids \in SUBSET DOMAIN wills : SignOfLife(ids)
    BY <1>2, RewriteBallot, BatchCheckInBallot DEF SignOfLife
<1>3. CASE AnyoneNext
    BY <1>3, RewriteBallot, ReleaseBallot DEF AnyoneNext
<1>4. CASE Tick
    BY <1>4, TickBallot
<1>5. CASE GuardianNext
    BY <1>5, GuardianTriggerBallot, GuardianCancelBallot, AcceptBallot, RejectBallot
       DEF GuardianNext
<1>6. CASE AppointNext
    BY <1>6, AppointBallot
<1>7. CASE UNCHANGED vars
    BY <1>7 DEF vars, votes, VoteInv, NoVotes
<1> QED  BY <1>1, <1>2, <1>3, <1>4, <1>5, <1>6, <1>7 DEF QuorumNext, LifecycleNext

\* Whatever the owner, the guardians and the keepers do and in whatever order,
\* the vote records are those the list, the cooldown and the round allow.
THEOREM VotesHold == QuorumSpec => []VoteInv
BY NobodyHasVoted, VotesKept, QuorumInvariantHolds, PTL DEF QuorumSpec

\* Only guardians on the current list have votes on record: replacing a list
\* (update_guardians) leaves none behind that a later one could revive.
THEOREM OnlyGuardiansVote == QuorumSpec => []VotesOfGuardiansOnly
<1>1. VoteInv => VotesOfGuardiansOnly
    BY DEF VoteInv, Ballot, NoVotes, Cast, VotesOfGuardiansOnly, Voted
<1> QED  BY <1>1, VotesHold, PTL

\* No vote on record was cast before the current list had been in place for the
\* cooldown that guardian_trigger and guardian_cancel_trigger enforce.
THEOREM VotesWaitForCooldown == QuorumSpec => []VotesPostdateCooldown
<1>1. VoteInv => VotesPostdateCooldown
    BY DEF VoteInv, Ballot, SettledAt, Cast, VotesPostdateCooldown, Voted
<1> QED  BY <1>1, VotesHold, PTL

\* A new trigger starts without cancel votes: reset_guardian_cancel_votes, which
\* does nothing when the count is zero, never leaves one behind on a will that is
\* put back on its clock.
THEOREM CancelRoundsAreFresh == QuorumSpec => []CancelRoundsStartEmpty
<1>1. VoteInv => CancelRoundsStartEmpty
    BY DEF VoteInv, Ballot, Cast, CancelRoundsStartEmpty, Voted,
           assert_no_guardian_cancel_in_flight
<1> QED  BY <1>1, VotesHold, PTL

----------------------------------------------------------------------------
(* The whole contract *)

\* A step that opens, rewrites or removes any number of wills.
LEMMA EachBallot ==
    ASSUME VoteInv, now' = now,
           guardian_vote' \in VoteRecords, guardian_cancel_vote' \in VoteRecords,
           DOMAIN wills' \subseteq WillIds,
           \A id \in DOMAIN wills' :
                Ballot(wills'[id], now, guardian_vote'[id], guardian_cancel_vote'[id]),
           \A id \in WillIds \ DOMAIN wills' : NoVotes(id)'
    PROVE  VoteInv'
BY DEF VoteInv

\* An entry point that saves a will with the same guardians on the same clock.
LEMMA SameBallot ==
    ASSUME VoteInv, NEW id \in DOMAIN wills, NEW w,
           save_will(id, w), now' = now,
           SameGuardians(w, wills[id]),
           w.status = wills[id].status,
           w.trigger_time = wills[id].trigger_time,
           w.grace_period_days = wills[id].grace_period_days
    PROVE  VoteInv'
<1>1. Ballot(wills[id], now, guardian_vote[id], guardian_cancel_vote[id])
    BY DEF VoteInv
<1>2. Ballot(w, now, guardian_vote[id], guardian_cancel_vote[id])
    BY <1>1 DEF Ballot, InTime, SettledAt, SameGuardians
<1> QED  BY <1>2, SavedCarriesOn

----------------------------------------------------------------------------
(* Funds, heirs, settings *)

LEMMA EstateBallot ==
    ASSUME LifecycleInv, VoteInv, NEW id \in DOMAIN wills, NEW owner,
           \/ \E t, amount : top_up(id, owner, t, amount)
           \/ \E list : update_beneficiaries(id, owner, list)
           \/ \E heir : renounce_beneficiary(id, heir)
           \/ \E h : add_hashed_beneficiary(id, owner, h)
           \/ \E claimant, salt : reveal_and_claim(id, claimant, salt)
    PROVE  VoteInv'
<1>1. VoteFields \cup ControlFields \subseteq DOMAIN wills[id]
    BY DEF VoteInv, Ballot, LifecycleInv, Kept, Shaped
<1>2. \E w : /\ save_will(id, w)
             /\ now' = now
             /\ SameGuardians(w, wills[id])
             /\ w.status = wills[id].status
             /\ w.trigger_time = wills[id].trigger_time
             /\ w.grace_period_days = wills[id].grace_period_days
    <2>1. CASE \E t, amount : top_up(id, owner, t, amount)
        <3>1. PICK balances :
                save_will(id, sync_primary_balance([wills[id] EXCEPT !.balances = balances]))
            BY <2>1 DEF top_up
        <3> DEFINE w == sync_primary_balance([wills[id] EXCEPT !.balances = balances])
        <3>2. /\ SameGuardians(w, wills[id])
              /\ w.status = wills[id].status
              /\ w.trigger_time = wills[id].trigger_time
              /\ w.grace_period_days = wills[id].grace_period_days
            BY <1>1 DEF sync_primary_balance, SameGuardians, VoteFields, ControlFields
        <3>3. now' = now
            BY <2>1 DEF top_up
        <3> HIDE DEF w
        <3> QED  BY <3>1, <3>2, <3>3 DEF w
    <2>2. CASE \E list : update_beneficiaries(id, owner, list)
        BY <1>1, <2>2 DEF update_beneficiaries, SameGuardians, VoteFields,
                          ControlFields
    <2>3. CASE \E heir : renounce_beneficiary(id, heir)
        BY <1>1, <2>3 DEF renounce_beneficiary, SameGuardians, VoteFields,
                          ControlFields
    <2>4. CASE \E h : add_hashed_beneficiary(id, owner, h)
        BY <1>1, <2>4 DEF add_hashed_beneficiary, OnlyTheWill, SameGuardians, VoteFields,
                          ControlFields
    <2>5. CASE \E claimant, salt : reveal_and_claim(id, claimant, salt)
        <3>1. PICK i, left :
                save_will(id, [wills[id] EXCEPT !.balances = left,
                                                !.balance = BalanceOf(left, wills[id].token),
                                                !.hashed_beneficiaries[i].claimed = TRUE])
            BY <2>5 DEF reveal_and_claim
        <3>2. now' = now
            BY <2>5 DEF reveal_and_claim
        <3> DEFINE w == [wills[id] EXCEPT !.balances = left,
                                          !.balance = BalanceOf(left, wills[id].token),
                                          !.hashed_beneficiaries[i].claimed = TRUE]
        <3>3. /\ SameGuardians(w, wills[id])
              /\ w.status = wills[id].status
              /\ w.trigger_time = wills[id].trigger_time
              /\ w.grace_period_days = wills[id].grace_period_days
            BY <1>1 DEF SameGuardians, VoteFields, ControlFields
        <3> HIDE DEF w
        <3> QED  BY <3>1, <3>2, <3>3 DEF w
    <2> QED  BY <2>1, <2>2, <2>3, <2>4, <2>5
<1> QED  BY <1>2, SameBallot

LEMMA SettingsBallot ==
    ASSUME LifecycleInv, VoteInv, NEW id \in DOMAIN wills, NEW owner, NEW s \in Settings,
           update_will_settings(id, owner, s)
    PROVE  VoteInv'
<1> DEFINE list == IF s.beneficiaries = None THEN wills[id].beneficiaries ELSE s.beneficiaries
           w1   == WithPeriods([wills[id] EXCEPT !.beneficiaries = list], s.checkin, s.grace)
           w2   == WithGuardians(w1, UnweightedGuardians(s.guardians),
                                 wills[id].guardian_threshold)
<1>1. /\ now' = now
      /\ wills[id].status = "Active"
      /\ \/ save_will(id, w1)
         \/ /\ s.guardians # None
            /\ SaveWithVotes(id, w2, reset_guardian_votes(guardian_vote, id, wills[id]),
                             reset_guardian_cancel_votes(guardian_cancel_vote, id, wills[id]))
    BY DEF update_will_settings, HasStatus
<1>2. Ballot(wills[id], now, guardian_vote[id], guardian_cancel_vote[id])
    BY DEF VoteInv
<1>3. VoteFields \cup ControlFields \subseteq DOMAIN wills[id]
    BY <1>2 DEF Ballot, LifecycleInv, Kept, Shaped
<1>4. SameGuardians(w1, wills[id]) /\ w1.status = "Active"
    BY <1>1, <1>3 DEF WithPeriods, SameGuardians, VoteFields, ControlFields
<1>5. CASE save_will(id, w1)
    <2> HIDE DEF w1
    <2>1. Ballot(w1, now, guardian_vote[id], guardian_cancel_vote[id])
        BY <1>1, <1>2, <1>4, BallotCarriedOn DEF LiveStatus
    <2> QED  BY <1>1, <1>4, <1>5, <2>1, SavedCarriesOn
<1>6. CASE /\ s.guardians # None
           /\ SaveWithVotes(id, w2, reset_guardian_votes(guardian_vote, id, wills[id]),
                            reset_guardian_cancel_votes(guardian_cancel_vote, id, wills[id]))
    <2>1. s.guardians \in Seq(Accounts)
        BY <1>6, EstateInputsAssumption DEF SetOfSettings
    <2>2. DOMAIN UnweightedGuardians(s.guardians) \subseteq Accounts
        BY <2>1 DEF UnweightedGuardians, ToSet
    <2> HIDE DEF w1
    <2>3. /\ VoteFields \subseteq DOMAIN w2
          /\ w2.guardians = UnweightedGuardians(s.guardians)
          /\ w2.status = "Active"
          /\ w2.guardian_cancel_votes = 0 /\ w2.guardian_cancel_vote_weight = 0
        BY <1>4 DEF WithGuardians, SameGuardians, VoteFields
    <2> HIDE DEF w2
    <2> QED  BY <1>1, <1>6, <2>2, <2>3, NewListBallot
<1> QED  BY <1>1, <1>5, <1>6

----------------------------------------------------------------------------
(* The archive *)

LEMMA ArchiveBallot ==
    ASSUME VoteInv, NEW id \in DOMAIN wills, archive_will(id)
    PROVE  VoteInv'
<1>1. /\ now' = now
      /\ wills' = Without(wills, {id})
      /\ guardian_vote' = ClearedVotes(guardian_vote, id, DOMAIN wills[id].guardians)
      /\ guardian_cancel_vote' =
            ClearedVotes(guardian_cancel_vote, id, DOMAIN wills[id].guardians)
    BY DEF archive_will
<1>2. /\ id \in WillIds /\ DOMAIN wills \subseteq WillIds
      /\ guardian_vote \in VoteRecords /\ guardian_cancel_vote \in VoteRecords
      /\ Ballot(wills[id], now, guardian_vote[id], guardian_cancel_vote[id])
    BY DEF VoteInv
<1>3. /\ DOMAIN wills' = DOMAIN wills \ {id}
      /\ \A x \in DOMAIN wills' : wills'[x] = wills[x]
    BY <1>1 DEF Without
<1>4. /\ guardian_vote' \in VoteRecords
      /\ \A x \in WillIds : x # id => guardian_vote'[x] = guardian_vote[x]
      /\ Cast(guardian_vote'[id]) = {}
    BY <1>1, <1>2, ClearedVotesFact DEF Ballot
<1>5. /\ guardian_cancel_vote' \in VoteRecords
      /\ \A x \in WillIds : x # id => guardian_cancel_vote'[x] = guardian_cancel_vote[x]
      /\ Cast(guardian_cancel_vote'[id]) = {}
    BY <1>1, <1>2, ClearedVotesFact DEF Ballot
<1>6. \A x \in DOMAIN wills' :
            Ballot(wills'[x], now, guardian_vote'[x], guardian_cancel_vote'[x])
    BY <1>2, <1>3, <1>4, <1>5 DEF VoteInv
<1>7. \A x \in WillIds \ DOMAIN wills' : NoVotes(x)'
    BY <1>3, <1>4, <1>5 DEF VoteInv, NoVotes
<1> QED  BY <1>1, <1>2, <1>3, <1>4, <1>5, <1>6, <1>7, EachBallot

----------------------------------------------------------------------------
(* Wills out of other wills *)

\* Opening wills under ids nobody has voted on, next to wills that keep their
\* guardians and their clock.
LEMMA OpenedBallots ==
    ASSUME VoteInv, now' = now,
           UNCHANGED <<guardian_vote, guardian_cancel_vote>>,
           DOMAIN wills \subseteq DOMAIN wills', DOMAIN wills' \subseteq WillIds,
           \A id \in DOMAIN wills :
                /\ SameGuardians(wills'[id], wills[id])
                /\ wills'[id].status = wills[id].status
                /\ wills'[id].trigger_time = wills[id].trigger_time
                /\ wills'[id].grace_period_days = wills[id].grace_period_days,
           \A id \in DOMAIN wills' \ DOMAIN wills :
                /\ VoteFields \subseteq DOMAIN wills'[id]
                /\ DOMAIN wills'[id].guardians \subseteq Accounts
                /\ wills'[id].status = "Active"
                /\ wills'[id].guardian_cancel_votes = 0
                /\ wills'[id].guardian_cancel_vote_weight = 0
    PROVE  VoteInv'
<1>1. ASSUME NEW id \in DOMAIN wills
      PROVE  Ballot(wills'[id], now, guardian_vote[id], guardian_cancel_vote[id])
    <2>1. Ballot(wills[id], now, guardian_vote[id], guardian_cancel_vote[id])
        BY DEF VoteInv
    <2> QED  BY <2>1 DEF Ballot, InTime, SettledAt, SameGuardians
<1>2. ASSUME NEW id \in DOMAIN wills' \ DOMAIN wills
      PROVE  Ballot(wills'[id], now, guardian_vote[id], guardian_cancel_vote[id])
    <2>1. NoVotes(id)
        BY DEF VoteInv
    <2> QED  BY <2>1, BallotCleared DEF NoVotes
<1>3. \A id \in WillIds \ DOMAIN wills' : NoVotes(id)'
    BY DEF VoteInv, NoVotes
<1>4. \A id \in DOMAIN wills' :
            Ballot(wills'[id], now, guardian_vote'[id], guardian_cancel_vote'[id])
    BY <1>1, <1>2
<1> QED  BY <1>3, <1>4, EachBallot DEF VoteInv

LEMMA DescendantAsksAgain ==
    ASSUME NEW w, VoteFields \cup ControlFields \subseteq DOMAIN w,
           NEW owner, NEW balances, NEW token, NEW balance
    PROVE  LET d == Descendant(w, owner, balances, token, balance)
           IN  /\ VoteFields \subseteq DOMAIN d
               /\ DOMAIN d.guardians = DOMAIN w.guardians
               /\ d.status = "Active"
               /\ d.guardian_cancel_votes = 0
               /\ d.guardian_cancel_vote_weight = 0
BY DEF Descendant, reset_guardian_consent, VoteFields, ControlFields

LEMMA CloneBallot ==
    ASSUME LifecycleInv, VoteInv, NEW source \in DOMAIN wills, NEW owner, NEW tokens,
           clone_will(source, owner, tokens)
    PROVE  VoteInv'
<1> DEFINE id == next_will_id + 1
           w  == Descendant(wills[source], owner, BalancesOf(tokens),
                            tokens[1][1], tokens[1][2])
<1>1. save_will(id, w) /\ now' = now /\ id \in WillIds
    BY DEF clone_will
<1>2. /\ VoteFields \cup ControlFields \subseteq DOMAIN wills[source]
      /\ DOMAIN wills[source].guardians \subseteq Accounts
    BY DEF VoteInv, Ballot, LifecycleInv, Kept, Shaped
<1>3. /\ VoteFields \subseteq DOMAIN w
      /\ DOMAIN w.guardians \subseteq Accounts
      /\ w.status = "Active"
      /\ w.guardian_cancel_votes = 0 /\ w.guardian_cancel_vote_weight = 0
    BY <1>2, DescendantAsksAgain
<1>4. id \notin DOMAIN wills
    BY DEF LifecycleInv
<1>5. guardian_vote \in VoteRecords /\ guardian_cancel_vote \in VoteRecords /\ NoVotes(id)
    BY <1>1, <1>4 DEF VoteInv
<1> HIDE DEF id, w
<1>6. guardian_vote' = guardian_vote /\ guardian_cancel_vote' = guardian_cancel_vote
    BY <1>1, <1>4, <1>5, SavedAsGiven DEF save_will
<1>7. Ballot(w, now, guardian_vote'[id], guardian_cancel_vote'[id])
    BY <1>3, <1>5, <1>6, BallotCleared DEF NoVotes
<1>8. wills' = Put(wills, id, w)
    BY <1>1 DEF save_will, SaveWithVotes
<1> QED  BY <1>1, <1>5, <1>6, <1>7, <1>8, OneBallot

LEMMA SplitBallot ==
    ASSUME LifecycleInv, VoteInv, NEW id \in DOMAIN wills, NEW owner, NEW split,
           split_will(id, owner, split)
    PROVE  VoteInv'
<1> DEFINE child_id == next_will_id + 1
           Source(staying, remaining) ==
                sync_primary_balance([wills[id] EXCEPT !.balances = staying,
                                                       !.beneficiaries = remaining])
           Child(moving, token, parted) ==
                [Descendant(wills[id], wills[id].owner, moving, token, moving[token])
                    EXCEPT !.beneficiaries = parted, !.keeper_bounty_bps = 0]
<1>1. /\ \E staying, remaining, moving, token, parted :
            wills' = Put(Put(wills, id, Source(staying, remaining)),
                         child_id, Child(moving, token, parted))
      /\ UNCHANGED <<now, guardian_vote, guardian_cancel_vote>>
      /\ child_id \in WillIds
    BY DEF split_will, votes
<1>2. PICK staying, remaining, moving, token, parted :
            wills' = Put(Put(wills, id, Source(staying, remaining)),
                         child_id, Child(moving, token, parted))
    BY <1>1
<1> DEFINE source == Source(staying, remaining)
           child  == Child(moving, token, parted)
           d      == Descendant(wills[id], wills[id].owner, moving, token, moving[token])
<1>3. /\ VoteFields \cup ControlFields \subseteq DOMAIN wills[id]
      /\ DOMAIN wills[id].guardians \subseteq Accounts
    BY DEF VoteInv, Ballot, LifecycleInv, Kept, Shaped
<1>4. /\ SameGuardians(source, wills[id])
      /\ source.status = wills[id].status
      /\ source.trigger_time = wills[id].trigger_time
      /\ source.grace_period_days = wills[id].grace_period_days
    BY <1>3 DEF sync_primary_balance, SameGuardians, VoteFields, ControlFields
<1>5. /\ VoteFields \subseteq DOMAIN d
      /\ DOMAIN d.guardians \subseteq Accounts
      /\ d.status = "Active"
      /\ d.guardian_cancel_votes = 0 /\ d.guardian_cancel_vote_weight = 0
    BY <1>3, DescendantAsksAgain
<1>6. child = [d EXCEPT !.beneficiaries = parted, !.keeper_bounty_bps = 0]
    OBVIOUS
<1> HIDE DEF source, child, d
<1>7. /\ VoteFields \subseteq DOMAIN child
      /\ DOMAIN child.guardians \subseteq Accounts
      /\ child.status = "Active"
      /\ child.guardian_cancel_votes = 0 /\ child.guardian_cancel_vote_weight = 0
    BY <1>5, <1>6 DEF VoteFields
<1>8. child_id \notin DOMAIN wills
    BY DEF LifecycleInv
<1>9. /\ DOMAIN wills' = DOMAIN wills \cup {child_id}
      /\ wills'[id] = source /\ wills'[child_id] = child
      /\ \A x \in DOMAIN wills : x # id => wills'[x] = wills[x]
    BY <1>2, <1>8 DEF Put, source, child
<1>10. \A x \in DOMAIN wills : SameGuardians(wills[x], wills[x])
    BY DEF VoteInv, Ballot, SameGuardians
<1>11. \A x \in DOMAIN wills :
            /\ SameGuardians(wills'[x], wills[x])
            /\ wills'[x].status = wills[x].status
            /\ wills'[x].trigger_time = wills[x].trigger_time
            /\ wills'[x].grace_period_days = wills[x].grace_period_days
    BY <1>4, <1>9, <1>10
<1>12. DOMAIN wills' \subseteq WillIds
    BY <1>1, <1>9 DEF VoteInv
<1> HIDE DEF child_id
<1> QED  BY <1>1, <1>7, <1>9, <1>11, <1>12, OpenedBallots

LEMMA BatchCreateBallot ==
    ASSUME LifecycleInv, VoteInv, NEW owner, NEW forms \in Batches,
           batch_create_wills(owner, forms)
    PROVE  VoteInv'
<1> DEFINE ids == (next_will_id + 1)..(next_will_id + Len(forms))
           Form(id) == [forms[id - next_will_id] EXCEPT !.bounty = 0, !.delay = 0]
           fresh == [id \in ids |-> NewWill(owner, Form(id))]
<1>1. /\ wills' = [id \in DOMAIN wills \cup ids |->
                        IF id \in ids THEN fresh[id] ELSE wills[id]]
      /\ UNCHANGED <<now, guardian_vote, guardian_cancel_vote>>
      /\ ids \subseteq WillIds
    BY DEF batch_create_wills, votes
<1>2. next_will_id \in Nat /\ Len(forms) \in Nat /\ forms \in Seq(SetOfForms)
    BY PortfolioInputsAssumption DEF LifecycleInv
<1>3. \A id \in ids : id \notin DOMAIN wills
    BY <1>2 DEF LifecycleInv
<1>4. ASSUME NEW id \in ids
      PROVE  /\ VoteFields \subseteq DOMAIN fresh[id]
             /\ DOMAIN fresh[id].guardians \subseteq Accounts
             /\ fresh[id].status = "Active"
             /\ fresh[id].guardian_cancel_votes = 0
             /\ fresh[id].guardian_cancel_vote_weight = 0
    <2>1. forms[id - next_will_id] \in SetOfForms
        BY <1>2
    <2>2. Form(id).delay = 0 /\ Form(id).guardians \in Seq(Accounts)
        BY <2>1 DEF SetOfForms
    <2>3. fresh[id] = NewWill(owner, Form(id))
        OBVIOUS
    <2> HIDE DEF Form, fresh
    <2>4. DOMAIN UnweightedGuardians(Form(id).guardians) \subseteq Accounts
        BY <2>2 DEF UnweightedGuardians, ToSet
    <2> QED  BY <2>2, <2>3, <2>4 DEF NewWill, VoteFields
<1> HIDE DEF ids, fresh
<1>5. /\ DOMAIN wills' = DOMAIN wills \cup ids
      /\ \A id \in ids : wills'[id] = fresh[id]
      /\ \A id \in DOMAIN wills : wills'[id] = wills[id]
    BY <1>1, <1>3
<1>6. DOMAIN wills' \subseteq WillIds
    BY <1>1, <1>5 DEF VoteInv
<1>7. \A id \in DOMAIN wills :
            /\ SameGuardians(wills'[id], wills[id])
            /\ wills'[id].status = wills[id].status
            /\ wills'[id].trigger_time = wills[id].trigger_time
            /\ wills'[id].grace_period_days = wills[id].grace_period_days
    BY <1>5 DEF VoteInv, Ballot, SameGuardians
<1>8. \A id \in DOMAIN wills' \ DOMAIN wills :
            /\ VoteFields \subseteq DOMAIN wills'[id]
            /\ DOMAIN wills'[id].guardians \subseteq Accounts
            /\ wills'[id].status = "Active"
            /\ wills'[id].guardian_cancel_votes = 0
            /\ wills'[id].guardian_cancel_vote_weight = 0
    BY <1>4, <1>5
<1> QED  BY <1>1, <1>5, <1>6, <1>7, <1>8, OpenedBallots

\* Both wills lose their votes, so that no vote meets a list it was not cast for.
LEMMA MergeBallot ==
    ASSUME LifecycleInv, VoteInv, NEW owner, NEW a \in DOMAIN wills, NEW b \in DOMAIN wills,
           merge_wills(owner, a, b)
    PROVE  VoteInv'
<1> DEFINE Merged(heirs, balances) ==
                [wills[a] EXCEPT !.beneficiaries         = heirs,
                                 !.guardians             = merge_guardians(@, wills[b].guardians),
                                 !.checkin_period_days   = Min({@, wills[b].checkin_period_days}),
                                 !.grace_period_days     = Max({@, wills[b].grace_period_days}),
                                 !.balances              = balances,
                                 !.balance               = @ + wills[b].balance,
                                 !.guardian_votes        = 0,
                                 !.guardian_cancel_votes = 0]
           consumed == [wills[b] EXCEPT !.balances              = << >>,
                                        !.balance               = 0,
                                        !.status                = "Cancelled",
                                        !.guardian_votes        = 0,
                                        !.guardian_cancel_votes = 0]
           rv == reset_guardian_votes(guardian_vote, a, wills[a])
           cv == reset_guardian_cancel_votes(guardian_cancel_vote, a, wills[a])
<1>1. /\ \E heirs, balances : wills' = Put(Put(wills, a, Merged(heirs, balances)), b, consumed)
      /\ now' = now
      /\ a # b /\ wills[a].status = "Active" /\ wills[b].status = "Active"
      /\ guardian_vote' = reset_guardian_votes(rv, b, wills[b])
      /\ guardian_cancel_vote' = reset_guardian_cancel_votes(cv, b, wills[b])
    BY DEF merge_wills, HasStatus
<1>2. PICK heirs, balances :
            wills' = Put(Put(wills, a, Merged(heirs, balances)), b, consumed)
    BY <1>1
<1> DEFINE merged == Merged(heirs, balances)
<1>3. /\ a \in WillIds /\ b \in WillIds
      /\ guardian_vote \in VoteRecords /\ guardian_cancel_vote \in VoteRecords
      /\ Ballot(wills[a], now, guardian_vote[a], guardian_cancel_vote[a])
      /\ Ballot(wills[b], now, guardian_vote[b], guardian_cancel_vote[b])
      /\ VoteFields \cup ControlFields \subseteq DOMAIN wills[a]
      /\ VoteFields \cup ControlFields \subseteq DOMAIN wills[b]
    BY DEF VoteInv, Ballot, LifecycleInv, Kept, Shaped
<1>4. /\ VoteFields \subseteq DOMAIN merged
      /\ merged.guardians = merge_guardians(wills[a].guardians, wills[b].guardians)
      /\ merged.status = "Active"
      /\ merged.guardian_cancel_votes = 0
      /\ merged.guardian_cancel_vote_weight = wills[a].guardian_cancel_vote_weight
    BY <1>1, <1>3 DEF VoteFields, ControlFields
<1>5. /\ VoteFields \subseteq DOMAIN consumed
      /\ consumed.guardians = wills[b].guardians
      /\ consumed.status = "Cancelled"
    BY <1>3 DEF VoteFields, ControlFields
<1> HIDE DEF merged, consumed, rv, cv
<1>6. /\ rv \in VoteRecords
      /\ \A x \in WillIds : x # a => rv[x] = guardian_vote[x]
      /\ Cast(rv[a]) = {}
    BY <1>3, ClearedVotesFact DEF reset_guardian_votes, Ballot, rv
<1>7. cv = guardian_cancel_vote /\ guardian_cancel_vote' = guardian_cancel_vote
    BY <1>1, <1>3 DEF reset_guardian_cancel_votes, Ballot, cv
<1>8. /\ guardian_vote' \in VoteRecords
      /\ \A x \in WillIds : x \notin {a, b} => guardian_vote'[x] = guardian_vote[x]
      /\ Cast(guardian_vote'[a]) = {} /\ Cast(guardian_vote'[b]) = {}
    <2>1. rv \in VoteRecords
        BY <1>6
    <2>2. /\ guardian_vote' \in VoteRecords
          /\ \A x \in WillIds : x # b => guardian_vote'[x] = rv[x]
          /\ Cast(guardian_vote'[b]) = Cast(rv[b]) \ DOMAIN wills[b].guardians
        BY <1>1, <1>3, <2>1, ClearedVotesFact DEF reset_guardian_votes
    <2>3. rv[b] = guardian_vote[b] /\ Cast(guardian_vote[b]) \subseteq DOMAIN wills[b].guardians
        BY <1>1, <1>3, <1>6 DEF Ballot
    <2> QED  BY <1>1, <1>3, <1>6, <2>2, <2>3
<1>9. Cast(guardian_cancel_vote[a]) = {} /\ Cast(guardian_cancel_vote[b]) = {}
    BY <1>1, <1>3 DEF Ballot
<1>10. Ballot(merged, now, guardian_vote'[a], guardian_cancel_vote'[a])
    <2>1. DOMAIN merged.guardians \subseteq Accounts
        BY <1>3, <1>4 DEF merge_guardians, Ballot
    <2>2. merged.guardian_cancel_vote_weight = 0
        BY <1>1, <1>3, <1>4 DEF Ballot
    <2> QED  BY <1>4, <1>7, <1>8, <1>9, <2>1, <2>2, BallotCleared
<1>11. Ballot(consumed, now, guardian_vote'[b], guardian_cancel_vote'[b])
    BY <1>3, <1>5, <1>7, <1>8, <1>9 DEF Ballot, InTime
<1>12. /\ DOMAIN wills' = DOMAIN wills /\ wills'[a] = merged /\ wills'[b] = consumed
       /\ \A x \in DOMAIN wills : x \notin {a, b} => wills'[x] = wills[x]
    BY <1>1, <1>2 DEF Put, merged
<1>13. \A x \in DOMAIN wills' :
            Ballot(wills'[x], now, guardian_vote'[x], guardian_cancel_vote'[x])
    BY <1>7, <1>8, <1>10, <1>11, <1>12 DEF VoteInv
<1>14. \A x \in WillIds \ DOMAIN wills' : NoVotes(x)'
    BY <1>7, <1>8, <1>12 DEF VoteInv, NoVotes
<1>15. DOMAIN wills' \subseteq WillIds /\ guardian_cancel_vote' \in VoteRecords
    BY <1>3, <1>7, <1>12 DEF VoteInv
<1> QED  BY <1>1, <1>8, <1>13, <1>14, <1>15, EachBallot

----------------------------------------------------------------------------
(* All calls together *)

LEMMA VotesUntouched ==
    ASSUME VoteInv, UNCHANGED <<now, wills, guardian_vote, guardian_cancel_vote>>
    PROVE  VoteInv'
BY DEF VoteInv, NoVotes

LEMMA ContractVotesKept == LifecycleInv /\ VoteInv /\ [PortfolioNext]_vars => VoteInv'
<1> SUFFICES ASSUME LifecycleInv, VoteInv, [PortfolioNext]_vars
             PROVE  VoteInv'
    OBVIOUS
<1>1. CASE [QuorumNext]_vars
    BY <1>1, VotesKept
<1>2. CASE EstateOwnerNext
    BY <1>2, EstateBallot, SettingsBallot DEF EstateOwnerNext
<1>3. CASE EstateHeirNext
    <2>1. CASE \E id \in DOMAIN wills :
                    \/ \E heir \in Accounts : renounce_beneficiary(id, heir)
                    \/ \E h \in HashedShares : reveal_and_claim(id, h.claimant, h.salt)
        BY <2>1, EstateBallot
    <2>2. CASE \E id \in DOMAIN wills : archive_will(id)
        BY <2>2, ArchiveBallot
    <2>3. CASE \E key \in DOMAIN failed_payout : retry_failed_payout(key[1], key[2], key[3])
        BY <2>3, VotesUntouched DEF retry_failed_payout, votes
    <2> QED  BY <1>3, <2>1, <2>2, <2>3 DEF EstateHeirNext
<1>4. CASE \E ids \in SUBSET DOMAIN wills : Merging(ids)
    BY <1>4, MergeBallot DEF Merging
<1>5. CASE MultiplyNext
    <2>1. CASE repair_protocol_stats
        BY <2>1, VotesUntouched DEF repair_protocol_stats, votes
    <2>2. CASE \E owner \in Accounts :
                \/ \E forms \in Batches : batch_create_wills(owner, forms)
                \/ \E id \in DOMAIN wills :
                    \/ \E tokens \in ClonePurses : clone_will(id, owner, tokens)
                    \/ \E split \in Splits : split_will(id, owner, split)
        BY <2>2, BatchCreateBallot, CloneBallot, SplitBallot
    <2> QED  BY <1>5, <2>1, <2>2 DEF MultiplyNext
<1> QED  BY <1>1, <1>2, <1>3, <1>4, <1>5 DEF PortfolioNext, EstateNext, PortfolioOnlyNext

\* No entry point of the contract breaks the invariant of the vote records.
THEOREM ContractVotesHold == PortfolioSpec => []VoteInv
BY NobodyHasVoted, ContractVotesKept, ContractInvariantHolds, PTL DEF PortfolioSpec

\* Only guardians on the current list of a stored will have votes on record: a
\* merge (merge_wills) clears those of both wills, a new list those of the old
\* one, and an archived will (archive_will) leaves none under its id.
THEOREM ContractOnlyGuardiansVote == PortfolioSpec => []VotesOfGuardiansOnly
<1>1. VoteInv => VotesOfGuardiansOnly
    BY DEF VoteInv, Ballot, NoVotes, Cast, VotesOfGuardiansOnly, Voted
<1> QED  BY <1>1, ContractVotesHold, PTL

\* Settings, merges, clones and splits do not open a cancel round that inherits
\* votes: reset_guardian_cancel_votes may skip the records when the counter is 0.
THEOREM ContractRoundsAreFresh == PortfolioSpec => []CancelRoundsStartEmpty
<1>1. VoteInv => CancelRoundsStartEmpty
    BY DEF VoteInv, Ballot, Cast, CancelRoundsStartEmpty, Voted,
           assert_no_guardian_cancel_in_flight
<1> QED  BY <1>1, ContractVotesHold, PTL

\* Whichever entry point installed the list, no vote on record predates the end
\* of the cooldown counted from the list date (which merge_wills leaves alone).
THEOREM ContractVotesWait == PortfolioSpec => []VotesPostdateCooldown
<1>1. VoteInv => VotesPostdateCooldown
    BY DEF VoteInv, Ballot, SettledAt, Cast, VotesPostdateCooldown, Voted
<1> QED  BY <1>1, ContractVotesHold, PTL

----------------------------------------------------------------------------
(* What a guardian's dashboard may promise *)

\* A step after which every release vote on file was there before.
NoVoteCast ==
    \A id \in WillIds, g \in Accounts : guardian_vote'[id][g] \in {guardian_vote[id][g], NoTime}

\* Taking votes off the file, for every reason the contract has to.
LEMMA FewerVotes ==
    ASSUME NEW records \in VoteRecords, NEW id \in WillIds, NEW gone,
           \A x \in WillIds, g \in Accounts : records[x][g] \in {guardian_vote[x][g], NoTime}
    PROVE  \A x \in WillIds, g \in Accounts :
                ClearedVotes(records, id, gone)[x][g] \in {guardian_vote[x][g], NoTime}
<1> SUFFICES ASSUME NEW x \in WillIds, NEW g \in Accounts
             PROVE  ClearedVotes(records, id, gone)[x][g] \in {guardian_vote[x][g], NoTime}
    OBVIOUS
<1>1. CASE x = id
    BY <1>1, ClearedVotesFact
<1>2. CASE x # id
    BY <1>2, ClearedVotesFact
<1> QED  BY <1>1, <1>2

\* Saving a will with some of its votes taken off casts none.
LEMMA SavedCastsNone ==
    ASSUME NEW id \in WillIds, NEW w, NEW rv, NEW cv, guardian_vote \in VoteRecords,
           SaveWithVotes(id, w, rv, cv),
           rv = guardian_vote \/ \E gone : rv = ClearedVotes(guardian_vote, id, gone)
    PROVE  NoVoteCast
<1>1. \A x \in WillIds, g \in Accounts : guardian_vote[x][g] \in {guardian_vote[x][g], NoTime}
    OBVIOUS
<1>2. /\ rv \in VoteRecords
      /\ \A x \in WillIds, g \in Accounts : rv[x][g] \in {guardian_vote[x][g], NoTime}
    <2>1. CASE rv = guardian_vote
        BY <1>1, <2>1
    <2>2. CASE \E gone : rv = ClearedVotes(guardian_vote, id, gone)
        BY <1>1, <2>2, ClearedVotesFact, FewerVotes
    <2> QED  BY <2>1, <2>2
<1>3. guardian_vote' = ClearedVotes(rv, id, Departed(id, w))
    BY DEF SaveWithVotes
<1> QED  BY <1>2, <1>3, FewerVotes DEF NoVoteCast

\* Nor does a call that leaves the votes alone.
LEMMA VotesAsBefore ==
    ASSUME UNCHANGED guardian_vote
    PROVE  NoVoteCast
BY DEF NoVoteCast

\* Nor one that opens a will, whose id nobody has voted under.
LEMMA FreshIdVotes ==
    ASSUME LifecycleInv, VoteInv, NEW owner,
           \/ \E form : create_will(owner, form)
           \/ \E source, tokens : clone_will(source, owner, tokens)
    PROVE  NoVoteCast
<1>1. \E w : save_will(next_will_id + 1, w)
    <2>1. ASSUME NEW form, create_will(owner, form)
          PROVE  \E w : save_will(next_will_id + 1, w)
        BY <2>1, Zenon DEF create_will
    <2>2. ASSUME NEW source, NEW tokens, clone_will(source, owner, tokens)
          PROVE  \E w : save_will(next_will_id + 1, w)
        BY <2>2, Zenon DEF clone_will
    <2> QED  BY <2>1, <2>2
<1>2. next_will_id + 1 \in WillIds
    <2>1. ASSUME NEW form, create_will(owner, form)
          PROVE  next_will_id < MaxWills
        BY <2>1, Zenon DEF create_will
    <2>2. ASSUME NEW source, NEW tokens, clone_will(source, owner, tokens)
          PROVE  next_will_id + 1 \in WillIds
        BY <2>2, Zenon DEF clone_will
    <2> QED  BY <2>1, <2>2, BoundsAssumption DEF LifecycleInv, WillIds
<1>3. guardian_vote \in VoteRecords
    BY DEF VoteInv
<1> DEFINE id == next_will_id + 1
<1> HIDE DEF id
<1> QED  BY <1>1, <1>2, <1>3, SavedCastsNone DEF save_will

\* Every entry point on one stored will but guardian_trigger.
LEMMA SingleCallsCastNone ==
    ASSUME VoteInv, NEW id \in DOMAIN wills, NEW owner, NEW caller, NEW guardian,
           \/ confirm_will(id, owner)
           \/ \E delegate : set_delegate(id, owner, delegate)
           \/ \E checkin, grace : update_periods(id, owner, checkin, grace)
           \/ emergency_checkin(id, owner)
           \/ cancel_will(id, owner)
           \/ close_will(id, owner)
           \/ check_in(id, caller)
           \/ trigger_will(id)
           \/ \E keeper, refused : release_inheritance(id, keeper, refused)
           \/ guardian_cancel_trigger(id, guardian)
           \/ accept_guardian_role(id, guardian)
           \/ reject_guardian_role(id, guardian)
           \/ \E list : update_guardians(id, owner, list)
           \/ \E list, given : update_guardians_weighted(id, owner, list, given)
           \/ \E t, amount : top_up(id, owner, t, amount)
           \/ \E list : update_beneficiaries(id, owner, list)
           \/ \E s : update_will_settings(id, owner, s)
           \/ \E h : add_hashed_beneficiary(id, owner, h)
           \/ \E heir : renounce_beneficiary(id, heir)
           \/ \E claimant, salt : reveal_and_claim(id, claimant, salt)
           \/ archive_will(id)
    PROVE  NoVoteCast
<1>1. id \in WillIds /\ guardian_vote \in VoteRecords
    BY DEF VoteInv
<1> DEFINE Saves(w, rv) == /\ \E cv : SaveWithVotes(id, w, rv, cv)
                           /\ \/ rv = guardian_vote
                              \/ \E gone : rv = ClearedVotes(guardian_vote, id, gone)
<1>2. ASSUME NEW w, save_will(id, w)
      PROVE  NoVoteCast
    BY <1>1, <1>2, SavedCastsNone DEF save_will
<1>3. ASSUME NEW w, NEW rv, NEW cv, SaveWithVotes(id, w, rv, cv),
             rv = guardian_vote \/ \E gone : rv = ClearedVotes(guardian_vote, id, gone)
      PROVE  NoVoteCast
    BY <1>1, <1>3, SavedCastsNone
<1>4. CASE \/ confirm_will(id, owner)
           \/ \E delegate : set_delegate(id, owner, delegate)
           \/ \E checkin, grace : update_periods(id, owner, checkin, grace)
           \/ cancel_will(id, owner)
           \/ close_will(id, owner)
           \/ check_in(id, caller)
           \/ trigger_will(id)
           \/ accept_guardian_role(id, guardian)
    <2>1. \E w : save_will(id, w)
        BY <1>4, Zenon DEF confirm_will, set_delegate, update_periods, cancel_will, close_will,
                    check_in, trigger_will, accept_guardian_role
    <2> QED  BY <1>2, <2>1
<1>5. CASE \/ \E t, amount : top_up(id, owner, t, amount)
           \/ \E list : update_beneficiaries(id, owner, list)
           \/ \E h : add_hashed_beneficiary(id, owner, h)
           \/ \E heir : renounce_beneficiary(id, heir)
           \/ \E claimant, salt : reveal_and_claim(id, claimant, salt)
    <2>1. \E w : save_will(id, w)
        BY <1>5, Zenon DEF top_up, update_beneficiaries, add_hashed_beneficiary,
                    renounce_beneficiary, reveal_and_claim
    <2> QED  BY <1>2, <2>1
<1>6. CASE emergency_checkin(id, owner)
    BY <1>3, <1>6 DEF emergency_checkin, reset_guardian_votes
<1>7. CASE \E keeper, refused : release_inheritance(id, keeper, refused)
    BY <1>3, <1>7 DEF release_inheritance, distribute
<1>8. CASE guardian_cancel_trigger(id, guardian)
    BY <1>3, <1>8 DEF guardian_cancel_trigger, reset_guardian_votes
<1>9. CASE reject_guardian_role(id, guardian)
    BY <1>3, <1>9 DEF reject_guardian_role, WithdrawnVote
<1>10. CASE \/ \E list : update_guardians(id, owner, list)
            \/ \E list, given : update_guardians_weighted(id, owner, list, given)
    BY <1>3, <1>10 DEF update_guardians, update_guardians_weighted, ReplaceGuardians,
                       reset_guardian_votes
<1>11. CASE \E s : update_will_settings(id, owner, s)
    BY <1>2, <1>3, <1>11 DEF update_will_settings, reset_guardian_votes
<1>12. CASE archive_will(id)
    <2>1. guardian_vote' = ClearedVotes(guardian_vote, id, DOMAIN wills[id].guardians)
        BY <1>12 DEF archive_will
    <2>2. \A x \in WillIds, g \in Accounts :
                guardian_vote[x][g] \in {guardian_vote[x][g], NoTime}
        OBVIOUS
    <2> QED  BY <1>1, <2>1, <2>2, FewerVotes DEF NoVoteCast
<1> QED  BY <1>4, <1>5, <1>6, <1>7, <1>8, <1>9, <1>10, <1>11, <1>12

\* The calls that name no will, or several.
LEMMA OtherCallsCastNone ==
    ASSUME LifecycleInv, VoteInv, NEW owner,
           \/ \E ids : batch_check_in(owner, ids)
           \/ \E id, t, recipient : retry_failed_payout(id, t, recipient)
           \/ \E source, tokens : clone_will(source, owner, tokens)
           \/ \E id, split : split_will(id, owner, split)
           \/ \E forms : batch_create_wills(owner, forms)
           \/ \E a \in DOMAIN wills, b \in DOMAIN wills : merge_wills(owner, a, b)
           \/ repair_protocol_stats
           \/ Tick
           \/ UNCHANGED vars
    PROVE  NoVoteCast
<1>1. CASE \/ \E ids : batch_check_in(owner, ids)
           \/ \E id, t, recipient : retry_failed_payout(id, t, recipient)
           \/ repair_protocol_stats
           \/ Tick
           \/ UNCHANGED vars
    <2>1. UNCHANGED guardian_vote
        BY <1>1 DEF batch_check_in, CheckedIn, retry_failed_payout, repair_protocol_stats,
                    Tick, vars, votes
    <2> QED  BY <2>1, VotesAsBefore
<1>2. CASE \E id, split : split_will(id, owner, split)
    <2>1. UNCHANGED guardian_vote
        BY <1>2 DEF split_will, votes
    <2> QED  BY <2>1, VotesAsBefore
<1>3. CASE \E forms : batch_create_wills(owner, forms)
    <2>1. UNCHANGED guardian_vote
        BY <1>3 DEF batch_create_wills, votes
    <2> QED  BY <2>1, VotesAsBefore
<1>4. CASE \E a \in DOMAIN wills, b \in DOMAIN wills : merge_wills(owner, a, b)
    <2>1. PICK a \in DOMAIN wills, b \in DOMAIN wills : merge_wills(owner, a, b)
        BY <1>4
    <2> DEFINE rv == reset_guardian_votes(guardian_vote, a, wills[a])
    <2>2. guardian_vote' = reset_guardian_votes(rv, b, wills[b])
        BY <2>1 DEF merge_wills
    <2>3. a \in WillIds /\ b \in WillIds /\ guardian_vote \in VoteRecords
        BY DEF VoteInv
    <2>4. \A x \in WillIds, g \in Accounts :
                guardian_vote[x][g] \in {guardian_vote[x][g], NoTime}
        OBVIOUS
    <2>5. /\ rv \in VoteRecords
          /\ \A x \in WillIds, g \in Accounts : rv[x][g] \in {guardian_vote[x][g], NoTime}
        BY <2>3, <2>4, ClearedVotesFact, FewerVotes DEF reset_guardian_votes
    <2> HIDE DEF rv
    <2> QED  BY <2>2, <2>3, <2>5, FewerVotes DEF reset_guardian_votes, NoVoteCast
<1>5. CASE \E source, tokens : clone_will(source, owner, tokens)
    BY <1>5, FreshIdVotes
<1> QED  BY <1>1, <1>2, <1>3, <1>4, <1>5

\* The one entry point that casts a release vote: now, for a guardian without a
\* live one.
LEMMA OneVoteCast ==
    ASSUME LifecycleInv, VoteInv, FieldsInv, NEW id \in DOMAIN wills,
           NEW guardian \in Accounts, NEW refused, guardian_trigger(id, guardian, refused)
    PROVE  /\ ~has_voted(guardian_vote, id, guardian, wills[id].grace_period_days)
           /\ now' = now /\ id \in DOMAIN wills'
           /\ guardian_vote'[id][guardian] \in {now, NoTime}
           /\ \A x \in WillIds, g \in Accounts :
                <<x, g>> # <<id, guardian>>
                    => guardian_vote'[x][g] \in {guardian_vote[x][g], NoTime}
<1> DEFINE records == [guardian_vote EXCEPT ![id][guardian] = now]
<1>1. \E w, cv : SaveWithVotes(id, w, records, cv)
    BY DEF guardian_trigger, distribute
<1>2. /\ ~has_voted(guardian_vote, id, guardian, wills[id].grace_period_days)
      /\ now' = now
    BY DEF guardian_trigger, distribute, OnlyTheWill
<1>3. id \in WillIds /\ guardian_vote \in VoteRecords /\ now \in Nat
    BY DEF VoteInv, LifecycleInv
<1>4. /\ records \in VoteRecords
      /\ \A x \in WillIds : x # id => records[x] = guardian_vote[x]
      /\ \A a \in Accounts : a # guardian => records[id][a] = guardian_vote[id][a]
      /\ records[id][guardian] = now
    BY <1>3 DEF VoteRecords, OptionalTime
<1> HIDE DEF records
<1>5. PICK w, cv : SaveWithVotes(id, w, records, cv)
    BY <1>1
<1>6. /\ wills' = Put(wills, id, w)
      /\ guardian_vote' = ClearedVotes(records, id, Departed(id, w))
    BY <1>5 DEF SaveWithVotes
<1>7. /\ \A x \in WillIds : x # id => guardian_vote'[x] = records[x]
      /\ \A a \in Accounts : guardian_vote'[id][a] \in {records[id][a], NoTime}
    BY <1>3, <1>4, <1>6, ClearedVotesFact
<1>8. id \in DOMAIN wills'
    BY <1>6 DEF Put
<1> QED  BY <1>2, <1>4, <1>7, <1>8

\* What a step does to the votes on file, whichever it is.
LEMMA CastOnlyByTrigger ==
    ASSUME LifecycleInv, VoteInv, FieldsInv, [PortfolioNext]_vars,
           NEW id \in DOMAIN wills, NEW g \in Accounts,
           guardian_vote'[id][g] \notin {guardian_vote[id][g], NoTime}
    PROVE  /\ ~has_voted(guardian_vote, id, g, wills[id].grace_period_days)
           /\ guardian_vote'[id][g] = now
           /\ now' = now /\ id \in DOMAIN wills'
<1>1. id \in WillIds
    BY DEF VoteInv
<1>2. ~NoVoteCast
    BY <1>1 DEF NoVoteCast
<1>3. CASE OwnerNext
    BY <1>2, <1>3, FreshIdVotes, SingleCallsCastNone DEF OwnerNext
<1>4. CASE \E ids \in SUBSET DOMAIN wills : SignOfLife(ids)
    BY <1>2, <1>4, SingleCallsCastNone, OtherCallsCastNone DEF SignOfLife
<1>5. CASE AnyoneNext \/ AppointNext \/ EstateOwnerNext
    BY <1>2, <1>5, SingleCallsCastNone DEF AnyoneNext, AppointNext, EstateOwnerNext
<1>6. CASE EstateHeirNext
    BY <1>2, <1>6, SingleCallsCastNone, OtherCallsCastNone DEF EstateHeirNext
<1>7. CASE PortfolioOnlyNext
    BY <1>2, <1>7, OtherCallsCastNone DEF PortfolioOnlyNext, MultiplyNext, Merging
<1>8. CASE Tick \/ UNCHANGED vars
    BY <1>2, <1>8, OtherCallsCastNone
<1>9. CASE GuardianNext
    <2>1. PICK x \in DOMAIN wills, guardian \in Accounts, refused \in Refusals :
                guardian_trigger(x, guardian, refused)
        BY <1>2, <1>9, SingleCallsCastNone DEF GuardianNext
    <2>2. <<id, g>> = <<x, guardian>>
        BY <1>1, <2>1, OneVoteCast
    <2> QED  BY <2>1, <2>2, OneVoteCast
<1> QED  BY <1>3, <1>4, <1>5, <1>6, <1>7, <1>8, <1>9
         DEF PortfolioNext, EstateNext, QuorumNext, LifecycleNext

\* A vote that is live stays so while nobody moves the clock or shortens the grace
\* period.
LEMMA LiveNow ==
    ASSUME now \in Nat, NEW grace \in Nat
    PROVE  now - now <= grace * SECONDS_PER_DAY
<1>1. SECONDS_PER_DAY \in Nat
    BY BoundsAssumption
<1> DEFINE p == grace * SECONDS_PER_DAY
<1>2. p \in Nat
    BY <1>1
<1> HIDE DEF p
<1> QED  BY <1>2 DEF p

\* Nor does a longer grace period end it.
LEMMA StillLive ==
    ASSUME NEW t \in Nat, NEW n \in Nat, NEW grace \in Nat, NEW longer \in Nat,
           ~(longer < grace), n - t <= grace * SECONDS_PER_DAY
    PROVE  n - t <= longer * SECONDS_PER_DAY
<1> DEFINE p == grace * SECONDS_PER_DAY
           q == longer * SECONDS_PER_DAY
<1>1. SECONDS_PER_DAY \in Nat
    BY BoundsAssumption
<1>2. p \in Nat /\ q \in Nat /\ p <= q
    BY <1>1
<1> HIDE DEF p, q
<1> QED  BY <1>2 DEF p, q

\* What VoteAnswersHonest says of one will and one guardian.
HonestStep(id, g) ==
    /\ guardian_vote'[id][g] \notin {guardian_vote[id][g], NoTime}
        => /\ get_guardian_vote_status(id, g) = NoAnswer
           /\ get_guardian_vote_status(id, g)' = Answer(now)
    /\ (/\ get_guardian_vote_status(id, g) # NoAnswer
        /\ id \in DOMAIN wills'
        /\ get_guardian_vote_status(id, g)' = NoAnswer)
        => \/ guardian_vote'[id][g] = NoTime
           \/ now' # now
           \/ wills'[id].grace_period_days < wills[id].grace_period_days

\* Every call of the contract is such a step.
LEMMA DashboardStep ==
    ASSUME LifecycleInv, LifecycleInv', VoteInv, VoteInv', FieldsInv, [PortfolioNext]_vars,
           NEW id \in DOMAIN wills, NEW g \in Accounts
    PROVE  HonestStep(id, g)
<1>1. /\ now \in Nat /\ now' \in Nat /\ wills[id].grace_period_days \in Nat
      /\ id \in DOMAIN wills' => wills'[id].grace_period_days \in Nat
      /\ guardian_vote[id][g] \in OptionalTime
    BY DEF LifecycleInv, Kept, Shaped, VoteInv, VoteRecords
<1>2. \A n : Answer(n) # NoAnswer
    BY DEF Answer, NoAnswer
<1>3. ASSUME guardian_vote'[id][g] \notin {guardian_vote[id][g], NoTime}
      PROVE  /\ get_guardian_vote_status(id, g) = NoAnswer
             /\ get_guardian_vote_status(id, g)' = Answer(now)
    <2>1. /\ ~has_voted(guardian_vote, id, g, wills[id].grace_period_days)
          /\ guardian_vote'[id][g] = now
          /\ now' = now /\ id \in DOMAIN wills'
        BY <1>3, CastOnlyByTrigger
    <2>2. has_voted(guardian_vote, id, g, wills[id].grace_period_days)'
        BY <1>1, <1>3, <2>1, LiveNow DEF has_voted, VoteIsLive
    <2> QED  BY <2>1, <2>2 DEF get_guardian_vote_status
<1>4. ASSUME get_guardian_vote_status(id, g) # NoAnswer,
             id \in DOMAIN wills',
             get_guardian_vote_status(id, g)' = NoAnswer,
             guardian_vote'[id][g] # NoTime, now' = now,
             ~(wills'[id].grace_period_days < wills[id].grace_period_days)
      PROVE  FALSE
    <2>1. has_voted(guardian_vote, id, g, wills[id].grace_period_days)
        BY <1>4 DEF get_guardian_vote_status
    <2>2. guardian_vote'[id][g] = guardian_vote[id][g]
        BY <1>3, <1>4
    <2>3. (~has_voted(guardian_vote, id, g, wills[id].grace_period_days))'
        BY <1>2, <1>4 DEF get_guardian_vote_status
    <2> DEFINE t      == guardian_vote[id][g]
               grace  == wills[id].grace_period_days
               longer == wills'[id].grace_period_days
    <2>4. t # NoTime /\ now >= t /\ now - t <= grace * SECONDS_PER_DAY
        BY <2>1 DEF has_voted, VoteIsLive
    <2>5. t \in Nat /\ grace \in Nat /\ longer \in Nat /\ ~(longer < grace)
        BY <1>1, <1>4, <2>4 DEF OptionalTime
    <2>6. ~(now - t <= longer * SECONDS_PER_DAY)
        BY <1>4, <2>2, <2>3, <2>4 DEF has_voted, VoteIsLive
    <2> HIDE DEF t, grace, longer
    <2> QED  BY <1>1, <2>4, <2>5, <2>6, StillLive
<1> QED  BY <1>3, <1>4 DEF HonestStep

\* A guardian's dashboard (get_guardian_vote_status) never disagrees with the
\* vote itself (guardian_trigger), under every entry point of the contract: not
\* after a merge, a new list, a clone or an archived will either.
THEOREM DashboardsAreHonest == PortfolioSpec => VoteAnswersHonest
<1>1. LifecycleInv /\ LifecycleInv' /\ VoteInv /\ VoteInv' /\ FieldsInv /\ [PortfolioNext]_vars
        => [\A id \in DOMAIN wills, g \in Accounts : HonestStep(id, g)]_vars
    BY DashboardStep
<1>2. [][\A id \in DOMAIN wills, g \in Accounts : HonestStep(id, g)]_vars => VoteAnswersHonest
    <2>1. [\A id \in DOMAIN wills, g \in Accounts : HonestStep(id, g)]_vars
            => [\A id \in DOMAIN wills, g \in Accounts :
                /\ guardian_vote'[id][g] \notin {guardian_vote[id][g], NoTime}
                    => /\ get_guardian_vote_status(id, g) = NoAnswer
                       /\ get_guardian_vote_status(id, g)' = Answer(now)
                /\ (/\ get_guardian_vote_status(id, g) # NoAnswer
                    /\ id \in DOMAIN wills'
                    /\ get_guardian_vote_status(id, g)' = NoAnswer)
                    => \/ guardian_vote'[id][g] = NoTime
                       \/ now' # now
                       \/ wills'[id].grace_period_days < wills[id].grace_period_days]_vars
        BY DEF HonestStep
    <2> QED  BY <2>1, PTL DEF VoteAnswersHonest
<1> QED  BY <1>1, <1>2, ContractInvariantHolds, ContractVotesHold, FieldsHold, PTL
         DEF PortfolioSpec
=============================================================================
