---------------------------- MODULE EstateProofs ----------------------------
(***************************************************************************)
(* Money and heirs, for any number of wills, tokens and beneficiaries: the *)
(* balance mirror, what a will that is over may still hold, bequests and   *)
(* percentages of the live wills, the address indexes and their limit, the *)
(* count of live wills and what their owners are told of them.             *)
(***************************************************************************)
EXTENDS ContractProofs, SumProofs, WillQueries

----------------------------------------------------------------------------
(* Calls that move neither money nor heirs *)

\* Wills that hold the same and are over or not alike, one perhaps with its
\* mirror refreshed.
SameMoney(w, v) ==
    /\ w.token = v.token
    /\ w.balances = v.balances
    /\ w.hashed_beneficiaries = v.hashed_beneficiaries
    /\ w.keeper_bounty_bps = v.keeper_bounty_bps
    /\ w.balance \in {v.balance, BalanceOf(v.balances, v.token)}
    /\ \/ w.status = v.status
       \/ w.status \in LiveStatus /\ v.status \in LiveStatus
       \/ w.status = "Settled" /\ v.status = "Released"

SameEstate(w, v) ==
    /\ SameMoney(w, v)
    /\ w.owner = v.owner
    /\ w.beneficiaries = v.beneficiaries

Continued ==
    /\ DOMAIN wills' = DOMAIN wills
    /\ \A id \in DOMAIN wills : SameEstate(wills'[id], wills[id])
    /\ UNCHANGED <<owner_wills, beneficiary_wills, protocol_stats>>

LEMMA OneContinued ==
    ASSUME NEW id \in DOMAIN wills, NEW w, wills' = Put(wills, id, w), SameEstate(w, wills[id]),
           UNCHANGED <<owner_wills, beneficiary_wills, protocol_stats>>
    PROVE  Continued
<1>1. \A v : SameEstate(v, v)
    BY DEF SameEstate, SameMoney
<1>2. DOMAIN wills' = DOMAIN wills /\ \A x \in DOMAIN wills : wills'[x] = IF x = id THEN w ELSE wills[x]
    BY DEF Put
<1> QED  BY <1>1, <1>2 DEF Continued

LEMMA OwnerContinues ==
    ASSUME FieldsInv, NEW id \in DOMAIN wills, NEW owner, NEW caller,
           \/ confirm_will(id, owner)
           \/ \E delegate : set_delegate(id, owner, delegate)
           \/ \E checkin, grace : update_periods(id, owner, checkin, grace)
           \/ emergency_checkin(id, owner)
           \/ close_will(id, owner)
           \/ check_in(id, caller)
           \/ trigger_will(id)
    PROVE  Continued
<1>1. WillFields \subseteq DOMAIN wills[id]
    BY DEF FieldsInv
<1>2. UNCHANGED <<owner_wills, beneficiary_wills, protocol_stats>>
    BY DEF confirm_will, set_delegate, update_periods, emergency_checkin, close_will,
           check_in, trigger_will, OnlyTheWill, indexes
<1>3. CASE \/ confirm_will(id, owner)
           \/ \E delegate : set_delegate(id, owner, delegate)
           \/ close_will(id, owner)
           \/ check_in(id, caller)
           \/ trigger_will(id)
    <2> DEFINE w1 == [wills[id] EXCEPT !.status = "Active", !.last_checkin = now,
                                       !.confirmation_deadline = NoTime]
               w2(delegate) == [wills[id] EXCEPT !.delegate = delegate]
               w3 == [wills[id] EXCEPT !.status = "Settled"]
               w4 == [wills[id] EXCEPT !.last_checkin = now]
               w5 == [wills[id] EXCEPT !.status = "Triggered",
                                       !.trigger_time = CheckinDeadline(wills[id])]
    <2>1. \/ wills' = Put(wills, id, w1) /\ wills[id].status = "PendingConfirmation"
          \/ \E delegate : wills' = Put(wills, id, w2(delegate))
          \/ wills' = Put(wills, id, w3) /\ wills[id].status = "Released"
          \/ wills' = Put(wills, id, w4)
          \/ wills' = Put(wills, id, w5) /\ wills[id].status = "Active"
        BY <1>3 DEF confirm_will, set_delegate, close_will, check_in, trigger_will,
                    save_will, SaveWithVotes, HasStatus
    <2>2. wills[id].status = "PendingConfirmation" => SameEstate(w1, wills[id])
        BY <1>1 DEF SameEstate, SameMoney, WillFields, LiveStatus
    <2>3. \A delegate : SameEstate(w2(delegate), wills[id])
        BY <1>1 DEF SameEstate, SameMoney, WillFields
    <2>4. wills[id].status = "Released" => SameEstate(w3, wills[id])
        BY <1>1 DEF SameEstate, SameMoney, WillFields
    <2>5. SameEstate(w4, wills[id])
        BY <1>1 DEF SameEstate, SameMoney, WillFields
    <2>6. wills[id].status = "Active" => SameEstate(w5, wills[id])
        BY <1>1 DEF SameEstate, SameMoney, WillFields, LiveStatus
    <2> HIDE DEF w1, w2, w3, w4, w5
    <2>7. \E w : wills' = Put(wills, id, w) /\ SameEstate(w, wills[id])
        BY <2>1, <2>2, <2>3, <2>4, <2>5, <2>6
    <2> QED  BY <1>2, <2>7, OneContinued
<1>4. CASE \E checkin, grace : update_periods(id, owner, checkin, grace)
    <2>1. PICK checkin, grace : wills' = Put(wills, id, WithPeriods(wills[id], checkin, grace))
        BY <1>4 DEF update_periods, save_will, SaveWithVotes
    <2>2. SameEstate(WithPeriods(wills[id], checkin, grace), wills[id])
        BY <1>1 DEF WithPeriods, SameEstate, SameMoney, WillFields
    <2> QED  BY <1>2, <2>1, <2>2, OneContinued
<1>5. CASE emergency_checkin(id, owner)
    <2> DEFINE w == sync_primary_balance(Revived(wills[id]))
    <2>1. wills' = Put(wills, id, w) /\ wills[id].status = "Triggered"
        BY <1>5 DEF emergency_checkin, SaveWithVotes, HasStatus
    <2>2. SameEstate(w, wills[id])
        BY <1>1, <2>1 DEF sync_primary_balance, Revived, SameEstate, SameMoney, WillFields, LiveStatus
    <2> QED  BY <1>2, <2>1, <2>2, OneContinued
<1> QED  BY <1>3, <1>4, <1>5

LEMMA BatchContinues ==
    ASSUME FieldsInv, NEW owner, NEW ids, batch_check_in(owner, ids)
    PROVE  Continued
<1>1. ASSUME NEW id \in DOMAIN wills
      PROVE  SameEstate([wills[id] EXCEPT !.last_checkin = now], wills[id])
    BY DEF FieldsInv, SameEstate, SameMoney, WillFields
<1>2. ASSUME NEW id \in DOMAIN wills
      PROVE  SameEstate(wills'[id], wills[id])
    <2>1. wills'[id] = wills[id] \/ wills'[id] = [wills[id] EXCEPT !.last_checkin = now]
        BY DEF batch_check_in, CheckedIn
    <2>2. SameEstate(wills[id], wills[id])
        BY DEF SameEstate, SameMoney
    <2> QED  BY <1>1, <2>1, <2>2
<1>3. DOMAIN wills' = DOMAIN wills /\ UNCHANGED <<owner_wills, beneficiary_wills, protocol_stats>>
    BY DEF batch_check_in, CheckedIn, OnlyTheWill, indexes
<1> QED  BY <1>2, <1>3 DEF Continued

\* A guardian's vote either leaves the estate alone or pays it out.
LEMMA GuardianContinues ==
    ASSUME FieldsInv, NEW id \in DOMAIN wills, NEW guardian, NEW refused,
           \/ guardian_trigger(id, guardian, refused)
           \/ guardian_cancel_trigger(id, guardian)
           \/ accept_guardian_role(id, guardian)
           \/ reject_guardian_role(id, guardian)
    PROVE  \/ Continued
           \/ \E w, records : /\ w = Tallied(id, wills[id], records)
                              /\ SameEstate(w, wills[id]) /\ DOMAIN w = DOMAIN wills[id]
                              /\ wills[id].status = "Active"
                              /\ distribute(id, w, NoAccount, refused, protocol_stats, records)
<1>1. WillFields \subseteq DOMAIN wills[id]
    BY DEF FieldsInv
<1>2. CASE guardian_trigger(id, guardian, refused)
    <2> DEFINE records == [guardian_vote EXCEPT ![id][guardian] = now]
               w       == Tallied(id, wills[id], records)
    <2>1. SameEstate(w, wills[id]) /\ DOMAIN w = DOMAIN wills[id]
        BY <1>1 DEF Tallied, SameEstate, SameMoney, WillFields
    <2>2. \/ wills[id].status = "Active"
             /\ distribute(id, w, NoAccount, refused, protocol_stats, records)
          \/ /\ wills' = Put(wills, id, w)
             /\ UNCHANGED <<owner_wills, beneficiary_wills, protocol_stats>>
        BY <1>2 DEF guardian_trigger, SaveWithVotes, HasStatus, OnlyTheWill, indexes
    <2>3. w = Tallied(id, wills[id], records)
        OBVIOUS
    <2> HIDE DEF w, records
    <2> QED  BY <2>1, <2>2, <2>3, OneContinued
<1>3. CASE guardian_cancel_trigger(id, guardian)
    <2> DEFINE w == CancelTallied(id, wills[id],
                                  [guardian_cancel_vote EXCEPT ![id][guardian] = now])
    <2>1. SameEstate(w, wills[id]) /\ WillFields \subseteq DOMAIN w /\ w.status = wills[id].status
        BY <1>1 DEF CancelTallied, SameEstate, SameMoney, WillFields
    <2>2. /\ wills' = Put(wills, id, Revived(w)) \/ wills' = Put(wills, id, w)
          /\ wills[id].status = "Triggered"
          /\ UNCHANGED <<owner_wills, beneficiary_wills, protocol_stats>>
        BY <1>3 DEF guardian_cancel_trigger, SaveWithVotes, HasStatus, OnlyTheWill, indexes
    <2> HIDE DEF w
    <2>3. SameEstate(Revived(w), wills[id])
        BY <2>1, <2>2 DEF Revived, SameEstate, SameMoney, WillFields, LiveStatus
    <2> QED  BY <2>1, <2>2, <2>3, OneContinued
<1>4. CASE accept_guardian_role(id, guardian) \/ reject_guardian_role(id, guardian)
    <2> DEFINE w1 == [wills[id] EXCEPT !.guardians[guardian].consent = "Accepted"]
               w2 == Withdrawn(id, wills[id], guardian)
    <2>1. wills' = Put(wills, id, w1) \/ wills' = Put(wills, id, w2)
        BY <1>4 DEF accept_guardian_role, reject_guardian_role, save_will, SaveWithVotes
    <2>2. SameEstate(w1, wills[id])
        BY <1>1 DEF SameEstate, SameMoney, WillFields
    <2>3. SameEstate(w2, wills[id])
        BY <1>1 DEF Withdrawn, SameEstate, SameMoney, WillFields
    <2> HIDE DEF w1, w2
    <2>4. \E w : wills' = Put(wills, id, w) /\ SameEstate(w, wills[id])
        BY <2>1, <2>2, <2>3
    <2>5. UNCHANGED <<owner_wills, beneficiary_wills, protocol_stats>>
        BY <1>4 DEF accept_guardian_role, reject_guardian_role, OnlyTheWill, indexes
    <2> QED  BY <2>4, <2>5, OneContinued
<1> QED  BY <1>2, <1>3, <1>4

LEMMA AppointContinues ==
    ASSUME FieldsInv, NEW id \in DOMAIN wills, NEW owner,
           \/ \E list : update_guardians(id, owner, list)
           \/ \E list, given : update_guardians_weighted(id, owner, list, given)
    PROVE  Continued
<1>1. WillFields \subseteq DOMAIN wills[id]
    BY DEF FieldsInv
<1>2. PICK guardians, threshold : ReplaceGuardians(id, guardians, threshold)
    BY DEF update_guardians, update_guardians_weighted
<1> DEFINE w == WithGuardians(wills[id], guardians, threshold)
<1>3. wills' = Put(wills, id, w) /\ SameEstate(w, wills[id])
    BY <1>1, <1>2
    DEF ReplaceGuardians, WithGuardians, SaveWithVotes, SameEstate, SameMoney, WillFields
<1>4. UNCHANGED <<owner_wills, beneficiary_wills, protocol_stats>>
    BY <1>2 DEF ReplaceGuardians, OnlyTheWill, indexes
<1> QED  BY <1>3, <1>4, OneContinued

----------------------------------------------------------------------------
(* What is left in a will that is over *)

Commitment == [claimant : Accounts, salt : Nat, percentage : Nat \ {0}, claimed : BOOLEAN]

PaidOut(w) ==
    /\ \A t \in DOMAIN w.balances : w.balances[t] \in Int
    /\ w.hashed_beneficiaries \in Seq(Commitment)
    /\ w.keeper_bounty_bps \in Nat
    /\ w.status = "Cancelled" => w.balances = << >>
    /\ w.status \in {"Released", "Settled"}
       /\ unclaimed_hashed_bps(w.hashed_beneficiaries) = 0
            => \A t \in DOMAIN w.balances : w.balances[t] = 0

PaidInv == \A id \in DOMAIN wills : PaidOut(wills[id])

Mirrored(w) == w.balance = BalanceOf(w.balances, w.token)

LEMMA SameMoneyPaid ==
    ASSUME NEW v, PaidOut(v), NEW w, SameMoney(w, v)
    PROVE  PaidOut(w) /\ (Mirrored(v) => Mirrored(w))
BY DEF PaidOut, SameMoney, Mirrored, LiveStatus

LEMMA SavedPaid ==
    ASSUME PaidInv, NEW id, NEW w, wills' = Put(wills, id, w), PaidOut(w),
           MirrorAgrees => Mirrored(w)
    PROVE  PaidInv' /\ (MirrorAgrees => MirrorAgrees')
BY DEF PaidInv, MirrorAgrees, Mirrored, Put

LEMMA ContinuedPaid ==
    ASSUME PaidInv, Continued
    PROVE  PaidInv' /\ (MirrorAgrees => MirrorAgrees')
<1>1. ASSUME NEW id \in DOMAIN wills
      PROVE  PaidOut(wills'[id]) /\ (Mirrored(wills[id]) => Mirrored(wills'[id]))
    BY SameMoneyPaid DEF PaidInv, Continued, SameEstate
<1> QED  BY <1>1 DEF PaidInv, Continued, MirrorAgrees, Mirrored

LEMMA ListFinite ==
    ASSUME NEW S, NEW list \in Seq(S)
    PROVE  IsFiniteSet(DOMAIN list)
BY FS_Interval

LEMMA UnclaimedType ==
    ASSUME NEW hashed \in Seq(Commitment)
    PROVE  /\ IsFiniteSet(Unclaimed(hashed))
           /\ \A i \in DOMAIN hashed : HashedBps(hashed)[i] \in Nat \ {0}
           /\ unclaimed_hashed_bps(hashed) \in Int
<1>1. Unclaimed(hashed) \subseteq DOMAIN hashed
    BY DEF Unclaimed
<1>2. IsFiniteSet(Unclaimed(hashed))
    BY <1>1, ListFinite, FS_Subset
<1>3. ASSUME NEW i \in DOMAIN hashed
      PROVE  HashedBps(hashed)[i] \in Nat \ {0}
    <2>1. hashed[i] \in Commitment
        OBVIOUS
    <2> QED  BY <2>1 DEF HashedBps, Commitment
<1>4. \A i \in Unclaimed(hashed) : HashedBps(hashed)[i] \in Int
    BY <1>1, <1>3
<1> QED  BY <1>2, <1>3, <1>4, SumType DEF unclaimed_hashed_bps

LEMMA ShareType ==
    ASSUME NEW total \in Int, NEW bps \in Int
    PROVE  proportional_share(total, bps) \in Int
<1>1. total \div 10000 \in Int /\ total % 10000 \in Int
    OBVIOUS
<1> DEFINE q == total \div 10000
           r == total % 10000
<1> HIDE DEF q, r
<1>2. q \in Int /\ r \in Int
    BY <1>1 DEF q, r
<1>3. q * bps \in Int /\ r * bps \in Int
    BY <1>2
<1>4. (r * bps) \div 10000 \in Int
    BY <1>3
<1>5. q * bps + (r * bps) \div 10000 \in Int
    BY <1>3, <1>4
<1> QED  BY <1>5 DEF proportional_share, q, r

LEMMA ReserveType ==
    ASSUME NEW w, PaidOut(w), NEW keeper, NEW t \in DOMAIN w.balances
    PROVE  TokenPlan(w, keeper, t).reserve \in Int
<1>1. \E bounty \in {0, keeper_bounty(w.balances[t], w.keeper_bounty_bps)} :
        TokenPlan(w, keeper, t).reserve
            = proportional_share(w.balances[t] - bounty,
                                 unclaimed_hashed_bps(w.hashed_beneficiaries))
    BY DEF TokenPlan
<1>2. w.balances[t] \in Int /\ w.keeper_bounty_bps \in Int
    BY DEF PaidOut
<1>3. keeper_bounty(w.balances[t], w.keeper_bounty_bps) \in Int
    BY <1>2, ShareType DEF keeper_bounty
<1>4. unclaimed_hashed_bps(w.hashed_beneficiaries) \in Int
    BY UnclaimedType DEF PaidOut
<1>5. PICK bounty \in Int :
        TokenPlan(w, keeper, t).reserve
            = proportional_share(w.balances[t] - bounty,
                                 unclaimed_hashed_bps(w.hashed_beneficiaries))
    BY <1>1, <1>3
<1>6. w.balances[t] - bounty \in Int
    BY <1>2
<1> QED  BY <1>4, <1>5, <1>6, ShareType

LEMMA ReleasePaid ==
    ASSUME PaidInv, NEW id \in DOMAIN wills, NEW w, PaidOut(w), WillFields \subseteq DOMAIN w,
           NEW keeper, NEW refused, NEW stats, NEW records,
           distribute(id, w, keeper, refused, stats, records)
    PROVE  PaidInv' /\ (MirrorAgrees => MirrorAgrees')
<1> DEFINE left     == HashedReserves(w, DistributionPlan(w, keeper))
           released == [w EXCEPT !.balances = left,
                                 !.balance  = BalanceOf(left, w.token),
                                 !.status   = "Released"]
<1>1. wills' = Put(wills, id, released)
    BY DEF distribute, SaveWithVotes
<1>2. \A t \in DOMAIN left : left[t] \in Int
    BY ReserveType DEF HashedReserves, DistributionPlan, FundedTokens
<1>3. unclaimed_hashed_bps(w.hashed_beneficiaries) = 0 => DOMAIN left = {}
    BY DEF HashedReserves
<1> HIDE DEF left
<1>4. /\ released.balances = left /\ released.status = "Released"
      /\ released.token = w.token /\ released.balance = BalanceOf(left, w.token)
      /\ released.hashed_beneficiaries = w.hashed_beneficiaries
      /\ released.keeper_bounty_bps = w.keeper_bounty_bps
    BY DEF WillFields
<1> HIDE DEF released
<1>5. PaidOut(released) /\ Mirrored(released)
    BY <1>2, <1>3, <1>4 DEF PaidOut, Mirrored
<1> QED  BY <1>1, <1>5, SavedPaid

LEMMA CancelPaid ==
    ASSUME PaidInv, FieldsInv, NEW id \in DOMAIN wills, NEW owner, cancel_will(id, owner)
    PROVE  PaidInv' /\ (MirrorAgrees => MirrorAgrees')
<1> DEFINE cancelled == [wills[id] EXCEPT !.balance  = 0,
                                          !.balances = << >>,
                                          !.status   = "Cancelled"]
<1>1. wills' = Put(wills, id, cancelled)
    BY DEF cancel_will, save_will, SaveWithVotes
<1>2. /\ cancelled.balances = << >> /\ cancelled.status = "Cancelled" /\ cancelled.balance = 0
      /\ cancelled.hashed_beneficiaries = wills[id].hashed_beneficiaries
      /\ cancelled.keeper_bounty_bps = wills[id].keeper_bounty_bps
    BY DEF FieldsInv, WillFields
<1> HIDE DEF cancelled
<1>3. PaidOut(cancelled) /\ Mirrored(cancelled)
    BY <1>2 DEF PaidInv, PaidOut, Mirrored, BalanceOf
<1> QED  BY <1>1, <1>3, SavedPaid

LEMMA TopUpPaid ==
    ASSUME PaidInv, FieldsInv, NEW id \in DOMAIN wills, NEW owner, NEW t, NEW amount \in Nat,
           top_up(id, owner, t, amount)
    PROVE  PaidInv' /\ (MirrorAgrees => MirrorAgrees')
<1> DEFINE balances == Put(wills[id].balances, t, BalanceOf(wills[id].balances, t) + amount)
           w        == sync_primary_balance([wills[id] EXCEPT !.balances = balances])
<1>1. wills' = Put(wills, id, w) /\ wills[id].status = "Active"
    BY DEF top_up, save_will, SaveWithVotes, HasStatus
<1>2. PaidOut(wills[id])
    BY DEF PaidInv
<1>3. \A x \in DOMAIN balances : balances[x] \in Int
    <2>1. BalanceOf(wills[id].balances, t) \in Int
        BY <1>2 DEF PaidOut, BalanceOf
    <2>2. BalanceOf(wills[id].balances, t) + amount \in Int
        BY <2>1
    <2> QED  BY <1>2, <2>2 DEF PaidOut, Put
<1> HIDE DEF balances
<1>4. /\ w.balances = balances /\ w.balance = BalanceOf(balances, w.token)
      /\ w.status = wills[id].status
      /\ w.hashed_beneficiaries = wills[id].hashed_beneficiaries
      /\ w.keeper_bounty_bps = wills[id].keeper_bounty_bps
    BY DEF sync_primary_balance, FieldsInv, WillFields
<1> HIDE DEF w
<1>5. PaidOut(w) /\ Mirrored(w)
    BY <1>1, <1>2, <1>3, <1>4 DEF PaidOut, Mirrored
<1> QED  BY <1>1, <1>5, SavedPaid

LEMMA HeirsKeepMoney ==
    ASSUME FieldsInv, NEW id \in DOMAIN wills, NEW owner, NEW heir,
           \/ \E list : update_beneficiaries(id, owner, list)
           \/ \E s \in Settings : update_will_settings(id, owner, s)
           \/ renounce_beneficiary(id, heir)
    PROVE  \E w : wills' = Put(wills, id, w) /\ SameMoney(w, wills[id])
<1>0. WillFields \subseteq DOMAIN wills[id]
    BY DEF FieldsInv
<1> DEFINE w0(list) == [wills[id] EXCEPT !.beneficiaries = list]
<1>1. \A list : SameMoney(w0(list), wills[id]) /\ WillFields \subseteq DOMAIN w0(list)
    BY <1>0 DEF SameMoney, WillFields
<1>2. CASE (\E list : update_beneficiaries(id, owner, list)) \/ renounce_beneficiary(id, heir)
    <2>1. \E list : wills' = Put(wills, id, w0(list))
        BY <1>2 DEF update_beneficiaries, renounce_beneficiary, save_will, SaveWithVotes
    <2> QED  BY <1>1, <2>1
<1>3. CASE \E s \in Settings : update_will_settings(id, owner, s)
    <2>1. PICK s : update_will_settings(id, owner, s)
        BY <1>3
    <2> DEFINE w1(list) == WithPeriods(w0(list), s.checkin, s.grace)
    <2>2. PICK list, guardians, threshold :
                \/ wills' = Put(wills, id, w1(list))
                \/ wills' = Put(wills, id, WithGuardians(w1(list), guardians, threshold))
        BY <2>1 DEF update_will_settings, save_will, SaveWithVotes
    <2> HIDE DEF w0
    <2>3. SameMoney(w1(list), wills[id]) /\ WillFields \subseteq DOMAIN w1(list)
        BY <1>1 DEF WithPeriods, SameMoney, WillFields
    <2> HIDE DEF w1
    <2>4. SameMoney(WithGuardians(w1(list), guardians, threshold), wills[id])
        BY <2>3 DEF WithGuardians, SameMoney, WillFields
    <2> QED  BY <2>2, <2>3, <2>4
<1> QED  BY <1>2, <1>3

LEMMA HeirsPaid ==
    ASSUME PaidInv, FieldsInv, NEW id \in DOMAIN wills, NEW owner, NEW heir,
           \/ \E list : update_beneficiaries(id, owner, list)
           \/ \E s \in Settings : update_will_settings(id, owner, s)
           \/ renounce_beneficiary(id, heir)
    PROVE  PaidInv' /\ (MirrorAgrees => MirrorAgrees')
<1>1. PaidOut(wills[id])
    BY DEF PaidInv
<1> QED  BY <1>1, HeirsKeepMoney, SameMoneyPaid, SavedPaid DEF MirrorAgrees, Mirrored

LEMMA HashedPaid ==
    ASSUME PaidInv, FieldsInv, NEW id \in DOMAIN wills, NEW owner, NEW h \in HashedShares,
           add_hashed_beneficiary(id, owner, h)
    PROVE  PaidInv' /\ (MirrorAgrees => MirrorAgrees')
<1> DEFINE new == [claimant |-> h.claimant, salt |-> h.salt,
                   percentage |-> h.percentage, claimed |-> FALSE]
           hashed == Append(wills[id].hashed_beneficiaries, new)
           w == [wills[id] EXCEPT !.hashed_beneficiaries = hashed]
<1>1. /\ wills' = Put(wills, id, w) /\ wills[id].status = "Active" /\ h.percentage > 0
    BY DEF add_hashed_beneficiary, save_will, SaveWithVotes, HasStatus,
           assert_valid_hashed_beneficiary
<1>2. PaidOut(wills[id])
    BY DEF PaidInv
<1>3. new \in Commitment
    BY <1>1, EstateInputsAssumption DEF Commitment
<1>4. hashed \in Seq(Commitment)
    BY <1>2, <1>3 DEF PaidOut
<1> HIDE DEF hashed
<1>5. /\ w.balances = wills[id].balances /\ w.balance = wills[id].balance
      /\ w.token = wills[id].token /\ w.status = wills[id].status
      /\ w.hashed_beneficiaries = hashed /\ w.keeper_bounty_bps = wills[id].keeper_bounty_bps
    BY DEF FieldsInv, WillFields
<1> HIDE DEF w
<1>6. PaidOut(w) /\ (MirrorAgrees => Mirrored(w))
    BY <1>1, <1>2, <1>4, <1>5 DEF PaidOut, Mirrored, MirrorAgrees
<1> QED  BY <1>1, <1>6, SavedPaid

\* The last claim takes the whole: the share b * p \div p is b.
LEMMA WholeShare ==
    ASSUME NEW b \in Int, NEW p \in Nat \ {0}
    PROVE  (b * p) \div p = b
OBVIOUS

LEMMA PartShareType ==
    ASSUME NEW b \in Int, NEW p \in Nat, NEW q \in Int, q > 0
    PROVE  b - (b * p) \div q \in Int
<1>1. b * p \in Int
    OBVIOUS
<1>2. \A x \in Int : x \div q \in Int
    OBVIOUS
<1> QED  BY <1>1, <1>2

LEMMA ClaimPaid ==
    ASSUME PaidInv, FieldsInv, NEW id \in DOMAIN wills, NEW claimant, NEW salt,
           reveal_and_claim(id, claimant, salt)
    PROVE  PaidInv' /\ (MirrorAgrees => MirrorAgrees')
<1> DEFINE v      == wills[id]
           hashed == v.hashed_beneficiaries
           open   == unclaimed_hashed_bps(hashed)
           Left(i) == [t \in DOMAIN v.balances |->
                        v.balances[t] - (v.balances[t] * hashed[i].percentage) \div open]
           Claimed(i) == [v EXCEPT !.balances = Left(i),
                                   !.balance = BalanceOf(Left(i), v.token),
                                   !.hashed_beneficiaries[i].claimed = TRUE]
<1>1. PICK i \in DOMAIN hashed :
            /\ wills' = Put(wills, id, Claimed(i))
            /\ ~hashed[i].claimed
            /\ v.status = "Released"
    <2> DEFINE Shares(i) == [t \in DOMAIN v.balances |->
                              (v.balances[t] * hashed[i].percentage) \div open]
    <2>1. PICK i \in DOMAIN hashed :
            /\ ~hashed[i].claimed
            /\ save_will(id, [v EXCEPT
                    !.balances = [t \in DOMAIN v.balances |-> v.balances[t] - Shares(i)[t]],
                    !.balance = BalanceOf([t \in DOMAIN v.balances |->
                                                v.balances[t] - Shares(i)[t]], v.token),
                    !.hashed_beneficiaries[i].claimed = TRUE])
        BY DEF reveal_and_claim
    <2>2. [t \in DOMAIN v.balances |-> v.balances[t] - Shares(i)[t]] = Left(i)
        OBVIOUS
    <2>3. v.status = "Released"
        BY DEF reveal_and_claim, HasStatus
    <2> HIDE DEF Shares, Left
    <2> QED  BY <2>1, <2>2, <2>3 DEF save_will, SaveWithVotes
<1>2. PaidOut(v) /\ WillFields \subseteq DOMAIN v
    BY DEF PaidInv, FieldsInv
<1>3. hashed \in Seq(Commitment) /\ hashed[i] \in Commitment
    BY <1>1, <1>2 DEF PaidOut
<1> DEFINE w     == Claimed(i)
           after == [hashed EXCEPT ![i].claimed = TRUE]
<1>4. /\ w.balances = Left(i) /\ w.balance = BalanceOf(Left(i), v.token) /\ w.token = v.token
      /\ w.status = v.status /\ w.keeper_bounty_bps = v.keeper_bounty_bps
      /\ w.hashed_beneficiaries = after
    BY <1>2 DEF WillFields
<1>5. after \in Seq(Commitment)
    <2>1. [hashed[i] EXCEPT !.claimed = TRUE] \in Commitment
        BY <1>3 DEF Commitment
    <2>2. after = [hashed EXCEPT ![i] = [hashed[i] EXCEPT !.claimed = TRUE]]
        BY <1>1
    <2> QED  BY <1>3, <2>1, <2>2
<1>6. /\ i \in Unclaimed(hashed) /\ Unclaimed(after) = Unclaimed(hashed) \ {i}
      /\ HashedBps(after) = HashedBps(hashed)
    <2>1. hashed[i] \in [claimant : Accounts, salt : Nat, percentage : Nat \ {0}, claimed : BOOLEAN]
        BY <1>3 DEF Commitment
    <2>2. /\ DOMAIN after = DOMAIN hashed /\ after[i].claimed = TRUE
          /\ after[i].percentage = hashed[i].percentage
          /\ \A j \in DOMAIN hashed : j # i => after[j] = hashed[j]
        BY <1>1, <2>1
    <2> HIDE DEF after
    <2> QED  BY <1>1, <2>2 DEF Unclaimed, HashedBps
<1> DEFINE p    == hashed[i].percentage
           rest == unclaimed_hashed_bps(after)
<1>7. /\ p \in Nat \ {0} /\ open \in Int /\ rest \in Int /\ open = p + rest /\ open > 0
    <2>1. p \in Nat \ {0}
        BY <1>3 DEF Commitment
    <2>2. /\ IsFiniteSet(Unclaimed(hashed)) /\ open \in Int /\ rest \in Int
          /\ \A j \in DOMAIN hashed : HashedBps(hashed)[j] \in Nat \ {0}
        BY <1>3, <1>5, UnclaimedType
    <2>3. \A j \in Unclaimed(hashed) : HashedBps(hashed)[j] \in Nat
        BY <2>2 DEF Unclaimed
    <2>4. open = HashedBps(hashed)[i] + SumFunctionOnSet(HashedBps(hashed), Unclaimed(hashed) \ {i})
        BY <1>6, <2>2, <2>3, SumTakeOut DEF unclaimed_hashed_bps
    <2>5. rest = SumFunctionOnSet(HashedBps(hashed), Unclaimed(hashed) \ {i})
        BY <1>6 DEF unclaimed_hashed_bps
    <2>6. HashedBps(hashed)[i] = p
        BY <1>1 DEF HashedBps
    <2>7. rest >= 0
        <3>1. IsFiniteSet(Unclaimed(hashed) \ {i})
            BY <2>2, FS_Subset
        <3> QED  BY <2>3, <2>5, <3>1, SumGrows
    <2> HIDE DEF p, open, rest
    <2> QED  BY <2>1, <2>2, <2>4, <2>5, <2>6, <2>7
<1>8. \A t \in DOMAIN v.balances : v.balances[t] \in Int
    BY <1>2 DEF PaidOut
<1>9. \A t \in DOMAIN Left(i) : Left(i)[t] \in Int
    <2> SUFFICES ASSUME NEW t \in DOMAIN v.balances
                 PROVE  v.balances[t] - (v.balances[t] * p) \div open \in Int
        OBVIOUS
    <2> HIDE DEF p, open
    <2> QED  BY <1>7, <1>8, PartShareType
<1>10. rest = 0 => \A t \in DOMAIN Left(i) : Left(i)[t] = 0
    <2> SUFFICES ASSUME rest = 0, NEW t \in DOMAIN v.balances
                 PROVE  v.balances[t] - (v.balances[t] * p) \div open = 0
        OBVIOUS
    <2>1. open = p
        <3> HIDE DEF open, p, rest
        <3> QED  BY <1>7
    <2>2. (v.balances[t] * p) \div p = v.balances[t]
        <3> HIDE DEF p
        <3> QED  BY <1>7, <1>8, WholeShare
    <2>3. \A x \in Int : x - x = 0
        OBVIOUS
    <2> HIDE DEF p, open
    <2> QED  BY <1>8, <2>1, <2>2, <2>3
<1>11. /\ \A t \in DOMAIN w.balances : w.balances[t] \in Int
       /\ w.hashed_beneficiaries \in Seq(Commitment)
       /\ w.keeper_bounty_bps \in Nat
       /\ w.status = "Released"
       /\ unclaimed_hashed_bps(w.hashed_beneficiaries) = 0
            => \A t \in DOMAIN w.balances : w.balances[t] = 0
       /\ w.balance = BalanceOf(w.balances, w.token)
    <2> HIDE DEF w, Left, after
    <2> QED  BY <1>1, <1>2, <1>4, <1>5, <1>9, <1>10 DEF PaidOut
<1>12. wills' = Put(wills, id, w)
    BY <1>1
<1> HIDE DEF w
<1>13. PaidOut(w) /\ Mirrored(w)
    BY <1>11 DEF PaidOut, Mirrored
<1> QED  BY <1>12, <1>13, SavedPaid

----------------------------------------------------------------------------
(* The money of new wills *)

LEMMA PurseType ==
    ASSUME NEW tokens, tokens \in TokenLists
    PROVE  /\ DOMAIN BalancesOf(tokens) = {tokens[i][1] : i \in DOMAIN tokens}
           /\ \A t \in DOMAIN BalancesOf(tokens) : BalancesOf(tokens)[t] \in Nat
           /\ \A t : BalanceOf(BalancesOf(tokens), t) \in Nat
<1> DEFINE Amount == [i \in DOMAIN tokens |-> tokens[i][2]]
           Naming(t) == {i \in DOMAIN tokens : tokens[i][1] = t}
<1>1. tokens \in Seq(Tokens \X Nat) /\ \A i \in DOMAIN tokens : tokens[i] \in Tokens \X Nat
    BY DEF TokenLists
<1>2. \A i \in DOMAIN tokens : Amount[i] \in Nat
    BY <1>1
<1>3. ASSUME NEW t
      PROVE  SumFunctionOnSet(Amount, Naming(t)) \in Nat
    <2>1. IsFiniteSet(Naming(t))
        BY <1>1, ListFinite, FS_Subset
    <2>2. \A i \in Naming(t) : Amount[i] \in Nat
        BY <1>2
    <2> HIDE DEF Amount, Naming
    <2>3. \A i \in Naming(t) : Amount[i] \in Nat /\ Amount[i] <= Amount[i]
        BY <2>2
    <2> QED  BY <2>1, <2>2, <2>3, SumGrows
<1>4. BalancesOf(tokens) = [t \in {tokens[i][1] : i \in DOMAIN tokens} |->
                                SumFunctionOnSet(Amount, Naming(t))]
    BY DEF BalancesOf
<1> HIDE DEF Amount, Naming
<1>5. \A t \in DOMAIN BalancesOf(tokens) : BalancesOf(tokens)[t] \in Nat
    BY <1>3, <1>4
<1> QED  BY <1>4, <1>5 DEF BalanceOf

\* A token named once is held in the amount it is named with.
LEMMA NamedOnce ==
    ASSUME NEW tokens, tokens \in TokenLists, NEW k \in DOMAIN tokens,
           NoDuplicates([i \in DOMAIN tokens |-> tokens[i][1]])
    PROVE  BalancesOf(tokens)[tokens[k][1]] = tokens[k][2]
<1> DEFINE Amount == [i \in DOMAIN tokens |-> tokens[i][2]]
           t == tokens[k][1]
<1>1. {i \in DOMAIN tokens : tokens[i][1] = t} = {k}
    BY DEF NoDuplicates, IsInjective
<1>2. BalancesOf(tokens)[t] = SumFunctionOnSet(Amount, {k})
    BY <1>1 DEF BalancesOf
<1>3. tokens[k] \in Tokens \X Nat
    BY DEF TokenLists
<1>4. Amount[k] = tokens[k][2] /\ Amount[k] \in Int
    BY <1>3
<1>5. IsFiniteSet({k}) /\ {k} \ {k} = {}
    BY FS_Singleton
<1> HIDE DEF Amount
<1>6. \A i \in {k} : Amount[i] \in Int
    BY <1>4
<1>7. SumFunctionOnSet(Amount, {k}) = Amount[k] + SumFunctionOnSet(Amount, {k} \ {k})
    BY <1>5, <1>6, SumTakeOut
<1>8. SumFunctionOnSet(Amount, {}) = 0
    BY SumOfNone
<1>9. SumFunctionOnSet(Amount, {k}) = Amount[k] + 0
    BY <1>5, <1>7, <1>8
<1> QED  BY <1>2, <1>4, <1>9

\* A new will that holds exactly its purse.
LEMMA FundedPaid ==
    ASSUME NEW w, NEW tokens, tokens \in TokenLists, 1 \in DOMAIN tokens,
           w.balances = BalancesOf(tokens), w.token = tokens[1][1],
           w.hashed_beneficiaries = << >>, w.keeper_bounty_bps \in Nat,
           w.status \in {"Active", "PendingConfirmation"}
    PROVE  /\ PaidOut(w)
           /\ BalanceOf(w.balances, w.token) = BalancesOf(tokens)[tokens[1][1]]
<1>1. \A t \in DOMAIN w.balances : w.balances[t] \in Int
    <2>1. \A t \in DOMAIN w.balances : w.balances[t] \in Nat
        BY PurseType
    <2> QED  BY <2>1
<1>2. w.token \in DOMAIN w.balances
    BY PurseType
<1>3. << >> \in Seq(Commitment)
    OBVIOUS
<1> QED  BY <1>1, <1>2, <1>3 DEF PaidOut, BalanceOf

LEMMA NewWillPaid ==
    ASSUME NEW owner, NEW form \in SetOfForms, ValidForm(owner, form)
    PROVE  PaidOut(NewWill(owner, form)) /\ Mirrored(NewWill(owner, form))
<1> DEFINE w == NewWill(owner, form)
<1>1. form.tokens \in TokenLists /\ form.bounty \in Nat
    BY DEF SetOfForms, TokenLists
<1>2. 1 \in DOMAIN form.tokens
    BY <1>1, BoundsAssumption DEF ValidForm, TokenLists
<1>3. /\ w.balances = BalancesOf(form.tokens) /\ w.token = form.tokens[1][1]
      /\ w.balance = BalancesOf(form.tokens)[form.tokens[1][1]]
      /\ w.hashed_beneficiaries = << >> /\ w.keeper_bounty_bps = form.bounty
      /\ w.status \in {"Active", "PendingConfirmation"}
    BY DEF NewWill
<1> HIDE DEF w
<1>4. PaidOut(w) /\ Mirrored(w)
    BY <1>1, <1>2, <1>3, FundedPaid DEF Mirrored
<1> QED  BY <1>4 DEF w

LEMMA CreatePaid ==
    ASSUME PaidInv, NEW owner, NEW form \in CreateForms, create_will(owner, form)
    PROVE  PaidInv' /\ (MirrorAgrees => MirrorAgrees')
<1>1. ValidForm(owner, form) /\ wills' = Put(wills, next_will_id + 1, NewWill(owner, form))
    BY DEF create_will, save_will, SaveWithVotes
<1>2. form \in SetOfForms
    BY InputsAssumption
<1> QED  BY <1>1, <1>2, NewWillPaid, SavedPaid

LEMMA ValidPurse ==
    ASSUME NEW tokens, tokens \in TokenLists, ValidTokens(tokens)
    PROVE  1 \in DOMAIN tokens
BY BoundsAssumption DEF ValidTokens, TokenLists

\* clone_will writes the first amount named into the mirror, which is right as
\* long as no purse names a token twice.
DistinctPurses ==
    \A tokens \in ClonePurses : NoDuplicates([i \in DOMAIN tokens |-> tokens[i][1]])

LEMMA ClonePaid ==
    ASSUME PaidInv, FieldsInv, NEW source \in DOMAIN wills, NEW owner, NEW tokens \in ClonePurses,
           clone_will(source, owner, tokens)
    PROVE  PaidInv' /\ (DistinctPurses /\ MirrorAgrees => MirrorAgrees')
<1> DEFINE w == Descendant(wills[source], owner, BalancesOf(tokens), tokens[1][1], tokens[1][2])
<1>1. ValidTokens(tokens) /\ wills' = Put(wills, next_will_id + 1, w)
    BY DEF clone_will, save_will, SaveWithVotes
<1>2. tokens \in TokenLists /\ 1 \in DOMAIN tokens
    BY <1>1, PortfolioInputsAssumption, ValidPurse
<1>3. WillFields \subseteq DOMAIN wills[source] /\ wills[source].keeper_bounty_bps \in Nat
    BY DEF FieldsInv, PaidInv, PaidOut
<1>4. /\ w.balances = BalancesOf(tokens) /\ w.token = tokens[1][1]
      /\ w.balance = tokens[1][2] /\ w.status = "Active"
      /\ w.hashed_beneficiaries = << >>
      /\ w.keeper_bounty_bps = wills[source].keeper_bounty_bps
    BY <1>3 DEF Descendant, WillFields
<1> HIDE DEF w
<1>5. /\ PaidOut(w)
      /\ BalanceOf(w.balances, w.token) = BalancesOf(tokens)[tokens[1][1]]
    BY <1>2, <1>3, <1>4, FundedPaid
<1>6. DistinctPurses => Mirrored(w)
    BY <1>2, <1>4, <1>5, NamedOnce DEF DistinctPurses, Mirrored
<1>7. PaidInv'
    BY <1>1, <1>5 DEF PaidInv, Put
<1>8. MirrorAgrees /\ Mirrored(w) => MirrorAgrees'
    BY <1>1 DEF MirrorAgrees, Mirrored, Put
<1> QED  BY <1>6, <1>7, <1>8

LEMMA PutTwice ==
    ASSUME NEW f, NEW a, NEW v, NEW b, NEW w, NEW x \in DOMAIN Put(Put(f, a, v), b, w)
    PROVE  LET g == Put(Put(f, a, v), b, w)
           IN  g[x] = v \/ g[x] = w \/ (x \in DOMAIN f /\ g[x] = f[x])
BY DEF Put

LEMMA SplitPaid ==
    ASSUME PaidInv, FieldsInv, NEW id \in DOMAIN wills, NEW owner, NEW split \in Splits,
           split_will(id, owner, split)
    PROVE  PaidInv' /\ (MirrorAgrees => MirrorAgrees')
<1> DEFINE child_id == next_will_id + 1
           moving   == BalancesOf(split.tokens)
           primary  == split.tokens[1][1]
           staying  == [t \in DOMAIN wills[id].balances |->
                            wills[id].balances[t] - BalanceOf(moving, t)]
           born     == Descendant(wills[id], wills[id].owner, moving, primary, moving[primary])
           Source(remaining) ==
                sync_primary_balance([wills[id] EXCEPT !.balances = staying,
                                                       !.beneficiaries = remaining])
           Child(parted) == [born EXCEPT !.beneficiaries = parted, !.keeper_bounty_bps = 0]
<1>1. /\ ValidTokens(split.tokens) /\ wills[id].status = "Active"
      /\ \E remaining, parted :
            wills' = Put(Put(wills, id, Source(remaining)), child_id, Child(parted))
    BY DEF split_will, HasStatus
<1>2. PICK remaining, parted :
            wills' = Put(Put(wills, id, Source(remaining)), child_id, Child(parted))
    BY <1>1
<1> DEFINE source == Source(remaining)
           child  == Child(parted)
<1>3. split.tokens \in TokenLists
    BY PortfolioInputsAssumption
<1>4. WillFields \subseteq DOMAIN wills[id] /\ PaidOut(wills[id])
    BY DEF FieldsInv, PaidInv
<1>5. \A t \in DOMAIN staying : staying[t] \in Int
    <2>1. ASSUME NEW t \in DOMAIN wills[id].balances
          PROVE  wills[id].balances[t] - BalanceOf(moving, t) \in Int
        <3>1. wills[id].balances[t] \in Int
            BY <1>4 DEF PaidOut
        <3>2. BalanceOf(moving, t) \in Nat
            BY <1>3, PurseType
        <3> QED  BY <3>1, <3>2
    <2> QED  BY <2>1
<1>6. PaidOut(source) /\ Mirrored(source)
    <2> HIDE DEF staying
    <2>1. /\ source.balances = staying /\ source.balance = BalanceOf(staying, source.token)
          /\ source.status = "Active"
          /\ source.hashed_beneficiaries = wills[id].hashed_beneficiaries
          /\ source.keeper_bounty_bps = wills[id].keeper_bounty_bps
        BY <1>1, <1>4 DEF sync_primary_balance, WillFields
    <2> HIDE DEF source
    <2> QED  BY <1>4, <1>5, <2>1 DEF PaidOut, Mirrored
<1>7. PaidOut(child) /\ Mirrored(child)
    <2> HIDE DEF moving, primary
    <2>1. /\ born.balances = moving /\ born.balance = moving[primary]
          /\ born.token = primary /\ born.status = "Active"
          /\ born.hashed_beneficiaries = << >> /\ WillFields \subseteq DOMAIN born
        BY <1>4 DEF Descendant, WillFields
    <2> HIDE DEF born
    <2>2. /\ child.balances = moving /\ child.balance = moving[primary]
          /\ child.token = primary /\ child.status = "Active"
          /\ child.hashed_beneficiaries = << >>
          /\ child.keeper_bounty_bps = 0
        BY <2>1 DEF WillFields
    <2> HIDE DEF child
    <2>3. PaidOut(child) /\ BalanceOf(child.balances, child.token) = moving[primary]
        BY <1>1, <1>3, <2>2, ValidPurse, FundedPaid DEF moving, primary
    <2> QED  BY <2>2, <2>3 DEF Mirrored
<1> HIDE DEF source, child
<1>8. ASSUME NEW x \in DOMAIN wills'
      PROVE  wills'[x] = child \/ wills'[x] = source \/ (x \in DOMAIN wills /\ wills'[x] = wills[x])
    BY <1>2, PutTwice DEF source, child
<1> QED  BY <1>6, <1>7, <1>8 DEF PaidInv, MirrorAgrees, Mirrored

LEMMA BatchPaid ==
    ASSUME PaidInv, LifecycleInv, NEW owner, NEW forms \in Batches,
           batch_create_wills(owner, forms)
    PROVE  PaidInv' /\ (MirrorAgrees => MirrorAgrees')
<1> DEFINE ids == (next_will_id + 1)..(next_will_id + Len(forms))
           Form(id) == [forms[id - next_will_id] EXCEPT !.bounty = 0, !.delay = 0]
           fresh == [id \in ids |-> NewWill(owner, Form(id))]
<1>1. /\ wills' = [id \in DOMAIN wills \cup ids |->
                        IF id \in ids THEN fresh[id] ELSE wills[id]]
      /\ \A id \in ids : ValidForm(owner, Form(id))
    BY DEF batch_create_wills
<1>2. ASSUME NEW id \in ids
      PROVE  PaidOut(fresh[id]) /\ Mirrored(fresh[id])
    <2>1. forms \in Seq(SetOfForms)
        BY PortfolioInputsAssumption
    <2>2. id - next_will_id \in DOMAIN forms
        <3>1. next_will_id \in Nat /\ Len(forms) \in Nat /\ DOMAIN forms = 1..Len(forms)
            BY <2>1 DEF LifecycleInv
        <3> QED  BY <3>1
    <2>3. forms[id - next_will_id] \in SetOfForms
        BY <2>1, <2>2
    <2>4. Form(id) \in SetOfForms
        BY <2>3 DEF SetOfForms
    <2> HIDE DEF Form
    <2> QED  BY <1>1, <2>4, NewWillPaid
<1> HIDE DEF ids, fresh
<1> QED  BY <1>1, <1>2 DEF PaidInv, MirrorAgrees, Mirrored

LEMMA MergePaid ==
    ASSUME PaidInv, FieldsInv, NEW owner, NEW a \in DOMAIN wills, NEW b \in DOMAIN wills,
           merge_wills(owner, a, b)
    PROVE  PaidInv' /\ (MirrorAgrees => MirrorAgrees')
<1> DEFINE balances == [t \in DOMAIN wills[a].balances \cup DOMAIN wills[b].balances |->
                            BalanceOf(wills[a].balances, t) + BalanceOf(wills[b].balances, t)]
<1>1. \E wa, wb :
        /\ wills' = Put(Put(wills, a, wa), b, wb)
        /\ wa.balances = balances /\ wa.balance = wills[a].balance + wills[b].balance
        /\ wa.token = wills[a].token /\ wa.status = "Active"
        /\ wa.hashed_beneficiaries = wills[a].hashed_beneficiaries
        /\ wa.keeper_bounty_bps = wills[a].keeper_bounty_bps
        /\ wb.balances = << >> /\ wb.balance = 0 /\ wb.status = "Cancelled"
        /\ wb.hashed_beneficiaries = wills[b].hashed_beneficiaries
        /\ wb.keeper_bounty_bps = wills[b].keeper_bounty_bps
    <2> DEFINE Merged(heirs, guardians, checkin, grace) ==
            [wills[a] EXCEPT !.beneficiaries         = heirs,
                             !.guardians             = guardians,
                             !.checkin_period_days   = checkin,
                             !.grace_period_days     = grace,
                             !.balances              = balances,
                             !.balance               = @ + wills[b].balance,
                             !.guardian_votes        = 0,
                             !.guardian_cancel_votes = 0]
               consumed == [wills[b] EXCEPT !.balances              = << >>,
                                            !.balance               = 0,
                                            !.status                = "Cancelled",
                                            !.guardian_votes        = 0,
                                            !.guardian_cancel_votes = 0]
    <2>1. /\ wills[a].status = "Active"
          /\ \E heirs, guardians, checkin, grace :
                wills' = Put(Put(wills, a, Merged(heirs, guardians, checkin, grace)), b, consumed)
        BY DEF merge_wills, HasStatus
    <2>2. WillFields \subseteq DOMAIN wills[a] /\ WillFields \subseteq DOMAIN wills[b]
        BY DEF FieldsInv
    <2> HIDE DEF balances
    <2>3. \A heirs, guardians, checkin, grace :
            LET wa == Merged(heirs, guardians, checkin, grace)
            IN  /\ wa.balances = balances /\ wa.balance = wills[a].balance + wills[b].balance
                /\ wa.token = wills[a].token /\ wa.status = wills[a].status
                /\ wa.hashed_beneficiaries = wills[a].hashed_beneficiaries
                /\ wa.keeper_bounty_bps = wills[a].keeper_bounty_bps
        BY <2>2 DEF WillFields
    <2>4. /\ consumed.balances = << >> /\ consumed.balance = 0 /\ consumed.status = "Cancelled"
          /\ consumed.hashed_beneficiaries = wills[b].hashed_beneficiaries
          /\ consumed.keeper_bounty_bps = wills[b].keeper_bounty_bps
        BY <2>2 DEF WillFields
    <2> HIDE DEF Merged, consumed
    <2> QED  BY <2>1, <2>3, <2>4
<1>2. PICK wa, wb :
        /\ wills' = Put(Put(wills, a, wa), b, wb)
        /\ wa.balances = balances /\ wa.balance = wills[a].balance + wills[b].balance
        /\ wa.token = wills[a].token /\ wa.status = "Active"
        /\ wa.hashed_beneficiaries = wills[a].hashed_beneficiaries
        /\ wa.keeper_bounty_bps = wills[a].keeper_bounty_bps
        /\ wb.balances = << >> /\ wb.balance = 0 /\ wb.status = "Cancelled"
        /\ wb.hashed_beneficiaries = wills[b].hashed_beneficiaries
        /\ wb.keeper_bounty_bps = wills[b].keeper_bounty_bps
    BY <1>1
<1>3. PaidOut(wills[a]) /\ PaidOut(wills[b]) /\ wills[a].token = wills[b].token
    BY DEF PaidInv, merge_wills
<1>4. \A t : BalanceOf(wills[a].balances, t) \in Int /\ BalanceOf(wills[b].balances, t) \in Int
    BY <1>3 DEF PaidOut, BalanceOf
<1>5. \A t \in DOMAIN balances : balances[t] \in Int
    BY <1>4
<1>6. \A t : BalanceOf(balances, t)
                = BalanceOf(wills[a].balances, t) + BalanceOf(wills[b].balances, t)
    BY <1>4 DEF BalanceOf
<1> HIDE DEF balances
<1>7. PaidOut(wa) /\ PaidOut(wb) /\ Mirrored(wb)
    BY <1>2, <1>3, <1>5 DEF PaidOut, Mirrored, BalanceOf
<1>8. MirrorAgrees => Mirrored(wa)
    BY <1>2, <1>3, <1>6 DEF MirrorAgrees, Mirrored
<1>9. ASSUME NEW x \in DOMAIN wills'
      PROVE  wills'[x] = wa \/ wills'[x] = wb \/ (x \in DOMAIN wills /\ wills'[x] = wills[x])
    BY <1>2, PutTwice
<1> QED  BY <1>7, <1>8, <1>9 DEF PaidInv, MirrorAgrees, Mirrored

----------------------------------------------------------------------------
(* Every entry point *)

LEMMA WillsLeftAlone ==
    ASSUME PaidInv, DOMAIN wills' \subseteq DOMAIN wills,
           \A id \in DOMAIN wills' : wills'[id] = wills[id]
    PROVE  PaidInv' /\ (MirrorAgrees => MirrorAgrees')
BY DEF PaidInv, MirrorAgrees

LEMMA StepPaid ==
    ASSUME PaidInv, FieldsInv, LifecycleInv, [PortfolioNext]_vars
    PROVE  PaidInv' /\ (DistinctPurses /\ MirrorAgrees => MirrorAgrees')
<1>1. CASE OwnerNext
    <2>1. ASSUME NEW owner \in Accounts, NEW form \in CreateForms, create_will(owner, form)
          PROVE  PaidInv' /\ (MirrorAgrees => MirrorAgrees')
        BY <2>1, CreatePaid
    <2>2. ASSUME NEW id \in DOMAIN wills, NEW owner \in Accounts,
                 \/ confirm_will(id, owner)
                 \/ \E delegate : set_delegate(id, owner, delegate)
                 \/ \E checkin, grace : update_periods(id, owner, checkin, grace)
                 \/ emergency_checkin(id, owner)
                 \/ close_will(id, owner)
          PROVE  PaidInv' /\ (MirrorAgrees => MirrorAgrees')
        BY <2>2, OwnerContinues, ContinuedPaid
    <2>3. ASSUME NEW id \in DOMAIN wills, NEW owner \in Accounts, cancel_will(id, owner)
          PROVE  PaidInv' /\ (MirrorAgrees => MirrorAgrees')
        BY <2>3, CancelPaid
    <2> QED  BY <1>1, <2>1, <2>2, <2>3 DEF OwnerNext
<1>2. CASE \E ids \in SUBSET DOMAIN wills : SignOfLife(ids)
    BY <1>2, OwnerContinues, BatchContinues, ContinuedPaid DEF SignOfLife
<1>3. CASE AnyoneNext
    <2>1. ASSUME NEW id \in DOMAIN wills, NEW keeper, NEW refused,
                 release_inheritance(id, keeper, refused)
          PROVE  PaidInv' /\ (MirrorAgrees => MirrorAgrees')
        BY <2>1, ReleasePaid DEF release_inheritance, PaidInv, FieldsInv
    <2>2. ASSUME NEW id \in DOMAIN wills, trigger_will(id)
          PROVE  PaidInv' /\ (MirrorAgrees => MirrorAgrees')
        BY <2>2, OwnerContinues, ContinuedPaid
    <2> QED  BY <1>3, <2>1, <2>2 DEF AnyoneNext
<1>4. CASE Tick \/ UNCHANGED vars
    BY <1>4, WillsLeftAlone DEF Tick, vars
<1>5. CASE GuardianNext
    <2>1. ASSUME NEW id \in DOMAIN wills, NEW guardian, NEW refused,
                 \/ guardian_trigger(id, guardian, refused)
                 \/ guardian_cancel_trigger(id, guardian)
                 \/ accept_guardian_role(id, guardian)
                 \/ reject_guardian_role(id, guardian)
          PROVE  PaidInv' /\ (MirrorAgrees => MirrorAgrees')
        <3>1. CASE Continued
            BY <3>1, ContinuedPaid
        <3>2. ASSUME NEW w, NEW records, SameEstate(w, wills[id]), DOMAIN w = DOMAIN wills[id],
                     distribute(id, w, NoAccount, refused, protocol_stats, records)
              PROVE  PaidInv' /\ (MirrorAgrees => MirrorAgrees')
            BY <3>2, SameMoneyPaid, ReleasePaid DEF SameEstate, PaidInv, FieldsInv
        <3> QED  BY <2>1, <3>1, <3>2, GuardianContinues
    <2> QED  BY <1>5, <2>1 DEF GuardianNext
<1>6. CASE AppointNext
    BY <1>6, AppointContinues, ContinuedPaid DEF AppointNext
<1>7. CASE EstateOwnerNext
    <2>1. ASSUME NEW id \in DOMAIN wills, NEW owner, NEW p \in TopUps,
                 top_up(id, owner, p[1], p[2])
          PROVE  PaidInv' /\ (MirrorAgrees => MirrorAgrees')
        BY <2>1, TopUpPaid, EstateInputsAssumption
    <2> QED  BY <1>7, <2>1, HeirsPaid, HashedPaid DEF EstateOwnerNext
<1>8. CASE EstateHeirNext
    <2>1. ASSUME NEW id \in DOMAIN wills, archive_will(id)
          PROVE  PaidInv' /\ (MirrorAgrees => MirrorAgrees')
        BY <2>1, WillsLeftAlone DEF archive_will, Without
    <2>2. ASSUME NEW id, NEW t, NEW recipient, retry_failed_payout(id, t, recipient)
          PROVE  PaidInv' /\ (MirrorAgrees => MirrorAgrees')
        BY <2>2, WillsLeftAlone DEF retry_failed_payout
    <2> QED  BY <1>8, <2>1, <2>2, HeirsPaid, ClaimPaid DEF EstateHeirNext
<1>9. CASE PortfolioOnlyNext
    <2>1. CASE repair_protocol_stats
        BY <2>1, WillsLeftAlone DEF repair_protocol_stats
    <2> QED  BY <1>9, <2>1, ClonePaid, SplitPaid, BatchPaid, MergePaid
             DEF PortfolioOnlyNext, MultiplyNext, Merging
<1> QED  BY <1>1, <1>2, <1>3, <1>4, <1>5, <1>6, <1>7, <1>8, <1>9
         DEF PortfolioNext, EstateNext, QuorumNext, LifecycleNext

\* A cancelled will holds nothing, and a released one nothing but what hashed
\* heirs may still claim: when the last of them has claimed, it is empty.
THEOREM OverIsPaidOut == PortfolioSpec => []OverMeansPaidOut
<1>1. LifecycleInit => PaidInv
    BY DEF LifecycleInit, StorageInit, PaidInv
<1>2. PaidInv /\ FieldsInv /\ LifecycleInv /\ [PortfolioNext]_vars => PaidInv'
    BY StepPaid
<1>3. PaidInv => OverMeansPaidOut
    BY DEF PaidInv, PaidOut, OverMeansPaidOut
<1> QED  BY <1>1, <1>2, <1>3, ContractInvariantHolds, FieldsHold, PTL DEF PortfolioSpec

\* Every entry point that moves money keeps the mirror, clone_will as long as
\* its purses name no token twice.
THEOREM MirrorHolds ==
    ASSUME DistinctPurses
    PROVE  PortfolioSpec => []MirrorAgrees
<1>1. LifecycleInit => PaidInv /\ MirrorAgrees
    BY DEF LifecycleInit, StorageInit, PaidInv, MirrorAgrees
<1>2. PaidInv /\ MirrorAgrees /\ FieldsInv /\ LifecycleInv /\ [PortfolioNext]_vars
        => PaidInv' /\ MirrorAgrees'
    BY StepPaid
<1> QED  BY <1>1, <1>2, ContractInvariantHolds, FieldsHold, PTL DEF PortfolioSpec

----------------------------------------------------------------------------
(* Lists of beneficiaries *)

LEMMA ListTotals ==
    ASSUME NEW list, list \in Seq(Beneficiary), NEW kind
    PROVE  /\ IsFiniteSet(OfKind(list, kind))
           /\ \A i \in DOMAIN list : Amounts(list)[i] = list[i].amount /\ list[i].amount \in Nat
           /\ \A s \in SUBSET OfKind(list, kind) : SumFunctionOnSet(Amounts(list), s) \in Nat
           /\ TotalOf(list, kind) \in Nat
<1>1. ASSUME NEW i \in DOMAIN list
      PROVE  Amounts(list)[i] = list[i].amount /\ list[i].amount \in Nat
    <2>1. list[i] \in Beneficiary
        OBVIOUS
    <2> QED  BY <2>1 DEF Amounts, Beneficiary
<1>2. OfKind(list, kind) \subseteq DOMAIN list
    BY DEF OfKind
<1>3. IsFiniteSet(OfKind(list, kind))
    BY <1>2, ListFinite, FS_Subset
<1>4. ASSUME NEW s \in SUBSET OfKind(list, kind)
      PROVE  SumFunctionOnSet(Amounts(list), s) \in Nat
    <2>1. IsFiniteSet(s)
        BY <1>3, FS_Subset
    <2>2. \A i \in s : Amounts(list)[i] \in Nat /\ Amounts(list)[i] <= Amounts(list)[i]
        BY <1>1, <1>2
    <2> QED  BY <2>1, <2>2, SumGrows
<1> QED  BY <1>1, <1>3, <1>4 DEF TotalOf

LEMMA RemovedAt ==
    ASSUME NEW list, list \in Seq(Beneficiary), NEW k \in DOMAIN list
    PROVE  /\ RemoveAt(list, k) \in Seq(Beneficiary)
           /\ DOMAIN RemoveAt(list, k) = 1..(Len(list) - 1)
           /\ \A i \in DOMAIN RemoveAt(list, k) :
                RemoveAt(list, k)[i] = IF i < k THEN list[i] ELSE list[i + 1]
<1> DEFINE n == Len(list)
<1>1. k \in 1..n /\ n \in Nat
    OBVIOUS
<1>2. /\ SubSeq(list, 1, k - 1) \in Seq(Beneficiary) /\ Len(SubSeq(list, 1, k - 1)) = k - 1
      /\ \A i \in 1..(k - 1) : SubSeq(list, 1, k - 1)[i] = list[i]
    BY <1>1
<1>3. /\ SubSeq(list, k + 1, n) \in Seq(Beneficiary) /\ Len(SubSeq(list, k + 1, n)) = n - k
      /\ \A i \in 1..(n - k) : SubSeq(list, k + 1, n)[i] = list[k + i]
    BY <1>1
<1>4. PICK front \in Seq(Beneficiary) :
        /\ front = SubSeq(list, 1, k - 1) /\ Len(front) = k - 1
        /\ \A i \in 1..(k - 1) : front[i] = list[i]
    BY <1>2
<1>5. PICK back \in Seq(Beneficiary) :
        /\ back = SubSeq(list, k + 1, n) /\ Len(back) = n - k
        /\ \A i \in 1..(n - k) : back[i] = list[k + i]
    BY <1>3
<1>6. \A a, b \in Seq(Beneficiary) :
        /\ a \o b \in Seq(Beneficiary) /\ Len(a \o b) = Len(a) + Len(b)
        /\ DOMAIN (a \o b) = 1..(Len(a) + Len(b))
        /\ \A i \in 1..(Len(a) + Len(b)) :
            (a \o b)[i] = IF i <= Len(a) THEN a[i] ELSE b[i - Len(a)]
    OBVIOUS
<1>7. PICK rest \in Seq(Beneficiary) :
        /\ rest = front \o back /\ DOMAIN rest = 1..(Len(front) + Len(back))
        /\ \A i \in 1..(Len(front) + Len(back)) :
            rest[i] = IF i <= Len(front) THEN front[i] ELSE back[i - Len(front)]
    BY <1>6
<1> HIDE DEF n
<1>8. Len(front) + Len(back) = n - 1 /\ DOMAIN rest = 1..(n - 1)
    <2>1. Len(front) = k - 1 /\ Len(back) = n - k
        BY <1>4, <1>5
    <2>2. Len(front) + Len(back) = n - 1
        BY <1>1, <2>1
    <2> QED  BY <1>7, <2>2
<1>9. ASSUME NEW i \in 1..(n - 1)
      PROVE  rest[i] = IF i < k THEN list[i] ELSE list[i + 1]
    <2>1. i <= k - 1 <=> i < k
        BY <1>1
    <2>2. rest[i] = IF i < k THEN front[i] ELSE back[i - (k - 1)]
        BY <1>4, <1>7, <1>8, <2>1
    <2>3. CASE i < k
        BY <1>1, <1>4, <2>2, <2>3
    <2>4. CASE ~(i < k)
        <3>1. i - (k - 1) \in 1..(n - k) /\ k + (i - (k - 1)) = i + 1
            BY <1>1, <2>4
        <3> QED  BY <1>5, <2>2, <2>4, <3>1
    <2> QED  BY <2>3, <2>4
<1>10. RemoveAt(list, k) = rest
    BY <1>4, <1>5, <1>7 DEF RemoveAt, n
<1> QED  BY <1>8, <1>9, <1>10 DEF n

LEMMA RescaledType ==
    ASSUME NEW list, list \in Seq(Beneficiary), NEW target \in Int, NEW scaled,
           \A i \in DOMAIN list : scaled[i] \in Nat
    PROVE  /\ RescaledTo(list, target, scaled) \in Seq(Beneficiary)
           /\ DOMAIN RescaledTo(list, target, scaled) = DOMAIN list
           /\ \A i \in DOMAIN list :
                RescaledTo(list, target, scaled)[i].address = list[i].address
<1> DEFINE shares == OfKind(list, "Percentage")
           new    == RescaledTo(list, target, scaled)
<1>1. ASSUME NEW i \in DOMAIN list
      PROVE  SaturatingSub(target, SumFunctionOnSet(scaled, shares \ {i})) \in Nat
    <2>1. shares \ {i} \subseteq DOMAIN list
        BY DEF OfKind
    <2>2. IsFiniteSet(shares \ {i})
        BY <2>1, ListFinite, FS_Subset
    <2>3. \A j \in shares \ {i} : scaled[j] \in Int
        BY <2>1
    <2>4. SumFunctionOnSet(scaled, shares \ {i}) \in Int
        BY <2>2, <2>3, SumType
    <2> QED  BY <2>4 DEF SaturatingSub
<1>2. ASSUME NEW i \in DOMAIN list
      PROVE  new[i] \in Beneficiary /\ new[i].address = list[i].address
    <2>1. list[i] \in Beneficiary
        OBVIOUS
    <2>2. \A n \in Nat : LET b == [list[i] EXCEPT !.amount = n]
                         IN  b \in Beneficiary /\ b.address = list[i].address
        BY <2>1 DEF Beneficiary
    <2>3. \/ new[i] = list[i]
          \/ new[i] = [list[i] EXCEPT !.amount =
                            SaturatingSub(target, SumFunctionOnSet(scaled, shares \ {i}))]
          \/ new[i] = [list[i] EXCEPT !.amount = scaled[i]]
        BY DEF RescaledTo
    <2> HIDE DEF new, shares
    <2> QED  BY <1>1, <2>1, <2>2, <2>3 DEF shares
<1>3. DOMAIN new = 1..Len(list) /\ Len(list) \in Nat
      /\ new = [i \in 1..Len(list) |-> new[i]] /\ DOMAIN list = 1..Len(list)
    BY DEF RescaledTo
<1> HIDE DEF new
<1>4. new \in Seq(Beneficiary)
    BY <1>2, <1>3
<1> QED  BY <1>2, <1>3, <1>4 DEF new

\* Once the heir is taken off, at most amounts change.
LEMMA RenouncedAt ==
    ASSUME NEW list, list \in Seq(Beneficiary), NEW address, NEW k \in DOMAIN list,
           Min({i \in DOMAIN list : list[i].address = address}) = k
    PROVE  /\ RenouncedList(list, address) \in Seq(Beneficiary)
           /\ Addresses(RenouncedList(list, address)) = Addresses(RemoveAt(list, k))
<1> DEFINE kept   == RemoveAt(list, k)
           others == TotalOf(kept, "Percentage")
           scaled == [i \in DOMAIN kept |->
                        kept[i].amount + (list[k].amount * kept[i].amount) \div others]
           target == Min({others + list[k].amount, 10000})
<1>1. \/ RenouncedList(list, address) = kept
      \/ others # 0 /\ RenouncedList(list, address) = RescaledTo(kept, target, scaled)
    <2> DEFINE found == Min({i \in DOMAIN list : list[i].address = address})
    <2>1. found = k
        OBVIOUS
    <2>2. \/ RenouncedList(list, address) = RemoveAt(list, found)
          \/ /\ TotalOf(RemoveAt(list, found), "Percentage") # 0
             /\ RenouncedList(list, address) = RescaledTo(RemoveAt(list, found),
                    Min({TotalOf(RemoveAt(list, found), "Percentage") + list[found].amount, 10000}),
                    [i \in DOMAIN RemoveAt(list, found) |-> RemoveAt(list, found)[i].amount
                        + (list[found].amount * RemoveAt(list, found)[i].amount)
                            \div TotalOf(RemoveAt(list, found), "Percentage")])
        BY DEF RenouncedList
    <2> HIDE DEF found
    <2> QED  BY <2>1, <2>2
<1>2. kept \in Seq(Beneficiary)
    BY RemovedAt
<1>3. CASE others # 0
    <2>1. others \in Nat /\ \A i \in DOMAIN kept : kept[i].amount \in Nat
        BY <1>2, ListTotals
    <2>2. list[k].amount \in Nat
        BY ListTotals
    <2>3. target \in Int
        <3>1. \A m, n \in Nat : Min({m, n}) \in {m, n}
            BY DEF Min
        <3>2. others + list[k].amount \in Nat
            BY <2>1, <2>2
        <3> HIDE DEF others
        <3> QED  BY <3>1, <3>2
    <2>4. \A i \in DOMAIN kept : scaled[i] \in Nat
        <3> HIDE DEF kept, others
        <3>1. ASSUME NEW m \in Nat, NEW n \in Nat
              PROVE  n + (m * n) \div others \in Nat
            <4> DEFINE product == m * n
            <4>1. product \in Nat
                OBVIOUS
            <4> HIDE DEF product
            <4>2. product \div others \in Nat
                BY <1>3, <2>1, <4>1
            <4>3. n + product \div others \in Nat
                BY <4>2
            <4> QED  BY <4>3 DEF product
        <3> QED  BY <2>1, <2>2, <3>1
    <2> HIDE DEF kept, target, scaled
    <2>5. /\ RescaledTo(kept, target, scaled) \in Seq(Beneficiary)
          /\ DOMAIN RescaledTo(kept, target, scaled) = DOMAIN kept
          /\ \A i \in DOMAIN kept :
                RescaledTo(kept, target, scaled)[i].address = kept[i].address
        BY <1>2, <2>3, <2>4, RescaledType
    <2>6. Addresses(RescaledTo(kept, target, scaled)) = Addresses(kept)
        BY <2>5 DEF Addresses
    <2> QED  BY <1>1, <1>2, <2>5, <2>6 DEF kept
<1>4. CASE others = 0
    <2> HIDE DEF kept, others, scaled, target
    <2> QED  BY <1>1, <1>2, <1>4 DEF kept
<1> QED  BY <1>3, <1>4

\* Who renounces is gone from the list, and nobody else is.
LEMMA RenouncedHeirs ==
    ASSUME NEW list, list \in Seq(Beneficiary), NEW address, address \in Addresses(list),
           NoDuplicates([i \in DOMAIN list |-> list[i].address])
    PROVE  /\ RenouncedList(list, address) \in Seq(Beneficiary)
           /\ Addresses(RenouncedList(list, address)) = Addresses(list) \ {address}
<1>1. PICK k \in DOMAIN list : list[k].address = address
    BY DEF Addresses
<1>2. \A i \in DOMAIN list : list[i].address = address => i = k
    BY <1>1 DEF NoDuplicates, IsInjective
<1>3. {i \in DOMAIN list : list[i].address = address} = {k}
    BY <1>1, <1>2
<1>4. Min({i \in DOMAIN list : list[i].address = address}) = k
    BY <1>3 DEF Min
<1> DEFINE kept == RemoveAt(list, k)
<1>5. Addresses(kept) = Addresses(list) \ {address}
    <2>1. /\ DOMAIN kept = 1..(Len(list) - 1) /\ DOMAIN list = 1..Len(list) /\ Len(list) \in Nat
          /\ \A i \in DOMAIN kept : kept[i] = IF i < k THEN list[i] ELSE list[i + 1]
        BY RemovedAt
    <2> HIDE DEF kept
    <2>2. ASSUME NEW i \in DOMAIN kept
          PROVE  kept[i].address \in Addresses(list) \ {address}
        <3>1. PICK j \in DOMAIN list : kept[i] = list[j] /\ j # k
            <4>1. CASE i < k
                BY <2>1, <4>1
            <4>2. CASE ~(i < k)
                <5>1. i + 1 \in DOMAIN list /\ i + 1 # k
                    BY <2>1, <4>2
                <5> QED  BY <2>1, <4>2, <5>1
            <4> QED  BY <4>1, <4>2
        <3> QED  BY <1>2, <3>1 DEF Addresses
    <2>3. ASSUME NEW j \in DOMAIN list, j # k
          PROVE  list[j].address \in Addresses(kept)
        <3>1. \E i \in DOMAIN kept : kept[i] = list[j]
            <4>1. CASE j < k
                BY <2>1, <4>1
            <4>2. CASE ~(j < k)
                <5>1. j - 1 \in DOMAIN kept /\ ~(j - 1 < k) /\ (j - 1) + 1 = j
                    BY <2>1, <2>3, <4>2
                <5> QED  BY <2>1, <5>1
            <4> QED  BY <4>1, <4>2
        <3> QED  BY <3>1 DEF Addresses
    <2>4. \A a : a \in Addresses(kept) => a \in Addresses(list) \ {address}
        BY <2>2 DEF Addresses
    <2>5. \A a : a \in Addresses(list) \ {address} => a \in Addresses(kept)
        BY <1>1, <2>3 DEF Addresses
    <2> QED  BY <2>4, <2>5
<1> QED  BY <1>4, <1>5, RenouncedAt

----------------------------------------------------------------------------
(* Heirs, indexes and the count of live wills *)

WellAllotted(w) ==
    /\ w.beneficiaries \in Seq(Beneficiary)
    /\ assert_valid_allocations(w.beneficiaries, BalanceOf(w.balances, w.token))

StatFields == {"active_will_count", "total_locked_by_token"}

EstateInv ==
    /\ \A id \in LiveWills : WellAllotted(wills[id]) /\ wills[id].owner \in Accounts
    /\ AddressIndexesExact /\ DOMAIN owner_wills = Accounts
    /\ StatFields \subseteq DOMAIN protocol_stats

\* A step that keeps it, and the stored count as right as it was.
EstateKeeps == EstateInv' /\ (ActiveCountExact => ActiveCountExact')

\* What a step does to the statistics: the fields stay, the count becomes n.
CountBecomes(n) ==
    StatFields \subseteq DOMAIN protocol_stats' /\ protocol_stats'.active_will_count = n

LEMMA FewLiveWills ==
    ASSUME LifecycleInv
    PROVE  IsFiniteSet(LiveWills) /\ Cardinality(LiveWills) \in Nat
<1>1. IsFiniteSet(1..next_will_id) /\ LiveWills \subseteq 1..next_will_id
    BY FS_Interval DEF LifecycleInv, LiveWills
<1> QED  BY <1>1, FS_Subset, FS_CardinalityType

LEMMA ContinuedEstate ==
    ASSUME EstateInv, Continued
    PROVE  EstateKeeps
<1>1. LiveWills' = LiveWills
    BY DEF LiveWills, Continued, SameEstate, SameMoney, LiveStatus
<1>2. \A id \in LiveWills : WellAllotted(wills'[id]) /\ wills'[id].owner \in Accounts
    BY DEF EstateInv, LiveWills, Continued, SameEstate, SameMoney, WellAllotted
<1>3. AddressIndexesExact'
    BY <1>1 DEF EstateInv, AddressIndexesExact, Continued, SameEstate, LiveWills
<1>4. protocol_stats' = protocol_stats
    BY DEF Continued
<1> QED  BY <1>1, <1>2, <1>3, <1>4 DEF EstateInv, EstateKeeps, ActiveCountExact, Continued

LEMMA BornEstate ==
    ASSUME EstateInv, LifecycleInv, NEW id, id \notin DOMAIN wills, NEW w,
           wills' = Put(wills, id, w), w.status \in LiveStatus, WellAllotted(w),
           w.owner \in Accounts,
           owner_wills' = Indexed(owner_wills, {w.owner}, id),
           beneficiary_wills' = Indexed(beneficiary_wills, Addresses(w.beneficiaries), id),
           CountBecomes(protocol_stats.active_will_count + 1)
    PROVE  EstateKeeps
<1>1. /\ DOMAIN wills' = DOMAIN wills \cup {id} /\ wills'[id] = w
      /\ \A x \in DOMAIN wills : wills'[x] = wills[x]
    BY DEF Put
<1>2. LiveWills' = LiveWills \cup {id} /\ id \notin LiveWills
    BY <1>1 DEF LiveWills
<1>3. \A x \in LiveWills' : WellAllotted(wills'[x]) /\ wills'[x].owner \in Accounts
    BY <1>1, <1>2 DEF EstateInv, LiveWills
<1>4. AddressIndexesExact'
    BY <1>1, <1>2 DEF EstateInv, AddressIndexesExact, Indexed, LiveWills
<1>5. Cardinality(LiveWills') = Cardinality(LiveWills) + 1
    BY <1>2, FewLiveWills, FS_AddElement
<1> QED  BY <1>3, <1>4, <1>5 DEF EstateInv, EstateKeeps, ActiveCountExact, CountBecomes, Indexed

LEMMA EndedEstate ==
    ASSUME EstateInv, LifecycleInv, NEW id \in LiveWills, NEW w,
           wills' = Put(wills, id, w), w.status \notin LiveStatus,
           owner_wills' = Unindexed(owner_wills, {wills[id].owner}, id),
           beneficiary_wills' =
                Unindexed(beneficiary_wills, Addresses(wills[id].beneficiaries), id),
           CountBecomes(SaturatingSub(protocol_stats.active_will_count, 1))
    PROVE  EstateKeeps
<1>1. /\ DOMAIN wills' = DOMAIN wills /\ wills'[id] = w
      /\ \A x \in DOMAIN wills : x # id => wills'[x] = wills[x]
    BY DEF Put, LiveWills
<1>2. LiveWills' = LiveWills \ {id}
    BY <1>1 DEF LiveWills
<1>3. \A x \in LiveWills' : WellAllotted(wills'[x]) /\ wills'[x].owner \in Accounts
    BY <1>1, <1>2 DEF EstateInv, LiveWills
<1>4. AddressIndexesExact'
    BY <1>1, <1>2 DEF EstateInv, AddressIndexesExact, Unindexed, LiveWills
<1>5. /\ Cardinality(LiveWills') = Cardinality(LiveWills) - 1
      /\ Cardinality(LiveWills) \in Nat /\ Cardinality(LiveWills') \in Nat
    <2>1. IsFiniteSet(LiveWills')
        BY <1>2, FewLiveWills, FS_Subset
    <2> QED  BY <1>2, <2>1, FewLiveWills, FS_RemoveElement, FS_CardinalityType
<1>6. SaturatingSub(Cardinality(LiveWills), 1) = Cardinality(LiveWills')
    BY <1>5 DEF SaturatingSub
<1> QED  BY <1>3, <1>4, <1>6 DEF EstateInv, EstateKeeps, ActiveCountExact, CountBecomes, Unindexed

LEMMA RewrittenEstate ==
    ASSUME EstateInv, NEW id \in DOMAIN wills, NEW w,
           wills' = Put(wills, id, w), w.status = wills[id].status, w.owner = wills[id].owner,
           id \in LiveWills => WellAllotted(w),
           UNCHANGED owner_wills,
           IF id \in LiveWills
           THEN \A a \in Accounts : beneficiary_wills'[a] =
                    IF a \in Addresses(w.beneficiaries) THEN beneficiary_wills[a] \cup {id}
                                                        ELSE beneficiary_wills[a] \ {id}
           ELSE UNCHANGED beneficiary_wills,
           CountBecomes(protocol_stats.active_will_count)
    PROVE  EstateKeeps
<1>1. /\ DOMAIN wills' = DOMAIN wills /\ wills'[id] = w
      /\ \A x \in DOMAIN wills : x # id => wills'[x] = wills[x]
    BY DEF Put
<1>2. LiveWills' = LiveWills
    BY <1>1 DEF LiveWills
<1>3. \A x \in LiveWills' : WellAllotted(wills'[x]) /\ wills'[x].owner \in Accounts
    BY <1>1, <1>2 DEF EstateInv, LiveWills
<1>4. AddressIndexesExact'
    <2>1. \A x \in LiveWills : x # id => wills'[x] = wills[x]
        BY <1>1 DEF LiveWills
    <2>2. ASSUME NEW a \in Accounts
          PROVE  owner_wills'[a] = {x \in LiveWills' : wills'[x].owner = a}
        <3>1. owner_wills'[a] = {x \in LiveWills : wills[x].owner = a}
            BY DEF EstateInv, AddressIndexesExact
        <3>2. \A x \in LiveWills : wills'[x].owner = wills[x].owner
            BY <1>1, <2>1
        <3>3. \A x : x \in owner_wills'[a] <=> x \in LiveWills' /\ wills'[x].owner = a
            BY <1>2, <3>1, <3>2
        <3> QED  BY <3>1, <3>3, <1>2, <3>2
    <2>3. ASSUME NEW a \in Accounts
          PROVE  beneficiary_wills'[a] =
                    {x \in LiveWills' : a \in Addresses(wills'[x].beneficiaries)}
        <3> DEFINE listed == {x \in LiveWills : a \in Addresses(wills[x].beneficiaries)}
                   after    == {x \in LiveWills : a \in Addresses(wills'[x].beneficiaries)}
        <3>1. beneficiary_wills[a] = listed
            BY DEF EstateInv, AddressIndexesExact
        <3>2. CASE id \notin LiveWills
            <4>1. \A x \in LiveWills : wills'[x] = wills[x]
                BY <2>1, <3>2
            <4>2. beneficiary_wills'[a] = beneficiary_wills[a]
                BY <3>2
            <4>3. after = listed
                BY <4>1
            <4> QED  BY <1>2, <3>1, <4>2, <4>3
        <3>3. CASE id \in LiveWills
            <4>1. \A x : x # id => (x \in after <=> x \in listed)
                BY <2>1
            <4>2. id \in after <=> a \in Addresses(w.beneficiaries)
                BY <1>1, <3>3
            <4>3. beneficiary_wills'[a] = IF a \in Addresses(w.beneficiaries)
                                          THEN listed \cup {id} ELSE listed \ {id}
                BY <3>1, <3>3
            <4> HIDE DEF listed, after
            <4>4. beneficiary_wills'[a] = after
                BY <4>1, <4>2, <4>3
            <4> USE DEF after
            <4> QED  BY <1>2, <4>4
        <3> QED  BY <3>2, <3>3
    <2> QED  BY <2>2, <2>3 DEF AddressIndexesExact
<1> QED  BY <1>2, <1>3, <1>4 DEF EstateInv, EstateKeeps, ActiveCountExact, CountBecomes

\* The heirs stay listed where they are.
LEMMA SameHeirsListed ==
    ASSUME EstateInv, NEW id \in LiveWills, UNCHANGED beneficiary_wills
    PROVE  \A a \in Accounts : beneficiary_wills'[a] =
                IF a \in Addresses(wills[id].beneficiaries) THEN beneficiary_wills[a] \cup {id}
                                                            ELSE beneficiary_wills[a] \ {id}
BY DEF EstateInv, AddressIndexesExact

LEMMA NewHeirsListed ==
    ASSUME EstateInv, NEW id \in LiveWills, NEW list,
           beneficiary_wills' = Reindexed(id, wills[id].beneficiaries, list)
    PROVE  \A a \in Accounts : beneficiary_wills'[a] =
                IF a \in Addresses(list) THEN beneficiary_wills[a] \cup {id}
                                         ELSE beneficiary_wills[a] \ {id}
<1> SUFFICES ASSUME NEW a \in Accounts
             PROVE  beneficiary_wills'[a] =
                IF a \in Addresses(list) THEN beneficiary_wills[a] \cup {id}
                                         ELSE beneficiary_wills[a] \ {id}
    OBVIOUS
<1>1. id \in beneficiary_wills[a] <=> a \in Addresses(wills[id].beneficiaries)
    BY DEF EstateInv, AddressIndexesExact
<1>2. beneficiary_wills'[a] =
        IF a \in Addresses(list) \ Addresses(wills[id].beneficiaries)
        THEN (IF a \in Addresses(wills[id].beneficiaries) \ Addresses(list)
              THEN beneficiary_wills[a] \ {id} ELSE beneficiary_wills[a]) \cup {id}
        ELSE IF a \in Addresses(wills[id].beneficiaries) \ Addresses(list)
             THEN beneficiary_wills[a] \ {id} ELSE beneficiary_wills[a]
    BY DEF Reindexed, Indexed, Unindexed
<1> QED  BY <1>1, <1>2

LEMMA SameCount ==
    ASSUME EstateInv, UNCHANGED protocol_stats
    PROVE  CountBecomes(protocol_stats.active_will_count)
BY DEF EstateInv, CountBecomes

\* Moving the locked totals leaves the count alone.
LEMMA LockedOnly ==
    ASSUME NEW stats, StatFields \subseteq DOMAIN stats, NEW balances, NEW sign
    PROVE  /\ StatFields \subseteq DOMAIN adjust_locked_for_balances(stats, balances, sign)
           /\ adjust_locked_for_balances(stats, balances, sign).active_will_count
                = stats.active_will_count
BY DEF adjust_locked_for_balances, StatFields

----------------------------------------------------------------------------
(* The calls that begin, change and end a will *)

\* One more live will in the count, whatever tokens come with it.
LEMMA OneMore ==
    ASSUME EstateInv, NEW balances, NEW sign,
           protocol_stats' = adjust_locked_for_balances(
                                increment_active_will_count(protocol_stats), balances, sign)
    PROVE  CountBecomes(protocol_stats.active_will_count + 1)
<1> DEFINE stats == increment_active_will_count(protocol_stats)
<1>1. /\ StatFields \subseteq DOMAIN stats
      /\ stats.active_will_count = protocol_stats.active_will_count + 1
    BY DEF EstateInv, increment_active_will_count, StatFields
<1> HIDE DEF stats
<1>2. protocol_stats' = adjust_locked_for_balances(stats, balances, sign)
    BY DEF stats
<1> QED  BY <1>1, <1>2, LockedOnly DEF CountBecomes

LEMMA NewWillEstate ==
    ASSUME NEW owner, NEW form \in SetOfForms, ValidForm(owner, form)
    PROVE  /\ NewWill(owner, form).owner = owner
           /\ NewWill(owner, form).beneficiaries = form.beneficiaries
           /\ NewWill(owner, form).status \in LiveStatus
           /\ WellAllotted(NewWill(owner, form))
<1> DEFINE w == NewWill(owner, form)
<1>1. /\ w.owner = owner /\ w.beneficiaries = form.beneficiaries
      /\ w.status \in LiveStatus
      /\ w.balances = BalancesOf(form.tokens) /\ w.token = form.tokens[1][1]
    BY DEF NewWill, LiveStatus
<1> HIDE DEF w
<1>2. WellAllotted(w)
    <2>1. w.beneficiaries \in Seq(Beneficiary) /\ form.tokens \in TokenLists
        BY <1>1 DEF SetOfForms, TokenLists
    <2>2. 1 \in DOMAIN form.tokens
        BY <2>1, BoundsAssumption DEF ValidForm, TokenLists
    <2>3. w.token \in DOMAIN w.balances
        BY <1>1, <2>1, <2>2, PurseType
    <2>4. BalanceOf(w.balances, w.token) = BalancesOf(form.tokens)[form.tokens[1][1]]
        BY <1>1, <2>3 DEF BalanceOf
    <2> QED  BY <1>1, <2>1, <2>4 DEF WellAllotted, ValidForm
<1> QED  BY <1>1, <1>2 DEF w

LEMMA CreateEstate ==
    ASSUME EstateInv, LifecycleInv, NEW owner \in Accounts, NEW form \in CreateForms,
           create_will(owner, form)
    PROVE  EstateKeeps
<1> DEFINE id == next_will_id + 1
           w  == NewWill(owner, form)
<1>1. id \notin DOMAIN wills
    BY FreeIds DEF LifecycleInv
<1>2. /\ wills' = Put(wills, id, w)
      /\ owner_wills' = Indexed(owner_wills, {owner}, id)
      /\ beneficiary_wills' = Indexed(beneficiary_wills, Addresses(form.beneficiaries), id)
      /\ ValidForm(owner, form)
      /\ protocol_stats' = adjust_locked_for_balances(
                                increment_active_will_count(protocol_stats), w.balances, 1)
    BY DEF create_will, save_will, SaveWithVotes
<1>3. form \in SetOfForms
    BY InputsAssumption
<1> HIDE DEF w
<1>4. /\ w.owner = owner /\ w.beneficiaries = form.beneficiaries
      /\ w.status \in LiveStatus /\ WellAllotted(w)
    BY <1>2, <1>3, NewWillEstate DEF w
<1>6. CountBecomes(protocol_stats.active_will_count + 1)
    BY <1>2, OneMore
<1> QED  BY <1>1, <1>2, <1>4, <1>6, BornEstate

\* The count of any statistics that agree with the stored ones on it goes down.
LEMMA OneLess ==
    ASSUME EstateInv, NEW stats, StatFields \subseteq DOMAIN stats,
           stats.active_will_count = protocol_stats.active_will_count,
           NEW balances, NEW sign,
           protocol_stats' = adjust_locked_for_balances(
                                decrement_active_will_count(stats), balances, sign)
    PROVE  CountBecomes(SaturatingSub(protocol_stats.active_will_count, 1))
<1> DEFINE less == decrement_active_will_count(stats)
<1>1. /\ StatFields \subseteq DOMAIN less
      /\ less.active_will_count = SaturatingSub(protocol_stats.active_will_count, 1)
    BY DEF decrement_active_will_count, StatFields
<1> HIDE DEF less
<1>2. protocol_stats' = adjust_locked_for_balances(less, balances, sign)
    BY DEF less
<1> QED  BY <1>1, <1>2, LockedOnly DEF CountBecomes

LEMMA ReleaseEstate ==
    ASSUME EstateInv, LifecycleInv, FieldsInv, NEW id \in LiveWills, NEW w,
           SameEstate(w, wills[id]), DOMAIN w = DOMAIN wills[id],
           NEW keeper, NEW refused, NEW stats, NEW records,
           StatFields \subseteq DOMAIN stats,
           stats.active_will_count = protocol_stats.active_will_count,
           distribute(id, w, keeper, refused, stats, records)
    PROVE  EstateKeeps
<1> DEFINE left     == HashedReserves(w, DistributionPlan(w, keeper))
           released == [w EXCEPT !.balances = left,
                                 !.balance  = BalanceOf(left, w.token),
                                 !.status   = "Released"]
<1>1. /\ wills' = Put(wills, id, released)
      /\ owner_wills' = Unindexed(owner_wills, {w.owner}, id)
      /\ beneficiary_wills' = Unindexed(beneficiary_wills, Addresses(w.beneficiaries), id)
      /\ protocol_stats' = adjust_locked_for_balances(
                                decrement_active_will_count(stats), w.balances, -1)
    BY DEF distribute, SaveWithVotes
<1>2. w.owner = wills[id].owner /\ w.beneficiaries = wills[id].beneficiaries
    BY DEF SameEstate
<1> HIDE DEF left
<1>3. released.status \notin LiveStatus
    <2>1. WillFields \subseteq DOMAIN w
        BY DEF FieldsInv, LiveWills
    <2> QED  BY <2>1 DEF WillFields, LiveStatus
<1> HIDE DEF released
<1>4. CountBecomes(SaturatingSub(protocol_stats.active_will_count, 1))
    BY <1>1, OneLess
<1> QED  BY <1>1, <1>2, <1>3, <1>4, EndedEstate

LEMMA CancelEstate ==
    ASSUME EstateInv, LifecycleInv, FieldsInv, NEW id \in DOMAIN wills, NEW owner,
           cancel_will(id, owner)
    PROVE  EstateKeeps
<1> DEFINE cancelled == [wills[id] EXCEPT !.balance  = 0,
                                          !.balances = << >>,
                                          !.status   = "Cancelled"]
           once == adjust_locked_for_balances(decrement_active_will_count(protocol_stats),
                                              wills[id].balances, -1)
<1>1. /\ wills' = Put(wills, id, cancelled)
      /\ wills[id].owner = owner /\ wills[id].status \in LiveStatus
      /\ owner_wills' = Unindexed(owner_wills, {owner}, id)
      /\ beneficiary_wills' =
            Unindexed(beneficiary_wills, Addresses(wills[id].beneficiaries), id)
      /\ protocol_stats' = adjust_locked_for_balances(once, wills[id].balances, -1)
    BY DEF cancel_will, save_will, SaveWithVotes, OwnedBy, LiveStatus
<1>2. cancelled.status \notin LiveStatus
    BY DEF FieldsInv, WillFields, LiveStatus
<1>3. /\ StatFields \subseteq DOMAIN once
      /\ once.active_will_count = SaturatingSub(protocol_stats.active_will_count, 1)
    <2> DEFINE less == decrement_active_will_count(protocol_stats)
    <2>1. /\ StatFields \subseteq DOMAIN less
          /\ less.active_will_count = SaturatingSub(protocol_stats.active_will_count, 1)
        BY DEF EstateInv, decrement_active_will_count, StatFields
    <2> HIDE DEF less
    <2>2. once = adjust_locked_for_balances(less, wills[id].balances, -1)
        BY DEF less
    <2> HIDE DEF once
    <2> QED  BY <2>1, <2>2, LockedOnly
<1> HIDE DEF once, cancelled
<1>4. CountBecomes(SaturatingSub(protocol_stats.active_will_count, 1))
    BY <1>1, <1>3, LockedOnly DEF CountBecomes
<1>5. id \in LiveWills
    BY <1>1 DEF LiveWills
<1> QED  BY <1>1, <1>2, <1>4, <1>5, EndedEstate

LEMMA TopUpEstate ==
    ASSUME EstateInv, PaidInv, FieldsInv, NEW id \in DOMAIN wills, NEW owner, NEW t,
           NEW amount \in Nat, top_up(id, owner, t, amount)
    PROVE  EstateKeeps
<1> DEFINE held == wills[id].balances
           balances == Put(held, t, BalanceOf(held, t) + amount)
           w        == sync_primary_balance([wills[id] EXCEPT !.balances = balances])
<1>1. /\ wills' = Put(wills, id, w) /\ wills[id].status = "Active"
      /\ UNCHANGED <<owner_wills, beneficiary_wills>>
      /\ protocol_stats' =
            adjust_locked_for_balances(protocol_stats, [x \in {t} |-> amount], 1)
    BY DEF top_up, save_will, SaveWithVotes, HasStatus, indexes
<1>2. id \in LiveWills
    BY <1>1 DEF LiveWills, LiveStatus
<1>3. \A x : BalanceOf(held, x) \in Int
    BY DEF PaidInv, PaidOut, BalanceOf
<1>4. BalanceOf(held, wills[id].token) <= BalanceOf(balances, wills[id].token)
      /\ BalanceOf(balances, wills[id].token) \in Int
    <2>1. BalanceOf(balances, wills[id].token) =
            IF wills[id].token = t THEN BalanceOf(held, t) + amount
                                   ELSE BalanceOf(held, wills[id].token)
        BY DEF BalanceOf, Put
    <2> HIDE DEF balances, held
    <2> QED  BY <1>3, <2>1
<1> HIDE DEF balances
<1>5. /\ w.owner = wills[id].owner /\ w.status = wills[id].status
      /\ w.beneficiaries = wills[id].beneficiaries
      /\ w.balances = balances /\ w.token = wills[id].token
    BY DEF sync_primary_balance, FieldsInv, WillFields
<1> HIDE DEF w, held
<1>6. WellAllotted(w)
    <2> DEFINE list == wills[id].beneficiaries
               old  == BalanceOf(held, wills[id].token)
               new  == BalanceOf(balances, wills[id].token)
    <2>1. list \in Seq(Beneficiary) /\ assert_valid_allocations(list, old)
        BY <1>2 DEF EstateInv, WellAllotted, held
    <2>2. TotalOf(list, "FixedAmount") \in Nat
        BY <2>1, ListTotals
    <2>3. old <= new /\ old \in Int /\ new \in Int
        BY <1>3, <1>4
    <2> HIDE DEF list, old, new
    <2>4. TotalOf(list, "FixedAmount") <= new
        <3>1. TotalOf(list, "FixedAmount") <= old
            BY <2>1 DEF assert_valid_allocations
        <3> QED  BY <2>2, <2>3, <3>1
    <2>5. assert_valid_allocations(list, new)
        BY <2>1, <2>4 DEF assert_valid_allocations
    <2> QED  BY <1>5, <2>1, <2>5 DEF WellAllotted, list, new
<1>7. CountBecomes(protocol_stats.active_will_count)
    BY <1>1, LockedOnly DEF CountBecomes, EstateInv
<1> QED  BY <1>1, <1>2, <1>5, <1>6, <1>7, SameHeirsListed, RewrittenEstate

LEMMA HashedEstate ==
    ASSUME EstateInv, FieldsInv, NEW id \in DOMAIN wills, NEW owner, NEW h,
           add_hashed_beneficiary(id, owner, h)
    PROVE  EstateKeeps
<1> DEFINE w(hashed) == [wills[id] EXCEPT !.hashed_beneficiaries = hashed]
<1>1. PICK hashed : wills' = Put(wills, id, w(hashed))
    BY DEF add_hashed_beneficiary, save_will, SaveWithVotes
<1>2. UNCHANGED <<owner_wills, beneficiary_wills, protocol_stats>>
      /\ wills[id].status = "Active"
    BY DEF add_hashed_beneficiary, OnlyTheWill, indexes, HasStatus
<1>3. id \in LiveWills
    BY <1>2 DEF LiveWills, LiveStatus
<1>4. /\ w(hashed).owner = wills[id].owner /\ w(hashed).status = wills[id].status
      /\ w(hashed).beneficiaries = wills[id].beneficiaries
      /\ w(hashed).balances = wills[id].balances /\ w(hashed).token = wills[id].token
    BY DEF FieldsInv, WillFields
<1> HIDE DEF w
<1>5. WellAllotted(w(hashed))
    BY <1>3, <1>4 DEF EstateInv, WellAllotted
<1> QED  BY <1>1, <1>2, <1>3, <1>4, <1>5, SameHeirsListed, SameCount, RewrittenEstate

LEMMA ClaimEstate ==
    ASSUME EstateInv, FieldsInv, NEW id \in DOMAIN wills, NEW claimant, NEW salt,
           reveal_and_claim(id, claimant, salt)
    PROVE  EstateKeeps
<1> DEFINE w(i, left) == [wills[id] EXCEPT !.balances = left,
                                           !.balance = BalanceOf(left, wills[id].token),
                                           !.hashed_beneficiaries[i].claimed = TRUE]
<1>1. PICK i, shares, left :
        /\ wills' = Put(wills, id, w(i, left))
        /\ protocol_stats' = adjust_locked_for_balances(protocol_stats, shares, -1)
    BY DEF reveal_and_claim, save_will, SaveWithVotes
<1>2. UNCHANGED <<owner_wills, beneficiary_wills>> /\ wills[id].status = "Released"
    BY DEF reveal_and_claim, indexes, HasStatus
<1>3. id \notin LiveWills
    BY <1>2 DEF LiveWills, LiveStatus
<1>4. w(i, left).owner = wills[id].owner /\ w(i, left).status = wills[id].status
    BY DEF FieldsInv, WillFields
<1> HIDE DEF w
<1>5. CountBecomes(protocol_stats.active_will_count)
    BY <1>1, LockedOnly DEF CountBecomes, EstateInv
<1> QED  BY <1>1, <1>2, <1>3, <1>4, <1>5, RewrittenEstate

\* Will id of before gets a valid list of other heirs and keeps its money.
NewHeirs(id, w, list) ==
    /\ wills' = Put(wills, id, w)
    /\ w.status = wills[id].status /\ w.owner = wills[id].owner
    /\ w.balances = wills[id].balances /\ w.token = wills[id].token
    /\ w.beneficiaries = list
    /\ list \in Seq(Beneficiary)
    /\ assert_valid_allocations(list, BalanceOf(wills[id].balances, wills[id].token))

LEMMA NewHeirsEstate ==
    ASSUME EstateInv, NEW id \in LiveWills, NEW w, NEW list, NewHeirs(id, w, list),
           UNCHANGED <<owner_wills, protocol_stats>>,
           \A a \in Accounts : beneficiary_wills'[a] =
                IF a \in Addresses(list) THEN beneficiary_wills[a] \cup {id}
                                         ELSE beneficiary_wills[a] \ {id}
    PROVE  EstateKeeps
<1>1. WellAllotted(w)
    BY DEF NewHeirs, WellAllotted
<1>2. id \in DOMAIN wills
    BY DEF LiveWills
<1> QED  BY <1>1, <1>2, SameCount, RewrittenEstate DEF NewHeirs

LEMMA UpdateEstate ==
    ASSUME EstateInv, FieldsInv, NEW id \in DOMAIN wills, NEW owner,
           \/ \E list \in BeneficiaryLists : update_beneficiaries(id, owner, list)
           \/ \E s \in Settings : update_will_settings(id, owner, s)
    PROVE  EstateKeeps
<1> DEFINE w0(list) == [wills[id] EXCEPT !.beneficiaries = list]
           known    == BalanceOf(wills[id].balances, wills[id].token)
<1>1. WillFields \subseteq DOMAIN wills[id] /\ wills[id].status = "Active"
    BY DEF FieldsInv, update_beneficiaries, update_will_settings, HasStatus
<1>2. id \in LiveWills
    BY <1>1 DEF LiveWills, LiveStatus
<1>3. WellAllotted(wills[id])
    BY <1>2 DEF EstateInv
<1>4. UNCHANGED <<owner_wills, protocol_stats>>
    BY DEF update_beneficiaries, update_will_settings
<1>5. \A list : /\ WillFields \subseteq DOMAIN w0(list)
                /\ w0(list).status = wills[id].status /\ w0(list).owner = wills[id].owner
                /\ w0(list).balances = wills[id].balances /\ w0(list).token = wills[id].token
                /\ w0(list).beneficiaries = list
    BY <1>1 DEF WillFields
<1>6. ASSUME NEW list \in BeneficiaryLists, update_beneficiaries(id, owner, list)
      PROVE  EstateKeeps
    <2>1. /\ wills' = Put(wills, id, w0(list))
          /\ assert_valid_allocations(list, known)
          /\ beneficiary_wills' = Reindexed(id, wills[id].beneficiaries, list)
        BY <1>6 DEF update_beneficiaries, save_will, SaveWithVotes, ValidReplacement
    <2>2. list \in Seq(Beneficiary)
        BY EstateInputsAssumption
    <2> HIDE DEF w0
    <2>3. NewHeirs(id, w0(list), list)
        BY <1>5, <2>1, <2>2 DEF NewHeirs
    <2> QED  BY <1>2, <1>4, <2>1, <2>3, NewHeirsListed, NewHeirsEstate
<1>7. ASSUME NEW s \in Settings, update_will_settings(id, owner, s)
      PROVE  EstateKeeps
    <2> DEFINE list == IF s.beneficiaries = None THEN wills[id].beneficiaries
                                                 ELSE s.beneficiaries
               w1 == WithPeriods(w0(list), s.checkin, s.grace)
    <2>1. /\ \E guardians, threshold :
                \/ wills' = Put(wills, id, w1)
                \/ wills' = Put(wills, id, WithGuardians(w1, guardians, threshold))
          /\ s.beneficiaries # None => assert_valid_allocations(list, known)
          /\ beneficiary_wills' = Reindexed(id, wills[id].beneficiaries, list)
        BY <1>7 DEF update_will_settings, save_will, SaveWithVotes, ValidReplacement
    <2>2. /\ list \in Seq(Beneficiary)
          /\ assert_valid_allocations(list, known)
        <3>1. s.beneficiaries \in Seq(Beneficiary) \cup {None}
            BY EstateInputsAssumption DEF SetOfSettings
        <3> QED  BY <1>3, <2>1, <3>1 DEF WellAllotted
    <2> HIDE DEF list, w0
    <2>3. /\ WillFields \subseteq DOMAIN w1
          /\ w1.status = wills[id].status /\ w1.owner = wills[id].owner
          /\ w1.balances = wills[id].balances /\ w1.token = wills[id].token
          /\ w1.beneficiaries = list
        BY <1>5 DEF WithPeriods, WillFields
    <2> HIDE DEF w1
    <2>4. \A guardians, threshold :
            LET w2 == WithGuardians(w1, guardians, threshold)
            IN  /\ w2.status = wills[id].status /\ w2.owner = wills[id].owner
                /\ w2.balances = wills[id].balances /\ w2.token = wills[id].token
                /\ w2.beneficiaries = list
        BY <2>3 DEF WithGuardians, WillFields
    <2>5. \E w : NewHeirs(id, w, list)
        BY <2>1, <2>2, <2>3, <2>4 DEF NewHeirs
    <2> QED  BY <1>2, <1>4, <2>1, <2>5, NewHeirsListed, NewHeirsEstate
<1> QED  BY <1>6, <1>7

LEMMA RenounceEstate ==
    ASSUME EstateInv, FieldsInv, NEW id \in DOMAIN wills, NEW heir,
           renounce_beneficiary(id, heir)
    PROVE  EstateKeeps
<1> DEFINE old  == wills[id].beneficiaries
           list == RenouncedList(old, heir)
           w    == [wills[id] EXCEPT !.beneficiaries = list]
<1>1. /\ wills' = Put(wills, id, w)
      /\ wills[id].status \in {"Active", "Triggered"}
      /\ heir \in Addresses(old)
      /\ assert_valid_allocations(list, BalanceOf(wills[id].balances, wills[id].token))
      /\ beneficiary_wills' = Unindexed(beneficiary_wills, {heir}, id)
      /\ UNCHANGED <<owner_wills, protocol_stats>>
    BY DEF renounce_beneficiary, save_will, SaveWithVotes
<1>2. id \in LiveWills
    BY <1>1 DEF LiveWills, LiveStatus
<1>3. old \in Seq(Beneficiary) /\ NoDuplicates([i \in DOMAIN old |-> old[i].address])
    BY <1>2 DEF EstateInv, WellAllotted, assert_valid_allocations
<1> HIDE DEF old
<1>4. list \in Seq(Beneficiary) /\ Addresses(list) = Addresses(old) \ {heir}
    BY <1>1, <1>3, RenouncedHeirs
<1> HIDE DEF list
<1>5. NewHeirs(id, w, list)
    BY <1>1, <1>4 DEF NewHeirs, FieldsInv, WillFields
<1>6. ASSUME NEW a \in Accounts
      PROVE  beneficiary_wills'[a] =
                IF a \in Addresses(list) THEN beneficiary_wills[a] \cup {id}
                                         ELSE beneficiary_wills[a] \ {id}
    <2>1. id \in beneficiary_wills[a] <=> a \in Addresses(old)
        BY <1>2 DEF EstateInv, AddressIndexesExact, old
    <2>2. beneficiary_wills'[a] =
            IF a = heir THEN beneficiary_wills[a] \ {id} ELSE beneficiary_wills[a]
        BY <1>1 DEF Unindexed
    <2> QED  BY <1>4, <2>1, <2>2
<1> HIDE DEF w
<1> QED  BY <1>1, <1>2, <1>5, <1>6, NewHeirsEstate

LEMMA ArchiveEstate ==
    ASSUME EstateInv, NEW id \in DOMAIN wills, archive_will(id)
    PROVE  EstateKeeps
<1>1. /\ wills' = Without(wills, {id}) /\ wills[id].status \notin LiveStatus
      /\ owner_wills' = Unindexed(owner_wills, {wills[id].owner}, id)
      /\ beneficiary_wills' =
            Unindexed(beneficiary_wills, Addresses(wills[id].beneficiaries), id)
      /\ UNCHANGED protocol_stats
    BY DEF archive_will, LiveStatus
<1>2. /\ DOMAIN wills' = DOMAIN wills \ {id}
      /\ \A x \in DOMAIN wills' : wills'[x] = wills[x]
    BY <1>1 DEF Without
<1>3. LiveWills' = LiveWills /\ id \notin LiveWills
    BY <1>1, <1>2 DEF LiveWills
<1>4. \A x \in LiveWills : wills'[x] = wills[x]
    BY <1>1, <1>2 DEF LiveWills
<1>5. AddressIndexesExact' /\ DOMAIN owner_wills' = Accounts
    <2>1. \A a \in Accounts : /\ id \notin owner_wills[a]
                              /\ id \notin beneficiary_wills[a]
        BY <1>3 DEF EstateInv, AddressIndexesExact
    <2>2. /\ DOMAIN owner_wills' = Accounts
          /\ \A a \in Accounts : /\ owner_wills'[a] = owner_wills[a]
                                 /\ beneficiary_wills'[a] = beneficiary_wills[a]
        BY <1>1, <2>1 DEF Unindexed
    <2>3. \A a \in Accounts : {x \in LiveWills' : wills'[x].owner = a}
                                = {x \in LiveWills : wills[x].owner = a}
        BY <1>3, <1>4
    <2>4. \A a \in Accounts : {x \in LiveWills' : a \in Addresses(wills'[x].beneficiaries)}
                                = {x \in LiveWills : a \in Addresses(wills[x].beneficiaries)}
        BY <1>3, <1>4
    <2> QED  BY <2>2, <2>3, <2>4 DEF EstateInv, AddressIndexesExact
<1>6. \A x \in LiveWills' : WellAllotted(wills'[x]) /\ wills'[x].owner \in Accounts
    BY <1>3, <1>4 DEF EstateInv
<1> QED  BY <1>1, <1>3, <1>5, <1>6 DEF EstateInv, EstateKeeps, ActiveCountExact

LEMMA EstateUntouched ==
    ASSUME EstateInv,
           UNCHANGED <<wills, owner_wills, beneficiary_wills, protocol_stats>>
    PROVE  EstateKeeps
BY DEF EstateInv, EstateKeeps, LiveWills, AddressIndexesExact, ActiveCountExact

----------------------------------------------------------------------------
(* New wills on the terms of an old one, and several at once *)

\* The heirs of the original were checked against its balance; clone_will checks
\* them again against the money the clone comes with.
LEMMA CloneEstate ==
    ASSUME EstateInv, LifecycleInv, FieldsInv, NEW source \in DOMAIN wills,
           NEW owner \in Accounts, NEW tokens \in ClonePurses,
           clone_will(source, owner, tokens)
    PROVE  EstateKeeps
<1> DEFINE id == next_will_id + 1
           w  == Descendant(wills[source], owner, BalancesOf(tokens), tokens[1][1], tokens[1][2])
<1>1. id \notin DOMAIN wills
    BY FreeIds DEF LifecycleInv
<1>2. /\ wills' = Put(wills, id, w)
      /\ owner_wills' = Indexed(owner_wills, {owner}, id)
      /\ beneficiary_wills' = Indexed(beneficiary_wills, Addresses(w.beneficiaries), id)
      /\ ValidTokens(tokens) /\ wills[source].status \in {"Active", "Triggered"}
      /\ assert_valid_allocations(w.beneficiaries, BalancesOf(tokens)[w.token])
      /\ protocol_stats' = adjust_locked_for_balances(
                increment_active_will_count(protocol_stats), BalancesOf(tokens), 1)
    BY DEF clone_will, save_will, SaveWithVotes
<1>3. tokens \in TokenLists /\ 1 \in DOMAIN tokens
    BY <1>2, PortfolioInputsAssumption, ValidPurse
<1>4. WillFields \subseteq DOMAIN wills[source]
    BY DEF FieldsInv
<1>5. /\ w.owner = owner /\ w.beneficiaries = wills[source].beneficiaries
      /\ w.status = "Active"
      /\ w.balances = BalancesOf(tokens) /\ w.token = tokens[1][1]
    BY <1>4 DEF Descendant, WillFields
<1> HIDE DEF w
<1>6. WellAllotted(w)
    <2>1. source \in LiveWills
        BY <1>2 DEF LiveWills, LiveStatus
    <2>2. w.beneficiaries \in Seq(Beneficiary)
        BY <1>5, <2>1 DEF EstateInv, WellAllotted
    <2>3. w.token \in DOMAIN w.balances
        BY <1>3, <1>5, PurseType
    <2>4. BalanceOf(w.balances, w.token) = BalancesOf(tokens)[w.token]
        BY <1>5, <2>3 DEF BalanceOf
    <2> QED  BY <1>2, <2>2, <2>4 DEF WellAllotted
<1>7. w.status \in LiveStatus
    BY <1>5 DEF LiveStatus
<1> QED  BY <1>1, <1>2, <1>5, <1>6, <1>7, OneMore, BornEstate

\* BornEstate for wills that are all stored in one call.
LEMMA SeveralBornEstate ==
    ASSUME EstateInv, LifecycleInv, NEW ids, IsFiniteSet(ids), ids \cap DOMAIN wills = {},
           DOMAIN wills' = DOMAIN wills \cup ids,
           \A x \in DOMAIN wills : wills'[x] = wills[x],
           NEW owner \in Accounts,
           \A id \in ids : /\ wills'[id].status \in LiveStatus /\ WellAllotted(wills'[id])
                           /\ wills'[id].owner = owner,
           owner_wills' = [owner_wills EXCEPT ![owner] = @ \cup ids],
           beneficiary_wills' =
                [a \in Accounts |-> beneficiary_wills[a]
                        \cup {id \in ids : a \in Addresses(wills'[id].beneficiaries)}],
           CountBecomes(protocol_stats.active_will_count + Cardinality(ids))
    PROVE  EstateKeeps
<1>1. DOMAIN wills' = DOMAIN wills \cup ids /\ \A x \in DOMAIN wills : wills'[x] = wills[x]
    OBVIOUS
<1>2. LiveWills' = LiveWills \cup ids /\ LiveWills \cap ids = {}
    BY <1>1 DEF LiveWills
<1>3. \A x \in LiveWills' : WellAllotted(wills'[x]) /\ wills'[x].owner \in Accounts
    BY <1>1, <1>2 DEF EstateInv, LiveWills
<1>4. AddressIndexesExact'
    <2>1. ASSUME NEW a \in Accounts
          PROVE  owner_wills'[a] = {x \in LiveWills' : wills'[x].owner = a}
        <3>1. owner_wills[a] = {x \in LiveWills : wills[x].owner = a}
            BY DEF EstateInv, AddressIndexesExact
        <3>2. owner_wills'[a] = owner_wills[a] \cup (IF a = owner THEN ids ELSE {})
            BY DEF EstateInv
        <3> QED  BY <1>1, <1>2, <3>1, <3>2 DEF LiveWills
    <2>2. ASSUME NEW a \in Accounts
          PROVE  beneficiary_wills'[a] =
                    {x \in LiveWills' : a \in Addresses(wills'[x].beneficiaries)}
        <3>1. beneficiary_wills[a] = {x \in LiveWills : a \in Addresses(wills[x].beneficiaries)}
            BY DEF EstateInv, AddressIndexesExact
        <3> QED  BY <1>1, <1>2, <3>1 DEF LiveWills
    <2> QED  BY <2>1, <2>2 DEF AddressIndexesExact
<1>5. Cardinality(LiveWills') = Cardinality(LiveWills) + Cardinality(ids)
    <2>1. Cardinality(LiveWills \cap ids) = 0
        BY <1>2, FS_EmptySet
    <2>2. /\ Cardinality(LiveWills') = Cardinality(LiveWills) + Cardinality(ids) - 0
          /\ Cardinality(LiveWills) \in Nat /\ Cardinality(ids) \in Nat
        BY <1>2, <2>1, FewLiveWills, FS_Union, FS_CardinalityType
    <2> QED  BY <2>2
<1> QED  BY <1>3, <1>4, <1>5 DEF EstateInv, EstateKeeps, ActiveCountExact, CountBecomes

LEMMA BatchIds ==
    ASSUME NEW n \in Nat, NEW k \in Nat
    PROVE  IsFiniteSet((n + 1)..(n + k)) /\ Cardinality((n + 1)..(n + k)) = k
<1>1. n + 1 \in Int /\ n + k \in Int
    OBVIOUS
<1>2. /\ IsFiniteSet((n + 1)..(n + k))
      /\ Cardinality((n + 1)..(n + k)) = IF n + 1 > n + k THEN 0 ELSE (n + k) - (n + 1) + 1
    BY <1>1, FS_Interval
<1>3. (IF n + 1 > n + k THEN 0 ELSE (n + k) - (n + 1) + 1) = k
    OBVIOUS
<1> QED  BY <1>2, <1>3

LEMMA BatchEstate ==
    ASSUME EstateInv, LifecycleInv, NEW owner \in Accounts, NEW forms \in Batches,
           batch_create_wills(owner, forms)
    PROVE  EstateKeeps
<1> DEFINE ids == (next_will_id + 1)..(next_will_id + Len(forms))
           Form(id) == [forms[id - next_will_id] EXCEPT !.bounty = 0, !.delay = 0]
           w == [id \in ids |-> NewWill(owner, Form(id))]
           total == [t \in Tokens |->
                        SumFunction([id \in ids |-> BalanceOf(w[id].balances, t)])]
<1>1. /\ wills' = [id \in DOMAIN wills \cup ids |-> IF id \in ids THEN w[id] ELSE wills[id]]
      /\ \A id \in ids : ValidForm(owner, Form(id))
      /\ owner_wills' = [owner_wills EXCEPT ![owner] = @ \cup ids]
      /\ beneficiary_wills' =
            [a \in Accounts |-> beneficiary_wills[a]
                                \cup {id \in ids : a \in Addresses(w[id].beneficiaries)}]
    BY DEF batch_create_wills
<1>2. protocol_stats' = adjust_locked_for_balances(
            [protocol_stats EXCEPT !.active_will_count = @ + Len(forms)], total, 1)
    BY Zenon DEF batch_create_wills
<1>3. forms \in Seq(SetOfForms) /\ next_will_id \in Nat /\ Len(forms) \in Nat
    BY PortfolioInputsAssumption DEF LifecycleInv
<1>4. IsFiniteSet(ids) /\ Cardinality(ids) = Len(forms)
    BY <1>3, BatchIds
<1>5. ids \cap DOMAIN wills = {}
    BY <1>3 DEF LifecycleInv
<1>6. ASSUME NEW id \in ids
      PROVE  /\ w[id].status \in LiveStatus /\ WellAllotted(w[id])
             /\ w[id].owner = owner
    <2>1. id - next_will_id \in DOMAIN forms
        BY <1>3
    <2>2. forms[id - next_will_id] \in SetOfForms
        BY <1>3, <2>1
    <2>3. Form(id) \in SetOfForms
        BY <2>2 DEF SetOfForms
    <2> HIDE DEF Form
    <2> QED  BY <1>1, <2>3, NewWillEstate
<1>7. CountBecomes(protocol_stats.active_will_count + Cardinality(ids))
    <2> DEFINE stats == [protocol_stats EXCEPT !.active_will_count = @ + Len(forms)]
    <2>1. /\ StatFields \subseteq DOMAIN stats
          /\ stats.active_will_count = protocol_stats.active_will_count + Len(forms)
        BY DEF EstateInv, StatFields
    <2>2. protocol_stats' = adjust_locked_for_balances(stats, total, 1)
        BY <1>2
    <2> HIDE DEF stats, total, ids
    <2> QED  BY <1>4, <2>1, <2>2, LockedOnly DEF CountBecomes
<1>8. /\ DOMAIN wills' = DOMAIN wills \cup ids
      /\ \A x \in DOMAIN wills : wills'[x] = wills[x]
      /\ \A id \in ids : wills'[id] = w[id]
    <2> HIDE DEF w, ids
    <2> QED  BY <1>1, <1>5
<1> HIDE DEF ids, w, Form
<1>9. beneficiary_wills' =
            [a \in Accounts |-> beneficiary_wills[a]
                    \cup {id \in ids : a \in Addresses(wills'[id].beneficiaries)}]
    <2>1. \A a \in Accounts : {id \in ids : a \in Addresses(w[id].beneficiaries)}
                            = {id \in ids : a \in Addresses(wills'[id].beneficiaries)}
        BY <1>8
    <2> QED  BY <1>1, <2>1
<1>10. \A id \in ids : /\ wills'[id].status \in LiveStatus /\ WellAllotted(wills'[id])
                      /\ wills'[id].owner = owner
    BY <1>6, <1>8
<1> QED  BY <1>1, <1>4, <1>5, <1>7, <1>8, <1>9, <1>10, SeveralBornEstate

LEMMA RepairEstate ==
    ASSUME EstateInv, repair_protocol_stats
    PROVE  EstateKeeps
<1>1. /\ LiveWills' = LiveWills /\ AddressIndexesExact' /\ DOMAIN owner_wills' = Accounts
      /\ \A id \in LiveWills' : WellAllotted(wills'[id]) /\ wills'[id].owner \in Accounts
    BY DEF repair_protocol_stats, indexes, EstateInv, LiveWills, AddressIndexesExact
<1>2. /\ StatFields \subseteq DOMAIN protocol_stats'
      /\ protocol_stats'.active_will_count = Cardinality(LiveWills)
    BY DEF repair_protocol_stats, recompute_protocol_stats, StatFields
<1> QED  BY <1>1, <1>2 DEF EstateInv, EstateKeeps, ActiveCountExact

----------------------------------------------------------------------------
(* Parting the heirs *)

\* f[k] lists the entries of list at positions of S up to k, for every k up to n.
Lists(f, list, S, n) ==
    \A k \in 0..n :
        f[k] = IF k = 0 THEN << >>
               ELSE IF k \in S THEN Append(f[k - 1], list[k]) ELSE f[k - 1]

\* Such a listing exists: otherwise look at the first length without one.
LEMMA ListsExist ==
    ASSUME NEW list, NEW S, NEW n \in Nat
    PROVE  \E f : DOMAIN f = 0..n /\ f = [k \in 0..n |-> f[k]] /\ Lists(f, list, S, n)
<1> DEFINE Has(m) == \E f : DOMAIN f = 0..m /\ f = [k \in 0..m |-> f[k]] /\ Lists(f, list, S, m)
           B == {m \in 0..n : ~Has(m)}
<1>1. Has(0)
    <2> DEFINE f == [k \in 0..0 |-> << >>]
    <2>1. \A k \in 0..0 : k = 0
        OBVIOUS
    <2>2. DOMAIN f = 0..0 /\ f = [k \in 0..0 |-> f[k]] /\ Lists(f, list, S, 0)
        BY <2>1 DEF Lists
    <2> QED  BY <2>2
<1>2. ASSUME NEW m \in 1..n, Has(m - 1)
      PROVE  Has(m)
    <2>1. PICK g : Lists(g, list, S, m - 1)
        BY <1>2
    <2> DEFINE f == [k \in 0..m |-> IF k # m THEN g[k]
                                   ELSE IF m \in S THEN Append(g[m - 1], list[m]) ELSE g[m - 1]]
    <2>2. DOMAIN f = 0..m /\ f = [k \in 0..m |-> f[k]]
        OBVIOUS
    <2>3. ASSUME NEW k \in 0..m
          PROVE  f[k] = IF k = 0 THEN << >>
                        ELSE IF k \in S THEN Append(f[k - 1], list[k]) ELSE f[k - 1]
        <3>1. f[m - 1] = g[m - 1]
            OBVIOUS
        <3>2. CASE k = m
            BY <3>1, <3>2
        <3>3. CASE k # m
            <4>1. k \in 0..(m - 1) /\ f[k] = g[k] /\ (k # 0 => f[k - 1] = g[k - 1])
                BY <3>3
            <4> QED  BY <2>1, <4>1 DEF Lists
        <3> QED  BY <3>2, <3>3
    <2> HIDE DEF f
    <2>4. Lists(f, list, S, m)
        BY <2>3 DEF Lists
    <2> QED  BY <2>2, <2>4
<1> HIDE DEF Has
<1>3. B = {}
    <2> SUFFICES ASSUME B # {} PROVE FALSE
        OBVIOUS
    <2>1. PICK m \in B : m = 0 \/ m - 1 \notin B
        BY FirstOf
    <2> QED  BY <1>1, <1>2, <2>1
<1>4. Has(n)
    BY <1>3
<1> QED  BY <1>4 DEF Has

\* HeirsIn keeps exactly the entries of the addresses it is asked for.
LEMMA HeirsInFact ==
    ASSUME NEW list, list \in Seq(Beneficiary), NEW A
    PROVE  /\ HeirsIn(list, A) \in Seq(Beneficiary)
           /\ Addresses(HeirsIn(list, A)) = Addresses(list) \cap A
           /\ \A i \in DOMAIN HeirsIn(list, A) :
                \E j \in DOMAIN list : HeirsIn(list, A)[i] = list[j]
<1> DEFINE up == CHOOSE f : f = [k \in 0..Len(list) |-> IF k = 0 THEN << >>
                    ELSE IF list[k].address \in A THEN Append(f[k - 1], list[k]) ELSE f[k - 1]]
           n == Len(list)
           S == {k \in 1..n : list[k].address \in A}
           T == Beneficiary
<1>1. HeirsIn(list, A) = up[n]
    BY DEF HeirsIn
<1>2. n \in Nat /\ DOMAIN list = 1..n /\ \A i \in 1..n : list[i] \in T
    OBVIOUS
<1>3. PICK g : g = [k \in 0..n |-> g[k]] /\ Lists(g, list, S, n)
    BY <1>2, ListsExist
<1>4. g = [k \in 0..n |-> IF k = 0 THEN << >>
                    ELSE IF list[k].address \in A THEN Append(g[k - 1], list[k]) ELSE g[k - 1]]
    <2>1. \A k \in 0..n : k # 0 => (k \in S <=> list[k].address \in A)
        BY <1>2
    <2> HIDE DEF S
    <2> QED  BY <1>3, <2>1 DEF Lists
<1>5. up = [k \in 0..n |-> IF k = 0 THEN << >>
                    ELSE IF list[k].address \in A THEN Append(up[k - 1], list[k]) ELSE up[k - 1]]
    BY <1>4, Zenon
<1>6. \A k \in 1..n : k \in S <=> list[k].address \in A
    OBVIOUS
<1> HIDE DEF up, n, S, T
<1> DEFINE Values(s) == {s[i] : i \in DOMAIN s}
           Good(m) == up[m] \in Seq(T) /\ Values(up[m]) = {list[i] : i \in (1..m) \cap S}
           B == {m \in 0..n : ~Good(m)}
<1>7. Good(0)
    <2>1. 0 \in 0..n
        BY <1>2
    <2>2. up[0] = << >>
        BY <1>5, <2>1, Zenon
    <2> QED  BY <2>2
<1>8. ASSUME NEW m \in 1..n, Good(m - 1)
      PROVE  Good(m)
    <2> DEFINE old == up[m - 1]
    <2>1. up[m] = IF m \in S THEN Append(old, list[m]) ELSE old
        <3>1. m \in 0..n /\ m # 0 /\ (m \in S <=> list[m].address \in A)
            BY <1>2, <1>6
        <3> QED  BY <1>5, <3>1, Zenon
    <2>2. old \in Seq(T) /\ Values(old) = {list[i] : i \in (1..(m - 1)) \cap S}
        BY <1>8
    <2>3. list[m] \in T
        BY <1>2
    <2>4. 1..m = 1..(m - 1) \cup {m}
        BY <1>2
    <2> HIDE DEF old
    <2>5. CASE m \in S
        <3>1. Append(old, list[m]) \in Seq(T)
            BY <2>2, <2>3
        <3>2. Values(Append(old, list[m])) = Values(old) \cup {list[m]}
            <4>1. /\ DOMAIN Append(old, list[m]) = 1..(Len(old) + 1)
                  /\ DOMAIN old = 1..Len(old) /\ Len(old) \in Nat
                  /\ \A i \in 1..Len(old) : Append(old, list[m])[i] = old[i]
                  /\ Append(old, list[m])[Len(old) + 1] = list[m]
                BY <2>2, <2>3
            <4>2. 1..(Len(old) + 1) = 1..Len(old) \cup {Len(old) + 1}
                BY <4>1
            <4> QED  BY <4>1, <4>2
        <3>3. {list[i] : i \in (1..m) \cap S} = {list[i] : i \in (1..(m - 1)) \cap S} \cup {list[m]}
            BY <2>4, <2>5
        <3>4. up[m] = Append(old, list[m])
            BY <2>1, <2>5
        <3> HIDE DEF Values
        <3> QED  BY <2>2, <3>1, <3>2, <3>3, <3>4
    <2>6. CASE m \notin S
        BY <2>1, <2>2, <2>4, <2>6
    <2> QED  BY <2>5, <2>6
<1> HIDE DEF Good
<1>9. B = {}
    <2> SUFFICES ASSUME B # {} PROVE FALSE
        OBVIOUS
    <2>1. PICK m \in B : m = 0 \/ m - 1 \notin B
        BY <1>2, FirstOf
    <2> QED  BY <1>2, <1>7, <1>8, <2>1
<1>10. Good(n)
    BY <1>2, <1>9
<1>11. /\ up[n] \in Seq(T)
       /\ {up[n][i] : i \in DOMAIN up[n]} = {list[i] : i \in (1..n) \cap S}
    BY <1>10 DEF Good
<1>12. Addresses(up[n]) = Addresses(list) \cap A
    <2>1. Addresses(up[n]) = {b.address : b \in {up[n][i] : i \in DOMAIN up[n]}}
        BY DEF Addresses
    <2>2. {b.address : b \in {list[i] : i \in (1..n) \cap S}}
            = {list[i].address : i \in (1..n) \cap S}
        OBVIOUS
    <2>3. {list[i].address : i \in (1..n) \cap S} = {list[i].address : i \in 1..n} \cap A
        BY <1>6
    <2> QED  BY <1>2, <1>11, <2>1, <2>2, <2>3 DEF Addresses
<1>13. \A i \in DOMAIN up[n] : \E j \in DOMAIN list : up[n][i] = list[j]
    <2>1. \A i \in DOMAIN up[n] : up[n][i] \in {list[j] : j \in (1..n) \cap S}
        BY <1>11
    <2> QED  BY <1>2, <2>1
<1> QED  BY <1>1, <1>11, <1>12, <1>13 DEF T

LEMMA QuotientType == \A n \in Nat, d \in Nat \ {0} : n \div d \in Nat
OBVIOUS

\* renormalize_percentages changes amounts only.
LEMMA NormalisedType ==
    ASSUME NEW list, list \in Seq(Beneficiary)
    PROVE  /\ renormalize_percentages(list) \in Seq(Beneficiary)
           /\ Addresses(renormalize_percentages(list)) = Addresses(list)
<1> DEFINE shares == OfKind(list, "Percentage")
           total  == TotalOf(list, "Percentage")
           scaled == [i \in DOMAIN list |-> IF total > 0 THEN (list[i].amount * 10000) \div total
                                                        ELSE 0]
           new    == RescaledTo(list, 10000, scaled)
<1>1. renormalize_percentages(list) = new
    BY DEF renormalize_percentages
<1>2. CASE shares = {}
    <2>1. new = [i \in DOMAIN list |-> list[i]]
        BY <1>2 DEF RescaledTo
    <2>2. new = list
        BY <2>1
    <2> QED  BY <1>1, <2>2
<1>3. CASE shares # {}
    <2>1. total \in Nat /\ \A i \in DOMAIN list : list[i].amount \in Nat
        BY ListTotals
    <2> HIDE DEF total
    <2>2. ASSUME NEW i \in DOMAIN list
          PROVE  scaled[i] \in Nat
        <3> DEFINE a == list[i].amount
        <3>1. a \in Nat /\ scaled[i] = IF total > 0 THEN (a * 10000) \div total ELSE 0
            BY <2>1
        <3> HIDE DEF a, scaled
        <3>2. a * 10000 \in Nat
            BY <3>1
        <3>3. total > 0 => (a * 10000) \div total \in Nat
            BY <2>1, <3>2, QuotientType
        <3> QED  BY <3>1, <3>3
    <2> HIDE DEF scaled
    <2>3. /\ new \in Seq(Beneficiary) /\ DOMAIN new = DOMAIN list
          /\ \A i \in DOMAIN list : new[i].address = list[i].address
        BY <1>3, <2>2, RescaledType
    <2> HIDE DEF new
    <2> QED  BY <1>1, <2>3 DEF Addresses
<1> QED  BY <1>2, <1>3

\* The heirs named move to the child, the others stay, and both lists are checked
\* against the money on their side.
LEMMA SplitEstate ==
    ASSUME EstateInv, LifecycleInv, FieldsInv, NEW id \in DOMAIN wills, NEW owner,
           NEW split \in Splits, split_will(id, owner, split)
    PROVE  EstateInv'
<1> DEFINE old       == wills[id].beneficiaries
           child_id  == next_will_id + 1
           named     == ToSet(split.heirs)
           moving    == BalancesOf(split.tokens)
           primary   == split.tokens[1][1]
           staying   == [t \in DOMAIN wills[id].balances |->
                            wills[id].balances[t] - BalanceOf(moving, t)]
           remaining == renormalize_percentages(HeirsIn(old, Addresses(old) \ named))
           parted    == renormalize_percentages(HeirsIn(old, named))
           source    == sync_primary_balance([wills[id] EXCEPT !.balances = staying,
                                                               !.beneficiaries = remaining])
           child     == [Descendant(wills[id], wills[id].owner, moving, primary, moving[primary])
                            EXCEPT !.beneficiaries = parted, !.keeper_bounty_bps = 0]
<1>1. /\ wills' = Put(Put(wills, id, source), child_id, child)
      /\ beneficiary_wills' =
            Indexed(Unindexed(beneficiary_wills, named, id), named, child_id)
      /\ owner_wills' = Indexed(owner_wills, {owner}, child_id)
      /\ protocol_stats' = increment_active_will_count(
                                increment_active_will_count(protocol_stats))
      /\ wills[id].owner = owner /\ wills[id].status = "Active"
      /\ ValidTokens(split.tokens) /\ named \subseteq Addresses(old)
      /\ assert_valid_allocations(remaining, BalanceOf(staying, wills[id].token))
      /\ assert_valid_allocations(parted, moving[primary])
    BY DEF split_will, OwnedBy, HasStatus
<1>2. id \in LiveWills /\ WillFields \subseteq DOMAIN wills[id]
    BY <1>1 DEF LiveWills, LiveStatus, FieldsInv
<1>3. WellAllotted(wills[id]) /\ wills[id].owner \in Accounts
    BY <1>2 DEF EstateInv
<1>4. child_id \notin DOMAIN wills /\ child_id # id
    BY FreeIds DEF LifecycleInv
<1>5. /\ remaining \in Seq(Beneficiary) /\ Addresses(remaining) = Addresses(old) \ named
      /\ parted \in Seq(Beneficiary) /\ Addresses(parted) = named
    <2>1. old \in Seq(Beneficiary)
        BY <1>3 DEF WellAllotted
    <2>2. ASSUME NEW A
          PROVE  LET part == HeirsIn(old, A)
                 IN  /\ renormalize_percentages(part) \in Seq(Beneficiary)
                     /\ Addresses(renormalize_percentages(part)) = Addresses(old) \cap A
        <3> DEFINE part == HeirsIn(old, A)
        <3>1. part \in Seq(Beneficiary) /\ Addresses(part) = Addresses(old) \cap A
            BY <2>1, HeirsInFact
        <3> HIDE DEF part, old
        <3>2. /\ renormalize_percentages(part) \in Seq(Beneficiary)
              /\ Addresses(renormalize_percentages(part)) = Addresses(part)
            BY <3>1, NormalisedType
        <3> QED  BY <3>1, <3>2 DEF part
    <2> QED  BY <1>1, <2>2
<1>6. 1 \in DOMAIN split.tokens /\ split.tokens \in TokenLists
    BY <1>1, PortfolioInputsAssumption, ValidPurse
<1>7. moving[primary] = BalanceOf(moving, primary)
    <2>1. primary \in DOMAIN moving
        BY <1>6, PurseType
    <2> HIDE DEF moving, primary
    <2> QED  BY <2>1 DEF BalanceOf
<1> HIDE DEF old, named, moving, primary, staying, remaining, parted
<1>8. /\ source.status = "Active" /\ source.owner = owner
      /\ source.balances = staying /\ source.token = wills[id].token
      /\ source.beneficiaries = remaining
    BY <1>1, <1>2 DEF sync_primary_balance, WillFields
<1>9. /\ child.status = "Active" /\ child.owner = owner
      /\ child.balances = moving /\ child.token = primary
      /\ child.beneficiaries = parted
    <2> DEFINE born == Descendant(wills[id], wills[id].owner, moving, primary, moving[primary])
    <2>1. /\ born.balances = moving /\ born.token = primary /\ born.status = "Active"
          /\ born.owner = owner /\ WillFields \subseteq DOMAIN born
        BY <1>1, <1>2 DEF Descendant, WillFields
    <2> HIDE DEF born
    <2>2. child = [born EXCEPT !.beneficiaries = parted, !.keeper_bounty_bps = 0]
        BY DEF born
    <2> HIDE DEF child
    <2> QED  BY <2>1, <2>2 DEF WillFields
<1> HIDE DEF source, child, child_id
<1>10. WellAllotted(source) /\ WellAllotted(child)
    BY <1>1, <1>5, <1>7, <1>8, <1>9 DEF WellAllotted
<1>11. /\ DOMAIN wills' = DOMAIN wills \cup {child_id}
       /\ wills'[id] = source /\ wills'[child_id] = child
       /\ \A x \in DOMAIN wills : x # id => wills'[x] = wills[x]
    BY <1>1, <1>4 DEF Put
<1>12. LiveWills' = LiveWills \cup {child_id} /\ child_id \notin LiveWills
    BY <1>1, <1>4, <1>8, <1>9, <1>11 DEF LiveWills, LiveStatus
<1>13. \A x \in LiveWills : x # id => wills'[x] = wills[x]
    BY <1>11 DEF LiveWills
<1>14. \A x \in LiveWills' : WellAllotted(wills'[x]) /\ wills'[x].owner \in Accounts
    <2>1. \A x \in LiveWills : WellAllotted(wills[x]) /\ wills[x].owner \in Accounts
        BY DEF EstateInv
    <2> QED  BY <1>1, <1>3, <1>8, <1>9, <1>10, <1>11, <1>12, <1>13, <2>1
<1>15. \A a \in Accounts : owner_wills'[a] = {x \in LiveWills' : wills'[x].owner = a}
    <2> TAKE a \in Accounts
    <2>1. owner_wills[a] = {x \in LiveWills : wills[x].owner = a}
        BY DEF EstateInv, AddressIndexesExact
    <2>2. owner_wills'[a] = IF a = owner THEN owner_wills[a] \cup {child_id} ELSE owner_wills[a]
        BY <1>1 DEF Indexed
    <2>3. \A x \in LiveWills : wills'[x].owner = wills[x].owner
        BY <1>1, <1>8, <1>11, <1>13
    <2>4. wills'[child_id].owner = owner
        BY <1>9, <1>11
    <2> QED  BY <1>12, <2>1, <2>2, <2>3, <2>4
<1>16. \A a \in Accounts :
            beneficiary_wills'[a] = {x \in LiveWills' : a \in Addresses(wills'[x].beneficiaries)}
    <2> TAKE a \in Accounts
    <2> DEFINE listed == {x \in LiveWills : a \in Addresses(wills[x].beneficiaries)}
               after  == {x \in LiveWills' : a \in Addresses(wills'[x].beneficiaries)}
    <2>1. beneficiary_wills[a] = listed
        BY DEF EstateInv, AddressIndexesExact
    <2>2. beneficiary_wills'[a] = IF a \in named THEN (listed \ {id}) \cup {child_id} ELSE listed
        BY <1>1, <2>1 DEF Indexed, Unindexed
    <2>3. \A x : x \notin {id, child_id} => (x \in after <=> x \in listed)
        BY <1>12, <1>13
    <2>4. id \in after <=> a \in Addresses(old) \ named
        BY <1>2, <1>5, <1>8, <1>11, <1>12
    <2>5. child_id \in after <=> a \in named
        BY <1>5, <1>9, <1>11, <1>12
    <2>6. (id \in listed <=> a \in Addresses(old)) /\ child_id \notin listed
        BY <1>2, <1>12 DEF old
    <2> HIDE DEF listed, after
    <2>7. beneficiary_wills'[a] = after
        BY <1>1, <1>4, <2>2, <2>3, <2>4, <2>5, <2>6
    <2> QED  BY <2>7 DEF after
<1>17. StatFields \subseteq DOMAIN protocol_stats' /\ DOMAIN owner_wills' = Accounts
    BY <1>1 DEF EstateInv, increment_active_will_count, Indexed
<1> QED  BY <1>14, <1>15, <1>16, <1>17 DEF EstateInv, AddressIndexesExact

----------------------------------------------------------------------------
LEMMA EstateKept ==
    ASSUME EstateInv, PaidInv, FieldsInv, LifecycleInv, [EstateNext]_vars
    PROVE  EstateKeeps
<1>1. CASE OwnerNext
    <2>1. ASSUME NEW id \in DOMAIN wills, NEW owner \in Accounts,
                 \/ confirm_will(id, owner)
                 \/ \E delegate : set_delegate(id, owner, delegate)
                 \/ \E checkin, grace : update_periods(id, owner, checkin, grace)
                 \/ emergency_checkin(id, owner)
                 \/ close_will(id, owner)
          PROVE  EstateKeeps
        BY <2>1, OwnerContinues, ContinuedEstate
    <2> QED  BY <1>1, <2>1, CreateEstate, CancelEstate DEF OwnerNext
<1>2. CASE \E ids \in SUBSET DOMAIN wills : SignOfLife(ids)
    BY <1>2, OwnerContinues, BatchContinues, ContinuedEstate DEF SignOfLife
<1>3. CASE AnyoneNext
    <2>1. ASSUME NEW id \in DOMAIN wills, NEW keeper, NEW refused,
                 release_inheritance(id, keeper, refused)
          PROVE  EstateKeeps
        <3> DEFINE stats == adjust_locked_for_balances(protocol_stats, wills[id].balances, -1)
        <3>1. /\ wills[id].status = "Triggered"
              /\ distribute(id, wills[id], keeper, refused, stats, guardian_vote)
            BY <2>1 DEF release_inheritance, HasStatus
        <3>2. /\ StatFields \subseteq DOMAIN stats
              /\ stats.active_will_count = protocol_stats.active_will_count
            BY LockedOnly DEF EstateInv
        <3> HIDE DEF stats
        <3>3. id \in LiveWills
            BY <3>1 DEF LiveWills, LiveStatus
        <3>4. SameEstate(wills[id], wills[id])
            BY DEF SameEstate, SameMoney
        <3> QED  BY <3>1, <3>2, <3>3, <3>4, ReleaseEstate
    <2>2. ASSUME NEW id \in DOMAIN wills, trigger_will(id)
          PROVE  EstateKeeps
        BY <2>2, OwnerContinues, ContinuedEstate
    <2> QED  BY <1>3, <2>1, <2>2 DEF AnyoneNext
<1>4. CASE Tick \/ UNCHANGED vars
    BY <1>4, EstateUntouched DEF Tick, vars, indexes
<1>5. CASE GuardianNext
    <2>1. ASSUME NEW id \in DOMAIN wills, NEW guardian, NEW refused,
                 \/ guardian_trigger(id, guardian, refused)
                 \/ guardian_cancel_trigger(id, guardian)
                 \/ accept_guardian_role(id, guardian)
                 \/ reject_guardian_role(id, guardian)
          PROVE  EstateKeeps
        <3>1. CASE Continued
            BY <3>1, ContinuedEstate
        <3>2. ASSUME NEW w, NEW records, SameEstate(w, wills[id]), DOMAIN w = DOMAIN wills[id],
                     wills[id].status = "Active",
                     distribute(id, w, NoAccount, refused, protocol_stats, records)
              PROVE  EstateKeeps
            <4>1. id \in LiveWills /\ StatFields \subseteq DOMAIN protocol_stats
                BY <3>2 DEF LiveWills, LiveStatus, EstateInv
            <4> QED  BY <3>2, <4>1, ReleaseEstate
        <3> QED  BY <2>1, <3>1, <3>2, GuardianContinues
    <2> QED  BY <1>5, <2>1 DEF GuardianNext
<1>6. CASE AppointNext
    BY <1>6, AppointContinues, ContinuedEstate DEF AppointNext
<1>7. CASE EstateOwnerNext
    <2>1. ASSUME NEW id \in DOMAIN wills, NEW owner, NEW p \in TopUps,
                 top_up(id, owner, p[1], p[2])
          PROVE  EstateKeeps
        BY <2>1, TopUpEstate, EstateInputsAssumption
    <2> QED  BY <1>7, <2>1, UpdateEstate, HashedEstate DEF EstateOwnerNext
<1>8. CASE EstateHeirNext
    <2>1. ASSUME NEW id, NEW t, NEW recipient, retry_failed_payout(id, t, recipient)
          PROVE  EstateKeeps
        BY <2>1, EstateUntouched DEF retry_failed_payout, indexes
    <2> QED  BY <1>8, <2>1, RenounceEstate, ClaimEstate, ArchiveEstate DEF EstateHeirNext
<1> QED  BY <1>1, <1>2, <1>3, <1>4, <1>5, <1>6, <1>7, <1>8
         DEF EstateNext, QuorumNext, LifecycleNext

\* The contract as long as no will is split and no two are merged.
SeparateNext ==
    \/ EstateNext
    \/ \E owner \in Accounts :
        \/ \E forms \in Batches : batch_create_wills(owner, forms)
        \/ \E id \in DOMAIN wills, tokens \in ClonePurses : clone_will(id, owner, tokens)
    \/ repair_protocol_stats

SeparateSpec == LifecycleInit /\ [][SeparateNext]_vars

LEMMA SeparateKept ==
    ASSUME EstateInv, PaidInv, FieldsInv, LifecycleInv, [SeparateNext]_vars
    PROVE  EstateKeeps
BY EstateKept, BatchEstate, CloneEstate, RepairEstate DEF SeparateNext

LEMMA SeparateIsUnmerged == SeparateSpec => UnmergedSpec
<1>1. [SeparateNext]_vars => [UnmergedNext]_vars
    BY DEF SeparateNext, UnmergedNext, MultiplyNext
<1> QED  BY <1>1, PTL DEF SeparateSpec, UnmergedSpec

\* What owners and heirs do with single wills is a part of it.
LEMMA EstateIsSeparate == EstateSpec => SeparateSpec
<1>1. [EstateNext]_vars => [SeparateNext]_vars
    BY DEF SeparateNext
<1> QED  BY <1>1, PTL DEF EstateSpec, SeparateSpec

\* A step of the contract without merges splits a will or is one of those.
LEMMA UnmergedKept ==
    ASSUME EstateInv, PaidInv, FieldsInv, LifecycleInv, [UnmergedNext]_vars
    PROVE  EstateInv'
<1>1. CASE [SeparateNext]_vars
    BY <1>1, SeparateKept DEF EstateKeeps
<1>2. ASSUME NEW id \in DOMAIN wills, NEW owner \in Accounts, NEW split \in Splits,
             split_will(id, owner, split)
      PROVE  EstateInv'
    BY <1>2, SplitEstate
<1> QED  BY <1>1, <1>2 DEF UnmergedNext, MultiplyNext, SeparateNext

LEMMA EstateStarts == LifecycleInit => PaidInv /\ EstateInv /\ ActiveCountExact
<1> SUFFICES ASSUME LifecycleInit
             PROVE  PaidInv /\ EstateInv /\ ActiveCountExact
    OBVIOUS
<1>1. DOMAIN wills = {} /\ LiveWills = {}
    BY DEF LifecycleInit, StorageInit, LiveWills
<1>2. Cardinality(LiveWills) = 0
    BY <1>1, FS_EmptySet
<1>3. /\ StatFields \subseteq DOMAIN protocol_stats /\ protocol_stats.active_will_count = 0
      /\ AddressIndexesExact /\ DOMAIN owner_wills = Accounts
    BY <1>1 DEF LifecycleInit, StorageInit, StatFields, AddressIndexesExact
<1> QED  BY <1>1, <1>2, <1>3 DEF PaidInv, EstateInv, ActiveCountExact

\* The lists of heirs and the indexes derived from them are kept by every entry
\* point but merge_wills, which leaves heirs it drops in the index.
THEOREM EstateInvariantHolds == UnmergedSpec => [](PaidInv /\ EstateInv)
<1>1. PaidInv /\ FieldsInv /\ LifecycleInv /\ [UnmergedNext]_vars => PaidInv'
    <2>1. [UnmergedNext]_vars => [PortfolioNext]_vars
        BY DEF UnmergedNext, PortfolioNext, PortfolioOnlyNext
    <2> QED  BY <2>1, StepPaid
<1>2. PaidInv /\ EstateInv /\ FieldsInv /\ LifecycleInv /\ [UnmergedNext]_vars => EstateInv'
    BY UnmergedKept
<1> QED  BY <1>1, <1>2, EstateStarts, UnmergedIsPortfolio, ContractInvariantHolds, FieldsHold, PTL
         DEF UnmergedSpec

\* No list of heirs, however it came about, promises more in fixed amounts than
\* the will holds of its primary token: not after a renunciation, a top-up, a
\* split or a change of settings either, which check the list against different
\* sums.
THEOREM BequestsAreCovered == UnmergedSpec => []FixedBequestsCovered
<1>1. EstateInv => FixedBequestsCovered
    <2> SUFFICES ASSUME EstateInv, NEW id \in LiveWills
                 PROVE  TotalOf(wills[id].beneficiaries, "FixedAmount")
                            <= BalanceOf(wills[id].balances, wills[id].token)
        BY DEF FixedBequestsCovered
    <2>1. WellAllotted(wills[id])
        BY DEF EstateInv
    <2> QED  BY <2>1 DEF WellAllotted, assert_valid_allocations
<1> QED  BY <1>1, EstateInvariantHolds, PTL

\* Percentages add up to 100 % even after a share is spread over the others and
\* rounded (renounce_beneficiary), or the heirs are parted (split_will).
THEOREM PercentagesAreWhole == UnmergedSpec => []PercentagesWhole
<1>1. EstateInv => PercentagesWhole
    <2> SUFFICES ASSUME EstateInv, NEW id \in LiveWills,
                        OfKind(wills[id].beneficiaries, "Percentage") # {}
                 PROVE  TotalOf(wills[id].beneficiaries, "Percentage") = 10000
        BY DEF PercentagesWhole
    <2>1. WellAllotted(wills[id])
        BY DEF EstateInv
    <2> QED  BY <2>1 DEF WellAllotted, assert_valid_allocations
<1> QED  BY <1>1, EstateInvariantHolds, PTL

\* The indexes by owner and by beneficiary follow every change of heirs, every
\* end, every archived will and every split.
THEOREM IndexesHold == UnmergedSpec => []AddressIndexesExact
<1>1. EstateInv => AddressIndexesExact
    BY DEF EstateInv
<1> QED  BY <1>1, EstateInvariantHolds, PTL

\* Each end of a will is counted once, whichever way it comes about, and so is
\* each beginning but that of a will split off another (split_will counts it twice).
THEOREM CountHolds == SeparateSpec => []ActiveCountExact
<1>1. /\ EstateInv /\ PaidInv /\ FieldsInv /\ LifecycleInv /\ ActiveCountExact
      /\ [SeparateNext]_vars
      => ActiveCountExact'
    BY SeparateKept DEF EstateKeeps
<1> QED  BY <1>1, EstateStarts, SeparateIsUnmerged, EstateInvariantHolds, UnmergedIsPortfolio,
            ContractInvariantHolds, FieldsHold, PTL DEF SeparateSpec

----------------------------------------------------------------------------
(* What owners are told *)

\* What a live will holds of a token can be added up.
LEMMA HeldType ==
    ASSUME PaidInv, NEW t
    PROVE  \A id \in LiveWills : BalanceOf(wills[id].balances, t) \in Int
BY DEF PaidInv, PaidOut, LiveWills, BalanceOf

\* What get_owner_stats answers account a.
LEMMA OwnerIsTold ==
    ASSUME EstateInv, NEW a \in Accounts
    PROVE  LET stats == get_owner_stats(a)
           IN  /\ stats.total_wills = Cardinality(owner_wills[a])
               /\ stats.active_wills = Cardinality(owner_wills[a])
               /\ \A t \in Tokens : stats.total_locked_by_token[t] = HeldBy(owner_wills[a], t)
<1>1. \A id \in owner_wills[a] : wills[id].status \in LiveStatus
    BY DEF EstateInv, AddressIndexesExact, LiveWills
<1>2. {id \in owner_wills[a] : get_will_status(id) \in LiveStatus} = owner_wills[a]
    BY <1>1 DEF get_will_status
<1> QED  BY <1>2 DEF get_owner_stats, OwnerStatsOf

\* Every live will is counted for exactly one owner.
LEMMA OwnersShareAll ==
    ASSUME EstateInv, LifecycleInv, NEW f, \A id \in LiveWills : f[id] \in Int
    PROVE  SumFunctionOnSet([a \in Accounts |-> SumFunctionOnSet(f, owner_wills[a])], Accounts)
                = SumFunctionOnSet(f, LiveWills)
<1> DEFINE own == [id \in LiveWills |-> wills[id].owner]
<1>1. \A id \in LiveWills : own[id] \in Accounts
    BY DEF EstateInv
<1>2. \A a \in Accounts : Part(LiveWills, own, a) = owner_wills[a]
    BY DEF EstateInv, AddressIndexesExact, Part
<1> HIDE DEF own
<1>3. IsFiniteSet(LiveWills) /\ IsFiniteSet(Accounts)
    BY FewLiveWills, AccountsAssumption
<1>4. SumFunctionOnSet([a \in Accounts |-> SumFunctionOnSet(f, Part(LiveWills, own, a))],
                       Accounts) = SumFunctionOnSet(f, LiveWills)
    BY <1>1, <1>3, SumByParts
<1>5. [a \in Accounts |-> SumFunctionOnSet(f, Part(LiveWills, own, a))]
            = [a \in Accounts |-> SumFunctionOnSet(f, owner_wills[a])]
    BY <1>2
<1> QED  BY <1>4, <1>5

\* The wills of one owner are live, and finitely many.
LEMMA OwnersHoldLive ==
    ASSUME EstateInv, LifecycleInv, NEW a \in Accounts
    PROVE  owner_wills[a] \subseteq LiveWills /\ IsFiniteSet(owner_wills[a])
<1>1. owner_wills[a] \subseteq LiveWills
    BY DEF EstateInv, AddressIndexesExact
<1> QED  BY <1>1, FewLiveWills, FS_Subset

\* The answers of get_owner_stats to all owners add up to the stored count of live
\* wills and to the totals that audit_protocol_stats recomputes, for any number of
\* owners, wills and tokens: no will is counted twice, none is forgotten.
THEOREM OwnersAreToldAll == SeparateSpec => []OwnerStatsAddUp
<1>1. LifecycleInv /\ PaidInv /\ EstateInv /\ ActiveCountExact => OwnerStatsAddUp
    <2> SUFFICES ASSUME LifecycleInv, PaidInv, EstateInv, ActiveCountExact
                 PROVE  OwnerStatsAddUp
        OBVIOUS
    <2> DEFINE stats == [a \in Accounts |-> get_owner_stats(a)]
               counts == [a \in Accounts |-> stats[a].active_wills]
               locked(t) == [a \in Accounts |-> stats[a].total_locked_by_token[t]]
    <2>1. \A a \in Accounts : stats[a].active_wills = stats[a].total_wills
        BY OwnerIsTold
    <2>2. SumFunction(counts) = audit_protocol_stats.stored.active_will_count
        <3> DEFINE ones == [id \in LiveWills |-> 1]
        <3>1. \A id \in LiveWills : ones[id] = 1
            OBVIOUS
        <3> HIDE DEF ones
        <3>2. \A a \in Accounts : SumFunctionOnSet(ones, owner_wills[a])
                                    = Cardinality(owner_wills[a])
            BY <3>1, OwnersHoldLive, SumOfOnes
        <3>3. counts = [a \in Accounts |-> SumFunctionOnSet(ones, owner_wills[a])]
            BY <3>2, OwnerIsTold
        <3>4. SumFunctionOnSet(ones, LiveWills) = Cardinality(LiveWills)
            BY <3>1, FewLiveWills, SumOfOnes
        <3>5. SumFunction(counts) = SumFunctionOnSet(counts, Accounts)
            BY DEF SumFunction
        <3> HIDE DEF counts
        <3>6. SumFunction(counts) = Cardinality(LiveWills)
            BY <3>1, <3>3, <3>4, <3>5, OwnersShareAll
        <3>7. audit_protocol_stats.stored.active_will_count = Cardinality(LiveWills)
            BY DEF audit_protocol_stats, ActiveCountExact
        <3> QED  BY <3>6, <3>7
    <2>3. ASSUME NEW t \in Tokens
          PROVE  SumFunction(locked(t)) = audit_protocol_stats.computed.total_locked_by_token[t]
        <3> DEFINE held == [id \in LiveWills |-> BalanceOf(wills[id].balances, t)]
        <3>1. \A id \in LiveWills : held[id] \in Int
            BY HeldType
        <3>2. ASSUME NEW ids, ids \subseteq LiveWills
              PROVE  HeldBy(ids, t) = SumFunctionOnSet(held, ids)
            <4> DEFINE part == [id \in ids |-> BalanceOf(wills[id].balances, t)]
            <4>1. HeldBy(ids, t) = SumFunctionOnSet(part, ids)
                BY DEF HeldBy, SumFunction
            <4>2. \A id \in ids : part[id] = held[id] /\ held[id] \in Int
                BY <3>1, <3>2
            <4>3. IsFiniteSet(ids)
                BY <3>2, FewLiveWills, FS_Subset
            <4> HIDE DEF part, held
            <4> QED  BY <4>1, <4>2, <4>3, SumSame
        <3> HIDE DEF held
        <3>3. locked(t) = [a \in Accounts |-> SumFunctionOnSet(held, owner_wills[a])]
            BY <3>2, OwnerIsTold, OwnersHoldLive
        <3>4. SumFunction(locked(t)) = SumFunctionOnSet(locked(t), Accounts)
            BY DEF SumFunction
        <3> HIDE DEF locked
        <3>5. SumFunction(locked(t)) = SumFunctionOnSet(held, LiveWills)
            BY <3>1, <3>3, <3>4, OwnersShareAll
        <3>6. audit_protocol_stats.computed.total_locked_by_token[t] = HeldBy(LiveWills, t)
            BY DEF audit_protocol_stats, recompute_protocol_stats
        <3> QED  BY <3>2, <3>5, <3>6
    <2> QED  BY <2>1, <2>2, <2>3 DEF OwnerStatsAddUp
<1> QED  BY <1>1, CountHolds, SeparateIsUnmerged, EstateInvariantHolds, UnmergedIsPortfolio,
            ContractInvariantHolds, PTL

----------------------------------------------------------------------------
(* Lists have a limit *)

Fits(index) ==
    \A a \in Accounts : IsFiniteSet(index[a]) /\ Cardinality(index[a]) <= MAX_WILLS_PER_INDEX

ListsFit == Fits(owner_wills) /\ Fits(beneficiary_wills)

\* What CanIndex lets in fits.
LEMMA RoomKept ==
    ASSUME NEW index, Fits(index), NEW A, NEW id, CanIndex(index, A \cap Accounts, id)
    PROVE  Fits(Indexed(index, A, id))
<1> SUFFICES ASSUME NEW a \in Accounts
             PROVE  /\ IsFiniteSet(Indexed(index, A, id)[a])
                    /\ Cardinality(Indexed(index, A, id)[a]) <= MAX_WILLS_PER_INDEX
    BY DEF Fits
<1>1. IsFiniteSet(index[a]) /\ Cardinality(index[a]) <= MAX_WILLS_PER_INDEX
    BY DEF Fits
<1>2. CASE a \notin A
    BY <1>1, <1>2 DEF Indexed
<1>3. CASE a \in A
    <2>1. Indexed(index, A, id)[a] = index[a] \cup {id}
        BY <1>3 DEF Indexed
    <2>2. id \in index[a] \/ Cardinality(index[a]) < MAX_WILLS_PER_INDEX
        BY <1>3 DEF CanIndex, IndexHasRoom
    <2>3. /\ IsFiniteSet(index[a] \cup {id})
          /\ Cardinality(index[a] \cup {id})
                = IF id \in index[a] THEN Cardinality(index[a]) ELSE Cardinality(index[a]) + 1
        BY <1>1, FS_AddElement
    <2>4. Cardinality(index[a]) \in Nat /\ MAX_WILLS_PER_INDEX \in Nat
        BY <1>1, FS_CardinalityType, BoundsAssumption
    <2> QED  BY <1>1, <2>1, <2>2, <2>3, <2>4
<1> QED  BY <1>2, <1>3

\* What is taken off a list makes room.
LEMMA RoomMade ==
    ASSUME NEW index, Fits(index), NEW A, NEW id
    PROVE  Fits(Unindexed(index, A, id))
<1> SUFFICES ASSUME NEW a \in Accounts
             PROVE  /\ IsFiniteSet(Unindexed(index, A, id)[a])
                    /\ Cardinality(Unindexed(index, A, id)[a]) <= MAX_WILLS_PER_INDEX
    BY DEF Fits
<1>1. IsFiniteSet(index[a]) /\ Cardinality(index[a]) <= MAX_WILLS_PER_INDEX
    BY DEF Fits
<1>2. Unindexed(index, A, id)[a] \in SUBSET index[a]
    BY DEF Unindexed
<1>3. /\ IsFiniteSet(Unindexed(index, A, id)[a])
      /\ Cardinality(Unindexed(index, A, id)[a]) <= Cardinality(index[a])
    BY <1>1, <1>2, FS_Subset
<1>4. /\ Cardinality(index[a]) \in Nat /\ Cardinality(Unindexed(index, A, id)[a]) \in Nat
      /\ MAX_WILLS_PER_INDEX \in Nat
    BY <1>1, <1>3, FS_CardinalityType, BoundsAssumption
<1> QED  BY <1>1, <1>3, <1>4

\* A will that ends leaves the lists of its owner and its heirs.
LEMMA EndFits ==
    ASSUME ListsFit, NEW id,
           \/ \E owner : cancel_will(id, owner)
           \/ \E w, keeper, refused, stats, records :
                    distribute(id, w, keeper, refused, stats, records)
           \/ archive_will(id)
    PROVE  ListsFit'
<1>1. \E O, B : /\ owner_wills' = Unindexed(owner_wills, O, id)
                /\ beneficiary_wills' = Unindexed(beneficiary_wills, B, id)
    <2>1. ASSUME NEW owner, cancel_will(id, owner)
          PROVE  /\ owner_wills' = Unindexed(owner_wills, {owner}, id)
                 /\ beneficiary_wills' =
                        Unindexed(beneficiary_wills, Addresses(wills[id].beneficiaries), id)
        BY <2>1 DEF cancel_will
    <2>2. ASSUME NEW w, NEW keeper, NEW refused, NEW stats, NEW records,
                 distribute(id, w, keeper, refused, stats, records)
          PROVE  /\ owner_wills' = Unindexed(owner_wills, {w.owner}, id)
                 /\ beneficiary_wills' =
                        Unindexed(beneficiary_wills, Addresses(w.beneficiaries), id)
        BY <2>2 DEF distribute
    <2>3. archive_will(id)
            => /\ owner_wills' = Unindexed(owner_wills, {wills[id].owner}, id)
               /\ beneficiary_wills' =
                        Unindexed(beneficiary_wills, Addresses(wills[id].beneficiaries), id)
        BY DEF archive_will
    <2> QED  BY <2>1, <2>2, <2>3
<1> QED  BY <1>1, RoomMade DEF ListsFit

\* create_will asks for room beforehand and clone_will while it writes.
LEMMA NewFits ==
    ASSUME ListsFit, NEW owner,
           \/ \E form : create_will(owner, form)
           \/ \E source, tokens : clone_will(source, owner, tokens)
    PROVE  ListsFit'
<1>1. PICK heirs, id :
        /\ owner_wills' = Indexed(owner_wills, {owner}, id)
        /\ beneficiary_wills' = Indexed(beneficiary_wills, heirs, id)
        /\ CanIndex(owner_wills, {owner}, id) /\ CanIndex(beneficiary_wills, heirs, id)
    BY DEF create_will, clone_will, assert_index_capacity, CanIndex
<1>2. /\ CanIndex(owner_wills, {owner} \cap Accounts, id)
      /\ CanIndex(beneficiary_wills, heirs \cap Accounts, id)
    BY <1>1 DEF CanIndex
<1> QED  BY <1>1, <1>2, RoomKept DEF ListsFit

\* Who was named before needs no room: only new heirs are put on a list.
LEMMA HeirsFit ==
    ASSUME ListsFit, NEW id, NEW owner, NEW heir,
           \/ \E list : update_beneficiaries(id, owner, list)
           \/ \E s : update_will_settings(id, owner, s)
           \/ renounce_beneficiary(id, heir)
    PROVE  ListsFit'
<1>0. UNCHANGED owner_wills
    BY DEF update_beneficiaries, update_will_settings, renounce_beneficiary
<1>1. \/ \E old, new :
            /\ beneficiary_wills' = Reindexed(id, old, new)
            /\ CanIndex(beneficiary_wills, Addresses(new) \ Addresses(old), id)
      \/ beneficiary_wills' = Unindexed(beneficiary_wills, {heir}, id)
    <2>1. ASSUME NEW s, update_will_settings(id, owner, s), s.beneficiaries = None
          PROVE  /\ beneficiary_wills' = Reindexed(id, wills[id].beneficiaries, wills[id].beneficiaries)
                 /\ CanIndex(beneficiary_wills, {}, id)
        BY <2>1 DEF update_will_settings, CanIndex
    <2>2. ASSUME NEW s, update_will_settings(id, owner, s), s.beneficiaries # None
          PROVE  /\ beneficiary_wills' = Reindexed(id, wills[id].beneficiaries, s.beneficiaries)
                 /\ CanIndex(beneficiary_wills,
                        Addresses(s.beneficiaries) \ Addresses(wills[id].beneficiaries), id)
        BY <2>2 DEF update_will_settings
    <2>3. ASSUME NEW list, update_beneficiaries(id, owner, list)
          PROVE  /\ beneficiary_wills' = Reindexed(id, wills[id].beneficiaries, list)
                 /\ CanIndex(beneficiary_wills,
                        Addresses(list) \ Addresses(wills[id].beneficiaries), id)
        BY <2>3 DEF update_beneficiaries
    <2>4. \A list : Addresses(list) \ Addresses(list) = {}
        OBVIOUS
    <2>5. renounce_beneficiary(id, heir)
            => beneficiary_wills' = Unindexed(beneficiary_wills, {heir}, id)
        BY DEF renounce_beneficiary
    <2> QED  BY <2>1, <2>2, <2>3, <2>4, <2>5
<1>2. ASSUME NEW old, NEW new, beneficiary_wills' = Reindexed(id, old, new),
             CanIndex(beneficiary_wills, Addresses(new) \ Addresses(old), id)
      PROVE  Fits(beneficiary_wills')
    <2> DEFINE pruned == Unindexed(beneficiary_wills, Addresses(old) \ Addresses(new), id)
               added  == Addresses(new) \ Addresses(old)
    <2>1. \A a \in added \cap Accounts : pruned[a] = beneficiary_wills[a]
        BY DEF Unindexed
    <2>2. CanIndex(pruned, added \cap Accounts, id)
        BY <1>2, <2>1 DEF CanIndex, IndexHasRoom
    <2>3. Fits(pruned)
        BY RoomMade DEF ListsFit
    <2>4. beneficiary_wills' = Indexed(pruned, added, id)
        BY <1>2 DEF Reindexed
    <2> HIDE DEF pruned, added
    <2> QED  BY <2>2, <2>3, <2>4, RoomKept
<1>3. Fits(beneficiary_wills')
    BY <1>1, <1>2, RoomMade DEF ListsFit
<1> QED  BY <1>0, <1>3 DEF ListsFit, Fits

\* A split and a merge take one will off the lists before they add the other.
LEMMA ReshapedFit ==
    ASSUME ListsFit, NEW owner, NEW a, NEW b, NEW split,
           split_will(a, owner, split) \/ merge_wills(owner, a, b)
    PROVE  ListsFit'
<1>1. PICK gone, heirs, x, id :
        /\ beneficiary_wills' = Indexed(Unindexed(beneficiary_wills, gone, x), heirs, id)
        /\ CanIndex(Unindexed(beneficiary_wills, gone, x), heirs, id)
    BY DEF split_will, merge_wills
<1>2. \/ \E id1 : /\ owner_wills' = Indexed(owner_wills, {owner}, id1)
                  /\ CanIndex(owner_wills, {owner}, id1)
      \/ owner_wills' = Unindexed(owner_wills, {owner}, b)
    BY DEF split_will, merge_wills
<1>3. Fits(owner_wills')
    <2>1. ASSUME NEW id1, owner_wills' = Indexed(owner_wills, {owner}, id1),
                 CanIndex(owner_wills, {owner}, id1)
          PROVE  Fits(owner_wills')
        <3>1. CanIndex(owner_wills, {owner} \cap Accounts, id1)
            BY <2>1 DEF CanIndex
        <3> QED  BY <2>1, <3>1, RoomKept DEF ListsFit
    <2> QED  BY <1>2, <2>1, RoomMade DEF ListsFit
<1>4. Fits(beneficiary_wills')
    <2>1. CanIndex(Unindexed(beneficiary_wills, gone, x), heirs \cap Accounts, id)
        BY <1>1 DEF CanIndex
    <2>2. Fits(Unindexed(beneficiary_wills, gone, x))
        BY RoomMade DEF ListsFit
    <2> QED  BY <1>1, <2>1, <2>2, RoomKept
<1> QED  BY <1>3, <1>4 DEF ListsFit, Fits

\* A batch asks for all the places it needs at once.
LEMMA BatchFits ==
    ASSUME ListsFit, NEW owner \in Accounts, NEW forms, batch_create_wills(owner, forms)
    PROVE  ListsFit'
<1>1. PICK ids, naming :
        /\ ids \subseteq WillIds
        /\ naming \in [Accounts -> SUBSET ids]
        /\ owner_wills' = [owner_wills EXCEPT ![owner] = @ \cup ids]
        /\ Cardinality(owner_wills[owner] \cup ids) <= MAX_WILLS_PER_INDEX
        /\ beneficiary_wills' = [a \in Accounts |-> beneficiary_wills[a] \cup naming[a]]
        /\ \A a \in Accounts : naming[a] # {} =>
                Cardinality(beneficiary_wills[a] \cup naming[a]) <= MAX_WILLS_PER_INDEX
    <2> DEFINE ids == (next_will_id + 1)..(next_will_id + Len(forms))
               F(id) == [forms[id - next_will_id] EXCEPT !.bounty = 0, !.delay = 0]
               w == [id \in ids |-> NewWill(owner, F(id))]
               naming == [a \in Accounts |->
                            {id \in ids : a \in Addresses(w[id].beneficiaries)}]
    <2>1. naming \in [Accounts -> SUBSET ids]
        OBVIOUS
    <2>2. /\ ids \subseteq WillIds
          /\ owner_wills' = [owner_wills EXCEPT ![owner] = @ \cup ids]
          /\ Cardinality(owner_wills[owner] \cup ids) <= MAX_WILLS_PER_INDEX
        BY DEF batch_create_wills
    <2>3. /\ beneficiary_wills' = [a \in Accounts |-> beneficiary_wills[a] \cup naming[a]]
          /\ \A a \in Accounts : naming[a] # {} =>
                Cardinality(beneficiary_wills[a] \cup naming[a]) <= MAX_WILLS_PER_INDEX
        BY DEF batch_create_wills
    <2> HIDE DEF ids, naming
    <2> QED  BY <2>1, <2>2, <2>3
<1>2. IsFiniteSet(ids) /\ \A a \in Accounts : IsFiniteSet(naming[a])
    <2>1. IsFiniteSet(WillIds)
        BY FS_Interval, BoundsAssumption DEF WillIds
    <2> QED  BY <1>1, <2>1, FS_Subset
<1>3. ASSUME NEW a \in Accounts
      PROVE  /\ IsFiniteSet(owner_wills'[a])
             /\ Cardinality(owner_wills'[a]) <= MAX_WILLS_PER_INDEX
    <2>1. IsFiniteSet(owner_wills[a]) /\ Cardinality(owner_wills[a]) <= MAX_WILLS_PER_INDEX
        BY DEF ListsFit, Fits
    <2>2. IsFiniteSet(owner_wills[a] \cup ids)
        BY <1>2, <2>1, FS_Union
    <2>3. owner_wills'[a] = owner_wills[a] \/ (a = owner /\ owner_wills'[a] = owner_wills[a] \cup ids)
        BY <1>1
    <2> QED  BY <1>1, <2>1, <2>2, <2>3
<1>4. ASSUME NEW a \in Accounts
      PROVE  /\ IsFiniteSet(beneficiary_wills'[a])
             /\ Cardinality(beneficiary_wills'[a]) <= MAX_WILLS_PER_INDEX
    <2>1. /\ IsFiniteSet(beneficiary_wills[a])
          /\ Cardinality(beneficiary_wills[a]) <= MAX_WILLS_PER_INDEX
        BY DEF ListsFit, Fits
    <2>2. IsFiniteSet(beneficiary_wills[a] \cup naming[a])
        BY <1>2, <2>1, FS_Union
    <2>3. beneficiary_wills'[a] = beneficiary_wills[a] \cup naming[a]
        BY <1>1
    <2>4. naming[a] = {} => beneficiary_wills'[a] = beneficiary_wills[a]
        BY <2>3
    <2> QED  BY <1>1, <2>1, <2>2, <2>3, <2>4
<1> QED  BY <1>3, <1>4 DEF ListsFit, Fits

LEMMA StepFits ==
    ASSUME ListsFit, [PortfolioNext]_vars
    PROVE  ListsFit'
<1>0. UNCHANGED <<owner_wills, beneficiary_wills>> => ListsFit'
    BY DEF ListsFit, Fits
<1>1. CASE OwnerNext
    <2>1. ASSUME NEW id, NEW owner,
                 \/ confirm_will(id, owner)
                 \/ \E delegate \in Delegates : set_delegate(id, owner, delegate)
                 \/ \E p \in PeriodUpdates : update_periods(id, owner, p[1], p[2])
                 \/ emergency_checkin(id, owner)
                 \/ close_will(id, owner)
          PROVE  ListsFit'
        BY <1>0, <2>1 DEF confirm_will, set_delegate, update_periods, emergency_checkin,
                          close_will, OnlyTheWill, indexes
    <2> QED  BY <1>1, <2>1, NewFits, EndFits DEF OwnerNext
<1>2. CASE \E ids \in SUBSET DOMAIN wills : SignOfLife(ids)
    BY <1>0, <1>2 DEF SignOfLife, check_in, batch_check_in, CheckedIn, OnlyTheWill, indexes
<1>3. CASE AnyoneNext
    <2>1. ASSUME NEW id, NEW keeper, NEW refused, release_inheritance(id, keeper, refused)
          PROVE  ListsFit'
        BY <2>1, EndFits DEF release_inheritance
    <2>2. ASSUME NEW id, trigger_will(id)
          PROVE  ListsFit'
        BY <1>0, <2>2 DEF trigger_will
    <2> QED  BY <1>3, <2>1, <2>2 DEF AnyoneNext
<1>4. CASE Tick \/ UNCHANGED vars
    BY <1>0, <1>4 DEF Tick, vars, indexes
<1>5. CASE GuardianNext
    <2>1. ASSUME NEW id, NEW guardian, NEW refused, guardian_trigger(id, guardian, refused)
          PROVE  ListsFit'
        BY <1>0, <2>1, EndFits DEF guardian_trigger, OnlyTheWill, indexes
    <2>2. ASSUME NEW id, NEW guardian,
                 \/ guardian_cancel_trigger(id, guardian)
                 \/ accept_guardian_role(id, guardian)
                 \/ reject_guardian_role(id, guardian)
          PROVE  ListsFit'
        BY <1>0, <2>2 DEF guardian_cancel_trigger, accept_guardian_role, reject_guardian_role,
                          OnlyTheWill, indexes
    <2> QED  BY <1>5, <2>1, <2>2 DEF GuardianNext
<1>6. CASE AppointNext
    BY <1>0, <1>6 DEF AppointNext, update_guardians, update_guardians_weighted, ReplaceGuardians,
                      OnlyTheWill, indexes
<1>7. CASE EstateOwnerNext
    <2>1. ASSUME NEW id, NEW owner,
                 \/ \E p \in TopUps : top_up(id, owner, p[1], p[2])
                 \/ \E h \in HashedShares : add_hashed_beneficiary(id, owner, h)
          PROVE  ListsFit'
        BY <1>0, <2>1 DEF top_up, add_hashed_beneficiary, OnlyTheWill, indexes
    <2> QED  BY <1>7, <2>1, HeirsFit DEF EstateOwnerNext
<1>8. CASE EstateHeirNext
    <2>1. ASSUME NEW id, NEW claimant, NEW salt, reveal_and_claim(id, claimant, salt)
          PROVE  ListsFit'
        BY <1>0, <2>1 DEF reveal_and_claim, indexes
    <2>2. ASSUME NEW id, NEW t, NEW recipient, retry_failed_payout(id, t, recipient)
          PROVE  ListsFit'
        BY <1>0, <2>2 DEF retry_failed_payout, indexes
    <2> QED  BY <1>8, <2>1, <2>2, HeirsFit, EndFits DEF EstateHeirNext
<1>9. CASE PortfolioOnlyNext
    <2>1. repair_protocol_stats => ListsFit'
        BY <1>0 DEF repair_protocol_stats, indexes
    <2> QED  BY <1>9, <2>1, NewFits, ReshapedFit, BatchFits
             DEF PortfolioOnlyNext, MultiplyNext, Merging
<1> QED  BY <1>1, <1>2, <1>3, <1>4, <1>5, <1>6, <1>7, <1>8, <1>9
         DEF PortfolioNext, EstateNext, QuorumNext, LifecycleNext

\* No list outgrows the limit in the whole contract, whatever the limit: creation
\* and batches ask for room beforehand, clones, splits, merges and changes of heirs
\* while they write, and no path forgets to.
THEOREM ListsStayShort == PortfolioSpec => []IndexesWithinCap
<1>1. LifecycleInit => ListsFit
    <2>1. IsFiniteSet({}) /\ Cardinality({}) = 0 /\ 0 <= MAX_WILLS_PER_INDEX
        BY FS_EmptySet, BoundsAssumption
    <2> QED  BY <2>1 DEF LifecycleInit, StorageInit, ListsFit, Fits
<1>2. ListsFit => IndexesWithinCap
    BY DEF ListsFit, Fits, IndexesWithinCap
<1> QED  BY <1>1, <1>2, StepFits, PTL DEF PortfolioSpec
=============================================================================
