----------------------------- MODULE TypeProofs -----------------------------
(***************************************************************************)
(* Proofs about the types of the whole contract (PortfolioSpec): every     *)
(* entry point leaves wills behind whose fields hold what they are         *)
(* declared to hold (StepTyped), and counters, statistics, indexes and a   *)
(* trail that do (StepFiled).  The invariant carries the bounds that keep  *)
(* balances and shares above zero: a keeper's bounty within its limit,     *)
(* hashed shares within 100 %.                                             *)
(***************************************************************************)
EXTENDS TallyProofs, EstateProofs

\* A will whose fields hold what they are declared to hold, and which cannot
\* promise more than it has: a bounty within its limit, hashed shares within 100 %.
TypedWill(w) ==
    /\ IsWill(w)
    /\ IsFiniteSet(DOMAIN w.balances)
    /\ w.keeper_bounty_bps <= MAX_KEEPER_BOUNTY_BPS
    /\ HashedTotal(w.hashed_beneficiaries) <= 10000

\* The same, field by field.
Whole(w) == DOMAIN w = WillFields /\ w = [f \in WillFields |-> w[f]]

TypedFields(w) ==
    /\ w.owner \in Accounts
    /\ w.token \in Tokens
    /\ w.balance \in Nat
    /\ w.beneficiaries \in Seq(Beneficiary)
    /\ w.hashed_beneficiaries \in Seq(HashedBeneficiary)
    /\ w.checkin_period_days \in Nat
    /\ w.grace_period_days \in Nat
    /\ w.last_checkin \in Nat
    /\ w.trigger_time \in OptionalTime
    /\ w.confirmation_deadline \in OptionalTime
    /\ w.status \in WillStatus
    /\ w.guardian_vote_weight \in Nat
    /\ w.guardian_votes \in Nat
    /\ w.guardian_cancel_vote_weight \in Nat
    /\ w.guardian_cancel_votes \in Nat
    /\ w.guardian_threshold \in Nat
    /\ w.guardian_list_updated_at \in Nat
    /\ w.keeper_bounty_bps \in Nat
    /\ w.delegate \in Accounts \cup {NoAccount}
    /\ IsBalances(w.balances)
    /\ IsGuardians(w.guardians)
    /\ IsFiniteSet(DOMAIN w.balances)
    /\ w.keeper_bounty_bps <= MAX_KEEPER_BOUNTY_BPS
    /\ HashedTotal(w.hashed_beneficiaries) <= 10000

LEMMA Opened ==
    ASSUME NEW w, TypedWill(w)
    PROVE  Whole(w) /\ TypedFields(w)
<1>1. Whole(w)
    BY DEF TypedWill, IsWill, WillWith, WillFields, Whole
<1>2. TypedFields(w)
    BY DEF TypedWill, IsWill, WillWith, WillFields, TypedFields
<1> QED  BY <1>1, <1>2

LEMMA Closed ==
    ASSUME NEW w, Whole(w), TypedFields(w)
    PROVE  TypedWill(w)
<1>1. IsWill(w)
    BY DEF Whole, IsWill, WillWith, WillFields, TypedFields
<1> QED  BY <1>1 DEF TypedWill, TypedFields

AllTyped == \A id \in DOMAIN wills : TypedWill(wills[id])

LEMMA SavedTyped ==
    ASSUME AllTyped, NEW id, NEW w, wills' = Put(wills, id, w), TypedWill(w)
    PROVE  AllTyped'
BY DEF AllTyped, Put

\* What the calls on the clock and the settings write.
LEMMA ClockRetyped ==
    ASSUME NEW v, TypedWill(v), NEW t \in Nat, NEW s \in WillStatus,
           NEW d \in Accounts \cup {NoAccount}
    PROVE  /\ TypedWill([v EXCEPT !.status = s, !.last_checkin = t, !.confirmation_deadline = NoTime])
           /\ TypedWill([v EXCEPT !.status = s])
           /\ TypedWill([v EXCEPT !.delegate = d])
           /\ TypedWill([v EXCEPT !.last_checkin = t])
           /\ TypedWill([v EXCEPT !.status = s, !.trigger_time = t])
<1> DEFINE w1 == [v EXCEPT !.status = s, !.last_checkin = t, !.confirmation_deadline = NoTime]
           w2 == [v EXCEPT !.status = s]
           w3 == [v EXCEPT !.delegate = d]
           w4 == [v EXCEPT !.last_checkin = t]
           w5 == [v EXCEPT !.status = s, !.trigger_time = t]
<1>1. Whole(v) /\ TypedFields(v)
    BY Opened
<1>2. Whole(w1) /\ Whole(w2) /\ Whole(w3) /\ Whole(w4) /\ Whole(w5)
    BY <1>1 DEF Whole
<1>3. TypedFields(w1)
    BY <1>1 DEF Whole, TypedFields, WillFields, OptionalTime
<1>4. TypedFields(w2)
    BY <1>1 DEF Whole, TypedFields, WillFields
<1>5. TypedFields(w3)
    BY <1>1 DEF Whole, TypedFields, WillFields
<1>6. TypedFields(w4)
    BY <1>1 DEF Whole, TypedFields, WillFields
<1>7. TypedFields(w5)
    BY <1>1 DEF Whole, TypedFields, WillFields, OptionalTime
<1> HIDE DEF w1, w2, w3, w4, w5
<1>8. TypedWill(w1) /\ TypedWill(w2) /\ TypedWill(w3) /\ TypedWill(w4) /\ TypedWill(w5)
    BY <1>2, <1>3, <1>4, <1>5, <1>6, <1>7, Closed
<1> QED  BY <1>8 DEF w1, w2, w3, w4, w5

LEMMA PeriodsRetyped ==
    ASSUME NEW v, TypedWill(v), NEW c \in Nat \cup {NoTime}, NEW g \in Nat \cup {NoTime}
    PROVE  TypedWill(WithPeriods(v, c, g))
<1>1. Whole(v) /\ TypedFields(v)
    BY Opened
<1>2. Whole(WithPeriods(v, c, g))
    BY <1>1 DEF Whole, WithPeriods
<1>3. TypedFields(WithPeriods(v, c, g))
    BY <1>1 DEF Whole, WithPeriods, TypedFields, WillFields
<1> QED  BY <1>2, <1>3, Closed

LEMMA RevivedTyped ==
    ASSUME NEW v, TypedWill(v), now \in Nat
    PROVE  TypedWill(Revived(v))
<1>1. Whole(v) /\ TypedFields(v)
    BY Opened
<1>2. Whole(Revived(v))
    BY <1>1 DEF Whole, Revived
<1>3. TypedFields(Revived(v))
    BY <1>1 DEF Whole, Revived, TypedFields, WillFields, OptionalTime, WillStatus
<1> QED  BY <1>2, <1>3, Closed

LEMMA MirrorTyped ==
    ASSUME NEW v, TypedWill(v)
    PROVE  TypedWill(sync_primary_balance(v))
<1>1. Whole(v) /\ TypedFields(v)
    BY Opened
<1>2. BalanceOf(v.balances, v.token) \in Nat
    BY <1>1 DEF TypedFields, IsBalances, BalanceOf
<1>3. Whole(sync_primary_balance(v))
    BY <1>1 DEF Whole, sync_primary_balance
<1>4. TypedFields(sync_primary_balance(v))
    BY <1>1, <1>2 DEF Whole, sync_primary_balance, TypedFields, WillFields
<1> QED  BY <1>3, <1>4, Closed

LEMMA MoneyRetyped ==
    ASSUME NEW v, TypedWill(v), NEW b, IsBalances(b), IsFiniteSet(DOMAIN b), NEW n \in Nat,
           NEW s \in WillStatus
    PROVE  /\ TypedWill([v EXCEPT !.balances = b])
           /\ TypedWill([v EXCEPT !.balances = b, !.balance = n, !.status = s])
           /\ TypedWill([v EXCEPT !.balance = n, !.balances = b, !.status = s])
<1> DEFINE w1 == [v EXCEPT !.balances = b]
           w2 == [v EXCEPT !.balances = b, !.balance = n, !.status = s]
<1>1. Whole(v) /\ TypedFields(v)
    BY Opened
<1>2. Whole(w1) /\ Whole(w2)
    BY <1>1 DEF Whole
<1>3. TypedFields(w1)
    BY <1>1 DEF Whole, TypedFields, WillFields
<1>4. TypedFields(w2)
    BY <1>1 DEF Whole, TypedFields, WillFields
<1>5. [v EXCEPT !.balance = n, !.balances = b, !.status = s] = w2
    OBVIOUS
<1> HIDE DEF w1, w2
<1>6. TypedWill(w1) /\ TypedWill(w2)
    BY <1>2, <1>3, <1>4, Closed
<1> QED  BY <1>5, <1>6 DEF w1, w2

LEMMA HeirsRetyped ==
    ASSUME NEW v, TypedWill(v), NEW list, list \in Seq(Beneficiary)
    PROVE  TypedWill([v EXCEPT !.beneficiaries = list])
<1> DEFINE w == [v EXCEPT !.beneficiaries = list]
<1>1. Whole(v) /\ TypedFields(v)
    BY Opened
<1>2. Whole(w)
    BY <1>1 DEF Whole
<1>3. TypedFields(w)
    BY <1>1 DEF Whole, TypedFields, WillFields
<1> HIDE DEF w
<1>4. TypedWill(w)
    BY <1>2, <1>3, Closed
<1> QED  BY <1>4 DEF w

LEMMA GuardiansRetyped ==
    ASSUME NEW v, TypedWill(v), NEW g, IsGuardians(g), NEW n \in Nat, now \in Nat
    PROVE  TypedWill(WithGuardians(v, g, n))
<1>1. Whole(v) /\ TypedFields(v)
    BY Opened
<1>2. Whole(WithGuardians(v, g, n))
    BY <1>1 DEF Whole, WithGuardians
<1>3. TypedFields(WithGuardians(v, g, n))
    BY <1>1 DEF Whole, WithGuardians, TypedFields, WillFields
<1> QED  BY <1>2, <1>3, Closed

LEMMA OwnerTyped ==
    ASSUME AllTyped, now \in Nat, NEW id \in DOMAIN wills, NEW owner, NEW caller,
           \/ confirm_will(id, owner)
           \/ \E delegate \in Delegates : set_delegate(id, owner, delegate)
           \/ \E checkin, grace : update_periods(id, owner, checkin, grace)
           \/ emergency_checkin(id, owner)
           \/ close_will(id, owner)
           \/ check_in(id, caller)
           \/ trigger_will(id)
           \/ cancel_will(id, owner)
    PROVE  AllTyped'
<1>1. TypedWill(wills[id])
    BY DEF AllTyped
<1>2. CASE \/ confirm_will(id, owner)
           \/ \E delegate \in Delegates : set_delegate(id, owner, delegate)
           \/ close_will(id, owner)
           \/ check_in(id, caller)
           \/ trigger_will(id)
           \/ cancel_will(id, owner)
    <2> DEFINE w1 == [wills[id] EXCEPT !.status = "Active", !.last_checkin = now,
                                       !.confirmation_deadline = NoTime]
               w2(delegate) == [wills[id] EXCEPT !.delegate = delegate]
               w3 == [wills[id] EXCEPT !.status = "Settled"]
               w4 == [wills[id] EXCEPT !.last_checkin = now]
               w5 == [wills[id] EXCEPT !.status = "Triggered",
                                       !.trigger_time = CheckinDeadline(wills[id])]
               w6 == [wills[id] EXCEPT !.balance = 0, !.balances = << >>, !.status = "Cancelled"]
    <2>1. \/ wills' = Put(wills, id, w1)
          \/ \E delegate \in Delegates : wills' = Put(wills, id, w2(delegate))
          \/ wills' = Put(wills, id, w3)
          \/ wills' = Put(wills, id, w4)
          \/ wills' = Put(wills, id, w5)
          \/ wills' = Put(wills, id, w6)
        BY <1>2 DEF confirm_will, set_delegate, close_will, check_in, trigger_will, cancel_will,
                    save_will, SaveWithVotes
    <2>2. {"Active", "Settled", "Triggered", "Cancelled"} \subseteq WillStatus
        BY DEF WillStatus
    <2>3. CheckinDeadline(wills[id]) \in Nat
        <3>1. wills[id].last_checkin \in Nat /\ wills[id].checkin_period_days \in Nat
            BY <1>1, Opened DEF TypedFields
        <3> QED  BY <3>1, BoundsAssumption DEF CheckinDeadline
    <2>4. IsBalances(<< >>) /\ IsFiniteSet(DOMAIN << >>)
        BY FS_EmptySet DEF IsBalances
    <2>5. TypedWill(w1) /\ TypedWill(w3) /\ TypedWill(w4) /\ TypedWill(w5)
        BY <1>1, <2>2, <2>3, ClockRetyped
    <2>6. ASSUME NEW delegate \in Delegates
          PROVE  TypedWill(w2(delegate))
        <3>1. delegate \in Accounts \cup {NoAccount} /\ "Active" \in WillStatus
            BY <2>2, InputsAssumption
        <3> QED  BY <1>1, <3>1, ClockRetyped
    <2>7. TypedWill(w6)
        BY <1>1, <2>2, <2>4, MoneyRetyped
    <2> HIDE DEF w1, w2, w3, w4, w5, w6
    <2>8. \E w : wills' = Put(wills, id, w) /\ TypedWill(w)
        BY <2>1, <2>5, <2>6, <2>7
    <2> QED  BY <2>8, SavedTyped
<1>3. CASE \E checkin, grace : update_periods(id, owner, checkin, grace)
    <2>1. PICK checkin, grace : /\ wills' = Put(wills, id, WithPeriods(wills[id], checkin, grace))
                                /\ {checkin, grace} \subseteq (1..MAX_PERIOD_DAYS) \cup {NoTime}
        BY <1>3 DEF update_periods, save_will, SaveWithVotes
    <2>2. TypedWill(WithPeriods(wills[id], checkin, grace))
        BY <1>1, <2>1, PeriodsRetyped
    <2> QED  BY <2>1, <2>2, SavedTyped
<1>4. CASE emergency_checkin(id, owner)
    <2>1. wills' = Put(wills, id, sync_primary_balance(Revived(wills[id])))
        BY <1>4 DEF emergency_checkin, SaveWithVotes
    <2> QED  BY <1>1, <2>1, RevivedTyped, MirrorTyped, SavedTyped
<1> QED  BY <1>2, <1>3, <1>4

LEMMA BatchTyped ==
    ASSUME AllTyped, now \in Nat, NEW owner, NEW ids, batch_check_in(owner, ids)
    PROVE  AllTyped'
<1>1. ASSUME NEW id \in DOMAIN wills
      PROVE  TypedWill([wills[id] EXCEPT !.last_checkin = now])
    <2>1. TypedWill(wills[id]) /\ "Active" \in WillStatus /\ NoAccount \in Accounts \cup {NoAccount}
        BY DEF AllTyped, WillStatus
    <2> QED  BY <2>1, ClockRetyped
<1>2. ASSUME NEW id \in DOMAIN wills
      PROVE  wills'[id] = wills[id] \/ wills'[id] = [wills[id] EXCEPT !.last_checkin = now]
    BY DEF batch_check_in, CheckedIn
<1>3. DOMAIN wills' = DOMAIN wills
    BY DEF batch_check_in, CheckedIn
<1> QED  BY <1>1, <1>2, <1>3 DEF AllTyped

----------------------------------------------------------------------------
(* Guardians *)

LEMMA WeightsTyped ==
    ASSUME NEW g, IsGuardians(g)
    PROVE  /\ IsFiniteSet(DOMAIN g) /\ WellWeighed(g)
           /\ \A s \in SUBSET DOMAIN g : WeightOf(g, s) \in Nat /\ Cardinality(s) \in Nat
<1>1. IsFiniteSet(DOMAIN g)
    BY AccountsAssumption, FS_Subset DEF IsGuardians
<1>2. WellWeighed(g)
    BY DEF IsGuardians, WellWeighed
<1>3. \A s \in SUBSET DOMAIN g : IsFiniteSet(s)
    BY <1>1, FS_Subset
<1> QED  BY <1>1, <1>2, <1>3, WeightIsNatural, FS_CardinalityType

LEMMA TalliedTyped ==
    ASSUME NEW v, TypedWill(v), NEW id, NEW records
    PROVE  TypedWill(Tallied(id, v, records)) /\ TypedWill(CancelTallied(id, v, records))
<1> DEFINE w1 == Tallied(id, v, records)
           w2 == CancelTallied(id, v, records)
           s == Counted(id, v, records)
<1>1. Whole(v) /\ TypedFields(v)
    BY Opened
<1>2. s \subseteq DOMAIN v.guardians
    BY DEF Counted
<1>3. WeightOf(v.guardians, s) \in Nat /\ Cardinality(s) \in Nat
    BY <1>1, <1>2, WeightsTyped DEF TypedFields
<1> HIDE DEF s
<1>4. Whole(w1) /\ Whole(w2)
    BY <1>1 DEF Whole, Tallied, CancelTallied
<1>5. TypedFields(w1)
    BY <1>1, <1>3 DEF Whole, Tallied, TypedFields, WillFields, s
<1>6. TypedFields(w2)
    BY <1>1, <1>3 DEF Whole, CancelTallied, TypedFields, WillFields, s
<1> QED  BY <1>4, <1>5, <1>6, Closed

LEMMA ConsentTyped ==
    ASSUME NEW v, TypedWill(v), NEW guardian \in DOMAIN v.guardians, NEW id
    PROVE  /\ TypedWill([v EXCEPT !.guardians[guardian].consent = "Accepted"])
           /\ TypedWill(Withdrawn(id, v, guardian))
<1> DEFINE asked(c) == [v.guardians EXCEPT ![guardian].consent = c]
           w1 == [v EXCEPT !.guardians = asked("Accepted")]
           w2 == Withdrawn(id, v, guardian)
<1>1. Whole(v) /\ TypedFields(v)
    BY Opened
<1>2. ASSUME NEW c \in GuardianConsent
      PROVE  IsGuardians(asked(c))
    <2> DEFINE G == v.guardians
               T == [weight : Nat, consent : GuardianConsent]
    <2>1. G \in [DOMAIN G -> T] /\ DOMAIN G \subseteq Accounts
        BY <1>1 DEF TypedFields, IsGuardians
    <2>2. G[guardian] \in T
        BY <2>1
    <2>3. [G[guardian] EXCEPT !.consent = c] \in T
        BY <2>2
    <2>4. asked(c) = [G EXCEPT ![guardian] = [G[guardian] EXCEPT !.consent = c]]
        OBVIOUS
    <2> HIDE DEF G, T
    <2>5. [G EXCEPT ![guardian] = [G[guardian] EXCEPT !.consent = c]] \in [DOMAIN G -> T]
        BY <2>1, <2>3
    <2>6. DOMAIN asked(c) = DOMAIN G
        BY <2>4
    <2> QED  BY <2>1, <2>4, <2>5, <2>6 DEF IsGuardians, T
<1>3. {"Accepted", "Rejected"} \subseteq GuardianConsent
    BY DEF GuardianConsent
<1>4. IsGuardians(asked("Accepted")) /\ IsGuardians(asked("Rejected"))
    BY <1>2, <1>3
<1>5. Whole(w1) /\ Whole(w2)
    BY <1>1 DEF Whole, Withdrawn
<1>6. TypedFields(w1)
    <2> HIDE DEF asked
    <2> QED  BY <1>1, <1>4 DEF Whole, TypedFields, WillFields
<1>7. \A m, n \in Nat : SaturatingSub(m, n) \in Nat
    BY DEF SaturatingSub
<1>8. v.guardians[guardian].weight \in Nat
    BY <1>1 DEF TypedFields, IsGuardians
<1>9. TypedFields(w2)
    <2>1. w2.guardians = asked("Rejected")
        BY <1>1 DEF Withdrawn, Whole, WillFields
    <2>2. /\ w2.guardian_vote_weight \in Nat /\ w2.guardian_votes \in Nat
          /\ w2.guardian_cancel_vote_weight \in Nat /\ w2.guardian_cancel_votes \in Nat
        <3>1. /\ w2.guardian_vote_weight \in {v.guardian_vote_weight,
                        SaturatingSub(v.guardian_vote_weight, v.guardians[guardian].weight)}
              /\ w2.guardian_votes \in {v.guardian_votes, SaturatingSub(v.guardian_votes, 1)}
              /\ w2.guardian_cancel_vote_weight \in {v.guardian_cancel_vote_weight,
                        SaturatingSub(v.guardian_cancel_vote_weight, v.guardians[guardian].weight)}
              /\ w2.guardian_cancel_votes \in {v.guardian_cancel_votes,
                        SaturatingSub(v.guardian_cancel_votes, 1)}
            BY <1>1 DEF Withdrawn, Whole, WillFields
        <3>2. /\ v.guardian_vote_weight \in Nat /\ v.guardian_votes \in Nat
              /\ v.guardian_cancel_vote_weight \in Nat /\ v.guardian_cancel_votes \in Nat
            BY <1>1 DEF TypedFields
        <3> HIDE DEF w2
        <3> QED  BY <1>7, <1>8, <3>1, <3>2
    <2>3. /\ w2.owner = v.owner /\ w2.token = v.token /\ w2.balance = v.balance
          /\ w2.balances = v.balances /\ w2.beneficiaries = v.beneficiaries
          /\ w2.hashed_beneficiaries = v.hashed_beneficiaries
          /\ w2.checkin_period_days = v.checkin_period_days
          /\ w2.grace_period_days = v.grace_period_days
          /\ w2.last_checkin = v.last_checkin /\ w2.trigger_time = v.trigger_time
          /\ w2.confirmation_deadline = v.confirmation_deadline
          /\ w2.status = v.status /\ w2.guardian_threshold = v.guardian_threshold
          /\ w2.guardian_list_updated_at = v.guardian_list_updated_at
          /\ w2.keeper_bounty_bps = v.keeper_bounty_bps /\ w2.delegate = v.delegate
        BY <1>1 DEF Withdrawn, Whole, WillFields
    <2> HIDE DEF w2, asked
    <2> QED  BY <1>1, <1>4, <2>1, <2>2, <2>3 DEF TypedFields
<1>10. TypedWill(w1) /\ TypedWill(w2)
    <2> HIDE DEF w1, w2
    <2> QED  BY <1>5, <1>6, <1>9, Closed
<1>11. [v EXCEPT !.guardians[guardian].consent = "Accepted"] = w1
    OBVIOUS
<1> QED  BY <1>10, <1>11

\* A guardian's call writes a typed will, or releases one.
LEMMA GuardianTyped ==
    ASSUME AllTyped, now \in Nat, NEW id \in DOMAIN wills, NEW guardian, NEW refused,
           \/ guardian_trigger(id, guardian, refused)
           \/ guardian_cancel_trigger(id, guardian)
           \/ accept_guardian_role(id, guardian)
           \/ reject_guardian_role(id, guardian)
    PROVE  \/ AllTyped'
           \/ \E records : distribute(id, Tallied(id, wills[id], records), NoAccount, refused,
                                      protocol_stats, records)
<1>1. TypedWill(wills[id])
    BY DEF AllTyped
<1> DEFINE records == [guardian_vote EXCEPT ![id][guardian] = now]
           w1 == Tallied(id, wills[id], records)
           w2 == CancelTallied(id, wills[id], [guardian_cancel_vote EXCEPT ![id][guardian] = now])
           w3 == Revived(w2)
           w4 == [wills[id] EXCEPT !.guardians[guardian].consent = "Accepted"]
           w5 == Withdrawn(id, wills[id], guardian)
<1>2. TypedWill(w1) /\ TypedWill(w2)
    BY <1>1, TalliedTyped
<1>3. TypedWill(w3)
    BY <1>2, RevivedTyped
<1>4. guardian \in DOMAIN wills[id].guardians => TypedWill(w4) /\ TypedWill(w5)
    BY <1>1, ConsentTyped
<1>5. \/ wills' = Put(wills, id, w1)
      \/ distribute(id, w1, NoAccount, refused, protocol_stats, records)
      \/ wills' = Put(wills, id, w2)
      \/ wills' = Put(wills, id, w3)
      \/ (wills' = Put(wills, id, w4) /\ guardian \in DOMAIN wills[id].guardians)
      \/ (wills' = Put(wills, id, w5) /\ guardian \in DOMAIN wills[id].guardians)
    BY DEF guardian_trigger, guardian_cancel_trigger, accept_guardian_role, reject_guardian_role,
           save_will, SaveWithVotes
<1>6. CASE distribute(id, w1, NoAccount, refused, protocol_stats, records)
    BY <1>6
<1>7. CASE \E w : wills' = Put(wills, id, w) /\ TypedWill(w)
    BY <1>7, SavedTyped
<1> HIDE DEF w1, w2, w3, w4, w5
<1> QED  BY <1>2, <1>3, <1>4, <1>5, <1>6, <1>7

LEMMA NewGuardiansTyped ==
    /\ \A list \in Seq(Accounts) : IsGuardians(UnweightedGuardians(list))
    /\ \A list \in Seq(Accounts \X Nat) : IsGuardians(GuardianWeights(list))
<1>1. ASSUME NEW list \in Seq(Accounts)
      PROVE  IsGuardians(UnweightedGuardians(list))
    <2>1. ToSet(list) \subseteq Accounts
        BY DEF ToSet
    <2> QED  BY <2>1 DEF IsGuardians, UnweightedGuardians, GuardianConsent
<1>2. ASSUME NEW list \in Seq(Accounts \X Nat)
      PROVE  IsGuardians(GuardianWeights(list))
    <2> DEFINE g == GuardianWeights(list)
               heavy(a) == (CHOOSE pair \in ToSet(list) : pair[1] = a)[2]
    <2>1. g = [a \in ToSet(GuardianNames(list)) |-> [weight |-> heavy(a), consent |-> "Pending"]]
        BY DEF GuardianWeights
    <2>2. ToSet(GuardianNames(list)) \subseteq Accounts
        <3>1. \A i \in DOMAIN list : list[i] \in Accounts \X Nat
            OBVIOUS
        <3> QED  BY <3>1 DEF ToSet, GuardianNames
    <2>3. \A a \in DOMAIN g : g[a].weight \in Nat
        BY NewWeightsWeighed DEF WellWeighed
    <2> HIDE DEF heavy
    <2>4. \A a \in DOMAIN g : g[a] \in [weight : Nat, consent : GuardianConsent]
        BY <2>1, <2>3 DEF GuardianConsent
    <2>5. g = [a \in DOMAIN g |-> g[a]] /\ DOMAIN g \subseteq Accounts
        BY <2>1, <2>2
    <2> HIDE DEF g
    <2>6. IsGuardians(g)
        BY <2>4, <2>5 DEF IsGuardians
    <2> QED  BY <2>6 DEF g
<1> QED  BY <1>1, <1>2

LEMMA AppointTyped ==
    ASSUME AllTyped, now \in Nat, AppointNext
    PROVE  AllTyped'
<1>1. PICK id \in DOMAIN wills, owner \in Accounts :
        \/ \E list \in GuardianLists : update_guardians(id, owner, list)
        \/ \E w \in WeightedLists : update_guardians_weighted(id, owner, w.guardians, w.threshold)
    BY DEF AppointNext
<1>2. TypedWill(wills[id]) /\ wills[id].guardian_threshold \in Nat
    BY Opened DEF AllTyped, TypedFields
<1>3. ASSUME NEW g, IsGuardians(g), NEW n \in Nat, ReplaceGuardians(id, g, n)
      PROVE  AllTyped'
    <2>1. wills' = Put(wills, id, WithGuardians(wills[id], g, n))
        BY <1>3 DEF ReplaceGuardians, SaveWithVotes
    <2>2. TypedWill(WithGuardians(wills[id], g, n))
        BY <1>2, <1>3, GuardiansRetyped
    <2> QED  BY <2>1, <2>2, SavedTyped
<1>4. ASSUME NEW list \in GuardianLists, update_guardians(id, owner, list)
      PROVE  AllTyped'
    <2>1. ReplaceGuardians(id, UnweightedGuardians(list), wills[id].guardian_threshold)
        BY <1>4 DEF update_guardians
    <2>2. list \in Seq(Accounts)
        BY GuardianInputsAssumption
    <2> QED  BY <1>2, <1>3, <2>1, <2>2, NewGuardiansTyped
<1>5. ASSUME NEW w \in WeightedLists, update_guardians_weighted(id, owner, w.guardians, w.threshold)
      PROVE  AllTyped'
    <2>1. w.guardians \in Seq(Accounts \X Nat) /\ w.threshold \in OptionalTime
        BY GuardianInputsAssumption
    <2>2. \/ ReplaceGuardians(id, GuardianWeights(w.guardians), wills[id].guardian_threshold)
          \/ /\ w.threshold # NoTime
             /\ ReplaceGuardians(id, GuardianWeights(w.guardians), w.threshold)
        BY <1>5 DEF update_guardians_weighted
    <2>3. w.threshold # NoTime => w.threshold \in Nat
        BY <2>1 DEF OptionalTime
    <2> QED  BY <1>2, <1>3, <2>1, <2>2, <2>3, NewGuardiansTyped
<1> QED  BY <1>1, <1>4, <1>5

----------------------------------------------------------------------------
(* Shares *)

LEMMA ProductGrows ==
    ASSUME NEW b \in Nat, NEW p \in Nat, NEW q \in Nat, p <= q
    PROVE  b * p <= b * q /\ b * p \in Nat /\ b * q \in Nat
<1>1. b * (q - p) \in Nat
    OBVIOUS
<1>2. b * q = b * p + b * (q - p)
    OBVIOUS
<1>3. b * p \in Nat /\ b * q \in Nat
    OBVIOUS
<1> QED  BY <1>1, <1>2, <1>3

LEMMA QuotientGrows ==
    ASSUME NEW q \in Nat \ {0}, NEW b \in Nat, NEW m \in Nat, m <= b * q
    PROVE  m \div q \in 0..b
<1> DEFINE d == m \div q
<1>1. d \in Nat /\ d * q <= m
    OBVIOUS
<1>2. ASSUME d > b
      PROVE  FALSE
    <2>1. b + 1 <= d /\ b + 1 \in Nat
        BY <1>1, <1>2
    <2> HIDE DEF d
    <2>2. q * (b + 1) <= q * d
        BY <1>1, <2>1, ProductGrows
    <2>3. q * (b + 1) = b * q + q /\ q * d = d * q /\ b * q \in Nat /\ d * q \in Nat
        BY <1>1
    <2> QED  BY <1>1, <2>2, <2>3
<1> HIDE DEF d
<1>3. d \in 0..b
    BY <1>1, <1>2
<1> QED  BY <1>3 DEF d

\* A part of b is between nothing and b.
LEMMA PartShare ==
    ASSUME NEW b \in Nat, NEW p \in Nat, NEW q \in Nat \ {0}, p <= q
    PROVE  (b * p) \div q \in 0..b
BY ProductGrows, QuotientGrows

LEMMA ShareWithin ==
    ASSUME NEW total \in Nat, NEW bps \in Nat, bps <= 10000
    PROVE  proportional_share(total, bps) \in 0..total
<1> DEFINE q == total \div 10000
           r == total % 10000
           part == (r * bps) \div 10000
<1>1. q \in Nat /\ r \in Nat /\ total = 10000 * q + r
    OBVIOUS
<1>2. bps \in Nat /\ bps <= 10000 /\ 10000 \in Nat \ {0}
    OBVIOUS
<1> HIDE DEF q, r
<1>3. (r * bps) \div 10000 \in 0..r
    <2> DEFINE all == 10000
    <2>1. all \in Nat \ {0} /\ bps \in Nat /\ bps <= all
        BY <1>2
    <2> HIDE DEF all
    <2>2. (r * bps) \div all \in 0..r
        BY ONLY <1>1, <2>1, PartShare
    <2> QED  BY <2>2 DEF all
<1>4. q * bps <= q * 10000 /\ q * bps \in Nat
    BY <1>1, <1>2, ProductGrows
<1> DEFINE product == q * bps
<1> HIDE DEF part, product
<1>5. product <= 10000 * q /\ product \in Nat
    BY <1>1, <1>4 DEF product
<1>6. product + part \in 0..total
    <2>1. part \in 0..r
        BY <1>3 DEF part
    <2> QED  BY <1>1, <1>5, <2>1
<1> QED  BY <1>6 DEF product, part, q, r, proportional_share

\* What is unclaimed of the hashed shares is a part of them.
LEMMA HashedWithin ==
    ASSUME NEW hashed \in Seq(HashedBeneficiary)
    PROVE  /\ HashedTotal(hashed) \in Nat /\ unclaimed_hashed_bps(hashed) \in Nat
           /\ unclaimed_hashed_bps(hashed) <= HashedTotal(hashed)
<1> DEFINE D == DOMAIN hashed
           f == HashedBps(hashed)
<1>1. IsFiniteSet(D) /\ Unclaimed(hashed) \subseteq D
    BY ListFinite DEF Unclaimed
<1>2. ASSUME NEW i \in D
      PROVE  f[i] \in Nat
    <2>1. hashed[i] \in HashedBeneficiary
        OBVIOUS
    <2> QED  BY <2>1 DEF HashedBps, HashedBeneficiary
<1>3. DOMAIN f = D
    BY DEF HashedBps
<1> HIDE DEF D, f
<1>4. /\ \A i \in D : f[i] \in Nat
      /\ \A i \in Unclaimed(hashed) : f[i] \in Nat /\ f[i] <= f[i]
    BY <1>1, <1>2
<1>5. /\ SumFunctionOnSet(f, D) \in Nat /\ SumFunctionOnSet(f, Unclaimed(hashed)) \in Nat
      /\ SumFunctionOnSet(f, Unclaimed(hashed)) <= SumFunctionOnSet(f, D)
    BY <1>1, <1>4, SumGrows
<1> QED  BY <1>3, <1>5 DEF HashedTotal, unclaimed_hashed_bps, SumFunction, f

----------------------------------------------------------------------------
(* Funds, heirs and settings *)

LEMMA TopUpTyped ==
    ASSUME AllTyped, NEW id \in DOMAIN wills, NEW owner, NEW t \in Tokens, NEW amount \in Nat,
           top_up(id, owner, t, amount)
    PROVE  AllTyped'
<1> DEFINE v == wills[id]
           b == Put(v.balances, t, BalanceOf(v.balances, t) + amount)
           w == [v EXCEPT !.balances = b]
<1>1. wills' = Put(wills, id, sync_primary_balance(w))
    BY DEF top_up, save_will, SaveWithVotes
<1>2. TypedWill(v) /\ "Active" \in WillStatus
    BY DEF AllTyped, WillStatus
<1>3. IsBalances(v.balances) /\ IsFiniteSet(DOMAIN v.balances)
    BY <1>2, Opened DEF TypedFields
<1>4. IsFiniteSet(DOMAIN v.balances \cup {t})
    BY <1>3, FS_AddElement
<1>5. BalanceOf(v.balances, t) \in Nat
    BY <1>3 DEF IsBalances, BalanceOf
<1>6. BalanceOf(v.balances, t) + amount \in Nat
    BY <1>5
<1>7. IsBalances(b) /\ IsFiniteSet(DOMAIN b)
    BY <1>3, <1>4, <1>6 DEF IsBalances, Put
<1> HIDE DEF v, b
<1>8. TypedWill(w)
    BY <1>2, <1>7, MoneyRetyped
<1> QED  BY <1>1, <1>8, MirrorTyped, SavedTyped

LEMMA LeastOf ==
    ASSUME NEW n \in Nat, NEW S, S \subseteq 1..n, S # {}
    PROVE  Min(S) \in S
<1> DEFINE B == {m \in 0..n : \E i \in S : i <= m}
<1>1. B # {}
    <2>1. PICK i \in S : TRUE
        OBVIOUS
    <2>2. i \in 0..n /\ i <= i
        BY <2>1
    <2> QED  BY <2>1, <2>2
<1>2. PICK m \in B : m = 0 \/ m - 1 \notin B
    BY <1>1, FirstOf
<1>3. PICK i \in S : i <= m
    BY <1>2
<1>4. ASSUME NEW j \in S
      PROVE  i <= j
    <2>1. i \in 1..n /\ j \in 1..n /\ m \in 0..n
        OBVIOUS
    <2>2. m # 0 /\ m - 1 \in 0..n
        BY <1>3, <2>1
    <2>3. ~(j <= m - 1)
        BY <1>2, <2>2
    <2> QED  BY <1>3, <2>1, <2>3
<1> QED  BY <1>4 DEF Min

LEMMA RenouncedTyped ==
    ASSUME NEW list, list \in Seq(Beneficiary), NEW address, address \in Addresses(list)
    PROVE  RenouncedList(list, address) \in Seq(Beneficiary)
<1> DEFINE S == {i \in DOMAIN list : list[i].address = address}
           n == Len(list)
<1>1. S # {}
    BY DEF Addresses
<1>2. S \subseteq 1..n /\ n \in Nat /\ S \subseteq DOMAIN list
    OBVIOUS
<1> HIDE DEF S, n
<1>3. Min(S) \in DOMAIN list
    BY <1>1, <1>2, LeastOf
<1>4. PICK k \in DOMAIN list : Min(S) = k
    BY <1>3
<1>5. Min({i \in DOMAIN list : list[i].address = address}) = k
    BY <1>4 DEF S
<1> QED  BY <1>5, RenouncedAt

LEMMA HeirsTyped ==
    ASSUME AllTyped, now \in Nat, NEW id \in DOMAIN wills, NEW owner, NEW heir,
           \/ \E list \in BeneficiaryLists : update_beneficiaries(id, owner, list)
           \/ \E s \in Settings : update_will_settings(id, owner, s)
           \/ renounce_beneficiary(id, heir)
    PROVE  AllTyped'
<1> DEFINE v == wills[id]
           w0(list) == [v EXCEPT !.beneficiaries = list]
<1>1. TypedWill(v)
    BY DEF AllTyped
<1>2. v.beneficiaries \in Seq(Beneficiary) /\ v.guardian_threshold \in Nat
    BY <1>1, Opened DEF TypedFields
<1>3. ASSUME NEW list, list \in Seq(Beneficiary)
      PROVE  TypedWill(w0(list))
    BY <1>1, <1>3, HeirsRetyped
<1>4. CASE \E list \in BeneficiaryLists : update_beneficiaries(id, owner, list)
    <2>1. PICK list \in BeneficiaryLists : wills' = Put(wills, id, w0(list))
        BY <1>4 DEF update_beneficiaries, save_will, SaveWithVotes
    <2>2. list \in Seq(Beneficiary)
        BY EstateInputsAssumption
    <2> HIDE DEF w0
    <2> QED  BY <1>3, <2>1, <2>2, SavedTyped
<1>5. CASE renounce_beneficiary(id, heir)
    <2>1. /\ wills' = Put(wills, id, w0(RenouncedList(v.beneficiaries, heir)))
          /\ heir \in Addresses(v.beneficiaries)
        BY <1>5 DEF renounce_beneficiary, save_will, SaveWithVotes
    <2>2. RenouncedList(v.beneficiaries, heir) \in Seq(Beneficiary)
        BY <1>2, <2>1, RenouncedTyped
    <2> HIDE DEF w0, v
    <2> QED  BY <1>3, <2>1, <2>2, SavedTyped
<1>6. CASE \E s \in Settings : update_will_settings(id, owner, s)
    <2>1. PICK s \in Settings : update_will_settings(id, owner, s)
        BY <1>6
    <2> DEFINE list == IF s.beneficiaries = None THEN v.beneficiaries ELSE s.beneficiaries
               w1 == WithPeriods(w0(list), s.checkin, s.grace)
               w2 == WithGuardians(w1, UnweightedGuardians(s.guardians), v.guardian_threshold)
    <2>2. /\ \/ wills' = Put(wills, id, w1)
             \/ s.guardians # None /\ wills' = Put(wills, id, w2)
          /\ {s.checkin, s.grace} \subseteq (1..MAX_PERIOD_DAYS) \cup {NoTime}
        BY <2>1 DEF update_will_settings, save_will, SaveWithVotes
    <2>3. s \in SetOfSettings
        BY EstateInputsAssumption
    <2>4. list \in Seq(Beneficiary)
        BY <1>2, <2>3 DEF SetOfSettings
    <2>5. s.guardians # None => s.guardians \in Seq(Accounts)
        BY <2>3 DEF SetOfSettings
    <2>6. TypedWill(w0(list))
        BY <1>3, <2>4
    <2> HIDE DEF w0, list, v
    <2>7. TypedWill(w1)
        <3>1. s.checkin \in Nat \cup {NoTime} /\ s.grace \in Nat \cup {NoTime}
            BY <2>2
        <3> QED  BY <2>6, <3>1, PeriodsRetyped
    <2> HIDE DEF w1
    <2>8. s.guardians # None => TypedWill(w2)
        BY <1>2, <2>5, <2>7, NewGuardiansTyped, GuardiansRetyped
    <2> HIDE DEF w2
    <2> QED  BY <2>2, <2>7, <2>8, SavedTyped
<1> QED  BY <1>4, <1>5, <1>6

----------------------------------------------------------------------------
(* Hashed heirs *)

LEMMA HashedTyped ==
    ASSUME AllTyped, NEW id \in DOMAIN wills, NEW owner, NEW h \in HashedShares,
           add_hashed_beneficiary(id, owner, h)
    PROVE  AllTyped'
<1> DEFINE v == wills[id]
           new == [claimant |-> h.claimant, salt |-> h.salt,
                   percentage |-> h.percentage, claimed |-> FALSE]
           hashed == Append(v.hashed_beneficiaries, new)
           w == [v EXCEPT !.hashed_beneficiaries = hashed]
<1>1. /\ wills' = Put(wills, id, w)
      /\ TotalOf(v.beneficiaries, "Percentage") + HashedTotal(hashed) <= 10000
    BY DEF add_hashed_beneficiary, save_will, SaveWithVotes, assert_valid_percentages
<1>2. TypedWill(v)
    BY DEF AllTyped
<1>3. Whole(v) /\ TypedFields(v)
    BY <1>2, Opened
<1>4. v.beneficiaries \in Seq(Beneficiary) /\ v.hashed_beneficiaries \in Seq(HashedBeneficiary)
    BY <1>3 DEF TypedFields
<1>5. new \in HashedBeneficiary
    BY EstateInputsAssumption DEF HashedBeneficiary
<1>6. hashed \in Seq(HashedBeneficiary)
    BY <1>4, <1>5
<1> HIDE DEF hashed, v
<1>7. HashedTotal(hashed) <= 10000
    <2>1. HashedTotal(hashed) \in Nat
        BY <1>6, HashedWithin
    <2>2. TotalOf(v.beneficiaries, "Percentage") \in Nat
        BY <1>4, ListTotals
    <2> QED  BY <1>1, <2>1, <2>2
<1>8. Whole(w)
    BY <1>3 DEF Whole
<1>9. TypedFields(w)
    BY <1>3, <1>6, <1>7 DEF Whole, TypedFields, WillFields
<1> HIDE DEF w
<1> QED  BY <1>1, <1>8, <1>9, Closed, SavedTyped

\* What a claim takes of each token.
LEMMA ClaimTerms ==
    ASSUME NEW hashed, hashed \in Seq(HashedBeneficiary), hashed \in Seq(Commitment),
           NEW i \in DOMAIN hashed, ~hashed[i].claimed
    PROVE  /\ hashed[i].percentage \in Nat \ {0}
           /\ unclaimed_hashed_bps(hashed) \in Nat \ {0}
           /\ hashed[i].percentage <= unclaimed_hashed_bps(hashed)
<1> DEFINE f == HashedBps(hashed)
           S == Unclaimed(hashed)
           p == hashed[i].percentage
<1>1. /\ IsFiniteSet(S) /\ S \subseteq DOMAIN hashed
      /\ \A j \in DOMAIN hashed : f[j] \in Nat \ {0}
    BY UnclaimedType DEF Unclaimed
<1>2. i \in S /\ f[i] = p
    BY DEF Unclaimed, HashedBps
<1> HIDE DEF f, S, p
<1>3. \A j \in S : f[j] \in Nat
    BY <1>1
<1>4. SumFunctionOnSet(f, S) = f[i] + SumFunctionOnSet(f, S \ {i})
    BY <1>1, <1>2, <1>3, SumTakeOut
<1>5. SumFunctionOnSet(f, S \ {i}) \in Nat
    <2>1. IsFiniteSet(S \ {i}) /\ \A j \in S \ {i} : f[j] \in Nat /\ f[j] <= f[j]
        BY <1>1, <1>3, FS_Subset
    <2> QED  BY <2>1, SumGrows
<1>6. f[i] \in Nat \ {0}
    BY <1>1
<1>7. SumFunctionOnSet(f, S) = unclaimed_hashed_bps(hashed)
    BY DEF f, S, unclaimed_hashed_bps
<1>8. p \in Nat \ {0} /\ SumFunctionOnSet(f, S) \in Nat \ {0} /\ p <= SumFunctionOnSet(f, S)
    BY <1>2, <1>4, <1>5, <1>6
<1> QED  BY <1>7, <1>8 DEF p

LEMMA ClaimTyped ==
    ASSUME AllTyped, PaidInv, NEW id \in DOMAIN wills, NEW claimant, NEW salt,
           reveal_and_claim(id, claimant, salt)
    PROVE  AllTyped'
<1> DEFINE v      == wills[id]
           hashed == v.hashed_beneficiaries
           open   == unclaimed_hashed_bps(hashed)
           Shares(i) == [t \in DOMAIN v.balances |->
                            (v.balances[t] * hashed[i].percentage) \div open]
           Left(i) == [t \in DOMAIN v.balances |-> v.balances[t] - Shares(i)[t]]
           Claimed(i) == [v EXCEPT !.balances = Left(i),
                                   !.balance = BalanceOf(Left(i), v.token),
                                   !.hashed_beneficiaries[i].claimed = TRUE]
<1>1. PICK i \in DOMAIN hashed : wills' = Put(wills, id, Claimed(i)) /\ ~hashed[i].claimed
    <2> HIDE DEF Shares
    <2> QED  BY DEF reveal_and_claim, save_will, SaveWithVotes, Shares
<1>2. TypedWill(v) /\ hashed \in Seq(Commitment)
    BY DEF AllTyped, PaidInv, PaidOut
<1>3. Whole(v) /\ TypedFields(v)
    BY <1>2, Opened
<1>4. hashed \in Seq(HashedBeneficiary) /\ HashedTotal(hashed) <= 10000
    BY <1>3 DEF TypedFields
<1> DEFINE w     == Claimed(i)
           after == [hashed EXCEPT ![i].claimed = TRUE]
           p     == hashed[i].percentage
<1>5. after \in Seq(HashedBeneficiary) /\ HashedBps(after) = HashedBps(hashed)
    <2>0. hashed[i] \in HashedBeneficiary
        <3> HIDE DEF hashed
        <3> QED  BY <1>4
    <2>1. hashed[i] \in [claimant : Accounts, salt : Nat, percentage : Nat, claimed : BOOLEAN]
        BY <2>0 DEF HashedBeneficiary
    <2>2. [hashed[i] EXCEPT !.claimed = TRUE] \in HashedBeneficiary
        BY <2>1 DEF HashedBeneficiary
    <2>3. after = [hashed EXCEPT ![i] = [hashed[i] EXCEPT !.claimed = TRUE]]
        OBVIOUS
    <2>4. /\ DOMAIN after = DOMAIN hashed /\ after[i].percentage = hashed[i].percentage
          /\ \A j \in DOMAIN hashed : j # i => after[j] = hashed[j]
        BY <2>1
    <2>5. after \in Seq(HashedBeneficiary)
        BY <1>4, <2>2, <2>3
    <2> HIDE DEF after
    <2> QED  BY <2>4, <2>5 DEF HashedBps
<1>6. HashedTotal(after) <= 10000
    BY <1>4, <1>5 DEF HashedTotal
<1>7. IsBalances(Left(i)) /\ DOMAIN Left(i) = DOMAIN v.balances
    <2>1. p \in Nat \ {0} /\ open \in Nat \ {0} /\ p <= open
        BY <1>1, <1>2, <1>4, ClaimTerms
    <2>2. IsBalances(v.balances)
        BY <1>3 DEF TypedFields
    <2>3. ASSUME NEW t \in DOMAIN v.balances
          PROVE  Left(i)[t] \in Nat
        <3>1. v.balances[t] \in Nat
            BY <2>2 DEF IsBalances
        <3> HIDE DEF p, open
        <3>2. (v.balances[t] * p) \div open \in 0..v.balances[t]
            BY <2>1, <3>1, PartShare
        <3>3. v.balances[t] - (v.balances[t] * p) \div open \in Nat
            BY <3>1, <3>2
        <3> USE DEF p, open
        <3> QED  BY <3>3
    <2>4. Left(i) = [t \in DOMAIN v.balances |-> Left(i)[t]]
        OBVIOUS
    <2> HIDE DEF Left, Shares
    <2> QED  BY <2>2, <2>3, <2>4 DEF IsBalances
<1>8. BalanceOf(Left(i), v.token) \in Nat
    <2> HIDE DEF Left
    <2> QED  BY <1>7 DEF IsBalances, BalanceOf
<1> DEFINE left == Left(i)
<1> HIDE DEF Left
<1>9. Whole(w)
    BY <1>3 DEF Whole
<1>10. w.hashed_beneficiaries = after
    BY <1>3 DEF Whole, WillFields
<1>11. TypedFields(w)
    <2>1. /\ w.owner = v.owner /\ w.token = v.token /\ w.beneficiaries = v.beneficiaries
          /\ w.checkin_period_days = v.checkin_period_days
          /\ w.grace_period_days = v.grace_period_days
          /\ w.last_checkin = v.last_checkin /\ w.trigger_time = v.trigger_time
          /\ w.confirmation_deadline = v.confirmation_deadline /\ w.status = v.status
          /\ w.guardian_vote_weight = v.guardian_vote_weight
          /\ w.guardian_votes = v.guardian_votes
          /\ w.guardian_cancel_vote_weight = v.guardian_cancel_vote_weight
          /\ w.guardian_cancel_votes = v.guardian_cancel_votes
          /\ w.guardian_threshold = v.guardian_threshold
          /\ w.guardian_list_updated_at = v.guardian_list_updated_at
          /\ w.keeper_bounty_bps = v.keeper_bounty_bps /\ w.delegate = v.delegate
          /\ w.guardians = v.guardians
          /\ w.balances = left /\ w.balance = BalanceOf(left, v.token)
        BY <1>3 DEF Whole, WillFields
    <2>2. /\ IsBalances(left) /\ IsFiniteSet(DOMAIN left) /\ BalanceOf(left, v.token) \in Nat
        BY <1>3, <1>7, <1>8 DEF TypedFields
    <2> HIDE DEF after, w, v, left
    <2> QED  BY <1>3, <1>5, <1>6, <1>10, <2>1, <2>2 DEF TypedFields
<1>12. TypedWill(w)
    BY <1>9, <1>11, Closed
<1> QED  BY <1>1, <1>12, SavedTyped

----------------------------------------------------------------------------
(* New wills *)

\* A purse holds finitely many tokens.
LEMMA PurseFunds ==
    ASSUME NEW tokens, tokens \in TokenLists
    PROVE  IsBalances(BalancesOf(tokens)) /\ IsFiniteSet(DOMAIN BalancesOf(tokens))
<1> DEFINE n == Len(tokens)
           named == {tokens[i][1] : i \in DOMAIN tokens}
           f == [i \in 1..n |-> tokens[i][1]]
<1>1. n \in Nat /\ DOMAIN tokens = 1..n /\ \A i \in 1..n : tokens[i] \in Tokens \X Nat
    BY DEF TokenLists
<1>2. IsFiniteSet(1..n)
    BY <1>1, FS_Interval
<1>3. f \in Surjection(1..n, named)
    BY <1>1 DEF Surjection
<1>4. named \subseteq Tokens
    BY <1>1
<1>5. /\ DOMAIN BalancesOf(tokens) = named
      /\ \A t \in DOMAIN BalancesOf(tokens) : BalancesOf(tokens)[t] \in Nat
    BY PurseType
<1>6. BalancesOf(tokens) = [t \in named |-> BalancesOf(tokens)[t]]
    BY DEF BalancesOf
<1> HIDE DEF f, named, n
<1>7. IsFiniteSet(named)
    BY <1>2, <1>3, FS_Surjection
<1> QED  BY <1>4, <1>5, <1>6, <1>7 DEF IsBalances

LEMMA NewWillTyped ==
    ASSUME NEW owner \in Accounts, NEW form \in SetOfForms, ValidForm(owner, form), now \in Nat
    PROVE  TypedWill(NewWill(owner, form))
<1> DEFINE w == NewWill(owner, form)
           purse == BalancesOf(form.tokens)
<1>1. /\ form.tokens \in TokenLists /\ form.beneficiaries \in Seq(Beneficiary)
      /\ form.checkin \in Nat /\ form.grace \in Nat /\ form.guardians \in Seq(Accounts)
      /\ form.threshold \in Nat /\ form.bounty \in Nat /\ form.delay \in Nat
    BY DEF SetOfForms, TokenLists
<1>2. 1 \in DOMAIN form.tokens
    BY <1>1, BoundsAssumption DEF ValidForm, TokenLists
<1>3. form.tokens[1] \in Tokens \X Nat
    BY <1>1, <1>2 DEF TokenLists
<1>4. IsBalances(purse) /\ IsFiniteSet(DOMAIN purse)
    BY <1>1, PurseFunds
<1>5. purse[form.tokens[1][1]] \in Nat
    BY <1>1, <1>2, PurseType
<1>6. IsGuardians(UnweightedGuardians(form.guardians))
    BY <1>1, NewGuardiansTyped
<1>7. form.bounty <= MAX_KEEPER_BOUNTY_BPS
    BY DEF ValidForm
<1>8. HashedTotal(<< >>) <= 10000
    <2>1. HashedTotal(<< >>) = SumFunctionOnSet(HashedBps(<< >>), {})
        BY DEF HashedTotal, SumFunction, HashedBps
    <2> QED  BY <2>1, SumOfNone
<1> HIDE DEF purse
<1>9. Whole(w)
    BY DEF Whole, WillFields, NewWill
<1>10. /\ w.owner = owner /\ w.token = form.tokens[1][1] /\ w.balance = purse[form.tokens[1][1]]
       /\ w.beneficiaries = form.beneficiaries /\ w.hashed_beneficiaries = << >>
       /\ w.checkin_period_days = form.checkin /\ w.grace_period_days = form.grace
       /\ w.last_checkin = now /\ w.trigger_time = NoTime
       /\ w.confirmation_deadline = (IF form.delay > 0 THEN now + form.delay ELSE NoTime)
       /\ w.status \in {"PendingConfirmation", "Active"}
       /\ w.guardian_vote_weight = 0 /\ w.guardian_votes = 0
       /\ w.guardian_cancel_vote_weight = 0 /\ w.guardian_cancel_votes = 0
       /\ w.guardian_threshold = (IF form.guardians = << >> THEN 0 ELSE form.threshold)
       /\ w.guardian_list_updated_at = now /\ w.keeper_bounty_bps = form.bounty
       /\ w.delegate = NoAccount /\ w.balances = purse
       /\ w.guardians = UnweightedGuardians(form.guardians)
    BY DEF NewWill, purse
<1> HIDE DEF w
<1>11. w.confirmation_deadline \in OptionalTime
    BY <1>1, <1>10 DEF OptionalTime
<1>12. TypedFields(w)
    <2>1. w.token \in Tokens
        BY <1>3, <1>10
    <2>2. << >> \in Seq(HashedBeneficiary)
        OBVIOUS
    <2>3. w.guardian_threshold \in Nat /\ w.status \in WillStatus /\ NoTime \in OptionalTime
        BY <1>1, <1>10 DEF WillStatus, OptionalTime
    <2> QED  BY <1>1, <1>4, <1>5, <1>6, <1>7, <1>8, <1>10, <1>11, <2>1, <2>2, <2>3
             DEF TypedFields
<1>13. TypedWill(w)
    BY <1>9, <1>12, Closed
<1> QED  BY <1>13 DEF w

LEMMA CreateTyped ==
    ASSUME AllTyped, now \in Nat, NEW owner \in Accounts, NEW form \in CreateForms,
           create_will(owner, form)
    PROVE  AllTyped'
<1>1. ValidForm(owner, form) /\ wills' = Put(wills, next_will_id + 1, NewWill(owner, form))
    BY DEF create_will, save_will, SaveWithVotes
<1>2. form \in SetOfForms
    BY InputsAssumption
<1> QED  BY <1>1, <1>2, NewWillTyped, SavedTyped

\* Numbers not below 0 have no sum below 0.
LEMMA SumNatural ==
    ASSUME NEW D, IsFiniteSet(D), NEW f, \A x \in D : f[x] \in Nat
    PROVE  SumFunctionOnSet(f, D) \in Nat
<1>1. SumFunctionOnSet(f, {}) = 0
    BY SumOfNone
<1>2. SumFunctionOnSet(f, D) \in Int
    BY SumType
<1>3. SumFunctionOnSet(f, {}) <= SumFunctionOnSet(f, D)
    BY SumGrows
<1> QED  BY <1>1, <1>2, <1>3

\* The wills of a batch, and what they hold together.
NewIds(forms) == (next_will_id + 1)..(next_will_id + Len(forms))

Fresh(owner, forms) ==
    [id \in NewIds(forms) |->
        NewWill(owner, [forms[id - next_will_id] EXCEPT !.bounty = 0, !.delay = 0])]

FreshFunds(owner, forms) ==
    [t \in Tokens |->
        SumFunction([id \in NewIds(forms) |-> BalanceOf(Fresh(owner, forms)[id].balances, t)])]

LEMMA FreshTyped ==
    ASSUME now \in Nat, next_will_id \in Nat, NEW owner \in Accounts, NEW forms \in Batches,
           batch_create_wills(owner, forms)
    PROVE  /\ \A id \in NewIds(forms) : TypedWill(Fresh(owner, forms)[id])
           /\ IsFiniteSet(NewIds(forms)) /\ Len(forms) \in Nat
           /\ \A t \in Tokens : FreshFunds(owner, forms)[t] \in Nat
<1> DEFINE ids == NewIds(forms)
           Form(id) == [forms[id - next_will_id] EXCEPT !.bounty = 0, !.delay = 0]
<1>1. \A id \in ids : ValidForm(owner, Form(id))
    BY DEF batch_create_wills, NewIds
<1>2. forms \in Seq(SetOfForms) /\ Len(forms) \in Nat
    BY PortfolioInputsAssumption
<1>3. ASSUME NEW id \in ids
      PROVE  TypedWill(Fresh(owner, forms)[id])
    <2>1. id - next_will_id \in DOMAIN forms
        <3>1. next_will_id \in Nat /\ Len(forms) \in Nat /\ DOMAIN forms = 1..Len(forms)
            BY <1>2
        <3> QED  BY <3>1 DEF NewIds
    <2>2. forms[id - next_will_id] \in SetOfForms
        BY <1>2, <2>1
    <2>3. Form(id) \in SetOfForms
        BY <2>2 DEF SetOfForms
    <2>4. Fresh(owner, forms)[id] = NewWill(owner, Form(id))
        BY DEF Fresh
    <2> HIDE DEF Form
    <2> QED  BY <1>1, <2>3, <2>4, NewWillTyped
<1>4. IsFiniteSet(ids)
    <2>1. next_will_id + 1 \in Int /\ next_will_id + Len(forms) \in Int
        BY <1>2
    <2> QED  BY <2>1, FS_Interval DEF NewIds
<1>5. ASSUME NEW t \in Tokens
      PROVE  FreshFunds(owner, forms)[t] \in Nat
    <2> DEFINE f == [id \in ids |-> BalanceOf(Fresh(owner, forms)[id].balances, t)]
    <2>1. \A id \in ids : f[id] \in Nat
        <3> SUFFICES ASSUME NEW id \in ids PROVE f[id] \in Nat
            OBVIOUS
        <3>1. IsBalances(Fresh(owner, forms)[id].balances)
            BY <1>3, Opened DEF TypedFields
        <3> QED  BY <3>1 DEF IsBalances, BalanceOf
    <2>2. FreshFunds(owner, forms)[t] = SumFunctionOnSet(f, ids)
        BY DEF FreshFunds, SumFunction
    <2> HIDE DEF f, ids
    <2>3. SumFunctionOnSet(f, ids) \in Nat
        BY <1>4, <2>1, SumNatural
    <2> QED  BY <2>2, <2>3
<1> QED  BY <1>2, <1>3, <1>4, <1>5

LEMMA BatchCreateTyped ==
    ASSUME AllTyped, now \in Nat, next_will_id \in Nat, NEW owner \in Accounts, NEW forms \in Batches,
           batch_create_wills(owner, forms)
    PROVE  AllTyped'
<1>1. wills' = [id \in DOMAIN wills \cup NewIds(forms) |->
                        IF id \in NewIds(forms) THEN Fresh(owner, forms)[id] ELSE wills[id]]
    BY DEF batch_create_wills, NewIds, Fresh
<1>2. \A id \in NewIds(forms) : TypedWill(Fresh(owner, forms)[id])
    BY FreshTyped
<1> QED  BY <1>1, <1>2 DEF AllTyped

\* What descends from a typed will.
LEMMA DescendantTyped ==
    ASSUME NEW v, TypedWill(v), now \in Nat, NEW owner \in Accounts, NEW balances,
           IsBalances(balances), IsFiniteSet(DOMAIN balances), NEW token \in Tokens,
           NEW balance \in Nat
    PROVE  TypedWill(Descendant(v, owner, balances, token, balance))
<1> DEFINE w == Descendant(v, owner, balances, token, balance)
           asked == reset_guardian_consent(v.guardians)
<1>1. Whole(v) /\ TypedFields(v)
    BY Opened
<1>2. IsGuardians(asked)
    <2>1. IsGuardians(v.guardians)
        BY <1>1 DEF TypedFields
    <2>2. ASSUME NEW g \in DOMAIN v.guardians
          PROVE  asked[g] \in [weight : Nat, consent : GuardianConsent]
        <3>1. v.guardians[g] \in [weight : Nat, consent : GuardianConsent]
            BY <2>1 DEF IsGuardians
        <3>2. asked[g] = [v.guardians[g] EXCEPT !.consent = "Pending"]
            BY DEF reset_guardian_consent
        <3> QED  BY <3>1, <3>2 DEF GuardianConsent
    <2>3. asked = [g \in DOMAIN v.guardians |-> asked[g]]
        BY DEF reset_guardian_consent
    <2> HIDE DEF asked
    <2> QED  BY <2>1, <2>2, <2>3 DEF IsGuardians
<1>3. HashedTotal(<< >>) <= 10000
    <2>1. HashedTotal(<< >>) = SumFunctionOnSet(HashedBps(<< >>), {})
        BY DEF HashedTotal, SumFunction, HashedBps
    <2> QED  BY <2>1, SumOfNone
<1>4. Whole(w)
    BY <1>1 DEF Whole, Descendant
<1>5. /\ w.owner = owner /\ w.token = token /\ w.balance = balance
      /\ w.beneficiaries = v.beneficiaries /\ w.hashed_beneficiaries = << >>
      /\ w.checkin_period_days = v.checkin_period_days
      /\ w.grace_period_days = v.grace_period_days
      /\ w.last_checkin = now /\ w.trigger_time = NoTime /\ w.confirmation_deadline = NoTime
      /\ w.status = "Active" /\ w.guardians = asked
      /\ w.guardian_vote_weight = 0 /\ w.guardian_votes = 0
      /\ w.guardian_cancel_vote_weight = 0 /\ w.guardian_cancel_votes = 0
      /\ w.guardian_threshold = v.guardian_threshold
      /\ w.guardian_list_updated_at = now /\ w.keeper_bounty_bps = v.keeper_bounty_bps
      /\ w.delegate = NoAccount /\ w.balances = balances
    BY <1>1 DEF Whole, Descendant, WillFields
<1> HIDE DEF w, asked
<1>6. TypedFields(w)
    <2>1. << >> \in Seq(HashedBeneficiary) /\ "Active" \in WillStatus /\ NoTime \in OptionalTime
        BY DEF WillStatus, OptionalTime
    <2> QED  BY <1>1, <1>2, <1>3, <1>5, <2>1 DEF TypedFields
<1>7. TypedWill(w)
    BY <1>4, <1>6, Closed
<1> QED  BY <1>7 DEF w

LEMMA CloneTyped ==
    ASSUME AllTyped, now \in Nat, NEW source \in DOMAIN wills, NEW owner \in Accounts,
           NEW tokens \in ClonePurses, clone_will(source, owner, tokens)
    PROVE  AllTyped'
<1> DEFINE w == Descendant(wills[source], owner, BalancesOf(tokens), tokens[1][1], tokens[1][2])
<1>1. ValidTokens(tokens) /\ wills' = Put(wills, next_will_id + 1, w)
    BY DEF clone_will, save_will, SaveWithVotes
<1>2. tokens \in TokenLists /\ 1 \in DOMAIN tokens
    BY <1>1, PortfolioInputsAssumption, ValidPurse
<1>3. tokens[1] \in Tokens \X Nat
    BY <1>2 DEF TokenLists
<1>4. TypedWill(wills[source])
    BY DEF AllTyped
<1>5. IsBalances(BalancesOf(tokens)) /\ IsFiniteSet(DOMAIN BalancesOf(tokens))
    BY <1>2, PurseFunds
<1>6. TypedWill(w)
    <2>1. tokens[1][1] \in Tokens /\ tokens[1][2] \in Nat
        BY <1>3
    <2> QED  BY <1>4, <1>5, <2>1, DescendantTyped
<1> HIDE DEF w
<1> QED  BY <1>1, <1>6, SavedTyped

LEMMA SavedTwiceTyped ==
    ASSUME AllTyped, NEW a, NEW v, NEW b, NEW w, wills' = Put(Put(wills, a, v), b, w),
           TypedWill(v), TypedWill(w)
    PROVE  AllTyped'
<1>1. ASSUME NEW x \in DOMAIN wills'
      PROVE  wills'[x] = v \/ wills'[x] = w \/ (x \in DOMAIN wills /\ wills'[x] = wills[x])
    BY PutTwice
<1> QED  BY <1>1 DEF AllTyped

LEMMA SplitTyped ==
    ASSUME AllTyped, now \in Nat, NEW id \in DOMAIN wills, NEW owner, NEW split \in Splits,
           split_will(id, owner, split)
    PROVE  AllTyped'
<1> DEFINE old       == wills[id].beneficiaries
           child_id  == next_will_id + 1
           named     == ToSet(split.heirs)
           moving    == BalancesOf(split.tokens)
           primary   == split.tokens[1][1]
           staying   == [t \in DOMAIN wills[id].balances |->
                            wills[id].balances[t] - BalanceOf(moving, t)]
           remaining == renormalize_percentages(HeirsIn(old, Addresses(old) \ named))
           parted    == renormalize_percentages(HeirsIn(old, named))
           w1        == [wills[id] EXCEPT !.balances = staying]
           w2        == [w1 EXCEPT !.beneficiaries = remaining]
           born      == Descendant(wills[id], wills[id].owner, moving, primary, moving[primary])
           child     == [born EXCEPT !.beneficiaries = parted, !.keeper_bounty_bps = 0]
<1>1. /\ wills' = Put(Put(wills, id, sync_primary_balance(w2)), child_id, child)
      /\ \A t \in DOMAIN moving : moving[t] <= BalanceOf(wills[id].balances, t)
      /\ ValidTokens(split.tokens)
    BY DEF split_will
<1>2. TypedWill(wills[id])
    BY DEF AllTyped
<1>3. /\ old \in Seq(Beneficiary) /\ wills[id].owner \in Accounts
      /\ IsBalances(wills[id].balances) /\ IsFiniteSet(DOMAIN wills[id].balances)
    BY <1>2, Opened DEF TypedFields
<1>4. remaining \in Seq(Beneficiary) /\ parted \in Seq(Beneficiary)
    <2>1. ASSUME NEW A
          PROVE  renormalize_percentages(HeirsIn(old, A)) \in Seq(Beneficiary)
        <3>1. HeirsIn(old, A) \in Seq(Beneficiary)
            BY <1>3, HeirsInFact
        <3> QED  BY <3>1, NormalisedType
    <2> QED  BY <2>1
<1>5. split.tokens \in TokenLists /\ 1 \in DOMAIN split.tokens
    BY <1>1, PortfolioInputsAssumption, ValidPurse
<1>6. /\ IsBalances(moving) /\ IsFiniteSet(DOMAIN moving) /\ primary \in DOMAIN moving
      /\ \A t : BalanceOf(moving, t) \in Nat
    BY <1>5, PurseFunds, PurseType
<1>7. primary \in Tokens /\ moving[primary] \in Nat
    <2> HIDE DEF moving, primary
    <2> QED  BY <1>6 DEF IsBalances
<1> HIDE DEF moving, primary, remaining, parted, old
<1>8. IsBalances(staying) /\ IsFiniteSet(DOMAIN staying)
    <2>1. ASSUME NEW t \in DOMAIN wills[id].balances
          PROVE  wills[id].balances[t] - BalanceOf(moving, t) \in Nat
        <3>1. wills[id].balances[t] \in Nat
            BY <1>3 DEF IsBalances
        <3>2. BalanceOf(moving, t) \in Nat /\ BalanceOf(moving, t) <= wills[id].balances[t]
            BY <1>1, <1>6, <3>1 DEF BalanceOf
        <3> QED  BY <3>1, <3>2
    <2> QED  BY <1>3, <2>1 DEF IsBalances
<1> HIDE DEF staying
<1>9. TypedWill(w1)
    <2>1. "Active" \in WillStatus /\ 0 \in Nat
        BY DEF WillStatus
    <2> QED  BY <1>2, <1>8, <2>1, MoneyRetyped
<1> HIDE DEF w1
<1>10. TypedWill(w2)
    BY <1>4, <1>9, HeirsRetyped
<1> HIDE DEF w2
<1>11. TypedWill(sync_primary_balance(w2))
    BY <1>10, MirrorTyped
<1>12. TypedWill(born)
    BY <1>2, <1>3, <1>6, <1>7, DescendantTyped
<1> HIDE DEF born
<1>13. TypedWill(child)
    <2>1. Whole(born) /\ TypedFields(born)
        BY <1>12, Opened
    <2>2. Whole(child)
        BY <2>1 DEF Whole
    <2>3. 0 <= MAX_KEEPER_BOUNTY_BPS
        BY BoundsAssumption
    <2>4. TypedFields(child)
        BY <1>4, <2>1, <2>3 DEF Whole, TypedFields, WillFields
    <2> HIDE DEF child
    <2> QED  BY <2>2, <2>4, Closed
<1> HIDE DEF child
<1> QED  BY <1>1, <1>11, <1>13, SavedTwiceTyped

\* What a release keeps back for hashed heirs is a part of what the will holds.
LEMMA ReserveWithin ==
    ASSUME NEW w, TypedWill(w), NEW keeper, NEW t \in DOMAIN w.balances
    PROVE  /\ TokenPlan(w, keeper, t).reserve \in Nat
           /\ TokenPlan(w, keeper, t).bounty \in Nat
           /\ TokenPlan(w, keeper, t).bounty + TokenPlan(w, keeper, t).reserve <= w.balances[t]
<1> DEFINE total  == w.balances[t]
           owed   == keeper_bounty(total, w.keeper_bounty_bps)
           bounty == IF BountyTokens(w, keeper) # {} /\ t = Min(BountyTokens(w, keeper))
                     THEN owed ELSE 0
           open   == unclaimed_hashed_bps(w.hashed_beneficiaries)
           reserve == proportional_share(total - bounty, open)
<1>1. TypedFields(w)
    BY Opened
<1>2. total \in Nat
    BY <1>1 DEF TypedFields, IsBalances
<1> DEFINE bps == w.keeper_bounty_bps
<1>3. bps \in Nat /\ bps <= 10000
    <2>1. bps \in Nat /\ bps <= MAX_KEEPER_BOUNTY_BPS
        BY <1>1 DEF TypedFields
    <2>2. MAX_KEEPER_BOUNTY_BPS \in 0..10000
        BY BoundsAssumption
    <2> HIDE DEF bps
    <2> QED  BY ONLY <2>1, <2>2
<1> HIDE DEF bps, total
<1>4. proportional_share(total, bps) \in 0..total
    BY ONLY <1>2, <1>3, ShareWithin
<1>5. open \in Nat /\ open <= 10000
    <2>1. /\ w.hashed_beneficiaries \in Seq(HashedBeneficiary)
          /\ HashedTotal(w.hashed_beneficiaries) <= 10000
        BY <1>1 DEF TypedFields
    <2>2. /\ HashedTotal(w.hashed_beneficiaries) \in Nat /\ open \in Nat
          /\ open <= HashedTotal(w.hashed_beneficiaries)
        BY <2>1, HashedWithin
    <2> HIDE DEF open
    <2> QED  BY ONLY <2>1, <2>2
<1>6. bounty \in 0..total
    BY <1>2, <1>4 DEF keeper_bounty, total, bps
<1>7. TokenPlan(w, keeper, t).reserve = reserve /\ TokenPlan(w, keeper, t).bounty = bounty
    BY DEF TokenPlan, total
<1> HIDE DEF bounty, open
<1>8. reserve \in 0..(total - bounty)
    <2>1. total - bounty \in Nat
        BY <1>2, <1>6
    <2> QED  BY ONLY <1>5, <2>1, ShareWithin
<1> HIDE DEF reserve
<1>9. reserve \in Nat /\ bounty \in Nat /\ bounty + reserve <= total
    BY <1>2, <1>6, <1>8
<1> QED  BY <1>7, <1>9 DEF total

LEMMA ReleaseTyped ==
    ASSUME AllTyped, NEW id, NEW w, TypedWill(w), NEW keeper, NEW refused, NEW stats, NEW records,
           distribute(id, w, keeper, refused, stats, records)
    PROVE  AllTyped'
<1> DEFINE left     == HashedReserves(w, DistributionPlan(w, keeper))
           released == [w EXCEPT !.balances = left,
                                 !.balance  = BalanceOf(left, w.token),
                                 !.status   = "Released"]
<1>1. wills' = Put(wills, id, released)
    BY DEF distribute, SaveWithVotes
<1>2. TypedFields(w)
    BY Opened
<1>3. DOMAIN left \subseteq DOMAIN w.balances /\ left = [t \in DOMAIN left |-> left[t]]
    BY DEF HashedReserves, DistributionPlan, FundedTokens
<1>4. ASSUME NEW t \in DOMAIN left
      PROVE  left[t] \in Nat
    <2>1. left[t] = TokenPlan(w, keeper, t).reserve
        BY DEF HashedReserves, DistributionPlan
    <2>2. t \in DOMAIN w.balances
        BY <1>3
    <2> HIDE DEF left
    <2> QED  BY <2>1, <2>2, ReserveWithin
<1> HIDE DEF left
<1>5. IsBalances(left) /\ IsFiniteSet(DOMAIN left)
    <2>1. IsBalances(w.balances) /\ IsFiniteSet(DOMAIN w.balances)
        BY <1>2 DEF TypedFields
    <2> QED  BY <1>3, <1>4, <2>1, FS_Subset DEF IsBalances
<1>6. BalanceOf(left, w.token) \in Nat /\ "Released" \in WillStatus
    BY <1>4 DEF BalanceOf, WillStatus
<1>7. TypedWill(released)
    <2> DEFINE n == BalanceOf(left, w.token)
               s == "Released"
    <2>1. n \in Nat /\ s \in WillStatus
        BY <1>6
    <2> HIDE DEF n, s
    <2>2. TypedWill([w EXCEPT !.balances = left, !.balance = n, !.status = s])
        BY <1>5, <2>1, MoneyRetyped
    <2> QED  BY <2>2 DEF n, s
<1> HIDE DEF released
<1> QED  BY <1>1, <1>7, SavedTyped

ArchiveTypedToo == \A id \in DOMAIN archived_wills : TypedWill(archived_wills[id])

LEMMA ArchiveTyped ==
    ASSUME AllTyped, ArchiveTypedToo, NEW id \in DOMAIN wills, archive_will(id)
    PROVE  AllTyped' /\ ArchiveTypedToo'
BY DEF AllTyped, ArchiveTypedToo, archive_will, Put, Without

----------------------------------------------------------------------------
(* Merging *)

LEMMA ShareNatural ==
    ASSUME NEW total \in Nat, NEW bps \in Nat
    PROVE  proportional_share(total, bps) \in Nat
<1> DEFINE q == total \div 10000
           r == total % 10000
<1>1. q \in Nat /\ r \in Nat
    OBVIOUS
<1> HIDE DEF q, r
<1>2. q * bps \in Nat /\ r * bps \in Nat
    BY <1>1
<1> DEFINE product == r * bps
<1> HIDE DEF product
<1>3. product \div 10000 \in Nat
    BY <1>2 DEF product
<1>4. q * bps + product \div 10000 \in Nat
    BY <1>2, <1>3
<1> QED  BY <1>4 DEF proportional_share, q, r, product

Valued == [b : Beneficiary, share : Nat]

LEMMA ValuedList ==
    ASSUME NEW list, list \in Seq(Beneficiary), NEW value \in Nat
    PROVE  [i \in DOMAIN list |-> [b |-> list[i], share |-> ShareOf(list[i], value)]] \in Seq(Valued)
<1>1. ASSUME NEW b \in Beneficiary
      PROVE  [b |-> b, share |-> ShareOf(b, value)] \in Valued
    <2>1. b.amount \in Nat
        BY DEF Beneficiary
    <2>2. ShareOf(b, value) \in Nat
        BY <2>1, ShareNatural DEF ShareOf
    <2> QED  BY <2>2 DEF Valued
<1>2. Len(list) \in Nat /\ DOMAIN list = 1..Len(list) /\ \A i \in DOMAIN list : list[i] \in Beneficiary
    OBVIOUS
<1> QED  BY <1>1, <1>2

LEMMA EntryTyped ==
    ASSUME NEW shares \in Seq(Valued), NEW e \in Valued
    PROVE  WithEntry(shares, e) \in Seq(Valued)
<1>1. ASSUME NEW i \in DOMAIN shares
      PROVE  [b     |-> merge_allocation(shares[i].b, e.b),
              share |-> shares[i].share + e.share] \in Valued
    <2> DEFINE x == shares[i].b
               y == e.b
    <2>1. shares[i] \in Valued
        OBVIOUS
    <2>2. x \in Beneficiary /\ y \in Beneficiary /\ shares[i].share + e.share \in Nat
        BY <2>1 DEF Valued
    <2> HIDE DEF x, y
    <2>3. x.amount + y.amount \in Nat
        BY <2>2 DEF Beneficiary
    <2>4. [x EXCEPT !.amount = @ + y.amount] \in Beneficiary
        BY <2>2, <2>3 DEF Beneficiary
    <2>5. merge_allocation(x, y) \in Beneficiary
        BY <2>2, <2>4 DEF merge_allocation
    <2> QED  BY <2>2, <2>5 DEF Valued, x, y
<1>2. CASE \E i \in DOMAIN shares : shares[i].b.address = e.b.address
    <2> DEFINE new == [i \in DOMAIN shares |->
                        IF shares[i].b.address = e.b.address
                        THEN [b     |-> merge_allocation(shares[i].b, e.b),
                              share |-> shares[i].share + e.share]
                        ELSE shares[i]]
    <2>1. \A i \in DOMAIN shares : new[i] \in Valued
        BY <1>1
    <2>2. Len(shares) \in Nat /\ DOMAIN shares = 1..Len(shares) /\ DOMAIN new = DOMAIN shares
          /\ new = [i \in DOMAIN shares |-> new[i]]
        OBVIOUS
    <2>3. WithEntry(shares, e) = new
        BY <1>2 DEF WithEntry
    <2> HIDE DEF new
    <2>4. new \in Seq(Valued)
        BY <2>1, <2>2
    <2> QED  BY <2>3, <2>4
<1>3. CASE ~ \E i \in DOMAIN shares : shares[i].b.address = e.b.address
    BY <1>3 DEF WithEntry
<1> QED  BY <1>2, <1>3

LEMMA CombinedTyped ==
    ASSUME NEW la, la \in Seq(Beneficiary), NEW va \in Nat,
           NEW lb, lb \in Seq(Beneficiary), NEW vb \in Nat
    PROVE  CombinedShares(la, va, lb, vb) \in Seq(Valued)
<1> DEFINE valued == [i \in DOMAIN la |-> [b |-> la[i], share |-> ShareOf(la[i], va)]] \o
                     [i \in DOMAIN lb |-> [b |-> lb[i], share |-> ShareOf(lb[i], vb)]]
           N == Len(valued)
           up == CHOOSE f : f = [n \in 0..N |-> IF n = 0 THEN << >>
                                                ELSE WithEntry(f[n - 1], valued[n])]
           V == Seq(Valued)
           step == [n \in 1..N |-> [s \in V |-> WithEntry(s, valued[n])]]
<1>1. CombinedShares(la, va, lb, vb) = up[N]
    BY DEF CombinedShares
<1>2. valued \in Seq(Valued)
    BY ValuedList
<1> HIDE DEF valued
<1>3. N \in Nat /\ \A n \in 1..N : valued[n] \in Valued
    BY <1>2
<1> HIDE DEF N
<1>4. step \in Steps(N, V)
    BY <1>3, EntryTyped DEF Steps
<1>5. << >> \in V
    OBVIOUS
<1>6. \A n \in 1..N : \A s \in V : step[n][s] = WithEntry(s, valued[n])
    OBVIOUS
<1> HIDE DEF step, V
<1>7. PICK f \in Results(N, V, << >>, step) :
        \A g : Follows(g, N, V, << >>, step) => \A n \in 0..N : g[n] = f[n]
    <2>1. N \in Nat
        BY <1>3
    <2> QED  BY ONLY <2>1, <1>4, <1>5, Iterates
<1>8. /\ f = [n \in 0..N |-> IF n = 0 THEN << >> ELSE WithEntry(f[n - 1], valued[n])]
      /\ \A n \in 0..N : f[n] \in V
    <2>1. \A n \in 0..N : n # 0 => n \in 1..N /\ n - 1 \in 0..N
        BY <1>3
    <2> QED  BY <1>6, <2>1 DEF Results
<1>9. up = [n \in 0..N |-> IF n = 0 THEN << >> ELSE WithEntry(up[n - 1], valued[n])]
    BY <1>8, Zenon
<1> HIDE DEF up
<1>10. 0 \in 0..N /\ N \in 0..N /\ \A n \in 1..N : n \in 0..N /\ n # 0
    BY <1>3
<1>11. up[0] = << >> /\ \A n \in 1..N : up[n] = WithEntry(up[n - 1], valued[n])
    BY <1>9, <1>10, Zenon
<1>12. Follows(up, N, V, << >>, step)
    BY <1>6, <1>11 DEF Follows
<1>13. up[N] = f[N]
    BY <1>7, <1>10, <1>12
<1> QED  BY <1>1, <1>8, <1>10, <1>13 DEF V

LEMMA MergedEntryTyped ==
    ASSUME NEW e \in Valued, NEW value \in Nat
    PROVE  MergedEntry(e, value) \in Beneficiary
<1>1. e.b \in Beneficiary /\ e.share \in Nat
    BY DEF Valued
<1>2. Bps(e.share, value) \in Nat
    <2>1. e.share * 10000 \in Nat
        BY <1>1
    <2>2. value > 0 => (e.share * 10000) \div value \in Nat
        BY <2>1, QuotientType
    <2> QED  BY <2>2 DEF Bps
<1>3. \A n \in Nat : [e.b EXCEPT !.amount = n] \in Beneficiary
    BY <1>1 DEF Beneficiary
<1> QED  BY <1>1, <1>2, <1>3 DEF MergedEntry

LEMMA RoundedTyped ==
    ASSUME NEW list, list \in Seq(Beneficiary)
    PROVE  FixRounding(list) \in Seq(Beneficiary)
<1> DEFINE total == TotalOf(list, "Percentage")
           last  == Max(OfKind(list, "Percentage"))
           whole(x) == IF total < 10000 THEN x + (10000 - total)
                       ELSE IF x > total - 10000 THEN x - (total - 10000)
                       ELSE 1
           new == [list EXCEPT ![last].amount = whole(@)]
<1>1. FixRounding(list) = list \/ FixRounding(list) = new
    BY DEF FixRounding
<1>2. total \in Nat
    BY ListTotals
<1> HIDE DEF last, total
<1>3. \A x \in Nat : whole(x) \in Nat
    BY <1>2
<1>4. \A i \in DOMAIN list : list[i] \in Beneficiary
    OBVIOUS
<1>5. CASE last \in DOMAIN list
    <2> DEFINE b == list[last]
               n == whole(b.amount)
    <2>1. b \in Beneficiary
        BY <1>4, <1>5
    <2>2. n \in Nat
        <3>1. b.amount \in Nat
            BY <2>1 DEF Beneficiary
        <3> HIDE DEF whole, b
        <3> QED  BY <1>3, <3>1
    <2>3. new = [list EXCEPT ![last] = [b EXCEPT !.amount = n]]
        BY <1>5
    <2> HIDE DEF b, n, new
    <2>4. [b EXCEPT !.amount = n] \in Beneficiary
        BY <2>1, <2>2 DEF Beneficiary
    <2>5. [list EXCEPT ![last] = [b EXCEPT !.amount = n]] \in Seq(Beneficiary)
        BY <1>5, <2>4
    <2> QED  BY <1>1, <2>3, <2>5
<1>6. CASE last \notin DOMAIN list
    <2>1. new = list
        BY <1>6
    <2> HIDE DEF new
    <2> QED  BY <1>1, <2>1
<1> QED  BY <1>5, <1>6

LEMMA MergedHeirsTyped ==
    ASSUME NEW la, la \in Seq(Beneficiary), NEW va \in Nat,
           NEW lb, lb \in Seq(Beneficiary), NEW vb \in Nat
    PROVE  merge_beneficiaries(la, va, lb, vb) \in Seq(Beneficiary)
<1> DEFINE shares == CombinedShares(la, va, lb, vb)
           value  == va + vb
           N == Len(shares)
           Listed(i) == \/ shares[i].b.kind = "FixedAmount"
                        \/ Bps(shares[i].share, value) > 0
                        \/ shares[i].share > 0
                        \/ i = N
           up == CHOOSE f : f = [n \in 0..N |-> IF n = 0 THEN << >>
                                    ELSE IF Listed(n) THEN Append(f[n - 1], MergedEntry(shares[n], value))
                                    ELSE f[n - 1]]
           V == Seq(Beneficiary)
           step == [n \in 1..N |-> [s \in V |-> IF Listed(n) THEN Append(s, MergedEntry(shares[n], value))
                                                ELSE s]]
<1>1. merge_beneficiaries(la, va, lb, vb) = FixRounding(up[N])
    BY DEF merge_beneficiaries
<1>2. shares \in Seq(Valued)
    BY CombinedTyped
<1>3. value \in Nat
    OBVIOUS
<1> HIDE DEF shares, value
<1>4. N \in Nat /\ \A n \in 1..N : MergedEntry(shares[n], value) \in Beneficiary
    <2>1. N \in Nat /\ \A n \in 1..N : shares[n] \in Valued
        BY <1>2
    <2> QED  BY <1>3, <2>1, MergedEntryTyped
<1> HIDE DEF Listed, N
<1>5. step \in Steps(N, V)
    <2>1. ASSUME NEW n \in 1..N, NEW s \in V
          PROVE  Append(s, MergedEntry(shares[n], value)) \in V
        <3>1. MergedEntry(shares[n], value) \in Beneficiary
            BY <1>4
        <3> QED  BY <3>1
    <2> HIDE DEF V
    <2> QED  BY <2>1 DEF Steps
<1>6. << >> \in V
    OBVIOUS
<1>7. \A n \in 1..N : \A s \in V :
        step[n][s] = IF Listed(n) THEN Append(s, MergedEntry(shares[n], value)) ELSE s
    OBVIOUS
<1> HIDE DEF step, V
<1>8. PICK f \in Results(N, V, << >>, step) :
        \A g : Follows(g, N, V, << >>, step) => \A n \in 0..N : g[n] = f[n]
    BY <1>4, <1>5, <1>6, Iterates
<1>9. /\ f = [n \in 0..N |-> IF n = 0 THEN << >>
                    ELSE IF Listed(n) THEN Append(f[n - 1], MergedEntry(shares[n], value))
                    ELSE f[n - 1]]
      /\ \A n \in 0..N : f[n] \in V
    <2>1. /\ f = [n \in 0..N |-> f[n]] /\ \A n \in 0..N : f[n] \in V
          /\ f[0] = << >> /\ \A n \in 1..N : f[n] = step[n][f[n - 1]]
        BY <1>8 DEF Results
    <2>2. ASSUME NEW n \in 0..N, n # 0
          PROVE  f[n] = IF Listed(n) THEN Append(f[n - 1], MergedEntry(shares[n], value))
                        ELSE f[n - 1]
        <3>1. n \in 1..N /\ n - 1 \in 0..N
            BY <1>4, <2>2
        <3>2. f[n - 1] \in V
            BY <2>1, <3>1
        <3>3. step[n][f[n - 1]]
                = IF Listed(n) THEN Append(f[n - 1], MergedEntry(shares[n], value)) ELSE f[n - 1]
            BY <1>7, <3>1, <3>2
        <3> QED  BY <2>1, <3>1, <3>3
    <2> QED  BY <2>1, <2>2, Zenon
<1>10. up = [n \in 0..N |-> IF n = 0 THEN << >>
                    ELSE IF Listed(n) THEN Append(up[n - 1], MergedEntry(shares[n], value))
                    ELSE up[n - 1]]
    BY <1>9, Zenon
<1> HIDE DEF up
<1>11. 0 \in 0..N /\ N \in 0..N /\ \A n \in 1..N : n \in 0..N /\ n # 0
    BY <1>4
<1>12. /\ up[0] = << >>
       /\ \A n \in 1..N : up[n] = IF Listed(n) THEN Append(up[n - 1], MergedEntry(shares[n], value))
                                  ELSE up[n - 1]
    BY <1>10, <1>11, Zenon
<1>13. Follows(up, N, V, << >>, step)
    BY <1>7, <1>12 DEF Follows
<1>14. up[N] \in Seq(Beneficiary)
    BY <1>8, <1>9, <1>11, <1>13 DEF V
<1> QED  BY <1>1, <1>14, RoundedTyped

LEMMA MergedGuardiansTyped ==
    ASSUME NEW ga, IsGuardians(ga), NEW gb, IsGuardians(gb)
    PROVE  IsGuardians(merge_guardians(ga, gb))
<1> DEFINE T == [weight : Nat, consent : GuardianConsent]
           new == merge_guardians(ga, gb)
<1>1. /\ DOMAIN new = DOMAIN ga \cup DOMAIN gb /\ new = [g \in DOMAIN new |-> new[g]]
      /\ \A g \in DOMAIN ga \cup DOMAIN gb :
            new[g] = CASE g \notin DOMAIN gb -> ga[g]
                       [] g \notin DOMAIN ga -> gb[g]
                       [] OTHER -> [weight  |-> Max({ga[g].weight, gb[g].weight}),
                                    consent |-> more_advanced_consent(ga[g].consent, gb[g].consent)]
    BY DEF merge_guardians
<1>2. /\ \A g \in DOMAIN ga : ga[g] \in T
      /\ \A g \in DOMAIN gb : gb[g] \in T
    BY DEF IsGuardians
<1>3. \A a, b : more_advanced_consent(a, b) \in GuardianConsent
    BY DEF more_advanced_consent, GuardianConsent
<1> HIDE DEF new
<1>4. ASSUME NEW g \in DOMAIN new
      PROVE  new[g] \in T
    <2>1. CASE g \notin DOMAIN gb
        BY <1>1, <1>2, <2>1
    <2>2. CASE g \notin DOMAIN ga
        BY <1>1, <1>2, <2>2
    <2>3. CASE g \in DOMAIN ga /\ g \in DOMAIN gb
        <3>1. new[g] = [weight  |-> Max({ga[g].weight, gb[g].weight}),
                        consent |-> more_advanced_consent(ga[g].consent, gb[g].consent)]
            BY <1>1, <2>3
        <3>2. ga[g].weight \in Nat /\ gb[g].weight \in Nat
            BY <1>2, <2>3
        <3>3. Max({ga[g].weight, gb[g].weight}) \in Nat
            BY <3>2, ShorterOrLonger
        <3> QED  BY <1>3, <3>1, <3>3
    <2> QED  BY <2>1, <2>2, <2>3
<1>5. DOMAIN ga \subseteq Accounts /\ DOMAIN gb \subseteq Accounts
    BY DEF IsGuardians
<1>6. IsGuardians(new)
    BY <1>1, <1>4, <1>5 DEF IsGuardians
<1> QED  BY <1>6 DEF new

LEMMA TotalFunds ==
    ASSUME NEW b, IsBalances(b), IsFiniteSet(DOMAIN b)
    PROVE  total_balance(b) \in Nat
<1>1. \A t \in DOMAIN b : b[t] \in Nat /\ b[t] <= b[t]
    BY DEF IsBalances
<1> QED  BY <1>1, SumGrows DEF total_balance, SumFunction

LEMMA MergeTyped ==
    ASSUME AllTyped, NEW owner, NEW a \in DOMAIN wills, NEW b \in DOMAIN wills,
           merge_wills(owner, a, b)
    PROVE  AllTyped'
<1> DEFINE wa       == wills[a]
           wb       == wills[b]
           heirs    == merge_beneficiaries(wa.beneficiaries, total_balance(wa.balances),
                                           wb.beneficiaries, total_balance(wb.balances))
           balances == [t \in DOMAIN wa.balances \cup DOMAIN wb.balances |->
                            BalanceOf(wa.balances, t) + BalanceOf(wb.balances, t)]
           guardians == merge_guardians(wa.guardians, wb.guardians)
           checkin  == Min({wa.checkin_period_days, wb.checkin_period_days})
           grace    == Max({wa.grace_period_days, wb.grace_period_days})
           merged   == [wa EXCEPT !.beneficiaries         = heirs,
                                  !.guardians             = guardians,
                                  !.checkin_period_days   = checkin,
                                  !.grace_period_days     = grace,
                                  !.balances              = balances,
                                  !.balance               = @ + wb.balance,
                                  !.guardian_votes        = 0,
                                  !.guardian_cancel_votes = 0]
           consumed == [wb EXCEPT !.balances              = << >>,
                                  !.balance               = 0,
                                  !.status                = "Cancelled",
                                  !.guardian_votes        = 0,
                                  !.guardian_cancel_votes = 0]
<1>1. wills' = Put(Put(wills, a, merged), b, consumed)
    BY DEF merge_wills
<1>2. TypedWill(wa) /\ TypedWill(wb)
    BY DEF AllTyped
<1>3. Whole(wa) /\ TypedFields(wa) /\ Whole(wb) /\ TypedFields(wb)
    BY <1>2, Opened
<1>4. /\ IsBalances(wa.balances) /\ IsFiniteSet(DOMAIN wa.balances)
      /\ IsBalances(wb.balances) /\ IsFiniteSet(DOMAIN wb.balances)
      /\ IsGuardians(wa.guardians) /\ IsGuardians(wb.guardians)
      /\ wa.beneficiaries \in Seq(Beneficiary) /\ wb.beneficiaries \in Seq(Beneficiary)
      /\ wa.checkin_period_days \in Nat /\ wb.checkin_period_days \in Nat
      /\ wa.grace_period_days \in Nat /\ wb.grace_period_days \in Nat
      /\ wa.balance \in Nat /\ wb.balance \in Nat
    BY <1>3 DEF TypedFields
<1>5. heirs \in Seq(Beneficiary)
    BY <1>4, TotalFunds, MergedHeirsTyped
<1>6. IsBalances(balances) /\ IsFiniteSet(DOMAIN balances)
    <2>1. \A t : BalanceOf(wa.balances, t) \in Nat /\ BalanceOf(wb.balances, t) \in Nat
        BY <1>4 DEF IsBalances, BalanceOf
    <2>2. IsFiniteSet(DOMAIN wa.balances \cup DOMAIN wb.balances)
        BY <1>4, FS_Union
    <2>3. \A t \in DOMAIN balances : balances[t] \in Nat
        BY <2>1
    <2> QED  BY <1>4, <2>2, <2>3 DEF IsBalances
<1>7. IsGuardians(guardians) /\ checkin \in Nat /\ grace \in Nat
    BY <1>4, MergedGuardiansTyped, ShorterOrLonger
<1> HIDE DEF heirs, balances, guardians, checkin, grace
<1>8. Whole(merged) /\ Whole(consumed)
    BY <1>3 DEF Whole
<1>9. TypedFields(merged)
    <2>1. /\ merged.owner = wa.owner /\ merged.token = wa.token
          /\ merged.balance = wa.balance + wb.balance
          /\ merged.beneficiaries = heirs
          /\ merged.hashed_beneficiaries = wa.hashed_beneficiaries
          /\ merged.checkin_period_days = checkin /\ merged.grace_period_days = grace
          /\ merged.last_checkin = wa.last_checkin /\ merged.trigger_time = wa.trigger_time
          /\ merged.confirmation_deadline = wa.confirmation_deadline
          /\ merged.status = wa.status /\ merged.guardians = guardians
          /\ merged.guardian_vote_weight = wa.guardian_vote_weight /\ merged.guardian_votes = 0
          /\ merged.guardian_cancel_vote_weight = wa.guardian_cancel_vote_weight
          /\ merged.guardian_cancel_votes = 0
          /\ merged.guardian_threshold = wa.guardian_threshold
          /\ merged.guardian_list_updated_at = wa.guardian_list_updated_at
          /\ merged.keeper_bounty_bps = wa.keeper_bounty_bps /\ merged.delegate = wa.delegate
          /\ merged.balances = balances
        BY <1>3 DEF Whole, WillFields
    <2>2. wa.balance + wb.balance \in Nat
        BY <1>4
    <2> HIDE DEF merged, wa, wb
    <2> QED  BY <1>3, <1>5, <1>6, <1>7, <2>1, <2>2 DEF TypedFields
<1>10. TypedFields(consumed)
    <2> DEFINE none == << >>
    <2>1. IsBalances(none) /\ IsFiniteSet(DOMAIN none) /\ "Cancelled" \in WillStatus
        BY FS_EmptySet DEF IsBalances, WillStatus
    <2>2. /\ consumed.owner = wb.owner /\ consumed.token = wb.token /\ consumed.balance = 0
          /\ consumed.beneficiaries = wb.beneficiaries
          /\ consumed.hashed_beneficiaries = wb.hashed_beneficiaries
          /\ consumed.checkin_period_days = wb.checkin_period_days
          /\ consumed.grace_period_days = wb.grace_period_days
          /\ consumed.last_checkin = wb.last_checkin /\ consumed.trigger_time = wb.trigger_time
          /\ consumed.confirmation_deadline = wb.confirmation_deadline
          /\ consumed.status = "Cancelled" /\ consumed.guardians = wb.guardians
          /\ consumed.guardian_vote_weight = wb.guardian_vote_weight /\ consumed.guardian_votes = 0
          /\ consumed.guardian_cancel_vote_weight = wb.guardian_cancel_vote_weight
          /\ consumed.guardian_cancel_votes = 0
          /\ consumed.guardian_threshold = wb.guardian_threshold
          /\ consumed.guardian_list_updated_at = wb.guardian_list_updated_at
          /\ consumed.keeper_bounty_bps = wb.keeper_bounty_bps /\ consumed.delegate = wb.delegate
          /\ consumed.balances = none
        BY <1>3 DEF Whole, WillFields
    <2> HIDE DEF consumed, wb, none
    <2> QED  BY <1>3, <2>1, <2>2 DEF TypedFields
<1> HIDE DEF merged, consumed
<1>11. TypedWill(merged) /\ TypedWill(consumed)
    BY <1>8, <1>9, <1>10, Closed
<1> QED  BY <1>1, <1>11, SavedTwiceTyped

\* Every entry point leaves well-typed wills behind.
LEMMA StepTyped ==
    ASSUME AllTyped, PaidInv, LifecycleInv, [PortfolioNext]_vars
    PROVE  AllTyped'
<1>0. now \in Nat /\ next_will_id \in Nat
    BY DEF LifecycleInv
<1>1. CASE OwnerNext
    BY <1>0, <1>1, CreateTyped, OwnerTyped DEF OwnerNext
<1>2. CASE \E ids \in SUBSET DOMAIN wills : SignOfLife(ids)
    BY <1>0, <1>2, OwnerTyped, BatchTyped DEF SignOfLife
<1>3. CASE AnyoneNext
    <2>1. ASSUME NEW id \in DOMAIN wills, NEW keeper, NEW refused,
                 release_inheritance(id, keeper, refused)
          PROVE  AllTyped'
        BY <2>1, ReleaseTyped DEF release_inheritance, AllTyped
    <2>2. ASSUME NEW id \in DOMAIN wills, trigger_will(id)
          PROVE  AllTyped'
        BY <1>0, <2>2, OwnerTyped
    <2> QED  BY <1>3, <2>1, <2>2 DEF AnyoneNext
<1>4. CASE Tick \/ UNCHANGED vars
    BY <1>4 DEF Tick, vars, AllTyped
<1>5. CASE GuardianNext
    <2>1. ASSUME NEW id \in DOMAIN wills, NEW guardian, NEW refused,
                 \/ guardian_trigger(id, guardian, refused)
                 \/ guardian_cancel_trigger(id, guardian)
                 \/ accept_guardian_role(id, guardian)
                 \/ reject_guardian_role(id, guardian)
          PROVE  AllTyped'
        <3>1. ASSUME NEW records, distribute(id, Tallied(id, wills[id], records), NoAccount, refused,
                                             protocol_stats, records)
              PROVE  AllTyped'
            BY <3>1, TalliedTyped, ReleaseTyped DEF AllTyped
        <3> QED  BY <1>0, <2>1, <3>1, GuardianTyped
    <2> QED  BY <1>5, <2>1 DEF GuardianNext
<1>6. CASE AppointNext
    BY <1>0, <1>6, AppointTyped
<1>7. CASE EstateOwnerNext
    <2>1. ASSUME NEW id \in DOMAIN wills, NEW owner, NEW p \in TopUps,
                 top_up(id, owner, p[1], p[2])
          PROVE  AllTyped'
        BY <2>1, TopUpTyped, EstateInputsAssumption
    <2> QED  BY <1>0, <1>7, <2>1, HeirsTyped, HashedTyped DEF EstateOwnerNext
<1>8. CASE EstateHeirNext
    <2>1. ASSUME NEW id \in DOMAIN wills, archive_will(id)
          PROVE  AllTyped'
        BY <2>1 DEF archive_will, Without, AllTyped
    <2>2. ASSUME NEW id, NEW t, NEW recipient, retry_failed_payout(id, t, recipient)
          PROVE  AllTyped'
        BY <2>2 DEF retry_failed_payout, AllTyped
    <2> QED  BY <1>0, <1>8, <2>1, <2>2, HeirsTyped, ClaimTyped DEF EstateHeirNext
<1>9. CASE PortfolioOnlyNext
    <2>1. CASE repair_protocol_stats
        BY <2>1 DEF repair_protocol_stats, AllTyped
    <2> QED  BY <1>0, <1>9, <2>1, CloneTyped, SplitTyped, BatchCreateTyped, MergeTyped
             DEF PortfolioOnlyNext, MultiplyNext, Merging
<1> QED  BY <1>1, <1>2, <1>3, <1>4, <1>5, <1>6, <1>7, <1>8, <1>9
         DEF PortfolioNext, EstateNext, QuorumNext, LifecycleNext

----------------------------------------------------------------------------
(* The rest of the storage *)

TypedTrail == \A id \in DOMAIN history : history[id] \in Transition

\* A call that touches nothing but wills, votes, trail and the triggered index.
Quiet == UNCHANGED <<now, next_will_id, archived_wills, protocol_stats,
                     owner_wills, beneficiary_wills, failed_payout, bank>>

LEMMA TrailRecorded ==
    ASSUME TypedTrail, NEW id, NEW from \in WillStatus, NEW to \in WillStatus,
           record_transition(id, from, to)
    PROVE  TypedTrail'
BY DEF TypedTrail, record_transition, Put, Transition

LEMMA QuietOwner ==
    ASSUME TypedTrail, NEW id, NEW owner, NEW caller,
           \/ confirm_will(id, owner)
           \/ \E delegate \in Delegates : set_delegate(id, owner, delegate)
           \/ \E checkin, grace : update_periods(id, owner, checkin, grace)
           \/ emergency_checkin(id, owner)
           \/ close_will(id, owner)
           \/ check_in(id, caller)
           \/ trigger_will(id)
    PROVE  Quiet /\ TypedTrail'
<1>0. {"PendingConfirmation", "Active", "Triggered", "Released", "Settled"} \subseteq WillStatus
    BY DEF WillStatus
<1>1. ASSUME confirm_will(id, owner)
      PROVE  Quiet /\ record_transition(id, "PendingConfirmation", "Active")
    BY <1>1 DEF confirm_will, OnlyTheWill, Quiet, indexes, money
<1>2. ASSUME NEW delegate, set_delegate(id, owner, delegate)
      PROVE  Quiet /\ UNCHANGED history
    BY <1>2 DEF set_delegate, OnlyTheWill, Quiet, indexes, money
<1>3. ASSUME NEW checkin, NEW grace, update_periods(id, owner, checkin, grace)
      PROVE  Quiet /\ UNCHANGED history
    BY <1>3 DEF update_periods, OnlyTheWill, Quiet, indexes, money
<1>4. ASSUME emergency_checkin(id, owner)
      PROVE  Quiet /\ record_transition(id, "Triggered", "Active")
    BY <1>4 DEF emergency_checkin, Quiet, money
<1>5. ASSUME close_will(id, owner)
      PROVE  Quiet /\ record_transition(id, "Released", "Settled")
    BY <1>5 DEF close_will, OnlyTheWill, Quiet, indexes, money
<1>6. ASSUME check_in(id, caller)
      PROVE  Quiet /\ record_transition(id, "Active", "Active")
    BY <1>6 DEF check_in, OnlyTheWill, Quiet, indexes, money
<1>7. ASSUME trigger_will(id)
      PROVE  Quiet /\ record_transition(id, "Active", "Triggered")
    BY <1>7 DEF trigger_will, Quiet, money
<1>8. UNCHANGED history => TypedTrail'
    BY DEF TypedTrail
<1> QED  BY <1>0, <1>1, <1>2, <1>3, <1>4, <1>5, <1>6, <1>7, <1>8, TrailRecorded

LEMMA QuietBatch ==
    ASSUME TypedTrail, NEW owner, NEW ids, batch_check_in(owner, ids)
    PROVE  Quiet /\ TypedTrail'
<1>1. Quiet
    BY DEF batch_check_in, CheckedIn, OnlyTheWill, Quiet, indexes, money
<1>2. history' = [id \in DOMAIN history \cup ids |->
                    IF id \in ids THEN [from |-> "Active", to |-> "Active"] ELSE history[id]]
    BY DEF batch_check_in, CheckedIn
<1> QED  BY <1>1, <1>2 DEF TypedTrail, Transition, WillStatus

\* A vote, unless it releases the will.
LEMMA QuietGuardian ==
    ASSUME TypedTrail, NEW id, NEW guardian, NEW refused,
           \/ guardian_trigger(id, guardian, refused)
           \/ guardian_cancel_trigger(id, guardian)
           \/ accept_guardian_role(id, guardian)
           \/ reject_guardian_role(id, guardian)
    PROVE  \/ Quiet /\ TypedTrail'
           \/ \E records : /\ distribute(id, Tallied(id, wills[id], records), NoAccount, refused,
                                         protocol_stats, records)
                           /\ TypedTrail'
<1>0. {"PendingConfirmation", "Active", "Triggered", "Released", "Settled"} \subseteq WillStatus
    BY DEF WillStatus
<1>8. UNCHANGED history => TypedTrail'
    BY DEF TypedTrail
<1>1. ASSUME guardian_trigger(id, guardian, refused)
      PROVE  \/ Quiet /\ UNCHANGED history
             \/ \E records : /\ distribute(id, Tallied(id, wills[id], records), NoAccount, refused,
                                           protocol_stats, records)
                             /\ record_transition(id, "Active", "Released")
    <2> DEFINE records == [guardian_vote EXCEPT ![id][guardian] = now]
               w == Tallied(id, wills[id], records)
    <2>1. \/ /\ record_transition(id, "Active", "Released")
             /\ distribute(id, w, NoAccount, refused, protocol_stats, records)
          \/ UNCHANGED history /\ OnlyTheWill
        BY <1>1, Zenon DEF guardian_trigger
    <2> HIDE DEF records
    <2> QED  BY <2>1 DEF OnlyTheWill, Quiet, indexes, money
<1>2. ASSUME guardian_cancel_trigger(id, guardian)
      PROVE  Quiet /\ (UNCHANGED history \/ record_transition(id, "Triggered", "Active"))
    BY <1>2 DEF guardian_cancel_trigger, OnlyTheWill, Quiet, indexes, money
<1>3. ASSUME accept_guardian_role(id, guardian)
      PROVE  Quiet /\ UNCHANGED history
    BY <1>3 DEF accept_guardian_role, OnlyTheWill, Quiet, indexes, money
<1>4. ASSUME reject_guardian_role(id, guardian)
      PROVE  Quiet /\ UNCHANGED history
    BY <1>4 DEF reject_guardian_role, OnlyTheWill, Quiet, indexes, money
<1> QED  BY <1>0, <1>1, <1>2, <1>3, <1>4, <1>8, TrailRecorded

LEMMA QuietAppoint ==
    ASSUME TypedTrail, AppointNext
    PROVE  Quiet /\ TypedTrail'
<1>1. ASSUME NEW id, NEW guardians, NEW threshold, ReplaceGuardians(id, guardians, threshold)
      PROVE  Quiet /\ UNCHANGED history
    BY <1>1 DEF ReplaceGuardians, OnlyTheWill, Quiet, indexes, money
<1>2. \E id, guardians, threshold : ReplaceGuardians(id, guardians, threshold)
    BY DEF AppointNext, update_guardians, update_guardians_weighted
<1> QED  BY <1>1, <1>2 DEF TypedTrail

LEMMA QuietHashed ==
    ASSUME TypedTrail, NEW id, NEW owner, NEW h, add_hashed_beneficiary(id, owner, h)
    PROVE  Quiet /\ TypedTrail'
BY DEF add_hashed_beneficiary, OnlyTheWill, Quiet, indexes, money, TypedTrail

----------------------------------------------------------------------------
(* Counters and indexes *)

CountersTyped == now \in 0..MaxTime /\ next_will_id \in 0..MaxWills

StatsTyped(s) ==
    /\ s = [active_will_count |-> s.active_will_count,
            total_locked_by_token |-> s.total_locked_by_token]
    /\ s.active_will_count \in Nat
    /\ s.total_locked_by_token \in [Tokens -> Int]

\* The calls on statistics and indexes keep them well typed.
LEMMA StatsRetyped ==
    ASSUME NEW s, StatsTyped(s)
    PROVE  /\ StatsTyped(increment_active_will_count(s))
           /\ StatsTyped(decrement_active_will_count(s))
           /\ \A n \in Nat : StatsTyped([s EXCEPT !.active_will_count = @ + n])
           /\ \A b, sign : IsBalances(b) /\ sign \in {1, -1}
                => StatsTyped(adjust_locked_for_balances(s, b, sign))
<1>1. StatsTyped(increment_active_will_count(s))
    BY DEF StatsTyped, increment_active_will_count
<1>2. StatsTyped(decrement_active_will_count(s))
    BY DEF StatsTyped, decrement_active_will_count, SaturatingSub
<1>3. \A n \in Nat : StatsTyped([s EXCEPT !.active_will_count = @ + n])
    BY DEF StatsTyped
<1>4. ASSUME NEW b, NEW sign, IsBalances(b), sign \in {1, -1}
      PROVE  StatsTyped(adjust_locked_for_balances(s, b, sign))
    <2> DEFINE locked == [t \in Tokens |-> s.total_locked_by_token[t] + sign * BalanceOf(b, t)]
    <2>1. \A t : BalanceOf(b, t) \in Int
        BY <1>4 DEF BalanceOf, IsBalances
    <2>2. ASSUME NEW t \in Tokens
          PROVE  s.total_locked_by_token[t] + sign * BalanceOf(b, t) \in Int
        <3>1. s.total_locked_by_token[t] \in Int
            BY DEF StatsTyped
        <3> DEFINE x == BalanceOf(b, t)
        <3>2. x \in Int
            BY <2>1
        <3> HIDE DEF x
        <3>3. sign * x \in Int
            BY <1>4, <3>2
        <3> QED  BY <3>1, <3>3 DEF x
    <2>3. locked \in [Tokens -> Int]
        BY <2>2
    <2> HIDE DEF locked
    <2>4. [s EXCEPT !.total_locked_by_token = locked]
            = [active_will_count |-> s.active_will_count, total_locked_by_token |-> locked]
        BY DEF StatsTyped
    <2>5. adjust_locked_for_balances(s, b, sign) = [s EXCEPT !.total_locked_by_token = locked]
        BY DEF adjust_locked_for_balances, locked
    <2> QED  BY <2>3, <2>4, <2>5 DEF StatsTyped
<1> QED  BY <1>1, <1>2, <1>3, <1>4

Index == [Accounts -> SUBSET WillIds]

LEMMA IndexRetyped ==
    ASSUME NEW index, index \in Index, NEW A
    PROVE  /\ \A id : Unindexed(index, A, id) \in Index
           /\ \A id \in WillIds : Indexed(index, A, id) \in Index
BY DEF Index, Unindexed, Indexed

\* Counters, statistics, indexes and trail hold what they are declared to hold.
Filed ==
    /\ CountersTyped
    /\ StatsTyped(protocol_stats)
    /\ owner_wills \in Index
    /\ beneficiary_wills \in Index
    /\ TypedTrail

LEMMA QuietFiled ==
    ASSUME Filed, Quiet, TypedTrail'
    PROVE  Filed'
BY DEF Filed, Quiet, CountersTyped

LEMMA StoredIds ==
    ASSUME LifecycleInv, CountersTyped, NEW id \in DOMAIN wills
    PROVE  id \in WillIds
<1>1. next_will_id \in Nat /\ next_will_id <= MaxWills /\ MaxWills \in Nat
    BY BoundsAssumption DEF CountersTyped
<1>2. id \in 1..next_will_id
    BY DEF LifecycleInv
<1> QED  BY <1>1, <1>2 DEF WillIds

LEMMA CreateFiled ==
    ASSUME Filed, LifecycleInv, NEW owner \in Accounts, NEW form \in CreateForms, create_will(owner, form)
    PROVE  Filed'
<1> DEFINE w == NewWill(owner, form)
<1>0. next_will_id + 1 \in WillIds /\ next_will_id + 1 \in 0..MaxWills
    BY BoundsAssumption DEF create_will, Filed, CountersTyped, WillIds
<1>1. ValidForm(owner, form) /\ form \in SetOfForms /\ now \in Nat
    BY InputsAssumption DEF create_will, LifecycleInv
<1>2. TypedWill(w)
    BY <1>1, NewWillTyped
<1>3. IsBalances(w.balances) /\ w.status \in WillStatus
    BY <1>2, Opened DEF TypedFields
<1> HIDE DEF w
<1>4. /\ UNCHANGED now /\ next_will_id' = next_will_id + 1
      /\ beneficiary_wills' = Indexed(beneficiary_wills, Addresses(form.beneficiaries), next_will_id + 1)
      /\ owner_wills' = Indexed(owner_wills, {owner}, next_will_id + 1)
      /\ protocol_stats' = adjust_locked_for_balances(
                                increment_active_will_count(protocol_stats), w.balances, 1)
      /\ record_transition(next_will_id + 1, w.status, w.status)
    BY DEF create_will, w
<1>5. StatsTyped(protocol_stats')
    BY <1>3, <1>4, StatsRetyped DEF Filed
<1>6. owner_wills' \in Index /\ beneficiary_wills' \in Index
    BY <1>0, <1>4, IndexRetyped DEF Filed
<1>7. TypedTrail'
    BY <1>3, <1>4, TrailRecorded DEF Filed
<1> QED  BY <1>0, <1>4, <1>5, <1>6, <1>7 DEF Filed, CountersTyped

LEMMA ReleaseFiled ==
    ASSUME Filed, TypedTrail', NEW id, NEW w, TypedWill(w), NEW keeper, NEW refused, NEW stats,
           StatsTyped(stats), NEW records, distribute(id, w, keeper, refused, stats, records)
    PROVE  Filed'
<1>1. IsBalances(w.balances)
    BY Opened DEF TypedFields
<1>2. /\ UNCHANGED <<now, next_will_id>>
      /\ protocol_stats' = adjust_locked_for_balances(
                                decrement_active_will_count(stats), w.balances, -1)
      /\ owner_wills' = Unindexed(owner_wills, {w.owner}, id)
      /\ beneficiary_wills' = Unindexed(beneficiary_wills, Addresses(w.beneficiaries), id)
    BY DEF distribute
<1>3. StatsTyped(protocol_stats')
    BY <1>1, <1>2, StatsRetyped
<1>4. owner_wills' \in Index /\ beneficiary_wills' \in Index
    BY <1>2, IndexRetyped DEF Filed
<1> QED  BY <1>2, <1>3, <1>4 DEF Filed, CountersTyped

LEMMA CancelFiled ==
    ASSUME Filed, AllTyped, NEW id \in DOMAIN wills, NEW owner, cancel_will(id, owner)
    PROVE  Filed'
<1> DEFINE w == wills[id]
<1>1. IsBalances(w.balances) /\ w.status \in WillStatus
    BY Opened DEF TypedFields, AllTyped
<1>2. /\ UNCHANGED <<now, next_will_id>>
      /\ protocol_stats' = adjust_locked_for_balances(
                                adjust_locked_for_balances(
                                    decrement_active_will_count(protocol_stats),
                                    w.balances, -1),
                                w.balances, -1)
      /\ owner_wills' = Unindexed(owner_wills, {owner}, id)
      /\ beneficiary_wills' = Unindexed(beneficiary_wills, Addresses(w.beneficiaries), id)
      /\ record_transition(id, w.status, "Cancelled")
    BY DEF cancel_will
<1> HIDE DEF w
<1>3. StatsTyped(protocol_stats')
    BY <1>1, <1>2, StatsRetyped DEF Filed
<1>4. owner_wills' \in Index /\ beneficiary_wills' \in Index
    BY <1>2, IndexRetyped DEF Filed
<1>5. TypedTrail'
    BY <1>1, <1>2, TrailRecorded DEF Filed, WillStatus
<1> QED  BY <1>2, <1>3, <1>4, <1>5 DEF Filed, CountersTyped

LEMMA TopUpFiled ==
    ASSUME Filed, NEW id, NEW owner, NEW t \in Tokens, NEW amount \in Nat, top_up(id, owner, t, amount)
    PROVE  Filed'
<1>1. IsBalances([x \in {t} |-> amount])
    BY DEF IsBalances
<1>2. /\ UNCHANGED <<now, next_will_id, owner_wills, beneficiary_wills, history>>
      /\ protocol_stats' = adjust_locked_for_balances(protocol_stats, [x \in {t} |-> amount], 1)
    BY DEF top_up, indexes
<1>3. StatsTyped(protocol_stats')
    BY <1>1, <1>2, StatsRetyped DEF Filed
<1> QED  BY <1>2, <1>3 DEF Filed, CountersTyped, TypedTrail

LEMMA HeirsFiled ==
    ASSUME Filed, LifecycleInv, NEW id \in DOMAIN wills, NEW owner, NEW heir,
           \/ \E list \in BeneficiaryLists : update_beneficiaries(id, owner, list)
           \/ \E s \in Settings : update_will_settings(id, owner, s)
           \/ renounce_beneficiary(id, heir)
    PROVE  Filed'
<1>0. id \in WillIds
    BY StoredIds DEF Filed
<1>1. UNCHANGED <<now, next_will_id, protocol_stats, owner_wills, history>>
    BY DEF update_beneficiaries, update_will_settings, renounce_beneficiary, money
<1>2. \/ \E old, new : beneficiary_wills' = Reindexed(id, old, new)
      \/ beneficiary_wills' = Unindexed(beneficiary_wills, {heir}, id)
    BY DEF update_beneficiaries, update_will_settings, renounce_beneficiary
<1>3. beneficiary_wills' \in Index
    BY <1>0, <1>2, IndexRetyped DEF Filed, Reindexed
<1> QED  BY <1>1, <1>3 DEF Filed, CountersTyped, TypedTrail

LEMMA ClaimFiled ==
    ASSUME Filed, AllTyped, PaidInv, NEW id \in DOMAIN wills, NEW claimant, NEW salt,
           reveal_and_claim(id, claimant, salt)
    PROVE  Filed'
<1> DEFINE w == wills[id]
           n == unclaimed_hashed_bps(w.hashed_beneficiaries)
<1>1. PICK i \in DOMAIN w.hashed_beneficiaries :
        /\ ~w.hashed_beneficiaries[i].claimed
        /\ protocol_stats' = adjust_locked_for_balances(protocol_stats,
                [t \in DOMAIN w.balances |->
                    (w.balances[t] * w.hashed_beneficiaries[i].percentage) \div n], -1)
    BY DEF reveal_and_claim
<1> DEFINE p == w.hashed_beneficiaries[i].percentage
           shares == [t \in DOMAIN w.balances |-> (w.balances[t] * p) \div n]
<1>2. /\ IsBalances(w.balances) /\ w.hashed_beneficiaries \in Seq(HashedBeneficiary)
      /\ w.hashed_beneficiaries \in Seq(Commitment)
    BY Opened DEF AllTyped, TypedFields, PaidInv, PaidOut
<1>3. p \in Nat /\ n \in Nat \ {0} /\ p <= n
    BY <1>1, <1>2, ClaimTerms
<1>4. IsBalances(shares)
    <2> HIDE DEF n, p
    <2>1. ASSUME NEW t \in DOMAIN w.balances
          PROVE  (w.balances[t] * p) \div n \in Nat
        <3>1. w.balances[t] \in Nat
            BY <1>2 DEF IsBalances
        <3>2. (w.balances[t] * p) \div n \in 0..w.balances[t]
            BY <1>3, <3>1, PartShare
        <3> DEFINE x == (w.balances[t] * p) \div n
        <3> HIDE DEF x
        <3> QED  BY <3>1, <3>2 DEF x
    <2> QED  BY <1>2, <2>1 DEF IsBalances
<1>5. UNCHANGED <<now, next_will_id, owner_wills, beneficiary_wills, history>>
    BY DEF reveal_and_claim, indexes
<1>6. protocol_stats' = adjust_locked_for_balances(protocol_stats, shares, -1)
    BY <1>1
<1> HIDE DEF shares
<1>7. StatsTyped(protocol_stats')
    BY <1>4, <1>6, StatsRetyped DEF Filed
<1> QED  BY <1>5, <1>7 DEF Filed, CountersTyped, TypedTrail

LEMMA ArchiveFiled ==
    ASSUME Filed, NEW id \in DOMAIN wills, archive_will(id)
    PROVE  Filed'
<1>1. /\ UNCHANGED <<now, next_will_id, protocol_stats>>
      /\ owner_wills' = Unindexed(owner_wills, {wills[id].owner}, id)
      /\ beneficiary_wills' =
            Unindexed(beneficiary_wills, Addresses(wills[id].beneficiaries), id)
      /\ history' = Without(history, {id})
    BY DEF archive_will
<1>2. owner_wills' \in Index /\ beneficiary_wills' \in Index
    BY <1>1, IndexRetyped DEF Filed
<1>3. TypedTrail'
    BY <1>1 DEF Filed, TypedTrail, Without
<1> QED  BY <1>1, <1>2, <1>3 DEF Filed, CountersTyped

LEMMA CloneFiled ==
    ASSUME Filed, NEW source \in DOMAIN wills, NEW owner \in Accounts,
           NEW tokens \in ClonePurses, clone_will(source, owner, tokens)
    PROVE  Filed'
<1>0. next_will_id + 1 \in WillIds /\ next_will_id + 1 \in 0..MaxWills
    BY DEF clone_will, WillIds
<1>1. IsBalances(BalancesOf(tokens))
    BY PurseFunds, PortfolioInputsAssumption
<1>2. /\ UNCHANGED now /\ next_will_id' = next_will_id + 1
      /\ \E heirs : beneficiary_wills' = Indexed(beneficiary_wills, heirs, next_will_id + 1)
      /\ owner_wills' = Indexed(owner_wills, {owner}, next_will_id + 1)
      /\ protocol_stats' = adjust_locked_for_balances(
                                increment_active_will_count(protocol_stats), BalancesOf(tokens), 1)
      /\ record_transition(next_will_id + 1, "Active", "Active")
    BY DEF clone_will
<1>3. StatsTyped(protocol_stats')
    BY <1>1, <1>2, StatsRetyped DEF Filed
<1>4. owner_wills' \in Index /\ beneficiary_wills' \in Index
    BY <1>0, <1>2, IndexRetyped DEF Filed
<1>5. TypedTrail'
    BY <1>2, TrailRecorded DEF Filed, WillStatus
<1> QED  BY <1>0, <1>2, <1>3, <1>4, <1>5 DEF Filed, CountersTyped

LEMMA SplitFiled ==
    ASSUME Filed, NEW id \in DOMAIN wills, NEW owner, NEW split, split_will(id, owner, split)
    PROVE  Filed'
<1>0. next_will_id + 1 \in WillIds /\ next_will_id + 1 \in 0..MaxWills
    BY DEF split_will, WillIds
<1>2. /\ UNCHANGED now /\ next_will_id' = next_will_id + 1
      /\ \E named : beneficiary_wills' = Indexed(Unindexed(beneficiary_wills, named, id), named,
                                                 next_will_id + 1)
      /\ owner_wills' = Indexed(owner_wills, {owner}, next_will_id + 1)
      /\ protocol_stats' = increment_active_will_count(increment_active_will_count(protocol_stats))
      /\ record_transition(next_will_id + 1, "Active", "Active")
    BY DEF split_will
<1>3. StatsTyped(protocol_stats')
    BY <1>2, StatsRetyped DEF Filed
<1>4. owner_wills' \in Index /\ beneficiary_wills' \in Index
    BY <1>0, <1>2, IndexRetyped DEF Filed
<1>5. TypedTrail'
    BY <1>2, TrailRecorded DEF Filed, WillStatus
<1> QED  BY <1>0, <1>2, <1>3, <1>4, <1>5 DEF Filed, CountersTyped

LEMMA MergeFiled ==
    ASSUME Filed, LifecycleInv, NEW owner, NEW a \in DOMAIN wills, NEW b \in DOMAIN wills,
           merge_wills(owner, a, b)
    PROVE  Filed'
<1>0. a \in WillIds
    BY StoredIds DEF Filed
<1>2. /\ UNCHANGED <<now, next_will_id>>
      /\ \E gone, heirs : beneficiary_wills' = Indexed(Unindexed(beneficiary_wills, gone, b), heirs, a)
      /\ owner_wills' = Unindexed(owner_wills, {owner}, b)
      /\ protocol_stats' = decrement_active_will_count(protocol_stats)
      /\ history' = Put(Put(history, b, [from |-> "Active", to |-> "Cancelled"]),
                          a, [from |-> "Active", to |-> "Active"])
    BY DEF merge_wills
<1>3. StatsTyped(protocol_stats')
    BY <1>2, StatsRetyped DEF Filed
<1>4. owner_wills' \in Index /\ beneficiary_wills' \in Index
    BY <1>0, <1>2, IndexRetyped DEF Filed
<1>5. TypedTrail'
    BY <1>2 DEF Filed, TypedTrail, Put, Transition, WillStatus
<1> QED  BY <1>2, <1>3, <1>4, <1>5 DEF Filed, CountersTyped

LEMMA HeldNatural ==
    ASSUME LifecycleInv, AllTyped, NEW ids, ids \subseteq DOMAIN wills, NEW t
    PROVE  /\ IsFiniteSet(ids) /\ HeldBy(ids, t) \in Nat
           /\ \A id \in ids : BalanceOf(wills[id].balances, t) \in Nat
<1> DEFINE f == [id \in ids |-> BalanceOf(wills[id].balances, t)]
<1>1. IsFiniteSet(1..next_will_id)
    BY FS_Interval DEF LifecycleInv
<1>2. ids \subseteq 1..next_will_id
    BY DEF LifecycleInv
<1>3. IsFiniteSet(ids)
    BY <1>1, <1>2, FS_Subset
<1>4. ASSUME NEW id \in ids
      PROVE  BalanceOf(wills[id].balances, t) \in Nat
    <2>1. IsBalances(wills[id].balances)
        BY Opened DEF AllTyped, TypedFields
    <2> QED  BY <2>1 DEF IsBalances, BalanceOf
<1>5. \A id \in ids : f[id] \in Nat
    BY <1>4
<1>6. HeldBy(ids, t) = SumFunctionOnSet(f, ids)
    BY DEF HeldBy, SumFunction
<1> HIDE DEF f
<1>7. SumFunctionOnSet(f, ids) \in Nat
    BY <1>3, <1>5, SumNatural
<1> QED  BY <1>3, <1>4, <1>6, <1>7

LEMMA BatchFiled ==
    ASSUME Filed, LifecycleInv, NEW owner \in Accounts, NEW forms \in Batches,
           batch_create_wills(owner, forms)
    PROVE  Filed'
<1> DEFINE ids == NewIds(forms)
           total == FreshFunds(owner, forms)
           Naming(a) == {id \in ids : a \in Addresses(Fresh(owner, forms)[id].beneficiaries)}
<1>0. now \in Nat /\ next_will_id \in Nat
    BY DEF LifecycleInv
<1>1. Len(forms) \in Nat /\ \A t \in Tokens : total[t] \in Nat
    BY <1>0, FreshTyped
<1>2. /\ UNCHANGED now /\ next_will_id' = next_will_id + Len(forms)
      /\ ids \subseteq WillIds
      /\ owner_wills' = [owner_wills EXCEPT ![owner] = @ \cup ids]
      /\ beneficiary_wills' = [a \in Accounts |-> beneficiary_wills[a] \cup Naming(a)]
      /\ protocol_stats' = adjust_locked_for_balances(
                                [protocol_stats EXCEPT !.active_will_count = @ + Len(forms)],
                                total, 1)
      /\ history' = [id \in DOMAIN history \cup ids |->
                        IF id \in ids THEN [from |-> "Active", to |-> "Active"]
                                      ELSE history[id]]
      /\ Len(forms) \in 1..BATCH_MAX
    BY DEF batch_create_wills, NewIds, Fresh, FreshFunds
<1>3. IsBalances(total)
    <2>1. total = [t \in Tokens |-> total[t]]
        BY DEF FreshFunds
    <2> HIDE DEF total
    <2> QED  BY <1>1, <2>1 DEF IsBalances
<1>4. StatsTyped(protocol_stats')
    <2> HIDE DEF total
    <2>1. StatsTyped([protocol_stats EXCEPT !.active_will_count = @ + Len(forms)])
        BY <1>1, StatsRetyped DEF Filed
    <2> QED  BY <1>2, <1>3, <2>1, StatsRetyped
<1>5. owner_wills' \in Index /\ beneficiary_wills' \in Index
    <2>1. \A a : Naming(a) \subseteq WillIds
        BY <1>2
    <2> HIDE DEF Naming, ids
    <2> QED  BY <1>2, <2>1 DEF Filed, Index
<1>6. TypedTrail'
    BY <1>2 DEF Filed, TypedTrail, Transition, WillStatus
<1>7. next_will_id' \in 0..MaxWills
    <2>1. next_will_id + Len(forms) \in ids
        BY <1>0, <1>1, <1>2 DEF NewIds
    <2> QED  BY <1>2, <2>1 DEF WillIds
<1> QED  BY <1>2, <1>4, <1>5, <1>6, <1>7 DEF Filed, CountersTyped

LEMMA RepairFiled ==
    ASSUME Filed, LifecycleInv, AllTyped, repair_protocol_stats
    PROVE  Filed'
<1>1. /\ protocol_stats' = recompute_protocol_stats
      /\ UNCHANGED <<now, next_will_id, owner_wills, beneficiary_wills, history>>
    BY DEF repair_protocol_stats, indexes
<1>2. Cardinality(LiveWills) \in Nat
    BY FewLiveWills
<1>3. \A t \in Tokens : HeldBy(LiveWills, t) \in Int
    <2>1. LiveWills \subseteq DOMAIN wills
        BY DEF LiveWills
    <2> QED  BY <2>1, HeldNatural
<1>4. StatsTyped(protocol_stats')
    BY <1>1, <1>2, <1>3 DEF StatsTyped, recompute_protocol_stats
<1> QED  BY <1>1, <1>4 DEF Filed, CountersTyped, TypedTrail

\* Every entry point leaves the books of the storage well typed.
LEMMA StepFiled ==
    ASSUME Filed, AllTyped, PaidInv, LifecycleInv, [PortfolioNext]_vars
    PROVE  Filed'
<1>0. TypedTrail /\ StatsTyped(protocol_stats)
    BY DEF Filed
<1>1. CASE OwnerNext
    <2>1. ASSUME NEW id, NEW owner,
                 \/ confirm_will(id, owner)
                 \/ \E delegate \in Delegates : set_delegate(id, owner, delegate)
                 \/ \E p \in PeriodUpdates : update_periods(id, owner, p[1], p[2])
                 \/ emergency_checkin(id, owner)
                 \/ close_will(id, owner)
          PROVE  Filed'
        BY <1>0, <2>1, QuietOwner, QuietFiled
    <2> QED  BY <1>1, <2>1, CreateFiled, CancelFiled DEF OwnerNext
<1>2. CASE \E ids \in SUBSET DOMAIN wills : SignOfLife(ids)
    BY <1>0, <1>2, QuietOwner, QuietBatch, QuietFiled DEF SignOfLife
<1>3. CASE AnyoneNext
    <2>1. ASSUME NEW id \in DOMAIN wills, NEW keeper, NEW refused,
                 release_inheritance(id, keeper, refused)
          PROVE  Filed'
        <3>1. TypedWill(wills[id])
            BY DEF AllTyped
        <3>2. /\ record_transition(id, "Triggered", "Released")
              /\ distribute(id, wills[id], keeper, refused,
                    adjust_locked_for_balances(protocol_stats, wills[id].balances, -1), guardian_vote)
            BY <2>1 DEF release_inheritance
        <3>3. TypedTrail'
            BY <1>0, <3>2, TrailRecorded DEF WillStatus
        <3>4. IsBalances(wills[id].balances)
            BY <3>1, Opened DEF TypedFields
        <3>5. StatsTyped(adjust_locked_for_balances(protocol_stats, wills[id].balances, -1))
            BY <1>0, <3>4, StatsRetyped
        <3> QED  BY <3>1, <3>2, <3>3, <3>5, ReleaseFiled
    <2>2. ASSUME NEW id, trigger_will(id)
          PROVE  Filed'
        BY <1>0, <2>2, QuietOwner, QuietFiled
    <2> QED  BY <1>3, <2>1, <2>2 DEF AnyoneNext
<1>4. CASE Tick \/ UNCHANGED vars
    BY <1>4, BoundsAssumption DEF Tick, vars, indexes, Filed, CountersTyped, TypedTrail
<1>5. CASE GuardianNext
    <2>1. ASSUME NEW id \in DOMAIN wills, NEW guardian, NEW refused,
                 \/ guardian_trigger(id, guardian, refused)
                 \/ guardian_cancel_trigger(id, guardian)
                 \/ accept_guardian_role(id, guardian)
                 \/ reject_guardian_role(id, guardian)
          PROVE  Filed'
        <3>1. ASSUME NEW records, TypedTrail',
                     distribute(id, Tallied(id, wills[id], records), NoAccount, refused,
                                protocol_stats, records)
              PROVE  Filed'
            BY <1>0, <3>1, TalliedTyped, ReleaseFiled DEF AllTyped
        <3> QED  BY <1>0, <2>1, <3>1, QuietGuardian, QuietFiled
    <2> QED  BY <1>5, <2>1 DEF GuardianNext
<1>6. CASE AppointNext
    BY <1>0, <1>6, QuietAppoint, QuietFiled
<1>7. CASE EstateOwnerNext
    <2>1. ASSUME NEW id \in DOMAIN wills, NEW owner, NEW p \in TopUps,
                 top_up(id, owner, p[1], p[2])
          PROVE  Filed'
        BY <2>1, TopUpFiled, EstateInputsAssumption
    <2>2. ASSUME NEW id, NEW owner, NEW h, add_hashed_beneficiary(id, owner, h)
          PROVE  Filed'
        BY <1>0, <2>2, QuietHashed, QuietFiled
    <2> QED  BY <1>7, <2>1, <2>2, HeirsFiled DEF EstateOwnerNext
<1>8. CASE EstateHeirNext
    <2>1. ASSUME NEW id, NEW t, NEW recipient, retry_failed_payout(id, t, recipient)
          PROVE  Filed'
        BY <2>1 DEF retry_failed_payout, indexes, Filed, CountersTyped, TypedTrail
    <2> QED  BY <1>8, <2>1, HeirsFiled, ClaimFiled, ArchiveFiled DEF EstateHeirNext
<1>9. CASE PortfolioOnlyNext
    BY <1>9, RepairFiled, CloneFiled, SplitFiled, BatchFiled, MergeFiled
       DEF PortfolioOnlyNext, MultiplyNext, Merging
<1> QED  BY <1>1, <1>2, <1>3, <1>4, <1>5, <1>6, <1>7, <1>8, <1>9
         DEF PortfolioNext, EstateNext, QuorumNext, LifecycleNext
=============================================================================
