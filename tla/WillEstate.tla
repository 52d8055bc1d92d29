----------------------------- MODULE WillEstate ----------------------------
(***************************************************************************)
(* What may change about a will during and after its life: more funds, new *)
(* or fewer beneficiaries, hashed beneficiaries who stay unknown until     *)
(* they claim, settings changed together, parked payouts retried, and the  *)
(* archive for what is over.                                               *)
(***************************************************************************)
EXTENDS GuardianQuorum

CONSTANTS
    None,               \* Option::None in update_will_settings
    TopUps,             \* <<token, amount>> pairs
    BeneficiaryLists,   \* lists for update_beneficiaries
    Settings,           \* arguments of update_will_settings
    HashedShares        \* commitments for add_hashed_beneficiary

SetOfSettings == [beneficiaries : Seq(Beneficiary) \cup {None},
                  guardians     : Seq(Accounts) \cup {None},
                  checkin       : OptionalTime,
                  grace         : OptionalTime]

ASSUME EstateInputsAssumption ==
    /\ TopUps \subseteq Tokens \X Nat
    /\ BeneficiaryLists \subseteq Seq(Beneficiary)
    /\ Settings \subseteq SetOfSettings
    /\ HashedShares \subseteq [claimant : Accounts, salt : Nat, percentage : Nat]

----------------------------------------------------------------------------
(* Funds and beneficiaries *)

top_up(id, owner, t, amount) ==
    /\ OwnedBy(id, owner)
    /\ HasStatus(id, "Active")
    /\ amount > 0
    /\ t \in DOMAIN wills[id].balances \/ Cardinality(DOMAIN wills[id].balances) < MAX_TOKENS
    /\ bank[t][owner] >= amount
    /\ LET balances == Put(wills[id].balances, t, BalanceOf(wills[id].balances, t) + amount)
       IN  save_will(id, sync_primary_balance([wills[id] EXCEPT !.balances = balances]))
    /\ protocol_stats' = adjust_locked_for_balances(protocol_stats, [x \in {t} |-> amount], 1)
    /\ bank' = Transferred(bank, t, owner, Contract, amount)
    /\ UNCHANGED <<now, next_will_id, archived_wills, indexes, history, failed_payout>>

\* Faulty: bequests are only compared with all tokens together.
ValidReplacement_by_total(w, list) ==
    /\ assert_beneficiary_count(list)
    /\ assert_valid_allocations(list, total_balance(w.balances))

\* Both checks of the source: against everything held, and against what is
\* held of the primary token.
ValidReplacement(w, list) ==
    /\ assert_beneficiary_count(list)
    /\ assert_valid_allocations(list, total_balance(w.balances))
    /\ assert_valid_allocations(list, BalanceOf(w.balances, w.token))

\* Faulty: who is no longer named stays listed.
Reindexed_additions(id, old, new) == Indexed(beneficiary_wills, Addresses(new) \ Addresses(old), id)

\* Addresses only in the old list leave the index, those only in the new one
\* enter it.
Reindexed(id, old, new) ==
    Indexed(Unindexed(beneficiary_wills, Addresses(old) \ Addresses(new), id),
            Addresses(new) \ Addresses(old), id)

update_beneficiaries(id, owner, list) ==
    /\ OwnedBy(id, owner)
    /\ HasStatus(id, "Active")
    /\ ValidReplacement(wills[id], list)
    /\ CanIndex(beneficiary_wills, Addresses(list) \ Addresses(wills[id].beneficiaries), id)
    /\ beneficiary_wills' = Reindexed(id, wills[id].beneficiaries, list)
    /\ save_will(id, [wills[id] EXCEPT !.beneficiaries = list])
    /\ UNCHANGED <<now, next_will_id, archived_wills, protocol_stats, owner_wills,
                   triggered_wills, history, money>>

\* Also while the will is Triggered.  The last beneficiary cannot leave.
renounce_beneficiary(id, beneficiary) ==
    /\ Stored(id)
    /\ wills[id].status \in {"Active", "Triggered"}
    /\ beneficiary \in Addresses(wills[id].beneficiaries)
    /\ Len(wills[id].beneficiaries) > 1
    /\ LET list == RenouncedList(wills[id].beneficiaries, beneficiary)
       IN  /\ assert_valid_allocations(list, BalanceOf(wills[id].balances, wills[id].token))
           /\ save_will(id, [wills[id] EXCEPT !.beneficiaries = list])
    /\ beneficiary_wills' = Unindexed(beneficiary_wills, {beneficiary}, id)
    /\ UNCHANGED <<now, next_will_id, archived_wills, protocol_stats, owner_wills,
                   triggered_wills, history, money>>

----------------------------------------------------------------------------
(* update_will_settings: any combination of the single updates, or none *)

update_will_settings(id, owner, s) ==
    LET w    == wills[id]
        list == IF s.beneficiaries = None THEN w.beneficiaries ELSE s.beneficiaries
        w1   == WithPeriods([w EXCEPT !.beneficiaries = list], s.checkin, s.grace)
        w2   == IF s.guardians = None THEN w1
                ELSE WithGuardians(w1, UnweightedGuardians(s.guardians), w.guardian_threshold)
    IN  /\ OwnedBy(id, owner)
        /\ HasStatus(id, "Active")
        /\ s.beneficiaries # None =>
             /\ ValidReplacement(w, list)
             /\ CanIndex(beneficiary_wills, Addresses(list) \ Addresses(w.beneficiaries), id)
        /\ s.guardians # None =>
             /\ assert_valid_guardians(owner, s.guardians)
             /\ assert_no_guardian_cancel_in_flight(w)
             /\ s.guardians # << >> => w.guardian_threshold <= Len(s.guardians)
        /\ {s.checkin, s.grace} \subseteq (1..MAX_PERIOD_DAYS) \cup {NoTime}
        /\ beneficiary_wills' = Reindexed(id, w.beneficiaries, list)
        /\ IF s.guardians = None
           THEN save_will(id, w2)
           ELSE SaveWithVotes(id, w2, reset_guardian_votes(guardian_vote, id, w),
                              reset_guardian_cancel_votes(guardian_cancel_vote, id, w))
        /\ UNCHANGED <<now, next_will_id, archived_wills, protocol_stats, owner_wills,
                       triggered_wills, history, money>>

----------------------------------------------------------------------------
(* Hashed beneficiaries *)

add_hashed_beneficiary(id, owner, h) ==
    LET hashed == Append(wills[id].hashed_beneficiaries,
                         [claimant |-> h.claimant, salt |-> h.salt,
                          percentage |-> h.percentage, claimed |-> FALSE])
    IN  /\ OwnedBy(id, owner)
        /\ HasStatus(id, "Active")
        /\ assert_valid_hashed_beneficiary(wills[id].hashed_beneficiaries,
                                           h.claimant, h.salt, h.percentage)
        /\ assert_valid_percentages(wills[id].beneficiaries, hashed)
        /\ save_will(id, [wills[id] EXCEPT !.hashed_beneficiaries = hashed])
        /\ UNCHANGED history
        /\ OnlyTheWill

\* The claimed share is the claim's part of all unclaimed basis points.  A
\* salt of zeros is refused.
reveal_and_claim(id, claimant, salt) ==
    /\ HasStatus(id, "Released")
    /\ grace_elapsed(now, grace_deadline(wills[id]))
    /\ salt # 0
    /\ \E i \in DOMAIN wills[id].hashed_beneficiaries :
        LET w      == wills[id]
            h      == w.hashed_beneficiaries[i]
            shares == [t \in DOMAIN w.balances |->
                        (w.balances[t] * h.percentage)
                            \div unclaimed_hashed_bps(w.hashed_beneficiaries)]
            left   == [t \in DOMAIN w.balances |-> w.balances[t] - shares[t]]
        IN  /\ <<h.claimant, h.salt>> = <<claimant, salt>>
            /\ ~h.claimed
            /\ CanPay(bank, Contract, shares)
            /\ protocol_stats' = adjust_locked_for_balances(protocol_stats, shares, -1)
            /\ bank' = TransferredAll(bank, Contract, claimant, shares)
            /\ save_will(id, [w EXCEPT !.balances = left,
                                       !.balance = BalanceOf(left, w.token),
                                       !.hashed_beneficiaries[i].claimed = TRUE])
    /\ UNCHANGED <<now, next_will_id, archived_wills, indexes, history, failed_payout>>

----------------------------------------------------------------------------
(* After the end *)

retry_failed_payout(id, t, recipient) ==
    LET key == <<id, t, recipient>> IN
    /\ key \in DOMAIN failed_payout
    /\ bank[t][Contract] >= failed_payout[key]
    /\ bank' = Transferred(bank, t, Contract, recipient, failed_payout[key])
    /\ failed_payout' = Without(failed_payout, {key})
    /\ UNCHANGED <<now, next_will_id, wills, archived_wills, protocol_stats,
                   indexes, votes, history>>

\* The record moves to the archive; everything derived from it goes.
archive_will(id) ==
    /\ Stored(id)
    /\ wills[id].status \in {"Released", "Cancelled"}
    /\ archived_wills' = Put(archived_wills, id, wills[id])
    /\ wills' = Without(wills, {id})
    /\ owner_wills' = Unindexed(owner_wills, {wills[id].owner}, id)
    /\ beneficiary_wills' =
            Unindexed(beneficiary_wills, Addresses(wills[id].beneficiaries), id)
    /\ guardian_vote' = ClearedVotes(guardian_vote, id, DOMAIN wills[id].guardians)
    /\ guardian_cancel_vote' =
            ClearedVotes(guardian_cancel_vote, id, DOMAIN wills[id].guardians)
    /\ history' = Without(history, {id})
    /\ UNCHANGED <<now, next_will_id, protocol_stats, triggered_wills, money>>

----------------------------------------------------------------------------
EstateOwnerNext ==
    \E id \in DOMAIN wills, owner \in Accounts :
        \/ \E p \in TopUps : top_up(id, owner, p[1], p[2])
        \/ \E list \in BeneficiaryLists : update_beneficiaries(id, owner, list)
        \/ \E s \in Settings : update_will_settings(id, owner, s)
        \/ \E h \in HashedShares : add_hashed_beneficiary(id, owner, h)

EstateHeirNext ==
    \/ \E id \in DOMAIN wills :
        \/ \E heir \in Accounts : renounce_beneficiary(id, heir)
        \/ \E h \in HashedShares : reveal_and_claim(id, h.claimant, h.salt)
        \/ archive_will(id)
    \/ \E key \in DOMAIN failed_payout : retry_failed_payout(key[1], key[2], key[3])

EstateNext == QuorumNext \/ EstateOwnerNext \/ EstateHeirNext

EstateSpec == LifecycleInit /\ [][EstateNext]_vars
=============================================================================
