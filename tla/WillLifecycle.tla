--------------------------- MODULE WillLifecycle ---------------------------
(***************************************************************************)
(* The dead man's switch: an owner funds a will and proves life by checking*)
(* in; when a check-in is missed anybody may trigger the will, the owner   *)
(* may still take it back during the grace period, and afterwards anybody  *)
(* may release it to the beneficiaries.  One action per entry point of     *)
(* lib.rs; each stands for the whole call, storage helpers included.       *)
(***************************************************************************)
EXTENDS WillStorage

CONSTANTS
    Purse,          \* bound: what each account starts with of every token
    CreateForms,    \* arguments create_will is called with, the owner apart
    PeriodUpdates,  \* <<checkin, grace>> pairs for update_periods, NoTime = None
    Delegates,      \* values set_delegate is called with
    Refusals        \* sets of <<token, account>> whose transfers a token may refuse

SetOfForms == [tokens        : Seq(Tokens \X Nat),
               beneficiaries : Seq(Beneficiary),
               checkin       : Nat,
               grace         : Nat,
               guardians     : Seq(Accounts),
               threshold     : Nat,
               bounty        : Nat,
               delay         : Nat]

ASSUME InputsAssumption ==
    /\ Purse \in [Accounts -> Nat]
    /\ CreateForms \subseteq SetOfForms
    /\ PeriodUpdates \subseteq OptionalTime \X OptionalTime
    /\ Delegates \subseteq Accounts \cup {NoAccount}
    /\ Refusals \subseteq SUBSET (Tokens \X Accounts)

Caller == Accounts \cup {NoAccount}
\* What a list of <<token, amount>> pairs adds up to, token by token.
BalancesOf(tokens) ==
    [t \in {tokens[i][1] : i \in DOMAIN tokens} |->
        SumFunctionOnSet([i \in DOMAIN tokens |-> tokens[i][2]],
                         {i \in DOMAIN tokens : tokens[i][1] = t})]

----------------------------------------------------------------------------
(* Creation and confirmation *)

\* The will create_will stores.
NewWill(owner, form) ==
    LET balances == BalancesOf(form.tokens)
        primary  == form.tokens[1][1]
    IN  [owner                       |-> owner,
         balances                    |-> balances,
         token                       |-> primary,
         balance                     |-> balances[primary],
         beneficiaries               |-> form.beneficiaries,
         hashed_beneficiaries        |-> << >>,
         checkin_period_days         |-> form.checkin,
         grace_period_days           |-> form.grace,
         last_checkin                |-> now,
         trigger_time                |-> NoTime,
         confirmation_deadline       |-> IF form.delay > 0 THEN now + form.delay ELSE NoTime,
         status                      |-> IF form.delay > 0 THEN "PendingConfirmation"
                                                           ELSE "Active",
         guardians                   |-> UnweightedGuardians(form.guardians),
         guardian_vote_weight        |-> 0,
         guardian_votes              |-> 0,
         guardian_cancel_vote_weight |-> 0,
         guardian_cancel_votes       |-> 0,
         guardian_threshold          |-> IF form.guardians = << >> THEN 0 ELSE form.threshold,
         guardian_list_updated_at    |-> now,
         keeper_bounty_bps           |-> form.bounty,
         delegate                    |-> NoAccount]

ValidForm(owner, form) ==
    /\ form.bounty <= MAX_KEEPER_BOUNTY_BPS
    /\ Len(form.tokens) \in 1..MAX_TOKENS
    /\ NoDuplicates([i \in DOMAIN form.tokens |-> form.tokens[i][1]])
    /\ \A i \in DOMAIN form.tokens : form.tokens[i][2] > 0
    /\ assert_beneficiary_count(form.beneficiaries)
    /\ assert_valid_guardians(owner, form.guardians)
    /\ assert_valid_periods(form.checkin, form.grace)
    /\ form.guardians # << >> => form.threshold \in 1..Len(form.guardians)
    /\ assert_valid_allocations(form.beneficiaries, BalancesOf(form.tokens)[form.tokens[1][1]])

create_will(owner, form) ==
    LET id == next_will_id + 1
        w  == NewWill(owner, form)
    IN  /\ next_will_id < MaxWills
        /\ ValidForm(owner, form)
        /\ assert_index_capacity(owner, form.beneficiaries)
        /\ CanPay(bank, owner, BalancesOf(form.tokens))
        /\ bank' = TransferredAll(bank, owner, Contract, BalancesOf(form.tokens))
        /\ next_will_id' = id
        /\ beneficiary_wills' =
                Indexed(beneficiary_wills, Addresses(form.beneficiaries), id)
        /\ save_will(id, w)
        /\ owner_wills' = Indexed(owner_wills, {owner}, id)
        /\ protocol_stats' = adjust_locked_for_balances(
                                increment_active_will_count(protocol_stats), w.balances, 1)
        /\ record_transition(id, w.status, w.status)
        /\ UNCHANGED <<now, archived_wills, triggered_wills, failed_payout>>

\* What an entry point that only rewrites the will record leaves alone.
OnlyTheWill == UNCHANGED <<now, next_will_id, archived_wills, protocol_stats, indexes, money>>

confirm_will(id, owner) ==
    /\ OwnedBy(id, owner)
    /\ HasStatus(id, "PendingConfirmation")
    /\ LET w == wills[id] IN
        /\ w.confirmation_deadline # NoTime
                => ~confirmation_expired(now, w.confirmation_deadline)
        /\ assert_beneficiary_count(w.beneficiaries)
        /\ assert_valid_allocations(w.beneficiaries, total_balance(w.balances))
        /\ assert_valid_percentages(w.beneficiaries, w.hashed_beneficiaries)
        /\ save_will(id, [w EXCEPT !.status = "Active",
                                   !.last_checkin = now,
                                   !.confirmation_deadline = NoTime])
    /\ record_transition(id, "PendingConfirmation", "Active")
    /\ OnlyTheWill

----------------------------------------------------------------------------
(* Proving life *)

check_in(id, caller) ==
    /\ HasStatus(id, "Active")
    /\ caller \in {wills[id].owner, wills[id].delegate}
    /\ save_will(id, [wills[id] EXCEPT !.last_checkin = now])
    /\ record_transition(id, "Active", "Active")
    /\ OnlyTheWill

CheckedIn(ids) ==
    /\ wills' = [id \in DOMAIN wills |->
                    IF id \in ids THEN [wills[id] EXCEPT !.last_checkin = now]
                                  ELSE wills[id]]
    /\ history' = [id \in DOMAIN history \cup ids |->
                    IF id \in ids THEN [from |-> "Active", to |-> "Active"]
                                  ELSE history[id]]
    /\ UNCHANGED votes
    /\ OnlyTheWill

\* Faulty: the status of one will is taken for that of the whole batch.
batch_check_in_unvalidated(owner, ids) ==
    /\ \A id \in ids : OwnedBy(id, owner)
    /\ \E id \in ids : HasStatus(id, "Active")
    /\ CheckedIn(ids)

\* All of the named wills or none.  The limit of 50 ids is beyond MaxWills.
batch_check_in(owner, ids) ==
    /\ \A id \in ids : OwnedBy(id, owner) /\ HasStatus(id, "Active")
    /\ CheckedIn(ids)

set_delegate(id, owner, delegate) ==
    /\ OwnedBy(id, owner)
    /\ HasStatus(id, "Active")
    /\ save_will(id, [wills[id] EXCEPT !.delegate = delegate])
    /\ UNCHANGED history
    /\ OnlyTheWill

\* Each period is optional; a period left out keeps its value.
WithPeriods(w, checkin, grace) ==
    [w EXCEPT !.checkin_period_days = IF checkin = NoTime THEN @ ELSE checkin,
              !.grace_period_days   = IF grace = NoTime THEN @ ELSE grace]

update_periods(id, owner, checkin, grace) ==
    /\ OwnedBy(id, owner)
    /\ HasStatus(id, "Active")
    /\ {checkin, grace} \subseteq (1..MAX_PERIOD_DAYS) \cup {NoTime}
    /\ save_will(id, WithPeriods(wills[id], checkin, grace))
    /\ UNCHANGED history
    /\ OnlyTheWill

----------------------------------------------------------------------------
(* Trigger and recovery *)

\* Faulty: the grace period starts at the call.
trigger_will_from_now(id) ==
    /\ HasStatus(id, "Active")
    /\ now >= CheckinDeadline(wills[id])
    /\ save_will(id, [wills[id] EXCEPT !.status = "Triggered", !.trigger_time = now])
    /\ index_triggered_will(id)
    /\ record_transition(id, "Active", "Triggered")
    /\ UNCHANGED <<now, next_will_id, archived_wills, protocol_stats,
                   owner_wills, beneficiary_wills, money>>

\* Faulty: only at the very second of the deadline.
trigger_will_punctually(id) ==
    now = CheckinDeadline(wills[id]) /\ trigger_will_from_now(id)

\* The grace period starts at the missed deadline, not at the call.
trigger_will(id) ==
    /\ HasStatus(id, "Active")
    /\ now >= CheckinDeadline(wills[id])
    /\ save_will(id, [wills[id] EXCEPT !.status = "Triggered",
                                       !.trigger_time = CheckinDeadline(wills[id])])
    /\ index_triggered_will(id)
    /\ record_transition(id, "Active", "Triggered")
    /\ UNCHANGED <<now, next_will_id, archived_wills, protocol_stats,
                   owner_wills, beneficiary_wills, money>>

\* A will put back on its clock: no vote of the past counts any more.
Revived(w) ==
    [w EXCEPT !.status = "Active",
              !.trigger_time = NoTime,
              !.last_checkin = now,
              !.guardian_vote_weight = 0,
              !.guardian_votes = 0,
              !.guardian_cancel_vote_weight = 0,
              !.guardian_cancel_votes = 0]

\* Faulty: the mirror is not updated.
sync_primary_balance_forgotten(w) == w

sync_primary_balance(w) == [w EXCEPT !.balance = BalanceOf(w.balances, w.token)]

emergency_checkin(id, owner) ==
    /\ OwnedBy(id, owner)
    /\ HasStatus(id, "Triggered")
    /\ ~grace_elapsed(now, grace_deadline(wills[id]))
    /\ SaveWithVotes(id, sync_primary_balance(Revived(wills[id])),
                     reset_guardian_votes(guardian_vote, id, wills[id]),
                     reset_guardian_cancel_votes(guardian_cancel_vote, id, wills[id]))
    /\ unindex_triggered_will(id)
    /\ record_transition(id, "Triggered", "Active")
    /\ UNCHANGED <<now, next_will_id, archived_wills, protocol_stats,
                   owner_wills, beneficiary_wills, money>>

----------------------------------------------------------------------------
(* Release, cancellation, closing *)

\* distribute: plan every payout of will w, then write it, then pay.  The
\* caller has already changed the statistics to `stats` and the release votes
\* to `release_votes`.
distribute(id, w, keeper, refused, stats, release_votes) ==
    \E plan \in {DistributionPlan(w, keeper)} :
    \E outcome \in {Payouts(id, w, keeper, plan, refused)} :
        LET left == HashedReserves(w, plan) IN
        /\ w.status \in {"Active", "Triggered"}
        /\ Len(w.beneficiaries) * Cardinality(DOMAIN w.balances)
                <= MAX_BENEFICIARIES * MAX_TOKENS
        /\ PlanBalances(w, plan)
        /\ protocol_stats' = adjust_locked_for_balances(
                                decrement_active_will_count(stats), w.balances, -1)
        /\ owner_wills' = Unindexed(owner_wills, {w.owner}, id)
        /\ beneficiary_wills' =
                Unindexed(beneficiary_wills, Addresses(w.beneficiaries), id)
        /\ unindex_triggered_will(id)
        /\ SaveWithVotes(id, [w EXCEPT !.balances = left,
                                       !.balance  = BalanceOf(left, w.token),
                                       !.status   = "Released"],
                         release_votes, guardian_cancel_vote)
        /\ failed_payout' = outcome.failed
        /\ bank' = outcome.bank
        /\ UNCHANGED <<now, next_will_id, archived_wills>>

release_inheritance(id, keeper, refused) ==
    /\ HasStatus(id, "Triggered")
    /\ grace_elapsed(now, grace_deadline(wills[id]))
    /\ wills[id].trigger_time # NoTime
    /\ Len(wills[id].beneficiaries) <= MAX_BENEFICIARIES
    /\ Cardinality(DOMAIN wills[id].balances) <= MAX_TOKENS
    /\ record_transition(id, "Triggered", "Released")
    /\ distribute(id, wills[id], keeper, refused,
                  adjust_locked_for_balances(protocol_stats, wills[id].balances, -1),
                  guardian_vote)

\* The locked totals are decremented twice, as in the source.
cancel_will(id, owner) ==
    /\ OwnedBy(id, owner)
    /\ wills[id].status \in {"Active", "PendingConfirmation"}
    /\ LET w == wills[id] IN
        /\ CanPay(bank, Contract, w.balances)
        /\ protocol_stats' = adjust_locked_for_balances(
                                adjust_locked_for_balances(
                                    decrement_active_will_count(protocol_stats),
                                    w.balances, -1),
                                w.balances, -1)
        /\ owner_wills' = Unindexed(owner_wills, {owner}, id)
        /\ beneficiary_wills' =
                Unindexed(beneficiary_wills, Addresses(w.beneficiaries), id)
        /\ save_will(id, [w EXCEPT !.balance  = 0,
                                   !.balances = << >>,
                                   !.status   = "Cancelled"])
        /\ record_transition(id, w.status, "Cancelled")
        /\ bank' = TransferredAll(bank, Contract, owner, w.balances)
    /\ UNCHANGED <<now, next_will_id, archived_wills, triggered_wills, failed_payout>>

close_will(id, owner) ==
    /\ OwnedBy(id, owner)
    /\ HasStatus(id, "Released")
    /\ save_will(id, [wills[id] EXCEPT !.status = "Settled"])
    /\ record_transition(id, "Released", "Settled")
    /\ OnlyTheWill

----------------------------------------------------------------------------
(* The ledger clock *)

Tick ==
    /\ now < MaxTime
    /\ now' = now + 1
    /\ UNCHANGED <<next_will_id, wills, archived_wills, protocol_stats,
                   indexes, votes, history, money>>

----------------------------------------------------------------------------
LifecycleInit == StorageInit(Purse)

OwnerNext ==
    \E owner \in Accounts :
        \/ \E form \in CreateForms : create_will(owner, form)
        \/ \E id \in DOMAIN wills :
            \/ confirm_will(id, owner)
            \/ \E delegate \in Delegates : set_delegate(id, owner, delegate)
            \/ \E p \in PeriodUpdates : update_periods(id, owner, p[1], p[2])
            \/ emergency_checkin(id, owner)
            \/ cancel_will(id, owner)
            \/ close_will(id, owner)

\* A check-in for exactly these wills.
SignOfLife(ids) ==
    \E caller \in Accounts :
        \/ \E id \in DOMAIN wills : ids = {id} /\ check_in(id, caller)
        \/ batch_check_in(caller, ids)

AnyoneNext ==
    \E id \in DOMAIN wills :
        \/ trigger_will(id)
        \/ \E keeper \in Caller, refused \in Refusals :
                release_inheritance(id, keeper, refused)

LifecycleNext ==
    \/ OwnerNext
    \/ \E ids \in SUBSET DOMAIN wills : SignOfLife(ids)
    \/ AnyoneNext
    \/ Tick

LifecycleSpec == LifecycleInit /\ [][LifecycleNext]_vars

\* The clock of the ledger runs, and somebody (a keeper, a beneficiary) calls
\* the two permissionless entry points once they are due.
LifecycleFairness ==
    /\ WF_vars(Tick)
    /\ \A id \in WillIds :
        /\ WF_vars(id \in DOMAIN wills /\ trigger_will(id))
        /\ WF_vars(id \in DOMAIN wills /\ release_inheritance(id, NoAccount, {}))

FairLifecycle == LifecycleSpec /\ LifecycleFairness
=============================================================================
