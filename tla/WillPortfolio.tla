--------------------------- MODULE WillPortfolio ---------------------------
(***************************************************************************)
(* Entry points that make wills out of other wills, or several at once:    *)
(* clone, batch creation, merge and split, and the repair of the protocol  *)
(* statistics from the stored wills.                                       *)
(***************************************************************************)
EXTENDS WillEstate

CONSTANTS
    Batches,        \* sequences of forms for batch_create_wills
    BATCH_MAX,
    ClonePurses,    \* token lists for clone_will
    Splits          \* [heirs: Seq(address), tokens: list] for split_will

TokenLists == Seq(Tokens \X Nat)

ASSUME PortfolioInputsAssumption ==
    /\ BATCH_MAX \in Nat
    /\ Batches \subseteq Seq(SetOfForms)
    /\ ClonePurses \subseteq TokenLists
    /\ Splits \subseteq [heirs : Seq(Accounts), tokens : TokenLists]

ValidTokens(tokens) ==
    /\ Len(tokens) \in 1..MAX_TOKENS
    /\ \A i \in DOMAIN tokens : tokens[i][2] > 0

----------------------------------------------------------------------------
(* Wills that descend from another *)

\* Faulty: the clock of the original runs on.
Descendant_on_old_clock(w, owner, balances, token, balance) ==
    [w EXCEPT !.owner = owner, !.balances = balances, !.token = token, !.balance = balance,
              !.status = "Active", !.trigger_time = NoTime]

\* Faulty: the money of the original is written down for the new will.
Descendant_with_its_money(w, owner, balances, token, balance) ==
    [w EXCEPT !.owner = owner, !.status = "Active", !.trigger_time = NoTime,
              !.last_checkin = now]

\* A fresh Active will with the terms of w: same heirs, periods, threshold and
\* bounty, the guardians asked again, the clock started now.
Descendant(w, owner, balances, token, balance) ==
    [w EXCEPT !.owner                       = owner,
              !.balances                    = balances,
              !.token                       = token,
              !.balance                     = balance,
              !.hashed_beneficiaries        = << >>,
              !.last_checkin                = now,
              !.trigger_time                = NoTime,
              !.confirmation_deadline       = NoTime,
              !.status                      = "Active",
              !.guardians                   = reset_guardian_consent(@),
              !.guardian_vote_weight        = 0,
              !.guardian_votes              = 0,
              !.guardian_cancel_vote_weight = 0,
              !.guardian_cancel_votes       = 0,
              !.guardian_list_updated_at    = now,
              !.delegate                    = NoAccount]

\* Anybody may clone a will that is running or triggered, with money of their
\* own.  A token named twice is paid twice, but `balance` only takes the first.
clone_will(source, owner, tokens) ==
    LET id       == next_will_id + 1
        balances == BalancesOf(tokens)
        w        == Descendant(wills[source], owner, balances, tokens[1][1], tokens[1][2])
        heirs    == Addresses(w.beneficiaries)
    IN  /\ id \in WillIds
        /\ ValidTokens(tokens)
        /\ Stored(source) /\ wills[source].status \in {"Active", "Triggered"}
        /\ owner \notin DOMAIN w.guardians
        /\ Cardinality(DOMAIN w.guardians) <= MAX_GUARDIANS
        /\ assert_valid_allocations(w.beneficiaries, balances[w.token])
        /\ CanPay(bank, owner, balances)
        /\ CanIndex(beneficiary_wills, heirs, id) /\ CanIndex(owner_wills, {owner}, id)
        /\ bank' = TransferredAll(bank, owner, Contract, balances)
        /\ next_will_id' = id
        /\ beneficiary_wills' = Indexed(beneficiary_wills, heirs, id)
        /\ owner_wills' = Indexed(owner_wills, {owner}, id)
        /\ save_will(id, w)
        /\ protocol_stats' = adjust_locked_for_balances(
                                increment_active_will_count(protocol_stats), balances, 1)
        /\ record_transition(id, "Active", "Active")
        /\ UNCHANGED <<now, archived_wills, triggered_wills, failed_payout>>

\* The heirs named move into a child will together with some of the money.
\* The active count goes up by two, as in the source.
split_will(id, owner, split) ==
    LET w         == wills[id]
        child_id  == next_will_id + 1
        named     == ToSet(split.heirs)
        moving    == BalancesOf(split.tokens)
        staying   == [t \in DOMAIN w.balances |-> w.balances[t] - BalanceOf(moving, t)]
        remaining == renormalize_percentages(
                        HeirsIn(w.beneficiaries, Addresses(w.beneficiaries) \ named))
        parted    == renormalize_percentages(HeirsIn(w.beneficiaries, named))
        primary   == split.tokens[1][1]
        source    == sync_primary_balance([w EXCEPT !.balances = staying,
                                                    !.beneficiaries = remaining])
        child     == [Descendant(w, w.owner, moving, primary, moving[primary])
                        EXCEPT !.beneficiaries = parted, !.keeper_bounty_bps = 0]
        pruned    == Unindexed(beneficiary_wills, named, id)
    IN  /\ OwnedBy(id, owner)
        /\ HasStatus(id, "Active")
        /\ child_id \in WillIds
        /\ ValidTokens(split.tokens)
        /\ split.heirs # << >> /\ Len(split.heirs) <= MAX_BENEFICIARIES
        /\ NoDuplicates(split.heirs)
        /\ named \subseteq Addresses(w.beneficiaries)
        /\ \A t \in DOMAIN moving : moving[t] <= BalanceOf(w.balances, t)
        /\ remaining # << >>
        /\ assert_valid_allocations(remaining, BalanceOf(staying, w.token))
        /\ assert_valid_allocations(parted, moving[primary])
        /\ CanIndex(pruned, named, child_id) /\ CanIndex(owner_wills, {owner}, child_id)
        /\ next_will_id' = child_id
        /\ beneficiary_wills' = Indexed(pruned, named, child_id)
        /\ owner_wills' = Indexed(owner_wills, {owner}, child_id)
        /\ wills' = Put(Put(wills, id, source), child_id, child)
        /\ protocol_stats' = increment_active_will_count(
                                increment_active_will_count(protocol_stats))
        /\ record_transition(child_id, "Active", "Active")
        /\ UNCHANGED <<now, archived_wills, triggered_wills, votes, money>>

----------------------------------------------------------------------------
(* Several wills at once *)

\* All of the wills or none: each form is validated as create_will does it,
\* with neither a bounty nor a delay, and paid for one after the other.
batch_create_wills(owner, forms) ==
    LET first   == next_will_id + 1
        ids     == first..(next_will_id + Len(forms))
        Form(id) == [forms[id - next_will_id] EXCEPT !.bounty = 0, !.delay = 0]
        w       == [id \in ids |-> NewWill(owner, Form(id))]
        total   == [t \in Tokens |->
                        SumFunction([id \in ids |-> BalanceOf(w[id].balances, t)])]
        Naming(a) == {id \in ids : a \in Addresses(w[id].beneficiaries)}
    IN  /\ Len(forms) \in 1..BATCH_MAX
        /\ ids \subseteq WillIds
        /\ \A id \in ids : ValidForm(owner, Form(id))
        /\ CanPay(bank, owner, total)
        /\ Cardinality(owner_wills[owner] \cup ids) <= MAX_WILLS_PER_INDEX
        /\ \A a \in Accounts : Naming(a) # {} =>
                Cardinality(beneficiary_wills[a] \cup Naming(a)) <= MAX_WILLS_PER_INDEX
        /\ bank' = TransferredAll(bank, owner, Contract, total)
        /\ next_will_id' = next_will_id + Len(forms)
        /\ wills' = [id \in DOMAIN wills \cup ids |-> IF id \in ids THEN w[id] ELSE wills[id]]
        /\ owner_wills' = [owner_wills EXCEPT ![owner] = @ \cup ids]
        /\ beneficiary_wills' = [a \in Accounts |-> beneficiary_wills[a] \cup Naming(a)]
        /\ protocol_stats' = adjust_locked_for_balances(
                                [protocol_stats EXCEPT !.active_will_count = @ + Len(forms)],
                                total, 1)
        /\ history' = [id \in DOMAIN history \cup ids |->
                        IF id \in ids THEN [from |-> "Active", to |-> "Active"]
                                      ELSE history[id]]
        /\ UNCHANGED <<now, archived_wills, triggered_wills, votes, failed_payout>>

\* Will b is folded into will a and cancelled.  The vote counts of a restart at
\* zero, the vote weights and the age of the guardian list do not.
merge_wills(owner, a, b) ==
    LET wa       == wills[a]
        wb       == wills[b]
        heirs    == merge_beneficiaries(wa.beneficiaries, total_balance(wa.balances),
                                        wb.beneficiaries, total_balance(wb.balances))
        balances == [t \in DOMAIN wa.balances \cup DOMAIN wb.balances |->
                        BalanceOf(wa.balances, t) + BalanceOf(wb.balances, t)]
        merged   == [wa EXCEPT !.beneficiaries         = heirs,
                               !.guardians             = merge_guardians(@, wb.guardians),
                               !.checkin_period_days   = Min({@, wb.checkin_period_days}),
                               !.grace_period_days     = Max({@, wb.grace_period_days}),
                               !.balances              = balances,
                               !.balance               = @ + wb.balance,
                               !.guardian_votes        = 0,
                               !.guardian_cancel_votes = 0]
        consumed == [wb EXCEPT !.balances              = << >>,
                               !.balance               = 0,
                               !.status                = "Cancelled",
                               !.guardian_votes        = 0,
                               !.guardian_cancel_votes = 0]
        pruned   == Unindexed(beneficiary_wills, Addresses(wb.beneficiaries), b)
    IN  /\ a # b
        /\ OwnedBy(a, owner) /\ OwnedBy(b, owner)
        /\ HasStatus(a, "Active") /\ HasStatus(b, "Active")
        /\ wa.token = wb.token
        /\ unclaimed_hashed_bps(wa.hashed_beneficiaries) = 0
        /\ unclaimed_hashed_bps(wb.hashed_beneficiaries) = 0
        /\ Len(heirs) <= MAX_BENEFICIARIES
        /\ Cardinality(DOMAIN merged.guardians) <= MAX_GUARDIANS
        /\ Cardinality(DOMAIN balances) <= MAX_TOKENS
        /\ CanIndex(pruned, Addresses(heirs), a)
        /\ wills' = Put(Put(wills, a, merged), b, consumed)
        /\ guardian_vote' = reset_guardian_votes(
                                reset_guardian_votes(guardian_vote, a, wa), b, wb)
        /\ guardian_cancel_vote' = reset_guardian_cancel_votes(
                                reset_guardian_cancel_votes(guardian_cancel_vote, a, wa), b, wb)
        /\ protocol_stats' = decrement_active_will_count(protocol_stats)
        /\ owner_wills' = Unindexed(owner_wills, {owner}, b)
        /\ beneficiary_wills' = Indexed(pruned, Addresses(heirs), a)
        /\ history' = Put(Put(history, b, [from |-> "Active", to |-> "Cancelled"]),
                          a, [from |-> "Active", to |-> "Active"])
        /\ UNCHANGED <<now, next_will_id, archived_wills, triggered_wills, money>>

----------------------------------------------------------------------------
\* Anybody may have the statistics recomputed from the stored wills.
repair_protocol_stats ==
    /\ protocol_stats' = recompute_protocol_stats
    /\ UNCHANGED <<now, next_will_id, wills, archived_wills, indexes, votes,
                   history, money>>

MultiplyNext ==
    \/ \E owner \in Accounts :
        \/ \E forms \in Batches : batch_create_wills(owner, forms)
        \/ \E id \in DOMAIN wills :
            \/ \E tokens \in ClonePurses : clone_will(id, owner, tokens)
            \/ \E split \in Splits : split_will(id, owner, split)
    \/ repair_protocol_stats

\* A merge of exactly these two wills.
Merging(ids) ==
    \E owner \in Accounts, a, b \in DOMAIN wills : ids = {a, b} /\ merge_wills(owner, a, b)

PortfolioOnlyNext == MultiplyNext \/ \E ids \in SUBSET DOMAIN wills : Merging(ids)

PortfolioNext == EstateNext \/ PortfolioOnlyNext

PortfolioSpec == LifecycleInit /\ [][PortfolioNext]_vars
=============================================================================
