----------------------------- MODULE WillTypes -----------------------------
(***************************************************************************)
(* The data of the SoroWill contract: its constants, the Will record of    *)
(* types.rs and the assert_* helpers of lib.rs that validate it.  There    *)
(* are no variables here; WillStorage declares the contract's storage.     *)
(*                                                                         *)
(* Addresses are model values, tokens are naturals (a Soroban Map iterates *)
(* its keys in order, and the order matters to `distribute`), timestamps   *)
(* are naturals counted in ledger seconds.  An absent Option<u64> is       *)
(* NoTime, an absent Option<Address> is NoAccount.                         *)
(***************************************************************************)
EXTENDS Integers, Sequences, FiniteSets, SequencesExt

CONSTANTS
    Accounts,               \* every address that may own, inherit, guard or keep
    Contract,               \* the contract's own address
    NoAccount,              \* Option<Address>::None
    Tokens,                 \* token contracts, in Map order
    MaxWills,               \* bound: wills ever created
    MaxTime,                \* bound: the last ledger timestamp explored
    SECONDS_PER_DAY,
    MAX_PERIOD_DAYS,
    MAX_BENEFICIARIES,
    MAX_GUARDIANS,
    MAX_GUARDIAN_WEIGHT,
    MAX_TOKENS,
    MAX_KEEPER_BOUNTY_BPS,
    MAX_WILLS_PER_INDEX,
    GUARDIAN_COOLDOWN_DAYS,
    CONFIRMATION_DEADLINE_BUFFER_SECONDS

\* An address is a string of 32 bytes.
ASSUME AccountsAssumption ==
    /\ IsFiniteSet(Accounts)
    /\ Contract \notin Accounts
    /\ NoAccount \notin Accounts
    /\ NoAccount # Contract

ASSUME BoundsAssumption ==
    /\ Tokens \subseteq Nat
    /\ MaxWills \in Nat
    /\ MaxTime \in Nat
    /\ SECONDS_PER_DAY \in Nat \ {0}
    /\ MAX_PERIOD_DAYS \in Nat
    /\ MAX_BENEFICIARIES \in Nat
    /\ MAX_GUARDIANS \in Nat
    /\ MAX_GUARDIAN_WEIGHT \in Nat
    /\ MAX_TOKENS \in Nat
    /\ MAX_KEEPER_BOUNTY_BPS \in 0..10000
    /\ MAX_WILLS_PER_INDEX \in Nat
    /\ GUARDIAN_COOLDOWN_DAYS \in Nat
    /\ CONFIRMATION_DEADLINE_BUFFER_SECONDS \in Nat

NoTime == -1
OptionalTime == Nat \cup {NoTime}
WillIds == 1..MaxWills

WillStatus == {"PendingConfirmation", "Active", "Triggered",
               "Released", "Cancelled", "Settled"}
LiveStatus == {"PendingConfirmation", "Active", "Triggered"}
GuardianConsent == {"Pending", "Accepted", "Rejected"}

Beneficiary == [address : Accounts,
                kind    : {"Percentage", "FixedAmount"},
                amount  : Nat]

\* A commitment stands for the SHA-256 of a pre-image that binds `claimant`
\* and a salt: two commitments are equal only if both parts are.
HashedBeneficiary == [claimant : Accounts, salt : Nat, percentage : Nat, claimed : BOOLEAN]

\* The Will struct.  Fields that no entry point ever changes from their
\* creation value (is_native, schema_version, triggered_beneficiaries) are
\* left out.
WillWith(balances, guardians) ==
        [owner                       : Accounts,
         balances                    : {balances},
         token                       : Tokens,
         balance                     : Nat,
         beneficiaries               : Seq(Beneficiary),
         hashed_beneficiaries        : Seq(HashedBeneficiary),
         checkin_period_days         : Nat,
         grace_period_days           : Nat,
         last_checkin                : Nat,
         trigger_time                : OptionalTime,
         confirmation_deadline       : OptionalTime,
         status                      : WillStatus,
         guardians                   : {guardians},
         guardian_vote_weight        : Nat,
         guardian_votes              : Nat,
         guardian_cancel_vote_weight : Nat,
         guardian_cancel_votes       : Nat,
         guardian_threshold          : Nat,
         guardian_list_updated_at    : Nat,
         keeper_bounty_bps           : Nat,
         delegate                    : Accounts \cup {NoAccount}]

IsBalances(b) == DOMAIN b \subseteq Tokens /\ b \in [DOMAIN b -> Nat]

IsGuardians(g) ==
    /\ DOMAIN g \subseteq Accounts
    /\ g \in [DOMAIN g -> [weight : Nat, consent : GuardianConsent]]

IsWill(w) ==
    /\ w \in WillWith(w.balances, w.guardians)
    /\ IsBalances(w.balances)
    /\ IsGuardians(w.guardians)

----------------------------------------------------------------------------
(* Small helpers on finite functions and lists *)

Put(f, k, v) == [x \in DOMAIN f \cup {k} |-> IF x = k THEN v ELSE f[x]]
Without(f, gone) == [x \in DOMAIN f \ gone |-> f[x]]
BalanceOf(balances, t) == IF t \in DOMAIN balances THEN balances[t] ELSE 0
SaturatingSub(a, b) == IF a > b THEN a - b ELSE 0
NoDuplicates(list) == IsInjective(list)

Addresses(beneficiaries) == {beneficiaries[i].address : i \in DOMAIN beneficiaries}
Amounts(list) == [i \in DOMAIN list |-> list[i].amount]
TotalAmount(list) == SumFunction(Amounts(list))
OfKind(list, kind) == {i \in DOMAIN list : list[i].kind = kind}
TotalOf(list, kind) == SumFunctionOnSet(Amounts(list), OfKind(list, kind))

----------------------------------------------------------------------------
(* Validation: the assert_* functions of lib.rs *)

assert_beneficiary_count(list) == Len(list) \in 1..MAX_BENEFICIARIES

\* Faulty: bequests need not be covered.
assert_allocations_unfunded(list, primary_balance) ==
    /\ \A i \in DOMAIN list : list[i].amount > 0
    /\ NoDuplicates([i \in DOMAIN list |-> list[i].address])
    /\ OfKind(list, "Percentage") # {} => TotalOf(list, "Percentage") = 10000

\* Faulty: percentages may fall short of the whole.
assert_allocations_at_most(list, primary_balance) ==
    /\ \A i \in DOMAIN list : list[i].amount > 0
    /\ NoDuplicates([i \in DOMAIN list |-> list[i].address])
    /\ TotalOf(list, "FixedAmount") <= primary_balance
    /\ TotalOf(list, "Percentage") <= 10000

\* Non-zero shares, no address twice, fixed amounts covered by the given
\* balance, percentages (when there are any) exactly 100 %.
assert_valid_allocations(list, primary_balance) ==
    /\ \A i \in DOMAIN list : list[i].amount > 0
    /\ NoDuplicates([i \in DOMAIN list |-> list[i].address])
    /\ TotalOf(list, "FixedAmount") <= primary_balance
    /\ OfKind(list, "Percentage") # {} => TotalOf(list, "Percentage") = 10000

HashedBps(hashed) == [i \in DOMAIN hashed |-> hashed[i].percentage]
HashedTotal(hashed) == SumFunction(HashedBps(hashed))

assert_valid_percentages(list, hashed) ==
    TotalOf(list, "Percentage") + HashedTotal(hashed) <= 10000

assert_valid_hashed_beneficiary(hashed, claimant, salt, percentage) ==
    /\ \A i \in DOMAIN hashed : <<hashed[i].claimant, hashed[i].salt>> # <<claimant, salt>>
    /\ percentage > 0

assert_valid_guardians(owner, list) ==
    /\ Len(list) <= MAX_GUARDIANS
    /\ \A i \in DOMAIN list : list[i] # owner
    /\ NoDuplicates(list)

assert_valid_periods(checkin, grace) ==
    checkin \in 1..MAX_PERIOD_DAYS /\ grace \in 1..MAX_PERIOD_DAYS

total_balance(balances) == SumFunction(balances)

Unclaimed(hashed) == {i \in DOMAIN hashed : ~hashed[i].claimed}
unclaimed_hashed_bps(hashed) == SumFunctionOnSet(HashedBps(hashed), Unclaimed(hashed))

assert_consent_changeable(w) == w.status \in LiveStatus

assert_no_guardian_cancel_in_flight(w) ==
    w.guardian_cancel_votes = 0 /\ w.guardian_cancel_vote_weight = 0

----------------------------------------------------------------------------
(* Deadlines *)

CheckinDeadline(w) == w.last_checkin + w.checkin_period_days * SECONDS_PER_DAY

grace_deadline(w) ==
    (IF w.trigger_time = NoTime THEN CheckinDeadline(w) ELSE w.trigger_time)
        + w.grace_period_days * SECONDS_PER_DAY

\* Faulty: the owner loses the last second of the grace period.
grace_elapsed_inclusive(t, deadline) == t >= deadline

grace_elapsed(t, deadline) == t > deadline

confirmation_expired(t, deadline) == t > deadline + CONFIRMATION_DEADLINE_BUFFER_SECONDS

----------------------------------------------------------------------------
(* Guardian lists *)

\* A list installed by create_will or update_guardians: weight 1, consent reset.
UnweightedGuardians(list) ==
    [g \in ToSet(list) |-> [weight |-> 1, consent |-> "Pending"]]

reset_guardian_consent(guardians) ==
    [g \in DOMAIN guardians |-> [guardians[g] EXCEPT !.consent = "Pending"]]

Weights(guardians) == [g \in DOMAIN guardians |-> guardians[g].weight]
WeightOf(guardians, voters) == SumFunctionOnSet(Weights(guardians), voters)
=============================================================================
