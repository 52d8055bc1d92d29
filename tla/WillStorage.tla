---------------------------- MODULE WillStorage ----------------------------
(***************************************************************************)
(* The contract's persistent storage (storage.rs) and the token ledgers    *)
(* outside it.  A variable stands for one family of DataKey entries:       *)
(*                                                                         *)
(*   wills             Will(id), a partial function: a removed key is not  *)
(*                     in its domain                                       *)
(*   archived_wills    ArchivedWill(id)                                    *)
(*   protocol_stats    ProtocolStats; a token without an entry counts 0    *)
(*   owner_wills, beneficiary_wills, triggered_wills                       *)
(*                     the id lists; the order of the ids only matters to  *)
(*                     pagination and is left to IndexPaging               *)
(*   guardian_vote, guardian_cancel_vote                                   *)
(*                     the timestamps of the vote records, NoTime if none  *)
(*   history           the newest entry of WillHistory(id); the retained   *)
(*                     trail is modelled in AuditTrail                     *)
(*   failed_payout     FailedPayout(id, token, recipient)                  *)
(*                                                                         *)
(* `now` is the ledger timestamp and `bank` the balances kept by the token *)
(* contracts.  A contract call is atomic: an entry point that panics       *)
(* leaves no trace, so a failing call is a step that is not taken.         *)
(***************************************************************************)
EXTENDS Allocations

VARIABLES
    now, next_will_id, wills, archived_wills, protocol_stats,
    owner_wills, beneficiary_wills, triggered_wills,
    guardian_vote, guardian_cancel_vote, history,
    failed_payout, bank

votes   == <<guardian_vote, guardian_cancel_vote>>
indexes == <<owner_wills, beneficiary_wills, triggered_wills>>
money   == <<failed_payout, bank>>
vars    == <<now, next_will_id, wills, archived_wills, protocol_stats,
             indexes, votes, history, money>>

Transition  == [from : WillStatus, to : WillStatus]
PayoutKeys  == WillIds \X Tokens \X Accounts
VoteRecords == [WillIds -> [Accounts -> OptionalTime]]

StorageTypeOK ==
    /\ now \in 0..MaxTime
    /\ next_will_id \in 0..MaxWills
    /\ DOMAIN wills \subseteq 1..next_will_id
    /\ \A id \in DOMAIN wills : IsWill(wills[id])
    /\ DOMAIN archived_wills \subseteq 1..next_will_id
    /\ \A id \in DOMAIN archived_wills : IsWill(archived_wills[id])
    /\ protocol_stats \in [active_will_count     : Nat,
                           total_locked_by_token : [Tokens -> Int]]
    /\ owner_wills \in [Accounts -> SUBSET WillIds]
    /\ beneficiary_wills \in [Accounts -> SUBSET WillIds]
    /\ triggered_wills \subseteq WillIds
    /\ guardian_vote \in VoteRecords
    /\ guardian_cancel_vote \in VoteRecords
    /\ DOMAIN history \subseteq WillIds
    /\ \A id \in DOMAIN history : history[id] \in Transition
    /\ DOMAIN failed_payout \subseteq PayoutKeys
    /\ \A key \in DOMAIN failed_payout : failed_payout[key] \in Nat
    /\ bank \in [Tokens -> [Accounts \cup {Contract} -> Nat]]

NoRecords == [id \in WillIds |-> [a \in Accounts |-> NoTime]]

\* Nothing stored; account a starts with purse[a] of every token.
StorageInit(purse) ==
    /\ now = 0
    /\ next_will_id = 0
    /\ wills = << >>
    /\ archived_wills = << >>
    /\ protocol_stats = [active_will_count     |-> 0,
                         total_locked_by_token |-> [t \in Tokens |-> 0]]
    /\ owner_wills = [a \in Accounts |-> {}]
    /\ beneficiary_wills = [a \in Accounts |-> {}]
    /\ triggered_wills = {}
    /\ guardian_vote = NoRecords
    /\ guardian_cancel_vote = NoRecords
    /\ history = << >>
    /\ failed_payout = << >>
    /\ bank = [t \in Tokens |-> [a \in Accounts \cup {Contract} |->
                                    IF a = Contract THEN 0 ELSE purse[a]]]

Stored(id) == id \in DOMAIN wills
HasStatus(id, status) == Stored(id) /\ wills[id].status = status
OwnedBy(id, caller) == Stored(id) /\ wills[id].owner = caller

----------------------------------------------------------------------------
(* Will records and guardian votes *)

\* Faulty: the vote records stay.
ClearedVotes_forgotten(records, id, gone) == records

ClearedVotes(records, id, gone) ==
    [records EXCEPT ![id] = [a \in Accounts |-> IF a \in gone THEN NoTime ELSE @[a]]]

\* save_will drops the vote records of guardians who left the list.
Departed(id, w) ==
    IF Stored(id) THEN DOMAIN wills[id].guardians \ DOMAIN w.guardians ELSE {}

SaveWithVotes(id, w, release_votes, cancel_votes) ==
    /\ wills' = Put(wills, id, w)
    /\ guardian_vote' = ClearedVotes(release_votes, id, Departed(id, w))
    /\ guardian_cancel_vote' = ClearedVotes(cancel_votes, id, Departed(id, w))

save_will(id, w) == SaveWithVotes(id, w, guardian_vote, guardian_cancel_vote)

reset_guardian_votes(records, id, w) == ClearedVotes(records, id, DOMAIN w.guardians)

\* Faulty: the release votes decide whether the cancel votes are cleared.
reset_cancel_votes_miscounted(records, id, w) ==
    IF w.guardian_votes = 0 THEN records ELSE ClearedVotes(records, id, DOMAIN w.guardians)

\* The early return: without counted cancel votes nothing is cleared.
reset_guardian_cancel_votes(records, id, w) ==
    IF w.guardian_cancel_votes = 0
    THEN records
    ELSE ClearedVotes(records, id, DOMAIN w.guardians)

VoteIsLive(timestamp, expiry_days) ==
    /\ timestamp # NoTime
    /\ now >= timestamp
    /\ now - timestamp <= expiry_days * SECONDS_PER_DAY

has_voted(records, id, guardian, expiry_days) ==
    VoteIsLive(records[id][guardian], expiry_days)

\* Faulty: from and to are swapped.
record_transition_swapped(id, from, to) == history' = Put(history, id, [from |-> to, to |-> from])

record_transition(id, from, to) ==
    history' = Put(history, id, [from |-> from, to |-> to])

----------------------------------------------------------------------------
(* Indexes *)

IndexHasRoom(index, address) == Cardinality(index[address]) < MAX_WILLS_PER_INDEX

\* Faulty: a list that is full takes one more.
CanIndex_unbounded(index, addresses, id) == TRUE

\* index_push is a no-op for an id already listed.
CanIndex(index, addresses, id) ==
    \A a \in addresses : id \in index[a] \/ IndexHasRoom(index, a)

Indexed(index, addresses, id) ==
    [a \in Accounts |-> IF a \in addresses THEN index[a] \cup {id} ELSE index[a]]

\* Faulty: nothing is taken off the index.
Unindexed_forgotten(index, addresses, id) == index

Unindexed(index, addresses, id) ==
    [a \in Accounts |-> IF a \in addresses THEN index[a] \ {id} ELSE index[a]]

index_triggered_will(id) == triggered_wills' = triggered_wills \cup {id}

\* Faulty: the will stays listed as triggered.
unindex_forgotten(id) == UNCHANGED triggered_wills

unindex_triggered_will(id) == triggered_wills' = triggered_wills \ {id}

assert_index_capacity(owner, beneficiaries) ==
    /\ IndexHasRoom(owner_wills, owner)
    /\ \A a \in Addresses(beneficiaries) : IndexHasRoom(beneficiary_wills, a)

----------------------------------------------------------------------------
(* Protocol statistics *)

increment_active_will_count(stats) == [stats EXCEPT !.active_will_count = @ + 1]

\* Faulty: the count goes down by two.
decrement_active_will_count_twice(stats) ==
    [stats EXCEPT !.active_will_count = SaturatingSub(@, 2)]

decrement_active_will_count(stats) ==
    [stats EXCEPT !.active_will_count = SaturatingSub(@, 1)]

adjust_locked_for_balances(stats, balances, sign) ==
    [stats EXCEPT !.total_locked_by_token =
        [t \in Tokens |-> @[t] + sign * BalanceOf(balances, t)]]

LiveWills == {id \in DOMAIN wills : wills[id].status \in LiveStatus}

\* What the wills of a set hold of token t.
HeldBy(ids, t) == SumFunction([id \in ids |-> BalanceOf(wills[id].balances, t)])

recompute_protocol_stats ==
    [active_will_count     |-> Cardinality(LiveWills),
     total_locked_by_token |-> [t \in Tokens |-> HeldBy(LiveWills, t)]]

----------------------------------------------------------------------------
(* Tokens *)

Transferred(ledger, t, from, to, amount) ==
    [ledger EXCEPT ![t] = [ledger[t] EXCEPT ![from] = @ - amount, ![to] = @ + amount]]

CanPay(ledger, from, balances) ==
    \A t \in DOMAIN balances : ledger[t][from] >= balances[t]

TransferredAll(ledger, from, to, balances) ==
    [t \in Tokens |->
        IF t \in DOMAIN balances
        THEN [ledger[t] EXCEPT ![from] = @ - balances[t], ![to] = @ + balances[t]]
        ELSE ledger[t]]

\* Faulty: a refused payout is not recorded.
pay_or_lose(id, p, refused, books) ==
    IF <<p.token, p.to>> \in refused THEN books
    ELSE [books EXCEPT !.bank = Transferred(@, p.token, Contract, p.to, p.amount)]

\* A refused transfer, or one the contract cannot fund, is parked under
\* FailedPayout and overwrites what was parked there for the same will, token
\* and recipient.  `books` are the ledgers and what is parked so far.
pay_or_record_failure(id, p, refused, books) ==
    IF <<p.token, p.to>> \in refused \/ books.bank[p.token][Contract] < p.amount
    THEN [books EXCEPT !.failed = Put(@, <<id, p.token, p.to>>, p.amount)]
    ELSE [books EXCEPT !.bank = Transferred(@, p.token, Contract, p.to, p.amount)]

\* A list of payments one after the other; what is not above 0 is not paid.
PaidOrParked(id, payments, refused, books) ==
    LET upto[n \in 0..Len(payments)] ==
            IF n = 0 THEN books
            ELSE IF payments[n].amount > 0
                 THEN pay_or_record_failure(id, payments[n], refused, upto[n - 1])
            ELSE upto[n - 1]
    IN  upto[Len(payments)]

\* The payouts of a release: every refund first, then token by token the shares
\* and the bounty.
Payouts(id, w, keeper, plan, refused) ==
    LET tokens == MapOrder(DOMAIN plan)
        refunds[n \in 0..Len(tokens)] ==
            IF n = 0 THEN [failed |-> failed_payout, bank |-> bank]
            ELSE PaidOrParked(id, Refund(w, plan, tokens[n]), refused, refunds[n - 1])
        paid[n \in 0..Len(tokens)] ==
            IF n = 0 THEN refunds[Len(tokens)]
            ELSE PaidOrParked(id, SharesAndBounty(keeper, plan, tokens[n]), refused, paid[n - 1])
    IN  paid[Len(tokens)]
=============================================================================
