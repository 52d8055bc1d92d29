---------------------------- MODULE Allocations ----------------------------
(***************************************************************************)
(* The contract's arithmetic: how a balance is divided at release, how     *)
(* percentages are redistributed when a beneficiary leaves or a will is    *)
(* split, and how two beneficiary lists merge.  Every definition is a pure *)
(* function of its arguments.                                              *)
(***************************************************************************)
EXTENDS WillTypes

\* floor(total * basis_points / 10000), computed without the wide product.
proportional_share(total, basis_points) ==
    (total \div 10000) * basis_points + ((total % 10000) * basis_points) \div 10000

keeper_bounty(balance, bps) == proportional_share(balance, bps)

min_one_unit_share(floor_share, percentage_remaining, later_count) ==
    LET cap == Max({percentage_remaining - later_count, 0})
    IN  Min({Max({floor_share, 1}), cap})

----------------------------------------------------------------------------
(* distribute: the payout plan of one token *)

\* What is left of `available` after the first n entries: fixed-amount heirs are
\* paid first, in list order, each capped by what is left.
AfterFixed(list, available) ==
    LET left[n \in 0..Len(list)] ==
            IF n = 0 THEN available
            ELSE IF list[n].kind = "FixedAmount"
                 THEN left[n - 1] - Max({Min({list[n].amount, left[n - 1]}), 0})
            ELSE left[n - 1]
    IN  left

\* The percentage heirs who come after entry n.
LaterShares(list, n) == Cardinality({i \in OfKind(list, "Percentage") : i > n})

\* Percentage heirs split `remaining`; the last one takes the rest.
AfterPercentages(list, remaining) ==
    LET left[n \in 0..Len(list)] ==
            IF n = 0 THEN remaining
            ELSE IF list[n].kind # "Percentage" THEN left[n - 1]
            ELSE IF LaterShares(list, n) = 0 THEN 0
            ELSE left[n - 1] - min_one_unit_share(
                                    proportional_share(remaining, list[n].amount),
                                    left[n - 1], LaterShares(list, n))
    IN  left

\* What each heir takes off `left`; a share of 0 is not paid.
SharesOf(list, left) ==
    [i \in 1..Len(list) |-> [to |-> list[i].address, amount |-> left[i - 1] - left[i]]]

FundedTokens(w) == {t \in DOMAIN w.balances : w.balances[t] # 0}

should_pay_bounty(w, keeper) ==
    keeper \notin {NoAccount, Contract, w.owner} /\ w.keeper_bounty_bps > 0

\* The tokens the bounty could be taken from; distribute takes the first.
BountyTokens(w, keeper) ==
    {t \in FundedTokens(w) : /\ should_pay_bounty(w, keeper)
                             /\ keeper_bounty(w.balances[t], w.keeper_bounty_bps) > 0}

\* What distribute plans for token t.  `counted_bounty` is the bounty its
\* conservation check counts (that of the first funded token), `bounty` the one
\* it deducts and pays (that of the first token whose bounty is not zero).
TokenPlan(w, keeper, t) ==
    LET total     == w.balances[t]
        owed      == keeper_bounty(total, w.keeper_bounty_bps)
        bounty    == IF BountyTokens(w, keeper) # {} /\ t = Min(BountyTokens(w, keeper))
                     THEN owed ELSE 0
        counted   == IF should_pay_bounty(w, keeper) /\ t = Min(FundedTokens(w))
                     THEN owed ELSE 0
        hashed    == unclaimed_hashed_bps(w.hashed_beneficiaries)
        reserve   == proportional_share(total - bounty, hashed)
        available == total - bounty - reserve
        fixed     == IF t = w.token THEN AfterFixed(w.beneficiaries, available)
                     ELSE [n \in 0..Len(w.beneficiaries) |-> available]
        left      == fixed[Len(w.beneficiaries)]
        shares    == SharesOf(w.beneficiaries, fixed)
                        \o SharesOf(w.beneficiaries, AfterPercentages(w.beneficiaries, left))
    IN  [shares  |-> shares,
         refund  |-> left,
         reserve |-> reserve,
         bounty  |-> bounty,
         planned |-> counted + TotalAmount(shares) + left]

DistributionPlan(w, keeper) == [t \in FundedTokens(w) |-> TokenPlan(w, keeper, t)]

\* Faulty: the refund is not counted.
PlanBalances_without_refund(w, plan) ==
    \A t \in DOMAIN plan : plan[t].planned - plan[t].refund = w.balances[t]

\* The conservation check: planned payouts must equal the balance, or the
\* release aborts with DistributionMismatch.
PlanBalances(w, plan) ==
    \A t \in DOMAIN plan :
        /\ \A i \in DOMAIN plan[t].shares : plan[t].shares[i].amount >= 0
        /\ plan[t].planned = w.balances[t]

\* Faulty: the will record is not drained.
HashedReserves_whole(w, plan) == w.balances

\* The balances a release leaves behind: the shares of hashed beneficiaries.
HashedReserves(w, plan) ==
    [t \in (IF unclaimed_hashed_bps(w.hashed_beneficiaries) = 0 THEN {} ELSE DOMAIN plan) |->
        plan[t].reserve]

\* The transfers of a release in token t: what is refunded to the owner, and the
\* shares followed by the bounty.
Refund(w, plan, t) == << [token |-> t, to |-> w.owner, amount |-> plan[t].refund] >>

SharesAndBounty(keeper, plan, t) ==
    LET shares == Append(plan[t].shares, [to |-> keeper, amount |-> plan[t].bounty])
    IN  [i \in 1..Len(shares) |->
            [token |-> t, to |-> shares[i].to, amount |-> shares[i].amount]]

\* A Soroban Map is iterated in the order of its keys.
IsMapOrder(order, keys) ==
    /\ \A k \in keys : \E i \in DOMAIN order : order[i] = k
    /\ \A i, j \in DOMAIN order : i < j => order[i] < order[j]

MapOrder(keys) == CHOOSE order \in [1..Cardinality(keys) -> keys] : IsMapOrder(order, keys)

----------------------------------------------------------------------------
(* Heirs who go to another will *)

\* The entries of list that name one of addresses, in their order.
HeirsIn(list, addresses) ==
    LET upto[n \in 0..Len(list)] ==
            IF n = 0 THEN << >>
            ELSE IF list[n].address \in addresses THEN Append(upto[n - 1], list[n])
            ELSE upto[n - 1]
    IN  upto[Len(list)]

----------------------------------------------------------------------------
(* Redistribution of percentages *)

\* The list with its percentage entries set to `scaled`, the last of them
\* absorbing what is missing to `target`.  Fixed amounts are untouched.
RescaledTo(list, target, scaled) ==
    LET shares == OfKind(list, "Percentage") IN
    [i \in DOMAIN list |->
        IF i \notin shares
        THEN list[i]
        ELSE [list[i] EXCEPT !.amount =
                 IF i = Max(shares)
                 THEN SaturatingSub(target, SumFunctionOnSet(scaled, shares \ {i}))
                 ELSE scaled[i]]]

\* Percentages brought to 100 %; entries that add up to nothing count nothing.
renormalize_percentages(list) ==
    LET total == TotalOf(list, "Percentage")
    IN  RescaledTo(list, 10000,
                   [i \in DOMAIN list |-> IF total > 0 THEN (list[i].amount * 10000) \div total
                                                       ELSE 0])

\* The beneficiaries left when `address` renounces: a percentage share is
\* spread over the other percentage shares in proportion, a fixed amount is
\* simply dropped.
RenouncedList(list, address) ==
    LET found  == Min({i \in DOMAIN list : list[i].address = address})
        gone   == list[found]
        kept   == RemoveAt(list, found)
        others == TotalOf(kept, "Percentage")
    IN  IF gone.kind = "FixedAmount" \/ others = 0
        THEN kept
        ELSE RescaledTo(kept, Min({others + gone.amount, 10000}),
                        [i \in DOMAIN kept |->
                            kept[i].amount + (gone.amount * kept[i].amount) \div others])

----------------------------------------------------------------------------
(* merge_wills *)

more_advanced_consent(a, b) ==
    CASE a = "Rejected" /\ b = "Rejected" -> "Rejected"
      [] "Rejected" \in {a, b} /\ a # b   -> "Pending"
      [] "Rejected" \notin {a, b} /\ "Accepted" \in {a, b} -> "Accepted"
      [] OTHER -> "Pending"

merge_guardians(ga, gb) ==
    [g \in DOMAIN ga \cup DOMAIN gb |->
        CASE g \notin DOMAIN gb -> ga[g]
          [] g \notin DOMAIN ga -> gb[g]
          [] OTHER -> [weight  |-> Max({ga[g].weight, gb[g].weight}),
                       consent |-> more_advanced_consent(ga[g].consent, gb[g].consent)]]

\* The value share of one entry of a will worth `value`.
ShareOf(b, value) ==
    IF b.kind = "Percentage" THEN proportional_share(value, b.amount) ELSE b.amount

\* Two entries of one address: fixed amounts add up and win over percentages.
merge_allocation(existing, incoming) ==
    CASE existing.kind = "FixedAmount" /\ incoming.kind = "FixedAmount"
             -> [existing EXCEPT !.amount = @ + incoming.amount]
      [] existing.kind = "FixedAmount" -> existing
      [] incoming.kind = "FixedAmount" -> incoming
      [] OTHER -> existing

\* The shares so far with one more entry: an address already among them takes
\* it in.
WithEntry(shares, e) ==
    IF \E i \in DOMAIN shares : shares[i].b.address = e.b.address
    THEN [i \in DOMAIN shares |->
            IF shares[i].b.address = e.b.address
            THEN [b     |-> merge_allocation(shares[i].b, e.b),
                  share |-> shares[i].share + e.share]
            ELSE shares[i]]
    ELSE Append(shares, e)

\* Each address once, with its allocation and its total value share.
CombinedShares(la, va, lb, vb) ==
    LET valued == [i \in DOMAIN la |-> [b |-> la[i], share |-> ShareOf(la[i], va)]] \o
                  [i \in DOMAIN lb |-> [b |-> lb[i], share |-> ShareOf(lb[i], vb)]]
        upto[n \in 0..Len(valued)] ==
            IF n = 0 THEN << >> ELSE WithEntry(upto[n - 1], valued[n])
    IN  upto[Len(valued)]

\* Faulty: the rounding difference is left where it is.
FixRounding_skipped(list) == list

\* The last percentage entry takes up the difference to 100 %, except that an
\* excess it cannot absorb leaves it at 1 bp.
FixRounding(list) ==
    LET total == TotalOf(list, "Percentage")
        last  == Max(OfKind(list, "Percentage"))
    IN  IF OfKind(list, "Percentage") = {} \/ total = 10000
        THEN list
        ELSE [list EXCEPT ![last].amount =
                  IF total < 10000       THEN @ + (10000 - total)
                  ELSE IF @ > total - 10000 THEN @ - (total - 10000)
                  ELSE 1]

\* The basis points of a share in the two wills together.
Bps(share, value) == IF value > 0 THEN (share * 10000) \div value ELSE 0

\* The merged entry: a percentage that rounds to nothing becomes 1 bp.
MergedEntry(e, value) ==
    IF e.b.kind = "FixedAmount" THEN e.b
    ELSE [e.b EXCEPT !.amount = IF Bps(e.share, value) > 0 THEN Bps(e.share, value)
                                ELSE IF e.share > 0 THEN 1 ELSE 0]

\* A percentage of nothing only stays at the end of the list.
merge_beneficiaries(la, va, lb, vb) ==
    LET shares  == CombinedShares(la, va, lb, vb)
        Listed(i) == \/ shares[i].b.kind = "FixedAmount"
                     \/ Bps(shares[i].share, va + vb) > 0
                     \/ shares[i].share > 0
                     \/ i = Len(shares)
        upto[n \in 0..Len(shares)] ==
            IF n = 0 THEN << >>
            ELSE IF Listed(n) THEN Append(upto[n - 1], MergedEntry(shares[n], va + vb))
            ELSE upto[n - 1]
    IN  FixRounding(upto[Len(shares)])
=============================================================================
