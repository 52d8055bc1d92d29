---------------------------- MODULE MoneyProofs ----------------------------
(***************************************************************************)
(* Proofs about the money of the whole contract (PortfolioSpec): what the  *)
(* storage holds is of the declared types, and what the contract holds of  *)
(* a token covers, and is nothing but, what it owes.                       *)
(*                                                                         *)
(* The way there: every entry point leaves well-typed wills behind         *)
(* (StepTyped) and well-typed counters, statistics and indexes             *)
(* (StepFiled).  The payouts of a release move each payment out of the     *)
(* ledger or park it (PayoutsPay), and a plan that passes the conservation *)
(* check pays what the will held (NothingOver).  So every entry point but  *)
(* a release moves money between its owners only, and a release does if    *)
(* its plan is sound and pays nobody twice (StepBooks, BooksStay).         *)
(***************************************************************************)
EXTENDS TypeProofs

\* The smaller and the larger of two numbers.
LEMMA Extremes ==
    ASSUME NEW a \in Int, NEW b \in Int
    PROVE  /\ Min({a, b}) \in {a, b} /\ Min({a, b}) <= a /\ Min({a, b}) <= b
           /\ Max({a, b}) \in {a, b} /\ Max({a, b}) >= a /\ Max({a, b}) >= b
<1>1. Min({a, b}) \in {a, b} /\ \A y \in {a, b} : Min({a, b}) <= y
    BY DEF Min
<1>2. Max({a, b}) \in {a, b} /\ \A y \in {a, b} : Max({a, b}) >= y
    BY DEF Max
<1> QED  BY <1>1, <1>2

\* What is left after every entry of a list of n, when nobody takes more than
\* there is.
Dwindling(left, n, v0) ==
    /\ left \in [0..n -> Nat]
    /\ left[0] = v0
    /\ \A i \in 1..n : left[i] <= left[i - 1]

\* Only the entries of one kind take anything.
OnlyFor(kind, list, left) ==
    \A i \in 1..Len(list) : list[i].kind # kind => left[i] = left[i - 1]

LEMMA FixedDwindles ==
    ASSUME NEW list, list \in Seq(Beneficiary), NEW available \in Nat
    PROVE  /\ Dwindling(AfterFixed(list, available), Len(list), available)
           /\ OnlyFor("FixedAmount", list, AfterFixed(list, available))
<1> DEFINE N == Len(list)
           Left(n, v) == IF list[n].kind = "FixedAmount"
                         THEN v - Max({Min({list[n].amount, v}), 0}) ELSE v
           up == CHOOSE f : f = [n \in 0..N |-> IF n = 0 THEN available
                                                ELSE IF list[n].kind = "FixedAmount"
                                                THEN f[n - 1] - Max({Min({list[n].amount, f[n - 1]}), 0})
                                                ELSE f[n - 1]]
           V == Nat
           step == [n \in 1..N |-> [v \in V |-> Left(n, v)]]
<1>1. AfterFixed(list, available) = up
    BY DEF AfterFixed
<1>2. N \in Nat /\ \A n \in 1..N : list[n].amount \in Nat
    <2>1. \A n \in 1..N : list[n] \in Beneficiary
        OBVIOUS
    <2> QED  BY <2>1 DEF Beneficiary
<1> HIDE DEF N
<1>3. \A n \in 1..N : \A v \in Nat : Left(n, v) \in Nat /\ Left(n, v) <= v
    <2> SUFFICES ASSUME NEW n \in 1..N, NEW v \in Nat
                 PROVE  Left(n, v) \in Nat /\ Left(n, v) <= v
        OBVIOUS
    <2> DEFINE a == list[n].amount
    <2>1. a \in Nat
        BY <1>2
    <2> HIDE DEF a
    <2>2. Min({a, v}) \in Nat /\ Min({a, v}) <= v
        <3>1. a \in Int /\ v \in Int
            BY <2>1
        <3> HIDE DEF Left
        <3>2. Min({a, v}) \in {a, v} /\ Min({a, v}) <= v
            BY <3>1, Extremes
        <3> QED  BY <2>1, <3>2
    <2> DEFINE m == Min({a, v})
    <2> HIDE DEF m
    <2>3. Max({m, 0}) = m
        <3>1. m \in Int /\ 0 \in Int /\ m >= 0
            BY <2>2 DEF m
        <3>2. Max({m, 0}) \in {m, 0} /\ Max({m, 0}) >= m
            BY <3>1, Extremes
        <3> QED  BY <3>1, <3>2
    <2> QED  BY <2>2, <2>3 DEF a, m
<1>4. step \in Steps(N, V)
    BY <1>3 DEF Steps
<1>5. \A n \in 1..N : \A v \in V : step[n][v] = Left(n, v)
    OBVIOUS
<1>5a. available \in V
    OBVIOUS
<1> HIDE DEF step, V
<1>6. PICK f \in Results(N, V, available, step) :
        \A g : Follows(g, N, V, available, step) => \A n \in 0..N : g[n] = f[n]
    BY <1>2, <1>4, <1>5a, Iterates
<1>7. /\ \A n \in 0..N : f[n] \in Nat
      /\ f = [n \in 0..N |-> f[n]]
      /\ f[0] = available
      /\ \A n \in 1..N : f[n] = Left(n, f[n - 1]) /\ n - 1 \in 0..N /\ n \in 0..N /\ n # 0
    <2>1. \A n \in 1..N : n - 1 \in 0..N /\ n \in 0..N /\ n # 0
        BY <1>2
    <2> QED  BY <1>5, <2>1 DEF Results, V
<1>8. f = [n \in 0..N |-> IF n = 0 THEN available
                          ELSE IF list[n].kind = "FixedAmount"
                          THEN f[n - 1] - Max({Min({list[n].amount, f[n - 1]}), 0})
                          ELSE f[n - 1]]
    <2>1. \A n \in 0..N : n # 0 => n \in 1..N
        BY <1>2
    <2> QED  BY <1>7, <2>1
<1>9. up = [n \in 0..N |-> IF n = 0 THEN available
                           ELSE IF list[n].kind = "FixedAmount"
                           THEN up[n - 1] - Max({Min({list[n].amount, up[n - 1]}), 0})
                           ELSE up[n - 1]]
    BY <1>8, Zenon
<1> HIDE DEF up
<1>10. up[0] = available /\ \A n \in 1..N : up[n] = Left(n, up[n - 1])
    <2>1. 0 \in 0..N
        BY <1>2
    <2>2. up[0] = available
        BY <1>9, <2>1
    <2>3. ASSUME NEW n \in 1..N
          PROVE  up[n] = Left(n, up[n - 1])
        BY <1>7, <1>9, Zenon
    <2> QED  BY <2>2, <2>3
<1>11. Follows(up, N, V, available, step)
    BY <1>5, <1>10 DEF Follows
<1>12. \A n \in 0..N : up[n] = f[n]
    BY <1>6, <1>11
<1>13. up = [n \in 0..N |-> up[n]]
    BY <1>9
<1>14. Dwindling(up, N, available)
    <2>1. \A n \in 0..N : up[n] \in Nat
        BY <1>7, <1>12
    <2>2. \A n \in 1..N : up[n] <= up[n - 1]
        BY <1>3, <1>7, <1>10, <2>1
    <2> QED  BY <1>10, <1>13, <2>1, <2>2 DEF Dwindling
<1>15. OnlyFor("FixedAmount", list, up)
    BY <1>10 DEF OnlyFor, N
<1> QED  BY <1>1, <1>14, <1>15 DEF N

LEMMA PercentagesDwindle ==
    ASSUME NEW list, list \in Seq(Beneficiary), NEW remaining \in Nat
    PROVE  /\ Dwindling(AfterPercentages(list, remaining), Len(list), remaining)
           /\ OnlyFor("Percentage", list, AfterPercentages(list, remaining))
           /\ OfKind(list, "Percentage") = {}
                => AfterPercentages(list, remaining)[Len(list)] = remaining
<1> DEFINE N == Len(list)
           Own(n, v) == min_one_unit_share(proportional_share(remaining, list[n].amount), v,
                                            LaterShares(list, n))
           Left(n, v) == IF list[n].kind # "Percentage" THEN v
                         ELSE IF LaterShares(list, n) = 0 THEN 0
                         ELSE v - Own(n, v)
           up == CHOOSE f : f = [n \in 0..N |->
                    IF n = 0 THEN remaining
                    ELSE IF list[n].kind # "Percentage" THEN f[n - 1]
                    ELSE IF LaterShares(list, n) = 0 THEN 0
                    ELSE f[n - 1] - min_one_unit_share(
                                        proportional_share(remaining, list[n].amount),
                                        f[n - 1], LaterShares(list, n))]
           V == Nat
           step == [n \in 1..N |-> [v \in V |-> Left(n, v)]]
<1>1. AfterPercentages(list, remaining) = up
    BY DEF AfterPercentages
<1>2. /\ N \in Nat
      /\ \A n \in 1..N : proportional_share(remaining, list[n].amount) \in Nat
      /\ \A n \in 1..N : LaterShares(list, n) \in Nat
    <2>1. \A n \in 1..N : list[n] \in Beneficiary
        OBVIOUS
    <2>2. \A n \in 1..N : list[n].amount \in Nat
        BY <2>1 DEF Beneficiary
    <2>3. IsFiniteSet(OfKind(list, "Percentage"))
        BY ListTotals
    <2>4. \A n \in 1..N : LaterShares(list, n) \in Nat
        BY <2>3, FS_Subset, FS_CardinalityType DEF LaterShares
    <2>5. ASSUME NEW n \in 1..N
          PROVE  proportional_share(remaining, list[n].amount) \in Nat
        <3>1. list[n].amount \in Nat
            BY <2>2
        <3> QED  BY <3>1, ShareNatural
    <2> QED  BY <2>4, <2>5
<1> HIDE DEF N
<1>3. \A n \in 1..N : \A v \in Nat : Left(n, v) \in Nat /\ Left(n, v) <= v
    <2> SUFFICES ASSUME NEW n \in 1..N, NEW v \in Nat
                 PROVE  Left(n, v) \in Nat /\ Left(n, v) <= v
        OBVIOUS
    <2> DEFINE a == proportional_share(remaining, list[n].amount)
               k == LaterShares(list, n)
               cap == Max({v - k, 0})
               m == Max({a, 1})
    <2>1. a \in Int /\ k \in Nat /\ v - k \in Int /\ 0 \in Int /\ 1 \in Int
        BY <1>2
    <2>2. Own(n, v) = Min({m, cap})
        BY DEF min_one_unit_share
    <2> HIDE DEF a, k, Own
    <2>3. cap \in {v - k, 0} /\ cap >= 0
        BY <2>1, Extremes
    <2>4. m \in {a, 1} /\ m >= 1
        BY <2>1, Extremes
    <2> HIDE DEF cap, m
    <2>5. cap \in Int /\ m \in Int /\ cap >= 0 /\ cap <= v
        BY <2>1, <2>3, <2>4
    <2>6. Min({m, cap}) \in {m, cap} /\ Min({m, cap}) <= cap
        BY <2>5, Extremes
    <2>7. Own(n, v) \in Nat /\ Own(n, v) <= v
        BY <2>1, <2>2, <2>4, <2>5, <2>6
    <2> QED  BY <2>7
<1> HIDE DEF Own
<1>4. step \in Steps(N, V)
    BY <1>3 DEF Steps
<1>5. (\A n \in 1..N : \A v \in V : step[n][v] = Left(n, v)) /\ remaining \in V
    OBVIOUS
<1> HIDE DEF step, V
<1>6. PICK f \in Results(N, V, remaining, step) :
        \A g : Follows(g, N, V, remaining, step) => \A n \in 0..N : g[n] = f[n]
    BY <1>2, <1>4, <1>5, Iterates
<1>7. /\ \A n \in 0..N : f[n] \in Nat
      /\ f = [n \in 0..N |-> f[n]]
      /\ f[0] = remaining
      /\ \A n \in 1..N : f[n] = Left(n, f[n - 1]) /\ n - 1 \in 0..N /\ n \in 0..N /\ n # 0
    <2>1. \A n \in 1..N : n - 1 \in 0..N /\ n \in 0..N /\ n # 0
        BY <1>2
    <2> QED  BY <1>5, <2>1 DEF Results, V
<1>8. f = [n \in 0..N |->
                    IF n = 0 THEN remaining
                    ELSE IF list[n].kind # "Percentage" THEN f[n - 1]
                    ELSE IF LaterShares(list, n) = 0 THEN 0
                    ELSE f[n - 1] - min_one_unit_share(
                                        proportional_share(remaining, list[n].amount),
                                        f[n - 1], LaterShares(list, n))]
    <2>1. \A n \in 0..N : n # 0 => n \in 1..N
        BY <1>2
    <2> QED  BY <1>7, <2>1 DEF Own
<1>9. up = [n \in 0..N |->
                    IF n = 0 THEN remaining
                    ELSE IF list[n].kind # "Percentage" THEN up[n - 1]
                    ELSE IF LaterShares(list, n) = 0 THEN 0
                    ELSE up[n - 1] - min_one_unit_share(
                                        proportional_share(remaining, list[n].amount),
                                        up[n - 1], LaterShares(list, n))]
    BY <1>8, Zenon
<1> HIDE DEF up
<1>10. up[0] = remaining /\ \A n \in 1..N : up[n] = Left(n, up[n - 1])
    <2>1. 0 \in 0..N
        BY <1>2
    <2>2. up[0] = remaining
        BY <1>9, <2>1
    <2>3. ASSUME NEW n \in 1..N
          PROVE  up[n] = Left(n, up[n - 1])
        BY <1>7, <1>9, Zenon DEF Own
    <2> QED  BY <2>2, <2>3
<1>11. Follows(up, N, V, remaining, step)
    BY <1>5, <1>10 DEF Follows
<1>12. \A n \in 0..N : up[n] = f[n]
    BY <1>6, <1>11
<1>13. up = [n \in 0..N |-> up[n]]
    BY <1>9
<1>14. Dwindling(up, N, remaining)
    <2>1. \A n \in 0..N : up[n] \in Nat
        BY <1>7, <1>12
    <2>2. \A n \in 1..N : up[n] <= up[n - 1]
        BY <1>3, <1>7, <1>10, <2>1
    <2> QED  BY <1>10, <1>13, <2>1, <2>2 DEF Dwindling
<1>15. ASSUME OfKind(list, "Percentage") = {}
       PROVE  up[N] = remaining
    <2>1. \A n \in 1..N : up[n] = up[n - 1]
        BY <1>10, <1>15 DEF OfKind, N
    <2>2. up \in [0..N -> Int]
        BY <1>14 DEF Dwindling
    <2> DEFINE none == [n \in 1..N |-> 0]
    <2>3. \A n \in 1..N : none[n] = up[n - 1] - up[n]
        BY <1>7, <1>12, <2>1
    <2>4. (\A n \in 1..N : none[n] = 0) /\ IsFiniteSet(1..N)
        BY <1>2, FS_Interval
    <2> HIDE DEF none
    <2>5. SumFunctionOnSet(none, 1..N) = up[0] - up[N]
        BY <1>2, <2>2, <2>3, SumOfSteps
    <2>6. SumFunctionOnSet(none, 1..N) = 0
        BY <2>4, SumOfZeros
    <2>7. up[N] \in Nat
        BY <1>2, <1>7, <1>12
    <2> QED  BY <1>10, <2>5, <2>6, <2>7
<1>16. OnlyFor("Percentage", list, up)
    BY <1>10 DEF OnlyFor, N
<1> QED  BY <1>1, <1>14, <1>15, <1>16 DEF N

Share == [to : Accounts, amount : Nat]

\* What a list dwindles by is the list of shares.
LEMMA SharesTyped ==
    ASSUME NEW list, list \in Seq(Beneficiary), NEW v0, NEW left, Dwindling(left, Len(list), v0)
    PROVE  /\ SharesOf(list, left) \in Seq(Share)
           /\ Len(SharesOf(list, left)) = Len(list)
           /\ \A i \in 1..Len(list) : SharesOf(list, left)[i].amount = left[i - 1] - left[i]
<1> DEFINE N == Len(list)
           shares == SharesOf(list, left)
<1>1. N \in Nat /\ \A i \in 1..N : list[i] \in Beneficiary /\ i - 1 \in 0..N /\ i \in 0..N
    OBVIOUS
<1>2. shares = [i \in 1..N |-> [to |-> list[i].address, amount |-> left[i - 1] - left[i]]]
    BY DEF SharesOf
<1>3. left \in [0..N -> Nat] /\ \A i \in 1..N : left[i] <= left[i - 1]
    BY DEF Dwindling
<1> HIDE DEF N, shares
<1>4. \A i \in 1..N : shares[i] \in Share
    <2> SUFFICES ASSUME NEW i \in 1..N PROVE shares[i] \in Share
        OBVIOUS
    <2>1. list[i].address \in Accounts
        BY <1>1 DEF Beneficiary
    <2>2. left[i - 1] \in Nat /\ left[i] \in Nat /\ left[i] <= left[i - 1]
        BY <1>1, <1>3
    <2>3. left[i - 1] - left[i] \in Nat
        BY <2>2
    <2> QED  BY <1>2, <2>1, <2>3 DEF Share
<1>5. shares \in Seq(Share) /\ Len(shares) = N
    BY <1>1, <1>2, <1>4
<1> QED  BY <1>2, <1>5 DEF N, shares

\* Whatever the keeper, the token the conservation check counts the bounty of is
\* the one that pays it: there is no bounty, or that of the first funded token
\* does not round to nothing.
BountyFromFirst(w) ==
    \/ w.keeper_bounty_bps = 0
    \/ keeper_bounty(w.balances[Min(FundedTokens(w))], w.keeper_bounty_bps) > 0

LEMMA LeastNumber ==
    ASSUME NEW S, S \subseteq Nat, S # {}
    PROVE  Min(S) \in S /\ \A x \in S : Min(S) <= x
<1>1. PICK n \in S : n \in Nat
    OBVIOUS
<1> DEFINE B == {k \in 0..n : \E x \in S : x <= k}
<1>2. PICK m \in B : m = 0 \/ m - 1 \notin B
    <2>1. n \in B
        BY <1>1
    <2>2. B \subseteq 0..n /\ B # {}
        BY <2>1
    <2> HIDE DEF B
    <2> QED  BY ONLY <1>1, <2>2, FirstOf
<1>3. PICK x \in S : x <= m
    BY <1>2
<1>4. \A y \in S : ~ (y < x)
    <2> SUFFICES ASSUME NEW y \in S, y < x PROVE FALSE
        OBVIOUS
    <2>1. x \in Nat /\ y \in Nat /\ m \in 0..n
        BY <1>2
    <2>2. m # 0 /\ m - 1 \in 0..n /\ y <= m - 1
        BY <1>1, <1>3, <2>1
    <2> QED  BY <1>2, <2>2
<1>5. \A y \in S : x <= y
    BY <1>4
<1>6. \E z \in S : \A y \in S : z <= y
    BY <1>5
<1> QED  BY <1>6, Zenon DEF Min

LEMMA BountyCounted ==
    ASSUME NEW w, TypedWill(w), NEW keeper, NEW t \in FundedTokens(w), BountyFromFirst(w)
    PROVE  TokenPlan(w, keeper, t).bounty =
                IF should_pay_bounty(w, keeper) /\ t = Min(FundedTokens(w))
                THEN keeper_bounty(w.balances[t], w.keeper_bounty_bps) ELSE 0
<1> DEFINE owed == keeper_bounty(w.balances[t], w.keeper_bounty_bps)
           funded == FundedTokens(w)
           paying == BountyTokens(w, keeper)
           m == Min(funded)
<1>1. TokenPlan(w, keeper, t).bounty = IF paying # {} /\ t = Min(paying) THEN owed ELSE 0
    BY Zenon DEF TokenPlan
<1>2. CASE ~ should_pay_bounty(w, keeper)
    <2>1. paying = {}
        BY <1>2 DEF BountyTokens
    <2> QED  BY <1>1, <1>2, <2>1
<1>3. CASE should_pay_bounty(w, keeper)
    <2>1. IsBalances(w.balances) /\ w.keeper_bounty_bps \in Nat
        BY Opened DEF TypedFields
    <2>2. funded \subseteq Tokens /\ Tokens \subseteq Nat /\ funded # {}
        BY <2>1, BoundsAssumption DEF IsBalances, FundedTokens
    <2>3. funded \subseteq Nat
        BY <2>2
    <2>4. m \in funded /\ \A x \in funded : m <= x
        <3> HIDE DEF funded
        <3> QED  BY ONLY <2>2, <2>3, LeastNumber, Zenon DEF m
    <2>5. w.keeper_bounty_bps # 0
        BY <1>3, <2>1 DEF should_pay_bounty
    <2>6. keeper_bounty(w.balances[m], w.keeper_bounty_bps) > 0
        BY <2>5 DEF BountyFromFirst
    <2>7. m \in paying /\ paying \subseteq funded
        BY <1>3, <2>4, <2>6 DEF BountyTokens
    <2> HIDE DEF m, funded, paying, owed
    <2>8. paying \subseteq Nat /\ paying # {}
        BY <2>3, <2>7
    <2>9. Min(paying) \in paying /\ \A x \in paying : Min(paying) <= x
        BY ONLY <2>8, LeastNumber, Zenon
    <2>10. Min(paying) = m
        <3>1. Min(paying) <= m /\ m <= Min(paying) /\ m \in Nat /\ Min(paying) \in Nat
            BY <2>3, <2>4, <2>7, <2>8, <2>9
        <3> QED  BY <3>1
    <2>11. TokenPlan(w, keeper, t).bounty = IF t = m THEN owed ELSE 0
        BY <1>1, <2>8, <2>10
    <2> QED  BY <1>3, <2>11 DEF m, owed, funded
<1> QED  BY <1>2, <1>3

\* The plan of a release for one token: nobody is given less than nothing, and
\* without percentage heirs the plan is of what is there, no more and no less.
LEMMA PlanTyped ==
    ASSUME NEW w, TypedWill(w), NEW keeper, NEW t \in DOMAIN w.balances,
           NEW p, p = TokenPlan(w, keeper, t)
    PROVE  /\ p.shares \in Seq(Share)
           /\ p.refund \in Nat /\ p.bounty \in Nat /\ p.reserve \in Nat
           /\ p.bounty > 0 => should_pay_bounty(w, keeper)
           /\ TotalAmount(p.shares) \in Nat
           /\ OfKind(w.beneficiaries, "Percentage") = {}
                => TotalAmount(p.shares) + p.refund + p.bounty + p.reserve = w.balances[t]
           /\ t \in FundedTokens(w) /\ BountyFromFirst(w)
                => p.planned = p.bounty + TotalAmount(p.shares) + p.refund
<1> DEFINE list  == w.beneficiaries
           N     == Len(list)
           total == w.balances[t]
           available == total - p.bounty - p.reserve
           fixed == IF t = w.token THEN AfterFixed(list, available)
                    ELSE [n \in 0..N |-> available]
           left  == fixed[N]
           parts == AfterPercentages(list, left)
           shares == SharesOf(list, fixed) \o SharesOf(list, parts)
           owed  == keeper_bounty(total, w.keeper_bounty_bps)
           counted == IF should_pay_bounty(w, keeper) /\ t = Min(FundedTokens(w)) THEN owed ELSE 0
           joined == [n \in 0..(2 * N) |-> IF n <= N THEN fixed[n] ELSE parts[n - N]]
<1>1. /\ p.reserve \in Nat /\ p.bounty \in Nat
      /\ p.bounty + p.reserve <= total
    BY ReserveWithin
<1>2. list \in Seq(Beneficiary) /\ IsBalances(w.balances) /\ w.keeper_bounty_bps \in Nat
    BY Opened DEF TypedFields
<1>3. total \in Nat /\ N \in Nat
    BY <1>2 DEF IsBalances
<1>4. available \in Nat
    BY <1>1, <1>3
<1>5. /\ p.shares = shares /\ p.refund = left /\ p.planned = counted + TotalAmount(shares) + left
      /\ p.bounty = IF BountyTokens(w, keeper) # {} /\ t = Min(BountyTokens(w, keeper))
                    THEN owed ELSE 0
    BY Zenon DEF TokenPlan
<1>6. p.bounty > 0 => should_pay_bounty(w, keeper)
    <2>1. BountyTokens(w, keeper) # {} => should_pay_bounty(w, keeper)
        BY DEF BountyTokens
    <2>2. CASE BountyTokens(w, keeper) = {}
        <3>1. p.bounty = 0
            BY <1>5, <2>2, Zenon
        <3> QED  BY ONLY <3>1
    <2> QED  BY ONLY <2>1, <2>2, Zenon
<1>7. t \in FundedTokens(w) /\ BountyFromFirst(w) => counted = p.bounty
    BY BountyCounted
<1> HIDE DEF available, list, total, counted, owed
<1>8. Dwindling(fixed, N, available)
    <2>1. CASE t = w.token
        BY <1>2, <1>4, <2>1, FixedDwindles
    <2>2. CASE t # w.token
        BY <1>3, <1>4, <2>2 DEF Dwindling
    <2> QED  BY <2>1, <2>2
<1> HIDE DEF fixed
<1>9. left \in Nat
    BY <1>3, <1>8 DEF Dwindling
<1> HIDE DEF left
<1>10. Dwindling(parts, N, left) /\ (OfKind(list, "Percentage") = {} => parts[N] = left)
    BY <1>2, <1>9, PercentagesDwindle
<1> HIDE DEF parts
<1>11. /\ SharesOf(list, fixed) \in Seq(Share) /\ Len(SharesOf(list, fixed)) = N
       /\ \A i \in 1..N : SharesOf(list, fixed)[i].amount = fixed[i - 1] - fixed[i]
    BY <1>2, <1>8, SharesTyped
<1>12. /\ SharesOf(list, parts) \in Seq(Share) /\ Len(SharesOf(list, parts)) = N
       /\ \A i \in 1..N : SharesOf(list, parts)[i].amount = parts[i - 1] - parts[i]
    BY <1>2, <1>10, SharesTyped
<1>13. /\ shares \in Seq(Share) /\ Len(shares) = 2 * N
       /\ \A i \in 1..N : shares[i] = SharesOf(list, fixed)[i]
       /\ \A i \in (N + 1)..(2 * N) : shares[i] = SharesOf(list, parts)[i - N]
    <2> DEFINE a == SharesOf(list, fixed)
               b == SharesOf(list, parts)
    <2>1. a \in Seq(Share) /\ Len(a) = N /\ b \in Seq(Share) /\ Len(b) = N
        BY <1>11, <1>12
    <2> HIDE DEF a, b, N
    <2>2. a \o b \in Seq(Share) /\ Len(a \o b) = 2 * N
        BY <1>3, <2>1
    <2>3. \A i \in 1..N : (a \o b)[i] = a[i]
        BY <1>3, <2>1
    <2>4. \A i \in (N + 1)..(2 * N) : (a \o b)[i] = b[i - N]
        BY <1>3, <2>1
    <2> QED  BY <2>2, <2>3, <2>4 DEF a, b
<1> HIDE DEF shares, N
<1>14. joined \in [0..(2 * N) -> Int] /\ joined[0] = available /\ joined[2 * N] = parts[N]
    <2>1. fixed \in [0..N -> Nat] /\ fixed[0] = available /\ fixed[N] = left
        BY <1>8 DEF Dwindling, left, N
    <2>2. parts \in [0..N -> Nat] /\ parts[0] = left
        BY <1>10 DEF Dwindling
    <2>3. \A n \in 0..(2 * N) : n <= N => n \in 0..N
        BY <1>3
    <2>4. \A n \in 0..(2 * N) : ~ (n <= N) => n - N \in 0..N
        BY <1>3
    <2>5. \A n \in 0..(2 * N) : joined[n] \in Int
        BY <2>1, <2>2, <2>3, <2>4
    <2>6. joined[0] = available
        BY <1>3, <2>1
    <2>7. joined[2 * N] = parts[N]
        <3>1. CASE N = 0
            BY <2>1, <2>2, <3>1
        <3>2. CASE N # 0
            <4>1. 2 * N \in 0..(2 * N) /\ ~ (2 * N <= N) /\ 2 * N - N = N
                BY <1>3, <3>2
            <4> QED  BY <4>1
        <3> QED  BY <3>1, <3>2
    <2> QED  BY <2>5, <2>6, <2>7
<1>15. \A i \in 1..(2 * N) : Amounts(shares)[i] = joined[i - 1] - joined[i]
    <2> SUFFICES ASSUME NEW i \in 1..(2 * N)
                 PROVE  Amounts(shares)[i] = joined[i - 1] - joined[i]
        OBVIOUS
    <2>1. Amounts(shares)[i] = shares[i].amount
        BY <1>13 DEF Amounts
    <2>2. fixed[N] = parts[0]
        BY <1>10 DEF Dwindling, left, N
    <2>3. CASE i <= N
        <3>1. i \in 1..N /\ i - 1 \in 0..(2 * N) /\ i \in 0..(2 * N) /\ i - 1 <= N
            BY <1>3, <2>3
        <3>2. joined[i - 1] = fixed[i - 1] /\ joined[i] = fixed[i]
            BY <2>3, <3>1
        <3> QED  BY <1>11, <1>13, <2>1, <3>1, <3>2
    <2>4. CASE ~ (i <= N)
        <3>1. i \in (N + 1)..(2 * N) /\ i - N \in 1..N /\ i - 1 \in 0..(2 * N) /\ i \in 0..(2 * N)
            BY <1>3, <2>4
        <3>2. joined[i] = parts[i - N]
            BY <2>4, <3>1
        <3>3. joined[i - 1] = parts[(i - N) - 1]
            <4>1. CASE i = N + 1
                <5>1. i - 1 = N /\ (i - N) - 1 = 0
                    BY <1>3, <4>1
                <5> QED  BY <2>2, <3>1, <5>1
            <4>2. CASE i # N + 1
                <5>1. ~ (i - 1 <= N) /\ (i - 1) - N = (i - N) - 1
                    BY <1>3, <2>4, <4>2
                <5> QED  BY <3>1, <5>1
            <4> QED  BY <4>1, <4>2
        <3>4. shares[i].amount = parts[(i - N) - 1] - parts[i - N]
            BY <1>12, <1>13, <3>1
        <3> QED  BY <2>1, <3>2, <3>3, <3>4
    <2> QED  BY <2>3, <2>4
<1> HIDE DEF joined
<1>16. TotalAmount(shares) = available - parts[N]
    <2>1. DOMAIN Amounts(shares) = 1..(2 * N) /\ 2 * N \in Nat
        BY <1>3, <1>13 DEF Amounts
    <2> DEFINE M == 2 * N
    <2> HIDE DEF M
    <2>2. SumFunctionOnSet(Amounts(shares), 1..M) = joined[0] - joined[M]
        BY <1>14, <1>15, <2>1, SumOfSteps DEF M
    <2> QED  BY <1>14, <2>1, <2>2 DEF TotalAmount, SumFunction, M
<1>17. TotalAmount(shares) \in Nat
    <2>1. DOMAIN Amounts(shares) = 1..(2 * N) /\ IsFiniteSet(1..(2 * N))
        BY <1>3, <1>13, FS_Interval DEF Amounts
    <2>2. \A i \in 1..(2 * N) : Amounts(shares)[i] \in Nat
        <3>1. \A i \in 1..(2 * N) : shares[i] \in Share
            BY <1>13
        <3> QED  BY <1>13, <3>1 DEF Amounts, Share
    <2> QED  BY <2>1, <2>2, SumNatural DEF TotalAmount, SumFunction
<1>18. parts[N] \in Nat
    BY <1>3, <1>10 DEF Dwindling
<1>19. OfKind(list, "Percentage") = {} => TotalAmount(shares) + left = available
    BY <1>4, <1>9, <1>10, <1>16, <1>18
<1>20. available = total - p.bounty - p.reserve
    BY DEF available
<1>21. OfKind(list, "Percentage") = {} => TotalAmount(shares) + left + p.bounty + p.reserve = total
    BY <1>1, <1>3, <1>9, <1>17, <1>19, <1>20
<1>22. t \in FundedTokens(w) /\ BountyFromFirst(w)
            => p.planned = p.bounty + TotalAmount(shares) + left
    BY <1>5, <1>7
<1> QED  BY <1>1, <1>5, <1>6, <1>9, <1>13, <1>17, <1>21, <1>22 DEF list, total

----------------------------------------------------------------------------
(* The order of a Map *)

LEMMA LargestOf ==
    ASSUME NEW S, IsFiniteSet(S), S \subseteq Nat, S # {}
    PROVE  \E m \in S : \A x \in S : x <= m
<1> DEFINE Bounded(s) == \E m \in s : \A x \in s : x <= m
           T == {s \in SUBSET S : s # {} /\ ~ Bounded(s)}
<1>1. T = {}
    <2> SUFFICES ASSUME T # {} PROVE FALSE
        OBVIOUS
    <2>1. PICK s \in T : \A x \in s : s \ {x} \notin T
        BY SmallestPart
    <2>2. PICK x \in s : TRUE
        BY <2>1
    <2>3. CASE s \ {x} = {}
        <3>1. \A y \in s : y <= x
            BY <2>1, <2>2, <2>3
        <3> QED  BY <2>1, <2>2, <3>1
    <2>4. CASE s \ {x} # {}
        <3>1. PICK m \in s \ {x} : \A y \in s \ {x} : y <= m
            BY <2>1, <2>2, <2>4
        <3>2. m \in Nat /\ x \in Nat
            BY <2>1, <2>2, <3>1
        <3>3. CASE x <= m
            <4>1. \A y \in s : y <= m
                BY <3>1, <3>3
            <4> QED  BY <2>1, <3>1, <4>1
        <3>4. CASE m <= x
            <4>1. \A y \in s : y \in Nat /\ y <= x
                BY <2>1, <2>2, <3>1, <3>2, <3>4
            <4> QED  BY <2>1, <2>2, <4>1
        <3> QED  BY <3>2, <3>3, <3>4
    <2> QED  BY <2>3, <2>4
<1> QED  BY <1>1

\* The keys of a finite map can be listed in their order.
LEMMA OrderExists ==
    ASSUME NEW keys, IsFiniteSet(keys), keys \subseteq Nat
    PROVE  /\ MapOrder(keys) \in [1..Cardinality(keys) -> keys]
           /\ IsMapOrder(MapOrder(keys), keys)
<1> DEFINE Listed(s) == \E order \in [1..Cardinality(s) -> s] : IsMapOrder(order, s)
           T == {s \in SUBSET keys : ~ Listed(s)}
<1>1. T = {}
    <2> SUFFICES ASSUME T # {} PROVE FALSE
        OBVIOUS
    <2>1. PICK s \in T : \A x \in s : s \ {x} \notin T
        BY SmallestPart
    <2>2. IsFiniteSet(s) /\ s \subseteq Nat
        BY <2>1, FS_Subset
    <2>3. CASE s = {}
        <3>1. Cardinality(s) = 0
            BY <2>3, FS_EmptySet
        <3>2. << >> \in [1..0 -> s] /\ IsMapOrder(<< >>, s)
            BY <2>3 DEF IsMapOrder
        <3> QED  BY <2>1, <3>1, <3>2
    <2>4. CASE s # {}
        <3>1. PICK m \in s : \A x \in s : x <= m
            BY <2>2, <2>4, LargestOf
        <3> DEFINE r == s \ {m}
                   n == Cardinality(r)
        <3>2. n \in Nat /\ Cardinality(s) = n + 1
            <4>1. IsFiniteSet(r) /\ m \notin r /\ r \cup {m} = s
                BY <2>2, <3>1, FS_Subset
            <4> HIDE DEF r
            <4> QED  BY <4>1, FS_AddElement, FS_CardinalityType
        <3>3. PICK order \in [1..n -> r] : IsMapOrder(order, r)
            BY <2>1, <3>1
        <3> HIDE DEF n
        <3> DEFINE longer == [i \in 1..(n + 1) |-> IF i = n + 1 THEN m ELSE order[i]]
        <3>4. \A i \in 1..n : i \in 1..(n + 1) /\ i # n + 1 /\ order[i] \in r /\ longer[i] = order[i]
            BY <3>2, <3>3
        <3>5. n + 1 \in 1..(n + 1) /\ longer[n + 1] = m
            BY <3>2
        <3>6. longer \in [1..(n + 1) -> s]
            BY <3>1, <3>2, <3>3
        <3>7. \A k \in s : \E i \in 1..(n + 1) : longer[i] = k
            <4> SUFFICES ASSUME NEW k \in s PROVE \E i \in 1..(n + 1) : longer[i] = k
                OBVIOUS
            <4>1. CASE k = m
                BY <3>5, <4>1
            <4>2. CASE k # m
                <5>1. PICK i \in 1..n : order[i] = k
                    BY <3>3, <4>2 DEF IsMapOrder
                <5> QED  BY <3>4, <5>1
            <4> QED  BY <4>1, <4>2
        <3>8. \A i, j \in 1..(n + 1) : i < j => longer[i] < longer[j]
            <4> SUFFICES ASSUME NEW i \in 1..(n + 1), NEW j \in 1..(n + 1), i < j
                         PROVE  longer[i] < longer[j]
                OBVIOUS
            <4>1. i \in 1..n
                BY <3>2
            <4>2. CASE j = n + 1
                <5>1. longer[i] \in r
                    BY <3>4, <4>1
                <5>2. longer[i] \in Nat /\ m \in Nat /\ longer[i] <= m /\ longer[i] # m
                    BY <2>2, <3>1, <5>1
                <5> QED  BY <3>5, <4>2, <5>2
            <4>3. CASE j # n + 1
                <5>1. j \in 1..n
                    BY <3>2, <4>3
                <5> QED  BY <3>3, <3>4, <4>1, <5>1 DEF IsMapOrder
            <4> QED  BY <4>2, <4>3
        <3> HIDE DEF longer
        <3>9. IsMapOrder(longer, s)
            BY <3>6, <3>7, <3>8 DEF IsMapOrder
        <3> QED  BY <2>1, <3>2, <3>6, <3>9
    <2> QED  BY <2>3, <2>4
<1>2. Listed(keys)
    BY <1>1
<1> QED  BY <1>2 DEF MapOrder

----------------------------------------------------------------------------
(* The ledgers and the parked payouts *)

Parkings == UNION {[K -> Nat] : K \in SUBSET PayoutKeys}
Ledgers  == [Tokens -> [Accounts \cup {Contract} -> Nat]]
Books    == [failed : Parkings, bank : Ledgers]

LEMMA ParkingsAre ==
    \A f : f \in Parkings <=> /\ DOMAIN f \subseteq PayoutKeys
                              /\ f = [key \in DOMAIN f |-> f[key]]
                              /\ \A key \in DOMAIN f : f[key] \in Nat
<1>1. ASSUME NEW f, DOMAIN f \subseteq PayoutKeys, f = [key \in DOMAIN f |-> f[key]],
             \A key \in DOMAIN f : f[key] \in Nat
      PROVE  f \in Parkings
    <2>1. f \in [DOMAIN f -> Nat]
        BY <1>1
    <2> QED  BY <1>1, <2>1 DEF Parkings
<1>2. ASSUME NEW f \in Parkings
      PROVE  /\ DOMAIN f \subseteq PayoutKeys
             /\ f = [key \in DOMAIN f |-> f[key]]
             /\ \A key \in DOMAIN f : f[key] \in Nat
    <2>1. PICK K \in SUBSET PayoutKeys : f \in [K -> Nat]
        BY DEF Parkings
    <2> QED  BY <2>1
<1> QED  BY <1>1, <1>2

\* What the contract holds of token t beyond what it has parked of it.
ParkedOf(failed, t) == SumFunctionOnSet(failed, {key \in DOMAIN failed : key[2] = t})
Spare(books, t) == books.bank[t][Contract] - ParkedOf(books.failed, t)

LEMMA FewKeys ==
    ASSUME NEW t, NEW S, S \subseteq PayoutKeys, \A key \in S : key[2] = t
    PROVE  IsFiniteSet(S)
<1> DEFINE all == {<<id, t, a>> : id \in WillIds, a \in Accounts}
           pairs == WillIds \X Accounts
           image == [p \in pairs |-> <<p[1], t, p[2]>>]
<1>1. IsFiniteSet(WillIds) /\ IsFiniteSet(Accounts)
    BY BoundsAssumption, AccountsAssumption, FS_Interval DEF WillIds
<1>2. IsFiniteSet(pairs)
    BY <1>1, FS_Product
<1>3. image \in Surjection(pairs, all)
    <2>1. \A p \in pairs : image[p] \in all
        OBVIOUS
    <2>2. \A x \in all : \E p \in pairs : image[p] = x
        <3> SUFFICES ASSUME NEW x \in all PROVE \E p \in pairs : image[p] = x
            OBVIOUS
        <3>0. PICK id \in WillIds, a \in Accounts : x = <<id, t, a>>
            OBVIOUS
        <3> DEFINE p == <<id, a>>
        <3>1. p \in pairs /\ p[1] = id /\ p[2] = a
            OBVIOUS
        <3> HIDE DEF p
        <3>2. image[p] = <<p[1], t, p[2]>>
            BY <3>1
        <3> QED  BY <3>0, <3>1, <3>2
    <2> HIDE DEF all
    <2>3. image \in [pairs -> all]
        BY <2>1
    <2> HIDE DEF image, pairs
    <2> QED  BY <2>2, <2>3 DEF Surjection
<1>4. IsFiniteSet(all)
    BY <1>2, <1>3, FS_Surjection
<1>5. S \subseteq all
    <2> SUFFICES ASSUME NEW key \in S PROVE key \in all
        OBVIOUS
    <2>1. PICK id \in WillIds, x \in Tokens, a \in Accounts : key = <<id, x, a>>
        BY DEF PayoutKeys
    <2>2. x = t
        BY <2>1
    <2> QED  BY <2>1, <2>2
<1> QED  BY <1>4, <1>5, FS_Subset

\* What parking one payout does to the parked sums.
LEMMA ParkedTyped ==
    ASSUME NEW failed, DOMAIN failed \subseteq PayoutKeys, \A key \in DOMAIN failed : failed[key] \in Nat,
           NEW t
    PROVE  ParkedOf(failed, t) \in Nat /\ IsFiniteSet({key \in DOMAIN failed : key[2] = t})
<1> DEFINE S == {key \in DOMAIN failed : key[2] = t}
<1>1. IsFiniteSet(S)
    BY FewKeys
<1>2. \A key \in S : failed[key] \in Nat
    OBVIOUS
<1> HIDE DEF S
<1>3. SumFunctionOnSet(failed, S) \in Nat
    BY <1>1, <1>2, SumNatural
<1> QED  BY <1>1, <1>3 DEF ParkedOf, S

LEMMA OneMoreParked ==
    ASSUME NEW failed, DOMAIN failed \subseteq PayoutKeys, \A key \in DOMAIN failed : failed[key] \in Nat,
           NEW k \in PayoutKeys, NEW a \in Nat, NEW t
    PROVE  ParkedOf(Put(failed, k, a), t)
                = ParkedOf(failed, t)
                    + (IF k[2] = t THEN a - (IF k \in DOMAIN failed THEN failed[k] ELSE 0) ELSE 0)
<1> DEFINE new == Put(failed, k, a)
           S == {key \in DOMAIN failed : key[2] = t}
           R == {key \in DOMAIN new : key[2] = t}
<1>1. DOMAIN new = DOMAIN failed \cup {k} /\ new[k] = a
      /\ \A key \in DOMAIN failed : key # k => new[key] = failed[key]
    BY DEF Put
<1> HIDE DEF new
<1>2. IsFiniteSet(S) /\ IsFiniteSet(R) /\ ParkedOf(failed, t) \in Nat
    BY <1>1, ParkedTyped, FewKeys
<1>3. ParkedOf(failed, t) = SumFunctionOnSet(failed, S) /\ ParkedOf(new, t) = SumFunctionOnSet(new, R)
    BY DEF ParkedOf
<1>4. CASE k[2] # t
    <2>1. R = S /\ (\A key \in S : failed[key] \in Int /\ new[key] = failed[key])
        BY <1>1, <1>4
    <2> HIDE DEF R, S
    <2>2. SumFunctionOnSet(new, S) = SumFunctionOnSet(failed, S)
        BY <1>2, <2>1, SumSame
    <2> QED  BY <1>2, <1>3, <1>4, <2>1, <2>2 DEF new
<1>5. CASE k[2] = t /\ k \in DOMAIN failed
    <2>1. R = S /\ k \in S /\ (\A key \in S : failed[key] \in Int) /\ new[k] \in Int
          /\ (\A key \in S \ {k} : new[key] = failed[key])
        BY <1>1, <1>5
    <2> HIDE DEF R, S
    <2>2. SumFunctionOnSet(new, S) = SumFunctionOnSet(failed, S) + new[k] - failed[k]
        BY <1>2, <2>1, SumChangesAt
    <2> QED  BY <1>1, <1>2, <1>3, <1>5, <2>1, <2>2 DEF new
<1>6. CASE k[2] = t /\ k \notin DOMAIN failed
    <2>1. k \in R /\ R \ {k} = S /\ (\A key \in R : new[key] \in Int)
          /\ (\A key \in S : failed[key] \in Int /\ new[key] = failed[key])
        BY <1>1, <1>6
    <2> HIDE DEF R, S
    <2>2. SumFunctionOnSet(new, R) = new[k] + SumFunctionOnSet(new, R \ {k})
        BY <1>2, <2>1, SumTakeOut
    <2>3. SumFunctionOnSet(new, S) = SumFunctionOnSet(failed, S)
        BY <1>2, <2>1, SumSame
    <2> QED  BY <1>1, <1>2, <1>3, <1>6, <2>1, <2>2, <2>3 DEF new
<1> QED  BY <1>4, <1>5, <1>6

\* A transfer of what is there, from or to the contract.
LEMMA TransferTyped ==
    ASSUME NEW ledger \in Ledgers, NEW t \in Tokens, NEW a \in Accounts, NEW amount \in Nat
    PROVE  /\ ledger[t][Contract] >= amount =>
                /\ Transferred(ledger, t, Contract, a, amount) \in Ledgers
                /\ \A x \in Tokens : Transferred(ledger, t, Contract, a, amount)[x][Contract]
                        = ledger[x][Contract] - (IF t = x THEN amount ELSE 0)
           /\ ledger[t][a] >= amount =>
                /\ Transferred(ledger, t, a, Contract, amount) \in Ledgers
                /\ \A x \in Tokens : Transferred(ledger, t, a, Contract, amount)[x][Contract]
                        = ledger[x][Contract] + (IF t = x THEN amount ELSE 0)
<1>1. /\ ledger \in [Tokens -> [Accounts \cup {Contract} -> Nat]]
      /\ a # Contract /\ ledger[t][Contract] \in Nat /\ ledger[t][a] \in Nat
      /\ a \in Accounts \cup {Contract} /\ Contract \in Accounts \cup {Contract}
    BY AccountsAssumption DEF Ledgers
<1> DEFINE Both == Accounts \cup {Contract}
<1>2. ASSUME NEW from \in Both, NEW to \in Both, from # to, ledger[t][from] >= amount
      PROVE  /\ Transferred(ledger, t, from, to, amount) \in Ledgers
             /\ \A x \in Tokens, c \in Both : Transferred(ledger, t, from, to, amount)[x][c]
                    = IF x # t THEN ledger[x][c]
                      ELSE IF c = to THEN ledger[t][c] + amount
                      ELSE IF c = from THEN ledger[t][c] - amount
                      ELSE ledger[t][c]
    <2>1. ledger \in [Tokens -> [Both -> Nat]] /\ ledger[t] \in [Both -> Nat]
          /\ ledger[t][from] \in Nat /\ ledger[t][to] \in Nat
        BY <1>1
    <2> DEFINE row == [ledger[t] EXCEPT ![from] = @ - amount, ![to] = @ + amount]
    <2> HIDE DEF Both
    <2>2. /\ row \in [Both -> Nat]
          /\ \A c \in Both : row[c] = IF c = to THEN ledger[t][c] + amount
                                     ELSE IF c = from THEN ledger[t][c] - amount
                                     ELSE ledger[t][c]
        BY <1>2, <2>1
    <2>3. Transferred(ledger, t, from, to, amount) = [ledger EXCEPT ![t] = row]
        BY DEF Transferred
    <2> HIDE DEF row
    <2>4. [ledger EXCEPT ![t] = row] \in [Tokens -> [Both -> Nat]]
        BY <2>1, <2>2
    <2>5. \A x \in Tokens : [ledger EXCEPT ![t] = row][x] = IF x = t THEN row ELSE ledger[x]
        BY <2>1
    <2> QED  BY <2>2, <2>3, <2>4, <2>5 DEF Ledgers, Both
<1>3. ASSUME ledger[t][Contract] >= amount
      PROVE  /\ Transferred(ledger, t, Contract, a, amount) \in Ledgers
             /\ \A x \in Tokens : Transferred(ledger, t, Contract, a, amount)[x][Contract]
                        = ledger[x][Contract] - (IF t = x THEN amount ELSE 0)
    <2>1. \A x \in Tokens : ledger[x][Contract] \in Nat
        BY <1>1
    <2> QED  BY <1>1, <1>2, <1>3, <2>1
<1>4. ASSUME ledger[t][a] >= amount
      PROVE  /\ Transferred(ledger, t, a, Contract, amount) \in Ledgers
             /\ \A x \in Tokens : Transferred(ledger, t, a, Contract, amount)[x][Contract]
                        = ledger[x][Contract] + (IF t = x THEN amount ELSE 0)
    <2>1. \A x \in Tokens : ledger[x][Contract] \in Nat
        BY <1>1
    <2> QED  BY <1>1, <1>2, <1>4, <2>1
<1> QED  BY <1>3, <1>4

\* A payment that is not made is parked instead: of what was to spare the
\* contract loses at most the amount, and exactly it when nothing was parked in
\* its place.
LEMMA PaidOne ==
    ASSUME NEW books \in Books, NEW id \in WillIds, NEW p, p.token \in Tokens, p.to \in Accounts,
           p.amount \in Nat, NEW refused,
           NEW out, out = pay_or_record_failure(id, p, refused, books)
    PROVE  /\ out \in Books
           /\ DOMAIN out.failed \subseteq DOMAIN books.failed \cup {<<id, p.token, p.to>>}
           /\ \A t \in Tokens :
                /\ Spare(out, t) \in Int /\ Spare(books, t) \in Int
                /\ Spare(out, t) >= Spare(books, t) - (IF p.token = t THEN p.amount ELSE 0)
                /\ <<id, p.token, p.to>> \notin DOMAIN books.failed
                     => Spare(out, t) = Spare(books, t) - (IF p.token = t THEN p.amount ELSE 0)
<1> DEFINE k == <<id, p.token, p.to>>
           failed == books.failed
           bank0 == books.bank
<1>1. /\ DOMAIN failed \subseteq PayoutKeys /\ failed = [key \in DOMAIN failed |-> failed[key]]
      /\ \A key \in DOMAIN failed : failed[key] \in Nat
      /\ bank0 \in Ledgers
      /\ books = [failed |-> failed, bank |-> bank0]
    BY ParkingsAre DEF Books
<1>2. k \in PayoutKeys /\ k[2] = p.token
    BY DEF PayoutKeys
<1>3. \A t \in Tokens : bank0[t][Contract] \in Nat /\ ParkedOf(failed, t) \in Nat
    BY <1>1, ParkedTyped DEF Ledgers
<1>4. Contract \notin Accounts
    BY AccountsAssumption
<1>5. CASE <<p.token, p.to>> \in refused \/ books.bank[p.token][Contract] < p.amount
    <2>1. out = [failed |-> Put(failed, k, p.amount), bank |-> bank0]
        BY <1>1, <1>5 DEF pay_or_record_failure
    <2> DEFINE new == Put(failed, k, p.amount)
    <2>2. /\ DOMAIN new = DOMAIN failed \cup {k} /\ new = [key \in DOMAIN new |-> new[key]]
          /\ \A key \in DOMAIN new : new[key] \in Nat
        BY <1>1 DEF Put
    <2>3. \A t \in Tokens : ParkedOf(new, t) = ParkedOf(failed, t)
                    + (IF k[2] = t THEN p.amount - (IF k \in DOMAIN failed THEN failed[k] ELSE 0) ELSE 0)
        BY <1>1, <1>2, OneMoreParked
    <2> HIDE DEF new
    <2>4. out \in Books
        <3>1. new \in Parkings
            BY <1>1, <1>2, <2>2, ParkingsAre
        <3> QED  BY <1>1, <2>1, <3>1 DEF Books, new
    <2>5. \A t \in Tokens : Spare(out, t) = bank0[t][Contract] - ParkedOf(new, t)
                         /\ Spare(books, t) = bank0[t][Contract] - ParkedOf(failed, t)
        BY <2>1 DEF Spare, new
    <2> HIDE DEF k, failed, bank0
    <2>6. ASSUME NEW t \in Tokens
          PROVE  /\ Spare(out, t) \in Int /\ Spare(books, t) \in Int
                 /\ Spare(out, t) >= Spare(books, t) - (IF p.token = t THEN p.amount ELSE 0)
                 /\ k \notin DOMAIN failed
                     => Spare(out, t) = Spare(books, t) - (IF p.token = t THEN p.amount ELSE 0)
        <3>1. k \in DOMAIN failed => failed[k] \in Nat
            BY <1>1
        <3> QED  BY <1>2, <1>3, <2>3, <2>5, <3>1
    <2> QED  BY <2>1, <2>2, <2>4, <2>6 DEF k, failed, new
<1>6. CASE ~ (<<p.token, p.to>> \in refused \/ books.bank[p.token][Contract] < p.amount)
    <2> DEFINE new == Transferred(bank0, p.token, Contract, p.to, p.amount)
    <2>1. out = [failed |-> failed, bank |-> new]
        BY <1>1, <1>6 DEF pay_or_record_failure
    <2>2. bank0[p.token][Contract] >= p.amount
        BY <1>3, <1>6
    <2>3. new \in Ledgers
          /\ \A t \in Tokens : new[t][Contract]
                = bank0[t][Contract] - (IF p.token = t THEN p.amount ELSE 0)
        BY <1>1, <1>3, <1>4, <2>2, TransferTyped
    <2> HIDE DEF new
    <2>4. out \in Books
        BY <1>1, <2>1, <2>3, ParkingsAre DEF Books
    <2>5. \A t \in Tokens : Spare(out, t) = new[t][Contract] - ParkedOf(failed, t)
                         /\ Spare(books, t) = bank0[t][Contract] - ParkedOf(failed, t)
        BY <2>1 DEF Spare
    <2>6. ASSUME NEW t \in Tokens
          PROVE  /\ Spare(out, t) \in Int /\ Spare(books, t) \in Int
                 /\ Spare(out, t) = Spare(books, t) - (IF p.token = t THEN p.amount ELSE 0)
        BY <1>3, <2>3, <2>5
    <2> QED  BY <2>1, <2>4, <2>6
<1> QED  BY <1>5, <1>6

\* Smaller terms have no larger sum.
LEMMA SumNoLess ==
    ASSUME NEW D, IsFiniteSet(D), NEW f, NEW g,
           \A x \in D : f[x] \in Int /\ g[x] \in Int /\ f[x] <= g[x]
    PROVE  SumFunctionOnSet(f, D) <= SumFunctionOnSet(g, D)
<1> DEFINE d == [x \in D |-> g[x] - f[x]]
<1>1. \A x \in D : d[x] \in Nat /\ g[x] = f[x] + d[x]
    OBVIOUS
<1> HIDE DEF d
<1>2. SumFunctionOnSet(g, D) = SumFunctionOnSet(f, D) + SumFunctionOnSet(d, D)
    BY <1>1, SumOfBoth
<1>3. SumFunctionOnSet(d, D) \in Nat /\ SumFunctionOnSet(f, D) \in Int
    BY <1>1, SumNatural, SumType
<1> QED  BY <1>2, <1>3

\* A list of payments of token t, to accounts where there is something to pay.
Payable(payments, t) ==
    /\ payments = [i \in 1..Len(payments) |-> payments[i]] /\ Len(payments) \in Nat
    /\ \A i \in 1..Len(payments) : /\ payments[i].token = t
                                   /\ payments[i].amount \in Nat
                                   /\ payments[i].amount > 0 => payments[i].to \in Accounts

\* What may be parked for them, and who it is for.
PayeesOf(payments) == {payments[i].to : i \in {j \in 1..Len(payments) : payments[j].amount > 0}}
KeysOf(id, payments, t) == {<<id, t, a>> : a \in PayeesOf(payments)}

\* No two of them are for the same account.
PaysOnce(payments) ==
    \A i, j \in 1..Len(payments) :
        payments[i].amount > 0 /\ payments[j].amount > 0 /\ payments[i].to = payments[j].to => i = j

LEMMA SpareType ==
    ASSUME NEW books \in Books, NEW t \in Tokens
    PROVE  Spare(books, t) \in Int
<1>1. /\ DOMAIN books.failed \subseteq PayoutKeys /\ \A key \in DOMAIN books.failed : books.failed[key] \in Nat
      /\ books.bank \in Ledgers
    BY ParkingsAre DEF Books
<1>2. ParkedOf(books.failed, t) \in Nat /\ books.bank[t][Contract] \in Nat
    BY <1>1, ParkedTyped DEF Ledgers
<1> QED  BY <1>2 DEF Spare

LEMMA ListPays ==
    ASSUME NEW books \in Books, NEW id \in WillIds, NEW t0 \in Tokens, NEW refused,
           NEW payments, Payable(payments, t0),
           NEW out, out = PaidOrParked(id, payments, refused, books)
    PROVE  /\ out \in Books /\ TotalAmount(payments) \in Nat
           /\ DOMAIN out.failed \subseteq DOMAIN books.failed \cup KeysOf(id, payments, t0)
           /\ \A t \in Tokens :
                /\ Spare(out, t) \in Int /\ Spare(books, t) \in Int
                /\ Spare(out, t) >= Spare(books, t) - (IF t0 = t THEN TotalAmount(payments) ELSE 0)
                /\ PaysOnce(payments) /\ DOMAIN books.failed \cap KeysOf(id, payments, t0) = {}
                    => Spare(out, t) = Spare(books, t) - (IF t0 = t THEN TotalAmount(payments) ELSE 0)
<1> DEFINE N == Len(payments)
           V == Books
           Next1(n, b) == IF payments[n].amount > 0
                          THEN pay_or_record_failure(id, payments[n], refused, b) ELSE b
           up == CHOOSE f : f = [n \in 0..N |->
                    IF n = 0 THEN books
                    ELSE IF payments[n].amount > 0
                         THEN pay_or_record_failure(id, payments[n], refused, f[n - 1])
                    ELSE f[n - 1]]
           step == [n \in 1..N |-> [b \in V |-> Next1(n, b)]]
           amt == Amounts(payments)
<1>1. out = up[N]
    BY DEF PaidOrParked
<1>2. /\ N \in Nat /\ DOMAIN payments = 1..N
      /\ \A n \in 1..N : /\ payments[n].token = t0 /\ payments[n].amount \in Nat
                         /\ payments[n].amount > 0 => payments[n].to \in Accounts
      /\ amt = [n \in 1..N |-> payments[n].amount]
    BY DEF Payable, Amounts
<1> HIDE DEF N
<1>3. ASSUME NEW n \in 1..N, NEW b \in Books
      PROVE  /\ Next1(n, b) \in Books
             /\ DOMAIN Next1(n, b).failed \subseteq DOMAIN b.failed
                        \cup (IF payments[n].amount > 0 THEN {<<id, t0, payments[n].to>>} ELSE {})
             /\ \A t \in Tokens :
                 /\ Spare(Next1(n, b), t) \in Int /\ Spare(b, t) \in Int
                 /\ Spare(Next1(n, b), t) >= Spare(b, t) - (IF t0 = t THEN amt[n] ELSE 0)
                 /\ (payments[n].amount > 0 => <<id, t0, payments[n].to>> \notin DOMAIN b.failed)
                      => Spare(Next1(n, b), t) = Spare(b, t) - (IF t0 = t THEN amt[n] ELSE 0)
    <2>1. CASE payments[n].amount > 0
        <3> DEFINE p == payments[n]
                   o == pay_or_record_failure(id, p, refused, b)
        <3>1. p.token = t0 /\ p.token \in Tokens /\ p.to \in Accounts /\ p.amount \in Nat /\ amt[n] = p.amount
            BY <1>2, <2>1
        <3>2. Next1(n, b) = o
            BY <2>1
        <3> HIDE DEF p, Next1
        <3>3. o = pay_or_record_failure(id, p, refused, b)
            OBVIOUS
        <3> HIDE DEF o
        <3>4. /\ o \in Books
              /\ DOMAIN o.failed \subseteq DOMAIN b.failed \cup {<<id, p.token, p.to>>}
              /\ \A t \in Tokens :
                 /\ Spare(o, t) \in Int /\ Spare(b, t) \in Int
                 /\ Spare(o, t) >= Spare(b, t) - (IF p.token = t THEN p.amount ELSE 0)
                 /\ <<id, p.token, p.to>> \notin DOMAIN b.failed
                     => Spare(o, t) = Spare(b, t) - (IF p.token = t THEN p.amount ELSE 0)
            BY <3>1, <3>3, PaidOne
        <3> QED  BY <2>1, <3>1, <3>2, <3>4 DEF p
    <2>2. CASE ~ (payments[n].amount > 0)
        <3>1. Next1(n, b) = b /\ amt[n] = 0
            BY <1>2, <2>2
        <3>2. \A t \in Tokens : Spare(b, t) \in Int
            BY SpareType
        <3> QED  BY <3>1, <3>2
    <2> QED  BY <2>1, <2>2
<1>4. step \in Steps(N, V)
    BY <1>3 DEF Steps
<1>5. (\A n \in 1..N : \A b \in V : step[n][b] = Next1(n, b)) /\ books \in V
    OBVIOUS
<1> HIDE DEF step, V
<1>6. PICK f \in Results(N, V, books, step) :
        \A g : Follows(g, N, V, books, step) => \A n \in 0..N : g[n] = f[n]
    BY <1>2, <1>4, <1>5, Iterates
<1>7. /\ \A n \in 0..N : f[n] \in Books
      /\ f = [n \in 0..N |-> f[n]]
      /\ f[0] = books
      /\ \A n \in 1..N : f[n] = Next1(n, f[n - 1]) /\ n - 1 \in 0..N /\ n \in 0..N /\ n # 0
    <2>1. \A n \in 1..N : n - 1 \in 0..N /\ n \in 0..N /\ n # 0
        BY <1>2
    <2> QED  BY <1>5, <2>1 DEF Results, V
<1>8. f = [n \in 0..N |->
                    IF n = 0 THEN books
                    ELSE IF payments[n].amount > 0
                         THEN pay_or_record_failure(id, payments[n], refused, f[n - 1])
                    ELSE f[n - 1]]
    <2>1. \A n \in 0..N : n # 0 => n \in 1..N
        BY <1>2
    <2> QED  BY <1>7, <2>1
<1>9. up = [n \in 0..N |->
                    IF n = 0 THEN books
                    ELSE IF payments[n].amount > 0
                         THEN pay_or_record_failure(id, payments[n], refused, up[n - 1])
                    ELSE up[n - 1]]
    BY <1>8, Zenon
<1> HIDE DEF up
<1>10. up[0] = books /\ \A n \in 1..N : up[n] = Next1(n, up[n - 1])
    <2>1. 0 \in 0..N
        BY <1>2
    <2>2. up[0] = books
        BY <1>9, <2>1
    <2>3. ASSUME NEW n \in 1..N
          PROVE  up[n] = Next1(n, up[n - 1])
        BY <1>7, <1>9, Zenon
    <2> QED  BY <2>2, <2>3
<1>11. Follows(up, N, V, books, step)
    BY <1>5, <1>10 DEF Follows
<1>12. out = f[N] /\ N \in 0..N
    BY <1>1, <1>2, <1>6, <1>11
<1> HIDE DEF Next1, amt
<1>13. amt \in [1..N -> Nat] /\ TotalAmount(payments) = SumFunctionOnSet(amt, 1..N)
       /\ IsFiniteSet(1..N)
    BY <1>2, FS_Interval DEF amt, TotalAmount, SumFunction, Amounts
<1>14. SumFunctionOnSet(amt, 1..N) \in Nat
    BY <1>13, SumNatural
<1> DEFINE Paid(n) == {<<id, t0, payments[i].to>> : i \in {j \in 1..n : payments[j].amount > 0}}
\* What is parked on the way.
<1>15. \A n \in 0..N : DOMAIN f[n].failed \subseteq DOMAIN books.failed \cup Paid(n)
    <2> DEFINE B == {n \in 0..N : ~ (DOMAIN f[n].failed \subseteq DOMAIN books.failed \cup Paid(n))}
    <2> SUFFICES ASSUME B # {} PROVE FALSE
        OBVIOUS
    <2>1. PICK m \in B : m = 0 \/ m - 1 \notin B
        BY <1>2, FirstOf
    <2>2. m # 0
        BY <1>7, <2>1
    <2>3. m \in 1..N /\ m - 1 \in 0..N
        BY <1>2, <2>1, <2>2
    <2>4. DOMAIN f[m - 1].failed \subseteq DOMAIN books.failed \cup Paid(m - 1)
        BY <2>1, <2>2, <2>3
    <2>5. f[m] = Next1(m, f[m - 1]) /\ f[m - 1] \in Books
        BY <1>7, <2>3
    <2>6. DOMAIN f[m].failed \subseteq DOMAIN f[m - 1].failed
                        \cup (IF payments[m].amount > 0 THEN {<<id, t0, payments[m].to>>} ELSE {})
        BY <1>3, <2>3, <2>5
    <2>7. Paid(m - 1) \subseteq Paid(m)
        <3>1. \A j \in 1..(m - 1) : j \in 1..m
            BY <1>2, <2>3
        <3> QED  BY <3>1
    <2>8. payments[m].amount > 0 => <<id, t0, payments[m].to>> \in Paid(m)
        <3>1. m \in 1..m
            BY <1>2, <2>3
        <3> QED  BY <3>1
    <2> HIDE DEF Paid
    <2>9. DOMAIN f[m].failed \subseteq DOMAIN books.failed \cup Paid(m)
        BY <2>4, <2>6, <2>7, <2>8
    <2> QED  BY <2>1, <2>9
<1>16. Paid(N) = KeysOf(id, payments, t0)
    BY DEF KeysOf, PayeesOf, N
<1>17. DOMAIN out.failed \subseteq DOMAIN books.failed \cup KeysOf(id, payments, t0)
    <2> HIDE DEF Paid
    <2> QED  BY <1>12, <1>15, <1>16
<1>18. ASSUME NEW t \in Tokens
       PROVE  /\ Spare(out, t) \in Int /\ Spare(books, t) \in Int
              /\ Spare(out, t) >= Spare(books, t) - (IF t0 = t THEN TotalAmount(payments) ELSE 0)
              /\ PaysOnce(payments) /\ DOMAIN books.failed \cap KeysOf(id, payments, t0) = {}
                    => Spare(out, t) = Spare(books, t) - (IF t0 = t THEN TotalAmount(payments) ELSE 0)
    <2> DEFINE left == [n \in 0..N |-> Spare(f[n], t)]
               cost == [n \in 1..N |-> IF t0 = t THEN amt[n] ELSE 0]
               drop == [n \in 1..N |-> left[n - 1] - left[n]]
    <2>1. \A n \in 0..N : Spare(f[n], t) \in Int
        BY <1>7, SpareType
    <2>2. left \in [0..N -> Int] /\ left[0] = Spare(books, t) /\ left[N] = Spare(out, t)
        <3>1. 0 \in 0..N
            BY <1>2
        <3> QED  BY <1>7, <1>12, <2>1, <3>1
    <2>3. \A n \in 1..N : cost[n] \in Nat
        BY <1>13
    <2>4. SumFunctionOnSet(cost, 1..N) = IF t0 = t THEN TotalAmount(payments) ELSE 0
        <3> HIDE DEF left, drop
        <3>1. CASE t0 = t
            <4>1. \A n \in 1..N : amt[n] \in Int /\ cost[n] = amt[n]
                BY <1>13, <3>1
            <4> HIDE DEF cost
            <4> QED  BY <1>13, <3>1, <4>1, SumSame
        <3>2. CASE t0 # t
            <4>1. \A n \in 1..N : cost[n] = 0
                BY <3>2
            <4> HIDE DEF cost
            <4> QED  BY <1>13, <3>2, <4>1, SumOfZeros
        <3> QED  BY <3>1, <3>2
    <2>5. \A n \in 1..N : drop[n] = left[n - 1] - left[n] /\ drop[n] \in Int /\ drop[n] <= cost[n]
        <3> SUFFICES ASSUME NEW n \in 1..N
                     PROVE  drop[n] = left[n - 1] - left[n] /\ drop[n] \in Int /\ drop[n] <= cost[n]
            OBVIOUS
        <3>1. f[n] = Next1(n, f[n - 1]) /\ f[n - 1] \in Books /\ n - 1 \in 0..N /\ n \in 0..N
            BY <1>7
        <3>2. Spare(f[n], t) >= Spare(f[n - 1], t) - (IF t0 = t THEN amt[n] ELSE 0)
            BY <1>3, <3>1
        <3>3. left[n] = Spare(f[n], t) /\ left[n - 1] = Spare(f[n - 1], t)
              /\ cost[n] = (IF t0 = t THEN amt[n] ELSE 0) /\ drop[n] = left[n - 1] - left[n]
            BY <3>1
        <3>4. Spare(f[n], t) \in Int /\ Spare(f[n - 1], t) \in Int /\ cost[n] \in Nat
            BY <2>1, <2>3, <3>1
        <3> HIDE DEF left, cost, drop
        <3> QED  BY <3>2, <3>3, <3>4
    <2>6. ASSUME PaysOnce(payments), DOMAIN books.failed \cap KeysOf(id, payments, t0) = {}
          PROVE  \A n \in 1..N : drop[n] = cost[n]
        <3> SUFFICES ASSUME NEW n \in 1..N PROVE drop[n] = cost[n]
            OBVIOUS
        <3>1. f[n] = Next1(n, f[n - 1]) /\ f[n - 1] \in Books /\ n - 1 \in 0..N /\ n \in 0..N
            BY <1>7
        <3>2. ASSUME payments[n].amount > 0
              PROVE  <<id, t0, payments[n].to>> \notin DOMAIN f[n - 1].failed
            <4>1. <<id, t0, payments[n].to>> \in KeysOf(id, payments, t0)
                BY <3>2 DEF KeysOf, PayeesOf, N
            <4>2. ASSUME <<id, t0, payments[n].to>> \in Paid(n - 1)
                  PROVE  FALSE
                <5>1. PICK j \in 1..(n - 1) : payments[j].amount > 0 /\ payments[j].to = payments[n].to
                    BY <4>2
                <5>2. j \in 1..N /\ j # n
                    BY <1>2, <5>1
                <5> QED  BY <2>6, <3>2, <5>1, <5>2 DEF PaysOnce, N
            <4> HIDE DEF Paid
            <4> QED  BY <1>15, <2>6, <3>1, <4>1, <4>2
        <3>3. Spare(f[n], t) = Spare(f[n - 1], t) - (IF t0 = t THEN amt[n] ELSE 0)
            BY <1>3, <3>1, <3>2
        <3>4. left[n] = Spare(f[n], t) /\ left[n - 1] = Spare(f[n - 1], t)
              /\ cost[n] = (IF t0 = t THEN amt[n] ELSE 0) /\ drop[n] = left[n - 1] - left[n]
            BY <3>1
        <3>5. Spare(f[n], t) \in Int /\ Spare(f[n - 1], t) \in Int /\ cost[n] \in Nat
            BY <2>1, <2>3, <3>1
        <3> HIDE DEF left, cost, drop
        <3> QED  BY <3>3, <3>4, <3>5
    <2> HIDE DEF left, cost, drop
    <2>7. SumFunctionOnSet(drop, 1..N) = left[0] - left[N]
        BY <1>2, <2>2, <2>5, SumOfSteps
    <2>8. SumFunctionOnSet(drop, 1..N) <= SumFunctionOnSet(cost, 1..N)
        <3>1. \A n \in 1..N : drop[n] \in Int /\ cost[n] \in Int /\ drop[n] <= cost[n]
            BY <2>3, <2>5
        <3> QED  BY <1>13, <3>1, SumNoLess
    <2>9. (\A n \in 1..N : drop[n] = cost[n]) => SumFunctionOnSet(drop, 1..N) = SumFunctionOnSet(cost, 1..N)
        <3>1. \A n \in 1..N : cost[n] \in Int
            BY <2>3
        <3> QED  BY <1>13, <3>1, SumSame
    <2>10. left[0] \in Int /\ left[N] \in Int
        BY <1>2, <2>2
    <2> DEFINE total == IF t0 = t THEN TotalAmount(payments) ELSE 0
    <2>11. total \in Int /\ SumFunctionOnSet(cost, 1..N) = total
        BY <1>13, <1>14, <2>4
    <2> HIDE DEF total
    <2>12. Spare(out, t) >= Spare(books, t) - total
        BY <2>2, <2>7, <2>8, <2>10, <2>11
    <2>13. PaysOnce(payments) /\ DOMAIN books.failed \cap KeysOf(id, payments, t0) = {}
             => Spare(out, t) = Spare(books, t) - total
        BY <2>2, <2>6, <2>7, <2>9, <2>10, <2>11
    <2> QED  BY <2>2, <2>10, <2>12, <2>13 DEF total
<1> QED  BY <1>7, <1>12, <1>13, <1>14, <1>17, <1>18

\* A sum to which one element at most contributes.
LEMMA SumOfOne ==
    ASSUME NEW D, IsFiniteSet(D), NEW f, NEW d \in D, f[d] \in Int,
           \A x \in D \ {d} : f[x] = 0
    PROVE  SumFunctionOnSet(f, D) = f[d]
<1>1. \A x \in D : f[x] \in Int
    OBVIOUS
<1>2. SumFunctionOnSet(f, D) = f[d] + SumFunctionOnSet(f, D \ {d})
    BY <1>1, SumTakeOut
<1>3. IsFiniteSet(D \ {d})
    BY FS_Subset
<1>4. SumFunctionOnSet(f, D \ {d}) = 0
    BY <1>3, SumOfZeros
<1> QED  BY <1>2, <1>4

\* One list of payments per token, paid one list after the other.
Rounds(N, tokens, lists) ==
    /\ tokens \in [1..N -> Tokens]
    /\ \A i, j \in 1..N : tokens[i] = tokens[j] => i = j
    /\ \A n \in 1..N : Payable(lists[n], tokens[n])

RoundKeys(id, N, tokens, lists) ==
    {key \in PayoutKeys : \E n \in 1..N : key \in KeysOf(id, lists[n], tokens[n])}

\* f[n] are the books after the first n lists.
Paying(f, start, id, N, lists, refused) ==
    f = [n \in 0..N |-> IF n = 0 THEN start
                        ELSE PaidOrParked(id, lists[n], refused, f[n - 1])]

LEMMA RoundsExist ==
    ASSUME NEW start \in Books, NEW id \in WillIds, NEW refused, NEW N \in Nat, NEW tokens, NEW lists,
           Rounds(N, tokens, lists)
    PROVE  \E f : Paying(f, start, id, N, lists, refused)
<1> DEFINE V == Books
           step == [n \in 1..N |-> [b \in V |-> PaidOrParked(id, lists[n], refused, b)]]
<1>1. ASSUME NEW n \in 1..N, NEW b \in Books
      PROVE  PaidOrParked(id, lists[n], refused, b) \in Books
    <2>1. tokens[n] \in Tokens /\ Payable(lists[n], tokens[n])
        BY DEF Rounds
    <2> QED  BY <2>1, ListPays
<1>2. step \in Steps(N, V)
    BY <1>1 DEF Steps
<1>3. (\A n \in 1..N : \A b \in V : step[n][b] = PaidOrParked(id, lists[n], refused, b)) /\ start \in V
    OBVIOUS
<1> HIDE DEF step, V
<1>4. PICK f \in Results(N, V, start, step) : TRUE
    BY <1>2, <1>3, Iterates
<1>5. /\ f = [n \in 0..N |-> f[n]]
      /\ f[0] = start
      /\ \A n \in 1..N : f[n] = PaidOrParked(id, lists[n], refused, f[n - 1])
    <2>1. \A n \in 1..N : n - 1 \in 0..N /\ n \in 0..N /\ n # 0
        OBVIOUS
    <2> QED  BY <1>3, <1>4, <2>1 DEF Results
<1>6. \A n \in 0..N : n # 0 => n \in 1..N
    OBVIOUS
<1>7. f = [n \in 0..N |-> IF n = 0 THEN start
                          ELSE PaidOrParked(id, lists[n], refused, f[n - 1])]
    BY <1>5, <1>6
<1> QED  BY <1>7 DEF Paying

\* From `start` to `end` the lists have been paid.
PaidRounds(start, end, id, N, tokens, lists) ==
    /\ end \in Books
    /\ DOMAIN end.failed \subseteq DOMAIN start.failed \cup RoundKeys(id, N, tokens, lists)
    /\ \A t \in Tokens : \A cost \in Nat :
        (\A n \in 1..N : tokens[n] = t => TotalAmount(lists[n]) = cost)
        /\ (cost = 0 \/ t \in {tokens[n] : n \in 1..N})
            => /\ Spare(end, t) \in Int /\ Spare(start, t) \in Int
               /\ Spare(end, t) >= Spare(start, t) - cost
               /\ (\A n \in 1..N : PaysOnce(lists[n]))
                  /\ DOMAIN start.failed \cap RoundKeys(id, N, tokens, lists) = {}
                    => Spare(end, t) = Spare(start, t) - cost

LEMMA RoundsPay ==
    ASSUME NEW start \in Books, NEW id \in WillIds, NEW refused, NEW N \in Nat, NEW tokens, NEW lists,
           Rounds(N, tokens, lists),
           NEW f, Paying(f, start, id, N, lists, refused)
    PROVE  PaidRounds(start, f[N], id, N, tokens, lists)
<1>0. /\ 0 \in 0..N /\ N \in 0..N /\ IsFiniteSet(1..N)
      /\ \A n \in 1..N : n - 1 \in 0..N /\ n \in 0..N /\ n # 0
    BY FS_Interval
<1>1. f[0] = start /\ \A n \in 1..N : f[n] = PaidOrParked(id, lists[n], refused, f[n - 1])
    BY <1>0 DEF Paying
<1>2. \A n \in 1..N : tokens[n] \in Tokens /\ Payable(lists[n], tokens[n])
    BY DEF Rounds
<1>3. ASSUME NEW n \in 1..N, f[n - 1] \in Books
      PROVE  /\ f[n] \in Books /\ TotalAmount(lists[n]) \in Nat
             /\ DOMAIN f[n].failed \subseteq DOMAIN f[n - 1].failed \cup KeysOf(id, lists[n], tokens[n])
             /\ \A t \in Tokens :
                /\ Spare(f[n], t) \in Int /\ Spare(f[n - 1], t) \in Int
                /\ Spare(f[n], t) >= Spare(f[n - 1], t)
                                        - (IF tokens[n] = t THEN TotalAmount(lists[n]) ELSE 0)
                /\ PaysOnce(lists[n]) /\ DOMAIN f[n - 1].failed \cap KeysOf(id, lists[n], tokens[n]) = {}
                    => Spare(f[n], t) = Spare(f[n - 1], t)
                                        - (IF tokens[n] = t THEN TotalAmount(lists[n]) ELSE 0)
    <2> DEFINE b == f[n - 1]
               out == f[n]
               payments == lists[n]
               t0 == tokens[n]
    <2>1. b \in Books /\ out = PaidOrParked(id, payments, refused, b) /\ Payable(payments, t0)
          /\ t0 \in Tokens
        BY <1>1, <1>2, <1>3
    <2> HIDE DEF b, out, payments, t0
    <2>2. /\ out \in Books /\ TotalAmount(payments) \in Nat
          /\ DOMAIN out.failed \subseteq DOMAIN b.failed \cup KeysOf(id, payments, t0)
          /\ \A t \in Tokens :
                /\ Spare(out, t) \in Int /\ Spare(b, t) \in Int
                /\ Spare(out, t) >= Spare(b, t) - (IF t0 = t THEN TotalAmount(payments) ELSE 0)
                /\ PaysOnce(payments) /\ DOMAIN b.failed \cap KeysOf(id, payments, t0) = {}
                    => Spare(out, t) = Spare(b, t) - (IF t0 = t THEN TotalAmount(payments) ELSE 0)
        BY <2>1, ListPays
    <2> QED  BY <2>2 DEF b, out, payments, t0
<1> DEFINE Parked1(n) == {key \in PayoutKeys : \E m \in 1..n : key \in KeysOf(id, lists[m], tokens[m])}
\* The ledgers keep their type, and what is parked belongs to the tokens so far.
<1>4. \A n \in 0..N : f[n] \in Books /\ DOMAIN f[n].failed \subseteq DOMAIN start.failed \cup Parked1(n)
    <2> DEFINE B == {n \in 0..N : ~ (f[n] \in Books
                        /\ DOMAIN f[n].failed \subseteq DOMAIN start.failed \cup Parked1(n))}
    <2> SUFFICES ASSUME B # {} PROVE FALSE
        OBVIOUS
    <2>1. PICK m \in B : m = 0 \/ m - 1 \notin B
        BY FirstOf
    <2>2. m # 0
        BY <1>1, <2>1
    <2>3. m \in 1..N /\ m - 1 \in 0..N
        BY <2>1, <2>2
    <2>4. f[m - 1] \in Books /\ DOMAIN f[m - 1].failed \subseteq DOMAIN start.failed \cup Parked1(m - 1)
        BY <2>1, <2>2, <2>3
    <2>5. f[m] \in Books
          /\ DOMAIN f[m].failed \subseteq DOMAIN f[m - 1].failed \cup KeysOf(id, lists[m], tokens[m])
        BY <1>3, <2>3, <2>4
    <2>6. DOMAIN f[m].failed \subseteq PayoutKeys
        BY <2>5, ParkingsAre DEF Books
    <2>7. m \in 1..m /\ \A j \in 1..(m - 1) : j \in 1..m
        BY <2>3
    <2>8. DOMAIN f[m].failed \subseteq DOMAIN start.failed \cup Parked1(m)
        <3> SUFFICES ASSUME NEW key \in DOMAIN f[m].failed, key \notin DOMAIN start.failed
                     PROVE  key \in Parked1(m)
            OBVIOUS
        <3>1. CASE key \in KeysOf(id, lists[m], tokens[m])
            BY <2>6, <2>7, <3>1
        <3>2. CASE key \in Parked1(m - 1)
            BY <2>7, <3>2
        <3> HIDE DEF Parked1
        <3> QED  BY <2>4, <2>5, <3>1, <3>2
    <2> HIDE DEF Parked1
    <2> QED  BY <2>1, <2>5, <2>8
<1>5. RoundKeys(id, N, tokens, lists) = Parked1(N)
    BY DEF RoundKeys
<1>6. ASSUME NEW t \in Tokens, NEW cost \in Nat,
             \A n \in 1..N : tokens[n] = t => TotalAmount(lists[n]) = cost,
             cost = 0 \/ t \in {tokens[n] : n \in 1..N}
      PROVE  /\ Spare(f[N], t) \in Int /\ Spare(start, t) \in Int
             /\ Spare(f[N], t) >= Spare(start, t) - cost
             /\ (\A n \in 1..N : PaysOnce(lists[n]))
                /\ DOMAIN start.failed \cap RoundKeys(id, N, tokens, lists) = {}
                  => Spare(f[N], t) = Spare(start, t) - cost
    <2> DEFINE left == [n \in 0..N |-> Spare(f[n], t)]
               each == [n \in 1..N |-> IF tokens[n] = t THEN cost ELSE 0]
               drop == [n \in 1..N |-> left[n - 1] - left[n]]
    <2>1. \A n \in 0..N : Spare(f[n], t) \in Int
        <3> HIDE DEF Parked1
        <3> QED  BY <1>4, SpareType
    <2>2. left \in [0..N -> Int] /\ left[0] = Spare(start, t) /\ left[N] = Spare(f[N], t)
        BY <1>0, <1>1, <2>1
    <2>3. \A n \in 1..N : each[n] \in Nat
        OBVIOUS
    <2>4. SumFunctionOnSet(each, 1..N) = cost
        <3>1. CASE t \in {tokens[n] : n \in 1..N}
            <4>1. PICK k \in 1..N : tokens[k] = t
                BY <3>1
            <4>2. each[k] = cost /\ \A n \in (1..N) \ {k} : each[n] = 0
                BY <4>1 DEF Rounds
            <4> DEFINE D == 1..N
            <4>3. IsFiniteSet(D) /\ k \in D /\ each[k] \in Int /\ \A x \in D \ {k} : each[x] = 0
                BY <1>0, <4>2
            <4> HIDE DEF each, D
            <4>4. SumFunctionOnSet(each, D) = each[k]
                BY <4>3, SumOfOne
            <4> QED  BY <4>2, <4>4 DEF D
        <3>2. CASE t \notin {tokens[n] : n \in 1..N}
            <4>1. cost = 0 /\ \A n \in 1..N : each[n] = 0
                BY <1>6, <3>2
            <4> HIDE DEF each
            <4> QED  BY <1>0, <4>1, SumOfZeros
        <3> QED  BY <3>1, <3>2
    <2>5. ASSUME NEW n \in 1..N
          PROVE  /\ drop[n] = left[n - 1] - left[n] /\ drop[n] \in Int /\ drop[n] <= each[n]
                 /\ PaysOnce(lists[n]) /\ DOMAIN f[n - 1].failed \cap KeysOf(id, lists[n], tokens[n]) = {}
                        => drop[n] = each[n]
        <3> DEFINE c == IF tokens[n] = t THEN TotalAmount(lists[n]) ELSE 0
        <3>1. f[n - 1] \in Books /\ n - 1 \in 0..N /\ n \in 0..N
            <4> HIDE DEF Parked1
            <4> QED  BY <1>0, <1>4
        <3>2. /\ Spare(f[n], t) >= Spare(f[n - 1], t) - c
              /\ PaysOnce(lists[n]) /\ DOMAIN f[n - 1].failed \cap KeysOf(id, lists[n], tokens[n]) = {}
                    => Spare(f[n], t) = Spare(f[n - 1], t) - c
            BY <1>3, <3>1
        <3>3. left[n] = Spare(f[n], t) /\ left[n - 1] = Spare(f[n - 1], t)
              /\ each[n] = c /\ drop[n] = left[n - 1] - left[n]
            BY <1>6, <3>1
        <3>4. Spare(f[n], t) \in Int /\ Spare(f[n - 1], t) \in Int /\ each[n] \in Nat
            BY <2>1, <2>3, <3>1
        <3> DEFINE a == Spare(f[n - 1], t)
                   b == Spare(f[n], t)
                   once == PaysOnce(lists[n])
                             /\ DOMAIN f[n - 1].failed \cap KeysOf(id, lists[n], tokens[n]) = {}
        <3>5. /\ a \in Int /\ b \in Int /\ each[n] \in Nat /\ each[n] = c /\ b >= a - c
              /\ left[n] = b /\ left[n - 1] = a /\ drop[n] = left[n - 1] - left[n]
            BY <3>2, <3>3, <3>4
        <3>6. once => b = a - c
            BY <3>2
        <3> HIDE DEF left, each, drop, c, a, b, once
        <3>7. drop[n] \in Int /\ drop[n] <= each[n] /\ (once => drop[n] = each[n])
            BY ONLY <3>5, <3>6
        <3> QED  BY <3>5, <3>7 DEF once
    <2>6. ASSUME \A n \in 1..N : PaysOnce(lists[n]),
                 DOMAIN start.failed \cap RoundKeys(id, N, tokens, lists) = {}
          PROVE  \A n \in 1..N : drop[n] = each[n]
        <3> SUFFICES ASSUME NEW n \in 1..N PROVE drop[n] = each[n]
            OBVIOUS
        <3>1. ASSUME NEW key \in DOMAIN f[n - 1].failed, key \in KeysOf(id, lists[n], tokens[n])
              PROVE  FALSE
            <4>1. n - 1 \in 0..N
                BY <1>0
            <4>2. CASE key \in DOMAIN start.failed
                <5>1. key \in PayoutKeys
                    BY <4>2, ParkingsAre DEF Books
                <5>2. key \in RoundKeys(id, N, tokens, lists)
                    BY <3>1, <5>1 DEF RoundKeys
                <5> QED  BY <2>6, <4>2, <5>2
            <4>3. CASE key \in Parked1(n - 1)
                <5>1. PICK m \in 1..(n - 1) : key \in KeysOf(id, lists[m], tokens[m])
                    BY <4>3
                <5>2. key[2] = tokens[m] /\ key[2] = tokens[n]
                    BY <3>1, <5>1 DEF KeysOf
                <5>3. m \in 1..N /\ m # n
                    BY <5>1
                <5> QED  BY <5>2, <5>3 DEF Rounds
            <4> HIDE DEF Parked1
            <4> QED  BY <1>4, <3>1, <4>1, <4>2, <4>3
        <3>2. DOMAIN f[n - 1].failed \cap KeysOf(id, lists[n], tokens[n]) = {}
            BY <3>1
        <3> HIDE DEF drop, each, left
        <3> QED  BY <2>5, <2>6, <3>2
    <2> HIDE DEF left, each, drop
    <2>7. SumFunctionOnSet(drop, 1..N) = left[0] - left[N]
        BY <2>2, <2>5, SumOfSteps
    <2>8. SumFunctionOnSet(drop, 1..N) <= SumFunctionOnSet(each, 1..N)
        <3>1. \A n \in 1..N : drop[n] \in Int /\ each[n] \in Int /\ drop[n] <= each[n]
            BY <2>3, <2>5
        <3> QED  BY <1>0, <3>1, SumNoLess
    <2>9. (\A n \in 1..N : drop[n] = each[n]) => SumFunctionOnSet(drop, 1..N) = SumFunctionOnSet(each, 1..N)
        <3>1. \A n \in 1..N : each[n] \in Int
            BY <2>3
        <3> QED  BY <1>0, <3>1, SumSame
    <2>10. left[0] \in Int /\ left[N] \in Int
        BY <1>0, <2>2
    <2>11. Spare(f[N], t) >= Spare(start, t) - cost
        BY <2>2, <2>4, <2>7, <2>8, <2>10
    <2>12. (\A n \in 1..N : PaysOnce(lists[n]))
                /\ DOMAIN start.failed \cap RoundKeys(id, N, tokens, lists) = {}
                  => Spare(f[N], t) = Spare(start, t) - cost
        BY <2>2, <2>4, <2>6, <2>7, <2>9, <2>10
    <2> QED  BY <2>2, <2>10, <2>11, <2>12
<1>7. f[N] \in Books /\ DOMAIN f[N].failed \subseteq DOMAIN start.failed \cup RoundKeys(id, N, tokens, lists)
    <2> HIDE DEF Parked1
    <2> QED  BY <1>0, <1>4, <1>5
<1> HIDE DEF Parked1
<1> QED  BY <1>6, <1>7 DEF PaidRounds

----------------------------------------------------------------------------
(* The payouts of a release *)

\* The two lists of payments for one token of the plan.
LEMMA ListsPayable ==
    ASSUME NEW w, TypedWill(w), NEW keeper \in Caller, NEW t \in DOMAIN w.balances,
           NEW plan, plan[t] = TokenPlan(w, keeper, t)
    PROVE  /\ Payable(Refund(w, plan, t), t)
           /\ TotalAmount(Refund(w, plan, t)) = plan[t].refund
           /\ PaysOnce(Refund(w, plan, t))
           /\ PayeesOf(Refund(w, plan, t)) \subseteq (IF plan[t].refund > 0 THEN {w.owner} ELSE {})
           /\ Payable(SharesAndBounty(keeper, plan, t), t)
           /\ TotalAmount(SharesAndBounty(keeper, plan, t)) = TotalAmount(plan[t].shares) + plan[t].bounty
<1> DEFINE p == plan[t]
<1>1. /\ p.shares \in Seq(Share) /\ p.refund \in Nat /\ p.bounty \in Nat
      /\ p.bounty > 0 => should_pay_bounty(w, keeper)
      /\ TotalAmount(p.shares) \in Nat
    BY PlanTyped
<1>2. w.owner \in Accounts
    BY Opened DEF TypedFields
<1> DEFINE one == Refund(w, plan, t)
<1>3. /\ one = [i \in 1..1 |-> one[i]] /\ Len(one) = 1
      /\ one[1] = [token |-> t, to |-> w.owner, amount |-> p.refund]
    BY DEF Refund
<1> HIDE DEF one
<1>4. \A i \in 1..1 : i = 1
    OBVIOUS
<1>5. Payable(one, t) /\ PaysOnce(one)
      /\ PayeesOf(one) \subseteq (IF p.refund > 0 THEN {w.owner} ELSE {})
    BY <1>1, <1>2, <1>3, <1>4 DEF Payable, PaysOnce, PayeesOf
<1>6. TotalAmount(one) = p.refund
    <2> DEFINE f == Amounts(one)
               D == 1..1
    <2>1. DOMAIN f = D /\ f[1] = p.refund
        BY <1>3 DEF Amounts
    <2>1a. IsFiniteSet(D) /\ 1 \in D
        <3>1. IsFiniteSet({1})
            BY FS_Singleton
        <3>2. D = {1}
            OBVIOUS
        <3> QED  BY <3>1, <3>2
    <2>1b. D \ {1} = {}
        BY <1>4
    <2> HIDE DEF f, D
    <2>2. SumFunctionOnSet(f, D) = f[1]
        BY <1>1, <2>1, <2>1a, <2>1b, SumOfOne
    <2> QED  BY <2>1, <2>2 DEF TotalAmount, SumFunction, f
<1> DEFINE shares == p.shares
           n == Len(shares)
           all == Append(shares, [to |-> keeper, amount |-> p.bounty])
           list == SharesAndBounty(keeper, plan, t)
<1>7. n \in Nat /\ shares \in Seq(Share) /\ \A i \in 1..n : shares[i] \in Share
    BY <1>1
<1>8. list = [i \in 1..Len(all) |-> [token |-> t, to |-> all[i].to, amount |-> all[i].amount]]
    BY DEF SharesAndBounty
<1>9. /\ Len(all) = n + 1 /\ all[n + 1] = [to |-> keeper, amount |-> p.bounty]
      /\ \A i \in 1..n : all[i] = shares[i]
    <2> HIDE DEF p, shares
    <2> DEFINE e == [to |-> keeper, amount |-> p.bounty]
    <2> HIDE DEF e
    <2>1. Len(Append(shares, e)) = n + 1 /\ Append(shares, e)[n + 1] = e
          /\ \A i \in 1..n : Append(shares, e)[i] = shares[i]
        BY <1>7
    <2> QED  BY <2>1 DEF e
<1> HIDE DEF all, list, n, shares
<1>10. Len(list) = n + 1 /\ list = [i \in 1..(n + 1) |-> list[i]] /\ DOMAIN list = 1..(n + 1)
    BY <1>7, <1>8, <1>9
<1>11. \A i \in 1..n : /\ i \in 1..(n + 1) /\ list[i].token = t /\ list[i].amount = shares[i].amount
                       /\ list[i].to = shares[i].to
                       /\ shares[i].amount \in Nat /\ shares[i].to \in Accounts
    <2> SUFFICES ASSUME NEW i \in 1..n
                 PROVE  /\ i \in 1..(n + 1) /\ list[i].token = t /\ list[i].amount = shares[i].amount
                        /\ list[i].to = shares[i].to
                        /\ shares[i].amount \in Nat /\ shares[i].to \in Accounts
        OBVIOUS
    <2>1. i \in 1..(n + 1)
        BY <1>7
    <2>2. list[i] = [token |-> t, to |-> all[i].to, amount |-> all[i].amount]
        BY <1>8, <1>9, <2>1
    <2>3. all[i] = shares[i] /\ shares[i] \in Share
        BY <1>7, <1>9
    <2> QED  BY <2>1, <2>2, <2>3 DEF Share
<1>12. n + 1 \in 1..(n + 1) /\ list[n + 1].token = t /\ list[n + 1].amount = p.bounty
       /\ list[n + 1].to = keeper
    BY <1>7, <1>8, <1>9
<1>13. p.bounty > 0 => keeper \in Accounts
    BY <1>1 DEF should_pay_bounty, Caller
<1>14. \A i \in 1..(n + 1) : i = n + 1 \/ i \in 1..n
    BY <1>7
<1>15. Payable(list, t)
    <2> HIDE DEF p
    <2>0. p.bounty \in Nat
        BY <1>1 DEF p
    <2>1. ASSUME NEW i \in 1..(n + 1)
          PROVE  /\ list[i].token = t /\ list[i].amount \in Nat
                 /\ list[i].amount > 0 => list[i].to \in Accounts
        <3>1. CASE i = n + 1
            BY <1>12, <1>13, <2>0, <3>1
        <3>2. CASE i \in 1..n
            BY <1>11, <3>2
        <3> QED  BY <1>14, <3>1, <3>2
    <2>2. Len(list) \in Nat /\ n + 1 \in Nat
        BY <1>7, <1>10
    <2> QED  BY <1>10, <2>1, <2>2 DEF Payable
<1>16. TotalAmount(list) = TotalAmount(shares) + p.bounty
    <2> DEFINE f == Amounts(list)
               g == Amounts(shares)
               D == 1..(n + 1)
               C == 1..n
    <2>1. /\ DOMAIN f = D /\ f[n + 1] = p.bounty /\ IsFiniteSet(D) /\ n + 1 \in D /\ D \ {n + 1} = C
          /\ IsFiniteSet(C) /\ DOMAIN g = C
        <3>1. DOMAIN f = D /\ f[n + 1] = p.bounty
            BY <1>10, <1>12 DEF Amounts
        <3>2. DOMAIN g = C
            BY <1>7 DEF Amounts, n
        <3>3. n + 1 \in D /\ D \ {n + 1} = C
            BY <1>7
        <3>4. IsFiniteSet(D) /\ IsFiniteSet(C)
            <4>1. n \in Int /\ n + 1 \in Int /\ 1 \in Int
                BY <1>7
            <4>2. IsFiniteSet(1..n) /\ IsFiniteSet(1..(n + 1))
                BY <4>1, FS_Interval
            <4> QED  BY <4>2
        <3> QED  BY <3>1, <3>2, <3>3, <3>4
    <2>2. \A i \in C : f[i] = g[i] /\ g[i] \in Int /\ i \in D
        <3> SUFFICES ASSUME NEW i \in C PROVE f[i] = g[i] /\ g[i] \in Int /\ i \in D
            OBVIOUS
        <3>1. f[i] = list[i].amount /\ g[i] = shares[i].amount
            BY <1>10, <1>11, <2>1 DEF Amounts
        <3> QED  BY <1>11, <3>1
    <2>3. \A i \in D : f[i] \in Int
        BY <1>1, <1>14, <2>1, <2>2
    <2> HIDE DEF f, g, D, C, p
    <2>4. SumFunctionOnSet(f, D) = f[n + 1] + SumFunctionOnSet(f, C)
        BY <2>1, <2>3, SumTakeOut
    <2>5. SumFunctionOnSet(f, C) = SumFunctionOnSet(g, C)
        BY <2>1, <2>2, SumSame
    <2>6. SumFunctionOnSet(g, C) = TotalAmount(shares) /\ SumFunctionOnSet(f, D) = TotalAmount(list)
        BY <2>1 DEF TotalAmount, SumFunction, f, g
    <2>7. TotalAmount(shares) \in Nat /\ p.bounty \in Nat
        BY <1>1 DEF shares, p
    <2> QED  BY <2>1, <2>4, <2>5, <2>6, <2>7
<1> QED  BY <1>5, <1>6, <1>15, <1>16 DEF one, list, shares

\* What a release pays out of token t.
PaidOf(plan, t) == plan[t].refund + (TotalAmount(plan[t].shares) + plan[t].bounty)

\* Nobody is paid twice in one token.
PaidOnce(w, keeper, plan) ==
    \A t \in DOMAIN plan :
        /\ PaysOnce(SharesAndBounty(keeper, plan, t))
        /\ plan[t].refund > 0 => w.owner \notin PayeesOf(SharesAndBounty(keeper, plan, t))

OfWill(id) == {key \in PayoutKeys : key[1] = id}

LEMMA PayoutsPay ==
    ASSUME NEW w, TypedWill(w), NEW keeper \in Caller, NEW id \in WillIds, NEW refused,
           NEW plan, plan = DistributionPlan(w, keeper),
           NEW books \in Books, books = [failed |-> failed_payout, bank |-> bank],
           NEW out, out = Payouts(id, w, keeper, plan, refused)
    PROVE  /\ out \in Books
           /\ DOMAIN out.failed \subseteq DOMAIN books.failed \cup OfWill(id)
           /\ \A t \in Tokens :
                /\ Spare(out, t) \in Int /\ Spare(books, t) \in Int
                /\ t \in DOMAIN plan =>
                    /\ PaidOf(plan, t) \in Nat
                    /\ Spare(out, t) >= Spare(books, t) - PaidOf(plan, t)
                /\ t \notin DOMAIN plan => Spare(out, t) >= Spare(books, t)
                /\ PaidOnce(w, keeper, plan) /\ DOMAIN books.failed \cap OfWill(id) = {}
                    => Spare(out, t) = Spare(books, t)
                                        - (IF t \in DOMAIN plan THEN PaidOf(plan, t) ELSE 0)
<1> DEFINE keys == DOMAIN plan
           tokens == MapOrder(keys)
           N == Len(tokens)
           refunds == CHOOSE f : f = [n \in 0..N |->
                        IF n = 0 THEN [failed |-> failed_payout, bank |-> bank]
                        ELSE PaidOrParked(id, Refund(w, plan, tokens[n]), refused, f[n - 1])]
           paid == CHOOSE f : f = [n \in 0..N |->
                        IF n = 0 THEN refunds[N]
                        ELSE PaidOrParked(id, SharesAndBounty(keeper, plan, tokens[n]), refused, f[n - 1])]
           back == [n \in 1..N |-> Refund(w, plan, tokens[n])]
           given == [n \in 1..N |-> SharesAndBounty(keeper, plan, tokens[n])]
<1>1. out = paid[N]
    BY Zenon DEF Payouts
<1>2. /\ keys \subseteq DOMAIN w.balances /\ IsFiniteSet(keys) /\ keys \subseteq Tokens
      /\ \A t \in keys : plan[t] = TokenPlan(w, keeper, t)
    <2>1. IsBalances(w.balances) /\ IsFiniteSet(DOMAIN w.balances)
        BY Opened DEF TypedFields
    <2>2. keys = FundedTokens(w) /\ \A t \in keys : plan[t] = TokenPlan(w, keeper, t)
        BY DEF DistributionPlan
    <2>3. keys \subseteq DOMAIN w.balances
        BY <2>2 DEF FundedTokens
    <2> HIDE DEF keys
    <2> QED  BY <2>1, <2>2, <2>3, FS_Subset DEF IsBalances
<1> HIDE DEF keys
<1>3. /\ tokens \in [1..N -> keys] /\ N \in Nat
      /\ \A t \in keys : \E i \in 1..N : tokens[i] = t
      /\ \A i, j \in 1..N : tokens[i] = tokens[j] => i = j
    <2> DEFINE c == Cardinality(keys)
    <2>0. keys \subseteq Nat
        <3>1. keys \subseteq Tokens /\ Tokens \subseteq Nat
            BY <1>2, BoundsAssumption
        <3> QED  BY <3>1
    <2>1. tokens \in [1..c -> keys] /\ IsMapOrder(tokens, keys)
        BY <1>2, <2>0, OrderExists
    <2>2. c \in Nat
        BY <1>2, FS_CardinalityType
    <2> HIDE DEF tokens, c, N
    <2>3. N = c /\ DOMAIN tokens = 1..c
        BY <2>1, <2>2 DEF N
    <2>4. \A i \in 1..c : tokens[i] \in Nat
        BY <2>0, <2>1
    <2>5. \A i, j \in 1..c : i < j => tokens[i] < tokens[j]
        BY <2>1, <2>3 DEF IsMapOrder
    <2>6. \A i, j \in 1..c : tokens[i] = tokens[j] => i = j
        <3> SUFFICES ASSUME NEW i \in 1..c, NEW j \in 1..c, tokens[i] = tokens[j], i # j
                     PROVE  FALSE
            OBVIOUS
        <3>1. i < j \/ j < i
            BY <2>2
        <3> QED  BY <2>4, <2>5, <3>1
    <2>7. \A t \in keys : \E i \in 1..c : tokens[i] = t
        BY <2>1, <2>3 DEF IsMapOrder
    <2> QED  BY <2>1, <2>2, <2>3, <2>6, <2>7
<1> HIDE DEF tokens, N
<1>4. \A n \in 1..N : /\ tokens[n] \in keys /\ tokens[n] \in DOMAIN w.balances /\ tokens[n] \in Tokens
                      /\ plan[tokens[n]] = TokenPlan(w, keeper, tokens[n])
    BY <1>2, <1>3
<1>5. \A n \in 1..N :
        /\ Payable(back[n], tokens[n]) /\ PaysOnce(back[n])
        /\ TotalAmount(back[n]) = plan[tokens[n]].refund
        /\ PayeesOf(back[n]) \subseteq (IF plan[tokens[n]].refund > 0 THEN {w.owner} ELSE {})
        /\ Payable(given[n], tokens[n])
        /\ TotalAmount(given[n]) = TotalAmount(plan[tokens[n]].shares) + plan[tokens[n]].bounty
    <2> SUFFICES ASSUME NEW n \in 1..N
                 PROVE  /\ Payable(back[n], tokens[n]) /\ PaysOnce(back[n])
                        /\ TotalAmount(back[n]) = plan[tokens[n]].refund
                        /\ PayeesOf(back[n]) \subseteq (IF plan[tokens[n]].refund > 0 THEN {w.owner} ELSE {})
                        /\ Payable(given[n], tokens[n])
                        /\ TotalAmount(given[n]) = TotalAmount(plan[tokens[n]].shares)
                                                        + plan[tokens[n]].bounty
        BY Zenon
    <2> DEFINE t == tokens[n]
    <2>1. t \in DOMAIN w.balances /\ plan[t] = TokenPlan(w, keeper, t)
        BY <1>4
    <2>2. back[n] = Refund(w, plan, t) /\ given[n] = SharesAndBounty(keeper, plan, t)
        OBVIOUS
    <2> HIDE DEF t, back, given
    <2>3. /\ Payable(Refund(w, plan, t), t)
           /\ TotalAmount(Refund(w, plan, t)) = plan[t].refund
           /\ PaysOnce(Refund(w, plan, t))
           /\ PayeesOf(Refund(w, plan, t)) \subseteq (IF plan[t].refund > 0 THEN {w.owner} ELSE {})
           /\ Payable(SharesAndBounty(keeper, plan, t), t)
           /\ TotalAmount(SharesAndBounty(keeper, plan, t)) = TotalAmount(plan[t].shares) + plan[t].bounty
        BY <2>1, ListsPayable
    <2> QED  BY <2>2, <2>3 DEF t
<1>6. \A t \in keys : /\ plan[t].refund \in Nat /\ plan[t].bounty \in Nat
                      /\ TotalAmount(plan[t].shares) \in Nat
    BY <1>2, PlanTyped
<1>7. Rounds(N, tokens, back) /\ Rounds(N, tokens, given)
    <2>1. tokens \in [1..N -> Tokens]
        BY <1>3, <1>4
    <2> HIDE DEF back, given
    <2> QED  BY <1>3, <1>5, <2>1 DEF Rounds
\* The refunds.
<1>8. Paying(refunds, books, id, N, back, refused)
    <2>1. \E f : Paying(f, books, id, N, back, refused)
        <3> HIDE DEF back, refunds
        <3> QED  BY <1>3, <1>7, RoundsExist
    <2>2. \A n \in 0..N : n # 0 => back[n] = Refund(w, plan, tokens[n])
        BY <1>3
    <2>3. \A f : [n \in 0..N |-> IF n = 0 THEN books
                                 ELSE PaidOrParked(id, back[n], refused, f[n - 1])]
               = [n \in 0..N |->
                        IF n = 0 THEN [failed |-> failed_payout, bank |-> bank]
                        ELSE PaidOrParked(id, Refund(w, plan, tokens[n]), refused, f[n - 1])]
        <3> HIDE DEF back
        <3> QED  BY <2>2
    <2>4. PICK f : f = [n \in 0..N |->
                        IF n = 0 THEN [failed |-> failed_payout, bank |-> bank]
                        ELSE PaidOrParked(id, Refund(w, plan, tokens[n]), refused, f[n - 1])]
        BY <2>1, <2>3, Zenon DEF Paying
    <2>5. refunds = [n \in 0..N |->
                        IF n = 0 THEN [failed |-> failed_payout, bank |-> bank]
                        ELSE PaidOrParked(id, Refund(w, plan, tokens[n]), refused, refunds[n - 1])]
        BY <2>4, Zenon
    <2> HIDE DEF refunds
    <2> QED  BY <2>3, <2>5, Zenon DEF Paying
<1> HIDE DEF refunds, back
<1>9. PaidRounds(books, refunds[N], id, N, tokens, back)
    BY <1>3, <1>7, <1>8, RoundsPay
<1> DEFINE mid == refunds[N]
<1>9a. mid \in Books
    BY <1>9 DEF PaidRounds
\* The shares and the bounty.
<1>10. Paying(paid, mid, id, N, given, refused)
    <2>1. \E f : Paying(f, mid, id, N, given, refused)
        <3> HIDE DEF given, paid, mid
        <3> QED  BY <1>3, <1>7, <1>9a, RoundsExist
    <2>2. \A n \in 0..N : n # 0 => given[n] = SharesAndBounty(keeper, plan, tokens[n])
        BY <1>3
    <2>3. \A f : [n \in 0..N |-> IF n = 0 THEN mid
                                 ELSE PaidOrParked(id, given[n], refused, f[n - 1])]
               = [n \in 0..N |->
                        IF n = 0 THEN refunds[N]
                        ELSE PaidOrParked(id, SharesAndBounty(keeper, plan, tokens[n]), refused, f[n - 1])]
        <3> HIDE DEF given
        <3> QED  BY <2>2
    <2>4. PICK f : f = [n \in 0..N |->
                        IF n = 0 THEN refunds[N]
                        ELSE PaidOrParked(id, SharesAndBounty(keeper, plan, tokens[n]), refused, f[n - 1])]
        BY <2>1, <2>3, Zenon DEF Paying
    <2>5. paid = [n \in 0..N |->
                        IF n = 0 THEN refunds[N]
                        ELSE PaidOrParked(id, SharesAndBounty(keeper, plan, tokens[n]), refused, paid[n - 1])]
        BY <2>4, Zenon
    <2> HIDE DEF paid
    <2> QED  BY <2>3, <2>5, Zenon DEF Paying
<1> HIDE DEF paid, given, mid
<1>11. PaidRounds(mid, paid[N], id, N, tokens, given)
    BY <1>3, <1>7, <1>9a, <1>10, RoundsPay
\* Whose keys they are.
<1>12. /\ RoundKeys(id, N, tokens, back) \subseteq OfWill(id)
       /\ RoundKeys(id, N, tokens, given) \subseteq OfWill(id)
    BY DEF RoundKeys, KeysOf, OfWill
<1>13. ASSUME PaidOnce(w, keeper, plan)
       PROVE  /\ \A n \in 1..N : PaysOnce(back[n]) /\ PaysOnce(given[n])
              /\ RoundKeys(id, N, tokens, back) \cap RoundKeys(id, N, tokens, given) = {}
    <2>1. ASSUME NEW n \in 1..N
          PROVE  /\ PaysOnce(given[n])
                 /\ PayeesOf(back[n]) \cap PayeesOf(given[n]) = {}
        <3>1. given[n] = SharesAndBounty(keeper, plan, tokens[n]) /\ tokens[n] \in DOMAIN plan
            BY <1>4 DEF given, keys
        <3>2. /\ PaysOnce(SharesAndBounty(keeper, plan, tokens[n]))
              /\ plan[tokens[n]].refund > 0
                    => w.owner \notin PayeesOf(SharesAndBounty(keeper, plan, tokens[n]))
            BY <1>13, <3>1 DEF PaidOnce
        <3>3. PayeesOf(back[n]) \subseteq (IF plan[tokens[n]].refund > 0 THEN {w.owner} ELSE {})
            BY <1>5
        <3> QED  BY <3>1, <3>2, <3>3
    <2>2. ASSUME NEW key \in RoundKeys(id, N, tokens, back), key \in RoundKeys(id, N, tokens, given)
          PROVE  FALSE
        <3>1. PICK n \in 1..N : key \in KeysOf(id, back[n], tokens[n])
            BY <2>2 DEF RoundKeys
        <3>2. PICK m \in 1..N : key \in KeysOf(id, given[m], tokens[m])
            BY <2>2 DEF RoundKeys
        <3>3. PICK a \in PayeesOf(back[n]) : key = <<id, tokens[n], a>>
            BY <3>1 DEF KeysOf
        <3>4. PICK c \in PayeesOf(given[m]) : key = <<id, tokens[m], c>>
            BY <3>2 DEF KeysOf
        <3>5. tokens[n] = tokens[m] /\ a = c
            BY <3>3, <3>4
        <3>6. n = m
            BY <1>3, <3>5
        <3> QED  BY <2>1, <3>3, <3>4, <3>5, <3>6
    <2> QED  BY <1>5, <2>1, <2>2
<1>14. ASSUME NEW t \in Tokens
       PROVE  /\ Spare(out, t) \in Int /\ Spare(books, t) \in Int
              /\ t \in DOMAIN plan =>
                    /\ PaidOf(plan, t) \in Nat
                    /\ Spare(out, t) >= Spare(books, t) - PaidOf(plan, t)
              /\ t \notin DOMAIN plan => Spare(out, t) >= Spare(books, t)
              /\ PaidOnce(w, keeper, plan) /\ DOMAIN books.failed \cap OfWill(id) = {}
                    => Spare(out, t) = Spare(books, t)
                                        - (IF t \in DOMAIN plan THEN PaidOf(plan, t) ELSE 0)
    <2> DEFINE refund == IF t \in keys THEN plan[t].refund ELSE 0
               shared == IF t \in keys THEN TotalAmount(plan[t].shares) + plan[t].bounty ELSE 0
    <2>1. refund \in Nat /\ shared \in Nat
        BY <1>6
    <2>2. /\ \A n \in 1..N : tokens[n] = t => TotalAmount(back[n]) = refund /\ TotalAmount(given[n]) = shared
          /\ refund = 0 \/ t \in {tokens[n] : n \in 1..N}
          /\ shared = 0 \/ t \in {tokens[n] : n \in 1..N}
        <3>1. t \notin keys => refund = 0 /\ shared = 0
            OBVIOUS
        <3>2. t \in keys => t \in {tokens[n] : n \in 1..N}
            BY <1>3
        <3>3. ASSUME NEW n \in 1..N, tokens[n] = t
              PROVE  TotalAmount(back[n]) = refund /\ TotalAmount(given[n]) = shared
            <4>1. t \in keys
                BY <1>4, <3>3
            <4> QED  BY <1>5, <3>3, <4>1
        <3> HIDE DEF refund, shared
        <3> QED  BY <3>1, <3>2, <3>3
    <2>3. /\ refund + shared = IF t \in DOMAIN plan THEN PaidOf(plan, t) ELSE 0
        BY DEF PaidOf, keys
    <2> HIDE DEF refund, shared
    <2>4. /\ Spare(mid, t) \in Int /\ Spare(books, t) \in Int
          /\ Spare(mid, t) >= Spare(books, t) - refund
          /\ (\A n \in 1..N : PaysOnce(back[n]))
             /\ DOMAIN books.failed \cap RoundKeys(id, N, tokens, back) = {}
                => Spare(mid, t) = Spare(books, t) - refund
        BY <1>9, <2>1, <2>2 DEF mid, PaidRounds
    <2>5. /\ Spare(out, t) \in Int
          /\ Spare(out, t) >= Spare(mid, t) - shared
          /\ (\A n \in 1..N : PaysOnce(given[n]))
             /\ DOMAIN mid.failed \cap RoundKeys(id, N, tokens, given) = {}
                => Spare(out, t) = Spare(mid, t) - shared
        BY <1>1, <1>11, <2>1, <2>2 DEF PaidRounds
    <2>6. ASSUME PaidOnce(w, keeper, plan), DOMAIN books.failed \cap OfWill(id) = {}
          PROVE  Spare(mid, t) = Spare(books, t) - refund /\ Spare(out, t) = Spare(mid, t) - shared
        <3>1. DOMAIN books.failed \cap RoundKeys(id, N, tokens, back) = {}
            BY <1>12, <2>6
        <3>2. DOMAIN mid.failed \subseteq DOMAIN books.failed \cup RoundKeys(id, N, tokens, back)
            BY <1>9 DEF mid, PaidRounds
        <3>3. DOMAIN mid.failed \cap RoundKeys(id, N, tokens, given) = {}
            BY <1>12, <1>13, <2>6, <3>2
        <3> QED  BY <1>13, <2>4, <2>5, <2>6, <3>1, <3>3
    <2> QED  BY <2>1, <2>3, <2>4, <2>5, <2>6
<1>15. out \in Books /\ DOMAIN out.failed \subseteq DOMAIN books.failed \cup OfWill(id)
    <2>1. DOMAIN refunds[N].failed \subseteq DOMAIN books.failed \cup RoundKeys(id, N, tokens, back)
        BY <1>9 DEF PaidRounds
    <2> QED  BY <1>1, <1>11, <1>12, <2>1 DEF mid, PaidRounds
<1> QED  BY <1>14, <1>15

----------------------------------------------------------------------------
(* What the contract holds, and for whom *)

\* What a collection of wills holds of token t.
HeldIn(ws, t) == SumFunction([id \in DOMAIN ws |-> BalanceOf(ws[id].balances, t)])

WellHeld(ws) == IsFiniteSet(DOMAIN ws) /\ \A id \in DOMAIN ws : TypedWill(ws[id])

LEMMA FundsNatural ==
    ASSUME NEW w, TypedWill(w), NEW t
    PROVE  BalanceOf(w.balances, t) \in Nat
<1>1. IsBalances(w.balances)
    BY Opened DEF TypedFields
<1> QED  BY <1>1 DEF IsBalances, BalanceOf

LEMMA HeldInNatural ==
    ASSUME NEW ws, WellHeld(ws), NEW t
    PROVE  HeldIn(ws, t) \in Nat
<1> DEFINE f == [id \in DOMAIN ws |-> BalanceOf(ws[id].balances, t)]
           D == DOMAIN ws
<1>1. IsFiniteSet(D) /\ \A id \in D : f[id] \in Nat
    BY FundsNatural DEF WellHeld
<1>2. HeldIn(ws, t) = SumFunctionOnSet(f, D)
    BY DEF HeldIn, SumFunction
<1> HIDE DEF f, D
<1> QED  BY <1>1, <1>2, SumNatural

LEMMA HeldInPut ==
    ASSUME NEW ws, WellHeld(ws), NEW id, NEW w, TypedWill(w), NEW t
    PROVE  /\ WellHeld(Put(ws, id, w))
           /\ HeldIn(Put(ws, id, w), t) =
                HeldIn(ws, t) + BalanceOf(w.balances, t)
                    - (IF id \in DOMAIN ws THEN BalanceOf(ws[id].balances, t) ELSE 0)
<1> DEFINE new == Put(ws, id, w)
           f == [x \in DOMAIN ws |-> BalanceOf(ws[x].balances, t)]
           g == [x \in DOMAIN new |-> BalanceOf(new[x].balances, t)]
           D == DOMAIN ws
           E == DOMAIN new
           a == BalanceOf(w.balances, t)
<1>1. E = D \cup {id} /\ new[id] = w /\ (\A x \in D : x # id => new[x] = ws[x])
    BY DEF Put
<1>2. IsFiniteSet(D) /\ (\A x \in D : f[x] \in Nat) /\ a \in Nat
    BY FundsNatural DEF WellHeld
<1>3. HeldIn(ws, t) = SumFunctionOnSet(f, D) /\ HeldIn(new, t) = SumFunctionOnSet(g, E)
    BY DEF HeldIn, SumFunction
<1>4. g[id] = a /\ \A x \in D : x # id => g[x] = f[x]
    BY <1>1
<1>5. id \in D => f[id] = BalanceOf(ws[id].balances, t)
    OBVIOUS
<1>6. IsFiniteSet(E)
    BY <1>1, <1>2, FS_AddElement
<1>7. WellHeld(new)
    BY <1>1, <1>6 DEF WellHeld
<1> HIDE DEF new, f, g, D, E, a
<1>8. CASE id \in D
    <2>1. E = D
        BY <1>1, <1>8
    <2>2. SumFunctionOnSet(g, D) = SumFunctionOnSet(f, D) + g[id] - f[id]
        <3>1. IsFiniteSet(D) /\ id \in D
            BY <1>2, <1>8
        <3>2. \A x \in D : f[x] \in Int
            BY <1>2
        <3>3. g[id] \in Int
            BY <1>2, <1>4
        <3>4. \A x \in D \ {id} : g[x] = f[x]
            BY <1>4
        <3> QED  BY ONLY <3>1, <3>2, <3>3, <3>4, SumChangesAt
    <2>3. SumFunctionOnSet(f, D) \in Int
        BY <1>2, SumNatural
    <2>4. HeldIn(new, t) = HeldIn(ws, t) + a - f[id]
        BY <1>2, <1>3, <1>4, <1>8, <2>1, <2>2, <2>3
    <2> QED  BY <1>5, <1>7, <1>8, <2>4 DEF new, a, D
<1>9. CASE id \notin D
    <2>1. id \in E /\ E \ {id} = D /\ (\A x \in E : g[x] \in Int)
          /\ (\A x \in D : g[x] = f[x] /\ f[x] \in Int)
        BY <1>1, <1>2, <1>4, <1>9
    <2>2. SumFunctionOnSet(g, E) = g[id] + SumFunctionOnSet(g, E \ {id})
        BY <1>6, <2>1, SumTakeOut
    <2>3. SumFunctionOnSet(g, D) = SumFunctionOnSet(f, D)
        BY <1>2, <2>1, SumSame
    <2>4. SumFunctionOnSet(f, D) \in Int
        BY <1>2, SumNatural
    <2>5. HeldIn(new, t) = HeldIn(ws, t) + a
        <3>1. HeldIn(new, t) = a + HeldIn(ws, t)
            BY <1>3, <1>4, <2>1, <2>2, <2>3
        <3>2. a \in Int /\ HeldIn(ws, t) \in Int
            BY <1>2, <1>3, <2>4
        <3> QED  BY ONLY <3>1, <3>2
    <2>6. HeldIn(ws, t) + a - 0 = HeldIn(ws, t) + a
        BY <1>2, <1>3, <2>4
    <2> QED  BY <1>7, <1>9, <2>5, <2>6 DEF new, a, D
<1> QED  BY <1>8, <1>9

LEMMA HeldInWithout ==
    ASSUME NEW ws, WellHeld(ws), NEW id \in DOMAIN ws, NEW t
    PROVE  /\ WellHeld(Without(ws, {id}))
           /\ HeldIn(Without(ws, {id}), t) = HeldIn(ws, t) - BalanceOf(ws[id].balances, t)
<1> DEFINE new == Without(ws, {id})
           f == [x \in DOMAIN ws |-> BalanceOf(ws[x].balances, t)]
           g == [x \in DOMAIN new |-> BalanceOf(new[x].balances, t)]
           D == DOMAIN ws
           E == DOMAIN new
<1>1. E = D \ {id} /\ (\A x \in E : new[x] = ws[x])
    BY DEF Without
<1>2. IsFiniteSet(D) /\ (\A x \in D : f[x] \in Nat) /\ f[id] = BalanceOf(ws[id].balances, t)
    BY FundsNatural DEF WellHeld
<1>3. HeldIn(ws, t) = SumFunctionOnSet(f, D) /\ HeldIn(new, t) = SumFunctionOnSet(g, E)
    BY DEF HeldIn, SumFunction
<1>4. \A x \in E : g[x] = f[x]
    BY <1>1
<1>5. IsFiniteSet(E)
    <2> HIDE DEF D, E
    <2> QED  BY <1>1, <1>2, FS_Subset
<1>6. WellHeld(new)
    BY <1>1, <1>5 DEF WellHeld
<1>7. id \in D
    OBVIOUS
<1> HIDE DEF new, f, g, D, E
<1>8. SumFunctionOnSet(f, D) = f[id] + SumFunctionOnSet(f, D \ {id})
    <2>1. \A x \in D : f[x] \in Int
        BY <1>2
    <2> QED  BY <1>2, <1>7, <2>1, SumTakeOut
<1>9. SumFunctionOnSet(g, E) = SumFunctionOnSet(f, E) /\ SumFunctionOnSet(f, E) \in Int
    <2>1. \A x \in E : g[x] = f[x] /\ f[x] \in Int
        BY <1>1, <1>2, <1>4
    <2> QED  BY <1>5, <2>1, SumSame, SumType
<1>10. f[id] \in Int
    BY <1>2, <1>7
<1>11. HeldIn(new, t) = HeldIn(ws, t) - f[id]
    BY <1>1, <1>3, <1>8, <1>9, <1>10
<1> QED  BY <1>2, <1>6, <1>11 DEF new

\* Collections that hold the same.
LEMMA HeldInSame ==
    ASSUME NEW ws, WellHeld(ws), NEW vs, DOMAIN vs = DOMAIN ws, NEW t,
           \A id \in DOMAIN ws : vs[id].balances = ws[id].balances
    PROVE  HeldIn(vs, t) = HeldIn(ws, t)
<1>1. [id \in DOMAIN vs |-> BalanceOf(vs[id].balances, t)]
        = [id \in DOMAIN ws |-> BalanceOf(ws[id].balances, t)]
    OBVIOUS
<1> QED  BY <1>1 DEF HeldIn

\* A whole purse paid into the contract, or out of it.
LEMMA PursePaid ==
    ASSUME NEW ledger \in Ledgers, NEW a \in Accounts, NEW b, IsBalances(b)
    PROVE  /\ CanPay(ledger, a, b) =>
                /\ TransferredAll(ledger, a, Contract, b) \in Ledgers
                /\ \A t \in Tokens : TransferredAll(ledger, a, Contract, b)[t][Contract]
                                        = ledger[t][Contract] + BalanceOf(b, t)
           /\ CanPay(ledger, Contract, b) =>
                /\ TransferredAll(ledger, Contract, a, b) \in Ledgers
                /\ \A t \in Tokens : TransferredAll(ledger, Contract, a, b)[t][Contract]
                                        = ledger[t][Contract] - BalanceOf(b, t)
<1> DEFINE Both == Accounts \cup {Contract}
<1>1. /\ ledger \in [Tokens -> [Both -> Nat]]
      /\ a # Contract /\ a \in Both /\ Contract \in Both
      /\ DOMAIN b \subseteq Tokens /\ \A t \in DOMAIN b : b[t] \in Nat
    BY AccountsAssumption DEF Ledgers, IsBalances
<1> HIDE DEF Both
<1>2. ASSUME NEW from \in Both, NEW to \in Both, from # to, CanPay(ledger, from, b)
      PROVE  /\ TransferredAll(ledger, from, to, b) \in [Tokens -> [Both -> Nat]]
             /\ \A t \in Tokens :
                 /\ TransferredAll(ledger, from, to, b)[t][to] = ledger[t][to] + BalanceOf(b, t)
                 /\ TransferredAll(ledger, from, to, b)[t][from] = ledger[t][from] - BalanceOf(b, t)
    <2> DEFINE row(t) == IF t \in DOMAIN b
                         THEN [ledger[t] EXCEPT ![from] = @ - b[t], ![to] = @ + b[t]]
                         ELSE ledger[t]
    <2>1. ASSUME NEW t \in Tokens
          PROVE  /\ row(t) \in [Both -> Nat]
                 /\ row(t)[to] = ledger[t][to] + BalanceOf(b, t)
                 /\ row(t)[from] = ledger[t][from] - BalanceOf(b, t)
        <3>1. ledger[t] \in [Both -> Nat] /\ ledger[t][from] \in Nat /\ ledger[t][to] \in Nat
            BY <1>1
        <3>2. t \in DOMAIN b => ledger[t][from] >= b[t] /\ b[t] \in Nat
            BY <1>1, <1>2 DEF CanPay
        <3> QED  BY <1>2, <3>1, <3>2 DEF BalanceOf
    <2>2. TransferredAll(ledger, from, to, b) = [t \in Tokens |-> row(t)]
        BY DEF TransferredAll
    <2> HIDE DEF row
    <2> QED  BY <2>1, <2>2
<1> QED  BY <1>1, <1>2 DEF Ledgers, Both

----------------------------------------------------------------------------
(* The books *)

Ledger == [failed |-> failed_payout, bank |-> bank]

\* What the contract holds of a token beyond what it owes.
Left(t) == Spare(Ledger, t) - HeldIn(wills, t) - HeldIn(archived_wills, t)

\* What is parked is parked for wills that are over; an archived id is not in
\* use any more.
ParkedForTheOver ==
    \A key \in DOMAIN failed_payout :
        /\ key[1] \in 1..next_will_id
        /\ key[1] \in DOMAIN wills => wills[key[1]].status \notin LiveStatus

ArchiveApart == DOMAIN archived_wills \cap DOMAIN wills = {}

BooksKept ==
    /\ Ledger \in Books
    /\ WellHeld(archived_wills)
    /\ ParkedForTheOver
    /\ ArchiveApart

\* A step that leaves the books in order and takes nothing from anybody.
Even ==
    /\ BooksKept'
    /\ \A t \in Tokens : Left(t)' = Left(t)

LEMMA BooksTyped ==
    ASSUME BooksKept, WellHeld(wills), NEW t \in Tokens
    PROVE  /\ bank[t][Contract] \in Nat /\ ParkedOf(failed_payout, t) \in Nat
           /\ HeldIn(wills, t) \in Nat /\ HeldIn(archived_wills, t) \in Nat
           /\ Left(t) = bank[t][Contract] - ParkedOf(failed_payout, t)
                            - HeldIn(wills, t) - HeldIn(archived_wills, t)
<1>1. failed_payout \in Parkings /\ bank \in Ledgers
    BY DEF BooksKept, Ledger, Books
<1>2. DOMAIN failed_payout \subseteq PayoutKeys /\ \A key \in DOMAIN failed_payout : failed_payout[key] \in Nat
    BY <1>1, ParkingsAre
<1>3. bank[t][Contract] \in Nat
    BY <1>1 DEF Ledgers
<1>4. WellHeld(archived_wills)
    BY DEF BooksKept
<1>5. Spare(Ledger, t) = bank[t][Contract] - ParkedOf(failed_payout, t)
    BY DEF Spare, Ledger
<1>6. ParkedOf(failed_payout, t) \in Nat
    BY <1>2, ParkedTyped
<1>7. HeldIn(wills, t) \in Nat /\ HeldIn(archived_wills, t) \in Nat
    BY <1>4, HeldInNatural
<1> QED  BY <1>3, <1>5, <1>6, <1>7 DEF Left

\* Money that moves between an account and the wills of the contract.
LEMMA EvenWhenPaid ==
    ASSUME BooksKept, WellHeld(wills), WellHeld(wills'), LifecycleInv, LifecycleInv',
           UNCHANGED <<archived_wills, failed_payout>>, next_will_id <= next_will_id',
           \A id \in DOMAIN wills' : id \in DOMAIN wills \/ id > next_will_id,
           \A id \in DOMAIN wills \cap DOMAIN wills' :
                wills'[id].status \in LiveStatus => wills[id].status \in LiveStatus,
           bank' \in Ledgers,
           \A t \in Tokens : HeldIn(wills', t) - HeldIn(wills, t) = bank'[t][Contract] - bank[t][Contract]
    PROVE  Even
<1>1. failed_payout \in Parkings /\ bank \in Ledgers
    BY DEF BooksKept, Ledger, Books
<1>2. Ledger' \in Books
    BY <1>1 DEF Ledger, Books
<1>3. next_will_id \in Nat /\ next_will_id' \in Nat
    BY DEF LifecycleInv
<1>4. ArchiveApart'
    <2>1. DOMAIN archived_wills \subseteq 1..next_will_id
        BY DEF LifecycleInv
    <2>2. \A id \in DOMAIN archived_wills : ~(id > next_will_id)
        BY <1>3, <2>1
    <2> QED  BY <2>2 DEF BooksKept, ArchiveApart
<1>5. ParkedForTheOver'
    <2> SUFFICES ASSUME NEW key \in DOMAIN failed_payout
                 PROVE  /\ key[1] \in 1..next_will_id'
                        /\ key[1] \in DOMAIN wills' => wills'[key[1]].status \notin LiveStatus
        BY DEF ParkedForTheOver
    <2> DEFINE id == key[1]
    <2>1. id \in 1..next_will_id /\ (id \in DOMAIN wills => wills[id].status \notin LiveStatus)
        BY DEF BooksKept, ParkedForTheOver
    <2> HIDE DEF id
    <2>2. id \in 1..next_will_id' /\ ~(id > next_will_id)
        BY <1>3, <2>1
    <2>3. id \in DOMAIN wills' => wills'[id].status \notin LiveStatus
        BY <2>1, <2>2
    <2> QED  BY <2>2, <2>3 DEF id
<1>6. BooksKept'
    BY <1>2, <1>4, <1>5 DEF BooksKept
<1>7. ASSUME NEW t \in Tokens
      PROVE  Left(t)' = Left(t)
    <2>1. /\ bank[t][Contract] \in Nat /\ ParkedOf(failed_payout, t) \in Nat
          /\ HeldIn(wills, t) \in Nat /\ HeldIn(archived_wills, t) \in Nat
          /\ Left(t) = bank[t][Contract] - ParkedOf(failed_payout, t)
                            - HeldIn(wills, t) - HeldIn(archived_wills, t)
        BY BooksTyped
    <2>2. bank'[t][Contract] \in Nat /\ HeldIn(wills', t) \in Nat
        BY HeldInNatural DEF Ledgers
    <2>3. Left(t)' = bank'[t][Contract] - ParkedOf(failed_payout, t)
                            - HeldIn(wills', t) - HeldIn(archived_wills, t)
        BY DEF Left, Spare, Ledger
    <2>4. HeldIn(wills', t) - HeldIn(wills, t) = bank'[t][Contract] - bank[t][Contract]
        OBVIOUS
    <2> DEFINE b == bank[t][Contract]
               b2 == bank'[t][Contract]
               p == ParkedOf(failed_payout, t)
               h == HeldIn(wills, t)
               h2 == HeldIn(wills', t)
               a == HeldIn(archived_wills, t)
    <2> HIDE DEF b, b2, p, h, h2, a
    <2>5. b \in Int /\ b2 \in Int /\ p \in Int /\ h \in Int /\ h2 \in Int /\ a \in Int
          /\ h2 - h = b2 - b
        BY <2>1, <2>2, <2>4 DEF b, b2, p, h, h2, a
    <2>6. b2 - p - h2 - a = b - p - h - a
        BY ONLY <2>5
    <2> QED  BY <2>1, <2>3, <2>6 DEF b, b2, p, h, h2, a
<1> QED  BY <1>6, <1>7 DEF Even

\* Wills whose money stays where it is.
LEMMA EvenWhenStill ==
    ASSUME BooksKept, WellHeld(wills), WellHeld(wills'), LifecycleInv, LifecycleInv',
           UNCHANGED <<archived_wills, failed_payout, bank, next_will_id>>,
           DOMAIN wills' = DOMAIN wills,
           \A id \in DOMAIN wills : SameMoney(wills'[id], wills[id])
    PROVE  Even
<1>1. \A id \in DOMAIN wills : wills'[id].balances = wills[id].balances
        /\ (wills'[id].status \in LiveStatus => wills[id].status \in LiveStatus)
    BY DEF SameMoney, LiveStatus
<1>2. \A t \in Tokens : HeldIn(wills', t) = HeldIn(wills, t)
    BY <1>1, HeldInSame
<1>3. bank \in Ledgers /\ next_will_id \in Nat
    BY DEF BooksKept, Ledger, Books, LifecycleInv
<1>4. \A t \in Tokens : HeldIn(wills', t) - HeldIn(wills, t) = bank'[t][Contract] - bank[t][Contract]
    <2> SUFFICES ASSUME NEW t \in Tokens
                 PROVE  HeldIn(wills', t) - HeldIn(wills, t) = bank'[t][Contract] - bank[t][Contract]
        OBVIOUS
    <2>1. HeldIn(wills, t) \in Nat /\ bank[t][Contract] \in Nat
        BY BooksTyped
    <2> QED  BY <1>2, <2>1
<1> QED  BY <1>1, <1>3, <1>4, EvenWhenPaid

----------------------------------------------------------------------------
(* The entry points that pay in, pay out or move money between wills *)

\* What every step starts from, and the wills it leaves.
Steady ==
    /\ BooksKept /\ LifecycleInv /\ LifecycleInv'
    /\ WellHeld(wills) /\ WellHeld(wills')

\* What a will holds of t, if there is one.
HeldUnder(ws, id, t) == IF id \in DOMAIN ws THEN BalanceOf(ws[id].balances, t) ELSE 0

\* One will is written, and paid for by the ledger.
LEMMA EvenWhenPut ==
    ASSUME Steady, NEW id, NEW w, wills' = Put(wills, id, w),
           UNCHANGED <<archived_wills, failed_payout>>, next_will_id <= next_will_id',
           \/ id > next_will_id
           \/ id \in DOMAIN wills /\ (w.status \in LiveStatus => wills[id].status \in LiveStatus),
           bank' \in Ledgers,
           \A t \in Tokens : bank'[t][Contract] =
                bank[t][Contract] + BalanceOf(w.balances, t) - HeldUnder(wills, id, t)
    PROVE  Even
<1>1. DOMAIN wills' = DOMAIN wills \cup {id} /\ wills'[id] = w
      /\ \A x \in DOMAIN wills : x # id => wills'[x] = wills[x]
    BY DEF Put
<1>2. \A x \in DOMAIN wills : ~(x > next_will_id)
    <2>1. next_will_id \in Nat /\ DOMAIN wills \subseteq 1..next_will_id
        BY DEF Steady, LifecycleInv
    <2> QED  BY <2>1
<1>3. TypedWill(w)
    BY <1>1 DEF Steady, WellHeld
<1>4. ASSUME NEW t \in Tokens
      PROVE  HeldIn(wills', t) - HeldIn(wills, t) = bank'[t][Contract] - bank[t][Contract]
    <2>1. HeldIn(wills', t) = HeldIn(wills, t) + BalanceOf(w.balances, t) - HeldUnder(wills, id, t)
        BY <1>3, HeldInPut DEF Steady, HeldUnder
    <2>2. bank[t][Contract] \in Int /\ HeldIn(wills, t) \in Int
        BY BooksTyped DEF Steady
    <2>3. BalanceOf(w.balances, t) \in Int /\ HeldUnder(wills, id, t) \in Int
        BY <1>3, FundsNatural DEF Steady, WellHeld, HeldUnder
    <2>4. bank'[t][Contract] = bank[t][Contract] + BalanceOf(w.balances, t) - HeldUnder(wills, id, t)
        OBVIOUS
    <2> DEFINE b == bank[t][Contract]
               b2 == bank'[t][Contract]
               h == HeldIn(wills, t)
               h2 == HeldIn(wills', t)
               n == BalanceOf(w.balances, t)
               o == HeldUnder(wills, id, t)
    <2>5. b \in Int /\ h \in Int /\ n \in Int /\ o \in Int /\ h2 = h + n - o /\ b2 = b + n - o
        BY <2>1, <2>2, <2>3, <2>4
    <2> HIDE DEF b, b2, h, h2, n, o
    <2>6. h2 - h = b2 - b
        BY ONLY <2>5
    <2> QED  BY <2>6 DEF b, b2, h, h2
<1>5. \A x \in DOMAIN wills' : x \in DOMAIN wills \/ x > next_will_id
    BY <1>1
<1>6. \A x \in DOMAIN wills \cap DOMAIN wills' :
            wills'[x].status \in LiveStatus => wills[x].status \in LiveStatus
    BY <1>1, <1>2
<1> QED  BY <1>4, <1>5, <1>6, EvenWhenPaid DEF Steady

LEMMA QuietEven ==
    ASSUME Steady, Quiet, Continued
    PROVE  Even
BY EvenWhenStill DEF Steady, Quiet, Continued, SameEstate

LEMMA SavedEven ==
    ASSUME Steady, NEW id \in DOMAIN wills, NEW w, wills' = Put(wills, id, w), SameMoney(w, wills[id]),
           UNCHANGED <<archived_wills, failed_payout, bank, next_will_id>>
    PROVE  Even
<1>1. \A x : SameMoney(wills[x], wills[x])
    BY DEF SameMoney
<1>2. DOMAIN wills' = DOMAIN wills /\ \A x \in DOMAIN wills : SameMoney(wills'[x], wills[x])
    BY <1>1 DEF Put
<1> QED  BY <1>2, EvenWhenStill DEF Steady

LEMMA HeirsEven ==
    ASSUME Steady, FieldsInv, NEW id \in DOMAIN wills, NEW owner, NEW heir,
           \/ \E list \in BeneficiaryLists : update_beneficiaries(id, owner, list)
           \/ \E s \in Settings : update_will_settings(id, owner, s)
           \/ renounce_beneficiary(id, heir)
    PROVE  Even
<1>1. UNCHANGED <<archived_wills, failed_payout, bank, next_will_id>>
    BY DEF update_beneficiaries, update_will_settings, renounce_beneficiary, money
<1>2. PICK w : wills' = Put(wills, id, w) /\ SameMoney(w, wills[id])
    BY HeirsKeepMoney
<1> QED  BY <1>1, <1>2, SavedEven

\* The balances a will has under an unchanged ledger.
LEMMA LedgerStill ==
    ASSUME Steady, NEW id \in DOMAIN wills, NEW t \in Tokens, NEW b, b = wills[id].balances
    PROVE  bank[t][Contract] = bank[t][Contract] + BalanceOf(b, t) - HeldUnder(wills, id, t)
<1>1. bank[t][Contract] \in Nat /\ BalanceOf(b, t) \in Nat
    BY BooksTyped, FundsNatural DEF Steady, WellHeld
<1> QED  BY <1>1 DEF HeldUnder

LEMMA HashedEven ==
    ASSUME Steady, AllTyped, NEW id \in DOMAIN wills, NEW owner, NEW h, add_hashed_beneficiary(id, owner, h)
    PROVE  Even
<1> DEFINE hashed == Append(wills[id].hashed_beneficiaries,
                            [claimant |-> h.claimant, salt |-> h.salt,
                             percentage |-> h.percentage, claimed |-> FALSE])
           w == [wills[id] EXCEPT !.hashed_beneficiaries = hashed]
<1>1. wills' = Put(wills, id, w)
    BY DEF add_hashed_beneficiary, save_will, SaveWithVotes
<1>2. w.balances = wills[id].balances /\ w.status = wills[id].status
    OBVIOUS
<1>3. UNCHANGED <<archived_wills, failed_payout, bank, next_will_id>>
    BY DEF add_hashed_beneficiary, OnlyTheWill, money
<1> HIDE DEF w
<1>4. \A t \in Tokens : bank'[t][Contract] =
                bank[t][Contract] + BalanceOf(w.balances, t) - HeldUnder(wills, id, t)
    BY <1>2, <1>3, LedgerStill
<1>5. bank' \in Ledgers /\ next_will_id <= next_will_id'
    BY <1>3 DEF Steady, BooksKept, Ledger, Books, LifecycleInv
<1> QED  BY <1>1, <1>2, <1>3, <1>4, <1>5, EvenWhenPut

\* A new will, paid for by its owner.
LEMMA FundedEven ==
    ASSUME Steady, NEW owner \in Accounts, NEW w, NEW b, w.balances = b, IsBalances(b),
           CanPay(bank, owner, b), bank' = TransferredAll(bank, owner, Contract, b),
           wills' = Put(wills, next_will_id + 1, w), next_will_id' = next_will_id + 1,
           UNCHANGED <<archived_wills, failed_payout>>
    PROVE  Even
<1>1. next_will_id \in Nat /\ bank \in Ledgers
    BY DEF Steady, LifecycleInv, BooksKept, Ledger, Books
<1>2. bank' \in Ledgers /\ \A t \in Tokens : bank'[t][Contract] = bank[t][Contract] + BalanceOf(b, t)
    BY <1>1, PursePaid
<1>3. next_will_id + 1 > next_will_id /\ next_will_id <= next_will_id'
    BY <1>1
<1>4. next_will_id + 1 \notin DOMAIN wills
    BY <1>1 DEF Steady, LifecycleInv
<1>5. ASSUME NEW t \in Tokens
      PROVE  bank'[t][Contract] =
                bank[t][Contract] + BalanceOf(w.balances, t) - HeldUnder(wills, next_will_id + 1, t)
    <2>1. bank[t][Contract] \in Nat /\ BalanceOf(b, t) \in Nat
        BY BooksTyped DEF Steady, IsBalances, BalanceOf
    <2>2. HeldUnder(wills, next_will_id + 1, t) = 0
        BY <1>4 DEF HeldUnder
    <2> QED  BY <1>2, <2>1, <2>2
<1> QED  BY <1>2, <1>3, <1>5, EvenWhenPut

LEMMA CreateEven ==
    ASSUME Steady, NEW owner \in Accounts, NEW form \in CreateForms, create_will(owner, form)
    PROVE  Even
<1> DEFINE w == NewWill(owner, form)
           b == BalancesOf(form.tokens)
<1>1. IsBalances(b)
    BY PurseFunds, InputsAssumption DEF SetOfForms, TokenLists
<1>2. w.balances = b
    BY DEF NewWill
<1>3. /\ CanPay(bank, owner, b) /\ bank' = TransferredAll(bank, owner, Contract, b)
      /\ wills' = Put(wills, next_will_id + 1, w) /\ next_will_id' = next_will_id + 1
      /\ UNCHANGED <<archived_wills, failed_payout>>
    BY DEF create_will, save_will, SaveWithVotes
<1> HIDE DEF w, b
<1> QED  BY <1>1, <1>2, <1>3, FundedEven

LEMMA CloneEven ==
    ASSUME Steady, NEW source \in DOMAIN wills, NEW owner \in Accounts,
           NEW tokens \in ClonePurses, clone_will(source, owner, tokens)
    PROVE  Even
<1> DEFINE b == BalancesOf(tokens)
           w == Descendant(wills[source], owner, b, tokens[1][1], tokens[1][2])
<1>1. IsBalances(b)
    BY PurseFunds, PortfolioInputsAssumption
<1>2. w.balances = b
    <2>1. Whole(wills[source])
        BY Opened DEF Steady, WellHeld
    <2> HIDE DEF b
    <2> QED  BY <2>1 DEF Descendant, Whole, WillFields
<1>3. /\ CanPay(bank, owner, b) /\ bank' = TransferredAll(bank, owner, Contract, b)
      /\ wills' = Put(wills, next_will_id + 1, w) /\ next_will_id' = next_will_id + 1
      /\ UNCHANGED <<archived_wills, failed_payout>>
    BY DEF clone_will, save_will, SaveWithVotes
<1> HIDE DEF w, b
<1> QED  BY <1>1, <1>2, <1>3, FundedEven

LEMMA TopUpEven ==
    ASSUME Steady, NEW id \in DOMAIN wills, NEW owner \in Accounts, NEW t \in Tokens, NEW amount \in Nat,
           top_up(id, owner, t, amount)
    PROVE  Even
<1> DEFINE v == wills[id]
           b == Put(v.balances, t, BalanceOf(v.balances, t) + amount)
           w == sync_primary_balance([v EXCEPT !.balances = b])
<1>1. Whole(v) /\ TypedWill(v)
    BY Opened DEF Steady, WellHeld
<1>2. w.balances = b /\ w.status = v.status
    <2> HIDE DEF b, v
    <2> QED  BY <1>1 DEF sync_primary_balance, Whole, WillFields
<1>3. /\ wills' = Put(wills, id, w) /\ bank[t][owner] >= amount
      /\ bank' = Transferred(bank, t, owner, Contract, amount)
      /\ UNCHANGED <<archived_wills, failed_payout, next_will_id>>
    BY DEF top_up, save_will, SaveWithVotes
<1>4. \A x \in Tokens : BalanceOf(b, x) = BalanceOf(v.balances, x) + (IF t = x THEN amount ELSE 0)
    <2>1. \A x : BalanceOf(v.balances, x) \in Nat
        BY <1>1, FundsNatural
    <2>2. DOMAIN b = DOMAIN v.balances \cup {t} /\ b[t] = BalanceOf(v.balances, t) + amount
          /\ \A x \in DOMAIN v.balances : x # t => b[x] = v.balances[x]
        BY DEF Put
    <2> HIDE DEF b, v
    <2> QED  BY <2>1, <2>2 DEF BalanceOf
<1> HIDE DEF w, b
<1>5. bank \in Ledgers /\ next_will_id \in Nat
    BY DEF Steady, BooksKept, Ledger, Books, LifecycleInv
<1>6. bank' \in Ledgers /\ \A x \in Tokens : bank'[x][Contract] = bank[x][Contract] + (IF t = x THEN amount ELSE 0)
    BY <1>3, <1>5, TransferTyped
<1>7. ASSUME NEW x \in Tokens
      PROVE  bank'[x][Contract] = bank[x][Contract] + BalanceOf(w.balances, x) - HeldUnder(wills, id, x)
    <2>1. bank[x][Contract] \in Nat /\ BalanceOf(v.balances, x) \in Nat
        BY <1>1, BooksTyped, FundsNatural DEF Steady
    <2>2. HeldUnder(wills, id, x) = BalanceOf(v.balances, x)
        BY DEF HeldUnder
    <2> DEFINE more == IF t = x THEN amount ELSE 0
    <2>3. more \in Nat /\ bank'[x][Contract] = bank[x][Contract] + more
          /\ BalanceOf(w.balances, x) = BalanceOf(v.balances, x) + more
        BY <1>2, <1>4, <1>6
    <2> HIDE DEF more, v
    <2> QED  BY <2>1, <2>2, <2>3
<1> QED  BY <1>2, <1>3, <1>5, <1>6, <1>7, EvenWhenPut

LEMMA CancelEven ==
    ASSUME Steady, NEW id \in DOMAIN wills, NEW owner \in Accounts, cancel_will(id, owner)
    PROVE  Even
<1> DEFINE v == wills[id]
           w == [v EXCEPT !.balance = 0, !.balances = << >>, !.status = "Cancelled"]
<1>1. Whole(v) /\ TypedWill(v) /\ IsBalances(v.balances)
    BY Opened DEF Steady, WellHeld, TypedFields
<1>2. w.balances = << >> /\ w.status = "Cancelled"
    <2> HIDE DEF v
    <2> QED  BY <1>1 DEF Whole, WillFields
<1>3. /\ wills' = Put(wills, id, w) /\ CanPay(bank, Contract, v.balances)
      /\ bank' = TransferredAll(bank, Contract, owner, v.balances)
      /\ UNCHANGED <<archived_wills, failed_payout, next_will_id>>
    BY DEF cancel_will, save_will, SaveWithVotes
<1> HIDE DEF w
<1>4. bank \in Ledgers /\ next_will_id \in Nat
    BY DEF Steady, BooksKept, Ledger, Books, LifecycleInv
<1>5. bank' \in Ledgers /\ \A t \in Tokens : bank'[t][Contract] = bank[t][Contract] - BalanceOf(v.balances, t)
    BY <1>1, <1>3, <1>4, PursePaid
<1>6. ASSUME NEW t \in Tokens
      PROVE  bank'[t][Contract] = bank[t][Contract] + BalanceOf(w.balances, t) - HeldUnder(wills, id, t)
    <2>1. bank[t][Contract] \in Nat /\ BalanceOf(v.balances, t) \in Nat
        BY <1>1, BooksTyped, FundsNatural DEF Steady
    <2>2. HeldUnder(wills, id, t) = BalanceOf(v.balances, t) /\ BalanceOf(w.balances, t) = 0
        BY <1>2 DEF HeldUnder, BalanceOf
    <2> HIDE DEF v
    <2> QED  BY <1>5, <2>1, <2>2
<1> QED  BY <1>2, <1>3, <1>4, <1>5, <1>6, EvenWhenPut DEF LiveStatus

LEMMA ClaimEven ==
    ASSUME Steady, PaidInv, NEW id \in DOMAIN wills, NEW claimant \in Accounts, NEW salt,
           reveal_and_claim(id, claimant, salt)
    PROVE  Even
<1> DEFINE w == wills[id]
           n == unclaimed_hashed_bps(w.hashed_beneficiaries)
<1>1. PICK i \in DOMAIN w.hashed_beneficiaries :
        LET p == w.hashed_beneficiaries[i].percentage
            shares == [t \in DOMAIN w.balances |-> (w.balances[t] * p) \div n]
            left == [t \in DOMAIN w.balances |-> w.balances[t] - shares[t]]
        IN  /\ ~w.hashed_beneficiaries[i].claimed
            /\ CanPay(bank, Contract, shares)
            /\ bank' = TransferredAll(bank, Contract, claimant, shares)
            /\ wills' = Put(wills, id, [w EXCEPT !.balances = left,
                                       !.balance = BalanceOf(left, w.token),
                                       !.hashed_beneficiaries[i].claimed = TRUE])
    BY DEF reveal_and_claim, save_will, SaveWithVotes
<1> DEFINE p == w.hashed_beneficiaries[i].percentage
           shares == [t \in DOMAIN w.balances |-> (w.balances[t] * p) \div n]
           left == [t \in DOMAIN w.balances |-> w.balances[t] - shares[t]]
           new == [w EXCEPT !.balances = left, !.balance = BalanceOf(left, w.token),
                            !.hashed_beneficiaries[i].claimed = TRUE]
<1>2. /\ TypedWill(w) /\ Whole(w)
      /\ IsBalances(w.balances) /\ w.hashed_beneficiaries \in Seq(HashedBeneficiary)
      /\ w.hashed_beneficiaries \in Seq(Commitment)
    BY Opened DEF Steady, WellHeld, TypedFields, PaidInv, PaidOut
<1>3. p \in Nat /\ n \in Nat \ {0} /\ p <= n
    BY <1>1, <1>2, ClaimTerms
<1>4. CanPay(bank, Contract, shares) /\ bank' = TransferredAll(bank, Contract, claimant, shares)
      /\ wills' = Put(wills, id, new)
    BY <1>1
<1>5. \A t \in DOMAIN w.balances : w.balances[t] \in Nat /\ (w.balances[t] * p) \div n \in 0..w.balances[t]
    <2> SUFFICES ASSUME NEW t \in DOMAIN w.balances
                 PROVE  w.balances[t] \in Nat /\ (w.balances[t] * p) \div n \in 0..w.balances[t]
        OBVIOUS
    <2> HIDE DEF n, p
    <2>1. w.balances[t] \in Nat
        BY <1>2 DEF IsBalances
    <2> QED  BY <1>3, <2>1, PartShare
<1>6. new.balances = left /\ new.status = w.status
    <2> HIDE DEF left, w
    <2> QED  BY <1>2 DEF Whole, WillFields
<1>7. IsBalances(shares)
    <2> DEFINE part(t) == (w.balances[t] * p) \div n
    <2>1. \A t \in DOMAIN w.balances : part(t) \in 0..w.balances[t] /\ w.balances[t] \in Nat
        BY <1>5
    <2>2. shares = [t \in DOMAIN w.balances |-> part(t)]
        OBVIOUS
    <2> HIDE DEF part, shares
    <2>3. \A t \in DOMAIN w.balances : part(t) \in Nat
        BY <2>1
    <2> QED  BY <1>2, <2>2, <2>3 DEF IsBalances
<1>8. \A t \in Tokens : BalanceOf(left, t) = BalanceOf(w.balances, t) - BalanceOf(shares, t)
    <2> DEFINE part(t) == (w.balances[t] * p) \div n
    <2>1. shares = [t \in DOMAIN w.balances |-> part(t)]
        OBVIOUS
    <2>2. left = [t \in DOMAIN w.balances |-> w.balances[t] - shares[t]]
        OBVIOUS
    <2> HIDE DEF part, shares, left
    <2> QED  BY <2>1, <2>2 DEF BalanceOf
<1>9. UNCHANGED <<archived_wills, failed_payout, next_will_id>>
    BY DEF reveal_and_claim
<1> HIDE DEF new, left, shares
<1>10. bank \in Ledgers /\ next_will_id \in Nat
    BY DEF Steady, BooksKept, Ledger, Books, LifecycleInv
<1>11. bank' \in Ledgers /\ \A t \in Tokens : bank'[t][Contract] = bank[t][Contract] - BalanceOf(shares, t)
    BY <1>4, <1>7, <1>10, PursePaid
<1>12. ASSUME NEW t \in Tokens
       PROVE  bank'[t][Contract] = bank[t][Contract] + BalanceOf(new.balances, t) - HeldUnder(wills, id, t)
    <2>1. bank[t][Contract] \in Nat /\ BalanceOf(w.balances, t) \in Nat
        BY <1>2, BooksTyped, FundsNatural DEF Steady
    <2>2. BalanceOf(shares, t) \in Nat
        BY <1>7 DEF BalanceOf, IsBalances
    <2>3. HeldUnder(wills, id, t) = BalanceOf(w.balances, t)
          /\ BalanceOf(new.balances, t) = BalanceOf(w.balances, t) - BalanceOf(shares, t)
        BY <1>6, <1>8 DEF HeldUnder
    <2>4. bank'[t][Contract] = bank[t][Contract] - BalanceOf(shares, t)
        BY <1>11
    <2> DEFINE a == BalanceOf(w.balances, t)
               s == BalanceOf(shares, t)
               c == bank[t][Contract]
    <2>5. a \in Int /\ s \in Int /\ c \in Int
        BY <2>1, <2>2
    <2> HIDE DEF a, s, c
    <2>6. c - s = c + (a - s) - a
        BY ONLY <2>5
    <2> QED  BY <2>3, <2>4, <2>6 DEF a, s, c
<1>13. new.status \in LiveStatus => wills[id].status \in LiveStatus
    BY <1>6
<1> HIDE DEF w
<1> QED  BY <1>4, <1>9, <1>10, <1>11, <1>12, <1>13, EvenWhenPut

LEMMA RetryEven ==
    ASSUME Steady, NEW key \in DOMAIN failed_payout, retry_failed_payout(key[1], key[2], key[3])
    PROVE  Even
<1>1. /\ failed_payout \in Parkings /\ bank \in Ledgers /\ next_will_id \in Nat
      /\ DOMAIN failed_payout \subseteq PayoutKeys
      /\ failed_payout = [k \in DOMAIN failed_payout |-> failed_payout[k]]
      /\ \A k \in DOMAIN failed_payout : failed_payout[k] \in Nat
    BY ParkingsAre DEF Steady, BooksKept, Ledger, Books, LifecycleInv
<1> DEFINE t0 == key[2]
           a == failed_payout[key]
           parked == Without(failed_payout, {key})
<1>2. t0 \in Tokens /\ key[3] \in Accounts /\ key = <<key[1], t0, key[3]>> /\ a \in Nat
    BY <1>1 DEF PayoutKeys
<1>3. /\ bank[t0][Contract] >= a
      /\ bank' = Transferred(bank, t0, Contract, key[3], a)
      /\ failed_payout' = parked
      /\ UNCHANGED <<next_will_id, wills, archived_wills>>
    BY <1>2 DEF retry_failed_payout
<1>4. bank' \in Ledgers /\ \A t \in Tokens : bank'[t][Contract] = bank[t][Contract] - (IF t0 = t THEN a ELSE 0)
    BY <1>1, <1>2, <1>3, TransferTyped
<1>5. /\ DOMAIN parked = DOMAIN failed_payout \ {key}
      /\ parked = [k \in DOMAIN parked |-> parked[k]]
      /\ \A k \in DOMAIN parked : parked[k] = failed_payout[k]
    BY DEF Without
<1> HIDE DEF parked
<1>6. parked \in Parkings
    BY <1>1, <1>5, ParkingsAre
<1>7. ASSUME NEW t \in Tokens
      PROVE  ParkedOf(parked, t) = ParkedOf(failed_payout, t) - (IF t0 = t THEN a ELSE 0)
    <2> DEFINE S == {k \in DOMAIN failed_payout : k[2] = t}
               R == {k \in DOMAIN parked : k[2] = t}
    <2>1. IsFiniteSet(S) /\ IsFiniteSet(R) /\ ParkedOf(failed_payout, t) \in Nat
        BY <1>1, <1>5, ParkedTyped, FewKeys
    <2>2. ParkedOf(failed_payout, t) = SumFunctionOnSet(failed_payout, S)
          /\ ParkedOf(parked, t) = SumFunctionOnSet(parked, R)
        BY DEF ParkedOf
    <2>3. R = S \ {key} /\ (key \in S <=> t0 = t) /\ (\A k \in S : failed_payout[k] \in Int)
          /\ (\A k \in R : parked[k] = failed_payout[k]) /\ (\A k \in R : failed_payout[k] \in Int)
        BY <1>1, <1>5
    <2> HIDE DEF S, R
    <2>4. SumFunctionOnSet(parked, R) = SumFunctionOnSet(failed_payout, R)
        BY <2>1, <2>3, SumSame
    <2>5. CASE t0 = t
        <3>1. SumFunctionOnSet(failed_payout, S) = a + SumFunctionOnSet(failed_payout, S \ {key})
            BY <2>1, <2>3, <2>5, SumTakeOut
        <3>2. SumFunctionOnSet(failed_payout, R) \in Int
            BY <2>1, <2>3, SumType
        <3> HIDE DEF a
        <3> QED  BY <1>2, <2>2, <2>3, <2>4, <2>5, <3>1, <3>2
    <2>6. CASE t0 # t
        <3>1. R = S
            BY <2>3, <2>6
        <3>2. ParkedOf(parked, t) = ParkedOf(failed_payout, t)
            BY <2>2, <2>4, <3>1
        <3>3. ParkedOf(failed_payout, t) - 0 = ParkedOf(failed_payout, t)
            BY <2>1
        <3> HIDE DEF t0, a
        <3> QED  BY <2>6, <3>2, <3>3
    <2> QED  BY <2>5, <2>6
<1>8. Ledger' \in Books
    BY <1>3, <1>4, <1>6 DEF Ledger, Books
<1>9. BooksKept'
    <2>1. \A k \in DOMAIN parked : k \in DOMAIN failed_payout
        BY <1>5
    <2>2. ParkedForTheOver'
        BY <1>3, <2>1 DEF Steady, BooksKept, ParkedForTheOver
    <2> QED  BY <1>3, <1>8, <2>2 DEF Steady, BooksKept, ArchiveApart
<1>10. ASSUME NEW t \in Tokens
       PROVE  Left(t)' = Left(t)
    <2>1. /\ bank[t][Contract] \in Nat /\ ParkedOf(failed_payout, t) \in Nat
          /\ HeldIn(wills, t) \in Nat /\ HeldIn(archived_wills, t) \in Nat
          /\ Left(t) = bank[t][Contract] - ParkedOf(failed_payout, t)
                            - HeldIn(wills, t) - HeldIn(archived_wills, t)
        BY BooksTyped DEF Steady
    <2>2. Left(t)' = bank'[t][Contract] - ParkedOf(parked, t) - HeldIn(wills, t) - HeldIn(archived_wills, t)
        BY <1>3 DEF Left, Spare, Ledger
    <2> DEFINE d == IF t0 = t THEN a ELSE 0
               b == bank[t][Contract]
               q == ParkedOf(failed_payout, t)
               h == HeldIn(wills, t)
               o == HeldIn(archived_wills, t)
    <2>3. d \in Int /\ b \in Int /\ q \in Int /\ h \in Int /\ o \in Int
        BY <1>2, <2>1
    <2>4. bank'[t][Contract] = b - d /\ ParkedOf(parked, t) = q - d
        BY <1>4, <1>7
    <2> HIDE DEF d, b, q, h, o
    <2>5. (b - d) - (q - d) - h - o = b - q - h - o
        BY ONLY <2>3
    <2> QED  BY <2>1, <2>2, <2>4, <2>5 DEF b, q, h, o
<1> QED  BY <1>9, <1>10 DEF Even

LEMMA ArchiveEven ==
    ASSUME Steady, NEW id \in DOMAIN wills, archive_will(id)
    PROVE  Even
<1>1. /\ wills[id].status \in {"Released", "Cancelled"}
      /\ archived_wills' = Put(archived_wills, id, wills[id])
      /\ wills' = Without(wills, {id})
      /\ UNCHANGED <<failed_payout, bank, next_will_id>>
    BY DEF archive_will, money
<1>2. id \notin DOMAIN archived_wills /\ TypedWill(wills[id])
    BY DEF Steady, BooksKept, ArchiveApart, WellHeld
<1>3. /\ DOMAIN archived_wills' = DOMAIN archived_wills \cup {id}
      /\ DOMAIN wills' = DOMAIN wills \ {id} /\ \A x \in DOMAIN wills' : wills'[x] = wills[x]
    BY <1>1 DEF Put, Without
<1>4. BooksKept'
    <2>1. WellHeld(archived_wills')
        BY <1>1, <1>2, HeldInPut DEF Steady, BooksKept
    <2>2. Ledger' \in Books
        BY <1>1 DEF Steady, BooksKept, Ledger
    <2>3. ArchiveApart'
        BY <1>3 DEF Steady, BooksKept, ArchiveApart
    <2>4. ParkedForTheOver'
        BY <1>1, <1>3 DEF Steady, BooksKept, ParkedForTheOver
    <2> QED  BY <2>1, <2>2, <2>3, <2>4 DEF BooksKept
<1>5. ASSUME NEW t \in Tokens
      PROVE  Left(t)' = Left(t)
    <2>1. /\ bank[t][Contract] \in Nat /\ ParkedOf(failed_payout, t) \in Nat
          /\ HeldIn(wills, t) \in Nat /\ HeldIn(archived_wills, t) \in Nat
          /\ Left(t) = bank[t][Contract] - ParkedOf(failed_payout, t)
                            - HeldIn(wills, t) - HeldIn(archived_wills, t)
        BY BooksTyped DEF Steady
    <2>2. Left(t)' = bank[t][Contract] - ParkedOf(failed_payout, t)
                        - HeldIn(wills', t) - HeldIn(archived_wills', t)
        BY <1>1 DEF Left, Spare, Ledger
    <2> DEFINE x == BalanceOf(wills[id].balances, t)
    <2>3. HeldIn(wills', t) = HeldIn(wills, t) - x
        BY <1>1, HeldInWithout DEF Steady
    <2>4. HeldIn(archived_wills', t) = HeldIn(archived_wills, t) + x - 0
        BY <1>1, <1>2, HeldInPut DEF Steady, BooksKept
    <2>5. x \in Nat
        BY <1>2, FundsNatural
    <2> DEFINE b == bank[t][Contract]
               q == ParkedOf(failed_payout, t)
               h == HeldIn(wills, t)
               o == HeldIn(archived_wills, t)
    <2>6. x \in Int /\ b \in Int /\ q \in Int /\ h \in Int /\ o \in Int
        BY <2>1, <2>5
    <2> HIDE DEF x, b, q, h, o
    <2>7. b - q - (h - x) - (o + x - 0) = b - q - h - o
        BY ONLY <2>6
    <2> QED  BY <2>1, <2>2, <2>3, <2>4, <2>7 DEF b, q, h, o
<1> QED  BY <1>4, <1>5 DEF Even

LEMMA EvenWhenMoved ==
    ASSUME Steady, NEW a \in DOMAIN wills, NEW b, a # b, NEW v, NEW w,
           wills' = Put(Put(wills, a, v), b, w),
           UNCHANGED <<archived_wills, failed_payout, bank>>, next_will_id <= next_will_id',
           v.status \in LiveStatus => wills[a].status \in LiveStatus,
           \/ b > next_will_id
           \/ b \in DOMAIN wills /\ (w.status \in LiveStatus => wills[b].status \in LiveStatus),
           \A t \in Tokens : BalanceOf(v.balances, t) + BalanceOf(w.balances, t)
                                = HeldUnder(wills, a, t) + HeldUnder(wills, b, t)
    PROVE  Even
<1> DEFINE mid == Put(wills, a, v)
<1>1. /\ DOMAIN mid = DOMAIN wills /\ mid[a] = v
      /\ \A x \in DOMAIN wills : x # a => mid[x] = wills[x]
    BY DEF Put
<1>2. wills' = Put(mid, b, w)
    OBVIOUS
<1> HIDE DEF mid
<1>3. DOMAIN wills' = DOMAIN wills \cup {b} /\ wills'[b] = w /\ wills'[a] = v
      /\ \A x \in DOMAIN wills : x # a /\ x # b => wills'[x] = wills[x]
    BY <1>1, <1>2 DEF Put
<1>4. TypedWill(v) /\ TypedWill(w)
    BY <1>3 DEF Steady, WellHeld
<1>5. \A x \in DOMAIN wills : ~(x > next_will_id)
    <2>1. next_will_id \in Nat /\ DOMAIN wills \subseteq 1..next_will_id
        BY DEF Steady, LifecycleInv
    <2> QED  BY <2>1
<1>6. WellHeld(mid) /\ \A t : HeldIn(mid, t) = HeldIn(wills, t) + BalanceOf(v.balances, t)
                                                - BalanceOf(wills[a].balances, t)
    BY <1>4, HeldInPut DEF Steady, mid
<1>7. ASSUME NEW t \in Tokens
      PROVE  HeldIn(wills', t) - HeldIn(wills, t) = bank'[t][Contract] - bank[t][Contract]
    <2>1. HeldIn(wills', t) = HeldIn(mid, t) + BalanceOf(w.balances, t) - HeldUnder(mid, b, t)
        BY <1>2, <1>4, <1>6, HeldInPut DEF HeldUnder
    <2>2. HeldUnder(mid, b, t) = HeldUnder(wills, b, t) /\ HeldUnder(wills, a, t) = BalanceOf(wills[a].balances, t)
        BY <1>1 DEF HeldUnder
    <2>3. bank[t][Contract] \in Int /\ HeldIn(wills, t) \in Int
        BY BooksTyped DEF Steady
    <2>4. /\ BalanceOf(v.balances, t) \in Int /\ BalanceOf(w.balances, t) \in Int
          /\ HeldUnder(wills, b, t) \in Int /\ HeldUnder(wills, a, t) \in Int
        <3>1. ASSUME NEW x \in DOMAIN wills
              PROVE  BalanceOf(wills[x].balances, t) \in Int
            <4>1. TypedWill(wills[x])
                BY DEF Steady, WellHeld
            <4> QED  BY <4>1, FundsNatural
        <3> QED  BY <1>4, <3>1, FundsNatural DEF HeldUnder
    <2> DEFINE h == HeldIn(wills, t)
               m == HeldIn(mid, t)
               z == HeldIn(wills', t)
               x == BalanceOf(v.balances, t)
               y == BalanceOf(w.balances, t)
               p == HeldUnder(wills, a, t)
               q == HeldUnder(wills, b, t)
               c == bank[t][Contract]
    <2>5. /\ c \in Int /\ h \in Int /\ x \in Int /\ y \in Int /\ p \in Int /\ q \in Int
          /\ m = h + x - p /\ z = m + y - q /\ x + y = p + q
        BY <1>6, <2>1, <2>2, <2>3, <2>4
    <2> HIDE DEF h, m, z, x, y, p, q, c
    <2>6. z - h = c - c
        BY ONLY <2>5
    <2> QED  BY <2>6 DEF z, h, c
<1>8. bank' \in Ledgers
    BY DEF Steady, BooksKept, Ledger, Books
<1>9. \A x \in DOMAIN wills' : x \in DOMAIN wills \/ x > next_will_id
    BY <1>3
<1>10. \A x \in DOMAIN wills \cap DOMAIN wills' :
            wills'[x].status \in LiveStatus => wills[x].status \in LiveStatus
    BY <1>3, <1>5
<1> QED  BY <1>7, <1>8, <1>9, <1>10, EvenWhenPaid DEF Steady

LEMMA SplitEven ==
    ASSUME Steady, NEW id \in DOMAIN wills, NEW owner, NEW split \in Splits, split_will(id, owner, split)
    PROVE  Even
<1> DEFINE w == wills[id]
           named == ToSet(split.heirs)
           moving == BalancesOf(split.tokens)
           staying == [t \in DOMAIN w.balances |-> w.balances[t] - BalanceOf(moving, t)]
           remaining == renormalize_percentages(
                            HeirsIn(w.beneficiaries, Addresses(w.beneficiaries) \ named))
           parted == renormalize_percentages(HeirsIn(w.beneficiaries, named))
           primary == split.tokens[1][1]
           source == sync_primary_balance([w EXCEPT !.balances = staying,
                                                    !.beneficiaries = remaining])
           child == [Descendant(w, w.owner, moving, primary, moving[primary])
                        EXCEPT !.beneficiaries = parted, !.keeper_bounty_bps = 0]
           child_id == next_will_id + 1
<1>1. /\ wills' = Put(Put(wills, id, source), child_id, child)
      /\ w.status = "Active"
      /\ \A t \in DOMAIN moving : moving[t] <= BalanceOf(w.balances, t)
      /\ next_will_id' = child_id
      /\ UNCHANGED <<archived_wills, failed_payout, bank>>
    BY DEF split_will, money, HasStatus
<1>2. TypedWill(w) /\ Whole(w) /\ IsBalances(w.balances)
    BY Opened DEF Steady, WellHeld, TypedFields
<1>3. split.tokens \in TokenLists
    BY PortfolioInputsAssumption
<1>4. IsBalances(moving)
    BY <1>3, PurseFunds
<1>5. \A t : BalanceOf(staying, t) + BalanceOf(moving, t) = BalanceOf(w.balances, t)
    <2> SUFFICES ASSUME NEW t PROVE BalanceOf(staying, t) + BalanceOf(moving, t) = BalanceOf(w.balances, t)
        OBVIOUS
    <2> DEFINE b == w.balances
    <2>1. BalanceOf(b, t) \in Nat /\ BalanceOf(moving, t) \in Nat
        BY <1>2, <1>4 DEF BalanceOf, IsBalances
    <2>2. staying = [x \in DOMAIN b |-> b[x] - BalanceOf(moving, x)]
        OBVIOUS
    <2>3. \A x \in DOMAIN moving : moving[x] <= BalanceOf(b, x)
        BY <1>1
    <2> HIDE DEF staying, moving, b
    <2>4. CASE t \in DOMAIN b
        <3>1. BalanceOf(staying, t) = b[t] - BalanceOf(moving, t) /\ BalanceOf(b, t) = b[t]
            BY <2>2, <2>4 DEF BalanceOf
        <3> QED  BY <2>1, <3>1 DEF b
    <2>5. CASE t \notin DOMAIN b
        <3>1. BalanceOf(b, t) = 0 /\ BalanceOf(staying, t) = 0
            BY <2>2, <2>5 DEF BalanceOf
        <3>2. t \in DOMAIN moving => moving[t] <= 0 /\ BalanceOf(moving, t) = moving[t]
            BY <2>3, <3>1 DEF BalanceOf
        <3>3. t \notin DOMAIN moving => BalanceOf(moving, t) = 0
            BY DEF BalanceOf
        <3>4. BalanceOf(moving, t) = 0
            BY <2>1, <3>2, <3>3
        <3> QED  BY <3>1, <3>4 DEF b
    <2> QED  BY <2>4, <2>5
<1>6. source.balances = staying /\ source.status = w.status
    <2> HIDE DEF staying, remaining, w
    <2> QED  BY <1>2 DEF sync_primary_balance, Whole, WillFields
<1>7. child.balances = moving
    <2> HIDE DEF moving, parted, w
    <2> QED  BY <1>2 DEF Descendant, Whole, WillFields
<1> HIDE DEF source, child, staying, moving
<1>8. next_will_id \in Nat
    BY DEF Steady, LifecycleInv
<1>9. child_id > next_will_id /\ next_will_id <= next_will_id' /\ child_id \notin DOMAIN wills /\ id # child_id
    BY <1>1, <1>8 DEF Steady, LifecycleInv
<1>10. ASSUME NEW t \in Tokens
       PROVE  BalanceOf(source.balances, t) + BalanceOf(child.balances, t)
                    = HeldUnder(wills, id, t) + HeldUnder(wills, child_id, t)
    <2>1. BalanceOf(w.balances, t) \in Nat
        BY <1>2, FundsNatural
    <2>2. HeldUnder(wills, id, t) = BalanceOf(w.balances, t) /\ HeldUnder(wills, child_id, t) = 0
        BY <1>9 DEF HeldUnder
    <2>3. BalanceOf(source.balances, t) + BalanceOf(child.balances, t) = BalanceOf(w.balances, t)
        BY <1>5, <1>6, <1>7
    <2> HIDE DEF w, child_id
    <2> QED  BY <2>1, <2>2, <2>3
<1> HIDE DEF child_id
<1> QED  BY <1>1, <1>6, <1>9, <1>10, EvenWhenMoved

LEMMA MergeEven ==
    ASSUME Steady, NEW owner, NEW a \in DOMAIN wills, NEW b \in DOMAIN wills, merge_wills(owner, a, b)
    PROVE  Even
<1> DEFINE wa == wills[a]
           wb == wills[b]
           balances == [t \in DOMAIN wa.balances \cup DOMAIN wb.balances |->
                            BalanceOf(wa.balances, t) + BalanceOf(wb.balances, t)]
<1>1. PICK merged, consumed :
        /\ wills' = Put(Put(wills, a, merged), b, consumed)
        /\ merged.balances = balances /\ merged.status = wa.status
        /\ consumed.balances = << >> /\ consumed.status = "Cancelled"
    <2> DEFINE heirs == merge_beneficiaries(wa.beneficiaries, total_balance(wa.balances),
                                            wb.beneficiaries, total_balance(wb.balances))
               merged(bs) == [wa EXCEPT !.beneficiaries     = heirs,
                               !.guardians             = merge_guardians(@, wb.guardians),
                               !.checkin_period_days   = Min({@, wb.checkin_period_days}),
                               !.grace_period_days     = Max({@, wb.grace_period_days}),
                               !.balances              = bs,
                               !.balance               = @ + wb.balance,
                               !.guardian_votes        = 0,
                               !.guardian_cancel_votes = 0]
               consumed == [wb EXCEPT !.balances              = << >>,
                               !.balance               = 0,
                               !.status                = "Cancelled",
                               !.guardian_votes        = 0,
                               !.guardian_cancel_votes = 0]
    <2>1. wills' = Put(Put(wills, a, merged(balances)), b, consumed)
        BY DEF merge_wills
    <2>2. Whole(wa) /\ Whole(wb)
        BY Opened DEF Steady, WellHeld
    <2> HIDE DEF wa, wb, heirs, balances
    <2>3. \A bs : merged(bs).balances = bs /\ merged(bs).status = wa.status
        BY <2>2 DEF Whole, WillFields
    <2>4. consumed.balances = << >> /\ consumed.status = "Cancelled"
        BY <2>2 DEF Whole, WillFields
    <2> HIDE DEF merged, consumed
    <2> QED  BY <2>1, <2>3, <2>4
<1>2. a # b /\ UNCHANGED <<next_will_id, archived_wills, failed_payout, bank>>
    BY DEF merge_wills, money
<1>3. ASSUME NEW t \in Tokens
      PROVE  BalanceOf(merged.balances, t) + BalanceOf(consumed.balances, t)
                = HeldUnder(wills, a, t) + HeldUnder(wills, b, t)
    <2>1. BalanceOf(wa.balances, t) \in Nat /\ BalanceOf(wb.balances, t) \in Nat
        BY FundsNatural DEF Steady, WellHeld
    <2>2. HeldUnder(wills, a, t) = BalanceOf(wa.balances, t) /\ HeldUnder(wills, b, t) = BalanceOf(wb.balances, t)
        BY DEF HeldUnder
    <2> HIDE DEF wa, wb
    <2>3. BalanceOf(balances, t) = BalanceOf(wa.balances, t) + BalanceOf(wb.balances, t)
        BY DEF BalanceOf
    <2>4. BalanceOf(consumed.balances, t) = 0
        BY <1>1 DEF BalanceOf
    <2> HIDE DEF balances
    <2> QED  BY <1>1, <2>1, <2>2, <2>3, <2>4
<1>4. next_will_id <= next_will_id'
    BY <1>2 DEF Steady, LifecycleInv
<1>5. consumed.status \notin LiveStatus
    BY <1>1 DEF LiveStatus
<1> HIDE DEF balances
<1> QED  BY <1>1, <1>2, <1>3, <1>4, <1>5, EvenWhenMoved

\* What the wills of ids have of token t.
FundsOf(ws, ids, t) == SumFunction([id \in ids |-> BalanceOf(ws[id].balances, t)])

\* Wills with new ids, beside those there are.
LEMMA HeldInJoined ==
    ASSUME NEW ws, WellHeld(ws), NEW ids, IsFiniteSet(ids), ids \cap DOMAIN ws = {},
           NEW fresh, \A id \in ids : TypedWill(fresh[id]), NEW t,
           NEW all, DOMAIN all = DOMAIN ws \cup ids,
           \A id \in ids : all[id] = fresh[id], \A id \in DOMAIN ws : all[id] = ws[id]
    PROVE  HeldIn(all, t) = HeldIn(ws, t) + FundsOf(fresh, ids, t)
<1> DEFINE D == DOMAIN ws \cup ids
           C == DOMAIN ws
           old == [id \in C |-> BalanceOf(ws[id].balances, t)]
           new == [id \in ids |-> BalanceOf(fresh[id].balances, t)]
           f == [id \in D |-> IF id \in ids THEN 0 ELSE BalanceOf(ws[id].balances, t)]
           g == [id \in D |-> IF id \in ids THEN BalanceOf(fresh[id].balances, t) ELSE 0]
           k == [id \in D |-> BalanceOf(all[id].balances, t)]
<1>1. /\ IsFiniteSet(D) /\ IsFiniteSet(C) /\ C \subseteq D /\ ids \subseteq D /\ D \ C = ids /\ D \ ids = C
    BY FS_Union DEF WellHeld
<1>2. /\ \A id \in C : BalanceOf(ws[id].balances, t) \in Nat
      /\ \A id \in ids : BalanceOf(fresh[id].balances, t) \in Nat
    BY FundsNatural DEF WellHeld
<1>3. \A x \in D : k[x] = f[x] + g[x] /\ f[x] \in Int /\ g[x] \in Int
    <2> SUFFICES ASSUME NEW x \in D PROVE k[x] = f[x] + g[x] /\ f[x] \in Int /\ g[x] \in Int
        OBVIOUS
    <2>1. CASE x \in ids
        <3>1. all[x] = fresh[x] /\ f[x] = 0 /\ g[x] = BalanceOf(fresh[x].balances, t)
              /\ k[x] = BalanceOf(all[x].balances, t)
            BY <2>1
        <3> QED  BY <1>2, <2>1, <3>1
    <2>2. CASE x \notin ids
        <3>1. all[x] = ws[x] /\ g[x] = 0 /\ f[x] = BalanceOf(ws[x].balances, t)
              /\ k[x] = BalanceOf(all[x].balances, t) /\ x \in C
            BY <2>2
        <3> QED  BY <1>2, <3>1
    <2> QED  BY <2>1, <2>2
<1>4. /\ \A x \in C : f[x] = old[x]
      /\ \A x \in D \ C : f[x] = 0
      /\ \A x \in ids : g[x] = new[x]
      /\ \A x \in D \ ids : g[x] = 0
      /\ \A x \in C : old[x] \in Int
      /\ \A x \in ids : new[x] \in Int
    BY <1>2
<1>5. HeldIn(all, t) = SumFunctionOnSet(k, D) /\ HeldIn(ws, t) = SumFunctionOnSet(old, C)
      /\ FundsOf(fresh, ids, t) = SumFunctionOnSet(new, ids)
    BY DEF HeldIn, FundsOf, SumFunction
<1> HIDE DEF D, C, old, new, f, g, k
<1>6. SumFunctionOnSet(k, D) = SumFunctionOnSet(f, D) + SumFunctionOnSet(g, D)
    BY <1>1, <1>3, SumOfBoth
<1>7. SumFunctionOnSet(f, D) = SumFunctionOnSet(f, C) /\ SumFunctionOnSet(g, D) = SumFunctionOnSet(g, ids)
    BY <1>1, <1>3, <1>4, SumPadded
<1>8. SumFunctionOnSet(f, C) = SumFunctionOnSet(old, C) /\ SumFunctionOnSet(g, ids) = SumFunctionOnSet(new, ids)
    BY <1>1, <1>4, SumSame
<1> QED  BY <1>5, <1>6, <1>7, <1>8

LEMMA BatchEven ==
    ASSUME Steady, NEW owner \in Accounts, NEW forms \in Batches, batch_create_wills(owner, forms)
    PROVE  Even
<1> DEFINE ids == NewIds(forms)
           fresh == Fresh(owner, forms)
           total == FreshFunds(owner, forms)
<1>1. next_will_id \in Nat /\ now \in Nat /\ bank \in Ledgers /\ DOMAIN wills \subseteq 1..next_will_id
    BY DEF Steady, LifecycleInv, BooksKept, Ledger, Books
<1>2. /\ \A id \in ids : TypedWill(fresh[id])
      /\ IsFiniteSet(ids) /\ Len(forms) \in Nat
      /\ \A t \in Tokens : total[t] \in Nat
    BY <1>1, FreshTyped
<1>3. /\ wills' = [id \in DOMAIN wills \cup ids |-> IF id \in ids THEN fresh[id] ELSE wills[id]]
      /\ CanPay(bank, owner, total)
      /\ bank' = TransferredAll(bank, owner, Contract, total)
      /\ next_will_id' = next_will_id + Len(forms)
      /\ UNCHANGED <<archived_wills, failed_payout>>
    BY DEF batch_create_wills, NewIds, Fresh, FreshFunds
<1>4. \A id \in ids : id > next_will_id
    BY <1>1, <1>2 DEF NewIds
<1>5. \A id \in DOMAIN wills : ~(id > next_will_id)
    BY <1>1
<1>6. DOMAIN total = Tokens /\ IsBalances(total)
    BY <1>2 DEF FreshFunds, IsBalances
<1>7. \A t \in Tokens : total[t] = FundsOf(fresh, ids, t)
    BY DEF FreshFunds, FundsOf
<1> HIDE DEF ids, fresh, total
<1>8. bank' \in Ledgers /\ \A t \in Tokens : bank'[t][Contract] = bank[t][Contract] + total[t]
    BY <1>1, <1>3, <1>6, PursePaid DEF BalanceOf
<1>9. ids \cap DOMAIN wills = {} /\ next_will_id <= next_will_id'
    BY <1>1, <1>2, <1>3, <1>4, <1>5
<1>10. ASSUME NEW t \in Tokens
       PROVE  HeldIn(wills', t) - HeldIn(wills, t) = bank'[t][Contract] - bank[t][Contract]
    <2>1. HeldIn(wills', t) = HeldIn(wills, t) + FundsOf(fresh, ids, t)
        <3>1. WellHeld(wills) /\ IsFiniteSet(ids) /\ ids \cap DOMAIN wills = {}
              /\ \A id \in ids : TypedWill(fresh[id])
            BY <1>2, <1>9 DEF Steady
        <3>2. /\ DOMAIN wills' = DOMAIN wills \cup ids
              /\ \A id \in ids : wills'[id] = fresh[id]
              /\ \A id \in DOMAIN wills : wills'[id] = wills[id]
            BY <1>3, <3>1
        <3> QED  BY <3>1, <3>2, HeldInJoined
    <2>2. HeldIn(wills', t) = HeldIn(wills, t) + total[t]
        BY <1>7, <2>1
    <2>3. bank[t][Contract] \in Int /\ HeldIn(wills, t) \in Int /\ total[t] \in Int
        BY <1>2, BooksTyped DEF Steady
    <2>4. bank'[t][Contract] = bank[t][Contract] + total[t]
        BY <1>8
    <2> DEFINE b == bank[t][Contract]
               b2 == bank'[t][Contract]
               h == HeldIn(wills, t)
               h2 == HeldIn(wills', t)
               n == total[t]
    <2>5. b \in Int /\ h \in Int /\ n \in Int /\ h2 = h + n /\ b2 = b + n
        BY <2>2, <2>3, <2>4
    <2> HIDE DEF b, b2, h, h2, n
    <2>6. h2 - h = b2 - b
        BY ONLY <2>5
    <2> QED  BY <2>6 DEF b, b2, h, h2
<1>11. /\ \A x \in DOMAIN wills' : x \in DOMAIN wills \/ x > next_will_id
       /\ \A x \in DOMAIN wills \cap DOMAIN wills' : wills'[x] = wills[x]
    BY <1>3, <1>4, <1>9
<1> QED  BY <1>3, <1>8, <1>9, <1>10, <1>11, EvenWhenPaid DEF Steady

----------------------------------------------------------------------------
(* Releases *)

\* A plan that pays out what the will holds: no percentage heirs, whose shares
\* may leave something over, or no hashed heirs and the bounty of the token the
\* conservation check counts it of.
SoundPlan(w) ==
    \/ OfKind(w.beneficiaries, "Percentage") = {}
    \/ unclaimed_hashed_bps(w.hashed_beneficiaries) = 0 /\ BountyFromFirst(w)

LEMMA NothingOver ==
    ASSUME NEW w, TypedWill(w), NEW keeper \in Caller, NEW plan, plan = DistributionPlan(w, keeper),
           PlanBalances(w, plan), SoundPlan(w), NEW t
    PROVE  BalanceOf(w.balances, t) =
                BalanceOf(HashedReserves(w, plan), t) + (IF t \in DOMAIN plan THEN PaidOf(plan, t) ELSE 0)
<1> DEFINE hashed == unclaimed_hashed_bps(w.hashed_beneficiaries)
           left == HashedReserves(w, plan)
<1>1. IsBalances(w.balances)
    BY Opened DEF TypedFields
<1>2. DOMAIN plan = FundedTokens(w) /\ \A x \in FundedTokens(w) : plan[x] = TokenPlan(w, keeper, x)
    BY DEF DistributionPlan
<1>3. /\ DOMAIN left = IF hashed = 0 THEN {} ELSE DOMAIN plan
      /\ \A x \in DOMAIN left : left[x] = plan[x].reserve
    BY DEF HashedReserves
<1>4. CASE t \notin DOMAIN plan
    <2>1. BalanceOf(w.balances, t) = 0
        BY <1>1, <1>2, <1>4 DEF BalanceOf, FundedTokens
    <2>2. BalanceOf(left, t) = 0
        BY <1>3, <1>4 DEF BalanceOf
    <2> HIDE DEF left
    <2> QED  BY <1>4, <2>1, <2>2 DEF left
<1>5. CASE t \in DOMAIN plan
    <2> DEFINE p == plan[t]
    <2>1. t \in FundedTokens(w) /\ t \in DOMAIN w.balances /\ p = TokenPlan(w, keeper, t)
        BY <1>2, <1>5 DEF FundedTokens
    <2>2. /\ p.refund \in Nat /\ p.bounty \in Nat /\ p.reserve \in Nat
          /\ TotalAmount(p.shares) \in Nat
          /\ OfKind(w.beneficiaries, "Percentage") = {}
                => TotalAmount(p.shares) + p.refund + p.bounty + p.reserve = w.balances[t]
          /\ t \in FundedTokens(w) /\ BountyFromFirst(w)
                => p.planned = p.bounty + TotalAmount(p.shares) + p.refund
        BY <2>1, PlanTyped
    <2>3. p.planned = w.balances[t]
        BY <1>5 DEF PlanBalances
    <2>4. BalanceOf(w.balances, t) = w.balances[t] /\ w.balances[t] \in Nat
        BY <1>1, <2>1 DEF BalanceOf, IsBalances
    <2>5. BalanceOf(left, t) = IF hashed = 0 THEN 0 ELSE p.reserve
        BY <1>3, <1>5 DEF BalanceOf
    <2>6. hashed = 0 => p.reserve = 0
        <3> DEFINE x == w.balances[t] - p.bounty
        <3>1. p.reserve = proportional_share(x, hashed)
            <4> DEFINE owed   == keeper_bounty(w.balances[t], w.keeper_bounty_bps)
                       bounty == IF BountyTokens(w, keeper) # {} /\ t = Min(BountyTokens(w, keeper))
                                 THEN owed ELSE 0
            <4>1. /\ TokenPlan(w, keeper, t).bounty = bounty
                  /\ TokenPlan(w, keeper, t).reserve = proportional_share(w.balances[t] - bounty, hashed)
                BY DEF TokenPlan
            <4> QED  BY <2>1, <4>1
        <3>2. x \in Int
            BY <2>2, <2>4
        <3> HIDE DEF x
        <3>3. hashed = 0 => proportional_share(x, hashed) = 0
            <4>1. x \div 10000 \in Int /\ x % 10000 \in Int
                BY <3>2
            <4>2. (x \div 10000) * 0 = 0 /\ (x % 10000) * 0 = 0 /\ 0 \div 10000 = 0
                BY <4>1
            <4> HIDE DEF hashed
            <4>3. proportional_share(x, 0) = 0
                BY <4>2 DEF proportional_share
            <4> QED  BY <4>3
        <3> QED  BY <3>1, <3>3
    <2>7. PaidOf(plan, t) = p.refund + (TotalAmount(p.shares) + p.bounty)
        BY DEF PaidOf
    <2>8. \/ TotalAmount(p.shares) + p.refund + p.bounty + p.reserve = w.balances[t]
          \/ hashed = 0 /\ p.bounty + TotalAmount(p.shares) + p.refund = w.balances[t]
        BY <2>1, <2>2, <2>3 DEF SoundPlan
    <2> DEFINE a == TotalAmount(p.shares)
               r == p.refund
               b == p.bounty
               s == p.reserve
               v == w.balances[t]
    <2>9. /\ a \in Int /\ r \in Int /\ b \in Int /\ s \in Int /\ v \in Int
          /\ hashed = 0 => s = 0
          /\ a + r + b + s = v \/ (hashed = 0 /\ b + a + r = v)
        BY <2>2, <2>4, <2>6, <2>8
    <2> HIDE DEF a, r, b, s, v, hashed
    <2>10. v = (IF hashed = 0 THEN 0 ELSE s) + (r + (a + b))
        BY ONLY <2>9
    <2>11. BalanceOf(left, t) = IF hashed = 0 THEN 0 ELSE s
        BY <2>5 DEF s
    <2>12. PaidOf(plan, t) = r + (a + b)
        BY <2>7 DEF r, a, b
    <2>13. BalanceOf(w.balances, t) = v
        BY <2>4 DEF v
    <2> HIDE DEF left
    <2> QED  BY <1>5, <2>10, <2>11, <2>12, <2>13 DEF left
<1> QED  BY <1>4, <1>5

\* What a release does to the books: they stay in order, whatever is paid or
\* parked; a sound plan takes nothing from what there is beside the will, and a
\* plan that pays nobody twice leaves nothing over either.
LEMMA ReleaseBooks ==
    ASSUME Steady, NEW id \in DOMAIN wills, id \in WillIds, NEW w, TypedWill(w),
           w.balances = wills[id].balances, w.status = wills[id].status,
           NEW keeper \in Caller, NEW refused, NEW stats, NEW records,
           distribute(id, w, keeper, refused, stats, records)
    PROVE  /\ BooksKept'
           /\ SoundPlan(w) => \A t \in Tokens :
                /\ Left(t)' >= Left(t)
                /\ PaidOnce(w, keeper, DistributionPlan(w, keeper)) => Left(t)' = Left(t)
<1> DEFINE plan == DistributionPlan(w, keeper)
           out == Payouts(id, w, keeper, plan, refused)
           left == HashedReserves(w, plan)
           v == [w EXCEPT !.balances = left, !.balance = BalanceOf(left, w.token), !.status = "Released"]
<1>1. /\ w.status \in {"Active", "Triggered"}
      /\ PlanBalances(w, plan)
      /\ wills' = Put(wills, id, v)
      /\ failed_payout' = out.failed /\ bank' = out.bank
      /\ UNCHANGED <<now, next_will_id, archived_wills>>
    BY Zenon DEF distribute, SaveWithVotes
<1>2. /\ Ledger \in Books /\ WellHeld(archived_wills) /\ ParkedForTheOver /\ ArchiveApart
      /\ next_will_id \in Nat /\ DOMAIN wills \subseteq 1..next_will_id
    BY DEF Steady, BooksKept, LifecycleInv
<1>3. /\ DOMAIN wills' = DOMAIN wills /\ wills'[id] = v
      /\ \A x \in DOMAIN wills : x # id => wills'[x] = wills[x]
    BY <1>1 DEF Put
<1>4. v.status = "Released" /\ v.balances = left
    <2>1. Whole(w)
        BY Opened DEF TypedFields
    <2> HIDE DEF left
    <2> QED  BY <2>1 DEF Whole, WillFields
<1> HIDE DEF v
<1>5. TypedWill(v)
    BY <1>3 DEF Steady, WellHeld
<1> HIDE DEF left
<1>6. /\ out \in Books
      /\ DOMAIN out.failed \subseteq DOMAIN failed_payout \cup OfWill(id)
      /\ \A t \in Tokens :
            /\ Spare(out, t) \in Int /\ Spare(Ledger, t) \in Int
            /\ t \in DOMAIN plan =>
                /\ PaidOf(plan, t) \in Nat
                /\ Spare(out, t) >= Spare(Ledger, t) - PaidOf(plan, t)
            /\ t \notin DOMAIN plan => Spare(out, t) >= Spare(Ledger, t)
            /\ PaidOnce(w, keeper, plan) /\ DOMAIN failed_payout \cap OfWill(id) = {}
                => Spare(out, t) = Spare(Ledger, t) - (IF t \in DOMAIN plan THEN PaidOf(plan, t) ELSE 0)
    <2> DEFINE books == Ledger
    <2>1. books \in Books /\ books = [failed |-> failed_payout, bank |-> bank]
          /\ books.failed = failed_payout
        BY <1>2 DEF Ledger
    <2> HIDE DEF books, plan, out
    <2>2. plan = DistributionPlan(w, keeper) /\ out = Payouts(id, w, keeper, plan, refused)
        BY DEF plan, out
    <2>3. /\ out \in Books
           /\ DOMAIN out.failed \subseteq DOMAIN books.failed \cup OfWill(id)
           /\ \A t \in Tokens :
                /\ Spare(out, t) \in Int /\ Spare(books, t) \in Int
                /\ t \in DOMAIN plan =>
                    /\ PaidOf(plan, t) \in Nat
                    /\ Spare(out, t) >= Spare(books, t) - PaidOf(plan, t)
                /\ t \notin DOMAIN plan => Spare(out, t) >= Spare(books, t)
                /\ PaidOnce(w, keeper, plan) /\ DOMAIN books.failed \cap OfWill(id) = {}
                    => Spare(out, t) = Spare(books, t)
                                        - (IF t \in DOMAIN plan THEN PaidOf(plan, t) ELSE 0)
        BY <2>1, <2>2, PayoutsPay
    <2> QED  BY <2>1, <2>3 DEF books
<1> HIDE DEF out
<1>7. Ledger' = out
    <2>1. out = [failed |-> out.failed, bank |-> out.bank]
        BY <1>6 DEF Books
    <2> QED  BY <1>1, <2>1 DEF Ledger
<1>8. DOMAIN failed_payout \cap OfWill(id) = {}
    <2>1. wills[id].status \in LiveStatus
        BY <1>1 DEF LiveStatus
    <2> QED  BY <1>2, <2>1 DEF ParkedForTheOver, OfWill
<1>9. ParkedForTheOver'
    <2> SUFFICES ASSUME NEW key \in DOMAIN failed_payout'
                 PROVE  /\ key[1] \in 1..next_will_id'
                        /\ key[1] \in DOMAIN wills' => wills'[key[1]].status \notin LiveStatus
        BY DEF ParkedForTheOver
    <2>1. CASE key[1] = id
        <3>1. wills'[id].status \notin LiveStatus
            BY <1>3, <1>4 DEF LiveStatus
        <3> QED  BY <1>1, <1>2, <2>1, <3>1
    <2>2. CASE key[1] # id
        <3>1. key \in DOMAIN failed_payout
            BY <1>1, <1>6, <2>2 DEF OfWill
        <3>2. key[1] \in 1..next_will_id /\ (key[1] \in DOMAIN wills => wills[key[1]].status \notin LiveStatus)
            BY <1>2, <3>1 DEF ParkedForTheOver
        <3> QED  BY <1>1, <1>3, <2>2, <3>2
    <2> QED  BY <2>1, <2>2
<1>10. BooksKept'
    <2>1. Ledger' \in Books
        BY <1>6, <1>7
    <2>2. WellHeld(archived_wills') /\ ArchiveApart'
        BY <1>1, <1>2, <1>3 DEF ArchiveApart
    <2> QED  BY <1>9, <2>1, <2>2 DEF BooksKept
<1>11. ASSUME SoundPlan(w), NEW t \in Tokens
       PROVE  /\ Left(t)' >= Left(t)
              /\ PaidOnce(w, keeper, plan) => Left(t)' = Left(t)
    <2> DEFINE paid == IF t \in DOMAIN plan THEN PaidOf(plan, t) ELSE 0
    <2>1. BalanceOf(w.balances, t) = BalanceOf(left, t) + paid
        BY <1>1, <1>11, NothingOver DEF left
    <2>2. HeldIn(wills', t) = HeldIn(wills, t) + BalanceOf(left, t) - BalanceOf(w.balances, t)
        BY <1>1, <1>4, <1>5, HeldInPut DEF Steady
    <2>3. HeldIn(wills, t) \in Int /\ HeldIn(archived_wills, t) \in Int
        BY BooksTyped DEF Steady
    <2>4. BalanceOf(left, t) \in Int
        BY <1>4, <1>5, FundsNatural
    <2>5. /\ Left(t) = Spare(Ledger, t) - HeldIn(wills, t) - HeldIn(archived_wills, t)
          /\ Left(t)' = Spare(out, t) - HeldIn(wills', t) - HeldIn(archived_wills, t)
        BY <1>1, <1>7 DEF Left
    <2>6. /\ Spare(out, t) \in Int /\ Spare(Ledger, t) \in Int /\ paid \in Nat
          /\ Spare(out, t) >= Spare(Ledger, t) - paid
          /\ PaidOnce(w, keeper, plan) => Spare(out, t) = Spare(Ledger, t) - paid
        <3> HIDE DEF plan
        <3>1. t \in DOMAIN plan => paid = PaidOf(plan, t)
            OBVIOUS
        <3>2. t \notin DOMAIN plan => paid = 0
            OBVIOUS
        <3>3. Spare(out, t) \in Int /\ Spare(Ledger, t) \in Int
            BY <1>6
        <3> HIDE DEF paid
        <3>4. paid \in Nat /\ Spare(out, t) >= Spare(Ledger, t) - paid
            BY <1>6, <3>1, <3>2, <3>3
        <3>5. PaidOnce(w, keeper, plan) => Spare(out, t) = Spare(Ledger, t) - paid
            <4>1. PaidOnce(w, keeper, plan)
                    => Spare(out, t) = Spare(Ledger, t) - (IF t \in DOMAIN plan THEN PaidOf(plan, t) ELSE 0)
                BY <1>6, <1>8
            <4> QED  BY <4>1 DEF paid
        <3> QED  BY <3>3, <3>4, <3>5
    <2> DEFINE s == Spare(Ledger, t)
               s2 == Spare(out, t)
               h == HeldIn(wills, t)
               a == HeldIn(archived_wills, t)
               r == BalanceOf(left, t)
               once == PaidOnce(w, keeper, plan)
    <2> HIDE DEF paid
    <2>7. /\ s \in Int /\ s2 \in Int /\ h \in Int /\ a \in Int /\ r \in Int /\ paid \in Nat
          /\ s2 >= s - paid /\ (once => s2 = s - paid)
        BY <2>3, <2>4, <2>6
    <2>8. Left(t) = s - h - a /\ Left(t)' = s2 - (h + r - (r + paid)) - a
        BY <2>1, <2>2, <2>5
    <2> HIDE DEF s, s2, h, a, r, once, plan, out
    <2>9. Left(t)' >= Left(t) /\ (once => Left(t)' = Left(t))
        <3> DEFINE x == s - h - a
                   y == s2 - (h + r - (r + paid)) - a
        <3>1. y >= x /\ (once => y = x)
            BY ONLY <2>7 DEF x, y
        <3> QED  BY <2>8, <3>1
    <2> QED  BY <2>9 DEF once
<1> QED  BY <1>10, <1>11

\* No heir is named twice.
HeirsApart(list) == \A i, j \in 1..Len(list) : list[i].address = list[j].address => i = j

\* The shares of a plan: what the fixed amounts take, then what the percentages
\* take of the rest.
LeftByFixed(w, t, available) ==
    IF t = w.token THEN AfterFixed(w.beneficiaries, available)
    ELSE [n \in 0..Len(w.beneficiaries) |-> available]

LeftByBoth(w, left) == AfterPercentages(w.beneficiaries, left[Len(w.beneficiaries)])

BothShares(w, left) ==
    SharesOf(w.beneficiaries, left) \o SharesOf(w.beneficiaries, LeftByBoth(w, left))

LEMMA PlanShares ==
    ASSUME NEW w, NEW keeper, NEW t, NEW p, p = TokenPlan(w, keeper, t),
           NEW left, left = LeftByFixed(w, t, w.balances[t] - p.bounty - p.reserve)
    PROVE  p.shares = BothShares(w, left)
BY Zenon DEF TokenPlan, LeftByFixed, LeftByBoth, BothShares

\* A release pays nobody twice in one token, so that no payout is parked over
\* another: the heirs are different people, none is the owner, none the keeper.
LEMMA PaidApart ==
    ASSUME NEW w, TypedWill(w), NEW keeper \in Caller,
           HeirsApart(w.beneficiaries), w.owner \notin Addresses(w.beneficiaries),
           keeper \in Addresses(w.beneficiaries) => w.keeper_bounty_bps = 0
    PROVE  PaidOnce(w, keeper, DistributionPlan(w, keeper))
<1> DEFINE plan == DistributionPlan(w, keeper)
           list == w.beneficiaries
           N    == Len(list)
<1>1. DOMAIN plan = FundedTokens(w) /\ \A t \in FundedTokens(w) : plan[t] = TokenPlan(w, keeper, t)
    BY DEF DistributionPlan
<1> HIDE DEF plan
<1>2. list \in Seq(Beneficiary) /\ IsBalances(w.balances)
    BY Opened DEF TypedFields
<1>3. N \in Nat /\ \A n \in 1..N : list[n].address \in Addresses(list)
                                   /\ list[n].kind \in {"Percentage", "FixedAmount"}
    <2>1. N \in Nat /\ DOMAIN list = 1..N /\ \A n \in 1..N : list[n] \in Beneficiary
        BY <1>2
    <2> QED  BY <2>1 DEF Addresses, Beneficiary
<1>4. \A i, j \in 1..N : list[i].address = list[j].address => i = j
    BY DEF HeirsApart
<1>5. w.owner \notin Addresses(list) /\ (keeper \in Addresses(list) => w.keeper_bounty_bps = 0)
    OBVIOUS
<1> SUFFICES ASSUME NEW t \in DOMAIN plan
             PROVE  /\ PaysOnce(SharesAndBounty(keeper, plan, t))
                    /\ plan[t].refund > 0 => w.owner \notin PayeesOf(SharesAndBounty(keeper, plan, t))
    BY DEF PaidOnce, plan
<1> DEFINE p == plan[t]
           total == w.balances[t]
           available == total - p.bounty - p.reserve
           fixed == IF t = w.token THEN AfterFixed(list, available)
                    ELSE [n \in 0..N |-> available]
           left  == fixed[N]
           parts == AfterPercentages(list, left)
           a     == SharesOf(list, fixed)
           b     == SharesOf(list, parts)
<1>6. t \in DOMAIN w.balances /\ p = TokenPlan(w, keeper, t) /\ total \in Nat
    <2>1. t \in FundedTokens(w)
        BY <1>1
    <2>2. t \in DOMAIN w.balances
        BY <2>1 DEF FundedTokens
    <2> QED  BY <1>1, <1>2, <2>1, <2>2 DEF IsBalances
<1>7. /\ p.reserve \in Nat /\ p.bounty \in Nat
      /\ p.bounty + p.reserve <= total
    BY <1>6, ReserveWithin
<1>8. available \in Nat
    BY <1>6, <1>7
<1>9. p.shares = a \o b
    <2>1. fixed = LeftByFixed(w, t, w.balances[t] - p.bounty - p.reserve)
        BY DEF LeftByFixed
    <2>2. parts = LeftByBoth(w, fixed)
        BY DEF LeftByBoth
    <2> HIDE DEF fixed, parts, p
    <2>3. p = TokenPlan(w, keeper, t)
        BY <1>6
    <2>4. p.shares = BothShares(w, fixed)
        BY <2>1, <2>3, PlanShares
    <2> QED  BY <2>2, <2>4 DEF BothShares
<1>10. p.bounty > 0 => keeper # w.owner /\ keeper \notin Addresses(list)
    <2>1. p.bounty > 0 => should_pay_bounty(w, keeper)
        BY <1>6, PlanTyped
    <2>2. should_pay_bounty(w, keeper) => keeper # w.owner /\ w.keeper_bounty_bps # 0
        <3>1. w.keeper_bounty_bps \in Nat
            BY Opened DEF TypedFields
        <3> QED  BY <3>1 DEF should_pay_bounty
    <2> QED  BY <1>5, <2>1, <2>2
<1> HIDE DEF p, total, available
<1>11. Dwindling(fixed, N, available) /\ OnlyFor("FixedAmount", list, fixed)
    <2>1. CASE t = w.token
        BY <1>2, <1>8, <2>1, FixedDwindles
    <2>2. CASE t # w.token
        <3>1. \A n \in 1..N : n - 1 \in 0..N /\ n \in 0..N
            BY <1>3
        <3> QED  BY <1>3, <1>8, <2>2, <3>1 DEF Dwindling, OnlyFor
    <2> QED  BY <2>1, <2>2
<1> HIDE DEF fixed
<1>12. left \in Nat
    BY <1>3, <1>11 DEF Dwindling
<1> HIDE DEF left
<1>13. Dwindling(parts, N, left) /\ OnlyFor("Percentage", list, parts)
    BY <1>2, <1>12, PercentagesDwindle
<1> HIDE DEF parts
<1>14. a \in Seq(Share) /\ Len(a) = N
       /\ \A n \in 1..N : a[n].to = list[n].address /\ a[n].amount = fixed[n - 1] - fixed[n]
    <2>1. a \in Seq(Share) /\ Len(a) = N
        BY <1>2, <1>11, SharesTyped
    <2>2. \A n \in 1..N : a[n].to = list[n].address /\ a[n].amount = fixed[n - 1] - fixed[n]
        BY DEF SharesOf
    <2> QED  BY <2>1, <2>2
<1>15. b \in Seq(Share) /\ Len(b) = N
       /\ \A n \in 1..N : b[n].to = list[n].address /\ b[n].amount = parts[n - 1] - parts[n]
    <2>1. b \in Seq(Share) /\ Len(b) = N
        BY <1>2, <1>13, SharesTyped
    <2>2. \A n \in 1..N : b[n].to = list[n].address /\ b[n].amount = parts[n - 1] - parts[n]
        BY DEF SharesOf
    <2> QED  BY <2>1, <2>2
<1> HIDE DEF a, b
<1>16. ASSUME NEW n \in 1..N
       PROVE  /\ a[n].amount > 0 => list[n].kind = "FixedAmount"
              /\ b[n].amount > 0 => list[n].kind = "Percentage"
    <2>1. n - 1 \in 0..N /\ n \in 0..N
        BY <1>3
    <2>2. fixed[n] \in Nat /\ parts[n] \in Nat
        BY <1>11, <1>13, <2>1 DEF Dwindling
    <2>3. list[n].kind # "FixedAmount" => fixed[n - 1] - fixed[n] = 0
        BY <1>11, <2>2 DEF OnlyFor, N
    <2>4. list[n].kind # "Percentage" => parts[n - 1] - parts[n] = 0
        BY <1>13, <2>2 DEF OnlyFor, N
    <2> QED  BY <1>14, <1>15, <2>3, <2>4
<1> DEFINE all == SharesAndBounty(keeper, plan, t)
<1> HIDE DEF N, list
<1>17. /\ Len(all) = 2 * N + 1 /\ DOMAIN all = 1..(2 * N + 1)
       /\ \A n \in 1..N : all[n].to = a[n].to /\ all[n].amount = a[n].amount
       /\ \A n \in 1..N : all[N + n].to = b[n].to /\ all[N + n].amount = b[n].amount
       /\ all[2 * N + 1].to = keeper /\ all[2 * N + 1].amount = p.bounty
    <2> DEFINE e == [to |-> keeper, amount |-> p.bounty]
               q == Append(a \o b, e)
    <2>1. all = [i \in 1..Len(q) |-> [token |-> t, to |-> q[i].to, amount |-> q[i].amount]]
        BY <1>9, Zenon DEF SharesAndBounty, p
    <2>2. a \o b \in Seq(Share) /\ Len(a \o b) = 2 * N
          /\ (\A n \in 1..N : (a \o b)[n] = a[n])
          /\ (\A n \in 1..N : (a \o b)[N + n] = b[n])
        <3>0. N \in Nat /\ a \in Seq(Share) /\ b \in Seq(Share) /\ Len(a) = N /\ Len(b) = N
            BY <1>3, <1>14, <1>15
        <3>1. a \o b \in Seq(Share) /\ Len(a \o b) = 2 * N
              /\ (\A n \in 1..N : (a \o b)[n] = a[n])
            BY ONLY <3>0
        <3>2. \A i \in (N + 1)..(2 * N) : (a \o b)[i] = b[i - N]
            BY ONLY <3>0
        <3>3. \A n \in 1..N : N + n \in (N + 1)..(2 * N) /\ (N + n) - N = n
            BY <1>3
        <3> QED  BY <3>1, <3>2, <3>3
    <2> DEFINE ab == a \o b
    <2>3. ab \in Seq(Share) /\ Len(ab) = 2 * N
          /\ (\A n \in 1..N : ab[n] = a[n] /\ ab[N + n] = b[n])
        BY <2>2
    <2> HIDE DEF e, ab
    <2>4. Len(Append(ab, e)) = 2 * N + 1 /\ Append(ab, e)[2 * N + 1] = e
          /\ \A i \in 1..(2 * N) : Append(ab, e)[i] = ab[i]
        BY <1>3, <2>3
    <2>5. q = Append(ab, e)
        BY DEF ab
    <2> HIDE DEF q, all
    <2>6. Len(all) = 2 * N + 1 /\ DOMAIN all = 1..(2 * N + 1)
          /\ \A i \in 1..(2 * N + 1) : all[i].to = q[i].to /\ all[i].amount = q[i].amount
        BY <1>3, <2>1, <2>4, <2>5
    <2>7. \A n \in 1..N : /\ n \in 1..(2 * N) /\ N + n \in 1..(2 * N)
                          /\ n \in 1..(2 * N + 1) /\ N + n \in 1..(2 * N + 1)
        BY <1>3
    <2>8. 2 * N + 1 \in 1..(2 * N + 1)
        BY <1>3
    <2>9. e.to = keeper /\ e.amount = p.bounty
        BY DEF e
    <2>10. \A n \in 1..N : q[n] = a[n] /\ q[N + n] = b[n]
        BY <2>3, <2>4, <2>5, <2>7
    <2> QED  BY <2>4, <2>5, <2>6, <2>7, <2>8, <2>9, <2>10
<1> HIDE DEF all
\* Whom a payment is for, and which entry of the list it is for.
<1>18. ASSUME NEW i \in 1..(2 * N + 1), all[i].amount > 0
       PROVE  \/ i = 2 * N + 1 /\ all[i].to = keeper /\ keeper # w.owner /\ keeper \notin Addresses(list)
              \/ \E n \in 1..N : /\ all[i].to = list[n].address
                                 /\ i = IF list[n].kind = "FixedAmount" THEN n ELSE N + n
    <2>1. CASE i = 2 * N + 1
        <3>1. p.bounty > 0
            BY <1>17, <1>18, <2>1
        <3> QED  BY <1>10, <1>17, <2>1, <3>1
    <2>2. CASE i \in 1..N
        BY <1>14, <1>16, <1>17, <1>18, <2>2
    <2>3. CASE i # 2 * N + 1 /\ i \notin 1..N
        <3> DEFINE n == i - N
        <3>1. n \in 1..N /\ i = N + n
            BY <1>3, <2>3
        <3> HIDE DEF n
        <3>2. all[i].to = list[n].address /\ b[n].amount > 0
            BY <1>15, <1>17, <1>18, <3>1
        <3>3. list[n].kind # "FixedAmount"
            BY <1>16, <3>1, <3>2
        <3> QED  BY <3>1, <3>2, <3>3
    <2> QED  BY <2>1, <2>2, <2>3
<1>19. PaysOnce(all)
    <2> SUFFICES ASSUME NEW i \in 1..(2 * N + 1), NEW j \in 1..(2 * N + 1),
                        all[i].amount > 0, all[j].amount > 0, all[i].to = all[j].to
                 PROVE  i = j
        BY <1>17 DEF PaysOnce
    <2> DEFINE Entry(k, n) == /\ all[k].to = list[n].address
                              /\ k = IF list[n].kind = "FixedAmount" THEN n ELSE N + n
               ToKeeper(k) == k = 2 * N + 1 /\ all[k].to = keeper /\ keeper \notin Addresses(list)
    <2>1. ToKeeper(i) \/ \E n \in 1..N : Entry(i, n)
        BY <1>18
    <2>2. ToKeeper(j) \/ \E n \in 1..N : Entry(j, n)
        BY <1>18
    <2>3. CASE ToKeeper(i)
        <3>1. ~ \E n \in 1..N : Entry(j, n)
            BY <1>3, <2>3
        <3> QED  BY <2>2, <2>3, <3>1
    <2>4. CASE \E n \in 1..N : Entry(i, n)
        <3>1. PICK n \in 1..N : Entry(i, n)
            BY <2>4
        <3>2. ~ ToKeeper(j)
            BY <1>3, <3>1
        <3>3. PICK m \in 1..N : Entry(j, m)
            BY <2>2, <3>2
        <3>4. n = m
            BY <1>4, <3>1, <3>3
        <3> QED  BY <3>1, <3>3, <3>4
    <2> QED  BY <2>1, <2>3, <2>4
<1>20. w.owner \notin PayeesOf(all)
    <2> SUFFICES ASSUME NEW i \in 1..(2 * N + 1), all[i].amount > 0
                 PROVE  all[i].to # w.owner
        BY <1>17 DEF PayeesOf
    <2> QED  BY <1>3, <1>5, <1>18
<1> QED  BY <1>19, <1>20 DEF all

----------------------------------------------------------------------------
(* The whole contract *)

\* The will id is released, for keeper: by release_inheritance, or by the vote
\* that completes a quorum of guardians.
ReleasedFor(id, keeper) ==
    /\ \E w, refused, stats, records :
        /\ TypedWill(w) /\ SameEstate(w, wills[id]) /\ w.status = wills[id].status
        /\ distribute(id, w, keeper, refused, stats, records)
    /\ \/ keeper = NoAccount
       \/ \E refused \in Refusals : release_inheritance(id, keeper, refused)

MoneyInv == AllTyped /\ PaidInv /\ LifecycleInv /\ FieldsInv /\ Filed /\ BooksKept

LEMMA WellHeldWills ==
    ASSUME AllTyped, LifecycleInv
    PROVE  WellHeld(wills)
<1>1. DOMAIN wills \subseteq 1..next_will_id /\ next_will_id \in Nat
    BY DEF LifecycleInv
<1>2. IsFiniteSet(1..next_will_id)
    BY <1>1, FS_Interval
<1> QED  BY <1>1, <1>2, FS_Subset DEF WellHeld, AllTyped

LEMMA StepSteady ==
    ASSUME MoneyInv, [PortfolioNext]_vars
    PROVE  Steady /\ AllTyped' /\ LifecycleInv' /\ FieldsInv' /\ PaidInv' /\ Filed'
<1>1. LifecycleInv'
    BY ContractStepKeeps DEF MoneyInv
<1>2. AllTyped'
    BY StepTyped DEF MoneyInv
<1>3. WellHeld(wills)
    BY WellHeldWills DEF MoneyInv
<1>4. WellHeld(wills')
    <2>1. DOMAIN wills' \subseteq 1..next_will_id' /\ next_will_id' \in Nat
        BY <1>1 DEF LifecycleInv
    <2>2. IsFiniteSet(1..next_will_id')
        BY <2>1, FS_Interval
    <2> QED  BY <1>2, <2>1, <2>2, FS_Subset DEF WellHeld, AllTyped
<1>5. FieldsInv' /\ PaidInv' /\ Filed'
    BY FieldsKept, StepPaid, StepFiled DEF MoneyInv
<1> QED  BY <1>1, <1>2, <1>3, <1>4, <1>5 DEF Steady, MoneyInv

LEMMA TalliedEstate ==
    ASSUME NEW id, NEW w, TypedWill(w), NEW records
    PROVE  /\ TypedWill(Tallied(id, w, records))
           /\ SameEstate(Tallied(id, w, records), w)
           /\ Tallied(id, w, records).status = w.status
<1>1. Whole(w)
    BY Opened
<1>2. SameEstate(Tallied(id, w, records), w) /\ Tallied(id, w, records).status = w.status
    BY <1>1 DEF Whole, WillFields, Tallied, SameEstate, SameMoney
<1> QED  BY <1>2, TalliedTyped

\* Every entry point but a release moves money between its owners only.
LEMMA StepBooks ==
    ASSUME MoneyInv, [PortfolioNext]_vars
    PROVE  Even \/ \E id \in DOMAIN wills, keeper \in Caller : ReleasedFor(id, keeper)
<1>0. Steady /\ AllTyped /\ PaidInv /\ FieldsInv /\ TypedTrail
    BY StepSteady DEF MoneyInv, Filed
<1> DEFINE Over == \E id \in DOMAIN wills, keeper \in Caller : ReleasedFor(id, keeper)
<1> SUFFICES Even \/ Over
    OBVIOUS
<1> HIDE DEF Over
<1>1. CASE OwnerNext
    <2>1. ASSUME NEW owner \in Accounts, NEW form \in CreateForms, create_will(owner, form)
          PROVE  Even
        BY <1>0, <2>1, CreateEven
    <2>2. ASSUME NEW id \in DOMAIN wills, NEW owner \in Accounts,
                 \/ confirm_will(id, owner)
                 \/ \E delegate \in Delegates : set_delegate(id, owner, delegate)
                 \/ \E p \in PeriodUpdates : update_periods(id, owner, p[1], p[2])
                 \/ emergency_checkin(id, owner)
                 \/ close_will(id, owner)
          PROVE  Even
        <3>1. Quiet
            BY <1>0, <2>2, QuietOwner
        <3>2. Continued
            BY <1>0, <2>2, OwnerContinues
        <3> QED  BY <1>0, <3>1, <3>2, QuietEven
    <2>3. ASSUME NEW id \in DOMAIN wills, NEW owner \in Accounts, cancel_will(id, owner)
          PROVE  Even
        BY <1>0, <2>3, CancelEven
    <2> QED  BY <1>1, <2>1, <2>2, <2>3 DEF OwnerNext
<1>2. CASE \E ids \in SUBSET DOMAIN wills : SignOfLife(ids)
    <2>1. ASSUME NEW id \in DOMAIN wills, NEW caller, check_in(id, caller)
          PROVE  Even
        <3>1. Quiet /\ Continued
            BY <1>0, <2>1, QuietOwner, OwnerContinues
        <3> QED  BY <1>0, <3>1, QuietEven
    <2>2. ASSUME NEW caller, NEW ids, batch_check_in(caller, ids)
          PROVE  Even
        BY <1>0, <2>2, QuietBatch, BatchContinues, QuietEven
    <2> QED  BY <1>2, <2>1, <2>2 DEF SignOfLife
<1>3. CASE AnyoneNext
    <2>1. ASSUME NEW id \in DOMAIN wills, NEW keeper \in Caller, NEW refused \in Refusals,
                 release_inheritance(id, keeper, refused)
          PROVE  ReleasedFor(id, keeper)
        <3>1. TypedWill(wills[id]) /\ SameEstate(wills[id], wills[id])
            BY <1>0 DEF AllTyped, SameEstate, SameMoney
        <3>2. \E stats, records : distribute(id, wills[id], keeper, refused, stats, records)
            BY <2>1 DEF release_inheritance
        <3> QED  BY <2>1, <3>1, <3>2 DEF ReleasedFor
    <2>2. ASSUME NEW id \in DOMAIN wills, trigger_will(id)
          PROVE  Even
        <3>1. Quiet /\ Continued
            BY <1>0, <2>2, QuietOwner, OwnerContinues
        <3> QED  BY <1>0, <3>1, QuietEven
    <2> QED  BY <1>3, <2>1, <2>2 DEF AnyoneNext, Over
<1>4. CASE Tick \/ UNCHANGED vars
    <2>1. UNCHANGED <<wills, archived_wills, failed_payout, bank, next_will_id>>
        BY <1>4 DEF Tick, vars, money
    <2>2. \A id \in DOMAIN wills : SameMoney(wills'[id], wills[id])
        BY <2>1 DEF SameMoney
    <2> QED  BY <1>0, <2>1, <2>2, EvenWhenStill DEF Steady
<1>5. CASE GuardianNext
    <2>1. ASSUME NEW id \in DOMAIN wills, NEW guardian, NEW refused,
                 \/ guardian_trigger(id, guardian, refused)
                 \/ guardian_cancel_trigger(id, guardian)
                 \/ accept_guardian_role(id, guardian)
                 \/ reject_guardian_role(id, guardian)
          PROVE  Even \/ Over
        <3>1. ASSUME NEW records, distribute(id, Tallied(id, wills[id], records), NoAccount, refused,
                                             protocol_stats, records)
              PROVE  Over
            <4>1. ReleasedFor(id, NoAccount)
                BY <1>0, <3>1, TalliedEstate DEF ReleasedFor, AllTyped
            <4> QED  BY <4>1 DEF Over, Caller
        <3>2. Quiet \/ \E records : distribute(id, Tallied(id, wills[id], records), NoAccount,
                                               refused, protocol_stats, records)
            BY <1>0, <2>1, QuietGuardian
        <3>3. Continued \/ \E records : distribute(id, Tallied(id, wills[id], records), NoAccount,
                                                   refused, protocol_stats, records)
            BY <1>0, <2>1, GuardianContinues
        <3> QED  BY <1>0, <3>1, <3>2, <3>3, QuietEven
    <2> QED  BY <1>5, <2>1 DEF GuardianNext
<1>6. CASE AppointNext
    <2>1. Quiet
        BY <1>0, <1>6, QuietAppoint
    <2>2. Continued
        BY <1>0, <1>6, AppointContinues DEF AppointNext
    <2> QED  BY <1>0, <2>1, <2>2, QuietEven
<1>7. CASE EstateOwnerNext
    <2>1. ASSUME NEW id \in DOMAIN wills, NEW owner \in Accounts, NEW p \in TopUps,
                 top_up(id, owner, p[1], p[2])
          PROVE  Even
        BY <1>0, <2>1, TopUpEven, EstateInputsAssumption
    <2> QED  BY <1>0, <1>7, <2>1, HeirsEven, HashedEven DEF EstateOwnerNext
<1>8. CASE EstateHeirNext
    <2>1. ASSUME NEW id \in DOMAIN wills, NEW h \in HashedShares,
                 reveal_and_claim(id, h.claimant, h.salt)
          PROVE  Even
        BY <1>0, <2>1, ClaimEven, EstateInputsAssumption
    <2> QED  BY <1>0, <1>8, <2>1, HeirsEven, ArchiveEven, RetryEven DEF EstateHeirNext
<1>9. CASE PortfolioOnlyNext
    <2>1. CASE repair_protocol_stats
        <3>1. UNCHANGED <<wills, archived_wills, failed_payout, bank, next_will_id>>
            BY <2>1 DEF repair_protocol_stats, money
        <3>2. \A id \in DOMAIN wills : SameMoney(wills'[id], wills[id])
            BY <3>1 DEF SameMoney
        <3> QED  BY <1>0, <3>1, <3>2, EvenWhenStill DEF Steady
    <2> QED  BY <1>0, <1>9, <2>1, CloneEven, SplitEven, BatchEven, MergeEven
             DEF PortfolioOnlyNext, MultiplyNext, Merging
<1> QED
    BY <1>1, <1>2, <1>3, <1>4, <1>5, <1>6, <1>7, <1>8, <1>9
    DEF PortfolioNext, EstateNext, QuorumNext, LifecycleNext

\* The step that releases a will.
Releases(id) ==
    /\ wills[id].status \in LiveStatus
    /\ id \in DOMAIN wills'
    /\ wills'[id].status = "Released"

\* A release whose plan counts soundly: no heir takes a percentage, or every
\* hashed share is claimed and the bounty of the first token is not rounded to
\* nothing.  Otherwise the conservation check of distribute() lets a plan pass
\* that promises a token twice (the run reserve_promised).
SoundReleases == \A id \in DOMAIN wills : Releases(id) => SoundPlan(wills[id])

\* Nobody is paid twice of one will: an heir is named once, is not the owner,
\* and earns no bounty of the will as its keeper.
ApartReleases ==
    /\ \A id \in DOMAIN wills : Releases(id) =>
            /\ HeirsApart(wills[id].beneficiaries)
            /\ wills[id].owner \notin Addresses(wills[id].beneficiaries)
    /\ \A id \in DOMAIN wills, keeper \in Caller, refused \in Refusals :
            release_inheritance(id, keeper, refused)
            /\ keeper \in Addresses(wills[id].beneficiaries)
                => wills[id].keeper_bounty_bps = 0

LEMMA SameSoundness ==
    ASSUME NEW w, NEW v, SameEstate(w, v)
    PROVE  SoundPlan(v) => SoundPlan(w)
<1>1. FundedTokens(w) = FundedTokens(v)
    BY DEF FundedTokens, SameEstate, SameMoney
<1> QED  BY <1>1 DEF SoundPlan, BountyFromFirst, SameEstate, SameMoney

\* A step that leaves the books in order, takes nothing from what there is beside
\* the wills if its releases are sound, and adds nothing to it if they pay apart.
Accounted ==
    /\ BooksKept'
    /\ SoundReleases => \A t \in Tokens : Left(t)' >= Left(t)
    /\ SoundReleases /\ ApartReleases => \A t \in Tokens : Left(t)' = Left(t)

LEMMA PaidRelease ==
    ASSUME MoneyInv, Steady, NEW id \in DOMAIN wills, NEW keeper \in Caller, NEW w, TypedWill(w),
           SameEstate(w, wills[id]), w.status = wills[id].status,
           NEW refused, NEW stats, NEW records, distribute(id, w, keeper, refused, stats, records),
           keeper = NoAccount \/ \E r \in Refusals : release_inheritance(id, keeper, r)
    PROVE  Accounted
<1>1. /\ TypedWill(w) /\ SameEstate(w, wills[id]) /\ w.status = wills[id].status
      /\ distribute(id, w, keeper, refused, stats, records)
    OBVIOUS
<1>2. id \in WillIds
    BY StoredIds DEF MoneyInv, Filed
<1>3. w.balances = wills[id].balances
    BY <1>1 DEF SameEstate, SameMoney
<1>4. /\ BooksKept'
      /\ SoundPlan(w) => \A t \in Tokens :
            /\ Left(t)' >= Left(t)
            /\ PaidOnce(w, keeper, DistributionPlan(w, keeper)) => Left(t)' = Left(t)
    BY <1>1, <1>2, <1>3, ReleaseBooks
<1>5. Releases(id)
    <2> DEFINE left == HashedReserves(w, DistributionPlan(w, keeper))
               v == [w EXCEPT !.balances = left, !.balance = BalanceOf(left, w.token), !.status = "Released"]
    <2>1. w.status \in {"Active", "Triggered"} /\ wills' = Put(wills, id, v)
        BY <1>1, Zenon DEF distribute, SaveWithVotes
    <2>2. Whole(w)
        BY <1>1, Opened
    <2> HIDE DEF left
    <2>3. v.status = "Released"
        BY <2>2 DEF Whole, WillFields
    <2> HIDE DEF v
    <2>4. id \in DOMAIN wills' /\ wills'[id] = v
        BY <2>1 DEF Put
    <2> QED  BY <1>1, <2>1, <2>3, <2>4 DEF Releases, LiveStatus
<1>6. SoundReleases => SoundPlan(w)
    BY <1>1, <1>5, SameSoundness DEF SoundReleases
<1>7. ApartReleases => PaidOnce(w, keeper, DistributionPlan(w, keeper))
    <2> SUFFICES ASSUME ApartReleases
                 PROVE  PaidOnce(w, keeper, DistributionPlan(w, keeper))
        OBVIOUS
    <2>1. /\ w.beneficiaries = wills[id].beneficiaries /\ w.owner = wills[id].owner
          /\ w.keeper_bounty_bps = wills[id].keeper_bounty_bps
        BY <1>1 DEF SameEstate, SameMoney
    <2>2. HeirsApart(w.beneficiaries) /\ w.owner \notin Addresses(w.beneficiaries)
        BY <1>5, <2>1 DEF ApartReleases
    <2>3. Addresses(w.beneficiaries) \subseteq Accounts
        <3>1. w.beneficiaries \in Seq(Beneficiary)
            BY <1>1, Opened DEF TypedFields
        <3>2. \A i \in DOMAIN w.beneficiaries : w.beneficiaries[i].address \in Accounts
            <4>1. \A i \in DOMAIN w.beneficiaries : w.beneficiaries[i] \in Beneficiary
                BY <3>1
            <4> QED  BY <4>1 DEF Beneficiary
        <3> QED  BY <3>2 DEF Addresses
    <2>4. keeper \in Addresses(w.beneficiaries) => w.keeper_bounty_bps = 0
        BY <2>1, <2>3, AccountsAssumption DEF ApartReleases
    <2> QED  BY <1>1, <2>2, <2>4, PaidApart
<1> QED  BY <1>4, <1>6, <1>7 DEF Accounted

LEMMA ReleaseAccounted ==
    ASSUME MoneyInv, Steady, NEW id \in DOMAIN wills, NEW keeper \in Caller, ReleasedFor(id, keeper)
    PROVE  Accounted
BY PaidRelease DEF ReleasedFor

LEMMA BooksStay ==
    ASSUME MoneyInv, [PortfolioNext]_vars
    PROVE  MoneyInv' /\ Accounted
<1>1. Steady /\ AllTyped' /\ LifecycleInv' /\ FieldsInv' /\ PaidInv' /\ Filed'
    BY StepSteady
<1>2. ASSUME Even PROVE Accounted
    <2>1. \A t \in Tokens : Left(t) \in Int /\ Left(t)' = Left(t)
        BY <1>1, <1>2, BooksTyped DEF Steady, Even
    <2>2. \A t \in Tokens : Left(t)' >= Left(t)
        BY <2>1
    <2>3. BooksKept'
        BY <1>2 DEF Even
    <2> QED  BY <2>1, <2>2, <2>3 DEF Accounted
<1>3. ASSUME NEW id \in DOMAIN wills, NEW keeper \in Caller, ReleasedFor(id, keeper)
      PROVE  Accounted
    BY <1>1, <1>3, ReleaseAccounted
<1>4. Accounted
    BY <1>2, <1>3, StepBooks
<1> QED  BY <1>1, <1>4 DEF MoneyInv, Accounted

LEMMA NothingSpent ==
    ASSUME LifecycleInit
    PROVE  MoneyInv /\ \A t \in Tokens : Left(t) = 0
<1>1. /\ now = 0 /\ next_will_id = 0
      /\ wills = << >> /\ archived_wills = << >> /\ history = << >> /\ failed_payout = << >>
      /\ protocol_stats = [active_will_count |-> 0, total_locked_by_token |-> [t \in Tokens |-> 0]]
      /\ owner_wills = [a \in Accounts |-> {}] /\ beneficiary_wills = [a \in Accounts |-> {}]
      /\ bank = [t \in Tokens |-> [a \in Accounts \cup {Contract} |-> IF a = Contract THEN 0 ELSE Purse[a]]]
    BY DEF LifecycleInit, StorageInit
<1>2. DOMAIN wills = {} /\ DOMAIN archived_wills = {} /\ DOMAIN history = {} /\ DOMAIN failed_payout = {}
    BY <1>1
<1>3. AllTyped /\ PaidInv /\ FieldsInv /\ TypedTrail /\ ParkedForTheOver /\ ArchiveApart
    BY <1>2 DEF AllTyped, PaidInv, FieldsInv, TypedTrail, ParkedForTheOver, ArchiveApart
<1>4. LifecycleInv
    BY InitEstablishes
<1>5. WellHeld(archived_wills) /\ WellHeld(wills)
    BY <1>2, FS_EmptySet DEF WellHeld
<1>6. Filed
    <2>1. CountersTyped
        BY <1>1, BoundsAssumption DEF CountersTyped
    <2>2. StatsTyped(protocol_stats)
        BY <1>1 DEF StatsTyped
    <2>3. owner_wills \in Index /\ beneficiary_wills \in Index
        BY <1>1 DEF Index
    <2> QED  BY <1>3, <2>1, <2>2, <2>3 DEF Filed
<1>7. Ledger \in Books
    <2>1. bank \in Ledgers
        BY <1>1, InputsAssumption DEF Ledgers
    <2>2. failed_payout \in Parkings
        <3>1. failed_payout \in [{} -> Nat]
            BY <1>1
        <3> QED  BY <3>1 DEF Parkings
    <2> QED  BY <2>1, <2>2 DEF Ledger, Books
<1>8. BooksKept
    BY <1>3, <1>5, <1>7 DEF BooksKept
<1>9. ASSUME NEW t \in Tokens
      PROVE  Left(t) = 0
    <2>1. HeldIn(wills, t) = 0 /\ HeldIn(archived_wills, t) = 0
        BY <1>2, SumOfNone DEF HeldIn, SumFunction
    <2>2. ParkedOf(failed_payout, t) = 0
        <3>1. {key \in DOMAIN failed_payout : key[2] = t} = {}
            BY <1>2
        <3> QED  BY <3>1, SumOfNone DEF ParkedOf
    <2>3. bank[t][Contract] = 0
        BY <1>1
    <2> QED  BY <1>5, <1>8, <2>1, <2>2, <2>3, BooksTyped
<1> QED  BY <1>3, <1>4, <1>6, <1>8, <1>9 DEF MoneyInv

----------------------------------------------------------------------------
(* Theorems *)

\* Whatever the callers do: every stored will keeps the types and the bounds of
\* its fields, counters and statistics stay typed, the indexes and the trail
\* name stored wills, and ledger and parked payouts hold natural numbers.
THEOREM MoneyHolds == PortfolioSpec => []MoneyInv
<1>1. LifecycleInit => MoneyInv
    BY NothingSpent
<1>2. MoneyInv /\ [PortfolioNext]_vars => MoneyInv'
    BY BooksStay
<1> QED  BY <1>1, <1>2, PTL DEF PortfolioSpec

\* What the contract owes of t.
LEMMA OwedIsAllBut ==
    ASSUME MoneyInv, NEW t \in Tokens
    PROVE  /\ Owed(t) \in Nat /\ bank[t][Contract] \in Nat /\ Left(t) \in Int
           /\ Left(t) = bank[t][Contract] - Owed(t)
<1>1. BooksKept /\ WellHeld(wills)
    BY WellHeldWills DEF MoneyInv
<1>2. /\ HeldBy(DOMAIN wills, t) = HeldIn(wills, t) /\ HeldByArchive(t) = HeldIn(archived_wills, t)
      /\ Parked(t) = ParkedOf(failed_payout, t)
    BY DEF HeldBy, HeldByArchive, HeldIn, Parked, ParkedOf
<1>3. /\ bank[t][Contract] \in Nat /\ ParkedOf(failed_payout, t) \in Nat
      /\ HeldIn(wills, t) \in Nat /\ HeldIn(archived_wills, t) \in Nat
      /\ Left(t) = bank[t][Contract] - ParkedOf(failed_payout, t)
                       - HeldIn(wills, t) - HeldIn(archived_wills, t)
    BY <1>1, BooksTyped
<1>4. Owed(t) = HeldIn(wills, t) + HeldIn(archived_wills, t) + ParkedOf(failed_payout, t)
    BY <1>2 DEF Owed
<1> DEFINE b == bank[t][Contract]
           p == ParkedOf(failed_payout, t)
           h == HeldIn(wills, t)
           a == HeldIn(archived_wills, t)
           l == Left(t)
           o == Owed(t)
<1>5. b \in Nat /\ p \in Nat /\ h \in Nat /\ a \in Nat /\ l = b - p - h - a /\ o = h + a + p
    BY <1>3, <1>4
<1> HIDE DEF b, p, h, a, l, o
<1>6. o \in Nat /\ b \in Nat /\ l \in Int /\ l = b - o
    BY ONLY <1>5
<1> QED  BY <1>6 DEF b, o, l

----------------------------------------------------------------------------
(* What the contract holds against what it owes *)

LeftTyped == \A t \in Tokens : Left(t) \in Int

Covered == \A t \in Tokens : Left(t) >= 0
Exact   == \A t \in Tokens : Left(t) = 0

\* While the releases are sound, the contract holds, of every token, at least
\* what its wills, its archived wills and its parked payouts promise: no funding,
\* revocation, split, merge, archive or payout, refused transfers included,
\* spends the money of another will.
THEOREM ContractStaysSolvent == PortfolioSpec /\ [][SoundReleases]_vars => []Solvent
<1>1. LifecycleInit => Covered
    BY NothingSpent DEF Covered
<1>4. MoneyInv => LeftTyped
    BY OwedIsAllBut DEF LeftTyped
<1>2. /\ MoneyInv /\ Covered /\ LeftTyped /\ LeftTyped'
      /\ [PortfolioNext]_vars /\ [SoundReleases]_vars
      => Covered'
    <2> SUFFICES ASSUME MoneyInv, Covered, LeftTyped, LeftTyped', [PortfolioNext]_vars,
                        SoundReleases \/ UNCHANGED vars
                 PROVE  Covered'
        OBVIOUS
    <2>1. CASE SoundReleases
        <3>1. \A t \in Tokens : Left(t) \in Int /\ Left(t)' \in Int
            BY DEF LeftTyped
        <3>2. \A t \in Tokens : Left(t)' >= Left(t) /\ Left(t) >= 0
            BY <2>1, BooksStay DEF Accounted, Covered
        <3>3. \A t \in Tokens : Left(t)' >= 0
            BY <3>1, <3>2
        <3> QED  BY <3>3 DEF Covered
    <2>2. CASE UNCHANGED vars
        BY <2>2 DEF vars, money, Covered, Left, Spare, Ledger, HeldIn, ParkedOf
    <2> QED  BY <2>1, <2>2
<1>3. MoneyInv /\ Covered => Solvent
    <2> SUFFICES ASSUME MoneyInv, Covered, NEW t \in Tokens
                 PROVE  bank[t][Contract] >= Owed(t)
        BY DEF Solvent
    <2>1. Owed(t) \in Nat /\ bank[t][Contract] \in Nat /\ Left(t) = bank[t][Contract] - Owed(t)
        BY OwedIsAllBut
    <2>2. Left(t) >= 0
        BY DEF Covered
    <2> QED  BY <2>1, <2>2
<1> QED  BY <1>1, <1>2, <1>3, <1>4, MoneyHolds, PTL DEF PortfolioSpec

\* While the releases are sound and pay nobody twice, the contract holds of every
\* token exactly what it owes: no coin is left that no will, archived will or
\* parked payout accounts for.  (A second refused payout to the same account
\* replaces the amount parked by the first.)
THEOREM NothingIsStranded ==
    PortfolioSpec /\ [][SoundReleases /\ ApartReleases]_vars => []NothingStranded
<1>1. LifecycleInit => Exact
    BY NothingSpent DEF Exact
<1>2. MoneyInv /\ Exact /\ [PortfolioNext]_vars /\ [SoundReleases /\ ApartReleases]_vars => Exact'
    <2> SUFFICES ASSUME MoneyInv, Exact, [PortfolioNext]_vars,
                        (SoundReleases /\ ApartReleases) \/ UNCHANGED vars
                 PROVE  Exact'
        OBVIOUS
    <2>1. CASE SoundReleases /\ ApartReleases
        BY <2>1, BooksStay DEF Accounted, Exact
    <2>2. CASE UNCHANGED vars
        BY <2>2 DEF vars, money, Exact, Left, Spare, Ledger, HeldIn, ParkedOf
    <2> QED  BY <2>1, <2>2
<1>3. MoneyInv /\ Exact => NothingStranded
    <2> SUFFICES ASSUME MoneyInv, Exact, NEW t \in Tokens
                 PROVE  bank[t][Contract] = Owed(t)
        BY DEF NothingStranded
    <2>1. Owed(t) \in Nat /\ bank[t][Contract] \in Nat /\ Left(t) = bank[t][Contract] - Owed(t)
        BY OwedIsAllBut
    <2>2. Left(t) = 0
        BY DEF Exact
    <2> QED  BY <2>1, <2>2
<1> QED  BY <1>1, <1>2, <1>3, MoneyHolds, PTL DEF PortfolioSpec

\* Every variable of the contract keeps its type, the maps of DataKey, the counters
\* and the ledger included, with no hypothesis on the callers.
THEOREM TypesHold == PortfolioSpec => []TypeOK
<1>1. MoneyInv /\ VoteInv => TypeOK
    <2> SUFFICES ASSUME MoneyInv, VoteInv
                 PROVE  StorageTypeOK
        BY DEF TypeOK
    <2>1. /\ now \in 0..MaxTime /\ next_will_id \in 0..MaxWills
          /\ owner_wills \in [Accounts -> SUBSET WillIds]
          /\ beneficiary_wills \in [Accounts -> SUBSET WillIds]
          /\ \A id \in DOMAIN history : history[id] \in Transition
          /\ StatsTyped(protocol_stats)
        BY DEF MoneyInv, Filed, CountersTyped, Index, TypedTrail
    <2>2. protocol_stats \in [active_will_count : Nat, total_locked_by_token : [Tokens -> Int]]
        BY <2>1 DEF StatsTyped
    <2>3. /\ DOMAIN wills \subseteq 1..next_will_id
          /\ \A id \in DOMAIN wills : IsWill(wills[id])
        BY DEF MoneyInv, LifecycleInv, AllTyped, TypedWill
    <2>4. /\ DOMAIN archived_wills \subseteq 1..next_will_id
          /\ triggered_wills \subseteq WillIds
          /\ DOMAIN history \subseteq WillIds
        BY DEF MoneyInv, LifecycleInv, Kept, VoteInv
    <2>5. \A id \in DOMAIN archived_wills : IsWill(archived_wills[id])
        BY DEF MoneyInv, BooksKept, WellHeld, TypedWill
    <2>6. /\ DOMAIN failed_payout \subseteq PayoutKeys
          /\ \A key \in DOMAIN failed_payout : failed_payout[key] \in Nat
        BY ParkingsAre DEF MoneyInv, BooksKept, Ledger, Books
    <2>7. bank \in [Tokens -> [Accounts \cup {Contract} -> Nat]]
        BY DEF MoneyInv, BooksKept, Ledger, Books, Ledgers
    <2>8. guardian_vote \in VoteRecords /\ guardian_cancel_vote \in VoteRecords
        BY DEF VoteInv
    <2> QED  BY <2>1, <2>2, <2>3, <2>4, <2>5, <2>6, <2>7, <2>8 DEF StorageTypeOK
<1> QED  BY <1>1, MoneyHolds, ContractVotesHold, PTL
=============================================================================
