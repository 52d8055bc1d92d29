---------------------------- MODULE MCPortfolio ----------------------------
(***************************************************************************)
(* Small instances of WillPortfolio: three wills at most, one owner with   *)
(* guardians, another who clones, splits that fit and one that does not.   *)
(***************************************************************************)
EXTENDS WillPortfolio, WillProperties

CONSTANTS alice, bob, carol

MCAccounts == {alice, bob, carol}
MCPurse == [a \in MCAccounts |-> IF a = alice THEN 1100 ELSE IF a = bob THEN 600 ELSE 0]

Fixed(a, n) == [address |-> a, kind |-> "FixedAmount", amount |-> n]
Percent(a, bp) == [address |-> a, kind |-> "Percentage", amount |-> bp]

Form(amount, beneficiaries, guardians) ==
    [tokens |-> << <<1, amount>> >>, beneficiaries |-> beneficiaries,
     checkin |-> 1, grace |-> 1, guardians |-> guardians,
     threshold |-> Len(guardians), bounty |-> 100, delay |-> 0]

\* Large enough that no share of a merged will rounds down to nothing.
Guarded  == Form(600, << Fixed(bob, 200), Fixed(carol, 200) >>, << carol >>)
Promised == Form(600, << Fixed(bob, 200), Fixed(carol, 200) >>, << >>)
Shared   == Form(500, << Percent(bob, 2500), Percent(carol, 2500), Percent(alice, 5000) >>, << >>)

NoForms == {}
\* Two wills at once fill the lists of their owner and of two heirs; one leaves room
\* for a split or a clone before any merge; the larger split leaves Promised less
\* than its bequests.
MCBatches == {<< Shared, Guarded >>, << Shared >>, << Promised >>}
MCClonePurses == {<< <<1, 600>> >>}
MCSplits == {[heirs |-> << bob >>, tokens |-> << <<1, 200>>, <<1, 100>> >>],
             [heirs |-> << bob >>, tokens |-> << <<1, 450>> >>]}

NoTopUps == {}
NoLists == {}
NoSettings == {}
NoHashed == {}
NoWeighted == {}
NoPeriods == {}
NoDelegates == {}
Willing == {{}}

\* The steps that reshape wills among those of guardians, keepers and the clock;
\* the owner's other entry points and the heirs' are explored in MCEstate.
ReshapingNext ==
    \/ PortfolioOnlyNext
    \/ GuardianNext
    \/ \E ids \in SUBSET DOMAIN wills : SignOfLife(ids)
    \/ AnyoneNext
    \/ Tick
ReshapingSpec == LifecycleInit /\ [][ReshapingNext]_vars
=============================================================================
