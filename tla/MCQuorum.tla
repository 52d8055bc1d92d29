----------------------------- MODULE MCQuorum ------------------------------
(***************************************************************************)
(* Small instances of GuardianQuorum: one will, up to three guardians, one *)
(* of them also the beneficiary, lists with and without weights.           *)
(***************************************************************************)
EXTENDS WillQueries, WillProperties

CONSTANTS alice, bob, carol

MCAccounts == {alice, bob, carol}
MCPurse == [a \in MCAccounts |-> IF a = alice THEN 10 ELSE 0]

Form(guardians, threshold, checkin) ==
    [tokens |-> << <<1, 10>> >>,
     beneficiaries |-> << [address |-> carol, kind |-> "FixedAmount", amount |-> 6] >>,
     checkin |-> checkin, grace |-> 1,
     guardians |-> guardians, threshold |-> threshold, bounty |-> 0, delay |-> 0]

Guarded   == Form(<< bob, carol >>, 2, 2)
Trusting  == Form(<< bob, carol >>, 1, 1)
Unguarded == Form(<< >>, 0, 2)
Partisan  == Form(<< alice, bob >>, 1, 1)    \* rejected: the owner guards herself

MCForms == {Guarded, Trusting, Partisan}
MCUnguarded == {Unguarded}

MCLists == {<< >>, << carol >>}
MCBothLists == {<< bob, carol >>}
NoLists == {}
MCWeighted == {[guardians |-> << <<bob, 2>>, <<carol, 1>> >>, threshold |-> 2],
               [guardians |-> << <<bob, 1>>, <<carol, 1>> >>, threshold |-> 3]}
NoWeighted == {}

NoPeriods == {}
MCPeriods == {<<NoTime, 2>>}
NoDelegates == {}
Willing == {{}}
=============================================================================
