----------------------------- MODULE MCEstate ------------------------------
(***************************************************************************)
(* Small instances of WillEstate: one or two wills of alice, heirs who may *)
(* leave, refuse a payout or claim a hashed share, and owners who change   *)
(* their mind.                                                             *)
(***************************************************************************)
EXTENDS WillEstate, WillQueries, WillProperties

CONSTANTS alice, bob, carol

MCAccounts == {alice, bob, carol}
MCPurse == [a \in MCAccounts |-> IF a = alice THEN 11 ELSE 0]

TwinPurse == [a \in MCAccounts |-> IF a = carol THEN 0 ELSE 11]

Fixed(a, n) == [address |-> a, kind |-> "FixedAmount", amount |-> n]
Percent(a, bp) == [address |-> a, kind |-> "Percentage", amount |-> bp]

Form(amount, beneficiaries, guardians) ==
    [tokens |-> << <<1, amount>> >>, beneficiaries |-> beneficiaries,
     checkin |-> 1, grace |-> 1, guardians |-> guardians,
     threshold |-> Len(guardians), bounty |-> 0, delay |-> 0]

\* Thirds leave a remainder when one of the three leaves.
Bequests == Form(10, << Fixed(bob, 4), Fixed(carol, 3) >>, << >>)
Thirds   == Form(10, << Percent(alice, 3333), Percent(bob, 3333), Percent(carol, 3334) >>,
                 << bob >>)
\* A balance too small for half of it to be reserved.
Crumb    == Form(1, << Fixed(bob, 1) >>, << >>)

\* What the owner leaves open comes back to her, beside her own share.
OwnHeir  == Form(10, << Fixed(alice, 4), Fixed(carol, 3) >>, << >>)

MCForms == {Bequests, Thirds, Crumb}
MCBequests == {Bequests}
MCOwnHeir == {OwnHeir}

MCTopUps == {<<1, 1>>, <<2, 6>>}
OneTopUp == {<<1, 1>>}
NoTopUps == {}
MCLists == {<< Fixed(carol, 5), Percent(bob, 10000) >>, << Fixed(bob, 11) >>,
            << Percent(bob, 5000), Percent(carol, 4000) >>}
MCWholeToBob == {<< Percent(bob, 10000) >>}
NoLists == {}
MCSettings ==
    {[beneficiaries |-> None, guardians |-> << carol >>, checkin |-> NoTime, grace |-> 2],
     [beneficiaries |-> << Fixed(bob, 1), Fixed(carol, 9) >>, guardians |-> None,
      checkin |-> 2, grace |-> NoTime]}
NoSettings == {}
MCHashed == {[claimant |-> carol, salt |-> 1, percentage |-> 5000],
             [claimant |-> bob, salt |-> 0, percentage |-> 4000]}
NoHashed == {}
NoWeighted == {}
NoPeriods == {}
NoDelegates == {}
Willing == {{}}
Refusing == {{}, {<<1, carol>>}}
RefusingAlice == {{}, {<<1, alice>>}}
=============================================================================
