---------------------------- MODULE MCLifecycle ----------------------------
(***************************************************************************)
(* Small instances of WillLifecycle: two owners, a third account that only *)
(* inherits and keeps, two tokens, periods of one or two days of one       *)
(* second, and both well-formed and malformed arguments.                   *)
(***************************************************************************)
EXTENDS WillLifecycle, WillProperties

CONSTANTS alice, bob, carol

MCAccounts == {alice, bob, carol}
MCPurse == [a \in MCAccounts |-> IF a = alice THEN 300 ELSE IF a = bob THEN 100 ELSE 0]

Fixed(a, n) == [address |-> a, kind |-> "FixedAmount", amount |-> n]
Percent(a, bp) == [address |-> a, kind |-> "Percentage", amount |-> bp]

Form(tokens, beneficiaries, checkin, bounty, delay) ==
    [tokens |-> tokens, beneficiaries |-> beneficiaries,
     checkin |-> checkin, grace |-> 1,
     guardians |-> << >>, threshold |-> 0, bounty |-> bounty, delay |-> delay]

\* A single-token will, confirmed later, and a two-token will with a bounty.
Simple  == Form(<< <<1, 100>> >>, << Fixed(carol, 60) >>, 1, 0, 0)
Delayed == Form(<< <<1, 100>> >>, << Fixed(carol, 60) >>, 1, 0, 1)
Rich    == Form(<< <<2, 100>>, <<1, 150>> >>,
                << Fixed(carol, 60), Fixed(bob, 40) >>, 2, 100, 0)

\* Rejected: bequests beyond the balance of the primary token.
Greedy == Form(<< <<1, 100>>, <<2, 100>> >>,
               << Fixed(carol, 60), Fixed(bob, 60) >>, 1, 0, 0)

Shared == Form(<< <<1, 100>> >>, << Percent(bob, 4000), Percent(carol, 6000) >>, 1, 0, 0)

MCForms == {Simple, Delayed, Rich, Greedy}
MCSharedForms == {Shared}

MCPeriods == {<<2, NoTime>>, <<NoTime, 2>>, <<0, 1>>}
NoPeriods == {}
MCDelegates == {bob, NoAccount}
NoDelegates == {}
Willing == {{}}
Refusing == {{}, {<<1, carol>>}}
=============================================================================
