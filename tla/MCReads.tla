------------------------------ MODULE MCReads -------------------------------
(***************************************************************************)
(* Small instances of WillReads: up to three wills of alice, which are     *)
(* cancelled, triggered, recovered and archived while a client pages       *)
(* through her wills or through the trail of one of them, one item a page. *)
(***************************************************************************)
EXTENDS ReadProperties

CONSTANTS alice, carol

MCAccounts == {alice, carol}
MCPurse == [a \in MCAccounts |-> IF a = alice THEN 3 ELSE 0]

Form(checkin) ==
    [tokens |-> << <<1, 1>> >>,
     beneficiaries |-> << [address |-> carol, kind |-> "FixedAmount", amount |-> 1] >>,
     checkin |-> checkin, grace |-> 1,
     guardians |-> << >>, threshold |-> 0, bounty |-> 0, delay |-> 0]

MCForms == {Form(1)}
PatientForms == {Form(1), Form(2)}

OwnWills == [kind |-> "owner", who |-> alice]
Inherited == [kind |-> "beneficiary", who |-> carol]
OwnActive == [kind |-> "status", who |-> alice, status |-> "Active"]
OwnActivePage == [kind |-> "status_page", who |-> alice, status |-> "Active"]
FirstTrail == [kind |-> "trail", who |-> 1]

MCQueries == {OwnWills, Inherited, OwnActive, OwnActivePage, FirstTrail}
KeeperQueries == {[kind |-> "triggered"]}

Nothing == {}
Willing == {{}}
=============================================================================
