----------------------------- MODULE WillReads -----------------------------
(***************************************************************************)
(* The contract together with a client that pages through it.  Every call  *)
(* of WillPortfolio carries the ordered id lists and the trails along, and *)
(* between calls the client reads the next page of the walk it is on.      *)
(* Reads change nothing in the contract; the client keeps what it has seen *)
(* and `owed`, what has stood in the listing ever since its first page.    *)
(***************************************************************************)
EXTENDS WillPortfolio, AuditTrail

CONSTANTS
    PageLimit,      \* the limit the client asks for
    MaxRecords,     \* bound: entries ever appended to the trails of stored wills
    Queries         \* the walks the client may start

ASSUME ReadsAssumption == PageLimit \in Nat \ {0} /\ MaxRecords \in Nat

ASSUME QueriesAssumption ==
    \A q \in Queries :
        \/ q.kind \in {"owner", "beneficiary"} /\ q.who \in Accounts
        \/ q.kind \in {"status", "status_page"} /\ q.who \in Accounts /\ q.status \in WillStatus
        \/ q.kind = "triggered"
        \/ q.kind = "trail" /\ q.who \in WillIds

VARIABLES owner_list, beneficiary_list, triggered_list, trail, walk

ordered == <<owner_list, beneficiary_list, triggered_list>>
read_vars == <<vars, ordered, trail, walk>>

NoWalk == [query |-> [kind |-> "none"], cursor |-> NoCursor,
           seen |-> << >>, owed |-> {}, done |-> FALSE]

----------------------------------------------------------------------------
(* The readers *)

get_wills_by_owner(owner, cursor, limit) == paginate_ids(owner_list[owner], cursor, limit)

get_wills_by_beneficiary(heir, cursor, limit) ==
    paginate_ids(beneficiary_list[heir], cursor, limit)

get_triggered_wills(cursor, limit) == paginate_ids(triggered_list, cursor, limit)

WithStatus(ids, status) == Those(ids, {id \in ToSet(ids) : wills[id].status = status})

\* Faulty: the page is cut before the status is looked at.
get_wills_by_owner_and_status_late(owner, status, cursor, limit) ==
    WithStatus(paginate_ids(owner_list[owner], cursor, limit), status)

\* The wills of wills_by_owner_and_status_page.
get_wills_by_owner_and_status(owner, status, cursor, limit) ==
    FirstFew(Above(WithStatus(owner_list[owner], status), cursor), PageSize(limit))

\* The ids up to the cursor are only skipped at the head of the list.
BehindCursor(ids, cursor) ==
    LET above == {i \in DOMAIN ids : ids[i] > cursor}
    IN  IF above = {} THEN << >> ELSE SubSeq(ids, Min(above), Len(ids))

get_owner_status_page(owner, status, cursor, limit) ==
    LET ids   == owner_list[owner]
        found == FirstFew(WithStatus(BehindCursor(ids, cursor), status), PageSize(limit))
    IN  [wills       |-> found,
         total_count |-> Len(WithStatus(ids, status)),
         next_cursor |-> IF Len(found) >= PageSize(limit) THEN Last(found) ELSE NoCursor]

get_will_history(id) == IF id \in DOMAIN trail THEN trail[id].entries ELSE << >>

get_will_history_page(id, cursor, limit) == paginate_history(get_will_history(id), cursor, limit)

----------------------------------------------------------------------------
(* The client *)

\* What a listing holds now: will ids, or the numbers of the trail's entries.
Standing(q) ==
    CASE q.kind = "owner"       -> ToSet(owner_list[q.who])
      [] q.kind = "beneficiary" -> ToSet(beneficiary_list[q.who])
      [] q.kind = "triggered"   -> ToSet(triggered_list)
      [] q.kind \in {"status", "status_page"} -> ToSet(WithStatus(owner_list[q.who], q.status))
      [] q.kind = "trail"       -> {e.seq : e \in ToSet(get_will_history(q.who))}
      [] OTHER -> {}

\* Ids are read on from the last one, until a page is short.
ByLastId(page) ==
    [items |-> page, next |-> IF Len(page) < PageLimit THEN NoCursor ELSE Last(page)]

\* A page as the client takes it: its items and the cursor of the next page,
\* NoCursor if the client takes the walk to be over.
Page(q, cursor) ==
    CASE q.kind = "owner"       -> ByLastId(get_wills_by_owner(q.who, cursor, PageLimit))
      [] q.kind = "beneficiary" -> ByLastId(get_wills_by_beneficiary(q.who, cursor, PageLimit))
      [] q.kind = "triggered"   -> ByLastId(get_triggered_wills(cursor, PageLimit))
      [] q.kind = "status"      ->
            ByLastId(get_wills_by_owner_and_status(q.who, q.status, cursor, PageLimit))
      [] q.kind = "status_page" ->
            LET page == get_owner_status_page(q.who, q.status, cursor, PageLimit)
            IN  [items |-> page.wills, next |-> page.next_cursor]
      [] q.kind = "trail"       ->
            LET page == get_will_history_page(q.who, cursor, PageLimit)
            IN  [items |-> [i \in DOMAIN page |-> page[i].seq],
                 next  |-> IF Len(page) < PageLimit THEN NoCursor ELSE cursor + PageLimit]

ReadPage(q) ==
    /\ walk = NoWalk \/ (walk.query = q /\ ~walk.done)
    /\ \E page \in {Page(q, walk.cursor)} :
        walk' = [query  |-> q,
                 cursor |-> page.next,
                 seen   |-> walk.seen \o page.items,
                 owed   |-> IF walk = NoWalk THEN Standing(q) ELSE walk.owed,
                 done   |-> page.next = NoCursor]
    /\ UNCHANGED <<vars, ordered, trail>>

----------------------------------------------------------------------------
(* The contract's calls *)

Changed == {id \in DOMAIN wills' : id \notin DOMAIN wills
                                   \/ wills'[id].status # wills[id].status}

\* The lists follow the indexes, each will of `recorded` gets the entry that
\* is now its newest, and an archived will's trail goes.  A client on its way
\* is owed only what still stands; a finished walk is history.
CarryAlong(recorded) ==
    /\ owner_list' = [a \in Accounts |-> Followed(owner_list[a], owner_wills'[a])]
    /\ beneficiary_list' =
            [a \in Accounts |-> Followed(beneficiary_list[a], beneficiary_wills'[a])]
    /\ triggered_list' = Followed(triggered_list, triggered_wills')
    /\ trail' = [id \in DOMAIN wills' |->
            LET old == IF id \in DOMAIN trail THEN trail[id] ELSE EmptyTrail
            IN  IF id \in recorded THEN append_history(old, history'[id]) ELSE old]
    /\ SumFunction([id \in DOMAIN trail' |-> trail'[id].seq]) <= MaxRecords
    /\ \E q \in {walk.query} :
        walk' = IF walk.done THEN NoWalk ELSE [walk EXCEPT !.owed = @ \cap Standing(q)']

\* The entry points that record a transition without a change of status, and
\* all the others: those record what they change the status of.
Calls ==
    \/ \E ids \in SUBSET DOMAIN wills : (SignOfLife(ids) \/ Merging(ids)) /\ CarryAlong(ids)
    \/ /\ \/ OwnerNext \/ AnyoneNext \/ GuardianNext \/ AppointNext
          \/ EstateOwnerNext \/ EstateHeirNext \/ MultiplyNext \/ Tick
       /\ CarryAlong(Changed)

ReadsInit ==
    /\ LifecycleInit
    /\ owner_list = [a \in Accounts |-> << >>]
    /\ beneficiary_list = [a \in Accounts |-> << >>]
    /\ triggered_list = << >>
    /\ trail = << >>
    /\ walk = NoWalk

ReadsNext == Calls \/ \E q \in Queries : ReadPage(q)

ReadsSpec == ReadsInit /\ [][ReadsNext]_read_vars
=============================================================================
