---------------------------- MODULE IndexPaging ----------------------------
(***************************************************************************)
(* The id lists behind the owner, beneficiary and triggered indexes as the *)
(* vectors they are, and the pages read from them.  A cursor is a will id, *)
(* and a page holds the ids above it; NoCursor stands for Option::None,    *)
(* which every reader treats like 0.                                       *)
(***************************************************************************)
EXTENDS Integers, Sequences, SequencesExt

CONSTANT MAX_PAGE_SIZE

ASSUME PageAssumption == MAX_PAGE_SIZE \in Nat \ {0}

NoCursor == 0
PageSize(limit) == Min({limit, MAX_PAGE_SIZE})
FirstFew(ids, n) == SubSeq(ids, 1, Min({n, Len(ids)}))

\* The entries of ids that are in S, in their order.
Those(ids, S) ==
    LET upto[n \in 0..Len(ids)] ==
            IF n = 0 THEN << >>
            ELSE IF ids[n] \in S THEN Append(upto[n - 1], ids[n])
            ELSE upto[n - 1]
    IN  upto[Len(ids)]

Above(ids, cursor) == Those(ids, {id \in ToSet(ids) : id > cursor})

index_push(ids, id) == IF Contains(ids, id) THEN ids ELSE Append(ids, id)

\* Faulty: the last id takes the place of the one removed.
index_swap_remove(ids, id) ==
    IF ~Contains(ids, id) THEN ids
    ELSE Front([i \in DOMAIN ids |-> IF ids[i] = id THEN Last(ids) ELSE ids[i]])

\* Order-preserving, as in all three removal helpers.
index_remove(ids, id) == Those(ids, ToSet(ids) \ {id})

\* The list once exactly the ids of `members` are on it: those no longer among
\* them removed, new ones pushed in the order they were allocated.
Followed(ids, members) ==
    LET last == Max(ToSet(ids) \cup members \cup {0})
        upto[n \in 0..last] ==
            IF n = 0 THEN ids
            ELSE IF n \in members THEN index_push(upto[n - 1], n)
            ELSE index_remove(upto[n - 1], n)
    IN  upto[last]

\* Faulty: the cursor's own id comes again.
paginate_ids_inclusive(ids, cursor, limit) ==
    FirstFew(Above(ids, cursor - 1), PageSize(limit))

\* A cursor at or beyond the last id of the list yields an empty page.
paginate_ids(ids, cursor, limit) ==
    IF ids = << >> \/ cursor >= Last(ids)
    THEN << >>
    ELSE FirstFew(Above(ids, cursor), PageSize(limit))
=============================================================================
