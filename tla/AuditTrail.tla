----------------------------- MODULE AuditTrail -----------------------------
(***************************************************************************)
(* The retained history of one will: an entry is numbered when it is       *)
(* appended, the oldest ones are dropped beyond MAX_HISTORY_ENTRIES, and   *)
(* pages are cut by position.  Timestamp, actor and reason of an entry are *)
(* left out; the number `seq` is what tells entries apart.                 *)
(***************************************************************************)
EXTENDS IndexPaging

CONSTANT MAX_HISTORY_ENTRIES

ASSUME TrailAssumption == MAX_HISTORY_ENTRIES \in Nat \ {0}

EmptyTrail == [seq |-> 0, entries |-> << >>]

\* Faulty: entries are numbered by their position.
next_history_position(trail) == Len(trail.entries) + 1

next_history_seq(trail) == trail.seq + 1

\* Faulty: nothing is dropped.
Trimmed_forgotten(entries) == entries

Trimmed(entries) ==
    IF Len(entries) <= MAX_HISTORY_ENTRIES
    THEN entries
    ELSE SubSeq(entries, Len(entries) - MAX_HISTORY_ENTRIES + 1, Len(entries))

append_history(trail, transition) ==
    LET seq   == next_history_seq(trail)
        entry == [seq |-> seq, from |-> transition.from, to |-> transition.to]
    IN  [seq |-> seq, entries |-> Trimmed(Append(trail.entries, entry))]

\* Oldest first, starting behind the first `offset` entries retained now.
paginate_history(entries, offset, limit) ==
    SubSeq(entries, offset + 1, Min({offset + PageSize(limit), Len(entries)}))
=============================================================================
