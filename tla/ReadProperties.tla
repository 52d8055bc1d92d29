--------------------------- MODULE ReadProperties ---------------------------
(***************************************************************************)
(* What clients may rely on when they page through the listings and the    *)
(* trails while the contract goes on being called.                         *)
(***************************************************************************)
EXTENDS WillReads

\* docs/PAGINATION_CONSISTENCY.md: no entry is repeated on a later page.  The
\* ids of one walk, or the numbers of the trail entries it read, go up strictly,
\* whatever is created, removed, retriggered or trimmed between two pages.
WalkNeverRepeats ==
    \A i, j \in DOMAIN walk.seen : i < j => walk.seen[i] < walk.seen[j]

Gapless(seen) == \A i \in 1..(Len(seen) - 1) : seen[i + 1] = seen[i] + 1

\* docs/PAGINATION_CONSISTENCY.md: nothing still present is skipped.  A client
\* that has reached the last page has seen every will that stood in the listing
\* during the whole walk.  A walk through a trail may lose its place when the
\* trail is trimmed, but then the numbers it has seen show the gap.
FinishedWalkMissesNothing ==
    (walk.done /\ (walk.query.kind = "trail" => Gapless(walk.seen)))
        => walk.owed \subseteq ToSet(walk.seen)

\* The retained trail of a will is the newest part of everything recorded about
\* it: numbered without gaps up to the counter, no longer than the limit and no
\* shorter than it must be, each entry starting in the status the one before
\* ended in, the last one ending in the status the will has.
TrailIsNewestWindow ==
    /\ DOMAIN trail = DOMAIN wills
    /\ \A id \in DOMAIN trail :
        LET entries == trail[id].entries
            last    == trail[id].seq
            kept    == Min({last, MAX_HISTORY_ENTRIES})
        IN  /\ Len(entries) = kept
            /\ \A i \in 1..kept : entries[i].seq = last - kept + i
            /\ \A i \in 1..(kept - 1) : entries[i + 1].from = entries[i].to
            /\ entries[kept].to = wills[id].status

\* types.rs: `seq` is unique per will and never changes once assigned.  Two reads
\* of a will's trail, however far apart, never show two different entries under
\* one number, and an entry that is gone does not come back.
EntriesNeverRewritten ==
    [][\A id \in DOMAIN trail \cap DOMAIN trail' :
        /\ trail[id].seq <= trail'[id].seq
        /\ \A e \in ToSet(trail'[id].entries) :
            e \in ToSet(trail[id].entries) \/ e.seq > trail[id].seq]_read_vars
=============================================================================
