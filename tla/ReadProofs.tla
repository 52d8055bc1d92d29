----------------------------- MODULE ReadProofs -----------------------------
(***************************************************************************)
(* What clients find who page through the contract, for any page size, any *)
(* retention limit and any number of wills and calls.  First the trails: a *)
(* trail is the newest window of all transitions, and its entries keep     *)
(* their numbers.  Then the walks: the ordered lists of owners and heirs   *)
(* stay in the order of the numbers (FollowedFact, StepFresh), a page of   *)
(* such a list, or of a trail, leaves nothing out up to its last item      *)
(* (CutServed, TrailPage), and so every walk on its way has all it is owed *)
(* up to its cursor (WalkOn, TrailWalkOn, CallKeeps).                      *)
(***************************************************************************)
EXTENDS EstateProofs, ReadProperties, SequenceTheorems

Entry == [seq : Nat, from : WillStatus, to : WillStatus]

\* A trail t of a will whose newest transition ended in `status`.
Window(t, status) ==
    /\ t.seq \in Nat
    /\ t.entries \in Seq(Entry)
    /\ Len(t.entries) = Min({t.seq, MAX_HISTORY_ENTRIES})
    /\ \A i \in 1..Len(t.entries) : t.entries[i].seq = t.seq - Len(t.entries) + i
    /\ \A i \in 1..(Len(t.entries) - 1) : t.entries[i + 1].from = t.entries[i].to
    /\ t.seq > 0 => t.entries[Len(t.entries)].to = status

ReadsInv ==
    /\ LifecycleInv
    /\ DOMAIN trail = DOMAIN wills
    /\ \A id \in DOMAIN trail : trail[id].seq > 0 /\ Window(trail[id], history[id].to)

----------------------------------------------------------------------------
(* One more entry *)

LEMMA Smaller ==
    ASSUME NEW m \in Nat, NEW n \in Nat
    PROVE  /\ m <= n => Min({m, n}) = m
           /\ n <= m => Min({m, n}) = n
BY DEF Min

LEMMA NothingYet == \A status : Window(EmptyTrail, status)
<1>1. Min({0, MAX_HISTORY_ENTRIES}) = 0
    BY Smaller, TrailAssumption
<1>2. /\ EmptyTrail.seq = 0
      /\ EmptyTrail.entries \in Seq(Entry) /\ Len(EmptyTrail.entries) = 0
    BY DEF EmptyTrail
<1> QED  BY <1>1, <1>2 DEF Window

\* What Trimmed leaves of a window with one entry more: at most the first goes.
LEMMA TrimmedFact ==
    ASSUME NEW long \in Seq(Entry), NEW n \in Nat, NEW out, out = Trimmed(long),
           Len(long) = Min({n, MAX_HISTORY_ENTRIES}) + 1
    PROVE  /\ out \in Seq(Entry)
           /\ Len(out) = Min({n + 1, MAX_HISTORY_ENTRIES})
           /\ Len(out) \in Nat \ {0} /\ Len(out) <= Len(long)
           /\ \A i \in 1..Len(out) : out[i] = long[i + (Len(long) - Len(out))]
<1>1. MAX_HISTORY_ENTRIES \in Nat \ {0} /\ n + 1 \in Nat
    BY TrailAssumption
<1>2. CASE n < MAX_HISTORY_ENTRIES
    <2>1. Min({n, MAX_HISTORY_ENTRIES}) = n /\ Min({n + 1, MAX_HISTORY_ENTRIES}) = n + 1
        BY <1>1, <1>2, Smaller
    <2>2. Len(long) = n + 1
        BY <2>1
    <2>3. out = long
        BY <1>1, <1>2, <2>2 DEF Trimmed
    <2>4. \A i \in 1..(n + 1) : i + ((n + 1) - (n + 1)) = i
        OBVIOUS
    <2>5. \A i \in 1..Len(out) : out[i] = long[i + (Len(long) - Len(out))]
        BY <2>2, <2>3, <2>4
    <2>6. Len(out) \in Nat \ {0} /\ Len(out) <= Len(long)
        BY <1>1, <2>2, <2>3
    <2> QED  BY <2>1, <2>2, <2>3, <2>5, <2>6
<1>3. CASE n >= MAX_HISTORY_ENTRIES
    <2> DEFINE K == MAX_HISTORY_ENTRIES
    <2>1. Min({n, K}) = K /\ Min({n + 1, K}) = K
        BY <1>1, <1>3, Smaller
    <2>2. Len(long) = K + 1
        BY <2>1
    <2>3. out = SubSeq(long, 2, K + 1)
        <3>1. (K + 1) - K + 1 = 2 /\ ~(K + 1 <= K)
            BY <1>1
        <3> QED  BY <2>2, <3>1 DEF Trimmed
    <2>4. K \in Nat /\ K > 0
        BY <1>1
    <2> HIDE DEF K
    <2>5. /\ SubSeq(long, 2, K + 1) \in Seq(Entry)
          /\ Len(SubSeq(long, 2, K + 1)) = K
          /\ \A i \in 1..K : SubSeq(long, 2, K + 1)[i] = long[i + 1]
        BY <2>2, <2>4
    <2> USE DEF K
    <2>7. out \in Seq(Entry) /\ Len(out) = K /\ \A i \in 1..K : out[i] = long[i + 1]
        BY <2>3, <2>5
    <2>8. ASSUME NEW i \in 1..K
          PROVE  out[i] = long[i + ((K + 1) - K)]
        <3>1. i + 1 = i + ((K + 1) - K)
            BY <1>1
        <3> QED  BY <2>7, <3>1
    <2>9. \A i \in 1..Len(out) : out[i] = long[i + (Len(long) - Len(out))]
        BY <2>2, <2>7, <2>8
    <2>10. Len(out) \in Nat \ {0} /\ Len(out) <= Len(long)
        BY <1>1, <2>2, <2>7
    <2> QED  BY <2>1, <2>7, <2>9, <2>10
<1>4. n < MAX_HISTORY_ENTRIES \/ n >= MAX_HISTORY_ENTRIES
    BY <1>1
<1> QED  BY <1>2, <1>3, <1>4

LEMMA AppendedWindow ==
    ASSUME NEW t, NEW h, Window(t, h.from), h.from \in WillStatus, h.to \in WillStatus,
           NEW u, u = append_history(t, h)
    PROVE  /\ Window(u, h.to)
           /\ u.seq = t.seq + 1
           /\ \A x \in ToSet(u.entries) : x \in ToSet(t.entries) \/ x.seq > t.seq
<1> DEFINE es   == t.entries
           e    == [seq |-> t.seq + 1, from |-> h.from, to |-> h.to]
           long == Append(es, e)
           out  == Trimmed(long)
           d    == Len(long) - Len(out)
<1>1. u.seq = t.seq + 1 /\ u.entries = out
    BY DEF append_history, next_history_seq
<1>2. /\ t.seq \in Nat /\ es \in Seq(Entry)
      /\ Len(es) = Min({t.seq, MAX_HISTORY_ENTRIES})
      /\ \A i \in 1..Len(es) : es[i].seq = t.seq - Len(es) + i
      /\ \A i \in 1..(Len(es) - 1) : es[i + 1].from = es[i].to
      /\ t.seq > 0 => es[Len(es)].to = h.from
    BY DEF Window
<1>3. e \in Entry /\ e.seq = t.seq + 1 /\ e.from = h.from /\ e.to = h.to
    BY <1>2 DEF Entry
<1> HIDE DEF e, es
<1>4. /\ long \in Seq(Entry) /\ Len(long) = Len(es) + 1
      /\ \A i \in 1..Len(es) : long[i] = es[i]
      /\ long[Len(es) + 1] = e
    <2>1. es \in Seq(Entry) /\ e \in Entry
        BY <1>2, <1>3
    <2> QED  BY ONLY <2>1, AppendProperties
<1>5. Len(es) \in Nat
    BY <1>2, LenProperties
<1>18. DOMAIN es = 1..Len(es)
    BY <1>2, LenProperties
<1> HIDE DEF long
<1>6. ASSUME NEW i \in 1..Len(long)
      PROVE  long[i].seq = t.seq - Len(es) + i
    <2>1. CASE i \in 1..Len(es)
        BY <1>2, <1>4, <2>1
    <2>2. CASE i = Len(es) + 1
        BY <1>2, <1>3, <1>4, <1>5, <2>2
    <2> QED  BY <1>4, <1>5, <2>1, <2>2
<1>7. \A i \in 1..(Len(long) - 1) : long[i + 1].from = long[i].to
    <2> SUFFICES ASSUME NEW i \in 1..Len(es)
                 PROVE  long[i + 1].from = long[i].to
        BY <1>4, <1>5
    <2>1. CASE i = Len(es)
        <3>1. t.seq > 0
            <4> SUFFICES ASSUME t.seq = 0 PROVE FALSE
                BY <1>2
            <4>1. Min({t.seq, MAX_HISTORY_ENTRIES}) = 0
                BY <1>2, Smaller, TrailAssumption
            <4> QED  BY <1>2, <1>5, <4>1
        <3> QED  BY <1>2, <1>3, <1>4, <1>5, <2>1, <3>1
    <2>2. CASE i # Len(es)
        <3>1. i \in 1..(Len(es) - 1) /\ i + 1 \in 1..Len(es)
            BY <1>5, <2>2
        <3> QED  BY <1>2, <1>4, <3>1
    <2> QED  BY <2>1, <2>2
<1>17. out = Trimmed(long)
    OBVIOUS
<1> HIDE DEF out
<1>8. /\ out \in Seq(Entry)
      /\ Len(out) = Min({t.seq + 1, MAX_HISTORY_ENTRIES})
      /\ Len(out) \in Nat \ {0} /\ Len(out) <= Len(long)
      /\ \A i \in 1..Len(out) : out[i] = long[i + d]
    <2>1. Len(long) = Min({t.seq, MAX_HISTORY_ENTRIES}) + 1
        BY <1>2, <1>4
    <2>2. t.seq \in Nat /\ long \in Seq(Entry)
        BY <1>2, <1>4
    <2> QED  BY <1>17, <2>1, <2>2, TrimmedFact
<1>9. d \in Nat /\ Len(out) \in Nat /\ Len(out) + d = Len(es) + 1
    BY <1>4, <1>5, <1>8
<1>10. DOMAIN out = 1..Len(out)
    BY <1>8, LenProperties
<1> HIDE DEF d
<1>11. \A i \in 1..Len(out) : i + d \in 1..Len(long) /\ out[i] = long[i + d]
    <2> SUFFICES ASSUME NEW i \in 1..Len(out)
                 PROVE  i + d \in 1..Len(long) /\ out[i] = long[i + d]
        OBVIOUS
    <2>1. Len(long) = Len(es) + 1
        BY <1>4
    <2>2. i + d \in 1..Len(long)
        BY <1>5, <1>9, <2>1
    <2>3. out[i] = long[i + d]
        BY <1>8
    <2> QED  BY <2>2, <2>3
<1>12. \A i \in 1..Len(out) : out[i].seq = (t.seq + 1) - Len(out) + i
    <2> SUFFICES ASSUME NEW i \in 1..Len(out)
                 PROVE  out[i].seq = (t.seq + 1) - Len(out) + i
        OBVIOUS
    <2>1. out[i].seq = t.seq - Len(es) + (i + d)
        BY <1>6, <1>11
    <2>2. t.seq \in Nat
        BY <1>2
    <2>3. t.seq - Len(es) + (i + d) = (t.seq + 1) - Len(out) + i
        <3>1. i \in Nat
            BY <1>9
        <3> QED  BY ONLY <1>5, <1>9, <2>2, <3>1
    <2> QED  BY <2>1, <2>3
<1>13. \A i \in 1..(Len(out) - 1) : out[i + 1].from = out[i].to
    <2> SUFFICES ASSUME NEW i \in 1..(Len(out) - 1)
                 PROVE  out[i + 1].from = out[i].to
        OBVIOUS
    <2>1. i \in 1..Len(out) /\ i + 1 \in 1..Len(out)
        BY <1>8
    <2>2. i + d \in 1..(Len(long) - 1) /\ (i + 1) + d = (i + d) + 1
        BY <1>4, <1>5, <1>8, <1>9
    <2>3. out[i] = long[i + d] /\ out[i + 1] = long[(i + d) + 1]
        BY <1>11, <2>1, <2>2
    <2> QED  BY <1>7, <2>2, <2>3
<1>14. out[Len(out)].to = h.to
    <2>1. Len(out) \in 1..Len(out)
        BY <1>8
    <2> QED  BY <1>3, <1>4, <1>9, <1>11, <2>1
<1>15. Window(u, h.to)
    <2>1. u.seq \in Nat
        BY <1>1, <1>2
    <2>2. Len(u.entries) = Min({u.seq, MAX_HISTORY_ENTRIES}) /\ u.entries \in Seq(Entry)
        BY <1>1, <1>8
    <2>3. \A i \in 1..Len(u.entries) : u.entries[i].seq = u.seq - Len(u.entries) + i
        BY <1>1, <1>12
    <2>4. \A i \in 1..(Len(u.entries) - 1) : u.entries[i + 1].from = u.entries[i].to
        BY <1>1, <1>13
    <2>5. u.entries[Len(u.entries)].to = h.to
        BY <1>1, <1>14
    <2> QED  BY <2>1, <2>2, <2>3, <2>4, <2>5 DEF Window
<1>16. ASSUME NEW x \in ToSet(out)
       PROVE  x \in ToSet(es) \/ x.seq > t.seq
    <2>1. PICK i \in 1..Len(out) : x = out[i]
        BY <1>10 DEF ToSet
    <2>2. i + d \in 1..Len(long) /\ x = long[i + d]
        BY <1>11, <2>1
    <2>3. CASE i + d \in 1..Len(es)
        <3>1. x = es[i + d]
            BY <1>4, <2>2, <2>3
        <3> QED  BY <1>18, <2>3, <3>1 DEF ToSet
    <2>4. CASE i + d = Len(es) + 1
        BY <1>2, <1>3, <1>4, <2>2, <2>4
    <2> QED  BY <1>4, <1>5, <2>2, <2>3, <2>4
<1> QED  BY <1>1, <1>15, <1>16 DEF es

----------------------------------------------------------------------------
(* What calls record *)

\* The newest entries of exactly the wills of `recorded` may be new, and those
\* start in the status the will had.
HonestRecord(recorded) ==
    \A id \in DOMAIN history' :
        IF id \in recorded
        THEN /\ history'[id].from \in WillStatus
             /\ id \in DOMAIN history => history'[id].from = history[id].to
        ELSE id \in DOMAIN history /\ history'[id].to = history[id].to

Quiet ==
    /\ DOMAIN history' \subseteq DOMAIN history
    /\ \A id \in DOMAIN history' : history'[id] = history[id]

Noted ==
    \E id, from, to :
        /\ record_transition(id, from, to)
        /\ from \in WillStatus
        /\ id \in DOMAIN wills => from = wills[id].status

\* Of any other will the newest entry stands, so its status does too.
LEMMA StatusOnRecord ==
    ASSUME LifecycleInv
    PROVE  /\ DOMAIN history = DOMAIN wills
           /\ \A id \in DOMAIN wills : /\ history[id].to = wills[id].status
                                       /\ wills[id].status \in WillStatus
BY DEF LifecycleInv, Kept, Shaped

LEMMA QuietIsHonest ==
    ASSUME LifecycleInv, LifecycleInv', Quiet
    PROVE  HonestRecord(Changed)
<1>1. /\ DOMAIN history' = DOMAIN wills'
      /\ \A id \in DOMAIN wills' : history'[id].to = wills'[id].status
    BY DEF LifecycleInv, Kept
<1> QED  BY <1>1, StatusOnRecord DEF Quiet, HonestRecord, Changed

LEMMA NotedIsHonest ==
    ASSUME LifecycleInv, LifecycleInv', Noted
    PROVE  HonestRecord(Changed)
<1>1. /\ DOMAIN history' = DOMAIN wills'
      /\ \A id \in DOMAIN wills' : history'[id].to = wills'[id].status
    BY DEF LifecycleInv, Kept
<1>2. PICK id, from, to : /\ record_transition(id, from, to)
                          /\ from \in WillStatus
                          /\ id \in DOMAIN wills => from = wills[id].status
    BY DEF Noted
<1>3. /\ DOMAIN history' = DOMAIN history \cup {id}
      /\ \A x \in DOMAIN history : x # id => history'[x] = history[x]
      /\ history'[id].from = from
    BY <1>2 DEF record_transition, Put
<1> QED  BY <1>1, <1>2, <1>3, StatusOnRecord DEF HonestRecord, Changed

LEMMA OwnerRecords ==
    ASSUME LifecycleInv, OwnerNext
    PROVE  Quiet \/ Noted
<1> SUFFICES ASSUME NEW owner \in Accounts,
                    \/ \E form \in CreateForms : create_will(owner, form)
                    \/ \E id \in DOMAIN wills :
                        \/ confirm_will(id, owner)
                        \/ \E delegate \in Delegates : set_delegate(id, owner, delegate)
                        \/ \E p \in PeriodUpdates : update_periods(id, owner, p[1], p[2])
                        \/ emergency_checkin(id, owner)
                        \/ cancel_will(id, owner)
                        \/ close_will(id, owner)
             PROVE  Quiet \/ Noted
    BY DEF OwnerNext
<1>1. ASSUME NEW form \in CreateForms, create_will(owner, form)
      PROVE  Noted
    <2> DEFINE id == next_will_id + 1
               w  == NewWill(owner, form)
    <2>1. record_transition(id, w.status, w.status)
        BY <1>1 DEF create_will
    <2>2. w.status \in WillStatus
        BY DEF NewWill, WillStatus
    <2>3. id \notin DOMAIN wills
        BY FreeIds DEF LifecycleInv
    <2> QED  BY <2>1, <2>2, <2>3 DEF Noted
<1>2. ASSUME NEW id \in DOMAIN wills,
             confirm_will(id, owner) \/ emergency_checkin(id, owner) \/ close_will(id, owner)
      PROVE  Noted
    BY <1>2 DEF confirm_will, emergency_checkin, close_will, HasStatus, Noted, WillStatus
<1>3. ASSUME NEW id \in DOMAIN wills, cancel_will(id, owner)
      PROVE  Noted
    BY <1>3, StatusOnRecord DEF cancel_will, Noted
<1>4. ASSUME NEW id \in DOMAIN wills, NEW delegate, NEW checkin, NEW grace,
             set_delegate(id, owner, delegate) \/ update_periods(id, owner, checkin, grace)
      PROVE  Quiet
    BY <1>4 DEF set_delegate, update_periods, Quiet
<1> QED  BY <1>1, <1>2, <1>3, <1>4

LEMMA OthersRecord ==
    ASSUME LifecycleInv, AnyoneNext \/ GuardianNext \/ AppointNext \/ Tick
    PROVE  Quiet \/ Noted
<1>1. CASE AnyoneNext
    BY <1>1 DEF AnyoneNext, trigger_will, release_inheritance, HasStatus, Noted, WillStatus
<1>2. CASE GuardianNext
    <2>1. ASSUME NEW id \in DOMAIN wills, NEW guardian, NEW refused,
                 guardian_trigger(id, guardian, refused)
          PROVE  Quiet \/ Noted
        BY <2>1 DEF guardian_trigger, HasStatus, Quiet, Noted, WillStatus
    <2>2. ASSUME NEW id \in DOMAIN wills, NEW guardian, guardian_cancel_trigger(id, guardian)
          PROVE  Quiet \/ Noted
        BY <2>2 DEF guardian_cancel_trigger, HasStatus, Quiet, Noted, WillStatus
    <2>3. ASSUME NEW id \in DOMAIN wills, NEW guardian,
                 accept_guardian_role(id, guardian) \/ reject_guardian_role(id, guardian)
          PROVE  Quiet
        BY <2>3 DEF accept_guardian_role, reject_guardian_role, Quiet
    <2> QED  BY <1>2, <2>1, <2>2, <2>3 DEF GuardianNext
<1>3. CASE AppointNext
    <2>1. UNCHANGED history
        BY <1>3 DEF AppointNext, update_guardians, update_guardians_weighted, ReplaceGuardians
    <2> QED  BY <2>1 DEF Quiet
<1>4. CASE Tick
    BY <1>4 DEF Tick, Quiet
<1> QED  BY <1>1, <1>2, <1>3, <1>4

LEMMA EstateRecords ==
    ASSUME LifecycleInv, EstateOwnerNext \/ EstateHeirNext
    PROVE  Quiet
<1>1. CASE EstateOwnerNext
    <2>1. ASSUME NEW id \in DOMAIN wills, NEW owner, NEW t, NEW amount,
                 top_up(id, owner, t, amount)
          PROVE  Quiet
        BY <2>1 DEF top_up, Quiet
    <2>2. ASSUME NEW id \in DOMAIN wills, NEW owner, NEW list,
                 update_beneficiaries(id, owner, list)
          PROVE  Quiet
        BY <2>2 DEF update_beneficiaries, Quiet
    <2>3. ASSUME NEW id \in DOMAIN wills, NEW owner, NEW s, update_will_settings(id, owner, s)
          PROVE  Quiet
        BY <2>3 DEF update_will_settings, Quiet
    <2>4. ASSUME NEW id \in DOMAIN wills, NEW owner, NEW h, add_hashed_beneficiary(id, owner, h)
          PROVE  Quiet
        BY <2>4 DEF add_hashed_beneficiary, Quiet
    <2> QED  BY <1>1, <2>1, <2>2, <2>3, <2>4 DEF EstateOwnerNext
<1>2. CASE EstateHeirNext
    <2>1. ASSUME NEW id \in DOMAIN wills, archive_will(id)
          PROVE  Quiet
        BY <2>1 DEF archive_will, Without, Quiet
    <2>2. ASSUME NEW id \in DOMAIN wills, NEW heir, renounce_beneficiary(id, heir)
          PROVE  Quiet
        BY <2>2 DEF renounce_beneficiary, Quiet
    <2>3. ASSUME NEW id \in DOMAIN wills, NEW claimant, NEW salt,
                 reveal_and_claim(id, claimant, salt)
          PROVE  Quiet
        BY <2>3 DEF reveal_and_claim, Quiet
    <2>4. ASSUME NEW id, NEW t, NEW heir, retry_failed_payout(id, t, heir)
          PROVE  Quiet
        BY <2>4 DEF retry_failed_payout, Quiet
    <2> QED  BY <1>2, <2>1, <2>2, <2>3, <2>4 DEF EstateHeirNext
<1> QED  BY <1>1, <1>2

LEMMA BatchRecords ==
    ASSUME LifecycleInv, LifecycleInv', NEW owner, NEW forms \in Batches,
           batch_create_wills(owner, forms)
    PROVE  HonestRecord(Changed)
<1> DEFINE ids == (next_will_id + 1)..(next_will_id + Len(forms))
<1>1. history' = [id \in DOMAIN history \cup ids |->
                    IF id \in ids THEN [from |-> "Active", to |-> "Active"] ELSE history[id]]
    BY DEF batch_create_wills
<1>2. next_will_id \in Nat /\ Len(forms) \in Nat
    BY PortfolioInputsAssumption DEF LifecycleInv
<1>3. ASSUME NEW id \in ids
      PROVE  id \notin DOMAIN wills
    <2>1. id \in Nat /\ next_will_id < id
        BY <1>2
    <2> QED  BY <2>1, FreeIds
<1> HIDE DEF ids
<1>4. /\ DOMAIN history' = DOMAIN wills'
      /\ \A id \in DOMAIN wills' : history'[id].to = wills'[id].status
    BY DEF LifecycleInv, Kept
<1>5. /\ DOMAIN history' = DOMAIN wills \cup ids
      /\ \A id \in ids : history'[id].from = "Active"
      /\ \A id \in DOMAIN wills : history'[id] = history[id]
    BY <1>1, <1>3, StatusOnRecord
<1> QED  BY <1>3, <1>4, <1>5, StatusOnRecord DEF HonestRecord, Changed, WillStatus

LEMMA MultiplyRecords ==
    ASSUME LifecycleInv, LifecycleInv', MultiplyNext
    PROVE  HonestRecord(Changed)
<1>1. ASSUME NEW owner, NEW source, NEW tokens, clone_will(source, owner, tokens)
      PROVE  Noted
    <2>1. record_transition(next_will_id + 1, "Active", "Active")
        BY <1>1 DEF clone_will
    <2> QED  BY <2>1, FreeIds DEF Noted, LifecycleInv, WillStatus
<1>2. ASSUME NEW owner, NEW id, NEW split, split_will(id, owner, split)
      PROVE  Noted
    <2>1. record_transition(next_will_id + 1, "Active", "Active")
        BY <1>2 DEF split_will
    <2> QED  BY <2>1, FreeIds DEF Noted, LifecycleInv, WillStatus
<1>3. repair_protocol_stats => Quiet
    BY DEF repair_protocol_stats, Quiet
<1> QED  BY <1>1, <1>2, <1>3, BatchRecords, NotedIsHonest, QuietIsHonest DEF MultiplyNext

\* A check-in and a merge record a transition of each will they name, although
\* only the merge changes a status.
LEMMA NamedRecords ==
    ASSUME LifecycleInv, NEW ids \in SUBSET DOMAIN wills, SignOfLife(ids) \/ Merging(ids)
    PROVE  HonestRecord(ids)
<1>1. ASSUME NEW id \in DOMAIN wills, NEW caller, ids = {id}, check_in(id, caller)
      PROVE  HonestRecord(ids)
    <2>1. record_transition(id, "Active", "Active") /\ wills[id].status = "Active"
        BY <1>1 DEF check_in, HasStatus
    <2>2. /\ DOMAIN history' = DOMAIN history \cup {id}
          /\ \A x \in DOMAIN history : x # id => history'[x] = history[x]
          /\ history'[id].from = "Active"
        BY <2>1 DEF record_transition, Put
    <2> QED  BY <1>1, <2>1, <2>2, StatusOnRecord DEF HonestRecord
<1>2. ASSUME NEW owner, batch_check_in(owner, ids)
      PROVE  HonestRecord(ids)
    <2>1. /\ history' = [id \in DOMAIN history \cup ids |->
                            IF id \in ids THEN [from |-> "Active", to |-> "Active"]
                                          ELSE history[id]]
          /\ \A id \in ids : wills[id].status = "Active"
        BY <1>2 DEF batch_check_in, CheckedIn, HasStatus
    <2>2. /\ DOMAIN history' = DOMAIN history \cup ids
          /\ \A x \in DOMAIN history : x \notin ids => history'[x] = history[x]
          /\ \A x \in ids : history'[x].from = "Active"
        BY <2>1
    <2> QED  BY <2>1, <2>2, StatusOnRecord DEF HonestRecord
<1>3. ASSUME NEW owner, NEW a \in DOMAIN wills, NEW b \in DOMAIN wills, ids = {a, b},
             merge_wills(owner, a, b)
      PROVE  HonestRecord(ids)
    <2>1. /\ history' = Put(Put(history, b, [from |-> "Active", to |-> "Cancelled"]),
                            a, [from |-> "Active", to |-> "Active"])
          /\ a # b /\ wills[a].status = "Active" /\ wills[b].status = "Active"
        BY <1>3 DEF merge_wills, HasStatus
    <2>2. /\ DOMAIN history' = DOMAIN history \cup {a, b}
          /\ \A x \in DOMAIN history : x \notin {a, b} => history'[x] = history[x]
          /\ history'[a].from = "Active" /\ history'[b].from = "Active"
        BY <2>1 DEF Put
    <2> QED  BY <1>3, <2>1, <2>2, StatusOnRecord DEF HonestRecord
<1> QED  BY <1>1, <1>2, <1>3 DEF SignOfLife, Merging

----------------------------------------------------------------------------
(* Every step *)

\* What two reads of a trail may show.
Unrewritten ==
    \A id \in DOMAIN trail \cap DOMAIN trail' :
        /\ trail[id].seq <= trail'[id].seq
        /\ \A e \in ToSet(trail'[id].entries) :
            e \in ToSet(trail[id].entries) \/ e.seq > trail[id].seq

LEMMA CarriedAlong ==
    ASSUME ReadsInv, LifecycleInv', NEW recorded, HonestRecord(recorded), CarryAlong(recorded)
    PROVE  ReadsInv' /\ Unrewritten
<1>1. trail' = [id \in DOMAIN wills' |->
                LET old == IF id \in DOMAIN trail THEN trail[id] ELSE EmptyTrail
                IN  IF id \in recorded THEN append_history(old, history'[id]) ELSE old]
    BY DEF CarryAlong
<1>2. /\ DOMAIN trail' = DOMAIN wills' /\ DOMAIN history' = DOMAIN wills'
      /\ DOMAIN trail = DOMAIN wills /\ DOMAIN history = DOMAIN wills
    BY <1>1 DEF ReadsInv, LifecycleInv
<1>3. ASSUME NEW id \in DOMAIN wills'
      PROVE  /\ trail'[id].seq > 0 /\ Window(trail'[id], history'[id].to)
             /\ id \in DOMAIN trail =>
                    /\ trail[id].seq <= trail'[id].seq
                    /\ \A e \in ToSet(trail'[id].entries) :
                        e \in ToSet(trail[id].entries) \/ e.seq > trail[id].seq
    <2>1. CASE id \in recorded
        <3> DEFINE old == IF id \in DOMAIN trail THEN trail[id] ELSE EmptyTrail
        <3>1. trail'[id] = append_history(old, history'[id])
            BY <1>1, <2>1
        <3>2. history'[id].from \in WillStatus /\ history'[id].to \in WillStatus
            BY <1>2, <2>1 DEF HonestRecord, LifecycleInv, Kept, Shaped
        <3>3. Window(old, history'[id].from)
            <4>1. CASE id \in DOMAIN trail
                <5>1. history'[id].from = history[id].to
                    BY <1>2, <2>1, <4>1 DEF HonestRecord
                <5> QED  BY <4>1, <5>1 DEF ReadsInv
            <4>2. CASE id \notin DOMAIN trail
                BY <4>2, NothingYet
            <4> QED  BY <4>1, <4>2
        <3>4. old.seq \in Nat /\ (id \in DOMAIN trail => old = trail[id])
            BY <3>3 DEF Window
        <3> HIDE DEF old
        <3>5. /\ Window(trail'[id], history'[id].to)
              /\ trail'[id].seq = old.seq + 1
              /\ \A e \in ToSet(trail'[id].entries) : e \in ToSet(old.entries) \/ e.seq > old.seq
            BY <3>1, <3>2, <3>3, AppendedWindow
        <3> QED  BY <3>4, <3>5
    <2>2. CASE id \notin recorded
        <3>1. id \in DOMAIN trail /\ trail'[id] = trail[id] /\ history'[id].to = history[id].to
            BY <1>1, <1>2, <2>2 DEF HonestRecord
        <3>2. trail[id].seq > 0 /\ Window(trail[id], history[id].to)
            BY <1>2, <3>1 DEF ReadsInv
        <3>3. trail[id].seq <= trail[id].seq
            <4>1. trail[id].seq \in Nat
                BY <3>2 DEF Window
            <4> QED  BY <4>1
        <3> QED  BY <3>1, <3>2, <3>3
    <2> QED  BY <2>1, <2>2
<1>4. ReadsInv'
    BY <1>2, <1>3 DEF ReadsInv
<1> QED  BY <1>2, <1>3, <1>4 DEF Unrewritten

LEMMA ReadsStep ==
    ASSUME ReadsInv, [ReadsNext]_read_vars
    PROVE  ReadsInv' /\ [Unrewritten]_read_vars
<1>1. CASE Calls
    <2>1. PortfolioNext
        BY <1>1 DEF Calls, PortfolioNext, EstateNext, QuorumNext, LifecycleNext, PortfolioOnlyNext
    <2>2. LifecycleInv'
        BY <2>1, ContractStepKeeps DEF ReadsInv
    <2>3. CASE \E ids \in SUBSET DOMAIN wills :
                    (SignOfLife(ids) \/ Merging(ids)) /\ CarryAlong(ids)
        BY <2>2, <2>3, NamedRecords, CarriedAlong DEF ReadsInv
    <2>4. CASE /\ \/ OwnerNext \/ AnyoneNext \/ GuardianNext \/ AppointNext
                  \/ EstateOwnerNext \/ EstateHeirNext \/ MultiplyNext \/ Tick
               /\ CarryAlong(Changed)
        <3>1. HonestRecord(Changed)
            BY <2>2, <2>4, OwnerRecords, OthersRecord, EstateRecords, MultiplyRecords,
               QuietIsHonest, NotedIsHonest DEF ReadsInv
        <3> QED  BY <2>2, <2>4, <3>1, CarriedAlong
    <2> QED  BY <1>1, <2>3, <2>4 DEF Calls
<1>2. CASE \E q \in Queries : ReadPage(q)
    <2>1. UNCHANGED <<vars, trail>>
        BY <1>2 DEF ReadPage
    <2>2. LifecycleInv'
        BY <2>1, ContractStepKeeps DEF ReadsInv
    <2>3. UNCHANGED <<wills, history, trail>>
        BY <2>1 DEF vars
    <2>4. ReadsInv'
        BY <2>2, <2>3 DEF ReadsInv
    <2>5. Unrewritten
        <3>1. SUFFICES ASSUME NEW id \in DOMAIN trail
                       PROVE  trail[id].seq <= trail[id].seq
            BY <2>3 DEF Unrewritten
        <3>2. Window(trail[id], history[id].to)
            BY DEF ReadsInv
        <3>3. trail[id].seq \in Nat
            BY <3>2 DEF Window
        <3> QED  BY <3>3
    <2> QED  BY <2>4, <2>5
<1>3. CASE UNCHANGED read_vars
    <2>1. UNCHANGED <<vars, trail>>
        BY <1>3 DEF read_vars
    <2>2. LifecycleInv'
        BY <2>1, ContractStepKeeps DEF ReadsInv
    <2>3. UNCHANGED <<wills, history, trail>>
        BY <2>1 DEF vars
    <2> QED  BY <1>3, <2>2, <2>3 DEF ReadsInv
<1> QED  BY <1>1, <1>2, <1>3 DEF ReadsNext

LEMMA NobodyHasCalled == ReadsInit => ReadsInv
BY InitEstablishes DEF ReadsInit, ReadsInv, LifecycleInit, StorageInit

\* Every trail is kept in step with the newest entry of its will, however the
\* calls and the readers interleave.
THEOREM ReadsInvariantHolds == ReadsSpec => []ReadsInv
<1>1. ReadsInv /\ [ReadsNext]_read_vars => ReadsInv'
    BY ReadsStep
<1> QED  BY <1>1, NobodyHasCalled, PTL DEF ReadsSpec

\* What a reader finds of a trail is its newest part, without gaps, each entry
\* starting where the one before ended (append_history, its retention limit, and
\* the from-status every entry point passes to record_transition by hand).
THEOREM TrailsAreWindows == ReadsSpec => []TrailIsNewestWindow
<1>1. ReadsInv => TrailIsNewestWindow
    <2> SUFFICES ASSUME ReadsInv
                 PROVE  TrailIsNewestWindow
        OBVIOUS
    <2>1. ASSUME NEW id \in DOMAIN trail
          PROVE  /\ Len(trail[id].entries) = Min({trail[id].seq, MAX_HISTORY_ENTRIES})
                 /\ \A i \in 1..Len(trail[id].entries) :
                        trail[id].entries[i].seq = trail[id].seq - Len(trail[id].entries) + i
                 /\ \A i \in 1..(Len(trail[id].entries) - 1) :
                        trail[id].entries[i + 1].from = trail[id].entries[i].to
                 /\ trail[id].entries[Len(trail[id].entries)].to = wills[id].status
        BY StatusOnRecord DEF ReadsInv, Window
    <2> QED  BY <2>1 DEF TrailIsNewestWindow, ReadsInv
<1> QED  BY <1>1, ReadsInvariantHolds, PTL

\* No number of a trail ever names two entries, and what was trimmed stays gone
\* (the counter next_history_seq outlives the entries).
THEOREM EntriesStand == ReadsSpec => EntriesNeverRewritten
<1>1. ReadsInv /\ [ReadsNext]_read_vars => [Unrewritten]_read_vars
    BY ReadsStep
<1> QED  BY <1>1, ReadsInvariantHolds, PTL DEF ReadsSpec, EntriesNeverRewritten, Unrewritten

----------------------------------------------------------------------------
(* The order of the owner index *)

\* The counter does not go back, new wills get numbers beyond it, and only new wills
\* come onto the list of an owner.
Fresh ==
    /\ next_will_id <= next_will_id'
    /\ \A id \in DOMAIN wills' : id \in DOMAIN wills \/ id > next_will_id
    /\ DOMAIN owner_wills' = Accounts
    /\ \A a \in Accounts : \A id \in owner_wills'[a] :
            id \in owner_wills[a] \/ id \in DOMAIN wills' \ DOMAIN wills

LEMMA NoNewWill ==
    ASSUME LifecycleInv, DOMAIN owner_wills = Accounts, DOMAIN wills' \subseteq DOMAIN wills,
           UNCHANGED next_will_id,
           \/ UNCHANGED owner_wills
           \/ \E S, id : owner_wills' = Unindexed(owner_wills, S, id)
    PROVE  Fresh
<1>1. next_will_id <= next_will_id
    BY DEF LifecycleInv
<1> QED  BY <1>1 DEF Unindexed, Fresh

LEMMA NewWillListed ==
    ASSUME LifecycleInv, DOMAIN owner_wills = Accounts,
           NEW ids, \A id \in ids : id \in Nat /\ next_will_id < id, next_will_id <= next_will_id',
           DOMAIN wills' = DOMAIN wills \cup ids, DOMAIN owner_wills' = Accounts,
           \A a \in Accounts : owner_wills'[a] \subseteq owner_wills[a] \cup ids
    PROVE  Fresh
<1>1. next_will_id \in Nat
    BY DEF LifecycleInv
<1>2. \A id \in ids : id > next_will_id /\ id \notin DOMAIN wills
    BY <1>1, FreeIds
<1> QED  BY <1>2 DEF Fresh

LEMMA OneNewWill ==
    ASSUME LifecycleInv, DOMAIN owner_wills = Accounts, NEW owner,
           next_will_id' = next_will_id + 1,
           DOMAIN wills' = DOMAIN wills \cup {next_will_id + 1},
           owner_wills' = Indexed(owner_wills, {owner}, next_will_id + 1)
    PROVE  Fresh
<1>1. next_will_id \in Nat
    BY DEF LifecycleInv
<1>2. /\ \A id \in {next_will_id + 1} : id \in Nat /\ next_will_id < id
      /\ next_will_id <= next_will_id'
    BY <1>1
<1>3. /\ DOMAIN owner_wills' = Accounts
      /\ \A a \in Accounts : owner_wills'[a] \subseteq owner_wills[a] \cup {next_will_id + 1}
    BY DEF Indexed
<1> QED  BY <1>2, <1>3, NewWillListed

\* A saved will stays where it is.
LEMMA SavedWhere ==
    ASSUME NEW id \in DOMAIN wills, NEW w, wills' = Put(wills, id, w)
    PROVE  DOMAIN wills' \subseteq DOMAIN wills
BY DEF Put

LEMMA OwnerFresh ==
    ASSUME LifecycleInv, DOMAIN owner_wills = Accounts,
           OwnerNext \/ \E ids \in SUBSET DOMAIN wills : SignOfLife(ids)
    PROVE  Fresh
<1>1. ASSUME NEW owner, NEW form, create_will(owner, form)
      PROVE  Fresh
    <2>1. \E w : wills' = Put(wills, next_will_id + 1, w)
        BY <1>1 DEF create_will, save_will, SaveWithVotes
    <2>2. /\ owner_wills' = Indexed(owner_wills, {owner}, next_will_id + 1)
          /\ next_will_id' = next_will_id + 1
        BY <1>1 DEF create_will
    <2>3. DOMAIN wills' = DOMAIN wills \cup {next_will_id + 1}
        BY <2>1 DEF Put
    <2> QED  BY <2>2, <2>3, OneNewWill
<1>2. ASSUME NEW id \in DOMAIN wills, NEW owner, NEW delegate, NEW checkin, NEW grace,
             \/ confirm_will(id, owner) \/ set_delegate(id, owner, delegate)
             \/ update_periods(id, owner, checkin, grace) \/ emergency_checkin(id, owner)
             \/ close_will(id, owner) \/ check_in(id, owner)
      PROVE  Fresh
    <2>1. UNCHANGED <<next_will_id, owner_wills>> /\ \E w : wills' = Put(wills, id, w)
        BY <1>2 DEF confirm_will, set_delegate, update_periods, emergency_checkin, close_will,
                    check_in, OnlyTheWill, indexes, save_will, SaveWithVotes
    <2> QED  BY <2>1, SavedWhere, NoNewWill
<1>3. ASSUME NEW id \in DOMAIN wills, NEW owner, cancel_will(id, owner)
      PROVE  Fresh
    <2>1. /\ UNCHANGED next_will_id
          /\ owner_wills' = Unindexed(owner_wills, {owner}, id)
          /\ \E w : wills' = Put(wills, id, w)
        BY <1>3 DEF cancel_will, save_will, SaveWithVotes
    <2> QED  BY <2>1, SavedWhere, NoNewWill
<1>4. ASSUME NEW ids, NEW owner, batch_check_in(owner, ids)
      PROVE  Fresh
    <2>1. UNCHANGED <<next_will_id, owner_wills>> /\ DOMAIN wills' = DOMAIN wills
        BY <1>4 DEF batch_check_in, CheckedIn, OnlyTheWill, indexes
    <2> QED  BY <2>1, NoNewWill
<1> QED  BY <1>1, <1>2, <1>3, <1>4 DEF OwnerNext, SignOfLife

LEMMA ReleaseFresh ==
    ASSUME LifecycleInv, DOMAIN owner_wills = Accounts, NEW id \in DOMAIN wills,
           NEW w, NEW keeper, NEW refused,
           NEW stats, NEW records, distribute(id, w, keeper, refused, stats, records)
    PROVE  Fresh
<1>1. /\ UNCHANGED next_will_id
      /\ owner_wills' = Unindexed(owner_wills, {w.owner}, id)
      /\ \E v : wills' = Put(wills, id, v)
    BY Zenon DEF distribute, SaveWithVotes
<1> QED  BY <1>1, SavedWhere, NoNewWill

LEMMA OthersFresh ==
    ASSUME LifecycleInv, DOMAIN owner_wills = Accounts,
           AnyoneNext \/ Tick \/ UNCHANGED vars \/ GuardianNext \/ AppointNext
    PROVE  Fresh
<1>1. ASSUME NEW id \in DOMAIN wills, NEW keeper, NEW refused,
             release_inheritance(id, keeper, refused)
      PROVE  Fresh
    BY <1>1, ReleaseFresh DEF release_inheritance
<1>2. ASSUME NEW id \in DOMAIN wills, trigger_will(id)
      PROVE  Fresh
    <2>1. UNCHANGED <<next_will_id, owner_wills>> /\ \E w : wills' = Put(wills, id, w)
        BY <1>2 DEF trigger_will, save_will, SaveWithVotes
    <2> QED  BY <2>1, SavedWhere, NoNewWill
<1>3. CASE Tick \/ UNCHANGED vars
    BY <1>3, NoNewWill DEF Tick, vars, indexes
<1>4. ASSUME NEW id \in DOMAIN wills, NEW guardian, NEW refused,
             \/ guardian_trigger(id, guardian, refused)
             \/ guardian_cancel_trigger(id, guardian)
             \/ accept_guardian_role(id, guardian)
             \/ reject_guardian_role(id, guardian)
      PROVE  Fresh
    <2>1. \/ UNCHANGED <<next_will_id, owner_wills>> /\ \E w : wills' = Put(wills, id, w)
          \/ \E w, keeper, stats, records : distribute(id, w, keeper, refused, stats, records)
        BY <1>4 DEF guardian_trigger, guardian_cancel_trigger, accept_guardian_role,
                    reject_guardian_role, OnlyTheWill, indexes, save_will, SaveWithVotes
    <2> QED  BY <2>1, ReleaseFresh, SavedWhere, NoNewWill
<1>5. CASE AppointNext
    <2>1. /\ UNCHANGED <<next_will_id, owner_wills>>
          /\ \E id \in DOMAIN wills : \E w : wills' = Put(wills, id, w)
        BY <1>5 DEF AppointNext, update_guardians, update_guardians_weighted, ReplaceGuardians,
                    OnlyTheWill, indexes, save_will, SaveWithVotes
    <2> QED  BY <2>1, SavedWhere, NoNewWill
<1> QED  BY <1>1, <1>2, <1>3, <1>4, <1>5 DEF AnyoneNext, GuardianNext

LEMMA EstateFresh ==
    ASSUME LifecycleInv, DOMAIN owner_wills = Accounts, EstateOwnerNext \/ EstateHeirNext
    PROVE  Fresh
<1>1. ASSUME NEW id \in DOMAIN wills, NEW owner, NEW t, NEW amount, NEW list, NEW s, NEW h,
             \/ top_up(id, owner, t, amount) \/ update_beneficiaries(id, owner, list)
             \/ update_will_settings(id, owner, s) \/ add_hashed_beneficiary(id, owner, h)
             \/ renounce_beneficiary(id, owner) \/ reveal_and_claim(id, owner, s)
      PROVE  Fresh
    <2>1. UNCHANGED <<next_will_id, owner_wills>> /\ \E w : wills' = Put(wills, id, w)
        BY <1>1 DEF top_up, update_beneficiaries, update_will_settings, add_hashed_beneficiary,
                    renounce_beneficiary, reveal_and_claim, OnlyTheWill, indexes, save_will,
                    SaveWithVotes
    <2> QED  BY <2>1, SavedWhere, NoNewWill
<1>2. ASSUME NEW id, NEW t, NEW heir, retry_failed_payout(id, t, heir)
      PROVE  Fresh
    BY <1>2, NoNewWill DEF retry_failed_payout, indexes
<1>3. ASSUME NEW id \in DOMAIN wills, archive_will(id)
      PROVE  Fresh
    <2>1. /\ UNCHANGED next_will_id
          /\ owner_wills' = Unindexed(owner_wills, {wills[id].owner}, id)
          /\ wills' = Without(wills, {id})
        BY <1>3 DEF archive_will
    <2>2. DOMAIN wills' \subseteq DOMAIN wills
        BY <2>1 DEF Without
    <2> QED  BY <2>1, <2>2, NoNewWill
<1> QED  BY <1>1, <1>2, <1>3 DEF EstateOwnerNext, EstateHeirNext

LEMMA BatchFresh ==
    ASSUME LifecycleInv, DOMAIN owner_wills = Accounts,
           NEW owner \in Accounts, NEW forms \in Batches,
           batch_create_wills(owner, forms)
    PROVE  Fresh
<1> DEFINE ids == (next_will_id + 1)..(next_will_id + Len(forms))
<1>1. /\ next_will_id' = next_will_id + Len(forms)
      /\ DOMAIN wills' = DOMAIN wills \cup ids
      /\ owner_wills' = [owner_wills EXCEPT ![owner] = @ \cup ids]
    BY DEF batch_create_wills
<1>2. next_will_id \in Nat /\ Len(forms) \in Nat
    BY PortfolioInputsAssumption DEF LifecycleInv
<1>3. (\A id \in ids : id \in Nat /\ next_will_id < id) /\ next_will_id <= next_will_id'
    BY <1>1, <1>2
<1> HIDE DEF ids
<1>5. /\ DOMAIN owner_wills' = Accounts
      /\ \A a \in Accounts : owner_wills'[a] \subseteq owner_wills[a] \cup ids
    BY <1>1
<1> QED  BY <1>1, <1>3, <1>5, NewWillListed

LEMMA PortfolioFresh ==
    ASSUME LifecycleInv, DOMAIN owner_wills = Accounts, PortfolioOnlyNext
    PROVE  Fresh
<1>1. ASSUME NEW owner, NEW source, NEW tokens, clone_will(source, owner, tokens)
      PROVE  Fresh
    <2>1. \E w : wills' = Put(wills, next_will_id + 1, w)
        BY <1>1 DEF clone_will, save_will, SaveWithVotes
    <2>2. /\ owner_wills' = Indexed(owner_wills, {owner}, next_will_id + 1)
          /\ next_will_id' = next_will_id + 1
        BY <1>1 DEF clone_will
    <2>3. DOMAIN wills' = DOMAIN wills \cup {next_will_id + 1}
        BY <2>1 DEF Put
    <2> QED  BY <2>2, <2>3, OneNewWill
<1>2. ASSUME NEW owner, NEW id \in DOMAIN wills, NEW split, split_will(id, owner, split)
      PROVE  Fresh
    <2>1. \E v, w : wills' = Put(Put(wills, id, v), next_will_id + 1, w)
        BY <1>2 DEF split_will
    <2>2. /\ owner_wills' = Indexed(owner_wills, {owner}, next_will_id + 1)
          /\ next_will_id' = next_will_id + 1
        BY <1>2 DEF split_will
    <2>3. DOMAIN wills' = DOMAIN wills \cup {next_will_id + 1}
        BY <2>1 DEF Put
    <2> QED  BY <2>2, <2>3, OneNewWill
<1>3. ASSUME NEW owner, NEW a \in DOMAIN wills, NEW b \in DOMAIN wills, merge_wills(owner, a, b)
      PROVE  Fresh
    <2>1. /\ UNCHANGED next_will_id
          /\ owner_wills' = Unindexed(owner_wills, {owner}, b)
          /\ \E v, w : wills' = Put(Put(wills, a, v), b, w)
        BY <1>3 DEF merge_wills
    <2>2. DOMAIN wills' \subseteq DOMAIN wills
        BY <2>1 DEF Put
    <2> QED  BY <2>1, <2>2, NoNewWill
<1>4. repair_protocol_stats => Fresh
    BY NoNewWill DEF repair_protocol_stats, indexes
<1> QED  BY <1>1, <1>2, <1>3, <1>4, BatchFresh DEF PortfolioOnlyNext, MultiplyNext, Merging

\* Wills come onto the list of their owner when they are made, in the order of
\* their numbers.
LEMMA StepFresh ==
    ASSUME LifecycleInv, DOMAIN owner_wills = Accounts, [PortfolioNext]_vars
    PROVE  Fresh
BY OwnerFresh, OthersFresh, EstateFresh, PortfolioFresh
   DEF PortfolioNext, EstateNext, QuorumNext, LifecycleNext

----------------------------------------------------------------------------
(* Lists in ascending order *)

Rising(s) ==
    /\ s \in Seq(Nat \ {0})
    /\ \A i, j \in 1..Len(s) : i < j => s[i] < s[j]

LEMMA SetOfList ==
    ASSUME NEW T, NEW s \in Seq(T)
    PROVE  /\ ToSet(s) = {s[i] : i \in 1..Len(s)}
           /\ ToSet(s) \subseteq T
           /\ Len(s) \in Nat /\ DOMAIN s = 1..Len(s)
BY DEF ToSet

LEMMA SetOfLonger ==
    ASSUME NEW T, NEW s \in Seq(T), NEW x \in T
    PROVE  /\ Append(s, x) \in Seq(T) /\ ToSet(Append(s, x)) = ToSet(s) \cup {x}
<1> DEFINE u == Append(s, x)
<1>1. u \in Seq(T) /\ Len(u) = Len(s) + 1 /\ u[Len(s) + 1] = x
      /\ \A i \in 1..Len(s) : u[i] = s[i]
    BY AppendProperties
<1>2. Len(s) \in Nat
    OBVIOUS
<1> HIDE DEF u
<1>3. 1..Len(u) = 1..Len(s) \cup {Len(s) + 1}
    BY <1>1, <1>2
<1>4. ToSet(u) = {u[i] : i \in 1..Len(u)} /\ ToSet(s) = {s[i] : i \in 1..Len(s)}
    BY <1>1, SetOfList
<1>5. {u[i] : i \in 1..Len(u)} = {s[i] : i \in 1..Len(s)} \cup {x}
    BY <1>1, <1>3
<1> QED  BY <1>1, <1>4, <1>5 DEF u

LEMMA RisingLonger ==
    ASSUME NEW s, Rising(s), NEW x \in Nat \ {0}, \A y \in ToSet(s) : y < x
    PROVE  Rising(Append(s, x))
<1> DEFINE T == Nat \ {0}
           u == Append(s, x)
<1>0. s \in Seq(T) /\ x \in T
    BY DEF Rising
<1> HIDE DEF T
<1>1. u \in Seq(T) /\ Len(u) = Len(s) + 1 /\ u[Len(s) + 1] = x
      /\ \A i \in 1..Len(s) : u[i] = s[i]
    BY <1>0, AppendProperties
<1>2. Len(s) \in Nat /\ \A i \in 1..Len(s) : s[i] \in ToSet(s)
    BY <1>0, SetOfList
<1> HIDE DEF u
<1>3. ASSUME NEW i \in 1..Len(u), NEW j \in 1..Len(u), i < j
      PROVE  u[i] < u[j]
    <2>1. i \in 1..Len(s)
        BY <1>1, <1>2, <1>3
    <2>2. CASE j \in 1..Len(s)
        BY <1>1, <1>3, <2>1, <2>2 DEF Rising
    <2>3. CASE j = Len(s) + 1
        BY <1>1, <1>2, <2>1, <2>3
    <2> QED  BY <1>1, <1>2, <2>2, <2>3
<1> QED  BY <1>1, <1>3 DEF Rising, u, T

\* Those keeps exactly the entries it is asked for, in their order.
LEMMA ThoseFact ==
    ASSUME NEW T, NEW list \in Seq(T), NEW A
    PROVE  /\ Those(list, A) \in Seq(T)
           /\ ToSet(Those(list, A)) = ToSet(list) \cap A
           /\ Rising(list) => Rising(Those(list, A))
<1> DEFINE up == CHOOSE f : f = [k \in 0..Len(list) |-> IF k = 0 THEN << >>
                    ELSE IF list[k] \in A THEN Append(f[k - 1], list[k]) ELSE f[k - 1]]
           n == Len(list)
           S == {k \in 1..n : list[k] \in A}
<1>1. Those(list, A) = up[n]
    BY DEF Those
<1>2. n \in Nat /\ DOMAIN list = 1..n /\ \A i \in 1..n : list[i] \in T
    OBVIOUS
<1>3. PICK g : g = [k \in 0..n |-> g[k]] /\ Lists(g, list, S, n)
    BY <1>2, ListsExist
<1>4. g = [k \in 0..n |-> IF k = 0 THEN << >>
                    ELSE IF list[k] \in A THEN Append(g[k - 1], list[k]) ELSE g[k - 1]]
    <2>1. \A k \in 0..n : k # 0 => (k \in S <=> list[k] \in A)
        BY <1>2
    <2> HIDE DEF S
    <2> QED  BY <1>3, <2>1 DEF Lists
<1>5. up = [k \in 0..n |-> IF k = 0 THEN << >>
                    ELSE IF list[k] \in A THEN Append(up[k - 1], list[k]) ELSE up[k - 1]]
    BY <1>4, Zenon
<1>6. \A k \in 1..n : k \in S <=> list[k] \in A
    OBVIOUS
<1> HIDE DEF up, n, S
<1> DEFINE Good(m) == /\ up[m] \in Seq(T)
                      /\ ToSet(up[m]) = {list[i] : i \in (1..m) \cap S}
                      /\ Rising(list) => Rising(up[m])
           B == {m \in 0..n : ~Good(m)}
<1>7. Good(0)
    <2>1. 0 \in 0..n
        BY <1>2
    <2>2. up[0] = << >>
        BY <1>5, <2>1, Zenon
    <2>3. ToSet(<< >>) = {} /\ Rising(<< >>)
        BY DEF ToSet, Rising
    <2> QED  BY <2>2, <2>3
<1>8. ASSUME NEW m \in 1..n, Good(m - 1)
      PROVE  Good(m)
    <2> DEFINE old == up[m - 1]
    <2>1. up[m] = IF m \in S THEN Append(old, list[m]) ELSE old
        <3>1. m \in 0..n /\ m # 0 /\ (m \in S <=> list[m] \in A)
            BY <1>2, <1>6
        <3> QED  BY <1>5, <3>1, Zenon
    <2>2. /\ old \in Seq(T) /\ ToSet(old) = {list[i] : i \in (1..(m - 1)) \cap S}
          /\ Rising(list) => Rising(old)
        BY <1>8
    <2>3. list[m] \in T
        BY <1>2
    <2>4. 1..m = 1..(m - 1) \cup {m}
        BY <1>2
    <2> HIDE DEF old
    <2>5. CASE m \in S
        <3>1. /\ Append(old, list[m]) \in Seq(T)
              /\ ToSet(Append(old, list[m])) = ToSet(old) \cup {list[m]}
            BY <2>2, <2>3, SetOfLonger
        <3>2. ASSUME Rising(list) PROVE Rising(Append(old, list[m]))
            <4>1. \A y \in ToSet(old) : y < list[m]
                <5>1. \A i \in 1..(m - 1) : i \in 1..n /\ i < m
                    BY <1>2
                <5>2. \A i \in 1..(m - 1) : list[i] < list[m]
                    BY <3>2, <5>1 DEF Rising, n
                <5> QED  BY <2>2, <5>2
            <4>2. list[m] \in Nat \ {0}
                BY <3>2 DEF Rising, n
            <4> QED  BY <2>2, <3>2, <4>1, <4>2, RisingLonger
        <3> QED  BY <2>1, <2>2, <2>4, <2>5, <3>1, <3>2
    <2>6. CASE m \notin S
        BY <2>1, <2>2, <2>4, <2>6
    <2> QED  BY <2>5, <2>6
<1> HIDE DEF Good
<1>9. B = {}
    <2> SUFFICES ASSUME B # {} PROVE FALSE
        OBVIOUS
    <2>1. PICK m \in B : m = 0 \/ m - 1 \notin B
        BY <1>2, FirstOf
    <2>2. m \in 0..n /\ ~Good(m)
        BY <2>1
    <2>3. m # 0
        BY <1>7, <2>2
    <2>4. m \in 1..n /\ m - 1 \in 0..n
        BY ONLY <1>2, <2>2, <2>3
    <2>5. Good(m - 1)
        BY <2>1, <2>3, <2>4
    <2> QED  BY <1>8, <2>2, <2>4, <2>5
<1>10. Good(n)
    BY <1>2, <1>9
<1>11. {list[i] : i \in (1..n) \cap S} = ToSet(list) \cap A
    <2>1. ToSet(list) = {list[i] : i \in 1..n}
        BY <1>2 DEF ToSet
    <2> QED  BY <1>6, <2>1
<1> QED  BY <1>1, <1>10, <1>11 DEF Good

LEMMA GreatestNumber ==
    ASSUME NEW N \in Nat, NEW S, S \subseteq 0..N, S # {}
    PROVE  Max(S) \in S /\ \A x \in S : x <= Max(S)
<1> DEFINE B == {k \in 0..N : \A x \in S : x <= k}
<1>1. PICK m \in B : m = 0 \/ m - 1 \notin B
    <2>1. N \in B
        OBVIOUS
    <2>2. B \subseteq 0..N /\ B # {}
        BY <2>1
    <2> QED  BY <2>2, FirstOf
<1>2. m \in 0..N /\ \A x \in S : x <= m /\ x \in 0..N
    BY <1>1
<1>3. m \in S
    <2> SUFFICES ASSUME m \notin S PROVE FALSE
        OBVIOUS
    <2>1. \A x \in S : x < m
        BY <1>2
    <2>2. PICK x \in S : TRUE
        OBVIOUS
    <2>3. m # 0
        <3>1. x < m /\ x \in 0..N
            BY <1>2, <2>1
        <3> QED  BY <3>1
    <2>4. m - 1 \in 0..N /\ \A y \in S : y <= m - 1
        BY <1>2, <2>1, <2>3
    <2> QED  BY <1>1, <2>3, <2>4
<1>4. \A x \in S : (\A y \in S : x >= y) => x = m
    BY <1>2, <1>3
<1> QED  BY <1>2, <1>3, <1>4 DEF Max

LEMMA PushFact ==
    ASSUME NEW s, Rising(s), NEW x \in Nat \ {0},
           x \in ToSet(s) \/ \A y \in ToSet(s) : y < x
    PROVE  Rising(index_push(s, x)) /\ ToSet(index_push(s, x)) = ToSet(s) \cup {x}
<1>1. s \in Seq(Nat \ {0})
    BY DEF Rising
<1>2. Contains(s, x) <=> x \in ToSet(s)
    <2>1. ToSet(s) = {s[i] : i \in 1..Len(s)}
        BY <1>1, SetOfList
    <2> QED  BY <2>1 DEF Contains
<1>3. CASE x \in ToSet(s)
    BY <1>2, <1>3 DEF index_push
<1>4. CASE x \notin ToSet(s)
    <2>1. Rising(Append(s, x))
        BY <1>4, RisingLonger
    <2>2. ToSet(Append(s, x)) = ToSet(s) \cup {x}
        BY <1>1, SetOfLonger
    <2> QED  BY <1>2, <1>4, <2>1, <2>2 DEF index_push
<1> QED  BY <1>3, <1>4

LEMMA RemoveFact ==
    ASSUME NEW s, Rising(s), NEW x
    PROVE  Rising(index_remove(s, x)) /\ ToSet(index_remove(s, x)) = ToSet(s) \ {x}
<1>1. s \in Seq(Nat \ {0})
    BY DEF Rising
<1> DEFINE A == ToSet(s) \ {x}
<1>2. /\ ToSet(Those(s, A)) = ToSet(s) \cap A
      /\ Rising(s) => Rising(Those(s, A))
    BY <1>1, ThoseFact
<1>3. index_remove(s, x) = Those(s, A)
    BY DEF index_remove
<1> QED  BY <1>2, <1>3

\* A list that follows its index holds the same ids, in ascending order if only
\* ids beyond all those of the list came onto the index.
LEMMA FollowedFact ==
    ASSUME NEW ids, Rising(ids), NEW N \in Nat, ToSet(ids) \subseteq 1..N,
           NEW members, members \subseteq 1..N,
           \A m \in members : m \in ToSet(ids) \/ \A y \in ToSet(ids) : y < m
    PROVE  Rising(Followed(ids, members)) /\ ToSet(Followed(ids, members)) = members
<1> DEFINE S == ToSet(ids) \cup members \cup {0}
           M == Max(S)
           Next1(n, v) == IF n \in members THEN index_push(v, n) ELSE index_remove(v, n)
           up == CHOOSE f : f = [n \in 0..M |->
                    IF n = 0 THEN ids
                    ELSE IF n \in members THEN index_push(f[n - 1], n)
                    ELSE index_remove(f[n - 1], n)]
           V == Seq(Nat)
           step == [n \in 1..M |-> [v \in V |-> Next1(n, v)]]
           Left(n) == (members \cap 1..n) \cup {x \in ToSet(ids) : n < x}
<1>1. Followed(ids, members) = up[M]
    BY DEF Followed
<1>2. M \in S /\ M \in Nat /\ \A x \in S : x \in Nat /\ x <= M
    <2>0. 1..N \subseteq 0..N /\ 0 \in 0..N
        OBVIOUS
    <2>1. S \subseteq 0..N /\ S # {}
        BY ONLY <2>0, ToSet(ids) \subseteq 1..N, members \subseteq 1..N
    <2>2. Max(S) \in S /\ \A x \in S : x <= Max(S)
        BY <2>1, GreatestNumber
    <2> HIDE DEF S
    <2>3. \A x \in S : x \in Nat
        BY <2>1
    <2> QED  BY <2>2, <2>3
<1>3. ids \in V
    BY DEF Rising
<1> HIDE DEF M
<1>4. step \in Steps(M, V)
    <2>1. ASSUME NEW n \in 1..M, NEW v \in V
          PROVE  Next1(n, v) \in V
        <3>1. n \in Nat
            BY <1>2
        <3>2. Append(v, n) \in Seq(Nat) /\ Those(v, ToSet(v) \ {n}) \in Seq(Nat)
            BY <3>1, ThoseFact, AppendProperties
        <3> QED  BY <3>2 DEF index_push, index_remove
    <2> HIDE DEF Next1, V
    <2> QED  BY <2>1 DEF Steps
<1> HIDE DEF V
<1>5. \A n \in 1..M : \A v \in V : step[n][v] = Next1(n, v)
    <2> HIDE DEF Next1
    <2> QED  OBVIOUS
<1> HIDE DEF step
<1>6. PICK f \in Results(M, V, ids, step) :
        \A g : Follows(g, M, V, ids, step) => \A n \in 0..M : g[n] = f[n]
    <2>1. M \in Nat
        BY <1>2
    <2> QED  BY ONLY <2>1, <1>3, <1>4, Iterates
<1>7. /\ \A n \in 0..M : f[n] \in V
      /\ f = [n \in 0..M |-> f[n]]
      /\ f[0] = ids
      /\ \A n \in 1..M : f[n] = Next1(n, f[n - 1]) /\ n - 1 \in 0..M /\ n \in 0..M /\ n # 0
    <2>1. \A n \in 1..M : n - 1 \in 0..M /\ n \in 0..M /\ n # 0
        BY <1>2
    <2> HIDE DEF Next1
    <2> QED  BY <1>5, <2>1 DEF Results
<1>8. f = [n \in 0..M |-> IF n = 0 THEN ids
                          ELSE IF n \in members THEN index_push(f[n - 1], n)
                          ELSE index_remove(f[n - 1], n)]
    <2>1. \A n \in 0..M : n # 0 => n \in 1..M
        BY <1>2
    <2> QED  BY <1>7, <2>1
<1>9. up = [n \in 0..M |-> IF n = 0 THEN ids
                           ELSE IF n \in members THEN index_push(up[n - 1], n)
                           ELSE index_remove(up[n - 1], n)]
    BY <1>8, Zenon
<1> HIDE DEF up
<1>10. up[0] = ids /\ \A n \in 1..M : up[n] = Next1(n, up[n - 1])
    <2>1. 0 \in 0..M
        BY <1>2
    <2>2. up[0] = ids
        BY <1>9, <2>1
    <2>3. ASSUME NEW n \in 1..M
          PROVE  up[n] = Next1(n, up[n - 1])
        BY <1>7, <1>9, Zenon
    <2> QED  BY <2>2, <2>3
<1> DEFINE Good(n) == Rising(up[n]) /\ ToSet(up[n]) = Left(n)
           B == {n \in 0..M : ~Good(n)}
<1>11. Good(0)
    <2>1. \A x \in ToSet(ids) : x \in Nat /\ 0 < x
        OBVIOUS
    <2>2. 1..0 = {}
        OBVIOUS
    <2> QED  BY <1>10, <2>1, <2>2
<1>12. ASSUME NEW n \in 1..M, Good(n - 1)
       PROVE  Good(n)
    <2> DEFINE v == up[n - 1]
    <2>1. Rising(v) /\ ToSet(v) = Left(n - 1) /\ up[n] = Next1(n, v)
        BY <1>10, <1>12
    <2>2. n \in Nat \ {0} /\ 1..n = 1..(n - 1) \cup {n}
        BY <1>2
    <2>3. \A x \in ToSet(ids) : x \in Nat /\ ((n - 1 < x) <=> (x = n \/ n < x))
        BY <2>2
    <2>4. \A x \in members : x \in Nat /\ x <= N
        OBVIOUS
    <2>4a. n \notin 1..(n - 1)
        BY <2>2
    <2> HIDE DEF v
    <2>5. CASE n \in members
        <3>1. n \in ToSet(v) \/ \A y \in ToSet(v) : y < n
            <4>1. CASE n \in ToSet(ids)
                BY <2>1, <2>3, <4>1
            <4>2. CASE \A y \in ToSet(ids) : y < n
                <5>1. \A y \in 1..(n - 1) : y < n
                    BY <2>2
                <5> QED  BY <2>1, <4>2, <5>1
            <4> QED  BY <2>5, <4>1, <4>2
        <3>2. Rising(index_push(v, n)) /\ ToSet(index_push(v, n)) = ToSet(v) \cup {n}
            BY <2>1, <2>2, <3>1, PushFact
        <3>3. Left(n - 1) \cup {n} = Left(n)
            BY <2>2, <2>3, <2>5
        <3> QED  BY <2>1, <2>5, <3>2, <3>3
    <2>6. CASE n \notin members
        <3>1. Rising(index_remove(v, n)) /\ ToSet(index_remove(v, n)) = ToSet(v) \ {n}
            BY <2>1, RemoveFact
        <3>2. Left(n - 1) \ {n} = Left(n)
            <4>1. ~(n < n)
                BY <2>2
            <4> QED  BY <2>2, <2>3, <2>4a, <2>6, <4>1
        <3> QED  BY <2>1, <2>6, <3>1, <3>2
    <2> QED  BY <2>5, <2>6
<1> HIDE DEF Good
<1>13. B = {}
    <2> SUFFICES ASSUME B # {} PROVE FALSE
        OBVIOUS
    <2>1. PICK m \in B : m = 0 \/ m - 1 \notin B
        BY <1>2, FirstOf
    <2>2. m \in 0..M /\ ~Good(m)
        BY <2>1
    <2>3. m # 0
        BY <1>11, <2>2
    <2>4. m \in 1..M /\ m - 1 \in 0..M
        BY ONLY <1>2, <2>2, <2>3
    <2>5. Good(m - 1)
        BY <2>1, <2>3, <2>4
    <2> QED  BY <1>12, <2>2, <2>4, <2>5
<1>14. Good(M)
    BY <1>2, <1>13
<1>15. Left(M) = members
    <2>1. \A x \in members : x \in 1..M
        BY <1>2
    <2>2. \A x \in ToSet(ids) : ~(M < x)
        BY <1>2
    <2> QED  BY <2>1, <2>2
<1> QED  BY <1>1, <1>14, <1>15 DEF Good

----------------------------------------------------------------------------
(* Pages of a list in ascending order *)

LEMMA PartFact ==
    ASSUME NEW s, Rising(s), NEW m \in Nat \ {0}, NEW n \in Nat, n <= Len(s), m <= n + 1
    PROVE  /\ Rising(SubSeq(s, m, n))
           /\ Len(SubSeq(s, m, n)) = n - m + 1
           /\ ToSet(SubSeq(s, m, n)) = {s[i] : i \in m..n}
           /\ \A i \in 1..(n - m + 1) : SubSeq(s, m, n)[i] = s[m + i - 1]
<1> DEFINE T == Nat \ {0}
           u == SubSeq(s, m, n)
           k == n - m + 1
<1>1. s \in Seq(T) /\ Len(s) \in Nat /\ \A i, j \in 1..Len(s) : i < j => s[i] < s[j]
    BY DEF Rising
<1>2. m..n \subseteq 1..Len(s) /\ k \in Nat
    BY <1>1
<1>3. \A i \in m..n : s[i] \in T
    BY <1>1, <1>2
<1> HIDE DEF T
<1>4. /\ u \in Seq(T)
      /\ Len(u) = IF m <= n THEN n - m + 1 ELSE 0
      /\ \A i \in 1..k : u[i] = s[m + i - 1]
    BY <1>3, SubSeqProperties
<1>5. Len(u) = k
    BY <1>4
<1> HIDE DEF u
<1>6. \A i \in 1..k : m + i - 1 \in m..n
    OBVIOUS
<1>7. ASSUME NEW i \in 1..Len(u), NEW j \in 1..Len(u), i < j
      PROVE  u[i] < u[j]
    <2>1. m + i - 1 \in 1..Len(s) /\ m + j - 1 \in 1..Len(s) /\ m + i - 1 < m + j - 1
        BY <1>2, <1>5, <1>6, <1>7
    <2>2. u[i] = s[m + i - 1] /\ u[j] = s[m + j - 1]
        BY <1>4, <1>5
    <2> QED  BY <1>1, <2>1, <2>2
<1>8. Rising(u)
    BY <1>4, <1>7 DEF Rising, T
<1>9. ToSet(u) = {s[i] : i \in m..n}
    <2>1. ToSet(u) = {u[i] : i \in 1..k}
        BY <1>4, <1>5, SetOfList
    <2>2. ASSUME NEW x
          PROVE  x \in {u[i] : i \in 1..k} <=> x \in {s[i] : i \in m..n}
        <3>1. ASSUME NEW i \in 1..k, x = u[i]
              PROVE  x \in {s[j] : j \in m..n}
            BY <1>4, <1>6, <3>1
        <3>2. ASSUME NEW i \in m..n, x = s[i]
              PROVE  x \in {u[j] : j \in 1..k}
            <4>1. i - m + 1 \in 1..k /\ m + (i - m + 1) - 1 = i
                OBVIOUS
            <4>2. u[i - m + 1] = s[m + (i - m + 1) - 1]
                BY <1>4, <4>1
            <4> HIDE DEF k
            <4> QED  BY <3>2, <4>1, <4>2
        <3> QED  BY <3>1, <3>2
    <2> QED  BY <2>1, <2>2
<1> QED  BY <1>4, <1>5, <1>8, <1>9 DEF u

\* The first few entries of a list: all of them, or as many as asked for and none
\* left out before the last.
LEMMA FirstFewFact ==
    ASSUME NEW s, Rising(s), NEW k \in Nat
    PROVE  /\ Rising(FirstFew(s, k)) /\ ToSet(FirstFew(s, k)) \subseteq ToSet(s)
           /\ Len(FirstFew(s, k)) \in Nat /\ Len(FirstFew(s, k)) <= k
           /\ Len(FirstFew(s, k)) < k => ToSet(FirstFew(s, k)) = ToSet(s)
           /\ Len(FirstFew(s, k)) > 0 =>
                /\ Last(FirstFew(s, k)) \in ToSet(FirstFew(s, k))
                /\ \A x \in ToSet(FirstFew(s, k)) : x <= Last(FirstFew(s, k))
                /\ \A x \in ToSet(s) : x <= Last(FirstFew(s, k)) => x \in ToSet(FirstFew(s, k))
<1> DEFINE L == Len(s)
           n == Min({k, L})
           u == FirstFew(s, k)
<1>1. /\ L \in Nat /\ ToSet(s) = {s[i] : i \in 1..L}
      /\ \A i \in 1..L : s[i] \in Nat
      /\ \A i, j \in 1..L : i < j => s[i] < s[j]
    BY SetOfList DEF Rising
<1>2. u = SubSeq(s, 1, n)
    BY DEF FirstFew
<1> HIDE DEF L
<1>3. n \in Nat /\ n <= L /\ n <= k /\ (n < k => n = L)
    BY <1>1, Smaller
<1> HIDE DEF n, u
<1>4. /\ Rising(u) /\ Len(u) = n /\ ToSet(u) = {s[i] : i \in 1..n}
      /\ \A i \in 1..n : u[i] = s[i]
    <2>1. Rising(SubSeq(s, 1, n))
          /\ Len(SubSeq(s, 1, n)) = n - 1 + 1
          /\ ToSet(SubSeq(s, 1, n)) = {s[i] : i \in 1..n}
          /\ \A i \in 1..(n - 1 + 1) : SubSeq(s, 1, n)[i] = s[1 + i - 1]
        <3>1. 1 \in Nat \ {0} /\ n \in Nat /\ n <= Len(s) /\ 1 <= n + 1
            BY <1>3 DEF L
        <3>2. Rising(s)
            OBVIOUS
        <3> QED  BY ONLY <3>1, <3>2, PartFact
    <2>2. n - 1 + 1 = n /\ \A i \in 1..n : 1 + i - 1 = i
        BY <1>3
    <2> QED  BY <1>2, <2>1, <2>2
<1>5. 1..n \subseteq 1..L
    BY <1>1, <1>3
<1>6. ASSUME n > 0
      PROVE  /\ Last(u) = s[n] /\ n \in 1..n
             /\ \A i \in 1..L : s[i] <= s[n] <=> i \in 1..n
    <2>1. n \in 1..n
        BY <1>3, <1>6
    <2>2. Last(u) = s[n]
        BY <1>4, <2>1 DEF Last
    <2>3. ASSUME NEW i \in 1..L
          PROVE  s[i] <= s[n] <=> i \in 1..n
        <3>1. s[i] \in Nat /\ s[n] \in Nat /\ n \in 1..L
            BY <1>1, <1>5, <2>1
        <3>2. CASE i < n
            BY <1>1, <3>1, <3>2
        <3>3. CASE i = n
            BY <2>1, <3>1, <3>3
        <3>4. CASE n < i
            <4>1. s[n] < s[i]
                BY <1>1, <3>1, <3>4
            <4> QED  BY <3>1, <3>4, <4>1
        <3> QED  BY <3>1, <3>2, <3>3, <3>4
    <2> QED  BY <2>1, <2>2, <2>3
<1>7. n > 0 => /\ Last(u) \in ToSet(u)
               /\ \A x \in ToSet(u) : x <= Last(u)
               /\ \A x \in ToSet(s) : x <= Last(u) => x \in ToSet(u)
    BY <1>1, <1>4, <1>5, <1>6
<1>8. n < k => ToSet(u) = ToSet(s)
    BY <1>1, <1>3, <1>4
<1>9. ToSet(u) \subseteq ToSet(s)
    BY <1>1, <1>4, <1>5
<1> QED  BY <1>3, <1>4, <1>7, <1>8, <1>9 DEF u

LEMMA AboveFact ==
    ASSUME NEW ids, Rising(ids), NEW cursor
    PROVE  /\ Rising(Above(ids, cursor))
           /\ ToSet(Above(ids, cursor)) = {x \in ToSet(ids) : x > cursor}
<1> DEFINE A == {id \in ToSet(ids) : id > cursor}
<1>1. ids \in Seq(Nat \ {0})
    BY DEF Rising
<1>2. ToSet(Those(ids, A)) = ToSet(ids) \cap A /\ Rising(Those(ids, A))
    BY <1>1, ThoseFact
<1> QED  BY <1>2 DEF Above

LEMMA WithStatusFact ==
    ASSUME NEW ids, Rising(ids), NEW status
    PROVE  /\ Rising(WithStatus(ids, status))
           /\ ToSet(WithStatus(ids, status)) = {x \in ToSet(ids) : wills[x].status = status}
<1> DEFINE A == {id \in ToSet(ids) : wills[id].status = status}
<1>1. ids \in Seq(Nat \ {0})
    BY DEF Rising
<1>2. ToSet(Those(ids, A)) = ToSet(ids) \cap A /\ Rising(Those(ids, A))
    BY <1>1, ThoseFact
<1> QED  BY <1>2 DEF WithStatus

LEMMA BehindFact ==
    ASSUME NEW ids, Rising(ids), NEW cursor \in Nat
    PROVE  /\ Rising(BehindCursor(ids, cursor))
           /\ ToSet(BehindCursor(ids, cursor)) = {x \in ToSet(ids) : x > cursor}
<1> DEFINE L == Len(ids)
           above == {i \in 1..L : ids[i] > cursor}
           m == Min(above)
<1>1. /\ L \in Nat /\ ToSet(ids) = {ids[i] : i \in 1..L} /\ DOMAIN ids = 1..L
      /\ \A i \in 1..L : ids[i] \in Nat
      /\ \A i, j \in 1..L : i < j => ids[i] < ids[j]
    BY SetOfList DEF Rising
<1>2. BehindCursor(ids, cursor) = IF above = {} THEN << >> ELSE SubSeq(ids, m, L)
    BY <1>1 DEF BehindCursor
<1>3. CASE above = {}
    <2>1. Rising(<< >>) /\ ToSet(<< >>) = {}
        BY DEF Rising, ToSet
    <2>2. {x \in ToSet(ids) : x > cursor} = {}
        BY <1>1, <1>3
    <2> QED  BY <1>2, <1>3, <2>1, <2>2
<1>4. CASE above # {}
    <2>1. m \in above /\ \A i \in above : m <= i
        <3>1. PICK i \in above : \A j \in above : i <= j
            <4>1. above \subseteq 0..L
                OBVIOUS
            <4> DEFINE B == {i \in 0..L : \E j \in above : j <= i}
            <4>2. PICK i \in B : i = 0 \/ i - 1 \notin B
                <5>1. B \subseteq 0..L
                    OBVIOUS
                <5>2. B # {}
                    BY <1>4
                <5> HIDE DEF B
                <5> QED  BY <1>1, <5>1, <5>2, FirstOf
            <4>3. PICK j \in above : j <= i
                BY <4>2
            <4>4. \A k \in above : i <= k
                <5> SUFFICES ASSUME NEW k \in above, k < i PROVE FALSE
                    BY <1>1, <4>2
                <5>1. k \in 1..L /\ i \in 0..L /\ i # 0 /\ i - 1 \in 0..L /\ k <= i - 1
                    BY <1>1, <4>2
                <5> QED  BY <4>2, <5>1
            <4>5. i = j
                BY <1>1, <4>2, <4>3, <4>4
            <4> QED  BY <4>3, <4>4, <4>5
        <3> QED  BY <3>1 DEF Min
    <2> HIDE DEF m
    <2>2. /\ m \in Nat \ {0} /\ m <= L + 1 /\ m \in 1..L
          /\ \A i \in 1..L : ids[i] > cursor <=> i \in m..L
        <3>1. m \in 1..L /\ ids[m] > cursor /\ ids[m] \in Nat
            BY <1>1, <2>1
        <3>2. ASSUME NEW i \in 1..L
              PROVE  ids[i] > cursor <=> i \in m..L
            <4>1. CASE i < m
                BY <2>1, <3>1, <4>1
            <4>2. CASE i = m
                BY <3>1, <4>2
            <4>3. CASE m < i
                <5>1. ids[m] < ids[i] /\ ids[i] \in Nat
                    BY <1>1, <3>1, <4>3
                <5> QED  BY <3>1, <4>3, <5>1
            <4> QED  BY <3>1, <4>1, <4>2, <4>3
        <3> QED  BY <1>1, <3>1, <3>2
    <2> HIDE DEF L
    <2>3. /\ Rising(SubSeq(ids, m, L))
          /\ ToSet(SubSeq(ids, m, L)) = {ids[i] : i \in m..L}
        <3>1. m \in Nat \ {0} /\ L \in Nat /\ L <= Len(ids) /\ m <= L + 1
            BY <1>1, <2>2 DEF L
        <3>2. Rising(ids)
            OBVIOUS
        <3> QED  BY ONLY <3>1, <3>2, PartFact
    <2>4. {ids[i] : i \in m..L} = {x \in ToSet(ids) : x > cursor}
        <3>1. m..L \subseteq 1..L
            BY <1>1, <2>2
        <3> QED  BY <1>1, <2>2, <3>1
    <2> QED  BY <1>2, <1>4, <2>3, <2>4
<1> QED  BY <1>3, <1>4

----------------------------------------------------------------------------
(* The pages of a walk through a listing *)

\* A page of what stands beyond the cursor, in ascending order; nothing up to the
\* next cursor is left out, and nothing at all on the last page.
Served(page, S, cursor) ==
    /\ page = [items |-> page.items, next |-> page.next]
    /\ Rising(page.items) /\ page.next \in Nat
    /\ \A x \in ToSet(page.items) : x \in S /\ x > cursor
    /\ page.next # NoCursor =>
            /\ page.next > cursor
            /\ \A x \in ToSet(page.items) : x <= page.next
            /\ \A x \in S : x > cursor /\ x <= page.next => x \in ToSet(page.items)
    /\ page.next = NoCursor /\ PageLimit <= MAX_PAGE_SIZE =>
            \A x \in S : x > cursor => x \in ToSet(page.items)

LEMMA PageSizeFact ==
    /\ PageSize(PageLimit) \in Nat \ {0} /\ PageSize(PageLimit) <= PageLimit
    /\ PageLimit \in Nat \ {0}
    /\ PageLimit <= MAX_PAGE_SIZE => PageSize(PageLimit) = PageLimit
<1>1. PageLimit \in Nat \ {0} /\ MAX_PAGE_SIZE \in Nat \ {0}
    BY ReadsAssumption, PageAssumption
<1> QED  BY <1>1, Smaller DEF PageSize

\* The first page size of them, and the last one as the next cursor if the page is
\* not short of `size`.
LEMMA CutServed ==
    ASSUME NEW s, Rising(s), NEW S, NEW cursor \in Nat, ToSet(s) = {x \in S : x > cursor},
           NEW size \in Nat \ {0}, size = PageSize(PageLimit) \/ size = PageLimit,
           NEW page, page.items = FirstFew(s, PageSize(PageLimit)),
           page = [items |-> page.items, next |-> page.next],
           page.next = IF Len(page.items) < size THEN NoCursor ELSE Last(page.items)
    PROVE  Served(page, S, cursor)
<1> DEFINE k == PageSize(PageLimit)
           u == page.items
<1>1. k \in Nat \ {0} /\ (PageLimit <= MAX_PAGE_SIZE => size = k)
    BY PageSizeFact
<1> HIDE DEF k
<1>2. /\ Rising(u) /\ ToSet(u) \subseteq ToSet(s) /\ Len(u) \in Nat
      /\ Len(u) < k => ToSet(u) = ToSet(s)
      /\ Len(u) > 0 => /\ Last(u) \in ToSet(u)
                       /\ \A x \in ToSet(u) : x <= Last(u)
                       /\ \A x \in ToSet(s) : x <= Last(u) => x \in ToSet(u)
    <2>1. u = FirstFew(s, k)
        BY DEF k
    <2> HIDE DEF u
    <2> QED  BY <1>1, <2>1, FirstFewFact
<1>3. \A x \in ToSet(u) : x \in Nat \ {0}
    <2>1. u \in Seq(Nat \ {0})
        BY <1>2 DEF Rising
    <2> QED  BY <2>1, SetOfList
<1>4. page.next = IF Len(u) < size THEN 0 ELSE Last(u)
    BY DEF NoCursor
<1> HIDE DEF u
<1>5. CASE Len(u) < size
    <2>1. page.next = 0
        BY <1>4, <1>5
    <2>2. PageLimit <= MAX_PAGE_SIZE => ToSet(u) = ToSet(s)
        BY <1>1, <1>2, <1>5
    <2>3. /\ Rising(u) /\ page.next \in Nat
          /\ \A x \in ToSet(u) : x \in S /\ x > cursor
          /\ PageLimit <= MAX_PAGE_SIZE => \A x \in S : x > cursor => x \in ToSet(u)
        BY <1>2, <2>1, <2>2
    <2> QED  BY <2>1, <2>3 DEF Served, u, NoCursor
<1>6. CASE ~(Len(u) < size)
    <2>1. Len(u) > 0 /\ page.next = Last(u)
        BY <1>2, <1>4, <1>6
    <2>2. /\ Last(u) \in Nat \ {0} /\ Last(u) > cursor
          /\ \A x \in ToSet(u) : x \in S /\ x > cursor /\ x <= Last(u)
          /\ \A x \in S : x > cursor /\ x <= Last(u) => x \in ToSet(u)
        BY <1>2, <1>3, <2>1
    <2> QED  BY <1>2, <2>1, <2>2 DEF Served, u, NoCursor
<1> QED  BY <1>5, <1>6

LEMMA ByLastIdServed ==
    ASSUME NEW s, Rising(s), NEW S, NEW cursor \in Nat, ToSet(s) = {x \in S : x > cursor}
    PROVE  Served(ByLastId(FirstFew(s, PageSize(PageLimit))), S, cursor)
<1> DEFINE page == ByLastId(FirstFew(s, PageSize(PageLimit)))
<1>1. /\ page.items = FirstFew(s, PageSize(PageLimit))
      /\ page = [items |-> page.items, next |-> page.next]
      /\ page.next = IF Len(page.items) < PageLimit THEN NoCursor ELSE Last(page.items)
    BY DEF ByLastId
<1>2. PageLimit \in Nat \ {0}
    BY PageSizeFact
<1> HIDE DEF page
<1>3. Served(page, S, cursor)
    BY <1>1, <1>2, CutServed
<1> QED  BY <1>3 DEF page

LEMMA IdsServed ==
    ASSUME NEW ids, Rising(ids), NEW cursor \in Nat
    PROVE  Served(ByLastId(paginate_ids(ids, cursor, PageLimit)), ToSet(ids), cursor)
<1>1. CASE ids = << >> \/ cursor >= Last(ids)
    <2>1. paginate_ids(ids, cursor, PageLimit) = << >>
        BY <1>1 DEF paginate_ids
    <2>2. Rising(<< >>) /\ ToSet(<< >>) = {} /\ FirstFew(<< >>, PageSize(PageLimit)) = << >>
        <3>1. Rising(<< >>) /\ ToSet(<< >>) = {}
            BY DEF Rising, ToSet
        <3>2. Min({PageSize(PageLimit), 0}) = 0
            BY PageSizeFact, Smaller
        <3>3. SubSeq(<< >>, 1, 0) = << >>
            BY SubSeqEmpty
        <3>4. Len(<< >>) = 0
            OBVIOUS
        <3> QED  BY <3>1, <3>2, <3>3, <3>4 DEF FirstFew
    <2>3. ASSUME NEW x \in ToSet(ids)
          PROVE  ~(x > cursor)
        <3>1. /\ Len(ids) \in Nat /\ ToSet(ids) = {ids[i] : i \in 1..Len(ids)}
              /\ \A i \in 1..Len(ids) : ids[i] \in Nat
              /\ \A i, j \in 1..Len(ids) : i < j => ids[i] < ids[j]
            BY SetOfList DEF Rising
        <3>2. PICK i \in 1..Len(ids) : x = ids[i]
            BY <3>1
        <3>3. ids # << >>
            BY <3>2
        <3>4. Len(ids) \in 1..Len(ids) /\ (i = Len(ids) \/ i < Len(ids))
            BY <3>1, <3>2
        <3>5. ids[i] <= ids[Len(ids)]
            BY <3>1, <3>4
        <3>6. cursor >= ids[Len(ids)]
            BY <1>1, <3>3 DEF Last
        <3>7. ids[i] \in Nat /\ ids[Len(ids)] \in Nat
            BY <3>1, <3>4
        <3> QED  BY ONLY <3>2, <3>5, <3>6, <3>7, cursor \in Nat
    <2>4. ToSet(<< >>) = {x \in ToSet(ids) : x > cursor}
        BY <2>2, <2>3
    <2>5. Served(ByLastId(FirstFew(<< >>, PageSize(PageLimit))), ToSet(ids), cursor)
        BY <2>2, <2>4, ByLastIdServed
    <2> QED  BY <2>1, <2>2, <2>5
<1>2. CASE ~(ids = << >> \/ cursor >= Last(ids))
    <2>1. paginate_ids(ids, cursor, PageLimit) = FirstFew(Above(ids, cursor), PageSize(PageLimit))
        BY <1>2 DEF paginate_ids
    <2>2. Rising(Above(ids, cursor)) /\ ToSet(Above(ids, cursor)) = {x \in ToSet(ids) : x > cursor}
        BY AboveFact
    <2> QED  BY <2>1, <2>2, ByLastIdServed
<1> QED  BY <1>1, <1>2

LEMMA StatusServed ==
    ASSUME NEW a, NEW status, Rising(owner_list[a]), NEW cursor \in Nat
    PROVE  Served(ByLastId(get_wills_by_owner_and_status(a, status, cursor, PageLimit)),
                  ToSet(WithStatus(owner_list[a], status)), cursor)
<1> DEFINE s == WithStatus(owner_list[a], status)
<1>1. Rising(s)
    BY WithStatusFact
<1>2. get_wills_by_owner_and_status(a, status, cursor, PageLimit)
        = FirstFew(Above(s, cursor), PageSize(PageLimit))
    BY DEF get_wills_by_owner_and_status
<1> HIDE DEF s
<1>3. Rising(Above(s, cursor)) /\ ToSet(Above(s, cursor)) = {x \in ToSet(s) : x > cursor}
    BY <1>1, AboveFact
<1>4. Served(ByLastId(FirstFew(Above(s, cursor), PageSize(PageLimit))), ToSet(s), cursor)
    BY <1>3, ByLastIdServed
<1> QED  BY <1>2, <1>4 DEF s

LEMMA StatusPageServed ==
    ASSUME NEW a, NEW status, Rising(owner_list[a]), NEW cursor \in Nat, NEW page,
           page = [items |-> get_owner_status_page(a, status, cursor, PageLimit).wills,
                   next  |-> get_owner_status_page(a, status, cursor, PageLimit).next_cursor]
    PROVE  Served(page, ToSet(WithStatus(owner_list[a], status)), cursor)
<1> DEFINE s == WithStatus(BehindCursor(owner_list[a], cursor), status)
           S == ToSet(WithStatus(owner_list[a], status))
           k == PageSize(PageLimit)
<1>1. /\ Rising(BehindCursor(owner_list[a], cursor))
      /\ ToSet(BehindCursor(owner_list[a], cursor)) = {x \in ToSet(owner_list[a]) : x > cursor}
    BY BehindFact
<1>2. /\ Rising(s)
      /\ ToSet(s) = {x \in ToSet(BehindCursor(owner_list[a], cursor)) : wills[x].status = status}
    BY <1>1, WithStatusFact
<1>3. S = {x \in ToSet(owner_list[a]) : wills[x].status = status}
    BY WithStatusFact
<1>4. ToSet(s) = {x \in S : x > cursor}
    <2> HIDE DEF s, S
    <2> QED  BY <1>1, <1>2, <1>3
<1>5. /\ page.items = FirstFew(s, k)
      /\ page = [items |-> page.items, next |-> page.next]
      /\ page.next = IF Len(page.items) >= k THEN Last(page.items) ELSE NoCursor
    BY DEF get_owner_status_page
<1> HIDE DEF s, S
<1>6. k \in Nat \ {0}
    BY PageSizeFact
<1>7. Len(FirstFew(s, k)) \in Nat
    BY <1>2, <1>6, FirstFewFact
<1>8. page.next = IF Len(page.items) < k THEN NoCursor ELSE Last(page.items)
    BY <1>5, <1>6, <1>7
<1>9. Served(page, S, cursor)
    BY <1>2, <1>4, <1>5, <1>6, <1>8, CutServed
<1> QED  BY <1>9 DEF S

----------------------------------------------------------------------------
(* The lists stay in the order of the numbers *)

\* The lists hold what the index holds, in ascending order.
InOrder(list, index, n) ==
    \A a \in Accounts : /\ Rising(list[a]) /\ ToSet(list[a]) = index[a]
                        /\ index[a] \subseteq 1..n

\* Somebody may walk through the wills that name an heir.
HeirsAsk == \E q \in Queries : q.kind = "beneficiary"

ListsInv ==
    /\ DOMAIN owner_wills = Accounts
    /\ InOrder(owner_list, owner_wills, next_will_id)
    /\ HeirsAsk => InOrder(beneficiary_list, beneficiary_wills, next_will_id)

\* Heirs are named when a will is made, not later.
HeirsInOrder ==
    HeirsAsk => \A a \in Accounts :
                    beneficiary_wills'[a] \ beneficiary_wills[a]
                        \subseteq DOMAIN wills' \ DOMAIN wills

LEMMA OrderKept ==
    ASSUME NEW list, NEW index, NEW n \in Nat, InOrder(list, index, n),
           NEW index2, NEW m \in Nat, n <= m,
           \A a \in Accounts : \A id \in index2[a] : id \in index[a] \/ (id \in 1..m /\ n < id)
    PROVE  InOrder([a \in Accounts |-> Followed(list[a], index2[a])], index2, m)
<1>1. ASSUME NEW a \in Accounts
      PROVE  /\ Rising(Followed(list[a], index2[a]))
             /\ ToSet(Followed(list[a], index2[a])) = index2[a]
             /\ index2[a] \subseteq 1..m
    <2> DEFINE ids == list[a]
               members == index2[a]
    <2>1. Rising(ids) /\ ToSet(ids) = index[a] /\ index[a] \subseteq 1..n
        BY DEF InOrder
    <2>2. \A id \in members : id \in index[a] \/ (id \in 1..m /\ n < id)
        OBVIOUS
    <2> HIDE DEF ids, members
    <2>3. 1..n \subseteq 1..m
        OBVIOUS
    <2>4. ToSet(ids) \subseteq 1..m /\ members \subseteq 1..m
        BY <2>1, <2>2, <2>3
    <2>5. \A id \in members : id \in ToSet(ids) \/ \A y \in ToSet(ids) : y < id
        <3>1. \A y \in ToSet(ids) : y \in Nat /\ y <= n
            BY <2>1
        <3> QED  BY <2>1, <2>2, <3>1
    <2>6. Rising(Followed(ids, members)) /\ ToSet(Followed(ids, members)) = members
        BY <2>1, <2>4, <2>5, FollowedFact
    <2> QED  BY <2>4, <2>6 DEF ids, members
<1> QED  BY <1>1 DEF InOrder

LEMMA ListsFollow ==
    ASSUME LifecycleInv, LifecycleInv', ListsInv, [PortfolioNext]_vars, HeirsInOrder,
           NEW recorded, CarryAlong(recorded)
    PROVE  ListsInv'
<1> DEFINE n == next_will_id
           m == next_will_id'
<1>2. Fresh
    BY StepFresh DEF ListsInv
<1>1. n \in Nat /\ m \in Nat /\ DOMAIN wills' \subseteq 1..m /\ n <= m
    BY <1>2 DEF LifecycleInv, Fresh
<1>3. \A id \in DOMAIN wills' \ DOMAIN wills : id \in 1..m /\ n < id
    BY <1>1, <1>2 DEF Fresh
<1>4. \A a \in Accounts : \A id \in owner_wills'[a] :
            id \in owner_wills[a] \/ (id \in 1..m /\ n < id)
    BY <1>2, <1>3 DEF Fresh
<1>5. HeirsAsk => \A a \in Accounts : \A id \in beneficiary_wills'[a] :
                        id \in beneficiary_wills[a] \/ (id \in 1..m /\ n < id)
    BY <1>3 DEF HeirsInOrder
<1>6. InOrder(owner_list', owner_wills', m)
    <2>1. owner_list' = [a \in Accounts |-> Followed(owner_list[a], owner_wills'[a])]
        BY DEF CarryAlong
    <2>2. InOrder(owner_list, owner_wills, n)
        BY DEF ListsInv
    <2> DEFINE index2 == owner_wills'
    <2>3. \A a \in Accounts : \A id \in index2[a] : id \in owner_wills[a] \/ (id \in 1..m /\ n < id)
        BY <1>4
    <2> HIDE DEF n, m, index2
    <2>4. InOrder([a \in Accounts |-> Followed(owner_list[a], index2[a])], index2, m)
        BY <1>1, <2>2, <2>3, OrderKept
    <2> QED  BY <2>1, <2>4 DEF index2
<1>7. ASSUME HeirsAsk
      PROVE  InOrder(beneficiary_list', beneficiary_wills', m)
    <2>1. beneficiary_list'
            = [a \in Accounts |-> Followed(beneficiary_list[a], beneficiary_wills'[a])]
        BY DEF CarryAlong
    <2>2. InOrder(beneficiary_list, beneficiary_wills, n)
        BY <1>7 DEF ListsInv
    <2> DEFINE index2 == beneficiary_wills'
    <2>3. \A a \in Accounts : \A id \in index2[a] :
                id \in beneficiary_wills[a] \/ (id \in 1..m /\ n < id)
        BY <1>5, <1>7
    <2> HIDE DEF n, m, index2
    <2>4. InOrder([a \in Accounts |-> Followed(beneficiary_list[a], index2[a])], index2, m)
        BY <1>1, <2>2, <2>3, OrderKept
    <2> QED  BY <2>1, <2>4 DEF index2
<1> QED  BY <1>2, <1>6, <1>7 DEF ListsInv, Fresh, HeirsAsk

----------------------------------------------------------------------------
(* A walk through a listing *)

LEMMA RisingConcat ==
    ASSUME NEW s, Rising(s), NEW t, Rising(t), \A x \in ToSet(s) : \A y \in ToSet(t) : x < y
    PROVE  /\ Rising(s \o t) /\ ToSet(s \o t) = ToSet(s) \cup ToSet(t)
           /\ Len(s \o t) = Len(s) + Len(t)
           /\ \A i \in 1..Len(s) : (s \o t)[i] = s[i]
           /\ \A i \in 1..Len(t) : (s \o t)[Len(s) + i] = t[i]
<1> DEFINE T == Nat \ {0}
           u == s \o t
           m == Len(s)
           n == Len(t)
<1>1. /\ s \in Seq(T) /\ t \in Seq(T)
      /\ \A i, j \in 1..m : i < j => s[i] < s[j]
      /\ \A i, j \in 1..n : i < j => t[i] < t[j]
    BY DEF Rising
<1> HIDE DEF T
<1>2. /\ m \in Nat /\ n \in Nat /\ ToSet(s) = {s[i] : i \in 1..m} /\ ToSet(t) = {t[i] : i \in 1..n}
    BY <1>1, SetOfList
<1>3. /\ u \in Seq(T) /\ Len(u) = m + n
      /\ \A i \in 1..(m + n) : u[i] = IF i <= m THEN s[i] ELSE t[i - m]
    BY <1>1, ConcatProperties
<1> HIDE DEF u, m, n
<1>4. \A i \in 1..m : i \in 1..(m + n) /\ u[i] = s[i]
    BY <1>2, <1>3
<1>5. \A i \in 1..n : m + i \in 1..(m + n) /\ u[m + i] = t[i]
    <2> SUFFICES ASSUME NEW i \in 1..n
                 PROVE  m + i \in 1..(m + n) /\ u[m + i] = t[i]
        OBVIOUS
    <2> DEFINE k == m + i
    <2>1. k \in 1..(m + n) /\ ~(k <= m) /\ k - m = i
        BY <1>2
    <2> HIDE DEF k
    <2>2. u[k] = t[k - m]
        BY <1>3, <2>1
    <2> QED  BY <2>1, <2>2 DEF k
<1>6. \A i \in 1..(m + n) : i \in 1..m \/ (i - m \in 1..n /\ u[i] = t[i - m])
    BY <1>2, <1>3
<1>7. ASSUME NEW i \in 1..(m + n), NEW j \in 1..(m + n), i < j
      PROVE  u[i] < u[j]
    <2>1. CASE j \in 1..m
        <3>1. i \in 1..m
            BY <1>2, <1>7, <2>1
        <3> QED  BY <1>1, <1>4, <1>7, <2>1, <3>1
    <2>2. CASE i \in 1..m /\ j \notin 1..m
        BY <1>2, <1>4, <1>6, <2>2
    <2>3. CASE i \notin 1..m
        <3>1. i - m \in 1..n /\ u[i] = t[i - m]
            BY <1>6, <2>3
        <3>2. j \notin 1..m /\ i - m < j - m
            BY <1>2, <1>7, <2>3
        <3>3. j - m \in 1..n /\ u[j] = t[j - m]
            BY <1>6, <3>2
        <3> QED  BY <1>1, <3>1, <3>2, <3>3
    <2> QED  BY <2>1, <2>2, <2>3
<1>8. Rising(u)
    BY <1>3, <1>7 DEF Rising, T
<1>9. ToSet(u) = ToSet(s) \cup ToSet(t)
    <2>1. ToSet(u) = {u[i] : i \in 1..(m + n)}
        BY <1>3, SetOfList
    <2>2. {u[i] : i \in 1..(m + n)} = {s[i] : i \in 1..m} \cup {t[i] : i \in 1..n}
        <3>1. \A i \in 1..(m + n) : u[i] \in {s[k] : k \in 1..m} \/ u[i] \in {t[k] : k \in 1..n}
            BY <1>4, <1>6
        <3>2. \A i \in 1..m : s[i] \in {u[k] : k \in 1..(m + n)}
            BY <1>4
        <3>3. \A i \in 1..n : t[i] \in {u[k] : k \in 1..(m + n)}
            BY <1>5
        <3> QED  BY <3>1, <3>2, <3>3
    <2> QED  BY <1>2, <2>1, <2>2
<1> QED  BY <1>3, <1>4, <1>5, <1>8, <1>9 DEF u, m, n

\* The client has all that it is owed up to its cursor.
OnTheWay(seen, cursor, owed, S) ==
    /\ cursor \in Nat /\ Rising(seen) /\ owed \subseteq S
    /\ \A x \in ToSet(seen) : x <= cursor
    /\ PageLimit <= MAX_PAGE_SIZE => \A x \in owed : x \in ToSet(seen) \/ x > cursor

LEMMA SetOffFact ==
    ASSUME NEW S, S \subseteq Nat \ {0}
    PROVE  OnTheWay(<< >>, 0, S, S)
<1>1. Rising(<< >>) /\ ToSet(<< >>) = {}
    BY DEF Rising, ToSet
<1>2. \A x \in S : x > 0
    OBVIOUS
<1> QED  BY <1>1, <1>2 DEF OnTheWay

LEMMA WalkOn ==
    ASSUME NEW seen, NEW cursor, NEW owed, NEW S, S \subseteq Nat, OnTheWay(seen, cursor, owed, S),
           NEW page, Served(page, S, cursor)
    PROVE  /\ Rising(seen \o page.items)
           /\ page.next # NoCursor => OnTheWay(seen \o page.items, page.next, owed, S)
           /\ page.next = NoCursor /\ PageLimit <= MAX_PAGE_SIZE =>
                    owed \subseteq ToSet(seen \o page.items)
<1> DEFINE t == page.items
           u == seen \o t
           next == page.next
<1>1. /\ Rising(t) /\ next \in Nat
      /\ \A x \in ToSet(t) : x \in S /\ x > cursor
      /\ next # NoCursor => /\ next > cursor
                            /\ \A x \in ToSet(t) : x <= next
                            /\ \A x \in S : x > cursor /\ x <= next => x \in ToSet(t)
      /\ next = NoCursor /\ PageLimit <= MAX_PAGE_SIZE => \A x \in S : x > cursor => x \in ToSet(t)
    BY DEF Served
<1>2. /\ cursor \in Nat /\ Rising(seen) /\ owed \subseteq S
      /\ \A x \in ToSet(seen) : x <= cursor
      /\ PageLimit <= MAX_PAGE_SIZE => \A x \in owed : x \in ToSet(seen) \/ x > cursor
    BY DEF OnTheWay
<1>3. \A x \in ToSet(seen) : x \in Nat
    <2>1. seen \in Seq(Nat \ {0})
        BY <1>2 DEF Rising
    <2> QED  BY <2>1, SetOfList
<1> HIDE DEF t, next
<1>4. ASSUME NEW x \in ToSet(seen), NEW y \in ToSet(t)
      PROVE  x < y
    <2>1. x \in Nat /\ y \in Nat /\ cursor \in Nat /\ x <= cursor /\ y > cursor
        BY <1>1, <1>2, <1>3
    <2> QED  BY ONLY <2>1
<1>5. Rising(u) /\ ToSet(u) = ToSet(seen) \cup ToSet(t)
    BY <1>1, <1>2, <1>4, RisingConcat
<1> HIDE DEF u
<1>6. ASSUME next # NoCursor
      PROVE  OnTheWay(u, next, owed, S)
    <2>1. \A x \in ToSet(u) : x <= next
        BY <1>1, <1>2, <1>3, <1>5, <1>6
    <2>2. ASSUME PageLimit <= MAX_PAGE_SIZE, NEW x \in owed
          PROVE  x \in ToSet(u) \/ x > next
        <3>1. x \in S /\ x \in Nat
            BY <1>2
        <3> QED  BY <1>1, <1>2, <1>5, <1>6, <2>2, <3>1
    <2> QED  BY <1>1, <1>2, <1>5, <2>1, <2>2 DEF OnTheWay
<1>7. ASSUME next = NoCursor, PageLimit <= MAX_PAGE_SIZE
      PROVE  owed \subseteq ToSet(u)
    BY <1>1, <1>2, <1>5, <1>7
<1> QED  BY <1>5, <1>6, <1>7 DEF u, t, next

\* The kinds of walks through listings in the order of the numbers.
Listings == {"owner", "beneficiary", "status", "status_page"}

LEMMA ListingServed ==
    ASSUME ListsInv, NEW q \in Queries, q.kind \in Listings, NEW cursor \in Nat
    PROVE  Standing(q) \subseteq Nat \ {0} /\ Served(Page(q, cursor), Standing(q), cursor)
<1>0. \A s : Rising(s) => ToSet(s) \subseteq Nat \ {0}
    <2> SUFFICES ASSUME NEW s, Rising(s) PROVE ToSet(s) \subseteq Nat \ {0}
        OBVIOUS
    <2>1. s \in Seq(Nat \ {0})
        BY DEF Rising
    <2> QED  BY <2>1, SetOfList
<1>1. q.who \in Accounts
    BY QueriesAssumption DEF Listings
<1>2. Rising(owner_list[q.who])
    BY <1>1 DEF ListsInv, InOrder
<1>3. CASE q.kind = "owner"
    <2>1. /\ Standing(q) = ToSet(owner_list[q.who])
          /\ Page(q, cursor) = ByLastId(get_wills_by_owner(q.who, cursor, PageLimit))
        BY <1>3 DEF Standing, Page
    <2> QED  BY <1>0, <1>2, <2>1, IdsServed DEF get_wills_by_owner
<1>4. CASE q.kind = "beneficiary"
    <2>1. /\ Standing(q) = ToSet(beneficiary_list[q.who])
          /\ Page(q, cursor) = ByLastId(get_wills_by_beneficiary(q.who, cursor, PageLimit))
        BY <1>4 DEF Standing, Page
    <2>2. Rising(beneficiary_list[q.who])
        BY <1>1, <1>4 DEF ListsInv, InOrder, HeirsAsk
    <2> QED  BY <1>0, <2>1, <2>2, IdsServed DEF get_wills_by_beneficiary
<1>5. CASE q.kind = "status"
    <2>1. /\ Standing(q) = ToSet(WithStatus(owner_list[q.who], q.status))
          /\ Page(q, cursor)
                = ByLastId(get_wills_by_owner_and_status(q.who, q.status, cursor, PageLimit))
        BY <1>5 DEF Standing, Page
    <2>2. Rising(WithStatus(owner_list[q.who], q.status))
        BY <1>2, WithStatusFact
    <2> QED  BY <1>0, <1>2, <2>1, <2>2, StatusServed
<1>6. CASE q.kind = "status_page"
    <2>1. /\ Standing(q) = ToSet(WithStatus(owner_list[q.who], q.status))
          /\ Page(q, cursor)
                = [items |-> get_owner_status_page(q.who, q.status, cursor, PageLimit).wills,
                   next  |-> get_owner_status_page(q.who, q.status, cursor, PageLimit).next_cursor]
        BY <1>6 DEF Standing, Page
    <2>2. Rising(WithStatus(owner_list[q.who], q.status))
        BY <1>2, WithStatusFact
    <2> QED  BY <1>0, <1>2, <2>1, <2>2, StatusPageServed
<1> QED  BY <1>3, <1>4, <1>5, <1>6 DEF Listings

----------------------------------------------------------------------------
(* A walk through a trail *)

\* The entries are numbered on from b.
NumberedFrom(entries, b) ==
    /\ entries \in Seq(Entry) /\ b \in Nat
    /\ \A i \in 1..Len(entries) : entries[i].seq = b + i

\* How many entries of a trail are gone.
Gone(id) == IF id \in DOMAIN trail THEN trail[id].seq - Len(trail[id].entries) ELSE 0

LEMMA TrailNumbered ==
    ASSUME ReadsInv, NEW id
    PROVE  /\ NumberedFrom(get_will_history(id), Gone(id))
           /\ id \notin DOMAIN trail => get_will_history(id) = << >>
<1>1. CASE id \in DOMAIN trail
    <2> DEFINE t == trail[id]
    <2>1. Window(t, history[id].to)
        BY <1>1 DEF ReadsInv
    <2> HIDE DEF t
    <2>2. /\ t.seq \in Nat /\ t.entries \in Seq(Entry)
          /\ Len(t.entries) = Min({t.seq, MAX_HISTORY_ENTRIES})
          /\ \A i \in 1..Len(t.entries) : t.entries[i].seq = t.seq - Len(t.entries) + i
        BY <2>1 DEF Window
    <2>3. Min({t.seq, MAX_HISTORY_ENTRIES}) <= t.seq
        BY <2>2, TrailAssumption, Smaller
    <2>4. Len(t.entries) \in Nat
        BY <2>2
    <2>5. t.seq - Len(t.entries) \in Nat
        BY <2>2, <2>3, <2>4
    <2>6. NumberedFrom(t.entries, t.seq - Len(t.entries))
        BY <2>2, <2>5 DEF NumberedFrom
    <2> QED  BY <1>1, <2>6 DEF get_will_history, Gone, t
<1>2. CASE id \notin DOMAIN trail
    BY <1>2 DEF get_will_history, Gone, NumberedFrom
<1> QED  BY <1>1, <1>2

\* Between two reads a trail that stays gets no shorter, and no entry comes back.
LEMMA TrailMovesOn ==
    ASSUME ReadsInv, ReadsInv', Unrewritten, NEW id \in DOMAIN trail, id \in DOMAIN trail'
    PROVE  /\ Gone(id) <= Gone(id)'
           /\ Len(get_will_history(id)) <= Len(get_will_history(id))'
           /\ Gone(id) \in Nat /\ Gone(id)' \in Nat
           /\ Len(get_will_history(id)) \in Nat /\ Len(get_will_history(id))' \in Nat
<1> DEFINE K == MAX_HISTORY_ENTRIES
           a == trail[id].seq
           b == trail'[id].seq
           m == Len(trail[id].entries)
           n == Len(trail'[id].entries)
<1>1. Window(trail[id], history[id].to) /\ Window(trail'[id], history'[id].to)
    BY DEF ReadsInv
<1>2. a \in Nat /\ b \in Nat /\ m = Min({a, K}) /\ n = Min({b, K}) /\ K \in Nat
    BY <1>1, TrailAssumption DEF Window
<1>3. a <= b
    BY DEF Unrewritten
<1>4. /\ Gone(id) = a - m /\ Gone(id)' = b - n
      /\ Len(get_will_history(id)) = m /\ Len(get_will_history(id))' = n
    BY DEF Gone, get_will_history
<1> HIDE DEF a, b, m, n, K
<1>5. (a <= K => m = a) /\ (K <= a => m = K) /\ (b <= K => n = b) /\ (K <= b => n = K)
    BY <1>2, Smaller
<1>6. a - m <= b - n /\ m <= n /\ a - m \in Nat /\ b - n \in Nat /\ m \in Nat /\ n \in Nat
    BY ONLY <1>2, <1>3, <1>5
<1> QED  BY <1>4, <1>6

LEMMA TrailPage ==
    ASSUME NEW es, NEW b, NumberedFrom(es, b), NEW c \in Nat, NEW page, NEW items,
           page = paginate_history(es, c, PageLimit), items = [i \in DOMAIN page |-> page[i].seq]
    PROVE  /\ Rising(items) /\ Len(items) = Len(page) /\ Len(page) <= PageLimit
           /\ \A i \in 1..Len(items) : items[i] = b + c + i
           /\ Len(items) > 0 => c + Len(items) <= Len(es)
           /\ PageLimit <= MAX_PAGE_SIZE /\ Len(page) < PageLimit => c + Len(items) >= Len(es)
<1> DEFINE L == Len(es)
           k == PageSize(PageLimit)
           n == Min({c + k, L})
<1>1. es \in Seq(Entry) /\ b \in Nat /\ L \in Nat /\ \A i \in 1..L : es[i].seq = b + i
    BY DEF NumberedFrom
<1>2. /\ k \in Nat \ {0} /\ k <= PageLimit /\ PageLimit \in Nat \ {0}
      /\ PageLimit <= MAX_PAGE_SIZE => k = PageLimit
    BY PageSizeFact
<1>3. page = SubSeq(es, c + 1, n)
    BY DEF paginate_history
<1> HIDE DEF k, L
<1>4. n \in Nat /\ n <= L /\ n <= c + k /\ (n = L \/ n = c + k)
    <2>1. c + k \in Nat
        BY <1>2
    <2> QED  BY <1>1, <2>1, Smaller
<1> HIDE DEF n
<1>5. /\ page \in Seq(Entry)
      /\ Len(page) = IF c + 1 <= n THEN n - (c + 1) + 1 ELSE 0
      /\ \A i \in 1..(n - (c + 1) + 1) : page[i] = es[c + 1 + i - 1]
    <2>1. \A i \in (c + 1)..n : i \in 1..L
        BY <1>1, <1>4
    <2>2. \A i \in (c + 1)..n : es[i] \in Entry
        BY <1>1, <2>1 DEF L
    <2>3. c + 1 \in Int /\ n \in Int
        BY <1>4
    <2> QED  BY <1>3, <2>2, <2>3, SubSeqProperties
<1> DEFINE m == Len(page)
<1>6. m \in Nat /\ DOMAIN page = 1..m
    BY <1>5
<1>7. /\ m > 0 => c + m = n
      /\ m = 0 => n <= c
      /\ m <= k
    BY <1>4, <1>5, <1>2
<1>8. ASSUME NEW i \in 1..m
      PROVE  page[i].seq = b + c + i
    <2>1. i \in 1..(n - (c + 1) + 1) /\ c + 1 + i - 1 = c + i /\ c + i \in 1..L
        BY <1>1, <1>4, <1>6, <1>7
    <2>2. page[i] = es[c + i]
        BY <1>5, <2>1
    <2>3. es[c + i].seq = b + (c + i)
        BY <1>1, <2>1
    <2> QED  BY <1>1, <2>2, <2>3
<1> HIDE DEF m
<1>9. items = [i \in 1..m |-> page[i].seq]
    BY <1>6
<1>10. \A i \in 1..m : items[i] = b + c + i /\ items[i] \in Nat \ {0}
    <2>1. \A i \in 1..m : b + c + i \in Nat \ {0}
        BY <1>1, <1>6
    <2> QED  BY <1>8, <1>9, <2>1
<1>11. items \in Seq(Nat \ {0}) /\ Len(items) = m
    BY <1>6, <1>9, <1>10
<1>12. Rising(items)
    <2>1. \A i, j \in 1..m : i < j => b + c + i < b + c + j
        BY <1>1
    <2> QED  BY <1>10, <1>11, <2>1 DEF Rising
<1>13. m <= PageLimit
    BY <1>2, <1>6, <1>7
<1>14. m > 0 => c + m <= L
    BY <1>4, <1>7
<1>15. ASSUME PageLimit <= MAX_PAGE_SIZE, m < PageLimit
       PROVE  c + m >= L
    <2>1. m < k
        BY <1>2, <1>15
    <2>2. n # c + k
        BY <1>1, <1>2, <1>4, <1>6, <1>7, <2>1
    <2> QED  BY <1>1, <1>4, <1>6, <1>7, <2>2
<1> QED  BY <1>10, <1>11, <1>12, <1>13, <1>14, <1>15 DEF m, L

\* The first entry a walk has seen or will see.
First(id, seen) == IF seen = << >> THEN Gone(id) + 1 ELSE seen[1]

\* The client has read as many entries as its cursor says, and what it is owed
\* lies in reach of the first one.
Along(id, seen, cursor, owed) ==
    /\ Rising(seen) /\ cursor = Len(seen)
    /\ cursor > 0 => id \in 1..next_will_id
    /\ id \in DOMAIN trail => /\ \A x \in ToSet(seen) : x <= Gone(id) + cursor
                              /\ \A x \in owed : /\ x \in Nat /\ First(id, seen) <= x
                                                 /\ x < First(id, seen) + Len(get_will_history(id))
    /\ id \notin DOMAIN trail => owed = {}

\* What is in reach has been seen by a client that saw no gap.
LEMMA NoGapNoLoss ==
    ASSUME NEW seen, Rising(seen), Gapless(seen), Len(seen) > 0,
           NEW owed, \A x \in owed : x \in Nat /\ seen[1] <= x /\ x < seen[1] + Len(seen)
    PROVE  owed \subseteq ToSet(seen)
<1> DEFINE n == Len(seen)
           B == {i \in 0..(n - 1) : seen[i + 1] # seen[1] + i}
<1>1. /\ n \in Nat \ {0} /\ \A i \in 1..n : seen[i] \in Nat
      /\ ToSet(seen) = {seen[i] : i \in 1..n}
    BY SetOfList DEF Rising
<1>2. \A i \in 1..(n - 1) : seen[i + 1] = seen[i] + 1
    BY DEF Gapless
<1> HIDE DEF n
<1>3. B = {}
    <2> SUFFICES ASSUME B # {} PROVE FALSE
        OBVIOUS
    <2>1. PICK i \in B : i = 0 \/ i - 1 \notin B
        <3>1. n - 1 \in Nat /\ B \subseteq 0..(n - 1)
            BY <1>1
        <3> HIDE DEF B
        <3> QED  BY <3>1, FirstOf
    <2>2. i \in 0..(n - 1) /\ seen[i + 1] # seen[1] + i
        BY <2>1
    <2>3. CASE i = 0
        BY <1>1, <2>2, <2>3
    <2>4. CASE i # 0
        <3>1. i \in 1..(n - 1) /\ i - 1 \in 0..(n - 1) /\ (i - 1) + 1 = i
            BY <1>1, <2>2, <2>4
        <3>2. seen[(i - 1) + 1] = seen[1] + (i - 1)
            BY <2>1, <2>4, <3>1
        <3>3. seen[i + 1] = seen[i] + 1
            BY <1>2, <3>1
        <3>4. seen[1] \in Nat
            BY <1>1
        <3> QED  BY <2>2, <3>1, <3>2, <3>3, <3>4
    <2> QED  BY <2>3, <2>4
<1>4. ASSUME NEW x \in owed
      PROVE  x \in {seen[i] : i \in 1..n}
    <2>1. x \in Nat /\ seen[1] \in Nat /\ seen[1] <= x /\ x < seen[1] + n
        BY <1>1 DEF n
    <2> DEFINE i == x - seen[1]
    <2>2. i \in 0..(n - 1) /\ i + 1 \in 1..n /\ seen[1] + i = x
        BY <1>1, <2>1
    <2> HIDE DEF i
    <2>3. seen[i + 1] = seen[1] + i
        BY <1>3, <2>2
    <2> QED  BY <2>2, <2>3
<1> QED  BY <1>1, <1>4

LEMMA SetAlong ==
    ASSUME ReadsInv, NEW id
    PROVE  Along(id, << >>, 0, {e.seq : e \in ToSet(get_will_history(id))})
<1> DEFINE es == get_will_history(id)
           b == Gone(id)
<1>1. NumberedFrom(es, b) /\ (id \notin DOMAIN trail => es = << >>)
    BY TrailNumbered
<1>2. Rising(<< >>) /\ ToSet(<< >>) = {}
    BY DEF Rising, ToSet
<1>3. First(id, << >>) = b + 1
    BY DEF First
<1> HIDE DEF es, b
<1>4. /\ es \in Seq(Entry) /\ b \in Nat /\ Len(es) \in Nat
      /\ \A i \in 1..Len(es) : es[i].seq = b + i
      /\ ToSet(es) = {es[i] : i \in 1..Len(es)}
    BY <1>1, SetOfList DEF NumberedFrom
<1>5. ASSUME NEW x \in {e.seq : e \in ToSet(es)}
      PROVE  x \in Nat /\ b + 1 <= x /\ x < b + 1 + Len(es)
    <2>1. PICK i \in 1..Len(es) : x = es[i].seq
        BY <1>4
    <2>2. x = b + i
        BY <1>4, <2>1
    <2> QED  BY <1>4, <2>2
<1>6. id \notin DOMAIN trail => {e.seq : e \in ToSet(es)} = {}
    BY <1>1, <1>2
<1>7. Len(<< >>) = 0
    OBVIOUS
<1> QED  BY <1>2, <1>3, <1>5, <1>6, <1>7 DEF Along, es, b

LEMMA TrailWalkOn ==
    ASSUME ReadsInv, NEW id, NEW seen, NEW cursor, NEW owed, Along(id, seen, cursor, owed),
           NEW page, page = get_will_history_page(id, cursor, PageLimit),
           NEW items, items = [i \in DOMAIN page |-> page[i].seq],
           NEW next, next = IF Len(page) < PageLimit THEN NoCursor ELSE cursor + PageLimit
    PROVE  /\ Rising(seen \o items)
           /\ next # NoCursor => next > 0 /\ Along(id, seen \o items, next, owed)
           /\ next = NoCursor /\ PageLimit <= MAX_PAGE_SIZE /\ Gapless(seen \o items) =>
                    owed \subseteq ToSet(seen \o items)
<1> DEFINE es == get_will_history(id)
           L == Len(es)
           b == Gone(id)
           m == Len(items)
           u == seen \o items
           f == First(id, seen)
<1>1. NumberedFrom(es, b) /\ (id \notin DOMAIN trail => es = << >>)
    BY TrailNumbered
<1>2. L \in Nat /\ b \in Nat /\ (L > 0 => id \in DOMAIN trail)
    BY <1>1 DEF NumberedFrom
<1>3. /\ Rising(seen) /\ cursor = Len(seen) /\ cursor \in Nat
      /\ cursor > 0 => id \in 1..next_will_id
      /\ id \in DOMAIN trail => /\ \A x \in ToSet(seen) : x <= b + cursor
                                /\ \A x \in owed : x \in Nat /\ f <= x /\ x < f + L
      /\ id \notin DOMAIN trail => owed = {}
    BY DEF Along, Rising
<1>4. page = paginate_history(es, cursor, PageLimit)
    BY DEF get_will_history_page
<1> HIDE DEF es, b
<1>5. /\ Rising(items) /\ m = Len(page) /\ m <= PageLimit
      /\ \A i \in 1..m : items[i] = b + cursor + i
      /\ m > 0 => cursor + m <= L
      /\ PageLimit <= MAX_PAGE_SIZE /\ m < PageLimit => cursor + m >= L
    BY <1>1, <1>3, <1>4, TrailPage
<1>6. m \in Nat /\ ToSet(items) = {items[i] : i \in 1..m} /\ PageLimit \in Nat \ {0}
    <2>1. items \in Seq(Nat \ {0})
        BY <1>5 DEF Rising
    <2>2. ToSet(items) = {items[i] : i \in 1..Len(items)} /\ Len(items) \in Nat
        BY ONLY <2>1, SetOfList
    <2> QED  BY <2>2, PageSizeFact
<1>7. \A x \in ToSet(seen) : x \in Nat
    <2>1. seen \in Seq(Nat \ {0})
        BY <1>3 DEF Rising
    <2> QED  BY <2>1, SetOfList
<1> HIDE DEF m, L
<1>8. m > 0 => id \in DOMAIN trail
    BY <1>2, <1>3, <1>5, <1>6
<1>9. \A y \in ToSet(items) : /\ m > 0 /\ y \in Nat
                              /\ b + cursor < y /\ y <= b + (cursor + m)
    <2> SUFFICES ASSUME NEW y \in ToSet(items)
                 PROVE  m > 0 /\ y \in Nat /\ b + cursor < y /\ y <= b + (cursor + m)
        OBVIOUS
    <2>1. PICK i \in 1..m : y = items[i]
        BY <1>6
    <2>2. y = b + cursor + i
        BY <1>5, <2>1
    <2> QED  BY <1>2, <1>3, <1>6, <2>2
<1>10. ASSUME NEW x \in ToSet(seen), NEW y \in ToSet(items)
       PROVE  x < y
    <2>1. x \in Nat /\ y \in Nat /\ x <= b + cursor /\ b + cursor < y
        BY <1>3, <1>7, <1>8, <1>9
    <2> QED  BY <1>2, <1>3, <2>1
<1>11. /\ Rising(u) /\ ToSet(u) = ToSet(seen) \cup ToSet(items) /\ Len(u) = cursor + m
       /\ \A i \in 1..cursor : u[i] = seen[i]
       /\ \A i \in 1..m : u[cursor + i] = items[i]
    <2>1. Rising(seen) /\ Rising(items) /\ Len(seen) = cursor /\ Len(items) = m
        BY <1>3, <1>5 DEF m
    <2>2. /\ Rising(u) /\ ToSet(u) = ToSet(seen) \cup ToSet(items)
          /\ Len(u) = Len(seen) + Len(items)
          /\ \A i \in 1..Len(seen) : u[i] = seen[i]
          /\ \A i \in 1..Len(items) : u[Len(seen) + i] = items[i]
        BY ONLY <1>10, <2>1, RisingConcat
    <2> QED  BY <2>1, <2>2
<1> HIDE DEF u
<1>12. cursor + m > 0 => u # << >> /\ u[1] = f
    <2>1. ASSUME cursor + m > 0
          PROVE  u # << >>
        BY <1>11, <2>1
    <2>2. CASE cursor > 0
        <3>1. 1 \in 1..cursor /\ seen # << >>
            BY <1>3, <2>2
        <3>2. u[1] = seen[1] /\ f = seen[1]
            BY <1>11, <3>1 DEF First
        <3> QED  BY <2>1, <3>2
    <2>3. CASE cursor = 0 /\ m > 0
        <3>1. seen = << >>
            <4>1. seen \in Seq(Nat \ {0}) /\ Len(seen) = 0
                BY <1>3, <2>3 DEF Rising
            <4> QED  BY <4>1, EmptySeq
        <3>2. 1 \in 1..m /\ cursor + 1 = 1
            BY <1>6, <2>3
        <3>3. u[1] = items[1] /\ items[1] = b + cursor + 1
            BY <1>5, <1>11, <3>2
        <3>4. f = b + 1
            BY <3>1 DEF First, b
        <3> QED  BY <1>2, <2>1, <2>3, <3>3, <3>4
    <2> QED  BY <1>3, <1>6, <2>2, <2>3
<1>13. cursor + m > 0 => First(id, u) = f
    BY <1>12 DEF First
<1> HIDE DEF f
<1>14. next = IF m < PageLimit THEN 0 ELSE cursor + PageLimit
    BY <1>5 DEF NoCursor
<1>15. ASSUME next # NoCursor
       PROVE  next > 0 /\ Along(id, u, next, owed)
    <2>1. m = PageLimit /\ next = cursor + m /\ m > 0 /\ next > 0 /\ cursor + m > 0
        BY <1>3, <1>5, <1>6, <1>14, <1>15 DEF NoCursor
    <2>2. id \in DOMAIN trail
        BY <1>8, <2>1
    <2>3. id \in 1..next_will_id
        BY <2>2 DEF ReadsInv, LifecycleInv
    <2>4. \A x \in ToSet(u) : x <= b + (cursor + m)
        <3>1. ASSUME NEW x \in ToSet(seen)
              PROVE  x <= b + (cursor + m)
            <4>1. x \in Nat /\ x <= b + cursor
                BY <1>3, <1>7, <2>2
            <4> QED  BY <1>2, <1>3, <1>6, <4>1
        <3> QED  BY <1>9, <1>11, <3>1
    <2>5. \A x \in owed : x \in Nat /\ First(id, u) <= x /\ x < First(id, u) + L
        BY <1>3, <1>13, <2>1, <2>2
    <2> QED  BY <1>11, <2>1, <2>2, <2>3, <2>4, <2>5 DEF Along, L, es, b
<1>16. ASSUME next = NoCursor, PageLimit <= MAX_PAGE_SIZE, Gapless(u)
       PROVE  owed \subseteq ToSet(u)
    <2>1. m < PageLimit
        BY <1>3, <1>6, <1>14, <1>16 DEF NoCursor
    <2>2. cursor + m >= L
        BY <1>5, <1>16, <2>1
    <2>3. CASE id \notin DOMAIN trail
        BY <1>3, <2>3
    <2>4. CASE id \in DOMAIN trail /\ cursor + m > 0
        <3>1. Len(u) > 0 /\ Len(u) \in Nat /\ L <= Len(u)
            BY <1>2, <1>3, <1>6, <1>11, <2>2, <2>4
        <3>2. u[1] \in Nat
            <4>1. u \in Seq(Nat \ {0}) /\ 1 \in 1..Len(u)
                BY <1>11, <3>1 DEF Rising
            <4> QED  BY <4>1
        <3>3. \A x \in owed : x \in Nat /\ u[1] <= x /\ x < u[1] + Len(u)
            <4> SUFFICES ASSUME NEW x \in owed
                         PROVE  x \in Nat /\ u[1] <= x /\ x < u[1] + Len(u)
                OBVIOUS
            <4>1. x \in Nat /\ u[1] <= x /\ x < u[1] + L
                BY <1>3, <1>12, <2>4
            <4> QED  BY <1>2, <3>1, <3>2, <4>1
        <3> QED  BY <1>11, <1>16, <3>1, <3>3, NoGapNoLoss
    <2>5. CASE id \in DOMAIN trail /\ ~(cursor + m > 0)
        <3>1. L = 0 /\ cursor = 0
            BY <1>2, <1>3, <1>6, <2>2, <2>5
        <3>2. f \in Nat
            <4>1. seen = << >>
                <5>1. seen \in Seq(Nat \ {0}) /\ Len(seen) = 0
                    BY <1>3, <3>1 DEF Rising
                <5> QED  BY <5>1, EmptySeq
            <4>2. f = b + 1
                BY <4>1 DEF f, First, b
            <4> QED  BY <1>2, <4>2
        <3>3. owed = {}
            <4> SUFFICES ASSUME NEW x \in owed PROVE FALSE
                OBVIOUS
            <4>1. x \in Nat /\ f <= x /\ x < f + 0
                BY <1>3, <2>5, <3>1
            <4> QED  BY <3>2, <4>1
        <3> QED  BY <3>3
    <2> QED  BY <2>3, <2>4, <2>5
<1> QED  BY <1>11, <1>15, <1>16 DEF u

----------------------------------------------------------------------------
(* Walks while the contract goes on being called *)

\* Nobody walks through the triggered wills, whose order is that of the triggers.
NoTriggeredWalks == \A q \in Queries : q.kind # "triggered"

UnderWay(q) ==
    /\ walk = [query |-> q, cursor |-> walk.cursor, seen |-> walk.seen,
               owed |-> walk.owed, done |-> walk.done]
    /\ walk.done \in BOOLEAN /\ Rising(walk.seen)
    /\ walk.done /\ PageLimit <= MAX_PAGE_SIZE /\ (q.kind = "trail" => Gapless(walk.seen)) =>
            walk.owed \subseteq ToSet(walk.seen)
    /\ ~walk.done /\ q.kind = "trail" =>
            walk.cursor > 0 /\ Along(q.who, walk.seen, walk.cursor, walk.owed)
    /\ ~walk.done /\ q.kind \in Listings =>
            OnTheWay(walk.seen, walk.cursor, walk.owed, Standing(q))

WalkInv == walk = NoWalk \/ \E q \in Queries : UnderWay(q)

LEMMA KindsOfWalks ==
    ASSUME NoTriggeredWalks, NEW q \in Queries
    PROVE  q.kind = "trail" \/ q.kind \in Listings
BY QueriesAssumption DEF NoTriggeredWalks, Listings

LEMMA ReadKeeps ==
    ASSUME ReadsInv, ListsInv, WalkInv, NoTriggeredWalks, NEW q \in Queries, ReadPage(q)
    PROVE  WalkInv'
<1> DEFINE page == Page(q, walk.cursor)
           owed == IF walk = NoWalk THEN Standing(q) ELSE walk.owed
           u == walk.seen \o page.items
<1>1. /\ walk = NoWalk \/ (walk.query = q /\ ~walk.done)
      /\ walk' = [query |-> q, cursor |-> page.next, seen |-> u, owed |-> owed,
                  done |-> page.next = NoCursor]
      /\ UNCHANGED <<vars, ordered, trail>>
    BY DEF ReadPage
<1>2. \/ walk = NoWalk /\ owed = Standing(q)
      \/ walk # NoWalk /\ owed = walk.owed /\ UnderWay(q) /\ ~walk.done
    <2>1. CASE walk = NoWalk
        BY <2>1
    <2>2. CASE walk # NoWalk
        <3>1. PICK p \in Queries : UnderWay(p)
            BY <2>2 DEF WalkInv
        <3>2. p = walk.query
            BY <3>1 DEF UnderWay
        <3> QED  BY <1>1, <2>2, <3>1, <3>2
    <2> QED  BY <2>1, <2>2
<1>3. NoWalk.seen = << >> /\ NoWalk.cursor = 0 /\ NoCursor = 0
    BY DEF NoWalk, NoCursor
<1>4. ASSUME q.kind \in Listings
      PROVE  /\ Rising(u)
             /\ page.next # NoCursor => OnTheWay(u, page.next, owed, Standing(q))
             /\ page.next = NoCursor /\ PageLimit <= MAX_PAGE_SIZE => owed \subseteq ToSet(u)
    <2>1. walk.cursor \in Nat
        BY <1>2, <1>3, <1>4 DEF UnderWay, OnTheWay
    <2>2. Standing(q) \subseteq Nat \ {0} /\ Served(page, Standing(q), walk.cursor)
        BY <1>4, <2>1, ListingServed
    <2> DEFINE S == Standing(q)
    <2> HIDE DEF page, S
    <2>3. OnTheWay(walk.seen, walk.cursor, owed, S)
        <3>1. CASE walk = NoWalk
            <4>1. OnTheWay(<< >>, 0, S, S)
                BY <2>2, SetOffFact DEF S
            <4> QED  BY <1>2, <1>3, <3>1, <4>1 DEF S
        <3>2. CASE walk # NoWalk
            BY <1>2, <1>4, <3>2 DEF UnderWay, S
        <3> QED  BY <3>1, <3>2
    <2>4. S \subseteq Nat /\ Served(page, S, walk.cursor)
        BY <2>2 DEF S
    <2> HIDE DEF owed
    <2> QED  BY <2>3, <2>4, WalkOn DEF S
<1>5. ASSUME q.kind = "trail"
      PROVE  /\ Rising(u)
             /\ page.next # NoCursor => page.next > 0 /\ Along(q.who, u, page.next, owed)
             /\ page.next = NoCursor /\ PageLimit <= MAX_PAGE_SIZE /\ Gapless(u) =>
                    owed \subseteq ToSet(u)
    <2> DEFINE entries == get_will_history_page(q.who, walk.cursor, PageLimit)
               items == [i \in DOMAIN entries |-> entries[i].seq]
               next == IF Len(entries) < PageLimit THEN NoCursor ELSE walk.cursor + PageLimit
    <2>1. /\ page = [items |-> items, next |-> next]
          /\ Standing(q) = {e.seq : e \in ToSet(get_will_history(q.who))}
        BY <1>5 DEF Page, Standing
    <2>2. page.items = items /\ page.next = next
        BY <2>1
    <2> HIDE DEF page
    <2>3. Along(q.who, walk.seen, walk.cursor, owed)
        <3>1. CASE walk = NoWalk
            BY <1>2, <1>3, <2>1, <3>1, SetAlong
        <3>2. CASE walk # NoWalk
            BY <1>2, <1>5, <3>2 DEF UnderWay
        <3> QED  BY <3>1, <3>2
    <2> HIDE DEF owed
    <2> QED  BY <2>2, <2>3, TrailWalkOn
<1> HIDE DEF page, owed, u
<1>6. Standing(q)' = Standing(q)
    BY <1>1 DEF vars, ordered, Standing, WithStatus, get_will_history
<1>7. /\ walk'.query = q /\ walk'.cursor = page.next /\ walk'.seen = u /\ walk'.owed = owed
      /\ walk'.done = (page.next = NoCursor)
    BY <1>1
<1>8. ASSUME q.kind \in Listings
      PROVE  UnderWay(q)'
    <2>1. q.kind # "trail"
        BY <1>8 DEF Listings
    <2> QED  BY <1>1, <1>4, <1>6, <1>7, <1>8, <2>1 DEF UnderWay
<1>9. ASSUME q.kind = "trail"
      PROVE  UnderWay(q)'
    <2>1. q.kind \notin Listings
        BY <1>9 DEF Listings
    <2>2. UNCHANGED <<trail, next_will_id>>
        BY <1>1 DEF vars
    <2>3. ASSUME page.next # NoCursor
          PROVE  Along(q.who, walk.seen, walk.cursor, walk.owed)'
        <3>1. Along(q.who, u, page.next, owed)
            BY <1>5, <1>9, <2>3
        <3> QED  BY <1>7, <2>2, <3>1 DEF Along, First, Gone, get_will_history
    <2> QED  BY <1>1, <1>5, <1>7, <1>9, <2>1, <2>3 DEF UnderWay
<1> QED  BY <1>8, <1>9, KindsOfWalks DEF WalkInv

LEMMA CallKeeps ==
    ASSUME ReadsInv, ReadsInv', Unrewritten, Fresh, WalkInv, NEW recorded, CarryAlong(recorded)
    PROVE  WalkInv'
<1>1. PICK q \in {walk.query} :
        walk' = IF walk.done THEN NoWalk ELSE [walk EXCEPT !.owed = @ \cap Standing(q)']
    BY Zenon DEF CarryAlong
<1>2. CASE walk.done
    BY <1>1, <1>2 DEF WalkInv
<1>3. CASE walk = NoWalk
    <2>1. ~walk.done /\ walk' = [NoWalk EXCEPT !.owed = {} \cap Standing(q)']
        BY <1>1, <1>3 DEF NoWalk
    <2>2. walk' = NoWalk
        BY <2>1 DEF NoWalk
    <2> QED  BY <2>2 DEF WalkInv
<1>4. ASSUME walk # NoWalk, ~walk.done
      PROVE  WalkInv'
    <2>1. PICK p \in Queries : UnderWay(p)
        BY <1>4 DEF WalkInv
    <2>2. p = walk.query /\ p = q
        BY <2>1 DEF UnderWay
    <2> DEFINE owed == walk.owed \cap Standing(p)'
    <2>3. walk' = [walk EXCEPT !.owed = owed]
        BY <1>1, <1>4, <2>2
    <2>4. walk = [query |-> p, cursor |-> walk.cursor, seen |-> walk.seen,
                  owed |-> walk.owed, done |-> walk.done]
        BY <2>1 DEF UnderWay
    <2>5. owed \subseteq walk.owed /\ owed \subseteq Standing(p)'
        OBVIOUS
    <2> HIDE DEF owed
    <2>6. walk' = [query |-> p, cursor |-> walk.cursor, seen |-> walk.seen,
                   owed |-> owed, done |-> walk.done]
        BY <2>3, <2>4
    <2>7. /\ walk'.cursor = walk.cursor /\ walk'.seen = walk.seen
          /\ walk'.owed = owed /\ walk'.done = walk.done
        BY <2>6
    <2>8. ASSUME p.kind \in Listings
          PROVE  OnTheWay(walk.seen, walk.cursor, walk.owed, Standing(p))'
        <3>1. OnTheWay(walk.seen, walk.cursor, walk.owed, Standing(p))
            BY <1>4, <2>1, <2>8 DEF UnderWay
        <3> QED  BY <2>5, <2>7, <3>1 DEF OnTheWay
    <2>9. ASSUME p.kind = "trail"
          PROVE  walk'.cursor > 0 /\ Along(p.who, walk.seen, walk.cursor, walk.owed)'
        <3> DEFINE id == p.who
        <3>1. walk.cursor > 0 /\ Along(id, walk.seen, walk.cursor, walk.owed)
            BY <1>4, <2>1, <2>9 DEF UnderWay
        <3>2. /\ Rising(walk.seen) /\ walk.cursor = Len(walk.seen) /\ id \in 1..next_will_id
              /\ walk.cursor \in Nat
            BY <3>1 DEF Along, Rising
        <3>3. walk.seen # << >>
            BY <3>1, <3>2
        <3>4. CASE id \notin DOMAIN trail'
            <4>1. Standing(p)' = {}
                <5>1. get_will_history(id)' = << >>
                    BY <3>4 DEF get_will_history
                <5>2. ToSet(<< >>) = {}
                    BY DEF ToSet
                <5>3. Standing(p)' = {e.seq : e \in ToSet(get_will_history(id)')}
                    BY <2>9 DEF Standing
                <5> QED  BY <5>1, <5>2, <5>3
            <4>2. owed = {}
                BY <2>5, <4>1
            <4>3. id \in 1..next_will_id'
                <5>1. DOMAIN trail = DOMAIN wills /\ DOMAIN trail' = DOMAIN wills'
                    BY DEF ReadsInv
                <5>2. next_will_id \in Nat /\ next_will_id' \in Nat
                    BY DEF ReadsInv, LifecycleInv
                <5> QED  BY <3>2, <5>2 DEF Fresh
            <4> QED  BY <2>7, <3>1, <3>2, <3>4, <4>2, <4>3 DEF Along
        <3>5. CASE id \in DOMAIN trail'
            <4>1. id \in DOMAIN trail
                <5>1. DOMAIN trail = DOMAIN wills /\ DOMAIN trail' = DOMAIN wills'
                    BY DEF ReadsInv
                <5>2. next_will_id \in Nat
                    BY DEF ReadsInv, LifecycleInv
                <5>3. id \in Nat
                    BY <3>5 DEF ReadsInv, LifecycleInv
                <5>4. id \in DOMAIN wills \/ id > next_will_id
                    BY <3>5, <5>1 DEF Fresh
                <5> QED  BY <3>2, <5>1, <5>2, <5>3, <5>4
            <4>2. /\ Gone(id) <= Gone(id)'
                  /\ Len(get_will_history(id)) <= Len(get_will_history(id))'
                  /\ Gone(id) \in Nat /\ Gone(id)' \in Nat
                  /\ Len(get_will_history(id)) \in Nat /\ Len(get_will_history(id))' \in Nat
                BY <3>5, <4>1, TrailMovesOn
            <4>3. id \in 1..next_will_id'
                BY <3>5 DEF ReadsInv, LifecycleInv
            <4>4. walk.seen \in Seq(Nat \ {0}) /\ walk.seen[1] \in Nat
                <5>1. 1 \in 1..Len(walk.seen) /\ walk.seen \in Seq(Nat \ {0})
                    BY <3>1, <3>2 DEF Rising
                <5> QED  BY <5>1
            <4>5. \A x \in ToSet(walk.seen) : x <= Gone(id)' + walk.cursor
                <5>1. \A x \in ToSet(walk.seen) : x \in Nat /\ x <= Gone(id) + walk.cursor
                    BY <3>1, <4>1, <4>4, SetOfList DEF Along
                <5> QED  BY <3>2, <4>2, <5>1
            <4>6. \A x \in owed : /\ x \in Nat /\ walk.seen[1] <= x
                                  /\ x < walk.seen[1] + Len(get_will_history(id))'
                <5>1. \A x \in owed : /\ x \in Nat /\ walk.seen[1] <= x
                                      /\ x < walk.seen[1] + Len(get_will_history(id))
                    BY <2>5, <3>1, <3>3, <4>1 DEF Along, First
                <5> QED  BY <4>2, <4>4, <5>1
            <4>7. First(id, walk.seen)' = walk.seen[1]
                BY <2>7, <3>3 DEF First
            <4> QED  BY <2>7, <3>1, <3>2, <3>5, <4>3, <4>5, <4>6, <4>7 DEF Along
        <3> QED  BY <3>4, <3>5
    <2>10. Rising(walk.seen) /\ walk.done = FALSE
        BY <1>4, <2>1 DEF UnderWay
    <2>11. UnderWay(p)'
        BY <2>6, <2>7, <2>8, <2>9, <2>10 DEF UnderWay
    <2> QED  BY <2>11 DEF WalkInv
<1> QED  BY <1>2, <1>3, <1>4

PagingInv == ReadsInv /\ ListsInv /\ WalkInv

LEMMA PagingStays ==
    ASSUME PagingInv, UNCHANGED read_vars
    PROVE  PagingInv'
<1>1. ReadsInv'
    BY ReadsStep DEF PagingInv
<1>2. UNCHANGED <<vars, ordered, trail, walk>>
    BY DEF read_vars
<1>3. ListsInv'
    BY <1>2 DEF PagingInv, ListsInv, InOrder, HeirsAsk, vars, indexes, ordered
<1>4. WalkInv'
    <2>1. CASE walk = NoWalk
        BY <1>2, <2>1 DEF WalkInv
    <2>2. ASSUME NEW q \in Queries, UnderWay(q)
          PROVE  UnderWay(q)'
        <3>1. Standing(q)' = Standing(q)
            BY <1>2 DEF vars, ordered, Standing, WithStatus, get_will_history
        <3>2. UNCHANGED <<trail, next_will_id, walk>>
            BY <1>2 DEF vars
        <3>3. Along(q.who, walk.seen, walk.cursor, walk.owed)'
                <=> Along(q.who, walk.seen, walk.cursor, walk.owed)
            BY <3>2 DEF Along, First, Gone, get_will_history
        <3> QED  BY <2>2, <3>1, <3>2, <3>3 DEF UnderWay
    <2> QED  BY <2>1, <2>2 DEF PagingInv, WalkInv
<1> QED  BY <1>1, <1>3, <1>4 DEF PagingInv

LEMMA PagingStep ==
    ASSUME NoTriggeredWalks, PagingInv, [ReadsNext]_read_vars, [HeirsInOrder]_read_vars
    PROVE  PagingInv'
<1>1. CASE UNCHANGED read_vars
    BY <1>1, PagingStays
<1>2. ASSUME Calls, HeirsInOrder, ~UNCHANGED read_vars
      PROVE  PagingInv'
    <2>1. PortfolioNext
        BY <1>2 DEF Calls, PortfolioNext, EstateNext, QuorumNext, LifecycleNext, PortfolioOnlyNext
    <2>2. LifecycleInv /\ LifecycleInv'
        BY <2>1, ContractStepKeeps DEF PagingInv, ReadsInv
    <2>3. ReadsInv' /\ Unrewritten
        BY <1>2, ReadsStep DEF PagingInv, ReadsNext
    <2>4. Fresh
        BY <2>1, <2>2, StepFresh DEF PagingInv, ListsInv
    <2>5. \E recorded : CarryAlong(recorded)
        BY <1>2 DEF Calls
    <2>6. ListsInv'
        BY <1>2, <2>1, <2>2, <2>5, ListsFollow DEF PagingInv
    <2>7. WalkInv'
        BY <2>3, <2>4, <2>5, CallKeeps DEF PagingInv
    <2> QED  BY <2>3, <2>6, <2>7 DEF PagingInv
<1>3. ASSUME NEW q \in Queries, ReadPage(q)
      PROVE  PagingInv'
    <2>1. ReadsInv'
        BY <1>3, ReadsStep DEF PagingInv, ReadsNext
    <2>2. UNCHANGED <<vars, ordered>>
        BY <1>3 DEF ReadPage
    <2>3. ListsInv'
        BY <2>2 DEF PagingInv, ListsInv, InOrder, HeirsAsk, vars, indexes, ordered
    <2>4. WalkInv'
        BY <1>3, ReadKeeps DEF PagingInv
    <2> QED  BY <2>1, <2>3, <2>4 DEF PagingInv
<1> QED  BY <1>1, <1>2, <1>3 DEF ReadsNext

LEMMA NobodyHasRead == ReadsInit => PagingInv
<1> SUFFICES ASSUME ReadsInit PROVE PagingInv
    OBVIOUS
<1>1. ReadsInv
    BY NobodyHasCalled
<1>2. Rising(<< >>) /\ ToSet(<< >>) = {}
    BY DEF Rising, ToSet
<1>3. /\ DOMAIN owner_wills = Accounts /\ next_will_id = 0
      /\ \A a \in Accounts : owner_wills[a] = {} /\ beneficiary_wills[a] = {}
    BY DEF ReadsInit, LifecycleInit, StorageInit
<1>4. \A a \in Accounts : owner_list[a] = << >> /\ beneficiary_list[a] = << >>
    BY DEF ReadsInit
<1>5. ListsInv
    BY <1>2, <1>3, <1>4 DEF ListsInv, InOrder
<1>6. WalkInv
    BY DEF ReadsInit, WalkInv
<1> QED  BY <1>1, <1>5, <1>6 DEF PagingInv

\* Every list that is walked through stays in the order of the numbers and every
\* walk on its way has all it is owed up to its cursor, if nobody walks through the
\* triggered wills and, should somebody walk through the wills that name an heir,
\* heirs are named only when a will is made.
THEOREM PagingHolds ==
    ASSUME NoTriggeredWalks
    PROVE  ReadsSpec /\ [][HeirsInOrder]_read_vars => []PagingInv
<1>1. PagingInv /\ [ReadsNext]_read_vars /\ [HeirsInOrder]_read_vars => PagingInv'
    BY PagingStep
<1> QED  BY <1>1, NobodyHasRead, PTL DEF ReadsSpec

\* No page of a walk brings an id or an entry again, whatever is called between two
\* pages (paginate_ids, get_wills_by_owner_and_status and its page form,
\* get_will_history_page).
THEOREM WalksNeverRepeat ==
    ASSUME NoTriggeredWalks
    PROVE  ReadsSpec /\ [][HeirsInOrder]_read_vars => []WalkNeverRepeats
<1>1. PagingInv => WalkNeverRepeats
    <2> SUFFICES ASSUME PagingInv PROVE WalkNeverRepeats
        OBVIOUS
    <2>1. Rising(<< >>)
        BY DEF Rising
    <2>2. Rising(walk.seen)
        BY <2>1 DEF PagingInv, WalkInv, UnderWay, NoWalk
    <2> QED  BY <2>2, SetOfList DEF WalkNeverRepeats, Rising
<1> QED  BY <1>1, PagingHolds, PTL

\* A client that asks for no more than a page can hold and reads to the end has seen
\* all that stood in the listing from its first page to its last, and of a trail
\* either that or a gap in the numbers.
THEOREM WalksMissNothing ==
    ASSUME NoTriggeredWalks, PageLimit <= MAX_PAGE_SIZE
    PROVE  ReadsSpec /\ [][HeirsInOrder]_read_vars => []FinishedWalkMissesNothing
<1>1. PagingInv => FinishedWalkMissesNothing
    <2> SUFFICES ASSUME PagingInv PROVE FinishedWalkMissesNothing
        OBVIOUS
    <2>1. CASE walk = NoWalk
        BY <2>1 DEF NoWalk, FinishedWalkMissesNothing
    <2>2. CASE \E q \in Queries : UnderWay(q)
        <3>1. PICK q \in Queries : UnderWay(q)
            BY <2>2
        <3>2. walk.query = q
            BY <3>1 DEF UnderWay
        <3> QED  BY <3>1, <3>2 DEF UnderWay, FinishedWalkMissesNothing
    <2> QED  BY <2>1, <2>2 DEF PagingInv, WalkInv
<1> QED  BY <1>1, PagingHolds, PTL
=============================================================================
