--------------------------- MODULE ContractProofs ---------------------------
(***************************************************************************)
(* Proofs about the dead man's switch, for any number of wills, accounts,  *)
(* tokens and any arguments:                                               *)
(*                                                                         *)
(*   the invariant of the life cycle, one statement per will, Kept, so     *)
(*   that an action which rewrites a single will has to establish it for   *)
(*   that will only (lemma OneWill);                                       *)
(*                                                                         *)
(*   the refinement of the abstract dead man's switch: each entry point    *)
(*   moves the wills it is about along one arrow, and lemma OneArrow says  *)
(*   that this is a move of the whole estate;                              *)
(*                                                                         *)
(*   the guardians, who keep both as they are;                             *)
(*                                                                         *)
(*   the whole contract: the entry points on funds, heirs, settings and    *)
(*   the archive, and those that make wills out of other wills, keep the   *)
(*   invariant of the life cycle and move wills along its arrows only.     *)
(***************************************************************************)
EXTENDS WillPortfolio, WillProperties, TLAPS

----------------------------------------------------------------------------
(* The inductive invariant *)

ControlFields == {"status", "checkin_period_days", "grace_period_days",
                  "last_checkin", "trigger_time"}

\* The fields the clock and the indexes depend on are there and have their type.
Shaped(w) ==
    /\ ControlFields \subseteq DOMAIN w
    /\ w.status \in WillStatus
    /\ w.checkin_period_days \in Nat
    /\ w.grace_period_days \in Nat
    /\ w.last_checkin \in Nat
    /\ w.trigger_time \in OptionalTime

\* What is kept about a will w at time t: `listed` says whether it is in the
\* triggered index and `newest` is its newest history entry.
Kept(w, t, listed, newest) ==
    /\ Shaped(w)
    /\ w.last_checkin <= t
    /\ listed <=> w.status = "Triggered"
    /\ w.status = "Triggered" => /\ w.trigger_time = CheckinDeadline(w)
                                 /\ w.trigger_time <= t
    /\ w.status \in {"PendingConfirmation", "Active"} => w.trigger_time = NoTime
    /\ newest.to = w.status

\* Wills that differ in other fields only are kept alike.
Agree(v, w) ==
    /\ ControlFields \subseteq DOMAIN v
    /\ v.status = w.status
    /\ v.checkin_period_days = w.checkin_period_days
    /\ v.grace_period_days = w.grace_period_days
    /\ v.last_checkin = w.last_checkin
    /\ v.trigger_time = w.trigger_time

LifecycleInv ==
    /\ now \in Nat
    /\ next_will_id \in Nat
    /\ DOMAIN wills \subseteq 1..next_will_id
    /\ DOMAIN archived_wills \subseteq 1..next_will_id
    /\ DOMAIN history = DOMAIN wills
    /\ triggered_wills \subseteq DOMAIN wills
    /\ \A id \in DOMAIN wills : Kept(wills[id], now, id \in triggered_wills, history[id])

----------------------------------------------------------------------------
(* Steps on one will *)

LEMMA OtherFieldsIrrelevant ==
    ASSUME NEW v, NEW w, NEW t, NEW listed, NEW newest,
           Agree(v, w), Kept(w, t, listed, newest)
    PROVE  Kept(v, t, listed, newest)
BY DEF Agree, Kept, Shaped, CheckinDeadline

\* A step that rewrites will `id` to w, and its history and index entries.
LEMMA OneWill ==
    ASSUME LifecycleInv,
           NEW id, NEW w,
           wills' = Put(wills, id, w),
           DOMAIN history' = DOMAIN history \cup {id},
           \A x \in DOMAIN history : x # id => history'[x] = history[x],
           UNCHANGED <<now, archived_wills>>,
           next_will_id' \in Nat, next_will_id <= next_will_id', id \in 1..next_will_id',
           triggered_wills' \subseteq triggered_wills \cup {id},
           triggered_wills \subseteq triggered_wills' \cup {id},
           Kept(w, now, id \in triggered_wills', history'[id])
    PROVE  LifecycleInv'
<1>1. /\ DOMAIN wills' = DOMAIN wills \cup {id}
      /\ wills'[id] = w
      /\ \A x \in DOMAIN wills : x # id => wills'[x] = wills[x]
    BY DEF Put
<1>2. DOMAIN history' = DOMAIN wills' /\ triggered_wills' \subseteq DOMAIN wills'
    BY <1>1 DEF LifecycleInv
<1>3. /\ DOMAIN wills' \subseteq 1..next_will_id'
      /\ DOMAIN archived_wills' \subseteq 1..next_will_id'
    BY <1>1 DEF LifecycleInv
<1>4. ASSUME NEW other \in DOMAIN wills'
      PROVE  Kept(wills'[other], now', other \in triggered_wills', history'[other])
    <2>1. CASE other = id
        BY <2>1, <1>1
    <2>2. CASE other # id
        <3>1. /\ other \in DOMAIN wills
              /\ wills'[other] = wills[other]
              /\ history'[other] = history[other]
              /\ other \in triggered_wills' <=> other \in triggered_wills
            BY <2>2, <1>1 DEF LifecycleInv
        <3> QED  BY <3>1 DEF LifecycleInv, Kept
    <2> QED  BY <2>1, <2>2
<1> QED  BY <1>2, <1>3, <1>4 DEF LifecycleInv

\* The same for an entry point that touches nothing else and records nothing.
LEMMA OneWillQuietly ==
    ASSUME LifecycleInv,
           NEW id \in DOMAIN wills, NEW w,
           wills' = Put(wills, id, w),
           UNCHANGED <<now, archived_wills, next_will_id, triggered_wills, history>>,
           Kept(w, now, id \in triggered_wills, history[id])
    PROVE  LifecycleInv'
<1>1. id \in DOMAIN history /\ id \in 1..next_will_id /\ next_will_id \in Nat
    BY DEF LifecycleInv
<1>2. /\ DOMAIN history' = DOMAIN history \cup {id}
      /\ \A x \in DOMAIN history : x # id => history'[x] = history[x]
      /\ next_will_id' \in Nat /\ next_will_id <= next_will_id' /\ id \in 1..next_will_id'
      /\ Kept(w, now, id \in triggered_wills', history'[id])
    BY <1>1
<1> QED  BY <1>2, OneWill

LEMMA Recorded ==
    ASSUME NEW id, NEW from, NEW to, record_transition(id, from, to)
    PROVE  /\ DOMAIN history' = DOMAIN history \cup {id}
           /\ \A x \in DOMAIN history : x # id => history'[x] = history[x]
           /\ history'[id].to = to
BY DEF record_transition, Put

\* The same for an entry point that records a transition.
LEMMA OneWillRecorded ==
    ASSUME LifecycleInv,
           NEW id \in DOMAIN wills, NEW w, NEW from, NEW to,
           wills' = Put(wills, id, w),
           record_transition(id, from, to),
           UNCHANGED <<now, archived_wills, next_will_id>>,
           triggered_wills' \subseteq triggered_wills \cup {id},
           triggered_wills \subseteq triggered_wills' \cup {id},
           Kept(w, now, id \in triggered_wills', [from |-> from, to |-> to])
    PROVE  LifecycleInv'
<1>1. id \in 1..next_will_id /\ next_will_id \in Nat
    BY DEF LifecycleInv
<1>2. /\ DOMAIN history' = DOMAIN history \cup {id}
      /\ \A x \in DOMAIN history : x # id => history'[x] = history[x]
      /\ history'[id].to = to
    BY Recorded
<1>3. Kept(w, now, id \in triggered_wills', history'[id])
    BY <1>2 DEF Kept
<1>4. next_will_id' \in Nat /\ next_will_id <= next_will_id' /\ id \in 1..next_will_id'
    BY <1>1
<1> QED  BY <1>2, <1>3, <1>4, OneWill

----------------------------------------------------------------------------
(* The owner's entry points *)

LEMMA CreateKeeps ==
    ASSUME LifecycleInv, NEW owner \in Accounts, NEW form \in CreateForms,
           create_will(owner, form)
    PROVE  LifecycleInv'
<1> DEFINE id == next_will_id + 1
           w  == NewWill(owner, form)
<1>1. /\ wills' = Put(wills, id, w)
      /\ record_transition(id, w.status, w.status)
      /\ UNCHANGED <<now, archived_wills, triggered_wills>>
      /\ next_will_id' = id
      /\ ValidForm(owner, form)
    BY DEF create_will, save_will, SaveWithVotes
<1>2. /\ next_will_id \in Nat /\ now \in Nat
      /\ id \notin triggered_wills
    BY DEF LifecycleInv
<1>3. form.checkin \in Nat /\ form.grace \in Nat
    BY <1>1, BoundsAssumption DEF ValidForm, assert_valid_periods
<1>4. Kept(w, now, FALSE, [from |-> w.status, to |-> w.status])
    BY <1>2, <1>3 DEF NewWill, Kept, Shaped, ControlFields, WillStatus, OptionalTime, NoTime
<1>5. /\ DOMAIN history' = DOMAIN history \cup {id}
      /\ \A x \in DOMAIN history : x # id => history'[x] = history[x]
      /\ history'[id].to = w.status
    BY <1>1, Recorded
<1>6. Kept(w, now, id \in triggered_wills', history'[id])
    BY <1>1, <1>2, <1>4, <1>5 DEF Kept
<1>7. /\ next_will_id' \in Nat /\ next_will_id <= next_will_id' /\ id \in 1..next_will_id'
      /\ triggered_wills' = triggered_wills
    BY <1>1, <1>2
<1> QED  BY <1>1, <1>5, <1>6, <1>7, OneWill

LEMMA ConfirmKeeps ==
    ASSUME LifecycleInv, NEW id \in DOMAIN wills, NEW owner \in Accounts,
           confirm_will(id, owner)
    PROVE  LifecycleInv'
<1> DEFINE w == [wills[id] EXCEPT !.status = "Active",
                                  !.last_checkin = now,
                                  !.confirmation_deadline = NoTime]
<1>1. /\ wills' = Put(wills, id, w)
      /\ record_transition(id, "PendingConfirmation", "Active")
      /\ UNCHANGED <<now, archived_wills, next_will_id, triggered_wills>>
      /\ wills[id].status = "PendingConfirmation"
    BY DEF confirm_will, save_will, SaveWithVotes, OnlyTheWill, indexes, HasStatus
<1>2. Kept(wills[id], now, id \in triggered_wills, history[id]) /\ now \in Nat
    BY DEF LifecycleInv
<1>3. Kept(w, now, id \in triggered_wills, [from |-> "PendingConfirmation", to |-> "Active"])
    BY <1>1, <1>2 DEF Kept, Shaped, ControlFields, WillStatus
<1> QED  BY <1>1, <1>3, OneWillRecorded

LEMMA SetDelegateKeeps ==
    ASSUME LifecycleInv, NEW id \in DOMAIN wills, NEW owner, NEW delegate,
           set_delegate(id, owner, delegate)
    PROVE  LifecycleInv'
<1> DEFINE w == [wills[id] EXCEPT !.delegate = delegate]
<1>1. /\ wills' = Put(wills, id, w)
      /\ UNCHANGED <<now, archived_wills, next_will_id, triggered_wills, history>>
    BY DEF set_delegate, save_will, SaveWithVotes, OnlyTheWill, indexes
<1>2. Kept(wills[id], now, id \in triggered_wills, history[id])
    BY DEF LifecycleInv
<1>3. Kept(w, now, id \in triggered_wills, history[id])
    BY <1>2 DEF Kept, Shaped, ControlFields, CheckinDeadline
<1> QED  BY <1>1, <1>3, OneWillQuietly

LEMMA UpdatePeriodsKeeps ==
    ASSUME LifecycleInv, NEW id \in DOMAIN wills, NEW owner, NEW checkin, NEW grace,
           update_periods(id, owner, checkin, grace)
    PROVE  LifecycleInv'
<1> DEFINE w == WithPeriods(wills[id], checkin, grace)
<1>1. /\ wills' = Put(wills, id, w)
      /\ UNCHANGED <<now, archived_wills, next_will_id, triggered_wills, history>>
      /\ wills[id].status = "Active"
      /\ {checkin, grace} \subseteq (1..MAX_PERIOD_DAYS) \cup {NoTime}
    BY DEF update_periods, save_will, SaveWithVotes, OnlyTheWill, indexes, HasStatus
<1>2. Kept(wills[id], now, id \in triggered_wills, history[id])
    BY DEF LifecycleInv
<1>3. Kept(w, now, id \in triggered_wills, history[id])
    BY <1>1, <1>2, BoundsAssumption DEF WithPeriods, Kept, Shaped, ControlFields, NoTime
<1> QED  BY <1>1, <1>3, OneWillQuietly

LEMMA RevivedKept ==
    ASSUME NEW w, Shaped(w), now \in Nat
    PROVE  Kept(Revived(w), now, FALSE, [from |-> "Triggered", to |-> "Active"])
BY DEF Revived, Kept, Shaped, ControlFields, WillStatus, OptionalTime, NoTime

LEMMA EmergencyCheckinKeeps ==
    ASSUME LifecycleInv, NEW id \in DOMAIN wills, NEW owner, emergency_checkin(id, owner)
    PROVE  LifecycleInv'
<1> DEFINE w == sync_primary_balance(Revived(wills[id]))
<1>1. /\ wills' = Put(wills, id, w)
      /\ record_transition(id, "Triggered", "Active")
      /\ UNCHANGED <<now, archived_wills, next_will_id>>
      /\ triggered_wills' = triggered_wills \ {id}
    BY DEF emergency_checkin, SaveWithVotes, unindex_triggered_will
<1>2. Kept(wills[id], now, id \in triggered_wills, history[id]) /\ now \in Nat
    BY DEF LifecycleInv
<1>3. Kept(Revived(wills[id]), now, FALSE, [from |-> "Triggered", to |-> "Active"])
    BY <1>2, RevivedKept DEF Kept
<1>4. Kept(w, now, FALSE, [from |-> "Triggered", to |-> "Active"])
    <2>1. Agree(w, Revived(wills[id]))
        BY <1>2 DEF sync_primary_balance, Revived, Agree, Kept, Shaped, ControlFields
    <2> QED  BY <1>3, <2>1, OtherFieldsIrrelevant
<1>5. ~(id \in triggered_wills')
    BY <1>1
<1>6. Kept(w, now, id \in triggered_wills', [from |-> "Triggered", to |-> "Active"])
    BY <1>4, <1>5 DEF Kept
<1> QED  BY <1>1, <1>6, OneWillRecorded

LEMMA CancelKeeps ==
    ASSUME LifecycleInv, NEW id \in DOMAIN wills, NEW owner, cancel_will(id, owner)
    PROVE  LifecycleInv'
<1> DEFINE w == [wills[id] EXCEPT !.balance = 0, !.balances = << >>, !.status = "Cancelled"]
<1>1. /\ wills' = Put(wills, id, w)
      /\ record_transition(id, wills[id].status, "Cancelled")
      /\ UNCHANGED <<now, archived_wills, next_will_id, triggered_wills>>
      /\ wills[id].status \in {"Active", "PendingConfirmation"}
    BY DEF cancel_will, save_will, SaveWithVotes
<1>2. Kept(wills[id], now, id \in triggered_wills, history[id])
    BY DEF LifecycleInv
<1>3. Kept(w, now, id \in triggered_wills', [from |-> wills[id].status, to |-> "Cancelled"])
    BY <1>1, <1>2 DEF Kept, Shaped, ControlFields, WillStatus
<1>4. triggered_wills' = triggered_wills
    BY <1>1
<1> QED  BY <1>1, <1>3, <1>4, OneWillRecorded

LEMMA CloseKeeps ==
    ASSUME LifecycleInv, NEW id \in DOMAIN wills, NEW owner, close_will(id, owner)
    PROVE  LifecycleInv'
<1> DEFINE w == [wills[id] EXCEPT !.status = "Settled"]
<1>1. /\ wills' = Put(wills, id, w)
      /\ record_transition(id, "Released", "Settled")
      /\ UNCHANGED <<now, archived_wills, next_will_id, triggered_wills>>
      /\ wills[id].status = "Released"
    BY DEF close_will, save_will, SaveWithVotes, OnlyTheWill, indexes, HasStatus
<1>2. Kept(wills[id], now, id \in triggered_wills, history[id])
    BY DEF LifecycleInv
<1>3. Kept(w, now, id \in triggered_wills', [from |-> "Released", to |-> "Settled"])
    BY <1>1, <1>2 DEF Kept, Shaped, ControlFields, WillStatus
<1> QED  BY <1>1, <1>3, OneWillRecorded

LEMMA BatchCheckInKeeps ==
    ASSUME LifecycleInv, NEW owner, NEW ids \in SUBSET DOMAIN wills,
           batch_check_in(owner, ids)
    PROVE  LifecycleInv'
<1>1. /\ UNCHANGED <<now, next_will_id, archived_wills, triggered_wills>>
      /\ DOMAIN wills' = DOMAIN wills
      /\ DOMAIN history' = DOMAIN history \cup ids
    BY DEF batch_check_in, CheckedIn, OnlyTheWill, indexes
<1>2. ASSUME NEW id \in DOMAIN wills
      PROVE  Kept(wills'[id], now, id \in triggered_wills, history'[id])
    <2>1. Kept(wills[id], now, id \in triggered_wills, history[id]) /\ now \in Nat
        BY DEF LifecycleInv
    <2>2. CASE id \in ids
        <3>1. /\ wills[id].status = "Active"
              /\ wills'[id] = [wills[id] EXCEPT !.last_checkin = now]
              /\ history'[id] = [from |-> "Active", to |-> "Active"]
            BY <2>2 DEF batch_check_in, CheckedIn, HasStatus
        <3> QED  BY <2>1, <3>1 DEF Kept, Shaped, ControlFields
    <2>3. CASE id \notin ids
        <3>1. wills'[id] = wills[id] /\ history'[id] = history[id]
            BY <2>3 DEF batch_check_in, CheckedIn, LifecycleInv
        <3> QED  BY <2>1, <3>1
    <2> QED  BY <2>2, <2>3
<1> QED  BY <1>1, <1>2 DEF LifecycleInv

----------------------------------------------------------------------------
(* The permissionless entry points and the clock *)

LEMMA CheckInKeeps ==
    ASSUME LifecycleInv, NEW id \in DOMAIN wills, NEW caller, check_in(id, caller)
    PROVE  LifecycleInv'
<1> DEFINE w == [wills[id] EXCEPT !.last_checkin = now]
<1>1. /\ wills' = Put(wills, id, w)
      /\ record_transition(id, "Active", "Active")
      /\ UNCHANGED <<now, archived_wills, next_will_id, triggered_wills>>
      /\ wills[id].status = "Active"
    BY DEF check_in, save_will, SaveWithVotes, OnlyTheWill, indexes, HasStatus
<1>2. Kept(wills[id], now, id \in triggered_wills, history[id]) /\ now \in Nat
    BY DEF LifecycleInv
<1>3. Kept(w, now, id \in triggered_wills', [from |-> "Active", to |-> "Active"])
    BY <1>1, <1>2 DEF Kept, Shaped, ControlFields
<1> QED  BY <1>1, <1>3, OneWillRecorded

LEMMA TriggerKeeps ==
    ASSUME LifecycleInv, NEW id \in DOMAIN wills, trigger_will(id)
    PROVE  LifecycleInv'
<1> DEFINE w == [wills[id] EXCEPT !.status = "Triggered",
                                  !.trigger_time = CheckinDeadline(wills[id])]
<1>1. /\ wills' = Put(wills, id, w)
      /\ record_transition(id, "Active", "Triggered")
      /\ UNCHANGED <<now, archived_wills, next_will_id>>
      /\ triggered_wills' = triggered_wills \cup {id}
      /\ wills[id].status = "Active"
      /\ CheckinDeadline(wills[id]) <= now
    BY DEF trigger_will, save_will, SaveWithVotes, HasStatus, index_triggered_will
<1>2. Kept(wills[id], now, id \in triggered_wills, history[id]) /\ now \in Nat
    BY DEF LifecycleInv
<1>3. CheckinDeadline(wills[id]) \in Nat
    BY <1>2, BoundsAssumption DEF CheckinDeadline, Kept, Shaped
<1>4. Shaped(w) /\ CheckinDeadline(w) = CheckinDeadline(wills[id])
    BY <1>2, <1>3 DEF Kept, Shaped, ControlFields, WillStatus, OptionalTime, CheckinDeadline
<1>5. id \in triggered_wills'
    BY <1>1
<1>6. w.status = "Triggered" /\ w.trigger_time = CheckinDeadline(wills[id])
      /\ w.last_checkin = wills[id].last_checkin
    BY <1>2 DEF Kept, Shaped, ControlFields
<1>7. Kept(w, now, id \in triggered_wills', [from |-> "Active", to |-> "Triggered"])
    BY <1>1, <1>2, <1>4, <1>5, <1>6 DEF Kept
<1> QED  BY <1>1, <1>7, OneWillRecorded

LEMMA ReleaseKeeps ==
    ASSUME LifecycleInv, NEW id \in DOMAIN wills, NEW keeper, NEW refused,
           release_inheritance(id, keeper, refused)
    PROVE  LifecycleInv'
<1> DEFINE Released(left) == [wills[id] EXCEPT !.balances = left,
                                               !.balance  = BalanceOf(left, wills[id].token),
                                               !.status   = "Released"]
<1>1. /\ record_transition(id, "Triggered", "Released")
      /\ UNCHANGED <<now, archived_wills, next_will_id>>
      /\ triggered_wills' = triggered_wills \ {id}
      /\ \E left : wills' = Put(wills, id, Released(left))
    BY DEF release_inheritance, distribute, SaveWithVotes, unindex_triggered_will
<1>2. PICK left : wills' = Put(wills, id, Released(left))
    BY <1>1
<1>3. Kept(wills[id], now, id \in triggered_wills, history[id])
    BY DEF LifecycleInv
<1>4. ~(id \in triggered_wills')
    BY <1>1
<1>5. Kept(Released(left), now, id \in triggered_wills',
           [from |-> "Triggered", to |-> "Released"])
    BY <1>3, <1>4 DEF Kept, Shaped, ControlFields, WillStatus
<1> QED  BY <1>1, <1>2, <1>5, OneWillRecorded

LEMMA TickKeeps ==
    ASSUME LifecycleInv, Tick
    PROVE  LifecycleInv'
<1>1. /\ now' = now + 1 /\ now \in Nat
      /\ UNCHANGED <<next_will_id, wills, archived_wills, triggered_wills, history>>
    BY DEF Tick, indexes, LifecycleInv
<1>2. ASSUME NEW id \in DOMAIN wills
      PROVE  Kept(wills[id], now + 1, id \in triggered_wills, history[id])
    <2>1. Kept(wills[id], now, id \in triggered_wills, history[id])
        BY DEF LifecycleInv
    <2>2. Shaped(wills[id]) /\ CheckinDeadline(wills[id]) \in Nat
        BY <2>1, BoundsAssumption DEF Kept, Shaped, CheckinDeadline
    <2> QED  BY <1>1, <2>1, <2>2 DEF Kept, Shaped
<1> QED  BY <1>1, <1>2 DEF LifecycleInv

----------------------------------------------------------------------------
(* The invariant, and what it gives *)

\* Storage is consistent before the first call.
LEMMA InitEstablishes == LifecycleInit => LifecycleInv
BY DEF LifecycleInit, StorageInit, LifecycleInv

\* Every call keeps it so.
LEMMA StepKeeps == LifecycleInv /\ [LifecycleNext]_vars => LifecycleInv'
<1> SUFFICES ASSUME LifecycleInv, [LifecycleNext]_vars
             PROVE  LifecycleInv'
    OBVIOUS
<1>1. CASE OwnerNext
    <2> SUFFICES ASSUME NEW owner \in Accounts,
                        \/ \E form \in CreateForms : create_will(owner, form)
                        \/ \E id \in DOMAIN wills :
                            \/ confirm_will(id, owner)
                            \/ \E delegate \in Delegates : set_delegate(id, owner, delegate)
                            \/ \E p \in PeriodUpdates : update_periods(id, owner, p[1], p[2])
                            \/ emergency_checkin(id, owner)
                            \/ cancel_will(id, owner)
                            \/ close_will(id, owner)
                 PROVE  LifecycleInv'
        BY <1>1 DEF OwnerNext
    <2> QED  BY CreateKeeps, ConfirmKeeps, SetDelegateKeeps,
                UpdatePeriodsKeeps, EmergencyCheckinKeeps, CancelKeeps, CloseKeeps
<1>2. CASE AnyoneNext
    BY <1>2, TriggerKeeps, ReleaseKeeps DEF AnyoneNext
<1>3. CASE \E ids \in SUBSET DOMAIN wills : SignOfLife(ids)
    BY <1>3, CheckInKeeps, BatchCheckInKeeps DEF SignOfLife
<1>4. CASE Tick
    BY <1>4, TickKeeps
<1>5. CASE UNCHANGED vars
    BY <1>5 DEF vars, indexes, LifecycleInv
<1> QED  BY <1>1, <1>2, <1>3, <1>4, <1>5 DEF LifecycleNext

\* LifecycleInv holds in every reachable state of the life cycle.
THEOREM InvariantHolds == LifecycleSpec => []LifecycleInv
BY InitEstablishes, StepKeeps, PTL DEF LifecycleSpec

\* Whatever the owner, the delegate and the keepers do and in whatever order,
\* a triggered will carries the deadline that was missed and a running one
\* carries none (trigger_will, emergency_checkin, update_periods).
THEOREM TriggerTimeHolds == LifecycleSpec => []TriggerTimeIsTheMissedDeadline
<1>1. LifecycleInv => TriggerTimeIsTheMissedDeadline
    BY DEF LifecycleInv, Kept, TriggerTimeIsTheMissedDeadline
<1> QED  BY <1>1, InvariantHolds, PTL

\* The triggered index lists the wills in their grace period and no other
\* (index_triggered_will and unindex_triggered_will are called on every path).
THEOREM TriggeredIndexHolds == LifecycleSpec => []TriggeredIndexExact
<1>1. LifecycleInv => TriggeredIndexExact
    BY DEF LifecycleInv, Kept, TriggeredIndexExact
<1> QED  BY <1>1, InvariantHolds, PTL

\* The audit trail of every stored will ends in the status the will has.
THEOREM TrailHolds == LifecycleSpec => []TrailEndsInStatus
<1>1. LifecycleInv => TrailEndsInStatus
    BY DEF LifecycleInv, Kept, TrailEndsInStatus
<1> QED  BY <1>1, InvariantHolds, PTL

----------------------------------------------------------------------------
(* The refinement: what the abstract switch sees *)

\* What the abstract life cycle sees of a stored will.
Seen(status, heard, checkin, grace) ==
    [status |-> status, heard |-> heard, checkin |-> checkin, grace |-> grace]

Face(w) == Seen(w.status, w.last_checkin, w.checkin_period_days, w.grace_period_days)

LEMMA StoredFace ==
    ASSUME NEW id \in WillIds, id \in DOMAIN wills
    PROVE  AbstractEstate[id] = Face(wills[id])
BY DEF AbstractEstate, Face, Seen

LEMMA FreshFace ==
    ASSUME NEW id \in WillIds, id \notin DOMAIN wills, id \notin DOMAIN archived_wills
    PROVE  AbstractEstate[id] = Promise!Absent
BY DEF AbstractEstate, Promise!Absent

\* A step that rewrites the stored will `id` to w.
LEMMA OneArrow ==
    ASSUME NEW id \in DOMAIN wills, NEW w,
           wills' = Put(wills, id, w),
           UNCHANGED <<now, archived_wills>>,
           Face(w) = Face(wills[id]) \/ Promise!Arrow(Face(wills[id]), Face(w))
    PROVE  Promise!Move
<1>1. /\ DOMAIN wills' = DOMAIN wills
      /\ wills'[id] = w
      /\ \A x \in DOMAIN wills : x # id => wills'[x] = wills[x]
    BY DEF Put
<1>2. ASSUME NEW x \in WillIds
      PROVE  \/ AbstractEstate'[x] = AbstractEstate[x]
             \/ Promise!Arrow(AbstractEstate[x], AbstractEstate'[x])
    <2>1. CASE x = id
        <3>1. AbstractEstate[x] = Face(wills[id]) /\ AbstractEstate'[x] = Face(w)
            BY <1>1, <2>1 DEF AbstractEstate, Face, Seen
        <3> QED  BY <3>1
    <2>2. CASE x # id
        <3>1. AbstractEstate'[x] = AbstractEstate[x]
            BY <1>1, <2>2 DEF AbstractEstate
        <3> QED  BY <3>1
    <2> QED  BY <2>1, <2>2
<1> QED  BY <1>2 DEF Promise!Move

\* The arrows that change more than the status, field by field.
LEMMA ConfirmArrow ==
    ASSUME NEW v, NEW w, v.status = "PendingConfirmation", w.status = "Active",
           w.last_checkin = now,
           w.checkin_period_days = v.checkin_period_days,
           w.grace_period_days = v.grace_period_days
    PROVE  Promise!Confirm(Face(v), Face(w))
<1> DEFINE old   == Face(v)
           alive == Seen("Active", v.last_checkin, v.checkin_period_days, v.grace_period_days)
<1>1. old.status = "PendingConfirmation"
    BY DEF Face, Seen
<1>2. [old EXCEPT !.status = "Active"] = alive
    BY DEF Face, Seen
<1>3. [alive EXCEPT !.heard = now] = Face(w)
    BY DEF Face, Seen
<1> HIDE DEF old, alive
<1>4. Face(w) = [old EXCEPT !.status = "Active", !.heard = now]
    BY <1>2, <1>3
<1> QED  BY <1>1, <1>4 DEF Promise!Confirm, old

LEMMA CheckInArrow ==
    ASSUME NEW v, NEW w, v.status = "Active", w.status = "Active",
           w.last_checkin = now,
           w.checkin_period_days = v.checkin_period_days,
           w.grace_period_days = v.grace_period_days
    PROVE  Promise!CheckIn(Face(v), Face(w))
BY DEF Promise!CheckIn, Face, Seen

LEMMA PeriodsArrow ==
    ASSUME NEW v, NEW w, v.status = "Active", w.status = "Active",
           w.last_checkin = v.last_checkin
    PROVE  Promise!ChangePeriods(Face(v), Face(w))
<1> DEFINE old    == Face(v)
           paced  == Seen("Active", v.last_checkin, w.checkin_period_days, v.grace_period_days)
<1>1. /\ old.status = "Active"
      /\ Face(w).checkin = w.checkin_period_days /\ Face(w).grace = w.grace_period_days
    BY DEF Face, Seen
<1>2. [old EXCEPT !.checkin = w.checkin_period_days] = paced
    BY DEF Face, Seen
<1>3. [paced EXCEPT !.grace = w.grace_period_days] = Face(w)
    BY DEF Face, Seen
<1> HIDE DEF old, paced
<1>4. Face(w) = [old EXCEPT !.checkin = Face(w).checkin, !.grace = Face(w).grace]
    BY <1>1, <1>2, <1>3
<1> QED  BY <1>1, <1>4 DEF Promise!ChangePeriods, old

LEMMA RecoverArrow ==
    ASSUME NEW v, NEW w, v.status = "Triggered", w.status = "Active",
           w.last_checkin = now, now <= Promise!Mercy(Face(v)),
           w.checkin_period_days = v.checkin_period_days,
           w.grace_period_days = v.grace_period_days
    PROVE  Promise!Recover(Face(v), Face(w))
<1> DEFINE old   == Face(v)
           alive == Seen("Active", v.last_checkin, v.checkin_period_days, v.grace_period_days)
<1>1. old.status = "Triggered"
    BY DEF Face, Seen
<1>2. [old EXCEPT !.status = "Active"] = alive
    BY DEF Face, Seen
<1>3. [alive EXCEPT !.heard = now] = Face(w)
    BY DEF Face, Seen
<1> HIDE DEF old, alive
<1>4. Face(w) = [old EXCEPT !.status = "Active", !.heard = now]
    BY <1>2, <1>3
<1> QED  BY <1>1, <1>4 DEF Promise!Recover, old

----------------------------------------------------------------------------
(* The owner's entry points *)

LEMMA CreateMoves ==
    ASSUME LifecycleInv, NEW owner, NEW form, create_will(owner, form)
    PROVE  Promise!Move
<1> DEFINE id == next_will_id + 1
           w  == NewWill(owner, form)
<1>1. wills' = Put(wills, id, w) /\ UNCHANGED <<now, archived_wills>>
    BY DEF create_will, save_will, SaveWithVotes
<1>2. id \notin DOMAIN wills /\ id \notin DOMAIN archived_wills
    BY DEF LifecycleInv
<1>3. /\ DOMAIN wills' = DOMAIN wills \cup {id}
      /\ wills'[id] = w
      /\ \A x \in DOMAIN wills : x # id => wills'[x] = wills[x]
    BY <1>1 DEF Put
<1>4. Promise!Create(Promise!Absent, Face(w))
    BY DEF Promise!Create, Face, Seen, NewWill
<1>5. ASSUME NEW x \in WillIds
      PROVE  \/ AbstractEstate'[x] = AbstractEstate[x]
             \/ Promise!Arrow(AbstractEstate[x], AbstractEstate'[x])
    <2>1. CASE x = id
        <3>1. AbstractEstate[x] = Promise!Absent
            BY <1>2, <2>1, FreshFace
        <3>2. AbstractEstate'[x] = Face(w)
            BY <1>3, <2>1 DEF AbstractEstate, Face, Seen
        <3> QED  BY <1>4, <3>1, <3>2 DEF Promise!Arrow
    <2>2. CASE x # id
        <3>1. AbstractEstate'[x] = AbstractEstate[x]
            BY <1>1, <1>3, <2>2 DEF AbstractEstate
        <3> QED  BY <3>1
    <2> QED  BY <2>1, <2>2
<1> QED  BY <1>1, <1>5 DEF Promise!Move

LEMMA ConfirmMoves ==
    ASSUME LifecycleInv, NEW id \in DOMAIN wills, NEW owner, confirm_will(id, owner)
    PROVE  Promise!Move
<1> DEFINE w == [wills[id] EXCEPT !.status = "Active",
                                  !.last_checkin = now,
                                  !.confirmation_deadline = NoTime]
<1>1. /\ wills' = Put(wills, id, w)
      /\ UNCHANGED <<now, archived_wills>>
      /\ wills[id].status = "PendingConfirmation"
    BY DEF confirm_will, save_will, SaveWithVotes, OnlyTheWill, HasStatus
<1>2. Shaped(wills[id])
    BY DEF LifecycleInv, Kept
<1>3. /\ w.status = "Active" /\ w.last_checkin = now
      /\ w.checkin_period_days = wills[id].checkin_period_days
      /\ w.grace_period_days = wills[id].grace_period_days
    BY <1>2 DEF Shaped, ControlFields
<1>4. Promise!Confirm(Face(wills[id]), Face(w))
    BY <1>1, <1>3, ConfirmArrow
<1> QED  BY <1>1, <1>4, OneArrow DEF Promise!Arrow

LEMMA SetDelegateMoves ==
    ASSUME LifecycleInv, NEW id \in DOMAIN wills, NEW owner, NEW delegate,
           set_delegate(id, owner, delegate)
    PROVE  Promise!Move
<1> DEFINE w == [wills[id] EXCEPT !.delegate = delegate]
<1>1. wills' = Put(wills, id, w) /\ UNCHANGED <<now, archived_wills>>
    BY DEF set_delegate, save_will, SaveWithVotes, OnlyTheWill
<1>2. Face(w) = Face(wills[id])
    BY DEF Face, Seen
<1> QED  BY <1>1, <1>2, OneArrow

LEMMA UpdatePeriodsMoves ==
    ASSUME LifecycleInv, NEW id \in DOMAIN wills, NEW owner, NEW checkin, NEW grace,
           update_periods(id, owner, checkin, grace)
    PROVE  Promise!Move
<1> DEFINE w == WithPeriods(wills[id], checkin, grace)
<1>1. /\ wills' = Put(wills, id, w)
      /\ UNCHANGED <<now, archived_wills>>
      /\ wills[id].status = "Active"
    BY DEF update_periods, save_will, SaveWithVotes, OnlyTheWill, HasStatus
<1>2. Shaped(wills[id])
    BY DEF LifecycleInv, Kept
<1>3. w.status = "Active" /\ w.last_checkin = wills[id].last_checkin
    BY <1>1, <1>2 DEF WithPeriods, Shaped, ControlFields
<1>4. Promise!ChangePeriods(Face(wills[id]), Face(w))
    BY <1>1, <1>3, PeriodsArrow
<1> QED  BY <1>1, <1>4, OneArrow DEF Promise!Arrow

\* The owner's last chance ends where the keepers' first begins: at the grace
\* deadline of the missed check-in.
LEMMA GraceIsMercy ==
    ASSUME LifecycleInv, NEW id \in DOMAIN wills, wills[id].status = "Triggered"
    PROVE  grace_deadline(wills[id]) = Promise!Mercy(Face(wills[id]))
<1>1. wills[id].trigger_time = CheckinDeadline(wills[id])
    BY DEF LifecycleInv, Kept
<1>2. grace_deadline(wills[id])
        = CheckinDeadline(wills[id]) + wills[id].grace_period_days * SECONDS_PER_DAY
    BY <1>1 DEF grace_deadline
<1>3. Promise!Due(Face(wills[id])) = CheckinDeadline(wills[id])
    BY DEF Promise!Due, Face, Seen, CheckinDeadline
<1> QED  BY <1>2, <1>3 DEF Promise!Mercy, Face, Seen

LEMMA EmergencyCheckinMoves ==
    ASSUME LifecycleInv, NEW id \in DOMAIN wills, NEW owner, emergency_checkin(id, owner)
    PROVE  Promise!Move
<1> DEFINE w == sync_primary_balance(Revived(wills[id]))
<1>1. /\ wills' = Put(wills, id, w)
      /\ UNCHANGED <<now, archived_wills>>
      /\ wills[id].status = "Triggered"
      /\ ~(now > grace_deadline(wills[id]))
    BY DEF emergency_checkin, SaveWithVotes, HasStatus, grace_elapsed
<1>2. Shaped(wills[id]) /\ now \in Nat
    BY DEF LifecycleInv, Kept
<1>3. Promise!Mercy(Face(wills[id])) \in Nat
    <2>1. Promise!Due(Face(wills[id])) \in Nat
        BY <1>2, BoundsAssumption DEF Promise!Due, Face, Seen, Shaped
    <2> QED  BY <1>2, <2>1, BoundsAssumption DEF Promise!Mercy, Face, Seen, Shaped
<1>4. now <= Promise!Mercy(Face(wills[id]))
    BY <1>1, <1>2, <1>3, GraceIsMercy
<1>5. /\ w.status = "Active" /\ w.last_checkin = now
      /\ w.checkin_period_days = wills[id].checkin_period_days
      /\ w.grace_period_days = wills[id].grace_period_days
    BY <1>2 DEF sync_primary_balance, Revived, Shaped, ControlFields
<1>6. Promise!Recover(Face(wills[id]), Face(w))
    BY <1>1, <1>4, <1>5, RecoverArrow
<1> QED  BY <1>1, <1>6, OneArrow DEF Promise!Arrow

LEMMA CancelMoves ==
    ASSUME LifecycleInv, NEW id \in DOMAIN wills, NEW owner, cancel_will(id, owner)
    PROVE  Promise!Move
<1> DEFINE w == [wills[id] EXCEPT !.balance = 0, !.balances = << >>, !.status = "Cancelled"]
<1>1. /\ wills' = Put(wills, id, w)
      /\ UNCHANGED <<now, archived_wills>>
      /\ wills[id].status \in {"Active", "PendingConfirmation"}
    BY DEF cancel_will, save_will, SaveWithVotes
<1>2. Shaped(wills[id])
    BY DEF LifecycleInv, Kept
<1>3. Promise!Cancel(Face(wills[id]), Face(w))
    BY <1>1, <1>2 DEF Promise!Cancel, Promise!Becomes, Face, Seen, Shaped, ControlFields
<1> QED  BY <1>1, <1>3, OneArrow DEF Promise!Arrow

LEMMA CloseMoves ==
    ASSUME LifecycleInv, NEW id \in DOMAIN wills, NEW owner, close_will(id, owner)
    PROVE  Promise!Move
<1> DEFINE w == [wills[id] EXCEPT !.status = "Settled"]
<1>1. /\ wills' = Put(wills, id, w)
      /\ UNCHANGED <<now, archived_wills>>
      /\ wills[id].status = "Released"
    BY DEF close_will, save_will, SaveWithVotes, OnlyTheWill, HasStatus
<1>2. Shaped(wills[id])
    BY DEF LifecycleInv, Kept
<1>3. Promise!Close(Face(wills[id]), Face(w))
    BY <1>1, <1>2 DEF Promise!Close, Promise!Becomes, Face, Seen, Shaped, ControlFields
<1> QED  BY <1>1, <1>3, OneArrow DEF Promise!Arrow

LEMMA BatchCheckInMoves ==
    ASSUME LifecycleInv, NEW owner, NEW ids \in SUBSET DOMAIN wills,
           batch_check_in(owner, ids)
    PROVE  Promise!Move
<1>1. UNCHANGED <<now, archived_wills>> /\ DOMAIN wills' = DOMAIN wills
    BY DEF batch_check_in, CheckedIn, OnlyTheWill
<1>2. ASSUME NEW x \in WillIds
      PROVE  \/ AbstractEstate'[x] = AbstractEstate[x]
             \/ Promise!Arrow(AbstractEstate[x], AbstractEstate'[x])
    <2>1. CASE x \in ids
        <3> DEFINE w == [wills[x] EXCEPT !.last_checkin = now]
        <3>1. wills[x].status = "Active" /\ wills'[x] = w
            BY <2>1 DEF batch_check_in, CheckedIn, HasStatus
        <3>2. Shaped(wills[x])
            BY <2>1 DEF LifecycleInv, Kept
        <3>3. /\ w.status = "Active" /\ w.last_checkin = now
              /\ w.checkin_period_days = wills[x].checkin_period_days
              /\ w.grace_period_days = wills[x].grace_period_days
            BY <3>1, <3>2 DEF Shaped, ControlFields
        <3>4. Promise!CheckIn(Face(wills[x]), Face(w))
            BY <3>1, <3>3, CheckInArrow
        <3>5. AbstractEstate[x] = Face(wills[x]) /\ AbstractEstate'[x] = Face(w)
            BY <1>1, <2>1, <3>1 DEF AbstractEstate, Face, Seen
        <3> QED  BY <3>4, <3>5 DEF Promise!Arrow
    <2>2. CASE x \notin ids
        <3>1. x \in DOMAIN wills => wills'[x] = wills[x]
            BY <2>2 DEF batch_check_in, CheckedIn
        <3>2. AbstractEstate'[x] = AbstractEstate[x]
            BY <1>1, <3>1 DEF AbstractEstate
        <3> QED  BY <3>2
    <2> QED  BY <2>1, <2>2
<1> QED  BY <1>1, <1>2 DEF Promise!Move

----------------------------------------------------------------------------
(* The permissionless entry points and the clock *)

LEMMA CheckInMoves ==
    ASSUME LifecycleInv, NEW id \in DOMAIN wills, NEW caller, check_in(id, caller)
    PROVE  Promise!Move
<1> DEFINE w == [wills[id] EXCEPT !.last_checkin = now]
<1>1. /\ wills' = Put(wills, id, w)
      /\ UNCHANGED <<now, archived_wills>>
      /\ wills[id].status = "Active"
    BY DEF check_in, save_will, SaveWithVotes, OnlyTheWill, HasStatus
<1>2. Shaped(wills[id])
    BY DEF LifecycleInv, Kept
<1>3. /\ w.status = "Active" /\ w.last_checkin = now
      /\ w.checkin_period_days = wills[id].checkin_period_days
      /\ w.grace_period_days = wills[id].grace_period_days
    BY <1>1, <1>2 DEF Shaped, ControlFields
<1>4. Promise!CheckIn(Face(wills[id]), Face(w))
    BY <1>1, <1>3, CheckInArrow
<1> QED  BY <1>1, <1>4, OneArrow DEF Promise!Arrow

LEMMA TriggerMoves ==
    ASSUME LifecycleInv, NEW id \in DOMAIN wills, trigger_will(id)
    PROVE  Promise!Move
<1> DEFINE w == [wills[id] EXCEPT !.status = "Triggered",
                                  !.trigger_time = CheckinDeadline(wills[id])]
<1>1. /\ wills' = Put(wills, id, w)
      /\ UNCHANGED <<now, archived_wills>>
      /\ wills[id].status = "Active"
      /\ now >= CheckinDeadline(wills[id])
    BY DEF trigger_will, save_will, SaveWithVotes, HasStatus
<1>2. Shaped(wills[id])
    BY DEF LifecycleInv, Kept
<1>3. Promise!Due(Face(wills[id])) = CheckinDeadline(wills[id])
    BY DEF Promise!Due, Face, Seen, CheckinDeadline
<1>4. Promise!Becomes(Face(wills[id]), Face(w), "Triggered")
    BY <1>2 DEF Promise!Becomes, Face, Seen, Shaped, ControlFields
<1>5. Face(wills[id]).status = "Active"
    BY <1>1 DEF Face, Seen
<1>6. Promise!Trigger(Face(wills[id]), Face(w))
    BY <1>1, <1>3, <1>4, <1>5 DEF Promise!Trigger
<1> QED  BY <1>1, <1>6, OneArrow DEF Promise!Arrow

LEMMA ReleaseMoves ==
    ASSUME LifecycleInv, NEW id \in DOMAIN wills, NEW keeper, NEW refused,
           release_inheritance(id, keeper, refused)
    PROVE  Promise!Move
<1> DEFINE Released(left) == [wills[id] EXCEPT !.balances = left,
                                               !.balance  = BalanceOf(left, wills[id].token),
                                               !.status   = "Released"]
<1>1. /\ UNCHANGED <<now, archived_wills>>
      /\ wills[id].status = "Triggered"
      /\ now > grace_deadline(wills[id])
      /\ \E left : wills' = Put(wills, id, Released(left))
    BY DEF release_inheritance, distribute, SaveWithVotes, HasStatus, grace_elapsed
<1>2. PICK left : wills' = Put(wills, id, Released(left))
    BY <1>1
<1>3. Shaped(wills[id])
    BY DEF LifecycleInv, Kept
<1>4. now > Promise!Mercy(Face(wills[id]))
    BY <1>1, GraceIsMercy
<1>5. Promise!Becomes(Face(wills[id]), Face(Released(left)), "Released")
    BY <1>3 DEF Promise!Becomes, Face, Seen, Shaped, ControlFields
<1>6. Face(wills[id]).status = "Triggered"
    BY <1>1 DEF Face, Seen
<1>7. Promise!Release(Face(wills[id]), Face(Released(left)))
    BY <1>4, <1>5, <1>6 DEF Promise!Release
<1> QED  BY <1>1, <1>2, <1>7, OneArrow DEF Promise!Arrow

LEMMA TickPasses ==
    ASSUME Tick
    PROVE  Promise!Pass
<1>1. now' = now + 1 /\ UNCHANGED <<wills, archived_wills>>
    BY DEF Tick
<1>2. AbstractEstate' = AbstractEstate
    BY <1>1 DEF AbstractEstate
<1> QED  BY <1>1, <1>2 DEF Promise!Pass

----------------------------------------------------------------------------
(* The refinement *)

LEMMA InitMaps == LifecycleInit => Promise!Init
<1> SUFFICES ASSUME LifecycleInit
             PROVE  Promise!Init
    OBVIOUS
<1>1. now = 0 /\ DOMAIN wills = {} /\ DOMAIN archived_wills = {}
    BY DEF LifecycleInit, StorageInit
<1>2. AbstractEstate = [id \in WillIds |-> Promise!Absent]
    BY <1>1 DEF AbstractEstate, Promise!Absent
<1> QED  BY <1>1, <1>2 DEF Promise!Init

LEMMA StepMaps ==
    LifecycleInv /\ [LifecycleNext]_vars => [Promise!Next]_<<now, AbstractEstate>>
<1> SUFFICES ASSUME LifecycleInv, [LifecycleNext]_vars
             PROVE  [Promise!Next]_<<now, AbstractEstate>>
    OBVIOUS
<1>1. CASE OwnerNext
    <2> SUFFICES ASSUME NEW owner \in Accounts,
                        \/ \E form \in CreateForms : create_will(owner, form)
                        \/ \E id \in DOMAIN wills :
                            \/ confirm_will(id, owner)
                            \/ \E delegate \in Delegates : set_delegate(id, owner, delegate)
                            \/ \E p \in PeriodUpdates : update_periods(id, owner, p[1], p[2])
                            \/ emergency_checkin(id, owner)
                            \/ cancel_will(id, owner)
                            \/ close_will(id, owner)
                 PROVE  Promise!Move
        BY <1>1 DEF OwnerNext, Promise!Next
    <2> QED  BY CreateMoves, ConfirmMoves, SetDelegateMoves, UpdatePeriodsMoves,
                EmergencyCheckinMoves, CancelMoves, CloseMoves
<1>2. CASE \E ids \in SUBSET DOMAIN wills : SignOfLife(ids)
    BY <1>2, CheckInMoves, BatchCheckInMoves DEF SignOfLife, Promise!Next
<1>3. CASE AnyoneNext
    BY <1>3, TriggerMoves, ReleaseMoves DEF AnyoneNext, Promise!Next
<1>4. CASE Tick
    BY <1>4, TickPasses DEF Promise!Next
<1>5. CASE UNCHANGED vars
    <2>1. UNCHANGED <<now, wills, archived_wills>>
        BY <1>5 DEF vars
    <2> QED  BY <2>1 DEF AbstractEstate
<1> QED  BY <1>1, <1>2, <1>3, <1>4, <1>5 DEF LifecycleNext

\* The entry points of the life cycle move every will along the arrows of the
\* abstract switch only, each on the right side of its deadline: the owner may
\* come back up to the second in which the grace period ends, and only after
\* that second may anybody release (emergency_checkin, release_inheritance).
THEOREM SwitchImplemented == LifecycleSpec => ImplementsDeadMansSwitch
BY InitMaps, StepMaps, InvariantHolds, PTL
   DEF LifecycleSpec, ImplementsDeadMansSwitch, Promise!Spec

----------------------------------------------------------------------------
(* The guardians *)

\* Both facts about a step, which every lemma below establishes together.
Sound == LifecycleInv' /\ Promise!Move

\* An entry point that rewrites fields outside the life cycle.
LEMMA OtherFieldsRewritten ==
    ASSUME LifecycleInv,
           NEW id \in DOMAIN wills, NEW w,
           wills' = Put(wills, id, w),
           UNCHANGED <<now, archived_wills, next_will_id, triggered_wills, history>>,
           Agree(w, wills[id])
    PROVE  Sound
<1>1. Kept(wills[id], now, id \in triggered_wills, history[id])
    BY DEF LifecycleInv
<1>2. Kept(w, now, id \in triggered_wills, history[id])
    BY <1>1, OtherFieldsIrrelevant
<1>3. Face(w) = Face(wills[id])
    BY DEF Agree, Face, Seen
<1>4. LifecycleInv'
    BY <1>2, OneWillQuietly
<1>5. Promise!Move
    BY <1>3, OneArrow
<1> QED  BY <1>4, <1>5 DEF Sound

----------------------------------------------------------------------------
(* Votes *)

LEMMA TalliesAgree ==
    ASSUME NEW id, NEW w, NEW records, Shaped(w)
    PROVE  Agree(Tallied(id, w, records), w) /\ Agree(CancelTallied(id, w, records), w)
BY DEF Agree, Tallied, CancelTallied, Shaped, ControlFields

LEMMA GuardianTriggerSound ==
    ASSUME LifecycleInv, NEW id \in DOMAIN wills, NEW guardian, NEW refused,
           guardian_trigger(id, guardian, refused)
    PROVE  Sound
<1> DEFINE records == [guardian_vote EXCEPT ![id][guardian] = now]
           w       == Tallied(id, wills[id], records)
           Released(left) == [w EXCEPT !.balances = left,
                                       !.balance  = BalanceOf(left, w.token),
                                       !.status   = "Released"]
<1>1. Kept(wills[id], now, id \in triggered_wills, history[id]) /\ Shaped(wills[id])
    BY DEF LifecycleInv, Kept
<1>2. wills[id].status = "Active"
    BY DEF guardian_trigger, HasStatus
<1>3. Agree(w, wills[id])
    BY <1>1, TalliesAgree
<1>4. CASE ReleaseQuorum(id, w, records)
    <2>1. /\ record_transition(id, "Active", "Released")
          /\ distribute(id, w, NoAccount, refused, protocol_stats, records)
        BY <1>4 DEF guardian_trigger
    <2> HIDE DEF w
    <2>2. /\ UNCHANGED <<now, archived_wills, next_will_id>>
          /\ triggered_wills' = triggered_wills \ {id}
          /\ \E left : wills' = Put(wills, id, Released(left))
        BY <2>1 DEF distribute, SaveWithVotes, unindex_triggered_will
    <2>3. PICK left : wills' = Put(wills, id, Released(left))
        BY <2>2
    <2>4. ~(id \in triggered_wills')
        BY <2>2
    <2>5. Kept(w, now, id \in triggered_wills, history[id])
        BY <1>1, <1>3, OtherFieldsIrrelevant
    <2>6. Kept(Released(left), now, id \in triggered_wills',
               [from |-> "Active", to |-> "Released"])
        BY <2>4, <2>5 DEF Kept, Shaped, ControlFields, WillStatus
    <2>7. LifecycleInv'
        BY <2>1, <2>2, <2>3, <2>6, OneWillRecorded
    <2>8. Promise!Becomes(Face(wills[id]), Face(Released(left)), "Released")
        BY <1>3, <2>5 DEF Promise!Becomes, Face, Seen, Agree, Kept, Shaped, ControlFields
    <2>9. Promise!GuardianRelease(Face(wills[id]), Face(Released(left)))
        BY <1>2, <2>8 DEF Promise!GuardianRelease, Face, Seen
    <2>10. Promise!Move
        BY <2>2, <2>3, <2>9, OneArrow DEF Promise!Arrow
    <2> QED  BY <2>7, <2>10 DEF Sound
<1>5. CASE ~ReleaseQuorum(id, w, records)
    <2>1. /\ wills' = Put(wills, id, w)
          /\ UNCHANGED <<now, archived_wills, next_will_id, triggered_wills, history>>
        BY <1>5 DEF guardian_trigger, SaveWithVotes, OnlyTheWill, indexes
    <2> QED  BY <1>3, <2>1, OtherFieldsRewritten
<1> QED  BY <1>4, <1>5

\* The guardians' window closes with the owner's.
LEMMA GuardianCancelSound ==
    ASSUME LifecycleInv, NEW id \in DOMAIN wills, NEW guardian,
           guardian_cancel_trigger(id, guardian)
    PROVE  Sound
<1> DEFINE records == [guardian_cancel_vote EXCEPT ![id][guardian] = now]
           w       == CancelTallied(id, wills[id], records)
<1>1. /\ Kept(wills[id], now, id \in triggered_wills, history[id])
      /\ Shaped(wills[id])
      /\ now \in Nat
    BY DEF LifecycleInv, Kept
<1>2. Agree(w, wills[id])
    BY <1>1, TalliesAgree
<1> DEFINE Rescue == /\ wills' = Put(wills, id, Revived(w))
                     /\ record_transition(id, "Triggered", "Active")
                     /\ triggered_wills' = triggered_wills \ {id}
           Vote   == /\ wills' = Put(wills, id, w)
                     /\ UNCHANGED <<triggered_wills, history>>
<1>3. /\ Rescue \/ Vote
      /\ UNCHANGED <<now, archived_wills, next_will_id>>
      /\ wills[id].status = "Triggered"
      /\ now <= TriggerTimeOrZero(wills[id]) + wills[id].grace_period_days * SECONDS_PER_DAY
    BY DEF guardian_cancel_trigger, SaveWithVotes, unindex_triggered_will, HasStatus,
           OnlyTheWill, indexes
<1>4. CASE Rescue
    <2>1. Rescue
        BY <1>4
    <2> HIDE DEF w
    <2>2. Shaped(w)
        BY <1>1, <1>2, OtherFieldsIrrelevant DEF Kept
    <2>3. Kept(Revived(w), now, FALSE, [from |-> "Triggered", to |-> "Active"])
        BY <1>1, <2>2, RevivedKept
    <2>4. ~(id \in triggered_wills')
        BY <2>1
    <2>5. Kept(Revived(w), now, id \in triggered_wills',
               [from |-> "Triggered", to |-> "Active"])
        BY <2>3, <2>4 DEF Kept
    <2>6. LifecycleInv'
        BY <1>3, <2>1, <2>5, OneWillRecorded
    <2>7. CheckinDeadline(wills[id]) \in Nat
        BY <1>1, BoundsAssumption DEF CheckinDeadline, Shaped
    <2>8. TriggerTimeOrZero(wills[id]) = CheckinDeadline(wills[id])
        BY <1>1, <1>3, <2>7 DEF TriggerTimeOrZero, Kept, NoTime
    <2>9. Promise!Due(Face(wills[id])) = CheckinDeadline(wills[id])
        BY DEF Promise!Due, Face, Seen, CheckinDeadline
    <2>10. now <= Promise!Mercy(Face(wills[id]))
        BY <1>3, <2>8, <2>9 DEF Promise!Mercy, Face, Seen
    <2>11. /\ Revived(w).status = "Active" /\ Revived(w).last_checkin = now
           /\ Revived(w).checkin_period_days = wills[id].checkin_period_days
           /\ Revived(w).grace_period_days = wills[id].grace_period_days
        BY <1>2, <2>2 DEF Revived, Agree, Shaped, ControlFields
    <2>12. Promise!Recover(Face(wills[id]), Face(Revived(w)))
        BY <1>3, <2>10, <2>11, RecoverArrow
    <2>13. Promise!Move
        BY <1>3, <2>1, <2>12, OneArrow DEF Promise!Arrow
    <2> QED  BY <2>6, <2>13 DEF Sound
<1>5. CASE Vote
    BY <1>2, <1>3, <1>5, OtherFieldsRewritten
<1> QED  BY <1>3, <1>4, <1>5

----------------------------------------------------------------------------
(* Consent and replacement *)

LEMMA AcceptSound ==
    ASSUME LifecycleInv, NEW id \in DOMAIN wills, NEW guardian,
           accept_guardian_role(id, guardian)
    PROVE  Sound
<1> DEFINE w == [wills[id] EXCEPT !.guardians[guardian].consent = "Accepted"]
<1>1. /\ wills' = Put(wills, id, w)
      /\ UNCHANGED <<now, archived_wills, next_will_id, triggered_wills, history>>
    BY DEF accept_guardian_role, save_will, SaveWithVotes, OnlyTheWill, indexes
<1>2. Agree(w, wills[id])
    BY DEF Agree, LifecycleInv, Kept, Shaped, ControlFields
<1> QED  BY <1>1, <1>2, OtherFieldsRewritten

LEMMA RejectSound ==
    ASSUME LifecycleInv, NEW id \in DOMAIN wills, NEW guardian,
           reject_guardian_role(id, guardian)
    PROVE  Sound
<1> DEFINE w == Withdrawn(id, wills[id], guardian)
<1>1. /\ wills' = Put(wills, id, w)
      /\ UNCHANGED <<now, archived_wills, next_will_id, triggered_wills, history>>
    BY DEF reject_guardian_role, SaveWithVotes, OnlyTheWill, indexes
<1>2. Agree(w, wills[id])
    BY DEF Withdrawn, Agree, LifecycleInv, Kept, Shaped, ControlFields
<1> QED  BY <1>1, <1>2, OtherFieldsRewritten

LEMMA ReplaceSound ==
    ASSUME LifecycleInv, NEW id \in DOMAIN wills, NEW guardians, NEW threshold,
           ReplaceGuardians(id, guardians, threshold)
    PROVE  Sound
<1> DEFINE w == WithGuardians(wills[id], guardians, threshold)
<1>1. /\ wills' = Put(wills, id, w)
      /\ UNCHANGED <<now, archived_wills, next_will_id, triggered_wills, history>>
    BY DEF ReplaceGuardians, SaveWithVotes, OnlyTheWill, indexes
<1>2. Agree(w, wills[id])
    BY DEF WithGuardians, Agree, LifecycleInv, Kept, Shaped, ControlFields
<1> QED  BY <1>1, <1>2, OtherFieldsRewritten

----------------------------------------------------------------------------
(* All calls together *)

LEMMA GuardianStepSound ==
    ASSUME LifecycleInv, GuardianNext \/ AppointNext
    PROVE  Sound
<1>1. CASE GuardianNext
    BY <1>1, GuardianTriggerSound, GuardianCancelSound, AcceptSound, RejectSound
       DEF GuardianNext
<1>2. CASE AppointNext
    <2> SUFFICES ASSUME NEW id \in DOMAIN wills, NEW owner \in Accounts,
                        \/ \E list \in GuardianLists : update_guardians(id, owner, list)
                        \/ \E w \in WeightedLists :
                            update_guardians_weighted(id, owner, w.guardians, w.threshold)
                 PROVE  Sound
        BY <1>2 DEF AppointNext
    <2>1. \E guardians, threshold : ReplaceGuardians(id, guardians, threshold)
        BY DEF update_guardians, update_guardians_weighted
    <2> QED  BY <2>1, ReplaceSound
<1> QED  BY <1>1, <1>2

LEMMA QuorumStepKeeps == LifecycleInv /\ [QuorumNext]_vars => LifecycleInv'
<1> SUFFICES ASSUME LifecycleInv, [QuorumNext]_vars
             PROVE  LifecycleInv'
    OBVIOUS
<1>1. CASE [LifecycleNext]_vars
    BY <1>1, StepKeeps
<1>2. CASE GuardianNext \/ AppointNext
    BY <1>2, GuardianStepSound DEF Sound
<1> QED  BY <1>1, <1>2 DEF QuorumNext

LEMMA QuorumStepMaps ==
    LifecycleInv /\ [QuorumNext]_vars => [Promise!Next]_<<now, AbstractEstate>>
<1> SUFFICES ASSUME LifecycleInv, [QuorumNext]_vars
             PROVE  [Promise!Next]_<<now, AbstractEstate>>
    OBVIOUS
<1>1. CASE [LifecycleNext]_vars
    BY <1>1, StepMaps
<1>2. CASE GuardianNext \/ AppointNext
    BY <1>2, GuardianStepSound DEF Sound, Promise!Next
<1> QED  BY <1>1, <1>2 DEF QuorumNext

\* Votes, withdrawals and new lists leave the inductive invariant of the life
\* cycle intact.
THEOREM QuorumInvariantHolds == QuorumSpec => []LifecycleInv
BY InitEstablishes, QuorumStepKeeps, PTL DEF QuorumSpec

\* With guardians, too, wills move along the arrows of the abstract switch only:
\* a quorum releases an Active will, and rescues a Triggered one no later than
\* its owner could (guardian_trigger, guardian_cancel_trigger).
THEOREM QuorumImplementsSwitch == QuorumSpec => ImplementsDeadMansSwitch
BY InitMaps, QuorumStepMaps, QuorumInvariantHolds, PTL
   DEF QuorumSpec, ImplementsDeadMansSwitch, Promise!Spec

----------------------------------------------------------------------------
(* Steps on several wills *)

\* A step that opens or rewrites any number of wills, none of them triggered by
\* it, is judged will by will.
LEMMA EachWill ==
    ASSUME LifecycleInv,
           UNCHANGED <<now, archived_wills, triggered_wills>>,
           next_will_id' \in Nat, next_will_id <= next_will_id',
           DOMAIN wills \subseteq DOMAIN wills',
           DOMAIN wills' \subseteq 1..next_will_id',
           DOMAIN history' = DOMAIN wills',
           \A id \in DOMAIN wills' :
                Kept(wills'[id], now, id \in triggered_wills, history'[id]),
           \A id \in DOMAIN wills :
                \/ Face(wills'[id]) = Face(wills[id])
                \/ Promise!Arrow(Face(wills[id]), Face(wills'[id])),
           \A id \in DOMAIN wills' \ DOMAIN wills :
                /\ id \notin DOMAIN archived_wills
                /\ Promise!Create(Promise!Absent, Face(wills'[id]))
    PROVE  Sound
<1>1. LifecycleInv'
    BY DEF LifecycleInv
<1>2. ASSUME NEW id \in WillIds
      PROVE  \/ AbstractEstate'[id] = AbstractEstate[id]
             \/ Promise!Arrow(AbstractEstate[id], AbstractEstate'[id])
    <2>1. CASE id \in DOMAIN wills
        <3>1. AbstractEstate[id] = Face(wills[id]) /\ AbstractEstate'[id] = Face(wills'[id])
            BY <2>1 DEF AbstractEstate, Face, Seen
        <3> QED  BY <2>1, <3>1
    <2>2. CASE id \in DOMAIN wills' \ DOMAIN wills
        <3>1. AbstractEstate[id] = Promise!Absent /\ AbstractEstate'[id] = Face(wills'[id])
            BY <2>2 DEF AbstractEstate, Face, Seen, Promise!Absent
        <3> QED  BY <2>2, <3>1 DEF Promise!Arrow
    <2>3. CASE id \notin DOMAIN wills'
        BY <2>3 DEF AbstractEstate
    <2> QED  BY <2>1, <2>2, <2>3
<1> QED  BY <1>1, <1>2 DEF Sound, Promise!Move

\* A new running will on the clock of this moment.
LEMMA OpenedNow ==
    ASSUME LifecycleInv, NEW w, NEW newest,
           Shaped(w), w.status \in {"PendingConfirmation", "Active"},
           w.trigger_time = NoTime, w.last_checkin = now, newest.to = w.status
    PROVE  /\ Kept(w, now, FALSE, newest)
           /\ Promise!Create(Promise!Absent, Face(w))
BY DEF LifecycleInv, Kept, Promise!Create, Face, Seen

\* Ids are handed out in order, so the next ones are free.
LEMMA FreeIds ==
    ASSUME LifecycleInv, NEW id \in Nat, next_will_id < id
    PROVE  /\ id \notin DOMAIN wills
           /\ id \notin DOMAIN archived_wills
           /\ id \notin triggered_wills
BY DEF LifecycleInv

----------------------------------------------------------------------------
(* Funds, heirs, settings *)

LEMMA TopUpSound ==
    ASSUME LifecycleInv, NEW id \in DOMAIN wills, NEW owner, NEW t, NEW amount,
           top_up(id, owner, t, amount)
    PROVE  Sound
<1> DEFINE balances == Put(wills[id].balances, t, BalanceOf(wills[id].balances, t) + amount)
           w        == sync_primary_balance([wills[id] EXCEPT !.balances = balances])
<1>1. /\ wills' = Put(wills, id, w)
      /\ UNCHANGED <<now, archived_wills, next_will_id, triggered_wills, history>>
    BY DEF top_up, save_will, SaveWithVotes, indexes
<1>2. Agree(w, wills[id])
    BY DEF sync_primary_balance, Agree, LifecycleInv, Kept, Shaped, ControlFields
<1> QED  BY <1>1, <1>2, OtherFieldsRewritten

LEMMA HeirsSound ==
    ASSUME LifecycleInv, NEW id \in DOMAIN wills, NEW owner, NEW heir, NEW list,
           update_beneficiaries(id, owner, list) \/ renounce_beneficiary(id, heir)
    PROVE  Sound
<1>1. PICK heirs : wills' = Put(wills, id, [wills[id] EXCEPT !.beneficiaries = heirs])
    BY DEF update_beneficiaries, renounce_beneficiary, save_will, SaveWithVotes
<1>2. UNCHANGED <<now, archived_wills, next_will_id, triggered_wills, history>>
    BY DEF update_beneficiaries, renounce_beneficiary
<1>3. Agree([wills[id] EXCEPT !.beneficiaries = heirs], wills[id])
    BY DEF Agree, LifecycleInv, Kept, Shaped, ControlFields
<1> QED  BY <1>1, <1>2, <1>3, OtherFieldsRewritten

LEMMA HashedSound ==
    ASSUME LifecycleInv, NEW id \in DOMAIN wills, NEW owner, NEW h,
           add_hashed_beneficiary(id, owner, h)
    PROVE  Sound
<1>1. PICK hashed : wills' = Put(wills, id, [wills[id] EXCEPT !.hashed_beneficiaries = hashed])
    BY DEF add_hashed_beneficiary, save_will, SaveWithVotes
<1>2. UNCHANGED <<now, archived_wills, next_will_id, triggered_wills, history>>
    BY DEF add_hashed_beneficiary, OnlyTheWill, indexes
<1>3. Agree([wills[id] EXCEPT !.hashed_beneficiaries = hashed], wills[id])
    BY DEF Agree, LifecycleInv, Kept, Shaped, ControlFields
<1> QED  BY <1>1, <1>2, <1>3, OtherFieldsRewritten

LEMMA ClaimSound ==
    ASSUME LifecycleInv, NEW id \in DOMAIN wills, NEW claimant, NEW salt,
           reveal_and_claim(id, claimant, salt)
    PROVE  Sound
<1>1. PICK i, left :
        wills' = Put(wills, id, [wills[id] EXCEPT !.balances = left,
                                                  !.balance = BalanceOf(left, wills[id].token),
                                                  !.hashed_beneficiaries[i].claimed = TRUE])
    BY DEF reveal_and_claim, save_will, SaveWithVotes
<1> DEFINE w == [wills[id] EXCEPT !.balances = left,
                                  !.balance = BalanceOf(left, wills[id].token),
                                  !.hashed_beneficiaries[i].claimed = TRUE]
<1>2. UNCHANGED <<now, archived_wills, next_will_id, triggered_wills, history>>
    BY DEF reveal_and_claim, indexes
<1>3. Agree(w, wills[id])
    BY DEF Agree, LifecycleInv, Kept, Shaped, ControlFields
<1> QED  BY <1>1, <1>2, <1>3, OtherFieldsRewritten

LEMMA SettingsSound ==
    ASSUME LifecycleInv, NEW id \in DOMAIN wills, NEW owner, NEW s,
           update_will_settings(id, owner, s)
    PROVE  Sound
<1> DEFINE list == IF s.beneficiaries = None THEN wills[id].beneficiaries ELSE s.beneficiaries
           w0   == [wills[id] EXCEPT !.beneficiaries = list]
           w1   == WithPeriods(w0, s.checkin, s.grace)
           w2   == IF s.guardians = None THEN w1
                   ELSE WithGuardians(w1, UnweightedGuardians(s.guardians),
                                      wills[id].guardian_threshold)
<1>1. /\ wills' = Put(wills, id, w2)
      /\ UNCHANGED <<now, archived_wills, next_will_id, triggered_wills, history>>
      /\ wills[id].status = "Active"
      /\ {s.checkin, s.grace} \subseteq (1..MAX_PERIOD_DAYS) \cup {NoTime}
    BY DEF update_will_settings, save_will, SaveWithVotes, HasStatus
<1>2. Kept(wills[id], now, id \in triggered_wills, history[id])
    BY DEF LifecycleInv
<1>3. Agree(w0, wills[id])
    BY <1>2 DEF Agree, Kept, Shaped, ControlFields
<1> HIDE DEF w0
<1>4. Kept(w0, now, id \in triggered_wills, history[id])
    BY <1>2, <1>3, OtherFieldsIrrelevant
<1>5. /\ Kept(w1, now, id \in triggered_wills, history[id])
      /\ w1.status = "Active" /\ w1.last_checkin = wills[id].last_checkin
    BY <1>1, <1>3, <1>4, BoundsAssumption
       DEF WithPeriods, Kept, Shaped, ControlFields, NoTime, Agree
<1> HIDE DEF w1
<1>6. Agree(w2, w1)
    <2>1. ControlFields \subseteq DOMAIN w1
        BY <1>5 DEF Kept, Shaped
    <2>2. ASSUME NEW guardians, NEW threshold
          PROVE  Agree(WithGuardians(w1, guardians, threshold), w1)
        BY <2>1 DEF WithGuardians, Agree, ControlFields
    <2>3. Agree(w1, w1)
        BY <2>1 DEF Agree
    <2> QED  BY <2>2, <2>3
<1> HIDE DEF w2
<1>7. LifecycleInv'
    BY <1>1, <1>5, <1>6, OtherFieldsIrrelevant, OneWillQuietly
<1>8. Promise!ChangePeriods(Face(wills[id]), Face(w2))
    BY <1>1, <1>5, <1>6, PeriodsArrow DEF Agree
<1>9. Promise!Move
    BY <1>1, <1>8, OneArrow DEF Promise!Arrow
<1> QED  BY <1>7, <1>9 DEF Sound

----------------------------------------------------------------------------
(* After the end *)

\* Retried payouts and recomputed statistics leave the wills alone.
LEMMA WillsUntouched ==
    ASSUME LifecycleInv,
           UNCHANGED <<now, next_will_id, wills, archived_wills, triggered_wills, history>>
    PROVE  Sound
BY DEF Sound, LifecycleInv, Promise!Move, AbstractEstate

LEMMA ArchiveSound ==
    ASSUME LifecycleInv, NEW id \in DOMAIN wills, archive_will(id)
    PROVE  Sound
<1>1. /\ wills' = Without(wills, {id}) /\ history' = Without(history, {id})
      /\ archived_wills' = Put(archived_wills, id, wills[id])
      /\ UNCHANGED <<now, next_will_id, triggered_wills>>
      /\ wills[id].status \in {"Released", "Cancelled"}
    BY DEF archive_will
<1>2. /\ DOMAIN wills' = DOMAIN wills \ {id}
      /\ DOMAIN history' = DOMAIN history \ {id}
      /\ DOMAIN archived_wills' = DOMAIN archived_wills \cup {id}
      /\ \A x \in DOMAIN wills' : wills'[x] = wills[x]
      /\ \A x \in DOMAIN history' : history'[x] = history[x]
    BY <1>1 DEF Without, Put
<1>3. id \in 1..next_will_id /\ id \notin triggered_wills
    BY <1>1 DEF LifecycleInv, Kept
<1>4. LifecycleInv'
    <2>1. /\ next_will_id' \in Nat /\ now' \in Nat
          /\ DOMAIN wills' \subseteq 1..next_will_id'
          /\ DOMAIN archived_wills' \subseteq 1..next_will_id'
          /\ DOMAIN history' = DOMAIN wills'
          /\ triggered_wills' \subseteq DOMAIN wills'
        BY <1>1, <1>2, <1>3 DEF LifecycleInv
    <2>2. \A x \in DOMAIN wills' :
                Kept(wills'[x], now', x \in triggered_wills', history'[x])
        <3>1. \A x \in DOMAIN wills' : /\ wills'[x] = wills[x] /\ history'[x] = history[x]
                                       /\ x \in DOMAIN wills
            BY <1>2, <2>1
        <3> QED  BY <1>1, <3>1 DEF LifecycleInv
    <2> QED  BY <2>1, <2>2 DEF LifecycleInv
<1>5. ASSUME NEW x \in WillIds
      PROVE  \/ AbstractEstate'[x] = AbstractEstate[x]
             \/ Promise!Archive(AbstractEstate[x], AbstractEstate'[x])
    <2>1. CASE x = id
        <3>1. AbstractEstate[x] = Face(wills[id])
            BY <2>1 DEF AbstractEstate, Face, Seen
        <3>2. AbstractEstate'[x] = Promise!Archived
            BY <1>2, <2>1 DEF AbstractEstate, Promise!Archived, Promise!Absent
        <3> QED  BY <1>1, <3>1, <3>2 DEF Promise!Archive, Face, Seen
    <2>2. CASE x # id
        BY <1>2, <2>2 DEF AbstractEstate
    <2> QED  BY <2>1, <2>2
<1> QED  BY <1>1, <1>4, <1>5 DEF Sound, Promise!Move, Promise!Arrow

----------------------------------------------------------------------------
(* Wills that descend from others *)

LEMMA DescendantOpens ==
    ASSUME NEW w, Shaped(w), now \in Nat,
           NEW owner, NEW balances, NEW token, NEW balance
    PROVE  LET d == Descendant(w, owner, balances, token, balance)
           IN  /\ Shaped(d)
               /\ d.status = "Active"
               /\ d.trigger_time = NoTime
               /\ d.last_checkin = now
BY DEF Descendant, Shaped, ControlFields, WillStatus, OptionalTime, NoTime

\* A step that opens the next will and touches no other.
LEMMA NextWillSound ==
    ASSUME LifecycleInv, NEW w, NEW id, id = next_will_id + 1,
           wills' = Put(wills, id, w),
           record_transition(id, "Active", "Active"),
           next_will_id' = id,
           UNCHANGED <<now, archived_wills, triggered_wills>>,
           Shaped(w), w.status = "Active", w.trigger_time = NoTime, w.last_checkin = now
    PROVE  Sound
<1>1. next_will_id \in Nat /\ id \in Nat /\ next_will_id < id
    BY DEF LifecycleInv
<1>2. id \notin DOMAIN wills /\ id \notin DOMAIN archived_wills /\ id \notin triggered_wills
    BY <1>1, FreeIds
<1>3. /\ DOMAIN wills' = DOMAIN wills \cup {id} /\ wills'[id] = w
      /\ \A x \in DOMAIN wills : wills'[x] = wills[x]
    BY <1>2 DEF Put
<1>4. /\ DOMAIN history' = DOMAIN wills' /\ history'[id].to = "Active"
      /\ \A x \in DOMAIN wills : history'[x] = history[x]
    BY <1>2, <1>3, Recorded DEF LifecycleInv
<1>5. Kept(w, now, FALSE, history'[id]) /\ Promise!Create(Promise!Absent, Face(w))
    BY <1>4, OpenedNow
<1>6. \A x \in DOMAIN wills' : Kept(wills'[x], now, x \in triggered_wills, history'[x])
    BY <1>2, <1>3, <1>4, <1>5 DEF LifecycleInv, Kept
<1>7. DOMAIN wills' \subseteq 1..next_will_id'
    BY <1>1, <1>3 DEF LifecycleInv
<1> QED  BY <1>1, <1>2, <1>3, <1>4, <1>5, <1>6, <1>7, EachWill

LEMMA CloneSound ==
    ASSUME LifecycleInv, NEW source \in DOMAIN wills, NEW owner, NEW tokens,
           clone_will(source, owner, tokens)
    PROVE  Sound
<1> DEFINE id == next_will_id + 1
           w  == Descendant(wills[source], owner, BalancesOf(tokens),
                            tokens[1][1], tokens[1][2])
<1>1. /\ wills' = Put(wills, id, w)
      /\ record_transition(id, "Active", "Active")
      /\ next_will_id' = id
      /\ UNCHANGED <<now, archived_wills, triggered_wills>>
    BY DEF clone_will, save_will, SaveWithVotes
<1>2. Shaped(wills[source]) /\ now \in Nat
    BY DEF LifecycleInv, Kept
<1>3. Shaped(w) /\ w.status = "Active" /\ w.trigger_time = NoTime /\ w.last_checkin = now
    BY <1>2, DescendantOpens
<1> HIDE DEF w
<1> QED  BY <1>1, <1>3, NextWillSound

\* The source keeps its clock, the child starts its own.
LEMMA SplitSound ==
    ASSUME LifecycleInv, NEW id \in DOMAIN wills, NEW owner, NEW split,
           split_will(id, owner, split)
    PROVE  Sound
<1> DEFINE child_id == next_will_id + 1
           Source(staying, remaining) ==
                sync_primary_balance([wills[id] EXCEPT !.balances = staying,
                                                       !.beneficiaries = remaining])
           Child(moving, token, parted) ==
                [Descendant(wills[id], wills[id].owner, moving, token, moving[token])
                    EXCEPT !.beneficiaries = parted, !.keeper_bounty_bps = 0]
<1>1. /\ \E staying, remaining, moving, token, parted :
            wills' = Put(Put(wills, id, Source(staying, remaining)),
                         child_id, Child(moving, token, parted))
      /\ record_transition(child_id, "Active", "Active")
      /\ next_will_id' = child_id
      /\ UNCHANGED <<now, archived_wills, triggered_wills>>
    BY DEF split_will
<1>2. PICK staying, remaining, moving, token, parted :
            wills' = Put(Put(wills, id, Source(staying, remaining)),
                         child_id, Child(moving, token, parted))
    BY <1>1
<1> DEFINE source == Source(staying, remaining)
           child  == Child(moving, token, parted)
           middle == Put(wills, id, source)
<1>3. Kept(wills[id], now, id \in triggered_wills, history[id]) /\ now \in Nat
    BY DEF LifecycleInv
<1>4. Agree(source, wills[id])
    BY <1>3 DEF sync_primary_balance, Agree, Kept, Shaped, ControlFields
<1>5. Shaped(child) /\ child.status = "Active" /\ child.trigger_time = NoTime
      /\ child.last_checkin = now
    <2> DEFINE d == Descendant(wills[id], wills[id].owner, moving, token, moving[token])
    <2>1. Shaped(d) /\ d.status = "Active" /\ d.trigger_time = NoTime /\ d.last_checkin = now
        BY <1>3, DescendantOpens DEF Kept
    <2> HIDE DEF d
    <2>2. LET c == [d EXCEPT !.beneficiaries = parted, !.keeper_bounty_bps = 0]
          IN  /\ Shaped(c) /\ c.status = "Active" /\ c.trigger_time = NoTime
              /\ c.last_checkin = now
        BY <2>1 DEF Shaped, ControlFields
    <2> QED  BY <2>2 DEF d
<1> HIDE DEF source, child
<1>6. /\ next_will_id \in Nat /\ child_id \in Nat /\ next_will_id < child_id
      /\ child_id \notin DOMAIN wills /\ child_id \notin DOMAIN archived_wills
      /\ child_id \notin triggered_wills /\ child_id # id
    <2>1. next_will_id \in Nat
        BY DEF LifecycleInv
    <2> QED  BY <2>1, FreeIds
<1>7. /\ DOMAIN wills' = DOMAIN wills \cup {child_id}
      /\ wills'[id] = source /\ wills'[child_id] = child
      /\ \A x \in DOMAIN wills : x # id => wills'[x] = wills[x]
    BY <1>2, <1>6 DEF Put, source, child
<1>8. /\ DOMAIN history' = DOMAIN wills' /\ history'[child_id].to = "Active"
      /\ \A x \in DOMAIN wills : history'[x] = history[x]
    BY <1>1, <1>6, <1>7, Recorded DEF LifecycleInv
<1>9. /\ Kept(child, now, FALSE, history'[child_id])
      /\ Promise!Create(Promise!Absent, Face(child))
    BY <1>5, <1>8, OpenedNow
<1>10. Kept(source, now, id \in triggered_wills, history'[id]) /\ Face(source) = Face(wills[id])
    BY <1>3, <1>4, <1>8, OtherFieldsIrrelevant DEF Agree, Face, Seen
<1>11. \A x \in DOMAIN wills' : Kept(wills'[x], now, x \in triggered_wills, history'[x])
    BY <1>6, <1>7, <1>8, <1>9, <1>10 DEF LifecycleInv, Kept
<1>12. DOMAIN wills' \subseteq 1..next_will_id'
    BY <1>1, <1>6, <1>7 DEF LifecycleInv
<1>13. \A x \in DOMAIN wills : Face(wills'[x]) = Face(wills[x])
    BY <1>7, <1>10
<1>14. \A x \in DOMAIN wills' \ DOMAIN wills :
            x \notin DOMAIN archived_wills /\ Promise!Create(Promise!Absent, Face(wills'[x]))
    BY <1>6, <1>7, <1>9
<1> QED  BY <1>1, <1>6, <1>7, <1>8, <1>11, <1>12, <1>13, <1>14, EachWill

LEMMA BatchCreateSound ==
    ASSUME LifecycleInv, NEW owner, NEW forms \in Batches, batch_create_wills(owner, forms)
    PROVE  Sound
<1> DEFINE ids == (next_will_id + 1)..(next_will_id + Len(forms))
           Form(id) == [forms[id - next_will_id] EXCEPT !.bounty = 0, !.delay = 0]
           fresh == [id \in ids |-> NewWill(owner, Form(id))]
<1>1. /\ wills' = [id \in DOMAIN wills \cup ids |->
                        IF id \in ids THEN fresh[id] ELSE wills[id]]
      /\ history' = [id \in DOMAIN history \cup ids |->
                        IF id \in ids THEN [from |-> "Active", to |-> "Active"]
                                      ELSE history[id]]
      /\ next_will_id' = next_will_id + Len(forms)
      /\ UNCHANGED <<now, archived_wills, triggered_wills>>
    BY DEF batch_create_wills
<1>2. /\ next_will_id \in Nat /\ now \in Nat /\ Len(forms) \in Nat
      /\ forms \in Seq(SetOfForms)
    BY PortfolioInputsAssumption DEF LifecycleInv
<1>3. \A id \in ids : /\ id \in Nat /\ next_will_id < id /\ id <= next_will_id + Len(forms)
                      /\ id \notin DOMAIN wills /\ id \notin DOMAIN archived_wills
                      /\ id \notin triggered_wills
    <2> SUFFICES ASSUME NEW id \in ids
                 PROVE  /\ id \in Nat /\ next_will_id < id /\ id <= next_will_id + Len(forms)
                        /\ id \notin DOMAIN wills /\ id \notin DOMAIN archived_wills
                        /\ id \notin triggered_wills
        OBVIOUS
    <2>1. id \in Nat /\ next_will_id < id /\ id <= next_will_id + Len(forms)
        BY <1>2
    <2> QED  BY <2>1, FreeIds
<1>4. ASSUME NEW id \in ids
      PROVE  /\ Shaped(fresh[id]) /\ fresh[id].status = "Active"
             /\ fresh[id].trigger_time = NoTime /\ fresh[id].last_checkin = now
    <2>1. forms[id - next_will_id] \in SetOfForms
        BY <1>2
    <2>2. Form(id).delay = 0
        BY <2>1 DEF SetOfForms
    <2>3. Form(id).checkin \in Nat /\ Form(id).grace \in Nat
        BY <2>1 DEF SetOfForms
    <2>4. fresh[id] = NewWill(owner, Form(id))
        OBVIOUS
    <2> HIDE DEF Form, fresh
    <2> QED  BY <1>2, <2>2, <2>3, <2>4
             DEF NewWill, Shaped, ControlFields, WillStatus, OptionalTime, NoTime
<1> HIDE DEF ids, fresh
<1>5. /\ DOMAIN wills' = DOMAIN wills \cup ids
      /\ \A id \in ids : wills'[id] = fresh[id] /\ history'[id].to = "Active"
      /\ DOMAIN history' = DOMAIN wills'
      /\ \A id \in DOMAIN wills : wills'[id] = wills[id] /\ history'[id] = history[id]
    BY <1>1, <1>3 DEF LifecycleInv
<1>6. \A id \in ids : /\ Kept(fresh[id], now, FALSE, history'[id])
                      /\ Promise!Create(Promise!Absent, Face(fresh[id]))
    BY <1>4, <1>5, OpenedNow
<1>7. \A id \in DOMAIN wills' : Kept(wills'[id], now, id \in triggered_wills, history'[id])
    BY <1>3, <1>5, <1>6 DEF LifecycleInv, Kept
<1>8. /\ DOMAIN wills' \subseteq 1..next_will_id'
      /\ next_will_id' \in Nat /\ next_will_id <= next_will_id'
    <2>1. next_will_id' \in Nat /\ next_will_id <= next_will_id'
        BY <1>1, <1>2
    <2>2. ids \subseteq 1..next_will_id'
        BY <1>1, <1>2, <1>3
    <2>3. DOMAIN wills \subseteq 1..next_will_id'
        BY <1>2, <2>1 DEF LifecycleInv
    <2> QED  BY <1>5, <2>1, <2>2, <2>3
<1>9. \A id \in DOMAIN wills' \ DOMAIN wills :
            id \notin DOMAIN archived_wills /\ Promise!Create(Promise!Absent, Face(wills'[id]))
    BY <1>3, <1>5, <1>6
<1> QED  BY <1>1, <1>5, <1>7, <1>8, <1>9, EachWill

LEMMA ShorterOrLonger ==
    ASSUME NEW m \in Nat, NEW n \in Nat
    PROVE  Min({m, n}) \in Nat /\ Max({m, n}) \in Nat
<1>1. Min({m, n}) \in {m, n}
    BY DEF Min
<1>2. Max({m, n}) \in {m, n}
    BY DEF Max
<1> QED  BY <1>1, <1>2

\* The owner merges two running wills: for one that is a change of periods, for
\* the other the end.
LEMMA MergeSound ==
    ASSUME LifecycleInv, NEW owner, NEW a \in DOMAIN wills, NEW b \in DOMAIN wills,
           merge_wills(owner, a, b)
    PROVE  Sound
<1> DEFINE Merged(heirs, guardians, balances) ==
                [wills[a] EXCEPT !.beneficiaries         = heirs,
                                 !.guardians             = guardians,
                                 !.checkin_period_days   = Min({@, wills[b].checkin_period_days}),
                                 !.grace_period_days     = Max({@, wills[b].grace_period_days}),
                                 !.balances              = balances,
                                 !.balance               = @ + wills[b].balance,
                                 !.guardian_votes        = 0,
                                 !.guardian_cancel_votes = 0]
           consumed == [wills[b] EXCEPT !.balances              = << >>,
                                        !.balance               = 0,
                                        !.status                = "Cancelled",
                                        !.guardian_votes        = 0,
                                        !.guardian_cancel_votes = 0]
<1>1. /\ \E heirs, guardians, balances :
            wills' = Put(Put(wills, a, Merged(heirs, guardians, balances)), b, consumed)
      /\ history' = Put(Put(history, b, [from |-> "Active", to |-> "Cancelled"]),
                        a, [from |-> "Active", to |-> "Active"])
      /\ UNCHANGED <<now, next_will_id, archived_wills, triggered_wills>>
      /\ a # b /\ wills[a].status = "Active" /\ wills[b].status = "Active"
    BY DEF merge_wills, HasStatus
<1>2. PICK heirs, guardians, balances :
            wills' = Put(Put(wills, a, Merged(heirs, guardians, balances)), b, consumed)
    BY <1>1
<1> DEFINE merged == Merged(heirs, guardians, balances)
<1>3. /\ Kept(wills[a], now, FALSE, history[a]) /\ Kept(wills[b], now, FALSE, history[b])
      /\ a \notin triggered_wills /\ b \notin triggered_wills
    BY <1>1 DEF LifecycleInv, Kept
<1>4. /\ ControlFields \subseteq DOMAIN merged
      /\ merged.status = "Active" /\ merged.trigger_time = wills[a].trigger_time
      /\ merged.last_checkin = wills[a].last_checkin
      /\ merged.checkin_period_days
            = Min({wills[a].checkin_period_days, wills[b].checkin_period_days})
      /\ merged.grace_period_days
            = Max({wills[a].grace_period_days, wills[b].grace_period_days})
    BY <1>1, <1>3 DEF Kept, Shaped, ControlFields
<1>5. /\ ControlFields \subseteq DOMAIN consumed
      /\ consumed.status = "Cancelled" /\ consumed.trigger_time = wills[b].trigger_time
      /\ consumed.last_checkin = wills[b].last_checkin
      /\ consumed.checkin_period_days = wills[b].checkin_period_days
      /\ consumed.grace_period_days = wills[b].grace_period_days
    BY <1>3 DEF Kept, Shaped, ControlFields
<1> HIDE DEF merged, consumed
<1>6. /\ DOMAIN wills' = DOMAIN wills /\ wills'[a] = merged /\ wills'[b] = consumed
      /\ \A x \in DOMAIN wills : x \notin {a, b} => wills'[x] = wills[x]
    BY <1>1, <1>2 DEF Put, merged
<1>7. /\ DOMAIN history' = DOMAIN wills'
      /\ history'[a].to = "Active" /\ history'[b].to = "Cancelled"
      /\ \A x \in DOMAIN wills : x \notin {a, b} => history'[x] = history[x]
    BY <1>1, <1>6 DEF LifecycleInv, Put
<1>8. Kept(merged, now, FALSE, history'[a])
    <2>1. merged.checkin_period_days \in Nat /\ merged.grace_period_days \in Nat
        <3>1. /\ wills[a].checkin_period_days \in Nat /\ wills[b].checkin_period_days \in Nat
              /\ wills[a].grace_period_days \in Nat /\ wills[b].grace_period_days \in Nat
            BY <1>3 DEF Kept, Shaped
        <3> QED  BY <1>4, <3>1, ShorterOrLonger
    <2> QED  BY <1>1, <1>3, <1>4, <1>7, <2>1 DEF Kept, Shaped
<1>9. Kept(consumed, now, FALSE, history'[b])
    BY <1>3, <1>5, <1>7 DEF Kept, Shaped, WillStatus
<1>10. Promise!ChangePeriods(Face(wills[a]), Face(merged))
    BY <1>1, <1>4, PeriodsArrow
<1>11. Promise!Cancel(Face(wills[b]), Face(consumed))
    BY <1>1, <1>5 DEF Promise!Cancel, Promise!Becomes, Face, Seen
<1>12. \A x \in DOMAIN wills' : Kept(wills'[x], now, x \in triggered_wills, history'[x])
    BY <1>3, <1>6, <1>7, <1>8, <1>9 DEF LifecycleInv, Kept
<1>13. \A x \in DOMAIN wills : \/ Face(wills'[x]) = Face(wills[x])
                               \/ Promise!Arrow(Face(wills[x]), Face(wills'[x]))
    BY <1>6, <1>10, <1>11 DEF Promise!Arrow
<1>14. next_will_id' \in Nat /\ next_will_id <= next_will_id'
       /\ DOMAIN wills' \subseteq 1..next_will_id'
    BY <1>1, <1>6 DEF LifecycleInv
<1> QED  BY <1>1, <1>6, <1>7, <1>12, <1>13, <1>14, EachWill

----------------------------------------------------------------------------
(* All calls together *)

LEMMA EstateStepSound ==
    ASSUME LifecycleInv, EstateOwnerNext \/ EstateHeirNext
    PROVE  Sound
<1>1. CASE EstateOwnerNext
    BY <1>1, TopUpSound, HeirsSound, SettingsSound, HashedSound DEF EstateOwnerNext
<1>2. CASE EstateHeirNext
    <2>1. CASE \E id \in DOMAIN wills : \E heir \in Accounts : renounce_beneficiary(id, heir)
        BY <2>1, HeirsSound
    <2>2. CASE \E id \in DOMAIN wills : \E h \in HashedShares :
                    reveal_and_claim(id, h.claimant, h.salt)
        BY <2>2, ClaimSound
    <2>3. CASE \E id \in DOMAIN wills : archive_will(id)
        BY <2>3, ArchiveSound
    <2>4. CASE \E key \in DOMAIN failed_payout : retry_failed_payout(key[1], key[2], key[3])
        BY <2>4, WillsUntouched DEF retry_failed_payout, indexes
    <2> QED  BY <1>2, <2>1, <2>2, <2>3, <2>4 DEF EstateHeirNext
<1> QED  BY <1>1, <1>2

LEMMA PortfolioStepSound ==
    ASSUME LifecycleInv, PortfolioOnlyNext
    PROVE  Sound
<1>1. CASE \E ids \in SUBSET DOMAIN wills : Merging(ids)
    BY <1>1, MergeSound DEF Merging
<1>2. CASE repair_protocol_stats
    BY <1>2, WillsUntouched DEF repair_protocol_stats, indexes
<1>3. CASE \E owner \in Accounts :
            \/ \E forms \in Batches : batch_create_wills(owner, forms)
            \/ \E id \in DOMAIN wills :
                \/ \E tokens \in ClonePurses : clone_will(id, owner, tokens)
                \/ \E split \in Splits : split_will(id, owner, split)
    BY <1>3, BatchCreateSound, CloneSound, SplitSound
<1> QED  BY <1>1, <1>2, <1>3 DEF PortfolioOnlyNext, MultiplyNext

LEMMA ContractStepKeeps == LifecycleInv /\ [PortfolioNext]_vars => LifecycleInv'
<1> SUFFICES ASSUME LifecycleInv, [PortfolioNext]_vars
             PROVE  LifecycleInv'
    OBVIOUS
<1>1. CASE [QuorumNext]_vars
    BY <1>1, QuorumStepKeeps
<1>2. CASE EstateOwnerNext \/ EstateHeirNext
    BY <1>2, EstateStepSound DEF Sound
<1>3. CASE PortfolioOnlyNext
    BY <1>3, PortfolioStepSound DEF Sound
<1> QED  BY <1>1, <1>2, <1>3 DEF PortfolioNext, EstateNext

LEMMA ContractStepMaps ==
    LifecycleInv /\ [PortfolioNext]_vars => [Promise!Next]_<<now, AbstractEstate>>
<1> SUFFICES ASSUME LifecycleInv, [PortfolioNext]_vars
             PROVE  [Promise!Next]_<<now, AbstractEstate>>
    OBVIOUS
<1>1. CASE [QuorumNext]_vars
    BY <1>1, QuorumStepMaps
<1>2. CASE EstateOwnerNext \/ EstateHeirNext
    BY <1>2, EstateStepSound DEF Sound, Promise!Next
<1>3. CASE PortfolioOnlyNext
    BY <1>3, PortfolioStepSound DEF Sound, Promise!Next
<1> QED  BY <1>1, <1>2, <1>3 DEF PortfolioNext, EstateNext

\* No entry point of the contract breaks the inductive invariant.
THEOREM ContractInvariantHolds == PortfolioSpec => []LifecycleInv
BY InitEstablishes, ContractStepKeeps, PTL DEF PortfolioSpec

\* The whole contract moves wills along the arrows of the abstract switch only,
\* each on its side of the deadlines: top-ups and claims are no sign of life, a
\* merge is a change of periods for one will and a cancellation for the other,
\* clones, splits and batches start on the clock of their moment, and only what
\* is over is archived.
THEOREM ContractImplementsSwitch == PortfolioSpec => ImplementsDeadMansSwitch
BY InitMaps, ContractStepMaps, ContractInvariantHolds, PTL
   DEF PortfolioSpec, ImplementsDeadMansSwitch, Promise!Spec

\* Every entry point leaves the triggered index exact: a will is listed to the
\* keepers from the trigger to the recovery or the release, and never after.
THEOREM ContractIndexHolds == PortfolioSpec => []TriggeredIndexExact
<1>1. LifecycleInv => TriggeredIndexExact
    BY DEF LifecycleInv, Kept, TriggeredIndexExact
<1> QED  BY <1>1, ContractInvariantHolds, PTL

\* Every entry point records the status it leaves a will in (record_transition),
\* and archive_will takes the trail along with the will.
THEOREM ContractTrailHolds == PortfolioSpec => []TrailEndsInStatus
<1>1. LifecycleInv => TrailEndsInStatus
    BY DEF LifecycleInv, Kept, TrailEndsInStatus
<1> QED  BY <1>1, ContractInvariantHolds, PTL

\* Nothing in the contract moves the deadline of a triggered will.
THEOREM ContractDeadlineHolds == PortfolioSpec => []TriggerTimeIsTheMissedDeadline
<1>1. LifecycleInv => TriggerTimeIsTheMissedDeadline
    BY DEF LifecycleInv, Kept, TriggerTimeIsTheMissedDeadline
<1> QED  BY <1>1, ContractInvariantHolds, PTL

----------------------------------------------------------------------------
(* The fields of a will *)

WillFields ==
    {"owner", "balances", "token", "balance", "beneficiaries", "hashed_beneficiaries",
     "checkin_period_days", "grace_period_days", "last_checkin", "trigger_time",
     "confirmation_deadline", "status", "guardians", "guardian_vote_weight",
     "guardian_votes", "guardian_cancel_vote_weight", "guardian_cancel_votes",
     "guardian_threshold", "guardian_list_updated_at", "keeper_bounty_bps", "delegate"}

\* Every stored will is a whole Will record.
FieldsInv == \A id \in DOMAIN wills : WillFields \subseteq DOMAIN wills[id]

LEMMA SavedFields ==
    ASSUME FieldsInv, NEW id, NEW w, wills' = Put(wills, id, w), WillFields \subseteq DOMAIN w
    PROVE  FieldsInv'
BY DEF FieldsInv, Put

LEMMA RewrittenFields ==
    ASSUME FieldsInv, NEW id \in DOMAIN wills, NEW w,
           wills' = Put(wills, id, w), DOMAIN w = DOMAIN wills[id]
    PROVE  FieldsInv'
BY SavedFields DEF FieldsInv

LEMMA NewFields ==
    ASSUME NEW owner, NEW form
    PROVE  WillFields \subseteq DOMAIN NewWill(owner, form)
BY DEF NewWill, WillFields

LEMMA OwnerFields ==
    ASSUME FieldsInv, NEW id \in DOMAIN wills, NEW owner, NEW caller, NEW delegate,
           NEW checkin, NEW grace,
           \/ confirm_will(id, owner)
           \/ set_delegate(id, owner, delegate)
           \/ update_periods(id, owner, checkin, grace)
           \/ cancel_will(id, owner)
           \/ close_will(id, owner)
           \/ check_in(id, caller)
           \/ trigger_will(id)
           \/ emergency_checkin(id, owner)
    PROVE  FieldsInv'
<1>1. CASE confirm_will(id, owner)
    <2> DEFINE w == [wills[id] EXCEPT !.status = "Active", !.last_checkin = now,
                                   !.confirmation_deadline = NoTime]
    <2>1. wills' = Put(wills, id, w)
        BY <1>1 DEF confirm_will, save_will, SaveWithVotes
    <2>2. DOMAIN w = DOMAIN wills[id]
        OBVIOUS
    <2> HIDE DEF w
    <2> QED  BY <2>1, <2>2, RewrittenFields
<1>2. CASE set_delegate(id, owner, delegate)
    <2> DEFINE w == [wills[id] EXCEPT !.delegate = delegate]
    <2>1. wills' = Put(wills, id, w)
        BY <1>2 DEF set_delegate, save_will, SaveWithVotes
    <2>2. DOMAIN w = DOMAIN wills[id]
        OBVIOUS
    <2> HIDE DEF w
    <2> QED  BY <2>1, <2>2, RewrittenFields
<1>3. CASE update_periods(id, owner, checkin, grace)
    <2> DEFINE w == WithPeriods(wills[id], checkin, grace)
    <2>1. wills' = Put(wills, id, w)
        BY <1>3 DEF update_periods, save_will, SaveWithVotes
    <2>2. DOMAIN w = DOMAIN wills[id]
        BY DEF WithPeriods
    <2> HIDE DEF w
    <2> QED  BY <2>1, <2>2, RewrittenFields
<1>4. CASE cancel_will(id, owner)
    <2> DEFINE w == [wills[id] EXCEPT !.balance = 0, !.balances = << >>, !.status = "Cancelled"]
    <2>1. wills' = Put(wills, id, w)
        BY <1>4 DEF cancel_will, save_will, SaveWithVotes
    <2>2. DOMAIN w = DOMAIN wills[id]
        OBVIOUS
    <2> HIDE DEF w
    <2> QED  BY <2>1, <2>2, RewrittenFields
<1>5. CASE close_will(id, owner)
    <2> DEFINE w == [wills[id] EXCEPT !.status = "Settled"]
    <2>1. wills' = Put(wills, id, w)
        BY <1>5 DEF close_will, save_will, SaveWithVotes
    <2>2. DOMAIN w = DOMAIN wills[id]
        OBVIOUS
    <2> HIDE DEF w
    <2> QED  BY <2>1, <2>2, RewrittenFields
<1>6. CASE check_in(id, caller)
    <2> DEFINE w == [wills[id] EXCEPT !.last_checkin = now]
    <2>1. wills' = Put(wills, id, w)
        BY <1>6 DEF check_in, save_will, SaveWithVotes
    <2>2. DOMAIN w = DOMAIN wills[id]
        OBVIOUS
    <2> HIDE DEF w
    <2> QED  BY <2>1, <2>2, RewrittenFields
<1>7. CASE trigger_will(id)
    <2> DEFINE w == [wills[id] EXCEPT !.status = "Triggered",
                                   !.trigger_time = CheckinDeadline(wills[id])]
    <2>1. wills' = Put(wills, id, w)
        BY <1>7 DEF trigger_will, save_will, SaveWithVotes
    <2>2. DOMAIN w = DOMAIN wills[id]
        OBVIOUS
    <2> HIDE DEF w
    <2> QED  BY <2>1, <2>2, RewrittenFields
<1>8. CASE emergency_checkin(id, owner)
    <2> DEFINE w == sync_primary_balance(Revived(wills[id]))
    <2>1. wills' = Put(wills, id, w)
        BY <1>8 DEF emergency_checkin, SaveWithVotes
    <2>2. DOMAIN w = DOMAIN wills[id]
        BY DEF sync_primary_balance, Revived
    <2> HIDE DEF w
    <2> QED  BY <2>1, <2>2, RewrittenFields
<1> QED  BY <1>1, <1>2, <1>3, <1>4, <1>5, <1>6, <1>7, <1>8

LEMMA ReleaseFields ==
    ASSUME FieldsInv, NEW id \in DOMAIN wills, NEW w, NEW keeper, NEW refused, NEW stats,
           NEW rv, distribute(id, w, keeper, refused, stats, rv),
           DOMAIN w = DOMAIN wills[id]
    PROVE  FieldsInv'
<1> DEFINE left == HashedReserves(w, DistributionPlan(w, keeper))
           over == [w EXCEPT !.balances = left, !.balance = BalanceOf(left, w.token),
                             !.status = "Released"]
<1>1. wills' = Put(wills, id, over)
    BY DEF distribute, SaveWithVotes
<1>2. DOMAIN over = DOMAIN wills[id]
    OBVIOUS
<1> HIDE DEF over
<1> QED  BY <1>1, <1>2, RewrittenFields

LEMMA GuardianFields ==
    ASSUME FieldsInv, NEW id \in DOMAIN wills, NEW guardian, NEW refused,
           \/ guardian_trigger(id, guardian, refused)
           \/ guardian_cancel_trigger(id, guardian)
           \/ accept_guardian_role(id, guardian)
           \/ reject_guardian_role(id, guardian)
    PROVE  FieldsInv'
<1>1. CASE guardian_trigger(id, guardian, refused)
    <2> DEFINE records == [guardian_vote EXCEPT ![id][guardian] = now]
               w       == Tallied(id, wills[id], records)
    <2>1. DOMAIN w = DOMAIN wills[id]
        BY DEF Tallied
    <2>2. \/ distribute(id, w, NoAccount, refused, protocol_stats, records)
          \/ wills' = Put(wills, id, w)
        BY <1>1 DEF guardian_trigger, SaveWithVotes
    <2> HIDE DEF w, records
    <2> QED  BY <2>1, <2>2, ReleaseFields, RewrittenFields
<1>2. CASE guardian_cancel_trigger(id, guardian)
    <2> DEFINE w == CancelTallied(id, wills[id],
                                  [guardian_cancel_vote EXCEPT ![id][guardian] = now])
    <2>1. DOMAIN w = DOMAIN wills[id]
        BY DEF CancelTallied
    <2>2. wills' = Put(wills, id, Revived(w)) \/ wills' = Put(wills, id, w)
        BY <1>2 DEF guardian_cancel_trigger, SaveWithVotes
    <2> HIDE DEF w
    <2>3. DOMAIN Revived(w) = DOMAIN w
        BY DEF Revived
    <2> QED  BY <2>1, <2>2, <2>3, RewrittenFields
<1>3. CASE accept_guardian_role(id, guardian)
    <2> DEFINE w == [wills[id] EXCEPT !.guardians[guardian].consent = "Accepted"]
    <2>1. wills' = Put(wills, id, w)
        BY <1>3 DEF accept_guardian_role, save_will, SaveWithVotes
    <2>2. DOMAIN w = DOMAIN wills[id]
        OBVIOUS
    <2> HIDE DEF w
    <2> QED  BY <2>1, <2>2, RewrittenFields
<1>4. CASE reject_guardian_role(id, guardian)
    <2> DEFINE w == Withdrawn(id, wills[id], guardian)
    <2>1. wills' = Put(wills, id, w)
        BY <1>4 DEF reject_guardian_role, SaveWithVotes
    <2>2. DOMAIN w = DOMAIN wills[id]
        BY DEF Withdrawn
    <2> HIDE DEF w
    <2> QED  BY <2>1, <2>2, RewrittenFields
<1> QED  BY <1>1, <1>2, <1>3, <1>4

LEMMA ReplacedFields ==
    ASSUME FieldsInv, NEW id \in DOMAIN wills, NEW guardians, NEW threshold,
           ReplaceGuardians(id, guardians, threshold)
    PROVE  FieldsInv'
<1> DEFINE w == WithGuardians(wills[id], guardians, threshold)
<1>1. wills' = Put(wills, id, w)
    BY DEF ReplaceGuardians, SaveWithVotes
<1>2. DOMAIN w = DOMAIN wills[id]
    BY DEF WithGuardians
<1> HIDE DEF w
<1> QED  BY <1>1, <1>2, RewrittenFields

LEMMA AppointFields ==
    ASSUME FieldsInv, NEW id \in DOMAIN wills, NEW owner, NEW list, NEW given,
           update_guardians(id, owner, list) \/ update_guardians_weighted(id, owner, list, given)
    PROVE  FieldsInv'
<1>1. PICK guardians, threshold : ReplaceGuardians(id, guardians, threshold)
    BY DEF update_guardians, update_guardians_weighted
<1> QED  BY <1>1, ReplacedFields

LEMMA SettingsFields ==
    ASSUME FieldsInv, NEW id \in DOMAIN wills, NEW owner, NEW s, update_will_settings(id, owner, s)
    PROVE  FieldsInv'
<1> DEFINE list == IF s.beneficiaries = None THEN wills[id].beneficiaries ELSE s.beneficiaries
           w0   == [wills[id] EXCEPT !.beneficiaries = list]
           w1   == WithPeriods(w0, s.checkin, s.grace)
           w2   == WithGuardians(w1, UnweightedGuardians(s.guardians),
                                 wills[id].guardian_threshold)
<1>1. wills' = Put(wills, id, w1) \/ wills' = Put(wills, id, w2)
    BY DEF update_will_settings, save_will, SaveWithVotes
<1>2. DOMAIN w0 = DOMAIN wills[id]
    OBVIOUS
<1> HIDE DEF w0
<1>3. DOMAIN w1 = DOMAIN w0
    BY DEF WithPeriods
<1> HIDE DEF w1
<1>4. DOMAIN w2 = DOMAIN w1
    BY DEF WithGuardians
<1> HIDE DEF w2
<1> QED  BY <1>1, <1>2, <1>3, <1>4, RewrittenFields

LEMMA EstateFields ==
    ASSUME FieldsInv, NEW id \in DOMAIN wills, NEW owner, NEW t, NEW amount, NEW list, NEW h,
           NEW heir, NEW claimant, NEW salt,
           \/ top_up(id, owner, t, amount)
           \/ update_beneficiaries(id, owner, list)
           \/ add_hashed_beneficiary(id, owner, h)
           \/ renounce_beneficiary(id, heir)
           \/ reveal_and_claim(id, claimant, salt)
    PROVE  FieldsInv'
<1>1. CASE top_up(id, owner, t, amount)
    <2> DEFINE balances == Put(wills[id].balances, t, BalanceOf(wills[id].balances, t) + amount)
               w0 == [wills[id] EXCEPT !.balances = balances]
               w  == sync_primary_balance(w0)
    <2>1. wills' = Put(wills, id, w)
        BY <1>1 DEF top_up, save_will, SaveWithVotes
    <2>2. DOMAIN w0 = DOMAIN wills[id]
        OBVIOUS
    <2> HIDE DEF w0
    <2>3. DOMAIN w = DOMAIN w0
        BY DEF sync_primary_balance
    <2> HIDE DEF w
    <2> QED  BY <2>1, <2>2, <2>3, RewrittenFields
<1>2. CASE update_beneficiaries(id, owner, list)
    <2> DEFINE w == [wills[id] EXCEPT !.beneficiaries = list]
    <2>1. wills' = Put(wills, id, w)
        BY <1>2 DEF update_beneficiaries, save_will, SaveWithVotes
    <2>2. DOMAIN w = DOMAIN wills[id]
        OBVIOUS
    <2> HIDE DEF w
    <2> QED  BY <2>1, <2>2, RewrittenFields
<1>3. CASE add_hashed_beneficiary(id, owner, h)
    <2> DEFINE w == [wills[id] EXCEPT !.hashed_beneficiaries =
                        Append(@, [claimant |-> h.claimant, salt |-> h.salt,
                                   percentage |-> h.percentage, claimed |-> FALSE])]
    <2>1. wills' = Put(wills, id, w)
        BY <1>3 DEF add_hashed_beneficiary, save_will, SaveWithVotes
    <2>2. DOMAIN w = DOMAIN wills[id]
        OBVIOUS
    <2> HIDE DEF w
    <2> QED  BY <2>1, <2>2, RewrittenFields
<1>4. CASE renounce_beneficiary(id, heir)
    <2> DEFINE w == [wills[id] EXCEPT !.beneficiaries = RenouncedList(@, heir)]
    <2>1. wills' = Put(wills, id, w)
        BY <1>4 DEF renounce_beneficiary, save_will, SaveWithVotes
    <2>2. DOMAIN w = DOMAIN wills[id]
        OBVIOUS
    <2> HIDE DEF w
    <2> QED  BY <2>1, <2>2, RewrittenFields
<1>5. CASE reveal_and_claim(id, claimant, salt)
    <2> DEFINE w(i, left) == [wills[id] EXCEPT !.balances = left,
                                               !.balance = BalanceOf(left, wills[id].token),
                                               !.hashed_beneficiaries[i].claimed = TRUE]
    <2>1. PICK i, left : wills' = Put(wills, id, w(i, left))
        BY <1>5 DEF reveal_and_claim, save_will, SaveWithVotes
    <2>2. DOMAIN w(i, left) = DOMAIN wills[id]
        OBVIOUS
    <2> HIDE DEF w
    <2> QED  BY <2>1, <2>2, RewrittenFields
<1> QED  BY <1>1, <1>2, <1>3, <1>4, <1>5

LEMMA ManyFields ==
    ASSUME FieldsInv, NEW owner,
           \/ \E source \in DOMAIN wills : \E tokens : clone_will(source, owner, tokens)
           \/ \E id \in DOMAIN wills : \E split : split_will(id, owner, split)
           \/ \E forms : batch_create_wills(owner, forms)
           \/ \E a, b \in DOMAIN wills : merge_wills(owner, a, b)
    PROVE  FieldsInv'
<1>1. ASSUME NEW source \in DOMAIN wills, NEW tokens, clone_will(source, owner, tokens)
      PROVE  FieldsInv'
    <2> DEFINE w == Descendant(wills[source], owner, BalancesOf(tokens), tokens[1][1],
                               tokens[1][2])
    <2>1. wills' = Put(wills, next_will_id + 1, w)
        BY <1>1 DEF clone_will, save_will, SaveWithVotes
    <2>2. DOMAIN w = DOMAIN wills[source]
        BY DEF Descendant
    <2> HIDE DEF w
    <2> QED  BY <2>1, <2>2, SavedFields DEF FieldsInv
<1>2. ASSUME NEW id \in DOMAIN wills, NEW split, split_will(id, owner, split)
      PROVE  FieldsInv'
    <2> DEFINE smaller(balances, list) ==
                    [wills[id] EXCEPT !.balances = balances, !.beneficiaries = list]
               source(balances, list) == sync_primary_balance(smaller(balances, list))
               heir(moving, primary) ==
                    Descendant(wills[id], wills[id].owner, moving, primary, moving[primary])
               child(moving, primary, list) ==
                    [heir(moving, primary) EXCEPT !.beneficiaries = list,
                                                  !.keeper_bounty_bps = 0]
    <2>1. PICK balances, remaining, moving, primary, parted :
                wills' = Put(Put(wills, id, source(balances, remaining)),
                             next_will_id + 1, child(moving, primary, parted))
        BY <1>2 DEF split_will
    <2>2. DOMAIN smaller(balances, remaining) = DOMAIN wills[id]
        OBVIOUS
    <2> HIDE DEF smaller
    <2>3. DOMAIN source(balances, remaining) = DOMAIN smaller(balances, remaining)
        BY DEF sync_primary_balance
    <2>4. DOMAIN heir(moving, primary) = DOMAIN wills[id]
        BY DEF Descendant
    <2> HIDE DEF heir
    <2>5. DOMAIN child(moving, primary, parted) = DOMAIN heir(moving, primary)
        OBVIOUS
    <2> HIDE DEF source, child
    <2> QED  BY <2>1, <2>2, <2>3, <2>4, <2>5 DEF FieldsInv, Put
<1>3. ASSUME NEW forms, batch_create_wills(owner, forms)
      PROVE  FieldsInv'
    <2> DEFINE ids == (next_will_id + 1)..(next_will_id + Len(forms))
               Form(id) == [forms[id - next_will_id] EXCEPT !.bounty = 0, !.delay = 0]
               fresh == [id \in ids |-> NewWill(owner, Form(id))]
    <2>1. wills' = [id \in DOMAIN wills \cup ids |->
                        IF id \in ids THEN fresh[id] ELSE wills[id]]
        BY <1>3 DEF batch_create_wills
    <2>2. \A id \in ids : WillFields \subseteq DOMAIN fresh[id]
        BY NewFields
    <2> HIDE DEF ids, fresh
    <2> QED  BY <2>1, <2>2 DEF FieldsInv
<1>4. ASSUME NEW a \in DOMAIN wills, NEW b \in DOMAIN wills, merge_wills(owner, a, b)
      PROVE  FieldsInv'
    <2> DEFINE wb == wills[b]
               merged(heirs, balances) ==
                  [wills[a] EXCEPT !.beneficiaries         = heirs,
                                   !.guardians             = merge_guardians(@, wb.guardians),
                                   !.checkin_period_days   = Min({@, wb.checkin_period_days}),
                                   !.grace_period_days     = Max({@, wb.grace_period_days}),
                                   !.balances              = balances,
                                   !.balance               = @ + wb.balance,
                                   !.guardian_votes        = 0,
                                   !.guardian_cancel_votes = 0]
               consumed == [wills[b] EXCEPT !.balances              = << >>,
                                            !.balance               = 0,
                                            !.status                = "Cancelled",
                                            !.guardian_votes        = 0,
                                            !.guardian_cancel_votes = 0]
    <2>1. PICK heirs, balances :
                wills' = Put(Put(wills, a, merged(heirs, balances)), b, consumed)
        BY <1>4 DEF merge_wills
    <2>2. DOMAIN merged(heirs, balances) = DOMAIN wills[a] /\ DOMAIN consumed = DOMAIN wills[b]
        OBVIOUS
    <2> HIDE DEF merged, consumed
    <2> QED  BY <2>1, <2>2 DEF FieldsInv, Put
<1> QED  BY <1>1, <1>2, <1>3, <1>4

LEMMA FieldsKept == FieldsInv /\ [PortfolioNext]_vars => FieldsInv'
<1> SUFFICES ASSUME FieldsInv, [PortfolioNext]_vars
             PROVE  FieldsInv'
    OBVIOUS
<1>1. CASE OwnerNext
    <2>1. ASSUME NEW owner, NEW form, create_will(owner, form)
          PROVE  FieldsInv'
        <3>1. \E id : wills' = Put(wills, id, NewWill(owner, form))
            BY <2>1 DEF create_will, save_will, SaveWithVotes
        <3> QED  BY <3>1, NewFields, SavedFields
    <2> QED  BY <1>1, <2>1, OwnerFields DEF OwnerNext
<1>2. CASE \E ids \in SUBSET DOMAIN wills : SignOfLife(ids)
    <2>1. ASSUME NEW owner, NEW ids, batch_check_in(owner, ids)
          PROVE  FieldsInv'
        BY <2>1 DEF batch_check_in, CheckedIn, FieldsInv
    <2> QED  BY <1>2, <2>1, OwnerFields DEF SignOfLife
<1>3. CASE AnyoneNext
    BY <1>3, OwnerFields, ReleaseFields DEF AnyoneNext, release_inheritance
<1>4. CASE Tick \/ UNCHANGED vars
    BY <1>4 DEF Tick, vars, FieldsInv
<1>5. CASE GuardianNext
    BY <1>5, GuardianFields DEF GuardianNext
<1>6. CASE AppointNext \/ EstateOwnerNext
    BY <1>6, AppointFields, SettingsFields, EstateFields DEF AppointNext, EstateOwnerNext
<1>7. CASE EstateHeirNext
    <2>1. ASSUME NEW id, archive_will(id)
          PROVE  FieldsInv'
        BY <2>1 DEF archive_will, Without, FieldsInv
    <2>2. ASSUME NEW id, NEW t, NEW recipient, retry_failed_payout(id, t, recipient)
          PROVE  FieldsInv'
        BY <2>2 DEF retry_failed_payout, FieldsInv
    <2> QED  BY <1>7, <2>1, <2>2, EstateFields DEF EstateHeirNext
<1>8. CASE PortfolioOnlyNext
    <2>1. CASE repair_protocol_stats
        BY <2>1 DEF repair_protocol_stats, FieldsInv
    <2> QED  BY <1>8, <2>1, ManyFields DEF PortfolioOnlyNext, MultiplyNext, Merging
<1> QED  BY <1>1, <1>2, <1>3, <1>4, <1>5, <1>6, <1>7, <1>8
         DEF PortfolioNext, EstateNext, QuorumNext, LifecycleNext

\* No entry point stores a will with a field missing.
THEOREM FieldsHold == PortfolioSpec => []FieldsInv
<1>1. LifecycleInit => FieldsInv
    BY DEF LifecycleInit, StorageInit, FieldsInv
<1> QED  BY <1>1, FieldsKept, PTL DEF PortfolioSpec

----------------------------------------------------------------------------
(* The contract as long as no two wills are merged *)

UnmergedNext == EstateNext \/ MultiplyNext

UnmergedSpec == LifecycleInit /\ [][UnmergedNext]_vars

LEMMA UnmergedIsPortfolio == UnmergedSpec => PortfolioSpec
<1>1. [UnmergedNext]_vars => [PortfolioNext]_vars
    BY DEF UnmergedNext, PortfolioNext, PortfolioOnlyNext
<1> QED  BY <1>1, PTL DEF UnmergedSpec, PortfolioSpec

=============================================================================
