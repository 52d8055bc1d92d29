# SoroWill in TLA+

SoroWill is a Soroban (Stellar) smart contract for inheritance: an owner locks
tokens in a *will*, proves to be alive by checking in, and when a check-in is
missed and a grace period has passed, anybody may have the contract pay the
named beneficiaries. This directory models the contract
(`contracts/will/src/lib.rs`, `storage.rs`, `types.rs` and the small modules
beside them), checks it with TLC and proves part of it with TLAPS.

Every line number below is a line of the source at the commit beside these
files. At that commit the tree does not compile (several `Will` literals omit
`triggered_beneficiaries`, two readers are defined twice, `paginate_ids` is
called with the wrong number of arguments). The modules translate the bodies of
the entry points as they are written; `triggered_beneficiaries` is never set
there and is left out.

## 1. Inventory

| Component | State it keeps | Operations |
|---|---|---|
| Life cycle and clock | status, `last_checkin`, `trigger_time`, periods, `confirmation_deadline`, delegate of each will | `create_will`, `confirm_will`, `check_in`, `batch_check_in`, `set_delegate`, `update_periods`, `trigger_will`, `emergency_checkin`, `release_inheritance`, `cancel_will`, `close_will` |
| Guardians | weighted list with consent, threshold, two tallies, list date, vote records by (will, guardian) | `guardian_trigger`, `guardian_cancel_trigger`, `accept_guardian_role`, `reject_guardian_role`, `update_guardians`, `update_guardians_weighted` |
| Distribution | none of its own | `distribute`: bounty, hashed reserve, fixed bequests, percentages, refund, conservation check; called by both releases |
| Estate | balances and the legacy mirror, beneficiaries, hashed beneficiaries, failed payouts, archive | `top_up`, `update_beneficiaries`, `renounce_beneficiary`, `update_will_settings`, `add_hashed_beneficiary`, `reveal_and_claim`, `retry_failed_payout`, `archive_will` |
| Portfolio | none of its own | `clone_will`, `batch_create_wills`, `split_will`, `merge_wills`, `repair_protocol_stats` |
| Storage | wills by id, owner / beneficiary / triggered indexes, protocol statistics | the helpers every entry point goes through |
| Audit trail | per will a counter and the last `MAX_HISTORY_ENTRIES` transitions | `record_transition`, `append_history`; read by `get_will_history` and `get_will_history_page` |
| Readers | none; a client keeps a cursor between two calls | the paged listings by owner, beneficiary, status and trigger; deadlines, vote status, owner statistics, protocol audit |
| Token contracts (outside `src/`) | balances of the accounts and of the contract | `transfer`, which may fail, and `try_transfer`, whose failure is recorded |

**How they interact.** A Soroban call is atomic: it runs alone, and a panic
undoes it. Each entry point is therefore one action, with all the storage
helpers it calls. What interleaves is the *calls*: owners, delegates, guardians,
heirs, keepers and passing time, in any order. The components share the will
record, and what is derived from it is stored apart and kept in step by hand:
three indexes, the statistics, the mirror of the primary balance, the vote
records next to the tallies, the parked payouts next to the balances. A client
that pages through a listing makes one call per page, and between two pages
anybody may call anything: the cursor is all that ties the pages together.

**What is hard.** Deadlines with two sides that different callers race for;
votes that expire, are withdrawn or belong to a list that was replaced; a
release in which several transfers fail; balances split over a reserve,
bequests, percentages and a refund by separate loops; merges and splits, which
touch every derived entry at once; listings and trails that change under a
reader who is half way through them. `PROJECT.json` lists these hazards with the
line where each bites and the properties aimed at it.

## 2. Modules

| Module | What it models |
|---|---|
| `WillTypes` | the `Will` record, limits as constants, and the pure checks (`assert_valid_allocations`, `grace_elapsed`, ...) |
| `Allocations` | the arithmetic: distribution plan, renormalisation, merged lists |
| `WillStorage` | one variable per `DataKey`, the token ledger `bank`, and the helpers of `storage.rs` |
| `WillLifecycle` | creation to release, cancellation and closing; `LifecycleSpec`, `FairLifecycle` |
| `GuardianQuorum` | adds the guardians; `QuorumSpec` |
| `WillEstate` | adds funds, heirs, claims, retries and the archive; `EstateSpec` |
| `WillPortfolio` | adds clones, batches, splits, merges and repair; `PortfolioSpec` |
| `DeadMansSwitch` | what is promised of every will: the life cycle of `types.rs` with its clock, nothing else |
| `WillProperties` | all correctness properties, over the storage alone, and the refinement mapping to `DeadMansSwitch` |
| `WillQueries` | the read-only entry points that compute an answer, and what the answers promise |
| `IndexPaging` | the ordered id lists behind the indexes, `paginate_ids` |
| `AuditTrail` | the numbered, trimmed history of a will, `paginate_history` |
| `WillReads` | the contract with the lists and trails carried along, and a client who walks through them; `ReadsSpec` |
| `ReadProperties` | what a walk and two reads of a trail may show |
| `ContractProofs` | the inductive invariant of the life cycle, what follows from it and the refinement of `DeadMansSwitch`: for `LifecycleSpec`, for `QuorumSpec` and for `PortfolioSpec`, the whole contract |
| `VoteProofs` | the inductive invariant of the vote records, for `QuorumSpec` and `PortfolioSpec` |
| `SumProofs` | sums over finite functions: monotone, additive, and what one change of the function does to them |
| `TallyProofs` | the running tally of votes, idle quorums, and releases by guardians |
| `EstateProofs` | payout, the mirrored balance, and the estate's invariant: lists of heirs, indexes, count |
| `TypeProofs` | every entry point leaves well-typed wills, counters, statistics and indexes behind |
| `MoneyProofs` | what the contract holds against what it owes: the types of the ledger, solvency, nothing stranded |
| `ReadProofs` | the trails as readers find them, and the walks through lists and trails, for `ReadsSpec` |
| `MCLifecycle`, `MCQuorum`, `MCEstate`, `MCPortfolio`, `MCReads` | small instances |

Each specification EXTENDS the one before and its next-state relation is a
disjunction with the earlier one, so `PortfolioSpec` is the whole contract.
`ReadsSpec` composes it with the client: every step of the contract also moves
the lists and trails (`CarryAlong`), and `ReadPage` is a step of the client
alone. `WillQueries` extends `GuardianQuorum`, because its answers are about
wills, votes and statistics only.

**Correspondence.** An action has the name of its entry point, definitions
those of the functions they stand for; `PROJECT.json` maps each to its lines.
The guard is the conjunction of the assertions; `save_will` includes the purge
of the votes of guardians who left. The variables are

- `wills`, `archived_wills`: functions from ids to records with the fields of
  `Will`; `next_will_id`;
- `guardian_vote`, `guardian_cancel_vote`: the time of each vote on record,
  `NoTime` when there is none;
- `owner_wills`, `beneficiary_wills`, `triggered_wills`: the indexes as sets;
- `history`: the newest transition of each will;
- in `WillReads`: `owner_list`, `beneficiary_list`, `triggered_list`, the same
  indexes as the vectors they are; `trail`, the counter and the retained entries
  of each will; `walk`, the client's query, cursor, what it has seen and `owed`,
  what has stood in the listing since its first page;
- `protocol_stats`, `failed_payout`, `bank`, and the ledger time `now`.

**Abstractions.** Amounts are integers (the `i128` overflow panics are left
out); a SHA-256 commitment is the pair of claimant and salt it commits to; vote
reasons, events, time-to-live extensions and the wording of errors are dropped.
Authentication is the caller argument: an action of the owner requires the
account to be the owner. A token may refuse a transfer to some account; which
refusals may happen in a call is the constant `Refusals`. Accounts do not pay each
other outside the contract.

**Faulty variants.** A definition whose comment starts with "Faulty" is the
definition below it with one plausible bug. No specification uses it; replacing
the right definition by it makes the property named under `mutants` in
`PROJECT.json` fail, which shows that the property depends on that code.

## 3. Runs

All instances use two or three accounts, days of one second (`SECONDS_PER_DAY
= 1`; the code only multiplies by it), at most two tokens and small limits.
Address indexes are full, and refuse, in the run `portfolio`, where
`MAX_WILLS_PER_INDEX` is below `MaxWills`; in all others an index has room for every
will. `MaxTime` and `MaxWills` bound the clock and the ids; `Purse` bounds the
money. Deadlock checking is off because
a bounded clock and empty purses do end every behaviour. Account names are not
declared symmetric: they play different parts.

| Run | Instance | What it shows |
|---|---|---|
| `lifecycle` | one will of either of two owners, forms with one and two tokens, with a confirmation delay and with a bounty; `MaxTime` 6 | the clock, the triggered index and the trail; refinement of `DeadMansSwitch`; both liveness properties |
| `quorum` | one will with two guardians (2 of 2, or 1 of 2), replaced by shorter, empty and weighted lists; `MaxTime` 6: cooldown, vote, expiry and a second round fit | quorum, tallies and vote records, and that withdrawals and expired votes leave every field in its type; what owners, keepers and guardians are told about deadlines and votes |
| `estate` | one will; fixed bequests, thirds, and a balance of one unit; refusals, hashed shares, changes of everything; `MaxTime` 3 | indexes, mirror, bequests and percentages, payout |
| `two_wills` | two wills of the same or of different owners in one treasury | money and counts; a batch check-in or a call on one will leaves the other on its clock; owners' summaries add up |
| `portfolio` | batches of one and of two, a clone, two splits (one larger than a side can fund), merges; three ids, lists of two entries | money, lists, trail, bequests and clocks under reshaping; no list outgrows its limit |
| `reads` | up to three wills of one owner and one heir, paged by owner, by heir, by status (both readers) and through a trail, one item a page; `MAX_HISTORY_ENTRIES` 2 | walks neither repeat nor miss anything, trails are the newest window and are never renumbered |

Three seconds cover trigger, grace and release of a will with periods of one
day; six leave room for a recovery and a second cycle, or for a vote to expire
and be cast again. `portfolio` uses the portfolio, guardian, keeper and clock
actions (`ReshapingSpec`): the owner's other entry points are explored in
`estate`, and together with three wills they exceed what TLC can visit.
`portfolio` has no cooldown, because the clock only reaches 2 there.

In `portfolio` a batch of two wills fills the lists of their owner `alice` and of
the heirs `bob` and `carol`: a batch of `bob`'s, a clone or a split is then refused
until a merge or an end of a will makes room. A batch of one leaves room for a clone
or a split before any merge, and one of the splits asks for more than the other side
can do without. That creation and changes of heirs refuse at a full list is not seen
in a run; the theorem `ListsStayShort` covers every path.

In `reads`, `MaxTime` 1 is one missed check-in; `MaxRecords` 4 bounds the sum of
the trail counters of the stored wills, so that one will can have four entries
of which two are kept, or three wills can exist and one be recovered. A client
asks for `PageLimit` 1 of at most `MAX_PAGE_SIZE` 2 items, so that every walk
through two items has a call of the contract between its pages. The instance
leaves out two things under which lists lose their ascending order: the
triggered listing (see `triggered_walk` in section 4) and a change of heirs.

### Properties

- *Clock*: `TriggerTimeIsTheMissedDeadline`; `ImplementsDeadMansSwitch`, the
  contract implements the abstract life cycle under the mapping
  `AbstractEstate` (status, last sign of life and periods; zero once archived).
- *Derived storage*: `TriggeredIndexExact`, `AddressIndexesExact`,
  `IndexesWithinCap`, `TrailEndsInStatus`, `MirrorAgrees`, `ActiveCountExact`.
- *Money*: `NothingStranded` (what the contract holds is exactly what its
  wills, its archive and its parked payouts add up to), `OverMeansPaidOut`,
  `FixedBequestsCovered`, `PercentagesWhole`.
- *Guardians*: `VotesOfGuardiansOnly`, `VotesPostdateCooldown`,
  `CancelRoundsStartEmpty`, `TalliesBackedByRecords`, `NoIdleQuorum`,
  `GuardianReleaseNeedsQuorum`.
- *Readers*: `WalkNeverRepeats`, `FinishedWalkMissesNothing` (a client that has
  reached the last page has seen all that stood in the listing during the whole
  walk; a walk through a trail may lose its place when the trail is trimmed, but
  then the numbers it has seen show the gap), `TrailIsNewestWindow`,
  `EntriesNeverRewritten`.
- *Answers*: `DeadlineAnswersHonest` (the sign of the remaining time says which
  calls are accepted in this second, at zero too), `VoteAnswersHonest` (a vote is
  accepted only from a guardian whose dashboard shows none, and is then shown
  until it expires or is taken back), `OwnerStatsAddUp` (the owners' summaries add
  up to the protocol audit).
- *Progress*: `MissedCheckinIsNoticed`, `TriggeredResolves`.

### Fairness

Nothing in the contract runs by itself, so fairness is about callers.
`LifecycleFairness` assumes that time passes (`Tick`, up to its bound) and that
for each will somebody keeps calling `trigger_will` and `release_inheritance`
when they are enabled: both are permissionless, the second may pay a bounty, and
`docs/SECURITY-REVIEW.md:61` names the off-chain keeper as the one who calls. No
fairness is assumed of owners, guardians or heirs. `TriggeredResolves` speaks
of wills whose grace deadline lies before the end of the clock.

## 4. Where the code and its own statements disagree

Each of these is a run of one property that fails; the counterexample is short.

| Run | What happens |
|---|---|
| `shared_release` | a will with percentage heirs is never released: `remaining` is planned as shares and again as refund (lib.rs:5771), and the conservation check panics |
| `reserve_promised` | with half of the balance reserved for a hashed heir the same plan passes the check, pays everything and keeps the reserve on record too: `Solvent` fails |
| `first_guardians` | a will created without guardians keeps threshold 0 with its first list (lib.rs:1938) |
| `stale_votes` | a wider grace period revives expired release votes (lib.rs:2127) |
| `refused_twice` | an owner who is also an heir refuses the refund and the share of one release: the second parked amount overwrites the first (storage.rs:1257), which `NothingStranded` finds in nobody's name |
| `triggered_walk` | the triggered index is in the order of the triggers, but a cursor is compared with ids (storage.rs:576, 982): a keeper who has read will 2 never gets will 1, triggered after it |

A run stops at the first violation, so the passing instances stay clear of these:
their released wills have fixed bequests, owners are not their own heirs when they
refuse payouts, a guarded will starts with guardians, the shares of merged wills do
not round to nothing, no purse names a token twice, and the count is checked where
nothing is split. What an instance leaves out in this way is what a run above or
the list below shows to fail. `Thirds` in `estate` has
percentage heirs and can therefore be created, changed and triggered there, but
not released.

Also seen while reading, modelled as written and without a run of their own:
a merge drops an heir whose combined share rounds to nothing (lib.rs:6088) and leaves
the surviving will in his index (lib.rs:3986, 4041); `split_will` counts its child
twice (lib.rs:4487-4488), which stays until `repair_protocol_stats` is called;
`clone_will` accepts a token named twice, of which the balance map holds the sum and
the mirror the first amount (lib.rs:3443); `cancel_will` takes its balances out of
the locked totals twice (lib.rs:1491, 1496); listings are cut at
`MAX_PAGE_SIZE` silently, so a client told to stop at a page shorter than the
limit it asked for (lib.rs:2585-2586) stops too early when it asks for more;
`more_advanced_consent` turns Accepted and Rejected into Pending
(lib.rs:5935-5943; the comment above ranks Accepted first);
`release_inheritance` and `distribute` both take the balances out of the totals
(lib.rs:1406, 5805) and `reveal_and_claim` takes the reserve out once more
(lib.rs:4810); `merge_wills` keeps `guardian_vote_weight` and the list date of
the surviving will; a Settled will cannot be archived.

## 5. Proofs

The theorems hold for every number of wills, accounts, tokens, guardians and
weights, and for every argument the named assumptions of `WillTypes`,
`WillLifecycle`, `GuardianQuorum`, `WillEstate`, `WillPortfolio`, `IndexPaging`,
`AuditTrail` and `WillReads` allow; TLC evaluates these on every run. They say that the set of accounts is finite, that
limits and periods are natural numbers, that a keeper's bounty is at most 100 %
(`MAX_KEEPER_BOUNTY_BPS`, 500 in types.rs), and which arguments callers pass.

| Property | `LifecycleSpec` | `QuorumSpec` | `PortfolioSpec` (whole contract) |
|---|---|---|---|
| `LifecycleInv` | `InvariantHolds` | `QuorumInvariantHolds` | `ContractInvariantHolds` |
| `ImplementsDeadMansSwitch` | `SwitchImplemented` | `QuorumImplementsSwitch` | `ContractImplementsSwitch` |
| `TriggerTimeIsTheMissedDeadline` | `TriggerTimeHolds` | | `ContractDeadlineHolds` |
| `TriggeredIndexExact` | `TriggeredIndexHolds` | | `ContractIndexHolds` |
| `TrailEndsInStatus` | `TrailHolds` | | `ContractTrailHolds` |
| `VoteInv` | | `VotesHold` | `ContractVotesHold` |
| `VotesOfGuardiansOnly` | | `OnlyGuardiansVote` | `ContractOnlyGuardiansVote` |
| `CancelRoundsStartEmpty` | | `CancelRoundsAreFresh` | `ContractRoundsAreFresh` |
| `VotesPostdateCooldown` | | `VotesWaitForCooldown` | `ContractVotesWait` |
| `GuardianReleaseNeedsQuorum` | | | `ReleaseTakesQuorum` |
| `VoteAnswersHonest` | | | `DashboardsAreHonest` |
| `OverMeansPaidOut` | | | `OverIsPaidOut` |
| `MirrorAgrees` | | | `MirrorHolds` (assuming `DistinctPurses`) |
| `TypeOK` | | | `TypesHold` |
| `IndexesWithinCap` | | | `ListsStayShort` |
| `Solvent` | | | `ContractStaysSolvent` (while releases are sound) |
| `NothingStranded` | | | `NothingIsStranded` (while releases are sound and pay apart) |

| Property | Specification | Theorem |
|---|---|---|
| `TalliesBackedByRecords` | `UnmergedSpec`: the whole contract without `merge_wills` | `TalliesAreBacked` |
| `NoIdleQuorum` | `UnmergedSpec` | `QuorumsActAtOnce` |
| `FixedBequestsCovered` | `UnmergedSpec` | `BequestsAreCovered` |
| `PercentagesWhole` | `UnmergedSpec` | `PercentagesAreWhole` |
| `AddressIndexesExact` | `UnmergedSpec` | `IndexesHold` |
| `ActiveCountExact` | `SeparateSpec`: nor `split_will` either | `CountHolds` |
| `OwnerStatsAddUp` | `SeparateSpec` | `OwnersAreToldAll` |
| `TrailIsNewestWindow`, `EntriesNeverRewritten` | `ReadsSpec` | `TrailsAreWindows`, `EntriesStand` |
| `WalkNeverRepeats` | `ReadsSpec` (walks in the order of the numbers) | `WalksNeverRepeat` |
| `FinishedWalkMissesNothing` | `ReadsSpec` (the same, and `PageLimit <= MAX_PAGE_SIZE`) | `WalksMissNothing` |

**The life cycle.** None of its three invariants is inductive alone.
`LifecycleInv` says of every stored will (`Kept`) that the fields the clock uses
have their types, that `last_checkin` is not in the future, that the will is
listed as triggered iff it is, that its trigger time is the missed deadline or
absent, and that its newest history entry ends in its status; and of the whole
that all stored ids were allocated (so that `create_will` writes a fresh entry),
that history and wills have the same domain and that the triggered index lists
stored wills only. `OneWill` reduces an action that rewrites a single will to
`Kept` of that will; `OneWillQuietly` and `OneWillRecorded` are its two forms,
without and with a new history entry. Each action has a lemma; `StepKeeps` puts
them together.

**The refinement** uses the same invariant. `Face` is what the abstract life
cycle sees of a stored will; `OneArrow` says that a step which rewrites one will
along an arrow is a move of the whole estate, and every action has a lemma that
names its arrow. `GraceIsMercy` is the point of it: because the trigger time of
a triggered will is the missed deadline, the deadline of `emergency_checkin` and
of `release_inheritance` is the one the abstract specification computes from the
last sign of life alone, and the two are legal on its opposite sides. The
guardians' release and rescue are shown to lie on the same arrows, on the same
sides. `Sound` joins the two conclusions, so that one lemma per
guardian, estate or portfolio action serves both.

**The whole contract.** Merges, splits, batches and clones touch several wills
in one call. `EachWill` (`ContractProofs`) judges such a step will by will: each
old one keeps its face or moves along an arrow, each new one is created running
on the clock of this moment, under an id that was never allocated. A merge is two
arrows in one call: the surviving will takes the shorter check-in and the longer
grace period without a sign of life, the consumed one is cancelled.

**The votes.** `VoteInv` says of each will (`Ballot`) that votes on record are
those of listed guardians and postdate the cooldown. That a will back on its
clock has no cancel votes left (`CancelRoundsStartEmpty`) is the hard part:
`reset_guardian_cancel_votes` returns early when the stored counter is zero
(storage.rs:939), and the counter is recomputed from votes that may have expired.
The strengthening is the last conjunct of `Ballot`: while a trigger can still be
taken back, no cancel vote has expired, because all of them are younger than the
trigger and the votes live as long as the grace period; so every record counts
and the counter equals their number. Expiry can only make it too small when the
trigger can no longer be taken back. For the whole contract, a merge clears the
records of both wills before their lists are joined, and `EachBallot` treats the
other reshaping like `EachWill`. `merge_wills` leaves the list date of the
surviving will alone; the theorem speaks of that stored date, it does not say
that a merged list has to wait.

**The trails.** `ReadsInvariantHolds`, `TrailsAreWindows`
(`TrailIsNewestWindow`) and `EntriesStand` (`EntriesNeverRewritten`) speak of
`ReadsSpec`, the whole contract with clients that page through it, for any
retention limit. `Window` says of one trail that it holds its newest numbers,
that each entry starts in the status where the one before ended and that the last
one ended in the status on record. `AppendedWindow` shows that `append_history`
keeps this provided the new entry starts where the newest one ended. No code
enforces that: every entry point passes the from-status to `record_transition`
itself, and several pass a literal. `HonestRecord` states it of a step, and one
lemma per action shows that the call records nothing (`Quiet`), one transition
(`Noted`), or, for check-ins of several wills and merges, one for each will it
names (`NamedRecords`). `LifecycleInv` closes the gap between the status on
record and the status of the will.

**The walks.** `PagingHolds` is the inductive invariant behind `WalksNeverRepeat`
and `WalksMissNothing`: any number of wills, entries and calls between two pages,
any page size and retention limit. It has two parts besides the trails.

- *The lists stay in ascending order* (`ListsInv`). What the comment at
  storage.rs:644 claims "by construction" needs three facts: a removal keeps the
  order of the others (`RemoveFact`, from what the recursive `Those` computes),
  a list that follows its index ends up with exactly the ids of the index and in
  ascending order if what came on top lies above all that was there
  (`FollowedFact`), and no entry point puts an id on an owner's list other than
  that of a will it has just made, under a number beyond the counter
  (`StepFresh`, one lemma per group of entry points).
- *A walk on its way has all it is owed up to its cursor* (`WalkInv`). For the
  listings: everything owed is either seen or above the cursor (`OnTheWay`). A page
  leaves nothing out between its cursor and its last item (`Served`), whether it is
  cut from the ids above the cursor, from those of one status, or, in
  `get_owner_status_page`, from the list with its head skipped; and what stands in
  the listing when the walk goes on (`WalkOn`) may have changed in between in any
  way. For trails the cursor is a position, so a trim between two pages shifts the
  entries under the reader: the invariant (`Along`) says that what the client has
  seen is older than what stands at its cursor, and that what it is owed lies in
  reach of the first entry it saw; a trail that stays gets no shorter
  (`TrailMovesOn`), so a walk that reaches its end without a gap in the numbers has
  seen all of that (`NoGapNoLoss`), and an archived will's trail never comes back,
  because its number does not.

The hypotheses leave out what is known to break the order, and nothing else.
`NoTriggeredWalks`: nobody walks through the triggered wills (`triggered_walk` in
section 4 shows that this fails). `HeirsInOrder`: if somebody walks through the
wills that name an heir, heirs are named only when a will is made, not by
`update_beneficiaries`, `update_will_settings` or a merge; walks through an
owner's wills, by status or through a trail need no such thing. And a client that
wants to miss nothing asks for no more than a page can hold (the hazard at
storage.rs:962); to see nothing twice it need not. TLC finds all three to hold on
the instance of `reads`.

**Sums.** A sum over a finite function is a fold, and what a fold computes for
every input needs induction. The induction theorems of the library take an
operator as a parameter, which no installed prover can instantiate; `SumProofs`
does without them. To show that sums of natural numbers over finite sets are
natural numbers, that they split at one element, or that they do not shrink
when a summand grows, it takes a set of smallest cardinality that is a
counterexample (`SmallestPart`) and removes one element from it. The sums the
contract is built from (weights, percentages, fixed amounts, balances) are
`SumFunction` and `SumFunctionOnSet` of the community modules for this reason.
Recursive functions over the positions of a list yield to the same trick
(`FirstOf`: look at the first position that fails). That is why the lists that
are filtered or folded (`Those`, `Followed`, the shares) are written as recursive
functions: the provers do not see into a LAMBDA given to `FoldLeft` or `SelectSeq`.

**The tally.** A vote recounts the stored tally from the live votes of consenting
guardians, a withdrawal takes one guardian off it, and everything else either
leaves it alone or sets it to zero. `TallyInv` says that the tally never claims
more heads or more weight than the votes on record carry
(`TalliesBackedByRecords`) and that, once there is a threshold, the release tally
of a will before its trigger and the cancel tally of a triggered one stay below it
(`NoIdleQuorum`). It is not inductive without `VoteInv`: that a will back on
its clock starts from empty records is what makes the zeros right, and that a
guardian who leaves the list takes the records along is what keeps them counted
over one list. `merge_wills` breaks it (lib.rs:3982, listed as a hazard): it clears
records and heads and leaves the weight alone, hence `UnmergedSpec`, whose
next-state relation is every other action of the contract (`QuorumSpec`, which
the run `quorum` explores, is a part of it by `QuorumIsUnmerged`).
`ReleaseTakesQuorum` is about a step and not about the stored tally, and holds
with merges too.

**Complete records.** `FieldsHold` says that every stored will has all fields of
`Will`. It looks like a type and costs a proof per action; without it `[will EXCEPT !.a = x].b = will.b`, the
shape of every action, is not a fact for the provers.

**Payout.** `PaidInv` says that a cancelled will holds nothing, that a released or
settled one holds nothing once its hashed heirs have claimed (and that balances
are integers, claims a list, the bounty a natural number, so that shares of them
can be computed with). Each action is put into one of
three classes: it leaves the money of every stored will alone, it moves money in
one live will, or it ends one will through `distribute` or a refund. A merge
moves the balances of a live will into another and leaves none behind.
`MirrorAgrees` follows the same classes for the older field `balance`, which
every change has to repeat. `MirrorHolds` assumes `DistinctPurses`, that no list
of deposits handed to `clone_will` names a token twice: create_will and
batch_create_wills refuse such a list (lib.rs:753-758, 3568-3573), `clone_will`
adds the amounts up in the map and writes the first into the mirror
(lib.rs:3443), so without the hypothesis the statement is false of the code.

**The dashboards.** `get_guardian_vote_status` shows a vote as long as it is on
file and unexpired. `DashboardsAreHonest` needs two facts of every entry point.
First, a record that was not there before is the caller's own, and was put there
by `guardian_trigger`, at this moment (`CastOnlyByTrigger`): the estate, a merge,
a clone, a payout or an archive may take votes off the file (`NoVoteCast`) and
never add one, although several of them rewrite the records of two wills. Second,
`guardian_trigger` refuses exactly the guardians whose dashboard shows a vote
(`OneVoteCast`). `VoteInv` gives the types and the listed guardians,
`FieldsInv` the grace period the expiry is computed from.

**Heirs and indexes.** `EstateInv` says that the list of every live will
passes `assert_valid_allocations` against the primary balance (`WellAllotted`),
that it has an owner, and that both address indexes are exact. The list passes
that check when it is handed in; the proof is that it goes on passing. A top-up
raises the balance; `update_will_settings` and `update_beneficiaries` check anew;
a clone keeps the list and is checked against other money; `reveal_and_claim`
draws from wills that are released, and those are not live; a renunciation
replaces the list by one nobody checked. `RenouncedHeirs` shows that it names the
others, each once, that their fixed amounts are untouched and that the last
percentage takes what is missing to the old total, whatever the divisions rounded
off (`RescaledType`, with `SumTakeOut` of `SumProofs`), and `MoreThanNothing`
that no share is rounded to zero. A split parts the list: `HeirsInFact` shows
that each side names the heirs it should and nobody else, `NormalisedType` that
renormalising keeps them, and `SplitEstate` that the heirs who leave are taken
off the entry of the old will and put under the child.

These results hold for `UnmergedSpec`, every entry point but `merge_wills`. A
merge does break them: an heir of the surviving will whose combined share rounds
to zero is dropped from the list and stays in the index (lib.rs:3986, 4041), and
what the shares of a merged list exceed 100 % by is taken from the last percentage
heir alone, who keeps one basis point at least (lib.rs:6117-6133). The run
`portfolio` merges wills with shares that stay clear of both.

**The limit of the lists.** `ListsStayShort` needs nothing but the lists themselves
(`ListsFit`: finite and within the limit) and holds with merges and splits, where
the lists need not be exact. What `CanIndex` lets in fits (`RoomKept`), what is
taken off makes room (`RoomMade`); the rest is that each path checks the very lists
it adds to, after what it takes off them: `Reindexed` adds only heirs who were not
taken off, a split and a merge check the lists already pruned, a batch all its
places at once.

**The count and the owners' summaries.** Every lemma of a step says with
`EstateKeeps` that the count of live wills is afterwards as right as it was
before. `split_will` is the exception, it counts its child twice
(lib.rs:4487-4488); hence `SeparateSpec`, where no will is split and no two are
merged. The step that ends a will needs `LifecycleInv` to know that there are
finitely many. `OwnersAreToldAll` is a sum over owners of sums over their wills.
The owner index is exact, so the wills of the owners are parts of the set of live
wills that cover it without overlap, and the sum over the parts is the sum over
the whole (`SumByParts`).

**Types.** `StepTyped` says that every entry point leaves wills behind whose
fields hold what they are declared to hold, and within bounds: balances and
fixed bequests at least zero, hashed shares together at most 100 %, a bounty at
most its limit. The bounds are what makes it inductive: a balance stays a natural
number because no share of it, rounded down, exceeds it. Renormalised and
merged lists are recursive functions over their positions; `Iterates` is the
lemma about such a function (what holds of the first value and is passed on
holds of the last). `StepFiled` says the same of the counters, the statistics,
the indexes and the trail, and `TypesHold` follows together with the ledger.

**Money.** The ledger (`bank`) and the parked payouts (`failed_payout`) are the
books. `Left(t)` is what the contract holds of `t` beside its wills, its archive
and its parked payouts, so `Solvent` says that it is never negative and
`NothingStranded` that it is zero. Both are sums over functions that several
calls rewrite in several places, and neither is inductive: that a payout changes
`Left` as it should needs well-typed balances, payments of natural numbers and
payees who are accounts (`MoneyInv`). Every entry point but a release is
`Even`: it moves money between its owners and leaves `Left` alone, whether it
funds, refunds, merges, splits, claims, retries or archives (`StepBooks`). Of a
release, `PayoutsPay` shows that every payment either reaches its payee or is
parked, and `NothingOver` that a plan which passes the conservation check pays
what the will held, apart from the reserve that stays on its record.

The theorems about `Solvent` and `NothingStranded` have hypotheses, because the
code does not keep these properties in general:

- `SoundReleases`: a will that is released has no percentage heir, or no unclaimed
  hashed share and a first token whose bounty is not rounded to nothing. The
  conservation check counts `remaining` twice when percentage heirs share it
  (lib.rs:5771) and counts a bounty of the first token (lib.rs:5694-5698) that
  may be paid of another. Where these errors happen to cancel out against a
  reserve, a plan passes that promises money twice: the run `reserve_promised`
  violates `Solvent` in just this way, and the hypothesis excludes it.
- `ApartReleases`, for `NothingStranded` only: nobody is paid twice by one
  release. A second refused payment of a token to the same account replaces the
  parked amount of the first (storage.rs:1257), and what it replaced belongs to
  nobody any more: the run `refused_twice` violates `NothingStranded` in this way.

TLC finds `[][SoundReleases]_vars` to hold on the instances of `lifecycle`,
`quorum`, `two_wills` and `portfolio`, so the theorem speaks of everything that
happens there; on the instances of `estate` and `reserve_promised` it does not.
The runs that check `NothingStranded` pay accounts twice, but refuse them twice
in `refused_twice` only.

Checked by TLC only:

- liveness (`TriggeredResolves`, `MissedCheckinIsNoticed`), and
  `DeadlineAnswersHonest`, which speaks of `ENABLED` (out of the prover's reach);
- `Solvent` and `NothingStranded` without the hypotheses above, on instances
  that stay clear of the errors;
- bequests, percentages and indexes under merges, count and summaries under splits
  and merges, tallies under merges: not true for every value of the constants, see
  above;
- walks through the triggered wills, and through the wills of an heir while heirs
  change: not true, see above.

## 6. Not modelled

- `release_lock`: it exists only during a call, Soroban refuses re-entry, and a
  failed call rolls it back; the status assertions it doubles are modelled.
- `migrate_will`: one schema version, the record is written back unchanged and
  the upgrade never runs.
- `get_will`, `get_wills`, the version and the limits: they hand out what is
  stored. Of the two definitions of `get_wills_by_owner` and of
  `get_wills_by_beneficiary` the first ones are modelled; the second ones
  (lib.rs:4121, 4143) call helpers with arguments these do not take.
- Events, error codes, time-to-live, tests, fuzzing, profiling and scripts.
- Timestamp, actor and reason of a history entry, and the reasons of votes:
  nothing depends on them.

Six hazards in `PROJECT.json` have no property. Three are errors of the code that the
model repeats, so that a property would fail at once: the locked totals taken down
twice (lib.rs:1491), the index entry of an heir dropped by a merge (lib.rs:3986) and the
clone with a repeated token (lib.rs:3443). A merged will carries a weight
no vote record backs, and its list no cooldown of its own (lib.rs:3982): the
weight is recounted with the next vote, the cooldown is what the code does, and
no statement of the repository is contradicted by it. An archived will with an
unclaimed hashed reserve (lib.rs:4237) can only arise from the release that
`reserve_promised` shows to be wrong already. A limit above `MAX_PAGE_SIZE`
(storage.rs:962) misleads a client through the documentation, not through an
order of calls.

## 7. Status

Modelled: every entry point that changes state, every reader that computes
something, the storage helpers they use, paging and the audit trail. Proved: the
clock, the refinement of the abstract switch, the triggered index, the retained
trail, the vote records and what guardians are told of them, payout, the
mirrored balance, the limit of the lists and all types for the whole contract, solvency and the absence
of stranded money for it under the hypotheses named above; what walks through
ordered lists and trails see; the tally, lists of heirs and address
indexes for all of it but merges; the count and the owners' summaries for all of
it but splits and merges.

What would add most from here:

1. An instance with merged guardian lists (consent, carried weight), and one of
   splits with `repair_protocol_stats`; both exceed what a run of some minutes can
   visit together with three wills.
2. A walk through a beneficiary's listing while heirs change, once the order of
   that index is decided on; at present it fails like `triggered_walk`.
