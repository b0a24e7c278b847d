# A formal model of the DesMobApp backend

The backend lets people find a workplace (a venue, a room in it, a seat in the
room), hold it for some minutes, book it, pay for it and check in. It is a
FastAPI application over PostgreSQL. This directory holds TLA+ modules that
model what its handlers do to the database when many requests are served at
once, TLC configurations that check small instances, and theorems that TLAPS
checks for all instances. `PROJECT.json` is the index: components, runs, the
lines each definition stands for, mutants, findings, hazards and theorems.

## What is hard about this program

A handler is an `async` function with one SQLAlchemy session
(`app/db/session.py`): one transaction under READ COMMITTED. There is no lock
on a read, no version column, no exclusion constraint. Between any two `await`s
other requests run and commit. So:

- a check and the write that relies on it are different moments;
- an object keeps the attributes it was loaded with, even when a later query of
  the same session selects its row again;
- an UPDATE writes only the columns whose values changed since the load, so two
  writers of one row can leave a mixture;
- the only thing that makes concurrent writers meet is a unique index or the
  lock of a row that has been updated and not yet committed;
- nothing runs in the background: a hold or a token lapses because queries
  compare its `expires_at` with the clock.

The handlers do not prevent every conflict, so most invariants here say that a
state is good *unless the requests involved overlapped*. `Sessions` records, in
two ghost variables no guard reads, which rows were written while a request was
open, and `LostWrite(x)` and `Raced(x, y)` say so of a row and of a pair. Such an
invariant is not an excuse: it says that no sequence of requests, each begun
after the previous one ended, breaks the promise, and which overlaps can; the
handler, and not the interleaving, would be wrong if it failed. What overlapping
requests do break is stated and shown by the `violation` runs.

## Inventory

| component | state | operations | how it interacts | what makes it correct | module |
|---|---|---|---|---|---|
| Bookable space (`services/availability.py`, `models/space.py`) | venues, rooms, seats, rules, hours | resolve a resource to its context, conflict filter, rule, hours; list free slots | called by every booking handler | the filter covers every context that shares space; windows keep to rule and hours; listing and booking judge a slot alike, but for what the listing does not look at | `Resources`, `Availability` |
| Holds (`services/hold.py`) | `holds` | create, cancel, lapse | converted by `create_booking` | blocks while in force, used once, lapses by itself | `Booking` |
| Bookings (`services/booking.py`) | `bookings` | create, repeat, reschedule, cancel | reads holds; status written by payments and check-ins too | no two claims on one slot; windows allowed; cancelled stays cancelled | `Booking`, `SlotLedger` |
| Check-ins (`services/checkin.py`) | `checkins` (unique per booking) | create | sets the booking's status | one per booking, sticks | `Booking` |
| Payments (`services/payment.py`) | `transactions` | create, refund, capture | confirms a pending booking | never refunded for more than paid; amount and status agree | `Payments`, `Booking` |
| Accounts and sessions (`services/auth.py`) | `users`, `refresh_tokens`, `password_reset_tokens` | register, login, refresh, logout, reset, profile | every route resolves its user first | one account per address; one live token per login; reset and logout end sessions | `Auth` |
| Database session (`db/session.py`) | the open transaction | begin, commit, roll back | all of the above | see above | `Sessions` |
| Devices, preferences, notifications (`services/notification.py`) | devices, preferences, notifications | register, delete, update | notification rows inserted by other handlers | one device per push token, as last registered; preferences as last asked for; no unexpected error without a race | `Personal` |
| Favourites (`services/favorite.py`) | favourites | add, remove | - | a retry does no harm | `Personal` |
| Seat layout (`services/space.py`) | a room's flag, its seats | edit the layout | seats are what bookings name | edits keep to their room; a refused list has a reason; no mixture of two edits | `Layout` |
| Venue administration (`services/space.py`) | venues, features | create venue | shares features with the scripts | one feature per code; a lost venue takes a race | `Catalog` |
| Demo data and tariffs (`scripts/seed_demo.py`, `scripts/seed_tariffs.py`) | venues, rooms, seats, hours, rules, accounts, tariffs | run, again, at once, die and run again | the same tables as the server | run twice, nothing is there twice; half a demo is repaired | `Catalog` |
| Roles (`services/rbac.py`, `core/permissions.py`) | roles, permissions, pairs, assignments | seed, read | copied into access tokens | seeding adds what an older release lacks | `Catalog` (partly) |
| Analytics, HTTP surface, configuration | none of their own | - | - | - | not modelled |

## Modules

`Null` declares the model value of SQL's NULL. `Sessions` is what a database
session is. `Resources` is the bookable space, all of it constant, and its
pure checks. `Booking` extends both, and `Availability` extends `Booking` with
the slot listing; `Auth`, `Payments`, `Personal` and `Layout` extend `Sessions`,
and `Catalog`, which shares the server and table `seats` with `Layout`, extends
that. `SlotLedger` is the abstract specification that `Booking` is shown to
implement. `MCBooking`, `MCAuth`, `MCPayments`, `MCPersonal` and `MCCatalog` hold
the values TLC gives the constants. `SessionsProofs`, `BookingProofs`,
`BookingTheorems`, `PaymentsProofs`, `AuthProofs`, `PersonalProofs`, `LayoutProofs`
and `CatalogProofs` hold the theorems.

**Requests.** `request[r]` is a record of what the open request `r` has in its
local variables, or `None`. A handler is cut where it talks to the database,
and nowhere else. `Begin...` takes the reads and checks up to the point where
what others commit can matter again; one action follows for every later read
(`ReadBookings` and `ReadHolds` are the two SELECTs of `_load_conflicts`,
`ReadLiveTokens` the one of `reset_password`), and `Commit...` makes all writes
of the handler visible at once. A request refused before its first step has no
step. `Abort` ends any open request without a trace: the client is gone, the
process or the connection died. Any request may be sent again afterwards, so
retries are covered too.

**Booking.** `clock` is the server's clock, `bookings` and `holds` are tables,
`paid` and `checkins` the sets of bookings with a row in the other two.
`Claim(x)` says that row `x` takes its slot now. A context carries the named
resource and its ancestors, as the rows do. Statuses that no handler writes
(expired, no_show, completed) exist in `BookingStatus`, as in the enum, and are
never reached. `Cached` is the identity map: the query selects by what the
table holds while the overlap test in Python sees the loaded attributes.

**Auth.** Three handlers send a write before their commit, and hold a lock from
there on: `register_user` by its flush (`AddressLocked`, the unique index entry),
`refresh_user_session` by the autoflush before `_issue_session_tokens` selects the
roles (`TokenLocked`, the row of the token it revokes), `reset_password` by the
autoflush before it selects the live tokens (`UserLocked`, the row of the user).
The last of them then updates the live tokens one after the other, in an order
nobody controls (`FlushRevocation`), and so waits for refreshes while it holds the
user's row. The steps that wait have the lock's absence as guard. `line` and
`password` of a token are ghosts: the tokens it was exchanged for, from the
login on, and the password of that login.

**Payments.** A refund writes the sum it computed from the row it loaded.
`notified` adds up what users were told. `capture_payment` is not an action: a
transaction is captured when created, so its writing branch is unreachable,
which `TypeOK` states and `PaymentsProofs!TypeCorrect` proves. (The booking is
here only its status; moves and check-ins are in `Booking`.)

**Availability.** `Slots` is the walk over a local day, `Blocked` the overlap
test of the listing. Nothing here writes; `ListingMatchesBooking` compares the
listing with what `create_booking` does by code of its own. They do not agree
everywhere: `get_availability` looks neither at the clock nor at
`max_advance_days` (`booking.py:111`, `booking.py:122`), so it offers slots that
have begun or are too far ahead, and it reads a rule of its own, which may be
another than the one a booking is judged by. The property says that these are
all the differences; the run has states with each of them, and no exception can
be dropped without a counterexample.

**Personal.** `InTheWay` is the row a commit meets: a key that is taken when it
inserts, a row that is gone when it updates. Such a commit is `FailCommit`, and
the request ends in the handler of unexpected errors. `wanted` and `registered`
are ghosts: what a user asked for last, and the last registration of a token.

**Layout.** A save is one UPDATE per seat with a changed column, by ascending
key, then the INSERTs; `Clashes` says that one of them meets the unique
constraint on (room, label) on the way. Beside its label a seat has a place, which
stands for any one of its other columns, each of which is written by itself.
`LoadSeats` flushes a changed flag and then holds the row of the room. `asked` is a ghost: what the last editor wanted
of a seat.

**Catalog.** `create_venue` and the scripts are one shape of transaction: find
a row by its key, insert it if it is not there, go on. A handler is a program
of such steps (`CreateVenue`, `SeedRbac`, `SeedDemo`), and `Look`, `Insert` and
`CommitProgram` run it. `rows` also has the rows of open transactions, with
their owner; `WaitsFor` is the wait for the transaction that has inserted the
same key under a unique index, `BreakDeadlock` what PostgreSQL does about a
circle of waits. The accounts of the demo are committed one by one (`"apart"`),
so a run that dies leaves half of it (`halfDone`). `seed_tariffs` walks down from
the venues (`PriceNext`).

**SlotLedger.** A map from claims to slots; a claim is taken or moved only
where free, handed from a hold to its booking, or released. `Booking!claims` is
the refinement mapping.

## Runs

| run | asks | bounds |
|---|---|---|
| `booking_races` | do clashes and unchecked windows come only from overlaps? | 2 requests, 2 bookings, one venue, three windows: two moves from the shortest to the others leave, together, one longer than the rule allows |
| `status_races` | what do statuses still mean after overlapping payments, check-ins, moves, cancellations? | 2 requests, 2 bookings, 1 window, a rule that asks for payment |
| `hold_races` | the same for creation, cancellation, conversion and lapse of holds, and every hold lapses | 2 requests, 2 holds, 2 bookings, clock to 2 |
| `booking_serial` | served one at a time, do the tables implement the ledger, is a hold booked as it was held, and where does the slot listing disagree with `create_booking`? | 1 request, 2 users, every handler but `create_payment` and `cancel_hold`, a venue, a room and a seat, a rule for the venue and one for the room, opening hours, clock to 1 |
| `auth_sessions` | what do refresh, logout and reset leave alive? | 2 requests, 1 user, 3 tokens, 1 reset token, clock to 1, ttl 1 |
| `auth_accounts` | are addresses unique, passwords safe from other writes, and do the waits for addresses, users and tokens end? | 2 requests, 2 users, 2 tokens, 1 reset token, two spellings of one address; every handler but logout |
| `payments` | do amount, status and what users were told agree? | 3 requests, 1 transaction of 0 or 3, refunds of 1, 2 or the rest |
| `personal` | are devices, preferences and favourites as asked for, and do commits fail only in races? | 2 requests, 2 users, 3 devices, 1 push token, two platforms, two fields, 1 venue; one table at a time |
| `catalog` | what do venues, scripts and layout editors leave twice, half done, mixed or refused; who can deadlock; does every transaction end? | 2 transactions at once, a third call afterwards; two permissions, two roles, two features, one demo room with one seat, two demo accounts; 3 seats in two rooms, 3 labels, 4 layouts |
| `double_booking` | *violated*: no two claims on one slot | 2 requests |
| `sibling_seats` | *violated*: a refused slot is taken | two seats of a room |
| `duplicate_address` | *violated*: a taken address is answered as a conflict | 1 request at a time |

Every property of a passing run is broken by a mutant of the code: an operator
marked "Variant" beside the definition it stands in for.

**Why the bounds suffice.** All the races here are between two requests on one
or two rows: the second reads before and writes after the commit of the first.
In `booking_races` two moves of a booking from (2, 3), one to (1, 3) and one to
(2, 4), leave (1, 4), which the rule refuses: without its exception
`TornWindowNeedsRace` fails there.
Two open requests and two rows of each table show every order of two handlers,
and any request may be followed by others, so longer chains (pay, move, cancel,
check in) occur too. `payments` has three, for two refunds and a payment or
cancellation, or three refunds. Windows are chosen so that overlapping, nesting
and being equal all occur, the slots of a listing touch, and the longer window of
`booking_serial` is refused by one of two rules. A clock of one or two ticks with a ttl of
one makes a hold or token lapse between any two steps of a request. The handlers
are spread over the runs by which rows they share. `booking_serial` has all of
them together but `create_payment`, which only turns a pending booking into a
confirmed one, and both block alike, and `cancel_hold`, whose hold is in nobody's
way, like one that has lapsed (the theorems about this run's properties are for
all handlers); `auth_accounts` leaves out logout, which
waits for the row of a token as a refresh does before it holds anything, and
holds nothing itself before its commit. Two users in `booking_serial` try to
use one another's holds. Of the devices three ids let a token be registered, deleted
and registered again. `personal` and `catalog` choose the handlers that are called
together once, at the start (`workload`), from sets that cover every pair of
writers of a table; `catalog` ends after two or three calls (`left`), so that a
run follows two that met, and starts from empty tables or from those of an older
release that lacks role permissions. Its layouts swap two labels, pass a label on
to a new seat, move a seat, and name a seat of another room or one seat twice.
`auth_sessions` uses symmetry of ids, which is sound for
invariants; the runs that check liveness (`hold_races`, `auth_accounts`) do not.

**Stopping.** Bounded ids and clocks run out, so every run has
`CHECK_DEADLOCK FALSE`; that requests themselves never wait for one another for
ever is the property `RequestsEnd`.

**Fairness.** `Booking!FairSpec` asks only that time passes, which is all
`HoldsLapse` needs. `Auth!FairSpec` asks strong fairness of `Continue`: the event
loop goes on with a request it has begun, and PostgreSQL, whose lock queues are
first come first served, grants a lock that becomes free again and again
(`FlushRegister` waits for an address, `ReadLiveTokens` and `CommitProfile` for a
user, `FlushRefresh`, `ExpireToken`, `CommitLogout` and `FlushRevocation` for a
token). That is weak fairness for every other step, as a request has one step to
take at a time. There is no deadlock detector in `Auth`: `RequestsEnd` would fail
on a circle, and does so in the mutant where a refresh also writes the user's row.
Nothing is assumed
about clients: no fairness on `Begin...`, on `Abort` or on the passing of time in
`Auth`. `Catalog!FairSpec` asks strong fairness of `Continue`: the interpreter
goes on with a transaction it has begun, a request that waits for a key has its
turn when the key is free again and again, and PostgreSQL's deadlock detector
ends one request of a circle. Layout requests are not in `Catalog!RequestsEnd`;
they wait for no more than one row.

## Findings

1. `double_booking`: two overlapping `create_booking` take the same slot
   (`booking.py:207`): nothing orders the check and the insert.
2. `sibling_seats`: the filter for a seat also selects every row of the venue
   (`availability.py:145`), so a booked seat refuses all other seats of the
   venue at that time.
3. `duplicate_address`: the flush of `register_user` fails outside the `try`
   that expects the failure (`auth.py:94`).

An observation without a run, because no text of the repository says otherwise:
`_resolve_booking_rule` (`availability.py:100`) looks for a venue's rule by
`venue_id` alone and takes any row, so where the rules of rooms carry the
venue's id as well, the rule is one of several; `ResolvableRules` is that set.
Nor does any text say that a slot listed as free can be booked, which it cannot
if it has begun, lies further ahead than `max_advance_days`, or is judged by
another of these rules (see `ListingMatchesBooking`).

## Proofs

All for arbitrary constants that satisfy the named assumptions
(`ResourcesAssumption`, `BookingAssumption`, `PaymentsAssumption`,
`AuthAssumption`, `PersonalAssumption`, `LayoutAssumption`, `CatalogAssumption`,
`DataAssumption`, `NamesAssumption`, `RowsAtFirstAssumption`), which TLC evaluates
in every run of their modules. They say what kinds of values the constants are, that tables have
no ids in common, and that `None` is none of the values; `DataAssumption`, that the
lists the scripts walk are sequences, those of permissions and roles without
repetition; `NamesAssumption`, that `seed_demo` names no feature, weekday, room, seat
of a room or account twice; `RowsAtFirstAssumption`, that an older release has left no row twice
where this one would not, no row under one that is not there, and no demo account
without its role.

- **Booking.** `BookingProofs!IInv` strengthens `TypeOK /\ ClashNeedsRace` with
  what an open session knows. `ClashNeedsRace` alone is not inductive: at a
  commit one must know that the conflict queries, made earlier, still tell the
  truth about every row that nobody has written since. `SessionsChecked` says
  this (a row not in `raced[r]` does not stand in the way of a session past its
  query), `SessionsFresh` that a loaded row not in `raced[r]` is as it was
  loaded, `SessionsLinked` that targets exist and have the session's context,
  `KnownStatuses` which statuses occur. The clock helps: claims lapse, and never
  come back by themselves. `NextInv` has one lemma per group of handlers.
  From it: `TypeCorrect`, `NoClashWithoutRace`. `FilterCoversSharedSpace` is the
  fact about the SQL filter everything rests on.
- **BookingTheorems.** `RInv`, inductive together with `IInv`, says what rows mean
  to one another: a checked-in booking, a confirmed one, a converted hold, a window.
  What it needs beside them is why an open request was let in (`SessionsAdmitted`:
  the window was checked against the very rule that said whether payment is due,
  and only bookings not yet checked in are moved), that a booking made from the
  hold of an open request is younger than that request (`SessionsHold`), and that
  a hold a booking was made from is never in force again (`HoldsSpent`). From it:
  `CheckinsStick`, `ConfirmedArePaid`, `HoldsUsedOnce`, `TornWindowsNeedRaces`, and
  the action property `BookingsAsHeld`: at the commit of a booking its session
  still has user, context and window of the hold.
- **Where listing and booking agree.** `ListingsMatchBookings` (also in
  `BookingTheorems`) compares two pieces of code on the same tables, and needs only
  their types. The listing walks a local day and converts each slot to an instant;
  `create_booking` converts the instant back and looks up the hours of that day.
  `LocalInstant` and `DayOfInstant` say that the offset cancels, so that both mean
  the same day; `HoursAgree`, that both then find the same hours; `SlotsAreAllowed`,
  that a slot of the grid passes the rule and the hours; `BlockedAgrees`, that
  the listing's overlap test refuses whatever the conflict filter would.
- **The ledger.** `SerialIsSafe`: if there is at most one request, then
  `NoDoubleBooking`, because then nothing is ever recorded in the ghosts.
  `NoRevivalWithoutRace` is an action property: the writer of a cancelled
  booking had loaded it live, so it has raced with the cancellation.
  `SerialImplementsLedger` is the refinement for at most one request. Every
  step is first reduced to what it does to `claims`: the clock releases claims
  (`TickReleases`), every commit but one changes a single claim
  (`OneClaimChanges`), and that one hands a hold to its booking. That the slot
  taken or moved to is free is `NoDoubleBooking` of the next state; that a booking
  takes over exactly the slot of its hold is `SessionsLinked`.
- **Payments.** `PaymentsProofs!IInv` adds to the amounts being in order that an
  open refund fits into what remained of the row it loaded, and that the row is
  as loaded until someone else writes it. From it five theorems: types,
  `RefundWithinPayment`, `RefundsAddUp`, `RefundedWhenAllIs`, `CancelledIsNotPaid`.
- **Auth.** `AuthProofs!IInv` adds to the types and to `OneAccountPerAddress` what
  open sessions know (`SessionsKnow`), that a flushed address is free for its
  owner (`FlushedIsFree`, which is why a commit never makes a second account),
  and the shape of token lines: a line goes back over revoked tokens
  (`LinesInOrder`), two tokens of one login are on one line unless a refresh was
  doubled (`SplitsNeedRace`), nothing follows a logout (`LogoutsLast`). From it
  `ForksNeedRaces`, `LogoutsStick`, `OldSessionsNeedRaces`, and
  `PasswordChangesTakeTokens`, an action property.
- **Personal.** `PersonalProofs!IInv`: a session knows the row it loaded until
  someone writes it, and what is in the way of its commit has raced with it.
- **Layout.** `LayoutProofs!LInv`: a seat loaded stays in its room and is as loaded
  until another save writes it; a seat that came since was written since. The
  theorems are about `LayoutSpec`, whose actions `Catalog` runs as they are
  (`EditLayout`) beside its own, and about `Catalog!Spec`: the four `CatalogKeeps...`
  theorems say that no script or venue takes anything from a layout's promises.
- **Catalog.** `CatalogProofs!CInv` is `LInv` with four parts of its own. `RowsInv`:
  ids and committed unique keys occur once, rows hang on rows that are there, an
  open transaction's rows are owned by a request that runs. `ProgramInv` and
  `WalkInv`, per session: where a program stands in its list of blocks, stages and
  steps, that what it has found or made is there for it to see, that a row it has
  still to insert was not there when it looked *unless the key has been published
  since*, and that a walk's rows still exist. `TwinInv`: two rows of one key share
  a race or a `create_venue`. `DemoInv`: an account without its role is one whose
  run is still open or was lost. Each is needed for a property: at an INSERT, that no
  other row of the key is there is known only from the earlier SELECT, and the
  ghosts say when it may have become wrong (`DuplicatesNeedRaces`,
  `FailuresNeedRaces`); that half a demo needs a crash is `DemoInv`
  (`HalfDemosNeedCrashes`). `Proceeding`, the step from one stage or block to the
  next, is reasoned about through one lemma (`ProceedingFacts`), so that no
  induction over programs is needed.
- **Deadlocks.** `CatalogProofs!OInv`, beside `CInv`: a program has run in the order
  it is written in, and each row a request has inserted comes before whatever it
  still lacks. A request waits because another has inserted its key and not
  committed. `WaitsAreAhead`: without disorder, the request waited for runs the same
  script and is further on in it, because `seed_demo` makes each uniquely indexed row
  in one place (`DemoStepsApart`) and the first stage of `seed_rbac` is the same
  sequence for everyone. The one furthest on in a circle would have nobody to wait
  for (`NoOrderedCircle`); that one is furthest on is `NoRise`.
  The two exceptions of `DeadlocksNeedDisorder` are the places where the order is not fixed.

Only model-checked: liveness (`HoldsLapse`, and `RequestsEnd` in `Auth` and in
`Catalog`). Liveness under fairness, `ENABLED` and
induction over data are out of the prover's reach; no module declares a RECURSIVE
operator.

## Not modelled

Zones are constant offsets (no daylight saving), ticks stand for minutes.
Payload (names, texts, QR codes, coordinates, currencies) is left out, and so
are reads that change nothing (lists, history, analytics), and in `Catalog` the
columns that the scripts set to constants. Deactivation of users, venues or
seats has no writer in the code. Notification rows are inserted by many handlers
in the same transaction and never updated. Access tokens are self-contained and
in no table: what they claim is a copy of roles and permissions, which no handler
takes away, so a token never says more than the tables. Which permission is in
which role is data. Routing, status codes, serialisation, configuration and
logging keep no state; what `api/errors.py` does with an unexpected exception ends
a request. `capture_payment` never finds anything to capture.

## Plan

Done: every component that writes to the database, with its runs; theorems for
all modules and for every safety property of the passing runs; the refinement for
one request.

Left, in this order:

1. Shorter proofs: lemmas that several proof modules state for themselves, such as
   those on sessions, in one place.
2. Should roles ever be revoked: access tokens, and the permissions they carry
   until they expire.
