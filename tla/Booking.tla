------------------------------- MODULE Booking -------------------------------
(***************************************************************************)
(* Holds, bookings, payments of bookings and check-ins, as the handlers of *)
(* app/services/{hold,booking,payment,checkin}.py act on the database when *)
(* many requests are served at once.                                       *)
(*                                                                         *)
(* A handler that asks for a slot has four steps: begin (the reads and the *)
(* checks up to the conflict query), ReadBookings, ReadHolds, and its      *)
(* commit.  A handler that changes a status has two: it loads the row, and *)
(* commits.  What a session is, and the ghost variables raced and races,   *)
(* are in Sessions.                                                        *)
(***************************************************************************)
EXTENDS Resources, Sessions

CONSTANTS
  Users,        \* who makes requests
  BookingIds,   \* bound: the bookings that can ever be created
  HoldIds,      \* bound: the holds that can ever be created
  Windows,      \* bound: the intervals requests ask for
  MaxClock,     \* bound: the last instant of the clock
  Workload      \* bound: the handlers that clients call

VARIABLES
  clock,          \* datetime.now(UTC)
  bookings,       \* table bookings: [BookingIds -> a row or None]
  holds,          \* table holds: [HoldIds -> a row or None]
  paid,           \* the bookings with a row in table transactions
  checkins        \* the bookings with a row in table checkins

tables == <<bookings, holds, paid, checkins>>
vars == <<clock, tables, sessions>>
------------------------------------------------------------------------------
Ids == BookingIds \cup HoldIds

BookingStatus ==
  {"pending", "confirmed", "checked_in", "cancelled", "expired", "no_show",
   "completed"}
HoldStatus == {"pending", "cancelled", "expired", "converted"}

BLOCKING_BOOKING_STATUSES == {"pending", "confirmed", "checked_in"}
BLOCKING_HOLD_STATUSES == {"pending"}

BookingRow ==
  [user : Users, ctx : Contexts, start : Nat, end : Nat,
   status : BookingStatus, hold : HoldIds \cup {None}]

HoldRow ==
  [user : Users, ctx : Contexts, start : Nat, end : Nat,
   status : HoldStatus, expires : Nat]

(* The handlers that run the conflict query, and those that do not. *)
SlotHandlers ==
  {"create_hold", "create_booking", "repeat_booking", "reschedule_booking"}
StatusHandlers ==
  {"cancel_booking", "cancel_hold", "create_payment", "create_checkin"}

(* What an open request holds in its local variables: who asks, for what   *)
(* context and window, the hold it presents, the row it loaded first (its  *)
(* id and the attributes it had), and what the rule it read says.  at is   *)
(* the time in the hold filter, between the two queries.                   *)
Session ==
  [handler : SlotHandlers \cup StatusHandlers,
   pc : {"bookings", "holds", "commit"},
   user : Users, ctx : Contexts, start : Nat, end : Nat,
   hold : HoldIds \cup {None}, target : Ids \cup {None},
   loaded : BookingRow \cup HoldRow \cup {None},
   requires_payment : BOOLEAN, expires : Nat, at : Nat]

Interval == [start : Nat, end : Nat]

ASSUME BookingAssumption ==
  /\ Windows \subseteq Interval
  /\ MaxClock \in Nat
  /\ BookingIds \cap HoldIds = {}
  /\ None \notin BookingIds \cup HoldIds
  /\ None \notin BookingRow \cup HoldRow \cup Session \cup Slot

LiveBooking(b) ==
  bookings[b] # None /\ bookings[b].status \in BLOCKING_BOOKING_STATUSES

(* Variant: the hold query forgets expires_at. *)
HoldBlocksForever(h, t) ==
  holds[h] # None /\ holds[h].status \in BLOCKING_HOLD_STATUSES

(* A hold that the hold query of a request whose clock reads t returns. *)
HoldBlocks(h, t) ==
  /\ holds[h] # None
  /\ holds[h].status \in BLOCKING_HOLD_STATUSES
  /\ t < holds[h].expires

Init ==
  /\ clock = 0
  /\ bookings = [b \in BookingIds |-> None]
  /\ holds = [h \in HoldIds |-> None]
  /\ paid = {}
  /\ checkins = {}
  /\ NoRequests
------------------------------------------------------------------------------
Begin(r, s) ==
  /\ s.handler \in Workload
  /\ OpenSession(r, s)
  /\ UNCHANGED <<clock, tables>>

(* A row loaded by the handler that owns it: the WHERE of every lookup. *)
OwnBooking(b, u) == bookings[b] # None /\ bookings[b].user = u
OwnHold(h, u) == holds[h] # None /\ holds[h].user = u

Earliest(s, t) == IF s < t THEN s ELSE t

(* create_hold, up to the conflict query: expires_at is computed from the  *)
(* clock read on entry.                                                    *)
CreateHoldSession(u, c, w, rule) ==
  [handler |-> "create_hold", pc |-> "bookings", user |-> u, ctx |-> c,
   start |-> w.start, end |-> w.end, hold |-> None, target |-> None,
   loaded |-> None, requires_payment |-> FALSE,
   expires |-> Earliest(w.start, clock + HoldTtl(rule)), at |-> 0]

BeginCreateHold(r) ==
  \E u \in Users, c \in Contexts, w \in Windows :
    \E rule \in ResolvableRules(c) :
      /\ ValidWindow(c, w, clock, rule)
      /\ Begin(r, CreateHoldSession(u, c, w, rule))

(* Variant: _validate_hold does not compare the windows. *)
ValidHoldAnyWindow(h, u, c, w) ==
  /\ OwnHold(h, u)
  /\ holds[h].status = "pending"
  /\ clock < holds[h].expires
  /\ holds[h].ctx = c

(* _validate_hold *)
ValidHold(h, u, c, w) ==
  /\ OwnHold(h, u)
  /\ holds[h].status = "pending"
  /\ clock < holds[h].expires
  /\ holds[h].ctx = c
  /\ holds[h].start = w.start
  /\ holds[h].end = w.end

(* create_booking, up to the conflict query, with or without a hold. *)
CreateBookingSession(u, c, w, h, rule) ==
  [handler |-> "create_booking", pc |-> "bookings", user |-> u, ctx |-> c,
   start |-> w.start, end |-> w.end, hold |-> h, target |-> None,
   loaded |-> None, requires_payment |-> RequiresPayment(rule),
   expires |-> 0, at |-> 0]

BeginCreateBooking(r) ==
  \E u \in Users, c \in Contexts, w \in Windows, h \in HoldIds \cup {None} :
    \E rule \in ResolvableRules(c) :
      /\ ValidWindow(c, w, clock, rule)
      /\ h # None => ValidHold(h, u, c, w)
      /\ Begin(r, CreateBookingSession(u, c, w, h, rule))

(* repeat_booking loads a booking of any status, and then runs             *)
(* create_booking for its resource, in the same session and without a hold. *)
(* reschedule_booking loads a pending or confirmed one to move it.         *)
LoadedSlotSession(handler, u, b, w, rule) ==
  [handler |-> handler, pc |-> "bookings", user |-> u,
   ctx |-> bookings[b].ctx, start |-> w.start, end |-> w.end, hold |-> None,
   target |-> b, loaded |-> bookings[b],
   requires_payment |-> RequiresPayment(rule), expires |-> 0, at |-> 0]

BeginRepeatBooking(r) ==
  \E u \in Users, b \in BookingIds, w \in Windows :
    /\ OwnBooking(b, u)
    /\ \E rule \in ResolvableRules(bookings[b].ctx) :
         /\ ValidWindow(bookings[b].ctx, w, clock, rule)
         /\ Begin(r, LoadedSlotSession("repeat_booking", u, b, w, rule))

(* Variant: reschedule_booking moves a booking of any status. *)
BeginRescheduleAnyStatus(r) ==
  \E u \in Users, b \in BookingIds, w \in Windows :
    /\ OwnBooking(b, u)
    /\ \E rule \in ResolvableRules(bookings[b].ctx) :
         /\ ValidWindow(bookings[b].ctx, w, clock, rule)
         /\ Begin(r, LoadedSlotSession("reschedule_booking", u, b, w, rule))

BeginReschedule(r) ==
  \E u \in Users, b \in BookingIds, w \in Windows :
    /\ OwnBooking(b, u)
    /\ bookings[b].status \in {"pending", "confirmed"}
    /\ \E rule \in ResolvableRules(bookings[b].ctx) :
         /\ ValidWindow(bookings[b].ctx, w, clock, rule)
         /\ Begin(r, LoadedSlotSession("reschedule_booking", u, b, w, rule))

(* The handlers that load one row, test its status, and commit. *)
StatusSession(handler, u, x, row) ==
  [handler |-> handler, pc |-> "commit", user |-> u, ctx |-> row.ctx,
   start |-> row.start, end |-> row.end, hold |-> None, target |-> x,
   loaded |-> row, requires_payment |-> FALSE, expires |-> 0, at |-> 0]

LoadBooking(r, handler, refused) ==
  \E u \in Users, b \in BookingIds :
    /\ OwnBooking(b, u)
    /\ bookings[b].status \notin refused
    /\ Begin(r, StatusSession(handler, u, b, bookings[b]))

BeginCancelBooking(r) == LoadBooking(r, "cancel_booking", {"cancelled"})
BeginPayment(r) == LoadBooking(r, "create_payment", {"cancelled"})

(* Variant: a cancelled booking can be checked in. *)
BeginCheckinCancelled(r) == LoadBooking(r, "create_checkin", {"checked_in"})
BeginCheckin(r) == LoadBooking(r, "create_checkin", {"cancelled", "checked_in"})

(* cancel_hold does nothing to a hold that is not pending. *)
BeginCancelHold(r) ==
  \E u \in Users, h \in HoldIds :
    /\ OwnHold(h, u)
    /\ holds[h].status = "pending"
    /\ Begin(r, StatusSession("cancel_hold", u, h, holds[h]))
------------------------------------------------------------------------------
(* The identity map: a row the session has loaded keeps the attributes it  *)
(* had then, whatever a later SELECT finds in the database.                *)
Cached(s, b) == IF s.target = b THEN s.loaded ELSE bookings[b]

(* Variant: a user's own bookings are never in the user's way. *)
BookingConflictOfOthers(s, b) ==
  /\ LiveBooking(b)
  /\ ConflictFilter(s.ctx, bookings[b].ctx)
  /\ Overlaps(s, bookings[b])
  /\ bookings[b].user # s.user

(* A booking in the way of session s: the query of _load_conflicts selects *)
(* it by what the table holds, the handler's _overlaps tests its           *)
(* attributes; reschedule_booking leaves out the booking it moves.         *)
BookingConflict(s, b) ==
  /\ LiveBooking(b)
  /\ ConflictFilter(s.ctx, bookings[b].ctx)
  /\ Overlaps(s, bookings[b])
  /\ Overlaps(s, Cached(s, b))
  /\ ~(s.handler = "reschedule_booking" /\ s.target = b)

(* Variant: a user's own holds are never in the user's way. *)
HoldConflictOfOthers(s, h) ==
  /\ HoldBlocks(h, s.at)
  /\ ConflictFilter(s.ctx, holds[h].ctx)
  /\ Overlaps(s, holds[h])
  /\ holds[h].user # s.user

HoldConflict(s, h) ==
  /\ HoldBlocks(h, s.at)
  /\ ConflictFilter(s.ctx, holds[h].ctx)
  /\ Overlaps(s, holds[h])
  /\ h # s.hold

(* _load_conflicts, first query.  A handler that meets a conflict raises   *)
(* after both queries; it writes nothing in between, so the model lets it  *)
(* end at once.                                                            *)
ReadBookings(r) ==
  /\ request[r] # None /\ request[r].pc = "bookings"
  /\ ~\E b \in BookingIds : BookingConflict(request[r], b)
  /\ request' = [request EXCEPT ![r].pc = "holds", ![r].at = clock]
  /\ UNCHANGED <<clock, tables, raced, races>>

RefuseForBooking(r) ==
  /\ request[r] # None /\ request[r].pc = "bookings"
  /\ \E b \in BookingIds : BookingConflict(request[r], b)
  /\ Committed(r, {})
  /\ UNCHANGED <<clock, tables>>

(* _load_conflicts, second query. *)
ReadHolds(r) ==
  /\ request[r] # None /\ request[r].pc = "holds"
  /\ ~\E h \in HoldIds : HoldConflict(request[r], h)
  /\ request' = [request EXCEPT ![r].pc = "commit", ![r].at = 0]
  /\ UNCHANGED <<clock, tables, raced, races>>

RefuseForHold(r) ==
  /\ request[r] # None /\ request[r].pc = "holds"
  /\ \E h \in HoldIds : HoldConflict(request[r], h)
  /\ Committed(r, {})
  /\ UNCHANGED <<clock, tables>>
------------------------------------------------------------------------------
CommitCreateHold(r) ==
  LET s == request[r] IN
  /\ Open(r, "create_hold", "commit")
  /\ \E h \in HoldIds :
       /\ holds[h] = None
       /\ holds' = [holds EXCEPT ![h] =
                      [user |-> s.user, ctx |-> s.ctx, start |-> s.start,
                       end |-> s.end, status |-> "pending",
                       expires |-> s.expires]]
       /\ Committed(r, {h})
  /\ UNCHANGED <<clock, bookings, paid, checkins>>

(* Variant: the hold a booking was made from stays pending. *)
CommitCreateBookingKeepsHold(r) ==
  LET s == request[r] IN
  /\ \/ Open(r, "create_booking", "commit")
     \/ Open(r, "repeat_booking", "commit")
  /\ \E b \in BookingIds :
       /\ bookings[b] = None
       /\ bookings' = [bookings EXCEPT ![b] =
            [user |-> s.user, ctx |-> s.ctx, start |-> s.start, end |-> s.end,
             status |-> IF s.requires_payment THEN "pending" ELSE "confirmed",
             hold |-> s.hold]]
       /\ Committed(r, {b})
  /\ UNCHANGED <<clock, holds, paid, checkins>>

(* create_booking: insert the booking and convert the hold, in one commit. *)
(* The converted status always differs from the loaded one, so it is       *)
(* written whatever has become of the hold.                                *)
CommitCreateBooking(r) ==
  LET s == request[r] IN
  /\ \/ Open(r, "create_booking", "commit")
     \/ Open(r, "repeat_booking", "commit")
  /\ \E b \in BookingIds :
       /\ bookings[b] = None
       /\ bookings' = [bookings EXCEPT ![b] =
            [user |-> s.user, ctx |-> s.ctx, start |-> s.start, end |-> s.end,
             status |-> IF s.requires_payment THEN "pending" ELSE "confirmed",
             hold |-> s.hold]]
       /\ holds' = [h \in HoldIds |->
            IF h = s.hold THEN [holds[h] EXCEPT !.status = "converted"]
            ELSE holds[h]]
       /\ Committed(r, {b} \cup ({s.hold} \ {None}))
  /\ UNCHANGED <<clock, paid, checkins>>

(* Variants: a move leaves end_time as it was, or confirms the booking     *)
(* whatever the rule says.                                                 *)
CommitRescheduleForgetsEnd(r) ==
  LET s == request[r]
      status == IF s.requires_payment THEN "pending" ELSE "confirmed"
  IN
  /\ Open(r, "reschedule_booking", "commit")
  /\ bookings' = [bookings EXCEPT ![s.target] =
       [@ EXCEPT !.start = Assign(@, s.loaded.start, s.start),
                 !.status = Assign(@, s.loaded.status, status)]]
  /\ Committed(r, {s.target})
  /\ UNCHANGED <<clock, holds, paid, checkins>>

CommitRescheduleConfirms(r) ==
  LET s == request[r] row == bookings[s.target] IN
  /\ Open(r, "reschedule_booking", "commit")
  /\ bookings' = [bookings EXCEPT ![s.target] =
       [row EXCEPT !.start = Assign(@, s.loaded.start, s.start),
                   !.end = Assign(@, s.loaded.end, s.end),
                   !.status = "confirmed"]]
  /\ Committed(r, {s.target})
  /\ UNCHANGED <<clock, holds, paid, checkins>>

CommitReschedule(r) ==
  LET s == request[r]
      status == IF s.requires_payment THEN "pending" ELSE "confirmed"
      row == bookings[s.target]
  IN
  /\ Open(r, "reschedule_booking", "commit")
  /\ bookings' = [bookings EXCEPT ![s.target] =
       [row EXCEPT !.start = Assign(@, s.loaded.start, s.start),
                   !.end = Assign(@, s.loaded.end, s.end),
                   !.status = Assign(@, s.loaded.status, status)]]
  /\ Committed(r, {s.target})
  /\ UNCHANGED <<clock, holds, paid, checkins>>

CommitCancelBooking(r) ==
  /\ Open(r, "cancel_booking", "commit")
  /\ bookings' = [bookings EXCEPT ![request[r].target].status = "cancelled"]
  /\ Committed(r, {request[r].target})
  /\ UNCHANGED <<clock, holds, paid, checkins>>

CommitCancelHold(r) ==
  /\ Open(r, "cancel_hold", "commit")
  /\ holds' = [holds EXCEPT ![request[r].target].status = "cancelled"]
  /\ Committed(r, {request[r].target})
  /\ UNCHANGED <<clock, bookings, paid, checkins>>

(* Variant: the status of the transaction is copied to the booking. *)
CommitPaymentCopiesStatus(r) ==
  LET b == request[r].target IN
  /\ Open(r, "create_payment", "commit")
  /\ paid' = paid \cup {b}
  /\ bookings' = [bookings EXCEPT ![b].status = "captured"]
  /\ Committed(r, {b})
  /\ UNCHANGED <<clock, holds, checkins>>

(* create_payment inserts a captured transaction, and confirms a booking   *)
(* that was pending when it was loaded.                                    *)
CommitPayment(r) ==
  LET b == request[r].target IN
  /\ Open(r, "create_payment", "commit")
  /\ paid' = paid \cup {b}
  /\ \/ /\ request[r].loaded.status = "pending"
        /\ bookings' = [bookings EXCEPT ![b].status = "confirmed"]
        /\ Committed(r, {b})
     \/ /\ request[r].loaded.status # "pending"
        /\ bookings' = bookings
        /\ Committed(r, {})
  /\ UNCHANGED <<clock, holds, checkins>>

(* create_checkin: checkins.booking_id is unique, so a second row makes    *)
(* the commit fail and takes the change of status back with it.            *)
CommitCheckin(r) ==
  LET b == request[r].target IN
  /\ Open(r, "create_checkin", "commit")
  /\ b \notin checkins
  /\ checkins' = checkins \cup {b}
  /\ bookings' = [bookings EXCEPT ![b].status = "checked_in"]
  /\ Committed(r, {b})
  /\ UNCHANGED <<clock, holds, paid>>

RefuseSecondCheckin(r) ==
  /\ Open(r, "create_checkin", "commit")
  /\ request[r].target \in checkins
  /\ Committed(r, {})
  /\ UNCHANGED <<clock, tables>>

(* The client goes away, the process or the connection dies: the session   *)
(* is rolled back.                                                         *)
Abort(r) ==
  /\ request[r] # None
  /\ Committed(r, {})
  /\ UNCHANGED <<clock, tables>>

Tick ==
  /\ clock < MaxClock
  /\ clock' = clock + 1
  /\ UNCHANGED <<tables, sessions>>
------------------------------------------------------------------------------
BeginRequest(r) ==
  \/ BeginCreateHold(r) \/ BeginCreateBooking(r) \/ BeginRepeatBooking(r)
  \/ BeginReschedule(r) \/ BeginCancelBooking(r) \/ BeginCancelHold(r)
  \/ BeginPayment(r) \/ BeginCheckin(r)

Continue(r) ==
  \/ ReadBookings(r) \/ RefuseForBooking(r)
  \/ ReadHolds(r) \/ RefuseForHold(r)
  \/ CommitCreateHold(r) \/ CommitCreateBooking(r) \/ CommitReschedule(r)
  \/ CommitCancelBooking(r) \/ CommitCancelHold(r)
  \/ CommitPayment(r) \/ CommitCheckin(r) \/ RefuseSecondCheckin(r)

Next ==
  \/ \E r \in Requests : BeginRequest(r) \/ Continue(r) \/ Abort(r)
  \/ Tick

Spec == Init /\ [][Next]_vars

(* Time passes.  (Requests themselves need not finish for what is promised.) *)
FairSpec == Spec /\ WF_vars(Tick)
------------------------------------------------------------------------------
TypeOK ==
  /\ clock \in 0..MaxClock
  /\ bookings \in [BookingIds -> BookingRow \cup {None}]
  /\ holds \in [HoldIds -> HoldRow \cup {None}]
  /\ paid \subseteq BookingIds
  /\ checkins \subseteq BookingIds
  /\ request \in [Requests -> Session \cup {None}]
  /\ raced \in [Requests -> SUBSET Ids]
  /\ races \subseteq SUBSET Ids

(* What takes a slot now: a live booking, or a hold still in force. *)
Claim(x) == IF x \in BookingIds THEN LiveBooking(x) ELSE HoldBlocks(x, clock)
Row(x) == IF x \in BookingIds THEN bookings[x] ELSE holds[x]

Clash(x, y) ==
  /\ x # y
  /\ Claim(x) /\ Claim(y)
  /\ SharesSpace(Row(x).ctx, Row(y).ctx)
  /\ Overlaps(Row(x), Row(y))

(* No two claims take the same space at the same time.  This is what       *)
(* conflict detection between holds and bookings promises, and what the    *)
(* handlers keep as long as requests are served one at a time.             *)
NoDoubleBooking == \A x, y \in Ids : ~Clash(x, y)

(* Under any interleaving, two claims on the same space at the same time   *)
(* come only from requests that overlapped: the conflict check             *)
(* (booking.py:207-213, hold.py:104-108, booking.py:347-352), hold         *)
(* conversion, expiry, cancellation and every later write of a status or a *)
(* window leave no other way to a double booking.                          *)
ClashNeedsRace == \A x, y \in Ids : Clash(x, y) => Raced(x, y)

(* A booking's window is one its resource's rules and hours allow, unless  *)
(* two requests wrote the booking at once: reschedule_booking writes only  *)
(* the columns it changes, so two reschedules can leave the start of one   *)
(* and the end of the other (booking.py:354-355).                          *)
TornWindowNeedsRace ==
  \A b \in BookingIds : bookings[b] # None =>
    \/ \E rule \in ResolvableRules(bookings[b].ctx) :
          AllowedWindow(bookings[b].ctx, bookings[b], rule)
    \/ LostWrite(b)

(* A hold is turned into one booking and from then on is converted:        *)
(* anything else takes two overlapping requests (two create_booking with   *)
(* the same hold, or a cancel_hold that loaded it before the conversion,   *)
(* booking.py:154-170 and hold.py:134-140).                                *)
HoldUsedOnce ==
  \A b \in BookingIds : bookings[b] # None /\ bookings[b].hold # None =>
    LET h == bookings[b].hold IN
    /\ holds[h] # None
    /\ holds[h].status = "converted" \/ LostWrite(h)
    /\ \A a \in BookingIds \ {b} :
         bookings[a] # None /\ bookings[a].hold = h => Raced(a, b)

(* A booking made from a hold is, when it is made, of the hold's user, for *)
(* its resource and its window, although the hold was compared with the    *)
(* request three steps before (booking.py:160-170); and the hold was still *)
(* pending, unless another request wrote it in between.                    *)
BookedAsHeld ==
  [][\A b \in BookingIds, h \in HoldIds :
       bookings[b] = None /\ bookings'[b] # None /\ bookings'[b].hold = h =>
         /\ bookings'[b].user = holds[h].user
         /\ bookings'[b].ctx = holds[h].ctx
         /\ bookings'[b].start = holds[h].start
         /\ bookings'[b].end = holds[h].end
         /\ holds[h].status = "pending" \/ LostWrite(h)']_vars

(* A booking that was checked in stays checked in until it is cancelled,   *)
(* unless a payment or a reschedule had loaded it before the check-in and  *)
(* overwrites its status afterwards (payment.py:75-76, booking.py:356).    *)
CheckinSticks ==
  \A b \in BookingIds : b \in checkins =>
    bookings[b].status \in {"checked_in", "cancelled"} \/ LostWrite(b)

(* Where every rule that may apply asks for payment, a confirmed booking   *)
(* has a captured transaction, and this survives every race: the only      *)
(* write of "confirmed" there comes with the transaction                   *)
(* (booking.py:224, booking.py:356, payment.py:59-76).                     *)
ConfirmedIsPaid ==
  \A b \in BookingIds :
    /\ bookings[b] # None
    /\ bookings[b].status = "confirmed"
    /\ \A rule \in ResolvableRules(bookings[b].ctx) : RequiresPayment(rule)
    => b \in paid

(* A cancelled booking comes back to life only when the request that       *)
(* revives it had loaded it before it was cancelled: no sequence of        *)
(* requests, each begun after the previous one ended, does it.             *)
RevivalNeedsRace ==
  [][\A b \in BookingIds :
       bookings[b] # None /\ bookings[b].status = "cancelled"
         => bookings'[b].status = "cancelled" \/ LostWrite(b)']_vars

(* A hold nobody converts or cancels stops blocking its slot all by itself: *)
(* expires_at is at most the ttl away, and the hold query honours it.      *)
HoldsLapse ==
  \A h \in HoldIds : HoldBlocks(h, clock) ~> ~HoldBlocks(h, clock)

(* A request is turned down only for a claim on the same space at the same *)
(* time.                                                                   *)
RefusedSlotIsTaken ==
  [][\A r \in Requests : RefuseForBooking(r) \/ RefuseForHold(r) =>
       \E x \in Ids : /\ Claim(x)
                      /\ SharesSpace(request[r].ctx, Row(x).ctx)
                      /\ Overlaps(request[r], Row(x))]_vars
------------------------------------------------------------------------------
(* The ledger of SlotLedger, as the tables show it. *)
claims ==
  [x \in Ids |-> IF Claim(x)
                 THEN [ctx |-> Row(x).ctx, start |-> Row(x).start,
                       end |-> Row(x).end]
                 ELSE None]

Ledger == INSTANCE SlotLedger WITH ClaimIds <- Ids, ledger <- claims

(* With one request at a time, the tables implement the ledger: every      *)
(* commit takes, moves or releases claims as SlotLedger allows, and a      *)
(* commit that would take a slot in use never happens.                     *)
ImplementsLedger == Ledger!LedgerSpec
==============================================================================
