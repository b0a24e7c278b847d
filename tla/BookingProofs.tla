---------------------------- MODULE BookingProofs ----------------------------
(***************************************************************************)
(* Proofs about Booking, for every set of resources, rules, users,         *)
(* requests, rows and windows.                                             *)
(***************************************************************************)
EXTENDS Booking, SessionsProofs

USE DEF Ids

(* The handlers that begin by loading a booking. *)
BookingHandlers ==
  {"repeat_booking", "reschedule_booking", "cancel_booking", "create_payment",
   "create_checkin"}

(* No handler writes the statuses expired, no_show and completed. *)
KnownStatuses ==
  \A b \in BookingIds : bookings[b] # None =>
    bookings[b].status \in BLOCKING_BOOKING_STATUSES \cup {"cancelled"}

(* What the rows a session points to have in common with it, for as long   *)
(* as it is open.                                                          *)
Linked(s) ==
  /\ s.handler \in BookingHandlers =>
       /\ s.target \in BookingIds
       /\ s.loaded \in BookingRow
       /\ bookings[s.target] # None
       /\ bookings[s.target].ctx = s.ctx
  /\ s.handler \in BookingHandlers \ {"repeat_booking"} =>
       s.loaded.status \in BLOCKING_BOOKING_STATUSES
  /\ s.handler = "cancel_hold" =>
       /\ s.target \in HoldIds
       /\ holds[s.target] # None
  /\ s.hold # None =>
       /\ holds[s.hold] # None
       /\ holds[s.hold].user = s.user
       /\ holds[s.hold].ctx = s.ctx
       /\ holds[s.hold].start = s.start
       /\ holds[s.hold].end = s.end
  /\ s.hold # None => s.handler = "create_booking"
  /\ s.handler \in {"create_hold", "create_booking"} => s.target = None
  /\ s.handler \in SlotHandlers \/ s.pc = "commit"
  /\ s.at <= clock

SessionsLinked ==
  \A r \in Requests : request[r] # None => Linked(request[r])

(* What a session knows the moment it begins, and until another request    *)
(* writes the row: the row it loaded, and that the hold it presents (or    *)
(* cancels) is pending.                                                    *)
Fresh(s, written) ==
  /\ s.handler \in BookingHandlers /\ s.target \notin written =>
       bookings[s.target] = s.loaded
  /\ s.handler = "cancel_hold" /\ s.target \notin written =>
       holds[s.target].status = "pending"
  /\ s.hold # None /\ s.hold \notin written =>
       holds[s.hold].status = "pending"

SessionsFresh ==
  \A r \in Requests : request[r] # None => Fresh(request[r], raced[r])

(* What the conflict queries leave for the commit: a claim in the way of   *)
(* the session was written by another request since it began.              *)
ClearOfBookings(s, written) ==
  \A b \in BookingIds :
    /\ LiveBooking(b)
    /\ SharesSpace(s.ctx, bookings[b].ctx)
    /\ Overlaps(s, bookings[b])
    => b \in written \/ (s.handler = "reschedule_booking" /\ b = s.target)

ClearOfHolds(s, written) ==
  \A h \in HoldIds :
    /\ HoldBlocks(h, clock)
    /\ SharesSpace(s.ctx, holds[h].ctx)
    /\ Overlaps(s, holds[h])
    => h \in written \/ h = s.hold

Checked(s, written) ==
  s.handler \in SlotHandlers =>
    /\ s.pc \in {"holds", "commit"} => ClearOfBookings(s, written)
    /\ s.pc = "commit" => ClearOfHolds(s, written)

SessionsChecked ==
  \A r \in Requests : request[r] # None => Checked(request[r], raced[r])

IInv ==
  /\ TypeOK
  /\ KnownStatuses
  /\ SessionsLinked
  /\ SessionsFresh
  /\ SessionsChecked
  /\ ClashNeedsRace
------------------------------------------------------------------------------
(* The filter of _load_conflicts never misses a claim on shared space. *)
THEOREM FilterCoversSharedSpace ==
  ASSUME NEW c \in Contexts, NEW d \in Contexts, SharesSpace(c, d)
  PROVE  ConflictFilter(c, d)
<1>1. c.level \in {"seat", "room", "venue"}
  BY DEF Contexts, SeatContext, RoomContext, VenueContext
<1> QED
  BY <1>1 DEF SharesSpace, ConflictFilter

LEMMA SharesSpaceSymmetric ==
  ASSUME NEW c, NEW d
  PROVE  SharesSpace(c, d) <=> SharesSpace(d, c)
BY DEF SharesSpace

(* One rule is resolved, and what is read from it has its type. *)
LEMMA RuleTypes ==
  ASSUME NEW c, NEW rule \in ResolvableRules(c)
  PROVE  /\ HoldTtl(rule) \in Nat
         /\ RequiresPayment(rule) \in BOOLEAN
<1>1. rule = None \/ rule \in BookingRules
  BY DEF ResolvableRules, RoomRules, VenueRules
<1>2. rule \in BookingRules => rule \in BookingRuleRow
  BY ResourcesAssumption
<1> QED
  BY <1>1, <1>2, ResourcesAssumption
  DEF HoldTtl, RequiresPayment, BookingRuleRow
------------------------------------------------------------------------------
(* A request that begins has a well-formed session, and knows the rows it  *)
(* has just loaded.                                                        *)
Starting(s) ==
  /\ Linked(s)
  /\ Fresh(s, {})
  /\ s.handler \in SlotHandlers => s.pc = "bookings"

LEMMA BeginSession ==
  ASSUME TypeOK, KnownStatuses, NEW r \in Requests, BeginRequest(r)
  PROVE  \E s \in Session : Begin(r, s) /\ Starting(s)
<1> USE BookingAssumption DEF TypeOK, Session, SlotHandlers, StatusHandlers,
        Starting, Linked, Fresh, BookingHandlers, OwnBooking, OwnHold,
        BLOCKING_BOOKING_STATUSES
<1>1. ASSUME NEW w \in Windows
      PROVE  w.start \in Nat /\ w.end \in Nat
  BY DEF Interval
<1>2. CASE BeginCreateHold(r)
  <2>1. PICK u \in Users, c \in Contexts, w \in Windows :
          \E rule \in ResolvableRules(c) :
            Begin(r, CreateHoldSession(u, c, w, rule))
    BY <1>2 DEF BeginCreateHold
  <2>2. PICK rule \in ResolvableRules(c) :
          Begin(r, CreateHoldSession(u, c, w, rule))
    BY <2>1
  <2>3. Earliest(w.start, clock + HoldTtl(rule)) \in Nat
    BY <1>1, RuleTypes DEF Earliest
  <2> DEFINE s == CreateHoldSession(u, c, w, rule)
  <2>4. s \in Session /\ Starting(s)
    BY <1>1, <2>3 DEF CreateHoldSession
  <2> QED
    BY <2>2, <2>4
<1>3. CASE BeginCreateBooking(r)
  <2>1. PICK u \in Users, c \in Contexts, w \in Windows,
             h \in HoldIds \cup {None} :
          \E rule \in ResolvableRules(c) :
            /\ h # None => ValidHold(h, u, c, w)
            /\ Begin(r, CreateBookingSession(u, c, w, h, rule))
    BY <1>3 DEF BeginCreateBooking
  <2>2. PICK rule \in ResolvableRules(c) :
          /\ h # None => ValidHold(h, u, c, w)
          /\ Begin(r, CreateBookingSession(u, c, w, h, rule))
    BY <2>1
  <2>3. RequiresPayment(rule) \in BOOLEAN
    BY RuleTypes
  <2> DEFINE s == CreateBookingSession(u, c, w, h, rule)
  <2>4. s \in Session
    BY <1>1, <2>3 DEF CreateBookingSession
  <2>5. Starting(s)
    BY <2>2 DEF CreateBookingSession, ValidHold
  <2> QED
    BY <2>2, <2>4, <2>5
<1>4. ASSUME BeginRepeatBooking(r) \/ BeginReschedule(r)
      PROVE  \E s \in Session : Begin(r, s) /\ Starting(s)
  <2>1. PICK handler \in {"repeat_booking", "reschedule_booking"},
             u \in Users, b \in BookingIds, w \in Windows :
          \E rule \in ResolvableRules(bookings[b].ctx) :
            /\ OwnBooking(b, u)
            /\ handler = "reschedule_booking" =>
                 bookings[b].status \in {"pending", "confirmed"}
            /\ Begin(r, LoadedSlotSession(handler, u, b, w, rule))
    BY <1>4 DEF BeginRepeatBooking, BeginReschedule
  <2>2. PICK rule \in ResolvableRules(bookings[b].ctx) :
          /\ OwnBooking(b, u)
          /\ handler = "reschedule_booking" =>
               bookings[b].status \in {"pending", "confirmed"}
          /\ Begin(r, LoadedSlotSession(handler, u, b, w, rule))
    BY <2>1
  <2>3. RequiresPayment(rule) \in BOOLEAN
    BY RuleTypes
  <2>4. bookings[b] \in BookingRow /\ bookings[b].ctx \in Contexts
    BY <2>2 DEF BookingRow
  <2> DEFINE s == LoadedSlotSession(handler, u, b, w, rule)
  <2>5. s \in Session
    BY <1>1, <2>3, <2>4 DEF LoadedSlotSession
  <2>6. Starting(s)
    BY <2>2, <2>4 DEF LoadedSlotSession
  <2> QED
    BY <2>2, <2>5, <2>6
<1>5. ASSUME BeginCancelBooking(r) \/ BeginPayment(r) \/ BeginCheckin(r)
      PROVE  \E s \in Session : Begin(r, s) /\ Starting(s)
  <2>1. PICK handler \in {"cancel_booking", "create_payment", "create_checkin"},
             u \in Users, b \in BookingIds :
          /\ OwnBooking(b, u)
          /\ bookings[b].status # "cancelled"
          /\ Begin(r, StatusSession(handler, u, b, bookings[b]))
    BY <1>5 DEF BeginCancelBooking, BeginPayment, BeginCheckin, LoadBooking
  <2>2. /\ bookings[b] \in BookingRow
        /\ bookings[b].ctx \in Contexts
        /\ bookings[b].start \in Nat /\ bookings[b].end \in Nat
        /\ bookings[b].status \in BLOCKING_BOOKING_STATUSES
    BY <2>1 DEF BookingRow, KnownStatuses
  <2> DEFINE s == StatusSession(handler, u, b, bookings[b])
  <2>3. s \in Session
    BY <2>2 DEF StatusSession
  <2>4. Starting(s)
    BY <2>1, <2>2 DEF StatusSession
  <2> QED
    BY <2>1, <2>3, <2>4
<1>6. CASE BeginCancelHold(r)
  <2>1. PICK u \in Users, h \in HoldIds :
          /\ OwnHold(h, u)
          /\ holds[h].status = "pending"
          /\ Begin(r, StatusSession("cancel_hold", u, h, holds[h]))
    BY <1>6 DEF BeginCancelHold
  <2>2. /\ holds[h] \in HoldRow
        /\ holds[h].ctx \in Contexts
        /\ holds[h].start \in Nat /\ holds[h].end \in Nat
    BY <2>1 DEF HoldRow
  <2> DEFINE s == StatusSession("cancel_hold", u, h, holds[h])
  <2>3. s \in Session
    BY <2>2 DEF StatusSession
  <2>4. Starting(s)
    BY <2>1, <2>2 DEF StatusSession
  <2> QED
    BY <2>1, <2>3, <2>4
<1> QED
  BY <1>2, <1>3, <1>4, <1>5, <1>6 DEF BeginRequest
------------------------------------------------------------------------------
(* What every commit leaves alone: rows outside S, and, of every row there *)
(* is, its existence, its context and its owner, and the window of a hold.  *)
RowsKept(S) ==
  /\ bookings' \in [BookingIds -> BookingRow \cup {None}]
  /\ holds' \in [HoldIds -> HoldRow \cup {None}]
  /\ \A b \in BookingIds \ S : bookings'[b] = bookings[b]
  /\ \A h \in HoldIds \ S : holds'[h] = holds[h]
  /\ \A b \in BookingIds : bookings[b] # None =>
       bookings'[b] # None /\ bookings'[b].ctx = bookings[b].ctx
  /\ \A h \in HoldIds : holds[h] # None =>
       /\ holds'[h] # None
       /\ holds'[h].user = holds[h].user
       /\ holds'[h].ctx = holds[h].ctx
       /\ holds'[h].start = holds[h].start
       /\ holds'[h].end = holds[h].end

(* The sessions left open by a commit of another request know what they    *)
(* knew, the rows S having joined those they have raced with.              *)
LEMMA CommitKeepsSessions ==
  ASSUME TypeOK, SessionsLinked, SessionsFresh, SessionsChecked,
         NEW r \in Requests, NEW S \in SUBSET Ids,
         Committed(r, S), clock' = clock, RowsKept(S)
  PROVE  /\ request' \in [Requests -> Session \cup {None}]
         /\ raced' \in [Requests -> SUBSET Ids]
         /\ races' \subseteq SUBSET Ids
         /\ SessionsLinked'
         /\ SessionsFresh'
         /\ SessionsChecked'
<1> USE DEF TypeOK
<1>1. request' \in [Requests -> Session \cup {None}]
  BY DEF Committed
<1>2. raced' \in [Requests -> SUBSET Ids]
  BY DEF Committed
<1>3. races' \subseteq SUBSET Ids
  BY DEF Committed
<1>4. ASSUME NEW q \in Requests, request'[q] # None
      PROVE  /\ q # r
             /\ request'[q] = request[q]
             /\ raced'[q] = raced[q] \cup S
  BY <1>4 DEF Committed
<1>5. SessionsLinked'
  <2> SUFFICES ASSUME NEW q \in Requests, request'[q] # None
               PROVE  Linked(request[q])'
    BY DEF SessionsLinked
  <2>1. request'[q] = request[q] /\ Linked(request[q])
    BY <1>4 DEF SessionsLinked
  <2>2. request[q] \in Session
    BY <1>4
  <2> QED
    BY <2>1, <2>2 DEF Linked, RowsKept, Session
<1>6. SessionsFresh'
  <2> SUFFICES ASSUME NEW q \in Requests, request'[q] # None
               PROVE  Fresh(request[q], raced[q])'
    BY DEF SessionsFresh
  <2>1. /\ request'[q] = request[q] /\ raced'[q] = raced[q] \cup S
        /\ Fresh(request[q], raced[q]) /\ Linked(request[q])
    BY <1>4 DEF SessionsFresh, SessionsLinked
  <2>2. request[q] \in Session
    BY <1>4
  <2> QED
    BY <2>1, <2>2 DEF Fresh, Linked, RowsKept, Session
<1>7. SessionsChecked'
  <2> SUFFICES ASSUME NEW q \in Requests, request'[q] # None,
                      request[q].handler \in SlotHandlers
               PROVE  Checked(request[q], raced[q])'
    BY <1>4 DEF SessionsChecked, Checked
  <2> DEFINE s == request[q]
  <2>1. /\ request'[q] = s /\ raced'[q] = raced[q] \cup S
        /\ Checked(s, raced[q])
    BY <1>4 DEF SessionsChecked
  <2>2. ASSUME s.pc \in {"holds", "commit"}
        PROVE  ClearOfBookings(s, raced[q] \cup S)'
    <3> SUFFICES ASSUME NEW b \in BookingIds, b \notin S,
                        LiveBooking(b)', SharesSpace(s.ctx, bookings'[b].ctx),
                        Overlaps(s, bookings'[b])
                 PROVE  \/ b \in raced[q]
                        \/ s.handler = "reschedule_booking" /\ b = s.target
      BY <2>1 DEF ClearOfBookings
    <3>1. bookings'[b] = bookings[b]
      BY DEF RowsKept
    <3> QED
      BY <2>1, <2>2, <3>1 DEF Checked, ClearOfBookings, LiveBooking
  <2>3. ASSUME s.pc = "commit"
        PROVE  ClearOfHolds(s, raced[q] \cup S)'
    <3> SUFFICES ASSUME NEW h \in HoldIds, h \notin S,
                        HoldBlocks(h, clock)', SharesSpace(s.ctx, holds'[h].ctx),
                        Overlaps(s, holds'[h])
                 PROVE  h \in raced[q] \/ h = s.hold
      BY <2>1 DEF ClearOfHolds
    <3>1. holds'[h] = holds[h]
      BY DEF RowsKept
    <3> QED
      BY <2>1, <2>3, <3>1 DEF Checked, ClearOfHolds, HoldBlocks
  <2> QED
    BY <2>1, <2>2, <2>3 DEF Checked
<1> QED
  BY <1>1, <1>2, <1>3, <1>5, <1>6, <1>7

LEMMA ClashSymmetric ==
  ASSUME NEW x, NEW y
  PROVE  /\ Clash(x, y) <=> Clash(y, x)
         /\ Raced(x, y) <=> Raced(y, x)
<1>1. {x, y} = {y, x}
  OBVIOUS
<1> QED
  BY <1>1 DEF Clash, SharesSpace, Overlaps, Raced

(* Only the rows of S can enter a new clash.                               *)
LEMMA CommitKeepsClashes ==
  ASSUME TypeOK, ClashNeedsRace,
         NEW r \in Requests, NEW S \in SUBSET Ids,
         Committed(r, S), clock' = clock, RowsKept(S),
         \A x \in S, y \in Ids : Clash(x, y)' => Raced(x, y)'
  PROVE  ClashNeedsRace'
<1> SUFFICES ASSUME NEW x \in Ids, NEW y \in Ids, Clash(x, y)'
             PROVE  Raced(x, y)'
  BY DEF ClashNeedsRace
<1>1. CASE x \in S
  BY <1>1
<1>2. CASE y \in S
  <2>1. Clash(y, x)'
    BY ClashSymmetric, PTL
  <2>2. Raced(y, x)'
    BY <1>2, <2>1
  <2> QED
    BY <2>2, ClashSymmetric, PTL
<1>3. CASE x \notin S /\ y \notin S
  <2>1. ASSUME NEW z \in Ids \ S
        PROVE  (Claim(z)' <=> Claim(z)) /\ Row(z)' = Row(z)
    BY DEF Claim, Row, LiveBooking, HoldBlocks, RowsKept
  <2>2. Clash(x, y)
    BY <1>3, <2>1 DEF Clash
  <2>3. Raced(x, y)
    BY <2>2 DEF ClashNeedsRace
  <2> QED
    BY <2>3 DEF Raced, LostWrite, Committed
<1> QED
  BY <1>1, <1>2, <1>3
------------------------------------------------------------------------------
LEMMA InitInv == Init => IInv
<1> SUFFICES ASSUME Init PROVE IInv
  OBVIOUS
<1> USE BookingAssumption DEF Init, NoRequests
<1>1. TypeOK
  BY DEF TypeOK
<1>4. KnownStatuses
  BY DEF KnownStatuses
<1>2. SessionsLinked /\ SessionsFresh /\ SessionsChecked
  BY DEF SessionsLinked, SessionsFresh, SessionsChecked
<1>3. ClashNeedsRace
  BY DEF ClashNeedsRace, Clash, Claim, LiveBooking, HoldBlocks
<1> QED
  BY <1>1, <1>2, <1>3, <1>4 DEF IInv

LEMMA BeginInv ==
  ASSUME IInv, NEW r \in Requests, BeginRequest(r)
  PROVE  IInv'
<1> USE DEF IInv
<1>1. PICK s \in Session : Begin(r, s) /\ Starting(s)
  BY BeginSession
<1> USE DEF Begin, OpenSession, tables
<1>2. /\ request' = [request EXCEPT ![r] = s]
      /\ bookings' = bookings /\ holds' = holds /\ clock' = clock
      /\ raced' = raced /\ races' = races
  BY <1>1
<1>3. TypeOK'
  BY <1>2, <1>1 DEF TypeOK
<1>4. ASSUME NEW q \in Requests, request'[q] # None
      PROVE  /\ request'[q] = IF q = r THEN s ELSE request[q]
             /\ q # r => request[q] # None
  BY <1>2, <1>4 DEF TypeOK
<1>5. SessionsLinked'
  BY <1>1, <1>2, <1>4 DEF SessionsLinked, Linked, Starting
<1>6. SessionsFresh'
  BY <1>1, <1>2, <1>4 DEF SessionsFresh, Fresh, Starting
<1>7. SessionsChecked'
  <2> SUFFICES ASSUME NEW q \in Requests, request'[q] # None
               PROVE  Checked(request[q], raced[q])'
    BY DEF SessionsChecked
  <2>1. CASE q = r
    BY <1>1, <1>4, <2>1 DEF Checked, Starting
  <2>2. CASE q # r
    BY <1>2, <1>4, <2>2
    DEF SessionsChecked, Checked, ClearOfBookings, ClearOfHolds, LiveBooking,
        HoldBlocks
  <2> QED
    BY <2>1, <2>2
<1>9. KnownStatuses'
  BY <1>2 DEF KnownStatuses
<1>8. ClashNeedsRace'
  BY <1>2 DEF ClashNeedsRace, Clash, Claim, Row, LiveBooking, HoldBlocks,
              Raced, LostWrite
<1> QED
  BY <1>3, <1>5, <1>6, <1>7, <1>8, <1>9

(* The conflict queries: a live booking in the way that the first one lets *)
(* through is one whose cached copy differs from the table, so another     *)
(* request wrote it.                                                       *)
LEMMA QueryInv ==
  ASSUME IInv, NEW r \in Requests, ReadBookings(r) \/ ReadHolds(r)
  PROVE  IInv'
<1> USE DEF IInv
<1> DEFINE s == request[r]
<1>1. /\ s \in Session /\ s # None
      /\ bookings' = bookings /\ holds' = holds /\ clock' = clock
      /\ raced' = raced /\ races' = races
      /\ paid' = paid /\ checkins' = checkins
      /\ clock \in Nat
  BY DEF TypeOK, ReadBookings, ReadHolds, tables
<1>2. PICK p \in {"holds", "commit"}, t \in {0, clock} :
        request' = [request EXCEPT ![r] = [s EXCEPT !.pc = p, !.at = t]]
  <2>1. CASE ReadBookings(r)
    <3>1. request' = [request EXCEPT ![r] = [s EXCEPT !.pc = "holds",
                                                      !.at = clock]]
      BY <1>1, <2>1 DEF ReadBookings, TypeOK
    <3> QED
      BY <3>1
  <2>2. CASE ReadHolds(r)
    <3>1. request' = [request EXCEPT ![r] = [s EXCEPT !.pc = "commit",
                                                      !.at = 0]]
      BY <1>1, <2>2 DEF ReadHolds, TypeOK
    <3> QED
      BY <3>1
  <2> QED
    BY <2>1, <2>2
<1> DEFINE n == [s EXCEPT !.pc = p, !.at = t]
<1>3. n \in Session
  <2>1. p \in {"bookings", "holds", "commit"} /\ t \in Nat
    BY <1>1, <1>2
  <2> QED
    BY <1>1, <2>1 DEF Session
<1>4. /\ n.handler = s.handler /\ n.ctx = s.ctx /\ n.start = s.start
      /\ n.end = s.end /\ n.hold = s.hold /\ n.target = s.target
      /\ n.loaded = s.loaded /\ n.user = s.user
      /\ n.pc = p /\ n.at = t
  BY <1>1 DEF Session
<1>5. \A q \in Requests : request'[q] = IF q = r THEN n ELSE request[q]
  BY <1>2 DEF TypeOK
<1> HIDE DEF n
<1>6. TypeOK'
  BY <1>1, <1>2, <1>3 DEF TypeOK, n
<1>7. s.handler \in SlotHandlers
  BY <1>1 DEF SessionsLinked, Linked, ReadBookings, ReadHolds
<1>8. SessionsLinked'
  BY <1>1, <1>4, <1>5, <1>7 DEF SessionsLinked, Linked
<1>9. SessionsFresh'
  BY <1>1, <1>4, <1>5 DEF SessionsFresh, Fresh
<1>10. SessionsChecked'
  <2>1. ASSUME NEW q \in Requests, q # r, request'[q] # None
        PROVE  Checked(request[q], raced[q])'
    BY <1>1, <1>5, <2>1
    DEF SessionsChecked, Checked, ClearOfBookings, ClearOfHolds, LiveBooking,
        HoldBlocks
  <2>2. ClearOfBookings(s, raced[r])
    <3>1. CASE ReadBookings(r)
      <4> SUFFICES ASSUME NEW b \in BookingIds, LiveBooking(b),
                          SharesSpace(s.ctx, bookings[b].ctx),
                          Overlaps(s, bookings[b]), b \notin raced[r]
                   PROVE  s.handler = "reschedule_booking" /\ b = s.target
        BY DEF ClearOfBookings
      <4>1. s.ctx \in Contexts /\ bookings[b].ctx \in Contexts
        BY <1>1 DEF TypeOK, Session, BookingRow, LiveBooking
      <4>2. ConflictFilter(s.ctx, bookings[b].ctx)
        BY <4>1, FilterCoversSharedSpace
      <4>3. s.target = b => s.handler \in BookingHandlers
        <5>1. b # None
          BY BookingAssumption
        <5> QED
          BY <5>1, <1>7, <1>1
          DEF SlotHandlers, BookingHandlers, SessionsLinked, Linked
      <4>4. Cached(s, b) = bookings[b]
        BY <1>1, <4>3 DEF Cached, SessionsFresh, Fresh
      <4> QED
        BY <3>1, <4>2, <4>4 DEF ReadBookings, BookingConflict
    <3>2. CASE ReadHolds(r)
      BY <1>1, <1>7, <3>2 DEF ReadHolds, SessionsChecked, Checked
    <3> QED
      BY <3>1, <3>2
  <2>3. ASSUME p = "commit"
        PROVE  ClearOfHolds(s, raced[r])
    <3>1. ReadHolds(r)
      <4>1. request'[r].pc = "commit"
        BY <1>4, <1>5, <2>3
      <4>2. ReadBookings(r) => request'[r].pc = "holds"
        BY <1>1 DEF ReadBookings, TypeOK, Session
      <4> QED
        BY <4>1, <4>2
    <3> SUFFICES ASSUME NEW h \in HoldIds, HoldBlocks(h, clock),
                        SharesSpace(s.ctx, holds[h].ctx),
                        Overlaps(s, holds[h])
                 PROVE  h = s.hold
      BY DEF ClearOfHolds
    <3>2. s.ctx \in Contexts /\ holds[h].ctx \in Contexts
      BY <1>1 DEF TypeOK, Session, HoldRow, HoldBlocks
    <3>3. ConflictFilter(s.ctx, holds[h].ctx)
      BY <3>2, FilterCoversSharedSpace
    <3>4. HoldBlocks(h, s.at)
      <4>1. s.at \in Nat /\ s.at <= clock
        BY <1>1 DEF SessionsLinked, Linked, Session
      <4>2. holds[h].expires \in Nat
        BY DEF TypeOK, HoldRow, HoldBlocks
      <4> QED
        BY <1>1, <4>1, <4>2 DEF HoldBlocks
    <3> QED
      BY <3>1, <3>3, <3>4 DEF ReadHolds, HoldConflict
  <2>4. Checked(request[r], raced[r])'
    BY <1>1, <1>4, <1>5, <2>2, <2>3
    DEF Checked, ClearOfBookings, ClearOfHolds, LiveBooking, HoldBlocks,
        Overlaps
  <2> QED
    BY <2>1, <2>4 DEF SessionsChecked
<1>12. KnownStatuses'
  BY <1>1 DEF KnownStatuses
<1>11. ClashNeedsRace'
  BY <1>1 DEF ClashNeedsRace, Clash, Claim, Row, LiveBooking, HoldBlocks,
              Raced, LostWrite
<1> QED
  BY <1>6, <1>8, <1>9, <1>10, <1>11, <1>12

(* A commit keeps the invariant if the rows it writes enter no clash that  *)
(* is not a race.                                                          *)
LEMMA CommitInv ==
  ASSUME IInv, NEW r \in Requests, NEW S \in SUBSET Ids,
         Committed(r, S), clock' = clock, RowsKept(S), KnownStatuses',
         paid' \subseteq BookingIds, checkins' \subseteq BookingIds,
         \A x \in S, y \in Ids : Clash(x, y)' => Raced(x, y)'
  PROVE  IInv'
<1> USE DEF IInv
<1>1. /\ request' \in [Requests -> Session \cup {None}]
      /\ raced' \in [Requests -> SUBSET Ids] /\ races' \subseteq SUBSET Ids
      /\ SessionsLinked' /\ SessionsFresh' /\ SessionsChecked'
  BY CommitKeepsSessions
<1>2. ClashNeedsRace'
  BY CommitKeepsClashes
<1> QED
  BY <1>1, <1>2 DEF TypeOK, RowsKept

(* A request that ends without writing. *)
LEMMA RollbackInv ==
  ASSUME IInv, NEW r \in Requests, Committed(r, {}), UNCHANGED <<clock, tables>>
  PROVE  IInv'
<1> USE DEF IInv, tables
<1>1. RowsKept({})
  BY DEF RowsKept, TypeOK
<1>2. KnownStatuses' /\ paid' \subseteq BookingIds /\ checkins' \subseteq BookingIds
  BY DEF KnownStatuses, TypeOK
<1> QED
  BY <1>1, <1>2, CommitInv

LEMMA TickInv ==
  ASSUME IInv, Tick
  PROVE  IInv'
<1> USE DEF IInv, tables, sessions, Tick
<1>1. TypeOK'
  BY BookingAssumption DEF TypeOK
<1>2. clock \in Nat /\ clock' = clock + 1
  BY DEF TypeOK
<1>3. ASSUME NEW h \in HoldIds, HoldBlocks(h, clock)'
      PROVE  HoldBlocks(h, clock)
  <2>1. holds[h] # None /\ holds[h].expires \in Nat
    BY <1>3 DEF HoldBlocks, TypeOK, HoldRow
  <2> QED
    BY <1>2, <1>3, <2>1 DEF HoldBlocks
<1>4. SessionsLinked'
  <2> SUFFICES ASSUME NEW q \in Requests, request[q] # None
               PROVE  Linked(request[q])'
    BY DEF SessionsLinked
  <2>1. Linked(request[q]) /\ request[q].at \in Nat
    BY DEF SessionsLinked, TypeOK, Session
  <2>2. request'[q].at <= clock'
    BY <1>2, <2>1 DEF Linked
  <2> QED
    BY <2>1, <2>2 DEF Linked
<1>5. SessionsFresh'
  BY DEF SessionsFresh, Fresh
<1>6. SessionsChecked'
  BY <1>3 DEF SessionsChecked, Checked, ClearOfBookings, ClearOfHolds,
              LiveBooking
<1>7. ClashNeedsRace'
  <2>1. ASSUME NEW x \in Ids, Claim(x)'
        PROVE  Claim(x) /\ Row(x)' = Row(x)
    BY <1>3, <2>1 DEF Claim, Row, LiveBooking
  <2> QED
    BY <2>1 DEF ClashNeedsRace, Clash, Raced, LostWrite
<1>8. KnownStatuses'
  BY DEF KnownStatuses
<1> QED
  BY <1>1, <1>4, <1>5, <1>6, <1>7, <1>8

LEMMA CreateHoldInv ==
  ASSUME IInv, NEW r \in Requests, CommitCreateHold(r)
  PROVE  IInv'
<1> USE DEF IInv
<1> DEFINE s == request[r]
<1>1. s \in Session /\ s # None /\ s.handler = "create_hold" /\ s.pc = "commit"
  BY DEF CommitCreateHold, Open, TypeOK
<1> DEFINE row == [user |-> s.user, ctx |-> s.ctx, start |-> s.start,
                   end |-> s.end, status |-> "pending", expires |-> s.expires]
<1>2. PICK h \in HoldIds : /\ holds[h] = None
                           /\ holds' = [holds EXCEPT ![h] = row]
                           /\ Committed(r, {h})
  BY DEF CommitCreateHold
<1>3. UNCHANGED <<clock, bookings, paid, checkins>>
  BY DEF CommitCreateHold
<1>4. row \in HoldRow /\ row # None
  BY <1>1, BookingAssumption DEF HoldRow, HoldStatus, Session
<1>5. RowsKept({h})
  BY <1>2, <1>3, <1>4, BookingAssumption DEF RowsKept, TypeOK
<1>6. KnownStatuses' /\ paid' \subseteq BookingIds /\ checkins' \subseteq BookingIds
  BY <1>3 DEF KnownStatuses, TypeOK
<1>7. h \notin BookingIds /\ holds'[h] = row
  BY <1>2, BookingAssumption DEF TypeOK
<1>8. ASSUME NEW y \in Ids, Clash(h, y)'
      PROVE  Raced(h, y)'
  <2>1. /\ y # h /\ Claim(y)'
        /\ SharesSpace(s.ctx, (Row(y)').ctx)
        /\ Overlaps(s, Row(y)')
    BY <1>7, <1>8 DEF Clash, Row, Overlaps
  <2>2. Claim(y) /\ Row(y)' = Row(y)
    BY <1>2, <1>3, <2>1, <1>5
    DEF Claim, Row, LiveBooking, HoldBlocks, RowsKept
  <2>3. Checked(s, raced[r]) /\ s.hold = None
    BY <1>1 DEF SessionsChecked, SessionsLinked, Linked
  <2>4. CASE y \in BookingIds
    <3>1. y \in raced[r]
      BY <1>1, <2>1, <2>2, <2>3, <2>4
      DEF Checked, ClearOfBookings, Claim, Row, SlotHandlers
    <3> QED
      BY <1>2, <3>1, CommitRecordsRaces DEF Raced
  <2>5. CASE y \notin BookingIds
    <3>1. y \in HoldIds /\ y # None
      BY <2>5, BookingAssumption
    <3>2. y \in raced[r]
      BY <1>1, <2>1, <2>2, <2>3, <2>5, <3>1
      DEF Checked, ClearOfHolds, Claim, Row, SlotHandlers
    <3> QED
      BY <1>2, <3>2, CommitRecordsRaces DEF Raced
  <2> QED
    BY <2>4, <2>5
<1> HIDE DEF row
<1> QED
  BY <1>2, <1>3, <1>5, <1>6, <1>8, CommitInv

LEMMA CreateBookingInv ==
  ASSUME IInv, NEW r \in Requests, CommitCreateBooking(r)
  PROVE  IInv'
<1> USE DEF IInv
<1> DEFINE s == request[r]
<1>1. /\ s \in Session /\ s # None /\ s.pc = "commit"
      /\ s.handler \in {"create_booking", "repeat_booking"}
      /\ s.hold # None => s.hold \in HoldIds /\ holds[s.hold] \in HoldRow
  <2>1. s \in Session /\ s # None /\ s.pc = "commit"
        /\ s.handler \in {"create_booking", "repeat_booking"}
    BY DEF CommitCreateBooking, Open, TypeOK
  <2> QED
    BY <2>1 DEF SessionsLinked, Linked, TypeOK, Session
<1> DEFINE row == [user |-> s.user, ctx |-> s.ctx, start |-> s.start,
                   end |-> s.end,
                   status |-> IF s.requires_payment THEN "pending"
                              ELSE "confirmed",
                   hold |-> s.hold]
           S(b) == {b} \cup ({s.hold} \ {None})
<1>2. PICK b \in BookingIds :
        /\ bookings[b] = None
        /\ bookings' = [bookings EXCEPT ![b] = row]
        /\ holds' = [h \in HoldIds |->
             IF h = s.hold THEN [holds[h] EXCEPT !.status = "converted"]
             ELSE holds[h]]
        /\ Committed(r, S(b))
  BY DEF CommitCreateBooking
<1>3. UNCHANGED <<clock, paid, checkins>>
  BY DEF CommitCreateBooking
<1>4. row \in BookingRow /\ row # None
  BY <1>1, BookingAssumption DEF BookingRow, BookingStatus, Session
<1>5. b \notin HoldIds /\ b # None /\ s.hold \notin BookingIds
      /\ bookings'[b] = row /\ S(b) \in SUBSET Ids /\ b \in S(b)
  BY <1>1, <1>2, BookingAssumption DEF TypeOK, Session
<1>6. ASSUME NEW h \in HoldIds, h = s.hold
      PROVE  /\ holds'[h] \in HoldRow /\ holds'[h] # None
             /\ holds'[h].user = holds[h].user
             /\ holds'[h].ctx = holds[h].ctx
             /\ holds'[h].start = holds[h].start
             /\ holds'[h].end = holds[h].end
             /\ holds'[h].status = "converted"
  <2>1. holds[h] \in HoldRow
    BY <1>1, <1>6, BookingAssumption
  <2> QED
    BY <1>2, <1>6, <2>1, BookingAssumption DEF HoldRow, HoldStatus
<1>7. RowsKept(S(b))
  <2>1. bookings' \in [BookingIds -> BookingRow \cup {None}]
    BY <1>2, <1>4 DEF TypeOK
  <2>2. holds' \in [HoldIds -> HoldRow \cup {None}]
    BY <1>2, <1>6 DEF TypeOK
  <2>3. \A a \in BookingIds : a # b => bookings'[a] = bookings[a]
    BY <1>2 DEF TypeOK
  <2>4. \A h \in HoldIds : h # s.hold => holds'[h] = holds[h]
    BY <1>2 DEF TypeOK
  <2>5. \A h \in HoldIds : h \notin S(b) => h # s.hold
    BY BookingAssumption
  <2> HIDE DEF row
  <2> QED
    BY <1>2, <1>5, <1>6, <2>1, <2>2, <2>3, <2>4, <2>5 DEF RowsKept
<1>8. KnownStatuses' /\ paid' \subseteq BookingIds /\ checkins' \subseteq BookingIds
  <2>1. row.status \in BLOCKING_BOOKING_STATUSES
    BY DEF BLOCKING_BOOKING_STATUSES
  <2> HIDE DEF row
  <2> QED
    BY <1>2, <1>3, <1>5, <2>1 DEF KnownStatuses, TypeOK
<1>9. ASSUME NEW y \in Ids, Clash(b, y)'
      PROVE  Raced(b, y)'
  <2>1. /\ y # b /\ Claim(y)'
        /\ SharesSpace(s.ctx, (Row(y)').ctx)
        /\ Overlaps(s, Row(y)')
    BY <1>5, <1>9 DEF Clash, Row, Overlaps
  <2>2. y # s.hold
    BY <1>5, <1>6, <2>1 DEF Claim, HoldBlocks, BLOCKING_HOLD_STATUSES
  <2>3. Claim(y) /\ Row(y)' = Row(y)
    BY <1>3, <1>7, <2>1, <2>2
    DEF Claim, Row, LiveBooking, HoldBlocks, RowsKept
  <2>4. Checked(s, raced[r])
    BY <1>1 DEF SessionsChecked
  <2>5. y \in raced[r]
    <3>1. CASE y \in BookingIds
      BY <1>1, <2>1, <2>3, <2>4, <3>1
      DEF Checked, ClearOfBookings, Claim, Row, SlotHandlers
    <3>2. CASE y \notin BookingIds
      BY <1>1, <2>1, <2>2, <2>3, <2>4, <3>2
      DEF Checked, ClearOfHolds, Claim, Row, SlotHandlers
    <3> QED
      BY <3>1, <3>2
  <2> QED
    BY <1>2, <1>5, <2>5, CommitRecordsRaces DEF Raced
<1>10. ASSUME NEW x \in S(b), NEW y \in Ids, Clash(x, y)'
       PROVE  Raced(x, y)'
  <2>1. CASE x = b
    BY <1>9, <1>10, <2>1
  <2>2. CASE x # b
    <3>1. x = s.hold /\ x \in HoldIds /\ x \notin BookingIds
      BY <1>1, <1>5, <1>10, <2>2
    <3>2. ~Claim(x)'
      BY <1>6, <3>1 DEF Claim, HoldBlocks, BLOCKING_HOLD_STATUSES
    <3> QED
      BY <1>10, <3>2 DEF Clash
  <2> QED
    BY <2>1, <2>2
<1> HIDE DEF row, S
<1> QED
  BY <1>2, <1>3, <1>5, <1>7, <1>8, <1>10, CommitInv

(* The handlers that write the booking they loaded live.  Unless another   *)
(* request wrote it in between, it is still live as it was loaded.         *)
WritesLoaded == BookingHandlers \ {"repeat_booking"}

LEMMA LoadedIsLive ==
  ASSUME IInv, NEW r \in Requests, request[r] # None,
         request[r].handler \in WritesLoaded,
         request[r].target \notin raced[r]
  PROVE  /\ bookings[request[r].target] = request[r].loaded
         /\ LiveBooking(request[r].target)
BY DEF IInv, SessionsFresh, Fresh, SessionsLinked, Linked, LiveBooking,
       WritesLoaded

LEMMA TargetTypes ==
  ASSUME IInv, NEW r \in Requests, request[r] # None,
         request[r].handler \in WritesLoaded
  PROVE  /\ request[r] \in Session
         /\ request[r].target \in BookingIds
         /\ request[r].target \notin HoldIds
         /\ request[r].loaded \in BookingRow
         /\ bookings[request[r].target] \in BookingRow
         /\ bookings[request[r].target] # None
         /\ bookings[request[r].target].ctx = request[r].ctx
BY BookingAssumption
DEF IInv, TypeOK, SessionsLinked, Linked, WritesLoaded, BookingHandlers

(* A commit that changes the status of the booking it loaded, and nothing  *)
(* else of it.                                                             *)
LEMMA StatusWriteInv ==
  ASSUME IInv, NEW r \in Requests, request[r] # None,
         request[r].handler \in WritesLoaded,
         NEW status \in BLOCKING_BOOKING_STATUSES \cup {"cancelled"},
         bookings' = [bookings EXCEPT ![request[r].target].status = status],
         Committed(r, {request[r].target}),
         UNCHANGED <<clock, holds>>,
         paid' \subseteq BookingIds, checkins' \subseteq BookingIds
  PROVE  IInv'
<1> USE DEF IInv
<1>0. PICK b \in Ids : b = request[r].target
  BY TargetTypes
<1> DEFINE row == [bookings[b] EXCEPT !.status = status]
<1>1. /\ b \in BookingIds /\ b \notin HoldIds
      /\ bookings[b] \in BookingRow /\ bookings[b] # None
  BY <1>0, TargetTypes
<1>2. bookings' = [bookings EXCEPT ![b] = row]
  BY <1>0, <1>1 DEF TypeOK
<1>3. /\ row \in BookingRow /\ row # None /\ row.ctx = bookings[b].ctx
      /\ row.start = bookings[b].start /\ row.end = bookings[b].end
      /\ row.status = status
  BY <1>1, BookingAssumption
  DEF BookingRow, BookingStatus, BLOCKING_BOOKING_STATUSES
<1> HIDE DEF row
<1>4. bookings'[b] = row /\ {b} \in SUBSET Ids /\ Committed(r, {b})
  BY <1>0, <1>1, <1>2 DEF TypeOK
<1>5. RowsKept({b})
  BY <1>1, <1>2, <1>3 DEF RowsKept, TypeOK
<1>6. KnownStatuses'
  BY <1>1, <1>2, <1>3, <1>4 DEF KnownStatuses, TypeOK
<1>7. ASSUME NEW y \in Ids, Clash(b, y)'
      PROVE  Raced(b, y)'
  <2>1. CASE b \in raced[r]
    <3>1. {b, b} \in races' /\ {b, b} = {b}
      BY <1>4, <2>1, CommitRecordsRaces
    <3> QED
      BY <3>1 DEF Raced, LostWrite
  <2>2. CASE b \notin raced[r]
    <3>1. LiveBooking(b)
      BY <1>0, <2>2, LoadedIsLive
    <3>2. /\ y # b /\ Claim(y)'
          /\ SharesSpace(bookings[b].ctx, (Row(y)').ctx)
          /\ Overlaps(bookings[b], Row(y)')
      BY <1>1, <1>3, <1>4, <1>7 DEF Clash, Row, Overlaps, SharesSpace
    <3>3. Claim(y) /\ Row(y)' = Row(y)
      BY <1>5, <3>2 DEF Claim, Row, LiveBooking, HoldBlocks, RowsKept
    <3>4. Clash(b, y)
      BY <1>1, <3>1, <3>2, <3>3 DEF Clash, Claim, Row
    <3>5. Raced(b, y)
      BY <1>1, <3>4 DEF ClashNeedsRace
    <3> QED
      BY <1>4, <3>5 DEF Raced, LostWrite, Committed
  <2> QED
    BY <2>1, <2>2
<1> QED
  BY <1>4, <1>5, <1>6, <1>7, CommitInv

LEMMA StatusHandlersInv ==
  ASSUME IInv, NEW r \in Requests,
         CommitCancelBooking(r) \/ CommitPayment(r) \/ CommitCheckin(r)
  PROVE  IInv'
<1> USE DEF IInv
<1>1. request[r] # None /\ request[r].handler \in WritesLoaded
  BY DEF CommitCancelBooking, CommitPayment, CommitCheckin, Open, WritesLoaded,
         BookingHandlers
<1>2. request[r].target \in BookingIds
  BY <1>1, TargetTypes
<1>3. paid \subseteq BookingIds /\ checkins \subseteq BookingIds
  BY DEF TypeOK
<1>4. CASE CommitCancelBooking(r)
  BY <1>1, <1>3, <1>4, StatusWriteInv DEF CommitCancelBooking
<1>5. CASE CommitPayment(r)
  <2>1. CASE request[r].loaded.status = "pending"
    BY <1>1, <1>2, <1>3, <1>5, <2>1, StatusWriteInv
    DEF CommitPayment, BLOCKING_BOOKING_STATUSES
  <2>2. CASE request[r].loaded.status # "pending"
    <3>1. Committed(r, {}) /\ UNCHANGED <<clock, bookings, holds, checkins>>
      BY <1>5, <2>2 DEF CommitPayment
    <3>2. RowsKept({}) /\ KnownStatuses' /\ {} \in SUBSET Ids
      BY <3>1 DEF RowsKept, KnownStatuses, TypeOK
    <3>3. paid' \subseteq BookingIds
      BY <1>2, <1>3, <1>5 DEF CommitPayment
    <3> QED
      BY <1>3, <3>1, <3>2, <3>3, CommitInv
  <2> QED
    BY <2>1, <2>2
<1>6. CASE CommitCheckin(r)
  BY <1>1, <1>2, <1>3, <1>6, StatusWriteInv
  DEF CommitCheckin, BLOCKING_BOOKING_STATUSES
<1> QED
  BY <1>4, <1>5, <1>6

LEMMA CancelHoldInv ==
  ASSUME IInv, NEW r \in Requests, CommitCancelHold(r)
  PROVE  IInv'
<1> USE DEF IInv
<1>1. PICK h \in HoldIds : /\ h = request[r].target
                           /\ holds[h] \in HoldRow /\ holds[h] # None
  BY DEF CommitCancelHold, Open, SessionsLinked, Linked, TypeOK
<1> DEFINE row == [holds[h] EXCEPT !.status = "cancelled"]
<1>2. /\ row \in HoldRow /\ row # None /\ row.ctx = holds[h].ctx
      /\ row.start = holds[h].start /\ row.end = holds[h].end
      /\ row.user = holds[h].user /\ row.status = "cancelled"
  BY <1>1, BookingAssumption DEF HoldRow, HoldStatus
<1>3. /\ holds' = [holds EXCEPT ![h] = row] /\ Committed(r, {h})
      /\ UNCHANGED <<clock, bookings, paid, checkins>>
  BY <1>1 DEF CommitCancelHold, TypeOK
<1> HIDE DEF row
<1>4. RowsKept({h})
  BY <1>1, <1>2, <1>3, BookingAssumption DEF RowsKept, TypeOK
<1>5. KnownStatuses' /\ paid' \subseteq BookingIds /\ checkins' \subseteq BookingIds
  BY <1>3 DEF KnownStatuses, TypeOK
<1>6. holds'[h] = row /\ h \notin BookingIds
  BY <1>3, BookingAssumption DEF TypeOK
<1>7. ~Claim(h)'
  BY <1>2, <1>6 DEF Claim, HoldBlocks, BLOCKING_HOLD_STATUSES
<1> QED
  BY <1>3, <1>4, <1>5, <1>7, CommitInv DEF Clash

(* reschedule_booking.  Unless the booking itself was written meanwhile,   *)
(* every column ends as the handler assigned it, so the new window is the  *)
(* one that was checked.                                                   *)
LEMMA RescheduleInv ==
  ASSUME IInv, NEW r \in Requests, CommitReschedule(r)
  PROVE  IInv'
<1> USE DEF IInv
<1> DEFINE s == request[r]
<1>1. /\ s # None /\ s.handler = "reschedule_booking" /\ s.pc = "commit"
      /\ s.handler \in WritesLoaded
  BY DEF CommitReschedule, Open, WritesLoaded, BookingHandlers
<1>2. PICK b \in BookingIds :
        /\ b = s.target /\ b \notin HoldIds
        /\ bookings[b] \in BookingRow /\ bookings[b] # None
        /\ bookings[b].ctx = s.ctx
        /\ s \in Session /\ s.loaded \in BookingRow
  BY <1>1, TargetTypes
<1> DEFINE status == IF s.requires_payment THEN "pending" ELSE "confirmed"
           row == [bookings[b] EXCEPT
                     !.start = Assign(@, s.loaded.start, s.start),
                     !.end = Assign(@, s.loaded.end, s.end),
                     !.status = Assign(@, s.loaded.status, status)]
<1>3. /\ bookings' = [bookings EXCEPT ![b] = row] /\ Committed(r, {b})
      /\ UNCHANGED <<clock, holds, paid, checkins>>
  BY <1>2 DEF CommitReschedule
<1>4. /\ row.start = Assign(bookings[b].start, s.loaded.start, s.start)
      /\ row.end = Assign(bookings[b].end, s.loaded.end, s.end)
      /\ row.status = Assign(bookings[b].status, s.loaded.status, status)
      /\ row.ctx = bookings[b].ctx
  BY <1>2 DEF BookingRow
<1>5. row \in BookingRow /\ row # None
  <2>1. /\ s.start \in Nat /\ s.end \in Nat
        /\ bookings[b].start \in Nat /\ bookings[b].end \in Nat
        /\ bookings[b].status \in BookingStatus /\ status \in BookingStatus
    BY <1>2 DEF Session, BookingRow, BookingStatus
  <2>2. /\ Assign(bookings[b].start, s.loaded.start, s.start) \in Nat
        /\ Assign(bookings[b].end, s.loaded.end, s.end) \in Nat
        /\ Assign(bookings[b].status, s.loaded.status, status) \in BookingStatus
    BY <2>1 DEF Assign
  <2>3. row \in BookingRow
    BY <1>2, <2>2 DEF BookingRow
  <2> QED
    BY <2>3, BookingAssumption
<1>6. row.status \in BLOCKING_BOOKING_STATUSES \cup {"cancelled"}
  BY <1>2, <1>4 DEF Assign, KnownStatuses, BLOCKING_BOOKING_STATUSES
<1> HIDE DEF row, status
<1>7. bookings'[b] = row
  BY <1>3 DEF TypeOK
<1>8. RowsKept({b})
  BY <1>2, <1>3, <1>4, <1>5 DEF RowsKept, TypeOK
<1>9. KnownStatuses' /\ paid' \subseteq BookingIds /\ checkins' \subseteq BookingIds
  BY <1>3, <1>6, <1>7 DEF KnownStatuses, TypeOK
<1>10. ASSUME NEW y \in Ids, Clash(b, y)'
       PROVE  Raced(b, y)'
  <2>1. CASE b \in raced[r]
    <3>1. {b, b} \in races' /\ {b, b} = {b}
      BY <1>3, <2>1, CommitRecordsRaces
    <3> QED
      BY <3>1 DEF Raced, LostWrite
  <2>2. CASE b \notin raced[r]
    <3>1. bookings[b] = s.loaded
      BY <1>1, <1>2, <2>2, LoadedIsLive
    <3>2. row.start = s.start /\ row.end = s.end
      BY <1>4, <3>1 DEF Assign
    <3>3. /\ y # b /\ Claim(y)'
          /\ SharesSpace(s.ctx, (Row(y)').ctx)
          /\ Overlaps(s, Row(y)')
      BY <1>2, <1>4, <1>7, <1>10, <3>2 DEF Clash, Row, Overlaps, SharesSpace
    <3>4. Claim(y) /\ Row(y)' = Row(y)
      BY <1>3, <1>8, <3>3 DEF Claim, Row, LiveBooking, HoldBlocks, RowsKept
    <3>5. Checked(s, raced[r]) /\ s.hold = None
      BY <1>1 DEF SessionsChecked, SessionsLinked, Linked
    <3>6. y \in raced[r]
      <4>1. CASE y \in BookingIds
        BY <1>1, <1>2, <3>3, <3>4, <3>5, <4>1
        DEF Checked, ClearOfBookings, Claim, Row, SlotHandlers
      <4>2. CASE y \notin BookingIds
        <5>1. y \in HoldIds /\ y # None
          BY <4>2, BookingAssumption
        <5> QED
          BY <1>1, <3>3, <3>4, <3>5, <4>2, <5>1
          DEF Checked, ClearOfHolds, Claim, Row, SlotHandlers
      <4> QED
        BY <4>1, <4>2
    <3> QED
      BY <1>3, <3>6, CommitRecordsRaces DEF Raced
  <2> QED
    BY <2>1, <2>2
<1> QED
  BY <1>3, <1>8, <1>9, <1>10, CommitInv
------------------------------------------------------------------------------
LEMMA NextInv ==
  ASSUME IInv, [Next]_vars
  PROVE  IInv'
<1>1. ASSUME NEW r \in Requests, BeginRequest(r)
      PROVE  IInv'
  BY <1>1, BeginInv
<1>2. ASSUME NEW r \in Requests, Continue(r)
      PROVE  IInv'
  <2>1. CASE ReadBookings(r) \/ ReadHolds(r)
    BY <2>1, QueryInv
  <2>2. CASE RefuseForBooking(r) \/ RefuseForHold(r) \/ RefuseSecondCheckin(r)
    BY <2>2, RollbackInv
    DEF RefuseForBooking, RefuseForHold, RefuseSecondCheckin
  <2>3. CASE CommitCreateHold(r)
    BY <2>3, CreateHoldInv
  <2>4. CASE CommitCreateBooking(r)
    BY <2>4, CreateBookingInv
  <2>5. CASE CommitReschedule(r)
    BY <2>5, RescheduleInv
  <2>6. CASE CommitCancelBooking(r) \/ CommitPayment(r) \/ CommitCheckin(r)
    BY <2>6, StatusHandlersInv
  <2>7. CASE CommitCancelHold(r)
    BY <2>7, CancelHoldInv
  <2> QED
    BY <1>2, <2>1, <2>2, <2>3, <2>4, <2>5, <2>6, <2>7 DEF Continue
<1>3. ASSUME NEW r \in Requests, Abort(r)
      PROVE  IInv'
  BY <1>3, RollbackInv DEF Abort
<1>4. CASE Tick
  BY <1>4, TickInv
<1>5. CASE UNCHANGED vars
  BY <1>5
  DEF vars, tables, sessions, IInv, TypeOK, KnownStatuses, SessionsLinked, Linked,
      SessionsFresh, Fresh, SessionsChecked, Checked, ClearOfBookings,
      ClearOfHolds, ClashNeedsRace, Clash, Claim, Row, LiveBooking, HoldBlocks,
      Raced, LostWrite
<1> QED
  BY <1>1, <1>2, <1>3, <1>4, <1>5 DEF Next

(* The invariant holds in every state of every execution.                  *)
THEOREM Invariance == Spec => []IInv
<1>1. Init => IInv
  BY InitInv
<1>2. IInv /\ [Next]_vars => IInv'
  BY NextInv
<1> QED
  BY <1>1, <1>2, PTL DEF Spec

(* Every variable keeps its type. *)
THEOREM TypeCorrect == Spec => []TypeOK
BY Invariance, PTL DEF IInv

(* Under any interleaving of requests, two claims on shared space at       *)
(* overlapping times come only from requests that overlapped each other.   *)
THEOREM NoClashWithoutRace == Spec => []ClashNeedsRace
BY Invariance, PTL DEF IInv
==============================================================================
