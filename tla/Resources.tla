------------------------------ MODULE Resources ------------------------------
(***************************************************************************)
(* The bookable space and the pure checks every booking handler applies to *)
(* it: app/services/availability.py and the models of app/db/models/space. *)
(*                                                                         *)
(* A venue has rooms and a room has seats.  A request names one of them    *)
(* (its level), and _resolve_resource turns the name into a context: the   *)
(* named resource and every ancestor of it.  The context is what a hold or *)
(* a booking stores, and what the conflict query compares.                 *)
(*                                                                         *)
(* Time is counted in ticks since an origin at midnight UTC; a tick stands *)
(* for a minute, DayLength ticks for a day.  A zone is a constant offset,  *)
(* so daylight-saving changes are outside the model.                       *)
(***************************************************************************)
EXTENDS Integers, Null

CONSTANTS
  Venues, Rooms, Seats,   \* primary keys of the three tables
  RoomVenue,              \* [Rooms -> Venues]: rooms.venue_id
  SeatRoom,               \* [Seats -> Rooms]: seats.room_id
  BookingRules,           \* the rows of booking_rules
  RoomHours,              \* the rows of room_hours
  UtcOffset,              \* [Venues -> Int]: venues.timezone
  DayLength,              \* ticks in a day
  DefaultHoldTtl          \* ticks a hold lasts where no rule applies (900 s)

(* Every rule row names a venue, a room or both; a room has at most one    *)
(* row of hours per weekday (uq_room_hours_room_weekday).                  *)
BookingRuleRow ==
  [venue_id : Venues \cup {None}, room_id : Rooms \cup {None},
   min_duration : Nat, max_duration : Nat, max_advance : Nat,
   requires_payment : BOOLEAN, hold_ttl : Nat]

RoomHourRow ==
  [room_id : Rooms, weekday : 0..6, is_closed : BOOLEAN,
   open : 0..(DayLength - 1), close : 0..(DayLength - 1)]

ASSUME ResourcesAssumption ==
  /\ RoomVenue \in [Rooms -> Venues]
  /\ SeatRoom \in [Seats -> Rooms]
  /\ \A row \in BookingRules : row \in BookingRuleRow
  /\ \A row \in RoomHours : row \in RoomHourRow
  /\ \A g, h \in RoomHours :
        g.room_id = h.room_id /\ g.weekday = h.weekday => g = h
  /\ UtcOffset \in [Venues -> Int]
  /\ DayLength \in Nat \ {0}
  /\ DefaultHoldTtl \in Nat
  /\ None \notin Venues \cup Rooms \cup Seats
------------------------------------------------------------------------------
(* _resolve_resource: the context of each resource that exists. *)
SeatContext(s) ==
  [level |-> "seat", venue |-> RoomVenue[SeatRoom[s]], room |-> SeatRoom[s],
   seat |-> s]

RoomContext(m) ==
  [level |-> "room", venue |-> RoomVenue[m], room |-> m, seat |-> None]

VenueContext(v) ==
  [level |-> "venue", venue |-> v, room |-> None, seat |-> None]

Contexts ==
  {SeatContext(s) : s \in Seats} \cup {RoomContext(m) : m \in Rooms}
    \cup {VenueContext(v) : v \in Venues}

(* What a claim takes: a resource for some time. *)
Slot == [ctx : Contexts, start : Nat, end : Nat]

(* Two contexts share space when they are the same resource or one         *)
(* contains the other.  Nothing in the code computes this: it is what a    *)
(* conflict of bookings means.                                             *)
SharesSpace(c, d) ==
  /\ c.venue = d.venue
  /\ c.room # None /\ d.room # None => c.room = d.room
  /\ c.seat # None /\ d.seat # None => c.seat = d.seat
------------------------------------------------------------------------------
(* Variant: a request is only compared with rows of its own level. *)
ConflictFilterSameLevel(c, d) ==
  c.level = d.level /\ c.venue = d.venue /\ c.room = d.room /\ c.seat = d.seat

(* _load_conflicts: the filter that selects the rows stored with context d *)
(* for a request on context c.  SQL equality is never true of a NULL; the  *)
(* columns of c compared here are never NULL, so = has its meaning.        *)
ConflictFilter(c, d) ==
  \/ c.level = "seat" /\ (d.seat = c.seat \/ d.room = c.room \/ d.venue = c.venue)
  \/ c.level = "room" /\ (\/ d.room = c.room
                          \/ d.venue = c.venue
                          \/ \E s \in Seats : SeatRoom[s] = c.room /\ d.seat = s)
  \/ c.level = "venue" /\ (\/ d.venue = c.venue
                           \/ \E m \in Rooms : RoomVenue[m] = c.venue /\ d.room = m
                           \/ \E s \in Seats : /\ RoomVenue[SeatRoom[s]] = c.venue
                                               /\ d.seat = s)

(* _overlaps, and the two range conditions of both queries. *)
Overlaps(w, v) == w.start < v.end /\ w.end > v.start
------------------------------------------------------------------------------
(* _resolve_booking_rule.  Neither query is ordered, so any matching row   *)
(* may come back; no rule at all is None.                                  *)
RoomRules(c) ==
  {row \in BookingRules : c.level # "venue" /\ row.room_id = c.room}

VenueRules(c) == {row \in BookingRules : row.venue_id = c.venue}

ResolvableRules(c) ==
  IF RoomRules(c) # {} THEN RoomRules(c)
  ELSE IF VenueRules(c) # {} THEN VenueRules(c) ELSE {None}

RequiresPayment(rule) == rule # None /\ rule.requires_payment

HoldTtl(rule) == IF rule = None THEN DefaultHoldTtl ELSE rule.hold_ttl

LocalTime(c, t) == t + UtcOffset[c.venue]
LocalDay(c, t) == LocalTime(c, t) \div DayLength
TimeOfDay(c, t) == LocalTime(c, t) % DayLength

(* _resolve_operating_hours and the checks made with it.  A context with no *)
(* row for the weekday, and so every venue context, is open 00:00-23:59,   *)
(* which every window of whole ticks within one local day satisfies.       *)
WithinHours(c, w) ==
  \A row \in RoomHours :
    row.room_id = c.room /\ row.weekday = LocalDay(c, w.start) % 7
      => /\ ~row.is_closed
         /\ row.open <= TimeOfDay(c, w.start)
         /\ TimeOfDay(c, w.end) <= row.close

(* The conditions on a window that do not depend on the clock. *)
AllowedWindow(c, w, rule) ==
  /\ w.start < w.end
  /\ rule # None => rule.min_duration <= w.end - w.start
                    /\ w.end - w.start <= rule.max_duration
  /\ LocalDay(c, w.start) = LocalDay(c, w.end)
  /\ WithinHours(c, w)

(* _validate_booking_window, and the same checks inline in create_hold. *)
ValidWindow(c, w, now, rule) ==
  /\ now < w.start
  /\ rule # None => w.start <= now + rule.max_advance
  /\ AllowedWindow(c, w, rule)
==============================================================================
