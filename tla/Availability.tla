---------------------------- MODULE Availability ----------------------------
(***************************************************************************)
(* The slots a client is offered: get_availability of                      *)
(* app/services/availability.py.  It walks a local day of the resource     *)
(* from opening to closing time in steps of the requested length, and      *)
(* marks a slot available when no blocking booking or hold overlaps it.    *)
(* The handlers that take a slot judge it by code of their own             *)
(* (_validate_booking_window and their overlap tests); the property here   *)
(* says where the two agree and where they do not.  The two queries of a   *)
(* listing are taken at one instant, as it is only a picture of the tables *)
(* that may be old anyway.                                                 *)
(***************************************************************************)
EXTENDS Booking

(* Noon and the like, as the zone of the context has it, to UTC. *)
Instant(c, day, time) == day * DayLength + time - UtcOffset[c.venue]

(* _resolve_operating_hours: at most one element, none on a closed day.    *)
(* The default closing time, 23:59, is the last tick of the day.           *)
OpeningHours(c, day) ==
  LET rows == {row \in RoomHours : row.room_id = c.room /\ row.weekday = day % 7}
  IN IF rows = {} THEN {[open |-> 0, close |-> DayLength - 1]}
     ELSE {[open |-> row.open, close |-> row.close] :
             row \in {x \in rows : ~x.is_closed}}

(* The local times at which the walk starts a slot: it stops at the first  *)
(* one that would not end by closing time.                                 *)
SlotTimes(hours, length) ==
  {t \in hours.open .. hours.close - length : (t - hours.open) % length = 0}

(* A length outside the rule is refused, so nothing is offered. *)
AllowedLength(length, rule) ==
  rule # None => rule.min_duration <= length /\ length <= rule.max_duration

(* Bounds: the days and the lengths that clients ask about.  A length      *)
(* under 15 minutes is refused, so none is zero.                           *)
Days == 0 .. 1
Lengths == {w.end - w.start : w \in {x \in Windows : x.start < x.end}}

Slots == [c \in Contexts |-> [day \in Days |-> [length \in Lengths |->
  {[start |-> Instant(c, day, t), end |-> Instant(c, day, t + length)] :
     t \in UNION {SlotTimes(hours, length) : hours \in OpeningHours(c, day)}}]]]

(* Variant: a slot is available as long as nobody has booked it. *)
BlockedByBookings(c, slot) ==
  \E b \in BookingIds : /\ LiveBooking(b)
                        /\ ConflictFilter(c, bookings[b].ctx)
                        /\ Overlaps(slot, bookings[b])

(* What _load_conflicts returns for the whole range is filtered slot by    *)
(* slot; every slot lies in the range.                                     *)
Blocked(c, slot) ==
  \/ \E b \in BookingIds : /\ LiveBooking(b)
                           /\ ConflictFilter(c, bookings[b].ctx)
                           /\ Overlaps(slot, bookings[b])
  \/ \E h \in HoldIds : /\ HoldBlocks(h, clock)
                        /\ ConflictFilter(c, holds[h].ctx)
                        /\ Overlaps(slot, holds[h])
------------------------------------------------------------------------------
(* What create_booking does with a slot, asked for now and without a hold  *)
(* (the rule it has read only sets the status of the booking).             *)
WouldConflict(u, c, slot) ==
  LET s == [CreateBookingSession(u, c, slot, None, None) EXCEPT !.at = clock] IN
  \/ \E b \in BookingIds : BookingConflict(s, b)
  \/ \E h \in HoldIds : HoldConflict(s, h)

(* The windows of one length that begin on a day, in steps from opening    *)
(* time where there is one.                                                *)
Grid == [c \in Contexts |-> [day \in Days |-> [length \in Lengths |->
  {[start |-> Instant(c, day, t), end |-> Instant(c, day, t + length)] :
     t \in {u \in 0 .. DayLength - 1 :
             \A hours \in OpeningHours(c, day) : (u - hours.open) % length = 0}}]]]

(* Those that a listing shows, or that some rule allows. *)
Eligible == [c \in Contexts |-> [day \in Days |-> [length \in Lengths |->
  Slots[c][day][length] \cup
    {w \in Grid[c][day][length] :
       \E rule \in ResolvableRules(c) : AllowedWindow(c, w, rule)}]]]

(* What get_availability does not look at, and create_booking does         *)
(* (booking.py:111, booking.py:122): its slots may have begun, and may be  *)
(* further ahead than the rule allows.                                     *)
HasBegun(slot) == slot.start <= clock
TooFarAhead(slot, rule) == rule # None /\ slot.start > clock + rule.max_advance

(* A listing and a create_booking sent at that moment differ for these     *)
(* reasons and no other: the slot has begun, it is too far ahead, or the   *)
(* two have read different rules, of which one refuses the length.  In all *)
(* else the walk over the day (availability.py:204-246) agrees with hours, *)
(* midnight and lengths as _validate_booking_window has them               *)
(* (booking.py:101-142), and its overlap test with the conflict check      *)
(* (booking.py:207-213), whatever holds and bookings of whatever level and *)
(* status are in the tables and whoever asks.                              *)
ListingMatchesBooking ==
  \A c \in Contexts : LET rules == ResolvableRules(c) IN
    \A day \in Days, length \in Lengths : \A w \in Eligible[c][day][length] :
      LET free == w \in Slots[c][day][length] /\ ~Blocked(c, w)
          barred == {u \in Users : WouldConflict(u, c, w)}
      IN \A rule \in rules :
           LET valid == ValidWindow(c, w, clock, rule) IN
           \A listed \in rules :
             LET offered == free /\ AllowedLength(length, listed) IN
             /\ offered => \/ HasBegun(w) \/ TooFarAhead(w, rule)
                           \/ ~AllowedLength(length, rule)
                           \/ valid /\ barred = {}
             /\ valid /\ barred # Users =>
                  offered \/ ~AllowedLength(length, listed)
==============================================================================
