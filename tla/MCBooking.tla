------------------------------ MODULE MCBooking ------------------------------
(* Instances of Booking for TLC. *)
EXTENDS Availability, TLC

CONSTANTS v1, m1

(* Everything is in one venue and one room, in UTC. *)
OneRoomVenue == [m \in Rooms |-> v1]
OneSeatRoom == [s \in Seats |-> m1]
InUtc == [v \in Venues |-> 0]

(* All but two that serve nothing new to one request at a time: what        *)
(* create_payment confirms blocks as before, and a hold that cancel_hold    *)
(* closes is in nobody's way, like one that has lapsed.                     *)
SerialHandlers == (SlotHandlers \cup StatusHandlers) \ {"create_payment", "cancel_hold"}

Window(s, e) == [start |-> s, end |-> e]

(* A move from (2, 3) to (2, 4) and one to (1, 3) write one column each,   *)
(* and together leave (1, 4), which is longer than the rule of PaidVenue   *)
(* allows.                                                                 *)
TornWindows == {Window(1, 3), Window(2, 3), Window(2, 4)}
OneWindow == {Window(2, 3)}
NestedWindows == {Window(2, 3), Window(2, 4)}

Rule(v, m, min, max, pay) ==
  [venue_id |-> v, room_id |-> m, min_duration |-> min, max_duration |-> max,
   max_advance |-> 4, requires_payment |-> pay, hold_ttl |-> 1]

(* A venue that asks for payment before it confirms. *)
PaidVenue == {Rule(v1, None, 1, 2, TRUE)}

(* Room m1 asks for payment and one tick at most; the venue does not.  A   *)
(* venue booking may be judged by either rule.                             *)
PaidRoom == {Rule(v1, None, 1, 2, FALSE), Rule(v1, m1, 1, 1, TRUE)}

AlwaysOpen == {}

(* The room is open from 2 to 4 on the first day and closed on the second. *)
ShortDay ==
  {[room_id |-> m1, weekday |-> 0, is_closed |-> FALSE, open |-> 2, close |-> 4],
   [room_id |-> m1, weekday |-> 1, is_closed |-> TRUE, open |-> 0, close |-> 0]}

(* Sound for the runs that check no liveness: requests, users and row ids  *)
(* are interchangeable.                                                    *)
Interchangeable ==
  Permutations(Requests) \cup Permutations(Users) \cup Permutations(BookingIds)
    \cup Permutations(HoldIds)
==============================================================================
