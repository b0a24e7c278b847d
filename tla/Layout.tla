------------------------------- MODULE Layout -------------------------------
(***************************************************************************)
(* The seats of a room as its editors keep them: update_room_layout of     *)
(* app/services/space.py.                                                  *)
(*                                                                         *)
(* A layout is the whole list an editor sees, but saving it is not a       *)
(* replacement: an entry with the id of a seat of the room changes that    *)
(* seat, any other entry inserts one, and no seat is ever removed.  The    *)
(* seats are loaded, assigned, and written at the commit: first one UPDATE *)
(* per seat with a changed column, by ascending primary key, then the      *)
(* INSERTs.  The unique constraint on (room_id, label) is not deferrable,  *)
(* so each of these statements must leave the labels of the room distinct, *)
(* or the request dies of an IntegrityError that nothing expects.          *)
(*                                                                         *)
(* The statements of one commit are one step here: from the first to the   *)
(* COMMIT they keep the rows and the index entries they write locked, so   *)
(* two flushes that touch the same ones take turns (or PostgreSQL ends one *)
(* of them, which is Abort).                                               *)
(***************************************************************************)
EXTENDS Naturals, Sequences, FiniteSetsExt, Sessions

CONSTANTS
  Rooms,
  SeatIds,       \* bound: the seats that can ever exist, as numbers that
                 \* compare as their primary keys do
  Labels,
  Places,        \* the values of one of the other columns (grid_x, grid_y,
                 \* seat_type, attributes, active), each written by itself
  SeatsAtFirst,  \* table seats as it was set up
  Layouts        \* bound: the payloads editors send

VARIABLES
  fullRoom,      \* column rooms.allow_full_room_booking: [Rooms -> BOOLEAN]
  seats,         \* table seats: [SeatIds -> a row or None]
  asked          \* ghost: the last entry saved for each seat

layout == <<fullRoom, seats, asked>>
layoutVars == <<layout, sessions>>
------------------------------------------------------------------------------
SeatRow == [room : Rooms, label : Labels, place : Places]

(* RoomLayoutUpdate: the flag is left alone when it is None. *)
Entry == [id : SeatIds \cup {None}, label : Labels, place : Places]
Payload == [full : BOOLEAN \cup {None}, seats : Seq(Entry)]

LayoutSession ==
  [handler : {"update_room_layout"}, pc : {"load", "commit"}, room : Rooms,
   full : BOOLEAN, sent : Layouts, loaded : [SeatIds -> SeatRow \cup {None}]]

ASSUME LayoutAssumption ==
  /\ SeatIds \subseteq Nat
  /\ Layouts \subseteq Payload
  /\ SeatsAtFirst \in [SeatIds -> SeatRow \cup {None}]
  /\ None \notin SeatIds /\ None \notin BOOLEAN
  /\ None \notin SeatRow \cup LayoutSession

LayoutInit ==
  /\ fullRoom = [m \in Rooms |-> FALSE]
  /\ seats = SeatsAtFirst
  /\ asked = SeatsAtFirst
  /\ NoRequests

(* How the ghost variables of Sessions name a row of table seats. *)
SeatKey(d) == <<"seats", d>>

SeatsOf(table, m) == {d \in SeatIds : table[d] # None /\ table[d].room = m}
------------------------------------------------------------------------------
(* update_room_layout, up to the assignment of the room's own column. *)
BeginLayout(r) ==
  /\ \E m \in Rooms, p \in Layouts :
       OpenSession(r, [handler |-> "update_room_layout", pc |-> "load",
                       room |-> m, full |-> fullRoom[m], sent |-> p,
                       loaded |-> [d \in SeatIds |-> None]])
  /\ UNCHANGED layout

(* Variant: the flag is assigned when it is left out, too. *)
SetsFlagAlways(s) == s.sent.full # s.full

SetsFlag(s) == s.sent.full \notin {None, s.full}

(* Another request has flushed its change of the room's row. *)
RoomLocked(r, m) ==
  \E q \in Requests \ {r} :
    Open(q, "update_room_layout", "commit") /\ request[q].room = m /\ SetsFlag(request[q])

(* Variant: every seat is loaded, whatever its room. *)
LoadSeatsOfAll(r) ==
  /\ Open(r, "update_room_layout", "load")
  /\ SetsFlag(request[r]) => ~RoomLocked(r, request[r].room)
  /\ request' = [request EXCEPT ![r].pc = "commit", ![r].loaded = seats]
  /\ UNCHANGED <<layout, raced, races>>

(* The SELECT of the room's seats.  It first flushes a changed flag, and   *)
(* so waits for the room's row, which it then keeps locked.                *)
LoadSeats(r) ==
  /\ Open(r, "update_room_layout", "load")
  /\ SetsFlag(request[r]) => ~RoomLocked(r, request[r].room)
  /\ request' = [request EXCEPT
       ![r].pc = "commit",
       ![r].loaded = [d \in SeatIds |->
          IF d \in SeatsOf(seats, request[r].room) THEN seats[d] ELSE None]]
  /\ UNCHANGED <<layout, raced, races>>
------------------------------------------------------------------------------
Listed(s) == DOMAIN s.sent.seats

(* The entries that become new seats: without an id, or with one that the  *)
(* room did not have.                                                      *)
NewEntries(s) ==
  {i \in Listed(s) : s.sent.seats[i].id = None
                       \/ s.loaded[s.sent.seats[i].id] = None}

Changed(s) == {s.sent.seats[i].id : i \in Listed(s) \ NewEntries(s)}

(* Of several entries for one seat the last is the one that counts. *)
EntryOf(s, d) ==
  s.sent.seats[Max({i \in Listed(s) : s.sent.seats[i].id = d})]

(* Variant: the label of a seat that is known stays as it is. *)
UpdatedKeepsLabel(s) ==
  [d \in SeatIds |->
     IF d \in Changed(s)
     THEN [seats[d] EXCEPT !.place = Assign(@, s.loaded[d].place, EntryOf(s, d).place)]
     ELSE seats[d]]

(* Table seats after the UPDATEs. *)
Updated(s) ==
  [d \in SeatIds |->
     IF d \in Changed(s)
     THEN [seats[d] EXCEPT
             !.label = Assign(@, s.loaded[d].label, EntryOf(s, d).label),
             !.place = Assign(@, s.loaded[d].place, EntryOf(s, d).place)]
     ELSE seats[d]]

(* An UPDATE sets a label that another seat has when its turn comes. *)
UpdateClashes(s) ==
  \E d \in Changed(s), e \in SeatsOf(seats, s.room) :
    /\ e # d
    /\ EntryOf(s, d).label # s.loaded[d].label
    /\ EntryOf(s, d).label = IF e < d THEN Updated(s)[e].label ELSE seats[e].label

(* Variant: the INSERTs come before the UPDATEs. *)
InsertClashesEarly(s) ==
  \E i \in NewEntries(s) :
    \/ \E e \in SeatsOf(seats, s.room) : seats[e].label = s.sent.seats[i].label
    \/ \E j \in NewEntries(s) \ {i} : s.sent.seats[j].label = s.sent.seats[i].label

InsertClashes(s) ==
  \E i \in NewEntries(s) :
    \/ \E e \in SeatsOf(seats, s.room) : Updated(s)[e].label = s.sent.seats[i].label
    \/ \E j \in NewEntries(s) \ {i} : s.sent.seats[j].label = s.sent.seats[i].label

Clashes(s) == UpdateClashes(s) \/ InsertClashes(s)

(* Bound: while there are ids for the new seats. *)
SaveLayout(r) ==
  LET s == request[r]
      free == {d \in SeatIds : seats[d] = None}
  IN
  /\ Open(r, "update_room_layout", "commit")
  /\ ~Clashes(s)
  /\ \E id \in [NewEntries(s) -> free] :
       LET new == {id[i] : i \in NewEntries(s)}
           made(d) == LET e == s.sent.seats[CHOOSE i \in NewEntries(s) : id[i] = d]
                      IN [room |-> s.room, label |-> e.label, place |-> e.place]
           kept(d) == [room |-> s.room, label |-> EntryOf(s, d).label,
                       place |-> EntryOf(s, d).place]
       IN
       /\ \A i, j \in NewEntries(s) : id[i] = id[j] => i = j
       /\ seats' = [d \in SeatIds |-> IF d \in new THEN made(d) ELSE Updated(s)[d]]
       /\ asked' = [d \in SeatIds |->
            IF d \in new THEN made(d)
            ELSE IF d \in Changed(s) THEN kept(d) ELSE asked[d]]
       /\ Committed(r, {SeatKey(d) : d \in new \cup Changed(s)})
  /\ fullRoom' = [fullRoom EXCEPT ![s.room] =
       IF SetsFlag(s) THEN s.sent.full ELSE @]

(* IntegrityError: nothing is written. *)
FailLayout(r) ==
  /\ Open(r, "update_room_layout", "commit")
  /\ Clashes(request[r])
  /\ Committed(r, {})
  /\ UNCHANGED layout

(* The client goes away, the process or the connection dies. *)
AbortLayout(r) ==
  /\ request[r] # None /\ request[r].handler = "update_room_layout"
  /\ Committed(r, {})
  /\ UNCHANGED layout

LayoutNext ==
  \E r \in Requests :
    \/ BeginLayout(r) \/ LoadSeats(r) \/ SaveLayout(r)
    \/ FailLayout(r) \/ AbortLayout(r)

LayoutSpec == LayoutInit /\ [][LayoutNext]_layoutVars
------------------------------------------------------------------------------
LayoutTypeOK ==
  /\ fullRoom \in [Rooms -> BOOLEAN]
  /\ seats \in [SeatIds -> SeatRow \cup {None}]
  /\ asked \in [SeatIds -> SeatRow \cup {None}]
  /\ DOMAIN request = Requests
  /\ \A r \in Requests :
       request[r] # None /\ request[r].handler = "update_room_layout"
         => request[r] \in LayoutSession

(* A layout whose labels are distinct is saved, even when a new seat takes *)
(* the label that an old one gives up in the same list.  What fails is a   *)
(* list that names a label twice, gives a new seat the label of one it     *)
(* does not rename, or moves a label from one seat to another (two seats   *)
(* cannot swap theirs); and any list, if another save wrote a seat of this *)
(* room in between (space.py:356-373).                                     *)
RefusalNeedsCause ==
  \A r \in Requests :
    Open(r, "update_room_layout", "commit") /\ Clashes(request[r]) =>
      LET s == request[r]
          old == {d \in SeatIds : s.loaded[d] # None}
          label(i) == s.sent.seats[i].label
      IN
      \/ \E d \in SeatsOf(seats, s.room) : SeatKey(d) \in raced[r]
      \/ \E i, j \in NewEntries(s) : i # j /\ label(i) = label(j)
      \/ \E i \in NewEntries(s), d \in Changed(s) : label(i) = EntryOf(s, d).label
      \/ \E i \in NewEntries(s), d \in old \ Changed(s) : label(i) = s.loaded[d].label
      \/ \E d \in Changed(s), e \in old : d # e /\ EntryOf(s, d).label = s.loaded[e].label
      \/ \E d, e \in Changed(s) : d # e /\ EntryOf(s, d).label = EntryOf(s, e).label

(* A seat is what the editor who saved it last asked for, the label and    *)
(* the place together, unless two saves of it overlapped: then the label   *)
(* can be one editor's and the place another's (space.py:353-358).         *)
TornSeatNeedsRace ==
  \A d \in SeatIds : seats[d] = asked[d] \/ LostWrite(SeatKey(d))

(* A save changes seats of its own room only, and only those it lists: the *)
(* id of a seat in another room does not move that seat, it makes a new    *)
(* one; and no seat is ever removed, whatever list is sent twice, late or  *)
(* in part (space.py:347-358).                                             *)
ForeignSeatsUntouched ==
  [][\A d \in SeatIds : seats[d] # None /\ seats'[d] # seats[d] =>
       /\ seats'[d] # None /\ seats'[d].room = seats[d].room
       /\ \E r \in Requests :
            /\ request[r] # None /\ request'[r] = None
            /\ request[r].room = seats[d].room
            /\ \E i \in Listed(request[r]) : request[r].sent.seats[i].id = d]_layoutVars
==============================================================================
