---------------------------- MODULE LayoutProofs ----------------------------
(***************************************************************************)
(* Proofs about Layout, for every set of rooms, seats, labels, places,     *)
(* payloads and editors.                                                   *)
(***************************************************************************)
EXTENDS Layout, SessionsProofs, WellFoundedInduction

(* What an editor's request knows of the seats it has loaded: they are of  *)
(* its room and stay there; until another request writes one it is as it   *)
(* was loaded; and one that came to the room since was written since.      *)
Knows(s, written) ==
  \A d \in SeatIds :
    /\ s.loaded[d] # None =>
         /\ s.loaded[d].room = s.room
         /\ seats[d] # None /\ seats[d].room = s.room
         /\ SeatKey(d) \notin written => seats[d] = s.loaded[d]
    /\ s.pc = "commit" /\ s.loaded[d] = None /\ d \in SeatsOf(seats, s.room)
         => SeatKey(d) \in written

(* Requests that are not those of an editor are of no concern, so that the *)
(* invariant holds of a server with other handlers, too.                   *)
Editing(r) == request[r] # None /\ request[r].handler = "update_room_layout"

LInv ==
  /\ LayoutTypeOK
  /\ request = [r \in Requests |-> request[r]]
  /\ \A r \in Requests : Editing(r) => Knows(request[r], raced[r])
  /\ TornSeatNeedsRace

USE LayoutAssumption
------------------------------------------------------------------------------
(* Some relation that contains < is well founded on the naturals.          *)
LEMMA LessThan ==
  \E R : IsWellFoundedOn(R, Nat) /\ \A x, y \in Nat : x < y => <<x, y>> \in R
<1> DEFINE R == {ss \in Nat \X Nat : ss[1] < ss[2]}
<1>1. IsWellFoundedOn(R, Nat)
  BY NatLessThanWellFounded, Zenon DEF OpToRel
<1>2. \A x, y \in Nat : x < y => <<x, y>> \in R
  OBVIOUS
<1> QED
  BY <1>1, <1>2

(* The library's Min of some natural numbers is the smallest of them, ...  *)
LEMMA SmallestExists ==
  ASSUME NEW S \in SUBSET Nat, S # {}
  PROVE  Min(S) \in S /\ \A j \in S : Min(S) <= j
<1>1. PICK R : IsWellFoundedOn(R, Nat) /\ \A x, y \in Nat : x < y => <<x, y>> \in R
  BY LessThan
<1>2. PICK x \in S : \A y \in S : ~(<<y, x>> \in R)
  <2>1. IsWellFoundedOn(R, Nat) /\ S \subseteq Nat /\ S # {}
    BY <1>1
  <2> QED
    BY ONLY <2>1, WFMin, Zenon
<1>3. \A j \in S : x <= j
  <2> SUFFICES ASSUME NEW j \in S PROVE x <= j
    OBVIOUS
  <2>1. ~(j < x)
    BY <1>1, <1>2
  <2> QED
    BY <2>1
<1> QED
  BY <1>3 DEF Min

(* ... and its Max of some of the first n numbers the largest.             *)
LEMMA LargestExists ==
  ASSUME NEW n \in Nat, NEW S \in SUBSET (1..n), S # {}
  PROVE  Max(S) \in S /\ \A j \in S : Max(S) >= j
<1> DEFINE T == {m \in Nat : n - m \in S}
<1>1. \A i \in S : i \in Nat /\ n - i \in Nat /\ n - (n - i) = i
  OBVIOUS
<1>2. T \subseteq Nat /\ T # {}
  <2>1. PICK i \in S : TRUE
    OBVIOUS
  <2>2. n - i \in T
    BY <1>1, <2>1
  <2> QED
    BY <2>2
<1>3. PICK x \in Nat : n - x \in S /\ \A m \in T : x <= m
  BY <1>2, SmallestExists
<1>4. \A j \in S : n - x >= j
  <2> SUFFICES ASSUME NEW j \in S PROVE n - x >= j
    OBVIOUS
  <2>1. x <= n - j
    BY <1>1, <1>3
  <2> QED
    BY <1>1, <1>3, <2>1
<1> QED
  BY <1>3, <1>4 DEF Max

(* The last entry for a seat that changes exists, and is one for that      *)
(* seat.                                                                   *)
LEMMA EntryOfType ==
  ASSUME NEW s \in LayoutSession, NEW d \in Changed(s)
  PROVE  /\ EntryOf(s, d) \in Entry /\ EntryOf(s, d).id = d
         /\ d \in SeatIds /\ s.loaded[d] # None
<1> DEFINE S == {i \in Listed(s) : s.sent.seats[i].id = d}
<1>1. s.sent \in Payload
  BY DEF LayoutSession
<1>2. s.sent.seats \in Seq(Entry)
  BY <1>1 DEF Payload
<1>3. PICK n \in Nat : DOMAIN s.sent.seats = 1..n
  BY <1>2
<1>4. PICK i \in Listed(s) \ NewEntries(s) : d = s.sent.seats[i].id
  BY DEF Changed
<1>5. S \subseteq 1..n /\ S # {}
  BY <1>3, <1>4 DEF Listed
<1>6. Max(S) \in S
  BY <1>3, <1>5, LargestExists
<1>7. \A j \in Listed(s) : s.sent.seats[j] \in Entry
  BY <1>2 DEF Listed
<1>8. EntryOf(s, d) = s.sent.seats[Max(S)]
  BY DEF EntryOf
<1>9. EntryOf(s, d) \in Entry /\ EntryOf(s, d).id = d
  BY <1>6, <1>7, <1>8
<1>10. d # None /\ s.loaded[d] # None
  BY <1>4 DEF NewEntries
<1> QED
  BY <1>9, <1>10 DEF Entry
------------------------------------------------------------------------------
LEMMA LayoutInitInv == LayoutInit => LInv
BY DEF LayoutInit, NoRequests, LInv, LayoutTypeOK, TornSeatNeedsRace, Editing

(* An editor keeps what it knows while others write, as long as they leave *)
(* word of the seats they write and never move a seat or take it away.     *)
LEMMA Bystander ==
  ASSUME LInv, NEW q \in Requests, Editing(q),
         request'[q] = request[q], raced[q] \subseteq raced'[q],
         \A d \in SeatIds : seats'[d] = seats[d] \/ SeatKey(d) \in raced'[q],
         \A d \in SeatIds : seats[d] # None =>
           seats'[d] # None /\ seats'[d].room = seats[d].room
  PROVE  Knows(request[q], raced[q])'
<1>1. PICK s \in LayoutSession : s = request[q]
  BY DEF LInv, LayoutTypeOK, Editing
<1>2. Knows(s, raced[q])
  BY <1>1 DEF LInv
<1>3. \A d \in SeatIds : d \in SeatsOf(seats, s.room)' =>
        d \in SeatsOf(seats, s.room) \/ SeatKey(d) \in raced'[q]
  BY DEF SeatsOf
<1> QED
  BY <1>1, <1>2, <1>3 DEF Knows

(* A step that leaves the seats alone, whoever takes it: an editor's       *)
(* request that is still open goes on as before.                           *)
LEMMA SeatsAloneInv ==
  ASSUME LInv, UNCHANGED layout, races \subseteq races',
         request' = [q \in Requests |-> request'[q]],
         \A q \in Requests :
           Editing(q)' => request'[q] = request[q] /\ raced[q] \subseteq raced'[q]
  PROVE  LInv'
<1> USE DEF layout
<1>1. ASSUME NEW q \in Requests, Editing(q)'
      PROVE  request'[q] \in LayoutSession /\ Knows(request[q], raced[q])'
  <2>1. request'[q] = request[q] /\ Editing(q)
    BY <1>1 DEF Editing
  <2> QED
    BY <1>1, <2>1, Bystander DEF LInv, LayoutTypeOK, Editing
<1>2. LayoutTypeOK'
  BY <1>1 DEF LInv, LayoutTypeOK, Editing
<1>3. TornSeatNeedsRace'
  BY DEF LInv, TornSeatNeedsRace, LostWrite
<1> QED
  BY <1>1, <1>2, <1>3 DEF LInv

(* Requests that end or go on without a write: the seats are as before.    *)
LEMMA NothingWrittenInv ==
  ASSUME LInv, NEW r \in Requests, Committed(r, {}), UNCHANGED layout
  PROVE  LInv'
<1>1. request' = [q \in Requests |-> request'[q]] /\ races \subseteq races'
  BY DEF LInv, Committed
<1>2. ASSUME NEW q \in Requests, Editing(q)'
      PROVE  request'[q] = request[q] /\ raced[q] \subseteq raced'[q]
  BY <1>2 DEF LInv, Committed, Editing
<1> QED
  BY <1>1, <1>2, SeatsAloneInv

(* The steps of one request that change no seat: its own knowledge is what *)
(* has to be shown.                                                        *)
LEMMA ReadingInv ==
  ASSUME LInv, NEW r \in Requests, NEW t \in LayoutSession,
         request' = [request EXCEPT ![r] = t],
         UNCHANGED <<fullRoom, seats, asked, raced, races>>,
         Knows(t, raced[r])'
  PROVE  LInv'
<1>1. request' = [q \in Requests |-> request'[q]] /\ request'[r] = t
  BY DEF LInv
<1>2. ASSUME NEW q \in Requests, Editing(q)'
      PROVE  request'[q] \in LayoutSession /\ Knows(request[q], raced[q])'
  <2>1. CASE q = r
    BY <1>1, <2>1
  <2>2. CASE q # r
    <3>1. request'[q] = request[q] /\ Editing(q)
      BY <1>2, <2>2 DEF LInv, Editing
    <3> QED
      BY <1>2, <3>1, Bystander DEF LInv, LayoutTypeOK, Editing
  <2> QED
    BY <2>1, <2>2
<1>3. LayoutTypeOK'
  BY <1>1, <1>2 DEF LInv, LayoutTypeOK, Editing
<1>4. TornSeatNeedsRace'
  BY DEF LInv, TornSeatNeedsRace, LostWrite
<1> QED
  BY <1>1, <1>2, <1>3, <1>4 DEF LInv

LEMMA BeginLayoutInv ==
  ASSUME LInv, NEW r \in Requests, BeginLayout(r)
  PROVE  LInv'
<1>1. PICK m \in Rooms, p \in Layouts :
        OpenSession(r, [handler |-> "update_room_layout", pc |-> "load",
                        room |-> m, full |-> fullRoom[m], sent |-> p,
                        loaded |-> [d \in SeatIds |-> None]])
  BY DEF BeginLayout
<1>2. PICK s \in LayoutSession :
        s = [handler |-> "update_room_layout", pc |-> "load",
             room |-> m, full |-> fullRoom[m], sent |-> p,
             loaded |-> [d \in SeatIds |-> None]]
  BY DEF LayoutSession, LInv, LayoutTypeOK
<1>3. /\ request' = [request EXCEPT ![r] = s]
      /\ UNCHANGED <<fullRoom, seats, asked, raced, races>>
  BY <1>1, <1>2 DEF OpenSession, BeginLayout, layout
<1>4. Knows(s, raced[r])'
  BY <1>2 DEF Knows
<1> QED
  BY <1>2, <1>3, <1>4, ReadingInv

LEMMA LoadSeatsInv ==
  ASSUME LInv, NEW r \in Requests, LoadSeats(r)
  PROVE  LInv'
<1>1. PICK s \in LayoutSession : s = request[r]
  BY DEF LInv, LayoutTypeOK, LoadSeats, Open
<1> DEFINE found == [d \in SeatIds |->
                       IF d \in SeatsOf(seats, s.room) THEN seats[d] ELSE None]
<1>2. found \in [SeatIds -> SeatRow \cup {None}]
  BY DEF LInv, LayoutTypeOK
<1>3. PICK t \in LayoutSession :
        /\ t = [s EXCEPT !.pc = "commit", !.loaded = found]
        /\ t.room = s.room /\ t.loaded = found
  <2> HIDE DEF found
  <2> DEFINE u == [s EXCEPT !.pc = "commit", !.loaded = found]
  <2>1. u \in LayoutSession /\ u.room = s.room /\ u.loaded = found
    BY <1>2 DEF LayoutSession
  <2> QED
    BY <2>1
<1>4. /\ request' = [request EXCEPT ![r] = t]
      /\ UNCHANGED <<fullRoom, seats, asked, raced, races>>
  BY <1>1, <1>3 DEF LoadSeats, layout, LInv
<1>5. \A d \in SeatIds :
        IF d \in SeatsOf(seats, s.room)
        THEN t.loaded[d] = seats[d] /\ seats[d] # None /\ seats[d].room = s.room
        ELSE t.loaded[d] = None
  BY <1>3 DEF SeatsOf
<1> HIDE DEF found
<1>6. Knows(t, raced[r])'
  BY <1>3, <1>4, <1>5 DEF Knows, SeatsOf
<1> QED
  BY <1>4, <1>6, ReadingInv
------------------------------------------------------------------------------
(* What a save does to the seats, one by one: the new ones, those that     *)
(* change, and the others.                                                 *)
LEMMA SaveFacts ==
  ASSUME LInv, NEW r \in Requests, SaveLayout(r),
         request[r] \in LayoutSession
  PROVE  LET s == request[r] IN \E new \in SUBSET SeatIds :
    /\ Committed(r, {SeatKey(d) : d \in new \cup Changed(s)})
    /\ \A d \in new :
         seats[d] = None /\ seats'[d] \in SeatRow /\ asked'[d] = seats'[d]
    /\ \A d \in Changed(s) \ new :
         /\ seats'[d] = [seats[d] EXCEPT
              !.label = Assign(@, s.loaded[d].label, EntryOf(s, d).label),
              !.place = Assign(@, s.loaded[d].place, EntryOf(s, d).place)]
         /\ asked'[d] = [room |-> s.room, label |-> EntryOf(s, d).label,
                         place |-> EntryOf(s, d).place]
    /\ \A d \in SeatIds \ (new \cup Changed(s)) :
         seats'[d] = seats[d] /\ asked'[d] = asked[d]
    /\ DOMAIN seats' = SeatIds /\ seats' = [d \in SeatIds |-> seats'[d]]
    /\ asked' = [d \in SeatIds |-> asked'[d]]
<1> DEFINE s == request[r]
           free == {d \in SeatIds : seats[d] = None}
<1>1. PICK id \in [NewEntries(s) -> free] :
        LET new == {id[i] : i \in NewEntries(s)}
            made(d) == LET e == s.sent.seats[CHOOSE i \in NewEntries(s) : id[i] = d]
                       IN [room |-> s.room, label |-> e.label, place |-> e.place]
            kept(d) == [room |-> s.room, label |-> EntryOf(s, d).label,
                        place |-> EntryOf(s, d).place]
        IN
        /\ seats' = [d \in SeatIds |-> IF d \in new THEN made(d) ELSE Updated(s)[d]]
        /\ asked' = [d \in SeatIds |->
             IF d \in new THEN made(d)
             ELSE IF d \in Changed(s) THEN kept(d) ELSE asked[d]]
        /\ Committed(r, {SeatKey(d) : d \in new \cup Changed(s)})
  BY Zenon DEF SaveLayout
<1> DEFINE new == {id[i] : i \in NewEntries(s)}
           made(d) == LET e == s.sent.seats[CHOOSE i \in NewEntries(s) : id[i] = d]
                      IN [room |-> s.room, label |-> e.label, place |-> e.place]
<1>2. new \in SUBSET SeatIds /\ \A d \in new : seats[d] = None
  OBVIOUS
<1>3. ASSUME NEW d \in new PROVE made(d) \in SeatRow
  <2>1. PICK i \in NewEntries(s) : i = CHOOSE j \in NewEntries(s) : id[j] = d
    BY <1>3
  <2>2. s.sent.seats \in Seq(Entry) /\ i \in DOMAIN s.sent.seats
    BY DEF LayoutSession, Payload, NewEntries, Listed
  <2>3. s.sent.seats[i] \in Entry
    BY <2>2
  <2>4. made(d) = [room |-> s.room, label |-> s.sent.seats[i].label,
                   place |-> s.sent.seats[i].place]
    BY <2>1
  <2> QED
    BY <2>3, <2>4 DEF Entry, SeatRow, LayoutSession
<1>4. \A d \in new : seats'[d] = made(d) /\ asked'[d] = made(d)
  BY <1>1, <1>2
<1>5. \A d \in Changed(s) : d \in SeatIds
  BY EntryOfType
<1>6. \A d \in Changed(s) \ new :
        /\ seats'[d] = Updated(s)[d]
        /\ asked'[d] = [room |-> s.room, label |-> EntryOf(s, d).label,
                        place |-> EntryOf(s, d).place]
  BY <1>1, <1>5
<1>7. \A d \in SeatIds \ (new \cup Changed(s)) :
        seats'[d] = Updated(s)[d] /\ asked'[d] = asked[d]
  BY <1>1
<1>8. /\ Committed(r, {SeatKey(d) : d \in new \cup Changed(s)})
      /\ DOMAIN seats' = SeatIds /\ seats' = [d \in SeatIds |-> seats'[d]]
      /\ asked' = [d \in SeatIds |-> asked'[d]]
  BY <1>1
<1>9. /\ new \in SUBSET SeatIds
      /\ Committed(r, {SeatKey(d) : d \in new \cup Changed(s)})
      /\ \A d \in new :
           seats[d] = None /\ seats'[d] \in SeatRow /\ asked'[d] = seats'[d]
      /\ \A d \in Changed(s) \ new :
           /\ seats'[d] = [seats[d] EXCEPT
                !.label = Assign(@, s.loaded[d].label, EntryOf(s, d).label),
                !.place = Assign(@, s.loaded[d].place, EntryOf(s, d).place)]
           /\ asked'[d] = [room |-> s.room, label |-> EntryOf(s, d).label,
                           place |-> EntryOf(s, d).place]
      /\ \A d \in SeatIds \ (new \cup Changed(s)) :
           seats'[d] = seats[d] /\ asked'[d] = asked[d]
      /\ DOMAIN seats' = SeatIds /\ seats' = [d \in SeatIds |-> seats'[d]]
      /\ asked' = [d \in SeatIds |-> asked'[d]]
  <2> HIDE DEF s, new, made
  <2>1. ASSUME NEW d \in Changed(s) \ new
        PROVE  seats'[d] = [seats[d] EXCEPT
                 !.label = Assign(@, s.loaded[d].label, EntryOf(s, d).label),
                 !.place = Assign(@, s.loaded[d].place, EntryOf(s, d).place)]
    BY <1>5, <1>6 DEF Updated
  <2>2. ASSUME NEW d \in SeatIds \ (new \cup Changed(s))
        PROVE  seats'[d] = seats[d]
    BY <1>7 DEF Updated
  <2>3. \A d \in new :
          seats[d] = None /\ seats'[d] \in SeatRow /\ asked'[d] = seats'[d]
    BY <1>2, <1>3, <1>4
  <2> QED
    BY <1>2, <1>6, <1>7, <1>8, <2>1, <2>2, <2>3
<1> HIDE DEF new
<1> QED
  BY <1>9

(* One seat that a save changes: it stays in its room, and if nobody else  *)
(* has written it since it was loaded it becomes what the editor asked for.*)
LEMMA ChangedSeat ==
  ASSUME LInv, NEW r \in Requests, request[r] \in LayoutSession,
         NEW d \in Changed(request[r]),
         NEW row, row = [seats[d] EXCEPT
           !.label = Assign(@, request[r].loaded[d].label,
                            EntryOf(request[r], d).label),
           !.place = Assign(@, request[r].loaded[d].place,
                            EntryOf(request[r], d).place)]
  PROVE  /\ row \in SeatRow /\ seats[d] # None /\ row.room = seats[d].room
         /\ request[r].room = seats[d].room
         /\ [room |-> request[r].room, label |-> EntryOf(request[r], d).label,
             place |-> EntryOf(request[r], d).place] \in SeatRow
         /\ \/ SeatKey(d) \in raced[r]
            \/ row = [room |-> request[r].room,
                      label |-> EntryOf(request[r], d).label,
                      place |-> EntryOf(request[r], d).place]
<1> DEFINE s == request[r]
<1>1. d \in SeatIds /\ s.loaded[d] # None
  BY EntryOfType
<1>2. PICK e \in Entry : e = EntryOf(s, d)
  BY EntryOfType
<1>3. Knows(s, raced[r])
  BY DEF LInv, Editing, LayoutSession
<1>4. /\ seats[d] # None /\ seats[d].room = s.room
      /\ SeatKey(d) \notin raced[r] => seats[d] = s.loaded[d]
  BY <1>1, <1>3 DEF Knows
<1>5. PICK old \in SeatRow : old = seats[d]
  BY <1>1, <1>4 DEF LInv, LayoutTypeOK
<1>6. PICK was \in SeatRow : was = s.loaded[d]
  BY <1>1 DEF LayoutSession
<1>7. row = [room |-> old.room, label |-> Assign(old.label, was.label, e.label),
             place |-> Assign(old.place, was.place, e.place)]
  BY <1>2, <1>5, <1>6 DEF SeatRow
<1>8. e.label \in Labels /\ e.place \in Places
  BY DEF Entry
<1>9. row \in SeatRow
  BY <1>7, <1>8 DEF SeatRow, Assign
<1>10. SeatKey(d) \notin raced[r] =>
         row = [room |-> s.room, label |-> e.label, place |-> e.place]
  BY <1>4, <1>5, <1>6, <1>7 DEF Assign
<1> QED
  BY <1>2, <1>4, <1>5, <1>7, <1>8, <1>9, <1>10 DEF SeatRow, LayoutSession

LEMMA SaveLayoutInv ==
  ASSUME LInv, NEW r \in Requests, SaveLayout(r)
  PROVE  LInv'
<1> DEFINE s == request[r]
<1>1. s \in LayoutSession /\ s = request[r]
  BY DEF LInv, LayoutTypeOK, SaveLayout, Open
<1>2. PICK new \in SUBSET SeatIds :
    /\ Committed(r, {SeatKey(d) : d \in new \cup Changed(s)})
    /\ \A d \in new :
         seats[d] = None /\ seats'[d] \in SeatRow /\ asked'[d] = seats'[d]
    /\ \A d \in Changed(s) \ new :
         /\ seats'[d] = [seats[d] EXCEPT
              !.label = Assign(@, s.loaded[d].label, EntryOf(s, d).label),
              !.place = Assign(@, s.loaded[d].place, EntryOf(s, d).place)]
         /\ asked'[d] = [room |-> s.room, label |-> EntryOf(s, d).label,
                         place |-> EntryOf(s, d).place]
    /\ \A d \in SeatIds \ (new \cup Changed(s)) :
         seats'[d] = seats[d] /\ asked'[d] = asked[d]
    /\ DOMAIN seats' = SeatIds /\ seats' = [d \in SeatIds |-> seats'[d]]
    /\ asked' = [d \in SeatIds |-> asked'[d]]
  BY <1>1, SaveFacts
<1> HIDE DEF s
<1>3. ASSUME NEW d \in SeatIds
      PROVE  /\ seats'[d] \in SeatRow \cup {None} /\ asked'[d] \in SeatRow \cup {None}
             /\ seats[d] # None =>
                  seats'[d] # None /\ seats'[d].room = seats[d].room
             /\ \/ seats'[d] = asked'[d]
                \/ seats'[d] = seats[d] /\ asked'[d] = asked[d]
                \/ d \in Changed(s) /\ SeatKey(d) \in raced[r]
  <2>1. CASE d \in new
    BY <1>2, <2>1
  <2>2. CASE d \in Changed(s) \ new
    <3>1. PICK row : row = seats'[d]
      OBVIOUS
    <3>2. row = [seats[d] EXCEPT
                   !.label = Assign(@, s.loaded[d].label, EntryOf(s, d).label),
                   !.place = Assign(@, s.loaded[d].place, EntryOf(s, d).place)]
      BY <1>2, <2>2, <3>1
    <3>3. asked'[d] = [room |-> s.room, label |-> EntryOf(s, d).label,
                       place |-> EntryOf(s, d).place]
      BY <1>2, <2>2
    <3>4. /\ row \in SeatRow /\ seats[d] # None /\ row.room = seats[d].room
          /\ [room |-> s.room, label |-> EntryOf(s, d).label,
              place |-> EntryOf(s, d).place] \in SeatRow
          /\ \/ SeatKey(d) \in raced[r]
             \/ row = [room |-> s.room, label |-> EntryOf(s, d).label,
                       place |-> EntryOf(s, d).place]
      <4> d \in Changed(s)
        BY <2>2
      <4> QED
        BY <1>1, <3>2, ChangedSeat DEF s
    <3> QED
      BY <2>2, <3>1, <3>3, <3>4
  <2>3. CASE d \notin new \cup Changed(s)
    BY <1>2, <2>3 DEF LInv, LayoutTypeOK
  <2> QED
    BY <2>1, <2>2, <2>3
<1>4. /\ request' = [q \in Requests |-> request'[q]]
      /\ \A q \in Requests : Editing(q)' => q # r /\ request'[q] = request[q]
  BY <1>2 DEF LInv, Committed, Editing
<1>5. LayoutTypeOK'
  <2>1. s.sent.full \in BOOLEAN \cup {None} /\ s.room \in Rooms
    BY <1>1 DEF LayoutSession, Payload
  <2>2. fullRoom' = [fullRoom EXCEPT ![s.room] =
                       IF SetsFlag(s) THEN s.sent.full ELSE @]
    BY <1>1 DEF SaveLayout
  <2>3. fullRoom' \in [Rooms -> BOOLEAN]
    BY <2>1, <2>2 DEF LInv, LayoutTypeOK, SetsFlag
  <2>4. /\ seats' \in [SeatIds -> SeatRow \cup {None}]
        /\ asked' \in [SeatIds -> SeatRow \cup {None}]
    BY <1>2, <1>3
  <2>5. \A q \in Requests : Editing(q)' => request'[q] \in LayoutSession
    BY <1>4 DEF LInv, LayoutTypeOK, Editing
  <2> QED
    BY <1>4, <2>3, <2>4, <2>5 DEF LayoutTypeOK, Editing
<1>6. ASSUME NEW q \in Requests, Editing(q)'
      PROVE  Knows(request[q], raced[q])'
  <2>1. /\ Editing(q) /\ request'[q] = request[q]
        /\ raced'[q] = raced[q] \cup {SeatKey(d) : d \in new \cup Changed(s)}
    BY <1>2, <1>4, <1>6 DEF Committed, Editing
  <2>2. \A d \in SeatIds : seats'[d] = seats[d] \/ SeatKey(d) \in raced'[q]
    BY <1>2, <2>1
  <2> QED
    BY <1>3, <1>6, <2>1, <2>2, Bystander DEF LInv
<1>7. TornSeatNeedsRace'
  <2> DEFINE W == {SeatKey(d) : d \in new \cup Changed(s)}
  <2>0. /\ Committed(r, W) /\ races \subseteq races'
        /\ \A x \in W, y \in raced[r] : {x, y} \in races'
    <3>1. Committed(r, W)
      BY <1>2
    <3> HIDE DEF W
    <3> QED
      BY <3>1 DEF Committed
  <2> SUFFICES ASSUME NEW d \in SeatIds
               PROVE  seats'[d] = asked'[d] \/ LostWrite(SeatKey(d))'
    BY DEF TornSeatNeedsRace
  <2>1. CASE d \in Changed(s) /\ SeatKey(d) \in raced[r]
    <3>1. PICK x : x = SeatKey(d)
      OBVIOUS
    <3>2. {x, x} \in races'
      BY <2>0, <2>1, <3>1
    <3> QED
      BY <3>1, <3>2 DEF LostWrite, SeatKey
  <2>2. CASE seats'[d] = seats[d] /\ asked'[d] = asked[d]
    <3>1. seats[d] = asked[d] \/ LostWrite(SeatKey(d))
      BY DEF LInv, TornSeatNeedsRace
    <3> QED
      BY <2>0, <2>2, <3>1 DEF LostWrite, SeatKey
  <2> QED
    BY <1>3, <2>1, <2>2
<1> QED
  BY <1>4, <1>5, <1>6, <1>7 DEF LInv

LEMMA LayoutNextInv == LInv /\ [LayoutNext]_layoutVars => LInv'
<1> SUFFICES ASSUME LInv, [LayoutNext]_layoutVars
             PROVE  LInv'
  OBVIOUS
<1>1. CASE UNCHANGED layoutVars
  BY <1>1, SeatsAloneInv DEF LInv, layoutVars, layout, sessions, Editing
<1>2. ASSUME NEW r \in Requests,
             \/ BeginLayout(r) \/ LoadSeats(r) \/ SaveLayout(r)
             \/ FailLayout(r) \/ AbortLayout(r)
      PROVE  LInv'
  BY <1>2, BeginLayoutInv, LoadSeatsInv, SaveLayoutInv, NothingWrittenInv
     DEF FailLayout, AbortLayout
<1> QED
  BY <1>1, <1>2 DEF LayoutNext

(* What editors know of the seats they loaded stays true until they save   *)
(* (space.py:337-373).                                                     *)
THEOREM LayoutInvariance == LayoutSpec => []LInv
BY LayoutInitInv, LayoutNextInv, PTL DEF LayoutSpec
------------------------------------------------------------------------------
(* Rooms, seats and the sessions of editors keep their types: a save never *)
(* leaves half a row, and never makes a seat of an entry it does not have  *)
(* (space.py:337-373).                                                     *)
THEOREM LayoutTypeCorrect == LayoutSpec => []LayoutTypeOK
BY LayoutInvariance, PTL DEF LInv

(* A seat is what its last editor asked for, label and place together,     *)
(* unless two saves of it overlapped (space.py:353-358).                   *)
THEOREM SeatsAreAsAsked == LayoutSpec => []TornSeatNeedsRace
BY LayoutInvariance, PTL DEF LInv

(* An UPDATE that an editor alone in the room could not do has its cause   *)
(* in the list.                                                            *)
LEMMA UpdatesRefused ==
  ASSUME LInv, NEW r \in Requests, NEW s \in LayoutSession, s = request[r],
         s.pc = "commit",
         \A a \in SeatsOf(seats, s.room) : SeatKey(a) \notin raced[r],
         NEW d \in Changed(s), NEW e \in SeatsOf(seats, s.room), e # d,
         EntryOf(s, d).label # s.loaded[d].label,
         EntryOf(s, d).label = IF e < d THEN Updated(s)[e].label ELSE seats[e].label
  PROVE  /\ e \in SeatIds /\ s.loaded[e] # None
         /\ \/ EntryOf(s, d).label = s.loaded[e].label
            \/ e \in Changed(s) /\ EntryOf(s, d).label = EntryOf(s, e).label
<1>1. e \in SeatIds
  BY DEF SeatsOf
<1>2. Knows(s, raced[r])
  BY DEF LInv, Editing, LayoutSession
<1>3. s.loaded[e] # None /\ seats[e] = s.loaded[e]
  BY <1>1, <1>2 DEF Knows
<1>4. CASE e \in Changed(s)
  <2>1. PICK row \in SeatRow : row = seats[e]
    BY <1>1, <1>3 DEF LInv, LayoutTypeOK
  <2>2. Updated(s)[e].label = EntryOf(s, e).label
    BY <1>1, <1>3, <1>4, <2>1 DEF Updated, Assign, SeatRow
  <2> QED
    BY <1>1, <1>3, <1>4, <2>2
<1>5. CASE e \notin Changed(s)
  BY <1>1, <1>3, <1>5 DEF Updated
<1> QED
  BY <1>4, <1>5

(* The same for the INSERTs.                                               *)
LEMMA InsertsRefused ==
  ASSUME LInv, NEW r \in Requests, NEW s \in LayoutSession, s = request[r],
         s.pc = "commit",
         \A a \in SeatsOf(seats, s.room) : SeatKey(a) \notin raced[r],
         NEW e \in SeatsOf(seats, s.room)
  PROVE  /\ e \in SeatIds /\ s.loaded[e] # None
         /\ IF e \in Changed(s) THEN Updated(s)[e].label = EntryOf(s, e).label
            ELSE Updated(s)[e].label = s.loaded[e].label
<1>1. e \in SeatIds
  BY DEF SeatsOf
<1>2. Knows(s, raced[r])
  BY DEF LInv, Editing, LayoutSession
<1>3. s.loaded[e] # None /\ seats[e] = s.loaded[e]
  BY <1>1, <1>2 DEF Knows
<1>4. PICK row \in SeatRow : row = seats[e]
  BY <1>1, <1>3 DEF LInv, LayoutTypeOK
<1>5. CASE e \in Changed(s)
  BY <1>1, <1>3, <1>4, <1>5 DEF Updated, Assign, SeatRow
<1>6. CASE e \notin Changed(s)
  BY <1>1, <1>3, <1>6 DEF Updated
<1> QED
  BY <1>1, <1>3, <1>5, <1>6

LEMMA RefusalHasCause == LInv => RefusalNeedsCause
<1> SUFFICES ASSUME LInv, NEW r \in Requests,
                    Open(r, "update_room_layout", "commit"),
                    Clashes(request[r]),
                    \A a \in SeatsOf(seats, request[r].room) : SeatKey(a) \notin raced[r]
             PROVE  LET s == request[r]
                        old == {d \in SeatIds : s.loaded[d] # None}
                        label(i) == s.sent.seats[i].label
                    IN
                    \/ \E i, j \in NewEntries(s) : i # j /\ label(i) = label(j)
                    \/ \E i \in NewEntries(s), d \in Changed(s) :
                         label(i) = EntryOf(s, d).label
                    \/ \E i \in NewEntries(s), d \in old \ Changed(s) :
                         label(i) = s.loaded[d].label
                    \/ \E d \in Changed(s), e \in old :
                         d # e /\ EntryOf(s, d).label = s.loaded[e].label
                    \/ \E d, e \in Changed(s) :
                         d # e /\ EntryOf(s, d).label = EntryOf(s, e).label
  BY Zenon DEF RefusalNeedsCause
<1>1. PICK s \in LayoutSession : s = request[r]
  BY DEF LInv, LayoutTypeOK, Open
<1>2. s.pc = "commit"
  BY <1>1 DEF Open
<1>3. CASE UpdateClashes(s)
  <2>1. PICK d \in Changed(s), e \in SeatsOf(seats, s.room) :
          /\ e # d
          /\ EntryOf(s, d).label # s.loaded[d].label
          /\ EntryOf(s, d).label = IF e < d THEN Updated(s)[e].label
                                   ELSE seats[e].label
    BY <1>3 DEF UpdateClashes
  <2>2. /\ e \in SeatIds /\ s.loaded[e] # None
        /\ \/ EntryOf(s, d).label = s.loaded[e].label
           \/ e \in Changed(s) /\ EntryOf(s, d).label = EntryOf(s, e).label
    BY <1>1, <1>2, <2>1, UpdatesRefused
  <2> QED
    BY <1>1, <2>1, <2>2
<1>4. CASE InsertClashes(s)
  <2>1. PICK i \in NewEntries(s) :
          \/ \E e \in SeatsOf(seats, s.room) :
               Updated(s)[e].label = s.sent.seats[i].label
          \/ \E j \in NewEntries(s) \ {i} :
               s.sent.seats[j].label = s.sent.seats[i].label
    BY <1>4 DEF InsertClashes
  <2>2. CASE \E j \in NewEntries(s) \ {i} :
               s.sent.seats[j].label = s.sent.seats[i].label
    BY <1>1, <2>2
  <2>3. CASE \E e \in SeatsOf(seats, s.room) :
               Updated(s)[e].label = s.sent.seats[i].label
    <3>1. PICK e \in SeatsOf(seats, s.room) :
            Updated(s)[e].label = s.sent.seats[i].label
      BY <2>3
    <3>2. /\ e \in SeatIds /\ s.loaded[e] # None
          /\ IF e \in Changed(s) THEN Updated(s)[e].label = EntryOf(s, e).label
             ELSE Updated(s)[e].label = s.loaded[e].label
      BY <1>1, <1>2, InsertsRefused
    <3> QED
      BY <1>1, <3>1, <3>2
  <2> QED
    BY <2>1, <2>2, <2>3
<1> QED
  BY <1>1, <1>3, <1>4 DEF Clashes

(* A list of seats is refused only for its own labels, or because another  *)
(* save wrote a seat of the room in between (space.py:347-373).            *)
THEOREM RefusalsHaveCauses == LayoutSpec => []RefusalNeedsCause
BY LayoutInvariance, RefusalHasCause, PTL
------------------------------------------------------------------------------
(* Only a save changes a seat, one of its own room that it lists.          *)
LEMMA StepLeavesForeignSeats ==
  ASSUME LInv, [LayoutNext]_layoutVars,
         NEW d \in SeatIds, seats[d] # None, seats'[d] # seats[d]
  PROVE  /\ seats'[d] # None /\ seats'[d].room = seats[d].room
         /\ \E r \in Requests :
              /\ request[r] # None /\ request'[r] = None
              /\ request[r].room = seats[d].room
              /\ \E i \in Listed(request[r]) : request[r].sent.seats[i].id = d
<1>1. PICK r \in Requests : SaveLayout(r)
  BY DEF LayoutNext, layoutVars, layout, BeginLayout, LoadSeats, FailLayout,
         AbortLayout
<1>2. request[r] # None /\ request[r] \in LayoutSession
  BY <1>1 DEF LInv, LayoutTypeOK, SaveLayout, Open
<1> DEFINE s == request[r]
<1>3. PICK new \in SUBSET SeatIds :
    /\ Committed(r, {SeatKey(e) : e \in new \cup Changed(s)})
    /\ \A e \in new :
         seats[e] = None /\ seats'[e] \in SeatRow /\ asked'[e] = seats'[e]
    /\ \A e \in Changed(s) \ new :
         /\ seats'[e] = [seats[e] EXCEPT
              !.label = Assign(@, s.loaded[e].label, EntryOf(s, e).label),
              !.place = Assign(@, s.loaded[e].place, EntryOf(s, e).place)]
         /\ asked'[e] = [room |-> s.room, label |-> EntryOf(s, e).label,
                         place |-> EntryOf(s, e).place]
    /\ \A e \in SeatIds \ (new \cup Changed(s)) :
         seats'[e] = seats[e] /\ asked'[e] = asked[e]
    /\ DOMAIN seats' = SeatIds /\ seats' = [e \in SeatIds |-> seats'[e]]
    /\ asked' = [e \in SeatIds |-> asked'[e]]
  BY <1>1, <1>2, SaveFacts
<1>4. d \in Changed(s) \ new
  BY <1>3
<1>5. PICK row : row = seats'[d]
  OBVIOUS
<1>6. row = [seats[d] EXCEPT
               !.label = Assign(@, s.loaded[d].label, EntryOf(s, d).label),
               !.place = Assign(@, s.loaded[d].place, EntryOf(s, d).place)]
  BY <1>3, <1>4, <1>5
<1>7. /\ row \in SeatRow /\ row.room = seats[d].room
      /\ request[r].room = seats[d].room
  BY <1>2, <1>4, <1>6, ChangedSeat
<1>8. request'[r] = None
  BY <1>3 DEF Committed, LInv
<1>9. \E i \in Listed(request[r]) : request[r].sent.seats[i].id = d
  BY <1>4 DEF Changed
<1>10. None \notin SeatRow
  OBVIOUS
<1> QED
  BY <1>2, <1>5, <1>7, <1>8, <1>9, <1>10

(* A save touches no seat of another room and none it does not list, and   *)
(* no seat is ever removed (space.py:347-358).                             *)
THEOREM ForeignSeatsSafe == LayoutSpec => ForeignSeatsUntouched
<1>1. LInv /\ [LayoutNext]_layoutVars =>
      [\A d \in SeatIds : seats[d] # None /\ seats'[d] # seats[d] =>
         /\ seats'[d] # None /\ seats'[d].room = seats[d].room
         /\ \E r \in Requests :
              /\ request[r] # None /\ request'[r] = None
              /\ request[r].room = seats[d].room
              /\ \E i \in Listed(request[r]) :
                   request[r].sent.seats[i].id = d]_layoutVars
  BY StepLeavesForeignSeats, Zenon
<1> QED
  BY <1>1, LayoutInvariance, PTL DEF LayoutSpec, ForeignSeatsUntouched
==============================================================================
