--------------------------- MODULE BookingTheorems ---------------------------
(***************************************************************************)
(* Theorems about Booking and Availability, most of them on the invariant  *)
(* of BookingProofs: requests served one at a time, how a cancelled        *)
(* booking can come back, the slot ledger they implement, what the rows    *)
(* still say after any interleaving, and what a slot listing promises.     *)
(***************************************************************************)
EXTENDS BookingProofs, Availability

(* Every step leaves the ghost variables alone or is a commit. *)
LEMMA StepRaces ==
  ASSUME [Next]_vars
  PROVE  \/ \E r \in Requests : \E S : Committed(r, S)
         \/ UNCHANGED <<raced, races>>
<1>1. CASE \E r \in Requests : BeginRequest(r)
  BY <1>1
  DEF BeginRequest, BeginCreateHold, BeginCreateBooking, BeginRepeatBooking,
      BeginReschedule, BeginCancelBooking, BeginCancelHold, BeginPayment,
      BeginCheckin, LoadBooking, Begin, OpenSession
<1>2. CASE \E r \in Requests : Continue(r) \/ Abort(r)
  BY <1>2
  DEF Continue, ReadBookings, RefuseForBooking, ReadHolds, RefuseForHold,
      CommitCreateHold, CommitCreateBooking, CommitReschedule,
      CommitCancelBooking, CommitCancelHold, CommitPayment, CommitCheckin,
      RefuseSecondCheckin, Abort
<1>3. CASE Tick \/ UNCHANGED vars
  BY <1>3 DEF Tick, vars, sessions
<1> QED
  BY <1>1, <1>2, <1>3 DEF Next

LEMMA LostWritesStay ==
  ASSUME [Next]_vars, NEW x, LostWrite(x)
  PROVE  LostWrite(x)'
BY StepRaces DEF LostWrite, Committed
------------------------------------------------------------------------------
(* With one request open at a time nothing ever races. *)
NothingRaced == (\A r \in Requests : raced[r] = {}) /\ races = {}

LEMMA NothingRacedInv ==
  ASSUME \A q, r \in Requests : q = r, NothingRaced, [Next]_vars
  PROVE  NothingRaced'
<1>1. ASSUME NEW r \in Requests, NEW S, Committed(r, S)
      PROVE  NothingRaced'
  BY <1>1 DEF Committed, NothingRaced
<1>2. CASE UNCHANGED <<raced, races>>
  BY <1>2 DEF NothingRaced
<1> QED
  BY <1>1, <1>2, StepRaces

LEMMA NoRaceNoClash == IInv /\ NothingRaced => NoDoubleBooking
BY DEF IInv, ClashNeedsRace, Raced, LostWrite, NothingRaced, NoDoubleBooking

(* Requests served one at a time never book a slot twice, whatever they    *)
(* ask for: the conflict queries and the hold conversion miss nothing.     *)
THEOREM SerialIsSafe ==
  ASSUME \A q, r \in Requests : q = r
  PROVE  Spec => []NoDoubleBooking
<1>1. Init => NothingRaced
  BY DEF Init, NoRequests, NothingRaced
<1>2. NothingRaced /\ [Next]_vars => NothingRaced'
  BY NothingRacedInv
<1>3. IInv /\ NothingRaced => NoDoubleBooking
  BY NoRaceNoClash
<1> QED
  BY <1>1, <1>2, <1>3, Invariance, PTL DEF Spec
------------------------------------------------------------------------------
(* A commit of a handler that loaded a live booking finds it live, or      *)
(* records a lost write.                                                   *)
LEMMA WriterOfCancelled ==
  ASSUME IInv, NEW r \in Requests, request[r] # None,
         request[r].handler \in WritesLoaded,
         NEW b, b = request[r].target, bookings[b].status = "cancelled",
         NEW S, b \in S, Committed(r, S)
  PROVE  LostWrite(b)'
<1>1. b \in raced[r]
  BY LoadedIsLive DEF LiveBooking, BLOCKING_BOOKING_STATUSES
<1> QED
  BY <1>1, CommitRecordsLostWrites

(* The actions that write the table of bookings. *)
BookingWriter(r) ==
  \/ CommitCreateBooking(r) \/ CommitReschedule(r)
  \/ CommitCancelBooking(r) \/ CommitPayment(r) \/ CommitCheckin(r)

LEMMA WritersOfBookings ==
  ASSUME [Next]_vars, bookings' # bookings
  PROVE  \E r \in Requests : BookingWriter(r)
<1>1. ASSUME NEW r \in Requests, BeginRequest(r)
      PROVE  FALSE
  BY <1>1
  DEF BeginRequest, BeginCreateHold, BeginCreateBooking, BeginRepeatBooking,
      BeginReschedule, BeginCancelBooking, BeginCancelHold, BeginPayment,
      BeginCheckin, LoadBooking, Begin, tables
<1>2. ASSUME NEW r \in Requests, Continue(r) \/ Abort(r)
      PROVE  BookingWriter(r)
  BY <1>2
  DEF Continue, ReadBookings, RefuseForBooking, ReadHolds, RefuseForHold,
      CommitCreateHold, CommitCancelHold, RefuseSecondCheckin, Abort,
      BookingWriter, tables
<1>3. CASE Tick \/ UNCHANGED vars
  BY <1>3 DEF Tick, vars, tables
<1> QED
  BY <1>1, <1>2, <1>3 DEF Next

(* No step brings a cancelled booking back to life but one whose request   *)
(* had loaded it before the cancellation.                                  *)
THEOREM NoRevivalWithoutRace == Spec => RevivalNeedsRace
<1>1. ASSUME IInv, [Next]_vars, NEW b \in BookingIds,
             bookings[b] # None, bookings[b].status = "cancelled",
             bookings'[b].status # "cancelled"
      PROVE  LostWrite(b)'
  <2>1. bookings' # bookings
    BY <1>1
  <2>2. PICK r \in Requests : BookingWriter(r)
    BY <1>1, <2>1, WritersOfBookings
  <2>3. CASE CommitCreateBooking(r)
    <3>1. bookings'[b] = bookings[b]
      BY <1>1, <2>3 DEF CommitCreateBooking, IInv, TypeOK
    <3> QED
      BY <1>1, <3>1
  <2>4. CASE \/ CommitReschedule(r) \/ CommitCancelBooking(r)
             \/ CommitPayment(r) \/ CommitCheckin(r)
    <3>1. request[r] # None /\ request[r].handler \in WritesLoaded
      BY <2>4 DEF CommitReschedule, CommitCancelBooking, CommitPayment,
                  CommitCheckin, Open, WritesLoaded, BookingHandlers
    <3>2. PICK c : c = request[r].target
      OBVIOUS
    <3>3. c \in BookingIds /\ bookings \in [BookingIds -> BookingRow \cup {None}]
      BY <1>1, <3>1, <3>2, TargetTypes DEF IInv, TypeOK
    <3>5. \/ bookings' = bookings
          \/ /\ Committed(r, {c})
             /\ \E row : bookings' = [bookings EXCEPT ![c] = row]
      <4>1. CASE CommitReschedule(r)
        BY <3>2, <4>1 DEF CommitReschedule
      <4>2. CASE CommitCancelBooking(r)
        BY <3>2, <4>2 DEF CommitCancelBooking
      <4>3. CASE CommitPayment(r)
        BY <3>2, <4>3 DEF CommitPayment
      <4>4. CASE CommitCheckin(r)
        BY <3>2, <4>4 DEF CommitCheckin
      <4> QED
        BY <2>4, <4>1, <4>2, <4>3, <4>4
    <3>4. c = b /\ Committed(r, {c})
      BY <1>1, <2>1, <3>3, <3>5
    <3> QED
      BY <1>1, <3>1, <3>2, <3>4, WriterOfCancelled
  <2> QED
    BY <2>2, <2>3, <2>4 DEF BookingWriter
<1>2. IInv /\ [Next]_vars =>
        [\A b \in BookingIds :
           bookings[b] # None /\ bookings[b].status = "cancelled"
             => bookings'[b].status = "cancelled" \/ LostWrite(b)']_vars
  BY <1>1
<1> QED
  BY <1>2, Invariance, PTL DEF Spec, RevivalNeedsRace
------------------------------------------------------------------------------
(* The tables as a ledger of claims: what a row that takes its slot shows. *)
Shows(x) ==
  /\ ~Claim(x) => claims[x] = None
  /\ Claim(x) => /\ claims[x] # None
                 /\ claims[x] = [ctx |-> Row(x).ctx, start |-> Row(x).start,
                                 end |-> Row(x).end]
                 /\ claims[x].ctx = Row(x).ctx
                 /\ claims[x].start = Row(x).start
                 /\ claims[x].end = Row(x).end

ClaimsAreShown == \A x \in Ids : Shows(x)

LEMMA ClaimsShow == TypeOK => ClaimsAreShown
<1> SUFFICES ASSUME TypeOK, NEW x \in Ids PROVE Shows(x)
  BY DEF ClaimsAreShown
<1>1. CASE Claim(x)
  <2>1. Row(x) \in BookingRow \cup HoldRow
    BY <1>1 DEF Claim, Row, LiveBooking, HoldBlocks, TypeOK, Ids
  <2>2. PICK row \in BookingRow \cup HoldRow : row = Row(x)
    BY <2>1
  <2>3. PICK slot : slot = [ctx |-> row.ctx, start |-> row.start, end |-> row.end]
    OBVIOUS
  <2>4. slot \in Slot
    BY <2>3 DEF Slot, BookingRow, HoldRow
  <2>5. claims[x] = slot
    BY <1>1, <2>2, <2>3 DEF claims
  <2> QED
    BY <1>1, <2>2, <2>3, <2>4, <2>5, BookingAssumption DEF Shows
<1>2. CASE ~Claim(x)
  BY <1>2 DEF claims, Shows
<1> QED
  BY <1>1, <1>2

LEMMA ClaimsAreFunction ==
  /\ claims = [x \in Ids |-> claims[x]]
  /\ claims' = [x \in Ids |-> claims'[x]]
BY DEF claims

LEMMA SameWords ==
  ASSUME NEW c, NEW d
  PROVE  /\ Ledger!SharesSpace(c, d) <=> SharesSpace(c, d)
         /\ Ledger!Overlaps(c, d) <=> Overlaps(c, d)
BY DEF Ledger!SharesSpace, SharesSpace, Ledger!Overlaps, Overlaps

(* A step that changes at most one claim, and not to another resource, is  *)
(* one of the ledger, as no two claims clash after it.                     *)
LEMMA OneClaimChanges ==
  ASSUME TypeOK', NoDoubleBooking', NEW x \in Ids,
         \A y \in Ids \ {x} : claims'[y] = claims[y],
         claims[x] # None /\ claims'[x] # None => claims'[x].ctx = claims[x].ctx
  PROVE  Ledger!LedgerNext
<1>1. claims' = [claims EXCEPT ![x] = claims'[x]]
  BY ClaimsAreFunction
<1>2. ClaimsAreShown'
  BY ClaimsShow, PTL
<1>3. PICK slot : slot = claims'[x]
  OBVIOUS
<1>4. ASSUME slot # None PROVE Ledger!Free(slot, {x})
  <2> SUFFICES ASSUME NEW y \in Ids \ {x}, claims[y] # None
               PROVE  ~(Ledger!SharesSpace(slot.ctx, claims[y].ctx)
                          /\ Ledger!Overlaps(slot, claims[y]))
    BY DEF Ledger!Free
  <2>1. Shows(x)' /\ Shows(y)'
    BY <1>2 DEF ClaimsAreShown
  <2>2. Claim(x)' /\ Claim(y)' /\ ~Clash(x, y)'
    BY <1>3, <1>4, <2>1 DEF NoDoubleBooking, Shows
  <2>3. ~(SharesSpace(slot.ctx, claims[y].ctx) /\ Overlaps(slot, claims[y]))
    BY <1>3, <2>1, <2>2 DEF Clash, Shows, Overlaps
  <2> QED
    BY <2>3, SameWords
<1>5. CASE slot = None
  <2>1. claims' = [y \in Ids |-> IF y \in {x} THEN None ELSE claims[y]]
    BY <1>3, <1>5, ClaimsAreFunction
  <2> QED
    BY <2>1 DEF Ledger!LedgerNext, Ledger!Release
<1>6. CASE slot # None /\ claims[x] = None
  BY <1>1, <1>3, <1>4, <1>6 DEF Ledger!LedgerNext, Ledger!Take
<1>7. CASE slot # None /\ claims[x] # None
  BY <1>1, <1>3, <1>4, <1>7 DEF Ledger!LedgerNext, Ledger!Move
<1> QED
  BY <1>5, <1>6, <1>7
(* A row that is as it was has the claim it had. *)
LEMMA SameRowSameClaim ==
  ASSUME NEW y \in Ids, clock' = clock,
         y \in BookingIds => bookings'[y] = bookings[y],
         y \in HoldIds => holds'[y] = holds[y]
  PROVE  claims'[y] = claims[y]
<1>1. (Claim(y)' <=> Claim(y)) /\ Row(y)' = Row(y)
  BY DEF Claim, Row, LiveBooking, HoldBlocks, Ids
<1> QED
  BY <1>1 DEF claims

LEMMA WritersOfClaims ==
  ASSUME [Next]_vars
  PROVE  \/ UNCHANGED <<clock, bookings, holds>>
         \/ Tick
         \/ \E r \in Requests : \/ BookingWriter(r)
                                \/ CommitCreateHold(r) \/ CommitCancelHold(r)
<1>1. ASSUME NEW r \in Requests, BeginRequest(r)
      PROVE  UNCHANGED <<clock, bookings, holds>>
  BY <1>1
  DEF BeginRequest, BeginCreateHold, BeginCreateBooking, BeginRepeatBooking,
      BeginReschedule, BeginCancelBooking, BeginCancelHold, BeginPayment,
      BeginCheckin, LoadBooking, Begin, tables
<1>2. ASSUME NEW r \in Requests, Continue(r) \/ Abort(r)
      PROVE  \/ UNCHANGED <<clock, bookings, holds>>
             \/ BookingWriter(r) \/ CommitCreateHold(r) \/ CommitCancelHold(r)
  BY <1>2
  DEF Continue, ReadBookings, RefuseForBooking, ReadHolds, RefuseForHold,
      RefuseSecondCheckin, Abort, BookingWriter, tables
<1>3. CASE UNCHANGED vars
  BY <1>3 DEF vars, tables
<1> QED
  BY <1>1, <1>2, <1>3 DEF Next

(* Holds run out, any number of them at once. *)
LEMMA TickReleases ==
  ASSUME TypeOK, Tick
  PROVE  Ledger!LedgerNext
<1>1. /\ UNCHANGED <<bookings, holds>> /\ clock \in Nat /\ clock' = clock + 1
  BY BookingAssumption DEF Tick, tables, TypeOK
<1>2. ASSUME NEW x \in Ids, Claim(x)' PROVE Claim(x) /\ Row(x)' = Row(x)
  <2>1. x \in HoldIds /\ holds[x] # None => holds[x].expires \in Nat
    BY DEF TypeOK, HoldRow
  <2> QED
    BY <1>1, <1>2, <2>1 DEF Claim, Row, LiveBooking, HoldBlocks, Ids
<1>3. PICK gone \in SUBSET Ids : gone = {x \in Ids : ~Claim(x)'}
  OBVIOUS
<1>4. \A x \in Ids : claims'[x] = IF x \in gone THEN None ELSE claims[x]
  BY <1>2, <1>3 DEF claims
<1>5. claims' = [x \in Ids |-> IF x \in gone THEN None ELSE claims[x]]
  BY <1>4, ClaimsAreFunction
<1> QED
  BY <1>3, <1>5 DEF Ledger!LedgerNext, Ledger!Release

LEMMA HoldWritersStep ==
  ASSUME IInv, TypeOK', NoDoubleBooking', NEW r \in Requests,
         CommitCreateHold(r) \/ CommitCancelHold(r)
  PROVE  Ledger!LedgerNext
<1>1. TypeOK /\ ClaimsAreShown /\ ClaimsAreShown'
  BY ClaimsShow, PTL DEF IInv
<1>2. PICK h \in HoldIds :
        /\ \A g \in HoldIds \ {h} : holds'[g] = holds[g]
        /\ UNCHANGED <<clock, bookings>>
        /\ holds[h] = None \/ holds'[h].status = "cancelled"
  <2>1. CASE CommitCreateHold(r)
    BY <1>1, <2>1 DEF CommitCreateHold, TypeOK
  <2>2. CASE CommitCancelHold(r)
    <3>1. PICK s \in Session : s = request[r] /\ s # None /\ s.handler = "cancel_hold"
      BY <1>1, <2>2 DEF CommitCancelHold, Open, TypeOK
    <3>2. s.target \in HoldIds /\ holds[s.target] # None
      BY <3>1 DEF IInv, SessionsLinked, Linked
    <3>3. holds[s.target] \in HoldRow
      BY <1>1, <3>2 DEF TypeOK
    <3>4. /\ holds' = [holds EXCEPT ![s.target].status = "cancelled"]
          /\ UNCHANGED <<clock, bookings>>
      BY <2>2, <3>1 DEF CommitCancelHold
    <3>5. /\ holds'[s.target].status = "cancelled"
          /\ \A g \in HoldIds \ {s.target} : holds'[g] = holds[g]
      BY <1>1, <3>2, <3>3, <3>4 DEF TypeOK, HoldRow
    <3> QED
      BY <3>2, <3>4, <3>5
  <2> QED
    BY <2>1, <2>2
<1>3. \A y \in Ids \ {h} : claims'[y] = claims[y]
  BY <1>1, <1>2, SameRowSameClaim, BookingAssumption DEF TypeOK
<1>4. claims[h] = None \/ claims'[h] = None
  <2>1. h \in Ids /\ h \notin BookingIds
    BY BookingAssumption DEF Ids
  <2>2. holds[h] = None => ~Claim(h)
    BY <2>1 DEF Claim, HoldBlocks
  <2>3. holds'[h].status = "cancelled" => ~Claim(h)'
    BY <2>1 DEF Claim, HoldBlocks, BLOCKING_HOLD_STATUSES
  <2> QED
    BY <1>1, <1>2, <2>1, <2>2, <2>3 DEF ClaimsAreShown, Shows
<1> QED
  BY <1>3, <1>4, OneClaimChanges DEF Ids

(* The handlers that write the booking they loaded keep its resource. *)
LEMMA BookingWritersStep ==
  ASSUME IInv, TypeOK', NoDoubleBooking', NEW r \in Requests,
         \/ CommitReschedule(r) \/ CommitCancelBooking(r)
         \/ CommitPayment(r) \/ CommitCheckin(r)
  PROVE  Ledger!LedgerNext
<1>1. TypeOK /\ ClaimsAreShown /\ ClaimsAreShown'
  BY ClaimsShow, PTL DEF IInv
<1>2. request[r] # None /\ request[r].handler \in WritesLoaded
  BY DEF CommitReschedule, CommitCancelBooking, CommitPayment, CommitCheckin, Open,
         WritesLoaded, BookingHandlers
<1>3. PICK s \in Session : s = request[r]
  BY <1>2, TargetTypes
<1>4. PICK b \in BookingIds : b = s.target
  BY <1>2, <1>3, TargetTypes
<1>5. bookings[b] \in BookingRow /\ bookings[b] # None
  BY <1>2, <1>3, <1>4, TargetTypes
<1>6. /\ \A a \in BookingIds \ {b} : bookings'[a] = bookings[a]
      /\ bookings'[b].ctx = bookings[b].ctx
      /\ UNCHANGED <<clock, holds>>
  <2>1. CASE CommitReschedule(r)
    <3>1. PICK old \in BookingRow : old = bookings[b]
      BY <1>5
    <3>2. PICK status : status = IF s.requires_payment THEN "pending" ELSE "confirmed"
      OBVIOUS
    <3>3. PICK row : row = [old EXCEPT !.start = Assign(@, s.loaded.start, s.start),
                                       !.end = Assign(@, s.loaded.end, s.end),
                                       !.status = Assign(@, s.loaded.status, status)]
      OBVIOUS
    <3>4. /\ bookings' = [bookings EXCEPT ![b] = row]
          /\ row.ctx = old.ctx
      BY <1>3, <1>4, <2>1, <3>1, <3>2, <3>3 DEF CommitReschedule, BookingRow
    <3>5. UNCHANGED <<clock, holds>>
      BY <2>1 DEF CommitReschedule
    <3> QED
      BY <1>1, <3>1, <3>4, <3>5 DEF TypeOK
  <2>2. CASE CommitCancelBooking(r)
    BY <1>1, <1>3, <1>4, <1>5, <2>2 DEF CommitCancelBooking, TypeOK, BookingRow
  <2>3. CASE CommitPayment(r)
    BY <1>1, <1>3, <1>4, <1>5, <2>3 DEF CommitPayment, TypeOK, BookingRow
  <2>4. CASE CommitCheckin(r)
    BY <1>1, <1>3, <1>4, <1>5, <2>4 DEF CommitCheckin, TypeOK, BookingRow
  <2> QED
    BY <2>1, <2>2, <2>3, <2>4
<1>7. \A y \in Ids \ {b} : claims'[y] = claims[y]
  BY <1>6, SameRowSameClaim
<1>8. claims[b] # None /\ claims'[b] # None => claims'[b].ctx = claims[b].ctx
  <2>1. b \in Ids /\ Row(b)' = bookings'[b] /\ Row(b) = bookings[b]
    BY DEF Ids, Row
  <2> QED
    BY <1>1, <1>6, <2>1 DEF ClaimsAreShown, Shows
<1> QED
  BY <1>7, <1>8, OneClaimChanges DEF Ids

(* A booking takes over the slot of the hold it was made from, if that is  *)
(* still in force, and takes a free slot otherwise.                        *)
LEMMA CreateBookingStep ==
  ASSUME IInv, TypeOK', NoDoubleBooking', NEW r \in Requests, CommitCreateBooking(r)
  PROVE  Ledger!LedgerNext
<1>1. TypeOK /\ ClaimsAreShown /\ ClaimsAreShown'
  BY ClaimsShow, PTL DEF IInv
<1>2. PICK s \in Session : s = request[r] /\ s # None
  BY <1>1 DEF CommitCreateBooking, Open, TypeOK
<1>3. PICK status \in {"pending", "confirmed"} :
        status = IF s.requires_payment THEN "pending" ELSE "confirmed"
  OBVIOUS
<1>4. PICK row : row = [user |-> s.user, ctx |-> s.ctx, start |-> s.start, end |-> s.end,
                        status |-> status, hold |-> s.hold]
  OBVIOUS
<1>5. PICK b \in BookingIds :
        /\ bookings[b] = None
        /\ bookings' = [bookings EXCEPT ![b] = row]
        /\ holds' = [h \in HoldIds |->
             IF h = s.hold THEN [holds[h] EXCEPT !.status = "converted"]
             ELSE holds[h]]
        /\ clock' = clock
  BY <1>2, <1>3, <1>4 DEF CommitCreateBooking
<1>6. /\ bookings'[b] = row /\ \A a \in BookingIds \ {b} : bookings'[a] = bookings[a]
      /\ \A h \in HoldIds \ {s.hold} : holds'[h] = holds[h]
  BY <1>1, <1>5 DEF TypeOK
<1>7. b \in Ids /\ claims[b] = None
  BY <1>1, <1>5 DEF ClaimsAreShown, Shows, Claim, LiveBooking, Ids
<1>8. \A y \in Ids \ {b, s.hold} : claims'[y] = claims[y]
  BY <1>5, <1>6, SameRowSameClaim
<1>9. CASE s.hold \notin HoldIds
  <2>1. \A y \in Ids \ {b} : claims'[y] = claims[y]
    BY <1>5, <1>6, <1>9, SameRowSameClaim
  <2> QED
    BY <1>7, <2>1, OneClaimChanges
<1>10. ASSUME NEW h \in HoldIds, h = s.hold PROVE Ledger!LedgerNext
  <2>1. /\ holds[h] # None /\ holds[h].ctx = s.ctx
        /\ holds[h].start = s.start /\ holds[h].end = s.end
    BY <1>2, <1>10, BookingAssumption DEF IInv, SessionsLinked, Linked
  <2>2. holds[h] \in HoldRow /\ h \in Ids /\ h \notin BookingIds /\ h # b
    BY <1>1, <2>1, BookingAssumption DEF TypeOK, Ids
  <2>3. holds'[h].status = "converted"
    BY <1>5, <1>10, <2>2 DEF HoldRow
  <2>4. claims'[h] = None
    <3>1. ~Claim(h)'
      BY <2>2, <2>3 DEF Claim, HoldBlocks, BLOCKING_HOLD_STATUSES
    <3> QED
      BY <1>1, <2>2, <3>1 DEF ClaimsAreShown, Shows
  <2>5. CASE claims[h] = None
    <3>1. \A y \in Ids \ {b} : claims'[y] = claims[y]
      BY <1>8, <1>10, <2>4, <2>5
    <3> QED
      BY <1>7, <3>1, OneClaimChanges
  <2>6. CASE claims[h] # None
    <3>1. claims[h] = [ctx |-> s.ctx, start |-> s.start, end |-> s.end]
      BY <1>1, <2>1, <2>2, <2>6 DEF ClaimsAreShown, Shows, Row
    <3>2. claims'[b] = [ctx |-> s.ctx, start |-> s.start, end |-> s.end]
      <4>1. /\ row.ctx = s.ctx /\ row.start = s.start /\ row.end = s.end
            /\ row.status \in BLOCKING_BOOKING_STATUSES
        BY <1>3, <1>4 DEF BLOCKING_BOOKING_STATUSES
      <4>2. row # None
        BY <1>2, <1>3, <1>4, BookingAssumption DEF BookingRow, BookingStatus, Session
      <4>3. Claim(b)' /\ Row(b)' = row
        BY <1>6, <4>1, <4>2 DEF Claim, Row, LiveBooking
      <4> QED
        BY <1>1, <1>7, <4>1, <4>3 DEF ClaimsAreShown, Shows
    <3>3. claims' = [claims EXCEPT ![h] = None, ![b] = claims[h]]
      BY <1>7, <1>8, <1>10, <2>2, <2>4, <3>1, <3>2, ClaimsAreFunction
    <3> QED
      BY <1>7, <2>2, <2>6, <3>3 DEF Ledger!LedgerNext, Ledger!TakeOver
  <2> QED
    BY <2>5, <2>6
<1> QED
  BY <1>9, <1>10

LEMMA LedgerStep ==
  ASSUME IInv, TypeOK', NoDoubleBooking', [Next]_vars
  PROVE  [Ledger!LedgerNext]_claims
<1>1. CASE UNCHANGED <<clock, bookings, holds>>
  <2>1. \A y \in Ids : claims'[y] = claims[y]
    BY <1>1, SameRowSameClaim
  <2> QED
    BY <2>1, ClaimsAreFunction
<1>2. CASE Tick
  BY <1>2, TickReleases DEF IInv
<1>3. ASSUME NEW r \in Requests,
             BookingWriter(r) \/ CommitCreateHold(r) \/ CommitCancelHold(r)
      PROVE  Ledger!LedgerNext
  BY <1>3, HoldWritersStep, BookingWritersStep, CreateBookingStep DEF BookingWriter
<1> QED
  BY <1>1, <1>2, <1>3, WritersOfClaims

(* Served one at a time, the handlers are what SlotLedger says the service *)
(* is: every slot they take or move to is free, and a hold is handed over  *)
(* to its booking in one step.                                             *)
THEOREM SerialImplementsLedger ==
  ASSUME \A q, r \in Requests : q = r
  PROVE  Spec => ImplementsLedger
<1>1. Init => NothingRaced
  BY DEF Init, NoRequests, NothingRaced
<1>2. NothingRaced /\ [Next]_vars => NothingRaced'
  BY NothingRacedInv
<1>3. Spec => []NothingRaced
  BY <1>1, <1>2, PTL DEF Spec
<1>4. IInv /\ NothingRaced => TypeOK /\ NoDoubleBooking
  BY NoRaceNoClash DEF IInv
<1>5. Spec => []IInv /\ []TypeOK /\ []NoDoubleBooking
  BY <1>3, <1>4, Invariance, PTL
<1>6. IInv /\ TypeOK' /\ NoDoubleBooking' /\ [Next]_vars => [Ledger!LedgerNext]_claims
  BY LedgerStep
<1>7. Spec => [][Ledger!LedgerNext]_claims
  BY <1>5, <1>6, PTL DEF Spec
<1>8. Init => Ledger!LedgerInit
  <2> SUFFICES ASSUME Init PROVE claims = [x \in Ids |-> None]
    BY DEF Ledger!LedgerInit
  <2>1. \A x \in Ids : ~Claim(x)
    BY DEF Init, Claim, LiveBooking, HoldBlocks, Ids
  <2> QED
    BY <2>1 DEF claims
<1>9. Spec => Ledger!LedgerInit
  BY <1>8, PTL DEF Spec
<1> QED
  BY <1>7, <1>9 DEF ImplementsLedger, Ledger!LedgerSpec
------------------------------------------------------------------------------
(* What the rows still say after any interleaving.  A checked-in booking,   *)
(* a confirmed one, a converted hold, and a window are what they should be  *)
(* unless two requests wrote the same row at once.                          *)
BookingMakers == {"create_booking", "repeat_booking", "reschedule_booking"}

(* What an open request was told when it was let in, and what only the     *)
(* constants can change: the window was checked against the rule that also *)
(* says whether a payment is due, and only bookings that are not checked   *)
(* in are moved.                                                           *)
Admitted(s) ==
  /\ s.handler = "reschedule_booking" => s.loaded.status \in {"pending", "confirmed"}
  /\ s.handler \in BookingMakers =>
       \E rule \in ResolvableRules(s.ctx) :
         /\ AllowedWindow(s.ctx, s, rule)
         /\ s.requires_payment = RequiresPayment(rule)

SessionsAdmitted == \A r \in Requests : request[r] # None => Admitted(request[r])

(* A booking made from the hold an open request presents is younger than   *)
(* the request.                                                            *)
SessionsHold ==
  \A r \in Requests : request[r] # None /\ request[r].hold # None =>
    \A a \in BookingIds :
      bookings[a] # None /\ bookings[a].hold = request[r].hold => a \in raced[r]

(* A hold that a booking was made from is never in force again. *)
HoldsSpent ==
  \A b \in BookingIds : bookings[b] # None /\ bookings[b].hold # None =>
    holds[bookings[b].hold].status # "pending"

RowsExist == \A b \in paid \cup checkins : bookings[b] # None

RInv ==
  /\ SessionsAdmitted
  /\ SessionsHold
  /\ HoldsSpent
  /\ RowsExist
  /\ CheckinSticks
  /\ ConfirmedIsPaid
  /\ HoldUsedOnce
  /\ TornWindowNeedsRace

USE DEF Ids
------------------------------------------------------------------------------
LEMMA InitRows == Init => RInv
<1> SUFFICES ASSUME Init PROVE RInv
  OBVIOUS
<1> USE DEF Init, NoRequests
<1>1. SessionsAdmitted /\ SessionsHold
  BY DEF SessionsAdmitted, SessionsHold
<1>2. HoldsSpent /\ RowsExist /\ CheckinSticks /\ ConfirmedIsPaid
  BY DEF HoldsSpent, RowsExist, CheckinSticks, ConfirmedIsPaid
<1>3. HoldUsedOnce /\ TornWindowNeedsRace
  BY DEF HoldUsedOnce, TornWindowNeedsRace
<1> QED
  BY <1>1, <1>2, <1>3 DEF RInv

(* A window is allowed by its two ends. *)
LEMMA SameWindow ==
  ASSUME NEW c, NEW w, NEW v, NEW rule, w.start = v.start, w.end = v.end
  PROVE  AllowedWindow(c, w, rule) <=> AllowedWindow(c, v, rule)
BY DEF AllowedWindow, WithinHours

(* Steps that leave the tables alone. *)
LEMMA TablesSame ==
  ASSUME RInv, UNCHANGED tables, races \subseteq races'
  PROVE  /\ HoldsSpent' /\ RowsExist' /\ CheckinSticks' /\ ConfirmedIsPaid'
         /\ HoldUsedOnce' /\ TornWindowNeedsRace'
<1>1. UNCHANGED <<bookings, holds, paid, checkins>>
  BY DEF tables
<1>2. HoldsSpent' /\ RowsExist'
  BY <1>1 DEF RInv, HoldsSpent, RowsExist
<1>3. CheckinSticks' /\ ConfirmedIsPaid'
  BY <1>1 DEF RInv, CheckinSticks, ConfirmedIsPaid, LostWrite
<1>4. HoldUsedOnce'
  BY <1>1 DEF RInv, HoldUsedOnce, LostWrite, Raced
<1>5. TornWindowNeedsRace'
  BY <1>1 DEF RInv, TornWindowNeedsRace, LostWrite
<1> QED
  BY <1>2, <1>3, <1>4, <1>5

(* A request that begins was admitted, and the hold it presents is unspent. *)
LEMMA BeginAdmitted ==
  ASSUME TypeOK, NEW r \in Requests, BeginRequest(r)
  PROVE  \E s : /\ Begin(r, s) /\ Admitted(s)
                /\ s.hold # None => s.hold \in HoldIds /\ holds[s.hold].status = "pending"
<1> USE DEF BookingMakers
<1>1. CASE BeginCreateHold(r)
  <2>1. PICK u \in Users, c \in Contexts, w \in Windows :
          \E rule \in ResolvableRules(c) : Begin(r, CreateHoldSession(u, c, w, rule))
    BY <1>1 DEF BeginCreateHold
  <2>2. PICK rule \in ResolvableRules(c) : Begin(r, CreateHoldSession(u, c, w, rule))
    BY <2>1
  <2>3. PICK s : s = CreateHoldSession(u, c, w, rule)
    OBVIOUS
  <2>4. Admitted(s) /\ s.hold = None
    BY <2>3 DEF Admitted, CreateHoldSession
  <2> QED
    BY <2>2, <2>3, <2>4
<1>2. CASE BeginCreateBooking(r)
  <2>1. PICK u \in Users, c \in Contexts, w \in Windows, h \in HoldIds \cup {None} :
          \E rule \in ResolvableRules(c) :
            /\ ValidWindow(c, w, clock, rule)
            /\ h # None => ValidHold(h, u, c, w)
            /\ Begin(r, CreateBookingSession(u, c, w, h, rule))
    BY <1>2 DEF BeginCreateBooking
  <2>2. PICK rule \in ResolvableRules(c) :
          /\ ValidWindow(c, w, clock, rule)
          /\ h # None => ValidHold(h, u, c, w)
          /\ Begin(r, CreateBookingSession(u, c, w, h, rule))
    BY <2>1
  <2>3. PICK s : s = CreateBookingSession(u, c, w, h, rule)
    OBVIOUS
  <2>4. /\ s.handler = "create_booking" /\ s.ctx = c /\ s.hold = h
        /\ s.start = w.start /\ s.end = w.end
        /\ s.requires_payment = RequiresPayment(rule)
    BY <2>3 DEF CreateBookingSession
  <2>5. AllowedWindow(c, s, rule)
    BY <2>2, <2>4, SameWindow DEF ValidWindow
  <2>6. Admitted(s)
    BY <2>4, <2>5 DEF Admitted
  <2>7. s.hold # None => s.hold \in HoldIds /\ holds[s.hold].status = "pending"
    BY <2>2, <2>4 DEF ValidHold
  <2> QED
    BY <2>2, <2>3, <2>6, <2>7
<1>3. ASSUME BeginRepeatBooking(r) \/ BeginReschedule(r)
      PROVE  \E s : Begin(r, s) /\ Admitted(s) /\ s.hold = None
  <2>1. PICK handler \in {"repeat_booking", "reschedule_booking"},
             u \in Users, b \in BookingIds, w \in Windows :
          \E rule \in ResolvableRules(bookings[b].ctx) :
            /\ handler = "reschedule_booking" =>
                 bookings[b].status \in {"pending", "confirmed"}
            /\ ValidWindow(bookings[b].ctx, w, clock, rule)
            /\ Begin(r, LoadedSlotSession(handler, u, b, w, rule))
    BY <1>3 DEF BeginRepeatBooking, BeginReschedule
  <2>2. PICK rule \in ResolvableRules(bookings[b].ctx) :
          /\ handler = "reschedule_booking" =>
               bookings[b].status \in {"pending", "confirmed"}
          /\ ValidWindow(bookings[b].ctx, w, clock, rule)
          /\ Begin(r, LoadedSlotSession(handler, u, b, w, rule))
    BY <2>1
  <2>3. PICK s : s = LoadedSlotSession(handler, u, b, w, rule)
    OBVIOUS
  <2>4. /\ s.handler = handler /\ s.ctx = bookings[b].ctx /\ s.hold = None
        /\ s.start = w.start /\ s.end = w.end /\ s.loaded = bookings[b]
        /\ s.requires_payment = RequiresPayment(rule)
    BY <2>3 DEF LoadedSlotSession
  <2>5. AllowedWindow(bookings[b].ctx, s, rule)
    BY <2>2, <2>4, SameWindow DEF ValidWindow
  <2>6. Admitted(s)
    BY <2>2, <2>4, <2>5 DEF Admitted
  <2> QED
    BY <2>2, <2>3, <2>4, <2>6
<1>4. ASSUME BeginCancelBooking(r) \/ BeginPayment(r) \/ BeginCheckin(r) \/ BeginCancelHold(r)
      PROVE  \E s : Begin(r, s) /\ Admitted(s) /\ s.hold = None
  <2>1. PICK handler \in StatusHandlers : \E u, x, row :
          Begin(r, StatusSession(handler, u, x, row))
    BY <1>4 DEF BeginCancelBooking, BeginPayment, BeginCheckin, LoadBooking,
                BeginCancelHold, StatusHandlers
  <2>2. PICK u, x, row : Begin(r, StatusSession(handler, u, x, row))
    BY <2>1
  <2>3. PICK s : s = StatusSession(handler, u, x, row)
    OBVIOUS
  <2>4. Admitted(s) /\ s.hold = None
    BY <2>3 DEF Admitted, StatusSession, StatusHandlers
  <2> QED
    BY <2>2, <2>3, <2>4
<1> QED
  BY <1>1, <1>2, <1>3, <1>4 DEF BeginRequest

LEMMA BeginRows ==
  ASSUME IInv, RInv, NEW r \in Requests, BeginRequest(r)
  PROVE  RInv'
<1>1. PICK s : /\ Begin(r, s) /\ Admitted(s)
               /\ s.hold # None => s.hold \in HoldIds /\ holds[s.hold].status = "pending"
  BY BeginAdmitted DEF IInv
<1>2. /\ request' = [request EXCEPT ![r] = s]
      /\ UNCHANGED <<tables, raced, races>>
  BY <1>1 DEF Begin, OpenSession
<1>3. \A q \in Requests : request'[q] = IF q = r THEN s ELSE request[q]
  BY <1>2 DEF IInv, TypeOK
<1>4. SessionsAdmitted'
  BY <1>1, <1>3 DEF RInv, SessionsAdmitted, Admitted
<1>5. SessionsHold'
  <2> SUFFICES ASSUME NEW q \in Requests, request'[q] # None, request'[q].hold # None,
                      NEW a \in BookingIds, bookings'[a] # None,
                      bookings'[a].hold = request'[q].hold
               PROVE  a \in raced'[q]
    BY DEF SessionsHold
  <2>1. bookings' = bookings /\ raced' = raced
    BY <1>2 DEF tables
  <2>2. CASE q = r
    BY <1>1, <1>3, <2>1, <2>2 DEF RInv, HoldsSpent
  <2>3. CASE q # r
    BY <1>3, <2>1, <2>3 DEF RInv, SessionsHold
  <2> QED
    BY <2>2, <2>3
<1> QED
  BY <1>2, <1>4, <1>5, TablesSame DEF RInv

LEMMA QueryRows ==
  ASSUME IInv, RInv, NEW r \in Requests, ReadBookings(r) \/ ReadHolds(r)
  PROVE  RInv'
<1>1. PICK s \in Session : s = request[r] /\ s # None
  BY DEF ReadBookings, ReadHolds, IInv, TypeOK
<1>2. PICK n : /\ request' = [request EXCEPT ![r] = n]
               /\ \E p, t : n = [s EXCEPT !.pc = p, !.at = t]
  <2>1. CASE ReadBookings(r)
    <3>1. PICK n : n = [s EXCEPT !.pc = "holds", !.at = clock]
      OBVIOUS
    <3>2. request' = [request EXCEPT ![r] = n]
      BY <1>1, <2>1, <3>1 DEF ReadBookings, IInv, TypeOK
    <3> QED
      BY <3>1, <3>2
  <2>2. CASE ReadHolds(r)
    <3>1. PICK n : n = [s EXCEPT !.pc = "commit", !.at = 0]
      OBVIOUS
    <3>2. request' = [request EXCEPT ![r] = n]
      BY <1>1, <2>2, <3>1 DEF ReadHolds, IInv, TypeOK
    <3> QED
      BY <3>1, <3>2
  <2> QED
    BY <2>1, <2>2
<1>3. /\ n.handler = s.handler /\ n.ctx = s.ctx /\ n.start = s.start
      /\ n.end = s.end /\ n.hold = s.hold /\ n.loaded = s.loaded
      /\ n.requires_payment = s.requires_payment
  BY <1>2 DEF Session
<1>4. UNCHANGED <<tables, raced, races>>
  BY DEF ReadBookings, ReadHolds
<1>5. \A q \in Requests : request'[q] = IF q = r THEN n ELSE request[q]
  BY <1>2 DEF IInv, TypeOK
<1>6. Admitted(n)
  <2>1. Admitted(s)
    BY <1>1 DEF RInv, SessionsAdmitted
  <2>2. \A c, rule : AllowedWindow(c, n, rule) <=> AllowedWindow(c, s, rule)
    BY <1>3, SameWindow
  <2> QED
    BY <1>3, <2>1, <2>2 DEF Admitted
<1>7. SessionsAdmitted'
  BY <1>5, <1>6 DEF RInv, SessionsAdmitted, Admitted
<1>8. SessionsHold'
  BY <1>1, <1>3, <1>4, <1>5 DEF RInv, SessionsHold, tables
<1> QED
  BY <1>4, <1>7, <1>8, TablesSame DEF RInv

(* What a commit leaves of the other sessions: it makes no booking, or     *)
(* leaves word of the one it makes.                                        *)
LEMMA CommitRows ==
  ASSUME IInv, RInv, NEW r \in Requests, NEW S, Committed(r, S),
         \A a \in BookingIds : bookings'[a] # None =>
           a \in S \/ (bookings[a] # None /\ bookings'[a].hold = bookings[a].hold)
  PROVE  SessionsAdmitted' /\ SessionsHold'
<1>1. ASSUME NEW q \in Requests, request'[q] # None
      PROVE  /\ request'[q] = request[q] /\ request[q] # None
             /\ raced'[q] = raced[q] \cup S
  BY <1>1 DEF IInv, TypeOK, Committed
<1>2. SessionsAdmitted'
  BY <1>1 DEF RInv, SessionsAdmitted, Admitted
<1>3. SessionsHold'
  BY <1>1 DEF RInv, SessionsHold
<1> QED
  BY <1>2, <1>3

(* A request that ends without writing, and the passing of time. *)
LEMMA QuietRows ==
  ASSUME IInv, RInv, UNCHANGED tables,
         \/ \E r \in Requests : Committed(r, {})
         \/ UNCHANGED sessions
  PROVE  RInv'
<1>1. CASE \E r \in Requests : Committed(r, {})
  <2>1. PICK r \in Requests : Committed(r, {})
    BY <1>1
  <2>2. SessionsAdmitted' /\ SessionsHold'
    BY <2>1, CommitRows DEF tables
  <2>3. races \subseteq races'
    BY <2>1 DEF Committed
  <2> QED
    BY <2>2, <2>3, TablesSame DEF RInv
<1>2. CASE UNCHANGED sessions
  <2>1. SessionsAdmitted' /\ SessionsHold'
    BY <1>2 DEF sessions, tables, RInv, SessionsAdmitted, Admitted, SessionsHold
  <2> QED
    BY <1>2, <2>1, TablesSame DEF RInv, sessions
<1> QED
  BY <1>1, <1>2
------------------------------------------------------------------------------
(* A commit that writes one booking it loaded, and not its owner, context  *)
(* or hold.  What is left to show is what the new row says.                *)
LEMMA WriteRows ==
  ASSUME IInv, RInv, NEW r \in Requests, NEW b \in BookingIds, bookings[b] # None,
         NEW row, bookings' = [bookings EXCEPT ![b] = row],
         row # None, row.user = bookings[b].user, row.ctx = bookings[b].ctx,
         row.hold = bookings[b].hold,
         Committed(r, {b}), holds' = holds,
         paid \subseteq paid', paid' \subseteq paid \cup {b},
         checkins' \subseteq checkins \cup {b},
         b \in checkins' => row.status \in {"checked_in", "cancelled"} \/ LostWrite(b)',
         \/ row.status # "confirmed" \/ row.status = bookings[b].status \/ b \in paid'
         \/ \E rule \in ResolvableRules(row.ctx) : ~RequiresPayment(rule),
         \/ \E rule \in ResolvableRules(row.ctx) : AllowedWindow(row.ctx, row, rule)
         \/ LostWrite(b)'
  PROVE  RInv'
<1>1. \A a \in BookingIds : bookings'[a] = IF a = b THEN row ELSE bookings[a]
  BY DEF IInv, TypeOK
<1>2. \A a \in BookingIds :
        /\ bookings'[a] # None => bookings[a] # None
        /\ bookings[a] # None => /\ bookings'[a] # None
                                 /\ bookings'[a].user = bookings[a].user
                                 /\ bookings'[a].ctx = bookings[a].ctx
                                 /\ bookings'[a].hold = bookings[a].hold
  BY <1>1
<1>3. SessionsAdmitted' /\ SessionsHold'
  BY <1>2, CommitRows
<1>4. HoldsSpent' /\ RowsExist'
  BY <1>2 DEF RInv, HoldsSpent, RowsExist, IInv, TypeOK
<1>5. CheckinSticks'
  <2> SUFFICES ASSUME NEW a \in BookingIds, a \in checkins'
               PROVE  bookings'[a].status \in {"checked_in", "cancelled"} \/ LostWrite(a)'
    BY DEF CheckinSticks
  <2>1. CASE a = b
    BY <1>1, <2>1
  <2>2. CASE a # b
    BY <1>1, <2>2, RacesStay DEF RInv, CheckinSticks
  <2> QED
    BY <2>1, <2>2
<1>6. ConfirmedIsPaid'
  <2> SUFFICES ASSUME NEW a \in BookingIds, bookings'[a] # None,
                      bookings'[a].status = "confirmed",
                      \A rule \in ResolvableRules(bookings'[a].ctx) : RequiresPayment(rule)
               PROVE  a \in paid'
    BY DEF ConfirmedIsPaid
  <2>1. bookings[a] # None /\ bookings'[a].ctx = bookings[a].ctx
    BY <1>2
  <2>2. bookings[a].status = "confirmed" => a \in paid
    BY <2>1 DEF RInv, ConfirmedIsPaid
  <2> QED
    BY <1>1, <2>2
<1>7. HoldUsedOnce'
  <2> SUFFICES ASSUME NEW c \in BookingIds, bookings'[c] # None, bookings'[c].hold # None,
                      NEW h, h = bookings'[c].hold
               PROVE  /\ holds'[h] # None
                      /\ holds'[h].status = "converted" \/ LostWrite(h)'
                      /\ \A a \in BookingIds \ {c} :
                           bookings'[a] # None /\ bookings'[a].hold = h => Raced(a, c)'
    BY DEF HoldUsedOnce
  <2>1. /\ bookings[c] # None /\ bookings[c].hold = h
        /\ bookings'[c].user = bookings[c].user
        /\ bookings'[c].ctx = bookings[c].ctx
    BY <1>2
  <2>2. /\ holds[h] # None
        /\ holds[h].status = "converted" \/ LostWrite(h)
        /\ \A a \in BookingIds \ {c} :
             bookings[a] # None /\ bookings[a].hold = h => Raced(a, c)
    BY <2>1 DEF RInv, HoldUsedOnce
  <2>3. \A a : Raced(a, c) => Raced(a, c)'
    BY RacesStay
  <2>4. LostWrite(h) => LostWrite(h)'
    BY RacesStay
  <2> QED
    BY <1>2, <2>1, <2>2, <2>3, <2>4
<1>8. TornWindowNeedsRace'
  <2> SUFFICES ASSUME NEW a \in BookingIds, bookings'[a] # None
               PROVE  \/ \E rule \in ResolvableRules(bookings'[a].ctx) :
                           AllowedWindow(bookings'[a].ctx, bookings'[a], rule)
                      \/ LostWrite(a)'
    BY DEF TornWindowNeedsRace
  <2>1. CASE a = b
    BY <1>1, <2>1
  <2>2. CASE a # b
    BY <1>1, <2>2, RacesStay DEF RInv, TornWindowNeedsRace
  <2> QED
    BY <2>1, <2>2
<1> QED
  BY <1>3, <1>4, <1>5, <1>6, <1>7, <1>8 DEF RInv

(* A handler that only sets the status of the booking it loaded. *)
LEMMA StatusRows ==
  ASSUME IInv, RInv, NEW r \in Requests, request[r] # None,
         request[r].handler \in WritesLoaded,
         NEW status, bookings' = [bookings EXCEPT ![request[r].target].status = status],
         Committed(r, {request[r].target}), holds' = holds,
         paid \subseteq paid', paid' \subseteq paid \cup {request[r].target},
         checkins' \subseteq checkins \cup {request[r].target},
         \/ status \in {"checked_in", "cancelled"}
         \/ /\ status = "confirmed" /\ request[r].loaded.status = "pending"
            /\ request[r].target \in paid' /\ checkins' = checkins
  PROVE  RInv'
<1>1. PICK s \in Session : s = request[r]
  BY TargetTypes
<1>2. PICK b \in BookingIds : b = s.target
  BY <1>1, TargetTypes
<1>3. PICK old \in BookingRow : old = bookings[b] /\ old # None
  BY <1>1, <1>2, TargetTypes
<1>4. PICK row : row = [old EXCEPT !.status = status]
  OBVIOUS
<1>5. /\ row.user = old.user /\ row.ctx = old.ctx /\ row.hold = old.hold
      /\ row.start = old.start /\ row.end = old.end /\ row.status = status
  BY <1>4 DEF BookingRow
<1>6. bookings' = [bookings EXCEPT ![b] = row] /\ row # None
  <2>1. bookings' = [bookings EXCEPT ![b] = row]
    BY <1>1, <1>2, <1>3, <1>4 DEF IInv, TypeOK
  <2>2. status \in BookingStatus
    BY DEF BookingStatus
  <2>3. row \in BookingRow
    BY <1>4, <2>2 DEF BookingRow
  <2> QED
    BY <2>1, <2>3, BookingAssumption
<1>7. b \in checkins' => row.status \in {"checked_in", "cancelled"} \/ LostWrite(b)'
  <2> SUFFICES ASSUME b \in checkins, status = "confirmed", s.loaded.status = "pending"
               PROVE  LostWrite(b)'
    BY <1>1, <1>2, <1>5
  <2>1. CASE b \in raced[r]
    BY <1>1, <1>2, <2>1, CommitRecordsLostWrites
  <2>2. CASE b \notin raced[r]
    <3>1. old.status = "pending"
      BY <1>1, <1>2, <1>3, <2>2, LoadedIsLive
    <3>2. LostWrite(b)
      BY <1>3, <3>1 DEF RInv, CheckinSticks
    <3> QED
      BY <3>2, RacesStay
  <2> QED
    BY <2>1, <2>2
<1>8. \/ \E rule \in ResolvableRules(row.ctx) : AllowedWindow(row.ctx, row, rule)
      \/ LostWrite(b)'
  <2>1. \A c, rule : AllowedWindow(c, row, rule) <=> AllowedWindow(c, old, rule)
    BY <1>5, SameWindow
  <2>2. \/ \E rule \in ResolvableRules(old.ctx) : AllowedWindow(old.ctx, old, rule)
        \/ LostWrite(b)
    BY <1>3 DEF RInv, TornWindowNeedsRace
  <2>3. LostWrite(b) => LostWrite(b)'
    BY RacesStay
  <2> QED
    BY <1>5, <2>1, <2>2, <2>3
<1>9. row.status # "confirmed" \/ row.status = bookings[b].status \/ b \in paid'
  BY <1>1, <1>2, <1>5
<1>10. /\ Committed(r, {b})
       /\ paid' \subseteq paid \cup {b} /\ checkins' \subseteq checkins \cup {b}
       /\ bookings[b] # None /\ row.user = bookings[b].user
       /\ row.ctx = bookings[b].ctx /\ row.hold = bookings[b].hold
  BY <1>1, <1>2, <1>3, <1>5
<1> QED
  BY <1>6, <1>7, <1>8, <1>9, <1>10, WriteRows
LEMMA StatusHandlersRows ==
  ASSUME IInv, RInv, NEW r \in Requests,
         CommitCancelBooking(r) \/ CommitPayment(r) \/ CommitCheckin(r)
  PROVE  RInv'
<1>1. request[r] # None /\ request[r].handler \in WritesLoaded
  BY DEF CommitCancelBooking, CommitPayment, CommitCheckin, Open, WritesLoaded,
         BookingHandlers
<1>2. CASE CommitCancelBooking(r)
  BY <1>1, <1>2, StatusRows DEF CommitCancelBooking
<1>3. CASE CommitCheckin(r)
  BY <1>1, <1>3, StatusRows DEF CommitCheckin
<1>4. CASE CommitPayment(r) /\ request[r].loaded.status = "pending"
  BY <1>1, <1>4, StatusRows DEF CommitPayment
<1>5. CASE CommitPayment(r) /\ request[r].loaded.status # "pending"
  <2>1. /\ Committed(r, {}) /\ UNCHANGED <<bookings, holds, checkins>>
        /\ paid' = paid \cup {request[r].target}
    BY <1>5 DEF CommitPayment
  <2>2. request[r].target \in BookingIds /\ bookings[request[r].target] # None
    BY <1>1, TargetTypes
  <2>3. SessionsAdmitted' /\ SessionsHold'
    BY <2>1, CommitRows
  <2>4. HoldsSpent' /\ RowsExist'
    BY <2>1, <2>2 DEF RInv, HoldsSpent, RowsExist
  <2>5. CheckinSticks' /\ ConfirmedIsPaid' /\ TornWindowNeedsRace'
    BY <2>1, RacesStay DEF RInv, CheckinSticks, ConfirmedIsPaid, TornWindowNeedsRace
  <2>6. races \subseteq races'
    BY <2>1 DEF Committed
  <2>7. HoldUsedOnce'
    BY <2>1, <2>6 DEF RInv, HoldUsedOnce, Raced, LostWrite
  <2> QED
    BY <2>3, <2>4, <2>5, <2>7 DEF RInv
<1> QED
  BY <1>2, <1>3, <1>4, <1>5

(* reschedule_booking: if nobody wrote the booking meanwhile, both columns *)
(* of the window end as checked, and a checked-in booking is never loaded. *)
LEMMA RescheduleRows ==
  ASSUME IInv, RInv, NEW r \in Requests, CommitReschedule(r)
  PROVE  RInv'
<1>1. /\ request[r] # None /\ request[r].handler \in WritesLoaded
      /\ request[r].handler = "reschedule_booking"
  BY DEF CommitReschedule, Open, WritesLoaded, BookingHandlers
<1>2. PICK s \in Session : s = request[r]
  BY <1>1, TargetTypes
<1>3. PICK b \in BookingIds : b = s.target
  BY <1>1, <1>2, TargetTypes
<1>4. PICK old \in BookingRow : /\ old = bookings[b] /\ old # None /\ old.ctx = s.ctx
                                /\ s.loaded \in BookingRow
  BY <1>1, <1>2, <1>3, TargetTypes
<1>5. PICK status : status = IF s.requires_payment THEN "pending" ELSE "confirmed"
  OBVIOUS
<1>6. PICK row : row = [old EXCEPT !.start = Assign(@, s.loaded.start, s.start),
                                   !.end = Assign(@, s.loaded.end, s.end),
                                   !.status = Assign(@, s.loaded.status, status)]
  OBVIOUS
<1>7. /\ row.user = old.user /\ row.ctx = old.ctx /\ row.hold = old.hold
      /\ row.start = Assign(old.start, s.loaded.start, s.start)
      /\ row.end = Assign(old.end, s.loaded.end, s.end)
      /\ row.status = Assign(old.status, s.loaded.status, status)
  BY <1>6 DEF BookingRow
<1>8. /\ bookings' = [bookings EXCEPT ![b] = row]
      /\ Committed(r, {b}) /\ UNCHANGED <<holds, paid, checkins>>
  BY <1>2, <1>3, <1>4, <1>5, <1>6 DEF CommitReschedule
<1>9. row # None
  <2>1. /\ Assign(old.start, s.loaded.start, s.start) \in Nat
        /\ Assign(old.end, s.loaded.end, s.end) \in Nat
    BY <1>4 DEF Assign, BookingRow, Session
  <2>2. Assign(old.status, s.loaded.status, status) \in BookingStatus
    BY <1>4, <1>5 DEF Assign, BookingRow, BookingStatus
  <2>3. row \in BookingRow
    BY <1>6, <2>1, <2>2 DEF BookingRow
  <2> QED
    BY <2>3, BookingAssumption
<1>10. Admitted(s)
  BY <1>1, <1>2 DEF RInv, SessionsAdmitted
<1>11. b \notin raced[r] => s.loaded = old
  BY <1>1, <1>2, <1>3, <1>4, LoadedIsLive
<1>12. b \in raced[r] => LostWrite(b)'
  BY <1>8, CommitRecordsLostWrites
<1>13. b \in checkins' => row.status \in {"checked_in", "cancelled"} \/ LostWrite(b)'
  <2> SUFFICES ASSUME b \in checkins, b \notin raced[r] PROVE LostWrite(b)'
    BY <1>8, <1>12
  <2>1. old.status \in {"pending", "confirmed"}
    BY <1>1, <1>2, <1>10, <1>11 DEF Admitted
  <2>2. LostWrite(b)
    BY <1>4, <2>1 DEF RInv, CheckinSticks
  <2> QED
    BY <1>8, <2>2, RacesStay
<1>14. PICK rule \in ResolvableRules(s.ctx) :
         /\ AllowedWindow(s.ctx, s, rule)
         /\ s.requires_payment = RequiresPayment(rule)
  BY <1>1, <1>2, <1>10 DEF Admitted, BookingMakers
<1>15. \/ \E a \in ResolvableRules(row.ctx) : AllowedWindow(row.ctx, row, a)
       \/ LostWrite(b)'
  <2> SUFFICES ASSUME b \notin raced[r]
               PROVE  \E a \in ResolvableRules(row.ctx) : AllowedWindow(row.ctx, row, a)
    BY <1>12
  <2>1. row.start = s.start /\ row.end = s.end
    BY <1>7, <1>11 DEF Assign
  <2>2. AllowedWindow(s.ctx, row, rule)
    BY <1>14, <2>1, SameWindow
  <2> QED
    BY <1>4, <1>7, <1>14, <2>2
<1>16. \/ row.status # "confirmed" \/ row.status = old.status
       \/ \E a \in ResolvableRules(row.ctx) : ~RequiresPayment(a)
  BY <1>4, <1>5, <1>7, <1>14 DEF Assign
<1> QED
  BY <1>4, <1>7, <1>8, <1>9, <1>13, <1>15, <1>16, WriteRows

(* create_hold: a new row, which no booking names. *)
LEMMA CreateHoldRows ==
  ASSUME IInv, RInv, NEW r \in Requests, CommitCreateHold(r)
  PROVE  RInv'
<1>1. PICK h \in HoldIds :
        /\ holds[h] = None /\ Committed(r, {h})
        /\ \E row : holds' = [holds EXCEPT ![h] = row]
  BY DEF CommitCreateHold
<1>2. UNCHANGED <<bookings, paid, checkins>>
  BY DEF CommitCreateHold
<1>3. \A g \in HoldIds : g # h => holds'[g] = holds[g]
  BY <1>1 DEF IInv, TypeOK
<1>4. \A b \in BookingIds : bookings[b] # None /\ bookings[b].hold # None =>
        bookings[b].hold \in HoldIds /\ bookings[b].hold # h
  BY <1>1 DEF RInv, HoldUsedOnce, IInv, TypeOK, BookingRow
<1>5. SessionsAdmitted' /\ SessionsHold'
  BY <1>1, <1>2, CommitRows
<1>6. HoldsSpent' /\ RowsExist'
  BY <1>2, <1>3, <1>4 DEF RInv, HoldsSpent, RowsExist
<1>7. CheckinSticks' /\ ConfirmedIsPaid' /\ TornWindowNeedsRace'
  BY <1>1, <1>2, RacesStay DEF RInv, CheckinSticks, ConfirmedIsPaid, TornWindowNeedsRace
<1>8. HoldUsedOnce'
  <2>1. \A x, y : Raced(x, y) => Raced(x, y)'
    BY <1>1, RacesStay
  <2>2. \A x : LostWrite(x) => LostWrite(x)'
    BY <1>1, RacesStay
  <2> QED
    BY <1>2, <1>3, <1>4, <2>1, <2>2 DEF RInv, HoldUsedOnce
<1> QED
  BY <1>5, <1>6, <1>7, <1>8 DEF RInv

(* cancel_hold: a hold that a booking was made from since it was loaded is *)
(* written twice at once.                                                  *)
LEMMA CancelHoldRows ==
  ASSUME IInv, RInv, NEW r \in Requests, CommitCancelHold(r)
  PROVE  RInv'
<1>1. PICK s \in Session : s = request[r] /\ s # None /\ s.handler = "cancel_hold"
  BY DEF CommitCancelHold, Open, IInv, TypeOK
<1>2. PICK h \in HoldIds : h = s.target /\ holds[h] # None
  BY <1>1 DEF IInv, SessionsLinked, Linked
<1>3. PICK old \in HoldRow : old = holds[h]
  BY <1>2 DEF IInv, TypeOK
<1>4. PICK row : row = [old EXCEPT !.status = "cancelled"]
  OBVIOUS
<1>5. /\ row.user = old.user /\ row.ctx = old.ctx /\ row.status = "cancelled"
      /\ row # None
  BY <1>4, BookingAssumption DEF HoldRow, HoldStatus
<1>6. /\ holds' = [holds EXCEPT ![h] = row] /\ Committed(r, {h})
      /\ UNCHANGED <<bookings, paid, checkins>>
  BY <1>1, <1>2, <1>3, <1>4 DEF CommitCancelHold, IInv, TypeOK
<1>7. \A g \in HoldIds : holds'[g] = IF g = h THEN row ELSE holds[g]
  BY <1>6 DEF IInv, TypeOK
<1>8. \A b \in BookingIds : bookings[b] # None /\ bookings[b].hold # None =>
        bookings[b].hold \in HoldIds
  BY DEF IInv, TypeOK, BookingRow
<1>9. SessionsAdmitted' /\ SessionsHold'
  BY <1>6, CommitRows
<1>10. HoldsSpent' /\ RowsExist'
  BY <1>5, <1>6, <1>7, <1>8 DEF RInv, HoldsSpent, RowsExist
<1>11. CheckinSticks' /\ ConfirmedIsPaid' /\ TornWindowNeedsRace'
  BY <1>6, RacesStay DEF RInv, CheckinSticks, ConfirmedIsPaid, TornWindowNeedsRace
<1>12. HoldUsedOnce'
  <2>1. \A x, y : Raced(x, y) => Raced(x, y)'
    BY <1>6, RacesStay
  <2>2. \A x : LostWrite(x) => LostWrite(x)'
    BY <1>6, RacesStay
  <2>3. ASSUME NEW b \in BookingIds, bookings[b] # None, bookings[b].hold = h
        PROVE  LostWrite(h)'
    <3>1. holds[h].status # "pending"
      BY <2>3, BookingAssumption DEF RInv, HoldsSpent
    <3>2. h \in raced[r]
      BY <1>1, <1>2, <3>1 DEF IInv, SessionsFresh, Fresh
    <3> QED
      BY <1>6, <3>2, CommitRecordsLostWrites
  <2> QED
    BY <1>3, <1>5, <1>6, <1>7, <1>8, <2>1, <2>2, <2>3 DEF RInv, HoldUsedOnce
<1> QED
  BY <1>9, <1>10, <1>11, <1>12 DEF RInv
(* create_booking and repeat_booking: a booking made of the same hold at   *)
(* once was made while this request was open.                              *)
LEMMA CreateBookingRows ==
  ASSUME IInv, RInv, NEW r \in Requests, CommitCreateBooking(r)
  PROVE  RInv'
<1>1. PICK s \in Session :
        /\ s = request[r] /\ s # None
        /\ s.handler \in {"create_booking", "repeat_booking"}
  BY DEF CommitCreateBooking, Open, IInv, TypeOK
<1>2. PICK row : row = [user |-> s.user, ctx |-> s.ctx, start |-> s.start, end |-> s.end,
                        status |-> IF s.requires_payment THEN "pending" ELSE "confirmed",
                        hold |-> s.hold]
  OBVIOUS
<1>3. PICK b \in BookingIds, S \in SUBSET Ids :
        /\ bookings[b] = None /\ b \in S
        /\ bookings' = [bookings EXCEPT ![b] = row]
        /\ holds' = [h \in HoldIds |->
             IF h = s.hold THEN [holds[h] EXCEPT !.status = "converted"]
             ELSE holds[h]]
        /\ Committed(r, S)
        /\ UNCHANGED <<paid, checkins>>
  BY <1>1, <1>2 DEF CommitCreateBooking, Session
<1>4. row # None
  BY <1>1, <1>2, BookingAssumption DEF BookingRow, BookingStatus, Session
<1>5. \A a \in BookingIds : bookings'[a] = IF a = b THEN row ELSE bookings[a]
  BY <1>3 DEF IInv, TypeOK
<1>6. ASSUME NEW h \in HoldIds, h = s.hold
      PROVE  /\ holds[h] # None /\ holds[h].user = s.user /\ holds[h].ctx = s.ctx
             /\ holds'[h] # None /\ holds'[h].user = s.user
             /\ holds'[h].ctx = s.ctx /\ holds'[h].status = "converted"
  <2>1. holds[h] # None /\ holds[h].user = s.user /\ holds[h].ctx = s.ctx
    BY <1>1, <1>6, BookingAssumption DEF IInv, SessionsLinked, Linked
  <2>2. PICK old \in HoldRow : old = holds[h]
    BY <2>1 DEF IInv, TypeOK
  <2>3. PICK new : new = [old EXCEPT !.status = "converted"]
    OBVIOUS
  <2>4. new \in HoldRow /\ new.user = old.user /\ new.ctx = old.ctx /\ new.status = "converted"
    BY <2>3 DEF HoldRow, HoldStatus
  <2>5. holds'[h] = new
    BY <1>3, <1>6, <2>2, <2>3
  <2> QED
    BY <2>1, <2>2, <2>4, <2>5, BookingAssumption
<1>7. \A h \in HoldIds : h # s.hold => holds'[h] = holds[h]
  BY <1>3
<1>8. \A c \in BookingIds : bookings[c] # None /\ bookings[c].hold # None =>
        bookings[c].hold \in HoldIds
  BY DEF IInv, TypeOK, BookingRow
<1>9. SessionsAdmitted' /\ SessionsHold'
  <2>1. \A a \in BookingIds : bookings'[a] # None =>
          a \in S \/ (bookings[a] # None /\ bookings'[a].hold = bookings[a].hold)
    BY <1>3, <1>5
  <2> QED
    BY <1>3, <2>1, CommitRows
<1>10. b \notin paid \cup checkins
  BY <1>3 DEF RInv, RowsExist
<1>11. RowsExist' /\ CheckinSticks'
  BY <1>3, <1>5, <1>10, RacesStay DEF RInv, RowsExist, CheckinSticks, IInv, TypeOK
<1>12. PICK rule \in ResolvableRules(s.ctx) :
         /\ AllowedWindow(s.ctx, s, rule)
         /\ s.requires_payment = RequiresPayment(rule)
  BY <1>1 DEF RInv, SessionsAdmitted, Admitted, BookingMakers
<1>13. ConfirmedIsPaid'
  <2>1. row.ctx = s.ctx /\ (row.status = "confirmed" => ~s.requires_payment)
    BY <1>2
  <2> QED
    BY <1>3, <1>5, <1>12, <2>1 DEF RInv, ConfirmedIsPaid
<1>14. TornWindowNeedsRace'
  <2>1. row.ctx = s.ctx /\ row.start = s.start /\ row.end = s.end
    BY <1>2
  <2>2. AllowedWindow(s.ctx, row, rule)
    BY <1>12, <2>1, SameWindow
  <2>3. \A x : LostWrite(x) => LostWrite(x)'
    BY <1>3, RacesStay
  <2> QED
    BY <1>5, <1>12, <2>1, <2>2, <2>3 DEF RInv, TornWindowNeedsRace
<1>15. row.hold = s.hold /\ row.user = s.user /\ row.ctx = s.ctx /\ s.hold \in HoldIds \cup {None}
  BY <1>2 DEF Session
<1>16. HoldsSpent'
  <2> SUFFICES ASSUME NEW c \in BookingIds, bookings'[c] # None, bookings'[c].hold # None,
                      NEW h, h = bookings'[c].hold
               PROVE  holds'[h].status # "pending"
    BY DEF HoldsSpent
  <2>1. h \in HoldIds
    BY <1>5, <1>8, <1>15
  <2>2. CASE h = s.hold
    BY <1>6, <2>1, <2>2
  <2>3. CASE h # s.hold
    BY <1>5, <1>7, <1>15, <2>1, <2>3 DEF RInv, HoldsSpent
  <2> QED
    BY <2>2, <2>3
<1>17. ASSUME NEW a \in BookingIds, bookings[a] # None, bookings[a].hold = s.hold, s.hold # None
       PROVE  Raced(a, b)' /\ Raced(b, a)'
  <2>1. a \in raced[r]
    BY <1>1, <1>17 DEF RInv, SessionsHold
  <2>2. {b, a} \in races'
    BY <1>3, <2>1, CommitRecordsRaces
  <2>3. {a, b} \in races'
    BY <2>2
  <2> QED
    BY <2>2, <2>3 DEF Raced
<1>18. HoldUsedOnce'
  <2> SUFFICES ASSUME NEW c \in BookingIds, bookings'[c] # None, bookings'[c].hold # None,
                      NEW h, h = bookings'[c].hold
               PROVE  /\ holds'[h] # None
                      /\ holds'[h].status = "converted" \/ LostWrite(h)'
                      /\ \A a \in BookingIds \ {c} :
                           bookings'[a] # None /\ bookings'[a].hold = h => Raced(a, c)'
    BY DEF HoldUsedOnce
  <2>1. h \in HoldIds
    BY <1>5, <1>8, <1>15
  <2>2. CASE c = b
    <3>1. h = s.hold
      BY <1>5, <1>15, <2>2
    <3>2. \A a \in BookingIds \ {c} :
            bookings'[a] # None /\ bookings'[a].hold = h => Raced(a, c)'
      BY <1>5, <1>17, <2>2, <3>1
    <3> QED
      BY <1>6, <2>1, <3>1, <3>2
  <2>3. CASE c # b
    <3>1. bookings'[c] = bookings[c] /\ bookings[c] # None /\ bookings[c].hold = h
      BY <1>5, <2>3
    <3>2. /\ holds[h] # None
          /\ holds[h].status = "converted" \/ LostWrite(h)
          /\ \A a \in BookingIds \ {c} :
               bookings[a] # None /\ bookings[a].hold = h => Raced(a, c)
      BY <3>1 DEF RInv, HoldUsedOnce
    <3>3. holds'[h] # None
      BY <1>6, <1>7, <2>1, <3>1, <3>2
    <3>4. holds'[h].status = "converted" \/ LostWrite(h)'
      BY <1>3, <1>6, <1>7, <2>1, <3>2, RacesStay
    <3>5. ASSUME NEW a \in BookingIds \ {c}, bookings'[a] # None, bookings'[a].hold = h
          PROVE  Raced(a, c)'
      <4>1. CASE a = b
        BY <1>5, <1>15, <1>17, <3>1, <3>5, <4>1
      <4>2. CASE a # b
        <5>1. Raced(a, c)
          BY <1>5, <3>2, <3>5, <4>2
        <5> QED
          BY <1>3, <5>1, RacesStay
      <4> QED
        BY <4>1, <4>2
    <3> QED
      BY <3>3, <3>4, <3>5
  <2> QED
    BY <2>2, <2>3
<1> QED
  BY <1>9, <1>11, <1>13, <1>14, <1>16, <1>18 DEF RInv
------------------------------------------------------------------------------
LEMMA NextRows ==
  ASSUME IInv, RInv, [Next]_vars
  PROVE  RInv'
<1>1. ASSUME NEW r \in Requests, BeginRequest(r)
      PROVE  RInv'
  BY <1>1, BeginRows
<1>2. ASSUME NEW r \in Requests, Continue(r) \/ Abort(r)
      PROVE  RInv'
  <2>1. CASE ReadBookings(r) \/ ReadHolds(r)
    BY <2>1, QueryRows
  <2>2. CASE \/ RefuseForBooking(r) \/ RefuseForHold(r) \/ RefuseSecondCheckin(r)
             \/ Abort(r)
    BY <2>2, QuietRows DEF RefuseForBooking, RefuseForHold, RefuseSecondCheckin, Abort
  <2>3. CASE CommitCreateHold(r) \/ CommitCancelHold(r)
    BY <2>3, CreateHoldRows, CancelHoldRows
  <2>4. CASE CommitCreateBooking(r) \/ CommitReschedule(r)
    BY <2>4, CreateBookingRows, RescheduleRows
  <2>5. CASE CommitCancelBooking(r) \/ CommitPayment(r) \/ CommitCheckin(r)
    BY <2>5, StatusHandlersRows
  <2> QED
    BY <1>2, <2>1, <2>2, <2>3, <2>4, <2>5 DEF Continue
<1>3. CASE Tick \/ UNCHANGED vars
  BY <1>3, QuietRows DEF Tick, vars
<1> QED
  BY <1>1, <1>2, <1>3 DEF Next

(* What rows and open requests say of one another holds in every state.    *)
THEOREM RowsInvariance == Spec => []RInv
<1>1. Init => RInv
  BY InitRows
<1>2. IInv /\ RInv /\ [Next]_vars => RInv'
  BY NextRows
<1> QED
  BY <1>1, <1>2, Invariance, PTL DEF Spec

(* A booking keeps its check-in until it is cancelled, unless a request    *)
(* that had loaded it before the check-in writes it afterwards.            *)
THEOREM CheckinsStick == Spec => []CheckinSticks
<1>1. RInv => CheckinSticks
  BY DEF RInv
<1> QED
  BY <1>1, RowsInvariance, PTL

(* Where payment is asked for, a confirmed booking was paid, whatever the  *)
(* requests that raced for it.                                             *)
THEOREM ConfirmedArePaid == Spec => []ConfirmedIsPaid
<1>1. RInv => ConfirmedIsPaid
  BY DEF RInv
<1> QED
  BY <1>1, RowsInvariance, PTL

(* A hold becomes one booking and stays converted, unless two requests     *)
(* used it at once.                                                        *)
THEOREM HoldsUsedOnce == Spec => []HoldUsedOnce
<1>1. RInv => HoldUsedOnce
  BY DEF RInv
<1> QED
  BY <1>1, RowsInvariance, PTL

(* A booking takes over the user, the resource and the window of its hold, *)
(* and a hold that was no longer pending was written by another request    *)
(* since this one had validated it.                                        *)
THEOREM BookingsAsHeld == Spec => BookedAsHeld
<1>1. ASSUME IInv, [Next]_vars, NEW b \in BookingIds, NEW h \in HoldIds,
             bookings[b] = None, bookings'[b] # None, bookings'[b].hold = h
      PROVE  /\ bookings'[b].user = holds[h].user
             /\ bookings'[b].ctx = holds[h].ctx
             /\ bookings'[b].start = holds[h].start
             /\ bookings'[b].end = holds[h].end
             /\ holds[h].status = "pending" \/ LostWrite(h)'
  <2>1. PICK r \in Requests : BookingWriter(r)
    BY <1>1, WritersOfBookings
  <2>2. CASE CommitCreateBooking(r)
    <3>1. PICK s \in Session : s = request[r] /\ s # None
      BY <1>1, <2>2 DEF CommitCreateBooking, Open, IInv, TypeOK
    <3>2. PICK row : row = [user |-> s.user, ctx |-> s.ctx, start |-> s.start,
                            end |-> s.end,
                            status |-> IF s.requires_payment THEN "pending" ELSE "confirmed",
                            hold |-> s.hold]
      OBVIOUS
    <3>3. PICK a \in BookingIds : /\ bookings' = [bookings EXCEPT ![a] = row]
                                  /\ Committed(r, {a} \cup ({s.hold} \ {None}))
      BY <2>2, <3>1, <3>2 DEF CommitCreateBooking
    <3>4. bookings'[b] = row
      BY <1>1, <3>3 DEF IInv, TypeOK
    <3>5. h = s.hold /\ h # None
      BY <1>1, <3>2, <3>4, BookingAssumption
    <3>6. /\ holds[h].user = s.user /\ holds[h].ctx = s.ctx
          /\ holds[h].start = s.start /\ holds[h].end = s.end
      BY <1>1, <3>1, <3>5 DEF IInv, SessionsLinked, Linked
    <3>7. h \in raced[r] \/ holds[h].status = "pending"
      BY <1>1, <3>1, <3>5 DEF IInv, SessionsFresh, Fresh
    <3>8. h \in {a} \cup ({s.hold} \ {None})
      BY <3>5
    <3>9. h \in raced[r] => LostWrite(h)'
      BY <3>3, <3>8, CommitRecordsLostWrites
    <3> QED
      BY <3>2, <3>4, <3>6, <3>7, <3>9
  <2>3. CASE \/ CommitReschedule(r) \/ CommitCancelBooking(r)
             \/ CommitPayment(r) \/ CommitCheckin(r)
    <3>1. request[r] # None /\ request[r].handler \in WritesLoaded
      BY <2>3 DEF CommitReschedule, CommitCancelBooking, CommitPayment,
                  CommitCheckin, Open, WritesLoaded, BookingHandlers
    <3>2. PICK c \in BookingIds : c = request[r].target /\ bookings[c] # None
      BY <1>1, <3>1, TargetTypes
    <3>3. bookings' = bookings \/ \E row : bookings' = [bookings EXCEPT ![c] = row]
      <4>1. CASE CommitReschedule(r)
        BY <3>2, <4>1 DEF CommitReschedule
      <4>2. CASE CommitCancelBooking(r)
        BY <3>2, <4>2 DEF CommitCancelBooking
      <4>3. CASE CommitPayment(r)
        BY <3>2, <4>3 DEF CommitPayment
      <4>4. CASE CommitCheckin(r)
        BY <3>2, <4>4 DEF CommitCheckin
      <4> QED
        BY <2>3, <4>1, <4>2, <4>3, <4>4
    <3> QED
      BY <1>1, <3>2, <3>3 DEF IInv, TypeOK
  <2> QED
    BY <2>1, <2>2, <2>3 DEF BookingWriter
<1>2. IInv /\ [Next]_vars =>
        [\A b \in BookingIds, h \in HoldIds :
           bookings[b] = None /\ bookings'[b] # None /\ bookings'[b].hold = h =>
             /\ bookings'[b].user = holds[h].user
             /\ bookings'[b].ctx = holds[h].ctx
             /\ bookings'[b].start = holds[h].start
             /\ bookings'[b].end = holds[h].end
             /\ holds[h].status = "pending" \/ LostWrite(h)']_vars
  BY <1>1
<1> QED
  BY <1>2, Invariance, PTL DEF Spec, BookedAsHeld

(* The window of a booking is one its rules and hours allow, unless two    *)
(* requests wrote the booking at once.                                     *)
THEOREM TornWindowsNeedRaces == Spec => []TornWindowNeedsRace
<1>1. RInv => TornWindowNeedsRace
  BY DEF RInv
<1> QED
  BY <1>1, RowsInvariance, PTL
------------------------------------------------------------------------------
(* A tick counted from midnight of a day is in that day as long as it does *)
(* not reach the next midnight.                                            *)
LEMMA DayOfTick ==
  ASSUME NEW L \in Nat \ {0}, NEW d \in Nat, NEW x \in Nat
  PROVE  /\ x < L => (d * L + x) \div L = d /\ (d * L + x) % L = x
         /\ x >= L => (d * L + x) \div L # d
OBVIOUS

(* The offset of the zone cancels out. *)
LEMMA LocalInstant ==
  ASSUME NEW c \in Contexts, NEW day \in Days, NEW t \in Nat
  PROVE  /\ Instant(c, day, t) \in Int
         /\ LocalTime(c, Instant(c, day, t)) = day * DayLength + t
<1>1. UtcOffset[c.venue] \in Int
  BY ResourcesAssumption DEF Contexts, SeatContext, RoomContext, VenueContext
<1>2. day \in Int /\ DayLength \in Int
  BY ResourcesAssumption DEF Days
<1>3. DEFINE o == UtcOffset[c.venue]
             m == day * DayLength
<1>4. o \in Int /\ m \in Int
  BY <1>1, <1>2
<1> QED
  <2> HIDE DEF o, m
  <2>1. m + t - o \in Int /\ (m + t - o) + o = m + t
    BY <1>4
  <2> QED
    BY <2>1 DEF o, m, Instant, LocalTime

LEMMA DayOfInstant ==
  ASSUME NEW c \in Contexts, NEW day \in Days, NEW t \in Nat
  PROVE  /\ t < DayLength => /\ LocalDay(c, Instant(c, day, t)) = day
                             /\ TimeOfDay(c, Instant(c, day, t)) = t
         /\ t >= DayLength => LocalDay(c, Instant(c, day, t)) # day
<1>1. day \in Nat /\ DayLength \in Nat \ {0}
  BY ResourcesAssumption DEF Days
<1>2. LocalTime(c, Instant(c, day, t)) = day * DayLength + t
  BY LocalInstant
<1> QED
  BY <1>1, <1>2, DayOfTick DEF LocalDay, TimeOfDay

(* The hours a walk uses: those of the one row of the weekday, or all day. *)
LEMMA HoursOfDay ==
  ASSUME NEW c \in Contexts, NEW day \in Days
  PROVE  /\ OpeningHours(c, day)
              \subseteq [open : 0 .. DayLength - 1, close : 0 .. DayLength - 1]
         /\ \A g, h \in OpeningHours(c, day) : g = h
<1> DEFINE rows == {row \in RoomHours : row.room_id = c.room /\ row.weekday = day % 7}
<1>1. \A row \in rows : row.open \in 0 .. DayLength - 1 /\ row.close \in 0 .. DayLength - 1
  BY ResourcesAssumption DEF RoomHourRow
<1>2. \A g, h \in rows : g = h
  BY ResourcesAssumption
<1>3. DayLength \in Nat \ {0}
  BY ResourcesAssumption
<1>4. CASE rows = {}
  BY <1>3, <1>4 DEF OpeningHours
<1>5. CASE rows # {}
  <2>1. OpeningHours(c, day)
          = {[open |-> row.open, close |-> row.close] : row \in {x \in rows : ~x.is_closed}}
    BY <1>5 DEF OpeningHours
  <2> QED
    BY <1>1, <1>2, <2>1
<1> QED
  BY <1>4, <1>5

(* _validate_booking_window keeps to the hours the walk uses. *)
LEMMA HoursAgree ==
  ASSUME NEW c \in Contexts, NEW day \in Days, NEW w,
         LocalDay(c, w.start) = day,
         TimeOfDay(c, w.start) \in 0 .. DayLength - 1,
         TimeOfDay(c, w.end) \in 0 .. DayLength - 1
  PROVE  WithinHours(c, w)
           <=> \E hours \in OpeningHours(c, day) :
                 /\ hours.open <= TimeOfDay(c, w.start)
                 /\ TimeOfDay(c, w.end) <= hours.close
<1> DEFINE rows == {row \in RoomHours : row.room_id = c.room /\ row.weekday = day % 7}
           Fits(hours) == /\ hours.open <= TimeOfDay(c, w.start)
                          /\ TimeOfDay(c, w.end) <= hours.close
<1>1. WithinHours(c, w) <=> \A row \in rows : ~row.is_closed /\ Fits(row)
  BY DEF WithinHours
<1>2. \A g, h \in rows : g = h
  BY ResourcesAssumption
<1>3. CASE rows = {}
  <2>1. OpeningHours(c, day) = {[open |-> 0, close |-> DayLength - 1]}
    BY <1>3 DEF OpeningHours
  <2>2. DayLength \in Nat \ {0}
    BY ResourcesAssumption
  <2>3. Fits([open |-> 0, close |-> DayLength - 1])
    BY <2>2
  <2> QED
    BY <1>1, <1>3, <2>1, <2>3
<1>4. CASE rows # {}
  <2>1. PICK row \in rows : TRUE
    BY <1>4
  <2>2. rows = {row}
    BY <1>2, <2>1
  <2>3. OpeningHours(c, day)
          = {[open |-> x.open, close |-> x.close] : x \in {y \in rows : ~y.is_closed}}
    BY <1>4 DEF OpeningHours
  <2>4. CASE row.is_closed
    BY <1>1, <2>2, <2>3, <2>4
  <2>5. CASE ~row.is_closed
    <3>1. OpeningHours(c, day) = {[open |-> row.open, close |-> row.close]}
      BY <2>2, <2>3, <2>5
    <3>2. Fits([open |-> row.open, close |-> row.close]) <=> Fits(row)
      OBVIOUS
    <3> QED
      BY <1>1, <2>2, <2>5, <3>1, <3>2
  <2> QED
    BY <2>4, <2>5
<1> QED
  BY <1>3, <1>4

(* A window of the grid is a slot of the listing exactly when a rule that  *)
(* allows its length allows the window.                                    *)
LEMMA SlotsAreAllowed ==
  ASSUME NEW c \in Contexts, NEW day \in Days, NEW length \in Lengths,
         NEW rule, AllowedLength(length, rule)
  PROVE  Slots[c][day][length] = {w \in Grid[c][day][length] : AllowedWindow(c, w, rule)}
<1> DEFINE Window(t) == [start |-> Instant(c, day, t), end |-> Instant(c, day, t + length)]
           hoursOf == OpeningHours(c, day)
           OnGrid(t) == \A hours \in hoursOf : (t - hours.open) % length = 0
<1>1. length \in Nat \ {0}
  BY BookingAssumption DEF Lengths, Interval
<1>2. DayLength \in Nat \ {0} /\ day \in Nat
  BY ResourcesAssumption DEF Days
<1>3. hoursOf \subseteq [open : 0 .. DayLength - 1, close : 0 .. DayLength - 1]
  BY HoursOfDay
<1>4. \A g, h \in hoursOf : g = h
  BY HoursOfDay
<1>5. Slots[c][day][length]
        = {Window(t) : t \in UNION {SlotTimes(hours, length) : hours \in hoursOf}}
  BY DEF Slots
<1>6. Grid[c][day][length] = {Window(t) : t \in {u \in 0 .. DayLength - 1 : OnGrid(u)}}
  BY DEF Grid
<1>7. ASSUME NEW t \in 0 .. DayLength - 1
      PROVE  AllowedWindow(c, Window(t), rule)
               <=> \E hours \in hoursOf : hours.open <= t /\ t + length <= hours.close
  <2>1. t \in Nat /\ t + length \in Nat /\ t < DayLength
    BY <1>1, <1>2
  <2>2. /\ Window(t).start = Instant(c, day, t)
        /\ Window(t).end = Instant(c, day, t + length)
    OBVIOUS
  <2>3. Instant(c, day, t + length) = Instant(c, day, t) + length
    <3>1. UtcOffset[c.venue] \in Int
      BY ResourcesAssumption DEF Contexts, SeatContext, RoomContext, VenueContext
    <3>2. PICK m \in Int : m = day * DayLength
      BY <1>2
    <3>3. Instant(c, day, t) = m + t - UtcOffset[c.venue]
      BY <3>2 DEF Instant
    <3>4. Instant(c, day, t + length) = m + (t + length) - UtcOffset[c.venue]
      BY <3>2 DEF Instant
    <3> QED
      BY <1>1, <2>1, <3>1, <3>2, <3>3, <3>4
  <2>4. Instant(c, day, t) \in Int
    BY <2>1, LocalInstant
  <2>5. Window(t).start < Window(t).end /\ Window(t).end - Window(t).start = length
    <3> HIDE DEF Window
    <3> QED
      BY <1>1, <2>2, <2>3, <2>4
  <2>6. LocalDay(c, Window(t).start) = day /\ TimeOfDay(c, Window(t).start) = t
    BY <2>1, DayOfInstant
  <2>7. /\ t + length < DayLength => /\ LocalDay(c, Window(t).end) = day
                                     /\ TimeOfDay(c, Window(t).end) = t + length
        /\ t + length >= DayLength => LocalDay(c, Window(t).end) # day
    BY <2>1, DayOfInstant
  <2>8. AllowedWindow(c, Window(t), rule)
          <=> LocalDay(c, Window(t).end) = day /\ WithinHours(c, Window(t))
    <3> HIDE DEF Window
    <3> QED
      BY <2>5, <2>6 DEF AllowedWindow, AllowedLength
  <2>9. CASE t + length < DayLength
    <3>1. LocalDay(c, Window(t).end) = day /\ TimeOfDay(c, Window(t).end) = t + length
      BY <2>7, <2>9
    <3>2. TimeOfDay(c, Window(t).end) \in 0 .. DayLength - 1
      BY <1>2, <2>1, <2>9, <3>1
    <3>3. WithinHours(c, Window(t))
            <=> \E hours \in hoursOf : hours.open <= t /\ t + length <= hours.close
      <4> HIDE DEF Window
      <4> QED
        BY <2>6, <3>1, <3>2, HoursAgree
    <3> QED
      BY <2>8, <3>1, <3>3
  <2>10. CASE t + length >= DayLength
    <3>1. \A hours \in hoursOf : ~(t + length <= hours.close)
      BY <1>2, <1>3, <2>1, <2>10
    <3> QED
      BY <2>7, <2>8, <2>10, <3>1
  <2> QED
    BY <1>2, <2>1, <2>9, <2>10
<1>8. ASSUME NEW t
      PROVE  t \in UNION {SlotTimes(hours, length) : hours \in hoursOf}
               <=> /\ t \in 0 .. DayLength - 1
                   /\ OnGrid(t)
                   /\ \E hours \in hoursOf : hours.open <= t /\ t + length <= hours.close
  BY <1>1, <1>2, <1>3, <1>4 DEF SlotTimes
<1>9. ASSUME NEW w
      PROVE  w \in Slots[c][day][length]
               <=> w \in Grid[c][day][length] /\ AllowedWindow(c, w, rule)
  <2> HIDE DEF Window
  <2> QED
    BY <1>5, <1>6, <1>7, <1>8
<1> QED
  BY <1>9

(* A listing filters the slots by the test that create_booking applies. *)
LEMMA BlockedAgrees ==
  ASSUME NEW u, NEW c, NEW slot
  PROVE  Blocked(c, slot) <=> WouldConflict(u, c, slot)
<1> DEFINE s == [CreateBookingSession(u, c, slot, None, None) EXCEPT !.at = clock]
<1>1. /\ s.ctx = c /\ s.start = slot.start /\ s.end = slot.end
      /\ s.handler = "create_booking" /\ s.target = None /\ s.hold = None
      /\ s.at = clock
  BY DEF CreateBookingSession
<1>2. None \notin BookingIds /\ None \notin HoldIds
  BY BookingAssumption
<1> HIDE DEF s
<1>3. ASSUME NEW b \in BookingIds
      PROVE  BookingConflict(s, b) <=> /\ LiveBooking(b)
                                       /\ ConflictFilter(c, bookings[b].ctx)
                                       /\ Overlaps(slot, bookings[b])
  BY <1>1, <1>2 DEF BookingConflict, Cached, Overlaps
<1>4. ASSUME NEW h \in HoldIds
      PROVE  HoldConflict(s, h) <=> /\ HoldBlocks(h, clock)
                                    /\ ConflictFilter(c, holds[h].ctx)
                                    /\ Overlaps(slot, holds[h])
  BY <1>1, <1>2 DEF HoldConflict, Overlaps
<1> QED
  BY <1>3, <1>4 DEF Blocked, WouldConflict, s

(* Only the clock parts ValidWindow from AllowedWindow. *)
LEMMA ValidUnlessLate ==
  ASSUME NEW c, NEW w, NEW rule, clock \in Nat, w.start \in Int,
         rule # None => rule.max_advance \in Nat
  PROVE  ValidWindow(c, w, clock, rule)
           <=> /\ AllowedWindow(c, w, rule)
               /\ ~HasBegun(w) /\ ~TooFarAhead(w, rule)
BY DEF ValidWindow, HasBegun, TooFarAhead

(* A rule that allows a window allows its length. *)
LEMMA AllowedHasLength ==
  ASSUME NEW c \in Contexts, NEW day \in Days, NEW length \in Lengths,
         NEW w \in Grid[c][day][length], NEW rule, AllowedWindow(c, w, rule)
  PROVE  AllowedLength(length, rule)
<1>1. PICK t \in 0 .. DayLength - 1 :
        w = [start |-> Instant(c, day, t), end |-> Instant(c, day, t + length)]
  BY DEF Grid
<1>2. length \in Nat /\ DayLength \in Nat /\ day \in Nat
  BY BookingAssumption, ResourcesAssumption DEF Lengths, Interval, Days
<1>3. UtcOffset[c.venue] \in Int
  BY ResourcesAssumption DEF Contexts, SeatContext, RoomContext, VenueContext
<1>4. PICK m \in Int : m = day * DayLength
  BY <1>2
<1>5. /\ w.start = m + t - UtcOffset[c.venue]
      /\ w.end = m + (t + length) - UtcOffset[c.venue]
  BY <1>1, <1>4 DEF Instant
<1>6. w.end - w.start = length
  BY <1>2, <1>3, <1>4, <1>5
<1> QED
  BY <1>6 DEF AllowedWindow, AllowedLength

LEMMA ListingAgrees == TypeOK => ListingMatchesBooking
<1> SUFFICES ASSUME TypeOK,
                    NEW c \in Contexts, NEW day \in Days, NEW length \in Lengths,
                    NEW w \in Eligible[c][day][length],
                    NEW rule \in ResolvableRules(c), NEW listed \in ResolvableRules(c)
             PROVE  LET free == w \in Slots[c][day][length] /\ ~Blocked(c, w)
                        barred == {u \in Users : WouldConflict(u, c, w)}
                        valid == ValidWindow(c, w, clock, rule)
                        offered == free /\ AllowedLength(length, listed)
                    IN /\ offered => \/ HasBegun(w) \/ TooFarAhead(w, rule)
                                     \/ ~AllowedLength(length, rule)
                                     \/ valid /\ barred = {}
                       /\ valid /\ barred # Users =>
                            offered \/ ~AllowedLength(length, listed)
  BY DEF ListingMatchesBooking
<1>1. clock \in Nat
  BY BookingAssumption DEF TypeOK
<1>2. rule # None => rule.max_advance \in Nat
  <2>1. rule = None \/ rule \in BookingRules
    BY DEF ResolvableRules, RoomRules, VenueRules
  <2> QED
    BY <2>1, ResourcesAssumption DEF BookingRuleRow
<1>3. Slots[c][day][length] \subseteq Grid[c][day][length]
  <2>1. AllowedLength(length, None)
    BY DEF AllowedLength
  <2> QED
    BY <2>1, SlotsAreAllowed
<1>4. w \in Grid[c][day][length]
  BY <1>3 DEF Eligible
<1>5. w.start \in Int
  <2>1. PICK t \in 0 .. DayLength - 1 :
          w = [start |-> Instant(c, day, t), end |-> Instant(c, day, t + length)]
    BY <1>4 DEF Grid
  <2>2. t \in Nat
    BY ResourcesAssumption
  <2> QED
    BY <2>1, <2>2, LocalInstant
<1>6. ValidWindow(c, w, clock, rule)
        <=> AllowedWindow(c, w, rule) /\ ~HasBegun(w) /\ ~TooFarAhead(w, rule)
  BY <1>1, <1>2, <1>5, ValidUnlessLate
<1>7. AllowedLength(length, rule) =>
        (w \in Slots[c][day][length] <=> AllowedWindow(c, w, rule))
  BY <1>4, SlotsAreAllowed
<1>8. AllowedWindow(c, w, rule) => AllowedLength(length, rule)
  BY <1>4, AllowedHasLength
<1>9. \A u \in Users : WouldConflict(u, c, w) <=> Blocked(c, w)
  BY BlockedAgrees
<1> QED
  BY <1>6, <1>7, <1>8, <1>9

(* Whatever the zone, the hours, the rules and the rows are, the walk over *)
(* a day and the checks of a booking select the same windows, but for the  *)
(* two conditions that get_availability leaves out and for a length that   *)
(* only one of the two rules allows.                                       *)
THEOREM ListingsMatchBookings == Spec => []ListingMatchesBooking
BY ListingAgrees, TypeCorrect, PTL
==============================================================================
