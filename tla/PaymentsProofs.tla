--------------------------- MODULE PaymentsProofs ---------------------------
(***************************************************************************)
(* Proofs about Payments, for every set of bookings, transactions,         *)
(* requests and amounts.                                                   *)
(***************************************************************************)
EXTENDS Payments, SessionsProofs

Rows == BookingIds \cup PaymentIds

(* What a refund knows: the row it loaded still has its booking and its    *)
(* amount, the refund fits into what remained of it, and until another     *)
(* request writes the row it is as it was loaded.                          *)
RefundSession(s, written) ==
  /\ s.target \in PaymentIds
  /\ transactions[s.target] # None
  /\ s.loaded \in Transaction
  /\ s.loaded.amount_cents = transactions[s.target].amount_cents
  /\ 0 < s.amount /\ s.amount <= Remaining(s.loaded)
  /\ s.target \notin written => transactions[s.target] = s.loaded

(* What a payment or a cancellation knows: until another request writes    *)
(* the booking, it is as it was loaded, and not cancelled.                  *)
BookingSession(s, written) ==
  /\ s.target \in BookingIds
  /\ s.loaded \in BookingRow /\ s.loaded.status # "cancelled"
  /\ s.target \notin written => bookings[s.target] = s.loaded

Knows(s, written) ==
  IF s.handler = "refund_payment" THEN RefundSession(s, written)
  ELSE BookingSession(s, written)

SessionsKnow ==
  \A r \in Requests : request[r] # None => Knows(request[r], raced[r])

(* Nobody is told of a refund of a transaction that does not exist. *)
NothingToldYet == \A p \in PaymentIds : transactions[p] = None => notified[p] = 0

(* The amounts of every transaction are in order. *)
InOrder ==
  /\ RefundWithinPayment
  /\ RefundsAddUp
  /\ RefundedWhenAllIs
  /\ NothingToldYet

IInv ==
  /\ TypeOK
  /\ SessionsKnow
  /\ InOrder

USE PaymentsAssumption DEF Rows
------------------------------------------------------------------------------
LEMMA InitInv == Init => IInv
<1> SUFFICES ASSUME Init PROVE IInv
  OBVIOUS
<1> USE DEF Init, NoRequests
<1>1. TypeOK
  BY DEF TypeOK, BookingRow
<1>2. SessionsKnow
  BY DEF SessionsKnow
<1>3. InOrder
  BY DEF InOrder, RefundWithinPayment, RefundsAddUp, RefundedWhenAllIs,
         NothingToldYet
<1> QED
  BY <1>1, <1>2, <1>3 DEF IInv

(* A request begins with a session that knows what it has just loaded. *)
LEMMA BeginInv ==
  ASSUME IInv, NEW r \in Requests, NEW handler, NEW x, NEW row, NEW amount,
         Begin(r, handler, x, row, amount),
         handler \in {"cancel_booking", "create_payment", "refund_payment"},
         amount \in 0..MaxInt,
         handler = "refund_payment" =>
           /\ x \in PaymentIds /\ transactions[x] # None /\ row = transactions[x]
           /\ 0 < amount /\ amount <= Remaining(row),
         handler # "refund_payment" =>
           /\ x \in BookingIds /\ row = bookings[x] /\ row.status # "cancelled"
  PROVE  IInv'
<1> DEFINE s == [handler |-> handler, pc |-> "commit", target |-> x,
                 loaded |-> row, amount |-> amount]
<1>1. /\ request' = [request EXCEPT ![r] = s]
      /\ UNCHANGED <<raced, races>> /\ UNCHANGED tables
  BY DEF Begin, OpenSession
<1>2. handler = "refund_payment" => transactions[x] \in Transaction
  BY DEF IInv, TypeOK
<1>3. handler # "refund_payment" => bookings[x] \in BookingRow
  BY DEF IInv, TypeOK
<1>4. s \in Session
  BY <1>2, <1>3 DEF Session
<1>5. TypeOK'
  BY <1>1, <1>4 DEF IInv, TypeOK, tables
<1>6. Knows(s, raced[r])
  BY <1>2, <1>3 DEF Knows, RefundSession, BookingSession
<1>7. ASSUME NEW q \in Requests, request'[q] # None
      PROVE  Knows(request[q], raced[q])'
  <2>1. PICK t : t = request'[q]
    OBVIOUS
  <2>2. Knows(t, raced[q])
    BY <2>1, <1>1, <1>6, <1>7 DEF IInv, TypeOK, SessionsKnow
  <2> QED
    BY <2>1, <2>2, <1>1 DEF Knows, RefundSession, BookingSession, tables
<1>8. SessionsKnow'
  BY <1>7 DEF SessionsKnow
<1>9. InOrder'
  BY <1>1 DEF IInv, InOrder, RefundWithinPayment, RefundsAddUp,
              RefundedWhenAllIs, NothingToldYet, tables, LostWrite
<1> QED
  BY <1>5, <1>8, <1>9 DEF IInv

(* A commit that changes only the rows S leaves the other sessions knowing *)
(* what they know.                                                         *)
LEMMA CommitKeepsSessions ==
  ASSUME IInv, NEW r \in Requests, NEW S \in SUBSET Rows, Committed(r, S),
         \A b \in BookingIds \ S : bookings'[b] = bookings[b],
         \A p \in PaymentIds \ S : transactions'[p] = transactions[p],
         \A p \in PaymentIds : transactions[p] # None =>
           /\ transactions'[p] # None
           /\ transactions'[p].amount_cents = transactions[p].amount_cents
  PROVE  /\ request' \in [Requests -> Session \cup {None}]
         /\ raced' \in [Requests -> SUBSET Rows]
         /\ races' \subseteq SUBSET Rows
         /\ SessionsKnow'
<1>1. /\ request \in [Requests -> Session \cup {None}]
      /\ raced \in [Requests -> SUBSET Rows]
      /\ races \subseteq SUBSET Rows
  BY DEF IInv, TypeOK
<1>2. /\ request' \in [Requests -> Session \cup {None}]
      /\ raced' \in [Requests -> SUBSET Rows]
      /\ races' \subseteq SUBSET Rows
  <2>1. request' \in [Requests -> Session \cup {None}]
    BY <1>1 DEF Committed
  <2>2. raced' \in [Requests -> SUBSET Rows]
    BY <1>1 DEF Committed
  <2>3. races' \subseteq SUBSET Rows
    BY <1>1 DEF Committed
  <2> QED
    BY <2>1, <2>2, <2>3
<1>3. ASSUME NEW q \in Requests, request'[q] # None
      PROVE  Knows(request[q], raced[q])'
  <2>1. PICK s : s = request[q]
    OBVIOUS
  <2>2. PICK written : written = raced[q]
    OBVIOUS
  <2>3. request'[q] = s /\ raced'[q] = written \cup S
    BY <1>1, <1>3, <2>1, <2>2 DEF Committed
  <2>4. Knows(s, written)
    BY <1>3, <2>1, <2>2, <2>3 DEF IInv, SessionsKnow
  <2> QED
    BY <2>3, <2>4 DEF Knows, RefundSession, BookingSession
<1> QED
  BY <1>2, <1>3 DEF SessionsKnow
------------------------------------------------------------------------------
LEMMA RollbackInv ==
  ASSUME IInv, NEW r \in Requests, Abort(r)
  PROVE  IInv'
<1>1. Committed(r, {}) /\ UNCHANGED <<bookings, transactions, notified>>
  BY DEF Abort, tables
<1>2. /\ request' \in [Requests -> Session \cup {None}]
      /\ raced' \in [Requests -> SUBSET Rows]
      /\ races' \subseteq SUBSET Rows
      /\ SessionsKnow'
  BY <1>1, CommitKeepsSessions
<1>3. \A p : LostWrite(p) => LostWrite(p)'
  BY <1>1, RacesStay
<1>4. InOrder'
  BY <1>1, <1>3 DEF IInv, InOrder, RefundWithinPayment, RefundsAddUp,
                     RefundedWhenAllIs, NothingToldYet
<1> QED
  BY <1>1, <1>2, <1>4 DEF IInv, TypeOK

LEMMA CancelInv ==
  ASSUME IInv, NEW r \in Requests, CommitCancelBooking(r)
  PROVE  IInv'
<1>1. PICK b : b = request[r].target
  OBVIOUS
<1>2. /\ Committed(r, {b})
      /\ bookings' = [bookings EXCEPT ![b].status = "cancelled"]
      /\ UNCHANGED <<transactions, notified>>
  BY <1>1 DEF CommitCancelBooking
<1>3. b \in BookingIds
  BY <1>1 DEF CommitCancelBooking, Open, IInv, SessionsKnow, Knows, BookingSession
<1>4. bookings' \in [BookingIds -> BookingRow]
  BY <1>2, <1>3 DEF IInv, TypeOK, BookingRow
<1>5. /\ request' \in [Requests -> Session \cup {None}]
      /\ raced' \in [Requests -> SUBSET Rows]
      /\ races' \subseteq SUBSET Rows
      /\ SessionsKnow'
  BY <1>2, <1>3, CommitKeepsSessions DEF IInv, TypeOK
<1>6. \A p : LostWrite(p) => LostWrite(p)'
  BY <1>2, RacesStay
<1>7. InOrder'
  BY <1>2, <1>6 DEF IInv, InOrder, RefundWithinPayment, RefundsAddUp,
                     RefundedWhenAllIs, NothingToldYet
<1> QED
  BY <1>2, <1>4, <1>5, <1>7 DEF IInv, TypeOK

LEMMA PaymentInv ==
  ASSUME IInv, NEW r \in Requests, CommitPayment(r)
  PROVE  IInv'
<1>1. PICK b : b = request[r].target
  OBVIOUS
<1>2. PICK s : s = request[r]
  OBVIOUS
<1>3. /\ s \in Session /\ s.handler = "create_payment" /\ b = s.target
      /\ b \in BookingIds
  BY <1>1, <1>2 DEF CommitPayment, Open, IInv, TypeOK, SessionsKnow, Knows,
                    BookingSession
<1>4. PICK p \in PaymentIds :
        /\ transactions[p] = None
        /\ transactions' = [transactions EXCEPT ![p] =
             [booking |-> b, status |-> "captured",
              amount_cents |-> s.amount, refunded_cents |-> 0]]
        /\ \/ bookings' = [bookings EXCEPT ![b].status = "confirmed"]
              /\ Committed(r, {p, b})
           \/ bookings' = bookings /\ Committed(r, {p})
  BY <1>1, <1>2 DEF CommitPayment
<1>5. PICK S \in SUBSET Rows :
        /\ Committed(r, S)
        /\ p \in S
        /\ \A c \in BookingIds \ S : bookings'[c] = bookings[c]
  BY <1>3, <1>4 DEF IInv, TypeOK
<1>6. PICK row : row = [booking |-> b, status |-> "captured",
                        amount_cents |-> s.amount, refunded_cents |-> 0]
  OBVIOUS
<1>7. /\ row \in Transaction /\ row # None
      /\ row.refunded_cents = 0 /\ row.amount_cents \in 0..MaxInt
      /\ row.status = "captured"
  BY <1>3, <1>6 DEF Session, Transaction, PaymentStatus
<1>8. transactions' = [transactions EXCEPT ![p] = row]
  BY <1>4, <1>6
<1>9. UNCHANGED notified
  BY DEF CommitPayment
<1>10. /\ bookings' \in [BookingIds -> BookingRow]
       /\ transactions' \in [PaymentIds -> Transaction \cup {None}]
  BY <1>3, <1>4, <1>7, <1>8 DEF IInv, TypeOK, BookingRow
<1>11. /\ request' \in [Requests -> Session \cup {None}]
       /\ raced' \in [Requests -> SUBSET Rows]
       /\ races' \subseteq SUBSET Rows
       /\ SessionsKnow'
  <2>1. \A q \in PaymentIds \ S : transactions'[q] = transactions[q]
    BY <1>5, <1>8 DEF IInv, TypeOK
  <2>2. \A q \in PaymentIds : transactions[q] # None =>
           /\ transactions'[q] # None
           /\ transactions'[q].amount_cents = transactions[q].amount_cents
    BY <1>4, <1>8 DEF IInv, TypeOK
  <2> QED
    BY <1>5, <2>1, <2>2, CommitKeepsSessions
<1>12. \A q : LostWrite(q) => LostWrite(q)'
  BY <1>5, RacesStay
<1>13. ASSUME NEW q \in PaymentIds
       PROVE  /\ q # p => transactions'[q] = transactions[q]
              /\ q = p => transactions'[q] = row /\ notified'[q] = 0
              /\ notified'[q] = notified[q]
  BY <1>4, <1>8, <1>9 DEF IInv, TypeOK, InOrder, NothingToldYet
<1>14. InOrder'
  <2>1. RefundWithinPayment'
    BY <1>7, <1>13 DEF IInv, InOrder, RefundWithinPayment
  <2>2. RefundsAddUp'
    BY <1>7, <1>12, <1>13 DEF IInv, InOrder, RefundsAddUp
  <2>3. RefundedWhenAllIs'
    BY <1>7, <1>12, <1>13 DEF IInv, InOrder, RefundedWhenAllIs
  <2>4. NothingToldYet'
    BY <1>7, <1>13 DEF IInv, InOrder, NothingToldYet
  <2> QED
    BY <2>1, <2>2, <2>3, <2>4 DEF InOrder
<1> QED
  BY <1>9, <1>10, <1>11, <1>14 DEF IInv, TypeOK

(* A refund adds to the row it loaded.  If nobody wrote the row since, it  *)
(* still is as loaded and the amounts stay in order, and otherwise this is *)
(* a lost write.  In both cases the new amount is within the payment.      *)
LEMMA RefundInv ==
  ASSUME IInv, NEW r \in Requests, CommitRefund(r)
  PROVE  IInv'
<1>1. PICK s : s = request[r]
  OBVIOUS
<1>2. PICK p : p = s.target
  OBVIOUS
<1>3. PICK old : old = s.loaded
  OBVIOUS
<1>4. PICK written : written = raced[r]
  OBVIOUS
<1>5. s \in Session /\ s # None /\ s.handler = "refund_payment"
  BY <1>1 DEF CommitRefund, Open, IInv, TypeOK
<1>6. /\ p \in PaymentIds
      /\ transactions[p] \in Transaction /\ transactions[p] # None
      /\ old \in Transaction
      /\ old.amount_cents = transactions[p].amount_cents
      /\ 0 < s.amount /\ s.amount <= old.amount_cents - old.refunded_cents
      /\ p \notin written => transactions[p] = old
  BY <1>1, <1>2, <1>3, <1>4, <1>5
  DEF IInv, TypeOK, SessionsKnow, Knows, RefundSession, Remaining
<1>7. PICK refunded : refunded = old.refunded_cents + s.amount
  OBVIOUS
<1>8. PICK row : row =
        [transactions[p] EXCEPT
           !.refunded_cents = refunded,
           !.status = IF refunded = old.amount_cents
                      THEN Assign(@, old.status, "refunded") ELSE @]
  OBVIOUS
<1>9. /\ transactions' = [transactions EXCEPT ![p] = row]
      /\ notified' = [notified EXCEPT ![p] = @ + s.amount]
      /\ Committed(r, {p})
      /\ UNCHANGED bookings
  BY <1>1, <1>2, <1>3, <1>6, <1>7, <1>8 DEF CommitRefund, IInv, TypeOK
<1>10. /\ s.amount \in Nat /\ refunded \in 0..MaxInt
       /\ refunded <= old.amount_cents /\ 0 < refunded
  BY <1>5, <1>6, <1>7 DEF Session, Transaction
<1>11. /\ row \in Transaction /\ row # None
       /\ row.amount_cents = old.amount_cents
       /\ row.refunded_cents = refunded
       /\ row.status = IF refunded = old.amount_cents
                       THEN Assign(transactions[p].status, old.status, "refunded")
                       ELSE transactions[p].status
  BY <1>6, <1>8, <1>10 DEF Transaction, Assign, PaymentStatus
<1>12. /\ transactions' \in [PaymentIds -> Transaction \cup {None}]
       /\ notified' \in [PaymentIds -> Nat]
  BY <1>6, <1>9, <1>10, <1>11 DEF IInv, TypeOK
<1>13. /\ request' \in [Requests -> Session \cup {None}]
       /\ raced' \in [Requests -> SUBSET Rows]
       /\ races' \subseteq SUBSET Rows
       /\ SessionsKnow'
  <2>1. {p} \in SUBSET Rows
    BY <1>6
  <2>2. \A q \in PaymentIds \ {p} : transactions'[q] = transactions[q]
    BY <1>9 DEF IInv, TypeOK
  <2>3. \A q \in PaymentIds : transactions[q] # None =>
           /\ transactions'[q] # None
           /\ transactions'[q].amount_cents = transactions[q].amount_cents
    BY <1>6, <1>9, <1>11 DEF IInv, TypeOK
  <2> QED
    BY <1>9, <2>1, <2>2, <2>3, CommitKeepsSessions
<1>14. \A q : LostWrite(q) => LostWrite(q)'
  BY <1>9, RacesStay
<1>15. p \in written => LostWrite(p)'
  BY <1>4, <1>9, CommitRecordsLostWrites
<1>16. ASSUME NEW q \in PaymentIds
       PROVE  /\ q # p => transactions'[q] = transactions[q]
                           /\ notified'[q] = notified[q]
              /\ q = p => transactions'[q] = row
                           /\ notified'[q] = notified[p] + s.amount
  BY <1>9 DEF IInv, TypeOK
<1>17. RefundWithinPayment'
  BY <1>10, <1>11, <1>16 DEF IInv, InOrder, RefundWithinPayment
<1>18. RefundsAddUp'
  <2>1. notified[p] = transactions[p].refunded_cents \/ LostWrite(p)
    BY <1>6 DEF IInv, InOrder, RefundsAddUp
  <2>2. p \notin written =>
          notified[p] + s.amount = refunded \/ LostWrite(p)
    BY <1>6, <1>7, <2>1
  <2> QED
    BY <1>11, <1>14, <1>15, <1>16, <2>2 DEF IInv, InOrder, RefundsAddUp
<1>19. RefundedWhenAllIs'
  <2>1. \/ (transactions[p].status = "refunded") <=>
              /\ transactions[p].amount_cents = transactions[p].refunded_cents
              /\ transactions[p].amount_cents > 0
        \/ LostWrite(p)
    BY <1>6 DEF IInv, InOrder, RefundedWhenAllIs
  <2>2. p \notin written =>
          \/ (row.status = "refunded") <=>
                row.amount_cents = row.refunded_cents /\ row.amount_cents > 0
          \/ LostWrite(p)
    BY <1>6, <1>10, <1>11, <2>1 DEF Assign, Transaction, PaymentStatus
  <2> QED
    BY <1>14, <1>15, <1>16, <2>2 DEF IInv, InOrder, RefundedWhenAllIs
<1>20. NothingToldYet'
  BY <1>11, <1>16 DEF IInv, InOrder, NothingToldYet
<1> QED
  BY <1>9, <1>12, <1>13, <1>17, <1>18, <1>19, <1>20 DEF IInv, TypeOK, InOrder
------------------------------------------------------------------------------
LEMMA NextInv == IInv /\ [Next]_vars => IInv'
<1> SUFFICES ASSUME IInv, [Next]_vars PROVE IInv'
  OBVIOUS
<1>1. ASSUME NEW r \in Requests, BeginCancelBooking(r) PROVE IInv'
  <2>1. PICK b \in BookingIds :
          bookings[b].status # "cancelled" /\ Begin(r, "cancel_booking", b, bookings[b], 0)
    BY <1>1 DEF BeginCancelBooking
  <2> QED
    BY <2>1, BeginInv
<1>2. ASSUME NEW r \in Requests, BeginPayment(r) PROVE IInv'
  <2>1. PICK b \in BookingIds, a \in Amounts :
          bookings[b].status # "cancelled" /\ Begin(r, "create_payment", b, bookings[b], a)
    BY <1>2 DEF BeginPayment
  <2> QED
    BY <2>1, BeginInv
<1>3. ASSUME NEW r \in Requests, BeginRefund(r) PROVE IInv'
  <2>1. PICK p \in PaymentIds : /\ transactions[p] # None
          /\ \E a \in Refunds \cup {Remaining(transactions[p])} :
               /\ 0 < a /\ a <= Remaining(transactions[p])
               /\ Begin(r, "refund_payment", p, transactions[p], a)
    BY <1>3 DEF BeginRefund
  <2>2. PICK a \in Refunds \cup {Remaining(transactions[p])} :
          /\ 0 < a /\ a <= Remaining(transactions[p])
          /\ Begin(r, "refund_payment", p, transactions[p], a)
    BY <2>1
  <2>3. transactions[p] \in Transaction
    BY <2>1 DEF IInv, TypeOK
  <2>4. a \in 0..MaxInt
    BY <2>2, <2>3 DEF Remaining, Transaction
  <2> QED
    BY <2>1, <2>2, <2>4, BeginInv
<1>4. CASE UNCHANGED vars
  BY <1>4 DEF vars, tables, sessions, IInv, TypeOK, SessionsKnow, Knows,
              RefundSession, BookingSession, InOrder, RefundWithinPayment,
              RefundsAddUp, RefundedWhenAllIs, NothingToldYet, LostWrite
<1> QED
  BY <1>1, <1>2, <1>3, <1>4, CancelInv, PaymentInv, RefundInv, RollbackInv
  DEF Next

(* What open requests know of the rows they loaded stays true as long as   *)
(* they are open (payment.py:54-165).                                      *)
THEOREM Invariance == Spec => []IInv
<1> QED
  BY InitInv, NextInv, PTL DEF Spec

(* The tables keep their types: no amount leaves the range of its column,  *)
(* and a transaction is always captured or refunded, so that               *)
(* capture_payment never has anything to do.                               *)
THEOREM TypeCorrect == Spec => []TypeOK
<1>1. IInv => TypeOK
  BY DEF IInv
<1> QED
  BY <1>1, Invariance, PTL

(* No interleaving of refunds makes the table show more refunded than was  *)
(* paid.                                                                   *)
THEOREM NeverRefundedTooMuch == Spec => []RefundWithinPayment
<1>1. IInv => RefundWithinPayment
  BY DEF IInv, InOrder
<1> QED
  BY <1>1, Invariance, PTL

(* What users were told and what the table says differ only where refunds  *)
(* of one transaction overlapped.                                          *)
THEOREM RefundsLostOnlyInRaces == Spec => []RefundsAddUp
<1>1. IInv => RefundsAddUp
  BY DEF IInv, InOrder
<1> QED
  BY <1>1, Invariance, PTL

(* The status and the amount of a transaction agree but for overlapping    *)
(* refunds.                                                                *)
THEOREM StatusFollowsAmount == Spec => []RefundedWhenAllIs
<1>1. IInv => RefundedWhenAllIs
  BY DEF IInv, InOrder
<1> QED
  BY <1>1, Invariance, PTL

(* A payment that does not overlap the cancellation of its booking is not  *)
(* taken once the booking is cancelled.                                    *)
THEOREM NoMoneyForCancelled == Spec => CancelledIsNotPaid
<1>1. IInv /\ [Next]_vars =>
        [\A p \in PaymentIds, b \in BookingIds :
           /\ transactions[p] = None /\ transactions'[p] # None
           /\ transactions'[p].booking = b
           /\ bookings[b].status = "cancelled"
           => {p, b} \in races']_vars
  <2> SUFFICES ASSUME IInv, [Next]_vars, NEW p \in PaymentIds, NEW b \in BookingIds,
                      transactions[p] = None, transactions'[p] # None,
                      transactions'[p].booking = b, bookings[b].status = "cancelled"
               PROVE  {p, b} \in races'
    OBVIOUS
  <2>1. PICK r \in Requests : CommitPayment(r)
    <3>1. ASSUME NEW r \in Requests, CommitRefund(r) PROVE FALSE
      <4>1. PICK s : s = request[r]
        OBVIOUS
      <4>2. s.target \in PaymentIds /\ transactions[s.target] # None
        BY <3>1, <4>1 DEF CommitRefund, Open, IInv, SessionsKnow, Knows, RefundSession
      <4>3. s.target # p
        BY <4>2
      <4> QED
        BY <3>1, <4>1, <4>3 DEF CommitRefund, IInv, TypeOK
    <3>2. transactions' # transactions
      OBVIOUS
    <3> QED
      BY <3>1, <3>2
      DEF Next, vars, tables, BeginCancelBooking, BeginPayment, BeginRefund,
          Begin, CommitCancelBooking, Abort
  <2>2. PICK s : s = request[r]
    OBVIOUS
  <2>3. PICK written : written = raced[r]
    OBVIOUS
  <2>4. /\ s # None /\ s.handler = "create_payment"
        /\ BookingSession(s, written)
    BY <2>1, <2>2, <2>3 DEF CommitPayment, Open, IInv, SessionsKnow, Knows
  <2>5. PICK q \in PaymentIds :
          /\ transactions' = [transactions EXCEPT ![q] =
               [booking |-> s.target, status |-> "captured",
                amount_cents |-> s.amount, refunded_cents |-> 0]]
          /\ Committed(r, {q, s.target}) \/ Committed(r, {q})
    BY <2>1, <2>2 DEF CommitPayment
  <2>6. p = q /\ s.target = b
    BY <2>5 DEF IInv, TypeOK
  <2>7. b \in written
    BY <2>4, <2>6 DEF BookingSession
  <2> QED
    BY <2>3, <2>5, <2>6, <2>7, CommitRecordsRaces
<1> QED
  BY <1>1, Invariance, PTL DEF Spec, CancelledIsNotPaid
==============================================================================
