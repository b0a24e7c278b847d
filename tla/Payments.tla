------------------------------ MODULE Payments ------------------------------
(***************************************************************************)
(* Transactions and their refunds: app/services/payment.py, with the part  *)
(* of a booking that payments read and write, its status.                  *)
(*                                                                         *)
(* A refund loads a transaction, computes from what it loaded, and writes  *)
(* an absolute amount; refunds of one transaction may overlap.             *)
(*                                                                         *)
(* The mock provider captures a transaction when it is created, so         *)
(* capture_payment finds every transaction captured or refunded (TypeOK    *)
(* says so) and returns it as it is: it is not an action.                  *)
(***************************************************************************)
EXTENDS Integers, Sessions

CONSTANTS
  BookingIds,     \* bound: bookings that exist
  PaymentIds,     \* bound: the transactions that can ever be created
  Amounts,        \* bound: amountCents of the payments
  Refunds,        \* bound: amountCents of the refunds
  MaxInt          \* 2^31 - 1: the largest value of an Integer column

VARIABLES
  bookings,       \* table bookings: [BookingIds -> a row]
  transactions,   \* table transactions: [PaymentIds -> a row or None]
  notified        \* [PaymentIds -> what users were told was refunded, in all]

tables == <<bookings, transactions, notified>>
vars == <<tables, sessions>>
------------------------------------------------------------------------------
(* The status a booking has while payments are made; moves, check-ins and  *)
(* the rest of a booking are in Booking.                                   *)
BookingRow == [status : {"pending", "confirmed", "cancelled"}]

(* The statuses of PaymentStatus that some handler writes. *)
PaymentStatus == {"captured", "refunded"}

Transaction ==
  [booking : BookingIds, status : PaymentStatus,
   amount_cents : 0..MaxInt, refunded_cents : 0..MaxInt]

(* An open request: the row it loaded, and the amount it was asked for.    *)
Session ==
  [handler : {"cancel_booking", "create_payment", "refund_payment"},
   pc : {"commit"}, target : BookingIds \cup PaymentIds,
   loaded : BookingRow \cup Transaction, amount : 0..MaxInt]

ASSUME PaymentsAssumption ==
  /\ MaxInt \in Nat
  /\ Amounts \subseteq 0..MaxInt
  /\ Refunds \subseteq 1..MaxInt
  /\ BookingIds \cap PaymentIds = {}
  /\ None \notin Transaction \cup Session \cup PaymentIds

(* Bookings come to be with and without a payment required. *)
Init ==
  /\ bookings \in [BookingIds -> [status : {"pending", "confirmed"}]]
  /\ transactions = [p \in PaymentIds |-> None]
  /\ notified = [p \in PaymentIds |-> 0]
  /\ NoRequests

Begin(r, handler, x, row, amount) ==
  /\ OpenSession(r, [handler |-> handler, pc |-> "commit", target |-> x,
                     loaded |-> row, amount |-> amount])
  /\ UNCHANGED tables
------------------------------------------------------------------------------
(* cancel_booking leaves the transactions of the booking alone. *)
BeginCancelBooking(r) ==
  \E b \in BookingIds :
    /\ bookings[b].status # "cancelled"
    /\ Begin(r, "cancel_booking", b, bookings[b], 0)

CommitCancelBooking(r) ==
  LET b == request[r].target IN
  /\ Open(r, "cancel_booking", "commit")
  /\ bookings' = [bookings EXCEPT ![b].status = "cancelled"]
  /\ Committed(r, {b})
  /\ UNCHANGED <<transactions, notified>>

(* Variant: a cancelled booking can be paid. *)
BeginPaymentCancelled(r) ==
  \E b \in BookingIds, a \in Amounts :
    Begin(r, "create_payment", b, bookings[b], a)

BeginPayment(r) ==
  \E b \in BookingIds, a \in Amounts :
    /\ bookings[b].status # "cancelled"
    /\ Begin(r, "create_payment", b, bookings[b], a)

(* create_payment: the mock provider captures at once. *)
CommitPayment(r) ==
  LET b == request[r].target IN
  /\ Open(r, "create_payment", "commit")
  /\ \E p \in PaymentIds :
       /\ transactions[p] = None
       /\ transactions' = [transactions EXCEPT ![p] =
            [booking |-> b, status |-> "captured",
             amount_cents |-> request[r].amount, refunded_cents |-> 0]]
       /\ \/ /\ request[r].loaded.status = "pending"
             /\ bookings' = [bookings EXCEPT ![b].status = "confirmed"]
             /\ Committed(r, {p, b})
          \/ /\ request[r].loaded.status # "pending"
             /\ UNCHANGED bookings
             /\ Committed(r, {p})
  /\ UNCHANGED notified
------------------------------------------------------------------------------
(* refund_payment, with an amount or for all that remains. *)
Remaining(row) == row.amount_cents - row.refunded_cents

(* Variant: the amount is compared with the payment, not with the rest. *)
BeginRefundOfAmount(r) ==
  \E p \in PaymentIds :
    /\ transactions[p] # None
    /\ \E a \in Refunds \cup {Remaining(transactions[p])} :
         /\ 0 < a /\ a <= transactions[p].amount_cents
         /\ Begin(r, "refund_payment", p, transactions[p], a)

BeginRefund(r) ==
  \E p \in PaymentIds :
    /\ transactions[p] # None
    /\ \E a \in Refunds \cup {Remaining(transactions[p])} :
         /\ 0 < a /\ a <= Remaining(transactions[p])
         /\ Begin(r, "refund_payment", p, transactions[p], a)

(* Variant: the amount in the table is the amount of the last refund. *)
CommitRefundReplaces(r) ==
  LET s == request[r] p == s.target IN
  /\ Open(r, "refund_payment", "commit")
  /\ transactions' = [transactions EXCEPT
       ![p].refunded_cents = s.amount,
       ![p].status = IF s.amount = s.loaded.amount_cents THEN "refunded" ELSE @]
  /\ notified' = [notified EXCEPT ![p] = @ + s.amount]
  /\ Committed(r, {p})
  /\ UNCHANGED bookings

(* Variant: any refund makes the transaction refunded. *)
CommitRefundClosesAtOnce(r) ==
  LET s == request[r] p == s.target IN
  /\ Open(r, "refund_payment", "commit")
  /\ transactions' = [transactions EXCEPT
       ![p].refunded_cents = s.loaded.refunded_cents + s.amount,
       ![p].status = "refunded"]
  /\ notified' = [notified EXCEPT ![p] = @ + s.amount]
  /\ Committed(r, {p})
  /\ UNCHANGED bookings

CommitRefund(r) ==
  LET s == request[r]
      p == s.target
      refunded == s.loaded.refunded_cents + s.amount
  IN
  /\ Open(r, "refund_payment", "commit")
  /\ transactions' = [transactions EXCEPT
       ![p].refunded_cents = refunded,
       ![p].status = IF refunded = s.loaded.amount_cents
                     THEN Assign(@, s.loaded.status, "refunded") ELSE @]
  /\ notified' = [notified EXCEPT ![p] = @ + s.amount]
  /\ Committed(r, {p})
  /\ UNCHANGED bookings

Abort(r) ==
  /\ request[r] # None
  /\ Committed(r, {})
  /\ UNCHANGED tables
------------------------------------------------------------------------------
Next ==
  \E r \in Requests :
    \/ BeginCancelBooking(r) \/ BeginPayment(r) \/ BeginRefund(r)
    \/ CommitCancelBooking(r) \/ CommitPayment(r) \/ CommitRefund(r)
    \/ Abort(r)

Spec == Init /\ [][Next]_vars
------------------------------------------------------------------------------
TypeOK ==
  /\ bookings \in [BookingIds -> BookingRow]
  /\ transactions \in [PaymentIds -> Transaction \cup {None}]
  /\ notified \in [PaymentIds -> Nat]
  /\ request \in [Requests -> Session \cup {None}]
  /\ raced \in [Requests -> SUBSET (BookingIds \cup PaymentIds)]
  /\ races \subseteq SUBSET (BookingIds \cup PaymentIds)

(* However refunds overlap, a transaction is never refunded for more than  *)
(* was paid, as the table shows it: each refund was checked against the    *)
(* row whose amount it adds to (payment.py:152-157).                       *)
RefundWithinPayment ==
  \A p \in PaymentIds : transactions[p] # None =>
    transactions[p].refunded_cents <= transactions[p].amount_cents

(* The refunds that users are told of add up to the amount in the table,   *)
(* unless two refunds of the transaction overlapped: then one of them is   *)
(* lost (payment.py:157 adds to the value loaded).                         *)
RefundsAddUp ==
  \A p \in PaymentIds : transactions[p] # None =>
    notified[p] = transactions[p].refunded_cents \/ LostWrite(p)

(* A transaction is refunded when all of it is, and a payment of nothing   *)
(* never: unless two refunds overlapped, the status and the amount, which  *)
(* are written as two columns, agree (payment.py:158-159).                 *)
RefundedWhenAllIs ==
  \A p \in PaymentIds : transactions[p] # None =>
    \/ transactions[p].status = "refunded"
          <=> transactions[p].amount_cents = transactions[p].refunded_cents
              /\ transactions[p].amount_cents > 0
    \/ LostWrite(p)

(* Money is taken for a cancelled booking only when the cancellation       *)
(* overlapped the payment (payment.py:49-55).                              *)
CancelledIsNotPaid ==
  [][\A p \in PaymentIds, b \in BookingIds :
       /\ transactions[p] = None /\ transactions'[p] # None
       /\ transactions'[p].booking = b
       /\ bookings[b].status = "cancelled"
       => {p, b} \in races']_vars
==============================================================================
