SPECIFICATION Spec
CONSTANTS
  None = None
  r1 = r1
  r2 = r2
  r3 = r3
  b1 = b1
  p1 = p1
  Requests = {r1, r2, r3}
  BookingIds = {b1}
  PaymentIds = {p1}
  Amounts = {0, 3}
  Refunds = {1, 2}
  MaxInt = 3
SYMMETRY Interchangeable
CHECK_DEADLOCK FALSE
INVARIANTS
  TypeOK
  RefundWithinPayment
  RefundsAddUp
  RefundedWhenAllIs
PROPERTIES
  CancelledIsNotPaid
