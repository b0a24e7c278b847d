----------------------------- MODULE MCPayments -----------------------------
(* Instances of Payments for TLC. *)
EXTENDS Payments, TLC

Interchangeable ==
  Permutations(Requests) \cup Permutations(BookingIds) \cup Permutations(PaymentIds)
==============================================================================
