----------------------------- MODULE SlotLedger -----------------------------
(***************************************************************************)
(* What the booking service promises, without sessions, tables or clocks:  *)
(* a ledger of claims, each on one slot (a context and an interval).  A    *)
(* claim is only ever entered or moved to a slot that is free of every     *)
(* other claim, a hold is replaced by the booking made from it in one      *)
(* step, and claims may be given up at any time, several at once when      *)
(* holds run out together.                                                 *)
(***************************************************************************)
EXTENDS Resources

CONSTANT ClaimIds

VARIABLE ledger      \* [ClaimIds -> a slot, or None]

Free(slot, ours) ==
  \A x \in ClaimIds \ ours : ledger[x] # None =>
    ~(SharesSpace(slot.ctx, ledger[x].ctx) /\ Overlaps(slot, ledger[x]))

LedgerInit == ledger = [x \in ClaimIds |-> None]

Take(x, slot) ==
  /\ ledger[x] = None
  /\ Free(slot, {x})
  /\ ledger' = [ledger EXCEPT ![x] = slot]

(* A booking takes over the slot of a hold. *)
TakeOver(x, y) ==
  /\ ledger[x] # None /\ ledger[y] = None
  /\ ledger' = [ledger EXCEPT ![x] = None, ![y] = ledger[x]]

Move(x, slot) ==
  /\ ledger[x] # None
  /\ ledger[x].ctx = slot.ctx
  /\ Free(slot, {x})
  /\ ledger' = [ledger EXCEPT ![x] = slot]

Release(gone) ==
  ledger' = [x \in ClaimIds |-> IF x \in gone THEN None ELSE ledger[x]]

(* The slot of a Take or a Move is the one the ledger shows afterwards. *)
LedgerNext ==
  \/ \E x \in ClaimIds : ledger'[x] # None /\ Take(x, ledger'[x])
  \/ \E x, y \in ClaimIds : TakeOver(x, y)
  \/ \E x \in ClaimIds : ledger'[x] # None /\ Move(x, ledger'[x])
  \/ \E gone \in SUBSET ClaimIds : Release(gone)

LedgerSpec == LedgerInit /\ [][LedgerNext]_ledger
==============================================================================
