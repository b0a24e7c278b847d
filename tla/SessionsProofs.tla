--------------------------- MODULE SessionsProofs ---------------------------
(* Lemmas about the sessions of every component. *)
EXTENDS Sessions, TLAPS

(* A commit remembers that it raced: what it writes is paired with all     *)
(* that was written since its request began.                               *)
LEMMA CommitRecordsRaces ==
  ASSUME NEW r, NEW S, NEW x \in S, NEW y \in raced[r], Committed(r, S)
  PROVE  {x, y} \in races'
BY DEF Committed

(* A write of a row the request raced with is a lost write. *)
LEMMA CommitRecordsLostWrites ==
  ASSUME NEW r, NEW S, NEW x \in S, x \in raced[r], Committed(r, S)
  PROVE  LostWrite(x)'
<1>1. {x, x} \in races'
  BY CommitRecordsRaces
<1> QED
  BY <1>1 DEF LostWrite

LEMMA RacesStay ==
  ASSUME NEW r, NEW S, NEW x, NEW y, Committed(r, S)
  PROVE  /\ Raced(x, y) => Raced(x, y)'
         /\ LostWrite(x) => LostWrite(x)'
BY DEF Committed, Raced, LostWrite
==============================================================================
