------------------------------- MODULE MCAuth -------------------------------
(* Instances of Auth for TLC. *)
EXTENDS Auth, TLC

(* Two ways to type one address. *)
TwoSpellings == {"Ann", "ann"}
LowerCase == [a \in TwoSpellings |-> "ann"]

(* Sound for safety: requests are interchangeable, and so are the ids that *)
(* no definition chooses between.                                          *)
Interchangeable ==
  Permutations(Requests) \cup Permutations(Tokens) \cup Permutations(Resets)
==============================================================================
