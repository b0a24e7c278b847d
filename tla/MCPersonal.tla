----------------------------- MODULE MCPersonal -----------------------------
(* Instances of Personal for TLC. *)
EXTENDS Personal, TLC

(* The three tables have no row in common, so handlers of different tables *)
(* do not meet.                                                            *)
OneTableAtATime ==
  {{"update_notification_preferences"},
   {"register_push_token", "delete_push_token"},
   {"create_favorite_venue", "delete_favorite_venue"}}

(* Sound: no liveness is checked, and these values are interchangeable. *)
Interchangeable ==
  Permutations(Requests) \cup Permutations(Users) \cup Permutations(DeviceIds)
    \cup Permutations(Platforms)
==============================================================================
