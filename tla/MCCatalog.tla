----------------------------- MODULE MCCatalog -----------------------------
(* Instances of Catalog for TLC. *)
EXTENDS Catalog, TLC

CONSTANTS m1, m2, A, B, C, p, q

(* Room m1 has the seats A and B, room m2 none; one id is left. *)
Seat(m, l) == [room |-> m, label |-> l, place |-> p]
TwoSeats == <<Seat(m1, A), Seat(m1, B), None>>

Set(d, l, where) == [id |-> d, label |-> l, place |-> where]

(* Swap two labels, pass one on to a new seat, move a seat, name one twice *)
(* (that of another room, or none, when it is sent for m2).                *)
EditorLayouts ==
  {[full |-> None, seats |-> <<Set(1, B, p), Set(2, A, p)>>],
   [full |-> None, seats |-> <<Set(1, C, p), Set(None, A, p)>>],
   [full |-> None, seats |-> <<Set(1, A, q)>>],
   [full |-> TRUE, seats |-> <<Set(1, B, q), Set(1, C, p)>>]}

TwoPermissions == <<"rooms.update", "venues.update">>
TwoRoles == <<"manager", "owner">>
ThreePairs ==
  {<<"manager", "rooms.update">>, <<"owner", "rooms.update">>,
   <<"owner", "venues.update">>}

(* Two features in both orders, and one of them twice. *)
TwoOrders == {<<"Wi-Fi", "Coffee">>, <<"Coffee", "Wi-Fi", "wi fi">>}
Codes == [n \in {"Wi-Fi", "wi fi", "Coffee"} |->
            IF n = "Coffee" THEN "coffee" ELSE "wi_fi"]

OneFeature == <<"wi_fi">>
MeetingRoom == <<[name |-> "Meeting Room B", seats |-> <<"B-1">>]>>
ClientAndOwner ==
  <<[email |-> "demo.client", role |-> "client", atVenue |-> FALSE],
    [email |-> "demo.owner", role |-> "owner", atVenue |-> TRUE]>>
Monday == <<0>>

(* An older release knew the permissions and roles, but granted less. *)
OlderRoles ==
  {Row(Id("permissions", x, 1), {}, None, "seed_rbac") : x \in Range(TwoPermissions)}
    \cup {Row(Id("roles", x, 1), {}, None, "seed_rbac") : x \in Range(TwoRoles)}

EmptyOrOlder == {{}, OlderRoles}

CalledTogether ==
  {{"seed_rbac"}, {"create_venue", "seed_demo"}, {"seed_demo", "seed_tariffs"},
   {"update_room_layout"}}

(* A third call comes after two that met, except where these are many.     *)
TwoOrThree ==
  [w \in CalledTogether |-> IF w = {"create_venue", "seed_demo"} THEN 2 ELSE 3]
==============================================================================
