------------------------------ MODULE Personal ------------------------------
(***************************************************************************)
(* What a user keeps: notification preferences and push devices            *)
(* (app/services/notification.py) and favourite venues                     *)
(* (app/services/favorite.py).                                             *)
(*                                                                         *)
(* The handlers share one shape: a SELECT looks for the row of a key, and  *)
(* the commit inserts it, changes it or deletes it by its primary key.     *)
(* Nothing holds the key in between.  An INSERT of a key that is taken by  *)
(* then, and an UPDATE of a row that is gone, make the commit fail, and    *)
(* neither exception is expected anywhere: the request ends in the handler *)
(* of unexpected errors (app/api/errors.py).  A DELETE of a row that is    *)
(* gone does nothing.                                                      *)
(*                                                                         *)
(* The rows that other handlers add to table notifications are part of     *)
(* their commits and are never changed, so they are not here; neither is   *)
(* last_seen_at, which every registration sets, so that its UPDATE is      *)
(* always sent.                                                            *)
(***************************************************************************)
EXTENDS Sessions

CONSTANTS
  Users, Venues,
  PushTokens,    \* the addresses the push service gives to installations
  Platforms,
  DeviceIds,     \* bound: the rows that can ever be in notification_devices
  Fields,        \* the columns of notification_prefs that can be set
  OnByDefault,   \* those of them a new row has at True
  Workloads      \* bound: the sets of handlers clients call together

VARIABLES
  prefs,         \* table notification_prefs: [Users -> a row or None]
  devices,       \* table notification_devices: [DeviceIds -> a row or None]
  unused,        \* the device ids no row has had yet (a uuid is never reused)
  favourites,    \* table favorite_venues: a set of <<user, venue>>
  workload,      \* bound: the handlers clients call, the same for ever
  wanted,        \* ghost: what each user last asked for, by field
  registered     \* ghost: the last registration of each push token

tables == <<prefs, devices, unused, favourites>>
vars == <<tables, workload, wanted, registered, sessions>>
------------------------------------------------------------------------------
PrefRow == [Fields -> BOOLEAN]
DeviceRow == [user : Users, token : PushTokens, platform : Platforms]
Registration == [user : Users, platform : Platforms]

(* A payload may leave fields out. *)
Wish == [Fields -> BOOLEAN \cup {None}]

(* The rows handlers look for: preferences by their user, devices by their *)
(* id, favourites by the pair.                                             *)
Keys == Users \cup DeviceIds \cup (Users \X Venues)

PrefSession ==
  [handler : {"update_notification_preferences"}, pc : {"commit"},
   user : Users, loaded : PrefRow \cup {None}, wish : Wish]

DeviceSession ==
  [handler : {"register_push_token", "delete_push_token"}, pc : {"commit"},
   user : Users, token : PushTokens, platform : Platforms,
   target : DeviceIds \cup {None}, loaded : DeviceRow \cup {None}]

FavouriteSession ==
  [handler : {"create_favorite_venue", "delete_favorite_venue"},
   pc : {"commit"}, user : Users, venue : Venues]

Session == PrefSession \cup DeviceSession \cup FavouriteSession

ASSUME PersonalAssumption ==
  /\ OnByDefault \subseteq Fields
  /\ Users \cap DeviceIds = {}
  /\ (Users \cup DeviceIds) \cap (Users \X Venues) = {}
  /\ None \notin Keys \cup PushTokens \cup BOOLEAN
  /\ None \notin PrefRow \cup DeviceRow \cup Registration \cup Session

Defaults == [f \in Fields |-> f \in OnByDefault]

(* The device with a push token, if there is one. *)
DevicesOf(t) == {d \in DeviceIds : devices[d] # None /\ devices[d].token = t}

Init ==
  /\ workload \in Workloads
  /\ prefs = [u \in Users |-> None]
  /\ devices = [d \in DeviceIds |-> None]
  /\ unused = DeviceIds
  /\ favourites = {}
  /\ wanted = [u \in Users |-> Defaults]
  /\ registered = [t \in PushTokens |-> None]
  /\ NoRequests

Begin(r, s) ==
  /\ s.handler \in workload
  /\ OpenSession(r, s)
  /\ UNCHANGED <<tables, workload, wanted, registered>>
------------------------------------------------------------------------------
(* update_notification_preferences *)
BeginUpdatePreferences(r) ==
  \E u \in Users, wish \in Wish :
    Begin(r, [handler |-> "update_notification_preferences", pc |-> "commit",
              user |-> u, loaded |-> prefs[u], wish |-> wish])

(* Variant: a field the payload leaves out goes back to its default. *)
OverlaidDefaults(row, wish) ==
  [f \in Fields |-> IF wish[f] = None THEN Defaults[f] ELSE wish[f]]

(* Variant: the fields the payload leaves out are assigned, too. *)
OverlaidAsSent(row, wish) == wish

(* Only the fields of the payload that are not None are assigned. *)
Overlaid(row, wish) ==
  [f \in Fields |-> IF wish[f] = None THEN row[f] ELSE wish[f]]

InsertPreferences(r) ==
  LET s == request[r] IN
  /\ Open(r, "update_notification_preferences", "commit")
  /\ s.loaded = None /\ prefs[s.user] = None
  /\ prefs' = [prefs EXCEPT ![s.user] = Overlaid(Defaults, s.wish)]
  /\ wanted' = [wanted EXCEPT ![s.user] =
       [f \in Fields |-> IF s.wish[f] = None THEN @[f] ELSE s.wish[f]]]
  /\ Committed(r, {s.user})
  /\ UNCHANGED <<workload, devices, unused, favourites, registered>>

UpdatePreferences(r) ==
  LET s == request[r]
      new == Overlaid(s.loaded, s.wish)
  IN
  /\ Open(r, "update_notification_preferences", "commit")
  /\ s.loaded # None
  /\ prefs' = [prefs EXCEPT ![s.user] =
       [f \in Fields |-> Assign(@[f], s.loaded[f], new[f])]]
  /\ wanted' = [wanted EXCEPT ![s.user] =
       [f \in Fields |-> IF s.wish[f] = None THEN @[f] ELSE s.wish[f]]]
  /\ Committed(r, {s.user})
  /\ UNCHANGED <<workload, devices, unused, favourites, registered>>
------------------------------------------------------------------------------
(* Variant: register_push_token looks for the token among the devices of   *)
(* the current user only.                                                  *)
BeginRegisterPushTokenOwn(r) ==
  \E u \in Users, t \in PushTokens, p \in Platforms :
    LET own == {d \in DevicesOf(t) : devices[d].user = u} IN
    \E d \in IF own = {} THEN {None} ELSE own :
      Begin(r, [handler |-> "register_push_token", pc |-> "commit", user |-> u,
                token |-> t, platform |-> p, target |-> d,
                loaded |-> IF d = None THEN None ELSE devices[d]])

(* register_push_token *)
BeginRegisterPushToken(r) ==
  \E u \in Users, t \in PushTokens, p \in Platforms :
    \E d \in IF DevicesOf(t) = {} THEN {None} ELSE DevicesOf(t) :
      Begin(r, [handler |-> "register_push_token", pc |-> "commit", user |-> u,
                token |-> t, platform |-> p, target |-> d,
                loaded |-> IF d = None THEN None ELSE devices[d]])

(* Bound: while a device id is left. *)
InsertDevice(r) ==
  LET s == request[r] IN
  /\ Open(r, "register_push_token", "commit")
  /\ s.target = None /\ DevicesOf(s.token) = {}
  /\ \E d \in unused :
       /\ devices' = [devices EXCEPT ![d] =
            [user |-> s.user, token |-> s.token, platform |-> s.platform]]
       /\ unused' = unused \ {d}
       /\ Committed(r, {d})
  /\ registered' = [registered EXCEPT ![s.token] =
       [user |-> s.user, platform |-> s.platform]]
  /\ UNCHANGED <<workload, prefs, favourites, wanted>>

(* Variant: the platform of a known device is not updated. *)
UpdateDeviceOwner(r) ==
  LET s == request[r] IN
  /\ Open(r, "register_push_token", "commit")
  /\ s.target # None /\ devices[s.target] # None
  /\ devices' = [devices EXCEPT ![s.target].user = Assign(@, s.loaded.user, s.user)]
  /\ registered' = [registered EXCEPT ![s.token] =
       [user |-> s.user, platform |-> s.platform]]
  /\ Committed(r, {s.target})
  /\ UNCHANGED <<workload, prefs, unused, favourites, wanted>>

(* A device that is known already goes to the current user. *)
UpdateDevice(r) ==
  LET s == request[r] IN
  /\ Open(r, "register_push_token", "commit")
  /\ s.target # None /\ devices[s.target] # None
  /\ devices' = [devices EXCEPT
       ![s.target].user = Assign(@, s.loaded.user, s.user),
       ![s.target].platform = Assign(@, s.loaded.platform, s.platform)]
  /\ registered' = [registered EXCEPT ![s.token] =
       [user |-> s.user, platform |-> s.platform]]
  /\ Committed(r, {s.target})
  /\ UNCHANGED <<workload, prefs, unused, favourites, wanted>>

(* Variant: any user's device can be deleted. *)
BeginDeletePushTokenOfAny(r) ==
  \E u \in Users, d \in DeviceIds :
    /\ devices[d] # None
    /\ Begin(r, [handler |-> "delete_push_token", pc |-> "commit", user |-> u,
                 token |-> devices[d].token, platform |-> devices[d].platform,
                 target |-> d, loaded |-> devices[d]])

(* delete_push_token: nothing happens unless the device is the user's.     *)
BeginDeletePushToken(r) ==
  \E u \in Users, d \in DeviceIds :
    /\ devices[d] # None /\ devices[d].user = u
    /\ Begin(r, [handler |-> "delete_push_token", pc |-> "commit", user |-> u,
                 token |-> devices[d].token, platform |-> devices[d].platform,
                 target |-> d, loaded |-> devices[d]])

(* DELETE ... WHERE id: whoever the row belongs to by now. *)
DeleteDevice(r) ==
  /\ Open(r, "delete_push_token", "commit")
  /\ devices' = [devices EXCEPT ![request[r].target] = None]
  /\ Committed(r, {request[r].target})
  /\ UNCHANGED <<workload, prefs, unused, favourites, wanted, registered>>
------------------------------------------------------------------------------
Pair(r) == <<request[r].user, request[r].venue>>

(* create_favorite_venue commits only if it found no row, and              *)
(* delete_favorite_venue only if it found one.                             *)
BeginFavourite(r) ==
  \E u \in Users, v \in Venues :
    Begin(r, [handler |-> IF <<u, v>> \in favourites THEN "delete_favorite_venue"
                          ELSE "create_favorite_venue",
              pc |-> "commit", user |-> u, venue |-> v])

AddFavourite(r) ==
  /\ Open(r, "create_favorite_venue", "commit")
  /\ Pair(r) \notin favourites
  /\ favourites' = favourites \cup {Pair(r)}
  /\ Committed(r, {Pair(r)})
  /\ UNCHANGED <<workload, prefs, devices, unused, wanted, registered>>

RemoveFavourite(r) ==
  /\ Open(r, "delete_favorite_venue", "commit")
  /\ favourites' = favourites \ {Pair(r)}
  /\ Committed(r, {Pair(r)})
  /\ UNCHANGED <<workload, prefs, devices, unused, wanted, registered>>
------------------------------------------------------------------------------
(* The rows that make the commit of an open request fail: the ones that    *)
(* took the key it inserts, or the one it updates, when that is gone.      *)
InTheWay(s) ==
  {x \in Keys :
     \/ /\ s.handler = "update_notification_preferences"
        /\ s.loaded = None /\ x = s.user /\ prefs[x] # None
     \/ /\ s.handler = "register_push_token"
        /\ s.target = None /\ x \in DevicesOf(s.token)
     \/ /\ s.handler = "register_push_token"
        /\ x = s.target /\ devices[x] = None
     \/ /\ s.handler = "create_favorite_venue"
        /\ x = <<s.user, s.venue>> /\ x \in favourites}

(* IntegrityError, or StaleDataError: nothing is written. *)
FailCommit(r) ==
  /\ request[r] # None
  /\ InTheWay(request[r]) # {}
  /\ Committed(r, {})
  /\ UNCHANGED <<tables, workload, wanted, registered>>

(* The client goes away, the process or the connection dies. *)
Abort(r) ==
  /\ request[r] # None
  /\ Committed(r, {})
  /\ UNCHANGED <<tables, workload, wanted, registered>>

Next ==
  \E r \in Requests :
    \/ BeginUpdatePreferences(r) \/ InsertPreferences(r) \/ UpdatePreferences(r)
    \/ BeginRegisterPushToken(r) \/ InsertDevice(r) \/ UpdateDevice(r)
    \/ BeginDeletePushToken(r) \/ DeleteDevice(r)
    \/ BeginFavourite(r) \/ AddFavourite(r) \/ RemoveFavourite(r)
    \/ FailCommit(r) \/ Abort(r)

Spec == Init /\ [][Next]_vars
------------------------------------------------------------------------------
TypeOK ==
  /\ workload \in Workloads
  /\ prefs \in [Users -> PrefRow \cup {None}]
  /\ devices \in [DeviceIds -> DeviceRow \cup {None}]
  /\ unused \subseteq DeviceIds
  /\ favourites \subseteq Users \X Venues
  /\ wanted \in [Users -> PrefRow]
  /\ registered \in [PushTokens -> Registration \cup {None}]
  /\ request \in [Requests -> Session \cup {None}]
  /\ raced \in [Requests -> SUBSET Keys]
  /\ races \subseteq SUBSET Keys

(* A request dies of an unexpected error only when another one wrote the   *)
(* row it is about since it looked: a user who repeats a request after the *)
(* first has ended never meets one (notification.py:72, notification.py:153, *)
(* favorite.py:87).                                                        *)
FailureNeedsRace ==
  \A r \in Requests : request[r] # None => InTheWay(request[r]) \subseteq raced[r]

(* A push token has one device, and the device is the one of the user and  *)
(* the platform registered last, whoever had it before; unless two         *)
(* requests wrote it at once, when the UPDATE of changed columns can leave *)
(* one user's name on the other's platform (notification.py:165-167).      *)
DeviceIsAsRegistered ==
  \A d \in DeviceIds : devices[d] # None =>
    /\ DevicesOf(devices[d].token) = {d}
    /\ \/ registered[devices[d].token] =
            [user |-> devices[d].user, platform |-> devices[d].platform]
       \/ LostWrite(d)

(* Nobody's registration is deleted by another user, unless the row was    *)
(* registered anew between the SELECT and the DELETE of its former user    *)
(* (notification.py:181-191).                                              *)
RegistrationLossNeedsRace ==
  [][\A r \in Requests, d \in DeviceIds :
       devices[d] # None /\ devices'[d] = None /\ request[r] # None
         /\ request'[r] = None
       => request[r].user = devices[d].user \/ LostWrite(d)']_vars

(* Every field of a user's preferences is what the user last asked for, or *)
(* the default, unless two updates of them overlapped: the second does not *)
(* send a field that it found as it wants it (notification.py:86-93).      *)
PrefsAsAsked ==
  \A u \in Users :
    \/ wanted[u] = IF prefs[u] = None THEN Defaults ELSE prefs[u]
    \/ LostWrite(u)
==============================================================================
