--------------------------- MODULE PersonalProofs ---------------------------
(***************************************************************************)
(* Proofs about Personal, for every set of users, venues, push tokens,     *)
(* platforms, devices and requests.                                        *)
(***************************************************************************)
EXTENDS Personal, SessionsProofs

DeviceHandlers == {"register_push_token", "delete_push_token"}

(* What an update of preferences knows: a row that was there stays, and    *)
(* until another request writes it, it is as it was loaded.                *)
KnowsPrefs(s, written) ==
  /\ s.loaded # None => prefs[s.user] # None
  /\ s.user \notin written => prefs[s.user] = s.loaded

(* What a request that found a device knows: its id is used for ever, its  *)
(* token stays while it exists, and until another request writes the row   *)
(* it is as it was loaded.                                                 *)
KnowsDevice(s, written) ==
  s.target # None =>
    /\ s.target \notin unused
    /\ s.loaded # None /\ s.loaded.token = s.token
    /\ devices[s.target] # None => devices[s.target].token = s.token
    /\ s.target \notin written => devices[s.target] = s.loaded

Knows(s, written) ==
  /\ s.handler = "update_notification_preferences" => KnowsPrefs(s, written)
  /\ s.handler \in DeviceHandlers => KnowsDevice(s, written)
  /\ s.handler = "delete_push_token" => s.target # None /\ s.loaded.user = s.user
  /\ InTheWay(s) \subseteq written

SessionsKnow ==
  \A r \in Requests : request[r] # None => Knows(request[r], raced[r])

UnusedAreFree == \A d \in unused : devices[d] = None

IInv ==
  /\ TypeOK
  /\ UnusedAreFree
  /\ SessionsKnow
  /\ DeviceIsAsRegistered
  /\ PrefsAsAsked

USE PersonalAssumption
------------------------------------------------------------------------------
LEMMA InitInv == Init => IInv
<1> SUFFICES ASSUME Init PROVE IInv
  OBVIOUS
<1> USE DEF Init, NoRequests
<1>1. TypeOK
  BY DEF TypeOK, Defaults, PrefRow
<1>2. UnusedAreFree /\ SessionsKnow
  BY DEF UnusedAreFree, SessionsKnow
<1>3. DeviceIsAsRegistered /\ PrefsAsAsked
  BY DEF DeviceIsAsRegistered, PrefsAsAsked
<1> QED
  BY <1>1, <1>2, <1>3 DEF IInv

(* An open request keeps what it knows while others write, as long as they *)
(* leave word of the rows they write, and give no id and no token again.   *)
LEMMA Bystander ==
  ASSUME TypeOK, NEW q \in Requests, request[q] # None,
         Knows(request[q], raced[q]), request'[q] = request[q],
         raced[q] \subseteq raced'[q],
         \A u \in Users : prefs'[u] = prefs[u] \/ u \in raced'[q],
         \A u \in Users : prefs[u] # None => prefs'[u] # None,
         \A d \in DeviceIds : devices'[d] = devices[d] \/ d \in raced'[q],
         \A d \in DeviceIds : devices'[d] # None =>
           d \in unused \/ (devices[d] # None /\ devices'[d].token = devices[d].token),
         unused' \subseteq unused,
         \A x \in favourites' : x \in favourites \/ x \in raced'[q]
  PROVE  Knows(request[q], raced[q])'
<1>1. PICK s \in Session : s = request[q]
  BY DEF TypeOK
<1>2. CASE s \in PrefSession
  <2>1. s.user \in Users /\ s.handler = "update_notification_preferences"
    BY <1>2 DEF PrefSession
  <2>2. KnowsPrefs(s, raced[q]) /\ InTheWay(s) \subseteq raced[q]
    BY <1>1, <2>1 DEF Knows
  <2>3. KnowsPrefs(s, raced[q])'
    BY <1>1, <2>1, <2>2 DEF KnowsPrefs
  <2>4. InTheWay(s)' \subseteq raced'[q]
    BY <1>1, <2>1, <2>2 DEF InTheWay
  <2> QED
    BY <1>1, <2>1, <2>3, <2>4 DEF Knows, DeviceHandlers, KnowsPrefs, InTheWay
<1>3. CASE s \in DeviceSession
  <2>1. /\ s.target \in DeviceIds \cup {None} /\ s.token \in PushTokens
        /\ s.handler \in DeviceHandlers
    BY <1>3 DEF DeviceSession, DeviceHandlers
  <2>2. KnowsDevice(s, raced[q]) /\ InTheWay(s) \subseteq raced[q]
    BY <1>1, <2>1 DEF Knows
  <2>3. KnowsDevice(s, raced[q])'
    BY <1>1, <2>1, <2>2 DEF KnowsDevice
  <2>4. ASSUME NEW x \in InTheWay(s)'
        PROVE  x \in raced'[q]
    <3>1. /\ x \in Keys /\ s.handler = "register_push_token"
          /\ \/ s.target = None /\ x \in DevicesOf(s.token)'
             \/ s.target = x /\ devices'[x] = None
      BY <2>1, <2>4 DEF InTheWay, DeviceHandlers
    <3>2. CASE s.target = None /\ x \in DevicesOf(s.token)'
      <4>1. x \in DeviceIds /\ devices'[x] # None /\ devices'[x].token = s.token
        BY <3>2 DEF DevicesOf
      <4>2. devices'[x] = devices[x] => x \in InTheWay(s)
        BY <3>1, <3>2, <4>1 DEF InTheWay, DevicesOf
      <4> QED
        BY <2>2, <4>1, <4>2
    <3>3. CASE s.target = x /\ devices'[x] = None
      <4>1. x \in DeviceIds
        BY <2>1, <3>1, <3>3 DEF Keys
      <4>2. devices[x] = None => x \in InTheWay(s)
        BY <3>1, <3>3 DEF InTheWay
      <4> QED
        BY <2>2, <3>3, <4>1, <4>2
    <3> QED
      BY <3>1, <3>2, <3>3
  <2> QED
    BY <1>1, <2>1, <2>3, <2>4 DEF Knows, DeviceHandlers, KnowsDevice, InTheWay, DevicesOf
<1>4. CASE s \in FavouriteSession
  BY <1>1, <1>4 DEF Knows, DeviceHandlers, FavouriteSession, InTheWay
<1> QED
  BY <1>2, <1>3, <1>4 DEF Session
------------------------------------------------------------------------------
(* A request begins with a session that knows what it has just loaded. *)
LEMMA BeginInv ==
  ASSUME IInv, NEW r \in Requests, NEW s \in Session, Begin(r, s),
         Knows(s, {})
  PROVE  IInv'
<1>1. /\ request' = [request EXCEPT ![r] = s]
      /\ UNCHANGED <<tables, workload, wanted, registered, raced, races>>
  BY DEF Begin, OpenSession
<1> USE <1>1 DEF tables
<1>2. TypeOK'
  BY DEF IInv, TypeOK
<1>3. ASSUME NEW q \in Requests, request'[q] # None
      PROVE  Knows(request[q], raced[q])'
  <2>1. CASE q = r
    <3>1. request'[q] = s
      BY <2>1 DEF IInv, TypeOK
    <3>2. Knows(s, raced[q])'
      BY DEF Knows, KnowsPrefs, KnowsDevice, InTheWay, DevicesOf
    <3> QED
      BY <3>1, <3>2 DEF Knows, KnowsPrefs, KnowsDevice, InTheWay, DevicesOf
  <2>2. CASE q # r
    <3>1. request'[q] = request[q]
      BY <2>2 DEF IInv, TypeOK
    <3> QED
      BY <1>3, <3>1, Bystander DEF IInv, TypeOK, SessionsKnow
  <2> QED
    BY <2>1, <2>2
<1>4. UnusedAreFree' /\ DeviceIsAsRegistered' /\ PrefsAsAsked'
  BY DEF IInv, UnusedAreFree, DeviceIsAsRegistered, PrefsAsAsked, DevicesOf,
         LostWrite
<1> QED
  BY <1>2, <1>3, <1>4 DEF IInv, SessionsKnow

LEMMA BeginsInv ==
  ASSUME IInv, NEW r \in Requests,
         \/ BeginUpdatePreferences(r) \/ BeginRegisterPushToken(r)
         \/ BeginDeletePushToken(r) \/ BeginFavourite(r)
  PROVE  IInv'
<1> USE DEF IInv, TypeOK
<1>1. CASE BeginUpdatePreferences(r)
  <2>1. PICK u \in Users, wish \in Wish :
          Begin(r, [handler |-> "update_notification_preferences",
                    pc |-> "commit", user |-> u, loaded |-> prefs[u],
                    wish |-> wish])
    BY <1>1 DEF BeginUpdatePreferences
  <2> DEFINE s == [handler |-> "update_notification_preferences",
                   pc |-> "commit", user |-> u, loaded |-> prefs[u],
                   wish |-> wish]
  <2>2. s \in Session
    BY DEF Session, PrefSession
  <2>3. Knows(s, {})
    BY DEF Knows, KnowsPrefs, InTheWay, DeviceHandlers
  <2> QED
    BY <2>1, <2>2, <2>3, BeginInv
<1>2. CASE BeginRegisterPushToken(r)
  <2>1. PICK u \in Users, t \in PushTokens, p \in Platforms :
          \E d \in IF DevicesOf(t) = {} THEN {None} ELSE DevicesOf(t) :
            Begin(r, [handler |-> "register_push_token", pc |-> "commit",
                      user |-> u, token |-> t, platform |-> p, target |-> d,
                      loaded |-> IF d = None THEN None ELSE devices[d]])
    BY <1>2 DEF BeginRegisterPushToken
  <2>0. PICK d \in IF DevicesOf(t) = {} THEN {None} ELSE DevicesOf(t) :
          Begin(r, [handler |-> "register_push_token", pc |-> "commit",
                    user |-> u, token |-> t, platform |-> p, target |-> d,
                    loaded |-> IF d = None THEN None ELSE devices[d]])
    BY <2>1
  <2> DEFINE s == [handler |-> "register_push_token", pc |-> "commit",
                   user |-> u, token |-> t, platform |-> p, target |-> d,
                   loaded |-> IF d = None THEN None ELSE devices[d]]
  <2>2. (d = None /\ DevicesOf(t) = {}) \/ d \in DevicesOf(t)
    BY <2>0
  <2>3. d \in DevicesOf(t) =>
          d \in DeviceIds /\ devices[d] # None /\ devices[d].token = t
    BY DEF DevicesOf
  <2>4. s \in Session
    BY <2>2, <2>3 DEF Session, DeviceSession
  <2>5. Knows(s, {})
    <3>1. KnowsDevice(s, {})
      BY <2>2, <2>3 DEF KnowsDevice, UnusedAreFree
    <3>2. InTheWay(s) = {}
      BY <2>2, <2>3 DEF InTheWay, Keys
    <3> QED
      BY <3>1, <3>2 DEF Knows
  <2> QED
    BY <2>0, <2>4, <2>5, BeginInv
<1>3. CASE BeginDeletePushToken(r)
  <2>1. PICK u \in Users, d \in DeviceIds :
          /\ devices[d] # None /\ devices[d].user = u
          /\ Begin(r, [handler |-> "delete_push_token", pc |-> "commit",
                       user |-> u, token |-> devices[d].token,
                       platform |-> devices[d].platform, target |-> d,
                       loaded |-> devices[d]])
    BY <1>3 DEF BeginDeletePushToken
  <2> DEFINE s == [handler |-> "delete_push_token", pc |-> "commit",
                   user |-> u, token |-> devices[d].token,
                   platform |-> devices[d].platform, target |-> d,
                   loaded |-> devices[d]]
  <2>2. devices[d] \in DeviceRow
    BY <2>1
  <2>3. s \in Session
    BY <2>2 DEF Session, DeviceSession, DeviceRow
  <2>4. Knows(s, {})
    <3>1. KnowsDevice(s, {})
      BY <2>1 DEF KnowsDevice, UnusedAreFree
    <3>2. InTheWay(s) = {}
      BY DEF InTheWay
    <3> QED
      BY <2>1, <3>1, <3>2 DEF Knows, Keys
  <2> QED
    BY <2>1, <2>3, <2>4, BeginInv
<1>4. CASE BeginFavourite(r)
  <2>1. PICK u \in Users, v \in Venues :
          Begin(r, [handler |-> IF <<u, v>> \in favourites
                                THEN "delete_favorite_venue"
                                ELSE "create_favorite_venue",
                    pc |-> "commit", user |-> u, venue |-> v])
    BY <1>4 DEF BeginFavourite
  <2> DEFINE s == [handler |-> IF <<u, v>> \in favourites
                               THEN "delete_favorite_venue"
                               ELSE "create_favorite_venue",
                   pc |-> "commit", user |-> u, venue |-> v]
  <2>2. s \in Session
    BY DEF Session, FavouriteSession
  <2>3. Knows(s, {})
    BY DEF Knows, InTheWay, DeviceHandlers
  <2> QED
    BY <2>1, <2>2, <2>3, BeginInv
<1> QED
  BY <1>1, <1>2, <1>3, <1>4
------------------------------------------------------------------------------
(* The session of a commit, and what every commit does with the sessions.  *)
LEMMA CommitTypes ==
  ASSUME TypeOK, NEW r \in Requests, NEW x \in Keys, Committed(r, {x})
  PROVE  /\ request' \in [Requests -> Session \cup {None}]
         /\ raced' \in [Requests -> SUBSET Keys]
         /\ races' \subseteq SUBSET Keys
BY DEF TypeOK, Committed

(* A commit that writes one row tells the others. *)
LEMMA CommitKeepsSessions ==
  ASSUME IInv, NEW r \in Requests, NEW x \in Keys, Committed(r, {x}),
         \A u \in Users : prefs'[u] = prefs[u] \/ u = x,
         \A u \in Users : prefs[u] # None => prefs'[u] # None,
         \A d \in DeviceIds : devices'[d] = devices[d] \/ d = x,
         \A d \in DeviceIds : devices'[d] # None =>
           d \in unused \/ (devices[d] # None /\ devices'[d].token = devices[d].token),
         unused' \subseteq unused,
         favourites' \subseteq favourites \cup {x}
  PROVE  SessionsKnow'
<1>1. ASSUME NEW q \in Requests, request'[q] # None
      PROVE  Knows(request[q], raced[q])'
  <2>1. /\ q # r /\ request'[q] = request[q]
        /\ raced'[q] = raced[q] \cup {x}
    BY <1>1 DEF IInv, TypeOK, Committed
  <2> QED
    BY <1>1, <2>1, Bystander DEF IInv, SessionsKnow
<1> QED
  BY <1>1 DEF SessionsKnow

(* A commit that writes nothing: it failed, or the client went away. *)
LEMMA NothingWrittenInv ==
  ASSUME IInv, NEW r \in Requests, FailCommit(r) \/ Abort(r)
  PROVE  IInv'
<1>1. /\ Committed(r, {})
      /\ UNCHANGED <<tables, workload, wanted, registered>>
  BY DEF FailCommit, Abort
<1> USE <1>1 DEF tables
<1>2. TypeOK'
  BY DEF IInv, TypeOK, Committed
<1>3. ASSUME NEW q \in Requests, request'[q] # None
      PROVE  Knows(request[q], raced[q])'
  <2>1. request'[q] = request[q] /\ raced'[q] = raced[q]
    BY <1>3 DEF IInv, TypeOK, Committed
  <2> QED
    BY <1>3, <2>1, Bystander DEF IInv, TypeOK, SessionsKnow
<1>4. UnusedAreFree' /\ DeviceIsAsRegistered' /\ PrefsAsAsked'
  BY DEF IInv, UnusedAreFree, DeviceIsAsRegistered, PrefsAsAsked, DevicesOf,
         LostWrite, Committed
<1> QED
  BY <1>2, <1>3, <1>4 DEF IInv, SessionsKnow

(* Favourites: the pair is the whole row. *)
LEMMA FavouritesInv ==
  ASSUME IInv, NEW r \in Requests, AddFavourite(r) \/ RemoveFavourite(r)
  PROVE  IInv'
<1>1. PICK x \in Users \X Venues : x = Pair(r)
  <2>1. PICK s \in Session : s = request[r]
    BY DEF AddFavourite, RemoveFavourite, Open, IInv, TypeOK
  <2>2. s \in FavouriteSession
    BY <2>1 DEF AddFavourite, RemoveFavourite, Open, Session, PrefSession,
                DeviceSession
  <2> QED
    BY <2>1, <2>2 DEF FavouriteSession, Pair
<1>2. /\ Committed(r, {x}) /\ favourites' \subseteq favourites \cup {x}
      /\ UNCHANGED <<workload, prefs, devices, unused, wanted, registered>>
  BY <1>1 DEF AddFavourite, RemoveFavourite
<1>3. x \in Keys
  BY DEF Keys
<1>4. TypeOK'
  BY <1>2, <1>3, CommitTypes DEF IInv, TypeOK
<1>5. SessionsKnow'
  BY <1>2, <1>3, CommitKeepsSessions DEF IInv, TypeOK
<1>6. UnusedAreFree' /\ DeviceIsAsRegistered' /\ PrefsAsAsked'
  BY <1>2 DEF IInv, UnusedAreFree, DeviceIsAsRegistered, PrefsAsAsked,
              DevicesOf, LostWrite, Committed
<1> QED
  BY <1>4, <1>5, <1>6 DEF IInv
------------------------------------------------------------------------------
LEMMA OverlaidType ==
  ASSUME NEW row \in PrefRow, NEW wish \in Wish
  PROVE  Overlaid(row, wish) \in PrefRow
BY DEF Overlaid, PrefRow, Wish

(* Preferences: what the commit leaves is what was asked for, unless the   *)
(* row has been written since it was loaded.                               *)
LEMMA PreferencesInv ==
  ASSUME IInv, NEW r \in Requests, InsertPreferences(r) \/ UpdatePreferences(r)
  PROVE  IInv'
<1>1. PICK s \in Session : s = request[r]
  BY DEF InsertPreferences, UpdatePreferences, Open, IInv, TypeOK
<1>2. s \in PrefSession
  BY <1>1 DEF InsertPreferences, UpdatePreferences, Open, Session,
              FavouriteSession, DeviceSession
<1>3. PICK u \in Users : u = s.user
  BY <1>2 DEF PrefSession
<1>4. PICK wish \in Wish : wish = s.wish
  BY <1>2 DEF PrefSession
<1>5. u \in raced[r] \/ prefs[u] = s.loaded
  BY <1>1, <1>2, <1>3
  DEF IInv, SessionsKnow, Knows, KnowsPrefs, PrefSession, InsertPreferences,
      UpdatePreferences, Open
<1>6. PICK row \in PrefRow :
        /\ prefs' = [prefs EXCEPT ![u] = row]
        /\ prefs[u] = s.loaded =>
             row = Overlaid(IF prefs[u] = None THEN Defaults ELSE prefs[u], wish)
  <2>1. CASE InsertPreferences(r)
    <3>1. Defaults \in PrefRow
      BY DEF Defaults, PrefRow
    <3> QED
      BY <1>1, <1>3, <1>4, <2>1, <3>1, OverlaidType DEF InsertPreferences
  <2>2. CASE UpdatePreferences(r)
    <3> DEFINE new == Overlaid(s.loaded, wish)
               row == [f \in Fields |-> Assign(prefs[u][f], s.loaded[f], new[f])]
    <3>1. prefs' = [prefs EXCEPT ![u] = row] /\ s.loaded # None
      BY <1>1, <1>3, <1>4, <2>2 DEF UpdatePreferences, IInv, TypeOK
    <3>2. s.loaded \in PrefRow /\ new \in PrefRow
      BY <1>2, <3>1, OverlaidType DEF PrefSession
    <3>3. prefs[u] \in PrefRow
      <4>1. KnowsPrefs(s, raced[r])
        BY <1>1, <1>2, <2>2
        DEF IInv, SessionsKnow, Knows, PrefSession, UpdatePreferences, Open
      <4> QED
        BY <1>3, <3>1, <4>1 DEF IInv, TypeOK, KnowsPrefs
    <3>4. row \in PrefRow
      BY <3>2, <3>3 DEF PrefRow, Assign
    <3>5. prefs[u] = s.loaded => row = new
      BY <3>2 DEF PrefRow, Assign
    <3> QED
      BY <3>1, <3>2, <3>4, <3>5
  <2> QED
    BY <2>1, <2>2
<1>7. /\ Committed(r, {u})
      /\ wanted' = [wanted EXCEPT ![u] =
           [f \in Fields |-> IF wish[f] = None THEN wanted[u][f] ELSE wish[f]]]
      /\ UNCHANGED <<workload, devices, unused, favourites, registered>>
  BY <1>1, <1>3, <1>4 DEF InsertPreferences, UpdatePreferences, IInv, TypeOK
<1>8. u \in Keys
  BY DEF Keys
<1>9. TypeOK'
  <2>1. wanted[u] \in PrefRow
    BY DEF IInv, TypeOK
  <2>2. [f \in Fields |-> IF wish[f] = None THEN wanted[u][f] ELSE wish[f]] \in PrefRow
    BY <2>1 DEF PrefRow, Wish
  <2>3. /\ prefs' \in [Users -> PrefRow \cup {None}]
        /\ wanted' \in [Users -> PrefRow]
    BY <1>6, <1>7, <2>2 DEF IInv, TypeOK
  <2> QED
    BY <1>7, <1>8, <2>3, CommitTypes DEF IInv, TypeOK
<1>10. SessionsKnow'
  BY <1>6, <1>7, <1>8, CommitKeepsSessions DEF IInv, TypeOK
<1>11. UnusedAreFree' /\ DeviceIsAsRegistered'
  BY <1>7 DEF IInv, UnusedAreFree, DeviceIsAsRegistered, DevicesOf, LostWrite,
              Committed
<1>12. ASSUME NEW v \in Users
       PROVE  \/ wanted'[v] = IF prefs'[v] = None THEN Defaults ELSE prefs'[v]
              \/ LostWrite(v)'
  <2>1. LostWrite(v) => LostWrite(v)'
    BY <1>7 DEF Committed, LostWrite
  <2>2. CASE v # u
    BY <1>6, <1>7, <2>1, <2>2 DEF IInv, TypeOK, PrefsAsAsked
  <2>3. CASE v = u /\ u \in raced[r]
    BY <1>7, <2>3, CommitRecordsLostWrites
  <2>4. CASE v = u /\ u \notin raced[r] /\ ~LostWrite(u)
    <3> DEFINE old == IF prefs[u] = None THEN Defaults ELSE prefs[u]
    <3>1. wanted[u] = old /\ prefs'[u] = Overlaid(old, wish)
      BY <1>5, <1>6, <2>4 DEF IInv, TypeOK, PrefsAsAsked
    <3>2. wanted'[u] = Overlaid(old, wish)
      BY <1>7, <3>1 DEF IInv, TypeOK, Overlaid
    <3>3. prefs'[u] # None
      BY <1>6 DEF IInv, TypeOK
    <3> QED
      BY <2>4, <3>1, <3>2, <3>3
  <2> QED
    BY <2>1, <2>2, <2>3, <2>4
<1> QED
  BY <1>9, <1>10, <1>11, <1>12 DEF IInv, PrefsAsAsked
------------------------------------------------------------------------------
(* DeviceIsAsRegistered of the next state, for one token at a time. *)
LEMMA DevicesAsRegisteredNext ==
  ASSUME TypeOK',
         \A e \in DeviceIds, v \in PushTokens :
           devices'[e] # None /\ v = devices'[e].token =>
             /\ DevicesOf(v)' = {e}
             /\ \/ registered'[v] =
                     [user |-> devices'[e].user, platform |-> devices'[e].platform]
                \/ LostWrite(e)'
  PROVE  DeviceIsAsRegistered'
<1> SUFFICES ASSUME NEW e \in DeviceIds, (devices[e] # None)'
             PROVE  (/\ DevicesOf(devices[e].token) = {e}
                     /\ \/ registered[devices[e].token] =
                             [user |-> devices[e].user, platform |-> devices[e].platform]
                        \/ LostWrite(e))'
  BY DEF DeviceIsAsRegistered
<1>1. PICK v \in PushTokens : v = devices'[e].token
  BY DEF TypeOK, DeviceRow
<1>2. DevicesOf(devices[e].token)' = DevicesOf(v)'
  BY <1>1 DEF DevicesOf
<1> QED
  BY <1>1, <1>2

(* A device that is inserted has a new id and a free token. *)
LEMMA InsertDeviceInv ==
  ASSUME IInv, NEW r \in Requests, InsertDevice(r)
  PROVE  IInv'
<1>1. PICK s \in DeviceSession : s = request[r]
  BY DEF InsertDevice, Open, IInv, TypeOK, Session, FavouriteSession, PrefSession
<1>2. PICK t \in PushTokens : t = s.token
  BY DEF DeviceSession
<1>3. PICK row \in DeviceRow :
        row = [user |-> s.user, token |-> s.token, platform |-> s.platform]
  BY DEF DeviceSession, DeviceRow
<1>4. PICK reg \in Registration : reg = [user |-> s.user, platform |-> s.platform]
  BY DEF DeviceSession, Registration
<1>5. row.token = t /\ reg = [user |-> row.user, platform |-> row.platform]
  BY <1>2, <1>3, <1>4
<1>6. PICK d \in unused :
        /\ devices' = [devices EXCEPT ![d] = row]
        /\ unused' = unused \ {d}
        /\ Committed(r, {d})
  BY <1>1, <1>3 DEF InsertDevice
<1>7. /\ DevicesOf(t) = {}
      /\ registered' = [registered EXCEPT ![t] = reg]
      /\ UNCHANGED <<workload, prefs, favourites, wanted>>
  BY <1>1, <1>2, <1>4 DEF InsertDevice
<1>8. d \in DeviceIds /\ d \in Keys /\ row # None
  BY DEF IInv, TypeOK, Keys
<1>9. TypeOK'
  BY <1>6, <1>7, <1>8, CommitTypes DEF IInv, TypeOK
<1>10. SessionsKnow'
  BY <1>6, <1>7, <1>8, CommitKeepsSessions DEF IInv, TypeOK
<1>11. UnusedAreFree'
  BY <1>6, <1>8 DEF IInv, TypeOK, UnusedAreFree
<1>12. PrefsAsAsked'
  BY <1>6, <1>7 DEF IInv, PrefsAsAsked, LostWrite, Committed
<1>13. ASSUME NEW e \in DeviceIds, devices'[e] # None,
              NEW v \in PushTokens, v = devices'[e].token
       PROVE  /\ DevicesOf(v)' = {e}
              /\ \/ registered'[v] =
                      [user |-> devices'[e].user, platform |-> devices'[e].platform]
                 \/ LostWrite(e)'
  <2>1. CASE e = d
    <3>1. devices'[e] = row /\ v = t
      BY <1>5, <1>6, <1>8, <1>13, <2>1 DEF IInv, TypeOK
    <3>2. DevicesOf(t)' = {d}
      BY <1>5, <1>6, <1>7, <1>8 DEF IInv, TypeOK, DevicesOf
    <3>3. registered'[t] = reg
      BY <1>7 DEF IInv, TypeOK
    <3> QED
      BY <1>5, <2>1, <3>1, <3>2, <3>3
  <2>2. CASE e # d
    <3>1. devices'[e] = devices[e]
      BY <1>6, <2>2 DEF IInv, TypeOK
    <3>2. v # t
      BY <1>7, <1>13, <3>1 DEF DevicesOf
    <3>3. DevicesOf(v)' = DevicesOf(v)
      <4>1. devices[d] = None
        BY DEF IInv, UnusedAreFree
      <4> QED
        BY <1>5, <1>6, <1>8, <3>2, <4>1 DEF IInv, TypeOK, DevicesOf
    <3>4. /\ DevicesOf(v) = {e}
          /\ \/ registered[v] = [user |-> devices[e].user, platform |-> devices[e].platform]
             \/ LostWrite(e)
      BY <1>13, <3>1 DEF IInv, DeviceIsAsRegistered
    <3>5. LostWrite(e) => LostWrite(e)'
      BY <1>6 DEF LostWrite, Committed
    <3>6. registered'[v] = registered[v]
      BY <1>7, <3>2 DEF IInv, TypeOK
    <3> QED
      BY <3>1, <3>3, <3>4, <3>5, <3>6
  <2> QED
    BY <2>1, <2>2
<1>14. DeviceIsAsRegistered'
  BY <1>9, <1>13, DevicesAsRegisteredNext
<1> QED
  BY <1>9, <1>10, <1>11, <1>12, <1>14 DEF IInv
------------------------------------------------------------------------------
(* A device that is updated keeps its token; as registered last, unless    *)
(* another request has written the row since it was loaded.                *)
LEMMA UpdateDeviceInv ==
  ASSUME IInv, NEW r \in Requests, UpdateDevice(r)
  PROVE  IInv'
<1>1. PICK s \in DeviceSession : s = request[r]
  BY DEF UpdateDevice, Open, IInv, TypeOK, Session, FavouriteSession, PrefSession
<1>2. PICK t \in PushTokens : t = s.token
  BY DEF DeviceSession
<1>3. PICK d \in DeviceIds : d = s.target /\ d # None
  BY <1>1 DEF DeviceSession, UpdateDevice
<1>4. PICK reg \in Registration : reg = [user |-> s.user, platform |-> s.platform]
  BY DEF DeviceSession, Registration
<1>5. PICK old \in DeviceRow : old = devices[d]
  BY <1>1, <1>3 DEF UpdateDevice, IInv, TypeOK
<1>6. /\ Committed(r, {d})
      /\ registered' = [registered EXCEPT ![t] = reg]
      /\ UNCHANGED <<workload, prefs, unused, favourites, wanted>>
  BY <1>1, <1>2, <1>3, <1>4 DEF UpdateDevice
<1>7. KnowsDevice(s, raced[r])
  BY <1>1 DEF IInv, SessionsKnow, Knows, UpdateDevice, Open, DeviceHandlers
<1>8. PICK row \in DeviceRow :
        /\ row.token = t
        /\ row.user = Assign(old.user, s.loaded.user, s.user)
        /\ row.platform = Assign(old.platform, s.loaded.platform, s.platform)
        /\ devices' = [devices EXCEPT ![d] = row]
  <2> DEFINE row == [old EXCEPT !.user = Assign(old.user, s.loaded.user, s.user),
                                !.platform = Assign(old.platform, s.loaded.platform, s.platform)]
  <2>1. old.token = t
    BY <1>2, <1>3, <1>5, <1>7 DEF KnowsDevice, DeviceRow
  <2>2. s.user \in Users /\ s.platform \in Platforms
    BY DEF DeviceSession
  <2>3. row \in DeviceRow /\ row.token = t
    BY <2>1, <2>2 DEF DeviceRow, Assign
  <2>4. devices' = [devices EXCEPT ![d] = row]
    BY <1>1, <1>3, <1>5 DEF UpdateDevice, IInv, TypeOK
  <2> QED
    BY <2>3, <2>4 DEF DeviceRow
<1>9. d \in Keys /\ old # None /\ row # None
  BY DEF Keys
<1>10. old.token = t
  BY <1>2, <1>3, <1>5, <1>7 DEF KnowsDevice, DeviceRow
<1>11. TypeOK'
  BY <1>6, <1>8, <1>9, CommitTypes DEF IInv, TypeOK
<1>12. SessionsKnow'
  BY <1>5, <1>6, <1>8, <1>9, <1>10, CommitKeepsSessions DEF IInv, TypeOK
<1>13. UnusedAreFree'
  BY <1>5, <1>6, <1>8, <1>9 DEF IInv, TypeOK, UnusedAreFree
<1>14. PrefsAsAsked'
  BY <1>6 DEF IInv, PrefsAsAsked, LostWrite, Committed
<1>15. ASSUME NEW e \in DeviceIds, devices'[e] # None,
              NEW v \in PushTokens, v = devices'[e].token
       PROVE  /\ DevicesOf(v)' = {e}
              /\ \/ registered'[v] =
                      [user |-> devices'[e].user, platform |-> devices'[e].platform]
                 \/ LostWrite(e)'
  <2>1. DevicesOf(v)' = DevicesOf(v)
    BY <1>5, <1>8, <1>9, <1>10 DEF IInv, TypeOK, DevicesOf
  <2>2. devices[e] # None /\ devices[e].token = v
    BY <1>5, <1>8, <1>9, <1>10, <1>15 DEF IInv, TypeOK
  <2>3. /\ DevicesOf(v) = {e}
        /\ \/ registered[v] = [user |-> devices[e].user, platform |-> devices[e].platform]
           \/ LostWrite(e)
    BY <2>2 DEF IInv, DeviceIsAsRegistered
  <2>4. CASE e = d /\ d \in raced[r]
    BY <1>6, <2>1, <2>3, <2>4, CommitRecordsLostWrites
  <2>5. CASE e = d /\ d \notin raced[r]
    <3>1. old = s.loaded
      BY <1>3, <1>5, <1>7, <2>5 DEF KnowsDevice
    <3>2. row.user = s.user /\ row.platform = s.platform
      BY <1>8, <3>1 DEF Assign
    <3>3. devices'[e] = row /\ v = t
      BY <1>8, <1>15, <2>5 DEF IInv, TypeOK
    <3>4. registered'[t] = reg
      BY <1>6 DEF IInv, TypeOK
    <3> QED
      BY <1>4, <2>1, <2>3, <3>2, <3>3, <3>4
  <2>6. CASE e # d
    <3>1. v # t
      <4>1. DevicesOf(t) = {d}
        BY <1>5, <1>9, <1>10 DEF IInv, DeviceIsAsRegistered
      <4> QED
        BY <2>3, <2>6, <4>1
    <3>2. registered'[v] = registered[v] /\ devices'[e] = devices[e]
      BY <1>6, <1>8, <2>6, <3>1 DEF IInv, TypeOK
    <3>3. LostWrite(e) => LostWrite(e)'
      BY <1>6 DEF LostWrite, Committed
    <3> QED
      BY <2>1, <2>3, <3>2, <3>3
  <2> QED
    BY <2>4, <2>5, <2>6
<1>16. DeviceIsAsRegistered'
  BY <1>11, <1>15, DevicesAsRegisteredNext
<1> QED
  BY <1>11, <1>12, <1>13, <1>14, <1>16 DEF IInv

(* The id of a deleted device is not given again, and its token is free.   *)
LEMMA DeleteDeviceInv ==
  ASSUME IInv, NEW r \in Requests, DeleteDevice(r)
  PROVE  IInv'
<1>1. PICK s \in DeviceSession : s = request[r]
  BY DEF DeleteDevice, Open, IInv, TypeOK, Session, FavouriteSession, PrefSession
<1>2. s.target # None
  BY <1>1 DEF IInv, SessionsKnow, Knows, DeleteDevice, Open
<1>3. PICK d \in DeviceIds : d = s.target
  BY <1>2 DEF DeviceSession
<1>4. /\ Committed(r, {d})
      /\ devices' = [devices EXCEPT ![d] = None]
      /\ UNCHANGED <<workload, prefs, unused, favourites, wanted, registered>>
  BY <1>1, <1>3 DEF DeleteDevice
<1>5. d \in Keys
  BY DEF Keys
<1>6. TypeOK'
  BY <1>4, <1>5, CommitTypes DEF IInv, TypeOK
<1>7. SessionsKnow'
  BY <1>4, <1>5, CommitKeepsSessions DEF IInv, TypeOK
<1>8. UnusedAreFree'
  BY <1>4 DEF IInv, TypeOK, UnusedAreFree
<1>9. PrefsAsAsked'
  BY <1>4 DEF IInv, PrefsAsAsked, LostWrite, Committed
<1>10. ASSUME NEW e \in DeviceIds, devices'[e] # None,
              NEW v \in PushTokens, v = devices'[e].token
       PROVE  /\ DevicesOf(v)' = {e}
              /\ \/ registered'[v] =
                      [user |-> devices'[e].user, platform |-> devices'[e].platform]
                 \/ LostWrite(e)'
  <2>1. e # d /\ devices'[e] = devices[e]
    BY <1>4, <1>10 DEF IInv, TypeOK
  <2>2. /\ DevicesOf(v) = {e}
        /\ \/ registered[v] = [user |-> devices[e].user, platform |-> devices[e].platform]
           \/ LostWrite(e)
    BY <1>10, <2>1 DEF IInv, DeviceIsAsRegistered
  <2>3. DevicesOf(v)' = DevicesOf(v)
    BY <1>4, <2>1, <2>2 DEF IInv, TypeOK, DevicesOf
  <2>4. LostWrite(e) => LostWrite(e)'
    BY <1>4 DEF LostWrite, Committed
  <2> QED
    BY <1>4, <2>1, <2>2, <2>3, <2>4
<1>11. DeviceIsAsRegistered'
  BY <1>6, <1>10, DevicesAsRegisteredNext
<1> QED
  BY <1>6, <1>7, <1>8, <1>9, <1>11 DEF IInv
------------------------------------------------------------------------------
LEMMA NextInv == IInv /\ [Next]_vars => IInv'
<1> SUFFICES ASSUME IInv, [Next]_vars PROVE IInv'
  OBVIOUS
<1>1. CASE UNCHANGED vars
  <2> USE <1>1 DEF vars, tables, sessions
  <2>1. TypeOK'
    BY DEF IInv, TypeOK
  <2>2. UnusedAreFree' /\ DeviceIsAsRegistered' /\ PrefsAsAsked'
    BY DEF IInv, UnusedAreFree, DeviceIsAsRegistered, PrefsAsAsked, DevicesOf,
           LostWrite
  <2>3. SessionsKnow'
    BY DEF IInv, SessionsKnow, Knows, KnowsPrefs, KnowsDevice, InTheWay,
           DevicesOf
  <2> QED
    BY <2>1, <2>2, <2>3 DEF IInv
<1>2. CASE Next
  BY <1>2, BeginsInv, PreferencesInv, InsertDeviceInv, UpdateDeviceInv,
     DeleteDeviceInv, FavouritesInv, NothingWrittenInv DEF Next
<1> QED
  BY <1>1, <1>2

(* Nothing but delete_push_token removes a device. *)
LEMMA DeletersOfDevices ==
  ASSUME IInv, [Next]_vars, NEW d \in DeviceIds,
         devices[d] # None, devices'[d] = None
  PROVE  \E r \in Requests : DeleteDevice(r)
<1>1. CASE UNCHANGED vars
  BY <1>1 DEF vars, tables
<1>2. ASSUME NEW r \in Requests,
             \/ BeginUpdatePreferences(r) \/ BeginRegisterPushToken(r)
             \/ BeginDeletePushToken(r) \/ BeginFavourite(r)
      PROVE  FALSE
  BY <1>2
  DEF BeginUpdatePreferences, BeginRegisterPushToken, BeginDeletePushToken,
      BeginFavourite, Begin, tables
<1>3. ASSUME NEW r \in Requests,
             \/ InsertPreferences(r) \/ UpdatePreferences(r)
             \/ AddFavourite(r) \/ RemoveFavourite(r)
             \/ FailCommit(r) \/ Abort(r)
      PROVE  FALSE
  BY <1>3
  DEF InsertPreferences, UpdatePreferences, AddFavourite, RemoveFavourite,
      FailCommit, Abort, tables
<1>4. ASSUME NEW r \in Requests, InsertDevice(r)
      PROVE  FALSE
  <2>1. PICK s \in DeviceSession : s = request[r]
    BY <1>4 DEF InsertDevice, Open, IInv, TypeOK, Session, FavouriteSession,
                PrefSession
  <2>2. PICK row \in DeviceRow :
          row = [user |-> s.user, token |-> s.token, platform |-> s.platform]
    BY DEF DeviceSession, DeviceRow
  <2>3. \E e \in unused : devices' = [devices EXCEPT ![e] = row]
    BY <1>4, <2>1, <2>2 DEF InsertDevice
  <2> QED
    BY <2>3 DEF IInv, TypeOK
<1>5. ASSUME NEW r \in Requests, UpdateDevice(r)
      PROVE  FALSE
  <2>1. PICK s \in DeviceSession : s = request[r]
    BY <1>5 DEF UpdateDevice, Open, IInv, TypeOK, Session, FavouriteSession,
                PrefSession
  <2>2. PICK c \in DeviceIds : c = s.target /\ devices[c] \in DeviceRow
    BY <1>5, <2>1 DEF DeviceSession, UpdateDevice, IInv, TypeOK
  <2> DEFINE row == [devices[c] EXCEPT
                       !.user = Assign(devices[c].user, s.loaded.user, s.user),
                       !.platform = Assign(devices[c].platform, s.loaded.platform, s.platform)]
  <2>3. devices' = [devices EXCEPT ![c] = row]
    BY <1>5, <2>1, <2>2 DEF UpdateDevice, IInv, TypeOK
  <2>4. row \in DeviceRow
    BY <2>2 DEF DeviceSession, DeviceRow, Assign
  <2> QED
    BY <2>3, <2>4 DEF IInv, TypeOK
<1> QED
  BY <1>1, <1>2, <1>3, <1>4, <1>5 DEF Next

(* What open requests know of the tables stays true as long as they are    *)
(* open (notification.py, favorite.py).                                    *)
THEOREM Invariance == Spec => []IInv
BY InitInv, NextInv, PTL DEF Spec

(* Every table and every open request keeps its type. *)
THEOREM TypeCorrect == Spec => []TypeOK
<1>1. IInv => TypeOK
  BY DEF IInv
<1> QED
  BY <1>1, Invariance, PTL

(* No request dies of an unexpected error but by another request that      *)
(* wrote the row it is about while it was open.                            *)
THEOREM FailuresNeedRaces == Spec => []FailureNeedsRace
<1>1. IInv => FailureNeedsRace
  BY DEF IInv, SessionsKnow, Knows, FailureNeedsRace
<1> QED
  BY <1>1, Invariance, PTL

(* A push token has one device, that of its last registration. *)
THEOREM OneDevicePerToken == Spec => []DeviceIsAsRegistered
<1>1. IInv => DeviceIsAsRegistered
  BY DEF IInv
<1> QED
  BY <1>1, Invariance, PTL

(* The preferences of a user are what the user last asked for. *)
THEOREM PreferencesKept == Spec => []PrefsAsAsked
<1>1. IInv => PrefsAsAsked
  BY DEF IInv
<1> QED
  BY <1>1, Invariance, PTL

(* A user's registration is deleted by that user, or was registered anew   *)
(* while the deleting request was open.                                    *)
THEOREM RegistrationsKept == Spec => RegistrationLossNeedsRace
<1>1. ASSUME IInv, [Next]_vars, NEW r \in Requests, NEW d \in DeviceIds,
             devices[d] # None, devices'[d] = None,
             request[r] # None, request'[r] = None
      PROVE  request[r].user = devices[d].user \/ LostWrite(d)'
  <2>1. PICK q \in Requests : DeleteDevice(q)
    BY <1>1, DeletersOfDevices
  <2>2. q = r
    BY <1>1, <2>1 DEF DeleteDevice, Committed, IInv, TypeOK
  <2>3. PICK s \in Session : s = request[r]
    BY <1>1 DEF IInv, TypeOK
  <2>4. /\ s.handler = "delete_push_token" /\ KnowsDevice(s, raced[r])
        /\ s.target # None /\ s.loaded.user = s.user
    BY <1>1, <2>1, <2>2, <2>3
    DEF IInv, SessionsKnow, Knows, DeviceHandlers, DeleteDevice, Open
  <2>5. s.target = d
    BY <1>1, <2>1, <2>2, <2>3 DEF DeleteDevice, IInv, TypeOK
  <2>6. CASE d \in raced[r]
    BY <2>1, <2>2, <2>3, <2>5, <2>6, CommitRecordsLostWrites DEF DeleteDevice
  <2>7. CASE d \notin raced[r]
    BY <2>3, <2>4, <2>5, <2>7 DEF KnowsDevice
  <2> QED
    BY <2>6, <2>7
<1>2. IInv /\ [Next]_vars =>
        [\A r \in Requests, d \in DeviceIds :
           devices[d] # None /\ devices'[d] = None /\ request[r] # None
             /\ request'[r] = None
           => request[r].user = devices[d].user \/ LostWrite(d)']_vars
  BY <1>1
<1> QED
  BY <1>2, Invariance, PTL DEF Spec, RegistrationLossNeedsRace
==============================================================================
