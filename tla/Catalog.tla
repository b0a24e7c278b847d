------------------------------ MODULE Catalog ------------------------------
(***************************************************************************)
(* The rows that a venue is set up with, and who writes them: create_venue *)
(* of app/services/space.py, and the scripts seed_roles_and_permissions    *)
(* (app/services/rbac.py), app/scripts/seed_demo.py and                    *)
(* app/scripts/seed_tariffs.py, which may run at any time and beside one   *)
(* another.                                                                *)
(*                                                                         *)
(* All of them are long transactions of one form: SELECT a row by its key, *)
(* INSERT it if there was none, go on to the next, COMMIT.  An inserted    *)
(* row is not seen by others before the commit.  Where a unique index      *)
(* covers the key, an insert of a key that another open transaction has    *)
(* inserted waits for that one to end, and fails if the key is taken then. *)
(* Where none does, both rows stay.                                        *)
(*                                                                         *)
(* A transaction is therefore a program: a sequence of blocks, the bodies  *)
(* of its loops, each a sequence of stages, each a sequence of steps whose *)
(* rows are looked for together and inserted one after the other.  The     *)
(* columns outside the keys are left out: the scripts assign constants to  *)
(* them, whether the row is new or not.                                    *)
(*                                                                         *)
(* Editing a layout (Layout) is served by the same server; the rooms whose *)
(* seats it changes are not the ones that are set up here.                 *)
(***************************************************************************)
EXTENDS SequencesExt, Layout

CONSTANTS
  Copies,           \* bound: the rows of one table with one name
  Permissions,      \* a sequence: all_permissions(), which sorts them
  Roles,            \* a sequence: the keys of ROLE_NAMES in their order
  RolePermissions,  \* ROLE_PERMISSIONS: a set of <<role, permission>>
  Names,            \* the names administrators give to venues
  FeatureLists,     \* bound: the sequences of features they give them, ...
  FeatureCode,      \* ... and _feature_code, as a function
  DemoVenue,        \* DEMO_VENUE_NAME, and what seed_demo puts there:
  DemoFeatures,     \* a sequence: DEMO_FEATURES, by their codes
  DemoRooms,        \* a sequence of [name, seats], seats one of labels
  DemoUsers,        \* a sequence of [email, role, atVenue]: DEMO_USERS
  Weekdays,         \* a sequence: range(7)
  WholeRooms,       \* the names of the rooms that are booked as a whole
  RuleRoom,         \* the name of the one that has a rule of its own
  Days,             \* bound: the days on which seed_tariffs runs
  RowsAtFirst,      \* the tables as an older release may have left them
  Workloads,        \* bound: the sets of handlers that are called together
  Calls             \* bound: how often, for each of these sets

VARIABLES
  rows,        \* the tables, as one set of rows
  workload,    \* bound: the handlers that are called, the same for ever
  left,        \* bound: the calls that are left
  halfDone     \* ghost: a seed_demo died, and none has succeeded since

catalog == <<rows, workload, left, halfDone>>
vars == <<catalog, layout, sessions>>
------------------------------------------------------------------------------
(* What identifies a row for the code: its table, its name or code there,  *)
(* and the rows it belongs to.                                             *)
Key(table, name, under) == <<table, name, under>>

KeyOfRow(row) == Key(row.id[1], row.id[2], row.under)

Tables ==
  {"permissions", "roles", "role_permissions", "venues", "features",
   "feature_links", "rooms", "seats", "room_hours", "booking_rules",
   "users", "user_role_assignments", "tariffs"}

(* The tables with a unique index on the key.  A role assignment has one,  *)
(* but a NULL venue_id is distinct from every other.                       *)
Unique(key) ==
  \/ key[1] \in {"permissions", "roles", "role_permissions", "features",
                 "seats", "room_hours", "users"}
  \/ key[1] = "user_role_assignments" /\ Cardinality(key[3]) = 2

(* A primary key, told apart from others by its table, its name there and  *)
(* a number.                                                               *)
Id(table, name, n) == <<table, name, n>>

(* under has the ids of the rows that this one belongs to.  owner is the   *)
(* request whose transaction inserted the row, None once it has committed. *)
(* by is ghost: the handler of that request.                               *)
Row(id, under, owner, by) == [id |-> id, under |-> under, owner |-> owner, by |-> by]

(* A step: how its row is provided ("add": always inserted; "ensure":      *)
(* unless there is one; "apart": likewise, in a session of its own that    *)
(* commits at once), its tag <<table, name>>, and the tags it belongs to.  *)
Step(how, table, name, under) ==
  [how |-> how, tag |-> <<table, name>>, under |-> under]

Under(table, name) == <<table, name>>

(* Variant: every feature is taken for a new one. *)
CreateVenueUnread(name, features) ==
  <<<<<<Step("add", "venues", name, {})>>>>>>
    \o [i \in DOMAIN features |->
         LET c == FeatureCode[features[i]] IN
         <<<<Step("add", "features", c, {})>>,
           <<Step("add", "feature_links", c,
                  {Under("venues", name), Under("features", c)})>>>>]

(* create_venue *)
CreateVenue(name, features) ==
  <<<<<<Step("add", "venues", name, {})>>>>>>
    \o [i \in DOMAIN features |->
         LET c == FeatureCode[features[i]] IN
         <<<<Step("ensure", "features", c, {})>>,
           <<Step("add", "feature_links", c,
                  {Under("venues", name), Under("features", c)})>>>>]

(* Variant: the permissions are a set as well. *)
AllPermissionsUnsorted == SetToSeqs(Range(Permissions))

AllPermissions == {Permissions}

(* seed_roles_and_permissions: whatever is there is read first.  The pairs *)
(* of a role are a set, which Python walks in an order of its own in every *)
(* process.                                                                *)
SeedRbac(permissions, pairs) ==
  <<<<[i \in DOMAIN permissions |-> Step("ensure", "permissions", permissions[i], {})]
        \o [i \in DOMAIN Roles |-> Step("ensure", "roles", Roles[i], {})],
      [i \in DOMAIN pairs |->
         Step("ensure", "role_permissions", pairs[i],
              {Under("roles", pairs[i][1]), Under("permissions", pairs[i][2])})]>>>>

(* Variant: the room is made anew every time. *)
EnsureRoomAnew(room) ==
  <<<<Step("add", "rooms", room.name, {Under("venues", DemoVenue)})>>>>

(* _ensure_room *)
EnsureRoom(room) ==
  LET here == {Under("rooms", room.name)} IN
  <<<<Step("ensure", "rooms", room.name, {Under("venues", DemoVenue)})>>>>
    \o [i \in DOMAIN room.seats |-> <<Step("ensure", "seats", room.seats[i], here)>>]
    \o [i \in DOMAIN Weekdays |->
          <<Step("ensure", "room_hours", <<room.name, Weekdays[i]>>, here)>>]

(* Variant: roles are only given to users that are not at a venue. *)
DemoAccountGlobal(u) ==
  <<<<Step("apart", "users", u.email, {})>>>>
    \o IF u.atVenue THEN <<>>
       ELSE <<<<Step("ensure", "user_role_assignments", u.role, {Under("users", u.email)})>>>>

(* An account is committed before its role is looked for. *)
DemoAccount(u) ==
  <<<<Step("apart", "users", u.email, {})>>,
    <<Step("ensure", "user_role_assignments", u.role,
           {Under("users", u.email)}
             \cup IF u.atVenue THEN {Under("venues", DemoVenue)} ELSE {})>>>>

(* main of seed_demo.py, after the run of seed_roles_and_permissions that  *)
(* it begins with, which commits and so is a request of its own.           *)
SeedDemo ==
  LET there == {Under("venues", DemoVenue)} IN
  <<<<<<Step("ensure", "venues", DemoVenue, {})>>>>>>
    \o [i \in DOMAIN DemoFeatures |->
         <<<<Step("ensure", "features", DemoFeatures[i], {})>>,
           <<Step("ensure", "feature_links", DemoFeatures[i],
                  there \cup {Under("features", DemoFeatures[i])})>>>>]
    \o [i \in DOMAIN DemoRooms |-> EnsureRoom(DemoRooms[i])]
    \o <<<<<<Step("ensure", "booking_rules", DemoVenue, there)>>,
          <<Step("ensure", "booking_rules", RuleRoom, {Under("rooms", RuleRoom)})>>>>>>
    \o [i \in DOMAIN DemoUsers |-> DemoAccount(DemoUsers[i])]
------------------------------------------------------------------------------
Handlers == {"create_venue", "seed_rbac", "seed_demo", "seed_tariffs"}

Programs ==
  {CreateVenue(name, features) : name \in Names, features \in FeatureLists}
    \cup {SeedRbac(permissions, pairs) :
            permissions \in AllPermissions, pairs \in SetToSeqs(RolePermissions)}
    \cup {SeedDemo}

(* The rows there can be, by table and name. *)
Tags ==
  {step.tag : step \in UNION {Range(stage) : stage \in
               UNION {Range(block) : block \in UNION {Range(p) : p \in Programs}}}}
    \cup {Under(row.id[1], row.id[2]) : row \in UNION RowsAtFirst}
    \cup {Under("tariffs", day) : day \in Days}

Ids == {Id(tag[1], tag[2], n) : tag \in Tags, n \in 1..Copies}

RowType ==
  [id : Ids, under : SUBSET Ids, owner : Requests \cup {None}, by : Handlers]

(* got has the ids of the rows that a request has found or inserted, and   *)
(* absent the numbers of the steps of its stage that are to insert one.    *)
ProgramSession ==
  [handler : Handlers \ {"seed_tariffs"}, pc : {"run"}, program : Programs,
   block : Nat, stage : Nat, absent : SUBSET Nat, got : SUBSET Ids]

(* todo has the rows that are still to be priced, as they were read. *)
WalkSession ==
  [handler : {"seed_tariffs"}, pc : {"walk"}, day : Days, todo : SUBSET RowType]

ASSUME CatalogAssumption ==
  /\ Copies \in Nat \ {0} /\ Calls \in [Workloads -> Nat]
  /\ \A w \in Workloads : w \subseteq Handlers \cup {"update_room_layout"}
  /\ None \notin Requests /\ None \notin ProgramSession /\ None \notin WalkSession

IsSequence(s) == s \in Seq(Range(s))

ASSUME DataAssumption ==
  /\ IsSequence(Permissions) /\ IsInjective(Permissions)
  /\ IsSequence(Roles) /\ IsInjective(Roles)
  /\ IsFiniteSet(RolePermissions)
  /\ \A features \in FeatureLists : IsSequence(features)
  /\ IsSequence(DemoFeatures) /\ IsSequence(DemoRooms) /\ IsSequence(DemoUsers)
  /\ \A room \in Range(DemoRooms) : IsSequence(room.seats)
  /\ IsSequence(Weekdays)

(* seed_demo names no feature, weekday, room, seat of a room, or account   *)
(* twice.                                                                  *)
ASSUME NamesAssumption ==
  /\ IsInjective(DemoFeatures) /\ IsInjective(Weekdays)
  /\ \A i, j \in DOMAIN DemoRooms : DemoRooms[i].name = DemoRooms[j].name => i = j
  /\ \A room \in Range(DemoRooms) : IsInjective(room.seats)
  /\ \A i, j \in DOMAIN DemoUsers : DemoUsers[i].email = DemoUsers[j].email => i = j

(* What an older release has left is no better and no worse than what this *)
(* one leaves.                                                             *)
ASSUME RowsAtFirstAssumption ==
  \A table \in RowsAtFirst :
    /\ \A row \in table :
         /\ row = Row(Id(row.id[1], row.id[2], row.id[3]), row.under, None, row.by)
         /\ row.id[1] \in Tables /\ row.id[3] \in 1..Copies
         /\ row.id[1] = "tariffs" => row.id[2] \in Days
         /\ row.under \subseteq {other.id : other \in table}
         /\ row.by \in Handlers
         /\ row.id[1] = "users" => row.under = {} /\
              \E other \in table :
                row.id \in other.under /\ other.id[1] = "user_role_assignments"
    /\ \A row, other \in table : row # other =>
         /\ row.id # other.id
         /\ KeyOfRow(row) = KeyOfRow(other) =>
              ~Unique(KeyOfRow(row)) /\ "create_venue" \in {row.by, other.by}

Init ==
  /\ LayoutInit
  /\ rows \in RowsAtFirst
  /\ workload \in Workloads
  /\ left = Calls[workload]
  /\ halfDone = FALSE

(* The rows a request sees: the committed ones and its own. *)
Visible(r) == {row \in rows : row.owner \in {None, r}}

Found(r, key) == {row \in Visible(r) : KeyOfRow(row) = key}

BeginProgram(r, handler, program) ==
  /\ handler \in workload /\ left > 0
  /\ left' = left - 1
  /\ OpenSession(r, [handler |-> handler, pc |-> "run", program |-> program,
                     block |-> 1, stage |-> 1, absent |-> {}, got |-> {}])
  /\ UNCHANGED <<rows, workload, halfDone, layout>>

(* Bound: a name is given to one venue. *)
BeginCreateVenue(r) ==
  \E name \in Names, features \in FeatureLists :
    /\ \A row \in rows : KeyOfRow(row) # Key("venues", name, {})
    /\ BeginProgram(r, "create_venue", CreateVenue(name, features))

BeginSeedRbac(r) ==
  \E permissions \in AllPermissions, pairs \in SetToSeqs(RolePermissions) :
    BeginProgram(r, "seed_rbac", SeedRbac(permissions, pairs))

BeginSeedDemo(r) == BeginProgram(r, "seed_demo", SeedDemo)
------------------------------------------------------------------------------
KeyOf(s, step) ==
  Key(step.tag[1], step.tag[2], {id \in s.got : Under(id[1], id[2]) \in step.under})

Missing(r, step) ==
  step.how = "add" \/ Found(r, KeyOf(request[r], step)) = {}

(* Without an ORDER BY the first of several rows may be any of them: the   *)
(* oldest or the newest, here.                                             *)
FirstOf(found, oldest) ==
  CHOOSE row \in found : \A other \in found :
    IF oldest THEN row.id[3] <= other.id[3] ELSE row.id[3] >= other.id[3]

Running(r) == request[r] # None /\ request[r].pc = "run"

Finished(s) == s.block > Len(s.program)

StageOf(s) == s.program[s.block][s.stage]

(* Once every row of a stage is there, the next one has its turn. *)
Proceeding(s, found, absent) ==
  LET t == [s EXCEPT !.got = @ \cup found, !.absent = absent] IN
  IF absent # {} THEN t
  ELSE IF s.stage < Len(s.program[s.block]) THEN [t EXCEPT !.stage = @ + 1]
  ELSE [t EXCEPT !.stage = 1, !.block = @ + 1]

(* The SELECTs of one stage. *)
Look(r) ==
  /\ Running(r) /\ request[r].absent = {} /\ ~Finished(request[r])
  /\ \E stage \in {StageOf(request[r])}, oldest \in BOOLEAN :
     \E missing \in {{i \in DOMAIN stage : Missing(r, stage[i])}} :
     \E found \in {{FirstOf(Found(r, KeyOf(request[r], stage[i])), oldest).id :
                      i \in DOMAIN stage \ missing}} :
       request' = [request EXCEPT ![r] = Proceeding(@, found, missing)]
  /\ UNCHANGED <<catalog, layout, raced, races>>
------------------------------------------------------------------------------
Inserting(r) == Running(r) /\ request[r].absent # {}

(* The step whose row is inserted next. *)
NextStep(s) == StageOf(s)[Min(s.absent)]

NextKey(r) == KeyOf(request[r], NextStep(request[r]))

(* The requests whose transactions have inserted a row with this key and   *)
(* are open.                                                               *)
Holders(key) == {row.owner : row \in {x \in rows : KeyOfRow(x) = key}} \ {None}

(* The request whose transaction r waits for, if any. *)
WaitsFor(r) ==
  IF Inserting(r) /\ Unique(NextKey(r)) THEN Holders(NextKey(r)) \ {r} ELSE {}

KeyTaken(r) ==
  /\ Inserting(r) /\ Unique(NextKey(r))
  /\ Found(r, NextKey(r)) # {}

(* Bound: none, if there is no number left. *)
NewIds(table, name) ==
  LET unused == {n \in 1..Copies : \A row \in rows : row.id # Id(table, name, n)}
  IN {Id(table, name, n) : n \in {m \in unused : \A other \in unused : m <= other}}

(* The others see that the rows with these keys are committed.  Of the     *)
(* pairs of Sessions only the overlapping writes of one key are kept.      *)
Publish(r, keys) ==
  /\ raced' = [q \in Requests |->
       IF q = r \/ request[q] = None THEN raced[q] ELSE raced[q] \cup keys]
  /\ races' = races \cup {{k} : k \in keys \cap raced[r]}

Insert(r) ==
  /\ Inserting(r) /\ WaitsFor(r) = {} /\ ~KeyTaken(r)
  /\ \E step \in {NextStep(request[r])}, key \in {NextKey(r)} :
     \E id \in NewIds(key[1], key[2]), absent \in {request[r].absent} :
       /\ rows' = rows \cup {Row(id, key[3], IF step.how = "apart" THEN None ELSE r,
                                 request[r].handler)}
       /\ request' = [request EXCEPT ![r] =
                        Proceeding(@, {id}, absent \ {Min(absent)})]
       /\ IF step.how = "apart" THEN Publish(r, {key}) ELSE UNCHANGED <<raced, races>>
  /\ UNCHANGED <<workload, left, halfDone, layout>>

Mine(r) == {row \in rows : row.owner = r}

(* The end of a transaction: with a COMMIT or with a ROLLBACK. *)
Keep(r) ==
  /\ rows' = (rows \ Mine(r)) \cup {Row(row.id, row.under, None, row.by) : row \in Mine(r)}
  /\ halfDone' = (halfDone /\ request[r].handler # "seed_demo")
  /\ request' = [request EXCEPT ![r] = None]
  /\ LET keys == {KeyOfRow(row) : row \in Mine(r)} IN
     /\ raced' = [q \in Requests |->
          IF q = r \/ request[q] = None THEN {} ELSE raced[q] \cup keys]
     /\ races' = races \cup {{k} : k \in keys \cap raced[r]}
  /\ UNCHANGED <<workload, left, layout>>

Drop(r) ==
  /\ rows' = rows \ Mine(r)
  /\ halfDone' = (halfDone \/ request[r].handler = "seed_demo")
  /\ Committed(r, {})
  /\ UNCHANGED <<workload, left, layout>>

CommitProgram(r) ==
  /\ Running(r) /\ request[r].absent = {} /\ Finished(request[r])
  /\ Keep(r)

(* IntegrityError, which nothing expects: the whole transaction is lost.   *)
FailInsert(r) ==
  /\ WaitsFor(r) = {} /\ KeyTaken(r)
  /\ Drop(r)

(* Requests that wait for one another. *)
Circle(circle) ==
  \A q \in circle : /\ WaitsFor(q) \cap circle # {}
                    /\ \E w \in circle : q \in WaitsFor(w)

Deadlocked(r) == \E circle \in SUBSET Requests : r \in circle /\ Circle(circle)

(* Variant: each insert has a savepoint and is tried again from there after *)
(* an error.  That gives up nothing of what was inserted before it.        *)
BreakDeadlockInSavepoint(r) ==
  /\ WaitsFor(r) # {} /\ Deadlocked(r)
  /\ UNCHANGED vars

(* PostgreSQL ends the statement of one of them with an error; nobody      *)
(* expects it, so the whole transaction is lost.                           *)
BreakDeadlock(r) ==
  /\ WaitsFor(r) # {} /\ Deadlocked(r)
  /\ Drop(r)
------------------------------------------------------------------------------
(* seed_tariffs walks from the venues to their rooms and to the seats of   *)
(* these, reading the children of a row when it comes to it.               *)
BeginSeedTariffs(r) ==
  \E day \in Days :
    LET venues == {row \in Visible(r) : row.id[1] = "venues"} IN
    /\ venues # {}
    /\ "seed_tariffs" \in workload /\ left > 0
    /\ left' = left - 1
    /\ OpenSession(r, [handler |-> "seed_tariffs", pc |-> "walk", day |-> day,
                       todo |-> venues])
    /\ UNCHANGED <<rows, workload, halfDone, layout>>

(* Variant: the tariff has no first day. *)
PriceNextUndated(r) ==
  /\ Open(r, "seed_tariffs", "walk")
  /\ \E row \in request[r].todo :
       /\ request' = [request EXCEPT ![r].todo = @ \ {row}]
       /\ \E id \in NewIds("tariffs", 0) :
            rows' = rows \cup {Row(id, {row.id}, r, "seed_tariffs")}
  /\ UNCHANGED <<workload, left, halfDone, layout, raced, races>>

(* A room has a tariff of its own only if it can be booked as a whole.     *)
PriceNext(r) ==
  LET s == request[r] IN
  /\ Open(r, "seed_tariffs", "walk")
  /\ \E row \in s.todo :
       LET children == {c \in Visible(r) : row.id \in c.under /\ c.id[1] \in {"rooms", "seats"}}
           priced == row.id[1] = "rooms" => row.id[2] \in WholeRooms
           lacking == priced /\ Found(r, Key("tariffs", s.day, {row.id})) = {}
       IN
       /\ request' = [request EXCEPT ![r].todo = (@ \ {row}) \cup children]
       /\ IF lacking
          THEN \E id \in NewIds("tariffs", s.day) :
                 rows' = rows \cup {Row(id, {row.id}, r, s.handler)}
          ELSE UNCHANGED rows
  /\ UNCHANGED <<workload, left, halfDone, layout, raced, races>>

CommitTariffs(r) ==
  /\ Open(r, "seed_tariffs", "walk")
  /\ request[r].todo = {}
  /\ Keep(r)

(* The client goes away, the process or the connection dies. *)
Abort(r) ==
  /\ request[r] # None /\ request[r].handler \in Handlers
  /\ Drop(r)
------------------------------------------------------------------------------
Continue(r) ==
  \/ Look(r) \/ Insert(r) \/ CommitProgram(r) \/ FailInsert(r)
  \/ BreakDeadlock(r) \/ PriceNext(r) \/ CommitTariffs(r)

EditLayout(r) ==
  \/ /\ "update_room_layout" \in workload /\ left > 0
     /\ BeginLayout(r)
     /\ left' = left - 1
     /\ UNCHANGED <<rows, workload, halfDone>>
  \/ /\ LoadSeats(r) \/ SaveLayout(r) \/ FailLayout(r) \/ AbortLayout(r)
     /\ UNCHANGED catalog

Next ==
  \E r \in Requests :
    \/ BeginCreateVenue(r) \/ BeginSeedRbac(r) \/ BeginSeedDemo(r)
    \/ BeginSeedTariffs(r)
    \/ Continue(r)
    \/ Abort(r)
    \/ EditLayout(r)

Spec == Init /\ [][Next]_vars

(* A request that is served goes on, PostgreSQL finds its deadlocks, and   *)
(* one that waits for a key has its turn if the key is free again and      *)
(* again.                                                                  *)
FairSpec == Spec /\ \A r \in Requests : SF_vars(Continue(r))
------------------------------------------------------------------------------
TypeOK ==
  /\ \A row \in rows :
       /\ row.id[1] \in Tables /\ row.id[3] \in 1..Copies
       /\ row.id[1] = "tariffs" => row.id[2] \in Days
       /\ row.under \subseteq {other.id : other \in rows}
       /\ row.owner \in Requests \cup {None}
       /\ row.by \in Handlers
  /\ workload \in Workloads
  /\ left \in 0..Calls[workload]
  /\ halfDone \in BOOLEAN
  /\ \A r \in Requests : request[r] # None =>
       /\ request[r].handler \in workload
       /\ request[r].pc \in {"run", "walk", "load", "commit"}

CommittedRows == {row \in rows : row.owner = None}

(* The scripts find what is there: run again, they set nothing up twice.   *)
(* Two rows with one key, in the tables where no index forbids them, come  *)
(* from two runs at once (seed_demo.py:183, seed_demo.py:271,              *)
(* seed_tariffs.py:56).                                                    *)
DuplicateNeedsRace ==
  \A row, other \in CommittedRows :
    /\ row.id # other.id
    /\ KeyOfRow(row) = KeyOfRow(other)
    /\ "create_venue" \notin {row.by, other.by}
    => LostWrite(KeyOfRow(row))

(* A venue, or a whole run of a script, is lost to a key that is taken     *)
(* only when another transaction committed the same new feature,           *)
(* permission, seat or user since it began; so trying again helps          *)
(* (space.py:323-327).  Deadlocks, which lose one as well, are the subject *)
(* of DeadlockNeedsDisorder.                                               *)
FailureNeedsRace ==
  \A r \in Requests : KeyTaken(r) => NextKey(r) \in raced[r]

(* The accounts of the demo are committed one by one before anything else  *)
(* of it (seed_demo.py:57-77).  One without its role means that a run is   *)
(* still on its way or died there; the next run that succeeds repairs it.  *)
HalfDemoNeedsCrash ==
  \A row \in CommittedRows : row.id[1] = "users" =>
    \/ \E other \in CommittedRows :
         row.id \in other.under /\ other.id[1] = "user_role_assignments"
    \/ halfDone
    \/ \E r \in Requests : request[r] # None /\ request[r].handler = "seed_demo"

(* Scripts that insert in a fixed order do not wait for one another in a   *)
(* circle.  Only create_venue, where the client chooses the order of the   *)
(* features, and the pairs of seed_roles_and_permissions, a set, can       *)
(* (space.py:322, rbac.py:43).                                             *)
DeadlockNeedsDisorder ==
  \A circle \in SUBSET Requests : circle # {} /\ Circle(circle) =>
    \E q \in circle :
      \/ request[q].handler = "create_venue"
      \/ NextKey(q)[1] = "role_permissions"

(* Every transaction ends, although some wait for the keys of others, in a *)
(* circle too: none goes on with what it has locked after it has met a     *)
(* taken key or a deadlock (space.py:322-329, rbac.py:43-50).              *)
RequestsEnd ==
  \A r \in Requests :
    (request[r] # None /\ request[r].handler \in Handlers) ~> (request[r] = None)
==============================================================================
