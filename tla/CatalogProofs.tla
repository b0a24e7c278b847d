--------------------------- MODULE CatalogProofs ---------------------------
(***************************************************************************)
(* Proofs about Catalog, for every set of requests, every content of the   *)
(* scripts and every tables that an older release may have left.           *)
(***************************************************************************)
EXTENDS Catalog, LayoutProofs, FiniteSetTheorems, SequenceTheorems

(* What all the programs have in common.  Only create_venue inserts        *)
(* without a look, and never under a unique index; only seed_demo has      *)
(* accounts; and the rows of one stage are different ones, none of which   *)
(* belongs to another.                                                     *)
GoodStep(step, handler) ==
  /\ step = Step(step.how, step.tag[1], step.tag[2], step.under)
  /\ step.tag[1] \in Tables \ {"tariffs"}
  /\ \/ step.how = "ensure" /\ step.tag[1] # "users"
     \/ /\ step.how = "add" /\ handler = "create_venue"
        /\ step.tag[1] \in {"venues", "feature_links"}
     \/ /\ step.how = "apart" /\ handler = "seed_demo"
        /\ step.tag[1] = "users" /\ step.under = {}
        /\ \E u \in Range(DemoUsers) : step.tag[2] = u.email

GoodStage(stage, handler) ==
  /\ IsSequence(stage)
  /\ \A i \in DOMAIN stage : GoodStep(stage[i], handler)
  /\ \A i, j \in DOMAIN stage :
       /\ stage[i].tag \notin stage[j].under
       /\ stage[i].tag = stage[j].tag => i = j

GoodBlock(block, handler) ==
  /\ IsSequence(block) /\ Len(block) > 0
  /\ \A k \in DOMAIN block : GoodStage(block[k], handler)

GoodProgram(program, handler) ==
  /\ IsSequence(program)
  /\ \A b \in DOMAIN program : GoodBlock(program[b], handler)
(* The number of the block of seed_demo that makes the first account, less *)
(* one.                                                                    *)
BeforeAccounts == 2 + Len(DemoFeatures) + Len(DemoRooms)
------------------------------------------------------------------------------
(* Sequences, without a word of what they are sequences of.                *)
LEMMA SequenceFacts ==
  ASSUME NEW s, IsSequence(s)
  PROVE  Len(s) \in Nat /\ DOMAIN s = 1..Len(s)
BY DEF IsSequence

LEMMA FunctionIsSequence ==
  ASSUME NEW n \in Nat, NEW s, s = [i \in 1..n |-> s[i]]
  PROVE  IsSequence(s) /\ Len(s) = n /\ DOMAIN s = 1..n
<1>1. DOMAIN s = 1..n /\ \A i \in 1..n : s[i] \in Range(s)
  BY DEF Range
<1>2. s \in [1..n -> Range(s)]
  BY <1>1
<1>3. s \in Seq(Range(s))
  BY <1>2
<1> QED
  BY <1>1, <1>3 DEF IsSequence

LEMMA OneIsSequence ==
  ASSUME NEW a
  PROVE  IsSequence(<<a>>) /\ Len(<<a>>) = 1 /\ DOMAIN <<a>> = {1} /\ <<a>>[1] = a
BY DEF IsSequence, Range

LEMMA TwoAreSequence ==
  ASSUME NEW a, NEW b
  PROVE  /\ IsSequence(<<a, b>>) /\ Len(<<a, b>>) = 2 /\ DOMAIN <<a, b>> = {1, 2}
         /\ <<a, b>>[1] = a /\ <<a, b>>[2] = b
BY DEF IsSequence, Range

LEMMA ConcatIsSequence ==
  ASSUME NEW s, NEW t, IsSequence(s), IsSequence(t)
  PROVE  /\ IsSequence(s \o t) /\ Len(s \o t) = Len(s) + Len(t)
         /\ DOMAIN (s \o t) = 1..(Len(s) + Len(t))
         /\ \A i \in 1..Len(s) : (s \o t)[i] = s[i]
         /\ \A i \in 1..Len(t) : (s \o t)[Len(s) + i] = t[i]
         /\ \A i \in 1..(Len(s) + Len(t)) :
              \/ i \in 1..Len(s) /\ (s \o t)[i] = s[i]
              \/ i - Len(s) \in 1..Len(t) /\ (s \o t)[i] = t[i - Len(s)]
<1> DEFINE S == Range(s) \cup Range(t)
<1>1. s \in Seq(S) /\ t \in Seq(S)
  BY DEF IsSequence
<1> HIDE DEF S
<1>2. /\ s \o t \in Seq(S) /\ Len(s \o t) = Len(s) + Len(t)
      /\ \A i \in 1..(Len(s) + Len(t)) :
           (s \o t)[i] = IF i <= Len(s) THEN s[i] ELSE t[i - Len(s)]
  BY <1>1, ConcatProperties
<1>3. Len(s) \in Nat /\ Len(t) \in Nat
  BY <1>1
<1>4. PICK u \in Seq(S) : u = s \o t
  BY <1>2
<1>5. IsSequence(u)
  <2>1. Len(u) \in Nat /\ u = [i \in 1..Len(u) |-> u[i]]
    OBVIOUS
  <2> QED
    BY ONLY <2>1, FunctionIsSequence
<1> QED
  BY <1>2, <1>3, <1>4, <1>5
------------------------------------------------------------------------------
(* Good programs, put together from good parts.                            *)
LEMMA GoodOne ==
  ASSUME NEW h, NEW x
  PROVE  /\ GoodStep(x, h) /\ x.tag \notin x.under => GoodStage(<<x>>, h)
         /\ GoodStage(x, h) => GoodBlock(<<x>>, h)
         /\ GoodBlock(x, h) => GoodProgram(<<x>>, h)
BY OneIsSequence DEF GoodStage, GoodBlock, GoodProgram

LEMMA GoodTwo ==
  ASSUME NEW h, NEW x, NEW y, GoodStage(x, h), GoodStage(y, h)
  PROVE  GoodBlock(<<x, y>>, h)
BY TwoAreSequence DEF GoodBlock

LEMMA GoodLoop ==
  ASSUME NEW h, NEW n \in Nat, NEW p, p = [i \in 1..n |-> p[i]],
         \A i \in 1..n : GoodBlock(p[i], h)
  PROVE  GoodProgram(p, h) /\ Len(p) = n /\ DOMAIN p = 1..n
BY FunctionIsSequence DEF GoodProgram

LEMMA GoodConcat ==
  ASSUME NEW h, NEW p, NEW q, GoodProgram(p, h), GoodProgram(q, h)
  PROVE  /\ GoodProgram(p \o q, h) /\ Len(p \o q) = Len(p) + Len(q)
         /\ \A i \in 1..Len(q) : (p \o q)[Len(p) + i] = q[i]
<1>1. IsSequence(p) /\ IsSequence(q)
  BY DEF GoodProgram
<1>2. DOMAIN p = 1..Len(p) /\ DOMAIN q = 1..Len(q)
  BY <1>1, SequenceFacts
<1>3. PICK s : s = p \o q
  OBVIOUS
<1>4. /\ IsSequence(s) /\ Len(s) = Len(p) + Len(q)
      /\ DOMAIN s = 1..(Len(p) + Len(q))
      /\ \A i \in 1..Len(q) : s[Len(p) + i] = q[i]
      /\ \A i \in 1..(Len(p) + Len(q)) :
           \/ i \in 1..Len(p) /\ s[i] = p[i]
           \/ i - Len(p) \in 1..Len(q) /\ s[i] = q[i - Len(p)]
  BY <1>1, <1>3, ConcatIsSequence
<1>5. \A i \in DOMAIN s : GoodBlock(s[i], h)
  BY <1>2, <1>4 DEF GoodProgram
<1> QED
  BY <1>3, <1>4, <1>5 DEF GoodProgram

(* The same for the stages of one block.                                   *)
LEMMA GoodStages ==
  ASSUME NEW h, NEW p, GoodBlock(p, h), NEW n \in Nat,
         NEW q, q = [i \in 1..n |-> q[i]], \A i \in 1..n : GoodStage(q[i], h)
  PROVE  GoodBlock(p \o q, h)
<1>1. IsSequence(p) /\ IsSequence(q) /\ Len(q) = n /\ DOMAIN q = 1..n
  BY FunctionIsSequence DEF GoodBlock
<1>2. Len(p) \in Nat /\ DOMAIN p = 1..Len(p)
  BY <1>1, SequenceFacts
<1>3. PICK s : s = p \o q
  OBVIOUS
<1>4. /\ IsSequence(s) /\ Len(s) = Len(p) + n /\ DOMAIN s = 1..(Len(p) + n)
      /\ \A i \in 1..(Len(p) + n) :
           \/ i \in 1..Len(p) /\ s[i] = p[i]
           \/ i - Len(p) \in 1..n /\ s[i] = q[i - Len(p)]
  BY <1>1, <1>3, ConcatIsSequence
<1> QED
  BY <1>2, <1>3, <1>4 DEF GoodBlock

LEMMA StepFacts ==
  ASSUME NEW how, NEW table, NEW name, NEW under, NEW x,
         x = Step(how, table, name, under)
  PROVE  /\ x.how = how /\ x.tag = <<table, name>> /\ x.under = under
         /\ x.tag[1] = table /\ x.tag[2] = name
         /\ x = Step(x.how, x.tag[1], x.tag[2], x.under)
BY DEF Step

LEMMA GoodEnsure ==
  ASSUME NEW h, NEW table, table \in Tables \ {"tariffs", "users"},
         NEW name, NEW under, <<table, name>> \notin under
  PROVE  GoodStage(<<Step("ensure", table, name, under)>>, h)
<1>1. PICK x : x = Step("ensure", table, name, under)
  OBVIOUS
<1>2. GoodStep(x, h) /\ x.tag \notin x.under
  BY <1>1, StepFacts DEF GoodStep
<1> QED
  BY <1>1, <1>2, GoodOne

LEMMA GoodAdd ==
  ASSUME NEW table \in {"venues", "feature_links"}, NEW name, NEW under,
         <<table, name>> \notin under
  PROVE  GoodStage(<<Step("add", table, name, under)>>, "create_venue")
<1>1. PICK x : x = Step("add", table, name, under)
  OBVIOUS
<1>2. GoodStep(x, "create_venue") /\ x.tag \notin x.under
  BY <1>1, StepFacts DEF GoodStep, Tables
<1> QED
  BY <1>1, <1>2, GoodOne

LEMMA GoodCreateVenue ==
  ASSUME NEW name, NEW features, IsSequence(features)
  PROVE  GoodProgram(CreateVenue(name, features), "create_venue")
<1> DEFINE h == "create_venue"
           first == <<<<<<Step("add", "venues", name, {})>>>>>>
           loop == [i \in DOMAIN features |->
             LET c == FeatureCode[features[i]] IN
             <<<<Step("ensure", "features", c, {})>>,
               <<Step("add", "feature_links", c,
                      {Under("venues", name), Under("features", c)})>>>>]
<1>1. GoodProgram(first, h)
  BY GoodAdd, GoodOne
<1>2. Len(features) \in Nat /\ DOMAIN features = 1..Len(features)
  BY SequenceFacts
<1>3. ASSUME NEW i \in 1..Len(features) PROVE GoodBlock(loop[i], h)
  <2>1. PICK c : c = FeatureCode[features[i]]
    OBVIOUS
  <2>2. loop[i] = <<<<Step("ensure", "features", c, {})>>,
                    <<Step("add", "feature_links", c,
                           {Under("venues", name), Under("features", c)})>>>>
    BY <1>2, <2>1
  <2>3. GoodStage(<<Step("ensure", "features", c, {})>>, h)
    <3>1. "features" \in Tables \ {"tariffs", "users"}
      BY DEF Tables
    <3>2. <<"features", c>> \notin {}
      OBVIOUS
    <3> QED
      BY <3>1, <3>2, GoodEnsure, Zenon
  <2>4. <<"feature_links", c>> \notin {Under("venues", name), Under("features", c)}
    BY DEF Under
  <2>5. GoodStage(<<Step("add", "feature_links", c,
                         {Under("venues", name), Under("features", c)})>>, h)
    BY <2>4, GoodAdd
  <2> QED
    BY <2>2, <2>3, <2>5, GoodTwo
<1>4. loop = [i \in 1..Len(features) |-> loop[i]]
  BY <1>2
<1>5. CreateVenue(name, features) = first \o loop
  BY DEF CreateVenue
<1> HIDE DEF first, loop
<1>6. GoodProgram(loop, h)
  BY <1>2, <1>3, <1>4, GoodLoop
<1> QED
  BY <1>1, <1>5, <1>6, GoodConcat

LEMMA GoodSeedRbac ==
  ASSUME NEW permissions \in AllPermissions, NEW pairs \in SetToSeqs(RolePermissions)
  PROVE  GoodProgram(SeedRbac(permissions, pairs), "seed_rbac")
<1> USE DataAssumption
<1> DEFINE h == "seed_rbac"
           p == [i \in DOMAIN permissions |-> Step("ensure", "permissions", permissions[i], {})]
           q == [i \in DOMAIN Roles |-> Step("ensure", "roles", Roles[i], {})]
           s == [i \in DOMAIN pairs |->
                  Step("ensure", "role_permissions", pairs[i],
                       {Under("roles", pairs[i][1]), Under("permissions", pairs[i][2])})]
<1>1. PICK m \in Nat : DOMAIN permissions = 1..m /\ IsInjective(permissions)
  BY SequenceFacts DEF AllPermissions
<1>2. PICK n \in Nat : DOMAIN Roles = 1..n /\ IsInjective(Roles)
  BY SequenceFacts
<1>3. PICK k \in Nat : DOMAIN pairs = 1..k /\ IsInjective(pairs)
  BY FS_CardinalityType DEF SetToSeqs, IsInjective
<1>4. IsSequence(p) /\ Len(p) = m /\ IsSequence(q) /\ Len(q) = n
  BY <1>1, <1>2, FunctionIsSequence
<1>5. IsSequence(s) /\ DOMAIN s = 1..k
  BY <1>3, FunctionIsSequence
<1>6. GoodStage(s, h)
  <2>1. ASSUME NEW i \in 1..k
        PROVE  /\ GoodStep(s[i], h) /\ s[i].tag = <<"role_permissions", pairs[i]>>
               /\ \A t \in s[i].under : t[1] # "role_permissions"
    <3>1. s[i] = Step("ensure", "role_permissions", pairs[i],
                     {Under("roles", pairs[i][1]), Under("permissions", pairs[i][2])})
      BY <1>3
    <3> HIDE DEF s
    <3>2. \A t \in {Under("roles", pairs[i][1]), Under("permissions", pairs[i][2])} :
            t[1] # "role_permissions"
      BY DEF Under
    <3> QED
      BY <3>1, <3>2, StepFacts DEF GoodStep, Tables
  <2> HIDE DEF s
  <2>2. \A i, j \in 1..k : s[i].tag \notin s[j].under
    BY <2>1
  <2>3. \A i, j \in 1..k : s[i].tag = s[j].tag => i = j
    BY <1>3, <2>1 DEF IsInjective
  <2> QED
    BY <1>5, <2>1, <2>2, <2>3 DEF GoodStage
<1>7. GoodStage(p \o q, h)
  <2>1. ASSUME NEW i \in 1..m
        PROVE  GoodStep(p[i], h) /\ p[i].tag = <<"permissions", permissions[i]>> /\ p[i].under = {}
    <3>1. p[i] = Step("ensure", "permissions", permissions[i], {})
      BY <1>1
    <3> HIDE DEF p
    <3> QED
      BY <3>1, StepFacts DEF GoodStep, Tables
  <2>2. ASSUME NEW i \in 1..n
        PROVE  GoodStep(q[i], h) /\ q[i].tag = <<"roles", Roles[i]>> /\ q[i].under = {}
    <3>1. q[i] = Step("ensure", "roles", Roles[i], {})
      BY <1>2
    <3> HIDE DEF q
    <3> QED
      BY <3>1, StepFacts DEF GoodStep, Tables
  <2> HIDE DEF p, q
  <2>3. PICK t : t = p \o q
    OBVIOUS
  <2>4. /\ IsSequence(t) /\ DOMAIN t = 1..(m + n)
        /\ \A i \in 1..(m + n) :
             \/ i \in 1..m /\ t[i] = p[i]
             \/ i - m \in 1..n /\ t[i] = q[i - m]
    <3>1. /\ IsSequence(t) /\ DOMAIN t = 1..(Len(p) + Len(q))
          /\ \A i \in 1..(Len(p) + Len(q)) :
               \/ i \in 1..Len(p) /\ t[i] = p[i]
               \/ i - Len(p) \in 1..Len(q) /\ t[i] = q[i - Len(p)]
      BY <1>4, <2>3, ConcatIsSequence
    <3> QED
      BY <1>4, <3>1
  <2>5. \A i \in 1..(m + n) : GoodStep(t[i], h) /\ t[i].under = {}
    BY <2>1, <2>2, <2>4
  <2>6. ASSUME NEW i \in 1..(m + n), NEW j \in 1..(m + n), t[i].tag = t[j].tag
        PROVE  i = j
    <3>1. \A x \in 1..m, y \in 1..n : p[x].tag # q[y].tag
      BY <2>1, <2>2
    <3>2. \A x, y \in 1..m : p[x].tag = p[y].tag => x = y
      BY <1>1, <2>1 DEF IsInjective
    <3>3. \A x, y \in 1..n : q[x].tag = q[y].tag => x = y
      BY <1>2, <2>2 DEF IsInjective
    <3>4. \/ i \in 1..m /\ t[i] = p[i]
          \/ i - m \in 1..n /\ t[i] = q[i - m]
      BY <2>4
    <3>5. \/ j \in 1..m /\ t[j] = p[j]
          \/ j - m \in 1..n /\ t[j] = q[j - m]
      BY <2>4
    <3> QED
      BY <2>6, <3>1, <3>2, <3>3, <3>4, <3>5
  <2> QED
    BY <2>3, <2>4, <2>5, <2>6 DEF GoodStage
<1>8. SeedRbac(permissions, pairs) = <<<<p \o q, s>>>>
  BY DEF SeedRbac
<1> HIDE DEF p, q, s
<1> QED
  BY <1>6, <1>7, <1>8, GoodOne, GoodTwo

LEMMA GoodEnsureRoom ==
  ASSUME NEW room \in Range(DemoRooms)
  PROVE  GoodBlock(EnsureRoom(room), "seed_demo")
<1> DEFINE h == "seed_demo"
           here == {Under("rooms", room.name)}
           there == {Under("venues", DemoVenue)}
           first == <<<<Step("ensure", "rooms", room.name, there)>>>>
           chairs == [i \in DOMAIN room.seats |-> <<Step("ensure", "seats", room.seats[i], here)>>]
           hours == [i \in DOMAIN Weekdays |->
                      <<Step("ensure", "room_hours", <<room.name, Weekdays[i]>>, here)>>]
<1>1. PICK m \in Nat : DOMAIN room.seats = 1..m
  BY DataAssumption, SequenceFacts
<1>2. PICK n \in Nat : DOMAIN Weekdays = 1..n
  BY DataAssumption, SequenceFacts
<1>3. {"rooms", "seats", "room_hours"} \subseteq Tables \ {"tariffs", "users"}
  BY DEF Tables
<1>4. /\ \A x : <<"seats", x>> \notin here /\ <<"room_hours", x>> \notin here
      /\ \A x : <<"rooms", x>> \notin there
  BY DEF Under
<1>5. EnsureRoom(room) = first \o chairs \o hours
  BY DEF EnsureRoom
<1> HIDE DEF here, there
<1>6. GoodBlock(first, h)
  <2>1. GoodStage(<<Step("ensure", "rooms", room.name, there)>>, h)
    BY <1>3, <1>4, GoodEnsure
  <2> QED
    BY <2>1, GoodOne
<1>7. chairs = [i \in 1..m |-> chairs[i]] /\ \A i \in 1..m : GoodStage(chairs[i], h)
  BY <1>1, <1>3, <1>4, GoodEnsure
<1>8. hours = [i \in 1..n |-> hours[i]] /\ \A i \in 1..n : GoodStage(hours[i], h)
  BY <1>2, <1>3, <1>4, GoodEnsure
<1> HIDE DEF first, chairs, hours
<1>9. GoodBlock(first \o chairs, h)
  BY <1>6, <1>7, GoodStages
<1>10. GoodBlock((first \o chairs) \o hours, h)
  BY <1>8, <1>9, GoodStages
<1> QED
  BY <1>5, <1>10

LEMMA GoodDemoAccount ==
  ASSUME NEW u \in Range(DemoUsers)
  PROVE  GoodBlock(DemoAccount(u), "seed_demo")
<1> DEFINE h == "seed_demo"
           under == {Under("users", u.email)}
                      \cup IF u.atVenue THEN {Under("venues", DemoVenue)} ELSE {}
<1>1. GoodStage(<<Step("apart", "users", u.email, {})>>, h)
  <2>1. PICK x : x = Step("apart", "users", u.email, {})
    OBVIOUS
  <2>2. GoodStep(x, h) /\ x.tag \notin x.under
    BY <2>1, StepFacts DEF GoodStep, Tables
  <2> QED
    BY <2>1, <2>2, GoodOne
<1>2. GoodStage(<<Step("ensure", "user_role_assignments", u.role, under)>>, h)
  <2>1. "user_role_assignments" \in Tables \ {"tariffs", "users"}
    BY DEF Tables
  <2>2. <<"user_role_assignments", u.role>> \notin under
    BY DEF Under
  <2> QED
    BY <2>1, <2>2, GoodEnsure
<1> QED
  BY <1>1, <1>2, GoodTwo DEF DemoAccount

(* seed_demo's last blocks are those of its accounts.                      *)
LEMMA GoodSeedDemo ==
  /\ GoodProgram(SeedDemo, "seed_demo")
  /\ Len(SeedDemo) = BeforeAccounts + Len(DemoUsers)
  /\ \A i \in DOMAIN DemoUsers :
       SeedDemo[BeforeAccounts + i] = DemoAccount(DemoUsers[i])
<1> DEFINE h == "seed_demo"
           there == {Under("venues", DemoVenue)}
           first == <<<<<<Step("ensure", "venues", DemoVenue, {})>>>>>>
           features == [i \in DOMAIN DemoFeatures |->
             <<<<Step("ensure", "features", DemoFeatures[i], {})>>,
               <<Step("ensure", "feature_links", DemoFeatures[i],
                      there \cup {Under("features", DemoFeatures[i])})>>>>]
           roomsOf == [i \in DOMAIN DemoRooms |-> EnsureRoom(DemoRooms[i])]
           rules == <<<<<<Step("ensure", "booking_rules", DemoVenue, there)>>,
             <<Step("ensure", "booking_rules", RuleRoom, {Under("rooms", RuleRoom)})>>>>>>
           accounts == [i \in DOMAIN DemoUsers |-> DemoAccount(DemoUsers[i])]
<1>1. PICK m \in Nat : m = Len(DemoFeatures) /\ DOMAIN DemoFeatures = 1..m
  BY DataAssumption, SequenceFacts
<1>2. PICK n \in Nat : n = Len(DemoRooms) /\ DOMAIN DemoRooms = 1..n
  BY DataAssumption, SequenceFacts
<1>3. PICK k \in Nat : k = Len(DemoUsers) /\ DOMAIN DemoUsers = 1..k
  BY DataAssumption, SequenceFacts
<1>4. {"venues", "features", "feature_links", "booking_rules"}
        \subseteq Tables \ {"tariffs", "users"}
  BY DEF Tables
<1>5. SeedDemo = first \o features \o roomsOf \o rules \o accounts
  BY DEF SeedDemo
<1>6. GoodProgram(first, h) /\ Len(first) = 1
  <2>1. GoodStage(<<Step("ensure", "venues", DemoVenue, {})>>, h)
    <3>1. <<"venues", DemoVenue>> \notin {}
      OBVIOUS
    <3> QED
      BY <1>4, <3>1, GoodEnsure
  <2> QED
    BY <2>1, GoodOne, OneIsSequence
<1>7. GoodProgram(features, h) /\ Len(features) = m
  <2>1. ASSUME NEW i \in 1..m PROVE GoodBlock(features[i], h)
    <3>1. PICK c : c = DemoFeatures[i]
      OBVIOUS
    <3>2. features[i] = <<<<Step("ensure", "features", c, {})>>,
                          <<Step("ensure", "feature_links", c,
                                 there \cup {Under("features", c)})>>>>
      BY <1>1, <3>1
    <3> HIDE DEF features
    <3>3. <<"features", c>> \notin {} /\
          <<"feature_links", c>> \notin there \cup {Under("features", c)}
      BY DEF Under
    <3>4. GoodStage(<<Step("ensure", "features", c, {})>>, h)
      BY <1>4, <3>3, GoodEnsure
    <3>5. GoodStage(<<Step("ensure", "feature_links", c,
                           there \cup {Under("features", c)})>>, h)
      BY <1>4, <3>3, GoodEnsure
    <3> QED
      BY <3>2, <3>4, <3>5, GoodTwo
  <2>2. features = [i \in 1..m |-> features[i]]
    BY <1>1
  <2> HIDE DEF features
  <2> QED
    BY <2>1, <2>2, GoodLoop
<1>8. GoodProgram(roomsOf, h) /\ Len(roomsOf) = n
  <2>1. \A i \in 1..n : GoodBlock(roomsOf[i], h)
    BY <1>2, GoodEnsureRoom DEF Range
  <2>2. roomsOf = [i \in 1..n |-> roomsOf[i]]
    BY <1>2
  <2> HIDE DEF roomsOf
  <2> QED
    BY <2>1, <2>2, GoodLoop
<1>9. GoodProgram(rules, h) /\ Len(rules) = 1
  <2>1. <<"booking_rules", DemoVenue>> \notin there /\
        <<"booking_rules", RuleRoom>> \notin {Under("rooms", RuleRoom)}
    BY DEF Under
  <2>2. GoodStage(<<Step("ensure", "booking_rules", DemoVenue, there)>>, h)
    BY <1>4, <2>1, GoodEnsure
  <2>3. GoodStage(<<Step("ensure", "booking_rules", RuleRoom,
                         {Under("rooms", RuleRoom)})>>, h)
    BY <1>4, <2>1, GoodEnsure
  <2> QED
    BY <2>2, <2>3, GoodTwo, GoodOne, OneIsSequence
<1>10. /\ GoodProgram(accounts, h) /\ Len(accounts) = k
       /\ \A i \in 1..k : accounts[i] = DemoAccount(DemoUsers[i])
  <2>1. \A i \in 1..k : GoodBlock(accounts[i], h) /\ accounts[i] = DemoAccount(DemoUsers[i])
    BY <1>3, GoodDemoAccount DEF Range
  <2>2. accounts = [i \in 1..k |-> accounts[i]]
    BY <1>3
  <2> HIDE DEF accounts
  <2> QED
    BY <2>1, <2>2, GoodLoop
<1> HIDE DEF first, features, roomsOf, rules, accounts
<1>11. /\ GoodProgram(first \o features, h)
       /\ Len(first \o features) = Len(first) + Len(features)
  <2>1. GoodProgram(first, h) /\ GoodProgram(features, h)
    BY <1>6, <1>7
  <2> QED
    BY ONLY <2>1, GoodConcat
<1>12. /\ GoodProgram((first \o features) \o roomsOf, h)
       /\ Len((first \o features) \o roomsOf) = Len(first \o features) + Len(roomsOf)
  BY <1>8, <1>11, GoodConcat
<1>13. PICK before : before = first \o features \o roomsOf \o rules
  OBVIOUS
<1>14. GoodProgram(before, h) /\ Len(before) = BeforeAccounts
  <2>1. /\ GoodProgram(before, h)
        /\ Len(before) = Len((first \o features) \o roomsOf) + Len(rules)
    <3>1. GoodProgram((first \o features) \o roomsOf, h) /\ GoodProgram(rules, h)
      BY <1>9, <1>12
    <3> QED
      BY ONLY <1>13, <3>1, GoodConcat
  <2>2. Len(before) = 2 + m + n
    BY <1>6, <1>7, <1>8, <1>9, <1>11, <1>12, <2>1
  <2> QED
    BY <1>1, <1>2, <2>1, <2>2 DEF BeforeAccounts
<1>15. /\ GoodProgram(before \o accounts, h)
       /\ Len(before \o accounts) = Len(before) + k
       /\ \A i \in 1..k : (before \o accounts)[Len(before) + i] = accounts[i]
  BY <1>10, <1>14, GoodConcat
<1> QED
  BY <1>3, <1>5, <1>10, <1>13, <1>14, <1>15
------------------------------------------------------------------------------
USE CatalogAssumption

(* The tables: no row refers to one that its transaction cannot see, and   *)
(* an uncommitted row has an open request that has inserted it.            *)
RowsInv ==
  /\ rows \subseteq RowType
  /\ \A row \in rows :
       /\ row.id[1] \in Tables
       /\ row.id[1] = "tariffs" => row.id[2] \in Days
       /\ row.id[1] = "users" => row.owner = None /\ row.under = {}
       /\ row.owner # None =>
            /\ request[row.owner] # None /\ request[row.owner].handler = row.by
            /\ row.by = "seed_tariffs" => row.id[1] = "tariffs"
       /\ \A id \in row.under :
            \E other \in rows : other.id = id /\ other.owner \in {None, row.owner}
  /\ \A row, other \in rows :
       \/ row.id = other.id
       \/ row.id[1] = "users" /\ KeyOfRow(row) = KeyOfRow(other)
       => row = other

(* A program in progress: what it has found is still there, and a row that *)
(* it has looked for in vain and now sees has been committed since.        *)
ProgramInv(r) ==
  LET s == request[r] IN
  /\ s \in ProgramSession
  /\ GoodProgram(s.program, s.handler)
  /\ s.handler = "seed_demo" => s.program = SeedDemo
  /\ s.block \in 1..(Len(s.program) + 1)
  /\ IF Finished(s) THEN s.absent = {}
     ELSE /\ s.stage \in DOMAIN s.program[s.block]
          /\ s.absent \subseteq DOMAIN StageOf(s)
  /\ \A id \in s.got : \E row \in Visible(r) : row.id = id
  /\ \A i \in s.absent : StageOf(s)[i].how # "add" =>
       \A row \in Found(r, KeyOf(s, StageOf(s)[i])) :
         row.owner = None /\ KeyOfRow(row) \in raced[r]

WalkInv(r) == request[r] \in WalkSession /\ request[r].todo \subseteq CommittedRows

SessionInv ==
  \A r \in Requests : request[r] # None =>
    /\ request[r].handler \in workload
    /\ \/ request[r].handler = "update_room_layout"
       \/ ProgramInv(r)
       \/ WalkInv(r)

(* Two rows with one key, while one of them is not committed. *)
TwinInv ==
  \A row, other \in rows :
    /\ row.owner # None /\ row.by # "create_venue"
    /\ row # other /\ KeyOfRow(row) = KeyOfRow(other)
    => /\ other.owner # row.owner
       /\ other.owner = None => KeyOfRow(row) \in raced[row.owner]

(* An account has its role, as r sees it. *)
HasRole(r, id) ==
  \E row \in Visible(r) : id \in row.under /\ row.id[1] = "user_role_assignments"

IsAccount(row, u) == row.id[1] = "users" /\ row.id[2] = u.email

DemoInv ==
  /\ \A row \in rows : row.id[1] = "users" =>
       HasRole(None, row.id) \/ \E u \in Range(DemoUsers) : IsAccount(row, u)
  /\ \A r \in Requests : request[r] # None /\ request[r].handler = "seed_demo" =>
       \A i \in DOMAIN DemoUsers :
         /\ request[r].block > BeforeAccounts + i =>
              \E row \in rows : IsAccount(row, DemoUsers[i]) /\ HasRole(r, row.id)
         /\ request[r].block = BeforeAccounts + i /\ request[r].stage = 2 =>
              \E row \in rows : IsAccount(row, DemoUsers[i]) /\ row.id \in request[r].got

CInv ==
  /\ LInv
  /\ workload \in Workloads /\ left \in 0..Calls[workload] /\ halfDone \in BOOLEAN
  /\ RowsInv /\ SessionInv
  /\ raced = [r \in Requests |-> raced[r]]
  /\ TwinInv /\ DuplicateNeedsRace
  /\ DemoInv /\ HalfDemoNeedsCrash
------------------------------------------------------------------------------
LEMMA InitInv == Init => CInv
<1> SUFFICES ASSUME Init PROVE CInv
  OBVIOUS
<1> USE DEF Init
<1>1. LInv /\ request = [r \in Requests |-> None] /\ raced = [r \in Requests |-> {}]
  BY LayoutInitInv DEF LayoutInit, NoRequests
<1>2. ASSUME NEW row \in rows
      PROVE  /\ row = Row(Id(row.id[1], row.id[2], row.id[3]), row.under, None, row.by)
             /\ row.id[1] \in Tables /\ row.id[3] \in 1..Copies
             /\ row.id[1] = "tariffs" => row.id[2] \in Days
             /\ row.under \subseteq {other.id : other \in rows}
             /\ row.by \in Handlers
             /\ row.id[1] = "users" => row.under = {} /\
                  \E other \in rows :
                    row.id \in other.under /\ other.id[1] = "user_role_assignments"
  BY RowsAtFirstAssumption, Zenon
<1>3. ASSUME NEW row \in rows, NEW other \in rows, row # other
      PROVE  /\ row.id # other.id
             /\ KeyOfRow(row) = KeyOfRow(other) =>
                  ~Unique(KeyOfRow(row)) /\ "create_venue" \in {row.by, other.by}
  BY <1>3, RowsAtFirstAssumption, Zenon
<1>4. \A row \in rows : row.owner = None
  BY <1>2 DEF Row
<1>5. \A row \in rows : row.id \in Ids
  <2> SUFFICES ASSUME NEW row \in rows PROVE row.id \in Ids
    OBVIOUS
  <2>1. Under(row.id[1], row.id[2]) \in Tags
    BY DEF Tags
  <2>2. row.id = Id(row.id[1], row.id[2], row.id[3])
    BY <1>2 DEF Row
  <2>3. PICK tag \in Tags : tag[1] = row.id[1] /\ tag[2] = row.id[2]
    BY <2>1 DEF Under
  <2> QED
    BY <1>2, <2>2, <2>3 DEF Ids
<1>6. rows \subseteq RowType
  <2> SUFFICES ASSUME NEW row \in rows PROVE row \in RowType
    OBVIOUS
  <2>1. row = [id |-> row.id, under |-> row.under, owner |-> None, by |-> row.by]
    BY <1>2 DEF Row
  <2>2. row.id \in Ids /\ row.under \in SUBSET Ids /\ row.by \in Handlers
    BY <1>2, <1>5
  <2> QED
    BY <2>1, <2>2 DEF RowType
<1>7. RowsInv
  <2>1. \A row, other \in rows :
          row.id[1] = "users" /\ KeyOfRow(row) = KeyOfRow(other) => row = other
    BY <1>3 DEF Unique, KeyOfRow, Key
  <2> QED
    BY <1>2, <1>3, <1>4, <1>6, <2>1 DEF RowsInv
<1>8. SessionInv /\ raced = [r \in Requests |-> raced[r]]
  BY <1>1 DEF SessionInv
<1>9. TwinInv
  BY <1>4 DEF TwinInv
<1>10. DuplicateNeedsRace
  BY <1>3 DEF DuplicateNeedsRace, CommittedRows
<1>11. \A row \in rows : row.id[1] = "users" => HasRole(None, row.id)
  BY <1>2, <1>4 DEF HasRole, Visible
<1>12. DemoInv
  BY <1>1, <1>11 DEF DemoInv
<1>13. HalfDemoNeedsCrash
  BY <1>2, <1>4 DEF HalfDemoNeedsCrash, CommittedRows
<1>14. workload \in Workloads /\ left \in 0..Calls[workload] /\ halfDone \in BOOLEAN
  <2>1. workload \in Workloads /\ left = Calls[workload]
    OBVIOUS
  <2>2. left \in 0..Calls[workload]
    BY ONLY <2>1, CatalogAssumption
  <2>3. halfDone \in BOOLEAN
    OBVIOUS
  <2> QED
    BY <2>1, <2>2, <2>3
<1> QED
  BY <1>1, <1>7, <1>8, <1>9, <1>10, <1>12, <1>13, <1>14 DEF CInv
------------------------------------------------------------------------------
(* What a request that takes no part in a step keeps: nothing it sees is   *)
(* taken away, and it has raced with all that comes into its sight.        *)
Untouched(q) ==
  /\ request'[q] = request[q] /\ raced[q] \subseteq raced'[q]
  /\ \A row \in rows : row.owner \in {None, q} => row \in rows'
  /\ \A row \in rows' : row.owner \in {None, q} =>
       row \in rows \/ (row.owner = None /\ KeyOfRow(row) \in raced'[q])

LEMMA ProgramStays ==
  ASSUME NEW q, ProgramInv(q), Untouched(q)
  PROVE  ProgramInv(q)'
<1>1. PICK s : s = request[q]
  OBVIOUS
<1>2. s = request'[q]
  BY <1>1 DEF Untouched
<1>3. \A id \in s.got : \E row \in Visible(q)' : row.id = id
  BY <1>1 DEF ProgramInv, Visible, Untouched
<1>4. ASSUME NEW i \in s.absent, StageOf(s)[i].how # "add",
             NEW row \in Found(q, KeyOf(s, StageOf(s)[i]))'
      PROVE  row.owner = None /\ KeyOfRow(row) \in raced'[q]
  <2>1. PICK key : key = KeyOf(s, StageOf(s)[i])
    OBVIOUS
  <2>2. row \in rows' /\ row.owner \in {None, q} /\ KeyOfRow(row) = key
    BY <1>4, <2>1 DEF Found, Visible
  <2>3. CASE row \in rows
    <3>1. row \in Found(q, key)
      BY <2>2, <2>3 DEF Found, Visible
    <3> QED
      BY <1>1, <1>4, <2>1, <3>1 DEF ProgramInv, Untouched
  <2>4. CASE row \notin rows
    BY <2>2, <2>4 DEF Untouched
  <2> QED
    BY <2>3, <2>4
<1> QED
  BY <1>1, <1>2, <1>3, <1>4 DEF ProgramInv

LEMMA WalkStays ==
  ASSUME NEW q, WalkInv(q), Untouched(q)
  PROVE  WalkInv(q)'
BY DEF WalkInv, Untouched, CommittedRows

(* The sessions after a step of r, if its own is as it should be.          *)
LEMMA SessionsStay ==
  ASSUME SessionInv, NEW r, UNCHANGED workload,
         \A q \in Requests \ {r} : request[q] = None => request'[q] = None,
         \A q \in Requests \ {r} : request[q] # None => Untouched(q),
         request'[r] # None =>
           /\ request'[r].handler \in workload
           /\ \/ request'[r].handler = "update_room_layout"
              \/ ProgramInv(r)'
              \/ WalkInv(r)'
  PROVE  SessionInv'
<1> SUFFICES ASSUME NEW q \in Requests, request'[q] # None
             PROVE  /\ request'[q].handler \in workload
                    /\ \/ request'[q].handler = "update_room_layout"
                       \/ ProgramInv(q)'
                       \/ WalkInv(q)'
  BY DEF SessionInv
<1>1. CASE q = r
  BY <1>1
<1>2. CASE q # r
  <2>1. request[q] # None /\ Untouched(q) /\ request'[q] = request[q]
    BY <1>2 DEF Untouched
  <2>2. CASE request[q].handler = "update_room_layout"
    BY <2>1, <2>2 DEF SessionInv
  <2>3. CASE ProgramInv(q)
    BY <2>1, <2>3, ProgramStays DEF SessionInv
  <2>4. CASE WalkInv(q)
    BY <2>1, <2>4, WalkStays DEF SessionInv
  <2> QED
    BY <2>1, <2>2, <2>3, <2>4 DEF SessionInv
<1> QED
  BY <1>1, <1>2
------------------------------------------------------------------------------
LEMMA DemoBlocks == BeforeAccounts \in Nat /\ BeforeAccounts >= 2
BY DataAssumption, SequenceFacts DEF BeforeAccounts

LEMMA DemoUserNumbers == DOMAIN DemoUsers = 1..Len(DemoUsers) /\ Len(DemoUsers) \in Nat
BY DataAssumption, SequenceFacts

(* A request begins: it has no rows yet.                                   *)
LEMMA OpenedInv ==
  ASSUME CInv, NEW r \in Requests, NEW s, OpenSession(r, s), s # None,
         s.handler \in workload, left > 0, left' = left - 1,
         UNCHANGED <<rows, workload, halfDone>>, LInv',
         s.handler = "update_room_layout" \/ ProgramInv(r)' \/ WalkInv(r)',
         s.handler = "seed_demo" => s.block = 1
  PROVE  CInv'
<1>1. /\ request[r] = None /\ request'[r] = s
      /\ \A q \in Requests \ {r} : request'[q] = request[q]
      /\ UNCHANGED <<raced, races>>
  BY DEF OpenSession, CInv, LInv
<1>2. /\ workload' \in Workloads /\ left' \in 0..Calls[workload'] /\ halfDone' \in BOOLEAN
  <2>1. left \in 0..Calls[workload] /\ Calls[workload] \in Nat
    BY DEF CInv
  <2>2. left' \in 0..Calls[workload']
    BY ONLY <2>1, left > 0, left' = left - 1, workload' = workload
  <2>3. workload' \in Workloads
    BY DEF CInv
  <2>4. halfDone' \in BOOLEAN
    BY DEF CInv
  <2> QED
    BY <2>2, <2>3, <2>4
<1>3. RowsInv'
  <2>1. \A row \in rows : row.owner # None => row.owner \in Requests \ {r}
    BY <1>1 DEF CInv, RowsInv, RowType
  <2> QED
    BY <1>1, <2>1 DEF CInv, RowsInv
<1>4. SessionInv'
  <2>1. \A q \in Requests \ {r} : Untouched(q)
    BY <1>1 DEF Untouched
  <2> QED
    BY <1>1, <2>1, SessionsStay DEF CInv
<1>5. raced' = [q \in Requests |-> raced'[q]]
  BY <1>1 DEF CInv
<1>6. TwinInv' /\ DuplicateNeedsRace'
  BY <1>1 DEF CInv, TwinInv, DuplicateNeedsRace, CommittedRows, LostWrite
<1>7. DemoInv'
  <2>1. \A row \in rows : row.id[1] = "users" =>
          HasRole(None, row.id)' \/ \E u \in Range(DemoUsers) : IsAccount(row, u)
    BY DEF CInv, DemoInv, HasRole, Visible
  <2>2. ASSUME NEW q \in Requests, request'[q] # None, request'[q].handler = "seed_demo",
               NEW i \in DOMAIN DemoUsers
        PROVE  /\ request'[q].block > BeforeAccounts + i =>
                    \E row \in rows : IsAccount(row, DemoUsers[i]) /\ HasRole(q, row.id)'
               /\ request'[q].block = BeforeAccounts + i /\ request'[q].stage = 2 =>
                    \E row \in rows : IsAccount(row, DemoUsers[i]) /\ row.id \in request'[q].got
    <3>1. CASE q = r
      <4>1. request'[q].block = 1
        BY <1>1, <2>2, <3>1
      <4>2. BeforeAccounts + i > 1
        BY DemoBlocks, DemoUserNumbers
      <4> QED
        BY <4>1, <4>2, DemoBlocks, DemoUserNumbers
    <3>2. CASE q # r
      <4>1. request'[q] = request[q]
        BY <1>1, <3>2
      <4>2. \A id : HasRole(q, id) => HasRole(q, id)'
        BY DEF HasRole, Visible
      <4> QED
        BY <2>2, <4>1, <4>2 DEF CInv, DemoInv
    <3> QED
      BY <3>1, <3>2
  <2> QED
    BY <2>1, <2>2 DEF DemoInv
<1>8. HalfDemoNeedsCrash'
  BY <1>1 DEF CInv, HalfDemoNeedsCrash, CommittedRows
<1> QED
  BY <1>2, <1>3, <1>4, <1>5, <1>6, <1>7, <1>8 DEF CInv

(* The seats of a room that is being edited have no part in any of this.   *)
LEMMA CatalogLeavesSeats ==
  ASSUME CInv, NEW r \in Requests, UNCHANGED layout, races \subseteq races',
         request' = [q \in Requests |-> request'[q]],
         \A q \in Requests \ {r} :
           request'[q] = request[q] /\ (request[q] # None => raced[q] \subseteq raced'[q]),
         request'[r] # None => request'[r].handler # "update_room_layout"
  PROVE  LInv'
<1>1. \A q \in Requests :
        Editing(q)' => request'[q] = request[q] /\ raced[q] \subseteq raced'[q]
  BY DEF Editing
<1> QED
  BY <1>1, SeatsAloneInv DEF CInv

LEMMA BeginProgramInv ==
  ASSUME CInv, NEW r \in Requests, NEW h \in Handlers \ {"seed_tariffs"},
         NEW p \in Programs, GoodProgram(p, h), h = "seed_demo" => p = SeedDemo,
         BeginProgram(r, h, p)
  PROVE  CInv'
<1> DEFINE t == [handler |-> h, pc |-> "run", program |-> p,
                 block |-> 1, stage |-> 1, absent |-> {}, got |-> {}]
<1>1. PICK s : s = t
  OBVIOUS
<1>2. /\ s \in ProgramSession /\ s.handler = h /\ s.program = p
      /\ s.block = 1 /\ s.stage = 1 /\ s.absent = {} /\ s.got = {}
  <2>1. t \in ProgramSession
    BY DEF ProgramSession
  <2> QED
    BY <1>1, <2>1
<1>3. /\ OpenSession(r, s) /\ h \in workload /\ left > 0 /\ left' = left - 1
      /\ UNCHANGED <<rows, workload, halfDone, layout>>
  BY <1>1 DEF BeginProgram
<1>4. s # None /\ s.handler # "update_room_layout"
  BY <1>2 DEF Handlers
<1>5. /\ request'[r] = s /\ \A q \in Requests \ {r} : request'[q] = request[q]
      /\ UNCHANGED <<raced, races>> /\ request' = [q \in Requests |-> request'[q]]
  BY <1>3 DEF OpenSession, CInv, LInv
<1>6. LInv'
  BY <1>3, <1>4, <1>5, CatalogLeavesSeats
<1>7. ProgramInv(r)'
  <2>1. /\ Len(p) \in Nat /\ DOMAIN p = 1..Len(p)
        /\ \A b \in DOMAIN p : Len(p[b]) \in Nat /\ Len(p[b]) > 0 /\ DOMAIN p[b] = 1..Len(p[b])
    BY SequenceFacts DEF GoodProgram, GoodBlock
  <2>2. s.block \in 1..(Len(p) + 1) /\ (~Finished(s) => s.stage \in DOMAIN s.program[s.block])
    BY <1>2, <2>1 DEF Finished
  <2> QED
    BY <1>2, <1>5, <2>2 DEF ProgramInv
<1> QED
  BY <1>2, <1>3, <1>4, <1>6, <1>7, OpenedInv

LEMMA BeginsInv ==
  ASSUME CInv, NEW r \in Requests,
         BeginCreateVenue(r) \/ BeginSeedRbac(r) \/ BeginSeedDemo(r)
  PROVE  CInv'
<1>1. CASE BeginCreateVenue(r)
  <2>1. PICK name \in Names, features \in FeatureLists :
          BeginProgram(r, "create_venue", CreateVenue(name, features))
    BY <1>1 DEF BeginCreateVenue
  <2>2. CreateVenue(name, features) \in Programs
    BY DEF Programs
  <2>3. GoodProgram(CreateVenue(name, features), "create_venue")
    BY DataAssumption, GoodCreateVenue
  <2> QED
    BY <2>1, <2>2, <2>3, BeginProgramInv DEF Handlers
<1>2. CASE BeginSeedRbac(r)
  <2>1. PICK permissions \in AllPermissions, pairs \in SetToSeqs(RolePermissions) :
          BeginProgram(r, "seed_rbac", SeedRbac(permissions, pairs))
    BY <1>2 DEF BeginSeedRbac
  <2>2. SeedRbac(permissions, pairs) \in Programs
    BY DEF Programs
  <2>3. GoodProgram(SeedRbac(permissions, pairs), "seed_rbac")
    BY GoodSeedRbac
  <2> QED
    BY <2>1, <2>2, <2>3, BeginProgramInv DEF Handlers
<1>3. CASE BeginSeedDemo(r)
  BY <1>3, GoodSeedDemo, BeginProgramInv DEF BeginSeedDemo, Handlers, Programs
<1> QED
  BY <1>1, <1>2, <1>3

LEMMA BeginSeedTariffsInv ==
  ASSUME CInv, NEW r \in Requests, BeginSeedTariffs(r)
  PROVE  CInv'
<1>1. PICK day \in Days : LET venues == {row \in Visible(r) : row.id[1] = "venues"} IN
        /\ "seed_tariffs" \in workload /\ left > 0
        /\ left' = left - 1
        /\ OpenSession(r, [handler |-> "seed_tariffs", pc |-> "walk", day |-> day,
                           todo |-> venues])
        /\ UNCHANGED <<rows, workload, halfDone, layout>>
  BY Zenon DEF BeginSeedTariffs
<1> DEFINE venues == {row \in Visible(r) : row.id[1] = "venues"}
           t == [handler |-> "seed_tariffs", pc |-> "walk", day |-> day, todo |-> venues]
<1>2. request[r] = None
  BY <1>1 DEF OpenSession
<1>3. venues \subseteq CommittedRows
  BY <1>2 DEF Visible, CommittedRows, CInv, RowsInv
<1>4. t \in WalkSession
  BY <1>3 DEF WalkSession, CommittedRows, CInv, RowsInv
<1>5. PICK s \in WalkSession : s = t
  BY <1>4
<1>6. s.handler = "seed_tariffs" /\ s.todo \subseteq CommittedRows /\ s # None
  BY <1>3, <1>5
<1>7. OpenSession(r, s)
  BY <1>1, <1>5
<1> HIDE DEF t, venues
<1>8. /\ request'[r] = s /\ \A q \in Requests \ {r} : request'[q] = request[q]
      /\ UNCHANGED <<raced, races>> /\ request' = [q \in Requests |-> request'[q]]
  BY <1>7 DEF OpenSession, CInv, LInv
<1>9. LInv'
  BY <1>1, <1>6, <1>8, CatalogLeavesSeats
<1>10. WalkInv(r)'
  BY <1>1, <1>6, <1>8 DEF WalkInv, CommittedRows
<1> QED
  BY <1>1, <1>6, <1>7, <1>9, <1>10, OpenedInv
------------------------------------------------------------------------------
(* A transaction is rolled back: its rows vanish, and no other referred to *)
(* them.                                                                   *)
LEMMA DropInv ==
  ASSUME CInv, NEW r \in Requests, request[r] # None,
         request[r].handler # "update_room_layout", Drop(r)
  PROVE  CInv'
<1>1. /\ request'[r] = None /\ \A q \in Requests \ {r} : request'[q] = request[q]
      /\ request' = [q \in Requests |-> request'[q]]
      /\ raced' = [q \in Requests |-> raced'[q]] /\ races' = races
      /\ \A q \in Requests \ {r} : request[q] # None => raced'[q] = raced[q]
  BY DEF Drop, Committed, CInv, LInv
<1>2. /\ \A row : row \in rows' <=> row \in rows /\ row.owner # r
      /\ workload' = workload /\ left' = left /\ UNCHANGED layout
  BY DEF Drop, Mine
<1>3. LInv'
  BY <1>1, <1>2, CatalogLeavesSeats
<1>4. workload' \in Workloads /\ left' \in 0..Calls[workload']
  BY <1>2 DEF CInv
<1>5. halfDone' \in BOOLEAN
  BY DEF Drop, CInv
<1>6. RowsInv'
  <2>1. \A row \in rows' : row.owner # None =>
          row.owner \in Requests \ {r} /\ request'[row.owner] = request[row.owner]
    BY <1>1, <1>2 DEF CInv, RowsInv, RowType
  <2>2. ASSUME NEW row \in rows', NEW id \in row.under
        PROVE  \E other \in rows' : other.id = id /\ other.owner \in {None, row.owner}
    <3>1. PICK other \in rows : other.id = id /\ other.owner \in {None, row.owner}
      BY <1>2, <2>2 DEF CInv, RowsInv
    <3>2. other.owner # r
      BY <1>2, <3>1
    <3> QED
      BY <1>2, <3>1, <3>2
  <2> QED
    BY <1>2, <2>1, <2>2 DEF CInv, RowsInv
<1>7. SessionInv'
  <2>1. \A q \in Requests \ {r} : request[q] # None => Untouched(q)
    BY <1>1, <1>2 DEF Untouched
  <2> QED
    BY <1>1, <1>2, <2>1, SessionsStay DEF CInv
<1>8. TwinInv'
  <2>1. \A row \in rows' : row.owner # None =>
          row \in rows /\ row.owner \in Requests \ {r} /\ request[row.owner] # None
    BY <1>2 DEF CInv, RowsInv, RowType
  <2> QED
    BY <1>1, <1>2, <2>1 DEF CInv, TwinInv
<1>9. DuplicateNeedsRace'
  BY <1>1, <1>2 DEF CInv, DuplicateNeedsRace, CommittedRows, LostWrite
<1>10. \A q, id : q # r /\ HasRole(q, id) => HasRole(q, id)'
  BY <1>2 DEF HasRole, Visible
<1>11. DemoInv'
  <2>1. \A row \in rows' : row.id[1] = "users" =>
          HasRole(None, row.id)' \/ \E u \in Range(DemoUsers) : IsAccount(row, u)
    BY <1>2, <1>10 DEF CInv, DemoInv
  <2>2. \A row \in rows, u \in Range(DemoUsers) : IsAccount(row, u) => row \in rows'
    BY <1>2 DEF IsAccount, CInv, RowsInv
  <2>3. ASSUME NEW q \in Requests, request'[q] # None, request'[q].handler = "seed_demo",
               NEW i \in DOMAIN DemoUsers
        PROVE  /\ request'[q].block > BeforeAccounts + i =>
                    \E row \in rows' : IsAccount(row, DemoUsers[i]) /\ HasRole(q, row.id)'
               /\ request'[q].block = BeforeAccounts + i /\ request'[q].stage = 2 =>
                    \E row \in rows' : IsAccount(row, DemoUsers[i]) /\ row.id \in request'[q].got
    <3>1. q # r /\ request'[q] = request[q]
      BY <1>1, <2>3
    <3>2. DemoUsers[i] \in Range(DemoUsers)
      BY DEF Range
    <3> QED
      BY <1>10, <2>2, <2>3, <3>1, <3>2 DEF CInv, DemoInv
  <2> QED
    BY <2>1, <2>3 DEF DemoInv
<1>12. HalfDemoNeedsCrash'
  <2>1. CASE request[r].handler = "seed_demo"
    BY <2>1 DEF Drop, HalfDemoNeedsCrash
  <2>2. CASE request[r].handler # "seed_demo"
    <3>1. halfDone' = halfDone
      BY <2>2 DEF Drop, CInv
    <3>2. \A row : row \in CommittedRows' <=> row \in CommittedRows
      BY <1>2 DEF CommittedRows
    <3>3. \A q \in Requests : request[q] # None /\ request[q].handler = "seed_demo" =>
            request'[q] = request[q]
      BY <1>1, <2>2
    <3> QED
      BY <3>1, <3>2, <3>3 DEF CInv, HalfDemoNeedsCrash
  <2> QED
    BY <2>1, <2>2
<1> QED
  BY <1>1, <1>3, <1>4, <1>5, <1>6, <1>7, <1>8, <1>9, <1>11, <1>12 DEF CInv
------------------------------------------------------------------------------
(* A transaction is committed: its rows stay, and have no owner any more.  *)
KeptAs(r, row, kept) ==
  kept = Row(row.id, row.under, IF row.owner = r THEN None ELSE row.owner, row.by)

LEMMA KeepRows ==
  ASSUME RowsInv, NEW r \in Requests, Keep(r)
  PROVE  /\ rows' \subseteq RowType
         /\ \A kept \in rows' : \E row \in rows : KeptAs(r, row, kept)
         /\ \A row \in rows : \E kept \in rows' : KeptAs(r, row, kept)
         /\ \A row \in rows : row.owner # r => row \in rows'
<1>1. rows' = (rows \ Mine(r)) \cup {Row(row.id, row.under, None, row.by) : row \in Mine(r)}
  BY DEF Keep
<1>2. \A row \in rows : row = Row(row.id, row.under, row.owner, row.by)
  BY DEF RowsInv, RowType, Row
<1>3. ASSUME NEW kept \in rows' PROVE \E row \in rows : KeptAs(r, row, kept)
  BY <1>1, <1>2 DEF KeptAs, Mine
<1>4. ASSUME NEW row \in rows PROVE \E kept \in rows' : KeptAs(r, row, kept)
  BY <1>1, <1>2 DEF KeptAs, Mine
<1>5. ASSUME NEW kept \in rows' PROVE kept \in RowType
  <2>1. PICK row \in rows : KeptAs(r, row, kept)
    BY <1>3
  <2>2. row \in RowType
    BY DEF RowsInv
  <2> QED
    BY <2>1, <2>2 DEF KeptAs, Row, RowType
<1>6. \A row \in rows : row.owner # r => row \in rows'
  BY <1>1 DEF Mine
<1> QED
  BY <1>3, <1>4, <1>5, <1>6

LEMMA KeptFacts ==
  ASSUME NEW r, NEW row, NEW kept, KeptAs(r, row, kept)
  PROVE  /\ kept.id = row.id /\ kept.under = row.under /\ kept.by = row.by
         /\ kept.owner = IF row.owner = r THEN None ELSE row.owner
         /\ KeyOfRow(kept) = KeyOfRow(row)
         /\ \A u : IsAccount(kept, u) <=> IsAccount(row, u)
BY DEF KeptAs, Row, KeyOfRow, Key, IsAccount

LEMMA KeepRowsInv ==
  ASSUME RowsInv, NEW r \in Requests, Keep(r),
         \A q \in Requests \ {r} : request'[q] = request[q]
  PROVE  RowsInv'
<1>1. /\ rows' \subseteq RowType
      /\ \A kept \in rows' : \E row \in rows : KeptAs(r, row, kept)
      /\ \A row \in rows : \E kept \in rows' : KeptAs(r, row, kept)
  BY KeepRows
<1>2. ASSUME NEW kept \in rows'
      PROVE  /\ kept.id[1] \in Tables
             /\ kept.id[1] = "tariffs" => kept.id[2] \in Days
             /\ kept.id[1] = "users" => kept.owner = None /\ kept.under = {}
             /\ kept.owner # None =>
                  /\ request'[kept.owner] # None /\ request'[kept.owner].handler = kept.by
                  /\ kept.by = "seed_tariffs" => kept.id[1] = "tariffs"
             /\ \A id \in kept.under :
                  \E other \in rows' : other.id = id /\ other.owner \in {None, kept.owner}
  <2>1. PICK row \in rows : KeptAs(r, row, kept)
    BY <1>1
  <2>2. /\ kept.id = row.id /\ kept.under = row.under /\ kept.by = row.by
        /\ kept.owner = IF row.owner = r THEN None ELSE row.owner
    BY <2>1, KeptFacts
  <2>3. kept.owner # None =>
          kept.owner = row.owner /\ row.owner \in Requests \ {r}
    BY <2>2 DEF RowsInv, RowType
  <2>4. ASSUME NEW id \in kept.under
        PROVE  \E other \in rows' : other.id = id /\ other.owner \in {None, kept.owner}
    <3>1. PICK old \in rows : old.id = id /\ old.owner \in {None, row.owner}
      BY <2>2 DEF RowsInv
    <3>2. PICK other \in rows' : KeptAs(r, old, other)
      BY <1>1
    <3>3. other.id = old.id /\ other.owner = IF old.owner = r THEN None ELSE old.owner
      BY <3>2, KeptFacts
    <3> QED
      BY <2>2, <3>1, <3>3
  <2> QED
    BY <2>2, <2>3, <2>4 DEF RowsInv
<1>3. ASSUME NEW x \in rows', NEW y \in rows',
             \/ x.id = y.id
             \/ x.id[1] = "users" /\ KeyOfRow(x) = KeyOfRow(y)
      PROVE  x = y
  <2>1. PICK a \in rows : KeptAs(r, a, x)
    BY <1>1
  <2>2. PICK b \in rows : KeptAs(r, b, y)
    BY <1>1
  <2>3. /\ x.id = a.id /\ KeyOfRow(x) = KeyOfRow(a)
        /\ y.id = b.id /\ KeyOfRow(y) = KeyOfRow(b)
    BY <2>1, <2>2, KeptFacts
  <2>4. a = b
    BY <1>3, <2>3 DEF RowsInv
  <2> QED
    BY <2>1, <2>2, <2>4 DEF KeptAs
<1> QED
  BY <1>1, <1>2, <1>3 DEF RowsInv

(* What a commit tells the others.                                         *)
LEMMA KeepTells ==
  ASSUME CInv, NEW r \in Requests, request[r] # None, Keep(r)
  PROVE  /\ request' = [q \in Requests |-> request'[q]]
         /\ raced' = [q \in Requests |-> raced'[q]]
         /\ request'[r] = None /\ races \subseteq races'
         /\ \A q \in Requests \ {r} : request'[q] = request[q]
         /\ \A q \in Requests \ {r} : request[q] # None =>
              /\ raced[q] \subseteq raced'[q]
              /\ \A row \in rows : row.owner = r => KeyOfRow(row) \in raced'[q]
         /\ \A row \in rows : row.owner = r /\ KeyOfRow(row) \in raced[r] =>
              {KeyOfRow(row)} \in races'
         /\ UNCHANGED <<workload, left, layout>>
<1>1. PICK keys : keys = {KeyOfRow(row) : row \in Mine(r)}
  OBVIOUS
<1>2. \A row \in rows : row.owner = r => KeyOfRow(row) \in keys
  BY <1>1 DEF Mine
<1>3. /\ request' = [request EXCEPT ![r] = None]
      /\ raced' = [q \in Requests |->
           IF q = r \/ request[q] = None THEN {} ELSE raced[q] \cup keys]
      /\ races' = races \cup {{k} : k \in keys \cap raced[r]}
      /\ UNCHANGED <<workload, left, layout>>
  BY <1>1 DEF Keep
<1> QED
  BY <1>2, <1>3 DEF CInv, LInv

(* The others have raced with what has been committed.                     *)
LEMMA KeepSessions ==
  ASSUME CInv, NEW r \in Requests, request[r] # None, Keep(r)
  PROVE  SessionInv' /\ TwinInv' /\ DuplicateNeedsRace'
<1>1. /\ request'[r] = None /\ races \subseteq races'
      /\ \A q \in Requests \ {r} : request'[q] = request[q]
      /\ \A q \in Requests \ {r} : request[q] # None =>
           /\ raced[q] \subseteq raced'[q]
           /\ \A row \in rows : row.owner = r => KeyOfRow(row) \in raced'[q]
      /\ \A row \in rows : row.owner = r /\ KeyOfRow(row) \in raced[r] =>
           {KeyOfRow(row)} \in races'
      /\ UNCHANGED workload
  BY KeepTells
<1>2. RowsInv /\ RowsInv'
  BY <1>1, KeepRowsInv DEF CInv
<1>3. /\ \A kept \in rows' : \E row \in rows : KeptAs(r, row, kept)
      /\ \A row \in rows : row.owner # r => row \in rows'
  BY <1>2, KeepRows
<1>4. None \notin Requests
  OBVIOUS
<1>5. \A kept \in rows' : \E row \in rows :
        /\ KeptAs(r, row, kept) /\ kept.id = row.id /\ kept.by = row.by
        /\ KeyOfRow(kept) = KeyOfRow(row)
        /\ kept.owner = IF row.owner = r THEN None ELSE row.owner
        /\ row.owner # r => kept = row
  <2> SUFFICES ASSUME NEW kept \in rows'
               PROVE  \E row \in rows :
        /\ KeptAs(r, row, kept) /\ kept.id = row.id /\ kept.by = row.by
        /\ KeyOfRow(kept) = KeyOfRow(row)
        /\ kept.owner = IF row.owner = r THEN None ELSE row.owner
        /\ row.owner # r => kept = row
    OBVIOUS
  <2>1. PICK row \in rows : KeptAs(r, row, kept)
    BY <1>3
  <2>2. row.owner # r => kept = row
    BY <1>2, <2>1 DEF KeptAs, Row, RowsInv, RowType
  <2> QED
    BY <2>1, <2>2, KeptFacts
<1>6. \A q \in Requests \ {r} : request[q] # None => Untouched(q)
  <2> SUFFICES ASSUME NEW q \in Requests \ {r}, request[q] # None
               PROVE  Untouched(q)
    OBVIOUS
  <2>1. ASSUME NEW kept \in rows', kept.owner \in {None, q}
        PROVE  kept \in rows \/ (kept.owner = None /\ KeyOfRow(kept) \in raced'[q])
    BY <1>1, <1>5, <2>1
  <2>2. \A row \in rows : row.owner \in {None, q} => row \in rows'
    BY <1>3, <1>4
  <2> QED
    BY <1>1, <2>1, <2>2 DEF Untouched
<1>7. SessionInv'
  BY <1>1, <1>6, SessionsStay DEF CInv
<1>8. TwinInv'
  <2> SUFFICES ASSUME NEW x \in rows', NEW y \in rows',
                      x.owner # None, x.by # "create_venue",
                      x # y, KeyOfRow(x) = KeyOfRow(y)
               PROVE  /\ y.owner # x.owner
                      /\ y.owner = None => KeyOfRow(x) \in raced'[x.owner]
    BY DEF TwinInv
  <2>1. x \in rows /\ x.owner \in Requests \ {r} /\ request[x.owner] # None
    BY <1>2, <1>4, <1>5 DEF RowsInv, RowType
  <2>2. PICK b \in rows : /\ KeptAs(r, b, y) /\ KeyOfRow(y) = KeyOfRow(b)
                          /\ y.owner = IF b.owner = r THEN None ELSE b.owner
                          /\ b.owner # r => y = b
    BY <1>5
  <2>3. CASE b.owner = r
    BY <1>1, <2>1, <2>2, <2>3
  <2>4. CASE b.owner # r
    <3>1. y = b /\ b \in rows
      BY <2>2, <2>4
    <3>2. y.owner # x.owner /\ (y.owner = None => KeyOfRow(x) \in raced[x.owner])
      BY <2>1, <3>1 DEF CInv, TwinInv
    <3> QED
      BY <1>1, <2>1, <3>2
  <2> QED
    BY <2>3, <2>4
<1>9. DuplicateNeedsRace'
  <2> SUFFICES ASSUME NEW x \in rows', NEW y \in rows', x.owner = None, y.owner = None,
                      x.id # y.id, KeyOfRow(x) = KeyOfRow(y),
                      "create_venue" \notin {x.by, y.by}
               PROVE  {KeyOfRow(x)} \in races'
    BY DEF DuplicateNeedsRace, CommittedRows, LostWrite
  <2>1. PICK a \in rows : /\ x.id = a.id /\ x.by = a.by /\ KeyOfRow(x) = KeyOfRow(a)
                          /\ a.owner \in {None, r}
    BY <1>5
  <2>2. PICK b \in rows : /\ y.id = b.id /\ y.by = b.by /\ KeyOfRow(y) = KeyOfRow(b)
                          /\ b.owner \in {None, r}
    BY <1>5
  <2>3. a # b /\ KeyOfRow(a) = KeyOfRow(b) /\ "create_venue" \notin {a.by, b.by}
    BY <2>1, <2>2
  <2>4. CASE a.owner = None /\ b.owner = None
    <3>1. {KeyOfRow(a)} \in races
      BY <2>1, <2>2, <2>3, <2>4 DEF CInv, DuplicateNeedsRace, CommittedRows, LostWrite
    <3> QED
      BY <1>1, <2>1, <3>1
  <2>5. ~(a.owner = r /\ b.owner = r)
    BY <1>4, <2>3 DEF CInv, TwinInv
  <2>6. CASE a.owner = r /\ b.owner = None
    <3>1. KeyOfRow(a) \in raced[r]
      BY <1>4, <2>3, <2>6 DEF CInv, TwinInv
    <3> QED
      BY <1>1, <2>1, <2>6, <3>1
  <2>7. CASE a.owner = None /\ b.owner = r
    <3>1. KeyOfRow(b) \in raced[r]
      BY <1>4, <2>3, <2>7 DEF CInv, TwinInv
    <3> QED
      BY <1>1, <2>1, <2>3, <2>7, <3>1
  <2> QED
    BY <2>1, <2>2, <2>4, <2>5, <2>6, <2>7
<1> QED
  BY <1>7, <1>8, <1>9

(* A seed_demo that commits has given every account its role.              *)
LEMMA KeepDemo ==
  ASSUME CInv, NEW r \in Requests, request[r] # None, Keep(r),
         request[r].handler = "seed_demo" =>
           \A row \in rows : row.id[1] = "users" => HasRole(r, row.id)
  PROVE  DemoInv' /\ HalfDemoNeedsCrash'
<1>1. /\ request'[r] = None
      /\ \A q \in Requests \ {r} : request'[q] = request[q]
  BY KeepTells
<1>2. RowsInv
  BY DEF CInv
<1>3. /\ \A kept \in rows' : \E row \in rows : KeptAs(r, row, kept)
      /\ \A row \in rows : \E kept \in rows' : KeptAs(r, row, kept)
  BY <1>2, KeepRows
<1>4. ASSUME NEW q, NEW id, HasRole(q, id)
      PROVE  HasRole(IF q = r THEN None ELSE q, id)'
  <2>1. PICK row \in rows : /\ row.owner \in {None, q} /\ id \in row.under
                            /\ row.id[1] = "user_role_assignments"
    BY <1>4 DEF HasRole, Visible
  <2>2. PICK kept \in rows' : KeptAs(r, row, kept)
    BY <1>3
  <2>3. /\ kept.owner \in {None, IF q = r THEN None ELSE q}
        /\ id \in kept.under /\ kept.id[1] = "user_role_assignments"
    BY <2>1, <2>2, KeptFacts
  <2> QED
    BY <2>3 DEF HasRole, Visible
<1>5. DemoInv'
  <2>1. ASSUME NEW kept \in rows', kept.id[1] = "users"
        PROVE  HasRole(None, kept.id)' \/ \E u \in Range(DemoUsers) : IsAccount(kept, u)
    <3>1. PICK row \in rows : KeptAs(r, row, kept)
      BY <1>3
    <3>2. row.id = kept.id /\ \A u : IsAccount(kept, u) <=> IsAccount(row, u)
      BY <3>1, KeptFacts
    <3>3. HasRole(None, row.id) \/ \E u \in Range(DemoUsers) : IsAccount(row, u)
      BY <2>1, <3>2 DEF CInv, DemoInv
    <3>4. HasRole(None, row.id) => HasRole(None, row.id)'
      BY <1>4
    <3> QED
      BY <3>2, <3>3, <3>4
  <2>2. ASSUME NEW q \in Requests, request'[q] # None, request'[q].handler = "seed_demo",
               NEW i \in DOMAIN DemoUsers
        PROVE  /\ request'[q].block > BeforeAccounts + i =>
                    \E row \in rows' : IsAccount(row, DemoUsers[i]) /\ HasRole(q, row.id)'
               /\ request'[q].block = BeforeAccounts + i /\ request'[q].stage = 2 =>
                    \E row \in rows' : IsAccount(row, DemoUsers[i]) /\ row.id \in request'[q].got
    <3>1. q # r /\ request'[q] = request[q]
      BY <1>1, <2>2
    <3>2. ASSUME NEW row \in rows, IsAccount(row, DemoUsers[i])
          PROVE  \E kept \in rows' : kept.id = row.id /\ IsAccount(kept, DemoUsers[i])
      <4>1. PICK kept \in rows' : KeptAs(r, row, kept)
        BY <1>3
      <4> QED
        BY <3>2, <4>1, KeptFacts
    <3>3. \A id : HasRole(q, id) => HasRole(q, id)'
      BY <1>4, <3>1
    <3>4. /\ request[q].block > BeforeAccounts + i =>
               \E row \in rows : IsAccount(row, DemoUsers[i]) /\ HasRole(q, row.id)
          /\ request[q].block = BeforeAccounts + i /\ request[q].stage = 2 =>
               \E row \in rows : IsAccount(row, DemoUsers[i]) /\ row.id \in request[q].got
      BY <2>2, <3>1 DEF CInv, DemoInv
    <3> QED
      BY <3>1, <3>2, <3>3, <3>4
  <2> QED
    BY <2>1, <2>2 DEF DemoInv
<1>6. HalfDemoNeedsCrash'
  <2> SUFFICES ASSUME NEW kept \in rows', kept.id[1] = "users"
               PROVE  \/ HasRole(None, kept.id)'
                      \/ halfDone'
                      \/ \E q \in Requests :
                           request'[q] # None /\ request'[q].handler = "seed_demo"
    BY DEF HalfDemoNeedsCrash, HasRole, Visible, CommittedRows
  <2>1. PICK row \in rows : KeptAs(r, row, kept)
    BY <1>3
  <2>2. row.id = kept.id
    BY <2>1, KeptFacts
  <2>3. CASE request[r].handler = "seed_demo"
    BY <1>4, <2>2, <2>3
  <2>4. CASE request[r].handler # "seed_demo"
    <3>1. row.owner = None
      BY <1>2, <2>2 DEF RowsInv
    <3>2. \/ HasRole(None, row.id)
          \/ halfDone
          \/ \E q \in Requests : request[q] # None /\ request[q].handler = "seed_demo"
      BY <2>2, <3>1 DEF CInv, HalfDemoNeedsCrash, HasRole, Visible, CommittedRows
    <3>3. CASE HasRole(None, row.id)
      BY <1>4, <2>2, <3>3
    <3>4. CASE halfDone
      BY <2>4, <3>4 DEF Keep
    <3>5. CASE \E q \in Requests : request[q] # None /\ request[q].handler = "seed_demo"
      BY <1>1, <2>4, <3>5
    <3> QED
      BY <3>2, <3>3, <3>4, <3>5
  <2> QED
    BY <2>3, <2>4
<1> QED
  BY <1>5, <1>6

LEMMA KeepInv ==
  ASSUME CInv, NEW r \in Requests, request[r] # None, Keep(r),
         request[r].handler = "seed_demo" =>
           \A row \in rows : row.id[1] = "users" => HasRole(r, row.id)
  PROVE  CInv'
<1>1. /\ request' = [q \in Requests |-> request'[q]]
      /\ raced' = [q \in Requests |-> raced'[q]]
      /\ request'[r] = None /\ races \subseteq races'
      /\ \A q \in Requests \ {r} : request'[q] = request[q]
      /\ \A q \in Requests \ {r} : request[q] # None => raced[q] \subseteq raced'[q]
      /\ UNCHANGED <<workload, left, layout>>
  BY KeepTells
<1>2. LInv'
  BY <1>1, CatalogLeavesSeats
<1>3. RowsInv'
  BY <1>1, KeepRowsInv DEF CInv
<1>4. workload' \in Workloads /\ left' \in 0..Calls[workload']
  BY <1>1 DEF CInv
<1>5. halfDone' \in BOOLEAN
  BY DEF Keep, CInv
<1>6. SessionInv' /\ TwinInv' /\ DuplicateNeedsRace'
  BY KeepSessions
<1>7. DemoInv' /\ HalfDemoNeedsCrash'
  BY KeepDemo
<1> QED
  BY <1>1, <1>2, <1>3, <1>4, <1>5, <1>6, <1>7 DEF CInv

(* Every block of a seed_demo that has come to its end is behind it.       *)
LEMMA CommitsInv ==
  ASSUME CInv, NEW r \in Requests, CommitProgram(r) \/ CommitTariffs(r)
  PROVE  CInv'
<1>1. request[r] # None /\ Keep(r)
  BY DEF CommitProgram, CommitTariffs, Running, Open
<1>2. ASSUME request[r].handler = "seed_demo", NEW row \in rows, row.id[1] = "users"
      PROVE  HasRole(r, row.id)
  <2>1. CommitProgram(r) /\ ProgramInv(r)
    BY <1>1, <1>2 DEF CommitTariffs, Open, CInv, SessionInv, WalkInv, WalkSession
  <2>2. /\ request[r].program = SeedDemo /\ request[r].block \in Nat
        /\ request[r].block > Len(SeedDemo)
    BY <1>2, <2>1 DEF CommitProgram, ProgramInv, Finished, ProgramSession
  <2>3. CASE HasRole(None, row.id)
    BY <2>3 DEF HasRole, Visible
  <2>4. CASE \E u \in Range(DemoUsers) : IsAccount(row, u)
    <3>1. PICK i \in DOMAIN DemoUsers : IsAccount(row, DemoUsers[i])
      BY <2>4 DEF Range
    <3>2. request[r].block > BeforeAccounts + i
      BY <2>2, DemoBlocks, DemoUserNumbers, GoodSeedDemo
    <3>3. PICK other \in rows : IsAccount(other, DemoUsers[i]) /\ HasRole(r, other.id)
      BY <1>1, <1>2, <3>2 DEF CInv, DemoInv
    <3>4. KeyOfRow(row) = KeyOfRow(other)
      BY <3>1, <3>3 DEF IsAccount, KeyOfRow, Key, CInv, RowsInv
    <3>5. row = other
      BY <1>2, <3>4 DEF CInv, RowsInv
    <3> QED
      BY <3>3, <3>5
  <2> QED
    BY <1>2, <2>3, <2>4 DEF CInv, DemoInv
<1> QED
  BY <1>1, <1>2, KeepInv

LEMMA EndsInv ==
  ASSUME CInv, NEW r \in Requests, FailInsert(r) \/ BreakDeadlock(r) \/ Abort(r)
  PROVE  CInv'
<1>1. request[r] # None /\ Drop(r)
  BY DEF FailInsert, BreakDeadlock, Abort, KeyTaken, WaitsFor, Inserting, Running
<1>2. request[r].handler # "update_room_layout"
  <2>1. CASE Abort(r)
    BY <2>1 DEF Abort, Handlers
  <2>2. CASE FailInsert(r) \/ BreakDeadlock(r)
    <3>1. Running(r)
      BY <2>2 DEF FailInsert, BreakDeadlock, KeyTaken, WaitsFor, Inserting
    <3>2. CASE request[r].handler = "update_room_layout"
      <4>1. request[r] \in LayoutSession
        BY <1>1, <3>2 DEF CInv, LInv, LayoutTypeOK
      <4> QED
        BY <3>1, <4>1 DEF Running, LayoutSession
    <3> QED
      BY <3>2
  <2> QED
    BY <2>1, <2>2
<1> QED
  BY <1>1, <1>2, DropInv
------------------------------------------------------------------------------
(* A row that the transaction of r may insert now.                         *)
Fits(r, x) ==
  /\ x \in RowType /\ x.by = request[r].handler
  /\ x.owner = IF x.id[1] = "users" THEN None ELSE r
  /\ x.id[1] \in Tables
  /\ x.id[1] = "tariffs" => x.id[2] \in Days
  /\ x.by = "seed_tariffs" => x.id[1] = "tariffs"
  /\ \A row \in rows : row.id # x.id
  /\ \A id \in x.under : \E row \in Visible(r) : row.id = id
  /\ x.id[1] = "users" =>
       /\ x.by = "seed_demo" /\ x.under = {}
       /\ \E u \in Range(DemoUsers) : IsAccount(x, u)
       /\ \A row \in rows : KeyOfRow(row) # KeyOfRow(x)
  /\ x.by # "create_venue" =>
       \A row \in Found(r, KeyOfRow(x)) : row.owner = None /\ KeyOfRow(x) \in raced[r]

(* A step of r that inserts the row in X, if any, and goes on.             *)
Grows(r, X) ==
  /\ rows' = rows \cup X
  /\ \A x \in X : Fits(r, x)
  /\ \A x, y \in X : x = y
  /\ request' = [q \in Requests |-> request'[q]]
  /\ \A q \in Requests \ {r} : request'[q] = request[q]
  /\ request'[r] # None /\ request'[r].handler = request[r].handler
  /\ raced' = [q \in Requests |-> raced'[q]] /\ races \subseteq races'
  /\ \A q \in Requests : request[q] # None => raced[q] \subseteq raced'[q]
  /\ \A x \in X, q \in Requests \ {r} :
       x.owner = None /\ request[q] # None => KeyOfRow(x) \in raced'[q]
  /\ UNCHANGED <<workload, left, halfDone, layout>>

LEMMA GrowsRows ==
  ASSUME CInv, NEW r \in Requests, request[r] # None, NEW X, Grows(r, X)
  PROVE  RowsInv'
<1>1. ASSUME NEW x \in rows'
      PROVE  /\ x \in RowType /\ x.id[1] \in Tables
             /\ x.id[1] = "tariffs" => x.id[2] \in Days
             /\ x.id[1] = "users" => x.owner = None /\ x.under = {}
             /\ x.owner # None =>
                  /\ request'[x.owner] # None /\ request'[x.owner].handler = x.by
                  /\ x.by = "seed_tariffs" => x.id[1] = "tariffs"
             /\ \A id \in x.under :
                  \E other \in rows' : other.id = id /\ other.owner \in {None, x.owner}
  <2>1. CASE x \in rows
    <3>1. x.owner # None => x.owner \in Requests
      BY <2>1 DEF CInv, RowsInv, RowType
    <3> QED
      BY <2>1, <3>1 DEF CInv, RowsInv, Grows
  <2>2. CASE x \in X
    BY <2>2 DEF Grows, Fits, Visible
  <2> QED
    BY <1>1, <2>1, <2>2 DEF Grows
<1>2. ASSUME NEW x \in rows', NEW y \in rows', x.id = y.id
      PROVE  x = y
  BY <1>2 DEF CInv, RowsInv, Grows, Fits
<1>3. ASSUME NEW x \in rows', NEW y \in rows', x.id[1] = "users", KeyOfRow(x) = KeyOfRow(y)
      PROVE  x = y
  <2>1. y.id[1] = "users"
    BY <1>3 DEF KeyOfRow, Key
  <2> QED
    BY <1>3, <2>1 DEF CInv, RowsInv, Grows, Fits
<1> QED
  BY <1>1, <1>2, <1>3 DEF RowsInv

LEMMA GrowsTwins ==
  ASSUME CInv, NEW r \in Requests, request[r] # None, NEW X, Grows(r, X)
  PROVE  TwinInv' /\ DuplicateNeedsRace'
<1>1. ASSUME NEW x \in rows', NEW y \in rows', x.owner # None, x.by # "create_venue",
             x # y, KeyOfRow(x) = KeyOfRow(y)
      PROVE  y.owner # x.owner /\ (y.owner = None => KeyOfRow(x) \in raced'[x.owner])
  <2>1. CASE x \in rows /\ y \in rows
    <3>1. /\ x.owner \in Requests /\ request[x.owner] # None /\ y.owner # x.owner
          /\ y.owner = None => KeyOfRow(x) \in raced[x.owner]
      BY <1>1, <2>1 DEF CInv, TwinInv, RowsInv, RowType
    <3> QED
      BY <3>1 DEF Grows
  <2>2. CASE x \in X
    <3>1. y \in rows /\ x.owner = r
      BY <1>1, <2>2 DEF Grows, Fits
    <3>2. y.owner \in {None, r} => y \in Found(r, KeyOfRow(x))
      BY <1>1, <3>1 DEF Found, Visible
    <3> QED
      BY <1>1, <2>2, <3>1, <3>2 DEF Grows, Fits
  <2>3. CASE x \in rows /\ y \in X
    <3>1. x.owner \in Requests /\ request[x.owner] # None /\ request[x.owner].handler = x.by
      BY <1>1, <2>3 DEF CInv, RowsInv, RowType
    <3>2. x.owner # r
      <4>1. SUFFICES ASSUME x.owner = r PROVE FALSE
        OBVIOUS
      <4>2. x \in Found(r, KeyOfRow(y)) /\ y.by = x.by
        BY <1>1, <2>3, <3>1, <4>1 DEF Found, Visible, Grows, Fits
      <4> QED
        BY <1>1, <2>3, <4>2 DEF Grows, Fits
    <3> QED
      BY <1>1, <2>3, <3>1, <3>2 DEF Grows, Fits
  <2> QED
    BY <2>1, <2>2, <2>3 DEF Grows
<1>2. ASSUME NEW x \in rows', NEW y \in rows', x.owner = None, y.owner = None,
             x.id # y.id, KeyOfRow(x) = KeyOfRow(y), "create_venue" \notin {x.by, y.by}
      PROVE  {KeyOfRow(x)} \in races'
  <2>1. x.id[1] = y.id[1]
    BY <1>2 DEF KeyOfRow, Key
  <2>2. x \in rows /\ y \in rows
    BY <1>2, <2>1 DEF Grows, Fits
  <2>3. {KeyOfRow(x)} \in races
    BY <1>2, <2>2 DEF CInv, DuplicateNeedsRace, CommittedRows, LostWrite
  <2> QED
    BY <2>3 DEF Grows
<1> QED
  BY <1>1, <1>2 DEF TwinInv, DuplicateNeedsRace, CommittedRows, LostWrite

(* What DemoInv says of r.                                                 *)
DemoProgress(r) ==
  request[r].handler = "seed_demo" =>
    \A i \in DOMAIN DemoUsers :
      /\ request[r].block > BeforeAccounts + i =>
           \E row \in rows : IsAccount(row, DemoUsers[i]) /\ HasRole(r, row.id)
      /\ request[r].block = BeforeAccounts + i /\ request[r].stage = 2 =>
           \E row \in rows : IsAccount(row, DemoUsers[i]) /\ row.id \in request[r].got

LEMMA GrowsInv ==
  ASSUME CInv, NEW r \in Requests, request[r] # None,
         request[r].handler # "update_room_layout", NEW X, Grows(r, X),
         ProgramInv(r)' \/ WalkInv(r)', DemoProgress(r)'
  PROVE  CInv'
<1>1. LInv'
  BY CatalogLeavesSeats DEF Grows
<1>2. /\ workload' \in Workloads /\ left' \in 0..Calls[workload']
      /\ raced' = [q \in Requests |-> raced'[q]]
  BY DEF Grows, CInv
<1>3. halfDone' \in BOOLEAN
  BY DEF Grows, CInv
<1>4. RowsInv' /\ TwinInv' /\ DuplicateNeedsRace'
  BY GrowsRows, GrowsTwins
<1>5. SessionInv'
  <2>1. ASSUME NEW q \in Requests \ {r}, request[q] # None
        PROVE  Untouched(q)
    <3>1. \A x \in X : x.owner \in {None, q} => x.owner = None /\ KeyOfRow(x) \in raced'[q]
      BY <2>1 DEF Grows, Fits
    <3> QED
      BY <2>1, <3>1 DEF Untouched, Grows
  <2>2. request'[r].handler \in workload
    BY DEF Grows, CInv, SessionInv
  <2> QED
    BY <2>1, <2>2, SessionsStay DEF CInv, Grows
<1>6. \A q, id : HasRole(q, id) => HasRole(q, id)'
  BY DEF HasRole, Visible, Grows
<1>7. DemoInv'
  <2>1. \A row \in rows' : row.id[1] = "users" =>
          HasRole(None, row.id)' \/ \E u \in Range(DemoUsers) : IsAccount(row, u)
    BY <1>6 DEF CInv, DemoInv, Grows, Fits
  <2>2. ASSUME NEW q \in Requests, request'[q] # None, request'[q].handler = "seed_demo",
               NEW i \in DOMAIN DemoUsers
        PROVE  /\ request'[q].block > BeforeAccounts + i =>
                    \E row \in rows' : IsAccount(row, DemoUsers[i]) /\ HasRole(q, row.id)'
               /\ request'[q].block = BeforeAccounts + i /\ request'[q].stage = 2 =>
                    \E row \in rows' : IsAccount(row, DemoUsers[i]) /\ row.id \in request'[q].got
    <3>1. CASE q = r
      BY <2>2, <3>1 DEF DemoProgress
    <3>2. CASE q # r
      <4>1. request'[q] = request[q] /\ \A row \in rows : row \in rows'
        BY <3>2 DEF Grows
      <4> QED
        BY <1>6, <2>2, <4>1 DEF CInv, DemoInv
    <3> QED
      BY <3>1, <3>2
  <2> QED
    BY <2>1, <2>2 DEF DemoInv
<1>8. HalfDemoNeedsCrash'
  <2> SUFFICES ASSUME NEW x \in rows', x.owner = None, x.id[1] = "users"
               PROVE  \/ HasRole(None, x.id)'
                      \/ halfDone'
                      \/ \E q \in Requests :
                           request'[q] # None /\ request'[q].handler = "seed_demo"
    BY DEF HalfDemoNeedsCrash, HasRole, Visible, CommittedRows
  <2>1. CASE x \in X
    BY <2>1 DEF Grows, Fits
  <2>2. CASE x \in rows
    <3>1. \/ HasRole(None, x.id)
          \/ halfDone
          \/ \E q \in Requests : request[q] # None /\ request[q].handler = "seed_demo"
      BY <2>2 DEF CInv, HalfDemoNeedsCrash, HasRole, Visible, CommittedRows
    <3> QED
      BY <1>6, <3>1 DEF Grows
  <2> QED
    BY <2>1, <2>2 DEF Grows
<1> QED
  BY <1>1, <1>2, <1>3, <1>4, <1>5, <1>7, <1>8 DEF CInv
------------------------------------------------------------------------------
(* A program goes on to the next stage, or the next block.                 *)
Proceeded(s, found, absent, t) ==
  /\ t \in ProgramSession /\ t.handler = s.handler /\ t.program = s.program
  /\ t.got = s.got \cup found /\ t.absent = absent
  /\ t.block \in 1..(Len(t.program) + 1)
  /\ Finished(t) => absent = {}
  /\ ~Finished(t) => t.stage \in DOMAIN t.program[t.block]
  /\ \/ absent # {} /\ t.block = s.block /\ t.stage = s.stage
     \/ /\ absent = {} /\ s.stage < Len(s.program[s.block])
        /\ t.block = s.block /\ t.stage = s.stage + 1
     \/ /\ absent = {} /\ s.stage = Len(s.program[s.block])
        /\ t.block = s.block + 1 /\ t.stage = 1

LEMMA ProceedingFacts ==
  ASSUME NEW s \in ProgramSession, GoodProgram(s.program, s.handler),
         s.block \in 1..(Len(s.program) + 1), ~Finished(s),
         s.stage \in DOMAIN s.program[s.block],
         NEW found \in SUBSET Ids, NEW absent \in SUBSET (DOMAIN StageOf(s)),
         NEW t, t = Proceeding(s, found, absent)
  PROVE  Proceeded(s, found, absent, t)
<1>1. /\ Len(s.program) \in Nat /\ DOMAIN s.program = 1..Len(s.program)
      /\ \A b \in DOMAIN s.program :
           /\ Len(s.program[b]) \in Nat /\ Len(s.program[b]) > 0
           /\ DOMAIN s.program[b] = 1..Len(s.program[b])
  BY SequenceFacts DEF GoodProgram, GoodBlock
<1>2. s.block \in DOMAIN s.program /\ s.block \in Nat /\ s.stage \in Nat
  BY <1>1 DEF Finished
<1>3. absent \subseteq Nat
  <2>1. GoodStage(StageOf(s), s.handler)
    BY <1>1, <1>2 DEF GoodProgram, GoodBlock, StageOf
  <2>2. Len(StageOf(s)) \in Nat /\ DOMAIN StageOf(s) = 1..Len(StageOf(s))
    BY <2>1, SequenceFacts DEF GoodStage
  <2> QED
    BY <2>2
<1>4. PICK g \in SUBSET Ids : g = s.got \cup found
  BY DEF ProgramSession
<1>5. absent \in SUBSET Nat /\ 1 \in Nat /\ s.stage + 1 \in Nat /\ s.block + 1 \in Nat
  BY <1>2, <1>3
<1> DEFINE u == [s EXCEPT !.got = g, !.absent = absent]
           v == [u EXCEPT !.stage = @ + 1]
           w == [u EXCEPT !.stage = 1, !.block = @ + 1]
<1>6. /\ u \in ProgramSession /\ u.handler = s.handler /\ u.program = s.program
      /\ u.block = s.block /\ u.stage = s.stage /\ u.got = g /\ u.absent = absent
  BY <1>5 DEF ProgramSession
<1>7. /\ v \in ProgramSession /\ v.handler = s.handler /\ v.program = s.program
      /\ v.block = s.block /\ v.stage = s.stage + 1 /\ v.got = g /\ v.absent = absent
  BY <1>5 DEF ProgramSession
<1>8. /\ w \in ProgramSession /\ w.handler = s.handler /\ w.program = s.program
      /\ w.block = s.block + 1 /\ w.stage = 1 /\ w.got = g /\ w.absent = absent
  BY <1>5 DEF ProgramSession
<1>9. \/ absent # {} /\ t = u
      \/ absent = {} /\ s.stage < Len(s.program[s.block]) /\ t = v
      \/ absent = {} /\ s.stage = Len(s.program[s.block]) /\ t = w
  <2>1. u.program = s.program /\ u.block = s.block /\ u.stage = s.stage
    BY <1>6
  <2>2. s.stage < Len(s.program[s.block]) \/ s.stage = Len(s.program[s.block])
    BY <1>1, <1>2
  <2>3. ~(s.stage < Len(s.program[s.block]) /\ s.stage = Len(s.program[s.block]))
    BY <1>1, <1>2
  <2> QED
    BY <1>4, <2>1, <2>2, <2>3, Zenon DEF Proceeding
<1> HIDE DEF u, v, w
<1>10. CASE absent # {} /\ t = u
  BY <1>1, <1>2, <1>4, <1>6, <1>10 DEF Finished, Proceeded
<1>11. CASE absent = {} /\ s.stage < Len(s.program[s.block]) /\ t = v
  <2>1. t.block = s.block /\ t.stage = s.stage + 1 /\ t.program = s.program
    BY <1>7, <1>11
  <2>2. t.block \in 1..(Len(t.program) + 1) /\ ~Finished(t)
    BY <1>1, <1>2, <2>1 DEF Finished
  <2>3. t.stage \in DOMAIN t.program[t.block]
    BY <1>1, <1>2, <1>11, <2>1
  <2> QED
    BY <1>4, <1>7, <1>11, <2>1, <2>2, <2>3 DEF Proceeded
<1>12. CASE absent = {} /\ s.stage = Len(s.program[s.block]) /\ t = w
  <2>1. t.block = s.block + 1 /\ t.stage = 1 /\ t.program = s.program
    BY <1>8, <1>12
  <2>2. t.block \in 1..(Len(t.program) + 1)
    BY <1>1, <1>2, <2>1
  <2>3. ~Finished(t) => t.stage \in DOMAIN t.program[t.block]
    BY <1>1, <1>2, <2>1, <2>2 DEF Finished
  <2> QED
    BY <1>4, <1>8, <1>12, <2>1, <2>2, <2>3 DEF Proceeded
<1> QED
  BY <1>9, <1>10, <1>11, <1>12

LEMMA DemoAccountFacts ==
  ASSUME NEW u
  PROVE  /\ Len(DemoAccount(u)) = 2
         /\ DemoAccount(u)[1] = <<Step("apart", "users", u.email, {})>>
         /\ \E under : /\ Under("users", u.email) \in under
                       /\ DemoAccount(u)[2] =
                            <<Step("ensure", "user_role_assignments", u.role, under)>>
<1>1. PICK under : under = {Under("users", u.email)}
                     \cup IF u.atVenue THEN {Under("venues", DemoVenue)} ELSE {}
  OBVIOUS
<1>2. DemoAccount(u) = <<<<Step("apart", "users", u.email, {})>>,
                         <<Step("ensure", "user_role_assignments", u.role, under)>>>>
  BY <1>1 DEF DemoAccount
<1>3. Under("users", u.email) \in under
  BY <1>1
<1> QED
  BY <1>2, <1>3, TwoAreSequence

(* A step of a program that looks or inserts.                              *)
Proceeds(r, found, absent) ==
  LET s == request[r] IN
  /\ Running(r) /\ ProgramInv(r) /\ ~Finished(s)
  /\ found \subseteq Ids /\ absent \subseteq DOMAIN StageOf(s)
  /\ request'[r] = Proceeding(s, found, absent)
  /\ \A id \in found :
       /\ \E row \in rows' : row.id = id /\ row.owner \in {None, r}
       /\ \E i \in DOMAIN StageOf(s) : StageOf(s)[i].tag = Under(id[1], id[2])
  /\ \A i \in absent : StageOf(s)[i].how # "add" =>
       \A row \in rows' :
         row.owner \in {None, r} /\ KeyOfRow(row) = KeyOf(s, StageOf(s)[i])
           => row.owner = None /\ KeyOfRow(row) \in raced'[r]
  /\ absent = {} /\ DOMAIN StageOf(s) = {1} =>
       \E row \in rows' : /\ row.owner \in {None, r} /\ row.id \in found
                          /\ KeyOfRow(row) = KeyOf(s, StageOf(s)[1])

LEMMA ProceedsFacts ==
  ASSUME NEW r, NEW found, NEW absent, Proceeds(r, found, absent),
         NEW s, s = request[r], NEW t, t = request'[r]
  PROVE  /\ s \in ProgramSession /\ GoodProgram(s.program, s.handler)
         /\ t \in ProgramSession /\ t.handler = s.handler /\ t.program = s.program
         /\ t.got = s.got \cup found /\ t.absent = absent
         /\ t.block \in 1..(Len(t.program) + 1)
         /\ Finished(t) => absent = {}
         /\ ~Finished(t) => t.stage \in DOMAIN t.program[t.block]
         /\ \/ absent # {} /\ t.block = s.block /\ t.stage = s.stage
            \/ /\ absent = {} /\ s.stage < Len(s.program[s.block])
               /\ t.block = s.block /\ t.stage = s.stage + 1
            \/ /\ absent = {} /\ s.stage = Len(s.program[s.block])
               /\ t.block = s.block + 1 /\ t.stage = 1
<1>1. /\ s \in ProgramSession /\ GoodProgram(s.program, s.handler)
      /\ s.block \in 1..(Len(s.program) + 1) /\ ~Finished(s)
      /\ s.stage \in DOMAIN s.program[s.block]
  BY DEF Proceeds, ProgramInv
<1>2. found \in SUBSET Ids /\ absent \in SUBSET (DOMAIN StageOf(s))
  BY DEF Proceeds
<1>3. t = Proceeding(s, found, absent)
  BY DEF Proceeds
<1>4. Proceeded(s, found, absent, t)
  BY ONLY <1>1, <1>2, <1>3, ProceedingFacts
<1> QED
  BY <1>1, <1>4 DEF Proceeded

(* Nothing that a stage finds or makes changes the keys of its other rows. *)
LEMMA ProceedsKeys ==
  ASSUME NEW r, NEW found, NEW absent, Proceeds(r, found, absent),
         NEW s, s = request[r], NEW t, t.got = s.got \cup found,
         NEW i \in DOMAIN StageOf(s)
  PROVE  KeyOf(t, StageOf(s)[i]) = KeyOf(s, StageOf(s)[i])
<1>1. /\ s \in ProgramSession /\ GoodProgram(s.program, s.handler)
      /\ s.block \in DOMAIN s.program /\ s.stage \in DOMAIN s.program[s.block]
  <2>1. IsSequence(s.program)
    BY DEF Proceeds, ProgramInv, GoodProgram
  <2> QED
    BY <2>1, SequenceFacts DEF Proceeds, ProgramInv, Finished
<1>2. GoodStage(StageOf(s), s.handler)
  BY <1>1 DEF GoodProgram, GoodBlock, StageOf
<1>3. \A id \in found : Under(id[1], id[2]) \notin StageOf(s)[i].under
  BY <1>2 DEF GoodStage, Proceeds
<1> QED
  BY <1>3 DEF KeyOf

LEMMA ProceedsProgram ==
  ASSUME NEW r, NEW found, NEW absent, Proceeds(r, found, absent),
         rows \subseteq rows'
  PROVE  ProgramInv(r)'
<1>1. PICK s : s = request[r]
  OBVIOUS
<1>2. PICK t : t = request'[r]
  OBVIOUS
<1>3. /\ s \in ProgramSession /\ GoodProgram(s.program, s.handler)
      /\ t \in ProgramSession /\ t.handler = s.handler /\ t.program = s.program
      /\ t.got = s.got \cup found /\ t.absent = absent
      /\ t.block \in 1..(Len(t.program) + 1)
      /\ Finished(t) => absent = {}
      /\ ~Finished(t) => t.stage \in DOMAIN t.program[t.block]
      /\ absent # {} => t.block = s.block /\ t.stage = s.stage
  BY <1>1, <1>2, ProceedsFacts
<1>4. absent # {} => StageOf(t) = StageOf(s)
  BY <1>3 DEF StageOf
<1>5. t.handler = "seed_demo" => t.program = SeedDemo
  BY <1>1, <1>3 DEF Proceeds, ProgramInv
<1>6. ~Finished(t) => t.absent \subseteq DOMAIN StageOf(t)
  BY <1>1, <1>3, <1>4 DEF Proceeds
<1>7. \A id \in t.got : \E row \in Visible(r)' : row.id = id
  BY <1>1, <1>3 DEF Proceeds, ProgramInv, Visible
<1>8. ASSUME NEW i \in t.absent, StageOf(t)[i].how # "add",
             NEW row \in Found(r, KeyOf(t, StageOf(t)[i]))'
      PROVE  row.owner = None /\ KeyOfRow(row) \in raced'[r]
  <2>1. StageOf(t) = StageOf(s) /\ i \in absent /\ i \in DOMAIN StageOf(s)
    BY <1>1, <1>3, <1>4 DEF Proceeds
  <2>2. KeyOf(t, StageOf(t)[i]) = KeyOf(s, StageOf(s)[i])
    <3>1. Proceeds(r, found, absent) /\ s = request[r] /\ t.got = s.got \cup found
      BY <1>1, <1>3
    <3>2. KeyOf(t, StageOf(s)[i]) = KeyOf(s, StageOf(s)[i])
      BY ONLY <2>1, <3>1, ProceedsKeys
    <3> QED
      BY <2>1, <3>2
  <2>3. row \in rows' /\ row.owner \in {None, r} /\ KeyOfRow(row) = KeyOf(s, StageOf(s)[i])
    BY <1>8, <2>2 DEF Found, Visible
  <2> QED
    BY <1>1, <1>8, <2>1, <2>3 DEF Proceeds
<1> QED
  BY <1>2, <1>3, <1>5, <1>6, <1>7, <1>8 DEF ProgramInv

LEMMA ProceedsDemo ==
  ASSUME CInv, NEW r \in Requests, NEW found, NEW absent, Proceeds(r, found, absent),
         rows \subseteq rows'
  PROVE  DemoProgress(r)'
<1>1. PICK s : s = request[r]
  OBVIOUS
<1>2. PICK t : t = request'[r]
  OBVIOUS
<1>3. /\ t.handler = s.handler /\ t.got = s.got \cup found
      /\ \/ absent # {} /\ t.block = s.block /\ t.stage = s.stage
         \/ /\ absent = {} /\ s.stage < Len(s.program[s.block])
            /\ t.block = s.block /\ t.stage = s.stage + 1
         \/ /\ absent = {} /\ s.stage = Len(s.program[s.block])
            /\ t.block = s.block + 1 /\ t.stage = 1
  BY <1>1, <1>2, ProceedsFacts
<1>4. s \in ProgramSession /\ s.block \in Nat /\ s.stage \in Nat
  BY <1>1 DEF Proceeds, ProgramInv, ProgramSession
<1> SUFFICES ASSUME s.handler = "seed_demo", NEW i \in DOMAIN DemoUsers
             PROVE  /\ t.block > BeforeAccounts + i =>
                         \E row \in rows' : IsAccount(row, DemoUsers[i]) /\ HasRole(r, row.id)'
                    /\ t.block = BeforeAccounts + i /\ t.stage = 2 =>
                         \E row \in rows' : IsAccount(row, DemoUsers[i]) /\ row.id \in t.got
  BY <1>2, <1>3 DEF DemoProgress
<1>5. PICK b \in Nat : b = BeforeAccounts + i
  BY DemoBlocks, DemoUserNumbers
<1>6. PICK u : u = DemoUsers[i]
  OBVIOUS
<1>7. /\ s.block > b => \E row \in rows : IsAccount(row, u) /\ HasRole(r, row.id)
      /\ s.block = b /\ s.stage = 2 =>
           \E row \in rows : IsAccount(row, u) /\ row.id \in s.got
  BY <1>1, <1>5, <1>6 DEF CInv, DemoInv, Proceeds, Running
<1>8. s.block = b => s.program[s.block] = DemoAccount(u)
  BY <1>1, <1>5, <1>6, GoodSeedDemo DEF Proceeds, ProgramInv
<1>9. absent = {} /\ DOMAIN StageOf(s) = {1} =>
       \E row \in rows' : /\ row.owner \in {None, r} /\ row.id \in found
                          /\ KeyOfRow(row) = KeyOf(s, StageOf(s)[1])
  BY <1>1 DEF Proceeds
<1>10. ASSUME t.block > b
       PROVE  \E row \in rows' : IsAccount(row, u) /\ HasRole(r, row.id)'
  <2>1. CASE s.block > b
    BY <1>7, <2>1 DEF HasRole, Visible
  <2>2. CASE ~(s.block > b)
    <3>1. /\ s.block = b /\ absent = {} /\ s.stage = Len(s.program[s.block])
      BY <1>3, <1>4, <1>10, <2>2
    <3>2. PICK under : /\ Under("users", u.email) \in under
                       /\ s.stage = 2
                       /\ s.program[s.block][2] =
                            <<Step("ensure", "user_role_assignments", u.role, under)>>
      BY <1>8, <3>1, DemoAccountFacts
    <3>3. PICK step : step = Step("ensure", "user_role_assignments", u.role, under)
      OBVIOUS
    <3>4. StageOf(s) = <<step>>
      BY <3>2, <3>3 DEF StageOf
    <3>5. DOMAIN StageOf(s) = {1} /\ StageOf(s)[1] = step
      BY <3>4, OneIsSequence
    <3>6. PICK row \in rows' : row.owner \in {None, r} /\ KeyOfRow(row) = KeyOf(s, step)
      BY <1>9, <3>1, <3>5
    <3>7. PICK account \in rows : IsAccount(account, u) /\ account.id \in s.got
      BY <1>7, <3>1, <3>2
    <3>8. step.tag[1] = "user_role_assignments" /\ step.under = under
      BY <3>3, StepFacts
    <3>9. /\ row.id[1] = "user_role_assignments"
          /\ row.under = {id \in s.got : Under(id[1], id[2]) \in under}
      BY <3>6, <3>8 DEF KeyOfRow, KeyOf, Key
    <3>10. account.id \in row.under
      BY <3>2, <3>7, <3>9 DEF IsAccount, Under
    <3> QED
      BY <3>6, <3>7, <3>9, <3>10 DEF HasRole, Visible
  <2> QED
    BY <2>1, <2>2
<1>11. ASSUME t.block = b, t.stage = 2
       PROVE  \E row \in rows' : IsAccount(row, u) /\ row.id \in t.got
  <2>1. CASE s.block = b /\ s.stage = 2
    BY <1>3, <1>7, <2>1
  <2>2. CASE ~(s.block = b /\ s.stage = 2)
    <3>1. s.block = b /\ s.stage = 1 /\ absent = {}
      BY <1>3, <1>4, <1>11, <2>2
    <3>2. PICK step : step = Step("apart", "users", u.email, {})
      OBVIOUS
    <3>3. StageOf(s) = <<step>>
      BY <1>8, <3>1, <3>2, DemoAccountFacts DEF StageOf
    <3>4. DOMAIN StageOf(s) = {1} /\ StageOf(s)[1] = step
      BY <3>3, OneIsSequence
    <3>5. PICK row \in rows' : row.id \in found /\ KeyOfRow(row) = KeyOf(s, step)
      BY <1>9, <3>1, <3>4
    <3>6. step.tag[1] = "users" /\ step.tag[2] = u.email
      BY <3>2, StepFacts
    <3>7. IsAccount(row, u)
      BY <3>5, <3>6 DEF KeyOfRow, KeyOf, Key, IsAccount
    <3> QED
      BY <1>3, <3>5, <3>7
  <2> QED
    BY <2>1, <2>2
<1> QED
  BY <1>5, <1>6, <1>10, <1>11

LEMMA ProceedsInv ==
  ASSUME CInv, NEW r \in Requests, NEW found, NEW absent, NEW X,
         Proceeds(r, found, absent), Grows(r, X)
  PROVE  CInv'
<1>1. request[r] # None /\ request[r].handler # "update_room_layout"
  BY DEF Proceeds, Running, ProgramInv, ProgramSession, Handlers
<1>2. rows \subseteq rows'
  BY DEF Grows
<1>3. ProgramInv(r)'
  BY <1>2, ProceedsProgram
<1>4. DemoProgress(r)'
  BY <1>2, ProceedsDemo
<1> QED
  BY <1>1, <1>3, <1>4, GrowsInv
------------------------------------------------------------------------------
LEMMA FirstOfFacts ==
  ASSUME NEW found, found # {}, \A row \in found : row.id[3] \in 1..Copies,
         NEW oldest \in BOOLEAN
  PROVE  FirstOf(found, oldest) \in found
<1> DEFINE S == {row.id[3] : row \in found}
<1>1. S \in SUBSET (1..Copies) /\ S \in SUBSET Nat /\ S # {}
  OBVIOUS
<1>2. PICK low \in found : \A other \in found : low.id[3] <= other.id[3]
  <2>1. PICK m \in S : \A n \in S : m <= n
    <3> HIDE DEF S
    <3> QED
      BY <1>1, SmallestExists
  <2> QED
    BY <2>1
<1>3. PICK high \in found : \A other \in found : high.id[3] >= other.id[3]
  <2>1. PICK m \in S : \A n \in S : m >= n
    <3> HIDE DEF S
    <3> QED
      BY <1>1, LargestExists
  <2> QED
    BY <2>1
<1>4. CASE oldest
  BY <1>2, <1>4 DEF FirstOf
<1>5. CASE ~oldest
  BY <1>3, <1>5 DEF FirstOf
<1> QED
  BY <1>4, <1>5

(* A program that runs is as it should be, and so is its stage.            *)
LEMMA RunningFacts ==
  ASSUME CInv, NEW r \in Requests, Running(r), ~Finished(request[r]),
         NEW s, s = request[r], NEW stage, stage = StageOf(s)
  PROVE  /\ ProgramInv(r) /\ s \in ProgramSession /\ GoodStage(stage, s.handler)
         /\ s.absent \subseteq DOMAIN stage
         /\ \A i \in DOMAIN stage : /\ GoodStep(stage[i], s.handler)
                                    /\ stage[i].tag \in Tags
<1>1. s.handler # "update_room_layout" /\ ~WalkInv(r)
  <2>1. CASE s.handler = "update_room_layout"
    BY <2>1 DEF CInv, LInv, LayoutTypeOK, LayoutSession, Running
  <2>2. CASE WalkInv(r)
    BY <2>2 DEF WalkInv, WalkSession, Running
  <2> QED
    BY <2>1, <2>2 DEF WalkInv, WalkSession, Handlers
<1>2. ProgramInv(r)
  BY <1>1 DEF CInv, SessionInv, Running
<1>3. /\ s \in ProgramSession /\ GoodProgram(s.program, s.handler)
      /\ s.program \in Programs /\ s.absent \subseteq DOMAIN stage
      /\ s.block \in 1..(Len(s.program) + 1) /\ s.stage \in DOMAIN s.program[s.block]
  BY <1>2 DEF ProgramInv, ProgramSession
<1>4. s.block \in DOMAIN s.program
  BY <1>3, SequenceFacts DEF GoodProgram, Finished
<1>5. GoodStage(stage, s.handler)
  BY <1>3, <1>4 DEF GoodProgram, GoodBlock, StageOf
<1>6. ASSUME NEW i \in DOMAIN stage PROVE stage[i].tag \in Tags
  <2>1. s.program[s.block] \in UNION {Range(p) : p \in Programs}
    BY <1>3, <1>4 DEF Range
  <2>2. stage \in UNION {Range(block) : block \in UNION {Range(p) : p \in Programs}}
    BY <1>3, <2>1 DEF Range, StageOf
  <2>3. stage[i] \in UNION {Range(stg) : stg \in
          UNION {Range(block) : block \in UNION {Range(p) : p \in Programs}}}
    BY <2>2 DEF Range
  <2> QED
    BY <2>3 DEF Tags
<1> QED
  BY <1>2, <1>3, <1>5, <1>6 DEF GoodStage

LEMMA StepTag ==
  ASSUME NEW step, NEW h, GoodStep(step, h), NEW s
  PROVE  /\ step.tag = <<step.tag[1], step.tag[2]>>
         /\ step.tag = Under(KeyOf(s, step)[1], KeyOf(s, step)[2])
         /\ KeyOf(s, step)[1] = step.tag[1] /\ KeyOf(s, step)[2] = step.tag[2]
         /\ KeyOf(s, step)[3] = {id \in s.got : Under(id[1], id[2]) \in step.under}
<1>1. step.tag = <<step.tag[1], step.tag[2]>>
  BY StepFacts DEF GoodStep
<1> QED
  BY <1>1 DEF KeyOf, Key, Under

(* What the SELECTs of a stage find, and where they leave the program.     *)
LEMMA LookProceeds ==
  ASSUME CInv, NEW r \in Requests, Look(r)
  PROVE  \E found, missing :
           /\ Proceeds(r, found, missing) /\ rows' = rows
           /\ \A q \in Requests \ {r} : request'[q] = request[q]
           /\ \A i \in DOMAIN StageOf(request[r]) \ missing :
                \E id \in found : Under(id[1], id[2]) = StageOf(request[r])[i].tag
<1>1. PICK s : s = request[r]
  OBVIOUS
<1>2. Running(r) /\ ~Finished(request[r])
  BY DEF Look
<1>3. PICK stage \in {StageOf(request[r])}, oldest \in BOOLEAN :
        \E missing \in {{i \in DOMAIN stage : Missing(r, stage[i])}} :
        \E found \in {{FirstOf(Found(r, KeyOf(request[r], stage[i])), oldest).id :
                         i \in DOMAIN stage \ missing}} :
          request' = [request EXCEPT ![r] = Proceeding(@, found, missing)]
  BY Zenon DEF Look
<1>4. PICK missing \in {{i \in DOMAIN stage : Missing(r, stage[i])}} :
        \E found \in {{FirstOf(Found(r, KeyOf(request[r], stage[i])), oldest).id :
                         i \in DOMAIN stage \ missing}} :
          request' = [request EXCEPT ![r] = Proceeding(@, found, missing)]
  BY <1>3, Zenon
<1>5. PICK found :
        /\ stage = StageOf(s)
        /\ missing = {i \in DOMAIN stage : Missing(r, stage[i])}
        /\ found = {FirstOf(Found(r, KeyOf(request[r], stage[i])), oldest).id :
                      i \in DOMAIN stage \ missing}
        /\ request' = [request EXCEPT ![r] = Proceeding(@, found, missing)]
  <2>1. PICK found \in {{FirstOf(Found(r, KeyOf(request[r], stage[i])), oldest).id :
                         i \in DOMAIN stage \ missing}} :
          request' = [request EXCEPT ![r] = Proceeding(@, found, missing)]
    BY <1>4, Zenon
  <2>2. stage = StageOf(s)
    BY <1>1, <1>3
  <2> QED
    BY <1>4, <2>1, <2>2, Zenon
<1>6. /\ ProgramInv(r) /\ s \in ProgramSession /\ GoodStage(stage, s.handler)
      /\ \A i \in DOMAIN stage : GoodStep(stage[i], s.handler)
  BY <1>1, <1>2, <1>5, RunningFacts
<1>7. ASSUME NEW i \in DOMAIN stage \ missing
      PROVE  \E row \in rows : /\ row.owner \in {None, r}
                               /\ row.id = FirstOf(Found(r, KeyOf(request[r], stage[i])), oldest).id
                               /\ KeyOfRow(row) = KeyOf(s, stage[i])
  <2>1. PICK F : F = Found(r, KeyOf(s, stage[i])) /\ F = Found(r, KeyOf(request[r], stage[i]))
    BY <1>1
  <2>2. F # {}
    BY <1>1, <1>5, <1>7, <2>1 DEF Missing
  <2>3. \A row \in F : row \in rows /\ row.owner \in {None, r} /\ KeyOfRow(row) = KeyOf(s, stage[i])
    BY <2>1 DEF Found, Visible
  <2>4. \A row \in F : row.id[3] \in 1..Copies
    BY <2>3 DEF CInv, RowsInv, RowType, Ids, Id
  <2>5. FirstOf(F, oldest) \in F
    BY ONLY <2>2, <2>4, oldest \in BOOLEAN, FirstOfFacts, Zenon
  <2> QED
    BY <2>1, <2>3, <2>5
<1>8. \A id \in found : \E i \in DOMAIN stage \ missing, row \in rows :
        /\ row.owner \in {None, r} /\ row.id = id
        /\ KeyOfRow(row) = KeyOf(s, stage[i])
  BY <1>5, <1>7
<1>9. rows' = rows /\ request'[r] = Proceeding(s, found, missing)
  BY <1>1, <1>5 DEF Look, catalog, CInv, LInv
<1>10. ASSUME NEW id \in found
      PROVE  /\ id \in Ids
             /\ \E row \in rows' : row.id = id /\ row.owner \in {None, r}
             /\ \E i \in DOMAIN stage : stage[i].tag = Under(id[1], id[2])
  <2>1. PICK i \in DOMAIN stage \ missing, row \in rows :
          /\ row.owner \in {None, r} /\ row.id = id
          /\ KeyOfRow(row) = KeyOf(s, stage[i])
    BY <1>8
  <2>2. id \in Ids
    BY <2>1 DEF CInv, RowsInv, RowType
  <2>3. stage[i].tag = Under(id[1], id[2])
    BY <1>6, <2>1, StepTag DEF KeyOfRow, Key
  <2> QED
    BY <1>9, <2>1, <2>2, <2>3
<1>11. ASSUME NEW i \in missing, stage[i].how # "add", NEW row \in rows',
             row.owner \in {None, r}, KeyOfRow(row) = KeyOf(s, stage[i])
      PROVE  FALSE
  <2>1. row \in Found(r, KeyOf(s, stage[i]))
    BY <1>9, <1>11 DEF Found, Visible
  <2> QED
    BY <1>1, <1>5, <1>11, <2>1 DEF Missing
<1>12. ASSUME missing = {}, DOMAIN stage = {1}
       PROVE  \E row \in rows' : /\ row.owner \in {None, r} /\ row.id \in found
                                 /\ KeyOfRow(row) = KeyOf(s, stage[1])
  BY <1>5, <1>7, <1>9, <1>12
<1>13. missing \subseteq DOMAIN stage
  BY <1>5
<1>14. Proceeds(r, found, missing)
  <2>1. stage = StageOf(request[r]) /\ found \subseteq Ids /\ s = request[r]
    BY <1>1, <1>5, <1>10
  <2> QED
    BY <1>2, <1>6, <1>9, <1>10, <1>11, <1>12, <1>13, <2>1 DEF Proceeds
<1>15. \A q \in Requests \ {r} : request'[q] = request[q]
  BY <1>5 DEF CInv, LInv
<1>16. ASSUME NEW i \in DOMAIN stage \ missing
       PROVE  \E id \in found : Under(id[1], id[2]) = stage[i].tag
  <2>1. PICK row \in rows :
          /\ row.id = FirstOf(Found(r, KeyOf(request[r], stage[i])), oldest).id
          /\ KeyOfRow(row) = KeyOf(s, stage[i])
    BY <1>7
  <2>2. row.id \in found
    BY <1>5, <2>1
  <2>3. Under(row.id[1], row.id[2]) = stage[i].tag
    BY <1>6, <2>1, StepTag DEF KeyOfRow, Key
  <2> QED
    BY <2>2, <2>3
<1>17. stage = StageOf(request[r])
  BY <1>1, <1>5
<1> QED
  BY <1>9, <1>14, <1>15, <1>16, <1>17

LEMMA LookInv ==
  ASSUME CInv, NEW r \in Requests, Look(r)
  PROVE  CInv'
<1>1. PICK found, missing :
        /\ Proceeds(r, found, missing) /\ rows' = rows
        /\ \A q \in Requests \ {r} : request'[q] = request[q]
  BY LookProceeds
<1>2. request'[r].handler = request[r].handler /\ request'[r] \in ProgramSession
  BY <1>1, ProceedsFacts
<1>3. request' = [q \in Requests |-> request'[q]]
  BY DEF Look, CInv, LInv
<1>4. Grows(r, {})
  BY <1>1, <1>2, <1>3 DEF Look, Grows, catalog, CInv
<1> QED
  BY <1>1, <1>4, ProceedsInv

(* The row that Insert makes: the next of its stage, which nobody else has *)
(* made where that is forbidden.                                           *)
Inserts(r, step, key, id, x) ==
  /\ Inserting(r) /\ WaitsFor(r) = {} /\ ~KeyTaken(r) /\ ~Finished(request[r])
  /\ step = NextStep(request[r]) /\ key = NextKey(r)
  /\ GoodStep(step, request[r].handler) /\ step.tag \in Tags
  /\ \E k \in request[r].absent : step = StageOf(request[r])[k]
  /\ id \in NewIds(key[1], key[2])
  /\ x = Row(id, key[3], IF step.how = "apart" THEN None ELSE r, request[r].handler)

LEMMA InsertFits ==
  ASSUME CInv, NEW r \in Requests, NEW step, NEW key, NEW id, NEW x,
         Inserts(r, step, key, id, x)
  PROVE  /\ Fits(r, x) /\ KeyOfRow(x) = key /\ step.tag = Under(id[1], id[2])
         /\ x.owner = None <=> step.how = "apart"
<1>1. /\ Inserting(r) /\ WaitsFor(r) = {} /\ ~KeyTaken(r) /\ ~Finished(request[r])
      /\ step = NextStep(request[r]) /\ key = NextKey(r)
      /\ GoodStep(step, request[r].handler) /\ step.tag \in Tags
      /\ id \in NewIds(key[1], key[2])
      /\ x = Row(id, key[3], IF step.how = "apart" THEN None ELSE r, request[r].handler)
  BY DEF Inserts
<1>2. PICK k \in request[r].absent : step = StageOf(request[r])[k]
  BY DEF Inserts
<1>3. PICK s : s = request[r]
  OBVIOUS
<1>4. Running(r) /\ s.absent # {}
  BY <1>1, <1>3 DEF Inserting
<1>5. ProgramInv(r) /\ s \in ProgramSession
  BY <1>1, <1>3, <1>4, RunningFacts
<1>6. /\ key = KeyOf(s, step) /\ key[1] = step.tag[1] /\ key[2] = step.tag[2]
      /\ key[3] = {i \in s.got : Under(i[1], i[2]) \in step.under}
      /\ step.tag = Under(step.tag[1], step.tag[2])
      /\ key = Key(key[1], key[2], key[3])
  <2>1. key = KeyOf(s, step)
    BY <1>1, <1>3 DEF NextKey
  <2>2. key = Key(key[1], key[2], key[3])
    BY <1>1, <2>1 DEF KeyOf, Key
  <2> QED
    BY <1>1, <1>3, <2>1, <2>2, StepTag
<1>7. PICK n \in 1..Copies : /\ id = Id(key[1], key[2], n)
                             /\ \A row \in rows : row.id # id
  BY <1>1 DEF NewIds
<1>8. id[1] = key[1] /\ id[2] = key[2] /\ id \in Ids
  <2>1. id[1] = key[1] /\ id[2] = key[2]
    BY <1>7 DEF Id
  <2>2. id = Id(step.tag[1], step.tag[2], n)
    BY <1>6, <1>7
  <2> QED
    BY <1>1, <2>1, <2>2 DEF Ids
<1>9. /\ x.id = id /\ x.under = key[3] /\ x.by = s.handler
      /\ x.owner = IF step.how = "apart" THEN None ELSE r
  BY <1>1, <1>3 DEF Row
<1>10. x.owner = IF x.id[1] = "users" THEN None ELSE r
  BY <1>1, <1>3, <1>6, <1>8, <1>9 DEF GoodStep
<1>11. KeyOfRow(x) = key
  BY <1>6, <1>8, <1>9 DEF KeyOfRow
<1>12. x \in RowType
  <2>1. x.under \in SUBSET Ids
    BY <1>5, <1>6, <1>9 DEF ProgramSession
  <2>2. x.owner \in Requests \cup {None}
    BY <1>9
  <2>3. x.by \in Handlers
    BY <1>5, <1>9 DEF ProgramSession
  <2> QED
    BY <1>1, <1>8, <1>9, <2>1, <2>2, <2>3 DEF Row, RowType
<1>13. x.id[1] \in Tables /\ x.id[1] # "tariffs" /\ x.by # "seed_tariffs"
  BY <1>1, <1>5, <1>6, <1>8, <1>9 DEF GoodStep, ProgramSession
<1>14. \A i \in x.under : \E row \in Visible(r) : row.id = i
  BY <1>3, <1>5, <1>6, <1>9 DEF ProgramInv
<1>15. ASSUME x.id[1] = "users"
       PROVE  /\ x.by = "seed_demo" /\ x.under = {}
              /\ \E u \in Range(DemoUsers) : IsAccount(x, u)
              /\ \A row \in rows : KeyOfRow(row) # KeyOfRow(x)
  <2>1. /\ s.handler = "seed_demo" /\ step.under = {}
        /\ \E u \in Range(DemoUsers) : step.tag[2] = u.email
    BY <1>1, <1>3, <1>6, <1>8, <1>9, <1>15 DEF GoodStep
  <2>2. x.under = {}
    BY <1>6, <1>9, <2>1
  <2>3. Unique(NextKey(r))
    BY <1>1, <1>8, <1>9, <1>15 DEF Unique
  <2>4. Holders(key) \subseteq {r} /\ Found(r, key) = {}
    BY <1>1, <2>3 DEF WaitsFor, KeyTaken
  <2>5. \A row \in rows : KeyOfRow(row) # key
    BY <2>4 DEF Holders, Found, Visible
  <2>6. \E u \in Range(DemoUsers) : IsAccount(x, u)
    BY <1>6, <1>8, <1>9, <1>15, <2>1 DEF IsAccount
  <2> QED
    BY <1>9, <1>11, <2>1, <2>2, <2>5, <2>6
<1>16. ASSUME x.by # "create_venue", NEW row \in Found(r, KeyOfRow(x))
       PROVE  row.owner = None /\ KeyOfRow(x) \in raced[r]
  <2>1. step.how # "add"
    BY <1>1, <1>3, <1>9, <1>16 DEF GoodStep
  <2>2. k \in s.absent /\ StageOf(s)[k] = step /\ row \in Found(r, KeyOf(s, StageOf(s)[k]))
    BY <1>2, <1>3, <1>6, <1>11, <1>16
  <2>3. row.owner = None /\ KeyOfRow(row) \in raced[r]
    BY <1>3, <1>5, <2>1, <2>2 DEF ProgramInv
  <2> QED
    BY <1>11, <1>16, <2>3 DEF Found
<1>17. \A row \in rows : row.id # x.id
  BY <1>7, <1>9
<1>18. Fits(r, x)
  BY <1>3, <1>9, <1>10, <1>12, <1>13, <1>14, <1>15, <1>16, <1>17 DEF Fits
<1> QED
  BY <1>6, <1>8, <1>9, <1>11, <1>18

(* What an INSERT adds, and where it leaves the program.                   *)
LEMMA InsertProceeds ==
  ASSUME CInv, NEW r \in Requests, Insert(r)
  PROVE  \E id, x, k :
           /\ Grows(r, {x}) /\ x.owner \in {None, r}
           /\ k \in request[r].absent /\ k = Min(request[r].absent)
           /\ Proceeds(r, {id}, request[r].absent \ {k})
           /\ Under(id[1], id[2]) = StageOf(request[r])[k].tag
           /\ x.id = id /\ KeyOfRow(x) = KeyOf(request[r], StageOf(request[r])[k])
           /\ GoodStep(StageOf(request[r])[k], request[r].handler)
<1>1. PICK s : s = request[r]
  OBVIOUS
<1>2. Inserting(r) /\ WaitsFor(r) = {} /\ ~KeyTaken(r) /\ Running(r) /\ s.absent # {}
  BY <1>1 DEF Insert, Inserting
<1>3. PICK step \in {NextStep(request[r])}, key \in {NextKey(r)} :
        \E id \in NewIds(key[1], key[2]), absent \in {request[r].absent} :
          /\ rows' = rows \cup {Row(id, key[3], IF step.how = "apart" THEN None ELSE r,
                                    request[r].handler)}
          /\ request' = [request EXCEPT ![r] =
                           Proceeding(@, {id}, absent \ {Min(absent)})]
          /\ IF step.how = "apart" THEN Publish(r, {key}) ELSE UNCHANGED <<raced, races>>
  BY Zenon DEF Insert
<1>4. PICK id \in NewIds(key[1], key[2]) :
        /\ rows' = rows \cup {Row(id, key[3], IF step.how = "apart" THEN None ELSE r,
                                  request[r].handler)}
        /\ request' = [request EXCEPT ![r] =
                         Proceeding(@, {id}, request[r].absent \ {Min(request[r].absent)})]
        /\ IF step.how = "apart" THEN Publish(r, {key}) ELSE UNCHANGED <<raced, races>>
  BY <1>3, Zenon
<1>5. PICK x : /\ x = Row(id, key[3], IF step.how = "apart" THEN None ELSE r,
                          request[r].handler)
               /\ rows' = rows \cup {x}
  BY <1>4
<1>6. ~Finished(request[r])
  BY <1>1, <1>2 DEF CInv, SessionInv, Inserting, Running, ProgramInv, WalkInv, WalkSession,
     LInv, LayoutTypeOK, LayoutSession
<1>7. PICK stage : stage = StageOf(s)
  OBVIOUS
<1>8. /\ ProgramInv(r) /\ s \in ProgramSession /\ GoodStage(stage, s.handler)
      /\ s.absent \subseteq DOMAIN stage
      /\ \A i \in DOMAIN stage : GoodStep(stage[i], s.handler) /\ stage[i].tag \in Tags
  BY <1>1, <1>2, <1>6, <1>7, RunningFacts
<1>9. PICK k : k = Min(s.absent) /\ k \in s.absent /\ k \in DOMAIN stage
  <2>1. s.absent \in SUBSET Nat
    BY <1>8 DEF ProgramSession
  <2>2. Min(s.absent) \in s.absent
    BY <1>2, <2>1, SmallestExists
  <2> QED
    BY <1>8, <2>2
<1>10. step = StageOf(request[r])[k] /\ step = stage[k] /\ step = NextStep(request[r])
       /\ key = NextKey(r) /\ k \in request[r].absent
  BY <1>1, <1>3, <1>7, <1>9 DEF NextStep
<1>11. GoodStep(step, request[r].handler) /\ step.tag \in Tags
  BY <1>1, <1>8, <1>9, <1>10
<1>12. /\ Fits(r, x) /\ KeyOfRow(x) = key /\ step.tag = Under(id[1], id[2])
       /\ x.owner = None <=> step.how = "apart"
  <2>1. id \in NewIds(key[1], key[2])
    OBVIOUS
  <2>2. x = Row(id, key[3], IF step.how = "apart" THEN None ELSE r, request[r].handler)
    BY <1>5
  <2>3. Inserts(r, step, key, id, x)
    BY <1>2, <1>6, <1>10, <1>11, <2>1, <2>2 DEF Inserts
  <2> QED
    BY <2>3, InsertFits
<1>13. x.id = id /\ id \in Ids /\ x.owner \in {None, r}
  BY <1>5, <1>12 DEF Fits, RowType, Row
<1>14. /\ raced' = [q \in Requests |-> raced'[q]] /\ races \subseteq races'
       /\ \A q \in Requests : raced[q] \subseteq raced'[q]
       /\ \A q \in Requests \ {r} :
            x.owner = None /\ request[q] # None => KeyOfRow(x) \in raced'[q]
  BY <1>4, <1>12 DEF Publish, CInv
<1>15. request'[r] = Proceeding(s, {id}, s.absent \ {k})
       /\ request' = [q \in Requests |-> request'[q]]
       /\ \A q \in Requests \ {r} : request'[q] = request[q]
  BY <1>1, <1>4, <1>9 DEF CInv, LInv
<1>16. ASSUME NEW i \in s.absent \ {k}, stage[i].how # "add", NEW row \in rows',
              row.owner \in {None, r}, KeyOfRow(row) = KeyOf(s, stage[i])
       PROVE  row.owner = None /\ KeyOfRow(row) \in raced'[r]
  <2>1. CASE row \in rows
    <3>1. row \in Found(r, KeyOf(s, stage[i]))
      BY <1>16, <2>1 DEF Found, Visible
    <3>2. row.owner = None /\ KeyOfRow(row) \in raced[r]
      BY <1>1, <1>7, <1>8, <1>16, <3>1 DEF ProgramInv
    <3> QED
      BY <1>14, <3>2
  <2>2. CASE row = x
    <3>1. stage[i].tag = Under(key[1], key[2])
      BY <1>8, <1>12, <1>16, <2>2, StepTag
    <3>2. key[1] = id[1] /\ key[2] = id[2]
      BY <1>12, <1>13 DEF KeyOfRow, Key
    <3>3. stage[i].tag = stage[k].tag
      BY <1>10, <1>12, <3>1, <3>2
    <3> QED
      BY <1>8, <1>9, <1>16, <3>3 DEF GoodStage
  <2> QED
    BY <1>5, <1>16, <2>1, <2>2
<1>17. ASSUME s.absent \ {k} = {}, DOMAIN stage = {1}
       PROVE  \E row \in rows' : /\ row.owner \in {None, r} /\ row.id \in {id}
                                 /\ KeyOfRow(row) = KeyOf(s, stage[1])
  <2>1. k = 1 /\ key = KeyOf(s, stage[1])
    BY <1>1, <1>9, <1>10, <1>17 DEF NextKey
  <2> QED
    BY <1>5, <1>12, <1>13, <2>1
<1>18. Proceeds(r, {id}, s.absent \ {k})
  <2>1. s = request[r] /\ stage = StageOf(request[r]) /\ s.absent \ {k} \subseteq DOMAIN stage
    BY <1>1, <1>7, <1>8
  <2>2. {id} \subseteq Ids
    BY <1>13
  <2>3. \A i \in {id} : /\ \E row \in rows' : row.id = i /\ row.owner \in {None, r}
                        /\ \E j \in DOMAIN stage : stage[j].tag = Under(i[1], i[2])
    BY <1>5, <1>9, <1>10, <1>12, <1>13
  <2> QED
    BY <1>2, <1>6, <1>8, <1>15, <1>16, <1>17, <2>1, <2>2, <2>3 DEF Proceeds
<1>19. request'[r].handler = s.handler /\ request'[r] \in ProgramSession
  BY <1>1, <1>18, ProceedsFacts
<1>20. Grows(r, {x})
  <2>1. UNCHANGED <<workload, left, halfDone, layout>>
    BY DEF Insert
  <2> QED
    BY <1>1, <1>5, <1>12, <1>14, <1>15, <1>19, <2>1 DEF Grows
<1>21. /\ k \in request[r].absent /\ k = Min(request[r].absent)
       /\ Proceeds(r, {id}, request[r].absent \ {k})
       /\ Under(id[1], id[2]) = StageOf(request[r])[k].tag
       /\ x.id = id /\ KeyOfRow(x) = KeyOf(request[r], StageOf(request[r])[k])
       /\ GoodStep(StageOf(request[r])[k], request[r].handler)
  BY <1>1, <1>9, <1>10, <1>11, <1>12, <1>13, <1>18 DEF NextKey
<1> QED
  BY <1>13, <1>20, <1>21

LEMMA InsertInv ==
  ASSUME CInv, NEW r \in Requests, Insert(r)
  PROVE  CInv'
<1>1. PICK id, x, k : Grows(r, {x}) /\ Proceeds(r, {id}, request[r].absent \ {k})
  BY InsertProceeds
<1> QED
  BY <1>1, ProceedsInv
------------------------------------------------------------------------------
(* seed_tariffs prices one row and goes down to its children.  Its own     *)
(* rows are tariffs, so what it walks to is committed.                     *)
LEMMA PriceNextInv ==
  ASSUME CInv, NEW r \in Requests, PriceNext(r)
  PROVE  CInv'
<1>1. PICK s : s = request[r]
  OBVIOUS
<1>2. s # None /\ s.handler = "seed_tariffs" /\ s.pc = "walk"
  BY <1>1 DEF PriceNext, Open
<1>3. WalkInv(r) /\ s \in WalkSession /\ s.todo \subseteq CommittedRows
  BY <1>1, <1>2 DEF CInv, SessionInv, ProgramInv, ProgramSession, WalkInv
<1>4. PICK row \in request[r].todo :
       LET children == {c \in Visible(r) : row.id \in c.under /\ c.id[1] \in {"rooms", "seats"}}
           priced == row.id[1] = "rooms" => row.id[2] \in WholeRooms
           lacking == priced /\ Found(r, Key("tariffs", request[r].day, {row.id})) = {}
       IN
       /\ request' = [request EXCEPT ![r].todo = (@ \ {row}) \cup children]
       /\ IF lacking
          THEN \E id \in NewIds("tariffs", request[r].day) :
                 rows' = rows \cup {Row(id, {row.id}, r, request[r].handler)}
          ELSE UNCHANGED rows
  BY Zenon DEF PriceNext
<1>5. PICK children :
        /\ children = {c \in Visible(r) : row.id \in c.under /\ c.id[1] \in {"rooms", "seats"}}
        /\ request' = [request EXCEPT ![r].todo = (@ \ {row}) \cup children]
  BY <1>4, Zenon
<1>6. PICK X :
        /\ rows' = rows \cup X
        /\ \A x, y \in X : x = y
        /\ \A x \in X : /\ Found(r, Key("tariffs", s.day, {row.id})) = {}
                        /\ \E id \in NewIds("tariffs", s.day) :
                             x = Row(id, {row.id}, r, s.handler)
  <2>1. \/ rows' = rows \cup {}
        \/ /\ Found(r, Key("tariffs", s.day, {row.id})) = {}
           /\ \E id \in NewIds("tariffs", s.day) :
                rows' = rows \cup {Row(id, {row.id}, r, s.handler)}
    BY <1>1, <1>4
  <2>2. CASE rows' = rows \cup {}
    BY <2>2
  <2>3. CASE /\ Found(r, Key("tariffs", s.day, {row.id})) = {}
             /\ \E id \in NewIds("tariffs", s.day) :
                  rows' = rows \cup {Row(id, {row.id}, r, s.handler)}
    BY <2>3
  <2> QED
    BY <2>1, <2>2, <2>3
<1>7. row \in rows /\ row.owner = None
  BY <1>1, <1>3, <1>4 DEF CommittedRows
<1>8. children \subseteq CommittedRows
  <2> SUFFICES ASSUME NEW c \in Visible(r), c.id[1] \in {"rooms", "seats"}
               PROVE  c \in CommittedRows
    BY <1>5, <1>6
  <2>1. c.owner # r
    BY <1>1, <1>2 DEF Visible, CInv, RowsInv
  <2> QED
    BY <2>1 DEF Visible, CommittedRows
<1>9. PICK todo : todo = (s.todo \ {row}) \cup children
  OBVIOUS
<1>10. todo \subseteq CommittedRows /\ CommittedRows \subseteq RowType
  BY <1>3, <1>8, <1>9 DEF CommittedRows, CInv, RowsInv
<1>11. PICK t \in WalkSession : t = [s EXCEPT !.todo = todo] /\ t.todo = todo /\ t.handler = s.handler
  <2> DEFINE u == [s EXCEPT !.todo = todo]
  <2>1. todo \in SUBSET RowType
    BY <1>10
  <2>2. u \in WalkSession /\ u.todo = todo /\ u.handler = s.handler
    BY <1>3, <2>1 DEF WalkSession
  <2> QED
    BY <2>2
<1>12. /\ request'[r] = t /\ request' = [q \in Requests |-> request'[q]]
       /\ \A q \in Requests \ {r} : request'[q] = request[q]
  BY <1>1, <1>5, <1>6, <1>9, <1>11 DEF CInv, LInv
<1>13. ASSUME NEW x \in X PROVE Fits(r, x)
  <2>1. PICK id \in NewIds("tariffs", s.day) : x = Row(id, {row.id}, r, s.handler)
    BY <1>5, <1>6, <1>13
  <2>2. PICK n \in 1..Copies : /\ id = Id("tariffs", s.day, n)
                               /\ \A other \in rows : other.id # id
    BY <2>1 DEF NewIds
  <2>3. x.id = id /\ x.under = {row.id} /\ x.owner = r /\ x.by = "seed_tariffs"
    BY <1>2, <2>1 DEF Row
  <2>4. id[1] = "tariffs" /\ id[2] = s.day /\ s.day \in Days
    BY <1>3, <2>2 DEF Id, WalkSession
  <2>5. id \in Ids
    <3>1. Under("tariffs", s.day) \in Tags
      BY <2>4 DEF Tags
    <3>2. PICK tag \in Tags : tag[1] = "tariffs" /\ tag[2] = s.day
      BY <3>1 DEF Under
    <3> QED
      BY <2>2, <3>2 DEF Ids
  <2>6. x \in RowType
    <3>1. row.id \in Ids
      BY <1>7 DEF CInv, RowsInv, RowType
    <3>2. "seed_tariffs" \in Handlers
      BY DEF Handlers
    <3> QED
      BY <1>2, <2>1, <2>5, <3>1, <3>2 DEF Row, RowType
  <2>7. x.id[1] = "tariffs" /\ x.id[1] \in Tables /\ x.id[1] # "users"
    BY <2>3, <2>4 DEF Tables
  <2>8. KeyOfRow(x) = Key("tariffs", s.day, {row.id})
    BY <2>3, <2>4 DEF KeyOfRow
  <2>9. Found(r, KeyOfRow(x)) = {}
    BY <1>5, <1>6, <1>13, <2>8
  <2>10. row \in Visible(r)
    BY <1>7 DEF Visible
  <2> QED
    BY <1>1, <1>2, <2>2, <2>3, <2>4, <2>6, <2>7, <2>9, <2>10 DEF Fits
<1>14. UNCHANGED <<workload, left, halfDone, layout, raced, races>>
  BY DEF PriceNext
<1>15. Grows(r, X)
  <2>1. raced' = [q \in Requests |-> raced'[q]]
    BY <1>14 DEF CInv
  <2>2. request'[r] # None /\ request'[r].handler = request[r].handler
    BY <1>1, <1>11, <1>12
  <2>3. \A x \in X : x.owner # None
    BY <1>13, <1>2, <1>1 DEF Fits, Handlers
  <2> QED
    BY <1>5, <1>6, <1>12, <1>13, <1>14, <2>1, <2>2, <2>3 DEF Grows
<1>16. WalkInv(r)'
  BY <1>5, <1>6, <1>10, <1>11, <1>12 DEF WalkInv, CommittedRows
<1>17. DemoProgress(r)'
  BY <1>2, <1>11, <1>12 DEF DemoProgress
<1>18. request[r].handler # "update_room_layout" /\ request[r] # None
  BY <1>1, <1>2
<1> QED
  BY <1>15, <1>16, <1>17, <1>18, GrowsInv
------------------------------------------------------------------------------
(* Whoever edits a layout has no rows here, and tells the others no less   *)
(* than they knew.                                                         *)
LEMMA SeatStepInv ==
  ASSUME CInv, LInv', UNCHANGED catalog,
         NEW r \in Requests, request[r] # None => request[r].handler = "update_room_layout",
         request'[r] # None => request[r] # None /\ request'[r].handler = request[r].handler,
         \A q \in Requests \ {r} : request'[q] = request[q],
         raced' = [q \in Requests |-> raced'[q]], races \subseteq races',
         \A q \in Requests \ {r} : request[q] # None => raced[q] \subseteq raced'[q]
  PROVE  CInv'
<1>1. rows' = rows /\ workload' = workload /\ left' = left /\ halfDone' = halfDone
  BY DEF catalog
<1>2. workload' \in Workloads /\ left' \in 0..Calls[workload']
  BY <1>1 DEF CInv
<1>3. halfDone' \in BOOLEAN
  BY <1>1 DEF CInv
<1>4. \A row \in rows : row.owner # None => row.owner \in Requests \ {r}
  <2> SUFFICES ASSUME NEW row \in rows, row.owner # None
               PROVE  row.owner \in Requests \ {r}
    OBVIOUS
  <2>1. /\ row.owner \in Requests /\ request[row.owner] # None
        /\ request[row.owner].handler \in Handlers
    BY DEF CInv, RowsInv, RowType
  <2> QED
    BY <2>1 DEF Handlers
<1>5. RowsInv'
  BY <1>1, <1>4 DEF CInv, RowsInv
<1>6. SessionInv'
  <2>1. \A q \in Requests \ {r} : request[q] # None => Untouched(q)
    BY <1>1 DEF Untouched
  <2>2. request'[r] # None =>
          request'[r].handler \in workload /\ request'[r].handler = "update_room_layout"
    BY DEF CInv, SessionInv
  <2> QED
    BY <1>1, <2>1, <2>2, SessionsStay DEF CInv
<1>7. TwinInv'
  <2>1. \A row \in rows : row.owner # None => request[row.owner] # None
    BY DEF CInv, RowsInv
  <2> QED
    BY <1>1, <1>4, <2>1 DEF CInv, TwinInv
<1>8. DuplicateNeedsRace'
  BY <1>1 DEF CInv, DuplicateNeedsRace, CommittedRows, LostWrite
<1>9. \A q, id : HasRole(q, id) <=> HasRole(q, id)'
  BY <1>1 DEF HasRole, Visible
<1>10. \A q \in Requests : request'[q] # None /\ request'[q].handler = "seed_demo" =>
         request'[q] = request[q]
  OBVIOUS
<1>11. DemoInv'
  BY <1>1, <1>9, <1>10 DEF CInv, DemoInv
<1>12. HalfDemoNeedsCrash'
  <2>1. \A q \in Requests : request[q] # None /\ request[q].handler = "seed_demo" =>
          request'[q] = request[q]
    OBVIOUS
  <2> QED
    BY <1>1, <2>1 DEF CInv, HalfDemoNeedsCrash, CommittedRows
<1> QED
  BY <1>2, <1>3, <1>5, <1>6, <1>7, <1>8, <1>11, <1>12 DEF CInv

LEMMA EditLayoutInv ==
  ASSUME CInv, NEW r \in Requests, EditLayout(r)
  PROVE  CInv'
<1>1. CASE /\ "update_room_layout" \in workload /\ left > 0
           /\ BeginLayout(r)
           /\ left' = left - 1
           /\ UNCHANGED <<rows, workload, halfDone>>
  <2>1. PICK m \in Rooms, p \in Layouts :
          OpenSession(r, [handler |-> "update_room_layout", pc |-> "load",
                          room |-> m, full |-> fullRoom[m], sent |-> p,
                          loaded |-> [d \in SeatIds |-> None]])
    BY <1>1 DEF BeginLayout
  <2>2. PICK s \in LayoutSession :
          s = [handler |-> "update_room_layout", pc |-> "load",
               room |-> m, full |-> fullRoom[m], sent |-> p,
               loaded |-> [d \in SeatIds |-> None]]
    BY DEF LayoutSession, CInv, LInv, LayoutTypeOK
  <2>3. OpenSession(r, s) /\ s # None /\ s.handler = "update_room_layout"
    <3>1. OpenSession(r, s)
      BY <2>1, <2>2
    <3>2. s # None /\ s.handler = "update_room_layout"
      BY LayoutAssumption DEF LayoutSession
    <3> QED
      BY <3>1, <3>2
  <2>4. LInv'
    BY <1>1, BeginLayoutInv DEF CInv
  <2> QED
    BY <1>1, <2>3, <2>4, OpenedInv
<1>2. CASE /\ LoadSeats(r) \/ SaveLayout(r) \/ FailLayout(r) \/ AbortLayout(r)
           /\ UNCHANGED catalog
  <2>1. LInv'
    BY <1>2, LoadSeatsInv, SaveLayoutInv, NothingWrittenInv DEF CInv, FailLayout, AbortLayout
  <2>2. request[r] # None /\ request[r].handler = "update_room_layout"
    BY <1>2 DEF LoadSeats, SaveLayout, FailLayout, AbortLayout, Open
  <2>3. CASE LoadSeats(r)
    <3>1. UNCHANGED <<raced, races>> /\ \A q \in Requests \ {r} : request'[q] = request[q]
      BY <2>3 DEF LoadSeats, CInv, LInv
    <3>2. request'[r].handler = "update_room_layout"
      <4>1. PICK s \in LayoutSession : s = request[r]
        BY <2>2 DEF CInv, LInv, LayoutTypeOK
      <4>2. PICK found :
              request' = [request EXCEPT ![r].pc = "commit", ![r].loaded = found]
        BY <2>3 DEF LoadSeats
      <4>3. request'[r] = [[s EXCEPT !.pc = "commit"] EXCEPT !.loaded = found]
        BY <4>1, <4>2 DEF CInv, LInv
      <4> QED
        BY <4>1, <4>3 DEF LayoutSession
    <3> QED
      BY <1>2, <2>1, <2>2, <3>1, <3>2, SeatStepInv DEF CInv
  <2>4. CASE SaveLayout(r) \/ FailLayout(r) \/ AbortLayout(r)
    <3>1. \E W : Committed(r, W)
      BY <2>4, Zenon DEF SaveLayout, FailLayout, AbortLayout
    <3>2. /\ request'[r] = None /\ raced' = [q \in Requests |-> raced'[q]]
          /\ races \subseteq races'
          /\ \A q \in Requests \ {r} : request'[q] = request[q]
          /\ \A q \in Requests \ {r} : request[q] # None => raced[q] \subseteq raced'[q]
      BY <3>1 DEF Committed, CInv, LInv
    <3> QED
      BY <1>2, <2>1, <2>2, <3>2, SeatStepInv
  <2> QED
    BY <1>2, <2>3, <2>4
<1> QED
  BY <1>1, <1>2 DEF EditLayout

LEMMA StutterInv ==
  ASSUME CInv, UNCHANGED vars
  PROVE  CInv'
<1>1. UNCHANGED <<catalog, layout, request, raced, races>>
  BY DEF vars, sessions
<1>2. LInv'
  BY <1>1, SeatsAloneInv DEF CInv, LInv, Editing
<1>3. SessionInv'
  <2>1. \A q \in Requests : Untouched(q)
    BY <1>1 DEF Untouched, catalog
  <2>2. \A q \in Requests : ProgramInv(q) => ProgramInv(q)'
    BY <2>1, ProgramStays
  <2>3. \A q \in Requests : WalkInv(q) => WalkInv(q)'
    BY <2>1, WalkStays
  <2> QED
    BY <1>1, <2>2, <2>3 DEF CInv, SessionInv, catalog
<1>4. rows' = rows /\ workload' = workload /\ left' = left /\ halfDone' = halfDone
  BY <1>1 DEF catalog
<1>5. RowsInv' /\ TwinInv' /\ DuplicateNeedsRace'
  BY <1>1, <1>4
     DEF CInv, RowsInv, TwinInv, DuplicateNeedsRace, CommittedRows, LostWrite
<1>6. DemoInv' /\ HalfDemoNeedsCrash'
  BY <1>1, <1>4 DEF CInv, DemoInv, HalfDemoNeedsCrash, HasRole, Visible, CommittedRows
<1>7. workload' \in Workloads /\ left' \in 0..Calls[workload']
  BY <1>4 DEF CInv
<1>8. halfDone' \in BOOLEAN
  BY <1>4 DEF CInv
<1> QED
  BY <1>1, <1>2, <1>3, <1>5, <1>6, <1>7, <1>8 DEF CInv

LEMMA CNextInv == CInv /\ [Next]_vars => CInv'
<1> SUFFICES ASSUME CInv, [Next]_vars
             PROVE  CInv'
  OBVIOUS
<1>1. CASE UNCHANGED vars
  BY <1>1, StutterInv
<1>2. ASSUME NEW r \in Requests,
             BeginCreateVenue(r) \/ BeginSeedRbac(r) \/ BeginSeedDemo(r)
      PROVE  CInv'
  BY <1>2, BeginsInv
<1>3. ASSUME NEW r \in Requests, Continue(r)
      PROVE  CInv'
  BY <1>3, LookInv, InsertInv, PriceNextInv, CommitsInv, EndsInv DEF Continue
<1>4. ASSUME NEW r \in Requests, BeginSeedTariffs(r) \/ Abort(r) \/ EditLayout(r)
      PROVE  CInv'
  BY <1>4, BeginSeedTariffsInv, EndsInv, EditLayoutInv
<1> QED
  BY <1>1, <1>2, <1>3, <1>4 DEF Next

THEOREM CatalogInvariance == Spec => []CInv
BY InitInv, CNextInv, PTL DEF Spec
------------------------------------------------------------------------------
LEMMA TypeCorrect == CInv => TypeOK
<1> SUFFICES ASSUME CInv PROVE TypeOK
  OBVIOUS
<1>1. ASSUME NEW row \in rows
      PROVE  /\ row.id[1] \in Tables /\ row.id[3] \in 1..Copies
             /\ row.id[1] = "tariffs" => row.id[2] \in Days
             /\ row.under \subseteq {other.id : other \in rows}
             /\ row.owner \in Requests \cup {None}
             /\ row.by \in Handlers
  <2>1. row \in RowType
    BY DEF CInv, RowsInv
  <2>2. row.id[3] \in 1..Copies
    BY <2>1 DEF RowType, Ids, Id
  <2>3. row.under \subseteq {other.id : other \in rows}
    BY DEF CInv, RowsInv
  <2>4. row.id[1] \in Tables /\ (row.id[1] = "tariffs" => row.id[2] \in Days)
    BY DEF CInv, RowsInv
  <2> QED
    BY <2>1, <2>2, <2>3, <2>4 DEF RowType
<1>2. ASSUME NEW r \in Requests, request[r] # None
      PROVE  request[r].handler \in workload /\ request[r].pc \in {"run", "walk", "load", "commit"}
  <2>1. CASE request[r].handler = "update_room_layout"
    BY <1>2, <2>1 DEF CInv, SessionInv, LInv, LayoutTypeOK, LayoutSession
  <2>2. CASE ProgramInv(r)
    BY <1>2, <2>2 DEF CInv, SessionInv, ProgramInv, ProgramSession
  <2>3. CASE WalkInv(r)
    BY <1>2, <2>3 DEF CInv, SessionInv, WalkInv, WalkSession
  <2> QED
    BY <1>2, <2>1, <2>2, <2>3 DEF CInv, SessionInv
<1>3. workload \in Workloads /\ left \in 0..Calls[workload]
  BY DEF CInv
<1>4. halfDone \in BOOLEAN
  BY DEF CInv
<1> QED
  BY <1>1, <1>2, <1>3, <1>4 DEF TypeOK

(* An insert that fails is not one that was made without a look: such rows *)
(* are under no unique index.                                              *)
LEMMA FailuresRaced == CInv => FailureNeedsRace
<1> SUFFICES ASSUME CInv, NEW r \in Requests, KeyTaken(r)
             PROVE  NextKey(r) \in raced[r]
  BY DEF FailureNeedsRace
<1>1. PICK s : s = request[r]
  OBVIOUS
<1>2. Running(r) /\ s.absent # {} /\ Unique(NextKey(r)) /\ Inserting(r)
  BY <1>1 DEF KeyTaken, Inserting
<1>3. ~Finished(s)
  BY <1>1, <1>2 DEF CInv, SessionInv, Running, ProgramInv, WalkInv, WalkSession,
     LInv, LayoutTypeOK, LayoutSession
<1>4. PICK stage : stage = StageOf(s)
  OBVIOUS
<1>5. /\ ProgramInv(r) /\ s \in ProgramSession /\ s.absent \subseteq DOMAIN stage
      /\ \A i \in DOMAIN stage : GoodStep(stage[i], s.handler)
  BY <1>1, <1>2, <1>3, <1>4, RunningFacts
<1>6. PICK k : k = Min(s.absent) /\ k \in s.absent
  <2>1. s.absent \in SUBSET Nat
    BY <1>5 DEF ProgramSession
  <2> QED
    BY <1>2, <2>1, SmallestExists
<1>7. NextKey(r) = KeyOf(s, stage[k])
  BY <1>1, <1>4, <1>6 DEF NextKey, NextStep
<1>8. GoodStep(stage[k], s.handler)
  BY <1>5, <1>6
<1>9. stage[k].how # "add"
  <2>1. NextKey(r)[1] = stage[k].tag[1]
    BY <1>7, <1>8, StepTag
  <2> QED
    BY <1>2, <1>8, <2>1 DEF GoodStep, Unique
<1>10. PICK row \in Found(r, NextKey(r)) : TRUE
  BY DEF KeyTaken
<1>11. KeyOfRow(row) \in raced[r]
  BY <1>1, <1>4, <1>5, <1>6, <1>7, <1>9, <1>10 DEF ProgramInv
<1> QED
  BY <1>10, <1>11 DEF Found

(* The tables keep their shape and no row loses those it belongs to,       *)
(* whatever venues and scripts are interrupted (space.py:298-327).         *)
THEOREM CatalogTypeCorrect == Spec => []TypeOK
BY CatalogInvariance, TypeCorrect, PTL

(* Run again, the scripts set nothing up twice, unless two of them ran at  *)
(* once (seed_demo.py:183, seed_demo.py:271, seed_tariffs.py:56).          *)
THEOREM DuplicatesNeedRaces == Spec => []DuplicateNeedsRace
<1>1. CInv => DuplicateNeedsRace
  BY DEF CInv
<1> QED
  BY <1>1, CatalogInvariance, PTL

(* An unexpected error is always the doing of another transaction, so      *)
(* trying again helps (space.py:323-327).                                  *)
THEOREM FailuresNeedRaces == Spec => []FailureNeedsRace
BY CatalogInvariance, FailuresRaced, PTL

(* No account of the demo stays without its role once a run has succeeded  *)
(* (seed_demo.py:57-77).                                                   *)
THEOREM HalfDemosNeedCrashes == Spec => []HalfDemoNeedsCrash
<1>1. CInv => HalfDemoNeedsCrash
  BY DEF CInv
<1> QED
  BY <1>1, CatalogInvariance, PTL
------------------------------------------------------------------------------
(* What LayoutProofs shows of editors alone holds beside the scripts: the  *)
(* types, ...                                                              *)
THEOREM CatalogKeepsLayoutTypes == Spec => []LayoutTypeOK
<1>1. CInv => LayoutTypeOK
  BY DEF CInv, LInv
<1> QED
  BY <1>1, CatalogInvariance, PTL

(* ... that a seat is what its last editor asked for (space.py:353-358),   *)
THEOREM CatalogKeepsSeatsAsAsked == Spec => []TornSeatNeedsRace
<1>1. CInv => TornSeatNeedsRace
  BY DEF CInv, LInv
<1> QED
  BY <1>1, CatalogInvariance, PTL

(* ... that a layout is refused for a cause in its list, or because        *)
(* another save wrote a seat of the room in between (space.py:356-373):    *)
(* what scripts and new venues commit meanwhile is no excuse,              *)
THEOREM CatalogKeepsRefusals == Spec => []RefusalNeedsCause
<1>1. CInv => RefusalNeedsCause
  BY RefusalHasCause DEF CInv
<1> QED
  BY <1>1, CatalogInvariance, PTL

(* ... and that the seats of other rooms are left alone, and none is ever  *)
(* removed (space.py:347-358).                                             *)
THEOREM CatalogKeepsForeignSeats == Spec => ForeignSeatsUntouched
<1>1. ASSUME CInv, [Next]_vars, NEW d \in SeatIds, seats[d] # None, seats'[d] # seats[d]
      PROVE  /\ seats'[d] # None /\ seats'[d].room = seats[d].room
             /\ \E r \in Requests :
                  /\ request[r] # None /\ request'[r] = None
                  /\ request[r].room = seats[d].room
                  /\ \E i \in Listed(request[r]) : request[r].sent.seats[i].id = d
  <2>1. PICK r \in Requests : EditLayout(r)
    BY <1>1 DEF Next, vars, layout, BeginCreateVenue, BeginSeedRbac, BeginSeedDemo,
       BeginProgram, BeginSeedTariffs, Continue, Look, Insert, CommitProgram, Keep,
       FailInsert, Drop, BreakDeadlock, PriceNext, CommitTariffs, Abort
  <2>2. LayoutNext
    BY <2>1 DEF EditLayout, LayoutNext
  <2> QED
    BY <1>1, <2>2, StepLeavesForeignSeats DEF CInv
<1>2. CInv /\ [Next]_vars =>
      [\A d \in SeatIds : seats[d] # None /\ seats'[d] # seats[d] =>
         /\ seats'[d] # None /\ seats'[d].room = seats[d].room
         /\ \E r \in Requests :
              /\ request[r] # None /\ request'[r] = None
              /\ request[r].room = seats[d].room
              /\ \E i \in Listed(request[r]) :
                   request[r].sent.seats[i].id = d]_layoutVars
  BY <1>1, Zenon
<1> QED
  BY <1>2, CatalogInvariance, PTL DEF Spec, ForeignSeatsUntouched
------------------------------------------------------------------------------
(* What DeadlockNeedsDisorder rests on: the order in which scripts insert. *)

(* u is s, of length m, and then t, of length n. *)
Joined(s, m, t, n, u) ==
  /\ IsSequence(u) /\ Len(u) = m + n /\ DOMAIN u = 1..(m + n)
  /\ \A i \in 1..(m + n) :
       \/ i \in 1..m /\ u[i] = s[i]
       \/ i - m \in 1..n /\ u[i] = t[i - m]

LEMMA JoinedSequence ==
  ASSUME NEW s, NEW t, IsSequence(s), IsSequence(t),
         NEW m \in Nat, NEW n \in Nat, Len(s) = m, Len(t) = n
  PROVE  Joined(s, m, t, n, s \o t)
<1>1. PICK u : u = s \o t
  OBVIOUS
<1>2. /\ IsSequence(u) /\ Len(u) = m + n /\ DOMAIN u = 1..(m + n)
      /\ \A i \in 1..(m + n) :
           \/ i \in 1..m /\ u[i] = s[i]
           \/ i - m \in 1..n /\ u[i] = t[i - m]
  <2>1. /\ IsSequence(u) /\ Len(u) = Len(s) + Len(t) /\ DOMAIN u = 1..(Len(s) + Len(t))
        /\ \A i \in 1..(Len(s) + Len(t)) :
             \/ i \in 1..Len(s) /\ u[i] = s[i]
             \/ i - Len(s) \in 1..Len(t) /\ u[i] = t[i - Len(s)]
    BY ONLY <1>1, IsSequence(s), IsSequence(t), ConcatIsSequence
  <2> QED
    BY ONLY <2>1, Len(s) = m, Len(t) = n
<1> QED
  BY <1>1, <1>2 DEF Joined

(* What the blocks of seed_demo are, and which steps they have.            *)
LEMMA DemoBlock ==
  ASSUME NEW b \in DOMAIN SeedDemo
  PROVE  \/ b = 1 /\ SeedDemo[b] = <<<<Step("ensure", "venues", DemoVenue, {})>>>>
         \/ \E i \in DOMAIN DemoFeatures :
              /\ b = 1 + i
              /\ SeedDemo[b] =
                   <<<<Step("ensure", "features", DemoFeatures[i], {})>>,
                     <<Step("ensure", "feature_links", DemoFeatures[i],
                            {Under("venues", DemoVenue)}
                              \cup {Under("features", DemoFeatures[i])})>>>>
         \/ \E i \in DOMAIN DemoRooms : /\ b = 1 + Len(DemoFeatures) + i
                                        /\ SeedDemo[b] = EnsureRoom(DemoRooms[i])
         \/ /\ b = BeforeAccounts
            /\ SeedDemo[b] =
                 <<<<Step("ensure", "booking_rules", DemoVenue, {Under("venues", DemoVenue)})>>,
                   <<Step("ensure", "booking_rules", RuleRoom, {Under("rooms", RuleRoom)})>>>>
         \/ \E i \in DOMAIN DemoUsers : /\ b = BeforeAccounts + i
                                        /\ SeedDemo[b] = DemoAccount(DemoUsers[i])
<1> DEFINE there == {Under("venues", DemoVenue)}
           one == <<<<Step("ensure", "venues", DemoVenue, {})>>>>
           first == <<one>>
           features == [i \in DOMAIN DemoFeatures |->
             <<<<Step("ensure", "features", DemoFeatures[i], {})>>,
               <<Step("ensure", "feature_links", DemoFeatures[i],
                      there \cup {Under("features", DemoFeatures[i])})>>>>]
           roomsOf == [i \in DOMAIN DemoRooms |-> EnsureRoom(DemoRooms[i])]
           two == <<<<Step("ensure", "booking_rules", DemoVenue, there)>>,
             <<Step("ensure", "booking_rules", RuleRoom, {Under("rooms", RuleRoom)})>>>>
           rules == <<two>>
           accounts == [i \in DOMAIN DemoUsers |-> DemoAccount(DemoUsers[i])]
<1>1. PICK m \in Nat : m = Len(DemoFeatures) /\ DOMAIN DemoFeatures = 1..m
  BY DataAssumption, SequenceFacts
<1>2. PICK n \in Nat : n = Len(DemoRooms) /\ DOMAIN DemoRooms = 1..n
  BY DataAssumption, SequenceFacts
<1>3. PICK k \in Nat : k = Len(DemoUsers) /\ DOMAIN DemoUsers = 1..k
  BY DataAssumption, SequenceFacts
<1>4. SeedDemo = first \o features \o roomsOf \o rules \o accounts
  BY DEF SeedDemo
<1>5. \A i \in 1..m : features[i] =
        <<<<Step("ensure", "features", DemoFeatures[i], {})>>,
          <<Step("ensure", "feature_links", DemoFeatures[i],
                 there \cup {Under("features", DemoFeatures[i])})>>>>
  BY <1>1
<1>6. \A i \in 1..n : roomsOf[i] = EnsureRoom(DemoRooms[i])
  BY <1>2
<1>7. \A i \in 1..k : accounts[i] = DemoAccount(DemoUsers[i])
  BY <1>3
<1>8. /\ IsSequence(first) /\ Len(first) = 1 /\ first[1] = one
      /\ IsSequence(rules) /\ Len(rules) = 1 /\ rules[1] = two
  BY OneIsSequence
<1>9. /\ IsSequence(features) /\ Len(features) = m
      /\ IsSequence(roomsOf) /\ Len(roomsOf) = n
      /\ IsSequence(accounts) /\ Len(accounts) = k
  BY <1>1, <1>2, <1>3, FunctionIsSequence
<1> HIDE DEF one, first, features, roomsOf, two, rules, accounts
<1>10. PICK s : s = first \o features /\ Joined(first, 1, features, m, s)
  BY <1>8, <1>9, JoinedSequence
<1>11. PICK p \in Nat : p = 1 + m
  OBVIOUS
<1>12. PICK t : t = s \o roomsOf /\ Joined(s, p, roomsOf, n, t)
  <2>1. IsSequence(s) /\ Len(s) = p
    BY <1>10, <1>11 DEF Joined
  <2> QED
    BY <1>9, <2>1, JoinedSequence
<1>13. PICK q \in Nat : q = p + n
  OBVIOUS
<1>14. PICK u : u = t \o rules /\ Joined(t, q, rules, 1, u)
  <2>1. IsSequence(t) /\ Len(t) = q
    BY <1>12, <1>13 DEF Joined
  <2> QED
    BY <1>8, <2>1, JoinedSequence
<1>15. PICK z \in Nat : z = q + 1
  OBVIOUS
<1>16. SeedDemo = u \o accounts
  BY <1>4, <1>10, <1>12, <1>14
<1>17. Joined(u, z, accounts, k, SeedDemo)
  <2>1. IsSequence(u) /\ Len(u) = z
    BY <1>14, <1>15 DEF Joined
  <2> QED
    BY <1>9, <1>16, <2>1, JoinedSequence
<1>18. BeforeAccounts = z /\ p = 1 + m /\ q = 1 + m + n
  BY <1>1, <1>2, <1>11, <1>13, <1>15 DEF BeforeAccounts
<1>19. b \in Int
  BY <1>1, <1>2, <1>3, <1>17 DEF Joined
<1>20. CASE b = 1 /\ SeedDemo[b] = first[1]
  BY <1>8, <1>20 DEF one
<1>21. ASSUME NEW i \in 1..m, b - 1 = i, SeedDemo[b] = features[i]
       PROVE  /\ b = 1 + i
              /\ SeedDemo[b] =
                   <<<<Step("ensure", "features", DemoFeatures[i], {})>>,
                     <<Step("ensure", "feature_links", DemoFeatures[i],
                            there \cup {Under("features", DemoFeatures[i])})>>>>
  <2>1. b = 1 + i
    BY <1>19, <1>21
  <2> QED
    BY <1>5, <1>21, <2>1
<1>22. ASSUME NEW i \in 1..n, b - p = i, SeedDemo[b] = roomsOf[i]
       PROVE  b = 1 + Len(DemoFeatures) + i /\ SeedDemo[b] = EnsureRoom(DemoRooms[i])
  <2>1. b = 1 + m + i
    BY <1>1, <1>18, <1>19, <1>22
  <2> QED
    BY <1>1, <1>6, <1>22, <2>1
<1>23. CASE b - q = 1 /\ SeedDemo[b] = rules[1]
  <2>1. b = BeforeAccounts
    BY <1>15, <1>18, <1>19, <1>23
  <2> QED
    BY <1>8, <1>23, <2>1 DEF two
<1>24. ASSUME NEW i \in 1..k, b - z = i, SeedDemo[b] = accounts[i]
       PROVE  b = BeforeAccounts + i /\ SeedDemo[b] = DemoAccount(DemoUsers[i])
  <2>1. b = BeforeAccounts + i
    BY <1>18, <1>19, <1>24
  <2> QED
    BY <1>7, <1>24, <2>1
<1>25. \/ b = 1 /\ SeedDemo[b] = first[1]
       \/ b - 1 \in 1..m /\ SeedDemo[b] = features[b - 1]
       \/ b - p \in 1..n /\ SeedDemo[b] = roomsOf[b - p]
       \/ b - q = 1 /\ SeedDemo[b] = rules[1]
       \/ b - z \in 1..k /\ SeedDemo[b] = accounts[b - z]
  <2>1. b \in 1..(z + k)
    BY <1>17 DEF Joined
  <2>2. CASE b \in 1..z /\ SeedDemo[b] = u[b]
    <3>1. CASE b \in 1..q /\ u[b] = t[b]
      <4>1. CASE b \in 1..p /\ t[b] = s[b]
        <5>1. \/ b \in 1..1 /\ s[b] = first[b]
              \/ b - 1 \in 1..m /\ s[b] = features[b - 1]
          BY <1>10, <1>11, <4>1 DEF Joined
        <5>2. SeedDemo[b] = s[b]
          BY <2>2, <3>1, <4>1
        <5>3. b \in 1..1 => b = 1
          OBVIOUS
        <5> QED
          BY <5>1, <5>2, <5>3
      <4>2. CASE b - p \in 1..n /\ t[b] = roomsOf[b - p]
        BY <2>2, <3>1, <4>2
      <4> QED
        BY <1>12, <1>13, <3>1, <4>1, <4>2 DEF Joined
    <3>2. CASE b - q \in 1..1 /\ u[b] = rules[b - q]
      <4>1. b - q = 1
        BY <3>2
      <4> QED
        BY <2>2, <3>2, <4>1
    <3> QED
      BY <1>14, <1>15, <2>2, <3>1, <3>2 DEF Joined
  <2> QED
    BY <1>17, <2>1, <2>2 DEF Joined
<1> QED
  BY <1>1, <1>2, <1>3, <1>20, <1>21, <1>22, <1>23, <1>24, <1>25

(* The steps of a room, by number. *)
RoomStep(room, k, x) ==
  \/ k = 1 /\ x.tag = <<"rooms", room.name>>
  \/ \E j \in DOMAIN room.seats :
       /\ k = 1 + j /\ x.tag = <<"seats", room.seats[j]>>
       /\ x.under = {Under("rooms", room.name)}
  \/ \E j \in DOMAIN Weekdays :
       /\ k = 1 + Len(room.seats) + j
       /\ x.tag = <<"room_hours", <<room.name, Weekdays[j]>>>>

LEMMA RoomSteps ==
  ASSUME NEW room \in Range(DemoRooms), NEW k \in DOMAIN EnsureRoom(room)
  PROVE  /\ \E x : EnsureRoom(room)[k] = <<x>> /\ RoomStep(room, k, x)
         /\ \E x : EnsureRoom(room)[1] = <<x>> /\ x.tag = <<"rooms", room.name>>
         /\ 1 \in DOMAIN EnsureRoom(room) /\ k \in Nat /\ k >= 1
<1> DEFINE here == {Under("rooms", room.name)}
           one == Step("ensure", "rooms", room.name, {Under("venues", DemoVenue)})
           chair(i) == Step("ensure", "seats", room.seats[i], here)
           hour(i) == Step("ensure", "room_hours", <<room.name, Weekdays[i]>>, here)
           first == <<<<one>>>>
           chairs == [i \in DOMAIN room.seats |-> <<chair(i)>>]
           hours == [i \in DOMAIN Weekdays |-> <<hour(i)>>]
<1>1. PICK m \in Nat : DOMAIN room.seats = 1..m /\ Len(room.seats) = m
  BY DataAssumption, SequenceFacts
<1>2. PICK n \in Nat : DOMAIN Weekdays = 1..n
  BY DataAssumption, SequenceFacts
<1>3. EnsureRoom(room) = (first \o chairs) \o hours
  BY DEF EnsureRoom
<1>4. one.tag = <<"rooms", room.name>>
  BY DEF Step
<1>5. ASSUME NEW j \in 1..m
      PROVE  /\ chairs[j] = <<chair(j)>> /\ chair(j).tag = <<"seats", room.seats[j]>>
             /\ chair(j).under = here
  BY <1>1 DEF Step
<1>6. ASSUME NEW j \in 1..n
      PROVE  /\ hours[j] = <<hour(j)>>
             /\ hour(j).tag = <<"room_hours", <<room.name, Weekdays[j]>>>>
  BY <1>2 DEF Step
<1>7. IsSequence(first) /\ Len(first) = 1 /\ first[1] = <<one>>
  BY OneIsSequence
<1>8. /\ IsSequence(chairs) /\ Len(chairs) = m
      /\ IsSequence(hours) /\ Len(hours) = n
  BY <1>1, <1>2, FunctionIsSequence
<1> HIDE DEF one, chair, hour, first, chairs, hours
<1>9. PICK s : s = first \o chairs /\ Joined(first, 1, chairs, m, s)
  BY <1>7, <1>8, JoinedSequence
<1>10. PICK p \in Nat : p = 1 + m
  OBVIOUS
<1>11. PICK t : t = s \o hours /\ Joined(s, p, hours, n, t)
  <2>1. IsSequence(s) /\ Len(s) = p
    BY <1>9, <1>10 DEF Joined
  <2> QED
    BY <1>8, <2>1, JoinedSequence
<1>12. t = EnsureRoom(room)
  BY <1>3, <1>9, <1>11
<1>13. /\ k \in 1..(p + n)
       /\ \/ k = 1 /\ t[k] = <<one>>
          \/ k - 1 \in 1..m /\ t[k] = chairs[k - 1]
          \/ k - p \in 1..n /\ t[k] = hours[k - p]
  <2>1. /\ k \in 1..(p + n)
        /\ \/ k \in 1..p /\ t[k] = s[k]
           \/ k - p \in 1..n /\ t[k] = hours[k - p]
    BY <1>11, <1>12 DEF Joined
  <2>2. k \in 1..p => \/ k \in 1..1 /\ s[k] = first[k]
                      \/ k - 1 \in 1..m /\ s[k] = chairs[k - 1]
    BY <1>9, <1>10 DEF Joined
  <2>3. k \in 1..1 => k = 1
    OBVIOUS
  <2> QED
    BY <1>7, <2>1, <2>2, <2>3
<1>14. t[1] = <<one>> /\ 1 \in DOMAIN t
  BY <1>7, <1>9, <1>10, <1>11 DEF Joined
<1>15. \E x : t[k] = <<x>> /\ RoomStep(room, k, x)
  <2>1. CASE k = 1 /\ t[k] = <<one>>
    BY <1>4, <2>1 DEF RoomStep
  <2>2. ASSUME NEW j \in 1..m, k - 1 = j, t[k] = chairs[j]
        PROVE  t[k] = <<chair(j)>> /\ RoomStep(room, k, chair(j))
    <3>1. k = 1 + j
      BY <1>13, <2>2
    <3> QED
      BY <1>1, <1>5, <2>2, <3>1 DEF RoomStep
  <2>3. ASSUME NEW j \in 1..n, k - p = j, t[k] = hours[j]
        PROVE  t[k] = <<hour(j)>> /\ RoomStep(room, k, hour(j))
    <3>1. k = 1 + Len(room.seats) + j
      BY <1>1, <1>10, <1>13, <2>3
    <3> QED
      BY <1>2, <1>6, <2>3, <3>1 DEF RoomStep
  <2> QED
    BY <1>13, <2>1, <2>2, <2>3
<1> QED
  BY <1>4, <1>12, <1>13, <1>14, <1>15

(* Every stage of seed_demo is one step; the first of block b is tag's. *)
Starts(b, tag) ==
  /\ 1 \in DOMAIN SeedDemo[b] /\ 1 \in DOMAIN SeedDemo[b][1]
  /\ SeedDemo[b][1][1].tag = tag

(* Where seed_demo makes the rows that may be waited for. *)
DemoStep(b, k, x) ==
  \/ x.tag[1] \in {"venues", "feature_links", "rooms", "booking_rules", "users"}
  \/ \E i \in DOMAIN DemoFeatures :
       b = 1 + i /\ k = 1 /\ x.tag = <<"features", DemoFeatures[i]>>
  \/ \E i \in DOMAIN DemoRooms : \E j \in DOMAIN DemoRooms[i].seats :
       /\ b = 1 + Len(DemoFeatures) + i /\ k = 1 + j
       /\ x.tag = <<"seats", DemoRooms[i].seats[j]>>
       /\ x.under = {Under("rooms", DemoRooms[i].name)}
       /\ Starts(b, Under("rooms", DemoRooms[i].name))
  \/ \E i \in DOMAIN DemoRooms : \E j \in DOMAIN Weekdays :
       /\ b = 1 + Len(DemoFeatures) + i /\ k = 1 + Len(DemoRooms[i].seats) + j
       /\ x.tag = <<"room_hours", <<DemoRooms[i].name, Weekdays[j]>>>>
  \/ \E i \in DOMAIN DemoUsers :
       /\ b = BeforeAccounts + i /\ k = 2
       /\ x.tag = <<"user_role_assignments", DemoUsers[i].role>>
       /\ Under("users", DemoUsers[i].email) \in x.under
       /\ x.under \subseteq {Under("users", DemoUsers[i].email), Under("venues", DemoVenue)}
       /\ Starts(b, Under("users", DemoUsers[i].email))

LEMMA DemoSteps ==
  ASSUME NEW b \in DOMAIN SeedDemo, NEW k \in DOMAIN SeedDemo[b]
  PROVE  \E x : SeedDemo[b][k] = <<x>> /\ DemoStep(b, k, x)
<1>1. ASSUME NEW x, SeedDemo[b] = <<<<x>>>>,
             x.tag[1] \in {"venues", "feature_links", "rooms", "booking_rules", "users"}
      PROVE  SeedDemo[b][k] = <<x>> /\ DemoStep(b, k, x)
  BY <1>1, OneIsSequence DEF DemoStep
<1>2. CASE SeedDemo[b] = <<<<Step("ensure", "venues", DemoVenue, {})>>>>
  BY <1>1, <1>2 DEF Step
<1>3. ASSUME NEW i \in DOMAIN DemoFeatures, b = 1 + i, NEW under,
             SeedDemo[b] = <<<<Step("ensure", "features", DemoFeatures[i], {})>>,
                             <<Step("ensure", "feature_links", DemoFeatures[i], under)>>>>
      PROVE  \E x : SeedDemo[b][k] = <<x>> /\ DemoStep(b, k, x)
  <2>1. PICK x : x = Step("ensure", "features", DemoFeatures[i], {})
    OBVIOUS
  <2>2. PICK y : y = Step("ensure", "feature_links", DemoFeatures[i], under)
    OBVIOUS
  <2>3. x.tag = <<"features", DemoFeatures[i]>> /\ y.tag[1] = "feature_links"
    BY <2>1, <2>2 DEF Step
  <2>4. (k = 1 /\ SeedDemo[b][k] = <<x>>) \/ SeedDemo[b][k] = <<y>>
    BY <1>3, <2>1, <2>2, TwoAreSequence
  <2> QED
    BY <1>3, <2>3, <2>4 DEF DemoStep
<1>4. ASSUME NEW i \in DOMAIN DemoRooms, b = 1 + Len(DemoFeatures) + i,
             SeedDemo[b] = EnsureRoom(DemoRooms[i])
      PROVE  \E x : SeedDemo[b][k] = <<x>> /\ DemoStep(b, k, x)
  <2>1. DemoRooms[i] \in Range(DemoRooms) /\ k \in DOMAIN EnsureRoom(DemoRooms[i])
    BY <1>4 DEF Range
  <2>2. PICK x : EnsureRoom(DemoRooms[i])[k] = <<x>> /\ RoomStep(DemoRooms[i], k, x)
    BY <2>1, RoomSteps
  <2>3. PICK z : /\ EnsureRoom(DemoRooms[i])[1] = <<z>>
                 /\ z.tag = <<"rooms", DemoRooms[i].name>>
                 /\ 1 \in DOMAIN EnsureRoom(DemoRooms[i])
    BY <2>1, RoomSteps
  <2>4. Starts(b, Under("rooms", DemoRooms[i].name))
    BY <1>4, <2>3, OneIsSequence DEF Starts, Under
  <2>5. DemoStep(b, k, x)
    BY <1>4, <2>2, <2>4 DEF RoomStep, DemoStep
  <2> QED
    BY <1>4, <2>2, <2>5
<1>5. CASE SeedDemo[b] =
         <<<<Step("ensure", "booking_rules", DemoVenue, {Under("venues", DemoVenue)})>>,
           <<Step("ensure", "booking_rules", RuleRoom, {Under("rooms", RuleRoom)})>>>>
  <2>1. PICK x : x = Step("ensure", "booking_rules", DemoVenue, {Under("venues", DemoVenue)})
    OBVIOUS
  <2>2. PICK y : y = Step("ensure", "booking_rules", RuleRoom, {Under("rooms", RuleRoom)})
    OBVIOUS
  <2>3. x.tag[1] = "booking_rules" /\ y.tag[1] = "booking_rules"
    BY <2>1, <2>2 DEF Step
  <2>4. SeedDemo[b][k] = <<x>> \/ SeedDemo[b][k] = <<y>>
    BY <1>5, <2>1, <2>2, TwoAreSequence
  <2> QED
    BY <2>3, <2>4 DEF DemoStep
<1>6. ASSUME NEW i \in DOMAIN DemoUsers, b = BeforeAccounts + i,
             SeedDemo[b] = DemoAccount(DemoUsers[i])
      PROVE  \E x : SeedDemo[b][k] = <<x>> /\ DemoStep(b, k, x)
  <2>1. PICK under : under = {Under("users", DemoUsers[i].email)}
               \cup IF DemoUsers[i].atVenue THEN {Under("venues", DemoVenue)} ELSE {}
    OBVIOUS
  <2>2. PICK x : x = Step("apart", "users", DemoUsers[i].email, {})
    OBVIOUS
  <2>3. PICK y : y = Step("ensure", "user_role_assignments", DemoUsers[i].role, under)
    OBVIOUS
  <2>4. SeedDemo[b] = <<<<x>>, <<y>>>>
    BY <1>6, <2>1, <2>2, <2>3 DEF DemoAccount
  <2>5. /\ x.tag = Under("users", DemoUsers[i].email) /\ x.tag[1] = "users"
        /\ y.tag = <<"user_role_assignments", DemoUsers[i].role>> /\ y.under = under
    BY <2>2, <2>3 DEF Step, Under
  <2>6. SeedDemo[b][k] = <<x>> \/ (k = 2 /\ SeedDemo[b][k] = <<y>>)
    BY <2>4, TwoAreSequence
  <2>7. Starts(b, Under("users", DemoUsers[i].email))
    BY <2>4, <2>5, TwoAreSequence, OneIsSequence DEF Starts
  <2>8. /\ Under("users", DemoUsers[i].email) \in under
        /\ under \subseteq {Under("users", DemoUsers[i].email), Under("venues", DemoVenue)}
    BY <2>1
  <2>9. DemoStep(b, k, x) /\ (k = 2 => DemoStep(b, k, y))
    BY <1>6, <2>7, <2>8, <2>5 DEF DemoStep
  <2> QED
    BY <2>6, <2>9
<1> QED
  BY DemoBlock, <1>2, <1>3, <1>4, <1>5, <1>6

(* seed_demo makes each of these rows in one place. *)
LEMMA DemoStepsApart ==
  ASSUME NEW b, NEW k, NEW c, NEW l, NEW x, NEW y, DemoStep(b, k, x), DemoStep(c, l, y),
         x.tag = y.tag,
         x.tag[1] \in {"features", "seats", "room_hours", "user_role_assignments"},
         \A t \in x.under : Starts(b, t) => t \in y.under
  PROVE  b = c /\ k = l
<1>1. CASE x.tag[1] = "features"
  BY <1>1, NamesAssumption DEF DemoStep, IsInjective
<1>2. CASE x.tag[1] = "seats"
  <2>1. PICK i \in DOMAIN DemoRooms : \E j \in DOMAIN DemoRooms[i].seats :
          /\ b = 1 + Len(DemoFeatures) + i /\ k = 1 + j
          /\ x.tag = <<"seats", DemoRooms[i].seats[j]>>
          /\ x.under = {Under("rooms", DemoRooms[i].name)}
          /\ Starts(b, Under("rooms", DemoRooms[i].name))
    BY <1>2 DEF DemoStep
  <2>2. PICK m \in DOMAIN DemoRooms : \E n \in DOMAIN DemoRooms[m].seats :
          /\ c = 1 + Len(DemoFeatures) + m /\ l = 1 + n
          /\ y.tag = <<"seats", DemoRooms[m].seats[n]>>
          /\ y.under = {Under("rooms", DemoRooms[m].name)}
    BY <1>2 DEF DemoStep
  <2>3. PICK j \in DOMAIN DemoRooms[i].seats :
          k = 1 + j /\ x.tag = <<"seats", DemoRooms[i].seats[j]>>
    BY <2>1
  <2>4. PICK n \in DOMAIN DemoRooms[m].seats :
          l = 1 + n /\ y.tag = <<"seats", DemoRooms[m].seats[n]>>
    BY <2>2
  <2>5. DemoRooms[i].name = DemoRooms[m].name
    BY <2>1, <2>2 DEF Under
  <2>6. i = m
    BY <2>5, NamesAssumption
  <2>7. IsInjective(DemoRooms[i].seats)
    BY NamesAssumption DEF Range
  <2>8. j = n
    <3>1. x.tag[2] = DemoRooms[i].seats[j]
      BY <2>3
    <3>2. y.tag[2] = DemoRooms[m].seats[n]
      BY <2>4
    <3> QED
      BY <2>6, <2>7, <3>1, <3>2 DEF IsInjective
  <2> QED
    BY <2>1, <2>2, <2>3, <2>4, <2>6, <2>8
<1>3. CASE x.tag[1] = "room_hours"
  <2>1. PICK i \in DOMAIN DemoRooms, j \in DOMAIN Weekdays :
          /\ b = 1 + Len(DemoFeatures) + i /\ k = 1 + Len(DemoRooms[i].seats) + j
          /\ x.tag = <<"room_hours", <<DemoRooms[i].name, Weekdays[j]>>>>
    BY <1>3 DEF DemoStep
  <2>2. PICK m \in DOMAIN DemoRooms, n \in DOMAIN Weekdays :
          /\ c = 1 + Len(DemoFeatures) + m /\ l = 1 + Len(DemoRooms[m].seats) + n
          /\ y.tag = <<"room_hours", <<DemoRooms[m].name, Weekdays[n]>>>>
    BY <1>3 DEF DemoStep
  <2>3. DemoRooms[i].name = DemoRooms[m].name /\ Weekdays[j] = Weekdays[n]
    <3>1. x.tag[2][1] = DemoRooms[i].name /\ x.tag[2][2] = Weekdays[j]
      BY <2>1
    <3>2. y.tag[2][1] = DemoRooms[m].name /\ y.tag[2][2] = Weekdays[n]
      BY <2>2
    <3> QED
      BY <3>1, <3>2
  <2>4. i = m /\ j = n
    BY <2>3, NamesAssumption DEF IsInjective
  <2> QED
    BY <2>1, <2>2, <2>4
<1>4. CASE x.tag[1] = "user_role_assignments"
  <2>1. PICK i \in DOMAIN DemoUsers :
          /\ b = BeforeAccounts + i /\ k = 2
          /\ Under("users", DemoUsers[i].email) \in x.under
          /\ Starts(b, Under("users", DemoUsers[i].email))
    BY <1>4 DEF DemoStep
  <2>2. PICK m \in DOMAIN DemoUsers :
          /\ c = BeforeAccounts + m /\ l = 2
          /\ y.under \subseteq {Under("users", DemoUsers[m].email), Under("venues", DemoVenue)}
    BY <1>4 DEF DemoStep
  <2>3. DemoUsers[i].email = DemoUsers[m].email
    BY <2>1, <2>2 DEF Under
  <2>4. i = m
    BY <2>3, NamesAssumption
  <2> QED
    BY <2>1, <2>2, <2>4
<1> QED
  BY <1>1, <1>2, <1>3, <1>4
------------------------------------------------------------------------------
(* The order in which programs insert: what DeadlockNeedsDisorder is about. *)

(* Step i of stage k of block b is done: its row is there.                 *)
Done(s, b, k, i) ==
  \/ b < s.block
  \/ b = s.block /\ k < s.stage
  \/ b = s.block /\ k = s.stage /\ s.absent # {} /\ i \notin s.absent

(* s has the id of a row for this step.                                    *)
HasRow(s, b, k, i) ==
  \E id \in s.got : Under(id[1], id[2]) = s.program[b][k][i].tag

(* row is one for this step.                                               *)
RowOf(row, step) ==
  /\ Under(row.id[1], row.id[2]) = step.tag
  /\ \A id \in row.under : Under(id[1], id[2]) \in step.under

(* s has inserted row in this step, which comes before all the steps that  *)
(* still lack a row.                                                       *)
MadeIn(s, row, b, k, i) ==
  /\ Done(s, b, k, i)
  /\ b = s.block /\ k = s.stage => \A j \in s.absent : i < j
  /\ RowOf(row, s.program[b][k][i])

MadeInOrder(s, row) ==
  \E b \in DOMAIN s.program : \E k \in DOMAIN s.program[b] :
    \E i \in DOMAIN s.program[b][k] : MadeIn(s, row, b, k, i)

(* A program that has inserted the rows in made has gone about it in the   *)
(* order in which it is written; that of seed_rbac is the same for         *)
(* everyone, up to the pairs.                                              *)
InOrder(s, made) ==
  /\ s.handler = "seed_rbac" =>
       \E pairs \in SetToSeqs(RolePermissions) : s.program = SeedRbac(Permissions, pairs)
  /\ \A b \in DOMAIN s.program : \A k \in DOMAIN s.program[b] :
       \A i \in DOMAIN s.program[b][k] : Done(s, b, k, i) => HasRow(s, b, k, i)
  /\ \A row \in made : MadeInOrder(s, row)

Runs(r) == request[r] # None /\ request[r].handler \in Handlers \ {"seed_tariffs"}

OInv == \A r \in Requests : Runs(r) => InOrder(request[r], Mine(r))
------------------------------------------------------------------------------
(* One stage of a program: found has the rows it has now, absent the steps *)
(* that still lack one.                                                    *)
Advances(s, found, absent, t) ==
  LET stage == StageOf(s) IN
  /\ s \in ProgramSession /\ GoodProgram(s.program, s.handler)
  /\ s.block \in DOMAIN s.program /\ s.stage \in DOMAIN s.program[s.block]
  /\ absent \subseteq DOMAIN stage
  /\ Proceeded(s, found, absent, t)
  /\ s.absent # {} => absent \subseteq s.absent
  /\ \A i \in DOMAIN stage \ absent :
       \/ s.absent # {} /\ i \notin s.absent
       \/ \E id \in found : Under(id[1], id[2]) = stage[i].tag

(* Step m of the stage is the one whose row has just been inserted. *)
InsertedNext(s, row, absent, m) ==
  /\ m \in DOMAIN StageOf(s) \ absent /\ \A j \in absent : m < j
  /\ RowOf(row, StageOf(s)[m])

(* The steps that are done by such a step are those that had been done,    *)
(* and those of the stage that no longer lack a row.                       *)
LEMMA AdvancesDone ==
  ASSUME NEW s, NEW found, NEW absent, NEW t, Advances(s, found, absent, t),
         NEW b \in DOMAIN s.program, NEW k \in DOMAIN s.program[b], NEW i
  PROVE  /\ Done(s, b, k, i) => Done(t, b, k, i)
         /\ Done(t, b, k, i) => \/ Done(s, b, k, i)
                                \/ b = s.block /\ k = s.stage /\ i \notin absent
         /\ b = s.block /\ k = s.stage /\ i \notin absent => Done(t, b, k, i)
         /\ b = t.block /\ k = t.stage =>
              t.absent = {} \/ (b = s.block /\ k = s.stage)
<1>1. /\ Proceeded(s, found, absent, t) /\ GoodProgram(s.program, s.handler)
      /\ s.block \in DOMAIN s.program /\ s.stage \in DOMAIN s.program[s.block]
      /\ s.absent # {} => absent \subseteq s.absent
  BY DEF Advances
<1>2. /\ Len(s.program) \in Nat /\ DOMAIN s.program = 1..Len(s.program)
      /\ \A c \in DOMAIN s.program :
           Len(s.program[c]) \in Nat /\ DOMAIN s.program[c] = 1..Len(s.program[c])
  BY <1>1, SequenceFacts DEF GoodProgram, GoodBlock
<1>3. /\ b \in Nat /\ k \in Nat /\ s.block \in Nat /\ s.stage \in Nat
      /\ s.stage <= Len(s.program[s.block]) /\ b = s.block => k <= Len(s.program[s.block])
  BY <1>1, <1>2
<1>4. /\ t.absent = absent
      /\ \/ absent # {} /\ t.block = s.block /\ t.stage = s.stage
         \/ /\ absent = {} /\ s.stage < Len(s.program[s.block])
            /\ t.block = s.block /\ t.stage = s.stage + 1
         \/ /\ absent = {} /\ s.stage = Len(s.program[s.block])
            /\ t.block = s.block + 1 /\ t.stage = 1
  BY <1>1 DEF Proceeded
<1>5. CASE absent # {} /\ t.block = s.block /\ t.stage = s.stage
  BY <1>1, <1>3, <1>4, <1>5 DEF Done
<1>6. CASE /\ absent = {} /\ s.stage < Len(s.program[s.block])
           /\ t.block = s.block /\ t.stage = s.stage + 1
  BY <1>1, <1>3, <1>4, <1>6 DEF Done
<1>7. CASE /\ absent = {} /\ s.stage = Len(s.program[s.block])
           /\ t.block = s.block + 1 /\ t.stage = 1
  <2>1. b = s.block => k < s.stage \/ k = s.stage
    BY <1>3, <1>7
  <2>2. b < t.block <=> b < s.block \/ b = s.block
    BY <1>3, <1>7
  <2>3. ~(k < t.stage)
    BY <1>2, <1>7
  <2>4. t.absent = {}
    BY <1>4, <1>7
  <2>5. Done(t, b, k, i) <=> b < s.block \/ b = s.block
    BY <2>2, <2>3, <2>4 DEF Done
  <2>6. /\ Done(s, b, k, i) => b < s.block \/ b = s.block
        /\ b < s.block => Done(s, b, k, i)
        /\ b = s.block => Done(s, b, k, i) \/ k = s.stage
    BY <2>1 DEF Done
  <2> QED
    BY <1>7, <2>4, <2>5, <2>6
<1> QED
  BY <1>4, <1>5, <1>6, <1>7

LEMMA AdvancesInOrder ==
  ASSUME NEW s, NEW found, NEW absent, NEW t, Advances(s, found, absent, t),
         NEW made, InOrder(s, made), NEW made2,
         \A row \in made2 : row \in made \/ \E m : InsertedNext(s, row, absent, m)
  PROVE  InOrder(t, made2)
<1>1. /\ t.program = s.program /\ t.handler = s.handler /\ t.got = s.got \cup found
      /\ t.absent = absent
      /\ s.block \in DOMAIN s.program /\ s.stage \in DOMAIN s.program[s.block]
      /\ s.absent # {} => absent \subseteq s.absent
      /\ StageOf(s) = s.program[s.block][s.stage]
  BY DEF Advances, Proceeded, StageOf
<1>2. ASSUME NEW b \in DOMAIN s.program, NEW k \in DOMAIN s.program[b],
             NEW i \in DOMAIN s.program[b][k], Done(t, b, k, i)
      PROVE  HasRow(t, b, k, i)
  <2>1. CASE Done(s, b, k, i)
    BY <1>1, <2>1 DEF InOrder, HasRow
  <2>2. CASE ~Done(s, b, k, i)
    <3>1. b = s.block /\ k = s.stage /\ i \notin absent
      BY <1>2, <2>2, AdvancesDone
    <3>2. i \in DOMAIN StageOf(s) \ absent /\ s.program[b][k][i] = StageOf(s)[i]
      BY <1>1, <3>1
    <3>3. ~(s.absent # {} /\ i \notin s.absent)
      BY <2>2, <3>1 DEF Done
    <3>4. \E id \in found : Under(id[1], id[2]) = StageOf(s)[i].tag
      BY <3>2, <3>3 DEF Advances
    <3> QED
      BY <1>1, <3>2, <3>4 DEF HasRow
  <2> QED
    BY <2>1, <2>2
<1>3. ASSUME NEW row \in made2
      PROVE  MadeInOrder(t, row)
  <2>1. CASE row \in made
    <3>1. PICK b \in DOMAIN s.program : \E k \in DOMAIN s.program[b] :
            \E i \in DOMAIN s.program[b][k] : MadeIn(s, row, b, k, i)
      BY <2>1 DEF InOrder, MadeInOrder
    <3>2. PICK k \in DOMAIN s.program[b] :
            \E i \in DOMAIN s.program[b][k] : MadeIn(s, row, b, k, i)
      BY <3>1
    <3>3. PICK i \in DOMAIN s.program[b][k] : MadeIn(s, row, b, k, i)
      BY <3>2
    <3>4. Done(t, b, k, i)
      BY <3>3, AdvancesDone DEF MadeIn
    <3>5. b = t.block /\ k = t.stage => \A j \in t.absent : i < j
      <4> SUFFICES ASSUME b = t.block, k = t.stage, NEW j \in t.absent
                   PROVE  i < j
        OBVIOUS
      <4>1. b = s.block /\ k = s.stage
        BY AdvancesDone
      <4>2. j \in s.absent
        <5>1. Done(s, b, k, i)
          BY <3>3 DEF MadeIn
        <5>2. Done(t, b, k, i) /\ s.block \in Nat /\ s.stage \in Nat
          BY <3>4 DEF Advances, ProgramSession
        <5>3. s.absent # {}
          BY <4>1, <5>1, <5>2 DEF Done
        <5> QED
          BY <1>1, <5>3
      <4> QED
        BY <3>3, <4>1, <4>2 DEF MadeIn
    <3>6. MadeIn(t, row, b, k, i)
      BY <1>1, <3>3, <3>4, <3>5 DEF MadeIn
    <3> QED
      BY <1>1, <3>6 DEF MadeInOrder
  <2>2. ASSUME NEW m, InsertedNext(s, row, absent, m)
        PROVE  MadeInOrder(t, row)
    <3>1. /\ m \in DOMAIN s.program[s.block][s.stage] /\ m \notin absent
          /\ \A j \in absent : m < j
          /\ RowOf(row, s.program[s.block][s.stage][m])
      BY <1>1, <2>2 DEF InsertedNext
    <3>2. Done(t, s.block, s.stage, m)
      BY <1>1, <3>1, AdvancesDone
    <3>3. MadeIn(t, row, s.block, s.stage, m)
      BY <1>1, <3>1, <3>2 DEF MadeIn
    <3> QED
      BY <1>1, <3>1, <3>3 DEF MadeInOrder
  <2> QED
    BY <2>1, <2>2
<1> QED
  BY <1>1, <1>2, <1>3 DEF InOrder

(* Requests that take no part in a step keep their order: their rows are   *)
(* theirs alone.                                                           *)
LEMMA OInvStep ==
  ASSUME OInv, NEW r \in Requests,
         \A q \in Requests \ {r} : request'[q] = request[q],
         \A row \in rows' : row.owner \in {None, r} \/ row \in rows,
         Runs(r)' => InOrder(request'[r], Mine(r)')
  PROVE  OInv'
<1> SUFFICES ASSUME NEW q \in Requests, Runs(q)'
             PROVE  InOrder(request'[q], Mine(q)')
  BY DEF OInv
<1>1. CASE q = r
  BY <1>1
<1>2. CASE q # r
  <2>1. PICK s : s = request[q] /\ s = request'[q]
    BY <1>2
  <2>2. InOrder(s, Mine(q))
    BY <2>1 DEF OInv, Runs
  <2>3. Mine(q)' \subseteq Mine(q)
    BY <1>2, CatalogAssumption DEF Mine
  <2> QED
    BY <2>1, <2>2, <2>3 DEF InOrder
<1> QED
  BY <1>1, <1>2

LEMMA OInvInit == Init => OInv
BY DEF Init, LayoutInit, NoRequests, OInv, Runs

(* A program that has just begun has done nothing.                         *)
LEMMA BeginProgramOrder ==
  ASSUME CInv, OInv, NEW r \in Requests, NEW h, NEW p, GoodProgram(p, h),
         h = "seed_rbac" =>
           \E pairs \in SetToSeqs(RolePermissions) : p = SeedRbac(Permissions, pairs),
         BeginProgram(r, h, p)
  PROVE  OInv'
<1>1. PICK s : s = [handler |-> h, pc |-> "run", program |-> p,
                    block |-> 1, stage |-> 1, absent |-> {}, got |-> {}]
  OBVIOUS
<1>2. /\ s.handler = h /\ s.program = p
      /\ s.block = 1 /\ s.stage = 1 /\ s.absent = {}
  BY <1>1
<1>3. OpenSession(r, s) /\ rows' = rows
  BY <1>1 DEF BeginProgram
<1>4. /\ request[r] = None /\ request'[r] = s
      /\ \A q \in Requests \ {r} : request'[q] = request[q]
  BY <1>3 DEF OpenSession, CInv, LInv
<1>5. Mine(r)' = {}
  BY <1>3, <1>4, CatalogAssumption DEF Mine, CInv, RowsInv
<1>6. ASSUME NEW b \in DOMAIN s.program, NEW k \in DOMAIN s.program[b], NEW i
      PROVE  ~Done(s, b, k, i)
  <2>1. b \in Nat /\ b >= 1 /\ k \in Nat /\ k >= 1
    BY <1>2, SequenceFacts DEF GoodProgram, GoodBlock
  <2> QED
    BY <1>2, <2>1 DEF Done
<1>7. InOrder(s, {})
  BY <1>2, <1>6 DEF InOrder
<1> QED
  BY <1>3, <1>4, <1>5, <1>7, OInvStep

LEMMA BeginsOrder ==
  ASSUME CInv, OInv, NEW r \in Requests,
         BeginCreateVenue(r) \/ BeginSeedRbac(r) \/ BeginSeedDemo(r)
  PROVE  OInv'
<1>1. CASE BeginCreateVenue(r)
  <2>1. PICK name \in Names, features \in FeatureLists :
          BeginProgram(r, "create_venue", CreateVenue(name, features))
    BY <1>1 DEF BeginCreateVenue
  <2>2. GoodProgram(CreateVenue(name, features), "create_venue")
    BY DataAssumption, GoodCreateVenue
  <2> QED
    BY <2>1, <2>2, BeginProgramOrder
<1>2. CASE BeginSeedRbac(r)
  <2>1. PICK pairs \in SetToSeqs(RolePermissions) :
          BeginProgram(r, "seed_rbac", SeedRbac(Permissions, pairs))
    BY <1>2 DEF BeginSeedRbac, AllPermissions
  <2>2. GoodProgram(SeedRbac(Permissions, pairs), "seed_rbac")
    BY GoodSeedRbac DEF AllPermissions
  <2> QED
    BY <2>1, <2>2, BeginProgramOrder
<1>3. CASE BeginSeedDemo(r)
  BY <1>3, GoodSeedDemo, BeginProgramOrder DEF BeginSeedDemo
<1> QED
  BY <1>1, <1>2, <1>3

(* A step of a program, seen as one stage of it. *)
LEMMA ProceedsAdvances ==
  ASSUME NEW r, NEW found, NEW absent, Proceeds(r, found, absent),
         NEW s, s = request[r], NEW t, t = request'[r],
         s.absent # {} => absent \subseteq s.absent,
         \A i \in DOMAIN StageOf(s) \ absent :
           \/ s.absent # {} /\ i \notin s.absent
           \/ \E id \in found : Under(id[1], id[2]) = StageOf(s)[i].tag
  PROVE  Advances(s, found, absent, t)
<1>1. s \in ProgramSession /\ GoodProgram(s.program, s.handler)
  BY ProceedsFacts
<1>2. Proceeded(s, found, absent, t)
  BY ONLY Proceeds(r, found, absent), s = request[r], t = request'[r], ProceedsFacts
     DEF Proceeded
<1>3. s.stage \in DOMAIN s.program[s.block] /\ absent \subseteq DOMAIN StageOf(s)
  BY DEF Proceeds, ProgramInv
<1>4. s.block \in DOMAIN s.program
  BY <1>1, SequenceFacts DEF Proceeds, ProgramInv, Finished, GoodProgram
<1> QED
  BY <1>1, <1>2, <1>3, <1>4 DEF Advances

LEMMA ProgramRuns ==
  ASSUME NEW r, NEW found, NEW absent, Proceeds(r, found, absent)
  PROVE  Runs(r)
BY DEF Proceeds, ProgramInv, ProgramSession, Running, Runs

LEMMA LookOrder ==
  ASSUME CInv, OInv, NEW r \in Requests, Look(r)
  PROVE  OInv'
<1>1. PICK found, missing :
        /\ Proceeds(r, found, missing) /\ rows' = rows
        /\ \A q \in Requests \ {r} : request'[q] = request[q]
        /\ \A i \in DOMAIN StageOf(request[r]) \ missing :
             \E id \in found : Under(id[1], id[2]) = StageOf(request[r])[i].tag
  BY LookProceeds
<1>2. PICK s, t : s = request[r] /\ t = request'[r]
  OBVIOUS
<1>3. s.absent = {}
  BY <1>2 DEF Look
<1>4. Advances(s, found, missing, t)
  BY <1>1, <1>2, <1>3, ProceedsAdvances
<1>5. InOrder(s, Mine(r)) /\ Mine(r)' = Mine(r)
  BY <1>1, <1>2, ProgramRuns DEF OInv, Mine
<1>6. InOrder(t, Mine(r))
  BY <1>4, <1>5, AdvancesInOrder
<1> QED
  BY <1>1, <1>2, <1>5, <1>6, OInvStep

LEMMA InsertOrder ==
  ASSUME CInv, OInv, NEW r \in Requests, Insert(r)
  PROVE  OInv'
<1>1. PICK id, x, k :
        /\ Grows(r, {x}) /\ x.owner \in {None, r}
        /\ k \in request[r].absent /\ k = Min(request[r].absent)
        /\ Proceeds(r, {id}, request[r].absent \ {k})
        /\ Under(id[1], id[2]) = StageOf(request[r])[k].tag
        /\ x.id = id /\ KeyOfRow(x) = KeyOf(request[r], StageOf(request[r])[k])
        /\ GoodStep(StageOf(request[r])[k], request[r].handler)
  BY InsertProceeds
<1>2. PICK s, t : s = request[r] /\ t = request'[r]
  OBVIOUS
<1>3. PICK absent : absent = s.absent \ {k}
  OBVIOUS
<1>4. /\ rows' = rows \cup {x}
      /\ \A q \in Requests \ {r} : request'[q] = request[q]
  BY <1>1 DEF Grows
<1>5. Proceeds(r, {id}, absent) /\ s \in ProgramSession
  BY <1>1, <1>2, <1>3, ProceedsFacts
<1>6. Advances(s, {id}, absent, t)
  BY <1>1, <1>2, <1>3, <1>5, ProceedsAdvances
<1>7. k \in s.absent /\ \A j \in absent : k < j
  <2>1. s.absent \in SUBSET Nat /\ s.absent # {}
    BY <1>1, <1>2, <1>5 DEF ProgramSession
  <2>2. \A j \in s.absent : k <= j
    BY <1>1, <1>2, <2>1, SmallestExists
  <2> QED
    BY <1>1, <1>2, <1>3, <2>1, <2>2
<1>8. k \in DOMAIN StageOf(s) \ absent
  BY <1>2, <1>3, <1>5, <1>7 DEF Proceeds, ProgramInv
<1>9. RowOf(x, StageOf(s)[k])
  <2>1. x.under = {i \in s.got : Under(i[1], i[2]) \in StageOf(s)[k].under}
    BY <1>1, <1>2, StepTag DEF KeyOfRow, Key
  <2> QED
    BY <1>1, <1>2, <2>1 DEF RowOf
<1>10. InsertedNext(s, x, absent, k)
  BY <1>7, <1>8, <1>9 DEF InsertedNext
<1>11. InOrder(s, Mine(r))
  BY <1>2, <1>5, ProgramRuns DEF OInv
<1>12. \A row \in Mine(r)' : row \in Mine(r) \/ row = x
  BY <1>4 DEF Mine
<1>13. InOrder(t, Mine(r)')
  BY <1>6, <1>10, <1>11, <1>12, AdvancesInOrder
<1> QED
  BY <1>1, <1>2, <1>4, <1>13, OInvStep

(* Whoever ends, or has no program, has nothing to keep in order. *)
LEMMA EndsOrder ==
  ASSUME CInv, OInv, NEW r \in Requests, Keep(r) \/ Drop(r)
  PROVE  OInv'
<1>1. /\ request'[r] = None
      /\ \A q \in Requests \ {r} : request'[q] = request[q]
  BY DEF Keep, Drop, Committed, CInv, LInv
<1>2. \A row \in rows' : row.owner \in {None, r} \/ row \in rows
  BY DEF Keep, Drop, Row
<1> QED
  BY <1>1, <1>2, OInvStep DEF Runs

LEMMA TariffsOrder ==
  ASSUME CInv, OInv, NEW r \in Requests, BeginSeedTariffs(r) \/ PriceNext(r)
  PROVE  OInv'
<1>1. CASE BeginSeedTariffs(r)
  <2>1. PICK day, venues :
          /\ OpenSession(r, [handler |-> "seed_tariffs", pc |-> "walk", day |-> day,
                             todo |-> venues])
          /\ rows' = rows
    BY <1>1 DEF BeginSeedTariffs
  <2>2. /\ request'[r].handler = "seed_tariffs"
        /\ \A q \in Requests \ {r} : request'[q] = request[q]
    BY <2>1 DEF OpenSession, CInv, LInv
  <2> QED
    BY <2>1, <2>2, OInvStep DEF Runs
<1>2. CASE PriceNext(r)
  <2>1. request[r] # None /\ request[r].handler = "seed_tariffs" /\ request[r].pc = "walk"
    BY <1>2 DEF PriceNext, Open
  <2>2. request[r] \in WalkSession
    BY <2>1 DEF CInv, SessionInv, ProgramInv, ProgramSession, WalkInv
  <2>3. PICK todo : request' = [request EXCEPT ![r].todo = todo]
    BY <1>2, Zenon DEF PriceNext
  <2>4. PICK s \in WalkSession : s = request[r]
    BY <2>2
  <2>5. request'[r] = [s EXCEPT !.todo = todo]
    BY <2>3, <2>4 DEF CInv, LInv
  <2>6. request'[r].handler = "seed_tariffs"
    BY <2>1, <2>4, <2>5 DEF WalkSession
  <2>7. \A q \in Requests \ {r} : request'[q] = request[q]
    BY <2>3 DEF CInv, LInv
  <2>8. \A row \in rows' : row.owner \in {None, r} \/ row \in rows
    BY <1>2 DEF PriceNext, Row
  <2> QED
    BY <2>6, <2>7, <2>8, OInvStep DEF Runs
<1> QED
  BY <1>1, <1>2

LEMMA EditLayoutOrder ==
  ASSUME CInv, OInv, NEW r \in Requests, EditLayout(r)
  PROVE  OInv'
<1>1. rows' = rows
  BY DEF EditLayout, catalog
<1>2. \A q \in Requests \ {r} : request'[q] = request[q]
  <2>1. CASE BeginLayout(r)
    BY <2>1 DEF BeginLayout, OpenSession, CInv, LInv
  <2>2. CASE LoadSeats(r)
    BY <2>2 DEF LoadSeats, CInv, LInv
  <2>3. CASE SaveLayout(r) \/ FailLayout(r) \/ AbortLayout(r)
    <3>1. \E W : Committed(r, W)
      BY <2>3, Zenon DEF SaveLayout, FailLayout, AbortLayout
    <3> QED
      BY <3>1 DEF Committed, CInv, LInv
  <2> QED
    BY <2>1, <2>2, <2>3 DEF EditLayout
<1>3. request'[r] # None => request'[r].handler = "update_room_layout"
  <2>1. CASE BeginLayout(r)
    <3>1. PICK m \in Rooms, p \in Layouts :
            OpenSession(r, [handler |-> "update_room_layout", pc |-> "load",
                            room |-> m, full |-> fullRoom[m], sent |-> p,
                            loaded |-> [d \in SeatIds |-> None]])
      BY <2>1 DEF BeginLayout
    <3> QED
      BY <3>1 DEF OpenSession, CInv, LInv
  <2>2. CASE LoadSeats(r)
    <3>1. PICK s \in LayoutSession : s = request[r]
      BY <2>2 DEF LoadSeats, Open, CInv, LInv, LayoutTypeOK
    <3>2. PICK found :
            request' = [request EXCEPT ![r].pc = "commit", ![r].loaded = found]
      BY <2>2 DEF LoadSeats
    <3>3. request'[r] = [[s EXCEPT !.pc = "commit"] EXCEPT !.loaded = found]
      BY <3>1, <3>2 DEF CInv, LInv
    <3> QED
      BY <3>1, <3>3 DEF LayoutSession
  <2>3. CASE SaveLayout(r) \/ FailLayout(r) \/ AbortLayout(r)
    <3>1. \E W : Committed(r, W)
      BY <2>3, Zenon DEF SaveLayout, FailLayout, AbortLayout
    <3> QED
      BY <3>1 DEF Committed, CInv, LInv
  <2> QED
    BY <2>1, <2>2, <2>3 DEF EditLayout
<1> QED
  BY <1>1, <1>2, <1>3, OInvStep DEF Runs, Handlers

LEMMA OInvNext == CInv /\ OInv /\ [Next]_vars => OInv'
<1> SUFFICES ASSUME CInv, OInv, [Next]_vars
             PROVE  OInv'
  OBVIOUS
<1>1. CASE UNCHANGED vars
  BY <1>1 DEF vars, sessions, catalog, OInv, Runs, Mine
<1>2. ASSUME NEW r \in Requests,
             BeginCreateVenue(r) \/ BeginSeedRbac(r) \/ BeginSeedDemo(r)
      PROVE  OInv'
  BY <1>2, BeginsOrder
<1>3. ASSUME NEW r \in Requests, Continue(r)
      PROVE  OInv'
  <2>1. CommitProgram(r) \/ FailInsert(r) \/ BreakDeadlock(r) \/ CommitTariffs(r)
          => Keep(r) \/ Drop(r)
    BY DEF CommitProgram, FailInsert, BreakDeadlock, CommitTariffs
  <2> QED
    BY <1>3, <2>1, LookOrder, InsertOrder, TariffsOrder, EndsOrder DEF Continue
<1>4. ASSUME NEW r \in Requests, BeginSeedTariffs(r) \/ Abort(r) \/ EditLayout(r)
      PROVE  OInv'
  BY <1>4, TariffsOrder, EndsOrder, EditLayoutOrder DEF Abort
<1> QED
  BY <1>1, <1>2, <1>3, <1>4 DEF Next
------------------------------------------------------------------------------
RbacTables == {"permissions", "roles", "role_permissions"}

(* What seed_rbac inserts first, always in the same order. *)
RbacFirst ==
  [i \in DOMAIN Permissions |-> Step("ensure", "permissions", Permissions[i], {})]
    \o [i \in DOMAIN Roles |-> Step("ensure", "roles", Roles[i], {})]

LEMMA RbacStages ==
  ASSUME NEW pairs \in SetToSeqs(RolePermissions),
         NEW p, p = SeedRbac(Permissions, pairs)
  PROVE  /\ DOMAIN p = {1} /\ DOMAIN p[1] = {1, 2} /\ p[1][1] = RbacFirst
         /\ \A i \in DOMAIN p[1][2] : p[1][2][i].tag[1] = "role_permissions"
         /\ GoodStage(RbacFirst, "seed_rbac")
<1>1. PICK second : second = [i \in DOMAIN pairs |->
         Step("ensure", "role_permissions", pairs[i],
              {Under("roles", pairs[i][1]), Under("permissions", pairs[i][2])})]
  OBVIOUS
<1>2. p = <<<<RbacFirst, second>>>>
  BY <1>1 DEF SeedRbac, RbacFirst
<1>3. DOMAIN p = {1} /\ DOMAIN p[1] = {1, 2} /\ p[1][1] = RbacFirst /\ p[1][2] = second
  BY <1>2, OneIsSequence, TwoAreSequence
<1>4. \A i \in DOMAIN second : second[i].tag[1] = "role_permissions"
  BY <1>1 DEF Step
<1>5. GoodProgram(p, "seed_rbac")
  BY GoodSeedRbac DEF AllPermissions
<1>6. GoodStage(RbacFirst, "seed_rbac")
  BY <1>3, <1>5 DEF GoodProgram, GoodBlock
<1> QED
  BY <1>3, <1>4, <1>6

LEMMA RbacFirstTables ==
  ASSUME NEW i \in DOMAIN RbacFirst
  PROVE  RbacFirst[i].tag[1] \in RbacTables
<1> DEFINE p == [j \in DOMAIN Permissions |-> Step("ensure", "permissions", Permissions[j], {})]
           q == [j \in DOMAIN Roles |-> Step("ensure", "roles", Roles[j], {})]
<1>1. PICK m \in Nat : DOMAIN Permissions = 1..m
  BY DataAssumption, SequenceFacts
<1>2. PICK n \in Nat : DOMAIN Roles = 1..n
  BY DataAssumption, SequenceFacts
<1>3. IsSequence(p) /\ Len(p) = m /\ IsSequence(q) /\ Len(q) = n
  BY <1>1, <1>2, FunctionIsSequence
<1>4. \A j \in 1..m : p[j].tag[1] \in RbacTables
  BY <1>1 DEF Step, RbacTables
<1>5. \A j \in 1..n : q[j].tag[1] \in RbacTables
  BY <1>2 DEF Step, RbacTables
<1>6. RbacFirst = p \o q
  BY DEF RbacFirst
<1> HIDE DEF p, q
<1>7. Joined(p, m, q, n, RbacFirst)
  BY <1>3, <1>6, JoinedSequence
<1> QED
  BY <1>4, <1>5, <1>7 DEF Joined

LEMMA DemoTables ==
  ASSUME NEW b, NEW k, NEW x, DemoStep(b, k, x)
  PROVE  x.tag[1] \notin RbacTables
BY DEF DemoStep, RbacTables

(* Nothing that is bounded rises for ever. *)
LEMMA NoRise ==
  ASSUME NEW D, D # {}, NEW n \in Nat, NEW f, \A d \in D : f[d] \in 1..n,
         \A d \in D : \E e \in D : f[d] < f[e]
  PROVE  FALSE
<1> DEFINE S == {f[d] : d \in D}
<1>1. S \in SUBSET (1..n) /\ S # {}
  OBVIOUS
<1>2. PICK d \in D : \A e \in D : f[d] >= f[e]
  <2>1. PICK m \in S : \A j \in S : m >= j
    <3> HIDE DEF S
    <3> QED
      BY <1>1, LargestExists
  <2> QED
    BY <2>1
<1>3. PICK e \in D : f[d] < f[e]
  OBVIOUS
<1> QED
  BY <1>2, <1>3
------------------------------------------------------------------------------
(* r has a row to insert, and where its program stands. *)
Placed(r, s) ==
  /\ s = request[r] /\ InOrder(s, Mine(r))
  /\ s \in ProgramSession /\ GoodProgram(s.program, s.handler)
  /\ s.handler = "seed_demo" => s.program = SeedDemo
  /\ s.block \in DOMAIN s.program /\ s.stage \in DOMAIN s.program[s.block]
  /\ Min(s.absent) \in s.absent /\ \A j \in s.absent : Min(s.absent) <= j
  /\ s.absent \subseteq DOMAIN StageOf(s)
  /\ GoodStage(StageOf(s), s.handler)
  /\ NextKey(r)[1] = NextStep(s).tag[1]
  /\ NextStep(s).tag = Under(NextKey(r)[1], NextKey(r)[2])
  /\ NextKey(r)[3] = {id \in s.got : Under(id[1], id[2]) \in NextStep(s).under}

LEMMA InsertingIsPlaced ==
  ASSUME CInv, OInv, NEW r \in Requests, Inserting(r)
  PROVE  Placed(r, request[r])
<1>1. PICK s : s = request[r]
  OBVIOUS
<1>2. Running(r) /\ s.absent # {} /\ s # None
  BY <1>1 DEF Inserting, Running
<1>3. ~Finished(s)
  BY <1>1, <1>2 DEF CInv, SessionInv, Running, ProgramInv, WalkInv, WalkSession,
     LInv, LayoutTypeOK, LayoutSession
<1>4. /\ ProgramInv(r) /\ s \in ProgramSession /\ GoodStage(StageOf(s), s.handler)
      /\ s.absent \subseteq DOMAIN StageOf(s)
      /\ \A i \in DOMAIN StageOf(s) : GoodStep(StageOf(s)[i], s.handler)
  BY <1>1, <1>2, <1>3, RunningFacts
<1>5. /\ GoodProgram(s.program, s.handler)
      /\ s.handler = "seed_demo" => s.program = SeedDemo
      /\ s.stage \in DOMAIN s.program[s.block]
  BY <1>1, <1>3, <1>4 DEF ProgramInv
<1>6. s.block \in DOMAIN s.program
  BY <1>1, <1>3, <1>4, SequenceFacts DEF ProgramInv, GoodProgram, Finished
<1>7. InOrder(s, Mine(r))
  BY <1>1, <1>2, <1>4 DEF OInv, Runs, ProgramSession
<1>8. Min(s.absent) \in s.absent /\ \A j \in s.absent : Min(s.absent) <= j
  BY <1>2, <1>4, SmallestExists DEF ProgramSession
<1>9. GoodStep(NextStep(s), s.handler)
  BY <1>4, <1>8 DEF NextStep
<1>10. NextKey(r) = KeyOf(s, NextStep(s))
  BY <1>1 DEF NextKey
<1>11. /\ NextKey(r)[1] = NextStep(s).tag[1]
       /\ NextStep(s).tag = Under(NextKey(r)[1], NextKey(r)[2])
       /\ NextKey(r)[3] = {id \in s.got : Under(id[1], id[2]) \in NextStep(s).under}
  BY <1>9, <1>10, StepTag
<1> QED
  BY <1>1, <1>4, <1>5, <1>6, <1>7, <1>8, <1>11 DEF Placed

(* Where the row has come from that s waits for. *)
MadeBy(s, u, row, key, b, k, i) ==
  /\ b \in DOMAIN u.program /\ k \in DOMAIN u.program[b]
  /\ i \in DOMAIN u.program[b][k] /\ MadeIn(u, row, b, k, i)
  /\ u.program[b][k][i].tag = NextStep(s).tag
  /\ \A id \in key[3] : Under(id[1], id[2]) \in u.program[b][k][i].under

LEMMA AwaitedIsMade ==
  ASSUME NEW q, NEW s, Placed(q, s), NEW w, NEW u, Placed(w, u),
         NEW row \in Mine(w), KeyOfRow(row) = NextKey(q)
  PROVE  \E b, k, i : MadeBy(s, u, row, NextKey(q), b, k, i)
<1>1. MadeInOrder(u, row)
  BY DEF Placed, InOrder
<1>2. PICK b \in DOMAIN u.program : \E k \in DOMAIN u.program[b] :
        \E i \in DOMAIN u.program[b][k] : MadeIn(u, row, b, k, i)
  BY <1>1 DEF MadeInOrder
<1>3. PICK k \in DOMAIN u.program[b] :
        \E i \in DOMAIN u.program[b][k] : MadeIn(u, row, b, k, i)
  BY <1>2
<1>4. PICK i \in DOMAIN u.program[b][k] : MadeIn(u, row, b, k, i)
  BY <1>3
<1>5. PICK key : key = NextKey(q) /\ key = KeyOfRow(row)
  OBVIOUS
<1>6. key[1] = row.id[1] /\ key[2] = row.id[2] /\ key[3] = row.under
  BY <1>5 DEF KeyOfRow, Key
<1>7. NextStep(s).tag = Under(row.id[1], row.id[2])
  BY <1>5, <1>6 DEF Placed
<1>8. RowOf(row, u.program[b][k][i])
  BY <1>4 DEF MadeIn
<1> QED
  BY <1>4, <1>5, <1>6, <1>7, <1>8 DEF MadeBy, RowOf

(* u has come further in the same program than s. *)
Further(s, u) ==
  s.block < u.block \/ (s.block = u.block /\ s.stage < u.stage)

(* A run of seed_demo only waits for one that has come further.            *)
LEMMA DemoWaitsAhead ==
  ASSUME CInv, NEW q, NEW s, Placed(q, s), s.handler = "seed_demo",
         NEW w, NEW u, Placed(w, u), u.handler = "seed_demo",
         Unique(NextKey(q)), NextKey(q)[1] # "users",
         NEW row, NEW b, NEW k, NEW i, MadeBy(s, u, row, NextKey(q), b, k, i)
  PROVE  Further(s, u)
<1>1. /\ s.program = SeedDemo /\ u.program = SeedDemo
      /\ s.block \in DOMAIN SeedDemo /\ s.stage \in DOMAIN SeedDemo[s.block]
      /\ b \in DOMAIN SeedDemo /\ k \in DOMAIN SeedDemo[b]
  BY DEF Placed, MadeBy
<1>2. PICK x : SeedDemo[s.block][s.stage] = <<x>> /\ DemoStep(s.block, s.stage, x)
  BY <1>1, DemoSteps
<1>3. PICK y : SeedDemo[b][k] = <<y>> /\ DemoStep(b, k, y)
  BY <1>1, DemoSteps
<1>4. NextStep(s) = x /\ x.tag \notin x.under
  <2>1. StageOf(s) = <<x>>
    BY <1>1, <1>2 DEF StageOf
  <2>2. Min(s.absent) = 1
    BY <2>1, OneIsSequence DEF Placed
  <2>3. NextStep(s) = x
    BY <2>1, <2>2, OneIsSequence DEF NextStep
  <2>4. x.tag \notin x.under
    BY <2>1, OneIsSequence DEF Placed, GoodStage
  <2> QED
    BY <2>3, <2>4
<1>5. i = 1 /\ u.program[b][k][i] = y
  BY <1>1, <1>3, OneIsSequence DEF MadeBy
<1>6. x.tag = y.tag
  BY <1>4, <1>5 DEF MadeBy
<1>7. x.tag[1] \in {"features", "seats", "room_hours", "user_role_assignments"}
  <2>1. NextKey(q)[1] = x.tag[1]
    BY <1>4 DEF Placed
  <2>2. x.tag[1] \notin RbacTables
    BY <1>2, DemoTables
  <2> QED
    BY <2>1, <2>2 DEF Unique, RbacTables
<1>8. ASSUME NEW t \in x.under, Starts(s.block, t)
      PROVE  t \in y.under
  <2>1. /\ 1 \in DOMAIN SeedDemo[s.block] /\ 1 \in DOMAIN SeedDemo[s.block][1]
        /\ SeedDemo[s.block][1][1].tag = t
    BY <1>8 DEF Starts
  <2>2. s.stage # 1
    BY <1>2, <1>4, <1>8, <2>1, OneIsSequence
  <2>3. s.stage \in Nat /\ s.stage >= 1
    <3>1. IsSequence(SeedDemo[s.block])
      BY <1>1 DEF Placed, GoodProgram, GoodBlock
    <3> QED
      BY <1>1, <3>1, SequenceFacts
  <2>4. Done(s, s.block, 1, 1)
    BY <2>2, <2>3 DEF Done
  <2>5. HasRow(s, s.block, 1, 1)
    BY <1>1, <2>1, <2>4 DEF Placed, InOrder
  <2>6. PICK id \in s.got : Under(id[1], id[2]) = t
    BY <1>1, <2>1, <2>5 DEF HasRow
  <2>7. id \in NextKey(q)[3]
    BY <1>4, <1>8, <2>6 DEF Placed
  <2> QED
    BY <1>5, <2>6, <2>7 DEF MadeBy
<1>9. s.block = b /\ s.stage = k
  BY <1>2, <1>3, <1>6, <1>7, <1>8, DemoStepsApart
<1>10. Done(u, b, k, 1)
  BY <1>5 DEF MadeBy, MadeIn
<1>11. ~(b = u.block /\ k = u.stage /\ u.absent # {} /\ 1 \notin u.absent)
  <2> SUFFICES ASSUME b = u.block, k = u.stage, u.absent # {}
               PROVE  1 \in u.absent
    OBVIOUS
  <2>1. StageOf(u) = <<y>>
    BY <1>1, <1>3 DEF StageOf
  <2> QED
    BY <2>1, OneIsSequence DEF Placed
<1> QED
  BY <1>9, <1>10, <1>11 DEF Done, Further

(* Where a run of seed_rbac stands that is not at its pairs.               *)
LEMMA RbacPlaced ==
  ASSUME NEW q, NEW s, Placed(q, s), s.handler = "seed_rbac",
         NextKey(q)[1] # "role_permissions"
  PROVE  /\ s.block = 1 /\ s.stage = 1 /\ StageOf(s) = RbacFirst
         /\ NextKey(q)[1] \in RbacTables
<1>1. PICK pairs \in SetToSeqs(RolePermissions) : s.program = SeedRbac(Permissions, pairs)
  BY DEF Placed, InOrder
<1>2. /\ DOMAIN s.program = {1} /\ DOMAIN s.program[1] = {1, 2}
      /\ s.program[1][1] = RbacFirst
      /\ \A i \in DOMAIN s.program[1][2] : s.program[1][2][i].tag[1] = "role_permissions"
  BY <1>1, RbacStages
<1>3. s.block = 1 /\ s.stage \in {1, 2} /\ Min(s.absent) \in DOMAIN StageOf(s)
  BY <1>2 DEF Placed
<1>4. s.stage = 1
  <2>1. CASE s.stage = 2
    <3>1. NextStep(s).tag[1] = "role_permissions"
      BY <1>2, <1>3, <2>1 DEF StageOf, NextStep
    <3> QED
      BY <3>1 DEF Placed
  <2> QED
    BY <1>3, <2>1
<1>5. StageOf(s) = RbacFirst
  BY <1>2, <1>3, <1>4 DEF StageOf
<1>6. NextKey(q)[1] \in RbacTables
  BY <1>3, <1>5, RbacFirstTables DEF Placed, NextStep
<1> QED
  BY <1>3, <1>4, <1>5, <1>6

(* It only waits for one that has come further.                            *)
LEMMA RbacWaitsAhead ==
  ASSUME NEW q, NEW s, Placed(q, s), s.handler = "seed_rbac",
         NextKey(q)[1] # "role_permissions",
         NEW w, NEW u, Placed(w, u), u.handler = "seed_rbac",
         NextKey(w)[1] # "role_permissions",
         NEW row, NEW b, NEW k, NEW i, MadeBy(s, u, row, NextKey(q), b, k, i)
  PROVE  Min(s.absent) < Min(u.absent)
<1>1. PICK pairs \in SetToSeqs(RolePermissions) : u.program = SeedRbac(Permissions, pairs)
  BY DEF Placed, InOrder
<1>2. /\ DOMAIN u.program = {1} /\ DOMAIN u.program[1] = {1, 2}
      /\ u.program[1][1] = RbacFirst /\ GoodStage(RbacFirst, "seed_rbac")
      /\ \A j \in DOMAIN u.program[1][2] : u.program[1][2][j].tag[1] = "role_permissions"
  BY <1>1, RbacStages
<1>3. u.block = 1 /\ u.stage = 1 /\ StageOf(s) = RbacFirst
  BY RbacPlaced
<1>4. b = 1 /\ k \in {1, 2}
  BY <1>2 DEF MadeBy
<1>5. u.program[b][k][i].tag[1] # "role_permissions"
  BY DEF MadeBy, Placed
<1>6. k = 1 /\ i \in DOMAIN RbacFirst /\ u.program[b][k][i] = RbacFirst[i]
  BY <1>2, <1>4, <1>5 DEF MadeBy
<1>7. /\ Min(s.absent) \in DOMAIN RbacFirst
      /\ RbacFirst[Min(s.absent)].tag = RbacFirst[i].tag
  BY <1>3, <1>6 DEF MadeBy, Placed, NextStep
<1>8. Min(s.absent) = i
  BY <1>2, <1>6, <1>7 DEF GoodStage
<1>9. \A j \in u.absent : i < j
  BY <1>3, <1>4, <1>6 DEF MadeBy, MadeIn
<1> QED
  BY <1>8, <1>9 DEF Placed

(* seed_demo and seed_rbac have no table in common.                        *)
LEMMA SameScript ==
  ASSUME NEW q, NEW s, Placed(q, s), NextKey(q)[1] # "role_permissions",
         NEW w, NEW u, Placed(w, u), NextKey(w)[1] # "role_permissions",
         s.handler \in {"seed_rbac", "seed_demo"}, u.handler \in {"seed_rbac", "seed_demo"},
         NEW row, NEW b, NEW k, NEW i, MadeBy(s, u, row, NextKey(q), b, k, i)
  PROVE  s.handler = u.handler
<1>1. PICK tag : tag = NextStep(s).tag /\ tag = u.program[b][k][i].tag
  BY DEF MadeBy
<1>2. s.handler = "seed_rbac" => tag[1] \in RbacTables
  BY <1>1, RbacPlaced DEF Placed
<1>3. s.handler = "seed_demo" => tag[1] \notin RbacTables
  <2> SUFFICES ASSUME s.handler = "seed_demo"
               PROVE  tag[1] \notin RbacTables
    OBVIOUS
  <2>1. /\ s.program = SeedDemo /\ s.block \in DOMAIN SeedDemo
        /\ s.stage \in DOMAIN SeedDemo[s.block]
    BY DEF Placed
  <2>2. PICK x : SeedDemo[s.block][s.stage] = <<x>> /\ DemoStep(s.block, s.stage, x)
    BY <2>1, DemoSteps
  <2>3. StageOf(s) = <<x>>
    BY <2>1, <2>2 DEF StageOf
  <2>4. NextStep(s) = x
    BY <2>3, OneIsSequence DEF Placed, NextStep
  <2> QED
    BY <1>1, <2>2, <2>4, DemoTables
<1>4. u.handler = "seed_demo" => tag[1] \notin RbacTables
  <2> SUFFICES ASSUME u.handler = "seed_demo"
               PROVE  tag[1] \notin RbacTables
    OBVIOUS
  <2>1. u.program = SeedDemo /\ b \in DOMAIN SeedDemo /\ k \in DOMAIN SeedDemo[b]
    BY DEF Placed, MadeBy
  <2>2. PICK x : SeedDemo[b][k] = <<x>> /\ DemoStep(b, k, x)
    BY <2>1, DemoSteps
  <2>3. u.program[b][k][i] = x
    BY <2>1, <2>2, OneIsSequence DEF MadeBy
  <2> QED
    BY <1>1, <2>2, <2>3, DemoTables
<1>5. u.handler = "seed_rbac" => tag[1] \in RbacTables
  <2> SUFFICES ASSUME u.handler = "seed_rbac"
               PROVE  tag[1] \in RbacTables
    OBVIOUS
  <2>1. PICK pairs \in SetToSeqs(RolePermissions) : u.program = SeedRbac(Permissions, pairs)
    BY DEF Placed, InOrder
  <2>2. /\ DOMAIN u.program = {1} /\ DOMAIN u.program[1] = {1, 2}
        /\ u.program[1][1] = RbacFirst
        /\ \A j \in DOMAIN u.program[1][2] : u.program[1][2][j].tag[1] = "role_permissions"
    BY <2>1, RbacStages
  <2>3. b = 1 /\ (k = 1 \/ k = 2) /\ i \in DOMAIN u.program[b][k]
    BY <2>2 DEF MadeBy
  <2> QED
    BY <1>1, <2>2, <2>3, RbacFirstTables DEF RbacTables
<1> QED
  BY <1>2, <1>3, <1>4, <1>5

(* q waits for w, which does the same and has come further.                *)
Ahead(q, w) ==
  LET s == request[q] u == request[w] IN
  /\ s.handler = u.handler
  /\ s.handler = "seed_demo" => Further(s, u)
  /\ s.handler = "seed_rbac" => Min(s.absent) < Min(u.absent)

LEMMA WaitsAreAhead ==
  ASSUME CInv, OInv, NEW q \in Requests, NEW w \in Requests, w \in WaitsFor(q),
         Inserting(w),
         request[q].handler # "create_venue", NextKey(q)[1] # "role_permissions",
         request[w].handler # "create_venue", NextKey(w)[1] # "role_permissions"
  PROVE  Ahead(q, w)
<1>1. Inserting(q) /\ Unique(NextKey(q)) /\ w \in Holders(NextKey(q)) \ {q}
  BY DEF WaitsFor
<1>2. PICK s, u : s = request[q] /\ u = request[w]
  OBVIOUS
<1>3. Placed(q, s) /\ Placed(w, u)
  BY <1>1, <1>2, InsertingIsPlaced
<1>4. s.handler \in {"seed_rbac", "seed_demo"} /\ u.handler \in {"seed_rbac", "seed_demo"}
  BY <1>2, <1>3 DEF Placed, ProgramSession, Handlers
<1>5. PICK row \in rows : KeyOfRow(row) = NextKey(q) /\ row.owner = w /\ w # None
  BY <1>1 DEF Holders
<1>6. row \in Mine(w)
  BY <1>5 DEF Mine
<1>7. PICK b, k, i : MadeBy(s, u, row, NextKey(q), b, k, i)
  BY <1>3, <1>5, <1>6, AwaitedIsMade
<1>8. s.handler = u.handler
  BY <1>3, <1>4, <1>7, SameScript
<1>9. NextKey(q)[1] # "users"
  <2>1. NextKey(q)[1] = row.id[1]
    BY <1>5 DEF KeyOfRow, Key
  <2> QED
    BY <1>5, <2>1 DEF CInv, RowsInv
<1>10. s.handler = "seed_demo" => Further(s, u)
  BY <1>1, <1>3, <1>7, <1>8, <1>9, DemoWaitsAhead
<1>11. s.handler = "seed_rbac" => Min(s.absent) < Min(u.absent)
  BY <1>3, <1>7, <1>8, RbacWaitsAhead
<1> QED
  BY <1>2, <1>8, <1>10, <1>11 DEF Ahead

(* So no request of a circle is the one that has come furthest.            *)
LEMMA NoOrderedCircle ==
  ASSUME CInv, OInv, NEW circle \in SUBSET Requests, circle # {}, Circle(circle),
         \A q \in circle :
           /\ request[q].handler # "create_venue"
           /\ NextKey(q)[1] # "role_permissions"
  PROVE  FALSE
<1>1. \A q \in circle : Inserting(q)
  BY DEF Circle, WaitsFor
<1>2. \A q \in circle : \E w \in circle : Ahead(q, w)
  <2> SUFFICES ASSUME NEW q \in circle
               PROVE  \E w \in circle : Ahead(q, w)
    OBVIOUS
  <2>1. PICK w \in circle : w \in WaitsFor(q)
    BY DEF Circle
  <2>2. Ahead(q, w)
    BY <1>1, <2>1, WaitsAreAhead
  <2> QED
    BY <2>2
<1>3. ASSUME NEW q \in circle
      PROVE  Placed(q, request[q]) /\ request[q].handler \in {"seed_rbac", "seed_demo"}
  <2>1. Placed(q, request[q])
    BY <1>1, InsertingIsPlaced
  <2> QED
    BY <2>1 DEF Placed, ProgramSession, Handlers
<1>4. ASSUME NEW q \in circle, request[q].handler = "seed_rbac"
      PROVE  FALSE
  <2> DEFINE D == {d \in circle : request[d].handler = "seed_rbac"}
             f == [d \in D |-> Min(request[d].absent)]
  <2>1. PICK n \in Nat : DOMAIN RbacFirst = 1..n
    <3>1. PICK pairs \in SetToSeqs(RolePermissions) :
            request[q].program = SeedRbac(Permissions, pairs)
      BY <1>3, <1>4 DEF Placed, InOrder
    <3>2. IsSequence(RbacFirst)
      BY <3>1, RbacStages DEF GoodStage
    <3> QED
      BY <3>2, SequenceFacts
  <2>2. ASSUME NEW d \in D PROVE f[d] \in 1..n
    <3>1. StageOf(request[d]) = RbacFirst
      BY <1>3, RbacPlaced
    <3> QED
      BY <1>3, <2>1, <3>1 DEF Placed
  <2>3. \A d \in D : \E e \in D : f[d] < f[e]
    BY <1>2 DEF Ahead
  <2>4. D # {}
    BY <1>4
  <2> HIDE DEF D, f
  <2> QED
    BY <2>1, <2>2, <2>3, <2>4, NoRise
<1>5. ASSUME NEW q \in circle, request[q].handler = "seed_demo"
      PROVE  FALSE
  <2> DEFINE D == {d \in circle : request[d].handler = "seed_demo"}
             f == [d \in D |-> request[d].block]
  <2>1. D # {}
    BY <1>5
  <2>2. \A d \in D : \E e \in D :
          \/ request[d].block < request[e].block
          \/ request[d].block = request[e].block /\ request[d].stage < request[e].stage
    BY <1>2 DEF Ahead, Further
  <2>3. /\ Len(SeedDemo) \in Nat /\ DOMAIN SeedDemo = 1..Len(SeedDemo)
        /\ \A b \in DOMAIN SeedDemo :
             Len(SeedDemo[b]) \in Nat /\ DOMAIN SeedDemo[b] = 1..Len(SeedDemo[b])
    BY GoodSeedDemo, SequenceFacts DEF GoodProgram, GoodBlock
  <2>4. ASSUME NEW d \in D
        PROVE  /\ request[d].block \in DOMAIN SeedDemo
               /\ request[d].stage \in DOMAIN SeedDemo[request[d].block]
    BY <1>3 DEF Placed
  <2>5. PICK top \in D : \A e \in D : ~(request[top].block < request[e].block)
    <3>1. CASE \A d \in D : \E e \in D : request[d].block < request[e].block
      <4>1. \A d \in D : f[d] \in 1..Len(SeedDemo)
        BY <2>3, <2>4
      <4>2. \A d \in D : \E e \in D : f[d] < f[e]
        BY <3>1
      <4> HIDE DEF D, f
      <4> QED
        BY <2>1, <2>3, <4>1, <4>2, NoRise
    <3> QED
      BY <3>1
  <2>6. PICK b : b = request[top].block /\ b \in DOMAIN SeedDemo
    BY <2>4
  <2> DEFINE E == {d \in D : request[d].block = b}
             g == [d \in E |-> request[d].stage]
  <2>7. \A d \in E : g[d] \in 1..Len(SeedDemo[b])
    BY <2>3, <2>4, <2>6
  <2>8. \A d \in E : \E e \in E : g[d] < g[e]
    BY <2>2, <2>5, <2>6
  <2>9. E # {} /\ Len(SeedDemo[b]) \in Nat
    BY <2>3, <2>6
  <2> HIDE DEF E, g
  <2> QED
    BY <2>7, <2>8, <2>9, NoRise
<1> QED
  BY <1>3, <1>4, <1>5

(* Scripts whose inserts come in a fixed order never wait for one another  *)
(* in a circle: in each circle is a create_venue, whose features come in   *)
(* the order of the client, or a request at its pairs of roles and         *)
(* permissions, a set (space.py:322, rbac.py:43).                          *)
THEOREM DeadlocksNeedDisorder == Spec => []DeadlockNeedsDisorder
<1>1. CInv /\ OInv => DeadlockNeedsDisorder
  BY NoOrderedCircle DEF DeadlockNeedsDisorder
<1> QED
  BY InitInv, CNextInv, OInvInit, OInvNext, <1>1, PTL DEF Spec
==============================================================================
