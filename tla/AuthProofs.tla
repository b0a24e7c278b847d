----------------------------- MODULE AuthProofs -----------------------------
(***************************************************************************)
(* Proofs about Auth, for every set of users, tokens, reset tokens,        *)
(* addresses, passwords, names and requests, and every time to live.       *)
(***************************************************************************)
EXTENDS Auth, SessionsProofs

(* What the local variables of each handler hold. *)
WellFormed(s) ==
  /\ s.handler # "register" => s.user \in UserIds
  /\ s.handler = "register" => s.row \in UserRow /\ s.row.email = Lower[s.row.email]
  /\ s.handler = "profile" => s.row \in UserRow /\ s.name \in Names
  /\ s.handler \in {"login", "refresh", "reset"} => s.password \in Passwords
  /\ s.handler \in {"refresh", "logout"} => s.target \in Tokens
  /\ s.handler = "reset" => s.target \in Resets

(* The password of a token's login is in force, or was changed by a reset  *)
(* that overlapped the issue of a token of its line.                       *)
PasswordKept(t) ==
  \/ tokens[t].password = users[tokens[t].user].password
  \/ \E x \in tokens[t].line : {x, tokens[t].user} \in races

(* A handler that loaded a token found it live, and until another request  *)
(* writes the row it is.                                                   *)
KnowsToken(s, written) ==
  /\ tokens[s.target] # None /\ tokens[s.target].user = s.user
  /\ s.target \notin written => ~tokens[s.target].revoked

(* The same of a reset token; and a live token of the user that the reset  *)
(* will not revoke is younger than its SELECT.                             *)
KnowsReset(s, written) ==
  /\ resets[s.target] # None /\ resets[s.target].user = s.user
  /\ s.target \notin written => ~resets[s.target].used
  /\ \A t \in s.doomed : tokens[t] # None
  /\ s.pc = "commit" =>
       \A t \in Tokens : LiveToken(t) /\ tokens[t].user = s.user
                           => t \in s.doomed \cup written

Knows(s, written) ==
  /\ s.handler # "register" => users[s.user] # None
  /\ s.handler = "login" =>
       (s.user \notin written => users[s.user].password = s.password)
  /\ s.handler \in {"refresh", "logout"} => KnowsToken(s, written)
  /\ s.handler = "refresh" =>
       /\ tokens[s.target].password = s.password
       /\ PasswordKept(s.target) \/ s.user \in written
  /\ s.handler = "reset" => KnowsReset(s, written)

SessionsKnow ==
  \A r \in Requests : request[r] # None =>
    WellFormed(request[r]) /\ Knows(request[r], raced[r])

(* An address whose insert has been flushed is free, and locked by one     *)
(* request only.                                                           *)
FlushedIsFree ==
  \A r \in Requests : Open(r, "register", "commit") =>
    ~AddressTaken(request[r].row.email) /\ ~AddressLocked(r, request[r].row.email)

ResetsHaveUsers ==
  \A x \in Resets : resets[x] # None => users[resets[x].user] # None

(* The line of a token goes back over tokens that are revoked. *)
LinesInOrder ==
  \A t \in Tokens : tokens[t] # None =>
    /\ users[tokens[t].user] # None
    /\ t \in tokens[t].line
    /\ \A x \in tokens[t].line : tokens[x] # None /\ (x = t \/ tokens[x].revoked)

(* Of two tokens of one login one descends from the other, unless two      *)
(* refreshes of a common ancestor overlapped.                              *)
SplitsNeedRace ==
  \A s, t \in Tokens : tokens[s] # None /\ tokens[t] # None =>
    \/ s \in tokens[t].line \/ t \in tokens[s].line
    \/ tokens[s].line \cap tokens[t].line = {}
    \/ \E x \in tokens[s].line \cap tokens[t].line : LostWrite(x)

LogoutsLast ==
  /\ \A x \in loggedOut : tokens[x] # None /\ tokens[x].revoked
  /\ \A t \in Tokens : \A x \in loggedOut :
       tokens[t] # None /\ x \in tokens[t].line /\ x # t => LostWrite(x)

IInv ==
  /\ TypeOK
  /\ SessionsKnow
  /\ FlushedIsFree
  /\ OneAccountPerAddress
  /\ ResetsHaveUsers
  /\ LinesInOrder
  /\ SplitsNeedRace
  /\ LogoutsLast
  /\ OldSessionNeedsRace

USE AuthAssumption
------------------------------------------------------------------------------
LEMMA InitInv == Init => IInv
<1> SUFFICES ASSUME Init PROVE IInv
  OBVIOUS
<1> USE DEF Init, NoRequests
<1>1. TypeOK
  BY DEF TypeOK
<1>2. SessionsKnow /\ FlushedIsFree /\ OneAccountPerAddress /\ ResetsHaveUsers
  BY DEF SessionsKnow, FlushedIsFree, Open, OneAccountPerAddress, ResetsHaveUsers
<1>3. LinesInOrder /\ SplitsNeedRace /\ LogoutsLast /\ OldSessionNeedsRace
  BY DEF LinesInOrder, SplitsNeedRace, LogoutsLast, OldSessionNeedsRace, LiveToken
<1> QED
  BY <1>1, <1>2, <1>3 DEF IInv

(* What the invariant says of sessions, with one request rigid: how the    *)
(* tables may change so that an open request still knows what it knew.     *)
UsersKept(written) ==
  \A u \in UserIds : users[u] # None =>
    /\ users'[u] # None /\ users'[u].email = users[u].email
    /\ users'[u].password = users[u].password \/ u \in written

TokensKept(written) ==
  \A t \in Tokens :
    /\ tokens'[t] = tokens[t] \/ t \in written
    /\ tokens[t] # None =>
         /\ tokens'[t] # None
         /\ tokens'[t].user = tokens[t].user
         /\ tokens'[t].line = tokens[t].line
         /\ tokens'[t].password = tokens[t].password
         /\ tokens[t].revoked => tokens'[t].revoked

ResetsKept(written) ==
  \A x \in Resets : resets[x] # None =>
    /\ resets'[x] # None /\ resets'[x].user = resets[x].user
    /\ resets'[x] = resets[x] \/ x \in written

(* An open request keeps what it knows while others write, as long as they *)
(* leave word of the rows they write.                                      *)
LEMMA Bystander ==
  ASSUME IInv, NEW q \in Requests, request[q] # None, request'[q] = request[q],
         raced[q] \subseteq raced'[q], races \subseteq races',
         UsersKept(raced'[q]), TokensKept(raced'[q]), ResetsKept(raced'[q])
  PROVE  (WellFormed(request[q]) /\ Knows(request[q], raced[q]))'
<1>1. PICK s \in Session : s = request[q]
  BY DEF IInv, TypeOK
<1>2. WellFormed(s) /\ Knows(s, raced[q])
  BY <1>1 DEF IInv, SessionsKnow
<1>3. PICK w : w = raced'[q]
  OBVIOUS
<1>4. s.handler # "register" => s.user \in UserIds /\ users[s.user] # None /\ users'[s.user] # None
  BY <1>2, <1>3 DEF WellFormed, Knows, UsersKept
<1>5. s.handler = "login" =>
        (s.user \notin w => users'[s.user].password = s.password)
  BY <1>2, <1>3, <1>4 DEF Knows, UsersKept
<1>6. ASSUME s.handler \in {"refresh", "logout"}
      PROVE  KnowsToken(s, w)'
  <2>1. s.target \in Tokens /\ KnowsToken(s, raced[q])
    BY <1>2, <1>6 DEF WellFormed, Knows
  <2> QED
    BY <1>3, <2>1 DEF KnowsToken, TokensKept
<1>7. ASSUME s.handler = "refresh"
      PROVE  /\ tokens'[s.target].password = s.password
             /\ PasswordKept(s.target)' \/ s.user \in w
  <2>1. /\ s.target \in Tokens /\ s.user \in UserIds
        /\ tokens[s.target] # None /\ tokens[s.target].user = s.user
        /\ tokens[s.target].password = s.password
        /\ PasswordKept(s.target) \/ s.user \in raced[q]
    BY <1>2, <1>7 DEF WellFormed, Knows, KnowsToken
  <2>2. /\ tokens'[s.target].user = s.user
        /\ tokens'[s.target].password = s.password
        /\ tokens'[s.target].line = tokens[s.target].line
    BY <2>1 DEF TokensKept
  <2>3. users'[s.user].password = users[s.user].password \/ s.user \in w
    BY <1>3, <1>4, <1>7 DEF UsersKept
  <2> QED
    BY <1>3, <2>1, <2>2, <2>3 DEF PasswordKept
<1>8. ASSUME s.handler = "reset"
      PROVE  KnowsReset(s, w)'
  <2>1. s.target \in Resets /\ KnowsReset(s, raced[q]) /\ s.doomed \subseteq Tokens
    BY <1>2, <1>8 DEF WellFormed, Knows, Session
  <2>2. /\ resets'[s.target] # None /\ resets'[s.target].user = s.user
        /\ s.target \notin w => ~resets'[s.target].used
    BY <1>3, <2>1 DEF KnowsReset, ResetsKept
  <2>3. \A t \in s.doomed : tokens'[t] # None
    BY <2>1 DEF KnowsReset, TokensKept
  <2>4. ASSUME s.pc = "commit", NEW t \in Tokens,
               LiveToken(t)', tokens'[t].user = s.user
        PROVE  t \in s.doomed \cup w
    BY <1>3, <2>1, <2>4 DEF KnowsReset, TokensKept, LiveToken
  <2> QED
    BY <2>2, <2>3, <2>4 DEF KnowsReset
<1>9. WellFormed(s)' /\ Knows(s, w)'
  BY <1>2, <1>4, <1>5, <1>6, <1>7, <1>8 DEF WellFormed, Knows
<1> QED
  BY <1>1, <1>3, <1>9 DEF WellFormed, Knows, KnowsToken, KnowsReset, PasswordKept
------------------------------------------------------------------------------
(* What a commit leaves of the other sessions. *)
LEMMA CommitKeepsSessions ==
  ASSUME IInv, NEW r \in Requests, NEW S, Committed(r, S),
         UsersKept(S), TokensKept(S), ResetsKept(S)
  PROVE  SessionsKnow'
<1>1. ASSUME NEW q \in Requests, request'[q] # None
      PROVE  (WellFormed(request[q]) /\ Knows(request[q], raced[q]))'
  <2>1. /\ request'[q] = request[q] /\ request[q] # None
        /\ raced'[q] = raced[q] \cup S /\ races \subseteq races'
    BY <1>1 DEF IInv, TypeOK, Committed
  <2>2. UsersKept(raced'[q]) /\ TokensKept(raced'[q]) /\ ResetsKept(raced'[q])
    BY <2>1 DEF UsersKept, TokensKept, ResetsKept
  <2> QED
    BY <2>1, <2>2, Bystander
<1> QED
  BY <1>1 DEF SessionsKnow

(* The types of the sessions and ghosts after a commit. *)
LEMMA CommitTypes ==
  ASSUME TypeOK, NEW r \in Requests,
         NEW S \in SUBSET (UserIds \cup Tokens \cup Resets), Committed(r, S)
  PROVE  /\ request' \in [Requests -> Session \cup {None}]
         /\ raced' \in [Requests -> SUBSET (UserIds \cup Tokens \cup Resets)]
         /\ races' \subseteq SUBSET (UserIds \cup Tokens \cup Resets)
         /\ races \subseteq races'
BY DEF TypeOK, Committed

(* Requests end, and no user is new: the addresses are as they were.       *)
LEMMA AddressesInv ==
  ASSUME IInv, UsersKept(UserIds),
         \A u \in UserIds : users[u] = None => users'[u] = None,
         \A q \in Requests : request'[q] # None => request'[q] = request[q]
  PROVE  FlushedIsFree' /\ OneAccountPerAddress'
<1>1. ASSUME NEW e PROVE AddressTaken(e)' => AddressTaken(e)
  BY DEF AddressTaken, UsersKept
<1>2. FlushedIsFree'
  BY <1>1 DEF IInv, FlushedIsFree, Open, AddressLocked
<1>3. OneAccountPerAddress'
  BY DEF IInv, OneAccountPerAddress, UsersKept
<1> QED
  BY <1>2, <1>3

(* No token is issued: the lines are as they were. *)
LEMMA LinesInv ==
  ASSUME IInv, UsersKept(UserIds), TokensKept(Tokens),
         \A t \in Tokens : tokens[t] = None => tokens'[t] = None,
         races \subseteq races'
  PROVE  LinesInOrder' /\ SplitsNeedRace'
<1>1. \A t \in Tokens : tokens[t] # None =>
        tokens[t].user \in UserIds /\ tokens[t].line \subseteq Tokens
  BY DEF IInv, TypeOK, TokenRow
<1>2. LinesInOrder'
  BY <1>1 DEF IInv, LinesInOrder, UsersKept, TokensKept
<1>3. SplitsNeedRace'
  <2> SUFFICES ASSUME NEW s \in Tokens, NEW t \in Tokens,
                      tokens'[s] # None, tokens'[t] # None
               PROVE  \/ s \in tokens'[t].line \/ t \in tokens'[s].line
                      \/ tokens'[s].line \cap tokens'[t].line = {}
                      \/ \E x \in tokens'[s].line \cap tokens'[t].line : LostWrite(x)'
    BY DEF SplitsNeedRace
  <2>1. /\ tokens[s] # None /\ tokens[t] # None
        /\ tokens'[s].line = tokens[s].line /\ tokens'[t].line = tokens[t].line
    BY DEF TokensKept
  <2>2. \A x : LostWrite(x) => LostWrite(x)'
    BY DEF LostWrite
  <2> QED
    BY <2>1, <2>2 DEF IInv, SplitsNeedRace
<1> QED
  BY <1>2, <1>3

LEMMA LogoutsInv ==
  ASSUME IInv, TokensKept(Tokens),
         \A t \in Tokens : tokens[t] = None => tokens'[t] = None,
         races \subseteq races', loggedOut' = loggedOut
  PROVE  LogoutsLast'
<1>1. loggedOut \subseteq Tokens
  BY DEF IInv, TypeOK
<1>2. \A x : LostWrite(x) => LostWrite(x)'
  BY DEF LostWrite
<1> QED
  BY <1>1, <1>2 DEF IInv, LogoutsLast, TokensKept

(* No token is issued and no password changes: old sessions are as before. *)
LEMMA OldSessionsInv ==
  ASSUME IInv, TokensKept(Tokens),
         \A t \in Tokens : tokens[t] = None => tokens'[t] = None,
         \A u \in UserIds : users[u] # None => users'[u].password = users[u].password,
         races \subseteq races'
  PROVE  OldSessionNeedsRace'
<1>1. ASSUME NEW t \in Tokens, LiveToken(t)'
      PROVE  /\ LiveToken(t) /\ tokens[t].user \in UserIds /\ users[tokens[t].user] # None
             /\ tokens'[t].user = tokens[t].user
             /\ tokens'[t].password = tokens[t].password
             /\ tokens'[t].line = tokens[t].line
  BY <1>1 DEF LiveToken, IInv, TypeOK, TokenRow, LinesInOrder, TokensKept
<1> SUFFICES ASSUME NEW t \in Tokens, LiveToken(t)'
             PROVE  \/ tokens'[t].password = users'[tokens'[t].user].password
                    \/ \E x \in tokens'[t].line : {x, tokens'[t].user} \in races'
  BY DEF OldSessionNeedsRace
<1>2. \/ tokens[t].password = users[tokens[t].user].password
      \/ \E x \in tokens[t].line : {x, tokens[t].user} \in races
  BY <1>1 DEF IInv, OldSessionNeedsRace
<1> QED
  BY <1>1, <1>2

LEMMA ResetsInv ==
  ASSUME IInv, UsersKept(UserIds), ResetsKept(Resets),
         \A x \in Resets : resets[x] = None => resets'[x] = None
  PROVE  ResetsHaveUsers'
BY DEF IInv, TypeOK, ResetRow, ResetsHaveUsers, UsersKept, ResetsKept
------------------------------------------------------------------------------
(* A request begins with a session that knows what it has just loaded. *)
LEMMA BeginInv ==
  ASSUME IInv, NEW r \in Requests, NEW s \in Session, request[r] = None,
         request' = [request EXCEPT ![r] = s], s.pc # "commit" \/ s.handler # "register",
         UNCHANGED <<clock, tables, loggedOut, raced, races>>,
         WellFormed(s), Knows(s, {})
  PROVE  IInv'
<1> USE DEF tables
<1>1. TypeOK'
  BY DEF IInv, TypeOK
<1>2. UsersKept({}) /\ TokensKept({}) /\ ResetsKept({})
  BY DEF UsersKept, TokensKept, ResetsKept
<1>3. ASSUME NEW q \in Requests, request'[q] # None
      PROVE  (WellFormed(request[q]) /\ Knows(request[q], raced[q]))'
  <2>1. CASE q = r
    <3>1. request'[q] = s
      BY <2>1 DEF IInv, TypeOK
    <3>2. Knows(s, raced[q])
      BY DEF Knows, KnowsToken, KnowsReset
    <3> QED
      BY <3>1, <3>2 DEF WellFormed, Knows, KnowsToken, KnowsReset, PasswordKept,
                        LiveToken
  <2>2. CASE q # r
    <3>1. request'[q] = request[q] /\ request[q] # None
      BY <1>3, <2>2 DEF IInv, TypeOK
    <3> QED
      BY <1>2, <3>1, Bystander DEF UsersKept, TokensKept, ResetsKept
  <2> QED
    BY <2>1, <2>2
<1>4. FlushedIsFree'
  <2>1. \A q \in Requests : Open(q, "register", "commit")'
                              => q # r /\ request'[q] = request[q]
    BY DEF Open, IInv, TypeOK
  <2>2. \A q \in Requests : Open(q, "register", "commit")' => Open(q, "register", "commit")
    BY <2>1 DEF Open
  <2> QED
    BY <2>1, <2>2 DEF IInv, FlushedIsFree, AddressTaken, AddressLocked
<1>5. /\ OneAccountPerAddress' /\ ResetsHaveUsers' /\ LinesInOrder'
      /\ SplitsNeedRace' /\ LogoutsLast' /\ OldSessionNeedsRace'
  BY DEF IInv, OneAccountPerAddress, ResetsHaveUsers, LinesInOrder, SplitsNeedRace,
         LogoutsLast, OldSessionNeedsRace, LiveToken, LostWrite
<1> QED
  BY <1>1, <1>3, <1>4, <1>5 DEF IInv, SessionsKnow

LEMMA BeginsInv ==
  ASSUME IInv, NEW r \in Requests, BeginRequest(r)
  PROVE  IInv'
<1> USE DEF Begin, OpenSession, Handlers
<1> USE DEF IInv, TypeOK
<1>1. CASE BeginRegister(r)
  <2>1. PICK a \in Addresses, p \in Passwords, n \in Names :
          Begin(r, "register", "flush", None, None,
                [email |-> Lower[a], password |-> p, name |-> n], None, None, 0)
    BY <1>1 DEF BeginRegister
  <2> DEFINE row == [email |-> Lower[a], password |-> p, name |-> n]
             s == [handler |-> "register", pc |-> "flush", user |-> None,
                   target |-> None, row |-> row, password |-> None,
                   name |-> None, expires |-> 0, doomed |-> {},
                   held |-> {}]
  <2>2. row \in UserRow /\ row.email = Lower[row.email]
    BY DEF UserRow
  <2>3. s \in Session
    BY <2>2 DEF Session
  <2>4. WellFormed(s) /\ Knows(s, {})
    BY <2>2 DEF WellFormed, Knows
  <2>5. request[r] = None /\ request' = [request EXCEPT ![r] = s]
        /\ UNCHANGED <<clock, tables, loggedOut, raced, races>>
    BY <2>1
  <2>6. s.pc # "commit"
    OBVIOUS
  <2> HIDE DEF s
  <2> QED
    BY <2>3, <2>4, <2>5, <2>6, BeginInv
<1>2. CASE BeginLogin(r)
  <2>1. PICK a \in Addresses, u \in UserIds :
          /\ users[u] # None
          /\ Begin(r, "login", "commit", u, None, users[u], users[u].password,
                   None, clock + RefreshTtl)
    BY <1>2 DEF BeginLogin
  <2> DEFINE s == [handler |-> "login", pc |-> "commit", user |-> u,
                   target |-> None, row |-> users[u],
                   password |-> users[u].password, name |-> None,
                   expires |-> clock + RefreshTtl, doomed |-> {},
                   held |-> {}]
  <2>2. users[u] \in UserRow /\ clock + RefreshTtl \in Nat
    BY <2>1
  <2>3. s \in Session
    BY <2>2 DEF Session, UserRow
  <2>4. WellFormed(s) /\ Knows(s, {})
    BY <2>1, <2>2 DEF WellFormed, Knows, UserRow
  <2>5. request[r] = None /\ request' = [request EXCEPT ![r] = s]
        /\ UNCHANGED <<clock, tables, loggedOut, raced, races>>
    BY <2>1
  <2>6. s.handler # "register"
    OBVIOUS
  <2> HIDE DEF s
  <2> QED
    BY <2>3, <2>4, <2>5, <2>6, BeginInv
<1>3. CASE BeginRefresh(r)
  <2>1. PICK t \in Tokens :
          /\ LiveToken(t)
          /\ Begin(r, "refresh",
                   IF tokens[t].expires <= clock THEN "expire" ELSE "flush",
                   tokens[t].user, t, None, tokens[t].password, None,
                   clock + RefreshTtl)
    BY <1>3 DEF BeginRefresh
  <2> DEFINE pc == IF tokens[t].expires <= clock THEN "expire" ELSE "flush"
             s == [handler |-> "refresh", pc |-> pc, user |-> tokens[t].user,
                   target |-> t, row |-> None, password |-> tokens[t].password,
                   name |-> None, expires |-> clock + RefreshTtl, doomed |-> {},
                   held |-> {}]
  <2>2. tokens[t] \in TokenRow /\ clock + RefreshTtl \in Nat
    BY <2>1 DEF LiveToken
  <2>3. s \in Session
    BY <2>2 DEF Session, TokenRow
  <2>4. PasswordKept(t)
    BY <2>1 DEF OldSessionNeedsRace, PasswordKept
  <2>5. KnowsToken(s, {}) /\ users[tokens[t].user] # None
    BY <2>1, <2>2 DEF KnowsToken, LiveToken, LinesInOrder
  <2>6. WellFormed(s) /\ Knows(s, {})
    BY <2>2, <2>4, <2>5 DEF WellFormed, Knows, TokenRow
  <2>7. request[r] = None /\ request' = [request EXCEPT ![r] = s]
        /\ UNCHANGED <<clock, tables, loggedOut, raced, races>>
    BY <2>1
  <2>8. s.handler # "register"
    OBVIOUS
  <2> HIDE DEF s
  <2> QED
    BY <2>3, <2>6, <2>7, <2>8, BeginInv
<1>4. CASE BeginLogout(r)
  <2>1. PICK t \in Tokens :
          /\ LiveToken(t)
          /\ Begin(r, "logout", "commit", tokens[t].user, t, None, None, None, 0)
    BY <1>4 DEF BeginLogout
  <2> DEFINE s == [handler |-> "logout", pc |-> "commit", user |-> tokens[t].user,
                   target |-> t, row |-> None, password |-> None,
                   name |-> None, expires |-> 0, doomed |-> {},
                   held |-> {}]
  <2>2. tokens[t] \in TokenRow
    BY <2>1 DEF LiveToken
  <2>3. s \in Session
    BY <2>2 DEF Session, TokenRow
  <2>4. KnowsToken(s, {}) /\ users[tokens[t].user] # None
    BY <2>1, <2>2 DEF KnowsToken, LiveToken, LinesInOrder
  <2>5. WellFormed(s) /\ Knows(s, {})
    BY <2>2, <2>4 DEF WellFormed, Knows, TokenRow
  <2>6. request[r] = None /\ request' = [request EXCEPT ![r] = s]
        /\ UNCHANGED <<clock, tables, loggedOut, raced, races>>
    BY <2>1
  <2>7. s.handler # "register"
    OBVIOUS
  <2> HIDE DEF s
  <2> QED
    BY <2>3, <2>5, <2>6, <2>7, BeginInv
<1>5. CASE BeginReset(r)
  <2>1. PICK x \in Resets, p \in Passwords :
          /\ resets[x] # None /\ ~resets[x].used
          /\ Begin(r, "reset", "flush", resets[x].user, x, None, p, None, 0)
    BY <1>5 DEF BeginReset
  <2> DEFINE s == [handler |-> "reset", pc |-> "flush", user |-> resets[x].user,
                   target |-> x, row |-> None, password |-> p,
                   name |-> None, expires |-> 0, doomed |-> {},
                   held |-> {}]
  <2>2. resets[x] \in ResetRow
    BY <2>1
  <2>3. s \in Session
    BY <2>2 DEF Session, ResetRow
  <2>4. KnowsReset(s, {}) /\ users[resets[x].user] # None
    BY <2>1, <2>2 DEF KnowsReset, ResetsHaveUsers
  <2>5. WellFormed(s) /\ Knows(s, {})
    BY <2>2, <2>4 DEF WellFormed, Knows, ResetRow
  <2>6. request[r] = None /\ request' = [request EXCEPT ![r] = s]
        /\ UNCHANGED <<clock, tables, loggedOut, raced, races>>
    BY <2>1
  <2>7. s.handler # "register"
    OBVIOUS
  <2> HIDE DEF s
  <2> QED
    BY <2>3, <2>5, <2>6, <2>7, BeginInv
<1>6. CASE BeginProfile(r)
  <2>1. PICK u \in UserIds, n \in Names :
          /\ users[u] # None
          /\ Begin(r, "profile", "commit", u, None, users[u], None, n, 0)
    BY <1>6 DEF BeginProfile
  <2> DEFINE s == [handler |-> "profile", pc |-> "commit", user |-> u,
                   target |-> None, row |-> users[u], password |-> None,
                   name |-> n, expires |-> 0, doomed |-> {},
                   held |-> {}]
  <2>2. users[u] \in UserRow
    BY <2>1
  <2>3. s \in Session
    BY <2>2 DEF Session
  <2>4. WellFormed(s) /\ Knows(s, {})
    BY <2>1, <2>2 DEF WellFormed, Knows
  <2>5. request[r] = None /\ request' = [request EXCEPT ![r] = s]
        /\ UNCHANGED <<clock, tables, loggedOut, raced, races>>
    BY <2>1
  <2>6. s.handler # "register"
    OBVIOUS
  <2> HIDE DEF s
  <2> QED
    BY <2>3, <2>4, <2>5, <2>6, BeginInv
<1> QED
  BY <1>1, <1>2, <1>3, <1>4, <1>5, <1>6 DEF BeginRequest
------------------------------------------------------------------------------
(* A commit that makes no new row. *)
LEMMA NothingNewInv ==
  ASSUME IInv, NEW r \in Requests,
         NEW S \in SUBSET (UserIds \cup Tokens \cup Resets), Committed(r, S),
         UsersKept(S), TokensKept(S), ResetsKept(S),
         \A u \in UserIds : users[u] = None => users'[u] = None,
         \A t \in Tokens : tokens[t] = None => tokens'[t] = None,
         \A x \in Resets : resets[x] = None => resets'[x] = None
  PROVE  /\ SessionsKnow' /\ FlushedIsFree' /\ OneAccountPerAddress'
         /\ ResetsHaveUsers' /\ LinesInOrder' /\ SplitsNeedRace'
         /\ TokensKept(Tokens)
<1>1. SessionsKnow'
  BY CommitKeepsSessions
<1>2. UsersKept(UserIds) /\ TokensKept(Tokens) /\ ResetsKept(Resets)
  BY DEF UsersKept, TokensKept, ResetsKept
<1>3. races \subseteq races'
  BY DEF Committed
<1>4. \A q \in Requests : request'[q] # None => request'[q] = request[q]
  BY DEF Committed, IInv, TypeOK
<1> QED
  BY <1>1, <1>2, <1>3, <1>4, AddressesInv, ResetsInv, LinesInv

(* The requests that end without writing a row that the ghosts watch. *)
LEMMA QuietInv ==
  ASSUME IInv, NEW r \in Requests, FailRegister(r) \/ Abort(r) \/ CommitProfile(r)
  PROVE  IInv'
<1>1. /\ Committed(r, {})
      /\ UNCHANGED <<clock, tokens, resets, loggedOut>>
  BY DEF FailRegister, Abort, CommitProfile, tables
<1>2. /\ users' \in [UserIds -> UserRow \cup {None}]
      /\ \A u \in UserIds : users[u] # None =>
           /\ users'[u] # None /\ users'[u].email = users[u].email
           /\ users'[u].password = users[u].password
      /\ \A u \in UserIds : users[u] = None => users'[u] = None
  <2>1. CASE CommitProfile(r)
    <3>1. PICK s \in Session : s = request[r]
      BY <2>1 DEF CommitProfile, Open, IInv, TypeOK
    <3>2. /\ s.user \in UserIds /\ users[s.user] # None
          /\ s.row \in UserRow /\ s.name \in Names
      BY <2>1, <3>1 DEF CommitProfile, Open, IInv, SessionsKnow, WellFormed, Knows
    <3>3. PICK old \in UserRow : old = users[s.user]
      BY <3>2 DEF IInv, TypeOK
    <3>4. PICK name \in Names : name = Assign(old.name, s.row.name, s.name)
      BY <3>2 DEF Assign, UserRow
    <3>5. [old EXCEPT !.name = name] =
            [email |-> old.email, password |-> old.password, name |-> name]
      BY DEF UserRow
    <3>6. users' = [users EXCEPT ![s.user] = [old EXCEPT !.name = name]]
      BY <2>1, <3>1, <3>2, <3>3, <3>4 DEF CommitProfile, IInv, TypeOK
    <3>7. [old EXCEPT !.name = name] \in UserRow
      BY <3>5 DEF UserRow
    <3> QED
      BY <3>2, <3>3, <3>5, <3>6, <3>7 DEF IInv, TypeOK
  <2>2. CASE users' = users
    BY <2>2 DEF IInv, TypeOK
  <2> QED
    BY <2>1, <2>2 DEF FailRegister, Abort, tables
<1>3. UsersKept({}) /\ TokensKept({}) /\ ResetsKept({})
  BY <1>1, <1>2 DEF UsersKept, TokensKept, ResetsKept
<1>4. TypeOK'
  BY <1>1, <1>2, CommitTypes DEF IInv, TypeOK
<1>5. races \subseteq races'
  BY <1>1 DEF Committed
<1>6. /\ SessionsKnow' /\ FlushedIsFree' /\ OneAccountPerAddress'
      /\ ResetsHaveUsers' /\ LinesInOrder' /\ SplitsNeedRace'
      /\ TokensKept(Tokens)
  BY <1>1, <1>2, <1>3, NothingNewInv
<1>7. LogoutsLast' /\ OldSessionNeedsRace'
  BY <1>1, <1>2, <1>5, <1>6, LogoutsInv, OldSessionsInv
<1> QED
  BY <1>4, <1>6, <1>7 DEF IInv

(* The flush inserts an address that is free and that no other request has *)
(* inserted, or fails.                                                     *)
LEMMA FlushRegisterInv ==
  ASSUME IInv, NEW r \in Requests, FlushRegister(r)
  PROVE  IInv'
<1>1. PICK s \in Session : s = request[r]
  BY DEF FlushRegister, Open, IInv, TypeOK
<1>0. PICK t : t = [s EXCEPT !.pc = IF AddressTaken(s.row.email) THEN "error"
                                    ELSE "commit"]
  OBVIOUS
<1>2. /\ request' = [request EXCEPT ![r] = t]
      /\ UNCHANGED <<clock, tables, loggedOut, raced, races>>
      /\ s.handler = "register" /\ ~AddressLocked(r, s.row.email)
  BY <1>0, <1>1 DEF FlushRegister, Open, IInv, TypeOK
<1>3. /\ t \in Session /\ t.handler = "register" /\ t.row = s.row
      /\ t.pc = "commit" => ~AddressTaken(s.row.email)
  BY <1>0, <1>2 DEF Session
<1>4. TypeOK'
  BY <1>2, <1>3 DEF IInv, TypeOK, tables
<1>5. \A q \in Requests : request'[q] = IF q = r THEN t ELSE request[q]
  BY <1>2 DEF IInv, TypeOK
<1>6. WellFormed(t) /\ Knows(t, raced[r])'
  BY <1>1, <1>2, <1>3 DEF IInv, SessionsKnow, WellFormed, Knows, FlushRegister, Open
<1>7. ASSUME NEW q \in Requests, request'[q] # None
      PROVE  (WellFormed(request[q]) /\ Knows(request[q], raced[q]))'
  <2>1. CASE q = r
    BY <1>5, <1>6, <2>1 DEF WellFormed, Knows
  <2>2. CASE q # r
    BY <1>2, <1>5, <1>7, <2>2, Bystander
    DEF UsersKept, TokensKept, ResetsKept, tables
  <2> QED
    BY <2>1, <2>2
<1>8. FlushedIsFree'
  <2> SUFFICES ASSUME NEW q \in Requests, Open(q, "register", "commit")'
               PROVE  /\ ~AddressTaken(request'[q].row.email)
                      /\ \A p \in Requests \ {q} :
                           ~(Open(p, "register", "commit")'
                               /\ request'[p].row.email = request'[q].row.email)
    BY <1>2 DEF FlushedIsFree, AddressLocked, AddressTaken, tables
  <2>1. \A p \in Requests \ {r} :
          Open(p, "register", "commit")' =>
            Open(p, "register", "commit") /\ request'[p].row.email # s.row.email
    BY <1>2, <1>5 DEF Open, AddressLocked
  <2>2. CASE q = r
    <3>1. request'[q].row = s.row /\ ~AddressTaken(s.row.email)
      BY <1>3, <1>5, <2>2 DEF Open
    <3> QED
      BY <2>1, <2>2, <3>1
  <2>3. CASE q # r
    <3>1. /\ Open(q, "register", "commit") /\ request'[q] = request[q]
          /\ request'[q].row.email # s.row.email
      BY <1>5, <2>1, <2>3
    <3>2. /\ ~AddressTaken(request[q].row.email)
          /\ ~AddressLocked(q, request[q].row.email)
      BY <3>1 DEF IInv, FlushedIsFree
    <3>3. ASSUME NEW p \in Requests \ {q}, Open(p, "register", "commit")'
          PROVE  request'[p].row.email # request'[q].row.email
      <4>1. CASE p = r
        BY <1>3, <1>5, <3>1, <4>1
      <4>2. CASE p # r
        BY <1>5, <2>1, <3>1, <3>2, <3>3, <4>2 DEF AddressLocked
      <4> QED
        BY <4>1, <4>2
    <3> QED
      BY <3>1, <3>2, <3>3
  <2> QED
    BY <2>2, <2>3
<1>9. /\ OneAccountPerAddress' /\ ResetsHaveUsers' /\ LinesInOrder'
      /\ SplitsNeedRace' /\ LogoutsLast' /\ OldSessionNeedsRace'
  BY <1>2 DEF tables, IInv, OneAccountPerAddress, ResetsHaveUsers, LinesInOrder,
              SplitsNeedRace, LogoutsLast, OldSessionNeedsRace, LiveToken, LostWrite
<1> QED
  BY <1>4, <1>7, <1>8, <1>9 DEF IInv, SessionsKnow
------------------------------------------------------------------------------
(* A user is made: the address was free, and locked by this request.       *)
LEMMA CommitRegisterInv ==
  ASSUME IInv, NEW r \in Requests, CommitRegister(r)
  PROVE  IInv'
<1>1. PICK s \in Session : s = request[r]
  BY DEF CommitRegister, Open, IInv, TypeOK
<1>2. /\ Open(r, "register", "commit") /\ s.handler = "register"
      /\ s.row \in UserRow /\ s.row.email = Lower[s.row.email]
      /\ ~AddressTaken(s.row.email) /\ ~AddressLocked(r, s.row.email)
  BY <1>1 DEF CommitRegister, Open, IInv, SessionsKnow, WellFormed, FlushedIsFree
<1>3. PICK u \in UserIds :
        /\ users[u] = None /\ users' = [users EXCEPT ![u] = s.row]
        /\ Committed(r, {u})
        /\ UNCHANGED <<clock, tokens, resets, loggedOut>>
  BY <1>1 DEF CommitRegister
<1>4. \A v \in UserIds : users'[v] = IF v = u THEN s.row ELSE users[v]
  BY <1>3 DEF IInv, TypeOK
<1>5. s.row # None
  BY <1>2
<1>6. TypeOK'
  BY <1>2, <1>3, CommitTypes DEF IInv, TypeOK
<1>7. /\ UsersKept({u}) /\ UsersKept(UserIds) /\ TokensKept({u}) /\ TokensKept(Tokens)
      /\ ResetsKept({u}) /\ ResetsKept(Resets)
  BY <1>3, <1>4 DEF UsersKept, TokensKept, ResetsKept
<1>8. SessionsKnow'
  BY <1>3, <1>7, CommitKeepsSessions
<1>9. races \subseteq races'
  BY <1>3 DEF Committed
<1>10. \A q \in Requests : request'[q] # None => q # r /\ request'[q] = request[q]
  BY <1>3 DEF Committed, IInv, TypeOK
<1>11. FlushedIsFree'
  <2> SUFFICES ASSUME NEW q \in Requests, Open(q, "register", "commit")'
               PROVE  ~AddressTaken(request[q].row.email)'
                        /\ ~AddressLocked(q, request[q].row.email)'
    BY DEF FlushedIsFree
  <2>1. /\ q # r /\ request'[q] = request[q] /\ Open(q, "register", "commit")
    BY <1>10 DEF Open
  <2>2. request[q].row.email # s.row.email
    BY <1>2, <2>1 DEF AddressLocked
  <2>3. ~AddressTaken(request[q].row.email) /\ ~AddressLocked(q, request[q].row.email)
    BY <2>1 DEF IInv, FlushedIsFree
  <2>4. ~AddressTaken(request[q].row.email)'
    BY <1>4, <2>1, <2>2, <2>3 DEF AddressTaken
  <2>5. ~AddressLocked(q, request[q].row.email)'
    BY <1>10, <2>1, <2>3 DEF AddressLocked, Open
  <2> QED
    BY <2>4, <2>5
<1>12. OneAccountPerAddress'
  BY <1>2, <1>4 DEF IInv, OneAccountPerAddress, AddressTaken
<1>13. ResetsHaveUsers' /\ LinesInOrder' /\ SplitsNeedRace' /\ LogoutsLast'
  BY <1>3, <1>7, <1>9, ResetsInv, LinesInv, LogoutsInv
<1>14. OldSessionNeedsRace'
  BY <1>3, <1>4, <1>7, <1>9, OldSessionsInv
<1> QED
  BY <1>6, <1>8, <1>11, <1>12, <1>13, <1>14 DEF IInv
------------------------------------------------------------------------------
(* Commits that revoke one token. *)
LEMMA RevokeInv ==
  ASSUME IInv, NEW r \in Requests, ExpireToken(r) \/ CommitLogout(r)
  PROVE  IInv'
<1>1. PICK s \in Session : s = request[r]
  BY DEF ExpireToken, CommitLogout, Open, IInv, TypeOK
<1>2. /\ s.target \in Tokens /\ tokens[s.target] # None
      /\ s.target \notin raced[r] => ~tokens[s.target].revoked
  BY <1>1 DEF ExpireToken, CommitLogout, Open, IInv, SessionsKnow, WellFormed,
              Knows, KnowsToken
<1>3. PICK t \in Tokens : t = s.target
  BY <1>2
<1>4. PICK row \in TokenRow : row = tokens[t]
  BY <1>2, <1>3 DEF IInv, TypeOK
<1>5. PICK new : new = [row EXCEPT !.revoked = TRUE]
  OBVIOUS
<1>6. /\ tokens' = [tokens EXCEPT ![t] = new]
      /\ Committed(r, {t})
      /\ UNCHANGED <<clock, users, resets>>
      /\ loggedOut' = loggedOut \/ loggedOut' = loggedOut \cup {t}
  BY <1>1, <1>3, <1>4, <1>5 DEF ExpireToken, CommitLogout, IInv, TypeOK
<1>7. /\ new \in TokenRow /\ new # None /\ new.revoked
      /\ new.user = row.user /\ new.line = row.line /\ new.password = row.password
  BY <1>5 DEF TokenRow
<1>8. \A x \in Tokens : tokens'[x] = IF x = t THEN new ELSE tokens[x]
  BY <1>6 DEF IInv, TypeOK
<1>9. TypeOK'
  BY <1>6, <1>7, CommitTypes DEF IInv, TypeOK
<1>10. UsersKept({t}) /\ TokensKept({t}) /\ ResetsKept({t})
  BY <1>4, <1>6, <1>7, <1>8 DEF UsersKept, TokensKept, ResetsKept
<1>11. races \subseteq races'
  BY <1>6 DEF Committed
<1>12. \A x \in Tokens : tokens[x] = None => tokens'[x] = None
  BY <1>2, <1>3, <1>8
<1>13. /\ SessionsKnow' /\ FlushedIsFree' /\ OneAccountPerAddress'
       /\ ResetsHaveUsers' /\ LinesInOrder' /\ SplitsNeedRace'
       /\ TokensKept(Tokens)
  BY <1>6, <1>10, <1>12, NothingNewInv
<1>14. OldSessionNeedsRace'
  BY <1>6, <1>11, <1>12, <1>13, OldSessionsInv
<1>15. LogoutsLast'
  <2>1. \A x \in loggedOut' : tokens'[x] # None /\ tokens'[x].revoked
    BY <1>6, <1>7, <1>8, <1>13 DEF IInv, LogoutsLast, TokensKept, TypeOK
  <2>2. ASSUME NEW x \in Tokens, NEW y \in loggedOut',
               tokens'[x] # None, y \in tokens'[x].line, y # x
        PROVE  LostWrite(y)'
    <3>1. tokens[x] # None /\ tokens[x].line = tokens'[x].line
      BY <1>12, <1>13, <2>2 DEF TokensKept
    <3>2. CASE y \in loggedOut
      BY <1>11, <2>2, <3>1, <3>2 DEF IInv, LogoutsLast, LostWrite
    <3>3. CASE y = t
      <4>1. tokens[t].revoked
        BY <2>2, <3>1, <3>3 DEF IInv, LinesInOrder
      <4>2. {t, t} \in races'
        BY <1>2, <1>3, <1>6, <4>1 DEF Committed
      <4> QED
        BY <3>3, <4>2 DEF LostWrite
    <3> QED
      BY <1>6, <3>2, <3>3
  <2> QED
    BY <2>1, <2>2 DEF LogoutsLast
<1> QED
  BY <1>9, <1>13, <1>14, <1>15 DEF IInv
------------------------------------------------------------------------------
(* Login starts a line of its own. *)
LEMMA CommitLoginInv ==
  ASSUME IInv, NEW r \in Requests, CommitLogin(r)
  PROVE  IInv'
<1>1. PICK s \in Session : s = request[r]
  BY DEF CommitLogin, Open, IInv, TypeOK
<1>2. /\ s.user \in UserIds /\ users[s.user] # None /\ s.password \in Passwords
      /\ s.expires \in Nat
      /\ s.user \notin raced[r] => users[s.user].password = s.password
  BY <1>1 DEF CommitLogin, Open, IInv, SessionsKnow, WellFormed, Knows, Session
<1>3. PICK t \in Tokens :
        /\ tokens[t] = None
        /\ tokens' = [tokens EXCEPT ![t] =
             [user |-> s.user, expires |-> s.expires, revoked |-> FALSE,
              line |-> {t}, password |-> s.password]]
        /\ Committed(r, {t})
        /\ UNCHANGED <<clock, users, resets, loggedOut>>
  BY <1>1 DEF CommitLogin
<1>4. PICK new : new = [user |-> s.user, expires |-> s.expires, revoked |-> FALSE,
                        line |-> {t}, password |-> s.password]
  OBVIOUS
<1>5. /\ new \in TokenRow /\ new # None /\ new.user = s.user
      /\ new.line = {t} /\ new.password = s.password
  <2>1. new \in TokenRow
    BY <1>2, <1>4 DEF TokenRow
  <2> QED
    BY <1>4, <2>1
<1>6. \A x \in Tokens : tokens'[x] = IF x = t THEN new ELSE tokens[x]
  BY <1>3, <1>4 DEF IInv, TypeOK
<1>7. TypeOK'
  BY <1>3, <1>4, <1>5, CommitTypes DEF IInv, TypeOK
<1>8. UsersKept({t}) /\ TokensKept({t}) /\ ResetsKept({t})
  BY <1>3, <1>6 DEF UsersKept, TokensKept, ResetsKept
<1>9. SessionsKnow'
  BY <1>3, <1>8, CommitKeepsSessions
<1>10. \A q \in Requests : request'[q] # None => request'[q] = request[q]
  BY <1>3 DEF Committed, IInv, TypeOK
<1>11. FlushedIsFree' /\ OneAccountPerAddress' /\ ResetsHaveUsers'
  BY <1>3, <1>10, AddressesInv, ResetsInv DEF UsersKept, ResetsKept
<1>12. \A x \in Tokens : tokens[x] # None =>
         tokens[x].line \subseteq Tokens /\ t \notin tokens[x].line
  BY <1>3 DEF IInv, TypeOK, TokenRow, LinesInOrder
<1>13. LinesInOrder'
  BY <1>2, <1>3, <1>5, <1>6, <1>12 DEF IInv, LinesInOrder
<1>14. \A x : LostWrite(x) => LostWrite(x)'
  BY <1>3 DEF LostWrite, Committed
<1>15. SplitsNeedRace'
  <2> SUFFICES ASSUME NEW x \in Tokens, NEW y \in Tokens,
                      tokens'[x] # None, tokens'[y] # None
               PROVE  \/ x \in tokens'[y].line \/ y \in tokens'[x].line
                      \/ tokens'[x].line \cap tokens'[y].line = {}
                      \/ \E z \in tokens'[x].line \cap tokens'[y].line : LostWrite(z)'
    BY DEF SplitsNeedRace
  <2>1. CASE x = t \/ y = t
    BY <1>5, <1>6, <1>12, <2>1
  <2>2. CASE x # t /\ y # t
    BY <1>6, <1>14, <2>2 DEF IInv, SplitsNeedRace
  <2> QED
    BY <2>1, <2>2
<1>16. LogoutsLast'
  <2>1. loggedOut \subseteq Tokens /\ loggedOut' = loggedOut
    BY <1>3 DEF IInv, TypeOK
  <2> QED
    BY <1>3, <1>5, <1>6, <1>14, <2>1 DEF IInv, LogoutsLast
<1>17. OldSessionNeedsRace'
  <2> SUFFICES ASSUME NEW x \in Tokens, LiveToken(x)'
               PROVE  \/ tokens'[x].password = users'[tokens'[x].user].password
                      \/ \E y \in tokens'[x].line : {y, tokens'[x].user} \in races'
    BY DEF OldSessionNeedsRace
  <2>1. CASE x = t
    <3>1. s.user \in raced[r] => {t, s.user} \in races'
      BY <1>3 DEF Committed
    <3> QED
      BY <1>2, <1>3, <1>5, <1>6, <2>1, <3>1
  <2>2. CASE x # t
    <3>1. LiveToken(x) /\ tokens'[x] = tokens[x]
      BY <1>6, <2>2 DEF LiveToken
    <3>2. \/ tokens[x].password = users[tokens[x].user].password
          \/ \E y \in tokens[x].line : {y, tokens[x].user} \in races
      BY <3>1 DEF IInv, OldSessionNeedsRace
    <3>3. races \subseteq races'
      BY <1>3 DEF Committed
    <3> QED
      BY <1>3, <3>1, <3>2, <3>3
  <2> QED
    BY <2>1, <2>2
<1> QED
  BY <1>7, <1>9, <1>11, <1>13, <1>15, <1>16, <1>17 DEF IInv

(* An heir takes its place at the end of the line of the token it was      *)
(* exchanged for, which the same commit revokes.                           *)
LEMMA CommitRefreshInv ==
  ASSUME IInv, NEW r \in Requests, CommitRefresh(r)
  PROVE  IInv'
<1>1. PICK s \in Session : s = request[r]
  BY DEF CommitRefresh, Open, IInv, TypeOK
<1>2. /\ s.target \in Tokens /\ s.user \in UserIds /\ s.password \in Passwords
      /\ s.expires \in Nat /\ users[s.user] # None
      /\ tokens[s.target] # None /\ tokens[s.target].user = s.user
      /\ tokens[s.target].password = s.password
      /\ s.target \notin raced[r] => ~tokens[s.target].revoked
      /\ PasswordKept(s.target) \/ s.user \in raced[r]
  BY <1>1 DEF CommitRefresh, Open, IInv, SessionsKnow, WellFormed, Knows,
              KnowsToken, Session
<1>3. PICK o \in Tokens : o = s.target
  BY <1>2
<1>4. PICK was \in TokenRow : was = tokens[o]
  BY <1>2, <1>3 DEF IInv, TypeOK
<1>5. PICK t \in Tokens :
        /\ tokens[t] = None
        /\ tokens' = [tokens EXCEPT
             ![s.target].revoked = TRUE,
             ![t] = [user |-> s.user, expires |-> s.expires, revoked |-> FALSE,
                     line |-> tokens[s.target].line \cup {t},
                     password |-> s.password]]
        /\ Committed(r, {s.target, t})
        /\ UNCHANGED <<clock, users, resets, loggedOut>>
  BY <1>1 DEF CommitRefresh
<1>6. PICK old : old = [was EXCEPT !.revoked = TRUE]
  OBVIOUS
<1>7. PICK new : new = [user |-> s.user, expires |-> s.expires, revoked |-> FALSE,
                        line |-> was.line \cup {t}, password |-> s.password]
  OBVIOUS
<1>8. /\ old \in TokenRow /\ old # None /\ old.revoked /\ old.user = was.user
      /\ old.line = was.line /\ old.password = was.password
      /\ new \in TokenRow /\ new # None /\ new.user = s.user
      /\ new.line = was.line \cup {t} /\ new.password = s.password
  <2>1. old \in TokenRow
    BY <1>6 DEF TokenRow
  <2>2. new \in TokenRow
    BY <1>2, <1>7 DEF TokenRow
  <2>3. /\ old.revoked /\ old.user = was.user /\ old.line = was.line
        /\ old.password = was.password
    BY <1>6 DEF TokenRow
  <2> QED
    BY <1>7, <2>1, <2>2, <2>3
<1>9. o # t /\ was # None
  BY <1>2, <1>3, <1>4, <1>5
<1>10. \A x \in Tokens :
         tokens'[x] = IF x = t THEN new ELSE IF x = o THEN old ELSE tokens[x]
  BY <1>3, <1>4, <1>5, <1>6, <1>7, <1>9 DEF IInv, TypeOK
<1>11. tokens' \in [Tokens -> TokenRow \cup {None}]
  <2>1. tokens' = [x \in Tokens |-> tokens'[x]]
    BY <1>5 DEF IInv, TypeOK
  <2>2. \A x \in Tokens : tokens'[x] \in TokenRow \cup {None}
    BY <1>8, <1>10 DEF IInv, TypeOK
  <2> QED
    BY <2>1, <2>2
<1>12. Committed(r, {o, t})
  BY <1>3, <1>5
<1>13. TypeOK'
  <2> DEFINE S == {o, t}
  <2>1. S \in SUBSET (UserIds \cup Tokens \cup Resets) /\ Committed(r, S)
    BY <1>12
  <2> HIDE DEF S
  <2>2. /\ request' \in [Requests -> Session \cup {None}]
        /\ raced' \in [Requests -> SUBSET (UserIds \cup Tokens \cup Resets)]
        /\ races' \subseteq SUBSET (UserIds \cup Tokens \cup Resets)
    BY <2>1, CommitTypes DEF IInv
  <2> QED
    BY <1>5, <1>11, <2>2 DEF IInv, TypeOK
<1>14. UsersKept({o, t}) /\ TokensKept({o, t}) /\ ResetsKept({o, t})
  BY <1>4, <1>5, <1>8, <1>9, <1>10 DEF UsersKept, TokensKept, ResetsKept
<1>15. SessionsKnow'
  BY <1>12, <1>14, CommitKeepsSessions
<1>16. \A q \in Requests : request'[q] # None => request'[q] = request[q]
  BY <1>12 DEF Committed, IInv, TypeOK
<1>17. FlushedIsFree' /\ OneAccountPerAddress' /\ ResetsHaveUsers'
  BY <1>5, <1>16, AddressesInv, ResetsInv DEF UsersKept, ResetsKept
<1>18. \A x \in Tokens : tokens[x] # None =>
         /\ tokens[x].line \subseteq Tokens /\ t \notin tokens[x].line
         /\ x \in tokens[x].line
  BY <1>5 DEF IInv, TypeOK, TokenRow, LinesInOrder
<1>19. \A x : LostWrite(x) => LostWrite(x)'
  BY <1>12 DEF LostWrite, Committed
<1>20. was.revoked => LostWrite(o)'
  <2>1. was.revoked => {o, o} \in races'
    BY <1>2, <1>3, <1>4, <1>12 DEF Committed
  <2> QED
    BY <2>1 DEF LostWrite
<1>21. LinesInOrder'
  <2> SUFFICES ASSUME NEW x \in Tokens, tokens'[x] # None
               PROVE  /\ users'[tokens'[x].user] # None
                      /\ x \in tokens'[x].line
                      /\ \A y \in tokens'[x].line :
                           tokens'[y] # None /\ (y = x \/ tokens'[y].revoked)
    BY DEF LinesInOrder
  <2>1. CASE x = t
    <3>1. \A y \in was.line : tokens[y] # None /\ (y = o \/ tokens[y].revoked)
      BY <1>2, <1>3, <1>4 DEF IInv, LinesInOrder
    <3>2. tokens'[x].line = was.line \cup {t} /\ tokens'[x].user = s.user
      BY <1>8, <1>10, <2>1
    <3>3. ASSUME NEW y \in was.line
          PROVE  tokens'[y] # None /\ (y = t \/ tokens'[y].revoked)
      <4>1. y \in Tokens
        BY DEF TokenRow
      <4> QED
        BY <1>8, <1>10, <3>1, <4>1
    <3> QED
      BY <1>2, <1>5, <1>8, <1>10, <2>1, <3>2, <3>3
  <2>2. CASE x # t
    <3>1. tokens[x] # None /\ tokens'[x].line = tokens[x].line
          /\ tokens'[x].user = tokens[x].user
      BY <1>4, <1>8, <1>9, <1>10, <2>2
    <3>2. /\ users[tokens[x].user] # None /\ x \in tokens[x].line
          /\ \A y \in tokens[x].line : tokens[y] # None /\ (y = x \/ tokens[y].revoked)
      BY <3>1 DEF IInv, LinesInOrder
    <3>3. ASSUME NEW y \in tokens[x].line
          PROVE  tokens'[y] # None /\ (y = x \/ tokens'[y].revoked)
      <4>1. y \in Tokens /\ y # t
        BY <1>18, <3>1
      <4> QED
        BY <1>8, <1>10, <3>2, <4>1
    <3> QED
      BY <1>5, <3>1, <3>2, <3>3
  <2> QED
    BY <2>1, <2>2
<1>22. SplitsNeedRace'
  <2>1. ASSUME NEW x \in Tokens, tokens[x] # None
        PROVE  \/ t \in tokens[x].line \/ x \in was.line \cup {t}
               \/ tokens[x].line \cap (was.line \cup {t}) = {}
               \/ \E z \in tokens[x].line \cap was.line : LostWrite(z)'
    <3>1. t \notin tokens[x].line /\ tokens[o] # None
      BY <1>2, <1>3, <1>18, <2>1
    <3>2. CASE o \in tokens[x].line /\ x # o
      <4>1. tokens[o].revoked
        BY <2>1, <3>2 DEF IInv, LinesInOrder
      <4>2. o \in was.line
        BY <1>4, <1>18, <3>1
      <4> QED
        BY <1>4, <1>20, <3>2, <4>1, <4>2
    <3>3. CASE x = o
      BY <1>4, <1>18, <2>1, <3>3
    <3>4. CASE o \notin tokens[x].line
      <4>1. \/ x \in was.line
            \/ tokens[x].line \cap was.line = {}
            \/ \E z \in tokens[x].line \cap was.line : LostWrite(z)
        BY <1>4, <2>1, <3>1, <3>4 DEF IInv, SplitsNeedRace
      <4> QED
        BY <1>19, <3>1, <4>1
    <3> QED
      BY <3>2, <3>3, <3>4
  <2> SUFFICES ASSUME NEW x \in Tokens, NEW y \in Tokens,
                      tokens'[x] # None, tokens'[y] # None
               PROVE  \/ x \in tokens'[y].line \/ y \in tokens'[x].line
                      \/ tokens'[x].line \cap tokens'[y].line = {}
                      \/ \E z \in tokens'[x].line \cap tokens'[y].line : LostWrite(z)'
    BY DEF SplitsNeedRace
  <2>2. \A z \in Tokens : z # t /\ tokens'[z] # None =>
          tokens[z] # None /\ tokens'[z].line = tokens[z].line
    BY <1>4, <1>8, <1>9, <1>10
  <2>3. tokens'[t].line = was.line \cup {t} /\ t \in tokens'[t].line
    BY <1>8, <1>10
  <2>4. CASE x = t /\ y = t
    BY <2>3, <2>4
  <2>5. CASE x = t /\ y # t
    BY <2>1, <2>2, <2>3, <2>5
  <2>6. CASE x # t /\ y = t
    BY <2>1, <2>2, <2>3, <2>6
  <2>7. CASE x # t /\ y # t
    BY <1>19, <2>2, <2>7 DEF IInv, SplitsNeedRace
  <2> QED
    BY <2>4, <2>5, <2>6, <2>7
<1>23. LogoutsLast'
  <2>1. loggedOut \subseteq Tokens /\ loggedOut' = loggedOut
    BY <1>5 DEF IInv, TypeOK
  <2>2. \A x \in loggedOut : tokens[x] # None /\ tokens[x].revoked /\ x # t
    BY <1>5 DEF IInv, LogoutsLast
  <2>3. \A x \in loggedOut : tokens'[x] # None /\ tokens'[x].revoked
    BY <1>8, <1>10, <2>1, <2>2
  <2>4. ASSUME NEW y \in Tokens, NEW x \in loggedOut,
               tokens'[y] # None, x \in tokens'[y].line, x # y
        PROVE  LostWrite(x)'
    <3>1. CASE y = t
      <4>1. x \in was.line
        BY <1>8, <1>10, <2>4, <3>1
      <4>2. CASE x = o
        BY <1>4, <1>20, <2>2, <4>2
      <4>3. CASE x # o
        <5>1. tokens[o] # None /\ x \in tokens[o].line
          BY <1>2, <1>3, <1>4, <4>1
        <5>2. LostWrite(x)
          BY <4>3, <5>1 DEF IInv, LogoutsLast
        <5> QED
          BY <1>19, <5>2
      <4> QED
        BY <4>2, <4>3
    <3>2. CASE y # t
      <4>1. tokens[y] # None /\ tokens'[y].line = tokens[y].line
        BY <1>4, <1>8, <1>9, <1>10, <2>4, <3>2
      <4>2. LostWrite(x)
        BY <2>4, <4>1 DEF IInv, LogoutsLast
      <4> QED
        BY <1>19, <4>2
    <3> QED
      BY <3>1, <3>2
  <2> QED
    BY <2>1, <2>3, <2>4 DEF LogoutsLast
<1>24. OldSessionNeedsRace'
  <2> SUFFICES ASSUME NEW x \in Tokens, LiveToken(x)'
               PROVE  \/ tokens'[x].password = users'[tokens'[x].user].password
                      \/ \E y \in tokens'[x].line : {y, tokens'[x].user} \in races'
    BY DEF OldSessionNeedsRace
  <2>0. races \subseteq races'
    BY <1>12 DEF Committed
  <2>1. CASE x = t
    <3>1. s.user \in raced[r] => {t, s.user} \in races'
      BY <1>12 DEF Committed
    <3>2. PasswordKept(o) => \/ s.password = users[s.user].password
                             \/ \E y \in was.line : {y, s.user} \in races
      BY <1>2, <1>3, <1>4 DEF PasswordKept
    <3> QED
      BY <1>2, <1>3, <1>5, <1>8, <1>10, <2>0, <2>1, <3>1, <3>2
  <2>2. CASE x # t
    <3>1. LiveToken(x) /\ tokens'[x] = tokens[x]
      BY <1>8, <1>10, <2>2 DEF LiveToken
    <3>2. \/ tokens[x].password = users[tokens[x].user].password
          \/ \E y \in tokens[x].line : {y, tokens[x].user} \in races
      BY <3>1 DEF IInv, OldSessionNeedsRace
    <3> QED
      BY <1>5, <2>0, <3>1, <3>2
  <2> QED
    BY <2>1, <2>2
<1> QED
  BY <1>13, <1>15, <1>17, <1>21, <1>22, <1>23, <1>24 DEF IInv
------------------------------------------------------------------------------
LEMMA RequestPasswordResetInv ==
  ASSUME IInv, RequestPasswordReset
  PROVE  IInv'
<1>1. PICK u \in UserIds, x \in Resets :
        /\ users[u] # None /\ resets[x] = None
        /\ resets' = [resets EXCEPT ![x] =
             [user |-> u, expires |-> clock + ResetTtl, used |-> FALSE]]
        /\ UNCHANGED <<clock, users, tokens, loggedOut, sessions>>
  BY DEF RequestPasswordReset
<1>2. PICK new : new = [user |-> u, expires |-> clock + ResetTtl, used |-> FALSE]
  OBVIOUS
<1>3. new \in ResetRow /\ new.user = u
  BY <1>2 DEF ResetRow, IInv, TypeOK
<1>4. \A y \in Resets : resets'[y] = IF y = x THEN new ELSE resets[y]
  BY <1>1, <1>2 DEF IInv, TypeOK
<1>5. TypeOK'
  BY <1>1, <1>2, <1>3 DEF IInv, TypeOK, sessions
<1>6. ResetsHaveUsers'
  BY <1>1, <1>3, <1>4 DEF IInv, ResetsHaveUsers
<1>7. ASSUME NEW q \in Requests, request'[q] # None
      PROVE  (WellFormed(request[q]) /\ Knows(request[q], raced[q]))'
  <2>1. /\ request'[q] = request[q] /\ request[q] # None
        /\ raced[q] \subseteq raced'[q] /\ races \subseteq races'
    BY <1>1, <1>7 DEF sessions
  <2>2. UsersKept(raced'[q]) /\ TokensKept(raced'[q]) /\ ResetsKept(raced'[q])
    BY <1>1, <1>4 DEF UsersKept, TokensKept, ResetsKept
  <2> QED
    BY <2>1, <2>2, Bystander
<1>8. UNCHANGED <<users, tokens, loggedOut, request, raced, races>>
  BY <1>1 DEF sessions
<1>9. FlushedIsFree' /\ OneAccountPerAddress'
  BY <1>8 DEF IInv, FlushedIsFree, Open, AddressTaken, AddressLocked,
              OneAccountPerAddress
<1>10. LinesInOrder' /\ LogoutsLast'
  BY <1>8 DEF IInv, LinesInOrder, LogoutsLast, LostWrite
<1>11. SplitsNeedRace'
  BY <1>8 DEF IInv, SplitsNeedRace, LostWrite
<1>12. OldSessionNeedsRace'
  BY <1>8 DEF IInv, OldSessionNeedsRace, LiveToken
<1> QED
  BY <1>5, <1>6, <1>7, <1>9, <1>10, <1>11, <1>12 DEF IInv, SessionsKnow

(* The SELECT of the live tokens: from here on, one that is not among them *)
(* is younger.                                                             *)
LEMMA ReadLiveTokensInv ==
  ASSUME IInv, NEW r \in Requests, ReadLiveTokens(r)
  PROVE  IInv'
<1>1. PICK s \in Session : s = request[r]
  BY DEF ReadLiveTokens, Open, IInv, TypeOK
<1>2. PICK live : live = {t \in Tokens : LiveToken(t) /\ tokens[t].user = s.user}
  OBVIOUS
<1>3. PICK n : n = [s EXCEPT !.pc = "commit", !.doomed = live]
  OBVIOUS
<1>4. /\ request' = [request EXCEPT ![r] = n]
      /\ UNCHANGED <<clock, users, tokens, resets, loggedOut, raced, races>>
      /\ s.handler = "reset"
  BY <1>1, <1>2, <1>3 DEF ReadLiveTokens, Open, tables, IInv, TypeOK
<1>5. /\ n \in Session /\ n.handler = "reset" /\ n.user = s.user
      /\ n.target = s.target /\ n.password = s.password /\ n.doomed = live
  BY <1>2, <1>3, <1>4 DEF Session
<1>6. TypeOK'
  BY <1>4, <1>5 DEF IInv, TypeOK
<1>7. \A q \in Requests : request'[q] = IF q = r THEN n ELSE request[q]
  BY <1>4 DEF IInv, TypeOK
<1>8. WellFormed(s) /\ Knows(s, raced[r])
  BY <1>1, <1>5 DEF IInv, SessionsKnow, ReadLiveTokens, Open
<1>9. WellFormed(n) /\ Knows(n, raced[r])
  BY <1>2, <1>4, <1>5, <1>8 DEF WellFormed, Knows, KnowsReset, LiveToken
<1>10. ASSUME NEW q \in Requests, request'[q] # None
       PROVE  (WellFormed(request[q]) /\ Knows(request[q], raced[q]))'
  <2>1. CASE q = r
    BY <1>4, <1>7, <1>9, <2>1
    DEF WellFormed, Knows, KnowsToken, KnowsReset, LiveToken, PasswordKept
  <2>2. CASE q # r
    BY <1>4, <1>7, <1>10, <2>2, Bystander DEF UsersKept, TokensKept, ResetsKept
  <2> QED
    BY <2>1, <2>2
<1>11. FlushedIsFree'
  <2>1. \A q \in Requests : Open(q, "register", "commit")' =>
          Open(q, "register", "commit") /\ request'[q] = request[q]
    BY <1>5, <1>7 DEF Open
  <2> QED
    BY <1>4, <2>1 DEF IInv, FlushedIsFree, AddressTaken, AddressLocked
<1>12. /\ OneAccountPerAddress' /\ ResetsHaveUsers' /\ LinesInOrder'
       /\ SplitsNeedRace' /\ LogoutsLast' /\ OldSessionNeedsRace'
  BY <1>4 DEF IInv, OneAccountPerAddress, ResetsHaveUsers, LinesInOrder,
              SplitsNeedRace, LogoutsLast, OldSessionNeedsRace, LiveToken, LostWrite
<1> QED
  BY <1>6, <1>10, <1>11, <1>12 DEF IInv, SessionsKnow

(* A flush takes a lock, and changes nothing that an open request knows.   *)
LEMMA FlushLockInv ==
  ASSUME IInv, NEW r \in Requests, FlushRefresh(r) \/ FlushRevocation(r)
  PROVE  IInv'
<1>1. PICK s \in Session : s = request[r]
  BY DEF FlushRefresh, FlushRevocation, Open, IInv, TypeOK
<1>2. /\ UNCHANGED <<clock, users, tokens, resets, loggedOut, raced, races>>
      /\ s.handler # "register"
  BY <1>1 DEF FlushRefresh, FlushRevocation, Open, tables
<1>3. PICK n \in Session :
        /\ request' = [request EXCEPT ![r] = n]
        /\ n.handler = s.handler /\ n.user = s.user /\ n.target = s.target
        /\ n.row = s.row /\ n.password = s.password /\ n.name = s.name
        /\ n.expires = s.expires /\ n.doomed = s.doomed
        /\ s.handler = "reset" => n.pc = s.pc
  <2>1. CASE FlushRefresh(r)
    <3>1. PICK m : m = [s EXCEPT !.pc = "commit"]
      OBVIOUS
    <3>2. request' = [request EXCEPT ![r] = m] /\ s.handler = "refresh"
      BY <1>1, <2>1, <3>1 DEF FlushRefresh, Open, IInv, TypeOK
    <3> QED
      BY <3>1, <3>2 DEF Session
  <2>2. CASE FlushRevocation(r)
    <3>1. PICK t \in s.doomed :
            request' = [request EXCEPT ![r].held = @ \cup {t}]
      BY <1>1, <2>2 DEF FlushRevocation
    <3>2. PICK m : m = [s EXCEPT !.held = s.held \cup {t}]
      OBVIOUS
    <3>3. request' = [request EXCEPT ![r] = m]
      BY <1>1, <3>1, <3>2 DEF IInv, TypeOK
    <3>4. m \in Session
      BY <3>1, <3>2 DEF Session
    <3> QED
      BY <3>2, <3>3, <3>4 DEF Session
  <2> QED
    BY <2>1, <2>2
<1>4. TypeOK'
  BY <1>2, <1>3 DEF IInv, TypeOK
<1>5. \A q \in Requests : request'[q] = IF q = r THEN n ELSE request[q]
  BY <1>3 DEF IInv, TypeOK
<1>6. WellFormed(s) /\ Knows(s, raced[r])
  BY <1>1 DEF IInv, SessionsKnow, FlushRefresh, FlushRevocation, Open
<1>7. WellFormed(n) /\ Knows(n, raced[r])
  BY <1>3, <1>6 DEF WellFormed, Knows, KnowsToken, KnowsReset
<1>8. ASSUME NEW q \in Requests, request'[q] # None
      PROVE  (WellFormed(request[q]) /\ Knows(request[q], raced[q]))'
  <2>1. CASE q = r
    BY <1>2, <1>5, <1>7, <2>1
    DEF WellFormed, Knows, KnowsToken, KnowsReset, LiveToken, PasswordKept
  <2>2. CASE q # r
    BY <1>2, <1>5, <1>8, <2>2, Bystander DEF UsersKept, TokensKept, ResetsKept
  <2> QED
    BY <2>1, <2>2
<1>9. FlushedIsFree'
  <2>1. \A q \in Requests : Open(q, "register", "commit")' =>
          Open(q, "register", "commit") /\ request'[q] = request[q]
    BY <1>2, <1>3, <1>5 DEF Open
  <2> QED
    BY <1>2, <2>1 DEF IInv, FlushedIsFree, AddressTaken, AddressLocked
<1>10. /\ OneAccountPerAddress' /\ ResetsHaveUsers' /\ LinesInOrder'
       /\ SplitsNeedRace' /\ LogoutsLast' /\ OldSessionNeedsRace'
  BY <1>2 DEF IInv, OneAccountPerAddress, ResetsHaveUsers, LinesInOrder,
              SplitsNeedRace, LogoutsLast, OldSessionNeedsRace, LiveToken, LostWrite
<1> QED
  BY <1>4, <1>8, <1>9, <1>10 DEF IInv, SessionsKnow

(* What the commit of a reset knows. *)
LEMMA ResetSession ==
  ASSUME IInv, NEW r \in Requests, CommitReset(r)
  PROVE  /\ request[r] \in Session /\ request[r].handler = "reset"
         /\ request[r].user \in UserIds /\ users[request[r].user] # None
         /\ request[r].target \in Resets /\ request[r].password \in Passwords
         /\ request[r].doomed \subseteq Tokens
         /\ KnowsReset(request[r], raced[r])
<1>1. PICK s \in Session : s = request[r]
  BY DEF CommitReset, Open, IInv, TypeOK
<1>2. WellFormed(s) /\ Knows(s, raced[r]) /\ s.handler = "reset"
  BY <1>1 DEF CommitReset, Open, IInv, SessionsKnow
<1> QED
  BY <1>1, <1>2 DEF WellFormed, Knows, Session

LEMMA CommitResetInv ==
  ASSUME IInv, NEW r \in Requests, CommitReset(r)
  PROVE  IInv'
<1>1. PICK s \in Session : s = request[r]
  BY ResetSession
<1>2. PICK u \in UserIds : u = s.user
  BY <1>1, ResetSession
<1>3. PICK x \in Resets : x = s.target
  BY <1>1, ResetSession
<1>4. /\ users[u] # None /\ s.password \in Passwords /\ s.doomed \subseteq Tokens
      /\ resets[x] # None /\ resets[x].user = u
      /\ \A t \in s.doomed : tokens[t] # None
      /\ \A t \in Tokens : LiveToken(t) /\ tokens[t].user = u
                             => t \in s.doomed \cup raced[r]
  BY <1>1, <1>2, <1>3, ResetSession DEF KnowsReset, CommitReset, Open
<1>5. PICK S : S = {u, x} \cup s.doomed
  OBVIOUS
<1>6. PICK user : user = [users[u] EXCEPT !.password = s.password]
  OBVIOUS
<1>7. PICK reset : reset = [resets[x] EXCEPT !.used = TRUE]
  OBVIOUS
<1>8. /\ users' = [users EXCEPT ![u] = user]
      /\ resets' = [resets EXCEPT ![x] = reset]
      /\ tokens' = [t \in Tokens |->
           IF t \in s.doomed THEN [tokens[t] EXCEPT !.revoked = TRUE] ELSE tokens[t]]
      /\ Committed(r, S)
      /\ UNCHANGED <<clock, loggedOut>>
  BY <1>1, <1>2, <1>3, <1>5, <1>6, <1>7 DEF CommitReset, IInv, TypeOK
<1>9. /\ user \in UserRow /\ user # None /\ user.email = users[u].email
      /\ user.password = s.password
  <2>1. PICK old \in UserRow : old = users[u]
    BY <1>4 DEF IInv, TypeOK
  <2>2. user = [email |-> old.email, password |-> s.password, name |-> old.name]
    BY <1>6, <2>1 DEF UserRow
  <2>3. user \in UserRow
    BY <1>4, <2>2 DEF UserRow
  <2> QED
    BY <2>1, <2>2, <2>3
<1>10. reset \in ResetRow /\ reset # None /\ reset.user = resets[x].user
  <2>1. PICK old \in ResetRow : old = resets[x]
    BY <1>4 DEF IInv, TypeOK
  <2>2. reset = [user |-> old.user, expires |-> old.expires, used |-> TRUE]
    BY <1>7, <2>1 DEF ResetRow
  <2>3. reset \in ResetRow
    BY <2>2 DEF ResetRow
  <2> QED
    BY <2>1, <2>2, <2>3
<1>11. ASSUME NEW t \in Tokens
       PROVE  /\ tokens'[t] \in TokenRow \cup {None}
              /\ t \notin s.doomed => tokens'[t] = tokens[t]
              /\ tokens[t] = None => tokens'[t] = None
              /\ tokens[t] # None =>
                   /\ tokens'[t] # None
                   /\ tokens'[t].user = tokens[t].user
                   /\ tokens'[t].line = tokens[t].line
                   /\ tokens'[t].password = tokens[t].password
                   /\ tokens[t].revoked \/ t \in s.doomed => tokens'[t].revoked
  <2>1. CASE t \in s.doomed
    <3>1. PICK old \in TokenRow : old = tokens[t]
      BY <1>4, <2>1 DEF IInv, TypeOK
    <3>2. PICK new : new = [old EXCEPT !.revoked = TRUE]
      OBVIOUS
    <3>3. /\ new \in TokenRow /\ new.user = old.user /\ new.line = old.line
          /\ new.password = old.password /\ new.revoked
      BY <3>2 DEF TokenRow
    <3>4. tokens'[t] = new
      BY <1>8, <2>1, <3>1, <3>2
    <3> QED
      BY <1>4, <2>1, <3>1, <3>3, <3>4
  <2>2. CASE t \notin s.doomed
    BY <1>8, <2>2 DEF IInv, TypeOK
  <2> QED
    BY <2>1, <2>2
<1>12. \A v \in UserIds : users'[v] = IF v = u THEN user ELSE users[v]
  BY <1>8 DEF IInv, TypeOK
<1>13. \A y \in Resets : resets'[y] = IF y = x THEN reset ELSE resets[y]
  BY <1>8 DEF IInv, TypeOK
<1>14. S \in SUBSET (UserIds \cup Tokens \cup Resets) /\ races \subseteq races'
  BY <1>4, <1>5, <1>8 DEF Committed
<1>15. TypeOK'
  <2>1. tokens' \in [Tokens -> TokenRow \cup {None}]
    <3>1. tokens' = [t \in Tokens |-> tokens'[t]]
      BY <1>8
    <3> QED
      BY <1>11, <3>1
  <2>2. users' \in [UserIds -> UserRow \cup {None}]
    BY <1>8, <1>9 DEF IInv, TypeOK
  <2>3. resets' \in [Resets -> ResetRow \cup {None}]
    BY <1>8, <1>10 DEF IInv, TypeOK
  <2>4. /\ request' \in [Requests -> Session \cup {None}]
        /\ raced' \in [Requests -> SUBSET (UserIds \cup Tokens \cup Resets)]
        /\ races' \subseteq SUBSET (UserIds \cup Tokens \cup Resets)
    BY <1>8, <1>14, CommitTypes DEF IInv
  <2> QED
    BY <1>8, <2>1, <2>2, <2>3, <2>4 DEF IInv, TypeOK
<1>16. UsersKept(S) /\ TokensKept(S) /\ ResetsKept(S)
  BY <1>5, <1>9, <1>10, <1>11, <1>12, <1>13 DEF UsersKept, TokensKept, ResetsKept
<1>17. /\ \A v \in UserIds : users[v] = None => users'[v] = None
       /\ \A t \in Tokens : tokens[t] = None => tokens'[t] = None
       /\ \A y \in Resets : resets[y] = None => resets'[y] = None
  BY <1>4, <1>11, <1>12, <1>13
<1>18. /\ SessionsKnow' /\ FlushedIsFree' /\ OneAccountPerAddress'
       /\ ResetsHaveUsers' /\ LinesInOrder' /\ SplitsNeedRace'
       /\ TokensKept(Tokens)
  BY <1>8, <1>14, <1>16, <1>17, NothingNewInv
<1>19. LogoutsLast'
  BY <1>8, <1>14, <1>17, <1>18, LogoutsInv
<1>20. OldSessionNeedsRace'
  <2> SUFFICES ASSUME NEW t \in Tokens, LiveToken(t)'
               PROVE  \/ tokens'[t].password = users'[tokens'[t].user].password
                      \/ \E y \in tokens'[t].line : {y, tokens'[t].user} \in races'
    BY DEF OldSessionNeedsRace
  <2>1. LiveToken(t) /\ t \notin s.doomed /\ tokens'[t] = tokens[t]
    BY <1>11 DEF LiveToken
  <2>2. tokens[t].user \in UserIds /\ t \in tokens[t].line
    BY <2>1 DEF LiveToken, IInv, TypeOK, TokenRow, LinesInOrder
  <2>3. CASE tokens[t].user = u
    <3>1. t \in raced[r]
      BY <1>4, <2>1, <2>3
    <3>2. u \in S /\ \A a \in S, b \in raced[r] : {a, b} \in races'
      BY <1>5, <1>8 DEF Committed
    <3>3. {t, u} \in races'
      BY <3>1, <3>2
    <3> QED
      BY <2>1, <2>2, <2>3, <3>3
  <2>4. CASE tokens[t].user # u
    <3>1. \/ tokens[t].password = users[tokens[t].user].password
          \/ \E y \in tokens[t].line : {y, tokens[t].user} \in races
      BY <2>1 DEF IInv, OldSessionNeedsRace
    <3> QED
      BY <1>12, <1>14, <2>1, <2>2, <2>4, <3>1
  <2> QED
    BY <2>3, <2>4
<1> QED
  BY <1>15, <1>18, <1>19, <1>20 DEF IInv
------------------------------------------------------------------------------
LEMMA TickInv ==
  ASSUME IInv, Tick
  PROVE  IInv'
<1>1. /\ UNCHANGED <<users, tokens, resets, loggedOut, request, raced, races>>
      /\ clock < MaxClock /\ clock' = clock + 1
  BY DEF Tick, tables, sessions
<1>2. TypeOK'
  BY <1>1 DEF IInv, TypeOK
<1>3. SessionsKnow'
  <2> SUFFICES ASSUME NEW q \in Requests, request'[q] # None
               PROVE  (WellFormed(request[q]) /\ Knows(request[q], raced[q]))'
    BY DEF SessionsKnow
  <2>1. UsersKept(raced'[q]) /\ TokensKept(raced'[q]) /\ ResetsKept(raced'[q])
    BY <1>1 DEF UsersKept, TokensKept, ResetsKept
  <2> QED
    BY <1>1, <2>1, Bystander
<1>4. FlushedIsFree' /\ OneAccountPerAddress' /\ ResetsHaveUsers'
  BY <1>1 DEF IInv, FlushedIsFree, Open, AddressTaken, AddressLocked,
              OneAccountPerAddress, ResetsHaveUsers
<1>5. LinesInOrder' /\ LogoutsLast'
  BY <1>1 DEF IInv, LinesInOrder, LogoutsLast, LostWrite
<1>6. SplitsNeedRace'
  BY <1>1 DEF IInv, SplitsNeedRace, LostWrite
<1>7. OldSessionNeedsRace'
  BY <1>1 DEF IInv, OldSessionNeedsRace, LiveToken
<1> QED
  BY <1>2, <1>3, <1>4, <1>5, <1>6, <1>7 DEF IInv

LEMMA StutterInv ==
  ASSUME IInv, UNCHANGED vars
  PROVE  IInv'
<1>1. UNCHANGED <<clock, users, tokens, resets, loggedOut, request, raced, races>>
  BY DEF vars, tables, sessions
<1>2. TypeOK'
  BY <1>1 DEF IInv, TypeOK
<1>3. SessionsKnow'
  <2> SUFFICES ASSUME NEW q \in Requests, request'[q] # None
               PROVE  (WellFormed(request[q]) /\ Knows(request[q], raced[q]))'
    BY DEF SessionsKnow
  <2>1. UsersKept(raced'[q]) /\ TokensKept(raced'[q]) /\ ResetsKept(raced'[q])
    BY <1>1 DEF UsersKept, TokensKept, ResetsKept
  <2> QED
    BY <1>1, <2>1, Bystander
<1>4. FlushedIsFree' /\ OneAccountPerAddress' /\ ResetsHaveUsers'
  BY <1>1 DEF IInv, FlushedIsFree, Open, AddressTaken, AddressLocked,
              OneAccountPerAddress, ResetsHaveUsers
<1>5. LinesInOrder' /\ LogoutsLast'
  BY <1>1 DEF IInv, LinesInOrder, LogoutsLast, LostWrite
<1>6. SplitsNeedRace'
  BY <1>1 DEF IInv, SplitsNeedRace, LostWrite
<1>7. OldSessionNeedsRace'
  BY <1>1 DEF IInv, OldSessionNeedsRace, LiveToken
<1> QED
  BY <1>2, <1>3, <1>4, <1>5, <1>6, <1>7 DEF IInv

LEMMA NextInv == IInv /\ [Next]_vars => IInv'
<1> SUFFICES ASSUME IInv, [Next]_vars PROVE IInv'
  OBVIOUS
<1>1. ASSUME NEW r \in Requests, BeginRequest(r) PROVE IInv'
  BY <1>1, BeginsInv
<1>2. ASSUME NEW r \in Requests, FailRegister(r) \/ Abort(r) \/ CommitProfile(r)
      PROVE IInv'
  BY <1>2, QuietInv
<1>3. ASSUME NEW r \in Requests, FlushRegister(r) \/ CommitRegister(r) PROVE IInv'
  BY <1>3, FlushRegisterInv, CommitRegisterInv
<1>4. ASSUME NEW r \in Requests, CommitLogin(r) \/ CommitRefresh(r) PROVE IInv'
  BY <1>4, CommitLoginInv, CommitRefreshInv
<1>5. ASSUME NEW r \in Requests, ExpireToken(r) \/ CommitLogout(r) PROVE IInv'
  BY <1>5, RevokeInv
<1>6. ASSUME NEW r \in Requests, ReadLiveTokens(r) \/ CommitReset(r) PROVE IInv'
  BY <1>6, ReadLiveTokensInv, CommitResetInv
<1>7. ASSUME NEW r \in Requests, FlushRefresh(r) \/ FlushRevocation(r) PROVE IInv'
  BY <1>7, FlushLockInv
<1>8. CASE RequestPasswordReset \/ Tick
  BY <1>8, RequestPasswordResetInv, TickInv
<1>9. CASE UNCHANGED vars
  BY <1>9, StutterInv
<1> QED
  BY <1>1, <1>2, <1>3, <1>4, <1>5, <1>6, <1>7, <1>8, <1>9 DEF Next, Continue
------------------------------------------------------------------------------
(* What open requests know of accounts and tokens stays true as long as    *)
(* they are open, and the lines of the tokens stay in order (auth.py).     *)
THEOREM Invariance == Spec => []IInv
BY InitInv, NextInv, PTL DEF Spec

(* The tables of accounts and tokens and the open requests keep their      *)
(* types.                                                                  *)
THEOREM TypeCorrect == Spec => []TypeOK
<1>1. IInv => TypeOK
  BY DEF IInv
<1> QED
  BY <1>1, Invariance, PTL

(* However an address is typed, it belongs to one account at most, even    *)
(* when several requests register it at once.                              *)
THEOREM OneAccount == Spec => []OneAccountPerAddress
<1>1. IInv => OneAccountPerAddress
  BY DEF IInv
<1> QED
  BY <1>1, Invariance, PTL

(* A login has two live tokens only after two overlapping refreshes of one *)
(* token: tokens of one line are ordered by descent, and every token but   *)
(* the last of a line is revoked.                                          *)
THEOREM ForksNeedRaces == Spec => []ForkNeedsRace
<1>1. ASSUME IInv PROVE ForkNeedsRace
  <2> SUFFICES ASSUME NEW s \in Tokens, NEW t \in Tokens,
                      s # t, LiveToken(s), LiveToken(t)
               PROVE  \/ tokens[s].line \cap tokens[t].line = {}
                      \/ \E x \in tokens[s].line \cap tokens[t].line : LostWrite(x)
    BY DEF ForkNeedsRace
  <2>1. s \notin tokens[t].line /\ t \notin tokens[s].line
    BY <1>1 DEF IInv, LinesInOrder, LiveToken
  <2> QED
    BY <1>1, <2>1 DEF IInv, SplitsNeedRace, LiveToken
<1> QED
  BY <1>1, Invariance, PTL

(* No token that descends from one used to log out is live, unless a       *)
(* refresh of that one overlapped the logout.                              *)
THEOREM LogoutsStick == Spec => []LogoutSticks
<1>1. ASSUME IInv PROVE LogoutSticks
  <2> SUFFICES ASSUME NEW t \in Tokens, LiveToken(t),
                      NEW x \in tokens[t].line \cap loggedOut
               PROVE  LostWrite(x)
    BY DEF LogoutSticks
  <2>1. x # t
    BY <1>1 DEF IInv, LogoutsLast, LiveToken
  <2> QED
    BY <1>1, <2>1 DEF IInv, LogoutsLast, LiveToken
<1> QED
  BY <1>1, Invariance, PTL

(* A live token goes back to a login with the password in force, unless    *)
(* the issue of a token of its line overlapped a reset.                    *)
THEOREM OldSessionsNeedRaces == Spec => []OldSessionNeedsRace
<1>1. IInv => OldSessionNeedsRace
  BY DEF IInv
<1> QED
  BY <1>1, Invariance, PTL

(* Only the commit of a reset changes the password of a user that exists.  *)
LEMMA ChangersOfPasswords ==
  ASSUME IInv, [Next]_vars, NEW u \in UserIds,
         users[u] # None, users'[u].password # users[u].password
  PROVE  \E r \in Requests : CommitReset(r) /\ request[r].user = u
<1>1. ASSUME NEW r \in Requests, BeginRequest(r) PROVE FALSE
  BY <1>1 DEF BeginRequest, BeginRegister, BeginLogin, BeginRefresh, BeginLogout,
              BeginReset, BeginProfile, Begin, tables
<1>2. ASSUME NEW r \in Requests,
             \/ FlushRegister(r) \/ FailRegister(r) \/ CommitLogin(r)
             \/ ExpireToken(r) \/ CommitRefresh(r) \/ CommitLogout(r)
             \/ FlushRefresh(r) \/ ReadLiveTokens(r) \/ FlushRevocation(r)
             \/ Abort(r)
      PROVE  FALSE
  BY <1>2 DEF FlushRegister, FailRegister, CommitLogin, ExpireToken,
              CommitRefresh, CommitLogout, FlushRefresh, ReadLiveTokens,
              FlushRevocation, Abort, tables
<1>3. ASSUME RequestPasswordReset \/ Tick \/ UNCHANGED vars PROVE FALSE
  BY <1>3 DEF RequestPasswordReset, Tick, vars, tables
<1>4. ASSUME NEW r \in Requests, CommitRegister(r) PROVE FALSE
  BY <1>4 DEF CommitRegister, IInv, TypeOK
<1>5. ASSUME NEW r \in Requests, CommitProfile(r) PROVE FALSE
  <2>1. PICK s \in Session : s = request[r]
    BY <1>5 DEF CommitProfile, Open, IInv, TypeOK
  <2>2. PICK name : users' = [users EXCEPT ![s.user].name = name]
    BY <1>5, <2>1 DEF CommitProfile
  <2>3. users[u] \in UserRow
    BY DEF IInv, TypeOK
  <2> QED
    BY <2>2, <2>3 DEF IInv, TypeOK, UserRow
<1>6. ASSUME NEW r \in Requests, CommitReset(r) PROVE request[r].user = u
  <2>1. PICK s \in Session : s = request[r]
    BY <1>6, ResetSession
  <2>2. users' = [users EXCEPT ![s.user].password = s.password]
    BY <1>6, <2>1 DEF CommitReset
  <2> QED
    BY <2>1, <2>2 DEF IInv, TypeOK
<1> QED
  BY <1>1, <1>2, <1>3, <1>4, <1>5, <1>6 DEF Next, Continue

(* A password changes only by using up a reset token of that user that     *)
(* nobody used before, or that two overlapping resets presented.           *)
THEOREM PasswordChangesTakeTokens == Spec => PasswordChangeTakesToken
<1>1. ASSUME IInv, [Next]_vars, NEW u \in UserIds,
             users[u] # None, users'[u].password # users[u].password
      PROVE  \E x \in Resets :
               /\ resets[x] # None /\ resets[x].user = u
               /\ \/ ~resets[x].used /\ resets'[x].used
                  \/ LostWrite(x)'
  <2>1. PICK r \in Requests : CommitReset(r) /\ request[r].user = u
    BY <1>1, ChangersOfPasswords
  <2>2. PICK s \in Session : s = request[r]
    BY <1>1, <2>1, ResetSession
  <2>3. PICK x \in Resets : x = s.target
    BY <1>1, <2>1, <2>2, ResetSession
  <2>4. /\ resets[x] # None /\ resets[x].user = u
        /\ x \notin raced[r] => ~resets[x].used
    BY <1>1, <2>1, <2>2, <2>3, ResetSession DEF KnowsReset
  <2>5. resets' = [resets EXCEPT ![x].used = TRUE]
    BY <2>1, <2>2, <2>3 DEF CommitReset
  <2>6. PICK old \in ResetRow : old = resets[x]
    BY <1>1, <2>4 DEF IInv, TypeOK
  <2>7. resets'[x].used
    BY <1>1, <2>5, <2>6 DEF IInv, TypeOK, ResetRow
  <2>8. PICK S : x \in S /\ Committed(r, S)
    BY <2>1, <2>2, <2>3 DEF CommitReset
  <2>9. CASE x \in raced[r]
    BY <2>4, <2>8, <2>9, CommitRecordsLostWrites
  <2>10. CASE x \notin raced[r]
    BY <2>4, <2>7, <2>10
  <2> QED
    BY <2>9, <2>10
<1>2. IInv /\ [Next]_vars
        => [\A u \in UserIds :
              users[u] # None /\ users'[u].password # users[u].password =>
                \E x \in Resets :
                  /\ resets[x] # None /\ resets[x].user = u
                  /\ \/ ~resets[x].used /\ resets'[x].used
                     \/ LostWrite(x)']_vars
  BY <1>1
<1> QED
  BY <1>2, Invariance, PTL DEF Spec, PasswordChangeTakesToken
==============================================================================
