-------------------------------- MODULE Auth --------------------------------
(***************************************************************************)
(* Accounts, refresh tokens and password resets: app/services/auth.py.     *)
(*                                                                         *)
(* A handler loads a row, decides, and commits; what a request commits in  *)
(* between is not seen.  Some also write before their commit, and from     *)
(* then on hold a lock that others wait for: register_user on the index    *)
(* entry of the address (an explicit flush), refresh_user_session on the   *)
(* token it revokes (the autoflush before the SELECT of the roles), and    *)
(* reset_password on the row of the user (the autoflush before the SELECT  *)
(* of the live tokens) and then on one live token after the other.         *)
(*                                                                         *)
(* Nothing in the code sets a user's status to anything but ACTIVE, so the *)
(* refusals of users who are not active are left out, as are the access    *)
(* tokens, which no table records.                                         *)
(***************************************************************************)
EXTENDS Integers, FiniteSets, Sessions

CONSTANTS
  UserIds,      \* bound: the users that can ever be created
  Tokens,       \* bound: the refresh tokens that can ever be issued
  Resets,       \* bound: the reset tokens that can ever be issued
  Addresses,    \* what clients type as their e-mail address
  Lower,        \* [Addresses -> Addresses]: str.lower
  Passwords,
  Names,        \* the profile: name and phone together
  RefreshTtl,   \* settings.refresh_token_ttl
  ResetTtl,     \* settings.password_reset_token_ttl
  MaxClock,     \* bound: the last instant of the clock
  Workload      \* bound: the handlers that clients call

VARIABLES
  clock,        \* datetime.now(UTC)
  users,        \* table users: [UserIds -> a row or None]
  tokens,       \* table refresh_tokens: [Tokens -> a row or None]
  resets,       \* table password_reset_tokens: [Resets -> a row or None]
  loggedOut     \* ghost: the tokens that were used to log out

tables == <<users, tokens, resets>>
vars == <<clock, tables, loggedOut, sessions>>
------------------------------------------------------------------------------
UserRow == [email : Addresses, password : Passwords, name : Names]

(* line is ghost: the tokens this one was exchanged for, from the login on *)
(* and with itself; so is password: the one the login was made with.       *)
TokenRow ==
  [user : UserIds, expires : Nat, revoked : BOOLEAN,
   line : SUBSET Tokens, password : Passwords]

ResetRow == [user : UserIds, expires : Nat, used : BOOLEAN]

Handlers == {"register", "login", "refresh", "logout", "reset", "profile"}

(* What an open request holds in its local variables.  target is the token *)
(* or reset token presented, row the user row loaded or to be inserted,    *)
(* doomed the live tokens reset_password has selected, held those of them  *)
(* whose rows it has written.  error is a registration whose exception is  *)
(* on its way to the handler of app/api/errors.py.                         *)
Session ==
  [handler : Handlers, pc : {"flush", "commit", "expire", "error"},
   user : UserIds \cup {None}, target : Tokens \cup Resets \cup {None},
   row : UserRow \cup {None}, password : Passwords \cup {None},
   name : Names \cup {None}, expires : Nat, doomed : SUBSET Tokens,
   held : SUBSET Tokens]

ASSUME AuthAssumption ==
  /\ Lower \in [Addresses -> Addresses]
  /\ \A a \in Addresses : Lower[Lower[a]] = Lower[a]
  /\ RefreshTtl \in Nat /\ ResetTtl \in Nat /\ MaxClock \in Nat
  /\ UserIds \cap Tokens = {} /\ UserIds \cap Resets = {} /\ Tokens \cap Resets = {}
  /\ None \notin UserIds \cup Tokens \cup Resets \cup Passwords \cup Names
  /\ None \notin UserRow \cup TokenRow \cup ResetRow \cup Session

Init ==
  /\ clock = 0
  /\ users = [u \in UserIds |-> None]
  /\ tokens = [t \in Tokens |-> None]
  /\ resets = [x \in Resets |-> None]
  /\ loggedOut = {}
  /\ NoRequests

Begin(r, handler, pc, u, target, row, password, name, expires) ==
  /\ handler \in Workload
  /\ OpenSession(r, [handler |-> handler, pc |-> pc, user |-> u,
                     target |-> target, row |-> row, password |-> password,
                     name |-> name, expires |-> expires, doomed |-> {},
                     held |-> {}])
  /\ UNCHANGED <<clock, tables, loggedOut>>

(* Bound: a request that may issue a token begins only while there is one  *)
(* left for it and for every other open request.                           *)
TokensLeft ==
  Cardinality({r \in Requests : request[r] # None})
    < Cardinality({t \in Tokens : tokens[t] = None})

(* Bound: likewise for the registrations and the user ids. *)
UsersLeft ==
  Cardinality({r \in Requests : request[r] # None /\ request[r].handler = "register"})
    < Cardinality({u \in UserIds : users[u] = None})

LiveToken(t) == tokens[t] # None /\ ~tokens[t].revoked

(* Another request has changed the row of user u and not committed yet.    *)
UserLocked(r, u) ==
  \E q \in Requests \ {r} : Open(q, "reset", "commit") /\ request[q].user = u

(* Another request has revoked token t and not committed yet. *)
TokenLocked(r, t) ==
  \E q \in Requests \ {r} :
    \/ Open(q, "refresh", "commit") /\ request[q].target = t
    \/ Open(q, "reset", "commit") /\ t \in request[q].held

(* Another request has inserted the address and not committed yet.         *)
AddressLocked(r, email) ==
  \E q \in Requests \ {r} :
    Open(q, "register", "commit") /\ request[q].row.email = email

AddressTaken(email) ==
  \E u \in UserIds : users[u] # None /\ users[u].email = email
------------------------------------------------------------------------------
(* Variant: register_user stores the address as it was typed. *)
BeginRegisterAsTyped(r) ==
  \E a \in Addresses, p \in Passwords, n \in Names :
    /\ UsersLeft
    /\ Begin(r, "register", "flush", None, None,
             [email |-> a, password |-> p, name |-> n], None, None, 0)

(* register_user, up to the flush. *)
BeginRegister(r) ==
  \E a \in Addresses, p \in Passwords, n \in Names :
    /\ UsersLeft
    /\ Begin(r, "register", "flush", None, None,
             [email |-> Lower[a], password |-> p, name |-> n], None, None, 0)

(* The flush inserts the user.  The unique index makes it wait for another *)
(* insert of the same address to end, and fail if the address is taken.    *)
(* The failure is raised outside the try of register_user.                 *)
FlushRegister(r) ==
  /\ Open(r, "register", "flush")
  /\ ~AddressLocked(r, request[r].row.email)
  /\ request' = [request EXCEPT ![r].pc =
                   IF AddressTaken(request[r].row.email) THEN "error" ELSE "commit"]
  /\ UNCHANGED <<clock, tables, loggedOut, raced, races>>

FailRegister(r) ==
  /\ Open(r, "register", "error")
  /\ Committed(r, {})
  /\ UNCHANGED <<clock, tables, loggedOut>>

(* Which free id the new user gets makes no difference: one is fixed.      *)
CommitRegister(r) ==
  /\ Open(r, "register", "commit")
  /\ \E u \in UserIds :
       /\ users[u] = None
       /\ u = CHOOSE v \in UserIds : users[v] = None
       /\ users' = [users EXCEPT ![u] = request[r].row]
       /\ Committed(r, {u})
  /\ UNCHANGED <<clock, tokens, resets, loggedOut>>
------------------------------------------------------------------------------
(* login_user: find the user by the lowered address, verify the password. *)
BeginLogin(r) ==
  \E a \in Addresses, u \in UserIds :
    /\ users[u] # None /\ users[u].email = Lower[a]
    /\ TokensLeft
    /\ Begin(r, "login", "commit", u, None, users[u], users[u].password, None,
             clock + RefreshTtl)

CommitLogin(r) ==
  LET s == request[r] IN
  /\ Open(r, "login", "commit")
  /\ \E t \in Tokens :
       /\ tokens[t] = None
       /\ tokens' = [tokens EXCEPT ![t] =
            [user |-> s.user, expires |-> s.expires, revoked |-> FALSE,
             line |-> {t}, password |-> s.password]]
       /\ Committed(r, {t})
  /\ UNCHANGED <<clock, users, resets, loggedOut>>

(* Variant: a revoked token can be refreshed. *)
BeginRefreshRevoked(r) ==
  \E t \in Tokens :
    /\ tokens[t] # None
    /\ TokensLeft
    /\ Begin(r, "refresh", IF tokens[t].expires <= clock THEN "expire" ELSE "flush",
             tokens[t].user, t, None, tokens[t].password, None, clock + RefreshTtl)

(* refresh_user_session: a token past its time is revoked instead. *)
BeginRefresh(r) ==
  \E t \in Tokens :
    /\ LiveToken(t)
    /\ TokensLeft
    /\ Begin(r, "refresh", IF tokens[t].expires <= clock THEN "expire" ELSE "flush",
             tokens[t].user, t, None, tokens[t].password, None, clock + RefreshTtl)

ExpireToken(r) ==
  /\ Open(r, "refresh", "expire")
  /\ ~TokenLocked(r, request[r].target)
  /\ tokens' = [tokens EXCEPT ![request[r].target].revoked = TRUE]
  /\ Committed(r, {request[r].target})
  /\ UNCHANGED <<clock, users, resets, loggedOut>>

(* The SELECT of the user's roles first flushes revoked_at, and so waits   *)
(* for the row of the token, which it then keeps locked.                   *)
FlushRefresh(r) ==
  /\ Open(r, "refresh", "flush")
  /\ ~TokenLocked(r, request[r].target)
  /\ request' = [request EXCEPT ![r].pc = "commit"]
  /\ UNCHANGED <<clock, tables, loggedOut, raced, races>>

(* Variants: the old token stays live; the commit also writes the row of   *)
(* the user, and so waits for it.                                          *)
CommitRefreshKeepsOld(r) ==
  LET s == request[r] IN
  /\ Open(r, "refresh", "commit")
  /\ \E t \in Tokens :
       /\ tokens[t] = None
       /\ tokens' = [tokens EXCEPT ![t] =
            [user |-> s.user, expires |-> s.expires, revoked |-> FALSE,
             line |-> tokens[s.target].line \cup {t}, password |-> s.password]]
       /\ Committed(r, {t})
  /\ UNCHANGED <<clock, users, resets, loggedOut>>

CommitRefreshLocksUser(r) ==
  LET s == request[r] IN
  /\ Open(r, "refresh", "commit")
  /\ ~UserLocked(r, s.user)
  /\ \E t \in Tokens :
       /\ tokens[t] = None
       /\ tokens' = [tokens EXCEPT
            ![s.target].revoked = TRUE,
            ![t] = [user |-> s.user, expires |-> s.expires, revoked |-> FALSE,
                    line |-> tokens[s.target].line \cup {t},
                    password |-> s.password]]
       /\ Committed(r, {s.target, t})
  /\ UNCHANGED <<clock, users, resets, loggedOut>>

(* The old token is revoked and its heir issued in one commit. *)
CommitRefresh(r) ==
  LET s == request[r] IN
  /\ Open(r, "refresh", "commit")
  /\ \E t \in Tokens :
       /\ tokens[t] = None
       /\ tokens' = [tokens EXCEPT
            ![s.target].revoked = TRUE,
            ![t] = [user |-> s.user, expires |-> s.expires, revoked |-> FALSE,
                    line |-> tokens[s.target].line \cup {t},
                    password |-> s.password]]
       /\ Committed(r, {s.target, t})
  /\ UNCHANGED <<clock, users, resets, loggedOut>>

(* logout_user_session *)
BeginLogout(r) ==
  \E t \in Tokens :
    /\ LiveToken(t) /\ clock < tokens[t].expires
    /\ Begin(r, "logout", "commit", tokens[t].user, t, None, None, None, 0)

CommitLogout(r) ==
  LET t == request[r].target IN
  /\ Open(r, "logout", "commit")
  /\ ~TokenLocked(r, t)
  /\ tokens' = [tokens EXCEPT ![t].revoked = TRUE]
  /\ loggedOut' = loggedOut \cup {t}
  /\ Committed(r, {t})
  /\ UNCHANGED <<clock, users, resets>>
------------------------------------------------------------------------------
(* request_password_reset: one insert for a user that exists, and users    *)
(* are never deleted, so nothing can come between its read and its commit. *)
RequestPasswordReset ==
  /\ \E a \in Addresses, u \in UserIds, x \in Resets :
       /\ users[u] # None /\ users[u].email = Lower[a]
       /\ resets[x] = None
       /\ resets' = [resets EXCEPT ![x] =
            [user |-> u, expires |-> clock + ResetTtl, used |-> FALSE]]
  /\ UNCHANGED <<clock, users, tokens, loggedOut, sessions>>

(* reset_password, up to the SELECT of the live tokens. *)
BeginReset(r) ==
  \E x \in Resets, p \in Passwords :
    /\ resets[x] # None /\ ~resets[x].used /\ clock < resets[x].expires
    /\ Begin(r, "reset", "flush", resets[x].user, x, None, p, None, 0)

(* The SELECT first flushes the new password and used_at, and so waits for *)
(* the row of the user, which it then keeps locked.                        *)
ReadLiveTokens(r) ==
  /\ Open(r, "reset", "flush")
  /\ ~UserLocked(r, request[r].user)
  /\ request' = [request EXCEPT
       ![r].pc = "commit",
       ![r].doomed = {t \in Tokens : LiveToken(t) /\ tokens[t].user = request[r].user}]
  /\ UNCHANGED <<clock, tables, loggedOut, raced, races>>

(* The flush before the commit updates the live tokens row by row, and     *)
(* waits for each.  (Its order is that of the primary keys, which are      *)
(* random: here, any.)                                                     *)
FlushRevocation(r) ==
  /\ Open(r, "reset", "commit")
  /\ \E t \in request[r].doomed \ request[r].held :
       /\ ~TokenLocked(r, t)
       /\ request' = [request EXCEPT ![r].held = @ \cup {t}]
  /\ UNCHANGED <<clock, tables, loggedOut, raced, races>>

(* Variant: the live tokens are not revoked. *)
CommitResetKeepsTokens(r) ==
  LET s == request[r] IN
  /\ Open(r, "reset", "commit")
  /\ users' = [users EXCEPT ![s.user].password = s.password]
  /\ resets' = [resets EXCEPT ![s.target].used = TRUE]
  /\ Committed(r, {s.user, s.target})
  /\ UNCHANGED <<clock, tokens, loggedOut>>

CommitReset(r) ==
  LET s == request[r] IN
  /\ Open(r, "reset", "commit")
  /\ s.held = s.doomed
  /\ users' = [users EXCEPT ![s.user].password = s.password]
  /\ resets' = [resets EXCEPT ![s.target].used = TRUE]
  /\ tokens' = [t \in Tokens |->
       IF t \in s.doomed THEN [tokens[t] EXCEPT !.revoked = TRUE] ELSE tokens[t]]
  /\ Committed(r, {s.user, s.target} \cup s.doomed)
  /\ UNCHANGED <<clock, loggedOut>>
------------------------------------------------------------------------------
(* Variant: a field left out of the request is stored as NULL. *)
BeginProfileOmitted(r) ==
  \E u \in UserIds, n \in Names \cup {None} :
    /\ users[u] # None
    /\ Begin(r, "profile", "commit", u, None, users[u], None, n, 0)

(* update_current_user_profile: the row is loaded by get_current_user.     *)
BeginProfile(r) ==
  \E u \in UserIds, n \in Names :
    /\ users[u] # None
    /\ Begin(r, "profile", "commit", u, None, users[u], None, n, 0)

(* Variant: the UPDATE writes back every column as it was loaded. *)
CommitProfileWholeRow(r) ==
  LET s == request[r] IN
  /\ Open(r, "profile", "commit")
  /\ ~UserLocked(r, s.user)
  /\ users' = [users EXCEPT ![s.user] = [s.row EXCEPT !.name = s.name]]
  /\ Committed(r, {})
  /\ UNCHANGED <<clock, tokens, resets, loggedOut>>

(* No UPDATE, and no wait for the row, when the profile stays as loaded.   *)
(* The ghost variables watch the password column of users alone.           *)
CommitProfile(r) ==
  LET s == request[r] IN
  /\ Open(r, "profile", "commit")
  /\ s.name # s.row.name => ~UserLocked(r, s.user)
  /\ users' = [users EXCEPT ![s.user].name = Assign(@, s.row.name, s.name)]
  /\ Committed(r, {})
  /\ UNCHANGED <<clock, tokens, resets, loggedOut>>

(* The client goes away, the process or the connection dies. *)
Abort(r) ==
  /\ request[r] # None
  /\ Committed(r, {})
  /\ UNCHANGED <<clock, tables, loggedOut>>

Tick ==
  /\ clock < MaxClock
  /\ clock' = clock + 1
  /\ UNCHANGED <<tables, loggedOut, sessions>>
------------------------------------------------------------------------------
BeginRequest(r) ==
  \/ BeginRegister(r) \/ BeginLogin(r) \/ BeginRefresh(r) \/ BeginLogout(r)
  \/ BeginReset(r) \/ BeginProfile(r)

Continue(r) ==
  \/ FlushRegister(r) \/ FailRegister(r) \/ CommitRegister(r)
  \/ CommitLogin(r)
  \/ ExpireToken(r) \/ FlushRefresh(r) \/ CommitRefresh(r) \/ CommitLogout(r)
  \/ ReadLiveTokens(r) \/ FlushRevocation(r) \/ CommitReset(r)
  \/ CommitProfile(r)

Next ==
  \/ \E r \in Requests : BeginRequest(r) \/ Continue(r) \/ Abort(r)
  \/ RequestPasswordReset
  \/ Tick

Spec == Init /\ [][Next]_vars

(* The server goes on with every request it has begun, and PostgreSQL      *)
(* grants a lock to the requests that wait for it in turn: a step that can *)
(* wait is taken if it is possible again and again.  A request has one     *)
(* step to take at a time, and most of them never wait.                    *)
FairSpec == Spec /\ \A r \in Requests : SF_vars(Continue(r))
------------------------------------------------------------------------------
TypeOK ==
  /\ clock \in 0..MaxClock
  /\ users \in [UserIds -> UserRow \cup {None}]
  /\ tokens \in [Tokens -> TokenRow \cup {None}]
  /\ resets \in [Resets -> ResetRow \cup {None}]
  /\ loggedOut \subseteq Tokens
  /\ request \in [Requests -> Session \cup {None}]
  /\ raced \in [Requests -> SUBSET (UserIds \cup Tokens \cup Resets)]
  /\ races \subseteq SUBSET (UserIds \cup Tokens \cup Resets)

(* However an address is typed, it belongs to at most one account, and the *)
(* account of a user is the one a login with the address finds: both       *)
(* register_user and login_user lower it (auth.py:87, auth.py:111), and    *)
(* concurrent registrations meet at the unique index.                      *)
OneAccountPerAddress ==
  /\ \A u, v \in UserIds :
        /\ users[u] # None /\ users[v] # None
        /\ Lower[users[u].email] = Lower[users[v].email]
        => u = v
  /\ \A u \in UserIds : users[u] # None => users[u].email = Lower[users[u].email]

(* A registration with an address that is taken is turned down as a        *)
(* conflict, and does not fail with an unexpected error.                   *)
DuplicateAddressIsConflict ==
  \A r \in Requests : request[r] # None => request[r].pc # "error"

(* A reset of the password ends the sessions opened before it: a live      *)
(* refresh token goes back to a login made with the password in force,     *)
(* unless a login or refresh of its line overlapped the reset, which       *)
(* selects the live tokens (auth.py:227-236) before its commit.            *)
OldSessionNeedsRace ==
  \A t \in Tokens : LiveToken(t) =>
    \/ tokens[t].password = users[tokens[t].user].password
    \/ \E x \in tokens[t].line : {x, tokens[t].user} \in races

(* A login has one live token at a time: refresh_user_session revokes the  *)
(* old one with the commit that issues the new one (auth.py:150-156).  Two *)
(* live tokens of one login come from two refreshes of the same token at   *)
(* once.                                                                   *)
ForkNeedsRace ==
  \A s, t \in Tokens : s # t /\ LiveToken(s) /\ LiveToken(t) =>
    LET common == tokens[s].line \cap tokens[t].line IN
    common = {} \/ \E x \in common : LostWrite(x)

(* After a logout nothing of the session is left: no token that descends   *)
(* from the one logged out is live, unless a refresh of that one had       *)
(* loaded it before (auth.py:165-177).                                     *)
LogoutSticks ==
  \A t \in Tokens : LiveToken(t) =>
    \A x \in tokens[t].line \cap loggedOut : LostWrite(x)

(* A password changes only with a reset token of that user being used up,  *)
(* one that nobody used before, unless two resets presented the same token *)
(* at once; no profile update ever brings an old password back.            *)
PasswordChangeTakesToken ==
  [][\A u \in UserIds :
       users[u] # None /\ users'[u].password # users[u].password =>
         \E x \in Resets :
           /\ resets[x] # None /\ resets[x].user = u
           /\ \/ ~resets[x].used /\ resets'[x].used
              \/ LostWrite(x)']_vars

(* Every request ends: the waits for an address, the row of a user and the *)
(* rows of tokens never go round in a circle, although reset_password      *)
(* holds the user's row while it waits for tokens that a refresh has       *)
(* locked (auth.py:235-245 and auth.py:150-156).                           *)
RequestsEnd == \A r \in Requests : request[r] # None ~> request[r] = None
==============================================================================
