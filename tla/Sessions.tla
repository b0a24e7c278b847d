------------------------------ MODULE Sessions ------------------------------
(***************************************************************************)
(* Requests served at once, each in a database session of its own          *)
(* (app/db/session.py): one transaction under the READ COMMITTED isolation *)
(* of PostgreSQL.  A SELECT sees what is committed when it runs, an object *)
(* already loaded keeps the attributes it was loaded with, an UPDATE       *)
(* writes only the columns whose value changed since the load, and         *)
(* everything written appears at the commit.  There are no locks on reads  *)
(* and no version columns.  A request is therefore a record of what it has *)
(* read so far, and a handler is an action that begins it, one per later   *)
(* read, and one for the commit.  A request refused before its first step  *)
(* has no step at all: it leaves no trace in the database.                 *)
(*                                                                         *)
(* raced and races are ghost variables: no action's guard reads them.      *)
(***************************************************************************)
EXTENDS Null

CONSTANT Requests     \* the requests that can be open at one time

VARIABLES
  request,        \* [Requests -> what an open request has read, or None]
  raced,          \* ghost: the rows others wrote since a request began
  races           \* ghost: pairs of rows, one written while the writer of
                  \* the other was open; {x}: two overlapping writes of x

sessions == <<request, raced, races>>

NoRequests ==
  /\ request = [r \in Requests |-> None]
  /\ raced = [r \in Requests |-> {}]
  /\ races = {}

Open(r, handler, pc) ==
  /\ request[r] # None
  /\ request[r].handler = handler
  /\ request[r].pc = pc

OpenSession(r, s) ==
  /\ request[r] = None
  /\ request' = [request EXCEPT ![r] = s]
  /\ UNCHANGED <<raced, races>>

(* r commits, having written the rows S, and ends: the other open requests *)
(* have now raced with S, and S with whatever r itself raced with.         *)
Committed(r, S) ==
  /\ request' = [request EXCEPT ![r] = None]
  /\ raced' = [q \in Requests |->
                 IF q = r \/ request[q] = None THEN {} ELSE raced[q] \cup S]
  /\ races' = races \cup {{x, y} : x \in S, y \in raced[r]}

(* The value a column has after a commit that assigns it: an UPDATE leaves *)
(* a column alone when the assigned value is the one that was loaded.      *)
Assign(current, loaded, assigned) ==
  IF assigned = loaded THEN current ELSE assigned

(* A row was written by a request that could not see another write of it. *)
LostWrite(x) == {x} \in races

(* One of the rows was written by a request open while the other was       *)
(* written, or one of them by two requests at once.                        *)
Raced(x, y) == {x, y} \in races \/ LostWrite(x) \/ LostWrite(y)
==============================================================================
