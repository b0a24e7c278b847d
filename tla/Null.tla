-------------------------------- MODULE Null --------------------------------
(* SQL NULL and Python None: in a table, the row that does not exist. *)
CONSTANT None
==============================================================================
