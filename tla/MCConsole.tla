----------------------------- MODULE MCConsole -----------------------------
(***************************************************************************)
(* One page, two action ids, one order in flight, two redials.  createMatch *)
(* is a seat command like joinMatch and is left out.                       *)
(***************************************************************************)
EXTENDS Console

MCCommands == {"setHandle", "joinMatch", "spectateMatch", "leaveMatch"}
=============================================================================
