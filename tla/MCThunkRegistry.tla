--------------------------- MODULE MCThunkRegistry ---------------------------
(***************************************************************************)
(* Three threads, two places for code and two for registrations: enough    *)
(* for an address to be reused by one thread while a second still removes  *)
(* the old registration and a third waits to walk the list, and for a      *)
(* registration to be unlinked at the head and behind another.             *)
(***************************************************************************)
EXTENDS ThunkList
=============================================================================
