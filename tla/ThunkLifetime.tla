---------------------------- MODULE ThunkLifetime ----------------------------
(***************************************************************************)
(* What a holder of an FThunkPtr relies on.  The code at an address is     *)
(* built, owned, doomed and freed, in that order; code that has unwind     *)
(* data is covered by the system's function table all the time it is       *)
(* owned; and an address is never free, hence never reused, while covered. *)
(***************************************************************************)
CONSTANTS Addresses

VARIABLES
  phase,    \* phase[a]: "free", "building", "owned" or "doomed"
  unwinds,  \* the addresses whose code was generated with unwind data
  covered   \* the addresses the function table covers

vars == <<phase, unwinds, covered>>

Init ==
  /\ phase = [a \in Addresses |-> "free"]
  /\ unwinds = {}
  /\ covered = {}

Move(a, from, to) ==
  /\ phase[a] = from
  /\ phase' = [phase EXCEPT ![a] = to]

\* Code without unwind data is handed out at once.
Allocate(a) ==
  /\ \/ Move(a, "free", "building") /\ unwinds' = unwinds \cup {a}
     \/ Move(a, "free", "owned") /\ unwinds' = unwinds \ {a}
  /\ UNCHANGED covered

Cover(a) ==
  /\ phase[a] = "building"
  /\ covered' = covered \cup {a}
  /\ UNCHANGED <<phase, unwinds>>

Publish(a) ==
  /\ Move(a, "building", "owned")
  /\ a \in covered
  /\ UNCHANGED <<unwinds, covered>>

Doom(a) ==
  /\ Move(a, "owned", "doomed")
  /\ UNCHANGED <<unwinds, covered>>

Uncover(a) ==
  /\ phase[a] = "doomed"
  /\ covered' = covered \ {a}
  /\ UNCHANGED <<phase, unwinds>>

Free(a) ==
  /\ \E from \in {"building", "doomed"} : Move(a, from, "free")
  /\ a \notin covered
  /\ UNCHANGED <<unwinds, covered>>

Next ==
  \E a \in Addresses :
    Allocate(a) \/ Cover(a) \/ Publish(a) \/ Doom(a) \/ Uncover(a) \/ Free(a)

Spec == Init /\ [][Next]_vars
=============================================================================
