------------------------------ MODULE HotSwap ------------------------------
(***************************************************************************)
(* What the module manager promises its callers (module_manager.hpp:9-17,  *)
(* docs/user-guide.md:163-170), with no handles, counts or threads: one    *)
(* active module, replaced in one step; users who each hold what was       *)
(* active when they asked; and modules that stay alive while they are      *)
(* active or held, and may be deleted afterwards.                          *)
(***************************************************************************)
CONSTANTS Users,    \* workers with a snapshot, callers with load's result
          Modules,
          None

VARIABLES active,   \* the module new packets pick up, or None
          using,    \* the module each user holds, or None
          alive     \* the modules whose code may be executed

vars == <<active, using, alive>>

Wanted == {active} \cup {using[u] : u \in Users}

Init ==
  /\ active = None
  /\ using = [u \in Users |-> None]
  /\ alive = {}

\* Modules nobody wants after the step may go with it or stay for later.
Reclaim == Wanted' \cap alive \subseteq alive' /\ alive' \subseteq alive

Install(u, m) ==
  /\ m \notin alive
  /\ active' = m
  /\ using' = [using EXCEPT ![u] = m]
  /\ alive' = alive \cup {m}

Acquire(u) ==
  /\ active # None
  /\ using' = [using EXCEPT ![u] = active]
  /\ UNCHANGED <<active, alive>>

Release(u) ==
  /\ using' = [using EXCEPT ![u] = None]
  /\ UNCHANGED active
  /\ Reclaim

Collect == UNCHANGED <<active, using>> /\ Reclaim

Shutdown ==
  /\ active' = None
  /\ UNCHANGED using
  /\ Reclaim

Next ==
  \/ \E u \in Users : (\E m \in Modules : Install(u, m)) \/ Acquire(u) \/ Release(u)
  \/ Collect
  \/ Shutdown

Spec == Init /\ [][Next]_vars
=============================================================================
