--------------------------- MODULE ShutdownLatch ---------------------------
(***************************************************************************)
(* What the application promises about its shutdown                       *)
(* (sprintapp/application.go): it is open until one call of Shutdown is    *)
(* accepted, the first accepted call decides between stop and restart, and *)
(* nothing ever changes that decision.  Application.tla shows that the     *)
(* step-by-step code implements this; RunServers.tla uses it as the        *)
(* application it runs under.                                              *)
(***************************************************************************)
VARIABLE latch

Decisions == {"stop", "restart"}
LatchStates == {"open"} \cup Decisions

Decision(restart) == IF restart THEN "restart" ELSE "stop"

LatchInit == latch = "open"

\* Mutant of Shutdown: without sync.Once the last call wins.
ShutdownLastWins(restart) == latch' = Decision(restart)

\* Application.Shutdown(restart) as its callers see it: sync.Once lets the
\* first call through and turns every other one into a no-op.
Shutdown(restart) ==
    latch' = IF latch = "open" THEN Decision(restart) ELSE latch

LatchNext == \E restart \in BOOLEAN : Shutdown(restart)

LatchSpec == LatchInit /\ [][LatchNext]_latch
=============================================================================
