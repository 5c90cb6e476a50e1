------------------------------ MODULE Delivery ------------------------------
(***************************************************************************)
(* What the event bus promises of the events queued on it, without         *)
(* outbox, stream, consumers or acknowledgements: at-least-once delivery.  *)
(* A queued event stays outstanding until it was written to the memory or  *)
(* put among the dead letters, and once it is settled it is never          *)
(* outstanding again; a slow consumer may still write it late.             *)
(* EventBus is shown to implement this specification.                      *)
(***************************************************************************)
EXTENDS Naturals

CONSTANT Event

VARIABLES
  phase,    \* Event -> {"new", "outstanding", "settled"}
  written,  \* Event -> Nat: how often it was written to the memory
  dead      \* the dead letters

vars == <<phase, written, dead>>

Init ==
  /\ phase = [e \in Event |-> "new"]
  /\ written = [e \in Event |-> 0]
  /\ dead = {}

Queue(e) ==
  /\ phase[e] = "new"
  /\ phase' = [phase EXCEPT ![e] = "outstanding"]
  /\ UNCHANGED <<written, dead>>

Write(e) ==
  /\ phase[e] # "new"
  /\ written' = [written EXCEPT ![e] = @ + 1]
  /\ UNCHANGED <<phase, dead>>

Bury(e) ==
  /\ phase[e] # "new"
  /\ dead' = dead \union {e}
  /\ UNCHANGED <<phase, written>>

Settle(e) ==
  /\ phase[e] = "outstanding"
  /\ written[e] > 0 \/ e \in dead
  /\ phase' = [phase EXCEPT ![e] = "settled"]
  /\ UNCHANGED <<written, dead>>

Next == \E e \in Event : Queue(e) \/ Write(e) \/ Bury(e) \/ Settle(e)

Spec == Init /\ [][Next]_vars
=============================================================================
