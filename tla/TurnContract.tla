---------------------------- MODULE TurnContract ----------------------------
(***************************************************************************)
(* What the rest of the system may count on when it hands an event to      *)
(* execute() of src/src/usecase/process_inbound_event.rs: a turn has one   *)
(* outcome.  It is answered, and leaves every row to the finalizer; or it  *)
(* stores one turn of its own, the user's if the message is ignored, the   *)
(* assistant's if it is aborted, and then marks the event processed; or a  *)
(* call of the store fails.  InboundPipeline runs its jobs by this.        *)
(***************************************************************************)
VARIABLES outcome, user_turn, assistant_turn, processed

rows == <<user_turn, assistant_turn, processed>>
vars == <<outcome, rows>>

Init ==
  /\ outcome = "open"
  /\ user_turn = FALSE /\ assistant_turn = FALSE /\ processed = FALSE

Answer == outcome = "open" /\ outcome' = "answered" /\ UNCHANGED rows

Ignore ==
  /\ outcome = "open" /\ outcome' = "closing"
  /\ user_turn' = TRUE
  /\ UNCHANGED <<assistant_turn, processed>>

Abort ==
  /\ outcome = "open" /\ outcome' = "closing"
  /\ assistant_turn' = TRUE
  /\ UNCHANGED <<user_turn, processed>>

Close ==
  /\ outcome = "closing" /\ outcome' = "closed"
  /\ processed' = TRUE
  /\ UNCHANGED <<user_turn, assistant_turn>>

StoreError ==
  /\ outcome \in {"open", "closing"} /\ outcome' = "failed"
  /\ UNCHANGED rows

Next == Answer \/ Ignore \/ Abort \/ Close \/ StoreError

Spec == Init /\ [][Next]_vars /\ <>(outcome \in {"answered", "closed", "failed"})
=============================================================================
