---------------------------- MODULE MC_EventBus ----------------------------
(* Small instances of EventBus for TLC.                                    *)
EXTENDS EventBus, TLC

(* The last event can never be written, as after its conversation was      *)
(* deleted by the operator's reset.                                        *)
LastPoisoned == {NEvents}

Interchangeable == Permutations(Consumers)
=============================================================================
