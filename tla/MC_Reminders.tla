---------------------------- MODULE MC_Reminders ----------------------------
(* Small instances of Reminders for TLC.                                   *)
EXTENDS Reminders
=============================================================================
