---------------------------- MODULE MCEventQueue ----------------------------
(* An instance of EventQueue for TLC.                                      *)
EXTENDS EventQueue

(* The handlers __add_pending_event sets only.                        *)
MCChains == {{"FINISH"}}
=============================================================================
