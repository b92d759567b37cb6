---------------------------- MODULE MCPersistence ----------------------------
(* An instance of Persistence for TLC.                                      *)
EXTENDS Persistence
==============================================================================
