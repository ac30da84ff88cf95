-------------------------- MODULE MCServerLifecycle --------------------------
(* Instances of ServerLifecycle for TLC. *)
EXTENDS ServerLifecycle
MCEarly == Listing \cup (Probe \X Conn)
MCTask  == Query \cup Export \cup MCEarly
=============================================================================
