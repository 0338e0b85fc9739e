------------------------------- MODULE MCGemd -------------------------------
(* Small instances of the server: the configurations choose the requests and *)
(* the faults, so that each run explores one kind of re-entrancy.            *)
EXTENDS Gemd
=============================================================================
