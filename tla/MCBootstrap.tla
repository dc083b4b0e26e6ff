----------------------------- MODULE MCBootstrap -----------------------------
(* Small instances of Bootstrap for TLC, and the mutants of its definitions. *)
EXTENDS Bootstrap
=============================================================================
