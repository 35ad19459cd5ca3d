-------------------------- MODULE MCCompletionQueue ---------------------------
(* Instances of CompletionQueue for TLC. *)
EXTENDS CompletionQueue
===============================================================================
