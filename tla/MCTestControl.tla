---------------------------- MODULE MCTestControl -----------------------------
(* Instances of TestControl for TLC. *)
EXTENDS TestControl

\* Two workers on the first manager, one on the second.
MCManagerOf == <<1, 1, 2>>
===============================================================================
