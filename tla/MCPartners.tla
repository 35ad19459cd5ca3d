---------------------------- MODULE MCPartners ----------------------------
(* Instances of Partners for TLC. *)
EXTENDS Partners, TLC

MCDefaults == {<<"disk", "server">>, <<"server">>}
Symmetry == Permutations(Managers)
============================================================================
