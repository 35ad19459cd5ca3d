---------------------------- MODULE MCConfigFile ----------------------------
(* Instances of ConfigFile for TLC. *)
EXTENDS ConfigFile, TLC

CONSTANTS m1, m2, d1, d2

Called(n, a) == [name |-> n, addr |-> a]
\* Two Dynamos of one machine; one here and one elsewhere.
MCNamings == {m1 :> Called("A", "local") @@ m2 :> Called("A", "local"),
              m1 :> Called("A", "local") @@ m2 :> Called("B", "remote")}
MCDrives == m1 :> <<d1, d2>> @@ m2 :> <<d1>>
MCDefaults == {<<"disk", "server">>}
MCSections == {Parts, {"specs"}, {"managers", "assigned"}}
=============================================================================
