------------------------------ MODULE MCGruntIO -------------------------------
(***************************************************************************)
(* Instances of GruntIO for TLC.  Slots are laid out over the targets as   *)
(* Initialize_Transaction_Arrays does it, round robin by depth.            *)
(***************************************************************************)
EXTENDS GruntIO, TLC

\* Two slots on target 1, one on target 2.
MCTargetOf3 == (0 :> 1) @@ (1 :> 2) @@ (2 :> 1)

\* One slot on each of two targets.
MCTargetOf2 == (0 :> 1) @@ (1 :> 2)

\* One transaction on each connection.
MCOnePerConn == [t \in Target |-> 1]

\* Target 2 is only opened and closed.
MCNonePerConn == [t \in Target |-> 2 - t]
===============================================================================
