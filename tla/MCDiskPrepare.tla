---------------------------- MODULE MCDiskPrepare -----------------------------
(* Instances of DiskPrepare for TLC. *)
EXTENDS DiskPrepare

\* Two workers on the first manager, one on the second.
MCManagerOf == <<1, 1, 2>>

\* The first manager's disks "a" and "b" move between its workers and are
\* shared; "c" is the second manager's, whose worker also has a raw disk.
MCAssignment == {<<{"a"}, {"b"}, {"c"}>>, <<{"b"}, {"a", "b"}, {"c", "raw"}>>,
                 <<{}, {"b"}, {"raw"}>>}
===============================================================================
