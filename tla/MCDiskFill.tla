------------------------------ MODULE MCDiskFill ------------------------------
(***************************************************************************)
(* Instances of DiskFill for TLC.                                          *)
(***************************************************************************)
EXTENDS DiskFill

\* Windows and POSIX disks that fill up or reach their limit, at a multiple of
\* the large size or not; under libaio, which takes every write for a complete
\* one, a disk with room for the whole file and no failures.
MCConfig ==
    [platform : {"windows", "posix"}, limit : {0, 9, 10}, free : {2, 9, 11},
     errors : {0, 1}]
    \cup [platform : {"libaio"}, limit : {9, 10}, free : {10}, errors : {0}]
===============================================================================
