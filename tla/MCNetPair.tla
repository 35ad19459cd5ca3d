----------------------------- MODULE MCNetPair -----------------------------
(* Targets and access specifications for NetPair.                          *)
EXTENDS NetPair

Line(size, reply, times) == [size |-> size, reply |-> reply, burst |-> times]
Config(platform, depth, numbers, rate, per, lines, reads, pattern) ==
    [platform |-> platform, depth |-> depth, numbers |-> numbers, rate |-> rate,
     trans_per_conn |-> per, lines |-> lines, reads |-> reads, pattern |-> pattern, data_size |-> [s \in Side |-> 3]]

\* Replies and both directions with one outstanding; two outstanding one way.  A transfer
\* of two units can arrive in parts.
Mixed == <<Line(1, 2, 1), Line(2, 0, 1), Line(2, 0, 2)>>
Directions == <<TRUE, FALSE, FALSE>>
MCConfigs ==
    {Config("windows", 1, 3, TRUE, n, Mixed, Directions, "full") : n \in {0, 1, 2}}
    \cup {Config("posix", 1, 3, TRUE, 1, Mixed, Directions, "full"),
          Config("windows", 1, 3, FALSE, 0, Mixed, Directions, "pseudo"),
          Config("windows", 2, 2, TRUE, 2, <<Line(2, 0, 1)>>, <<TRUE>>, "repeating")}
=============================================================================
