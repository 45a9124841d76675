--------------------------- MODULE MCPerfCounters ---------------------------
(* Instances of PerfCounters for TLC: the command lines it may be given.   *)
EXTENDS PerfCounters

\* Pairs, single raw counters and a pair that does not exist.
MixedOptions == {<<"i", 0>>, <<"i", 1>>, <<"i", 7>>, <<"r", 29>>}

\* The options README.md shows.
ReadmeOptions == {<<"i", 0>>, <<"i", 1>>, <<"i", 2>>, <<"r", 29>>}
=============================================================================
