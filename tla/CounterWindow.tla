--------------------------- MODULE CounterWindow ---------------------------
(***************************************************************************)
(* What ututna/perf.c promises its callers: a stopwatch for event counts.  *)
(* Between perf_begin and perf_end every configured counter tallies what   *)
(* happens, perf_end freezes the tallies, and perf_print shows the frozen  *)
(* tallies of one window once.  There is no kernel, no file descriptor, no *)
(* buffer and no subtraction here; PerfCounters.tla has them and is shown  *)
(* to implement this specification.                                        *)
(***************************************************************************)
EXTENDS Naturals

CONSTANT Counters   \* the counters a window can tally

VARIABLES
  mode,    \* "idle", "open", "closed" (frozen and not shown yet) or "lost"
  tally    \* what each counter has seen in the current or the last window

wvars == <<mode, tally>>

Nothing == [c \in Counters |-> 0]

Init == mode = "idle" /\ tally = Nothing

\* A window opens with every tally at zero, also when the last one was
\* never shown.
Begin == /\ mode \in {"idle", "closed"}
         /\ mode' = "open"
         /\ tally' = Nothing

\* Tallies of an open window only grow.
Count == /\ mode = "open"
         /\ tally' \in [Counters -> Nat]
         /\ \A c \in Counters : tally'[c] >= tally[c]
         /\ UNCHANGED mode

\* Closing a window keeps what it tallied.
End == mode = "open" /\ mode' = "closed" /\ UNCHANGED tally

\* Showing a window uses it up.
Show == mode = "closed" /\ mode' = "idle" /\ UNCHANGED tally

\* The statics were overwritten: nothing is promised from here on.
Lose == mode /= "lost" /\ mode' = "lost"

Next == Begin \/ Count \/ End \/ Show \/ Lose

Spec == Init /\ [][Next]_wvars

=============================================================================
