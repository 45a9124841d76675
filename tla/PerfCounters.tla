---------------------------- MODULE PerfCounters ----------------------------
(***************************************************************************)
(* ututna/perf.c: the group of hardware event counters ututna measures a   *)
(* benchmark with.  perf_config opens the counters the command line asks   *)
(* for, perf_init starts them, perf_begin and perf_end read the group into *)
(* two static buffers around a measured loop, perf_print shows the         *)
(* differences and, for the predefined pairs, a ratio.                     *)
(*                                                                         *)
(* Arrays indexed from 0 in C are indexed from 1 here.  The kernel's       *)
(* perf_event side is modelled from how perf.c uses it.                    *)
(***************************************************************************)
EXTENDS Integers, Sequences

CONSTANTS
  MAX_COUNTERS,  \* #define MAX_COUNTERS
  VALS,          \* length of counters_t.vals
  Options,       \* the <<type, code>> pairs the command line may hold
  MaxOptions,    \* bound: options on one command line
  MaxCount       \* bound: what one counter counts between two resets

ASSUME SizesAssumption == MAX_COUNTERS \in Nat /\ VALS \in Nat
ASSUME BoundsAssumption == MaxOptions \in Nat /\ MaxCount \in Nat

VARIABLES
  grp,             \* fd and n_counters of perf.c, and the kernel's events
  ratios,          \* ratios[MAX_COUNTERS]
  headers,         \* headers[], one record per printed column
  counters_begin,  \* counters_begin.vals, with the memory behind it
  counters_end,    \* counters_end.vals, with the memory behind it
  counters_valid,  \* counters_valid
  count,           \* kernel: what each opened event has counted
  enabled,         \* kernel: the group is enabled
  unread,          \* options getopt has not returned yet
  phase            \* where the caller is: see Phases

vars == <<grp, ratios, headers, counters_begin, counters_end, counters_valid,
          count, enabled, unread, phase>>
buffers == <<counters_begin, counters_end, counters_valid>>
config == <<grp, ratios, headers, unread>>

(* "options": main's getopt loop.  "idle": outside a measured window.      *)
(* "reset": inside perf_begin, between the ioctl and the read.  "open":    *)
(* between perf_begin and perf_end.  "exited": perf_open gave up.          *)
(* "corrupt": a read ran over the end of its buffer into other statics.    *)
Phases == {"options", "idle", "reset", "open", "exited", "corrupt"}

Slots == 1..MAX_COUNTERS
Zeroed == [i \in Slots |-> 0]

-----------------------------------------------------------------------------
(* The events and the columns of the output.                               *)

EventTypes == {"HARDWARE", "HW_CACHE", "RAW"}

EventType(type) == CASE type = "h" -> "HARDWARE"
                     [] type = "c" -> "HW_CACHE"
                     [] OTHER -> "RAW"

Raw(code) == <<"RAW", code>>

(* The pairs of -i: counter num, counter den, and the factor of num / den. *)
Predefined ==
  [code \in 0..2 |->
     CASE code = 0 -> [num |-> Raw(8), den |-> Raw(17), scale |-> 1]
       [] code = 1 -> [num |-> Raw(3), den |-> Raw(4), scale |-> 100]
       [] code = 2 -> [num |-> Raw(23), den |-> Raw(22), scale |-> 100]]

CountColumn(event) == [kind |-> "count", of |-> event]
RatioColumn(num, den, scale) ==
  [kind |-> "ratio", of |-> <<num, den>>, scale |-> scale]

PairHeader_Swapped(p) == <<CountColumn(p.den), CountColumn(p.num),
                           RatioColumn(p.num, p.den, p.scale)>>   \* mutant
PairHeader(p) == <<CountColumn(p.num), CountColumn(p.den),
                   RatioColumn(p.num, p.den, p.scale)>>
SingleHeader(event) == <<CountColumn(event)>>

-----------------------------------------------------------------------------
(* The kernel's event groups.                                              *)

(* An event joins the group of the event it names, or leads a new one.     *)
(* Only a leader can be named: for any other descriptor the call fails.    *)
Accepts(g) == \/ g.fd = -1
              \/ \E i \in DOMAIN g.members :
                   g.members[i].fd = g.fd /\ g.members[i].leader = g.fd

(* The lowest free descriptor: 0, 1 and 2 are the standard streams.        *)
FreshFd(g) == Len(g.members) + 3

(* The positions of the events that act together with descriptor g.fd.     *)
Group(g) == {i \in DOMAIN g.members :
               \E j \in DOMAIN g.members :
                 /\ g.members[j].fd = g.fd
                 /\ g.members[j].leader = g.members[i].leader}

(* perf_open keeps the first descriptor only.                              *)
NextFd_Never(g, ret) == g.fd   \* mutant: it keeps none
NextFd(g, ret) == IF g.fd = -1 THEN ret ELSE g.fd

(* perf_open when the kernel lets it.                                      *)
Open(g, event) ==
  LET ret == FreshFd(g)
  IN [fd |-> NextFd(g, ret),
      n |-> g.n + 1,
      members |-> Append(g.members,
                    [fd |-> ret, event |-> event,
                     leader |-> IF g.fd = -1 THEN ret ELSE g.fd])]

-----------------------------------------------------------------------------
(* perf_config, once for each option getopt returns.                       *)

HasRoom_ForOne(k) == grp.n + 1 <= MAX_COUNTERS   \* mutant: also for a pair
HasRoom(k) == grp.n + k <= MAX_COUNTERS
RatioSlot_First == grp.n + 1   \* mutant: the slot of the numerator
RatioSlot == grp.n + 2

NextOption == /\ phase = "options"
              /\ unread > 0
              /\ unread' = unread - 1

Untouched == UNCHANGED <<counters_begin, counters_end, counters_valid,
                         count, enabled>>

ConfigPair(code) ==
  LET p == Predefined[code]
      g1 == Open(grp, p.num)
  IN /\ NextOption
     /\ code \in DOMAIN Predefined
     /\ HasRoom(2)
     /\ Accepts(grp) /\ Accepts(g1)
     /\ ratios' = [ratios EXCEPT ![RatioSlot] = p.scale]
     /\ grp' = Open(g1, p.den)
     /\ headers' = headers \o PairHeader(p)
     /\ Untouched
     /\ UNCHANGED phase

ConfigSingle(type, code) ==
  LET event == <<EventType(type), code>>
  IN /\ NextOption
     /\ type /= "i"
     /\ HasRoom(1)
     /\ Accepts(grp)
     /\ grp' = Open(grp, event)
     /\ headers' = headers \o SingleHeader(event)
     /\ Untouched
     /\ UNCHANGED <<ratios, phase>>

(* An option that no longer fits is dropped without a word; one that names *)
(* no predefined pair is reported.  Neither opens or records anything.     *)
ConfigDropped(type, code) ==
  /\ NextOption
  /\ IF type = "i" THEN ~HasRoom(2) \/ code \notin DOMAIN Predefined
                   ELSE ~HasRoom(1)
  /\ Untouched
  /\ UNCHANGED <<grp, ratios, headers, phase>>

(* The kernel may refuse any event (no such event, no counter left, no     *)
(* permission), and always refuses a group_fd that leads nothing.          *)
ConfigRefused(type, code) ==
  /\ NextOption
  /\ IF type = "i" THEN HasRoom(2) /\ code \in DOMAIN Predefined
                   ELSE HasRoom(1)
  /\ phase' = "exited"
  /\ Untouched
  /\ UNCHANGED <<grp, ratios, headers>>

PerfConfig(type, code) == \/ type = "i" /\ ConfigPair(code)
                          \/ ConfigSingle(type, code)
                          \/ ConfigDropped(type, code)
                          \/ ConfigRefused(type, code)

-----------------------------------------------------------------------------
(* Measuring.  Every function returns at once when nothing is configured.  *)

PerfInit == /\ phase = "options"
            /\ phase' = "idle"
            /\ enabled' = (grp.n /= 0)
            /\ UNCHANGED <<config, buffers, count>>

(* The group counts what the process does in user mode.                    *)
Work == /\ enabled
        /\ phase \in {"idle", "reset", "open"}
        /\ \E d \in [Group(grp) -> 0..MaxCount] :
             /\ \A i \in Group(grp) : count[i] + d[i] <= MaxCount
             /\ count' = [i \in Slots |-> IF i \in Group(grp)
                                          THEN count[i] + d[i] ELSE count[i]]
        /\ UNCHANGED <<config, buffers, enabled, phase>>

(* read() of nr and n_counters values in one group read.                   *)
ReadSlots_NoNr == Group(grp) \cap 1..grp.n - 1   \* mutant: no room for nr
ReadSlots == Group(grp) \cap 1..grp.n
Reading(buffer) ==
  [i \in Slots |-> IF i \in ReadSlots THEN count[i] ELSE buffer[i]]

(* The read writes n_counters values into a buffer of VALS.                *)
Overruns == grp.n > VALS

PerfBeginReset ==
  /\ phase = "idle"
  /\ grp.n /= 0
  /\ count' = [i \in Slots |-> IF i \in Group(grp) THEN 0 ELSE count[i]]
  /\ phase' = "reset"
  /\ UNCHANGED <<config, buffers, enabled>>

PerfBeginRead ==
  /\ phase = "reset"
  /\ counters_begin' = Reading(counters_begin)
  /\ phase' = "open"
  /\ UNCHANGED <<config, counters_end, counters_valid, count, enabled>>

PerfBeginNothing ==
  /\ phase = "idle"
  /\ grp.n = 0
  /\ phase' = "open"
  /\ UNCHANGED <<config, buffers, count, enabled>>

PerfEnd ==
  /\ phase = "open"
  /\ phase' = "idle"
  /\ IF grp.n = 0
     THEN UNCHANGED <<counters_end, counters_valid>>
     ELSE /\ counters_end' = Reading(counters_end)
          /\ counters_valid' = TRUE
  /\ UNCHANGED <<config, counters_begin, count, enabled>>

(* Past the end of a buffer lie padding or other objects, and then the     *)
(* values stay where perf_print looks for them (the actions above), or the *)
(* other statics of this file, and then nothing can be said any more.      *)
Overrun ==
  /\ phase \in {"reset", "open"}
  /\ Overruns
  /\ phase' = "corrupt"
  /\ UNCHANGED <<config, buffers, count, enabled>>

\* Mutant: the row stays valid.
PerfPrint_KeepsRow == phase = "idle" /\ counters_valid /\ UNCHANGED vars

PerfPrint ==
  /\ phase = "idle"
  /\ counters_valid
  /\ counters_valid' = FALSE
  /\ UNCHANGED <<config, counters_begin, counters_end, count, enabled, phase>>

-----------------------------------------------------------------------------
Init == /\ grp = [fd |-> -1, n |-> 0, members |-> <<>>]
        /\ ratios = Zeroed
        /\ headers = <<>>
        /\ counters_begin = Zeroed
        /\ counters_end = Zeroed
        /\ counters_valid = FALSE
        /\ count = Zeroed
        /\ enabled = FALSE
        /\ unread = MaxOptions
        /\ phase = "options"

Next == \/ \E o \in Options : PerfConfig(o[1], o[2])
        \/ PerfInit
        \/ Work
        \/ PerfBeginReset
        \/ PerfBeginRead
        \/ PerfBeginNothing
        \/ PerfEnd
        \/ Overrun
        \/ PerfPrint

Spec == Init /\ [][Next]_vars

-----------------------------------------------------------------------------
(* What perf_print prints, column by column.                               *)

RowCell(i) ==
  <<CountColumn(grp.members[i].event)>> \o
    (IF ratios[i] = 0 THEN <<>>
     ELSE <<RatioColumn(grp.members[i - 1].event, grp.members[i].event,
                        ratios[i])>>)

Row ==
  LET upTo[i \in 0..grp.n] == IF i = 0 THEN <<>> ELSE upTo[i - 1] \o RowCell(i)
  IN upTo[grp.n]

-----------------------------------------------------------------------------
(* Properties.                                                             *)

Member == [fd : Nat, event : EventTypes \X {o[2] : o \in Options} \cup
                             {Raw(k) : k \in {3, 4, 8, 17, 22, 23}},
           leader : Nat]

(* The shape of the state: in particular n_counters never passes           *)
(* MAX_COUNTERS, whatever mix of -i and single counters was asked for, so  *)
(* ratios[n_counters + 1] is always inside ratios[].                       *)
TypeOK ==
  /\ grp \in [fd : Nat \cup {-1}, n : 0..MAX_COUNTERS, members : Seq(Member)]
  /\ ratios \in [Slots -> {0, 1, 100}]
  /\ counters_begin \in [Slots -> Nat]
  /\ counters_end \in [Slots -> Nat]
  /\ counters_valid \in BOOLEAN
  /\ count \in [Slots -> Nat]
  /\ enabled \in BOOLEAN
  /\ unread \in Nat
  /\ phase \in Phases

(* One read of fd returns every configured counter: all opened events are  *)
(* in the group of fd, fd is that group's leader, and n_counters, which    *)
(* sizes the read and the printed row, is their number.                    *)
GroupIsComplete ==
  /\ grp.n = Len(grp.members)
  /\ Group(grp) = 1..grp.n
  /\ grp.n /= 0 => /\ grp.members[1].fd = grp.fd
                   /\ grp.members[1].leader = grp.fd

(* A factor sits only behind the second counter of a predefined pair whose *)
(* first counter is in the slot before it, so perf_print's vals[i - 1] is  *)
(* that pair's numerator, also when options are mixed and some dropped.    *)
RatioBelongsToPair ==
  \A i \in Slots : ratios[i] /= 0 =>
    \E code \in DOMAIN Predefined :
      /\ i \in 2..grp.n
      /\ grp.members[i - 1].event = Predefined[code].num
      /\ grp.members[i].event = Predefined[code].den
      /\ ratios[i] = Predefined[code].scale

(* The header line, appended to by perf_config, names exactly the columns  *)
(* perf_print will print below it, in the same order.                      *)
HeaderMatchesRow == headers = Row

(* perf_begin, perf_end and perf_print keep the promise of CounterWindow:  *)
(* what is printed is what the group counted between the read of perf_begin*)
(* and that of perf_end, for every counter, and each window is shown once. *)
Mode == CASE phase = "corrupt" -> "lost"
          [] phase = "open" /\ grp.n /= 0 -> "open"
          [] OTHER -> IF counters_valid THEN "closed" ELSE "idle"

Tally == [i \in Slots |->
            (IF phase = "open" THEN count[i] ELSE counters_end[i])
              - counters_begin[i]]

Window == INSTANCE CounterWindow
            WITH Counters <- Slots, mode <- Mode, tally <- Tally

ImplementsWindow == Window!Spec

(* #define MAX_COUNTERS is the number of counters the program supports:    *)
(* the group read of as many fits the buffers it goes to.                  *)
ReadsFit == phase \in {"reset", "open"} => ~Overruns

=============================================================================
