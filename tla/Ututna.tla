------------------------------- MODULE Ututna -------------------------------
(***************************************************************************)
(* ututna/main.c, the native build: main reads the options, then runs the  *)
(* selected tests in a fixed order.  Each test calls code extracted from   *)
(* libabenchmark.so, which calls back into main.c (gemm_malloc, gemm_free, *)
(* the map hook, the physics stopwatch), measures one or two loops with    *)
(* begin() and end(), and prints lines with print_score.                   *)
(*                                                                         *)
(* The counters are the module PerfCounters: begin() and end() conjoin its *)
(* operations, and a call it does not expect leaves the driver stuck.      *)
(*                                                                         *)
(* Time is counted in loop iterations, so a duration says whose iterations *)
(* it covers.  Scores are left out.                                        *)
(***************************************************************************)
EXTENDS Integers, Sequences, FiniteSets

CONSTANTS
  MAX_COUNTERS, VALS, Options, MaxOptions, MaxCount, \* see PerfCounters
  Args,             \* the [id, loops] the command line may hold
  DefaultLoops,     \* loops of each test when the command line names none
  UnorderedFactor,  \* 10 in test_603_map
  NULL

VARIABLES
  grp, ratios, headers, counters_begin, counters_end, counters_valid,
  count, enabled, unread, phase,  \* see PerfCounters
  pc,        \* the section running, and the step it is at
  arg,       \* id and loops of the command line
  i,         \* the running loop's i, also the calls of a gemm set-up
  loops,     \* the running loop's bound
  ok,        \* no library call of the section reported a failure
  since,     \* work done since the last begin(), by whom (the clock)
  window,    \* the work between the last perf_begin and perf_end
  secs,      \* the last duration computed, by whose work it covers
  gemm,      \* gemm_ptrs, gemm_idx and the two results
  map,       \* test_map_idx, loops_unordered, test_map_results, and whether
             \* the ordered map was passed over
  block,     \* the block the running section owns (cfg, ret[0], data)
  heap,      \* the live blocks of s_malloc
  line       \* the last line print_score wrote

perf == <<grp, ratios, headers, counters_begin, counters_end, counters_valid,
          count, enabled, unread, phase>>
local == <<arg, i, loops, ok>>
timing == <<since, window, secs>>
memory == <<gemm, map, block, heap>>
driver == <<pc, local, timing, memory, line>>
uvars == <<perf, driver>>

Perf == INSTANCE PerfCounters

Gemm == {"SGEMM", "DGEMM"}
Maps == {"ORDERED", "UNORDERED"}
Measured == {"FFT", "PNG", "PHYSICS", "HASH"} \cup Gemm \cup Maps
Workers == Measured \cup {"SETUP"}

Nobody == [w \in Workers |-> 0]
By(w, k) == [Nobody EXCEPT ![w] = k]
Plus(f, g) == [w \in Workers |-> f[w] + g[w]]

At(sec, step) == pc = [sec |-> sec, step |-> step]
Goto(sec, step) == pc' = [sec |-> sec, step |-> step]

-----------------------------------------------------------------------------
(* main: the order of the tests and the loops of each.                     *)

Tests == <<"FFT", "GEMM", "MAP", "PNG", "PHYSICS", "HASH">>
Id == [FFT |-> 600, GEMM |-> 601, MAP |-> 603, PNG |-> 609, PHYSICS |-> 614,
       HASH |-> 607]

ASSUME CommandLineAssumption ==
  /\ Args \subseteq [id : Nat, loops : Int]
  /\ DefaultLoops \in [DOMAIN Id -> Nat]
ASSUME FactorAssumption == UnorderedFactor \in Nat \ {0}
ASSUME NullAssumption == NULL \notin Nat \cup [Workers -> Nat]

Entry(test) == CASE test = "GEMM" -> "SGEMM"
                 [] test = "MAP" -> "ORDERED"
                 [] OTHER -> test

LoopsOf(a, test) == IF a.loops /= 0 THEN a.loops ELSE DefaultLoops[test]

\* Control reaches the first selected test from the k-th on, or what comes
\* after all of them.
RunFrom(k, a) ==
  LET selected == {j \in k..Len(Tests) : a.id \in {0, Id[Tests[j]]}}
  IN IF selected = {}
     THEN /\ Goto("MAIN", IF a.id = 1000 THEN "selftest" ELSE "done")
          /\ UNCHANGED loops
     ELSE LET test == Tests[CHOOSE j \in selected : \A m \in selected : j <= m]
          IN Goto(Entry(test), "enter") /\ loops' = LoopsOf(a, test)

\* Mutant: the test after next is looked at first.
RunAfter_SkipsOne(test) ==
  RunFrom(2 + CHOOSE k \in 1..Len(Tests) : Tests[k] = test, arg)

RunAfter(test) == RunFrom(1 + CHOOSE k \in 1..Len(Tests) : Tests[k] = test, arg)

ReadOption == /\ At("MAIN", "options")
              /\ \E o \in Options : Perf!PerfConfig(o[1], o[2])
              /\ UNCHANGED driver

\* getopt answers '?' to an option it does not know, to one that lacks its
\* argument, and to -?; it leaves optarg at NULL then, where strtoul faults.
UnknownOption == /\ At("MAIN", "options")
                 /\ Goto("MAIN", "crashed")
                 /\ UNCHANGED <<perf, local, timing, memory, line>>

StartTests == /\ At("MAIN", "options")
              /\ Perf!PerfInit
              /\ \E a \in Args : arg' = a /\ RunFrom(1, a)
              /\ UNCHANGED <<i, ok, timing, memory, line>>

-----------------------------------------------------------------------------
(* begin(), end(), print_score, s_malloc and s_free.                       *)

Begin(sec) ==
  /\ At(sec, "begin")
  /\ \/ Perf!PerfBeginReset /\ Goto(sec, "reading")
     \/ Perf!PerfBeginNothing /\ Goto(sec, "loop")
  /\ since' = Nobody
  /\ i' = 0
  /\ UNCHANGED <<arg, loops, ok, window, secs, memory, line>>

BeginRead(sec) ==
  /\ At(sec, "reading")
  /\ Perf!PerfBeginRead
  /\ Goto(sec, "loop")
  /\ UNCHANGED <<local, timing, memory, line>>

\* Mutant: end() without perf_end.
EndOf_NoPerfEnd(sec) == /\ UNCHANGED perf
                        /\ window' = since
                        /\ IF sec = "PNG" THEN UNCHANGED secs ELSE secs' = since

\* What end() returns; the png test ignores it.
EndOf(sec) == /\ Perf!PerfEnd
              /\ window' = since
              /\ IF sec = "PNG" THEN UNCHANGED secs ELSE secs' = since

\* print_score: the counters' row is appended when one is waiting.
PrintScore(name, duration, column) ==
  /\ line' = [name |-> name, loops |-> column, secs |-> duration,
              row |-> IF counters_valid THEN window ELSE NULL,
              ok |-> ok, iters |-> i, skipped |-> map.skipped]
  /\ IF counters_valid THEN Perf!PerfPrint ELSE UNCHANGED perf

\* A block that is not live, as malloc returns; or NULL.
Fresh == CHOOSE b \in 1..Cardinality(heap) + 1 : b \notin heap

-----------------------------------------------------------------------------
(* Loops that only call the library: FFT, GEMM, the maps and HASH.         *)

Simple == {"FFT", "HASH"} \cup Gemm \cup Maps

\* The map loop ends when the container refuses, the hash loop on an error.
MayBreak == {"HASH"} \cup Maps

\* The loops of main.c and of the library run while i < loops.
LoopEnded_Equal == i = loops   \* mutant: while i != loops
LoopEnded == i >= loops

Iterate(sec) ==
  /\ At(sec, "loop")
  /\ i < loops
  /\ sec = "FFT" => block /= NULL
  /\ i' = i + 1
  /\ since' = [since EXCEPT ![sec] = @ + 1]
  /\ UNCHANGED <<perf, pc, arg, loops, ok, window, secs, memory, line>>

Leave(sec) ==
  /\ At(sec, "loop")
  /\ \/ LoopEnded /\ UNCHANGED ok
     \/ i < loops /\ sec \in MayBreak /\ ok' = FALSE
  /\ EndOf(sec)
  /\ Goto(sec, "print")
  /\ UNCHANGED <<arg, i, loops, since, memory, line>>

-----------------------------------------------------------------------------
(* test_600_fft and test_607_hash.                                         *)

\* kiss_fftr_alloc and generate_test_data.  Without memory the one returns
\* NULL, which nobody looks at, and the other faults.
TakeBlock(sec) ==
  /\ At(sec, "enter")
  /\ \/ /\ block' = Fresh
        /\ heap' = heap \cup {Fresh}
        /\ Goto(sec, "begin")
     \/ /\ sec = "FFT"
        /\ block' = NULL
        /\ Goto(sec, "begin")
        /\ UNCHANGED heap
     \/ /\ sec = "HASH"
        /\ Goto("MAIN", "crashed")
        /\ UNCHANGED <<block, heap>>
  /\ ok' = TRUE
  /\ since' = [since EXCEPT !["SETUP"] = @ + 1]
  /\ UNCHANGED <<perf, arg, i, loops, window, secs, gemm, map, line>>

\* The first kiss_fftr reads its cfg.
NullCfg == /\ At("FFT", "loop")
           /\ i < loops
           /\ block = NULL
           /\ Goto("MAIN", "crashed")
           /\ UNCHANGED <<perf, local, timing, memory, line>>

PrintFft == /\ At("FFT", "print")
            /\ PrintScore("600_FFT", secs, loops)
            /\ RunAfter("FFT")
            /\ UNCHANGED <<arg, i, ok, timing, memory>>

PrintHash == /\ At("HASH", "print")
             /\ PrintScore("607_HASH", secs, loops)
             /\ heap' = heap \ {block}
             /\ RunAfter("HASH")
             /\ UNCHANGED <<arg, i, ok, timing, gemm, map, block>>

-----------------------------------------------------------------------------
(* test_601_gemm.                                                          *)

NoPtrs == <<NULL, NULL, NULL>>

\* What a call of gemm_free for each matrix gives back: nothing, so that the
\* matrices outlive the library's own clean-up.
GemmFree_Frees == {gemm.ptrs[k] : k \in 1..3}   \* mutant: it frees them
GemmFree == {}

\* What gemm_cleanup gives back, and what it leaves of the pool.
CleanupFrees_Two == {gemm.ptrs[k] : k \in 1..2}   \* mutant: off by one
CleanupFrees == {gemm.ptrs[k] : k \in 1..3}
CleanPool_KeepsIdx == [gemm EXCEPT !.ptrs = NoPtrs]   \* mutant: no reset
CleanPool == [gemm EXCEPT !.ptrs = NoPtrs, !.idx = 0]

DgemmLoops(n) == IF n > 1 THEN n \div 2 ELSE 1

EnterGemm(sec) ==
  /\ At(sec, "enter")
  /\ IF sec = "SGEMM"
     THEN gemm' = [gemm EXCEPT !.loops = loops] /\ UNCHANGED loops
     ELSE loops' = DgemmLoops(gemm.loops) /\ UNCHANGED gemm
  /\ i' = 0
  /\ ok' = TRUE
  /\ since' = [since EXCEPT !["SETUP"] = @ + 1]
  /\ Goto(sec, "setup")
  /\ UNCHANGED <<perf, arg, window, secs, map, block, heap, line>>

\* test_sgemm and test_dgemm take three matrices from gemm_malloc, which
\* stores what s_malloc returns, NULL too.
GemmMalloc(sec) ==
  /\ At(sec, "setup")
  /\ i < 3
  /\ IF gemm.idx >= 3
     THEN Goto("MAIN", "exited") /\ UNCHANGED <<gemm, heap, i>>
     ELSE /\ \E ptr \in {Fresh, NULL} :
               /\ gemm' = [gemm EXCEPT !.ptrs[gemm.idx + 1] = ptr,
                                       !.idx = @ + 1]
               /\ heap' = heap \cup ({ptr} \ {NULL})
          /\ i' = i + 1
          /\ UNCHANGED pc
  /\ UNCHANGED <<perf, arg, loops, ok, timing, map, block, line>>

\* With all three they run a functional test, stubbed to fail, and return
\* -1 keeping the matrices; otherwise they free them and return 0, and
\* nothing is measured.
GemmReturns(sec) ==
  /\ At(sec, "setup")
  /\ i = 3
  /\ IF \E k \in 1..3 : gemm.ptrs[k] = NULL
     THEN /\ heap' = heap \ GemmFree
          /\ ok' = FALSE
          /\ secs' = Nobody
          /\ Goto(sec, "print")
     ELSE Goto(sec, "begin") /\ UNCHANGED <<heap, ok, secs>>
  /\ i' = 0
  /\ UNCHANGED <<perf, arg, loops, since, window, gemm, map, block, line>>

PrintGemm(sec) ==
  /\ At(sec, "print")
  /\ PrintScore(IF sec = "SGEMM" THEN "[SGEMM]" ELSE "[DGEMM]", secs, loops)
  /\ gemm' = [gemm EXCEPT !.results[sec] = secs]
  /\ Goto(sec, "cleanup")
  /\ UNCHANGED <<local, timing, map, block, heap>>

GemmCleanup(sec) ==
  /\ At(sec, "cleanup")
  /\ heap' = heap \ CleanupFrees
  /\ gemm' = CleanPool
  /\ IF sec = "SGEMM" THEN Goto("DGEMM", "enter") ELSE Goto(sec, "summary")
  /\ UNCHANGED <<perf, local, timing, map, block, line>>

GemmSummary ==
  /\ At("DGEMM", "summary")
  /\ PrintScore("601_GEMM", Plus(gemm.results["SGEMM"], gemm.results["DGEMM"]),
                gemm.loops)
  /\ RunAfter("GEMM")
  /\ UNCHANGED <<arg, i, ok, timing, memory>>

-----------------------------------------------------------------------------
(* test_603_map and its hook, test_const_time.                             *)

UnorderedLoops(n) == IF n > 1 THEN n * UnorderedFactor ELSE 1

EnterMap ==
  /\ At("ORDERED", "enter")
  /\ map' = [map EXCEPT !.idx = 0, !.unordered = UnorderedLoops(loops),
                        !.loops = loops, !.skipped = FALSE]
  /\ Goto("ORDERED", "library")
  /\ UNCHANGED <<perf, local, timing, gemm, block, heap, line>>

AfterMap(sec) == IF sec = "ORDERED" THEN Goto("UNORDERED", "library")
                                    ELSE Goto("UNORDERED", "summary")

\* The hook's loops: half of what test_map was given, which it raises to 2,
\* or loops_unordered on the second call.
HalfArgument == IF map.loops > 1 THEN map.loops ELSE 1
HookLoops_FirstOnly == HalfArgument   \* mutant: loops_unordered is not used
HookLoops == IF map.idx = 1 THEN map.unordered ELSE HalfArgument

\* test_map prepares a map and calls the hook; when the preparation fails it
\* passes the hook over.
TestMap(sec) ==
  /\ At(sec, "library")
  /\ since' = [since EXCEPT !["SETUP"] = @ + 1]
  /\ \/ /\ loops' = HookLoops
        /\ ok' = TRUE
        /\ Goto(sec, "begin")
        /\ UNCHANGED map
     \/ /\ map' = [map EXCEPT !.skipped = @ \/ sec = "ORDERED"]
        /\ AfterMap(sec)
        /\ UNCHANGED <<loops, ok>>
  /\ UNCHANGED <<perf, arg, i, window, secs, gemm, block, heap, line>>

ResultSlot_Late == map.idx + 1   \* mutant: test_map_idx++ comes first
ResultSlot == map.idx

PrintMap(sec) ==
  LET results == [map.results EXCEPT ![ResultSlot] = secs]
  IN /\ At(sec, "print")
     /\ map' = [map EXCEPT !.results = results, !.idx = @ + 1]
     /\ IF map.idx = 0
        THEN PrintScore("[MAP.ORDERED]", results[0], loops)
        ELSE PrintScore("[MAP.UNORDERED]", results[1], map.unordered)
     /\ AfterMap(sec)
     /\ UNCHANGED <<local, timing, gemm, block, heap>>

MapSummary ==
  /\ At("UNORDERED", "summary")
  /\ PrintScore("603_MAP", Plus(map.results[0], map.results[1]), map.loops)
  /\ RunAfter("MAP")
  /\ UNCHANGED <<arg, i, ok, timing, memory>>

-----------------------------------------------------------------------------
(* test_609_png.                                                           *)

EnterPng ==
  /\ At("PNG", "enter")
  /\ secs' = Nobody
  /\ ok' = TRUE
  /\ Goto("PNG", "begin")
  /\ UNCHANGED <<perf, arg, i, loops, since, window, memory, line>>

\* loadMemPNG times itself.  Without memory for the image it returns -1.0,
\* which is added like a duration, and leaves ret[0] at 0.
PngDecode ==
  /\ At("PNG", "loop")
  /\ i < loops
  /\ \/ /\ block' = Fresh
        /\ heap' = heap \cup {Fresh}
        /\ secs' = [secs EXCEPT !["PNG"] = @ + 1]
        /\ UNCHANGED ok
     \/ /\ block' = NULL
        /\ secs' = [secs EXCEPT !["PNG"] = @ - 1]
        /\ ok' = FALSE
        /\ UNCHANGED heap
  /\ since' = [since EXCEPT !["PNG"] = @ + 1]
  /\ Goto("PNG", "free")
  /\ UNCHANGED <<perf, arg, i, loops, window, gemm, map, line>>

PngFree ==
  /\ At("PNG", "free")
  /\ heap' = heap \ {block}
  /\ i' = i + 1
  /\ Goto("PNG", "loop")
  /\ UNCHANGED <<perf, arg, loops, ok, timing, gemm, map, block, line>>

PngLeave ==
  /\ At("PNG", "loop")
  /\ LoopEnded
  /\ EndOf("PNG")
  /\ Goto("PNG", "print")
  /\ UNCHANGED <<local, since, memory, line>>

PrintPng == /\ At("PNG", "print")
            /\ PrintScore("609_PNG", secs, loops)
            /\ RunAfter("PNG")
            /\ UNCHANGED <<arg, i, ok, timing, memory>>

-----------------------------------------------------------------------------
(* test_614_physics.  The library sets its space up, calls                 *)
(* s_StartStopwatch, steps by 5.0 / loops until 5.0 is reached, and calls  *)
(* s_StopStopwatch.  The steps are added up in floating point: rounding    *)
(* may take one step more.  A negative step never gets there.              *)

EnterPhysics ==
  /\ At("PHYSICS", "enter")
  /\ ok' = TRUE
  /\ since' = [since EXCEPT !["SETUP"] = @ + 1]
  /\ Goto("PHYSICS", "begin")
  /\ UNCHANGED <<perf, arg, i, loops, window, secs, memory, line>>

PhysicsStep ==
  /\ At("PHYSICS", "loop")
  /\ loops > 0 => i <= loops
  /\ i' = IF loops > 0 THEN i + 1 ELSE 1
  /\ since' = [since EXCEPT !["PHYSICS"] = i']
  /\ UNCHANGED <<perf, pc, arg, loops, ok, window, secs, memory, line>>

PhysicsLeave ==
  /\ At("PHYSICS", "loop")
  /\ loops > 0
  /\ i >= loops
  /\ EndOf("PHYSICS")
  /\ Goto("PHYSICS", "print")
  /\ UNCHANGED <<local, since, memory, line>>

PrintPhysics == /\ At("PHYSICS", "print")
                /\ PrintScore("614_PHYSICS", secs, loops)
                /\ RunAfter("PHYSICS")
                /\ UNCHANGED <<arg, i, ok, timing, memory>>

-----------------------------------------------------------------------------
\* stdlib_test, of id 1000: test_memset fills ten bytes, the first five again,
\* by the memset of the program's own C library.  Nothing is measured, no line
\* is print_score's.
Filled(buf, c, n) == [k \in DOMAIN buf |-> IF k <= n THEN c ELSE buf[k]]
SelfTest ==
  /\ At("MAIN", "selftest")
  /\ LET buf == Filled(Filled([k \in 1..10 |-> NULL], 10, 10), 5, 5)
     IN line' = [line EXCEPT !.name =
                   IF buf[1] = 5 /\ buf[5] = 5 /\ buf[6] = 10
                   THEN "test_memset pass" ELSE "test_memset failed"]
  /\ Goto("MAIN", "done")
  /\ UNCHANGED <<perf, local, timing, memory>>

-----------------------------------------------------------------------------
Init ==
  /\ Perf!Init
  /\ pc = [sec |-> "MAIN", step |-> "options"]
  /\ arg = [id |-> 0, loops |-> 0]
  /\ i = 0
  /\ loops = 0
  /\ ok = TRUE
  /\ since = Nobody
  /\ window = Nobody
  /\ secs = Nobody
  /\ gemm = [ptrs |-> NoPtrs, idx |-> 0, loops |-> 0,
             results |-> [sec \in Gemm |-> Nobody]]
  /\ map = [idx |-> 0, unordered |-> 0, loops |-> 0, skipped |-> FALSE,
            results |-> [k \in 0..1 |-> Nobody]]
  /\ block = NULL
  /\ heap = {}
  /\ line = [name |-> "UTUTNA", loops |-> 0, secs |-> Nobody, row |-> NULL,
             ok |-> TRUE, iters |-> 0, skipped |-> FALSE]

Driver ==
  \/ ReadOption \/ UnknownOption \/ StartTests \/ SelfTest
  \/ \E sec \in Measured : Begin(sec) \/ BeginRead(sec)
  \/ \E sec \in Simple : Iterate(sec) \/ Leave(sec)
  \/ \E sec \in {"FFT", "HASH"} : TakeBlock(sec)
  \/ NullCfg \/ PrintFft \/ PrintHash
  \/ \E sec \in Gemm : \/ EnterGemm(sec) \/ GemmMalloc(sec) \/ GemmReturns(sec)
                       \/ PrintGemm(sec) \/ GemmCleanup(sec)
  \/ GemmSummary
  \/ EnterMap
  \/ \E sec \in Maps : TestMap(sec) \/ PrintMap(sec)
  \/ MapSummary
  \/ EnterPng \/ PngDecode \/ PngFree \/ PngLeave \/ PrintPng
  \/ EnterPhysics \/ PhysicsStep \/ PhysicsLeave \/ PrintPhysics

\* The group counts whatever runs; an oversized read may end the program.
Kernel == (Perf!Work \/ Perf!Overrun) /\ UNCHANGED driver

Next == Driver \/ Kernel

\* The process is scheduled: nothing else keeps the driver from its next step.
Spec == Init /\ [][Next]_uvars /\ WF_uvars(Driver)

-----------------------------------------------------------------------------
(* Properties.                                                             *)

LineOf == [FFT |-> "600_FFT", SGEMM |-> "[SGEMM]", DGEMM |-> "[DGEMM]",
           ORDERED |-> "[MAP.ORDERED]", UNORDERED |-> "[MAP.UNORDERED]",
           PNG |-> "609_PNG", PHYSICS |-> "614_PHYSICS", HASH |-> "607_HASH"]

MeasuredLines == {LineOf[sec] : sec \in Measured}
Whose(name) == CHOOSE sec \in Measured : LineOf[sec] = name

Summary == [FFT |-> "600_FFT", GEMM |-> "601_GEMM", MAP |-> "603_MAP",
            PNG |-> "609_PNG", PHYSICS |-> "614_PHYSICS", HASH |-> "607_HASH"]

\* The map a line's hook was called with: the label counts calls, so when the
\* ordered map is passed over, the unordered one is labelled ordered.
Section(l) == IF l.name = "[MAP.ORDERED]" /\ l.skipped THEN "UNORDERED"
                                                       ELSE Whose(l.name)

Steps == {"options", "enter", "begin", "reading", "setup", "library", "loop",
          "free", "print", "cleanup", "summary", "selftest", "done",
          "exited", "crashed"}

(* The shape of the driver's state; test_map_idx never passes the end of   *)
(* test_map_results when the hook writes there.                            *)
TypeOK ==
  /\ pc \in [sec : Measured \cup {"MAIN"}, step : Steps]
  /\ arg \in Args \cup {[id |-> 0, loops |-> 0]}
  /\ i \in Nat /\ loops \in Int /\ ok \in BOOLEAN
  /\ {since, window} \subseteq [Workers -> Nat]
  /\ secs \in [Workers -> Int]
  /\ gemm \in [ptrs : [1..3 -> Nat \cup {NULL}], idx : 0..3, loops : Int,
               results : [Gemm -> [Workers -> Nat]]]
  /\ map \in [idx : 0..2, unordered : Int, loops : Int,
              skipped : BOOLEAN, results : [0..1 -> [Workers -> Nat]]]
  /\ pc.sec \in Maps /\ pc.step = "print" => ResultSlot \in 0..1
  /\ block \in Nat \cup {NULL} /\ heap \subseteq Nat

(* A row of counters stands on the line of the loop it was counted in,     *)
(* holds all of that loop's iterations and no set-up work, and is on every *)
(* measured line when counters are configured.  The summary lines 601_GEMM *)
(* and 603_MAP, printed with no window of their own, carry no old row.     *)
RowsBelongToLines ==
  /\ line.row /= NULL => /\ line.name \in MeasuredLines
                         /\ line.row = By(Section(line), line.iters)
  /\ (/\ line.name \in MeasuredLines
      /\ grp.n /= 0
      /\ line.name \in {"[SGEMM]", "[DGEMM]"} => line.ok) => line.row /= NULL

AtLeastNone(n) == IF n < 0 THEN 0 ELSE n

(* DURATION covers the loop the line names and nothing else, and that loop *)
(* ran as often as LOOPS says, or one step more for the physics rounding.  *)
(* 601_GEMM and 603_MAP add up the durations of their two lines.  Excepted *)
(* are lines of a failure: no matrices, an image of -1.0 seconds, a loop   *)
(* that broke off.                                                         *)
DurationsBelongToLines ==
  LET ran == line.iters
      asked == AtLeastNone(line.loops)
  IN /\ line.name \in MeasuredLines /\ line.ok =>
          /\ line.secs = By(Section(line), ran)
          /\ IF line.name = "614_PHYSICS" THEN ran \in {asked, asked + 1}
                                          ELSE ran = asked
     /\ line.name = "601_GEMM" =>
          \E s \in {0, asked}, d \in {0, DgemmLoops(line.loops)} :
            line.secs = Plus(By("SGEMM", s), By("DGEMM", d))
     /\ line.name = "603_MAP" =>
          /\ line.secs = Plus(By("ORDERED", line.secs["ORDERED"]),
                              By("UNORDERED", line.secs["UNORDERED"]))
          /\ line.secs["UNORDERED"] <= UnorderedLoops(line.loops)

(* The loops of test_601_gemm run on the three matrices the set-up stored  *)
(* for them: present, different, and not freed; and whatever gemm_cleanup  *)
(* will free is live.                                                      *)
GemmMatricesLive ==
  LET stored == {k \in 1..3 : gemm.ptrs[k] /= NULL}
  IN /\ \A k \in stored : gemm.ptrs[k] \in heap
     /\ \A k, m \in stored : k /= m => gemm.ptrs[k] /= gemm.ptrs[m]
     /\ pc.sec \in Gemm /\ pc.step \in {"begin", "reading", "loop"} =>
          stored = 1..3

(* The pool of three is enough for both set-ups, also after one that got   *)
(* only some of its matrices: gemm_malloc never gives up.                  *)
GemmPoolSuffices == ~At("MAIN", "exited")

(* Every block a test takes is given back before the next test starts, an  *)
(* image before the next image: only kiss_fftr's cfg, if there was memory  *)
(* for it, outlives its test.                                              *)
NoLeaks ==
  pc.step \in {"enter", "done"} \/ At("PNG", "loop") =>
    Cardinality(heap) <=
      IF pc.sec /= "FFT" /\ arg.id \in {0, 600} THEN 1 ELSE 0

\* What perf.c has to be in for the call the driver makes next to be in order.
PhaseAt(step) == CASE step = "options" -> "options"
                   [] step = "reading" -> "reset"
                   [] step \in {"loop", "free"} -> "open"
                   [] OTHER -> "idle"

(* begin() never finds a window open, nor end() none, nor print_score one  *)
(* that is not closed, whichever tests ran before, however they ended, and *)
(* whichever of their callbacks were passed over.                          *)
CallsInOrder ==
  pc.step = "crashed" \/ phase \in {PhaseAt(pc.step), "exited", "corrupt"}

Stopped == \/ pc.sec = "MAIN" /\ pc.step \in {"done", "exited", "crashed"}
           \/ phase \in {"exited", "corrupt"}

\* The one loop with no end: the physics steps of a negative length.
Endless == pc.sec = "PHYSICS" /\ loops < 0

(* The run ends, except that test_614_physics with a negative number of    *)
(* loops never reaches its time.                                           *)
Terminates == <>(Stopped \/ Endless)

\* The first line of the tests an id selects.
Started(ids) == line.name = "UTUTNA" /\ phase /= "options" /\ arg.id \in ids
Died == Stopped /\ ~At("MAIN", "done")

(* Once the command line is read, every test it selects prints the line    *)
(* with its score, the self test that it passed, unless the process dies   *)
(* or hangs before.                                                        *)
SelectedTestsReport ==
  /\ \A test \in DOMAIN Id :
       Started({0, Id[test]})
         ~> (line.name = Summary[test] \/ Died \/ Endless)
  /\ Started({1000}) ~> (line.name = "test_memset pass" \/ Died)

=============================================================================
