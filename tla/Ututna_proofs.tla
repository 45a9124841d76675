--------------------------- MODULE Ututna_proofs ---------------------------
(***************************************************************************)
(* What TLAPS proves about the driver, for any command lines, numbers of   *)
(* loops and counters.                                                     *)
(***************************************************************************)
EXTENDS Ututna, Elapsed, FiniteSetTheorems, TLAPS

-----------------------------------------------------------------------------
(* The order of the tests.                                                 *)

LEMMA TestFacts ==
  /\ Len(Tests) = 6
  /\ Tests[1] = "FFT" /\ Tests[2] = "GEMM" /\ Tests[3] = "MAP"
  /\ Tests[4] = "PNG" /\ Tests[5] = "PHYSICS" /\ Tests[6] = "HASH"
  /\ \A j, k \in 1..Len(Tests) : Tests[j] = Tests[k] => j = k
BY DEF Tests

LEMMA IdFacts ==
  /\ Id["FFT"] = 600 /\ Id["GEMM"] = 601 /\ Id["MAP"] = 603
  /\ Id["PNG"] = 609 /\ Id["PHYSICS"] = 614 /\ Id["HASH"] = 607
  /\ DOMAIN Id = {"FFT", "GEMM", "MAP", "PNG", "PHYSICS", "HASH"}
BY DEF Id

LEMMA EntryGemm == Entry("GEMM") = "SGEMM"
BY DEF Entry
LEMMA EntryMap == Entry("MAP") = "ORDERED"
BY DEF Entry
LEMMA EntryOther ==
  ASSUME NEW test, test /= "GEMM", test /= "MAP" PROVE Entry(test) = test
BY DEF Entry

\* The place of each section's test in the order of main.
Place == [FFT |-> 1, SGEMM |-> 2, DGEMM |-> 2, ORDERED |-> 3, UNORDERED |-> 3,
          PNG |-> 4, PHYSICS |-> 5, HASH |-> 6]

Selects(id, k) == id \in {0, Id[Tests[k]]}

LEMMA PlaceFacts ==
  /\ Place["FFT"] = 1 /\ Place["SGEMM"] = 2 /\ Place["DGEMM"] = 2
  /\ Place["ORDERED"] = 3 /\ Place["UNORDERED"] = 3 /\ Place["PNG"] = 4
  /\ Place["PHYSICS"] = 5 /\ Place["HASH"] = 6
BY DEF Place

FirstSections == {"FFT", "SGEMM", "ORDERED", "PNG", "PHYSICS", "HASH"}

LEMMA EntryFacts ==
  ASSUME NEW k \in 1..6
  PROVE  Entry(Tests[k]) \in FirstSections /\ Place[Entry(Tests[k])] = k
<1>1. Entry("FFT") = "FFT" /\ Entry("PNG") = "PNG"
      /\ Entry("PHYSICS") = "PHYSICS" /\ Entry("HASH") = "HASH"
  BY EntryOther
<1> QED BY <1>1, EntryGemm, EntryMap, TestFacts, PlaceFacts DEF FirstSections

\* Where control goes when the tests from the k-th on are looked at.
Landed(k, a) ==
  /\ pc' = [sec |-> pc'.sec, step |-> pc'.step]
  /\ \/ /\ pc'.step = "enter" /\ pc'.sec \in FirstSections
        /\ Place[pc'.sec] >= k
        /\ Selects(a.id, Place[pc'.sec])
     \/ /\ pc'.step \in {"done", "selftest"} /\ pc'.sec = "MAIN"
        /\ pc'.step = "selftest" => a.id = 1000
  /\ loops \in Int => loops' \in Int
  /\ k = 1 /\ a.id \in {0, 600} => pc'.sec = "FFT"

LEMMA LeastOfTests ==
  ASSUME NEW S \in SUBSET (1..6), S /= {}
  PROVE  \E j \in S : \A m \in S : j <= m
<1>1. CASE 1 \in S
  BY <1>1
<1>2. CASE 2 \in S
  BY <1>1, <1>2
<1>3. CASE 3 \in S
  BY <1>1, <1>2, <1>3
<1>4. CASE 4 \in S
  BY <1>1, <1>2, <1>3, <1>4
<1>5. CASE 5 \in S
  BY <1>1, <1>2, <1>3, <1>4, <1>5
<1>6. CASE 6 \in S
  BY <1>1, <1>2, <1>3, <1>4, <1>5, <1>6
<1>7. PICK m \in S : m \in {1, 2, 3, 4, 5, 6}
  <2>1. 1..6 = {1, 2, 3, 4, 5, 6}
    OBVIOUS
  <2> QED BY <2>1
<1> QED BY <1>1, <1>2, <1>3, <1>4, <1>5, <1>6, <1>7

Commands == Args \cup {[id |-> 0, loops |-> 0]}

LEMMA CommandFacts ==
  ASSUME NEW a \in Commands PROVE a.id \in Nat /\ a.loops \in Int
BY CommandLineAssumption DEF Commands

LEMMA RunFromLands ==
  ASSUME NEW k \in 1..7, NEW a \in Commands, RunFrom(k, a)
  PROVE  Landed(k, a)
<1> DEFINE selected == {j \in k..Len(Tests) : a.id \in {0, Id[Tests[j]]}}
<1>1. selected \subseteq 1..6 /\ \A j \in selected : j >= k
  BY TestFacts
<1>2. CASE selected = {}
  <2>1. /\ pc' = [sec |-> "MAIN",
                  step |-> IF a.id = 1000 THEN "selftest" ELSE "done"]
        /\ loops' = loops
    BY <1>2 DEF RunFrom, Goto
  <2>2. ~(k = 1 /\ a.id \in {0, 600})
    <3>1. k = 1 /\ a.id \in {0, 600} => 1 \in selected
      BY TestFacts, IdFacts
    <3> QED BY <1>2, <3>1
  <2> HIDE DEF selected
  <2> QED BY <2>1, <2>2 DEF Landed
<1>3. CASE selected /= {}
  <2> DEFINE j == CHOOSE j \in selected : \A m \in selected : j <= m
  <2>1. j \in selected /\ \A m \in selected : j <= m
    <3>1. \E n \in selected : \A m \in selected : n <= m
      <4> HIDE DEF selected
      <4> QED BY <1>1, <1>3, LeastOfTests
    <3> HIDE DEF selected
    <3> QED BY <3>1
  <2>2. /\ pc' = [sec |-> Entry(Tests[j]), step |-> "enter"]
        /\ loops' = LoopsOf(a, Tests[j])
    BY <1>3 DEF RunFrom, Goto
  <2>3. j \in 1..6 /\ j >= k /\ Selects(a.id, j)
    BY <1>1, <2>1 DEF Selects
  <2>4. k = 1 /\ a.id \in {0, 600} => j = 1
    <3>1. k = 1 /\ a.id \in {0, 600} => 1 \in selected
      BY TestFacts, IdFacts
    <3> HIDE DEF selected, j
    <3> QED BY <2>1, <2>3, <3>1
  <2> HIDE DEF selected, j
  <2>5. loops' \in Int
    <3>1. Tests[j] \in DOMAIN Id
      BY <2>3, TestFacts, IdFacts
    <3> QED BY <2>2, <3>1, CommandFacts, CommandLineAssumption DEF LoopsOf
  <2>6. Entry(Tests[j]) \in FirstSections /\ Place[Entry(Tests[j])] = j
    BY <2>3, EntryFacts
  <2>7. j = 1 => Entry(Tests[j]) = "FFT"
    BY TestFacts, EntryOther
  <2> QED BY <2>2, <2>3, <2>4, <2>5, <2>6, <2>7 DEF Landed
<1> QED BY <1>2, <1>3

LEMMA RunAfterLands ==
  ASSUME NEW k \in 1..6, arg \in Commands, RunAfter(Tests[k])
  PROVE  Landed(k + 1, arg)
<1>1. (CHOOSE j \in 1..Len(Tests) : Tests[j] = Tests[k]) = k
  BY TestFacts
<1>2. RunFrom(1 + k, arg)
  BY <1>1 DEF RunAfter
<1>3. 1 + k = k + 1 /\ k + 1 \in 1..7
  OBVIOUS
<1> QED BY <1>2, <1>3, RunFromLands

-----------------------------------------------------------------------------
(* Work, by whom.                                                          *)

Times == [Workers -> Nat]

LEMMA WorkerFacts ==
  /\ Measured \subseteq Workers /\ Gemm \subseteq Measured
  /\ Maps \subseteq Measured /\ Simple \subseteq Measured
  /\ "SETUP" \in Workers /\ "SETUP" \notin Measured /\ "MAIN" \notin Measured
BY DEF Workers, Measured, Gemm, Maps, Simple

LEMMA ByFacts ==
  ASSUME NEW w \in Workers, NEW k \in Int
  PROVE  /\ By(w, k) \in [Workers -> Int]
         /\ k \in Nat => By(w, k) \in Times
         /\ By(w, k)[w] = k
         /\ \A v \in Workers : v /= w => By(w, k)[v] = 0
         /\ By(w, 0) = Nobody
         /\ [By(w, k) EXCEPT ![w] = @ + 1] = By(w, k + 1)
         /\ \A n : [By(w, k) EXCEPT ![w] = n] = By(w, n)
BY DEF By, Nobody, Times

LEMMA NobodyTimes == Nobody \in Times /\ Nobody \in [Workers -> Int]
BY DEF Nobody, Times

LEMMA ByNone == \A w \in Workers : By(w, 0) = Nobody
BY DEF By, Nobody

LEMMA ByItself == \A w \in Workers : \A k : By(w, k)[w] = k
BY DEF By, Nobody

LEMMA CountedOnce ==
  ASSUME NEW f \in Times, NEW w \in Workers
  PROVE  [f EXCEPT ![w] = @ + 1] \in Times
BY DEF Times

-----------------------------------------------------------------------------
(* What the driver sees of the counters: how the configured group and the  *)
(* row that waits to be printed change.                                    *)

Quiet == grp' = grp /\ counters_valid' = counters_valid

LEMMA PerfQuiet ==
  /\ Perf!PerfInit \/ Perf!PerfBeginReset \/ Perf!PerfBeginRead
       \/ Perf!PerfBeginNothing \/ Perf!Work \/ Perf!Overrun => Quiet
  /\ UNCHANGED perf => Quiet
BY DEF Quiet, perf, Perf!PerfInit, Perf!PerfBeginReset, Perf!PerfBeginRead,
       Perf!PerfBeginNothing, Perf!Work, Perf!Overrun, Perf!config,
       Perf!buffers

LEMMA PerfConfigKeepsRow ==
  ASSUME NEW type, NEW code, Perf!PerfConfig(type, code)
  PROVE  counters_valid' = counters_valid
BY DEF Perf!PerfConfig, Perf!ConfigPair, Perf!ConfigSingle,
       Perf!ConfigDropped, Perf!ConfigRefused, Perf!Untouched

LEMMA PerfEndRow ==
  ASSUME Perf!PerfEnd
  PROVE  /\ grp' = grp
         /\ IF grp.n = 0 THEN counters_valid' = counters_valid
                         ELSE counters_valid' = TRUE
BY DEF Perf!PerfEnd, Perf!config

LEMMA PerfPrintRow ==
  ASSUME Perf!PerfPrint PROVE grp' = grp /\ counters_valid' = FALSE
BY DEF Perf!PerfPrint, Perf!config

-----------------------------------------------------------------------------
(* A block that is not live.                                               *)

LEMMA FreshFacts ==
  ASSUME heap \subseteq Nat, IsFiniteSet(heap)
  PROVE  Fresh \in Nat /\ Fresh \notin heap /\ Fresh /= NULL
<1> DEFINE n == Cardinality(heap) + 1
<1>1. n \in Nat /\ IsFiniteSet(1..n) /\ Cardinality(1..n) = n
  <2>1. n \in Nat /\ n >= 1
    BY FS_CardinalityType
  <2> HIDE DEF n
  <2>2. IsFiniteSet(1..n) /\ Cardinality(1..n) = IF 1 > n THEN 0 ELSE n - 1 + 1
    BY <2>1, FS_Interval
  <2> QED BY <2>1, <2>2
<1>2. ~(1..n \subseteq heap)
  <2>1. 1..n \subseteq heap => Cardinality(1..n) <= Cardinality(heap)
    BY FS_Subset
  <2>2. Cardinality(heap) \in Nat
    BY FS_CardinalityType
  <2> QED BY <1>1, <2>1, <2>2
<1>3. \E b \in 1..n : b \notin heap
  BY <1>2
<1>4. Fresh \in 1..n /\ Fresh \notin heap
  BY <1>3 DEF Fresh
<1> QED BY <1>1, <1>4, NullAssumption

-----------------------------------------------------------------------------
(* The lines and the loops they are about.                                 *)

LEMMA LineFacts ==
  /\ LineOf["FFT"] = "600_FFT" /\ LineOf["SGEMM"] = "[SGEMM]"
  /\ LineOf["DGEMM"] = "[DGEMM]" /\ LineOf["ORDERED"] = "[MAP.ORDERED]"
  /\ LineOf["UNORDERED"] = "[MAP.UNORDERED]" /\ LineOf["PNG"] = "609_PNG"
  /\ LineOf["PHYSICS"] = "614_PHYSICS" /\ LineOf["HASH"] = "607_HASH"
BY DEF LineOf

LEMMA WhoseFacts ==
  /\ \A sec \in Measured : LineOf[sec] \in MeasuredLines
                           /\ Whose(LineOf[sec]) = sec
  /\ {"601_GEMM", "603_MAP", "UTUTNA", "test_memset pass",
      "test_memset failed"} \cap MeasuredLines = {}
<1> USE LineFacts DEF Measured, Gemm, Maps
<1>1. \A s, t \in Measured : LineOf[s] = LineOf[t] => s = t
  OBVIOUS
<1>2. \A sec \in Measured : Whose(LineOf[sec]) = sec
  BY <1>1 DEF Whose
<1>3. \A sec \in Measured : LineOf[sec] \in MeasuredLines
  BY DEF MeasuredLines
<1>4. MeasuredLines = {"600_FFT", "[SGEMM]", "[DGEMM]", "[MAP.ORDERED]",
                       "[MAP.UNORDERED]", "609_PNG", "614_PHYSICS", "607_HASH"}
  BY DEF MeasuredLines
<1> QED BY <1>2, <1>3, <1>4

-----------------------------------------------------------------------------
(* The inductive invariant.                                                *)

(* The tests that run are those the command line selects; the options are  *)
(* read, and the self test runs, before any line is printed.               *)
Banner == [name |-> "UTUTNA", loops |-> 0, secs |-> Nobody, row |-> NULL,
           ok |-> TRUE, iters |-> 0, skipped |-> FALSE]

Selected ==
  /\ pc.sec \in Measured => Selects(arg.id, Place[pc.sec])
  /\ At("MAIN", "selftest") => arg.id = 1000
  /\ At("MAIN", "options") \/ At("MAIN", "selftest") => line = Banner
  /\ pc.step = "done" => pc.sec = "MAIN"

Asked == AtLeastNone(loops)

(* Inside a measured loop the clock holds its iterations and nothing else. *)
Measuring ==
  /\ pc.step = "reading" => i = 0 /\ since = Nobody
  /\ pc.step = "loop" => since = By(pc.sec, i)
  /\ pc.step = "free" => /\ pc.sec = "PNG" /\ i < loops
                         /\ since = By(pc.sec, i + 1)
  /\ pc.step = "loop" /\ pc.sec /= "PHYSICS" => i <= Asked
  /\ At("PHYSICS", "loop") /\ loops > 0 => i <= loops + 1
  /\ pc.sec = "PNG" /\ pc.step \in {"begin", "reading"} /\ ok => secs = Nobody
  /\ At("PNG", "loop") /\ ok => secs = By("PNG", i)
  /\ At("PNG", "free") /\ ok => secs = By("PNG", i + 1)

(* When a line is about to be printed, the row that waits and the duration *)
(* are those of the loop that ended; at no other time does a row wait.     *)
Printing ==
  /\ counters_valid => pc.step = "print" /\ window = By(pc.sec, i)
  /\ pc.step = "print" =>
       /\ (pc.sec \in Gemm /\ ~ok) \/ grp.n = 0 \/ counters_valid
       /\ \/ secs = By(pc.sec, i)
          \/ pc.sec \in Gemm /\ ~ok /\ secs = Nobody
          \/ pc.sec = "PNG" /\ ~ok
       /\ ok => IF pc.sec = "PHYSICS" THEN i \in {Asked, Asked + 1}
                                      ELSE i = Asked
       /\ pc.sec \in Maps => i <= Asked

(* The pool of gemm_malloc is empty outside test_601_gemm, and during a    *)
(* set-up its first matrices are the ones stored.                          *)
Pooled == {"setup", "begin", "reading", "loop", "print", "cleanup"}
PoolState ==
  /\ ~(pc.sec \in Gemm /\ pc.step \in Pooled) =>
       gemm.ptrs = NoPtrs /\ gemm.idx = 0
  /\ pc.sec \in Gemm /\ pc.step = "setup" =>
       /\ gemm.idx = i
       /\ \A k \in 1..3 : k > i => gemm.ptrs[k] = NULL
  /\ GemmPoolSuffices
  /\ GemmMatricesLive

(* The two results of test_601_gemm are the loops it was to run, or none.  *)
GemmResults ==
  /\ pc.sec \in Gemm /\ pc.step \in {"setup", "begin", "reading", "loop"} => ok
  /\ pc.sec \in Gemm /\ pc.step = "print" /\ ~ok => secs = Nobody
  /\ pc.sec = "SGEMM" /\ pc.step /= "enter" => loops = gemm.loops
  /\ pc.sec = "DGEMM" /\ pc.step /= "enter" => loops = DgemmLoops(gemm.loops)
  /\ At("SGEMM", "cleanup") \/ pc.sec = "DGEMM" =>
       gemm.results["SGEMM"] \in {By("SGEMM", 0),
                                  By("SGEMM", AtLeastNone(gemm.loops))}
  /\ At("DGEMM", "cleanup") \/ At("DGEMM", "summary") =>
       gemm.results["DGEMM"] \in {By("DGEMM", 0),
                                  By("DGEMM", DgemmLoops(gemm.loops))}

(* test_map_idx counts the hook's calls, so that it tells the maps apart   *)
(* unless the ordered one was passed over.                                 *)
Hooked == {"library", "begin", "reading", "loop", "print"}
InMap(sec) == pc.sec = sec /\ pc.step \in Hooked
NoResults == [k \in 0..1 |-> Nobody]

MapState ==
  /\ pc.sec \in {"FFT", "SGEMM", "DGEMM", "ORDERED"} \/ At("MAIN", "options") =>
       map.results = NoResults
  /\ InMap("ORDERED") => map.idx = 0 /\ ~map.skipped
  /\ InMap("UNORDERED") =>
       \/ map.idx = 0 /\ map.skipped /\ map.results = NoResults
       \/ /\ map.idx = 1 /\ ~map.skipped /\ map.results[1] = Nobody
          /\ map.results[0] = By("ORDERED", map.results[0]["ORDERED"])
  /\ InMap("ORDERED") \/ InMap("UNORDERED") =>
       /\ map.unordered = UnorderedLoops(map.loops)
       /\ pc.step /= "library" => loops = HookLoops
  /\ At("UNORDERED", "summary") =>
       LET sum == Plus(map.results[0], map.results[1])
       IN /\ sum = Plus(By("ORDERED", sum["ORDERED"]),
                        By("UNORDERED", sum["UNORDERED"]))
          /\ sum["UNORDERED"] <= UnorderedLoops(map.loops)

(* Besides what the running section holds, at most one block is live, once *)
(* test_600_fft has run.                                                   *)
Matrices == {gemm.ptrs[k] : k \in 1..3}
OwnsBlock == (pc.sec = "HASH" /\ pc.step /= "enter") \/ At("PNG", "free")
Held == (Matrices \cup IF OwnsBlock THEN {block} ELSE {}) \ {NULL}

FftRan == /\ arg.id \in {0, 600}
          /\ ~At("FFT", "enter") /\ ~At("MAIN", "options")

HeapState ==
  /\ IsFiniteSet(heap)
  /\ Held \subseteq heap
  /\ pc.step /= "crashed" =>
       Cardinality(heap \ Held) \in IF FftRan THEN {0, 1} ELSE {0}

IInv ==
  /\ TypeOK /\ Selected /\ Measuring /\ Printing
  /\ PoolState /\ GemmResults /\ MapState /\ HeapState
  /\ RowsBelongToLines /\ DurationsBelongToLines

-----------------------------------------------------------------------------
(* The shape of the state.                                                 *)

Control == /\ pc \in [sec : Measured \cup {"MAIN"}, step : Steps]
           /\ arg \in Commands
           /\ i \in Nat /\ loops \in Int /\ ok \in BOOLEAN

LEMMA LandedControl ==
  ASSUME NEW k, NEW a, Landed(k, a)
  PROVE  /\ pc' \in [sec : Measured \cup {"MAIN"}, step : Steps]
         /\ loops \in Int => loops' \in Int
<1> DEFINE s == pc'.sec
           t == pc'.step
<1>1. s \in Measured \cup {"MAIN"} /\ t \in Steps
  BY DEF Landed, FirstSections, Measured, Gemm, Maps, Steps
<1>2. pc' = [sec |-> s, step |-> t]
  BY DEF Landed
<1> HIDE DEF s, t
<1> QED BY <1>1, <1>2 DEF Landed

LEMMA TypedLoops ==
  ASSUME TypeOK
  PROVE  /\ Control
         /\ gemm.loops \in Int /\ DgemmLoops(gemm.loops) \in Int
         /\ map.loops \in Int /\ map.unordered \in Int /\ HookLoops \in Int
         /\ UnorderedLoops(loops) \in Int
BY FactorAssumption DEF TypeOK, Control, Commands, DgemmLoops, HookLoops,
   HalfArgument, UnorderedLoops

LEMMA ControlStep == TypeOK /\ [Next]_uvars => Control'
<1> SUFFICES ASSUME TypeOK, [Next]_uvars PROVE Control'
  OBVIOUS
<1>0. Control /\ gemm.loops \in Int /\ DgemmLoops(gemm.loops) \in Int
      /\ HookLoops \in Int
  BY TypedLoops
<1> USE WorkerFacts DEF Control, Goto, local, Steps, Measured, Gemm, Maps
<1>1. CASE ReadOption
  BY <1>0, <1>1 DEF ReadOption, driver, local
<1>2. CASE UnknownOption \/ NullCfg
  BY <1>0, <1>2 DEF UnknownOption, NullCfg
<1>3. CASE StartTests
  BY <1>0, <1>3, RunFromLands, LandedControl DEF StartTests, Commands
<1>4. CASE SelfTest
  BY <1>0, <1>4 DEF SelfTest
<1>5. ASSUME NEW sec \in Measured, Begin(sec) PROVE Control'
  BY <1>0, <1>5 DEF Begin
<1>6. ASSUME NEW sec \in Measured, BeginRead(sec) PROVE Control'
  BY <1>0, <1>6 DEF BeginRead
<1>7. ASSUME NEW sec \in Simple, Iterate(sec) PROVE Control'
  BY <1>0, <1>7 DEF Iterate
<1>8. ASSUME NEW sec \in Simple, Leave(sec) PROVE Control'
  BY <1>0, <1>8 DEF Leave
<1>9. ASSUME NEW sec \in {"FFT", "HASH"}, TakeBlock(sec) PROVE Control'
  BY <1>0, <1>9 DEF TakeBlock
<1>10. CASE PrintFft
  BY <1>0, <1>10, RunAfterLands, LandedControl, TestFacts DEF PrintFft, timing,
     memory
<1>11. CASE PrintHash
  BY <1>0, <1>11, RunAfterLands, LandedControl, TestFacts DEF PrintHash,
     timing, memory
<1>12. ASSUME NEW sec \in Gemm, EnterGemm(sec) PROVE Control'
  BY <1>0, <1>12 DEF EnterGemm
<1>13. ASSUME NEW sec \in Gemm, GemmMalloc(sec) PROVE Control'
  BY <1>0, <1>13 DEF GemmMalloc
<1>14. ASSUME NEW sec \in Gemm, GemmReturns(sec) PROVE Control'
  <2>1. i' = 0 /\ UNCHANGED <<arg, loops>>
    BY <1>14 DEF GemmReturns
  <2>2. ok' \in BOOLEAN
    BY <1>0, <1>14, Zenon DEF GemmReturns
  <2>3. \/ pc' = [sec |-> sec, step |-> "print"]
        \/ pc' = [sec |-> sec, step |-> "begin"]
    BY <1>14, Zenon DEF GemmReturns, Goto
  <2> QED BY <1>0, <2>1, <2>2, <2>3
<1>15. ASSUME NEW sec \in Gemm, PrintGemm(sec) PROVE Control'
  BY <1>0, <1>15 DEF PrintGemm
<1>16. ASSUME NEW sec \in Gemm, GemmCleanup(sec) PROVE Control'
  BY <1>0, <1>16 DEF GemmCleanup
<1>17. CASE GemmSummary
  BY <1>0, <1>17, RunAfterLands, LandedControl, TestFacts DEF GemmSummary,
     timing, memory
<1>18. CASE EnterMap
  BY <1>0, <1>18 DEF EnterMap
<1>19. ASSUME NEW sec \in Maps, TestMap(sec) PROVE Control'
  <2>1. UNCHANGED <<arg, i>> /\ (loops' = HookLoops \/ loops' = loops)
    BY <1>19 DEF TestMap
  <2>2. ok' \in BOOLEAN
    BY <1>0, <1>19, Zenon DEF TestMap
  <2>3. \/ pc' = [sec |-> sec, step |-> "begin"]
        \/ pc' = [sec |-> "UNORDERED", step |-> "library"]
        \/ pc' = [sec |-> "UNORDERED", step |-> "summary"]
    BY <1>19, Zenon DEF TestMap, AfterMap, Goto
  <2> QED BY <1>0, <2>1, <2>2, <2>3
<1>20. ASSUME NEW sec \in Maps, PrintMap(sec) PROVE Control'
  BY <1>0, <1>20 DEF PrintMap, AfterMap
<1>21. CASE MapSummary
  BY <1>0, <1>21, RunAfterLands, LandedControl, TestFacts DEF MapSummary,
     timing, memory
<1>22. CASE EnterPng
  BY <1>0, <1>22 DEF EnterPng
<1>23. CASE PngDecode
  BY <1>0, <1>23 DEF PngDecode
<1>24. CASE PngFree
  BY <1>0, <1>24 DEF PngFree
<1>25. CASE PngLeave
  BY <1>0, <1>25 DEF PngLeave
<1>26. CASE PrintPng
  BY <1>0, <1>26, RunAfterLands, LandedControl, TestFacts DEF PrintPng, timing,
     memory
<1>27. CASE EnterPhysics
  BY <1>0, <1>27 DEF EnterPhysics
<1>28. CASE PhysicsStep
  BY <1>0, <1>28 DEF PhysicsStep
<1>29. CASE PhysicsLeave
  BY <1>0, <1>29 DEF PhysicsLeave
<1>30. CASE PrintPhysics
  BY <1>0, <1>30, RunAfterLands, LandedControl, TestFacts DEF PrintPhysics,
     timing, memory
<1>31. CASE Kernel
  BY <1>0, <1>31 DEF Kernel, driver, local
<1>32. CASE UNCHANGED uvars
  BY <1>0, <1>32 DEF uvars, driver, local, timing, memory
<1> QED BY <1>1, <1>2, <1>3, <1>4, <1>5, <1>6, <1>7, <1>8, <1>9, <1>10, <1>11,
           <1>12, <1>13, <1>14, <1>15, <1>16, <1>17, <1>18, <1>19, <1>20,
           <1>21, <1>22, <1>23, <1>24, <1>25, <1>26, <1>27, <1>28, <1>29,
           <1>30, <1>31, <1>32
        DEF Next, Driver

Timing == since \in Times /\ window \in Times /\ secs \in [Workers -> Int]

LEMMA CountedSeconds ==
  ASSUME NEW f \in [Workers -> Int], NEW w \in Workers
  PROVE  /\ [f EXCEPT ![w] = @ + 1] \in [Workers -> Int]
         /\ [f EXCEPT ![w] = @ - 1] \in [Workers -> Int]
OBVIOUS

LEMMA TimesFacts ==
  /\ Times \subseteq [Workers -> Int]
  /\ \A f \in Times, w \in Workers, n \in Nat : [f EXCEPT ![w] = n] \in Times
BY DEF Times

LEMMA EndOfTiming ==
  ASSUME NEW sec, Timing, EndOf(sec), UNCHANGED since PROVE Timing'
<1>1. window' = since /\ (secs' = since \/ secs' = secs)
  BY DEF EndOf
<1> QED BY <1>1, TimesFacts DEF Timing

LEMMA TimingStep == Control /\ Timing /\ [Next]_uvars => Timing'
<1> SUFFICES ASSUME Control, Timing, [Next]_uvars PROVE Timing'
  OBVIOUS
<1> USE WorkerFacts DEF Control, Timing, timing
<1>1. CASE ReadOption
  BY <1>1 DEF ReadOption, driver
<1>2. CASE UnknownOption \/ NullCfg
  BY <1>2 DEF UnknownOption, NullCfg
<1>3. CASE StartTests
  BY <1>3 DEF StartTests
<1>4. CASE SelfTest
  BY <1>4 DEF SelfTest
<1>5. ASSUME NEW sec \in Measured, Begin(sec) PROVE Timing'
  BY <1>5, NobodyTimes DEF Begin
<1>6. ASSUME NEW sec \in Measured, BeginRead(sec) PROVE Timing'
  BY <1>6 DEF BeginRead
<1>7. ASSUME NEW sec \in Simple, Iterate(sec) PROVE Timing'
  BY <1>7, CountedOnce DEF Iterate
<1>8. ASSUME NEW sec \in Simple, Leave(sec) PROVE Timing'
  BY <1>8, EndOfTiming DEF Leave
<1>9. ASSUME NEW sec \in {"FFT", "HASH"}, TakeBlock(sec) PROVE Timing'
  BY <1>9, CountedOnce DEF TakeBlock
<1>10. CASE PrintFft
  BY <1>10 DEF PrintFft
<1>11. CASE PrintHash
  BY <1>11 DEF PrintHash
<1>12. ASSUME NEW sec \in Gemm, EnterGemm(sec) PROVE Timing'
  BY <1>12, CountedOnce DEF EnterGemm
<1>13. ASSUME NEW sec \in Gemm, GemmMalloc(sec) PROVE Timing'
  BY <1>13 DEF GemmMalloc
<1>14. ASSUME NEW sec \in Gemm, GemmReturns(sec) PROVE Timing'
  BY <1>14, NobodyTimes DEF GemmReturns
<1>15. ASSUME NEW sec \in Gemm, PrintGemm(sec) PROVE Timing'
  BY <1>15 DEF PrintGemm
<1>16. ASSUME NEW sec \in Gemm, GemmCleanup(sec) PROVE Timing'
  BY <1>16 DEF GemmCleanup
<1>17. CASE GemmSummary
  BY <1>17 DEF GemmSummary
<1>18. CASE EnterMap
  BY <1>18 DEF EnterMap
<1>19. ASSUME NEW sec \in Maps, TestMap(sec) PROVE Timing'
  BY <1>19, CountedOnce DEF TestMap
<1>20. ASSUME NEW sec \in Maps, PrintMap(sec) PROVE Timing'
  BY <1>20 DEF PrintMap
<1>21. CASE MapSummary
  BY <1>21 DEF MapSummary
<1>22. CASE EnterPng
  BY <1>22, NobodyTimes DEF EnterPng
<1>23. CASE PngDecode
  <2>1. /\ since' = [since EXCEPT !["PNG"] = @ + 1]
        /\ window' = window
        /\ \/ secs' = [secs EXCEPT !["PNG"] = @ + 1]
           \/ secs' = [secs EXCEPT !["PNG"] = @ - 1]
    BY <1>23 DEF PngDecode
  <2>2. "PNG" \in Workers
    BY DEF Workers, Measured
  <2>3. since' \in Times
    BY <2>1, <2>2, CountedOnce
  <2>4. secs' \in [Workers -> Int]
    BY <2>1, <2>2, CountedSeconds
  <2> QED BY <2>1, <2>3, <2>4
<1>24. CASE PngFree
  BY <1>24 DEF PngFree
<1>25. CASE PngLeave
  BY <1>25, EndOfTiming DEF PngLeave
<1>26. CASE PrintPng
  BY <1>26 DEF PrintPng
<1>27. CASE EnterPhysics
  BY <1>27, CountedOnce DEF EnterPhysics
<1>28. CASE PhysicsStep
  <2>1. i' \in Nat /\ since' = [since EXCEPT !["PHYSICS"] = i']
        /\ UNCHANGED <<window, secs>>
    BY <1>28 DEF PhysicsStep
  <2>2. "PHYSICS" \in Workers
    BY DEF Workers, Measured
  <2>3. since' \in Times
    <3>1. PICK n \in Nat : n = i'
      BY <2>1
    <3> QED BY <2>1, <2>2, <3>1, TimesFacts
  <2> QED BY <2>1, <2>3
<1>29. CASE PhysicsLeave
  BY <1>29, EndOfTiming DEF PhysicsLeave
<1>30. CASE PrintPhysics
  BY <1>30 DEF PrintPhysics
<1>31. CASE Kernel
  BY <1>31 DEF Kernel, driver
<1>32. CASE UNCHANGED uvars
  BY <1>32 DEF uvars, driver, local, timing, memory
<1> QED BY <1>1, <1>2, <1>3, <1>4, <1>5, <1>6, <1>7, <1>8, <1>9, <1>10, <1>11,
           <1>12, <1>13, <1>14, <1>15, <1>16, <1>17, <1>18, <1>19, <1>20,
           <1>21, <1>22, <1>23, <1>24, <1>25, <1>26, <1>27, <1>28, <1>29,
           <1>30, <1>31, <1>32
        DEF Next, Driver

-----------------------------------------------------------------------------
(* Who changes what.                                                       *)

Prints == \/ PrintFft \/ PrintHash \/ GemmSummary \/ MapSummary
          \/ PrintPng \/ PrintPhysics

LEMMA GemmFrame ==
  ASSUME [Next]_uvars
  PROVE  \/ UNCHANGED gemm
         \/ \E sec \in Gemm : \/ EnterGemm(sec) \/ GemmMalloc(sec)
                             \/ PrintGemm(sec) \/ GemmCleanup(sec)
<1> USE DEF memory, driver, uvars
<1>1. ASSUME Kernel \/ ReadOption \/ UnknownOption \/ NullCfg \/ StartTests
             \/ SelfTest \/ UNCHANGED uvars
      PROVE  UNCHANGED gemm
  BY <1>1 DEF Kernel, ReadOption, UnknownOption, NullCfg, StartTests, SelfTest
<1>2. ASSUME Prints PROVE UNCHANGED gemm
  BY <1>2 DEF Prints, PrintFft, PrintHash, GemmSummary, MapSummary, PrintPng,
              PrintPhysics
<1>3. ASSUME NEW sec, Begin(sec) \/ BeginRead(sec) \/ Iterate(sec) \/ Leave(sec)
                      \/ TakeBlock(sec) \/ GemmReturns(sec)
      PROVE  UNCHANGED gemm
  BY <1>3 DEF Begin, BeginRead, Iterate, Leave, TakeBlock, GemmReturns
<1>4. ASSUME NEW sec, TestMap(sec) \/ PrintMap(sec) \/ EnterMap
      PROVE  UNCHANGED gemm
  BY <1>4 DEF TestMap, PrintMap, EnterMap
<1>5. ASSUME EnterPng \/ PngDecode \/ PngFree \/ PngLeave
             \/ EnterPhysics \/ PhysicsStep \/ PhysicsLeave
      PROVE  UNCHANGED gemm
  BY <1>5 DEF EnterPng, PngDecode, PngFree, PngLeave, EnterPhysics,
              PhysicsStep, PhysicsLeave
<1> HIDE DEF memory, driver, uvars
<1> QED BY <1>1, <1>2, <1>3, <1>4, <1>5 DEF Next, Driver, Prints

LEMMA MapFrame ==
  ASSUME [Next]_uvars
  PROVE  \/ UNCHANGED map
         \/ EnterMap
         \/ \E sec \in Maps : TestMap(sec) \/ PrintMap(sec)
<1> USE DEF memory, driver, uvars
<1>1. ASSUME Kernel \/ ReadOption \/ UnknownOption \/ NullCfg \/ StartTests
             \/ SelfTest \/ UNCHANGED uvars
      PROVE  UNCHANGED map
  BY <1>1 DEF Kernel, ReadOption, UnknownOption, NullCfg, StartTests, SelfTest
<1>2. ASSUME Prints PROVE UNCHANGED map
  BY <1>2 DEF Prints, PrintFft, PrintHash, GemmSummary, MapSummary, PrintPng,
              PrintPhysics
<1>3. ASSUME NEW sec, Begin(sec) \/ BeginRead(sec) \/ Iterate(sec) \/ Leave(sec)
                      \/ TakeBlock(sec)
      PROVE  UNCHANGED map
  BY <1>3 DEF Begin, BeginRead, Iterate, Leave, TakeBlock
<1>4. ASSUME NEW sec, \/ EnterGemm(sec) \/ GemmMalloc(sec) \/ GemmReturns(sec)
                      \/ PrintGemm(sec) \/ GemmCleanup(sec)
      PROVE  UNCHANGED map
  BY <1>4 DEF EnterGemm, GemmMalloc, GemmReturns, PrintGemm, GemmCleanup
<1>5. ASSUME EnterPng \/ PngDecode \/ PngFree \/ PngLeave
             \/ EnterPhysics \/ PhysicsStep \/ PhysicsLeave
      PROVE  UNCHANGED map
  BY <1>5 DEF EnterPng, PngDecode, PngFree, PngLeave, EnterPhysics,
              PhysicsStep, PhysicsLeave
<1> HIDE DEF memory, driver, uvars
<1> QED BY <1>1, <1>2, <1>3, <1>4, <1>5 DEF Next, Driver, Prints

LEMMA HeapFrame ==
  ASSUME [Next]_uvars
  PROVE  \/ UNCHANGED <<block, heap>>
         \/ \E sec \in {"FFT", "HASH"} : TakeBlock(sec)
         \/ PrintHash \/ PngDecode \/ PngFree
         \/ \E sec \in Gemm : \/ GemmMalloc(sec) \/ GemmReturns(sec)
                             \/ GemmCleanup(sec)
<1> USE DEF memory, driver, uvars
<1>1. ASSUME Kernel \/ ReadOption \/ UnknownOption \/ NullCfg \/ StartTests
             \/ SelfTest \/ UNCHANGED uvars
      PROVE  UNCHANGED <<block, heap>>
  BY <1>1 DEF Kernel, ReadOption, UnknownOption, NullCfg, StartTests, SelfTest
<1>2. ASSUME \/ PrintFft \/ GemmSummary \/ MapSummary \/ PrintPng
             \/ PrintPhysics
      PROVE  UNCHANGED <<block, heap>>
  BY <1>2 DEF PrintFft, GemmSummary, MapSummary, PrintPng, PrintPhysics
<1>3. ASSUME NEW sec, Begin(sec) \/ BeginRead(sec) \/ Iterate(sec) \/ Leave(sec)
                      \/ EnterGemm(sec) \/ PrintGemm(sec)
      PROVE  UNCHANGED <<block, heap>>
  BY <1>3 DEF Begin, BeginRead, Iterate, Leave, EnterGemm, PrintGemm
<1>4. ASSUME NEW sec, TestMap(sec) \/ PrintMap(sec) \/ EnterMap
      PROVE  UNCHANGED <<block, heap>>
  BY <1>4 DEF TestMap, PrintMap, EnterMap
<1>5. ASSUME EnterPng \/ PngLeave \/ EnterPhysics \/ PhysicsStep
             \/ PhysicsLeave
      PROVE  UNCHANGED <<block, heap>>
  BY <1>5 DEF EnterPng, PngLeave, EnterPhysics, PhysicsStep, PhysicsLeave
<1> HIDE DEF memory, driver, uvars
<1> QED BY <1>1, <1>2, <1>3, <1>4, <1>5 DEF Next, Driver

LEMMA LineFrame ==
  ASSUME [Next]_uvars
  PROVE  \/ UNCHANGED line
         \/ Prints \/ SelfTest
         \/ \E sec \in Gemm : PrintGemm(sec)
         \/ \E sec \in Maps : PrintMap(sec)
<1> USE DEF memory, driver, uvars
<1>1. ASSUME Kernel \/ ReadOption \/ UnknownOption \/ NullCfg \/ StartTests
             \/ UNCHANGED uvars
      PROVE  UNCHANGED line
  BY <1>1 DEF Kernel, ReadOption, UnknownOption, NullCfg, StartTests
<1>2. ASSUME NEW sec, Begin(sec) \/ BeginRead(sec) \/ Iterate(sec) \/ Leave(sec)
                      \/ TakeBlock(sec)
      PROVE  UNCHANGED line
  BY <1>2 DEF Begin, BeginRead, Iterate, Leave, TakeBlock
<1>3. ASSUME NEW sec, \/ EnterGemm(sec) \/ GemmMalloc(sec) \/ GemmReturns(sec)
                      \/ GemmCleanup(sec) \/ TestMap(sec) \/ EnterMap
      PROVE  UNCHANGED line
  BY <1>3 DEF EnterGemm, GemmMalloc, GemmReturns, GemmCleanup, TestMap,
     EnterMap
<1>4. ASSUME EnterPng \/ PngDecode \/ PngFree \/ PngLeave
             \/ EnterPhysics \/ PhysicsStep \/ PhysicsLeave
      PROVE  UNCHANGED line
  BY <1>4 DEF EnterPng, PngDecode, PngFree, PngLeave, EnterPhysics,
              PhysicsStep, PhysicsLeave
<1> HIDE DEF memory, driver, uvars
<1> QED BY <1>1, <1>2, <1>3, <1>4 DEF Next, Driver, Prints

-----------------------------------------------------------------------------
(* The shape of what the tests keep.                                       *)

Pointers == Nat \cup {NULL}

GemmType == gemm \in [ptrs : [1..3 -> Pointers], idx : 0..3, loops : Int,
                      results : [Gemm -> Times]]
MapType == map \in [idx : 0..2, unordered : Int, loops : Int,
                    skipped : BOOLEAN, results : [0..1 -> Times]]
HeapType == block \in Pointers /\ heap \subseteq Nat /\ IsFiniteSet(heap)

LEMMA ByTimes ==
  ASSUME NEW w \in Workers, NEW k \in Nat PROVE By(w, k) \in Times
<1>1. k \in Int
  OBVIOUS
<1> QED BY <1>1, ByFacts

LEMMA NoPtrsFacts ==
  NoPtrs \in [1..3 -> Pointers] /\ \A k \in 1..3 : NoPtrs[k] = NULL
<1>1. DOMAIN NoPtrs = 1..3
  BY DEF NoPtrs
<1>2. \A k \in 1..3 : NoPtrs[k] = NULL
  BY DEF NoPtrs
<1>3. NoPtrs = [k \in 1..3 |-> NULL]
  BY DEF NoPtrs
<1> QED BY <1>2, <1>3 DEF Pointers

LEMMA UnorderedFacts ==
  ASSUME NEW n \in Int
  PROVE  /\ UnorderedLoops(n) \in Nat /\ UnorderedLoops(n) >= 1
         /\ UnorderedLoops(n) >= n
<1>1. CASE n > 1
  <2> DEFINE f == UnorderedFactor - 1
  <2>1. f \in Nat /\ UnorderedFactor = 1 + f
    BY FactorAssumption
  <2> HIDE DEF f
  <2>2. n * UnorderedFactor = n + n * f
    BY <2>1, SMT
  <2>3. n * f \in Nat
    <3>1. n \in Nat
      BY <1>1
    <3> QED BY <2>1, <3>1
  <2> QED BY <1>1, <2>2, <2>3 DEF UnorderedLoops
<1>2. CASE ~(n > 1)
  BY <1>2 DEF UnorderedLoops
<1> QED BY <1>1, <1>2

LEMMA GemmTypeStep ==
  ASSUME Control, GemmType, HeapType, Printing, [Next]_uvars PROVE GemmType'
<1> USE DEF GemmType
<1>1. CASE UNCHANGED gemm
  BY <1>1
<1>2. ASSUME NEW sec \in Gemm, EnterGemm(sec) PROVE GemmType'
  <2>1. \/ gemm' = [gemm EXCEPT !.loops = loops]
        \/ gemm' = gemm
    BY <1>2 DEF EnterGemm
  <2> QED BY <2>1 DEF Control
<1>3. ASSUME NEW sec \in Gemm, GemmMalloc(sec) PROVE GemmType'
  <2>1. CASE gemm.idx >= 3
    BY <1>3, <2>1 DEF GemmMalloc
  <2>2. CASE ~(gemm.idx >= 3)
    <3>1. PICK ptr \in {Fresh, NULL} :
            gemm' = [gemm EXCEPT !.ptrs[gemm.idx + 1] = ptr, !.idx = @ + 1]
      BY <1>3, <2>2 DEF GemmMalloc
    <3>2. ptr \in Pointers
      BY FreshFacts DEF HeapType, Pointers
    <3>3. gemm.idx + 1 \in 1..3 /\ gemm.idx + 1 \in 0..3
      BY <2>2
    <3> QED BY <3>1, <3>2, <3>3
  <2> QED BY <2>1, <2>2
<1>4. ASSUME NEW sec \in Gemm, PrintGemm(sec) PROVE GemmType'
  <2>1. gemm' = [gemm EXCEPT !.results[sec] = secs]
    BY <1>4 DEF PrintGemm
  <2>2. pc.sec = sec /\ pc.step = "print"
    BY <1>4 DEF PrintGemm, At
  <2>3. secs = By(sec, i) \/ secs = Nobody
    BY <2>2 DEF Printing, Gemm
  <2>4. secs \in Times
    BY <2>3, ByTimes, NobodyTimes, WorkerFacts DEF Control
  <2> QED BY <2>1, <2>4
<1>5. ASSUME NEW sec \in Gemm, GemmCleanup(sec) PROVE GemmType'
  <2>1. gemm' = [gemm EXCEPT !.ptrs = NoPtrs, !.idx = 0]
    BY <1>5 DEF GemmCleanup, CleanPool
  <2>2. gemm' = [ptrs |-> NoPtrs, idx |-> 0, loops |-> gemm.loops,
                 results |-> gemm.results]
    BY <2>1
  <2>3. NoPtrs \in [1..3 -> Pointers] /\ 0 \in 0..3
    BY NoPtrsFacts
  <2> QED BY <2>2, <2>3
<1> QED BY <1>1, <1>2, <1>3, <1>4, <1>5, GemmFrame

LEMMA MapTypeStep ==
  ASSUME Control, MapType, Printing, MapState, [Next]_uvars PROVE MapType'
<1> USE DEF MapType
<1>1. CASE UNCHANGED map
  BY <1>1
<1>2. CASE EnterMap
  <2>1. map' = [map EXCEPT !.idx = 0, !.unordered = UnorderedLoops(loops),
                           !.loops = loops, !.skipped = FALSE]
    BY <1>2 DEF EnterMap
  <2>2. loops \in Int /\ UnorderedLoops(loops) \in Int
    <3>1. loops \in Int
      BY DEF Control
    <3>2. UnorderedLoops(loops) \in Nat
      BY <3>1, UnorderedFacts
    <3> QED BY <3>1, <3>2
  <2>3. map' = [idx |-> 0, unordered |-> UnorderedLoops(loops), loops |-> loops,
                skipped |-> FALSE, results |-> map.results]
    BY <2>1
  <2> QED BY <2>2, <2>3
<1>3. ASSUME NEW sec \in Maps, TestMap(sec) PROVE MapType'
  <2>1. \/ map' = map
        \/ map' = [map EXCEPT !.skipped = @ \/ sec = "ORDERED"]
    BY <1>3 DEF TestMap
  <2>2. (map.skipped \/ sec = "ORDERED") \in BOOLEAN
    OBVIOUS
  <2> QED BY <2>1, <2>2
<1>4. ASSUME NEW sec \in Maps, PrintMap(sec) PROVE MapType'
  <2>1. pc.sec = sec /\ pc.step = "print"
    BY <1>4 DEF PrintMap, At
  <2>2. secs \in Times
    <3>1. sec \notin Gemm /\ sec /= "PNG"
      BY DEF Maps, Gemm
    <3>2. secs = By(sec, i)
      BY <2>1, <3>1 DEF Printing
    <3> QED BY <3>2, ByTimes, WorkerFacts DEF Control
  <2>3. map.idx \in 0..1
    BY <2>1 DEF MapState, InMap, Hooked, Maps
  <2>4. map' = [map EXCEPT !.results = [map.results EXCEPT ![map.idx] = secs],
                           !.idx = @ + 1]
    BY <1>4 DEF PrintMap, ResultSlot
  <2>5. map.idx + 1 \in 0..2
    BY <2>3
  <2>6. [map.results EXCEPT ![map.idx] = secs] \in [0..1 -> Times]
    BY <2>2
  <2> QED BY <2>4, <2>5, <2>6
<1> QED BY <1>1, <1>2, <1>3, <1>4, MapFrame

LEMMA HeapTypeStep ==
  ASSUME HeapType, GemmType, [Next]_uvars PROVE HeapType'
<1> USE FreshFacts DEF HeapType, Pointers
<1>1. CASE UNCHANGED <<block, heap>>
  BY <1>1
<1>2. ASSUME UNCHANGED block \/ block' \in {Fresh, NULL},
             \/ heap' \subseteq heap
             \/ heap' = heap \cup {Fresh}
      PROVE  HeapType'
  <2>1. IsFiniteSet(heap')
    BY <1>2, FS_Subset, FS_AddElement
  <2> QED BY <1>2, <2>1
<1>3. ASSUME NEW sec \in {"FFT", "HASH"}, TakeBlock(sec) PROVE HeapType'
  BY <1>2, <1>3 DEF TakeBlock
<1>4. CASE PrintHash \/ PngFree
  BY <1>2, <1>4 DEF PrintHash, PngFree
<1>5. CASE PngDecode
  BY <1>2, <1>5 DEF PngDecode
<1>6. ASSUME NEW sec \in Gemm, GemmMalloc(sec) PROVE HeapType'
  <2>1. block' = block
    BY <1>6 DEF GemmMalloc
  <2>2. heap' = heap \/ heap' = heap \cup {Fresh}
    <3>1. CASE gemm.idx >= 3
      BY <1>6, <3>1 DEF GemmMalloc
    <3>2. CASE ~(gemm.idx >= 3)
      <4>1. PICK ptr \in {Fresh, NULL} : heap' = heap \cup ({ptr} \ {NULL})
        BY <1>6, <3>2 DEF GemmMalloc
      <4> QED BY <4>1
    <3> QED BY <3>1, <3>2
  <2> QED BY <1>2, <2>1, <2>2
<1>7. ASSUME NEW sec \in Gemm, GemmReturns(sec) \/ GemmCleanup(sec)
      PROVE  HeapType'
  BY <1>2, <1>7 DEF GemmReturns, GemmCleanup
<1> QED BY <1>1, <1>3, <1>4, <1>5, <1>6, <1>7, HeapFrame

-----------------------------------------------------------------------------
(* The pool of gemm_malloc.                                                *)

InPool == pc.sec \in Gemm /\ pc.step \in Pooled

(* An empty pool stays so outside a section of test_601_gemm.              *)
LEMMA EmptyPoolKept ==
  ASSUME gemm.ptrs = NoPtrs, gemm.idx = 0, UNCHANGED gemm, ~InPool',
         ~At("MAIN", "exited")'
  PROVE  PoolState'
<1>1. \A k \in 1..3 : gemm'.ptrs[k] = NULL
  BY NoPtrsFacts
<1>2. GemmMatricesLive'
  BY <1>1 DEF GemmMatricesLive, InPool, Pooled
<1>3. ~(pc.sec \in Gemm /\ pc.step = "setup")'
  BY DEF InPool, Pooled
<1> QED BY <1>2, <1>3 DEF PoolState, InPool, GemmPoolSuffices

LEMMA OutsidePool ==
  ASSUME PoolState, ~InPool PROVE gemm.ptrs = NoPtrs /\ gemm.idx = 0
BY DEF PoolState, InPool

(* A measured loop of the section changes nothing of the pool.             *)
LEMMA FullPoolKept ==
  ASSUME PoolState, UNCHANGED <<gemm, heap>>, NEW sec \in Measured, pc.sec = sec,
         pc.step \in {"begin", "reading", "loop"},
         NEW step \in {"reading", "loop", "print"},
         pc' = pc \/ pc' = [sec |-> sec, step |-> step]
  PROVE  PoolState'
<1>1. pc'.sec = sec /\ pc'.step \in {"begin", "reading", "loop", "print"}
  OBVIOUS
<1>2. ~At("MAIN", "exited")'
  BY <1>1, WorkerFacts DEF At
<1>3. CASE sec \in Gemm
  <2>1. GemmMatricesLive'
    BY <1>1, <1>3 DEF PoolState, GemmMatricesLive
  <2> QED BY <1>1, <1>2, <1>3, <2>1 DEF PoolState, Pooled, GemmPoolSuffices
<1>4. CASE sec \notin Gemm
  <2>1. ~InPool /\ ~InPool'
    BY <1>1, <1>4 DEF InPool
  <2> QED BY <1>2, <2>1, OutsidePool, EmptyPoolKept
<1> QED BY <1>3, <1>4

LEMMA LoopKeepsPool ==
  ASSUME PoolState, NEW sec \in Measured,
         Begin(sec) \/ BeginRead(sec) \/ Iterate(sec) \/ Leave(sec)
  PROVE  PoolState'
<1> USE DEF At, Goto, memory
<1>1. CASE Begin(sec)
  BY <1>1, FullPoolKept DEF Begin
<1>2. CASE BeginRead(sec)
  BY <1>2, FullPoolKept DEF BeginRead
<1>3. CASE Iterate(sec)
  BY <1>3, FullPoolKept DEF Iterate
<1>4. CASE Leave(sec)
  BY <1>4, FullPoolKept DEF Leave
<1> QED BY <1>1, <1>2, <1>3, <1>4

(* Everything else that is not test_601_gemm.                              *)
LEMMA OthersKeepPool ==
  ASSUME PoolState, UNCHANGED gemm, pc'.sec \notin Gemm \/ pc'.step = "enter",
         ~At("MAIN", "exited")', ~InPool
  PROVE  PoolState'
<1>1. ~InPool'
  BY DEF InPool, Pooled
<1> QED BY <1>1, OutsidePool, EmptyPoolKept

LEMMA MallocKeepsPool ==
  ASSUME Control, GemmType, HeapType, PoolState, NEW sec \in Gemm,
         GemmMalloc(sec)
  PROVE  PoolState'
<1> DEFINE n == i + 1
<1>1. /\ pc = [sec |-> sec, step |-> "setup"] /\ i < 3
      /\ pc.sec = sec /\ pc.step = "setup"
  BY DEF GemmMalloc, At
<1>2. gemm.idx = i /\ \A k \in 1..3 : k > i => gemm.ptrs[k] = NULL
  BY <1>1 DEF PoolState
<1>3. i \in 0..2 /\ n \in 1..3 /\ ~(gemm.idx >= 3)
  BY <1>1, <1>2 DEF Control
<1>4. PICK ptr \in {Fresh, NULL} :
        /\ gemm' = [gemm EXCEPT !.ptrs[gemm.idx + 1] = ptr, !.idx = @ + 1]
        /\ heap' = heap \cup ({ptr} \ {NULL})
  BY <1>3 DEF GemmMalloc
<1>5. i' = n /\ pc' = pc
  BY <1>3 DEF GemmMalloc
<1>6. Fresh \notin heap
  BY FreshFacts DEF HeapType
<1>7. /\ gemm'.idx = n /\ gemm'.ptrs[n] = ptr
      /\ \A k \in 1..3 : k /= n => gemm'.ptrs[k] = gemm.ptrs[k]
  BY <1>2, <1>3, <1>4 DEF GemmType
<1> HIDE DEF n
<1>8. \A k \in 1..3 : k > n => gemm'.ptrs[k] = NULL
  BY <1>2, <1>3, <1>7 DEF n
<1>9. \A k \in 1..3 : gemm.ptrs[k] /= NULL => gemm.ptrs[k] \in heap
  BY DEF PoolState, GemmMatricesLive
<1>10. \A k, m \in 1..3 : gemm.ptrs[k] /= NULL /\ gemm.ptrs[m] /= NULL
                           /\ k /= m => gemm.ptrs[k] /= gemm.ptrs[m]
  BY DEF PoolState, GemmMatricesLive
<1>11. \A k \in 1..3 : gemm'.ptrs[k] /= NULL => gemm'.ptrs[k] \in heap'
  BY <1>4, <1>7, <1>9
<1>12. \A k, m \in 1..3 : gemm'.ptrs[k] /= NULL /\ gemm'.ptrs[m] /= NULL
                           /\ k /= m => gemm'.ptrs[k] /= gemm'.ptrs[m]
  BY <1>4, <1>6, <1>7, <1>9, <1>10
<1>13. GemmMatricesLive'
  BY <1>1, <1>5, <1>11, <1>12 DEF GemmMatricesLive
<1> QED BY <1>1, <1>5, <1>7, <1>8, <1>13, WorkerFacts
        DEF PoolState, GemmPoolSuffices, Pooled, At

LEMMA ReturnsKeepsPool ==
  ASSUME Control, PoolState, NEW sec \in Gemm, GemmReturns(sec)
  PROVE  PoolState'
<1>1. /\ pc = [sec |-> sec, step |-> "setup"]
      /\ pc.sec = sec /\ pc.step = "setup" /\ gemm' = gemm /\ heap' = heap
  BY DEF GemmReturns, At, GemmFree
<1>2. \/ pc' = [sec |-> sec, step |-> "print"]
      \/ /\ pc' = [sec |-> sec, step |-> "begin"]
         /\ \A k \in 1..3 : gemm.ptrs[k] /= NULL
  BY Zenon DEF GemmReturns, Goto
<1>3. pc'.sec = sec /\ pc'.step \in {"print", "begin"}
  BY <1>2
<1>4. pc'.step = "begin" => \A k \in 1..3 : gemm'.ptrs[k] /= NULL
  BY <1>1, <1>2
<1>5. GemmMatricesLive'
  BY <1>1, <1>3, <1>4 DEF PoolState, GemmMatricesLive
<1> QED BY <1>3, <1>5, WorkerFacts DEF PoolState, GemmPoolSuffices, Pooled, At

LEMMA PoolStep ==
  ASSUME Control, GemmType, HeapType, PoolState, [Next]_uvars
  PROVE  PoolState'
<1> USE WorkerFacts DEF At, Goto, memory, local
<1>1. ASSUME NEW sec \in Measured,
             Begin(sec) \/ BeginRead(sec) \/ Iterate(sec) \/ Leave(sec)
      PROVE  PoolState'
  BY <1>1, LoopKeepsPool
<1>2. CASE Prints
  <2>1. ~InPool /\ UNCHANGED gemm
    BY <1>2 DEF Prints, PrintFft, PrintHash, GemmSummary, MapSummary, PrintPng,
                PrintPhysics, InPool, Gemm, Pooled
  <2>2. \E k \in 1..6 : Landed(k + 1, arg)
    BY <1>2, RunAfterLands, TestFacts
    DEF Prints, PrintFft, PrintHash, GemmSummary, MapSummary, PrintPng,
        PrintPhysics, Control
  <2>3. /\ pc'.sec \notin Gemm \/ pc'.step = "enter"
        /\ pc'.step \in {"enter", "done", "selftest"}
    BY <2>2 DEF Landed
  <2> QED BY <2>1, <2>3, OthersKeepPool
<1>3. CASE StartTests
  <2>1. ~InPool /\ UNCHANGED gemm
    BY <1>3 DEF StartTests, InPool, Gemm
  <2>2. \E a \in Commands : Landed(1, a)
    BY <1>3, RunFromLands DEF StartTests, Commands
  <2>3. /\ pc'.sec \notin Gemm \/ pc'.step = "enter"
        /\ pc'.step \in {"enter", "done", "selftest"}
    BY <2>2 DEF Landed
  <2> QED BY <2>1, <2>3, OthersKeepPool
<1>4. ASSUME UnknownOption \/ NullCfg \/ SelfTest
             \/ \E sec \in {"FFT", "HASH"} : TakeBlock(sec)
      PROVE  PoolState'
  <2>1. ASSUME ~InPool, UNCHANGED gemm, pc'.sec \notin Gemm,
               pc'.step \in {"crashed", "done", "begin"}
        PROVE  PoolState'
    BY <2>1, OthersKeepPool
  <2>2. CASE UnknownOption \/ NullCfg
    BY <2>1, <2>2 DEF UnknownOption, NullCfg, InPool, Gemm
  <2>3. CASE SelfTest
    BY <2>1, <2>3 DEF SelfTest, InPool, Gemm
  <2>4. ASSUME NEW sec \in {"FFT", "HASH"}, TakeBlock(sec) PROVE PoolState'
    <3>1. UNCHANGED gemm /\ pc = [sec |-> sec, step |-> "enter"]
      BY <2>4 DEF TakeBlock
    <3>2. \/ pc' = [sec |-> sec, step |-> "begin"]
          \/ pc' = [sec |-> "MAIN", step |-> "crashed"]
      BY <2>4 DEF TakeBlock
    <3> QED BY <2>1, <3>1, <3>2 DEF InPool, Gemm, Pooled
  <2> QED BY <1>4, <2>2, <2>3, <2>4
<1>5. ASSUME EnterMap \/ \E sec \in Maps : TestMap(sec) \/ PrintMap(sec)
      PROVE  PoolState'
  <2>1. /\ ~InPool /\ UNCHANGED gemm /\ pc'.sec \in Maps
    BY <1>5 DEF EnterMap, TestMap, PrintMap, AfterMap, InPool, Gemm, Maps
  <2>2. Maps \cap Gemm = {} /\ "MAIN" \notin Maps
    BY DEF Maps, Gemm
  <2> QED BY <2>1, <2>2, OthersKeepPool
<1>6. ASSUME EnterPng \/ PngDecode \/ PngFree \/ PngLeave \/ EnterPhysics
             \/ PhysicsStep \/ PhysicsLeave
      PROVE  PoolState'
  <2>1. ~InPool /\ UNCHANGED gemm /\ pc'.sec \in {"PNG", "PHYSICS"}
    BY <1>6 DEF EnterPng, PngDecode, PngFree, PngLeave, EnterPhysics,
                PhysicsStep, PhysicsLeave, InPool, Gemm
  <2> QED BY <2>1, OthersKeepPool DEF Gemm
<1>7. ASSUME NEW sec \in Gemm, EnterGemm(sec) PROVE PoolState'
  <2>1. /\ pc.sec = sec /\ pc.step = "enter" /\ i' = 0 /\ heap' = heap
        /\ pc' = [sec |-> sec, step |-> "setup"]
        /\ gemm'.ptrs = gemm.ptrs /\ gemm'.idx = gemm.idx
    BY <1>7 DEF EnterGemm, GemmType
  <2>2. gemm.ptrs = NoPtrs /\ gemm.idx = 0
    BY <2>1, OutsidePool DEF InPool, Pooled
  <2>3. GemmMatricesLive'
    BY <2>1, <2>2, NoPtrsFacts DEF GemmMatricesLive
  <2> QED BY <2>1, <2>2, <2>3, NoPtrsFacts DEF PoolState, GemmPoolSuffices,
             Pooled
<1>8. ASSUME NEW sec \in Gemm, GemmMalloc(sec) \/ GemmReturns(sec)
      PROVE  PoolState'
  BY <1>8, MallocKeepsPool, ReturnsKeepsPool
<1>9. ASSUME NEW sec \in Gemm, PrintGemm(sec) PROVE PoolState'
  <2>1. /\ pc.sec = sec /\ pc.step = "print" /\ heap' = heap
        /\ pc' = [sec |-> sec, step |-> "cleanup"]
        /\ gemm'.ptrs = gemm.ptrs
    BY <1>9 DEF PrintGemm, GemmType
  <2>2. GemmMatricesLive'
    BY <2>1 DEF GemmMatricesLive, PoolState
  <2> QED BY <2>1, <2>2 DEF PoolState, GemmPoolSuffices, Pooled
<1>10. ASSUME NEW sec \in Gemm, GemmCleanup(sec) PROVE PoolState'
  <2>1. /\ gemm'.ptrs = NoPtrs /\ gemm'.idx = 0
        /\ pc'.sec \in Gemm /\ pc'.step \in {"enter", "summary"}
    BY <1>10 DEF GemmCleanup, CleanPool, GemmType, Gemm
  <2>2. GemmMatricesLive'
    BY <2>1, NoPtrsFacts DEF GemmMatricesLive
  <2> QED BY <2>1, <2>2 DEF PoolState, GemmPoolSuffices
<1>11. CASE ReadOption \/ Kernel \/ UNCHANGED uvars
  <2>1. UNCHANGED <<pc, gemm, heap, i>>
    BY <1>11 DEF ReadOption, Kernel, uvars, driver
  <2> QED BY <2>1 DEF PoolState, GemmPoolSuffices, GemmMatricesLive
<1> HIDE DEF At, Goto, memory, local
<1> QED BY <1>1, <1>2, <1>3, <1>4, <1>5, <1>6, <1>7, <1>8, <1>9, <1>10, <1>11
        DEF Next, Driver, Prints, Simple

-----------------------------------------------------------------------------
(* Where control goes.                                                     *)

LEMMA PrintsLand ==
  ASSUME Control, Prints \/ StartTests
  PROVE  /\ \/ pc'.step = "enter" /\ pc'.sec \in FirstSections
            \/ pc'.step \in {"done", "selftest"} /\ pc'.sec = "MAIN"
         /\ i' = i /\ ok' = ok /\ UNCHANGED timing
<1>1. CASE Prints
  <2>1. \E k \in 1..6 : Landed(k + 1, arg)
    BY <1>1, RunAfterLands, TestFacts
    DEF Prints, PrintFft, PrintHash, GemmSummary, MapSummary, PrintPng,
        PrintPhysics, Control
  <2>2. i' = i /\ ok' = ok /\ UNCHANGED timing
    BY <1>1 DEF Prints, PrintFft, PrintHash, GemmSummary, MapSummary, PrintPng,
                PrintPhysics
  <2>3. \/ pc'.step = "enter" /\ pc'.sec \in FirstSections
        \/ pc'.step \in {"done", "selftest"} /\ pc'.sec = "MAIN"
    BY <2>1 DEF Landed
  <2> QED BY <2>2, <2>3
<1>2. CASE StartTests
  <2>1. \E a \in Commands : Landed(1, a)
    BY <1>2, RunFromLands DEF StartTests, Commands
  <2>2. i' = i /\ ok' = ok /\ UNCHANGED timing
    BY <1>2 DEF StartTests
  <2>3. \/ pc'.step = "enter" /\ pc'.sec \in FirstSections
        \/ pc'.step \in {"done", "selftest"} /\ pc'.sec = "MAIN"
    BY <2>1 DEF Landed
  <2> QED BY <2>2, <2>3
<1> QED BY <1>1, <1>2

Inside == {"begin", "reading", "loop", "free"}

-----------------------------------------------------------------------------
(* The clock inside the measured loops.                                    *)

LEMMA NotMeasuring ==
  ASSUME pc'.step \in Inside => (pc'.step = "begin" /\ pc'.sec /= "PNG")
  PROVE  Measuring'
BY DEF Measuring, Inside, At

LEMMA BeginMeasuring ==
  ASSUME Control, Timing, Measuring, NEW sec \in Measured,
         Begin(sec) \/ BeginRead(sec)
  PROVE  Measuring'
<1>1. /\ i' = 0 /\ since' = Nobody /\ loops' = loops /\ ok' = ok
      /\ secs' = secs
      /\ pc'.sec = sec /\ pc'.step \in {"reading", "loop"}
  <2>1. CASE Begin(sec)
    BY <2>1 DEF Begin, Goto
  <2>2. CASE BeginRead(sec)
    BY <2>2 DEF BeginRead, Goto, local, timing, At, Measuring
  <2> QED BY <2>1, <2>2
<1>2. sec = "PNG" /\ ok => secs = Nobody
  <2>1. pc.sec = sec /\ pc.step \in {"begin", "reading"}
    BY DEF Begin, BeginRead, At
  <2> QED BY <2>1 DEF Measuring
<1>3. since' = By(sec, 0) /\ Nobody = By("PNG", 0)
  BY <1>1, ByNone, WorkerFacts DEF Workers, Measured
<1>4. loops' \in Int /\ Asked' \in Nat
  BY <1>1 DEF Control, Asked, AtLeastNone
<1> QED BY <1>1, <1>2, <1>3, <1>4 DEF Measuring, At

LEMMA IterateMeasuring ==
  ASSUME Control, Timing, Measuring, NEW sec \in Simple, Iterate(sec)
  PROVE  Measuring'
<1>1. /\ pc = [sec |-> sec, step |-> "loop"] /\ pc' = pc /\ i < loops
      /\ i' = i + 1 /\ loops' = loops
      /\ since' = [since EXCEPT ![sec] = @ + 1]
  BY DEF Iterate, At
<1>2. since = By(sec, i)
  BY <1>1 DEF Measuring
<1>3. since' = By(sec, i + 1)
  <2>1. i \in Int /\ sec \in Workers
    BY WorkerFacts DEF Control
  <2> QED BY <1>1, <1>2, <2>1, ByFacts
<1>4. i + 1 <= Asked'
  BY <1>1 DEF Asked, AtLeastNone, Control
<1>5. sec \notin {"PNG", "PHYSICS"}
  BY DEF Simple, Gemm, Maps
<1> QED BY <1>1, <1>3, <1>4, <1>5 DEF Measuring, At

LEMMA PngMeasuring ==
  ASSUME Control, Timing, Measuring, EnterPng \/ PngDecode \/ PngFree
  PROVE  Measuring'
<1>1. CASE EnterPng
  BY <1>1 DEF EnterPng, Goto, Measuring, At
<1>2. i \in Int /\ "PNG" \in Workers
  BY DEF Control, Workers, Measured
<1>3. CASE PngDecode
  <2>1. /\ pc = [sec |-> "PNG", step |-> "loop"] /\ i < loops
        /\ pc' = [sec |-> "PNG", step |-> "free"]
        /\ i' = i /\ loops' = loops
        /\ since' = [since EXCEPT !["PNG"] = @ + 1]
    BY <1>3 DEF PngDecode, At, Goto
  <2>2. since' = By("PNG", i + 1)
    BY <1>2, <2>1, ByFacts DEF Measuring
  <2>3. ok' => secs' = By("PNG", i + 1)
    <3>1. ok /\ secs' = [secs EXCEPT !["PNG"] = @ + 1] => secs' = By("PNG", i + 1)
      BY <1>2, <2>1, ByFacts DEF Measuring, At
    <3> QED BY <1>3, <3>1, Zenon DEF PngDecode
  <2> QED BY <2>1, <2>2, <2>3 DEF Measuring, At
<1>4. CASE PngFree
  <2>1. /\ pc = [sec |-> "PNG", step |-> "free"]
        /\ pc' = [sec |-> "PNG", step |-> "loop"]
        /\ i' = i + 1 /\ loops' = loops /\ ok' = ok
        /\ since' = since /\ secs' = secs
    BY <1>4 DEF PngFree, At, Goto, timing
  <2>2. i < loops /\ since = By("PNG", i + 1) /\ (ok => secs = By("PNG", i + 1))
    BY <2>1 DEF Measuring, At
  <2>3. i + 1 <= Asked'
    BY <2>1, <2>2 DEF Asked, AtLeastNone, Control
  <2> QED BY <2>1, <2>2, <2>3 DEF Measuring, At
<1> QED BY <1>1, <1>3, <1>4

LEMMA PhysicsMeasuring ==
  ASSUME Control, Timing, Measuring, PhysicsStep PROVE Measuring'
<1>1. /\ pc = [sec |-> "PHYSICS", step |-> "loop"] /\ pc' = pc
      /\ loops' = loops /\ (loops > 0 => i <= loops)
      /\ i' = IF loops > 0 THEN i + 1 ELSE 1
      /\ since' = [since EXCEPT !["PHYSICS"] = i']
  BY DEF PhysicsStep, At
<1>2. since = By("PHYSICS", i)
  BY <1>1 DEF Measuring
<1>3. since' = By("PHYSICS", i')
  <2>1. i \in Int /\ "PHYSICS" \in Workers
    BY DEF Control, Workers, Measured
  <2>2. \A n : [By("PHYSICS", i) EXCEPT !["PHYSICS"] = n] = By("PHYSICS", n)
    BY <2>1, ByFacts
  <2> QED BY <1>1, <1>2, <2>2
<1>4. loops > 0 => i' <= loops' + 1
  BY <1>1 DEF Control
<1> QED BY <1>1, <1>3, <1>4 DEF Measuring, At

LEMMA MeasuringStep ==
  ASSUME Control, Timing, Measuring, [Next]_uvars PROVE Measuring'
<1> USE DEF Goto, Inside
<1>1. ASSUME NEW sec \in Measured, Begin(sec) \/ BeginRead(sec)
      PROVE  Measuring'
  BY <1>1, BeginMeasuring
<1>2. ASSUME NEW sec \in Simple, Iterate(sec) PROVE Measuring'
  BY <1>2, IterateMeasuring
<1>3. ASSUME NEW sec \in Simple, Leave(sec) PROVE Measuring'
  <2>1. pc' = [sec |-> sec, step |-> "print"]
    BY <1>3 DEF Leave
  <2> QED BY <2>1, NotMeasuring
<1>4. ASSUME NEW sec \in {"FFT", "HASH"}, TakeBlock(sec) PROVE Measuring'
  BY <1>4, NotMeasuring DEF TakeBlock
<1>5. CASE Prints \/ StartTests
  BY <1>5, PrintsLand, NotMeasuring
<1>6. CASE UnknownOption \/ NullCfg
  BY <1>6, NotMeasuring DEF UnknownOption, NullCfg
<1>7. CASE SelfTest
  BY <1>7, NotMeasuring DEF SelfTest
<1>8. ASSUME NEW sec \in Gemm, EnterGemm(sec) \/ PrintGemm(sec)
      PROVE  Measuring'
  <2>1. \/ pc' = [sec |-> sec, step |-> "setup"]
        \/ pc' = [sec |-> sec, step |-> "cleanup"]
    BY <1>8 DEF EnterGemm, PrintGemm
  <2> QED BY <2>1, NotMeasuring
<1>9. ASSUME NEW sec \in Gemm, GemmCleanup(sec) PROVE Measuring'
  <2>1. \/ pc' = [sec |-> "DGEMM", step |-> "enter"]
        \/ pc' = [sec |-> sec, step |-> "summary"]
    BY <1>9 DEF GemmCleanup
  <2> QED BY <2>1, NotMeasuring
<1>10. ASSUME NEW sec \in Gemm, GemmMalloc(sec) PROVE Measuring'
  <2>1. \/ pc' = [sec |-> "MAIN", step |-> "exited"]
        \/ pc' = [sec |-> sec, step |-> "setup"]
    BY <1>10 DEF GemmMalloc, At
  <2> QED BY <2>1, NotMeasuring
<1>11. ASSUME NEW sec \in Gemm, GemmReturns(sec) PROVE Measuring'
  <2>1. \/ pc' = [sec |-> sec, step |-> "print"]
        \/ pc' = [sec |-> sec, step |-> "begin"]
    BY <1>11, Zenon DEF GemmReturns, Goto
  <2> QED BY <2>1, NotMeasuring DEF Gemm
<1>12. CASE EnterMap
  BY <1>12, NotMeasuring DEF EnterMap
<1>13. ASSUME NEW sec \in Maps, TestMap(sec) PROVE Measuring'
  <2>1. \/ pc' = [sec |-> sec, step |-> "begin"]
        \/ pc' = [sec |-> "UNORDERED", step |-> "library"]
        \/ pc' = [sec |-> "UNORDERED", step |-> "summary"]
    BY <1>13, Zenon DEF TestMap, AfterMap, Goto
  <2> QED BY <2>1, NotMeasuring DEF Maps
<1>14. ASSUME NEW sec \in Maps, PrintMap(sec) PROVE Measuring'
  BY <1>14, NotMeasuring DEF PrintMap, AfterMap
<1>15. CASE EnterPng \/ PngDecode \/ PngFree
  BY <1>15, PngMeasuring
<1>16. CASE PngLeave \/ PhysicsLeave \/ EnterPhysics
  <2>1. \/ pc'.step = "print"
        \/ pc' = [sec |-> "PHYSICS", step |-> "begin"]
    BY <1>16 DEF PngLeave, PhysicsLeave, EnterPhysics
  <2> QED BY <2>1, NotMeasuring
<1>17. CASE PhysicsStep
  BY <1>17, PhysicsMeasuring
<1>18. CASE ReadOption \/ Kernel \/ UNCHANGED uvars
  <2>1. UNCHANGED <<pc, i, loops, ok, since, secs>>
    BY <1>18 DEF ReadOption, Kernel, uvars, driver, local, timing
  <2> QED BY <2>1 DEF Measuring, At, Asked
<1> HIDE DEF Goto, Inside
<1> QED BY <1>1, <1>2, <1>3, <1>4, <1>5, <1>6, <1>7, <1>8, <1>9, <1>10, <1>11,
           <1>12, <1>13, <1>14, <1>15, <1>16, <1>17, <1>18
        DEF Next, Driver, Prints

-----------------------------------------------------------------------------
(* What waits to be printed.                                               *)

LEMMA NotPrinting ==
  ASSUME ~counters_valid', pc'.step /= "print" PROVE Printing'
BY DEF Printing

LEMMA QuietPrinting ==
  ASSUME Printing, pc.step /= "print", counters_valid' = counters_valid,
         pc'.step /= "print"
  PROVE  Printing'
BY NotPrinting DEF Printing

LEMMA PrintScoreRow ==
  ASSUME NEW name, NEW duration, NEW column,
         PrintScore(name, duration, column)
  PROVE  grp' = grp /\ ~counters_valid'
<1>1. CASE counters_valid
  BY <1>1, PerfPrintRow DEF PrintScore
<1>2. CASE ~counters_valid
  BY <1>2 DEF PrintScore, perf
<1> QED BY <1>1, <1>2

LEMMA PrintsRow ==
  ASSUME Prints \/ \E sec : PrintGemm(sec) \/ PrintMap(sec)
  PROVE  grp' = grp /\ ~counters_valid'
<1>1. ASSUME Prints PROVE grp' = grp /\ ~counters_valid'
  BY <1>1, PrintScoreRow DEF Prints, PrintFft, PrintHash, GemmSummary,
     MapSummary, PrintPng, PrintPhysics
<1>2. ASSUME NEW sec, PrintGemm(sec) PROVE grp' = grp /\ ~counters_valid'
  BY <1>2, PrintScoreRow DEF PrintGemm
<1>3. ASSUME NEW sec, PrintMap(sec) PROVE grp' = grp /\ ~counters_valid'
  <2>1. \E name, duration, column : PrintScore(name, duration, column)
    BY <1>3, Zenon DEF PrintMap
  <2> QED BY <2>1, PrintScoreRow
<1> QED BY <1>1, <1>2, <1>3

LEMMA EndPrinting ==
  ASSUME Control, Printing, NEW sec \in Measured, EndOf(sec),
         pc = [sec |-> sec, step |-> "loop"],
         pc' = [sec |-> sec, step |-> "print"],
         UNCHANGED <<i, loops>>,
         since = By(sec, i),
         sec = "PNG" /\ ok' => secs = By("PNG", i),
         ok' => IF sec = "PHYSICS" THEN i \in {Asked, Asked + 1}
                                   ELSE i = Asked,
         sec \in Maps => i <= Asked
  PROVE  Printing'
<1>1. ~counters_valid
  BY DEF Printing
<1>2. /\ grp' = grp
      /\ IF grp.n = 0 THEN counters_valid' = counters_valid
                      ELSE counters_valid' = TRUE
  BY PerfEndRow DEF EndOf
<1>3. counters_valid' \/ grp'.n = 0
  BY <1>2
<1>4. window' = By(sec, i)
  BY DEF EndOf
<1>5. /\ sec /= "PNG" => secs' = By(sec, i)
      /\ sec = "PNG" => secs' = secs
  BY DEF EndOf
<1>6. pc'.sec = sec /\ pc'.step = "print" /\ Asked' = Asked /\ i' = i
  BY DEF Asked
<1> QED BY <1>1, <1>3, <1>4, <1>5, <1>6 DEF Printing

LEMMA LeavePrinting ==
  ASSUME Control, Measuring, Printing
  PROVE  /\ \A sec \in Simple : Leave(sec) => Printing'
         /\ PngLeave \/ PhysicsLeave => Printing'
<1> USE DEF At, Goto
<1>1. ASSUME NEW sec \in Simple, Leave(sec) PROVE Printing'
  <2>1. /\ pc = [sec |-> sec, step |-> "loop"]
        /\ pc' = [sec |-> sec, step |-> "print"]
        /\ UNCHANGED <<i, loops>> /\ EndOf(sec)
    BY <1>1 DEF Leave
  <2>2. i <= Asked /\ since = By(sec, i) /\ sec /= "PHYSICS" /\ sec /= "PNG"
    BY <2>1 DEF Measuring, Simple, Gemm, Maps
  <2>3. ok' => i = Asked
    <3>1. ok' => i >= loops
      BY <1>1, Zenon DEF Leave, LoopEnded
    <3> QED BY <2>2, <3>1 DEF Asked, AtLeastNone, Control
  <2> QED BY <2>1, <2>2, <2>3, WorkerFacts, EndPrinting
<1>2. CASE PngLeave
  <2>1. /\ pc = [sec |-> "PNG", step |-> "loop"]
        /\ pc' = [sec |-> "PNG", step |-> "print"]
        /\ UNCHANGED <<i, loops, ok>> /\ EndOf("PNG") /\ i >= loops
    BY <1>2 DEF PngLeave, LoopEnded, local
  <2>2. /\ i <= Asked /\ since = By("PNG", i)
        /\ ok => secs = By("PNG", i)
    BY <2>1 DEF Measuring
  <2>3. i = Asked
    BY <2>1, <2>2 DEF Asked, AtLeastNone, Control
  <2> QED BY <2>1, <2>2, <2>3, EndPrinting DEF Measured
<1>3. CASE PhysicsLeave
  <2>1. /\ pc = [sec |-> "PHYSICS", step |-> "loop"]
        /\ pc' = [sec |-> "PHYSICS", step |-> "print"]
        /\ UNCHANGED <<i, loops, ok>> /\ EndOf("PHYSICS")
        /\ i >= loops /\ loops > 0
    BY <1>3 DEF PhysicsLeave, local
  <2>2. i <= loops + 1 /\ since = By("PHYSICS", i)
    BY <2>1 DEF Measuring
  <2>3. i \in {Asked, Asked + 1}
    BY <2>1, <2>2 DEF Asked, AtLeastNone, Control
  <2> QED BY <2>1, <2>2, <2>3, EndPrinting DEF Measured, Maps
<1> QED BY <1>1, <1>2, <1>3

LEMMA ReturnsPrinting ==
  ASSUME Printing, NEW sec \in Gemm, GemmReturns(sec) PROVE Printing'
<1>1. /\ pc = [sec |-> sec, step |-> "setup"] /\ counters_valid' = counters_valid
  BY DEF GemmReturns, At, perf
<1>2. \/ pc' = [sec |-> sec, step |-> "begin"]
      \/ /\ pc' = [sec |-> sec, step |-> "print"]
         /\ ok' = FALSE /\ secs' = Nobody
  BY Zenon DEF GemmReturns, Goto
<1>3. ~counters_valid'
  BY <1>1 DEF Printing
<1>4. sec \notin Maps /\ sec \in Gemm
  BY DEF Maps, Gemm
<1>5. CASE pc' = [sec |-> sec, step |-> "begin"]
  BY <1>3, <1>5, NotPrinting
<1>6. CASE pc' = [sec |-> sec, step |-> "print"]
  <2>1. ~ok' /\ secs' = Nobody
    BY <1>2, <1>6
  <2> QED BY <1>3, <1>4, <1>6, <2>1 DEF Printing
<1> QED BY <1>2, <1>5, <1>6

LEMMA PrintingStep ==
  ASSUME Control, Measuring, Printing, [Next]_uvars PROVE Printing'
<1> USE DEF Goto, At, perf
<1>1. ASSUME NEW sec \in Measured, Begin(sec) \/ BeginRead(sec)
      PROVE  Printing'
  <2>1. Quiet
    BY <1>1, PerfQuiet DEF Begin, BeginRead
  <2>2. pc.step \in {"begin", "reading"} /\ pc'.step \in {"reading", "loop"}
    BY <1>1 DEF Begin, BeginRead
  <2> QED BY <2>1, <2>2, QuietPrinting DEF Quiet
<1>2. ASSUME NEW sec \in Simple, Iterate(sec) PROVE Printing'
  BY <1>2, QuietPrinting DEF Iterate
<1>3. ASSUME NEW sec \in Simple, Leave(sec) PROVE Printing'
  BY <1>3, LeavePrinting
<1>4. ASSUME NEW sec \in {"FFT", "HASH"}, TakeBlock(sec) PROVE Printing'
  BY <1>4, QuietPrinting DEF TakeBlock
<1>5. CASE Prints
  <2>1. pc'.step /= "print"
    BY <1>5, PrintsLand
  <2> QED BY <1>5, <2>1, PrintsRow, NotPrinting
<1>6. CASE StartTests
  <2>1. pc'.step /= "print"
    BY <1>6, PrintsLand
  <2>2. pc.step = "options" /\ Quiet
    BY <1>6, PerfQuiet DEF StartTests
  <2> QED BY <2>1, <2>2, QuietPrinting DEF Quiet
<1>7. CASE UnknownOption \/ NullCfg \/ SelfTest
  <2>1. CASE UnknownOption \/ NullCfg
    BY <2>1, QuietPrinting DEF UnknownOption, NullCfg
  <2>2. CASE SelfTest
    BY <2>2, QuietPrinting DEF SelfTest
  <2> QED BY <1>7, <2>1, <2>2
<1>8. ASSUME NEW sec \in Gemm, EnterGemm(sec) \/ GemmCleanup(sec)
      PROVE  Printing'
  <2>1. /\ counters_valid' = counters_valid /\ pc.step \in {"enter", "cleanup"}
        /\ pc'.step \in {"setup", "enter", "summary"}
    BY <1>8 DEF EnterGemm, GemmCleanup
  <2> QED BY <2>1, QuietPrinting
<1>9. ASSUME NEW sec \in Gemm, GemmMalloc(sec) PROVE Printing'
  <2>1. /\ counters_valid' = counters_valid /\ pc.step = "setup"
        /\ pc'.step \in {"setup", "exited"}
    BY <1>9 DEF GemmMalloc
  <2> QED BY <2>1, QuietPrinting
<1>10. ASSUME NEW sec \in Gemm, GemmReturns(sec) PROVE Printing'
  BY <1>10, ReturnsPrinting
<1>11. ASSUME NEW sec \in Gemm, PrintGemm(sec) PROVE Printing'
  <2>1. pc' = [sec |-> sec, step |-> "cleanup"]
    BY <1>11 DEF PrintGemm
  <2> QED BY <1>11, <2>1, PrintsRow, NotPrinting
<1>12. CASE EnterMap
  BY <1>12, QuietPrinting DEF EnterMap
<1>13. ASSUME NEW sec \in Maps, TestMap(sec) PROVE Printing'
  <2>1. /\ counters_valid' = counters_valid /\ pc.step = "library"
        /\ pc'.step \in {"begin", "library", "summary"}
    BY <1>13 DEF TestMap, AfterMap
  <2> QED BY <2>1, QuietPrinting
<1>14. ASSUME NEW sec \in Maps, PrintMap(sec) PROVE Printing'
  <2>1. pc'.step \in {"library", "summary"}
    BY <1>14 DEF PrintMap, AfterMap
  <2> QED BY <1>14, <2>1, PrintsRow, NotPrinting
<1>15. CASE EnterPng \/ PngDecode \/ PngFree \/ EnterPhysics \/ PhysicsStep
  <2>1. /\ counters_valid' = counters_valid
        /\ pc.step \in {"enter", "loop", "free"}
        /\ pc'.step \in {"begin", "free", "loop"}
    BY <1>15 DEF EnterPng, PngDecode, PngFree, EnterPhysics, PhysicsStep
  <2> QED BY <2>1, QuietPrinting
<1>16. CASE PngLeave \/ PhysicsLeave
  BY <1>16, LeavePrinting
<1>17. CASE ReadOption
  <2>1. counters_valid' = counters_valid /\ pc' = pc /\ pc.step = "options"
    BY <1>17, PerfConfigKeepsRow DEF ReadOption, driver
  <2> QED BY <2>1, QuietPrinting
<1>18. CASE Kernel \/ UNCHANGED uvars
  <2>1. UNCHANGED <<pc, i, loops, ok, window, secs>>
    BY <1>18 DEF Kernel, uvars, driver, local, timing
  <2>2. Quiet
    BY <1>18, PerfQuiet DEF Kernel, uvars
  <2> QED BY <2>1, <2>2 DEF Printing, Asked, Quiet
<1> HIDE DEF Goto, At, perf
<1> QED BY <1>1, <1>2, <1>3, <1>4, <1>5, <1>6, <1>7, <1>8, <1>9, <1>10, <1>11,
           <1>12, <1>13, <1>14, <1>15, <1>16, <1>17, <1>18
        DEF Next, Driver, Prints

-----------------------------------------------------------------------------
(* test_603_map: the calls of the hook and their results.                  *)

LEMMA PrintsOrder ==
  ASSUME Control, Prints
  PROVE  /\ pc.sec \in Measured
         /\ \/ /\ pc'.step = "enter" /\ pc'.sec \in FirstSections
               /\ Place[pc'.sec] > Place[pc.sec]
            \/ pc'.step \in {"done", "selftest"} /\ pc'.sec = "MAIN"
<1> DEFINE Onwards == \/ /\ pc'.step = "enter" /\ pc'.sec \in FirstSections
                         /\ Place[pc'.sec] > Place[pc.sec]
                      \/ pc'.step \in {"done", "selftest"} /\ pc'.sec = "MAIN"
<1>1. ASSUME NEW k \in 1..6, RunAfter(Tests[k]), pc.sec \in Measured,
             Place[pc.sec] = k
      PROVE  pc.sec \in Measured /\ Onwards
  <2>1. Landed(k + 1, arg)
    BY <1>1, RunAfterLands DEF Control
  <2>2. \/ /\ pc'.step = "enter" /\ pc'.sec \in FirstSections
           /\ Place[pc'.sec] >= k + 1
        \/ pc'.step \in {"done", "selftest"} /\ pc'.sec = "MAIN"
    BY <2>1 DEF Landed
  <2>3. \A sec \in FirstSections : Place[sec] \in Nat
    BY PlaceFacts DEF FirstSections
  <2>4. ASSUME pc'.step = "enter", pc'.sec \in FirstSections,
               Place[pc'.sec] >= k + 1
        PROVE  Place[pc'.sec] > Place[pc.sec]
    <3>1. PICK n \in Nat : n = Place[pc'.sec]
      BY <2>3, <2>4
    <3> QED BY <1>1, <2>4, <3>1
  <2> QED BY <1>1, <2>2, <2>4
<1> HIDE DEF Onwards
<1>2. pc.sec \in Measured /\ Onwards
  <2> USE TestFacts, PlaceFacts DEF At, Measured, Gemm, Maps
  <2>1. CASE PrintFft
    BY <1>1, <2>1 DEF PrintFft
  <2>2. CASE GemmSummary
    BY <1>1, <2>2 DEF GemmSummary
  <2>3. CASE MapSummary
    BY <1>1, <2>3 DEF MapSummary
  <2>4. CASE PrintPng
    BY <1>1, <2>4 DEF PrintPng
  <2>5. CASE PrintPhysics
    BY <1>1, <2>5 DEF PrintPhysics
  <2>6. CASE PrintHash
    BY <1>1, <2>6 DEF PrintHash
  <2> QED BY <2>1, <2>2, <2>3, <2>4, <2>5, <2>6 DEF Prints
<1> QED BY <1>2 DEF Onwards

BeforeMaps == pc.sec \in {"FFT", "SGEMM", "DGEMM", "ORDERED"}
              \/ At("MAIN", "options")

(* Outside its own actions, test_603_map stays where it is.                *)
SameMap ==
  /\ BeforeMaps' => BeforeMaps
  /\ pc'.sec \in Maps /\ pc'.step /= "enter" =>
       /\ pc.sec = pc'.sec /\ loops' = loops
       /\ \/ pc'.step = pc.step
          \/ {pc.step, pc'.step} \subseteq {"begin", "reading", "loop", "print"}

MapActions == EnterMap \/ \E sec \in Maps : TestMap(sec) \/ PrintMap(sec)

LEMMA OtherActions ==
  ASSUME Control, [Next]_uvars, ~MapActions PROVE SameMap
<1> USE DEF Goto, At, local
<1>1. ASSUME NEW sec \in Measured,
             Begin(sec) \/ BeginRead(sec) \/ Iterate(sec) \/ Leave(sec)
      PROVE  SameMap
  <2>1. /\ pc.sec = sec /\ pc'.sec = sec /\ loops' = loops
        /\ pc.step \in {"begin", "reading", "loop"}
        /\ pc'.step \in {"reading", "loop", "print"}
    BY <1>1 DEF Begin, BeginRead, Iterate, Leave
  <2> QED BY <2>1, WorkerFacts DEF SameMap, BeforeMaps
<1>2. ASSUME pc'.sec \notin Maps, BeforeMaps' => BeforeMaps PROVE SameMap
  BY <1>2 DEF SameMap
<1>3. CASE Prints
  <2>1. pc'.sec \notin Maps \/ pc'.step = "enter"
    BY <1>3, PrintsOrder DEF Maps
  <2>2. BeforeMaps' => BeforeMaps
    BY <1>3, PrintsOrder, PlaceFacts DEF BeforeMaps, Measured, Gemm, Maps,
       FirstSections
  <2> QED BY <2>1, <2>2 DEF SameMap
<1>4. CASE StartTests
  <2>1. pc'.sec \notin Maps \/ pc'.step = "enter"
    BY <1>4, PrintsLand DEF Maps
  <2>2. BeforeMaps
    BY <1>4 DEF StartTests, BeforeMaps
  <2> QED BY <2>1, <2>2 DEF SameMap
<1> USE <1>2 DEF BeforeMaps, Maps, Gemm
<1>5. CASE UnknownOption \/ NullCfg
  BY <1>5 DEF UnknownOption, NullCfg
<1>6. CASE SelfTest
  BY <1>6 DEF SelfTest
<1>7. ASSUME NEW sec \in {"FFT", "HASH"}, TakeBlock(sec) PROVE SameMap
  BY <1>7 DEF TakeBlock
<1>8. ASSUME NEW sec \in Gemm, EnterGemm(sec) \/ PrintGemm(sec)
      PROVE  SameMap
  BY <1>8 DEF EnterGemm, PrintGemm
<1>9. ASSUME NEW sec \in Gemm, GemmCleanup(sec) \/ GemmMalloc(sec)
      PROVE  SameMap
  BY <1>9 DEF GemmCleanup, GemmMalloc
<1>10. ASSUME NEW sec \in Gemm, GemmReturns(sec) PROVE SameMap
  <2>1. pc.sec = sec
    BY <1>10 DEF GemmReturns
  <2>2. \/ pc' = [sec |-> sec, step |-> "print"]
        \/ pc' = [sec |-> sec, step |-> "begin"]
    BY <1>10, Zenon DEF GemmReturns, Goto
  <2> QED BY <2>1, <2>2
<1>11. CASE EnterPng \/ PngDecode \/ PngFree \/ PngLeave
  BY <1>11 DEF EnterPng, PngDecode, PngFree, PngLeave
<1>12. CASE EnterPhysics \/ PhysicsStep \/ PhysicsLeave
  BY <1>12 DEF EnterPhysics, PhysicsStep, PhysicsLeave
<1>13. CASE ReadOption \/ Kernel \/ UNCHANGED uvars
  <2>1. UNCHANGED <<pc, loops>>
    BY <1>13 DEF ReadOption, Kernel, uvars, driver
  <2> QED BY <2>1 DEF SameMap
<1> HIDE DEF Goto, At, local, BeforeMaps, Maps, Gemm
<1> QED BY <1>1, <1>3, <1>4, <1>5, <1>6, <1>7, <1>8, <1>9, <1>10, <1>11,
           <1>12, <1>13, WorkerFacts
        DEF Next, Driver, Prints, MapActions

(* The sum of test_603_map, of a iterations ordered and b unordered.       *)
Summed(sum, b) == /\ sum = Plus(By("ORDERED", sum["ORDERED"]),
                                By("UNORDERED", sum["UNORDERED"]))
                  /\ sum["UNORDERED"] = b

LEMMA SumOfMaps ==
  ASSUME NEW a \in Nat, NEW b \in Nat
  PROVE  /\ Summed(Plus(By("ORDERED", a), By("UNORDERED", b)), b)
         /\ Summed(Plus(By("ORDERED", a), Nobody), 0)
         /\ Summed(Plus(By("UNORDERED", b), Nobody), b)
         /\ Summed(Plus(Nobody, Nobody), 0)
<1> DEFINE O == By("ORDERED", a)
           U == By("UNORDERED", b)
<1>1. "ORDERED" \in Workers /\ "UNORDERED" \in Workers /\ "ORDERED" /= "UNORDERED"
  BY DEF Workers, Measured, Maps
<1>2. ASSUME NEW m \in Nat, NEW n \in Nat, NEW s,
             s = Plus(By("ORDERED", m), By("UNORDERED", n))
      PROVE  Summed(s, n)
  <2>1. s["ORDERED"] = m /\ s["UNORDERED"] = n
    BY <1>1, <1>2 DEF Plus, By, Nobody
  <2> QED BY <1>2, <2>1 DEF Summed
<1>3. /\ O \in Times /\ U \in Times /\ Nobody \in Times
      /\ By("ORDERED", 0) = Nobody /\ By("UNORDERED", 0) = Nobody
  BY <1>1, ByTimes, ByNone, NobodyTimes
<1>4. /\ Plus(O, Nobody) = Plus(O, By("UNORDERED", 0))
      /\ Plus(Nobody, Nobody) = Plus(By("ORDERED", 0), By("UNORDERED", 0))
  BY <1>3
<1>5. Plus(U, Nobody) = Plus(By("ORDERED", 0), U)
  <2> HIDE DEF O, U
  <2>1. \A w \in Workers : U[w] + Nobody[w] = Nobody[w] + U[w]
    BY <1>3 DEF Times
  <2>2. Plus(U, Nobody) = Plus(Nobody, U)
    BY <2>1 DEF Plus
  <2> QED BY <1>3, <2>2
<1>6. Summed(Plus(O, U), b)
  BY <1>2
<1>7. Summed(Plus(O, Nobody), 0) /\ Summed(Plus(Nobody, Nobody), 0)
  BY <1>2, <1>4
<1>8. Summed(Plus(U, Nobody), b)
  BY <1>2, <1>5
<1> QED BY <1>6, <1>7, <1>8

LEMMA SummedEnough ==
  ASSUME NEW s, NEW n \in Nat, NEW bound \in Nat, Summed(s, n), n <= bound
  PROVE  /\ s = Plus(By("ORDERED", s["ORDERED"]),
                     By("UNORDERED", s["UNORDERED"]))
         /\ s["UNORDERED"] <= bound
BY DEF Summed

LEMMA EnterMapState ==
  ASSUME Control, MapType, MapState, EnterMap PROVE MapState'
<1>1. /\ pc = [sec |-> "ORDERED", step |-> "enter"]
      /\ pc' = [sec |-> "ORDERED", step |-> "library"]
      /\ map' = [map EXCEPT !.idx = 0, !.unordered = UnorderedLoops(loops),
                            !.loops = loops, !.skipped = FALSE]
  BY DEF EnterMap, At, Goto
<1>2. /\ map'.idx = 0 /\ map'.unordered = UnorderedLoops(loops)
      /\ map'.loops = loops /\ map'.skipped = FALSE
      /\ map'.results = map.results
  BY <1>1 DEF MapType
<1>3. map.results = NoResults
  BY <1>1 DEF MapState
<1> QED BY <1>1, <1>2, <1>3 DEF MapState, InMap, Hooked, At

LEMMA SameMapState ==
  ASSUME Control, MapType, MapState, SameMap, UNCHANGED map PROVE MapState'
<1>1. ASSUME InMap("ORDERED")' PROVE InMap("ORDERED")
  BY <1>1 DEF SameMap, InMap, Hooked, Maps
<1>2. ASSUME InMap("UNORDERED")' PROVE InMap("UNORDERED")
  BY <1>2 DEF SameMap, InMap, Hooked, Maps
<1>3. ASSUME InMap("ORDERED")' \/ InMap("UNORDERED")', pc'.step /= "library"
      PROVE  pc.step /= "library" /\ loops' = loops
  BY <1>3 DEF SameMap, InMap, Hooked, Maps
<1>4. ASSUME At("UNORDERED", "summary")' PROVE At("UNORDERED", "summary")
  <2>1. pc.sec = "UNORDERED" /\ pc.step = "summary"
    BY <1>4 DEF SameMap, At, Maps
  <2> QED BY <2>1 DEF At, Control
<1>5. BeforeMaps' => BeforeMaps
  BY DEF SameMap
<1>6. HookLoops' = HookLoops
  BY DEF HookLoops, HalfArgument
<1> QED BY <1>1, <1>2, <1>3, <1>4, <1>5, <1>6
        DEF MapState, BeforeMaps

Kept == \/ map.results = NoResults
        \/ /\ map.results[1] = Nobody
           /\ map.results[0] = By("ORDERED", map.results[0]["ORDERED"])

LEMMA AfterOrdered ==
  ASSUME pc' = [sec |-> "UNORDERED", step |-> "library"],
         map'.unordered = UnorderedLoops(map'.loops),
         \/ map'.idx = 0 /\ map'.skipped /\ map'.results = NoResults
         \/ /\ map'.idx = 1 /\ ~map'.skipped /\ map'.results[1] = Nobody
            /\ map'.results[0] = By("ORDERED", map'.results[0]["ORDERED"])
  PROVE  MapState'
BY DEF MapState, InMap, Hooked, At

LEMMA AfterUnordered ==
  ASSUME pc' = [sec |-> "UNORDERED", step |-> "summary"],
         map'.loops \in Int, NEW n \in Nat,
         Summed(Plus(map'.results[0], map'.results[1]), n),
         n <= UnorderedLoops(map'.loops)
  PROVE  MapState'
<1>1. UnorderedLoops(map'.loops) \in Nat
  BY UnorderedFacts
<1>2. LET sum == Plus(map'.results[0], map'.results[1])
      IN /\ sum = Plus(By("ORDERED", sum["ORDERED"]),
                       By("UNORDERED", sum["UNORDERED"]))
         /\ sum["UNORDERED"] <= UnorderedLoops(map'.loops)
  BY <1>1, SummedEnough
<1> QED BY <1>2 DEF MapState, InMap, Hooked, At

LEMMA TestMapState ==
  ASSUME Control, MapType, MapState, NEW sec \in Maps, TestMap(sec)
  PROVE  MapState'
<1>1. pc = [sec |-> sec, step |-> "library"]
      /\ pc.sec = sec /\ pc.step = "library" /\ sec \in {"ORDERED", "UNORDERED"}
  BY DEF TestMap, At, Maps
<1>2. map.unordered = UnorderedLoops(map.loops)
  BY <1>1 DEF MapState, InMap, Hooked
<1>3. CASE /\ loops' = HookLoops /\ map' = map
           /\ pc' = [sec |-> sec, step |-> "begin"]
  <2>1. HookLoops' = HookLoops
    BY <1>3 DEF HookLoops, HalfArgument
  <2> QED BY <1>1, <1>3, <2>1 DEF MapState, InMap, Hooked, At
<1>4. CASE /\ map' = [map EXCEPT !.skipped = @ \/ sec = "ORDERED"]
           /\ AfterMap(sec)
  <2>1. /\ map'.idx = map.idx /\ map'.unordered = map.unordered
        /\ map'.loops = map.loops /\ map'.results = map.results
        /\ map'.skipped <=> (map.skipped \/ sec = "ORDERED")
    BY <1>4 DEF MapType
  <2>2. CASE sec = "ORDERED"
    <3>1. map'.idx = 0 /\ map'.skipped /\ map'.results = NoResults
      BY <1>1, <2>1, <2>2 DEF MapState, InMap, Hooked
    <3>2. pc' = [sec |-> "UNORDERED", step |-> "library"]
      BY <1>4, <2>2 DEF AfterMap, Goto
    <3> QED BY <1>2, <2>1, <3>1, <3>2, AfterOrdered
  <2>3. CASE sec = "UNORDERED"
    <3>1. pc' = [sec |-> "UNORDERED", step |-> "summary"]
      BY <1>4, <2>3 DEF AfterMap, Goto
    <3>2. Kept
      BY <1>1, <2>3 DEF MapState, InMap, Hooked, Kept
    <3>3. Summed(Plus(map.results[0], map.results[1]), 0)
      <4>1. CASE map.results = NoResults
        <5>1. map.results[0] = Nobody /\ map.results[1] = Nobody
          BY <4>1 DEF NoResults
        <5> QED BY <5>1, SumOfMaps
      <4>2. CASE /\ map.results[1] = Nobody
                 /\ map.results[0] = By("ORDERED", map.results[0]["ORDERED"])
        <5>1. map.results[0]["ORDERED"] \in Nat
          BY DEF MapType, Times, Workers, Measured, Maps
        <5>2. PICK a \in Nat : a = map.results[0]["ORDERED"]
          BY <5>1
        <5> QED BY <4>2, <5>2, SumOfMaps
      <4> QED BY <3>2, <4>1, <4>2 DEF Kept
    <3>4. 0 <= UnorderedLoops(map'.loops) /\ map'.loops \in Int
      <4>1. map.loops \in Int
        BY DEF MapType
      <4>2. UnorderedLoops(map.loops) \in Nat
        BY <4>1, UnorderedFacts
      <4> QED BY <2>1, <4>1, <4>2
    <3> QED BY <2>1, <3>1, <3>3, <3>4, AfterUnordered
  <2> QED BY <1>1, <2>2, <2>3
<1>5. \/ /\ loops' = HookLoops /\ map' = map
         /\ pc' = [sec |-> sec, step |-> "begin"]
      \/ /\ map' = [map EXCEPT !.skipped = @ \/ sec = "ORDERED"]
         /\ AfterMap(sec)
  BY Zenon DEF TestMap, Goto
<1> QED BY <1>3, <1>4, <1>5

LEMMA PrintMapState ==
  ASSUME Control, MapType, MapState, Printing, NEW sec \in Maps, PrintMap(sec)
  PROVE  MapState'
<1>1. pc = [sec |-> sec, step |-> "print"]
      /\ pc.sec = sec /\ pc.step = "print" /\ sec \in {"ORDERED", "UNORDERED"}
  BY DEF PrintMap, At, Maps
<1>2. map.unordered = UnorderedLoops(map.loops) /\ loops = HookLoops
  BY <1>1 DEF MapState, InMap, Hooked
<1>3. map' = [map EXCEPT !.results = [map.results EXCEPT ![map.idx] = secs],
                         !.idx = @ + 1]
  BY DEF PrintMap, ResultSlot
<1>4. secs = By(sec, i) /\ i <= Asked /\ i \in Nat
  BY <1>1 DEF Printing, Gemm, Control
<1>5. /\ map'.idx = map.idx + 1 /\ map'.unordered = map.unordered
      /\ map'.loops = map.loops /\ map'.skipped = map.skipped
      /\ map'.results = [map.results EXCEPT ![map.idx] = secs]
  BY <1>3 DEF MapType
<1>6. CASE sec = "ORDERED"
  <2>1. map.idx = 0 /\ ~map.skipped /\ map.results = NoResults
    BY <1>1, <1>6 DEF MapState, InMap, Hooked
  <2>2. map'.results[0] = By("ORDERED", i) /\ map'.results[1] = Nobody
    BY <1>4, <1>5, <1>6, <2>1 DEF NoResults
  <2>3. By("ORDERED", i)["ORDERED"] = i
    BY ByItself DEF Workers, Measured, Maps
  <2>4. pc' = [sec |-> "UNORDERED", step |-> "library"]
    BY <1>6 DEF PrintMap, AfterMap, Goto
  <2>5. map'.idx = 1
    BY <1>5, <2>1
  <2> QED BY <1>2, <1>5, <2>1, <2>2, <2>3, <2>4, <2>5, AfterOrdered
<1>7. CASE sec = "UNORDERED"
  <2>1. pc' = [sec |-> "UNORDERED", step |-> "summary"]
    BY <1>7 DEF PrintMap, AfterMap, Goto
  <2>2. map.loops \in Int
    BY DEF MapType
  <2>3. /\ UnorderedLoops(map.loops) \in Nat /\ UnorderedLoops(map.loops) >= 1
        /\ UnorderedLoops(map.loops) >= map.loops
    BY <2>2, UnorderedFacts
  <2>4. i <= UnorderedLoops(map.loops)
    BY <1>2, <1>4, <2>2, <2>3 DEF Asked, AtLeastNone, HookLoops, HalfArgument
  <2>5. Summed(Plus(map'.results[0], map'.results[1]), i)
    <3>1. CASE map.idx = 0 /\ map.results = NoResults
      <4>1. map'.results[0] = By("UNORDERED", i) /\ map'.results[1] = Nobody
        BY <1>4, <1>5, <1>7, <3>1 DEF NoResults
      <4> QED BY <1>4, <4>1, SumOfMaps
    <3>2. CASE /\ map.idx = 1
               /\ map.results[0] = By("ORDERED", map.results[0]["ORDERED"])
      <4>1. map.results[0]["ORDERED"] \in Nat
        BY DEF MapType, Times, Workers, Measured, Maps
      <4>2. PICK a \in Nat : a = map.results[0]["ORDERED"]
        BY <4>1
      <4>3. /\ map'.results[0] = By("ORDERED", a)
            /\ map'.results[1] = By("UNORDERED", i)
        BY <1>4, <1>5, <1>7, <3>2, <4>2 DEF MapType
      <4> QED BY <1>4, <4>2, <4>3, SumOfMaps
    <3> QED BY <1>1, <1>7, <3>1, <3>2 DEF MapState, InMap, Hooked
  <2> QED BY <1>4, <1>5, <2>1, <2>2, <2>4, <2>5, AfterUnordered
<1> QED BY <1>1, <1>6, <1>7

LEMMA MapStep ==
  ASSUME Control, MapType, MapState, Printing, [Next]_uvars PROVE MapState'
<1>1. CASE MapActions
  BY <1>1, EnterMapState, TestMapState, PrintMapState DEF MapActions
<1>2. CASE ~MapActions
  <2>1. UNCHANGED map
    BY <1>2, MapFrame DEF MapActions
  <2> QED BY <1>2, <2>1, OtherActions, SameMapState
<1> QED BY <1>1, <1>2

-----------------------------------------------------------------------------
(* The tests the command line selects.                                     *)

SameTest ==
  /\ arg' = arg
  /\ pc'.sec \in Measured => /\ pc.sec \in Measured
                             /\ Place[pc'.sec] = Place[pc.sec]
  /\ pc'.step \in {"options", "selftest"} => pc' = pc
  /\ pc'.step = "done" => pc' = pc \/ pc'.sec = "MAIN"

LEMMA StaysInTest ==
  ASSUME Control, [Next]_uvars, ~Prints, ~StartTests PROVE SameTest
<1> USE DEF Goto, At, local
<1>1. ASSUME NEW sec \in Measured, UNCHANGED arg, pc.sec = sec,
             NEW step \in Steps, step \notin {"options", "selftest", "done"},
             pc' = [sec |-> sec, step |-> step] \/ pc' = pc
      PROVE  SameTest
  BY <1>1 DEF SameTest
<1>2. ASSUME UNCHANGED arg, pc'.sec = "MAIN",
             pc'.step \notin {"options", "selftest"}
      PROVE  SameTest
  BY <1>2, WorkerFacts DEF SameTest
<1>3. ASSUME UNCHANGED <<pc, arg>> PROVE SameTest
  BY <1>3 DEF SameTest
<1>4. ASSUME NEW sec \in Measured,
             Begin(sec) \/ BeginRead(sec) \/ Iterate(sec) \/ Leave(sec)
      PROVE  SameTest
  BY <1>1, <1>4 DEF Begin, BeginRead, Iterate, Leave, Steps
<1>5. CASE UnknownOption \/ NullCfg \/ SelfTest
  <2>1. CASE UnknownOption \/ NullCfg
    BY <1>2, <2>1 DEF UnknownOption, NullCfg
  <2>2. CASE SelfTest
    BY <1>2, <2>2 DEF SelfTest
  <2> QED BY <1>5, <2>1, <2>2
<1>6. ASSUME NEW sec \in {"FFT", "HASH"}, TakeBlock(sec) PROVE SameTest
  <2>1. UNCHANGED arg /\ pc.sec = sec /\ sec \in Measured
    BY <1>6 DEF TakeBlock, Measured
  <2>2. \/ pc' = [sec |-> sec, step |-> "begin"]
        \/ pc' = [sec |-> "MAIN", step |-> "crashed"]
    BY <1>6 DEF TakeBlock
  <2> QED BY <1>1, <1>2, <2>1, <2>2 DEF Steps
<1>7. ASSUME NEW sec \in Gemm, EnterGemm(sec) \/ PrintGemm(sec)
      PROVE  SameTest
  BY <1>1, <1>7, WorkerFacts DEF EnterGemm, PrintGemm, Steps
<1>8. ASSUME NEW sec \in Gemm, GemmMalloc(sec) PROVE SameTest
  <2>1. UNCHANGED arg
    BY <1>8 DEF GemmMalloc
  <2>2. pc' = [sec |-> "MAIN", step |-> "exited"] \/ pc' = pc
    BY <1>8 DEF GemmMalloc
  <2> QED BY <1>2, <1>3, <2>1, <2>2
<1>9. ASSUME NEW sec \in Gemm, GemmReturns(sec) PROVE SameTest
  <2>1. UNCHANGED arg /\ pc.sec = sec /\ sec \in Measured
    BY <1>9, WorkerFacts DEF GemmReturns
  <2>2. \/ pc' = [sec |-> sec, step |-> "print"]
        \/ pc' = [sec |-> sec, step |-> "begin"]
    BY <1>9, Zenon DEF GemmReturns, Goto
  <2> QED BY <1>1, <2>1, <2>2 DEF Steps
<1>10. ASSUME NEW sec \in Gemm, GemmCleanup(sec) PROVE SameTest
  <2>1. UNCHANGED arg /\ pc.sec = sec /\ pc'.sec \in Gemm
        /\ pc'.step \in {"enter", "summary"}
    BY <1>10 DEF GemmCleanup, Gemm
  <2> QED BY <2>1, WorkerFacts, PlaceFacts DEF SameTest, Gemm
<1>11. ASSUME NEW sec \in Maps,
              TestMap(sec) \/ PrintMap(sec) \/ EnterMap
       PROVE  SameTest
  <2>1. UNCHANGED arg /\ pc.sec \in Maps /\ pc'.sec \in Maps
        /\ pc'.step \in {"library", "begin", "summary"}
    BY <1>11 DEF TestMap, PrintMap, EnterMap, AfterMap, Maps
  <2> QED BY <2>1, WorkerFacts, PlaceFacts DEF SameTest, Maps
<1>12. CASE EnterPng \/ PngDecode \/ PngFree \/ PngLeave
  <2>1. UNCHANGED arg /\ pc.sec = "PNG" /\ pc'.sec = "PNG"
        /\ pc'.step \in {"begin", "free", "loop", "print"}
    BY <1>12 DEF EnterPng, PngDecode, PngFree, PngLeave
  <2> QED BY <2>1 DEF SameTest, Measured
<1>13. CASE EnterPhysics \/ PhysicsStep \/ PhysicsLeave
  <2>1. UNCHANGED arg /\ pc.sec = "PHYSICS" /\ pc'.sec = "PHYSICS"
        /\ pc'.step \in {"begin", "loop", "print"}
    BY <1>13 DEF EnterPhysics, PhysicsStep, PhysicsLeave
  <2> QED BY <2>1 DEF SameTest, Measured
<1>14. CASE ReadOption \/ Kernel \/ UNCHANGED uvars
  BY <1>3, <1>14 DEF ReadOption, Kernel, uvars, driver
<1> HIDE DEF Goto, At, local
<1> QED BY <1>4, <1>5, <1>6, <1>7, <1>8, <1>9, <1>10, <1>11,
           <1>12, <1>13, <1>14, WorkerFacts
        DEF Next, Driver, Prints, Maps

LEMMA SelectedInTests ==
  ASSUME NEW id, NEW k \in 1..6, Selects(id, k) PROVE id /= 1000
<1>1. k \in {1, 2, 3, 4, 5, 6}
  OBVIOUS
<1> QED BY <1>1, TestFacts, IdFacts DEF Selects

LEMMA PlaceRange == \A sec \in Measured : Place[sec] \in 1..6
BY PlaceFacts DEF Measured, Gemm, Maps

LEMMA SelectedStep ==
  ASSUME Control, Selected, [Next]_uvars PROVE Selected'
<1>1. ASSUME NEW k \in 1..7, NEW a \in Commands, Landed(k, a), arg' = a,
             a.id = 1000 => line' = Banner
      PROVE  Selected'
  <2>1. /\ pc'.sec \in Measured => Selects(arg'.id, Place[pc'.sec])
        /\ pc'.step = "selftest" => arg'.id = 1000
        /\ pc'.step \in {"enter", "done", "selftest"}
        /\ pc'.step = "done" => pc'.sec = "MAIN"
    BY <1>1, WorkerFacts DEF Landed
  <2> QED BY <1>1, <2>1 DEF Selected, At
<1>2. CASE StartTests
  <2>1. PICK a \in Args : arg' = a /\ RunFrom(1, a)
    BY <1>2 DEF StartTests
  <2>2. line' = Banner /\ a \in Commands
    BY <1>2, <2>1 DEF StartTests, Selected, Commands
  <2> QED BY <1>1, <2>1, <2>2, RunFromLands
<1>3. CASE Prints
  <2>1. arg' = arg /\ \E k \in 1..6 : Landed(k + 1, arg)
    BY <1>3, RunAfterLands, TestFacts
    DEF Prints, PrintFft, PrintHash, GemmSummary, MapSummary, PrintPng,
        PrintPhysics, Control
  <2>2. arg.id /= 1000
    <3>1. pc.sec \in Measured
      BY <1>3, PrintsOrder
    <3> QED BY <3>1, PlaceRange, SelectedInTests DEF Selected
  <2>3. PICK k \in 1..6 : Landed(k + 1, arg)
    BY <2>1
  <2> QED BY <1>1, <2>1, <2>2, <2>3 DEF Control
<1>4. CASE ~Prints /\ ~StartTests
  <2>1. SameTest
    BY <1>4, StaysInTest
  <2>2. pc'.sec \in Measured => Selects(arg'.id, Place[pc'.sec])
    BY <2>1 DEF SameTest, Selected
  <2>3. pc'.step = "done" => pc'.sec = "MAIN"
    BY <2>1 DEF SameTest, Selected
  <2>4. ASSUME pc'.step \in {"options", "selftest"}, pc'.sec = "MAIN"
        PROVE  /\ line' = Banner
               /\ pc'.step = "selftest" => arg'.id = 1000
    <3>1. pc' = pc /\ arg' = arg
      BY <2>1, <2>4 DEF SameTest
    <3>2. pc = [sec |-> pc.sec, step |-> pc.step]
      BY DEF Control
    <3>3. line = Banner /\ (pc.step = "selftest" => arg.id = 1000)
      BY <2>4, <3>1, <3>2 DEF Selected, At
    <3>4. UNCHANGED line
      <4>1. ~SelfTest
        <5>1. SelfTest => pc' = [sec |-> "MAIN", step |-> "done"]
          BY Zenon DEF SelfTest, Goto
        <5> QED BY <2>4, <5>1
      <4>2. \A sec \in Gemm : ~PrintGemm(sec)
        BY <2>4, <3>1, WorkerFacts DEF PrintGemm, At
      <4>3. \A sec \in Maps : ~PrintMap(sec)
        BY <2>4, <3>1, WorkerFacts DEF PrintMap, At
      <4> QED BY <1>4, <4>1, <4>2, <4>3, LineFrame
    <3> QED BY <3>1, <3>3, <3>4
  <2>5. At("MAIN", "options")' \/ At("MAIN", "selftest")' =>
          /\ line' = Banner
          /\ pc'.step = "selftest" => arg'.id = 1000
    BY <2>4 DEF At
  <2> QED BY <2>2, <2>3, <2>5 DEF Selected, At
<1> QED BY <1>2, <1>3, <1>4

-----------------------------------------------------------------------------
(* The two results of test_601_gemm.                                       *)

LEMMA NotGemm ==
  ASSUME pc'.sec \notin Gemm \/ pc' = [sec |-> "SGEMM", step |-> "enter"]
  PROVE  GemmResults'
BY DEF GemmResults, At, Gemm

LEMMA DgemmFacts ==
  ASSUME NEW n \in Int
  PROVE  DgemmLoops(n) \in Nat /\ AtLeastNone(DgemmLoops(n)) = DgemmLoops(n)
BY DEF DgemmLoops, AtLeastNone

LEMMA GemmLoopResults ==
  ASSUME Control, GemmResults, UNCHANGED <<gemm, loops, ok>>,
         NEW sec \in Measured, pc.sec = sec,
         pc.step \in {"begin", "reading", "loop"},
         NEW step \in {"reading", "loop", "print"},
         pc' = pc \/ pc' = [sec |-> sec, step |-> step]
  PROVE  GemmResults'
<1>1. pc'.sec = sec /\ pc'.step \in {"begin", "reading", "loop", "print"}
  OBVIOUS
<1>2. CASE sec \in Gemm
  <2>1. ok' /\ ok
    BY <1>2 DEF GemmResults
  <2> QED BY <1>1, <1>2, <2>1 DEF GemmResults, At
<1>3. CASE sec \notin Gemm
  BY <1>1, <1>3, NotGemm
<1> QED BY <1>2, <1>3

LEMMA PrintGemmResults ==
  ASSUME Control, GemmType, Printing, GemmResults, NEW sec \in Gemm,
         PrintGemm(sec)
  PROVE  GemmResults'
<1>1. /\ pc.sec = sec /\ pc.step = "print" /\ sec \in {"SGEMM", "DGEMM"}
      /\ pc' = [sec |-> sec, step |-> "cleanup"] /\ loops' = loops
      /\ gemm' = [gemm EXCEPT !.results[sec] = secs]
  BY DEF PrintGemm, At, Goto, local, Gemm
<1>2. /\ gemm'.loops = gemm.loops /\ gemm'.results[sec] = secs
      /\ \A s \in Gemm : s /= sec => gemm'.results[s] = gemm.results[s]
  BY <1>1 DEF GemmType
<1>3. secs \in {By(sec, 0), By(sec, Asked)}
  <2>1. CASE ok
    <3>1. i = Asked /\ secs = By(sec, i)
      BY <1>1, <2>1 DEF Printing, Gemm
    <3> QED BY <3>1
  <2>2. CASE ~ok
    <3>1. secs = Nobody
      BY <1>1, <2>2 DEF GemmResults
    <3> QED BY <3>1, ByNone, WorkerFacts
  <2> QED BY <2>1, <2>2
<1>4. CASE sec = "SGEMM"
  <2>1. loops = gemm.loops
    BY <1>1, <1>4 DEF GemmResults
  <2>2. Asked = AtLeastNone(gemm.loops)
    BY <2>1 DEF Asked
  <2>3. /\ pc'.sec = "SGEMM" /\ pc'.step = "cleanup"
        /\ gemm'.results["SGEMM"] = secs
        /\ secs \in {By("SGEMM", 0), By("SGEMM", AtLeastNone(gemm'.loops))}
    BY <1>1, <1>2, <1>3, <1>4, <2>2
  <2> QED BY <1>1, <1>2, <2>1, <2>3 DEF GemmResults, At
<1>5. CASE sec = "DGEMM"
  <2>1. loops = DgemmLoops(gemm.loops)
    BY <1>1, <1>5 DEF GemmResults
  <2>2. Asked = DgemmLoops(gemm.loops)
    BY <2>1, DgemmFacts DEF Asked, GemmType
  <2>3. /\ pc'.sec = "DGEMM" /\ pc'.step = "cleanup"
        /\ gemm'.results["DGEMM"] = secs
        /\ secs \in {By("DGEMM", 0), By("DGEMM", DgemmLoops(gemm'.loops))}
    BY <1>1, <1>2, <1>3, <1>5, <2>2
  <2>4. gemm'.results["SGEMM"] = gemm.results["SGEMM"]
    BY <1>2, <1>5 DEF Gemm
  <2>5. gemm.results["SGEMM"] \in {By("SGEMM", 0),
                                   By("SGEMM", AtLeastNone(gemm.loops))}
    BY <1>1, <1>5 DEF GemmResults
  <2> QED BY <1>1, <1>2, <2>1, <2>3, <2>4, <2>5 DEF GemmResults, At
<1> QED BY <1>1, <1>4, <1>5

LEMMA GemmResultsStep ==
  ASSUME Control, GemmType, Printing, GemmResults, [Next]_uvars
  PROVE  GemmResults'
<1> USE DEF Goto, At, local, memory
<1>1. ASSUME NEW sec \in Measured,
             Begin(sec) \/ BeginRead(sec) \/ Iterate(sec)
      PROVE  GemmResults'
  <2>1. CASE Begin(sec)
    BY <2>1, GemmLoopResults DEF Begin
  <2>2. CASE BeginRead(sec)
    BY <2>2, GemmLoopResults DEF BeginRead
  <2>3. CASE Iterate(sec)
    BY <2>3, GemmLoopResults DEF Iterate
  <2> QED BY <1>1, <2>1, <2>2, <2>3
<1>2. ASSUME NEW sec \in Simple, Leave(sec) PROVE GemmResults'
  <2>1. CASE sec \in Gemm
    <3>1. UNCHANGED <<gemm, loops>> /\ pc.sec = sec /\ pc.step = "loop"
          /\ pc' = [sec |-> sec, step |-> "print"]
      BY <1>2 DEF Leave
    <3>2. ok' = ok
      BY <1>2, <2>1 DEF Leave, MayBreak, Maps, Gemm
    <3> QED BY <3>1, <3>2, WorkerFacts, GemmLoopResults
  <2>2. CASE sec \notin Gemm
    <3>1. pc'.sec = sec
      BY <1>2 DEF Leave
    <3> QED BY <2>2, <3>1, NotGemm
  <2> QED BY <2>1, <2>2
<1>3. CASE Prints \/ StartTests
  <2>1. \/ pc'.step = "enter" /\ pc'.sec \in FirstSections
        \/ pc'.sec = "MAIN"
    BY <1>3, PrintsLand
  <2>2. pc'.sec \notin Gemm \/ (pc'.step = "enter" /\ pc'.sec = "SGEMM")
    BY <2>1 DEF FirstSections, Gemm
  <2> QED BY <2>2 DEF GemmResults, Gemm
<1>4. ASSUME NEW sec \in {"FFT", "HASH"}, TakeBlock(sec) PROVE GemmResults'
  BY <1>4, NotGemm DEF TakeBlock, Gemm
<1>5. CASE UnknownOption \/ NullCfg \/ SelfTest
  <2>1. CASE UnknownOption \/ NullCfg
    BY <2>1, NotGemm DEF UnknownOption, NullCfg, Gemm
  <2>2. CASE SelfTest
    BY <2>2, NotGemm DEF SelfTest, Gemm
  <2> QED BY <1>5, <2>1, <2>2
<1>6. ASSUME NEW sec \in Maps, TestMap(sec) \/ PrintMap(sec) \/ EnterMap
      PROVE  GemmResults'
  <2>1. pc'.sec \in Maps
    BY <1>6 DEF TestMap, PrintMap, EnterMap, AfterMap, Maps
  <2> QED BY <2>1, NotGemm DEF Maps, Gemm
<1>7. CASE EnterPng \/ PngDecode \/ PngFree \/ PngLeave
           \/ EnterPhysics \/ PhysicsStep \/ PhysicsLeave
  <2>1. pc'.sec \in {"PNG", "PHYSICS"}
    BY <1>7 DEF EnterPng, PngDecode, PngFree, PngLeave, EnterPhysics,
                PhysicsStep, PhysicsLeave
  <2> QED BY <2>1, NotGemm DEF Gemm
<1>8. ASSUME NEW sec \in Gemm, EnterGemm(sec) PROVE GemmResults'
  <2>1. /\ pc.sec = sec /\ pc' = [sec |-> sec, step |-> "setup"] /\ ok' = TRUE
        /\ gemm'.results = gemm.results
        /\ IF sec = "SGEMM" THEN gemm'.loops = loops /\ loops' = loops
                            ELSE gemm' = gemm /\ loops' = DgemmLoops(gemm.loops)
    BY <1>8 DEF EnterGemm, GemmType
  <2> QED BY <2>1 DEF GemmResults, Gemm
<1>9. ASSUME NEW sec \in Gemm, GemmMalloc(sec) PROVE GemmResults'
  <2>1. CASE gemm.idx >= 3
    <3>1. pc'.sec = "MAIN"
      BY <1>9, <2>1 DEF GemmMalloc
    <3> QED BY <3>1, NotGemm DEF Gemm
  <2>2. CASE ~(gemm.idx >= 3)
    <3>1. PICK ptr \in {Fresh, NULL} :
            gemm' = [gemm EXCEPT !.ptrs[gemm.idx + 1] = ptr, !.idx = @ + 1]
      BY <1>9, <2>2 DEF GemmMalloc
    <3>2. gemm'.results = gemm.results /\ gemm'.loops = gemm.loops
      BY <3>1 DEF GemmType
    <3>3. UNCHANGED <<pc, loops, ok, secs>>
      BY <1>9, <2>2 DEF GemmMalloc, timing
    <3> QED BY <3>2, <3>3 DEF GemmResults
  <2> QED BY <2>1, <2>2
<1>10. ASSUME NEW sec \in Gemm, GemmReturns(sec) PROVE GemmResults'
  <2>1. UNCHANGED <<gemm, loops>> /\ pc.sec = sec /\ pc.step = "setup"
    BY <1>10 DEF GemmReturns
  <2>2. ok
    BY <2>1 DEF GemmResults
  <2>3. \/ pc' = [sec |-> sec, step |-> "print"] /\ secs' = Nobody
        \/ pc' = [sec |-> sec, step |-> "begin"] /\ ok'
    BY <1>10, <2>2, Zenon DEF GemmReturns, Goto
  <2>4. /\ pc'.sec = sec /\ pc'.step \in {"print", "begin"}
        /\ pc'.step = "print" => secs' = Nobody
        /\ pc'.step = "begin" => ok'
    BY <2>3
  <2> QED BY <2>1, <2>4 DEF GemmResults, Gemm
<1>11. ASSUME NEW sec \in Gemm, PrintGemm(sec) PROVE GemmResults'
  BY <1>11, PrintGemmResults
<1>12. ASSUME NEW sec \in Gemm, GemmCleanup(sec) PROVE GemmResults'
  <2>1. /\ pc = [sec |-> sec, step |-> "cleanup"] /\ loops' = loops
        /\ gemm'.results = gemm.results /\ gemm'.loops = gemm.loops
        /\ IF sec = "SGEMM" THEN pc' = [sec |-> "DGEMM", step |-> "enter"]
                            ELSE pc' = [sec |-> "DGEMM", step |-> "summary"]
    BY <1>12 DEF GemmCleanup, CleanPool, GemmType, Gemm
  <2> QED BY <2>1 DEF GemmResults, Gemm
<1>13. CASE ReadOption \/ Kernel \/ UNCHANGED uvars
  <2>1. UNCHANGED <<pc, loops, ok, secs, gemm>>
    BY <1>13 DEF ReadOption, Kernel, uvars, driver, timing
  <2> QED BY <2>1 DEF GemmResults
<1> HIDE DEF Goto, At, local, memory
<1> QED BY <1>1, <1>2, <1>3, <1>4, <1>5, <1>6, <1>7, <1>8, <1>9, <1>10, <1>11,
           <1>12, <1>13, WorkerFacts
        DEF Next, Driver, Prints, Maps

-----------------------------------------------------------------------------
(* The live blocks.                                                        *)

HeapActions == \/ \E sec \in {"FFT", "HASH"} : TakeBlock(sec)
               \/ PrintHash \/ PngDecode \/ PngFree
               \/ \E sec \in Gemm : \/ GemmMalloc(sec) \/ GemmReturns(sec)
                                   \/ GemmCleanup(sec)

(* What a step tells of the blocks from where control is.                  *)
SameOwner ==
  /\ pc'.step /= "crashed" => pc.step /= "crashed" /\ (FftRan' <=> FftRan)
  /\ OwnsBlock' <=> OwnsBlock

Early == At("FFT", "enter") \/ At("MAIN", "options")

LEMMA SameOwnerOf ==
  ASSUME arg' = arg, ~Early, ~Early', pc.step /= "crashed",
         OwnsBlock' <=> OwnsBlock
  PROVE  SameOwner
BY DEF SameOwner, FftRan, Early

LEMMA PrintsOwner ==
  ASSUME Control, Prints
  PROVE  /\ arg' = arg /\ ~Early /\ ~Early' /\ pc.step /= "crashed"
         /\ ~OwnsBlock'
<1>1. arg' = arg /\ pc.step \in {"print", "summary"}
  BY DEF Prints, PrintFft, GemmSummary, MapSummary, PrintPng, PrintPhysics,
         PrintHash, At
<1>2. /\ pc.sec \in Measured
      /\ \/ /\ pc'.step = "enter" /\ pc'.sec \in FirstSections
            /\ Place[pc'.sec] > Place[pc.sec]
         \/ pc'.step \in {"done", "selftest"} /\ pc'.sec = "MAIN"
  BY PrintsOrder
<1>3. ~(pc'.sec = "FFT" /\ pc'.step = "enter")
  <2>1. Place[pc.sec] \in 1..6
    BY <1>2, PlaceRange
  <2>2. PICK n \in 1..6 : n = Place[pc.sec]
    BY <2>1
  <2>3. ASSUME pc'.sec = "FFT", pc'.step = "enter" PROVE FALSE
    <3>1. 1 > n
      BY <1>2, <2>2, <2>3, PlaceFacts
    <3> QED BY <3>1
  <2> QED BY <2>3
<1>4. ~Early /\ ~Early'
  BY <1>1, <1>2, <1>3 DEF Early, At
<1>5. ~OwnsBlock'
  BY <1>2 DEF OwnsBlock, At
<1> QED BY <1>1, <1>4, <1>5

LEMMA QuietOwner ==
  ASSUME Control, Selected, [Next]_uvars, ~HeapActions PROVE SameOwner
<1> USE DEF Goto, At, local
<1>1. ASSUME NEW sec \in Measured,
             Begin(sec) \/ BeginRead(sec) \/ Iterate(sec) \/ Leave(sec)
      PROVE  SameOwner
  <2>1. /\ pc.sec = sec /\ pc'.sec = sec /\ arg' = arg
        /\ pc.step \in {"begin", "reading", "loop"}
        /\ pc'.step \in {"reading", "loop", "print"}
    BY <1>1 DEF Begin, BeginRead, Iterate, Leave
  <2>2. ~Early /\ ~Early' /\ pc.step /= "crashed"
    BY <2>1 DEF Early
  <2>3. OwnsBlock' <=> OwnsBlock
    BY <2>1 DEF OwnsBlock
  <2> QED BY <2>1, <2>2, <2>3, SameOwnerOf
<1>2. ASSUME NEW other, pc.sec = other, other \notin {"FFT", "HASH", "MAIN"},
             pc.step /= "free", pc'.step /= "free", pc.step /= "crashed",
             pc'.sec \in {other} \cup Gemm \cup Maps, arg' = arg
      PROVE  SameOwner
  <2>1. pc'.sec \notin {"FFT", "HASH", "MAIN"}
    BY <1>2 DEF Gemm, Maps
  <2>2. ~Early /\ ~Early'
    BY <1>2, <2>1 DEF Early
  <2>3. ~OwnsBlock' /\ ~OwnsBlock
    BY <1>2, <2>1 DEF OwnsBlock
  <2> QED BY <1>2, <2>2, <2>3, SameOwnerOf
<1>3. CASE Prints
  <2>1. pc.sec /= "HASH" /\ pc.step \in {"print", "summary"}
    BY <1>3 DEF Prints, PrintFft, GemmSummary, MapSummary, PrintPng,
                PrintPhysics, HeapActions
  <2>2. ~OwnsBlock
    BY <2>1 DEF OwnsBlock
  <2>3. arg' = arg /\ ~Early /\ ~Early' /\ pc.step /= "crashed" /\ ~OwnsBlock'
    BY <1>3, PrintsOwner
  <2> QED BY <2>2, <2>3, SameOwnerOf
<1>4. CASE StartTests
  <2>1. pc = [sec |-> "MAIN", step |-> "options"]
    BY <1>4 DEF StartTests
  <2>2. ~FftRan /\ ~OwnsBlock
    BY <2>1 DEF FftRan, OwnsBlock
  <2>3. PICK a \in Commands : arg' = a /\ Landed(1, a)
    BY <1>4, RunFromLands DEF StartTests, Commands
  <2>4. pc'.step = "enter" \/ (pc'.sec = "MAIN" /\ pc'.step /= "free")
    BY <2>3 DEF Landed
  <2>5. ~OwnsBlock'
    BY <2>4 DEF OwnsBlock
  <2>6. ~FftRan'
    <3>1. a.id \in {0, 600} => pc' = [sec |-> "FFT", step |-> "enter"]
      BY <2>3 DEF Landed
    <3> QED BY <2>3, <3>1 DEF FftRan
  <2> QED BY <2>1, <2>2, <2>5, <2>6 DEF SameOwner
<1>5. CASE UnknownOption \/ NullCfg
  <2>1. /\ pc'.step = "crashed" /\ pc'.sec = "MAIN"
        /\ pc.sec \in {"MAIN", "FFT"} /\ pc.step \in {"options", "loop"}
    BY <1>5 DEF UnknownOption, NullCfg
  <2> QED BY <2>1 DEF SameOwner, OwnsBlock
<1>6. CASE SelfTest
  <2>1. pc' = [sec |-> "MAIN", step |-> "done"] /\ arg' = arg
        /\ pc = [sec |-> "MAIN", step |-> "selftest"]
    BY <1>6 DEF SelfTest
  <2> QED BY <2>1, SameOwnerOf DEF Early, OwnsBlock
<1>7. ASSUME NEW sec \in Gemm, EnterGemm(sec) \/ PrintGemm(sec)
      PROVE  SameOwner
  BY <1>2, <1>7 DEF EnterGemm, PrintGemm, Gemm
<1>8. ASSUME NEW sec \in Maps, TestMap(sec) \/ PrintMap(sec) \/ EnterMap
      PROVE  SameOwner
  <2>1. /\ arg' = arg /\ pc.sec \in Maps /\ pc'.sec \in Maps
        /\ pc.step \in {"enter", "library", "print"}
        /\ pc'.step \in {"library", "begin", "summary"}
    BY <1>8 DEF TestMap, PrintMap, EnterMap, AfterMap, Maps
  <2> QED BY <1>2, <2>1 DEF Maps
<1>9. CASE EnterPng \/ PngLeave
  <2>1. /\ arg' = arg /\ pc.sec = "PNG" /\ pc'.sec = "PNG"
        /\ pc.step \in {"enter", "loop"} /\ pc'.step \in {"begin", "print"}
    BY <1>9 DEF EnterPng, PngLeave
  <2> QED BY <1>2, <2>1
<1>10. CASE EnterPhysics \/ PhysicsStep \/ PhysicsLeave
  <2>1. /\ arg' = arg /\ pc.sec = "PHYSICS" /\ pc'.sec = "PHYSICS"
        /\ pc.step \in {"enter", "loop"}
        /\ pc'.step \in {"begin", "loop", "print"}
    BY <1>10 DEF EnterPhysics, PhysicsStep, PhysicsLeave
  <2> QED BY <1>2, <2>1
<1>11. CASE ReadOption \/ Kernel \/ UNCHANGED uvars
  <2>1. UNCHANGED <<pc, arg>>
    BY <1>11 DEF ReadOption, Kernel, uvars, driver
  <2> QED BY <2>1 DEF SameOwner, FftRan, OwnsBlock
<1> HIDE DEF Goto, At, local
<1> QED BY <1>1, <1>3, <1>4, <1>5, <1>6, <1>7, <1>8, <1>9, <1>10, <1>11,
           WorkerFacts
        DEF Next, Driver, Prints, HeapActions, Maps

LEMMA LooseKept ==
  ASSUME HeapState, IsFiniteSet(heap'), Held' \subseteq heap',
         pc'.step /= "crashed" => /\ pc.step /= "crashed"
                                  /\ FftRan' <=> FftRan
                                  /\ heap' \ Held' = heap \ Held
  PROVE  HeapState'
<1>1. ASSUME pc'.step /= "crashed"
      PROVE  Cardinality(heap' \ Held') \in IF FftRan' THEN {0, 1} ELSE {0}
  <2>1. Cardinality(heap \ Held) \in IF FftRan THEN {0, 1} ELSE {0}
    BY <1>1 DEF HeapState
  <2> QED BY <1>1, <2>1
<1> QED BY <1>1 DEF HeapState

LEMMA NoMatrices ==
  ASSUME PoolState, ~InPool
  PROVE  Matrices = {NULL} /\ (UNCHANGED gemm => Matrices' = {NULL})
<1>1. \A k \in 1..3 : gemm.ptrs[k] = NULL
  BY OutsidePool, NoPtrsFacts
<1> QED BY <1>1 DEF Matrices

LEMMA NullNotLive == ASSUME HeapType PROVE NULL \notin heap
BY NullAssumption DEF HeapType

LEMMA QuietHeap ==
  ASSUME Control, GemmType, HeapType, Selected, HeapState, [Next]_uvars,
         ~HeapActions
  PROVE  HeapState'
<1>1. UNCHANGED <<block, heap>>
  BY HeapFrame DEF HeapActions
<1>2. gemm'.ptrs = gemm.ptrs
  <2>1. ASSUME NEW sec \in Gemm, EnterGemm(sec) PROVE gemm'.ptrs = gemm.ptrs
    BY <2>1 DEF EnterGemm, GemmType
  <2>2. ASSUME NEW sec \in Gemm, PrintGemm(sec) PROVE gemm'.ptrs = gemm.ptrs
    BY <2>2 DEF PrintGemm, GemmType
  <2> QED BY <2>1, <2>2, GemmFrame DEF HeapActions
<1>3. SameOwner
  BY QuietOwner
<1>4. Held' = Held
  BY <1>1, <1>2, <1>3 DEF Held, Matrices, SameOwner
<1>5. Held' \subseteq heap' /\ heap' \ Held' = heap \ Held /\ IsFiniteSet(heap')
  BY <1>1, <1>4 DEF HeapState
<1> QED BY <1>3, <1>5, LooseKept DEF SameOwner

LEMMA TakeBlockHeap ==
  ASSUME Control, HeapType, Selected, PoolState, HeapState,
         NEW sec \in {"FFT", "HASH"}, TakeBlock(sec)
  PROVE  HeapState'
<1>1. /\ pc = [sec |-> sec, step |-> "enter"] /\ UNCHANGED <<arg, gemm>>
      /\ pc.sec = sec /\ pc.step = "enter" /\ sec \notin Gemm
  BY DEF TakeBlock, At, Gemm
<1>2. Matrices = {NULL} /\ Matrices' = {NULL}
  BY <1>1, NoMatrices DEF InPool
<1>3. ~OwnsBlock /\ Held = {}
  BY <1>1, <1>2 DEF OwnsBlock, Held, At
<1>4. CASE /\ pc' = [sec |-> "MAIN", step |-> "crashed"]
           /\ UNCHANGED <<block, heap>>
  <2>1. Held' = {}
    BY <1>2, <1>4 DEF Held, OwnsBlock, At
  <2>2. IsFiniteSet(heap') /\ Held' \subseteq heap' /\ pc'.step = "crashed"
    BY <1>4, <2>1 DEF HeapType
  <2> QED BY <2>2, LooseKept
<1>5. CASE /\ block' = Fresh /\ heap' = heap \cup {Fresh}
           /\ pc' = [sec |-> sec, step |-> "begin"]
  <2>1. Fresh \notin heap /\ Fresh /= NULL /\ IsFiniteSet(heap)
        /\ IsFiniteSet(heap')
    BY <1>5, FreshFacts, FS_AddElement DEF HeapType
  <2>2. CASE sec = "HASH"
    <3>1. Held' = {Fresh}
      BY <1>2, <1>5, <2>1, <2>2 DEF Held, OwnsBlock
    <3>2. heap' \ Held' = heap \ Held
      BY <1>3, <1>5, <2>1, <3>1
    <3>3. FftRan' <=> FftRan
      BY <1>1, <1>5, <2>2 DEF FftRan, At
    <3> QED BY <1>1, <1>5, <2>1, <3>1, <3>2, <3>3, LooseKept
  <2>3. CASE sec = "FFT"
    <3>1. Held' = {}
      BY <1>2, <1>5, <2>3 DEF Held, OwnsBlock, At
    <3>2. ~FftRan
      BY <1>1, <2>3 DEF FftRan, At
    <3>3. FftRan'
      <4>1. arg.id \in {0, 600}
        BY <1>1, <2>3, PlaceFacts, TestFacts, IdFacts
        DEF Selected, Selects, Measured
      <4> QED BY <1>1, <1>5, <4>1 DEF FftRan, At
    <3>4. Cardinality(heap) = 0
      <4>1. heap \ Held = heap
        BY <1>3
      <4> QED BY <1>1, <3>2, <4>1 DEF HeapState
    <3>5. Cardinality(heap') = 1
      BY <1>5, <2>1, <3>4, FS_AddElement
    <3>6. heap' \ Held' = heap'
      BY <3>1
    <3> QED BY <2>1, <3>1, <3>3, <3>5, <3>6 DEF HeapState
  <2> QED BY <2>2, <2>3
<1>6. CASE /\ sec = "FFT" /\ heap' = heap
           /\ pc' = [sec |-> sec, step |-> "begin"]
  <2>1. Held' = {}
    BY <1>2, <1>6 DEF Held, OwnsBlock, At
  <2>2. ~FftRan /\ FftRan'
    <3>1. arg.id \in {0, 600}
      BY <1>1, <1>6, PlaceFacts, TestFacts, IdFacts
      DEF Selected, Selects, Measured
    <3> QED BY <1>1, <1>6, <3>1 DEF FftRan, At
  <2>3. heap' \ Held' = heap \ Held /\ Cardinality(heap \ Held) = 0
    BY <1>1, <1>3, <1>6, <2>1, <2>2 DEF HeapState
  <2> QED BY <1>6, <2>1, <2>2, <2>3 DEF HeapState, HeapType
<1> QED BY <1>4, <1>5, <1>6 DEF TakeBlock, Goto

LEMMA PrintHashHeap ==
  ASSUME Control, HeapType, PoolState, HeapState, PrintHash PROVE HeapState'
<1>1. /\ pc = [sec |-> "HASH", step |-> "print"] /\ UNCHANGED gemm
      /\ pc.sec = "HASH" /\ pc.step = "print" /\ "HASH" \notin Gemm
      /\ heap' = heap \ {block}
  BY DEF PrintHash, At, Gemm
<1>2. Matrices = {NULL} /\ Matrices' = {NULL}
  BY <1>1, NoMatrices DEF InPool
<1>3. arg' = arg /\ ~Early /\ ~Early' /\ ~OwnsBlock'
  BY PrintsOwner DEF Prints
<1>4. Held' = {} /\ Held = {block} \ {NULL}
  BY <1>1, <1>2, <1>3 DEF Held, OwnsBlock
<1>5. heap' \ Held' = heap \ Held
  BY <1>1, <1>4, NullNotLive
<1>6. IsFiniteSet(heap') /\ Held' \subseteq heap'
  BY <1>1, <1>4, FS_Subset DEF HeapType
<1>7. FftRan' <=> FftRan
  BY <1>3 DEF FftRan, Early
<1> QED BY <1>1, <1>5, <1>6, <1>7, LooseKept

LEMMA PngHeap ==
  ASSUME Control, HeapType, PoolState, HeapState, PngDecode \/ PngFree
  PROVE  HeapState'
<1>1. /\ UNCHANGED <<arg, gemm>> /\ pc.sec = "PNG" /\ pc'.sec = "PNG"
      /\ pc.step \in {"loop", "free"} /\ pc'.step \in {"loop", "free"}
  BY DEF PngDecode, PngFree, At, Goto
<1>2. Matrices = {NULL} /\ Matrices' = {NULL}
  BY <1>1, NoMatrices DEF InPool, Gemm
<1>3. FftRan' <=> FftRan
  BY <1>1 DEF FftRan, At
<1>4. CASE PngDecode
  <2>1. /\ pc = [sec |-> "PNG", step |-> "loop"]
        /\ pc' = [sec |-> "PNG", step |-> "free"]
    BY <1>4 DEF PngDecode, At, Goto
  <2>2. Held = {} /\ Held' = {block'} \ {NULL}
    BY <1>2, <2>1 DEF Held, OwnsBlock, At
  <2>3. \/ block' = Fresh /\ heap' = heap \cup {Fresh}
        \/ block' = NULL /\ heap' = heap
    BY <1>4, Zenon DEF PngDecode
  <2>4. IsFiniteSet(heap')
    BY <2>3, FS_AddElement DEF HeapType
  <2>5. heap' \ Held' = heap \ Held /\ Held' \subseteq heap'
    BY <2>2, <2>3, FreshFacts, NullNotLive DEF HeapType
  <2> QED BY <1>1, <1>3, <2>4, <2>5, LooseKept
<1>5. CASE PngFree
  <2>1. /\ pc = [sec |-> "PNG", step |-> "free"]
        /\ pc' = [sec |-> "PNG", step |-> "loop"]
        /\ heap' = heap \ {block}
    BY <1>5 DEF PngFree, At, Goto
  <2>2. Held' = {} /\ Held = {block} \ {NULL}
    BY <1>2, <2>1 DEF Held, OwnsBlock, At
  <2>3. IsFiniteSet(heap') /\ Held' \subseteq heap'
    BY <2>1, <2>2, FS_Subset DEF HeapType
  <2>4. heap' \ Held' = heap \ Held
    BY <2>1, <2>2, NullNotLive
  <2> QED BY <1>1, <1>3, <2>3, <2>4, LooseKept
<1> QED BY <1>4, <1>5

LEMMA GemmHeap ==
  ASSUME Control, GemmType, HeapType, PoolState, HeapState, NEW sec \in Gemm,
         GemmMalloc(sec) \/ GemmReturns(sec) \/ GemmCleanup(sec),
         pc'.sec /= "MAIN"
  PROVE  HeapState'
<1>1. /\ arg' = arg /\ pc.sec \in Gemm /\ pc.step \in {"setup", "cleanup"}
      /\ pc'.sec \in Gemm
      /\ pc'.step \in {"setup", "print", "begin", "enter", "summary"}
  <2> USE DEF At, Goto, Gemm
  <2>1. CASE GemmMalloc(sec)
    BY <2>1 DEF GemmMalloc
  <2>2. CASE GemmReturns(sec)
    <3>1. \/ pc' = [sec |-> sec, step |-> "print"]
          \/ pc' = [sec |-> sec, step |-> "begin"]
      BY <2>2, Zenon DEF GemmReturns
    <3>2. pc = [sec |-> sec, step |-> "setup"] /\ arg' = arg
      BY <2>2 DEF GemmReturns
    <3> QED BY <3>1, <3>2
  <2>3. CASE GemmCleanup(sec)
    BY <2>3 DEF GemmCleanup, local
  <2> QED BY <2>1, <2>2, <2>3
<1>2. FftRan' <=> FftRan
  BY <1>1 DEF FftRan, At, Gemm
<1>3. ~OwnsBlock /\ ~OwnsBlock'
  BY <1>1 DEF OwnsBlock, At, Gemm
<1>4. Held = Matrices \ {NULL} /\ Held' = Matrices' \ {NULL}
  BY <1>3 DEF Held
<1>5. CASE GemmMalloc(sec)
  <2>1. ~(gemm.idx >= 3) /\ gemm.idx = i /\ i < 3 /\ i \in Nat
    BY <1>5 DEF GemmMalloc, At, Goto, PoolState, Control
  <2>2. PICK ptr \in {Fresh, NULL} :
          /\ gemm' = [gemm EXCEPT !.ptrs[gemm.idx + 1] = ptr, !.idx = @ + 1]
          /\ heap' = heap \cup ({ptr} \ {NULL})
    BY <1>5, <2>1 DEF GemmMalloc
  <2> DEFINE n == i + 1
  <2>3. n \in 1..3 /\ gemm.ptrs[n] = NULL
    BY <1>5, <2>1 DEF GemmMalloc, At, PoolState
  <2>4. /\ gemm'.ptrs[n] = ptr
        /\ \A k \in 1..3 : k /= n => gemm'.ptrs[k] = gemm.ptrs[k]
    BY <2>1, <2>2 DEF GemmType
  <2> HIDE DEF n
  <2>5. Matrices' \ {NULL} = (Matrices \cup {ptr}) \ {NULL}
    BY <2>3, <2>4 DEF Matrices
  <2>6. heap' \ Held' = heap \ Held /\ Held' \subseteq heap'
    BY <1>4, <2>2, <2>5, FreshFacts, NullNotLive DEF HeapType, HeapState
  <2>7. IsFiniteSet(heap')
    <3>1. heap' = heap \/ heap' = heap \cup {ptr}
      BY <2>2
    <3> QED BY <3>1, FS_AddElement DEF HeapType
  <2> QED BY <1>1, <1>2, <2>6, <2>7, LooseKept
<1>6. CASE GemmReturns(sec)
  <2>1. UNCHANGED <<gemm, heap>>
    BY <1>6 DEF GemmReturns, GemmFree
  <2>2. Held' = Held
    BY <1>4, <2>1 DEF Matrices
  <2> QED BY <1>1, <1>2, <2>1, <2>2, LooseKept DEF HeapState
<1>7. CASE GemmCleanup(sec)
  <2>1. heap' = heap \ Matrices /\ gemm'.ptrs = NoPtrs
    BY <1>7 DEF GemmCleanup, CleanupFrees, CleanPool, Matrices, GemmType
  <2>2. Held' = {}
    BY <1>4, <2>1, NoPtrsFacts DEF Matrices
  <2>3. heap' \ Held' = heap \ Held
    BY <1>4, <2>1, <2>2, NullNotLive
  <2>4. IsFiniteSet(heap') /\ Held' \subseteq heap'
    BY <2>1, <2>2, FS_Subset DEF HeapType
  <2> QED BY <1>1, <1>2, <2>3, <2>4, LooseKept
<1> QED BY <1>5, <1>6, <1>7

LEMMA HeapStep ==
  ASSUME Control, GemmType, HeapType, Selected, PoolState, HeapState,
         [Next]_uvars
  PROVE  HeapState'
<1>1. ASSUME NEW sec \in Gemm,
             GemmMalloc(sec) \/ GemmReturns(sec) \/ GemmCleanup(sec)
      PROVE  pc'.sec /= "MAIN"
  <2>1. CASE GemmMalloc(sec)
    <3>1. gemm.idx = i /\ i < 3 /\ i \in Nat
      BY <2>1 DEF GemmMalloc, At, PoolState, Control
    <3>2. pc' = pc /\ pc.sec = sec
      BY <2>1, <3>1 DEF GemmMalloc, At
    <3> QED BY <3>2, WorkerFacts
  <2>2. CASE GemmReturns(sec) \/ GemmCleanup(sec)
    <3>1. pc'.sec \in Gemm
      BY <2>2 DEF GemmReturns, GemmCleanup, Goto, Gemm
    <3> QED BY <3>1, WorkerFacts
  <2> QED BY <1>1, <2>1, <2>2
<1>2. CASE HeapActions
  BY <1>1, <1>2, TakeBlockHeap, PrintHashHeap, PngHeap, GemmHeap
  DEF HeapActions
<1>3. CASE ~HeapActions
  BY <1>3, QuietHeap
<1> QED BY <1>2, <1>3

-----------------------------------------------------------------------------
(* The lines.                                                              *)

LEMMA ScoreLine ==
  ASSUME NEW name, NEW duration, NEW column,
         PrintScore(name, duration, column)
  PROVE  /\ line'.name = name /\ line'.secs = duration /\ line'.loops = column
         /\ line'.row = IF counters_valid THEN window ELSE NULL
         /\ line'.ok = ok /\ line'.iters = i /\ line'.skipped = map.skipped
BY DEF PrintScore

LEMMA TimesNotNull == \A w \in Workers : \A k \in Nat : By(w, k) /= NULL
<1>1. ASSUME NEW w \in Workers, NEW k \in Nat PROVE By(w, k) /= NULL
  <2>1. By(w, k) \in [Workers -> Nat]
    BY ByTimes DEF Times
  <2> QED BY <2>1, NullAssumption
<1> QED BY <1>1

(* The line of a measured loop.                                            *)
LEMMA MeasuredScore ==
  ASSUME Control, Printing, NEW sec \in Measured, NEW name,
         pc.sec = sec, pc.step = "print",
         PrintScore(name, secs, loops), name \in MeasuredLines,
         sec = IF name = "[MAP.ORDERED]" /\ map.skipped THEN "UNORDERED"
                                                       ELSE Whose(name),
         sec \in Gemm => name \in {"[SGEMM]", "[DGEMM]"},
         name = "614_PHYSICS" <=> sec = "PHYSICS"
  PROVE  RowsBelongToLines' /\ DurationsBelongToLines'
<1>1. /\ line'.name = name /\ line'.secs = secs /\ line'.loops = loops
      /\ line'.row = IF counters_valid THEN window ELSE NULL
      /\ line'.ok = ok /\ line'.iters = i /\ line'.skipped = map.skipped
  BY ScoreLine
<1>2. Section(line') = sec
  BY <1>1 DEF Section
<1>3. grp' = grp
  BY PrintScoreRow
<1>4. line'.row /= NULL => line'.row = By(sec, i)
  BY <1>1 DEF Printing
<1>5. counters_valid => line'.row /= NULL
  <2>1. By(sec, i) /= NULL
    BY TimesNotNull, WorkerFacts DEF Control
  <2> QED BY <1>1, <2>1 DEF Printing
<1>6. (sec \in Gemm /\ ~ok) \/ grp.n = 0 \/ counters_valid
  BY DEF Printing
<1>7. RowsBelongToLines'
  <2>1. line'.row /= NULL => /\ line'.name \in MeasuredLines
                             /\ line'.row = By(Section(line'), line'.iters)
    BY <1>1, <1>2, <1>4
  <2>2. (/\ line'.name \in MeasuredLines
         /\ grp'.n /= 0
         /\ line'.name \in {"[SGEMM]", "[DGEMM]"} => line'.ok)
           => line'.row /= NULL
    BY <1>1, <1>3, <1>5, <1>6
  <2> QED BY <2>1, <2>2 DEF RowsBelongToLines
<1>8. ok => /\ secs = By(sec, i)
            /\ IF sec = "PHYSICS" THEN i \in {Asked, Asked + 1} ELSE i = Asked
  BY DEF Printing
<1>9. name /= "601_GEMM" /\ name /= "603_MAP"
  BY WhoseFacts
<1>10. DurationsBelongToLines'
  BY <1>1, <1>2, <1>8, <1>9 DEF DurationsBelongToLines, Asked
<1> QED BY <1>7, <1>10

(* A line with no window of its own.                                       *)
LEMMA SummaryRow ==
  ASSUME Printing, pc.step = "summary", NEW name, NEW duration, NEW column,
         PrintScore(name, duration, column), name \notin MeasuredLines
  PROVE  RowsBelongToLines'
<1>1. line'.name = name /\ line'.row = NULL
  BY ScoreLine DEF Printing
<1> QED BY <1>1 DEF RowsBelongToLines

LEMMA LineOfSection ==
  ASSUME NEW sec \in Measured, LineOf[sec] /= "[MAP.ORDERED]" \/ ~map.skipped
  PROVE  /\ LineOf[sec] \in MeasuredLines
         /\ sec = IF LineOf[sec] = "[MAP.ORDERED]" /\ map.skipped
                  THEN "UNORDERED" ELSE Whose(LineOf[sec])
         /\ sec \in Gemm => LineOf[sec] \in {"[SGEMM]", "[DGEMM]"}
         /\ LineOf[sec] = "614_PHYSICS" <=> sec = "PHYSICS"
BY WhoseFacts, LineFacts DEF Measured, Gemm, Maps

LEMMA PrintMapLines ==
  ASSUME Control, MapType, MapState, Printing, NEW sec \in Maps, PrintMap(sec)
  PROVE  RowsBelongToLines' /\ DurationsBelongToLines'
<1> DEFINE results == [map.results EXCEPT ![ResultSlot] = secs]
<1>1. /\ pc.sec = sec /\ pc.step = "print" /\ sec \in Measured
      /\ sec \in {"ORDERED", "UNORDERED"}
      /\ IF map.idx = 0
         THEN PrintScore("[MAP.ORDERED]", results[0], loops)
         ELSE PrintScore("[MAP.UNORDERED]", results[1], map.unordered)
  BY WorkerFacts DEF PrintMap, At, Maps
<1>2. map.idx \in {0, 1} => results[map.idx] = secs
  BY DEF ResultSlot, MapType
<1> HIDE DEF results
<1>3. \/ map.idx = 0 /\ (sec = "UNORDERED" <=> map.skipped)
      \/ map.idx = 1 /\ sec = "UNORDERED" /\ ~map.skipped
  BY <1>1 DEF MapState, InMap, Hooked
<1>4. CASE map.idx = 0
  <2>1. PrintScore("[MAP.ORDERED]", secs, loops)
    BY <1>1, <1>2, <1>4
  <2>2. /\ "[MAP.ORDERED]" \in MeasuredLines
        /\ sec = IF map.skipped THEN "UNORDERED" ELSE Whose("[MAP.ORDERED]")
    <3>1. /\ LineOf["ORDERED"] \in MeasuredLines
          /\ Whose(LineOf["ORDERED"]) = "ORDERED"
      BY WhoseFacts DEF Measured, Maps
    <3>2. /\ "[MAP.ORDERED]" \in MeasuredLines
          /\ Whose("[MAP.ORDERED]") = "ORDERED"
      BY <3>1, LineFacts
    <3> QED BY <1>1, <1>3, <1>4, <3>2
  <2> QED BY <1>1, <2>1, <2>2, MeasuredScore DEF Maps, Gemm
<1>5. CASE map.idx = 1
  <2>1. loops = map.unordered
    BY <1>1, <1>5 DEF MapState, InMap, Hooked, HookLoops
  <2>2. PrintScore("[MAP.UNORDERED]", secs, loops)
    BY <1>1, <1>2, <1>5, <2>1
  <2>3. /\ "[MAP.UNORDERED]" \in MeasuredLines
        /\ sec = Whose("[MAP.UNORDERED]")
    <3>1. /\ LineOf["UNORDERED"] \in MeasuredLines
          /\ Whose(LineOf["UNORDERED"]) = "UNORDERED"
      BY WhoseFacts DEF Measured, Maps
    <3> QED BY <1>3, <1>5, <3>1, LineFacts
  <2> QED BY <1>1, <2>2, <2>3, MeasuredScore DEF Maps, Gemm
<1> QED BY <1>3, <1>4, <1>5

LEMMA PrintsLines ==
  ASSUME Control, GemmType, MapType, Printing, GemmResults, MapState, Prints
  PROVE  RowsBelongToLines' /\ DurationsBelongToLines'
<1> USE DEF At
<1>1. ASSUME NEW sec \in {"FFT", "PNG", "PHYSICS", "HASH"}, pc.sec = sec,
             pc.step = "print", PrintScore(LineOf[sec], secs, loops)
      PROVE  RowsBelongToLines' /\ DurationsBelongToLines'
  <2>1. sec \in Measured /\ LineOf[sec] /= "[MAP.ORDERED]"
    BY LineFacts DEF Measured
  <2> QED BY <1>1, <2>1, LineOfSection, MeasuredScore
<1>2. CASE PrintFft
  BY <1>1, <1>2, LineFacts DEF PrintFft
<1>3. CASE PrintPng
  BY <1>1, <1>3, LineFacts DEF PrintPng
<1>4. CASE PrintPhysics
  BY <1>1, <1>4, LineFacts DEF PrintPhysics
<1>5. CASE PrintHash
  BY <1>1, <1>5, LineFacts DEF PrintHash
<1>6. CASE GemmSummary
  <2> DEFINE sum == Plus(gemm.results["SGEMM"], gemm.results["DGEMM"])
  <2>1. /\ pc = [sec |-> "DGEMM", step |-> "summary"] /\ pc.step = "summary"
        /\ PrintScore("601_GEMM", sum, gemm.loops)
    BY <1>6 DEF GemmSummary
  <2>2. \E s \in {0, AtLeastNone(gemm.loops)}, d \in {0, DgemmLoops(gemm.loops)} :
          sum = Plus(By("SGEMM", s), By("DGEMM", d))
    <3>1. /\ gemm.results["SGEMM"] \in {By("SGEMM", 0),
                                        By("SGEMM", AtLeastNone(gemm.loops))}
          /\ gemm.results["DGEMM"] \in {By("DGEMM", 0),
                                        By("DGEMM", DgemmLoops(gemm.loops))}
      BY <2>1 DEF GemmResults
    <3> QED BY <3>1
  <2> HIDE DEF sum
  <2>3. RowsBelongToLines'
    BY <2>1, SummaryRow, WhoseFacts
  <2>4. line'.name = "601_GEMM" /\ line'.secs = sum /\ line'.loops = gemm.loops
    BY <2>1, ScoreLine
  <2>5. DurationsBelongToLines'
    BY <2>2, <2>4, WhoseFacts DEF DurationsBelongToLines
  <2> QED BY <2>3, <2>5
<1>7. CASE MapSummary
  <2> DEFINE sum == Plus(map.results[0], map.results[1])
  <2>1. /\ pc = [sec |-> "UNORDERED", step |-> "summary"]
        /\ pc.step = "summary" /\ PrintScore("603_MAP", sum, map.loops)
    BY <1>7 DEF MapSummary
  <2>2. /\ sum = Plus(By("ORDERED", sum["ORDERED"]),
                      By("UNORDERED", sum["UNORDERED"]))
        /\ sum["UNORDERED"] <= UnorderedLoops(map.loops)
    BY <2>1 DEF MapState
  <2> HIDE DEF sum
  <2>3. RowsBelongToLines'
    BY <2>1, SummaryRow, WhoseFacts
  <2>4. line'.name = "603_MAP" /\ line'.secs = sum /\ line'.loops = map.loops
    BY <2>1, ScoreLine
  <2>5. DurationsBelongToLines'
    BY <2>2, <2>4, WhoseFacts DEF DurationsBelongToLines
  <2> QED BY <2>3, <2>5
<1> HIDE DEF At
<1> QED BY <1>2, <1>3, <1>4, <1>5, <1>6, <1>7 DEF Prints

LEMMA SelfTestLines ==
  ASSUME Selected, SelfTest
  PROVE  RowsBelongToLines' /\ DurationsBelongToLines'
<1>1. line = Banner
  BY DEF SelfTest, Selected
<1>2. PICK name \in {"test_memset pass", "test_memset failed"} :
        line' = [line EXCEPT !.name = name]
  BY DEF SelfTest
<1>3. line'.name = name /\ line'.row = NULL
  BY <1>1, <1>2 DEF Banner
<1>4. name \notin MeasuredLines
  BY WhoseFacts
<1> QED BY <1>3, <1>4 DEF RowsBelongToLines, DurationsBelongToLines

LEMMA GrpFrame == ASSUME [Next]_uvars PROVE grp' = grp \/ ReadOption
<1> USE PerfQuiet DEF Quiet
<1>1. ASSUME NEW sec, Begin(sec) \/ BeginRead(sec) PROVE grp' = grp
  BY <1>1 DEF Begin, BeginRead
<1>2. ASSUME NEW sec, Iterate(sec) \/ TakeBlock(sec) \/ EnterGemm(sec)
                      \/ GemmMalloc(sec) \/ GemmReturns(sec) \/ GemmCleanup(sec)
                      \/ TestMap(sec) \/ EnterMap
      PROVE  grp' = grp
  BY <1>2 DEF Iterate, TakeBlock, EnterGemm, GemmMalloc, GemmReturns,
              GemmCleanup, TestMap, EnterMap
<1>3. ASSUME NEW sec, EndOf(sec) PROVE grp' = grp
  BY <1>3, PerfEndRow DEF EndOf
<1>4. ASSUME NEW sec, Leave(sec) \/ PngLeave \/ PhysicsLeave PROVE grp' = grp
  BY <1>3, <1>4 DEF Leave, PngLeave, PhysicsLeave
<1>5. ASSUME Prints \/ \E sec : PrintGemm(sec) \/ PrintMap(sec)
      PROVE  grp' = grp
  BY <1>5, PrintsRow
<1>6. CASE UnknownOption \/ NullCfg \/ SelfTest \/ StartTests \/ Kernel
           \/ UNCHANGED uvars
  BY <1>6 DEF UnknownOption, NullCfg, SelfTest, StartTests, Kernel, uvars
<1>7. CASE EnterPng \/ PngDecode \/ PngFree \/ EnterPhysics \/ PhysicsStep
  BY <1>7 DEF EnterPng, PngDecode, PngFree, EnterPhysics, PhysicsStep
<1> QED BY <1>1, <1>2, <1>4, <1>5, <1>6, <1>7 DEF Next, Driver, Prints

LEMMA LinesStep ==
  ASSUME Control, GemmType, MapType, Selected, Printing, GemmResults, MapState,
         RowsBelongToLines, DurationsBelongToLines, [Next]_uvars
  PROVE  RowsBelongToLines' /\ DurationsBelongToLines'
<1>1. CASE UNCHANGED line
  <2>1. CASE grp' = grp
    BY <1>1, <2>1 DEF RowsBelongToLines, DurationsBelongToLines, Section
  <2>2. CASE ReadOption
    <3>1. line' = Banner
      BY <1>1, <2>2 DEF ReadOption, Selected
    <3>2. line'.name = "UTUTNA" /\ line'.row = NULL
      BY <3>1 DEF Banner
    <3> QED BY <3>2, WhoseFacts DEF RowsBelongToLines, DurationsBelongToLines
  <2> QED BY <2>1, <2>2, GrpFrame
<1>2. CASE Prints
  BY <1>2, PrintsLines
<1>3. CASE SelfTest
  BY <1>3, SelfTestLines
<1>4. ASSUME NEW sec \in Gemm, PrintGemm(sec)
      PROVE  RowsBelongToLines' /\ DurationsBelongToLines'
  <2>1. /\ pc.sec = sec /\ pc.step = "print" /\ sec \in Measured
        /\ LineOf[sec] /= "[MAP.ORDERED]"
        /\ PrintScore(LineOf[sec], secs, loops)
    BY <1>4, LineFacts, WorkerFacts DEF PrintGemm, At, Gemm
  <2> QED BY <2>1, LineOfSection, MeasuredScore
<1>5. ASSUME NEW sec \in Maps, PrintMap(sec)
      PROVE  RowsBelongToLines' /\ DurationsBelongToLines'
  BY <1>5, PrintMapLines
<1> QED BY <1>1, <1>2, <1>3, <1>4, <1>5, LineFrame

-----------------------------------------------------------------------------
(* The invariant holds at first, and every step keeps it.                  *)

Shape == Control /\ Timing /\ GemmType /\ MapType /\ HeapType

LEMMA ShapeIsTyped ==
  Shape /\ MapState <=> TypeOK /\ MapState /\ IsFiniteSet(heap)
<1>1. ASSUME Shape, MapState PROVE TypeOK
  <2>1. pc.sec \in Maps /\ pc.step = "print" => ResultSlot \in 0..1
    BY <1>1 DEF MapState, InMap, Hooked, Maps, ResultSlot
  <2> QED BY <1>1, <2>1 DEF Shape, Control, Timing, GemmType, MapType,
             HeapType,
          TypeOK, Times, Pointers, Commands
<1>2. ASSUME TypeOK, IsFiniteSet(heap) PROVE Shape
  BY <1>2 DEF Shape, Control, Timing, GemmType, MapType, HeapType,
          TypeOK, Times, Pointers, Commands
<1>3. Shape => IsFiniteSet(heap)
  BY DEF Shape, HeapType
<1> QED BY <1>1, <1>2, <1>3

LEMMA InitFacts ==
  ASSUME Init
  PROVE  /\ pc = [sec |-> "MAIN", step |-> "options"]
         /\ pc.sec = "MAIN" /\ pc.step = "options"
         /\ ~counters_valid
         /\ \A k \in 1..3 : gemm.ptrs[k] = NULL
BY NoPtrsFacts DEF Init, Perf!Init

LEMMA InitShape == Init => Shape
<1> SUFFICES ASSUME Init PROVE Shape
  OBVIOUS
<1>1. Control
  BY DEF Init, Control, Commands, Steps
<1>2. Timing
  BY NobodyTimes DEF Init, Timing
<1>3. GemmType
  BY NobodyTimes, NoPtrsFacts DEF Init, GemmType
<1>4. MapType
  BY NobodyTimes DEF Init, MapType
<1>5. HeapType
  BY FS_EmptySet DEF Init, HeapType, Pointers
<1> QED BY <1>1, <1>2, <1>3, <1>4, <1>5 DEF Shape

LEMMA InitInvariant == Init => IInv
<1> SUFFICES ASSUME Init PROVE IInv
  OBVIOUS
<1> USE InitFacts
<1>1. Selected
  BY WorkerFacts DEF Init, Selected, At, Banner
<1>2. Measuring
  BY DEF Measuring, At
<1>3. Printing
  BY DEF Printing
<1>4. PoolState
  BY DEF Init, PoolState, Gemm, GemmPoolSuffices, GemmMatricesLive, At
<1>5. GemmResults
  BY DEF GemmResults, Gemm, At
<1>6. MapState
  BY DEF Init, MapState, InMap, NoResults, At
<1>7. HeapState
  <2>1. ~OwnsBlock /\ ~FftRan
    BY DEF OwnsBlock, FftRan, At
  <2>2. Held = {} /\ heap = {}
    BY <2>1 DEF Init, Held, Matrices
  <2>3. heap \ Held = {}
    BY <2>2
  <2> QED BY <2>1, <2>2, <2>3, FS_EmptySet DEF HeapState
<1>8. line.name = "UTUTNA" /\ line.row = NULL
  BY DEF Init
<1>9. RowsBelongToLines /\ DurationsBelongToLines
  BY <1>8, WhoseFacts DEF RowsBelongToLines, DurationsBelongToLines
<1>10. TypeOK
  BY <1>6, InitShape, ShapeIsTyped
<1> QED BY <1>1, <1>2, <1>3, <1>4, <1>5, <1>6, <1>7, <1>9, <1>10 DEF IInv

LEMMA InvariantStep == IInv /\ [Next]_uvars => IInv'
<1> SUFFICES ASSUME IInv, [Next]_uvars PROVE IInv'
  OBVIOUS
<1>1. /\ TypeOK /\ Selected /\ Measuring /\ Printing
      /\ PoolState /\ GemmResults /\ MapState /\ HeapState
      /\ RowsBelongToLines /\ DurationsBelongToLines
  BY DEF IInv
<1>2. Shape
  BY <1>1, ShapeIsTyped DEF HeapState
<1>3. Control /\ Timing /\ GemmType /\ MapType /\ HeapType
  BY <1>2 DEF Shape
<1>4. Shape'
  BY <1>1, <1>3, ControlStep, TimingStep, GemmTypeStep, MapTypeStep,
     HeapTypeStep DEF Shape
<1>5. Selected' /\ Measuring' /\ Printing'
  BY <1>1, <1>3, SelectedStep, MeasuringStep, PrintingStep
<1>6. PoolState' /\ GemmResults' /\ MapState' /\ HeapState'
  BY <1>1, <1>3, PoolStep, GemmResultsStep, MapStep, HeapStep
<1>7. RowsBelongToLines' /\ DurationsBelongToLines'
  BY <1>1, <1>3, LinesStep
<1>8. TypeOK'
  <2>1. ASSUME Shape', MapState' PROVE TypeOK'
    BY <2>1, ShapeIsTyped, PTL
  <2> QED BY <1>4, <1>6, <2>1
<1> QED BY <1>5, <1>6, <1>7, <1>8 DEF IInv

LEMMA Invariance == Spec => []IInv
BY InitInvariant, InvariantStep, PTL DEF Spec

-----------------------------------------------------------------------------
(* What perf.c is in, and what the driver calls it for.                    *)

(* What each operation of perf.c does to phase.                            *)
LEMMA PhaseSteps ==
  /\ \A type, code : Perf!PerfConfig(type, code) =>
       phase' \in {phase, "exited"}
  /\ Perf!PerfInit \/ Perf!PerfEnd => phase' = "idle"
  /\ Perf!PerfBeginReset => phase' = "reset"
  /\ Perf!PerfBeginRead \/ Perf!PerfBeginNothing => phase' = "open"
  /\ Perf!PerfPrint => phase' = phase
  /\ Perf!Work => phase' = phase
  /\ Perf!Overrun => phase' = "corrupt"
  /\ UNCHANGED perf => phase' = phase
<1>1. \A type, code : Perf!PerfConfig(type, code) =>
        phase' \in {phase, "exited"}
  BY DEF Perf!PerfConfig, Perf!ConfigPair, Perf!ConfigSingle,
         Perf!ConfigDropped, Perf!ConfigRefused
<1> QED BY <1>1 DEF perf, Perf!PerfInit, Perf!PerfBeginReset,
           Perf!PerfBeginRead, Perf!PerfBeginNothing, Perf!PerfEnd,
           Perf!PerfPrint, Perf!Work, Perf!Overrun

LEMMA ScoreKeepsPhase ==
  ASSUME NEW name, NEW duration, NEW column, PrintScore(name, duration, column)
  PROVE  phase' = phase
BY PhaseSteps DEF PrintScore

LEMMA EndClosesWindow == ASSUME NEW sec, EndOf(sec) PROVE phase' = "idle"
BY PhaseSteps DEF EndOf

(* Between two steps at which perf.c has the same to do, it is left alone. *)
LEMMA SameCalls ==
  ASSUME CallsInOrder, phase' = phase, pc.step /= "crashed",
         pc'.step = "crashed" \/ PhaseAt(pc'.step) = PhaseAt(pc.step)
  PROVE  CallsInOrder'
BY DEF CallsInOrder

\* The steps between the windows, and the actions that take none.
Idle == {"enter", "setup", "library", "begin", "print", "cleanup", "summary",
         "selftest", "done", "exited"}
SetUps ==
  \/ SelfTest \/ EnterMap \/ EnterPng \/ EnterPhysics
  \/ \E sec \in {"FFT", "HASH"} : TakeBlock(sec)
  \/ \E sec \in Gemm : \/ EnterGemm(sec) \/ GemmMalloc(sec)
                       \/ GemmReturns(sec) \/ GemmCleanup(sec)
  \/ \E sec \in Maps : TestMap(sec)

LEMMA SetUpsTakeNone ==
  ASSUME SetUps
  PROVE  /\ phase' = phase /\ pc.step \in Idle
         /\ pc' = pc \/ pc'.step \in Idle \cup {"crashed"}
<1> DEFINE Quietly == /\ UNCHANGED perf /\ pc.step \in Idle
                      /\ pc' = pc \/ pc'.step \in Idle \cup {"crashed"}
<1> USE DEF At, Goto, Idle
<1>1. SelfTest => Quietly
  <2> SUFFICES ASSUME SelfTest PROVE Quietly
    OBVIOUS
  <2>1. UNCHANGED perf /\ pc.step = "selftest" /\ pc'.step = "done"
    BY DEF SelfTest
  <2> QED BY <2>1
<1>2. EnterMap \/ EnterPng \/ EnterPhysics => Quietly
  BY DEF EnterMap, EnterPng, EnterPhysics
<1>3. ASSUME NEW sec, TakeBlock(sec) PROVE Quietly
  BY <1>3 DEF TakeBlock
<1>4. ASSUME NEW sec, EnterGemm(sec) PROVE Quietly
  BY <1>4 DEF EnterGemm
<1>5. ASSUME NEW sec, GemmMalloc(sec) PROVE Quietly
  BY <1>5 DEF GemmMalloc
<1>6. ASSUME NEW sec, GemmReturns(sec) PROVE Quietly
  BY <1>6 DEF GemmReturns
<1>7. ASSUME NEW sec, GemmCleanup(sec) PROVE Quietly
  BY <1>7 DEF GemmCleanup
<1>8. ASSUME NEW sec, TestMap(sec) PROVE Quietly
  BY <1>8 DEF TestMap, AfterMap
<1>9. Quietly
  BY <1>1, <1>2, <1>3, <1>4, <1>5, <1>6, <1>7, <1>8 DEF SetUps
<1> QED BY <1>9, PhaseSteps

(* Every step of the driver keeps the two in order: a call of perf.c takes *)
(* both to the same place, any other step neither.                         *)
LEMMA CallsStep == Control /\ CallsInOrder /\ [Next]_uvars => CallsInOrder'
<1> SUFFICES ASSUME Control, CallsInOrder, [Next]_uvars PROVE CallsInOrder'
  OBVIOUS
<1>1. CASE ReadOption \/ Kernel \/ UNCHANGED uvars
  <2>1. pc' = pc
    BY <1>1 DEF ReadOption, Kernel, driver, uvars
  <2>2. phase' \in {phase, "exited", "corrupt"}
    BY <1>1, PhaseSteps DEF ReadOption, Kernel, uvars
  <2> QED BY <2>1, <2>2 DEF CallsInOrder
<1>2. CASE UnknownOption \/ NullCfg
  BY <1>2 DEF UnknownOption, NullCfg, Goto, CallsInOrder
<1>3. CASE StartTests
  <2>1. phase' = "idle"
    BY <1>3, PhaseSteps DEF StartTests
  <2>2. pc'.step \in {"enter", "done", "selftest"}
    BY <1>3, PrintsLand
  <2> QED BY <2>1, <2>2 DEF CallsInOrder, PhaseAt
<1>4. CASE Prints
  <2>1. phase' = phase
    BY <1>4, ScoreKeepsPhase
    DEF Prints, PrintFft, PrintHash, GemmSummary, MapSummary, PrintPng,
        PrintPhysics
  <2>2. pc'.step \in {"enter", "done", "selftest"}
    BY <1>4, PrintsLand
  <2>3. pc.step \in {"print", "summary"}
    BY <1>4 DEF Prints, PrintFft, PrintHash, GemmSummary, MapSummary, PrintPng,
                PrintPhysics, At
  <2> QED BY <2>1, <2>2, <2>3, SameCalls DEF PhaseAt
<1>5. ASSUME NEW sec \in Measured, Begin(sec) PROVE CallsInOrder'
  <2>1. \/ phase' = "reset" /\ pc'.step = "reading"
        \/ phase' = "open" /\ pc'.step = "loop"
    BY <1>5, PhaseSteps DEF Begin, Goto
  <2> QED BY <2>1 DEF CallsInOrder, PhaseAt
<1>6. ASSUME NEW sec \in Measured, BeginRead(sec) PROVE CallsInOrder'
  BY <1>6, PhaseSteps DEF BeginRead, Goto, CallsInOrder, PhaseAt
<1>7. ASSUME UNCHANGED <<perf, pc>> PROVE CallsInOrder'
  BY <1>7, PhaseSteps DEF CallsInOrder
<1>8. CASE \/ \E sec \in Simple : Leave(sec)
           \/ PngLeave \/ PhysicsLeave
  <2>1. phase' = "idle"
    BY <1>8, EndClosesWindow DEF Leave, PngLeave, PhysicsLeave
  <2>2. pc'.step = "print"
    BY <1>8 DEF Leave, PngLeave, PhysicsLeave, Goto
  <2> QED BY <2>1, <2>2 DEF CallsInOrder, PhaseAt
<1>9. CASE \/ \E sec \in Simple : Iterate(sec)
           \/ PhysicsStep
  <2>1. UNCHANGED <<perf, pc>>
    BY <1>9 DEF Iterate, PhysicsStep
  <2> QED BY <1>7, <2>1
<1>10. CASE PngDecode \/ PngFree
  <2>1. phase' = phase
    BY <1>10, PhaseSteps DEF PngDecode, PngFree
  <2>2. {pc.step, pc'.step} \subseteq {"loop", "free"}
    BY <1>10 DEF PngDecode, PngFree, At, Goto
  <2> QED BY <2>1, <2>2, SameCalls DEF PhaseAt
<1>11. CASE SetUps
  BY <1>11, SetUpsTakeNone, SameCalls DEF PhaseAt, Idle
<1>12. CASE \/ \E sec \in Gemm : PrintGemm(sec)
            \/ \E sec \in Maps : PrintMap(sec)
  <2>1. phase' = phase
    BY <1>12, ScoreKeepsPhase DEF PrintGemm, PrintMap
  <2>2. pc.step = "print" /\ pc'.step \in {"cleanup", "library", "summary"}
    BY <1>12 DEF PrintGemm, PrintMap, AfterMap, At, Goto
  <2> QED BY <2>1, <2>2, SameCalls DEF PhaseAt
<1> QED BY <1>1, <1>2, <1>3, <1>4, <1>5, <1>6, <1>8, <1>9, <1>10, <1>11, <1>12
        DEF Next, Driver, Prints, SetUps

-----------------------------------------------------------------------------
(* The driver and the counters.                                            *)

LEMMA ScoreDrivesCounters ==
  ASSUME NEW name, NEW duration, NEW column, PrintScore(name, duration, column)
  PROVE  Perf!PerfPrint \/ UNCHANGED perf
BY DEF PrintScore

LEMMA EndDrivesCounters ==
  ASSUME NEW sec, EndOf(sec) PROVE Perf!PerfEnd
BY DEF EndOf

(* Whatever the driver does is one operation of perf.c, or none.           *)
LEMMA DriverDrivesCounters ==
  ASSUME Driver PROVE Perf!Next \/ UNCHANGED perf
<1>1. CASE ReadOption
  BY <1>1 DEF ReadOption, Perf!Next
<1>2. CASE StartTests
  BY <1>2 DEF StartTests, Perf!Next
<1>3. CASE UnknownOption \/ NullCfg \/ SelfTest
  BY <1>3 DEF UnknownOption, NullCfg, SelfTest
<1>4. CASE \E sec \in Measured : Begin(sec) \/ BeginRead(sec)
  BY <1>4 DEF Begin, BeginRead, Perf!Next
<1>5. CASE \E sec \in Simple : Iterate(sec) \/ Leave(sec)
  BY <1>5, EndDrivesCounters DEF Iterate, Leave, Perf!Next
<1>6. CASE \E sec \in {"FFT", "HASH"} : TakeBlock(sec)
  BY <1>6 DEF TakeBlock
<1>7. CASE PrintFft \/ PrintHash
  BY <1>7, ScoreDrivesCounters DEF PrintFft, PrintHash, Perf!Next
<1>8. CASE \E sec \in Gemm :
             \/ EnterGemm(sec) \/ GemmMalloc(sec) \/ GemmReturns(sec)
             \/ PrintGemm(sec) \/ GemmCleanup(sec)
  <2> SUFFICES ASSUME NEW sec \in Gemm,
                      \/ EnterGemm(sec) \/ GemmMalloc(sec) \/ GemmReturns(sec)
                      \/ PrintGemm(sec) \/ GemmCleanup(sec)
               PROVE  Perf!Next \/ UNCHANGED perf
    BY <1>8
  <2>1. CASE PrintGemm(sec)
    BY <2>1, ScoreDrivesCounters DEF PrintGemm, Perf!Next
  <2>2. CASE EnterGemm(sec) \/ GemmMalloc(sec)
    BY <2>2 DEF EnterGemm, GemmMalloc
  <2>3. CASE GemmReturns(sec) \/ GemmCleanup(sec)
    BY <2>3 DEF GemmReturns, GemmCleanup
  <2> QED BY <2>1, <2>2, <2>3
<1>9. CASE GemmSummary \/ MapSummary
  BY <1>9, ScoreDrivesCounters DEF GemmSummary, MapSummary, Perf!Next
<1>10. CASE EnterMap
  BY <1>10 DEF EnterMap
<1>11. CASE \E sec \in Maps : TestMap(sec) \/ PrintMap(sec)
  <2>1. ASSUME NEW sec \in Maps, TestMap(sec) PROVE UNCHANGED perf
    BY <2>1 DEF TestMap
  <2>2. ASSUME NEW sec \in Maps, PrintMap(sec)
        PROVE  Perf!PerfPrint \/ UNCHANGED perf
    <3>1. \E name, duration, column : PrintScore(name, duration, column)
      BY <2>2 DEF PrintMap
    <3> QED BY <3>1, ScoreDrivesCounters
  <2> QED BY <1>11, <2>1, <2>2 DEF Perf!Next
<1>12. CASE EnterPng \/ PngDecode \/ PngFree
  BY <1>12 DEF EnterPng, PngDecode, PngFree
<1>13. CASE PngLeave \/ PhysicsLeave
  BY <1>13, EndDrivesCounters DEF PngLeave, PhysicsLeave, Perf!Next
<1>14. CASE PrintPng \/ PrintPhysics
  BY <1>14, ScoreDrivesCounters DEF PrintPng, PrintPhysics, Perf!Next
<1>15. CASE EnterPhysics \/ PhysicsStep
  BY <1>15 DEF EnterPhysics, PhysicsStep
<1> QED BY <1>1, <1>2, <1>3, <1>4, <1>5, <1>6, <1>7, <1>8, <1>9, <1>10,
           <1>11, <1>12, <1>13, <1>14, <1>15 DEF Driver

-----------------------------------------------------------------------------
(* Results.                                                                *)

(* Type correctness of the driver: the clock, the last duration, the pool  *)
(* and the results keep their shape, and the map hook never writes past    *)
(* test_map_results.                                                       *)
THEOREM Typing == Spec => []TypeOK
BY Invariance, PTL DEF IInv

(* A row of counters printed by print_score stands on the line of the loop *)
(* it was counted in and holds just that loop's iterations.                *)
THEOREM RowsOnTheirLines == Spec => []RowsBelongToLines
BY Invariance, PTL DEF IInv

(* The DURATION of every measured line covers the loop the line names and  *)
(* as many iterations as LOOPS says, and the summary lines add up their    *)
(* two durations.                                                          *)
THEOREM DurationsOnTheirLines == Spec => []DurationsBelongToLines
BY Invariance, PTL DEF IInv

(* The loops of test_601_gemm run on three live, different matrices.       *)
THEOREM MatricesStayLive == Spec => []GemmMatricesLive
BY Invariance, PTL DEF IInv, PoolState

(* gemm_malloc never finds its pool of three used up.                      *)
THEOREM PoolSuffices == Spec => []GemmPoolSuffices
BY Invariance, PTL DEF IInv, PoolState

LEMMA NothingHeld ==
  ASSUME IInv, pc.step \in {"enter", "done"} \/ At("PNG", "loop")
  PROVE  Held = {}
<1>1. pc.step = "done" => pc.sec = "MAIN"
  BY DEF IInv, Selected
<1>2. ~InPool /\ ~OwnsBlock
  BY <1>1 DEF InPool, OwnsBlock, Pooled, Gemm, At
<1> QED BY <1>2, NoMatrices DEF IInv, Held

(* No test leaks a block: between tests, and between the images of         *)
(* test_609_png, the only live block is the cfg of test_600_fft.           *)
THEOREM NothingLeaks == Spec => []NoLeaks
<1>1. IInv => NoLeaks
  <2> SUFFICES ASSUME IInv, pc.step \in {"enter", "done"} \/ At("PNG", "loop")
               PROVE  Cardinality(heap) <=
                        IF pc.sec /= "FFT" /\ arg.id \in {0, 600} THEN 1 ELSE 0
    BY DEF NoLeaks
  <2>1. heap \ Held = heap
    BY NothingHeld
  <2>2. pc.step /= "crashed" /\ pc.step /= "options"
    BY DEF At
  <2>3. Cardinality(heap) \in IF FftRan THEN {0, 1} ELSE {0}
    BY <2>1, <2>2 DEF IInv, HeapState
  <2>4. pc = [sec |-> pc.sec, step |-> pc.step]
    BY DEF IInv, TypeOK
  <2>5. FftRan <=> pc.sec /= "FFT" /\ arg.id \in {0, 600}
    <3>1. pc.sec = "FFT" => pc.step = "enter"
      BY DEF IInv, Selected, At
    <3> QED BY <2>2, <2>4, <3>1 DEF FftRan, At
  <2> QED BY <2>3, <2>5
<1> QED BY <1>1, Invariance, PTL

(* perf_begin, perf_end and perf_print are called in order in every run:   *)
(* where the driver goes on to one of them, perf.c is ready for it.        *)
THEOREM CountersInOrder == Spec => []CallsInOrder
<1>1. Init => CallsInOrder
  BY DEF Init, Perf!Init, CallsInOrder, PhaseAt
<1>2. IInv => Control
  BY TypedLoops DEF IInv
<1> QED BY <1>1, <1>2, CallsStep, Invariance, PTL DEF Spec

(* The driver implements the counters: whatever tests it runs and whatever *)
(* fails, its begin(), end() and print_score call perf.c only in the order *)
(* PerfCounters has, so that what is proved of PerfCounters holds in it.   *)
THEOREM DriverUsesCounters == Spec => Perf!Spec
<1>1. Init => Perf!Init
  BY DEF Init
<1>2. [Next]_uvars => [Perf!Next]_(Perf!vars)
  <2>1. CASE Driver
    BY <2>1, DriverDrivesCounters DEF perf, Perf!vars
  <2>2. CASE Kernel
    BY <2>2 DEF Kernel, Perf!Next
  <2>3. CASE UNCHANGED uvars
    BY <2>3 DEF uvars, perf, Perf!vars
  <2> QED BY <2>1, <2>2, <2>3 DEF Next
<1> QED BY <1>1, <1>2, PTL DEF Spec, Perf!Spec

-----------------------------------------------------------------------------
(* The clock begin() and end() read: the module Elapsed, a specification   *)
(* of its own since no step of the driver is a step of it.                 *)

TimeValues == [tv_sec : Nat, tv_usec : 0..MILLION - 1]

(* The microseconds begin() read.                                          *)
BeginTime == (MILLION * start.tv_sec) + start.tv_usec

(* The clock is ahead of what begin() read by the time that passed and by  *)
(* what it was set by; the program looks at neither.                       *)
ClockInv == ClockTypeOK /\ (running => clock = BeginTime + elapsed + moved)

(* Seconds and remaining microseconds make up the whole.                   *)
LEMMA DivMod ==
  ASSUME NEW n \in Nat, NEW d \in Nat \ {0}
  PROVE  /\ n \div d \in Nat /\ n % d \in 0..d-1
         /\ n = (d * (n \div d)) + (n % d)
OBVIOUS

(* A number less than a modulus away from zero, converted to unsigned.     *)
LEMMA Converted ==
  ASSUME NEW n \in Int, NEW d \in Nat \ {0}
  PROVE  /\ n \in 0..d-1 => n % d = n
         /\ n \in 0-d..-1 => n % d = d + n
         /\ n % d \in 0..d-1
OBVIOUS

LEMMA Distributes ==
  ASSUME NEW m \in Int, NEW a \in Int, NEW b \in Int
  PROVE  m * (a - b) = m * a - m * b
OBVIOUS

(* gettimeofday loses nothing of the clock.                                *)
LEMMA ReadingIsExact ==
  ASSUME ClockTypeOK
  PROVE  /\ Gettimeofday \in TimeValues
         /\ clock = (MILLION * Gettimeofday.tv_sec)
                      + Gettimeofday.tv_usec
<1>1. clock \in Nat /\ MILLION \in Nat \ {0}
  BY UnitsAssumption, BoundsAssumption
     DEF ClockTypeOK
<1>2. /\ clock \div MILLION \in Nat /\ clock % MILLION \in 0..MILLION - 1
      /\ clock = (MILLION * (clock \div MILLION)) + (clock % MILLION)
  BY <1>1, DivMod
<1> QED BY <1>2 DEF Gettimeofday, TimeValues

(* The two differences of end() add up to that of the readings, also when  *)
(* the second is negative.                                                 *)
LEMMA UsecOfReading ==
  ASSUME ClockTypeOK
  PROVE  Usec(Gettimeofday) = (clock - BeginTime) % ULONG
<1> DEFINE tv == Gettimeofday
           a == tv.tv_sec
           b == start.tv_sec
           x == MILLION * a
           y == MILLION * b
           z == MILLION * (a - b)
<1>1. /\ a \in Nat /\ tv.tv_usec \in Int /\ b \in Nat /\ start.tv_usec \in Int
      /\ clock = x + tv.tv_usec /\ MILLION \in Nat /\ BeginTime = y + start.tv_usec
  BY ReadingIsExact, UnitsAssumption, BoundsAssumption
     DEF ClockTypeOK, TimeValues, BeginTime
<1> HIDE DEF tv
<1>2. z = x - y /\ x \in Int /\ y \in Int /\ z \in Int
  BY <1>1, Distributes
<1> HIDE DEF x, y, z
<1>3. z + (tv.tv_usec - start.tv_usec) = clock - BeginTime
  BY <1>1, <1>2
<1> QED BY <1>3 DEF Usec, tv, z

(* The invariant holds at first and is kept by every step.                 *)
LEMMA ClockStarts == ClockInit => ClockInv
<1> SUFFICES ASSUME ClockInit PROVE ClockInv
  OBVIOUS
<1>1. /\ clock \in 0..MaxClock /\ usec = 0 /\ running = FALSE /\ elapsed = 0
      /\ moved = 0 /\ sets = 0 /\ start = [tv_sec |-> 0, tv_usec |-> 0]
  BY DEF ClockInit
<1>2. start \in [tv_sec : Nat, tv_usec : 0..MILLION - 1]
  BY <1>1, UnitsAssumption, BoundsAssumption
<1>3. usec \in 0..ULONG - 1 /\ elapsed \in Nat /\ moved \in Int
      /\ sets \in 0..MaxSets
  BY <1>1, UnitsAssumption, BoundsAssumption
<1>4. running \in BOOLEAN /\ ~running
  BY <1>1
<1> QED BY <1>1, <1>2, <1>3, <1>4 DEF ClockInv, ClockTypeOK

LEMMA ClockStep == ClockInv /\ [ClockNext]_clock_vars => ClockInv'
<1> SUFFICES ASSUME ClockInv, [ClockNext]_clock_vars PROVE ClockInv'
  OBVIOUS
<1>0. /\ ClockTypeOK /\ clock \in 0..MaxClock /\ clock \in Nat
      /\ elapsed \in Nat /\ moved \in Int /\ running \in BOOLEAN
      /\ start \in TimeValues /\ usec \in 0..ULONG - 1 /\ sets \in 0..MaxSets
      /\ (running => clock = BeginTime + elapsed + moved)
  BY UnitsAssumption, BoundsAssumption
     DEF ClockInv, ClockTypeOK, TimeValues
<1>s. BeginTime \in Int
  BY <1>0, UnitsAssumption, BoundsAssumption
     DEF BeginTime, TimeValues
<1>1. CASE BeginTiming
  <2>1. /\ start' = Gettimeofday /\ elapsed' = 0 /\ moved' = 0
        /\ UNCHANGED <<clock, usec, sets>>
    BY <1>1 DEF BeginTiming
  <2>t. running' \in BOOLEAN
    BY <1>1 DEF BeginTiming
  <2>2. start' \in TimeValues
    BY <1>0, <2>1, ReadingIsExact
  <2>3. clock' = BeginTime' + elapsed' + moved'
    BY <1>0, <2>1, <2>2, ReadingIsExact, UnitsAssumption, BoundsAssumption
     DEF BeginTime, TimeValues
  <2>4. ClockTypeOK'
    BY <1>0, <2>1, <2>2, <2>t DEF ClockTypeOK, TimeValues
  <2> QED BY <2>3, <2>4 DEF ClockInv
<1>2. CASE EndTiming
  <2>1. Usec(Gettimeofday) \in 0..ULONG - 1
    <3>1. clock - BeginTime \in Int
      BY <1>0, <1>s
    <3>2. Usec(Gettimeofday) = (clock - BeginTime) % ULONG
      BY <1>0, UsecOfReading
    <3>3. (clock - BeginTime) % ULONG \in 0..ULONG - 1
      BY <3>1, Converted, UnitsAssumption, BoundsAssumption
    <3> QED BY <3>2, <3>3
  <2>2. /\ usec' \in 0..ULONG - 1
        /\ UNCHANGED <<clock, start, elapsed, moved, sets>>
    BY <1>2, <2>1 DEF EndTiming
  <2>3. running' \in BOOLEAN /\ ~running'
    BY <1>2 DEF EndTiming
  <2>4. ClockTypeOK'
    BY <1>0, <2>2, <2>3 DEF ClockTypeOK, TimeValues
  <2> QED BY <2>3, <2>4 DEF ClockInv
<1>3. CASE Pass
  <2>0. /\ clock < MaxClock /\ clock' = clock + 1
        /\ UNCHANGED <<start, usec, running, moved, sets>>
    BY <1>3 DEF Pass
  <2>1. clock' \in 0..MaxClock
    BY <1>0, <2>0, UnitsAssumption, BoundsAssumption
  <2>2. /\ (running => elapsed' = elapsed + 1)
        /\ (~running => elapsed' = elapsed)
    BY <1>3 DEF Pass
  <2>3. elapsed' \in Nat
    BY <1>0, <2>2
  <2>4. ClockTypeOK'
    BY <1>0, <2>0, <2>1, <2>3 DEF ClockTypeOK, TimeValues
  <2>5. ASSUME running PROVE clock' = BeginTime' + elapsed' + moved'
    BY <1>0, <1>s, <2>0, <2>2, <2>5 DEF BeginTime
  <2> QED BY <2>0, <2>4, <2>5 DEF ClockInv
<1>4. CASE SetClock
  <2>1. PICK c \in 0..MaxClock :
          /\ clock' = c
          /\ moved' = IF running THEN moved + (c - clock) ELSE moved
    BY <1>4 DEF SetClock
  <2>2. /\ sets' \in 0..MaxSets /\ c \in Int
        /\ UNCHANGED <<start, usec, running, elapsed>>
    BY <1>0, <1>4, UnitsAssumption, BoundsAssumption
     DEF SetClock
  <2>3. /\ (running => moved' = moved + (c - clock))
        /\ (~running => moved' = moved)
    BY <2>1
  <2>4. moved' \in Int
    BY <1>0, <2>2, <2>3
  <2>5. ClockTypeOK'
    BY <1>0, <2>1, <2>2, <2>4 DEF ClockTypeOK, TimeValues
  <2>6. ASSUME running PROVE clock' = BeginTime' + elapsed' + moved'
    BY <1>0, <1>s, <2>1, <2>2, <2>3, <2>6 DEF BeginTime
  <2> QED BY <2>2, <2>5, <2>6 DEF ClockInv
<1>5. CASE UNCHANGED clock_vars
  BY <1>5 DEF clock_vars, ClockInv, ClockTypeOK, BeginTime
<1> QED BY <1>1, <1>2, <1>3, <1>4, <1>5 DEF ClockNext

(* What end() computes is the time that passed, or that plus 2^64.         *)
LEMMA EndIsExact ==
  ASSUME ClockInv, EndTiming
  PROVE  /\ elapsed + moved \in 0..ULONG - 1 => usec' = elapsed + moved
         /\ elapsed + moved \in 0 - ULONG..-1 =>
              usec' = ULONG + (elapsed + moved)
<1>1. ClockTypeOK /\ start \in TimeValues /\ elapsed \in Nat /\ moved \in Int
  BY DEF ClockInv, ClockTypeOK, TimeValues
<1>2. BeginTime \in Int
  BY <1>1, UnitsAssumption, BoundsAssumption
     DEF BeginTime, TimeValues
<1>3. clock = BeginTime + elapsed + moved
  BY DEF ClockInv, EndTiming
<1>4. clock - BeginTime = elapsed + moved /\ elapsed + moved \in Int
  BY <1>1, <1>2, <1>3
<1>5. usec' = (elapsed + moved) % ULONG
  BY <1>1, <1>4, UsecOfReading DEF EndTiming
<1> QED BY <1>4, <1>5, Converted, UnitsAssumption, BoundsAssumption

(* Type correctness of the clock: in particular the last duration is a     *)
(* value of an unsigned long, whatever the clock was set to.               *)
THEOREM ClockTyping == ClockSpec => []ClockTypeOK
<1>1. ClockInv => ClockTypeOK
  BY DEF ClockInv
<1> QED BY <1>1, ClockStarts, ClockStep, PTL DEF ClockSpec

(* end() computes the time since begin(), borrow or not, for any clock,    *)
(* number of microseconds in a second and width of an unsigned long.       *)
THEOREM EndMeasures == ClockSpec => DurationExact
<1>1. ClockInv /\ [ClockNext]_clock_vars =>
        [EndTiming =>
           /\ elapsed + moved \in 0..ULONG - 1 => usec' = elapsed + moved
           /\ elapsed + moved \in 0 - ULONG..-1 =>
                usec' = ULONG + (elapsed + moved)]_clock_vars
  BY EndIsExact
<1> QED BY <1>1, ClockStarts, ClockStep, PTL DEF ClockSpec, DurationExact

=============================================================================
