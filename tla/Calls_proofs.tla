---------------------------- MODULE Calls_proofs ----------------------------
(***************************************************************************)
(* What TLAPS proves about Calls, for any depth of calls.                  *)
(***************************************************************************)
EXTENDS Calls, FiniteSetTheorems, SequenceTheorems, TLAPS

Regions == {"program", "extracted"} \cup Libs
Functions == {"stub", "answer", "system", "fprintf", "s_calloc", "code",
              "callback"} \cup Processed["jemalloc"] \cup Processed["stdlib"]

(* What jemalloc and the shims call besides each other: functions that     *)
(* call nothing but functions like them.                                   *)
Leaf(frame) ==
  \/ frame.in = "program" /\ frame.fn \in {"stub", "answer", "system", "fprintf"}
  \/ frame.in = "stdlib" /\ frame.fn \in StringExports

(* What runs while the libraries are placed.                               *)
Booting(frame) ==
  frame.in = "program" /\ frame.fn \in {"fprintf", "answer"}

(* jemalloc, or a leaf: only leaves are ever above it.                     *)
Calm(frame) == Leaf(frame) \/ frame.in = "jemalloc"

-----------------------------------------------------------------------------
(* The lists agree.                                                        *)

JemallocNames == {"malloc", "calloc0", "realloc", "free", "_Znam", "_Znwm",
                  "_ZdaPv", "_ZdlPv"}

LEMMA JemallocPointers ==
  /\ DOMAIN JemallocExports = JemallocNames
  /\ \A name \in JemallocNames :
       JemallocExports[name] \in Processed["jemalloc"] \cap KeptByMain["jemalloc"]
BY DEF JemallocExports, JemallocNames, Processed, KeptByMain

LEMMA StdlibPointers ==
  /\ StdlibExports \subseteq Processed["stdlib"] \cap KeptByMain["stdlib"]
  /\ StdlibExports \cap JemallocNames = {}
  /\ "calloc" \notin StdlibExports
BY DEF StdlibExports, StringExports, ZlibExports, Processed, KeptByMain,
       JemallocNames

(* The three tests of Shim, as the names tell them apart.                  *)
LEMMA ShimCalloc == Shim("calloc") = Frame("program", "s_calloc")
<1>1. "calloc" \notin DOMAIN JemallocExports
  BY JemallocPointers DEF JemallocNames
<1> QED BY <1>1, StdlibPointers, Zenon DEF Shim

LEMMA ShimJemalloc ==
  ASSUME NEW name \in JemallocNames
  PROVE  \E fn \in Functions : Shim(name) = Frame("jemalloc", fn)
<1>1. /\ name \in DOMAIN JemallocExports /\ name /= "calloc"
      /\ name \notin StdlibExports
  BY JemallocPointers, StdlibPointers DEF JemallocNames
<1>2. Shim(name) = Through("jemalloc", JemallocExports[name])
  BY <1>1, Zenon DEF Shim
<1>3. JemallocExports[name] \in Processed["jemalloc"] \cap KeptByMain["jemalloc"]
  BY JemallocPointers
<1>4. JemallocExports[name] \in Functions
  BY <1>3 DEF Functions
<1> QED BY <1>2, <1>3, <1>4 DEF Through

LEMMA ShimStdlib ==
  ASSUME NEW name \in StdlibExports
  PROVE  Shim(name) = Frame("stdlib", name)
<1>1. /\ name \notin DOMAIN JemallocExports /\ name /= "calloc"
      /\ name \in Processed["stdlib"] \cap KeptByMain["stdlib"]
  BY JemallocPointers, StdlibPointers
<1>2. Shim(name) = Through("stdlib", name)
  BY <1>1, Zenon DEF Shim
<1> QED BY <1>1, <1>2 DEF Through

(* A name in the extracted code means a function of the program, of        *)
(* jemalloc or of stdlib: refine.py prefixes no other.                     *)
LEMMA ExtractedNames ==
  ASSUME NEW name \in static_symbols \cup Dummies
  PROVE  \E lib \in {"program", "jemalloc", "stdlib"}, fn \in Functions :
           ExtractedName(name) = Frame(lib, fn)
<1>1. static_symbols \subseteq JemallocNames \cup StdlibExports \cup {"calloc"}
  BY DEF static_symbols, JemallocNames, StdlibExports, StringExports, ZlibExports
<1>2. StdlibExports \subseteq Functions
  BY StdlibPointers DEF Functions
<1>3. CASE name \notin static_symbols
  BY <1>3 DEF ExtractedName, Functions
<1>4. CASE name \in static_symbols
  <2>1. ExtractedName(name) = Shim(name)
    BY <1>4 DEF ExtractedName
  <2>2. CASE name \in JemallocNames
    BY <2>1, <2>2, ShimJemalloc
  <2>3. CASE name \in StdlibExports
    BY <1>2, <2>1, <2>3, ShimStdlib
  <2>4. CASE name = "calloc"
    BY <2>1, <2>4, ShimCalloc DEF Functions
  <2> QED BY <1>1, <1>4, <2>2, <2>3, <2>4
<1> QED BY <1>3, <1>4

(* A name jemalloc imports means a function that calls only such again.    *)
LEMMA JemallocImports ==
  ASSUME NEW name \in JemallocAnswers \cup JemallocSystem \cup JemallocStubs
                        \cup StringExports
  PROVE  \E lib \in {"program", "stdlib"}, fn \in Functions :
           /\ ImportOf("jemalloc", name) = Frame(lib, fn)
           /\ Leaf(Frame(lib, fn))
<1>1. /\ JemallocStubs \cap (JemallocAnswers \cup JemallocSystem) = {}
      /\ JemallocAnswers \cap JemallocSystem = {}
      /\ StringExports \cap
           (JemallocStubs \cup JemallocAnswers \cup JemallocSystem) = {}
  BY DEF JemallocStubs, JemallocAnswers, JemallocSystem, StringExports
<1>2. CASE name \in JemallocStubs
  <2>0. name \notin JemallocAnswers /\ name \notin JemallocSystem
    BY <1>1, <1>2
  <2>1. ImportOf("jemalloc", name) = Frame("program", "stub")
    BY <1>2, <2>0, Zenon DEF ImportOf
  <2> QED BY <2>1 DEF Leaf, Frame, Functions
<1>3. CASE name \in JemallocAnswers
  <2>1. name \notin JemallocStubs /\ name \notin JemallocSystem
    BY <1>1, <1>3
  <2>2. ImportOf("jemalloc", name) = Frame("program", "answer")
    BY <1>3, <2>1, Zenon DEF ImportOf
  <2> QED BY <2>2 DEF Leaf, Frame, Functions
<1>4. CASE name \in JemallocSystem
  <2>1. name \notin JemallocStubs /\ name \notin JemallocAnswers
    BY <1>1, <1>4
  <2>2. ImportOf("jemalloc", name) = Frame("program", "system")
    BY <1>4, <2>1, Zenon DEF ImportOf
  <2> QED BY <2>2 DEF Leaf, Frame, Functions
<1>5. CASE name \in StringExports
  <2>1. /\ name \notin JemallocStubs /\ name \notin JemallocAnswers
        /\ name \notin JemallocSystem
    BY <1>1, <1>5
  <2>2. ImportOf("jemalloc", name) = Shim(name)
    BY <2>1, Zenon DEF ImportOf
  <2>3. name \in StdlibExports /\ name \in Functions
    BY <1>5, StdlibPointers DEF StdlibExports, Functions
  <2> QED BY <1>5, <2>2, <2>3, ShimStdlib DEF Leaf, Frame
<1> QED BY <1>2, <1>3, <1>4, <1>5

(* A name stdlib imports means a stub, or the free of jemalloc.            *)
LEMMA StdlibImports ==
  /\ \A name \in StdlibStubs :
       ImportOf("stdlib", name) = Frame("program", "stub")
  /\ \E fn \in Functions : ImportOf("stdlib", "free") = Frame("jemalloc", fn)
<1>0. "stdlib" /= "jemalloc"
  OBVIOUS
<1>1. ASSUME NEW name \in StdlibStubs
      PROVE  ImportOf("stdlib", name) = Frame("program", "stub")
  BY <1>0, Zenon DEF ImportOf
<1>2. "free" \notin StdlibStubs /\ "free" \in JemallocNames
  BY DEF StdlibStubs, JemallocNames
<1>3. ImportOf("stdlib", "free") = Shim("free")
  BY <1>0, <1>2, Zenon DEF ImportOf
<1> QED BY <1>1, <1>2, <1>3, ShimJemalloc

-----------------------------------------------------------------------------
(* The inductive invariant.                                                *)

Frames == [in : Regions, fn : Functions]

(* Above jemalloc, and above what it calls, there are only leaves.         *)
LeavesAbove ==
  \A j, k \in DOMAIN stack : j < k /\ Calm(stack[j]) => Leaf(stack[k])

(* Until both libraries are placed nothing runs but the program's fprintf. *)
BootCalls == placed /= Libs => \A k \in DOMAIN stack : Booting(stack[k])

IInv == /\ stack \in Seq(Frames) /\ placed \subseteq Libs
        /\ status \in {"booting", "running", "exited"}
        /\ status = "running" => placed = Libs
        /\ LeavesAbove /\ BootCalls

(* Which frame may be entered.                                             *)
MayEnter(frame) ==
  /\ frame \in Frames
  /\ frame.in \in Libs => placed = Libs
  /\ stack /= <<>> /\ Calm(Top) => Leaf(frame)
  /\ placed /= Libs => Booting(frame)

LEMMA EnterStep ==
  ASSUME IInv, NEW frame, MayEnter(frame), Enter(frame)
  PROVE  IInv'
<1>1. /\ stack' = Append(stack, frame)
      /\ UNCHANGED <<build, debug, placed, status>>
  <2>1. frame.in /= "nowhere" /\ frame.in \notin Libs \ placed
    BY DEF MayEnter, Frames, Regions, Libs
  <2> QED BY <2>1 DEF Enter
<1>2. stack \in Seq(Frames) /\ frame \in Frames
  BY DEF IInv, MayEnter
<1> DEFINE n == Len(stack) + 1
<1>3. /\ stack' \in Seq(Frames) /\ DOMAIN stack' = 1..n
      /\ DOMAIN stack = 1..n - 1 /\ n \in Nat \ {0}
      /\ stack'[n] = frame
      /\ \A k \in DOMAIN stack : stack'[k] = stack[k]
  <2> HIDE DEF Frames
  <2> QED BY <1>1, <1>2
<1>4. n > 1 => stack /= <<>> /\ Top = stack[n - 1]
  BY <1>2 DEF Top
<1> HIDE DEF n
<1>5. ASSUME NEW j \in DOMAIN stack', NEW k \in DOMAIN stack', j < k,
             Calm(stack'[j])
      PROVE  Leaf(stack'[k])
  <2>1. j \in DOMAIN stack /\ stack'[j] = stack[j] /\ n > 1
    BY <1>3, <1>5
  <2>2. CASE k \in DOMAIN stack
    BY <1>3, <1>5, <2>1, <2>2 DEF IInv, LeavesAbove
  <2>3. CASE k = n
    <3>1. Calm(stack[n - 1])
      <4>1. CASE j = n - 1
        BY <1>5, <2>1, <4>1
      <4>2. CASE j < n - 1
        <5>1. n - 1 \in DOMAIN stack
          BY <1>3, <2>1
        <5> QED BY <1>5, <2>1, <4>2, <5>1 DEF IInv, LeavesAbove, Calm
      <4> QED BY <1>3, <2>1, <4>1, <4>2
    <3> QED BY <1>3, <1>4, <2>1, <2>3, <3>1 DEF MayEnter
  <2> QED BY <1>3, <2>2, <2>3
<1>6. LeavesAbove'
  BY <1>5 DEF LeavesAbove
<1>7. BootCalls'
  <2> SUFFICES ASSUME placed /= Libs, NEW k \in DOMAIN stack'
               PROVE  Booting(stack'[k])
    BY <1>1 DEF BootCalls
  <2>1. CASE k \in DOMAIN stack
    BY <1>3, <2>1 DEF IInv, BootCalls
  <2>2. CASE k = n
    BY <1>3, <2>2 DEF MayEnter
  <2> QED BY <1>3, <2>1, <2>2
<1> QED BY <1>1, <1>3, <1>6, <1>7 DEF IInv

(* A call from a function that jemalloc does not come to, and that does    *)
(* not run while booting, may go anywhere.                                 *)
LEMMA AnyMayEnter ==
  ASSUME IInv, stack /= <<>>, ~Calm(Top), ~Booting(Top),
         NEW in \in Regions, NEW fn \in Functions
  PROVE  MayEnter(Frame(in, fn))
<1>1. Len(stack) \in DOMAIN stack
  BY DEF IInv
<1>2. placed = Libs
  BY <1>1 DEF IInv, BootCalls, Top
<1>3. Frame(in, fn) \in Frames
  BY DEF Frame, Frames
<1> QED BY <1>2, <1>3 DEF MayEnter

(* A leaf may be entered once everything is placed.                        *)
LEMMA LeafMayEnter ==
  ASSUME IInv, stack /= <<>>, ~Booting(Top),
         NEW in \in Regions, NEW fn \in Functions, Leaf(Frame(in, fn))
  PROVE  MayEnter(Frame(in, fn))
<1>1. Len(stack) \in DOMAIN stack
  BY DEF IInv
<1>2. placed = Libs
  BY <1>1 DEF IInv, BootCalls, Top
<1>3. Frame(in, fn) \in Frames
  BY DEF Frame, Frames
<1> QED BY <1>2, <1>3 DEF MayEnter

LEMMA InitIInv == Init => IInv
BY DEF Init, IInv, LeavesAbove, BootCalls, Libs

LEMMA NextIInv == IInv /\ [Next]_vars => IInv'
<1> SUFFICES ASSUME IInv, [Next]_vars
             PROVE  IInv'
  OBVIOUS
<1>1. CASE Place
  <2>1. placed \subseteq Libs /\ stack = <<>> /\ status = "booting"
    BY <1>1 DEF IInv, Place
  <2>2. IsFiniteSet(placed)
    <3>1. IsFiniteSet({"jemalloc"}) /\ Libs = {"jemalloc"} \cup {"stdlib"}
      BY FS_Singleton DEF Libs
    <3>2. IsFiniteSet(Libs)
      BY <3>1, FS_AddElement
    <3> QED BY <2>1, <3>2, FS_Subset
  <2>3. PICK n \in Nat : n = Cardinality(placed) + 1 /\ n >= 1
    BY <2>2, FS_CardinalityType
  <2>4. n <= Len(Order) /\ placed' = placed \cup {Order[n]}
    BY <1>1, <2>3 DEF Place
  <2>5. Order[n] \in Libs
    <3>1. n = 1 \/ n = 2
      BY <2>3, <2>4 DEF Order
    <3> QED BY <3>1 DEF Order, Libs
  <2>6. UNCHANGED <<build, debug, stack, status>>
    BY <1>1 DEF Place
  <2> QED BY <2>1, <2>4, <2>5, <2>6 DEF IInv, LeavesAbove, BootCalls
<1>2. CASE BootMessage
  <2>1. stack = <<>> /\ Enter(Frame("program", "fprintf"))
    BY <1>2 DEF BootMessage
  <2>2. MayEnter(Frame("program", "fprintf"))
    BY <2>1 DEF MayEnter, Frame, Frames, Functions, Regions, Libs, Booting
  <2> QED BY <2>1, <2>2, EnterStep
<1>3. CASE Booted
  BY <1>3 DEF Booted, IInv, LeavesAbove, BootCalls
<1>4. CASE MainCalls
  <2>1. stack = <<>> /\ placed = Libs
    BY <1>4 DEF MainCalls, IInv
  <2>2. \A in \in Regions, fn \in Functions : MayEnter(Frame(in, fn))
    BY <2>1 DEF MayEnter, Frame, Frames
  <2>3. PICK in \in Regions, fn \in Functions : Enter(Frame(in, fn))
    <3>1. CASE Enter(Frame("extracted", "code"))
      BY <3>1 DEF Regions, Functions
    <3>2. CASE \E name \in {"malloc", "free"} : Enter(Shim(name))
      BY <3>2, ShimJemalloc DEF JemallocNames, Regions, Libs
    <3> QED BY <1>4, <3>1, <3>2 DEF MainCalls
  <2> QED BY <2>2, <2>3, EnterStep
<1>5. CASE ExtractedCalls
  <2>1. stack /= <<>> /\ ~Calm(Top) /\ ~Booting(Top)
    BY <1>5 DEF ExtractedCalls, In, Calm, Leaf, Booting
  <2>2. PICK name \in static_symbols \cup Dummies : Enter(ExtractedName(name))
    BY <1>5 DEF ExtractedCalls
  <2>3. PICK in \in Regions, fn \in Functions : ExtractedName(name) = Frame(in, fn)
    BY ExtractedNames DEF Regions, Libs
  <2>4. MayEnter(Frame(in, fn))
    BY <2>1, AnyMayEnter
  <2> QED BY <2>2, <2>3, <2>4, EnterStep
<1>6. CASE SCalloc
  <2>1. stack /= <<>> /\ ~Calm(Top) /\ ~Booting(Top)
    BY <1>6 DEF SCalloc, InFunction, In, Calm, Leaf, Booting
  <2>2. PICK in \in Regions, fn \in Functions : Enter(Frame(in, fn))
    <3>1. CASE Enter(Shim("calloc0"))
      BY <3>1, ShimJemalloc DEF JemallocNames, Regions, Libs
    <3>2. CASE Enter(Shim("memset"))
      BY <3>2, ShimStdlib, StdlibPointers
         DEF StdlibExports, StringExports, Regions, Libs, Functions
    <3> QED BY <1>6, <3>1, <3>2 DEF SCalloc
  <2>3. MayEnter(Frame(in, fn))
    BY <2>1, AnyMayEnter
  <2> QED BY <2>2, <2>3, EnterStep
<1>7. CASE JemallocCalls
  <2>1. stack /= <<>> /\ ~Booting(Top)
    BY <1>7 DEF JemallocCalls, In, Booting
  <2>2. PICK name \in JemallocAnswers \cup JemallocSystem \cup JemallocStubs
                        \cup StringExports :
          Enter(ImportOf("jemalloc", name))
    BY <1>7 DEF JemallocCalls
  <2>3. PICK in \in Regions, fn \in Functions :
          ImportOf("jemalloc", name) = Frame(in, fn) /\ Leaf(Frame(in, fn))
    BY JemallocImports DEF Regions, Libs
  <2>4. MayEnter(Frame(in, fn))
    BY <2>1, <2>3, LeafMayEnter
  <2> QED BY <2>2, <2>3, <2>4, EnterStep
<1>8. CASE StdlibCalls
  <2>1. stack /= <<>> /\ ~Booting(Top) /\ Top.in = "stdlib"
    BY <1>8 DEF StdlibCalls, In, Booting
  <2>2. CASE Enter(ImportOf("stdlib", "__errno"))
    <3>1. ImportOf("stdlib", "__errno") = Frame("program", "stub")
      BY StdlibImports DEF StdlibStubs
    <3>2. MayEnter(Frame("program", "stub"))
      BY <2>1, LeafMayEnter DEF Leaf, Frame, Regions, Functions
    <3> QED BY <2>2, <3>1, <3>2, EnterStep
  <2>3. CASE Top.fn \notin StringExports /\
             \E name \in StdlibStubs \cup {"free"} :
               Enter(ImportOf("stdlib", name))
    <3>1. ~Calm(Top)
      BY <2>1, <2>3 DEF Calm, Leaf
    <3>2. PICK in \in Regions, fn \in Functions : Enter(Frame(in, fn))
      BY <2>3, StdlibImports DEF Regions, Libs, Functions
    <3>3. MayEnter(Frame(in, fn))
      BY <2>1, <3>1, AnyMayEnter
    <3> QED BY <3>2, <3>3, EnterStep
  <2>4. CASE Top.fn \in ZlibExports /\ Enter(Frame("extracted", "callback"))
    <3>1. Top.fn \notin StringExports
      BY <2>4 DEF ZlibExports, StringExports
    <3>2. ~Calm(Top)
      BY <2>1, <3>1 DEF Calm, Leaf
    <3>3. MayEnter(Frame("extracted", "callback"))
      BY <2>1, <3>2, AnyMayEnter DEF Regions, Functions
    <3> QED BY <2>4, <3>3, EnterStep
  <2> QED BY <1>8, <2>2, <2>3, <2>4 DEF StdlibCalls
<1>9. CASE Message
  <2>1. Enter(Frame("program", "fprintf"))
    BY <1>9 DEF Message, PrinterOf
  <2>2. MayEnter(Frame("program", "fprintf"))
    BY DEF MayEnter, Frame, Frames, Functions, Regions, Libs, Booting, Leaf
  <2> QED BY <2>1, <2>2, EnterStep
<1>10. CASE FprintfCalls
  <2>1. Enter(Frame("program", "answer"))
    BY <1>10 DEF FprintfCalls, MallocOf
  <2>2. MayEnter(Frame("program", "answer"))
    BY DEF MayEnter, Frame, Frames, Functions, Regions, Libs, Booting, Leaf
  <2> QED BY <2>1, <2>2, EnterStep
<1>11. CASE Exit
  BY <1>11 DEF Exit, IInv, LeavesAbove, BootCalls
<1>12. CASE Return
  <2>1. /\ stack \in Seq(Frames) /\ stack /= <<>>
        /\ stack' = SubSeq(stack, 1, Len(stack) - 1)
        /\ UNCHANGED <<build, debug, placed, status>>
    BY <1>12 DEF Return, IInv
  <2>2. /\ stack' \in Seq(Frames) /\ DOMAIN stack' \subseteq DOMAIN stack
        /\ \A k \in DOMAIN stack' : stack'[k] = stack[k]
    <3> HIDE DEF Frames
    <3> QED BY <2>1
  <2> QED BY <2>1, <2>2 DEF IInv, LeavesAbove, BootCalls
<1>13. CASE UNCHANGED vars
  BY <1>13 DEF vars, IInv, LeavesAbove, BootCalls
<1> QED BY <1>1, <1>2, <1>3, <1>4, <1>5, <1>6, <1>7, <1>8, <1>9, <1>10,
           <1>11, <1>12, <1>13 DEF Next

-----------------------------------------------------------------------------

(* Every call lands: no name the extracted code, a library or the program  *)
(* calls means nothing, and no library is called before it is placed.      *)
THEOREM EveryCallLands == Spec => []CallsLand
<1>1. IInv => CallsLand
  BY DEF IInv, CallsLand
<1> QED BY InitIInv, NextIInv, <1>1, PTL DEF Spec

(* jemalloc is not entered while it runs.                                  *)
THEOREM EnteredOnce == Spec => []JemallocNotReentered
<1>1. ASSUME IInv, NEW j \in DOMAIN stack, NEW k \in DOMAIN stack,
             stack[j].in = "jemalloc", stack[k].in = "jemalloc"
      PROVE  j = k
  <2>1. \A a, b \in DOMAIN stack : a < b \/ a = b \/ b < a
    BY <1>1 DEF IInv
  <2>2. ~Leaf(stack[j]) /\ ~Leaf(stack[k])
    BY <1>1 DEF Leaf
  <2>3. Calm(stack[j]) /\ Calm(stack[k])
    BY <1>1 DEF Calm
  <2> QED BY <1>1, <2>1, <2>2, <2>3 DEF IInv, LeavesAbove
<1>2. IInv => JemallocNotReentered
  BY <1>1 DEF JemallocNotReentered
<1> QED BY InitIInv, NextIInv, <1>2, PTL DEF Spec

=============================================================================
