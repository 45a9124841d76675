-------------------------- MODULE Bootstrap_proofs --------------------------
(***************************************************************************)
(* Bootstrapping, for any pair of well-formed libraries, any page size and *)
(* any first program break: both libraries end as linked, the heap of the  *)
(* semihosting build is past them, and only .text is sealed.  The images   *)
(* the scripts deliver are among the well-formed ones, and lead each       *)
(* relocation and each pointer of the headers to its place.  The allocator *)
(* of the semihosting build hands out no byte twice.                       *)
(***************************************************************************)
EXTENDS RelocTable, BootstrapHeap, FiniteSetTheorems, SequenceTheorems,
        TLAPS

-----------------------------------------------------------------------------
(* What the assumption on the images says of one library.                  *)

LEMMA ImageFacts ==
  ASSUME NEW img \in Images, NEW lib \in Libs
  PROVE  LET i == img[lib] IN
         /\ i.start \in Nat /\ i.size \in Nat
         /\ i.rom_start \in Nat /\ i.bin_size \in Nat
         /\ i.text_start \in Nat /\ i.text_size \in Nat /\ i.text_size > 0
         /\ i.bss_start \in Nat /\ i.bss_size \in Nat
         /\ Rom(i) \subseteq Words(i)
         /\ Text(i) \subseteq Words(i)
         /\ Bss(i) \subseteq Words(i)
         /\ Rom(i) \cap Bss(i) = {}
BY ImagesAssumption DEF WellFormed

(* The table ends at its last entry and nowhere before, and every entry    *)
(* before it names a word of its own.                                      *)
LEMMA TableFacts ==
  ASSUME NEW img \in Images, NEW lib \in Libs
  PROVE  LET i == img[lib] IN
         /\ Len(i.relocs) \in Nat \ {0}
         /\ i.relocs[Len(i.relocs)].offset = 0
         /\ \A k \in 1..Len(i.relocs) - 1 :
              /\ i.relocs[k].offset \in Words(i)
              /\ i.relocs[k].offset /= 0
              /\ \A j \in 1..Len(i.relocs) - 1 :
                   i.relocs[j].offset = i.relocs[k].offset => j = k
<1>1. WellFormed(img[lib])
  BY ImagesAssumption
<1> DEFINE i == img[lib]
<1>2. Len(i.relocs) \in Nat \ {0} /\ i.relocs[Len(i.relocs)].offset = 0
  <2>1. i.relocs \in Seq(Entries) /\ Len(i.relocs) > 0
    BY <1>1 DEF WellFormed
  <2>2. Len(i.relocs) \in Nat
    BY <2>1
  <2>3. i.relocs[Len(i.relocs)].offset = 0
    BY <1>1 DEF WellFormed
  <2> QED BY <2>1, <2>2, <2>3
<1>3. \A k \in 1..Len(i.relocs) - 1 :
        /\ i.relocs[k].offset \in Words(i) \ {0}
        /\ \A j \in 1..Len(i.relocs) - 1 :
             i.relocs[j].offset = i.relocs[k].offset => j = k
  BY <1>1 DEF WellFormed
<1> QED BY <1>2, <1>3

-----------------------------------------------------------------------------
(* The shape of the state, in full: mem and prot are functions of the words*)
(* of both regions.                                                        *)

Protections == {"none", "rw", "rx", "rwx"}
Statuses == {"booting", "running", "exited", "fault", "crashed"}

\* Between the two calls of _sbrk p is where the first one began.
Raising ==
  at.step = "raise" =>
    p \in Nat /\ brk = p + BreakStep /\ p < HEAP_START - BreakStep

Control ==
  /\ build \in Builds
  /\ image \in Images
  /\ at.lib \in Libs /\ at.step \in Steps
  /\ at = [lib |-> at.lib, step |-> at.step]
  /\ entry \in Nat
  /\ at.step = "relocate" => entry \in 1..Len(im.relocs)
  /\ brk \in Nat
  /\ p \in Nat \cup {MINUS_ONE}
  /\ refused \in BOOLEAN
  /\ status \in Statuses
  /\ Raising

MemShape ==
  mem = [lib \in Libs |-> [w \in Words(image[lib]) |-> mem[lib][w]]]

ProtDomain ==
  prot = [lib \in Libs |-> [w \in Words(image[lib]) |-> prot[lib][w]]]
ProtRange ==
  \A lib \in Libs : \A w \in Words(image[lib]) : prot[lib][w] \in Protections
ProtShape == ProtDomain /\ ProtRange

Shape == Control /\ MemShape /\ ProtShape

LEMMA ShapeInit == Init => Shape
<1> SUFFICES ASSUME Init PROVE Shape
  OBVIOUS
<1>1. Control
  BY SizesAssumption
     DEF Init, Control, Builds, Libs, Steps, Statuses, Raising
<1>2. MemShape
  BY DEF Init, MemShape
<1>3. ProtShape
  BY DEF Init, ProtShape, ProtDomain, ProtRange, Protections
<1> QED BY <1>1, <1>2, <1>3 DEF Shape

LEMMA ControlStep == Control /\ [Next]_vars => Control'
<1> SUFFICES ASSUME Control, [Next]_vars PROVE Control'
  OBVIOUS
<1> USE DEF Control, im, At, Step, Steps, Statuses, Libs, brkVars, Raising
<1>0. brk \in Nat /\ HEAP_START \in Nat /\ BreakStep \in Nat
  BY SizesAssumption
<1>1. CASE FirstSbrk
  <2>1. /\ UNCHANGED <<build, image, entry, status>> /\ at'.lib = at.lib
        /\ at'.step \in {"raise", "map"} /\ refused' \in BOOLEAN
        /\ at' = [lib |-> at'.lib, step |-> at'.step]
    BY <1>1 DEF FirstSbrk
  <2>2. /\ brk' \in Nat /\ p' \in Nat \cup {MINUS_ONE}
        /\ at'.step = "raise" =>
             p' \in Nat /\ brk' = p' + BreakStep /\ p' < HEAP_START - BreakStep
    BY <1>0, <1>1 DEF FirstSbrk
  <2> QED BY <2>1, <2>2
<1>s. CASE SecondSbrk
  <2>1. brk + Rest \in Nat
    BY <1>0, <1>s DEF SecondSbrk, Rest
  <2>2. brk' \in Nat
    BY <1>s, <2>1 DEF SecondSbrk
  <2> QED BY <1>s, <2>2 DEF SecondSbrk
<1>2. CASE Map
  BY <1>2 DEF Map
<1>3. CASE CopyRom
  BY <1>3 DEF CopyRom
<1>4. CASE ClearBss
  BY <1>4 DEF ClearBss
<1>5. CASE Protect
  <2>1. Len(im.relocs) \in Nat \ {0}
    BY TableFacts
  <2> QED BY <1>5, <2>1 DEF Protect
<1>6. CASE Relocate
  <2>1. entry \in 1..Len(im.relocs) /\ im.relocs[entry].offset /= 0
    BY <1>6 DEF Relocate, AtEnd
  <2>2. /\ Len(im.relocs) \in Nat \ {0}
        /\ im.relocs[Len(im.relocs)].offset = 0
    BY TableFacts
  <2>3. entry + 1 \in 1..Len(im.relocs)
    BY <2>1, <2>2
  <2> QED BY <1>6, <2>1, <2>3 DEF Relocate, NextEntry
<1>7. CASE Relocation
  BY <1>7 DEF Relocation
<1>8. ASSUME NEW lib \in Libs, Call(lib) PROVE Control'
  BY <1>8 DEF Call
<1>9. CASE UNCHANGED vars
  BY <1>9 DEF vars
<1> QED BY <1>1, <1>s, <1>2, <1>3, <1>4, <1>5, <1>6, <1>7, <1>8, <1>9
        DEF Next, Boot

LEMMA MemShapeStep == Control /\ MemShape /\ [Next]_vars => MemShape'
<1> SUFFICES ASSUME Control, MemShape, [Next]_vars PROVE MemShape'
  OBVIOUS
<1>1. ASSUME UNCHANGED <<image, mem>> PROVE MemShape'
  BY <1>1 DEF MemShape
<1>2. ASSUME NEW f, image' = image, mem' = [mem EXCEPT ![at.lib] = f],
             f = [w \in Words(im) |-> f[w]]
      PROVE  MemShape'
  BY <1>2 DEF MemShape, Control, im
<1>3. CASE Map
  <2>1. CASE UNCHANGED mem
    BY <1>1, <1>3, <2>1 DEF Map
  <2>2. CASE mem' = [mem EXCEPT ![at.lib] = [w \in Words(im) |-> Zero]]
    BY <1>2, <1>3, <2>2 DEF Map
  <2> QED BY <1>3, <2>1, <2>2 DEF Map
<1>4. CASE CopyRom
  BY <1>2, <1>4 DEF CopyRom
<1>5. CASE ClearBss
  BY <1>2, <1>5 DEF ClearBss
<1>6. CASE Relocate
  <2> DEFINE e == im.relocs[entry]
  <2>1. CASE UNCHANGED mem
    BY <1>1, <1>6, <2>1 DEF Relocate
  <2>2. CASE mem' = [mem EXCEPT ![at.lib][e.offset] = Relocated(im, e)]
    <3> DEFINE f == [mem[at.lib] EXCEPT ![e.offset] = Relocated(im, e)]
    <3>1. mem' = [mem EXCEPT ![at.lib] = f]
      BY <2>2
    <3>2. mem[at.lib] = [w \in Words(im) |-> mem[at.lib][w]]
      BY DEF MemShape, Control, im
    <3>3. f = [w \in Words(im) |-> f[w]]
      BY <3>2
    <3>4. image' = image
      BY <1>6 DEF Relocate
    <3> HIDE DEF f
    <3> QED BY <1>2, <3>1, <3>3, <3>4
  <2> QED BY <1>6, <2>1, <2>2 DEF Relocate
<1>7. ASSUME FirstSbrk \/ SecondSbrk \/ Protect \/ Relocation
             \/ UNCHANGED vars
      PROVE  MemShape'
  BY <1>1, <1>7 DEF FirstSbrk, SecondSbrk, Protect, Relocation, vars
<1>8. ASSUME NEW lib \in Libs, Call(lib) PROVE MemShape'
  BY <1>1, <1>8 DEF Call
<1> QED BY <1>3, <1>4, <1>5, <1>6, <1>7, <1>8 DEF Next, Boot

LEMMA ProtShapeStep == Control /\ ProtShape /\ [Next]_vars => ProtShape'
<1> SUFFICES ASSUME Control, ProtShape, [Next]_vars PROVE ProtShape'
  OBVIOUS
<1>1. ASSUME UNCHANGED <<image, prot>> PROVE ProtShape'
  BY <1>1 DEF ProtShape, ProtDomain, ProtRange
<1>2. ASSUME NEW f, image' = image, prot' = [prot EXCEPT ![at.lib] = f],
             f = [w \in Words(im) |-> f[w]],
             \A w \in Words(im) : f[w] \in Protections
      PROVE  ProtShape'
  <2>1. /\ prot = [lib \in Libs |-> [w \in Words(image[lib]) |-> prot[lib][w]]]
        /\ at.lib \in Libs /\ im = image[at.lib]
    BY DEF ProtShape, ProtDomain, ProtRange, Control, im
  <2>2. /\ prot'[at.lib] = f
        /\ \A lib \in Libs : lib /= at.lib => prot'[lib] = prot[lib]
    BY <1>2, <2>1
  <2>3. prot' = [lib \in Libs |-> [w \in Words(image'[lib]) |-> prot'[lib][w]]]
    BY <1>2, <2>1
  <2>4. ASSUME NEW lib \in Libs, NEW w \in Words(image'[lib])
        PROVE  prot'[lib][w] \in Protections
    <3>1. CASE lib = at.lib
      BY <1>2, <2>1, <2>2, <3>1
    <3>2. CASE lib /= at.lib
      BY <1>2, <2>2, <3>2 DEF ProtShape, ProtDomain, ProtRange
    <3> QED BY <3>1, <3>2
  <2>5. ProtDomain'
    BY <2>3 DEF ProtDomain
  <2>6. ProtRange'
    BY <2>4 DEF ProtRange
  <2> QED BY <2>5, <2>6 DEF ProtShape
<1>3. CASE Map
  <2>1. CASE UNCHANGED prot
    BY <1>1, <1>3, <2>1 DEF Map
  <2> DEFINE f == [w \in Words(im) |-> "rw"]
  <2>2. CASE prot' = [prot EXCEPT ![at.lib] = f]
    <3>1. /\ \A w \in Words(im) : f[w] \in Protections
          /\ f = [w \in Words(im) |-> f[w]]
          /\ image' = image
      BY <1>3 DEF Map, Protections
    <3> HIDE DEF f
    <3> QED BY <1>2, <2>2, <3>1
  <2> QED BY <1>3, <2>1, <2>2 DEF Map
<1>4. CASE Protect
  <2>1. CASE UNCHANGED prot
    BY <1>1, <1>4, <2>1 DEF Protect
  <2> DEFINE f == [w \in Words(im) |-> IF w \in TextPages(im) THEN "rx"
                                                          ELSE prot[at.lib][w]]
  <2>2. CASE prot' = [prot EXCEPT ![at.lib] = f]
    <3>1. \A w \in Words(im) : f[w] \in Protections
      BY DEF ProtShape, ProtDomain, ProtRange, Control, Protections, im
    <3>2. f = [w \in Words(im) |-> f[w]] /\ image' = image
      BY <1>4 DEF Protect
    <3> HIDE DEF f
    <3> QED BY <1>2, <2>2, <3>1, <3>2
  <2> QED BY <1>4, <2>1, <2>2 DEF Protect
<1>5. ASSUME FirstSbrk \/ SecondSbrk \/ CopyRom \/ ClearBss \/ Relocate
             \/ Relocation \/ UNCHANGED vars
      PROVE  ProtShape'
  BY <1>1, <1>5 DEF FirstSbrk, SecondSbrk, CopyRom, ClearBss, Relocate,
                    Relocation, vars
<1>6. ASSUME NEW lib \in Libs, Call(lib) PROVE ProtShape'
  BY <1>1, <1>6 DEF Call
<1> QED BY <1>3, <1>4, <1>5, <1>6 DEF Next, Boot

(* The state keeps its shape.                                              *)
THEOREM ShapeInvariance == Spec => []Shape
<1>1. Shape /\ [Next]_vars => Shape'
  BY ControlStep, MemShapeStep, ProtShapeStep DEF Shape
<1> QED BY ShapeInit, <1>1, PTL DEF Spec

(* do_reloc's e never passes the end of its table, and the rest of TypeOK. *)
THEOREM BootTypes == Spec => []TypeOK
<1>1. Shape => TypeOK
  <2> SUFFICES ASSUME Shape PROVE TypeOK
    OBVIOUS
  <2>1. \A lib \in Libs : DOMAIN mem[lib] = Words(image[lib])
    BY DEF Shape, MemShape
  <2>2. ASSUME NEW lib \in Libs
        PROVE  prot[lib] \in [Words(image[lib]) -> {"none", "rw", "rx", "rwx"}]
    BY DEF Shape, ProtShape, ProtDomain, ProtRange, Protections
  <2>3. at \in [lib : Libs, step : Steps]
    BY DEF Shape, Control
  <2> QED BY <2>1, <2>2, <2>3 DEF TypeOK, Shape, Control, Statuses
<1> QED BY <1>1, ShapeInvariance, PTL

-----------------------------------------------------------------------------
(* The heap of the semihosting build.                                      *)

BreakRaised ==
  build = "semihosting" /\ at.step \notin {"break", "raise"} =>
    /\ refused \/ brk >= HEAP_START
    /\ p >= HEAP_START => brk >= HEAP_START

LEMMA BreakStepKept == Shape /\ BreakRaised /\ [Next]_vars => BreakRaised'
<1> SUFFICES ASSUME Shape, BreakRaised, [Next]_vars PROVE BreakRaised'
  OBVIOUS
<1> USE DEF BreakRaised, At, Step, brkVars
<1>0. /\ brk \in Nat /\ HEAP_START \in Nat /\ BreakStep \in Nat
      /\ at = [lib |-> at.lib, step |-> at.step]
  BY SizesAssumption DEF Shape, Control
<1>1. CASE FirstSbrk
  <2>1. CASE refused' = TRUE /\ p' = MINUS_ONE
    BY <1>0, <2>1 DEF MINUS_ONE
  <2>2. CASE brk' = brk + BreakStep /\ p' = brk
    <3>1. CASE brk < HEAP_START - BreakStep
      <4>1. at'.step = "raise"
        BY <1>0, <1>1, <2>2, <3>1 DEF FirstSbrk, MINUS_ONE
      <4> QED BY <4>1
    <3>2. CASE ~(brk < HEAP_START - BreakStep)
      <4>1. brk' >= HEAP_START
        BY <1>0, <2>2, <3>2
      <4> QED BY <4>1
    <3> QED BY <3>1, <3>2
  <2> QED BY <1>1, <2>1, <2>2 DEF FirstSbrk
<1>s. CASE SecondSbrk
  <2>1. p \in Nat /\ brk = p + BreakStep
    BY <1>s DEF SecondSbrk, Shape, Control, Raising
  <2>2. brk + Rest = HEAP_START
    BY <1>0, <2>1 DEF Rest
  <2>3. refused' = TRUE \/ brk' = HEAP_START
    BY <1>s, <2>2 DEF SecondSbrk
  <2>4. p' = brk'
    BY <1>s DEF SecondSbrk
  <2> QED BY <1>0, <2>3, <2>4
<1>2. CASE Map \/ CopyRom \/ ClearBss \/ Protect \/ Relocate
  <2>1. at.step \notin {"break", "raise"}
    BY <1>2 DEF Map, CopyRom, ClearBss, Protect, Relocate
  <2>2. UNCHANGED <<build, brk, p, refused>>
    BY <1>2 DEF Map, CopyRom, ClearBss, Protect, Relocate
  <2> QED BY <2>1, <2>2
<1>3. CASE Relocation
  BY <1>3 DEF Relocation
<1>4. ASSUME NEW lib \in Libs, Call(lib) PROVE BreakRaised'
  BY <1>4 DEF Call
<1>5. CASE UNCHANGED vars
  BY <1>5 DEF vars
<1> QED BY <1>1, <1>s, <1>2, <1>3, <1>4, <1>5 DEF Next, Boot

(* Whatever break the program starts with, the heap that grows from it     *)
(* begins past both libraries before the first of them is placed, unless   *)
(* an _sbrk was refused, and then bootstrap prints no address from         *)
(* HEAP_START on.                                                          *)
THEOREM HeapIsPast == Spec => []HeapPastLibraries
<1>1. Init => BreakRaised
  BY DEF Init, BreakRaised, Builds
<1>2. Shape /\ BreakRaised => HeapPastLibraries
  <2> SUFFICES ASSUME Shape, BreakRaised PROVE HeapPastLibraries
    OBVIOUS
  <2>1. ASSUME brk >= HEAP_START, NEW lib \in Libs
        PROVE  image[lib].start + image[lib].size <= brk
    <3>1. image \in Images /\ brk \in Nat
      BY DEF Shape, Control
    <3>2. image[lib].start \in Nat /\ image[lib].size \in Nat
      BY <3>1, ImageFacts
    <3>3. image[lib].start + image[lib].size <= HEAP_START
      BY <3>1, RegionsBelowHeap
    <3> QED BY <2>1, <3>1, <3>2, <3>3, SizesAssumption
  <2>2. brk >= HEAP_START => PastLibraries
    BY <2>1 DEF PastLibraries
  <2> QED BY <2>2 DEF BreakRaised, HeapPastLibraries
<1> QED BY <1>1, <1>2, BreakStepKept, ShapeInvariance, PTL DEF Spec

-----------------------------------------------------------------------------
(* Pages: the rounding of ALIGN and ALIGN_UP.                              *)

LEMMA TimesMonotonic ==
  ASSUME NEW P \in Nat \ {0}, NEW a \in Nat, NEW b \in Nat, a < b
  PROVE  a * P + P <= b * P
<1>1. PICK c \in Nat : b = a + 1 + c
  <2> WITNESS b - a - 1 \in Nat
  <2> QED OBVIOUS
<1>2. b * P = a * P + P + c * P
  BY <1>1, SMT
<1>3. c * P >= 0
  BY SMT
<1>4. a * P \in Nat /\ b * P \in Nat /\ c * P \in Nat
  OBVIOUS
<1> QED BY <1>2, <1>3, <1>4

LEMMA DivBounds ==
  ASSUME NEW P \in Nat \ {0}, NEW a \in Nat
  PROVE  /\ a \div P \in Nat
         /\ (a \div P) * P \in Nat
         /\ (a \div P) * P <= a
         /\ a < (a \div P) * P + P
OBVIOUS

LEMMA DivUnique ==
  ASSUME NEW P \in Nat \ {0}, NEW a \in Nat, NEW q \in Nat,
         q * P <= a, a < q * P + P
  PROVE  a \div P = q
<1> DEFINE r == a \div P
<1>1. r \in Nat /\ r * P \in Nat /\ r * P <= a /\ a < r * P + P
  BY DivBounds
<1>2. q * P \in Nat
  OBVIOUS
<1> HIDE DEF r
<1>3. ~(r < q) /\ ~(q < r)
  BY <1>1, <1>2, TimesMonotonic
<1>4. r = q
  BY <1>1, <1>3
<1> QED BY <1>4 DEF r

(* The pages of .text cover it, and every word on them shares its page with*)
(* a word of .text.                                                        *)
LEMMA TextPagesExact ==
  ASSUME NEW img \in Images, NEW lib \in Libs
  PROVE  LET i == img[lib] IN
         /\ Text(i) \subseteq TextPages(i)
         /\ \A w \in TextPages(i) :
              \E x \in Text(i) : w \div PAGE_SIZE = x \div PAGE_SIZE
<1> DEFINE i == img[lib]
           P == PAGE_SIZE
           ts == i.text_start
           te == i.text_start + i.text_size
           low == (ts \div P) * P
           q == (te - 1) \div P
<1>1. /\ ts \in Nat /\ te \in Nat /\ ts < te /\ P \in Nat \ {0}
      /\ Text(i) = ts..te - 1 /\ Text(i) \subseteq Words(i)
      /\ Words(i) \subseteq Nat
  BY ImageFacts, SizesAssumption DEF Text, Words
<1>2. TextPages(i) = {w \in Words(i) : /\ low <= w
                                       /\ w < ((te + P - 1) \div P) * P}
  BY DEF TextPages, PageStart, PageEnd
<1> HIDE DEF i, P, ts, te
<1>3. /\ ts \div P \in Nat /\ low \in Nat /\ low <= ts /\ ts < low + P
  BY <1>1, DivBounds
<1>4. q \in Nat /\ q * P \in Nat /\ q * P <= te - 1 /\ te - 1 < q * P + P
  <2>1. te - 1 \in Nat
    BY <1>1
  <2> QED BY <1>1, <2>1, DivBounds
<1>5. (te + P - 1) \div P = q + 1 /\ (q + 1) * P = q * P + P
  <2>1. (q + 1) * P = q * P + P
    BY <1>1, <1>4, SMT
  <2>2. te + P - 1 \in Nat /\ q + 1 \in Nat
    BY <1>1, <1>4
  <2>3. (q + 1) * P <= te + P - 1 /\ te + P - 1 < (q + 1) * P + P
    <3> HIDE DEF q
    <3> QED BY <1>1, <1>4, <2>1
  <2> HIDE DEF q
  <2> QED BY <1>1, <2>1, <2>2, <2>3, DivUnique
<1> HIDE DEF q, low
<1>6. TextPages(i) = {w \in Words(i) : low <= w /\ w < q * P + P}
  BY <1>2, <1>5
<1>7. Text(i) \subseteq TextPages(i)
  BY <1>1, <1>3, <1>4, <1>6
<1>8. ASSUME NEW w \in TextPages(i)
      PROVE  \E x \in Text(i) : w \div P = x \div P
  <2>1. w \in Nat /\ low <= w /\ w < q * P + P
    BY <1>1, <1>6
  <2>2. CASE w < ts
    <3>1. ts \div P \in Nat /\ (ts \div P) * P = low
      BY <1>3 DEF low
    <3>2. w < low + P
      BY <1>1, <1>3, <2>1, <2>2
    <3>3. w \div P = ts \div P
      BY <1>1, <2>1, <3>1, <3>2, DivUnique
    <3>4. ts \in Text(i)
      BY <1>1
    <3> QED BY <3>3, <3>4
  <2>3. CASE ts <= w /\ w < te
    <3>1. w \in Text(i)
      BY <1>1, <2>1, <2>3
    <3> QED BY <3>1
  <2>4. CASE te <= w
    <3>1. q * P <= w
      BY <1>1, <1>4, <2>1, <2>4
    <3>2. w \div P = q
      BY <1>1, <1>4, <2>1, <3>1, DivUnique
    <3>3. te - 1 \in Text(i) /\ (te - 1) \div P = q
      BY <1>1 DEF q
    <3> QED BY <3>2, <3>3
  <2> QED BY <1>1, <2>1, <2>2, <2>3, <2>4
<1> QED BY <1>7, <1>8 DEF i, P

-----------------------------------------------------------------------------
(* What the pages allow.                                                   *)

(* In the native build a sealed word lies on the pages of .text, and with  *)
(* one of them all of them are sealed; the semihosting build seals nothing.*)
Sealing ==
  \A lib \in Libs : LET i == image[lib] IN
    IF build = "native"
    THEN /\ \A w \in Words(i) : prot[lib][w] /= "rwx"
         /\ \A w \in Words(i) : prot[lib][w] = "rx" => w \in TextPages(i)
         /\ (\E w \in Words(i) : prot[lib][w] = "rx") =>
              \A w \in TextPages(i) : prot[lib][w] = "rx"
    ELSE \A w \in Words(i) : prot[lib][w] = "rwx"

FaultHasCause == status = "fault" => build = "native" /\ SharesPage(im)

LEMMA SealingStep == Shape /\ Sealing /\ [Next]_vars => Sealing'
<1> SUFFICES ASSUME Shape, Sealing, [Next]_vars PROVE Sealing'
  OBVIOUS
<1>1. ASSUME UNCHANGED <<build, image, prot>> PROVE Sealing'
  BY <1>1 DEF Sealing
<1>2. /\ at.lib \in Libs /\ im = image[at.lib]
      /\ prot = [lib \in Libs |-> prot[lib]]
  BY DEF Shape, Control, ProtShape, ProtDomain, im
<1>3. CASE Map
  <2>1. CASE UNCHANGED prot
    BY <1>1, <1>3, <2>1 DEF Map
  <2> DEFINE f == [w \in Words(im) |-> "rw"]
  <2>2. CASE build = "native" /\ prot' = [prot EXCEPT ![at.lib] = f]
    <3>1. /\ prot'[at.lib] = f
          /\ \A lib \in Libs \ {at.lib} : prot'[lib] = prot[lib]
          /\ UNCHANGED <<build, image>>
      BY <1>2, <1>3, <2>2 DEF Map
    <3>2. \A w \in Words(im) : f[w] = "rw"
      OBVIOUS
    <3> HIDE DEF f
    <3> QED BY <1>2, <2>2, <3>1, <3>2 DEF Sealing
  <2> QED BY <1>3, <2>1, <2>2 DEF Map
<1>4. CASE Protect
  <2>1. CASE UNCHANGED prot
    BY <1>1, <1>4, <2>1 DEF Protect
  <2> DEFINE f == [w \in Words(im) |-> IF w \in TextPages(im) THEN "rx"
                                                          ELSE prot[at.lib][w]]
  <2>2. CASE build = "native" /\ prot' = [prot EXCEPT ![at.lib] = f]
    <3>1. /\ prot'[at.lib] = f
          /\ \A lib \in Libs \ {at.lib} : prot'[lib] = prot[lib]
          /\ UNCHANGED <<build, image>>
      BY <1>2, <1>4, <2>2 DEF Protect
    <3>2. /\ \A w \in Words(im) : w \in TextPages(im) => f[w] = "rx"
          /\ \A w \in Words(im) : w \notin TextPages(im) =>
                                   f[w] = prot[at.lib][w]
          /\ TextPages(im) \subseteq Words(im)
      BY DEF TextPages
    <3> HIDE DEF f
    <3> QED BY <1>2, <2>2, <3>1, <3>2 DEF Sealing
  <2> QED BY <1>4, <2>1, <2>2 DEF Protect
<1>5. ASSUME FirstSbrk \/ SecondSbrk \/ CopyRom \/ ClearBss \/ Relocate
             \/ Relocation \/ UNCHANGED vars
      PROVE  Sealing'
  BY <1>1, <1>5 DEF FirstSbrk, SecondSbrk, CopyRom, ClearBss, Relocate,
                    Relocation, vars
<1>6. ASSUME NEW lib \in Libs, Call(lib) PROVE Sealing'
  BY <1>1, <1>6 DEF Call
<1> QED BY <1>3, <1>4, <1>5, <1>6 DEF Next, Boot

LEMMA FaultStep == Shape /\ Sealing /\ FaultHasCause /\ [Next]_vars
                     => FaultHasCause'
<1> SUFFICES ASSUME Shape, Sealing, FaultHasCause, [Next]_vars
             PROVE  FaultHasCause'
  OBVIOUS
<1>1. CASE Relocate
  <2> DEFINE e == im.relocs[entry]
  <2>1. UNCHANGED <<build, image, at>> /\ status = "booting"
    BY <1>1 DEF Relocate, At
  <2>2. CASE prot[at.lib][e.offset] = "rx"
    <3>1. /\ at.lib \in Libs /\ im = image[at.lib] /\ image \in Images
          /\ entry \in 1..Len(im.relocs) /\ e.offset /= 0
      BY <1>1 DEF Shape, Control, im, Relocate, At, AtEnd
    <3>2. entry \in 1..Len(im.relocs) - 1
      BY <3>1, TableFacts
    <3>3. e.offset \in Targets(im) /\ e.offset \in Words(im)
      BY <3>1, <3>2, TableFacts DEF Targets
    <3>4. build = "native" /\ e.offset \in TextPages(im)
      BY <2>2, <3>1, <3>3 DEF Sealing
    <3>5. SharesPage(im)
      BY <3>1, <3>3, <3>4, TextPagesExact DEF SharesPage
    <3>6. SharesPage(im)'
      BY <2>1, <3>5 DEF SharesPage, Targets, im
    <3> QED BY <2>1, <3>4, <3>6 DEF FaultHasCause
  <2>3. CASE prot[at.lib][e.offset] /= "rx"
    BY <1>1, <2>1, <2>3 DEF Relocate, FaultHasCause
  <2> QED BY <2>2, <2>3
<1>2. CASE FirstSbrk \/ SecondSbrk \/ Map \/ CopyRom \/ ClearBss \/ Protect
           \/ Relocation
  <2>1. status' /= "fault"
    BY <1>2 DEF FirstSbrk, SecondSbrk, Map, CopyRom, ClearBss, Protect,
                Relocation, At
  <2> QED BY <2>1 DEF FaultHasCause
<1>3. ASSUME NEW lib \in Libs, Call(lib) PROVE FaultHasCause'
  BY <1>3 DEF Call, FaultHasCause
<1>4. CASE UNCHANGED vars
  BY <1>4 DEF vars, FaultHasCause, im, SharesPage, Targets
<1> QED BY <1>1, <1>2, <1>3, <1>4 DEF Next, Boot

LEMMA SealingInit == Init => Sealing /\ FaultHasCause
BY DEF Init, Sealing, FaultHasCause, Builds

(* In the native build no page is ever writable and executable, and what   *)
(* mprotect seals is the whole of .text and shares every page with it.     *)
THEOREM SealsText == Spec => []OnlyTextSealed
<1>1. Shape /\ Sealing => OnlyTextSealed
  <2> SUFFICES ASSUME Shape, Sealing, build = "native", NEW lib \in Libs
               PROVE  LET i == image[lib] IN
                 /\ \A w \in Words(i) : prot[lib][w] /= "rwx"
                 /\ \A w \in Words(i) : prot[lib][w] = "rx" =>
                      \E x \in Text(i) : w \div PAGE_SIZE = x \div PAGE_SIZE
                 /\ (\E x \in Text(i) : prot[lib][x] = "rx") =>
                      \A x \in Text(i) : prot[lib][x] = "rx"
    BY DEF OnlyTextSealed
  <2>1. image \in Images
    BY DEF Shape, Control
  <2>2. /\ Text(image[lib]) \subseteq Words(image[lib])
        /\ Text(image[lib]) \subseteq TextPages(image[lib])
        /\ \A w \in TextPages(image[lib]) : \E x \in Text(image[lib]) :
             w \div PAGE_SIZE = x \div PAGE_SIZE
    BY <2>1, ImageFacts, TextPagesExact
  <2>3. ASSUME NEW w \in Words(image[lib])
        PROVE  /\ prot[lib][w] /= "rwx"
               /\ prot[lib][w] = "rx" => w \in TextPages(image[lib])
    BY DEF Sealing
  <2>4. (\E x \in Words(image[lib]) : prot[lib][x] = "rx") =>
          \A x \in TextPages(image[lib]) : prot[lib][x] = "rx"
    BY DEF Sealing
  <2>5. \A w \in Words(image[lib]) : prot[lib][w] = "rx" =>
          \E x \in Text(image[lib]) : w \div PAGE_SIZE = x \div PAGE_SIZE
    BY <2>2, <2>3
  <2>6. (\E x \in Text(image[lib]) : prot[lib][x] = "rx") =>
          \A x \in Text(image[lib]) : prot[lib][x] = "rx"
    BY <2>2, <2>4
  <2> QED BY <2>3, <2>5, <2>6
<1> QED BY <1>1, SealingInit, SealingStep, ShapeInvariance, PTL DEF Spec

(* Bootstrapping faults only if an entry of the table shares a page with   *)
(* .text.                                                                  *)
THEOREM FaultsOnSharedPage == Spec => []BootFaultsOnSharedPage
<1>1. FaultHasCause => BootFaultsOnSharedPage
  BY DEF FaultHasCause, BootFaultsOnSharedPage
<1> QED BY <1>1, SealingInit, SealingStep, FaultStep, ShapeInvariance, PTL
        DEF Spec

-----------------------------------------------------------------------------
(* The contents of the regions, step by step.                              *)

OneRomStart == image["stdlib"].rom_start = ROM_START

\* A word of a region nothing was copied to.
Blank == IF build = "native" THEN Zero ELSE Junk

\* The region of lib before memcpy, before memset, before do_reloc, and when
\* do_reloc is at entry k.
Mapped(lib) == \A w \in Words(image[lib]) : mem[lib][w] = Blank
Copied(lib) ==
  LET i == image[lib] IN
  \A w \in Words(i) :
    mem[lib][w] = IF w \in Rom(i) THEN Bin(w - i.rom_start) ELSE Blank
AllLinked(lib) ==
  \A w \in Words(image[lib]) : mem[lib][w] = Linked(image[lib], w)
RelocatedTill(lib, k) ==
  LET i == image[lib] IN
  /\ \A j \in 1..Len(i.relocs) - 1 :
       j < k => mem[lib][i.relocs[j].offset] = Resolved(i, i.relocs[j])
  /\ \A w \in Words(i) \ Targets(i) : mem[lib][w] = Linked(i, w)

Untouched(lib) == build = "semihosting" => Mapped(lib)

Placing ==
  /\ at.step \in {"break", "raise", "map"} => Untouched(at.lib)
  /\ at.step = "copy" => Mapped(at.lib)
  /\ at.step = "bss" => Copied(at.lib)
  /\ at.step = "protect" => AllLinked(at.lib)
  /\ at.step = "relocate" => RelocatedTill(at.lib, entry)

Placed(lib) == RelocatedTill(lib, Len(image[lib].relocs))

Contents ==
  OneRomStart =>
    /\ Placing
    /\ at.lib = "jemalloc" => Untouched("stdlib")
    /\ at.lib = "stdlib" => Placed("jemalloc")
    /\ status = "running" => Placed("jemalloc") /\ Placed("stdlib")

(* What a step does to the region of the library being placed decides what *)
(* is known of it; the other region is left alone.                         *)
LEMMA OtherRegion ==
  ASSUME UNCHANGED <<build, image>>, NEW lib \in Libs, mem'[lib] = mem[lib]
  PROVE  /\ Untouched(lib) => Untouched(lib)'
         /\ Placed(lib) => Placed(lib)'
BY DEF Untouched, Mapped, Blank, Placed, RelocatedTill, Resolved, Linked

LEMMA ContentsInit == Init => Contents
BY DEF Init, Contents, Placing, Untouched, Mapped, Blank, Builds, Libs

(* The five steps of reloc() that change a region or move on to the next   *)
(* step of the same library.                                               *)
Inside == /\ UNCHANGED <<build, image>>
          /\ at'.lib = at.lib
          /\ \A lib \in Libs \ {at.lib} : mem'[lib] = mem[lib]
          /\ status' /= "running"

LEMMA InsideKeeps ==
  ASSUME Control, Contents, Inside, OneRomStart => Placing'
  PROVE  Contents'
<1>1. Libs = {"jemalloc", "stdlib"} /\ at.lib \in Libs
  BY DEF Libs, Control
<1>2. OneRomStart' => OneRomStart
  BY DEF Inside, OneRomStart, ROM_START
<1>3. ASSUME OneRomStart, at.lib = "jemalloc" PROVE Untouched("stdlib")'
  <2>1. Untouched("stdlib")
    BY <1>3 DEF Contents
  <2> QED BY <1>1, <1>3, <2>1, OtherRegion DEF Inside
<1>4. ASSUME OneRomStart, at.lib = "stdlib" PROVE Placed("jemalloc")'
  <2>1. Placed("jemalloc")
    BY <1>4 DEF Contents
  <2> QED BY <1>1, <1>4, <2>1, OtherRegion DEF Inside
<1> QED BY <1>2, <1>3, <1>4 DEF Contents, Inside

(* An update of the placed region leaves the other one alone.              *)
LEMMA RegionUpdate ==
  ASSUME Control, MemShape, NEW f, mem' = [mem EXCEPT ![at.lib] = f]
  PROVE  /\ mem'[at.lib] = f
         /\ \A lib \in Libs \ {at.lib} : mem'[lib] = mem[lib]
BY DEF Control, MemShape

LEMMA SbrkContents ==
  ASSUME Control, Contents, FirstSbrk \/ SecondSbrk
  PROVE  Contents'
<1>1. Inside
  BY DEF FirstSbrk, SecondSbrk, Inside, Step, At, Control
<1>2. ASSUME OneRomStart PROVE Placing'
  <2>1. /\ Untouched(at.lib) /\ at'.lib = at.lib
        /\ at'.step \in {"raise", "map"}
    BY <1>2 DEF FirstSbrk, SecondSbrk, At, Step, Contents, Placing, Control
  <2>2. Untouched(at.lib)'
    BY <2>1 DEF FirstSbrk, SecondSbrk, Untouched, Mapped, Blank
  <2> QED BY <2>1, <2>2 DEF Placing
<1> QED BY <1>1, <1>2, InsideKeeps

LEMMA MapContents ==
  ASSUME Control, MemShape, Contents, Map
  PROVE  Contents'
<1> DEFINE f == [w \in Words(im) |-> Zero]
<1>1. CASE UNCHANGED <<at, mem>>
  <2>1. Inside
    BY <1>1 DEF Map, Inside, At
  <2>2. ASSUME OneRomStart PROVE Placing'
    <3>1. Untouched(at.lib) /\ at.step = "map"
      BY <2>2 DEF Map, At, Contents, Placing
    <3>2. Untouched(at.lib)'
      BY <1>1, <3>1 DEF Map, Untouched, Mapped, Blank
    <3> QED BY <1>1, <3>1, <3>2 DEF Placing
  <2> QED BY <2>1, <2>2, InsideKeeps
<1>2. CASE Step("copy") /\ build = "native" /\ mem' = [mem EXCEPT ![at.lib] = f]
  <2>1. /\ mem'[at.lib] = f
        /\ \A lib \in Libs \ {at.lib} : mem'[lib] = mem[lib]
    <3> HIDE DEF f
    <3> QED BY <1>2, RegionUpdate
  <2>2. at'.lib = at.lib /\ at'.step = "copy"
    BY <1>2 DEF Step, Control
  <2>3. UNCHANGED <<build, image>> /\ status' /= "running" /\ im = image[at.lib]
    BY <1>2 DEF Map, Step, At, im
  <2>4. Inside
    BY <2>1, <2>2, <2>3 DEF Inside
  <2>5. Mapped(at.lib)'
    BY <1>2, <2>1, <2>2, <2>3 DEF Mapped, Blank
  <2>6. Placing'
    BY <2>2, <2>5 DEF Placing
  <2> QED BY <2>4, <2>6, InsideKeeps
<1>3. CASE Step("copy") /\ build /= "native" /\ UNCHANGED mem
  <2>1. at'.lib = at.lib /\ at'.step = "copy"
    BY <1>3 DEF Step, Control
  <2>2. Inside
    BY <1>3, <2>1 DEF Map, Inside, At
  <2>3. ASSUME OneRomStart PROVE Placing'
    <3>1. Mapped(at.lib)
      BY <1>3, <2>3 DEF Map, At, Contents, Placing, Untouched, Control, Builds
    <3>2. Mapped(at.lib)'
      BY <1>3, <2>1, <3>1 DEF Map, Mapped, Blank
    <3> QED BY <2>1, <3>2 DEF Placing
  <2> QED BY <2>2, <2>3, InsideKeeps
<1> QED BY <1>1, <1>2, <1>3 DEF Map

LEMMA CopyRomContents ==
  ASSUME Control, MemShape, Contents, CopyRom
  PROVE  Contents'
<1> DEFINE f == [w \in Words(im) |-> IF w - ROM_START \in 0..im.bin_size - 1
                                     THEN Bin(w - ROM_START)
                                     ELSE mem[at.lib][w]]
<1>1. mem' = [mem EXCEPT ![at.lib] = f]
  BY DEF CopyRom
<1>2. /\ mem'[at.lib] = f
      /\ \A lib \in Libs \ {at.lib} : mem'[lib] = mem[lib]
  <2> HIDE DEF f
  <2> QED BY <1>1, RegionUpdate
<1>3. at'.lib = at.lib /\ at'.step = "bss"
  BY DEF CopyRom, Step, Control
<1>4. Inside
  BY <1>2, <1>3 DEF CopyRom, Inside, At
<1>5. ASSUME OneRomStart PROVE Placing'
  <2>1. /\ Mapped(at.lib) /\ im = image[at.lib]
        /\ at.lib \in Libs /\ image \in Images
    BY <1>5 DEF CopyRom, At, Contents, Placing, Control, im
  <2>2. im.rom_start = ROM_START
    BY <1>5, <2>1 DEF OneRomStart, ROM_START, Libs
  <2>3. im.rom_start \in Nat /\ im.bin_size \in Nat /\ im.size \in Nat
    BY <2>1, ImageFacts
  <2>4. \A w \in Words(im) :
          w - ROM_START \in 0..im.bin_size - 1 <=> w \in Rom(im)
    BY <2>2, <2>3 DEF Words, Rom
  <2>5. \A w \in Words(im) :
          f[w] = IF w \in Rom(im) THEN Bin(w - im.rom_start) ELSE Blank
    BY <2>1, <2>2, <2>4 DEF Mapped
  <2> HIDE DEF f
  <2>6. Copied(at.lib)'
    BY <1>2, <1>3, <2>1, <2>5 DEF CopyRom, Copied, Blank
  <2> QED BY <1>3, <2>6 DEF Placing
<1> QED BY <1>4, <1>5, InsideKeeps

LEMMA ClearBssContents ==
  ASSUME Control, MemShape, Contents, ClearBss
  PROVE  Contents'
<1> DEFINE f == [w \in Words(im) |-> IF w \in Bss(im) THEN Zero
                                                     ELSE mem[at.lib][w]]
<1>1. mem' = [mem EXCEPT ![at.lib] = f]
  BY DEF ClearBss
<1>2. /\ mem'[at.lib] = f
      /\ \A lib \in Libs \ {at.lib} : mem'[lib] = mem[lib]
  <2> HIDE DEF f
  <2> QED BY <1>1, RegionUpdate
<1>3. at'.lib = at.lib /\ at'.step = "protect"
  BY DEF ClearBss, Step, Control
<1>4. Inside
  BY <1>2, <1>3 DEF ClearBss, Inside, At
<1>5. ASSUME OneRomStart PROVE Placing'
  <2>1. /\ Copied(at.lib) /\ im = image[at.lib]
        /\ at.lib \in Libs /\ image \in Images
    BY <1>5 DEF ClearBss, At, Contents, Placing, Control, im
  <2>2. Rom(im) \cap Bss(im) = {}
    BY <2>1, ImageFacts
  <2>3. \A w \in Words(im) : f[w] = Linked(im, w)
    BY <2>1, <2>2 DEF Copied, Linked, Blank
  <2> HIDE DEF f
  <2>4. AllLinked(at.lib)'
    BY <1>2, <1>3, <2>1, <2>3 DEF ClearBss, AllLinked, Linked
  <2> QED BY <1>3, <2>4 DEF Placing
<1> QED BY <1>4, <1>5, InsideKeeps

LEMMA ProtectContents ==
  ASSUME Control, Contents, Protect
  PROVE  Contents'
<1>1. at'.lib = at.lib /\ at'.step = "relocate" /\ entry' = 1
  BY DEF Protect, Step, Control
<1>2. Inside
  BY <1>1 DEF Protect, Inside, At
<1>3. ASSUME OneRomStart PROVE Placing'
  <2>1. AllLinked(at.lib) /\ at.lib \in Libs /\ image \in Images
    BY <1>3 DEF Protect, At, Contents, Placing, Control
  <2>2. UNCHANGED <<build, image, mem>>
    BY DEF Protect
  <2>3. Len(image[at.lib].relocs) \in Nat
    BY <2>1, TableFacts
  <2>4. RelocatedTill(at.lib, 1)
    BY <2>1, <2>3 DEF AllLinked, RelocatedTill
  <2>5. RelocatedTill(at.lib, entry)'
    BY <1>1, <2>2, <2>4 DEF RelocatedTill, Linked, Resolved
  <2> QED BY <1>1, <2>5 DEF Placing
<1> QED BY <1>2, <1>3, InsideKeeps

\* What an entry asks for is what do_reloc writes.
LEMMA RelocatedIsResolved ==
  ASSUME NEW img \in Images, NEW lib \in Libs,
         NEW k \in 1..Len(img[lib].relocs)
  PROVE  Relocated(img[lib], img[lib].relocs[k])
           = Resolved(img[lib], img[lib].relocs[k])
<1> DEFINE i == img[lib]
<1>1. i.relocs \in Seq(Entries) /\ i.start \in Nat
  BY ImagesAssumption DEF WellFormed
<1>2. i.relocs[k] \in Entries
  BY <1>1
<1>3. i.relocs[k].addr \in Nat
  BY <1>2 DEF Entries
<1>4. i.relocs[k].addr + i.start = i.start + i.relocs[k].addr
  BY <1>1, <1>3
<1>5. i.relocs[k].addr + 0 = i.relocs[k].addr
  BY <1>3
<1> QED BY <1>4, <1>5 DEF Relocated, Resolved

LEMMA RelocateContents ==
  ASSUME Control, MemShape, Contents, Relocate
  PROVE  Contents'
<1> DEFINE e == im.relocs[entry]
           g == [mem[at.lib] EXCEPT ![e.offset] = Relocated(im, e)]
<1>1. /\ UNCHANGED <<build, image, at>>
      /\ status = "booting" /\ at.step = "relocate"
      /\ at.lib \in Libs /\ image \in Images /\ im = image[at.lib]
      /\ entry \in 1..Len(im.relocs) /\ e.offset /= 0
  BY DEF Relocate, At, AtEnd, Control, im
<1>2. CASE UNCHANGED <<mem, entry>> /\ status' = "fault"
  <2>1. Inside
    BY <1>1, <1>2 DEF Inside
  <2>2. ASSUME OneRomStart PROVE Placing'
    <3>1. RelocatedTill(at.lib, entry)
      BY <1>1, <2>2 DEF Contents, Placing
    <3>2. RelocatedTill(at.lib, entry)'
      BY <1>1, <1>2, <3>1 DEF RelocatedTill, Resolved, Linked
    <3> QED BY <1>1, <3>2 DEF Placing
  <2> QED BY <2>1, <2>2, InsideKeeps
<1>3. CASE /\ mem' = [mem EXCEPT ![at.lib][e.offset] = Relocated(im, e)]
           /\ entry' = entry + 1
           /\ UNCHANGED status
  <2>1. mem' = [mem EXCEPT ![at.lib] = g]
    BY <1>3
  <2>2. /\ mem'[at.lib] = g
        /\ \A lib \in Libs \ {at.lib} : mem'[lib] = mem[lib]
    <3> HIDE DEF g
    <3> QED BY <2>1, RegionUpdate
  <2>3. Inside
    BY <1>1, <1>3, <2>2 DEF Inside
  <2>4. /\ Len(im.relocs) \in Nat \ {0}
        /\ im.relocs[Len(im.relocs)].offset = 0
        /\ \A k \in 1..Len(im.relocs) - 1 :
             /\ im.relocs[k].offset \in Words(im)
             /\ \A j \in 1..Len(im.relocs) - 1 :
                  im.relocs[j].offset = im.relocs[k].offset => j = k
    BY <1>1, TableFacts
  <2>5. entry \in 1..Len(im.relocs) - 1
    BY <1>1, <2>4
  <2>6. mem[at.lib] = [w \in Words(im) |-> mem[at.lib][w]]
    BY <1>1 DEF MemShape
  <2>7. /\ g[e.offset] = Resolved(im, e)
        /\ \A w \in Words(im) : w /= e.offset => g[w] = mem[at.lib][w]
    <3>1. e.offset \in Words(im)
      BY <2>4, <2>5
    <3>2. Relocated(im, e) = Resolved(im, e)
      BY <1>1, RelocatedIsResolved
    <3> QED BY <2>6, <3>1, <3>2
  <2>8. ASSUME OneRomStart PROVE Placing'
    <3>1. RelocatedTill(at.lib, entry)
      BY <1>1, <2>8 DEF Contents, Placing
    <3> HIDE DEF g
    <3>2. ASSUME NEW j \in 1..Len(im.relocs) - 1, j < entry + 1
          PROVE  g[im.relocs[j].offset] = Resolved(im, im.relocs[j])
      <4>1. CASE j = entry
        BY <2>7, <4>1
      <4>2. CASE j /= entry
        <5>1. j < entry
          BY <2>5, <3>2, <4>2
        <5>2. mem[at.lib][im.relocs[j].offset] = Resolved(im, im.relocs[j])
          BY <1>1, <3>1, <5>1 DEF RelocatedTill
        <5>3. /\ im.relocs[j].offset /= e.offset
              /\ im.relocs[j].offset \in Words(im)
          BY <2>4, <2>5, <4>2
        <5> QED BY <2>7, <5>2, <5>3
      <4> QED BY <4>1, <4>2
    <3>3. ASSUME NEW w \in Words(im) \ Targets(im)
          PROVE  g[w] = Linked(im, w)
      <4>1. w /= e.offset
        BY <2>5 DEF Targets
      <4>2. mem[at.lib][w] = Linked(im, w)
        BY <1>1, <3>1 DEF RelocatedTill
      <4> QED BY <2>7, <4>1, <4>2
    <3>4. RelocatedTill(at.lib, entry)'
      <4>1. \A j \in 1..Len(im.relocs) - 1 : j < entry' =>
              mem'[at.lib][im.relocs[j].offset] = Resolved(im, im.relocs[j])
        BY <1>3, <2>2, <3>2
      <4>2. \A w \in Words(im) \ Targets(im) :
              mem'[at.lib][w] = Linked(im, w)
        BY <2>2, <3>3
      <4>3. \A w \in Words(im) : Linked(im, w)' = Linked(im, w)
        BY <1>1 DEF Linked, im
      <4>4. im' = im /\ im' = image'[at'.lib] /\ at'.lib = at.lib
        BY <1>1 DEF im
      <4> HIDE DEF e
      <4> QED BY <4>1, <4>2, <4>3, <4>4 DEF RelocatedTill
    <3> QED BY <1>1, <3>4 DEF Placing
  <2> QED BY <2>3, <2>8, InsideKeeps
<1> QED BY <1>2, <1>3 DEF Relocate, NextEntry

LEMMA RelocationContents ==
  ASSUME Control, Contents, Relocation
  PROVE  Contents'
<1>1. /\ UNCHANGED <<build, image, entry, mem>>
      /\ status = "booting" /\ at.step = "relocate"
      /\ at.lib \in Libs /\ image \in Images /\ im = image[at.lib]
      /\ entry \in 1..Len(im.relocs) /\ im.relocs[entry].offset = 0
  BY DEF Relocation, At, AtEnd, Control, im
<1>2. entry = Len(im.relocs)
  BY <1>1, TableFacts
<1>3. /\ OneRomStart' => OneRomStart
      /\ \A lib \in Libs : /\ Untouched(lib) => Untouched(lib)'
                           /\ Placed(lib) => Placed(lib)'
  BY <1>1, OtherRegion DEF OneRomStart, ROM_START
<1> SUFFICES ASSUME OneRomStart
             PROVE  /\ Placing'
                    /\ at'.lib = "jemalloc" => Untouched("stdlib")'
                    /\ at'.lib = "stdlib" => Placed("jemalloc")'
                    /\ status' = "running" =>
                         Placed("jemalloc")' /\ Placed("stdlib")'
  BY <1>3 DEF Contents
<1>4. Placed(at.lib)
  BY <1>1, <1>2 DEF Contents, Placing, Placed
<1>5. CASE at.lib = "jemalloc"
  <2>1. at' = [lib |-> "stdlib", step |-> "map"] /\ status' = "booting"
    BY <1>1, <1>5 DEF Relocation
  <2>2. Untouched("stdlib")'
    BY <1>3, <1>5 DEF Contents, Libs
  <2>3. Placed("jemalloc")'
    BY <1>1, <1>3, <1>4, <1>5
  <2> QED BY <2>1, <2>2, <2>3 DEF Placing
<1>6. CASE at.lib = "stdlib"
  <2>1. at' = at
    BY <1>6 DEF Relocation
  <2>2. Placed("stdlib")' /\ Placed("jemalloc")'
    BY <1>3, <1>4, <1>6 DEF Contents, Libs
  <2>3. RelocatedTill(at.lib, entry)'
    BY <1>1, <1>2, <1>6, <2>1, <2>2 DEF Placed, im
  <2> QED BY <1>1, <1>6, <2>1, <2>2, <2>3 DEF Placing
<1> QED BY <1>1, <1>5, <1>6 DEF Libs

LEMMA StillContents ==
  ASSUME Contents, UNCHANGED <<build, image, at, entry, mem>>,
         status' \in {status, "crashed"}
  PROVE  Contents'
<1>1. OneRomStart' <=> OneRomStart
  BY DEF OneRomStart, ROM_START
<1>2. \A lib \in Libs : /\ Untouched(lib) => Untouched(lib)'
                        /\ Placed(lib) => Placed(lib)'
  BY OtherRegion
<1>3. Placing => Placing'
  <2>1. Untouched(at.lib) => Untouched(at.lib)'
    BY DEF Untouched, Mapped, Blank
  <2>2. Mapped(at.lib) => Mapped(at.lib)'
    BY DEF Mapped, Blank
  <2>3. Copied(at.lib) => Copied(at.lib)'
    BY DEF Copied, Blank
  <2>4. AllLinked(at.lib) => AllLinked(at.lib)'
    BY DEF AllLinked, Linked
  <2>5. RelocatedTill(at.lib, entry) => RelocatedTill(at.lib, entry)'
    BY DEF RelocatedTill, Resolved, Linked
  <2> QED BY <2>1, <2>2, <2>3, <2>4, <2>5 DEF Placing
<1>4. "jemalloc" \in Libs /\ "stdlib" \in Libs
  BY DEF Libs
<1> QED BY <1>1, <1>2, <1>3, <1>4 DEF Contents

LEMMA ContentsStep == Shape /\ Contents /\ [Next]_vars => Contents'
<1> SUFFICES ASSUME Shape, Contents, [Next]_vars PROVE Contents'
  OBVIOUS
<1>1. Control /\ MemShape
  BY DEF Shape
<1>2. CASE UNCHANGED vars
  BY <1>2, StillContents DEF vars
<1>3. ASSUME NEW lib \in Libs, Call(lib) PROVE Contents'
  BY <1>3, StillContents DEF Call
<1> QED BY <1>1, <1>2, <1>3, SbrkContents, MapContents, CopyRomContents,
           ClearBssContents, ProtectContents, RelocateContents,
           RelocationContents DEF Next, Boot

(* When main goes on, both libraries are as linked for their addresses,    *)
(* every entry of the two tables applied and nothing else touched.         *)
THEOREM LibrariesLinked == Spec => []LibrariesAsLinked
<1>1. Shape /\ Contents => LibrariesAsLinked
  <2> SUFFICES ASSUME Shape, Contents, status = "running", OneRomStart,
                      NEW lib \in Libs
               PROVE  LET i == image[lib] IN
                 /\ \A k \in 1..Len(i.relocs) - 1 :
                      mem[lib][i.relocs[k].offset] = Resolved(i, i.relocs[k])
                 /\ \A w \in Words(i) \ Targets(i) : mem[lib][w] = Linked(i, w)
    BY DEF LibrariesAsLinked, OneRomStart
  <2>1. Placed(lib)
    BY DEF Contents, Libs
  <2>2. Len(image[lib].relocs) \in Nat
    BY TableFacts DEF Shape, Control
  <2>3. \A k \in 1..Len(image[lib].relocs) - 1 : k < Len(image[lib].relocs)
    BY <2>2
  <2> QED BY <2>1, <2>3 DEF Placed, RelocatedTill
<1> QED BY <1>1, ContentsInit, ContentsStep, ShapeInvariance, PTL DEF Spec

-----------------------------------------------------------------------------
(* The lines of known type, in order.                                      *)

LEMMA RankFacts ==
  ASSUME NEW S \in SUBSET Nat, IsFiniteSet(S)
  PROVE  /\ Cardinality(S) \in Nat
         /\ \A k \in S : Rank(S, k) \in 1..Cardinality(S)
         /\ \A j, k \in S : j < k => Rank(S, j) < Rank(S, k)
         /\ \A j, k \in S : Rank(S, j) = Rank(S, k) => j = k
<1> DEFINE Below(k) == {j \in S : j <= k}
<1>1. Cardinality(S) \in Nat
  BY FS_CardinalityType
<1>2. \A k \in S : IsFiniteSet(Below(k)) /\ Cardinality(Below(k)) <= Cardinality(S)
  BY FS_Subset
<1>3. \A k \in S : Cardinality(Below(k)) \in Nat
  BY <1>2, FS_CardinalityType
<1>4. ASSUME NEW k \in S PROVE Rank(S, k) \in 1..Cardinality(S)
  <2>1. k \in Below(k)
    OBVIOUS
  <2>2. Cardinality(Below(k)) /= 0
    BY <1>2, <2>1, FS_EmptySet
  <2> QED BY <1>1, <1>2, <1>3, <2>2 DEF Rank
<1>5. ASSUME NEW j \in S, NEW k \in S, j < k
      PROVE  Rank(S, j) < Rank(S, k)
  <2>1. Below(j) \subseteq Below(k)
    <3>1. S \subseteq Nat
      OBVIOUS
    <3>2. \A m \in S : m <= j => m <= k
      BY <1>5, <3>1
    <3> QED BY <3>2
  <2>2. k \in Below(k) /\ k \notin Below(j)
    BY <1>5
  <2>3. Cardinality(Below(j)) <= Cardinality(Below(k))
        /\ Cardinality(Below(j)) /= Cardinality(Below(k))
    <3> HIDE DEF Below
    <3>1. Below(k) /= Below(j)
      BY <2>2
    <3> QED BY <1>2, <2>1, <3>1, FS_Subset
  <2> QED BY <1>3, <2>3 DEF Rank
<1>6. ASSUME NEW j \in S, NEW k \in S, Rank(S, j) = Rank(S, k)
      PROVE  j = k
  <2>1. Rank(S, j) \in Nat
    BY <1>1, <1>4
  <2>2. ~(j < k) /\ ~(k < j)
    BY <1>5, <1>6, <2>1
  <2> QED BY <2>2
<1> QED BY <1>1, <1>4, <1>5, <1>6

LEMMA NthFacts ==
  ASSUME NEW S \in SUBSET Nat, IsFiniteSet(S)
  PROVE  /\ \A n \in 1..Cardinality(S) :
              Nth(S, n) \in S /\ Rank(S, Nth(S, n)) = n
         /\ \A k \in S : Nth(S, Rank(S, k)) = k
<1> DEFINE N == Cardinality(S)
           f == [k \in S |-> Rank(S, k)]
<1>1. /\ N \in Nat
      /\ \A k \in S : Rank(S, k) \in 1..N
      /\ \A j, k \in S : Rank(S, j) = Rank(S, k) => j = k
  BY RankFacts
<1>2. f \in Injection(S, 1..N)
  BY <1>1 DEF Injection, IsInjective
<1>3. IsFiniteSet(1..N) /\ Cardinality(1..N) = N
  BY <1>1, FS_Interval
<1>4. f \in Surjection(S, 1..N)
  BY <1>2, <1>3, FS_Injection
<1>5. \A n \in 1..N : \E k \in S : Rank(S, k) = n
  BY <1>4 DEF Surjection
<1>6. \A n \in 1..N : Nth(S, n) \in S /\ Rank(S, Nth(S, n)) = n
  BY <1>5 DEF Nth
<1> QED BY <1>1, <1>6

-----------------------------------------------------------------------------
(* What the scripts make of an executable.                                 *)

Lines(elf) == DOMAIN elf.relocs

LEMMA KnownFacts ==
  ASSUME NEW elf, ElfOK(elf)
  PROVE  /\ Lines(elf) \subseteq Nat
         /\ \A k \in Lines(elf) : elf.relocs[k] \in RelocLine
         /\ Known(elf) \subseteq Lines(elf)
         /\ IsFiniteSet(Known(elf)) /\ Cardinality(Known(elf)) \in Nat
<1>1. elf.relocs \in Seq(RelocLine)
  BY DEF ElfOK
<1>2. Lines(elf) = 1..Len(elf.relocs) /\ Len(elf.relocs) \in Nat
  BY <1>1 DEF Lines
<1>3. \A k \in Lines(elf) : elf.relocs[k] \in RelocLine
  BY <1>1, <1>2
<1>4. Known(elf) \subseteq Lines(elf)
  BY DEF Known, Lines
<1>5. IsFiniteSet(Known(elf))
  <2>1. IsFiniteSet(Lines(elf))
    BY <1>2, FS_Interval
  <2> QED BY <1>4, <2>1, FS_Subset
<1> QED BY <1>2, <1>3, <1>4, <1>5, FS_CardinalityType

(* Each line of known type has its entry, in order, and the terminator is  *)
(* the only other entry.                                                   *)
LEMMA TableOfLines ==
  ASSUME NEW elf, ElfOK(elf)
  PROVE  LET known == Known(elf)
             N == Cardinality(known)
         IN /\ Len(Table(elf)) = N + 1
            /\ DOMAIN Table(elf) = 1..N + 1
            /\ Table(elf)[N + 1] = Terminator
            /\ \A n \in 1..N : \E k \in known :
                 Rank(known, k) = n /\ Table(elf)[n] = EntryOf(elf.relocs[k])
            /\ \A k \in known : /\ Rank(known, k) \in 1..N
                                /\ Table(elf)[Rank(known, k)] =
                                     EntryOf(elf.relocs[k])
<1> DEFINE known == Known(elf)
           N == Cardinality(known)
<1>1. known \in SUBSET Nat /\ IsFiniteSet(known) /\ N \in Nat
  BY KnownFacts
<1>2. Table(elf) = [n \in 1..N + 1 |->
                      IF n <= N THEN EntryOf(elf.relocs[Nth(known, n)])
                                ELSE Terminator]
  BY DEF Table
<1> HIDE DEF known, N
<1>3. DOMAIN Table(elf) = 1..N + 1 /\ Len(Table(elf)) = N + 1
  BY <1>1, <1>2
<1>4. Table(elf)[N + 1] = Terminator
  BY <1>1, <1>2
<1>5. \A n \in 1..N : Table(elf)[n] = EntryOf(elf.relocs[Nth(known, n)])
  BY <1>1, <1>2
<1>6. /\ \A n \in 1..N : Nth(known, n) \in known /\ Rank(known, Nth(known, n)) = n
      /\ \A k \in known : Nth(known, Rank(known, k)) = k
      /\ \A k \in known : Rank(known, k) \in 1..N
  BY <1>1, NthFacts, RankFacts DEF N
<1> QED BY <1>3, <1>4, <1>5, <1>6 DEF known, N

LEMMA EntryFacts ==
  ASSUME NEW e \in Elfs, Compiles(e), NEW lib \in Libs,
         NEW k \in Known(e[lib])
  PROVE  LET line == e[lib].relocs[k] IN
         /\ EntryOf(line) \in Entries
         /\ EntryOf(line).offset = line.offset
         /\ EntryOf(line).type = line.type
         /\ EntryOf(line).addr = IF line.type = "RELATIVE" THEN line.addend
                                 ELSE s_[line.sym]
         /\ line.offset \in 1..LIB_SIZE - 1
         /\ \A j \in Lines(e[lib]) :
              e[lib].relocs[j].offset = line.offset => j = k
<1> DEFINE elf == e[lib]
           line == elf.relocs[k]
<1>1. ElfOK(elf)
  BY ElfsAssumption
<1>2. line \in RelocLine /\ line.type \in RelocTypes /\ k \in Lines(elf)
  BY <1>1, KnownFacts DEF Known, IsKnown
<1>3. line.offset \in Nat /\ line.addend \in Nat
  BY <1>2 DEF RelocLine
<1>4. line.type /= "RELATIVE" => line.sym \in DOMAIN s_
  BY <1>2 DEF Compiles, RelocTypes, Lines
<1>5. line.type /= "RELATIVE" => s_[line.sym] \in Nat
  BY <1>4, ShimsAssumption
<1>6. EntryOf(line) \in Entries
  BY <1>2, <1>3, <1>5 DEF EntryOf, Entries
<1>7. /\ line.offset \in 1..LIB_SIZE - 1
      /\ \A j \in Lines(elf) : elf.relocs[j].offset = line.offset => j = k
  BY <1>1, <1>2 DEF ElfOK, Lines
<1> QED BY <1>6, <1>7 DEF EntryOf

(* The section found by name, when there is one.                           *)
LEMMA SectionFacts ==
  ASSUME NEW elf, ElfOK(elf), NEW name \in {".text", ".bss"},
         Named(elf, name) /= {}
  PROVE  \E k \in DOMAIN elf.sections :
           Section(elf, name) = elf.sections[k] /\ elf.sections[k].name = name
<1>1. PICK k \in Named(elf, name) : TRUE
  OBVIOUS
<1>2. k \in DOMAIN elf.sections /\ elf.sections[k].name = name
  BY <1>1 DEF Named
<1>3. \A j \in Named(elf, name) : j = k
  BY <1>2 DEF Named, ElfOK
<1>4. k <= k
  <2>1. elf.sections \in Seq([name : STRING, addr : Nat, size : Nat])
    BY DEF ElfOK
  <2> QED BY <1>2, <2>1
<1>5. \E m \in Named(elf, name) : \A j \in Named(elf, name) : j <= m
  BY <1>1, <1>3, <1>4
<1> QED BY <1>2, <1>3, <1>5 DEF Section

LEMMA SectionAddresses ==
  ASSUME NEW elf, ElfOK(elf)
  PROVE  \A k \in DOMAIN elf.sections :
           elf.sections[k].addr \in Nat /\ elf.sections[k].size \in Nat
<1> DEFINE sections == elf.sections
           R == [name : STRING, addr : Nat, size : Nat]
<1>1. sections \in Seq(R)
  BY DEF ElfOK
<1>2. \A r \in R : r.addr \in Nat /\ r.size \in Nat
  OBVIOUS
<1> HIDE DEF sections, R
<1>3. \A k \in DOMAIN sections : sections[k] \in R
  BY <1>1
<1> QED BY <1>2, <1>3 DEF sections

(* The parts of a delivered image, as its executable has them.             *)
LEMMA DeliveredParts ==
  ASSUME NEW e \in Elfs, Compiles(e), NEW lib \in Libs
  PROVE  LET i == Delivered(e)[lib] IN
         /\ {i.start, i.size, i.rom_start, i.bin_size, i.text_start,
             i.text_size, i.bss_start, i.bss_size} \subseteq Nat
         /\ i.text_size > 0
         /\ Rom(i) \cup Text(i) \cup Bss(i) \subseteq Words(i)
         /\ Rom(i) \cap Bss(i) = {}
<1> DEFINE elf == e[lib]
           i == Delivered(e)[lib]
<1>1. ElfOK(elf) /\ Named(elf, ".text") /= {} /\ Named(elf, ".bss") /= {}
  BY ElfsAssumption DEF Compiles
<1>2. PICK t \in DOMAIN elf.sections :
        Section(elf, ".text") = elf.sections[t] /\ elf.sections[t].name = ".text"
  BY <1>1, SectionFacts
<1>3. PICK b \in DOMAIN elf.sections :
        Section(elf, ".bss") = elf.sections[b] /\ elf.sections[b].name = ".bss"
  BY <1>1, SectionFacts
<1> DEFINE text == elf.sections[t]
           bss == elf.sections[b]
           first == elf.sections[1]
<1>4. /\ i.start = LIB_START[lib] /\ i.size = LIB_SIZE
      /\ i.rom_start = first.addr /\ i.bin_size = elf.bin_size
      /\ i.text_start = text.addr /\ i.text_size = text.size
      /\ i.bss_start = bss.addr /\ i.bss_size = bss.size
  BY <1>2, <1>3 DEF Delivered
<1>5. 1 \in DOMAIN elf.sections
  <2>1. elf.sections \in Seq([name : STRING, addr : Nat, size : Nat])
        /\ elf.sections /= <<>>
    BY <1>1 DEF ElfOK
  <2> QED BY <2>1
<1>6. /\ text.addr \in Nat /\ text.size \in Nat
      /\ bss.addr \in Nat /\ bss.size \in Nat /\ first.addr \in Nat
  BY <1>1, <1>5, SectionAddresses
<1>7. /\ text.size > 0
      /\ first.addr + elf.bin_size <= bss.addr
      /\ elf.bin_size \in Nat
      /\ first.addr + elf.bin_size <= LIB_SIZE
      /\ Span(text) \subseteq 0..LIB_SIZE - 1
      /\ Span(bss) \subseteq 0..LIB_SIZE - 1
  BY <1>1, <1>2, <1>3 DEF ElfOK
<1>8. LIB_START[lib] \in Nat /\ LIB_SIZE \in Nat
  BY RegionAssumption
<1> HIDE DEF i, elf, text, bss, first
<1>9. {i.start, i.size, i.rom_start, i.bin_size, i.text_start,
       i.text_size, i.bss_start, i.bss_size} \subseteq Nat /\ i.text_size > 0
  BY <1>4, <1>6, <1>7, <1>8 DEF elf
<1>10. /\ Text(i) = Span(text) /\ Bss(i) = Span(bss)
       /\ Words(i) = 0..LIB_SIZE - 1
       /\ Rom(i) = first.addr..first.addr + elf.bin_size - 1
  BY <1>4 DEF Text, Bss, Words, Rom, Span
<1>11. Rom(i) \cup Text(i) \cup Bss(i) \subseteq Words(i)
  BY <1>6, <1>7, <1>8, <1>10
<1>12. Rom(i) \cap Bss(i) = {}
  BY <1>6, <1>7, <1>10 DEF Span
<1> QED BY <1>9, <1>11, <1>12 DEF i

LEMMA DeliveredTable ==
  ASSUME NEW e \in Elfs, Compiles(e), NEW lib \in Libs
  PROVE  LET i == Delivered(e)[lib] IN
         /\ i.relocs \in Seq(Entries)
         /\ Len(i.relocs) > 0
         /\ i.relocs[Len(i.relocs)].offset = 0
         /\ \A k \in 1..Len(i.relocs) - 1 :
              /\ i.relocs[k].offset \in Words(i) \ {0}
              /\ \A j \in 1..Len(i.relocs) - 1 :
                   i.relocs[j].offset = i.relocs[k].offset => j = k
<1> DEFINE elf == e[lib]
           i == Delivered(e)[lib]
           table == Table(elf)
           known == Known(elf)
           N == Cardinality(known)
<1>1. ElfOK(elf)
  BY ElfsAssumption
<1>2. N \in Nat /\ known \subseteq Lines(elf) /\ Lines(elf) \subseteq Nat
  BY <1>1, KnownFacts
<1>3. /\ Len(table) = N + 1 /\ DOMAIN table = 1..N + 1
      /\ table[N + 1] = Terminator
      /\ \A n \in 1..N : \E k \in known :
           Rank(known, k) = n /\ table[n] = EntryOf(elf.relocs[k])
  BY <1>1, TableOfLines
<1>4. \A k \in known :
        /\ EntryOf(elf.relocs[k]) \in Entries
        /\ EntryOf(elf.relocs[k]).offset = elf.relocs[k].offset
        /\ elf.relocs[k].offset \in 1..LIB_SIZE - 1
        /\ \A j \in Lines(elf) :
             elf.relocs[j].offset = elf.relocs[k].offset => j = k
  BY EntryFacts
<1>5. table = [n \in 1..N + 1 |-> table[n]]
  BY DEF Table
<1>6. i.relocs = table /\ Words(i) = 0..LIB_SIZE - 1
  BY DEF Delivered, Words
<1> HIDE DEF i, table, elf, known, N
<1>7. Terminator \in Entries /\ Terminator.offset = 0
  BY DEF Terminator, Entries, RelocTypes
<1>8. \A n \in 1..N + 1 : table[n] \in Entries
  BY <1>2, <1>3, <1>4, <1>7
<1>9. table \in Seq(Entries)
  BY <1>2, <1>5, <1>8
<1>10. ASSUME NEW n \in 1..N
       PROVE  /\ table[n].offset \in Words(i) \ {0}
              /\ \A m \in 1..N : table[m].offset = table[n].offset => m = n
  <2>1. PICK k \in known :
          Rank(known, k) = n /\ table[n] = EntryOf(elf.relocs[k])
    BY <1>3
  <2>2. LIB_SIZE \in Nat
    BY RegionAssumption
  <2>3. table[n].offset \in Words(i) \ {0}
    BY <1>4, <1>6, <2>1, <2>2
  <2>4. ASSUME NEW m \in 1..N, table[m].offset = table[n].offset
        PROVE  m = n
    <3>1. PICK j \in known :
            Rank(known, j) = m /\ table[m] = EntryOf(elf.relocs[j])
      BY <1>3
    <3>2. elf.relocs[j].offset = elf.relocs[k].offset
      BY <1>4, <2>1, <2>4, <3>1
    <3>3. j = k
      BY <1>2, <1>4, <3>2
    <3> QED BY <2>1, <3>1, <3>3
  <2> QED BY <2>3, <2>4
<1>11. 1..Len(table) - 1 = 1..N /\ Len(table) > 0
  BY <1>2, <1>3
<1> QED BY <1>3, <1>6, <1>7, <1>9, <1>10, <1>11 DEF i

(* What a header that compiles delivers is an image the loader can place:  *)
(* Bootstrap's assumption on Images holds of every executable the linker   *)
(* may produce.                                                            *)
THEOREM DeliveredAreWellFormed ==
  \A img \in DeliveredImages : \A lib \in Libs : WellFormed(img[lib])
<1> SUFFICES ASSUME NEW e \in Elfs, Compiles(e), NEW lib \in Libs
             PROVE  WellFormed(Delivered(e)[lib])
  BY DEF DeliveredImages
<1> QED BY DeliveredParts, DeliveredTable DEF WellFormed

-----------------------------------------------------------------------------
(* The libraries that run, as their executables ask.                       *)

(* The words the table of a delivered image names are the offsets of the   *)
(* lines of known type.                                                    *)
LEMMA DeliveredTargets ==
  ASSUME NEW e \in Elfs, Compiles(e), NEW lib \in Libs
  PROVE  LET i == Delivered(e)[lib] IN
         /\ \A k \in Known(e[lib]) : \E n \in 1..Len(i.relocs) - 1 :
              i.relocs[n] = EntryOf(e[lib].relocs[k])
         /\ \A w \in Targets(i) : \E k \in Known(e[lib]) :
              e[lib].relocs[k].offset = w
<1> DEFINE elf == e[lib]
           i == Delivered(e)[lib]
           known == Known(elf)
           N == Cardinality(known)
<1>1. ElfOK(elf)
  BY ElfsAssumption
<1>2. i.relocs = Table(elf)
  BY DEF Delivered
<1>3. /\ N \in Nat /\ Len(i.relocs) = N + 1
      /\ \A n \in 1..N : \E k \in known :
           i.relocs[n] = EntryOf(elf.relocs[k])
      /\ \A k \in known : /\ Rank(known, k) \in 1..N
                          /\ i.relocs[Rank(known, k)] = EntryOf(elf.relocs[k])
  BY <1>1, <1>2, TableOfLines, KnownFacts
<1>4. \A k \in known : EntryOf(elf.relocs[k]).offset = elf.relocs[k].offset
  BY EntryFacts
<1> HIDE DEF i, elf, known, N
<1>5. 1..Len(i.relocs) - 1 = 1..N
  BY <1>3
<1>6. \A k \in known : \E n \in 1..Len(i.relocs) - 1 :
        i.relocs[n] = EntryOf(elf.relocs[k])
  BY <1>3, <1>5
<1>7. \A w \in Targets(i) : \E k \in known : elf.relocs[k].offset = w
  <2> SUFFICES ASSUME NEW n \in 1..N
               PROVE  \E k \in known :
                        elf.relocs[k].offset = i.relocs[n].offset
    BY <1>5 DEF Targets
  <2>1. PICK k \in known : i.relocs[n] = EntryOf(elf.relocs[k])
    BY <1>3
  <2> QED BY <1>4, <2>1
<1> QED BY <1>6, <1>7 DEF i, elf, known

(* What a line with a place in the table asks for is what its entry asks   *)
(* for.                                                                    *)
LEMMA AskedIsResolved ==
  ASSUME NEW e \in Elfs, Compiles(e), NEW lib \in Libs,
         NEW k \in Known(e[lib]), Kept(e[lib].relocs[k])
  PROVE  Resolved(Delivered(e)[lib], EntryOf(e[lib].relocs[k])) =
           Asked(lib, e[lib].relocs[k])
<1> DEFINE line == e[lib].relocs[k]
           entryOf == EntryOf(line)
<1>1. /\ entryOf \in Entries /\ entryOf.type = line.type
      /\ entryOf.addr = IF line.type = "RELATIVE" THEN line.addend
                        ELSE s_[line.sym]
  BY EntryFacts
<1>2. LIB_START[lib] \in Nat /\ Delivered(e)[lib].start = LIB_START[lib]
  BY RegionAssumption DEF Delivered
<1>3. entryOf.addr \in Nat
  BY <1>1 DEF Entries
<1> HIDE DEF line, entryOf
<1>4. CASE line.type = "RELATIVE"
  <2>1. LIB_START[lib] + entryOf.addr = line.addend + LIB_START[lib]
    BY <1>1, <1>2, <1>3, <1>4
  <2> QED BY <1>1, <1>2, <1>4, <2>1 DEF Resolved, Asked, line, entryOf
<1>5. CASE line.type /= "RELATIVE"
  <2>1. line.addend = 0
    BY <1>5 DEF Kept, line
  <2>2. entryOf.addr = line.addend + s_[line.sym]
    BY <1>1, <1>3, <1>5, <2>1
  <2> QED BY <1>1, <1>5, <2>2 DEF Resolved, Asked, line, entryOf
<1> QED BY <1>4, <1>5

LEMMA BehindOneRomStart ==
  ASSUME NEW e \in Elfs, Behind(e),
         e["stdlib"].sections[1].addr = e["jemalloc"].sections[1].addr
  PROVE  image["stdlib"].rom_start = ROM_START
BY DEF Behind, Delivered, ROM_START, Libs

(* When main goes on, every relocation of a known type and without a       *)
(* dropped addend is done, and no word it is not about differs from the    *)
(* binary.                                                                 *)
THEOREM RelocationsDone == Spec => []MemoryAsElfAsks
<1>1. LibrariesAsLinked => MemoryAsElfAsks
  <2> SUFFICES ASSUME LibrariesAsLinked, status = "running",
                      NEW e \in Elfs, Behind(e),
                      e["stdlib"].sections[1].addr =
                        e["jemalloc"].sections[1].addr,
                      NEW lib \in Libs
               PROVE  LET elf == e[lib] IN
           /\ \A k \in DOMAIN elf.relocs : LET line == elf.relocs[k] IN
                Kept(line) => mem[lib][line.offset] = Asked(lib, line)
           /\ \A w \in Words(image[lib]) :
                (\A k \in DOMAIN elf.relocs : elf.relocs[k].offset /= w) =>
                  mem[lib][w] = Linked(image[lib], w)
    BY DEF MemoryAsElfAsks
  <2> DEFINE elf == e[lib]
             i == image[lib]
  <2>1. Compiles(e) /\ i = Delivered(e)[lib]
    BY DEF Behind
  <2>2. /\ \A n \in 1..Len(i.relocs) - 1 :
             mem[lib][i.relocs[n].offset] = Resolved(i, i.relocs[n])
        /\ \A w \in Words(i) \ Targets(i) : mem[lib][w] = Linked(i, w)
    BY BehindOneRomStart DEF LibrariesAsLinked
  <2>3. /\ \A k \in Known(elf) : \E n \in 1..Len(i.relocs) - 1 :
             i.relocs[n] = EntryOf(elf.relocs[k])
        /\ \A w \in Targets(i) : \E k \in Known(elf) : elf.relocs[k].offset = w
    BY <2>1, DeliveredTargets
  <2>4. ASSUME NEW k \in DOMAIN elf.relocs, Kept(elf.relocs[k])
        PROVE  mem[lib][elf.relocs[k].offset] = Asked(lib, elf.relocs[k])
    <3>1. k \in Known(elf)
      BY <2>4 DEF Known, IsKnown, Kept
    <3>2. PICK n \in 1..Len(i.relocs) - 1 : i.relocs[n] = EntryOf(elf.relocs[k])
      BY <2>3, <3>1
    <3>3. mem[lib][EntryOf(elf.relocs[k]).offset] =
            Resolved(i, EntryOf(elf.relocs[k]))
      BY <2>2, <3>2
    <3>4. EntryOf(elf.relocs[k]).offset = elf.relocs[k].offset
      BY <2>1, <3>1, EntryFacts
    <3>5. Resolved(i, EntryOf(elf.relocs[k])) = Asked(lib, elf.relocs[k])
      BY <2>1, <2>4, <3>1, AskedIsResolved
    <3> QED BY <3>3, <3>4, <3>5
  <2>5. ASSUME NEW w \in Words(i),
               \A k \in DOMAIN elf.relocs : elf.relocs[k].offset /= w
        PROVE  mem[lib][w] = Linked(i, w)
    <3>1. w \notin Targets(i)
      BY <2>3, <2>5 DEF Known
    <3> QED BY <2>2, <3>1
  <2> QED BY <2>4, <2>5
<1> QED BY <1>1, LibrariesLinked, PTL

(* A pointer of a header is the address of its function in the library     *)
(* placed at LIB_START.                                                    *)
LEMMA PointerFacts ==
  ASSUME NEW e \in Elfs, Compiles(e), NEW lib \in Libs,
         NEW sym \in Exported[lib]
  PROVE  LET elf == e[lib]
             i == Delivered(e)[lib]
             w == Pointer(elf, lib, sym) - i.start
         IN /\ w = elf.func[sym]
            /\ w \in Words(i)
            /\ w \in Rom(i)
<1> DEFINE elf == e[lib]
           i == Delivered(e)[lib]
           func == elf.func[sym]
           first == elf.sections[1].addr
<1>1. ElfOK(elf) /\ sym \in DOMAIN elf.found
  BY ElfsAssumption
<1>2. Cardinality(elf.found[sym]) = 1 /\ IsFiniteSet(elf.found[sym])
      /\ elf.found[sym] \subseteq Nat
  BY <1>1 DEF Compiles, ElfOK
<1>3. PICK x : elf.found[sym] = {x}
  BY <1>2, FS_Singleton
<1>4. elf.found[sym] /= {}
  BY <1>3
<1>5. func \in elf.found[sym] /\ func - first \in 0..elf.bin_size - 1
  BY <1>1, <1>4 DEF ElfOK
<1>6. x = func /\ func \in Nat /\ Pointer(elf, lib, sym) = func + LIB_START[lib]
  BY <1>2, <1>3, <1>5 DEF Pointer
<1>7. /\ LIB_START[lib] \in Nat /\ i.start = LIB_START[lib]
      /\ i.rom_start = first /\ i.bin_size = elf.bin_size
  BY RegionAssumption DEF Delivered
<1>8. Pointer(elf, lib, sym) - i.start = func
  BY <1>6, <1>7
<1>9. first \in Nat /\ elf.bin_size \in Nat /\ Rom(i) \subseteq Words(i)
  BY <1>7, DeliveredParts
<1> HIDE DEF i, func, first
<1>10. func \in Rom(i)
  BY <1>5, <1>6, <1>7, <1>9 DEF Rom
<1> QED BY <1>8, <1>9, <1>10 DEF i, func

(* Each pointer of the headers leads to the code of its function in memory.*)
THEOREM PointersLead == Spec => []PointersLand
<1>1. LibrariesAsLinked => PointersLand
  <2> SUFFICES ASSUME LibrariesAsLinked, status = "running",
                      NEW e \in Elfs, Behind(e),
                      e["stdlib"].sections[1].addr =
                        e["jemalloc"].sections[1].addr,
                      NEW lib \in Libs, NEW sym \in Exported[lib]
               PROVE  LET elf == e[lib]
                          w == Pointer(elf, lib, sym) - image[lib].start
                      IN /\ w = elf.func[sym]
                         /\ w \in Words(image[lib])
                         /\ w \notin Targets(image[lib]) =>
                              mem[lib][w] = Bin(w - image[lib].rom_start)
    BY DEF PointersLand
  <2> DEFINE i == image[lib]
             w == Pointer(e[lib], lib, sym) - i.start
  <2>1. Compiles(e) /\ i = Delivered(e)[lib]
    BY DEF Behind
  <2>2. w = e[lib].func[sym] /\ w \in Words(i) /\ w \in Rom(i)
    BY <2>1, PointerFacts
  <2>3. \A v \in Words(i) \ Targets(i) : mem[lib][v] = Linked(i, v)
    BY BehindOneRomStart DEF LibrariesAsLinked
  <2>4. w \notin Targets(i) => mem[lib][w] = Bin(w - i.rom_start)
    <3> HIDE DEF w, i
    <3> QED BY <2>2, <2>3 DEF Linked
  <2> QED BY <2>2, <2>4
<1> QED BY <1>1, LibrariesLinked, PTL

-----------------------------------------------------------------------------
(* bootstrap_malloc: the module BootstrapHeap, a specification of its own; *)
(* for any buffer and any requests, blocks never overlap and never leave   *)
(* the buffer.                                                             *)

(* Neither variable of the allocator is looked at by the properties alone: *)
(* the two always add up to the buffer, and every block ends before the    *)
(* place of the next.                                                      *)
Accounted == bootstrap_ptr + bootstrap_remaining = BUFFER
BlocksBehind == \A k \in DOMAIN blocks :
            blocks[k].start + blocks[k].size <= bootstrap_ptr
Ordered == \A j, k \in DOMAIN blocks :
             j < k => blocks[j].start + blocks[j].size <= blocks[k].start

HeapInv == HeapTypeOK /\ Accounted /\ BlocksBehind /\ Ordered

(* What is known of the blocks handed out so far.                          *)
LEMMA BlockTypes ==
  ASSUME HeapTypeOK
  PROVE  \A k \in DOMAIN blocks : /\ blocks[k].start \in Nat
                                 /\ blocks[k].size \in Nat
<1> DEFINE Block == [start : Nat, size : Nat]
<1>1. blocks \in Seq(Block)
  BY DEF HeapTypeOK
<1>2. \A b \in Block : b.start \in Nat /\ b.size \in Nat
  OBVIOUS
<1> HIDE DEF Block
<1>3. \A k \in DOMAIN blocks : blocks[k] \in Block
  BY <1>1
<1> QED BY <1>2, <1>3

(* The invariant holds before the first request.                           *)
LEMMA HeapStarts == HeapInit => HeapInv
BY BufferAssumption
   DEF HeapInit, HeapInv, HeapTypeOK, Accounted, BlocksBehind, Ordered

(* A request that fits is placed behind all blocks before it.              *)
LEMMA HeapMalloc ==
  ASSUME HeapInv, NEW size \in Sizes, BootstrapMalloc(size)
  PROVE  HeapInv'
<1> USE DEF HeapInv
<1>0. size \in Nat
  BY RequestsAssumption
<1>1. CASE Fits(size)
  <2> DEFINE block == [start |-> bootstrap_ptr, size |-> size]
  <2>1. /\ blocks' = Append(blocks, block)
        /\ bootstrap_ptr' = bootstrap_ptr + size
        /\ bootstrap_remaining' = bootstrap_remaining - size
        /\ UNCHANGED <<freed, heap_status>>
    BY <1>1 DEF BootstrapMalloc, Advance
  <2>2. /\ bootstrap_ptr \in Nat /\ bootstrap_remaining \in Nat
        /\ size <= bootstrap_remaining
        /\ blocks \in Seq([start : Nat, size : Nat])
    BY <1>1 DEF HeapTypeOK, Fits
  <2>3. block \in [start : Nat, size : Nat]
    BY <1>0, <2>2
  <2>4. /\ Len(blocks') = Len(blocks) + 1
        /\ DOMAIN blocks' = DOMAIN blocks \cup {Len(blocks) + 1}
        /\ blocks'[Len(blocks) + 1] = block
        /\ \A k \in DOMAIN blocks : blocks'[k] = blocks[k]
        /\ DOMAIN blocks = 1..Len(blocks)
        /\ Len(blocks) \in Nat
        /\ blocks' \in Seq([start : Nat, size : Nat])
    <3> DEFINE Block == [start : Nat, size : Nat]
    <3>1. blocks \in Seq(Block) /\ block \in Block
      BY <2>2, <2>3
    <3> HIDE DEF block, Block
    <3>2. /\ Len(blocks') = Len(blocks) + 1
          /\ blocks'[Len(blocks) + 1] = block
          /\ \A k \in 1..Len(blocks) : blocks'[k] = blocks[k]
          /\ blocks' \in Seq(Block)
      BY <2>1, <3>1, AppendProperties
    <3>3. Len(blocks) \in Nat /\ DOMAIN blocks = 1..Len(blocks)
      BY <3>1
    <3>4. DOMAIN blocks' = DOMAIN blocks \cup {Len(blocks) + 1}
      BY <3>2, <3>3
    <3> QED BY <3>2, <3>3, <3>4 DEF Block
  <2> HIDE DEF block
  <2>5. block.start = bootstrap_ptr /\ block.size = size
    BY DEF block
  <2>6. \A k \in DOMAIN blocks : /\ blocks[k].start \in Nat
                                 /\ blocks[k].size \in Nat
    BY BlockTypes
  <2>7. HeapTypeOK'
    <3>1. bootstrap_ptr' \in Nat /\ bootstrap_remaining' \in Nat
      BY <1>0, <2>1, <2>2
    <3>2. freed' \in Seq(1..Len(blocks'))
      BY <2>1, <2>4 DEF HeapTypeOK
    <3>3. heap_status' \in {"running", "aborted"}
      BY <2>1 DEF HeapTypeOK
    <3> QED BY <2>4, <3>1, <3>2, <3>3 DEF HeapTypeOK
  <2>8. Accounted'
    BY <1>0, <2>1, <2>2, BufferAssumption DEF Accounted
  <2>9. BlocksBehind'
    <3> SUFFICES ASSUME NEW k \in DOMAIN blocks'
                 PROVE  blocks'[k].start + blocks'[k].size <= bootstrap_ptr'
      BY DEF BlocksBehind
    <3>1. CASE k \in DOMAIN blocks
      <4>1. blocks[k].start + blocks[k].size <= bootstrap_ptr
        BY <3>1 DEF BlocksBehind
      <4>2. blocks[k].start \in Nat /\ blocks[k].size \in Nat
        BY <2>6, <3>1
      <4>3. blocks'[k] = blocks[k]
        BY <2>4, <3>1
      <4> DEFINE end == blocks[k].start + blocks[k].size
      <4>4. end \in Nat /\ end <= bootstrap_ptr
        BY <4>1, <4>2
      <4> HIDE DEF end
      <4>5. end <= bootstrap_ptr'
        BY <1>0, <2>1, <2>2, <4>4
      <4> QED BY <4>3, <4>5 DEF end
    <3>2. CASE k = Len(blocks) + 1
      BY <1>0, <2>1, <2>2, <2>4, <2>5, <3>2
    <3> QED BY <2>4, <3>1, <3>2
  <2>10. Ordered'
    <3> SUFFICES ASSUME NEW j \in DOMAIN blocks', NEW k \in DOMAIN blocks',
                        j < k
                 PROVE  blocks'[j].start + blocks'[j].size <= blocks'[k].start
      BY DEF Ordered
    <3>1. j \in DOMAIN blocks /\ blocks'[j] = blocks[j]
      BY <2>4
    <3>2. CASE k \in DOMAIN blocks
      BY <2>4, <3>1, <3>2 DEF Ordered
    <3>3. CASE k = Len(blocks) + 1
      BY <2>4, <2>5, <3>1, <3>3 DEF BlocksBehind
    <3> QED BY <2>4, <3>2, <3>3
  <2> QED BY <2>7, <2>8, <2>9, <2>10
<1>2. CASE ~Fits(size)
  BY <1>2 DEF BootstrapMalloc, HeapTypeOK, Accounted, BlocksBehind, Ordered
<1> QED BY <1>1, <1>2

(* Nothing else moves the allocator.                                       *)
LEMMA HeapStep == HeapInv /\ [HeapNext]_heap_vars => HeapInv'
<1> SUFFICES ASSUME HeapInv, [HeapNext]_heap_vars PROVE HeapInv'
  OBVIOUS
<1> USE DEF HeapInv
<1>1. ASSUME NEW size \in Sizes, BootstrapMalloc(size) PROVE HeapInv'
  BY <1>1, HeapMalloc
<1>2. CASE BootstrapFree
  <2>1. PICK k \in DOMAIN blocks : freed' = Append(freed, k)
    BY <1>2 DEF BootstrapFree
  <2>2. freed' \in Seq(1..Len(blocks))
    BY <2>1 DEF HeapTypeOK
  <2> QED BY <1>2, <2>2
          DEF BootstrapFree, HeapTypeOK, Accounted, BlocksBehind, Ordered
<1>3. CASE BootstrapAbort
  BY <1>3 DEF BootstrapAbort, HeapTypeOK, Accounted, BlocksBehind, Ordered
<1>4. CASE UNCHANGED heap_vars
  BY <1>4 DEF heap_vars, HeapTypeOK, Accounted, BlocksBehind, Ordered
<1> QED BY <1>1, <1>2, <1>3, <1>4 DEF HeapNext

(* The inductive invariant holds of the specification.                     *)
THEOREM HeapInvariance == HeapSpec => []HeapInv
BY HeapStarts, HeapStep, PTL DEF HeapSpec

(* bootstrap_remaining never goes below zero, whatever is asked for.       *)
THEOREM HeapTypes == HeapSpec => []HeapTypeOK
BY HeapInvariance, PTL DEF HeapInv

(* bootstrap_malloc never hands out a byte twice, nor one outside its      *)
(* buffer, for any sequence of requests of any sizes.                      *)
THEOREM HeapSafety == HeapSpec => []BlocksDisjoint
<1>1. HeapInv => BlocksDisjoint
  <2> SUFFICES ASSUME HeapInv PROVE BlocksDisjoint
    OBVIOUS
  <2>1. \A k \in DOMAIN blocks : /\ blocks[k].start \in Nat
                                 /\ blocks[k].size \in Nat
    BY BlockTypes DEF HeapInv
  <2>2. bootstrap_ptr <= BUFFER /\ bootstrap_ptr \in Nat
    BY BufferAssumption DEF HeapInv, HeapTypeOK, Accounted
  <2>3. \A k \in DOMAIN blocks : blocks[k].start + blocks[k].size <= BUFFER
    BY <2>1, <2>2, BufferAssumption DEF HeapInv, BlocksBehind
  <2> QED BY <2>3 DEF HeapInv, Ordered, BlocksDisjoint
<1> QED BY <1>1, HeapInvariance, PTL

=============================================================================
