---------------------------- MODULE Shims_proofs ----------------------------
(***************************************************************************)
(* What TLAPS proves about Shims, for address spaces, lengths, requests    *)
(* and thresholds of any size.                                             *)
(***************************************************************************)
EXTENDS Shims, TLAPS

-----------------------------------------------------------------------------
(* The inductive invariant.                                                *)

Contents == {"zero", "data", "any"}

Shapes ==
  /\ chunks \subseteq [start : Nat, size : Lengths]
  /\ blocks \subseteq [start : Nat, size : Nat \ {0}, holds : Contents]

(* No page belongs to two blocks.                                          *)
BlocksApart ==
  \A a, b \in blocks : \A p : p \in Extent(a) /\ p \in Extent(b) => a = b

(* What the system of the native build guarantees: what is mapped is there *)
(* until it is unmapped, and what jemalloc trusts to be zero is.           *)
NativeSpace ==
  build = "native" =>
    /\ status /= "lost"
    /\ \A p \in Pages : p < FirstBreak => page[p] /= "none"
    /\ \A c \in chunks : \A p \in Extent(c) : p \in Pages /\ page[p] /= "none"
    /\ \A b \in blocks : \A p \in Extent(b) : page[p] /= "none"
    /\ \A p \in trusted : page[p] = "zero"

(* What the semihosting build has instead: a break above all it handed out.*)
SbrkSpace ==
  build = "semihosting" /\ status /= "lost" =>
    /\ FirstBreak <= brk
    /\ \A b \in blocks : \A p \in Extent(b) : p < brk

(* A block from s_calloc is zero, one written to keeps what was written.   *)
Keeps(b, pages) ==
  \/ b.holds = "any"
  \/ b.holds = "zero" /\ build = "semihosting" /\ large < THRESHOLD
  \/ \A p \in Extent(b) : pages[p] = b.holds

IInv == /\ TypeOK /\ Shapes /\ BlocksApart /\ NativeSpace /\ SbrkSpace
        /\ ChunksApart /\ BlocksKeepContents

-----------------------------------------------------------------------------
(* Pages and blocks.                                                       *)

LEMMA InRun ==
  ASSUME NEW start \in Nat, NEW size \in Nat
  PROVE  /\ \A p : p \in Run(start, size) <=>
                     p \in Nat /\ start <= p /\ p < start + size
         /\ size /= 0 => start \in Run(start, size)
BY DEF Run

LEMMA InUsed == \A p : p \in Used <=> \E b \in blocks : p \in Extent(b)
BY DEF Used

(* A length as the int _sbrk takes.                                        *)
LEMMA IntLength ==
  ASSUME NEW len \in Lengths
  PROVE  len \in Nat \ {0} /\ ToInt(len) \in Int
<1>1. len \in Nat \ {0}
  BY SizesAssumption, WidthsAssumption
<1>2. len % INT \in Int
  BY <1>1, WidthsAssumption
<1> QED BY <1>1, <1>2, WidthsAssumption DEF ToInt

(* A request has a size, and its product is one.                           *)
LEMMA RequestSizes ==
  ASSUME NEW r \in Requests
  PROVE  r[1] \in Nat \ {0} /\ r[2] \in Nat \ {0} /\ r[1] * r[2] \in Nat \ {0}
<1>1. r[1] \in Nat \ {0} /\ r[2] \in Nat \ {0}
  BY SizesAssumption, WidthsAssumption
<1>2. \A m, n \in Nat \ {0} : m * n \in Nat \ {0}
  OBVIOUS
<1> QED BY <1>1, <1>2

(* The invariant reads the state alone: what the steps below change.       *)
LEMMA KeepsAre ==
  BlocksKeepContents <=> \A b \in blocks : Keeps(b, page)
BY DEF BlocksKeepContents, Keeps

-----------------------------------------------------------------------------
(* Mapping and unmapping.                                                  *)

LEMMA MmapNativeStep ==
  ASSUME IInv, NEW len \in Lengths, Mmap(len), build = "native"
  PROVE  IInv'
<1>1. PICK start \in Pages :
        /\ Run(start, len) \subseteq {p \in Pages : page[p] = "none"}
        /\ page' = Fill(Run(start, len), "zero")
        /\ chunks' = chunks \cup {Chunk(start, len)}
        /\ trusted' = trusted \cup Run(start, len)
  BY DEF Mmap, MmapNative
<1> DEFINE new == Chunk(start, len)
           run == Run(start, len)
<1>2. /\ UNCHANGED <<build, large, blocks, brk, status>>
  BY DEF Mmap, MmapNative
<1>3. len \in Nat \ {0} /\ start \in Nat
  BY IntLength DEF Pages
<1>4. new.start = start /\ new.size = len /\ Extent(new) = run
  BY DEF Chunk, Extent
<1>5. start \in run /\ run \subseteq Pages
  BY <1>1, <1>3, InRun
<1>6. /\ page' \in [Pages -> {"none", "zero", "data"}]
      /\ \A p \in Pages : page'[p] = IF p \in run THEN "zero" ELSE page[p]
  BY <1>1 DEF IInv, TypeOK, Fill
<1>7. /\ \A c \in chunks : \A p \in Extent(c) : p \notin run
      /\ \A b \in blocks : \A p \in Extent(b) : p \in Pages /\ p \notin run
      /\ FirstBreak <= start
  <2>1. \A p \in run : page[p] = "none"
    BY <1>1
  <2>2. FirstBreak <= start
    BY <2>1, <1>3, <1>5, SpaceAssumption DEF IInv, NativeSpace, Pages
  <2> QED BY <2>1, <2>2 DEF IInv, NativeSpace, TypeOK
<1> HIDE DEF new, run
<1>8. chunks' = chunks \cup {new} /\ trusted' = trusted \cup run
  BY <1>1 DEF new, run
<1>9. Shapes'
  <2>1. new \in [start : Nat, size : Lengths]
    BY <1>3 DEF new, Chunk
  <2> QED BY <1>2, <1>8, <2>1 DEF IInv, Shapes
<1>10. TypeOK'
  <2>1. trusted' \subseteq Pages \cap UNION {Extent(c) : c \in chunks'}
    BY <1>4, <1>5, <1>8 DEF IInv, TypeOK
  <2>2. Used' = Used /\ Used \cap run = {}
    BY <1>2, <1>7 DEF Used
  <2>3. trusted' \subseteq (Pages \cap UNION {Extent(c) : c \in chunks'}) \ Used'
    BY <1>8, <2>1, <2>2 DEF IInv, TypeOK
  <2>4. \A c \in chunks' : c.start \in Nat /\ c.size \in Lengths
    BY <1>3, <1>4, <1>8 DEF IInv, TypeOK
  <2> QED BY <1>2, <1>6, <2>3, <2>4 DEF IInv, TypeOK
<1>11. ChunksApart'
  <2>1. status /= "lost"
    BY DEF IInv, NativeSpace
  <2>2. \A c, d \in chunks' : c /= d => Extent(c) \cap Extent(d) = {}
    BY <1>4, <1>7, <1>8, <2>1 DEF IInv, ChunksApart
  <2>3. \A c \in chunks' : FirstBreak <= c.start
    BY <1>4, <1>7, <1>8, <2>1 DEF IInv, ChunksApart
  <2> QED BY <1>2, <2>2, <2>3 DEF ChunksApart
<1>12. NativeSpace'
  <2>1. \A p \in Pages : p < FirstBreak => page'[p] /= "none"
    BY <1>6 DEF IInv, NativeSpace
  <2>2. \A c \in chunks' : \A p \in Extent(c) : p \in Pages /\ page'[p] /= "none"
    BY <1>4, <1>5, <1>6, <1>8 DEF IInv, NativeSpace
  <2>3. \A b \in blocks' : \A p \in Extent(b) : page'[p] /= "none"
    BY <1>2, <1>6, <1>7 DEF IInv, NativeSpace
  <2>4. \A p \in trusted' : page'[p] = "zero"
    BY <1>5, <1>6, <1>8 DEF IInv, NativeSpace, TypeOK
  <2> QED BY <1>2, <2>1, <2>2, <2>3, <2>4 DEF IInv, NativeSpace
<1>13. BlocksKeepContents'
  <2>1. \A b \in blocks : \A p \in Extent(b) : page'[p] = page[p]
    BY <1>6, <1>7
  <2> QED BY <1>2, <2>1 DEF IInv, BlocksKeepContents
<1> QED BY <1>2, <1>9, <1>10, <1>11, <1>12, <1>13
       DEF IInv, BlocksApart, SbrkSpace

LEMMA MmapSbrkStep ==
  ASSUME IInv, NEW len \in Lengths, Mmap(len), build /= "native"
  PROVE  IInv'
<1> DEFINE new == Chunk(brk, len)
           run == Run(brk, len)
<1>1. /\ brk + ToInt(len) \in 0..PAGES
      /\ brk' = brk + ToInt(len)
      /\ chunks' = chunks \cup {new}
      /\ trusted' = trusted \cup (run \cap Pages)
      /\ status' = IF ToInt(len) = len THEN status ELSE "lost"
      /\ UNCHANGED <<page, build, large, blocks>>
      /\ status = "running" /\ build = "semihosting"
  BY DEF Mmap, MmapSbrk, NewBreak, Running, IInv, TypeOK, Builds
<1>2. /\ len \in Nat \ {0} /\ ToInt(len) \in Int
      /\ brk \in Nat /\ PAGES \in Nat /\ brk' \in 0..PAGES
  BY <1>1, IntLength, SpaceAssumption DEF IInv, TypeOK
<1>3. /\ new.start = brk /\ new.size = len /\ Extent(new) = run
      /\ new \in [start : Nat, size : Lengths]
  BY <1>2 DEF Chunk, Extent
<1>4. /\ FirstBreak <= brk /\ FirstBreak \in Nat
      /\ \A b \in blocks : \A p \in Extent(b) : p < brk
  BY <1>1, SpaceAssumption DEF IInv, SbrkSpace, Pages
<1>5. \A p \in run : p \in Nat /\ brk <= p
  BY <1>2, InRun
<1> HIDE DEF new, run
<1>6. Used' = Used /\ Used \cap run = {}
  BY <1>1, <1>2, <1>4, <1>5 DEF Used
<1>7. TypeOK'
  <2>1. trusted' \subseteq (Pages \cap UNION {Extent(c) : c \in chunks'}) \ Used'
    BY <1>1, <1>3, <1>6 DEF IInv, TypeOK
  <2>2. \A c \in chunks' : c.start \in Nat /\ c.size \in Lengths
    BY <1>1, <1>2, <1>3 DEF IInv, TypeOK
  <2> QED BY <1>1, <1>2, <2>1, <2>2 DEF IInv, TypeOK
<1>8. Shapes'
  BY <1>1, <1>3 DEF IInv, Shapes
<1>9. ASSUME status' /= "lost"
      PROVE  ChunksApart' /\ SbrkSpace'
  <2>1. brk' = brk + len
    BY <1>1, <1>9
  <2>2. \A c \in chunks : \A p \in Extent(c) : p \in Nat /\ p < brk
    <3> SUFFICES ASSUME NEW c \in chunks, NEW p \in Extent(c)
                 PROVE  p \in Nat /\ p < brk
      OBVIOUS
    <3>1. c.start \in Nat /\ c.size \in Nat /\ c.start + c.size <= brk
      BY <1>1, IntLength DEF IInv, TypeOK, ChunksApart
    <3>2. p \in Nat /\ p < c.start + c.size
      BY <3>1, InRun DEF Extent
    <3> QED BY <1>2, <3>1, <3>2
  <2>3. \A c \in chunks : Extent(c) \cap Extent(new) = {}
    BY <1>2, <1>3, <1>5, <2>2
  <2>4. \A c, d \in chunks' : c /= d => Extent(c) \cap Extent(d) = {}
    BY <1>1, <2>3 DEF IInv, ChunksApart
  <2>5. \A c \in chunks' : FirstBreak <= c.start /\ c.start + c.size <= brk'
    <3>1. \A c \in chunks : /\ FirstBreak <= c.start /\ c.start + c.size <= brk
                            /\ c.start \in Nat /\ c.size \in Nat
      BY <1>1, IntLength DEF IInv, TypeOK, ChunksApart
    <3> QED BY <1>1, <1>2, <1>3, <1>4, <2>1, <3>1
  <2>6. \A b \in blocks : \A p \in Extent(b) : p < brk'
    <3>1. \A b \in blocks : \A p \in Extent(b) : p \in Nat
      BY DEF IInv, TypeOK, Pages
    <3> QED BY <1>2, <1>4, <2>1, <3>1
  <2> QED BY <1>1, <1>2, <1>4, <2>1, <2>4, <2>5, <2>6
          DEF ChunksApart, SbrkSpace
<1>10. ChunksApart' /\ SbrkSpace'
  BY <1>9 DEF ChunksApart, SbrkSpace
<1>11. BlocksApart' /\ NativeSpace' /\ BlocksKeepContents'
  BY <1>1 DEF IInv, BlocksApart, NativeSpace, BlocksKeepContents
<1> QED BY <1>7, <1>8, <1>10, <1>11 DEF IInv

LEMMA MadviseStep ==
  ASSUME IInv, Madvise
  PROVE  IInv'
<1>0. PICK c \in chunks : \E first \in Extent(c), last \in Extent(c) :
        /\ first <= last
        /\ first..last \subseteq Pages \ Used
        /\ trusted' = trusted \cup (first..last)
        /\ page' = IF build = "native" THEN Fill(first..last, "zero") ELSE page
  BY DEF Madvise
<1>1. PICK first \in Extent(c), last \in Extent(c) :
        /\ first <= last
        /\ first..last \subseteq Pages \ Used
        /\ trusted' = trusted \cup (first..last)
        /\ page' = IF build = "native" THEN Fill(first..last, "zero") ELSE page
  BY <1>0
<1>2. UNCHANGED <<build, large, brk, chunks, blocks, status>>
  BY DEF Madvise
<1>3. first..last \subseteq Extent(c)
  <2>1. c.start \in Nat /\ c.size \in Nat
    BY IntLength DEF IInv, TypeOK
  <2>2. \A p \in first..last : p \in Int /\ first <= p /\ p <= last
    OBVIOUS
  <2> QED BY <2>1, <2>2 DEF Extent, Run
<1> DEFINE run == first..last
<1>4. run \subseteq Extent(c) /\ run \subseteq Pages \ Used
  BY <1>1, <1>3
<1>5. /\ page' \in [Pages -> {"none", "zero", "data"}]
      /\ \A p \in Pages :
           page'[p] = IF build = "native" /\ p \in run THEN "zero" ELSE page[p]
  BY <1>1 DEF IInv, TypeOK, Fill
<1>6. trusted' = trusted \cup run
  BY <1>1
<1> HIDE DEF run
<1>7. TypeOK'
  <2>1. Used' = Used
    BY <1>2 DEF Used
  <2> QED BY <1>2, <1>4, <1>5, <1>6, <2>1 DEF IInv, TypeOK
<1>8. NativeSpace'
  BY <1>2, <1>4, <1>5, <1>6 DEF IInv, NativeSpace, TypeOK
<1>9. BlocksKeepContents'
  <2>1. \A b \in blocks : \A p \in Extent(b) : page'[p] = page[p]
    BY <1>4, <1>5, InUsed DEF IInv, TypeOK
  <2> QED BY <1>2, <2>1 DEF IInv, BlocksKeepContents
<1> QED BY <1>2, <1>7, <1>8, <1>9
       DEF IInv, Shapes, BlocksApart, SbrkSpace, ChunksApart

LEMMA MunmapStep ==
  ASSUME IInv, Munmap
  PROVE  IInv'
<1>1. PICK c \in chunks :
        /\ Extent(c) \cap Used = {}
        /\ chunks' = chunks \ {c}
        /\ trusted' = trusted \ Extent(c)
        /\ IF build = "native"
           THEN page' = Fill(Extent(c), "none") /\ UNCHANGED brk
           ELSE brk' = UnmappedBreak(c) /\ UNCHANGED page
  BY DEF Munmap
<1>2. UNCHANGED <<build, large, blocks, status>> /\ status = "running"
  BY DEF Munmap, Running
<1>3. brk' = brk
  BY <1>1 DEF UnmappedBreak
<1>4. /\ page' \in [Pages -> {"none", "zero", "data"}]
      /\ \A p \in Pages :
           page'[p] = IF build = "native" /\ p \in Extent(c) THEN "none"
                                                             ELSE page[p]
  BY <1>1 DEF IInv, TypeOK, Fill
<1>5. TypeOK'
  <2>1. Used' = Used
    BY <1>2 DEF Used
  <2>2. trusted' \subseteq UNION {Extent(d) : d \in chunks'}
    BY <1>1 DEF IInv, TypeOK
  <2>3. trusted' \subseteq (Pages \cap UNION {Extent(d) : d \in chunks'}) \ Used'
    BY <1>1, <2>1, <2>2 DEF IInv, TypeOK
  <2>4. \A d \in chunks' : d.start \in Nat /\ d.size \in Lengths
    BY <1>1 DEF IInv, TypeOK
  <2> QED BY <1>2, <1>3, <1>4, <2>3, <2>4 DEF IInv, TypeOK
<1>6. \A d \in chunks' : d \in chunks /\ Extent(d) \cap Extent(c) = {}
  BY <1>1, <1>2 DEF IInv, ChunksApart
<1>7. ChunksApart'
  BY <1>2, <1>3, <1>6 DEF IInv, ChunksApart
<1>8. \A b \in blocks : \A p \in Extent(b) : p \in Pages /\ p \notin Extent(c)
  BY <1>1, InUsed DEF IInv, TypeOK
<1>9. NativeSpace'
  <2> SUFFICES ASSUME build = "native"
               PROVE  NativeSpace'
    BY <1>2 DEF NativeSpace
  <2>1. \A p \in Pages : p < FirstBreak => page'[p] /= "none"
    <3>1. c.start \in Nat /\ c.size \in Nat /\ FirstBreak <= c.start
      BY <1>2, IntLength DEF IInv, TypeOK, ChunksApart
    <3>2. \A p \in Extent(c) : ~(p < FirstBreak)
      <4>1. \A p \in Extent(c) : p \in Nat /\ c.start <= p
        BY <3>1, InRun DEF Extent
      <4> QED BY <3>1, <4>1, SpaceAssumption DEF Pages
    <3> QED BY <1>4, <3>2 DEF IInv, NativeSpace
  <2>2. \A d \in chunks' : \A p \in Extent(d) : p \in Pages /\ page'[p] /= "none"
    BY <1>4, <1>6 DEF IInv, NativeSpace
  <2>3. \A b \in blocks' : \A p \in Extent(b) : page'[p] /= "none"
    BY <1>2, <1>4, <1>8 DEF IInv, NativeSpace
  <2>4. \A p \in trusted' : page'[p] = "zero"
    BY <1>1, <1>4 DEF IInv, NativeSpace, TypeOK
  <2> QED BY <1>2, <2>1, <2>2, <2>3, <2>4 DEF NativeSpace
<1>10. BlocksKeepContents'
  <2>1. \A b \in blocks : \A p \in Extent(b) : page'[p] = page[p]
    BY <1>4, <1>8
  <2> QED BY <1>2, <2>1 DEF IInv, BlocksKeepContents
<1>11. Shapes' /\ BlocksApart' /\ SbrkSpace'
  BY <1>1, <1>2, <1>3 DEF IInv, Shapes, BlocksApart, SbrkSpace
<1> QED BY <1>5, <1>7, <1>9, <1>10, <1>11 DEF IInv

-----------------------------------------------------------------------------
(* Handing out blocks and writing to them.                                 *)

(* Where jemalloc may put a block.                                         *)
LEMMA FitsAre ==
  ASSUME IInv, Running, NEW size \in Nat \ {0}, NEW start \in Nat, NEW own,
         Fits(start, size, own)
  PROVE  \A p \in Run(start, size) :
           /\ p \in Pages /\ p \in Nat
           /\ build = "native" => page[p] /= "none"
           /\ build = "semihosting" => p < brk
           /\ \A b \in blocks : p \in Extent(b) => p \in own
<1> SUFFICES ASSUME NEW p \in Run(start, size)
             PROVE  /\ p \in Pages /\ p \in Nat
                    /\ build = "native" => page[p] /= "none"
                    /\ build = "semihosting" => p < brk
                    /\ \A b \in blocks : p \in Extent(b) => p \in own
  OBVIOUS
<1>1. PICK c \in chunks : p \in Extent(c) /\ p \in Pages
  BY DEF Fits
<1>2. p \in Nat
  BY InRun
<1>3. build = "native" => page[p] /= "none"
  BY <1>1 DEF IInv, NativeSpace
<1>4. build = "semihosting" => p < brk
  <2>1. c.start \in Nat /\ c.size \in Nat /\ brk \in Nat
    BY IntLength, SpaceAssumption DEF IInv, TypeOK
  <2>2. p < c.start + c.size
    BY <1>1, <2>1, InRun DEF Extent
  <2>3. build = "semihosting" => c.start + c.size <= brk
    BY DEF IInv, ChunksApart, Running
  <2> QED BY <1>2, <2>1, <2>2, <2>3
<1>5. \A b \in blocks : p \in Extent(b) => p \in own
  BY InUsed DEF Fits
<1> QED BY <1>1, <1>2, <1>3, <1>4, <1>5

(* A block takes the place of others, apart from those that stay: what the *)
(* invariant needs of it.                                                  *)
Replaced(old, new) ==
  /\ Running
  /\ UNCHANGED <<build, large, brk, chunks, status>>
  /\ blocks' = (blocks \ old) \cup {new}
  /\ new \in [start : Nat, size : Nat \ {0}, holds : Contents]
  /\ trusted' = trusted \ Extent(new)
  /\ page' \in [Pages -> {"none", "zero", "data"}]
  /\ \A p \in Pages : p \notin Extent(new) => page'[p] = page[p]
  /\ \A p \in Extent(new) :
       /\ p \in Pages
       /\ build = "native" => page'[p] /= "none"
       /\ build = "semihosting" => p < brk
       /\ \A b \in blocks \ old : p \notin Extent(b)
  /\ Keeps(new, page')

LEMMA ReplacedStep ==
  ASSUME IInv, NEW old, NEW new, Replaced(old, new)
  PROVE  IInv'
<1>1. /\ status = "running"
      /\ UNCHANGED <<build, large, brk, chunks, status>>
      /\ blocks' = (blocks \ old) \cup {new}
      /\ new \in [start : Nat, size : Nat \ {0}, holds : Contents]
      /\ trusted' = trusted \ Extent(new)
      /\ page' \in [Pages -> {"none", "zero", "data"}]
      /\ \A p \in Pages : p \notin Extent(new) => page'[p] = page[p]
      /\ \A p \in Extent(new) :
           /\ p \in Pages
           /\ build = "native" => page'[p] /= "none"
           /\ build = "semihosting" => p < brk
           /\ \A b \in blocks \ old : p \notin Extent(b)
      /\ Keeps(new, page')
  BY DEF Replaced, Running
<1>2. Shapes'
  BY <1>1 DEF IInv, Shapes
<1>3. TypeOK'
  <2>1. \A p \in Used' : p \in Used \/ p \in Extent(new)
    <3>1. \A p : p \in Used' <=> \E b \in blocks' : p \in Extent(b)
      BY DEF Used
    <3> QED BY <1>1, <3>1, InUsed
  <2>2. trusted' \subseteq (Pages \cap UNION {Extent(c) : c \in chunks'}) \ Used'
    BY <1>1, <2>1 DEF IInv, TypeOK
  <2>3. \A b \in blocks' : Extent(b) \subseteq Pages /\ b.holds \in Contents
    BY <1>1 DEF IInv, TypeOK, Contents
  <2> QED BY <1>1, <2>2, <2>3 DEF IInv, TypeOK, Contents
<1>4. BlocksApart'
  BY <1>1 DEF IInv, BlocksApart
<1>5. ChunksApart'
  BY <1>1 DEF IInv, ChunksApart
<1>6. \A b \in blocks \ old : \A p \in Extent(b) :
        p \in Pages /\ page'[p] = page[p]
  BY <1>1 DEF IInv, TypeOK
<1>7. NativeSpace'
  <2> SUFFICES ASSUME build = "native"
               PROVE  NativeSpace'
    BY <1>1 DEF NativeSpace
  <2>1. \A p \in Pages : page[p] /= "none" => page'[p] /= "none"
    BY <1>1
  <2>2. \A b \in blocks' : \A p \in Extent(b) : page'[p] /= "none"
    BY <1>1, <1>6 DEF IInv, NativeSpace
  <2>3. \A p \in trusted' : page'[p] = "zero"
    BY <1>1 DEF IInv, NativeSpace, TypeOK
  <2> QED BY <1>1, <2>1, <2>2, <2>3 DEF IInv, NativeSpace
<1>8. SbrkSpace'
  BY <1>1 DEF IInv, SbrkSpace
<1>9. BlocksKeepContents'
  <2>1. \A b \in blocks \ old : Keeps(b, page')
    BY <1>6, KeepsAre DEF IInv, Keeps
  <2>2. \A b \in blocks' : Keeps(b, page')
    BY <1>1, <2>1
  <2> QED BY <1>1, <2>2 DEF Keeps, BlocksKeepContents
<1> QED BY <1>2, <1>3, <1>4, <1>5, <1>7, <1>8, <1>9 DEF IInv

LEMMA MallocStep ==
  ASSUME IInv, NEW size \in Nat \ {0}, Malloc(size)
  PROVE  IInv'
<1>1. PICK start \in Places(size) :
        /\ blocks' = blocks \cup {Block(start, size, "any")}
        /\ trusted' = trusted \ Run(start, size)
  BY DEF Malloc
<1>2. Running /\ UNCHANGED <<build, large, brk, page, chunks, status>>
  BY DEF Malloc
<1> DEFINE new == Block(start, size, "any")
<1>3. start \in Nat /\ Fits(start, size, {})
  BY DEF Places, Pages
<1>4. /\ new \in [start : Nat, size : Nat \ {0}, holds : Contents]
      /\ new.holds = "any" /\ Extent(new) = Run(start, size)
  BY <1>3 DEF Block, Contents, Extent
<1> HIDE DEF new
<1>5. \A p \in Extent(new) :
           /\ p \in Pages
           /\ build = "native" => page[p] /= "none"
           /\ build = "semihosting" => p < brk
           /\ \A b \in blocks : p \notin Extent(b)
  BY <1>2, <1>3, <1>4, FitsAre
<1>6. blocks' = (blocks \ {}) \cup {new} /\ trusted' = trusted \ Extent(new)
  BY <1>1, <1>4 DEF new
<1>7. Replaced({}, new)
  BY <1>2, <1>4, <1>5, <1>6 DEF Replaced, Keeps, IInv, TypeOK
<1> QED BY <1>7, ReplacedStep

LEMMA CallocStep ==
  ASSUME IInv, NEW n \in Nat \ {0}, NEW m \in Nat \ {0}, n * m \in Nat \ {0},
         Calloc(n, m)
  PROVE  IInv'
<1> DEFINE size == n * m
<1>0. size \in Nat \ {0} /\ Total(n, m) = size
  BY WidthsAssumption DEF Calloc, Total
<1>1. PICK start \in Places(size) :
        /\ blocks' = blocks \cup {Block(start, size, "zero")}
        /\ trusted' = trusted \ Run(start, size)
        /\ page' = Fill(JeClears(start, size) \cup Clears(start, n, m), "zero")
  BY DEF Calloc
<1>2. Running /\ UNCHANGED <<build, large, brk, chunks, status>>
  BY DEF Calloc
<1> HIDE DEF size
<1> DEFINE new == Block(start, size, "zero")
           run == JeClears(start, size) \cup Clears(start, n, m)
<1>3. start \in Nat /\ Fits(start, size, {})
  BY DEF Places, Pages
<1>4. /\ new \in [start : Nat, size : Nat \ {0}, holds : Contents]
      /\ new.holds = "zero" /\ Extent(new) = Run(start, size)
  BY <1>0, <1>3 DEF Block, Contents, Extent
<1>5. \A p \in Extent(new) :
           /\ p \in Pages
           /\ build = "native" => page[p] /= "none"
           /\ build = "semihosting" => p < brk
           /\ \A b \in blocks : p \notin Extent(b)
  BY <1>0, <1>2, <1>3, <1>4, FitsAre
<1>6. /\ run \subseteq Extent(new)
      /\ \A p \in Extent(new) : p \in run \/ p \in trusted
      /\ large < THRESHOLD \/ run = Extent(new)
  <2>1. Clears(start, n, m) = IF size >= THRESHOLD THEN Run(start, size) ELSE {}
    BY <1>0 DEF Clears, IsLarge
  <2>2. large \in Nat
    BY SizesAssumption DEF IInv, TypeOK
  <2> QED BY <1>0, <1>4, <2>1, <2>2, SizesAssumption DEF JeClears
<1> HIDE DEF new, run
<1>7. blocks' = (blocks \ {}) \cup {new} /\ trusted' = trusted \ Extent(new)
  BY <1>1, <1>4 DEF new
<1>8. /\ page' \in [Pages -> {"none", "zero", "data"}]
      /\ \A p \in Pages : page'[p] = IF p \in run THEN "zero" ELSE page[p]
  BY <1>1 DEF IInv, TypeOK, Fill, run
<1>9. Keeps(new, page')
  <2>1. CASE build = "native"
    <3>1. \A p \in trusted : page[p] = "zero"
      BY <2>1 DEF IInv, NativeSpace
    <3> QED BY <1>4, <1>5, <1>6, <1>8, <3>1 DEF Keeps
  <2>2. CASE build = "semihosting"
    BY <1>4, <1>5, <1>6, <1>8, <2>2 DEF Keeps
  <2> QED BY <2>1, <2>2 DEF IInv, TypeOK, Builds
<1>10. /\ \A p \in Pages : p \notin Extent(new) => page'[p] = page[p]
       /\ \A p \in Extent(new) : build = "native" => page'[p] /= "none"
  BY <1>5, <1>6, <1>8
<1>11. Replaced({}, new)
  BY <1>2, <1>4, <1>5, <1>7, <1>8, <1>9, <1>10 DEF Replaced
<1> QED BY <1>11, ReplacedStep

LEMMA ReallocStep ==
  ASSUME IInv, NEW b \in blocks, NEW size \in Nat \ {0}, Realloc(b, size)
  PROVE  IInv'
<1> DEFINE kept == IF size < b.size THEN size ELSE b.size
           holds == IF size <= b.size THEN b.holds ELSE "any"
<1>1. PICK start \in Places(size) \cup {b.start} :
        /\ start = b.start => Fits(start, size, Extent(b))
        /\ blocks' = (blocks \ {b}) \cup {Block(start, size, holds)}
        /\ trusted' = trusted \ Run(start, size)
        /\ page' = [p \in Pages |->
             IF p \in Run(start, kept) THEN page[b.start + (p - start)]
                                       ELSE page[p]]
  BY DEF Realloc
<1>2. Running /\ UNCHANGED <<build, large, brk, chunks, status>>
  BY DEF Realloc
<1> DEFINE new == Block(start, size, holds)
<1>3. /\ b.start \in Nat /\ b.size \in Nat \ {0}
      /\ b.holds \in Contents /\ holds \in Contents
      /\ kept \in Nat \ {0} /\ kept <= size /\ kept <= b.size
      /\ start \in Nat
  BY DEF IInv, Shapes, Contents, Places, Pages
<1>4. /\ new \in [start : Nat, size : Nat \ {0}, holds : Contents]
      /\ new.holds = holds /\ Extent(new) = Run(start, size)
  BY <1>3 DEF Block, Extent
<1>5. \A p \in Run(start, kept) :
        /\ p \in Run(start, size) /\ b.start + (p - start) \in Extent(b)
  <2> HIDE DEF kept
  <2> SUFFICES ASSUME NEW p \in Run(start, kept)
               PROVE  /\ p \in Run(start, size)
                      /\ b.start + (p - start) \in Extent(b)
    OBVIOUS
  <2>1. p \in Nat /\ start <= p /\ p < start + kept
    BY <1>3, InRun
  <2> QED BY <1>3, <2>1 DEF Extent, Run
<1>6. \A p \in Extent(new) :
           /\ p \in Pages
           /\ build = "native" => page[p] /= "none"
           /\ build = "semihosting" => p < brk
           /\ \A a \in blocks \ {b} : p \notin Extent(a)
  <2>1. CASE Fits(start, size, {})
    BY <1>2, <1>3, <1>4, <2>1, FitsAre
  <2>2. CASE Fits(start, size, Extent(b))
    BY <1>2, <1>3, <1>4, <2>2, FitsAre DEF IInv, BlocksApart
  <2> QED BY <1>1, <2>1, <2>2 DEF Places
<1>7. \A p \in Extent(b) : /\ p \in Pages
                           /\ build = "native" => page[p] /= "none"
  BY DEF IInv, TypeOK, NativeSpace
<1>8. size <= b.size => kept = size
  BY <1>3
<1>9. size <= b.size \/ holds = "any"
  BY <1>3
<1>a. size <= b.size => holds = b.holds
  OBVIOUS
<1> HIDE DEF new, kept, holds
<1>10. /\ blocks' = (blocks \ {b}) \cup {new}
       /\ trusted' = trusted \ Extent(new)
  BY <1>1, <1>4 DEF new
<1>11. \A p \in Pages :
         page'[p] = IF p \in Run(start, kept) THEN page[b.start + (p - start)]
                                              ELSE page[p]
  BY <1>1
<1>12. page' \in [Pages -> {"none", "zero", "data"}]
  BY <1>1, <1>5, <1>7 DEF IInv, TypeOK
<1>13. /\ \A p \in Pages : p \notin Extent(new) => page'[p] = page[p]
       /\ \A p \in Extent(new) : build = "native" => page'[p] /= "none"
  BY <1>4, <1>5, <1>6, <1>7, <1>11
<1>14. Keeps(new, page')
  <2>1. Keeps(b, page)
    BY KeepsAre DEF IInv
  <2>2. CASE holds = "any"
    BY <1>4, <2>2 DEF Keeps
  <2>3. CASE size <= b.size
    <3>1. kept = size /\ holds = b.holds
      BY <1>8, <1>a, <2>3
    <3>2. \A p \in Extent(new) :
            /\ b.start + (p - start) \in Extent(b)
            /\ page'[p] = page[b.start + (p - start)]
      BY <1>4, <1>5, <1>6, <1>11, <3>1
    <3> QED BY <1>4, <2>1, <3>1, <3>2 DEF Keeps
  <2> QED BY <1>9, <2>2, <2>3
<1>15. Replaced({b}, new)
  BY <1>2, <1>4, <1>6, <1>10, <1>12, <1>13, <1>14 DEF Replaced
<1> QED BY <1>15, ReplacedStep

LEMMA WriteStep ==
  ASSUME IInv, NEW b \in blocks, Write(b)
  PROVE  IInv'
<1> DEFINE new == [b EXCEPT !.holds = "data"]
<1>1. /\ Running /\ UNCHANGED <<build, large, brk, chunks, trusted, status>>
      /\ blocks' = (blocks \ {b}) \cup {new}
      /\ page' = Fill(Extent(b), "data")
  BY DEF Write
<1>2. b \in [start : Nat, size : Nat \ {0}, holds : Contents]
  BY DEF IInv, Shapes
<1>3. /\ new \in [start : Nat, size : Nat \ {0}, holds : Contents]
      /\ new.holds = "data" /\ Extent(new) = Extent(b)
  BY <1>2 DEF Extent, Contents
<1>4. /\ page' \in [Pages -> {"none", "zero", "data"}]
      /\ \A p \in Pages : page'[p] = IF p \in Extent(b) THEN "data" ELSE page[p]
  BY <1>1 DEF IInv, TypeOK, Fill
<1> HIDE DEF new
<1>5. trusted' = trusted \ Extent(new)
  BY <1>1, <1>3, InUsed DEF IInv, TypeOK
<1>6. \A p \in Extent(new) :
           /\ p \in Pages
           /\ build = "native" => page'[p] /= "none"
           /\ build = "semihosting" => p < brk
           /\ \A a \in blocks \ {b} : p \notin Extent(a)
  BY <1>1, <1>3, <1>4
     DEF IInv, TypeOK, BlocksApart, SbrkSpace, Running
<1>7. Replaced({b}, new)
  BY <1>1, <1>3, <1>4, <1>5, <1>6 DEF Replaced, Keeps
<1> QED BY <1>7, ReplacedStep

LEMMA FreeStep ==
  ASSUME IInv, NEW b \in blocks, Free(b)
  PROVE  IInv'
<1>1. /\ UNCHANGED <<build, large, brk, page, chunks, trusted, status>>
      /\ blocks' = blocks \ {b}
  BY DEF Free
<1>2. TypeOK'
  <2>1. Used' \subseteq Used
    BY <1>1 DEF Used
  <2> QED BY <1>1, <2>1 DEF IInv, TypeOK
<1> QED BY <1>1, <1>2 DEF IInv, Shapes, BlocksApart, NativeSpace, SbrkSpace,
                          ChunksApart, BlocksKeepContents

-----------------------------------------------------------------------------
(* The invariant holds.                                                    *)

LEMMA InitIInv == Init => IInv
<1> SUFFICES ASSUME Init
             PROVE  IInv
  OBVIOUS
<1>1. /\ chunks = {} /\ blocks = {} /\ trusted = {} /\ status = "running"
      /\ brk = FirstBreak /\ build \in Builds /\ large \in Larges
      /\ FirstBreak \in Nat /\ FirstBreak \in 0..PAGES
  BY SpaceAssumption DEF Init, Pages
<1>2. /\ page \in [Pages -> {"none", "zero", "data"}]
      /\ \A p \in Pages : p < FirstBreak => page[p] = "data"
  BY DEF Init
<1>3. TypeOK
  BY <1>1, <1>2 DEF TypeOK
<1>4. ChunksApart /\ BlocksKeepContents /\ Shapes /\ BlocksApart
  BY <1>1 DEF ChunksApart, BlocksKeepContents, Shapes, BlocksApart
<1> QED BY <1>1, <1>2, <1>3, <1>4 DEF IInv, NativeSpace, SbrkSpace

LEMMA NextIInv == IInv /\ [Next]_vars => IInv'
<1> SUFFICES ASSUME IInv, [Next]_vars
             PROVE  IInv'
  OBVIOUS
<1>1. ASSUME NEW len \in Lengths, Mmap(len)
      PROVE  IInv'
  BY <1>1, MmapNativeStep, MmapSbrkStep
<1>2. CASE Madvise
  BY <1>2, MadviseStep
<1>3. CASE Munmap
  BY <1>3, MunmapStep
<1>4. ASSUME NEW r \in Requests,
             Malloc(r[2]) \/ Calloc(r[1], r[2]) \/ CallocNull(r[1], r[2])
      PROVE  IInv'
  <2>1. r[1] \in Nat \ {0} /\ r[2] \in Nat \ {0} /\ r[1] * r[2] \in Nat \ {0}
    BY RequestSizes
  <2>2. CASE Malloc(r[2])
    BY <2>1, <2>2, MallocStep
  <2>3. CASE Calloc(r[1], r[2])
    BY <2>1, <2>3, CallocStep
  <2>4. CASE CallocNull(r[1], r[2])
    <3>1. /\ status = "running" /\ status' = "fault"
          /\ UNCHANGED <<build, large, brk, page, chunks, trusted, blocks>>
      BY <2>4 DEF CallocNull, Running
    <3>2. TypeOK'
      <4>1. Used' = Used
        BY <3>1 DEF Used
      <4> QED BY <3>1, <4>1 DEF IInv, TypeOK
    <3> QED BY <3>1, <3>2 DEF IInv, Shapes, BlocksApart, NativeSpace,
                 SbrkSpace, ChunksApart, BlocksKeepContents
  <2> QED BY <1>4, <2>2, <2>3, <2>4
<1>5. ASSUME NEW b \in blocks,
             (\E r \in Requests : Realloc(b, r[2])) \/ Free(b) \/ Write(b)
      PROVE  IInv'
  <2>1. CASE \E r \in Requests : Realloc(b, r[2])
    <3>1. PICK r \in Requests : Realloc(b, r[2])
      BY <2>1
    <3>2. r[2] \in Nat \ {0}
      BY RequestSizes
    <3> QED BY <3>1, <3>2, ReallocStep
  <2>2. CASE Free(b)
    BY <2>2, FreeStep
  <2>3. CASE Write(b)
    BY <2>3, WriteStep
  <2> QED BY <1>5, <2>1, <2>2, <2>3
<1>6. CASE UNCHANGED vars
  <2>1. UNCHANGED <<build, large, brk, page, chunks, trusted, blocks, status>>
    BY <1>6 DEF vars
  <2>2. TypeOK'
    <3>1. Used' = Used
      BY <2>1 DEF Used
    <3> QED BY <2>1, <3>1 DEF IInv, TypeOK
  <2> QED BY <2>1, <2>2 DEF IInv, Shapes, BlocksApart, NativeSpace, SbrkSpace,
               ChunksApart, BlocksKeepContents
<1> QED BY <1>1, <1>2, <1>3, <1>4, <1>5, <1>6 DEF Next

(* The state keeps its shape: jemalloc trusts only free pages of what it   *)
(* has mapped, whatever it purges, gives back and hands out.               *)
THEOREM Typing == Spec => []TypeOK
<1>1. IInv => TypeOK
  BY DEF IInv
<1> QED BY InitIInv, NextIInv, <1>1, PTL DEF Spec

(* A block holds what its owner last put there; in the semihosting build a *)
(* zeroed one, too, where jemalloc trusts pages only from the threshold of *)
(* s_calloc on.                                                            *)
THEOREM ContentsKept == Spec => []BlocksKeepContents
<1>1. IInv => BlocksKeepContents
  BY DEF IInv
<1> QED BY InitIInv, NextIInv, <1>1, PTL DEF Spec

(* What is mapped is apart from all other mapped pages and from the        *)
(* program's, until a length that is no int lowers the break.              *)
THEOREM MappedOnce == Spec => []ChunksApart
<1>1. IInv => ChunksApart
  BY DEF IInv
<1> QED BY InitIInv, NextIInv, <1>1, PTL DEF Spec

=============================================================================
