------------------------------- MODULE Shims -------------------------------
(***************************************************************************)
(* stdlib/jemalloc.c: the functions jemalloc gets for what it takes to be  *)
(* the operating system, and s_calloc, which is put before its calloc.     *)
(* The native build passes mmap, madvise and munmap on.  The semihosting   *)
(* build maps with _sbrk, whose memory is not zeroed, and for the other    *)
(* two does nothing and reports success; so jemalloc believes pages to be  *)
(* zero that are not, and s_calloc clears large blocks once more.          *)
(*                                                                         *)
(* jemalloc itself is not part of the sources: it may take, cut, join and  *)
(* give back pages as it likes, it never uses a page twice, and its calloc *)
(* clears a small block always, a large one where it does not trust the    *)
(* pages to be zero.  Sizes are counted in pages.                          *)
(***************************************************************************)
EXTENDS Integers

CONSTANTS
  PAGES,       \* the address space in pages
  FirstBreak,  \* the program and its libraries lie below
  SIZE_T,      \* 2^64, the values of size_t
  INT,         \* 2^32, the values of the int _sbrk takes
  THRESHOLD,   \* 20480 of s_calloc
  Larges,      \* the sizes from which jemalloc may trust pages to be zero
  Lengths,     \* the lengths jemalloc maps
  Requests     \* the <<n, size>> of s_calloc; size alone for s_malloc

Builds == {"native", "semihosting"}
Pages == 0..PAGES - 1
Run(start, size) == start..start + size - 1

ASSUME SpaceAssumption == PAGES \in Nat /\ FirstBreak \in Pages
ASSUME WidthsAssumption == SIZE_T \in Nat \ {0} /\ INT \in Nat \ {0}
ASSUME SizesAssumption ==
  /\ THRESHOLD \in Nat \ {0} /\ Larges \subseteq Nat
  /\ Lengths \subseteq 1..SIZE_T - 1
  /\ Requests \subseteq (1..SIZE_T - 1) \X (1..SIZE_T - 1)

VARIABLES
  build,   \* the build that runs
  large,   \* from this size on jemalloc's calloc trusts its pages
  brk,     \* the program break of the semihosting build
  page,    \* what is in each page: "none" (unmapped), "zero" or "data"
  chunks,  \* what jemalloc has mapped: [start, size]
  trusted, \* free pages jemalloc takes to be zero
  blocks,  \* live blocks: [start, size, holds], "zero", "data" or "any"
  status   \* "running", "fault" (NULL cleared), "lost" (the break fell)

vars == <<build, large, brk, page, chunks, trusted, blocks, status>>

Extent(x) == Run(x.start, x.size)
Used == UNION {Extent(b) : b \in blocks}
Fill(run, what) == [p \in Pages |-> IF p \in run THEN what ELSE page[p]]
Running == status = "running"

-----------------------------------------------------------------------------
(* s_mmap, s_madvise and s_munmap, and what jemalloc does with the answer. *)

\* A size_t passed as an int.
ToInt(len) == LET n == len % INT IN IF 2 * n < INT THEN n ELSE n - INT

Chunk(start, len) == [start |-> start, size |-> len]

MmapNative(len) ==
  \E start \in Pages :
    /\ Run(start, len) \subseteq {p \in Pages : page[p] = "none"}
    /\ page' = Fill(Run(start, len), "zero")
    /\ chunks' = chunks \cup {Chunk(start, len)}
    /\ trusted' = trusted \cup Run(start, len)
    /\ UNCHANGED <<brk, status>>

NewBreak_Wide(len) == brk + len   \* mutant: nothing is converted
NewBreak(len) == brk + ToInt(len)

\* _sbrk refuses what does not fit; the memory is as it was.
MmapSbrk(len) ==
  /\ brk + ToInt(len) \in 0..PAGES
  /\ brk' = NewBreak(len)
  /\ chunks' = chunks \cup {Chunk(brk, len)}
  /\ trusted' = trusted \cup (Run(brk, len) \cap Pages)
  /\ status' = IF ToInt(len) = len THEN status ELSE "lost"
  /\ UNCHANGED page

Mmap(len) == /\ Running
             /\ IF build = "native" THEN MmapNative(len) ELSE MmapSbrk(len)
             /\ UNCHANGED <<build, large, blocks>>

\* MADV_DONTNEED on free pages of a chunk.  jemalloc trusts them to be zero
\* if the call reports success.
Madvise ==
  /\ Running
  /\ \E c \in chunks : \E first \in Extent(c), last \in Extent(c) :
       /\ first <= last
       /\ first..last \subseteq Pages \ Used
       /\ trusted' = trusted \cup (first..last)
       /\ page' = IF build = "native" THEN Fill(first..last, "zero") ELSE page
  /\ UNCHANGED <<build, large, brk, chunks, blocks, status>>

\* The break after a chunk was given back.
UnmappedBreak_Lowered(c) == brk - c.size   \* mutant: _sbrk(-len)
UnmappedBreak(c) == brk

\* The whole of a chunk that holds no block; jemalloc forgets it.
Munmap ==
  /\ Running
  /\ \E c \in chunks :
       /\ Extent(c) \cap Used = {}
       /\ chunks' = chunks \ {c}
       /\ trusted' = trusted \ Extent(c)
       /\ IF build = "native"
          THEN page' = Fill(Extent(c), "none") /\ UNCHANGED brk
          ELSE brk' = UnmappedBreak(c) /\ UNCHANGED page
  /\ UNCHANGED <<build, large, blocks, status>>

-----------------------------------------------------------------------------
(* s_malloc, s_calloc, s_realloc, s_free, and writing to a block.          *)

\* A block may be put where one chunk has no block, but for the one replaced.
Fits(start, size, own) ==
  /\ \E c \in chunks : Run(start, size) \subseteq Extent(c) \cap Pages
  /\ Run(start, size) \cap (Used \ own) = {}
Places(size) == {start \in Pages : Fits(start, size, {})}

Block(start, size, holds) == [start |-> start, size |-> size, holds |-> holds]

\* Any of these may return NULL, and then nothing changes.
Malloc(size) ==
  /\ Running
  /\ \E start \in Places(size) :
       /\ blocks' = blocks \cup {Block(start, size, "any")}
       /\ trusted' = trusted \ Run(start, size)
  /\ UNCHANGED <<build, large, brk, page, chunks, status>>

\* What je_calloc clears of a block, and what s_calloc clears after it.
JeClears(start, size) ==
  IF size < large THEN Run(start, size) ELSE Run(start, size) \ trusted

Total(n, size) == (n * size) % SIZE_T
IsLarge_Above(total) == total > THRESHOLD   \* mutant
IsLarge(total) == total >= THRESHOLD
Clears(start, n, size) ==
  IF IsLarge(Total(n, size)) THEN Run(start, Total(n, size)) ELSE {}

Calloc(n, size) ==
  /\ Running
  /\ n * size < SIZE_T
  /\ \E start \in Places(n * size) :
       /\ blocks' = blocks \cup {Block(start, n * size, "zero")}
       /\ trusted' = trusted \ Run(start, n * size)
       /\ page' = Fill(JeClears(start, n * size) \cup Clears(start, n, size),
                       "zero")
  /\ UNCHANGED <<build, large, brk, chunks, status>>

\* je_calloc returns NULL, also when n * size is no size_t; s_calloc clears
\* as much at NULL as its own product says.  (The bare machine may let it.)
CallocNull(n, size) ==
  /\ Running
  /\ IsLarge(Total(n, size))
  /\ status' = "fault"
  /\ UNCHANGED <<build, large, brk, page, chunks, trusted, blocks>>

\* To another place, or where it is.
Realloc(b, size) ==
  /\ Running
  /\ \E start \in Places(size) \cup {b.start} :
       LET kept == IF size < b.size THEN size ELSE b.size
       IN /\ start = b.start => Fits(start, size, Extent(b))
          /\ blocks' = (blocks \ {b}) \cup
                         {Block(start, size, IF size <= b.size THEN b.holds
                                                               ELSE "any")}
          /\ trusted' = trusted \ Run(start, size)
          /\ page' = [p \in Pages |->
               IF p \in Run(start, kept) THEN page[b.start + (p - start)]
                                         ELSE page[p]]
  /\ UNCHANGED <<build, large, brk, chunks, status>>

Free(b) == /\ Running
           /\ blocks' = blocks \ {b}
           /\ UNCHANGED <<build, large, brk, page, chunks, trusted, status>>

Write(b) == /\ Running
            /\ blocks' = (blocks \ {b}) \cup {[b EXCEPT !.holds = "data"]}
            /\ page' = Fill(Extent(b), "data")
            /\ UNCHANGED <<build, large, brk, chunks, trusted, status>>

-----------------------------------------------------------------------------
Init ==
  /\ build \in Builds
  /\ large \in Larges
  /\ brk = FirstBreak
  /\ \E what \in {"zero", "data"} :
       page = [p \in Pages |-> IF p < FirstBreak THEN "data"
                               ELSE IF build = "native" THEN "none" ELSE what]
  /\ chunks = {}
  /\ trusted = {}
  /\ blocks = {}
  /\ status = "running"

Next == \/ \E len \in Lengths : Mmap(len)
        \/ Madvise
        \/ Munmap
        \/ \E r \in Requests : \/ Malloc(r[2])
                               \/ Calloc(r[1], r[2])
                               \/ CallocNull(r[1], r[2])
        \/ \E b \in blocks : \/ \E r \in Requests : Realloc(b, r[2])
                             \/ Free(b) \/ Write(b)

Spec == Init /\ [][Next]_vars

-----------------------------------------------------------------------------
(* Properties.                                                             *)

(* The shape of the state: jemalloc trusts only free pages of its chunks.  *)
TypeOK ==
  /\ build \in Builds /\ large \in Larges
  /\ brk \in 0..PAGES
  /\ page \in [Pages -> {"none", "zero", "data"}]
  /\ \A c \in chunks : c.start \in Nat /\ c.size \in Lengths
  /\ trusted \subseteq (Pages \cap UNION {Extent(c) : c \in chunks}) \ Used
  /\ \A b \in blocks : /\ Extent(b) \subseteq Pages
                       /\ b.holds \in {"zero", "data", "any"}
  /\ status \in {"running", "fault", "lost"}

(* A block holds what its owner last put there: one from s_calloc is zero, *)
(* one written to keeps its contents, whatever jemalloc maps, purges,      *)
(* unmaps and hands out besides, and however often the pages were used     *)
(* before.  In the semihosting build this needs the threshold of s_calloc: *)
(* a zeroed block whose pages jemalloc trusts has to reach it.             *)
BlocksKeepContents ==
  \A b \in blocks :
    \/ b.holds = "any"
    \/ b.holds = "zero" /\ build = "semihosting" /\ large < THRESHOLD
    \/ \A p \in Extent(b) : page[p] = b.holds

(* No page is mapped twice, and none of the program's or its libraries' is *)
(* mapped at all, although the semihosting build takes nothing back: until *)
(* a length that is no int lets _sbrk lower the break.                     *)
ChunksApart ==
  status /= "lost" =>
    /\ \A c, d \in chunks : c /= d => Extent(c) \cap Extent(d) = {}
    /\ \A c \in chunks : /\ FirstBreak <= c.start
                         /\ build = "semihosting" => c.start + c.size <= brk

=============================================================================
