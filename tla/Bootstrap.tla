----------------------------- MODULE Bootstrap -----------------------------
(***************************************************************************)
(* ututna/bootstrap.c and ututna/reloc.c: before main looks at its options *)
(* it puts two libraries, linked at address 0 and embedded as binaries,    *)
(* at their fixed addresses: jemalloc, then stdlib.  reloc() maps the      *)
(* region, copies the binary, clears .bss, makes the pages of .text        *)
(* executable and applies the relocation table in place.  The semihosting  *)
(* build has no mmap and no mprotect, but first raises the program break   *)
(* over both regions, since jemalloc's chunks then come from _sbrk.        *)
(*                                                                         *)
(* Memory is counted in words, pages in words too; a region starts on a    *)
(* page.                                                                   *)
(***************************************************************************)
EXTENDS Integers, Sequences

CONSTANTS
  Images,       \* what may be linked: functions from Libs to images
  PAGE_SIZE,    \* words in a page
  HEAP_START,   \* where the semihosting heap begins
  BreakStep,    \* the 0x1000 of the first _sbrk
  FirstBreaks   \* the program breaks the build may start with

Libs == {"jemalloc", "stdlib"}
Builds == {"native", "semihosting"}

(* An image: where the library goes, what its binary, .text and .bss       *)
(* cover (offset and size), and its relocs[], ended by an entry of offset 0.*)
Words(im) == 0..im.size - 1
Rom(im) == im.rom_start..im.rom_start + im.bin_size - 1
Text(im) == im.text_start..im.text_start + im.text_size - 1
Bss(im) == im.bss_start..im.bss_start + im.bss_size - 1

Targets(im) == {im.relocs[k].offset : k \in 1..Len(im.relocs) - 1}

RelocTypes == {"RELATIVE", "JUMP_SLOT", "GLOB_DAT"}
Entries == [offset : Nat, addr : Nat, type : RelocTypes]

(* What the linker and the reloc script guarantee: every part lies in the  *)
(* region, .bss is not in the binary, and the table names each word once.  *)
WellFormed(im) ==
  /\ {im.start, im.size, im.rom_start, im.bin_size, im.text_start,
      im.text_size, im.bss_start, im.bss_size} \subseteq Nat
  /\ im.text_size > 0
  /\ Rom(im) \cup Text(im) \cup Bss(im) \subseteq Words(im)
  /\ Rom(im) \cap Bss(im) = {}
  /\ im.relocs \in Seq(Entries)
  /\ Len(im.relocs) > 0
  /\ im.relocs[Len(im.relocs)].offset = 0
  /\ \A k \in 1..Len(im.relocs) - 1 :
       /\ im.relocs[k].offset \in Words(im) \ {0}
       /\ \A j \in 1..Len(im.relocs) - 1 :
            im.relocs[j].offset = im.relocs[k].offset => j = k

ASSUME ImagesAssumption ==
  \A image \in Images : \A lib \in Libs : WellFormed(image[lib])
ASSUME SizesAssumption ==
  /\ PAGE_SIZE \in Nat \ {0} /\ HEAP_START \in Nat /\ BreakStep \in Nat
  /\ FirstBreaks \subseteq Nat
ASSUME RegionsBelowHeap ==
  \A image \in Images : \A lib \in Libs :
    image[lib].start + image[lib].size <= HEAP_START

VARIABLES
  build,   \* the build that runs
  image,   \* the libraries linked into it
  at,      \* the library being placed, and the step reloc() is at
  entry,   \* do_reloc's e, as an index of relocs[]
  mem,     \* the words of each region
  prot,    \* what the page of each word allows
  brk,     \* the program break of the semihosting build
  p,       \* bootstrap's p, which it prints at its end
  refused, \* history: an _sbrk was refused
  status   \* "booting", "running", "exited", "fault" or "crashed"

vars == <<build, image, at, entry, mem, prot, brk, p, refused, status>>
brkVars == <<brk, p, refused>>

\* What _sbrk returns when it is refused; as an address the last of all.
MINUS_ONE == -1

Unmapped == [kind |-> "unmapped", n |-> 0]
Junk == [kind |-> "junk", n |-> 0]
Zero == [kind |-> "word", n |-> 0]
Bin(k) == [kind |-> "bin", n |-> k]      \* the k-th word of the binary
Word(n) == [kind |-> "word", n |-> n]    \* a 64-bit value

im == image[at.lib]
At(step) == status = "booting" /\ at.step = step
Step(step) == at' = [at EXCEPT !.step = step]

-----------------------------------------------------------------------------
(* bootstrap(), semihosting: two calls of _sbrk are to leave the break at   *)
(* HEAP_START, or one step further on when it is already past that.  Either *)
(* may be refused, and nobody looks: the -1 it then returns, taken for an   *)
(* address, is not below HEAP_START.                                        *)
FirstSbrk ==
  /\ At("break")
  /\ \/ /\ brk' = brk + BreakStep
        /\ p' = brk
        /\ Step(IF brk < HEAP_START - BreakStep THEN "raise" ELSE "map")
        /\ UNCHANGED refused
     \/ /\ p' = MINUS_ONE
        /\ refused' = TRUE
        /\ Step("map")
        /\ UNCHANGED brk
  /\ UNCHANGED <<build, image, entry, mem, prot, status>>

\* What is missing; p is where the first call began.
Rest_FromBreak == HEAP_START - BreakStep - brk   \* mutant
Rest == HEAP_START - BreakStep - p

SecondSbrk ==
  /\ At("raise")
  /\ \/ brk' = brk + Rest /\ UNCHANGED refused
     \/ refused' = TRUE /\ UNCHANGED brk
  /\ p' = brk'   \* _sbrk(0)
  /\ Step("map")
  /\ UNCHANGED <<build, image, entry, mem, prot, status>>

(* reloc(): mmap at the fixed address, or the process ends.                *)
Map == /\ At("map")
       /\ \/ /\ Step("copy")
             /\ IF build = "native"
                THEN /\ mem' = [mem EXCEPT ![at.lib] =
                                  [w \in Words(im) |-> Zero]]
                     /\ prot' = [prot EXCEPT ![at.lib] =
                                   [w \in Words(im) |-> "rw"]]
                ELSE UNCHANGED <<mem, prot>>
             /\ UNCHANGED status
          \/ /\ build = "native"
             /\ status' = "exited"
             /\ UNCHANGED <<at, mem, prot>>
       /\ UNCHANGED <<build, image, entry, brkVars>>

(* memcpy.  The reloc script writes ROM_START of jemalloc's executable into *)
(* both headers, whatever stdlib's is.                                     *)
ROM_START == image["jemalloc"].rom_start

CopyRom == /\ At("copy")
           /\ mem' = [mem EXCEPT ![at.lib] =
                [w \in Words(im) |-> IF w - ROM_START \in 0..im.bin_size - 1
                                     THEN Bin(w - ROM_START) ELSE @[w]]]
           /\ Step("bss")
           /\ UNCHANGED <<build, image, entry, prot, brkVars, status>>

ClearBss == /\ At("bss")
            /\ mem' = [mem EXCEPT ![at.lib] =
                         [w \in Words(im) |-> IF w \in Bss(im) THEN Zero
                                                              ELSE @[w]]]
            /\ Step("protect")
            /\ UNCHANGED <<build, image, entry, prot, brkVars, status>>

(* The pages of .text: from ALIGN of its start to ALIGN_UP of its end.     *)
PageStart(w) == (w \div PAGE_SIZE) * PAGE_SIZE
PageEnd_Down(w) == PageStart(w)               \* mutant: ALIGN for ALIGN_UP
PageEnd_Over(w) == PageStart(w + PAGE_SIZE)   \* mutant: without the - 1
PageEnd(w) == PageStart(w + PAGE_SIZE - 1)
TextPages(i) == {w \in Words(i) : /\ PageStart(i.text_start) <= w
                                  /\ w < PageEnd(i.text_start + i.text_size)}

(* The result of mprotect is not looked at.                                *)
Protect == /\ At("protect")
           /\ \/ /\ build = "native"
                 /\ prot' = [prot EXCEPT ![at.lib] =
                      [w \in Words(im) |-> IF w \in TextPages(im) THEN "rx"
                                                                 ELSE @[w]]]
              \/ UNCHANGED prot
           /\ Step("relocate")
           /\ entry' = 1
           /\ UNCHANGED <<build, image, mem, brkVars, status>>

(* do_reloc: relative entries point into the region, the others at the     *)
(* program's s_ functions.                                                 *)
Relocated_Always(i, e) == Word(e.addr + i.start)   \* mutant: for every type
Relocated(i, e) == Word(e.addr + (IF e.type = "RELATIVE" THEN i.start ELSE 0))

\* The loop of do_reloc ends at offset 0, and steps to the next entry.
AtEnd_Counted == entry > Len(im.relocs)   \* mutant: the end is not seen
AtEnd == im.relocs[entry].offset = 0
NextEntry_Same == entry   \* mutant: no e++
NextEntry == entry + 1

Relocate ==
  LET e == im.relocs[entry]
  IN /\ At("relocate")
     /\ ~AtEnd
     /\ IF prot[at.lib][e.offset] = "rx"
        THEN status' = "fault" /\ UNCHANGED <<mem, entry>>
        ELSE /\ mem' = [mem EXCEPT ![at.lib][e.offset] = Relocated(im, e)]
             /\ entry' = NextEntry
             /\ UNCHANGED status
     /\ UNCHANGED <<build, image, at, prot, brkVars>>

Relocation ==
  /\ At("relocate")
  /\ AtEnd
  /\ IF at.lib = "jemalloc"
     THEN at' = [lib |-> "stdlib", step |-> "map"] /\ UNCHANGED status
     ELSE status' = "running" /\ UNCHANGED at
  /\ UNCHANGED <<build, image, entry, mem, prot, brkVars>>

(* Afterwards the program calls into the libraries: without the rights that *)
(* mprotect was to give, the first call is the last.                       *)
Call(lib) ==
  /\ status = "running"
  /\ \E w \in Text(image[lib]) : prot[lib][w] = "rw"
  /\ status' = "crashed"
  /\ UNCHANGED <<build, image, at, entry, mem, prot, brkVars>>

Init ==
  /\ build \in Builds
  /\ image \in Images
  /\ at = [lib |-> "jemalloc",
           step |-> IF build = "native" THEN "map" ELSE "break"]
  /\ entry = 1
  /\ mem = [lib \in Libs |-> [w \in Words(image[lib]) |->
              IF build = "native" THEN Unmapped ELSE Junk]]
  /\ prot = [lib \in Libs |-> [w \in Words(image[lib]) |->
              IF build = "native" THEN "none" ELSE "rwx"]]
  /\ brk \in FirstBreaks
  /\ p = 0
  /\ refused = FALSE
  /\ status = "booting"

Boot == \/ FirstSbrk \/ SecondSbrk \/ Map \/ CopyRom \/ ClearBss \/ Protect
        \/ Relocate \/ Relocation

Next == Boot \/ \E lib \in Libs : Call(lib)

\* bootstrap() runs to its end: nothing else runs meanwhile.
Spec == Init /\ [][Next]_vars /\ WF_vars(Boot)

-----------------------------------------------------------------------------
(* Properties.                                                             *)

Steps == {"break", "raise", "map", "copy", "bss", "protect", "relocate"}

(* The shape of the state: do_reloc's e never passes the last entry.       *)
TypeOK ==
  /\ build \in Builds
  /\ image \in Images
  /\ at \in [lib : Libs, step : Steps]
  /\ entry \in Nat
  /\ at.step = "relocate" => entry \in 1..Len(im.relocs)
  /\ \A lib \in Libs :
       /\ DOMAIN mem[lib] = Words(image[lib])
       /\ prot[lib] \in [Words(image[lib]) -> {"none", "rw", "rx", "rwx"}]
  /\ brk \in Nat
  /\ p \in Nat \cup {MINUS_ONE}
  /\ refused \in BOOLEAN
  /\ status \in {"booting", "running", "exited", "fault", "crashed"}

(* What the linker asks for at word w of a library that has no relocation. *)
Linked(i, w) == IF w \in Rom(i) THEN Bin(w - i.rom_start)
                ELSE IF w \in Bss(i) \/ build = "native" THEN Zero ELSE Junk

(* What an entry asks for: the base plus the addend, or an s_ function.     *)
Resolved(i, e) == IF e.type = "RELATIVE" THEN Word(i.start + e.addr)
                                         ELSE Word(e.addr)

(* When main goes on, both libraries are as linked for their addresses:    *)
(* every entry of the tables is applied to the binary or to .bss, and no   *)
(* other word differs, provided the two executables begin at one address.  *)
LibrariesAsLinked ==
  status = "running" /\ image["stdlib"].rom_start = ROM_START =>
    \A lib \in Libs : LET i == image[lib] IN
      /\ \A k \in 1..Len(i.relocs) - 1 :
           mem[lib][i.relocs[k].offset] = Resolved(i, i.relocs[k])
      /\ \A w \in Words(i) \ Targets(i) : mem[lib][w] = Linked(i, w)

(* mprotect seals whole pages and do_reloc runs after it: bootstrapping    *)
(* faults only if a word to relocate shares a page with .text.             *)
SharesPage(i) ==
  \E t \in Targets(i), x \in Text(i) : t \div PAGE_SIZE = x \div PAGE_SIZE

BootFaultsOnSharedPage ==
  status = "fault" => build = "native" /\ SharesPage(im)

(* In the native build no page ever allows both writing and executing, and *)
(* once mprotect worked, the sealed words are those on pages of .text.     *)
OnlyTextSealed ==
  build = "native" =>
    \A lib \in Libs : LET i == image[lib] IN
      /\ \A w \in Words(i) : prot[lib][w] /= "rwx"
      /\ \A w \in Words(i) : prot[lib][w] = "rx" =>
           \E x \in Text(i) : w \div PAGE_SIZE = x \div PAGE_SIZE
      /\ (\E x \in Text(i) : prot[lib][x] = "rx") =>
           \A x \in Text(i) : prot[lib][x] = "rx"

(* The heap the semihosting build grows from the break lies past both      *)
(* libraries before the first of them is placed, unless an _sbrk was       *)
(* refused; and even then it does if what bootstrap prints as HEAP_START   *)
(* is an address from there on.                                            *)
PastLibraries == \A lib \in Libs : image[lib].start + image[lib].size <= brk

HeapPastLibraries ==
  build = "semihosting" /\ at.step \notin {"break", "raise"} =>
    /\ refused \/ PastLibraries
    /\ p >= HEAP_START => PastLibraries

(* Bootstrapping ends.                                                     *)
Boots == <>(status /= "booting")

=============================================================================
