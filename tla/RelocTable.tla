----------------------------- MODULE RelocTable -----------------------------
(***************************************************************************)
(* The scripts reloc and stdlib/stdlib, and what the loader makes of their *)
(* output.  From readelf's tables of an executable they write the header   *)
(* that jemalloc.c or stdlib.c includes: where .text and .bss are, the     *)
(* relocation table, and for every function the program calls a pointer.   *)
(* Nothing is checked, but what the scripts do not find leaves a name      *)
(* undefined or a number without digits, and the header does not compile.  *)
(*                                                                         *)
(* An executable is the lines the two tools print of it: its sections in   *)
(* order, its relocations, its functions and where grep finds their names. *)
(* The loader is Bootstrap, for the images the headers describe.           *)
(***************************************************************************)
EXTENDS Bootstrap, FiniteSets

CONSTANTS
  Elfs,       \* what the linker may produce: functions from Libs
  LIB_START,  \* the address of each library
  LIB_SIZE,
  TwoDigits,  \* 10, the first section number with two digits
  Exported,   \* the symbols process() is called with, for each library
  s_          \* the program's functions s_<symbol>: their addresses

\* A line about a relocation, of a type the script knows or of another.
RelocLine == [type : RelocTypes \cup {"ABS64"}, offset : Nat, sym : STRING,
              addend : Nat]

-----------------------------------------------------------------------------
(* process_sections.                                                       *)

\* The shell splits "[ 9] .bss" into two words and "[10]" into one, so that
\* only sections with a number of two digits are known by their name.
Named(elf, name) == {k \in DOMAIN elf.sections :
                       k >= TwoDigits /\ elf.sections[k].name = name}

\* The last definition of a macro counts.
Section(elf, name) ==
  elf.sections[CHOOSE k \in Named(elf, name) :
                 \A j \in Named(elf, name) : j <= k]

-----------------------------------------------------------------------------
(* process_relocs: one entry for a line of a known type, none for another. *)

IsKnown(line) == line.type \in RelocTypes

\* Mutant: the symbol's value, 0, which readelf prints before the name.
EntryOf_Value(line) ==
  [offset |-> line.offset, type |-> line.type,
   addr |-> IF line.type = "RELATIVE" THEN line.addend ELSE 0]
EntryOf(line) ==
  [offset |-> line.offset, type |-> line.type,
   addr |-> IF line.type = "RELATIVE" THEN line.addend ELSE s_[line.sym]]

Terminator == [offset |-> 0, addr |-> 0, type |-> "RELATIVE"]

\* The lines the script keeps, and the n-th of them in the order of the file.
Known(elf) == {k \in DOMAIN elf.relocs : IsKnown(elf.relocs[k])}
Rank(S, k) == Cardinality({j \in S : j <= k})
Nth(S, n) == CHOOSE k \in S : Rank(S, k) = n

Table(elf) ==
  LET known == Known(elf)
  IN [n \in 1..Cardinality(known) + 1 |->
        IF n <= Cardinality(known) THEN EntryOf(elf.relocs[Nth(known, n)])
                                   ELSE Terminator]

-----------------------------------------------------------------------------
(* process: the pointers, and the header as a whole.                       *)

\* Mutant: the address in the executable.
Pointer_Linked(elf, lib, sym) == CHOOSE addr \in elf.found[sym] : TRUE
Pointer(elf, lib, sym) ==
  (CHOOSE addr \in elf.found[sym] : TRUE) + LIB_START[lib]

\* Every function a relocation names has an s_ counterpart, each pointer got
\* one address, and the sections have been found.
Compiles(e) ==
  \A lib \in Libs : LET elf == e[lib] IN
    /\ elf.sections /= <<>>
    /\ Named(elf, ".text") /= {} /\ Named(elf, ".bss") /= {}
    /\ \A k \in DOMAIN elf.relocs : LET line == elf.relocs[k] IN
         line.type \in {"JUMP_SLOT", "GLOB_DAT"} => line.sym \in DOMAIN s_
    /\ \A sym \in Exported[lib] : Cardinality(elf.found[sym]) = 1

\* <lib>_init: what reloc() is called with.
Delivered(e) ==
  [lib \in Libs |->
     LET elf == e[lib]
         text == Section(elf, ".text")
         bss == Section(elf, ".bss")
     IN [start |-> LIB_START[lib], size |-> LIB_SIZE,
         rom_start |-> elf.sections[1].addr, bin_size |-> elf.bin_size,
         text_start |-> text.addr, text_size |-> text.size,
         bss_start |-> bss.addr, bss_size |-> bss.size,
         relocs |-> Table(elf)]]

DeliveredImages == {Delivered(e) : e \in {x \in Elfs : Compiles(x)}}

-----------------------------------------------------------------------------
(* What the linker guarantees of an executable: one .text and one .bss,    *)
(* sections inside the region, the binary before .bss, a relocation for no *)
(* word twice, and a function's own address, one in the binary, where its  *)
(* name is found.                                                          *)
Span(s) == s.addr..s.addr + s.size - 1

ElfOK(elf) ==
  /\ elf.sections \in Seq([name : STRING, addr : Nat, size : Nat])
  /\ elf.sections /= <<>>
  /\ \A k \in DOMAIN elf.sections :
       Span(elf.sections[k]) \subseteq 0..LIB_SIZE - 1
  /\ \A j, k \in DOMAIN elf.sections :
       /\ elf.sections[j].name = elf.sections[k].name
       /\ elf.sections[j].name \in {".text", ".bss"}
       => j = k
  /\ \A k \in DOMAIN elf.sections : LET s == elf.sections[k] IN
       /\ s.name = ".text" => s.size > 0
       /\ s.name = ".bss" =>
            elf.sections[1].addr + elf.bin_size <= s.addr
  /\ elf.bin_size \in Nat
  /\ elf.sections[1].addr + elf.bin_size <= LIB_SIZE
  /\ elf.relocs \in Seq(RelocLine)
  /\ \A j, k \in DOMAIN elf.relocs :
       /\ elf.relocs[k].offset \in 1..LIB_SIZE - 1
       /\ elf.relocs[j].offset = elf.relocs[k].offset => j = k
  /\ \A sym \in DOMAIN elf.found :
       /\ IsFiniteSet(elf.found[sym]) /\ elf.found[sym] \subseteq Nat
       /\ elf.found[sym] /= {} =>
            /\ elf.func[sym] \in elf.found[sym]
            /\ elf.func[sym] - elf.sections[1].addr \in 0..elf.bin_size - 1

ASSUME RegionAssumption == LIB_START \in [Libs -> Nat] /\ LIB_SIZE \in Nat
ASSUME TwoDigitsAssumption == TwoDigits \in Nat
ASSUME ShimsAssumption == \A sym \in DOMAIN s_ : s_[sym] \in Nat
ASSUME ElfsAssumption ==
  \A e \in Elfs : \A lib \in Libs :
    ElfOK(e[lib]) /\ Exported[lib] \subseteq DOMAIN e[lib].found

-----------------------------------------------------------------------------
(* Properties, of Bootstrap's behaviours when Images is DeliveredImages.   *)

\* The executables that may be behind the image that runs.
Behind(e) == Compiles(e) /\ image = Delivered(e)

\* The lines whose request reaches the library whole: a known type, and no
\* addend where the table has no place for one.
Kept(line) == /\ line.type \in RelocTypes
              /\ line.type = "RELATIVE" \/ line.addend = 0

(* What a relocation asks for: the base, or a function, plus the addend.   *)
Asked(lib, line) ==
  Word(line.addend + (IF line.type = "RELATIVE" THEN LIB_START[lib]
                                                ELSE s_[line.sym]))

(* When main goes on, the libraries are as their executables ask: every    *)
(* relocation of the three known types without a dropped addend is done,   *)
(* and the scripts' omissions (another type, an addend) harm the word they *)
(* are about and no other, provided both executables begin at one address. *)
MemoryAsElfAsks ==
  status = "running" =>
    \A e \in Elfs :
      Behind(e) /\ e["stdlib"].sections[1].addr = e["jemalloc"].sections[1].addr
      => \A lib \in Libs : LET elf == e[lib] IN
           /\ \A k \in DOMAIN elf.relocs : LET line == elf.relocs[k] IN
                Kept(line) => mem[lib][line.offset] = Asked(lib, line)
           /\ \A w \in Words(image[lib]) :
                (\A k \in DOMAIN elf.relocs : elf.relocs[k].offset /= w) =>
                  mem[lib][w] = Linked(image[lib], w)

(* When main goes on, each pointer of the headers leads to the code of its *)
(* function in the library placed at LIB_START: to the word of the binary  *)
(* it was linked to, unless that is relocated.                             *)
PointersLand ==
  status = "running" =>
    \A e \in Elfs :
      Behind(e) /\ e["stdlib"].sections[1].addr = e["jemalloc"].sections[1].addr
      => \A lib \in Libs : \A sym \in Exported[lib] :
           LET elf == e[lib]
               w == Pointer(elf, lib, sym) - image[lib].start
           IN /\ w = elf.func[sym]
              /\ w \in Words(image[lib])
              /\ w \notin Targets(image[lib]) =>
                   mem[lib][w] = Bin(w - image[lib].rom_start)

=============================================================================
