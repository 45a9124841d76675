---------------------------- MODULE MCRelocTable ----------------------------
(* An instance of RelocTable, and so of Bootstrap, for TLC: regions of 8   *)
(* words in pages of 2, and section numbers of two digits from 2 on.       *)
EXTENDS RelocTable, TLC

-----------------------------------------------------------------------------
(* Images of every layout with every table, delivered or not.              *)

Entry(offset, addr, type) == [offset |-> offset, addr |-> addr, type |-> type]
End == Entry(0, 0, "RELATIVE")

\* The parts of every image: .text on its page, in the middle of one, or
\* over two pages.
Layouts ==
  {[text_start |-> 2, text_size |-> 2, bss_start |-> 6, bss_size |-> 2],
   [text_start |-> 3, text_size |-> 1, bss_start |-> 6, bss_size |-> 1],
   [text_start |-> 1, text_size |-> 2, bss_start |-> 7, bss_size |-> 1]}

\* Tables: empty; entries into the binary and .bss; one next to .text.
Tables == {<<End>>,
           <<Entry(4, 3, "RELATIVE"), Entry(6, 99, "GLOB_DAT"), End>>,
           <<Entry(5, 98, "JUMP_SLOT"), Entry(2, 6, "RELATIVE"), End>>}

\* The binary begins behind a hole; the second region follows the first.
MakeImage(start, rom, layout, table) ==
  [start |-> start, size |-> 8, rom_start |-> rom, bin_size |-> 5,
   text_start |-> layout.text_start, text_size |-> layout.text_size,
   bss_start |-> layout.bss_start, bss_size |-> layout.bss_size,
   relocs |-> table]

SmallImages ==
  {[jemalloc |-> MakeImage(16, 1, l1, t1),
    stdlib |-> MakeImage(24, r, l2, t2)] :
     l1 \in Layouts, t1 \in Tables, r \in {0, 1}, l2 \in Layouts, t2 \in Tables}

-----------------------------------------------------------------------------
(* Executables, and the images the scripts deliver of them.                *)

Sec(name, addr, size) == [name |-> name, addr |-> addr, size |-> size]
Line(type, offset, sym, addend) ==
  [type |-> type, offset |-> offset, sym |-> sym, addend |-> addend]

Starts == [jemalloc |-> 16, stdlib |-> 24]
Symbols == [jemalloc |-> {"je_malloc"}, stdlib |-> {"sin"}]
Shims == ("mmap" :> 90) @@ ("memset" :> 91)

\* .text with a number of one digit in one of them; no .bss in another.
SectionTables(rom) ==
  {<<Sec(".interp", rom, 1), Sec(".text", 2, 2), Sec(".bss", 6, 2)>>,
   <<Sec(".text", rom, 3), Sec(".data", 4, 1), Sec(".bss", 7, 1)>>,
   <<Sec(".interp", rom, 1), Sec(".text", 3, 1), Sec(".data", 4, 1)>>,
   <<Sec(".interp", rom, 1), Sec(".data", 2, 1), Sec(".bss", 7, 1),
     Sec(".text", 3, 1)>>}

\* Known types before and after one that is dropped; an addend that is; a
\* function nobody provides.
RelocLines ==
  {<<>>,
   <<Line("RELATIVE", 4, "", 3), Line("ABS64", 5, "mmap", 0),
     Line("GLOB_DAT", 6, "memset", 0)>>,
   <<Line("JUMP_SLOT", 5, "mmap", 2), Line("RELATIVE", 7, "", 6)>>,
   <<Line("JUMP_SLOT", 5, "poll", 0)>>}

\* Where grep finds the exported name: once, nowhere, twice.
Finds == {{3}, {}, {2, 3}}

Elf(sections, relocs, sym, finds) ==
  [sections |-> sections, bin_size |-> 5, relocs |-> relocs,
   found |-> (sym :> finds), func |-> (sym :> 3)]

\* The libraries vary in turn.
SmallElfs ==
  LET usual == Elf(<<Sec(".interp", 1, 1), Sec(".text", 2, 2),
                     Sec(".bss", 6, 2)>>,
                   <<Line("RELATIVE", 4, "", 3)>>, "je_malloc", {3})
      usualStd == Elf(<<Sec(".interp", 1, 1), Sec(".text", 3, 2),
                        Sec(".bss", 7, 1)>>,
                      <<Line("GLOB_DAT", 6, "memset", 0)>>, "sin", {3})
  IN {[jemalloc |-> Elf(s, r, "je_malloc", f), stdlib |-> usualStd] :
        s \in SectionTables(1), r \in RelocLines, f \in Finds} \cup
     {[jemalloc |-> usual, stdlib |-> Elf(s, r, "sin", f)] :
        s \in SectionTables(1) \cup SectionTables(0), r \in RelocLines,
        f \in Finds}

AllImages == SmallImages \cup DeliveredImages
=============================================================================
