------------------------------ MODULE Extract ------------------------------
(***************************************************************************)
(* src/ututna/ututna and what make does with its output.  For each of the  *)
(* six benchmarks process() disassembles a list of routines, has refine.py *)
(* and post.py turn them into assembly, and some names are replaced by     *)
(* sed.  Nobody looks at an exit status: a routine the library does not    *)
(* have is passed over, a file that refine.py gave up on half-way is used  *)
(* as far as it goes.  What is missing shows only when the program is      *)
(* linked, or not at all.                                                  *)
(*                                                                         *)
(* A library gives each routine it has the name objdump prints over it,    *)
(* and its lines: an address and what Refine calls a line, with the        *)
(* address it goes to.  A name in assembly has a prefix, such as s_ or o_; *)
(* an address is L, a routine, and how far into it.                        *)
(***************************************************************************)
EXTENDS Integers, Sequences, Functions

CONSTANTS
  Builds,     \* the builds made: "native", "semihosting"
  Files,      \* calls of process(), the .inc file included and the
              \* replacements: [list |-> <<[sym, mark]>>,
              \* inc |-> [label -> names it points to], seds |-> <<sed>>],
              \* a sed being [at |-> name or NONE, from |-> name, to |-> name]
  Libraries,  \* libabenchmark.so: [sym -> [head |-> sym, body |-> <<line>>]]
  Unsafe,     \* unsafe_symbols of refine.py
  Static,     \* static_symbols
  Toolchain,  \* names the toolchain's libraries have: libc's, libgcc's
  NONE

VARIABLES
  build, lib,
  stage,   \* what the next step does: "disass", "refine", "post", "sed",
           \* "link"
  step,    \* entries, lines or replacements it has done
  tmp,     \* $TMPFILE
  asm,     \* $OUT/$1, the assembly being made: <<[label, goes]>>
  out,     \* the files made so far
  status   \* "building", "linked" or "failed"

vars == <<build, lib, stage, step, tmp, asm, out, status>>

\* refine.py; only its classification of a line and its renaming are used.
Pass == INSTANCE Refine WITH
          Names <- Unsafe \cup Static, Lines <- {}, MaxLines <- 0,
          symbols <- <<>>, local_symbols <- <<>>, read <- 0, out <- <<>>,
          report <- {}, status <- "reading"

Name(prefix, sym) == [prefix |-> prefix, sym |-> sym, off |-> 0]
Own(sym) == Name("", sym)
Addr(sym, off) == [prefix |-> "L", sym |-> sym, off |-> off]
Nothing == Own(NONE)

\* The call of process() under way.
Cur == Files[Len(out) + 1]

-----------------------------------------------------------------------------
(* process() and the replacements.                                         *)

\* disass: "?sym" is skipped, a routine the library does not have prints
\* nothing, a range of addresses has no heading of its own.
Heading(sym) ==
  [addr |-> NONE, kind |-> "label", form |-> "base", sym |-> sym, to |-> NONE]
Dump_HeadOnly(entry) ==   \* mutant: the heading is printed all the same
  IF entry.mark = "?" THEN <<>>
  ELSE IF entry.sym \notin DOMAIN lib THEN <<Heading(entry.sym)>>
  ELSE <<Heading(lib[entry.sym].head)>> \o lib[entry.sym].body
Dump(entry) ==
  IF entry.mark = "?" \/ entry.sym \notin DOMAIN lib THEN <<>>
  ELSE IF entry.mark = "L" THEN lib[entry.sym].body
  ELSE <<Heading(lib[entry.sym].head)>> \o lib[entry.sym].body

\* The next routine of the list.
Disass == /\ stage = "disass"
          /\ step < Len(Cur.list)
          /\ tmp' = tmp \o Dump(Cur.list[step + 1])
          /\ step' = step + 1
          /\ UNCHANGED <<build, lib, stage, asm, out, status>>

\* The list is done: the file is begun.
StartFile == /\ stage = "disass"
             /\ step = Len(Cur.list)
             /\ asm' = <<>>
             /\ stage' = "refine"
             /\ step' = 0
             /\ UNCHANGED <<build, lib, tmp, out, status>>

\* refine.py: what it prints for a line.  A page goes to the datum post.py
\* resolves it to (AdrpPatch says when it does: one left as ?addr does not
\* assemble, and less links than here).
Assembly(l) ==
  [label |-> IF l.kind = "label" THEN Own(l.sym) ELSE l.addr,
   goes |-> IF Pass!IsCall(l) THEN Name(Pass!NewName(l.sym).prefix, l.sym)
            ELSE IF Pass!IsInner(l) \/ Pass!IsPage(l) THEN l.to
            ELSE Nothing]

RefineLine == /\ stage = "refine"
              /\ step < Len(tmp)
              /\ ~Pass!Refuses(tmp[step + 1])
              /\ asm' = Append(asm, Assembly(tmp[step + 1]))
              /\ step' = step + 1
              /\ UNCHANGED <<build, lib, stage, tmp, out, status>>

\* All lines are read, or the next is one it refuses.
RefineEnd == /\ stage = "refine"
             /\ step < Len(tmp) => Pass!Refuses(tmp[step + 1])
             /\ stage' = "post"
             /\ UNCHANGED <<build, lib, step, tmp, asm, out, status>>

\* post.py has the file include its data, in a file of their own that is not
\* edited; the listing is removed.
Post == /\ stage = "post"
        /\ tmp' = <<>>
        /\ stage' = "sed"
        /\ step' = 0
        /\ UNCHANGED <<build, lib, asm, out, status>>

\* replace changes the lines that begin with a label, replace_global all.
Swap(name, sed) == IF name = sed.from THEN sed.to ELSE name
Sedded(line, sed) ==
  IF sed.at \in {NONE, line.label}
  THEN [label |-> Swap(line.label, sed), goes |-> Swap(line.goes, sed)]
  ELSE line
Replaced_None(lines, sed) == lines   \* mutant: no replacements
Replaced(lines, sed) == [k \in DOMAIN lines |-> Sedded(lines[k], sed)]

Sed == /\ stage = "sed"
       /\ step < Len(Cur.seds)
       /\ asm' = Replaced(asm, Cur.seds[step + 1])
       /\ step' = step + 1
       /\ UNCHANGED <<build, lib, stage, tmp, out, status>>

\* The script goes on to its next file, or is at its end.
NextFile == /\ stage = "sed"
            /\ step = Len(Cur.seds)
            /\ out' = Append(out, asm)
            /\ stage' = IF Len(out) + 1 = Len(Files) THEN "link" ELSE "disass"
            /\ step' = 0
            /\ UNCHANGED <<build, lib, tmp, asm, status>>

-----------------------------------------------------------------------------
(* The objects linked with the extracted code.                             *)

Objs(b) ==
  {"main", "dummy", "reloc", "ututna", "bootstrap", "jemalloc",
   "jemalloc_exports", "stdlib", "stdlib_test", "stdlib_exports", "test_png"}
  \cup IF b = "native" THEN {"perf"} ELSE {"malloc"}

Owns(syms) == {Own(s) : s \in syms}
Shims(syms) == {Name("s_", s) : s \in syms}

Defs(obj, b) ==
  CASE obj = "main" ->
         {Name("gemm_", "malloc"), Name("gemm_", "free"), Addr("14f590", 0)}
         \cup Shims({"StartStopwatch", "StopStopwatch"})
         \cup Owns({"main", "_Z15test_const_timeR8CMapTestd", "dummy"})
    [] obj = "perf" ->
         Owns({"perf_config", "perf_init", "perf_begin", "perf_end",
               "perf_print_headers", "perf_print"})
    [] obj = "dummy" ->
         {Name("o_", s) : s \in
            {"setjmp", "unimplemented", "fwrite", "exit", "abort",
             "__stack_chk_fail", "__sfp_handle_exceptions",
             "__cxa_begin_catch", "__cxa_end_catch", "__cxa_rethrow",
             "_Unwind_Resume"}}
    [] obj = "reloc" -> Owns({"reloc"})
    [] obj = "ututna" ->
         {Addr("1acb60", 0), Addr("1ac730", 0)}
         \cup Owns({"tp_start", "tp_end"})
    [] obj = "bootstrap" ->
         Owns({"bootstrap"} \cup
              IF b = "native" THEN {}
              ELSE {"bootstrap_malloc", "bootstrap_calloc",
                    "bootstrap_realloc", "bootstrap_free"})
    [] obj = "malloc" -> Owns({"malloc", "calloc", "realloc", "free"})
    [] obj = "jemalloc" ->
         Owns({"jemalloc_init"}) \cup Shims({"calloc", "munmap"})
    [] obj = "jemalloc_exports" ->
         Shims({"malloc", "calloc0", "realloc", "free", "_Znam", "_Znwm",
                "_ZdaPv", "_ZdlPv"})
    [] obj = "stdlib" -> Owns({"stdlib_init"})
    [] obj = "stdlib_test" -> Owns({"stdlib_test"})
    [] obj = "stdlib_exports" -> 
         Shims({"memset", "memcpy", "memcmp", "memmove", "strncmp", "strcmp",
                "strchr", "strlen", "strtol", "sin", "cos", "pow", "sqrt",
                "crc32", "inflate", "inflateEnd", "inflateInit_",
                "inflateReset", "sprintf", "fprintf", "fputc"})
    [] obj = "test_png" -> Owns({"test_png", "test_png_len"})

\* main calls perf_config and perf_init in both builds; perf.h declares them
\* in one.
Uses(obj, b) ==
  CASE obj = "main" ->
         Owns({"kiss_fftr_alloc", "kiss_fftr", "test_sgemm",
               "_Z5sgemmjPfS_S_", "test_dgemm", "_Z5dgemmjPdS_S_", "test_map",
               "_Z10loadMemPNGPhjP7BmpData", "test_physics",
               "generate_test_data", "md5_sum_data", "sha1_sum_data",
               "sha2_sum_data", "crc_sum_data", "test_png", "test_png_len",
               "bootstrap", "stdlib_test", "perf_config", "perf_init"})
         \cup Shims({"malloc", "free"})
         \cup Owns(IF b = "native"
                   THEN {"perf_begin", "perf_end", "perf_print_headers",
                         "perf_print", "StartStopwatch", "StopStopwatch"}
                   ELSE {"tp_start", "tp_end"})
    [] obj = "bootstrap" -> Owns({"jemalloc_init", "stdlib_init"})
    [] obj = "malloc" -> Owns({"bootstrap_malloc", "bootstrap_calloc",
                               "bootstrap_realloc", "bootstrap_free"})
    [] obj = "jemalloc" -> Owns({"reloc"}) \cup Shims({"calloc0", "memset"})
    [] obj = "stdlib" -> Owns({"reloc"}) \cup Shims({"free"})
    [] OTHER -> {}

-----------------------------------------------------------------------------
(* make.                                                                   *)

\* The labels of a file are its lines' and its data's; the names it goes by
\* those its lines go to and its data point to.
LabelsIn(lines) == {lines[k].label : k \in DOMAIN lines}
Labels(f) == LabelsIn(out[f]) \cup DOMAIN Files[f].inc
Pointed(f) == UNION {Files[f].inc[x] : x \in DOMAIN Files[f].inc}
Goes(f) == ({out[f][k].goes : k \in DOMAIN out[f]} \cup Pointed(f)) \ {Nothing}
Globals(f) == {Own(e.sym) : e \in {e \in Range(Files[f].list) : e.mark = "@"}}

Assembles(f) ==
  /\ \A j, k \in DOMAIN out[f] : out[f][j].label = out[f][k].label => j = k
  /\ LabelsIn(out[f]) \cap DOMAIN Files[f].inc = {}

\* A name is the file's own, or global, or the toolchain's.
Exported(f) == Labels(f) \cap Globals(f)
Wanted(f) == Goes(f) \ Labels(f)

Given == Toolchain \cup (UNION {Exported(f) : f \in DOMAIN Files})
                   \cup (UNION {Defs(obj, build) : obj \in Objs(build)})
Asked == (UNION {Wanted(f) : f \in DOMAIN Files})
         \cup (UNION {Uses(obj, build) : obj \in Objs(build)})
Twice == \/ \E f, g \in DOMAIN Files :
              f /= g /\ Exported(f) \cap Exported(g) /= {}
         \/ \E f \in DOMAIN Files, obj \in Objs(build) :
              Exported(f) \cap Defs(obj, build) /= {}
Links == /\ \A f \in DOMAIN Files : Assembles(f)
         /\ Asked \subseteq Given
         /\ ~Twice

Link == /\ stage = "link"
        /\ status = "building"
        /\ status' = IF Links THEN "linked" ELSE "failed"
        /\ UNCHANGED <<build, lib, stage, step, tmp, asm, out>>

Init == /\ build \in Builds
        /\ lib \in Libraries
        /\ stage = "disass"
        /\ step = 0
        /\ tmp = <<>>
        /\ asm = <<>>
        /\ out = <<>>
        /\ status = "building"

Next == \/ Disass \/ StartFile \/ RefineLine \/ RefineEnd
        \/ Post \/ Sed \/ NextFile \/ Link

Spec == Init /\ [][Next]_vars

-----------------------------------------------------------------------------
(* What the lists and the library are: facts of the script's tables and of *)
(* a binary, not of the steps above.                                       *)

IsSequence(s) == s \in Seq(Range(s))

\* The routines a file lists, but those kept out with '?'; those with a name.
Listed(f) == {e.sym : e \in {e \in Range(Files[f].list) : e.mark /= "?"}}
Headed(f) == {e.sym : e \in {e \in Range(Files[f].list) :
                               e.mark \notin {"?", "L"}}}

\* The addresses of a routine of library L, and all its names: also its own
\* and the one printed over it.
Addresses(L, sym) == {l.addr : l \in Range(L[sym].body)}
Heads(L, sym) == {Own(sym), Own(L[sym].head)}
NamesOf(L, sym) == Addresses(L, sym) \cup Heads(L, sym)

\* Names somebody else gives, and the names build b is to have.
Ours(b) == UNION {Defs(obj, b) : obj \in Objs(b)}
Elsewhere(b) == Toolchain \cup Ours(b)
Supplied(b) == Elsewhere(b) \cup (UNION {Globals(f) : f \in DOMAIN Files})

\* No routine is listed twice for a file.
ASSUME FilesAssumption ==
  /\ IsSequence(Files) /\ Files /= <<>>
  /\ \A f \in DOMAIN Files :
       LET list == Files[f].list IN
       /\ IsSequence(list)
       /\ \A j, k \in DOMAIN list : list[j].sym = list[k].sym => j = k
       /\ IsSequence(Files[f].seds)

\* A routine is listed for one file, and is no other object's; it may be one
\* the toolchain has too.
ASSUME ListsAssumption ==
  \A f \in DOMAIN Files : \A s \in Listed(f) :
    /\ \A g \in DOMAIN Files : s \in Listed(g) => f = g
    /\ \A b \in Builds : Own(s) \notin Ours(b)
    /\ Own(s) \notin DOMAIN Files[f].inc
    /\ s /= NONE

\* The lines of a routine are lines at addresses of their own, and no two
\* routines of a file have a name in common.
ASSUME LibrariesAssumption ==
  \A L \in Libraries :
    /\ \A s \in DOMAIN L :
         LET body == L[s].body IN
         /\ IsSequence(body)
         /\ \A j, k \in DOMAIN body : body[j].addr = body[k].addr => j = k
         /\ \A l \in Range(body) :
              l.kind \notin {"label", "skip"} /\ l.addr.prefix = "L"
    /\ \A b \in Builds : LET others == Elsewhere(b) IN
         \A f \in DOMAIN Files : \A s \in Listed(f) \cap DOMAIN L :
           Addresses(L, s) \cap others = {}
    /\ \A f \in DOMAIN Files : \A s \in Listed(f) \cap DOMAIN L :
         LET names == NamesOf(L, s) IN
         /\ names \cap DOMAIN Files[f].inc = {}
         /\ \A t \in Listed(f) \ {s} :
              /\ Own(t) \notin names
              /\ t \in DOMAIN L => names \cap NamesOf(L, t) = {}

\* A replacement has a line go to what there is, renames no address and
\* nothing another one made, and a heading only to the routine it is over.
ASSUME SedsAssumption ==
  \A f \in DOMAIN Files : \A d \in Range(Files[f].seds) :
    /\ \A b \in Builds : d.to \in Owns(Headed(f)) \cup Supplied(b)
    /\ d.from /= Nothing
    /\ \A e \in Range(Files[f].seds) : d.to /= e.from
    /\ \A L \in Libraries : \A s \in Listed(f) \cap DOMAIN L :
         /\ d.from \notin Addresses(L, s)
         /\ d.at \in {NONE, d.from} /\ d.from \in Heads(L, s) =>
              d.to = Own(s)

\* What the native build's objects use is there, or is a listed routine.
ASSUME ObjectsAssumption ==
  \A obj \in Objs("native") : Uses(obj, "native") \subseteq Supplied("native")

-----------------------------------------------------------------------------
(* Properties.                                                             *)

\* Of the first n replacements of file f those for a line, where it goes after
\* them, and what they make of it.
For(f, n, l) ==
  {d \in {Files[f].seds[i] : i \in 1..n} :
     d.at \in {NONE, l.addr} /\ d.from = Assembly(l).goes}
Targets(f, n, l) ==
  IF For(f, n, l) = {} THEN {Assembly(l).goes}
  ELSE {d.to : d \in For(f, n, l)}
IsMade(f, n, l, x) == x.label = l.addr /\ x.goes \in Targets(f, n, l)

\* All lines of a routine are there, each going where it is to go.
Whole(f, n, lines, sym) ==
  /\ sym \in DOMAIN lib
  /\ \A l \in Range(lib[sym].body) :
       \E k \in DOMAIN lines : IsMade(f, n, l, lines[k])

\* The last line is one of sym's.
EndsIn(lines, sym) ==
  /\ sym \in DOMAIN lib
  /\ lines /= <<>>
  /\ lines[Len(lines)].label \in NamesOf(lib, sym)

\* No line or heading of sym is there, but the toolchain has one.
Replaceable(f, sym) ==
  /\ Own(sym) \in Toolchain \ Labels(f)
  /\ sym \in DOMAIN lib => NamesOf(lib, sym) \cap Labels(f) = {}

\* The listed routines of file f that have one of the names, or a line there.
RoutinesAt(f, names) ==
  {t \in Listed(f) :
     \/ Own(t) \in names
     \/ t \in DOMAIN lib /\ Addresses(lib, t) \cap names /= {}}

\* Those the lines of sym go to.
LeadsTo(f, sym) ==
  RoutinesAt(f, {out[f][k].goes : k \in {k \in DOMAIN out[f] :
                   out[f][k].label \in Addresses(lib, sym)}})

\* The routines of file f that can run: those an object or another file asks
\* for or the file's data point to, and those they lead to, that is, those of
\* every set closed under it.
Closed(f, syms) ==
  /\ RoutinesAt(f, Asked \cup Pointed(f)) \subseteq syms
  /\ \A s \in syms \cap DOMAIN lib : LeadsTo(f, s) \subseteq syms
Needed(f) ==
  {s \in Listed(f) : \A syms \in SUBSET Listed(f) :
                       Closed(f, syms) => s \in syms}

(* A program that links has every routine it can run as the library has    *)
(* it, every line going where it went or is replaced to go, but for the    *)
(* last one printed of a file, which refine.py may have given up on, and   *)
(* for one the toolchain has too, which is then linked in its place: no    *)
(* other routine that is missing, or behind the line given up on, goes     *)
(* unnoticed.                                                              *)
OnlyLastIsCut ==
  status = "linked" =>
    \A f \in DOMAIN Files : \A s \in Needed(f) :
      \/ Whole(f, Len(Files[f].seds), out[f], s)
      \/ EndsIn(out[f], s)
      \/ Replaceable(f, s)

\* The labels to expect of file f.
Expected(f) == DOMAIN Files[f].inc \cup Owns(Headed(f))
               \cup (UNION {Addresses(lib, s) : s \in Listed(f)})

\* The lists are enough: every routine listed is found, with its name over it
\* or put there, and printed, and what its lines and the data go to is listed
\* or included for the file or supplied.
Complete ==
  \A f \in DOMAIN Files :
    LET names == Expected(f) \cup Supplied(build) \cup {Nothing}
        seds == Files[f].seds IN
    /\ Listed(f) \subseteq DOMAIN lib
    /\ \A s \in Listed(f) : \A l \in Range(lib[s].body) :
         /\ ~Pass!Refuses(l)
         /\ For(f, Len(seds), l) = {} => Assembly(l).goes \in names
    /\ \A s \in Headed(f) :
         \/ lib[s].head = s
         \/ \E d \in Range(seds) :
              d.from = Own(lib[s].head) /\ d.at \in {NONE, d.from}
    /\ Pointed(f) \subseteq names

(* With lists that are enough for the library the program links: disass,   *)
(* refine.py and the replacements lose no label and make none twice, and   *)
(* the replaced and renamed calls end at something, whatever names the     *)
(* routines go by and whatever they call by way of the shims and stubs.    *)
CompleteLinks == status = "failed" => ~Complete

=============================================================================
