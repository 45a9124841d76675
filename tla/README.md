# rebench, specified

This directory holds a TLA+ specification of rebench: modules translated from
its C, Python and shell sources, TLC configurations that check them on small
instances, and proofs that TLAPS checks for all instances. Paths below are
relative to the repository root, `src/`.

rebench takes machine code out of Antutu's `libabenchmark.so`, makes assembly
of it again, and links it into `ututna`, a command-line program that runs the
six benchmarks with jemalloc and a C library of fixed versions, placed at fixed
addresses, under hardware event counters. It is built for Android ("native")
and for a bare machine under QEMU ("semihosting").

## 1. Inventory

| part | source | state it keeps | operations |
|---|---|---|---|
| hardware counters | `ututna/perf.c` | `fd`, `n_counters`, `ratios`, `headers`, the two buffers, `counters_valid`; the kernel's event group | `perf_config`, `perf_init`, `perf_begin`, `perf_end`, `perf_print`, `perf_print_headers` |
| benchmark driver | `ututna/main.c` | `start`, `gemm_ptrs`, `gemm_idx`, `test_map_idx`, `loops_unordered`, `test_map_results`, the heap it takes blocks from | `main`, six tests, and the functions the extracted code calls back: `gemm_malloc`, `gemm_free`, the map hook, the stopwatch |
| library loader | `ututna/reloc.c`, `ututna/bootstrap.c`, `ututna/malloc.s` | two regions of memory and their protection, the program break, the bootstrap allocator | `reloc`, `do_reloc`, `bootstrap`, `bootstrap_malloc`, `_free`, `_realloc`, `_calloc` |
| relocation table generator | `reloc`, `stdlib/stdlib` | none | reads section and relocation tables, writes a C header |
| shims | `stdlib/jemalloc.c`, `stdlib/stdlib.c`, `*_exports.s`, `ututna/dummy.c` | the pages and the break below them, `thread_value` | what jemalloc and stdlib import: `s_mmap`, `s_madvise`, `s_munmap`, locks, stubs; `s_calloc` and the jumps into the libraries |
| disassembly refiner | `refine.py` | `symbols`, `local_symbols` | accepts or refuses each line, renames calls, reports |
| address patcher | `post.py` | `tmp`, `replaces`, the file | pairs adrp with its use, rewrites with sed |
| extraction pipeline | `disass`, `ututna/ututna`, `ndk-which`, makefiles | `$TMPFILE`, the assembly files | runs objdump and the passes for each benchmark, replaces names, links |
| self test, extracted code | `stdlib/stdlib_test.c`, `stdlib/*_main.c`, `ututna/*.s`, `ututna/test_png.c` | | |

**How they interact.** At build time `ututna/ututna` pipes `disass` into
`refine.py` and that into `post.py`; `reloc` writes the headers `jemalloc.c`
and `stdlib.c` include. At run time `main` calls `bootstrap`, which places
jemalloc and then stdlib; the option loop calls `perf_config` once an option;
each test calls extracted code, and around its loop `begin` and `end`, which
call `perf_begin` and `perf_end`; `print_score` calls `perf_print`. The
extracted code calls back: `gemm_malloc` and `gemm_free` from the set-up of
601, the map hook once for each map of 603, the stopwatch from 614. Program,
extracted code and the two libraries call each other by names that are resolved
in three ways: by the linker, by a pointer a header holds, and by a relocation
the loader applies. jemalloc asks its shims for pages; stdlib's shims mostly
exit.

**What is hard.** There are no threads. What is hard is shared static state in
a long sequence of calls, some of them callbacks nobody in `main.c` decides
the order of: counters that run while they are read, a row of counters kept in
statics until some later line shows it, a pool of three that has to be whole
again after a set-up that got only part of it, a hook that tells two maps
apart by counting its calls. Then partial failure (no memory, mmap, mprotect
or `_sbrk` refused, an event refused), sizes that do not match (6 values, 10 counters),
the order of memcpy, memset, mprotect and relocation over one region, and in
the two passes the state that links one line of code to an earlier one.
`PROJECT.json` lists each such hazard at its line, with the properties below
that would catch it going wrong, or why none does yet.

**What makes each part correct.**

- counters: a row shows, for each column of the header, what that event
  counted in one window, and is shown once; every factor stands behind the pair
  it belongs to; nothing is written outside an array.
- driver: a line's row, its DURATION and its LOOPS are about the loop it names;
  the matrices are live while they are used, and every block is given back;
  every selected test reports, and the run ends.
- loader: when `main` goes on, each word of both libraries is what the linker
  asked for; only .text is executable and it is never writable; the heap is
  past the libraries, unless the break could not be raised.
- scripts: what they leave out of a header harms the word it is about and no
  other, and each pointer leads to its function.
- shims: a block keeps what was put in it and a zeroed one is zero, although
  pages are dirty and never given back; every name ends somewhere; jemalloc,
  without locks, is never entered while it runs.
- passes: a datum is found at the address it had; the final report says what is
  still to be provided; what the extraction lost does not link unnoticed,
  but for two cases that can be named.

## 2. Modules and their correspondence to the code

`PROJECT.json` maps each definition to the lines it translates. Operators named
`X_Something` next to an `X` and commented "mutant" are deliberately wrong
variants of `X`; nothing uses them but the experiments that replace `X` by them
to see a property fail.

### CounterWindow and PerfCounters (`ututna/perf.c`)

`CounterWindow` is the promise: a stopwatch with a `mode` and a `tally` for
each counter. `PerfCounters` is the code: `grp` holds `fd`, `n_counters` and
the events opened, with the descriptor each was given and its group leader;
`ratios`, `headers`, `counters_begin`, `counters_end`, `counters_valid` are the
statics of that name. Text is abstracted to columns (a header is the list of
its columns, a row the list of its cells), values to counts.

`perf_config` is one action for each of its outcomes (`ConfigPair`,
`ConfigSingle`, `ConfigDropped`, `ConfigRefused`); a refused event ends the
process, as `perf_open` does. `perf_begin` is two actions since the kernel
counts between its ioctl and its read (`PerfBeginReset`, `PerfBeginRead`), and
`Work` is the kernel counting, at any moment. The kernel's rule that only a
leader can be named as a group is `Accepts`.

A read that returns more values than the buffer holds is undefined behaviour
and modelled as a choice: the values land where `perf_print` looks for them, or
over the other statics (`Overrun`, after which nothing is promised).

Refinement: `ImplementsWindow == Window!Spec`, where `mode` is a function of
`phase` and `counters_valid`, and `tally` of `count` and the buffers.

### Ututna (`ututna/main.c`, native build), using PerfCounters

`pc` is the section that runs (a test, or one half of 601 or 603) and the step
it is at; the other variables are the statics and locals of `main.c`. Each
action is one call into the library or one of `begin`, `end`, `print_score`
with what surrounds it. `begin` and `end` conjoin the operations of
`PerfCounters`, whose own `phase` guards them: were they called out of order,
the driver would be stuck, and `Terminates` would fail.
`CallsInOrder` says, of the states, that the driver never is: where it goes on
to one of these calls, `phase` is what that call needs.

Time is counted in iterations, by whom: `since` counts the work done since the
last `begin`, separately for each loop and for set-up work, so a duration is
the vector of what it covers. Scores are left out.

The library is modelled from how `main.c` uses it: any allocation may fail; the
map hook is passed over when a map fails its set-up; map and hash loops may
break off; `kiss_fftr` faults on the NULL that `kiss_fftr_alloc` may return
(`NullCfg`); the physics loop adds up its step in floating point and may take one
step more, and a negative step never reaches its end.

### Bootstrap (`ututna/reloc.c`, `bootstrap()`) and BootstrapHeap

Both builds in one module. `at` is the library being placed and the step of
`reloc` it is at, `entry` is `do_reloc`'s `e`, `mem` and `prot` the contents
and protection of every word of both regions, `brk` the program break.
`FirstSbrk` and `SecondSbrk` are the two calls of `bootstrap` that raise it.
Either may be refused: the code tests neither result and boots all the same,
with the break where it was; `p` is what it prints as HEAP_START at the end, and
`refused` remembers, for the property, that it happened. Memory
is counted in words and offsets start at the region; a word is `unmapped`,
`junk`, the k-th word of the binary, or a 64-bit value. An image (sizes,
offsets, table) is a constant, any image of the set `Images`; `WellFormed` says
what the linker and the `reloc` script guarantee. `mprotect` may fail silently,
as the code ignores it; `Call` is the first call into a library afterwards.

`BootstrapHeap` is the allocator the semihosting build boots with: a pointer, a
remainder, and the blocks handed out.

### Refine (`refine.py`)

A line is its kind, how its operand names an address (`Forms`), and the routine
named. `IsCall`, `IsInner`, `IsPage`, `IsPlain` are the patterns that accept a
line, in the order the script tries them; everything else is refused and ends
the run. `symbols` and `local_symbols` are the script's lists.

### AdrpPatch (`post.py`)

The lines arrive one by one; `tmp` gives for each register the adrp waiting for
its use, `replaces` the sed commands, `label` what sed put in place of a page
or an offset. `InContext` and `NewGroup` are `grep -A 7`, which the script
reads through. `Readers` is the reference: the lines that find in their base register
what a line left there, in straight-line order. Branches are not modelled, neither
here nor in the script.

### Elapsed (`ututna/main.c`, `begin` and `end`)

`clock` is the wall clock in microseconds, which passes and may be set; `start`
is the static, `Usec` the subtraction of `end` with its conversion to unsigned
long. `elapsed` and `moved` are what really passed and by how much the clock
was set.

### Shims (`stdlib/jemalloc.c`)

What each page of memory holds, the chunks jemalloc has mapped, the blocks
live, and `trusted`, the free pages jemalloc takes to be zero since `mmap` or
`madvise` said so. jemalloc is any allocator: it puts a block anywhere it has
room, purges and unmaps free pages, and its calloc clears what it does not
trust. `MmapNative` and `MmapSbrk` are the two bodies of `s_mmap`; `ToInt` is
the length becoming the `int` of `_sbrk`; `Clears` is what `s_calloc` clears on
top. `CallocNull` is the clearing of NULL.

### RelocTable (`reloc`, `stdlib/stdlib`), extending Bootstrap

The scripts have no state: `Delivered` is the header they write for a pair of
executables, if it compiles. `Known` are the lines of readelf the script keeps,
`Nth` picks them in their order, and `Table` is the list of entries with its
terminator. `ElfOK` is what the linker guarantees of an executable: one .text
and one .bss, sections inside the region, the binary before .bss, no word
relocated twice. The loader then runs on the delivered images, so
`ImagesAssumption` of Bootstrap says that what the scripts deliver is
`WellFormed`; TLC evaluates it on the instance, and `DeliveredAreWellFormed`
proves it from `ElfOK`. Relocations of unknown types, addends the
table has no place for, section numbers of one digit and names grep finds
twice are among the inputs.

### Calls (names and who answers to them)

The lists of names in refine.py, the exports, `stdlib/stdlib`, the shims, the
stubs and the two mains, `Shim` and `ImportOf`, which resolve a name with them,
and a stack of the calls in progress. What each party may call is: the
extracted code any name of refine.py's lists, jemalloc any of its imports,
stdlib any of its own and, from zlib, a function of the extracted code;
`s_calloc` its two; the shims their messages. A jump to a symbol that is not
there, or to a library not placed yet, is "lost".

### Extract (`disass`, `ututna/ututna`, the link), using Refine

A library gives each routine a heading and lines with addresses. `stage` says
which program runs on the file under way, `step` how much of its input it has
done, `tmp` is `$TMPFILE`, `asm` the assembly so far, `out` the files made.
`Disass` prints one routine of the list, `RefineLine` one line (with `Refuses`,
`IsCall`, `IsInner`, `IsPage` and `NewName` of Refine), `RefineEnd` ends the pass
at the end of its input or at the first line it refuses, `Post` ends the file
with its `.include`, and `Sed` is one replacement.

`inc` is what a file includes: labels, and for each the names its data point
to. The `.inc` files are full of them: the tables of functions of 614, the
vtables of 603, the filters and allocators of 609, the jump table of 600. Such a
name is asked of the assembler and the linker like one in a line, and what it
leads to can run.

`Link` resolves every name as assembler and linker do: the file's own labels,
its data's, global names, the C objects of each build (`Defs` and `Uses`), and
`Toolchain`, what libc and the compiler's runtime have. The last matters
here: `ututna:83` lists seven routines of the runtime (`__multf3`,
`__floatsitf`, ...) to be taken from libabenchmark.so. If the library lacks one,
or refine.py gives up before it, the toolchain's is linked in its place and
nobody notices.

`Needed` is the reference for what can run: the routines of every set that
holds what other objects ask for and the file's data point to, and is closed
under what its lines lead to. `Whole` says of one that every line is there
and goes where it went in the library, or to the target of a replacement that
is for that line and that name. `OnlyLastIsCut` says of a program that links that
each of them is whole, unless it is the last one printed of its file or the
toolchain has one of its name. `Complete` lists, name by name, what it takes for
the lists to be enough for the library; `CompleteLinks` says that then the scripts
themselves lose nothing.

The tables of `ututna/ututna` and the library are constants, and what is true of
the tables in the script, or of any disassembly, is assumed of them by name:
nothing is listed twice (`FilesAssumption`); a routine is of one file and of no
C object, though perhaps of the toolchain (`ListsAssumption`); no two lines have
one address and no two routines one name (`LibrariesAssumption`); a replacement
goes to a listed or supplied name, and renames no address and nothing another
replacement made (`SedsAssumption`); and what the objects of the native build
use is listed or supplied (`ObjectsAssumption`).

## 3. Runs

| run | instance | distinct states | shows |
|---|---|---|---|
| `perf` | 4 counters, 3 values, counts up to 1, all command lines of up to 5 options: two pairs, an unknown pair, a single | 368,278 | GroupIsComplete, RatioBelongsToPair, HeaderMatchesRow, ImplementsWindow |
| `perf_overrun` | the sizes of perf.c, four options of README.md | stops at the first | ReadsFit is violated (section 6) |
| `driver` | every id with 1, 3, -1 and default loops, the self test; no counter, one, or two in a buffer for one | 31,265 | RowsBelongToLines, DurationsBelongToLines, GemmMatricesLive, GemmPoolSuffices, NoLeaks, CallsInOrder, Terminates, SelectedTestsReport |
| `boot` | both builds, 3 layouts and 3 tables for each library, equal and different ROM starts, breaks below and above the heap, each call that raises it granted and refused; and the images delivered for pairs of executables: 4 section tables, 4 relocation lists, a name found once, twice or never | 45,530 | LibrariesAsLinked, BootFaultsOnSharedPage, OnlyTextSealed, HeapPastLibraries, Boots, MemoryAsElfAsks, PointersLand |
| `heap` | 8 bytes, five requests, two frees | 80,456 | BlocksDisjoint |
| `refine` | every disassembly of up to 4 lines, a routine of each class | 17,528 | ReportTruthful |
| `patch` | every file of up to 5 lines of ten kinds, 2 registers, 2 pages, context 2 | 410,335 | HalvesMeet, DataFound |
| `elapsed` | seconds of 3 microseconds, 32 values, clock up to 8, set twice | 32,814 | DurationExact |
| `shims` | both builds, 5 pages, chunks of 2 and of 5 pages, jemalloc's threshold below and at that of `s_calloc`, a product that wraps | 55,033 | BlocksKeepContents, ChunksApart |
| `calls` | both builds, with and without messages, 8 calls in progress | 70,790 | CallsLand, JemallocNotReentered |
| `extract` | six files of 25 routines, with data that point to routines, stubs and each other; 350 libraries: at most one routine missing and one refused line in a file; a toolchain with one of the routines | 50,478 | OnlyLastIsCut, CompleteLinks |
| `extract_semi` | the same libraries, `make semi` | stops at the first | CompleteLinks is violated (section 6) |

Most runs also check the module's `TypeOK` (`HeapTypeOK`, `ClockTypeOK`), which
holds the bounds of the arrays.

**Bounds.** In `perf` five options fill the four slots with pairs, or with
pairs and singles, and leave two, one or no slot for a pair or a single that
comes next; three values are one fewer than the slots, as the code has six for
ten, so that `Overrun` is reached; a count of one tells a difference from a
reading (begin and end both one). `perf_overrun` uses the real sizes. The
proofs hold for all sizes. `MaxCount` is 0 in `driver`, since no property there
looks at counts. In
`driver`, `UnorderedFactor` stands for the 10 of `loops * 10` and the default
loops are 2 or 3, so that halving, multiplying and the two loops of one test
give different numbers. Regions of eight words on pages of two let .text begin
on a page, end on one, and straddle two, and let a relocation fall on a page of
.text, next to it, in .bss and in the binary. The context of `grep -A` is 2 for
7 with files of 5 lines, so that groups end, join and are separated. Four
lines are enough for `refine` to print a routine before and after its call.
In `elapsed` a second is short enough that every reading falls before and after
a full one, and 32 values are more than the clock has, so that only a negative
difference wraps. The 5 pages of `shims` hold two chunks below the break and
one whose length is no `int` (5 of 8 values); `s_calloc` sees a product below,
at and past its threshold, and one past `SIZE_T`. Eight calls are the longest chain that enters each party of
`calls` once (extracted code, zlib, its callback, `s_calloc`, jemalloc, a shim,
its message, the C library's allocator). The
libraries of `extract` miss things in one file at a time, since nothing but the
global names leads from one file to another; two are complete, one in which a
routine goes by another name and one in which every one goes by its own. Four
routines are reached by the data only: a vtable's, an allocator's, a function
table's, and a range behind a jump table.
All of these are constants; the proofs hold for all their values.

**Fairness.** `Ututna` and `Bootstrap` assume weak fairness of their own steps:
the process is scheduled, nothing in it waits for anything else. `Work`, the
kernel, has none. No allocation, mapping or protection is assumed to succeed:
where a failure is ignored (mprotect, `_sbrk`, NULL of `kiss_fftr_alloc`), the run
goes on with its consequences. `Terminates` and `SelectedTestsReport` except `Endless`, the physics
loop with a negative number of loops, which really has no end. The other
modules have no liveness property and no fairness.

**Where deadlock is not checked.** Every program here ends.

**Premises to know of.** `LibrariesAsLinked` holds when the first section of
both executables starts at one offset, since the `reloc` script writes that of
jemalloc into both headers (`reloc:20`). `DataFound` holds when each page in a
register is used once and no add or ldr finds anything else than a page in a
register an earlier adrp set, and the datum of a ldr with no offset starts a
page. `MemoryAsElfAsks` and `PointersLand` have the premise of `LibrariesAsLinked`.
The instances `boot` and `patch` contain states on both sides of
these premises. `BlocksKeepContents` holds in the semihosting build if
jemalloc trusts pages only for blocks of the size `s_calloc` clears, 20480
bytes, or more; the jemalloc in question is not part of the sources, and the
instance has both cases. `ChunksApart` ends with the first length that is no
`int`. `HeapPastLibraries` excepts the boots in which `_sbrk` was
refused: then the heap begins below or in the libraries, and the code does not
notice, but the HEAP_START it prints is no address from 0x44000000 on. `CompleteLinks` has `Complete` as
its premise; the instance has libraries on both sides of it. A line printed after a failure (no matrices, no
memory for an image, a loop broken off) has no DURATION to speak of and is
excepted; its row is not. When the ordered map is passed over, the unordered
one is measured and labelled as ordered: the properties follow the loop that
ran, not the label.

## 4. Proofs

Every safety property and action property of the passing runs is a theorem, for
every value of the constants. The proofs are of one form: an inductive
invariant; a lemma for each action; and the theorems, which follow from it. TLC
agrees with the invariants on the instances of section 3 (with finite sets for
the naturals in those of `AdrpPatch` and `Shims`).

**`PerfCounters_proofs`**: `TypeCorrect`, `GroupCompleteness`,
`RatioCorrectness`, `HeaderCorrectness`, and `PerfImplementsWindow`, the
refinement (every step of the code is a step of the stopwatch or none). `IInv`
consists of the types; of `GroupInOrder`, that the events are in one group with
descriptors in order; of ratios belonging to pairs; and of `ReadingsGrow`, that
a reading never exceeds a later one of the same window, without which a row
might be negative. `HeaderMatchesRow` is about a row defined by recursion over
the slots, and needs no induction over data: `HeaderInv` says of the row, as a
function with that recursive equation, that it exists, is the only one, and is
the header, and `perf_config` extends it by one slot or two (`RowExtends`).

**`Bootstrap_proofs`**: `BootTypes`, `LibrariesLinked`, `SealsText`,
`FaultsOnSharedPage`, `HeapIsPast` (also over refused calls: before the second
one the break is one step past `p`). `Shape` gives the types, with the table's
end as the bound of `entry`. `Contents` says what a region holds at each step
(nothing, the binary, the binary and .bss, relocated up to `entry`), and that
one library is untouched while the other is placed; the interesting step is
`Relocate`, where the entries before `entry` keep their value because no two
entries name one word. `Sealing` needs the arithmetic of pages: `ALIGN` and
`ALIGN_UP` cut out exactly the pages .text touches (`TextPagesExact`).
The module goes on to the scripts: `Nth` enumerates the lines kept, each once
(a fact about ranks in a finite set), so the delivered table has one entry for
each, which gives `DeliveredAreWellFormed`; together with `LibrariesLinked` it
gives `RelocationsDone` and `PointersLead`, from readelf's output to memory.

The module ends with the allocator of `BootstrapHeap`: `HeapTypes` and
`HeapSafety`. Neither variable of the allocator bounds the blocks alone:
`Accounted` (the two add up to the buffer) and `Behind` (blocks end before the
pointer) do.

**`Refine_proofs`**: `Typing`, `ReportsTruth`. `ListsMatchOutput` ties the two
lists to what was printed: `symbols` holds the routines called, `local_symbols`
those with a heading. Class and truth of a report line are then read off the
lists as they are at the end, when headings after the calls are known.

**`AdrpPatch_proofs`**: `Typing`, `AddressesMeet`, `EveryDatumFound`. `Waiting`
says, while lines are read, that the adrp kept for a register is the last one
of it and not used yet; `CommandsApart`, that no two commands are about one
line with different addresses; `UsesPaired` and `AdrpsPaired`, that a line
given an address, rewritten or still to be, has its other half; `ServedOnce`,
that between two served uses of a register stands an adrp. "Given" covers what
is in `label` and what is still in `replaces`, so that a step of sed moves an
address from the one to the other and leaves the pairs as they are.

**`Shims_proofs`**: `Typing`, `ContentsKept`, `MappedOnce`. The two builds keep
their promise for different reasons, which the invariant states apart:
`NativeSpace` (what is mapped is there, what is trusted is zero) and `SbrkSpace`
(every block is below the break), beside `BlocksApart`. Allocation, calloc and
writing all replace at most one block by a new one, which `ReplacedStep` treats
once.

**`Calls_proofs`**: `EveryCallLands`, `EnteredOnce`. Every imported name is
looked up in the lists and comes to a function that exists. `LeavesAbove` says
that above a frame of jemalloc, or of anything it calls, stand only functions
that call none but their like (string functions, stubs, messages); `BootCalls`,
that nothing but messages runs before both libraries are placed.

**`Ututna_proofs`**: `Typing`, `RowsOnTheirLines`, `DurationsOnTheirLines`,
`MatricesStayLive`, `PoolSuffices`, `NothingLeaks`, `CountersInOrder`,
`DriverUsesCounters`. A line's properties are about a window that ended many steps before, so the
invariant follows it there: `Measuring` (inside a loop the clock holds its
iterations and nothing else), `Printing` (a row waits only between `end()` and
the line of that loop, and is that loop's), `GemmResults` and `MapState` (what
the statics of 601 and 603 keep from one half to the other, and that
`test_map_idx` counts the hook's calls), `PoolState` (empty outside 601, filled
from the front during a set-up), `HeapState` (besides what the running section
holds, one block is live once 600 has run), `Selected` (the section is one the
command line selects, which the last needs to know whether 600 has run).
`DriverUsesCounters` is a refinement: every step of the driver is one
operation of `PerfCounters` or leaves its variables alone, so what is proved
of `PerfCounters` holds in the driver.
`CountersInOrder` says that this is no accident of guards: the driver arrives at
each call with `phase` as the call needs it, which is what its liveness needs of
the counters.
The module ends with the clock of `begin()` and `end()`, that is, with
`Elapsed`, which it extends too: `ClockTyping`, and `EndMeasures` for the action
property `DurationExact`. Its invariant, that the clock is ahead of what
`begin()` read by the time passed and by what it was set by, comes to `%` over
negative numbers through the lemma `Converted`.

**`Extract_proofs`**: `OnlyEndsAreCut`, `CompleteNativeLinks`. The first is
about what the linker cannot see. `Blocks` says of `$TMPFILE` and of what
refine.py has printed that routines stand one behind the other, each in full
but for the last; `Cut`, that so they do in a finished file, whatever headings
the replacements changed, each line going where the replacements for it have it
go. Were a routine cut that is not the last, there would be no line of a later
one. What remains is reachability, and needs no induction over the calls:
`Needed` is the least set closed under them, so it is enough that the routines
of which some line is there, or that the toolchain has, are one
(`ThereIsClosed`), and that is what linking shows: a name that is asked for, by
a line or by the data, has been given, and nobody but the file itself or the
toolchain gives it.

The second is the converse, and has an invariant of its own above the first,
`CompleteInv`, conditional on `Complete`. `Lists` says that `$TMPFILE` holds every
line of every routine so far and no label twice; `Entire`, that the assembly has
exactly the labels expected of the file (headings as far as the replacements
made have put them in place, each once), and that every line goes where the
replacements made so far have it go. At the link that gives what make asks for:
no label twice in a file, no global name in two, every name answered. It holds
of the native build; the theorem says so, since of the semihosting build it is
false (section 6): there perf's names are asked for and nobody has them.

**Assumptions.** They are those named in the modules: that sizes, bounds and
offsets are naturals; that images are `WellFormed` (proved of the delivered ones
from `ElfOK`, the linker's guarantees); that both regions end below
`HEAP_START` and a page has at least one word (the masks of `ALIGN` are
divisions for the 4096 of the code); that a line of a disassembly names a
routine of `Names` where it names one; that a command line gives a natural id
and an integer number of loops, default loops are naturals, `UnorderedFactor`
is positive, and `NULL` is no block and no row; that a second and an unsigned
long hold a positive number of microseconds; and those of `Extract` (section
2), which are to be read off the script's tables and the library, and which the
instance satisfies. TLC evaluates each of them on the instances.

**Only model-checked.** Liveness (`Terminates`, `SelectedTestsReport`,
`Boots`), which is out of the prover's reach, as is ENABLED.

## 5. Not modelled

- the semihosting bodies of `begin`, `end` and the stopwatch, which print a dot
  and call the markers `tp_start` and `tp_end`: the build they are for does not
  link (section 6);
- scores, which are printed and never read (a score of 0 seconds is infinite,
  and converting it to int undefined: `main.c:85`);
- post.py's work on pages inside `Extract`: there an adrp goes to the datum
  whose label it is to become. `AdrpPatch` is about when it does; one that is
  left as it was does not assemble, so that less links than in `Extract`;
- that sed finds the two stopwatch calls of 614 at the addresses
  `ututna/ututna:133` names: with another libabenchmark.so it does not, the
  program links, and physics has no counters;
- the self test calls the program's own memset, not the library's, so it says
  nothing of the libraries;
- objdump, the NDK tools, `extract`, `ndk-which`, `test`, the extracted machine
  code and its data: external or without state.

## 6. Disagreements found

`perf.c:25` holds 6 values, `perf.c:10` allows 10 counters: with `-i 0 -i 1
-i 2` and one more option, all of which README.md:26-33 documents, each group
read goes past the end of its buffer. The run `perf_overrun` reaches such a
read. It is undefined behaviour; whether it shows depends on what the compiler
puts behind the buffers. `PerfCounters` models both outcomes, and
`ImplementsWindow` allows for it with the mode "lost".

`main.c:302` and `main.c:310` call `perf_config` and `perf_init` in both
builds. `perf.h:4` hides their declarations from the semihosting build, and
`Makefile.semi:20` lists no perf.o among its objects: the build that
README.md:47 describes and `build.sh:7` makes ends with two undefined
references. The run `extract_semi` reaches it with a library from which
everything was extracted; with perf among the objects the instance links.

## 7. Plan

Everything planned is there: each module with its run, and every safety and
action property with its proof. What could come next:

1. the liveness properties, when the prover can follow fairness; `Terminates`
   would rest on `CountersInOrder` and on a measure of the tests to come, the
   loops left and the step of the section;
2. that what `Calls` lists as a leaf agrees with what `Shims` and `RelocTable`
   say of the same functions;
3. the semihosting bodies of `begin()`, `end()` and `print_score`, once the
   build they are for links.
