------------------------------- MODULE Calls -------------------------------
(***************************************************************************)
(* Who is called when a name is called.  The program consists of itself    *)
(* (main.c, the shims and stubs, its own C library), of the extracted      *)
(* code, and of the libraries jemalloc and stdlib, placed at run time.     *)
(* A call from one to another goes by a name: refine.py gives the names of *)
(* the extracted code an s_ or o_, the relocation tables those that the    *)
(* libraries import an s_, of their own shim's file first.  An s_ name     *)
(* is a function or a stub of the shims, or a jump through a pointer that  *)
(* stdlib/stdlib wrote, to a symbol the library was made to keep.  So six  *)
(* lists in as many files have to agree.                                   *)
(*                                                                         *)
(* jemalloc's locks are stubs that do nothing, and its pages are taken for *)
(* its own use at any moment of a call: it must not be entered twice.      *)
(***************************************************************************)
EXTENDS Sequences, FiniteSets, Naturals

CONSTANT MaxDepth   \* bound: calls in progress
ASSUME DepthAssumption == MaxDepth \in Nat

-----------------------------------------------------------------------------
(* The lists.                                                              *)

\* refine.py.
static_symbols ==
  {"malloc", "free", "calloc", "realloc", "_ZdaPv", "_ZdlPv", "_Znam", "_Znwm",
   "memset", "memcpy", "memcmp", "memmove", "sin", "cos", "sqrt", "pow",
   "crc32", "inflate", "inflateEnd", "inflateInit_", "inflateReset",
   "sprintf", "fprintf", "fputc"}

\* dummy.c; an unsafe routine that is not here keeps the program from linking.
Dummies == {"setjmp", "fwrite", "exit", "abort", "__stack_chk_fail",
            "__sfp_handle_exceptions", "__cxa_begin_catch", "__cxa_end_catch",
            "__cxa_rethrow", "_Unwind_Resume"}

\* jemalloc_exports.s and stdlib_exports.s: the pointer behind each s_ name.
JemallocExports ==
  [malloc |-> "je_malloc", calloc0 |-> "je_calloc", realloc |-> "je_realloc",
   free |-> "je_free", _Znam |-> "je_malloc", _Znwm |-> "je_malloc",
   _ZdaPv |-> "je_free", _ZdlPv |-> "je_free"]
StringExports == {"memset", "memcpy", "memcmp", "memmove", "strncmp", "strcmp",
                  "strchr", "strlen", "strtol"}
ZlibExports == {"crc32", "inflate", "inflateEnd", "inflateInit_",
                "inflateReset"}
StdlibExports == StringExports \cup ZlibExports \cup
                 {"sin", "cos", "pow", "sqrt", "sprintf", "fprintf", "fputc"}

\* What stdlib/stdlib writes pointers for, and what jemalloc_main.c and
\* stdlib_main.c make the linker keep.
Processed == [jemalloc |-> {"je_malloc", "je_calloc", "je_realloc", "je_free"},
              stdlib |->
                {"memset", "memcpy", "memcmp", "memmove", "strncmp", "strcmp",
                 "strchr", "strlen", "strtol", "sin", "cos", "pow", "sqrt",
                 "crc32", "inflate", "inflateEnd", "inflateInit_",
                 "inflateReset", "sprintf", "fprintf", "fputc"}]
KeptByMain ==
  [jemalloc |-> {"je_malloc", "je_calloc", "je_realloc", "je_free"},
   stdlib |-> {"memset", "memcpy", "memcmp", "memmove", "strncmp", "strcmp",
               "strchr", "strlen", "strtol", "sin", "cos", "pow", "sqrt",
               "sprintf", "fprintf", "fputc", "crc32", "inflate", "inflateEnd",
               "inflateInit_", "inflateReset"}]

\* jemalloc.c: what it answers itself, passes to the system, or exits on.
JemallocAnswers ==
  {"pthread_atfork", "prctl", "pthread_self", "pthread_key_create",
   "pthread_getspecific", "pthread_setspecific", "pthread_mutex_init",
   "pthread_mutexattr_init", "pthread_mutexattr_destroy",
   "pthread_mutexattr_settype", "pthread_mutex_lock", "pthread_mutex_unlock",
   "__open_2", "__read_chk", "close", "sysconf", "clock_gettime"}
JemallocSystem == {"mmap", "madvise", "munmap"}
JemallocStubs == {"write", "abort", "__errno", "strerror_r", "__stack_chk_fail"}

\* stdlib.c exits on all it imports but free; "other" is any of the names
\* that have nothing to do with memory.
StdlibStubs == {"malloc", "calloc", "realloc", "_Znam", "mmap", "munmap",
                "pthread_mutex_lock", "pthread_mutex_unlock", "__errno",
                "other"}

-----------------------------------------------------------------------------
VARIABLES
  build,   \* "native" or "semihosting"
  debug,   \* DEBUG_RELOC and DEBUG_JEMALLOC
  placed,  \* the libraries placed so far
  stack,   \* the calls in progress, innermost last: [in, fn]
  status   \* "booting", "running", "exited", or "lost" (a jump to nowhere)

vars == <<build, debug, placed, stack, status>>

Libs == {"jemalloc", "stdlib"}
Frame(in, fn) == [in |-> in, fn |-> fn]
Nowhere == Frame("nowhere", "")
Top == stack[Len(stack)]
Alive == status \in {"booting", "running"}

\* A jump through a pointer of a library's header.
Through(lib, fn) == IF fn \in Processed[lib] \cap KeptByMain[lib]
                    THEN Frame(lib, fn) ELSE Nowhere

\* The global function s_<name>.
Shim(name) ==
  CASE name = "calloc" -> Frame("program", "s_calloc")
    [] name \in DOMAIN JemallocExports ->
         Through("jemalloc", JemallocExports[name])
    [] name \in StdlibExports -> Through("stdlib", name)
    [] OTHER -> Nowhere

\* What <name> means in the shims of a library, where a static function goes
\* before a global one.
ImportOf(lib, name) ==
  CASE name \in (IF lib = "jemalloc" THEN JemallocStubs ELSE StdlibStubs) ->
         Frame("program", "stub")
    [] lib = "jemalloc" /\ name \in JemallocAnswers ->
         Frame("program", "answer")
    [] lib = "jemalloc" /\ name \in JemallocSystem -> Frame("program", "system")
    [] OTHER -> Shim(name)

\* What <name> means in the extracted code.
ExtractedName(name) ==
  IF name \in static_symbols THEN Shim(name)
  ELSE IF name = "setjmp" THEN Frame("program", "answer")
  ELSE Frame("program", "stub")

\* Whom malloc means in the program's own C library: itself, or in the
\* semihosting build the bootstrap allocator of malloc.s.  Neither calls on.
MallocOf_Shim == Shim("malloc")   \* mutant: malloc.s names s_malloc
MallocOf == Frame("program", "answer")

\* Whom the shims print with: the program's own C library.
PrinterOf_Shim == Shim("fprintf")   \* mutant: with the library's
PrinterOf == Frame("program", "fprintf")

-----------------------------------------------------------------------------
(* Calls and returns.                                                      *)

Enter(frame) ==
  /\ Alive
  /\ Len(stack) < MaxDepth
  /\ IF frame.in = "nowhere" \/ frame.in \in Libs \ placed
     THEN status' = "lost" /\ UNCHANGED stack
     ELSE stack' = Append(stack, frame) /\ UNCHANGED status
  /\ UNCHANGED <<build, debug, placed>>

In(region) == Alive /\ stack /= <<>> /\ Top.in = region
InFunction(fn) == In("program") /\ Top.fn = fn

\* bootstrap() places jemalloc, then stdlib.
Order == <<"jemalloc", "stdlib">>

Place ==
  /\ status = "booting"
  /\ stack = <<>>
  /\ LET n == Cardinality(placed) + 1
     IN /\ n <= Len(Order)
        /\ placed' = placed \cup {Order[n]}
  /\ UNCHANGED <<build, debug, stack, status>>

\* Messages of reloc() and bootstrap(), by the program's fprintf.
BootMessage ==
  /\ status = "booting"
  /\ stack = <<>>
  /\ \/ debug
     \/ build = "semihosting" /\ placed = Libs
  /\ Enter(Frame("program", "fprintf"))

Booted == /\ status = "booting"
          /\ stack = <<>>
          /\ placed = Libs
          /\ status' = "running"
          /\ UNCHANGED <<build, debug, placed, stack>>

\* main calls the extracted code, and frees what it got from it.
MainCalls == /\ status = "running"
             /\ stack = <<>>
             /\ \/ Enter(Frame("extracted", "code"))
                \/ \E name \in {"malloc", "free"} : Enter(Shim(name))

ExtractedCalls ==
  /\ In("extracted")
  /\ \E name \in static_symbols \cup Dummies : Enter(ExtractedName(name))

SCalloc == /\ InFunction("s_calloc")
           /\ \E name \in {"calloc0", "memset"} : Enter(Shim(name))

JemallocCalls ==
  /\ In("jemalloc")
  /\ \E name \in JemallocAnswers \cup JemallocSystem \cup JemallocStubs
                 \cup StringExports : Enter(ImportOf("jemalloc", name))

\* The string functions call nothing but __errno.  zlib is given functions
\* of the extracted code to allocate with.
StdlibCalls ==
  /\ In("stdlib")
  /\ \/ Enter(ImportOf("stdlib", "__errno"))
     \/ /\ Top.fn \notin StringExports
        /\ \E name \in StdlibStubs \cup {"free"} :
             Enter(ImportOf("stdlib", name))
     \/ /\ Top.fn \in ZlibExports
        /\ Enter(Frame("extracted", "callback"))

\* s_mmap and the like with their messages; and a stub says it is one.
Message == /\ \/ InFunction("stub")
              \/ InFunction("system") /\ debug
           /\ Enter(PrinterOf)

FprintfCalls == /\ InFunction("fprintf")
                /\ Enter(MallocOf)

\* A stub ends the process, so does the bootstrap allocator when it is empty.
Exit == /\ \/ InFunction("stub")
           \/ InFunction("answer") /\ build = "semihosting"
        /\ status' = "exited"
        /\ UNCHANGED <<build, debug, placed, stack>>

Return == /\ Alive
          /\ stack /= <<>>
          /\ ~InFunction("stub")
          /\ stack' = SubSeq(stack, 1, Len(stack) - 1)
          /\ UNCHANGED <<build, debug, placed, status>>

Init == /\ build \in {"native", "semihosting"}
        /\ debug \in BOOLEAN
        /\ placed = {}
        /\ stack = <<>>
        /\ status = "booting"

Next == \/ Place \/ BootMessage \/ Booted
        \/ MainCalls \/ ExtractedCalls \/ SCalloc
        \/ JemallocCalls \/ StdlibCalls
        \/ Message \/ FprintfCalls \/ Exit \/ Return

Spec == Init /\ [][Next]_vars

-----------------------------------------------------------------------------
(* Properties.                                                             *)

(* Every call lands: a name refine.py prefixes with s_, and one a library  *)
(* imports, means a function, a stub, or a pointer to a symbol that was    *)
(* kept and given a pointer; and no call, not even one of a message while  *)
(* bootstrapping, goes to a library before it is placed.                   *)
CallsLand == status /= "lost"

(* jemalloc, whose locks are stubs, is never entered while it runs:        *)
(* neither through the string functions it uses, nor through what stdlib   *)
(* and zlib call back, nor through the messages of its own shims, since    *)
(* the allocator those use is another one.                                 *)
JemallocNotReentered ==
  \A j, k \in DOMAIN stack :
    stack[j].in = "jemalloc" /\ stack[k].in = "jemalloc" => j = k

=============================================================================
