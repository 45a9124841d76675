------------------------------- MODULE Refine -------------------------------
(***************************************************************************)
(* refine.py: turns the disassembly of the selected routines into assembly *)
(* again.  Branches and addresses inside routines become labels L<addr>,   *)
(* a call of a named routine goes to its s_ version when stdlib provides   *)
(* one, to an o_ stub when the routine is unsafe to call, and else keeps   *)
(* its name.  A line with an address it cannot express ends the run.  At   *)
(* the end it reports where every name comes from.                         *)
(*                                                                         *)
(* A line is [kind, form, sym]: what it is, how its operand names an       *)
(* address, and the routine named.  "label" is the heading of a routine,   *)
(* "branch" b, bl and b.cond, "test" tbz to cbnz, "insn" any other         *)
(* instruction with operands, "bare" ret and nop, "unknown" any other      *)
(* line, "skip" what refine.py passes over.                                *)
(***************************************************************************)
EXTENDS Integers, Sequences, FiniteSets

CONSTANTS
  Names,     \* names of routines
  Unsafe,    \* unsafe_symbols
  Static,    \* static_symbols
  Lines,     \* the lines the disassembly may hold
  MaxLines,  \* bound: its lines
  NONE

Kinds == {"label", "branch", "test", "adrp", "adr", "insn", "bare",
          "unknown", "skip"}
\* "none", "<sym>", "<sym@plt>", "<sym+0x..>", "<sym@@Base>" and
\* "<sym@@Base+0x..>".
Forms == {"none", "sym", "plt", "offset", "base", "base_offset"}

ASSUME NamesAssumption == Unsafe \subseteq Names /\ Static \subseteq Names
ASSUME LinesAssumption ==
  /\ Lines \subseteq [kind : Kinds, form : Forms, sym : Names \cup {NONE}]
  /\ \A l \in Lines : /\ l.form = "none" <=> l.sym = NONE
                      /\ l.kind = "label" => l.form \in {"sym", "base"}
                      /\ l.kind \in {"branch", "test", "adrp", "adr"} =>
                           l.form /= "none"
ASSUME BoundsAssumption == MaxLines \in Nat

VARIABLES
  symbols,        \* symbols: every routine called, in order
  local_symbols,  \* local_symbols: every routine printed, in order
  out,            \* the lines printed
  read,           \* lines read
  report,         \* where each symbol comes from
  status          \* "reading", "refused" or "reported"

vars == <<symbols, local_symbols, out, read, report, status>>

In(x, seq) == \E k \in DOMAIN seq : seq[k] = x
AddNew_Always(seq, x) == Append(seq, x)   \* mutant
AddNew(seq, x) == IF In(x, seq) THEN seq ELSE Append(seq, x)

-----------------------------------------------------------------------------
(* process_insts: what is printed for a line, or NONE.                     *)

\* The name import_sym returns.
NewName(sym) ==
  [sym |-> sym,
   prefix |-> IF sym \in Unsafe THEN "o_"
              ELSE IF sym \in Static THEN "s_" ELSE ""]

Printed(what, name) == [what |-> what, name |-> name]
OwnName(sym) == [sym |-> sym, prefix |-> ""]
NoName == OwnName(NONE)

\* A call by name.
IsCall(l) == l.kind = "branch" /\ l.form \in {"sym", "plt"}

\* An address inside a routine, that becomes the label of a line.
IsInner(l) == \/ l.kind \in {"branch", "test"}
                 /\ l.form \in {"offset", "base_offset"}
              \/ l.kind = "adr" /\ l.form = "base_offset"

\* A page, that post.py resolves.
IsPage(l) == l.kind = "adrp" /\ l.form \in {"offset", "base", "base_offset"}

\* Anything else is printed as it is unless the operands hold '@' or '+0x'.
IsPlain(l) == \/ /\ l.kind \in {"test", "adr", "insn"}
                 /\ l.form \in {"none", "sym"}
              \/ l.kind = "bare"

Refuses(l) == ~(\/ l.kind \in {"label", "skip"}
                \/ IsCall(l) \/ IsInner(l) \/ IsPage(l) \/ IsPlain(l))

-----------------------------------------------------------------------------
(* The loop over the lines.                                                *)

Heading(l) ==
  /\ l.kind = "label"
  /\ local_symbols' = AddNew(local_symbols, l.sym)
  /\ out' = Append(out, Printed("label", OwnName(l.sym)))
  /\ UNCHANGED <<symbols, status>>

Call(l) ==
  /\ IsCall(l)
  /\ symbols' = AddNew(symbols, l.sym)
  /\ out' = Append(out, Printed("call", NewName(l.sym)))
  /\ UNCHANGED <<local_symbols, status>>

Other(l) ==
  /\ \/ IsInner(l) /\ out' = Append(out, Printed("inner", NoName))
     \/ IsPage(l) /\ out' = Append(out, Printed("page", NoName))
     \/ IsPlain(l) /\ out' = Append(out, Printed("plain", NoName))
     \/ l.kind = "skip" /\ UNCHANGED out
  /\ UNCHANGED <<symbols, local_symbols, status>>

Refuse(l) ==
  /\ Refuses(l)
  /\ status' = "refused"
  /\ UNCHANGED <<symbols, local_symbols, out>>

ReadLine ==
  /\ status = "reading"
  /\ read < MaxLines
  /\ read' = read + 1
  /\ \E l \in Lines : Heading(l) \/ Call(l) \/ Other(l) \/ Refuse(l)
  /\ UNCHANGED report

\* The class a symbol is reported in; the tests come in this order.
Class_StaticFirst(sym) ==
  CASE sym \in Unsafe -> "unsafe"
    [] sym \notin Unsafe /\ sym \in Static -> "static"    \* mutant
    [] OTHER -> IF In(sym, local_symbols) THEN "local" ELSE "other"
Class(sym) ==
  CASE sym \in Unsafe -> "unsafe"
    [] sym \notin Unsafe /\ In(sym, local_symbols) -> "local"
    [] OTHER -> IF sym \in Static THEN "static" ELSE "other"

Report ==
  /\ status = "reading"
  /\ status' = "reported"
  /\ report' = {[class |-> Class(symbols[k]), sym |-> symbols[k]] :
                  k \in DOMAIN symbols}
  /\ UNCHANGED <<symbols, local_symbols, out, read>>

Init == /\ symbols = <<>>
        /\ local_symbols = <<>>
        /\ out = <<>>
        /\ read = 0
        /\ report = {}
        /\ status = "reading"

Next == ReadLine \/ Report

Spec == Init /\ [][Next]_vars

-----------------------------------------------------------------------------
(* Properties.                                                             *)

NoRepeat(seq) == \A j, k \in DOMAIN seq : seq[j] = seq[k] => j = k
Output == [what : {"label", "call", "inner", "page", "plain"},
           name : [sym : Names \cup {NONE}, prefix : {"", "s_", "o_"}]]

(* The shape of the state: neither list of routines holds one twice.       *)
TypeOK ==
  /\ symbols \in Seq(Names) /\ NoRepeat(symbols)
  /\ local_symbols \in Seq(Names) /\ NoRepeat(local_symbols)
  /\ out \in Seq(Output)
  /\ read \in 0..MaxLines
  /\ report \subseteq [sym : Names,
                       class : {"unsafe", "local", "static", "other"}]
  /\ status \in {"reading", "refused", "reported"}

Headings == {out[k].name.sym : k \in {j \in DOMAIN out : out[j].what = "label"}}
CalledAs(prefix) ==
  {out[k].name.sym : k \in {j \in DOMAIN out : /\ out[j].what = "call"
                                               /\ out[j].name.prefix = prefix}}
Reported(class) == {r.sym : r \in {q \in report : q.class = class}}

(* The report says of each routine called, once, where the printed calls of*)
(* it go: "other" are exactly the routines someone must still provide      *)
(* (called by their own name with no heading in the output, whether it     *)
(* would come before or after the call), "unsafe" those called as o_,      *)
(* "static" those called as s_, except that one that is printed too is     *)
(* "local".                                                                *)
ReportTruthful ==
  status = "reported" =>
    /\ Reported("other") = CalledAs("") \ Headings
    /\ Reported("unsafe") = CalledAs("o_")
    /\ Reported("static") = CalledAs("s_") \ Headings
    /\ Reported("local") = (CalledAs("") \cup CalledAs("s_")) \cap Headings
    /\ Cardinality(report) = Len(symbols)

=============================================================================
