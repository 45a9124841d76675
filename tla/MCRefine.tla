------------------------------ MODULE MCRefine ------------------------------
(* Instances of Refine for TLC: a routine of each class, and one in both.  *)
EXTENDS Refine

Line(kind, form, sym) == [kind |-> kind, form |-> form, sym |-> sym]

\* Headings and calls of every routine, and every other form of line.
FewLines ==
  {Line("label", "sym", n) : n \in Names} \cup
  {Line("branch", f, n) : f \in {"sym", "plt"}, n \in Names} \cup
  {Line(k, f, "other") : k \in {"branch"}, f \in {"offset", "base"}} \cup
  {Line("test", "base_offset", "other"), Line("adrp", "base", "other"),
   Line("adr", "offset", "other"), Line("insn", "none", NONE),
   Line("unknown", "none", NONE), Line("skip", "none", NONE)}
=============================================================================
