---------------------------- MODULE MCAdrpPatch ----------------------------
(* Instances of AdrpPatch for TLC: two registers, two pages.               *)
EXTENDS AdrpPatch

Line(op, reg, base, val) == [op |-> op, reg |-> reg, base |-> base, val |-> val]

\* Pages are 10 and 20; the offsets differ for add and ldr.
FewLines ==
  {Line("adrp", "x8", NONE, 10), Line("adrp", "x8", NONE, 20),
   Line("adrp", "x9", NONE, 10),
   Line("add", "x9", "x8", 1), Line("add", "x8", "x8", 1),
   Line("ldr", "x8", "x9", 2), Line("ldr0", NONE, "x8", 0),
   Line("other", NONE, "x8", 2), Line("other", "x8", NONE, 0),
   Line("other", NONE, NONE, 0)}
=============================================================================
