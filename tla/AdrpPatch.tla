----------------------------- MODULE AdrpPatch -----------------------------
(***************************************************************************)
(* post.py: makes the address of a datum symbolic again.  In the extracted *)
(* code an adrp names a page ("?14a000") and a later add or ldr the offset *)
(* in it.  post.py reads the adrp lines and the few lines after each,      *)
(* joins an adrp with the first use of its register into one label, and    *)
(* then rewrites the file with sed: the adrp to the label, the use to its  *)
(* :lo12: part.  A "?" that is left makes the assembler refuse the file.   *)
(*                                                                         *)
(* Lines arrive one by one as grep passes them on.  A line is              *)
(* [op, reg, base, val]: the register it writes, the one it uses as a base *)
(* address (NONE for none), and its page or offset.  "ldr0" is a ldr with  *)
(* no offset, "other" any line no pattern of post.py matches.              *)
(***************************************************************************)
EXTENDS Integers, Sequences, FiniteSets

CONSTANTS
  Regs,      \* the x, d and q registers
  Lines,     \* the lines of code the file may hold
  AFTER,     \* grep -A 7
  MaxLines,  \* bound: lines of the file
  NONE

Ops == {"adrp", "add", "ldr", "ldr0", "other"}

ASSUME LinesAssumption ==
  /\ Lines \subseteq [op : Ops, reg : Regs \cup {NONE},
                      base : Regs \cup {NONE}, val : Nat]
  /\ NONE \notin Regs /\ NONE \notin Nat
  /\ \A l \in Lines : /\ l.op = "adrp" => l.reg \in Regs /\ l.base = NONE
                      /\ l.op \in {"add", "ldr", "ldr0"} => l.base \in Regs
                      /\ l.op = "ldr0" => l.val = 0
ASSUME BoundsAssumption == AFTER \in Nat /\ MaxLines \in Nat

VARIABLES
  file,      \* the lines so far; a line's label is its position
  tmp,       \* for each register the adrp waiting for its use, 0 for none
  replaces,  \* the sed commands not run yet
  label,     \* what sed put in place of a line's page or offset, or NONE
  phase      \* "reading", "replacing" or "done"

vars == <<file, tmp, replaces, label, phase>>

-----------------------------------------------------------------------------
(* grep adrp -A 7.                                                         *)

Adrps == {k \in DOMAIN file : file[k].op = "adrp"}

\* The line after the last one is passed on: an adrp is close before it.
InContext == \E k \in Adrps : Len(file) + 1 - k <= AFTER

\* A "--" separates it from the group before: only an adrp starts a group.
NewGroup == Adrps /= {} /\ \A k \in Adrps : Len(file) - k > AFTER

-----------------------------------------------------------------------------
(* The loop over the lines.                                                *)

NoAdrp == [r \in Regs |-> 0]

\* The label of the line being read.
Here_Last == Len(file)   \* mutant: the label of the line before
Here == Len(file) + 1

ReadAdrp(l) ==
  /\ l.op = "adrp"
  /\ tmp' = [IF NewGroup THEN NoAdrp ELSE tmp EXCEPT ![l.reg] = Here]
  /\ UNCHANGED replaces

\* The register by which a use finds its adrp.
BaseOf_Written(l) == l.reg   \* mutant: reg for reg2
BaseOf(l) == l.base
\* The label's address.
Address_NoOffset(page, l) == page   \* mutant: the page's first byte
Address(page, l) == page + l.val

\* The first use of a register after its adrp takes the adrp.  A ldr with no
\* offset has nothing to rewrite itself.
ReadUse(l) ==
  LET r == BaseOf(l)
      addr == Address(file[tmp[r]].val, l)
  IN /\ l.op \in {"add", "ldr", "ldr0"}
     /\ InContext
     /\ r \in Regs /\ tmp[r] /= 0
     /\ replaces' = replaces \o
          <<[line |-> tmp[r], addr |-> addr]>> \o
          IF l.op = "ldr0" THEN <<>>
                           ELSE <<[line |-> Here, addr |-> addr]>>
     /\ tmp' = [tmp EXCEPT ![r] = 0]

\* Every other line leaves the table alone, also when it writes a register
\* an adrp is kept for.
ReadOther(l) ==
  /\ l.op /= "adrp"
  /\ ~(/\ l.op /= "other" /\ InContext
       /\ BaseOf(l) \in Regs /\ tmp[BaseOf(l)] /= 0)
  /\ UNCHANGED <<tmp, replaces>>

ReadLine ==
  /\ phase = "reading"
  /\ Len(file) < MaxLines
  /\ \E l \in Lines : /\ ReadAdrp(l) \/ ReadUse(l) \/ ReadOther(l)
                      /\ file' = Append(file, l)
  /\ label' = Append(label, NONE)
  /\ UNCHANGED phase

EndOfFile == /\ phase = "reading"
             /\ phase' = "replacing"
             /\ UNCHANGED <<file, tmp, replaces, label>>

\* sed finds the page or offset of a line only the first time.
Sed == /\ phase = "replacing"
       /\ replaces /= <<>>
       /\ LET s == Head(replaces)
          IN label' = IF label[s.line] = NONE
                      THEN [label EXCEPT ![s.line] = s.addr] ELSE label
       /\ replaces' = Tail(replaces)
       /\ UNCHANGED <<file, tmp, phase>>

AppendInclude == /\ phase = "replacing"
                 /\ replaces = <<>>
                 /\ phase' = "done"
                 /\ UNCHANGED <<file, tmp, replaces, label>>

Init == /\ file = <<>>
        /\ tmp = NoAdrp
        /\ replaces = <<>>
        /\ label = <<>>
        /\ phase = "reading"

Next == ReadLine \/ EndOfFile \/ Sed \/ AppendInclude

Spec == Init /\ [][Next]_vars

-----------------------------------------------------------------------------
(* What the code meant, in straight-line order.                            *)

\* The lines that find in their base register what line d left there.
Readers(d) == {k \in DOMAIN file :
                 /\ d < k /\ file[k].base = file[d].reg
                 /\ \A j \in d + 1..k - 1 : file[j].reg /= file[k].base}

\* What compiled code is expected to do: every page is used once, and no
\* add or ldr finds something else than the page in a register that an
\* adrp set before.
OneUseEach == \A d \in Adrps : Cardinality(Readers(d)) <= 1
NoReuse == \A k \in DOMAIN file :
             /\ file[k].op \in {"add", "ldr", "ldr0"}
             /\ \E d \in Adrps : d < k /\ file[d].reg = file[k].base
             => \E d \in Adrps : k \in Readers(d)

Assembles == \A d \in Adrps : label[d] /= NONE

-----------------------------------------------------------------------------
(* Properties.                                                             *)

(* The shape of the state: what tmp keeps for a register is an adrp of it. *)
TypeOK ==
  /\ file \in Seq(Lines)
  /\ tmp \in [Regs -> 0..Len(file)]
  /\ \A r \in Regs : tmp[r] /= 0 => tmp[r] \in Adrps /\ file[tmp[r]].reg = r
  /\ replaces \in Seq([line : 1..Len(file), addr : Nat])
  /\ label \in Seq(Nat \cup {NONE}) /\ Len(label) = Len(file)
  /\ phase \in {"reading", "replacing", "done"}

(* The two halves of an address meet: a line that takes the :lo12: part of *)
(* a label has an adrp before it, of its base register and rewritten to    *)
(* that label, that is the address the two had together; an adrp serves    *)
(* one line, and no line is rewritten twice.                               *)
Labelled(addr) == {k \in DOMAIN file : label[k] = addr}

HalvesMeet ==
  /\ phase = "done" =>
       \A k \in DOMAIN file \ Adrps : label[k] /= NONE =>
         /\ \E d \in Adrps \cap Labelled(label[k]) :
              /\ d < k /\ file[d].reg = file[k].base
              /\ label[d] = file[d].val + file[k].val
         /\ Cardinality(Labelled(label[k]) \ Adrps)
              <= Cardinality(Labelled(label[k]) \cap Adrps)
  /\ \A i, j \in DOMAIN replaces :
       i /= j => replaces[i].line /= replaces[j].line
  /\ \A i \in DOMAIN replaces : label[replaces[i].line] = NONE

(* When the file assembles, every datum is found: a line that uses a page  *)
(* as its base gets the label of the address it had, in both halves (or in *)
(* the adrp alone for a ldr with no offset, whose datum starts a page),    *)
(* provided every page is used once and no register is used stale.         *)
DataFound ==
  phase = "done" /\ Assembles /\ OneUseEach /\ NoReuse =>
    \A d \in Adrps : \A k \in Readers(d) :
      /\ label[d] = file[d].val + file[k].val
      /\ file[k].op \in {"add", "ldr", "ldr0"}
      /\ label[k] = IF file[k].op = "ldr0" THEN NONE ELSE label[d]

=============================================================================
