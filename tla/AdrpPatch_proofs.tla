-------------------------- MODULE AdrpPatch_proofs --------------------------
(***************************************************************************)
(* What TLAPS proves about AdrpPatch, for any registers, any lines, any    *)
(* context of grep and files of any length.                                *)
(***************************************************************************)
EXTENDS AdrpPatch, FiniteSetTheorems, SequenceTheorems, TLAPS

-----------------------------------------------------------------------------
(* The inductive invariant.                                                *)

(* A line is, or will be, rewritten to an address.                         *)
Ordered(k, a) == \E n \in DOMAIN replaces : /\ replaces[n].line = k
                                            /\ replaces[n].addr = a
Given(k, a) == label[k] = a \/ Ordered(k, a)
Rewritten(k) == \E a \in Nat : Given(k, a)

(* Line d is the last adrp before line k of k's base register.             *)
Partner(d, k) ==
  /\ d \in Adrps /\ d < k
  /\ file[d].reg = file[k].base
  /\ \A e \in Adrps : e < k /\ file[e].reg = file[k].base => e <= d

Sum(d, k) == file[d].val + file[k].val
Uses == {"add", "ldr", "ldr0"}

(* A command is about a line no other is about, and not rewritten yet.     *)
CommandsApart ==
  /\ \A m, n \in DOMAIN replaces :
       m /= n => replaces[m].line /= replaces[n].line
  /\ \A n \in DOMAIN replaces : label[replaces[n].line] = NONE

(* A use is rewritten to the sum with its adrp, which is, too.             *)
UsesPaired ==
  \A k \in DOMAIN file \ Adrps : \A a \in Nat : Given(k, a) =>
    \E d \in Adrps : Partner(d, k) /\ Given(d, a) /\ a = Sum(d, k)

(* An adrp is rewritten to the sum with a use, which is, too, if it has an *)
(* offset to rewrite.                                                      *)
AdrpsPaired ==
  \A d \in Adrps : \A a \in Nat : Given(d, a) =>
    \E k \in DOMAIN file :
      /\ file[k].op \in Uses
      /\ Partner(d, k) /\ a = Sum(d, k)
      /\ IF file[k].op = "ldr0" THEN ~Rewritten(k) ELSE Given(k, a)

(* Between two rewritten uses of a register stands an adrp of it.          *)
ServedOnce ==
  \A j, k \in DOMAIN file \ Adrps :
    /\ j < k /\ file[j].base = file[k].base
    /\ Rewritten(j) /\ Rewritten(k)
    => \E d \in Adrps : /\ j < d /\ d < k
                        /\ file[d].reg = file[k].base

(* While lines are read nothing is rewritten; the adrp kept for a register *)
(* is the last of it, and no line has used it.                             *)
Waiting ==
  phase = "reading" =>
    /\ \A k \in DOMAIN file : label[k] = NONE
    /\ \A r \in Regs : tmp[r] /= 0 =>
         /\ \A e \in Adrps : file[e].reg = r => e <= tmp[r]
         /\ ~Rewritten(tmp[r])
         /\ \A k \in DOMAIN file \ Adrps :
              tmp[r] < k /\ file[k].base = r => ~Rewritten(k)

IInv == /\ TypeOK /\ CommandsApart /\ UsesPaired /\ AdrpsPaired
        /\ ServedOnce /\ Waiting
        /\ phase = "done" => replaces = <<>>

-----------------------------------------------------------------------------
(* Reading a line.                                                         *)

(* The commands are about lines of the file, and orders to numbers.        *)
LEMMA CommandTypes ==
  ASSUME TypeOK
  PROVE  \A i \in DOMAIN replaces : /\ replaces[i].line \in DOMAIN file
                                    /\ replaces[i].addr \in Nat
<1> DEFINE Command == [line : 1..Len(file), addr : Nat]
<1>1. replaces \in Seq(Command) /\ DOMAIN file = 1..Len(file)
  BY DEF TypeOK
<1>2. \A c \in Command : c.line \in 1..Len(file) /\ c.addr \in Nat
  OBVIOUS
<1> HIDE DEF Command
<1>3. \A i \in DOMAIN replaces : replaces[i] \in Command
  BY <1>1
<1> QED BY <1>1, <1>2, <1>3

(* What stays, and what is new, when the file grows by line n.             *)
Grown(l, n) ==
  /\ file' \in Seq(Lines) /\ label' \in Seq(Nat \cup {NONE})
  /\ Len(file') = n /\ Len(label') = n
  /\ DOMAIN file = 1..Len(file) /\ DOMAIN file' = 1..n
  /\ n = Len(file) + 1 /\ n \in Nat /\ Len(file) \in Nat
  /\ file'[n] = l /\ label'[n] = NONE
  /\ \A k \in DOMAIN file : file'[k] = file[k] /\ label'[k] = label[k]
  /\ Adrps \subseteq DOMAIN file
  /\ Adrps' = Adrps \cup IF l.op = "adrp" THEN {n} ELSE {}

LEMMA FileGrows ==
  ASSUME TypeOK, NEW l \in Lines,
         file' = Append(file, l), label' = Append(label, NONE)
  PROVE  Grown(l, Here)
<1> DEFINE n == Len(file) + 1
<1>1. /\ file \in Seq(Lines) /\ label \in Seq(Nat \cup {NONE})
      /\ Len(label) = Len(file)
  BY DEF TypeOK
<1>2. /\ file' \in Seq(Lines) /\ Len(file') = n
      /\ DOMAIN file = 1..Len(file) /\ DOMAIN file' = 1..n
      /\ file'[n] = l
      /\ \A k \in 1..Len(file) : file'[k] = file[k]
      /\ Len(file) \in Nat /\ n \in Nat
  BY <1>1
<1>3. /\ label' \in Seq(Nat \cup {NONE}) /\ Len(label') = n
      /\ label'[n] = NONE
      /\ \A k \in 1..Len(file) : label'[k] = label[k]
  BY <1>1
<1>4. Adrps' = Adrps \cup IF l.op = "adrp" THEN {n} ELSE {}
  BY <1>2 DEF Adrps
<1> HIDE DEF n
<1>5. Grown(l, n)
  BY <1>2, <1>3, <1>4 DEF Adrps, Grown, n
<1> QED BY <1>5 DEF Here, n

(* The partners of the lines before stay, the new line gets the last adrp  *)
(* of its base register.                                                   *)
LEMMA PartnersStay ==
  ASSUME NEW l \in Lines, NEW n, Grown(l, n)
  PROVE  /\ \A d, k \in DOMAIN file :
              /\ Partner(d, k) => Partner(d, k)'
              /\ Sum(d, k)' = Sum(d, k)
         /\ l.op /= "adrp" =>
              \A d \in Adrps :
                /\ file[d].reg = l.base
                /\ \A e \in Adrps : file[e].reg = l.base => e <= d
                => Partner(d, n)' /\ Sum(d, n)' = file[d].val + l.val
<1>1. ASSUME NEW d \in DOMAIN file, NEW k \in DOMAIN file, Partner(d, k)
      PROVE  Partner(d, k)'
  <2>1. ASSUME NEW e \in Adrps', e < k, file'[e].reg = file'[k].base
        PROVE  e <= d
    BY <1>1, <2>1 DEF Partner, Grown
  <2> QED BY <1>1, <2>1 DEF Partner, Grown
<1>2. \A d, k \in DOMAIN file : Sum(d, k)' = Sum(d, k)
  BY DEF Sum, Grown
<1>3. ASSUME l.op /= "adrp", NEW d \in Adrps, file[d].reg = l.base,
             \A e \in Adrps : file[e].reg = l.base => e <= d
      PROVE  Partner(d, n)' /\ Sum(d, n)' = file[d].val + l.val
  BY <1>3 DEF Partner, Sum, Grown
<1> QED BY <1>1, <1>2, <1>3

(* When no command is added, the same lines are rewritten as before.       *)
LEMMA NothingOrdered ==
  ASSUME TypeOK, NEW l \in Lines, NEW n, Grown(l, n), replaces' = replaces
  PROVE  /\ \A k \in DOMAIN file, a \in Nat : Given(k, a)' <=> Given(k, a)
         /\ \A k \in DOMAIN file : Rewritten(k)' <=> Rewritten(k)
         /\ \A a \in Nat : ~Given(n, a)'
         /\ ~Rewritten(n)'
         /\ replaces' \in Seq([line : 1..n, addr : Nat])
<1>1. \A i \in DOMAIN replaces : replaces[i].line \in DOMAIN file
  BY CommandTypes
<1>2. \A k, a : Ordered(k, a)' <=> Ordered(k, a)
  BY DEF Ordered
<1>3. \A k \in DOMAIN file, a \in Nat : Given(k, a)' <=> Given(k, a)
  BY <1>2 DEF Given, Grown
<1>4. \A a \in Nat : ~Given(n, a)'
  <2>1. \A a \in Nat : ~Ordered(n, a)
    BY <1>1 DEF Ordered, Grown
  <2> QED BY <1>2, <2>1, LinesAssumption DEF Given, Grown
<1>5. replaces' \in Seq([line : 1..n, addr : Nat])
  <2> DEFINE Command(m) == [line : 1..m, addr : Nat]
  <2>1. replaces \in Seq(Command(Len(file)))
    BY DEF TypeOK
  <2>2. Command(Len(file)) \subseteq Command(n)
    BY DEF Grown
  <2> HIDE DEF Command
  <2>3. replaces \in Seq(Command(n))
    BY <2>1, <2>2, SeqMonotonic
  <2> QED BY <2>3 DEF Command
<1>6. \A k \in DOMAIN file : Rewritten(k)' <=> Rewritten(k)
  BY <1>3 DEF Rewritten
<1> QED BY <1>3, <1>4, <1>5, <1>6 DEF Rewritten

(* The parts of the invariant about lines before the new one.              *)
LEMMA PairsStay ==
  ASSUME IInv, NEW l \in Lines, NEW n, Grown(l, n), replaces' = replaces
  PROVE  CommandsApart' /\ UsesPaired' /\ AdrpsPaired' /\ ServedOnce'
<1>1. TypeOK /\ CommandsApart /\ UsesPaired /\ AdrpsPaired /\ ServedOnce
  BY DEF IInv
<1>2. \A i \in DOMAIN replaces : replaces[i].line \in DOMAIN file
  BY <1>1, CommandTypes
<1>3. CommandsApart'
  BY <1>1, <1>2 DEF CommandsApart, Grown
<1>a. /\ \A k \in DOMAIN file, a \in Nat : Given(k, a)' <=> Given(k, a)
      /\ \A k \in DOMAIN file : Rewritten(k)' <=> Rewritten(k)
      /\ \A a \in Nat : ~Given(n, a)'
      /\ ~Rewritten(n)'
  BY <1>1, NothingOrdered
<1>0. \A d, k \in DOMAIN file : /\ Partner(d, k) => Partner(d, k)'
                                /\ Sum(d, k)' = Sum(d, k)
  BY PartnersStay
<1>4. ASSUME NEW k \in DOMAIN file' \ Adrps', NEW a \in Nat, Given(k, a)'
      PROVE  \E d \in Adrps' : Partner(d, k)' /\ Given(d, a)' /\ a = Sum(d, k)'
  <2>1. k \in DOMAIN file \ Adrps /\ Given(k, a)
    BY <1>4, <1>a DEF Grown
  <2>2. PICK d \in Adrps : Partner(d, k) /\ Given(d, a) /\ a = Sum(d, k)
    BY <1>1, <2>1 DEF UsesPaired
  <2>3. d \in Adrps' /\ d \in DOMAIN file
    BY DEF Grown
  <2> QED BY <1>a, <1>0, <2>1, <2>2, <2>3
<1>5. ASSUME NEW d \in Adrps', NEW a \in Nat, Given(d, a)'
      PROVE  \E k \in DOMAIN file' :
               /\ file'[k].op \in Uses
               /\ Partner(d, k)' /\ a = Sum(d, k)'
               /\ IF file'[k].op = "ldr0" THEN ~Rewritten(k)'
                                          ELSE Given(k, a)'
  <2>1. d \in Adrps /\ Given(d, a) /\ d \in DOMAIN file
    BY <1>5, <1>a DEF Grown
  <2>2. PICK k \in DOMAIN file :
               /\ file[k].op \in Uses
               /\ Partner(d, k) /\ a = Sum(d, k)
               /\ IF file[k].op = "ldr0" THEN ~Rewritten(k) ELSE Given(k, a)
    BY <1>1, <2>1 DEF AdrpsPaired
  <2>3. k \in DOMAIN file' /\ file'[k] = file[k]
    BY DEF Grown
  <2> QED BY <1>a, <1>0, <2>1, <2>2, <2>3
<1>6. ASSUME NEW j \in DOMAIN file' \ Adrps', NEW k \in DOMAIN file' \ Adrps',
             j < k, file'[j].base = file'[k].base,
             Rewritten(j)', Rewritten(k)'
      PROVE  \E d \in Adrps' : j < d /\ d < k /\ file'[d].reg = file'[k].base
  <2>1. j \in DOMAIN file \ Adrps /\ k \in DOMAIN file \ Adrps
    BY <1>6, <1>a DEF Grown
  <2>2. Rewritten(j) /\ Rewritten(k) /\ file[j].base = file[k].base
    BY <1>6, <2>1, <1>a DEF Grown
  <2>3. PICK d \in Adrps : j < d /\ d < k /\ file[d].reg = file[k].base
    BY <1>1, <1>6, <2>1, <2>2 DEF ServedOnce
  <2> QED BY <2>1, <2>3 DEF Grown
<1>7. UsesPaired'
  BY <1>4 DEF UsesPaired
<1>8. AdrpsPaired'
  BY <1>5 DEF AdrpsPaired
<1>9. ServedOnce'
  BY <1>6 DEF ServedOnce
<1> QED BY <1>3, <1>7, <1>8, <1>9

-----------------------------------------------------------------------------
(* An adrp, and a line that is no use.                                     *)

(* An adrp that is kept still waits.                                       *)
LEMMA StillWaits ==
  ASSUME IInv, phase = "reading", NEW l \in Lines, NEW n, Grown(l, n),
         replaces' = replaces,
         NEW r \in Regs, tmp'[r] = tmp[r], tmp[r] /= 0,
         l.op = "adrp" => l.reg /= r
  PROVE  /\ tmp'[r] \in Adrps' /\ file'[tmp'[r]].reg = r
         /\ \A e \in Adrps' : file'[e].reg = r => e <= tmp'[r]
         /\ ~Rewritten(tmp[r])'
         /\ \A k \in DOMAIN file' \ Adrps' :
              tmp'[r] < k /\ file'[k].base = r => ~Rewritten(k)'
<1>1. TypeOK /\ Waiting
  BY DEF IInv
<1>2. tmp[r] \in Adrps /\ file[tmp[r]].reg = r
  BY <1>1 DEF TypeOK
<1>3. /\ \A e \in Adrps : file[e].reg = r => e <= tmp[r]
      /\ ~Rewritten(tmp[r])
      /\ \A k \in DOMAIN file \ Adrps :
           tmp[r] < k /\ file[k].base = r => ~Rewritten(k)
  BY <1>1 DEF Waiting
<1>4. /\ \A k \in DOMAIN file : Rewritten(k)' <=> Rewritten(k)
      /\ ~Rewritten(n)'
  BY <1>1, NothingOrdered
<1>5. ~Rewritten(tmp[r])'
  <2> PICK d \in DOMAIN file : d = tmp[r]
    BY <1>2 DEF Grown
  <2>1. ~Rewritten(d)' /\ d = tmp'[r]
    BY <1>3, <1>4
  <2> QED BY <2>1 DEF Rewritten, Given, Ordered
<1>6. tmp'[r] \in Adrps' /\ file'[tmp'[r]].reg = r
  BY <1>2 DEF Grown
<1>7. \A e \in Adrps' : file'[e].reg = r => e <= tmp'[r]
  BY <1>3 DEF Grown
<1>8. \A k \in DOMAIN file' \ Adrps' :
        tmp'[r] < k /\ file'[k].base = r => ~Rewritten(k)'
  BY <1>3, <1>4 DEF Grown
<1> QED BY <1>5, <1>6, <1>7, <1>8

LEMMA ReadAdrpStep ==
  ASSUME IInv, phase = "reading", phase' = phase, NEW l \in Lines,
         NEW n, n = Here, Grown(l, n), ReadAdrp(l)
  PROVE  IInv'
<1> DEFINE old == IF NewGroup THEN NoAdrp ELSE tmp
<1>1. TypeOK /\ Waiting /\ replaces' = replaces
  BY DEF IInv, ReadAdrp
<1>2. /\ old \in [Regs -> 0..Len(file)]
      /\ \A r \in Regs : old[r] \in {0, tmp[r]}
      /\ l.op = "adrp" /\ l.reg \in Regs
  <2>1. tmp \in [Regs -> 0..Len(file)] /\ Len(file) \in Nat
    BY <1>1 DEF TypeOK, Grown
  <2>2. l.op = "adrp" /\ l.reg \in Regs
    BY LinesAssumption DEF ReadAdrp
  <2> QED BY <2>1, <2>2 DEF NoAdrp
<1>3. tmp' = [old EXCEPT ![l.reg] = n]
  BY DEF ReadAdrp
<1> HIDE DEF old
<1>4. /\ tmp' \in [Regs -> 0..n]
      /\ tmp'[l.reg] = n
      /\ \A r \in Regs : r /= l.reg => tmp'[r] \in {0, tmp[r]}
  BY <1>2, <1>3 DEF Grown
<1>5. \A r \in Regs : tmp'[r] /= 0 =>
        tmp'[r] \in Adrps' /\ file'[tmp'[r]].reg = r
  <2> SUFFICES ASSUME NEW r \in Regs, tmp'[r] /= 0
               PROVE  tmp'[r] \in Adrps' /\ file'[tmp'[r]].reg = r
    OBVIOUS
  <2>1. CASE r = l.reg
    BY <1>2, <1>4, <2>1 DEF Grown
  <2>2. CASE r /= l.reg
    BY <1>1, <1>4, <2>2, StillWaits
  <2> QED BY <2>1, <2>2
<1>6. TypeOK'
  BY <1>1, <1>4, <1>5, NothingOrdered DEF TypeOK, Grown
<1>7. \A k \in DOMAIN file' : label'[k] = NONE
  BY <1>1 DEF Waiting, Grown
<1>a. /\ \A k \in DOMAIN file : Rewritten(k)' <=> Rewritten(k)
      /\ ~Rewritten(n)'
  BY <1>1, NothingOrdered
<1>8. ASSUME NEW r \in Regs, tmp'[r] /= 0
      PROVE  /\ \A e \in Adrps' : file'[e].reg = r => e <= tmp'[r]
             /\ ~Rewritten(tmp[r])'
             /\ \A k \in DOMAIN file' \ Adrps' :
                  tmp'[r] < k /\ file'[k].base = r => ~Rewritten(k)'
  <2>1. CASE r = l.reg
    <3>1. tmp'[r] = n
      BY <1>4, <2>1
    <3>2. ~Rewritten(tmp[r])'
      BY <1>a, <3>1 DEF Rewritten, Given, Ordered
    <3> QED BY <3>1, <3>2 DEF Grown
  <2>2. CASE r /= l.reg
    BY <1>1, <1>4, <1>8, <2>2, StillWaits
  <2> QED BY <2>1, <2>2
<1>9. Waiting'
  BY <1>7, <1>8 DEF Waiting
<1>10. CommandsApart' /\ UsesPaired' /\ AdrpsPaired' /\ ServedOnce'
  BY <1>1, PairsStay
<1>11. phase' = "reading"
  OBVIOUS
<1> QED BY <1>6, <1>9, <1>10, <1>11 DEF IInv

LEMMA ReadOtherStep ==
  ASSUME IInv, phase = "reading", phase' = phase, NEW l \in Lines,
         NEW n, n = Here, Grown(l, n), ReadOther(l)
  PROVE  IInv'
<1>1. /\ TypeOK /\ Waiting
      /\ replaces' = replaces /\ tmp' = tmp /\ l.op /= "adrp"
  BY DEF IInv, ReadOther
<1>2. ASSUME NEW r \in Regs, tmp'[r] /= 0
      PROVE  /\ tmp'[r] \in Adrps' /\ file'[tmp'[r]].reg = r
             /\ \A e \in Adrps' : file'[e].reg = r => e <= tmp'[r]
             /\ ~Rewritten(tmp[r])'
             /\ \A k \in DOMAIN file' \ Adrps' :
                  tmp'[r] < k /\ file'[k].base = r => ~Rewritten(k)'
  <2>1. tmp'[r] = tmp[r] /\ tmp[r] /= 0
    BY <1>1, <1>2
  <2> QED BY <1>1, <2>1, StillWaits
<1>3. tmp' \in [Regs -> 0..Len(file')]
  BY <1>1 DEF TypeOK, Grown
<1>4. TypeOK'
  BY <1>1, <1>2, <1>3, NothingOrdered DEF TypeOK, Grown
<1>5. \A k \in DOMAIN file' : label'[k] = NONE
  BY <1>1 DEF Waiting, Grown
<1>6. Waiting'
  BY <1>2, <1>5 DEF Waiting
<1>7. CommandsApart' /\ UsesPaired' /\ AdrpsPaired' /\ ServedOnce'
  BY <1>1, PairsStay
<1>8. phase' = "reading"
  OBVIOUS
<1> QED BY <1>4, <1>6, <1>7, <1>8 DEF IInv
-----------------------------------------------------------------------------
(* A use.                                                                  *)

(* The sed commands a use adds: one for its adrp, one for itself.          *)
Commands(d, n, a, l) ==
  <<[line |-> d, addr |-> a]>> \o
    IF l.op = "ldr0" THEN <<>> ELSE <<[line |-> n, addr |-> a]>>

AreCommands(cs, d, n, a, l) ==
  /\ cs \in Seq([line : 1..n, addr : Nat])
  /\ Len(cs) = IF l.op = "ldr0" THEN 1 ELSE 2
  /\ cs[1].line = d /\ cs[1].addr = a
  /\ l.op /= "ldr0" => cs[2].line = n /\ cs[2].addr = a

LEMMA CommandsAre ==
  ASSUME NEW n \in Nat, NEW d \in 1..n, NEW a \in Nat, NEW l
  PROVE  AreCommands(Commands(d, n, a, l), d, n, a, l)
<1> DEFINE Command == [line : 1..n, addr : Nat]
           c1 == [line |-> d, addr |-> a]
           c2 == [line |-> n, addr |-> a]
<1>1. /\ c1 \in Command /\ c1.line = d /\ c1.addr = a
      /\ c2 \in Command /\ c2.line = n /\ c2.addr = a
  OBVIOUS
<1>2. Commands(d, n, a, l) = <<c1>> \o IF l.op = "ldr0" THEN <<>> ELSE <<c2>>
  BY DEF Commands
<1> HIDE DEF c1, c2, Command
<1>3. /\ <<c1>> \in Seq(Command) /\ Len(<<c1>>) = 1 /\ <<c1>>[1] = c1
      /\ <<c2>> \in Seq(Command) /\ Len(<<c2>>) = 1 /\ <<c2>>[1] = c2
  BY <1>1
<1>4. CASE l.op = "ldr0"
  <2>1. Commands(d, n, a, l) = <<c1>> \o << >>
    BY <1>2, <1>4
  <2>2. <<c1>> \o << >> = <<c1>>
    BY <1>3, ConcatEmptySeq
  <2> QED BY <1>1, <1>3, <1>4, <2>1, <2>2 DEF Command, AreCommands
<1>5. CASE l.op /= "ldr0"
  <2>1. Commands(d, n, a, l) = <<c1>> \o <<c2>>
    BY <1>2, <1>5
  <2>2. /\ <<c1>> \o <<c2>> \in Seq(Command)
        /\ Len(<<c1>> \o <<c2>>) = 2
        /\ (<<c1>> \o <<c2>>)[1] = c1
        /\ (<<c1>> \o <<c2>>)[2] = c2
    BY <1>3, ConcatProperties
  <2> QED BY <1>1, <1>5, <2>1, <2>2 DEF Command, AreCommands
<1> QED BY <1>4, <1>5

(* What is ordered once a use has been read.                               *)
Orders(d, n, a, l) ==
  /\ replaces' \in Seq([line : 1..n, addr : Nat])
  /\ CommandsApart'
  /\ \A k \in DOMAIN file', b \in Nat :
       Given(k, b)' <=> \/ k \in DOMAIN file /\ Given(k, b)
                        \/ k = d /\ b = a
                        \/ k = n /\ b = a /\ l.op /= "ldr0"

LEMMA UseOrders ==
  ASSUME TypeOK, CommandsApart, NEW l \in Lines, NEW n, Grown(l, n),
         \A k \in DOMAIN file : label[k] = NONE,
         NEW d \in Adrps, ~Rewritten(d), NEW a \in Nat,
         replaces' = replaces \o Commands(d, n, a, l)
  PROVE  Orders(d, n, a, l)
<1> DEFINE Command(m) == [line : 1..m, addr : Nat]
           cs == Commands(d, n, a, l)
           m == Len(replaces)
<1>1. /\ \A i \in DOMAIN replaces : /\ replaces[i].line \in DOMAIN file
                                    /\ replaces[i].addr \in Nat
      /\ d \in DOMAIN file
  BY CommandTypes DEF Grown
<1>2. /\ replaces \in Seq(Command(n)) /\ m \in Nat
      /\ DOMAIN replaces = 1..m
  <2>1. replaces \in Seq(Command(Len(file)))
    BY DEF TypeOK
  <2>2. Command(Len(file)) \subseteq Command(n)
    BY DEF Grown
  <2> HIDE DEF Command
  <2> QED BY <2>1, <2>2, SeqMonotonic
<1>3. /\ cs \in Seq(Command(n))
      /\ Len(cs) = IF l.op = "ldr0" THEN 1 ELSE 2
      /\ cs[1].line = d /\ cs[1].addr = a
      /\ l.op /= "ldr0" => cs[2].line = n /\ cs[2].addr = a
  <2>1. n \in Nat /\ d \in 1..n
    BY <1>1 DEF Grown
  <2>2. AreCommands(Commands(d, n, a, l), d, n, a, l)
    BY <2>1, CommandsAre
  <2> QED BY <2>2 DEF AreCommands
<1> HIDE DEF cs, Command, m
<1>4. /\ replaces' \in Seq(Command(n))
      /\ Len(replaces') = m + Len(cs)
      /\ \A i \in 1..m + Len(cs) :
           replaces'[i] = IF i <= m THEN replaces[i] ELSE cs[i - m]
  <2>1. replaces' = replaces \o cs
    BY DEF cs
  <2>2. replaces \in Seq(Command(n)) /\ cs \in Seq(Command(n))
    BY <1>2, <1>3
  <2>3. /\ replaces \o cs \in Seq(Command(n))
        /\ Len(replaces \o cs) = Len(replaces) + Len(cs)
        /\ \A i \in 1..Len(replaces) + Len(cs) :
             (replaces \o cs)[i] = IF i <= Len(replaces) THEN replaces[i]
                                    ELSE cs[i - Len(replaces)]
    BY <2>2, ConcatProperties
  <2> QED BY <2>1, <2>3 DEF m
<1>5. /\ DOMAIN replaces' = 1..m + Len(cs)
      /\ Len(cs) \in {1, 2} /\ (Len(cs) = 2 <=> l.op /= "ldr0")
      /\ \A i \in 1..m : replaces'[i] = replaces[i]
      /\ replaces'[m + 1].line = d /\ replaces'[m + 1].addr = a
      /\ l.op /= "ldr0" => /\ replaces'[m + 2].line = n
                           /\ replaces'[m + 2].addr = a
  <2>1. DOMAIN replaces' = 1..m + Len(cs)
    BY <1>4
  <2>2. /\ Len(cs) >= 1 /\ replaces'[m + 1] = cs[1]
        /\ l.op /= "ldr0" => replaces'[m + 2] = cs[2]
    <3>1. ASSUME NEW c \in Nat, NEW k \in 1..c
          PROVE  m + k \in 1..m + c /\ ~(m + k <= m) /\ (m + k) - m = k
      BY <1>2
    <3>2. /\ Len(cs) \in Nat /\ 1 \in 1..Len(cs) /\ Len(cs) >= 1
          /\ l.op /= "ldr0" => 2 \in 1..Len(cs)
      BY <1>3
    <3>3. replaces'[m + 1] = cs[1]
      <4>1. m + 1 \in 1..m + Len(cs) /\ ~(m + 1 <= m) /\ (m + 1) - m = 1
        BY <3>1, <3>2
      <4> QED BY <1>4, <4>1
    <3>4. ASSUME l.op /= "ldr0" PROVE replaces'[m + 2] = cs[2]
      <4>1. m + 2 \in 1..m + Len(cs) /\ ~(m + 2 <= m) /\ (m + 2) - m = 2
        BY <3>1, <3>2, <3>4
      <4> QED BY <1>4, <4>1
    <3>5. Len(cs) >= 1
      BY <3>2, Zenon
    <3> HIDE DEF m
    <3> QED BY <3>3, <3>4, <3>5, Zenon
  <2>3. \A i \in 1..m : replaces'[i] = replaces[i]
    BY <1>2, <1>3, <1>4
  <2>4. Len(cs) \in {1, 2} /\ (Len(cs) = 2 <=> l.op /= "ldr0")
    BY <1>3
  <2> QED BY <1>3, <2>1, <2>2, <2>3, <2>4
<1>e. /\ \A i \in DOMAIN replaces' :
           /\ i \in Nat
           /\ i \in 1..m \/ i = m + 1 \/ (i = m + 2 /\ l.op /= "ldr0")
           /\ i <= m \/ i = m + 1 \/ (i = m + 2 /\ l.op /= "ldr0")
      /\ 1..m \subseteq DOMAIN replaces' /\ m + 1 \in DOMAIN replaces'
      /\ l.op /= "ldr0" => m + 2 \in DOMAIN replaces'
  <2>0. m \in Nat /\ DOMAIN replaces' = 1..m + Len(cs)
    BY <1>2, <1>5 DEF m
  <2>1. CASE Len(cs) = 1 /\ l.op = "ldr0"
    <3>1. DOMAIN replaces' = 1..m + 1
      BY <2>0, <2>1
    <3> QED BY <2>0, <2>1, <3>1
  <2>2. CASE Len(cs) = 2 /\ l.op /= "ldr0"
    <3>1. DOMAIN replaces' = 1..m + 2
      BY <2>0, <2>2
    <3> QED BY <2>0, <2>2, <3>1
  <2> QED BY <1>5, <2>1, <2>2
<1>6. \A i \in 1..m : replaces[i].line /= d
  BY <1>1, <1>2 DEF Rewritten, Given, Ordered
<1>7. n \notin DOMAIN file /\ DOMAIN file' = DOMAIN file \cup {n}
  BY DEF Grown
<1>8. CommandsApart'
  <2>1. \A k \in DOMAIN file' : label'[k] = NONE
    BY <1>7 DEF Grown
  <2>2. ASSUME NEW i \in DOMAIN replaces'
        PROVE  label'[replaces'[i].line] = NONE
    <3>1. CASE i \in 1..m
      BY <1>1, <1>2, <1>5, <1>7, <2>1, <3>1
    <3>2. CASE i = m + 1
      BY <1>1, <1>5, <1>7, <2>1, <3>2
    <3>3. CASE i = m + 2 /\ l.op /= "ldr0"
      BY <1>5, <1>7, <2>1, <3>3
    <3> QED BY <1>e, <3>1, <3>2, <3>3
  <2>3. ASSUME NEW i \in DOMAIN replaces', NEW j \in DOMAIN replaces', i < j
        PROVE  replaces'[i].line /= replaces'[j].line
    <3>1. CASE j <= m
      <4>1. i \in 1..m /\ j \in 1..m /\ i /= j
        BY <1>2, <1>5, <1>e, <2>3, <3>1
      <4>2. replaces'[i] = replaces[i] /\ replaces'[j] = replaces[j]
        BY <1>5, <4>1
      <4>3. replaces[i].line /= replaces[j].line
        BY <1>2, <4>1 DEF CommandsApart
      <4> QED BY <4>2, <4>3
    <3>2. CASE j = m + 1
      BY <1>2, <1>5, <1>6, <2>3, <3>2
    <3>3. CASE j = m + 2 /\ l.op /= "ldr0"
      <4>1. replaces'[j].line = n
        BY <1>5, <3>3
      <4>2. replaces'[i].line \in DOMAIN file
        BY <1>1, <1>2, <1>5, <2>3, <3>3
      <4> QED BY <1>7, <4>1, <4>2
    <3>4. j <= m \/ j = m + 1 \/ (j = m + 2 /\ l.op /= "ldr0")
      BY <1>e
    <3> QED BY <3>1, <3>2, <3>3, <3>4
  <2>4. \A i, j \in DOMAIN replaces' : i /= j =>
          replaces'[i].line /= replaces'[j].line
    <3>1. \A i, j \in DOMAIN replaces' : i < j \/ i = j \/ j < i
      BY <1>e
    <3> QED BY <2>3, <3>1
  <2> QED BY <2>2, <2>4 DEF CommandsApart
<1>9. ASSUME NEW k, NEW b
      PROVE  Ordered(k, b)' <=> \/ Ordered(k, b)
                                \/ k = d /\ b = a
                                \/ k = n /\ b = a /\ l.op /= "ldr0"
  <2>1. Ordered(k, b)' <=> \E i \in DOMAIN replaces' :
                             replaces'[i].line = k /\ replaces'[i].addr = b
    BY DEF Ordered
  <2>2. Ordered(k, b) <=> \E i \in 1..m :
                            replaces[i].line = k /\ replaces[i].addr = b
    BY <1>2 DEF Ordered
  <2>3. \A i \in DOMAIN replaces' :
          i \in 1..m \/ i = m + 1 \/ (i = m + 2 /\ l.op /= "ldr0")
    BY <1>e
  <2>4. /\ 1..m \subseteq DOMAIN replaces' /\ m + 1 \in DOMAIN replaces'
        /\ l.op /= "ldr0" => m + 2 \in DOMAIN replaces'
    BY <1>e
  <2> QED BY <1>5, <2>1, <2>2, <2>3, <2>4
<1>10. ASSUME NEW k \in DOMAIN file', NEW b \in Nat
       PROVE  Given(k, b)' <=> \/ k \in DOMAIN file /\ Given(k, b)
                               \/ k = d /\ b = a
                               \/ k = n /\ b = a /\ l.op /= "ldr0"
  <2>1. Given(k, b)' <=> Ordered(k, b)'
    <3>1. label'[k] = NONE
      BY <1>7 DEF Grown
    <3> QED BY <3>1, LinesAssumption DEF Given
  <2>2. k \in DOMAIN file => (Given(k, b) <=> Ordered(k, b))
    BY LinesAssumption DEF Given
  <2>3. Ordered(k, b) => k \in DOMAIN file
    BY <1>1 DEF Ordered
  <2> QED BY <1>9, <2>1, <2>2, <2>3
<1>11. replaces' \in Seq([line : 1..n, addr : Nat])
  BY <1>4 DEF Command
<1> QED BY <1>8, <1>10, <1>11 DEF Orders

LEMMA ReadUseStep ==
  ASSUME IInv, phase = "reading", phase' = phase, NEW l \in Lines,
         NEW n, n = Here, Grown(l, n), ReadUse(l)
  PROVE  IInv'
<1> DEFINE r == l.base
<1>1. /\ TypeOK /\ CommandsApart /\ UsesPaired /\ AdrpsPaired
      /\ ServedOnce /\ Waiting
  BY DEF IInv
<1>2. /\ l.op \in Uses /\ l.op /= "adrp"
      /\ r \in Regs /\ tmp[r] /= 0
      /\ tmp' = [tmp EXCEPT ![r] = 0]
      /\ replaces' = replaces \o
           Commands(tmp[r], n, file[tmp[r]].val + l.val, l)
  BY DEF ReadUse, BaseOf, Address, Commands, Uses
<1>3. PICK d \in Adrps : d = tmp[r] /\ file[d].reg = r /\ d \in DOMAIN file
  BY <1>1, <1>2 DEF TypeOK, Grown
<1>4. PICK a \in Nat : a = file[d].val + l.val
  <2>1. file[d] \in Lines
    BY <1>1, <1>3 DEF TypeOK
  <2>2. file[d].val \in Nat /\ l.val \in Nat
    BY <2>1, LinesAssumption
  <2> QED BY <2>2
<1>5. /\ \A k \in DOMAIN file : label[k] = NONE
      /\ \A e \in Adrps : file[e].reg = r => e <= d
      /\ ~Rewritten(d)
      /\ \A k \in DOMAIN file \ Adrps :
           d < k /\ file[k].base = r => ~Rewritten(k)
  BY <1>1, <1>2, <1>3 DEF Waiting
<1>0. replaces' = replaces \o Commands(d, n, a, l)
  BY <1>2, <1>3, <1>4
<1>6. /\ replaces' \in Seq([line : 1..n, addr : Nat])
      /\ CommandsApart'
      /\ \A k \in DOMAIN file', b \in Nat :
           Given(k, b)' <=> \/ k \in DOMAIN file /\ Given(k, b)
                            \/ k = d /\ b = a
                            \/ k = n /\ b = a /\ l.op /= "ldr0"
  <2>1. Orders(d, n, a, l)
    BY <1>1, <1>5, <1>0, UseOrders
  <2> QED BY <2>1 DEF Orders
<1>7. \A k \in DOMAIN file : k /= d => (Rewritten(k)' <=> Rewritten(k))
  BY <1>6 DEF Rewritten, Grown
<1>8. /\ \A e, k \in DOMAIN file : /\ Partner(e, k) => Partner(e, k)'
                                   /\ Sum(e, k)' = Sum(e, k)
      /\ Partner(d, n)' /\ Sum(d, n)' = a
  BY <1>2, <1>3, <1>4, <1>5, PartnersStay
<1>9. UsesPaired'
  <2> SUFFICES ASSUME NEW k \in DOMAIN file' \ Adrps', NEW b \in Nat,
                      Given(k, b)'
               PROVE  \E e \in Adrps' :
                        Partner(e, k)' /\ Given(e, b)' /\ b = Sum(e, k)'
    BY DEF UsesPaired
  <2>1. CASE k = n
    <3>1. b = a /\ Given(d, a)' /\ d \in Adrps'
      <4>1. n \notin DOMAIN file /\ n \in DOMAIN file' /\ d /= n
            /\ d \in DOMAIN file'
        BY <1>3, <2>1 DEF Grown
      <4>2. b = a
        BY <1>6, <2>1, <4>1
      <4>3. Given(d, a)'
        BY <1>4, <1>6, <4>1
      <4>4. d \in Adrps'
        BY <1>3 DEF Grown
      <4> QED BY <4>2, <4>3, <4>4
    <3> QED BY <1>8, <2>1, <3>1
  <2>2. CASE k /= n
    <3>1. k \in DOMAIN file \ Adrps /\ Given(k, b)
      BY <1>3, <1>6, <2>2 DEF Grown
    <3>2. PICK e \in Adrps : Partner(e, k) /\ Given(e, b) /\ b = Sum(e, k)
      BY <1>1, <3>1 DEF UsesPaired
    <3>3. e \in Adrps' /\ e \in DOMAIN file /\ e \in DOMAIN file'
      BY DEF Grown
    <3> QED BY <1>6, <1>8, <3>1, <3>2, <3>3
  <2> QED BY <2>1, <2>2
<1>10. AdrpsPaired'
  <2> SUFFICES ASSUME NEW e \in Adrps', NEW b \in Nat, Given(e, b)'
               PROVE  \E k \in DOMAIN file' :
                        /\ file'[k].op \in Uses
                        /\ Partner(e, k)' /\ b = Sum(e, k)'
                        /\ IF file'[k].op = "ldr0" THEN ~Rewritten(k)'
                                                   ELSE Given(k, b)'
    BY DEF AdrpsPaired
  <2>1. e \in Adrps /\ e \in DOMAIN file /\ e /= n
    BY <1>2 DEF Grown
  <2>2. CASE Given(e, b)
    <3> PICK k \in DOMAIN file :
             /\ file[k].op \in Uses
             /\ Partner(e, k) /\ b = Sum(e, k)
             /\ IF file[k].op = "ldr0" THEN ~Rewritten(k) ELSE Given(k, b)
      BY <1>1, <2>1, <2>2 DEF AdrpsPaired
    <3>1. k \in DOMAIN file' /\ file'[k] = file[k]
      BY DEF Grown
    <3>2. k /= d
      BY <1>3 DEF Adrps, Uses
    <3> QED BY <1>6, <1>7, <1>8, <2>1, <3>1, <3>2
  <2>3. CASE e = d /\ b = a
    <3>1. n \in DOMAIN file' /\ file'[n] = l
      BY DEF Grown
    <3>2. l.op = "ldr0" => ~Rewritten(n)'
      <4> SUFFICES ASSUME l.op = "ldr0", NEW x \in Nat, Given(n, x)'
                   PROVE  FALSE
        BY DEF Rewritten
      <4>1. n \notin DOMAIN file /\ n /= d
        BY <1>3 DEF Grown
      <4> QED BY <1>6, <3>1, <4>1
    <3>3. l.op /= "ldr0" => Given(n, b)'
      BY <1>6, <2>3, <3>1
    <3> QED BY <1>2, <1>8, <2>3, <3>1, <3>2, <3>3
  <2> QED BY <1>6, <2>1, <2>2, <2>3 DEF Grown
<1>11. ServedOnce'
  <2> SUFFICES ASSUME NEW j \in DOMAIN file' \ Adrps',
                      NEW k \in DOMAIN file' \ Adrps',
                      j < k, file'[j].base = file'[k].base,
                      Rewritten(j)', Rewritten(k)'
               PROVE  \E e \in Adrps' :
                        j < e /\ e < k /\ file'[e].reg = file'[k].base
    BY DEF ServedOnce
  <2>1. /\ j \in DOMAIN file \ Adrps /\ file'[j] = file[j]
        /\ Rewritten(j)
    <3>1. j \in DOMAIN file \ Adrps
      BY DEF Grown
    <3> QED BY <1>3, <1>7, <3>1 DEF Grown
  <2>2. CASE k = n
    <3>1. file'[k] = l
      BY <2>2 DEF Grown
    <3>2. ~(d < j)
      BY <1>5, <2>1, <3>1
    <3>3. j < d /\ d < k /\ d \in Adrps' /\ file'[d] = file[d]
      BY <1>3, <2>1, <2>2, <3>2 DEF Grown
    <3> QED BY <1>3, <3>1, <3>3
  <2>3. CASE k /= n
    <3>1. k \in DOMAIN file \ Adrps /\ file'[k] = file[k] /\ Rewritten(k)
      <4>1. k \in DOMAIN file \ Adrps
        BY <2>3 DEF Grown
      <4> QED BY <1>3, <1>7, <4>1 DEF Grown
    <3>2. PICK e \in Adrps : j < e /\ e < k /\ file[e].reg = file[k].base
      BY <1>1, <2>1, <3>1 DEF ServedOnce
    <3> QED BY <3>1, <3>2 DEF Grown
  <2> QED BY <2>2, <2>3
<1>12. /\ tmp' \in [Regs -> 0..Len(file')]
       /\ tmp'[r] = 0
       /\ \A q \in Regs : q /= r => tmp'[q] = tmp[q]
  <2>1. tmp \in [Regs -> 0..Len(file)]
    BY <1>1 DEF TypeOK
  <2>2. 0..Len(file) \subseteq 0..Len(file') /\ 0 \in 0..Len(file')
    BY DEF Grown
  <2> QED BY <1>2, <2>1, <2>2
<1>13. ASSUME NEW q \in Regs, tmp'[q] /= 0
       PROVE  /\ tmp'[q] \in Adrps' /\ file'[tmp'[q]].reg = q
              /\ \A e \in Adrps' : file'[e].reg = q => e <= tmp'[q]
              /\ ~Rewritten(tmp[q])'
              /\ \A k \in DOMAIN file' \ Adrps' :
                   tmp'[q] < k /\ file'[k].base = q => ~Rewritten(k)'
  <2>1. q /= r /\ tmp'[q] = tmp[q] /\ tmp[q] /= 0
    BY <1>12, <1>13
  <2>2. PICK e \in Adrps : e = tmp[q] /\ file[e].reg = q
    BY <1>1, <2>1 DEF TypeOK
  <2>3. /\ \A f \in Adrps : file[f].reg = q => f <= e
        /\ ~Rewritten(e)
        /\ \A k \in DOMAIN file \ Adrps :
             e < k /\ file[k].base = q => ~Rewritten(k)
    BY <1>1, <2>1, <2>2 DEF Waiting
  <2>4. e /= d /\ e \in DOMAIN file /\ e \in Adrps' /\ file'[e] = file[e]
    BY <1>3, <2>1, <2>2 DEF Grown
  <2>5. ~Rewritten(tmp[q])'
    <3>1. ~Rewritten(e)' /\ e = tmp'[q]
      BY <1>7, <2>1, <2>2, <2>3, <2>4
    <3> QED BY <3>1 DEF Rewritten, Given, Ordered
  <2>6. \A f \in Adrps' : file'[f].reg = q => f <= e
    BY <1>2, <2>3 DEF Grown
  <2>7. ASSUME NEW k \in DOMAIN file' \ Adrps', e < k, file'[k].base = q
        PROVE  ~Rewritten(k)'
    <3>1. k /= n
      BY <2>1, <2>7 DEF Grown
    <3>2. k \in DOMAIN file \ Adrps /\ file'[k] = file[k]
      BY <3>1 DEF Grown
    <3> QED BY <1>3, <1>7, <2>3, <2>7, <3>2
  <2> QED BY <2>1, <2>2, <2>4, <2>5, <2>6, <2>7
<1>14. TypeOK'
  <2>1. replaces' \in Seq([line : 1..Len(file'), addr : Nat])
    BY <1>6 DEF Grown
  <2> QED BY <1>1, <1>12, <1>13, <2>1 DEF TypeOK, Grown
<1>15. \A k \in DOMAIN file' : label'[k] = NONE
  BY <1>5 DEF Grown
<1>16. Waiting'
  BY <1>13, <1>15 DEF Waiting
<1>17. phase' = "reading"
  OBVIOUS
<1> QED BY <1>6, <1>9, <1>10, <1>11, <1>14, <1>16, <1>17 DEF IInv

-----------------------------------------------------------------------------
(* Running the commands.                                                   *)

(* A command takes effect: what it ordered is given, and what was, stays.  *)
LEMMA SedGives ==
  ASSUME IInv, Sed
  PROVE  /\ TypeOK' /\ CommandsApart' /\ Adrps' = Adrps
         /\ \A k \in DOMAIN file, a \in Nat : Given(k, a)' <=> Given(k, a)
         /\ \A k \in DOMAIN file : Rewritten(k)' <=> Rewritten(k)
<1> DEFINE Command == [line : 1..Len(file), addr : Nat]
<1>1. TypeOK /\ CommandsApart
  BY DEF IInv
<1>2. /\ replaces \in Seq(Command) /\ DOMAIN replaces = 1..Len(replaces)
      /\ replaces /= <<>> /\ replaces' = Tail(replaces)
  BY <1>1 DEF TypeOK, Sed
<1>3. /\ Len(replaces) \in Nat \ {0}
      /\ replaces' \in Seq(Command)
      /\ Len(replaces') = Len(replaces) - 1
      /\ DOMAIN replaces' = 1..Len(replaces) - 1
      /\ \A i \in 1..Len(replaces) - 1 : replaces'[i] = replaces[i + 1]
  <2> HIDE DEF Command
  <2> QED BY <1>2
<1>4. /\ \A i \in DOMAIN replaces : /\ replaces[i].line \in DOMAIN file
                                    /\ replaces[i].addr \in Nat
      /\ 1 \in DOMAIN replaces
  BY <1>1, <1>2, <1>3, CommandTypes
<1>5. PICK s \in Command : s = replaces[1]
  <2> HIDE DEF Command
  <2> QED BY <1>2, <1>4
<1>6. /\ label \in Seq(Nat \cup {NONE}) /\ file \in Seq(Lines)
      /\ Len(label) = Len(file) /\ Len(file) \in Nat
      /\ DOMAIN label = 1..Len(file) /\ DOMAIN file = 1..Len(file)
  BY <1>1 DEF TypeOK
<1>7. /\ label' = [label EXCEPT ![s.line] = s.addr]
      /\ s.line \in DOMAIN file /\ s.addr \in Nat
      /\ label[s.line] = NONE
  <2>1. label[s.line] = NONE
    BY <1>1, <1>4, <1>5 DEF CommandsApart
  <2>2. Head(replaces) = s
    BY <1>2, <1>5
  <2> QED BY <1>4, <1>5, <2>1, <2>2 DEF Sed
<1>8. /\ label' \in Seq(Nat \cup {NONE}) /\ Len(label') = Len(file)
      /\ label'[s.line] = s.addr
      /\ \A k \in DOMAIN file : k /= s.line => label'[k] = label[k]
  BY <1>6, <1>7
<1>9. UNCHANGED <<file, tmp, phase>>
  BY DEF Sed
<1>10. Adrps' = Adrps
  BY <1>9 DEF Adrps
<1>11. TypeOK'
  <2>1. replaces' \in Seq([line : 1..Len(file), addr : Nat])
    BY <1>3
  <2>2. replaces' \in Seq([line : 1..Len(file'), addr : Nat])
    BY <1>9, <2>1
  <2> QED BY <1>1, <1>8, <1>9, <1>10, <2>2 DEF TypeOK
<1>12. \A i \in DOMAIN replaces' :
         /\ i + 1 \in DOMAIN replaces /\ replaces'[i] = replaces[i + 1]
         /\ replaces[i + 1].line /= s.line
  <2>1. \A i \in DOMAIN replaces' :
          /\ i + 1 \in DOMAIN replaces /\ replaces'[i] = replaces[i + 1]
          /\ i + 1 /= 1
    <3>1. ASSUME NEW len \in Nat, NEW i \in 1..len - 1
          PROVE  i + 1 \in 1..len /\ i + 1 /= 1
      OBVIOUS
    <3>2. /\ Len(replaces) \in Nat
          /\ DOMAIN replaces' = 1..Len(replaces) - 1
          /\ \A i \in DOMAIN replaces' : replaces'[i] = replaces[i + 1]
      BY <1>3, Zenon
    <3> QED BY <1>2, <3>1, <3>2
  <2> QED BY <1>1, <1>4, <1>5, <2>1 DEF CommandsApart
<1>13. CommandsApart'
  <2>1. ASSUME NEW i \in DOMAIN replaces', NEW j \in DOMAIN replaces', i /= j
        PROVE  replaces'[i].line /= replaces'[j].line
    <3>1. i + 1 /= j + 1
      BY <1>3, <2>1
    <3> QED BY <1>1, <1>12, <3>1 DEF CommandsApart
  <2>2. \A i \in DOMAIN replaces' : label'[replaces'[i].line] = NONE
    BY <1>1, <1>4, <1>8, <1>12 DEF CommandsApart
  <2> QED BY <2>1, <2>2 DEF CommandsApart
<1>14. ASSUME NEW k, NEW a
       PROVE  Ordered(k, a) <=> \/ Ordered(k, a)'
                                \/ k = s.line /\ a = s.addr
  <2>1. ASSUME Ordered(k, a)
        PROVE  Ordered(k, a)' \/ (k = s.line /\ a = s.addr)
    <3>1. PICK i \in DOMAIN replaces :
            replaces[i].line = k /\ replaces[i].addr = a
      BY <2>1 DEF Ordered
    <3>2. CASE i = 1
      BY <1>5, <3>1, <3>2
    <3>3. CASE i /= 1
      <4>1. i - 1 \in DOMAIN replaces' /\ replaces'[i - 1] = replaces[i]
        BY <1>2, <1>3, <3>3
      <4> QED BY <3>1, <4>1 DEF Ordered
    <3> QED BY <3>2, <3>3
  <2>2. ASSUME Ordered(k, a)'
        PROVE  Ordered(k, a)
    BY <1>12, <2>2 DEF Ordered
  <2>3. ASSUME k = s.line, a = s.addr
        PROVE  Ordered(k, a)
    BY <1>4, <1>5, <2>3 DEF Ordered
  <2> QED BY <2>1, <2>2, <2>3
<1>15. ASSUME NEW k \in DOMAIN file, NEW a \in Nat
       PROVE  Given(k, a)' <=> Given(k, a)
  <2>1. CASE k = s.line
    <3>1. label[k] /= a /\ (label'[k] = a <=> a = s.addr)
      BY <1>7, <1>8, <2>1, LinesAssumption
    <3> QED BY <1>14, <2>1, <3>1 DEF Given
  <2>2. CASE k /= s.line
    BY <1>8, <1>14, <2>2 DEF Given
  <2> QED BY <2>1, <2>2
<1>16. \A k \in DOMAIN file : Rewritten(k)' <=> Rewritten(k)
  BY <1>15 DEF Rewritten
<1> QED BY <1>10, <1>11, <1>13, <1>15, <1>16

LEMMA SedStep ==
  ASSUME IInv, Sed
  PROVE  IInv'
<1>1. /\ TypeOK /\ UsesPaired /\ AdrpsPaired /\ ServedOnce
  BY DEF IInv
<1>2. /\ TypeOK' /\ CommandsApart' /\ Adrps' = Adrps /\ file' = file
      /\ phase' = "replacing"
      /\ \A k \in DOMAIN file, a \in Nat : Given(k, a)' <=> Given(k, a)
      /\ \A k \in DOMAIN file : Rewritten(k)' <=> Rewritten(k)
  BY SedGives DEF Sed
<1>3. Adrps \subseteq DOMAIN file
  BY DEF Adrps
<1>4. \A d, k : /\ Partner(d, k)' <=> Partner(d, k)
                /\ Sum(d, k)' = Sum(d, k)
  BY <1>2 DEF Partner, Sum
<1>5. UsesPaired'
  BY <1>1, <1>2, <1>3, <1>4 DEF UsesPaired
<1>6. AdrpsPaired'
  BY <1>1, <1>2, <1>3, <1>4 DEF AdrpsPaired
<1>7. ServedOnce'
  BY <1>1, <1>2, <1>3 DEF ServedOnce
<1> QED BY <1>2, <1>5, <1>6, <1>7 DEF IInv, Waiting

-----------------------------------------------------------------------------
(* The invariant holds.                                                    *)

LEMMA InitIInv == Init => IInv
<1> SUFFICES ASSUME Init
             PROVE  IInv
  OBVIOUS
<1>1. /\ DOMAIN file = {} /\ DOMAIN replaces = {} /\ Adrps = {}
      /\ \A r \in Regs : tmp[r] = 0
      /\ phase = "reading"
  BY DEF Init, Adrps, NoAdrp
<1>2. TypeOK
  BY <1>1 DEF Init, TypeOK, NoAdrp
<1>3. CommandsApart /\ UsesPaired /\ AdrpsPaired /\ ServedOnce /\ Waiting
  BY <1>1 DEF CommandsApart, UsesPaired, AdrpsPaired, ServedOnce, Waiting
<1> QED BY <1>1, <1>2, <1>3 DEF IInv

LEMMA NextIInv == IInv /\ [Next]_vars => IInv'
<1> SUFFICES ASSUME IInv, [Next]_vars
             PROVE  IInv'
  OBVIOUS
<1>1. CASE ReadLine
  <2>1. PICK l \in Lines : /\ ReadAdrp(l) \/ ReadUse(l) \/ ReadOther(l)
                           /\ file' = Append(file, l)
    BY <1>1 DEF ReadLine
  <2>2. phase = "reading" /\ phase' = phase /\ label' = Append(label, NONE)
    BY <1>1 DEF ReadLine
  <2>3. Grown(l, Here)
    BY <2>1, <2>2, FileGrows DEF IInv
  <2> DEFINE n == Here
  <2> HIDE DEF n
  <2>4. n = Here /\ Grown(l, n)
    BY <2>3 DEF n
  <2>5. CASE ReadAdrp(l)
    BY <2>2, <2>3, <2>5, ReadAdrpStep
  <2>6. CASE ReadUse(l)
    BY <2>2, <2>3, <2>6, ReadUseStep
  <2>7. CASE ReadOther(l)
    BY <2>2, <2>3, <2>7, ReadOtherStep
  <2> QED BY <2>1, <2>5, <2>6, <2>7
<1>2. ASSUME UNCHANGED <<file, tmp, replaces, label>>,
             phase' \in {"replacing", "done"},
             phase' = "done" => replaces = <<>>
      PROVE  IInv'
  <2>1. /\ \A d, k : Partner(d, k)' <=> Partner(d, k)
        /\ \A d, k : Sum(d, k)' = Sum(d, k)
        /\ \A k, a : Given(k, a)' <=> Given(k, a)
        /\ \A k : Rewritten(k)' <=> Rewritten(k)
        /\ Adrps' = Adrps
    BY <1>2 DEF Partner, Sum, Given, Ordered, Rewritten, Adrps
  <2>2. TypeOK' /\ CommandsApart'
    BY <1>2, <2>1 DEF IInv, TypeOK, CommandsApart
  <2>3. UsesPaired' /\ AdrpsPaired' /\ ServedOnce'
    BY <1>2, <2>1 DEF IInv, UsesPaired, AdrpsPaired, ServedOnce
  <2> QED BY <1>2, <2>2, <2>3 DEF IInv, Waiting
<1>3. CASE EndOfFile
  BY <1>2, <1>3 DEF EndOfFile
<1>4. CASE Sed
  BY <1>4, SedStep
<1>5. CASE AppendInclude
  BY <1>2, <1>5 DEF AppendInclude
<1>6. CASE UNCHANGED vars
  <2>1. /\ \A d, k : Partner(d, k)' <=> Partner(d, k)
        /\ \A d, k : Sum(d, k)' = Sum(d, k)
        /\ \A k, a : Given(k, a)' <=> Given(k, a)
        /\ \A k : Rewritten(k)' <=> Rewritten(k)
        /\ Adrps' = Adrps
    BY <1>6 DEF Partner, Sum, Given, Ordered, Rewritten, Adrps, vars
  <2>2. TypeOK' /\ CommandsApart'
    BY <1>6, <2>1 DEF IInv, TypeOK, CommandsApart, vars
  <2>3. UsesPaired' /\ AdrpsPaired' /\ ServedOnce'
    BY <1>6, <2>1 DEF IInv, UsesPaired, AdrpsPaired, ServedOnce, vars
  <2>4. Waiting'
    <3> SUFFICES ASSUME phase = "reading"
                 PROVE  Waiting'
      BY <1>6 DEF Waiting, vars
    <3>1. \A r \in Regs : Rewritten(tmp[r])' <=> Rewritten(tmp[r])
      BY <1>6 DEF Rewritten, Given, Ordered, vars
    <3> QED BY <1>6, <2>1, <3>1 DEF IInv, Waiting, vars
  <2> QED BY <1>6, <2>2, <2>3, <2>4 DEF IInv, vars
<1> QED BY <1>1, <1>3, <1>4, <1>5, <1>6 DEF Next

(* The state keeps its shape: what tmp keeps for a register is the last    *)
(* adrp of it, also when a group starts the table anew.                    *)
THEOREM Typing == Spec => []TypeOK
<1>1. IInv => TypeOK
  BY DEF IInv
<1> QED BY InitIInv, NextIInv, <1>1, PTL DEF Spec

(* When sed has run its commands a line is rewritten as it was ordered.    *)
LEMMA DoneGiven ==
  ASSUME IInv, phase = "done"
  PROVE  /\ \A k \in DOMAIN file, a \in Nat : Given(k, a) <=> label[k] = a
         /\ \A k \in DOMAIN file :
              label[k] /= NONE <=> label[k] \in Nat /\ Rewritten(k)
<1>1. DOMAIN replaces = {}
  BY DEF IInv
<1>2. \A k \in DOMAIN file, a \in Nat : Given(k, a) <=> label[k] = a
  BY <1>1 DEF Given, Ordered
<1>3. \A k \in DOMAIN file : label[k] \in Nat \cup {NONE}
  BY DEF IInv, TypeOK
<1> QED BY <1>2, <1>3, LinesAssumption DEF Rewritten

(* A finite set is no larger than one it maps to one to one.               *)
LEMMA OneToOne ==
  ASSUME NEW S, NEW T, IsFiniteSet(S), IsFiniteSet(T), NEW f \in [S -> T],
         \A x, y \in S : f[x] = f[y] => x = y
  PROVE  Cardinality(S) <= Cardinality(T)
<1>1. Cardinality(S) \in Nat /\ Cardinality(T) \in Nat
  BY FS_CardinalityType
<1>2. ~(Cardinality(T) < Cardinality(S))
  BY FS_PigeonHole
<1> QED BY <1>1, <1>2

(* The two halves of an address meet: a line rewritten to a label has its  *)
(* adrp before it, rewritten to the same label, the address the two had    *)
(* together; as many adrps as lines have it, and no line is rewritten      *)
(* twice.                                                                  *)
THEOREM AddressesMeet == Spec => []HalvesMeet
<1>1. ASSUME IInv
      PROVE  HalvesMeet
  <2>1. ASSUME phase = "done", NEW k \in DOMAIN file \ Adrps,
               label[k] /= NONE
        PROVE  /\ \E d \in Adrps \cap Labelled(label[k]) :
                    /\ d < k /\ file[d].reg = file[k].base
                    /\ label[d] = file[d].val + file[k].val
               /\ Cardinality(Labelled(label[k]) \ Adrps)
                    <= Cardinality(Labelled(label[k]) \cap Adrps)
    <3>1. /\ \A i \in DOMAIN file, b \in Nat : Given(i, b) <=> label[i] = b
          /\ \A i \in DOMAIN file :
               label[i] /= NONE <=> label[i] \in Nat /\ Rewritten(i)
          /\ Adrps \subseteq DOMAIN file
      BY <1>1, <2>1, DoneGiven DEF Adrps
    <3>2. PICK a \in Nat : a = label[k]
      BY <2>1, <3>1
    <3> DEFINE S == Labelled(a) \ Adrps
               T == Labelled(a) \cap Adrps
    <3>3. ASSUME NEW i \in S
          PROVE  \E d \in T : Partner(d, i) /\ a = Sum(d, i)
      <4>1. i \in DOMAIN file \ Adrps /\ Given(i, a)
        BY <3>1 DEF Labelled
      <4>2. PICK d \in Adrps : Partner(d, i) /\ Given(d, a) /\ a = Sum(d, i)
        BY <1>1, <4>1 DEF IInv, UsesPaired
      <4> QED BY <3>1, <4>2 DEF Labelled
    <3> DEFINE f == [i \in S |-> CHOOSE d \in T : Partner(d, i)]
    <3>4. f \in [S -> T] /\ \A i \in S : Partner(f[i], i)
      <4> SUFFICES ASSUME NEW i \in S
                   PROVE  f[i] \in T /\ Partner(f[i], i)
        OBVIOUS
      <4>1. \E d \in T : Partner(d, i)
        BY <3>3
      <4>2. PICK d : d = CHOOSE e \in T : Partner(e, i)
        OBVIOUS
      <4>3. d \in T /\ Partner(d, i)
        BY <4>1, <4>2
      <4> QED BY <4>2, <4>3
    <3>5. ASSUME NEW i \in S, NEW j \in S, f[i] = f[j], i < j
          PROVE  FALSE
      <4>1. PICK d \in Adrps : d = f[i] /\ Partner(d, i) /\ Partner(d, j)
        BY <3>4, <3>5
      <4>2. i \in DOMAIN file \ Adrps /\ j \in DOMAIN file \ Adrps
        BY DEF Labelled
      <4>3. Rewritten(i) /\ Rewritten(j)
        BY <3>1, <4>2 DEF Labelled, Rewritten
      <4>4. file[i].base = file[j].base /\ d < i
        BY <4>1 DEF Partner
      <4>5. PICK e \in Adrps : i < e /\ e < j /\ file[e].reg = file[j].base
        BY <1>1, <3>5, <4>2, <4>3, <4>4 DEF IInv, ServedOnce
      <4>6. e <= d
        BY <4>1, <4>5 DEF Partner
      <4>7. DOMAIN file \subseteq Int
        BY <1>1 DEF IInv, TypeOK
      <4> QED BY <3>1, <4>2, <4>4, <4>5, <4>6, <4>7
    <3>6. IsFiniteSet(S) /\ IsFiniteSet(T)
      <4>1. IsFiniteSet(DOMAIN file)
        <5>1. Len(file) \in Int /\ DOMAIN file = 1..Len(file)
          BY <1>1 DEF IInv, TypeOK
        <5> QED BY <5>1, FS_Interval
      <4>2. S \in SUBSET DOMAIN file /\ T \in SUBSET DOMAIN file
        BY DEF Labelled
      <4> QED BY <4>1, <4>2, FS_Subset
    <3>7. \A i, j \in S : f[i] = f[j] => i = j
      <4>1. DOMAIN file \subseteq Int /\ S \subseteq DOMAIN file
        BY <1>1 DEF IInv, TypeOK, Labelled
      <4>2. \A i, j \in S : i < j \/ i = j \/ j < i
        BY <4>1
      <4> HIDE DEF f, S
      <4> QED BY <3>5, <4>2
    <3>8. Cardinality(S) <= Cardinality(T)
      <4> HIDE DEF f, S, T
      <4> QED BY <3>4, <3>6, <3>7, OneToOne
    <3>9. \E d \in T : Partner(d, k) /\ a = Sum(d, k)
      BY <2>1, <3>2, <3>3 DEF Labelled
    <3> QED BY <3>2, <3>8, <3>9 DEF Labelled, Partner, Sum
  <2>2. CommandsApart
    BY <1>1 DEF IInv
  <2> QED BY <2>1, <2>2 DEF HalvesMeet, CommandsApart
<1> QED BY InitIInv, NextIInv, <1>1, PTL DEF Spec

(* Every datum is found: when the file assembles, every page is used once  *)
(* and no register is used stale, a line that reads what an adrp left in   *)
(* its base register has the label of the address it had, and so does the  *)
(* adrp.                                                                   *)
THEOREM EveryDatumFound == Spec => []DataFound
<1>1. ASSUME IInv, phase = "done", Assembles, OneUseEach, NoReuse,
             NEW d \in Adrps, NEW k \in Readers(d)
      PROVE  /\ label[d] = file[d].val + file[k].val
             /\ file[k].op \in {"add", "ldr", "ldr0"}
             /\ label[k] = IF file[k].op = "ldr0" THEN NONE ELSE label[d]
  <2>1. /\ \A i \in DOMAIN file, b \in Nat : Given(i, b) <=> label[i] = b
        /\ \A i \in DOMAIN file :
             label[i] /= NONE <=> label[i] \in Nat /\ Rewritten(i)
        /\ d \in DOMAIN file
    BY <1>1, DoneGiven DEF Adrps
  <2>2. PICK a \in Nat : a = label[d] /\ Given(d, a)
    BY <1>1, <2>1 DEF Assembles
  <2>3. PICK u \in DOMAIN file :
          /\ file[u].op \in Uses /\ Partner(d, u) /\ a = Sum(d, u)
          /\ IF file[u].op = "ldr0" THEN ~Rewritten(u) ELSE Given(u, a)
    BY <1>1, <2>2 DEF IInv, AdrpsPaired
  <2>4. PICK e \in Adrps : u \in Readers(e)
    BY <1>1, <2>3 DEF NoReuse, Partner, Uses
  <2>5. /\ d < u /\ file[d].reg = file[u].base
        /\ e < u /\ file[e].reg = file[u].base /\ e <= d
        /\ \A j \in e + 1..u - 1 : file[j].reg /= file[u].base
    BY <2>3, <2>4 DEF Partner, Readers
  <2>6. d \in Nat /\ e \in Nat /\ u \in Nat
    BY <1>1 DEF IInv, TypeOK, Adrps
  <2>7. e = d
    BY <2>5, <2>6
  <2>8. u = k
    <3>1. IsFiniteSet(Readers(d))
      <4>1. Len(file) \in Int /\ DOMAIN file = 1..Len(file)
        BY <1>1 DEF IInv, TypeOK
      <4>2. IsFiniteSet(DOMAIN file)
        BY <4>1, FS_Interval
      <4>3. Readers(d) \in SUBSET DOMAIN file
        BY DEF Readers
      <4> QED BY <4>2, <4>3, FS_Subset
    <3>2. Cardinality(Readers(d)) = 1
      <4>1. Cardinality(Readers(d)) \in Nat
        BY <3>1, FS_CardinalityType
      <4>2. Cardinality(Readers(d)) /= 0
        BY <3>1, FS_EmptySet
      <4> QED BY <1>1, <4>1, <4>2 DEF OneUseEach
    <3>3. PICK x : Readers(d) = {x}
      BY <3>1, <3>2, FS_Singleton
    <3> QED BY <2>4, <2>7, <3>3
  <2>9. file[u].op = "ldr0" => label[u] = NONE
    BY <2>1, <2>3
  <2> QED BY <2>1, <2>2, <2>3, <2>8, <2>9 DEF Sum, Uses
<1>2. IInv => DataFound
  BY <1>1 DEF DataFound
<1> QED BY InitIInv, NextIInv, <1>2, PTL DEF Spec
=============================================================================
