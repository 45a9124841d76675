--------------------------- MODULE Extract_proofs ---------------------------
(***************************************************************************)
(* For any lists, data, replacements, library and toolchain that are as    *)
(* the assumptions of Extract say: what the linker does not complain of is *)
(* all there, but for the end of a file and what the toolchain has too;    *)
(* and with lists that are enough the linker does not complain.            *)
(***************************************************************************)
EXTENDS Extract, SequenceTheorems, TLAPS

-----------------------------------------------------------------------------
(* Sequences, whatever they hold.                                          *)

(* A sequence has its elements at 1 to its length.                           *)
LEMMA SequenceFacts ==
  ASSUME NEW s, IsSequence(s)
  PROVE  /\ Len(s) \in Nat /\ DOMAIN s = 1..Len(s)
         /\ \A k \in 1..Len(s) : s[k] \in Range(s)
BY DEF IsSequence, Range

(* A sequence over any set is one over its elements.                         *)
LEMMA SequenceOfSet ==
  ASSUME NEW T, NEW s \in Seq(T)
  PROVE  IsSequence(s)
<1>1. /\ Len(s) \in Nat /\ DOMAIN s = 1..Len(s)
      /\ s = [k \in 1..Len(s) |-> s[k]]
  OBVIOUS
<1> DEFINE R == {s[k] : k \in DOMAIN s}
<1>2. \A k \in 1..Len(s) : s[k] \in R
  BY <1>1
<1> HIDE DEF R
<1>3. s \in [1..Len(s) -> R]
  BY <1>1, <1>2
<1>4. s \in Seq(R)
  BY <1>1, <1>3
<1> QED BY <1>4 DEF IsSequence, Range, R

(* So is the empty one.                                                      *)
LEMMA EmptySequence == IsSequence(<<>>) /\ Len(<<>>) = 0 /\ DOMAIN <<>> = {}
<1>1. <<>> \in Seq({}) /\ Len(<<>>) = 0 /\ DOMAIN <<>> = {}
  OBVIOUS
<1> QED BY <1>1, SequenceOfSet

(* A function on 1..n is a sequence of length n.                             *)
LEMMA SequenceOfFunction ==
  ASSUME NEW n \in Nat, NEW g, g = [k \in 1..n |-> g[k]]
  PROVE  IsSequence(g) /\ Len(g) = n /\ DOMAIN g = 1..n
<1> DEFINE R == {g[k] : k \in 1..n}
<1>1. \A k \in 1..n : g[k] \in R
  OBVIOUS
<1> HIDE DEF R
<1>2. g \in [1..n -> R]
  BY <1>1
<1>3. g \in Seq(R) /\ Len(g) = n /\ DOMAIN g = 1..n
  BY <1>2
<1> QED BY <1>3, SequenceOfSet

(* Append adds an element behind the others.                                 *)
LEMMA Appended ==
  ASSUME NEW s, IsSequence(s), NEW x
  PROVE  LET t == Append(s, x) IN
         /\ IsSequence(t) /\ Len(t) = Len(s) + 1 /\ DOMAIN t = 1..Len(s) + 1
         /\ Len(s) \in Nat /\ DOMAIN s = 1..Len(s)
         /\ \A k \in 1..Len(s) : t[k] = s[k]
         /\ t[Len(s) + 1] = x
<1> DEFINE T == Range(s) \cup {x}
<1>1. s \in Seq(T) /\ x \in T /\ Len(s) \in Nat /\ DOMAIN s = 1..Len(s)
  <2>1. s \in Seq(Range(s))
    BY DEF IsSequence
  <2> DEFINE R == Range(s)
  <2> HIDE DEF R
  <2>2. s \in Seq(R \cup {x}) /\ Len(s) \in Nat /\ DOMAIN s = 1..Len(s)
    BY <2>1 DEF R
  <2> QED BY <2>2 DEF R
<1> HIDE DEF T
<1>2. /\ Append(s, x) \in Seq(T) /\ Len(Append(s, x)) = Len(s) + 1
      /\ \A k \in 1..Len(s) : Append(s, x)[k] = s[k]
      /\ Append(s, x)[Len(s) + 1] = x
  BY <1>1, AppendProperties
<1>3. DOMAIN Append(s, x) = 1..Len(s) + 1
  BY <1>1, <1>2
<1> QED BY <1>1, <1>2, <1>3, SequenceOfSet

(* Of two sequences one behind the other, both keep their order.             *)
LEMMA Joined ==
  ASSUME NEW s, IsSequence(s), NEW r, IsSequence(r)
  PROVE  LET t == s \o r IN
         /\ IsSequence(t) /\ Len(t) = Len(s) + Len(r)
         /\ DOMAIN t = 1..Len(s) + Len(r)
         /\ Len(s) \in Nat /\ Len(r) \in Nat
         /\ DOMAIN s = 1..Len(s) /\ DOMAIN r = 1..Len(r)
         /\ \A k \in 1..Len(s) : t[k] = s[k]
         /\ \A k \in 1..Len(r) : t[Len(s) + k] = r[k]
<1> DEFINE A == Range(s)
           B == Range(r)
           T == A \cup B
<1>1. s \in Seq(A) /\ r \in Seq(B)
  BY DEF IsSequence
<1> HIDE DEF A, B
<1>2. /\ s \in Seq(T) /\ r \in Seq(T) /\ Len(s) \in Nat /\ Len(r) \in Nat
      /\ DOMAIN s = 1..Len(s) /\ DOMAIN r = 1..Len(r)
  BY <1>1
<1> HIDE DEF T
<1>3. /\ s \o r \in Seq(T) /\ Len(s \o r) = Len(s) + Len(r)
      /\ \A k \in 1..Len(s) + Len(r) :
           (s \o r)[k] = IF k <= Len(s) THEN s[k] ELSE r[k - Len(s)]
  BY <1>2, ConcatProperties
<1>4. DOMAIN (s \o r) = 1..Len(s) + Len(r)
  BY <1>2, <1>3
<1>5. \A k \in 1..Len(s) : (s \o r)[k] = s[k]
  BY <1>2, <1>3
<1>6. ASSUME NEW k \in 1..Len(r) PROVE (s \o r)[Len(s) + k] = r[k]
  <2>1. Len(s) + k \in 1..Len(s) + Len(r) /\ ~(Len(s) + k <= Len(s))
        /\ (Len(s) + k) - Len(s) = k
    BY <1>2
  <2> QED BY <1>3, <2>1
<1> QED BY <1>2, <1>3, <1>4, <1>5, <1>6, SequenceOfSet

-----------------------------------------------------------------------------
(* The invariant.                                                          *)

(* The routines of a file the library has.                                 *)
Known(f) == Listed(f) \cap DOMAIN lib

(* The file under way.                                                     *)
F == Len(out) + 1

(* The label a line of the listing gets, and whose it is.                  *)
LabelOf(l) == Assembly(l).label
IsOf(l, s) == LabelOf(l) \in NamesOf(lib, s)

(* All lines of a routine are among the first n of a listing.              *)
Within(lines, n, s) ==
  \A l \in Range(lib[s].body) : \E i \in 1..n : lines[i] = l

(* A listing holds routines of file f one behind the other, each in full.  *)
Blocks(f, lines) ==
  /\ \A k \in DOMAIN lines : \E s \in Known(f) : IsOf(lines[k], s)
  /\ \A s \in Known(f) : \A k \in DOMAIN lines :
       IsOf(lines[k], s) => Within(lines, Len(lines), s)
  /\ \A s \in Known(f) : \A j, k \in DOMAIN lines :
       j < k /\ IsOf(lines[j], s) /\ ~IsOf(lines[k], s) =>
         Within(lines, k - 1, s)

(* Of the assembly of file f after n replacements: every line is of a      *)
(* routine of the file, and one that is there in part ends the file.       *)
Cut(f, n, lines) ==
  /\ \A k \in DOMAIN lines :
       \E s \in Known(f) : lines[k].label \in NamesOf(lib, s)
  /\ \A s \in Known(f) : \A k \in DOMAIN lines :
       lines[k].label \in NamesOf(lib, s) =>
         Whole(f, n, lines, s) \/ EndsIn(lines, s)

(* The replacements of file f.                                             *)
Seds(f) == Len(Files[f].seds)

Typed ==
  /\ build \in Builds /\ lib \in Libraries
  /\ stage \in {"disass", "refine", "post", "sed", "link"}
  /\ step \in Nat
  /\ IsSequence(tmp) /\ IsSequence(asm) /\ IsSequence(out)
  /\ stage /= "link" => Len(out) < Len(Files)
  /\ stage = "link" => Len(out) = Len(Files)

Listing == /\ stage \in {"disass", "refine"} => Blocks(F, tmp)
           /\ stage = "sed" => tmp = <<>>
Printing ==
  stage = "refine" =>
    step <= Len(tmp) /\ asm = [k \in 1..step |-> Assembly(tmp[k])]
Printed == /\ stage = "post" => Cut(F, 0, asm)
           /\ stage = "sed" => Cut(F, step, asm)
FilesCut == \A f \in DOMAIN out : Cut(f, Seds(f), out[f])
Judged == /\ status /= "building" => stage = "link"
          /\ status = "linked" => Links

IInv == Typed /\ Listing /\ Printing /\ Printed /\ FilesCut /\ Judged

(* The file under way is one of the files.                                 *)
LEMMA FileUnderWay ==
  ASSUME Typed, stage /= "link"
  PROVE  /\ F \in DOMAIN Files /\ Cur = Files[F]
         /\ IsSequence(Cur.list) /\ IsSequence(Cur.seds)
<1>1. /\ IsSequence(out) /\ Len(out) < Len(Files)
      /\ IsSequence(Files)
  BY FilesAssumption DEF Typed
<1>2. Len(out) \in Nat /\ Len(Files) \in Nat /\ DOMAIN Files = 1..Len(Files)
  BY <1>1, SequenceFacts
<1>3. F \in DOMAIN Files
  BY <1>1, <1>2 DEF F
<1> QED BY <1>3, FilesAssumption DEF Cur, F

(* What the assumptions say of two routines of a file.                     *)
LEMMA Apart ==
  ASSUME lib \in Libraries, NEW f \in DOMAIN Files, NEW s \in Known(f),
         NEW t \in Listed(f), s /= t
  PROVE  /\ Own(t) \notin NamesOf(lib, s)
         /\ t \in Known(f) => NamesOf(lib, s) \cap NamesOf(lib, t) = {}
BY LibrariesAssumption DEF Known

(* No datum has a routine's name.                                            *)
LEMMA ApartFromData ==
  ASSUME lib \in Libraries, NEW f \in DOMAIN Files, NEW s \in Known(f)
  PROVE  NamesOf(lib, s) \cap DOMAIN Files[f].inc = {}
BY LibrariesAssumption DEF Known

(* A line of a routine is labelled with its address.                         *)
LEMMA BodyLines ==
  ASSUME lib \in Libraries, NEW s \in DOMAIN lib
  PROVE  /\ IsSequence(lib[s].body)
         /\ \A l \in Range(lib[s].body) : LabelOf(l) = l.addr /\ IsOf(l, s)
<1>1. IsSequence(lib[s].body)
  BY LibrariesAssumption
<1>2. ASSUME NEW l \in Range(lib[s].body)
      PROVE  LabelOf(l) = l.addr /\ IsOf(l, s)
  <2>1. l.kind /= "label"
    BY LibrariesAssumption
  <2>2. LabelOf(l) = l.addr
    BY <2>1 DEF LabelOf, Assembly
  <2> QED BY <2>2 DEF IsOf, NamesOf, Addresses
<1> QED BY <1>1, <1>2

(* An entry of a list prints nothing, or a routine of the file in full.    *)
LEMMA DumpIsBlock ==
  ASSUME lib \in Libraries, NEW f \in DOMAIN Files,
         NEW e \in Range(Files[f].list)
  PROVE  /\ IsSequence(Dump(e))
         /\ \/ Dump(e) = <<>>
            \/ \E s \in Known(f) :
                 /\ \A k \in DOMAIN Dump(e) : IsOf(Dump(e)[k], s)
                 /\ \A l \in Range(lib[s].body) :
                      \E k \in DOMAIN Dump(e) : Dump(e)[k] = l
<1> DEFINE s == e.sym
<1>0. IsSequence(<<>>)
  BY EmptySequence
<1>1. CASE e.mark = "?" \/ s \notin DOMAIN lib
  BY <1>0, <1>1 DEF Dump
<1>2. CASE e.mark /= "?" /\ s \in DOMAIN lib
  <2>1. s \in Known(f)
    BY <1>2 DEF Known, Listed
  <2> DEFINE body == lib[s].body
  <2>2. /\ IsSequence(body) /\ \A l \in Range(body) : IsOf(l, s)
        /\ DOMAIN body = 1..Len(body) /\ Len(body) \in Nat
        /\ \A k \in 1..Len(body) : body[k] \in Range(body)
        /\ \A l \in Range(body) : \E k \in 1..Len(body) : body[k] = l
    <3>1. IsSequence(body) /\ \A l \in Range(body) : IsOf(l, s)
      BY <1>2, BodyLines
    <3>2. DOMAIN body = 1..Len(body)
      BY <3>1, SequenceFacts
    <3> QED BY <3>1, <3>2, SequenceFacts DEF Range
  <2>3. CASE e.mark = "L"
    <3>1. Dump(e) = body
      BY <1>2, <2>3 DEF Dump
    <3>2. \A k \in DOMAIN body : IsOf(body[k], s)
      BY <2>2
    <3>3. IsSequence(Dump(e)) /\ \A k \in DOMAIN Dump(e) : IsOf(Dump(e)[k], s)
      BY <2>2, <3>1, <3>2
    <3>4. \A l \in Range(body) : \E k \in DOMAIN Dump(e) : Dump(e)[k] = l
      <4> HIDE DEF body
      <4> QED BY <2>2, <3>1
    <3> QED BY <2>1, <3>3, <3>4
  <2>4. CASE e.mark /= "L"
    <3> DEFINE heading == Heading(lib[s].head)
               d == <<heading>> \o body
    <3>1. Dump(e) = d
      BY <1>2, <2>4 DEF Dump
    <3>2. IsOf(heading, s)
      BY DEF IsOf, LabelOf, Assembly, Heading, NamesOf, Heads
    <3> HIDE DEF heading
    <3> DEFINE first == <<heading>>
    <3>3. IsSequence(first) /\ Len(first) = 1 /\ first[1] = heading
      <4>1. first \in Seq({heading}) /\ Len(first) = 1 /\ first[1] = heading
        OBVIOUS
      <4> QED BY <4>1, SequenceOfSet
    <3> HIDE DEF body, first
    <3>4. /\ IsSequence(d) /\ DOMAIN d = 1..1 + Len(body)
          /\ d[1] = heading
          /\ \A k \in 1..Len(body) : d[1 + k] = body[k]
      <4>1. IsSequence(first) /\ IsSequence(body) /\ d = first \o body
        BY <2>2, <3>3 DEF first
      <4> HIDE DEF d
      <4>2. /\ IsSequence(d) /\ DOMAIN d = 1..Len(first) + Len(body)
            /\ \A k \in 1..Len(first) : d[k] = first[k]
            /\ \A k \in 1..Len(body) : d[Len(first) + k] = body[k]
        BY <4>1, Joined
      <4> QED BY <3>3, <4>2
    <3> HIDE DEF d
    <3>5. ASSUME NEW k \in DOMAIN d PROVE IsOf(d[k], s)
      <4>1. CASE k = 1
        BY <3>2, <3>4, <4>1
      <4>2. CASE k /= 1
        <5>1. k - 1 \in 1..Len(body) /\ 1 + (k - 1) = k
          BY <2>2, <3>4, <4>2
        <5>2. d[k] = body[k - 1]
          BY <3>4, <5>1
        <5> QED BY <2>2, <5>1, <5>2
      <4> QED BY <4>1, <4>2
    <3>6. ASSUME NEW l \in Range(body) PROVE \E k \in DOMAIN d : d[k] = l
      <4>1. PICK k \in 1..Len(body) : body[k] = l
        BY <2>2
      <4>2. 1 + k \in DOMAIN d
        BY <2>2, <3>4
      <4> QED BY <3>4, <4>1, <4>2
    <3> QED BY <2>1, <3>1, <3>4, <3>5, <3>6 DEF body
  <2> QED BY <2>3, <2>4
<1> QED BY <1>1, <1>2

-----------------------------------------------------------------------------
(* The steps.                                                              *)

(* Behind a listing of whole routines comes a whole routine.               *)
LEMMA BlockAppended ==
  ASSUME lib \in Libraries, NEW f \in DOMAIN Files, NEW u, IsSequence(u),
         Blocks(f, u), NEW s \in Known(f), NEW d, IsSequence(d),
         \A k \in DOMAIN d : IsOf(d[k], s),
         \A l \in Range(lib[s].body) : \E k \in DOMAIN d : d[k] = l
  PROVE  Blocks(f, u \o d)
<1> DEFINE t == u \o d
           m == Len(u)
           n == Len(d)
<1>1. /\ m \in Nat /\ n \in Nat /\ DOMAIN u = 1..m /\ DOMAIN d = 1..n
      /\ DOMAIN t = 1..m + n /\ Len(t) = m + n
      /\ \A k \in 1..m : t[k] = u[k]
      /\ \A k \in 1..n : t[m + k] = d[k]
  BY Joined
<1> HIDE DEF t, m, n
<1>2. \A k \in 1..m + n : k \in 1..m \/ (k > m /\ IsOf(t[k], s))
  <2> SUFFICES ASSUME NEW k \in 1..m + n, k \notin 1..m
               PROVE  k > m /\ IsOf(t[k], s)
    OBVIOUS
  <2>1. k > m /\ k - m \in 1..n /\ m + (k - m) = k
    BY <1>1
  <2>2. t[k] = d[k - m]
    BY <1>1, <2>1
  <2> QED BY <1>1, <2>1, <2>2
<1>3. ASSUME NEW r, NEW k \in Nat, k <= m, Within(u, k, r),
             NEW c \in Nat, k <= c
      PROVE  Within(t, c, r)
  <2> SUFFICES ASSUME NEW l \in Range(lib[r].body)
               PROVE  \E i \in 1..c : t[i] = l
    BY DEF Within
  <2>1. PICK i \in 1..k : u[i] = l
    BY <1>3 DEF Within
  <2>2. i \in 1..m /\ i \in 1..c
    BY <1>1, <1>3, <2>1
  <2> QED BY <1>1, <2>1, <2>2
<1>4. Within(t, m + n, s)
  <2> SUFFICES ASSUME NEW l \in Range(lib[s].body)
               PROVE  \E i \in 1..m + n : t[i] = l
    BY DEF Within
  <2>1. PICK k \in 1..n : d[k] = l
    BY <1>1
  <2>2. m + k \in 1..m + n
    BY <1>1
  <2> QED BY <1>1, <2>1, <2>2
<1>5. ASSUME NEW r \in Known(f), NEW k \in 1..m + n, IsOf(t[k], r), k > m
      PROVE  r = s
  <2>1. IsOf(t[k], s)
    BY <1>1, <1>2, <1>5
  <2>2. r /= s => NamesOf(lib, s) \cap NamesOf(lib, r) = {}
    BY Apart DEF Known
  <2> QED BY <1>5, <2>1, <2>2 DEF IsOf
<1>6. ASSUME NEW k \in 1..m + n
      PROVE  \E r \in Known(f) : IsOf(t[k], r)
  <2>1. CASE k \in 1..m
    BY <1>1, <2>1 DEF Blocks
  <2>2. CASE k \notin 1..m
    BY <1>2, <2>2
  <2> QED BY <2>1, <2>2
<1>7. ASSUME NEW r \in Known(f), NEW k \in 1..m + n, IsOf(t[k], r)
      PROVE  Within(t, m + n, r)
  <2>1. CASE k \in 1..m
    <3>1. IsOf(u[k], r)
      BY <1>1, <1>7, <2>1
    <3>2. Within(u, m, r)
      BY <1>1, <2>1, <3>1 DEF Blocks, m
    <3>3. m + n \in Nat /\ m <= m + n
      BY <1>1
    <3> QED BY <1>1, <1>3, <3>2, <3>3
  <2>2. CASE k \notin 1..m
    <3>1. r = s
      BY <1>1, <1>5, <1>7, <2>2
    <3> QED BY <1>4, <3>1
  <2> QED BY <2>1, <2>2
<1>8. ASSUME NEW r \in Known(f), NEW j \in 1..m + n, NEW k \in 1..m + n,
             j < k, IsOf(t[j], r), ~IsOf(t[k], r)
      PROVE  Within(t, k - 1, r)
  <2>1. CASE j > m
    <3>1. k > m /\ r = s
      BY <1>1, <1>5, <1>8, <2>1
    <3>2. IsOf(t[k], s)
      BY <1>1, <1>2, <3>1
    <3> QED BY <1>8, <3>1, <3>2
  <2>2. CASE j <= m /\ k > m
    <3>1. IsOf(u[j], r) /\ j \in 1..m
      BY <1>1, <1>8, <2>2
    <3>2. Within(u, m, r)
      BY <1>1, <3>1 DEF Blocks, m
    <3>3. k - 1 \in Nat /\ m <= k - 1
      BY <1>1, <2>2
    <3> QED BY <1>1, <1>3, <3>2, <3>3
  <2>3. CASE j <= m /\ k <= m
    <3>1. j \in 1..m /\ k \in 1..m /\ IsOf(u[j], r) /\ ~IsOf(u[k], r)
      BY <1>1, <1>8, <2>3
    <3>2. Within(u, k - 1, r)
      BY <1>1, <1>8, <3>1 DEF Blocks
    <3>3. k - 1 \in Nat /\ k - 1 <= m
      BY <1>1, <3>1
    <3> QED BY <1>3, <3>2, <3>3
  <2> QED BY <1>1, <2>1, <2>2, <2>3
<1> QED BY <1>1, <1>6, <1>7, <1>8 DEF Blocks, t

(* What is printed for a line is what no replacement has made of it.       *)
LEMMA MadeAtFirst ==
  ASSUME NEW f, NEW l, Assembly(l).label = l.addr
  PROVE  IsMade(f, 0, l, Assembly(l))
<1>1. For(f, 0, l) = {}
  BY DEF For
<1> QED BY <1>1 DEF IsMade, Targets

(* The next replacement makes of a line what it is to.                     *)
LEMMA Remade ==
  ASSUME lib \in Libraries, NEW f \in DOMAIN Files, NEW s \in Known(f),
         NEW l \in Range(lib[s].body),
         NEW n \in Nat, n + 1 \in DOMAIN Files[f].seds,
         NEW x, IsMade(f, n, l, x)
  PROVE  IsMade(f, n + 1, l, Sedded(x, Files[f].seds[n + 1]))
<1> DEFINE seds == Files[f].seds
           d == seds[n + 1]
           y == Sedded(x, d)
           isFor(e) == e.at \in {NONE, l.addr} /\ e.from = Assembly(l).goes
<1>1. d \in Range(seds) /\ \A i \in 1..n + 1 : seds[i] \in Range(seds)
  <2>1. IsSequence(seds)
    BY FilesAssumption
  <2>2. /\ Len(seds) \in Nat /\ DOMAIN seds = 1..Len(seds)
        /\ \A i \in 1..Len(seds) : seds[i] \in Range(seds)
    BY <2>1, SequenceFacts
  <2> QED BY <2>2
<1>2. /\ d.from \notin Addresses(lib, s)
      /\ \A e \in Range(seds) : e.to /= d.from
  BY <1>1, SedsAssumption DEF Known
<1>3. x.label = l.addr /\ x.goes \in Targets(f, n, l)
  BY DEF IsMade
<1>4. y.label = l.addr
  <2>1. x.label \in Addresses(lib, s)
    BY <1>3 DEF Addresses
  <2> QED BY <1>2, <1>3, <2>1 DEF Sedded, Swap
<1>5. y.goes = IF d.at \in {NONE, l.addr} /\ x.goes = d.from THEN d.to
               ELSE x.goes
  BY <1>3 DEF Sedded, Swap
<1> HIDE DEF y, d, seds
<1>6. \A e : e \in For(f, n + 1, l) <=>
               e \in For(f, n, l) \/ (e = d /\ isFor(d))
  <2>1. \A i : i \in 1..n + 1 <=> i \in 1..n \/ i = n + 1
    OBVIOUS
  <2>2. \A e : e \in For(f, n + 1, l) <=>
                 \E i \in 1..n + 1 : e = seds[i] /\ isFor(e)
    BY DEF For, seds
  <2>3. \A e : e \in For(f, n, l) <=> \E i \in 1..n : e = seds[i] /\ isFor(e)
    BY DEF For, seds
  <2> HIDE DEF isFor
  <2> QED BY <2>1, <2>2, <2>3 DEF d
<1>7. CASE For(f, n, l) = {}
  <2>1. x.goes = Assembly(l).goes
    BY <1>3, <1>7 DEF Targets
  <2>2. CASE isFor(d)
    <3>1. y.goes = d.to
      BY <1>5, <2>1, <2>2
    <3>2. d \in For(f, n + 1, l)
      BY <1>6, <2>2
    <3>3. y.goes \in Targets(f, n + 1, l)
      BY <3>1, <3>2 DEF Targets
    <3> QED BY <1>4, <3>3 DEF IsMade, y, d, seds
  <2>3. CASE ~isFor(d)
    <3>1. y.goes = Assembly(l).goes
      BY <1>5, <2>1, <2>3
    <3>2. For(f, n + 1, l) = {}
      BY <1>6, <1>7, <2>3
    <3>3. y.goes \in Targets(f, n + 1, l)
      BY <3>1, <3>2 DEF Targets
    <3> QED BY <1>4, <3>3 DEF IsMade, y, d, seds
  <2> QED BY <2>2, <2>3
<1>8. CASE For(f, n, l) /= {}
  <2>1. PICK e \in For(f, n, l) : x.goes = e.to
    BY <1>3, <1>8 DEF Targets
  <2>2. e \in Range(seds)
    <3>1. PICK i \in 1..n : e = seds[i]
      BY <2>1 DEF For, seds
    <3>2. i \in 1..n + 1
      OBVIOUS
    <3> QED BY <1>1, <3>1, <3>2
  <2>3. y.goes = e.to
    BY <1>2, <1>5, <2>1, <2>2
  <2>4. e \in For(f, n + 1, l)
    BY <1>6, <2>1
  <2>5. y.goes \in Targets(f, n + 1, l)
    BY <2>3, <2>4 DEF Targets
  <2> QED BY <1>4, <2>5 DEF IsMade, y, d, seds
<1> QED BY <1>7, <1>8

(* The part of it that refine.py prints leaves one routine cut at most.    *)
LEMMA PrintedIsCut ==
  ASSUME lib \in Libraries, NEW f \in DOMAIN Files, NEW u, IsSequence(u),
         Blocks(f, u), NEW n \in Nat, n <= Len(u),
         NEW a, a = [k \in 1..n |-> Assembly(u[k])]
  PROVE  Cut(f, 0, a)
<1>1. /\ DOMAIN a = 1..n /\ Len(u) \in Nat /\ DOMAIN u = 1..Len(u)
      /\ \A k \in 1..n : k \in DOMAIN u /\ a[k] = Assembly(u[k])
  BY SequenceFacts
<1>l. Len(a) = n
  <2>1. a = [k \in 1..n |-> a[k]]
    OBVIOUS
  <2> QED BY <2>1, SequenceOfFunction
<1>2. \A k \in 1..n : \A s : a[k].label \in NamesOf(lib, s) <=> IsOf(u[k], s)
  BY <1>1 DEF IsOf, LabelOf
<1>3. ASSUME NEW k \in 1..n
      PROVE  \E s \in Known(f) : a[k].label \in NamesOf(lib, s)
  <2>1. PICK s \in Known(f) : IsOf(u[k], s)
    BY <1>1 DEF Blocks
  <2> QED BY <1>2, <2>1
<1>4. ASSUME NEW s \in Known(f), NEW k \in 1..n, IsOf(u[k], s)
      PROVE  Whole(f, 0, a, s) \/ EndsIn(a, s)
  <2>1. CASE IsOf(u[n], s)
    <3>1. n \in 1..n
      OBVIOUS
    <3>2. a[n].label \in NamesOf(lib, s)
      BY <1>2, <2>1, <3>1
    <3>3. a /= <<>>
      BY <1>1, <3>1, EmptySequence
    <3> QED BY <1>l, <3>2, <3>3 DEF EndsIn, Known
  <2>2. CASE ~IsOf(u[n], s)
    <3>1. k < n /\ n \in 1..n /\ k \in DOMAIN u /\ n \in DOMAIN u
      BY <1>1, <1>4, <2>2
    <3>2. Within(u, n - 1, s)
      BY <1>4, <2>2, <3>1 DEF Blocks
    <3>3. ASSUME NEW l \in Range(lib[s].body)
          PROVE  \E i \in DOMAIN a : IsMade(f, 0, l, a[i])
      <4>1. PICK i \in 1..n - 1 : u[i] = l
        BY <3>2 DEF Within
      <4>2. i \in 1..n /\ a[i] = Assembly(l)
        BY <1>1, <4>1
      <4>3. Assembly(l).label = l.addr
        BY BodyLines DEF LabelOf, Known
      <4> QED BY <1>1, <4>2, <4>3, MadeAtFirst
    <3> QED BY <3>3 DEF Whole, Known
  <2> QED BY <2>1, <2>2
<1> QED BY <1>1, <1>2, <1>3, <1>4 DEF Cut

(* What a replacement does to a label.                                     *)
LEMMA Relabelled ==
  ASSUME lib \in Libraries, NEW f \in DOMAIN Files,
         NEW d \in Range(Files[f].seds), NEW x,
         NEW s \in Known(f), x.label \in NamesOf(lib, s)
  PROVE  Sedded(x, d).label \in NamesOf(lib, s)
<1> DEFINE label == Sedded(x, d).label
<1>1. \/ label = x.label
      \/ x.label = d.from /\ label = d.to /\ d.at \in {NONE, d.from}
  BY DEF Sedded, Swap
<1>2. /\ d.from \notin Addresses(lib, s)
      /\ d.at \in {NONE, d.from} /\ d.from \in Heads(lib, s) =>
           d.to \in Heads(lib, s)
  BY SedsAssumption DEF Known, Heads
<1> HIDE DEF label
<1>3. label \in NamesOf(lib, s)
  BY <1>1, <1>2 DEF NamesOf
<1> QED BY <1>3 DEF label

(* A replacement leaves every line with its routine.                       *)
LEMMA ReplacedIsCut ==
  ASSUME lib \in Libraries, NEW f \in DOMAIN Files, NEW a, IsSequence(a),
         NEW n \in Nat, n + 1 \in DOMAIN Files[f].seds, Cut(f, n, a)
  PROVE  LET b == Replaced(a, Files[f].seds[n + 1]) IN
         IsSequence(b) /\ Cut(f, n + 1, b)
<1> DEFINE d == Files[f].seds[n + 1]
           b == Replaced(a, d)
           m == Len(a)
<1>d. d \in Range(Files[f].seds)
  <2>1. IsSequence(Files[f].seds)
    BY FilesAssumption
  <2> QED BY <2>1, SequenceFacts
<1> HIDE DEF d
<1>1. m \in Nat /\ DOMAIN a = 1..m
  BY SequenceFacts
<1>2. /\ b = [k \in 1..m |-> b[k]] /\ DOMAIN b = 1..m
      /\ \A k \in 1..m : b[k] = Sedded(a[k], d)
  BY <1>1 DEF Replaced
<1>3. IsSequence(b) /\ Len(b) = m
  <2> HIDE DEF b, m
  <2> QED BY <1>1, <1>2, SequenceOfFunction
<1> HIDE DEF b, m
<1>4. ASSUME NEW k \in 1..m, NEW s \in Known(f),
             a[k].label \in NamesOf(lib, s)
      PROVE  b[k].label \in NamesOf(lib, s)
  BY <1>d, <1>2, <1>4, Relabelled
<1>5. \A k \in 1..m : \E s \in Known(f) : a[k].label \in NamesOf(lib, s)
  BY <1>1 DEF Cut
<1>6. ASSUME NEW s \in Known(f), NEW k \in 1..m, b[k].label \in NamesOf(lib, s)
      PROVE  a[k].label \in NamesOf(lib, s)
  <2>1. PICK t \in Known(f) : a[k].label \in NamesOf(lib, t)
    BY <1>5
  <2>2. b[k].label \in NamesOf(lib, t)
    BY <1>4, <2>1
  <2>3. t /= s => NamesOf(lib, t) \cap NamesOf(lib, s) = {}
    BY Apart DEF Known
  <2> QED BY <1>6, <2>1, <2>2, <2>3
<1>7. ASSUME NEW s \in Known(f), Whole(f, n, a, s) PROVE Whole(f, n + 1, b, s)
  <2>1. ASSUME NEW l \in Range(lib[s].body)
        PROVE  \E k \in DOMAIN b : IsMade(f, n + 1, l, b[k])
    <3>1. PICK k \in 1..m : IsMade(f, n, l, a[k])
      BY <1>1, <1>7 DEF Whole
    <3>2. IsMade(f, n + 1, l, Sedded(a[k], d))
      BY <3>1, Remade DEF d
    <3> QED BY <1>2, <3>2
  <2> QED BY <1>7, <2>1 DEF Whole
<1>8. ASSUME NEW s \in Known(f), EndsIn(a, s) PROVE EndsIn(b, s)
  <2>1. s \in DOMAIN lib /\ a /= <<>> /\ a[m].label \in NamesOf(lib, s)
    BY <1>8 DEF EndsIn, m
  <2>2. m \in 1..m
    <3>1. a \in Seq(Range(a))
      BY DEF IsSequence
    <3> DEFINE R == Range(a)
    <3> HIDE DEF R
    <3>2. a \in Seq(R)
      BY <3>1 DEF R
    <3>3. Len(a) > 0
      BY <2>1, <3>2
    <3> QED BY <1>1, <3>3 DEF m
  <2>3. b[m].label \in NamesOf(lib, s)
    BY <1>4, <2>1, <2>2
  <2>4. b /= <<>>
    BY <1>2, <2>2, EmptySequence
  <2> QED BY <1>3, <2>1, <2>3, <2>4 DEF EndsIn
<1>9. ASSUME NEW s \in Known(f), NEW k \in 1..m, b[k].label \in NamesOf(lib, s)
      PROVE  Whole(f, n + 1, b, s) \/ EndsIn(b, s)
  <2>1. Whole(f, n, a, s) \/ EndsIn(a, s)
    BY <1>1, <1>6, <1>9 DEF Cut
  <2> QED BY <1>7, <1>8, <2>1
<1>10. \A k \in 1..m : \E s \in Known(f) : b[k].label \in NamesOf(lib, s)
  BY <1>4, <1>5
<1>11. Cut(f, n + 1, b)
  BY <1>2, <1>9, <1>10 DEF Cut
<1> QED BY <1>3, <1>11 DEF b, d

(* Nothing is listed before the first routine.                             *)
LEMMA NothingListed ==
  ASSUME NEW f PROVE Blocks(f, <<>>) /\ IsSequence(<<>>)
BY EmptySequence DEF Blocks

(* The invariant holds at first.                                           *)
LEMMA ExtractInit == Init => IInv
<1> SUFFICES ASSUME Init PROVE IInv
  OBVIOUS
<1>1. Len(out) = 0 /\ IsSequence(out) /\ DOMAIN out = {}
  BY EmptySequence DEF Init
<1>2. 0 < Len(Files)
  <2>1. IsSequence(Files) /\ Files /= <<>>
    BY FilesAssumption
  <2> DEFINE T == Range(Files)
  <2>2. Files \in Seq(T)
    BY <2>1 DEF IsSequence
  <2> HIDE DEF T
  <2> QED BY <2>1, <2>2
<1>3. Typed
  BY <1>1, <1>2, EmptySequence DEF Init, Typed
<1>4. Listing
  BY NothingListed DEF Init, Listing
<1> QED BY <1>1, <1>3, <1>4 DEF Init, IInv, Printing, Printed, FilesCut, Judged

(* What is known of an assembly is known of the file under way once it is  *)
(* that assembly.                                                          *)
LEMMA CutStays ==
  ASSUME NEW f, NEW n, NEW a, Cut(f, n, a), asm' = a, lib' = lib, F' = f,
         step' = n
  PROVE  Cut(F, step, asm)'
BY DEF Cut, Known, NamesOf, Addresses, Heads, Whole, EndsIn

(* And of a file put aside.                                                *)
LEMMA FileCutStays ==
  ASSUME NEW f, NEW n, NEW a, Cut(f, n, a), out'[f] = a, lib' = lib
  PROVE  Cut(f, n, out[f])'
BY DEF Cut, Known, NamesOf, Addresses, Heads, Whole, EndsIn

(* Of all of them, while none is added.                                    *)
LEMMA FilesCutStay ==
  ASSUME FilesCut, out' = out, lib' = lib
  PROVE  FilesCut'
<1> SUFFICES ASSUME NEW f \in DOMAIN out PROVE Cut(f, Seds(f), out[f])'
  BY DEF FilesCut
<1>1. PICK n, a : n = Seds(f) /\ a = out[f]
  OBVIOUS
<1>2. Cut(f, n, a)
  BY <1>1 DEF FilesCut
<1>3. Cut(f, n, out[f])'
  BY <1>1, <1>2, FileCutStays
<1> QED BY <1>1, <1>3 DEF Seds

(* What the steps within a file leave alone.                               *)
LEMMA FilesStay ==
  ASSUME FilesCut, Judged, UNCHANGED <<build, lib, out, status>>,
         status = "building"
  PROVE  FilesCut' /\ Judged' /\ F' = F
<1>1. FilesCut'
  BY FilesCutStay
<1> QED BY <1>1 DEF Judged, F

(* Nor does the listing change while the library and the file do not.        *)
LEMMA BlocksStay ==
  ASSUME NEW f, NEW u, Blocks(f, u), tmp' = u, lib' = lib, f = F, F' = F
  PROVE  Blocks(F, tmp)'
BY DEF Blocks, Within, IsOf, LabelOf, Known, NamesOf, Addresses, Heads,
       Assembly

(* Each step keeps the invariant: disass prints a routine in full, or        *)
(* none.                                                                     *)
LEMMA DisassStep == IInv /\ Disass => IInv'
<1> SUFFICES ASSUME IInv, Disass PROVE IInv'
  OBVIOUS
<1>1. /\ stage = "disass" /\ step < Len(Cur.list)
      /\ tmp' = tmp \o Dump(Cur.list[step + 1])
      /\ step' = step + 1
      /\ UNCHANGED <<build, lib, stage, asm, out, status>>
  BY DEF Disass
<1>2. /\ Typed /\ F \in DOMAIN Files /\ Cur = Files[F] /\ IsSequence(Cur.list)
      /\ Blocks(F, tmp) /\ lib \in Libraries /\ IsSequence(tmp) /\ step \in Nat
  BY <1>1, FileUnderWay DEF IInv, Listing, Typed
<1>3. status = "building" /\ FilesCut /\ Judged
  BY <1>1 DEF IInv, Judged
<1>4. FilesCut' /\ Judged' /\ F' = F
  BY <1>1, <1>3, FilesStay
<1> DEFINE e == Cur.list[step + 1]
           d == Dump(e)
<1>5. e \in Range(Files[F].list)
  <2>1. Len(Cur.list) \in Nat /\ DOMAIN Cur.list = 1..Len(Cur.list)
        /\ \A k \in 1..Len(Cur.list) : Cur.list[k] \in Range(Cur.list)
    BY <1>2, SequenceFacts
  <2>2. step + 1 \in 1..Len(Cur.list)
    BY <1>1, <1>2, <2>1
  <2> QED BY <1>2, <2>1, <2>2
<1> HIDE DEF e
<1>6. /\ IsSequence(d)
      /\ \/ d = <<>>
         \/ \E s \in Known(F) :
              /\ \A k \in DOMAIN d : IsOf(d[k], s)
              /\ \A l \in Range(lib[s].body) : \E k \in DOMAIN d : d[k] = l
  BY <1>2, <1>5, DumpIsBlock
<1> HIDE DEF d
<1>7. IsSequence(tmp \o d)
  BY <1>2, <1>6, Joined
<1>8. Blocks(F, tmp \o d)
  <2>1. CASE d = <<>>
    <3> DEFINE T == Range(tmp)
    <3>1. tmp \in Seq(T)
      BY <1>2 DEF IsSequence
    <3> HIDE DEF T
    <3>2. tmp \o <<>> = tmp
      BY <3>1
    <3> QED BY <1>2, <2>1, <3>2
  <2>2. CASE d /= <<>>
    BY <1>2, <1>6, <2>2, BlockAppended
  <2> QED BY <2>1, <2>2
<1>9. tmp' = tmp \o d
  BY <1>1 DEF d, e
<1>10. Typed'
  <2>1. IsSequence(tmp)'
    BY <1>7, <1>9 DEF IsSequence
  <2>2. step' \in Nat
    BY <1>1, <1>2
  <2> QED BY <1>1, <1>2, <2>1, <2>2 DEF Typed, IsSequence
<1>11. Listing'
  <2>1. Blocks(F, tmp)'
    BY <1>1, <1>4, <1>8, <1>9, BlocksStay
  <2> QED BY <1>1, <2>1 DEF Listing
<1> QED BY <1>1, <1>4, <1>10, <1>11 DEF IInv, Printing, Printed

(* The file begins empty, a prefix of what is to be printed.                 *)
LEMMA StartFileStep == IInv /\ StartFile => IInv'
<1> SUFFICES ASSUME IInv, StartFile PROVE IInv'
  OBVIOUS
<1>1. /\ stage = "disass" /\ stage' = "refine" /\ asm' = <<>> /\ step' = 0
      /\ UNCHANGED <<build, lib, tmp, out, status>>
  BY DEF StartFile
<1>2. /\ Typed /\ Blocks(F, tmp) /\ IsSequence(tmp) /\ status = "building"
      /\ FilesCut /\ Judged
  BY <1>1 DEF IInv, Listing, Typed, Judged
<1>3. FilesCut' /\ Judged' /\ F' = F
  <2>1. FilesCut' /\ F' = F
    BY <1>1, <1>2, FilesStay
  <2> QED BY <1>1, <1>2, <2>1 DEF Judged
<1>4. Typed'
  BY <1>1, <1>2, EmptySequence DEF Typed, IsSequence
<1>5. Blocks(F, tmp)'
  BY <1>1, <1>2, <1>3, BlocksStay
<1>6. Printing'
  <2>1. Len(tmp') \in Nat
    BY <1>1, <1>2, SequenceFacts
  <2>2. <<>> = [k \in 1..0 |-> Assembly(tmp[k])']
    OBVIOUS
  <2> QED BY <1>1, <2>1, <2>2 DEF Printing
<1> QED BY <1>1, <1>3, <1>4, <1>5, <1>6 DEF IInv, Listing, Printed

(* One more line of the listing is printed.                                  *)
LEMMA RefineLineStep == IInv /\ RefineLine => IInv'
<1> SUFFICES ASSUME IInv, RefineLine PROVE IInv'
  OBVIOUS
<1> DEFINE x == Assembly(tmp[step + 1])
<1>1. /\ stage = "refine" /\ step < Len(tmp) /\ asm' = Append(asm, x)
      /\ step' = step + 1
      /\ UNCHANGED <<build, lib, stage, tmp, out, status>>
  BY DEF RefineLine
<1>2. /\ Typed /\ Blocks(F, tmp) /\ status = "building" /\ FilesCut /\ Judged
      /\ IsSequence(tmp) /\ IsSequence(asm) /\ step \in Nat
      /\ asm = [k \in 1..step |-> Assembly(tmp[k])]
  BY <1>1 DEF IInv, Listing, Typed, Judged, Printing
<1>3. FilesCut' /\ Judged' /\ F' = F
  BY <1>1, <1>2, FilesStay
<1>4. /\ IsSequence(asm') /\ DOMAIN asm' = 1..step + 1 /\ Len(tmp) \in Nat
      /\ \A k \in 1..step + 1 : asm'[k] = Assembly(tmp[k])
      /\ asm' = [k \in 1..step + 1 |-> asm'[k]]
  <2> HIDE DEF x
  <2>1. /\ IsSequence(asm') /\ DOMAIN asm' = 1..Len(asm) + 1
        /\ \A k \in 1..Len(asm) : asm'[k] = asm[k]
        /\ asm'[Len(asm) + 1] = x
        /\ DOMAIN asm = 1..Len(asm) /\ Len(asm) \in Nat
    BY <1>1, <1>2, Appended
  <2>2. Len(asm) = step /\ \A k \in 1..step : asm[k] = Assembly(tmp[k])
    <3>1. DOMAIN asm = 1..step
      BY <1>2
    <3>2. Len(asm) = step
      BY <1>2, <2>1, <3>1
    <3> QED BY <1>2, <3>2
  <2>3. Len(tmp) \in Nat
    BY <1>2, SequenceFacts
  <2>4. ASSUME NEW k \in 1..step + 1 PROVE asm'[k] = Assembly(tmp[k])
    <3>1. CASE k \in 1..step
      BY <2>1, <2>2, <3>1
    <3>2. CASE k = step + 1
      BY <2>1, <2>2, <3>2 DEF x
    <3> QED BY <1>2, <3>1, <3>2
  <2>5. asm' = [k \in DOMAIN asm' |-> asm'[k]]
    <3> DEFINE T == Range(asm')
    <3>1. asm' \in Seq(T)
      BY <2>1 DEF IsSequence
    <3> HIDE DEF T
    <3> QED BY <3>1
  <2> QED BY <2>1, <2>2, <2>3, <2>4, <2>5
<1>5. Typed'
  <2>1. IsSequence(asm)'
    BY <1>4 DEF IsSequence
  <2>2. step' \in Nat
    BY <1>1, <1>2
  <2> QED BY <1>1, <1>2, <2>1, <2>2 DEF Typed, IsSequence
<1>6. Blocks(F, tmp)'
  BY <1>1, <1>2, <1>3, BlocksStay
<1>7. Printing'
  <2>1. step + 1 <= Len(tmp)
    BY <1>1, <1>2, <1>4
  <2>2. asm' = [k \in 1..step + 1 |-> Assembly(tmp[k])]
    BY <1>4
  <2>3. asm' = [k \in 1..step' |-> Assembly(tmp[k])']
    BY <1>1, <2>2 DEF Assembly
  <2> QED BY <1>1, <2>1, <2>3 DEF Printing
<1> QED BY <1>1, <1>3, <1>5, <1>6, <1>7 DEF IInv, Listing, Printed

(* A prefix of a listing of routines in full is cut at its end.              *)
LEMMA RefineEndStep == IInv /\ RefineEnd => IInv'
<1> SUFFICES ASSUME IInv, RefineEnd PROVE IInv'
  OBVIOUS
<1>1. /\ stage = "refine" /\ stage' = "post"
      /\ UNCHANGED <<build, lib, step, tmp, asm, out, status>>
  BY DEF RefineEnd
<1>2. /\ Typed /\ Blocks(F, tmp) /\ status = "building" /\ FilesCut /\ Judged
      /\ IsSequence(tmp) /\ step \in Nat /\ step <= Len(tmp)
      /\ lib \in Libraries /\ F \in DOMAIN Files
      /\ asm = [k \in 1..step |-> Assembly(tmp[k])]
  BY <1>1, FileUnderWay DEF IInv, Listing, Typed, Judged, Printing
<1>3. FilesCut' /\ F' = F
  BY <1>1, <1>2, FilesStay
<1>4. Judged'
  BY <1>1, <1>2 DEF Judged
<1>5. Cut(F, 0, asm)
  <2> DEFINE a == asm
  <2>1. a = [k \in 1..step |-> Assembly(tmp[k])]
    BY <1>2
  <2> HIDE DEF a
  <2>2. Cut(F, 0, a)
    BY <1>2, <2>1, PrintedIsCut
  <2> QED BY <2>2 DEF a
<1>6. Cut(F, 0, asm)'
  BY <1>1, <1>3, <1>5
     DEF Cut, Known, NamesOf, Addresses, Heads, Whole, EndsIn
<1>7. Typed'
  BY <1>1, <1>2 DEF Typed, IsSequence
<1> QED BY <1>1, <1>3, <1>4, <1>6, <1>7 DEF IInv, Listing, Printing, Printed

(* post.py leaves the assembly as it was printed.                            *)
LEMMA PostStep == IInv /\ Post => IInv'
<1> SUFFICES ASSUME IInv, Post PROVE IInv'
  OBVIOUS
<1>1. /\ stage = "post" /\ stage' = "sed"
      /\ tmp' = <<>> /\ step' = 0 /\ UNCHANGED <<build, lib, asm, out, status>>
  BY DEF Post
<1>2. Typed /\ Cut(F, 0, asm) /\ status = "building" /\ FilesCut /\ Judged
  BY <1>1 DEF IInv, Printed, Judged
<1>3. FilesCut' /\ F' = F
  BY <1>1, <1>2, FilesStay
<1>4. Judged'
  BY <1>1, <1>2 DEF Judged
<1>5. Cut(F, step, asm)'
  <2>1. PICK f, n, a : f = F /\ n = 0 /\ a = asm
    OBVIOUS
  <2>2. Cut(f, n, a)
    BY <1>2, <2>1
  <2>3. F' = f /\ step' = n /\ asm' = a /\ lib' = lib
    BY <1>1, <1>3, <2>1
  <2> QED BY <2>2, <2>3, CutStays
<1>6. Typed'
  <2>1. IsSequence(tmp)'
    BY <1>1, EmptySequence DEF IsSequence
  <2> QED BY <1>1, <1>2, <2>1 DEF Typed, IsSequence
<1> QED BY <1>1, <1>3, <1>4, <1>5, <1>6 DEF IInv, Listing, Printing, Printed

(* A replacement leaves every line with its routine.                         *)
LEMMA SedStep == IInv /\ Sed => IInv'
<1> SUFFICES ASSUME IInv, Sed PROVE IInv'
  OBVIOUS
<1> DEFINE b == Replaced(asm, Files[F].seds[step + 1])
<1>1. /\ stage = "sed" /\ step < Len(Cur.seds)
      /\ asm' = Replaced(asm, Cur.seds[step + 1]) /\ step' = step + 1
      /\ UNCHANGED <<build, lib, stage, tmp, out, status>>
  BY DEF Sed
<1>2. /\ Typed /\ Cut(F, step, asm) /\ status = "building" /\ FilesCut
      /\ IsSequence(asm) /\ lib \in Libraries /\ F \in DOMAIN Files /\ Judged
      /\ Cur = Files[F] /\ IsSequence(Cur.seds) /\ tmp = <<>> /\ step \in Nat
  BY <1>1, FileUnderWay DEF IInv, Printed, Typed, Judged, Listing
<1>3. FilesCut' /\ Judged' /\ F' = F
  BY <1>1, <1>2, FilesStay
<1>4. step + 1 \in DOMAIN Files[F].seds
  <2>1. Len(Cur.seds) \in Nat /\ DOMAIN Cur.seds = 1..Len(Cur.seds)
    BY <1>2, SequenceFacts
  <2> QED BY <1>1, <1>2, <2>1
<1>5. IsSequence(b) /\ Cut(F, step + 1, b)
  BY <1>2, <1>4, ReplacedIsCut
<1>6. asm' = b
  BY <1>1, <1>2
<1> HIDE DEF b
<1>7. Cut(F, step, asm)'
  <2>1. PICK f, n, a : f = F /\ n = step + 1 /\ a = b
    OBVIOUS
  <2>2. Cut(f, n, a)
    BY <1>5, <2>1
  <2>3. F' = f /\ step' = n /\ asm' = a /\ lib' = lib
    BY <1>1, <1>3, <1>6, <2>1
  <2> QED BY <2>2, <2>3, CutStays
<1>8. Typed'
  <2>1. IsSequence(asm)'
    BY <1>5, <1>6 DEF IsSequence
  <2>2. step' \in Nat
    BY <1>1, <1>2
  <2> QED BY <1>1, <1>2, <2>1, <2>2 DEF Typed, IsSequence
<1> QED BY <1>1, <1>2, <1>3, <1>7, <1>8 DEF IInv, Listing, Printing, Printed

(* A file put aside is as it was under way.                                  *)
LEMMA NextFileStep == IInv /\ NextFile => IInv'
<1> SUFFICES ASSUME IInv, NextFile PROVE IInv'
  OBVIOUS
<1>1. /\ stage = "sed" /\ step = Len(Cur.seds) /\ out' = Append(out, asm)
      /\ stage' = IF Len(out) + 1 = Len(Files) THEN "link" ELSE "disass"
      /\ step' = 0
      /\ UNCHANGED <<build, lib, tmp, asm, status>>
  BY DEF NextFile
<1>2. /\ Typed /\ Cut(F, Seds(F), asm) /\ status = "building" /\ FilesCut
      /\ IsSequence(asm) /\ IsSequence(out) /\ tmp = <<>> /\ Judged
      /\ Len(out) < Len(Files) /\ Len(Files) \in Nat /\ Len(out) \in Nat
      /\ DOMAIN out = 1..Len(out)
  <2>1. IsSequence(Files) /\ IsSequence(out)
    BY FilesAssumption DEF IInv, Typed
  <2>2. step = Seds(F)
    BY <1>1 DEF Cur, F, Seds
  <2> QED BY <1>1, <2>1, <2>2, SequenceFacts
          DEF IInv, Printed, Typed, Judged, Listing
<1>3. /\ IsSequence(out') /\ Len(out') = Len(out) + 1
      /\ DOMAIN out' = 1..Len(out) + 1
      /\ \A k \in 1..Len(out) : out'[k] = out[k]
      /\ out'[Len(out) + 1] = asm
  BY <1>1, <1>2, Appended
<1>4. /\ stage' \in {"disass", "link"}
      /\ stage' = "link" => Len(out') = Len(Files)
      /\ stage' /= "link" => Len(out') < Len(Files)
  BY <1>1, <1>2, <1>3
<1>5. Typed'
  <2>1. IsSequence(out)'
    BY <1>3 DEF IsSequence
  <2>2. step' \in Nat
    BY <1>1
  <2> QED BY <1>1, <1>2, <1>4, <2>1, <2>2 DEF Typed, IsSequence
<1>6. ASSUME NEW f \in 1..Len(out) + 1 PROVE Cut(f, Seds(f), out[f])'
  <2> DEFINE n == Seds(f)
  <2>1. PICK a : out'[f] = a /\ Cut(f, n, a)
    <3>1. CASE f \in 1..Len(out)
      <4>1. out'[f] = out[f] /\ Cut(f, n, out[f])
        BY <1>2, <1>3, <3>1 DEF FilesCut
      <4> QED BY <4>1
    <3>2. CASE f = Len(out) + 1
      <4>1. out'[f] = asm /\ Cut(f, n, asm)
        BY <1>2, <1>3, <3>2 DEF F
      <4> QED BY <4>1
    <3> QED BY <1>2, <3>1, <3>2
  <2>2. lib' = lib
    BY <1>1
  <2> HIDE DEF n
  <2>3. Cut(f, n, out[f])'
    BY <2>1, <2>2, FileCutStays
  <2> QED BY <2>3 DEF n, Seds
<1>7. FilesCut'
  BY <1>3, <1>6 DEF FilesCut
<1>8. Listing'
  <2>1. tmp' = <<>>
    BY <1>1, <1>2
  <2>2. Blocks(F, tmp)'
    BY <2>1, EmptySequence DEF Blocks
  <2> QED BY <1>4, <2>2 DEF Listing
<1>9. Judged'
  BY <1>1, <1>2 DEF Judged
<1> QED BY <1>4, <1>5, <1>7, <1>8, <1>9 DEF IInv, Printing, Printed

(* The linker judges files that do not change any more.                      *)
LEMMA LinkStep == IInv /\ Link => IInv'
<1> SUFFICES ASSUME IInv, Link PROVE IInv'
  OBVIOUS
<1>1. /\ stage = "link" /\ status = "building"
      /\ status' = IF Links THEN "linked" ELSE "failed"
      /\ UNCHANGED <<build, lib, stage, step, tmp, asm, out>>
  BY DEF Link
<1>2. Links' <=> Links
  BY <1>1 DEF Links, Assembles, Asked, Given, Twice, Exported, Wanted, Labels,
              LabelsIn, Goes, Pointed, Defs, Uses
<1>3. Judged'
  BY <1>1, <1>2 DEF Judged
<1>4. FilesCut'
  BY <1>1, FilesCutStay DEF IInv
<1>5. Typed'
  BY <1>1 DEF IInv, Typed, IsSequence
<1> QED BY <1>1, <1>3, <1>4, <1>5 DEF IInv, Listing, Printing, Printed

(* Every step, and stuttering, keeps the invariant.                          *)
LEMMA ExtractStep == IInv /\ [Next]_vars => IInv'
<1>1. IInv /\ UNCHANGED vars => IInv'
  <2> SUFFICES ASSUME IInv, UNCHANGED vars PROVE IInv'
    OBVIOUS
  <2>1. UNCHANGED <<build, lib, stage, step, tmp, asm, out, status>>
    BY DEF vars
  <2>2. Typed' /\ FilesCut'
    BY <2>1, FilesCutStay DEF IInv, Typed, IsSequence
  <2>3. Listing' /\ Printing'
    BY <2>1 DEF IInv, Listing, Printing, F, Blocks, Within, IsOf, LabelOf,
                Known, NamesOf, Addresses, Heads, Assembly
  <2>p. Printed'
    <3>1. F' = F
      BY <2>1 DEF F
    <3>2. Cut(F, 0, asm) => Cut(F, 0, asm)'
      BY <2>1, <3>1
         DEF Cut, Known, NamesOf, Addresses, Heads, Whole, EndsIn
    <3>3. Cut(F, step, asm) => Cut(F, step, asm)'
      BY <2>1, <3>1, CutStays
    <3> QED BY <2>1, <3>2, <3>3 DEF IInv, Printed
  <2>4. Links' <=> Links
    BY <2>1 DEF Links, Assembles, Asked, Given, Twice, Exported, Wanted,
                Labels, LabelsIn, Goes, Pointed, Defs, Uses
  <2>5. Judged'
    BY <2>1, <2>4 DEF IInv, Judged
  <2> QED BY <2>2, <2>3, <2>p, <2>5 DEF IInv
<1> QED BY <1>1, DisassStep, StartFileStep, RefineLineStep, RefineEndStep,
           PostStep, SedStep, NextFileStep, LinkStep DEF Next

(* The inductive invariant holds of the specification.                     *)
THEOREM ExtractInvariance == Spec => []IInv
BY ExtractInit, ExtractStep, PTL DEF Spec

-----------------------------------------------------------------------------
(* What links is there, but for the ends of files.                         *)

(* There: from end to end, or at the end of its file, or the toolchain's.  *)
There(f) == {s \in Listed(f) : \/ Whole(f, Seds(f), out[f], s)
                               \/ EndsIn(out[f], s)
                               \/ Replaceable(f, s)}

(* A routine one of whose names is a label is there.                       *)
LEMMA LabelledIsThere ==
  ASSUME lib \in Libraries, NEW f \in DOMAIN Files, Cut(f, Seds(f), out[f]),
         NEW s \in Listed(f), NEW n \in Labels(f),
         n = Own(s) \/ (s \in DOMAIN lib /\ n \in NamesOf(lib, s))
  PROVE  s \in There(f)
<1>1. n \notin DOMAIN Files[f].inc
  <2>1. CASE n = Own(s)
    BY <2>1, ListsAssumption
  <2>2. CASE s \in DOMAIN lib /\ n \in NamesOf(lib, s)
    <3>1. s \in Known(f)
      BY <2>2 DEF Known
    <3> QED BY <2>2, <3>1, ApartFromData
  <2> QED BY <2>1, <2>2
<1>2. PICK k \in DOMAIN out[f] : out[f][k].label = n
  BY <1>1 DEF Labels, LabelsIn
<1>3. PICK t \in Known(f) : n \in NamesOf(lib, t)
  BY <1>2 DEF Cut
<1>4. t = s
  <2> SUFFICES ASSUME t /= s PROVE FALSE
    OBVIOUS
  <2>1. CASE n = Own(s)
    BY <1>3, <2>1, Apart
  <2>2. CASE s \in DOMAIN lib /\ n \in NamesOf(lib, s)
    <3>1. s \in Known(f)
      BY <2>2 DEF Known
    <3> QED BY <1>3, <2>2, <3>1, Apart
  <2> QED BY <2>1, <2>2
<1>5. Whole(f, Seds(f), out[f], s) \/ EndsIn(out[f], s)
  BY <1>2, <1>3, <1>4 DEF Cut
<1> QED BY <1>5 DEF There

(* Own tells routines apart.                                               *)
LEMMA OwnIsOwn == \A s, t : Own(s) = Own(t) => s = t
<1> SUFFICES ASSUME NEW s, NEW t, Own(s) = Own(t) PROVE s = t
  OBVIOUS
<1>1. Own(s).sym = s /\ Own(t).sym = t
  BY DEF Own, Name
<1> QED BY <1>1

(* A name given is somebody else's or a file's.                            *)
LEMMA GivenBy ==
  ASSUME NEW n
  PROVE  n \in Given <=> \/ n \in Elsewhere(build)
                         \/ \E g \in DOMAIN Files : n \in Exported(g)
<1> DEFINE E == UNION {Exported(f) : f \in DOMAIN Files}
           D == UNION {Defs(obj, build) : obj \in Objs(build)}
<1>1. Given = Toolchain \cup E \cup D
  BY DEF Given
<1>2. Elsewhere(build) = Toolchain \cup D
  BY DEF Elsewhere, Ours
<1>3. n \in E <=> \E g \in DOMAIN Files : n \in Exported(g)
  <2> HIDE DEF Exported
  <2> QED OBVIOUS
<1> HIDE DEF D, E
<1>4. n \in Given <=> n \in Toolchain \/ n \in E \/ n \in D
  BY <1>1, Zenon
<1>5. n \in Elsewhere(build) <=> n \in Toolchain \/ n \in D
  BY <1>2, Zenon
<1> QED BY <1>3, <1>4, <1>5

(* What gives a routine's own name is the file that lists it, or the       *)
(* toolchain.                                                              *)
LEMMA OwnIsGiven ==
  ASSUME build \in Builds, NEW f \in DOMAIN Files, NEW s \in Listed(f),
         Own(s) \in Given
  PROVE  Own(s) \in Labels(f) \cup Toolchain
<1>1. Own(s) \notin Ours(build)
  BY ListsAssumption
<1>2. CASE Own(s) \in Elsewhere(build)
  <2> HIDE DEF Ours
  <2> QED BY <1>1, <1>2, Zenon DEF Elsewhere
<1>3. CASE \E g \in DOMAIN Files : Own(s) \in Exported(g)
  <2>1. PICK g \in DOMAIN Files : Own(s) \in Exported(g)
    BY <1>3
  <2>2. Own(s) \in Labels(g) /\ Own(s) \in Globals(g)
    BY <2>1 DEF Exported
  <2>3. PICK e \in Range(Files[g].list) : e.mark = "@" /\ Own(s) = Own(e.sym)
    BY <2>2 DEF Globals
  <2>4. s = e.sym
    BY <2>3, OwnIsOwn
  <2>5. s \in Listed(g)
    BY <2>3, <2>4 DEF Listed
  <2>6. f = g
    BY <2>5, ListsAssumption
  <2> QED BY <2>2, <2>6
<1> QED BY <1>2, <1>3, GivenBy

(* An address of a routine is nobody's to give but its file's.             *)
LEMMA AddressIsNotGiven ==
  ASSUME build \in Builds, lib \in Libraries, NEW f \in DOMAIN Files,
         NEW s \in Known(f), NEW n \in Addresses(lib, s)
  PROVE  n \notin Given
<1>1. n \notin Elsewhere(build)
  BY LibrariesAssumption DEF Known
<1>2. n.prefix = "L"
  BY LibrariesAssumption DEF Known, Addresses
<1>3. \A x : Own(x).prefix = ""
  BY DEF Own, Name
<1>4. \A x : n /= Own(x)
  BY <1>2, <1>3
<1>5. \A g : n \notin Exported(g)
  BY <1>4 DEF Exported, Globals
<1> QED BY <1>1, <1>5, GivenBy

(* A routine at one of some names has a name among them.                   *)
LEMMA RoutineAt ==
  ASSUME lib \in Libraries, NEW f \in DOMAIN Files, NEW names,
         NEW s \in RoutinesAt(f, names)
  PROVE  /\ s \in Listed(f)
         /\ \E n \in names :
              /\ n /= Nothing
              /\ n = Own(s) \/ (s \in DOMAIN lib /\ n \in Addresses(lib, s))
<1>1. s \in Listed(f)
  BY DEF RoutinesAt
<1>2. CASE Own(s) \in names
  <2>1. Own(s) /= Nothing
    BY <1>1, OwnIsOwn, ListsAssumption DEF Nothing
  <2> QED BY <1>1, <1>2, <2>1
<1>3. CASE s \in DOMAIN lib /\ Addresses(lib, s) \cap names /= {}
  <2>1. PICK n \in names : n \in Addresses(lib, s)
    BY <1>3
  <2>2. n.prefix = "L"
    BY <1>3, <2>1, LibrariesAssumption DEF Addresses
  <2>3. Nothing.prefix = ""
    BY DEF Nothing, Own, Name
  <2>4. n /= Nothing
    BY <2>2, <2>3
  <2> QED BY <1>1, <1>3, <2>1, <2>4
<1> QED BY <1>2, <1>3 DEF RoutinesAt

(* Of what links, a routine a name leads to is there.                      *)
LEMMA NamedIsThere ==
  ASSUME Links, build \in Builds, lib \in Libraries,
         NEW f \in DOMAIN Files, Cut(f, Seds(f), out[f]),
         NEW s \in Listed(f), NEW n \in Goes(f) \cup Asked,
         n = Own(s) \/ (s \in DOMAIN lib /\ n \in Addresses(lib, s))
  PROVE  s \in There(f)
<1>1. CASE n \in Labels(f)
  BY <1>1, LabelledIsThere DEF NamesOf
<1>2. CASE n \notin Labels(f)
  <2>1. n \in Given
    <3>1. n \in Asked
      <4>1. n \in Goes(f) => n \in Wanted(f)
        BY <1>2 DEF Wanted
      <4> QED BY <4>1 DEF Asked
    <3> QED BY <3>1 DEF Links
  <2>2. n = Own(s)
    BY <2>1, AddressIsNotGiven DEF Known
  <2>3. Own(s) \in Toolchain \ Labels(f)
    BY <1>2, <2>1, <2>2, OwnIsGiven
  <2>4. CASE s \in DOMAIN lib /\ NamesOf(lib, s) \cap Labels(f) /= {}
    <3>1. PICK x \in Labels(f) : x \in NamesOf(lib, s)
      BY <2>4
    <3> QED BY <2>4, <3>1, LabelledIsThere
  <2>5. CASE s \in DOMAIN lib => NamesOf(lib, s) \cap Labels(f) = {}
    BY <2>3, <2>5 DEF There, Replaceable
  <2> QED BY <2>4, <2>5
<1> QED BY <1>1, <1>2

(* What a program that links can run of a file is there: the routines      *)
(* asked for or pointed to are, and from one that is only such are         *)
(* reached.                                                                *)
LEMMA ThereIsClosed ==
  ASSUME Links, build \in Builds, lib \in Libraries,
         NEW f \in DOMAIN Files, Cut(f, Seds(f), out[f])
  PROVE  Closed(f, There(f))
<1>1. ASSUME NEW s \in RoutinesAt(f, Asked \cup Pointed(f))
      PROVE  s \in There(f)
  <2>1. s \in Listed(f)
    BY RoutineAt
  <2>2. PICK n \in Asked \cup Pointed(f) :
          /\ n /= Nothing
          /\ n = Own(s) \/ (s \in DOMAIN lib /\ n \in Addresses(lib, s))
    BY RoutineAt
  <2>3. n \in Goes(f) \cup Asked
    BY <2>2 DEF Goes
  <2> QED BY <2>1, <2>2, <2>3, NamedIsThere
<1>2. ASSUME NEW s, NEW t \in LeadsTo(f, s)
      PROVE  t \in There(f)
  <2> DEFINE names == {out[f][k].goes : k \in {k \in DOMAIN out[f] :
                         out[f][k].label \in Addresses(lib, s)}}
  <2>1. t \in RoutinesAt(f, names)
    BY <1>2 DEF LeadsTo
  <2>2. \A n \in names : n /= Nothing => n \in Goes(f)
    BY DEF Goes
  <2> HIDE DEF names
  <2>3. t \in Listed(f)
    BY <2>1, RoutineAt
  <2>4. PICK n \in names :
          /\ n /= Nothing
          /\ n = Own(t) \/ (t \in DOMAIN lib /\ n \in Addresses(lib, t))
    BY <2>1, RoutineAt
  <2> QED BY <2>2, <2>3, <2>4, NamedIsThere
<1> QED BY <1>1, <1>2 DEF Closed

(* The invariant is enough: what is needed is there, being in every closed   *)
(* set.                                                                      *)
LEMMA OnlyEndsCut == IInv => OnlyLastIsCut
<1> SUFFICES ASSUME IInv, status = "linked", NEW f \in DOMAIN Files,
                    NEW s \in Needed(f)
             PROVE  \/ Whole(f, Len(Files[f].seds), out[f], s)
                    \/ EndsIn(out[f], s)
                    \/ Replaceable(f, s)
  BY DEF OnlyLastIsCut
<1>1. Links /\ build \in Builds /\ lib \in Libraries
  BY DEF IInv, Judged, Typed
<1>2. Len(out) = Len(Files) /\ IsSequence(out) /\ IsSequence(Files)
  BY FilesAssumption DEF IInv, Judged, Typed
<1>3. f \in DOMAIN out
  BY <1>2, SequenceFacts
<1>4. Cut(f, Seds(f), out[f])
  BY <1>3 DEF IInv, FilesCut
<1>5. Closed(f, There(f))
  BY <1>1, <1>4, ThereIsClosed
<1>6. There(f) \in SUBSET Listed(f)
  BY DEF There
<1>7. s \in There(f)
  BY <1>5, <1>6 DEF Needed
<1> QED BY <1>7 DEF There, Seds

(* A program that links has every routine it can run as the library has    *)
(* it, but for the last one printed of a file, which refine.py may have    *)
(* given up on, and for one the toolchain has too (make, over ututna's     *)
(* outputs).                                                               *)
THEOREM OnlyEndsAreCut == Spec => []OnlyLastIsCut
BY ExtractInvariance, OnlyEndsCut, PTL

-----------------------------------------------------------------------------
(* A complete library: nothing is missing from what is linked.             *)

(* What entry e prints, from a library that has its routine.               *)
Prints(e, l) == /\ e.mark /= "?"
                /\ \/ e.mark /= "L" /\ l = Heading(lib[e.sym].head)
                   \/ l \in Range(lib[e.sym].body)

(* No label is there twice, nor two headings of a routine.                 *)
Single(f, labels) ==
  /\ IsInjective(labels)
  /\ \A s \in Listed(f) : \A j, k \in DOMAIN labels :
       labels[j] \in Heads(lib, s) /\ labels[k] \in Heads(lib, s) => j = k
LabelsOf(lines) == [k \in DOMAIN lines |-> lines[k].label]

(* A listing is that of the first n entries of file f.                     *)
Lists(f, n, lines) ==
  /\ \A k \in DOMAIN lines : \E j \in 1..n : Prints(Files[f].list[j], lines[k])
  /\ \A j \in 1..n : \A l : Prints(Files[f].list[j], l) =>
       \E k \in DOMAIN lines : lines[k] = l
  /\ Single(f, [k \in DOMAIN lines |-> LabelOf(lines[k])])

(* What the first n replacements made of a line of a listed routine, or of  *)
(* a heading.                                                              *)
IsHeading(s, x) == x.label \in Heads(lib, s) /\ x.goes = Nothing
Fits(f, n, x) ==
  \E s \in Listed(f) : \/ IsHeading(s, x)
                       \/ \E l \in Range(lib[s].body) : IsMade(f, n, l, x)

(* The name over a routine is its own, or is still to be replaced.         *)
Titled(f, n, s, label) ==
  \/ label = Own(s)
  \/ /\ label = Own(lib[s].head)
     /\ \A i \in 1..n : ~/\ Files[f].seds[i].from = label
                         /\ Files[f].seds[i].at \in {NONE, label}

(* The assembly of file f after n replacements has all there is to be.     *)
Entire(f, n, lines) ==
  /\ Single(f, LabelsOf(lines))
  /\ \A k \in DOMAIN lines : Fits(f, n, lines[k])
  /\ \A s \in Listed(f) : Addresses(lib, s) \subseteq LabelsIn(lines)
  /\ \A s \in Headed(f) : \E x \in LabelsIn(lines) : Titled(f, n, s, x)

(* The entries of the list that are in the listing.                        *)
Entries == IF stage = "disass" THEN step ELSE Len(Cur.list)

Sheet == stage \in {"disass", "refine", "post"} => Lists(F, Entries, tmp)
AllPrinted ==
  stage = "post" => asm = [k \in 1..Len(tmp) |-> Assembly(tmp[k])]
UnderWay == stage = "sed" => Entire(F, step, asm)
FilesEntire == \A f \in DOMAIN out : Entire(f, Seds(f), out[f])
Succeeds == build = "native" => status /= "failed"

CompleteInv ==
  Complete =>
    Sheet /\ AllPrinted /\ UnderWay /\ FilesEntire /\ Succeeds

(* What it is for the lists to be enough, in parts.                        *)
LEMMA CompleteFacts ==
  ASSUME Complete, NEW f \in DOMAIN Files
  PROVE  LET names == Expected(f) \cup Supplied(build) \cup {Nothing} IN
         /\ Listed(f) \subseteq DOMAIN lib
         /\ \A s \in Listed(f) : \A l \in Range(lib[s].body) :
              /\ ~Pass!Refuses(l)
              /\ For(f, Seds(f), l) = {} => Assembly(l).goes \in names
         /\ \A s \in Headed(f) :
              \/ lib[s].head = s
              \/ \E d \in Range(Files[f].seds) :
                   d.from = Own(lib[s].head) /\ d.at \in {NONE, d.from}
         /\ Pointed(f) \subseteq names
BY Zenon DEF Complete, Seds

(* Every routine listed is there.                                          *)
LEMMA AllKnown ==
  ASSUME Complete, NEW f \in DOMAIN Files
  PROVE  Known(f) = Listed(f) /\ Listed(f) \subseteq DOMAIN lib
BY CompleteFacts DEF Known

(* A heading is no address.                                                *)
LEMMA HeadsAreNames ==
  ASSUME lib \in Libraries
  PROVE  /\ \A s : \A x \in Heads(lib, s) : x.prefix = ""
         /\ \A s \in DOMAIN lib : \A x \in Addresses(lib, s) : x.prefix = "L"
         /\ \A s : \A t \in DOMAIN lib :
              Heads(lib, s) \cap Addresses(lib, t) = {}
<1>0. \A x : Own(x).prefix = ""
  BY DEF Own, Name
<1>1. \A s : \A x \in Heads(lib, s) : x.prefix = ""
  BY <1>0 DEF Heads
<1>2. \A s \in DOMAIN lib : \A x \in Addresses(lib, s) : x.prefix = "L"
  BY LibrariesAssumption DEF Addresses
<1>3. \A s : \A t \in DOMAIN lib : Heads(lib, s) \cap Addresses(lib, t) = {}
  BY <1>1, <1>2
<1> QED BY <1>1, <1>2, <1>3

(* A line an entry prints has a name of the entry's routine.               *)
LEMMA PrintedNames ==
  ASSUME lib \in Libraries, NEW e, e.sym \in DOMAIN lib, NEW l, Prints(e, l)
  PROVE  /\ IsOf(l, e.sym)
         /\ \/ e.mark /= "L" /\ l = Heading(lib[e.sym].head)
               /\ LabelOf(l) = Own(lib[e.sym].head)
            \/ l \in Range(lib[e.sym].body) /\ LabelOf(l) = l.addr
               /\ LabelOf(l) \in Addresses(lib, e.sym)
<1>1. CASE e.mark /= "L" /\ l = Heading(lib[e.sym].head)
  <2>1. LabelOf(l) = Own(lib[e.sym].head)
    BY <1>1 DEF LabelOf, Assembly, Heading
  <2> QED BY <1>1, <2>1 DEF IsOf, NamesOf, Heads
<1>2. CASE l \in Range(lib[e.sym].body)
  BY <1>2, BodyLines DEF Addresses
<1> QED BY <1>1, <1>2 DEF Prints

(* What an entry prints is all it prints, and nothing twice.               *)
LEMMA DumpIsSheet ==
  ASSUME lib \in Libraries, NEW f \in DOMAIN Files, NEW e,
         e.mark /= "?", e.sym \in DOMAIN lib
  PROVE  LET d == Dump(e) IN
         /\ IsSequence(d)
         /\ \A k \in DOMAIN d : Prints(e, d[k])
         /\ \A l : Prints(e, l) => \E k \in DOMAIN d : d[k] = l
         /\ Single(f, [k \in DOMAIN d |-> LabelOf(d[k])])
<1> DEFINE s == e.sym
           body == lib[s].body
<1>1. /\ IsSequence(body) /\ DOMAIN body = 1..Len(body) /\ Len(body) \in Nat
      /\ \A k \in 1..Len(body) : body[k] \in Range(body)
      /\ \A l \in Range(body) : \E k \in 1..Len(body) : body[k] = l
  <2>1. IsSequence(body)
    BY BodyLines
  <2>2. DOMAIN body = 1..Len(body)
    BY <2>1, SequenceFacts
  <2> QED BY <2>1, <2>2, SequenceFacts DEF Range
<1>2. \A j, k \in 1..Len(body) : body[j].addr = body[k].addr => j = k
  <2>1. \A j, k \in DOMAIN body : body[j].addr = body[k].addr => j = k
    BY LibrariesAssumption
  <2> QED BY <1>1, <2>1
<1>3. ASSUME NEW k \in 1..Len(body)
      PROVE  /\ LabelOf(body[k]) = body[k].addr
             /\ \A t : LabelOf(body[k]) \notin Heads(lib, t)
  <2>1. body[k] \in Range(body)
    BY <1>1
  <2>2. LabelOf(body[k]) = body[k].addr
    BY <2>1, BodyLines
  <2>3. LabelOf(body[k]) \in Addresses(lib, s)
    BY <2>1, <2>2 DEF Addresses
  <2> QED BY <2>2, <2>3, HeadsAreNames
<1>4. CASE e.mark = "L"
  <2>1. Dump(e) = body
    BY <1>4 DEF Dump
  <2>2. \A l : Prints(e, l) <=> l \in Range(body)
    BY <1>4 DEF Prints
  <2>3. Single(f, [k \in DOMAIN body |-> LabelOf(body[k])])
    <3> DEFINE labels == [k \in DOMAIN body |-> LabelOf(body[k])]
    <3>1. /\ DOMAIN labels = 1..Len(body)
          /\ \A k \in 1..Len(body) : labels[k] = LabelOf(body[k])
      BY <1>1
    <3> HIDE DEF labels, body
    <3>2. IsInjective(labels)
      BY <1>2, <1>3, <3>1 DEF IsInjective
    <3>3. \A t : \A k \in DOMAIN labels : labels[k] \notin Heads(lib, t)
      BY <1>3, <3>1
    <3>4. Single(f, labels)
      BY <3>2, <3>3 DEF Single
    <3> QED BY <3>4 DEF labels
  <2> HIDE DEF body
  <2> QED BY <1>1, <2>1, <2>2, <2>3
<1>5. CASE e.mark /= "L"
  <2> DEFINE heading == Heading(lib[s].head)
             d == <<heading>> \o body
  <2>1. Dump(e) = d
    BY <1>5 DEF Dump
  <2>2. \A l : Prints(e, l) <=> l = heading \/ l \in Range(body)
    BY <1>5 DEF Prints
  <2>3. LabelOf(heading) = Own(lib[s].head)
    BY DEF LabelOf, Assembly, Heading
  <2>4. LabelOf(heading) \in Heads(lib, s)
    BY <2>3 DEF Heads
  <2> HIDE DEF heading
  <2> DEFINE first == <<heading>>
  <2>5. IsSequence(first) /\ Len(first) = 1 /\ first[1] = heading
    <3>1. first \in Seq({heading}) /\ Len(first) = 1 /\ first[1] = heading
      OBVIOUS
    <3> QED BY <3>1, SequenceOfSet
  <2> HIDE DEF body, first
  <2>6. /\ IsSequence(d) /\ DOMAIN d = 1..1 + Len(body)
        /\ d[1] = heading
        /\ \A k \in 1..Len(body) : d[1 + k] = body[k]
    <3>1. /\ IsSequence(d) /\ DOMAIN d = 1..Len(first) + Len(body)
          /\ \A k \in 1..Len(first) : d[k] = first[k]
          /\ \A k \in 1..Len(body) : d[Len(first) + k] = body[k]
      BY <1>1, <2>5, Joined DEF first
    <3> QED BY <2>5, <3>1
  <2> HIDE DEF d
  <2>7. ASSUME NEW k \in DOMAIN d, k /= 1
        PROVE  k - 1 \in 1..Len(body) /\ d[k] = body[k - 1]
    <3>1. k - 1 \in 1..Len(body) /\ 1 + (k - 1) = k
      BY <1>1, <2>6, <2>7
    <3> QED BY <2>6, <3>1
  <2>8. \A k \in DOMAIN d : Prints(e, d[k])
    BY <1>1, <2>2, <2>6, <2>7
  <2>9. ASSUME NEW l, Prints(e, l) PROVE \E k \in DOMAIN d : d[k] = l
    <3>1. CASE l = heading
      <4>1. 1 \in DOMAIN d
        BY <1>1, <2>6
      <4> QED BY <2>6, <3>1, <4>1
    <3>2. CASE l \in Range(body)
      <4>1. PICK k \in 1..Len(body) : body[k] = l
        BY <1>1, <3>2
      <4>2. 1 + k \in DOMAIN d
        BY <1>1, <2>6
      <4> QED BY <2>6, <4>1, <4>2
    <3> QED BY <2>2, <2>9, <3>1, <3>2
  <2>10. ASSUME NEW j \in DOMAIN d, NEW k \in DOMAIN d,
                LabelOf(d[j]) = LabelOf(d[k])
         PROVE  j = k
    <3>1. CASE j = 1 /\ k /= 1
      BY <1>3, <2>4, <2>6, <2>7, <2>10, <3>1
    <3>2. CASE j /= 1 /\ k = 1
      BY <1>3, <2>4, <2>6, <2>7, <2>10, <3>2
    <3>3. CASE j /= 1 /\ k /= 1
      <4>1. j - 1 = k - 1
        BY <1>2, <1>3, <2>7, <2>10, <3>3
      <4> QED BY <2>6, <4>1
    <3> QED BY <3>1, <3>2, <3>3
  <2>11. ASSUME NEW t, NEW k \in DOMAIN d, LabelOf(d[k]) \in Heads(lib, t)
         PROVE  k = 1
    BY <1>3, <2>7, <2>11
  <2>12. Single(f, [k \in DOMAIN d |-> LabelOf(d[k])])
    BY <2>10, <2>11 DEF Single, IsInjective
  <2> QED BY <2>1, <2>6, <2>8, <2>9, <2>12
<1> QED BY <1>4, <1>5

(* The listing of some entries, and what the next one prints, is that of   *)
(* one more.                                                               *)
LEMMA ListsMore ==
  ASSUME lib \in Libraries, Complete, NEW f \in DOMAIN Files,
         NEW n \in Nat, n + 1 \in DOMAIN Files[f].list,
         NEW u, IsSequence(u), Lists(f, n, u)
  PROVE  Lists(f, n + 1, u \o Dump(Files[f].list[n + 1]))
<1> DEFINE list == Files[f].list
           e == list[n + 1]
           d == Dump(e)
           t == u \o d
<1>0. /\ DOMAIN list = 1..Len(list) /\ Len(list) \in Nat
      /\ \A j \in 1..n + 1 : j \in DOMAIN list /\ list[j] \in Range(list)
      /\ \A j, k \in DOMAIN list : list[j].sym = list[k].sym => j = k
  <2>1. /\ IsSequence(list)
        /\ \A j, k \in DOMAIN list : list[j].sym = list[k].sym => j = k
    BY FilesAssumption
  <2>2. /\ DOMAIN list = 1..Len(list) /\ Len(list) \in Nat
        /\ \A j \in 1..Len(list) : list[j] \in Range(list)
    BY <2>1, SequenceFacts
  <2> QED BY <2>1, <2>2
<1>1. CASE e.mark = "?"
  <2>1. d = <<>>
    BY <1>1 DEF Dump
  <2>2. t = u
    <3> HIDE DEF d
    <3>1. u \in Seq(Range(u))
      BY DEF IsSequence
    <3> DEFINE R == Range(u)
    <3> HIDE DEF R
    <3>2. u \o <<>> = u
      <4>1. u \in Seq(R)
        BY <3>1 DEF R
      <4> QED BY <4>1
    <3> QED BY <2>1, <3>2
  <2>3. \A l : ~Prints(e, l)
    BY <1>1 DEF Prints
  <2>4. ASSUME NEW j \in 1..n + 1, NEW l, Prints(list[j], l)
        PROVE  j \in 1..n
    BY <2>3, <2>4
  <2>5. \A j \in 1..n : j \in 1..n + 1
    OBVIOUS
  <2> HIDE DEF t, d, e, list
  <2>6. Lists(f, n + 1, u)
    BY <2>4, <2>5 DEF Lists, list
  <2> QED BY <2>2, <2>6 DEF t, d, e, list
<1>2. CASE e.mark /= "?"
  <2>1. e.sym \in Listed(f)
    BY <1>0, <1>2 DEF Listed
  <2>2. e.sym \in Known(f) /\ e.sym \in DOMAIN lib
    BY <2>1, AllKnown
  <2>3. /\ IsSequence(d)
        /\ \A k \in DOMAIN d : Prints(e, d[k])
        /\ \A l : Prints(e, l) => \E k \in DOMAIN d : d[k] = l
        /\ Single(f, [k \in DOMAIN d |-> LabelOf(d[k])])
    BY <1>2, <2>2, DumpIsSheet
  <2> DEFINE m == Len(u)
             c == Len(d)
  <2>4. /\ DOMAIN t = 1..m + c /\ m \in Nat /\ c \in Nat
        /\ DOMAIN u = 1..m /\ DOMAIN d = 1..c
        /\ \A k \in 1..m : t[k] = u[k]
        /\ \A k \in 1..c : t[m + k] = d[k]
    <3> HIDE DEF d
    <3> QED BY <2>3, Joined
  <2> HIDE DEF m, c, d, t
  <2>5. ASSUME NEW k \in 1..m + c, k \notin 1..m
        PROVE  /\ k - m \in 1..c /\ t[k] = d[k - m]
               /\ Prints(e, t[k]) /\ IsOf(t[k], e.sym)
    <3>1. k - m \in 1..c /\ m + (k - m) = k
      BY <2>4, <2>5
    <3>2. t[k] = d[k - m]
      BY <2>4, <3>1
    <3>3. Prints(e, t[k])
      BY <2>3, <2>4, <3>1, <3>2
    <3> QED BY <2>2, <3>1, <3>2, <3>3, PrintedNames
  <2>6. ASSUME NEW k \in 1..m
        PROVE  \E j \in 1..n : /\ Prints(list[j], t[k])
                              /\ list[j].sym \in Known(f) \ {e.sym}
                              /\ IsOf(t[k], list[j].sym)
    <3>1. PICK j \in 1..n : Prints(list[j], t[k])
      BY <2>4 DEF Lists
    <3>2. j \in 1..n + 1 /\ j \in DOMAIN list /\ j /= n + 1
      BY <1>0
    <3>3. list[j].sym \in Listed(f)
      BY <1>0, <3>1, <3>2 DEF Listed, Prints
    <3>4. list[j].sym \in Known(f) /\ list[j].sym \in DOMAIN lib
      BY <3>3, AllKnown
    <3>5. list[j].sym /= e.sym
      BY <1>0, <3>2
    <3> QED BY <3>1, <3>4, <3>5, PrintedNames
  <2>7. ASSUME NEW j \in 1..m, NEW k \in 1..m + c, k \notin 1..m
        PROVE  /\ LabelOf(t[j]) /= LabelOf(t[k])
               /\ \A s \in Listed(f) : ~(/\ LabelOf(t[j]) \in Heads(lib, s)
                                        /\ LabelOf(t[k]) \in Heads(lib, s))
    <3>1. PICK r \in Known(f) \ {e.sym} : IsOf(t[j], r)
      BY <2>6
    <3>2. IsOf(t[k], e.sym)
      BY <2>5, <2>7
    <3>3. NamesOf(lib, r) \cap NamesOf(lib, e.sym) = {}
      BY <2>1, <2>2, <3>1, Apart DEF Known
    <3>4. ASSUME NEW s \in Listed(f), LabelOf(t[j]) \in Heads(lib, s),
                 LabelOf(t[k]) \in Heads(lib, s)
          PROVE  FALSE
      <4>1. s \in Known(f)
        BY AllKnown
      <4>2. /\ LabelOf(t[j]) \in NamesOf(lib, s)
            /\ LabelOf(t[k]) \in NamesOf(lib, s)
        BY <3>4 DEF NamesOf
      <4>3. s = r
        <5>1. s /= r => NamesOf(lib, s) \cap NamesOf(lib, r) = {}
          BY <3>1, <4>1, Apart DEF Known
        <5> QED BY <3>1, <4>2, <5>1 DEF IsOf
      <4> QED BY <3>2, <3>3, <4>2, <4>3 DEF IsOf
    <3> QED BY <3>1, <3>2, <3>3, <3>4 DEF IsOf
  <2>8. \A k \in DOMAIN t : \E j \in 1..n + 1 : Prints(list[j], t[k])
    <3> SUFFICES ASSUME NEW k \in 1..m + c
                 PROVE  \E j \in 1..n + 1 : Prints(list[j], t[k])
      BY <2>4
    <3>1. CASE k \in 1..m
      <4>1. PICK j \in 1..n : Prints(list[j], t[k])
        BY <2>6, <3>1
      <4> QED BY <4>1
    <3>2. CASE k \notin 1..m
      <4>1. Prints(list[n + 1], t[k]) /\ n + 1 \in 1..n + 1
        BY <2>5, <3>2
      <4> QED BY <4>1
    <3> QED BY <3>1, <3>2
  <2>9. ASSUME NEW j \in 1..n + 1, NEW l, Prints(list[j], l)
        PROVE  \E k \in DOMAIN t : t[k] = l
    <3>1. CASE j \in 1..n
      <4>1. PICK k \in 1..m : u[k] = l
        BY <2>4, <2>9, <3>1 DEF Lists
      <4> QED BY <2>4, <4>1
    <3>2. CASE j \notin 1..n
      <4>1. j = n + 1
        BY <3>2
      <4>2. PICK k \in 1..c : d[k] = l
        BY <2>3, <2>4, <2>9, <4>1
      <4>3. m + k \in 1..m + c
        BY <2>4
      <4> QED BY <2>4, <4>2, <4>3
    <3> QED BY <3>1, <3>2
  <2>10. Single(f, [k \in DOMAIN t |-> LabelOf(t[k])])
    <3>1. ASSUME NEW j \in 1..m, NEW k \in 1..m
          PROVE  /\ LabelOf(t[j]) = LabelOf(t[k]) => j = k
                 /\ \A s \in Listed(f) : /\ LabelOf(t[j]) \in Heads(lib, s)
                                        /\ LabelOf(t[k]) \in Heads(lib, s)
                                        => j = k
      BY <2>4 DEF Lists, Single, IsInjective
    <3>2. ASSUME NEW j \in 1..m + c, NEW k \in 1..m + c,
                 j \notin 1..m, k \notin 1..m
          PROVE  /\ LabelOf(t[j]) = LabelOf(t[k]) => j = k
                 /\ \A s \in Listed(f) : /\ LabelOf(t[j]) \in Heads(lib, s)
                                        /\ LabelOf(t[k]) \in Heads(lib, s)
                                        => j = k
      <4>1. /\ j - m \in 1..c /\ t[j] = d[j - m]
            /\ k - m \in 1..c /\ t[k] = d[k - m]
        BY <2>5, <3>2
      <4>2. j - m = k - m => j = k
        BY <2>4
      <4>3. /\ LabelOf(d[j - m]) = LabelOf(d[k - m]) => j - m = k - m
            /\ \A s \in Listed(f) : /\ LabelOf(d[j - m]) \in Heads(lib, s)
                                   /\ LabelOf(d[k - m]) \in Heads(lib, s)
                                   => j - m = k - m
        BY <2>3, <2>4, <4>1 DEF Single, IsInjective
      <4> QED BY <4>1, <4>2, <4>3
    <3>3. \A j, k \in 1..m + c :
            /\ LabelOf(t[j]) = LabelOf(t[k]) => j = k
            /\ \A s \in Listed(f) : /\ LabelOf(t[j]) \in Heads(lib, s)
                                   /\ LabelOf(t[k]) \in Heads(lib, s)
                                   => j = k
      BY <2>7, <3>1, <3>2
    <3> QED BY <2>4, <3>3 DEF Single, IsInjective
  <2> QED BY <2>8, <2>9, <2>10 DEF Lists, t, d
<1> QED BY <1>1, <1>2

(* No line of such a listing is refused.                                   *)
LEMMA NoneRefused ==
  ASSUME lib \in Libraries, Complete, NEW f \in DOMAIN Files,
         NEW n \in Nat, n <= Len(Files[f].list), NEW u, Lists(f, n, u),
         NEW k \in DOMAIN u
  PROVE  ~Pass!Refuses(u[k])
<1> DEFINE list == Files[f].list
<1>1. PICK j \in 1..n : Prints(list[j], u[k])
  BY DEF Lists
<1>2. IsSequence(list)
  BY FilesAssumption
<1>3. list[j] \in Range(list)
  <2>1. Len(list) \in Nat /\ \A i \in 1..Len(list) : list[i] \in Range(list)
    BY <1>2, SequenceFacts
  <2> QED BY <2>1
<1>4. list[j].sym \in Listed(f)
  BY <1>1, <1>3 DEF Listed, Prints
<1> HIDE DEF list
<1>5. CASE u[k] \in Range(lib[list[j].sym].body)
  BY <1>4, <1>5, CompleteFacts
<1>6. CASE u[k] = Heading(lib[list[j].sym].head)
  BY <1>6 DEF Pass!Refuses, Heading
<1> QED BY <1>1, <1>5, <1>6 DEF Prints

(* A line printed, in assembly, is as it is to be before any replacement.  *)
LEMMA PrintedFits ==
  ASSUME lib \in Libraries, Complete, NEW f \in DOMAIN Files,
         NEW e \in Range(Files[f].list), NEW l, Prints(e, l)
  PROVE  /\ Fits(f, 0, Assembly(l))
         /\ e.sym \in Known(f) /\ Assembly(l).label \in NamesOf(lib, e.sym)
<1>1. e.sym \in Listed(f) /\ e.sym \in Known(f) /\ e.sym \in DOMAIN lib
  <2>1. e.sym \in Listed(f)
    BY DEF Listed, Prints
  <2> QED BY <2>1, AllKnown
<1>2. /\ Assembly(l).label \in NamesOf(lib, e.sym)
      /\ \/ l = Heading(lib[e.sym].head)
            /\ Assembly(l).label = Own(lib[e.sym].head)
         \/ l \in Range(lib[e.sym].body) /\ Assembly(l).label = l.addr
  BY <1>1, PrintedNames DEF IsOf, LabelOf
<1>3. CASE l = Heading(lib[e.sym].head)
  <2>1. l.kind = "label"
    BY <1>3 DEF Heading
  <2>2. Assembly(l).goes = Nothing
    BY <2>1 DEF Assembly, Pass!IsCall, Pass!IsInner, Pass!IsPage
  <2>3. Assembly(l).label = Own(lib[e.sym].head)
    BY <2>1, <1>3 DEF Assembly, Heading
  <2>4. IsHeading(e.sym, Assembly(l))
    BY <2>2, <2>3 DEF IsHeading, Heads
  <2> QED BY <1>1, <1>2, <2>4 DEF Fits
<1>4. CASE l \in Range(lib[e.sym].body) /\ Assembly(l).label = l.addr
  <2>1. IsMade(f, 0, l, Assembly(l))
    BY <1>4, MadeAtFirst
  <2> QED BY <1>1, <1>2, <1>4, <2>1 DEF Fits
<1> QED BY <1>2, <1>3, <1>4

(* The assembly of a whole listing is entire.                              *)
LEMMA PrintedIsEntire ==
  ASSUME lib \in Libraries, Complete, NEW f \in DOMAIN Files,
         NEW u, IsSequence(u), Lists(f, Len(Files[f].list), u),
         NEW b, DOMAIN b = 1..Len(u),
         \A k \in 1..Len(u) : b[k] = Assembly(u[k])
  PROVE  Entire(f, 0, b)
<1> DEFINE list == Files[f].list
           m == Len(u)
<1>1. m \in Nat /\ DOMAIN u = 1..m
  BY SequenceFacts
<1>2. /\ Len(list) \in Nat
      /\ \A j \in 1..Len(list) : list[j] \in Range(list)
      /\ \A e \in Range(list) : \E j \in 1..Len(list) : list[j] = e
  <2>1. IsSequence(list)
    BY FilesAssumption
  <2>2. DOMAIN list = 1..Len(list)
    BY <2>1, SequenceFacts
  <2> QED BY <2>1, <2>2, SequenceFacts DEF Range
<1> HIDE DEF m
<1>3. DOMAIN b = 1..m /\ \A k \in 1..m : b[k] = Assembly(u[k])
  BY DEF m
<1>4. ASSUME NEW k \in 1..m PROVE Fits(f, 0, b[k])
  <2>1. PICK j \in 1..Len(list) : Prints(list[j], u[k])
    BY <1>1 DEF Lists
  <2>2. list[j] \in Range(list)
    BY <1>2
  <2> HIDE DEF list
  <2>3. Fits(f, 0, Assembly(u[k]))
    BY <2>1, <2>2, PrintedFits DEF list
  <2> QED BY <1>3, <2>3
<1>5. ASSUME NEW e \in Range(list), NEW l, Prints(e, l)
      PROVE  Assembly(l).label \in LabelsIn(b)
  <2>1. PICK j \in 1..Len(list) : list[j] = e
    BY <1>2
  <2>2. PICK k \in 1..m : u[k] = l
    BY <1>1, <1>5, <2>1 DEF Lists
  <2>3. k \in DOMAIN b /\ b[k] = Assembly(l)
    BY <1>3, <2>2
  <2> QED BY <2>3 DEF LabelsIn
<1>6. ASSUME NEW s \in Listed(f), NEW x \in Addresses(lib, s)
      PROVE  x \in LabelsIn(b)
  <2>1. PICK e \in Range(list) : e.mark /= "?" /\ e.sym = s
    BY DEF Listed
  <2>2. PICK l \in Range(lib[s].body) : l.addr = x
    BY DEF Addresses
  <2>3. Prints(e, l)
    BY <2>1, <2>2 DEF Prints
  <2>4. Assembly(l).label = x
    BY <2>2, AllKnown, BodyLines DEF LabelOf
  <2> QED BY <1>5, <2>3, <2>4
<1>7. ASSUME NEW s \in Headed(f)
      PROVE  \E x \in LabelsIn(b) : Titled(f, 0, s, x)
  <2>1. PICK e \in Range(list) : e.mark \notin {"?", "L"} /\ e.sym = s
    BY DEF Headed
  <2> DEFINE l == Heading(lib[s].head)
  <2>2. Prints(e, l)
    BY <2>1 DEF Prints
  <2>3. Assembly(l).label = Own(lib[s].head)
    BY DEF Assembly, Heading
  <2>4. Own(lib[s].head) \in LabelsIn(b)
    <3> HIDE DEF l
    <3> QED BY <1>5, <2>2, <2>3
  <2>5. Titled(f, 0, s, Own(lib[s].head))
    BY DEF Titled
  <2> QED BY <2>4, <2>5
<1>8. Single(f, LabelsOf(b))
  <2> DEFINE x == LabelsOf(b)
             y == [k \in DOMAIN u |-> LabelOf(u[k])]
  <2>1. DOMAIN x = 1..m /\ \A k \in 1..m : x[k] = LabelOf(u[k])
    BY <1>3 DEF LabelsOf, LabelOf
  <2>2. DOMAIN y = 1..m /\ \A k \in 1..m : y[k] = LabelOf(u[k])
    BY <1>1
  <2>3. Single(f, y)
    BY DEF Lists
  <2> HIDE DEF x, y
  <2>4. Single(f, x)
    BY <2>1, <2>2, <2>3 DEF Single, IsInjective
  <2> QED BY <2>4 DEF x
<1>9. \A k \in DOMAIN b : Fits(f, 0, b[k])
  BY <1>3, <1>4
<1> QED BY <1>6, <1>7, <1>8, <1>9 DEF Entire

(* What the next replacement makes of a line.                              *)
LEMMA SeddedFits ==
  ASSUME lib \in Libraries, Complete, NEW f \in DOMAIN Files,
         NEW n \in Nat, n + 1 \in DOMAIN Files[f].seds, NEW x, Fits(f, n, x)
  PROVE  LET y == Sedded(x, Files[f].seds[n + 1]) IN
         /\ Fits(f, n + 1, y)
         /\ \A s \in Listed(f) :
              y.label \in Heads(lib, s) => x.label \in Heads(lib, s)
         /\ \/ y.label = x.label
            \/ \E s \in Listed(f) : y.label \in Heads(lib, s)
<1> DEFINE d == Files[f].seds[n + 1]
           y == Sedded(x, d)
<1>1. d \in Range(Files[f].seds)
  <2>1. IsSequence(Files[f].seds)
    BY FilesAssumption
  <2> QED BY <2>1, SequenceFacts
<1>2. d.from /= Nothing
  BY <1>1, SedsAssumption
<1>3. \A s \in Listed(f) :
        d.at \in {NONE, d.from} /\ d.from \in Heads(lib, s) => d.to = Own(s)
  BY <1>1, SedsAssumption, AllKnown
<1>4. /\ y.label = x.label \/ (/\ x.label = d.from /\ y.label = d.to
                              /\ d.at \in {NONE, d.from})
      /\ d.from /= x.goes => y.goes = x.goes
  BY DEF Sedded, Swap
<1>5. ASSUME NEW s \in Listed(f), IsHeading(s, x)
      PROVE  /\ IsHeading(s, y)
             /\ \A t \in Listed(f) : y.label \in Heads(lib, t) => t = s
  <2>1. y.goes = Nothing
    BY <1>2, <1>4, <1>5 DEF IsHeading
  <2>2. y.label \in Heads(lib, s)
    BY <1>3, <1>4, <1>5 DEF IsHeading, Heads
  <2>3. ASSUME NEW t \in Listed(f), y.label \in Heads(lib, t), t /= s
        PROVE  FALSE
    <3>1. s \in Known(f) /\ t \in Known(f)
      BY AllKnown
    <3>2. NamesOf(lib, s) \cap NamesOf(lib, t) = {}
      BY <2>3, <3>1, Apart DEF Known
    <3> QED BY <2>2, <2>3, <3>2 DEF NamesOf
  <2> QED BY <2>1, <2>2, <2>3 DEF IsHeading
<1>6. ASSUME NEW s \in Listed(f), NEW l \in Range(lib[s].body),
             IsMade(f, n, l, x)
      PROVE  /\ IsMade(f, n + 1, l, y) /\ y.label = x.label
             /\ \A t \in Listed(f) : y.label \notin Heads(lib, t)
  <2>1. s \in Known(f) /\ s \in DOMAIN lib
    BY AllKnown
  <2>2. IsMade(f, n + 1, l, y)
    BY <1>6, <2>1, Remade
  <2>3. x.label = l.addr /\ y.label = l.addr
    BY <1>6, <2>2 DEF IsMade
  <2>4. l.addr \in Addresses(lib, s)
    BY DEF Addresses
  <2> QED BY <2>1, <2>2, <2>3, <2>4, HeadsAreNames
<1> HIDE DEF y, d
<1>7. CASE \E s \in Listed(f) : IsHeading(s, x)
  <2>1. PICK s \in Listed(f) : IsHeading(s, x)
    BY <1>7
  <2>2. Fits(f, n + 1, y)
    BY <1>5, <2>1 DEF Fits
  <2>3. \A t \in Listed(f) :
          y.label \in Heads(lib, t) => x.label \in Heads(lib, t)
    BY <1>5, <2>1 DEF IsHeading
  <2>4. y.label \in Heads(lib, s)
    BY <1>5, <2>1 DEF IsHeading
  <2> QED BY <2>2, <2>3, <2>4 DEF y, d
<1>8. CASE \E s \in Listed(f) :
             \E l \in Range(lib[s].body) : IsMade(f, n, l, x)
  <2>0. PICK s \in Listed(f) : \E l \in Range(lib[s].body) : IsMade(f, n, l, x)
    BY <1>8
  <2>1. PICK l \in Range(lib[s].body) : IsMade(f, n, l, x)
    BY <2>0
  <2>2. IsMade(f, n + 1, l, y)
    BY <1>6, <2>1
  <2>3. Fits(f, n + 1, y)
    BY <2>2 DEF Fits
  <2>4. /\ y.label = x.label
        /\ \A t \in Listed(f) : y.label \notin Heads(lib, t)
    BY <1>6, <2>1
  <2> QED BY <2>3, <2>4 DEF y, d
<1> QED BY <1>7, <1>8 DEF Fits

(* The name over a routine stays to be replaced until it is.               *)
LEMMA SeddedTitle ==
  ASSUME lib \in Libraries, Complete, NEW f \in DOMAIN Files,
         NEW n \in Nat, n + 1 \in DOMAIN Files[f].seds,
         NEW s \in Listed(f), NEW x, Titled(f, n, s, x.label)
  PROVE  Titled(f, n + 1, s, Sedded(x, Files[f].seds[n + 1]).label)
<1> DEFINE seds == Files[f].seds
           d == seds[n + 1]
           label == Sedded(x, d).label
<1>1. d \in Range(seds)
  <2>1. IsSequence(seds)
    BY FilesAssumption
  <2> QED BY <2>1, SequenceFacts
<1>2. d.at \in {NONE, d.from} /\ d.from \in Heads(lib, s) => d.to = Own(s)
  BY <1>1, SedsAssumption, AllKnown
<1>3. /\ d.at \in {NONE, x.label} /\ d.from = x.label => label = d.to
      /\ ~(d.at \in {NONE, x.label} /\ d.from = x.label) => label = x.label
  BY DEF Sedded, Swap
<1>4. x.label \in Heads(lib, s)
  BY DEF Titled, Heads
<1>5. \A i \in 1..n + 1 : i \in 1..n \/ i = n + 1
  OBVIOUS
<1>6. CASE d.at \in {NONE, x.label} /\ d.from = x.label
  <2>1. label = Own(s)
    BY <1>2, <1>3, <1>4, <1>6
  <2> QED BY <2>1 DEF Titled
<1>7. CASE ~(d.at \in {NONE, x.label} /\ d.from = x.label)
  <2>1. label = x.label
    BY <1>3, <1>7
  <2> HIDE DEF label
  <2>2. Titled(f, n + 1, s, label)
    BY <1>5, <1>7, <2>1 DEF Titled
  <2> QED BY <2>2 DEF label
<1> QED BY <1>6, <1>7

(* A replacement leaves the assembly entire.                               *)
LEMMA ReplacedIsEntire ==
  ASSUME lib \in Libraries, Complete, NEW f \in DOMAIN Files,
         NEW n \in Nat, n + 1 \in DOMAIN Files[f].seds,
         NEW a, Entire(f, n, a)
  PROVE  Entire(f, n + 1, Replaced(a, Files[f].seds[n + 1]))
<1> DEFINE d == Files[f].seds[n + 1]
           b == Replaced(a, d)
<1>1. DOMAIN b = DOMAIN a /\ \A k \in DOMAIN a : b[k] = Sedded(a[k], d)
  BY DEF Replaced
<1>d. d \in Range(Files[f].seds)
  <2>1. IsSequence(Files[f].seds)
    BY FilesAssumption
  <2> QED BY <2>1, SequenceFacts
<1> HIDE DEF b, d
<1>2. ASSUME NEW k \in DOMAIN a
      PROVE  /\ Fits(f, n + 1, b[k])
             /\ \A s \in Listed(f) :
                  b[k].label \in Heads(lib, s) => a[k].label \in Heads(lib, s)
             /\ \/ b[k].label = a[k].label
                \/ \E s \in Listed(f) : b[k].label \in Heads(lib, s)
  <2>1. Fits(f, n, a[k])
    BY DEF Entire
  <2> QED BY <1>1, <2>1, SeddedFits DEF d
<1>3. /\ \A j, k \in DOMAIN a : a[j].label = a[k].label => j = k
      /\ \A s \in Listed(f) : \A j, k \in DOMAIN a :
           a[j].label \in Heads(lib, s) /\ a[k].label \in Heads(lib, s) =>
             j = k
  <2> DEFINE x == LabelsOf(a)
  <2>1. DOMAIN x = DOMAIN a /\ \A k \in DOMAIN a : x[k] = a[k].label
    BY DEF LabelsOf
  <2>2. Single(f, x)
    BY DEF Entire
  <2> HIDE DEF x
  <2> QED BY <2>1, <2>2 DEF Single, IsInjective
<1>4. ASSUME NEW s \in Listed(f), NEW j \in DOMAIN a, NEW k \in DOMAIN a,
             b[j].label \in Heads(lib, s), b[k].label \in Heads(lib, s)
      PROVE  j = k
  BY <1>2, <1>3, <1>4
<1>5. ASSUME NEW j \in DOMAIN a, NEW k \in DOMAIN a, b[j].label = b[k].label
      PROVE  j = k
  <2>1. CASE \E s \in Listed(f) : b[j].label \in Heads(lib, s)
    BY <1>4, <1>5, <2>1
  <2>2. CASE \A s \in Listed(f) : b[j].label \notin Heads(lib, s)
    BY <1>2, <1>3, <1>5, <2>2
  <2> QED BY <2>1, <2>2
<1>6. Single(f, LabelsOf(b))
  <2> DEFINE x == LabelsOf(b)
  <2>1. DOMAIN x = DOMAIN a /\ \A k \in DOMAIN a : x[k] = b[k].label
    BY <1>1 DEF LabelsOf
  <2> HIDE DEF x
  <2>2. Single(f, x)
    BY <1>4, <1>5, <2>1 DEF Single, IsInjective
  <2> QED BY <2>2 DEF x
<1>7. ASSUME NEW y \in LabelsIn(a), y /= d.from PROVE y \in LabelsIn(b)
  <2>1. PICK k \in DOMAIN a : a[k].label = y
    BY DEF LabelsIn
  <2>2. b[k].label = y
    BY <1>1, <1>7, <2>1 DEF Sedded, Swap
  <2> QED BY <1>1, <2>1, <2>2 DEF LabelsIn
<1>9. ASSUME NEW s \in Listed(f) PROVE Addresses(lib, s) \subseteq LabelsIn(b)
  <2>1. d.from \notin Addresses(lib, s)
    BY <1>d, SedsAssumption, AllKnown
  <2>2. Addresses(lib, s) \subseteq LabelsIn(a)
    BY DEF Entire
  <2> QED BY <1>7, <2>1, <2>2
<1>10. ASSUME NEW s \in Headed(f)
       PROVE  \E y \in LabelsIn(b) : Titled(f, n + 1, s, y)
  <2>1. PICK y \in LabelsIn(a) : Titled(f, n, s, y)
    BY DEF Entire
  <2>2. PICK k \in DOMAIN a : a[k].label = y
    BY DEF LabelsIn
  <2>3. s \in Listed(f)
    BY DEF Headed, Listed
  <2>4. Titled(f, n, s, a[k].label)
    BY <2>1, <2>2
  <2>5. Titled(f, n + 1, s, b[k].label)
    BY <1>1, <2>3, <2>4, SeddedTitle DEF d
  <2> QED BY <1>1, <2>5 DEF LabelsIn
<1>11. Entire(f, n + 1, b)
  <2>1. \A k \in DOMAIN b : Fits(f, n + 1, b[k])
    BY <1>1, <1>2
  <2> QED BY <1>6, <1>9, <1>10, <2>1 DEF Entire
<1> QED BY <1>11 DEF b, d

(* A file whose assembly is entire has the labels to expect of it.         *)
LEMMA EntireLabels ==
  ASSUME lib \in Libraries, Complete, NEW f \in DOMAIN Files,
         Entire(f, Seds(f), out[f])
  PROVE  Expected(f) \subseteq Labels(f)
<1> DEFINE seds == Files[f].seds
           a == out[f]
<1>1. \A d \in Range(seds) : \E i \in 1..Len(seds) : seds[i] = d
  <2>1. IsSequence(seds)
    BY FilesAssumption
  <2>2. DOMAIN seds = 1..Len(seds)
    BY <2>1, SequenceFacts
  <2> QED BY <2>2 DEF Range
<1>2. ASSUME NEW s \in Headed(f) PROVE Own(s) \in LabelsIn(a)
  <2>1. PICK x \in LabelsIn(a) : Titled(f, Len(seds), s, x)
    BY DEF Entire, Seds
  <2>2. \/ lib[s].head = s
        \/ \E d \in Range(seds) :
             d.from = Own(lib[s].head) /\ d.at \in {NONE, d.from}
    BY CompleteFacts
  <2> HIDE DEF seds
  <2>3. x = Own(s)
    <3>1. SUFFICES ASSUME x /= Own(s) PROVE FALSE
      OBVIOUS
    <3>2. /\ x = Own(lib[s].head)
          /\ \A i \in 1..Len(seds) :
               ~(seds[i].from = x /\ seds[i].at \in {NONE, x})
      BY <2>1, <3>1 DEF Titled, seds
    <3>3. lib[s].head /= s
      BY <3>1, <3>2
    <3> QED BY <1>1, <2>2, <3>2, <3>3
  <2> QED BY <2>1, <2>3
<1>3. Owns(Headed(f)) \subseteq LabelsIn(a)
  BY <1>2 DEF Owns
<1>4. \A s \in Listed(f) : Addresses(lib, s) \subseteq LabelsIn(a)
  BY DEF Entire
<1> QED BY <1>3, <1>4 DEF Expected, Labels

(* Its lines and its data go to such a label, to what is supplied, or      *)
(* nowhere.                                                                *)
LEMMA EntireGoes ==
  ASSUME build \in Builds, lib \in Libraries, Complete,
         NEW f \in DOMAIN Files, Entire(f, Seds(f), out[f]),
         NEW n \in Goes(f)
  PROVE  n \in Expected(f) \cup Supplied(build)
<1> DEFINE names == Expected(f) \cup Supplied(build) \cup {Nothing}
<1>1. n /= Nothing
  BY DEF Goes
<1>2. CASE n \in Pointed(f)
  BY <1>1, <1>2, CompleteFacts
<1>3. CASE \E k \in DOMAIN out[f] : n = out[f][k].goes
  <2>1. PICK k \in DOMAIN out[f] : n = out[f][k].goes
    BY <1>3
  <2>2. Fits(f, Seds(f), out[f][k])
    BY DEF Entire
  <2>3. PICK s \in Listed(f) : \E l \in Range(lib[s].body) :
                                 IsMade(f, Seds(f), l, out[f][k])
    BY <1>1, <2>1, <2>2 DEF Fits, IsHeading
  <2>4. PICK l \in Range(lib[s].body) : IsMade(f, Seds(f), l, out[f][k])
    BY <2>3
  <2>5. n \in Targets(f, Seds(f), l)
    BY <2>1, <2>4 DEF IsMade
  <2>6. CASE For(f, Seds(f), l) = {}
    <3>1. n = Assembly(l).goes
      BY <2>5, <2>6 DEF Targets
    <3>2. Assembly(l).goes \in names
      BY <2>6, CompleteFacts
    <3> QED BY <1>1, <3>1, <3>2
  <2>7. CASE For(f, Seds(f), l) /= {}
    <3>1. PICK d \in For(f, Seds(f), l) : n = d.to
      BY <2>5, <2>7 DEF Targets
    <3>2. d \in Range(Files[f].seds)
      <4>1. PICK i \in 1..Seds(f) : d = Files[f].seds[i]
        BY <3>1 DEF For
      <4>2. IsSequence(Files[f].seds)
        BY FilesAssumption
      <4>3. Files[f].seds[i] \in Range(Files[f].seds)
        BY <4>2, SequenceFacts DEF Seds
      <4> QED BY <4>1, <4>3
    <3>3. n \in Owns(Headed(f)) \cup Supplied(build)
      BY <3>1, <3>2, SedsAssumption
    <3> HIDE DEF Owns
    <3> QED BY <3>3 DEF Expected
  <2> QED BY <2>6, <2>7
<1> QED BY <1>2, <1>3 DEF Goes

(* Files that are entire link with the native build's objects.             *)
LEMMA EntireLinks ==
  ASSUME build \in Builds, build = "native", lib \in Libraries, Complete,
         \A f \in DOMAIN Files : Entire(f, Seds(f), out[f])
  PROVE  Links
<1>1. \A f \in DOMAIN Files : Expected(f) \subseteq Labels(f)
  BY EntireLabels
<1>2. ASSUME NEW f \in DOMAIN Files PROVE Globals(f) \subseteq Exported(f)
  <2> SUFFICES ASSUME NEW n \in Globals(f) PROVE n \in Labels(f)
    BY DEF Exported
  <2>1. PICK e \in Range(Files[f].list) : e.mark = "@" /\ n = Own(e.sym)
    BY DEF Globals
  <2>2. e.sym \in Headed(f)
    BY <2>1 DEF Headed
  <2>3. n \in Expected(f)
    BY <2>1, <2>2 DEF Expected, Owns
  <2> QED BY <1>1, <2>3
<1>3. ASSUME NEW n \in Supplied(build) PROVE n \in Given
  <2>1. CASE n \in Elsewhere(build)
    BY <2>1, GivenBy
  <2>2. CASE \E f \in DOMAIN Files : n \in Globals(f)
    BY <1>2, <2>2, GivenBy
  <2>3. n \in Elsewhere(build) \/ \E f \in DOMAIN Files : n \in Globals(f)
    BY <1>3 DEF Supplied
  <2> QED BY <2>1, <2>2, <2>3
<1>4. ASSUME NEW f \in DOMAIN Files, NEW n \in Wanted(f) PROVE n \in Given
  <2>1. n \in Goes(f) /\ n \notin Labels(f)
    BY DEF Wanted
  <2>2. n \in Expected(f) \cup Supplied(build)
    BY <2>1, EntireGoes
  <2> QED BY <1>1, <1>3, <2>1, <2>2
<1>5. ASSUME NEW obj \in Objs(build), NEW n \in Uses(obj, build)
      PROVE  n \in Given
  <2>1. n \in Supplied(build)
    BY ObjectsAssumption
  <2> QED BY <1>3, <2>1
<1>6. Asked \subseteq Given
  <2> SUFFICES ASSUME NEW n \in Asked PROVE n \in Given
    OBVIOUS
  <2>1. \/ \E f \in DOMAIN Files : n \in Wanted(f)
        \/ \E obj \in Objs(build) : n \in Uses(obj, build)
    BY DEF Asked
  <2> QED BY <1>4, <1>5, <2>1
<1>7. ASSUME NEW f \in DOMAIN Files, NEW n \in Exported(f)
      PROVE  \E s \in Listed(f) : n = Own(s)
  BY DEF Exported, Globals, Listed
<1>8. ~Twice
  <2>1. ASSUME NEW f \in DOMAIN Files, NEW g \in DOMAIN Files, f /= g
        PROVE  Exported(f) \cap Exported(g) = {}
    <3> SUFFICES ASSUME NEW n \in Exported(f), n \in Exported(g) PROVE FALSE
      OBVIOUS
    <3>1. PICK s \in Listed(f) : n = Own(s)
      BY <1>7
    <3>2. PICK t \in Listed(g) : n = Own(t)
      BY <1>7
    <3>3. s = t
      BY <3>1, <3>2, OwnIsOwn
    <3> QED BY <2>1, <3>3, ListsAssumption
  <2>2. ASSUME NEW f \in DOMAIN Files, NEW obj \in Objs(build)
        PROVE  Exported(f) \cap Defs(obj, build) = {}
    <3> SUFFICES ASSUME NEW n \in Exported(f), n \in Defs(obj, build)
                 PROVE  FALSE
      OBVIOUS
    <3>1. PICK s \in Listed(f) : n = Own(s)
      BY <1>7
    <3>2. n \in Ours(build)
      BY DEF Ours
    <3> QED BY <3>1, <3>2, ListsAssumption
  <2> QED BY <2>1, <2>2 DEF Twice
<1>9. ASSUME NEW f \in DOMAIN Files PROVE Assembles(f)
  <2> DEFINE a == out[f]
             x == LabelsOf(a)
  <2>1. DOMAIN x = DOMAIN a /\ \A k \in DOMAIN a : x[k] = a[k].label
    BY DEF LabelsOf
  <2>2. IsInjective(x)
    BY DEF Entire, Single
  <2> HIDE DEF x
  <2>3. \A j, k \in DOMAIN a : a[j].label = a[k].label => j = k
    BY <2>1, <2>2 DEF IsInjective
  <2>4. ASSUME NEW k \in DOMAIN a PROVE a[k].label \notin DOMAIN Files[f].inc
    <3>1. Fits(f, Seds(f), a[k])
      BY DEF Entire
    <3>2. PICK s \in Listed(f) : a[k].label \in NamesOf(lib, s)
      BY <3>1 DEF Fits, IsHeading, IsMade, NamesOf, Addresses
    <3>3. s \in Known(f)
      BY AllKnown
    <3> QED BY <3>2, <3>3, ApartFromData
  <2>5. LabelsIn(a) \cap DOMAIN Files[f].inc = {}
    BY <2>4 DEF LabelsIn
  <2> QED BY <2>3, <2>5 DEF Assembles
<1> QED BY <1>6, <1>8, <1>9 DEF Links

(* The invariants of a listing and of assembly are of that listing and     *)
(* that assembly, whenever they are the listing and the assembly.          *)
LEMMA ListsStay ==
  ASSUME NEW f, NEW n, NEW u, Lists(f, n, u),
         F' = f, Entries' = n, tmp' = u, lib' = lib
  PROVE  Lists(F, Entries, tmp)'
<1>1. (\A k \in DOMAIN tmp : \E j \in 1..Entries :
         Prints(Files[F].list[j], tmp[k]))'
  BY DEF Lists, Prints, Heading
<1>2. (\A j \in 1..Entries : \A l : Prints(Files[F].list[j], l) =>
         \E k \in DOMAIN tmp : tmp[k] = l)'
  BY DEF Lists, Prints, Heading
<1>3. Single(F, [k \in DOMAIN tmp |-> LabelOf(tmp[k])])'
  BY DEF Lists, Single, IsInjective, LabelOf, Assembly, Heads
<1> QED BY <1>1, <1>2, <1>3 DEF Lists

(* Of the assembly under way.                                                *)
LEMMA EntireStays ==
  ASSUME NEW f, NEW n, NEW a, Entire(f, n, a),
         F' = f, step' = n, asm' = a, lib' = lib
  PROVE  Entire(F, step, asm)'
BY DEF Entire, Single, IsInjective, LabelsOf, LabelsIn, Fits, IsHeading,
       Titled, Heads, Addresses

(* Of a file put aside.                                                      *)
LEMMA FileStaysEntire ==
  ASSUME NEW f, NEW n, NEW a, Entire(f, n, a), out'[f] = a, lib' = lib
  PROVE  Entire(f, n, out[f])'
<1>1. Single(f, LabelsOf(out[f]))'
  BY DEF Entire, Single, IsInjective, LabelsOf, Heads
<1>2. (\A k \in DOMAIN out[f] : Fits(f, n, out[f][k]))'
  BY DEF Entire, Fits, IsHeading, Heads
<1>3. (/\ \A s \in Listed(f) : Addresses(lib, s) \subseteq LabelsIn(out[f])
       /\ \A s \in Headed(f) : \E x \in LabelsIn(out[f]) : Titled(f, n, s, x))'
  BY DEF Entire, LabelsIn, Titled, Addresses
<1> QED BY <1>1, <1>2, <1>3 DEF Entire

(* Of all of them, while none is added.                                      *)
LEMMA FilesStayEntire ==
  ASSUME FilesEntire, out' = out, lib' = lib
  PROVE  FilesEntire'
<1> SUFFICES ASSUME NEW f \in DOMAIN out
             PROVE  Entire(f, Seds(f), out[f])'
  BY DEF FilesEntire
<1> DEFINE n == Seds(f)
<1> HIDE DEF n
<1>1. PICK a : out[f] = a /\ Entire(f, n, a)
  BY DEF FilesEntire, n
<1>2. out'[f] = a
  BY <1>1
<1>3. Entire(f, n, out[f])'
  BY <1>1, <1>2, FileStaysEntire
<1> QED BY <1>3 DEF n

(* Nothing is listed of no entries.                                        *)
LEMMA NoEntries == \A f : Lists(f, 0, <<>>)
BY EmptySequence DEF Lists, Single, IsInjective

(* The invariant holds at first, whatever the library.                     *)
LEMMA CompleteInit == Init => CompleteInv
<1> SUFFICES ASSUME Init PROVE CompleteInv
  OBVIOUS
<1>1. Entries = 0
  BY DEF Init, Entries
<1>2. Sheet
  BY <1>1, NoEntries DEF Init, Sheet
<1>3. FilesEntire
  BY EmptySequence DEF Init, FilesEntire
<1> QED BY <1>2, <1>3 DEF Init, CompleteInv, AllPrinted, UnderWay, Succeeds

(* The steps keep it.                                                      *)
LEMMA CompleteDisass ==
  ASSUME IInv, CompleteInv, Complete, Disass PROVE CompleteInv'
<1>1. /\ stage = "disass" /\ step < Len(Cur.list)
      /\ tmp' = tmp \o Dump(Cur.list[step + 1])
      /\ step' = step + 1
      /\ UNCHANGED <<build, lib, stage, asm, out, status>>
  BY DEF Disass
<1>2. /\ F \in DOMAIN Files /\ Cur = Files[F] /\ IsSequence(Cur.list)
      /\ lib \in Libraries /\ IsSequence(tmp) /\ step \in Nat
  BY <1>1, FileUnderWay DEF IInv, Typed
<1>3. /\ Lists(F, step, tmp) /\ FilesEntire /\ Succeeds
  BY <1>1 DEF CompleteInv, Sheet, Entries
<1>4. step + 1 \in DOMAIN Files[F].list
  <2>1. Len(Cur.list) \in Nat /\ DOMAIN Cur.list = 1..Len(Cur.list)
    BY <1>2, SequenceFacts
  <2> QED BY <1>1, <1>2, <2>1
<1> DEFINE u == tmp \o Dump(Cur.list[step + 1])
<1>5. Lists(F, step + 1, u)
  BY <1>2, <1>3, <1>4, ListsMore
<1>6. Sheet'
  <2> HIDE DEF u
  <2>1. PICK f, n, t : f = F /\ n = step + 1 /\ t = u
    OBVIOUS
  <2>2. Lists(f, n, t)
    BY <1>5, <2>1
  <2>3. F' = f /\ tmp' = t
    BY <1>1, <2>1 DEF F, u
  <2>4. Entries' = n
    BY <1>1, <2>1 DEF Entries
  <2>5. lib' = lib
    BY <1>1
  <2>6. Lists(F, Entries, tmp)'
    BY <2>2, <2>3, <2>4, <2>5, ListsStay
  <2> QED BY <2>6 DEF Sheet
<1>7. FilesEntire'
  BY <1>1, <1>3, FilesStayEntire
<1> QED BY <1>1, <1>3, <1>6, <1>7
       DEF CompleteInv, AllPrinted, UnderWay, Succeeds

(* The listing is whole when the file begins.                                *)
LEMMA CompleteStartFile ==
  ASSUME IInv, CompleteInv, Complete, StartFile PROVE CompleteInv'
<1>1. /\ stage = "disass" /\ step = Len(Cur.list) /\ stage' = "refine"
      /\ UNCHANGED <<build, lib, tmp, out, status>>
  BY DEF StartFile
<1>2. Lists(F, step, tmp) /\ FilesEntire /\ Succeeds
  BY <1>1 DEF CompleteInv, Sheet, Entries
<1>3. Sheet'
  <2>1. PICK f, n, t : f = F /\ n = step /\ t = tmp
    OBVIOUS
  <2>2. Lists(f, n, t)
    BY <1>2, <2>1
  <2>3. F' = f /\ tmp' = t /\ lib' = lib
    BY <1>1, <2>1 DEF F
  <2>4. Entries' = n
    BY <1>1, <2>1 DEF Entries, Cur
  <2>5. Lists(F, Entries, tmp)'
    BY <2>2, <2>3, <2>4, ListsStay
  <2> QED BY <2>5 DEF Sheet
<1>4. FilesEntire'
  BY <1>1, <1>2, FilesStayEntire
<1> QED BY <1>1, <1>2, <1>3, <1>4
       DEF CompleteInv, AllPrinted, UnderWay, Succeeds

(* Of the steps of refine.py and post.py, that leave the listing alone.    *)
LEMMA SheetStays ==
  ASSUME Sheet, stage \in {"refine", "post"}, stage' \in {"refine", "post"},
         UNCHANGED <<lib, tmp, out>>
  PROVE  Sheet'
<1>1. PICK f, n, t : f = F /\ n = Entries /\ t = tmp
  OBVIOUS
<1>2. Lists(f, n, t)
  BY <1>1 DEF Sheet
<1>3. F' = f /\ tmp' = t /\ lib' = lib
  BY <1>1 DEF F
<1>4. Entries' = n
  BY <1>1 DEF Entries, Cur
<1>5. Lists(F, Entries, tmp)'
  BY <1>2, <1>3, <1>4, ListsStay
<1> QED BY <1>5 DEF Sheet

(* The listing stays while its lines are printed.                            *)
LEMMA CompleteRefineLine ==
  ASSUME IInv, CompleteInv, Complete, RefineLine PROVE CompleteInv'
<1>1. /\ stage = "refine" /\ UNCHANGED <<build, lib, stage, tmp, out, status>>
  BY DEF RefineLine
<1>2. Sheet /\ FilesEntire /\ Succeeds
  BY DEF CompleteInv
<1>3. Sheet'
  BY <1>1, <1>2, SheetStays
<1>4. FilesEntire'
  BY <1>1, <1>2, FilesStayEntire
<1> QED BY <1>1, <1>2, <1>3, <1>4
       DEF CompleteInv, AllPrinted, UnderWay, Succeeds

(* refine.py comes to the end of a complete library's lines.               *)
LEMMA CompleteRefineEnd ==
  ASSUME IInv, CompleteInv, Complete, RefineEnd PROVE CompleteInv'
<1>1. /\ stage = "refine" /\ stage' = "post"
      /\ step < Len(tmp) => Pass!Refuses(tmp[step + 1])
      /\ UNCHANGED <<build, lib, step, tmp, asm, out, status>>
  BY DEF RefineEnd
<1>2. Sheet /\ FilesEntire /\ Succeeds
  BY DEF CompleteInv
<1>3. /\ F \in DOMAIN Files /\ Cur = Files[F] /\ IsSequence(Cur.list)
      /\ lib \in Libraries /\ IsSequence(tmp) /\ step \in Nat
      /\ step <= Len(tmp) /\ asm = [k \in 1..step |-> Assembly(tmp[k])]
  BY <1>1, FileUnderWay DEF IInv, Typed, Printing
<1>4. Len(tmp) \in Nat /\ DOMAIN tmp = 1..Len(tmp) /\ Len(Cur.list) \in Nat
  BY <1>3, SequenceFacts
<1>n. step \in Nat /\ step <= Len(tmp) /\ Len(tmp) \in Nat
  BY <1>3, <1>4
<1>5. step = Len(tmp)
  <2> SUFFICES ASSUME step < Len(tmp) PROVE FALSE
    BY <1>n
  <2>1. step + 1 \in DOMAIN tmp
    BY <1>3, <1>4
  <2>2. Lists(F, Len(Files[F].list), tmp)
    BY <1>1, <1>2, <1>3 DEF Sheet, Entries
  <2>3. Len(Files[F].list) \in Nat
    BY <1>3, <1>4
  <2>4. ~Pass!Refuses(tmp[step + 1])
    BY <1>3, <2>1, <2>2, <2>3, NoneRefused
  <2> QED BY <1>1, <2>4
<1>6. asm = [k \in 1..Len(tmp) |-> Assembly(tmp[k])]
  BY <1>3, <1>5
<1>7. AllPrinted'
  BY <1>1, <1>6 DEF AllPrinted, Assembly
<1>8. Sheet'
  BY <1>1, <1>2, SheetStays
<1>9. FilesEntire'
  BY <1>1, <1>2, FilesStayEntire
<1> QED BY <1>1, <1>2, <1>7, <1>8, <1>9 DEF CompleteInv, UnderWay, Succeeds

(* The assembly is entire before any replacement.                            *)
LEMMA CompletePost ==
  ASSUME IInv, CompleteInv, Complete, Post PROVE CompleteInv'
<1>1. /\ stage = "post" /\ stage' = "sed" /\ step' = 0
      /\ UNCHANGED <<build, lib, asm, out, status>>
  BY DEF Post
<1>2. /\ F \in DOMAIN Files /\ Cur = Files[F] /\ IsSequence(Cur.list)
      /\ lib \in Libraries /\ IsSequence(tmp) /\ IsSequence(asm)
  BY <1>1, FileUnderWay DEF IInv, Typed
<1>3. /\ Lists(F, Len(Files[F].list), tmp) /\ FilesEntire /\ Succeeds
      /\ asm = [k \in 1..Len(tmp) |-> Assembly(tmp[k])]
  BY <1>1, <1>2 DEF CompleteInv, Sheet, Entries, AllPrinted
<1>4. Entire(F, 0, asm)
  <2>1. DOMAIN asm = 1..Len(tmp)
    BY <1>3
  <2>2. \A k \in 1..Len(tmp) : asm[k] = Assembly(tmp[k])
    BY <1>3
  <2> QED BY <1>2, <1>3, <2>1, <2>2, PrintedIsEntire
<1>5. UnderWay'
  <2>1. PICK f, n, a : f = F /\ n = 0 /\ a = asm
    OBVIOUS
  <2>2. Entire(f, n, a)
    BY <1>4, <2>1
  <2>3. F' = f /\ step' = n /\ asm' = a /\ lib' = lib
    BY <1>1, <2>1 DEF F
  <2>4. Entire(F, step, asm)'
    BY <2>2, <2>3, EntireStays
  <2> QED BY <2>4 DEF UnderWay
<1>6. FilesEntire'
  BY <1>1, <1>3, FilesStayEntire
<1> QED BY <1>1, <1>3, <1>5, <1>6 DEF CompleteInv, Sheet, AllPrinted, Succeeds

(* It is entire after one more.                                              *)
LEMMA CompleteSed ==
  ASSUME IInv, CompleteInv, Complete, Sed PROVE CompleteInv'
<1>1. /\ stage = "sed" /\ stage' = "sed" /\ step < Len(Cur.seds)
      /\ asm' = Replaced(asm, Cur.seds[step + 1]) /\ step' = step + 1
      /\ UNCHANGED <<build, lib, out, status>>
  BY DEF Sed
<1>2. /\ F \in DOMAIN Files /\ Cur = Files[F] /\ IsSequence(Cur.seds)
      /\ lib \in Libraries /\ step \in Nat
  BY <1>1, FileUnderWay DEF IInv, Typed
<1>3. Entire(F, step, asm) /\ FilesEntire /\ Succeeds
  BY <1>1 DEF CompleteInv, UnderWay
<1>4. step + 1 \in DOMAIN Files[F].seds
  <2>1. Len(Cur.seds) \in Nat /\ DOMAIN Cur.seds = 1..Len(Cur.seds)
    BY <1>2, SequenceFacts
  <2> QED BY <1>1, <1>2, <2>1
<1> DEFINE b == Replaced(asm, Files[F].seds[step + 1])
<1>5. Entire(F, step + 1, b)
  BY <1>2, <1>3, <1>4, ReplacedIsEntire
<1>6. asm' = b
  BY <1>1, <1>2
<1> HIDE DEF b
<1>7. UnderWay'
  <2>1. PICK f, n, a : f = F /\ n = step + 1 /\ a = b
    OBVIOUS
  <2>2. Entire(f, n, a)
    BY <1>5, <2>1
  <2>3. F' = f /\ step' = n /\ asm' = a /\ lib' = lib
    BY <1>1, <1>6, <2>1 DEF F
  <2>4. Entire(F, step, asm)'
    BY <2>2, <2>3, EntireStays
  <2> QED BY <2>4 DEF UnderWay
<1>8. FilesEntire'
  BY <1>1, <1>3, FilesStayEntire
<1> QED BY <1>1, <1>3, <1>7, <1>8 DEF CompleteInv, Sheet, AllPrinted, Succeeds

(* And so is the file put aside.                                             *)
LEMMA CompleteNextFile ==
  ASSUME IInv, CompleteInv, Complete, NextFile PROVE CompleteInv'
<1>1. /\ stage = "sed" /\ step = Len(Cur.seds) /\ out' = Append(out, asm)
      /\ stage' \in {"link", "disass"} /\ step' = 0
      /\ UNCHANGED <<build, lib, tmp, asm, status>>
  BY DEF NextFile
<1>2. /\ F \in DOMAIN Files /\ Cur = Files[F] /\ IsSequence(out)
      /\ tmp = <<>>
  BY <1>1, FileUnderWay DEF IInv, Typed, Listing
<1>3. Entire(F, Seds(F), asm) /\ FilesEntire /\ Succeeds
  BY <1>1, <1>2 DEF CompleteInv, UnderWay, Seds
<1>4. /\ DOMAIN out = 1..Len(out) /\ DOMAIN out' = 1..Len(out) + 1
      /\ \A k \in 1..Len(out) : out'[k] = out[k]
      /\ out'[Len(out) + 1] = asm /\ Len(out) \in Nat
  BY <1>1, <1>2, Appended
<1>5. ASSUME NEW f \in 1..Len(out) + 1
      PROVE  Entire(f, Seds(f), out[f])'
  <2> DEFINE n == Seds(f)
  <2>1. PICK a : out'[f] = a /\ Entire(f, n, a)
    <3>1. CASE f \in 1..Len(out)
      <4>1. out'[f] = out[f] /\ Entire(f, n, out[f])
        BY <1>3, <1>4, <3>1 DEF FilesEntire
      <4> QED BY <4>1
    <3>2. CASE f = Len(out) + 1
      <4>1. out'[f] = asm /\ Entire(f, n, asm)
        BY <1>3, <1>4, <3>2 DEF F
      <4> QED BY <4>1
    <3> QED BY <1>4, <3>1, <3>2
  <2>2. lib' = lib
    BY <1>1
  <2> HIDE DEF n
  <2>3. Entire(f, n, out[f])'
    BY <2>1, <2>2, FileStaysEntire
  <2> QED BY <2>3 DEF n
<1>6. FilesEntire'
  BY <1>4, <1>5 DEF FilesEntire
<1>7. Sheet'
  <2> SUFFICES ASSUME stage' = "disass" PROVE Lists(F, Entries, tmp)'
    BY <1>1 DEF Sheet
  <2>1. PICK f : f = F'
    OBVIOUS
  <2>2. Lists(f, 0, <<>>)
    BY NoEntries
  <2>3. Entries' = 0
    BY <1>1 DEF Entries
  <2>4. tmp' = <<>> /\ lib' = lib
    BY <1>1, <1>2
  <2> QED BY <2>1, <2>2, <2>3, <2>4, ListsStay
<1> QED BY <1>1, <1>3, <1>6, <1>7
       DEF CompleteInv, AllPrinted, UnderWay, Succeeds

(* Entire files link.                                                        *)
LEMMA CompleteLink ==
  ASSUME IInv, CompleteInv, Complete, Link PROVE CompleteInv'
<1>1. /\ stage = "link" /\ status' = IF Links THEN "linked" ELSE "failed"
      /\ UNCHANGED <<build, lib, stage, step, tmp, asm, out>>
  BY DEF Link
<1>2. FilesEntire
  BY DEF CompleteInv
<1>3. /\ build \in Builds /\ lib \in Libraries /\ DOMAIN out = DOMAIN Files
  <2>1. /\ build \in Builds /\ lib \in Libraries /\ IsSequence(out)
        /\ Len(out) = Len(Files) /\ IsSequence(Files)
    BY <1>1, FilesAssumption DEF IInv, Typed
  <2> QED BY <2>1, SequenceFacts
<1>4. Succeeds'
  <2> SUFFICES ASSUME build = "native" PROVE status' /= "failed"
    BY <1>1 DEF Succeeds
  <2>1. \A f \in DOMAIN Files : Entire(f, Seds(f), out[f])
    BY <1>2, <1>3 DEF FilesEntire
  <2>2. Links
    BY <1>3, <2>1, EntireLinks
  <2> QED BY <1>1, <2>2
<1>5. FilesEntire'
  BY <1>1, <1>2, FilesStayEntire
<1> QED BY <1>1, <1>4, <1>5 DEF CompleteInv, Sheet, AllPrinted, UnderWay

(* Every step, and stuttering, keeps it; with an incomplete library there    *)
(* is nothing to keep.                                                       *)
LEMMA CompleteStep == IInv /\ CompleteInv /\ [Next]_vars => CompleteInv'
<1>1. ASSUME IInv, CompleteInv, Complete, UNCHANGED vars
      PROVE  CompleteInv'
  <2>1. UNCHANGED <<build, lib, stage, step, tmp, asm, out, status>>
    BY <1>1 DEF vars
  <2>2. Sheet /\ AllPrinted /\ UnderWay /\ FilesEntire /\ Succeeds
    BY <1>1 DEF CompleteInv
  <2>3. FilesEntire'
    BY <2>1, <2>2, FilesStayEntire
  <2>4. Sheet'
    <3> SUFFICES ASSUME stage \in {"disass", "refine", "post"}
                 PROVE  Lists(F, Entries, tmp)'
      BY <2>1 DEF Sheet
    <3>1. PICK f, n, t : f = F /\ n = Entries /\ t = tmp
      OBVIOUS
    <3>2. Lists(f, n, t)
      BY <2>2, <3>1 DEF Sheet
    <3>3. F' = f /\ tmp' = t /\ lib' = lib
      BY <2>1, <3>1 DEF F
    <3>4. Entries' = n
      BY <2>1, <3>1 DEF Entries, Cur
    <3> QED BY <3>2, <3>3, <3>4, ListsStay
  <2>5. UnderWay'
    <3> SUFFICES ASSUME stage = "sed" PROVE Entire(F, step, asm)'
      BY <2>1 DEF UnderWay
    <3>1. PICK f, n, a : f = F /\ n = step /\ a = asm
      OBVIOUS
    <3>2. Entire(f, n, a)
      BY <2>2, <3>1 DEF UnderWay
    <3>3. F' = f /\ step' = n /\ asm' = a /\ lib' = lib
      BY <2>1, <3>1 DEF F
    <3> QED BY <3>2, <3>3, EntireStays
  <2>6. AllPrinted' /\ Succeeds'
    BY <2>1, <2>2 DEF AllPrinted, Succeeds, Assembly
  <2> QED BY <2>3, <2>4, <2>5, <2>6 DEF CompleteInv
<1>2. ASSUME IInv, CompleteInv, [Next]_vars, ~Complete
      PROVE  CompleteInv'
  <2>1. UNCHANGED <<lib, build>>
    BY <1>2 DEF Next, Disass, StartFile, RefineLine, RefineEnd, Post, Sed,
                NextFile, Link, vars
  <2>2. Complete' <=> Complete
    BY <2>1 DEF Complete, Expected, Addresses, Supplied, Elsewhere, Ours
  <2> QED BY <1>2, <2>2 DEF CompleteInv
<1> QED BY <1>1, <1>2, CompleteDisass, CompleteStartFile, CompleteRefineLine,
           CompleteRefineEnd, CompletePost, CompleteSed, CompleteNextFile,
           CompleteLink DEF Next

(* With lists that are enough for the library, whatever routines they name, *)
(* what names those go by and what is replaced, the native build links (make *)
(* android, over ututna's outputs).                                          *)
THEOREM CompleteNativeLinks ==
  Spec => [](build = "native" => CompleteLinks)
<1>1. CompleteInv => (build = "native" => CompleteLinks)
  BY DEF CompleteInv, Succeeds, CompleteLinks
<1>2. Init => IInv /\ CompleteInv
  BY ExtractInit, CompleteInit
<1>3. IInv /\ CompleteInv /\ [Next]_vars => (IInv /\ CompleteInv)'
  BY ExtractStep, CompleteStep
<1> QED BY <1>1, <1>2, <1>3, PTL DEF Spec

=============================================================================
