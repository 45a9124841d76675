--------------------------- MODULE Refine_proofs ---------------------------
(***************************************************************************)
(* What TLAPS proves about Refine, for any routines, any lists of unsafe   *)
(* and static ones, and any disassembly.                                   *)
(***************************************************************************)
EXTENDS Refine, FiniteSetTheorems, TLAPS

-----------------------------------------------------------------------------
(* The lists.                                                              *)

(* AddNew puts a routine into a list once, and takes none out.             *)
LEMMA AddNewAdds ==
  ASSUME NEW S, NEW seq \in Seq(S), NoRepeat(seq), NEW x \in S
  PROVE  /\ AddNew(seq, x) \in Seq(S)
         /\ NoRepeat(AddNew(seq, x))
         /\ \A y : In(y, AddNew(seq, x)) <=> In(y, seq) \/ y = x
<1>1. CASE In(x, seq)
  BY <1>1 DEF AddNew
<1>2. CASE ~In(x, seq)
  <2> DEFINE all == Append(seq, x)
  <2>1. AddNew(seq, x) = all
    BY <1>2 DEF AddNew
  <2>2. /\ all \in Seq(S)
        /\ DOMAIN all = 1..Len(seq) + 1
        /\ all[Len(seq) + 1] = x
        /\ \A k \in 1..Len(seq) : all[k] = seq[k]
    OBVIOUS
  <2>3. \A k \in 1..Len(seq) : seq[k] /= x
    BY <1>2 DEF In
  <2> HIDE DEF all
  <2>4. NoRepeat(all)
    BY <2>2, <2>3 DEF NoRepeat
  <2>5. \A y : In(y, all) <=> In(y, seq) \/ y = x
    BY <2>2 DEF In
  <2> QED BY <2>1, <2>2, <2>4, <2>5
<1> QED BY <1>1, <1>2

(* The class of a routine, test by test.                                   *)
LEMMA ClassTests ==
  ASSUME NEW s
  PROVE  /\ s \in Unsafe => Class(s) = "unsafe"
         /\ s \notin Unsafe /\ In(s, local_symbols) => Class(s) = "local"
         /\ s \notin Unsafe /\ ~In(s, local_symbols) =>
              Class(s) = IF s \in Static THEN "static" ELSE "other"
  BY Zenon DEF Class

(* The routines with a line of a kind in the output.                       *)
Shown(what) == {out[k].name.sym : k \in {j \in DOMAIN out : out[j].what = what}}

(* What a printed line adds to the output.                                 *)
LEMMA PrintAdds ==
  ASSUME out \in Seq(Output), NEW line \in Output,
         out' = Append(out, line)
  PROVE  /\ out' \in Seq(Output)
         /\ Shown("call")' = Shown("call") \cup
              IF line.what = "call" THEN {line.name.sym} ELSE {}
         /\ Shown("label")' = Shown("label") \cup
              IF line.what = "label" THEN {line.name.sym} ELSE {}
         /\ \A k \in DOMAIN out' : \/ k \in DOMAIN out /\ out'[k] = out[k]
                                   \/ out'[k] = line
<1>1. /\ out' \in Seq(Output)
      /\ DOMAIN out' = 1..Len(out) + 1
      /\ DOMAIN out = 1..Len(out)
      /\ out'[Len(out) + 1] = line
      /\ \A k \in 1..Len(out) : out'[k] = out[k]
  OBVIOUS
<1>2. Shown("call")' = Shown("call") \cup
        IF line.what = "call" THEN {line.name.sym} ELSE {}
  BY <1>1 DEF Shown
<1>3. Shown("label")' = Shown("label") \cup
        IF line.what = "label" THEN {line.name.sym} ELSE {}
  BY <1>1 DEF Shown
<1> QED BY <1>1, <1>2, <1>3

-----------------------------------------------------------------------------
(* The inductive invariant.                                                *)

(* symbols holds the routines called in the output, local_symbols those    *)
(* with a heading in it, a call goes by the name import_sym gives, and the *)
(* report is about the lists as they are at the end.                       *)
ListsMatchOutput ==
  /\ \A s \in Names : In(s, symbols) <=> s \in Shown("call")
  /\ \A s \in Names : In(s, local_symbols) <=> s \in Shown("label")
  /\ \A k \in DOMAIN out : out[k].what = "call" =>
       out[k].name.sym \in Names /\ out[k].name = NewName(out[k].name.sym)
  /\ \A k \in DOMAIN out : out[k].what = "label" => out[k].name.sym \in Names

ReportOfLists ==
  status = "reported" =>
    report = {[class |-> Class(symbols[k]), sym |-> symbols[k]] :
                k \in DOMAIN symbols}

IInv == TypeOK /\ ListsMatchOutput /\ ReportOfLists

(* What a line's kind says of its routine.                                 *)
LEMMA LineTypes ==
  ASSUME NEW l \in Lines
  PROVE  /\ l.kind = "label" \/ IsCall(l) => l.sym \in Names
         /\ NewName(l.sym).sym = l.sym
         /\ Printed("call", NewName(l.sym)) \in
              [what : {"call"}, name : [sym : {l.sym}, prefix : {"", "s_", "o_"}]]
  BY LinesAssumption DEF IsCall, NewName, Printed

LEMMA InitIInv == Init => IInv
<1> SUFFICES ASSUME Init PROVE IInv
  OBVIOUS
<1>1. symbols = <<>> /\ local_symbols = <<>> /\ out = <<>>
  BY DEF Init
<1>2. TypeOK
  BY <1>1, BoundsAssumption DEF Init, TypeOK, NoRepeat
<1>3. ListsMatchOutput
  BY <1>1 DEF ListsMatchOutput, In, Shown
<1> QED BY <1>2, <1>3 DEF Init, IInv, ReportOfLists

LEMMA HeadingStep ==
  ASSUME IInv, status = "reading", NEW l \in Lines, Heading(l)
  PROVE  /\ symbols' \in Seq(Names) /\ NoRepeat(symbols')
         /\ local_symbols' \in Seq(Names) /\ NoRepeat(local_symbols')
         /\ out' \in Seq(Output)
         /\ ListsMatchOutput'
<1> DEFINE line == Printed("label", OwnName(l.sym))
<1>1. l.kind = "label" /\ l.sym \in Names
  BY LineTypes DEF Heading
<1>2. line \in Output /\ line.what = "label" /\ line.name.sym = l.sym
  BY <1>1 DEF Output, Printed, OwnName
<1>3. out' = Append(out, line) /\ out \in Seq(Output)
  BY DEF Heading, IInv, TypeOK
<1> HIDE DEF line
<1>4. /\ out' \in Seq(Output)
      /\ Shown("call")' = Shown("call")
      /\ Shown("label")' = Shown("label") \cup {l.sym}
      /\ \A k \in DOMAIN out' : \/ k \in DOMAIN out /\ out'[k] = out[k]
                                \/ out'[k] = line
  BY <1>2, <1>3, PrintAdds
<1>5. /\ local_symbols' \in Seq(Names) /\ NoRepeat(local_symbols')
      /\ \A y : In(y, local_symbols') <=> In(y, local_symbols) \/ y = l.sym
  BY <1>1, AddNewAdds DEF Heading, IInv, TypeOK
<1>6. /\ symbols' = symbols
      /\ symbols' \in Seq(Names) /\ NoRepeat(symbols')
  BY DEF Heading, IInv, TypeOK
<1>7. ListsMatchOutput'
  <2>1. \A s \in Names : In(s, symbols') <=> s \in Shown("call")'
    BY <1>4, <1>6 DEF IInv, ListsMatchOutput
  <2>2. \A s \in Names : In(s, local_symbols') <=> s \in Shown("label")'
    BY <1>4, <1>5 DEF IInv, ListsMatchOutput
  <2>3. ASSUME NEW k \in DOMAIN out'
        PROVE  /\ out'[k].what = "call" =>
                    /\ out'[k].name.sym \in Names
                    /\ out'[k].name = NewName(out'[k].name.sym)
               /\ out'[k].what = "label" => out'[k].name.sym \in Names
    BY <1>1, <1>2, <1>4 DEF IInv, ListsMatchOutput
  <2> QED BY <2>1, <2>2, <2>3 DEF ListsMatchOutput
<1> QED BY <1>4, <1>5, <1>6, <1>7

LEMMA CallStep ==
  ASSUME IInv, status = "reading", NEW l \in Lines, Call(l)
  PROVE  /\ symbols' \in Seq(Names) /\ NoRepeat(symbols')
         /\ local_symbols' \in Seq(Names) /\ NoRepeat(local_symbols')
         /\ out' \in Seq(Output)
         /\ ListsMatchOutput'
<1> DEFINE line == Printed("call", NewName(l.sym))
<1>1. l.sym \in Names
  BY LineTypes DEF Call
<1>2. /\ line \in Output /\ line.what = "call" /\ line.name.sym = l.sym
      /\ line.name = NewName(l.sym)
  BY <1>1 DEF Output, Printed, NewName
<1>3. out' = Append(out, line) /\ out \in Seq(Output)
  BY DEF Call, IInv, TypeOK
<1> HIDE DEF line
<1>4. /\ out' \in Seq(Output)
      /\ Shown("call")' = Shown("call") \cup {l.sym}
      /\ Shown("label")' = Shown("label")
      /\ \A k \in DOMAIN out' : \/ k \in DOMAIN out /\ out'[k] = out[k]
                                \/ out'[k] = line
  BY <1>2, <1>3, PrintAdds
<1>5. /\ symbols' \in Seq(Names) /\ NoRepeat(symbols')
      /\ \A y : In(y, symbols') <=> In(y, symbols) \/ y = l.sym
  BY <1>1, AddNewAdds DEF Call, IInv, TypeOK
<1>6. /\ local_symbols' = local_symbols
      /\ local_symbols' \in Seq(Names) /\ NoRepeat(local_symbols')
  BY DEF Call, IInv, TypeOK
<1>7. ListsMatchOutput'
  <2>1. \A s \in Names : In(s, symbols') <=> s \in Shown("call")'
    BY <1>4, <1>5 DEF IInv, ListsMatchOutput
  <2>2. \A s \in Names : In(s, local_symbols') <=> s \in Shown("label")'
    BY <1>4, <1>6 DEF IInv, ListsMatchOutput
  <2>3. ASSUME NEW k \in DOMAIN out'
        PROVE  /\ out'[k].what = "call" =>
                    /\ out'[k].name.sym \in Names
                    /\ out'[k].name = NewName(out'[k].name.sym)
               /\ out'[k].what = "label" => out'[k].name.sym \in Names
    BY <1>1, <1>2, <1>4 DEF IInv, ListsMatchOutput
  <2> QED BY <2>1, <2>2, <2>3 DEF ListsMatchOutput
<1> QED BY <1>4, <1>5, <1>6, <1>7

LEMMA OtherStep ==
  ASSUME IInv, status = "reading", NEW l \in Lines, Other(l)
  PROVE  /\ symbols' \in Seq(Names) /\ NoRepeat(symbols')
         /\ local_symbols' \in Seq(Names) /\ NoRepeat(local_symbols')
         /\ out' \in Seq(Output)
         /\ ListsMatchOutput'
<1>1. /\ symbols' = symbols /\ local_symbols' = local_symbols
      /\ symbols \in Seq(Names) /\ NoRepeat(symbols)
      /\ local_symbols \in Seq(Names) /\ NoRepeat(local_symbols)
      /\ out \in Seq(Output)
  BY DEF Other, IInv, TypeOK
<1>2. CASE out' = out
  BY <1>1, <1>2 DEF IInv, ListsMatchOutput, Shown
<1>3. ASSUME NEW what \in {"inner", "page", "plain"},
             out' = Append(out, Printed(what, NoName))
      PROVE  out' \in Seq(Output) /\ ListsMatchOutput'
  <2> DEFINE line == Printed(what, NoName)
  <2>1. line \in Output /\ line.what = what
    BY DEF Output, Printed, NoName, OwnName
  <2>2. out' = Append(out, line)
    BY <1>3
  <2> HIDE DEF line
  <2>3. /\ out' \in Seq(Output)
        /\ Shown("call")' = Shown("call")
        /\ Shown("label")' = Shown("label")
        /\ \A k \in DOMAIN out' : \/ k \in DOMAIN out /\ out'[k] = out[k]
                                  \/ out'[k] = line
    BY <1>1, <2>1, <2>2, PrintAdds
  <2>4. \A k \in DOMAIN out' :
          out'[k].what \in {"call", "label"} => k \in DOMAIN out
                                                /\ out'[k] = out[k]
    BY <2>1, <2>3
  <2> QED BY <1>1, <2>3, <2>4 DEF IInv, ListsMatchOutput
<1> QED BY <1>1, <1>2, <1>3 DEF Other

LEMMA NextIInv == IInv /\ [Next]_vars => IInv'
<1> SUFFICES ASSUME IInv, [Next]_vars PROVE IInv'
  OBVIOUS
<1>1. CASE ReadLine
  <2> PICK l \in Lines : Heading(l) \/ Call(l) \/ Other(l) \/ Refuse(l)
    BY <1>1 DEF ReadLine
  <2>1. /\ status = "reading" /\ status' \in {"reading", "refused"}
        /\ read' \in 0..MaxLines /\ report' = report
    BY <1>1, BoundsAssumption
       DEF ReadLine, Heading, Call, Other, Refuse, IInv, TypeOK
  <2>2. /\ symbols' \in Seq(Names) /\ NoRepeat(symbols')
        /\ local_symbols' \in Seq(Names) /\ NoRepeat(local_symbols')
        /\ out' \in Seq(Output)
        /\ ListsMatchOutput'
    <3>1. CASE Refuse(l)
      BY <3>1 DEF Refuse, IInv, TypeOK, ListsMatchOutput, Shown
    <3> QED BY <2>1, <3>1, HeadingStep, CallStep, OtherStep
  <2>3. TypeOK'
    BY <2>1, <2>2 DEF IInv, TypeOK
  <2> QED BY <2>1, <2>2, <2>3 DEF IInv, ReportOfLists
<1>2. CASE Report
  <2>1. UNCHANGED <<symbols, local_symbols, out, read>> /\ status' = "reported"
    BY <1>2 DEF Report
  <2>2. ASSUME NEW s PROVE Class(s)' = Class(s)
    <3>1. local_symbols' = local_symbols
      BY <2>1
    <3> QED BY <3>1, Zenon DEF Class, In
  <2>3. ReportOfLists'
    BY <1>2, <2>1, <2>2 DEF Report, ReportOfLists
  <2>4. report' \subseteq [sym : Names,
                           class : {"unsafe", "local", "static", "other"}]
    <3>1. \A s : Class(s) \in {"unsafe", "local", "static", "other"}
      BY ClassTests
    <3>2. \A k \in DOMAIN symbols : symbols[k] \in Names
      BY DEF IInv, TypeOK
    <3> QED BY <1>2, <3>1, <3>2 DEF Report
  <2>5. TypeOK'
    BY <2>1, <2>4 DEF IInv, TypeOK
  <2>6. ListsMatchOutput'
    BY <2>1 DEF IInv, ListsMatchOutput, Shown
  <2> QED BY <2>3, <2>5, <2>6 DEF IInv
<1>3. CASE UNCHANGED vars
  BY <1>3 DEF vars, IInv, TypeOK, ListsMatchOutput, ReportOfLists, Shown, Class
<1> QED BY <1>1, <1>2, <1>3 DEF Next

(* Neither list of routines ever holds one twice.                          *)
THEOREM Typing == Spec => []TypeOK
<1>1. IInv => TypeOK
  BY DEF IInv
<1> QED BY <1>1, InitIInv, NextIInv, PTL DEF Spec

-----------------------------------------------------------------------------
(* The report.                                                             *)

(* Every routine called is in the report with its class, and no other.     *)
LEMMA ReportHolds ==
  ASSUME IInv, status = "reported", NEW class
  PROVE  Reported(class) = {s \in Shown("call") : Class(s) = class}
<1>1. symbols \in Seq(Names) /\ Shown("call") \subseteq Names
  BY DEF IInv, TypeOK, ListsMatchOutput, Shown
<1>2. \A s \in Names : (\E k \in DOMAIN symbols : symbols[k] = s)
                       <=> s \in Shown("call")
  BY DEF IInv, ListsMatchOutput, In
<1>3. report = {[class |-> Class(symbols[k]), sym |-> symbols[k]] :
                  k \in DOMAIN symbols}
  BY DEF IInv, ReportOfLists
<1>4. \A s : s \in Reported(class) <=>
               \E k \in DOMAIN symbols : symbols[k] = s /\ Class(s) = class
  <2>1. ASSUME NEW s
        PROVE  s \in Reported(class) <=>
                 \E r \in report : r.class = class /\ r.sym = s
    BY DEF Reported
  <2>2. ASSUME NEW s
        PROVE  (\E r \in report : r.class = class /\ r.sym = s) <=>
                 \E k \in DOMAIN symbols : symbols[k] = s /\ Class(s) = class
    <3> DEFINE Entry(k) == [class |-> Class(symbols[k]), sym |-> symbols[k]]
    <3>1. \A r : r \in report <=> \E k \in DOMAIN symbols : r = Entry(k)
      BY <1>3, Zenon
    <3>2. \A k : Entry(k).class = Class(symbols[k]) /\ Entry(k).sym = symbols[k]
      OBVIOUS
    <3> HIDE DEF Entry
    <3> QED BY <3>1, <3>2
  <2> QED BY <2>1, <2>2
<1>5. \A k \in DOMAIN symbols : symbols[k] \in Names
  BY <1>1
<1> QED BY <1>1, <1>2, <1>4, <1>5

(* A list without repetition has as many routines as places.               *)
LEMMA ReportSize ==
  ASSUME IInv, status = "reported"
  PROVE  Cardinality(report) = Len(symbols)
<1> DEFINE Entry(k) == [class |-> Class(symbols[k]), sym |-> symbols[k]]
           f == [k \in 1..Len(symbols) |-> Entry(k)]
<1>1. symbols \in Seq(Names) /\ NoRepeat(symbols)
  BY DEF IInv, TypeOK
<1>2. report = {Entry(k) : k \in 1..Len(symbols)}
  BY <1>1 DEF IInv, ReportOfLists
<1>3. f \in Injection(1..Len(symbols), report)
  BY <1>1, <1>2 DEF Injection, IsInjective, NoRepeat
<1>4. f \in Surjection(1..Len(symbols), report)
  BY <1>2 DEF Surjection
<1>5. ExistsBijection(1..Len(symbols), report)
  BY <1>3, <1>4 DEF ExistsBijection, Bijection
<1> QED BY <1>1, <1>5, FS_CountingElements

LEMMA IInvTruthful == IInv => ReportTruthful
<1> SUFFICES ASSUME IInv, status = "reported"
             PROVE  /\ Reported("other") = CalledAs("") \ Headings
                    /\ Reported("unsafe") = CalledAs("o_")
                    /\ Reported("static") = CalledAs("s_") \ Headings
                    /\ Reported("local") =
                         (CalledAs("") \cup CalledAs("s_")) \cap Headings
                    /\ Cardinality(report) = Len(symbols)
  BY DEF ReportTruthful
<1>1. Headings = Shown("label")
  BY DEF Headings, Shown
<1>2. \A prefix : CalledAs(prefix) =
                    {s \in Shown("call") : NewName(s).prefix = prefix}
  BY DEF CalledAs, Shown, IInv, ListsMatchOutput
<1>3. \A s \in Shown("call") : s \in Names
  BY DEF Shown, IInv, ListsMatchOutput
<1>4. \A s \in Names : In(s, local_symbols) <=> s \in Shown("label")
  BY DEF IInv, ListsMatchOutput
<1>5. \A s \in Shown("call") :
        /\ Class(s) = "unsafe" <=> NewName(s).prefix = "o_"
        /\ Class(s) = "static" <=> NewName(s).prefix = "s_"
                                   /\ s \notin Shown("label")
        /\ Class(s) = "other" <=> NewName(s).prefix = ""
                                  /\ s \notin Shown("label")
        /\ Class(s) = "local" <=> NewName(s).prefix \in {"", "s_"}
                                  /\ s \in Shown("label")
  BY <1>3, <1>4, ClassTests DEF NewName
<1>6. \A class : Reported(class) = {s \in Shown("call") : Class(s) = class}
  BY ReportHolds
<1>7. Reported("other") = CalledAs("") \ Headings
  BY <1>1, <1>2, <1>5, <1>6
<1>8. Reported("unsafe") = CalledAs("o_")
  BY <1>2, <1>5, <1>6
<1>9. Reported("static") = CalledAs("s_") \ Headings
  BY <1>1, <1>2, <1>5, <1>6
<1>10. Reported("local") = (CalledAs("") \cup CalledAs("s_")) \cap Headings
  BY <1>1, <1>2, <1>5, <1>6
<1> QED BY <1>7, <1>8, <1>9, <1>10, ReportSize

(* The report of refine.py says where every call it printed goes, also of  *)
(* a routine whose heading comes after the call, and says it once.         *)
THEOREM ReportsTruth == Spec => []ReportTruthful
<1> QED BY InitIInv, NextIInv, IInvTruthful, PTL DEF Spec
=============================================================================
