------------------------ MODULE PerfCounters_proofs ------------------------
(***************************************************************************)
(* What TLAPS proves about PerfCounters, for any number of counters, any   *)
(* length of the buffers, any options and any counts.                      *)
(***************************************************************************)
EXTENDS PerfCounters, SequenceTheorems, TLAPS

-----------------------------------------------------------------------------
(* The group.                                                              *)

(* The stronger fact behind GroupIsComplete: descriptors are handed out in *)
(* order from 3, and 3 leads them all.                                     *)
GroupInOrder(g) ==
  /\ g.n = Len(g.members)
  /\ g.fd = IF g.n = 0 THEN -1 ELSE 3
  /\ \A i \in 1..g.n : g.members[i].fd = i + 2 /\ g.members[i].leader = 3

Groups == [fd : Nat \cup {-1}, n : Nat, members : Seq(Member)]

(* perf_open keeps the group in order, whatever it opens: the first        *)
(* descriptor is kept and every later event joins it.                      *)
LEMMA OpenKeepsOrder ==
  ASSUME NEW g \in Groups, GroupInOrder(g),
         NEW event, event \in EventTypes \X {o[2] : o \in Options} \cup
                             {Raw(k) : k \in {3, 4, 8, 17, 22, 23}}
  PROVE  /\ Open(g, event) \in Groups
         /\ GroupInOrder(Open(g, event))
         /\ Open(g, event).n = g.n + 1
         /\ Open(g, event).members[g.n + 1].event = event
         /\ \A i \in 1..g.n : Open(g, event).members[i] = g.members[i]
<1> DEFINE ret == FreshFd(g)
           m == [fd |-> ret, event |-> event,
                 leader |-> IF g.fd = -1 THEN ret ELSE g.fd]
           all == Append(g.members, m)
<1>1. g.n \in Nat /\ ret = g.n + 3 /\ ret \in Nat
  BY DEF FreshFd, GroupInOrder, Groups
<1>2. m \in Member /\ m.fd = ret /\ m.leader = 3 /\ m.event = event
  BY <1>1 DEF Member, GroupInOrder, Groups
<1>3. Open(g, event) = [fd |-> IF g.fd = -1 THEN ret ELSE g.fd,
                        n |-> g.n + 1, members |-> all]
  BY DEF Open, NextFd
<1> HIDE DEF ret, m
<1>4. /\ all \in Seq(Member)
      /\ Len(all) = g.n + 1
      /\ all[g.n + 1] = m
      /\ \A i \in 1..g.n : all[i] = g.members[i]
  BY <1>2 DEF Groups, GroupInOrder
<1> HIDE DEF all
<1>5. Open(g, event) \in Groups
  BY <1>1, <1>3, <1>4 DEF Groups
<1>6. GroupInOrder(Open(g, event))
  <2>1. Open(g, event).fd = 3
    BY <1>1, <1>3 DEF GroupInOrder, Groups
  <2>2. \A i \in 1..(g.n + 1) : /\ all[i].fd = i + 2
                                /\ all[i].leader = 3
    <3> SUFFICES ASSUME NEW i \in 1..(g.n + 1)
                 PROVE  /\ all[i].fd = i + 2
                        /\ all[i].leader = 3
      OBVIOUS
    <3>1. CASE i = g.n + 1
      BY <3>1, <1>1, <1>2, <1>4
    <3>2. CASE i \in 1..g.n
      BY <3>2, <1>4 DEF GroupInOrder
    <3> QED BY <1>1, <3>1, <3>2
  <2>3. Open(g, event).n = g.n + 1 /\ Open(g, event).members = all
    BY <1>3
  <2>4. Open(g, event).n = Len(all) /\ g.n + 1 /= 0
    BY <1>1, <1>4, <2>3
  <2> QED BY <2>1, <2>2, <2>3, <2>4 DEF GroupInOrder
<1> QED BY <1>2, <1>3, <1>4, <1>5, <1>6

(* A group in order is complete: one read of fd returns all of it.         *)
LEMMA OrderIsComplete ==
  ASSUME NEW g \in Groups, GroupInOrder(g)
  PROVE  Group(g) = 1..g.n
<1>1. DOMAIN g.members = 1..g.n
  BY DEF Groups, GroupInOrder
<1>2. CASE g.n = 0
  BY <1>1, <1>2 DEF Group
<1>3. CASE g.n /= 0
  <2>1. 1 \in 1..g.n /\ g.members[1].fd = g.fd /\ g.members[1].leader = 3
    BY <1>3 DEF Groups, GroupInOrder
  <2>2. \A i \in 1..g.n : g.members[i].leader = 3
    BY DEF GroupInOrder
  <2> QED BY <1>1, <2>1, <2>2 DEF Group
<1> QED BY <1>2, <1>3

-----------------------------------------------------------------------------
(* The inductive invariant.                                                *)

(* Slots of no counter are zero; the second reading of a window is at      *)
(* least the first, and so is what the group counts while one is open.     *)
ReadingsGrow ==
  /\ \A i \in Slots : i > grp.n =>
       count[i] = 0 /\ counters_begin[i] = 0 /\ counters_end[i] = 0
  /\ phase = "reset" => grp.n /= 0
  /\ phase \in {"options", "idle", "reset"} =>
       \A i \in Slots : counters_end[i] >= counters_begin[i]
  /\ phase = "open" => \A i \in Slots : count[i] >= counters_begin[i]

IInv == /\ TypeOK
        /\ GroupInOrder(grp)
        /\ RatioBelongsToPair
        /\ ReadingsGrow

LEMMA GroupTypes == ASSUME TypeOK PROVE grp \in Groups /\ grp.n \in Nat
  BY SizesAssumption DEF TypeOK, Groups

(* What the group reads and resets is slots 1 to n.                        *)
LEMMA GroupSlots ==
  ASSUME IInv
  PROVE  /\ Group(grp) = 1..grp.n
         /\ ReadSlots = 1..grp.n
         /\ 1..grp.n \subseteq Slots
<1>1. grp \in Groups /\ GroupInOrder(grp) /\ grp.n \in 0..MAX_COUNTERS
  BY GroupTypes DEF IInv, TypeOK
<1>2. Group(grp) = 1..grp.n
  BY <1>1, OrderIsComplete
<1> QED BY <1>1, <1>2, SizesAssumption DEF ReadSlots, Slots

LEMMA InitInvariant == Init => IInv
<1> SUFFICES ASSUME Init PROVE IInv
  OBVIOUS
<1> USE DEF Init
<1>1. grp.members \in Seq(Member) /\ Len(grp.members) = 0
  OBVIOUS
<1>2. TypeOK
  <2>1. Zeroed \in [Slots -> {0, 1, 100}] /\ Zeroed \in [Slots -> Nat]
    BY DEF Zeroed
  <2>2. grp \in [fd : Nat \cup {-1}, n : 0..MAX_COUNTERS, members : Seq(Member)]
    BY <1>1, SizesAssumption
  <2>3. unread \in Nat /\ phase \in Phases
    BY BoundsAssumption DEF Phases
  <2> QED BY <2>1, <2>2, <2>3 DEF TypeOK
<1>3. GroupInOrder(grp)
  BY DEF GroupInOrder
<1>4. RatioBelongsToPair
  BY DEF RatioBelongsToPair, Zeroed
<1>5. ReadingsGrow
  BY DEF ReadingsGrow, Zeroed, Slots
<1> QED BY <1>2, <1>3, <1>4, <1>5 DEF IInv

(* Events a supported pair opens.                                          *)
LEMMA PairEvents ==
  ASSUME NEW code \in DOMAIN Predefined
  PROVE  /\ Predefined[code].num \in {Raw(k) : k \in {3, 4, 8, 17, 22, 23}}
         /\ Predefined[code].den \in {Raw(k) : k \in {3, 4, 8, 17, 22, 23}}
         /\ Predefined[code].scale \in {1, 100}
<1>1. code \in 0..2
  BY DEF Predefined
<1>2. CASE code = 0
  BY <1>2 DEF Predefined
<1>3. CASE code = 1
  BY <1>3 DEF Predefined
<1>4. CASE code = 2
  BY <1>4 DEF Predefined
<1> QED BY <1>1, <1>2, <1>3, <1>4

Events == EventTypes \X {o[2] : o \in Options} \cup
            {Raw(k) : k \in {3, 4, 8, 17, 22, 23}}

(* A pair option puts its two events and its factor in adjacent slots.     *)
LEMMA PairOpened ==
  ASSUME IInv, NEW code, ConfigPair(code)
  PROVE  LET p == Predefined[code] IN
         /\ code \in DOMAIN Predefined
         /\ p.num \in Events /\ p.den \in Events /\ p.scale \in {1, 100}
         /\ grp.n + 2 <= MAX_COUNTERS
         /\ ratios' = [ratios EXCEPT ![grp.n + 2] = p.scale]
         /\ grp' \in Groups /\ GroupInOrder(grp')
         /\ grp'.n = grp.n + 2
         /\ grp'.members[grp.n + 1].event = p.num
         /\ grp'.members[grp.n + 2].event = p.den
         /\ \A i \in 1..grp.n : grp'.members[i] = grp.members[i]
<1> DEFINE p == Predefined[code]
           g1 == Open(grp, p.num)
           g2 == Open(g1, p.den)
<1>1. /\ code \in DOMAIN Predefined
      /\ grp.n + 2 <= MAX_COUNTERS
      /\ ratios' = [ratios EXCEPT ![grp.n + 2] = p.scale]
      /\ grp' = g2
  BY DEF ConfigPair, HasRoom, RatioSlot
<1>2. grp \in Groups /\ GroupInOrder(grp) /\ grp.n \in Nat
  BY GroupTypes DEF IInv
<1>3. p.num \in Events /\ p.den \in Events /\ p.scale \in {1, 100}
  BY <1>1, PairEvents DEF Events
<1> HIDE DEF p
<1>4. /\ g1 \in Groups /\ GroupInOrder(g1) /\ g1.n = grp.n + 1
      /\ g1.members[grp.n + 1].event = p.num
      /\ \A i \in 1..grp.n : g1.members[i] = grp.members[i]
  BY <1>2, <1>3, OpenKeepsOrder DEF Events
<1> HIDE DEF g1
<1>5. /\ g2 \in Groups /\ GroupInOrder(g2) /\ g2.n = g1.n + 1
      /\ g2.members[g1.n + 1].event = p.den
      /\ \A i \in 1..g1.n : g2.members[i] = g1.members[i]
  BY <1>3, <1>4, OpenKeepsOrder DEF Events
<1> HIDE DEF g2
<1>6. /\ grp'.n = grp.n + 2
      /\ grp'.members[grp.n + 1].event = p.num
      /\ grp'.members[grp.n + 2].event = p.den
      /\ \A i \in 1..grp.n : grp'.members[i] = grp.members[i]
  BY <1>1, <1>2, <1>4, <1>5
<1> QED BY <1>1, <1>3, <1>5, <1>6 DEF p

LEMMA ConfigPairInvariant ==
  ASSUME IInv, NEW code, ConfigPair(code)
  PROVE  IInv'
<1> DEFINE p == Predefined[code]
<1>1. /\ code \in DOMAIN Predefined
      /\ grp.n + 2 <= MAX_COUNTERS
      /\ ratios' = [ratios EXCEPT ![grp.n + 2] = p.scale]
      /\ unread > 0 /\ unread' = unread - 1
      /\ UNCHANGED <<counters_begin, counters_end, counters_valid, count,
                     enabled, phase>>
  BY DEF ConfigPair, HasRoom, RatioSlot, NextOption, Untouched
<1>2. grp \in Groups /\ GroupInOrder(grp) /\ grp.n \in Nat
  BY GroupTypes DEF IInv
<1>3. p.scale \in {1, 100}
  BY PairOpened
<1>5. grp' \in Groups /\ GroupInOrder(grp')
  BY PairOpened
<1>6. /\ grp'.n = grp.n + 2
      /\ grp'.members[grp.n + 1].event = p.num
      /\ grp'.members[grp.n + 2].event = p.den
      /\ \A i \in 1..grp.n : grp'.members[i] = grp.members[i]
  BY PairOpened
<1> HIDE DEF p
<1>7. TypeOK'
  <2>1. grp' \in [fd : Nat \cup {-1}, n : 0..MAX_COUNTERS,
                  members : Seq(Member)]
    BY <1>1, <1>2, <1>5, <1>6, SizesAssumption DEF Groups
  <2>2. ratios' \in [Slots -> {0, 1, 100}]
    BY <1>1, <1>3 DEF IInv, TypeOK
  <2> QED BY <1>1, <2>1, <2>2 DEF IInv, TypeOK
<1>8. GroupInOrder(grp')
  BY <1>1, <1>5
<1>9. RatioBelongsToPair'
  <2> SUFFICES ASSUME NEW i \in Slots, ratios'[i] /= 0
               PROVE  \E c \in DOMAIN Predefined :
                        /\ i \in 2..grp'.n
                        /\ grp'.members[i - 1].event = Predefined[c].num
                        /\ grp'.members[i].event = Predefined[c].den
                        /\ ratios'[i] = Predefined[c].scale
    BY DEF RatioBelongsToPair, Slots
  <2>1. CASE i = grp.n + 2
    <3>1. ratios'[i] = p.scale /\ i - 1 = grp.n + 1 /\ i \in 2..grp'.n
      BY <2>1, <1>1, <1>2, <1>6 DEF IInv, TypeOK
    <3> QED BY <2>1, <3>1, <1>1, <1>6 DEF p
  <2>2. CASE i /= grp.n + 2
    <3>1. ratios'[i] = ratios[i]
      BY <2>2, <1>1 DEF IInv, TypeOK
    <3>2. PICK c \in DOMAIN Predefined :
                 /\ i \in 2..grp.n
                 /\ grp.members[i - 1].event = Predefined[c].num
                 /\ grp.members[i].event = Predefined[c].den
                 /\ ratios[i] = Predefined[c].scale
      BY <3>1 DEF IInv, RatioBelongsToPair
    <3>3. i \in 2..grp'.n /\ i - 1 \in 1..grp.n /\ i \in 1..grp.n
      BY <3>2, <1>2, <1>6
    <3> QED BY <3>1, <3>2, <3>3, <1>6
  <2> QED BY <2>1, <2>2
<1>10. ReadingsGrow'
  BY <1>1, <1>2, <1>6, SizesAssumption
  DEF IInv, ReadingsGrow, NextOption, ConfigPair, Slots
<1> QED BY <1>1, <1>7, <1>8, <1>9, <1>10 DEF IInv

(* A single option appends one event and leaves the factors alone.         *)
LEMMA SingleOpened ==
  ASSUME IInv, NEW o \in Options, ConfigSingle(o[1], o[2])
  PROVE  LET event == <<EventType(o[1]), o[2]>> IN
         /\ event \in Events
         /\ grp.n + 1 <= MAX_COUNTERS
         /\ grp' \in Groups /\ GroupInOrder(grp')
         /\ grp'.n = grp.n + 1
         /\ grp'.members[grp.n + 1].event = event
         /\ \A i \in 1..grp.n : grp'.members[i] = grp.members[i]
<1> DEFINE event == <<EventType(o[1]), o[2]>>
<1>1. grp' = Open(grp, event) /\ grp.n + 1 <= MAX_COUNTERS
  BY DEF ConfigSingle, HasRoom
<1>2. grp \in Groups /\ GroupInOrder(grp)
  BY GroupTypes DEF IInv
<1>3. event \in Events
  BY DEF EventType, EventTypes, Events
<1> HIDE DEF event
<1>4. /\ Open(grp, event) \in Groups /\ GroupInOrder(Open(grp, event))
      /\ Open(grp, event).n = grp.n + 1
      /\ Open(grp, event).members[grp.n + 1].event = event
      /\ \A i \in 1..grp.n : Open(grp, event).members[i] = grp.members[i]
  BY <1>2, <1>3, OpenKeepsOrder DEF Events
<1> QED BY <1>1, <1>3, <1>4 DEF event

LEMMA ConfigSingleInvariant ==
  ASSUME IInv, NEW o \in Options, ConfigSingle(o[1], o[2])
  PROVE  IInv'
<1>1. /\ grp.n + 1 <= MAX_COUNTERS
      /\ unread > 0 /\ unread' = unread - 1
      /\ UNCHANGED <<counters_begin, counters_end, counters_valid, count,
                     enabled, ratios, phase>>
  BY DEF ConfigSingle, HasRoom, NextOption, Untouched
<1>2. grp \in Groups /\ grp.n \in Nat
  BY GroupTypes DEF IInv
<1>4. /\ grp' \in Groups /\ GroupInOrder(grp') /\ grp'.n = grp.n + 1
      /\ \A i \in 1..grp.n : grp'.members[i] = grp.members[i]
  BY SingleOpened
<1>5. TypeOK'
  <2>1. grp' \in [fd : Nat \cup {-1}, n : 0..MAX_COUNTERS,
                  members : Seq(Member)]
    BY <1>1, <1>2, <1>4, SizesAssumption DEF Groups
  <2> QED BY <1>1, <2>1 DEF IInv, TypeOK
<1>6. GroupInOrder(grp')
  BY <1>1, <1>4
<1>7. RatioBelongsToPair'
  <2> SUFFICES ASSUME NEW i \in Slots, ratios'[i] /= 0
               PROVE  \E c \in DOMAIN Predefined :
                        /\ i \in 2..grp'.n
                        /\ grp'.members[i - 1].event = Predefined[c].num
                        /\ grp'.members[i].event = Predefined[c].den
                        /\ ratios'[i] = Predefined[c].scale
    BY DEF RatioBelongsToPair, Slots
  <2>1. PICK c \in DOMAIN Predefined :
               /\ i \in 2..grp.n
               /\ grp.members[i - 1].event = Predefined[c].num
               /\ grp.members[i].event = Predefined[c].den
               /\ ratios[i] = Predefined[c].scale
    BY <1>1 DEF IInv, RatioBelongsToPair
  <2>2. i \in 2..grp'.n /\ i - 1 \in 1..grp.n /\ i \in 1..grp.n
    BY <2>1, <1>1, <1>2, <1>4
  <2> QED BY <2>1, <2>2, <1>1, <1>4
<1>8. ReadingsGrow'
  BY <1>1, <1>2, <1>4, SizesAssumption DEF IInv, ReadingsGrow, Slots
<1> QED BY <1>5, <1>6, <1>7, <1>8 DEF IInv

(* Once the group is configured only readings, counts and the phase change.*)
LEMMA ConfiguredInvariant ==
  ASSUME IInv, UNCHANGED <<grp, ratios>>, TypeOK', ReadingsGrow'
  PROVE  IInv'
BY DEF IInv, GroupInOrder, RatioBelongsToPair

LEMMA StepInvariant == IInv /\ [Next]_vars => IInv'
<1> SUFFICES ASSUME IInv, [Next]_vars PROVE IInv'
  OBVIOUS
<1> USE DEF config, buffers
<1>0. /\ TypeOK /\ ReadingsGrow /\ grp.n \in Nat
      /\ Group(grp) = 1..grp.n /\ ReadSlots = 1..grp.n
      /\ 1..grp.n \subseteq Slots
  BY GroupTypes, GroupSlots DEF IInv
<1>1. ASSUME NEW o \in Options, PerfConfig(o[1], o[2]) PROVE IInv'
  <2>1. CASE o[1] = "i" /\ ConfigPair(o[2])
    BY <2>1, ConfigPairInvariant
  <2>2. CASE ConfigSingle(o[1], o[2])
    BY <2>2, ConfigSingleInvariant
  <2>3. CASE ConfigDropped(o[1], o[2]) \/ ConfigRefused(o[1], o[2])
    <3>1. /\ UNCHANGED <<grp, ratios, counters_begin, counters_end,
                         counters_valid, count, enabled>>
          /\ unread > 0 /\ unread' = unread - 1
          /\ phase = "options" /\ phase' \in {"options", "exited"}
      BY <2>3 DEF ConfigDropped, ConfigRefused, NextOption, Untouched
    <3>2. TypeOK'
      BY <1>0, <3>1 DEF TypeOK, Phases
    <3>3. ReadingsGrow'
      BY <1>0, <3>1 DEF ReadingsGrow
    <3> QED BY <3>1, <3>2, <3>3, ConfiguredInvariant
  <2> QED BY <1>1, <2>1, <2>2, <2>3 DEF PerfConfig
<1>2. CASE PerfInit
  <2>1. TypeOK'
    BY <1>0, <1>2 DEF PerfInit, TypeOK, Phases
  <2>2. ReadingsGrow'
    BY <1>0, <1>2 DEF PerfInit, ReadingsGrow
  <2> QED BY <1>2, <2>1, <2>2, ConfiguredInvariant DEF PerfInit
<1>3. CASE Work
  <2>1. PICK d \in [1..grp.n -> 0..MaxCount] :
               count' = [i \in Slots |-> IF i \in 1..grp.n
                                         THEN count[i] + d[i] ELSE count[i]]
    BY <1>0, <1>3 DEF Work
  <2>2. \A i \in Slots : count'[i] \in Nat /\ count'[i] >= count[i]
    BY <1>0, <2>1, BoundsAssumption DEF TypeOK
  <2>3. count' \in [Slots -> Nat]
    BY <2>1, <2>2
  <2>4. TypeOK'
    BY <1>0, <1>3, <2>3 DEF Work, TypeOK
  <2>5. ReadingsGrow'
    <3>1. \A i \in Slots : i > grp.n => count'[i] = count[i]
      BY <1>0, <2>1 DEF Slots
    <3> QED BY <1>0, <1>3, <2>2, <3>1 DEF Work, ReadingsGrow, TypeOK
  <2> QED BY <1>3, <2>4, <2>5, ConfiguredInvariant DEF Work
<1>4. CASE PerfBeginReset
  <2>1. count' = [i \in Slots |-> IF i \in 1..grp.n THEN 0 ELSE count[i]]
    BY <1>0, <1>4 DEF PerfBeginReset
  <2>2. TypeOK'
    BY <1>0, <1>4, <2>1 DEF PerfBeginReset, TypeOK, Phases
  <2>3. ReadingsGrow'
    BY <1>0, <1>4, <2>1 DEF PerfBeginReset, ReadingsGrow
  <2> QED BY <1>4, <2>2, <2>3, ConfiguredInvariant DEF PerfBeginReset
<1>5. CASE PerfBeginRead
  <2>1. counters_begin' = [i \in Slots |-> IF i \in 1..grp.n THEN count[i]
                                                        ELSE counters_begin[i]]
    BY <1>0, <1>5 DEF PerfBeginRead, Reading
  <2>2. TypeOK'
    BY <1>0, <1>5, <2>1 DEF PerfBeginRead, TypeOK, Phases
  <2>3. ReadingsGrow'
    <3>1. \A i \in Slots : count[i] \in Nat /\ counters_begin'[i] = count[i]
      BY <1>0, <2>1 DEF ReadingsGrow, TypeOK, Slots
    <3> QED BY <1>0, <1>5, <3>1 DEF PerfBeginRead, ReadingsGrow
  <2> QED BY <1>5, <2>2, <2>3, ConfiguredInvariant DEF PerfBeginRead
<1>6. CASE PerfBeginNothing
  <2>1. TypeOK'
    BY <1>0, <1>6 DEF PerfBeginNothing, TypeOK, Phases
  <2>2. ReadingsGrow'
    BY <1>0, <1>6 DEF PerfBeginNothing, ReadingsGrow, Slots
  <2> QED BY <1>6, <2>1, <2>2, ConfiguredInvariant DEF PerfBeginNothing
<1>7. CASE PerfEnd
  <2>1. CASE grp.n = 0
    <3>1. TypeOK'
      BY <1>0, <1>7, <2>1 DEF PerfEnd, TypeOK, Phases
    <3>2. ReadingsGrow'
      BY <1>0, <1>7, <2>1 DEF PerfEnd, ReadingsGrow, Slots
    <3> QED BY <1>7, <3>1, <3>2, ConfiguredInvariant DEF PerfEnd
  <2>2. CASE grp.n /= 0
    <3>1. counters_end' = [i \in Slots |-> IF i \in 1..grp.n THEN count[i]
                                                         ELSE counters_end[i]]
      BY <1>0, <1>7, <2>2 DEF PerfEnd, Reading
    <3>2. TypeOK'
      BY <1>0, <1>7, <2>2, <3>1 DEF PerfEnd, TypeOK, Phases
    <3>3. ReadingsGrow'
      BY <1>0, <1>7, <2>2, <3>1 DEF PerfEnd, ReadingsGrow, TypeOK, Slots
    <3> QED BY <1>7, <3>2, <3>3, ConfiguredInvariant DEF PerfEnd
  <2> QED BY <2>1, <2>2
<1>8. CASE Overrun
  <2>1. TypeOK'
    BY <1>0, <1>8 DEF Overrun, TypeOK, Phases
  <2>2. ReadingsGrow'
    BY <1>0, <1>8 DEF Overrun, ReadingsGrow
  <2> QED BY <1>8, <2>1, <2>2, ConfiguredInvariant DEF Overrun
<1>9. CASE PerfPrint
  <2>1. TypeOK'
    BY <1>0, <1>9 DEF PerfPrint, TypeOK
  <2>2. ReadingsGrow'
    BY <1>0, <1>9 DEF PerfPrint, ReadingsGrow
  <2> QED BY <1>9, <2>1, <2>2, ConfiguredInvariant DEF PerfPrint
<1>10. CASE UNCHANGED vars
  <2>1. TypeOK' /\ ReadingsGrow'
    BY <1>0, <1>10 DEF vars, TypeOK, ReadingsGrow
  <2> QED BY <1>10, <2>1, ConfiguredInvariant DEF vars
<1> QED BY <1>1, <1>2, <1>3, <1>4, <1>5, <1>6, <1>7, <1>8, <1>9, <1>10 DEF Next

(* The inductive invariant: types, one group, factors behind their pairs,  *)
(* and readings of a window that grow.                                     *)
THEOREM Invariance == Spec => []IInv
BY InitInvariant, StepInvariant, PTL DEF Spec

(* The invariants of perf_config, for every mix and number of options.     *)
THEOREM TypeCorrect == Spec => []TypeOK
<1>1. IInv => TypeOK
  BY DEF IInv
<1> QED BY <1>1, Invariance, PTL

(* Every event perf_config opened is in the group that fd names, whichever *)
(* options opened it.                                                      *)
THEOREM GroupCompleteness == Spec => []GroupIsComplete
<1>1. ASSUME IInv PROVE GroupIsComplete
  <2>1. /\ grp.n \in Nat /\ grp.n = Len(grp.members)
        /\ grp.n /= 0 => grp.fd = 3 /\ 1 \in 1..grp.n
        /\ \A i \in 1..grp.n : /\ grp.members[i].fd = i + 2
                               /\ grp.members[i].leader = 3
    BY <1>1, GroupTypes DEF IInv, GroupInOrder
  <2>2. grp.n /= 0 => /\ grp.members[1].fd = grp.fd
                      /\ grp.members[1].leader = grp.fd
    BY <2>1
  <2> QED BY <1>1, <2>1, <2>2, GroupSlots DEF GroupIsComplete
<1> QED BY <1>1, Invariance, PTL

(* A factor stands only behind the two counters of its predefined pair.    *)
THEOREM RatioCorrectness == Spec => []RatioBelongsToPair
<1>1. IInv => RatioBelongsToPair
  BY DEF IInv
<1> QED BY <1>1, Invariance, PTL

-----------------------------------------------------------------------------
(* The header line and the printed row.  Row is what a recursive function  *)
(* of the slots yields, so the invariant speaks of every function that     *)
(* satisfies its equation: there is one, and each ends in the headers.     *)

Cell(members, factors, i) ==
  <<CountColumn(members[i].event)>> \o
    (IF factors[i] = 0 THEN <<>>
     ELSE <<RatioColumn(members[i - 1].event, members[i].event, factors[i])>>)

IsRow(f, members, factors, n) ==
  f = [i \in 0..n |-> IF i = 0 THEN <<>>
                      ELSE f[i - 1] \o Cell(members, factors, i)]

RowIs(members, factors, n, columns) ==
  /\ \E f : IsRow(f, members, factors, n)
  /\ \A f : IsRow(f, members, factors, n) => f[n] = columns

(* A slot more, and the columns of the slots before as they were.          *)
LEMMA RowExtends ==
  ASSUME NEW old, NEW oldFactors, NEW new, NEW newFactors, NEW n \in Nat,
         NEW columns, RowIs(old, oldFactors, n, columns),
         \A i \in 1..n : Cell(new, newFactors, i) = Cell(old, oldFactors, i)
  PROVE  RowIs(new, newFactors, n + 1,
               columns \o Cell(new, newFactors, n + 1))
<1> DEFINE last == Cell(new, newFactors, n + 1)
<1>1. \E g : IsRow(g, new, newFactors, n + 1)
  <2>1. PICK f : IsRow(f, old, oldFactors, n)
    BY DEF RowIs
  <2> DEFINE g == [i \in 0..n + 1 |-> IF i = n + 1 THEN f[n] \o last ELSE f[i]]
  <2>2. \A i \in 0..n : f[i] = IF i = 0 THEN <<>>
                               ELSE f[i - 1] \o Cell(old, oldFactors, i)
    BY <2>1 DEF IsRow
  <2>3. ASSUME NEW i \in 0..n + 1
        PROVE  g[i] = IF i = 0 THEN <<>>
                      ELSE g[i - 1] \o Cell(new, newFactors, i)
    <3>1. CASE i = n + 1
      <4>1. i /= 0 /\ i - 1 = n /\ n \in 0..n + 1 /\ n /= n + 1
        BY <3>1
      <4>2. g[i] = f[n] \o last /\ g[i - 1] = f[n]
        BY <3>1, <4>1
      <4> HIDE DEF g
      <4> QED BY <3>1, <4>1, <4>2
    <3>2. CASE i = 0
      <4>1. g[0] = f[0]
        BY <3>2
      <4> QED BY <2>2, <3>2, <4>1
    <3>3. CASE i \in 1..n
      <4>1. i \in 0..n /\ i - 1 \in 0..n /\ i /= 0
        BY <3>3
      <4>2. g[i] = f[i] /\ g[i - 1] = f[i - 1]
        BY <4>1
      <4>3. f[i] = f[i - 1] \o Cell(old, oldFactors, i)
        BY <2>2, <4>1
      <4>4. Cell(new, newFactors, i) = Cell(old, oldFactors, i)
        BY <3>3
      <4> HIDE DEF g
      <4> QED BY <4>1, <4>2, <4>3, <4>4
    <3> QED BY <3>1, <3>2, <3>3
  <2>4. g = [i \in 0..n + 1 |-> g[i]]
    OBVIOUS
  <2> HIDE DEF g
  <2>5. g = [i \in 0..n + 1 |-> IF i = 0 THEN <<>>
                               ELSE g[i - 1] \o Cell(new, newFactors, i)]
    BY <2>3, <2>4
  <2> QED BY <2>5 DEF IsRow
<1>2. ASSUME NEW g, IsRow(g, new, newFactors, n + 1)
      PROVE  g[n + 1] = columns \o last
  <2>1. \A i \in 0..n + 1 : g[i] = IF i = 0 THEN <<>>
                                   ELSE g[i - 1] \o Cell(new, newFactors, i)
    BY <1>2 DEF IsRow
  <2> DEFINE h == [i \in 0..n |-> g[i]]
  <2>2. ASSUME NEW i \in 0..n
        PROVE  h[i] = IF i = 0 THEN <<>>
                      ELSE h[i - 1] \o Cell(old, oldFactors, i)
    <3>1. CASE i = 0
      BY <2>1, <3>1
    <3>2. CASE i /= 0
      <4>1. i \in 1..n /\ i \in 0..n + 1 /\ i - 1 \in 0..n
        BY <3>2
      <4>2. h[i] = g[i] /\ h[i - 1] = g[i - 1]
        BY <4>1
      <4>3. g[i] = g[i - 1] \o Cell(new, newFactors, i)
        BY <2>1, <3>2, <4>1
      <4> HIDE DEF h
      <4> QED BY <3>2, <4>1, <4>2, <4>3
    <3> QED BY <3>1, <3>2
  <2>3. h = [i \in 0..n |-> h[i]]
    OBVIOUS
  <2>4. h[n] = g[n]
    OBVIOUS
  <2> HIDE DEF h
  <2>5. IsRow(h, old, oldFactors, n)
    BY <2>2, <2>3 DEF IsRow
  <2>6. g[n] = columns
    BY <2>4, <2>5 DEF RowIs
  <2>7. n + 1 \in 0..n + 1 /\ n + 1 /= 0 /\ (n + 1) - 1 = n
    OBVIOUS
  <2> QED BY <2>1, <2>6, <2>7
<1> QED BY <1>1, <1>2 DEF RowIs

LEMMA RowUnique ==
  ASSUME NEW columns, RowIs(grp.members, ratios, grp.n, columns)
  PROVE  Row = columns
<1> DEFINE R(f) == f = [i \in 0..grp.n |-> IF i = 0 THEN <<>>
                                          ELSE f[i - 1] \o RowCell(i)]
<1>1. \A f : R(f) <=> IsRow(f, grp.members, ratios, grp.n)
  BY DEF IsRow, RowCell, Cell
<1>2. \E f : R(f)
  BY <1>1 DEF RowIs
<1>3. R(CHOOSE f : R(f))
  BY <1>2
<1>4. (CHOOSE f : R(f))[grp.n] = columns
  BY <1>1, <1>3 DEF RowIs
<1> QED BY <1>4 DEF Row

(* Columns are kept apart from what else a sequence may hold.              *)
Columns == {CountColumn(e) : e \in Events} \cup
           {RatioColumn(e[1], e[2], e[3]) : e \in Events \X Events \X {1, 100}}

HeaderInv == /\ headers \in Seq(Columns)
             /\ RowIs(grp.members, ratios, grp.n, headers)

LEMMA HeaderInit == Init => HeaderInv
<1> SUFFICES ASSUME Init PROVE HeaderInv
  OBVIOUS
<1>1. headers = <<>> /\ grp.n = 0
  BY DEF Init
<1> DEFINE f == [i \in 0..0 |-> <<>>]
<1>2. f = [i \in 0..0 |-> IF i = 0 THEN <<>>
                          ELSE f[i - 1] \o Cell(grp.members, ratios, i)]
  OBVIOUS
<1>3. \E g : IsRow(g, grp.members, ratios, 0)
  BY <1>2 DEF IsRow
<1>4. \A g : IsRow(g, grp.members, ratios, 0) => g[0] = <<>>
  BY DEF IsRow
<1> QED BY <1>1, <1>3, <1>4 DEF HeaderInv, RowIs

(* No factor sits behind the configured slots, so the columns of a slot    *)
(* depend on the events up to it.                                          *)
LEMMA FactorsInUse ==
  ASSUME IInv
  PROVE  /\ \A i \in Slots : i > grp.n => ratios[i] = 0
         /\ \A i \in 1..grp.n : ratios[i] /= 0 => i - 1 \in 1..grp.n
<1>1. grp.n \in Nat /\ 1..grp.n \subseteq Slots
  BY GroupTypes, GroupSlots DEF IInv
<1>2. \A i \in Slots : ratios[i] /= 0 => i \in 2..grp.n
  BY DEF IInv, RatioBelongsToPair
<1>3. Slots \subseteq Nat
  BY DEF Slots
<1> QED BY <1>1, <1>2, <1>3

LEMMA CellsKept ==
  ASSUME IInv, NEW new, NEW factors,
         \A i \in 1..grp.n : new[i] = grp.members[i] /\ factors[i] = ratios[i]
  PROVE  \A i \in 1..grp.n : Cell(new, factors, i) = Cell(grp.members, ratios, i)
BY FactorsInUse DEF Cell

LEMMA HeaderSingle ==
  ASSUME IInv, HeaderInv, NEW o \in Options, ConfigSingle(o[1], o[2])
  PROVE  HeaderInv'
<1> DEFINE event == <<EventType(o[1]), o[2]>>
           n == grp.n
           column == <<CountColumn(event)>>
<1>1. /\ event \in Events /\ n + 1 <= MAX_COUNTERS
      /\ grp'.n = n + 1 /\ grp'.members[n + 1].event = event
      /\ \A i \in 1..n : grp'.members[i] = grp.members[i]
  BY SingleOpened
<1>2. n \in Nat
  BY GroupTypes DEF IInv
<1>3. headers' = headers \o column /\ ratios' = ratios
  BY DEF ConfigSingle, SingleHeader
<1> HIDE DEF event
<1>4. column \in Seq(Columns) /\ column /= <<>>
  BY <1>1 DEF Columns
<1>5. ratios[n + 1] = 0
  BY <1>1, <1>2, FactorsInUse, SizesAssumption DEF Slots
<1>6. Cell(grp'.members, ratios', n + 1) = column
  <2>1. Cell(grp'.members, ratios', n + 1) = column \o <<>>
    BY <1>1, <1>3, <1>5 DEF Cell
  <2> QED BY <1>4, <2>1, ConcatEmptySeq
<1> HIDE DEF column
<1>7. \A i \in 1..n : Cell(grp'.members, ratios', i) =
                        Cell(grp.members, ratios, i)
  BY <1>1, <1>3, CellsKept
<1>8. RowIs(grp'.members, ratios', n + 1, headers \o column)
  BY <1>2, <1>6, <1>7, RowExtends DEF HeaderInv
<1>9. headers' \in Seq(Columns)
  BY <1>3, <1>4, ConcatProperties DEF HeaderInv
<1> QED BY <1>1, <1>3, <1>8, <1>9 DEF HeaderInv

LEMMA HeaderPair ==
  ASSUME IInv, HeaderInv, NEW code, ConfigPair(code)
  PROVE  HeaderInv'
<1> DEFINE p == Predefined[code]
           n == grp.n
           num == <<CountColumn(p.num)>>
           den == <<CountColumn(p.den)>>
           ratio == <<RatioColumn(p.num, p.den, p.scale)>>
<1>1. /\ p.num \in Events /\ p.den \in Events /\ p.scale \in {1, 100}
      /\ n + 2 <= MAX_COUNTERS
      /\ ratios' = [ratios EXCEPT ![n + 2] = p.scale]
      /\ grp'.n = n + 2
      /\ grp'.members[n + 1].event = p.num
      /\ grp'.members[n + 2].event = p.den
      /\ \A i \in 1..n : grp'.members[i] = grp.members[i]
  BY PairOpened
<1>2. n \in Nat /\ n + 1 \in Slots /\ n + 2 \in Slots
      /\ \A i \in 1..n : i \in Slots /\ i /= n + 2
      /\ (n + 1) + 1 = n + 2 /\ (n + 2) - 1 = n + 1 /\ n + 1 /= n + 2
  BY <1>1, GroupTypes, SizesAssumption DEF IInv, Slots
<1>3. headers' = headers \o PairHeader(p)
  BY DEF ConfigPair
<1>4. num \in Seq(Columns) /\ den \in Seq(Columns) /\ ratio \in Seq(Columns)
  <2>1. CountColumn(p.num) \in Columns /\ CountColumn(p.den) \in Columns
    BY <1>1 DEF Columns
  <2>2. RatioColumn(p.num, p.den, p.scale) \in Columns
    <3> DEFINE e == <<p.num, p.den, p.scale>>
    <3>1. e \in Events \X Events \X {1, 100}
      BY <1>1
    <3>2. e[1] = p.num /\ e[2] = p.den /\ e[3] = p.scale
      OBVIOUS
    <3> HIDE DEF e
    <3>3. RatioColumn(e[1], e[2], e[3]) \in Columns
      BY <3>1 DEF Columns
    <3> QED BY <3>2, <3>3
  <2> QED BY <2>1, <2>2
<1>5. PairHeader(p) = num \o (den \o ratio)
  BY DEF PairHeader
<1>6. ratios'[n + 1] = 0 /\ ratios'[n + 2] = p.scale /\ p.scale /= 0
      /\ \A i \in 1..n : ratios'[i] = ratios[i]
  <2>1. DOMAIN ratios = Slots
    BY DEF IInv, TypeOK
  <2>2. ratios[n + 1] = 0
    BY <1>2, FactorsInUse
  <2> QED BY <1>1, <1>2, <2>1, <2>2
<1>7. Cell(grp'.members, ratios', n + 1) = num
  <2>1. Cell(grp'.members, ratios', n + 1) = num \o <<>>
    BY <1>1, <1>6 DEF Cell
  <2> QED BY <1>4, <2>1, ConcatEmptySeq
<1>8. Cell(grp'.members, ratios', n + 2) = den \o ratio
  BY <1>1, <1>2, <1>6 DEF Cell
<1> HIDE DEF p, num, den, ratio
<1>9. \A i \in 1..n : Cell(grp'.members, ratios', i) =
                        Cell(grp.members, ratios, i)
  <2>1. \A i \in 1..grp.n : grp'.members[i] = grp.members[i]
                            /\ ratios'[i] = ratios[i]
    BY <1>1, <1>6
  <2> QED BY <2>1, CellsKept
<1>10. RowIs(grp'.members, ratios', n + 1, headers \o num)
  BY <1>2, <1>7, <1>9, RowExtends DEF HeaderInv
<1>11. RowIs(grp'.members, ratios', n + 2, (headers \o num) \o (den \o ratio))
  <2>1. n + 1 \in Nat
    BY <1>2
  <2>2. \A i \in 1..n + 1 : Cell(grp'.members, ratios', i) =
                             Cell(grp'.members, ratios', i)
    OBVIOUS
  <2>3. RowIs(grp'.members, ratios', (n + 1) + 1,
              (headers \o num) \o Cell(grp'.members, ratios', (n + 1) + 1))
    BY <1>10, <2>1, <2>2, RowExtends
  <2>4. (n + 1) + 1 = n + 2
    BY <1>2
  <2>5. RowIs(grp'.members, ratios', n + 2,
              (headers \o num) \o Cell(grp'.members, ratios', n + 2))
    BY <2>3, <2>4, Zenon
  <2> QED BY <1>8, <2>5, Zenon
<1>12. /\ (headers \o num) \o (den \o ratio) = headers'
       /\ headers' \in Seq(Columns)
  <2>1. headers \in Seq(Columns) /\ den \o ratio \in Seq(Columns)
    BY <1>4, ConcatProperties DEF HeaderInv
  <2>2. (headers \o num) \o (den \o ratio) = headers \o (num \o (den \o ratio))
    <3> DEFINE rest == den \o ratio
    <3>1. headers \in Seq(Columns) /\ num \in Seq(Columns)
          /\ rest \in Seq(Columns)
      BY <1>4, <2>1
    <3> HIDE DEF rest
    <3>2. (headers \o num) \o rest = headers \o (num \o rest)
      BY <3>1, ConcatAssociative
    <3> QED BY <3>2 DEF rest
  <2>3. num \o (den \o ratio) \in Seq(Columns)
    BY <1>4, <2>1, ConcatProperties
  <2>4. headers \o (num \o (den \o ratio)) \in Seq(Columns)
    BY <2>1, <2>3, ConcatProperties
  <2> QED BY <1>3, <1>5, <2>2, <2>4
<1> QED BY <1>1, <1>11, <1>12 DEF HeaderInv

LEMMA HeaderStep == IInv /\ HeaderInv /\ [Next]_vars => HeaderInv'
<1> SUFFICES ASSUME IInv, HeaderInv, [Next]_vars PROVE HeaderInv'
  OBVIOUS
<1>1. ASSUME UNCHANGED <<grp, ratios, headers>> PROVE HeaderInv'
  BY <1>1 DEF HeaderInv
<1>2. ASSUME NEW o \in Options, PerfConfig(o[1], o[2]) PROVE HeaderInv'
  BY <1>1, <1>2, HeaderSingle, HeaderPair
  DEF PerfConfig, ConfigDropped, ConfigRefused
<1>3. ASSUME PerfInit \/ Work \/ PerfBeginReset \/ PerfBeginRead
             \/ PerfBeginNothing \/ PerfEnd \/ Overrun \/ PerfPrint
             \/ UNCHANGED vars
      PROVE  UNCHANGED <<grp, ratios, headers>>
  BY <1>3 DEF PerfInit, Work, PerfBeginReset, PerfBeginRead, PerfBeginNothing,
              PerfEnd, Overrun, PerfPrint, config, vars
<1> QED BY <1>1, <1>2, <1>3 DEF Next

(* The header line names exactly the columns perf_print prints below it,   *)
(* in the same order, for every mix of options.                            *)
THEOREM HeaderCorrectness == Spec => []HeaderMatchesRow
<1>1. HeaderInv => HeaderMatchesRow
  BY RowUnique DEF HeaderInv, HeaderMatchesRow
<1> QED BY <1>1, HeaderInit, HeaderStep, Invariance, PTL DEF Spec

-----------------------------------------------------------------------------
(* perf_begin, perf_end and perf_print implement CounterWindow.            *)

LEMMA WindowInit == Init => Window!Init
<1> SUFFICES ASSUME Init PROVE Window!Init
  OBVIOUS
<1>1. Mode = "idle"
  BY DEF Init, Mode
<1>2. Tally = [i \in Slots |-> 0]
  BY DEF Init, Tally, Zeroed
<1> QED BY <1>1, <1>2 DEF Window!Init, Window!Nothing

LEMMA WindowStep == IInv /\ [Next]_vars => [Window!Next]_(Window!wvars)
<1> SUFFICES ASSUME IInv, [Next]_vars
             PROVE  Window!Next \/ (Mode' = Mode /\ Tally' = Tally)
  BY DEF Window!wvars
<1> USE DEF config, buffers
<1>0. /\ TypeOK /\ ReadingsGrow /\ grp.n \in Nat
      /\ Group(grp) = 1..grp.n /\ ReadSlots = 1..grp.n
      /\ 1..grp.n \subseteq Slots
  BY GroupTypes, GroupSlots DEF IInv
<1>1. ASSUME NEW o \in Options, PerfConfig(o[1], o[2])
      PROVE  Mode' = Mode /\ Tally' = Tally
  <2>1. /\ UNCHANGED <<counters_begin, counters_end, counters_valid>>
        /\ phase = "options" /\ phase' \in {"options", "exited"}
    BY <1>1 DEF PerfConfig, ConfigPair, ConfigSingle, ConfigDropped,
                ConfigRefused, NextOption, Untouched
  <2> QED BY <2>1 DEF Mode, Tally
<1>2. CASE PerfInit
  BY <1>2 DEF PerfInit, Mode, Tally
<1>3. CASE Work
  <2>1. PICK d \in [1..grp.n -> 0..MaxCount] :
               count' = [i \in Slots |-> IF i \in 1..grp.n
                                         THEN count[i] + d[i] ELSE count[i]]
    BY <1>0, <1>3 DEF Work
  <2>2. Mode' = Mode
    BY <1>3 DEF Work, Mode
  <2>3. CASE phase /= "open"
    BY <1>3, <2>2, <2>3 DEF Work, Tally
  <2>4. CASE phase = "open" /\ grp.n = 0
    <3>1. \A i \in Slots : count'[i] = count[i]
      BY <1>0, <2>1, <2>4 DEF Slots
    <3>2. Tally' = Tally
      BY <1>3, <2>4, <3>1 DEF Work, Tally
    <3> QED BY <2>2, <3>2
  <2>5. CASE phase = "open" /\ grp.n /= 0
    <3>1. \A i \in Slots : /\ count[i] \in Nat /\ counters_begin[i] \in Nat
                           /\ count'[i] \in Nat /\ count'[i] >= count[i]
                           /\ count[i] >= counters_begin[i]
      BY <1>0, <2>1, <2>5, BoundsAssumption DEF TypeOK, ReadingsGrow
    <3>2. /\ Tally = [i \in Slots |-> count[i] - counters_begin[i]]
          /\ Tally' = [i \in Slots |-> count'[i] - counters_begin[i]]
      BY <1>3, <2>5 DEF Work, Tally
    <3>3. Tally' \in [Slots -> Nat] /\ \A i \in Slots : Tally'[i] >= Tally[i]
      BY <3>1, <3>2
    <3>4. Mode = "open"
      BY <2>5 DEF Mode
    <3> QED BY <2>2, <3>3, <3>4 DEF Window!Next, Window!Count
  <2> QED BY <2>3, <2>4, <2>5
<1>4. CASE PerfBeginReset
  BY <1>4 DEF PerfBeginReset, Mode, Tally
<1>5. CASE PerfBeginRead
  <2>1. \A i \in Slots : count[i] \in Nat /\ counters_begin'[i] = count[i]
    BY <1>0, <1>5 DEF PerfBeginRead, Reading, ReadingsGrow, TypeOK, Slots
  <2>2. Tally' = [i \in Slots |-> 0]
    BY <1>5, <2>1 DEF PerfBeginRead, Tally
  <2>3. Mode' = "open" /\ Mode \in {"idle", "closed"}
    BY <1>0, <1>5 DEF PerfBeginRead, Mode, ReadingsGrow
  <2> QED BY <2>2, <2>3 DEF Window!Next, Window!Begin, Window!Nothing
<1>6. CASE PerfBeginNothing
  <2>1. Mode' = Mode
    BY <1>6 DEF PerfBeginNothing, Mode
  <2>2. \A i \in Slots : count[i] = counters_end[i]
    BY <1>0, <1>6 DEF PerfBeginNothing, ReadingsGrow, Slots
  <2>3. Tally' = Tally
    BY <1>6, <2>2 DEF PerfBeginNothing, Tally
  <2> QED BY <2>1, <2>3
<1>7. CASE PerfEnd
  <2>1. CASE grp.n = 0
    <3>1. Mode' = Mode
      BY <1>7, <2>1 DEF PerfEnd, Mode
    <3>2. \A i \in Slots : count[i] = counters_end[i]
      BY <1>0, <2>1 DEF ReadingsGrow, Slots
    <3>3. Tally' = Tally
      BY <1>7, <2>1, <3>2 DEF PerfEnd, Tally
    <3> QED BY <3>1, <3>3
  <2>2. CASE grp.n /= 0
    <3>1. \A i \in Slots : counters_end'[i] = count[i]
      BY <1>0, <1>7, <2>2 DEF PerfEnd, Reading, ReadingsGrow, Slots
    <3>2. Tally' = Tally
      BY <1>7, <3>1 DEF PerfEnd, Tally
    <3>3. Mode = "open" /\ Mode' = "closed"
      BY <1>7, <2>2 DEF PerfEnd, Mode
    <3> QED BY <3>2, <3>3 DEF Window!Next, Window!End
  <2> QED BY <2>1, <2>2
<1>8. CASE Overrun
  <2>1. Mode /= "lost" /\ Mode' = "lost"
    BY <1>8 DEF Overrun, Mode
  <2> QED BY <2>1 DEF Window!Next, Window!Lose
<1>9. CASE PerfPrint
  <2>1. Mode = "closed" /\ Mode' = "idle" /\ Tally' = Tally
    BY <1>9 DEF PerfPrint, Mode, Tally
  <2> QED BY <2>1 DEF Window!Next, Window!Show
<1>10. CASE UNCHANGED vars
  BY <1>10 DEF vars, Mode, Tally
<1> QED BY <1>1, <1>2, <1>3, <1>4, <1>5, <1>6, <1>7, <1>8, <1>9, <1>10 DEF Next

(* What a row shows is what was counted in its window, for any number of   *)
(* counters and whatever the group counts inside and outside windows.      *)
THEOREM PerfImplementsWindow == Spec => ImplementsWindow
BY WindowInit, WindowStep, Invariance, PTL
   DEF Spec, ImplementsWindow, Window!Spec

=============================================================================
