------------------------- MODULE SelectMasterProofs -------------------------
(***************************************************************************)
(* The loop of select_master_port ends with the port the definition Master   *)
(* names, for every set of ports, every order of the list and every speed,   *)
(* duplex, link, priority and DEF bit of the ports.  The loop keeps a port   *)
(* that no candidate behind it is better than; that one such port is left    *)
(* when the list is at its end, and only one, is what the order owes to the  *)
(* port numbers.                                                           *)
(***************************************************************************)
EXTENDS SelectMaster, LacpDataProofs, SequenceTheorems, FiniteSetTheorems

\* The candidates the loop has left behind.
Behind == Candidates(f, Port) \ Range(list)

LoopInv ==
    /\ \A p \in Port : Apart(f[p], p)
    /\ list \in Seq(Port)
    /\ best = Null => Behind = {}
    /\ best # Null => /\ best \in Candidates(f, Port)
                      /\ \A q \in Behind : ~Better(f[q], f[best])

-----------------------------------------------------------------------------
\* The chain of early decisions in the loop is the order Better.
LEMMA ReplacesIsBetter ==
  ASSUME NEW a, NEW b, Ranked(a), Ranked(b)
  PROVE  Replaces(a, b) <=> Better(a, b)
<1> DEFINE da == Bit(a.actor, "DEF")
           db == Bit(b.actor, "DEF")
<1>1. da \in BOOLEAN /\ db \in BOOLEAN BY DEF Ranked
<1>2. Better(a, b) <=>
        \/ a.speed > b.speed
        \/ a.speed = b.speed /\
           \/ a.actor.port_priority < b.actor.port_priority
           \/ a.actor.port_priority = b.actor.port_priority /\
              \/ ~da /\ db
              \/ (da <=> db) /\ a.actor.port_no < b.actor.port_no
  BY DEF Better
<1>3. Replaces(a, b) <=>
        IF a.speed > b.speed THEN TRUE
        ELSE IF a.speed < b.speed THEN FALSE
        ELSE IF a.actor.port_priority < b.actor.port_priority THEN TRUE
        ELSE IF a.actor.port_priority > b.actor.port_priority THEN FALSE
        ELSE IF ~da /\ db THEN TRUE
        ELSE IF da /\ ~db THEN FALSE
        ELSE a.actor.port_no < b.actor.port_no
  BY DEF Replaces
<1> HIDE DEF da, db
<1> QED BY <1>1, <1>2, <1>3 DEF Ranked

-----------------------------------------------------------------------------
\* Before the first port of the list nothing is behind the loop.
LEMMA LoopInitHolds == LoopInit => LoopInv
<1> SUFFICES ASSUME LoopInit PROVE LoopInv OBVIOUS
<1>1. ASSUME NEW p \in Port PROVE Apart(f[p], p)
  <2>1. f[p] \in Seen(p) BY DEF LoopInit
  <2>2. p \in Nat /\ p + 1 \in Nat BY PortAssumption
  <2>3. \A t \in Seen(p) : /\ t.speed \in SpeedsSeen
                            /\ t.actor.port_priority \in PriosSeen
                            /\ t.actor.port_no = p + 1
    BY DEF Seen
  <2>4. /\ f[p].speed \in Nat /\ f[p].actor.port_priority \in Nat
        /\ f[p].actor.port_no = p + 1
    BY <2>1, <2>3, SeenAssumption
  <2>6. ("DEF" \in f[p].actor.state) \in BOOLEAN OBVIOUS
  <2> QED BY <2>2, <2>4, <2>6 DEF Apart, Ranked, Bit
<1>2. list \in Seq(Port) /\ Port \subseteq Range(list)
  <2> DEFINE n == Cardinality(Port)
  <2>1. IsFiniteSet(Port) /\ n \in Nat
    <3>1. \A p \in Port : p \in Nat /\ p <= 143 BY PortAssumption
    <3> QED BY <3>1, FS_BoundedSetOfNaturals, FS_CardinalityType
  <2>2. /\ list \in [1 .. n -> Port]
        /\ \A i, j \in 1 .. n : i # j => list[i] # list[j]
    BY DEF LoopInit, SetToSeqs
  <2>3. list \in Injection(1 .. n, Port) BY <2>2 DEF Injection, IsInjective
  <2>4. Cardinality(1 .. n) = n BY <2>1, FS_Interval
  <2>5. list \in Surjection(1 .. n, Port) BY <2>1, <2>3, <2>4, FS_Injection
  <2> HIDE DEF n
  <2> QED BY <2>1, <2>2, <2>5 DEF Surjection, Range
<1>3. Behind = {} BY <1>2 DEF Behind, Candidates
<1> QED BY <1>1, <1>2, <1>3 DEF LoopInv, LoopInit


\* The rest of a list names what the list names but for its head.
LEMMA TailOfList ==
  ASSUME NEW s \in Seq(Port), s # <<>>
  PROVE  /\ Head(s) \in Port /\ Tail(s) \in Seq(Port)
         /\ Range(s) = Range(Tail(s)) \cup {Head(s)}
<1>1. Len(s) \in Nat /\ Len(s) # 0 /\ DOMAIN s = 1 .. Len(s) BY EmptySeq
<1>2. Head(s) = s[1] /\ s[1] \in Port BY <1>1
<1>3. /\ Tail(s) \in Seq(Port) /\ Len(Tail(s)) = Len(s) - 1
      /\ DOMAIN Tail(s) = 1 .. Len(s) - 1
      /\ \A i \in 1 .. Len(s) - 1 : Tail(s)[i] = s[i + 1]
  BY <1>1
<1>4. Range(s) \subseteq Range(Tail(s)) \cup {Head(s)}
  <2> SUFFICES ASSUME NEW i \in 1 .. Len(s) PROVE s[i] \in Range(Tail(s)) \cup {Head(s)}
    BY <1>1 DEF Range
  <2>1. CASE i = 1 BY <2>1, <1>2
  <2>2. CASE i # 1
    <3>1. i - 1 \in 1 .. Len(s) - 1 /\ (i - 1) + 1 = i BY <2>2, <1>1
    <3> QED BY <3>1, <1>3 DEF Range
  <2> QED BY <2>1, <2>2
<1>5. Range(Tail(s)) \cup {Head(s)} \subseteq Range(s)
  <2>1. \A i \in 1 .. Len(s) - 1 : i + 1 \in 1 .. Len(s) BY <1>1
  <2>2. 1 \in 1 .. Len(s) BY <1>1
  <2> QED BY <2>1, <2>2, <1>1, <1>2, <1>3 DEF Range
<1> QED BY <1>2, <1>3, <1>4, <1>5

\* Every port the loop passes leaves it with a candidate that none behind it beats.
LEMMA LoopStepHolds == LoopInv /\ [LoopNext]_lvars => LoopInv'
<1> SUFFICES ASSUME LoopInv, [LoopNext]_lvars PROVE LoopInv' OBVIOUS
<1>1. CASE UNCHANGED lvars
  BY <1>1 DEF LoopInv, Behind, lvars
<1>2. CASE Skip
  <2>1. /\ list # <<>> /\ Head(list) \notin Candidates(f, Port)
        /\ list' = Tail(list) /\ f' = f /\ best' = best
    BY <1>2 DEF Skip
  <2>2. list' \in Seq(Port) /\ Range(list) = Range(list') \cup {Head(list)}
    BY <2>1, TailOfList DEF LoopInv
  <2>3. Behind' = Behind BY <2>1, <2>2 DEF Behind
  <2> QED BY <2>1, <2>2, <2>3 DEF LoopInv
<1>3. CASE Visit
  <2> DEFINE h == Head(list)
             C == Candidates(f, Port)
  <2>1. /\ list # <<>> /\ h \in C
        /\ best' = IF best = Null \/ Replaces(f[h], f[best]) THEN h ELSE best
        /\ list' = Tail(list) /\ f' = f
    BY <1>3 DEF Visit
  <2>2. list' \in Seq(Port) /\ Range(list) = Range(list') \cup {h}
    BY <2>1, TailOfList DEF LoopInv
  <2>3. Behind' \subseteq Behind \cup {h} BY <2>1, <2>2 DEF Behind
  <2>4. \A p \in C : p \in Port /\ Ranked(f[p]) BY DEF LoopInv, Apart, Candidates
  <2>5. Behind \subseteq C BY DEF Behind
  <2>6. Null \notin C
    <3>1. \A p \in Port : p # -1 BY PortAssumption
    <3> QED BY <3>1, <2>4 DEF Null
  <2>7. /\ best = Null => Behind = {}
        /\ best # Null => best \in C /\ \A q \in Behind : ~Better(f[q], f[best])
        /\ \A p \in Port : Apart(f[p], p)
    BY DEF LoopInv
  <2> HIDE DEF h, C
  <2>8. best' \in C /\ \A q \in Behind' : ~Better(f[q], f[best'])
    <3>1. ~Better(f[h], f[h]) BY <2>1, <2>4, BetterIsStrict
    <3>2. CASE best = Null
      BY <3>1, <3>2, <2>1, <2>3, <2>7
    <3>3. CASE best # Null /\ Better(f[h], f[best])
      <4>1. best' = h BY <3>3, <2>1, <2>4, <2>7, ReplacesIsBetter
      <4>2. ASSUME NEW q \in Behind PROVE ~Better(f[q], f[h])
        BY <4>2, <3>3, <2>1, <2>4, <2>5, <2>7, BetterIsStrict
      <4> QED BY <4>1, <4>2, <3>1, <2>1, <2>3
    <3>4. CASE best # Null /\ ~Better(f[h], f[best])
      <4>1. best' = best BY <3>4, <2>1, <2>4, <2>7, ReplacesIsBetter
      <4> QED BY <4>1, <3>4, <2>3, <2>7
    <3> QED BY <3>2, <3>3, <3>4
  <2>9. C = Candidates(f, Port)' BY <2>1 DEF C, Candidates
  <2>10. best' # Null BY <2>6, <2>8
  <2> QED BY <2>1, <2>2, <2>7, <2>8, <2>9, <2>10 DEF LoopInv
<1> QED BY <1>1, <1>2, <1>3 DEF LoopNext

\* When the loop ends it has the best candidate, if there is one: whatever the ports
\* are like and in whatever order the list has them, the tests of the loop and the
\* definition of the master that the model of the bridge uses agree.
THEOREM LoopIsMaster == LoopSpec => []LoopFindsMaster
<1>1. LoopInv => LoopFindsMaster
  <2> SUFFICES ASSUME LoopInv, list = <<>>
               PROVE  best = IF Candidates(f, Port) = {} THEN Null
                             ELSE Master(f, Candidates(f, Port))
    BY DEF LoopFindsMaster
  <2> DEFINE C == Candidates(f, Port)
  <2>1. Behind = C
    <3>1. Range(list) = {} BY DEF Range
    <3> QED BY <3>1 DEF Behind
  <2>2. C \in SUBSET (0 .. 143) /\ \A p \in C : Apart(f[p], p)
    BY PortAssumption DEF LoopInv, Candidates
  <2>3. /\ best = Null => C = {}
        /\ best # Null => best \in C /\ \A q \in C : ~Better(f[q], f[best])
    BY <2>1 DEF LoopInv
  <2> HIDE DEF C
  <2>4. ASSUME C # {} PROVE best = Master(f, C)
    <3>1. \A p \in C : Ranked(f[p]) BY <2>2 DEF Apart
    <3>2. /\ Master(f, C) \in C
          /\ \A q \in C : ~Better(f[q], f[Master(f, C)])
      BY <2>4, <2>2, <3>1, MasterIsBest
    <3> QED BY <2>2, <2>3, <2>4, <3>2, OneBest
  <2>5. ASSUME C = {} PROVE best = Null BY <2>3, <2>5
  <2> QED BY <2>4, <2>5 DEF C
<1> QED BY <1>1, LoopInitHolds, LoopStepHolds, PTL DEF LoopSpec
=============================================================================
