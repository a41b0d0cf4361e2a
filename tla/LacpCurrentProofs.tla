--------------------------- MODULE LacpCurrentProofs ---------------------------
(***************************************************************************)
(* Between calls the selection is what selecting again would give, for every *)
(* set of ports, groups, partners and values of the commands under which     *)
(* every change of what the selection compares is followed by a selection.   *)
(***************************************************************************)
EXTENDS LacpChipProofs

-----------------------------------------------------------------------------
(* The update of a group and its fixed points *)

\* The selection reads the same of t and u.  The system priority is read only to
\* compare it with that of a partner.
SameRead(t, u) ==
    /\ \A x \in {"port_enabled", "lacp_enabled", "speed", "duplex"} : u[x] = t[x]
    /\ \A x \in {"key", "port_no", "port_priority", "system_mac"} : u.actor[x] = t.actor[x]
    /\ SysPrios = {} => u.actor.system_priority = t.actor.system_priority
    /\ \A b \in {"DEF", "AGG"} : Bit(u.actor, b) <=> Bit(t.actor, b)
    /\ \A x \in {"key", "port_no", "system_priority", "system_mac"} :
          u.partner[x] = t.partner[x]
    /\ Bit(u.partner, "AGG") <=> Bit(t.partner, "AGG")

\* Its results on t and u are the same.
SameMarks(t, u) ==
    /\ u.selected = t.selected /\ u.standby = t.standby
    /\ u.master_port = t.master_port

\* No port of S has a port of S as its partner, whatever their priorities.
Unlooped(f, S) == \A p, q \in S : f[p].partner.system_mac # f[q].actor.system_mac

\* Port p of S has the master and the place that the update of S would give it.
InPlace(f, S, p) ==
    LET C == Candidates(f, S)
        m == f[p].master_port
    IN  IF C = {} THEN f[p].standby /\ m = p
        ELSE /\ m \in C
             /\ \A q \in C : ~Better(f[q], f[m])
             /\ f[p].standby = ~Joins(f, S, f[p], f[m])

\* Every port of S has the number that tells it from the others.
Numbered(f, S) == \A p \in S : f[p].actor.port_no = p + 1

\* The order reads no more than SameRead says.
LEMMA BetterSame ==
  ASSUME NEW a, NEW a1, NEW b, NEW b1, SameRead(a, a1), SameRead(b, b1)
  PROVE  Better(a1, b1) <=> Better(a, b)
BY DEF SameRead, Better, Bit

\* Neither do the other tests of the selection.
LEMMA JoinsSame ==
  ASSUME NEW S, NEW f, NEW h, \A q \in S : SameRead(f[q], h[q]),
         SysPrios = {} \/ Unlooped(f, S), NEW p \in S, NEW m \in S
  PROVE  Joins(h, S, h[p], h[m]) <=> Joins(f, S, f[p], f[m])
<1>1. SameRead(f[p], h[p]) /\ SameRead(f[m], h[m]) OBVIOUS
<1>2. PartnersAPort(h, S, h[p]) <=> PartnersAPort(f, S, f[p])
  <2>1. CASE SysPrios = {}
    <3>1. \A q \in S : /\ h[q].actor.system_priority = f[q].actor.system_priority
                        /\ h[q].actor.system_mac = f[q].actor.system_mac
                        /\ h[q].actor.key = f[q].actor.key
                        /\ h[q].actor.port_no = f[q].actor.port_no
                        /\ h[q].actor.port_priority = f[q].actor.port_priority
      BY <2>1 DEF SameRead
    <3>2. /\ h[p].partner.system_priority = f[p].partner.system_priority
          /\ h[p].partner.system_mac = f[p].partner.system_mac
          /\ h[p].partner.key = f[p].partner.key
          /\ h[p].partner.port_no = f[p].partner.port_no
      BY <1>1 DEF SameRead
    <3> QED BY <3>1, <3>2 DEF PartnersAPort
  <2>2. CASE Unlooped(f, S)
    <3>1. \A q \in S : h[p].partner.system_mac # h[q].actor.system_mac
      BY <1>1, <2>2 DEF SameRead, Unlooped
    <3> QED BY <2>2, <3>1 DEF Unlooped, PartnersAPort
  <2> QED BY <2>1, <2>2
<1>3. SameAggregate(h[p].partner, h[m].partner) <=> SameAggregate(f[p].partner, f[m].partner)
  BY <1>1 DEF SameRead, SameAggregate
<1>4. /\ h[p].port_enabled = f[p].port_enabled /\ h[p].lacp_enabled = f[p].lacp_enabled
      /\ h[p].actor.key = f[p].actor.key /\ h[m].actor.key = f[m].actor.key
      /\ Bit(h[p].actor, "AGG") <=> Bit(f[p].actor, "AGG")
      /\ Bit(h[m].actor, "AGG") <=> Bit(f[m].actor, "AGG")
      /\ Bit(h[p].partner, "AGG") <=> Bit(f[p].partner, "AGG")
      /\ Bit(h[m].partner, "AGG") <=> Bit(f[m].partner, "AGG")
  BY <1>1 DEF SameRead
<1> QED BY <1>2, <1>3, <1>4 DEF Joins

\* Who is a candidate depends only on what the selection reads.
LEMMA CandidatesSame ==
  ASSUME NEW S, NEW f, NEW h, \A q \in S : SameRead(f[q], h[q])
  PROVE  Candidates(h, S) = Candidates(f, S)
BY DEF SameRead, Candidates

\* A port keeps its place while nothing that is read changes.
LEMMA InPlaceStays ==
  ASSUME NEW S, NEW f, NEW h, \A q \in S : SameRead(f[q], h[q]),
         SysPrios = {} \/ Unlooped(f, S),
         NEW p \in S, SameMarks(f[p], h[p]), InPlace(f, S, p)
  PROVE  InPlace(h, S, p)
<1> DEFINE C == Candidates(f, S)
           m == f[p].master_port
<1>1. Candidates(h, S) = C BY CandidatesSame
<1>2. h[p].master_port = m /\ h[p].standby = f[p].standby BY DEF SameMarks
<1>3. CASE C = {} BY <1>1, <1>2, <1>3 DEF InPlace
<1>4. CASE C # {}
  <2>1. m \in C /\ (\A q \in C : ~Better(f[q], f[m])) /\ f[p].standby = ~Joins(f, S, f[p], f[m])
    BY <1>4 DEF InPlace
  <2>2. C \subseteq S BY DEF Candidates
  <2> HIDE DEF C, m
  <2>3. \A q \in C : ~Better(h[q], h[m]) BY <2>1, <2>2, BetterSame
  <2>4. Joins(h, S, h[p], h[m]) <=> Joins(f, S, f[p], f[m]) BY <2>1, <2>2, JoinsSame
  <2>5. h[p].standby = ~Joins(h, S, h[p], h[m]) BY <1>2, <2>1, <2>4
  <2> QED BY <1>1, <1>2, <1>4, <2>1, <2>3, <2>5 DEF InPlace
<1> QED BY <1>3, <1>4

\* A refreshed group: keys are as given, the rest is as it was.
LEMMA RefreshFacts ==
  ASSUME NEW f \in [Port -> PortRecord], NEW S \in SUBSET Port,
         NEW key \in [Port -> Word], Numbered(f, S)
  PROVE  /\ RefreshKeys(f, S, key) \in [Port -> PortRecord]
         /\ \A p \in S : /\ RefreshKeys(f, S, key)[p].actor.key = key[p]
                         /\ Apart(RefreshKeys(f, S, key)[p], p)
<1> DEFINE h == RefreshKeys(f, S, key)
<1>1. \A p \in Port : h[p] = IF p \in S THEN [f[p] EXCEPT !.actor.key = key[p]] ELSE f[p]
  BY DEF RefreshKeys
<1>2. DOMAIN h = Port /\ h = [p \in Port |-> h[p]] BY DEF RefreshKeys
<1> HIDE DEF h
<1>3. ASSUME NEW p \in S
      PROVE  /\ h[p] \in PortRecord /\ h[p].actor.key = key[p]
             /\ h[p].actor.port_no = f[p].actor.port_no
  <2> DEFINE t == f[p]
             k == key[p]
             u == h[p]
             i == [t.actor EXCEPT !.key = k]
  <2>1. t \in PortRecord /\ k \in Word BY DEF t, k
  <2>2. u = [t EXCEPT !.actor.key = k] BY <1>1
  <2> HIDE DEF t, k, u
  <2>3. t.actor \in Info BY <2>1 DEF PortRecord
  <2>4. u = [t EXCEPT !.actor = i] BY <2>1, <2>2 DEF PortRecord
  <2>5. i \in Info /\ i.key = k /\ i.port_no = t.actor.port_no BY <2>1, <2>3 DEF Info
  <2> HIDE DEF i
  <2>6. u \in PortRecord /\ u.actor = i BY <2>1, <2>4, <2>5 DEF PortRecord
  <2>7. u \in PortRecord /\ u.actor.key = k /\ u.actor.port_no = t.actor.port_no
    BY <2>5, <2>6
  <2> QED BY <2>7 DEF t, k, u
<1>4. \A p \in Port : h[p] \in PortRecord BY <1>1, <1>3
<1>5. h \in [Port -> PortRecord] BY <1>2, <1>4
<1>6. ASSUME NEW p \in S PROVE h[p].actor.key = key[p] /\ Apart(h[p], p)
  <2>1. /\ h[p].actor.key = key[p] /\ h[p].actor.port_no = f[p].actor.port_no
        /\ h[p] \in PortRecord
    BY <1>3
  <2>2. h[p].actor \in Info /\ h[p].speed \in Nat BY <2>1 DEF PortRecord
  <2>3. h[p].actor.port_priority \in Nat /\ h[p].actor.port_no \in Nat
    BY <2>2, MaxWordBound DEF Info, Word
  <2>4. h[p].actor.port_no = p + 1 BY <2>1 DEF Numbered
  <2>5. ("DEF" \in h[p].actor.state) \in BOOLEAN OBVIOUS
  <2> QED BY <2>1, <2>2, <2>3, <2>4, <2>5 DEF Apart, Ranked, Bit
<1> QED BY <1>5, <1>6 DEF h

\* u is t marked by the update of its group.
IsMarked(t, u, b, m) == u = [t EXCEPT !.selected = TRUE, !.standby = b, !.master_port = m]

\* Marking a port does not change what the selection reads of it.
LEMMA MarkReads ==
  ASSUME NEW t \in PortRecord, NEW b \in BOOLEAN, NEW m, NEW u, IsMarked(t, u, b, m)
  PROVE  SameRead(t, u) /\ u.selected /\ u.standby = b /\ u.master_port = m
<1>1. /\ u.selected = TRUE /\ u.standby = b /\ u.master_port = m
      /\ u.actor = t.actor /\ u.partner = t.partner
      /\ u.port_enabled = t.port_enabled /\ u.lacp_enabled = t.lacp_enabled
      /\ u.speed = t.speed /\ u.duplex = t.duplex
  BY DEF IsMarked, PortRecord
<1>2. SameRead(t, u) BY <1>1 DEF SameRead
<1> QED BY <1>1, <1>2

\* After the update every port of the group has its key, its master and its place.
LEMMA UpdateInPlace ==
  ASSUME NEW f \in [Port -> PortRecord], NEW S \in SUBSET Port,
         NEW key \in [Port -> Word], Numbered(f, S),
         SysPrios = {} \/ Unlooped(f, S), NEW p \in S
  PROVE  /\ UpdateAggPortsSelect(f, S, key)[p].actor.key = key[p]
         /\ InPlace(UpdateAggPortsSelect(f, S, key), S, p)
<1> DEFINE h == RefreshKeys(f, S, key)
           C == Candidates(h, S)
           m == Master(h, C)
           b(q) == IF C = {} THEN TRUE ELSE ~Joins(h, S, h[q], h[m])
           n(q) == IF C = {} THEN q ELSE m
           u == MarkGroup(h, S)
<1>1. /\ h \in [Port -> PortRecord]
      /\ \A q \in S : h[q].actor.key = key[q] /\ Apart(h[q], q)
  BY RefreshFacts
<1>2. UpdateAggPortsSelect(f, S, key) = u BY DEF UpdateAggPortsSelect
<1>3. \A q \in S : u[q] = [h[q] EXCEPT !.selected = TRUE, !.standby = b(q),
                                       !.master_port = n(q)]
  BY <1>1 DEF MarkGroup
<1>4. C \subseteq S BY DEF Candidates
<1>5. C # {} => m \in C /\ \A q \in C : ~Better(h[q], h[m])
  <2>1. C \in SUBSET (0 .. 143) /\ \A q \in C : Ranked(h[q])
    BY <1>1, <1>4, PortAssumption DEF Apart
  <2> HIDE DEF C, h
  <2> QED BY <2>1, MasterIsBest
<1>6. \A q \in S : b(q) \in BOOLEAN BY DEF Joins
<1>7. /\ b(p) <=> (C = {} \/ ~Joins(h, S, h[p], h[m]))
      /\ n(p) = IF C = {} THEN p ELSE m
  OBVIOUS
<1> HIDE DEF h, C, m, b, n, u
<1>8. ASSUME NEW q \in S
      PROVE  SameRead(h[q], u[q]) /\ u[q].standby = b(q) /\ u[q].master_port = n(q)
  <2>1. h[q] \in PortRecord /\ b(q) \in BOOLEAN BY <1>1, <1>6
  <2>2. IsMarked(h[q], u[q], b(q), n(q)) BY <1>3 DEF IsMarked
  <2> QED BY <2>1, <2>2, MarkReads
<1>9. u[p].actor.key = key[p] BY <1>1, <1>8 DEF SameRead
<1>10. Candidates(u, S) = C BY <1>8, CandidatesSame DEF C
<1>11. InPlace(u, S, p)
  <2>1. CASE C = {} BY <1>7, <1>8, <1>10, <2>1 DEF InPlace
  <2>2. CASE C # {}
    <3>1. m \in C /\ m \in S /\ u[p].master_port = m BY <1>4, <1>5, <1>7, <1>8, <2>2
    <3>2. \A q \in C : ~Better(u[q], u[m]) BY <1>4, <1>5, <1>8, <2>2, <3>1, BetterSame
    <3>3. SysPrios = {} \/ Unlooped(h, S)
      <4>1. ASSUME NEW q \in S
            PROVE  /\ h[q].partner = f[q].partner
                   /\ h[q].actor.system_mac = f[q].actor.system_mac
        <5>1. h[q] = [f[q] EXCEPT !.actor.key = key[q]] BY DEF h, RefreshKeys
        <5>2. f[q] \in PortRecord /\ f[q].actor \in Info BY DEF PortRecord
        <5> QED BY <5>1, <5>2 DEF PortRecord, Info
      <4> QED BY <4>1 DEF Unlooped
    <3>4. Joins(u, S, u[p], u[m]) <=> Joins(h, S, h[p], h[m])
      BY <1>8, <3>1, <3>3, JoinsSame
    <3>5. u[p].standby = ~Joins(u, S, u[p], u[m])
      <4>1. Joins(u, S, u[p], u[m]) \in BOOLEAN BY DEF Joins
      <4>2. u[p].standby \in BOOLEAN BY <1>6, <1>8
      <4> QED BY <1>7, <1>8, <2>2, <3>4, <4>1, <4>2
    <3> QED BY <1>10, <2>2, <3>1, <3>2, <3>5 DEF InPlace
  <2> QED BY <2>1, <2>2
<1> QED BY <1>2, <1>9, <1>11

\* A group whose ports all have their keys, masters and places is not changed by an
\* update: the master is the only port of the group that none is better than.
LEMMA UpdateIsIdle ==
  ASSUME NEW f \in [Port -> PortRecord], NEW S \in SUBSET Port,
         NEW key \in [Port -> Word], Numbered(f, S),
         \A p \in S : f[p].selected /\ f[p].actor.key = key[p] /\ InPlace(f, S, p)
  PROVE  UpdateAggPortsSelect(f, S, key) = f
<1>1. RefreshKeys(f, S, key) = f
  <2>1. ASSUME NEW t \in PortRecord PROVE [t EXCEPT !.actor.key = t.actor.key] = t
    <3>1. t.actor \in Info BY DEF PortRecord
    <3>2. [t.actor EXCEPT !.key = t.actor.key] = t.actor BY <3>1 DEF Info
    <3> QED BY <3>2 DEF PortRecord
  <2>2. \A p \in S : [f[p] EXCEPT !.actor.key = key[p]] = f[p] BY <2>1
  <2> QED BY <2>2 DEF RefreshKeys
<1>2. \A p \in S : Apart(f[p], p) BY <1>1, RefreshFacts
<1> DEFINE C == Candidates(f, S)
           m == Master(f, C)
<1>3. ASSUME NEW p \in S, C = {}
      PROVE  [f[p] EXCEPT !.selected = TRUE, !.standby = TRUE, !.master_port = p] = f[p]
  <2>1. f[p].selected /\ f[p].standby /\ f[p].master_port = p BY <1>3 DEF InPlace
  <2>2. f[p] \in PortRecord OBVIOUS
  <2>3. f[p].selected = TRUE /\ f[p].standby = TRUE BY <2>1, <2>2 DEF PortRecord
  <2> QED BY <2>1, <2>2, <2>3 DEF PortRecord
<1>4. ASSUME NEW p \in S, C # {}
      PROVE  [f[p] EXCEPT !.selected = TRUE, !.standby = ~Joins(f, S, f[p], f[m]),
                          !.master_port = m] = f[p]
  <2>1. /\ f[p].selected /\ f[p].master_port \in C
        /\ \A q \in C : ~Better(f[q], f[f[p].master_port])
        /\ f[p].standby = ~Joins(f, S, f[p], f[f[p].master_port])
    BY <1>4 DEF InPlace
  <2>2. C \in SUBSET (0 .. 143) /\ \A q \in C : Apart(f[q], q) /\ Ranked(f[q])
    BY <1>2, PortAssumption DEF Candidates, Apart
  <2> HIDE DEF C
  <2>3. m \in C /\ \A q \in C : ~Better(f[q], f[m]) BY <1>4, <2>2, MasterIsBest
  <2> HIDE DEF m
  <2>4. f[p].master_port = m BY <2>1, <2>2, <2>3, OneBest
  <2>5. f[p] \in PortRecord OBVIOUS
  <2>6. f[p].selected = TRUE BY <2>1, <2>5 DEF PortRecord
  <2> DEFINE s == ~Joins(f, S, f[p], f[m])
  <2>7. f[p].standby = s BY <2>1, <2>4
  <2> HIDE DEF s
  <2>8. [f[p] EXCEPT !.selected = TRUE, !.standby = s, !.master_port = m] = f[p]
    BY <2>4, <2>5, <2>6, <2>7 DEF PortRecord
  <2> QED BY <2>8 DEF s
<1> DEFINE marked(p) ==
             IF C = {}
             THEN [f[p] EXCEPT !.selected = TRUE, !.standby = TRUE, !.master_port = p]
             ELSE [f[p] EXCEPT !.selected = TRUE, !.standby = ~Joins(f, S, f[p], f[m]),
                               !.master_port = m]
<1>5. MarkGroup(f, S) = [p \in Port |-> IF p \in S THEN marked(p) ELSE f[p]]
  BY DEF MarkGroup
<1>6. \A p \in S : marked(p) = f[p] BY <1>3, <1>4
<1> HIDE DEF marked
<1>7. MarkGroup(f, S) = f BY <1>5, <1>6
<1> QED BY <1>1, <1>7 DEF UpdateAggPortsSelect

-----------------------------------------------------------------------------
(* The invariant *)

\* No partner has an address of this bridge.
Foreign == ZeroMac \notin OwnMac /\ \A a \in Remote : a.system_mac \notin OwnMac

\* The cases in which every change of what the selection compares is followed by a
\* selection.  A port is not enabled in a second group, where its first group would
\* miss it; a partner is not taken for the default one, whose return changes DEF
\* alone; and the system priority, by which a port finds itself wired to another,
\* is either never set or never needed.
Regular ==
    /\ ~MayReEnable
    /\ \A a \in Remote : a.system_mac # ZeroMac
    /\ SysPrios = {} \/ Foreign

\* What a port record says of the two ends of the link.
EndsSay(t) ==
    /\ t.agg_id # 0 => t.rx # "BEGIN"
    /\ t.msg.rcvd => t.msg.actor \in Remote
    /\ t.rx # "BEGIN" => (Bit(t.actor, "DEF") <=> t.partner.system_mac = ZeroMac)
    /\ Foreign => /\ t.partner.system_mac \notin OwnMac
                  /\ t.actor_admin.system_mac \in OwnMac
                  /\ t.rx # "BEGIN" => t.actor.system_mac \in OwnMac
EndsOK == \A p \in Listed : EndsSay(port[p])

\* The operational key of a port of a group.
KeyOf(p) == OperKey(port[p].agg_id, attr[p].speed, attr[p].duplex)

\* A group whose ports are all selected, and that no port is being taken out of, is as
\* an update would leave it.
AtRest(g) == \A p \in Members(g) : port[p].selected /\ p \notin args.batch
GroupCurrent(g) ==
    AtRest(g) => \A p \in Members(g) :
                   port[p].actor.key = KeyOf(p) /\ InPlace(port, Members(g), p)
GroupsCurrent == \A g \in Agg : GroupCurrent(g)

CurrentParts == EndsOK /\ GroupsCurrent

CurrentInv == Regular /\ ChipInv /\ CurrentParts

-----------------------------------------------------------------------------
(* What steps keep of it *)

\* u says of the two ends what t says.
SameEnds(t, u) ==
    /\ u.agg_id = t.agg_id /\ u.rx = t.rx /\ u.msg = t.msg
    /\ Bit(u.actor, "DEF") <=> Bit(t.actor, "DEF")
    /\ u.actor.system_mac = t.actor.system_mac
    /\ u.actor_admin.system_mac = t.actor_admin.system_mac
    /\ u.partner.system_mac = t.partner.system_mac

\* u has the group of t and, if it is selected in it, its place.
Held(t, u) ==
    /\ u.agg_id = t.agg_id
    /\ u.agg_id # 0 /\ u.selected => SameRead(t, u) /\ SameMarks(t, u)

Still(t, u) == SameEnds(t, u) /\ Held(t, u)

\* The speed of port p is not new, or the port is not selected.
SpeedStays(p) ==
    port'[p].agg_id # 0 /\ port'[p].selected =>
       attr'[p].speed = attr[p].speed /\ attr'[p].duplex = attr[p].duplex

\* Port p is no reason for its group to be updated, or the group waits for an update.
Undisturbed(p) ==
    \/ ~port'[p].selected
    \/ p \in args'.batch
    \/ /\ p \notin args.batch
       /\ SameRead(port[p], port'[p]) /\ SameMarks(port[p], port'[p])
       /\ attr'[p].speed = attr[p].speed /\ attr'[p].duplex = attr[p].duplex

\* Keeping is reflexive and transitive, and keeps what is said of the ends.
LEMMA StillLaws ==
  /\ \A t : Still(t, t)
  /\ \A t, u, v : Still(t, u) /\ Still(u, v) => Still(t, v)
  /\ \A t, u, v : Held(t, u) /\ Held(u, v) => Held(t, v)
  /\ \A t, u : SameEnds(t, u) /\ EndsSay(t) => EndsSay(u)
<1>1. \A t : Still(t, t) BY DEF Still, SameEnds, Held, SameRead, SameMarks
<1>2. \A t, u, v : SameRead(t, u) /\ SameRead(u, v) => SameRead(t, v)
  BY DEF SameRead, Bit
<1>3. \A t, u, v : Held(t, u) /\ Held(u, v) => Held(t, v)
  BY <1>2 DEF Held, SameMarks
<1>4. \A t, u, v : SameEnds(t, u) /\ SameEnds(u, v) => SameEnds(t, v)
  BY DEF SameEnds, Bit
<1>5. \A t, u : SameEnds(t, u) /\ EndsSay(t) => EndsSay(u)
  BY DEF SameEnds, EndsSay, Bit
<1> QED BY <1>1, <1>3, <1>4, <1>5 DEF Still

\* A record whose ends and place are untouched.
LEMMA OnlyStill ==
  \A t, u :
     Only(t, u, {"sel", "mux", "tx", "current_while", "periodic_timer", "wait_while",
                 "port_moved", "ntt", "ready_n", "hold_count"}) => Still(t, u)
BY DEF Only, Field, Still, SameEnds, Held, SameRead, SameMarks

\* Unselecting a group.
LEMMA ReselectStill ==
  ASSUME NEW f \in [Port -> PortRecord], NEW g, NEW q \in Port
  PROVE  Still(f[q], Reselect(f, g)[q])
<1> DEFINE u == Reselect(f, g)[q]
<1>1. Only(f[q], u, {"selected"}) /\ (u.selected => f[q].selected) BY ReselectFrame
<1>2. u.selected \in BOOLEAN /\ f[q].selected \in BOOLEAN
  <2>1. f[q] \in PortRecord OBVIOUS
  <2>2. u \in {f[q], [f[q] EXCEPT !.selected = FALSE]} BY DEF Reselect
  <2> QED BY <2>1, <2>2 DEF PortRecord
<1> HIDE DEF u
<1>3. Still(f[q], u)
  BY <1>1, <1>2 DEF Only, Field, Still, SameEnds, Held, SameRead, SameMarks
<1> QED BY <1>3 DEF u

\* The ports of one group have their numbers, and no two of them find each other as
\* partners where the system priority may be set.
LEMMA GroupFacts ==
  ASSUME CurrentInv, NEW g \in Agg
  PROVE  /\ Members(g) \in SUBSET Port /\ Members(g) \subseteq Listed
         /\ Numbered(port, Members(g))
         /\ SysPrios = {} \/ Unlooped(port, Members(g))
<1>1. /\ Regular /\ EndsOK /\ OwnOK /\ Listed \subseteq Port
  BY ChipFacts DEF CurrentInv, CurrentParts
<1>2. Members(g) \in SUBSET Port /\ Members(g) \subseteq Listed BY <1>1 DEF Members
<1>3. g # 0 BY AggAssumption
<1>4. \A p \in Members(g) : EndsSay(port[p]) /\ OwnEnd(p, port[p]) /\ port[p].agg_id # 0
  BY <1>1, <1>3 DEF Members, EndsOK, OwnOK
<1>5. Numbered(port, Members(g)) BY <1>4 DEF Numbered, EndsSay, OwnEnd
<1>6. Foreign => Unlooped(port, Members(g)) BY <1>4 DEF EndsSay, Unlooped
<1> QED BY <1>1, <1>2, <1>5, <1>6 DEF Regular

\* A group whose ports are the same and undisturbed stays current.
LEMMA GroupStaysCurrent ==
  ASSUME CurrentInv, NEW g \in Agg, Members(g)' = Members(g),
         \A q \in Members(g) : Undisturbed(q)
  PROVE  GroupCurrent(g)'
<1> DEFINE S == Members(g)
<1> SUFFICES ASSUME \A q \in S : port'[q].selected /\ q \notin args'.batch,
                    NEW p \in S
             PROVE  port'[p].actor.key = KeyOf(p)' /\ InPlace(port', S, p)
  BY DEF GroupCurrent, AtRest
<1>1. \A q \in S :
        /\ q \notin args.batch
        /\ SameRead(port[q], port'[q]) /\ SameMarks(port[q], port'[q])
        /\ attr'[q].speed = attr[q].speed /\ attr'[q].duplex = attr[q].duplex
  BY DEF Undisturbed
<1>2. AtRest(g) BY <1>1 DEF AtRest, SameMarks
<1>3. port[p].actor.key = KeyOf(p) /\ InPlace(port, S, p)
  BY <1>2 DEF CurrentInv, CurrentParts, GroupsCurrent, GroupCurrent
<1>4. SysPrios = {} \/ Unlooped(port, S) BY GroupFacts
<1>5. port'[p].agg_id = port[p].agg_id BY DEF Members
<1> HIDE DEF S
<1>6. InPlace(port', S, p) BY <1>1, <1>3, <1>4, InPlaceStays
<1>7. port'[p].actor.key = KeyOf(p)' BY <1>1, <1>3, <1>5 DEF KeyOf, SameRead
<1> QED BY <1>6, <1>7

\* A step that keeps the list, the groups and the places.
LEMMA GroupsStayCurrent ==
  ASSUME CurrentInv, ports' = ports,
         \A q \in Listed : /\ Held(port[q], port'[q]) /\ SpeedStays(q)
                           /\ q \in args.batch => q \in args'.batch
  PROVE  GroupsCurrent'
<1>1. Listed' = Listed BY DEF Listed
<1>2. ASSUME NEW g \in Agg PROVE GroupCurrent(g)'
  <2>1. Members(g)' = Members(g) BY <1>1 DEF Members, Held
  <2>2. g # 0 BY AggAssumption
  <2>3. ASSUME NEW q \in Members(g) PROVE Undisturbed(q)
    <3>1. q \in Listed /\ port'[q].agg_id # 0 BY <2>1, <2>2 DEF Members, Held
    <3> QED BY <3>1 DEF Undisturbed, Held, SpeedStays
  <2> QED BY <2>1, <2>3, GroupStaysCurrent
<1> QED BY <1>2 DEF GroupsCurrent

\* Such a step, when it keeps the ends as well.
LEMMA CurrentStays ==
  ASSUME CurrentInv, ports' = ports,
         \A q \in Listed : /\ Still(port[q], port'[q]) /\ SpeedStays(q)
                           /\ q \in args.batch => q \in args'.batch
  PROVE  CurrentParts'
<1>1. Listed' = Listed BY DEF Listed
<1>2. EndsOK' BY <1>1, StillLaws DEF CurrentInv, CurrentParts, EndsOK, Still
<1>3. GroupsCurrent' BY GroupsStayCurrent DEF Still
<1> QED BY <1>2, <1>3 DEF CurrentParts

-----------------------------------------------------------------------------
(* The receive machine *)

\* j differs from i in bits only that the selection does not read, DEF aside.
SameEnd(i, j) ==
    /\ \A x \in {"system_priority", "system_mac", "key", "port_priority", "port_no"} :
          j[x] = i[x]
    /\ Bit(j, "AGG") <=> Bit(i, "AGG")

\* LACP_STATE_SET_BIT on a bit other than AGG.
LEMMA SetBitEnd ==
  ASSUME NEW i \in Info, NEW b \in StateBit, b # "AGG", NEW on
  PROVE  /\ SetBit(i, b, on) \in Info /\ SameEnd(i, SetBit(i, b, on))
         /\ b # "DEF" => (Bit(SetBit(i, b, on), "DEF") <=> Bit(i, "DEF"))
<1> DEFINE j == SetBit(i, b, on)
<1>1. /\ j \in Info
      /\ \A x \in {"system_priority", "system_mac", "key", "port_priority", "port_no"} :
            j[x] = i[x]
      /\ \A c \in StateBit : c # b => (c \in j.state <=> c \in i.state)
  BY DEF SetBit, Info
<1>2. "AGG" \in StateBit /\ "DEF" \in StateBit BY DEF StateBit
<1> HIDE DEF j
<1>3. /\ j \in Info /\ SameEnd(i, j)
      /\ b # "DEF" => (Bit(j, "DEF") <=> Bit(i, "DEF"))
  BY <1>1, <1>2 DEF SameEnd, Bit
<1> QED BY <1>3 DEF j

\* LACP_STATE_SET_BIT sets and clears DEF.
LEMMA SetDef ==
  ASSUME NEW i \in Info
  PROVE  Bit(SetBit(i, "DEF", TRUE), "DEF") /\ ~Bit(SetBit(i, "DEF", FALSE), "DEF")
BY DEF SetBit, Bit, Info

\* The entries of lacp_rx_enter_state that set DEF and those that clear it.
LEMMA DefaultedEnd ==
  ASSUME NEW i \in Info
  PROVE  /\ SetBit(SetBit(i, "DEF", TRUE), "EXP", FALSE) \in Info
         /\ SameEnd(i, SetBit(SetBit(i, "DEF", TRUE), "EXP", FALSE))
         /\ Bit(SetBit(SetBit(i, "DEF", TRUE), "EXP", FALSE), "DEF")
         /\ SameEnd(i, SetBit(SetBit(i, "DEF", FALSE), "EXP", FALSE))
         /\ ~Bit(SetBit(SetBit(i, "DEF", FALSE), "EXP", FALSE), "DEF")
<1> DEFINE d == SetBit(i, "DEF", TRUE)
           c == SetBit(i, "DEF", FALSE)
<1>1. "DEF" \in StateBit /\ "EXP" \in StateBit BY DEF StateBit
<1>2. d \in Info /\ c \in Info /\ SameEnd(i, d) /\ SameEnd(i, c)
  BY <1>1, SetBitEnd
<1>3. Bit(d, "DEF") /\ ~Bit(c, "DEF") BY SetDef
<1> HIDE DEF d, c
<1>4. /\ SetBit(d, "EXP", FALSE) \in Info /\ SameEnd(d, SetBit(d, "EXP", FALSE))
      /\ Bit(SetBit(d, "EXP", FALSE), "DEF") <=> Bit(d, "DEF")
      /\ SameEnd(c, SetBit(c, "EXP", FALSE))
      /\ Bit(SetBit(c, "EXP", FALSE), "DEF") <=> Bit(c, "DEF")
  BY <1>1, <1>2, SetBitEnd
<1>5. \A j, k : SameEnd(i, j) /\ SameEnd(j, k) => SameEnd(i, k) BY DEF SameEnd
<1>6. /\ SetBit(d, "EXP", FALSE) \in Info
      /\ SameEnd(i, SetBit(d, "EXP", FALSE)) /\ Bit(SetBit(d, "EXP", FALSE), "DEF")
      /\ SameEnd(i, SetBit(c, "EXP", FALSE)) /\ ~Bit(SetBit(c, "EXP", FALSE), "DEF")
  BY <1>2, <1>3, <1>4, <1>5
<1> QED BY <1>6 DEF d, c

\* The two ends of a record u that receive state s was entered with from record t.
\* The ends stay but for the default partner and for the sender of a LACPDU, and DEF
\* says which it is.
RxEnds(t, u, s) ==
    /\ SameEnd(IF s = "INITIALIZE" THEN t.actor_admin ELSE t.actor, u.actor)
    /\ s \in {"INITIALIZE", "LACP_DISABLED", "DEFAULTED"} =>
          Bit(u.actor, "DEF") /\ u.partner.system_mac = ZeroMac
    /\ s \in {"PORT_DISABLED", "EXPIRED"} =>
          (Bit(u.actor, "DEF") <=> Bit(t.actor, "DEF")) /\ SameEnd(t.partner, u.partner)
    /\ s = "CURRENT" => ~Bit(u.actor, "DEF") /\ SameEnd(t.msg.actor, u.partner)

\* Every entry of lacp_rx_enter_state leaves such a record.
LEMMA RxEndsAre ==
  ASSUME NEW p \in Port, NEW t \in PortRecord, NEW s \in RxState, s # "BEGIN"
  PROVE  RxEnds(t, RxEnter(p, t, s), s)
<1> DEFINE u == RxEnter(p, t, s)
<1>1. /\ t.actor \in Info /\ t.partner \in Info /\ t.actor_admin \in Info
      /\ t.msg.actor \in Info
  BY MsgType DEF PortRecord
<1>2. {"DEF", "EXP", "SYN", "TMT", "AGG"} \subseteq StateBit BY DEF StateBit
<1>3. PartnerAdmin(p).system_mac = ZeroMac BY DEF PartnerAdmin
<1>4. \A i, j, k : SameEnd(i, j) /\ SameEnd(j, k) => SameEnd(i, k) BY DEF SameEnd
<1>5. \A i : SameEnd(i, i) BY DEF SameEnd
<1>6. CASE s = "INITIALIZE"
  <2>1. /\ u.actor = SetBit(SetBit(t.actor_admin, "DEF", TRUE), "EXP", FALSE)
        /\ u.partner = PartnerAdmin(p)
    BY <1>6 DEF RxEnter, EnterInitialize, PortRecord
  <2>2. SameEnd(t.actor_admin, u.actor) /\ Bit(u.actor, "DEF") BY <1>1, <2>1, DefaultedEnd
  <2> HIDE DEF u
  <2> QED BY <1>3, <1>6, <2>1, <2>2 DEF RxEnds, u
<1>7. CASE s = "PORT_DISABLED"
  <2>1. u.actor = t.actor /\ u.partner = SetBit(t.partner, "SYN", FALSE)
    BY <1>7 DEF RxEnter, EnterPortDisabled, PortRecord
  <2>2. SameEnd(t.partner, u.partner) BY <1>1, <1>2, <2>1, SetBitEnd
  <2> HIDE DEF u
  <2> QED BY <1>5, <1>7, <2>1, <2>2 DEF RxEnds, u
<1>8. CASE s = "LACP_DISABLED"
  <2>1. /\ u.actor = SetBit(t.actor, "DEF", TRUE)
        /\ u.partner = SetBit(PartnerAdmin(p), "AGG", FALSE)
    BY <1>8 DEF RxEnter, EnterLacpDisabled, PortRecord
  <2>2. u.partner.system_mac = ZeroMac BY <2>1 DEF SetBit, PartnerAdmin
  <2> HIDE DEF u
  <2>3. SameEnd(t.actor, u.actor) BY <1>1, <1>2, <2>1, SetBitEnd
  <2>4. Bit(u.actor, "DEF") BY <1>1, <2>1, SetDef
  <2> QED BY <1>8, <2>2, <2>3, <2>4 DEF RxEnds, u
<1>9. CASE s = "EXPIRED"
  <2> DEFINE n == SetBit(t.partner, "SYN", FALSE)
  <2>1. u.actor = SetBit(t.actor, "EXP", TRUE) /\ u.partner = SetBit(n, "TMT", TRUE)
    BY <1>9 DEF RxEnter, EnterExpired, PortRecord
  <2>2. n \in Info /\ SameEnd(t.partner, n) BY <1>1, <1>2, SetBitEnd
  <2> HIDE DEF n
  <2>3. SameEnd(t.partner, u.partner) BY <1>2, <1>4, <2>1, <2>2, SetBitEnd
  <2> HIDE DEF u
  <2>4. SameEnd(t.actor, u.actor) /\ (Bit(u.actor, "DEF") <=> Bit(t.actor, "DEF"))
    <3>1. t.actor \in Info /\ "EXP" \in StateBit BY <1>1, <1>2
    <3>2. /\ SameEnd(t.actor, SetBit(t.actor, "EXP", TRUE))
          /\ Bit(SetBit(t.actor, "EXP", TRUE), "DEF") <=> Bit(t.actor, "DEF")
      BY <3>1, SetBitEnd
    <3> QED BY <2>1, <3>2
  <2> QED BY <1>9, <2>3, <2>4 DEF RxEnds, u
<1>10. CASE s = "DEFAULTED"
  <2> DEFINE other == ~SamePartner(PartnerAdmin(p), t.partner)
             lost == SetBit(SetBit(t.actor, "DEF", TRUE), "EXP", FALSE)
             new == IF other THEN SetBit(lost, "SYN", FALSE) ELSE lost
  <2>1. u.actor = new /\ u.partner = PartnerAdmin(p)
    BY <1>10 DEF RxEnter, EnterDefaulted, PortRecord
  <2>2. lost \in Info /\ SameEnd(t.actor, lost) /\ Bit(lost, "DEF")
    BY <1>1, DefaultedEnd
  <2> HIDE DEF lost, other
  <2>3. SameEnd(lost, SetBit(lost, "SYN", FALSE)) /\ Bit(SetBit(lost, "SYN", FALSE), "DEF")
    BY <1>2, <2>2, SetBitEnd
  <2>4. SameEnd(t.actor, new) /\ Bit(new, "DEF") BY <1>4, <2>2, <2>3
  <2> HIDE DEF u, new
  <2> QED BY <1>3, <1>10, <2>1, <2>4 DEF RxEnds, u
<1>11. CASE s = "CURRENT"
  <2> DEFINE b == PartnerMatched(t) /\ Bit(t.msg.actor, "SYN")
  <2>1. /\ u.actor = SetBit(SetBit(t.actor, "DEF", FALSE), "EXP", FALSE)
        /\ u.partner = SetBit(t.msg.actor, "SYN", b)
    BY <1>11 DEF RxEnter, EnterCurrent, PortRecord
  <2> HIDE DEF u, b
  <2>2. SameEnd(t.msg.actor, u.partner) BY <1>1, <1>2, <2>1, SetBitEnd
  <2>3. SameEnd(t.actor, u.actor) /\ ~Bit(u.actor, "DEF") BY <1>1, <2>1, DefaultedEnd
  <2> QED BY <1>11, <2>2, <2>3 DEF RxEnds, u
<1> QED BY <1>6, <1>7, <1>8, <1>9, <1>10, <1>11 DEF RxState

\* An entry of the receive machine keeps what is said of the ends, and unselects the
\* port when it changes what the selection reads: DEF comes and goes with the default
\* partner, and a change of partner unselects the port.
LEMMA RxStill ==
  ASSUME Regular, NEW p \in Port, NEW t \in PortRecord, NEW s \in RxState, RxGoes(t, s),
         EndsSay(t)
  PROVE  EndsSay(RxEnter(p, t, s)) /\ Held(t, RxEnter(p, t, s))
<1> DEFINE u == RxEnter(p, t, s)
<1>1. s # "BEGIN" /\ (s # "INITIALIZE" => t.rx # "BEGIN") BY DEF RxGoes, LinkLost
<1>2. /\ Only(t, u, {"rx", "actor", "partner", "msg", "current_while", "port_moved",
                     "selected", "ntt"})
      /\ u.rx = s /\ RxEnds(t, u, s)
  BY <1>1, RxFrame, RxEndsAre
<1>3. /\ u.agg_id = t.agg_id /\ u.standby = t.standby /\ u.master_port = t.master_port
      /\ u.port_enabled = t.port_enabled /\ u.lacp_enabled = t.lacp_enabled
      /\ u.speed = t.speed /\ u.duplex = t.duplex /\ u.actor_admin = t.actor_admin
  BY <1>2 DEF Only, Field
<1>4. u.msg.rcvd => u.msg = t.msg
  BY <1>1 DEF RxEnter, RxState, EnterInitialize, EnterPortDisabled, EnterLacpDisabled,
     EnterExpired, EnterDefaulted, EnterCurrent, NoMsg, PortRecord
<1>5. s = "CURRENT" => t.msg.actor \in Remote BY DEF RxGoes, EndsSay
<1>6. /\ s \in {"INITIALIZE", "PORT_DISABLED", "LACP_DISABLED"} => ~u.selected
      /\ s = "EXPIRED" => u.selected = t.selected
      /\ s = "CURRENT" => u.selected = (t.selected /\ ~NewPartner(t))
      /\ s = "DEFAULTED" => /\ u.selected = (t.selected /\ SamePartner(PartnerAdmin(p), t.partner))
                            /\ u.partner = PartnerAdmin(p)
  BY DEF RxEnter, RxState, EnterInitialize, EnterPortDisabled, EnterLacpDisabled,
     EnterExpired, EnterDefaulted, EnterCurrent, PortRecord
<1>7. t.selected \in BOOLEAN BY DEF PortRecord
<1> HIDE DEF u
<1>8. EndsSay(u)
  <2>1. Bit(u.actor, "DEF") <=> u.partner.system_mac = ZeroMac
    BY <1>1, <1>2, <1>5 DEF RxState, RxEnds, SameEnd, EndsSay, Regular
  <2>2. Foreign => /\ u.partner.system_mac \notin OwnMac
                   /\ u.actor.system_mac \in OwnMac
    BY <1>1, <1>2, <1>5 DEF RxState, RxEnds, SameEnd, EndsSay, Foreign
  <2> QED BY <1>1, <1>2, <1>3, <1>4, <2>1, <2>2 DEF EndsSay
<1>9. Held(t, u)
  <2> SUFFICES ASSUME t.agg_id # 0, u.selected PROVE SameRead(t, u) /\ t.selected
    BY <1>3, <1>6, <1>7 DEF Held, SameMarks
  <2>1. s \in {"EXPIRED", "DEFAULTED", "CURRENT"} /\ t.selected /\ SameEnd(t.actor, u.actor)
    BY <1>1, <1>2, <1>6 DEF RxState, RxEnds
  <2>2. Bit(t.actor, "DEF") <=> t.partner.system_mac = ZeroMac BY DEF EndsSay
  <2>3. CASE s = "EXPIRED"
    BY <1>2, <1>3, <2>1, <2>3 DEF RxEnds, SameEnd, SameRead
  <2>4. CASE s = "DEFAULTED"
    <3>1. SamePartner(PartnerAdmin(p), t.partner) BY <1>6, <2>4
    <3>2. t.partner.system_mac = ZeroMac BY <3>1 DEF SamePartner, PartnerAdmin
    <3> QED BY <1>2, <1>3, <1>6, <2>1, <2>2, <2>4, <3>1, <3>2
            DEF RxEnds, SameEnd, SameRead, SamePartner
  <2>5. CASE s = "CURRENT"
    <3>1. SamePartner(t.msg.actor, t.partner) BY <1>6, <2>5 DEF NewPartner
    <3>2. t.partner.system_mac # ZeroMac BY <1>5, <2>5, <3>1 DEF SamePartner, Regular
    <3> QED BY <1>2, <1>3, <2>1, <2>2, <2>5, <3>1, <3>2
            DEF RxEnds, SameEnd, SameRead, SamePartner
  <2> QED BY <2>1, <2>3, <2>4, <2>5
<1> QED BY <1>8, <1>9 DEF u

\* A receive step.
LEMMA RunRxCurrent ==
  ASSUME CurrentInv, NEW p \in Port, RunRx(p)
  PROVE  CurrentParts'
<1>1. PICK s \in RxState :
        /\ RxGoes(port[p], s)
        /\ LET f == [port EXCEPT ![p] = RxEnter(p, port[p], s)]
           IN  port' = IF s = "CURRENT" /\ NewPartner(port[p])
                       THEN Reselect(f, port[p].agg_id) ELSE f
  BY DEF RunRx
<1> DEFINE t == RxEnter(p, port[p], s)
           f == [port EXCEPT ![p] = t]
<1>2. /\ Regular /\ EndsOK /\ CurOK /\ port \in [Port -> PortRecord] /\ Listed \subseteq Port
  BY ChipFacts DEF CurrentInv, CurrentParts
<1>3. p \in Listed /\ UNCHANGED <<ports, attr, args>>
  BY <1>2, TurnListed DEF RunRx
<1>4. s # "BEGIN" BY <1>1 DEF RxGoes
<1>5. t \in PortRecord BY <1>2, <1>4, RxEnterType
<1>6. EndsSay(t) /\ Held(port[p], t) BY <1>1, <1>2, <1>3, RxStill DEF EndsOK
<1>7. port' = Reselect(f, port[p].agg_id) \/ port' = f BY <1>1
<1> HIDE DEF t
<1>8. f \in [Port -> PortRecord] BY <1>2, <1>5, PutType
<1>9. \A q \in Port : f[q] = IF q = p THEN t ELSE port[q] BY <1>2
<1> HIDE DEF f
<1>10. \A q \in Port : Still(f[q], port'[q]) BY <1>7, <1>8, ReselectStill, StillLaws
<1>11. \A q \in Listed : EndsSay(f[q]) /\ Held(port[q], f[q])
  BY <1>2, <1>6, <1>9, StillLaws DEF EndsOK, Still
<1>12. \A q \in Listed : EndsSay(port'[q]) /\ Held(port[q], port'[q])
  BY <1>2, <1>10, <1>11, StillLaws DEF Still
<1>13. EndsOK' BY <1>3, <1>12 DEF EndsOK, Listed
<1>14. GroupsCurrent' BY <1>3, <1>12, GroupsStayCurrent DEF SpeedStays
<1> QED BY <1>13, <1>14 DEF CurrentParts

-----------------------------------------------------------------------------
(* The other machines *)

\* A port of a group that nobody is taking out of it is in that group of the stub, and
\* in no other.
LEMMA TidIsGroup ==
  ASSUME CurrentInv, NEW q \in Listed, q \notin args.batch, port[q].agg_id \in Agg
  PROVE  PortTid(q) = port[q].agg_id
<1> DEFINE g == port[q].agg_id
<1>1. Regular /\ TableOK /\ Listed \subseteq Port BY ChipFacts DEF CurrentInv
<1>2. \A h \in Agg : q \in group[h] <=> h = g BY <1>1 DEF Regular, TableOK, InTable
<1>3. {h \in Agg : q \in group[h]} = {g} BY <1>2
<1>4. g \in Agg OBVIOUS
<1> HIDE DEF g
<1>5. (CHOOSE h \in {g} : \A k \in {g} : h <= k) = g
  <2>1. g \in Nat BY <1>4, AggAssumption
  <2> QED BY <2>1
<1>6. PortTid(q) = g BY <1>3, <1>5 DEF PortTid
<1> QED BY <1>6 DEF g

\* A selection step: the group it updates is current afterwards.
LEMMA RunSelCurrent ==
  ASSUME CurrentInv, NEW p \in Port, RunSel(p)
  PROVE  CurrentParts'
<1> DEFINE key == [q \in Port |-> OperKey(PortTid(q), attr[q].speed, attr[q].duplex)]
           f == [port EXCEPT ![p].sel = "SELECTION"]
           alone == [f EXCEPT ![p].selected = TRUE, ![p].standby = TRUE]
           g0 == port[p].agg_id
           S == Members(g0)
           upd == UpdateAggPortsSelect(f, S, key)
<1>1. /\ EndsOK /\ OwnOK /\ CurOK /\ port \in [Port -> PortRecord] /\ Listed \subseteq Port
  BY ChipFacts DEF CurrentInv, CurrentParts
<1>2. p \in Listed BY <1>1, TurnListed DEF RunSel
<1>3. f \in [Port -> PortRecord] BY <1>1 DEF PortRecord, SelState
<1>4. \A q \in Port : Only(port[q], f[q], {"sel"}) BY <1>1 DEF PortRecord, Only, Field
<1>5. \A q \in Port : Still(port[q], f[q])
  <2>1. \A q \in Port :
          Only(port[q], f[q], {"sel", "mux", "tx", "current_while", "periodic_timer",
                 "wait_while", "port_moved", "ntt", "ready_n", "hold_count"})
    BY <1>4 DEF Only
  <2> QED BY <2>1, OnlyStill
<1>6. key \in [Port -> Word] BY PortTidType, OperKeyType
<1>7. S \in SUBSET Port BY <1>1 DEF Members
<1>8. /\ UNCHANGED <<ports, attr, group, args>>
      /\ port' = CASE ~port[p].lacp_enabled -> alone
                   [] port[p].lacp_enabled /\ port[p].agg_id = 0 -> f
                   [] OTHER -> upd
  BY DEF RunSel
<1>9. port[p].lacp_enabled \in BOOLEAN /\ g0 \in Agg \cup {0} BY <1>1 DEF PortRecord
<1>10. Listed' = Listed BY <1>8 DEF Listed
<1>11. \A q \in Listed : key[q] = OperKey(PortTid(q), attr[q].speed, attr[q].duplex)
  BY <1>1
<1> HIDE DEF f, key
<1>12. CASE port' = f BY <1>1, <1>5, <1>8, <1>12, CurrentStays DEF SpeedStays
<1>13. CASE ~port[p].lacp_enabled
  <2> DEFINE t == [f[p] EXCEPT !.selected = TRUE, !.standby = TRUE]
  <2>1. port' = alone BY <1>8, <1>13
  <2>2. \A q \in Port : port'[q] = IF q = p THEN t ELSE f[q] BY <1>3, <2>1
  <2>3. Only(f[p], t, {"selected", "standby"})
    <3>1. f[p] \in PortRecord BY <1>3
    <3> QED BY <3>1 DEF PortRecord, Only, Field
  <2> HIDE DEF t
  <2>4. port[p].agg_id = 0 BY <1>1, <1>2, <1>13 DEF OwnOK, OwnEnd
  <2>5. Still(f[p], t)
    BY <1>5, <2>3, <2>4 DEF Only, Field, Still, SameEnds, Held
  <2>6. \A q \in Listed : Still(port[q], port'[q])
    BY <1>1, <1>5, <2>2, <2>5, StillLaws
  <2> QED BY <1>8, <2>6, CurrentStays DEF SpeedStays
<1>14. CASE port' = upd /\ g0 # 0
  <2>1. \A q \in Port :
          /\ Only(f[q], port'[q], {"actor", "selected", "standby", "master_port"})
          /\ \A x \in DOMAIN f[q].actor \ {"key"} : port'[q].actor[x] = f[q].actor[x]
          /\ q \notin S => port'[q] = f[q]
    BY <1>3, <1>6, <1>7, <1>14, UpdateAggFrame
  <2>2. \A q \in Port : SameEnds(f[q], port'[q])
    <3>1. \A q \in Port : f[q].actor \in Info BY <1>3 DEF PortRecord
    <3> QED BY <2>1, <3>1 DEF Only, Field, SameEnds, Info, Bit
  <2>3. EndsOK'
    BY <1>1, <1>5, <1>10, <2>2, StillLaws DEF EndsOK, Still
  <2>4. \A q \in Port : port'[q].agg_id = port[q].agg_id
    BY <1>5, <2>2 DEF Still, SameEnds
  <2>5. ASSUME NEW g \in Agg PROVE GroupCurrent(g)'
    <3>1. Members(g)' = Members(g) BY <1>1, <1>10, <2>4 DEF Members
    <3>2. CASE g = g0
      <4>1. Numbered(f, S) /\ (SysPrios = {} \/ Unlooped(f, S))
        <5>1. Numbered(port, S) /\ (SysPrios = {} \/ Unlooped(port, S))
          BY <3>2, GroupFacts
        <5>2. \A q \in S : f[q].actor = port[q].actor /\ f[q].partner = port[q].partner
          BY <1>4, <1>7 DEF Only, Field
        <5> QED BY <5>1, <5>2 DEF Numbered, Unlooped
      <4>2. \A q \in S : port'[q].actor.key = key[q] /\ InPlace(port', S, q)
        BY <1>3, <1>6, <1>7, <1>14, <4>1, UpdateInPlace
      <4>3. ASSUME NEW q \in S, q \notin args.batch PROVE key[q] = KeyOf(q)'
        <5>1. q \in Listed /\ port[q].agg_id = g BY <3>2 DEF Members
        <5>2. PortTid(q) = port[q].agg_id BY <4>3, <5>1, TidIsGroup
        <5> QED BY <1>1, <1>8, <1>11, <2>4, <5>1, <5>2 DEF KeyOf
      <4> QED BY <1>8, <3>1, <3>2, <4>2, <4>3 DEF GroupCurrent, AtRest
    <3>3. CASE g # g0
      <4>1. \A q \in Members(g) : q \in Port /\ q \notin S BY <1>1, <3>3 DEF Members
      <4>2. \A q \in Members(g) : Still(port[q], port'[q]) /\ port'[q].agg_id # 0
        BY <1>5, <2>1, <2>4, <4>1, AggAssumption DEF Members
      <4>3. \A q \in Members(g) : Undisturbed(q)
        BY <1>8, <4>2 DEF Undisturbed, Still, Held
      <4> QED BY <3>1, <4>3, GroupStaysCurrent
    <3> QED BY <3>2, <3>3
  <2> QED BY <2>3, <2>5 DEF CurrentParts, GroupsCurrent
<1> QED BY <1>8, <1>9, <1>12, <1>13, <1>14

\* A mux step: the bits it sets are not read by the selection.
LEMMA RunMuxCurrent ==
  ASSUME CurrentInv, NEW p \in Port, RunMux(p)
  PROVE  CurrentParts'
<1>1. PICK s \in MuxState :
        /\ MuxGoes(port[p], SysIsReady(p), s)
        /\ port' = [port EXCEPT ![p] = MuxEnter(port[p], s)]
        /\ attr' = [attr EXCEPT ![p] = MuxChip(attr[p], port[p].agg_id, s)]
  BY DEF RunMux
<1>2. /\ port \in [Port -> PortRecord] /\ attr \in [Port -> Attr] /\ Listed \subseteq Port
  BY ChipFacts DEF CurrentInv
<1>3. UNCHANGED <<ports, args>> BY DEF RunMux
<1>4. s # "BEGIN" BY <1>1 DEF MuxGoes
<1> DEFINE t == port[p]
           u == MuxEnter(t, s)
<1>5. /\ Only(t, u, {"mux", "ntt", "actor", "wait_while", "ready_n"})
      /\ \A x \in DOMAIN t.actor \ {"state"} : u.actor[x] = t.actor[x]
      /\ t \in PortRecord /\ t.actor \in Info
  BY <1>2, <1>4, MuxFrame DEF PortRecord
<1> HIDE DEF t
<1>6. (Bit(u.actor, "DEF") <=> Bit(t.actor, "DEF")) /\ (Bit(u.actor, "AGG") <=> Bit(t.actor, "AGG"))
  BY <1>4, <1>5 DEF MuxEnter, MuxState, EnterWaiting, MuxBits, Bit, PortRecord, Info
<1> HIDE DEF u
<1>7. Still(t, u)
  BY <1>5, <1>6 DEF Only, Field, Still, SameEnds, Held, SameRead, SameMarks, Info
<1>8. \A q \in Port : Still(port[q], port'[q]) BY <1>1, <1>2, <1>7, StillLaws DEF t, u
<1>9. \A q \in Port : attr'[q].speed = attr[q].speed /\ attr'[q].duplex = attr[q].duplex
  <2>1. ASSUME NEW a \in Attr, NEW g
        PROVE  MuxChip(a, g, s).speed = a.speed /\ MuxChip(a, g, s).duplex = a.duplex
    BY DEF MuxChip, Attr
  <2> QED BY <1>1, <1>2, <2>1
<1> QED BY <1>2, <1>3, <1>8, <1>9, CurrentStays DEF SpeedStays

\* A transmit step.
LEMMA RunTxCurrent ==
  ASSUME CurrentInv, NEW p \in Port, RunTx(p)
  PROVE  CurrentParts'
<1>1. PICK s \in TxState :
        /\ TxGoes(port[p], s)
        /\ port' = [port EXCEPT ![p] = TxEnter(port[p], sys.slow_periodic_time,
                                               sys.fast_periodic_time, s)]
  BY DEF RunTx
<1>2. s # "BEGIN" BY <1>1 DEF TxGoes
<1>3. ASSUME NEW t \in PortRecord, NEW slow, NEW fast
      PROVE  Still(t, TxEnter(t, slow, fast, s))
  BY <1>2, TxFrame, OnlyStill DEF Only
<1>4. port \in [Port -> PortRecord] /\ Listed \subseteq Port BY ChipFacts DEF CurrentInv
<1>5. \A q \in Port : Still(port[q], port'[q]) BY <1>1, <1>3, <1>4, StillLaws
<1>6. UNCHANGED <<ports, attr, args>> BY DEF RunTx
<1> QED BY <1>4, <1>5, <1>6, CurrentStays DEF SpeedStays

\* A step that changes neither the ports nor their speeds, and takes ports out of the
\* batch only when it is over and none of them is left.
LEMMA NoPortCurrent ==
  ASSUME CurrentInv, UNCHANGED <<ports, port>>,
         \A q \in Listed : attr'[q].speed = attr[q].speed /\ attr'[q].duplex = attr[q].duplex,
         args.batch \cap Listed \subseteq args'.batch
  PROVE  CurrentParts'
BY StillLaws, CurrentStays DEF SpeedStays

\* The update returns.
LEMMA UpdateReturnsCurrent ==
  ASSUME CurrentInv, UpdateReturns
  PROVE  CurrentParts'
<1>1. UNCHANGED <<ports, port, attr>> BY DEF UpdateReturns
<1>2. LeftOK /\ CallOK BY ChipFacts DEF CurrentInv
<1>3. args.batch \cap Listed \subseteq args'.batch
  <2>1. CASE ret = "idle"
    <3>1. args.batch = {} BY <1>2, <2>1 DEF LeftOK, Disabling, UpdateReturns
    <3> QED BY <3>1
  <2>2. CASE ret # "idle"
    BY <2>2 DEF UpdateReturns
  <2> QED BY <2>1, <2>2
<1> QED BY <1>1, <1>3, NoPortCurrent

-----------------------------------------------------------------------------
(* The calls *)

\* The passing of a second.
LEMMA OneSecondCurrent ==
  ASSUME CurrentInv, OneSecond
  PROVE  CurrentParts'
<1>1. port \in [Port -> PortRecord] /\ Listed \subseteq Port BY ChipFacts DEF CurrentInv
<1>2. \A t \in PortRecord : Still(t, Ticked(t)) BY TickedFrame, OnlyStill DEF Only
<1>3. /\ port' = [p \in Port |-> IF p \in Listed THEN Ticked(port[p]) ELSE port[p]]
      /\ UNCHANGED <<ports, attr, args>>
  BY DEF OneSecond, CallUpdate
<1>4. \A q \in Port : Still(port[q], port'[q]) BY <1>1, <1>2, <1>3, StillLaws
<1> QED BY <1>1, <1>3, <1>4, CurrentStays DEF SpeedStays

\* A LACPDU is stored; its sender is a partner of the kind assumed.
LEMMA RxLacpduCurrent ==
  ASSUME CurrentInv, NEW p \in Port, NEW m \in Msg, m.actor \in Remote, RxLacpdu(p, m)
  PROVE  CurrentParts'
<1>1. /\ EndsOK /\ port \in [Port -> PortRecord] /\ Listed \subseteq Port
  BY ChipFacts DEF CurrentInv, CurrentParts
<1>2. UNCHANGED <<ports, attr, args>> BY DEF RxLacpdu, CallUpdate
<1>3. \A q \in Port : Only(port[q], port'[q], {"msg", "port_moved"})
  BY <1>1, RxLacpduFrame
<1>4. \A q \in Port : port'[q].msg \in {m, port[q].msg}
  <2>1. \A t \in PortRecord : [t EXCEPT !.msg = m].msg = m BY DEF PortRecord
  <2>2. ASSUME NEW t \in PortRecord, NEW b
        PROVE  [t EXCEPT !.port_moved = @ \/ b].msg = t.msg
    BY DEF PortRecord
  <2>3. \/ port' = port
        \/ port' = [q \in Port |->
                      IF q = p THEN [port[p] EXCEPT !.msg = m]
                      ELSE [port[q] EXCEPT !.port_moved = @ \/ Moved(p, m, q)]]
    BY DEF RxLacpdu
  <2>4. ASSUME NEW q \in Port PROVE port'[q].msg \in {m, port[q].msg}
    <3> DEFINE b == Moved(p, m, q)
    <3>1. port'[q] \in {port[q], [port[p] EXCEPT !.msg = m],
                        [port[q] EXCEPT !.port_moved = @ \/ b]}
      BY <2>3
    <3>2. port[p] \in PortRecord /\ port[q] \in PortRecord BY <1>1
    <3> HIDE DEF b
    <3>3. [port[p] EXCEPT !.msg = m].msg = m BY <2>1, <3>2
    <3>4. [port[q] EXCEPT !.port_moved = @ \/ b].msg = port[q].msg BY <2>2, <3>2
    <3> QED BY <3>1, <3>3, <3>4
  <2> QED BY <2>4
<1>5. \A q \in Port : Held(port[q], port'[q])
  BY <1>3 DEF Only, Field, Held, SameRead, SameMarks
<1>6. ASSUME NEW q \in Listed PROVE EndsSay(port'[q])
  <2>1. EndsSay(port[q]) /\ q \in Port BY <1>1 DEF EndsOK
  <2>2. port'[q].msg.rcvd => port'[q].msg.actor \in Remote BY <1>4, <2>1 DEF EndsSay
  <2> QED BY <1>3, <2>1, <2>2 DEF Only, Field, EndsSay
<1>7. EndsOK' BY <1>2, <1>6 DEF EndsOK, Listed
<1>8. GroupsCurrent' BY <1>1, <1>2, <1>5, GroupsStayCurrent DEF SpeedStays
<1> QED BY <1>7, <1>8 DEF CurrentParts

\* A change of the link: the port is unselected, or has no group.
LEMMA LinkChangedStill ==
  ASSUME CurrentInv, NEW p \in Listed, NEW up \in BOOLEAN, NEW q \in Listed
  PROVE  Still(port[q], LinkChanged(p, up)[q])
<1> DEFINE t == WithLink(port[p], attr[p], up)
           f == [port EXCEPT ![p] = t]
           g == port[p].agg_id
           u == LinkChanged(p, up)[q]
<1>1. port \in [Port -> PortRecord] /\ p \in Port /\ q \in Port /\ TypeInv
  BY ChipFacts DEF CurrentInv
<1>2. t \in PortRecord BY <1>1, VarTypes, WithLinkType
<1>3. /\ Only(port[p], t, {"port_enabled", "speed", "duplex", "actor"})
      /\ \A x \in DOMAIN port[p].actor \ {"state"} : t.actor[x] = port[p].actor[x]
      /\ port[p] \in PortRecord /\ port[p].actor \in Info
  BY <1>1, WithLinkFrame DEF PortRecord
<1>4. LinkChanged(p, up) = Reselect(f, g) BY <1>1 DEF LinkChanged
<1>5. Bit(t.actor, "DEF") <=> Bit(port[p].actor, "DEF")
  BY <1>3 DEF WithLink, SetBit, Bit, PortRecord, Info
<1> HIDE DEF t
<1>6. SameEnds(port[p], t) BY <1>3, <1>5 DEF Only, Field, SameEnds, Info
<1>7. f \in [Port -> PortRecord] BY <1>1, <1>2, PutType
<1>8. f[q] = IF q = p THEN t ELSE port[q] BY <1>1
<1> HIDE DEF f
<1>9. Still(f[q], u) BY <1>1, <1>4, <1>7, ReselectStill
<1>10. q = p => g = 0 \/ ~u.selected
  <2>1. q = p => f[q].agg_id = g BY <1>6, <1>8 DEF SameEnds
  <2> QED BY <1>1, <1>4, <1>7, <2>1, ReselectFrame
<1> HIDE DEF u
<1>11. Still(port[q], u)
  <2>1. CASE q # p BY <1>8, <1>9, <2>1
  <2>2. CASE q = p
    <3>1. SameEnds(port[q], u)
      BY <1>6, <1>8, <1>9, <2>2 DEF Still, SameEnds, Bit
    <3> QED BY <1>10, <2>2, <3>1 DEF Still, SameEnds, Held
  <2> QED BY <2>1, <2>2
<1> QED BY <1>11 DEF u

\* The calls on links.
LEMMA LinkCurrent ==
  ASSUME CurrentInv, NEW p \in Port, NEW up \in BOOLEAN, LinkChange(p, up) \/ SetLink(p, up)
  PROVE  CurrentParts'
<1>1. attr \in [Port -> Attr] /\ Listed \subseteq Port BY ChipFacts DEF CurrentInv
<1>2. LinkIndication(p, up) BY DEF LinkChange, SetLink
<1>3. \A q \in Port : attr'[q].speed = attr[q].speed /\ attr'[q].duplex = attr[q].duplex
  <2>1. \A a \in Attr : /\ [a EXCEPT !.link_status = up].speed = a.speed
                        /\ [a EXCEPT !.link_status = up].duplex = a.duplex
    BY DEF Attr
  <2>2. attr' = attr \/ attr' = [attr EXCEPT ![p] = [attr[p] EXCEPT !.link_status = up]]
    BY <1>1 DEF LinkChange, SetLink
  <2> QED BY <1>1, <2>1, <2>2
<1>4. CASE p \in Listed /\ port' = LinkChanged(p, up) /\ CallUpdate
  <2>1. ports' = ports /\ args' = args BY <1>4 DEF CallUpdate
  <2>2. \A q \in Listed : Still(port[q], port'[q]) BY <1>4, LinkChangedStill
  <2> QED BY <1>1, <1>3, <2>1, <2>2, CurrentStays DEF SpeedStays
<1>5. CASE UNCHANGED <<ports, port, group, cur, pc, ret, args>>
  BY <1>1, <1>3, <1>5, NoPortCurrent
<1> QED BY <1>2, <1>4, <1>5 DEF LinkIndication

\* A group is unselected after the record or the speed of one of its ports changed.
LEMMA ReselectCurrent ==
  ASSUME CurrentInv, NEW p \in Port, NEW f \in [Port -> PortRecord], UNCHANGED <<ports, args>>,
         port' = Reselect(f, port[p].agg_id),
         \A q \in Port : SameEnds(port[q], f[q]),
         \A q \in Port : q # p => f[q] = port[q] /\ attr'[q] = attr[q]
  PROVE  CurrentParts'
<1> DEFINE g == port[p].agg_id
<1>1. Listed \subseteq Port BY ChipFacts DEF CurrentInv
<1>2. \A q \in Port : Still(f[q], port'[q]) BY ReselectStill
<1>3. p \in Listed => g = 0 \/ ~port'[p].selected
  <2>1. f[p].agg_id = g BY DEF SameEnds
  <2> QED BY <2>1, ReselectFrame
<1>4. \A q \in Port : SameEnds(port[q], port'[q]) BY <1>2 DEF Still, SameEnds, Bit
<1>5. ASSUME NEW q \in Listed PROVE Still(port[q], port'[q]) /\ SpeedStays(q)
  <2>1. CASE q # p BY <1>1, <1>2, <2>1 DEF SpeedStays
  <2>2. CASE q = p
    BY <1>1, <1>3, <1>4, <2>2 DEF Still, SameEnds, Held, SpeedStays
  <2> QED BY <2>1, <2>2
<1> QED BY <1>5, CurrentStays

\* A priority is stored.
LEMMA WithPrioEnds ==
  ASSUME NEW f \in [Port -> PortRecord], NEW p \in Port, NEW v, NEW q \in Port
  PROVE  SameEnds(f[q], WithPrio(f, p, v)[q]) /\ (q # p => WithPrio(f, p, v)[q] = f[q])
<1> DEFINE u == WithPrio(f, p, v)[q]
<1>1. /\ Only(f[q], u, {"actor", "actor_admin"})
      /\ \A x \in DOMAIN f[q].actor \ {"port_priority"} : u.actor[x] = f[q].actor[x]
      /\ \A x \in DOMAIN f[q].actor_admin \ {"port_priority"} :
            u.actor_admin[x] = f[q].actor_admin[x]
      /\ q # p => u = f[q]
  BY WithPrioFrame
<1>2. f[q].actor \in Info /\ f[q].actor_admin \in Info BY DEF PortRecord
<1> HIDE DEF u
<1>3. SameEnds(f[q], u) BY <1>1, <1>2 DEF Only, Field, SameEnds, Bit, Info
<1> QED BY <1>1, <1>3 DEF u

\* The calls that set speed, duplex mode and priority of a port.
LEMMA AttrCurrent ==
  ASSUME CurrentInv, NEW p \in Port, NEW v \in Nat, NEW b \in BOOLEAN,
         SetSpeed(p, v) \/ SetDuplex(p, b) \/ SetPortPrio(p, v)
  PROVE  CurrentParts'
<1>1. /\ port \in [Port -> PortRecord] /\ attr \in [Port -> Attr] /\ Listed \subseteq Port
  BY ChipFacts DEF CurrentInv
<1>2. CASE SetSpeed(p, v) \/ SetDuplex(p, b)
  <2>1. PICK a : attr' = [attr EXCEPT ![p] = a] /\ port' = Reselect(port, port[p].agg_id)
                   /\ CallUpdate
    BY <1>2 DEF SetSpeed, SetDuplex, SetAttr
  <2>2. \A q \in Port : SameEnds(port[q], port[q]) BY StillLaws DEF Still
  <2>3. \A q \in Port : q # p => attr'[q] = attr[q] BY <1>1, <2>1
  <2>4. UNCHANGED <<ports, args>> BY <2>1 DEF CallUpdate
  <2> QED BY <1>1, <2>1, <2>2, <2>3, <2>4, ReselectCurrent
<1>3. CASE SetPortPrio(p, v)
  <2>1. attr' = [attr EXCEPT ![p].prio = v] BY <1>3 DEF SetPortPrio
  <2>2. \A q \in Port : attr'[q].speed = attr[q].speed /\ attr'[q].duplex = attr[q].duplex
    BY <1>1, <2>1 DEF Attr
  <2>3. CASE p \in Listed /\ CallUpdate
             /\ port' = Reselect(WithPrio(port, p, v), port[p].agg_id)
    <3> DEFINE w == WithPrio(port, p, v)
    <3>1. w \in [Port -> PortRecord] BY <1>1, WithPrioType
    <3>2. \A q \in Port : SameEnds(port[q], w[q]) /\ (q # p => w[q] = port[q])
      BY <1>1, WithPrioEnds
    <3>3. UNCHANGED <<ports, args>> BY <2>3 DEF CallUpdate
    <3>4. \A q \in Port : q # p => attr'[q] = attr[q] BY <1>1, <2>1
    <3> HIDE DEF w
    <3> QED BY <2>3, <3>1, <3>2, <3>3, <3>4, ReselectCurrent DEF w
  <2>4. CASE UNCHANGED <<ports, port, args>>
    BY <1>1, <2>2, <2>4, NoPortCurrent
  <2> QED BY <1>3, <2>3, <2>4 DEF SetPortPrio, CallUpdate
<1> QED BY <1>2, <1>3

\* The counters of a port are cleared.
LEMMA ClearStatCurrent ==
  ASSUME CurrentInv, NEW p \in Port, ClearStat(p)
  PROVE  CurrentParts'
BY NoPortCurrent DEF ClearStat, CallUpdate

\* The calls that set what the whole system uses.
LEMMA SysCurrent ==
  ASSUME CurrentInv, NEW s, SysSetCfg(s), SysPrios = {} => s.priority = sys.priority
  PROVE  CurrentParts'
<1> DEFINE told(t) ==
      [t EXCEPT !.actor = SetBit([@ EXCEPT !.system_priority = s.priority],
                                 "TMT", s.lacp_timeout),
                !.ntt = TRUE]
<1>1. /\ port \in [Port -> PortRecord] /\ Listed \subseteq Port /\ OwnOK
  BY ChipFacts DEF CurrentInv
<1>2. /\ port' = [p \in Port |-> IF p \in Listed THEN told(port[p]) ELSE port[p]]
      /\ pc = "idle" /\ UNCHANGED <<ports, attr, args>>
  BY DEF SysSetCfg, CallUpdate
<1>3. ASSUME NEW t \in PortRecord, SysPrios = {} => t.actor.system_priority = s.priority
      PROVE  Still(t, told(t))
  <2> DEFINE u == told(t)
             pr == s.priority
             a == SetBit([t.actor EXCEPT !.system_priority = pr], "TMT", s.lacp_timeout)
  <2>1. u = [t EXCEPT !.actor = a, !.ntt = TRUE] BY DEF PortRecord
  <2>2. t.actor \in Info BY DEF PortRecord
  <2>3. /\ \A x \in DOMAIN t.actor \ {"state", "system_priority"} : a[x] = t.actor[x]
        /\ a.system_priority = pr
        /\ Bit(a, "DEF") <=> Bit(t.actor, "DEF")
        /\ Bit(a, "AGG") <=> Bit(t.actor, "AGG")
    BY <2>2 DEF SetBit, Bit, Info
  <2> HIDE DEF a, u
  <2>4. Only(t, u, {"actor", "ntt"}) /\ u.actor = a BY <2>1 DEF PortRecord, Only, Field
  <2>5. SysPrios = {} => t.actor.system_priority = pr BY <1>3
  <2> HIDE DEF pr
  <2>6. Still(t, u)
    BY <2>2, <2>3, <2>4, <2>5
       DEF Only, Field, Still, SameEnds, Held, SameRead, SameMarks, Info
  <2> QED BY <2>6 DEF u
<1> HIDE DEF told
<1>4. ASSUME NEW q \in Listed PROVE Still(port[q], port'[q])
  <2>1. q \in Port /\ port[q] \in PortRecord /\ port[q].rx # "BEGIN"
    BY <1>2, RestIsSettled, SettledRecord DEF CurrentInv
  <2>2. SysPrios = {} => port[q].actor.system_priority = s.priority
    BY <1>1, <2>1 DEF OwnOK, OwnEnd
  <2> QED BY <1>2, <1>3, <2>1, <2>2
<1> QED BY <1>2, <1>4, CurrentStays DEF SpeedStays

-----------------------------------------------------------------------------
(* trunk_port_lacp_enable *)

\* The port is created; it has no group yet.
LEMMA EnableCurrent ==
  ASSUME CurrentInv, NEW p \in Port, NEW g \in Agg, Enable(p, g)
  PROVE  CurrentParts'
<1>1. /\ Regular /\ EndsOK /\ PortsOK /\ LeftOK /\ CallOK /\ ports \in Seq(Port)
      /\ port \in [Port -> PortRecord] /\ Listed \subseteq Port
  BY ChipFacts DEF CurrentInv, CurrentParts
<1>2. pc = "idle" /\ attr' = attr BY DEF Enable
<1>3. args.batch = {} BY <1>1, <1>2 DEF LeftOK, Disabling, CallOK
<1>4. CASE Creates(p)
  <2>1. PICK mac \in OwnMac : /\ ports' = <<p>> \o ports
                              /\ port' = [port EXCEPT ![p] = FreshPort(p, mac)]
    BY <1>4 DEF Enable
  <2> DEFINE t == FreshPort(p, mac)
  <2>2. Listed' = Listed \cup {p} /\ p \notin Listed
    BY <1>1, <1>4, <2>1, PrependList DEF PortsOK, Creates, Listed
  <2>3. \A q \in Port : port'[q] = IF q = p THEN t ELSE port[q] BY <1>1, <2>1
  <2>4. /\ t.rx = "BEGIN" /\ t.agg_id = 0 /\ t.msg = NoMsg /\ t.partner = ZeroInfo
        /\ t.actor_admin = ActorInit(p, mac, sys.priority, sys.lacp_timeout)
    BY DEF FreshPort, ZeroPort
  <2>5. t.actor_admin.system_mac = mac BY <2>4 DEF ActorInit
  <2> HIDE DEF t
  <2>6. EndsSay(t) BY <1>1, <2>4, <2>5 DEF EndsSay, Foreign, NoMsg, ZeroInfo
  <2>7. EndsOK' BY <1>1, <2>2, <2>3, <2>6 DEF EndsOK
  <2>8. ASSUME NEW h \in Agg PROVE GroupCurrent(h)'
    <3>1. h # 0 BY AggAssumption
    <3>2. Members(h)' = Members(h) BY <1>1, <2>2, <2>3, <2>4, <3>1 DEF Members
    <3>3. \A q \in Members(h) : port'[q] = port[q]
      BY <1>1, <2>2, <2>3 DEF Members
    <3>4. \A q \in Members(h) : Undisturbed(q)
      BY <1>2, <1>3, <3>3 DEF Undisturbed, SameRead, SameMarks
    <3> QED BY <3>2, <3>4, GroupStaysCurrent
  <2> QED BY <2>7, <2>8 DEF CurrentParts, GroupsCurrent
<1>5. CASE ~Creates(p)
  <2>1. ports' = ports /\ port' = port BY <1>5 DEF Enable
  <2> QED BY <1>2, <1>3, <2>1, NoPortCurrent
<1> QED BY <1>4, <1>5

\* The port joins its group, all of which is unselected.
LEMMA EnableCfgCurrent ==
  ASSUME CurrentInv, EnableCfg
  PROVE  CurrentParts'
<1> DEFINE p == args.port
           g == args.agg
           prio == IF attr[p].prio = NoPrio THEN Default_port_priority ELSE attr[p].prio
           f == [port EXCEPT ![p].actor_admin = SetBit(@, "AGG", TRUE),
                             ![p].actor = SetBit(@, "AGG", TRUE),
                             ![p].agg_id = g,
                             ![p].lacp_enabled = TRUE]
           i == SetBit(port[p].actor_admin, "AGG", TRUE)
           a == SetBit(port[p].actor, "AGG", TRUE)
           t == [port[p] EXCEPT !.actor_admin = i, !.actor = a, !.agg_id = g,
                                !.lacp_enabled = TRUE]
           w == WithPrio(f, p, prio)
<1>1. /\ Regular /\ EndsOK /\ OwnOK /\ TableOK /\ LeftOK /\ CallOK /\ TypeInv
      /\ port \in [Port -> PortRecord] /\ attr \in [Port -> Attr] /\ Listed \subseteq Port
  BY ChipFacts DEF CurrentInv, CurrentParts
<1>2. p \in Port /\ g \in Agg BY <1>1 DEF EnableCfg, CallOK
<1>3. pc = "enable_cfg" /\ UNCHANGED <<ports, attr, args>>
  BY DEF EnableCfg, StartUpdate
<1>4. args.batch = {} BY <1>1, <1>3 DEF LeftOK, Disabling, CallOK
<1>5. port' = IF p \in Listed THEN Reselect(w, g) ELSE port BY DEF EnableCfg
<1>6. prio \in Nat BY <1>1, <1>2 DEF Attr, NoPrio, Default_port_priority
<1>7. f = [port EXCEPT ![p] = t]
  <2>1. port[p] \in PortRecord /\ DOMAIN port = Port BY <1>1, <1>2
  <2> HIDE DEF p, g
  <2> QED BY <1>2, <2>1 DEF PortRecord
<1>8. CASE p \notin Listed
  BY <1>3, <1>4, <1>5, <1>8, NoPortCurrent
<1>9. CASE p \in Listed
  <2>1. port[p].agg_id = 0 /\ port[p].rx # "BEGIN" /\ port[p] \in PortRecord
    <3>1. ~port[p].lacp_enabled BY <1>1, <1>3, <1>9 DEF Regular, TableOK
    <3>2. port[p].agg_id = 0 BY <1>1, <1>9, <3>1 DEF OwnOK, OwnEnd
    <3>3. port[p].rx # "BEGIN" /\ port[p] \in PortRecord
      BY <1>3, <1>9, RestIsSettled, SettledRecord DEF CurrentInv
    <3> QED BY <3>2, <3>3
  <2>2. /\ i \in Info /\ a \in Info
        /\ i.system_mac = port[p].actor_admin.system_mac
        /\ a.system_mac = port[p].actor.system_mac
        /\ Bit(a, "DEF") <=> Bit(port[p].actor, "DEF")
    <3>1. port[p].actor \in Info /\ port[p].actor_admin \in Info BY <2>1 DEF PortRecord
    <3>2. "AGG" \in StateBit BY DEF StateBit
    <3> QED BY <3>1, <3>2 DEF SetBit, Bit, Info
  <2> HIDE DEF f, prio, i, a, g, p
  <2>3. /\ t \in PortRecord /\ t.agg_id = g
        /\ Only(port[p], t, {"actor_admin", "actor", "agg_id", "lacp_enabled"})
        /\ t.actor_admin = i /\ t.actor = a
    BY <1>2, <2>1, <2>2 DEF PortRecord, Only, Field
  <2> HIDE DEF t
  <2>4. EndsSay(t)
    <3>1. EndsSay(port[p]) BY <1>1, <1>9 DEF EndsOK
    <3> QED BY <2>1, <2>2, <2>3, <3>1 DEF Only, Field, EndsSay
  <2>5. f \in [Port -> PortRecord] /\ \A q \in Port : f[q] = IF q = p THEN t ELSE port[q]
    BY <1>1, <1>7, <2>3
  <2>6. w \in [Port -> PortRecord] BY <1>2, <1>6, <2>5, WithPrioType
  <2>7. \A q \in Port : SameEnds(f[q], w[q]) /\ (q # p => w[q] = f[q])
    BY <1>2, <2>5, WithPrioEnds
  <2> HIDE DEF w
  <2>8. \A q \in Port : Still(w[q], port'[q]) BY <1>5, <1>9, <2>6, ReselectStill
  <2>9. EndsOK'
    <3>1. \A q \in Listed : EndsSay(f[q]) BY <1>1, <2>4, <2>5 DEF EndsOK
    <3>2. \A q \in Listed : EndsSay(port'[q])
      BY <1>1, <2>7, <2>8, <3>1, StillLaws DEF Still
    <3> QED BY <1>3, <3>2 DEF EndsOK, Listed
  <2>10. Listed' = Listed BY <1>3 DEF Listed
  <2>11. w[p].agg_id = g BY <1>2, <2>3, <2>5, <2>7 DEF SameEnds
  <2>12. g # 0 BY <1>2, AggAssumption
  <2>13. port'[p].agg_id = g /\ ~port'[p].selected
    BY <1>2, <1>5, <1>9, <2>6, <2>8, <2>11, <2>12, ReselectFrame DEF Still, SameEnds
  <2>14. \A q \in Port : q # p => Still(port[q], port'[q])
    BY <2>5, <2>7, <2>8
  <2>15. ASSUME NEW h \in Agg PROVE GroupCurrent(h)'
    <3>1. CASE h = g
      <4>1. p \in Members(h)' BY <1>9, <2>10, <2>13, <3>1 DEF Members
      <4> QED BY <2>13, <4>1 DEF GroupCurrent, AtRest
    <3>2. CASE h # g
      <4>1. h # 0 BY AggAssumption
      <4>2. p \notin Members(h) /\ p \notin Members(h)'
        BY <2>1, <2>13, <3>2, <4>1 DEF Members
      <4>3. Members(h)' = Members(h)
        BY <1>1, <2>10, <2>14, <4>2 DEF Members, Still, SameEnds
      <4>4. \A q \in Members(h) : Still(port[q], port'[q]) /\ port'[q].agg_id # 0
        BY <1>1, <2>14, <4>1, <4>2 DEF Members, Still, SameEnds
      <4>5. \A q \in Members(h) : Undisturbed(q)
        BY <1>3, <1>4, <4>4 DEF Undisturbed, Still, Held
      <4> QED BY <4>3, <4>5, GroupStaysCurrent
    <3> QED BY <3>1, <3>2
  <2> QED BY <2>9, <2>15 DEF CurrentParts, GroupsCurrent
<1> QED BY <1>8, <1>9

\* The port hears of its link, or the call ends with nothing to do.
LEMMA EnableLinkCurrent ==
  ASSUME CurrentInv, EnableLink
  PROVE  CurrentParts'
<1> DEFINE p == args.port
           up == attr[p].link_status
<1>1. /\ LeftOK /\ CallOK /\ attr \in [Port -> Attr] /\ Listed \subseteq Port
  BY ChipFacts DEF CurrentInv
<1>2. /\ pc = "enable_link" /\ UNCHANGED <<ports, attr>>
      /\ port' = port \/ (p \in Listed /\ port' = LinkChanged(p, up))
  BY DEF EnableLink
<1>3. args.batch = {} BY <1>1, <1>2 DEF LeftOK, Disabling, CallOK
<1>4. p \in Listed => up \in BOOLEAN BY <1>1 DEF Attr
<1>5. \A q \in Listed : Still(port[q], port'[q])
  BY <1>2, <1>4, LinkChangedStill, StillLaws
<1> QED BY <1>2, <1>3, <1>5, CurrentStays DEF SpeedStays

-----------------------------------------------------------------------------
(* trunk_port_lacp_disable_batch *)

\* The batch is noted, the loop goes to its last update, and the call ends.
LEMMA DisableBatchCurrent ==
  ASSUME CurrentInv, (\E S : StartDisable(S)) \/ DisableUpdate \/ RemoveReturns
  PROVE  CurrentParts'
<1>1. LeftOK /\ CallOK BY ChipFacts DEF CurrentInv
<1>2. UNCHANGED <<ports, port, attr>>
  BY DEF StartDisable, DisableUpdate, RemoveReturns
<1>3. args.batch \cap Listed \subseteq args'.batch
  <2>1. CASE \E S : StartDisable(S)
    <3>1. args.batch = {} BY <1>1, <2>1 DEF StartDisable, LeftOK, Disabling, CallOK
    <3> QED BY <3>1
  <2>2. CASE DisableUpdate \/ RemoveReturns
    BY <2>2 DEF DisableUpdate, RemoveReturns
  <2> QED BY <2>1, <2>2
<1> QED BY <1>2, <1>3, NoPortCurrent

\* A port of the batch gives up aggregation, and its group waits until it has left.
LEMMA DisableNotifyCurrent ==
  ASSUME CurrentInv, NEW p \in Port, DisableNotify(p)
  PROVE  CurrentParts'
<1> DEFINE i == SetBit(port[p].actor_admin, "AGG", FALSE)
           a == SetBit(port[p].actor, "AGG", FALSE)
           t == [port[p] EXCEPT !.ntt = TRUE, !.actor_admin = i, !.actor = a]
<1>1. /\ EndsOK /\ MembersOK /\ TypeInv /\ port \in [Port -> PortRecord]
      /\ Listed \subseteq Port
  BY ChipFacts DEF CurrentInv, CurrentParts
<1>2. port' = [port EXCEPT ![p] = t] BY <1>1 DEF DisableNotify, PortRecord
<1>3. /\ UNCHANGED <<ports, attr>> /\ p \in args.todo
      /\ args' = [args EXCEPT !.port = p, !.todo = @ \ {p}]
  BY DEF DisableNotify, IsFirst
<1>4. args \in [port : Nat, agg : Nat, batch : SUBSET Port, todo : SUBSET Port]
  BY <1>1 DEF TypeInv, TypeOK
<1>5. args'.batch = args.batch /\ p \in args'.batch BY <1>1, <1>3, <1>4 DEF MembersOK
<1>6. /\ i.system_mac = port[p].actor_admin.system_mac
      /\ a.system_mac = port[p].actor.system_mac
      /\ Bit(a, "DEF") <=> Bit(port[p].actor, "DEF")
  <2>1. port[p].actor \in Info /\ port[p].actor_admin \in Info BY <1>1 DEF PortRecord
  <2>2. "AGG" \in StateBit BY DEF StateBit
  <2> QED BY <2>1, <2>2 DEF SetBit, Bit, Info
<1> HIDE DEF i, a
<1>7. Only(port[p], t, {"ntt", "actor_admin", "actor"}) /\ t.actor = a /\ t.actor_admin = i
  <2>1. port[p] \in PortRecord BY <1>1
  <2> QED BY <2>1 DEF PortRecord, Only, Field
<1> HIDE DEF t
<1>8. SameEnds(port[p], t) BY <1>6, <1>7 DEF Only, Field, SameEnds
<1>9. \A q \in Port : port'[q] = IF q = p THEN t ELSE port[q] BY <1>1, <1>2
<1>10. \A q \in Port : SameEnds(port[q], port'[q]) BY <1>8, <1>9, StillLaws DEF Still
<1>11. Listed' = Listed BY <1>3 DEF Listed
<1>12. EndsOK' BY <1>1, <1>10, <1>11, StillLaws DEF EndsOK
<1>13. ASSUME NEW h \in Agg PROVE GroupCurrent(h)'
  <2>1. Members(h)' = Members(h) BY <1>1, <1>10, <1>11 DEF Members, SameEnds
  <2>2. ASSUME NEW q \in Members(h) PROVE Undisturbed(q)
    <3>1. CASE q = p BY <1>5, <3>1 DEF Undisturbed
    <3>2. CASE q # p
      <4>1. port'[q] = port[q] BY <1>1, <1>9, <3>2 DEF Members
      <4> QED BY <1>3, <1>5, <4>1 DEF Undisturbed, SameRead, SameMarks
    <3> QED BY <3>1, <3>2
  <2> QED BY <2>1, <2>2, GroupStaysCurrent
<1> QED BY <1>12, <1>13 DEF CurrentParts, GroupsCurrent

\* The port leaves its group, which is unselected.
LEMMA DisableLeaveCurrent ==
  ASSUME CurrentInv, DisableLeave
  PROVE  CurrentParts'
<1> DEFINE p == args.port
           f == Reselect(port, port[p].agg_id)
           t == [f[p] EXCEPT !.agg_id = 0, !.lacp_enabled = FALSE]
<1>1. /\ EndsOK /\ port \in [Port -> PortRecord] /\ Listed \subseteq Port
  BY ChipFacts DEF CurrentInv, CurrentParts
<1>2. /\ UNCHANGED <<ports, attr, args>>
      /\ port' = [f EXCEPT ![p].agg_id = 0, ![p].lacp_enabled = FALSE]
  BY DEF DisableLeave
<1>3. f \in [Port -> PortRecord] BY <1>1, ReselectType
<1>4. \A q \in Port : Still(port[q], f[q]) BY <1>1, ReselectStill
<1>5. \A q \in Listed : port[p].agg_id # 0 /\ port[q].agg_id = port[p].agg_id
                           => ~f[q].selected
  BY <1>1, ReselectFrame
<1> HIDE DEF f, p
<1>6. port' = [f EXCEPT ![p] = t] BY <1>2, <1>3
<1>7. p \in Port => t.agg_id = 0 /\ Only(f[p], t, {"agg_id", "lacp_enabled"})
  <2>1. p \in Port => f[p] \in PortRecord BY <1>3
  <2> QED BY <2>1 DEF PortRecord, Only, Field
<1> HIDE DEF t
<1>8. \A q \in Port : port'[q] = IF q = p THEN t ELSE f[q] BY <1>3, <1>6
<1>9. \A q \in Listed : EndsSay(f[q]) BY <1>1, <1>4, StillLaws DEF EndsOK, Still
<1>10. ASSUME NEW q \in Listed PROVE EndsSay(port'[q])
  <2>1. CASE q # p BY <1>1, <1>8, <1>9, <2>1
  <2>2. CASE q = p BY <1>1, <1>7, <1>8, <1>9, <2>2 DEF Only, Field, EndsSay
  <2> QED BY <2>1, <2>2
<1>11. Listed' = Listed BY <1>2 DEF Listed
<1>12. EndsOK' BY <1>10, <1>11 DEF EndsOK
<1>13. ASSUME NEW h \in Agg PROVE GroupCurrent(h)'
  <2>1. h # 0 BY AggAssumption
  <2>2. \A q \in Members(h)' : q \in Listed /\ q # p /\ port'[q] = f[q]
    BY <1>1, <1>7, <1>8, <1>11, <2>1 DEF Members
  <2>3. \A q \in Members(h)' : port[q].agg_id = h
    BY <1>1, <1>4, <2>2 DEF Members, Still, SameEnds
  <2>4. CASE p \in Members(h)
    <3>1. \A q \in Members(h)' : ~port'[q].selected
      BY <1>5, <2>1, <2>2, <2>3, <2>4 DEF Members
    <3> QED BY <3>1 DEF GroupCurrent, AtRest
  <2>5. CASE p \notin Members(h)
    <3>1. \A q \in Members(h) : q \in Port /\ q # p /\ Still(port[q], port'[q])
      BY <1>1, <1>4, <1>8, <2>5 DEF Members
    <3>2. Members(h)' = Members(h)
      BY <1>11, <2>2, <2>3, <3>1 DEF Members, Still, SameEnds
    <3>3. \A q \in Members(h) : Undisturbed(q)
      BY <1>2, <2>1, <3>1 DEF Undisturbed, Members, Still, SameEnds, Held
    <3> QED BY <3>2, <3>3, GroupStaysCurrent
  <2> QED BY <2>4, <2>5
<1> QED BY <1>12, <1>13 DEF CurrentParts, GroupsCurrent

\* A port that has left its group is unlinked and freed.
LEMMA RemovePortCurrent ==
  ASSUME CurrentInv, NEW p \in Port, RemovePort(p)
  PROVE  CurrentParts'
<1>1. /\ EndsOK /\ PortsOK /\ OwnOK /\ LeftOK /\ CallOK /\ ports \in Seq(Port)
      /\ port \in [Port -> PortRecord] /\ Listed \subseteq Port
  BY ChipFacts DEF CurrentInv, CurrentParts
<1>2. /\ pc = "remove" /\ ret = "idle" /\ p \in args.batch \cap Listed
      /\ UNCHANGED <<attr, args>> /\ port' = [port EXCEPT ![p] = ZeroPort(p)]
  BY <1>1 DEF RemovePort, IsFirst, CallOK
<1>3. PICK i \in DOMAIN ports : ports[i] = p /\ ports' = RemoveAt(ports, i)
  BY DEF RemovePort
<1>4. Listed' = Listed \ {p} BY <1>1, <1>3, RemoveList DEF PortsOK, Listed
<1>5. \A q \in Listed' : q \in Listed /\ port'[q] = port[q] BY <1>1, <1>2, <1>4
<1>6. EndsOK' BY <1>1, <1>5 DEF EndsOK
<1>7. port[p].agg_id = 0
  <2>1. ~port[p].lacp_enabled BY <1>1, <1>2 DEF LeftOK
  <2> QED BY <1>1, <1>2, <2>1 DEF OwnOK, OwnEnd
<1>8. ASSUME NEW h \in Agg PROVE GroupCurrent(h)'
  <2>1. h # 0 BY AggAssumption
  <2>2. Members(h)' = Members(h) BY <1>4, <1>5, <1>7, <2>1 DEF Members
  <2>3. \A q \in Members(h) : port'[q] = port[q] BY <1>5, <2>2 DEF Members
  <2>4. \A q \in Members(h) : Undisturbed(q)
    BY <1>2, <2>3 DEF Undisturbed, SameRead, SameMarks
  <2> QED BY <2>2, <2>4, GroupStaysCurrent
<1> QED BY <1>6, <1>8 DEF CurrentParts, GroupsCurrent

-----------------------------------------------------------------------------
\* The initial state: an empty list.
LEMMA InitCurrent == Regular /\ Init => CurrentInv
<1> SUFFICES ASSUME Init PROVE CurrentParts BY InitChip DEF CurrentInv
<1>1. Listed = {} BY DEF Init, Listed, Range
<1> QED BY <1>1 DEF CurrentParts, EndsOK, GroupsCurrent, GroupCurrent, Members

\* The invariant is kept by every step.
LEMMA CurrentStep == CurrentInv /\ [Next]_vars => CurrentInv'
<1> SUFFICES ASSUME CurrentInv, [Next]_vars PROVE CurrentParts'
  BY ChipStep DEF CurrentInv, Regular, Foreign
<1>1. CASE UNCHANGED vars
  BY <1>1, NoPortCurrent DEF vars
<1>2. CASE Update
  BY <1>2, RunRxCurrent, RunSelCurrent, RunMuxCurrent, RunTxCurrent, UpdateReturnsCurrent
     DEF Update, Run
<1>3. CASE Continue
  BY <1>3, EnableCfgCurrent, EnableLinkCurrent, DisableBatchCurrent, DisableNotifyCurrent,
     DisableLeaveCurrent, RemovePortCurrent DEF Continue
<1>4. CASE OneSecond BY <1>4, OneSecondCurrent
<1>5. CASE Command
  <2>1. port \in [Port -> PortRecord] /\ sys \in Sys
    BY VarTypes, ChipFacts DEF CurrentInv
  <2>2. ASSUME NEW p \in Port, NEW a \in Remote, NEW v \in Views(p),
               RxLacpdu(p, [rcvd |-> TRUE, actor |-> a, partner |-> v])
        PROVE  CurrentParts'
    <3> DEFINE m == [rcvd |-> TRUE, actor |-> a, partner |-> v]
    <3>1. a \in Info /\ v \in Info BY <2>1, RemoteAssumption DEF Views, PortRecord
    <3>2. m \in Msg /\ m.actor \in Remote BY <3>1 DEF Msg, Pdu
    <3>3. RxLacpdu(p, m) BY <2>2
    <3> HIDE DEF m
    <3> QED BY <3>2, <3>3, RxLacpduCurrent
  <2>3. ASSUME NEW p \in Port, NEW up \in BOOLEAN, LinkChange(p, up) \/ SetLink(p, up)
        PROVE  CurrentParts'
    BY <2>3, LinkCurrent
  <2>4. ASSUME NEW p \in Port, NEW v \in Nat, NEW b \in BOOLEAN,
               SetSpeed(p, v) \/ SetDuplex(p, b) \/ SetPortPrio(p, v)
        PROVE  CurrentParts'
    BY <2>4, AttrCurrent
  <2>5. ASSUME NEW S, StartDisable(S) PROVE CurrentParts'
    BY <2>5, DisableBatchCurrent
  <2>6. CASE \E p \in Port :
               \/ \E a \in Remote, v \in Views(p) :
                     RxLacpdu(p, [rcvd |-> TRUE, actor |-> a, partner |-> v])
               \/ \E up \in IpcLinks : LinkChange(p, up)
               \/ \E up \in CliLinks : SetLink(p, up)
               \/ \E v \in Speeds : SetSpeed(p, v)
               \/ \E v \in Duplexes : SetDuplex(p, v)
               \/ \E v \in PortPrios : SetPortPrio(p, v)
               \/ \E g \in Agg : Enable(p, g)
               \/ Disable(p)
               \/ ClearStat(p)
    BY <2>2, <2>3, <2>4, <2>5, <2>6, CommandAssumption, EnableCurrent,
       ClearStatCurrent DEF Disable
  <2>7. CASE \E v \in SysPrios : SetSysPrio(v)
    BY <2>7, SysCurrent DEF SetSysPrio
  <2>8. CASE \/ \E v \in Timeouts : SetPeriod(v)
             \/ \E v \in LongPeriods : SetLongPeriod(v)
             \/ \E v \in ShortPeriods : SetShortPeriod(v)
    <3>1. "priority" \in DOMAIN sys BY <2>1 DEF Sys
    <3>2. ASSUME NEW v, SetPeriod(v) PROVE CurrentParts'
      <4> DEFINE s == [sys EXCEPT !.lacp_timeout = v]
      <4>1. SysSetCfg(s) BY <3>2 DEF SetPeriod
      <4>2. s.priority = sys.priority BY <3>1
      <4> HIDE DEF s
      <4> QED BY <4>1, <4>2, SysCurrent
    <3>3. ASSUME NEW v, SetLongPeriod(v) PROVE CurrentParts'
      <4> DEFINE s == [sys EXCEPT !.slow_periodic_time = Low16(v)]
      <4>1. SysSetCfg(s) BY <3>3 DEF SetLongPeriod
      <4>2. s.priority = sys.priority BY <3>1
      <4> HIDE DEF s
      <4> QED BY <4>1, <4>2, SysCurrent
    <3>4. ASSUME NEW v, SetShortPeriod(v) PROVE CurrentParts'
      <4> DEFINE s == [sys EXCEPT !.fast_periodic_time = Low16(v)]
      <4>1. SysSetCfg(s) BY <3>4 DEF SetShortPeriod
      <4>2. s.priority = sys.priority BY <3>1
      <4> HIDE DEF s
      <4> QED BY <4>1, <4>2, SysCurrent
    <3> QED BY <2>8, <3>2, <3>3, <3>4
  <2> QED BY <1>5, <2>5, <2>6, <2>7, <2>8 DEF Command, DeleteAgg
<1> QED BY <1>1, <1>2, <1>3, <1>4, <1>5 DEF Next

\* Between calls a second selection would change nothing: a change of anything the
\* selection compares (a priority, a link, DEF, a partner, the speed and duplex kept in
\* the port, which are those of its last link change) was followed by a new selection
\* of the whole group, unless a port was taken into a second group, a partner had the
\* zero address, or the system priority was set while ports of this bridge were
\* wired to each other.
THEOREM SelectionStaysCurrent ==
  ASSUME Regular
  PROVE  Spec => []SelectionIsCurrent
<1>1. Spec => []CurrentInv BY InitCurrent, CurrentStep, PTL DEF Spec
<1>2. CurrentInv => SelectionIsCurrent
  <2> SUFFICES ASSUME CurrentInv, Idle, NEW g \in Agg
               PROVE  port = UpdateAggPortsSelect(port, Members(g),
                        [p \in Port |-> OperKey(PortTid(p), attr[p].speed, attr[p].duplex)])
    BY DEF SelectionIsCurrent
  <2> DEFINE key == [p \in Port |-> OperKey(PortTid(p), attr[p].speed, attr[p].duplex)]
             S == Members(g)
  <2>1. /\ SelectedOK /\ LeftOK /\ CallOK /\ GroupsCurrent
        /\ port \in [Port -> PortRecord] /\ Listed \subseteq Port
    BY ChipFacts DEF CurrentInv, CurrentParts
  <2>2. args.batch = {} BY <2>1 DEF Idle, LeftOK, Disabling, CallOK
  <2>3. S \in SUBSET Port /\ S \subseteq Listed /\ Numbered(port, S) BY GroupFacts
  <2>4. \A p \in S : port[p].selected BY <2>1, <2>3 DEF Idle, SelectedOK
  <2>5. \A p \in S : port[p].actor.key = KeyOf(p) /\ InPlace(port, S, p)
    BY <2>1, <2>2, <2>4 DEF GroupsCurrent, GroupCurrent, AtRest
  <2>6. key \in [Port -> Word]
    BY PortTidType, OperKeyType, ChipFacts DEF CurrentInv
  <2>7. \A p \in S : PortTid(p) = port[p].agg_id
    BY <2>2, <2>3, TidIsGroup DEF Members
  <2>8. \A p \in S : key[p] = KeyOf(p) BY <2>3, <2>7 DEF KeyOf
  <2> HIDE DEF key, S
  <2>9. UpdateAggPortsSelect(port, S, key) = port
    BY <2>1, <2>3, <2>4, <2>5, <2>6, <2>8, UpdateIsIdle
  <2> QED BY <2>9 DEF key, S
<1> QED BY <1>1, <1>2, PTL
=============================================================================
