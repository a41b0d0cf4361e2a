-------------------------- MODULE LacpSafetyProofs --------------------------
(***************************************************************************)
(* The invariants of one bridge, for every set of ports, groups, partners    *)
(* and values of the commands.                                              *)
(*                                                                         *)
(* First the types: no timer, key or table of a bridge leaves its range,      *)
(* whatever the order of the calls.  Then, that a port is put to use only    *)
(* towards a partner that can aggregate.                                    *)
(*                                                                         *)
(* Then what the ports that carry traffic lead to.  A port carries traffic   *)
(* only towards a partner that is alive and in sync: three facts about a     *)
(* single port, true at every step, and two about the call in progress make  *)
(* the argument.                                                            *)
(*                                                                         *)
(* The ports of one group that carry traffic lead to one neighbour, and not  *)
(* to each other.  Both follow from one invariant on groups whose ports are  *)
(* all selected: the update of the group has compared every port it put to   *)
(* use with the master and with the other ports, and whatever changes a      *)
(* field that was compared unselects the port or the whole group.            *)
(***************************************************************************)
EXTENDS LacpSafety, LacpDataProofs, SequenceTheorems

\* What the steps of a call rely on: a call returns to idle only, and the enabling
\* of a port has its port and its group at hand.
CallOK ==
    /\ pc # "update" => ret = "idle"
    /\ "enable_cfg" \in {pc, ret} => args.port \in Port /\ args.agg \in Agg

TypeInv == TypeOK /\ CallOK

-----------------------------------------------------------------------------
(* The types of the operators of Lacp *)

\* A setting is cut to 16 bits when it is stored.
LEMMA Low16Type ==
  ASSUME NEW n \in Nat
  PROVE  Low16(n) \in Word
BY MaxWordBound DEF Low16, Word

\* The list holds ports.
LEMMA ListedType ==
  ASSUME ports \in Seq(Port)
  PROVE  Listed \subseteq Port
<1>1. DOMAIN ports = 1 .. Len(ports) /\ \A i \in 1 .. Len(ports) : ports[i] \in Port
  BY LenProperties, ElementOfSeq
<1> QED BY <1>1 DEF Listed, Range

\* The trunk id the stub answers is a group or none.
LEMMA PortTidType ==
  ASSUME NEW p
  PROVE  PortTid(p) \in Agg \cup {0}
<1> DEFINE in == {g \in Agg : p \in group[g]}
<1>1. CASE in = {}
  BY <1>1 DEF PortTid
<1>2. CASE in # {}
  <2>1. in \in SUBSET Nat
    <3>1. Agg \subseteq 1 .. 32 BY AggAssumption
    <3>2. \A n \in 1 .. 32 : n \in Nat OBVIOUS
    <3>3. in \subseteq Agg OBVIOUS
    <3> QED BY <3>1, <3>2, <3>3
  <2>2. in \subseteq Agg OBVIOUS
  <2>3. PortTid(p) = CHOOSE g \in in : \A h \in in : g <= h
    BY <1>2 DEF PortTid
  <2> HIDE DEF in
  <2>4. \E g \in in : \A h \in in : g <= h BY <1>2, <2>1, LeastElement
  <2>5. PortTid(p) \in in BY <2>3, <2>4
  <2> QED BY <2>2, <2>5
<1> QED BY <1>1, <1>2

\* The operational key fits 16 bits.
LEMMA OperKeyType ==
  ASSUME NEW tid \in Agg \cup {0}, NEW speed, NEW duplex
  PROVE  OperKey(tid, speed, duplex) \in Word
<1>1. SpeedIndex(speed, duplex) \in 0 .. 4
  BY DEF SpeedIndex
<1>2. tid \in 0 .. 32
  BY AggAssumption
<1> QED BY <1>1, <1>2, MaxWordBound DEF OperKey, Word

\* Unselecting the ports of a group keeps their records in range.
LEMMA ReselectType ==
  ASSUME NEW f \in [Port -> PortRecord], NEW g
  PROVE  Reselect(f, g) \in [Port -> PortRecord]
<1>1. \A t \in PortRecord : [t EXCEPT !.selected = FALSE] \in PortRecord
  BY DEF PortRecord
<1> QED BY <1>1 DEF Reselect

\* A second keeps the timers in range: none is taken below zero.
LEMMA TickedType ==
  ASSUME NEW t \in PortRecord
  PROVE  Ticked(t) \in PortRecord
<1> DEFINE z == 0
           a == Minus1(t.current_while)
           b == Minus1(t.periodic_timer)
           c == Minus1(t.wait_while)
<1>1. \A n \in Word : Minus1(n) \in Word BY MaxWordBound DEF Word, Minus1
<1>2. t.current_while \in Word /\ t.periodic_timer \in Word /\ t.wait_while \in Word
  BY DEF PortRecord
<1>3. a \in Word /\ b \in Word /\ c \in Word /\ z \in Nat BY <1>1, <1>2
<1>4. Ticked(t) = [t EXCEPT !.current_while = a, !.periodic_timer = b,
                            !.wait_while = c, !.hold_count = z]
  BY DEF Ticked
<1> HIDE DEF a, b, c, z
<1> QED BY <1>3, <1>4, ZenonT(40) DEF PortRecord

\* A link indication leaves a record of a port.
LEMMA WithLinkType ==
  ASSUME NEW t \in PortRecord, NEW a \in Attr, NEW up \in BOOLEAN
  PROVE  WithLink(t, a, up) \in PortRecord
<1> DEFINE i == IF a.duplex THEN t.actor ELSE SetBit(t.actor, "AGG", FALSE)
           v == a.speed
           d == a.duplex
<1>1. i \in Info BY SetBitType DEF PortRecord, StateBit
<1>2. v \in Nat /\ d \in BOOLEAN BY DEF Attr
<1>3. WithLink(t, a, up) = [t EXCEPT !.port_enabled = up, !.speed = v, !.duplex = d, !.actor = i]
  BY DEF WithLink
<1> HIDE DEF i, v, d
<1> QED BY <1>1, <1>2, <1>3, ZenonT(40) DEF PortRecord

\* So does the whole of lacp_port_link_change.
LEMMA LinkChangedType ==
  ASSUME port \in [Port -> PortRecord], attr \in [Port -> Attr],
         NEW p \in Port, NEW up \in BOOLEAN
  PROVE  LinkChanged(p, up) \in [Port -> PortRecord]
<1> DEFINE f == [port EXCEPT ![p] = WithLink(@, attr[p], up)]
<1>1. WithLink(port[p], attr[p], up) \in PortRecord BY WithLinkType
<1>2. f \in [Port -> PortRecord] BY <1>1
<1> HIDE DEF f
<1>3. Reselect(f, port[p].agg_id) \in [Port -> PortRecord] BY <1>2, ReselectType
<1> QED BY <1>3 DEF LinkChanged, f

\* The group update leaves well-formed records: its master is a port.
LEMMA UpdateAggType ==
  ASSUME NEW f \in [Port -> PortRecord], NEW S \in SUBSET Port,
         NEW key \in [Port -> Word]
  PROVE  UpdateAggPortsSelect(f, S, key) \in [Port -> PortRecord]
<1> DEFINE h == RefreshKeys(f, S, key)
           C == Candidates(h, S)
<1>1. h \in [Port -> PortRecord]
  <2>1. \A t \in PortRecord, k \in Word : [t EXCEPT !.actor.key = k] \in PortRecord
    <3> SUFFICES ASSUME NEW t \in PortRecord, NEW k \in Word
                 PROVE  [t EXCEPT !.actor.key = k] \in PortRecord
      OBVIOUS
    <3> DEFINE i == [t.actor EXCEPT !.key = k]
    <3>1. i \in Info BY DEF PortRecord, Info
    <3>2. [t EXCEPT !.actor.key = k] = [t EXCEPT !.actor = i] BY DEF PortRecord
    <3> HIDE DEF i
    <3> QED BY <3>1, <3>2 DEF PortRecord
  <2>2. h = [p \in Port |-> IF p \in S THEN [f[p] EXCEPT !.actor.key = key[p]] ELSE f[p]]
    BY DEF RefreshKeys
  <2> HIDE DEF h
  <2> QED BY <2>1, <2>2
<1> HIDE DEF h
<1>2. C # {} => Master(h, C) \in Port
  <2>1. C \in SUBSET (0 .. 143) BY PortAssumption DEF Candidates
  <2>2. \A p \in C : h[p] \in PortRecord BY <1>1 DEF Candidates
  <2>3. \A t \in PortRecord : Ranked(t)
    <3> SUFFICES ASSUME NEW t \in PortRecord PROVE Ranked(t)
      OBVIOUS
    <3>1. t.actor \in Info /\ t.speed \in Nat BY DEF PortRecord
    <3>2. t.actor.port_priority \in Word /\ t.actor.port_no \in Word BY <3>1 DEF Info
    <3>3. \A n \in Word : n \in Nat BY MaxWordBound DEF Word
    <3> QED BY <3>1, <3>2, <3>3 DEF Ranked, Bit
  <2>4. \A p \in C : Ranked(h[p]) BY <2>2, <2>3
  <2>5. C \subseteq Port BY DEF Candidates
  <2> HIDE DEF C
  <2> QED BY <2>1, <2>4, <2>5, MasterIsBest
<1>3. \A t \in PortRecord, b \in BOOLEAN, m \in Port :
         [t EXCEPT !.selected = TRUE, !.standby = b, !.master_port = m] \in PortRecord
  BY ZenonT(40) DEF PortRecord
<1>4. MarkGroup(h, S) \in [Port -> PortRecord]
  <2> DEFINE Marked(p, b, m) ==
        [h[p] EXCEPT !.selected = TRUE, !.standby = b, !.master_port = m]
  <2>1. \A p \in Port, b \in BOOLEAN, m \in Port : Marked(p, b, m) \in PortRecord
    BY <1>1, <1>3
  <2>2. DOMAIN h = Port BY <1>1
  <2>3. CASE C = {}
    <3>1. MarkGroup(h, S) =
            [p \in Port |-> IF p \in S THEN Marked(p, TRUE, p) ELSE h[p]]
      BY <2>2, <2>3 DEF MarkGroup
    <3> HIDE DEF Marked
    <3> QED BY <1>1, <2>1, <3>1
  <2>4. CASE C # {}
    <3> DEFINE m == Master(h, C)
               b(p) == ~Joins(h, S, h[p], h[m])
    <3>1. MarkGroup(h, S) =
            [p \in Port |-> IF p \in S THEN Marked(p, b(p), m) ELSE h[p]]
      BY <2>2, <2>4 DEF MarkGroup
    <3>2. m \in Port BY <1>2, <2>4
    <3>3. \A p \in Port : b(p) \in BOOLEAN OBVIOUS
    <3> HIDE DEF Marked, m, b
    <3> QED BY <1>1, <2>1, <3>1, <3>2, <3>3
  <2> QED BY <2>3, <2>4
<1> QED BY <1>4 DEF UpdateAggPortsSelect, h

-----------------------------------------------------------------------------
(* What the steps of lacp_sys_update preserve *)

\* Storing a well-formed record.
LEMMA PutType ==
  ASSUME NEW f \in [Port -> PortRecord], NEW p, NEW t \in PortRecord
  PROVE  [f EXCEPT ![p] = t] \in [Port -> PortRecord]
OBVIOUS

\* A receive step, the reselection of the group included.
LEMMA RunRxType ==
  ASSUME TypeInv, NEW p \in Port, RunRx(p)
  PROVE  TypeInv'
<1>1. PICK s \in RxState :
        /\ RxGoes(port[p], s)
        /\ LET f == [port EXCEPT ![p] = RxEnter(p, port[p], s)]
           IN  port' = IF s = "CURRENT" /\ NewPartner(port[p])
                       THEN Reselect(f, port[p].agg_id) ELSE f
  BY DEF RunRx
<1> DEFINE f == [port EXCEPT ![p] = RxEnter(p, port[p], s)]
<1>2. s # "BEGIN" BY <1>1 DEF RxGoes
<1>3. port \in [Port -> PortRecord] BY DEF TypeInv, TypeOK
<1>4. RxEnter(p, port[p], s) \in PortRecord BY <1>2, <1>3, RxEnterType
<1>5. f \in [Port -> PortRecord] BY <1>3, <1>4, PutType
<1>6. port' = Reselect(f, port[p].agg_id) \/ port' = f BY <1>1
<1> HIDE DEF f
<1>7. port' \in [Port -> PortRecord] BY <1>5, <1>6, ReselectType
<1>8. cur' \in Port \X MachineName BY DEF RunRx, MachineName
<1> QED BY <1>7, <1>8 DEF RunRx, TypeInv, TypeOK, CallOK

\* A selection step, the update of the whole group included.
LEMMA RunSelType ==
  ASSUME TypeInv, NEW p \in Port, RunSel(p)
  PROVE  TypeInv'
<1> DEFINE key == [q \in Port |-> OperKey(PortTid(q), attr[q].speed, attr[q].duplex)]
           f == [port EXCEPT ![p].sel = "SELECTION"]
           alone == [f EXCEPT ![p].selected = TRUE, ![p].standby = TRUE]
           S == Members(port[p].agg_id)
<1>1. port \in [Port -> PortRecord] BY DEF TypeInv, TypeOK
<1>2. f \in [Port -> PortRecord] BY <1>1 DEF PortRecord, SelState
<1>3. alone \in [Port -> PortRecord]
  <2> HIDE DEF f
  <2> DEFINE t == [f[p] EXCEPT !.selected = TRUE, !.standby = TRUE]
  <2>1. f[p] \in PortRecord BY <1>2
  <2>2. t \in PortRecord BY <2>1 DEF PortRecord
  <2>3. alone = [f EXCEPT ![p] = t] BY <1>2
  <2> HIDE DEF t, alone
  <2> QED BY <1>2, <2>2, <2>3, PutType
<1>4. key \in [Port -> Word] BY PortTidType, OperKeyType
<1>5. S \subseteq Port BY ListedType DEF TypeInv, TypeOK, Members
<1>6. port' \in {alone, f, UpdateAggPortsSelect(f, S, key)}
  BY DEF RunSel
<1> HIDE DEF f, alone, key, S
<1>7. UpdateAggPortsSelect(f, S, key) \in [Port -> PortRecord]
  BY <1>2, <1>4, <1>5, UpdateAggType
<1>8. port' \in [Port -> PortRecord] BY <1>2, <1>3, <1>6, <1>7
<1>9. cur' \in Port \X MachineName BY DEF RunSel, MachineName
<1> QED BY <1>8, <1>9 DEF RunSel, TypeInv, TypeOK, CallOK

\* A mux step, the call on the switch chip included.
LEMMA RunMuxType ==
  ASSUME TypeInv, NEW p \in Port, RunMux(p)
  PROVE  TypeInv'
<1>1. PICK s \in MuxState :
        /\ MuxGoes(port[p], SysIsReady(p), s)
        /\ port' = [port EXCEPT ![p] = MuxEnter(port[p], s)]
        /\ attr' = [attr EXCEPT ![p] = MuxChip(attr[p], port[p].agg_id, s)]
  BY DEF RunMux
<1>2. s # "BEGIN" BY <1>1 DEF MuxGoes
<1>3. port \in [Port -> PortRecord] /\ attr \in [Port -> Attr] BY DEF TypeInv, TypeOK
<1>4. MuxEnter(port[p], s) \in PortRecord BY <1>2, <1>3, MuxEnterType
<1>5. port' \in [Port -> PortRecord] BY <1>1, <1>3, <1>4, PutType
<1>6. attr' \in [Port -> Attr]
  <2>1. attr[p] \in Attr /\ port[p].agg_id \in Agg \cup {0} BY <1>3 DEF PortRecord
  <2>2. ASSUME NEW a \in Attr, NEW g \in Agg \cup {0}
        PROVE  MuxChip(a, g, s) \in Attr
    <3> DEFINE z == 0
    <3>1. z \in Agg \cup {0} OBVIOUS
    <3>2. MuxChip(a, g, s) \in {[a EXCEPT !.tid = z, !.cd = TRUE],
                                [a EXCEPT !.tid = z, !.cd = FALSE],
                                [a EXCEPT !.tid = g, !.cd = FALSE],
                                [a EXCEPT !.cd = TRUE], a}
      BY DEF MuxChip, MuxState
    <3> HIDE DEF z
    <3>3. [a EXCEPT !.tid = z, !.cd = TRUE] \in Attr BY <3>1 DEF Attr
    <3>4. [a EXCEPT !.tid = z, !.cd = FALSE] \in Attr BY <3>1 DEF Attr
    <3>5. [a EXCEPT !.tid = g, !.cd = FALSE] \in Attr BY DEF Attr
    <3>6. [a EXCEPT !.cd = TRUE] \in Attr BY DEF Attr
    <3> QED BY <3>2, <3>3, <3>4, <3>5, <3>6
  <2> QED BY <1>1, <1>3, <2>1, <2>2
<1>7. cur' \in Port \X MachineName BY DEF RunMux, MachineName
<1> QED BY <1>5, <1>6, <1>7 DEF RunMux, TypeInv, TypeOK, CallOK

\* A transmit step.
LEMMA RunTxType ==
  ASSUME TypeInv, NEW p \in Port, RunTx(p)
  PROVE  TypeInv'
<1> DEFINE slow == sys.slow_periodic_time
           fast == sys.fast_periodic_time
<1>1. PICK s \in TxState :
        /\ TxGoes(port[p], s)
        /\ port' = [port EXCEPT ![p] = TxEnter(port[p], slow, fast, s)]
  BY DEF RunTx
<1>2. s # "BEGIN" BY <1>1 DEF TxGoes
<1>3. port \in [Port -> PortRecord] BY DEF TypeInv, TypeOK
<1>4. slow \in Word /\ fast \in Word BY DEF TypeInv, TypeOK, Sys
<1> HIDE DEF slow, fast
<1>5. TxEnter(port[p], slow, fast, s) \in PortRecord BY <1>2, <1>3, <1>4, TxEnterType
<1>6. port' \in [Port -> PortRecord] BY <1>1, <1>3, <1>5, PutType
<1>7. cur' \in Port \X MachineName BY DEF RunTx, MachineName
<1> QED BY <1>6, <1>7 DEF RunTx, TypeInv, TypeOK, CallOK

\* The return from lacp_sys_update.
LEMMA UpdateReturnsType ==
  ASSUME TypeInv, UpdateReturns
  PROVE  TypeInv'
<1>1. NoArgs \in [port : Nat, agg : Nat, batch : SUBSET Port, todo : SUBSET Port]
  BY DEF NoArgs
<1> QED BY <1>1 DEF UpdateReturns, TypeInv, TypeOK, CallOK, ApiPc

-----------------------------------------------------------------------------
(* What the calls preserve *)

\* A call that changes port records, the chip or the system's settings and then
\* enters lacp_sys_update.
LEMMA CallUpdateType ==
  ASSUME TypeInv, pc = "idle", CallUpdate,
         port' \in [Port -> PortRecord], attr' \in [Port -> Attr], sys' \in Sys
  PROVE  TypeInv'
BY DEF CallUpdate, StartUpdate, TypeInv, TypeOK, CallOK

\* A call that ends at once.
LEMMA NoCallType ==
  ASSUME TypeInv, UNCHANGED <<ports, port, group, cur, pc, ret, args>>,
         attr' \in [Port -> Attr], sys' \in Sys
  PROVE  TypeInv'
BY DEF TypeInv, TypeOK, CallOK

\* The variables that most calls change, by their types.
LEMMA VarTypes ==
  ASSUME TypeInv
  PROVE  /\ ports \in Seq(Port) /\ port \in [Port -> PortRecord]
         /\ attr \in [Port -> Attr] /\ sys \in Sys
         /\ group \in [Agg -> SUBSET Port]
         /\ Listed \subseteq Port
BY ListedType DEF TypeInv, TypeOK

\* A second passes.
LEMMA OneSecondType ==
  ASSUME TypeInv, OneSecond
  PROVE  TypeInv'
<1>1. port' = [p \in Port |-> IF p \in Listed THEN Ticked(port[p]) ELSE port[p]]
  BY DEF OneSecond
<1>2. \A p \in Port : Ticked(port[p]) \in PortRecord BY VarTypes, TickedType
<1>3. port' \in [Port -> PortRecord] BY <1>1, <1>2, VarTypes
<1> QED BY <1>3, VarTypes, CallUpdateType DEF OneSecond

\* A LACPDU arrives.
LEMMA RxLacpduType ==
  ASSUME TypeInv, NEW p \in Port, NEW m \in Msg, RxLacpdu(p, m)
  PROVE  TypeInv'
<1>1. \A t \in PortRecord : [t EXCEPT !.msg = m] \in PortRecord BY DEF PortRecord
<1>2. ASSUME NEW t \in PortRecord, NEW b
      PROVE  [t EXCEPT !.port_moved = @ \/ b] \in PortRecord
  <2> DEFINE c == t.port_moved \/ b
  <2>1. c \in BOOLEAN OBVIOUS
  <2>2. [t EXCEPT !.port_moved = @ \/ b] = [t EXCEPT !.port_moved = c] OBVIOUS
  <2> HIDE DEF c
  <2> QED BY <2>1, <2>2 DEF PortRecord
<1>3. port' \in [Port -> PortRecord]
  <2> DEFINE heard(q) == [port[q] EXCEPT !.port_moved = @ \/ Moved(p, m, q)]
             got == [port[p] EXCEPT !.msg = m]
  <2>1. port' = port \/ port' = [q \in Port |-> IF q = p THEN got ELSE heard(q)]
    BY DEF RxLacpdu
  <2>2. got \in PortRecord BY <1>1, VarTypes
  <2>3. \A q \in Port : heard(q) \in PortRecord BY <1>2, VarTypes
  <2> HIDE DEF heard, got
  <2> QED BY <2>1, <2>2, <2>3, VarTypes
<1> QED BY <1>3, VarTypes, CallUpdateType DEF RxLacpdu

\* The link of a port changes, told by the manager or by "set link".
LEMMA LinkType ==
  ASSUME TypeInv, NEW p \in Port, NEW up \in BOOLEAN, LinkChange(p, up) \/ SetLink(p, up)
  PROVE  TypeInv'
<1>1. attr' \in [Port -> Attr]
  BY VarTypes DEF LinkChange, SetLink, Attr
<1>2. sys' \in Sys /\ pc = "idle" BY VarTypes DEF LinkChange, SetLink
<1>3. LinkIndication(p, up) BY DEF LinkChange, SetLink
<1>4. LinkChanged(p, up) \in [Port -> PortRecord] BY VarTypes, LinkChangedType
<1>5. CASE port' = LinkChanged(p, up) /\ CallUpdate
  BY <1>1, <1>2, <1>4, <1>5, CallUpdateType
<1>6. CASE UNCHANGED <<ports, port, group, cur, pc, ret, args>>
  BY <1>1, <1>2, <1>6, NoCallType
<1> QED BY <1>3, <1>5, <1>6 DEF LinkIndication

\* The speed or the duplex mode of a port is set.
LEMMA SetAttrType ==
  ASSUME TypeInv, NEW p \in Port, NEW a \in Attr, SetAttr(p, a)
  PROVE  TypeInv'
<1>1. attr' \in [Port -> Attr] BY VarTypes DEF SetAttr
<1>2. port' \in [Port -> PortRecord] BY VarTypes, ReselectType DEF SetAttr
<1> QED BY <1>1, <1>2, VarTypes, CallUpdateType DEF SetAttr

\* A port priority is stored modulo 2^16.
LEMMA WithPrioType ==
  ASSUME NEW f \in [Port -> PortRecord], NEW p \in Port, NEW v \in Nat
  PROVE  WithPrio(f, p, v) \in [Port -> PortRecord]
<1> DEFINE w == Low16(v)
           i == [f[p].actor_admin EXCEPT !.port_priority = w]
           a == [f[p].actor EXCEPT !.port_priority = w]
           t == [f[p] EXCEPT !.actor_admin = i, !.actor = a]
<1>1. w \in Word BY Low16Type
<1>2. f[p].actor_admin \in Info /\ f[p].actor \in Info /\ f[p] \in PortRecord
  BY DEF PortRecord
<1>3. i \in Info /\ a \in Info
  <2> HIDE DEF w
  <2> QED BY <1>1, <1>2 DEF Info
<1>4. WithPrio(f, p, v) = [f EXCEPT ![p] = t]
  <2> HIDE DEF w
  <2> QED BY <1>2 DEF WithPrio, w, PortRecord
<1>5. t \in PortRecord
  <2> HIDE DEF i, a
  <2> QED BY <1>2, <1>3 DEF PortRecord
<1> HIDE DEF t
<1> QED BY <1>4, <1>5, PutType

\* The priority of a port is set.
LEMMA SetPortPrioType ==
  ASSUME TypeInv, NEW p \in Port, NEW v \in Nat, SetPortPrio(p, v)
  PROVE  TypeInv'
<1>1. attr' \in [Port -> Attr] BY VarTypes DEF SetPortPrio, Attr
<1>2. WithPrio(port, p, v) \in [Port -> PortRecord] BY VarTypes, WithPrioType
<1>3. Reselect(WithPrio(port, p, v), port[p].agg_id) \in [Port -> PortRecord]
  BY <1>2, ReselectType
<1>4. CASE IsEnabled(p)
  <2>1. port' \in [Port -> PortRecord] BY <1>3, <1>4, VarTypes DEF SetPortPrio
  <2> QED BY <1>1, <1>4, <2>1, VarTypes, CallUpdateType DEF SetPortPrio
<1>5. CASE ~IsEnabled(p)
  BY <1>1, <1>5, VarTypes, NoCallType DEF SetPortPrio
<1> QED BY <1>4, <1>5

\* The counters of a port are cleared.
LEMMA ClearStatType ==
  ASSUME TypeInv, NEW p \in Port, ClearStat(p)
  PROVE  TypeInv'
BY VarTypes, CallUpdateType DEF ClearStat

\* The system's settings are changed.
LEMMA SysSetCfgType ==
  ASSUME TypeInv, NEW s \in Sys, SysSetCfg(s)
  PROVE  TypeInv'
<1>1. \A t \in PortRecord :
        [t EXCEPT !.actor = SetBit([@ EXCEPT !.system_priority = s.priority],
                                   "TMT", s.lacp_timeout),
                  !.ntt = TRUE] \in PortRecord
  <2> SUFFICES ASSUME NEW t \in PortRecord
               PROVE [t EXCEPT !.actor = SetBit([@ EXCEPT !.system_priority = s.priority],
                                                "TMT", s.lacp_timeout),
                               !.ntt = TRUE] \in PortRecord
    OBVIOUS
  <2> DEFINE i == [t.actor EXCEPT !.system_priority = s.priority]
             a == SetBit(i, "TMT", s.lacp_timeout)
  <2>1. i \in Info BY DEF PortRecord, Info, Sys
  <2>2. a \in Info
    <3> HIDE DEF i
    <3> QED BY <2>1, SetBitType DEF StateBit
  <2>3. [t EXCEPT !.actor = SetBit([@ EXCEPT !.system_priority = s.priority],
                                   "TMT", s.lacp_timeout),
                  !.ntt = TRUE] = [t EXCEPT !.actor = a, !.ntt = TRUE]
    BY DEF PortRecord
  <2> HIDE DEF a
  <2> QED BY <2>2, <2>3 DEF PortRecord
<1>2. port' \in [Port -> PortRecord]
  <2> DEFINE told(t) ==
        [t EXCEPT !.actor = SetBit([@ EXCEPT !.system_priority = s.priority],
                                   "TMT", s.lacp_timeout),
                  !.ntt = TRUE]
  <2>1. port' = [p \in Port |-> IF p \in Listed THEN told(port[p]) ELSE port[p]]
    BY DEF SysSetCfg
  <2>2. \A p \in Port : told(port[p]) \in PortRecord BY <1>1, VarTypes
  <2> HIDE DEF told
  <2> QED BY <2>1, <2>2, VarTypes
<1> QED BY <1>2, VarTypes, CallUpdateType DEF SysSetCfg

-----------------------------------------------------------------------------
(* What the calls of several parts preserve *)

\* The locals of a call that names one port and one group.
LEMMA ArgsType ==
  ASSUME NEW p \in Port, NEW g \in Agg
  PROVE  /\ NoArgs \in [port : Nat, agg : Nat, batch : SUBSET Port, todo : SUBSET Port]
         /\ [NoArgs EXCEPT !.port = p, !.agg = g]
              \in [port : Nat, agg : Nat, batch : SUBSET Port, todo : SUBSET Port]
         /\ p \in Nat /\ g \in Nat
<1>1. p \in Nat BY PortAssumption
<1>2. g \in Nat BY AggAssumption
<1> QED BY <1>1, <1>2 DEF NoArgs

\* The record lacp_port_create leaves.
LEMMA FreshPortType ==
  ASSUME TypeInv, NEW p \in Port, NEW mac \in OwnMac
  PROVE  FreshPort(p, mac) \in PortRecord
<1> DEFINE i == ActorInit(p, mac, sys.priority, sys.lacp_timeout)
           v == attr[p].speed
           d == attr[p].duplex
<1>1. i \in Info BY VarTypes, MacAssumption, ActorInitType DEF Sys
<1>2. v \in Nat /\ d \in BOOLEAN BY VarTypes DEF Attr
<1>3. FreshPort(p, mac) = [ZeroPort(p) EXCEPT !.actor_admin = i, !.speed = v, !.duplex = d]
  BY DEF FreshPort
<1> HIDE DEF i, v, d
<1> QED BY <1>1, <1>2, <1>3, ZeroPortType, ZenonT(40) DEF PortRecord

\* trunk_port_lacp_enable up to the creation of the port.
LEMMA EnableType ==
  ASSUME TypeInv, NEW p \in Port, NEW g \in Agg, Enable(p, g)
  PROVE  TypeInv'
<1>1. ports' \in Seq(Port) /\ port' \in [Port -> PortRecord]
  <2>1. CASE Creates(p)
    <3>1. PICK mac \in OwnMac : /\ ports' = <<p>> \o ports
                                /\ port' = [port EXCEPT ![p] = FreshPort(p, mac)]
      BY <2>1 DEF Enable
    <3>2. <<p>> \in Seq(Port) OBVIOUS
    <3>3. ports' \in Seq(Port) BY <3>1, <3>2, VarTypes, ConcatProperties
    <3>4. FreshPort(p, mac) \in PortRecord BY FreshPortType
    <3> QED BY <3>1, <3>3, <3>4, VarTypes, PutType
  <2>2. CASE ~Creates(p)
    BY <2>2, VarTypes DEF Enable
  <2> QED BY <2>1, <2>2
<1>2. /\ args' = [NoArgs EXCEPT !.port = p, !.agg = g]
      /\ pc' = "update" /\ ret' = "enable_cfg"
      /\ UNCHANGED <<sys, attr, group, cur>>
  BY DEF Enable, StartUpdate
<1>3. args' \in [port : Nat, agg : Nat, batch : SUBSET Port, todo : SUBSET Port]
  BY <1>2, ArgsType
<1>4. args'.port = p /\ args'.agg = g BY <1>2 DEF NoArgs
<1> QED BY <1>1, <1>2, <1>3, <1>4 DEF TypeInv, TypeOK, CallOK, ApiPc

\* The port joins its group and is configured.
LEMMA EnableCfgType ==
  ASSUME TypeInv, EnableCfg
  PROVE  TypeInv'
<1> DEFINE p == args.port
           g == args.agg
           prio == IF attr[p].prio = NoPrio THEN Default_port_priority ELSE attr[p].prio
           i == SetBit(port[p].actor_admin, "AGG", TRUE)
           a == SetBit(port[p].actor, "AGG", TRUE)
           t == [port[p] EXCEPT !.actor_admin = i, !.actor = a, !.agg_id = g,
                                !.lacp_enabled = TRUE]
           f == [port EXCEPT ![p].actor_admin = SetBit(@, "AGG", TRUE),
                             ![p].actor = SetBit(@, "AGG", TRUE),
                             ![p].agg_id = g,
                             ![p].lacp_enabled = TRUE]
<1>1. p \in Port /\ g \in Agg BY DEF EnableCfg, TypeInv, CallOK
<1>2. prio \in Nat
  BY <1>1, VarTypes DEF Attr, NoPrio, Default_port_priority
<1>3. i \in Info /\ a \in Info
  BY <1>1, VarTypes, SetBitType DEF PortRecord, StateBit
<1>4. t \in PortRecord
  <2>1. port[p] \in PortRecord BY <1>1, VarTypes
  <2> HIDE DEF i, a, p, g
  <2> QED BY <1>1, <1>3, <2>1 DEF PortRecord
<1>5. f = [port EXCEPT ![p] = t]
  <2>1. port[p] \in PortRecord /\ DOMAIN port = Port BY <1>1, VarTypes
  <2> HIDE DEF p, g
  <2> QED BY <1>1, <2>1 DEF PortRecord
<1>6. f \in [Port -> PortRecord]
  <2> HIDE DEF t, f, p
  <2> QED BY <1>4, <1>5, VarTypes, PutType
<1>7. port' = port \/ port' = Reselect(WithPrio(f, p, prio), g)
  BY DEF EnableCfg
<1>8. group' = [group EXCEPT ![g] = @ \cup {p}] BY DEF EnableCfg
<1> HIDE DEF f, prio
<1>9. port' \in [Port -> PortRecord]
  <2> HIDE DEF p, g
  <2>1. WithPrio(f, p, prio) \in [Port -> PortRecord]
    BY <1>1, <1>2, <1>6, WithPrioType
  <2>2. Reselect(WithPrio(f, p, prio), g) \in [Port -> PortRecord]
    BY <2>1, ReselectType
  <2> QED BY <1>7, <2>2, VarTypes
<1>10. group' \in [Agg -> SUBSET Port]
  <2> HIDE DEF p, g
  <2> QED BY <1>1, <1>8, VarTypes
<1> QED BY <1>9, <1>10 DEF EnableCfg, StartUpdate, TypeInv, TypeOK, CallOK, ApiPc

\* The port is told the state of its link.
LEMMA EnableLinkType ==
  ASSUME TypeInv, EnableLink
  PROVE  TypeInv'
<1> DEFINE p == args.port
           up == attr[p].link_status
<1>1. NoArgs \in [port : Nat, agg : Nat, batch : SUBSET Port, todo : SUBSET Port]
  BY DEF NoArgs
<1>2. ret = "idle" BY DEF EnableLink, TypeInv, CallOK
<1>3. CASE p \in Listed /\ port[p].port_enabled # up
  <2>1. up \in BOOLEAN BY <1>3, VarTypes DEF Attr
  <2>2. LinkChanged(p, up) \in [Port -> PortRecord] BY <1>3, <2>1, VarTypes, LinkChangedType
  <2>3. port' \in [Port -> PortRecord] BY <1>3, <2>2 DEF EnableLink
  <2> QED BY <1>3, <2>3 DEF EnableLink, StartUpdate, TypeInv, TypeOK, CallOK, ApiPc
<1>4. CASE ~(p \in Listed /\ port[p].port_enabled # up)
  BY <1>1, <1>2, <1>4 DEF EnableLink, TypeInv, TypeOK, CallOK, ApiPc
<1> QED BY <1>3, <1>4

\* A batch of ports is taken out of its group.
LEMMA StartDisableType ==
  ASSUME TypeInv, NEW S \in SUBSET Port, StartDisable(S)
  PROVE  TypeInv'
<1>1. args' \in [port : Nat, agg : Nat, batch : SUBSET Port, todo : SUBSET Port]
  BY VarTypes DEF StartDisable, NoArgs
<1>2. group' \in [Agg -> SUBSET Port] BY VarTypes DEF StartDisable
<1>3. ret = "idle" BY DEF StartDisable, TypeInv, CallOK
<1> QED BY <1>1, <1>2, <1>3 DEF StartDisable, TypeInv, TypeOK, CallOK, ApiPc

\* One port of the batch gives up aggregation.
LEMMA DisableNotifyType ==
  ASSUME TypeInv, NEW p \in Port, DisableNotify(p)
  PROVE  TypeInv'
<1> DEFINE i == SetBit(port[p].actor_admin, "AGG", FALSE)
           a == SetBit(port[p].actor, "AGG", FALSE)
           t == [port[p] EXCEPT !.ntt = TRUE, !.actor_admin = i, !.actor = a]
<1>1. port[p] \in PortRecord BY VarTypes
<1>2. i \in Info /\ a \in Info BY <1>1, SetBitType DEF PortRecord, StateBit
<1>3. t \in PortRecord
  <2> HIDE DEF i, a
  <2> QED BY <1>1, <1>2 DEF PortRecord
<1>4. port' = [port EXCEPT ![p] = t]
  BY <1>1, VarTypes DEF DisableNotify, PortRecord
<1>5. port' \in [Port -> PortRecord]
  <2> HIDE DEF t
  <2> QED BY <1>3, <1>4, VarTypes, PutType
<1>6. args' \in [port : Nat, agg : Nat, batch : SUBSET Port, todo : SUBSET Port]
  <2> DEFINE rest == args.todo \ {p}
  <2>1. p \in Nat BY PortAssumption
  <2>2. args \in [port : Nat, agg : Nat, batch : SUBSET Port, todo : SUBSET Port]
    BY DEF TypeInv, TypeOK
  <2>3. rest \in SUBSET Port BY <2>2
  <2>4. args' = [args EXCEPT !.port = p, !.todo = rest] BY <2>2 DEF DisableNotify
  <2> HIDE DEF rest
  <2> QED BY <2>1, <2>2, <2>3, <2>4
<1> QED BY <1>5, <1>6 DEF DisableNotify, StartUpdate, TypeInv, TypeOK, CallOK, ApiPc

\* The port leaves its group.
LEMMA DisableLeaveType ==
  ASSUME TypeInv, DisableLeave
  PROVE  TypeInv'
<1> DEFINE p == args.port
           f == Reselect(port, port[p].agg_id)
           t == [f[p] EXCEPT !.agg_id = 0, !.lacp_enabled = FALSE]
<1>1. f \in [Port -> PortRecord] BY VarTypes, ReselectType
<1>2. port' = [f EXCEPT ![p].agg_id = 0, ![p].lacp_enabled = FALSE]
  BY DEF DisableLeave
<1> HIDE DEF f, p
<1>3. CASE p \in Port
  <2>1. f[p] \in PortRecord BY <1>1, <1>3
  <2>2. t \in PortRecord BY <2>1 DEF PortRecord
  <2>3. port' = [f EXCEPT ![p] = t] BY <1>1, <1>2, <1>3
  <2> HIDE DEF t
  <2>4. port' \in [Port -> PortRecord] BY <1>1, <2>2, <2>3, PutType
  <2> QED BY <2>4 DEF DisableLeave, TypeInv, TypeOK, CallOK, ApiPc
<1>4. CASE p \notin Port
  <2>1. port' = f BY <1>1, <1>2, <1>4
  <2> QED BY <1>1, <2>1 DEF DisableLeave, TypeInv, TypeOK, CallOK, ApiPc
<1> QED BY <1>3, <1>4

\* The last update of the batch.
LEMMA DisableUpdateType ==
  ASSUME TypeInv, DisableUpdate
  PROVE  TypeInv'
BY DEF DisableUpdate, StartUpdate, TypeInv, TypeOK, CallOK, ApiPc

\* A port is unlinked and freed.
LEMMA RemovePortType ==
  ASSUME TypeInv, NEW p \in Port, RemovePort(p)
  PROVE  TypeInv'
<1>1. PICK i \in DOMAIN ports : ports' = RemoveAt(ports, i)
  BY DEF RemovePort
<1>2. ports' \in Seq(Port)
  <2>1. ports \in Seq(Port) BY VarTypes
  <2>2. /\ Len(ports) \in Nat /\ DOMAIN ports = 1 .. Len(ports)
        /\ \A j \in 1 .. Len(ports) : ports[j] \in Port
    BY <2>1, LenProperties, ElementOfSeq
  <2>3. i \in 1 .. Len(ports) BY <2>2
  <2>4. SubSeq(ports, 1, i - 1) \in Seq(Port) BY <2>2, <2>3, SubSeqProperties
  <2>5. SubSeq(ports, i + 1, Len(ports)) \in Seq(Port) BY <2>2, <2>3, SubSeqProperties
  <2> QED BY <1>1, <2>4, <2>5, ConcatProperties DEF RemoveAt
<1>3. port' \in [Port -> PortRecord]
  BY VarTypes, ZeroPortType, PutType DEF RemovePort
<1> QED BY <1>2, <1>3 DEF RemovePort, TypeInv, TypeOK, CallOK

\* trunk_port_lacp_disable_batch returns.
LEMMA RemoveReturnsType ==
  ASSUME TypeInv, RemoveReturns
  PROVE  TypeInv'
<1>1. NoArgs \in [port : Nat, agg : Nat, batch : SUBSET Port, todo : SUBSET Port]
  BY DEF NoArgs
<1>2. ret = "idle" BY DEF RemoveReturns, TypeInv, CallOK
<1> QED BY <1>1, <1>2 DEF RemoveReturns, TypeInv, TypeOK, CallOK

-----------------------------------------------------------------------------
(* Type correctness *)

\* stub_init and lacp_sys_init leave a well-formed system.
LEMMA InitType == Init => TypeInv
<1> SUFFICES ASSUME Init PROVE TypeInv
  OBVIOUS
<1>1. ports \in Seq(Port) BY EmptySeq DEF Init
<1>2. port \in [Port -> PortRecord] BY ZeroPortType DEF Init
<1>3. sys \in Sys
  <2>1. Default_system_priority \in Word
    BY MaxWordBound DEF Default_system_priority, Word
  <2> QED BY <2>1, TimerAssumption DEF Init, BootSys, Sys
<1>4. attr \in [Port -> Attr]
  BY DEF Init, BootAttr, Attr
<1>5. group \in [Agg -> SUBSET Port] BY DEF Init
<1>6. args \in [port : Nat, agg : Nat, batch : SUBSET Port, todo : SUBSET Port]
  BY DEF Init, NoArgs
<1> QED BY <1>1, <1>2, <1>3, <1>4, <1>5, <1>6 DEF Init, TypeInv, TypeOK, CallOK

\* Every step of lacp_sys_update keeps the system well formed.
LEMMA UpdateType ==
  ASSUME TypeInv, Update
  PROVE  TypeInv'
BY RunRxType, RunSelType, RunMuxType, RunTxType, UpdateReturnsType DEF Update, Run

\* Every later part of a call keeps the system well formed.
LEMMA ContinueType ==
  ASSUME TypeInv, Continue
  PROVE  TypeInv'
BY EnableCfgType, EnableLinkType, DisableLeaveType, DisableUpdateType,
   RemoveReturnsType, DisableNotifyType, RemovePortType DEF Continue

\* Every call keeps the system well formed.
LEMMA CommandType ==
  ASSUME TypeInv, Command
  PROVE  TypeInv'
<1>1. ASSUME NEW p \in Port, NEW a \in Remote, NEW v \in Views(p),
             RxLacpdu(p, [rcvd |-> TRUE, actor |-> a, partner |-> v])
      PROVE  TypeInv'
  <2> DEFINE m == [rcvd |-> TRUE, actor |-> a, partner |-> v]
  <2>1. a \in Info BY RemoteAssumption
  <2>2. v \in Info
    <3>1. port[p].actor \in Info BY VarTypes DEF PortRecord
    <3> QED BY <3>1, RemoteAssumption DEF Views
  <2>3. m \in Msg BY <2>1, <2>2 DEF Msg, Pdu
  <2> HIDE DEF m
  <2>4. RxLacpdu(p, m) BY <1>1 DEF m
  <2> QED BY <2>3, <2>4, RxLacpduType
<1>2. ASSUME NEW p \in Port, NEW up \in BOOLEAN, LinkChange(p, up) \/ SetLink(p, up)
      PROVE  TypeInv'
  BY <1>2, LinkType
<1>3. ASSUME NEW p \in Port, NEW v \in Nat, SetSpeed(p, v)
      PROVE  TypeInv'
  <2>1. [attr[p] EXCEPT !.speed = v] \in Attr BY VarTypes DEF Attr
  <2> QED BY <1>3, <2>1, SetAttrType DEF SetSpeed
<1>4. ASSUME NEW p \in Port, NEW v \in BOOLEAN, SetDuplex(p, v)
      PROVE  TypeInv'
  <2>1. [attr[p] EXCEPT !.duplex = v] \in Attr BY VarTypes DEF Attr
  <2> QED BY <1>4, <2>1, SetAttrType DEF SetDuplex
<1>5. ASSUME NEW S \in SUBSET Port, StartDisable(S)
      PROVE  TypeInv'
  BY <1>5, StartDisableType
<1>6. \A g \in Agg : group[g] \in SUBSET Port BY VarTypes
<1>7. ASSUME NEW s \in Sys, SysSetCfg(s)
      PROVE  TypeInv'
  BY <1>7, SysSetCfgType
<1>8. \A v \in Nat : /\ [sys EXCEPT !.priority = Low16(v)] \in Sys
                     /\ [sys EXCEPT !.slow_periodic_time = Low16(v)] \in Sys
                     /\ [sys EXCEPT !.fast_periodic_time = Low16(v)] \in Sys
  BY VarTypes, Low16Type DEF Sys
<1>9. \A v \in BOOLEAN : [sys EXCEPT !.lacp_timeout = v] \in Sys
  BY VarTypes DEF Sys
<1>10. CASE \E p \in Port :
              \/ \E a \in Remote, v \in Views(p) :
                    RxLacpdu(p, [rcvd |-> TRUE, actor |-> a, partner |-> v])
              \/ \E up \in IpcLinks : LinkChange(p, up)
              \/ \E up \in CliLinks : SetLink(p, up)
              \/ \E v \in Speeds : SetSpeed(p, v)
              \/ \E v \in Duplexes : SetDuplex(p, v)
              \/ \E v \in PortPrios : SetPortPrio(p, v)
              \/ \E g \in Agg : Enable(p, g)
              \/ Disable(p)
              \/ ClearStat(p)
  BY <1>1, <1>2, <1>3, <1>4, <1>5, <1>10, CommandAssumption, SetPortPrioType, EnableType,
     ClearStatType DEF Disable
<1>11. CASE \/ \E g \in Agg : DeleteAgg(g)
            \/ \E v \in SysPrios : SetSysPrio(v)
            \/ \E v \in Timeouts : SetPeriod(v)
            \/ \E v \in LongPeriods : SetLongPeriod(v)
            \/ \E v \in ShortPeriods : SetShortPeriod(v)
  BY <1>5, <1>6, <1>7, <1>8, <1>9, <1>11, CommandAssumption
  DEF DeleteAgg, SetSysPrio, SetPeriod, SetLongPeriod, SetShortPeriod
<1> QED BY <1>10, <1>11 DEF Command

\* No step takes the system out of its types.
LEMMA NextType == TypeInv /\ [Next]_vars => TypeInv'
<1>1. ASSUME TypeInv, UNCHANGED vars
      PROVE  TypeInv'
  BY <1>1 DEF vars, TypeInv, TypeOK, CallOK
<1> QED BY <1>1, UpdateType, ContinueType, OneSecondType, CommandType DEF Next

\* Type correctness: whatever the order of the calls, every variable of the bridge
\* stays in its range; the timers, keys and priorities in theirs, the ports of a
\* group among those of the bridge, the master of a port a port.
THEOREM TypeCorrect == Spec => []TypeOK
<1>1. Spec => []TypeInv
  BY InitType, NextType, PTL DEF Spec
<1>2. TypeInv => TypeOK BY DEF TypeInv
<1> QED BY <1>1, <1>2, PTL

-----------------------------------------------------------------------------
(***************************************************************************)
(* A port is put to use only towards a partner that can aggregate, for every *)
(* set of ports, groups, partners and values of the commands.  Only the       *)
(* update of a group puts ports to use, and it asks for the bit; everything  *)
(* that changes the partner either keeps the bit or unselects the port.      *)
(***************************************************************************)

\* A port record in use has a partner that can aggregate.
Usable(t) == InUse(t) => Bit(t.partner, "AGG")

\* u has the partner of t and is in use only if t is.
Keeps(t, u) ==
    /\ u.partner = t.partner
    /\ u.standby = t.standby
    /\ u.selected => t.selected

UseInv == TypeInv /\ InUseIsAggregatable

\* Keeping and keeping again is keeping, and it keeps a port usable.
LEMMA KeepsUsable ==
  /\ \A t : Keeps(t, t)
  /\ \A t, u, v : Keeps(t, u) /\ Keeps(u, v) => Keeps(t, v)
  /\ \A t, u : Keeps(t, u) /\ Usable(t) => Usable(u)
BY DEF Keeps, Usable, InUse, Bit

\* Unselecting a group changes nothing but selected.
LEMMA ReselectKeeps ==
  ASSUME NEW f \in [Port -> PortRecord], NEW g, NEW p \in Port
  PROVE  Keeps(f[p], Reselect(f, g)[p])
<1>1. Reselect(f, g)[p] \in {f[p], [f[p] EXCEPT !.selected = FALSE]}
  BY DEF Reselect
<1>2. Keeps(f[p], [f[p] EXCEPT !.selected = FALSE])
  BY DEF Keeps, PortRecord
<1>3. Keeps(f[p], f[p]) BY KeepsUsable
<1> QED BY <1>1, <1>2, <1>3

\* A step whose port records keep those before it.
LEMMA KeepsStep ==
  ASSUME UseInv, \A p \in Port : Keeps(port[p], port'[p])
  PROVE  InUseIsAggregatable'
BY KeepsUsable DEF UseInv, InUseIsAggregatable, Usable

\* Every entry of the receive machine keeps a port usable.
LEMMA RxUsable ==
  ASSUME NEW p \in Port, NEW t \in PortRecord, Usable(t),
         NEW s \in RxState, s # "BEGIN"
  PROVE  Usable(RxEnter(p, t, s))
<1>1. /\ t.actor \in Info /\ t.partner \in Info
      /\ t.msg.actor \in Info /\ t.selected \in BOOLEAN
  BY MsgType DEF PortRecord
<1>2. CASE s = "INITIALIZE"
  BY <1>2 DEF RxEnter, EnterInitialize, Usable, InUse, PortRecord
<1>3. CASE s = "PORT_DISABLED"
  BY <1>3 DEF RxEnter, EnterPortDisabled, Usable, InUse, PortRecord
<1>4. CASE s = "LACP_DISABLED"
  BY <1>4 DEF RxEnter, EnterLacpDisabled, Usable, InUse, PortRecord
<1>5. CASE s = "EXPIRED"
  <2> DEFINE syn == SetBit(t.partner, "SYN", FALSE)
             new == SetBit(syn, "TMT", TRUE)
  <2>1. syn \in Info /\ (Bit(syn, "AGG") <=> Bit(t.partner, "AGG"))
    BY <1>1, SetBitType, SetBitBit DEF StateBit
  <2>2. Bit(new, "AGG") <=> Bit(t.partner, "AGG")
    <3> HIDE DEF syn
    <3> QED BY <2>1, SetBitBit DEF StateBit
  <2> DEFINE u == RxEnter(p, t, s)
  <2>3. u.partner = new /\ u.selected = t.selected /\ u.standby = t.standby
    BY <1>5 DEF RxEnter, EnterExpired, PortRecord
  <2> HIDE DEF new, u
  <2>4. Usable(u) BY <2>2, <2>3 DEF Usable, InUse
  <2> QED BY <2>4 DEF u
<1>6. CASE s = "DEFAULTED"
  <2> DEFINE new == PartnerAdmin(p)
             u == RxEnter(p, t, s)
  <2>1. /\ u.partner = new /\ u.standby = t.standby
        /\ u.selected = (t.selected /\ SamePartner(new, t.partner))
    BY <1>6 DEF RxEnter, EnterDefaulted, PortRecord
  <2> HIDE DEF new, u
  <2>2. SamePartner(new, t.partner) => (Bit(new, "AGG") <=> Bit(t.partner, "AGG"))
    BY DEF SamePartner
  <2>3. Usable(u) BY <2>1, <2>2 DEF Usable, InUse
  <2> QED BY <2>3 DEF u
<1>7. CASE s = "CURRENT"
  <2> DEFINE new == t.msg.actor
             b == PartnerMatched(t) /\ Bit(new, "SYN")
             syn == SetBit(new, "SYN", b)
             u == RxEnter(p, t, s)
  <2>1. /\ u.partner = syn /\ u.standby = t.standby
        /\ u.selected = (t.selected /\ SamePartner(new, t.partner))
    BY <1>7 DEF RxEnter, EnterCurrent, NewPartner, PortRecord
  <2>2. b \in BOOLEAN BY DEF PartnerMatched, Bit
  <2> HIDE DEF b
  <2>3. Bit(syn, "AGG") <=> Bit(new, "AGG")
    BY <1>1, <2>2, SetBitBit DEF StateBit
  <2> HIDE DEF syn, new, u
  <2>4. SamePartner(new, t.partner) => (Bit(new, "AGG") <=> Bit(t.partner, "AGG"))
    BY DEF SamePartner
  <2>5. Usable(u) BY <2>1, <2>3, <2>4 DEF Usable, InUse
  <2> QED BY <2>5 DEF u
<1> QED BY <1>2, <1>3, <1>4, <1>5, <1>6, <1>7 DEF RxState

\* A receive step.
LEMMA RunRxUse ==
  ASSUME UseInv, NEW p \in Port, RunRx(p)
  PROVE  InUseIsAggregatable'
<1>1. PICK s \in RxState :
        /\ RxGoes(port[p], s)
        /\ LET f == [port EXCEPT ![p] = RxEnter(p, port[p], s)]
           IN  port' = IF s = "CURRENT" /\ NewPartner(port[p])
                       THEN Reselect(f, port[p].agg_id) ELSE f
  BY DEF RunRx
<1> DEFINE f == [port EXCEPT ![p] = RxEnter(p, port[p], s)]
<1>2. s # "BEGIN" BY <1>1 DEF RxGoes
<1>3. port \in [Port -> PortRecord] BY VarTypes DEF UseInv
<1>4. \A q \in Port : Usable(port[q]) BY DEF UseInv, InUseIsAggregatable, Usable
<1>5. RxEnter(p, port[p], s) \in PortRecord BY <1>2, <1>3, RxEnterType
<1>6. f \in [Port -> PortRecord] BY <1>3, <1>5, PutType
<1>7. Usable(RxEnter(p, port[p], s)) BY <1>2, <1>3, <1>4, RxUsable
<1>8. \A q \in Port : f[q] = IF q = p THEN RxEnter(p, port[p], s) ELSE port[q]
  BY <1>3
<1>9. \A q \in Port : Usable(f[q]) BY <1>4, <1>7, <1>8
<1>10. port' = Reselect(f, port[p].agg_id) \/ port' = f BY <1>1
<1> HIDE DEF f
<1>11. \A q \in Port : Keeps(f[q], port'[q])
  BY <1>6, <1>10, ReselectKeeps, KeepsUsable
<1>12. \A q \in Port : Usable(port'[q]) BY <1>9, <1>11, KeepsUsable
<1> QED BY <1>12 DEF InUseIsAggregatable, Usable

\* The update of a group puts only ports to use whose partner can aggregate.
LEMMA UpdateAggUsable ==
  ASSUME NEW f \in [Port -> PortRecord], NEW S \in SUBSET Port,
         NEW key \in [Port -> Word], NEW p \in Port, Usable(f[p])
  PROVE  Usable(UpdateAggPortsSelect(f, S, key)[p])
<1> DEFINE h == RefreshKeys(f, S, key)
           C == Candidates(h, S)
           m == Master(h, C)
           u == MarkGroup(h, S)[p]
           k == key[p]
<1>1. DOMAIN h = Port BY DEF RefreshKeys
<1>2. h[p] \in {[f[p] EXCEPT !.actor.key = k], f[p]} BY DEF RefreshKeys
<1>3. f[p] \in PortRecord OBVIOUS
<1>4. /\ h[p].partner = f[p].partner /\ h[p].selected = f[p].selected
      /\ h[p].standby = f[p].standby
      /\ {"partner", "selected", "standby", "master_port"} \subseteq DOMAIN h[p]
  <2> HIDE DEF h, k
  <2>1. CASE h[p] = f[p] BY <1>3, <2>1 DEF PortRecord
  <2>2. CASE h[p] = [f[p] EXCEPT !.actor.key = k] BY <1>3, <2>2 DEF PortRecord
  <2> QED BY <1>2, <2>1, <2>2
<1> DEFINE b == IF C = {} THEN TRUE ELSE ~Joins(h, S, h[p], h[m])
<1>5. p \in S => \E q : u = [h[p] EXCEPT !.selected = TRUE, !.standby = b, !.master_port = q]
  BY <1>1 DEF MarkGroup
<1>6. p \notin S => u = h[p]
  BY <1>1 DEF MarkGroup
<1>7. b = FALSE => Bit(h[p].partner, "AGG")
  BY DEF Joins
<1>8. b \in BOOLEAN OBVIOUS
<1> HIDE DEF h, b, u
<1>9. CASE p \in S
  <2>1. PICK q : u = [h[p] EXCEPT !.selected = TRUE, !.standby = b, !.master_port = q]
    BY <1>5, <1>9
  <2>2. u.partner = h[p].partner /\ u.standby = b BY <1>4, <2>1
  <2>3. Usable(u) BY <1>7, <1>8, <2>2 DEF Usable, InUse
  <2> QED BY <2>3 DEF UpdateAggPortsSelect, h, u
<1>10. CASE p \notin S
  <2>1. Usable(u) BY <1>4, <1>6, <1>10 DEF Usable, InUse
  <2> QED BY <2>1 DEF UpdateAggPortsSelect, h, u
<1> QED BY <1>9, <1>10

\* A selection step.
LEMMA RunSelUse ==
  ASSUME UseInv, NEW p \in Port, RunSel(p)
  PROVE  InUseIsAggregatable'
<1> DEFINE key == [q \in Port |-> OperKey(PortTid(q), attr[q].speed, attr[q].duplex)]
           f == [port EXCEPT ![p].sel = "SELECTION"]
           alone == [f EXCEPT ![p].selected = TRUE, ![p].standby = TRUE]
           S == Members(port[p].agg_id)
<1>1. port \in [Port -> PortRecord] BY VarTypes DEF UseInv
<1>2. \A q \in Port : Usable(port[q]) BY DEF UseInv, InUseIsAggregatable, Usable
<1>3. f \in [Port -> PortRecord] BY <1>1 DEF PortRecord, SelState
<1>4. \A q \in Port : Usable(f[q])
  <2>1. \A q \in Port : Keeps(port[q], f[q]) BY <1>1 DEF Keeps, PortRecord
  <2> HIDE DEF f
  <2> QED BY <1>2, <2>1, KeepsUsable
<1>5. \A q \in Port : Usable(alone[q])
  <2> HIDE DEF f
  <2>1. ASSUME NEW q \in Port, q # p PROVE Usable(alone[q])
    <3>1. alone[q] = f[q] BY <1>3, <2>1
    <3> QED BY <1>4, <3>1
  <2>2. Usable(alone[p])
    <3>1. alone[p].standby = TRUE BY <1>3 DEF PortRecord
    <3> QED BY <3>1 DEF Usable, InUse
  <2> QED BY <2>1, <2>2
<1>6. key \in [Port -> Word] BY PortTidType, OperKeyType
<1>7. S \subseteq Port BY VarTypes DEF UseInv, Members
<1>8. port' \in {alone, f, UpdateAggPortsSelect(f, S, key)} BY DEF RunSel
<1> HIDE DEF f, alone, key, S
<1>9. \A q \in Port : Usable(UpdateAggPortsSelect(f, S, key)[q])
  BY <1>3, <1>4, <1>6, <1>7, UpdateAggUsable
<1>10. \A q \in Port : Usable(port'[q]) BY <1>4, <1>5, <1>8, <1>9
<1> QED BY <1>10 DEF InUseIsAggregatable, Usable

-----------------------------------------------------------------------------
(* The other steps change neither the partner nor standby, and select no port *)

\* A record changed in other fields keeps the old one.
LEMMA PutKeeps ==
  ASSUME NEW f \in [Port -> PortRecord], NEW p, NEW t, p \in Port => Keeps(f[p], t)
  PROVE  \A q \in Port : Keeps(f[q], [f EXCEPT ![p] = t][q])
BY KeepsUsable

\* The mux and the transmit machine.
LEMMA MuxTxUse ==
  ASSUME UseInv, NEW p \in Port, RunMux(p) \/ RunTx(p)
  PROVE  InUseIsAggregatable'
<1>1. port \in [Port -> PortRecord] BY VarTypes DEF UseInv
<1>2. CASE RunMux(p)
  <2>1. PICK s \in MuxState : /\ MuxGoes(port[p], SysIsReady(p), s)
                              /\ port' = [port EXCEPT ![p] = MuxEnter(port[p], s)]
    BY <1>2 DEF RunMux
  <2>2. s # "BEGIN" BY <2>1 DEF MuxGoes
  <2>3. Keeps(port[p], MuxEnter(port[p], s))
    <3>1. ASSUME NEW t \in PortRecord PROVE Keeps(t, MuxEnter(t, s))
      BY <2>2, <3>1 DEF MuxEnter, EnterWaiting, MuxState, Keeps, PortRecord
    <3> QED BY <1>1, <3>1
  <2> QED BY <1>1, <2>1, <2>3, PutKeeps, KeepsStep
<1>3. CASE RunTx(p)
  <2>1. PICK s \in TxState :
          /\ TxGoes(port[p], s)
          /\ port' = [port EXCEPT ![p] = TxEnter(port[p], sys.slow_periodic_time,
                                                 sys.fast_periodic_time, s)]
    BY <1>3 DEF RunTx
  <2>2. s # "BEGIN" BY <2>1 DEF TxGoes
  <2>3. ASSUME NEW t \in PortRecord, NEW slow, NEW fast
        PROVE  Keeps(t, TxEnter(t, slow, fast, s))
    BY <2>2, <2>3 DEF TxEnter, EnterPeriodic, TxState, Keeps, PortRecord
  <2>4. Keeps(port[p], TxEnter(port[p], sys.slow_periodic_time,
                               sys.fast_periodic_time, s))
    BY <1>1, <2>3
  <2> QED BY <1>1, <2>1, <2>4, PutKeeps, KeepsStep
<1> QED BY <1>2, <1>3

\* The passing of a second.
LEMMA OneSecondUse ==
  ASSUME UseInv, OneSecond
  PROVE  InUseIsAggregatable'
<1>1. port \in [Port -> PortRecord] BY VarTypes DEF UseInv
<1>2. ASSUME NEW t \in PortRecord PROVE Keeps(t, Ticked(t))
  BY <1>2 DEF Ticked, Keeps, PortRecord
<1>3. port' = [p \in Port |-> IF p \in Listed THEN Ticked(port[p]) ELSE port[p]]
  BY DEF OneSecond
<1>4. \A p \in Port : Keeps(port[p], port'[p])
  BY <1>1, <1>2, <1>3, KeepsUsable
<1> QED BY <1>4, KeepsStep

\* A received LACPDU is only stored.
LEMMA RxLacpduUse ==
  ASSUME UseInv, NEW p \in Port, NEW m, RxLacpdu(p, m)
  PROVE  InUseIsAggregatable'
<1>1. port \in [Port -> PortRecord] BY VarTypes DEF UseInv
<1>2. ASSUME NEW t \in PortRecord PROVE Keeps(t, [t EXCEPT !.msg = m])
  BY <1>2 DEF Keeps, PortRecord
<1>3. ASSUME NEW t \in PortRecord, NEW b PROVE Keeps(t, [t EXCEPT !.port_moved = @ \/ b])
  BY <1>3 DEF Keeps, PortRecord
<1>4. CASE port' = port BY <1>4, KeepsUsable, KeepsStep
<1>5. CASE port' = [q \in Port |->
                      IF q = p THEN [port[p] EXCEPT !.msg = m]
                      ELSE [port[q] EXCEPT !.port_moved = @ \/ Moved(p, m, q)]]
  <2>1. \A q \in Port : Keeps(port[q], port'[q]) BY <1>1, <1>2, <1>3, <1>5
  <2> QED BY <2>1, KeepsStep
<1> QED BY <1>4, <1>5 DEF RxLacpdu

\* The link of a port changes and its group is unselected.
LEMMA LinkChangedKeeps ==
  ASSUME TypeInv, NEW p \in Port, NEW up \in BOOLEAN
  PROVE  \A q \in Port : Keeps(port[q], LinkChanged(p, up)[q])
<1> DEFINE t == WithLink(port[p], attr[p], up)
           f == [port EXCEPT ![p] = t]
<1>1. port \in [Port -> PortRecord] BY VarTypes
<1>2. t \in PortRecord BY VarTypes, WithLinkType
<1>3. Keeps(port[p], t) BY <1>1 DEF WithLink, Keeps, PortRecord
<1>4. LinkChanged(p, up) = Reselect(f, port[p].agg_id) BY <1>1 DEF LinkChanged
<1> HIDE DEF t
<1>5. f \in [Port -> PortRecord] BY <1>1, <1>2, PutType
<1>6. \A q \in Port : Keeps(port[q], f[q]) BY <1>1, <1>3, PutKeeps
<1> HIDE DEF f
<1>7. \A q \in Port : Keeps(f[q], LinkChanged(p, up)[q]) BY <1>4, <1>5, ReselectKeeps
<1> QED BY <1>6, <1>7, KeepsUsable

\* The calls on links.
LEMMA LinkUse ==
  ASSUME UseInv, NEW p \in Port, NEW up \in BOOLEAN, LinkChange(p, up) \/ SetLink(p, up)
  PROVE  InUseIsAggregatable'
<1>1. LinkIndication(p, up) BY DEF LinkChange, SetLink
<1>2. port' = LinkChanged(p, up) \/ port' = port BY <1>1 DEF LinkIndication
<1>3. \A q \in Port : Keeps(port[q], port'[q])
  BY <1>2, LinkChangedKeeps, KeepsUsable DEF UseInv
<1> QED BY <1>3, KeepsStep

\* A priority is only stored.
LEMMA WithPrioKeeps ==
  ASSUME NEW f \in [Port -> PortRecord], NEW p \in Port, NEW v, NEW q \in Port
  PROVE  Keeps(f[q], WithPrio(f, p, v)[q])
<1>1. f[q] \in PortRecord OBVIOUS
<1>2. CASE q = p BY <1>1, <1>2 DEF WithPrio, Keeps, PortRecord
<1>3. CASE q # p
  <2>1. WithPrio(f, p, v)[q] = f[q] BY <1>3 DEF WithPrio
  <2> QED BY <2>1, KeepsUsable
<1> QED BY <1>2, <1>3

\* The calls that set speed, duplex mode and priority of a port.
LEMMA AttrUse ==
  ASSUME UseInv, NEW p \in Port,
         NEW a, NEW v \in Nat, SetAttr(p, a) \/ SetPortPrio(p, v)
  PROVE  InUseIsAggregatable'
<1>1. port \in [Port -> PortRecord] BY VarTypes DEF UseInv
<1> DEFINE w == WithPrio(port, p, v)
<1>2. w \in [Port -> PortRecord] BY <1>1, WithPrioType
<1>3. \A q \in Port : Keeps(port[q], w[q]) BY <1>1, WithPrioKeeps
<1>4. \/ port' = port \/ port' = Reselect(port, port[p].agg_id)
      \/ port' = Reselect(w, port[p].agg_id)
  BY DEF SetAttr, SetPortPrio
<1> HIDE DEF w
<1>5. CASE port' = port BY <1>5, KeepsUsable, KeepsStep
<1>6. CASE port' = Reselect(port, port[p].agg_id)
  BY <1>1, <1>6, ReselectKeeps, KeepsStep
<1>7. CASE port' = Reselect(w, port[p].agg_id)
  <2>1. \A q \in Port : Keeps(w[q], port'[q]) BY <1>2, <1>7, ReselectKeeps
  <2>2. \A q \in Port : Keeps(port[q], port'[q]) BY <1>3, <2>1, KeepsUsable
  <2> QED BY <2>2, KeepsStep
<1> QED BY <1>4, <1>5, <1>6, <1>7

\* The calls that set what the whole system uses.
LEMMA SysUse ==
  ASSUME UseInv, NEW s, SysSetCfg(s)
  PROVE  InUseIsAggregatable'
<1> DEFINE told(t) ==
      [t EXCEPT !.actor = SetBit([@ EXCEPT !.system_priority = s.priority],
                                 "TMT", s.lacp_timeout),
                !.ntt = TRUE]
<1>1. port \in [Port -> PortRecord] BY VarTypes DEF UseInv
<1>2. ASSUME NEW t \in PortRecord PROVE Keeps(t, told(t))
  BY <1>2 DEF Keeps, PortRecord
<1>3. port' = [p \in Port |-> IF p \in Listed THEN told(port[p]) ELSE port[p]]
  BY DEF SysSetCfg
<1> HIDE DEF told
<1>4. \A p \in Port : Keeps(port[p], port'[p]) BY <1>1, <1>2, <1>3, KeepsUsable
<1> QED BY <1>4, KeepsStep

\* The three parts of trunk_port_lacp_enable.
LEMMA EnableUse ==
  ASSUME UseInv, \/ \E p \in Port, g \in Agg : Enable(p, g)
                 \/ EnableCfg \/ EnableLink
  PROVE  InUseIsAggregatable'
<1>1. TypeInv /\ port \in [Port -> PortRecord] BY VarTypes DEF UseInv
<1>2. \A q \in Port : Usable(port[q]) BY DEF UseInv, InUseIsAggregatable, Usable
<1>3. ASSUME NEW p \in Port, NEW g \in Agg, Enable(p, g)
      PROVE  InUseIsAggregatable'
  <2>1. CASE Creates(p)
    <3>1. PICK mac \in OwnMac : port' = [port EXCEPT ![p] = FreshPort(p, mac)]
      BY <1>3, <2>1 DEF Enable
    <3>2. FreshPort(p, mac).selected = FALSE BY DEF FreshPort, ZeroPort
    <3>3. Usable(FreshPort(p, mac)) BY <3>2 DEF Usable, InUse
    <3>4. \A q \in Port : Usable(port'[q]) BY <1>1, <1>2, <3>1, <3>3
    <3> QED BY <3>4 DEF InUseIsAggregatable, Usable
  <2>2. CASE ~Creates(p)
    <3>1. port' = port BY <1>3, <2>2 DEF Enable
    <3> QED BY <3>1, KeepsUsable, KeepsStep
  <2> QED BY <2>1, <2>2
<1>4. CASE EnableCfg
  <2> DEFINE p == args.port
             g == args.agg
             prio == IF attr[p].prio = NoPrio THEN Default_port_priority ELSE attr[p].prio
             i == SetBit(port[p].actor_admin, "AGG", TRUE)
             a == SetBit(port[p].actor, "AGG", TRUE)
             f == [port EXCEPT ![p].actor_admin = SetBit(@, "AGG", TRUE),
                               ![p].actor = SetBit(@, "AGG", TRUE),
                               ![p].agg_id = g,
                               ![p].lacp_enabled = TRUE]
  <2>1. p \in Port /\ g \in Agg BY <1>1, <1>4 DEF EnableCfg, TypeInv, CallOK
  <2>2. prio \in Nat BY <1>1, <2>1, VarTypes DEF Attr, NoPrio, Default_port_priority
  <2>3. i \in Info /\ a \in Info BY <1>1, <2>1, SetBitType DEF PortRecord, StateBit
  <2>4. port' = port \/ port' = Reselect(WithPrio(f, p, prio), g)
    BY <1>4 DEF EnableCfg
  <2> DEFINE t == [port[p] EXCEPT !.actor_admin = i, !.actor = a, !.agg_id = g,
                                  !.lacp_enabled = TRUE]
  <2>5. f = [port EXCEPT ![p] = t]
    <3>1. port[p] \in PortRecord /\ DOMAIN port = Port BY <1>1, <2>1
    <3> HIDE DEF p, g
    <3> QED BY <2>1, <3>1 DEF PortRecord
  <2> HIDE DEF f, prio, i, a, p, g
  <2>6. t \in PortRecord
    <3>1. port[p] \in PortRecord BY <1>1, <2>1
    <3> QED BY <2>1, <2>3, <3>1 DEF PortRecord
  <2>7. Keeps(port[p], t) BY <1>1, <2>1 DEF Keeps, PortRecord
  <2> HIDE DEF t
  <2>8. f \in [Port -> PortRecord] BY <1>1, <2>5, <2>6, PutType
  <2>9. \A q \in Port : Keeps(port[q], f[q]) BY <1>1, <2>5, <2>7, PutKeeps
  <2> DEFINE w == WithPrio(f, p, prio)
  <2>10. w \in [Port -> PortRecord] BY <2>1, <2>2, <2>8, WithPrioType
  <2>11. \A q \in Port : Keeps(f[q], w[q]) BY <2>1, <2>8, WithPrioKeeps
  <2> HIDE DEF w
  <2>12. \A q \in Port : Keeps(w[q], Reselect(w, g)[q]) BY <2>10, ReselectKeeps
  <2>13. \A q \in Port : Keeps(port[q], Reselect(w, g)[q])
    BY <2>9, <2>11, <2>12, KeepsUsable
  <2>14. port' = port \/ port' = Reselect(w, g) BY <2>4 DEF w
  <2>15. \A q \in Port : Keeps(port[q], port'[q]) BY <2>13, <2>14, KeepsUsable
  <2> QED BY <2>15, KeepsStep
<1>5. CASE EnableLink
  <2> DEFINE p == args.port
             up == attr[p].link_status
  <2>1. \/ port' = port
        \/ p \in Listed /\ port' = LinkChanged(p, up)
    BY <1>5 DEF EnableLink
  <2>2. p \in Listed => p \in Port /\ up \in BOOLEAN BY <1>1, VarTypes DEF Attr
  <2>3. \A q \in Port : Keeps(port[q], port'[q])
    BY <1>1, <2>1, <2>2, LinkChangedKeeps, KeepsUsable
  <2> QED BY <2>3, KeepsStep
<1> QED BY <1>3, <1>4, <1>5

\* The parts of trunk_port_lacp_disable_batch.
LEMMA DisableUse ==
  ASSUME UseInv, \/ \E p \in Port : DisableNotify(p) \/ RemovePort(p)
                 \/ DisableLeave
  PROVE  InUseIsAggregatable'
<1>1. TypeInv /\ port \in [Port -> PortRecord] BY VarTypes DEF UseInv
<1>2. \A q \in Port : Usable(port[q]) BY DEF UseInv, InUseIsAggregatable, Usable
<1>3. ASSUME NEW p \in Port, DisableNotify(p)
      PROVE  InUseIsAggregatable'
  <2> DEFINE i == SetBit(port[p].actor_admin, "AGG", FALSE)
             a == SetBit(port[p].actor, "AGG", FALSE)
             t == [port[p] EXCEPT !.ntt = TRUE, !.actor_admin = i, !.actor = a]
  <2>1. port' = [port EXCEPT ![p] = t] BY <1>1, <1>3 DEF DisableNotify, PortRecord
  <2> HIDE DEF i, a
  <2>2. Keeps(port[p], t) BY <1>1 DEF Keeps, PortRecord
  <2> HIDE DEF t
  <2>3. \A q \in Port : Keeps(port[q], port'[q]) BY <1>1, <2>1, <2>2, PutKeeps
  <2> QED BY <2>3, KeepsStep
<1>4. ASSUME NEW p \in Port, RemovePort(p)
      PROVE  InUseIsAggregatable'
  <2>1. port' = [port EXCEPT ![p] = ZeroPort(p)] BY <1>4 DEF RemovePort
  <2>2. Usable(ZeroPort(p)) BY DEF ZeroPort, Usable, InUse
  <2>3. \A q \in Port : Usable(port'[q]) BY <1>1, <1>2, <2>1, <2>2
  <2> QED BY <2>3 DEF InUseIsAggregatable, Usable
<1>5. CASE DisableLeave
  <2> DEFINE p == args.port
             f == Reselect(port, port[p].agg_id)
             t == [f[p] EXCEPT !.agg_id = 0, !.lacp_enabled = FALSE]
  <2>1. port' = [f EXCEPT ![p].agg_id = 0, ![p].lacp_enabled = FALSE]
    BY <1>5 DEF DisableLeave
  <2>2. f \in [Port -> PortRecord] BY <1>1, ReselectType
  <2>3. \A q \in Port : Keeps(port[q], f[q]) BY <1>1, ReselectKeeps
  <2> HIDE DEF f, p
  <2>4. port' = [f EXCEPT ![p] = t] BY <2>1, <2>2
  <2>5. p \in Port => Keeps(f[p], t) BY <2>2 DEF Keeps, PortRecord
  <2> HIDE DEF t
  <2>6. \A q \in Port : Keeps(f[q], port'[q]) BY <2>2, <2>4, <2>5, PutKeeps
  <2>7. \A q \in Port : Keeps(port[q], port'[q]) BY <2>3, <2>6, KeepsUsable
  <2> QED BY <2>7, KeepsStep
<1> QED BY <1>3, <1>4, <1>5

\* The steps that touch no port record.
LEMMA IdleUse ==
  ASSUME UseInv, UNCHANGED port
  PROVE  InUseIsAggregatable'
BY DEF UseInv, InUseIsAggregatable

-----------------------------------------------------------------------------
\* Being usable is kept by every step.
LEMMA UseStep == UseInv /\ [Next]_vars => UseInv'
<1> SUFFICES ASSUME UseInv, [Next]_vars PROVE InUseIsAggregatable'
  BY NextType DEF UseInv
<1>1. CASE UNCHANGED vars BY <1>1, IdleUse DEF vars
<1>2. CASE Update
  BY <1>2, RunRxUse, RunSelUse, MuxTxUse, IdleUse DEF Update, Run, UpdateReturns
<1>3. CASE Continue
  BY <1>3, EnableUse, DisableUse, IdleUse DEF Continue, DisableUpdate, RemoveReturns
<1>4. CASE OneSecond BY <1>4, OneSecondUse
<1>5. CASE Command
  <2>1. ASSUME NEW p \in Port, NEW a \in Remote, NEW v \in Views(p),
               RxLacpdu(p, [rcvd |-> TRUE, actor |-> a, partner |-> v])
        PROVE  InUseIsAggregatable'
    BY <2>1, RxLacpduUse
  <2>2. ASSUME NEW p \in Port, NEW up \in BOOLEAN, LinkChange(p, up) \/ SetLink(p, up)
        PROVE  InUseIsAggregatable'
    BY <2>2, LinkUse
  <2>3. ASSUME NEW p \in Port, NEW v \in Nat, NEW b \in BOOLEAN,
               SetSpeed(p, v) \/ SetDuplex(p, b) \/ SetPortPrio(p, v)
        PROVE  InUseIsAggregatable'
    BY <2>3, AttrUse DEF SetSpeed, SetDuplex
  <2>4. ASSUME NEW S, StartDisable(S) PROVE InUseIsAggregatable'
    BY <2>4, IdleUse DEF StartDisable
  <2>5. ASSUME NEW s, SysSetCfg(s) PROVE InUseIsAggregatable'
    BY <2>5, SysUse
  <2>6. CASE \E p \in Port :
               \/ \E a \in Remote, v \in Views(p) :
                     RxLacpdu(p, [rcvd |-> TRUE, actor |-> a, partner |-> v])
               \/ \E up \in IpcLinks : LinkChange(p, up)
               \/ \E up \in CliLinks : SetLink(p, up)
               \/ \E v \in Speeds : SetSpeed(p, v)
               \/ \E v \in Duplexes : SetDuplex(p, v)
               \/ \E v \in PortPrios : SetPortPrio(p, v)
               \/ \E g \in Agg : Enable(p, g)
               \/ Disable(p)
               \/ ClearStat(p)
    BY <2>1, <2>2, <2>3, <2>4, <2>6, CommandAssumption, EnableUse, IdleUse
       DEF Disable, ClearStat
  <2>7. CASE \/ \E g \in Agg : DeleteAgg(g)
             \/ \E v \in SysPrios : SetSysPrio(v)
             \/ \E v \in Timeouts : SetPeriod(v)
             \/ \E v \in LongPeriods : SetLongPeriod(v)
             \/ \E v \in ShortPeriods : SetShortPeriod(v)
    BY <2>4, <2>5, <2>7
    DEF DeleteAgg, SetSysPrio, SetPeriod, SetLongPeriod, SetShortPeriod
  <2> QED BY <1>5, <2>6, <2>7 DEF Command
<1> QED BY <1>1, <1>2, <1>3, <1>4, <1>5 DEF Next

\* At every step, in the middle of an update too, a port in use has a partner that
\* can aggregate: update_agg_ports_select asks for the bit, and a change of partner
\* in lacp_rx.c that could take it away unselects the port in the same step.
THEOREM UseNeedsAggregation == Spec => []InUseIsAggregatable
<1>1. Init => UseInv
  <2> SUFFICES ASSUME Init PROVE InUseIsAggregatable
    BY InitType DEF UseInv
  <2>1. \A p \in Port : port[p].selected = FALSE BY DEF Init, ZeroPort
  <2> QED BY <2>1 DEF InUseIsAggregatable, InUse
<1>2. Spec => []UseInv BY <1>1, UseStep, PTL DEF Spec
<1>3. UseInv => InUseIsAggregatable BY DEF UseInv
<1> QED BY <1>2, <1>3, PTL

-----------------------------------------------------------------------------
(* What the ports that carry traffic lead to *)

\* What the state of the receive machine says of the partner on record, and when a
\* port may be marked as moved.
RxSays(t) ==
    /\ t.rx \in {"PORT_DISABLED", "EXPIRED"} => ~Bit(t.partner, "SYN")
    /\ t.rx = "DEFAULTED" => ~Bit(t.partner, "AGG")
    /\ t.port_moved => t.rx = "PORT_DISABLED"

\* The states of the mux machine in which the chip may pass traffic.
ChipSays(a, t) == a.cd => t.mux \in {"BEGIN", "DISABLE", "RX_TX"}

\* No check of the receive machine fires, and none of the mux machine that does not
\* look at the other ports of the group.
Settled(t) ==
    /\ \A s \in RxState : ~RxGoes(t, s)
    /\ \A s \in MuxState : ~MuxGoes(t, FALSE, s)

PortsOK ==
    /\ IsInjective(ports)
    /\ \A p \in Listed : RxSays(port[p]) /\ ChipSays(attr[p], port[p])

\* Only a port on its way in or out of its group is in the list without LACP.
Coming(p) == "enable_cfg" \in {pc, ret} /\ p = args.port
Leaving(p) ==
    /\ {"disable_loop", "disable_port", "remove"} \cap {pc, ret} # {}
    /\ p \in args.batch

MembersOK ==
    /\ args.todo \subseteq args.batch
    /\ "disable_port" \in {pc, ret} => args.port \in args.batch
    /\ \A p \in Listed : port[p].lacp_enabled \/ Coming(p) \/ Leaving(p)

\* The places at which the thread stands after an update, or after steps that no
\* machine reacts to.
SettledOK ==
    pc \in {"idle", "enable_link", "remove"} => \A p \in Listed : Settled(port[p])

LiveParts == PortsOK /\ MembersOK /\ SettledOK

LiveInv == UseInv /\ LiveParts

-----------------------------------------------------------------------------
\* The argument in one place: a settled port of the protocol that carries traffic
\* hears a partner that is in sync, on a link that is up.
LEMMA SettledIsLive ==
  ASSUME NEW t \in PortRecord, NEW a,
         RxSays(t), ChipSays(a, t), Settled(t), Usable(t), t.lacp_enabled, a.cd
  PROVE  /\ t.port_enabled
         /\ t.rx = "CURRENT"
         /\ Bit(t.partner, "SYN")
         /\ InUse(t)
<1>1. /\ \A s \in RxState : ~RxGoes(t, s)
      /\ \A s \in MuxState : ~MuxGoes(t, FALSE, s)
  BY DEF Settled
<1>2. t.mux = "RX_TX" /\ InUse(t) /\ Bit(t.partner, "SYN")
  <2>1. ~MuxGoes(t, FALSE, "DETACHED") /\ ~MuxGoes(t, FALSE, "ATTACHED")
    BY <1>1 DEF MuxState
  <2> QED BY <2>1 DEF MuxGoes, ChipSays
<1>3. /\ ~RxGoes(t, "INITIALIZE") /\ ~RxGoes(t, "PORT_DISABLED")
      /\ ~RxGoes(t, "EXPIRED")
  BY <1>1 DEF RxState
<1>4. ~LinkLost(t) \/ t.rx = "PORT_DISABLED" BY <1>3 DEF RxGoes
<1>5. t.rx \notin {"PORT_DISABLED", "EXPIRED", "DEFAULTED"}
  BY <1>2 DEF RxSays, Usable
<1>6. ~LinkLost(t) /\ ~t.port_moved BY <1>4, <1>5 DEF RxSays
<1>7. t.rx \notin {"BEGIN", "INITIALIZE"} BY <1>3, <1>6 DEF RxGoes
<1>8. t.port_enabled BY <1>6, <1>7 DEF LinkLost
<1>9. t.rx # "LACP_DISABLED" BY <1>3, <1>6, <1>8 DEF RxGoes
<1>10. t.rx \in RxState BY DEF PortRecord
<1> QED BY <1>2, <1>5, <1>7, <1>8, <1>9, <1>10 DEF RxState

\* Between calls the invariant gives the property.
LEMMA LiveIsTraffic == LiveInv => TrafficNeedsLivePartner
<1> SUFFICES ASSUME LiveInv, Idle, NEW p \in Listed, attr[p].cd
             PROVE  /\ port[p].port_enabled
                    /\ port[p].rx = "CURRENT"
                    /\ Bit(port[p].partner, "SYN")
                    /\ InUse(port[p])
  BY DEF TrafficNeedsLivePartner
<1>1. TypeInv /\ pc = "idle" /\ ret = "idle"
  BY DEF LiveInv, UseInv, Idle, TypeInv, CallOK
<1>2. p \in Port /\ port[p] \in PortRecord BY <1>1, VarTypes
<1>3. port[p].lacp_enabled BY <1>1 DEF LiveInv, LiveParts, MembersOK, Coming, Leaving
<1>4. Settled(port[p]) BY <1>1 DEF LiveInv, LiveParts, SettledOK
<1>5. RxSays(port[p]) /\ ChipSays(attr[p], port[p]) BY DEF LiveInv, LiveParts, PortsOK
<1>6. Usable(port[p]) BY <1>2 DEF LiveInv, UseInv, InUseIsAggregatable, Usable
<1> QED BY <1>2, <1>3, <1>4, <1>5, <1>6, SettledIsLive

-----------------------------------------------------------------------------
(* The list *)

\* LACP_NEW_IN_LIST puts a port that is not in the list in front of it.
LEMMA PrependList ==
  ASSUME NEW q \in Seq(Port), IsInjective(q), NEW p \in Port, p \notin Range(q)
  PROVE  /\ IsInjective(<<p>> \o q)
         /\ Range(<<p>> \o q) = Range(q) \cup {p}
<1> DEFINE s == <<p>> \o q
<1>1. <<p>> \in Seq(Port) /\ Len(<<p>>) = 1 /\ <<p>>[1] = p OBVIOUS
<1>2. Len(q) \in Nat /\ DOMAIN q = 1 .. Len(q) BY LenProperties
<1>3. /\ s \in Seq(Port) /\ Len(s) = Len(q) + 1
      /\ \A i \in 1 .. Len(q) + 1 : s[i] = IF i <= 1 THEN p ELSE q[i - 1]
  BY <1>1, <1>2, ConcatProperties
<1>4. DOMAIN s = 1 .. Len(q) + 1 BY <1>3, LenProperties
<1> HIDE DEF s
<1>5. IsInjective(s)
  <2> SUFFICES ASSUME NEW i \in 1 .. Len(q) + 1, NEW j \in 1 .. Len(q) + 1, s[i] = s[j]
               PROVE  i = j
    BY <1>4 DEF IsInjective
  <2>1. \A k \in 1 .. Len(q) + 1 : k > 1 => k - 1 \in DOMAIN q /\ s[k] = q[k - 1]
    BY <1>2, <1>3
  <2>2. \A k \in 1 .. Len(q) + 1 : k > 1 => s[k] \in Range(q)
    BY <2>1 DEF Range
  <2>3. s[1] = p BY <1>2, <1>3
  <2>4. CASE i = 1 /\ j = 1 BY <2>4
  <2>5. CASE i > 1 /\ j = 1 BY <2>2, <2>3, <2>5
  <2>6. CASE i = 1 /\ j > 1 BY <2>2, <2>3, <2>6
  <2>7. CASE i > 1 /\ j > 1
    <3>1. i - 1 \in DOMAIN q /\ j - 1 \in DOMAIN q /\ q[i - 1] = q[j - 1]
      BY <2>1, <2>7
    <3>2. i - 1 = j - 1 BY <3>1 DEF IsInjective
    <3> QED BY <1>2, <3>2
  <2> QED BY <1>2, <2>4, <2>5, <2>6, <2>7
<1>6. Range(s) = Range(q) \cup {p}
  <2>1. \A i \in 1 .. Len(q) + 1 : s[i] \in Range(q) \cup {p}
    BY <1>2, <1>3 DEF Range
  <2>2. s[1] = p /\ 1 \in 1 .. Len(q) + 1 BY <1>2, <1>3
  <2>3. \A i \in DOMAIN q : i + 1 \in 1 .. Len(q) + 1 /\ s[i + 1] = q[i]
    BY <1>2, <1>3
  <2>4. Range(s) \subseteq Range(q) \cup {p} BY <1>4, <2>1 DEF Range
  <2>5. p \in Range(s) BY <1>4, <2>2 DEF Range
  <2>6. Range(q) \subseteq Range(s) BY <1>4, <2>3 DEF Range
  <2> QED BY <2>4, <2>5, <2>6
<1> QED BY <1>5, <1>6 DEF s

\* lacp_port_delete takes one port out of the list and keeps the others.
LEMMA RemoveList ==
  ASSUME NEW q \in Seq(Port), IsInjective(q), NEW i \in DOMAIN q
  PROVE  /\ IsInjective(RemoveAt(q, i))
         /\ Range(RemoveAt(q, i)) = Range(q) \ {q[i]}
<1> DEFINE n == Len(q)
           a == SubSeq(q, 1, i - 1)
           b == SubSeq(q, i + 1, n)
           s == RemoveAt(q, i)
<1>1. n \in Nat /\ DOMAIN q = 1 .. n /\ \A j \in 1 .. n : q[j] \in Port
  BY LenProperties, ElementOfSeq
<1>2. i \in 1 .. n BY <1>1
<1> HIDE DEF n
<1>3. /\ a \in Seq(Port) /\ Len(a) = i - 1
      /\ \A j \in 1 .. i - 1 : a[j] = q[j]
  <2>1. \A j \in 1 .. i - 1 : q[j] \in Port BY <1>1, <1>2
  <2>2. 1 \in Int /\ i - 1 \in Int BY <1>1, <1>2
  <2> QED BY <1>1, <1>2, <2>1, <2>2, SubSeqProperties
<1>4. /\ b \in Seq(Port) /\ Len(b) = n - i
      /\ \A j \in 1 .. n - i : b[j] = q[i + j]
  <2>1. \A j \in i + 1 .. n : q[j] \in Port BY <1>1, <1>2
  <2>2. i + 1 \in Int /\ n \in Int BY <1>1, <1>2
  <2>3. /\ b \in Seq(Port)
        /\ Len(b) = IF i + 1 <= n THEN n - (i + 1) + 1 ELSE 0
        /\ \A j \in 1 .. n - (i + 1) + 1 : b[j] = q[i + 1 + j - 1]
    BY <2>1, <2>2, SubSeqProperties
  <2> HIDE DEF b
  <2>4. n \in Int /\ i \in Int /\ i <= n BY <1>1, <1>2
  <2>5. Len(b) = n - i BY <2>3, <2>4
  <2>6. ASSUME NEW j \in 1 .. n - i PROVE b[j] = q[i + j]
    <3>1. j \in 1 .. n - (i + 1) + 1 /\ i + 1 + j - 1 = i + j BY <2>4
    <3>2. b[j] = q[i + 1 + j - 1] BY <2>3, <3>1
    <3> QED BY <3>1, <3>2
  <2> QED BY <2>3, <2>5, <2>6
<1>5. s = a \o b BY DEF RemoveAt, n
<1> HIDE DEF a, b, s
<1>6. /\ s \in Seq(Port) /\ Len(s) = n - 1
      /\ \A j \in 1 .. n - 1 : s[j] = IF j < i THEN q[j] ELSE q[j + 1]
  <2>1. /\ s \in Seq(Port) /\ Len(s) = Len(a) + Len(b)
        /\ \A j \in 1 .. Len(a) + Len(b) : s[j] = IF j <= Len(a) THEN a[j] ELSE b[j - Len(a)]
    BY <1>3, <1>4, <1>5, ConcatProperties
  <2>2. n \in Int /\ i \in Int /\ 1 <= i /\ i <= n BY <1>1, <1>2
  <2>3. Len(s) = n - 1 BY <1>3, <1>4, <2>1, <2>2
  <2>4. ASSUME NEW j \in 1 .. n - 1, j < i PROVE s[j] = q[j]
    <3>1. j \in 1 .. i - 1 BY <2>2, <2>4
    <3>2. j \in 1 .. Len(a) + Len(b) /\ j <= Len(a) BY <1>3, <1>4, <2>2, <2>4
    <3> QED BY <1>3, <2>1, <3>1, <3>2
  <2>5. ASSUME NEW j \in 1 .. n - 1, ~(j < i) PROVE s[j] = q[j + 1]
    <3> DEFINE k == j - Len(a)
    <3>1. /\ j \in 1 .. Len(a) + Len(b) /\ ~(j <= Len(a))
          /\ k \in 1 .. n - i /\ i + k = j + 1
      BY <1>3, <1>4, <2>2, <2>5, SMTT(30)
    <3>2. s[j] = b[k] BY <2>1, <3>1
    <3> HIDE DEF k
    <3>3. b[k] = q[i + k] BY <1>4, <3>1
    <3> QED BY <3>1, <3>2, <3>3
  <2> QED BY <2>1, <2>3, <2>4, <2>5
<1>7. DOMAIN s = 1 .. n - 1 BY <1>6, LenProperties
<1> DEFINE h(j) == IF j < i THEN j ELSE j + 1
<1>8. \A j \in DOMAIN s : h(j) \in DOMAIN q /\ h(j) # i /\ s[j] = q[h(j)]
  BY <1>1, <1>2, <1>6, <1>7
<1>9. \A j, k \in DOMAIN s : h(j) = h(k) => j = k BY <1>1, <1>2, <1>7
<1> HIDE DEF h
<1>10. IsInjective(s)
  <2> SUFFICES ASSUME NEW j \in DOMAIN s, NEW k \in DOMAIN s, s[j] = s[k]
               PROVE  j = k
    BY DEF IsInjective
  <2>1. h(j) \in DOMAIN q /\ h(k) \in DOMAIN q /\ q[h(j)] = q[h(k)] BY <1>8
  <2>2. h(j) = h(k) BY <2>1 DEF IsInjective
  <2> QED BY <1>9, <2>2
<1>11. \A j \in DOMAIN s : s[j] \in Range(q) /\ s[j] # q[i]
  BY <1>8 DEF IsInjective, Range
<1>12. Range(s) \subseteq Range(q) \ {q[i]} BY <1>11 DEF Range
<1>13. ASSUME NEW j \in DOMAIN q, j # i PROVE q[j] \in Range(s)
  <2>1. CASE j < i
    <3>1. j \in DOMAIN s /\ s[j] = q[j] BY <1>1, <1>2, <1>6, <1>7, <2>1
    <3> QED BY <3>1 DEF Range
  <2>2. CASE j > i
    <3>1. j - 1 \in DOMAIN s /\ ~(j - 1 < i) /\ j - 1 + 1 = j
      BY <1>1, <1>2, <1>7, <2>2
    <3>2. s[j - 1] = q[j] BY <1>6, <1>7, <3>1
    <3> QED BY <3>1, <3>2 DEF Range
  <2> QED BY <1>1, <1>2, <1>13, <2>1, <2>2
<1>14. Range(q) \ {q[i]} \subseteq Range(s) BY <1>13 DEF Range
<1> QED BY <1>10, <1>12, <1>14 DEF s

-----------------------------------------------------------------------------
(* Steps that change nothing of a port that the argument reads *)

\* u has the receive and mux states and the partner of t, and is marked as moved only
\* if t is, or may be.
SameMachines(t, u) ==
    /\ u.rx = t.rx /\ u.mux = t.mux /\ u.partner = t.partner
    /\ u.port_moved => t.port_moved \/ t.rx = "PORT_DISABLED"

KeepsLive(t, u) == SameMachines(t, u) /\ (t.lacp_enabled => u.lacp_enabled)

\* Keeping and keeping again is keeping, and it keeps what the states say.
LEMMA KeepsLiveLaws ==
  /\ \A t : KeepsLive(t, t)
  /\ \A t, u, v : KeepsLive(t, u) /\ KeepsLive(u, v) => KeepsLive(t, v)
  /\ \A t, u : SameMachines(t, u) /\ RxSays(t) => RxSays(u)
  /\ \A a, t, u : SameMachines(t, u) /\ ChipSays(a, t) => ChipSays(a, u)
BY DEF KeepsLive, SameMachines, RxSays, ChipSays, Bit

\* Unselecting a group.
LEMMA ReselectLive ==
  ASSUME NEW f \in [Port -> PortRecord], NEW g, NEW p \in Port
  PROVE  KeepsLive(f[p], Reselect(f, g)[p])
<1>1. Reselect(f, g)[p] \in {f[p], [f[p] EXCEPT !.selected = FALSE]}
  BY DEF Reselect
<1>2. KeepsLive(f[p], [f[p] EXCEPT !.selected = FALSE])
  BY DEF KeepsLive, SameMachines, PortRecord
<1>3. KeepsLive(f[p], f[p]) BY KeepsLiveLaws
<1> QED BY <1>1, <1>2, <1>3

\* Storing a priority.
LEMMA WithPrioLive ==
  ASSUME NEW f \in [Port -> PortRecord], NEW p \in Port, NEW v, NEW q \in Port
  PROVE  KeepsLive(f[q], WithPrio(f, p, v)[q])
<1>1. f[q] \in PortRecord OBVIOUS
<1>2. CASE q = p BY <1>1, <1>2 DEF WithPrio, KeepsLive, SameMachines, PortRecord
<1>3. CASE q # p
  <2>1. WithPrio(f, p, v)[q] = f[q] BY <1>3 DEF WithPrio
  <2> QED BY <2>1, KeepsLiveLaws
<1> QED BY <1>2, <1>3

\* Storing a record that keeps the old one.
LEMMA PutLive ==
  ASSUME NEW f \in [Port -> PortRecord], NEW p, NEW t, p \in Port => KeepsLive(f[p], t)
  PROVE  \A q \in Port : KeepsLive(f[q], [f EXCEPT ![p] = t][q])
BY KeepsLiveLaws

\* A change of the link, with the group unselected.
LEMMA LinkChangedLive ==
  ASSUME TypeInv, NEW p \in Port, NEW up \in BOOLEAN
  PROVE  \A q \in Port : KeepsLive(port[q], LinkChanged(p, up)[q])
<1> DEFINE t == WithLink(port[p], attr[p], up)
           f == [port EXCEPT ![p] = t]
<1>1. port \in [Port -> PortRecord] BY VarTypes
<1>2. t \in PortRecord BY VarTypes, WithLinkType
<1>3. KeepsLive(port[p], t) BY <1>1 DEF WithLink, KeepsLive, SameMachines, PortRecord
<1>4. LinkChanged(p, up) = Reselect(f, port[p].agg_id) BY <1>1 DEF LinkChanged
<1> HIDE DEF t
<1>5. f \in [Port -> PortRecord] BY <1>1, <1>2, PutType
<1>6. \A q \in Port : KeepsLive(port[q], f[q]) BY <1>1, <1>3, PutLive
<1> HIDE DEF f
<1>7. \A q \in Port : KeepsLive(f[q], LinkChanged(p, up)[q]) BY <1>4, <1>5, ReselectLive
<1> QED BY <1>6, <1>7, KeepsLiveLaws

\* The update of a group changes keys, selected, standby and masters only.
LEMMA UpdateAggLive ==
  ASSUME NEW f \in [Port -> PortRecord], NEW S \in SUBSET Port,
         NEW key \in [Port -> Word], NEW p \in Port
  PROVE  KeepsLive(f[p], UpdateAggPortsSelect(f, S, key)[p])
<1> DEFINE h == RefreshKeys(f, S, key)
           C == Candidates(h, S)
           m == Master(h, C)
           u == MarkGroup(h, S)[p]
           k == key[p]
           b == IF C = {} THEN TRUE ELSE ~Joins(h, S, h[p], h[m])
<1>1. DOMAIN h = Port BY DEF RefreshKeys
<1>2. h[p] \in {[f[p] EXCEPT !.actor.key = k], f[p]} BY DEF RefreshKeys
<1>3. f[p] \in PortRecord OBVIOUS
<1>4. \/ \E q : u = [h[p] EXCEPT !.selected = TRUE, !.standby = b, !.master_port = q]
      \/ u = h[p]
  BY <1>1 DEF MarkGroup
<1> HIDE DEF h, b, u, k
<1>5. /\ KeepsLive(f[p], h[p])
      /\ {"rx", "mux", "partner", "port_moved", "lacp_enabled"} \subseteq DOMAIN h[p]
  <2>1. CASE h[p] = f[p] BY <1>3, <2>1, KeepsLiveLaws DEF PortRecord
  <2>2. CASE h[p] = [f[p] EXCEPT !.actor.key = k]
    BY <1>3, <2>2 DEF KeepsLive, SameMachines, PortRecord
  <2> QED BY <1>2, <2>1, <2>2
<1>6. KeepsLive(h[p], u)
  <2>1. ASSUME NEW q, u = [h[p] EXCEPT !.selected = TRUE, !.standby = b, !.master_port = q]
        PROVE  KeepsLive(h[p], u)
    BY <1>5, <2>1 DEF KeepsLive, SameMachines
  <2> QED BY <1>4, <2>1, KeepsLiveLaws
<1> QED BY <1>5, <1>6, KeepsLiveLaws DEF UpdateAggPortsSelect, h, u

\* The ports of the list after a step that keeps the list, the machines and the chip.
LEMMA PortsStep ==
  ASSUME TypeInv, PortsOK, ports' = ports,
         \A p \in Port : SameMachines(port[p], port'[p]),
         \A p \in Port : attr'[p].cd = attr[p].cd
  PROVE  PortsOK'
<1>1. Listed' = Listed /\ Listed \subseteq Port BY VarTypes DEF Listed
<1>2. ASSUME NEW p \in Listed PROVE RxSays(port'[p]) /\ ChipSays(attr'[p], port'[p])
  <2>1. RxSays(port[p]) /\ ChipSays(attr[p], port[p]) BY DEF PortsOK
  <2>2. SameMachines(port[p], port'[p]) /\ attr'[p].cd = attr[p].cd BY <1>1
  <2>3. RxSays(port'[p]) BY <2>1, <2>2, KeepsLiveLaws
  <2>4. ChipSays(attr[p], port'[p]) BY <2>1, <2>2, KeepsLiveLaws
  <2> QED BY <2>2, <2>3, <2>4 DEF ChipSays
<1> QED BY <1>1, <1>2 DEF PortsOK

\* A call that changes nothing the argument reads and enters the update.
LEMMA CallUpdateLive ==
  ASSUME LiveInv, pc = "idle", CallUpdate,
         \A p \in Port : KeepsLive(port[p], port'[p]),
         \A p \in Port : attr'[p].cd = attr[p].cd
  PROVE  LiveParts'
<1>1. TypeInv /\ PortsOK /\ MembersOK BY DEF LiveInv, UseInv, LiveParts
<1>2. /\ pc' = "update" /\ ret' = "idle" /\ ports' = ports /\ args' = args
      /\ ret = "idle"
  BY <1>1 DEF CallUpdate, StartUpdate, TypeInv, CallOK
<1>3. Listed' = Listed /\ Listed \subseteq Port BY <1>1, <1>2, VarTypes DEF Listed
<1>4. PortsOK' BY <1>1, <1>2, PortsStep DEF KeepsLive
<1>5. \A p \in Listed : port[p].lacp_enabled
  BY <1>1, <1>2 DEF MembersOK, Coming, Leaving
<1>6. \A p \in Listed' : port'[p].lacp_enabled BY <1>3, <1>5 DEF KeepsLive
<1>7. MembersOK' BY <1>1, <1>2, <1>6 DEF MembersOK
<1>8. SettledOK' BY <1>2 DEF SettledOK
<1> QED BY <1>4, <1>7, <1>8 DEF LiveParts

\* A call that ends at once.
LEMMA NoCallLive ==
  ASSUME LiveInv, UNCHANGED <<ports, port, pc, ret, args>>,
         \A p \in Port : attr'[p].cd = attr[p].cd
  PROVE  LiveParts'
<1>1. TypeInv /\ PortsOK /\ MembersOK /\ SettledOK BY DEF LiveInv, UseInv, LiveParts
<1>2. \A p \in Port : SameMachines(port[p], port'[p])
  BY KeepsLiveLaws DEF KeepsLive
<1>3. PortsOK' BY <1>1, <1>2, PortsStep
<1>4. Listed' = Listed BY DEF Listed
<1>5. MembersOK' BY <1>1, <1>4 DEF MembersOK, Coming, Leaving
<1>6. SettledOK' BY <1>1, <1>4 DEF SettledOK
<1> QED BY <1>3, <1>5, <1>6 DEF LiveParts

-----------------------------------------------------------------------------
(* The steps of lacp_sys_update *)

\* An entry of the receive machine leaves what its state says.
LEMMA RxEnterSays ==
  ASSUME NEW p \in Port, NEW t \in PortRecord, RxSays(t),
         NEW s \in RxState, RxGoes(t, s)
  PROVE  /\ RxSays(RxEnter(p, t, s))
         /\ RxEnter(p, t, s).mux = t.mux
         /\ RxEnter(p, t, s).lacp_enabled = t.lacp_enabled
<1> DEFINE u == RxEnter(p, t, s)
<1>1. s # "BEGIN" BY DEF RxGoes
<1>2. t.partner \in Info BY DEF PortRecord
<1>3. s \notin {"INITIALIZE", "PORT_DISABLED"} => ~t.port_moved
  BY DEF RxGoes, RxSays
<1>4. u.mux = t.mux /\ u.lacp_enabled = t.lacp_enabled /\ u.rx = s
  BY <1>1 DEF RxEnter, RxState, EnterInitialize, EnterPortDisabled, EnterLacpDisabled,
              EnterExpired, EnterDefaulted, EnterCurrent, PortRecord
<1>5. CASE s = "INITIALIZE"
  <2>1. u.port_moved = FALSE BY <1>5 DEF RxEnter, EnterInitialize, PortRecord
  <2> HIDE DEF u
  <2>2. RxSays(u) BY <1>4, <1>5, <2>1 DEF RxSays
  <2> QED BY <1>4, <2>2 DEF u
<1>6. CASE s = "PORT_DISABLED"
  <2>1. u.partner = SetBit(t.partner, "SYN", FALSE)
    BY <1>6 DEF RxEnter, EnterPortDisabled, PortRecord
  <2>2. ~Bit(SetBit(t.partner, "SYN", FALSE), "SYN")
    BY <1>2, SetBitBit DEF StateBit
  <2> HIDE DEF u
  <2>3. RxSays(u) BY <1>4, <1>6, <2>1, <2>2 DEF RxSays
  <2> QED BY <1>4, <2>3 DEF u
<1>7. s \notin {"INITIALIZE", "PORT_DISABLED"} => ~u.port_moved
  <2>1. s \notin {"INITIALIZE"} => u.port_moved = t.port_moved
    BY <1>1 DEF RxEnter, RxState, EnterPortDisabled, EnterLacpDisabled,
                EnterExpired, EnterDefaulted, EnterCurrent, PortRecord
  <2> QED BY <1>3, <2>1
<1>8. CASE s = "EXPIRED"
  <2> DEFINE syn == SetBit(t.partner, "SYN", FALSE)
             new == SetBit(syn, "TMT", TRUE)
  <2>1. u.partner = new BY <1>8 DEF RxEnter, EnterExpired, PortRecord
  <2>2. syn \in Info /\ ~Bit(syn, "SYN")
    BY <1>2, SetBitType, SetBitBit DEF StateBit
  <2>3. ~Bit(new, "SYN")
    <3> HIDE DEF syn
    <3> QED BY <2>2, SetBitBit DEF StateBit
  <2> HIDE DEF new, u
  <2>4. RxSays(u) BY <1>4, <1>7, <1>8, <2>1, <2>3 DEF RxSays
  <2> QED BY <1>4, <2>4 DEF u
<1>9. CASE s = "DEFAULTED"
  <2>1. u.partner = PartnerAdmin(p) BY <1>9 DEF RxEnter, EnterDefaulted, PortRecord
  <2>2. ~Bit(u.partner, "AGG") BY <2>1, PartnerAdminType
  <2> HIDE DEF u
  <2>3. RxSays(u) BY <1>4, <1>7, <1>9, <2>2 DEF RxSays
  <2> QED BY <1>4, <2>3 DEF u
<1>10. CASE s \in {"LACP_DISABLED", "CURRENT"}
  <2> HIDE DEF u
  <2>1. RxSays(u) BY <1>4, <1>7, <1>10 DEF RxSays
  <2> QED BY <1>4, <2>1 DEF u
<1> QED BY <1>1, <1>5, <1>6, <1>8, <1>9, <1>10 DEF RxState

\* The call in progress is where it was, and no port has left the protocol.
LEMMA RunLive ==
  ASSUME LiveInv, pc = "update", UNCHANGED <<ports, pc, ret, args>>,
         \A p \in Port : port[p].lacp_enabled => port'[p].lacp_enabled
  PROVE  MembersOK' /\ SettledOK'
<1>1. MembersOK BY DEF LiveInv, LiveParts
<1>2. Listed' = Listed /\ Listed \subseteq Port
  BY VarTypes DEF Listed, LiveInv, UseInv
<1>3. MembersOK' BY <1>1, <1>2 DEF MembersOK, Coming, Leaving
<1> QED BY <1>3 DEF SettledOK

\* A receive step.
LEMMA RunRxLive ==
  ASSUME LiveInv, NEW p \in Port, RunRx(p)
  PROVE  LiveParts'
<1>1. PICK s \in RxState :
        /\ RxGoes(port[p], s)
        /\ LET f == [port EXCEPT ![p] = RxEnter(p, port[p], s)]
           IN  port' = IF s = "CURRENT" /\ NewPartner(port[p])
                       THEN Reselect(f, port[p].agg_id) ELSE f
  BY DEF RunRx
<1> DEFINE t == RxEnter(p, port[p], s)
           f == [port EXCEPT ![p] = t]
<1>2. /\ TypeInv /\ PortsOK /\ port \in [Port -> PortRecord]
      /\ Listed \subseteq Port
  BY VarTypes DEF LiveInv, UseInv, LiveParts
<1>3. pc = "update" /\ UNCHANGED <<ports, pc, ret, args, attr>>
  BY DEF RunRx, Turn
<1>4. t \in PortRecord
  <2>1. s # "BEGIN" BY <1>1 DEF RxGoes
  <2> QED BY <1>2, <2>1, RxEnterType
<1>5. port' = Reselect(f, port[p].agg_id) \/ port' = f BY <1>1
<1>6. p \in Listed => RxSays(t) BY <1>1, <1>2, RxEnterSays DEF PortsOK
<1>7. t.mux = port[p].mux /\ t.lacp_enabled = port[p].lacp_enabled
  <2>1. s # "BEGIN" BY <1>1 DEF RxGoes
  <2> QED
    BY <1>2, <2>1 DEF RxEnter, RxState, EnterInitialize, EnterPortDisabled,
       EnterLacpDisabled, EnterExpired, EnterDefaulted, EnterCurrent, PortRecord
<1> HIDE DEF t
<1>8. f \in [Port -> PortRecord] BY <1>2, <1>4, PutType
<1>9. \A q \in Port : f[q] = IF q = p THEN t ELSE port[q] BY <1>2
<1> HIDE DEF f
<1>10. \A q \in Port : KeepsLive(f[q], port'[q])
  BY <1>5, <1>8, ReselectLive, KeepsLiveLaws
<1>11. ASSUME NEW q \in Listed PROVE RxSays(port'[q]) /\ ChipSays(attr[q], port'[q])
  <2>1. RxSays(port[q]) /\ ChipSays(attr[q], port[q]) BY <1>2 DEF PortsOK
  <2>2. RxSays(f[q]) BY <1>2, <1>6, <1>9, <2>1
  <2>3. ChipSays(attr[q], f[q]) BY <1>2, <1>7, <1>9, <2>1 DEF ChipSays
  <2>4. SameMachines(f[q], port'[q]) BY <1>2, <1>10 DEF KeepsLive
  <2> QED BY <2>2, <2>3, <2>4, KeepsLiveLaws
<1>12. Listed' = Listed BY <1>3 DEF Listed
<1>13. PortsOK' BY <1>2, <1>3, <1>11, <1>12 DEF PortsOK
<1>14. \A q \in Port : port[q].lacp_enabled => port'[q].lacp_enabled
  BY <1>7, <1>9, <1>10 DEF KeepsLive
<1> QED BY <1>3, <1>13, <1>14, RunLive DEF LiveParts

\* A selection step.
LEMMA RunSelLive ==
  ASSUME LiveInv, NEW p \in Port, RunSel(p)
  PROVE  LiveParts'
<1> DEFINE key == [q \in Port |-> OperKey(PortTid(q), attr[q].speed, attr[q].duplex)]
           f == [port EXCEPT ![p].sel = "SELECTION"]
           alone == [f EXCEPT ![p].selected = TRUE, ![p].standby = TRUE]
           S == Members(port[p].agg_id)
<1>1. TypeInv /\ PortsOK /\ port \in [Port -> PortRecord]
  BY VarTypes DEF LiveInv, UseInv, LiveParts
<1>2. f \in [Port -> PortRecord] BY <1>1 DEF PortRecord, SelState
<1>3. \A q \in Port : KeepsLive(port[q], f[q])
  BY <1>1 DEF KeepsLive, SameMachines, PortRecord
<1>4. \A q \in Port : KeepsLive(f[q], alone[q])
  <2> HIDE DEF f
  <2> DEFINE t == [f[p] EXCEPT !.selected = TRUE, !.standby = TRUE]
  <2>1. alone = [f EXCEPT ![p] = t] BY <1>2
  <2>2. f[p] \in PortRecord BY <1>2
  <2>3. KeepsLive(f[p], t) BY <2>2 DEF KeepsLive, SameMachines, PortRecord
  <2> HIDE DEF t, alone
  <2> QED BY <1>2, <2>1, <2>3, PutLive
<1>5. key \in [Port -> Word] BY PortTidType, OperKeyType
<1>6. S \subseteq Port BY <1>1, VarTypes DEF Members
<1>7. port' \in {alone, f, UpdateAggPortsSelect(f, S, key)} BY DEF RunSel
<1>8. pc = "update" /\ UNCHANGED <<ports, pc, ret, args, attr>>
  BY DEF RunSel, Turn
<1> HIDE DEF f, alone, key, S
<1>9. \A q \in Port : KeepsLive(f[q], UpdateAggPortsSelect(f, S, key)[q])
  BY <1>2, <1>5, <1>6, UpdateAggLive
<1>10. \A q \in Port : KeepsLive(f[q], port'[q])
  BY <1>4, <1>7, <1>9, KeepsLiveLaws
<1>11. \A q \in Port : KeepsLive(port[q], port'[q]) BY <1>3, <1>10, KeepsLiveLaws
<1>12. PortsOK' BY <1>1, <1>8, <1>11, PortsStep DEF KeepsLive
<1> QED BY <1>8, <1>11, <1>12, RunLive DEF KeepsLive, LiveParts

\* An entry of the mux machine and what it does to the chip.
LEMMA MuxEnterSays ==
  ASSUME NEW t \in PortRecord, NEW a \in Attr, NEW g, NEW ready, NEW s \in MuxState,
         ChipSays(a, t), MuxGoes(t, ready, s)
  PROVE  /\ ChipSays(MuxChip(a, g, s), MuxEnter(t, s))
         /\ MuxEnter(t, s).rx = t.rx /\ MuxEnter(t, s).partner = t.partner
         /\ MuxEnter(t, s).port_moved = t.port_moved
         /\ MuxEnter(t, s).lacp_enabled = t.lacp_enabled
<1> DEFINE u == MuxEnter(t, s)
<1>1. s # "BEGIN" BY DEF MuxGoes
<1>2. /\ u.mux = s /\ u.rx = t.rx /\ u.partner = t.partner
      /\ u.port_moved = t.port_moved /\ u.lacp_enabled = t.lacp_enabled
  BY <1>1 DEF MuxEnter, EnterWaiting, MuxState, PortRecord
<1>3. MuxChip(a, g, s).cd => s \in {"DISABLE", "RX_TX"} \/ a.cd
  BY DEF MuxChip, Attr
<1>4. s \in {"DETACHED", "ATTACHED"} => MuxChip(a, g, s).cd = FALSE
  BY DEF MuxChip, Attr
<1>5. s \in {"WAITING", "READY_N"} => ~a.cd
  BY DEF MuxGoes, ChipSays
<1>6. ChipSays(MuxChip(a, g, s), u)
  <2> HIDE DEF u
  <2>1. MuxChip(a, g, s).cd => s \in {"DISABLE", "RX_TX"}
    BY <1>1, <1>3, <1>4, <1>5 DEF MuxState
  <2> QED BY <1>2, <2>1 DEF ChipSays
<1> QED BY <1>2, <1>6

\* A mux step.
LEMMA RunMuxLive ==
  ASSUME LiveInv, NEW p \in Port, RunMux(p)
  PROVE  LiveParts'
<1>1. PICK s \in MuxState :
        /\ MuxGoes(port[p], SysIsReady(p), s)
        /\ port' = [port EXCEPT ![p] = MuxEnter(port[p], s)]
        /\ attr' = [attr EXCEPT ![p] = MuxChip(attr[p], port[p].agg_id, s)]
  BY DEF RunMux
<1> DEFINE t == MuxEnter(port[p], s)
           a == MuxChip(attr[p], port[p].agg_id, s)
<1>2. /\ TypeInv /\ PortsOK /\ port \in [Port -> PortRecord] /\ attr \in [Port -> Attr]
      /\ Listed \subseteq Port
  BY VarTypes DEF LiveInv, UseInv, LiveParts
<1>3. pc = "update" /\ UNCHANGED <<ports, pc, ret, args>>
  BY DEF RunMux, Turn
<1>4. p \in Listed =>
        /\ ChipSays(a, t) /\ t.rx = port[p].rx /\ t.partner = port[p].partner
        /\ t.port_moved = port[p].port_moved
  BY <1>1, <1>2, MuxEnterSays DEF PortsOK
<1>5. t.lacp_enabled = port[p].lacp_enabled
  <2>1. s # "BEGIN" BY <1>1 DEF MuxGoes
  <2> QED BY <1>2, <2>1 DEF MuxEnter, EnterWaiting, MuxState, PortRecord
<1> HIDE DEF t, a
<1>6. \A q \in Port : /\ port'[q] = IF q = p THEN t ELSE port[q]
                      /\ attr'[q] = IF q = p THEN a ELSE attr[q]
  BY <1>1, <1>2 DEF t, a
<1>7. ASSUME NEW q \in Listed PROVE RxSays(port'[q]) /\ ChipSays(attr'[q], port'[q])
  <2>1. RxSays(port[q]) /\ ChipSays(attr[q], port[q]) BY <1>2 DEF PortsOK
  <2>2. q = p => RxSays(t) BY <1>4, <2>1 DEF RxSays
  <2> QED BY <1>2, <1>4, <1>6, <2>1, <2>2
<1>8. Listed' = Listed BY <1>3 DEF Listed
<1>9. PortsOK' BY <1>2, <1>3, <1>7, <1>8 DEF PortsOK
<1>10. \A q \in Port : port[q].lacp_enabled => port'[q].lacp_enabled
  BY <1>5, <1>6
<1> QED BY <1>3, <1>9, <1>10, RunLive DEF LiveParts

\* A transmit step.
LEMMA RunTxLive ==
  ASSUME LiveInv, NEW p \in Port, RunTx(p)
  PROVE  LiveParts'
<1>1. PICK s \in TxState :
        /\ TxGoes(port[p], s)
        /\ port' = [port EXCEPT ![p] = TxEnter(port[p], sys.slow_periodic_time,
                                               sys.fast_periodic_time, s)]
  BY DEF RunTx
<1>2. s # "BEGIN" BY <1>1 DEF TxGoes
<1>3. /\ TypeInv /\ PortsOK /\ port \in [Port -> PortRecord]
      /\ pc = "update" /\ UNCHANGED <<ports, pc, ret, args, attr>>
  BY VarTypes DEF LiveInv, UseInv, LiveParts, RunTx, Turn
<1>4. ASSUME NEW t \in PortRecord, NEW slow, NEW fast
      PROVE  KeepsLive(t, TxEnter(t, slow, fast, s))
  BY <1>2, <1>4 DEF TxEnter, EnterPeriodic, TxState, KeepsLive, SameMachines, PortRecord
<1>5. KeepsLive(port[p], TxEnter(port[p], sys.slow_periodic_time,
                                 sys.fast_periodic_time, s))
  BY <1>3, <1>4
<1>6. \A q \in Port : KeepsLive(port[q], port'[q]) BY <1>1, <1>3, <1>5, PutLive
<1>7. PortsOK' BY <1>3, <1>6, PortsStep DEF KeepsLive
<1> QED BY <1>3, <1>6, <1>7, RunLive DEF KeepsLive, LiveParts

\* The update returns when no check fires.
LEMMA UpdateReturnsLive ==
  ASSUME LiveInv, UpdateReturns
  PROVE  LiveParts'
<1>1. /\ TypeInv /\ PortsOK /\ MembersOK
      /\ ret \in ApiPc \cup {"idle"}
  BY DEF LiveInv, UseInv, LiveParts, TypeInv, TypeOK
<1>2. /\ Quiet /\ pc = "update" /\ pc' = ret /\ ret' = "idle"
      /\ UNCHANGED <<ports, port, attr>>
      /\ args' = IF ret = "idle" THEN NoArgs ELSE args
  BY DEF UpdateReturns
<1>3. Listed' = Listed BY <1>2 DEF Listed
<1>4. PortsOK' BY <1>1, <1>2, <1>3 DEF PortsOK
<1>5. ASSUME NEW p \in Listed PROVE Settled(port[p])
  <2>1. ~CanHop(p, "rx") /\ ~CanHop(p, "mux") BY <1>2 DEF Quiet, MachineName
  <2>2. \A s \in RxState : ~RxGoes(port[p], s) BY <2>1 DEF CanHop
  <2>3. \A s \in MuxState : ~MuxGoes(port[p], SysIsReady(p), s) BY <2>1 DEF CanHop
  <2>4. \A s \in MuxState : ~MuxGoes(port[p], FALSE, s) BY <2>3 DEF MuxGoes
  <2> QED BY <2>2, <2>4 DEF Settled
<1>6. SettledOK' BY <1>2, <1>3, <1>5 DEF SettledOK
<1>7. MembersOK'
  <2>1. CASE ret = "idle"
    <3>1. \A p \in Listed : port[p].lacp_enabled
      BY <1>1, <1>2, <2>1 DEF MembersOK, Coming, Leaving
    <3>2. args'.todo = {} /\ args'.batch = {} BY <1>2, <2>1 DEF NoArgs
    <3> QED BY <1>2, <1>3, <2>1, <3>1, <3>2 DEF MembersOK
  <2>2. CASE ret # "idle"
    BY <1>1, <1>2, <1>3, <2>2 DEF MembersOK, Coming, Leaving
  <2> QED BY <2>1, <2>2
<1> QED BY <1>4, <1>6, <1>7 DEF LiveParts

-----------------------------------------------------------------------------
(* The calls *)

\* The passing of a second.
LEMMA OneSecondLive ==
  ASSUME LiveInv, OneSecond
  PROVE  LiveParts'
<1>1. port \in [Port -> PortRecord] BY VarTypes DEF LiveInv, UseInv
<1>2. ASSUME NEW t \in PortRecord PROVE KeepsLive(t, Ticked(t))
  BY <1>2 DEF Ticked, KeepsLive, SameMachines, PortRecord
<1>3. /\ port' = [p \in Port |-> IF p \in Listed THEN Ticked(port[p]) ELSE port[p]]
      /\ pc = "idle" /\ CallUpdate /\ attr' = attr
  BY DEF OneSecond
<1>4. \A p \in Port : KeepsLive(port[p], port'[p])
  BY <1>1, <1>2, <1>3, KeepsLiveLaws
<1> QED BY <1>3, <1>4, CallUpdateLive

\* A LACPDU is stored; a port marked as moved has its link down.
LEMMA RxLacpduLive ==
  ASSUME LiveInv, NEW p \in Port, NEW m, RxLacpdu(p, m)
  PROVE  LiveParts'
<1>1. port \in [Port -> PortRecord] BY VarTypes DEF LiveInv, UseInv
<1>2. ASSUME NEW t \in PortRecord PROVE KeepsLive(t, [t EXCEPT !.msg = m])
  BY <1>2 DEF KeepsLive, SameMachines, PortRecord
<1>3. ASSUME NEW t \in PortRecord, NEW b, b => t.rx = "PORT_DISABLED"
      PROVE  KeepsLive(t, [t EXCEPT !.port_moved = @ \/ b])
  BY <1>3 DEF KeepsLive, SameMachines, PortRecord
<1>4. \A q : Moved(p, m, q) => port[q].rx = "PORT_DISABLED" BY DEF Moved
<1>5. pc = "idle" /\ CallUpdate /\ attr' = attr BY DEF RxLacpdu
<1>6. \/ port' = port
      \/ port' = [q \in Port |->
                    IF q = p THEN [port[p] EXCEPT !.msg = m]
                    ELSE [port[q] EXCEPT !.port_moved = @ \/ Moved(p, m, q)]]
  BY DEF RxLacpdu
<1>7. \A q \in Port : KeepsLive(port[q], port'[q])
  BY <1>1, <1>2, <1>3, <1>4, <1>6, KeepsLiveLaws
<1> QED BY <1>5, <1>7, CallUpdateLive

\* The calls on links.
LEMMA LinkLive ==
  ASSUME LiveInv, NEW p \in Port, NEW up \in BOOLEAN, LinkChange(p, up) \/ SetLink(p, up)
  PROVE  LiveParts'
<1>1. TypeInv /\ attr \in [Port -> Attr] BY VarTypes DEF LiveInv, UseInv
<1>2. LinkIndication(p, up) /\ pc = "idle" BY DEF LinkChange, SetLink
<1>3. \A q \in Port : attr'[q].cd = attr[q].cd BY <1>1 DEF LinkChange, SetLink, Attr
<1>4. CASE port' = LinkChanged(p, up) /\ CallUpdate
  <2>1. \A q \in Port : KeepsLive(port[q], port'[q]) BY <1>1, <1>4, LinkChangedLive
  <2> QED BY <1>2, <1>3, <1>4, <2>1, CallUpdateLive
<1>5. CASE UNCHANGED <<ports, port, group, cur, pc, ret, args>>
  BY <1>3, <1>5, NoCallLive
<1> QED BY <1>2, <1>4, <1>5 DEF LinkIndication

\* The calls that set speed, duplex mode and priority of a port.
LEMMA AttrLive ==
  ASSUME LiveInv, NEW p \in Port, NEW v \in Nat, NEW b \in BOOLEAN,
         SetSpeed(p, v) \/ SetDuplex(p, b) \/ SetPortPrio(p, v)
  PROVE  LiveParts'
<1>1. port \in [Port -> PortRecord] /\ attr \in [Port -> Attr]
  BY VarTypes DEF LiveInv, UseInv
<1>2. \A q \in Port : attr'[q].cd = attr[q].cd
  BY <1>1 DEF SetSpeed, SetDuplex, SetAttr, SetPortPrio, Attr
<1>3. pc = "idle" BY DEF SetSpeed, SetDuplex, SetAttr, SetPortPrio
<1> DEFINE w == WithPrio(port, p, v)
<1>4. w \in [Port -> PortRecord] BY <1>1, WithPrioType
<1>5. \A q \in Port : KeepsLive(port[q], w[q]) BY <1>1, WithPrioLive
<1>6. \/ UNCHANGED <<ports, port, group, cur, pc, ret, args>>
      \/ CallUpdate /\ port' \in {port, Reselect(port, port[p].agg_id),
                                  Reselect(w, port[p].agg_id)}
  BY DEF SetSpeed, SetDuplex, SetAttr, SetPortPrio
<1> HIDE DEF w
<1>7. CASE UNCHANGED <<ports, port, group, cur, pc, ret, args>>
  BY <1>2, <1>7, NoCallLive
<1>8. CASE CallUpdate /\ port' \in {port, Reselect(port, port[p].agg_id),
                                    Reselect(w, port[p].agg_id)}
  <2>1. \A q \in Port : /\ KeepsLive(port[q], Reselect(port, port[p].agg_id)[q])
                        /\ KeepsLive(w[q], Reselect(w, port[p].agg_id)[q])
    BY <1>1, <1>4, ReselectLive
  <2>2. \A q \in Port : KeepsLive(port[q], port'[q])
    BY <1>5, <1>8, <2>1, KeepsLiveLaws
  <2> QED BY <1>2, <1>3, <1>8, <2>2, CallUpdateLive
<1> QED BY <1>6, <1>7, <1>8

\* The counters of a port are cleared.
LEMMA ClearStatLive ==
  ASSUME LiveInv, NEW p \in Port, ClearStat(p)
  PROVE  LiveParts'
BY KeepsLiveLaws, CallUpdateLive DEF ClearStat

\* The calls that set what the whole system uses.
LEMMA SysLive ==
  ASSUME LiveInv, NEW s, SysSetCfg(s)
  PROVE  LiveParts'
<1> DEFINE told(t) ==
      [t EXCEPT !.actor = SetBit([@ EXCEPT !.system_priority = s.priority],
                                 "TMT", s.lacp_timeout),
                !.ntt = TRUE]
<1>1. port \in [Port -> PortRecord] BY VarTypes DEF LiveInv, UseInv
<1>2. ASSUME NEW t \in PortRecord PROVE KeepsLive(t, told(t))
  BY <1>2 DEF KeepsLive, SameMachines, PortRecord
<1>3. /\ port' = [p \in Port |-> IF p \in Listed THEN told(port[p]) ELSE port[p]]
      /\ pc = "idle" /\ CallUpdate /\ attr' = attr
  BY DEF SysSetCfg
<1> HIDE DEF told
<1>4. \A p \in Port : KeepsLive(port[p], port'[p]) BY <1>1, <1>2, <1>3, KeepsLiveLaws
<1> QED BY <1>3, <1>4, CallUpdateLive

-----------------------------------------------------------------------------
(* trunk_port_lacp_enable *)

\* The port is created; until its configuration it is not of the protocol.
LEMMA EnableLive ==
  ASSUME LiveInv, NEW p \in Port, NEW g \in Agg, Enable(p, g)
  PROVE  LiveParts'
<1>1. /\ TypeInv /\ PortsOK /\ MembersOK /\ ports \in Seq(Port)
      /\ port \in [Port -> PortRecord] /\ Listed \subseteq Port
  BY VarTypes DEF LiveInv, UseInv, LiveParts
<1>2. /\ pc = "idle" /\ ret = "idle" /\ pc' = "update" /\ ret' = "enable_cfg"
      /\ args' = [NoArgs EXCEPT !.port = p, !.agg = g] /\ attr' = attr
  BY <1>1 DEF Enable, StartUpdate, TypeInv, CallOK
<1>3. args'.port = p /\ args'.todo = {} /\ args'.batch = {} BY <1>2 DEF NoArgs
<1>4. \A q \in Listed : port[q].lacp_enabled
  BY <1>1, <1>2 DEF MembersOK, Coming, Leaving
<1>5. PortsOK' /\ \A q \in Listed' : q = p \/ port'[q].lacp_enabled
  <2>1. CASE Creates(p)
    <3>1. PICK mac \in OwnMac : /\ ports' = <<p>> \o ports
                                /\ port' = [port EXCEPT ![p] = FreshPort(p, mac)]
      BY <2>1 DEF Enable
    <3>2. IsInjective(ports') /\ Listed' = Listed \cup {p}
      BY <1>1, <2>1, <3>1, PrependList DEF PortsOK, Creates, Listed
    <3> DEFINE t == FreshPort(p, mac)
    <3>3. t.rx = "BEGIN" /\ t.mux = "BEGIN" /\ ~t.port_moved
      BY DEF FreshPort, ZeroPort
    <3>4. RxSays(t) /\ ChipSays(attr[p], t)
      <4> HIDE DEF t
      <4> QED BY <3>3 DEF RxSays, ChipSays
    <3>5. \A q \in Port : port'[q] = IF q = p THEN t ELSE port[q] BY <1>1, <3>1
    <3> HIDE DEF t
    <3>6. ASSUME NEW q \in Listed'
          PROVE  /\ RxSays(port'[q]) /\ ChipSays(attr'[q], port'[q])
                 /\ q = p \/ port'[q].lacp_enabled
      <4>1. CASE q = p BY <1>2, <3>4, <3>5, <4>1
      <4>2. CASE q # p
        <5>1. q \in Listed BY <3>2, <4>2
        <5> QED BY <1>1, <1>2, <1>4, <3>5, <4>2, <5>1 DEF PortsOK
      <4> QED BY <4>1, <4>2
    <3> QED BY <3>2, <3>6 DEF PortsOK
  <2>2. CASE ~Creates(p)
    <3>1. ports' = ports /\ port' = port BY <2>2 DEF Enable
    <3>2. Listed' = Listed BY <3>1 DEF Listed
    <3> QED BY <1>1, <1>2, <1>4, <3>1, <3>2 DEF PortsOK
  <2> QED BY <2>1, <2>2
<1>6. MembersOK' BY <1>2, <1>3, <1>5 DEF MembersOK, Coming
<1>7. SettledOK' BY <1>2 DEF SettledOK
<1> QED BY <1>5, <1>6, <1>7 DEF LiveParts

\* The port is configured and becomes one of the protocol.
LEMMA EnableCfgLive ==
  ASSUME LiveInv, EnableCfg
  PROVE  LiveParts'
<1> DEFINE p == args.port
           g == args.agg
           prio == IF attr[p].prio = NoPrio THEN Default_port_priority ELSE attr[p].prio
           i == SetBit(port[p].actor_admin, "AGG", TRUE)
           a == SetBit(port[p].actor, "AGG", TRUE)
           f == [port EXCEPT ![p].actor_admin = SetBit(@, "AGG", TRUE),
                             ![p].actor = SetBit(@, "AGG", TRUE),
                             ![p].agg_id = g,
                             ![p].lacp_enabled = TRUE]
           t == [port[p] EXCEPT !.actor_admin = i, !.actor = a, !.agg_id = g,
                                !.lacp_enabled = TRUE]
           w == WithPrio(f, p, prio)
<1>1. /\ TypeInv /\ PortsOK /\ MembersOK /\ port \in [Port -> PortRecord]
      /\ Listed \subseteq Port
  BY VarTypes DEF LiveInv, UseInv, LiveParts
<1>2. p \in Port /\ g \in Agg BY <1>1 DEF EnableCfg, TypeInv, CallOK
<1>3. /\ pc = "enable_cfg" /\ ret = "idle" /\ pc' = "update" /\ ret' = "enable_link"
      /\ UNCHANGED <<ports, attr, args>>
  BY <1>1 DEF EnableCfg, StartUpdate, TypeInv, CallOK
<1>4. prio \in Nat BY <1>1, <1>2, VarTypes DEF Attr, NoPrio, Default_port_priority
<1>5. i \in Info /\ a \in Info BY <1>1, <1>2, SetBitType DEF PortRecord, StateBit
<1>6. port' = IF p \in Listed THEN Reselect(w, g) ELSE port BY DEF EnableCfg
<1>7. f = [port EXCEPT ![p] = t]
  <2>1. port[p] \in PortRecord /\ DOMAIN port = Port BY <1>1, <1>2
  <2> HIDE DEF p, g
  <2> QED BY <1>2, <2>1 DEF PortRecord
<1> HIDE DEF f, prio, i, a, g
<1>8. t \in PortRecord /\ KeepsLive(port[p], t) /\ t.lacp_enabled
  <2>1. port[p] \in PortRecord BY <1>1, <1>2
  <2> HIDE DEF p
  <2> QED BY <1>2, <1>5, <2>1 DEF PortRecord, KeepsLive, SameMachines
<1> HIDE DEF p, t
<1>9. f \in [Port -> PortRecord] BY <1>1, <1>7, <1>8, PutType
<1>10. /\ \A q \in Port : KeepsLive(port[q], f[q])
       /\ f[p].lacp_enabled
  BY <1>1, <1>2, <1>7, <1>8, PutLive
<1>11. w \in [Port -> PortRecord] BY <1>2, <1>4, <1>9, WithPrioType
<1>12. \A q \in Port : KeepsLive(f[q], w[q]) BY <1>2, <1>9, WithPrioLive
<1> HIDE DEF w
<1>13. \A q \in Port : KeepsLive(w[q], Reselect(w, g)[q]) BY <1>11, ReselectLive
<1>14. \A q \in Port : KeepsLive(f[q], Reselect(w, g)[q])
  BY <1>12, <1>13, KeepsLiveLaws
<1>15. \A q \in Port : KeepsLive(port[q], port'[q])
  BY <1>6, <1>10, <1>14, KeepsLiveLaws
<1>16. p \in Listed => port'[p].lacp_enabled
  BY <1>2, <1>6, <1>10, <1>14 DEF KeepsLive
<1>17. Listed' = Listed BY <1>3 DEF Listed
<1>18. PortsOK' BY <1>1, <1>3, <1>15, PortsStep DEF KeepsLive
<1>19. \A q \in Listed : q # p => port[q].lacp_enabled
  BY <1>1, <1>3 DEF MembersOK, Coming, Leaving, p
<1>20. \A q \in Listed : port'[q].lacp_enabled
  BY <1>1, <1>15, <1>16, <1>19 DEF KeepsLive
<1>21. MembersOK' BY <1>1, <1>3, <1>17, <1>20 DEF MembersOK
<1>22. SettledOK' BY <1>3 DEF SettledOK
<1> QED BY <1>18, <1>21, <1>22 DEF LiveParts

\* The port hears of its link, or the call ends with nothing to do.
LEMMA EnableLinkLive ==
  ASSUME LiveInv, EnableLink
  PROVE  LiveParts'
<1> DEFINE p == args.port
           up == attr[p].link_status
<1>1. /\ TypeInv /\ PortsOK /\ MembersOK /\ SettledOK
      /\ Listed \subseteq Port /\ attr \in [Port -> Attr]
  BY VarTypes DEF LiveInv, UseInv, LiveParts
<1>2. /\ pc = "enable_link" /\ ret = "idle" /\ UNCHANGED <<ports, attr>>
      /\ pc' \in {"idle", "update", "gone"} /\ ret' = "idle"
      /\ args' \in {args, NoArgs}
  BY <1>1 DEF EnableLink, StartUpdate, TypeInv, CallOK
<1>3. Listed' = Listed BY <1>2 DEF Listed
<1>4. \/ port' = port
      \/ p \in Listed /\ port' = LinkChanged(p, up) /\ pc' = "update"
  BY DEF EnableLink, StartUpdate
<1>5. p \in Listed => p \in Port /\ up \in BOOLEAN BY <1>1 DEF Attr
<1>6. \A q \in Port : KeepsLive(port[q], port'[q])
  BY <1>1, <1>4, <1>5, LinkChangedLive, KeepsLiveLaws
<1>7. PortsOK' BY <1>1, <1>2, <1>6, PortsStep DEF KeepsLive
<1>8. \A q \in Listed : port[q].lacp_enabled
  BY <1>1, <1>2 DEF MembersOK, Coming, Leaving
<1>9. \A q \in Listed' : port'[q].lacp_enabled
  BY <1>1, <1>3, <1>6, <1>8 DEF KeepsLive
<1>10. args'.todo \subseteq args'.batch BY <1>1, <1>2 DEF MembersOK, NoArgs
<1>11. MembersOK' BY <1>2, <1>9, <1>10 DEF MembersOK
<1>12. SettledOK'
  <2>1. pc' = "idle" => port' = port BY <1>2 DEF EnableLink, StartUpdate
  <2> QED BY <1>1, <1>2, <1>3, <2>1 DEF SettledOK
<1> QED BY <1>7, <1>11, <1>12 DEF LiveParts

-----------------------------------------------------------------------------
(* trunk_port_lacp_disable_batch *)

\* The batch is noted, and the loop goes to its last update.
LEMMA DisableBatchLive ==
  ASSUME LiveInv, (\E S : StartDisable(S)) \/ DisableUpdate
  PROVE  LiveParts'
<1>1. TypeInv /\ PortsOK /\ MembersOK BY DEF LiveInv, UseInv, LiveParts
<1>2. UNCHANGED <<ports, port, attr>> BY DEF StartDisable, DisableUpdate
<1>3. Listed' = Listed BY <1>2 DEF Listed
<1>4. PortsOK' BY <1>1, <1>2, <1>3 DEF PortsOK
<1>5. ASSUME NEW S, StartDisable(S) PROVE MembersOK' /\ SettledOK'
  <2>1. /\ pc = "idle" /\ ret = "idle" /\ pc' = "disable_loop" /\ ret' = "idle"
        /\ args' = [NoArgs EXCEPT !.batch = S, !.todo = S \cap Listed]
    BY <1>1, <1>5 DEF StartDisable, TypeInv, CallOK
  <2>2. args'.batch = S /\ args'.todo = S \cap Listed BY <2>1 DEF NoArgs
  <2>3. \A q \in Listed : port[q].lacp_enabled
    BY <1>1, <2>1 DEF MembersOK, Coming, Leaving
  <2> QED BY <1>2, <1>3, <2>1, <2>2, <2>3 DEF MembersOK, SettledOK
<1>6. ASSUME DisableUpdate PROVE MembersOK' /\ SettledOK'
  <2>1. /\ pc = "disable_loop" /\ ret = "idle" /\ pc' = "update" /\ ret' = "remove"
        /\ args' = args
    BY <1>1, <1>6 DEF DisableUpdate, StartUpdate, TypeInv, CallOK
  <2>2. \A q \in Listed : port[q].lacp_enabled \/ q \in args.batch
    BY <1>1, <2>1 DEF MembersOK, Coming, Leaving
  <2>3. MembersOK' BY <1>1, <1>2, <1>3, <2>1, <2>2 DEF MembersOK, Leaving
  <2> QED BY <2>1, <2>3 DEF SettledOK
<1> QED BY <1>4, <1>5, <1>6 DEF LiveParts

\* A port of the batch gives up aggregation.
LEMMA DisableNotifyLive ==
  ASSUME LiveInv, NEW p \in Port, DisableNotify(p)
  PROVE  LiveParts'
<1> DEFINE i == SetBit(port[p].actor_admin, "AGG", FALSE)
           a == SetBit(port[p].actor, "AGG", FALSE)
           t == [port[p] EXCEPT !.ntt = TRUE, !.actor_admin = i, !.actor = a]
<1>1. /\ TypeInv /\ PortsOK /\ MembersOK /\ port \in [Port -> PortRecord]
      /\ Listed \subseteq Port
      /\ args \in [port : Nat, agg : Nat, batch : SUBSET Port, todo : SUBSET Port]
  BY VarTypes DEF LiveInv, UseInv, LiveParts, TypeInv, TypeOK
<1>2. port' = [port EXCEPT ![p] = t] BY <1>1 DEF DisableNotify, PortRecord
<1>3. /\ pc = "disable_loop" /\ ret = "idle" /\ pc' = "update" /\ ret' = "disable_port"
      /\ args' = [args EXCEPT !.port = p, !.todo = @ \ {p}] /\ p \in args.todo
      /\ UNCHANGED <<ports, attr>>
  BY <1>1 DEF DisableNotify, StartUpdate, IsFirst, TypeInv, CallOK
<1> HIDE DEF i, a
<1>4. KeepsLive(port[p], t) BY <1>1 DEF KeepsLive, SameMachines, PortRecord
<1> HIDE DEF t
<1>5. \A q \in Port : KeepsLive(port[q], port'[q]) BY <1>1, <1>2, <1>4, PutLive
<1>6. PortsOK' BY <1>1, <1>3, <1>5, PortsStep DEF KeepsLive
<1>7. args'.port = p /\ args'.todo = args.todo \ {p} /\ args'.batch = args.batch
  BY <1>1, <1>3
<1>8. Listed' = Listed BY <1>3 DEF Listed
<1>9. ASSUME NEW q \in Listed PROVE port'[q].lacp_enabled \/ Leaving(q)'
  <2>1. port[q].lacp_enabled \/ q \in args.batch
    BY <1>1, <1>3 DEF MembersOK, Coming, Leaving
  <2>2. CASE port[q].lacp_enabled BY <1>1, <1>5, <2>2 DEF KeepsLive
  <2>3. CASE q \in args.batch BY <1>3, <1>7, <2>3 DEF Leaving
  <2> QED BY <2>1, <2>2, <2>3
<1>10. MembersOK' BY <1>1, <1>3, <1>7, <1>8, <1>9 DEF MembersOK
<1>11. SettledOK' BY <1>3 DEF SettledOK
<1> QED BY <1>6, <1>10, <1>11 DEF LiveParts

\* The port leaves the protocol; the batch says that it is still in the list.
LEMMA DisableLeaveLive ==
  ASSUME LiveInv, DisableLeave
  PROVE  LiveParts'
<1> DEFINE p == args.port
           f == Reselect(port, port[p].agg_id)
           t == [f[p] EXCEPT !.agg_id = 0, !.lacp_enabled = FALSE]
<1>1. /\ TypeInv /\ PortsOK /\ MembersOK /\ port \in [Port -> PortRecord]
      /\ Listed \subseteq Port
  BY VarTypes DEF LiveInv, UseInv, LiveParts
<1>2. /\ pc = "disable_port" /\ ret = "idle" /\ pc' = "disable_loop" /\ ret' = "idle"
      /\ UNCHANGED <<ports, attr, args>>
      /\ port' = [f EXCEPT ![p].agg_id = 0, ![p].lacp_enabled = FALSE]
  BY <1>1 DEF DisableLeave, TypeInv, CallOK
<1>3. p \in args.batch BY <1>1, <1>2 DEF MembersOK
<1>4. f \in [Port -> PortRecord] BY <1>1, ReselectType
<1>5. \A q \in Port : KeepsLive(port[q], f[q]) BY <1>1, ReselectLive
<1> HIDE DEF f, p
<1>6. port' = [f EXCEPT ![p] = t] BY <1>2, <1>4
<1>7. p \in Port => SameMachines(f[p], t) BY <1>4 DEF SameMachines, PortRecord
<1> HIDE DEF t
<1>8. \A q \in Port : q # p => port'[q] = f[q] BY <1>4, <1>6
<1>9. p \in Port => port'[p] = t BY <1>4, <1>6
<1>10. \A q \in Port : SameMachines(port[q], port'[q])
  <2> TAKE q \in Port
  <2>1. SameMachines(port[q], f[q]) BY <1>5 DEF KeepsLive
  <2>2. SameMachines(f[q], port'[q])
    BY <1>7, <1>8, <1>9, KeepsLiveLaws DEF KeepsLive
  <2> QED BY <2>1, <2>2 DEF SameMachines
<1>11. PortsOK' BY <1>1, <1>2, <1>10, PortsStep
<1>12. Listed' = Listed BY <1>2 DEF Listed
<1>13. ASSUME NEW q \in Listed PROVE port'[q].lacp_enabled \/ Leaving(q)'
  <2>1. port[q].lacp_enabled \/ q \in args.batch
    BY <1>1, <1>2 DEF MembersOK, Coming, Leaving
  <2>2. CASE q \in args.batch BY <1>2, <2>2 DEF Leaving
  <2>3. CASE q \notin args.batch
    <3>1. f[q].lacp_enabled BY <1>1, <1>5, <2>1, <2>3 DEF KeepsLive
    <3> QED BY <1>1, <1>3, <1>8, <2>3, <3>1
  <2> QED BY <2>2, <2>3
<1>14. MembersOK' BY <1>1, <1>2, <1>12, <1>13 DEF MembersOK
<1>15. SettledOK' BY <1>2 DEF SettledOK
<1> QED BY <1>11, <1>14, <1>15 DEF LiveParts

\* A port is unlinked and freed; the others are as they were.
LEMMA RemovePortLive ==
  ASSUME LiveInv, NEW p \in Port, RemovePort(p)
  PROVE  LiveParts'
<1>1. /\ TypeInv /\ PortsOK /\ MembersOK /\ SettledOK /\ ports \in Seq(Port)
      /\ port \in [Port -> PortRecord] /\ Listed \subseteq Port
  BY VarTypes DEF LiveInv, UseInv, LiveParts
<1>2. /\ pc = "remove" /\ UNCHANGED <<pc, ret, args, attr>>
      /\ port' = [port EXCEPT ![p] = ZeroPort(p)]
  BY DEF RemovePort
<1>3. PICK i \in DOMAIN ports : ports[i] = p /\ ports' = RemoveAt(ports, i)
  BY DEF RemovePort
<1>4. IsInjective(ports') /\ Listed' \subseteq Listed \ {p}
  BY <1>1, <1>3, RemoveList DEF PortsOK, Listed
<1>5. \A q \in Listed' : q \in Listed /\ port'[q] = port[q] BY <1>1, <1>2, <1>4
<1>6. PortsOK' BY <1>1, <1>2, <1>4, <1>5 DEF PortsOK
<1>7. MembersOK' BY <1>1, <1>2, <1>5 DEF MembersOK, Coming, Leaving
<1>8. SettledOK' BY <1>1, <1>2, <1>5 DEF SettledOK
<1> QED BY <1>6, <1>7, <1>8 DEF LiveParts

\* No port of the batch is left in the list.
LEMMA RemoveReturnsLive ==
  ASSUME LiveInv, RemoveReturns
  PROVE  LiveParts'
<1>1. TypeInv /\ PortsOK /\ MembersOK /\ SettledOK
  BY DEF LiveInv, UseInv, LiveParts
<1>2. /\ pc = "remove" /\ ret = "idle" /\ pc' = "idle" /\ ret' = "idle"
      /\ args' = NoArgs /\ args.batch \cap Listed = {}
      /\ UNCHANGED <<ports, port, attr>>
  BY <1>1 DEF RemoveReturns, TypeInv, CallOK
<1>3. Listed' = Listed BY <1>2 DEF Listed
<1>4. PortsOK' BY <1>1, <1>2, <1>3 DEF PortsOK
<1>5. \A q \in Listed : port[q].lacp_enabled
  BY <1>1, <1>2 DEF MembersOK, Coming, Leaving
<1>6. MembersOK' BY <1>2, <1>3, <1>5 DEF MembersOK, NoArgs
<1>7. SettledOK' BY <1>1, <1>2, <1>3 DEF SettledOK
<1> QED BY <1>4, <1>6, <1>7 DEF LiveParts

-----------------------------------------------------------------------------
\* The initial state: an empty list.
LEMMA InitLive == Init => LiveInv
<1> SUFFICES ASSUME Init PROVE LiveInv OBVIOUS
<1>1. ports = <<>> /\ pc = "idle" /\ ret = "idle" /\ args = NoArgs BY DEF Init
<1>2. Listed = {} /\ IsInjective(ports) BY <1>1 DEF Listed, Range, IsInjective
<1>3. LiveParts
  BY <1>1, <1>2 DEF LiveParts, PortsOK, MembersOK, SettledOK, NoArgs
<1>4. TypeInv BY InitType
<1>5. \A p \in Port : port[p].selected = FALSE BY DEF Init, ZeroPort
<1>6. InUseIsAggregatable BY <1>5 DEF InUseIsAggregatable, InUse
<1> QED BY <1>3, <1>4, <1>6 DEF LiveInv, UseInv

\* The invariant is kept by every step.
LEMMA LiveStep == LiveInv /\ [Next]_vars => LiveInv'
<1> SUFFICES ASSUME LiveInv, [Next]_vars PROVE LiveParts'
  BY UseStep DEF LiveInv
<1>1. CASE UNCHANGED vars
  <2>1. LiveParts BY DEF LiveInv
  <2> QED BY <1>1, <2>1
      DEF vars, LiveParts, PortsOK, MembersOK, SettledOK, Coming, Leaving, Listed
<1>2. CASE Update
  BY <1>2, RunRxLive, RunSelLive, RunMuxLive, RunTxLive, UpdateReturnsLive
     DEF Update, Run
<1>3. CASE Continue
  BY <1>3, EnableCfgLive, EnableLinkLive, DisableBatchLive, DisableNotifyLive,
     DisableLeaveLive, RemovePortLive, RemoveReturnsLive DEF Continue
<1>4. CASE OneSecond BY <1>4, OneSecondLive
<1>5. CASE Command
  <2>1. ASSUME NEW p \in Port, NEW a \in Remote, NEW v \in Views(p),
               RxLacpdu(p, [rcvd |-> TRUE, actor |-> a, partner |-> v])
        PROVE  LiveParts'
    BY <2>1, RxLacpduLive
  <2>2. ASSUME NEW p \in Port, NEW up \in BOOLEAN, LinkChange(p, up) \/ SetLink(p, up)
        PROVE  LiveParts'
    BY <2>2, LinkLive
  <2>3. ASSUME NEW p \in Port, NEW v \in Nat, NEW b \in BOOLEAN,
               SetSpeed(p, v) \/ SetDuplex(p, b) \/ SetPortPrio(p, v)
        PROVE  LiveParts'
    BY <2>3, AttrLive
  <2>4. ASSUME NEW S, StartDisable(S) PROVE LiveParts'
    BY <2>4, DisableBatchLive
  <2>5. ASSUME NEW s, SysSetCfg(s) PROVE LiveParts'
    BY <2>5, SysLive
  <2>6. CASE \E p \in Port :
               \/ \E a \in Remote, v \in Views(p) :
                     RxLacpdu(p, [rcvd |-> TRUE, actor |-> a, partner |-> v])
               \/ \E up \in IpcLinks : LinkChange(p, up)
               \/ \E up \in CliLinks : SetLink(p, up)
               \/ \E v \in Speeds : SetSpeed(p, v)
               \/ \E v \in Duplexes : SetDuplex(p, v)
               \/ \E v \in PortPrios : SetPortPrio(p, v)
               \/ \E g \in Agg : Enable(p, g)
               \/ Disable(p)
               \/ ClearStat(p)
    BY <2>1, <2>2, <2>3, <2>4, <2>6, CommandAssumption, EnableLive,
       ClearStatLive DEF Disable
  <2>7. CASE \/ \E g \in Agg : DeleteAgg(g)
             \/ \E v \in SysPrios : SetSysPrio(v)
             \/ \E v \in Timeouts : SetPeriod(v)
             \/ \E v \in LongPeriods : SetLongPeriod(v)
             \/ \E v \in ShortPeriods : SetShortPeriod(v)
    BY <2>4, <2>5, <2>7
    DEF DeleteAgg, SetSysPrio, SetPeriod, SetLongPeriod, SetShortPeriod
  <2> QED BY <1>5, <2>6, <2>7 DEF Command
<1> QED BY <1>1, <1>2, <1>3, <1>4, <1>5 DEF Next

\* Between calls a port carries traffic only while its link is up, its receive
\* machine hears a partner, that partner is in sync and the selection has it in use:
\* lacp_sys_update returns only when no check fires, and then lacp_mux.c and
\* lacp_rx.c leave no other state to a port whose collecting and distributing is on.
THEOREM TrafficIsLive == Spec => []TrafficNeedsLivePartner
<1>1. Spec => []LiveInv BY InitLive, LiveStep, PTL DEF Spec
<1> QED BY <1>1, LiveIsTraffic, PTL

-----------------------------------------------------------------------------
(* Which fields of a port record an operation may change *)

Field ==
    {"rx", "sel", "mux", "tx", "actor", "partner", "actor_admin", "msg",
     "current_while", "periodic_timer", "wait_while", "master_port",
     "port_enabled", "port_moved", "lacp_enabled", "selected", "standby",
     "speed", "duplex", "agg_id", "ntt", "ready_n", "hold_count"}

\* u is t but for the fields in F.
Only(t, u, F) == \A x \in Field \ F : u[x] = t[x]

\* The entries of lacp_rx_enter_state.
LEMMA RxFrame ==
  ASSUME NEW p \in Port, NEW t \in PortRecord, NEW s \in RxState, s # "BEGIN"
  PROVE  /\ Only(t, RxEnter(p, t, s), {"rx", "actor", "partner", "msg", "current_while",
                                       "port_moved", "selected", "ntt"})
         /\ RxEnter(p, t, s).rx = s
BY DEF RxEnter, RxState, EnterInitialize, EnterPortDisabled, EnterLacpDisabled,
       EnterExpired, EnterDefaulted, EnterCurrent, PortRecord, Only, Field

\* The entries of lacp_mux_enter_state.
LEMMA MuxFrame ==
  ASSUME NEW t \in PortRecord, NEW s \in MuxState, s # "BEGIN"
  PROVE  /\ Only(t, MuxEnter(t, s), {"mux", "ntt", "actor", "wait_while", "ready_n"})
         /\ MuxEnter(t, s).mux = s
         /\ \A x \in DOMAIN t.actor \ {"state"} : MuxEnter(t, s).actor[x] = t.actor[x]
BY DEF MuxEnter, EnterWaiting, MuxState, PortRecord, Info, Only, Field

\* The entries of lacp_tx_enter_state.
LEMMA TxFrame ==
  ASSUME NEW t \in PortRecord, NEW slow, NEW fast, NEW s \in TxState, s # "BEGIN"
  PROVE  Only(t, TxEnter(t, slow, fast, s), {"tx", "periodic_timer", "hold_count", "ntt"})
BY DEF TxEnter, TxState, EnterPeriodic, PortRecord, Only, Field

\* The passing of a second.
LEMMA TickedFrame ==
  ASSUME NEW t \in PortRecord
  PROVE  Only(t, Ticked(t), {"current_while", "periodic_timer", "wait_while", "hold_count"})
BY DEF Ticked, PortRecord, Only, Field

\* A received LACPDU and the mark of a port that has moved.
LEMMA RxLacpduFrame ==
  ASSUME NEW p \in Port, NEW m, RxLacpdu(p, m), port \in [Port -> PortRecord]
  PROVE  \A q \in Port : Only(port[q], port'[q], {"msg", "port_moved"})
<1>1. ASSUME NEW t \in PortRecord
      PROVE  Only(t, [t EXCEPT !.msg = m], {"msg", "port_moved"})
  BY <1>1 DEF PortRecord, Only, Field
<1>2. ASSUME NEW t \in PortRecord, NEW b
      PROVE  Only(t, [t EXCEPT !.port_moved = @ \/ b], {"msg", "port_moved"})
  BY <1>2 DEF PortRecord, Only, Field
<1>3. \A t : Only(t, t, {"msg", "port_moved"}) BY DEF Only
<1>4. \/ port' = port
      \/ port' = [q \in Port |->
                    IF q = p THEN [port[p] EXCEPT !.msg = m]
                    ELSE [port[q] EXCEPT !.port_moved = @ \/ Moved(p, m, q)]]
  BY DEF RxLacpdu
<1> QED BY <1>1, <1>2, <1>3, <1>4

\* A change of the link.
LEMMA WithLinkFrame ==
  ASSUME NEW t \in PortRecord, NEW a, NEW up
  PROVE  /\ Only(t, WithLink(t, a, up), {"port_enabled", "speed", "duplex", "actor"})
         /\ \A x \in DOMAIN t.actor \ {"state"} : WithLink(t, a, up).actor[x] = t.actor[x]
BY DEF WithLink, SetBit, PortRecord, Info, Only, Field

\* LACP_STATE_SET_BIT on the state of one end.
LEMMA SetBitFrame ==
  ASSUME NEW a \in Info, NEW b \in StateBit
  PROVE  /\ SetBit(a, b, TRUE) \in Info /\ SetBit(a, b, FALSE) \in Info
         /\ \A x \in DOMAIN a \ {"state"} :
               SetBit(a, b, TRUE)[x] = a[x] /\ SetBit(a, b, FALSE)[x] = a[x]
BY DEF SetBit, Info

\* Storing a priority.
LEMMA WithPrioFrame ==
  ASSUME NEW f \in [Port -> PortRecord], NEW p \in Port, NEW v, NEW q \in Port
  PROVE  /\ Only(f[q], WithPrio(f, p, v)[q], {"actor", "actor_admin"})
         /\ \A x \in DOMAIN f[q].actor \ {"port_priority"} :
               WithPrio(f, p, v)[q].actor[x] = f[q].actor[x]
         /\ \A x \in DOMAIN f[q].actor_admin \ {"port_priority"} :
               WithPrio(f, p, v)[q].actor_admin[x] = f[q].actor_admin[x]
         /\ q # p => WithPrio(f, p, v)[q] = f[q]
<1>1. f[q] \in PortRecord OBVIOUS
<1>2. q # p => WithPrio(f, p, v)[q] = f[q] BY DEF WithPrio
<1>3. CASE q = p
  BY <1>1, <1>3 DEF WithPrio, PortRecord, Info, Only, Field
<1> QED BY <1>2, <1>3 DEF Only

\* Unselecting a group: every port of it, and nothing else.
LEMMA ReselectFrame ==
  ASSUME NEW f \in [Port -> PortRecord], NEW g, NEW q \in Port
  PROVE  /\ Only(f[q], Reselect(f, g)[q], {"selected"})
         /\ Reselect(f, g)[q].selected => f[q].selected
         /\ (q \in Listed /\ g # 0 /\ f[q].agg_id = g) => ~Reselect(f, g)[q].selected
<1>1. f[q] \in PortRecord OBVIOUS
<1>2. Reselect(f, g)[q] = IF g # 0 /\ q \in Listed /\ f[q].agg_id = g
                          THEN [f[q] EXCEPT !.selected = FALSE] ELSE f[q]
  BY DEF Reselect
<1>3. CASE g # 0 /\ q \in Listed /\ f[q].agg_id = g
  BY <1>1, <1>2, <1>3 DEF PortRecord, Only, Field
<1>4. CASE ~(g # 0 /\ q \in Listed /\ f[q].agg_id = g)
  <2>1. Reselect(f, g)[q] = f[q] BY <1>2, <1>4
  <2> QED BY <1>4, <2>1 DEF Only
<1> QED BY <1>3, <1>4

-----------------------------------------------------------------------------
(* The invariant *)

\* The second half of the test of partners_aport: t has the better identifier.
Precedes(t, u) ==
    \/ t.actor.port_priority < u.actor.port_priority
    \/ /\ t.actor.port_priority = u.actor.port_priority
       /\ t.actor.port_no < u.actor.port_no

\* Port records that may be in use beside each other.  What an LACPDU says of the
\* system priority is not compared again when the priority is set, so the loop is
\* only told apart while the priority stays what it is.
Agree(t, u) ==
    /\ SameAggregate(t.partner, u.partner)
    /\ t.actor.key = u.actor.key
    /\ SysPrios = {} => ~(Names(t.partner, u.actor) /\ Precedes(u, t))

\* In a group whose ports are all selected, those in use agree.
GroupOK(g) ==
    (\A p \in Members(g) : port[p].selected) =>
       \A p, q \in Members(g) :
          InUse(port[p]) /\ InUse(port[q]) => Agree(port[p], port[q])
GroupsOK == \A g \in Agg : GroupOK(g)

\* The local end of port p: its number, and the system's priority while none is set;
\* a port has a group when it has LACP.
OwnEnd(p, t) ==
    /\ t.lacp_enabled <=> t.agg_id # 0
    /\ t.actor_admin.port_no = p + 1
    /\ t.rx # "BEGIN" => t.actor.port_no = p + 1
    /\ SysPrios = {} =>
          /\ t.actor_admin.system_priority = Default_system_priority
          /\ t.rx # "BEGIN" => t.actor.system_priority = Default_system_priority
OwnOK ==
    /\ SysPrios = {} => sys.priority = Default_system_priority
    /\ \A p \in Listed : OwnEnd(p, port[p])

\* Where the thread stands after an update every port is selected, if only as standby.
SelectedOK ==
    pc \in {"idle", "enable_cfg", "enable_link", "disable_port", "remove"} =>
       \A p \in Listed : port[p].selected

GroupParts == GroupsOK /\ OwnOK /\ SelectedOK

GroupInv == LiveInv /\ GroupParts

-----------------------------------------------------------------------------
(* What steps keep of it *)

\* u has the group of t, and if it is selected so was t, with the same ends.
Stays(t, u) ==
    /\ u.agg_id = t.agg_id
    /\ u.selected =>
          /\ t.selected /\ u.standby = t.standby
          /\ SameAggregate(u.partner, t.partner) /\ u.partner.port_no = t.partner.port_no
          /\ \A x \in {"key", "system_mac", "port_no", "port_priority"} :
                u.actor[x] = t.actor[x]
          /\ SysPrios = {} => u.actor.system_priority = t.actor.system_priority

\* u has the local end of t.
SameOwn(t, u) ==
    /\ u.lacp_enabled = t.lacp_enabled /\ u.agg_id = t.agg_id /\ u.rx = t.rx
    /\ u.actor_admin.port_no = t.actor_admin.port_no
    /\ u.actor.port_no = t.actor.port_no
    /\ SysPrios = {} =>
          /\ u.actor_admin.system_priority = t.actor_admin.system_priority
          /\ u.actor.system_priority = t.actor.system_priority

Steady(t, u) == Stays(t, u) /\ SameOwn(t, u)

\* Staying as it was is reflexive and passes through a sequence of steps.
LEMMA SteadyLaws ==
  /\ \A t : Steady(t, t)
  /\ \A t, u, v : Stays(t, u) /\ Stays(u, v) => Stays(t, v)
  /\ \A t, u, v : Steady(t, u) /\ Steady(u, v) => Steady(t, v)
  /\ \A p, t, u : SameOwn(t, u) /\ OwnEnd(p, t) => OwnEnd(p, u)
<1>1. \A t : Stays(t, t) BY DEF Stays, SameAggregate
<1>2. \A t, u, v : Stays(t, u) /\ Stays(u, v) => Stays(t, v)
  BY DEF Stays, SameAggregate
<1>3. /\ \A t : SameOwn(t, t)
      /\ \A t, u, v : SameOwn(t, u) /\ SameOwn(u, v) => SameOwn(t, v)
  BY DEF SameOwn
<1>4. \A p, t, u : SameOwn(t, u) /\ OwnEnd(p, t) => OwnEnd(p, u)
  BY DEF SameOwn, OwnEnd
<1> QED BY <1>1, <1>2, <1>3, <1>4 DEF Steady

\* A record whose ends are untouched.
LEMMA OnlySteady ==
  \A t, u :
     Only(t, u, {"sel", "mux", "tx", "msg", "current_while", "periodic_timer",
                 "wait_while", "master_port", "port_enabled", "port_moved", "speed",
                 "duplex", "ntt", "ready_n", "hold_count"}) => Steady(t, u)
BY DEF Only, Field, Steady, Stays, SameOwn, SameAggregate

\* Agreement passes to records that stay as they were.
LEMMA AgreeStays ==
  ASSUME NEW t, NEW u, NEW t1, NEW u1, Stays(t, t1), Stays(u, u1),
         t1.selected, u1.selected, Agree(t, u)
  PROVE  Agree(t1, u1)
BY DEF Agree, Stays, SameAggregate, Names, Precedes

\* A group all of whose members were selected, and some of which remain.
Settles(g) == \A q \in Members(g) : port[q].selected
Remain(g) == \A q \in Members(g)' : q \in Members(g) /\ Stays(port[q], port'[q])

\* A group that loses members keeps its agreement: those that remain agreed before.
LEMMA GroupFewer ==
  ASSUME GroupsOK, NEW g \in Agg, Remain(g),
         Settles(g) \/ Members(g) \subseteq Members(g)'
  PROVE  GroupOK(g)'
<1> SUFFICES ASSUME \A q \in Members(g)' : port'[q].selected,
                    NEW p \in Members(g)', NEW q \in Members(g)',
                    InUse(port'[p]), InUse(port'[q])
             PROVE  Agree(port'[p], port'[q])
  BY DEF GroupOK
<1>1. \A r \in Members(g) : port[r].selected BY DEF Remain, Settles, Stays
<1>2. InUse(port[p]) /\ InUse(port[q]) BY DEF Remain, Stays, InUse
<1>3. Agree(port[p], port[q]) BY <1>1, <1>2 DEF GroupsOK, GroupOK, Remain
<1> QED BY <1>3, AgreeStays DEF Remain

\* A step after which the list is the same and every port stays as it was.
LEMMA GroupsStay ==
  ASSUME TypeInv, GroupsOK, ports' = ports,
         \A q \in Port : Stays(port[q], port'[q])
  PROVE  GroupsOK'
<1>1. Listed' = Listed /\ Listed \subseteq Port BY VarTypes DEF Listed
<1>2. ASSUME NEW g \in Agg PROVE GroupOK(g)'
  <2>1. Members(g)' = Members(g) BY <1>1 DEF Members, Stays
  <2>2. \A q \in Members(g)' : q \in Members(g) /\ Stays(port[q], port'[q])
    BY <1>1, <2>1 DEF Members
  <2> QED BY <2>1, <2>2, GroupFewer DEF Remain, Settles
<1> QED BY <1>2 DEF GroupsOK

-----------------------------------------------------------------------------
(* The update of a group *)

\* It changes keys, selected, standby and masters of the group's ports only.
LEMMA UpdateAggFrame ==
  ASSUME NEW f \in [Port -> PortRecord], NEW S \in SUBSET Port,
         NEW key \in [Port -> Word], NEW p \in Port
  PROVE  /\ Only(f[p], UpdateAggPortsSelect(f, S, key)[p],
                 {"actor", "selected", "standby", "master_port"})
         /\ \A x \in DOMAIN f[p].actor \ {"key"} :
               UpdateAggPortsSelect(f, S, key)[p].actor[x] = f[p].actor[x]
         /\ p \notin S => UpdateAggPortsSelect(f, S, key)[p] = f[p]
         /\ p \in S => UpdateAggPortsSelect(f, S, key)[p].selected
<1> DEFINE h == RefreshKeys(f, S, key)
           C == Candidates(h, S)
           m == Master(h, C)
           b == IF C = {} THEN TRUE ELSE ~Joins(h, S, h[p], h[m])
           n == IF C = {} THEN p ELSE m
           k == key[p]
           u == MarkGroup(h, S)[p]
<1>1. DOMAIN h = Port BY DEF RefreshKeys
<1>2. f[p] \in PortRecord OBVIOUS
<1>3. u = IF p \in S THEN [h[p] EXCEPT !.selected = TRUE, !.standby = b, !.master_port = n]
          ELSE h[p]
  BY <1>1 DEF MarkGroup
<1>4. h[p] = IF p \in S THEN [f[p] EXCEPT !.actor.key = k] ELSE f[p]
  BY DEF RefreshKeys
<1>5. UpdateAggPortsSelect(f, S, key)[p] = u BY DEF UpdateAggPortsSelect
<1> HIDE DEF h, b, n, k, u
<1>6. CASE p \in S
  <2>1. u = [[f[p] EXCEPT !.actor.key = k]
               EXCEPT !.selected = TRUE, !.standby = b, !.master_port = n]
    BY <1>3, <1>4, <1>6
  <2>2. /\ Only(f[p], u, {"actor", "selected", "standby", "master_port"})
        /\ \A x \in DOMAIN f[p].actor \ {"key"} : u.actor[x] = f[p].actor[x]
        /\ u.selected
    BY <1>2, <2>1 DEF PortRecord, Info, Only, Field
  <2> QED BY <1>5, <1>6, <2>2
<1>7. CASE p \notin S
  <2>1. u = f[p] BY <1>3, <1>4, <1>7
  <2> QED BY <1>5, <1>7, <2>1 DEF Only
<1> QED BY <1>6, <1>7

\* The ports it puts to use agree: each was compared with the master and with all
\* ports of the group.
LEMMA UpdateAggAgree ==
  ASSUME NEW f \in [Port -> PortRecord], NEW S \in SUBSET Port,
         NEW key \in [Port -> Word], NEW p \in S, NEW q \in S,
         InUse(UpdateAggPortsSelect(f, S, key)[p]),
         InUse(UpdateAggPortsSelect(f, S, key)[q])
  PROVE  Agree(UpdateAggPortsSelect(f, S, key)[p], UpdateAggPortsSelect(f, S, key)[q])
<1> DEFINE h == RefreshKeys(f, S, key)
           C == Candidates(h, S)
           m == Master(h, C)
           b(r) == IF C = {} THEN TRUE ELSE ~Joins(h, S, h[r], h[m])
           n(r) == IF C = {} THEN r ELSE m
           u(r) == MarkGroup(h, S)[r]
<1>1. DOMAIN h = Port BY DEF RefreshKeys
<1>2. \A r \in S : u(r) = [h[r] EXCEPT !.selected = TRUE, !.standby = b(r),
                                       !.master_port = n(r)]
  BY <1>1 DEF MarkGroup
<1>3. \A r \in S : {"actor", "partner", "standby", "selected"} \subseteq DOMAIN h[r]
  <2>1. \A r \in S : f[r] \in PortRecord OBVIOUS
  <2>2. \A r \in S : h[r] = [f[r] EXCEPT !.actor.key = key[r]] BY DEF RefreshKeys
  <2> HIDE DEF h
  <2> QED BY <2>1, <2>2 DEF PortRecord
<1>4. UpdateAggPortsSelect(f, S, key)[p] = u(p) /\ UpdateAggPortsSelect(f, S, key)[q] = u(q)
  BY DEF UpdateAggPortsSelect
<1>5. \A r \in S : ~b(r) => Joins(h, S, h[r], h[m]) OBVIOUS
<1> HIDE DEF h, m, b, n, u
<1>6. \A r \in S : u(r).actor = h[r].actor /\ u(r).partner = h[r].partner
                   /\ u(r).standby = b(r)
  BY <1>2, <1>3
<1>7. Joins(h, S, h[p], h[m]) /\ Joins(h, S, h[q], h[m])
  BY <1>4, <1>5, <1>6 DEF InUse
<1>8. Agree(h[p], h[q])
  <2>1. SameAggregate(h[p].partner, h[q].partner) /\ h[p].actor.key = h[q].actor.key
    BY <1>7 DEF Joins, SameAggregate
  <2>2. ~(Names(h[p].partner, h[q].actor) /\ Precedes(h[q], h[p]))
    BY <1>7 DEF Joins, PartnersAPort, Names, Precedes
  <2> QED BY <2>1, <2>2 DEF Agree
<1> QED BY <1>4, <1>6, <1>8 DEF Agree, SameAggregate, Names, Precedes

-----------------------------------------------------------------------------
(* The steps of lacp_sys_update *)

\* An entry of the receive machine unselects the port, or has the ends of before up
\* to bits that the selection does not compare.
LEMMA RxStays ==
  ASSUME NEW p \in Port, NEW t \in PortRecord, NEW s \in RxState, s # "BEGIN"
  PROVE  Stays(t, RxEnter(p, t, s))
<1> DEFINE u == RxEnter(p, t, s)
           Sel == t.selected
<1>1. /\ t.actor \in Info /\ t.partner \in Info /\ t.msg.actor \in Info
      /\ Only(t, u, {"rx", "actor", "partner", "msg", "current_while", "port_moved",
                     "selected", "ntt"})
  BY MsgType, RxFrame DEF PortRecord
<1>2. u.agg_id = t.agg_id /\ u.standby = t.standby BY <1>1 DEF Only, Field
<1>3. CASE s \in {"INITIALIZE", "PORT_DISABLED", "LACP_DISABLED"}
  <2>1. u.selected = FALSE
    BY <1>3 DEF RxEnter, EnterInitialize, EnterPortDisabled, EnterLacpDisabled, PortRecord
  <2> HIDE DEF u
  <2>2. Stays(t, u) BY <1>2, <2>1 DEF Stays
  <2> QED BY <2>2 DEF u
<1>4. CASE s = "EXPIRED"
  <2>1. /\ u.selected = t.selected
        /\ u.actor = SetBit(t.actor, "EXP", TRUE)
        /\ u.partner = SetBit(SetBit(t.partner, "SYN", FALSE), "TMT", TRUE)
    BY <1>4 DEF RxEnter, EnterExpired, PortRecord
  <2> HIDE DEF u
  <2>2. Stays(t, u) BY <1>1, <1>2, <2>1 DEF Stays, SetBit, SameAggregate, Info
  <2> QED BY <2>2 DEF u
<1>5. CASE s = "DEFAULTED"
  <2> DEFINE other == ~SamePartner(PartnerAdmin(p), t.partner)
             lost == SetBit(SetBit(t.actor, "DEF", TRUE), "EXP", FALSE)
             a == IF other THEN SetBit(lost, "SYN", FALSE) ELSE lost
  <2>1. /\ u.selected = (t.selected /\ ~other) /\ u.partner = PartnerAdmin(p)
        /\ u.actor = a
    BY <1>5 DEF RxEnter, EnterDefaulted, PortRecord
  <2>2. \A x \in DOMAIN t.actor \ {"state"} : a[x] = t.actor[x]
    BY <1>1 DEF SetBit, Info
  <2>3. ~other => /\ SameAggregate(PartnerAdmin(p), t.partner)
                  /\ PartnerAdmin(p).port_no = t.partner.port_no
    BY DEF SamePartner, SameAggregate
  <2> HIDE DEF u, other, a
  <2>4. Stays(t, u) BY <1>1, <1>2, <2>1, <2>2, <2>3 DEF Stays, Info
  <2> QED BY <2>4 DEF u
<1>6. CASE s = "CURRENT"
  <2> DEFINE b == PartnerMatched(t) /\ Bit(t.msg.actor, "SYN")
  <2>1. /\ u.selected = (t.selected /\ ~NewPartner(t))
        /\ u.partner = SetBit(t.msg.actor, "SYN", b)
        /\ u.actor = SetBit(SetBit(t.actor, "DEF", FALSE), "EXP", FALSE)
    BY <1>6 DEF RxEnter, EnterCurrent, PortRecord
  <2>2. ~NewPartner(t) => /\ SameAggregate(t.msg.actor, t.partner)
                          /\ t.msg.actor.port_no = t.partner.port_no
    BY DEF NewPartner, SamePartner, SameAggregate
  <2> HIDE DEF u, b
  <2>3. Stays(t, u) BY <1>1, <1>2, <2>1, <2>2 DEF Stays, SetBit, SameAggregate, Info
  <2> QED BY <2>3 DEF u
<1> QED BY <1>3, <1>4, <1>5, <1>6 DEF RxState

\* An entry of the receive machine keeps the local end of the port.
LEMMA RxOwn ==
  ASSUME NEW p \in Port, NEW t \in PortRecord, NEW s \in RxState, RxGoes(t, s),
         OwnEnd(p, t)
  PROVE  OwnEnd(p, RxEnter(p, t, s))
<1> DEFINE u == RxEnter(p, t, s)
<1>1. s # "BEGIN" /\ (s # "INITIALIZE" => t.rx # "BEGIN") BY DEF RxGoes, LinkLost
<1>2. /\ t.actor \in Info /\ t.actor_admin \in Info
      /\ Only(t, u, {"rx", "actor", "partner", "msg", "current_while", "port_moved",
                     "selected", "ntt"})
  BY <1>1, RxFrame DEF PortRecord
<1>3. /\ u.lacp_enabled = t.lacp_enabled /\ u.agg_id = t.agg_id
      /\ u.actor_admin = t.actor_admin
  BY <1>2 DEF Only, Field
<1>4. CASE s = "INITIALIZE"
  <2>1. u.actor = SetBit(SetBit(t.actor_admin, "DEF", TRUE), "EXP", FALSE)
    BY <1>4 DEF RxEnter, EnterInitialize, PortRecord
  <2> HIDE DEF u
  <2>2. OwnEnd(p, u) BY <1>2, <1>3, <2>1 DEF OwnEnd, SetBit, Info
  <2> QED BY <2>2 DEF u
<1>5. CASE s # "INITIALIZE"
  <2>1. \A x \in DOMAIN t.actor \ {"state"} : u.actor[x] = t.actor[x]
    BY <1>1, <1>2, <1>5 DEF RxEnter, RxState, EnterPortDisabled, EnterLacpDisabled,
       EnterExpired, EnterDefaulted, EnterCurrent, SetBit, PortRecord, Info
  <2> HIDE DEF u
  <2>2. OwnEnd(p, u) BY <1>1, <1>2, <1>3, <1>5, <2>1 DEF OwnEnd, Info
  <2> QED BY <2>2 DEF u
<1> QED BY <1>4, <1>5

\* Unselecting a group keeps what ports are selected afterwards.
LEMMA ReselectSteady ==
  ASSUME NEW f \in [Port -> PortRecord], NEW g, NEW q \in Port
  PROVE  Steady(f[q], Reselect(f, g)[q])
BY ReselectFrame DEF Only, Field, Steady, Stays, SameOwn, SameAggregate

\* A step of the update that keeps the list and the local ends.
LEMMA RunGroup ==
  ASSUME GroupInv, pc = "update", UNCHANGED <<ports, sys, pc>>, GroupsOK',
         \A q \in Listed : OwnEnd(q, port'[q])
  PROVE  GroupParts'
<1>1. Listed' = Listed BY DEF Listed
<1>2. OwnOK' BY <1>1 DEF GroupInv, GroupParts, OwnOK
<1>3. SelectedOK' BY DEF SelectedOK
<1> QED BY <1>2, <1>3 DEF GroupParts

\* A receive step.
LEMMA RunRxGroup ==
  ASSUME GroupInv, NEW p \in Port, RunRx(p)
  PROVE  GroupParts'
<1>1. PICK s \in RxState :
        /\ RxGoes(port[p], s)
        /\ LET f == [port EXCEPT ![p] = RxEnter(p, port[p], s)]
           IN  port' = IF s = "CURRENT" /\ NewPartner(port[p])
                       THEN Reselect(f, port[p].agg_id) ELSE f
  BY DEF RunRx
<1> DEFINE t == RxEnter(p, port[p], s)
           f == [port EXCEPT ![p] = t]
<1>2. /\ TypeInv /\ GroupsOK /\ OwnOK /\ port \in [Port -> PortRecord]
      /\ Listed \subseteq Port
  BY VarTypes DEF GroupInv, GroupParts, LiveInv, UseInv
<1>3. pc = "update" /\ UNCHANGED <<ports, sys, pc>> BY DEF RunRx, Turn
<1>4. s # "BEGIN" BY <1>1 DEF RxGoes
<1>5. t \in PortRecord BY <1>2, <1>4, RxEnterType
<1>6. port' = Reselect(f, port[p].agg_id) \/ port' = f BY <1>1
<1>7. Stays(port[p], t) BY <1>2, <1>4, RxStays
<1>8. p \in Listed => OwnEnd(p, t) BY <1>1, <1>2, RxOwn DEF OwnOK
<1> HIDE DEF t
<1>9. f \in [Port -> PortRecord] BY <1>2, <1>5, PutType
<1>10. \A q \in Port : f[q] = IF q = p THEN t ELSE port[q] BY <1>2
<1> HIDE DEF f
<1>11. \A q \in Port : Steady(f[q], port'[q])
  BY <1>6, <1>9, ReselectSteady, SteadyLaws
<1>12. \A q \in Port : Stays(port[q], f[q])
  BY <1>7, <1>10, SteadyLaws DEF Steady
<1>13. \A q \in Port : Stays(port[q], port'[q])
  BY <1>11, <1>12, SteadyLaws DEF Steady
<1>14. GroupsOK' BY <1>2, <1>3, <1>13, GroupsStay
<1>15. \A q \in Listed : OwnEnd(q, f[q]) BY <1>2, <1>8, <1>10 DEF OwnOK
<1>16. \A q \in Listed : OwnEnd(q, port'[q])
  BY <1>2, <1>11, <1>15, SteadyLaws DEF Steady
<1> QED BY <1>3, <1>14, <1>16, RunGroup

\* A selection step.
LEMMA RunSelGroup ==
  ASSUME GroupInv, NEW p \in Port, RunSel(p)
  PROVE  GroupParts'
<1> DEFINE key == [q \in Port |-> OperKey(PortTid(q), attr[q].speed, attr[q].duplex)]
           f == [port EXCEPT ![p].sel = "SELECTION"]
           alone == [f EXCEPT ![p].selected = TRUE, ![p].standby = TRUE]
           g0 == port[p].agg_id
           S == Members(g0)
           upd == UpdateAggPortsSelect(f, S, key)
<1>1. /\ TypeInv /\ GroupsOK /\ OwnOK /\ port \in [Port -> PortRecord]
      /\ Listed \subseteq Port
  BY VarTypes DEF GroupInv, GroupParts, LiveInv, UseInv
<1>2. f \in [Port -> PortRecord] BY <1>1 DEF PortRecord, SelState
<1>3. \A q \in Port : Steady(port[q], f[q])
  <2>1. \A q \in Port : Only(port[q], f[q], {"sel"}) BY <1>1 DEF PortRecord, Only, Field
  <2>2. \A q \in Port : Only(port[q], f[q], {"sel", "mux", "tx", "msg", "current_while",
           "periodic_timer", "wait_while", "master_port", "port_enabled", "port_moved",
           "speed", "duplex", "ntt", "ready_n", "hold_count"})
    BY <2>1 DEF Only
  <2> QED BY <2>2, OnlySteady
<1>4. key \in [Port -> Word] BY PortTidType, OperKeyType
<1>5. S \in SUBSET Port BY <1>1 DEF Members
<1>6. /\ pc = "update" /\ UNCHANGED <<ports, sys, pc>>
      /\ port' = CASE ~port[p].lacp_enabled -> alone
                   [] port[p].lacp_enabled /\ port[p].agg_id = 0 -> f
                   [] OTHER -> upd
  BY DEF RunSel, Turn
<1>7. Listed' = Listed BY <1>6 DEF Listed
<1>8. port[p].lacp_enabled \in BOOLEAN /\ g0 \in Agg \cup {0} BY <1>1 DEF PortRecord
<1> HIDE DEF f, key
<1>9. CASE port' = f
  <2>1. GroupsOK' BY <1>1, <1>3, <1>6, <1>9, GroupsStay DEF Steady
  <2>2. \A q \in Listed : OwnEnd(q, port'[q])
    BY <1>1, <1>3, <1>9, SteadyLaws DEF OwnOK, Steady
  <2> QED BY <1>6, <2>1, <2>2, RunGroup
<1>10. CASE ~port[p].lacp_enabled
  <2>1. port' = alone BY <1>6, <1>10
  <2> DEFINE t == [f[p] EXCEPT !.selected = TRUE, !.standby = TRUE]
  <2>2. \A q \in Port : port'[q] = IF q = p THEN t ELSE f[q] BY <1>2, <2>1
  <2>3. Only(f[p], t, {"selected", "standby"}) BY <1>2 DEF PortRecord, Only, Field
  <2> HIDE DEF t
  <2>4. \A q \in Port : SameOwn(port[q], port'[q])
    <3>1. SameOwn(f[p], t) BY <2>3 DEF Only, Field, SameOwn
    <3>2. \A q \in Port : SameOwn(f[q], port'[q])
      BY <2>2, <3>1, SteadyLaws DEF Steady
    <3> QED BY <1>3, <3>2 DEF Steady, SameOwn
  <2>5. \A q \in Listed : OwnEnd(q, port'[q])
    BY <1>1, <2>4, SteadyLaws DEF OwnOK
  <2>6. p \in Listed => port[p].agg_id = 0 BY <1>1, <1>10 DEF OwnOK, OwnEnd
  <2>7. ASSUME NEW g \in Agg PROVE GroupOK(g)'
    <3>1. g # 0 BY AggAssumption
    <3>2. \A q \in Members(g)' : q \in Members(g) /\ q # p
      BY <1>1, <1>7, <2>4, <2>6, <3>1 DEF Members, SameOwn
    <3>3. \A q \in Members(g)' : q \in Members(g) /\ Stays(port[q], port'[q])
      BY <1>1, <1>3, <2>2, <3>2 DEF Members, Steady
    <3>4. Members(g) \subseteq Members(g)' BY <1>1, <1>7, <2>4 DEF Members, SameOwn
    <3> QED BY <1>1, <3>3, <3>4, GroupFewer DEF Remain, Settles
  <2> QED BY <1>6, <2>5, <2>7, RunGroup DEF GroupsOK
<1>11. CASE port' = upd /\ g0 # 0
  <2>1. \A q \in Port :
          /\ Only(f[q], port'[q], {"actor", "selected", "standby", "master_port"})
          /\ \A x \in DOMAIN f[q].actor \ {"key"} : port'[q].actor[x] = f[q].actor[x]
          /\ q \notin S => port'[q] = f[q]
    <3>1. \A q \in Port :
            /\ Only(f[q], upd[q], {"actor", "selected", "standby", "master_port"})
            /\ \A x \in DOMAIN f[q].actor \ {"key"} : upd[q].actor[x] = f[q].actor[x]
            /\ q \notin S => upd[q] = f[q]
      <4> HIDE DEF S
      <4> QED BY <1>2, <1>4, <1>5, UpdateAggFrame
    <3> HIDE DEF upd, S
    <3> QED BY <1>11, <3>1
  <2>2. \A q \in Port : SameOwn(f[q], port'[q])
    <3>1. \A q \in Port : f[q].actor \in Info BY <1>2 DEF PortRecord
    <3> QED BY <2>1, <3>1 DEF Only, Field, SameOwn, Info
  <2>3. \A q \in Port : SameOwn(port[q], port'[q])
    BY <1>3, <2>2 DEF Steady, SameOwn
  <2>4. \A q \in Listed : OwnEnd(q, port'[q])
    BY <1>1, <2>3, SteadyLaws DEF OwnOK
  <2>5. ASSUME NEW g \in Agg PROVE GroupOK(g)'
    <3>1. Members(g)' = Members(g) BY <1>1, <1>7, <2>3 DEF Members, SameOwn
    <3>2. CASE g = g0
      <4>1. \A q, r \in S : InUse(port'[q]) /\ InUse(port'[r])
                               => Agree(port'[q], port'[r])
        BY <1>2, <1>4, <1>5, <1>11, UpdateAggAgree
      <4> QED BY <3>1, <3>2, <4>1 DEF GroupOK
    <3>3. CASE g # g0
      <4>1. \A q \in Members(g) : q \in Port /\ q \notin S BY <1>1, <3>3 DEF Members
      <4>2. \A q \in Members(g)' : q \in Members(g) /\ Stays(port[q], port'[q])
        BY <1>3, <2>1, <3>1, <4>1 DEF Steady
      <4> QED BY <1>1, <3>1, <4>2, GroupFewer DEF Remain, Settles
    <3> QED BY <3>2, <3>3
  <2> QED BY <1>6, <2>4, <2>5, RunGroup DEF GroupsOK
<1> QED BY <1>6, <1>8, <1>9, <1>10, <1>11

\* A mux or a transmit step.
LEMMA MuxTxGroup ==
  ASSUME GroupInv, NEW p \in Port, RunMux(p) \/ RunTx(p)
  PROVE  GroupParts'
<1>1. /\ TypeInv /\ GroupsOK /\ OwnOK /\ port \in [Port -> PortRecord]
      /\ Listed \subseteq Port
  BY VarTypes DEF GroupInv, GroupParts, LiveInv, UseInv
<1>2. pc = "update" /\ UNCHANGED <<ports, sys, pc>> BY DEF RunMux, RunTx, Turn
<1>3. \E t : Steady(port[p], t) /\ port' = [port EXCEPT ![p] = t]
  <2>1. CASE RunMux(p)
    <3>1. PICK s \in MuxState : /\ MuxGoes(port[p], SysIsReady(p), s)
                                /\ port' = [port EXCEPT ![p] = MuxEnter(port[p], s)]
      BY <2>1 DEF RunMux
    <3>2. s # "BEGIN" BY <3>1 DEF MuxGoes
    <3>3. ASSUME NEW t \in PortRecord PROVE Steady(t, MuxEnter(t, s))
      <4> DEFINE u == MuxEnter(t, s)
      <4>1. /\ Only(t, u, {"mux", "ntt", "actor", "wait_while", "ready_n"})
            /\ \A x \in DOMAIN t.actor \ {"state"} : u.actor[x] = t.actor[x]
        BY <3>2, MuxFrame
      <4>2. t.actor \in Info BY DEF PortRecord
      <4> HIDE DEF u
      <4>3. Steady(t, u)
        BY <4>1, <4>2 DEF Only, Field, Steady, Stays, SameOwn, SameAggregate, Info
      <4> QED BY <4>3 DEF u
    <3> QED BY <1>1, <3>1, <3>3
  <2>2. CASE RunTx(p)
    <3>1. PICK s \in TxState :
            /\ TxGoes(port[p], s)
            /\ port' = [port EXCEPT ![p] = TxEnter(port[p], sys.slow_periodic_time,
                                                   sys.fast_periodic_time, s)]
      BY <2>2 DEF RunTx
    <3>2. s # "BEGIN" BY <3>1 DEF TxGoes
    <3>3. ASSUME NEW t \in PortRecord, NEW slow, NEW fast
          PROVE  Steady(t, TxEnter(t, slow, fast, s))
      BY <3>2, TxFrame, OnlySteady DEF Only
    <3> QED BY <1>1, <3>1, <3>3
  <2> QED BY <2>1, <2>2
<1>4. \A q \in Port : Steady(port[q], port'[q]) BY <1>1, <1>3, SteadyLaws
<1>5. GroupsOK' BY <1>1, <1>2, <1>4, GroupsStay DEF Steady
<1>6. \A q \in Listed : OwnEnd(q, port'[q])
  BY <1>1, <1>4, SteadyLaws DEF OwnOK, Steady
<1> QED BY <1>2, <1>5, <1>6, RunGroup

\* The update returns when no check fires, that of the selection included.
LEMMA UpdateReturnsGroup ==
  ASSUME GroupInv, UpdateReturns
  PROVE  GroupParts'
<1>1. TypeInv /\ GroupsOK /\ OwnOK BY DEF GroupInv, GroupParts, LiveInv, UseInv
<1>2. Quiet /\ UNCHANGED <<ports, port, sys>> BY DEF UpdateReturns
<1>3. Listed' = Listed BY <1>2 DEF Listed
<1>4. \A q \in Listed : port[q].selected
  <2>1. \A q \in Listed : ~CanHop(q, "sel") BY <1>2 DEF Quiet, MachineName
  <2> QED BY <2>1 DEF CanHop, SelGoes
<1>5. GroupsOK' BY <1>1, <1>2, SteadyLaws, GroupsStay DEF Steady
<1> QED BY <1>1, <1>2, <1>3, <1>4, <1>5 DEF GroupParts, OwnOK, SelectedOK

-----------------------------------------------------------------------------
(* The calls *)

\* A call that keeps what is selected and the local ends and enters the update.
LEMMA CallUpdateGroup ==
  ASSUME GroupInv, CallUpdate, SysPrios = {} => sys'.priority = sys.priority,
         \A q \in Port : Steady(port[q], port'[q])
  PROVE  GroupParts'
<1>1. TypeInv /\ GroupsOK /\ OwnOK /\ Listed \subseteq Port
  BY VarTypes DEF GroupInv, GroupParts, LiveInv, UseInv
<1>2. ports' = ports /\ pc' = "update" BY DEF CallUpdate, StartUpdate
<1>3. Listed' = Listed BY <1>2 DEF Listed
<1>4. GroupsOK' BY <1>1, <1>2, GroupsStay DEF Steady
<1>5. OwnOK' BY <1>1, <1>3, SteadyLaws DEF OwnOK, Steady
<1> QED BY <1>2, <1>4, <1>5 DEF GroupParts, SelectedOK

\* A call that ends at once.
LEMMA NoCallGroup ==
  ASSUME GroupInv, UNCHANGED <<ports, port, sys, pc>>
  PROVE  GroupParts'
<1>1. TypeInv /\ GroupsOK /\ OwnOK /\ SelectedOK
  BY DEF GroupInv, GroupParts, LiveInv, UseInv
<1>2. Listed' = Listed BY DEF Listed
<1>3. GroupsOK' BY <1>1, SteadyLaws, GroupsStay DEF Steady
<1> QED BY <1>1, <1>2, <1>3 DEF GroupParts, OwnOK, SelectedOK

\* The passing of a second.
LEMMA OneSecondGroup ==
  ASSUME GroupInv, OneSecond
  PROVE  GroupParts'
<1>1. port \in [Port -> PortRecord] BY VarTypes DEF GroupInv, LiveInv, UseInv
<1>2. \A t \in PortRecord : Steady(t, Ticked(t))
  BY TickedFrame, OnlySteady DEF Only
<1>3. /\ port' = [p \in Port |-> IF p \in Listed THEN Ticked(port[p]) ELSE port[p]]
      /\ CallUpdate /\ sys' = sys
  BY DEF OneSecond
<1>4. \A q \in Port : Steady(port[q], port'[q]) BY <1>1, <1>2, <1>3, SteadyLaws
<1> QED BY <1>3, <1>4, CallUpdateGroup

\* A LACPDU is stored.
LEMMA RxLacpduGroup ==
  ASSUME GroupInv, NEW p \in Port, NEW m, RxLacpdu(p, m)
  PROVE  GroupParts'
<1>1. port \in [Port -> PortRecord] BY VarTypes DEF GroupInv, LiveInv, UseInv
<1>2. \A q \in Port : Steady(port[q], port'[q])
  BY <1>1, RxLacpduFrame, OnlySteady DEF Only
<1> QED BY <1>2, CallUpdateGroup DEF RxLacpdu

\* A change of the link, with the group unselected.
LEMMA LinkChangedSteady ==
  ASSUME TypeInv, NEW p \in Port, NEW up \in BOOLEAN, NEW q \in Port
  PROVE  Steady(port[q], LinkChanged(p, up)[q])
<1> DEFINE t == WithLink(port[p], attr[p], up)
           f == [port EXCEPT ![p] = t]
<1>1. port \in [Port -> PortRecord] BY VarTypes
<1>2. t \in PortRecord BY VarTypes, WithLinkType
<1>3. /\ Only(port[p], t, {"port_enabled", "speed", "duplex", "actor"})
      /\ \A x \in DOMAIN port[p].actor \ {"state"} : t.actor[x] = port[p].actor[x]
  BY <1>1, WithLinkFrame
<1>4. LinkChanged(p, up) = Reselect(f, port[p].agg_id) BY <1>1 DEF LinkChanged
<1>5. port[p].actor \in Info BY <1>1 DEF PortRecord
<1> HIDE DEF t
<1>6. Steady(port[p], t)
  BY <1>3, <1>5 DEF Only, Field, Steady, Stays, SameOwn, SameAggregate, Info
<1>7. f \in [Port -> PortRecord] BY <1>1, <1>2, PutType
<1>8. Steady(port[q], f[q]) BY <1>1, <1>6, SteadyLaws
<1> HIDE DEF f
<1>9. Steady(f[q], LinkChanged(p, up)[q]) BY <1>4, <1>7, ReselectSteady
<1> QED BY <1>8, <1>9, SteadyLaws

\* The calls on links.
LEMMA LinkGroup ==
  ASSUME GroupInv, NEW p \in Port, NEW up \in BOOLEAN, LinkChange(p, up) \/ SetLink(p, up)
  PROVE  GroupParts'
<1>1. LinkIndication(p, up) /\ sys' = sys BY DEF LinkChange, SetLink
<1>2. CASE port' = LinkChanged(p, up) /\ CallUpdate
  <2>1. \A q \in Port : Steady(port[q], port'[q])
    BY <1>2, LinkChangedSteady DEF GroupInv, LiveInv, UseInv
  <2> QED BY <1>1, <1>2, <2>1, CallUpdateGroup
<1>3. CASE UNCHANGED <<ports, port, group, cur, pc, ret, args>>
  BY <1>1, <1>3, NoCallGroup
<1> QED BY <1>1, <1>2, <1>3 DEF LinkIndication

\* A priority is stored and the group of the port, if it has one, unselected.
LEMMA PrioSteady ==
  ASSUME TypeInv, NEW p \in Listed, NEW v \in Nat, NEW g, NEW q \in Port,
         g = port[p].agg_id, g # 0
  PROVE  Steady(port[q], Reselect(WithPrio(port, p, v), g)[q])
<1> DEFINE w == WithPrio(port, p, v)
           u == Reselect(w, g)[q]
<1>1. port \in [Port -> PortRecord] /\ p \in Port BY VarTypes
<1>2. w \in [Port -> PortRecord] BY <1>1, WithPrioType
<1>3. /\ Only(port[q], w[q], {"actor", "actor_admin"})
      /\ \A x \in DOMAIN port[q].actor \ {"port_priority"} : w[q].actor[x] = port[q].actor[x]
      /\ \A x \in DOMAIN port[q].actor_admin \ {"port_priority"} :
            w[q].actor_admin[x] = port[q].actor_admin[x]
      /\ q # p => w[q] = port[q]
  BY <1>1, WithPrioFrame
<1>4. port[q].actor \in Info /\ port[q].actor_admin \in Info BY <1>1 DEF PortRecord
<1> HIDE DEF w
<1>5. /\ Only(w[q], u, {"selected"})
      /\ (q \in Listed /\ g # 0 /\ w[q].agg_id = g) => ~u.selected
      /\ Steady(w[q], u)
  BY <1>2, ReselectFrame, ReselectSteady
<1> HIDE DEF u
<1>6. Steady(port[q], u)
  <2>1. CASE q # p BY <1>3, <1>5, <2>1
  <2>2. CASE q = p
    <3>1. SameOwn(port[q], w[q]) /\ w[q].agg_id = port[q].agg_id
      BY <1>3, <1>4 DEF Only, Field, SameOwn, Info
    <3>2. SameOwn(port[q], u) BY <1>5, <3>1 DEF Steady, SameOwn
    <3>3. ~u.selected BY <1>5, <2>2, <3>1
    <3> QED BY <3>2, <3>3 DEF Steady, Stays, SameOwn
  <2> QED BY <2>1, <2>2
<1> QED BY <1>6 DEF u, w

\* The calls that set speed, duplex mode and priority of a port.
LEMMA AttrGroup ==
  ASSUME GroupInv, NEW p \in Port, NEW v \in Nat, NEW b \in BOOLEAN,
         SetSpeed(p, v) \/ SetDuplex(p, b) \/ SetPortPrio(p, v)
  PROVE  GroupParts'
<1>1. /\ TypeInv /\ OwnOK /\ LiveInv /\ port \in [Port -> PortRecord]
  BY VarTypes DEF GroupInv, GroupParts, LiveInv, UseInv
<1>2. sys' = sys /\ pc = "idle"
  BY DEF SetSpeed, SetDuplex, SetAttr, SetPortPrio
<1>3. \/ UNCHANGED <<ports, port, group, cur, pc, ret, args>>
      \/ CallUpdate /\ port' \in {port, Reselect(port, port[p].agg_id)}
      \/ p \in Listed /\ CallUpdate
           /\ port' = Reselect(WithPrio(port, p, v), port[p].agg_id)
  BY DEF SetSpeed, SetDuplex, SetAttr, SetPortPrio
<1>4. CASE UNCHANGED <<ports, port, group, cur, pc, ret, args>>
  BY <1>2, <1>4, NoCallGroup
<1>5. CASE CallUpdate /\ port' \in {port, Reselect(port, port[p].agg_id)}
  <2>1. \A q \in Port : Steady(port[q], port'[q])
    BY <1>1, <1>5, ReselectSteady, SteadyLaws
  <2> QED BY <1>2, <1>5, <2>1, CallUpdateGroup
<1>6. CASE p \in Listed /\ CallUpdate
           /\ port' = Reselect(WithPrio(port, p, v), port[p].agg_id)
  <2>1. port[p].lacp_enabled
    BY <1>1, <1>2, <1>6 DEF LiveInv, LiveParts, MembersOK, Coming, Leaving, UseInv,
       TypeInv, CallOK
  <2>2. port[p].agg_id # 0 BY <1>1, <1>6, <2>1 DEF OwnOK, OwnEnd
  <2>3. \A q \in Port : Steady(port[q], port'[q]) BY <1>1, <1>6, <2>2, PrioSteady
  <2> QED BY <1>2, <1>6, <2>3, CallUpdateGroup
<1> QED BY <1>3, <1>4, <1>5, <1>6

\* The counters of a port are cleared.
LEMMA ClearStatGroup ==
  ASSUME GroupInv, NEW p \in Port, ClearStat(p)
  PROVE  GroupParts'
BY SteadyLaws, CallUpdateGroup DEF ClearStat

\* The calls that set what the whole system uses.
LEMMA SysGroup ==
  ASSUME GroupInv, NEW s, SysSetCfg(s), SysPrios = {} => s.priority = sys.priority
  PROVE  GroupParts'
<1> DEFINE told(t) ==
      [t EXCEPT !.actor = SetBit([@ EXCEPT !.system_priority = s.priority],
                                 "TMT", s.lacp_timeout),
                !.ntt = TRUE]
<1>1. /\ port \in [Port -> PortRecord] /\ Listed \subseteq Port /\ OwnOK /\ SettledOK
  BY VarTypes DEF GroupInv, GroupParts, LiveInv, LiveParts, UseInv
<1>2. /\ port' = [p \in Port |-> IF p \in Listed THEN told(port[p]) ELSE port[p]]
      /\ pc = "idle" /\ CallUpdate /\ sys' = s
  BY DEF SysSetCfg
<1>3. ASSUME NEW t \in PortRecord, SysPrios = {} => t.actor.system_priority = s.priority
      PROVE  Steady(t, told(t))
  <2>1. Only(t, told(t), {"actor", "ntt"})
    <3> DEFINE a == SetBit([t.actor EXCEPT !.system_priority = s.priority],
                           "TMT", s.lacp_timeout)
    <3>1. told(t) = [t EXCEPT !.actor = a, !.ntt = TRUE] BY DEF PortRecord
    <3> HIDE DEF a, told
    <3> QED BY <3>1 DEF PortRecord, Only, Field
  <2>2. \A x \in DOMAIN t.actor \ {"state", "system_priority"} :
           told(t).actor[x] = t.actor[x]
    BY DEF SetBit, PortRecord, Info
  <2>3. told(t).actor.system_priority = s.priority BY DEF SetBit, PortRecord, Info
  <2>4. t.actor \in Info BY DEF PortRecord
  <2> DEFINE u == told(t)
             pr == s.priority
  <2>5. /\ Only(t, u, {"actor", "ntt"}) /\ u.actor.system_priority = pr
        /\ \A x \in DOMAIN t.actor \ {"state", "system_priority"} : u.actor[x] = t.actor[x]
        /\ SysPrios = {} => t.actor.system_priority = pr
    BY <1>3, <2>1, <2>2, <2>3
  <2> HIDE DEF u, pr
  <2>6. Steady(t, u)
    BY <2>4, <2>5 DEF Only, Field, Steady, Stays, SameOwn, SameAggregate, Info
  <2> QED BY <2>6 DEF u
<1> HIDE DEF told
<1>4. ASSUME NEW q \in Port PROVE Steady(port[q], port'[q])
  <2>1. CASE q \in Listed
    <3>1. port[q].rx # "BEGIN"
      <4>1. ~RxGoes(port[q], "INITIALIZE") BY <1>1, <1>2, <2>1 DEF SettledOK, Settled, RxState
      <4> QED BY <4>1 DEF RxGoes, LinkLost
    <3>2. SysPrios = {} => port[q].actor.system_priority = s.priority
      BY <1>1, <2>1, <3>1 DEF OwnOK, OwnEnd
    <3> QED BY <1>1, <1>2, <1>3, <2>1, <3>2
  <2>2. CASE q \notin Listed BY <1>2, <2>2, SteadyLaws
  <2> QED BY <2>1, <2>2
<1> QED BY <1>2, <1>4, CallUpdateGroup

-----------------------------------------------------------------------------
(* trunk_port_lacp_enable *)

\* The port is created; it has no group yet.
LEMMA EnableGroup ==
  ASSUME GroupInv, NEW p \in Port, NEW g \in Agg, Enable(p, g)
  PROVE  GroupParts'
<1>1. /\ TypeInv /\ PortsOK /\ GroupsOK /\ OwnOK /\ ports \in Seq(Port)
      /\ port \in [Port -> PortRecord] /\ Listed \subseteq Port /\ sys \in Sys
  BY VarTypes DEF GroupInv, GroupParts, LiveInv, LiveParts, UseInv
<1>2. pc' = "update" /\ sys' = sys BY DEF Enable, StartUpdate
<1>3. SelectedOK' BY <1>2 DEF SelectedOK
<1>4. CASE Creates(p)
  <2>1. PICK mac \in OwnMac : /\ ports' = <<p>> \o ports
                              /\ port' = [port EXCEPT ![p] = FreshPort(p, mac)]
    BY <1>4 DEF Enable
  <2> DEFINE t == FreshPort(p, mac)
  <2>2. Listed' = Listed \cup {p} /\ p \notin Listed
    BY <1>1, <1>4, <2>1, PrependList DEF PortsOK, Creates, Listed
  <2>3. \A q \in Port : port'[q] = IF q = p THEN t ELSE port[q] BY <1>1, <2>1
  <2>4. /\ t.rx = "BEGIN" /\ t.agg_id = 0 /\ t.lacp_enabled = FALSE
        /\ t.actor_admin = ActorInit(p, mac, sys.priority, sys.lacp_timeout)
    BY DEF FreshPort, ZeroPort
  <2>5. t.actor_admin.port_no = p + 1 /\ t.actor_admin.system_priority = sys.priority
    BY <2>4 DEF ActorInit
  <2> HIDE DEF t
  <2>6. OwnEnd(p, t) BY <1>1, <2>4, <2>5 DEF OwnEnd, OwnOK
  <2>7. OwnOK' BY <1>1, <1>2, <2>2, <2>3, <2>6 DEF OwnOK
  <2>8. ASSUME NEW h \in Agg PROVE GroupOK(h)'
    <3>1. h # 0 BY AggAssumption
    <3>2. \A q \in Members(h)' : q \in Members(h) /\ q # p
      BY <1>1, <2>2, <2>3, <2>4, <3>1 DEF Members
    <3>3. Members(h) \subseteq Members(h)' BY <1>1, <2>2, <2>3 DEF Members
    <3>4. \A q \in Members(h)' : q \in Members(h) /\ Stays(port[q], port'[q])
      BY <1>1, <2>3, <3>2, SteadyLaws DEF Members, Steady
    <3> QED BY <1>1, <3>3, <3>4, GroupFewer DEF Remain, Settles
  <2> QED BY <1>3, <2>7, <2>8 DEF GroupParts, GroupsOK
<1>5. CASE ~Creates(p)
  <2>1. ports' = ports /\ port' = port BY <1>5 DEF Enable
  <2>2. GroupsOK' BY <1>1, <2>1, SteadyLaws, GroupsStay DEF Steady
  <2>3. Listed' = Listed BY <2>1 DEF Listed
  <2> QED BY <1>1, <1>2, <1>3, <2>1, <2>2, <2>3 DEF GroupParts, OwnOK
<1> QED BY <1>4, <1>5

\* The port joins its group, all of which is unselected; a group that it leaves has
\* one port less.
LEMMA EnableCfgGroup ==
  ASSUME GroupInv, EnableCfg
  PROVE  GroupParts'
<1> DEFINE p == args.port
           g == args.agg
           prio == IF attr[p].prio = NoPrio THEN Default_port_priority ELSE attr[p].prio
           f == [port EXCEPT ![p].actor_admin = SetBit(@, "AGG", TRUE),
                             ![p].actor = SetBit(@, "AGG", TRUE),
                             ![p].agg_id = g,
                             ![p].lacp_enabled = TRUE]
           i == SetBit(port[p].actor_admin, "AGG", TRUE)
           a == SetBit(port[p].actor, "AGG", TRUE)
           t == [port[p] EXCEPT !.actor_admin = i, !.actor = a, !.agg_id = g,
                                !.lacp_enabled = TRUE]
           w == WithPrio(f, p, prio)
<1>1. /\ TypeInv /\ GroupsOK /\ OwnOK /\ SelectedOK /\ port \in [Port -> PortRecord]
      /\ Listed \subseteq Port
  BY VarTypes DEF GroupInv, GroupParts, LiveInv, UseInv
<1>2. p \in Port /\ g \in Agg BY <1>1 DEF EnableCfg, TypeInv, CallOK
<1>3. pc = "enable_cfg" /\ pc' = "update" /\ UNCHANGED <<ports, sys>>
  BY DEF EnableCfg, StartUpdate
<1>4. prio \in Nat BY <1>1, <1>2, VarTypes DEF Attr, NoPrio, Default_port_priority
<1>5. port' = IF p \in Listed THEN Reselect(w, g) ELSE port BY DEF EnableCfg
<1>6. f = [port EXCEPT ![p] = t]
  <2>1. port[p] \in PortRecord /\ DOMAIN port = Port BY <1>1, <1>2
  <2> HIDE DEF p, g
  <2> QED BY <1>2, <2>1 DEF PortRecord
<1>7. /\ i \in Info /\ a \in Info
      /\ \A x \in DOMAIN i \ {"state"} : i[x] = port[p].actor_admin[x]
      /\ \A x \in DOMAIN a \ {"state"} : a[x] = port[p].actor[x]
  <2>1. port[p].actor \in Info /\ port[p].actor_admin \in Info BY <1>1, <1>2 DEF PortRecord
  <2>2. "AGG" \in StateBit BY DEF StateBit
  <2>3. DOMAIN i = DOMAIN port[p].actor_admin /\ DOMAIN a = DOMAIN port[p].actor
    BY DEF SetBit
  <2> QED BY <2>1, <2>2, <2>3, SetBitFrame
<1>8. port[p] \in PortRecord BY <1>1, <1>2
<1> HIDE DEF f, prio, i, a, g, p
<1>9. /\ t \in PortRecord /\ t.agg_id = g /\ t.lacp_enabled /\ t.rx = port[p].rx
      /\ t.actor_admin = i /\ t.actor = a
  BY <1>2, <1>7, <1>8 DEF PortRecord
<1> HIDE DEF t
<1>10. f \in [Port -> PortRecord] /\ \A q \in Port : f[q] = IF q = p THEN t ELSE port[q]
  BY <1>1, <1>6, <1>9
<1>11. w \in [Port -> PortRecord] BY <1>2, <1>4, <1>10, WithPrioType
<1>12. \A q \in Port : q # p => w[q] = port[q] BY <1>2, <1>10, WithPrioFrame
<1>13. /\ Only(t, w[p], {"actor", "actor_admin"})
       /\ \A x \in DOMAIN a \ {"port_priority"} : w[p].actor[x] = a[x]
       /\ \A x \in DOMAIN i \ {"port_priority"} : w[p].actor_admin[x] = i[x]
  BY <1>2, <1>9, <1>10, WithPrioFrame
<1> HIDE DEF w
<1>14. g # 0 BY <1>2, AggAssumption
<1>15. OwnEnd(p, port[p]) => OwnEnd(p, w[p])
  BY <1>7, <1>8, <1>9, <1>13, <1>14 DEF OwnEnd, Only, Field, Info, PortRecord
<1>16. SelectedOK' BY <1>3 DEF SelectedOK
<1>17. Listed' = Listed BY <1>3 DEF Listed
<1>18. CASE p \notin Listed
  <2>1. port' = port BY <1>5, <1>18
  <2>2. GroupsOK' BY <1>1, <1>3, <2>1, SteadyLaws, GroupsStay DEF Steady
  <2> QED BY <1>1, <1>3, <1>16, <1>17, <2>1, <2>2 DEF GroupParts, OwnOK
<1>19. CASE p \in Listed
  <2>1. \A q \in Port : Steady(w[q], port'[q]) BY <1>5, <1>11, <1>19, ReselectSteady
  <2>2. \A q \in Listed : OwnEnd(q, w[q]) BY <1>1, <1>12, <1>15 DEF OwnOK
  <2>3. \A q \in Listed : OwnEnd(q, port'[q])
    BY <1>1, <2>1, <2>2, SteadyLaws DEF Steady
  <2>4. OwnOK' BY <1>1, <1>3, <1>17, <2>3 DEF OwnOK
  <2>5. w[p].agg_id = g BY <1>9, <1>13 DEF Only, Field
  <2>6. port'[p].agg_id = g /\ ~port'[p].selected
    BY <1>2, <1>5, <1>11, <1>14, <1>19, <2>1, <2>5, ReselectFrame DEF Steady, Stays
  <2>7. ASSUME NEW h \in Agg PROVE GroupOK(h)'
    <3>1. CASE h = g
      <4>1. p \in Members(h)' BY <1>17, <1>19, <2>6, <3>1 DEF Members
      <4> QED BY <2>6, <4>1 DEF GroupOK
    <3>2. CASE h # g
      <4>1. \A q \in Members(h)' : q \in Port /\ q # p BY <1>1, <1>17, <2>6, <3>2 DEF Members
      <4>2. \A q \in Members(h)' : Stays(port[q], port'[q])
        BY <1>12, <2>1, <4>1 DEF Steady
      <4>3. \A q \in Members(h)' : q \in Members(h)
        BY <1>17, <4>2 DEF Members, Stays
      <4>4. \A q \in Members(h) : port[q].selected
        BY <1>1, <1>3 DEF SelectedOK, Members
      <4> QED BY <1>1, <4>2, <4>3, <4>4, GroupFewer DEF Remain, Settles
    <3> QED BY <3>1, <3>2
  <2> QED BY <1>16, <2>4, <2>7 DEF GroupParts, GroupsOK
<1> QED BY <1>18, <1>19

\* The port hears of its link, or the call ends with nothing to do.
LEMMA EnableLinkGroup ==
  ASSUME GroupInv, EnableLink
  PROVE  GroupParts'
<1> DEFINE p == args.port
           up == attr[p].link_status
<1>1. /\ TypeInv /\ GroupsOK /\ OwnOK /\ SelectedOK /\ attr \in [Port -> Attr]
      /\ Listed \subseteq Port
  BY VarTypes DEF GroupInv, GroupParts, LiveInv, UseInv
<1>2. /\ pc = "enable_link" /\ UNCHANGED <<ports, sys>>
      /\ pc' \in {"idle", "update", "gone"}
      /\ \/ port' = port
         \/ p \in Listed /\ port' = LinkChanged(p, up) /\ pc' = "update"
  BY DEF EnableLink, StartUpdate
<1>3. Listed' = Listed BY <1>2 DEF Listed
<1>4. p \in Listed => p \in Port /\ up \in BOOLEAN BY <1>1 DEF Attr
<1>5. \A q \in Port : Steady(port[q], port'[q])
  BY <1>1, <1>2, <1>4, LinkChangedSteady, SteadyLaws
<1>6. GroupsOK' BY <1>1, <1>2, <1>5, GroupsStay DEF Steady
<1>7. OwnOK' BY <1>1, <1>2, <1>3, <1>5, SteadyLaws DEF OwnOK, Steady
<1>8. SelectedOK' BY <1>1, <1>2, <1>3 DEF SelectedOK
<1> QED BY <1>6, <1>7, <1>8 DEF GroupParts

-----------------------------------------------------------------------------
(* trunk_port_lacp_disable_batch *)

\* The batch is noted, the loop goes to its last update, and the call ends.
LEMMA DisableBatchGroup ==
  ASSUME GroupInv, (\E S : StartDisable(S)) \/ DisableUpdate \/ RemoveReturns
  PROVE  GroupParts'
<1>1. TypeInv /\ GroupsOK /\ OwnOK /\ SelectedOK
  BY DEF GroupInv, GroupParts, LiveInv, UseInv
<1>2. /\ UNCHANGED <<ports, port, sys>>
      /\ pc' \in {"disable_loop", "update"} \/ (pc = "remove" /\ pc' = "idle")
  BY DEF StartDisable, DisableUpdate, RemoveReturns, StartUpdate
<1>3. Listed' = Listed BY <1>2 DEF Listed
<1>4. GroupsOK' BY <1>1, <1>2, SteadyLaws, GroupsStay DEF Steady
<1>5. SelectedOK' BY <1>1, <1>2, <1>3 DEF SelectedOK
<1> QED BY <1>1, <1>2, <1>3, <1>4, <1>5 DEF GroupParts, OwnOK

\* A port of the batch gives up aggregation.
LEMMA DisableNotifyGroup ==
  ASSUME GroupInv, NEW p \in Port, DisableNotify(p)
  PROVE  GroupParts'
<1> DEFINE i == SetBit(port[p].actor_admin, "AGG", FALSE)
           a == SetBit(port[p].actor, "AGG", FALSE)
           t == [port[p] EXCEPT !.ntt = TRUE, !.actor_admin = i, !.actor = a]
<1>1. /\ TypeInv /\ GroupsOK /\ OwnOK /\ port \in [Port -> PortRecord]
      /\ Listed \subseteq Port
  BY VarTypes DEF GroupInv, GroupParts, LiveInv, UseInv
<1>2. port' = [port EXCEPT ![p] = t] BY <1>1 DEF DisableNotify, PortRecord
<1>3. pc' = "update" /\ UNCHANGED <<ports, sys>> BY DEF DisableNotify, StartUpdate
<1>4. /\ port[p].actor \in Info /\ port[p].actor_admin \in Info
      /\ \A x \in DOMAIN port[p].actor_admin \ {"state"} : i[x] = port[p].actor_admin[x]
      /\ \A x \in DOMAIN port[p].actor \ {"state"} : a[x] = port[p].actor[x]
  <2>1. port[p].actor \in Info /\ port[p].actor_admin \in Info BY <1>1 DEF PortRecord
  <2>2. "AGG" \in StateBit BY DEF StateBit
  <2> QED BY <2>1, <2>2, SetBitFrame
<1> HIDE DEF i, a
<1>5. Only(port[p], t, {"ntt", "actor_admin", "actor"}) /\ t.actor = a /\ t.actor_admin = i
  <2>1. port[p] \in PortRecord BY <1>1
  <2> QED BY <2>1 DEF PortRecord, Only, Field
<1> HIDE DEF t
<1>6. Steady(port[p], t)
  BY <1>4, <1>5 DEF Only, Field, Steady, Stays, SameOwn, SameAggregate, Info
<1>7. \A q \in Port : Steady(port[q], port'[q]) BY <1>1, <1>2, <1>6, SteadyLaws
<1>8. Listed' = Listed BY <1>3 DEF Listed
<1>9. GroupsOK' BY <1>1, <1>3, <1>7, GroupsStay DEF Steady
<1>10. OwnOK' BY <1>1, <1>3, <1>7, <1>8, SteadyLaws DEF OwnOK, Steady
<1>11. SelectedOK' BY <1>3 DEF SelectedOK
<1> QED BY <1>9, <1>10, <1>11 DEF GroupParts

\* The port leaves its group, which is unselected.
LEMMA DisableLeaveGroup ==
  ASSUME GroupInv, DisableLeave
  PROVE  GroupParts'
<1> DEFINE p == args.port
           f == Reselect(port, port[p].agg_id)
           t == [f[p] EXCEPT !.agg_id = 0, !.lacp_enabled = FALSE]
<1>1. /\ TypeInv /\ GroupsOK /\ OwnOK /\ SelectedOK /\ port \in [Port -> PortRecord]
      /\ Listed \subseteq Port
  BY VarTypes DEF GroupInv, GroupParts, LiveInv, UseInv
<1>2. /\ pc = "disable_port" /\ pc' = "disable_loop" /\ UNCHANGED <<ports, sys>>
      /\ port' = [f EXCEPT ![p].agg_id = 0, ![p].lacp_enabled = FALSE]
  BY DEF DisableLeave
<1>3. f \in [Port -> PortRecord] BY <1>1, ReselectType
<1>4. \A q \in Port : Steady(port[q], f[q]) BY <1>1, ReselectSteady
<1> HIDE DEF f, p
<1>5. port' = [f EXCEPT ![p] = t] BY <1>2, <1>3
<1>6. p \in Port => /\ t.agg_id = 0 /\ ~t.lacp_enabled
                    /\ Only(f[p], t, {"agg_id", "lacp_enabled"})
  <2>1. p \in Port => f[p] \in PortRecord BY <1>3
  <2> QED BY <2>1 DEF PortRecord, Only, Field
<1> HIDE DEF t
<1>7. \A q \in Port : port'[q] = IF q = p THEN t ELSE f[q] BY <1>3, <1>5
<1>8. Listed' = Listed BY <1>2 DEF Listed
<1>9. \A q \in Listed : OwnEnd(q, f[q]) BY <1>1, <1>4, SteadyLaws DEF OwnOK, Steady
<1>10. ASSUME NEW q \in Listed PROVE OwnEnd(q, port'[q])
  <2>1. OwnEnd(q, f[q]) BY <1>9
  <2>2. CASE q # p BY <1>1, <1>7, <2>1, <2>2
  <2>3. CASE q = p
    <3>1. port'[q] = t BY <1>1, <1>7, <2>3
    <3> QED BY <1>1, <1>6, <2>1, <2>3, <3>1 DEF OwnEnd, Only, Field
  <2> QED BY <2>2, <2>3
<1>11. OwnOK' BY <1>1, <1>2, <1>8, <1>10 DEF OwnOK
<1>12. ASSUME NEW h \in Agg PROVE GroupOK(h)'
  <2>1. h # 0 BY AggAssumption
  <2>2. \A q \in Members(h)' : q \in Port /\ q # p
    BY <1>1, <1>6, <1>7, <1>8, <2>1 DEF Members
  <2>3. \A q \in Members(h)' : Stays(port[q], port'[q]) BY <1>4, <1>7, <2>2 DEF Steady
  <2>4. \A q \in Members(h)' : q \in Members(h) BY <1>8, <2>3 DEF Members, Stays
  <2>5. \A q \in Members(h) : port[q].selected BY <1>1, <1>2 DEF SelectedOK, Members
  <2> QED BY <1>1, <2>3, <2>4, <2>5, GroupFewer DEF Remain, Settles
<1>13. SelectedOK' BY <1>2 DEF SelectedOK
<1> QED BY <1>11, <1>12, <1>13 DEF GroupParts, GroupsOK

\* A port is unlinked and freed.
LEMMA RemovePortGroup ==
  ASSUME GroupInv, NEW p \in Port, RemovePort(p)
  PROVE  GroupParts'
<1>1. /\ TypeInv /\ PortsOK /\ GroupsOK /\ OwnOK /\ SelectedOK
      /\ port \in [Port -> PortRecord] /\ Listed \subseteq Port /\ ports \in Seq(Port)
  BY VarTypes DEF GroupInv, GroupParts, LiveInv, LiveParts, UseInv
<1>2. /\ pc = "remove" /\ UNCHANGED <<sys, pc>>
      /\ port' = [port EXCEPT ![p] = ZeroPort(p)]
  BY DEF RemovePort
<1>3. PICK i \in DOMAIN ports : ports[i] = p /\ ports' = RemoveAt(ports, i)
  BY DEF RemovePort
<1>4. Listed' \subseteq Listed \ {p} BY <1>1, <1>3, RemoveList DEF PortsOK, Listed
<1>5. \A q \in Listed' : q \in Listed /\ port'[q] = port[q] BY <1>1, <1>2, <1>4
<1>6. ASSUME NEW h \in Agg PROVE GroupOK(h)'
  <2>1. \A q \in Members(h)' : q \in Members(h) /\ Stays(port[q], port'[q])
    BY <1>5, SteadyLaws DEF Members, Steady
  <2>2. \A q \in Members(h) : port[q].selected BY <1>1, <1>2 DEF SelectedOK, Members
  <2> QED BY <1>1, <2>1, <2>2, GroupFewer DEF Remain, Settles
<1>7. OwnOK' BY <1>1, <1>2, <1>5 DEF OwnOK
<1>8. SelectedOK' BY <1>1, <1>2, <1>5 DEF SelectedOK
<1> QED BY <1>6, <1>7, <1>8 DEF GroupParts, GroupsOK

-----------------------------------------------------------------------------
\* The initial state: an empty list.
LEMMA InitGroup == Init => GroupInv
<1> SUFFICES ASSUME Init PROVE GroupParts BY InitLive DEF GroupInv
<1>1. ports = <<>> /\ sys = BootSys BY DEF Init
<1>2. Listed = {} BY <1>1 DEF Listed, Range
<1>3. sys.priority = Default_system_priority BY <1>1 DEF BootSys
<1> QED BY <1>2, <1>3 DEF GroupParts, GroupsOK, GroupOK, Members, OwnOK, SelectedOK

\* The invariant is kept by every step.
LEMMA GroupStep == GroupInv /\ [Next]_vars => GroupInv'
<1> SUFFICES ASSUME GroupInv, [Next]_vars PROVE GroupParts'
  BY LiveStep DEF GroupInv
<1>1. CASE UNCHANGED vars
  BY <1>1, NoCallGroup DEF vars
<1>2. CASE Update
  BY <1>2, RunRxGroup, RunSelGroup, MuxTxGroup, UpdateReturnsGroup DEF Update, Run
<1>3. CASE Continue
  BY <1>3, EnableCfgGroup, EnableLinkGroup, DisableBatchGroup, DisableNotifyGroup,
     DisableLeaveGroup, RemovePortGroup DEF Continue
<1>4. CASE OneSecond BY <1>4, OneSecondGroup
<1>5. CASE Command
  <2>1. ASSUME NEW p \in Port, NEW a \in Remote, NEW v \in Views(p),
               RxLacpdu(p, [rcvd |-> TRUE, actor |-> a, partner |-> v])
        PROVE  GroupParts'
    BY <2>1, RxLacpduGroup
  <2>2. ASSUME NEW p \in Port, NEW up \in BOOLEAN, LinkChange(p, up) \/ SetLink(p, up)
        PROVE  GroupParts'
    BY <2>2, LinkGroup
  <2>3. ASSUME NEW p \in Port, NEW v \in Nat, NEW b \in BOOLEAN,
               SetSpeed(p, v) \/ SetDuplex(p, b) \/ SetPortPrio(p, v)
        PROVE  GroupParts'
    BY <2>3, AttrGroup
  <2>4. ASSUME NEW S, StartDisable(S) PROVE GroupParts'
    BY <2>4, DisableBatchGroup
  <2>5. CASE \E p \in Port :
               \/ \E a \in Remote, v \in Views(p) :
                     RxLacpdu(p, [rcvd |-> TRUE, actor |-> a, partner |-> v])
               \/ \E up \in IpcLinks : LinkChange(p, up)
               \/ \E up \in CliLinks : SetLink(p, up)
               \/ \E v \in Speeds : SetSpeed(p, v)
               \/ \E v \in Duplexes : SetDuplex(p, v)
               \/ \E v \in PortPrios : SetPortPrio(p, v)
               \/ \E g \in Agg : Enable(p, g)
               \/ Disable(p)
               \/ ClearStat(p)
    BY <2>1, <2>2, <2>3, <2>4, <2>5, CommandAssumption, EnableGroup,
       ClearStatGroup DEF Disable
  <2>6. CASE \E v \in SysPrios : SetSysPrio(v)
    BY <2>6, SysGroup DEF SetSysPrio
  <2>7. CASE \/ \E v \in Timeouts : SetPeriod(v)
             \/ \E v \in LongPeriods : SetLongPeriod(v)
             \/ \E v \in ShortPeriods : SetShortPeriod(v)
    <3>1. sys \in Sys BY VarTypes DEF GroupInv, LiveInv, UseInv
    <3>2. "priority" \in DOMAIN sys BY <3>1 DEF Sys
    <3>3. ASSUME NEW v, SetPeriod(v) PROVE GroupParts'
      <4> DEFINE s == [sys EXCEPT !.lacp_timeout = v]
      <4>1. SysSetCfg(s) BY <3>3 DEF SetPeriod
      <4>2. s.priority = sys.priority BY <3>2
      <4> HIDE DEF s
      <4> QED BY <4>1, <4>2, SysGroup
    <3>4. ASSUME NEW v, SetLongPeriod(v) PROVE GroupParts'
      <4> DEFINE s == [sys EXCEPT !.slow_periodic_time = Low16(v)]
      <4>1. SysSetCfg(s) BY <3>4 DEF SetLongPeriod
      <4>2. s.priority = sys.priority BY <3>2
      <4> HIDE DEF s
      <4> QED BY <4>1, <4>2, SysGroup
    <3>5. ASSUME NEW v, SetShortPeriod(v) PROVE GroupParts'
      <4> DEFINE s == [sys EXCEPT !.fast_periodic_time = Low16(v)]
      <4>1. SysSetCfg(s) BY <3>5 DEF SetShortPeriod
      <4>2. s.priority = sys.priority BY <3>2
      <4> HIDE DEF s
      <4> QED BY <4>1, <4>2, SysGroup
    <3> QED BY <2>7, <3>3, <3>4, <3>5
  <2> QED BY <1>5, <2>4, <2>5, <2>6, <2>7 DEF Command, DeleteAgg
<1> QED BY <1>1, <1>2, <1>3, <1>4, <1>5 DEF Next

\* Between calls a port that carries traffic is in use and every port is selected.
LEMMA GroupIsSettled ==
  ASSUME GroupInv, Idle, NEW p \in Listed, NEW q \in Listed,
         port[p].agg_id = port[q].agg_id, attr[p].cd, attr[q].cd
  PROVE  /\ port[p].agg_id \in Agg
         /\ port[p].rx = "CURRENT" /\ port[q].rx = "CURRENT"
         /\ Agree(port[p], port[q]) /\ Agree(port[q], port[p])
<1>1. /\ TypeInv /\ MembersOK /\ GroupsOK /\ OwnOK /\ SelectedOK
      /\ LiveInv /\ port \in [Port -> PortRecord] /\ Listed \subseteq Port
  BY VarTypes DEF GroupInv, GroupParts, LiveInv, LiveParts, UseInv
<1>2. /\ InUse(port[p]) /\ InUse(port[q])
      /\ port[p].rx = "CURRENT" /\ port[q].rx = "CURRENT"
  BY <1>1, LiveIsTraffic DEF TrafficNeedsLivePartner
<1>3. port[p].lacp_enabled
  BY <1>1 DEF Idle, TypeInv, CallOK, MembersOK, Coming, Leaving
<1>4. port[p].agg_id \in Agg BY <1>1, <1>3 DEF OwnOK, OwnEnd, PortRecord
<1>5. \A r \in Listed : port[r].selected BY <1>1 DEF SelectedOK, Idle
<1> QED BY <1>1, <1>2, <1>4, <1>5 DEF GroupsOK, GroupOK, Members

\* Between calls all ports of a group that carry traffic lead to one neighbour, under
\* one key of it: update_agg_ports_select compared each of them with the master, and a
\* change of partner, key or group makes lacp_sys_update select again.
THEOREM OnePartner == Spec => []OnePartnerPerGroup
<1>1. Spec => []GroupInv BY InitGroup, GroupStep, PTL DEF Spec
<1>2. GroupInv => OnePartnerPerGroup
  BY GroupIsSettled DEF OnePartnerPerGroup, Agree
<1> QED BY <1>1, <1>2, PTL

\* As long as nobody sets the system priority, two ports of a group that are wired to
\* each other never both carry traffic: whichever has the worse identifier is found
\* by partners_aport, because no two ports have the same number.  The priority is a
\* part of that comparison and setting it does not make the group select again.
THEOREM LoopIsFound ==
  ASSUME SysPrios = {}
  PROVE  Spec => []LoopIsBroken
<1>1. Spec => []GroupInv BY InitGroup, GroupStep, PTL DEF Spec
<1>2. GroupInv => LoopIsBroken
  <2> SUFFICES ASSUME GroupInv, Idle, NEW g \in Agg, NEW p \in Members(g),
                      NEW q \in Members(g), p # q,
                      Names(port[p].partner, port[q].actor),
                      Names(port[q].partner, port[p].actor),
                      attr[p].cd, attr[q].cd
               PROVE  FALSE
    BY DEF LoopIsBroken
  <2>1. /\ p \in Listed /\ q \in Listed /\ port[p].agg_id = port[q].agg_id
        /\ OwnOK /\ port \in [Port -> PortRecord] /\ Listed \subseteq Port
    BY VarTypes DEF Members, GroupInv, GroupParts, LiveInv, UseInv
  <2>2. /\ port[p].rx = "CURRENT" /\ port[q].rx = "CURRENT"
        /\ Agree(port[p], port[q]) /\ Agree(port[q], port[p])
    BY <2>1, GroupIsSettled
  <2>3. port[p].actor.port_no = p + 1 /\ port[q].actor.port_no = q + 1
    BY <2>1, <2>2 DEF OwnOK, OwnEnd
  <2>4. port[p].actor.port_priority \in Int /\ port[q].actor.port_priority \in Int
    BY <2>1 DEF PortRecord, Info, Word
  <2>5. ~Precedes(port[p], port[q]) /\ ~Precedes(port[q], port[p])
    BY <2>2 DEF Agree
  <2>6. p \in Int /\ q \in Int BY <2>1, PortAssumption
  <2> QED BY <2>3, <2>4, <2>5, <2>6 DEF Precedes
<1> QED BY <1>1, <1>2, PTL
=============================================================================
