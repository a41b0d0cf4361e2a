---------------------------- MODULE LacpChipProofs ----------------------------
(***************************************************************************)
(* What the switch chip does is what the port list says, for every set of    *)
(* ports, groups, partners and values of the commands: the group table       *)
(* names the ports of the list, a port outside the protocol is an ordinary    *)
(* port, and trunk id and traffic of a port follow its mux machine.  Then,     *)
(* that a port attaches only when no port of its group waits.  The last part  *)
(* is what the two bridges of Bridges need of one of them: what its ports     *)
(* say, what they make of what they hear, and that no step takes that back.   *)
(***************************************************************************)
EXTENDS LacpSafetyProofs

-----------------------------------------------------------------------------
(* The invariant *)

MuxBit == {"SYN", "COL", "DIS"}
Bare(i) == \A b \in MuxBit : ~Bit(i, b)
Attached(t) == t.mux \in {"ATTACHED", "RX_TX"}

\* A port in use has its link, one that starts or has moved is not attached, and a
\* LACPDU waits only where the receive machine takes it to CURRENT.
LinkSays(t) ==
    /\ InUse(t) => t.port_enabled
    /\ t.rx = "BEGIN" \/ t.port_moved => ~t.port_enabled /\ ~Attached(t)
    /\ t.msg.rcvd => /\ t.rx \in {"EXPIRED", "DEFAULTED", "CURRENT"}
                     /\ t.rx = "EXPIRED" => t.current_while # 0
                     /\ t.rx = "DEFAULTED" => ~Attached(t)

\* The state octet follows the mux machine, but for SYN, which defaulting takes back.
ActorSays(t) ==
    /\ Bare(t.actor_admin)
    /\ t.mux \in {"DETACHED", "WAITING", "READY_N"} => Bare(t.actor)
    /\ t.mux = "ATTACHED" => ~Bit(t.actor, "COL") /\ ~Bit(t.actor, "DIS")
    /\ t.mux = "RX_TX" => Bit(t.actor, "COL") /\ Bit(t.actor, "DIS")
    /\ Attached(t) => Bit(t.actor, "SYN") \/ (t.rx = "DEFAULTED" /\ t.port_enabled)

\* So does the chip.
MuxSays(a, t) ==
    /\ a.cd <=> t.mux \in {"BEGIN", "DISABLE", "RX_TX"}
    /\ ~Attached(t) => a.tid = 0
    /\ ~MayReEnable /\ Attached(t) /\ t.lacp_enabled => a.tid = t.agg_id

RecordSays(a, t) == LinkSays(t) /\ ActorSays(t) /\ MuxSays(a, t)
RecordsOK == \A p \in Listed : RecordSays(attr[p], port[p])

FreeOK == \A p \in Port \ Listed : attr[p].tid = 0 /\ attr[p].cd

\* lacp_change_state loops on a machine of a port of the list.
CurOK == cur # NoMachine => pc = "update" /\ cur[1] \in Listed

\* A port of the batch is still to be visited, is being visited, or has left.
Disabling == {"disable_loop", "disable_port", "remove"} \cap {pc, ret} # {}
LeftOK ==
    /\ ~Disabling => args.batch = {}
    /\ "remove" \in {pc, ret} => args.todo = {}
    /\ \A p \in args.batch \cap Listed :
          \/ p \in args.todo
          \/ "disable_port" \in {pc, ret} /\ p = args.port
          \/ ~port[p].lacp_enabled

\* A new port has been through its first update when it is configured.
RestOK == pc = "enable_cfg" => \A p \in Listed : Settled(port[p])

\* The group table names the ports of the list that nobody is taking out of it.
InTable(p, g) == p \in Listed /\ port[p].agg_id = g /\ p \notin args.batch
TableOK ==
    /\ \A p \in Listed : p < LacpPortMax
    /\ ~MayReEnable =>
          /\ \A p \in Port, g \in Agg :
                p < LacpPortMax => (p \in group[g] <=> InTable(p, g))
          /\ "enable_cfg" \in {pc, ret} =>
                /\ args.port \in Listed => ~port[args.port].lacp_enabled
                /\ args.port \notin Listed => args.port >= LacpPortMax

ChipParts == RecordsOK /\ FreeOK /\ CurOK /\ LeftOK /\ RestOK /\ TableOK

ChipInv == GroupInv /\ ChipParts

\* What ChipInv says of the variables, to cite at once.
LEMMA ChipFacts ==
  ASSUME ChipInv
  PROVE  /\ TypeInv /\ CallOK /\ PortsOK /\ MembersOK /\ SettledOK /\ OwnOK /\ SelectedOK
         /\ RecordsOK /\ FreeOK /\ CurOK /\ LeftOK /\ RestOK /\ TableOK
         /\ port \in [Port -> PortRecord] /\ attr \in [Port -> Attr]
         /\ ports \in Seq(Port) /\ Listed \subseteq Port
         /\ group \in [Agg -> SUBSET Port]
         /\ \A p \in Port : Usable(port[p])
BY VarTypes DEF ChipInv, ChipParts, GroupInv, GroupParts, LiveInv, LiveParts, UseInv,
   InUseIsAggregatable, Usable, TypeInv

-----------------------------------------------------------------------------
(* Steps that change nothing of a port that the argument reads *)

SameBits(i, j) == \A b \in MuxBit : Bit(i, b) <=> Bit(j, b)

\* u says of the link, the machines and the message what t says.
Calm(t, u) ==
    /\ u.rx = t.rx /\ u.mux = t.mux /\ u.msg = t.msg
    /\ u.port_moved = t.port_moved /\ u.port_enabled = t.port_enabled
    /\ u.msg.rcvd => u.current_while = t.current_while
    /\ InUse(u) => InUse(t) \/ u.port_enabled
    /\ u.lacp_enabled => t.lacp_enabled /\ u.agg_id = t.agg_id
    /\ SameBits(u.actor, t.actor) /\ SameBits(u.actor_admin, t.actor_admin)

\* u has the place of t in the group table.
Placed(t, u) == u.lacp_enabled = t.lacp_enabled /\ u.agg_id = t.agg_id

\* b is what the chip holds of a port whose trunk id and traffic stay.
SameChip(a, b) == b.tid = a.tid /\ b.cd = a.cd

\* A calm step composes with another and leaves what a record says of the chip true.
LEMMA CalmLaws ==
  /\ \A t : Calm(t, t) /\ Placed(t, t)
  /\ \A t, u, v : Calm(t, u) /\ Calm(u, v) => Calm(t, v)
  /\ \A t, u, v : Placed(t, u) /\ Placed(u, v) => Placed(t, v)
  /\ \A a, b, t, u : Calm(t, u) /\ SameChip(a, b) /\ RecordSays(a, t) => RecordSays(b, u)
<1>1. \A t : Calm(t, t) /\ Placed(t, t) BY DEF Calm, Placed, SameBits
<1>2. \A t, u, v : Calm(t, u) /\ Calm(u, v) => Calm(t, v)
  BY DEF Calm, SameBits
<1>3. \A t, u, v : Placed(t, u) /\ Placed(u, v) => Placed(t, v) BY DEF Placed
<1>4. ASSUME NEW a, NEW b, NEW t, NEW u, Calm(t, u), SameChip(a, b), RecordSays(a, t)
      PROVE  RecordSays(b, u)
  <2>1. LinkSays(u) BY <1>4 DEF RecordSays, LinkSays, Calm, Attached
  <2>2. ActorSays(u)
    BY <1>4 DEF RecordSays, ActorSays, Calm, Attached, SameBits, Bare, MuxBit
  <2>3. MuxSays(b, u) BY <1>4 DEF RecordSays, MuxSays, Calm, Attached, SameChip
  <2> QED BY <2>1, <2>2, <2>3 DEF RecordSays
<1> QED BY <1>1, <1>2, <1>3, <1>4

\* A record whose ends are untouched.
LEMMA OnlyCalm ==
  \A t, u :
     Only(t, u, {"sel", "tx", "periodic_timer", "wait_while", "master_port", "speed",
                 "duplex", "ntt", "ready_n", "hold_count"})
        => Calm(t, u) /\ Placed(t, u)
BY DEF Only, Field, Calm, Placed, SameBits, InUse

\* LACP_STATE_SET_BIT on the other bits.
LEMMA SetBitBits ==
  ASSUME NEW i \in Info, NEW b \in StateBit \ MuxBit
  PROVE  SameBits(SetBit(i, b, TRUE), i) /\ SameBits(SetBit(i, b, FALSE), i)
BY DEF SameBits, Bit, SetBit, Info

\* Unselecting a group.
LEMMA ReselectCalm ==
  ASSUME NEW f \in [Port -> PortRecord], NEW g, NEW q \in Port
  PROVE  Calm(f[q], Reselect(f, g)[q]) /\ Placed(f[q], Reselect(f, g)[q])
BY ReselectFrame DEF Only, Field, Calm, Placed, SameBits, InUse

\* Storing a priority.
LEMMA WithPrioCalm ==
  ASSUME NEW f \in [Port -> PortRecord], NEW p \in Port, NEW v, NEW q \in Port
  PROVE  Calm(f[q], WithPrio(f, p, v)[q]) /\ Placed(f[q], WithPrio(f, p, v)[q])
<1> DEFINE u == WithPrio(f, p, v)[q]
<1>1. /\ Only(f[q], u, {"actor", "actor_admin"})
      /\ \A x \in DOMAIN f[q].actor \ {"port_priority"} : u.actor[x] = f[q].actor[x]
      /\ \A x \in DOMAIN f[q].actor_admin \ {"port_priority"} :
            u.actor_admin[x] = f[q].actor_admin[x]
  BY WithPrioFrame
<1>2. f[q].actor \in Info /\ f[q].actor_admin \in Info BY DEF PortRecord
<1> HIDE DEF u
<1>3. u.actor.state = f[q].actor.state /\ u.actor_admin.state = f[q].actor_admin.state
  BY <1>1, <1>2 DEF Info
<1>4. Calm(f[q], u) /\ Placed(f[q], u)
  BY <1>1, <1>3 DEF Only, Field, Calm, Placed, SameBits, Bit, InUse
<1> QED BY <1>4 DEF u

\* The update of a group puts to use only ports whose link is up.
LEMMA UpdateAggCalm ==
  ASSUME NEW f \in [Port -> PortRecord], NEW S \in SUBSET Port,
         NEW key \in [Port -> Word], NEW p \in Port
  PROVE  /\ Calm(f[p], UpdateAggPortsSelect(f, S, key)[p])
         /\ Placed(f[p], UpdateAggPortsSelect(f, S, key)[p])
<1> DEFINE u == UpdateAggPortsSelect(f, S, key)[p]
           h == RefreshKeys(f, S, key)
           C == Candidates(h, S)
           m == Master(h, C)
           b == IF C = {} THEN TRUE ELSE ~Joins(h, S, h[p], h[m])
           n == IF C = {} THEN p ELSE m
           k == key[p]
<1>1. /\ Only(f[p], u, {"actor", "selected", "standby", "master_port"})
      /\ \A x \in DOMAIN f[p].actor \ {"key"} : u.actor[x] = f[p].actor[x]
      /\ p \notin S => u = f[p]
  BY UpdateAggFrame, SMTT(30)
<1>2. f[p] \in PortRecord /\ f[p].actor \in Info BY DEF PortRecord
<1>3. InUse(u) => InUse(f[p]) \/ u.port_enabled
  <2>1. CASE p \in S
    <3>1. h[p] = [f[p] EXCEPT !.actor.key = k] BY <2>1 DEF RefreshKeys
    <3>2. u = [h[p] EXCEPT !.selected = TRUE, !.standby = b, !.master_port = n]
      BY <2>1, Zenon DEF UpdateAggPortsSelect, MarkGroup, RefreshKeys
    <3>3. ~b => h[p].port_enabled BY DEF Joins
    <3> HIDE DEF h, b, n, k, u
    <3>4. h[p].port_enabled = f[p].port_enabled /\ {"standby", "selected"} \subseteq DOMAIN h[p]
      BY <1>2, <3>1 DEF PortRecord
    <3>5. u.standby = b BY <3>2, <3>4
    <3> QED BY <1>1, <3>3, <3>4, <3>5 DEF Only, Field, InUse
  <2> QED BY <1>1, <2>1
<1> HIDE DEF u
<1>4. u.actor.state = f[p].actor.state BY <1>1, <1>2 DEF Info
<1>5. Calm(f[p], u) /\ Placed(f[p], u)
  BY <1>1, <1>3, <1>4 DEF Only, Field, Calm, Placed, SameBits, Bit
<1> QED BY <1>5 DEF u

-----------------------------------------------------------------------------
(* The entries of the machines, for one port *)

\* The receive machine.
LEMMA RxRecord ==
  ASSUME NEW p \in Port, NEW a, NEW t \in PortRecord, NEW s \in RxState, RxGoes(t, s),
         RxSays(t), RecordSays(a, t)
  PROVE  RecordSays(a, RxEnter(p, t, s)) /\ Placed(t, RxEnter(p, t, s))
<1> DEFINE u == RxEnter(p, t, s)
<1>1. s # "BEGIN" BY DEF RxGoes
<1>2. /\ t.actor \in Info /\ t.actor_admin \in Info
      /\ Only(t, u, {"rx", "actor", "partner", "msg", "current_while", "port_moved",
                     "selected", "ntt"})
      /\ u.rx = s
  BY <1>1, RxFrame DEF PortRecord
<1>3. /\ u.mux = t.mux /\ u.port_enabled = t.port_enabled /\ u.standby = t.standby
      /\ u.actor_admin = t.actor_admin /\ Placed(t, u)
  BY <1>2 DEF Only, Field, Placed
<1>4. MuxSays(a, u) BY <1>3 DEF RecordSays, MuxSays, Attached, Placed
<1>5. {"DEF", "EXP"} \subseteq StateBit \ MuxBit BY DEF StateBit, MuxBit
<1>6. SetBit(t.actor, "DEF", TRUE) \in Info /\ SetBit(t.actor, "DEF", FALSE) \in Info
      /\ SetBit(t.actor_admin, "DEF", TRUE) \in Info
  BY <1>2, <1>5, SetBitFrame
<1>7. CASE s = "INITIALIZE"
  <2>1. /\ u.selected = FALSE /\ u.port_moved = FALSE /\ u.msg = t.msg
        /\ u.actor = SetBit(SetBit(t.actor_admin, "DEF", TRUE), "EXP", FALSE)
    BY <1>7 DEF RxEnter, EnterInitialize, PortRecord
  <2>2. SameBits(u.actor, t.actor_admin)
    <3>1. SameBits(SetBit(SetBit(t.actor_admin, "DEF", TRUE), "EXP", FALSE),
                   SetBit(t.actor_admin, "DEF", TRUE))
      BY <1>5, <1>6, SetBitBits
    <3>2. SameBits(SetBit(t.actor_admin, "DEF", TRUE), t.actor_admin)
      BY <1>2, <1>5, SetBitBits
    <3> HIDE DEF u
    <3> QED BY <2>1, <3>1, <3>2 DEF SameBits
  <2> HIDE DEF u
  <2>3. t.rx = "BEGIN" \/ t.port_moved BY <1>7 DEF RxGoes
  <2>4. LinkSays(u)
    BY <1>2, <1>3, <1>7, <2>1, <2>3 DEF RecordSays, LinkSays, InUse, Attached, RxSays
  <2>5. ActorSays(u)
    BY <1>2, <1>3, <2>2, <2>3
       DEF RecordSays, ActorSays, LinkSays, Attached, SameBits, Bare, MuxBit
  <2>6. RecordSays(a, u) BY <1>4, <2>4, <2>5 DEF RecordSays
  <2> QED BY <1>3, <2>6 DEF u
<1>8. CASE s = "PORT_DISABLED"
  <2>1. u.selected = FALSE /\ u.msg = NoMsg /\ u.actor = t.actor /\ u.port_moved = t.port_moved
    BY <1>8 DEF RxEnter, EnterPortDisabled, PortRecord
  <2> HIDE DEF u
  <2>2. ~t.port_moved BY <1>8 DEF RxGoes, LinkLost, RxSays
  <2>3. LinkSays(u) BY <1>2, <1>8, <2>1, <2>2 DEF LinkSays, InUse, NoMsg
  <2>4. ~(t.rx = "DEFAULTED" /\ t.port_enabled) BY <1>8 DEF RxGoes, LinkLost
  <2>5. ActorSays(u) BY <1>3, <2>1, <2>4 DEF RecordSays, ActorSays, Attached
  <2>6. RecordSays(a, u) BY <1>4, <2>3, <2>5 DEF RecordSays
  <2> QED BY <1>3, <2>6 DEF u
<1>9. CASE s = "LACP_DISABLED"
  <2>1. /\ u.selected = FALSE /\ u.msg = t.msg /\ u.port_moved = t.port_moved
        /\ u.actor = SetBit(t.actor, "DEF", TRUE)
    BY <1>9 DEF RxEnter, EnterLacpDisabled, PortRecord
  <2> HIDE DEF u
  <2>2. SameBits(u.actor, t.actor) BY <1>2, <1>5, <2>1, SetBitBits
  <2>3. ~t.port_moved /\ t.rx = "PORT_DISABLED" BY <1>9 DEF RxGoes, RxSays
  <2>4. LinkSays(u) BY <1>2, <1>9, <2>1, <2>3 DEF RecordSays, LinkSays, InUse
  <2>5. ActorSays(u)
    BY <1>3, <2>2, <2>3 DEF RecordSays, ActorSays, Attached, SameBits, Bare, MuxBit
  <2>6. RecordSays(a, u) BY <1>4, <2>4, <2>5 DEF RecordSays
  <2> QED BY <1>3, <2>6 DEF u
<1>10. CASE s = "EXPIRED"
  <2>1. /\ u.selected = t.selected /\ u.msg = t.msg /\ u.port_moved = t.port_moved
        /\ u.actor = SetBit(t.actor, "EXP", TRUE)
    BY <1>10 DEF RxEnter, EnterExpired, PortRecord
  <2> HIDE DEF u
  <2>2. SameBits(u.actor, t.actor) BY <1>2, <1>5, <2>1, SetBitBits
  <2>3. /\ ~t.port_moved /\ t.rx \in {"PORT_DISABLED", "LACP_DISABLED", "CURRENT"}
        /\ t.rx = "CURRENT" => ~t.msg.rcvd
    BY <1>10 DEF RxGoes, RxSays
  <2>4. LinkSays(u) BY <1>2, <1>3, <1>10, <2>1, <2>3 DEF RecordSays, LinkSays, InUse
  <2>5. ActorSays(u)
    BY <1>3, <2>2, <2>3 DEF RecordSays, ActorSays, Attached, SameBits, Bare, MuxBit
  <2>6. RecordSays(a, u) BY <1>4, <2>4, <2>5 DEF RecordSays
  <2> QED BY <1>3, <2>6 DEF u
<1>11. CASE s = "DEFAULTED"
  <2> DEFINE other == ~SamePartner(PartnerAdmin(p), t.partner)
             lost == SetBit(SetBit(t.actor, "DEF", TRUE), "EXP", FALSE)
             new == IF other THEN SetBit(lost, "SYN", FALSE) ELSE lost
  <2>1. /\ u.selected = (t.selected /\ ~other) /\ u.msg = t.msg
        /\ u.port_moved = t.port_moved /\ u.actor = new
    BY <1>11 DEF RxEnter, EnterDefaulted, PortRecord
  <2>2. SameBits(lost, t.actor) /\ lost \in Info
    <3>1. /\ SameBits(lost, SetBit(t.actor, "DEF", TRUE))
          /\ SameBits(SetBit(t.actor, "DEF", TRUE), t.actor)
      BY <1>2, <1>5, <1>6, SetBitBits
    <3>2. lost \in Info BY <1>5, <1>6, SetBitFrame
    <3> HIDE DEF lost
    <3> QED BY <3>1, <3>2 DEF SameBits
  <2> HIDE DEF lost, other
  <2>3. \A b \in {"COL", "DIS"} : Bit(new, b) <=> Bit(t.actor, b)
    <3>1. \A b \in {"COL", "DIS"} : Bit(SetBit(lost, "SYN", FALSE), b) <=> Bit(lost, b)
      BY <2>2 DEF Bit, SetBit, Info
    <3> QED BY <2>2, <3>1 DEF SameBits, MuxBit
  <2>4. Bit(new, "SYN") => Bit(t.actor, "SYN")
    <3>1. ~Bit(SetBit(lost, "SYN", FALSE), "SYN") BY <2>2 DEF Bit, SetBit, Info
    <3> QED BY <2>2, <3>1 DEF SameBits, MuxBit
  <2> HIDE DEF u, new
  <2>5. ~t.port_moved /\ t.port_enabled /\ t.rx = "EXPIRED" /\ ~t.msg.rcvd
    BY <1>11 DEF RxGoes, LinkLost, RxSays, RecordSays, LinkSays
  <2>6. LinkSays(u) BY <1>2, <1>3, <1>11, <2>1, <2>5 DEF RecordSays, LinkSays, InUse
  <2>7. ActorSays(u)
    BY <1>2, <1>3, <1>11, <2>1, <2>3, <2>4, <2>5
       DEF RecordSays, ActorSays, Attached, Bare, MuxBit
  <2>8. RecordSays(a, u) BY <1>4, <2>6, <2>7 DEF RecordSays
  <2> QED BY <1>3, <2>8 DEF u
<1>12. CASE s = "CURRENT"
  <2> DEFINE old == ~NewPartner(t)
  <2>1. /\ u.selected = (t.selected /\ old) /\ u.msg = NoMsg
        /\ u.port_moved = t.port_moved
        /\ u.actor = SetBit(SetBit(t.actor, "DEF", FALSE), "EXP", FALSE)
    BY <1>12 DEF RxEnter, EnterCurrent, PortRecord
  <2>2. SameBits(u.actor, t.actor)
    <3>1. /\ SameBits(SetBit(SetBit(t.actor, "DEF", FALSE), "EXP", FALSE),
                      SetBit(t.actor, "DEF", FALSE))
          /\ SameBits(SetBit(t.actor, "DEF", FALSE), t.actor)
      BY <1>2, <1>5, <1>6, SetBitBits
    <3> HIDE DEF u
    <3> QED BY <2>1, <3>1 DEF SameBits
  <2> HIDE DEF u, old
  <2>3. /\ ~t.port_moved /\ t.rx \in {"EXPIRED", "CURRENT", "DEFAULTED"} /\ t.msg.rcvd
    BY <1>12 DEF RxGoes, RxSays
  <2>4. LinkSays(u) BY <1>2, <1>3, <1>12, <2>1, <2>3 DEF RecordSays, LinkSays, InUse, NoMsg
  <2>5. ActorSays(u)
    BY <1>3, <2>2, <2>3
       DEF RecordSays, ActorSays, LinkSays, Attached, SameBits, Bare, MuxBit
  <2>6. RecordSays(a, u) BY <1>4, <2>4, <2>5 DEF RecordSays
  <2> QED BY <1>3, <2>6 DEF u
<1> QED BY <1>1, <1>7, <1>8, <1>9, <1>10, <1>11, <1>12 DEF RxState

\* The mux machine, and the calls to the chip that it makes.
LEMMA MuxRecord ==
  ASSUME NEW a \in Attr, NEW t \in PortRecord, NEW ready, NEW s \in MuxState,
         MuxGoes(t, ready, s), RxSays(t), Usable(t), RecordSays(a, t)
  PROVE  /\ RecordSays(MuxChip(a, t.agg_id, s), MuxEnter(t, s))
         /\ Placed(t, MuxEnter(t, s))
<1> DEFINE u == MuxEnter(t, s)
           g == t.agg_id
           b == MuxChip(a, g, s)
<1>1. s # "BEGIN" BY DEF MuxGoes
<1>2. /\ Only(t, u, {"mux", "ntt", "actor", "wait_while", "ready_n"})
      /\ u.mux = s
      /\ t.actor \in Info
  BY <1>1, MuxFrame DEF PortRecord
<1>3. /\ Placed(t, u) /\ u.selected = t.selected /\ u.standby = t.standby
      /\ u.rx = t.rx /\ u.msg = t.msg /\ u.port_moved = t.port_moved
      /\ u.port_enabled = t.port_enabled /\ u.current_while = t.current_while
      /\ u.actor_admin = t.actor_admin /\ u.agg_id = g
  BY <1>2 DEF Only, Field, Placed
<1>4. /\ s = "DISABLE" => b.tid = 0 /\ b.cd
      /\ s = "DETACHED" => b.tid = 0 /\ ~b.cd
      /\ s \in {"WAITING", "READY_N"} => b = a
      /\ s = "ATTACHED" => b.tid = g /\ ~b.cd
      /\ s = "RX_TX" => b.tid = a.tid /\ b.cd
  BY DEF MuxChip, Attr
<1>5. /\ s \in {"DISABLE", "DETACHED", "ATTACHED"} =>
            u.actor = [t.actor EXCEPT !.state = (@ \ {"SYN", "COL", "DIS"}) \cup MuxBits(s)]
      /\ s \in {"WAITING", "READY_N"} => u.actor = t.actor
      /\ s = "RX_TX" => u.actor = [t.actor EXCEPT !.state = @ \cup {"COL", "DIS"}]
  BY DEF MuxEnter, EnterWaiting, PortRecord, Info
<1>6. /\ s = "DETACHED" => Bare(u.actor)
      /\ s = "ATTACHED" => /\ Bit(u.actor, "SYN")
                           /\ ~Bit(u.actor, "COL") /\ ~Bit(u.actor, "DIS")
      /\ s \in {"WAITING", "READY_N"} => u.actor = t.actor
      /\ s = "RX_TX" => /\ Bit(u.actor, "COL") /\ Bit(u.actor, "DIS")
                        /\ Bit(t.actor, "SYN") => Bit(u.actor, "SYN")
  <2> HIDE DEF u
  <2> QED BY <1>2, <1>5 DEF Bare, MuxBit, MuxBits, Bit, Info
<1> HIDE DEF u, b, g
<1>7. /\ s = "WAITING" => t.mux = "DETACHED"
      /\ s = "READY_N" => t.mux = "WAITING"
      /\ s = "RX_TX" => t.mux = "ATTACHED" /\ InUse(t)
      /\ s = "ATTACHED" => InUse(t) \/ t.mux = "RX_TX"
  BY DEF MuxGoes
<1>8. InUse(t) => t.port_enabled /\ t.rx # "DEFAULTED"
  BY DEF RecordSays, LinkSays, RxSays, Usable
<1>9. LinkSays(u)
  BY <1>2, <1>3, <1>7, <1>8 DEF RecordSays, LinkSays, InUse, Attached
<1>10. ActorSays(u)
  BY <1>2, <1>3, <1>6, <1>7, <1>8 DEF RecordSays, ActorSays, Attached, Bare, MuxBit
<1>11. MuxSays(b, u)
  BY <1>1, <1>2, <1>3, <1>4, <1>7 DEF RecordSays, MuxSays, Attached, MuxState, Placed, g
<1> QED BY <1>3, <1>9, <1>10, <1>11 DEF RecordSays, u, b, g

\* What a settled record looks like.
LEMMA SettledRecord ==
  ASSUME NEW a, NEW t \in PortRecord, Settled(t), RxSays(t), Usable(t), RecordSays(a, t)
  PROVE  /\ t.rx # "BEGIN" /\ ~t.port_moved /\ ~t.msg.rcvd
         /\ t.rx = "PORT_DISABLED" => ~t.port_enabled
         /\ t.rx = "EXPIRED" => t.current_while # 0
         /\ t.port_enabled /\ t.lacp_enabled => t.rx \in {"EXPIRED", "DEFAULTED", "CURRENT"}
         /\ Attached(t) => t.port_enabled /\ Bit(t.actor, "SYN") /\ t.rx # "DEFAULTED"
         /\ t.lacp_enabled => t.mux \notin {"BEGIN", "DISABLE"}
         /\ ~t.lacp_enabled => t.mux = "DISABLE"
<1>1. /\ ~RxGoes(t, "INITIALIZE") /\ ~RxGoes(t, "PORT_DISABLED")
      /\ ~RxGoes(t, "LACP_DISABLED") /\ ~RxGoes(t, "EXPIRED")
      /\ ~RxGoes(t, "DEFAULTED") /\ ~RxGoes(t, "CURRENT")
  BY DEF Settled, RxState
<1>2. /\ ~MuxGoes(t, FALSE, "DISABLE") /\ ~MuxGoes(t, FALSE, "DETACHED")
      /\ ~MuxGoes(t, FALSE, "ATTACHED")
  BY DEF Settled, MuxState
<1>3. t.rx # "BEGIN" BY <1>1 DEF RxGoes, LinkLost
<1>4. ~t.port_moved BY <1>1 DEF RxGoes, LinkLost, RxSays
<1>5. t.port_enabled \/ t.rx = "PORT_DISABLED" BY <1>1, <1>3, <1>4 DEF RxGoes, LinkLost
<1>6. t.rx = "PORT_DISABLED" => ~t.port_enabled BY <1>1, <1>4 DEF RxGoes, LinkLost
<1>7. t.rx = "EXPIRED" => t.current_while # 0 BY <1>1, <1>5 DEF RxGoes, LinkLost
<1>8. ~t.msg.rcvd BY <1>1, <1>5, <1>7 DEF RxGoes, LinkLost, RecordSays, LinkSays
<1>9. t.port_enabled /\ t.lacp_enabled => t.rx \in {"EXPIRED", "DEFAULTED", "CURRENT"}
  BY <1>1, <1>3, <1>6 DEF RxGoes, LinkLost, PortRecord, RxState
<1>10. /\ t.lacp_enabled => t.mux \notin {"BEGIN", "DISABLE"}
       /\ ~t.lacp_enabled => t.mux = "DISABLE"
  BY <1>2 DEF MuxGoes
<1>11. Attached(t) => InUse(t) BY <1>2, <1>10 DEF MuxGoes, Attached
<1>12. Attached(t) => t.port_enabled /\ Bit(t.actor, "SYN") /\ t.rx # "DEFAULTED"
  BY <1>11 DEF RecordSays, LinkSays, ActorSays, RxSays, Usable
<1> QED BY <1>3, <1>4, <1>6, <1>7, <1>8, <1>9, <1>10, <1>12

\* Between calls, and where a call goes on after an update, every port is settled.
LEMMA RestIsSettled ==
  ASSUME ChipInv, pc \in {"idle", "enable_cfg", "enable_link", "remove"},
         NEW p \in Listed
  PROVE  /\ p \in Port /\ port[p] \in PortRecord /\ Settled(port[p])
         /\ RxSays(port[p]) /\ Usable(port[p]) /\ RecordSays(attr[p], port[p])
BY ChipFacts DEF SettledOK, RestOK, PortsOK, RecordsOK

-----------------------------------------------------------------------------
(* Steps of the update and calls, in general *)

\* The list stays, and what the argument reads of its ports and of the chip.
LEMMA RecordsStay ==
  ASSUME ChipInv, Listed' \subseteq Listed,
         \A q \in Listed' : Calm(port[q], port'[q]) /\ SameChip(attr[q], attr'[q])
  PROVE  RecordsOK'
BY CalmLaws, ChipFacts DEF RecordsOK

\* Free ports stay free in the chip.
LEMMA FreeStay ==
  ASSUME ChipInv, Listed' = Listed,
         \A q \in Port \ Listed : SameChip(attr[q], attr'[q])
  PROVE  FreeOK'
BY ChipFacts DEF FreeOK, SameChip

\* Every port keeps its place and the group table is the same.
LEMMA TableStays ==
  ASSUME ChipInv, ports' = ports, group' = group, args'.batch = args.batch,
         args'.port = args.port, "enable_cfg" \in {pc', ret'} => "enable_cfg" \in {pc, ret},
         \A q \in Listed : Placed(port[q], port'[q])
  PROVE  TableOK'
<1>1. Listed' = Listed /\ TableOK BY ChipFacts DEF Listed
<1>2. \A p \in Port, g \in Agg : InTable(p, g)' <=> InTable(p, g)
  BY <1>1 DEF InTable, Placed
<1> QED BY <1>1, <1>2 DEF TableOK, Placed

\* The thread runs a machine of a port of the list.
LEMMA TurnListed ==
  ASSUME CurOK, NEW p, NEW m, Turn(p, m)
  PROVE  pc = "update" /\ p \in Listed
<1>1. CASE CurCanHop
  <2>1. cur = <<p, m>> /\ cur # NoMachine BY <1>1 DEF Turn, CurCanHop
  <2> QED BY <2>1 DEF CurOK, Turn
<1>2. CASE ~CurCanHop
  <2>1. PICK i \in DOMAIN ports : ports[i] = p BY <1>2 DEF Turn
  <2> QED BY <2>1 DEF Turn, Listed, Range
<1> QED BY <1>1, <1>2

\* A step of the update.
LEMMA RunChip ==
  ASSUME ChipInv, pc = "update", UNCHANGED <<ports, group, pc, ret, args>>,
         NEW p \in Listed, NEW m, cur' = <<p, m>>, RecordsOK',
         \A q \in Port \ Listed : SameChip(attr[q], attr'[q]),
         \A q \in Listed : Placed(port[q], port'[q])
  PROVE  ChipParts'
<1>1. Listed' = Listed /\ LeftOK BY ChipFacts DEF Listed
<1>2. FreeOK' BY <1>1, FreeStay
<1>3. CurOK' BY <1>1 DEF CurOK
<1>4. LeftOK' BY <1>1 DEF LeftOK, Disabling, Placed
<1>5. RestOK' BY DEF RestOK
<1>6. TableOK' BY TableStays
<1> QED BY <1>2, <1>3, <1>4, <1>5, <1>6 DEF ChipParts

\* A call that enters the update.
LEMMA CallUpdateChip ==
  ASSUME ChipInv, pc = "idle", CallUpdate, RecordsOK',
         \A q \in Port \ Listed : SameChip(attr[q], attr'[q]),
         \A q \in Listed : Placed(port[q], port'[q])
  PROVE  ChipParts'
<1>1. /\ CurOK /\ LeftOK /\ ret = "idle"
  BY ChipFacts DEF CallOK
<1>2. /\ pc' = "update" /\ ret' = "idle" /\ cur' = cur
      /\ UNCHANGED <<ports, group, args>>
  BY DEF CallUpdate, StartUpdate
<1>3. Listed' = Listed BY <1>2 DEF Listed
<1>4. FreeOK' BY <1>3, FreeStay
<1>5. CurOK' BY <1>1, <1>2 DEF CurOK
<1>6. args.batch = {} BY <1>1 DEF LeftOK, Disabling
<1>7. LeftOK' BY <1>1, <1>2, <1>6 DEF LeftOK, Disabling
<1>8. RestOK' BY <1>2 DEF RestOK
<1>9. TableOK' BY <1>2, TableStays
<1> QED BY <1>4, <1>5, <1>7, <1>8, <1>9 DEF ChipParts

\* A call that ends at once.
LEMMA NoCallChip ==
  ASSUME ChipInv, UNCHANGED <<ports, port, group, cur, pc, ret, args>>,
         \A q \in Port : SameChip(attr[q], attr'[q])
  PROVE  ChipParts'
<1>1. Listed' = Listed /\ Listed \subseteq Port /\ CurOK /\ LeftOK /\ RestOK
  BY ChipFacts DEF Listed
<1>2. RecordsOK' BY <1>1, RecordsStay, CalmLaws
<1>3. FreeOK' BY <1>1, FreeStay
<1>4. CurOK' /\ LeftOK' /\ RestOK' BY <1>1 DEF CurOK, LeftOK, RestOK, Disabling
<1>5. TableOK' BY TableStays, CalmLaws
<1> QED BY <1>2, <1>3, <1>4, <1>5 DEF ChipParts

-----------------------------------------------------------------------------
(* The steps of lacp_sys_update *)

\* lacp_rx_enter_state, with the group that a new partner makes select anew.
LEMMA RunRxChip ==
  ASSUME ChipInv, NEW p \in Port, RunRx(p)
  PROVE  ChipParts'
<1>1. PICK s \in RxState :
        /\ RxGoes(port[p], s)
        /\ LET f == [port EXCEPT ![p] = RxEnter(p, port[p], s)]
           IN  port' = IF s = "CURRENT" /\ NewPartner(port[p])
                       THEN Reselect(f, port[p].agg_id) ELSE f
  BY DEF RunRx
<1> DEFINE t == RxEnter(p, port[p], s)
           f == [port EXCEPT ![p] = t]
<1>2. /\ CurOK /\ PortsOK /\ RecordsOK /\ port \in [Port -> PortRecord]
      /\ Listed \subseteq Port
  BY ChipFacts
<1>3. /\ pc = "update" /\ p \in Listed /\ cur' = <<p, "rx">>
      /\ UNCHANGED <<ports, group, attr, pc, ret, args>>
  BY <1>2, TurnListed DEF RunRx
<1>4. s # "BEGIN" BY <1>1 DEF RxGoes
<1>5. t \in PortRecord BY <1>2, <1>4, RxEnterType
<1>6. RecordSays(attr[p], t) /\ Placed(port[p], t)
  BY <1>1, <1>2, <1>3, RxRecord DEF PortsOK, RecordsOK
<1>7. port' = Reselect(f, port[p].agg_id) \/ port' = f BY <1>1
<1> HIDE DEF t
<1>8. f \in [Port -> PortRecord] BY <1>2, <1>5, PutType
<1>9. \A q \in Port : f[q] = IF q = p THEN t ELSE port[q] BY <1>2
<1> HIDE DEF f
<1>10. \A q \in Port : Calm(f[q], port'[q]) /\ Placed(f[q], port'[q])
  BY <1>7, <1>8, ReselectCalm, CalmLaws
<1>11. \A q \in Listed : RecordSays(attr[q], f[q]) /\ Placed(port[q], f[q])
  BY <1>2, <1>6, <1>9, CalmLaws, Zenon DEF RecordsOK
<1>12. \A q \in Listed : RecordSays(attr'[q], port'[q])
  BY <1>2, <1>3, <1>10, <1>11, CalmLaws DEF SameChip
<1>13. RecordsOK' BY <1>3, <1>12 DEF RecordsOK, Listed
<1>14. \A q \in Listed : Placed(port[q], port'[q])
  BY <1>2, <1>10, <1>11, CalmLaws
<1>15. \A q \in Port \ Listed : SameChip(attr[q], attr'[q]) BY <1>3 DEF SameChip
<1> QED BY <1>3, <1>13, <1>14, <1>15, RunChip

\* Steps that are calm for every port.
LEMMA CalmRunChip ==
  ASSUME ChipInv, NEW p, NEW m, Turn(p, m), cur' = <<p, m>>,
         UNCHANGED <<ports, attr, group, pc, ret, args>>,
         \A q \in Port : Calm(port[q], port'[q]) /\ Placed(port[q], port'[q])
  PROVE  ChipParts'
<1>1. CurOK /\ Listed \subseteq Port /\ Listed' = Listed BY ChipFacts DEF Listed
<1>2. pc = "update" /\ p \in Listed BY <1>1, TurnListed
<1>3. \A q : SameChip(attr[q], attr'[q]) BY DEF SameChip
<1>4. RecordsOK' BY <1>1, <1>3, RecordsStay
<1> QED BY <1>1, <1>2, <1>3, <1>4, RunChip

\* The selection machine, with the update of the group.
LEMMA RunSelChip ==
  ASSUME ChipInv, NEW p \in Port, RunSel(p)
  PROVE  ChipParts'
<1> DEFINE key == [q \in Port |-> OperKey(PortTid(q), attr[q].speed, attr[q].duplex)]
           f == [port EXCEPT ![p].sel = "SELECTION"]
           alone == [f EXCEPT ![p].selected = TRUE, ![p].standby = TRUE]
           S == Members(port[p].agg_id)
           upd == UpdateAggPortsSelect(f, S, key)
<1>1. port \in [Port -> PortRecord] /\ Listed \subseteq Port BY ChipFacts
<1>2. f \in [Port -> PortRecord] BY <1>1 DEF PortRecord, SelState
<1>3. \A q \in Port : Calm(port[q], f[q]) /\ Placed(port[q], f[q])
  <2>1. \A q \in Port : Only(port[q], f[q], {"sel"}) BY <1>1 DEF PortRecord, Only, Field
  <2>2. \A q \in Port : Only(port[q], f[q],
           {"sel", "tx", "periodic_timer", "wait_while", "master_port", "speed",
            "duplex", "ntt", "ready_n", "hold_count"})
    BY <2>1 DEF Only
  <2> QED BY <2>2, OnlyCalm, Zenon
<1>4. key \in [Port -> Word] BY PortTidType, OperKeyType
<1>5. S \in SUBSET Port BY <1>1 DEF Members
<1>6. port' \in {f, alone, upd} BY DEF RunSel
<1> HIDE DEF key, f, S
<1>7. \A q \in Port : Calm(f[q], alone[q]) /\ Placed(f[q], alone[q])
  <2> DEFINE t == [f[p] EXCEPT !.selected = TRUE, !.standby = TRUE]
  <2>1. \A q \in Port : alone[q] = IF q = p THEN t ELSE f[q] BY <1>2
  <2>2. Only(f[p], t, {"selected", "standby"}) /\ t.standby
    <3>1. f[p] \in PortRecord BY <1>2
    <3> QED BY <3>1 DEF PortRecord, Only, Field
  <2> HIDE DEF t
  <2>3. Calm(f[p], t) /\ Placed(f[p], t)
    BY <2>2 DEF Only, Field, Calm, Placed, SameBits, InUse
  <2> QED BY <2>1, <2>3, CalmLaws, Zenon
<1>8. \A q \in Port : Calm(f[q], upd[q]) /\ Placed(f[q], upd[q])
  BY <1>2, <1>4, <1>5, UpdateAggCalm
<1> HIDE DEF alone, upd
<1>9. \A q \in Port : Calm(f[q], port'[q]) /\ Placed(f[q], port'[q])
  BY <1>6, <1>7, <1>8, CalmLaws
<1>10. \A q \in Port : Calm(port[q], port'[q]) /\ Placed(port[q], port'[q])
  BY <1>3, <1>9, CalmLaws
<1>11. /\ Turn(p, "sel") /\ cur' = <<p, "sel">>
       /\ UNCHANGED <<ports, attr, group, pc, ret, args>>
  BY DEF RunSel
<1> QED BY <1>10, <1>11, CalmRunChip

\* lacp_tx_enter_state touches neither the link, the chip nor the group.
LEMMA RunTxChip ==
  ASSUME ChipInv, NEW p \in Port, RunTx(p)
  PROVE  ChipParts'
<1>1. PICK s \in TxState :
        /\ TxGoes(port[p], s)
        /\ port' = [port EXCEPT ![p] = TxEnter(port[p], sys.slow_periodic_time,
                                               sys.fast_periodic_time, s)]
  BY DEF RunTx
<1>2. s # "BEGIN" BY <1>1 DEF TxGoes
<1>3. ASSUME NEW t \in PortRecord, NEW slow, NEW fast
      PROVE  Calm(t, TxEnter(t, slow, fast, s)) /\ Placed(t, TxEnter(t, slow, fast, s))
  BY <1>2, TxFrame, OnlyCalm DEF Only
<1>4. port \in [Port -> PortRecord] BY ChipFacts
<1>5. \A q \in Port : Calm(port[q], port'[q]) /\ Placed(port[q], port'[q])
  BY <1>1, <1>3, <1>4, CalmLaws
<1>6. /\ Turn(p, "tx") /\ cur' = <<p, "tx">>
      /\ UNCHANGED <<ports, attr, group, pc, ret, args>>
  BY DEF RunTx
<1> QED BY <1>5, <1>6, CalmRunChip

\* lacp_mux_enter_state, the only machine that writes the trunk id and the traffic of a port.
LEMMA RunMuxChip ==
  ASSUME ChipInv, NEW p \in Port, RunMux(p)
  PROVE  ChipParts'
<1>1. PICK s \in MuxState :
        /\ MuxGoes(port[p], SysIsReady(p), s)
        /\ port' = [port EXCEPT ![p] = MuxEnter(port[p], s)]
        /\ attr' = [attr EXCEPT ![p] = MuxChip(attr[p], port[p].agg_id, s)]
  BY DEF RunMux
<1>2. /\ CurOK /\ PortsOK /\ RecordsOK /\ port \in [Port -> PortRecord]
      /\ Listed \subseteq Port /\ attr \in [Port -> Attr]
      /\ \A q \in Port : Usable(port[q])
  BY ChipFacts
<1>3. /\ pc = "update" /\ p \in Listed /\ cur' = <<p, "mux">>
      /\ UNCHANGED <<ports, group, pc, ret, args>>
  BY <1>2, TurnListed DEF RunMux
<1> DEFINE u == MuxEnter(port[p], s)
           b == MuxChip(attr[p], port[p].agg_id, s)
           ready == SysIsReady(p)
<1>4. RecordSays(b, u) /\ Placed(port[p], u)
  <2>1. port[p] \in PortRecord /\ attr[p] \in Attr BY <1>2
  <2>2. RxSays(port[p]) /\ Usable(port[p]) /\ RecordSays(attr[p], port[p])
    BY <1>2, <1>3 DEF PortsOK, RecordsOK
  <2>3. MuxGoes(port[p], ready, s) BY <1>1
  <2> HIDE DEF ready
  <2> QED BY <2>1, <2>2, <2>3, MuxRecord
<1> HIDE DEF u, b
<1>5. \A q \in Port : /\ port'[q] = IF q = p THEN u ELSE port[q]
                      /\ attr'[q] = IF q = p THEN b ELSE attr[q]
  BY <1>1, <1>2 DEF u, b
<1>6. \A q \in Listed : RecordSays(attr'[q], port'[q]) /\ Placed(port[q], port'[q])
  BY <1>2, <1>4, <1>5, CalmLaws DEF RecordsOK
<1>7. RecordsOK' BY <1>3, <1>6 DEF RecordsOK, Listed
<1>8. \A q \in Port \ Listed : SameChip(attr[q], attr'[q]) BY <1>3, <1>5 DEF SameChip
<1> QED BY <1>3, <1>6, <1>7, <1>8, RunChip

\* The update returns when no check fires.
LEMMA UpdateReturnsChip ==
  ASSUME ChipInv, UpdateReturns
  PROVE  ChipParts'
<1>1. /\ CurOK /\ LeftOK /\ RestOK /\ TableOK /\ CallOK /\ Listed \subseteq Port
  BY ChipFacts
<1>2. /\ pc = "update" /\ Quiet /\ pc' = ret /\ ret' = "idle" /\ cur' = NoMachine
      /\ args' = (IF ret = "idle" THEN NoArgs ELSE args)
      /\ UNCHANGED <<ports, port, attr, group>>
  BY DEF UpdateReturns
<1>3. Listed' = Listed BY <1>2 DEF Listed
<1>4. RecordsOK' BY <1>1, <1>2, <1>3, RecordsStay, CalmLaws DEF SameChip
<1>5. FreeOK' BY <1>2, <1>3, FreeStay DEF SameChip
<1>6. CurOK' BY <1>2 DEF CurOK
<1>7. \A q \in Listed : Settled(port[q])
  <2>1. \A q \in Listed : ~CanHop(q, "rx") /\ ~CanHop(q, "mux")
    BY <1>2 DEF Quiet, MachineName
  <2>2. \A q \in Listed : \A s \in MuxState : ~MuxGoes(port[q], SysIsReady(q), s)
    BY <2>1 DEF CanHop
  <2>3. \A q \in Listed : \A s \in RxState : ~RxGoes(port[q], s) BY <2>1 DEF CanHop
  <2>4. \A t, r, s : MuxGoes(t, FALSE, s) => MuxGoes(t, r, s) BY DEF MuxGoes
  <2> QED BY <2>2, <2>3, <2>4 DEF Settled
<1>8. RestOK' BY <1>2, <1>3, <1>7 DEF RestOK
<1>9. CASE ret = "idle"
  <2>1. args.batch = {} /\ args'.batch = {} /\ pc' = "idle"
    BY <1>1, <1>2, <1>9 DEF LeftOK, Disabling, NoArgs
  <2>2. LeftOK' BY <1>2, <1>9, <2>1 DEF LeftOK, Disabling
  <2>3. \A p \in Port, g \in Agg : InTable(p, g)' <=> InTable(p, g)
    BY <1>2, <1>3, <2>1 DEF InTable
  <2>4. TableOK' BY <1>1, <1>2, <1>3, <2>1, <2>3 DEF TableOK
  <2> QED BY <1>4, <1>5, <1>6, <1>8, <2>2, <2>4 DEF ChipParts
<1>10. CASE ret # "idle"
  <2>1. LeftOK' BY <1>1, <1>2, <1>3, <1>10 DEF LeftOK, Disabling
  <2>2. TableOK' BY <1>2, <1>10, TableStays, CalmLaws
  <2> QED BY <1>4, <1>5, <1>6, <1>8, <2>1, <2>2 DEF ChipParts
<1> QED BY <1>9, <1>10

-----------------------------------------------------------------------------
(* The calls *)

\* A call after which every port is calm.
LEMMA CalmCallChip ==
  ASSUME ChipInv, pc = "idle", CallUpdate,
         \A q \in Port : SameChip(attr[q], attr'[q]),
         \A q \in Listed : Calm(port[q], port'[q]) /\ Placed(port[q], port'[q])
  PROVE  ChipParts'
<1>1. Listed \subseteq Port BY ChipFacts
<1>2. Listed' = Listed BY DEF CallUpdate, Listed
<1>3. RecordsOK' BY <1>1, <1>2, RecordsStay
<1> QED BY <1>3, CallUpdateChip

\* The passing of a second: no LACPDU waits.
LEMMA OneSecondChip ==
  ASSUME ChipInv, OneSecond
  PROVE  ChipParts'
<1>1. ASSUME NEW q \in Listed
      PROVE  Calm(port[q], port'[q]) /\ Placed(port[q], port'[q])
  <2>1. /\ q \in Port /\ port[q] \in PortRecord /\ ~port[q].msg.rcvd
    BY RestIsSettled, SettledRecord DEF OneSecond
  <2>2. port'[q] = Ticked(port[q]) BY <2>1 DEF OneSecond
  <2>3. Only(port[q], port'[q],
             {"current_while", "periodic_timer", "wait_while", "hold_count"})
    BY <2>1, <2>2, TickedFrame
  <2> QED BY <2>1, <2>3 DEF Only, Field, Calm, Placed, SameBits, InUse
<1>2. \A q \in Port : SameChip(attr[q], attr'[q]) BY DEF OneSecond, SameChip
<1> QED BY <1>1, <1>2, CalmCallChip DEF OneSecond

\* A LACPDU is stored for a port whose receive machine takes it, and the port marked
\* as moved has no link.
LEMMA RxLacpduChip ==
  ASSUME ChipInv, NEW p \in Port, NEW m \in Msg, RxLacpdu(p, m)
  PROVE  ChipParts'
<1>1. /\ pc = "idle" /\ p \in Listed /\ port[p].port_enabled /\ CallUpdate /\ attr' = attr
  BY DEF RxLacpdu, Hears
<1>2. port \in [Port -> PortRecord] /\ Listed \subseteq Port BY ChipFacts
<1>3. \A q \in Port : Only(port[q], port'[q], {"msg", "port_moved"})
  BY <1>2, RxLacpduFrame
<1>4. ASSUME NEW q \in Listed PROVE RecordSays(attr[q], port'[q])
  <2>1. /\ port[q] \in PortRecord /\ Settled(port[q]) /\ RxSays(port[q])
        /\ Usable(port[q]) /\ RecordSays(attr[q], port[q])
    BY <1>1, RestIsSettled
  <2>2. Only(port[q], port'[q], {"msg", "port_moved"}) BY <1>2, <1>3
  <2>3. CASE port'[q].msg = port[q].msg /\ port'[q].port_moved = port[q].port_moved
    <3>1. Calm(port[q], port'[q])
      BY <2>2, <2>3 DEF Only, Field, Calm, SameBits, InUse
    <3> QED BY <2>1, <3>1, CalmLaws DEF SameChip
  <2>4. CASE port[q].lacp_enabled /\ port[q].port_enabled
             /\ port'[q].port_moved = port[q].port_moved
    <3>1. /\ port[q].rx \in {"EXPIRED", "DEFAULTED", "CURRENT"} /\ ~port[q].port_moved
          /\ port[q].rx = "EXPIRED" => port[q].current_while # 0
          /\ Attached(port[q]) => port[q].rx # "DEFAULTED"
      BY <2>1, <2>4, SettledRecord
    <3>2. LinkSays(port'[q]) /\ ActorSays(port'[q]) /\ MuxSays(attr[q], port'[q])
      BY <2>1, <2>2, <2>4, <3>1
         DEF Only, Field, RecordSays, LinkSays, ActorSays, MuxSays, InUse, Attached
    <3> QED BY <3>2 DEF RecordSays
  <2>5. CASE port[q].rx = "PORT_DISABLED" /\ port'[q].msg = port[q].msg
    <3>1. ~port[q].port_enabled /\ ~Attached(port[q]) BY <2>1, <2>5, SettledRecord
    <3>2. LinkSays(port'[q]) /\ ActorSays(port'[q]) /\ MuxSays(attr[q], port'[q])
      BY <2>1, <2>2, <2>5, <3>1
         DEF Only, Field, RecordSays, LinkSays, ActorSays, MuxSays, InUse, Attached
    <3> QED BY <3>2 DEF RecordSays
  <2>6. CASE port' = port BY <2>3, <2>6
  <2>7. CASE /\ port[p].lacp_enabled
             /\ port' = [r \in Port |->
                           IF r = p THEN [port[p] EXCEPT !.msg = m]
                           ELSE [port[r] EXCEPT !.port_moved = @ \/ Moved(p, m, r)]]
    <3>1. CASE q = p
      <4>1. port'[q] = [port[q] EXCEPT !.msg = m] BY <1>2, <2>7, <3>1
      <4>2. port'[q].port_moved = port[q].port_moved BY <2>1, <4>1 DEF PortRecord
      <4> QED BY <1>1, <2>4, <2>7, <3>1, <4>2
    <3>2. CASE q # p
      <4> DEFINE b == Moved(p, m, q)
      <4>1. port'[q] = [port[q] EXCEPT !.port_moved = @ \/ b] BY <1>2, <2>7, <3>2
      <4>2. b => port[q].rx = "PORT_DISABLED" BY DEF Moved
      <4> HIDE DEF b
      <4>3. port'[q].msg = port[q].msg /\ (port'[q].port_moved <=> port[q].port_moved \/ b)
        BY <2>1, <4>1 DEF PortRecord
      <4>4. port[q].port_moved \in BOOLEAN /\ port'[q].port_moved \in BOOLEAN
        BY <2>1, <4>1 DEF PortRecord
      <4> QED BY <2>3, <2>5, <4>2, <4>3, <4>4
    <3> QED BY <3>1, <3>2
  <2> QED BY <2>6, <2>7 DEF RxLacpdu
<1>5. RecordsOK' BY <1>1, <1>4 DEF RecordsOK, Listed, CallUpdate
<1>6. \A q \in Listed : Placed(port[q], port'[q]) BY <1>2, <1>3 DEF Only, Field, Placed
<1>7. \A q : SameChip(attr[q], attr'[q]) BY <1>1 DEF SameChip
<1> QED BY <1>1, <1>5, <1>6, <1>7, CallUpdateChip

\* The link of a settled port changes and its group is unselected.
LEMMA LinkRecords ==
  ASSUME ChipInv, pc \in {"idle", "enable_link"}, NEW p \in Listed, NEW up \in BOOLEAN,
         NEW q \in Listed
  PROVE  /\ RecordSays(attr[q], LinkChanged(p, up)[q])
         /\ Placed(port[q], LinkChanged(p, up)[q])
<1> DEFINE t == WithLink(port[p], attr[p], up)
           f == [port EXCEPT ![p] = t]
           g == port[p].agg_id
           u == LinkChanged(p, up)[q]
<1>1. /\ port \in [Port -> PortRecord] /\ Listed \subseteq Port /\ attr \in [Port -> Attr]
      /\ OwnOK /\ MembersOK /\ CallOK /\ RecordsOK
  BY ChipFacts
<1>2. t \in PortRecord BY <1>1, WithLinkType
<1>3. /\ Only(port[p], t, {"port_enabled", "speed", "duplex", "actor"})
      /\ SameBits(t.actor, port[p].actor)
  <2>1. Only(port[p], t, {"port_enabled", "speed", "duplex", "actor"})
    BY <1>1, WithLinkFrame
  <2>2. port[p] \in PortRecord /\ port[p].actor \in Info BY <1>1 DEF PortRecord
  <2>3. t.actor = port[p].actor \/ t.actor = SetBit(port[p].actor, "AGG", FALSE)
    BY <2>2, ZenonT(30) DEF WithLink, PortRecord
  <2>4. "AGG" \in StateBit \ MuxBit BY DEF StateBit, MuxBit
  <2> HIDE DEF t
  <2>5. SameBits(SetBit(port[p].actor, "AGG", FALSE), port[p].actor)
    BY <2>2, <2>4, SetBitBits
  <2>6. SameBits(port[p].actor, port[p].actor) BY DEF SameBits
  <2> QED BY <2>1, <2>3, <2>5, <2>6
<1>4. LinkChanged(p, up) = Reselect(f, g) BY <1>1 DEF LinkChanged
<1> HIDE DEF t
<1>5. f \in [Port -> PortRecord] BY <1>1, <1>2, PutType
<1>6. \A r \in Port : f[r] = IF r = p THEN t ELSE port[r] BY <1>1
<1> HIDE DEF f
<1>7. Calm(f[q], u) /\ Placed(f[q], u) BY <1>1, <1>4, <1>5, ReselectCalm
<1>8. CASE q # p
  <2>1. f[q] = port[q] BY <1>1, <1>6, <1>8
  <2>2. RecordSays(attr[q], port[q]) BY <1>1 DEF RecordsOK
  <2> QED BY <1>7, <2>1, <2>2, CalmLaws DEF SameChip
<1>9. CASE q = p
  <2>1. port[p].lacp_enabled
    BY <1>1 DEF MembersOK, Coming, Leaving, CallOK
  <2>2. g # 0 BY <1>1, <2>1 DEF OwnOK, OwnEnd
  <2>3. f[q] = t /\ t.agg_id = g BY <1>1, <1>3, <1>6, <1>9 DEF Only, Field
  <2>4. ~u.selected BY <1>1, <1>4, <1>5, <2>2, <2>3, ReselectFrame
  <2>5. /\ port[q] \in PortRecord /\ Settled(port[q]) /\ RxSays(port[q])
        /\ Usable(port[q]) /\ RecordSays(attr[q], port[q])
    BY RestIsSettled
  <2>6. /\ port[q].rx # "BEGIN" /\ ~port[q].port_moved /\ ~port[q].msg.rcvd
        /\ Attached(port[q]) => Bit(port[q].actor, "SYN") /\ port[q].rx # "DEFAULTED"
    BY <2>5, SettledRecord
  <2>7. /\ Only(port[q], t, {"port_enabled", "speed", "duplex", "actor"})
        /\ SameBits(t.actor, port[q].actor)
    BY <1>3, <1>9
  <2> HIDE DEF u
  <2>8. Calm(t, u) /\ Placed(t, u) BY <1>7, <2>3
  <2>9. LinkSays(u)
    BY <2>4, <2>6, <2>7, <2>8 DEF Only, Field, LinkSays, Calm, InUse
  <2>10. ActorSays(u)
    BY <2>5, <2>6, <2>7, <2>8
       DEF Only, Field, RecordSays, ActorSays, Calm, Attached, SameBits, Bare, MuxBit
  <2>11. MuxSays(attr[q], u) /\ Placed(port[q], u)
    BY <2>5, <2>7, <2>8 DEF Only, Field, RecordSays, MuxSays, Calm, Placed, Attached
  <2> QED BY <2>9, <2>10, <2>11 DEF RecordSays, u
<1> QED BY <1>8, <1>9

\* The calls on links.
LEMMA LinkChip ==
  ASSUME ChipInv, NEW p \in Port, NEW up \in BOOLEAN, LinkChange(p, up) \/ SetLink(p, up)
  PROVE  ChipParts'
<1>1. LinkIndication(p, up) /\ pc = "idle" BY DEF LinkChange, SetLink
<1>2. attr \in [Port -> Attr] /\ Listed \subseteq Port BY ChipFacts
<1>3. \A q \in Port : SameChip(attr[q], attr'[q])
  BY <1>2 DEF LinkChange, SetLink, SameChip, Attr
<1>4. CASE p \in Listed /\ port' = LinkChanged(p, up) /\ CallUpdate
  <2>1. \A q \in Listed : RecordSays(attr[q], port'[q]) /\ Placed(port[q], port'[q])
    BY <1>1, <1>4, LinkRecords
  <2>2. Listed' = Listed BY <1>4 DEF CallUpdate, Listed
  <2>3. RecordsOK'
    BY <1>2, <1>3, <2>1, <2>2, CalmLaws DEF RecordsOK
  <2> QED BY <1>1, <1>2, <1>3, <1>4, <2>1, <2>3, CallUpdateChip
<1>5. CASE UNCHANGED <<ports, port, group, cur, pc, ret, args>>
  BY <1>3, <1>5, NoCallChip
<1> QED BY <1>1, <1>4, <1>5 DEF LinkIndication

\* The calls that set speed, duplex mode and priority of a port.
LEMMA AttrChip ==
  ASSUME ChipInv, NEW p \in Port, NEW v \in Nat, NEW b \in BOOLEAN,
         SetSpeed(p, v) \/ SetDuplex(p, b) \/ SetPortPrio(p, v)
  PROVE  ChipParts'
<1>1. /\ port \in [Port -> PortRecord] /\ attr \in [Port -> Attr] /\ Listed \subseteq Port
  BY ChipFacts
<1>2. pc = "idle" BY DEF SetSpeed, SetDuplex, SetAttr, SetPortPrio
<1>3. \A q \in Port : SameChip(attr[q], attr'[q])
  BY <1>1 DEF SetSpeed, SetDuplex, SetAttr, SetPortPrio, SameChip, Attr
<1>4. \/ UNCHANGED <<ports, port, group, cur, pc, ret, args>>
      \/ CallUpdate /\ port' \in {port, Reselect(port, port[p].agg_id)}
      \/ CallUpdate /\ port' = Reselect(WithPrio(port, p, v), port[p].agg_id)
  BY DEF SetSpeed, SetDuplex, SetAttr, SetPortPrio
<1>5. CASE UNCHANGED <<ports, port, group, cur, pc, ret, args>>
  BY <1>3, <1>5, NoCallChip
<1>6. CASE CallUpdate /\ port' \in {port, Reselect(port, port[p].agg_id)}
  <2>1. \A q \in Port : Calm(port[q], port'[q]) /\ Placed(port[q], port'[q])
    BY <1>1, <1>6, ReselectCalm, CalmLaws
  <2> QED BY <1>1, <1>2, <1>3, <1>6, <2>1, CalmCallChip
<1>7. CASE CallUpdate /\ port' = Reselect(WithPrio(port, p, v), port[p].agg_id)
  <2> DEFINE w == WithPrio(port, p, v)
  <2>1. w \in [Port -> PortRecord] BY <1>1, WithPrioType
  <2>2. \A q \in Port : Calm(port[q], w[q]) /\ Placed(port[q], w[q])
    BY <1>1, WithPrioCalm
  <2> HIDE DEF w
  <2>3. \A q \in Port : Calm(w[q], port'[q]) /\ Placed(w[q], port'[q])
    BY <1>7, <2>1, ReselectCalm DEF w
  <2>4. \A q \in Port : Calm(port[q], port'[q]) /\ Placed(port[q], port'[q])
    BY <2>2, <2>3, CalmLaws
  <2> QED BY <1>1, <1>2, <1>3, <1>7, <2>4, CalmCallChip
<1> QED BY <1>4, <1>5, <1>6, <1>7

\* The counters of a port are cleared.
LEMMA ClearStatChip ==
  ASSUME ChipInv, NEW p \in Port, ClearStat(p)
  PROVE  ChipParts'
BY CalmLaws, CalmCallChip DEF ClearStat, SameChip

\* The calls that set what the whole system uses.
LEMMA SysChip ==
  ASSUME ChipInv, NEW s, SysSetCfg(s)
  PROVE  ChipParts'
<1> DEFINE end(a) == SetBit([a EXCEPT !.system_priority = s.priority], "TMT", s.lacp_timeout)
           told(t) == [t EXCEPT !.actor = end(t.actor), !.ntt = TRUE]
<1>1. port \in [Port -> PortRecord] /\ Listed \subseteq Port BY ChipFacts
<1>2. \A q \in Listed : port'[q] = told(port[q])
  <2>1. port' = [p \in Port |->
                  IF p \in Listed
                  THEN [port[p] EXCEPT
                          !.actor = SetBit([@ EXCEPT !.system_priority = s.priority],
                                           "TMT", s.lacp_timeout),
                          !.ntt = TRUE]
                  ELSE port[p]]
    BY Zenon DEF SysSetCfg
  <2> QED BY <1>1, <2>1, Zenon
<1>3. ASSUME NEW a \in Info PROVE SameBits(end(a), a)
  BY DEF SameBits, MuxBit, Bit, SetBit, Info
<1> HIDE DEF end
<1>4. ASSUME NEW t \in PortRecord
      PROVE  /\ Only(t, told(t), {"actor", "ntt"})
             /\ told(t).actor = end(t.actor) /\ t.actor \in Info
  BY DEF PortRecord, Only, Field
<1> HIDE DEF told
<1>5. ASSUME NEW t \in PortRecord PROVE Calm(t, told(t)) /\ Placed(t, told(t))
  BY <1>3, <1>4 DEF Only, Field, Calm, Placed, SameBits, InUse
<1>6. \A q \in Listed : Calm(port[q], port'[q]) /\ Placed(port[q], port'[q])
  BY <1>1, <1>2, <1>5
<1>7. \A q : SameChip(attr[q], attr'[q]) BY Zenon DEF SysSetCfg, SameChip
<1> QED BY <1>6, <1>7, CalmCallChip, Zenon DEF SysSetCfg

-----------------------------------------------------------------------------
(* trunk_port_lacp_enable *)

\* A port that no group of the table has is not in the list.
LEMMA NotEnabled ==
  ASSUME ChipInv, pc = "idle", ~MayReEnable, NEW p \in Port, ~IsEnabled(p)
  PROVE  p \notin Listed
<1>1. /\ TableOK /\ OwnOK /\ MembersOK /\ CallOK /\ LeftOK /\ port \in [Port -> PortRecord]
  BY ChipFacts
<1> SUFFICES ASSUME p \in Listed PROVE FALSE OBVIOUS
<1>2. port[p].lacp_enabled BY <1>1 DEF MembersOK, Coming, Leaving, CallOK
<1>3. port[p].agg_id \in Agg BY <1>1, <1>2 DEF OwnOK, OwnEnd, PortRecord
<1>4. args.batch = {} BY <1>1 DEF LeftOK, Disabling, CallOK
<1>5. p \in group[port[p].agg_id] BY <1>1, <1>3, <1>4 DEF TableOK, InTable
<1> DEFINE in == {g \in Agg : p \in group[g]}
<1>6. in # {} /\ in \subseteq Agg BY <1>3, <1>5
<1>7. in \in SUBSET Nat /\ 0 \notin Agg BY AggAssumption
<1>8. \E n \in in : \A m \in in : n <= m BY <1>6, <1>7, LeastElement
<1>9. PortTid(p) = CHOOSE g \in in : \A h \in in : g <= h BY <1>6 DEF PortTid
<1> HIDE DEF in
<1>10. PortTid(p) \in in BY <1>8, <1>9
<1> QED BY <1>6, <1>7, <1>10 DEF IsEnabled

\* The first part of trunk_port_lacp_enable: a port joins the list, not yet a group.
LEMMA EnableChip ==
  ASSUME ChipInv, NEW p \in Port, NEW g \in Agg, Enable(p, g)
  PROVE  ChipParts'
<1>1. /\ PortsOK /\ RecordsOK /\ FreeOK /\ CurOK /\ LeftOK /\ TableOK /\ OwnOK /\ CallOK
      /\ ports \in Seq(Port) /\ port \in [Port -> PortRecord] /\ Listed \subseteq Port
  BY ChipFacts
<1>2. /\ pc = "idle" /\ ret = "idle" /\ pc' = "update" /\ ret' = "enable_cfg"
      /\ cur' = cur /\ UNCHANGED <<attr, group>>
      /\ args' = [NoArgs EXCEPT !.port = p, !.agg = g]
  BY <1>1 DEF Enable, StartUpdate, CallOK
<1>3. /\ args'.port = p /\ args'.batch = {} /\ args.batch = {}
  BY <1>1, <1>2 DEF NoArgs, LeftOK, Disabling
<1>4. ~MayReEnable => p \notin Listed BY <1>2, NotEnabled DEF Enable
<1>5. CurOK' BY <1>1, <1>2 DEF CurOK
<1>6. LeftOK' BY <1>2, <1>3 DEF LeftOK, Disabling
<1>7. RestOK' BY <1>2 DEF RestOK
<1>8. p \in Nat /\ LacpPortMax \in Nat BY PortAssumption, LimitAssumption
<1>9. CASE Creates(p)
  <2>1. PICK mac \in OwnMac : /\ ports' = <<p>> \o ports
                              /\ port' = [port EXCEPT ![p] = FreshPort(p, mac)]
    BY <1>9 DEF Enable
  <2> DEFINE t == FreshPort(p, mac)
  <2>2. Listed' = Listed \cup {p} /\ p \notin Listed /\ p < LacpPortMax
    BY <1>1, <1>9, <2>1, PrependList DEF PortsOK, Creates, Listed
  <2>3. \A q \in Port : port'[q] = IF q = p THEN t ELSE port[q] BY <1>1, <2>1
  <2>4. /\ t.rx = "BEGIN" /\ t.mux = "BEGIN" /\ t.selected = FALSE /\ t.port_enabled = FALSE
        /\ t.msg = NoMsg /\ t.agg_id = 0 /\ t.lacp_enabled = FALSE
        /\ t.actor_admin = ActorInit(p, mac, sys.priority, sys.lacp_timeout)
    BY DEF FreshPort, ZeroPort
  <2>5. Bare(t.actor_admin) BY <2>4 DEF ActorInit, Bare, Bit, MuxBit
  <2> HIDE DEF t
  <2>6. attr[p].tid = 0 /\ attr[p].cd BY <1>1, <2>2 DEF FreeOK
  <2>7. RecordSays(attr[p], t)
    BY <2>4, <2>5, <2>6
       DEF RecordSays, LinkSays, ActorSays, MuxSays, InUse, Attached, NoMsg
  <2>8. RecordsOK' BY <1>1, <1>2, <2>2, <2>3, <2>7 DEF RecordsOK
  <2>9. FreeOK' BY <1>1, <1>2, <2>2 DEF FreeOK
  <2>10. 0 \notin Agg BY AggAssumption
  <2>11. \A q \in Port, h \in Agg : InTable(q, h)' <=> InTable(q, h)
    BY <1>3, <2>2, <2>3, <2>4, <2>10 DEF InTable
  <2>12. TableOK' BY <1>1, <1>2, <1>3, <2>2, <2>3, <2>4, <2>11 DEF TableOK
  <2> QED BY <1>5, <1>6, <1>7, <2>8, <2>9, <2>12 DEF ChipParts
<1>10. CASE ~Creates(p)
  <2>1. ports' = ports /\ port' = port BY <1>10 DEF Enable
  <2>2. Listed' = Listed BY <2>1 DEF Listed
  <2>3. RecordsOK' BY <1>1, <1>2, <2>1, <2>2, RecordsStay, CalmLaws DEF SameChip
  <2>4. FreeOK' BY <1>2, <2>2, FreeStay DEF SameChip
  <2>5. \A q \in Port, h \in Agg : InTable(q, h)' <=> InTable(q, h)
    BY <1>3, <2>1, <2>2 DEF InTable
  <2>6. ~MayReEnable => p \notin Listed /\ p >= LacpPortMax
    BY <1>4, <1>8, <1>10 DEF Creates
  <2>7. TableOK' BY <1>1, <1>2, <1>3, <2>1, <2>2, <2>5, <2>6 DEF TableOK
  <2> QED BY <1>5, <1>6, <1>7, <2>3, <2>4, <2>7 DEF ChipParts
<1> QED BY <1>9, <1>10

\* The port joins its group: until then its mux machine is at rest.
LEMMA EnableCfgChip ==
  ASSUME ChipInv, EnableCfg
  PROVE  ChipParts'
<1> DEFINE p == args.port
           g == args.agg
           prio == IF attr[p].prio = NoPrio THEN Default_port_priority ELSE attr[p].prio
           f == [port EXCEPT ![p].actor_admin = SetBit(@, "AGG", TRUE),
                             ![p].actor = SetBit(@, "AGG", TRUE),
                             ![p].agg_id = g,
                             ![p].lacp_enabled = TRUE]
           i == SetBit(port[p].actor_admin, "AGG", TRUE)
           a == SetBit(port[p].actor, "AGG", TRUE)
           t == [port[p] EXCEPT !.actor_admin = i, !.actor = a, !.agg_id = g,
                                !.lacp_enabled = TRUE]
           w == WithPrio(f, p, prio)
<1>1. /\ TypeInv /\ RecordsOK /\ CurOK /\ LeftOK /\ TableOK /\ OwnOK /\ CallOK
      /\ port \in [Port -> PortRecord] /\ attr \in [Port -> Attr] /\ Listed \subseteq Port
      /\ group \in [Agg -> SUBSET Port]
  BY ChipFacts
<1>2. p \in Port /\ g \in Agg BY <1>1 DEF EnableCfg, CallOK
<1>3. /\ pc = "enable_cfg" /\ pc' = "update" /\ ret' = "enable_link" /\ cur' = cur
      /\ UNCHANGED <<ports, attr, args>>
      /\ group' = [group EXCEPT ![g] = @ \cup {p}]
  BY DEF EnableCfg, StartUpdate
<1>4. prio \in Nat BY <1>1, <1>2 DEF Attr, NoPrio, Default_port_priority
<1>5. port' = IF p \in Listed THEN Reselect(w, g) ELSE port BY DEF EnableCfg
<1>6. f = [port EXCEPT ![p] = t]
  <2>1. port[p] \in PortRecord /\ DOMAIN port = Port BY <1>1, <1>2
  <2> HIDE DEF p, g
  <2> QED BY <1>2, <2>1 DEF PortRecord
<1>7. i \in Info /\ a \in Info /\ SameBits(i, port[p].actor_admin) /\ SameBits(a, port[p].actor)
  <2>1. port[p].actor \in Info /\ port[p].actor_admin \in Info BY <1>1, <1>2 DEF PortRecord
  <2>2. "AGG" \in StateBit \ MuxBit BY DEF StateBit, MuxBit
  <2> QED BY <2>1, <2>2, SetBitFrame, SetBitBits
<1>8. port[p] \in PortRecord BY <1>1, <1>2
<1>9. Listed' = Listed BY <1>3 DEF Listed
<1>10. ret = "idle" BY <1>1, <1>3 DEF CallOK
<1>11. CurOK' BY <1>1, <1>3, <1>9 DEF CurOK
<1>12. args.batch = {} BY <1>1, <1>3, <1>10 DEF LeftOK, Disabling
<1>13. LeftOK' BY <1>3, <1>12 DEF LeftOK, Disabling
<1>14. RestOK' BY <1>3 DEF RestOK
<1>15. FreeOK' BY <1>3, <1>9, FreeStay DEF SameChip
<1> HIDE DEF f, prio, i, a, g, p
<1>16. /\ t \in PortRecord /\ t.agg_id = g /\ t.lacp_enabled
       /\ Only(port[p], t, {"actor_admin", "actor", "agg_id", "lacp_enabled"})
       /\ t.actor_admin = i /\ t.actor = a
  BY <1>2, <1>7, <1>8 DEF PortRecord, Only, Field
<1> HIDE DEF t
<1>17. f \in [Port -> PortRecord] /\ \A q \in Port : f[q] = IF q = p THEN t ELSE port[q]
  BY <1>1, <1>6, <1>16
<1>18. w \in [Port -> PortRecord] BY <1>2, <1>4, <1>17, WithPrioType
<1>19. \A q \in Port : Calm(f[q], w[q]) /\ Placed(f[q], w[q])
  BY <1>2, <1>17, WithPrioCalm, Zenon
<1> HIDE DEF w
<1>20. CASE p \notin Listed
  <2>1. port' = port BY <1>5, <1>20
  <2>2. RecordsOK' BY <1>1, <1>3, <1>9, <2>1, RecordsStay, CalmLaws DEF SameChip
  <2>3. ~MayReEnable => p >= LacpPortMax BY <1>1, <1>3, <1>20 DEF TableOK, p
  <2>4. p \in Nat /\ LacpPortMax \in Nat BY <1>2, PortAssumption, LimitAssumption
  <2>5. \A q \in Port, h \in Agg : InTable(q, h)' <=> InTable(q, h)
    BY <1>3, <1>9, <2>1 DEF InTable
  <2>6. ~MayReEnable => \A q \in Port, h \in Agg :
           q < LacpPortMax => (q \in group'[h] <=> q \in group[h])
    BY <1>1, <1>2, <1>3, <2>3, <2>4
  <2>7. TableOK' BY <1>1, <1>3, <1>9, <2>1, <2>5, <2>6 DEF TableOK
  <2> QED BY <1>11, <1>13, <1>14, <1>15, <2>2, <2>7 DEF ChipParts
<1>21. CASE p \in Listed
  <2>1. \A q \in Port : Calm(w[q], port'[q]) /\ Placed(w[q], port'[q])
    BY <1>5, <1>18, <1>21, ReselectCalm
  <2>2. \A q \in Port : Calm(f[q], port'[q]) /\ Placed(f[q], port'[q])
    BY <1>19, <2>1, CalmLaws
  <2>3. ~MayReEnable => ~port[p].lacp_enabled BY <1>1, <1>3, <1>21 DEF TableOK, p
  <2>4. /\ Settled(port[p]) /\ RxSays(port[p]) /\ Usable(port[p])
        /\ RecordSays(attr[p], port[p])
    BY <1>3, <1>21, RestIsSettled
  <2>5. ~MayReEnable => ~Attached(port[p])
    BY <1>8, <2>3, <2>4, SettledRecord DEF Attached
  <2>6. RecordSays(attr[p], t)
    <3>1. LinkSays(t) /\ ActorSays(t)
      BY <1>7, <1>16, <2>4 DEF Only, Field, RecordSays, LinkSays, ActorSays, InUse,
         Attached, SameBits, Bare, MuxBit
    <3>2. MuxSays(attr[p], t)
      BY <1>16, <2>4, <2>5 DEF Only, Field, RecordSays, MuxSays, Attached
    <3> QED BY <3>1, <3>2 DEF RecordSays
  <2>7. \A q \in Listed : RecordSays(attr[q], f[q]) BY <1>1, <1>17, <2>6, Zenon DEF RecordsOK
  <2>8. \A q \in Listed : RecordSays(attr[q], port'[q])
    BY <1>1, <2>2, <2>7, CalmLaws DEF SameChip
  <2>9. RecordsOK' BY <1>3, <1>9, <2>8 DEF RecordsOK
  <2>10. \A q \in Port : q # p => Placed(port[q], port'[q]) BY <1>17, <2>2
  <2>11. port'[p].agg_id = g BY <1>2, <1>16, <1>17, <2>2 DEF Placed
  <2>12. ASSUME ~MayReEnable, NEW q \in Port, NEW h \in Agg, q < LacpPortMax
         PROVE  q \in group'[h] <=> InTable(q, h)'
    <3>1. q \in group[h] <=> InTable(q, h) BY <1>1, <2>12 DEF TableOK
    <3>2. CASE q # p
      <4>1. q \in group'[h] <=> q \in group[h] BY <1>1, <1>2, <1>3, <3>2
      <4>2. InTable(q, h)' <=> InTable(q, h)
        BY <1>3, <1>9, <2>10, <3>2 DEF InTable, Placed
      <4> QED BY <3>1, <4>1, <4>2
    <3>3. CASE q = p
      <4>1. port[p].agg_id = 0 /\ 0 \notin Agg
        BY <1>1, <1>21, <2>3, <2>12, AggAssumption DEF OwnOK, OwnEnd
      <4>2. q \notin group[h] BY <3>1, <3>3, <4>1 DEF InTable
      <4>3. q \in group'[h] <=> h = g BY <1>1, <1>2, <1>3, <3>3, <4>2
      <4>4. InTable(q, h)' <=> h = g
        BY <1>3, <1>9, <1>12, <1>21, <2>11, <3>3 DEF InTable
      <4> QED BY <4>3, <4>4
    <3> QED BY <3>2, <3>3
  <2>13. TableOK' BY <1>1, <1>3, <1>9, <2>12 DEF TableOK
  <2> QED BY <1>11, <1>13, <1>14, <1>15, <2>9, <2>13 DEF ChipParts
<1> QED BY <1>20, <1>21

\* The port hears of its link, or the call ends with nothing to do.
LEMMA EnableLinkChip ==
  ASSUME ChipInv, EnableLink
  PROVE  ChipParts'
<1> DEFINE p == args.port
           up == attr[p].link_status
<1>1. /\ RecordsOK /\ CurOK /\ LeftOK /\ TableOK /\ CallOK
      /\ port \in [Port -> PortRecord] /\ attr \in [Port -> Attr] /\ Listed \subseteq Port
  BY ChipFacts
<1>2. /\ pc = "enable_link" /\ ret = "idle" /\ ret' = "idle" /\ cur' = cur
      /\ pc' \in {"idle", "update", "gone"}
      /\ UNCHANGED <<ports, attr, group>> /\ args' \in {args, NoArgs}
      /\ \/ port' = port
         \/ p \in Listed /\ port' = LinkChanged(p, up) /\ pc' = "update"
  BY <1>1 DEF EnableLink, StartUpdate, CallOK
<1>3. Listed' = Listed BY <1>2 DEF Listed
<1>4. p \in Listed => up \in BOOLEAN BY <1>1 DEF Attr
<1>5. \A q \in Listed : RecordSays(attr[q], port'[q]) /\ Placed(port[q], port'[q])
  BY <1>1, <1>2, <1>4, LinkRecords, CalmLaws DEF RecordsOK
<1>6. RecordsOK' BY <1>2, <1>3, <1>5 DEF RecordsOK
<1>7. FreeOK' BY <1>2, <1>3, FreeStay DEF SameChip
<1>8. CurOK' BY <1>1, <1>2 DEF CurOK
<1>9. args.batch = {} /\ args'.batch = {} BY <1>1, <1>2 DEF LeftOK, Disabling, NoArgs
<1>10. LeftOK' BY <1>2, <1>9 DEF LeftOK, Disabling
<1>11. RestOK' BY <1>2 DEF RestOK
<1>12. \A q \in Port, h \in Agg : InTable(q, h)' <=> InTable(q, h)
  BY <1>3, <1>5, <1>9 DEF InTable, Placed
<1>13. TableOK' BY <1>1, <1>2, <1>3, <1>12 DEF TableOK
<1> QED BY <1>6, <1>7, <1>8, <1>10, <1>11, <1>13 DEF ChipParts

-----------------------------------------------------------------------------
(* trunk_port_lacp_disable_batch *)

\* The ports of the batch leave the group table; those of the list are visited next.
LEMMA StartDisableChip ==
  ASSUME ChipInv, NEW S \in SUBSET Port, StartDisable(S)
  PROVE  ChipParts'
<1>1. /\ RecordsOK /\ CurOK /\ LeftOK /\ TableOK /\ CallOK /\ Listed \subseteq Port
      /\ group \in [Agg -> SUBSET Port]
  BY ChipFacts
<1>2. /\ pc = "idle" /\ ret = "idle" /\ pc' = "disable_loop" /\ ret' = "idle"
      /\ UNCHANGED <<ports, port, attr, cur>>
      /\ group' = [g \in Agg |-> group[g] \ S]
      /\ args' = [NoArgs EXCEPT !.batch = S, !.todo = S \cap Listed]
  BY <1>1 DEF StartDisable, CallOK
<1>3. Listed' = Listed BY <1>2 DEF Listed
<1>4. args'.batch = S /\ args'.todo = S \cap Listed /\ args.batch = {}
  BY <1>1, <1>2 DEF NoArgs, LeftOK, Disabling
<1>5. RecordsOK' BY <1>1, <1>2, <1>3 DEF RecordsOK
<1>6. FreeOK' BY <1>2, <1>3, FreeStay DEF SameChip
<1>7. CurOK' BY <1>1, <1>2 DEF CurOK
<1>8. LeftOK' BY <1>2, <1>3, <1>4 DEF LeftOK, Disabling
<1>9. RestOK' BY <1>2 DEF RestOK
<1>10. \A q \in Port, h \in Agg : InTable(q, h)' <=> InTable(q, h) /\ q \notin S
  BY <1>2, <1>3, <1>4 DEF InTable
<1>11. TableOK' BY <1>1, <1>2, <1>3, <1>10 DEF TableOK
<1> QED BY <1>5, <1>6, <1>7, <1>8, <1>9, <1>11 DEF ChipParts

\* A port of the batch gives up aggregation.
LEMMA DisableNotifyChip ==
  ASSUME ChipInv, NEW p \in Port, DisableNotify(p)
  PROVE  ChipParts'
<1> DEFINE i == SetBit(port[p].actor_admin, "AGG", FALSE)
           a == SetBit(port[p].actor, "AGG", FALSE)
           t == [port[p] EXCEPT !.ntt = TRUE, !.actor_admin = i, !.actor = a]
<1>1. /\ RecordsOK /\ CurOK /\ LeftOK /\ TableOK /\ CallOK /\ TypeInv
      /\ port \in [Port -> PortRecord] /\ Listed \subseteq Port
  BY ChipFacts
<1>2. port' = [port EXCEPT ![p] = t] BY <1>1 DEF DisableNotify, PortRecord
<1>3. /\ pc = "disable_loop" /\ ret = "idle" /\ pc' = "update" /\ ret' = "disable_port"
      /\ cur' = cur /\ UNCHANGED <<ports, attr, group>>
      /\ args' = [args EXCEPT !.port = p, !.todo = @ \ {p}]
  BY <1>1 DEF DisableNotify, StartUpdate, CallOK
<1>4. args \in [port : Nat, agg : Nat, batch : SUBSET Port, todo : SUBSET Port]
  BY <1>1 DEF TypeInv, TypeOK
<1>5. args'.port = p /\ args'.batch = args.batch /\ args'.todo = args.todo \ {p}
  BY <1>3, <1>4
<1>6. SameBits(i, port[p].actor_admin) /\ SameBits(a, port[p].actor)
  <2>1. port[p].actor \in Info /\ port[p].actor_admin \in Info BY <1>1 DEF PortRecord
  <2>2. "AGG" \in StateBit \ MuxBit BY DEF StateBit, MuxBit
  <2> QED BY <2>1, <2>2, SetBitBits
<1> HIDE DEF i, a
<1>7. Only(port[p], t, {"ntt", "actor_admin", "actor"}) /\ t.actor = a /\ t.actor_admin = i
  <2>1. port[p] \in PortRecord BY <1>1
  <2> QED BY <2>1 DEF PortRecord, Only, Field
<1> HIDE DEF t
<1>8. Calm(port[p], t) /\ Placed(port[p], t)
  BY <1>6, <1>7 DEF Only, Field, Calm, Placed, InUse
<1>9. \A q \in Port : Calm(port[q], port'[q]) /\ Placed(port[q], port'[q])
  BY <1>1, <1>2, <1>8, CalmLaws
<1>10. Listed' = Listed BY <1>3 DEF Listed
<1>11. RecordsOK' BY <1>1, <1>3, <1>9, <1>10, RecordsStay DEF SameChip
<1>12. FreeOK' BY <1>3, <1>10, FreeStay DEF SameChip
<1>13. CurOK' BY <1>1, <1>3 DEF CurOK
<1>14. LeftOK' BY <1>1, <1>3, <1>5, <1>9, <1>10 DEF LeftOK, Disabling, Placed
<1>15. RestOK' BY <1>3 DEF RestOK
<1>16. \A q \in Port, h \in Agg : InTable(q, h)' <=> InTable(q, h)
  BY <1>5, <1>9, <1>10 DEF InTable, Placed
<1>17. TableOK' BY <1>1, <1>3, <1>10, <1>16 DEF TableOK
<1> QED BY <1>11, <1>12, <1>13, <1>14, <1>15, <1>17 DEF ChipParts

\* The port leaves its group.
LEMMA DisableLeaveChip ==
  ASSUME ChipInv, DisableLeave
  PROVE  ChipParts'
<1> DEFINE p == args.port
           f == Reselect(port, port[p].agg_id)
           t == [f[p] EXCEPT !.agg_id = 0, !.lacp_enabled = FALSE]
<1>1. /\ RecordsOK /\ CurOK /\ LeftOK /\ TableOK /\ CallOK /\ MembersOK
      /\ port \in [Port -> PortRecord] /\ Listed \subseteq Port
  BY ChipFacts
<1>2. /\ pc = "disable_port" /\ ret = "idle" /\ pc' = "disable_loop" /\ ret' = "idle"
      /\ UNCHANGED <<ports, attr, group, cur, args>>
      /\ port' = [f EXCEPT ![p].agg_id = 0, ![p].lacp_enabled = FALSE]
  BY <1>1 DEF DisableLeave, CallOK
<1>3. p \in args.batch BY <1>1, <1>2 DEF MembersOK
<1>4. f \in [Port -> PortRecord] BY <1>1, ReselectType
<1>5. \A q \in Port : Calm(port[q], f[q]) /\ Placed(port[q], f[q])
  BY <1>1, ReselectCalm
<1> HIDE DEF f, p
<1>6. port' = [f EXCEPT ![p] = t] BY <1>2, <1>4
<1>7. p \in Port => t.agg_id = 0 /\ ~t.lacp_enabled /\ Only(f[p], t, {"agg_id", "lacp_enabled"})
  <2>1. p \in Port => f[p] \in PortRecord BY <1>4
  <2> QED BY <2>1 DEF PortRecord, Only, Field
<1> HIDE DEF t
<1>8. \A q \in Port : port'[q] = IF q = p THEN t ELSE f[q] BY <1>4, <1>6
<1>9. p \in Port => Calm(f[p], t) BY <1>7 DEF Only, Field, Calm, SameBits, InUse
<1>10. \A q \in Port : Calm(f[q], port'[q]) BY <1>8, <1>9, CalmLaws
<1>11. \A q \in Port : Calm(port[q], port'[q]) BY <1>5, <1>10, CalmLaws
<1>12. \A q \in Port : q # p => Placed(port[q], port'[q]) BY <1>5, <1>8
<1>13. p \in Port => ~port'[p].lacp_enabled BY <1>7, <1>8
<1>14. Listed' = Listed BY <1>2 DEF Listed
<1>15. RecordsOK' BY <1>1, <1>2, <1>11, <1>14, RecordsStay DEF SameChip
<1>16. FreeOK' BY <1>2, <1>14, FreeStay DEF SameChip
<1>17. CurOK' BY <1>1, <1>2 DEF CurOK
<1>18. LeftOK' BY <1>1, <1>2, <1>12, <1>13, <1>14 DEF LeftOK, Disabling, Placed, p
<1>19. RestOK' BY <1>2 DEF RestOK
<1>20. \A q \in Port, h \in Agg : InTable(q, h)' <=> InTable(q, h)
  BY <1>2, <1>3, <1>12, <1>14 DEF InTable, Placed
<1>21. TableOK' BY <1>1, <1>2, <1>14, <1>20 DEF TableOK
<1> QED BY <1>15, <1>16, <1>17, <1>18, <1>19, <1>21 DEF ChipParts

\* Every port of the batch has left; one more update, and they are removed.
LEMMA DisableUpdateChip ==
  ASSUME ChipInv, DisableUpdate
  PROVE  ChipParts'
<1>1. /\ RecordsOK /\ CurOK /\ LeftOK /\ TableOK /\ CallOK /\ Listed \subseteq Port
  BY ChipFacts
<1>2. /\ pc = "disable_loop" /\ ret = "idle" /\ pc' = "update" /\ ret' = "remove"
      /\ args.todo = {} /\ UNCHANGED <<ports, port, attr, group, cur, args>>
  BY <1>1 DEF DisableUpdate, StartUpdate, CallOK
<1>3. Listed' = Listed BY <1>2 DEF Listed
<1>4. RecordsOK' BY <1>1, <1>2, <1>3 DEF RecordsOK
<1>5. FreeOK' BY <1>2, <1>3, FreeStay DEF SameChip
<1>6. CurOK' BY <1>1, <1>2 DEF CurOK
<1>7. LeftOK' BY <1>1, <1>2, <1>3 DEF LeftOK, Disabling
<1>8. RestOK' BY <1>2 DEF RestOK
<1>9. TableOK' BY <1>2, TableStays, CalmLaws
<1> QED BY <1>4, <1>5, <1>6, <1>7, <1>8, <1>9 DEF ChipParts

\* A port that has left its group has no trunk id and passes traffic by itself.
LEMMA RemovePortChip ==
  ASSUME ChipInv, NEW p \in Port, RemovePort(p)
  PROVE  ChipParts'
<1>1. /\ PortsOK /\ RecordsOK /\ FreeOK /\ CurOK /\ LeftOK /\ TableOK /\ CallOK
      /\ ports \in Seq(Port) /\ port \in [Port -> PortRecord] /\ Listed \subseteq Port
  BY ChipFacts
<1>2. /\ pc = "remove" /\ ret = "idle" /\ p \in args.batch \cap Listed
      /\ UNCHANGED <<attr, group, cur, pc, ret, args>>
      /\ port' = [port EXCEPT ![p] = ZeroPort(p)]
  BY <1>1 DEF RemovePort, IsFirst, CallOK
<1>3. PICK i \in DOMAIN ports : ports[i] = p /\ ports' = RemoveAt(ports, i)
  BY DEF RemovePort
<1>4. Listed' = Listed \ {p} BY <1>1, <1>3, RemoveList DEF PortsOK, Listed
<1>5. \A q \in Listed' : q \in Listed /\ port'[q] = port[q] BY <1>1, <1>2, <1>4
<1>6. RecordsOK' BY <1>1, <1>2, <1>5 DEF RecordsOK
<1>7. ~port[p].lacp_enabled BY <1>1, <1>2 DEF LeftOK
<1>8. port[p].mux = "DISABLE" BY <1>2, <1>7, RestIsSettled, SettledRecord
<1>9. attr[p].tid = 0 /\ attr[p].cd
  BY <1>1, <1>2, <1>8 DEF RecordsOK, RecordSays, MuxSays, Attached
<1>10. FreeOK' BY <1>1, <1>2, <1>4, <1>9 DEF FreeOK
<1>11. CurOK' BY <1>1, <1>2 DEF CurOK
<1>12. LeftOK' BY <1>1, <1>2, <1>4, <1>5 DEF LeftOK, Disabling
<1>13. RestOK' BY <1>2 DEF RestOK
<1>14. \A q \in Port, h \in Agg : InTable(q, h)' <=> InTable(q, h)
  BY <1>2, <1>4, <1>5 DEF InTable
<1>15. TableOK' BY <1>1, <1>2, <1>5, <1>14 DEF TableOK
<1> QED BY <1>6, <1>10, <1>11, <1>12, <1>13, <1>15 DEF ChipParts

\* No port of the batch is left in the list.
LEMMA RemoveReturnsChip ==
  ASSUME ChipInv, RemoveReturns
  PROVE  ChipParts'
<1>1. /\ RecordsOK /\ CurOK /\ LeftOK /\ TableOK /\ CallOK /\ Listed \subseteq Port
  BY ChipFacts
<1>2. /\ pc = "remove" /\ ret = "idle" /\ pc' = "idle" /\ ret' = "idle"
      /\ args' = NoArgs /\ args.batch \cap Listed = {}
      /\ UNCHANGED <<ports, port, attr, group, cur>>
  BY <1>1 DEF RemoveReturns, CallOK
<1>3. Listed' = Listed BY <1>2 DEF Listed
<1>4. RecordsOK' BY <1>1, <1>2, <1>3 DEF RecordsOK
<1>5. FreeOK' BY <1>2, <1>3, FreeStay DEF SameChip
<1>6. CurOK' BY <1>1, <1>2 DEF CurOK
<1>7. args'.batch = {} BY <1>2 DEF NoArgs
<1>8. LeftOK' BY <1>2, <1>7 DEF LeftOK, Disabling
<1>9. RestOK' BY <1>2 DEF RestOK
<1>10. \A q \in Port, h \in Agg : InTable(q, h)' <=> InTable(q, h)
  BY <1>2, <1>3, <1>7 DEF InTable
<1>11. TableOK' BY <1>1, <1>2, <1>3, <1>10 DEF TableOK
<1> QED BY <1>4, <1>5, <1>6, <1>8, <1>9, <1>11 DEF ChipParts

-----------------------------------------------------------------------------
\* The initial state: an empty list, empty groups and a chip as stub_init leaves it.
LEMMA InitChip == Init => ChipInv
<1> SUFFICES ASSUME Init PROVE ChipParts BY InitGroup DEF ChipInv
<1>1. /\ ports = <<>> /\ pc = "idle" /\ ret = "idle" /\ args = NoArgs /\ cur = NoMachine
      /\ attr = [p \in Port |-> BootAttr] /\ group = [g \in Agg |-> {}]
  BY DEF Init
<1>2. Listed = {} BY <1>1 DEF Listed, Range
<1>3. RecordsOK BY <1>2 DEF RecordsOK
<1>4. FreeOK BY <1>1, Zenon DEF FreeOK, BootAttr
<1>5. args.batch = {} /\ args.todo = {} BY <1>1 DEF NoArgs
<1>6. LeftOK BY <1>1, <1>5 DEF LeftOK, Disabling
<1>7. TableOK BY <1>1, <1>2 DEF TableOK, InTable
<1> QED BY <1>1, <1>3, <1>4, <1>6, <1>7 DEF ChipParts, CurOK, RestOK

\* The invariant is kept by every step.
LEMMA ChipStep == ChipInv /\ [Next]_vars => ChipInv'
<1> SUFFICES ASSUME ChipInv, [Next]_vars PROVE ChipParts'
  BY GroupStep DEF ChipInv
<1>1. CASE UNCHANGED vars
  BY <1>1, NoCallChip DEF vars, SameChip
<1>2. CASE Update
  BY <1>2, RunRxChip, RunSelChip, RunMuxChip, RunTxChip, UpdateReturnsChip DEF Update, Run
<1>3. CASE Continue
  BY <1>3, EnableCfgChip, EnableLinkChip, DisableNotifyChip, DisableLeaveChip,
     DisableUpdateChip, RemovePortChip, RemoveReturnsChip DEF Continue
<1>4. CASE OneSecond BY <1>4, OneSecondChip
<1>5. CASE Command
  <2>1. group \in [Agg -> SUBSET Port] /\ port \in [Port -> PortRecord] BY ChipFacts
  <2>2. ASSUME NEW p \in Port, NEW a \in Remote, NEW v \in Views(p),
               RxLacpdu(p, [rcvd |-> TRUE, actor |-> a, partner |-> v])
        PROVE  ChipParts'
    <3>1. a \in Info /\ v \in Info
      BY <2>1, RemoteAssumption DEF Views, PortRecord
    <3>2. [rcvd |-> TRUE, actor |-> a, partner |-> v] \in Msg BY <3>1 DEF Msg, Pdu
    <3> QED BY <2>2, <3>2, RxLacpduChip
  <2>3. ASSUME NEW p \in Port, NEW up \in BOOLEAN, LinkChange(p, up) \/ SetLink(p, up)
        PROVE  ChipParts'
    BY <2>3, LinkChip
  <2>4. ASSUME NEW p \in Port, NEW v \in Nat, NEW b \in BOOLEAN,
               SetSpeed(p, v) \/ SetDuplex(p, b) \/ SetPortPrio(p, v)
        PROVE  ChipParts'
    BY <2>4, AttrChip
  <2>5. ASSUME NEW S \in SUBSET Port, StartDisable(S) PROVE ChipParts'
    BY <2>5, StartDisableChip
  <2>6. ASSUME NEW s, SysSetCfg(s) PROVE ChipParts'
    BY <2>6, SysChip
  <2>7. CASE \E p \in Port :
               \/ \E a \in Remote, v \in Views(p) :
                     RxLacpdu(p, [rcvd |-> TRUE, actor |-> a, partner |-> v])
               \/ \E up \in IpcLinks : LinkChange(p, up)
               \/ \E up \in CliLinks : SetLink(p, up)
               \/ \E v \in Speeds : SetSpeed(p, v)
               \/ \E v \in Duplexes : SetDuplex(p, v)
               \/ \E v \in PortPrios : SetPortPrio(p, v)
               \/ \E g \in Agg : Enable(p, g)
               \/ Disable(p)
               \/ ClearStat(p)
    BY <2>2, <2>3, <2>4, <2>5, <2>7, CommandAssumption, EnableChip, ClearStatChip DEF Disable
  <2>8. CASE \/ \E g \in Agg : DeleteAgg(g)
             \/ \E v \in SysPrios : SetSysPrio(v)
             \/ \E v \in Timeouts : SetPeriod(v)
             \/ \E v \in LongPeriods : SetLongPeriod(v)
             \/ \E v \in ShortPeriods : SetShortPeriod(v)
    BY <2>1, <2>5, <2>6, <2>8
    DEF DeleteAgg, SetSysPrio, SetPeriod, SetLongPeriod, SetShortPeriod
  <2> QED BY <1>5, <2>7, <2>8 DEF Command
<1> QED BY <1>1, <1>2, <1>3, <1>4, <1>5 DEF Next

\* The invariant holds at every step of a bridge.
LEMMA ChipAlways == Spec => []ChipInv
BY InitChip, ChipStep, PTL DEF Spec

\* Between calls a port outside the protocol is an ordinary port of the switch: a port
\* is deleted only after the update that took its mux machine to DISABLE, which clears
\* its trunk id and switches its traffic on, and nothing else touches a free port.
THEOREM FreeIsPlain == Spec => []FreePortIsPlain
<1>1. ChipInv => FreePortIsPlain BY DEF ChipInv, ChipParts, FreeOK, FreePortIsPlain
<1> QED BY <1>1, ChipAlways, PTL

\* As long as no port of a group is enabled again, the port list and the group table
\* name the same ports in the same groups between calls, although a port is put into
\* the table before it is configured and taken out of it before it leaves its group.
THEOREM GroupsAlwaysAgree ==
  ASSUME ~MayReEnable
  PROVE  Spec => []GroupsAgree
<1>1. ChipInv => GroupsAgree
  <2> SUFFICES ASSUME ChipInv, Idle
               PROVE  /\ IsInjective(ports)
                      /\ \A p \in Port, g \in Agg :
                           (p \in Listed /\ port[p].agg_id = g)
                              <=> (p \in group[g] /\ p < LacpPortMax)
    BY DEF GroupsAgree
  <2>1. /\ PortsOK /\ TableOK /\ LeftOK /\ CallOK BY ChipFacts
  <2>2. args.batch = {} BY <2>1 DEF Idle, LeftOK, Disabling, CallOK
  <2> QED BY <2>1, <2>2 DEF GroupsAgree, PortsOK, TableOK, InTable
<1> QED BY <1>1, ChipAlways, PTL

\* As long as no port of a group is enabled again, trunk id and traffic of a port of the
\* list follow its mux machine between calls, and so does the state octet it
\* advertises, in whatever order links, LACPDUs, timers and commands came.
THEOREM ChipAlwaysAgrees ==
  ASSUME ~MayReEnable
  PROVE  Spec => []ChipAgrees
<1>1. ChipInv => ChipAgrees
  <2> SUFFICES ASSUME ChipInv, Idle, NEW p \in Listed
               PROVE  /\ attr[p].tid = IF Attached(port[p]) THEN port[p].agg_id ELSE 0
                      /\ attr[p].cd <=> port[p].mux = "RX_TX"
                      /\ Bit(port[p].actor, "SYN") <=> Attached(port[p])
                      /\ Bit(port[p].actor, "COL") <=> attr[p].cd
                      /\ Bit(port[p].actor, "DIS") <=> attr[p].cd
    BY DEF ChipAgrees, Attached
  <2>1. /\ port[p] \in PortRecord /\ Settled(port[p]) /\ RxSays(port[p])
        /\ Usable(port[p]) /\ RecordSays(attr[p], port[p])
    BY RestIsSettled DEF Idle
  <2>2. port[p].lacp_enabled
    BY ChipFacts DEF Idle, MembersOK, Coming, Leaving, CallOK
  <2>3. /\ port[p].mux \in MuxState \ {"BEGIN", "DISABLE"}
        /\ Attached(port[p]) => Bit(port[p].actor, "SYN")
    BY <2>1, <2>2, SettledRecord DEF PortRecord
  <2>4. ~Attached(port[p]) => Bare(port[p].actor)
    BY <2>1, <2>3 DEF RecordSays, ActorSays, Attached, MuxState
  <2> QED BY <2>1, <2>2, <2>3, <2>4
          DEF RecordSays, ActorSays, MuxSays, Attached, Bare, MuxBit
<1> QED BY <1>1, ChipAlways, PTL

-----------------------------------------------------------------------------
(* What a call leaves to the machines *)

\* The settings of a port, which a call may write before it updates the system; the
\* state of its link apart.
Setting ==
    {"speed", "duplex", "actor", "actor_admin", "selected", "ntt", "agg_id", "lacp_enabled"}

\* A call that writes settings takes no LACPDU back that is to be sent and leaves the
\* bits of the mux machine and ACT.
Alike(i, j) == \A b \in MuxBit \cup {"ACT"} : Bit(i, b) <=> Bit(j, b)
Kept(t, u) ==
    /\ Only(t, u, Setting)
    /\ t.ntt => u.ntt
    /\ Alike(u.actor, t.actor) /\ Alike(u.actor_admin, t.actor_admin)

\* Record t with its link up or down.
Linked(t, up) == [t EXCEPT !.port_enabled = up]

\* What is kept composes, and needs no look at the fields that hold nothing.
LEMMA KeptLaws ==
  /\ \A t : Kept(t, t)
  /\ \A t, u, v : Kept(t, u) /\ Kept(u, v) => Kept(t, v)
  /\ \A t, u : Only(t, u, Setting \ {"actor", "actor_admin", "ntt"}) => Kept(t, u)
<1>1. \A t : Kept(t, t) BY DEF Kept, Only, Alike
<1>2. \A t, u, v : Kept(t, u) /\ Kept(u, v) => Kept(t, v)
  BY DEF Kept, Only, Alike
<1>3. \A t, u : Only(t, u, Setting \ {"actor", "actor_admin", "ntt"}) => Kept(t, u)
  BY DEF Kept, Only, Alike, Field, Setting
<1> QED BY <1>1, <1>2, <1>3

\* The other bits.
LEMMA SetBitAlike ==
  ASSUME NEW i \in Info, NEW b \in {"AGG", "TMT", "DEF", "EXP"}, NEW v \in BOOLEAN
  PROVE  Alike(SetBit(i, b, v), i)
BY DEF Alike, MuxBit, Bit, SetBit, Info

\* Unselecting a group.
LEMMA ReselectKept ==
  ASSUME NEW f \in [Port -> PortRecord], NEW g, NEW q \in Port
  PROVE  Kept(f[q], Reselect(f, g)[q])
<1>1. Only(f[q], Reselect(f, g)[q], {"selected"}) BY ReselectFrame
<1>2. Only(f[q], Reselect(f, g)[q], Setting \ {"actor", "actor_admin", "ntt"})
  BY <1>1 DEF Only, Setting
<1> QED BY <1>2, KeptLaws

\* A priority.
LEMMA WithPrioKept ==
  ASSUME NEW f \in [Port -> PortRecord], NEW p \in Port, NEW v, NEW q \in Port
  PROVE  Kept(f[q], WithPrio(f, p, v)[q])
<1> DEFINE u == WithPrio(f, p, v)[q]
<1>1. /\ Only(f[q], u, {"actor", "actor_admin"})
      /\ \A x \in DOMAIN f[q].actor \ {"port_priority"} : u.actor[x] = f[q].actor[x]
      /\ \A x \in DOMAIN f[q].actor_admin \ {"port_priority"} :
            u.actor_admin[x] = f[q].actor_admin[x]
  BY WithPrioFrame
<1>2. f[q].actor \in Info /\ f[q].actor_admin \in Info BY DEF PortRecord
<1> HIDE DEF u
<1>3. u.actor.state = f[q].actor.state /\ u.actor_admin.state = f[q].actor_admin.state
  BY <1>1, <1>2 DEF Info
<1>4. Alike(u.actor, f[q].actor) /\ Alike(u.actor_admin, f[q].actor_admin)
  BY <1>3 DEF Alike, Bit
<1>5. Kept(f[q], u) BY <1>1, <1>4 DEF Kept, Only, Field, Setting
<1> QED BY <1>5 DEF u

\* A change of the link.
LEMMA WithLinkKept ==
  ASSUME NEW t \in PortRecord, NEW a \in Attr, NEW up \in BOOLEAN
  PROVE  Linked(t, up) \in PortRecord /\ Kept(Linked(t, up), WithLink(t, a, up))
<1> DEFINE u == WithLink(t, a, up)
           l == Linked(t, up)
<1>1. Only(t, u, {"port_enabled", "speed", "duplex", "actor"}) BY WithLinkFrame
<1>2. /\ u.actor = IF a.duplex THEN t.actor ELSE SetBit(t.actor, "AGG", FALSE)
      /\ u.port_enabled = up
  BY DEF WithLink, PortRecord
<1>3. t.actor \in Info BY DEF PortRecord
<1>4. Alike(u.actor, t.actor)
  <2>1. Alike(t.actor, t.actor) /\ Alike(SetBit(t.actor, "AGG", FALSE), t.actor)
    BY <1>3, SetBitAlike DEF Alike
  <2> QED BY <1>2, <2>1
<1>5. Only(t, l, {"port_enabled"}) /\ l.port_enabled = up
  BY DEF Linked, PortRecord, Only, Field
<1>6. l \in PortRecord BY DEF Linked, PortRecord
<1> HIDE DEF u, l
<1>7. Only(l, u, {"speed", "duplex", "actor"}) BY <1>1, <1>2, <1>5 DEF Only, Field
<1>8. Kept(l, u) BY <1>1, <1>4, <1>5, <1>7 DEF Kept, Only, Field, Setting, Alike
<1> QED BY <1>6, <1>8 DEF u, l

\* lacp_port_link_change.
LEMMA LinkChangedKept ==
  ASSUME port \in [Port -> PortRecord], attr \in [Port -> Attr], NEW p \in Port,
         NEW up \in BOOLEAN, NEW q \in Port
  PROVE  Kept(IF q = p THEN Linked(port[q], up) ELSE port[q], LinkChanged(p, up)[q])
<1> DEFINE u == WithLink(port[p], attr[p], up)
           f == [port EXCEPT ![p] = u]
           t == IF q = p THEN Linked(port[q], up) ELSE port[q]
<1>1. port[p] \in PortRecord /\ attr[p] \in Attr OBVIOUS
<1>2. u \in PortRecord BY <1>1, WithLinkType
<1>3. Kept(Linked(port[p], up), u) BY <1>1, WithLinkKept
<1> HIDE DEF u
<1>4. f \in [Port -> PortRecord] /\ Kept(t, f[q]) BY <1>2, <1>3, KeptLaws
<1>5. LinkChanged(p, up) = Reselect(f, port[p].agg_id) BY DEF LinkChanged, u
<1> HIDE DEF f, t
<1>6. Kept(f[q], Reselect(f, port[p].agg_id)[q]) BY <1>4, ReselectKept
<1>7. Kept(t, LinkChanged(p, up)[q]) BY <1>4, <1>5, <1>6, KeptLaws
<1> QED BY <1>7 DEF t

\* What a second and a LACPDU write, which no machine does before it looks at them.
Timer == {"current_while", "periodic_timer", "wait_while", "hold_count"}
Arrival == {"msg", "port_moved"}

\* The calls that other calls do not interrupt: links, LACPDUs, seconds and settings.
LEMMA CommandKept ==
  ASSUME port \in [Port -> PortRecord], attr \in [Port -> Attr], OneSecond \/ Command,
         NEW q \in Port
  PROVE  \/ Kept(port[q], port'[q])
         \/ \E up \in BOOLEAN : Kept(Linked(port[q], up), port'[q])
         \/ Only(port[q], port'[q], Timer \cup Arrival)
         \/ q \notin Listed /\ \E mac \in OwnMac : port'[q] = FreshPort(q, mac)
<1> DEFINE Goal == \/ Kept(port[q], port'[q])
                   \/ \E up \in BOOLEAN : Kept(Linked(port[q], up), port'[q])
                   \/ Only(port[q], port'[q], Timer \cup Arrival)
                   \/ q \notin Listed /\ \E mac \in OwnMac : port'[q] = FreshPort(q, mac)
<1> SUFFICES Goal OBVIOUS
<1>1. CASE port' = port BY <1>1, KeptLaws
<1>2. CASE OneSecond
  <2>1. Only(port[q], Ticked(port[q]),
             {"current_while", "periodic_timer", "wait_while", "hold_count"})
    BY TickedFrame
  <2>2. Only(port[q], Ticked(port[q]), Timer \cup Arrival) BY <2>1 DEF Only, Timer
  <2>3. port'[q] = Ticked(port[q]) \/ port'[q] = port[q] BY <1>2 DEF OneSecond
  <2> QED BY <2>2, <2>3, KeptLaws
<1>3. ASSUME NEW p \in Port, NEW m, RxLacpdu(p, m) PROVE Goal
  <2>1. Only(port[q], port'[q], {"msg", "port_moved"}) BY <1>3, RxLacpduFrame
  <2> QED BY <2>1 DEF Only, Arrival
<1>4. ASSUME NEW p \in Port, NEW up \in BOOLEAN, LinkIndication(p, up) PROVE Goal
  BY <1>1, <1>4, LinkChangedKept DEF LinkIndication
<1>5. ASSUME NEW p \in Port, NEW a, SetAttr(p, a) PROVE Goal
  BY <1>5, ReselectKept DEF SetAttr
<1>6. ASSUME NEW p \in Port, NEW v \in Nat, SetPortPrio(p, v) PROVE Goal
  <2> DEFINE f == WithPrio(port, p, v)
  <2>2. f \in [Port -> PortRecord] BY WithPrioType
  <2>3. Kept(port[q], f[q]) BY WithPrioKept
  <2>4. port' = port \/ port' = Reselect(f, port[p].agg_id) BY <1>6 DEF SetPortPrio
  <2> HIDE DEF f
  <2> QED BY <2>2, <2>3, <2>4, ReselectKept, KeptLaws
<1>7. ASSUME NEW s, SysSetCfg(s) PROVE Goal
  <2> DEFINE a == [port[q].actor EXCEPT !.system_priority = s.priority]
             e == SetBit(a, "TMT", s.lacp_timeout)
             u == [port[q] EXCEPT !.actor = e, !.ntt = TRUE]
  <2>1. port'[q] = u \/ port'[q] = port[q] BY <1>7, Zenon DEF SysSetCfg, PortRecord
  <2>2. port[q] \in PortRecord OBVIOUS
  <2>3. port[q].actor \in Info BY <2>2 DEF PortRecord
  <2>4. Alike(e, port[q].actor)
    BY <2>3 DEF Alike, MuxBit, Bit, SetBit, Info
  <2> HIDE DEF e
  <2>6. Only(port[q], u, {"actor", "ntt"}) /\ u.ntt /\ u.actor = e
    BY <2>2 DEF Only, Field, PortRecord
  <2> HIDE DEF u
  <2>5. Kept(port[q], u) BY <2>4, <2>6 DEF Kept, Only, Field, Setting, Alike
  <2> QED BY <2>1, <2>5, KeptLaws
<1>8. ASSUME NEW p \in Port, NEW g \in Agg, Enable(p, g) PROVE Goal
  <2>1. port'[q] = port[q] \/ (q = p /\ Creates(p) /\ \E mac \in OwnMac : port'[q] = FreshPort(q, mac))
    BY <1>8 DEF Enable
  <2> QED BY <2>1, KeptLaws DEF Creates
<1>9. ASSUME NEW S, StartDisable(S) PROVE port' = port BY <1>9 DEF StartDisable
<1>10. ASSUME NEW p \in Port, ClearStat(p) PROVE port' = port BY <1>10 DEF ClearStat
<1>11. CASE \E p \in Port :
               \/ \E a \in Remote, v \in Views(p) :
                     RxLacpdu(p, [rcvd |-> TRUE, actor |-> a, partner |-> v])
               \/ \E up \in IpcLinks : LinkChange(p, up)
               \/ \E up \in CliLinks : SetLink(p, up)
               \/ \E v \in Speeds : SetSpeed(p, v)
               \/ \E v \in Duplexes : SetDuplex(p, v)
               \/ \E v \in PortPrios : SetPortPrio(p, v)
               \/ \E g \in Agg : Enable(p, g)
               \/ Disable(p)
               \/ ClearStat(p)
  <2> HIDE DEF Goal
  <2>1. port' = port => Goal BY <1>1 DEF Goal
  <2> QED
    BY <2>1, <1>3, <1>4, <1>5, <1>6, <1>8, <1>9, <1>10, <1>11, CommandAssumption
       DEF Disable, LinkChange, SetLink, SetSpeed, SetDuplex
<1>12. CASE \/ \E g \in Agg : DeleteAgg(g)
            \/ \E v \in SysPrios : SetSysPrio(v)
            \/ \E v \in Timeouts : SetPeriod(v)
            \/ \E v \in LongPeriods : SetLongPeriod(v)
            \/ \E v \in ShortPeriods : SetShortPeriod(v)
  <2> HIDE DEF Goal
  <2>1. port' = port => Goal BY <1>1 DEF Goal
  <2> QED
    BY <2>1, <1>7, <1>9, <1>12
       DEF DeleteAgg, SetSysPrio, SetPeriod, SetLongPeriod, SetShortPeriod
<1> QED BY <1>2, <1>11, <1>12 DEF Command

\* The later parts of a call that enables or disables ports.
LEMMA ContinueKept ==
  ASSUME TypeInv, Continue, NEW q \in Port
  PROVE  \/ Kept(port[q], port'[q])
         \/ pc = "remove" /\ port'[q] = ZeroPort(q)
         \/ /\ pc = "enable_link" /\ q = args.port
            /\ Kept(Linked(port[q], attr[q].link_status), port'[q])
<1> DEFINE Goal == \/ Kept(port[q], port'[q])
                   \/ pc = "remove" /\ port'[q] = ZeroPort(q)
                   \/ /\ pc = "enable_link" /\ q = args.port
                      /\ Kept(Linked(port[q], attr[q].link_status), port'[q])
<1>1. /\ port \in [Port -> PortRecord] /\ attr \in [Port -> Attr] /\ Listed \subseteq Port
      /\ "enable_cfg" \in {pc, ret} => args.port \in Port /\ args.agg \in Agg
      /\ args \in [port : Nat, agg : Nat, batch : SUBSET Port, todo : SUBSET Port]
  BY VarTypes DEF TypeInv, CallOK, TypeOK
<1>3. CASE EnableCfg
  <2> DEFINE p == args.port
             g == args.agg
             prio == IF attr[p].prio = NoPrio THEN Default_port_priority ELSE attr[p].prio
             i == SetBit(port[p].actor_admin, "AGG", TRUE)
             a == SetBit(port[p].actor, "AGG", TRUE)
             t == [port[p] EXCEPT !.actor_admin = i, !.actor = a, !.agg_id = g,
                                  !.lacp_enabled = TRUE]
             f == [port EXCEPT ![p].actor_admin = SetBit(@, "AGG", TRUE),
                               ![p].actor = SetBit(@, "AGG", TRUE),
                               ![p].agg_id = g,
                               ![p].lacp_enabled = TRUE]
             w == WithPrio(f, p, prio)
  <2>1. p \in Port /\ g \in Agg BY <1>1, <1>3 DEF EnableCfg
  <2>2. prio \in Nat BY <1>1, <2>1 DEF Attr, NoPrio, Default_port_priority
  <2>3. port[p] \in PortRecord /\ port[p].actor \in Info /\ port[p].actor_admin \in Info
    BY <1>1, <2>1 DEF PortRecord
  <2>4. i \in Info /\ a \in Info /\ Alike(a, port[p].actor) /\ Alike(i, port[p].actor_admin)
    BY <2>3, SetBitType, SetBitAlike DEF StateBit
  <2>5. f = [port EXCEPT ![p] = t] BY <1>1, <2>1, <2>3 DEF PortRecord
  <2> HIDE DEF i, a, f
  <2>6. /\ t \in PortRecord /\ t.actor = a /\ t.actor_admin = i
        /\ Only(port[p], t, {"actor", "actor_admin", "agg_id", "lacp_enabled"})
    BY <2>1, <2>3, <2>4 DEF PortRecord, Only, Field
  <2> HIDE DEF t
  <2>7. Kept(port[p], t) BY <2>4, <2>6 DEF Kept, Only, Field, Setting
  <2>8. f \in [Port -> PortRecord] /\ Kept(port[q], f[q]) BY <1>1, <2>5, <2>6, <2>7, KeptLaws
  <2> HIDE DEF prio
  <2>10. w \in [Port -> PortRecord] BY <2>1, <2>2, <2>8, WithPrioType
  <2>11. Kept(f[q], w[q]) BY <2>1, <2>8, WithPrioKept
  <2>12. port' = port \/ port' = Reselect(w, g) BY <1>3 DEF EnableCfg, f, prio
  <2> HIDE DEF w
  <2>13. Kept(w[q], Reselect(w, g)[q]) BY <2>10, ReselectKept
  <2> QED BY <2>8, <2>11, <2>12, <2>13, KeptLaws
<1>4. CASE EnableLink
  <2> DEFINE p == args.port
             up == attr[p].link_status
  <2>1. CASE port' = port BY <2>1, KeptLaws
  <2>2. CASE p \in Listed /\ port' = LinkChanged(p, up)
    <3>1. p \in Port /\ up \in BOOLEAN BY <1>1, <2>2 DEF Attr
    <3>2. Kept(IF q = p THEN Linked(port[q], up) ELSE port[q], port'[q])
      BY <1>1, <2>2, <3>1, LinkChangedKept
    <3>3. pc = "enable_link" BY <1>4 DEF EnableLink
    <3> QED BY <3>2, <3>3
  <2> QED BY <1>4, <2>1, <2>2 DEF EnableLink
<1>5. CASE DisableLeave
  <2> DEFINE p == args.port
             f == Reselect(port, port[p].agg_id)
             t == [f[p] EXCEPT !.agg_id = 0, !.lacp_enabled = FALSE]
  <2>1. port' = [f EXCEPT ![p].agg_id = 0, ![p].lacp_enabled = FALSE] BY <1>5 DEF DisableLeave
  <2>2. f \in [Port -> PortRecord] /\ Kept(port[q], f[q]) BY <1>1, ReselectKept, ReselectType
  <2> HIDE DEF f
  <2>3. port'[q] = f[q] \/ (p \in Port /\ q = p /\ port'[q] = t) BY <2>1, <2>2 DEF PortRecord
  <2>4. ASSUME p \in Port PROVE Kept(f[p], t)
    <3>1. f[p] \in PortRecord BY <2>2, <2>4
    <3>2. Only(f[p], t, {"agg_id", "lacp_enabled"}) BY <3>1 DEF PortRecord, Only, Field
    <3>3. Only(f[p], t, Setting \ {"actor", "actor_admin", "ntt"}) BY <3>2 DEF Only, Setting
    <3> HIDE DEF t
    <3> QED BY <3>3, KeptLaws
  <2> QED BY <2>2, <2>3, <2>4, KeptLaws
<1>6. ASSUME NEW p \in Port, DisableNotify(p) PROVE Kept(port[q], port'[q])
  <2> DEFINE i == SetBit(port[p].actor_admin, "AGG", FALSE)
             a == SetBit(port[p].actor, "AGG", FALSE)
             t == [port[p] EXCEPT !.ntt = TRUE, !.actor_admin = i, !.actor = a]
  <2>1. port' = [port EXCEPT ![p] = t] BY <1>1, <1>6 DEF DisableNotify, PortRecord
  <2>2. port[p] \in PortRecord /\ port[p].actor \in Info /\ port[p].actor_admin \in Info
    BY <1>1 DEF PortRecord
  <2>3. Alike(a, port[p].actor) /\ Alike(i, port[p].actor_admin) BY <2>2, SetBitAlike
  <2> HIDE DEF i, a
  <2>4. /\ Only(port[p], t, {"actor", "actor_admin", "ntt"})
        /\ t.actor = a /\ t.actor_admin = i /\ t.ntt
    BY <2>2 DEF PortRecord, Only, Field
  <2> HIDE DEF t
  <2>5. Kept(port[p], t) BY <2>3, <2>4 DEF Kept, Only, Field, Setting
  <2> QED BY <1>1, <2>1, <2>5, KeptLaws
<1>7. ASSUME NEW p \in Port, RemovePort(p)
      PROVE  port'[q] = port[q] \/ (pc = "remove" /\ port'[q] = ZeroPort(q))
  BY <1>1, <1>7 DEF RemovePort
<1>8. CASE DisableUpdate \/ RemoveReturns
  BY <1>8, KeptLaws DEF DisableUpdate, RemoveReturns
<1> QED BY <1>3, <1>4, <1>5, <1>6, <1>7, <1>8, KeptLaws DEF Continue

-----------------------------------------------------------------------------
(* What one entry of a machine leaves of each port *)

\* An entry of the receive machine: its own port is as entered, but for a selection
\* that is taken back; of the others at most the selection goes.
LEMMA RunRxFrame ==
  ASSUME TypeInv, NEW p \in Port, RunRx(p)
  PROVE  /\ \E s \in RxState \ {"BEGIN"} :
               /\ RxGoes(port[p], s)
               /\ RxEnter(p, port[p], s) \in PortRecord
               /\ Only(RxEnter(p, port[p], s), port'[p], {"selected"})
         /\ \A q \in Port \ {p} : Only(port[q], port'[q], {"selected"})
<1>1. PICK s \in RxState :
        /\ RxGoes(port[p], s)
        /\ LET f == [port EXCEPT ![p] = RxEnter(p, port[p], s)]
           IN  port' = IF s = "CURRENT" /\ NewPartner(port[p])
                       THEN Reselect(f, port[p].agg_id) ELSE f
  BY DEF RunRx
<1> DEFINE t == RxEnter(p, port[p], s)
           f == [port EXCEPT ![p] = t]
<1>2. port \in [Port -> PortRecord] BY VarTypes DEF TypeInv
<1>3. s # "BEGIN" BY <1>1 DEF RxGoes
<1>4. t \in PortRecord BY <1>2, <1>3, RxEnterType
<1>5. port' = f \/ port' = Reselect(f, port[p].agg_id) BY <1>1
<1> HIDE DEF t
<1>6. f \in [Port -> PortRecord] /\ f[p] = t /\ \A q \in Port \ {p} : f[q] = port[q]
  BY <1>2, <1>4
<1> HIDE DEF f
<1>7. \A q \in Port : Only(f[q], port'[q], {"selected"})
  BY <1>5, <1>6, ReselectFrame DEF Only
<1>8. \A q \in Port \ {p} : Only(port[q], port'[q], {"selected"}) BY <1>6, <1>7
<1>9. Only(t, port'[p], {"selected"}) BY <1>6, <1>7
<1> QED BY <1>1, <1>3, <1>4, <1>8, <1>9 DEF t

\* The update of a group leaves the state octets.
LEMMA UpdateAggState ==
  ASSUME NEW f \in [Port -> PortRecord], NEW S \in SUBSET Port,
         NEW key \in [Port -> Word], NEW p \in Port
  PROVE  /\ Only(f[p], UpdateAggPortsSelect(f, S, key)[p],
                 {"actor", "selected", "standby", "master_port"})
         /\ UpdateAggPortsSelect(f, S, key)[p].actor.state = f[p].actor.state
<1> DEFINE u == UpdateAggPortsSelect(f, S, key)[p]
<1>1. /\ Only(f[p], u, {"actor", "selected", "standby", "master_port"})
      /\ \A x \in DOMAIN f[p].actor \ {"key"} : u.actor[x] = f[p].actor[x]
      /\ p \notin S => u = f[p]
  BY UpdateAggFrame, SMTT(30)
<1>2. f[p] \in PortRecord /\ f[p].actor \in Info BY DEF PortRecord
<1> HIDE DEF u
<1>3. u.actor.state = f[p].actor.state BY <1>1, <1>2 DEF Info
<1> QED BY <1>1, <1>3 DEF u

\* An entry of the selection logic writes keys, selections and masters.
LEMMA RunSelFrame ==
  ASSUME TypeInv, NEW p \in Port, RunSel(p), NEW q \in Port
  PROVE  /\ Only(port[q], port'[q], {"sel", "actor", "selected", "standby", "master_port"})
         /\ port'[q].actor.state = port[q].actor.state
<1> DEFINE key == [r \in Port |-> OperKey(PortTid(r), attr[r].speed, attr[r].duplex)]
           t == [port[p] EXCEPT !.sel = "SELECTION"]
           f == [port EXCEPT ![p] = t]
           S == Members(port[p].agg_id)
<1>1. port \in [Port -> PortRecord] /\ Listed \subseteq Port BY VarTypes DEF TypeInv
<1>2. t \in PortRecord BY <1>1 DEF PortRecord, SelState
<1>3. f \in [Port -> PortRecord] BY <1>1, <1>2
<1>4. Only(port[p], t, {"sel"}) BY <1>1 DEF PortRecord, Only, Field
<1>5. port[q] \in PortRecord /\ port[q].actor \in Info BY <1>1 DEF PortRecord
<1> HIDE DEF t
<1>6. Only(port[q], f[q], {"sel"}) BY <1>1, <1>4 DEF Only
<1>7. CASE port' = f
  BY <1>6, <1>7 DEF Only, Field
<1>8. CASE port' = [f EXCEPT ![p].selected = TRUE, ![p].standby = TRUE]
  <2> DEFINE u == [f[p] EXCEPT !.selected = TRUE, !.standby = TRUE]
  <2>1. port' = [f EXCEPT ![p] = u] BY <1>3, <1>8
  <2>2. f[p] \in PortRecord BY <1>3
  <2>3. Only(f[p], u, {"selected", "standby"}) BY <2>2 DEF PortRecord, Only, Field
  <2> HIDE DEF u, f
  <2>4. Only(f[q], port'[q], {"selected", "standby"}) BY <1>3, <2>1, <2>3 DEF Only
  <2> QED BY <1>6, <2>4 DEF Only, Field
<1>9. CASE port' = UpdateAggPortsSelect(f, S, key)
  <2>1. S \in SUBSET Port BY <1>1 DEF Members
  <2>2. key \in [Port -> Word]
    <3>1. \A r \in Port : PortTid(r) \in Agg \cup {0} BY PortTidType
    <3> QED BY <3>1, OperKeyType
  <2> HIDE DEF f, S, key
  <2>3. /\ Only(f[q], port'[q], {"actor", "selected", "standby", "master_port"})
        /\ port'[q].actor.state = f[q].actor.state
    BY <1>3, <1>9, <2>1, <2>2, UpdateAggState
  <2>4. f[q].actor = port[q].actor BY <1>6 DEF Only, Field
  <2> QED BY <1>6, <2>3, <2>4 DEF Only, Field
<1>10. \/ port' = f
       \/ port' = [f EXCEPT ![p].selected = TRUE, ![p].standby = TRUE]
       \/ port' = UpdateAggPortsSelect(f, S, key)
  <2>1. f = [port EXCEPT ![p].sel = "SELECTION"] BY <1>1 DEF t
  <2> QED BY <2>1 DEF RunSel
<1> QED BY <1>7, <1>8, <1>9, <1>10

\* An entry of the transmit machine.
LEMMA RunTxFrame ==
  ASSUME TypeInv, NEW p \in Port, RunTx(p)
  PROVE  /\ \E s \in TxState \ {"BEGIN"} :
               /\ TxGoes(port[p], s)
               /\ port'[p] = TxEnter(port[p], sys.slow_periodic_time,
                                     sys.fast_periodic_time, s)
         /\ Only(port[p], port'[p], {"tx", "periodic_timer", "hold_count", "ntt"})
         /\ \A q \in Port \ {p} : port'[q] = port[q]
<1>1. port \in [Port -> PortRecord] BY VarTypes DEF TypeInv
<1>2. PICK s \in TxState :
        /\ TxGoes(port[p], s)
        /\ port' = [port EXCEPT ![p] = TxEnter(port[p], sys.slow_periodic_time,
                                               sys.fast_periodic_time, s)]
  BY DEF RunTx
<1>3. s # "BEGIN" BY <1>2 DEF TxGoes
<1>4. port[p] \in PortRecord BY <1>1
<1>5. Only(port[p], TxEnter(port[p], sys.slow_periodic_time, sys.fast_periodic_time, s),
           {"tx", "periodic_timer", "hold_count", "ntt"})
  BY <1>3, <1>4, TxFrame
<1> QED BY <1>1, <1>2, <1>3, <1>5

\* An entry of the mux machine.
LEMMA RunMuxFrame ==
  ASSUME TypeInv, NEW p \in Port, RunMux(p)
  PROVE  /\ \E s \in MuxState \ {"BEGIN"} :
               /\ MuxGoes(port[p], SysIsReady(p), s)
               /\ port'[p] = MuxEnter(port[p], s)
               /\ port'[p].mux = s
         /\ Only(port[p], port'[p], {"mux", "ntt", "actor", "wait_while", "ready_n"})
         /\ \A q \in Port \ {p} : port'[q] = port[q]
<1>1. port \in [Port -> PortRecord] BY VarTypes DEF TypeInv
<1>2. PICK s \in MuxState :
        /\ MuxGoes(port[p], SysIsReady(p), s)
        /\ port' = [port EXCEPT ![p] = MuxEnter(port[p], s)]
  BY DEF RunMux
<1>3. s # "BEGIN" BY <1>2 DEF MuxGoes
<1>4. port[p] \in PortRecord BY <1>1
<1>5. /\ Only(port[p], MuxEnter(port[p], s), {"mux", "ntt", "actor", "wait_while", "ready_n"})
      /\ MuxEnter(port[p], s).mux = s
  BY <1>3, <1>4, MuxFrame
<1> QED BY <1>1, <1>2, <1>3, <1>5

-----------------------------------------------------------------------------
(* A port that attaches waits for its group *)

\* A port that is new to its group, or in the middle of its wait, is not ready.
ReadyOK == \A p \in Port : port[p].mux \in {"BEGIN", "WAITING"} => ~port[p].ready_n
ReadyInv == TypeInv /\ ReadyOK

\* Only an entry of the mux machine moves it or says that the port is ready.
OrNew == \A q \in Port : \/ port'[q].mux = port[q].mux /\ port'[q].ready_n = port[q].ready_n
                         \/ port'[q].mux = "BEGIN" /\ ~port'[q].ready_n

LEMMA NotMux ==
  ASSUME TypeInv, [Next]_vars, \A p \in Port : ~RunMux(p)
  PROVE  OrNew
<1>1. port \in [Port -> PortRecord] /\ attr \in [Port -> Attr] BY VarTypes DEF TypeInv
<1>2. \A q \in Port : /\ ZeroPort(q).mux = "BEGIN" /\ ~ZeroPort(q).ready_n
                      /\ \A mac : /\ FreshPort(q, mac).mux = "BEGIN"
                                  /\ ~FreshPort(q, mac).ready_n
  BY DEF ZeroPort, FreshPort
<1>3. ASSUME NEW p \in Port, RunRx(p) PROVE OrNew
  <2>1. PICK s \in RxState \ {"BEGIN"} :
              Only(RxEnter(p, port[p], s), port'[p], {"selected"})
    BY <1>3, RunRxFrame
  <2>2. port[p] \in PortRecord BY <1>1
  <2>3. Only(port[p], RxEnter(p, port[p], s),
             {"rx", "actor", "partner", "msg", "current_while", "port_moved", "selected", "ntt"})
    BY <2>2, RxFrame
  <2>4. port'[p].mux = port[p].mux /\ port'[p].ready_n = port[p].ready_n
    BY <2>1, <2>3 DEF Only, Field
  <2>5. \A q \in Port \ {p} : Only(port[q], port'[q], {"selected"}) BY <1>3, RunRxFrame
  <2> QED BY <2>4, <2>5 DEF OrNew, Only, Field
<1>4. ASSUME NEW p \in Port, RunSel(p) PROVE OrNew
  BY <1>4, RunSelFrame DEF OrNew, Only, Field
<1>5. ASSUME NEW p \in Port, RunTx(p) PROVE OrNew
  BY <1>5, RunTxFrame DEF OrNew, Only, Field
<1>6. ASSUME NEW t \in PortRecord, NEW up PROVE Only(t, Linked(t, up), {"port_enabled"})
  BY DEF Linked, PortRecord, Only, Field
<1>7. \A t, u : Only(t, u, Setting \cup {"port_enabled"} \cup Timer \cup Arrival)
               => u.mux = t.mux /\ u.ready_n = t.ready_n
  BY DEF Only, Field, Setting, Timer, Arrival
<1>9. \A q \in Port : \A u :
         Kept(port[q], u) \/ (\E up : Kept(Linked(port[q], up), u))
         => u.mux = port[q].mux /\ u.ready_n = port[q].ready_n
  <2> SUFFICES ASSUME NEW q \in Port, NEW u, NEW up,
                      Kept(port[q], u) \/ Kept(Linked(port[q], up), u)
               PROVE  Only(port[q], u, Setting \cup {"port_enabled"} \cup Timer \cup Arrival)
    BY <1>7
  <2>1. port[q] \in PortRecord BY <1>1
  <2> QED BY <1>6, <2>1 DEF Kept, Only
<1>10. CASE Continue BY <1>2, <1>9, <1>10, ContinueKept DEF OrNew
<1>11. CASE OneSecond \/ Command
  <2>1. ASSUME NEW q \in Port, Only(port[q], port'[q], Timer \cup Arrival)
        PROVE  port'[q].mux = port[q].mux /\ port'[q].ready_n = port[q].ready_n
    BY <1>7, <2>1 DEF Only
  <2>2. ASSUME NEW q \in Port
        PROVE  \/ port'[q].mux = port[q].mux /\ port'[q].ready_n = port[q].ready_n
               \/ port'[q].mux = "BEGIN" /\ ~port'[q].ready_n
    <3>1. \/ Kept(port[q], port'[q])
          \/ \E up \in BOOLEAN : Kept(Linked(port[q], up), port'[q])
          \/ Only(port[q], port'[q], Timer \cup Arrival)
          \/ q \notin Listed /\ \E mac \in OwnMac : port'[q] = FreshPort(q, mac)
      BY <1>1, <1>11, CommandKept
    <3>2. CASE \/ Kept(port[q], port'[q])
               \/ \E up \in BOOLEAN : Kept(Linked(port[q], up), port'[q])
      BY <1>9, <3>2, Zenon
    <3>3. CASE Only(port[q], port'[q], Timer \cup Arrival) BY <2>1, <3>3
    <3>4. CASE q \notin Listed /\ \E mac \in OwnMac : port'[q] = FreshPort(q, mac)
      BY <1>2, <3>4
    <3> QED BY <3>1, <3>2, <3>3, <3>4
  <2> QED BY <2>2 DEF OrNew
<1>8. CASE UNCHANGED port BY <1>8 DEF OrNew
<1> QED BY <1>3, <1>4, <1>5, <1>8, <1>10, <1>11 DEF Next, Update, UpdateReturns, Run, vars

\* The invariant is kept by every step.
LEMMA ReadyStep == ReadyInv /\ [Next]_vars => ReadyInv'
<1> SUFFICES ASSUME TypeInv, ReadyOK, [Next]_vars PROVE ReadyOK'
  BY NextType DEF ReadyInv
<1>1. ASSUME NEW p \in Port, RunMux(p) PROVE ReadyOK'
  <2>1. PICK s \in MuxState \ {"BEGIN"} : port'[p] = MuxEnter(port[p], s) /\ port'[p].mux = s
    BY <1>1, RunMuxFrame
  <2>2. port[p] \in PortRecord BY VarTypes DEF TypeInv
  <2>3. s = "WAITING" => ~MuxEnter(port[p], s).ready_n
    BY <2>2 DEF MuxEnter, EnterWaiting, PortRecord
  <2> QED BY <1>1, <2>1, <2>3, RunMuxFrame DEF ReadyOK
<1> QED BY <1>1, NotMux DEF OrNew, ReadyOK

\* A port attaches only while no other port in use of its group is in the middle of its
\* wait or has never waited: sys_is_ready asks every port in use of the group for
\* ready_n, which a new port has not set and the entry to WAITING takes back.
THEOREM AttachingWaits == Spec => AttachWaits
<1> DEFINE W == \A p \in Port :
                  port[p].mux = "READY_N" /\ port'[p].mux = "ATTACHED" =>
                     \A q \in Members(port[p].agg_id) :
                        InUse(port[q]) => port[q].mux \notin {"BEGIN", "WAITING"}
<1>1. Init => ReadyInv
  BY InitType DEF Init, ReadyInv, ReadyOK, ZeroPort
<1>2. ReadyInv /\ [Next]_vars => [W]_vars
  <2> SUFFICES ASSUME ReadyInv, [Next]_vars, NEW p \in Port,
                      port[p].mux = "READY_N", port'[p].mux = "ATTACHED",
                      NEW q \in Members(port[p].agg_id), InUse(port[q])
               PROVE  port[q].mux \notin {"BEGIN", "WAITING"}
    OBVIOUS
  <2>1. PICK r \in Port : RunMux(r) BY NotMux DEF OrNew, ReadyInv
  <2>2. p = r BY <2>1, RunMuxFrame DEF ReadyInv
  <2>3. PICK s \in MuxState : MuxGoes(port[p], SysIsReady(p), s) /\ s = "ATTACHED"
    BY <2>1, <2>2, RunMuxFrame DEF ReadyInv
  <2>4. SysIsReady(p) BY <2>3 DEF MuxGoes
  <2>5. q \in Listed /\ port[q].agg_id = port[p].agg_id /\ q \in Port
    BY VarTypes DEF Members, ReadyInv, TypeInv
  <2> QED BY <2>4, <2>5 DEF SysIsReady, ReadyInv, ReadyOK
<1>3. Spec => [][W]_vars BY <1>1, <1>2, ReadyStep, PTL DEF Spec
<1> QED BY <1>3 DEF AttachWaits
-----------------------------------------------------------------------------
(* A bridge of a network: what a port sends and hears.  A LACPDU tells the     *)
(* neighbour whether this port is in sync, and whether it has heard that the   *)
(* neighbour is.  What follows is of one port and all that it does between     *)
(* two LACPDUs.                                                              *)

Syn(t) == Bit(t.actor, "SYN")
Sees(t) == Bit(t.partner, "SYN")

\* The neighbour that has k on record need not be told, or is going to be.  A port whose
\* machines have not started says so when they do, one that has defaulted speaks when it
\* detaches.
Right(t, k) ==
    \/ k <=> Syn(t)
    \/ t.ntt
    \/ ~Syn(t) /\ (t.mux \in {"BEGIN", "DISABLE"} \/ Attached(t))

\* A LACPDU that says that the neighbour is not in sync has been, or will be, corrected.
Hush(t) == t.ntt \/ ~Syn(t)

\* The port has told the neighbour that it is in sync and waits for the same.
Waits(t) == t.mux = "ATTACHED" /\ ~Sees(t) /\ ~t.ntt /\ ~t.msg.rcvd

\* What any step of a bridge may make of record t, but a transmission or an arrival: what
\* the neighbour knows stays right, a wait begins only with word of the neighbour or
\* without a link, and what is on record was on record or has been heard.
Follows(t, u) ==
    /\ \A k \in BOOLEAN : Right(t, k) => Right(u, k)
    /\ Hush(t) => Hush(u)
    /\ Waits(u) => \/ Waits(t)
                   \/ t.mux = "ATTACHED" /\ t.msg.rcvd /\ ~Bit(t.msg.actor, "SYN")
                   \/ ~u.port_enabled
    /\ u.msg.rcvd => u.msg = t.msg
    /\ u.rx = "CURRENT" /\ ~u.msg.rcvd =>
          \/ t.rx = "CURRENT" /\ ~t.msg.rcvd /\ (Sees(u) => Sees(t))
          \/ /\ t.msg.rcvd /\ (Sees(u) => Bit(t.msg.actor, "SYN"))
             /\ ~Bit(t.msg.partner, "SYN") => Hush(u)

\* A port is active.  One that is attached without the neighbour on record has lost its
\* link, and one whose neighbour falls silent is not waiting for traffic.
ActiveSays(t) ==
    /\ Bit(t.actor_admin, "ACT")
    /\ t.rx # "BEGIN" => Bit(t.actor, "ACT")
HeardSays(t) ==
    /\ t.mux = "ATTACHED" /\ t.rx = "CURRENT" /\ t.current_while = 0 /\ ~t.msg.rcvd
         => ~Sees(t)
    /\ Attached(t) /\ t.rx \notin {"CURRENT", "EXPIRED", "DEFAULTED"}
         => t.rx = "PORT_DISABLED" /\ ~t.port_enabled
Says(t) == ActiveSays(t) /\ HeardSays(t)

\* A port that is not in the list.
Blank(t) == t.rx = "BEGIN" /\ t.mux = "BEGIN" /\ ~t.msg.rcvd

\* u talks as t does.
SameTalk(t, u) ==
    /\ u.rx = t.rx /\ u.mux = t.mux /\ u.msg = t.msg /\ u.ntt = t.ntt
    /\ Syn(u) <=> Syn(t)
    /\ Sees(u) <=> Sees(t)

\* The fields none of this reads.
Unread ==
    {"sel", "tx", "periodic_timer", "wait_while", "master_port", "port_moved",
     "lacp_enabled", "selected", "standby", "speed", "duplex", "agg_id", "ready_n",
     "hold_count"}

\* What a record says that talks as another one does.
LEMMA TalkLaws ==
  /\ \A t, u : SameTalk(t, u) => Follows(t, u)
  /\ \A t, u, v : Follows(t, u) /\ SameTalk(u, v) /\ v.port_enabled = u.port_enabled
                  => Follows(t, v)
  /\ \A t, u : Only(t, u, Unread \cup {"actor"}) /\ u.actor.state = t.actor.state
               => /\ SameTalk(t, u) /\ u.port_enabled = t.port_enabled
                  /\ Says(t) => Says(u)
                  /\ Blank(t) => Blank(u)
  /\ \A t, u : Only(t, u, Unread)
               => /\ SameTalk(t, u) /\ u.port_enabled = t.port_enabled
                  /\ Says(t) => Says(u)
                  /\ Blank(t) => Blank(u)
<1>1. \A t, u : SameTalk(t, u) => Follows(t, u)
  BY DEF SameTalk, Follows, Right, Hush, Waits, Attached
<1>2. ASSUME NEW t, NEW u, NEW v, Follows(t, u), SameTalk(u, v),
             v.port_enabled = u.port_enabled
      PROVE  Follows(t, v)
  BY <1>2 DEF SameTalk, Follows, Right, Hush, Waits, Attached
<1>3. ASSUME NEW t, NEW u, Only(t, u, Unread \cup {"actor"}), u.actor.state = t.actor.state
      PROVE  /\ SameTalk(t, u) /\ u.port_enabled = t.port_enabled
             /\ Says(t) => Says(u)
             /\ Blank(t) => Blank(u)
  <2>1. /\ u.rx = t.rx /\ u.mux = t.mux /\ u.msg = t.msg /\ u.ntt = t.ntt
        /\ u.partner = t.partner /\ u.actor_admin = t.actor_admin
        /\ u.current_while = t.current_while /\ u.port_enabled = t.port_enabled
    BY <1>3 DEF Only, Field, Unread
  <2>2. \A b : Bit(u.actor, b) <=> Bit(t.actor, b) BY <1>3 DEF Bit
  <2> QED
    BY <2>1, <2>2
       DEF SameTalk, Syn, Sees, Says, ActiveSays, HeardSays, Attached, Blank
<1>4. \A t, u : Only(t, u, Unread)
                => Only(t, u, Unread \cup {"actor"}) /\ u.actor.state = t.actor.state
  BY DEF Only, Field, Unread
<1> QED BY <1>1, <1>2, <1>3, <1>4

\* Settings.
LEMMA KeptFollows ==
  ASSUME NEW t, NEW u, Kept(t, u)
  PROVE  /\ Follows(t, u)
         /\ u.port_enabled = t.port_enabled /\ u.mux = t.mux
         /\ Says(t) => Says(u)
         /\ Blank(t) => Blank(u)
<1>1. /\ u.rx = t.rx /\ u.mux = t.mux /\ u.msg = t.msg /\ u.partner = t.partner
      /\ u.current_while = t.current_while /\ u.port_enabled = t.port_enabled
  BY DEF Kept, Only, Field, Setting
<1>2. /\ Syn(u) <=> Syn(t)
      /\ Bit(u.actor, "ACT") <=> Bit(t.actor, "ACT")
      /\ Bit(u.actor_admin, "ACT") <=> Bit(t.actor_admin, "ACT")
      /\ t.ntt => u.ntt
  BY DEF Kept, Alike, MuxBit, Syn
<1>3. Follows(t, u) BY <1>1, <1>2 DEF Follows, Right, Hush, Waits, Attached, Sees
<1> QED BY <1>1, <1>2, <1>3 DEF Says, ActiveSays, HeardSays, Attached, Blank, Sees

\* The link.
LEMMA LinkedFollows ==
  ASSUME NEW t \in PortRecord, NEW up, NEW u, Kept(Linked(t, up), u)
  PROVE  /\ Follows(t, u)
         /\ u.port_enabled = up /\ u.mux = t.mux
         /\ Says(t) /\ (Attached(t) => t.rx \in {"CURRENT", "EXPIRED"}) => Says(u)
         /\ Blank(t) => Blank(u)
<1> DEFINE l == Linked(t, up)
<1>1. /\ l.rx = t.rx /\ l.mux = t.mux /\ l.msg = t.msg /\ l.partner = t.partner
      /\ l.actor = t.actor /\ l.actor_admin = t.actor_admin /\ l.ntt = t.ntt
      /\ l.current_while = t.current_while /\ l.port_enabled = up
  BY DEF Linked, PortRecord
<1>2. /\ Follows(l, u)
      /\ u.port_enabled = l.port_enabled /\ u.mux = l.mux
      /\ Says(l) => Says(u)
      /\ Blank(l) => Blank(u)
  BY KeptFollows
<1> HIDE DEF l
<1>3. Follows(t, u) BY <1>1, <1>2 DEF Follows, Right, Hush, Waits, Attached, Syn, Sees
<1>4. Says(t) /\ (Attached(t) => t.rx \in {"CURRENT", "EXPIRED"}) => Says(l)
  BY <1>1 DEF Says, ActiveSays, HeardSays, Attached, Sees
<1>5. Blank(t) => Blank(l) BY <1>1 DEF Blank
<1> QED BY <1>1, <1>2, <1>3, <1>4, <1>5

\* A port that begins anew or is gone.
LEMMA BlankFollows ==
  ASSUME NEW t, NEW u, Blank(u), ~Syn(u)
  PROVE  Follows(t, u)
BY DEF Blank, Follows, Right, Hush, Waits

LEMMA NewRecords ==
  ASSUME NEW p \in Port, NEW mac
  PROVE  /\ Blank(ZeroPort(p)) /\ ~Syn(ZeroPort(p))
         /\ Blank(FreshPort(p, mac)) /\ ~Syn(FreshPort(p, mac))
         /\ Says(FreshPort(p, mac)) /\ ~FreshPort(p, mac).port_enabled
BY DEF Blank, Syn, Bit, ZeroPort, FreshPort, ZeroInfo, NoMsg, ActorInit, Says, ActiveSays,
       HeardSays, Attached

\* The receive machine.
LEMMA RxFollows ==
  ASSUME NEW p \in Port, NEW a, NEW t \in PortRecord, NEW s \in RxState, RxGoes(t, s),
         RxSays(t), RecordSays(a, t), Says(t), LongTimeout # 0, ShortTimeout # 0
  PROVE  Follows(t, RxEnter(p, t, s)) /\ Says(RxEnter(p, t, s))
<1> DEFINE u == RxEnter(p, t, s)
<1>1. s # "BEGIN" BY DEF RxGoes
<1>2. /\ t.actor \in Info /\ t.partner \in Info /\ t.actor_admin \in Info /\ t.msg \in Msg
      /\ Only(t, u, {"rx", "actor", "partner", "msg", "current_while", "port_moved",
                     "selected", "ntt"})
      /\ u.rx = s
  BY <1>1, RxFrame DEF PortRecord
<1>3. /\ u.mux = t.mux /\ u.port_enabled = t.port_enabled /\ u.actor_admin = t.actor_admin
      /\ Attached(u) <=> Attached(t)
  BY <1>2 DEF Only, Field, Attached
<1>4. \A i \in Info, b \in {"DEF", "EXP"}, v \in BOOLEAN :
         SetBit(i, b, v) \in Info /\ Alike(SetBit(i, b, v), i)
  BY SetBitType, SetBitAlike DEF StateBit
<1>5. \A i \in Info : Alike(SetBit(SetBit(i, "DEF", TRUE), "EXP", FALSE), i)
                      /\ Alike(SetBit(SetBit(i, "DEF", FALSE), "EXP", FALSE), i)
  BY <1>4 DEF Alike
<1>6. \A i, j : Alike(i, j) => /\ Bit(i, "SYN") <=> Bit(j, "SYN")
                               /\ Bit(i, "ACT") <=> Bit(j, "ACT")
  BY DEF Alike, MuxBit
<1>7. CASE s = "INITIALIZE"
  <2>1. /\ u.ntt = t.ntt /\ u.msg = t.msg
        /\ u.actor = SetBit(SetBit(t.actor_admin, "DEF", TRUE), "EXP", FALSE)
    BY <1>7 DEF RxEnter, EnterInitialize, PortRecord
  <2>2. Alike(u.actor, t.actor_admin) BY <1>2, <1>5, <2>1
  <2> HIDE DEF u
  <2>3. ~Attached(t) BY <1>7 DEF RxGoes, RecordSays, LinkSays
  <2>4. ~Syn(u) /\ Bit(u.actor, "ACT")
    BY <1>6, <2>2 DEF Syn, Says, ActiveSays, RecordSays, ActorSays, Bare, MuxBit
  <2>5. t.mux \notin {"BEGIN", "DISABLE"} => ~Syn(t)
    BY <2>3 DEF PortRecord, MuxState, Attached, RecordSays, ActorSays, Bare, MuxBit, Syn
  <2>6. Follows(t, u)
    BY <1>2, <1>3, <1>7, <2>1, <2>3, <2>4, <2>5 DEF Follows, Right, Hush, Waits, Attached
  <2>7. Says(u)
    BY <1>2, <1>3, <1>7, <2>3, <2>4 DEF Says, ActiveSays, HeardSays, Attached
  <2> QED BY <2>6, <2>7 DEF u
<1>8. CASE s = "PORT_DISABLED"
  <2>1. u.ntt = t.ntt /\ u.msg = NoMsg /\ u.actor = t.actor
    BY <1>8 DEF RxEnter, EnterPortDisabled, PortRecord
  <2> HIDE DEF u
  <2>2. Attached(t) => ~t.port_enabled
    BY <1>8 DEF RxGoes, LinkLost, Says, HeardSays
  <2>3. t.rx # "BEGIN" BY <1>8 DEF RxGoes, LinkLost
  <2>4. ~u.msg.rcvd BY <2>1 DEF NoMsg
  <2>5. Follows(t, u)
    BY <1>2, <1>3, <1>8, <2>1, <2>2, <2>4
       DEF Follows, Right, Hush, Waits, Attached, Syn, Sees
  <2>6. Says(u)
    BY <1>2, <1>3, <1>8, <2>1, <2>2, <2>3 DEF Says, ActiveSays, HeardSays, Attached
  <2> QED BY <2>5, <2>6 DEF u
<1>9. CASE s = "LACP_DISABLED"
  <2>1. /\ u.ntt = t.ntt /\ u.msg = t.msg
        /\ u.actor = SetBit(t.actor, "DEF", TRUE)
    BY <1>9 DEF RxEnter, EnterLacpDisabled, PortRecord
  <2>2. Alike(u.actor, t.actor) BY <1>2, <1>4, <2>1
  <2> HIDE DEF u
  <2>3. ~Attached(t) /\ t.rx # "BEGIN" BY <1>9 DEF RxGoes, Says, HeardSays
  <2>4. (Syn(u) <=> Syn(t)) /\ (Bit(u.actor, "ACT") <=> Bit(t.actor, "ACT"))
    BY <1>6, <2>2 DEF Syn
  <2>5. Follows(t, u)
    BY <1>2, <1>3, <1>9, <2>1, <2>3, <2>4 DEF Follows, Right, Hush, Waits, Attached
  <2>6. Says(u)
    BY <1>2, <1>3, <1>9, <2>3, <2>4 DEF Says, ActiveSays, HeardSays, Attached
  <2> QED BY <2>5, <2>6 DEF u
<1>10. CASE s = "EXPIRED"
  <2>1. /\ u.ntt = t.ntt /\ u.msg = t.msg
        /\ u.actor = SetBit(t.actor, "EXP", TRUE)
    BY <1>10 DEF RxEnter, EnterExpired, PortRecord
  <2>2. Alike(u.actor, t.actor) BY <1>2, <1>4, <2>1
  <2> HIDE DEF u
  <2>3. Attached(t) => t.rx = "CURRENT" /\ t.current_while = 0 /\ ~t.msg.rcvd
    BY <1>10 DEF RxGoes, Says, HeardSays
  <2>4. /\ t.rx # "BEGIN"
        /\ (Syn(u) <=> Syn(t)) /\ (Bit(u.actor, "ACT") <=> Bit(t.actor, "ACT"))
    BY <1>6, <1>10, <2>2 DEF Syn, RxGoes
  <2>5. Follows(t, u)
    BY <1>2, <1>3, <1>10, <2>1, <2>3, <2>4
       DEF Follows, Right, Hush, Waits, Attached, Says, HeardSays
  <2>6. Says(u)
    BY <1>2, <1>3, <1>10, <2>4 DEF Says, ActiveSays, HeardSays
  <2> QED BY <2>5, <2>6 DEF u
<1>11. CASE s = "DEFAULTED"
  <2> DEFINE other == ~SamePartner(PartnerAdmin(p), t.partner)
             lost == SetBit(SetBit(t.actor, "DEF", TRUE), "EXP", FALSE)
             new == IF other THEN SetBit(lost, "SYN", FALSE) ELSE lost
  <2>1. /\ u.ntt = t.ntt /\ u.msg = t.msg /\ u.actor = new
        /\ u.partner = PartnerAdmin(p)
    BY <1>11 DEF RxEnter, EnterDefaulted, PortRecord
  <2>2. Alike(lost, t.actor) /\ lost \in Info
    <3>1. SetBit(t.actor, "DEF", TRUE) \in Info BY <1>2, <1>4
    <3> QED BY <1>2, <1>4, <1>5, <3>1
  <2> HIDE DEF lost, other
  <2>3. /\ Bit(new, "ACT") <=> Bit(t.actor, "ACT")
        /\ Bit(new, "SYN") => Bit(t.actor, "SYN")
    <3>1. /\ Bit(SetBit(lost, "SYN", FALSE), "ACT") <=> Bit(lost, "ACT")
          /\ ~Bit(SetBit(lost, "SYN", FALSE), "SYN")
      BY <2>2 DEF Bit, SetBit, Info
    <3> QED BY <1>6, <2>2, <3>1
  <2> HIDE DEF u, new
  <2>4. Sees(u) BY <2>1 DEF Sees, Bit, PartnerAdmin
  <2>5. t.rx = "EXPIRED" BY <1>11 DEF RxGoes, LinkLost
  <2>6. t.mux \in {"BEGIN", "DISABLE"} \/ Attached(t) \/ ~Syn(t)
    BY DEF PortRecord, MuxState, Attached, RecordSays, ActorSays, Bare, MuxBit, Syn
  <2>7. Follows(t, u)
    BY <1>2, <1>3, <1>11, <2>1, <2>3, <2>4, <2>6
       DEF Follows, Right, Hush, Waits, Attached, Syn
  <2>8. Says(u)
    BY <1>2, <1>3, <1>11, <2>1, <2>3, <2>5 DEF Says, ActiveSays, HeardSays
  <2> QED BY <2>7, <2>8 DEF u
<1>12. CASE s = "CURRENT"
  <2> DEFINE match == PartnerMatched(t)
             behind == PartnerIsBehind(t)
             on == match /\ Bit(t.msg.actor, "SYN")
  <2>1. /\ u.ntt = (t.ntt \/ behind \/ ~match) /\ u.msg = NoMsg
        /\ u.actor = SetBit(SetBit(t.actor, "DEF", FALSE), "EXP", FALSE)
        /\ u.partner = SetBit(t.msg.actor, "SYN", on)
        /\ u.current_while = TimeoutOf(Bit(t.actor, "TMT"))
    BY <1>12 DEF RxEnter, EnterCurrent, PortRecord
  <2>2. ~behind => (Bit(t.msg.partner, "SYN") <=> Syn(t)) BY DEF PartnerIsBehind, Syn
  <2>3. Alike(u.actor, t.actor) BY <1>2, <1>5, <2>1
  <2>4. u.current_while # 0 BY <2>1 DEF TimeoutOf
  <2> HIDE DEF u, match, behind
  <2>5. t.msg.rcvd /\ t.rx # "BEGIN" BY <1>12 DEF RxGoes
  <2>6. t.msg.actor \in Info
    <3>1. t.msg \in Pdu BY <1>2, <2>5 DEF Msg, NoMsg
    <3> QED BY <3>1 DEF Pdu
  <2>7. Sees(u) <=> match /\ Bit(t.msg.actor, "SYN")
    BY <2>1, <2>6 DEF Sees, Bit, SetBit, Info
  <2>8. ~u.msg.rcvd BY <2>1 DEF NoMsg
  <2>9. (Syn(u) <=> Syn(t)) /\ (Bit(u.actor, "ACT") <=> Bit(t.actor, "ACT"))
    BY <1>6, <2>3 DEF Syn
  <2>10. Follows(t, u)
    BY <1>2, <1>3, <1>12, <2>1, <2>2, <2>5, <2>7, <2>8, <2>9
       DEF Follows, Right, Hush, Waits, Attached
  <2>11. Says(u)
    BY <1>2, <1>3, <1>12, <2>4, <2>5, <2>9 DEF Says, ActiveSays, HeardSays
  <2> QED BY <2>10, <2>11 DEF u
<1> QED BY <1>1, <1>7, <1>8, <1>9, <1>10, <1>11, <1>12 DEF RxState

\* The mux machine, when the receive machine has nothing to do.
LEMMA MuxFollows ==
  ASSUME NEW a, NEW t \in PortRecord, NEW ready, NEW s \in MuxState, MuxGoes(t, ready, s),
         \A r \in RxState : ~RxGoes(t, r), RxSays(t), RecordSays(a, t), Says(t)
  PROVE  /\ Follows(t, MuxEnter(t, s)) /\ Says(MuxEnter(t, s))
         /\ Attached(MuxEnter(t, s)) => Attached(t) \/ t.port_enabled
<1> DEFINE u == MuxEnter(t, s)
<1>1. s # "BEGIN" BY DEF MuxGoes
<1>2. /\ Only(t, u, {"mux", "ntt", "actor", "wait_while", "ready_n"})
      /\ u.mux = s
      /\ t.actor \in Info
  BY <1>1, MuxFrame DEF PortRecord
<1>3. /\ u.rx = t.rx /\ u.msg = t.msg /\ u.port_enabled = t.port_enabled
      /\ u.partner = t.partner /\ u.current_while = t.current_while
      /\ u.actor_admin = t.actor_admin
  BY <1>2 DEF Only, Field
<1>4. /\ s \in {"DISABLE", "DETACHED", "ATTACHED"} =>
            /\ u.actor = [t.actor EXCEPT !.state = (@ \ {"SYN", "COL", "DIS"}) \cup MuxBits(s)]
            /\ u.ntt = (s # "DISABLE")
      /\ s \in {"WAITING", "READY_N"} => u.actor = t.actor /\ u.ntt = t.ntt
      /\ s = "RX_TX" => /\ u.actor = [t.actor EXCEPT !.state = @ \cup {"COL", "DIS"}]
                        /\ u.ntt = TRUE
  BY DEF MuxEnter, EnterWaiting, PortRecord, Info
<1> HIDE DEF u
<1>5. /\ Bit(t.actor, "ACT") => Bit(u.actor, "ACT")
      /\ s = "DISABLE" => ~Syn(u)
  BY <1>1, <1>2, <1>4 DEF MuxState, MuxBits, Bit, Info, Syn
<1>6. /\ s = "WAITING" => t.mux = "DETACHED"
      /\ s = "READY_N" => t.mux = "WAITING"
      /\ s = "RX_TX" => t.lacp_enabled /\ InUse(t)
      /\ s = "ATTACHED" => t.lacp_enabled /\ (InUse(t) \/ t.mux = "RX_TX")
  BY DEF MuxGoes
<1>7. InUse(t) => t.port_enabled BY DEF RecordSays, LinkSays
<1>8. InUse(t) /\ t.lacp_enabled => t.rx \in {"CURRENT", "EXPIRED", "DEFAULTED"}
  BY <1>7 DEF RxGoes, LinkLost, PortRecord, RxState
<1>9. ~(t.rx = "CURRENT" /\ t.current_while = 0 /\ ~t.msg.rcvd)
  BY DEF RxGoes, RxState
<1>10. Follows(t, u)
  BY <1>1, <1>2, <1>3, <1>4, <1>5, <1>6
     DEF Follows, Right, Hush, Waits, Attached, Syn, Sees, MuxState
<1>11. Says(u)
  BY <1>2, <1>3, <1>5, <1>6, <1>7, <1>8, <1>9 DEF Says, ActiveSays, HeardSays, Attached
<1>12. Attached(u) => Attached(t) \/ t.port_enabled
  BY <1>2, <1>6, <1>7 DEF Attached
<1> QED BY <1>10, <1>11, <1>12 DEF u

\* The transmit machine between two LACPDUs.
LEMMA TxFollows ==
  ASSUME NEW t \in PortRecord, NEW slow, NEW fast, NEW s \in TxState \ {"BEGIN"}
  PROVE  /\ s # "TX" => Follows(t, TxEnter(t, slow, fast, s))
         /\ s = "TX" => Only(t, TxEnter(t, slow, fast, s), {"tx", "hold_count", "ntt"})
                        /\ ~TxEnter(t, slow, fast, s).ntt
         /\ TxEnter(t, slow, fast, s).tx = s
         /\ Says(t) => Says(TxEnter(t, slow, fast, s))
<1> DEFINE u == TxEnter(t, slow, fast, s)
<1>1. Only(t, u, {"tx", "periodic_timer", "hold_count", "ntt"}) BY TxFrame
<1>2. /\ s # "TX" => (t.ntt => u.ntt)
      /\ s = "TX" => ~u.ntt /\ Only(t, u, {"tx", "hold_count", "ntt"})
      /\ u.tx = s
  BY DEF TxEnter, EnterPeriodic, PortRecord, TxState, Only, Field
<1> HIDE DEF u
<1>3. /\ u.rx = t.rx /\ u.mux = t.mux /\ u.msg = t.msg /\ u.partner = t.partner
      /\ u.actor = t.actor /\ u.actor_admin = t.actor_admin
      /\ u.current_while = t.current_while /\ u.port_enabled = t.port_enabled
  BY <1>1 DEF Only, Field
<1>4. s # "TX" => Follows(t, u)
  BY <1>2, <1>3 DEF Follows, Right, Hush, Waits, Attached, Syn, Sees
<1>5. Says(t) => Says(u) BY <1>3 DEF Says, ActiveSays, HeardSays, Attached, Sees
<1> QED BY <1>2, <1>4, <1>5 DEF u

\* A second, to a port that is settled.
LEMMA TickedFollows ==
  ASSUME NEW a, NEW t \in PortRecord, Settled(t), RxSays(t), Usable(t), RecordSays(a, t),
         Says(t)
  PROVE  Follows(t, Ticked(t)) /\ Says(Ticked(t))
<1> DEFINE u == Ticked(t)
<1>1. Only(t, u, {"current_while", "periodic_timer", "wait_while", "hold_count"})
  BY TickedFrame
<1> HIDE DEF u
<1>2. /\ u.rx = t.rx /\ u.mux = t.mux /\ u.msg = t.msg /\ u.partner = t.partner
      /\ u.actor = t.actor /\ u.actor_admin = t.actor_admin /\ u.ntt = t.ntt
      /\ u.port_enabled = t.port_enabled
  BY <1>1 DEF Only, Field
<1>3. Follows(t, u)
  BY <1>2 DEF Follows, Right, Hush, Waits, Attached, Syn, Sees
<1>4. t.mux = "ATTACHED" => ~Sees(t)
  <2>1. ~MuxGoes(t, FALSE, "RX_TX") /\ ~MuxGoes(t, FALSE, "DETACHED")
        /\ ~MuxGoes(t, FALSE, "DISABLE")
    BY DEF Settled, MuxState
  <2> QED BY <2>1 DEF MuxGoes, Sees
<1>5. Says(u) BY <1>2, <1>4 DEF Says, ActiveSays, HeardSays, Attached, Sees
<1> QED BY <1>3, <1>5 DEF u

-----------------------------------------------------------------------------
(* The invariant of a bridge whose links the manager alone sets and whose      *)
(* timeouts are not zero                                                     *)

BlankOK == \A p \in Port \ Listed : Blank(port[p])
SaysOK == \A p \in Listed : Says(port[p])

\* The protocol knows the link that the chip knows; the port that a call enables is told
\* of it last.
Joining(p) == {"enable_cfg", "enable_link"} \cap {pc, ret} # {} /\ p = args.port
LinkedOK ==
    \A p \in Listed :
       \/ port[p].port_enabled = attr[p].link_status
       \/ Joining(p) /\ ~port[p].port_enabled /\ ~Attached(port[p])

\* The receive machine has nothing to do while another machine of its port runs.
TurnOK == cur # NoMachine /\ cur[2] # "rx" => ~CanHop(cur[1], "rx")

\* Where the thread rests, nothing is left to transmit.
TxRest == pc \in {"idle", "enable_link", "remove"} => \A p \in Listed : ~CanHop(p, "tx")
CallRest == pc = "idle" => ret = "idle" /\ cur = NoMachine /\ args = NoArgs

LinkParts == BlankOK /\ SaysOK /\ LinkedOK /\ TurnOK /\ TxRest /\ CallRest
LinkInv == ChipInv /\ LinkParts

\* A step after which every port follows from what it was.
AllFollow == \A q \in Port : Follows(port[q], port'[q])
SameLinks == \A q \in Port : attr'[q].link_status = attr[q].link_status

LEMMA LinkFacts ==
  ASSUME LinkInv
  PROVE  /\ ChipInv /\ TypeInv /\ CallOK /\ CurOK
         /\ BlankOK /\ SaysOK /\ LinkedOK /\ TurnOK /\ TxRest /\ CallRest
         /\ port \in [Port -> PortRecord] /\ attr \in [Port -> Attr] /\ Listed \subseteq Port
         /\ \A p \in Listed : /\ p \in Port /\ port[p] \in PortRecord
                              /\ RxSays(port[p]) /\ Usable(port[p])
                              /\ RecordSays(attr[p], port[p]) /\ Says(port[p])
BY ChipFacts DEF LinkInv, LinkParts, PortsOK, RecordsOK, SaysOK

\* A step of the update.
LEMMA RunLink ==
  ASSUME LinkInv, pc = "update", UNCHANGED <<ports, pc, ret, args>>, SameLinks, TurnOK',
         \A q \in Listed : /\ Says(port'[q]) /\ port'[q].port_enabled = port[q].port_enabled
                           /\ Attached(port'[q]) => Attached(port[q]) \/ port[q].port_enabled,
         \A q \in Port \ Listed : Blank(port'[q])
  PROVE  LinkParts'
<1>1. Listed' = Listed BY DEF Listed
<1>2. Listed \subseteq Port /\ LinkedOK BY LinkFacts
<1>3. BlankOK' /\ SaysOK' BY <1>1 DEF BlankOK, SaysOK
<1>4. \A q : Joining(q)' <=> Joining(q) BY DEF Joining
<1>5. LinkedOK' BY <1>1, <1>2, <1>4 DEF LinkedOK, SameLinks
<1> QED BY <1>3, <1>5 DEF LinkParts, TxRest, CallRest

\* The receive machine of a port whose turn it is for another one.
LEMMA TurnIsQuiet ==
  ASSUME LinkInv, NEW p, NEW m \in {"sel", "mux", "tx"}, Turn(p, m)
  PROVE  \A s \in RxState : ~RxGoes(port[p], s)
<1>1. ~CanHop(p, "rx")
  <2>1. CASE CurCanHop
    <3>1. cur = <<p, m>> /\ cur # NoMachine BY <2>1 DEF Turn, CurCanHop
    <3> QED BY <3>1, LinkFacts DEF TurnOK
  <2>2. CASE ~CurCanHop
    <3>1. "rx" \in Before(m) BY DEF Before
    <3> QED BY <2>2, <3>1 DEF Turn
  <2> QED BY <2>1, <2>2
<1> QED BY <1>1 DEF CanHop

LEMMA TurnStays ==
  ASSUME LinkInv, NEW p, NEW m \in {"sel", "mux", "tx"}, Turn(p, m), cur' = <<p, m>>,
         port'[p].rx = port[p].rx, port'[p].port_enabled = port[p].port_enabled,
         port'[p].port_moved = port[p].port_moved,
         port'[p].lacp_enabled = port[p].lacp_enabled,
         port'[p].current_while = port[p].current_while, port'[p].msg = port[p].msg
  PROVE  TurnOK'
<1>1. \A s \in RxState : ~RxGoes(port[p], s) BY TurnIsQuiet
<1>2. \A s \in RxState : ~RxGoes(port'[p], s) BY <1>1 DEF RxGoes, LinkLost
<1>3. ~CanHop(p, "rx")' BY <1>2 DEF CanHop
<1> QED BY <1>3 DEF TurnOK

LEMMA RunRxLink ==
  ASSUME LinkInv, LongTimeout # 0, ShortTimeout # 0, NEW p \in Port, RunRx(p)
  PROVE  LinkParts' /\ AllFollow /\ SameLinks
<1>1. pc = "update" /\ p \in Listed BY LinkFacts, TurnListed DEF RunRx
<1>2. PICK s \in RxState \ {"BEGIN"} :
        /\ RxGoes(port[p], s)
        /\ RxEnter(p, port[p], s) \in PortRecord
        /\ Only(RxEnter(p, port[p], s), port'[p], {"selected"})
  BY LinkFacts, RunRxFrame
<1> DEFINE t == port[p]
           u == RxEnter(p, t, s)
           v == port'[p]
<1>3. /\ t \in PortRecord /\ RxSays(t) /\ RecordSays(attr[p], t) /\ Says(t)
      /\ BlankOK /\ SaysOK
  BY <1>1, LinkFacts
<1>4. Follows(t, u) /\ Says(u) BY <1>2, <1>3, RxFollows
<1>5. Only(t, u, {"rx", "actor", "partner", "msg", "current_while", "port_moved",
                  "selected", "ntt"})
  BY <1>2, <1>3, RxFrame
<1> HIDE DEF u
<1>6. Only(u, v, Unread) BY <1>2 DEF Only, Unread, u
<1>7. SameTalk(u, v) /\ v.port_enabled = u.port_enabled /\ Says(v) BY <1>4, <1>6, TalkLaws
<1>8. Follows(t, v) BY <1>4, <1>7, TalkLaws
<1>9. v.port_enabled = t.port_enabled /\ (Attached(v) <=> Attached(t))
  BY <1>5, <1>7 DEF Only, Field, SameTalk, Attached
<1>10. \A q \in Port \ {p} : Only(port[q], port'[q], Unread)
  <2>1. \A q \in Port \ {p} : Only(port[q], port'[q], {"selected"}) BY LinkFacts, RunRxFrame
  <2> QED BY <2>1 DEF Only, Unread
<1>11. \A q \in Port \ {p} :
          /\ Follows(port[q], port'[q])
          /\ port'[q].port_enabled = port[q].port_enabled
          /\ Attached(port'[q]) <=> Attached(port[q])
          /\ Says(port[q]) => Says(port'[q])
          /\ Blank(port[q]) => Blank(port'[q])
  BY <1>10, TalkLaws DEF SameTalk, Attached
<1>12. AllFollow BY <1>8, <1>11 DEF AllFollow
<1>13. UNCHANGED <<ports, pc, ret, args>> /\ cur' = <<p, "rx">> /\ attr' = attr
  BY DEF RunRx
<1>14. TurnOK' BY <1>13 DEF TurnOK
<1>15. SameLinks BY <1>13 DEF SameLinks
<1>16. \A q \in Listed : /\ Says(port'[q]) /\ port'[q].port_enabled = port[q].port_enabled
                         /\ Attached(port'[q]) => Attached(port[q]) \/ port[q].port_enabled
  BY <1>3, <1>7, <1>9, <1>11, LinkFacts DEF SaysOK
<1>17. \A q \in Port \ Listed : Blank(port'[q])
  <2>1. ASSUME NEW q \in Port \ Listed PROVE Blank(port'[q])
    <3>1. q \in Port \ {p} /\ Blank(port[q]) BY <1>1, <1>3 DEF BlankOK
    <3> QED BY <1>11, <3>1
  <2> QED BY <2>1
<1> QED BY <1>1, <1>12, <1>13, <1>14, <1>15, <1>16, <1>17, RunLink

LEMMA RunSelLink ==
  ASSUME LinkInv, NEW p \in Port, RunSel(p)
  PROVE  LinkParts' /\ AllFollow /\ SameLinks
<1>1. pc = "update" /\ p \in Listed /\ Turn(p, "sel")
  BY LinkFacts, TurnListed DEF RunSel
<1>2. \A q \in Port :
         /\ Only(port[q], port'[q], {"sel", "actor", "selected", "standby", "master_port"})
         /\ port'[q].actor.state = port[q].actor.state
  BY LinkFacts, RunSelFrame
<1>3. \A q \in Port : Only(port[q], port'[q], Unread \cup {"actor"})
  BY <1>2 DEF Only, Unread
<1>4. \A q \in Port :
         /\ Follows(port[q], port'[q])
         /\ port'[q].port_enabled = port[q].port_enabled
         /\ Attached(port'[q]) <=> Attached(port[q])
         /\ Says(port[q]) => Says(port'[q])
         /\ Blank(port[q]) => Blank(port'[q])
  <2> SUFFICES ASSUME NEW q \in Port
               PROVE  /\ Follows(port[q], port'[q])
                      /\ port'[q].port_enabled = port[q].port_enabled
                      /\ Attached(port'[q]) <=> Attached(port[q])
                      /\ Says(port[q]) => Says(port'[q])
                      /\ Blank(port[q]) => Blank(port'[q])
    OBVIOUS
  <2>1. /\ SameTalk(port[q], port'[q]) /\ port'[q].port_enabled = port[q].port_enabled
        /\ Says(port[q]) => Says(port'[q])
        /\ Blank(port[q]) => Blank(port'[q])
    BY <1>2, <1>3, TalkLaws
  <2>2. Follows(port[q], port'[q]) BY <2>1, TalkLaws
  <2> QED BY <2>1, <2>2 DEF SameTalk, Attached
<1>5. UNCHANGED <<ports, pc, ret, args>> /\ cur' = <<p, "sel">> /\ attr' = attr
  BY DEF RunSel
<1>6. TurnOK'
  <2>1. /\ port'[p].rx = port[p].rx /\ port'[p].port_enabled = port[p].port_enabled
        /\ port'[p].port_moved = port[p].port_moved
        /\ port'[p].lacp_enabled = port[p].lacp_enabled
        /\ port'[p].current_while = port[p].current_while /\ port'[p].msg = port[p].msg
    BY <1>2 DEF Only, Field
  <2> QED BY <1>1, <1>5, <2>1, TurnStays
<1>7. AllFollow /\ SameLinks BY <1>4, <1>5 DEF AllFollow, SameLinks
<1> QED BY <1>1, <1>4, <1>5, <1>6, <1>7, RunLink, LinkFacts DEF SaysOK, BlankOK

LEMMA RunMuxLink ==
  ASSUME LinkInv, NEW p \in Port, RunMux(p)
  PROVE  LinkParts' /\ AllFollow /\ SameLinks
<1>1. pc = "update" /\ p \in Listed /\ Turn(p, "mux")
  BY LinkFacts, TurnListed DEF RunMux
<1>2. PICK s \in MuxState \ {"BEGIN"} :
        MuxGoes(port[p], SysIsReady(p), s) /\ port'[p] = MuxEnter(port[p], s)
  BY LinkFacts, RunMuxFrame
<1> DEFINE t == port[p]
           u == port'[p]
<1>3. /\ t \in PortRecord /\ RxSays(t) /\ RecordSays(attr[p], t) /\ Says(t)
      /\ BlankOK /\ SaysOK /\ attr \in [Port -> Attr]
  BY <1>1, LinkFacts
<1>4. \A r \in RxState : ~RxGoes(t, r) BY <1>1, TurnIsQuiet
<1>5. /\ Follows(t, u) /\ Says(u)
      /\ Attached(u) => Attached(t) \/ t.port_enabled
  BY <1>2, <1>3, <1>4, MuxFollows
<1>6. /\ Only(t, u, {"mux", "ntt", "actor", "wait_while", "ready_n"})
      /\ \A q \in Port \ {p} : port'[q] = port[q]
  BY LinkFacts, RunMuxFrame
<1>7. UNCHANGED <<ports, pc, ret, args>> /\ cur' = <<p, "mux">> BY DEF RunMux
<1>8. TurnOK'
  <2>1. /\ u.rx = t.rx /\ u.port_enabled = t.port_enabled
        /\ u.port_moved = t.port_moved
        /\ u.lacp_enabled = t.lacp_enabled
        /\ u.current_while = t.current_while /\ u.msg = t.msg
    BY <1>6 DEF Only, Field
  <2> QED BY <1>1, <1>7, <2>1, TurnStays
<1>9. SameLinks
  <2>1. PICK x \in MuxState : attr' = [attr EXCEPT ![p] = MuxChip(attr[p], port[p].agg_id, x)]
    BY DEF RunMux
  <2>2. attr[p] \in Attr BY <1>3
  <2>3. MuxChip(attr[p], port[p].agg_id, x).link_status = attr[p].link_status
    BY <2>2 DEF MuxChip, Attr
  <2> QED BY <1>3, <2>1, <2>3 DEF SameLinks
<1>10. AllFollow BY <1>5, <1>6, TalkLaws DEF AllFollow, SameTalk
<1>11. u.port_enabled = t.port_enabled BY <1>6 DEF Only, Field
<1> QED
  BY <1>1, <1>3, <1>5, <1>6, <1>7, <1>8, <1>9, <1>10, <1>11, RunLink, LinkFacts
     DEF SaysOK, BlankOK

LEMMA RunTxLink ==
  ASSUME LinkInv, NEW p \in Port, RunTx(p)
  PROVE  /\ LinkParts' /\ SameLinks
         /\ \A q \in Port \ {p} : port'[q] = port[q]
         /\ port'[p].tx # "TX" => AllFollow
         /\ port'[p].tx = "TX" => Only(port[p], port'[p], {"tx", "hold_count", "ntt"})
                                  /\ ~port'[p].ntt
<1>1. pc = "update" /\ p \in Listed /\ Turn(p, "tx")
  BY LinkFacts, TurnListed DEF RunTx
<1>2. /\ \E s \in TxState \ {"BEGIN"} :
            port'[p] = TxEnter(port[p], sys.slow_periodic_time, sys.fast_periodic_time, s)
      /\ Only(port[p], port'[p], {"tx", "periodic_timer", "hold_count", "ntt"})
      /\ \A q \in Port \ {p} : port'[q] = port[q]
  BY LinkFacts, RunTxFrame
<1> DEFINE t == port[p]
           u == port'[p]
<1>3. t \in PortRecord /\ Says(t) /\ BlankOK /\ SaysOK BY <1>1, LinkFacts
<1>4. /\ u.tx # "TX" => Follows(t, u)
      /\ u.tx = "TX" => Only(t, u, {"tx", "hold_count", "ntt"}) /\ ~u.ntt
      /\ Says(t) => Says(u)
  BY <1>2, <1>3, TxFollows
<1>5. UNCHANGED <<ports, pc, ret, args>> /\ cur' = <<p, "tx">> /\ attr' = attr
  BY DEF RunTx
<1>6. /\ u.rx = t.rx /\ u.port_enabled = t.port_enabled
      /\ u.port_moved = t.port_moved /\ u.mux = t.mux
      /\ u.lacp_enabled = t.lacp_enabled
      /\ u.current_while = t.current_while /\ u.msg = t.msg
  BY <1>2 DEF Only, Field
<1>7. TurnOK' BY <1>1, <1>5, <1>6, TurnStays
<1>8. SameLinks BY <1>5 DEF SameLinks
<1>9. u.tx # "TX" => AllFollow BY <1>2, <1>4, TalkLaws DEF AllFollow, SameTalk
<1>10. LinkParts'
  BY <1>1, <1>2, <1>3, <1>4, <1>5, <1>6, <1>7, <1>8, RunLink, LinkFacts
     DEF SaysOK, BlankOK, Attached
<1> QED BY <1>2, <1>4, <1>8, <1>9, <1>10

LEMMA UpdateReturnsLink ==
  ASSUME LinkInv, UpdateReturns
  PROVE  LinkParts' /\ AllFollow /\ SameLinks
<1>1. /\ pc = "update" /\ Quiet /\ pc' = ret /\ cur' = NoMachine /\ ret' = "idle"
      /\ args' = IF ret = "idle" THEN NoArgs ELSE args
      /\ UNCHANGED <<ports, port, attr>>
  BY DEF UpdateReturns
<1>2. Listed' = Listed /\ BlankOK /\ SaysOK /\ LinkedOK BY <1>1, LinkFacts DEF Listed
<1>3. BlankOK' /\ SaysOK' BY <1>1, <1>2 DEF BlankOK, SaysOK
<1>4. \A q : Joining(q) => Joining(q)' BY <1>1 DEF Joining
<1>5. LinkedOK' BY <1>1, <1>2, <1>4 DEF LinkedOK
<1>6. TurnOK' BY <1>1 DEF TurnOK
<1>7. \A q \in Listed : ~CanHop(q, "tx") BY <1>1 DEF Quiet, MachineName
<1>8. TxRest' BY <1>1, <1>2, <1>7 DEF TxRest, CanHop
<1>9. CallRest' BY <1>1 DEF CallRest
<1>10. AllFollow /\ SameLinks BY <1>1, TalkLaws DEF AllFollow, SameLinks, SameTalk
<1> QED BY <1>3, <1>5, <1>6, <1>8, <1>9, <1>10 DEF LinkParts

-----------------------------------------------------------------------------
(* The calls of a bridge of a network *)

\* After a part of a call the thread does not rest.
LEMMA StartLink ==
  ASSUME LinkInv, pc # "update", cur' = cur, pc' \notin {"idle", "enable_link", "remove"},
         BlankOK', SaysOK', LinkedOK'
  PROVE  LinkParts'
<1>1. cur = NoMachine BY LinkFacts DEF CurOK
<1> QED BY <1>1 DEF LinkParts, TurnOK, TxRest, CallRest

\* It writes settings only.
LEMMA KeptStart ==
  ASSUME LinkInv, pc # "update", cur' = cur, pc' \notin {"idle", "enable_link", "remove"},
         ports' = ports, SameLinks, \A q : Joining(q) => Joining(q)',
         \A q \in Port : Kept(port[q], port'[q])
  PROVE  LinkParts' /\ AllFollow
<1>1. Listed' = Listed BY DEF Listed
<1>2. Listed \subseteq Port /\ BlankOK /\ SaysOK /\ LinkedOK BY LinkFacts
<1>3. \A q \in Port : /\ Follows(port[q], port'[q])
                      /\ port'[q].port_enabled = port[q].port_enabled
                      /\ port'[q].mux = port[q].mux
                      /\ Says(port[q]) => Says(port'[q])
                      /\ Blank(port[q]) => Blank(port'[q])
  BY KeptFollows
<1>4. BlankOK' /\ SaysOK' BY <1>1, <1>2, <1>3 DEF BlankOK, SaysOK
<1>5. LinkedOK' BY <1>1, <1>2, <1>3 DEF LinkedOK, SameLinks, Attached
<1> QED BY <1>3, <1>4, <1>5, StartLink DEF AllFollow

\* Between calls no port is being told of its link.
LEMMA IdleFacts ==
  ASSUME LinkInv, pc = "idle"
  PROVE  /\ ret = "idle" /\ \A q : ~Joining(q)
         /\ \A q \in Listed : /\ port[q].port_enabled = attr[q].link_status
                              /\ port[q].lacp_enabled
<1>1. ret = "idle" BY LinkFacts DEF CallRest
<1>2. \A q : ~Joining(q) BY <1>1 DEF Joining
<1>3. \A q \in Listed : port[q].lacp_enabled
  BY <1>1, LinkFacts, ChipFacts DEF MembersOK, Coming, Leaving
<1> QED BY <1>1, <1>2, <1>3, LinkFacts DEF LinkedOK

LEMMA OneSecondLink ==
  ASSUME LinkInv, OneSecond
  PROVE  LinkParts' /\ AllFollow /\ SameLinks
<1>1. /\ pc = "idle" /\ pc' = "update" /\ UNCHANGED <<ports, cur, attr>>
      /\ \A q \in Port : port'[q] = IF q \in Listed THEN Ticked(port[q]) ELSE port[q]
  BY DEF OneSecond, CallUpdate, StartUpdate
<1>2. Listed' = Listed /\ Listed \subseteq Port /\ BlankOK BY <1>1, LinkFacts DEF Listed
<1>3. ASSUME NEW q \in Listed
      PROVE  /\ Follows(port[q], port'[q]) /\ Says(port'[q])
             /\ port'[q].port_enabled = port[q].port_enabled
  <2>1. /\ port[q] \in PortRecord /\ Settled(port[q]) /\ RxSays(port[q])
        /\ Usable(port[q]) /\ RecordSays(attr[q], port[q]) /\ Says(port[q])
    BY <1>1, LinkFacts, RestIsSettled
  <2>2. Follows(port[q], Ticked(port[q])) /\ Says(Ticked(port[q])) BY <2>1, TickedFollows
  <2>3. Ticked(port[q]).port_enabled = port[q].port_enabled
    BY <2>1, TickedFrame DEF Only, Field
  <2> QED BY <1>1, <1>2, <2>2, <2>3
<1>4. SaysOK' BY <1>2, <1>3 DEF SaysOK
<1>5. BlankOK' BY <1>1, <1>2 DEF BlankOK
<1>6. LinkedOK' BY <1>1, <1>2, <1>3, IdleFacts DEF LinkedOK
<1>7. AllFollow BY <1>1, <1>2, <1>3, TalkLaws DEF AllFollow, SameTalk
<1>8. SameLinks BY <1>1 DEF SameLinks
<1> QED BY <1>1, <1>4, <1>5, <1>6, <1>7, <1>8, StartLink

\* The manager says what the link is.
LEMMA LinkChangeLink ==
  ASSUME LinkInv, ~MayReEnable, NEW p \in Port, NEW up \in BOOLEAN, LinkChange(p, up)
  PROVE  /\ LinkParts' /\ AllFollow
         /\ \A q \in Port :
               attr'[q].link_status = IF q = p THEN up ELSE attr[q].link_status
<1>1. /\ pc = "idle" /\ attr' = [attr EXCEPT ![p].link_status = up]
      /\ LinkIndication(p, up)
  BY DEF LinkChange
<1>2. /\ Listed \subseteq Port /\ BlankOK /\ SaysOK
      /\ port \in [Port -> PortRecord] /\ attr \in [Port -> Attr]
  BY LinkFacts
<1>3. \A q \in Port : attr'[q].link_status = IF q = p THEN up ELSE attr[q].link_status
  <2>1. attr[p] \in Attr BY <1>2
  <2> QED BY <1>1, <1>2, <2>1 DEF Attr
<1>4. p \in Listed => IsEnabled(p) BY <1>1, LinkFacts, NotEnabled
<1>5. CASE p \in Listed /\ port[p].port_enabled # up
  <2>1. /\ port' = LinkChanged(p, up)
        /\ pc' = "update" /\ UNCHANGED <<ports, cur>>
    BY <1>1, <1>4, <1>5 DEF LinkIndication, CallUpdate, StartUpdate
  <2>2. Listed' = Listed BY <2>1 DEF Listed
  <2>3. \A q \in Port \ {p} : Kept(port[q], port'[q])
    BY <1>2, <2>1, LinkChangedKept
  <2>4. Kept(Linked(port[p], up), port'[p]) BY <1>2, <2>1, LinkChangedKept
  <2>5. /\ port[p] \in PortRecord /\ Says(port[p])
        /\ Attached(port[p]) => port[p].rx \in {"CURRENT", "EXPIRED"}
    <3>1. /\ port[p] \in PortRecord /\ Settled(port[p]) /\ RxSays(port[p])
          /\ Usable(port[p]) /\ RecordSays(attr[p], port[p]) /\ port[p].lacp_enabled
      BY <1>1, <1>5, RestIsSettled, LinkFacts, IdleFacts
    <3>2. Attached(port[p]) => port[p].rx \in {"CURRENT", "EXPIRED"}
      BY <3>1, SettledRecord
    <3> QED BY <1>5, <3>1, <3>2, LinkFacts
  <2>6. /\ Follows(port[p], port'[p]) /\ Says(port'[p])
        /\ port'[p].port_enabled = up
    BY <2>4, <2>5, LinkedFollows
  <2>7. \A q \in Port \ {p} : /\ Follows(port[q], port'[q])
                              /\ port'[q].port_enabled = port[q].port_enabled
                              /\ Says(port[q]) => Says(port'[q])
                              /\ Blank(port[q]) => Blank(port'[q])
    BY <2>3, KeptFollows
  <2>8. BlankOK' BY <1>2, <1>5, <2>2, <2>7 DEF BlankOK
  <2>9. SaysOK' BY <1>2, <2>2, <2>6, <2>7 DEF SaysOK
  <2>10. LinkedOK' BY <1>1, <1>2, <1>3, <2>2, <2>6, <2>7, IdleFacts DEF LinkedOK
  <2>11. LinkParts' BY <1>1, <2>1, <2>8, <2>9, <2>10, StartLink
  <2>12. AllFollow BY <2>6, <2>7 DEF AllFollow
  <2> QED BY <1>3, <2>11, <2>12
<1>6. CASE ~(p \in Listed /\ port[p].port_enabled # up)
  <2>1. UNCHANGED <<ports, port, group, cur, pc, ret, args>>
    BY <1>1, <1>6 DEF LinkIndication
  <2>2. Listed' = Listed BY <2>1 DEF Listed
  <2>3. BlankOK' /\ SaysOK' BY <1>2, <2>1, <2>2 DEF BlankOK, SaysOK
  <2>4. LinkedOK' BY <1>1, <1>2, <1>3, <1>6, <2>1, <2>2, IdleFacts DEF LinkedOK
  <2>5. TurnOK' BY <1>1, <2>1, LinkFacts DEF TurnOK, CallRest
  <2>6. TxRest' BY <2>1, <2>2, LinkFacts DEF TxRest, CanHop
  <2>7. CallRest' BY <2>1, LinkFacts DEF CallRest
  <2>8. AllFollow BY <2>1, TalkLaws DEF AllFollow, SameTalk
  <2> QED BY <1>3, <2>3, <2>4, <2>5, <2>6, <2>7, <2>8 DEF LinkParts
<1> QED BY <1>5, <1>6

\* A LACPDU is laid down for the receive machine of its port; another port may be marked.
LEMMA RxLacpduLink ==
  ASSUME LinkInv, NEW p \in Port, NEW m \in Pdu, RxLacpdu(p, m)
  PROVE  /\ LinkParts' /\ SameLinks
         /\ Only(port[p], port'[p], {"msg"}) /\ port'[p].msg = m
         /\ \A q \in Port \ {p} : Follows(port[q], port'[q])
<1>1. /\ pc = "idle" /\ p \in Listed /\ pc' = "update" /\ UNCHANGED <<ports, cur, attr>>
  BY DEF RxLacpdu, Hears, CallUpdate, StartUpdate
<1>2. /\ Listed' = Listed /\ Listed \subseteq Port /\ BlankOK /\ SaysOK
      /\ port \in [Port -> PortRecord]
  BY <1>1, LinkFacts DEF Listed
<1>3. port[p].lacp_enabled BY <1>1, IdleFacts
<1>4. /\ port'[p] = [port[p] EXCEPT !.msg = m]
      /\ \A q \in Port \ {p} :
            port'[q] = [port[q] EXCEPT !.port_moved = @ \/ Moved(p, m, q)]
  BY <1>3 DEF RxLacpdu
<1> DEFINE t == port[p]
           u == port'[p]
<1>5. Only(t, u, {"msg"}) /\ u.msg = m
  BY <1>2, <1>4 DEF Only, Field, PortRecord
<1>6. \A q \in Port \ {p} : Only(port[q], port'[q], Unread)
  BY <1>2, <1>4 DEF Only, Field, PortRecord, Unread
<1>7. \A q \in Port \ {p} : /\ Follows(port[q], port'[q])
                            /\ port'[q].port_enabled = port[q].port_enabled
                            /\ Says(port[q]) => Says(port'[q])
                            /\ Blank(port[q]) => Blank(port'[q])
  BY <1>6, TalkLaws
<1>8. /\ u.rx = t.rx /\ u.mux = t.mux /\ u.actor = t.actor /\ u.actor_admin = t.actor_admin
      /\ u.port_enabled = t.port_enabled /\ u.msg.rcvd
  BY <1>5 DEF Only, Field, Pdu
<1>9. Says(t) => Says(u) BY <1>8 DEF Says, ActiveSays, HeardSays, Attached
<1>10. BlankOK' BY <1>1, <1>2, <1>7 DEF BlankOK
<1>11. SaysOK' BY <1>2, <1>7, <1>9 DEF SaysOK
<1>12. LinkedOK' BY <1>1, <1>2, <1>7, <1>8, IdleFacts DEF LinkedOK
<1>13. SameLinks BY <1>1 DEF SameLinks
<1> QED BY <1>1, <1>5, <1>7, <1>10, <1>11, <1>12, <1>13, StartLink

\* A port is created without a link.
LEMMA EnableStartLink ==
  ASSUME LinkInv, NEW p \in Port, NEW g \in Agg, Enable(p, g)
  PROVE  LinkParts' /\ AllFollow /\ SameLinks
<1>1. /\ pc = "idle" /\ pc' = "update" /\ ret' = "enable_cfg" /\ cur' = cur /\ attr' = attr
      /\ args' = [NoArgs EXCEPT !.port = p, !.agg = g]
  BY DEF Enable, StartUpdate
<1>2. /\ Listed \subseteq Port /\ BlankOK /\ SaysOK /\ port \in [Port -> PortRecord]
  BY LinkFacts
<1>3. SameLinks BY <1>1 DEF SameLinks
<1>4. CASE Creates(p)
  <2>1. PICK mac \in OwnMac : /\ ports' = <<p>> \o ports
                              /\ port' = [port EXCEPT ![p] = FreshPort(p, mac)]
    BY <1>4 DEF Enable
  <2> DEFINE t == FreshPort(p, mac)
  <2>2. Listed' = Listed \cup {p} /\ p \notin Listed
    BY <1>4, <2>1, ChipFacts, LinkFacts, PrependList DEF PortsOK, Creates, Listed
  <2>3. \A q \in Port : port'[q] = IF q = p THEN t ELSE port[q] BY <1>2, <2>1
  <2>4. /\ Blank(t) /\ ~Syn(t) /\ Says(t) /\ ~t.port_enabled /\ ~Attached(t)
    BY NewRecords DEF Blank, Attached
  <2> HIDE DEF t
  <2>5. Joining(p)' BY <1>1 DEF Joining, NoArgs
  <2>6. BlankOK' BY <1>2, <2>2, <2>3 DEF BlankOK
  <2>7. SaysOK' BY <1>2, <2>2, <2>3, <2>4 DEF SaysOK
  <2>8. LinkedOK' BY <1>1, <1>2, <2>2, <2>3, <2>4, <2>5, IdleFacts DEF LinkedOK
  <2>9. AllFollow BY <2>3, <2>4, BlankFollows, TalkLaws DEF AllFollow, SameTalk
  <2> QED BY <1>1, <1>3, <2>6, <2>7, <2>8, <2>9, StartLink
<1>5. CASE ~Creates(p)
  <2>1. UNCHANGED <<ports, port>> BY <1>5 DEF Enable
  <2>2. LinkParts' /\ AllFollow
    BY <1>1, <1>3, <2>1, KeptStart, KeptLaws, IdleFacts
  <2> QED BY <1>3, <2>2
<1> QED BY <1>4, <1>5

LEMMA StartDisableLink ==
  ASSUME LinkInv, NEW S, StartDisable(S)
  PROVE  LinkParts' /\ AllFollow /\ SameLinks
<1>1. /\ pc = "idle" /\ pc' = "disable_loop" /\ UNCHANGED <<ports, port, attr, cur>>
  BY DEF StartDisable
<1>2. SameLinks BY <1>1 DEF SameLinks
<1> QED BY <1>1, <1>2, KeptStart, KeptLaws, IdleFacts

\* The last part of the call that enables a port tells it of its link.
LEMMA EnableLinkLink ==
  ASSUME LinkInv, EnableLink
  PROVE  LinkParts' /\ AllFollow
<1> DEFINE p == args.port
           up == attr[p].link_status
<1>1. /\ pc = "enable_link" /\ ret = "idle" /\ cur = NoMachine
      /\ UNCHANGED <<ports, attr>>
  BY LinkFacts DEF EnableLink, CallOK, CurOK
<1>2. /\ Listed' = Listed /\ Listed \subseteq Port /\ BlankOK /\ SaysOK /\ LinkedOK
      /\ port \in [Port -> PortRecord] /\ attr \in [Port -> Attr]
  BY <1>1, LinkFacts DEF Listed
<1>3. \A q : Joining(q) => q = p BY DEF Joining
<1>4. CASE p \in Listed /\ port[p].port_enabled # up
  <2>1. port' = LinkChanged(p, up) /\ pc' = "update" /\ cur' = cur
    BY <1>4 DEF EnableLink, StartUpdate
  <2>2. p \in Port /\ up \in BOOLEAN BY <1>2, <1>4 DEF Attr
  <2>3. \A q \in Port \ {p} : Kept(port[q], port'[q])
    BY <1>2, <2>1, <2>2, LinkChangedKept
  <2>4. Kept(Linked(port[p], up), port'[p]) BY <1>2, <2>1, <2>2, LinkChangedKept
  <2>5. port[p] \in PortRecord /\ Says(port[p]) /\ ~Attached(port[p])
    BY <1>2, <1>4 DEF LinkedOK, SaysOK
  <2> HIDE DEF up
  <2>6. /\ Follows(port[p], port'[p]) /\ Says(port'[p])
        /\ port'[p].port_enabled = up
    BY <2>4, <2>5, LinkedFollows
  <2>7. \A q \in Port \ {p} : /\ Follows(port[q], port'[q])
                              /\ port'[q].port_enabled = port[q].port_enabled
                              /\ Says(port[q]) => Says(port'[q])
                              /\ Blank(port[q]) => Blank(port'[q])
    BY <2>3, KeptFollows
  <2>8. BlankOK' BY <1>2, <1>4, <2>7 DEF BlankOK
  <2>9. SaysOK' BY <1>2, <2>6, <2>7 DEF SaysOK
  <2>10. LinkedOK' BY <1>1, <1>2, <1>3, <2>6, <2>7 DEF LinkedOK, up
  <2>11. LinkParts' BY <1>1, <2>1, <2>8, <2>9, <2>10, StartLink
  <2>12. AllFollow BY <2>6, <2>7 DEF AllFollow
  <2> QED BY <2>11, <2>12
<1>5. CASE ~(p \in Listed /\ port[p].port_enabled # up)
  <2>1. /\ pc' \in {"idle", "gone"} /\ args' = NoArgs /\ UNCHANGED <<port, cur, ret>>
    BY <1>5 DEF EnableLink
  <2>2. BlankOK' /\ SaysOK' BY <1>2, <2>1 DEF BlankOK, SaysOK
  <2>3. LinkedOK' BY <1>1, <1>2, <1>3, <1>5, <2>1 DEF LinkedOK
  <2>4. TurnOK' BY <1>1, <2>1 DEF TurnOK
  <2>5. TxRest' BY <1>1, <1>2, <2>1, LinkFacts DEF TxRest, CanHop
  <2>6. CallRest' BY <1>1, <2>1 DEF CallRest
  <2>7. AllFollow BY <2>1, TalkLaws DEF AllFollow, SameTalk
  <2> QED BY <2>2, <2>3, <2>4, <2>5, <2>6, <2>7 DEF LinkParts
<1> QED BY <1>4, <1>5

\* A port that leaves the list.
LEMMA RemovePortLink ==
  ASSUME LinkInv, NEW p \in Port, RemovePort(p)
  PROVE  LinkParts' /\ AllFollow
<1>1. /\ pc = "remove" /\ ret = "idle" /\ cur = NoMachine
      /\ UNCHANGED <<attr, cur, pc, ret, args>>
      /\ port' = [port EXCEPT ![p] = ZeroPort(p)]
  BY LinkFacts DEF RemovePort, CallOK, CurOK
<1>2. PICK i \in DOMAIN ports : ports[i] = p /\ ports' = RemoveAt(ports, i)
  BY DEF RemovePort
<1>3. /\ Listed \subseteq Port /\ BlankOK /\ SaysOK /\ LinkedOK /\ TxRest
      /\ port \in [Port -> PortRecord] /\ ports \in Seq(Port) /\ PortsOK
  BY LinkFacts, ChipFacts
<1>4. Listed' = Listed \ {p} BY <1>2, <1>3, RemoveList DEF PortsOK, Listed
<1>5. \A q \in Port : port'[q] = IF q = p THEN ZeroPort(p) ELSE port[q] BY <1>1, <1>3
<1>6. Blank(ZeroPort(p)) /\ ~Syn(ZeroPort(p)) BY NewRecords
<1>7. BlankOK' BY <1>3, <1>4, <1>5, <1>6 DEF BlankOK
<1>8. SaysOK' BY <1>3, <1>4, <1>5 DEF SaysOK
<1>9. LinkedOK' BY <1>1, <1>3, <1>4, <1>5 DEF LinkedOK, Joining
<1>10. TxRest' BY <1>1, <1>3, <1>4, <1>5 DEF TxRest, CanHop
<1>11. TurnOK' /\ CallRest' BY <1>1 DEF TurnOK, CallRest
<1>12. AllFollow BY <1>5, <1>6, BlankFollows, TalkLaws DEF AllFollow, SameTalk
<1> QED BY <1>7, <1>8, <1>9, <1>10, <1>11, <1>12 DEF LinkParts

LEMMA ContinueLink ==
  ASSUME LinkInv, Continue
  PROVE  LinkParts' /\ AllFollow /\ SameLinks
<1>1. pc # "update" => ret = "idle" BY LinkFacts DEF CallOK
<1>2. SameLinks
  BY DEF Continue, EnableCfg, EnableLink, DisableLeave, DisableUpdate, RemoveReturns,
         DisableNotify, RemovePort, SameLinks
<1>3. pc \notin {"enable_link", "remove"} => \A q \in Port : Kept(port[q], port'[q])
  BY LinkFacts, ContinueKept
<1>4. CASE EnableCfg
  <2>1. /\ pc = "enable_cfg" /\ pc' = "update" /\ ret' = "enable_link"
        /\ UNCHANGED <<ports, cur, args>>
    BY <1>4 DEF EnableCfg, StartUpdate
  <2>2. \A q : Joining(q) => Joining(q)' BY <2>1 DEF Joining
  <2> QED BY <1>2, <1>3, <2>1, <2>2, KeptStart
<1>5. CASE DisableLeave \/ DisableUpdate \/ \E p \in Port : DisableNotify(p)
  <2>1. /\ pc \in {"disable_loop", "disable_port"} /\ pc' \in {"update", "disable_loop"}
        /\ UNCHANGED <<ports, cur>>
    BY <1>5 DEF DisableLeave, DisableUpdate, DisableNotify, StartUpdate
  <2>2. \A q : ~Joining(q) BY <1>1, <2>1 DEF Joining
  <2> QED BY <1>2, <1>3, <2>1, <2>2, KeptStart
<1>6. CASE RemoveReturns
  <2>1. /\ pc = "remove" /\ pc' = "idle" /\ args' = NoArgs /\ ret = "idle" /\ cur = NoMachine
        /\ UNCHANGED <<ports, port, attr, cur, ret>>
    BY <1>6, LinkFacts DEF RemoveReturns, CallOK, CurOK
  <2>2. Listed' = Listed /\ BlankOK /\ SaysOK /\ LinkedOK /\ TxRest
    BY <2>1, LinkFacts DEF Listed
  <2>3. BlankOK' /\ SaysOK' BY <2>1, <2>2 DEF BlankOK, SaysOK
  <2>4. LinkedOK' BY <2>1, <2>2 DEF LinkedOK, Joining
  <2>5. TurnOK' /\ CallRest' BY <2>1 DEF TurnOK, CallRest
  <2>6. TxRest' BY <2>1, <2>2 DEF TxRest, CanHop
  <2>7. AllFollow BY <2>1, TalkLaws DEF AllFollow, SameTalk
  <2> QED BY <1>2, <2>3, <2>4, <2>5, <2>6, <2>7 DEF LinkParts
<1> QED BY <1>2, <1>4, <1>5, <1>6, EnableLinkLink, RemovePortLink DEF Continue

-----------------------------------------------------------------------------
(* The steps of a bridge of a network *)

\* All that it does but transmit and listen.
Quietly ==
    \/ UpdateReturns \/ Continue \/ OneSecond
    \/ \E p \in Port : \/ RunRx(p) \/ RunSel(p) \/ RunMux(p) \/ Disable(p)
                       \/ \E g \in Agg : Enable(p, g)

LEMMA BridgeStarts == Init => LinkInv
<1> SUFFICES ASSUME Init PROVE LinkInv OBVIOUS
<1>1. ChipInv BY InitChip
<1>2. Listed = {} BY DEF Init, Listed, Range
<1>3. \A p \in Port : Blank(port[p]) BY NewRecords, Zenon DEF Init
<1>4. pc = "idle" /\ ret = "idle" /\ cur = NoMachine /\ args = NoArgs BY DEF Init
<1> QED
  BY <1>1, <1>2, <1>3, <1>4
     DEF LinkInv, LinkParts, BlankOK, SaysOK, LinkedOK, TurnOK, TxRest, CallRest

LEMMA BridgeWorks ==
  ASSUME LinkInv, LongTimeout # 0, ShortTimeout # 0, Quietly
  PROVE  LinkInv' /\ AllFollow /\ SameLinks
<1>1. Next
  BY DEF Quietly, Next, Update, Run, Command
<1>2. ChipInv' BY <1>1, ChipStep, LinkFacts
<1>3. LinkParts' /\ AllFollow /\ SameLinks
  BY UpdateReturnsLink, ContinueLink, OneSecondLink, RunRxLink, RunSelLink, RunMuxLink,
     StartDisableLink, EnableStartLink
     DEF Quietly, Disable
<1> QED BY <1>2, <1>3 DEF LinkInv

LEMMA BridgeSends ==
  ASSUME LinkInv, NEW p \in Port, RunTx(p)
  PROVE  /\ LinkInv' /\ SameLinks
         /\ \A q \in Port \ {p} : port'[q] = port[q]
         /\ port'[p].tx # "TX" => AllFollow
         /\ port'[p].tx = "TX" => Only(port[p], port'[p], {"tx", "hold_count", "ntt"})
                                  /\ ~port'[p].ntt
<1>1. Next BY DEF Next, Update, Run
<1>2. ChipInv' BY <1>1, ChipStep, LinkFacts
<1> QED BY <1>2, RunTxLink DEF LinkInv

LEMMA BridgeIsTold ==
  ASSUME LinkInv, ~MayReEnable, NEW p \in Port, NEW up \in BOOLEAN, LinkChange(p, up)
  PROVE  /\ LinkInv' /\ AllFollow
         /\ \A q \in Port :
               attr'[q].link_status = IF q = p THEN up ELSE attr[q].link_status
<1>1. ChipInv /\ GroupInv /\ LiveInv /\ UseInv /\ TypeInv
  BY LinkFacts DEF ChipInv, GroupInv, LiveInv, UseInv
<1>2. TypeInv' /\ InUseIsAggregatable' /\ LiveParts' /\ GroupParts' /\ ChipParts'
  BY <1>1, LinkType, LinkUse, LinkLive, LinkGroup, LinkChip
<1>3. ChipInv' BY <1>2 DEF ChipInv, GroupInv, LiveInv, UseInv
<1> QED BY <1>3, LinkChangeLink DEF LinkInv

LEMMA BridgeHears ==
  ASSUME LinkInv, NEW p \in Port, NEW m \in Pdu, RxLacpdu(p, m)
  PROVE  /\ LinkInv' /\ SameLinks
         /\ Only(port[p], port'[p], {"msg"}) /\ port'[p].msg = m
         /\ \A q \in Port \ {p} : Follows(port[q], port'[q])
<1>1. ChipInv /\ GroupInv /\ LiveInv /\ UseInv /\ TypeInv /\ m \in Msg
  BY LinkFacts DEF ChipInv, GroupInv, LiveInv, UseInv, Msg
<1>2. TypeInv' /\ InUseIsAggregatable' /\ LiveParts' /\ GroupParts' /\ ChipParts'
  BY <1>1, RxLacpduType, RxLacpduUse, RxLacpduLive, RxLacpduGroup, RxLacpduChip
<1>3. ChipInv' BY <1>2 DEF ChipInv, GroupInv, LiveInv, UseInv
<1> QED BY <1>3, RxLacpduLink DEF LinkInv

\* A port that drops what it is sent has nothing on record.
Deaf(t) == t.rx # "CURRENT" /\ ~t.msg.rcvd /\ t.mux # "ATTACHED"

LEMMA BridgeIsDeaf ==
  ASSUME LinkInv, ~MayReEnable, pc = "idle", NEW p \in Port,
         ~Hears(p) \/ ~attr[p].link_status
  PROVE  Deaf(port[p])
<1>1. CASE p \notin Listed BY <1>1, LinkFacts DEF BlankOK, Blank, Deaf
<1>2. CASE p \in Listed
  <2>1. IsEnabled(p) BY <1>2, LinkFacts, NotEnabled
  <2>2. ~port[p].port_enabled BY <1>2, <2>1, IdleFacts DEF Hears
  <2> DEFINE t == port[p]
  <2>3. /\ t \in PortRecord /\ Settled(t) /\ RxSays(t) /\ Usable(t)
        /\ RecordSays(attr[p], t)
    BY <1>2, RestIsSettled, LinkFacts
  <2>4. /\ t.rx # "BEGIN" /\ ~t.port_moved /\ ~t.msg.rcvd
        /\ Attached(t) => t.port_enabled
    BY <2>3, SettledRecord
  <2>5. ~RxGoes(t, "PORT_DISABLED") BY <2>3 DEF Settled, RxState
  <2>6. t.rx = "PORT_DISABLED" BY <2>2, <2>4, <2>5 DEF RxGoes, LinkLost
  <2> QED BY <2>2, <2>4, <2>6 DEF Deaf, Attached
<1> QED BY <1>1, <1>2

\* A port of the protocol between calls: it has read what it was sent and sent what it had
\* to say, but for its allowance, and it carries traffic only when it sees the neighbour.
LEMMA BridgeRests ==
  ASSUME LinkInv, pc = "idle", NEW p \in Listed, attr[p].link_status
  PROVE  LET t == port[p]
         IN  /\ ~t.msg.rcvd /\ t.mux \notin {"BEGIN", "DISABLE"}
             /\ t.ntt => t.hold_count >= MaxTx
             /\ Attached(t) => Syn(t)
             /\ attr[p].cd => Syn(t) /\ t.rx = "CURRENT" /\ Sees(t)
             /\ ~attr[p].cd /\ Syn(t) => t.mux = "ATTACHED" /\ ~Sees(t)
<1> DEFINE t == port[p]
<1>1. /\ t \in PortRecord /\ Settled(t) /\ RxSays(t) /\ Usable(t) /\ Says(t)
      /\ RecordSays(attr[p], t) /\ t.port_enabled /\ t.lacp_enabled
  BY RestIsSettled, LinkFacts, IdleFacts
<1>2. /\ t.rx # "BEGIN" /\ ~t.port_moved /\ ~t.msg.rcvd
      /\ Attached(t) => Bit(t.actor, "SYN")
      /\ t.mux \notin {"BEGIN", "DISABLE"}
  BY <1>1, SettledRecord
<1>3. t.ntt => t.hold_count >= MaxTx
  <2>1. ~CanHop(p, "tx") BY LinkFacts DEF TxRest
  <2>2. \A s \in TxState : ~TxGoes(t, s) BY <2>1 DEF CanHop
  <2>3. /\ ~TxGoes(t, "NO_PERIODIC") /\ ~TxGoes(t, "IDLE") /\ ~TxGoes(t, "PERIODIC_TX")
        /\ ~TxGoes(t, "TX")
    BY <2>2 DEF TxState
  <2>4. Bit(t.actor, "ACT") BY <1>1, <1>2 DEF Says, ActiveSays
  <2>5. t.tx \in TxState /\ t.hold_count \in Nat BY <1>1 DEF PortRecord
  <2>6. ~TxSilent(t)
    <3>1. TxSilent(t) => t.tx # "BEGIN" BY <2>3 DEF TxGoes
    <3> QED BY <1>1, <2>4, <3>1 DEF TxSilent
  <2>7. t.tx = "IDLE" BY <2>3, <2>5, <2>6 DEF TxGoes, TxState, TxSilent
  <2>8. ~(t.ntt /\ t.hold_count < MaxTx) BY <2>3, <2>6, <2>7 DEF TxGoes
  <2> QED BY <2>5, <2>8, LimitAssumption
<1>4. attr[p].cd => t.rx = "CURRENT" /\ Sees(t) /\ Syn(t)
  <2>1. ChipSays(attr[p], t) BY LinkFacts, ChipFacts DEF PortsOK
  <2>2. attr[p].cd => t.mux = "RX_TX" BY <1>2, <2>1 DEF ChipSays
  <2>3. attr[p].cd => t.rx = "CURRENT" /\ Bit(t.partner, "SYN")
    BY <1>1, <2>1, SettledIsLive
  <2> QED BY <1>2, <2>2, <2>3 DEF Sees, Syn, Attached
<1>5. ~attr[p].cd /\ Syn(t) => t.mux = "ATTACHED" /\ ~Sees(t)
  <2> SUFFICES ASSUME ~attr[p].cd, Syn(t) PROVE t.mux = "ATTACHED" /\ ~Sees(t) OBVIOUS
  <2>1. t.mux # "RX_TX" BY <1>1 DEF RecordSays, MuxSays
  <2>2. t.mux = "ATTACHED"
    BY <1>1, <1>2, <2>1
       DEF RecordSays, ActorSays, Bare, MuxBit, Syn, PortRecord, MuxState
  <2>3. ~MuxGoes(t, FALSE, "RX_TX") /\ ~MuxGoes(t, FALSE, "DETACHED")
    BY <1>1 DEF Settled, MuxState
  <2> QED BY <1>1, <2>2, <2>3 DEF MuxGoes, Sees
<1> QED BY <1>2, <1>3, <1>4, <1>5 DEF Syn

\* Nothing of the bridge changes.
LEMMA BridgeWaits ==
  ASSUME LinkInv, UNCHANGED vars
  PROVE  LinkInv'
<1>1. ChipInv' BY ChipStep, LinkFacts DEF vars
<1>2. UNCHANGED <<ports, port, sys, attr, group, cur, pc, ret, args>> BY DEF vars
<1>3. Listed' = Listed BY <1>2 DEF Listed
<1>4. BlankOK' /\ SaysOK' BY <1>2, <1>3, LinkFacts DEF BlankOK, SaysOK
<1>5. LinkedOK' BY <1>2, <1>3, LinkFacts DEF LinkedOK, Joining
<1>6. \A p : CanHop(p, "rx")' <=> CanHop(p, "rx") BY <1>2 DEF CanHop
<1>7. \A p : CanHop(p, "tx")' <=> CanHop(p, "tx") BY <1>2 DEF CanHop
<1>8. TurnOK' BY <1>2, <1>6, LinkFacts DEF TurnOK
<1>9. TxRest' BY <1>2, <1>3, <1>7, LinkFacts DEF TxRest
<1>10. CallRest' BY <1>2, LinkFacts DEF CallRest
<1> QED BY <1>1, <1>4, <1>5, <1>8, <1>9, <1>10 DEF LinkInv, LinkParts

\* A port that waits without the protocol's knowing of a link has none.
NoLink ==
    \A p \in Port :
       port[p].mux = "ATTACHED" /\ ~port[p].port_enabled => ~attr[p].link_status

LEMMA BridgeNeedsLink == LinkInv => NoLink
<1> SUFFICES ASSUME LinkInv, NEW p \in Port,
                    port[p].mux = "ATTACHED", ~port[p].port_enabled
             PROVE  ~attr[p].link_status
  BY DEF NoLink
<1>1. p \in Listed BY LinkFacts DEF BlankOK, Blank
<1> QED BY <1>1, LinkFacts DEF LinkedOK, Attached
=============================================================================
