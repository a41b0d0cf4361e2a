-------------------------- MODULE LacpDataProofs --------------------------
(***************************************************************************)
(* Facts about the operators the model is built from: the order of          *)
(* select_master_port has a best element, and every entry of a state        *)
(* machine leaves a well-formed port record.                                *)
(***************************************************************************)
EXTENDS LacpSelection, WellFoundedInduction, TLAPS

\* A set of natural numbers that is not empty has a least element.
LEMMA LeastElement ==
  ASSUME NEW S \in SUBSET Nat, S # {}
  PROVE  \E n \in S : \A m \in S : n <= m
<1> DEFINE R == OpToRel(<, Nat)
<1>1. IsWellFoundedOn(R, Nat)
  BY NatLessThanWellFounded
<1>2. \A m, n \in Nat : m < n => <<m, n>> \in R
  BY DEF OpToRel
<1> HIDE DEF R
<1>3. PICK n \in S : \A m \in S : ~ (<<m, n>> \in R)
  BY <1>1, WFMin
<1>4. \A m \in S : ~ (m < n)
  BY <1>2, <1>3
<1> QED BY <1>4

\* The fields of a port record that the order reads.
Ranked(t) ==
    /\ t.speed \in Nat
    /\ t.actor.port_priority \in Nat
    /\ t.actor.port_no \in Nat
    /\ Bit(t.actor, "DEF") \in BOOLEAN

\* The comparison of select_master_port is a strict order: no port is better than
\* itself, and better than better is better.
LEMMA BetterIsStrict ==
  /\ \A a : Ranked(a) => ~Better(a, a)
  /\ \A a, b, c : Ranked(a) /\ Ranked(b) /\ Ranked(c)
                     => (Better(a, b) /\ Better(b, c) => Better(a, c))
<1>1. \A a : Ranked(a) => ~Better(a, a)
  BY DEF Ranked, Better
<1>2. ASSUME NEW a, NEW b, NEW c, Ranked(a), Ranked(b), Ranked(c),
             Better(a, b), Better(b, c)
      PROVE  Better(a, c)
  <2> DEFINE d(t) == Bit(t.actor, "DEF")
  <2>1. /\ d(a) \in BOOLEAN /\ d(b) \in BOOLEAN /\ d(c) \in BOOLEAN
    BY <1>2 DEF Ranked
  <2> HIDE DEF d
  <2>2. ASSUME NEW x, NEW y PROVE
        Better(x, y) <=> \/ x.speed > y.speed
                         \/ x.speed = y.speed /\
                            \/ x.actor.port_priority < y.actor.port_priority
                            \/ x.actor.port_priority = y.actor.port_priority /\
                               \/ ~d(x) /\ d(y)
                               \/ (d(x) <=> d(y)) /\ x.actor.port_no < y.actor.port_no
    BY DEF Better, d
  <2> QED BY <1>2, <2>1, <2>2 DEF Ranked
<1> QED BY <1>1, <1>2

\* The selection always finds a master: among the ports of a bridge there is one
\* that no other is better than, so that Master is a port of the set.
THEOREM MasterIsBest ==
  ASSUME NEW C \in SUBSET (0 .. 143), C # {},
         NEW f, \A p \in C : Ranked(f[p])
  PROVE  /\ Master(f, C) \in C
         /\ \A q \in C : ~Better(f[q], f[Master(f, C)])
<1> DEFINE Below(k) == {p \in C : p < k}
           Best(k, m) == m \in Below(k) /\ \A q \in Below(k) : ~Better(f[q], f[m])
           Bad == {k \in Nat : Below(k) # {} /\ ~ \E m \in C : Best(k, m)}
<1>1. Bad = {}
  <2>1. SUFFICES ASSUME Bad # {} PROVE FALSE
    OBVIOUS
  <2>2. PICK k \in Bad : \A j \in Bad : k <= j
    <3> HIDE DEF Bad
    <3>1. Bad \in SUBSET Nat BY DEF Bad
    <3> QED BY <2>1, <3>1, LeastElement
  <2>3. k \in Nat /\ k # 0 /\ k - 1 \in Nat /\ k - 1 \notin Bad
    <3>1. \A p \in C : p \in Nat /\ p < 144 OBVIOUS
    <3>2. k \in Nat /\ Below(k) # {} BY <2>2
    <3>3. k # 0
      <4>1. \A p \in C : ~ (p < 0) BY <3>1
      <4>2. Below(0) = {} BY <4>1
      <4> HIDE DEF Below
      <4> QED BY <3>2, <4>2
    <3>4. k - 1 \in Nat /\ ~ (k <= k - 1) BY <3>2, <3>3
    <3> HIDE DEF Bad
    <3> QED BY <2>2, <3>2, <3>3, <3>4
  <2>4. \A p \in Below(k) : p \in Below(k - 1) \/ p = k - 1
    BY <2>3
  <2>5. \A p \in Below(k - 1) : p \in Below(k)
    BY <2>3
  <2>6. CASE Below(k - 1) = {}
    <3>1. Below(k) = {k - 1}
      BY <2>2, <2>3, <2>4, <2>6
    <3>2. Best(k, k - 1)
      BY <3>1, BetterIsStrict
    <3> QED BY <2>2, <3>1, <3>2
  <2>7. CASE Below(k - 1) # {}
    <3>1. PICK m \in C : Best(k - 1, m)
      BY <2>3, <2>7
    <3>2. CASE k - 1 \notin C
      <4>1. Below(k) = Below(k - 1) BY <2>4, <2>5, <3>2
      <4>2. Best(k, m) BY <3>1, <4>1
      <4> QED BY <2>2, <4>2
    <3>3. CASE k - 1 \in C /\ Better(f[k - 1], f[m])
      <4>1. \A q \in Below(k - 1) : ~Better(f[q], f[k - 1])
        BY <3>1, <3>3, BetterIsStrict
      <4>2. ~Better(f[k - 1], f[k - 1])
        BY <3>3, BetterIsStrict
      <4>3. k - 1 \in Below(k)
        BY <2>3, <3>3
      <4>4. Best(k, k - 1)
        BY <2>4, <4>1, <4>2, <4>3
      <4> QED BY <2>2, <3>3, <4>4
    <3>4. CASE k - 1 \in C /\ ~Better(f[k - 1], f[m])
      <4>1. Best(k, m) BY <2>4, <2>5, <3>1, <3>4
      <4> QED BY <2>2, <4>1
    <3> QED BY <3>2, <3>3, <3>4
  <2> QED BY <2>6, <2>7
<1>2. Below(144) = C
  <2>1. \A p \in C : p < 144 OBVIOUS
  <2> QED BY <2>1
<1>3. \E m \in C : \A q \in C : ~Better(f[q], f[m])
  BY <1>1, <1>2
<1> QED BY <1>3 DEF Master

\* A port record that the order reads, whose port number is its own.
Apart(t, p) == Ranked(t) /\ t.actor.port_no = p + 1

\* Two ports with numbers of their own are never tied, so that at most one port of
\* a set is the best of it.
LEMMA OneBest ==
  ASSUME NEW C \in SUBSET (0 .. 143), NEW g, \A p \in C : Apart(g[p], p),
         NEW m \in C, \A q \in C : ~Better(g[q], g[m]),
         NEW n \in C, \A q \in C : ~Better(g[q], g[n])
  PROVE  m = n
<1> DEFINE dm == Bit(g[m].actor, "DEF")
           dn == Bit(g[n].actor, "DEF")
<1>1. Apart(g[m], m) /\ Apart(g[n], n) OBVIOUS
<1>2. ~Better(g[m], g[n]) /\ ~Better(g[n], g[m]) OBVIOUS
<1>3. /\ g[m].speed \in Nat /\ g[n].speed \in Nat
      /\ g[m].actor.port_priority \in Nat /\ g[n].actor.port_priority \in Nat
      /\ dm \in BOOLEAN /\ dn \in BOOLEAN
      /\ g[m].actor.port_no = m + 1 /\ g[n].actor.port_no = n + 1
  BY <1>1 DEF Apart, Ranked
<1>4. /\ ~ \/ g[m].speed > g[n].speed
           \/ g[m].speed = g[n].speed /\
              \/ g[m].actor.port_priority < g[n].actor.port_priority
              \/ g[m].actor.port_priority = g[n].actor.port_priority /\
                 \/ ~dm /\ dn
                 \/ (dm <=> dn) /\ g[m].actor.port_no < g[n].actor.port_no
      /\ ~ \/ g[n].speed > g[m].speed
           \/ g[n].speed = g[m].speed /\
              \/ g[n].actor.port_priority < g[m].actor.port_priority
              \/ g[n].actor.port_priority = g[m].actor.port_priority /\
                 \/ ~dn /\ dm
                 \/ (dn <=> dm) /\ g[n].actor.port_no < g[m].actor.port_no
  BY <1>2 DEF Better
<1> HIDE DEF dm, dn
<1>5. m \in Int /\ n \in Int OBVIOUS
<1> QED BY <1>3, <1>4, <1>5
-----------------------------------------------------------------------------
(* The types of information records *)

\* The 16-bit fields hold the default priorities and every port number.
LEMMA MaxWordBound == MaxWord \in Nat /\ 32768 <= MaxWord
BY DEF MaxWord

\* 0 is a value of a 16-bit field.
LEMMA WordZero == 0 \in Word
BY MaxWordBound DEF Word

\* The zeroed information record that calloc leaves is well formed.
LEMMA ZeroInfoType == ZeroInfo \in Info
BY WordZero, MacAssumption DEF ZeroInfo, Info

\* LACP_STATE_SET_BIT changes the state octet and nothing else of a record.
LEMMA SetBitType ==
  ASSUME NEW i \in Info, NEW b \in StateBit, NEW on
  PROVE  SetBit(i, b, on) \in Info
BY DEF SetBit, Info

\* Setting one bit sets that bit and leaves the others.
LEMMA SetBitBit ==
  ASSUME NEW i \in Info, NEW b \in StateBit, NEW on \in BOOLEAN, NEW c \in StateBit
  PROVE  Bit(SetBit(i, b, on), c) <=> IF c = b THEN on ELSE Bit(i, c)
BY DEF SetBit, Bit, Info

\* The port number lacp_port_init derives from a port index fits its field.
LEMMA PortNoType ==
  ASSUME NEW p \in Port
  PROVE  p + 1 \in Word
<1>1. p \in 0 .. 143 BY PortAssumption
<1> QED BY <1>1, MaxWordBound DEF Word

\* lacp_port_get_partner_init makes a well-formed record, of a partner that cannot
\* aggregate.
LEMMA PartnerAdminType ==
  ASSUME NEW p \in Port
  PROVE  /\ PartnerAdmin(p) \in Info
         /\ ~Bit(PartnerAdmin(p), "AGG")
<1> DEFINE n == p + 1
           bits == {"SYN", "COL", "DIS", "DEF"}
<1>1. n \in Word BY PortNoType
<1>2. Default_system_priority \in Word /\ Default_port_priority \in Word
  BY MaxWordBound DEF Word, Default_system_priority, Default_port_priority
<1>3. bits \in SUBSET StateBit BY DEF StateBit
<1>4. ~ ("AGG" \in bits) OBVIOUS
<1>5. PartnerAdmin(p) = [system_priority |-> Default_system_priority,
                         system_mac |-> ZeroMac, key |-> n,
                         port_priority |-> Default_port_priority,
                         port_no |-> n, state |-> bits]
  BY DEF PartnerAdmin
<1> HIDE DEF n, bits
<1>6. PartnerAdmin(p) \in Info
  BY <1>1, <1>2, <1>3, <1>5, MacAssumption DEF Info
<1>7. PartnerAdmin(p).state = bits BY <1>5
<1> QED BY <1>4, <1>6, <1>7 DEF Bit

\* lacp_port_get_actor_init makes a well-formed record.
LEMMA ActorInitType ==
  ASSUME NEW p \in Port, NEW mac \in Mac, NEW priority \in Word, NEW short
  PROVE  ActorInit(p, mac, priority, short) \in Info
<1> DEFINE n == p + 1
           bits == {"ACT", "DEF"} \cup (IF short THEN {"TMT"} ELSE {})
<1>1. n \in Word BY PortNoType
<1>2. 0 \in Word /\ Default_port_priority \in Word
  BY MaxWordBound DEF Word, Default_port_priority
<1>3. bits \in SUBSET StateBit BY DEF StateBit
<1>4. ActorInit(p, mac, priority, short) =
         [system_priority |-> priority, system_mac |-> mac, key |-> 0,
          port_priority |-> Default_port_priority, port_no |-> n, state |-> bits]
  BY DEF ActorInit
<1> HIDE DEF n, bits
<1> QED BY <1>1, <1>2, <1>3, <1>4 DEF Info

\* A pending LACPDU is well formed, and when none is pending the buffer is NoMsg.
LEMMA MsgType ==
  /\ NoMsg \in Msg
  /\ \A m \in Msg : /\ m.rcvd \in BOOLEAN /\ m.actor \in Info /\ m.partner \in Info
                    /\ ~m.rcvd => m = NoMsg
<1>1. \A m \in Pdu : m.rcvd = TRUE /\ m.actor \in Info /\ m.partner \in Info
  BY DEF Pdu
<1>2. NoMsg.rcvd = FALSE /\ NoMsg.actor \in Info /\ NoMsg.partner \in Info
  BY ZeroInfoType DEF NoMsg
<1> QED BY <1>1, <1>2 DEF Msg

\* The record of a port that is not in the list is well formed.
LEMMA ZeroPortType ==
  ASSUME NEW p \in Port
  PROVE  ZeroPort(p) \in PortRecord
<1>1. 0 \in Word BY WordZero
<1> QED
  BY <1>1, ZeroInfoType, MsgType
  DEF ZeroPort, PortRecord, RxState, SelState, MuxState, TxState

-----------------------------------------------------------------------------
(* The types of the records that the state machines leave *)

\* Every entry of lacp_rx_enter_state leaves a well-formed port record.
LEMMA RxEnterType ==
  ASSUME NEW p \in Port, NEW t \in PortRecord, NEW s \in RxState, s # "BEGIN"
  PROVE  RxEnter(p, t, s) \in PortRecord
<1>1. t.actor \in Info /\ t.partner \in Info /\ t.actor_admin \in Info /\ t.msg \in Msg
  BY DEF PortRecord
<1>2. ShortTimeout \in Word /\ LongTimeout \in Word /\ 0 \in Word
  BY TimerAssumption, WordZero
<1>3. CASE s = "INITIALIZE"
  <2> DEFINE a == SetBit(SetBit(t.actor_admin, "DEF", TRUE), "EXP", FALSE)
             b == PartnerAdmin(p)
  <2>1. a \in Info BY <1>1, SetBitType DEF StateBit
  <2>2. b \in Info BY PartnerAdminType
  <2>3. RxEnter(p, t, s) =
          [t EXCEPT !.rx = "INITIALIZE", !.selected = FALSE, !.port_moved = FALSE,
                    !.actor = a, !.partner = b]
    BY <1>3 DEF RxEnter, EnterInitialize
  <2> HIDE DEF a, b
  <2> QED BY <2>1, <2>2, <2>3, ZenonT(40) DEF PortRecord, RxState
<1>4. CASE s = "PORT_DISABLED"
  <2> DEFINE b == SetBit(t.partner, "SYN", FALSE)
  <2>1. b \in Info BY <1>1, SetBitType DEF StateBit
  <2>2. RxEnter(p, t, s) =
          [t EXCEPT !.rx = "PORT_DISABLED", !.selected = FALSE, !.msg = NoMsg,
                    !.current_while = 0, !.partner = b]
    BY <1>4 DEF RxEnter, EnterPortDisabled
  <2> HIDE DEF b
  <2> QED BY <1>2, <2>1, <2>2, MsgType, ZenonT(40) DEF PortRecord, RxState
<1>5. CASE s = "LACP_DISABLED"
  <2> DEFINE a == SetBit(t.actor, "DEF", TRUE)
             b == SetBit(PartnerAdmin(p), "AGG", FALSE)
  <2>1. a \in Info /\ b \in Info
    BY <1>1, PartnerAdminType, SetBitType DEF StateBit
  <2>2. RxEnter(p, t, s) =
          [t EXCEPT !.rx = "LACP_DISABLED", !.selected = FALSE,
                    !.actor = a, !.partner = b]
    BY <1>5 DEF RxEnter, EnterLacpDisabled
  <2> HIDE DEF a, b
  <2> QED BY <2>1, <2>2, ZenonT(40) DEF PortRecord, RxState
<1>6. CASE s = "EXPIRED"
  <2> DEFINE a == SetBit(t.actor, "EXP", TRUE)
             b == SetBit(SetBit(t.partner, "SYN", FALSE), "TMT", TRUE)
  <2>1. a \in Info /\ b \in Info
    BY <1>1, SetBitType DEF StateBit
  <2>2. RxEnter(p, t, s) =
          [t EXCEPT !.rx = "EXPIRED", !.current_while = ShortTimeout,
                    !.actor = a, !.partner = b]
    BY <1>6 DEF RxEnter, EnterExpired
  <2> HIDE DEF a, b
  <2> QED BY <1>2, <2>1, <2>2, ZenonT(40) DEF PortRecord, RxState
<1>7. CASE s = "DEFAULTED"
  <2> DEFINE other == ~SamePartner(PartnerAdmin(p), t.partner)
             lost == SetBit(SetBit(t.actor, "DEF", TRUE), "EXP", FALSE)
             a == IF other THEN SetBit(lost, "SYN", FALSE) ELSE lost
             b == PartnerAdmin(p)
             sel == t.selected /\ ~other
  <2>1. lost \in Info BY <1>1, SetBitType DEF StateBit
  <2>2. a \in Info BY <2>1, SetBitType DEF StateBit
  <2>3. b \in Info BY PartnerAdminType
  <2>4. sel \in BOOLEAN BY DEF PortRecord
  <2>5. RxEnter(p, t, s) =
          [t EXCEPT !.rx = "DEFAULTED", !.selected = sel, !.actor = a, !.partner = b]
    BY <1>7 DEF RxEnter, EnterDefaulted
  <2> HIDE DEF a, b, sel
  <2> QED BY <2>2, <2>3, <2>4, <2>5, ZenonT(40) DEF PortRecord, RxState
<1>8. CASE s = "CURRENT"
  <2> DEFINE a == SetBit(SetBit(t.actor, "DEF", FALSE), "EXP", FALSE)
             b == SetBit(t.msg.actor, "SYN", PartnerMatched(t) /\ Bit(t.msg.actor, "SYN"))
             sel == t.selected /\ ~NewPartner(t)
             n == t.ntt \/ PartnerIsBehind(t) \/ ~PartnerMatched(t)
             w == TimeoutOf(Bit(t.actor, "TMT"))
  <2>1. a \in Info BY <1>1, SetBitType DEF StateBit
  <2>2. b \in Info BY <1>1, MsgType, SetBitType DEF StateBit
  <2>3. sel \in BOOLEAN /\ n \in BOOLEAN BY DEF PortRecord
  <2>4. w \in Word BY <1>2 DEF TimeoutOf
  <2>5. RxEnter(p, t, s) =
          [t EXCEPT !.rx = "CURRENT", !.msg = NoMsg, !.selected = sel, !.ntt = n,
                    !.actor = a, !.partner = b, !.current_while = w]
    BY <1>8 DEF RxEnter, EnterCurrent
  <2> HIDE DEF a, b, sel, n, w
  <2> DEFINE u == [t EXCEPT !.rx = "CURRENT", !.msg = NoMsg, !.selected = sel, !.ntt = n]
  <2>6. NoMsg \in Msg BY MsgType
  <2>7. u \in PortRecord BY <2>3, <2>6 DEF PortRecord, RxState
  <2>8. RxEnter(p, t, s) = [u EXCEPT !.actor = a, !.partner = b, !.current_while = w]
    BY <2>5 DEF PortRecord
  <2> HIDE DEF u
  <2> QED BY <2>1, <2>2, <2>4, <2>7, <2>8, ZenonT(40) DEF PortRecord
<1> QED BY <1>3, <1>4, <1>5, <1>6, <1>7, <1>8 DEF RxState

\* Every entry of lacp_mux_enter_state leaves a well-formed port record.
LEMMA MuxEnterType ==
  ASSUME NEW t \in PortRecord, NEW s \in MuxState, s # "BEGIN"
  PROVE  MuxEnter(t, s) \in PortRecord
<1>1. t.actor \in Info BY DEF PortRecord
<1>2. CASE s \in {"DISABLE", "DETACHED", "ATTACHED"}
  <2> DEFINE a == [t.actor EXCEPT !.state =
                     (@ \ {"SYN", "COL", "DIS"}) \cup MuxBits(s)]
             n == s # "DISABLE"
  <2>1. MuxBits(s) \in SUBSET StateBit BY <1>2 DEF MuxBits, StateBit
  <2>2. a \in Info BY <1>1, <2>1 DEF Info
  <2>3. MuxEnter(t, s) = [t EXCEPT !.mux = s, !.ntt = n, !.actor = a]
    BY <1>2 DEF MuxEnter, PortRecord
  <2>4. n \in BOOLEAN OBVIOUS
  <2> HIDE DEF a, n
  <2> QED BY <2>2, <2>3, <2>4, ZenonT(40) DEF PortRecord
<1>3. CASE s = "WAITING"
  <2>1. MuxEnter(t, s) =
          [t EXCEPT !.mux = "WAITING", !.wait_while = AggregateWait, !.ready_n = FALSE]
    BY <1>3 DEF MuxEnter, EnterWaiting
  <2> QED BY <2>1, TimerAssumption, ZenonT(40) DEF PortRecord, MuxState
<1>4. CASE s = "READY_N"
  <2>1. MuxEnter(t, s) = [t EXCEPT !.mux = s, !.ready_n = TRUE]
    BY <1>4 DEF MuxEnter
  <2> QED BY <2>1 DEF PortRecord
<1>5. CASE s = "RX_TX"
  <2> DEFINE a == [t.actor EXCEPT !.state = @ \cup {"COL", "DIS"}]
  <2>1. a \in Info BY <1>1 DEF Info, StateBit
  <2>2. MuxEnter(t, s) = [t EXCEPT !.mux = s, !.ntt = TRUE, !.actor = a]
    BY <1>5 DEF MuxEnter, PortRecord
  <2> HIDE DEF a
  <2> QED BY <2>1, <2>2, ZenonT(40) DEF PortRecord
<1> QED BY <1>2, <1>3, <1>4, <1>5 DEF MuxState

\* Every entry of lacp_tx_enter_state leaves a well-formed port record.
LEMMA TxEnterType ==
  ASSUME NEW t \in PortRecord, NEW slow \in Word, NEW fast \in Word,
         NEW s \in TxState, s # "BEGIN"
  PROVE  TxEnter(t, slow, fast, s) \in PortRecord
<1>1. CASE s = "NO_PERIODIC"
  <2>1. 0 \in Word BY WordZero
  <2> DEFINE z == 0
  <2>2. TxEnter(t, slow, fast, s) = [t EXCEPT !.tx = s, !.periodic_timer = z, !.hold_count = z]
    BY <1>1 DEF TxEnter
  <2>3. z \in Word /\ z \in Nat BY <2>1
  <2> HIDE DEF z
  <2> QED BY <2>2, <2>3, ZenonT(40) DEF PortRecord
<1>2. CASE s = "PERIODIC_TX"
  <2> DEFINE w == IF Bit(t.partner, "TMT") THEN fast ELSE slow
  <2>1. w \in Word OBVIOUS
  <2>2. TxEnter(t, slow, fast, s) =
          [t EXCEPT !.tx = "PERIODIC_TX", !.ntt = TRUE, !.periodic_timer = w]
    BY <1>2 DEF TxEnter, EnterPeriodic
  <2> HIDE DEF w
  <2> QED BY <2>1, <2>2, ZenonT(40) DEF PortRecord, TxState
<1>3. CASE s = "IDLE"
  BY <1>3 DEF TxEnter, PortRecord
<1>4. CASE s = "TX"
  <2>1. t.hold_count + 1 \in Nat BY DEF PortRecord
  <2>2. TxEnter(t, slow, fast, s) =
          [t EXCEPT !.tx = s, !.hold_count = t.hold_count + 1, !.ntt = FALSE]
    BY <1>4 DEF TxEnter
  <2> QED BY <2>1, <2>2, ZenonT(40) DEF PortRecord
<1> QED BY <1>1, <1>2, <1>3, <1>4 DEF TxState
=============================================================================
