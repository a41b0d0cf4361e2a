---------------------------- MODULE LacpMachines ----------------------------
(***************************************************************************)
(* The state machines a port runs: lacp_rx.c, lacp_mux.c and lacp_tx.c.     *)
(* XxGoes(t, s) holds when the check routine of machine Xx hops to state s   *)
(* from the port record t; XxEnter(..., s) is the record that its           *)
(* enter-state routine leaves.  What a routine does to other ports, to the   *)
(* switch chip or to the wire is in module Lacp.                             *)
(***************************************************************************)
EXTENDS LacpTypes

-----------------------------------------------------------------------------
(* The receive machine, lacp_rx.c *)

LinkLost(t) == ~t.port_enabled /\ ~t.port_moved /\ t.rx # "BEGIN"

RxGoes(t, s) ==
    \/ LinkLost(t) /\ t.rx # "PORT_DISABLED" /\ s = "PORT_DISABLED"
    \/ ~LinkLost(t) /\
       \/ t.rx = "BEGIN" /\ s = "INITIALIZE"
       \/ t.rx = "INITIALIZE" /\ s = "PORT_DISABLED"
       \/ t.rx = "PORT_DISABLED" /\ t.port_moved /\ s = "INITIALIZE"
       \/ t.rx = "PORT_DISABLED" /\ ~t.port_moved /\ t.port_enabled
             /\ s = IF t.lacp_enabled THEN "EXPIRED" ELSE "LACP_DISABLED"
       \/ t.rx = "LACP_DISABLED" /\ t.port_enabled /\ t.lacp_enabled /\ s = "EXPIRED"
       \/ t.rx = "EXPIRED" /\ t.current_while = 0 /\ s = "DEFAULTED"
       \/ t.rx = "EXPIRED" /\ t.current_while # 0 /\ t.msg.rcvd /\ s = "CURRENT"
       \/ t.rx = "CURRENT" /\ t.current_while = 0 /\ ~t.msg.rcvd /\ s = "EXPIRED"
       \/ t.rx \in {"CURRENT", "DEFAULTED"} /\ t.msg.rcvd /\ s = "CURRENT"

\* A faulty variant: a partner is known by its port alone.
NewPartner_PortOnly(t) == t.msg.actor.port_no # t.partner.port_no

\* update_selected: the partner of the LACPDU is not the one on record.
NewPartner(t) == ~SamePartner(t.msg.actor, t.partner)

\* A faulty variant: what the partner has on record is compared with the wrong record.
PartnerMatched_WrongRecord(t) ==
    /\ SamePartner(t.msg.partner, t.partner) \/ ~Bit(t.msg.actor, "AGG")
    /\ \/ Bit(t.msg.actor, "ACT")
       \/ Bit(t.actor, "ACT") /\ Bit(t.msg.partner, "ACT")

\* update_partner_syn: the partner has matched our parameters.
PartnerMatched(t) ==
    /\ SamePartner(t.msg.partner, t.actor) \/ ~Bit(t.msg.actor, "AGG")
    /\ \/ Bit(t.msg.actor, "ACT")
       \/ Bit(t.actor, "ACT") /\ Bit(t.msg.partner, "ACT")

\* update_ntt: the partner's view of this port is out of date.
PartnerIsBehind(t) ==
    \/ ~SamePartner(t.msg.partner, t.actor)
    \/ \E b \in {"ACT", "TMT", "SYN", "AGG"} :
          Bit(t.msg.partner, b) # Bit(t.actor, b)

\* start_current_while_timer
TimeoutOf(short) == IF short THEN ShortTimeout ELSE LongTimeout

\* The six entries of lacp_rx_enter_state.
EnterInitialize(p, t) ==
    [t EXCEPT !.rx = "INITIALIZE", !.selected = FALSE, !.port_moved = FALSE,
              !.actor = SetBit(SetBit(t.actor_admin, "DEF", TRUE), "EXP", FALSE),
              !.partner = PartnerAdmin(p)]

EnterPortDisabled(t) ==
    [t EXCEPT !.rx = "PORT_DISABLED", !.selected = FALSE, !.msg = NoMsg,
              !.current_while = 0,
              !.partner = SetBit(t.partner, "SYN", FALSE)]

EnterLacpDisabled(p, t) ==
    [t EXCEPT !.rx = "LACP_DISABLED", !.selected = FALSE,
              !.actor = SetBit(t.actor, "DEF", TRUE),
              !.partner = SetBit(PartnerAdmin(p), "AGG", FALSE)]

\* A faulty variant: the partner stays in sync.
EnterExpired_KeepsSync(t) ==
    [t EXCEPT !.rx = "EXPIRED", !.current_while = ShortTimeout,
              !.actor = SetBit(t.actor, "EXP", TRUE),
              !.partner = SetBit(t.partner, "TMT", TRUE)]

EnterExpired(t) ==
    [t EXCEPT !.rx = "EXPIRED", !.current_while = ShortTimeout,
              !.actor = SetBit(t.actor, "EXP", TRUE),
              !.partner = SetBit(SetBit(t.partner, "SYN", FALSE), "TMT", TRUE)]

EnterDefaulted(p, t) ==
    LET other == ~SamePartner(PartnerAdmin(p), t.partner)
        lost == SetBit(SetBit(t.actor, "DEF", TRUE), "EXP", FALSE)
    IN  [t EXCEPT !.rx = "DEFAULTED", !.selected = @ /\ ~other,
                  !.actor = IF other THEN SetBit(lost, "SYN", FALSE) ELSE lost,
                  !.partner = PartnerAdmin(p)]

\* A faulty variant: the partner's sync is set and never taken back.
EnterCurrent_KeepsSync(t) ==
    [t EXCEPT !.rx = "CURRENT", !.msg = NoMsg,
              !.selected = @ /\ ~NewPartner(t),
              !.ntt = @ \/ PartnerIsBehind(t) \/ ~PartnerMatched(t),
              !.actor = SetBit(SetBit(t.actor, "DEF", FALSE), "EXP", FALSE),
              !.partner = SetBit(t.msg.actor, "SYN",
                            \/ PartnerMatched(t) /\ Bit(t.msg.actor, "SYN")
                            \/ Bit(t.partner, "SYN")),
              !.current_while = TimeoutOf(Bit(t.actor, "TMT"))]

EnterCurrent(t) ==
    [t EXCEPT !.rx = "CURRENT", !.msg = NoMsg,
              !.selected = @ /\ ~NewPartner(t),
              !.ntt = @ \/ PartnerIsBehind(t) \/ ~PartnerMatched(t),
              !.actor = SetBit(SetBit(t.actor, "DEF", FALSE), "EXP", FALSE),
              !.partner = SetBit(t.msg.actor, "SYN",
                            PartnerMatched(t) /\ Bit(t.msg.actor, "SYN")),
              !.current_while = TimeoutOf(Bit(t.actor, "TMT"))]

RxEnter(p, t, s) ==
    CASE s = "INITIALIZE"    -> EnterInitialize(p, t)
      [] s = "PORT_DISABLED" -> EnterPortDisabled(t)
      [] s = "LACP_DISABLED" -> EnterLacpDisabled(p, t)
      [] s = "EXPIRED"       -> EnterExpired(t)
      [] s = "DEFAULTED"     -> EnterDefaulted(p, t)
      [] s = "CURRENT"       -> EnterCurrent(t)

-----------------------------------------------------------------------------
(* The mux machine, lacp_mux.c *)

\* A port its group wants to carry traffic.
InUse(t) == t.selected /\ ~t.standby

\* ready is sys_is_ready for the port's group.
MuxGoes(t, ready, s) ==
    \/ ~t.lacp_enabled /\ t.mux # "DISABLE" /\ s = "DISABLE"
    \/ t.lacp_enabled /\
       \/ t.mux \in {"BEGIN", "DISABLE"} /\ s = "DETACHED"
       \/ t.mux = "DETACHED" /\ InUse(t) /\ s = "WAITING"
       \/ t.mux = "WAITING" /\ t.wait_while = 0 /\ s = "READY_N"
       \/ t.mux = "READY_N" /\ InUse(t) /\ ready /\ s = "ATTACHED"
       \/ t.mux \in {"READY_N", "ATTACHED"} /\ ~InUse(t) /\ s = "DETACHED"
       \/ t.mux = "ATTACHED" /\ InUse(t) /\ Bit(t.partner, "SYN") /\ s = "RX_TX"
       \/ t.mux = "RX_TX" /\ ~(InUse(t) /\ Bit(t.partner, "SYN")) /\ s = "ATTACHED"

\* The SYN, COL and DIS bits that each state of the mux advertises.
MuxBits(s) ==
    CASE s = "DISABLE"  -> {"COL", "DIS"}
      [] s = "DETACHED" -> {}
      [] s = "ATTACHED" -> {"SYN"}

\* A faulty variant: the readiness of an earlier wait is kept.
EnterWaiting_KeepsReady(t) ==
    [t EXCEPT !.mux = "WAITING", !.wait_while = AggregateWait]

EnterWaiting(t) ==
    [t EXCEPT !.mux = "WAITING", !.wait_while = AggregateWait, !.ready_n = FALSE]

MuxEnter(t, s) ==
    CASE s \in {"DISABLE", "DETACHED", "ATTACHED"} ->
           [t EXCEPT !.mux = s, !.ntt = s # "DISABLE",
                     !.actor.state = (@ \ {"SYN", "COL", "DIS"}) \cup MuxBits(s)]
      [] s = "WAITING" -> EnterWaiting(t)
      [] s = "READY_N" -> [t EXCEPT !.mux = s, !.ready_n = TRUE]
      [] s = "RX_TX" ->
           [t EXCEPT !.mux = s, !.ntt = TRUE,
                     !.actor.state = @ \cup {"COL", "DIS"}]

-----------------------------------------------------------------------------
(* The transmit machine, lacp_tx.c *)

TxSilent(t) ==
    \/ t.tx = "BEGIN" \/ ~t.lacp_enabled \/ ~t.port_enabled
    \/ ~Bit(t.actor, "ACT") /\ ~Bit(t.partner, "ACT")

TxGoes(t, s) ==
    \/ TxSilent(t) /\ t.tx # "NO_PERIODIC" /\ s = "NO_PERIODIC"
    \/ ~TxSilent(t) /\
       \/ t.tx \in {"NO_PERIODIC", "PERIODIC_TX", "TX"} /\ s = "IDLE"
       \/ t.tx = "IDLE" /\ t.periodic_timer = 0 /\ s = "PERIODIC_TX"
       \/ t.tx = "IDLE" /\ t.periodic_timer # 0 /\ t.ntt
             /\ t.hold_count < MaxTx /\ s = "TX"

\* A faulty variant: the timer is not started again.
EnterPeriodic_NoTimer(t, slow, fast) == [t EXCEPT !.tx = "PERIODIC_TX", !.ntt = TRUE]

\* slow and fast are the system's periods at this moment.
EnterPeriodic(t, slow, fast) ==
    [t EXCEPT !.tx = "PERIODIC_TX", !.ntt = TRUE,
              !.periodic_timer = IF Bit(t.partner, "TMT") THEN fast ELSE slow]

TxEnter(t, slow, fast, s) ==
    CASE s = "NO_PERIODIC" ->
           [t EXCEPT !.tx = s, !.periodic_timer = 0, !.hold_count = 0]
      [] s = "PERIODIC_TX" -> EnterPeriodic(t, slow, fast)
      [] s = "IDLE" -> [t EXCEPT !.tx = s]
      [] s = "TX" -> [t EXCEPT !.tx = s, !.hold_count = @ + 1, !.ntt = FALSE]
=============================================================================
