----------------------------- MODULE LacpTypes -----------------------------
(***************************************************************************)
(* The data of one LACP system (src/lacp_lib/LACP/lacp_type.h, lacp_api.h):  *)
(* the state octet, the information record that describes one end of a     *)
(* link, a received LACPDU and the port record lacp_port_t.  Octets, MAC    *)
(* addresses and names are abstracted: a state octet is the set of its     *)
(* bits, a MAC address a value of the set Mac.                              *)
(***************************************************************************)
EXTENDS Integers

CONSTANTS
    Port,           \* port indexes of the front panel, from 0
    LacpPortMax,    \* LACP_PORT_MAX: ports from this index on are never created
    Agg,            \* aggregation group ids, from 1
    Mac,            \* values a system MAC address can take
    OwnMac,         \* those trunk_ssp_get_mac can leave in a buffer of this bridge
    ZeroMac,        \* the all-zero address
    LongTimeout,    \* Long_timeout_ticks
    ShortTimeout,   \* Short_timeout_ticks
    SlowPeriodic,   \* Slow_periodic_ticks, the initial slow_periodic_time
    FastPeriodic,   \* Fast_periodic_ticks, the initial fast_periodic_time
    AggregateWait,  \* Aggregate_wait_ticks
    MaxTx           \* Max_tx_per_interval

\* The 16-bit fields of the protocol and the 16-bit timers.
MaxWord == 65535
Word == 0 .. MaxWord
Low16(n) == n % (MaxWord + 1)

ASSUME PortAssumption == Port \subseteq 0 .. 143
ASSUME AggAssumption == Agg \subseteq 1 .. 32
ASSUME LimitAssumption == LacpPortMax \in Nat /\ MaxTx \in Nat
ASSUME MacAssumption == OwnMac \subseteq Mac /\ ZeroMac \in Mac
ASSUME TimerAssumption ==
    /\ LongTimeout \in Word /\ ShortTimeout \in Word
    /\ SlowPeriodic \in Word /\ FastPeriodic \in Word
    /\ AggregateWait \in Word

-----------------------------------------------------------------------------
StateBit == {"ACT", "TMT", "AGG", "SYN", "COL", "DIS", "DEF", "EXP"}

Info == [system_priority : Word, system_mac : Mac, key : Word,
         port_priority : Word, port_no : Word, state : SUBSET StateBit]

\* LACP_STATE_GET_BIT and LACP_STATE_SET_BIT
Bit(info, b) == b \in info.state
SetBit(info, b, on) ==
    [info EXCEPT !.state = IF on THEN @ \cup {b} ELSE @ \ {b}]

Default_system_priority == 32768
Default_port_priority == 16384

ZeroInfo == [system_priority |-> 0, system_mac |-> ZeroMac, key |-> 0,
             port_priority |-> 0, port_no |-> 0, state |-> {}]

\* lacp_port_get_actor_init, then lacp_port_init: what the local end of port p
\* starts from.  Only five of the six octets of the address are written by
\* trunk_ssp_get_mac, so the address is one of OwnMac.
ActorInit(p, mac, priority, short) ==
    [system_priority |-> priority, system_mac |-> mac, key |-> 0,
     port_priority |-> Default_port_priority, port_no |-> p + 1,
     state |-> {"ACT", "DEF"} \cup (IF short THEN {"TMT"} ELSE {})]

\* lacp_port_get_partner_init: what is assumed of a partner never heard of.
PartnerAdmin(p) ==
    [system_priority |-> Default_system_priority, system_mac |-> ZeroMac,
     key |-> p + 1, port_priority |-> Default_port_priority, port_no |-> p + 1,
     state |-> {"SYN", "COL", "DIS", "DEF"}]

-----------------------------------------------------------------------------
\* _same_port and _same_partner of lacp_rx.c
SamePort(a, b) == a.port_no = b.port_no /\ a.system_mac = b.system_mac

\* A faulty variant: the AGG bits are not compared.
SamePartner_NoAgg(a, b) ==
    /\ a.port_priority = b.port_priority
    /\ a.port_no = b.port_no
    /\ a.system_priority = b.system_priority
    /\ a.system_mac = b.system_mac
    /\ a.key = b.key

SamePartner(a, b) ==
    /\ a.port_priority = b.port_priority
    /\ a.port_no = b.port_no
    /\ a.system_priority = b.system_priority
    /\ a.system_mac = b.system_mac
    /\ a.key = b.key
    /\ Bit(a, "AGG") <=> Bit(b, "AGG")

-----------------------------------------------------------------------------
RxState == {"BEGIN", "INITIALIZE", "PORT_DISABLED", "LACP_DISABLED",
            "EXPIRED", "DEFAULTED", "CURRENT"}
SelState == {"BEGIN", "SELECTION"}
MuxState == {"BEGIN", "DISABLE", "DETACHED", "WAITING", "READY_N",
             "ATTACHED", "RX_TX"}
TxState == {"BEGIN", "NO_PERIODIC", "PERIODIC_TX", "IDLE", "TX"}

\* rcvd_lacpdu, msg_actor and msg_partner: a LACPDU received and not yet
\* processed, or none.
NoMsg == [rcvd |-> FALSE, actor |-> ZeroInfo, partner |-> ZeroInfo]
Pdu == [rcvd : {TRUE}, actor : Info, partner : Info]
Msg == Pdu \cup {NoMsg}

PortRecord ==
    [rx : RxState, sel : SelState, mux : MuxState, tx : TxState,
     actor : Info, partner : Info, actor_admin : Info, msg : Msg,
     current_while : Word, periodic_timer : Word, wait_while : Word,
     master_port : Port, port_enabled : BOOLEAN, port_moved : BOOLEAN,
     lacp_enabled : BOOLEAN, selected : BOOLEAN, standby : BOOLEAN,
     speed : Nat, duplex : BOOLEAN, agg_id : Agg \cup {0},
     ntt : BOOLEAN, ready_n : BOOLEAN, hold_count : Nat]

\* The record calloc returns; it also stands for a port that is not in the list.
ZeroPort(p) ==
    [rx |-> "BEGIN", sel |-> "BEGIN", mux |-> "BEGIN", tx |-> "BEGIN",
     actor |-> ZeroInfo, partner |-> ZeroInfo, actor_admin |-> ZeroInfo,
     msg |-> NoMsg,
     current_while |-> 0, periodic_timer |-> 0, wait_while |-> 0,
     master_port |-> p, port_enabled |-> FALSE, port_moved |-> FALSE,
     lacp_enabled |-> FALSE, selected |-> FALSE, standby |-> FALSE,
     speed |-> 0, duplex |-> FALSE, agg_id |-> 0,
     ntt |-> FALSE, ready_n |-> FALSE, hold_count |-> 0]
=============================================================================
