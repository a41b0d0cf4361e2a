-------------------------------- MODULE Lacp --------------------------------
(***************************************************************************)
(* One bridge running LACP: the list of ports, the loop of lacp_sys_update   *)
(* that drives their state machines (lacp_sys.c, lacp_statmch.c), the calls  *)
(* of lacp_api.c and trunk_api.c that change configuration, link and time,   *)
(* and the stub of the switch chip behind trunk_ssp.c.                      *)
(*                                                                         *)
(* The program is single threaded: a call runs to its return before the    *)
(* next one starts.  pc says where the thread is; every run of one machine's *)
(* enter-state routine is a step, so the loop's progress can be observed.    *)
(***************************************************************************)
EXTENDS LacpSelection, Sequences, SequencesExt

CONSTANTS
    Remote,         \* actor information that received LACPDUs may carry
    Heard,          \* partner information they may carry besides the current one
    IpcLinks,       \* link indications of the manager: a subset of BOOLEAN
    CliLinks,       \* values given to "set link"
    Speeds,         \* values given to "set speed"
    Duplexes,       \* values given to "set duplex"
    PortPrios,      \* values given to the port priority command
    SysPrios,       \* values given to the system priority command
    Timeouts,       \* values given to "period": TRUE is short
    LongPeriods,    \* values given to "long-period"
    ShortPeriods,   \* values given to "short-period"
    MayReEnable     \* may a port in a group be enabled again

ASSUME RemoteAssumption == Remote \subseteq Info /\ Heard \subseteq Info
ASSUME CommandAssumption ==
    /\ IpcLinks \subseteq BOOLEAN /\ CliLinks \subseteq BOOLEAN
    /\ Speeds \subseteq Nat /\ Duplexes \subseteq BOOLEAN
    /\ PortPrios \subseteq Nat /\ SysPrios \subseteq Nat
    /\ Timeouts \subseteq BOOLEAN
    /\ LongPeriods \subseteq Nat /\ ShortPeriods \subseteq Nat
    /\ MayReEnable \in BOOLEAN

VARIABLES
    ports,  \* sys->ports: the port indexes in list order
    port,   \* the record of each port
    sys,    \* sys->priority, lacp_timeout and the two periods
    attr,   \* g_port_list of the stub: what the chip holds of each port
    group,  \* g_link_groups of the stub: the member set of each group
    cur,    \* the machine lacp_change_state is looping on, or NoMachine
    pc,     \* where the thread is
    ret,    \* where it goes when lacp_sys_update returns
    args    \* the locals of the call in progress

vars == <<ports, port, sys, attr, group, cur, pc, ret, args>>

-----------------------------------------------------------------------------
MachineName == {"rx", "sel", "mux", "tx"}
NoMachine == <<>>

\* attr.prio of a port whose priority was never set (0xffffffff).
NoPrio == -1

Attr == [speed : Nat, duplex : BOOLEAN, cd : BOOLEAN, tid : Agg \cup {0},
         link_status : BOOLEAN, prio : Nat \cup {NoPrio}]
Sys == [priority : Word, lacp_timeout : BOOLEAN,
        slow_periodic_time : Word, fast_periodic_time : Word]
NoArgs == [port |-> 0, agg |-> 0, batch |-> {}, todo |-> {}]
ApiPc == {"enable_cfg", "enable_link", "disable_loop", "disable_port", "remove"}

Listed == Range(ports)

\* The ports whose agg_id is g.  Callers use it for g # 0 only.
Members(g) == {p \in Listed : port[p].agg_id = g}

\* stub_db_agg_get_port_tid, stub_db_port_lacp_is_enable
PortTid(p) ==
    LET in == {g \in Agg : p \in group[g]}
    IN  IF in = {} THEN 0 ELSE CHOOSE g \in in : \A h \in in : g <= h
IsEnabled(p) == PortTid(p) # 0

\* lacp_port_set_reselect: f with every port of group g unselected.
Reselect(f, g) ==
    [p \in DOMAIN f |->
        IF g # 0 /\ p \in Listed /\ f[p].agg_id = g
        THEN [f[p] EXCEPT !.selected = FALSE] ELSE f[p]]

-----------------------------------------------------------------------------
(* The check routines on the state of the system *)

\* sys_is_ready of lacp_mux.c
SysIsReady(p) ==
    \A q \in Listed :
       port[q].agg_id = port[p].agg_id /\ InUse(port[q]) => port[q].ready_n

SelGoes(t) == t.sel = "BEGIN" \/ ~t.selected

CanHop(p, m) ==
    CASE m = "rx"  -> \E s \in RxState : RxGoes(port[p], s)
      [] m = "sel" -> SelGoes(port[p])
      [] m = "mux" -> \E s \in MuxState : MuxGoes(port[p], SysIsReady(p), s)
      [] m = "tx"  -> \E s \in TxState : TxGoes(port[p], s)

\* The machines of a port are checked in this order.
Before(m) ==
    CASE m = "rx"  -> {}
      [] m = "sel" -> {"rx"}
      [] m = "mux" -> {"rx", "sel"}
      [] m = "tx"  -> {"rx", "sel", "mux"}

CurCanHop == cur # NoMachine /\ CanHop(cur[1], cur[2])

\* Machine m of port p is the one that runs next: the machine being changed if
\* its check still fires after its last entry (lacp_change_state), otherwise the
\* first of the list whose check fires (lacp_iterate_machines).
Turn(p, m) ==
    /\ pc = "update"
    /\ CanHop(p, m)
    /\ IF CurCanHop
       THEN cur = <<p, m>>
       ELSE \E i \in DOMAIN ports :
               /\ ports[i] = p
               /\ \A n \in Before(m) : ~CanHop(p, n)
               /\ \A j \in 1 .. i - 1, n \in MachineName : ~CanHop(ports[j], n)

Quiet == \A p \in Listed, m \in MachineName : ~CanHop(p, m)

-----------------------------------------------------------------------------
(* lacp_sys_update: one entry of one machine *)

RunRx(p) ==
    /\ Turn(p, "rx")
    /\ \E s \in RxState :
          /\ RxGoes(port[p], s)
          /\ LET f == [port EXCEPT ![p] = RxEnter(p, port[p], s)]
             IN  port' = IF s = "CURRENT" /\ NewPartner(port[p])
                         THEN Reselect(f, port[p].agg_id) ELSE f
    /\ cur' = <<p, "rx">>
    /\ UNCHANGED <<ports, sys, attr, group, pc, ret, args>>

\* selection_logic: a port without LACP is marked standby by itself, a port in
\* a group has the whole group updated.
RunSel(p) ==
    /\ Turn(p, "sel")
    /\ LET f == [port EXCEPT ![p].sel = "SELECTION"]
           key == [q \in Port |-> OperKey(PortTid(q), attr[q].speed, attr[q].duplex)]
       IN  port' = CASE ~port[p].lacp_enabled ->
                          [f EXCEPT ![p].selected = TRUE, ![p].standby = TRUE]
                     [] port[p].lacp_enabled /\ port[p].agg_id = 0 -> f
                     [] OTHER ->
                          UpdateAggPortsSelect(f, Members(port[p].agg_id), key)
    /\ cur' = <<p, "sel">>
    /\ UNCHANGED <<ports, sys, attr, group, pc, ret, args>>

\* A faulty variant: detaching leaves the trunk id in the chip.
MuxChip_KeepsTid(a, g, s) ==
    CASE s = "DISABLE"  -> [a EXCEPT !.tid = 0, !.cd = TRUE]
      [] s = "DETACHED" -> [a EXCEPT !.cd = FALSE]
      [] s = "ATTACHED" -> [a EXCEPT !.tid = g, !.cd = FALSE]
      [] s = "RX_TX"    -> [a EXCEPT !.cd = TRUE]
      [] OTHER -> a

\* What entering mux state s does to the chip's record a of a port of group g.
MuxChip(a, g, s) ==
    CASE s = "DISABLE"  -> [a EXCEPT !.tid = 0, !.cd = TRUE]
      [] s = "DETACHED" -> [a EXCEPT !.tid = 0, !.cd = FALSE]
      [] s = "ATTACHED" -> [a EXCEPT !.tid = g, !.cd = FALSE]
      [] s = "RX_TX"    -> [a EXCEPT !.cd = TRUE]
      [] OTHER -> a

RunMux(p) ==
    /\ Turn(p, "mux")
    /\ \E s \in MuxState :
          /\ MuxGoes(port[p], SysIsReady(p), s)
          /\ port' = [port EXCEPT ![p] = MuxEnter(port[p], s)]
          /\ attr' = [attr EXCEPT ![p] = MuxChip(attr[p], port[p].agg_id, s)]
    /\ cur' = <<p, "mux">>
    /\ UNCHANGED <<ports, sys, group, pc, ret, args>>

\* Entering TX sends the LACPDU [actor |-> port[p].actor, partner |->
\* port[p].partner]; a module that models the wire conjoins that to this action.
RunTx(p) ==
    /\ Turn(p, "tx")
    /\ \E s \in TxState :
          /\ TxGoes(port[p], s)
          /\ port' = [port EXCEPT ![p] =
                         TxEnter(port[p], sys.slow_periodic_time,
                                 sys.fast_periodic_time, s)]
    /\ cur' = <<p, "tx">>
    /\ UNCHANGED <<ports, sys, attr, group, pc, ret, args>>

\* No check fires: lacp_sys_update returns to its caller.
UpdateReturns ==
    /\ pc = "update" /\ Quiet
    /\ pc' = ret /\ cur' = NoMachine
    /\ args' = IF ret = "idle" THEN NoArgs ELSE args
    /\ ret' = "idle"
    /\ UNCHANGED <<ports, port, sys, attr, group>>

-----------------------------------------------------------------------------
(* The calls.  StartUpdate(next): the call enters lacp_sys_update and, when    *)
(* that returns, goes on at next.                                           *)

StartUpdate(next) == pc' = "update" /\ ret' = next /\ UNCHANGED cur

\* A call that only changes port records and then updates the system.
CallUpdate ==
    /\ StartUpdate("idle")
    /\ UNCHANGED <<ports, group, args>>

\* A faulty variant: no test for zero.
Minus1_Unguarded(n) == n - 1

Minus1(n) == IF n > 0 THEN n - 1 ELSE 0

\* Faulty variants: the loop over the timers misses the first or the last of
\* them, or the transmit allowance is not renewed.
Ticked_NotFirst(t) ==
    [t EXCEPT !.periodic_timer = Minus1(@), !.wait_while = Minus1(@), !.hold_count = 0]
Ticked_NotLast(t) ==
    [t EXCEPT !.current_while = Minus1(@), !.periodic_timer = Minus1(@), !.hold_count = 0]
Ticked_NoAllowance(t) ==
    [t EXCEPT !.current_while = Minus1(@), !.periodic_timer = Minus1(@),
              !.wait_while = Minus1(@)]

\* What a second does to a port record.
Ticked(t) ==
    [t EXCEPT !.current_while = Minus1(@), !.periodic_timer = Minus1(@),
              !.wait_while = Minus1(@), !.hold_count = 0]

OneSecond ==
    /\ pc = "idle"
    /\ port' = [p \in Port |-> IF p \in Listed THEN Ticked(port[p]) ELSE port[p]]
    /\ CallUpdate
    /\ UNCHANGED <<sys, attr>>

\* The port lacp_rxm_rx_lacpdu marks as moved: the first other port of the list
\* whose link is down and whose recorded partner is the sender.
Moved(p, m, q) ==
    LET Hit(r) == /\ r # p /\ port[r].rx = "PORT_DISABLED"
                  /\ SamePort(port[r].partner, m.actor)
    IN  \E i \in DOMAIN ports :
           ports[i] = q /\ Hit(q) /\ \A j \in 1 .. i - 1 : ~Hit(ports[j])

\* A LACPDU for any other port is dropped on the way to its machine.
Hears(p) == IsEnabled(p) /\ p \in Listed /\ port[p].port_enabled

\* trunk_ssp_rx_lacpdu, lacp_rx_lacpdu, lacp_rxm_rx_lacpdu
RxLacpdu(p, m) ==
    /\ pc = "idle" /\ Hears(p)
    /\ port' = IF port[p].lacp_enabled
               THEN [q \in Port |->
                       IF q = p THEN [port[p] EXCEPT !.msg = m]
                       ELSE [port[q] EXCEPT !.port_moved = @ \/ Moved(p, m, q)]]
               ELSE port
    /\ CallUpdate
    /\ UNCHANGED <<sys, attr>>

\* The record t of a port whose link has changed; a is the chip's record.
WithLink(t, a, up) ==
    [t EXCEPT !.port_enabled = up, !.speed = a.speed, !.duplex = a.duplex,
              !.actor = IF a.duplex THEN @ ELSE SetBit(@, "AGG", FALSE)]

\* A faulty variant: the group does not select again.
LinkChanged_NoReselect(p, up) == [port EXCEPT ![p] = WithLink(@, attr[p], up)]

\* lacp_port_link_change for a listed port whose port_enabled is not up.
LinkChanged(p, up) ==
    Reselect([port EXCEPT ![p] = WithLink(@, attr[p], up)], port[p].agg_id)

\* trunk_port_link_change
LinkIndication(p, up) ==
    IF IsEnabled(p) /\ p \in Listed /\ port[p].port_enabled # up
    THEN port' = LinkChanged(p, up) /\ CallUpdate
    ELSE UNCHANGED <<ports, port, group, cur, pc, ret, args>>

\* bridge_control on BR_IPC_PORT_CONNECT and BR_IPC_PORT_DISCONNECT
LinkChange(p, up) ==
    /\ pc = "idle"
    /\ LinkIndication(p, up)
    /\ attr' = [attr EXCEPT ![p].link_status = up]
    /\ UNCHANGED sys

\* cli_pr_set_link: the stored link status is not touched.
SetLink(p, up) ==
    /\ pc = "idle"
    /\ LinkIndication(p, up)
    /\ UNCHANGED <<sys, attr>>

\* A faulty variant: the group does not select again.
SetAttr_NoReselect(p, a) ==
    /\ pc = "idle"
    /\ attr' = [attr EXCEPT ![p] = a]
    /\ CallUpdate
    /\ UNCHANGED <<port, sys>>

\* lacp_port_set_cfg with PT_CFG_COST, after the chip's record became a.
SetAttr(p, a) ==
    /\ pc = "idle"
    /\ attr' = [attr EXCEPT ![p] = a]
    /\ port' = Reselect(port, port[p].agg_id)
    /\ CallUpdate
    /\ UNCHANGED sys

SetSpeed(p, v) == SetAttr(p, [attr[p] EXCEPT !.speed = v])
SetDuplex(p, v) == SetAttr(p, [attr[p] EXCEPT !.duplex = v])

\* The priority given to port p, in its admin and its operational record.
WithPrio(f, p, v) ==
    [f EXCEPT ![p].actor_admin.port_priority = Low16(v),
              ![p].actor.port_priority = Low16(v)]

\* trunk_port_set_prio
SetPortPrio(p, v) ==
    /\ pc = "idle"
    /\ attr' = [attr EXCEPT ![p].prio = v]
    /\ IF IsEnabled(p)
       THEN /\ port' = IF p \in Listed
                       THEN Reselect(WithPrio(port, p, v), port[p].agg_id)
                       ELSE port
            /\ CallUpdate
       ELSE UNCHANGED <<ports, port, group, cur, pc, ret, args>>
    /\ UNCHANGED sys

\* trunk_port_clear_stat: lacp_port_set_cfg with PT_CFG_STAT only updates.
ClearStat(p) ==
    /\ pc = "idle" /\ IsEnabled(p)
    /\ CallUpdate
    /\ UNCHANGED <<port, sys, attr>>

\* lacp_sys_set_cfg: the system becomes s, every port learns it and must send.
SysSetCfg(s) ==
    /\ pc = "idle"
    /\ sys' = s
    /\ port' = [p \in Port |->
                  IF p \in Listed
                  THEN [port[p] EXCEPT
                          !.actor = SetBit([@ EXCEPT !.system_priority = s.priority],
                                           "TMT", s.lacp_timeout),
                          !.ntt = TRUE]
                  ELSE port[p]]
    /\ CallUpdate
    /\ UNCHANGED attr

SetSysPrio(v) == SysSetCfg([sys EXCEPT !.priority = Low16(v)])
SetPeriod(short) == SysSetCfg([sys EXCEPT !.lacp_timeout = short])
SetLongPeriod(v) == SysSetCfg([sys EXCEPT !.slow_periodic_time = Low16(v)])
SetShortPeriod(v) == SysSetCfg([sys EXCEPT !.fast_periodic_time = Low16(v)])

-----------------------------------------------------------------------------
(* trunk_port_lacp_enable: create the port, configure it, tell it its link    *)

\* lacp_port_create
FreshPort(p, mac) ==
    [ZeroPort(p) EXCEPT
        !.actor_admin = ActorInit(p, mac, sys.priority, sys.lacp_timeout),
        !.speed = attr[p].speed,
        !.duplex = attr[p].duplex]

\* lacp_create_ports creates p: the index is in range and not yet in the list.
Creates(p) == p < LacpPortMax /\ p \notin Listed

Enable(p, g) ==
    /\ pc = "idle"
    /\ IsEnabled(p) => MayReEnable
    /\ IF Creates(p)
       THEN \E mac \in OwnMac :
               /\ ports' = <<p>> \o ports
               /\ port' = [port EXCEPT ![p] = FreshPort(p, mac)]
       ELSE UNCHANGED <<ports, port>>
    /\ args' = [NoArgs EXCEPT !.port = p, !.agg = g]
    /\ StartUpdate("enable_cfg")
    /\ UNCHANGED <<sys, attr, group>>

\* stub_db_agg_add_member, then lacp_port_set_cfg with STATE, COST, STAT and PRIO
EnableCfg ==
    /\ pc = "enable_cfg"
    /\ LET p == args.port
           g == args.agg
           prio == IF attr[p].prio = NoPrio THEN Default_port_priority ELSE attr[p].prio
           f == [port EXCEPT ![p].actor_admin = SetBit(@, "AGG", TRUE),
                             ![p].actor = SetBit(@, "AGG", TRUE),
                             ![p].agg_id = g,
                             ![p].lacp_enabled = TRUE]
       IN  /\ group' = [group EXCEPT ![g] = @ \cup {p}]
           /\ port' = IF p \in Listed THEN Reselect(WithPrio(f, p, prio), g) ELSE port
    /\ StartUpdate("enable_link")
    /\ UNCHANGED <<ports, sys, attr, args>>

\* lacp_port_link_change with the stored link status: nothing to do ends the call,
\* M_LACP_NOT_ENABLE for a port that was not created ends the whole process, as
\* read_cli does when a command fails.
EnableLink ==
    /\ pc = "enable_link"
    /\ LET p == args.port
           up == attr[p].link_status
       IN  IF p \in Listed /\ port[p].port_enabled # up
           THEN /\ port' = LinkChanged(p, up)
                /\ StartUpdate("idle")
                /\ UNCHANGED args
           ELSE /\ pc' = IF p \in Listed THEN "idle" ELSE "gone"
                /\ args' = NoArgs
                /\ UNCHANGED <<port, cur, ret>>
    /\ UNCHANGED <<ports, sys, attr, group>>

-----------------------------------------------------------------------------
(* trunk_port_lacp_disable_batch, called for one port or for a whole group     *)

\* A faulty variant: the stub keeps the members.
StartDisable_KeepsMembers(S) ==
    /\ pc = "idle"
    /\ args' = [NoArgs EXCEPT !.batch = S, !.todo = S \cap Listed]
    /\ pc' = "disable_loop"
    /\ UNCHANGED <<ports, port, sys, attr, group, cur, ret>>

\* stub_db_agg_del_member for every port, then the loop of lacp_port_set_cfg.
StartDisable(S) ==
    /\ pc = "idle"
    /\ group' = [g \in Agg |-> group[g] \ S]
    /\ args' = [NoArgs EXCEPT !.batch = S, !.todo = S \cap Listed]
    /\ pc' = "disable_loop"
    /\ UNCHANGED <<ports, port, sys, attr, cur, ret>>

Disable(p) == IsEnabled(p) /\ StartDisable({p})
DeleteAgg(g) == StartDisable(group[g])

IsFirst(p, S) == p \in S /\ \A q \in S : p <= q

\* The next port of the batch in lacp_port_set_cfg: it gives up aggregation and
\* the update is to tell the partner ...
DisableNotify(p) ==
    /\ pc = "disable_loop" /\ IsFirst(p, args.todo)
    /\ port' = [port EXCEPT ![p].ntt = TRUE,
                            ![p].actor_admin = SetBit(@, "AGG", FALSE),
                            ![p].actor = SetBit(@, "AGG", FALSE)]
    /\ args' = [args EXCEPT !.port = p, !.todo = @ \ {p}]
    /\ StartUpdate("disable_port")
    /\ UNCHANGED <<ports, sys, attr, group>>

\* ... then it leaves its group, which has to select anew.
DisableLeave ==
    /\ pc = "disable_port"
    /\ LET p == args.port IN
       port' = [Reselect(port, port[p].agg_id)
                  EXCEPT ![p].agg_id = 0, ![p].lacp_enabled = FALSE]
    /\ pc' = "disable_loop"
    /\ UNCHANGED <<ports, sys, attr, group, cur, ret, args>>

\* A faulty variant: the ports are removed without a last update.
DisableUpdate_Skipped ==
    /\ pc = "disable_loop" /\ args.todo = {}
    /\ pc' = "remove"
    /\ UNCHANGED <<ports, port, sys, attr, group, cur, ret, args>>

DisableUpdate ==
    /\ pc = "disable_loop" /\ args.todo = {}
    /\ StartUpdate("remove")
    /\ UNCHANGED <<ports, port, sys, attr, group, args>>

\* One round of lacp_remove_ports: lacp_port_delete unlinks and frees the port.
RemovePort(p) ==
    /\ pc = "remove" /\ IsFirst(p, args.batch \cap Listed)
    /\ \E i \in DOMAIN ports : ports[i] = p /\ ports' = RemoveAt(ports, i)
    /\ port' = [port EXCEPT ![p] = ZeroPort(p)]
    /\ UNCHANGED <<sys, attr, group, cur, pc, ret, args>>

RemoveReturns ==
    /\ pc = "remove" /\ args.batch \cap Listed = {}
    /\ pc' = "idle" /\ args' = NoArgs
    /\ UNCHANGED <<ports, port, sys, attr, group, cur, ret>>

-----------------------------------------------------------------------------
\* stub_init and lacp_sys_init
BootAttr == [speed |-> 1000, duplex |-> TRUE, cd |-> TRUE,
             tid |-> 0, link_status |-> FALSE, prio |-> NoPrio]
BootSys == [priority |-> Default_system_priority, lacp_timeout |-> FALSE,
            slow_periodic_time |-> SlowPeriodic, fast_periodic_time |-> FastPeriodic]
Init ==
    /\ ports = <<>>
    /\ port = [p \in Port |-> ZeroPort(p)]
    /\ sys = BootSys
    /\ attr = [p \in Port |-> BootAttr]
    /\ group = [g \in Agg |-> {}]
    /\ cur = NoMachine
    /\ pc = "idle" /\ ret = "idle" /\ args = NoArgs

\* What a partner's LACPDU may say of port p: something older, or what p is now.
Views(p) == Heard \cup {port[p].actor}

Run(p) == RunRx(p) \/ RunSel(p) \/ RunMux(p) \/ RunTx(p)
Update == UpdateReturns \/ \E p \in Port : Run(p)

Continue ==
    \/ EnableCfg \/ EnableLink
    \/ DisableLeave \/ DisableUpdate \/ RemoveReturns
    \/ \E p \in Port : DisableNotify(p) \/ RemovePort(p)

Command ==
    \/ \E p \in Port :
          \/ \E a \in Remote, v \in Views(p) :
                RxLacpdu(p, [rcvd |-> TRUE, actor |-> a, partner |-> v])
          \/ \E up \in IpcLinks : LinkChange(p, up)
          \/ \E up \in CliLinks : SetLink(p, up)
          \/ \E v \in Speeds : SetSpeed(p, v)
          \/ \E v \in Duplexes : SetDuplex(p, v)
          \/ \E v \in PortPrios : SetPortPrio(p, v)
          \/ \E g \in Agg : Enable(p, g)
          \/ Disable(p)
          \/ ClearStat(p)
    \/ \E g \in Agg : DeleteAgg(g)
    \/ \E v \in SysPrios : SetSysPrio(v)
    \/ \E v \in Timeouts : SetPeriod(v)
    \/ \E v \in LongPeriods : SetLongPeriod(v)
    \/ \E v \in ShortPeriods : SetShortPeriod(v)

Next == Update \/ Continue \/ OneSecond \/ Command

Spec == Init /\ [][Next]_vars
=============================================================================
