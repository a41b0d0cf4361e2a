# LACP bridge simulator: TLA+ models, checks and proofs

The repository is a user-space implementation of link aggregation control (the
Marker-less part of IEEE 802.1AX / 802.3ad clause 43) together with a small test bed
to run it in: `bridge` is a simulated switch with a command line, `mngr` a process
that plays the cables between several bridges.  This directory holds a formal model of
it: TLA+ modules, TLC instances, and proofs checked by TLAPS.

`PROJECT.json` is the index: which source lines a definition models (`map`), what every
run checks, which hazard a property is for, and for each property a fault in a mapped
definition that makes it fail.

## 1. The system

### Parts, their state and their operations

| part (under `src/lacp_lib/`) | state | operations | makes it correct |
|---|---|---|---|
| port data, `LACP/lacp_type.h`, `lacp_base.h` | `lacp_port_t`: the four machines' states, actor, partner and admin information, the buffered LACPDU, timers, `selected`, `standby`, `master_port` | field access, bit get and set | 16-bit fields and timers never wrap |
| receive machine, `LACP/lacp_rx.c` | `rx` state, `current_while` | `lacp_rx_check_conditions`, `lacp_rx_enter_state`, `lacp_rxm_rx_lacpdu` | a silent partner is dropped; a new one makes the group select anew |
| selection, `LACP/lacp_sel.c` | `selected`, `standby`, `master_port` of a group | `select_master_port`, `partners_aport`, `update_agg_ports_select` | one partner system per group, the best master, no loop through the group, never a stale result |
| mux machine, `LACP/lacp_mux.c` | `mux` state, `wait_while`, `ready_n`, the chip | check and enter, `sys_is_ready`, attach, detach, collecting/distributing | traffic only while partner and selection agree; no port attaches while one of its group waits |
| transmit machine, `LACP/lacp_tx.c` | `tx` state, `periodic_timer`, `hold_count`, `ntt` | check and enter, `tx_lacpdu` | keeps reporting, within the rate limit |
| driver, `LACP/lacp_sys.c`, `lacp_statmch.c` | the system record and the port list | `lacp_sys_update`, `lacp_iterate_machines`, `lacp_change_state` | the update ends |
| API, `LACP/lacp_api.c`, `lacp_port.c` | the port list | create, configure, link change, receive, one second, delete | every call leaves a consistent system |
| trunk API, `trunk_api.c` | none of its own | enable, disable, delete group, priorities, periods, speed, duplex | membership in the protocol and in the switch agree |
| switch, `lacp_stub.c`, `trunk_ssp.c` | `g_port_list` (speed, duplex, collecting/distributing, trunk id, link, priority), `g_link_groups` | setters, operational key | a port outside every group is an ordinary port |
| bridge process, `bridge.c` | the socket, the ports told up, the deadline of the second | `bridge_start`, `main_loop`, `bridge_control`, `bridge_rx_bpdu`, `bridge_tx_bpdu`, `bridge_shutdown` | seconds keep passing; what it does depends on the order in which it is told |
| manager, `mngr.c` | `br_lst`, the registered bridges, each with the table of its ports' partners | register, unregister, link, unlink, ring, forward, shutdown | the table is a matching of listed entries; a LACPDU reaches the neighbour the receiver knows of |
| transport, `IPC/ipc.c` | a datagram socket for each process | init, `IPC_SocketSendto`, `IPC_SocketRecvfrom` | order; a sender that waits is let go |
| command line, `trunk_cli.c`, `CLI/cli.c` | the command list | parse, call, display | a command that reports an error ends the process |
| `uid_sock.c`, `BITMAP/`, `trace.c` | - | an older copy of the transport that no makefile builds, sets of ports, output | - |

### How they interact

A bridge registers with the manager by a datagram (HANDSHAKE), tells it every LACPDU a port
transmits (BPDU) and says goodbye when it ends (SHUTDOWN).  The manager tells a bridge that a
port got a cable or lost it (CONNECT, DISCONNECT), hands on the LACPDUs of the port at the
other end, and tells everybody to stop when its own operator quits.  All of this goes through one
local datagram socket for each process: `sendto` blocks while the receiver's socket is full
and fails, which nobody looks at, when the receiver has gone.

A bridge is one thread.  `main_loop` waits with `select` for a key, a datagram of the
manager or the end of the second, and makes one call: a command ends in `trunk_api.c`, a
link indication in `trunk_port_link_change`, a LACPDU in `lacp_rx_lacpdu`, a second in
`lacp_one_second`.  A call changes port records and then enters `lacp_sys_update`, which
looks for the first machine of the first port of the list whose check fires, enters its
new state, repeats the check of the same machine, then starts over, until no check
fires.  Entering a state changes the port, sometimes the other ports of the group
(`lacp_port_set_reselect`, `update_agg_ports_select`), the switch (`trunk_ssp_*`), or sends
a LACPDU.  A call may enter the update several times: enabling a port does after its
creation, its configuration and its link state; disabling a batch does once for every
port and once more.

### What is hard

- **Order inside a call.**  Between the entries of two machines the ports of a group are
  in mixed states, and each entry can re-enable any machine of any port.  Whether the
  loop ends is a property of all machines together.
- **Order of calls.**  LACPDUs, link indications, commands and seconds come in any order;
  a LACPDU may describe what the port was long ago; it may come after the link went
  down; the partner may be another system, may not aggregate, or be this bridge itself.
- **Two tables of membership**, the protocol's list and the switch's groups, changed at
  different moments of one call.
- **Cached values**: `port->speed`, `ready_n`, `master_port`, the key, `actor_admin`.
- **Limits**: timers at zero, the transmit allowance, `LACP_PORT_MAX`, sockets that are full.
- **Processes that die**: a bridge that is killed stays registered and its neighbours keep their
  links; a new one may get its pid; a manager that dies takes every cable with it and tells
  nobody; the next one knows no bridge.
- **One name, several meanings**: a LACPDU does not say who sent it, and a pid may be listed
  twice, with some operations taking the first entry and some the last.

The list of hazards with their lines, and the properties aimed at each, is in
`PROJECT.json`.

## 2. The modules

| module | models |
|---|---|
| `LacpTypes` | the data: information records, the port record, a LACPDU, the records a port starts from |
| `LacpMachines` | the receive, mux and transmit machines as `XxGoes(t, s)` (the check of the port record `t` hops to `s`) and `XxEnter(.., s)` (the record that entering `s` leaves) |
| `LacpSelection` | `lacp_sel.c`: candidates, the order of ports, the master, who joins it, the update of a group |
| `Lacp` | one bridge: `vars`, one action per run of a machine and one per part of a call, `Init`, `Next`, `Spec` |
| `LacpSafety` | `TypeOK`, invariants and two action properties |
| `LacpLiveness` | `FairSpec` and the temporal properties |
| `SelectMaster` | the loop of `select_master_port`, one port of the list a step |
| `Mngr` | the manager, the sockets and of each bridge the process around its calls |
| `MngrSafety` | `TypeOK`, the table, the order of what a bridge reads, the refinement of `Cables`, fairness and the two temporal properties |
| `MngrRing` | the ring command |
| `Cables` | the abstract specification: ports, cables, LACPDUs on their way; no sockets, entries or pids |
| `Bridges` | two instances of `Lacp` over `Cables`, with their clocks and operators |
| `BridgesSafety` | what two bridges achieve together |
| `MCValues`, `MCLacp`, `MCMngr`, `MCRing`, `MCBridges` | values of constants for TLC |
| `MCStale` | `Lacp` for TLC, narrowed to one story of a group of three ports |
| `LacpDataProofs` | lemmas on records, settings and the order of ports; the master exists |
| `LacpSafetyProofs`, `LacpChipProofs`, `LacpCurrentProofs` | the theorems about one bridge; each module extends the one before it and its invariant |
| `SelectMasterProofs` | the loop of `select_master_port` |
| `MngrProofs` | the theorems about the manager's table and what the bridges read; the manager implements `Cables` |
| `BridgesEndsProofs`, `BridgesProofs` | the theorem about two bridges: the ends of the cables and the invariant; its steps and what follows |

`MngrRing` -> `MngrSafety` -> `Mngr` implements `Cables`; `Bridges` runs `Lacp` (twice) over
`Cables`.  So what `Bridges` shows of two bridges rests on the cables, and what `Mngr` shows is
that the manager and the sockets are such cables.

### State and actions of `Lacp`

`ports` is the linked list (`LACP_NEW_IN_LIST` puts a new port at its head), `port` the record of
every port (the record of a port outside the list is what `calloc` would return), `sys`
the system's settings, `attr` and `group` the two tables of the switch stub.  `pc`, `ret`,
`args` and `cur` stand for the thread: where it is, what follows when
`lacp_sys_update` returns, the locals of the call, and the machine `lacp_change_state` is in.

| action | code |
|---|---|
| `RunRx`, `RunSel`, `RunMux`, `RunTx` | one entry of a machine in `lacp_sys_update`; `Turn` says which machine's turn it is |
| `UpdateReturns` | no check fires |
| `OneSecond` | `lacp_one_second` |
| `RxLacpdu` | `lacp_rx_lacpdu`, `lacp_rxm_rx_lacpdu` |
| `LinkChange`, `SetLink` | `bridge_control`, `cli_pr_set_link`, both through `trunk_port_link_change` |
| `SetSpeed`, `SetDuplex`, `SetPortPrio` | the port settings |
| `ClearStat` | `trunk_port_clear_stat`, which enters the update |
| `SetSysPrio`, `SetPeriod`, `SetLongPeriod`, `SetShortPeriod` | `lacp_sys_set_cfg` |
| `Enable`, `EnableCfg`, `EnableLink` | `trunk_port_lacp_enable`, cut where it enters the update |
| `Disable`, `DeleteAgg`, `DisableNotify`, `DisableLeave`, `DisableUpdate`, `RemovePort`, `RemoveReturns` | `trunk_port_lacp_disable_batch` for one port or a group |

Each part of a call is one step: the program is single threaded, so nothing can be
observed between two assignments of a part.  An update is many steps, so that properties
can speak of its middle and of its end.

Abstractions:

- A state octet is the set of its bits, a MAC address a member of `Mac`.  The address of a
  port is chosen from `OwnMac` because `trunk_ssp_get_mac` writes five of its six octets.
- `Remote` and `Heard` bound the LACPDUs: the sender describes itself with a member of `Remote`,
  and this port with what the port is now or with a member of `Heard` (something it was, or
  nothing at all).
- The command line passes any number on, so 16-bit settings are stored modulo 2^16.
- `MayReEnable` says whether a port already in a group may be enabled again; the code accepts
  it and says "TODO" (`trunk_api.c:146`).  It is `TRUE` in the run `commands` only (see "What the
  model shows of the code" in section 3).
- `attr.prio` and `link_status` are stored after the update in the code and before it in the
  model; nothing reads them in between.
- Statistics counters, trace output and the display are left out.  `clear lacp stat` is an action all
  the same (`ClearStat`), because it enters the update.
- A command that reports an error ends the process (`cli.c:405`): enabling a port from `LACP_PORT_MAX` on
  leaves `pc = "gone"`.

### State and actions of `Mngr` and `Cables`

`br_lst` is the list of entries in its order, each named by the process that registered, `link` the
`bridge_partner` and `port_partner` of every port entry.  A `Bridge` is one life of a process and `PidOf` its
number: two lives may share one, at different times.  `queue` and `inbox[b]` are the sockets, with room for
`Cap` datagrams; `out` is what the manager's current handler has still to send and `call[b]` the LACPDUs the bridge's
current call has still to send, since each send may block.  `peer` is history: whose cable a port was last told it has.

| action | code |
|---|---|
| `Start`, `SayBye`, `Quit` | `bridge_start`, `bridge_shutdown`, the ways out of `main_loop` |
| `StartCall`, `Transmit`, `Read` | a call that sends, `bridge_tx_bpdu`, `read_ipc` |
| `ReadUid` | `read_uid`: `RegisterBridge`, `UnregisterBridge` or `RxBpdu` |
| `LinkBridges`, `UnlinkPort`, `QuitManager`, `LinkRing` | the commands of the manager's operator |
| `Deliver` | one `IPC_SocketSendto` of a handler |
| `ManagerReturns`, `ManagerStart` | `mngr_shutdown` done, `mngr_start` |
| `Crash`, `ManagerCrash` | a process is killed or traps a signal, at any step |

`Cables` says the same without sockets, entries and pids: a cable is a pair of ports, an operator plugs it and takes it
out, each end is told, and the manager takes the oldest LACPDU to the port at the other end of the cable that is in *then*.
`Implements` is `Cables!Spec` under this mapping: `cable` is `link`; `sent` is the LACPDUs in the manager's socket; `way[e]` is
what the socket of its bridge holds for port `e` followed by what `out` holds for it.  Registration, farewells and
the `SHUTDOWN` of the manager are steps of no consequence or the end of a process.  Hard parts of the mapping:
`UnregisterBridge` takes a whole set of cables out in one step while the messages leave one by one; a manager that ends
loses any suffix of what it was still to say; what is in a dead bridge's socket is gone.

### `Bridges`

`L` and `R` are two instances of `Lacp`; what one of them transmits (`TransmitL`, `TransmitR`) is a `Send` of `Cables` and what
it is told (`ReadL`, `ReadR`) a `Receive` followed by `LinkChange` or `RxLacpdu`.  `lead` is how far the clock of `L` is ahead.  Three
decisions keep it within TLC's reach:

- *One call at a time* (`Calm`).  A call reads one datagram, computes on its own data and appends to the manager's
  socket; it reads nothing shared after its start.  So a run in which two calls overlap has the same reads and
  the same datagrams as one in which the call that sends first goes first, except that a single call sends several LACPDUs
  and those of two overlapping calls may alternate in the manager's socket; a port has one cable and their order on it is kept.
- *Seconds wait for quiet.*  `select` times out only when nothing is to be read, and the manager answers within a second; each clock
  is at most one second ahead of the other (the clocks of one machine), so a second of one side falls
  before or after one of the other but not two.
- Only `R` dies, in any state of rest with up to `Flight` datagrams under way; `L` is its mirror image.


## 3. What TLC checks

| run | instance | properties | states |
|---|---|---|---|
| `two_ports` | 2 ports, 1 group, two partner systems and one that cannot aggregate; links, seconds, membership in any order | `TypeOK`, `InUseIsAggregatable`, `TrafficNeedsLivePartner`, `OnePartnerPerGroup`, `ChipAgrees`, `SelectionIsCurrent`, `AttachWaits` | 526,601 |
| `commands` | 1 port, every command, repeated and in any order | `SelectionIsCurrent`, `TrafficNeedsLivePartner` | 1,113,582 |
| `membership` | 2 groups, 3 port numbers of which one is beyond `LACP_PORT_MAX`, ports that hear each other | `GroupsAgree`, `LoopIsBroken`, `FreePortIsPlain` | 815,804 |
| `liveness` | 2 ports, 1 partner, under fairness | `CallReturns`, `KeepsReporting`, `StableLinkCarriesTraffic`, `SilentPartnerIsDropped` | 73,253 |
| `select_master` | every order and every speed, priority, link and default flag of 3 ports | `LoopFindsMaster` | 65,536 |
| `mngr` | 3 processes of 2 ports, two of them with one pid, a manager that is restarted, sockets of 1 datagram | `TypeOK`, `TableIsMatching`, `FramesComeFromPeer`, `Implements` | 298,246 |
| `mngr_live` | 2 processes of 1 port, one cable between them and one of a port to itself, under fairness | `HandlerReturns`, `GoodbyeIsHeard` | 18,337 |
| `bridges` | 2 bridges of 1 port, 1 cable, commands at rest, losses with a datagram under way, under fairness | `JoinedCarry`, `RecordsAgree`, `LonePortStops` | 317,687 |
| `bridges_busy` | the same, commands with a datagram under way | `OneWayIsBrief` | 1,211,096 |

What they show of one bridge: between calls a port carries traffic only with its link up, its partner
heard and in sync and the selection agreeing; all ports of a group that carry traffic
lead to one partner system with one key; a group wired to itself does not forward in a
circle; the selection is what selecting again would give; the switch, the machine and
the advertised bits agree; a port that leaves its group is restored; no port attaches while another one in use of
its group waits; a call returns; a silent partner is dropped even while the other port keeps the bridge busy.

Of the manager: whatever dies and comes back under the same pid, both ends of a link are entries of the list and point at
each other; the next LACPDU a bridge reads is from the neighbour it was last told of; its sockets and registry are
cables; a handler that has to wait for room goes on, unless the manager and one bridge wait for each other, which
the code permits (`Jammed`) and which is the only way for it to hang; a farewell takes every cable of the bridge out, those
that were plugged after it too.

Of two bridges: a cable carries traffic in both directions or in none once nothing is under way, but for a port whose
transmit allowance is used up; two ports that stay joined carry traffic for good and end up with each other's record, state octet
included; a port whose neighbour was killed, left the protocol, or lost its manager stops.

**Bounds.**  Two ports are the smallest group in which a master and another port,
waiting for each other and a change of partner behind one of them exist; the group update
treats the ports other than the master independently of each other.
`select_master` takes three because the chain of comparisons is where a third
matters, and `stale_ready` because there one port gives up the place of master and, of the two
that follow, one attaches before the other has waited; `MCStale` allows only the steps of that story, since
three ports with all of them are beyond TLC.  Timers take the values 1 and 2 seconds: the code compares them with zero only,
so longer ones add waiting and no new order of events.  What does matter is that the long timeout exceeds the short one
where a partner has to last: with 1 for both, CURRENT and EXPIRED expire at the first second, no partner
stays in sync across one, and `StableLinkCarriesTraffic` would say nothing.  `membership`, whose invariants are about
who is in which group and which ports carry traffic at all, has 1 for both.  `commands` switches between the two
timeouts and sets both periods to 2.  `MaxTx` is 1 in the runs of one bridge, so that the allowance is really used up.

The two bridges have the code's `MaxTx` of 3, and a long timeout three times the period at which LACPDUs come, as in the
code (90 and 30 seconds): with less slack a timer would run out between two LACPDUs that are both in time, which the real
values exclude.  `Busy` and `Flight` bound what is under way when a command is given, and when a cable, a process or the manager is lost:
0 and 1 in `bridges`, 1 and 0 in `bridges_busy`.  The LACPDUs that follow are not bounded.

`Cap` is 1, the tightest socket: a sender waits as soon as another datagram is there.  The kernel's limit is larger, and
a larger one only lets the same waits begin later.  `Burst` is 1; the order of two LACPDUs of one call is that of two calls.
Three processes are the least with a neighbour and two lives under one pid; 2 ports the least with a bridge that has two
cables.  The links the operator makes are those of bridge 2 with either port of bridge 1 (`MCLinks`), or of a port with
the neighbour and with itself (`MCSelf`).
`Port`, `Agg` and the values of the commands are given in the `.cfg` files; no counter of the
models needs a bound of its own, since each is bounded by the values it starts from.

`CHECK_DEADLOCK FALSE` stands where the program may stop: in `membership` a command that fails ends the bridge, in
the runs of `Mngr` all processes have had their lives, or the two sides of a jam wait for each other, in `select_master` the loop ends.  The other runs, those of the two
bridges included, check that every state has a next one.

**Fairness.**  `LacpLiveness!FairSpec` is `WF(Update \/ Continue)` and `SF(OneSecond)`.  The first: a call
that has begun goes on, there is one thread (and with a manager that reads, its sends return).  The
second: `main_loop` calls `lacp_one_second` when `select` times out at the end of the second; it is
disabled while a call runs, so weak fairness would not suffice, and it is delayed by
input, which arrives at a finite rate.  A flood that makes every `select` return input
could starve the timers for ever: that is the hazard listed at `bridge.c:246`, and the assumption says it
does not happen.  Nothing is assumed of partners, links or commands.

`MngrSafety!FairSpec` is weak for `Deliver` and `ManagerReturns`, and strong for `ReadUid`, `Read`, `Transmit` and `SayBye`.  Both main
loops look at keyboard and socket in every round, so commands cannot keep them from the socket, but they disable the
reading again and again.  A sender that waits for room competes with the other bridges: with weak
fairness a third bridge could take every place that becomes free.  The kernel queues waiting senders, which justifies the strong form.
Nothing is assumed of operators, starts and crashes.

`BridgesSafety!FairSpec` is weak for the steps of a call, for routing and for reading, and strong for the two seconds, because
`Calm` disables them whenever the other bridge is in a call.

**Statements the code does not keep.**  Three runs, one property each:

| run | what happens |
|---|---|
| `zero_period` | a period of 0, accepted by every layer, makes the transmit machine alternate between IDLE and PERIODIC_TX for ever inside one call |
| `ring` | the entries of ports 1 and 0 are changed while the indexes 2 and 1 are recorded and told: in the run (two bridges, one command) port 0 of each bridge names port 2 of the other, which has no partner.  The entries of port 1 name port 1 of the next bridge, not port 0; with two bridges these two happen to name each other, with three or more they do not |
| `stale_ready` | `ready_n`, "whether the port is ready to join the group" (`lacp_type.h:113`), is cleared on entering WAITING only: a port that was ready once and is DETACHED now still counts as ready when it is selected again, and another port of its group attaches on its word.  What does hold is `AttachWaits`: a port that is waiting, or has never waited, is not counted |

**What the model shows of the code** beyond these; no line of a doc, a comment or a test says otherwise, so they are not runs:

- A link that goes down and up in the middle of a second passes NO_PERIODIC, which renews the transmit allowance (`lacp_tx.c:85`): more
  than `Max_tx_per_interval` LACPDUs leave in that second.
- A port that has used its allowance is removed without the LACPDU that tells the partner (`lacp_api.c:101`); the partner
  stops when its timer runs out, which is what `LonePortStops` relies on.
- A port enabled in a second group without being disabled (`trunk_api.c:146`, a "TODO") stays the `master_port` of the first
  one's other ports until they select again, and is a member of both in the stub: `GroupsAgree` and, with two ports, `SelectionIsCurrent` fail when
  `MayReEnable` is TRUE.
- After `set speed` the selection still compares the speeds of the last link change (`trunk_ssp.c:140`): the operational key is
  the new speed's, the choice of the master the old one's.  `SelectionIsCurrent` selects again with the same kept
  speed, as the code does, so it holds and says nothing against this.
- A port that hears its own LACPDUs is not noticed by
  `partners_aport`, whose comparison of port numbers is strict, so `LoopIsBroken` speaks of two
  different ports.  `InUseIsAggregatable` asks for the partner's AGG bit only, since the port's own bit
  is cleared by a half-duplex link one step before the group selects again.
- A bridge that is killed stays listed; a later one with its pid is listed before it.  Routing and farewells
  take the first entry (the new one), `link` and `unlink` the last (the dead one): the operator's cable goes to an entry whose process
  is gone, and the farewell of the new bridge leaves the old entry where it is.  Nothing is delivered wrongly
  (`FramesComeFromPeer`), but such a cable carries nothing.

## 4. What is proved

TLAPS checks seventeen results for every value of the constants.  For one bridge: any ports, groups,
partners, timers and command values that satisfy the assumptions of `LacpTypes` and `Lacp`
(`PortAssumption`, `AggAssumption`, `LimitAssumption`, `MacAssumption`, `TimerAssumption`, `RemoteAssumption`,
`CommandAssumption`; port indexes are below 144, groups are 1 to 32, timers fit 16 bits).  For the manager: any bridges,
any numbering of them, any number of ports and any size of the sockets (`MngrAssumption`).  For two bridges over the cables: any ports, groups,
timers and transmit allowance within the same ranges (`RangeAssumption`), two different addresses, and any bounds `Busy` and `Flight` on what is under
way when something intervenes.  Five theorems have a hypothesis of their own, named with them and explained in the last part of this section.

- **`MasterIsBest`** (`LacpDataProofs`).  The comparison of `select_master_port` is a strict order
  (`BetterIsStrict`), so a non-empty set of candidates has a member no other is better than, and the
  `CHOOSE` in `Master` is well defined.  By the least-number principle: were there a number k such that the
  candidates below k are not empty and have no best one, take the least such k and
  compare the best one below k - 1 with k - 1.
- **`TypeCorrect`** (`LacpSafetyProofs`), `Spec => []TypeOK`.  `TypeOK` alone is not inductive: the second part of an
  enable takes its port and group from the locals of the call, and a return from the update goes
  where `ret` says.  The invariant is `TypeInv == TypeOK /\ CallOK`, where `CallOK` says that
  the locals name a port and a group as long as that part is to come and that no call is waiting once one has returned.
  One lemma per action; the group update needs `MasterIsBest` to know that `master_port` is a port.
- **`UseNeedsAggregation`** (`LacpSafetyProofs`), `Spec => []InUseIsAggregatable`.  Only the update of a group puts a port to
  use and `Joins` asks for the partner's AGG bit (`UpdateAggUsable`).  The receive machine is the only one that
  changes the partner: either AGG survives, or the port is unselected by the very same
  entry, because `_same_partner` compares AGG (`RxUsable`).  Every other step `Keeps` partner and standby
  and selects nothing (`KeepsStep`).

- **`TrafficIsLive`** (`LacpSafetyProofs`), `Spec => []TrafficNeedsLivePartner`.  The property is about idle
  states, so the invariant says what holds at every step and makes it true once the update returns.
  `PortsOK`: no partner of a port in PORT_DISABLED or EXPIRED is in sync and none in DEFAULTED can
  aggregate (`RxSays`), the chip passes traffic only in the mux states BEGIN, DISABLE and RX_TX (`ChipSays`), and
  no port is in the list twice.  `MembersOK`: a listed port without LACP is the one being enabled or belongs to the batch
  being disabled.  `SettledOK`: at the places where an update has just returned, no check of
  the receive machine fires and none of the mux machine does.  `SettledIsLive` is the argument: a settled port of the protocol whose
  chip passes traffic can only be in RX_TX, so it is in use towards a partner in sync; by
  `UseNeedsAggregation` that partner can aggregate, which leaves the receive machine only CURRENT.
- **`OnePartner`** and **`LoopIsFound`** (`LacpSafetyProofs`), `Spec => []OnePartnerPerGroup`, and `Spec => []LoopIsBroken` if `SysPrios = {}`.  Both
  follow from one invariant on groups (`GroupsOK`): in a group whose ports are *all* selected, any two in use agree, that is, have one
  partner system and key, one key of their own, and the better of the two is not the partner of the other.  Without "all" it is not inductive:
  after a change behind one port the others are unselected and in use for some steps.  The group update establishes it, because it compares every
  port with the master and, through `partners_aport`, with every other port (`UpdateAggAgree`); every other step either
  `Stays`, leaving what was compared as it is, or unselects the port or its group.  `SelectedOK` says
  that every port is selected where an update has returned, and `OwnOK` that the operational port number is the port's own,
  without which two ports could each look better than the other.
- **`FreeIsPlain`** (`LacpChipProofs`), `Spec => []FreePortIsPlain`, and, if `~MayReEnable`, **`GroupsAlwaysAgree`** and
  **`ChipAlwaysAgrees`**, `Spec => []GroupsAgree` and `Spec => []ChipAgrees`.  `ChipInv` adds to the earlier invariants what holds of
  a port at every step (`RecordSays`): trunk id, traffic and the bits COL and DIS follow the mux state; SYN does too, except
  that defaulting takes it back from an attached port before its mux machine runs; a port that starts or has moved is not attached;
  and a LACPDU that waits (`msg.rcvd`) will be read by the entry into CURRENT.  The last two rule out that a
  passage through INITIALIZE clears the bits of a port that stays attached.  `TableOK` says that the stub's table names the listed
  ports but those of the batch being disabled (`trunk_api.c` forgets them first), and `LeftOK` that every port of the batch
  is still to come, is being visited, or has left the protocol.  A port leaves the list only at
  "remove", where it is settled without a group, hence DETACHED, hence out of its trunk: the chip's record is
  then switched to that of a free port by the mux state DISABLE (`FreeOK`).
- **`AttachingWaits`** (`LacpChipProofs`), `Spec => AttachWaits`.  The invariant is `ReadyOK`: a port in BEGIN or WAITING has no `ready_n`.
  `NotMux` says of each step other than an entry of the mux machine that it leaves `mux` and `ready_n` of every
  port, or makes the port's record a new one: `RunRxFrame`, `RunSelFrame` and `RunTxFrame` for the other machines, `CommandHeld` and `ContinueHeld`
  for the calls, which write only the fields of `CallField`.  So a port that attaches does it by an entry of its own mux machine, whose
  check has just asked every port in use of the group.
- **`SelectionStaysCurrent`** (`LacpCurrentProofs`), `Spec => []SelectionIsCurrent` if `Regular`.  In a group that is selected and that no port
  is being taken out of (`AtRest`), every port has the key of its speed and duplex and the master and place an update would
  give it (`GroupCurrent`).  An update of a group is idempotent (`UpdateInPlace`, `UpdateIsIdle`): the result of the comparison of keys
  does not change the order of the ports.  For all other steps the invariant needs the exact list of the fields the selection
  reads (`SameRead`), and for each writer of one of them that it unselects the port; the subtle one is DEF,
  which the order reads and nothing compares: `EndsOK` ties it to the partner's address being that of the default partner, so
  it changes only together with a field that is compared.
- **`LoopIsMaster`** (`SelectMasterProofs`), `LoopSpec => []LoopFindsMaster`.  The loop keeps, of the candidates already behind it,
  one that none of them is better than (`LoopInv`), which is inductive because the chain of early decisions in the
  code is the strict order of `MasterIsBest` (`ReplacesIsBetter`).  At the end of the list that port is *the* master since two ports
  with different numbers are never tied (`OneBest`); so the definition `Master` of `LacpSelection`, and with
  it `SelectionStaysCurrent`, does not depend on the order of the list.
- **`MngrTypeCorrect`** (`MngrProofs`), `Spec => []TypeOK`.  One lemma per action; it holds by itself.  It includes that no socket
  is filled beyond `Cap` by any of the sends and that what `unregister_bridge` sends names real ports.
- **`TableMatches`** (`MngrProofs`), `Spec => []TableIsMatching`.  With the types it is inductive (`TableInv`).
  The argument is `FarEndDrops`: `unregister_bridge` clears the far end of a port only if no
  lower port of the entry was its partner, and a port it skips for that reason belongs to the entry itself, so every end whose partner is removed is
  cleared or removed as well.
- **`FramesFollowCables`** (`MngrProofs`), `Spec => []FramesComeFromPeer`.  A LACPDU is routed by the first entry with its sender's pid and
  read by a bridge that may have been told of another cable since, so the invariant (`FramesInv`) is about both sockets.  Of the
  manager's, `QueueInv`: whatever stands at a place of the socket, or comes there next, is read when the first entry with the
  pid is its sender's.  What an earlier process with the pid said is read before the handshake of the later one (`AloneInv`: no two run at
  a time), and a farewell takes out an entry only when its sender says nothing more (`QueueSend`, `QueueRead`).  Of a bridge's,
  `FrameInv`: what a port is told by all that is in its socket (`Told`) is the far end of its link, or
  the handler is about to say so (`LinkInv`); so a LACPDU that is sent there is read when its sender is known
  (`OutInv`, `InboxInv`).  The two meet in `FrameRoute`.
- **`MngrIsCables`** (`MngrProofs`), `Spec => Implements`: the manager, the sockets and the registry implement `Cables`, the
  module `Bridges` runs its two bridges over.  One lemma per action says which step of `Cables` it is:
  `Start` a `Join`, `SayBye` and `Crash` a `Leave`, `Transmit` a `Send` (or nothing without a manager), `Read` a `Receive` or nothing, `LinkBridges` a
  `Plug`, `UnlinkPort` an `Unplug`, the three cases of `ReadUid` nothing, a `Retire` (or nothing) and a `Route`, the end of the manager a `Blackout`;
  `Deliver` is none, since a datagram moved from `out` to a socket is as far on its way as before.  The invariant is `FramesInv` and `RoomInv` (a socket holds what is
  meant for its bridge, and nothing before the bridge starts).  It is needed in two places.  `Route` looks at the cable of the port that sent, the code at the
  first entry with the sender's pid: `QueueInv` makes them one (`FirstEntry`).  `Retire` asks that the bridge has gone, and `UnregisterBridge` never takes the entry of
  another process with its pid (`HeadOfQueue`).  In `GoodbyeRetires` each port at the far end is told exactly once (`RisingIsOnto`), which
  is why `Cables` can say it of all ports at once; in `GoneIsBlackout` the part of what was on its way that is not lost is what is in the socket.
  What is on its way is a `FlattenSeq` of what single datagrams say; that it distributes over appending
  (`FlattenThen`) follows by the least-number principle, as in `MasterIsBest`.
- **`BothOrNeither`** (`BridgesProofs`), `Spec => []OneWayIsBrief` of `Bridges`, if no timeout is zero.  Each bridge is an instance of `LacpChipProofs`, and
  of the inside of a bridge only its interface is used, which the last part of that module proves from `LinkInv` (the invariant of a bridge
  whose links the manager alone sets): every step but a transmission and an arrival takes a port's record t to a u that `Follows` it.  What that asks is just
  what the neighbour depends on: what it knows of t's SYN stays right or is going to be corrected (`Right`, `Hush`), and a port starts to wait for its neighbour only with
  word from it or without a link (`Waits`).  `BridgesInv` joins the two instances over the queues.  The last LACPDU of each end, *wherever it is under
  way*, at the manager, at the end of the way to the reader, waiting in `msg` or already on record, is right about its sender (`SentIsRight`, `CarriedIsRight`, `HeardIsRight`); and when a
  port waits for its neighbour, it has asked or is being answered (`WaitIsHeard`).  Older LACPDUs may say anything, so each of these speaks of the last one and of an empty
  rest (`Pair`).  That a cable may come out and go in with its CONNECT and DISCONNECT still under way is the second part: what is on the
  way to a port leads its link from what it is to what the cable is (`Leads`, `WaysOK`), so CONNECT always finds it down, and once all is read
  it is up if the cable is in.  The third is what is left of a bridge that died (`GoneOK`).  With nothing under way all this collapses (`BothOrOwing`): the end
  that carries traffic has its neighbour on record as in sync, so the neighbour is in sync (`HeardIsRight`); carrying nothing, it is attached and waits, although the first end is in
  sync, owes nothing and has heard it, which `WaitIsHeard` excludes.

`MaxWord` is kept folded in the proofs and enters through `MaxWordBound`.

**The hypotheses.**  The first three each exclude a way in which the code loses the property; the last is true of the code:

- `~MayReEnable` (`GroupsAlwaysAgree`, `ChipAlwaysAgrees`, part of `Regular`): no port is enabled while it is in a group.  With it, the stub has
  the port in both groups (`trunk_api.c:146`).
- `SysPrios = {}` (`LoopIsFound`): the command that sets the system priority is not given.  The new value goes into the operational records
  that `partners_aport` compares with those of the partners, but no group selects again (`lacp_api.c:381`).  With the ports 0 and 1 in
  one group and wired to each other TLC finds `LoopIsBroken` violated once the priority may be changed: a group that
  selects while the priority differs from what it heard takes its own ports for strangers, and setting the
  priority back does not make it look again.
- `Regular` (`SelectionStaysCurrent`) is three conditions: `~MayReEnable`; either the priority is not set or no
  LACPDU carries an address of this bridge, and none of these is zero (`Foreign`), for the reason just given; and no LACPDU carries the zero address, which equals the default
  partner's, so that a port that leaves or
  enters the default state changes DEF while `_same_partner` sees no difference (TLC finds `SelectionIsCurrent` violated by the second port that
  hears such a partner: the better master is not elected).  The instances `two_ports` and
  `liveness` satisfy all three.
- `LongTimeout # 0` and `ShortTimeout # 0` (`BothOrNeither`): the code sets them to 90 and 3 seconds (`lacp_sys.c:38`) and no command changes them.  With a
  timeout of zero a port would hear its neighbour and forget it within one update, so `LinkInv` would not hold between the two steps; in the instance
  `bridges_busy` TLC finds no state that violates `OneWayIsBrief` even then.

**Only model-checked:** the temporal properties: fairness and `ENABLED` are beyond the prover.  Every invariant that a
passing run checks is stated by a theorem.  `MayReEnable` is `TRUE` in the run `commands`, so what TLC
shows there of `SelectionIsCurrent`, with one port and one group, is not covered by the theorem.

## 5. Not modelled

- Text: word matching, parameters, help, display and the getters behind it (`trunk_cli.c`, `CLI/`, `lacp_agg_get_port_state`,
  `trunk_agg_get_state`), `trace.c`.  What a command calls is an action; the values it passes are any, as the declared ranges are
  only printed.
- The bytes of a LACPDU; its content is actor and partner of the port when TX is entered.
- `BR_CFG_PBMP_ADD` and `BR_CFG_PBMP_DEL` in `lacp_sys_set_cfg` and `link_each`, which no command reaches; statistics.
- Port indexes beyond a bridge's ports in `link` and `unlink` (the tests let the number of ports itself pass, `mngr.c:243`, one behind the end of what `mngr.c:89` allocates) and an `unlink` of a bridge that is not listed: the code leaves its array or follows
  an uninitialised pointer, and nothing can be said of what follows.
- `uid_sock.c`, an older copy of `IPC/ipc.c` that is not built.

## 6. Plan

Done: one bridge (data, machines, selection, every call), its safety and liveness; the manager with its sockets, crashes and restarts; the
cables it implements; two bridges over them; every state invariant of one bridge, of the loop of the selection, of the manager and of two bridges as a theorem,
and that the manager implements the cables.  Left, in this order:

1. A cable between two ports of one bridge, and a changed system priority, in `Bridges`.
2. The getters behind the display.
