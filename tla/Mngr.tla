-------------------------------- MODULE Mngr --------------------------------
(***************************************************************************)
(* The manager process (mngr.c) and the datagram sockets between it and the *)
(* bridges (IPC/ipc.c, and the ends of it in bridge.c).                     *)
(*                                                                         *)
(* Each process has one socket with room for Cap datagrams, read in order.  *)
(* sendto blocks while the receiver has no room and fails, unnoticed, when   *)
(* there is no receiver.  The manager handles one datagram or one command    *)
(* at a time and may block in any of the sends of its handler, so what a     *)
(* handler sends waits in out; the same goes for the calls of a bridge.      *)
(* A Bridge is one life of a bridge process; two lives may have one pid.     *)
(***************************************************************************)
EXTENDS Naturals, Sequences, SequencesExt, FiniteSets

CONSTANTS
    Bridge,     \* bridge processes
    PidOf,      \* the process number of each
    Ports,      \* number_of_ports of every bridge
    Cap,        \* datagrams a socket holds
    Burst,      \* LACPDUs one call of a bridge sends at most
    Links,      \* the link commands the operator gives: <<pid, port, pid, port>>
    Pdu         \* what a LACPDU may say

ASSUME MngrAssumption ==
    /\ Ports \in Nat \ {0} /\ Cap \in Nat \ {0} /\ Burst \in Nat \ {0}
    /\ DOMAIN PidOf = Bridge
    /\ Links \subseteq Range(PidOf) \X (0 .. Ports - 1) \X Range(PidOf) \X (0 .. Ports - 1)

PortNo == 0 .. Ports - 1
End == Bridge \X PortNo
Pid == Range(PidOf)
None == <<>>

VARIABLES
    br_lst,   \* the registry: entries in list order, each named by its process
    link,     \* bridge_partner and port_partner of each port entry, or None
    mngr,     \* the manager's life: "up", "leaving", "gone"
    queue,    \* the manager's socket
    out,      \* what its current handler has still to send
    life,     \* of each bridge: "new", "up", "leaving", "gone"
    inbox,    \* each bridge's socket
    call,     \* what its current call has still to send
    peer      \* history: whose cable each port was last told it has

mngrVars == <<br_lst, link, mngr, out>>
vars == <<br_lst, link, mngr, queue, out, life, inbox, call, peer>>

-----------------------------------------------------------------------------
(* Datagrams.  from and with are what the model knows and the datagram does   *)
(* not say: a CONNECT names the receiver's port only.                        *)

Connect(e, f) == [to |-> e[1], cmd |-> "CONNECT", port |-> e[2], from |-> f]
Disconnect(e) == [to |-> e[1], cmd |-> "DISCONNECT", port |-> e[2], from |-> None]
Bpdu(e, f, m) ==
    [to |-> e[1], cmd |-> "BPDU", port |-> e[2], from |-> f, pdu |-> m]
Shutdown(b) == [to |-> b, cmd |-> "BRIDGE_SHUTDOWN", port |-> 0, from |-> None]

Hello(b) == [cmd |-> "BRIDGE_HANDSHAKE", from |-> b]
Bye(b) == [cmd |-> "BRIDGE_SHUTDOWN", from |-> b]
Report(b, p, m) == [cmd |-> "BPDU", from |-> b, port |-> p, pdu |-> m]

\* A faulty variant: the socket outlives its process.
Alive_Socket(b) == life[b] # "new"

Alive(b) == life[b] \in {"up", "leaving"}

\* A faulty variant: the send does not wait.
QueueHasRoom_Always == TRUE

QueueHasRoom == mngr = "gone" \/ Len(queue) < Cap

\* sendto of a bridge: a datagram for a manager that is gone is lost.
ToManager(d) ==
    /\ QueueHasRoom
    /\ queue' = IF mngr = "gone" THEN queue ELSE Append(queue, d)

-----------------------------------------------------------------------------
(* The bridges *)

\* bridge_start: without a manager the handshake fails and the bridge gives up.
Start(b) ==
    /\ life[b] = "new" /\ mngr # "gone"
    /\ \A c \in Bridge : PidOf[c] = PidOf[b] => ~Alive(c)
    /\ ToManager(Hello(b))
    /\ life' = [life EXCEPT ![b] = "up"]
    /\ UNCHANGED <<mngrVars, inbox, call, peer>>

Waits(b) == life[b] = "up" /\ call[b] = <<>>

\* A call that sends: lacp_one_second, a command.  Any port may transmit, one
\* that has no cable too ("set link").
StartCall(b) ==
    /\ Waits(b)
    /\ \E n \in 1 .. Burst : \E s \in [1 .. n -> PortNo \X Pdu] :
          call' = [call EXCEPT ![b] = s]
    /\ UNCHANGED <<mngrVars, queue, life, inbox, peer>>

\* bridge_tx_bpdu
Transmit(b) ==
    /\ life[b] = "up" /\ call[b] # <<>>
    /\ ToManager(Report(b, Head(call[b])[1], Head(call[b])[2]))
    /\ call' = [call EXCEPT ![b] = Tail(@)]
    /\ UNCHANGED <<mngrVars, life, inbox, peer>>

\* read_ipc: bridge_control or bridge_rx_bpdu
Read(b) ==
    /\ Waits(b) /\ inbox[b] # <<>>
    /\ inbox' = [inbox EXCEPT ![b] = Tail(@)]
    /\ LET d == Head(inbox[b])
       IN  /\ peer' = IF d.cmd \in {"CONNECT", "DISCONNECT"}
                      THEN [peer EXCEPT ![<<b, d.port>>] = d.from] ELSE peer
           /\ life' = IF d.cmd = "BRIDGE_SHUTDOWN"
                      THEN [life EXCEPT ![b] = "leaving"] ELSE life
    /\ UNCHANGED <<mngrVars, queue, call>>

\* read_cli: quit, or any command that reports an error, ends the main loop.
Quit(b) ==
    /\ Waits(b)
    /\ life' = [life EXCEPT ![b] = "leaving"]
    /\ UNCHANGED <<mngrVars, queue, inbox, call, peer>>

Ends(b) ==
    /\ life' = [life EXCEPT ![b] = "gone"]
    /\ inbox' = [inbox EXCEPT ![b] = <<>>]
    /\ call' = [call EXCEPT ![b] = <<>>]
    /\ peer' = [e \in End |-> IF e[1] = b THEN None ELSE peer[e]]

\* bridge_shutdown
SayBye(b) ==
    /\ life[b] = "leaving"
    /\ ToManager(Bye(b))
    /\ Ends(b)
    /\ UNCHANGED mngrVars

\* The process is killed, or traps a signal: nothing is said.
Crash(b) ==
    /\ Alive(b)
    /\ Ends(b)
    /\ UNCHANGED <<mngrVars, queue>>

-----------------------------------------------------------------------------
(* The manager: operations on the registry and the links *)

Idle == mngr = "up" /\ out = <<>>

\* The places of the first and of the last entry with pid n.
Lists(n) == {i \in DOMAIN br_lst : PidOf[br_lst[i]] = n}
IsFirst(i, n) == i \in Lists(n) /\ \A j \in Lists(n) : i <= j
IsLast(i, n) == i \in Lists(n) /\ \A j \in Lists(n) : j <= i

\* register_bridge: the new entry goes to the head, whether or not the pid is
\* listed already.
RegisterBridge(b) ==
    /\ br_lst' = <<b>> \o br_lst
    /\ UNCHANGED <<link, out>>

\* A faulty variant: the loop over the ports starts at 1.
Drops_FromOne(b) ==
    {p \in PortNo : /\ p > 0 /\ link[<<b, p>>] # None
                    /\ \A q \in 0 .. p - 1 : link[<<b, q>>] # <<b, p>>}

\* unregister_bridge looks at the ports of b in turn; a port that an earlier one
\* was linked to has lost its entry by then.
Drops(b) ==
    {p \in PortNo : /\ link[<<b, p>>] # None
                    /\ \A q \in 0 .. p - 1 : link[<<b, q>>] # <<b, p>>}

\* A faulty variant: the partner's entry is left as it is.
Unlinked_OneSided(b) == [e \in End |-> IF e[1] = b THEN None ELSE link[e]]

\* The table without bridge b: disconnect_port(port, 0) clears the far end and
\* the entry of b is freed.
Unlinked(b) ==
    [e \in End |-> IF e[1] = b \/ \E p \in Drops(b) : link[<<b, p>>] = e
                   THEN None ELSE link[e]]

\* The members of a set of ports in rising order: the one sequence of this set.
Rising(S) ==
    {s \in [1 .. Cardinality(S) -> S] : \A i, j \in DOMAIN s : i < j => s[i] < s[j]}

\* unregister_bridge, for the first entry with pid n
UnregisterBridge(n) ==
    IF Lists(n) = {} THEN UNCHANGED <<br_lst, link, out>>
    ELSE \E i \in DOMAIN br_lst :
            /\ IsFirst(i, n)
            /\ br_lst' = RemoveAt(br_lst, i)
            /\ link' = Unlinked(br_lst[i])
            /\ \E p \in Rising(Drops(br_lst[i])) :
                  out' = [k \in DOMAIN p |-> Disconnect(link[<<br_lst[i], p[k]>>])]

\* A faulty variant: the last entry with the pid is taken.
RxBpdu_FromLast(b, p, m) ==
    /\ UNCHANGED <<br_lst, link>>
    /\ IF Lists(PidOf[b]) = {} THEN UNCHANGED out
       ELSE \E i \in DOMAIN br_lst :
               /\ IsLast(i, PidOf[b])
               /\ LET e == <<br_lst[i], p>>
                  IN  out' = IF link[e] = None THEN <<>> ELSE <<Bpdu(link[e], <<b, p>>, m)>>

\* mngr_rx_bpdu: the first entry with the sender's pid says where it goes.
RxBpdu(b, p, m) ==
    /\ UNCHANGED <<br_lst, link>>
    /\ IF Lists(PidOf[b]) = {} THEN UNCHANGED out
       ELSE \E i \in DOMAIN br_lst :
               /\ IsFirst(i, PidOf[b])
               /\ LET e == <<br_lst[i], p>>
                  IN  out' = IF link[e] = None THEN <<>> ELSE <<Bpdu(link[e], <<b, p>>, m)>>

\* read_uid
ReadUid ==
    /\ Idle /\ queue # <<>>
    /\ queue' = Tail(queue)
    /\ LET d == Head(queue)
       IN  CASE d.cmd = "BRIDGE_HANDSHAKE" -> RegisterBridge(d.from)
             [] d.cmd = "BRIDGE_SHUTDOWN"  -> UnregisterBridge(PidOf[d.from])
             [] d.cmd = "BPDU"             -> RxBpdu(d.from, d.port, d.pdu)
    /\ UNCHANGED <<mngr, life, inbox, call, peer>>

\* An operator's command that changes links; it names a bridge by its pid, and the
\* search stops at the last entry with it.
Command ==
    /\ Idle
    /\ UNCHANGED <<br_lst, mngr, queue, life, inbox, call, peer>>

\* link_bridges, _link_two_ports
LinkBridges(n1, p1, n2, p2) ==
    /\ Command
    /\ \E i, j \in DOMAIN br_lst :
          /\ IsLast(i, n1) /\ IsLast(j, n2)
          /\ LET e == <<br_lst[i], p1>>
                 f == <<br_lst[j], p2>>
             IN  /\ link[e] = None /\ link[f] = None
                 /\ link' = [link EXCEPT ![e] = f, ![f] = e]
                 /\ out' = <<Connect(e, f), Connect(f, e)>>

\* A faulty variant: only the far end is told.
FarewellFrom_FarOnly(e) == <<Disconnect(link[e])>>

\* disconnect_port(port, 1) on each side of the cable in e tells the other side, if
\* the entry still has one.
FarewellFrom(e) ==
    LET f == link[e]
    IN  IF f = e \/ link[f] = None THEN <<Disconnect(f)>>
        ELSE <<Disconnect(f), Disconnect(link[f])>>

\* unlink_port
UnlinkPort(n, p) ==
    /\ Command
    /\ \E i \in DOMAIN br_lst :
          /\ IsLast(i, n)
          /\ LET e == <<br_lst[i], p>>
             IN  /\ link[e] # None
                 /\ out' = FarewellFrom(e)
                 /\ link' = [link EXCEPT ![e] = None, ![link[e]] = None]

\* One sendto of the handler: it waits for room, and is lost on a dead receiver.
Deliver ==
    /\ out # <<>>
    /\ LET d == Head(out)
       IN  /\ Alive(d.to) => Len(inbox[d.to]) < Cap
           /\ inbox' = IF Alive(d.to)
                       THEN [inbox EXCEPT ![d.to] = Append(@, d)] ELSE inbox
    /\ out' = Tail(out)
    /\ UNCHANGED <<br_lst, link, mngr, queue, life, call, peer>>

\* The operator quits: mngr_shutdown tells every entry, links stay as they are.
QuitManager ==
    /\ Idle
    /\ mngr' = "leaving"
    /\ out' = [i \in DOMAIN br_lst |-> Shutdown(br_lst[i])]
    /\ UNCHANGED <<br_lst, link, queue, life, inbox, call, peer>>

ManagerGone ==
    /\ mngr' = "gone"
    /\ br_lst' = <<>> /\ link' = [e \in End |-> None]
    /\ out' = <<>> /\ queue' = <<>>
    /\ UNCHANGED <<life, inbox, call, peer>>

ManagerReturns == mngr = "leaving" /\ out = <<>> /\ ManagerGone
ManagerCrash == mngr # "gone" /\ ManagerGone

\* mngr_start: a new process binds the name of the old one and knows nobody.
ManagerStart ==
    /\ mngr = "gone"
    /\ mngr' = "up"
    /\ UNCHANGED <<br_lst, link, queue, out, life, inbox, call, peer>>

-----------------------------------------------------------------------------
Init ==
    /\ br_lst = <<>>
    /\ link = [e \in End |-> None]
    /\ mngr = "up" /\ queue = <<>> /\ out = <<>>
    /\ life = [b \in Bridge |-> "new"]
    /\ inbox = [b \in Bridge |-> <<>>]
    /\ call = [b \in Bridge |-> <<>>]
    /\ peer = [e \in End |-> None]

BridgeStep(b) ==
    Start(b) \/ StartCall(b) \/ Transmit(b) \/ Read(b) \/ Quit(b) \/ SayBye(b) \/ Crash(b)

Operator ==
    \/ \E l \in Links : LinkBridges(l[1], l[2], l[3], l[4])
    \/ \E n \in Pid, p \in PortNo : UnlinkPort(n, p)
    \/ QuitManager

Next ==
    \/ \E b \in Bridge : BridgeStep(b)
    \/ ReadUid \/ Deliver \/ Operator
    \/ ManagerReturns \/ ManagerCrash \/ ManagerStart

Spec == Init /\ [][Next]_vars
=============================================================================
