------------------------------ MODULE Bridges ------------------------------
(***************************************************************************)
(* Two bridge processes, L and R, over the cables of the manager: the loops  *)
(* of bridge.c around two copies of Lacp, joined by Cables.  What one bridge *)
(* transmits is what the other reads, in order, unless the cable is out when *)
(* the manager gets to it.                                                 *)
(*                                                                         *)
(* The processes run side by side.  A call reads its datagram first and then *)
(* only computes and sends, so the calls of the two bridges are taken one    *)
(* after the other: each interleaving of them has such an order with the     *)
(* same reads and the same datagrams.                                       *)
(***************************************************************************)
EXTENDS Integers, Sequences, Functions

CONSTANTS
    Port, LacpPortMax, Agg, ZeroMac,
    LongTimeout, ShortTimeout, SlowPeriodic, FastPeriodic, AggregateWait, MaxTx,
    MacL, MacR,     \* the addresses of the two bridges
    Busy,           \* datagrams under way when an operator gives a command, at most
    Flight          \* and when a cable or a process is lost

ASSUME BridgesAssumption == MacL # MacR /\ Busy \in Nat /\ Flight \in Nat

VARIABLES
    portsL, portL, sysL, attrL, groupL, curL, pcL, retL, argsL,
    portsR, portR, sysR, attrR, groupR, curR, pcR, retR, argsR,
    alive, cable, sent, way, peer,
    mngr,   \* does the manager run that the bridges have registered with
    lead    \* how many seconds L's clock is ahead of R's

varsL == <<portsL, portL, sysL, attrL, groupL, curL, pcL, retL, argsL>>
varsR == <<portsR, portR, sysR, attrR, groupR, curR, pcR, retR, argsR>>
varsN == <<alive, cable, sent, way, peer>>
vars == <<varsL, varsR, varsN, mngr, lead>>

L == INSTANCE Lacp WITH
       Mac <- {MacL, MacR, ZeroMac}, OwnMac <- {MacL}, Remote <- {}, Heard <- {},
       IpcLinks <- {}, CliLinks <- {}, Speeds <- {}, Duplexes <- {}, PortPrios <- {},
       SysPrios <- {}, Timeouts <- {}, LongPeriods <- {}, ShortPeriods <- {},
       MayReEnable <- FALSE,
       ports <- portsL, port <- portL, sys <- sysL, attr <- attrL, group <- groupL,
       cur <- curL, pc <- pcL, ret <- retL, args <- argsL

R == INSTANCE Lacp WITH
       Mac <- {MacL, MacR, ZeroMac}, OwnMac <- {MacR}, Remote <- {}, Heard <- {},
       IpcLinks <- {}, CliLinks <- {}, Speeds <- {}, Duplexes <- {}, PortPrios <- {},
       SysPrios <- {}, Timeouts <- {}, LongPeriods <- {}, ShortPeriods <- {},
       MayReEnable <- FALSE,
       ports <- portsR, port <- portR, sys <- sysR, attr <- attrR, group <- groupR,
       cur <- curR, pc <- pcR, ret <- retR, args <- argsR

\* What Lacp assumes of its parameters.
ASSUME RangeAssumption ==
    /\ Port \subseteq 0 .. 143 /\ Agg \subseteq 1 .. 32
    /\ LacpPortMax \in Nat /\ MaxTx \in Nat
    /\ LongTimeout \in L!Word /\ ShortTimeout \in L!Word
    /\ SlowPeriodic \in L!Word /\ FastPeriodic \in L!Word /\ AggregateWait \in L!Word

N == INSTANCE Cables WITH Bridge <- {"L", "R"}, PortNo <- Port, Pdu <- {}

-----------------------------------------------------------------------------
(* The calls: a step of lacp_sys_update or of the API; entering TX sends the  *)
(* LACPDU of the port (bridge_tx_bpdu).                                      *)

Lacpdu(t) == [actor |-> t.actor, partner |-> t.partner]

TransmitL(p) ==
    /\ L!RunTx(p)
    /\ IF portL'[p].tx = "TX" THEN N!Send(<<"L", p>>, Lacpdu(portL'[p]))
       ELSE UNCHANGED varsN
WorkL ==
    /\ \/ \E p \in Port : TransmitL(p)
       \/ /\ L!UpdateReturns \/ L!Continue
             \/ \E p \in Port : L!RunRx(p) \/ L!RunSel(p) \/ L!RunMux(p)
          /\ UNCHANGED varsN
    /\ UNCHANGED <<varsR, mngr, lead>>

TransmitR(p) ==
    /\ R!RunTx(p)
    /\ IF portR'[p].tx = "TX" THEN N!Send(<<"R", p>>, Lacpdu(portR'[p]))
       ELSE UNCHANGED varsN
WorkR ==
    /\ \/ \E p \in Port : TransmitR(p)
       \/ /\ R!UpdateReturns \/ R!Continue
             \/ \E p \in Port : R!RunRx(p) \/ R!RunSel(p) \/ R!RunMux(p)
          /\ UNCHANGED varsN
    /\ UNCHANGED <<varsL, mngr, lead>>

-----------------------------------------------------------------------------
(* main_loop: what starts a call *)

\* No call is in progress.
Calm == pcL = "idle" /\ pcR = "idle"

\* read_ipc; a LACPDU for a port that is not in the protocol is dropped.
ReadL(p) ==
    /\ Calm /\ N!Receive(<<"L", p>>)
    /\ LET d == Head(way[<<"L", p>>])
       IN  CASE d.cmd = "CONNECT"    -> L!LinkChange(p, TRUE)
             [] d.cmd = "DISCONNECT" -> L!LinkChange(p, FALSE)
             [] d.cmd = "BPDU" ->
                  IF L!Hears(p)
                  THEN L!RxLacpdu(p, [rcvd |-> TRUE, actor |-> d.pdu.actor,
                                      partner |-> d.pdu.partner])
                  ELSE UNCHANGED varsL
    /\ UNCHANGED <<varsR, mngr, lead>>

ReadR(p) ==
    /\ Calm /\ N!Receive(<<"R", p>>)
    /\ LET d == Head(way[<<"R", p>>])
       IN  CASE d.cmd = "CONNECT"    -> R!LinkChange(p, TRUE)
             [] d.cmd = "DISCONNECT" -> R!LinkChange(p, FALSE)
             [] d.cmd = "BPDU" ->
                  IF R!Hears(p)
                  THEN R!RxLacpdu(p, [rcvd |-> TRUE, actor |-> d.pdu.actor,
                                      partner |-> d.pdu.partner])
                  ELSE UNCHANGED varsR
    /\ UNCHANGED <<varsL, mngr, lead>>

\* select times out: a second has passed and there is nothing to read.  The
\* clocks agree within a second, and the manager takes less than one.
SecondL ==
    /\ Calm /\ sent = <<>> /\ \A p \in Port : way[<<"L", p>>] = <<>>
    /\ "R" \in alive => lead < 1
    /\ lead' = IF "R" \in alive THEN lead + 1 ELSE lead
    /\ L!OneSecond
    /\ UNCHANGED <<varsR, varsN, mngr>>

SecondR ==
    /\ Calm /\ "R" \in alive
    /\ sent = <<>> /\ \A p \in Port : way[<<"R", p>>] = <<>>
    /\ lead > -1
    /\ lead' = lead - 1
    /\ R!OneSecond
    /\ UNCHANGED <<varsL, varsN, mngr>>

Route == Calm /\ N!Route /\ UNCHANGED <<varsL, varsR, mngr, lead>>

-----------------------------------------------------------------------------
(* The operators *)

UnderWay == Len(sent) + SumFunction([e \in DOMAIN way |-> Len(way[e])])
MayCommand == Calm /\ UnderWay <= Busy
MayBreak == Calm /\ UnderWay <= Flight

CommandL ==
    /\ MayCommand
    /\ \E p \in Port : L!Disable(p) \/ \E g \in Agg : L!Enable(p, g)
    /\ UNCHANGED <<varsR, varsN, mngr, lead>>
CommandR ==
    /\ MayCommand /\ "R" \in alive
    /\ \E p \in Port : R!Disable(p) \/ \E g \in Agg : R!Enable(p, g)
    /\ UNCHANGED <<varsL, varsN, mngr, lead>>

\* link and unlink: port p of L and port p of R.  A new manager does not know them.
Plug(p) ==
    /\ MayCommand /\ mngr
    /\ N!Plug(<<"L", p>>, <<"R", p>>)
    /\ UNCHANGED <<varsL, varsR, mngr, lead>>
Unplug(p) ==
    /\ MayBreak /\ N!Unplug(<<"L", p>>)
    /\ UNCHANGED <<varsL, varsR, mngr, lead>>

\* The process of R is killed or ends; what it knew is gone.
End ==
    /\ MayBreak /\ N!Leave("R")
    /\ portsR' = <<>> /\ portR' = [p \in Port |-> R!ZeroPort(p)]
    /\ sysR' = R!BootSys /\ attrR' = [p \in Port |-> R!BootAttr]
    /\ groupR' = [g \in Agg |-> {}]
    /\ lead' = 0
    /\ UNCHANGED <<varsL, curR, pcR, retR, argsR, mngr>>

\* If it could say so the manager takes its cables out.
Retire == Calm /\ mngr /\ N!Retire("R") /\ UNCHANGED <<varsL, varsR, mngr, lead>>

\* A new process in its place registers.  What the old one sent is ahead of that in
\* the manager's socket, and its entry is linked to nothing any more.
Restart ==
    /\ MayCommand /\ mngr /\ "R" \notin alive
    /\ \A p \in Port : cable[<<"R", p>>] = N!None
    /\ N!Join("R")
    /\ UNCHANGED <<varsL, varsR, mngr, lead>>

\* The manager ends.
Blackout ==
    /\ MayBreak /\ mngr
    /\ N!Blackout
    /\ mngr' = FALSE
    /\ UNCHANGED <<varsL, varsR, lead>>

-----------------------------------------------------------------------------
\* Both bridges have registered.
Init ==
    /\ L!Init /\ R!Init
    /\ alive = {"L", "R"}
    /\ cable = [e \in N!End |-> N!None]
    /\ sent = <<>>
    /\ way = [e \in N!End |-> <<>>]
    /\ peer = [e \in N!End |-> N!None]
    /\ mngr = TRUE /\ lead = 0

Next ==
    \/ WorkL \/ WorkR \/ Route \/ SecondL \/ SecondR \/ CommandL \/ CommandR
    \/ End \/ Retire \/ Restart \/ Blackout
    \/ \E p \in Port : ReadL(p) \/ ReadR(p) \/ Plug(p) \/ Unplug(p)

Spec == Init /\ [][Next]_vars
=============================================================================
