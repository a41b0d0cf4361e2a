----------------------------- MODULE LacpSafety -----------------------------
(***************************************************************************)
(* What one bridge running LACP promises: invariants, most of them about     *)
(* the moments at which no call is in progress, and the properties that     *)
(* need time to pass.                                                      *)
(***************************************************************************)
EXTENDS Lacp

Idle == pc = "idle"

\* Every variable stays in its range.
TypeOK ==
    /\ ports \in Seq(Port)
    /\ port \in [Port -> PortRecord]
    /\ sys \in Sys
    /\ attr \in [Port -> Attr]
    /\ group \in [Agg -> SUBSET Port]
    /\ cur \in {NoMachine} \cup (Port \X MachineName)
    /\ pc \in {"idle", "update", "gone"} \cup ApiPc
    /\ ret \in {"idle"} \cup ApiPc
    /\ args \in [port : Nat, agg : Nat, batch : SUBSET Port, todo : SUBSET Port]

-----------------------------------------------------------------------------
\* At every step, in the middle of an update too: a port is in use only towards a
\* partner that can aggregate.
InUseIsAggregatable ==
    \A p \in Port : InUse(port[p]) => Bit(port[p].partner, "AGG")

\* Between calls a port of the protocol carries traffic only while its link is
\* up, its receive machine hears a partner, that partner is in sync and the
\* selection has it in use.
TrafficNeedsLivePartner ==
    Idle => \A p \in Listed :
       attr[p].cd => /\ port[p].port_enabled
                     /\ port[p].rx = "CURRENT"
                     /\ Bit(port[p].partner, "SYN")
                     /\ InUse(port[p])

\* Between calls all ports of a group that carry traffic lead to one partner
\* system and one key of it, and have one key themselves: frames of one
\* conversation cannot be spread over two neighbours.
OnePartnerPerGroup ==
    Idle => \A p, q \in Listed :
       /\ port[p].agg_id = port[q].agg_id
       /\ attr[p].cd /\ attr[q].cd
       => /\ SameAggregate(port[p].partner, port[q].partner)
          /\ port[p].actor.key = port[q].actor.key

\* Between calls two ports of a group that are wired to each other, so that each
\* has the other as its partner, do not both carry traffic: the group forms no
\* loop through itself.
Names(i, a) ==
    /\ i.system_priority = a.system_priority /\ i.system_mac = a.system_mac
    /\ i.key = a.key /\ i.port_no = a.port_no
LoopIsBroken ==
    Idle => \A g \in Agg : \A p, q \in Members(g) :
       /\ p # q
       /\ Names(port[p].partner, port[q].actor)
       /\ Names(port[q].partner, port[p].actor)
       => ~(attr[p].cd /\ attr[q].cd)

\* Between calls the result of the selection is what selecting again now would
\* give: no change of what it compares was missed, be it a priority, a link, a partner
\* or the port's speed.  The keys follow the switch's speed (attr); the master is
\* chosen by the speed and duplex that lacp_port_t keeps from the last link
\* change, so a speed set since then shows in the key only (trunk_ssp.c:140).
SelectionIsCurrent ==
    Idle => \A g \in Agg :
       port = UpdateAggPortsSelect(port, Members(g),
                [p \in Port |-> OperKey(PortTid(p), attr[p].speed, attr[p].duplex)])

\* Between calls the chip does what the mux machine says, and the state octet
\* the port advertises says so too.
ChipAgrees ==
    Idle => \A p \in Listed :
       LET attached == port[p].mux \in {"ATTACHED", "RX_TX"} IN
       /\ attr[p].tid = IF attached THEN port[p].agg_id ELSE 0
       /\ attr[p].cd <=> port[p].mux = "RX_TX"
       /\ Bit(port[p].actor, "SYN") <=> attached
       /\ Bit(port[p].actor, "COL") <=> attr[p].cd
       /\ Bit(port[p].actor, "DIS") <=> attr[p].cd

\* Between calls the port list and the group table of the stub name the same
\* ports, each once and in the same group.
GroupsAgree ==
    Idle => /\ IsInjective(ports)
            /\ \A p \in Port, g \in Agg :
                  (p \in Listed /\ port[p].agg_id = g) <=> (p \in group[g] /\ p < LacpPortMax)

\* Between calls a port outside the protocol is an ordinary port of the switch: in
\* no trunk, and carrying traffic.
FreePortIsPlain ==
    Idle => \A p \in Port : p \notin Listed => attr[p].tid = 0 /\ attr[p].cd

\* ready_n is "whether the port is ready to join the group" (lacp_type.h:113): when a
\* port attaches, every port in use of its group has finished its own wait.  The code
\* does not keep this, since a port that detaches keeps its ready_n: run stale_ready.
AttachTogether ==
    [][\A p \in Port :
          port[p].mux = "READY_N" /\ port'[p].mux = "ATTACHED" =>
             \A q \in Members(port[p].agg_id) :
                InUse(port[q]) => port[q].mux \in {"READY_N", "ATTACHED", "RX_TX"}]_vars

\* What it does keep of it: no port attaches while another one in use of its group is
\* in the middle of its wait, or is new to the group and has never waited.
AttachWaits ==
    [][\A p \in Port :
          port[p].mux = "READY_N" /\ port'[p].mux = "ATTACHED" =>
             \A q \in Members(port[p].agg_id) :
                InUse(port[q]) => port[q].mux \notin {"BEGIN", "WAITING"}]_vars
=============================================================================
