----------------------------- MODULE MngrSafety -----------------------------
(***************************************************************************)
(* What the manager promises: the table of links is sound at every moment,   *)
(* a bridge can tell from what it reads whose LACPDUs it gets, the sockets   *)
(* and the registry behave like the cables of Cables, and a handler that     *)
(* has to wait does so for one reason only.                                *)
(***************************************************************************)
EXTENDS Mngr

\* The datagrams the manager reads and those it sends.
ToMngr ==
    [cmd : {"BRIDGE_HANDSHAKE", "BRIDGE_SHUTDOWN"}, from : Bridge]
    \cup [cmd : {"BPDU"}, from : Bridge, port : PortNo, pdu : Pdu]
ToBridge ==
    [to : Bridge, cmd : {"CONNECT", "DISCONNECT", "BRIDGE_SHUTDOWN"},
     port : PortNo, from : End \cup {None}]
    \cup [to : Bridge, cmd : {"BPDU"}, port : PortNo, from : End, pdu : Pdu]

\* Every variable stays in its range, and no socket holds more than it can.
TypeOK ==
    /\ br_lst \in Seq(Bridge)
    /\ link \in [End -> End \cup {None}]
    /\ mngr \in {"up", "leaving", "gone"}
    /\ queue \in Seq(ToMngr) /\ Len(queue) <= Cap
    /\ out \in Seq(ToBridge)
    /\ life \in [Bridge -> {"new", "up", "leaving", "gone"}]
    /\ inbox \in [Bridge -> Seq(ToBridge)]
    /\ \A b \in Bridge : Len(inbox[b]) <= Cap
    /\ call \in [Bridge -> Seq(PortNo \X Pdu)]
    /\ peer \in [End -> End \cup {None}]

\* bridge_partner is a pointer to an entry that unregister_bridge frees.  At every
\* step, whatever bridges crash, come back under the same pid or say goodbye, both
\* ends of a link are entries of the list and each points at the other.
TableIsMatching ==
    \A e \in End : link[e] # None =>
        /\ e[1] \in Range(br_lst) /\ link[e][1] \in Range(br_lst)
        /\ link[link[e]] = e

\* A LACPDU does not say who sent it to which port's neighbour.  The next one a
\* bridge reads always comes from the port whose cable it was last told of, so the
\* sockets never carry a LACPDU past the CONNECT or DISCONNECT it belongs before
\* or behind (mngr_rx_bpdu, _link_two_ports and disconnect_port share one order).
FramesComeFromPeer ==
    \A b \in Bridge : inbox[b] # <<>> /\ Head(inbox[b]).cmd = "BPDU" =>
        Head(inbox[b]).from = peer[<<b, Head(inbox[b]).port>>]

-----------------------------------------------------------------------------
(* The refinement: what is on its way to a port is what its bridge's socket   *)
(* holds for it and then what the handler has still to send.                 *)

Item(d) == IF d.cmd = "BPDU" THEN [cmd |-> d.cmd, from |-> d.from, pdu |-> d.pdu]
           ELSE [cmd |-> d.cmd, from |-> d.from]

\* What datagram d tells port e, if anything, and what a sequence of them does.
Tells(d, e) == d.to = e[1] /\ d.port = e[2] /\ d.cmd # "BRIDGE_SHUTDOWN"
ItemFor(d, e) == IF Tells(d, e) THEN <<Item(d)>> ELSE <<>>
ItemsFor(s, e) == FlattenSeq([i \in DOMAIN s |-> ItemFor(s[i], e)])
Way(e) == IF Alive(e[1]) THEN ItemsFor(inbox[e[1]], e) \o ItemsFor(out, e) ELSE <<>>

ReportOf(d) == IF d.cmd = "BPDU" THEN <<[from |-> <<d.from, d.port>>, pdu |-> d.pdu]>>
               ELSE <<>>
Reports == FlattenSeq([i \in DOMAIN queue |-> ReportOf(queue[i])])

C == INSTANCE Cables WITH
       alive <- {b \in Bridge : Alive(b)}, cable <- link, sent <- Reports,
       way <- [e \in End |-> Way(e)]

\* The manager and its sockets are an implementation of the cables: each step of
\* a process is a step of Cables or none.
Implements == C!Spec

-----------------------------------------------------------------------------
(* Processes take turns.  Either main_loop looks at both of its inputs in     *)
(* every round, so commands and calls cannot keep it from its socket for      *)
(* ever.  Calls are started by seconds and keystrokes, so the manager's       *)
(* socket has room again and again, and a sender that waits for room is not   *)
(* overtaken for ever.                                                     *)

FairSpec ==
    /\ Spec
    /\ WF_vars(Deliver) /\ WF_vars(ManagerReturns) /\ SF_vars(ReadUid)
    /\ \A b \in Bridge : SF_vars(Read(b)) /\ SF_vars(Transmit(b)) /\ SF_vars(SayBye(b))

\* The manager waits for room at a bridge that waits for room at the manager.
Jammed ==
    /\ mngr # "gone" /\ out # <<>> /\ Len(queue) = Cap
    /\ LET d == Head(out).to
       IN  /\ Alive(d) /\ Len(inbox[d]) = Cap
           /\ life[d] = "leaving" \/ call[d] # <<>>

\* The blocking sends of a handler come to an end, unless the manager and one
\* bridge wait for each other: no longer circle of waits exists, and a bridge that
\* dies or leaves does not hold the manager.
HandlerReturns == out # <<>> ~> (out = <<>> \/ Jammed)

\* A bridge that takes its leave while it is listed is heard: in the end no bridge
\* has it as a neighbour, however the operator plugs cables in the meantime.
GoodbyeIsHeard ==
    \A b \in Bridge :
       Bye(b) \in Range(queue) /\ b \in Range(br_lst)
       ~> \/ \A e \in End : Alive(e[1]) => peer[e] = None \/ peer[e][1] # b
          \/ Jammed \/ mngr # "up"
=============================================================================
