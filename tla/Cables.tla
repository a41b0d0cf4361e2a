------------------------------- MODULE Cables -------------------------------
(***************************************************************************)
(* What the manager process promises the bridges, without its sockets,      *)
(* registry and process numbers: an operator plugs cables between ports and *)
(* takes them out, each end is told, and a LACPDU goes to the port at the    *)
(* other end of the cable that is in when the manager gets to it.           *)
(*                                                                         *)
(* Everything a port is told travels on one way, in order.  Mngr implements *)
(* this module; Bridges runs two bridges over it.                           *)
(***************************************************************************)
EXTENDS Naturals, Sequences

CONSTANTS Bridge, PortNo, Pdu

End == Bridge \X PortNo
None == <<>>

VARIABLES
    alive,  \* the bridges whose process runs
    cable,  \* the other end of the cable in each port, or None
    sent,   \* LACPDUs the bridges have sent and the manager has not reached
    way,    \* what is on its way to each port
    peer    \* whose cable each port was last told it has, or None

vars == <<alive, cable, sent, way, peer>>

Plugged(f) == [cmd |-> "CONNECT", from |-> f]
Unplugged == [cmd |-> "DISCONNECT", from |-> None]
Carried(e, m) == [cmd |-> "BPDU", from |-> e, pdu |-> m]

\* w with item x behind what is on its way to port e; nothing is told the dead.
Tell(w, e, x) == IF e[1] \in alive THEN [w EXCEPT ![e] = Append(@, x)] ELSE w

Init ==
    /\ alive = {}
    /\ cable = [e \in End |-> None]
    /\ sent = <<>>
    /\ way = [e \in End |-> <<>>]
    /\ peer = [e \in End |-> None]

Join(b) ==
    /\ alive' = alive \cup {b}
    /\ UNCHANGED <<cable, sent, way, peer>>

\* A process ends: what was on its way to it is lost.
Leave(b) ==
    /\ b \in alive
    /\ alive' = alive \ {b}
    /\ way' = [e \in End |-> IF e[1] = b THEN <<>> ELSE way[e]]
    /\ peer' = [e \in End |-> IF e[1] = b THEN None ELSE peer[e]]
    /\ UNCHANGED <<cable, sent>>

Plug(e, f) ==
    /\ cable[e] = None /\ cable[f] = None
    /\ cable' = [cable EXCEPT ![e] = f, ![f] = e]
    /\ way' = Tell(Tell(way, e, Plugged(f)), f, Plugged(e))
    /\ UNCHANGED <<alive, sent, peer>>

\* A port wired to itself is told once.
Unplug(e) ==
    /\ cable[e] # None
    /\ cable' = [cable EXCEPT ![e] = None, ![cable[e]] = None]
    /\ way' = LET w == Tell(way, cable[e], Unplugged)
              IN  IF cable[e] = e THEN w ELSE Tell(w, e, Unplugged)
    /\ UNCHANGED <<alive, sent, peer>>

\* The manager hears that bridge b has gone: its cables come out.
Retire(b) ==
    /\ b \notin alive
    /\ cable' = [e \in End |->
                   IF e[1] = b \/ (cable[e] # None /\ cable[e][1] = b)
                   THEN None ELSE cable[e]]
    /\ way' = [e \in End |->
                 IF e[1] \in alive /\ cable[e] # None /\ cable[e][1] = b
                 THEN Append(way[e], Unplugged) ELSE way[e]]
    /\ UNCHANGED <<alive, sent, peer>>

Send(e, m) ==
    /\ e[1] \in alive
    /\ sent' = Append(sent, [from |-> e, pdu |-> m])
    /\ UNCHANGED <<alive, cable, way, peer>>

\* The manager takes the oldest LACPDU to the other end, if there is one.
Route ==
    /\ sent # <<>>
    /\ sent' = Tail(sent)
    /\ LET e == Head(sent).from
       IN  way' = IF cable[e] = None THEN way
                  ELSE Tell(way, cable[e], Carried(e, Head(sent).pdu))
    /\ UNCHANGED <<alive, cable, peer>>

Receive(e) ==
    /\ way[e] # <<>>
    /\ way' = [way EXCEPT ![e] = Tail(@)]
    /\ peer' = IF Head(way[e]).cmd = "BPDU" THEN peer
               ELSE [peer EXCEPT ![e] = Head(way[e]).from]
    /\ UNCHANGED <<alive, cable, sent>>

\* The manager ends: no cable is left, nobody is told, and of what it was still
\* to say any part may be lost.
Blackout ==
    /\ cable' = [e \in End |-> None]
    /\ sent' = <<>>
    /\ LET told == {e \in End : way[e] # <<>>}
       IN  \E n \in [told -> UNION {0 .. Len(way[e]) : e \in told}] :
              /\ \A e \in told : n[e] <= Len(way[e])
              /\ way' = [e \in End |-> IF e \in told THEN SubSeq(way[e], 1, n[e])
                                      ELSE <<>>]
    /\ UNCHANGED <<alive, peer>>

Next ==
    \/ \E b \in Bridge : Join(b) \/ Leave(b) \/ Retire(b)
    \/ \E e, f \in End : Plug(e, f)
    \/ \E e \in End : Unplug(e) \/ Receive(e) \/ \E m \in Pdu : Send(e, m)
    \/ Route \/ Blackout

Spec == Init /\ [][Next]_vars
=============================================================================
