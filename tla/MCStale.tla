------------------------------ MODULE MCStale ------------------------------
(* Lacp for TLC, narrowed to one story of a group of three ports: they are enabled
   one after the other and hear their neighbours, port 0 one system and the ports 1
   and 2 another; then seconds pass, the link of port 2 goes and comes, and port 0 is
   given a low priority and its own again.  Every step is one of Lacp!Next. *)
EXTENDS LacpSafety, MCValues

Low == 60000
Neighbour(p) == InSync(IF p = 0 THEN m1 ELSE m2, p + 1)
Neighbours == {Neighbour(p) : p \in Port}
Priorities == {Low, Default_port_priority}

Hear(p) ==
    /\ port[p].rx # "CURRENT"
    /\ RxLacpdu(p, [rcvd |-> TRUE, actor |-> Neighbour(p), partner |-> port[p].actor])

EnableInTurn(p) ==
    /\ p \notin Listed /\ \A q \in Port : q > p => q \in Listed
    /\ \E g \in Agg : Enable(p, g)

LinkTurns(p) ==
    LET up == ~attr[p].link_status
    IN  (p = 2 \/ up) /\ LinkChange(p, up)

PriorityTurns ==
    /\ port[1].port_enabled
    /\ \E v \in Priorities : v # attr[0].prio /\ SetPortPrio(0, v)

StaleNext ==
    \/ Update \/ Continue
    \/ \E p \in Port : Hear(p) \/ EnableInTurn(p)
    \/ /\ Listed = Port
       /\ OneSecond \/ PriorityTurns \/ \E p \in Port : LinkTurns(p)

StaleSpec == Init /\ [][StaleNext]_vars
=============================================================================
