------------------------------ MODULE MngrRing ------------------------------
(***************************************************************************)
(* The manager with its ring command (link_ring of mngr.c), which makes      *)
(* links the other commands do not.                                        *)
(***************************************************************************)
EXTENDS MngrSafety

\* The instances give the other commands no links to make (Links = {}): a table that
\* a ring has left in disorder is outside what Mngr says of the other operations.

\* One port of the "unlink all" loop, which skips a port that has no partner; s
\* holds the table and what has been sent.
UnlinkOne(s, e) ==
    LET f == s.link[e]
        g == s.link[f]
    IN  IF f = None THEN s
        ELSE [link |-> [s.link EXCEPT ![e] = None, ![f] = None],
              out |-> s.out \o (IF f = e \/ g = None THEN <<Disconnect(f)>>
                                ELSE <<Disconnect(f), Disconnect(g)>>)]

\* _link_two_ports for b1 and the bridge behind it: the entries changed are those
\* of ports 1 and 0, the indexes recorded and told are 2 and 1.
WireOne(s, i) ==
    LET b1 == br_lst[i]
        b2 == br_lst[(i % Len(br_lst)) + 1]
    IN  [link |-> [s.link EXCEPT ![<<b1, 1>>] = <<b2, 1>>, ![<<b2, 0>>] = <<b1, 2>>],
         out |-> s.out \o <<Connect(<<b1, 2>>, <<b2, 1>>), Connect(<<b2, 1>>, <<b1, 2>>)>>]

\* The ports of all entries in list order.
Places == [k \in 1 .. Len(br_lst) * Ports |->
             <<br_lst[((k - 1) \div Ports) + 1], (k - 1) % Ports>>]

LinkRing ==
    /\ Command
    /\ Ports > 2  \* as bridges have: bridge.c:49 says 4
    /\ LET bare == FoldLeft(UnlinkOne, [link |-> link, out |-> <<>>], Places)
           ring == FoldLeft(WireOne, bare, [i \in DOMAIN br_lst |-> i])
       IN  link' = ring.link /\ out' = ring.out

RingSpec == Init /\ [][Next \/ LinkRing]_vars

\* mngr.c:408 says of the command "link all bridges into a ring": of two bridges or
\* more, each port that has a partner is its partner's partner.
RingIsWired ==
    Len(br_lst) > 1 => \A e \in End : link[e] # None => link[link[e]] = e
=============================================================================
