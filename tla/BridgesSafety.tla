--------------------------- MODULE BridgesSafety ---------------------------
(***************************************************************************)
(* What two bridges achieve together: traffic flows over a cable from both   *)
(* ends or from neither, whatever the operators, the manager and the        *)
(* processes do, and each end ends up knowing what the other one is.         *)
(***************************************************************************)
EXTENDS Bridges

\* A bridge in a call goes on, and what is under way is routed and read in the end.
\* Seconds pass again and again, though calls come in between that keep the other
\* bridge's second from starting in this model: strong fairness.
FairSpec ==
    /\ Spec
    /\ WF_vars(WorkL) /\ WF_vars(WorkR) /\ WF_vars(Route)
    /\ \A p \in Port : WF_vars(ReadL(p)) /\ WF_vars(ReadR(p))
    /\ SF_vars(SecondL) /\ SF_vars(SecondR)

\* Port p of L and port p of R are wired to each other and in the protocol.
Joined(p) ==
    /\ alive = {"L", "R"} /\ cable[<<"L", p>>] = <<"R", p>>
    /\ p \in L!Listed /\ p \in R!Listed

AtRest == Calm /\ sent = <<>> /\ \A e \in DOMAIN way : way[e] = <<>>

\* A port that has more to say, but not before the next second.
Owes(t) == t.ntt /\ t.hold_count >= MaxTx

\* Traffic over a cable in one direction only is lost traffic.  When nothing is
\* under way between the two bridges, both ends of a cable carry traffic or neither
\* does, unless one of them has used up its transmit allowance and speaks in the
\* next second: whatever order the LACPDUs, the link changes, the seconds, the
\* operators and a crash came in.
OneWayIsBrief ==
    \A p \in Port : AtRest /\ Joined(p) /\ attrL[p].cd # attrR[p].cd =>
       Owes(portL[p]) \/ Owes(portR[p])

\* Two ports that stay joined carry traffic in both directions in the end, and go on
\* to: neither their own timers nor the order of their first LACPDUs keeps them
\* apart, and neither times the other out.
JoinedCarry ==
    \A p \in Port : <>[]Joined(p) => <>[](attrL[p].cd /\ attrR[p].cd)

\* Two ports that stay joined end up knowing each other: what each has recorded of
\* its partner is what the partner is, its state octet included.
RecordsAgree ==
    \A p \in Port : <>[]Joined(p) =>
       <>[](portL[p].partner = portR[p].actor /\ portR[p].partner = portL[p].actor)

Carries(up, list, a, p) == Calm /\ up /\ p \in list /\ a[p].cd
CarriesL(p) == Carries(TRUE, L!Listed, attrL, p)
CarriesR(p) == Carries("R" \in alive, R!Listed, attrR, p)

\* Nobody tells a bridge that its neighbour was killed, that the port at the other
\* end left the protocol, or that the manager died with all its cables; a port of
\* L stops carrying traffic for good all the same, and so do both when the cable
\* is out, though a LACPDU that was sent before may still arrive.
LonePortStops ==
    \A p \in Port :
       /\ <>[](cable[<<"L", p>>] = N!None) => <>[](~CarriesL(p) /\ ~CarriesR(p))
       /\ <>[](p \notin R!Listed) => <>[](~CarriesL(p))
=============================================================================
