--------------------------- MODULE BridgesProofs ---------------------------
(***************************************************************************)
(* Two bridges over the cables of the manager: a bridge's reading of what it *)
(* was sent, the cables' coming and going, a bridge's or the manager's end   *)
(* and a bridge's restart keep what the ends of a cable know of each other,   *)
(* and what follows when nothing is under way (BothOrNeither).              *)
(***************************************************************************)
EXTENDS BridgesEndsProofs

LEMMA ReadLFacts ==
  ASSUME BridgesInv, NEW p \in Port, ReadL(p)
  PROVE  /\ way[AtL(p)] # <<>> /\ Head(way[AtL(p)]) \in Item
         /\ way' \in [N!End -> Items] /\ way'[AtL(p)] = Tail(way[AtL(p)])
         /\ \A f \in N!End \ {AtL(p)} : way'[f] = way[f]
         /\ UNCHANGED <<alive, cable, sent, mngr>> /\ UNCHANGED varsR /\ pcL = "idle"
<1>1. /\ way[AtL(p)] # <<>> /\ way' = [way EXCEPT ![AtL(p)] = Tail(@)]
      /\ UNCHANGED <<alive, cable, sent, mngr>> /\ UNCHANGED varsR /\ pcL = "idle"
  BY DEF ReadL, N!Receive, AtL, Calm
<1>2. way \in [N!End -> Items] /\ way[AtL(p)] \in Items BY NetFacts DEF QueuesOK
<1>3. Tail(way[AtL(p)]) \in Items /\ Head(way[AtL(p)]) \in Item BY <1>1, <1>2, WayFacts
<1> DEFINE r == Tail(way[AtL(p)])
<1>4. way' = [way EXCEPT ![AtL(p)] = r] /\ r \in Items BY <1>1, <1>3
<1> HIDE DEF r
<1>5. /\ way' \in [N!End -> Items] /\ way'[AtL(p)] = r
      /\ \A f \in N!End \ {AtL(p)} : way'[f] = way[f]
  BY <1>2, <1>4, PortEnds
<1> QED BY <1>1, <1>3, <1>5 DEF r

\* What the call makes of it.
LEMMA ReadLDoes ==
  ASSUME BridgesInv, NEW p \in Port, ReadL(p), NEW d, d = Head(way[AtL(p)])
  PROVE  /\ d.cmd = "CONNECT" => L!LinkChange(p, TRUE)
         /\ d.cmd = "DISCONNECT" => L!LinkChange(p, FALSE)
         /\ d.cmd = "BPDU" /\ L!Hears(p) =>
               L!RxLacpdu(p, [rcvd |-> TRUE, actor |-> d.pdu.actor,
                             partner |-> d.pdu.partner])
         /\ d.cmd = "BPDU" /\ ~L!Hears(p) => UNCHANGED varsL
BY Zenon DEF ReadL, AtL

LEMMA ReadRFacts ==
  ASSUME BridgesInv, NEW p \in Port, ReadR(p)
  PROVE  /\ way[AtR(p)] # <<>> /\ Head(way[AtR(p)]) \in Item
         /\ way' \in [N!End -> Items] /\ way'[AtR(p)] = Tail(way[AtR(p)])
         /\ \A f \in N!End \ {AtR(p)} : way'[f] = way[f]
         /\ UNCHANGED <<alive, cable, sent, mngr>> /\ UNCHANGED varsL /\ pcR = "idle"
<1>1. /\ way[AtR(p)] # <<>> /\ way' = [way EXCEPT ![AtR(p)] = Tail(@)]
      /\ UNCHANGED <<alive, cable, sent, mngr>> /\ UNCHANGED varsL /\ pcR = "idle"
  BY DEF ReadR, N!Receive, AtR, Calm
<1>2. way \in [N!End -> Items] /\ way[AtR(p)] \in Items BY NetFacts DEF QueuesOK
<1>3. Tail(way[AtR(p)]) \in Items /\ Head(way[AtR(p)]) \in Item BY <1>1, <1>2, WayFacts
<1> DEFINE r == Tail(way[AtR(p)])
<1>4. way' = [way EXCEPT ![AtR(p)] = r] /\ r \in Items BY <1>1, <1>3
<1> HIDE DEF r
<1>5. /\ way' \in [N!End -> Items] /\ way'[AtR(p)] = r
      /\ \A f \in N!End \ {AtR(p)} : way'[f] = way[f]
  BY <1>2, <1>4, PortEnds
<1> QED BY <1>1, <1>3, <1>5 DEF r

\* What the call makes of it.
LEMMA ReadRDoes ==
  ASSUME BridgesInv, NEW p \in Port, ReadR(p), NEW d, d = Head(way[AtR(p)])
  PROVE  /\ d.cmd = "CONNECT" => R!LinkChange(p, TRUE)
         /\ d.cmd = "DISCONNECT" => R!LinkChange(p, FALSE)
         /\ d.cmd = "BPDU" /\ R!Hears(p) =>
               R!RxLacpdu(p, [rcvd |-> TRUE, actor |-> d.pdu.actor,
                             partner |-> d.pdu.partner])
         /\ d.cmd = "BPDU" /\ ~R!Hears(p) => UNCHANGED varsR
BY Zenon DEF ReadR, AtR

\* Bridge L reads what is first on the way to one of its ports.
LEMMA ReadLKeeps ==
  ASSUME BridgesInv, NEW p \in Port, ReadL(p)
  PROVE  BridgesInv'
<1> DEFINE w == way[AtL(p)]
           d == Head(w)
           up == attrL[p].link_status
<1>1. /\ w # <<>> /\ d \in Item
      /\ way' \in [N!End -> Items] /\ way'[AtL(p)] = Tail(w)
      /\ \A f \in N!End \ {AtL(p)} : way'[f] = way[f]
      /\ UNCHANGED <<alive, cable, sent, mngr>> /\ UNCHANGED varsR /\ pcL = "idle"
  BY ReadLFacts
<1>2. /\ d.cmd = "CONNECT" => L!LinkChange(p, TRUE)
      /\ d.cmd = "DISCONNECT" => L!LinkChange(p, FALSE)
      /\ d.cmd = "BPDU" /\ L!Hears(p) =>
            L!RxLacpdu(p, [rcvd |-> TRUE, actor |-> d.pdu.actor, partner |-> d.pdu.partner])
      /\ d.cmd = "BPDU" /\ ~L!Hears(p) => UNCHANGED varsL
  BY ReadLDoes, Zenon
<1>3. /\ w \in Items /\ up \in BOOLEAN /\ In(p) \in BOOLEAN /\ mngr \in BOOLEAN
      /\ PairOK(p) /\ CablesOK /\ WaysOK /\ QueuesOK /\ GoneOK
  BY NetFacts
<1>4. \/ LastItem(Tail(w)) = LastItem(w) /\ Tail(w) # <<>>
      \/ LastItem(Tail(w)) = {} /\ LastItem(w) = {d} /\ Tail(w) = <<>>
  BY <1>1, <1>3, WayFacts
<1>5. LastItem(w) # {} BY <1>1, <1>3, WayFacts
<1>7. Ends(w, up, In(p), mngr) BY <1>3 DEF WaysOK
<1>8. PICK b \in BOOLEAN : Turns(up, d, b) /\ Ends(Tail(w), b, In(p), mngr)
  BY <1>1, <1>3, <1>7, EndsRead
<1> HIDE DEF d, w, up
<1>9. /\ RP!LinkInv' /\ portR' = portR /\ attrR' = attrR
      /\ \A q \in Port : LP!Follows(portR[q], portR'[q])
  BY <1>1, RightWaits DEF BridgesInv, varsR
<1>10. \A q \in Port : /\ way'[AtR(q)] = way[AtR(q)]
                       /\ q # p => way'[AtL(q)] = way[AtL(q)]
                       /\ In(q)' = In(q)
  BY <1>1, PortEnds DEF In
<1>11. QueuesOK' /\ CablesOK' BY <1>1, <1>3 DEF QueuesOK, CablesOK
<1>12. ASSUME \A q \in Port : attrL'[q].link_status =
                                IF q = p THEN b ELSE attrL[q].link_status
       PROVE  NetOK'
  <2>1. WaysOK'
    <3> SUFFICES ASSUME NEW q \in Port
                 PROVE  /\ Ends(way'[AtL(q)], attrL'[q].link_status, In(q), mngr)
                        /\ "R" \in alive => Ends(way'[AtR(q)], attrR'[q].link_status,
                                                 In(q), mngr)
      BY <1>1, <1>10 DEF WaysOK
    <3>1. CASE q = p BY <1>1, <1>3, <1>8, <1>9, <1>10, <1>12, <3>1, Zenon DEF WaysOK
    <3>2. CASE q # p BY <1>3, <1>9, <1>10, <1>12, <3>2 DEF WaysOK
    <3> QED BY <3>1, <3>2
  <2>2. GoneOK'
    <3>1. RP!Init => RP!Init' BY <1>1 DEF RP!Init, varsR
    <3> QED BY <1>1, <1>3, <1>10, <3>1 DEF GoneOK
  <2> QED BY <1>1, <1>3, <1>11, <2>1, <2>2 DEF NetOK
<1>13. ASSUME NEW q \in Port \ {p}, NetOK', LP!LinkInv',
              LP!Follows(portL[q], portL'[q])
       PROVE  PairOK(q)'
  <2>1. PairOK(q) BY NetFacts
  <2>2. Pair(In(q)', Latest(sent', AtL(q)), Latest(sent', AtR(q)),
             LastItem(way'[AtL(q)]), LastItem(way'[AtR(q)]), portL[q], portR[q])
    BY <1>1, <1>10, <2>1 DEF PairOK
  <2> QED BY <1>9, <1>13, <2>2, PairKept
\* The call that the item starts changes no more than the link.
<1>14. ASSUME LP!LinkInv',
              \A q \in Port : /\ LP!Follows(portL[q], portL'[q])
                              /\ attrL'[q].link_status =
                                    IF q = p THEN b ELSE attrL[q].link_status,
              \/ LP!Deaf(portL[p]) \/ ~In(p) \/ LastItem(Tail(w)) = LastItem(w)
       PROVE  BridgesInv'
  <2>1. NetOK' BY <1>12, <1>14
  <2>2. Pair(In(p), Latest(sent, AtL(p)), Latest(sent, AtR(p)), LastItem(Tail(w)),
             LastItem(way[AtR(p)]), portL[p], portR[p])
    <3>1. CASE LP!Deaf(portL[p]) \/ LastItem(Tail(w)) = LastItem(w)
      BY <1>3, <1>4, <3>1, PairTurns, PairDrops DEF PairOK, w
    <3>2. CASE ~In(p)
      <4>1. In(p) = FALSE BY <1>3, <3>2
      <4> QED BY <1>3, <4>1, PairTurns, PairParts, Zenon DEF PairOK
    <3> QED BY <1>14, <3>1, <3>2
  <2>3. Pair(In(p)', Latest(sent', AtL(p)), Latest(sent', AtR(p)),
             LastItem(way'[AtL(p)]), LastItem(way'[AtR(p)]), portL[p], portR[p])
    BY <1>1, <1>10, <2>2, PairTurns
  <2>4. PairOK(p)' BY <1>9, <1>14, <2>1, <2>3, PairKept
  <2>5. \A q \in Port : PairOK(q)' BY <1>13, <1>14, <2>1, <2>4
  <2> QED BY <1>9, <1>14, <2>1, <2>5 DEF BridgesInv
<1>15. LP!LinkInv BY DEF BridgesInv
<1>16. CASE d.cmd = "CONNECT"
  <2>1. ~up /\ b BY <1>8, <1>16 DEF Turns
  <2>2. LP!Deaf(portL[p]) BY <1>1, <1>15, <2>1, LeftIsDeaf DEF up
  <2>3. L!LinkChange(p, TRUE) BY <1>2, <1>16, Zenon
  <2>4. /\ LP!LinkInv'
        /\ \A q \in Port :
              /\ LP!Follows(portL[q], portL'[q])
              /\ attrL'[q].link_status = IF q = p THEN TRUE ELSE attrL[q].link_status
    BY <1>15, <2>3, LeftIsTold, Zenon
  <2>5. b = TRUE BY <2>1
  <2> QED BY <1>14, <2>2, <2>4, <2>5, Zenon
<1>17. CASE d.cmd = "DISCONNECT"
  <2>1. b = FALSE BY <1>8, <1>17 DEF Turns
  <2>2. In(p) => Tail(w) # <<>>
    <3> SUFFICES ASSUME In(p), Tail(w) = <<>> PROVE FALSE OBVIOUS
    <3>1. Ends(<<>>, FALSE, TRUE, mngr)
      <4>1. In(p) = TRUE BY <1>3
      <4> QED BY <1>8, <2>1, <4>1, Zenon
    <3> QED BY <1>3, <3>1, EndsOfNone, Zenon
  <2>3. L!LinkChange(p, FALSE) BY <1>2, <1>17, Zenon
  <2>4. /\ LP!LinkInv'
        /\ \A q \in Port :
              /\ LP!Follows(portL[q], portL'[q])
              /\ attrL'[q].link_status = IF q = p THEN FALSE ELSE attrL[q].link_status
    BY <1>15, <2>3, LeftIsTold, Zenon
  <2> QED BY <1>4, <1>14, <2>1, <2>2, <2>4, Zenon
<1>18. CASE d.cmd = "BPDU" /\ ~L!Hears(p)
  <2>1. b = up BY <1>8, <1>18 DEF Turns
  <2>2. LP!Deaf(portL[p]) BY <1>1, <1>15, <1>18, LeftIsDeaf
  <2>3. UNCHANGED varsL BY <1>2, <1>18
  <2>4. /\ LP!LinkInv'
        /\ \A q \in Port : /\ LP!Follows(portL[q], portL'[q])
                           /\ attrL'[q].link_status = attrL[q].link_status
    BY <1>15, <2>3, LeftWaits
  <2> QED BY <1>14, <2>1, <2>2, <2>4 DEF up
<1>19. CASE d.cmd = "BPDU" /\ L!Hears(p)
  <2>1. b = up BY <1>8, <1>19 DEF Turns
  <2>2. d.pdu \in Words BY <1>1, <1>19, ItemFacts
  <2>3. L!RxLacpdu(p, [rcvd |-> TRUE, actor |-> d.pdu.actor, partner |-> d.pdu.partner])
    BY <1>2, <1>19
  <2>4. /\ LP!LinkInv'
        /\ \A q \in Port : attrL'[q].link_status = attrL[q].link_status
        /\ \A q \in Port \ {p} : LP!Follows(portL[q], portL'[q])
        /\ LP!Only(portL[p], portL'[p], {"msg"})
        /\ portL'[p].msg.rcvd
        /\ portL'[p].msg.actor = d.pdu.actor /\ portL'[p].msg.partner = d.pdu.partner
    BY <1>15, <2>2, <2>3, LeftHears
  <2>5. NetOK' BY <1>12, <2>1, <2>4 DEF up
  <2>6. Pair(In(p), Latest(sent, AtL(p)), Latest(sent, AtR(p)), LastItem(Tail(w)),
             LastItem(way[AtR(p)]), portL'[p], portR[p])
    BY <1>3, <1>4, <1>5, <1>19, <2>4, PairTurns, PairReads, Zenon DEF PairOK, w
  <2>7. PairOK(p)' BY <1>1, <1>9, <1>10, <2>6, PairTurns DEF PairOK
  <2>8. \A q \in Port : PairOK(q)' BY <1>13, <2>4, <2>5, <2>7
  <2> QED BY <1>9, <2>4, <2>5, <2>8 DEF BridgesInv
<1>20. d.cmd \in {"CONNECT", "DISCONNECT", "BPDU"} BY <1>1, ItemFacts
<1> QED BY <1>16, <1>17, <1>18, <1>19, <1>20

\* Bridge R reads what is first on the way to one of its ports.
LEMMA ReadRKeeps ==
  ASSUME BridgesInv, NEW p \in Port, ReadR(p)
  PROVE  BridgesInv'
<1> DEFINE w == way[AtR(p)]
           d == Head(w)
           up == attrR[p].link_status
<1>1. /\ w # <<>> /\ d \in Item
      /\ way' \in [N!End -> Items] /\ way'[AtR(p)] = Tail(w)
      /\ \A f \in N!End \ {AtR(p)} : way'[f] = way[f]
      /\ UNCHANGED <<alive, cable, sent, mngr>> /\ UNCHANGED varsL /\ pcR = "idle"
  BY ReadRFacts
<1>2. /\ d.cmd = "CONNECT" => R!LinkChange(p, TRUE)
      /\ d.cmd = "DISCONNECT" => R!LinkChange(p, FALSE)
      /\ d.cmd = "BPDU" /\ R!Hears(p) =>
            R!RxLacpdu(p, [rcvd |-> TRUE, actor |-> d.pdu.actor, partner |-> d.pdu.partner])
      /\ d.cmd = "BPDU" /\ ~R!Hears(p) => UNCHANGED varsR
  BY ReadRDoes, Zenon
<1>3. /\ w \in Items /\ up \in BOOLEAN /\ In(p) \in BOOLEAN /\ mngr \in BOOLEAN
      /\ PairOK(p) /\ CablesOK /\ WaysOK /\ QueuesOK /\ GoneOK
  BY NetFacts
<1>4. \/ LastItem(Tail(w)) = LastItem(w) /\ Tail(w) # <<>>
      \/ LastItem(Tail(w)) = {} /\ LastItem(w) = {d} /\ Tail(w) = <<>>
  BY <1>1, <1>3, WayFacts
<1>5. LastItem(w) # {} BY <1>1, <1>3, WayFacts
<1>6. "R" \in alive BY <1>1, GoneFacts DEF BridgesInv
<1>7. Ends(w, up, In(p), mngr) BY <1>3, <1>6 DEF WaysOK
<1>8. PICK b \in BOOLEAN : Turns(up, d, b) /\ Ends(Tail(w), b, In(p), mngr)
  BY <1>1, <1>3, <1>7, EndsRead
<1> HIDE DEF d, w, up
<1>9. /\ LP!LinkInv' /\ portL' = portL /\ attrL' = attrL
      /\ \A q \in Port : LP!Follows(portL[q], portL'[q])
  BY <1>1, LeftWaits DEF BridgesInv, varsL
<1>10. \A q \in Port : /\ way'[AtL(q)] = way[AtL(q)]
                       /\ q # p => way'[AtR(q)] = way[AtR(q)]
                       /\ In(q)' = In(q)
  BY <1>1, PortEnds DEF In
<1>11. QueuesOK' /\ CablesOK' BY <1>1, <1>3 DEF QueuesOK, CablesOK
<1>12. ASSUME \A q \in Port : attrR'[q].link_status =
                                IF q = p THEN b ELSE attrR[q].link_status
       PROVE  NetOK'
  <2>1. WaysOK'
    <3> SUFFICES ASSUME NEW q \in Port
                 PROVE  /\ Ends(way'[AtL(q)], attrL'[q].link_status, In(q), mngr)
                        /\ "R" \in alive => Ends(way'[AtR(q)], attrR'[q].link_status,
                                                 In(q), mngr)
      BY <1>1, <1>10 DEF WaysOK
    <3>1. CASE q = p BY <1>1, <1>3, <1>8, <1>9, <1>10, <1>12, <3>1, Zenon DEF WaysOK
    <3>2. CASE q # p BY <1>3, <1>9, <1>10, <1>12, <3>2 DEF WaysOK
    <3> QED BY <3>1, <3>2
  <2>2. GoneOK'
    BY <1>1, <1>6 DEF GoneOK
  <2> QED BY <1>1, <1>3, <1>11, <2>1, <2>2 DEF NetOK
<1>13. ASSUME NEW q \in Port \ {p}, NetOK', RP!LinkInv',
              LP!Follows(portR[q], portR'[q])
       PROVE  PairOK(q)'
  <2>1. PairOK(q) BY NetFacts
  <2>2. Pair(In(q)', Latest(sent', AtL(q)), Latest(sent', AtR(q)),
             LastItem(way'[AtL(q)]), LastItem(way'[AtR(q)]), portL[q], portR[q])
    BY <1>1, <1>10, <2>1 DEF PairOK
  <2> QED BY <1>9, <1>13, <2>2, PairKept
\* The call that the item starts changes no more than the link.
<1>14. ASSUME RP!LinkInv',
              \A q \in Port : /\ LP!Follows(portR[q], portR'[q])
                              /\ attrR'[q].link_status =
                                    IF q = p THEN b ELSE attrR[q].link_status,
              \/ LP!Deaf(portR[p]) \/ ~In(p) \/ LastItem(Tail(w)) = LastItem(w)
       PROVE  BridgesInv'
  <2>1. NetOK' BY <1>12, <1>14
  <2>2. Pair(In(p), Latest(sent, AtR(p)), Latest(sent, AtL(p)), LastItem(Tail(w)),
             LastItem(way[AtL(p)]), portR[p], portL[p])
    <3>1. CASE LP!Deaf(portR[p]) \/ LastItem(Tail(w)) = LastItem(w)
      BY <1>3, <1>4, <3>1, PairTurns, PairDrops DEF PairOK, w
    <3>2. CASE ~In(p)
      <4>1. In(p) = FALSE BY <1>3, <3>2
      <4> QED BY <1>3, <4>1, PairTurns, PairParts, Zenon DEF PairOK
    <3> QED BY <1>14, <3>1, <3>2
  <2>3. Pair(In(p)', Latest(sent', AtL(p)), Latest(sent', AtR(p)),
             LastItem(way'[AtL(p)]), LastItem(way'[AtR(p)]), portL[p], portR[p])
    BY <1>1, <1>10, <2>2, PairTurns
  <2>4. PairOK(p)' BY <1>9, <1>14, <2>1, <2>3, PairKept
  <2>5. \A q \in Port : PairOK(q)' BY <1>13, <1>14, <2>1, <2>4
  <2> QED BY <1>9, <1>14, <2>1, <2>5 DEF BridgesInv
<1>15. RP!LinkInv BY DEF BridgesInv
<1>16. CASE d.cmd = "CONNECT"
  <2>1. ~up /\ b BY <1>8, <1>16 DEF Turns
  <2>2. LP!Deaf(portR[p]) BY <1>1, <1>15, <2>1, RightIsDeaf DEF up
  <2>3. R!LinkChange(p, TRUE) BY <1>2, <1>16, Zenon
  <2>4. /\ RP!LinkInv'
        /\ \A q \in Port :
              /\ LP!Follows(portR[q], portR'[q])
              /\ attrR'[q].link_status = IF q = p THEN TRUE ELSE attrR[q].link_status
    BY <1>15, <2>3, RightIsTold, Zenon
  <2>5. b = TRUE BY <2>1
  <2> QED BY <1>14, <2>2, <2>4, <2>5, Zenon
<1>17. CASE d.cmd = "DISCONNECT"
  <2>1. b = FALSE BY <1>8, <1>17 DEF Turns
  <2>2. In(p) => Tail(w) # <<>>
    <3> SUFFICES ASSUME In(p), Tail(w) = <<>> PROVE FALSE OBVIOUS
    <3>1. Ends(<<>>, FALSE, TRUE, mngr)
      <4>1. In(p) = TRUE BY <1>3
      <4> QED BY <1>8, <2>1, <4>1, Zenon
    <3> QED BY <1>3, <3>1, EndsOfNone, Zenon
  <2>3. R!LinkChange(p, FALSE) BY <1>2, <1>17, Zenon
  <2>4. /\ RP!LinkInv'
        /\ \A q \in Port :
              /\ LP!Follows(portR[q], portR'[q])
              /\ attrR'[q].link_status = IF q = p THEN FALSE ELSE attrR[q].link_status
    BY <1>15, <2>3, RightIsTold, Zenon
  <2> QED BY <1>4, <1>14, <2>1, <2>2, <2>4, Zenon
<1>18. CASE d.cmd = "BPDU" /\ ~R!Hears(p)
  <2>1. b = up BY <1>8, <1>18 DEF Turns
  <2>2. LP!Deaf(portR[p]) BY <1>1, <1>15, <1>18, RightIsDeaf
  <2>3. UNCHANGED varsR BY <1>2, <1>18
  <2>4. /\ RP!LinkInv'
        /\ \A q \in Port : /\ LP!Follows(portR[q], portR'[q])
                           /\ attrR'[q].link_status = attrR[q].link_status
    BY <1>15, <2>3, RightWaits
  <2> QED BY <1>14, <2>1, <2>2, <2>4 DEF up
<1>19. CASE d.cmd = "BPDU" /\ R!Hears(p)
  <2>1. b = up BY <1>8, <1>19 DEF Turns
  <2>2. d.pdu \in Words BY <1>1, <1>19, ItemFacts
  <2>3. R!RxLacpdu(p, [rcvd |-> TRUE, actor |-> d.pdu.actor, partner |-> d.pdu.partner])
    BY <1>2, <1>19
  <2>4. /\ RP!LinkInv'
        /\ \A q \in Port : attrR'[q].link_status = attrR[q].link_status
        /\ \A q \in Port \ {p} : LP!Follows(portR[q], portR'[q])
        /\ LP!Only(portR[p], portR'[p], {"msg"})
        /\ portR'[p].msg.rcvd
        /\ portR'[p].msg.actor = d.pdu.actor /\ portR'[p].msg.partner = d.pdu.partner
    BY <1>15, <2>2, <2>3, RightHears
  <2>5. NetOK' BY <1>12, <2>1, <2>4 DEF up
  <2>6. Pair(In(p), Latest(sent, AtR(p)), Latest(sent, AtL(p)), LastItem(Tail(w)),
             LastItem(way[AtL(p)]), portR'[p], portL[p])
    BY <1>3, <1>4, <1>5, <1>19, <2>4, PairTurns, PairReads, Zenon DEF PairOK, w
  <2>7. PairOK(p)' BY <1>1, <1>9, <1>10, <2>6, PairTurns DEF PairOK
  <2>8. \A q \in Port : PairOK(q)' BY <1>13, <2>4, <2>5, <2>7
  <2> QED BY <1>9, <2>4, <2>5, <2>8 DEF BridgesInv
<1>20. d.cmd \in {"CONNECT", "DISCONNECT", "BPDU"} BY <1>1, ItemFacts
<1> QED BY <1>16, <1>17, <1>18, <1>19, <1>20

-----------------------------------------------------------------------------
(* The operators of the manager, and its end *)

LEMMA PairForgets ==
  ASSUME NEW v1, NEW v2, NEW t1, NEW t2
  PROVE  Pair(FALSE, {}, {}, v1, v2, t1, t2)
BY DEF Pair, Knows, SentIsRight, CarriedIsRight, HeardIsRight, WaitIsHeard

\* The cable of port p goes in.
LEMMA PlugKeeps ==
  ASSUME BridgesInv, NEW p \in Port, Plug(p)
  PROVE  BridgesInv'
<1> DEFINE l == N!Plugged(AtR(p))
           r == N!Plugged(AtL(p))
<1>1. /\ cable[AtL(p)] = N!None /\ cable[AtR(p)] = N!None /\ mngr
      /\ cable' = [cable EXCEPT ![AtL(p)] = AtR(p), ![AtR(p)] = AtL(p)]
      /\ way' = N!Tell(N!Tell(way, AtL(p), l), AtR(p), r)
      /\ UNCHANGED <<alive, sent, mngr, varsL, varsR>>
  BY DEF Plug, N!Plug, AtL, AtR
<1>2. l \in Item /\ l.cmd = "CONNECT" /\ r \in Item /\ r.cmd = "CONNECT"
  BY PortEnds, ItemFacts
<1> HIDE DEF l, r
<1>3. way \in [N!End -> Items] /\ CablesOK /\ WaysOK /\ GoneOK /\ sent \in Letters
  BY NetFacts DEF QueuesOK
<1>4. /\ AtL(p) \in N!End /\ AtR(p) \in N!End /\ AtL(p) # AtR(p)
      /\ AtL(p)[1] \in alive /\ AtR(p)[1] = "R"
  BY <1>3, PortEnds DEF CablesOK
<1>5. /\ N!Tell(way, AtL(p), l) \in [N!End -> Items]
      /\ \A f \in N!End \ {AtL(p)} : N!Tell(way, AtL(p), l)[f] = way[f]
      /\ N!Tell(way, AtL(p), l)[AtL(p)] = Append(way[AtL(p)], l)
  BY <1>2, <1>3, <1>4, TellFacts, Zenon
<1>6. /\ way' \in [N!End -> Items]
      /\ \A f \in N!End \ {AtL(p), AtR(p)} : way'[f] = way[f]
      /\ way'[AtL(p)] = Append(way[AtL(p)], l)
      /\ way'[AtR(p)] = IF "R" \in alive THEN Append(way[AtR(p)], r) ELSE way[AtR(p)]
  <2> DEFINE w == N!Tell(way, AtL(p), l)
  <2>1. /\ w \in [N!End -> Items] /\ w[AtL(p)] = Append(way[AtL(p)], l)
        /\ \A f \in N!End \ {AtL(p)} : w[f] = way[f]
        /\ way' = N!Tell(w, AtR(p), r)
    BY <1>1, <1>5
  <2> HIDE DEF w
  <2>2. /\ way' \in [N!End -> Items]
        /\ \A f \in N!End \ {AtR(p)} : way'[f] = w[f]
        /\ way'[AtR(p)] = IF "R" \in alive THEN Append(w[AtR(p)], r) ELSE w[AtR(p)]
    BY <1>2, <1>4, <2>1, TellFacts
  <2> QED BY <1>4, <2>1, <2>2
<1>7. /\ cable' \in [N!End -> N!End \cup {N!None}]
      /\ cable'[AtL(p)] = AtR(p) /\ cable'[AtR(p)] = AtL(p)
      /\ \A f \in N!End \ {AtL(p), AtR(p)} : cable'[f] = cable[f]
  BY <1>1, <1>3, <1>4 DEF CablesOK
<1>8. CablesOK'
  <2>1. ASSUME NEW q \in Port
        PROVE  \/ cable'[AtL(q)] = N!None /\ cable'[AtR(q)] = N!None
               \/ cable'[AtL(q)] = AtR(q) /\ cable'[AtR(q)] = AtL(q)
    BY <1>3, <1>7, PortEnds DEF CablesOK
  <2> QED BY <1>1, <1>3, <1>7, <2>1, Zenon DEF CablesOK
<1>9. In(p) = FALSE /\ In(p)' = TRUE BY <1>1, <1>7, PortEnds DEF In
<1>10. ASSUME NEW q \in Port \ {p}
       PROVE  way'[AtL(q)] = way[AtL(q)] /\ way'[AtR(q)] = way[AtR(q)] /\ In(q)' = In(q)
  <2>1. AtL(q) \in N!End \ {AtL(p), AtR(p)} /\ AtR(q) \in N!End \ {AtL(p), AtR(p)}
    BY PortEnds
  <2> QED BY <1>6, <1>7, <2>1 DEF In
<1>11. /\ LP!LinkInv' /\ RP!LinkInv'
       /\ portL' = portL /\ portR' = portR /\ attrL' = attrL /\ attrR' = attrR
       /\ RP!Init => RP!Init'
  BY <1>1, Untouched
<1>12. WaysOK'
  <2> SUFFICES ASSUME NEW q \in Port
               PROVE  /\ Ends(way'[AtL(q)], attrL[q].link_status, In(q)', mngr)
                      /\ "R" \in alive => Ends(way'[AtR(q)], attrR[q].link_status,
                                               In(q)', mngr)
    BY <1>1, <1>11, Zenon DEF WaysOK
  <2>1. CASE q # p BY <1>3, <1>10, <2>1 DEF WaysOK
  <2>2. CASE q = p
    <3>1. /\ way[AtL(p)] \in Items /\ way[AtR(p)] \in Items /\ mngr \in BOOLEAN
          /\ attrL[p].link_status \in BOOLEAN /\ attrR[p].link_status \in BOOLEAN
      BY NetFacts
    <3>2. /\ Ends(way[AtL(p)], attrL[p].link_status, FALSE, mngr)
          /\ "R" \in alive => Ends(way[AtR(p)], attrR[p].link_status, FALSE, mngr)
      BY <1>3, <1>9, Zenon DEF WaysOK
    <3>3. Ends(Append(way[AtL(p)], l), attrL[p].link_status, TRUE, mngr)
      BY <1>1, <1>2, <3>1, <3>2, EndsTold, Zenon
    <3>4. "R" \in alive => Ends(Append(way[AtR(p)], r), attrR[p].link_status, TRUE, mngr)
      BY <1>1, <1>2, <3>1, <3>2, EndsTold, Zenon
    <3> QED BY <1>6, <1>9, <2>2, <3>3, <3>4, Zenon
  <2> QED BY <2>1, <2>2
<1>13. GoneOK'
  <2>1. "R" \notin alive => \A q \in Port : way'[AtR(q)] = way[AtR(q)]
    BY <1>6, <1>10
  <2> QED BY <1>1, <1>3, <1>11, <2>1 DEF GoneOK
<1>14. NetOK' BY <1>1, <1>3, <1>6, <1>8, <1>12, <1>13, NetFacts DEF NetOK, QueuesOK
<1>15. ASSUME NEW q \in Port PROVE PairOK(q)'
  <2>1. PairOK(q) BY NetFacts
  <2>2. CASE q # p BY <1>1, <1>10, <1>11, <2>1, <2>2 DEF PairOK
  <2>3. CASE q = p /\ "R" \in alive
    <3>1. LastItem(way'[AtL(p)]) = {l} /\ LastItem(way'[AtR(p)]) = {r}
      BY <1>2, <1>6, <2>3, NetFacts, WayFacts
    <3>2. Pair(TRUE, Latest(sent, AtL(p)), Latest(sent, AtR(p)), {l}, {r},
               portL[p], portR[p])
      BY <1>2, <2>1, <2>3, PairMeets, Zenon DEF PairOK
    <3> QED BY <1>1, <1>9, <1>11, <2>3, <3>1, <3>2, Zenon DEF PairOK
  <2>4. CASE q = p /\ "R" \notin alive
    <3>1. LP!Blank(portR[p]) /\ ~LP!Syn(portR[p]) /\ way[AtR(p)] = <<>>
      BY <2>4, NetFacts, GoneFacts
    <3>2. LastItem(way'[AtR(p)]) = {} BY <1>6, <2>4, <3>1 DEF LastItem
    <3>3. Pair(TRUE, Latest(sent, AtL(p)), Latest(sent, AtR(p)), LastItem(way'[AtL(p)]), {},
               portL[p], portR[p])
      BY <2>1, <2>4, <3>1, PairEnds, Zenon DEF PairOK
    <3> QED BY <1>1, <1>9, <1>11, <2>4, <3>2, <3>3, Zenon DEF PairOK
  <2> QED BY <2>2, <2>3, <2>4
<1> QED BY <1>11, <1>14, <1>15 DEF BridgesInv

\* The cable of port p comes out.
LEMMA UnplugKeeps ==
  ASSUME BridgesInv, NEW p \in Port, Unplug(p)
  PROVE  BridgesInv'
<1> DEFINE x == N!Unplugged
<1>1. /\ cable[AtL(p)] # N!None
      /\ cable' = [cable EXCEPT ![AtL(p)] = N!None, ![cable[AtL(p)]] = N!None]
      /\ way' = IF cable[AtL(p)] = AtL(p) THEN N!Tell(way, cable[AtL(p)], x)
                ELSE N!Tell(N!Tell(way, cable[AtL(p)], x), AtL(p), x)
      /\ UNCHANGED <<alive, sent, mngr, varsL, varsR>>
  BY DEF Unplug, N!Unplug, AtL
<1>2. x \in Item /\ x.cmd = "DISCONNECT" BY ItemFacts
<1> HIDE DEF x
<1>3. way \in [N!End -> Items] /\ CablesOK /\ WaysOK /\ GoneOK /\ sent \in Letters
  BY NetFacts DEF QueuesOK
<1>4. /\ AtL(p) \in N!End /\ AtR(p) \in N!End /\ AtL(p) # AtR(p)
      /\ AtL(p)[1] \in alive /\ AtR(p)[1] = "R"
  BY <1>3, PortEnds DEF CablesOK
<1>5. cable[AtL(p)] = AtR(p) BY <1>1, <1>3 DEF CablesOK
<1>6. /\ N!Tell(way, AtR(p), x) \in [N!End -> Items]
      /\ \A f \in N!End \ {AtR(p)} : N!Tell(way, AtR(p), x)[f] = way[f]
      /\ N!Tell(way, AtR(p), x)[AtR(p)] = IF "R" \in alive THEN Append(way[AtR(p)], x)
                                          ELSE way[AtR(p)]
  BY <1>2, <1>3, <1>4, TellFacts
<1>7. /\ way' \in [N!End -> Items]
      /\ \A f \in N!End \ {AtL(p), AtR(p)} : way'[f] = way[f]
      /\ way'[AtL(p)] = Append(way[AtL(p)], x)
      /\ way'[AtR(p)] = IF "R" \in alive THEN Append(way[AtR(p)], x) ELSE way[AtR(p)]
  <2> DEFINE w == N!Tell(way, AtR(p), x)
  <2>1. w \in [N!End -> Items] /\ way' = N!Tell(w, AtL(p), x) BY <1>1, <1>4, <1>5, <1>6
  <2>2. /\ w[AtR(p)] = IF "R" \in alive THEN Append(way[AtR(p)], x) ELSE way[AtR(p)]
        /\ \A f \in N!End \ {AtR(p)} : w[f] = way[f]
    BY <1>6
  <2> HIDE DEF w
  <2>3. AtL(p) \in N!End /\ x \in Item BY <1>2, <1>4
  <2>4. /\ way' \in [N!End -> Items]
        /\ \A f \in N!End \ {AtL(p)} : way'[f] = w[f]
        /\ way'[AtL(p)] = IF AtL(p)[1] \in alive THEN Append(w[AtL(p)], x) ELSE w[AtL(p)]
    BY <2>1, <2>3, TellFacts
  <2> QED BY <1>4, <2>2, <2>4, Zenon
<1>8. /\ cable' \in [N!End -> N!End \cup {N!None}]
      /\ cable'[AtL(p)] = N!None /\ cable'[AtR(p)] = N!None
      /\ \A f \in N!End \ {AtL(p), AtR(p)} : cable'[f] = cable[f]
  BY <1>1, <1>3, <1>4, <1>5 DEF CablesOK
<1>9. CablesOK'
  <2>1. ASSUME NEW q \in Port
        PROVE  \/ cable'[AtL(q)] = N!None /\ cable'[AtR(q)] = N!None
               \/ cable'[AtL(q)] = AtR(q) /\ cable'[AtR(q)] = AtL(q)
    BY <1>3, <1>8, PortEnds DEF CablesOK
  <2> QED BY <1>1, <1>3, <1>8, <2>1, Zenon DEF CablesOK
<1>10. In(p)' = FALSE BY <1>8 DEF In
<1>11. ASSUME NEW q \in Port \ {p}
       PROVE  way'[AtL(q)] = way[AtL(q)] /\ way'[AtR(q)] = way[AtR(q)] /\ In(q)' = In(q)
  <2>1. AtL(q) \in N!End \ {AtL(p), AtR(p)} /\ AtR(q) \in N!End \ {AtL(p), AtR(p)}
    BY PortEnds
  <2> QED BY <1>7, <1>8, <2>1 DEF In
<1>12. /\ LP!LinkInv' /\ RP!LinkInv'
       /\ portL' = portL /\ portR' = portR /\ attrL' = attrL /\ attrR' = attrR
       /\ RP!Init => RP!Init'
  BY <1>1, Untouched
<1>13. WaysOK'
  <2> SUFFICES ASSUME NEW q \in Port
               PROVE  /\ Ends(way'[AtL(q)], attrL[q].link_status, In(q)', mngr)
                      /\ "R" \in alive => Ends(way'[AtR(q)], attrR[q].link_status,
                                               In(q)', mngr)
    BY <1>1, <1>12 DEF WaysOK
  <2>1. CASE q # p BY <1>3, <1>11, <2>1 DEF WaysOK
  <2>2. CASE q = p
    <3>1. /\ way[AtL(p)] \in Items /\ way[AtR(p)] \in Items /\ mngr \in BOOLEAN
          /\ attrL[p].link_status \in BOOLEAN /\ attrR[p].link_status \in BOOLEAN
          /\ In(p) \in BOOLEAN
      BY NetFacts
    <3>2. /\ Ends(way[AtL(p)], attrL[p].link_status, In(p), mngr)
          /\ "R" \in alive => Ends(way[AtR(p)], attrR[p].link_status, In(p), mngr)
      BY <1>3 DEF WaysOK
    <3>3. Ends(Append(way[AtL(p)], x), attrL[p].link_status, FALSE, mngr)
      BY <1>2, <3>1, <3>2, EndsTold, Zenon
    <3>4. "R" \in alive => Ends(Append(way[AtR(p)], x), attrR[p].link_status, FALSE, mngr)
      BY <1>2, <3>1, <3>2, EndsTold, Zenon
    <3> QED BY <1>7, <1>10, <2>2, <3>3, <3>4, Zenon
  <2> QED BY <2>1, <2>2
<1>14. GoneOK'
  <2>1. "R" \notin alive => \A q \in Port : way'[AtR(q)] = way[AtR(q)]
    BY <1>7, <1>11
  <2> QED BY <1>1, <1>3, <1>12, <2>1 DEF GoneOK
<1>15. NetOK' BY <1>1, <1>3, <1>7, <1>9, <1>13, <1>14, NetFacts DEF NetOK, QueuesOK
<1>16. ASSUME NEW q \in Port PROVE PairOK(q)'
  <2>1. PairOK(q) BY NetFacts
  <2>2. CASE q # p BY <1>1, <1>11, <1>12, <2>1, <2>2 DEF PairOK
  <2>3. CASE q = p
    <3>1. Pair(FALSE, Latest(sent, AtL(p)), Latest(sent, AtR(p)), LastItem(way'[AtL(p)]),
               LastItem(way'[AtR(p)]), portL[p], portR[p])
      BY <2>1, <2>3, PairParts, Zenon DEF PairOK
    <3> QED BY <1>1, <1>10, <1>12, <2>3, <3>1, Zenon DEF PairOK
  <2> QED BY <2>2, <2>3
<1> QED BY <1>12, <1>15, <1>16 DEF BridgesInv

\* What the manager does with the cables when R has gone.
LEMMA RetireKeeps ==
  ASSUME BridgesInv, Retire
  PROVE  BridgesInv'
<1> DEFINE x == N!Unplugged
<1>1. /\ "R" \notin alive
      /\ cable' = [e \in N!End |->
                     IF e[1] = "R" \/ (cable[e] # N!None /\ cable[e][1] = "R")
                     THEN N!None ELSE cable[e]]
      /\ way' = [e \in N!End |->
                   IF e[1] \in alive /\ cable[e] # N!None /\ cable[e][1] = "R"
                   THEN Append(way[e], x) ELSE way[e]]
      /\ UNCHANGED <<alive, sent, mngr, varsL, varsR>>
  BY DEF Retire, N!Retire
<1>2. x \in Item /\ x.cmd = "DISCONNECT" BY ItemFacts
<1> HIDE DEF x
<1>3. way \in [N!End -> Items] /\ CablesOK /\ WaysOK /\ GoneOK /\ sent \in Letters
  BY NetFacts DEF QueuesOK
<1>4. ASSUME NEW p \in Port
      PROVE  /\ cable'[AtL(p)] = N!None /\ cable'[AtR(p)] = N!None
             /\ way'[AtL(p)] = IF In(p) THEN Append(way[AtL(p)], x) ELSE way[AtL(p)]
             /\ way'[AtR(p)] = way[AtR(p)]
  <2>1. /\ AtL(p) \in N!End /\ AtR(p) \in N!End
        /\ AtL(p)[1] = "L" /\ AtR(p)[1] = "R" /\ "L" \in alive
    BY <1>3, PortEnds DEF CablesOK
  <2>2. In(p) <=> cable[AtL(p)] = AtR(p) BY <1>3, PortEnds DEF In, CablesOK
  <2>3. cable[AtL(p)] # N!None <=> In(p) BY DEF In
  <2>4. cable'[AtL(p)] = N!None /\ cable'[AtR(p)] = N!None
    BY <1>1, <2>1, <2>2, <2>3
  <2>5. way'[AtL(p)] = IF In(p) THEN Append(way[AtL(p)], x) ELSE way[AtL(p)]
    BY <1>1, <2>1, <2>2, <2>3
  <2>6. way'[AtR(p)] = way[AtR(p)] BY <1>1, <2>1
  <2> QED BY <2>4, <2>5, <2>6
<1>5. way' \in [N!End -> Items]
  <2>1. \A e \in N!End : Append(way[e], x) \in Items BY <1>2, <1>3, WayFacts
  <2>2. \A e \in N!End : way[e] \in Items BY <1>3
  <2> QED BY <1>1, <2>1, <2>2
<1>6. CablesOK'
  <2>1. cable' \in [N!End -> N!End \cup {N!None}] BY <1>1, <1>3 DEF CablesOK
  <2> QED BY <1>1, <1>3, <1>4, <2>1, Zenon DEF CablesOK
<1>7. \A p \in Port : In(p)' = FALSE BY <1>4 DEF In
<1>8. /\ LP!LinkInv' /\ RP!LinkInv'
      /\ portL' = portL /\ portR' = portR /\ attrL' = attrL /\ attrR' = attrR
      /\ RP!Init => RP!Init'
  BY <1>1, Untouched
<1>9. WaysOK'
  <2> SUFFICES ASSUME NEW p \in Port
               PROVE  Ends(way'[AtL(p)], attrL[p].link_status, FALSE, mngr)
    BY <1>1, <1>7, <1>8, Zenon DEF WaysOK
  <2>1. /\ way[AtL(p)] \in Items /\ mngr \in BOOLEAN
        /\ attrL[p].link_status \in BOOLEAN /\ In(p) \in BOOLEAN
    BY NetFacts
  <2>2. Ends(way[AtL(p)], attrL[p].link_status, In(p), mngr) BY <1>3 DEF WaysOK
  <2>3. Ends(Append(way[AtL(p)], x), attrL[p].link_status, FALSE, mngr)
    BY <1>2, <2>1, <2>2, EndsTold, Zenon
  <2>4. CASE In(p) BY <1>4, <2>3, <2>4, Zenon
  <2>5. CASE ~In(p)
    <3>1. In(p) = FALSE BY <2>1, <2>5
    <3> QED BY <1>4, <2>2, <2>5, <3>1, Zenon
  <2> QED BY <2>4, <2>5, Zenon
<1>10. GoneOK' BY <1>1, <1>3, <1>4, <1>8, Zenon DEF GoneOK
<1>11. NetOK' BY <1>1, <1>3, <1>5, <1>6, <1>9, <1>10, NetFacts DEF NetOK, QueuesOK
<1>12. ASSUME NEW p \in Port PROVE PairOK(p)'
  <2>1. PairOK(p) BY NetFacts
  <2>2. Pair(FALSE, Latest(sent, AtL(p)), Latest(sent, AtR(p)), LastItem(way'[AtL(p)]),
             LastItem(way'[AtR(p)]), portL[p], portR[p])
    BY <2>1, PairParts, Zenon DEF PairOK
  <2> QED BY <1>1, <1>7, <1>8, <2>2, Zenon DEF PairOK
<1> QED BY <1>8, <1>11, <1>12 DEF BridgesInv

\* The manager ends with what it has not said.
LEMMA BlackoutKeeps ==
  ASSUME BridgesInv, Blackout
  PROVE  BridgesInv'
<1>1. /\ cable' = [e \in N!End |-> N!None] /\ sent' = <<>> /\ mngr' = FALSE
      /\ UNCHANGED <<alive, varsL, varsR>>
  BY DEF Blackout, N!Blackout
<1> DEFINE told == {e \in N!End : way[e] # <<>>}
<1>2. PICK n : /\ n \in [told -> UNION {0 .. Len(way[e]) : e \in told}]
               /\ \A e \in told : n[e] <= Len(way[e])
               /\ way' = [e \in N!End |-> IF e \in told THEN SubSeq(way[e], 1, n[e])
                                        ELSE <<>>]
  BY Zenon DEF Blackout, N!Blackout
<1>3. way \in [N!End -> Items] /\ CablesOK /\ WaysOK /\ GoneOK
  BY NetFacts DEF QueuesOK
<1>4. ASSUME NEW e \in told PROVE n[e] \in 0 .. Len(way[e])
  <2>1. n[e] \in UNION {0 .. Len(way[f]) : f \in told} BY <1>2
  <2>2. PICK f \in told : n[e] \in 0 .. Len(way[f]) BY <2>1
  <2>3. n[e] <= Len(way[e]) BY <1>2
  <2>4. way[e] \in Seq(Item) BY <1>3 DEF Items
  <2>5. Len(way[e]) \in Nat BY <2>4
  <2>6. n[e] \in Int /\ 0 <= n[e] BY <2>2
  <2> QED BY <2>3, <2>5, <2>6
<1>5. ASSUME NEW e \in N!End
      PROVE  \/ way[e] = <<>> /\ way'[e] = <<>>
             \/ \E k \in 0 .. Len(way[e]) : way'[e] = SubSeq(way[e], 1, k)
  <2>1. CASE e \in told
    <3> DEFINE s == SubSeq(way[e], 1, n[e])
    <3>1. way'[e] = s BY <1>2, <2>1
    <3> QED BY <1>4, <2>1, <3>1
  <2>2. CASE e \notin told BY <1>2, <2>2
  <2> QED BY <2>1, <2>2
<1>6. DOMAIN way' = N!End /\ way' = [e \in N!End |-> way'[e]] BY <1>2
<1> HIDE DEF told
<1>7. <<>> \in Items BY DEF Items
<1>8. ASSUME NEW e \in N!End PROVE way'[e] \in Items
  <2>1. way[e] \in Items BY <1>3
  <2>2. ASSUME NEW k \in 0 .. Len(way[e]) PROVE SubSeq(way[e], 1, k) \in Items
    BY <2>1 DEF Items
  <2> QED BY <1>5, <1>7, <2>2, Zenon
<1>9. way' \in [N!End -> Items] BY <1>6, <1>8
<1>10. <<>> \in Letters BY DEF Letters
<1>11. QueuesOK' BY <1>1, <1>9, <1>10 DEF QueuesOK
<1>12. \A p \in Port : cable'[AtL(p)] = N!None /\ cable'[AtR(p)] = N!None
  BY <1>1, PortEnds
<1>13. CablesOK' BY <1>1, <1>3, <1>12 DEF CablesOK
<1>14. \A p \in Port : In(p)' = FALSE BY <1>12 DEF In
<1>15. /\ LP!LinkInv' /\ RP!LinkInv'
       /\ portL' = portL /\ portR' = portR /\ attrL' = attrL /\ attrR' = attrR
       /\ RP!Init => RP!Init'
  BY <1>1, Untouched
<1>16. ASSUME NEW e \in N!End, NEW up \in BOOLEAN, NEW in \in BOOLEAN,
              Ends(way[e], up, in, mngr)
       PROVE  Ends(way'[e], up, FALSE, FALSE)
  <2>1. way[e] \in Items /\ mngr \in BOOLEAN BY <1>3, NetFacts
  <2>2. CASE way'[e] = <<>> BY <2>2, EndsOfNone, Zenon
  <2>3. ASSUME NEW k \in 0 .. Len(way[e]), way'[e] = SubSeq(way[e], 1, k)
        PROVE  Ends(way'[e], up, FALSE, FALSE)
    <3>1. Ends(SubSeq(way[e], 1, k), up, FALSE, FALSE) BY <1>16, <2>1, EndsPart, Zenon
    <3> QED BY <2>3, <3>1, Zenon
  <2> QED BY <1>5, <2>2, <2>3, Zenon
<1>17. WaysOK'
  <2> SUFFICES ASSUME NEW p \in Port
               PROVE  /\ Ends(way'[AtL(p)], attrL[p].link_status, FALSE, FALSE)
                      /\ "R" \in alive =>
                            Ends(way'[AtR(p)], attrR[p].link_status, FALSE, FALSE)
    BY <1>1, <1>14, <1>15, Zenon DEF WaysOK
  <2>1. /\ attrL[p].link_status \in BOOLEAN /\ attrR[p].link_status \in BOOLEAN
        /\ In(p) \in BOOLEAN /\ AtL(p) \in N!End /\ AtR(p) \in N!End
    BY NetFacts, PortEnds
  <2> QED BY <1>3, <1>16, <2>1, Zenon DEF WaysOK
<1>18. GoneOK'
  <2>1. ASSUME NEW p \in Port, way[AtR(p)] = <<>> PROVE way'[AtR(p)] = <<>>
    <3>1. AtR(p) \in N!End BY PortEnds
    <3>2. Len(<<>>) = 0 OBVIOUS
    <3>3. ASSUME NEW k \in 0 .. Len(way[AtR(p)]) PROVE SubSeq(way[AtR(p)], 1, k) = <<>>
      <4>1. k = 0 BY <2>1, <3>2, <3>3
      <4>2. SubSeq(<<>>, 1, 0) = <<>> OBVIOUS
      <4> QED BY <2>1, <4>1, <4>2
    <3> QED BY <1>5, <3>1, <3>3
  <2> QED BY <1>1, <1>3, <1>15, <2>1 DEF GoneOK
<1>19. NetOK' BY <1>1, <1>11, <1>13, <1>17, <1>18, Zenon DEF NetOK
<1>20. ASSUME NEW p \in Port PROVE PairOK(p)'
  <2>1. \A e : Latest(sent', e) = {} BY <1>1, LatestOfNone
  <2> QED BY <1>14, <2>1, PairForgets, Zenon DEF PairOK
<1> QED BY <1>15, <1>19, <1>20 DEF BridgesInv

\* Bridge R ends.
LEMMA EndKeeps ==
  ASSUME BridgesInv, End
  PROVE  BridgesInv'
<1>1. /\ alive' = alive \ {"R"}
      /\ way' = [e \in N!End |-> IF e[1] = "R" THEN <<>> ELSE way[e]]
      /\ UNCHANGED <<cable, sent, mngr, varsL>> /\ pcR = "idle"
  BY DEF End, N!Leave, MayBreak, Calm
<1>2. RP!Init'
  <2>1. /\ portsR' = <<>> /\ portR' = [p \in Port |-> RP!ZeroPort(p)]
        /\ sysR' = RP!BootSys /\ attrR' = [p \in Port |-> RP!BootAttr]
        /\ groupR' = [g \in Agg |-> {}]
        /\ UNCHANGED <<curR, pcR, retR, argsR>>
    BY RightData DEF End
  <2>2. retR = "idle" /\ curR = RP!NoMachine /\ argsR = RP!NoArgs
    BY <1>1, RightParams, RP!LinkFacts DEF BridgesInv, RP!CallRest
  <2> QED BY <1>1, <2>1, <2>2 DEF RP!Init
<1>3. (RP!LinkInv /\ pcR = "idle" /\ NothingR)' BY <1>2, RightStarts, PTL
<1>4. /\ LP!LinkInv' /\ portL' = portL /\ attrL' = attrL
  BY <1>1, LeftWaits DEF BridgesInv, varsL
<1>5. way \in [N!End -> Items] /\ CablesOK /\ WaysOK /\ sent \in Letters
  BY NetFacts DEF QueuesOK
<1>6. <<>> \in Items BY DEF Items
<1>7. way' \in [N!End -> Items] BY <1>1, <1>5, <1>6
<1>8. \A p \in Port : way'[AtL(p)] = way[AtL(p)] /\ way'[AtR(p)] = <<>>
  BY <1>1, PortEnds
<1>9. QueuesOK' /\ CablesOK' BY <1>1, <1>5, <1>7 DEF QueuesOK, CablesOK
<1>10. \A p \in Port : In(p)' = In(p) BY <1>1 DEF In
<1>11. WaysOK' BY <1>1, <1>4, <1>5, <1>8, <1>10 DEF WaysOK
<1>12. GoneOK' BY <1>2, <1>8 DEF GoneOK
<1>13. NetOK' BY <1>1, <1>9, <1>11, <1>12, NetFacts DEF NetOK
<1>14. ASSUME NEW p \in Port PROVE PairOK(p)'
  <2>1. PairOK(p) BY NetFacts
  <2>2. LP!Blank(portR'[p]) /\ ~LP!Syn(portR'[p]) BY <1>3 DEF NothingR
  <2>3. Pair(In(p), Latest(sent, AtL(p)), Latest(sent, AtR(p)), LastItem(way[AtL(p)]), {},
             portL[p], portR'[p])
    BY <2>1, <2>2, PairEnds DEF PairOK
  <2>4. LastItem(way'[AtR(p)]) = {} BY <1>8 DEF LastItem
  <2> QED BY <1>1, <1>4, <1>8, <1>10, <2>3, <2>4, Zenon DEF PairOK
<1> QED BY <1>3, <1>4, <1>13, <1>14 DEF BridgesInv

\* A new R starts.
LEMMA RestartKeeps ==
  ASSUME BridgesInv, Restart
  PROVE  BridgesInv'
<1>1. /\ alive' = alive \cup {"R"} /\ UNCHANGED <<cable, sent, way, mngr, varsL, varsR>>
      /\ "R" \notin alive /\ \A p \in Port : cable[AtR(p)] = N!None
  BY DEF Restart, N!Join, AtR
<1>2. /\ LP!LinkInv' /\ RP!LinkInv'
      /\ portL' = portL /\ portR' = portR /\ attrL' = attrL /\ attrR' = attrR
  BY <1>1, Untouched
<1>3. QueuesOK /\ CablesOK /\ WaysOK /\ GoneOK BY NetFacts
<1>4. QueuesOK' /\ CablesOK' BY <1>1, <1>3 DEF QueuesOK, CablesOK
<1>5. \A p \in Port : In(p) = FALSE /\ In(p)' = In(p)
  BY <1>1, <1>3, PortEnds DEF CablesOK, In
<1>6. ASSUME NEW p \in Port PROVE Ends(way[AtR(p)], attrR[p].link_status, FALSE, mngr)
  <2>1. way[AtR(p)] = <<>> /\ attrR[p].link_status = FALSE
    BY <1>1, <1>3, Unlinked DEF GoneOK
  <2> QED BY <2>1, NetFacts, EndsOfNone, Zenon
<1>7. WaysOK' BY <1>1, <1>2, <1>3, <1>5, <1>6, Zenon DEF WaysOK
<1>8. GoneOK' BY <1>1 DEF GoneOK
<1>9. NetOK' BY <1>1, <1>4, <1>7, <1>8, NetFacts DEF NetOK
<1>10. \A p \in Port : PairOK(p)' BY <1>1, <1>2, <1>5, NetFacts DEF PairOK
<1> QED BY <1>2, <1>9, <1>10 DEF BridgesInv

-----------------------------------------------------------------------------
(* Two bridges *)

LEMMA BridgesStart == Init => BridgesInv
<1> SUFFICES ASSUME Init PROVE BridgesInv OBVIOUS
<1>1. LP!Init /\ RP!Init BY LeftCalls, RightCalls DEF Init
<1>2. LP!LinkInv /\ RP!LinkInv BY <1>1, LeftStarts, RightStarts
<1>3. /\ alive = {"L", "R"} /\ cable = [e \in N!End |-> N!None] /\ sent = <<>>
      /\ way = [e \in N!End |-> <<>>] /\ mngr = TRUE
  BY DEF Init
<1>4. <<>> \in Items /\ <<>> \in Letters BY DEF Items, Letters
<1>5. QueuesOK BY <1>3, <1>4 DEF QueuesOK
<1>6. \A p \in Port : /\ cable[AtL(p)] = N!None /\ cable[AtR(p)] = N!None
                      /\ way[AtL(p)] = <<>> /\ way[AtR(p)] = <<>>
  BY <1>3, PortEnds
<1>7. CablesOK BY <1>3, <1>6 DEF CablesOK
<1>8. \A p \in Port : In(p) = FALSE BY <1>6 DEF In
<1>9. \A p \in Port : attrL[p].link_status = FALSE /\ attrR[p].link_status = FALSE
  BY <1>1 DEF LP!Init, LP!BootAttr, RP!Init, RP!BootAttr
<1>10. Ends(<<>>, FALSE, FALSE, TRUE) BY EndsOfNone, Zenon
<1>11. WaysOK BY <1>3, <1>6, <1>8, <1>9, <1>10, Zenon DEF WaysOK
<1>12. NetOK BY <1>3, <1>5, <1>7, <1>11 DEF NetOK, GoneOK
<1>13. ASSUME NEW p \in Port PROVE PairOK(p)
  <2>1. \A e : Latest(sent, e) = {} BY <1>3, LatestOfNone
  <2> QED BY <1>8, <2>1, PairForgets, Zenon DEF PairOK
<1> QED BY <1>2, <1>12, <1>13 DEF BridgesInv

LEMMA BridgesStep ==
  ASSUME BridgesInv, LongTimeout # 0, ShortTimeout # 0, [Next]_vars
  PROVE  BridgesInv'
<1>1. CASE WorkL \/ WorkR BY <1>1, WorkKeeps
<1>2. CASE SecondL \/ SecondR \/ CommandL \/ CommandR \/ UNCHANGED vars
  BY <1>2, SecondsKeep
<1>3. CASE Route BY <1>3, RouteKeeps
<1>4. CASE End BY <1>4, EndKeeps
<1>5. CASE Retire BY <1>5, RetireKeeps
<1>6. CASE Restart BY <1>6, RestartKeeps
<1>7. CASE Blackout BY <1>7, BlackoutKeeps
<1>8. CASE \E p \in Port : ReadL(p) \/ ReadR(p) \/ Plug(p) \/ Unplug(p)
  BY <1>8, ReadLKeeps, ReadRKeeps, PlugKeeps, UnplugKeeps
<1> QED BY <1>1, <1>2, <1>3, <1>4, <1>5, <1>6, <1>7, <1>8 DEF Next

\* What two ends of a cable know of each other when nothing is under way.
LEMMA BothOrOwing ==
  ASSUME NEW t1, NEW t2, Pair(TRUE, {}, {}, {}, {}, t1, t2),
         ~t1.msg.rcvd, ~t2.msg.rcvd, ~t1.ntt, ~t2.ntt,
         LP!Syn(t1), LP!Sees(t1), t1.rx = "CURRENT",
         t2.mux \notin {"BEGIN", "DISABLE"}, LP!Attached(t2) => LP!Syn(t2),
         LP!Syn(t2) => t2.mux = "ATTACHED" /\ ~LP!Sees(t2)
  PROVE  FALSE
<1>1. LP!Right(t2, TRUE) BY Zenon DEF Pair, Knows, HeardIsRight
<1>2. LP!Syn(t2) BY <1>1 DEF LP!Right
<1>3. LP!Hush(t1) \/ Told({}, {}, t1) BY <1>2 DEF Pair, Knows, WaitIsHeard
<1> QED BY <1>3 DEF LP!Hush, Told

LEMMA BridgesAgree == BridgesInv => OneWayIsBrief
<1> SUFFICES ASSUME BridgesInv, NEW p \in Port, AtRest, Joined(p),
                    ~Owes(portL[p]), ~Owes(portR[p]), attrL[p].cd # attrR[p].cd
             PROVE  FALSE
  BY DEF OneWayIsBrief
<1>1. /\ pcL = "idle" /\ pcR = "idle" /\ sent = <<>> /\ "R" \in alive
      /\ p \in L!Listed /\ p \in R!Listed /\ In(p)
  BY PortEnds DEF AtRest, Calm, Joined, In, AtL, AtR
<1>2. way[AtL(p)] = <<>> /\ way[AtR(p)] = <<>>
  <2>1. DOMAIN way = N!End BY NetFacts DEF QueuesOK
  <2> QED BY <2>1, PortEnds DEF AtRest
<1>3. In(p) = TRUE BY <1>1, NetFacts
<1>4. attrL[p].link_status /\ attrR[p].link_status
  <2>1. /\ Ends(<<>>, attrL[p].link_status, TRUE, mngr)
        /\ Ends(<<>>, attrR[p].link_status, TRUE, mngr)
    BY <1>1, <1>2, <1>3, NetFacts, Zenon DEF WaysOK
  <2> QED BY <2>1, NetFacts, EndsOfNone, Zenon
<1>5. Pair(TRUE, {}, {}, {}, {}, portL[p], portR[p])
  <2>1. PairOK(p) BY NetFacts
  <2>2. \A e : Latest(sent, e) = {} BY <1>1, LatestOfNone
  <2> QED BY <1>2, <1>3, <2>1, <2>2, Zenon DEF PairOK, LastItem
<1>6. Pair(TRUE, {}, {}, {}, {}, portR[p], portL[p]) BY <1>5, PairTurns, Zenon
<1>7. LP!LinkInv /\ RP!LinkInv BY DEF BridgesInv
<1>8. /\ ~portL[p].msg.rcvd /\ portL[p].mux \notin {"BEGIN", "DISABLE"} /\ ~portL[p].ntt
      /\ LP!Attached(portL[p]) => LP!Syn(portL[p])
      /\ attrL[p].cd => LP!Syn(portL[p]) /\ LP!Sees(portL[p]) /\ portL[p].rx = "CURRENT"
      /\ ~attrL[p].cd /\ LP!Syn(portL[p]) =>
            portL[p].mux = "ATTACHED" /\ ~LP!Sees(portL[p])
  BY <1>1, <1>4, <1>7, LeftRests
<1>9. /\ ~portR[p].msg.rcvd /\ portR[p].mux \notin {"BEGIN", "DISABLE"} /\ ~portR[p].ntt
      /\ LP!Attached(portR[p]) => LP!Syn(portR[p])
      /\ attrR[p].cd => LP!Syn(portR[p]) /\ LP!Sees(portR[p]) /\ portR[p].rx = "CURRENT"
      /\ ~attrR[p].cd /\ LP!Syn(portR[p]) =>
            portR[p].mux = "ATTACHED" /\ ~LP!Sees(portR[p])
  BY <1>1, <1>4, <1>7, RightRests
<1>10. attrL[p].cd \in BOOLEAN /\ attrR[p].cd \in BOOLEAN
  <2>1. LP!TypeOK /\ RP!TypeOK
    BY <1>7, LeftParams, RightParams, LP!LinkFacts, RP!LinkFacts DEF LP!TypeInv, RP!TypeInv
  <2>2. attrL[p] \in LP!Attr /\ attrR[p] \in RP!Attr BY <2>1 DEF LP!TypeOK, RP!TypeOK
  <2> QED BY <2>2 DEF LP!Attr, RP!Attr
<1>11. CASE attrL[p].cd /\ ~attrR[p].cd
  BY <1>5, <1>8, <1>9, <1>11, BothOrOwing, Zenon
<1>12. CASE ~attrL[p].cd /\ attrR[p].cd
  BY <1>6, <1>8, <1>9, <1>12, BothOrOwing, Zenon
<1> QED BY <1>10, <1>11, <1>12

\* When nothing is under way between two bridges whose timeouts are not zero, both ends
\* of a cable carry traffic or neither does, but for a port that owes a LACPDU.
THEOREM BothOrNeither ==
  ASSUME LongTimeout # 0, ShortTimeout # 0
  PROVE  Spec => []OneWayIsBrief
<1>1. Init => BridgesInv BY BridgesStart
<1>2. BridgesInv /\ [Next]_vars => BridgesInv' BY BridgesStep
<1>3. BridgesInv => OneWayIsBrief BY BridgesAgree
<1> QED BY <1>1, <1>2, <1>3, PTL DEF Spec
=============================================================================
