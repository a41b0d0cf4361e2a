----------------------------- MODULE MngrProofs -----------------------------
(***************************************************************************)
(* The manager for every set of bridges, every numbering of them, every      *)
(* number of ports and every size of the sockets: the types of Mngr, the     *)
(* table of links that always is a matching of listed entries, and that a    *)
(* LACPDU is read from the port whose cable its reader was last told of.     *)
(*                                                                         *)
(* And then, that the manager, its sockets and its registry implement        *)
(* Cables.  Each action of Mngr maps to one action of Cables or to none.     *)
(* The argument needs the invariant behind FramesFollowCables: the manager   *)
(* takes the first entry with a pid, and that entry is the sender when the   *)
(* datagram is read; a goodbye is read when its sender has ended.            *)
(*                                                                         *)
(* What is on its way to a port is a concatenation of what single datagrams  *)
(* tell it.  The provers take Len, Append and \o apart wherever they see     *)
(* them; the operators of the second half keep them whole.                   *)
(***************************************************************************)
EXTENDS MngrSafety, SequenceTheorems, FiniteSetTheorems, SequencesExt, WellFoundedInduction,
        TLAPS

-----------------------------------------------------------------------------
(* The operators of Mngr *)

\* What the handlers and the bridges send are datagrams of their direction.
LEMMA DatagramTypes ==
  ASSUME NEW e \in End, NEW f \in End, NEW m \in Pdu, NEW b \in Bridge, NEW p \in PortNo
  PROVE  /\ Connect(e, f) \in ToBridge /\ Disconnect(e) \in ToBridge
         /\ Bpdu(e, f, m) \in ToBridge /\ Shutdown(b) \in ToBridge
         /\ Hello(b) \in ToMngr /\ Bye(b) \in ToMngr /\ Report(b, p, m) \in ToMngr
<1>1. e[1] \in Bridge /\ e[2] \in PortNo BY DEF End
<1>2. 0 \in PortNo BY MngrAssumption DEF PortNo
<1> QED BY <1>1, <1>2
    DEF Connect, Disconnect, Bpdu, Shutdown, Hello, Bye, Report, ToBridge, ToMngr

\* The functions and sequences of TypeOK, for citation.
LEMMA VarTypes ==
  ASSUME TypeOK
  PROVE  /\ br_lst \in Seq(Bridge) /\ link \in [End -> End \cup {None}]
         /\ queue \in Seq(ToMngr) /\ Len(queue) <= Cap /\ out \in Seq(ToBridge)
         /\ life \in [Bridge -> {"new", "up", "leaving", "gone"}]
         /\ inbox \in [Bridge -> Seq(ToBridge)]
         /\ \A b \in Bridge : Len(inbox[b]) <= Cap
         /\ call \in [Bridge -> Seq(PortNo \X Pdu)]
         /\ peer \in [End -> End \cup {None}]
BY DEF TypeOK

\* A send fills a socket with room by one datagram.
LEMMA SendType ==
  ASSUME TypeOK, NEW d \in ToMngr, ToManager(d)
  PROVE  queue' \in Seq(ToMngr) /\ Len(queue') <= Cap
<1>1. CASE mngr = "gone" BY <1>1, VarTypes DEF ToManager
<1>2. CASE mngr # "gone"
  <2>1. queue' = Append(queue, d) /\ Len(queue) < Cap
    BY <1>2 DEF ToManager, QueueHasRoom
  <2>2. Len(queue) \in Nat /\ Cap \in Nat BY VarTypes, LenProperties, MngrAssumption
  <2>3. queue' \in Seq(ToMngr) /\ Len(queue') = Len(queue) + 1
    BY <2>1, VarTypes, AppendProperties
  <2> QED BY <2>1, <2>2, <2>3
<1> QED BY <1>1, <1>2

\* A read leaves a sequence of datagrams.
LEMMA TailType ==
  ASSUME NEW S, NEW s \in Seq(S), s # <<>>
  PROVE  Head(s) \in S /\ Tail(s) \in Seq(S) /\ Len(Tail(s)) <= Len(s)
<1>1. Len(s) \in Nat BY LenProperties
<1> QED BY <1>1, HeadTailProperties

\* A port of br_lst[i] is an end.
LEMMA EntryEnd ==
  ASSUME TypeOK, NEW i \in DOMAIN br_lst, NEW p \in PortNo
  PROVE  br_lst[i] \in Bridge /\ <<br_lst[i], p>> \in End
<1>1. br_lst[i] \in Bridge BY VarTypes, LenProperties, ElementOfSeq
<1> QED BY <1>1 DEF End

\* Sequences of no, one and two elements.
LEMMA ShortSeqs ==
  ASSUME NEW S, NEW x \in S, NEW y \in S
  PROVE  <<>> \in Seq(S) /\ <<x>> \in Seq(S) /\ <<x, y>> \in Seq(S)
OBVIOUS

\* The farewells of a bridge that is unregistered: one for each port it drops.
LEMMA RisingType ==
  ASSUME NEW S, S \subseteq PortNo, NEW s \in Rising(S)
  PROVE  /\ Cardinality(S) \in Nat /\ DOMAIN s = 1 .. Cardinality(S)
         /\ \A k \in DOMAIN s : s[k] \in S
<1>1. IsFiniteSet(PortNo)
  <2>1. 0 \in Int /\ Ports - 1 \in Int BY MngrAssumption
  <2> QED BY <2>1, FS_Interval DEF PortNo
<1>2. IsFiniteSet(S) BY <1>1, FS_Subset
<1>3. Cardinality(S) \in Nat BY <1>2, FS_CardinalityType
<1>4. s \in [1 .. Cardinality(S) -> S] BY DEF Rising
<1> QED BY <1>3, <1>4

-----------------------------------------------------------------------------
(* Type correctness: one lemma for each action *)

\* bridge_start.
LEMMA StartType ==
  ASSUME TypeOK, NEW b \in Bridge, Start(b)
  PROVE  TypeOK'
<1>1. Hello(b) \in ToMngr BY DEF Hello, ToMngr
<1>2. queue' \in Seq(ToMngr) /\ Len(queue') <= Cap BY <1>1, SendType DEF Start
<1> QED BY <1>2, VarTypes DEF Start, TypeOK, mngrVars

\* A call that sends.
LEMMA StartCallType ==
  ASSUME TypeOK, NEW b \in Bridge, StartCall(b)
  PROVE  TypeOK'
<1>1. PICK n \in 1 .. Burst : \E s \in [1 .. n -> PortNo \X Pdu] :
         call' = [call EXCEPT ![b] = s]
  BY DEF StartCall
<1>2. PICK s \in [1 .. n -> PortNo \X Pdu] : call' = [call EXCEPT ![b] = s] BY <1>1
<1>3. n \in Nat BY MngrAssumption
<1>4. s \in Seq(PortNo \X Pdu) BY <1>3
<1>5. call' \in [Bridge -> Seq(PortNo \X Pdu)] BY <1>2, <1>4, VarTypes
<1> QED BY <1>5, VarTypes DEF StartCall, TypeOK, mngrVars

\* bridge_tx_bpdu.
LEMMA TransmitType ==
  ASSUME TypeOK, NEW b \in Bridge, Transmit(b)
  PROVE  TypeOK'
<1>1. call[b] \in Seq(PortNo \X Pdu) /\ call[b] # <<>> BY VarTypes DEF Transmit
<1>2. Head(call[b]) \in PortNo \X Pdu /\ Tail(call[b]) \in Seq(PortNo \X Pdu)
  BY <1>1, TailType
<1>3. Head(call[b])[1] \in PortNo /\ Head(call[b])[2] \in Pdu BY <1>2
<1>4. Report(b, Head(call[b])[1], Head(call[b])[2]) \in ToMngr
  BY <1>3 DEF Report, ToMngr
<1>5. queue' \in Seq(ToMngr) /\ Len(queue') <= Cap BY <1>4, SendType DEF Transmit
<1>6. call' \in [Bridge -> Seq(PortNo \X Pdu)] BY <1>2, VarTypes DEF Transmit
<1> QED BY <1>5, <1>6, VarTypes DEF Transmit, TypeOK, mngrVars

\* read_ipc.
LEMMA ReadType ==
  ASSUME TypeOK, NEW b \in Bridge, Read(b)
  PROVE  TypeOK'
<1>1. inbox[b] \in Seq(ToBridge) /\ inbox[b] # <<>> BY VarTypes DEF Read
<1>2. /\ Head(inbox[b]) \in ToBridge /\ Tail(inbox[b]) \in Seq(ToBridge)
      /\ Len(Tail(inbox[b])) <= Len(inbox[b])
  BY <1>1, TailType
<1>3. Len(inbox[b]) \in Nat /\ Len(Tail(inbox[b])) \in Nat /\ Cap \in Nat
  BY <1>1, <1>2, LenProperties, MngrAssumption
<1>4. Len(Tail(inbox[b])) <= Cap BY <1>2, <1>3, VarTypes
<1>5. inbox' = [inbox EXCEPT ![b] = Tail(@)] BY DEF Read
<1>6. inbox' \in [Bridge -> Seq(ToBridge)] BY <1>2, <1>5, VarTypes
<1>7. \A c \in Bridge : Len(inbox'[c]) <= Cap BY <1>4, <1>5, VarTypes
<1>8. life' \in [Bridge -> {"new", "up", "leaving", "gone"}] BY VarTypes DEF Read
<1>9. peer' \in [End -> End \cup {None}]
  <2> DEFINE d == Head(inbox[b])
  <2>1. CASE d.cmd \in {"CONNECT", "DISCONNECT"}
    <3>1. d.port \in PortNo /\ d.from \in End \cup {None} BY <1>2, <2>1 DEF ToBridge
    <3>2. peer' = [peer EXCEPT ![<<b, d.port>>] = d.from] BY <2>1 DEF Read
    <3> QED BY <3>1, <3>2, VarTypes DEF End
  <2>2. CASE d.cmd \notin {"CONNECT", "DISCONNECT"}
    <3>1. peer' = peer BY <2>2 DEF Read
    <3> QED BY <3>1, VarTypes
  <2> QED BY <2>1, <2>2
<1> QED BY <1>6, <1>7, <1>8, <1>9, VarTypes DEF Read, TypeOK, mngrVars

\* The ways out of main_loop.
LEMMA QuitType ==
  ASSUME TypeOK, NEW b \in Bridge, Quit(b)
  PROVE  TypeOK'
BY VarTypes DEF Quit, TypeOK, mngrVars

\* A process that ends loses what it has not read.
LEMMA EndsType ==
  ASSUME TypeOK, NEW b \in Bridge, Ends(b), UNCHANGED mngrVars,
         queue' \in Seq(ToMngr), Len(queue') <= Cap
  PROVE  TypeOK'
<1>1. Cap \in Nat /\ Len(<<>>) = 0 BY MngrAssumption
<1>2. inbox' \in [Bridge -> Seq(ToBridge)] /\ call' \in [Bridge -> Seq(PortNo \X Pdu)]
  BY VarTypes, EmptySeq DEF Ends
<1>3. \A c \in Bridge : Len(inbox'[c]) <= Cap BY <1>1, VarTypes DEF Ends
<1>4. life' \in [Bridge -> {"new", "up", "leaving", "gone"}] BY VarTypes DEF Ends
<1>5. peer' \in [End -> End \cup {None}] BY VarTypes DEF Ends
<1> QED BY <1>2, <1>3, <1>4, <1>5, VarTypes DEF TypeOK, mngrVars

\* bridge_shutdown.
LEMMA SayByeType ==
  ASSUME TypeOK, NEW b \in Bridge, SayBye(b)
  PROVE  TypeOK'
<1>1. Bye(b) \in ToMngr BY DEF Bye, ToMngr
<1>2. queue' \in Seq(ToMngr) /\ Len(queue') <= Cap BY <1>1, SendType DEF SayBye
<1> QED BY <1>2, EndsType DEF SayBye

\* A process that is killed.
LEMMA CrashType ==
  ASSUME TypeOK, NEW b \in Bridge, Crash(b)
  PROVE  TypeOK'
BY VarTypes, EndsType DEF Crash

\* register_bridge.
LEMMA RegisterType ==
  ASSUME TypeOK, NEW b \in Bridge, RegisterBridge(b)
  PROVE  br_lst' \in Seq(Bridge) /\ link' = link /\ out' = out
<1>1. <<b>> \in Seq(Bridge) BY ShortSeqs
<1> QED BY <1>1, VarTypes, ConcatProperties DEF RegisterBridge

\* An entry taken out of the list leaves a list of bridges.
LEMMA RemoveAtType ==
  ASSUME NEW S, NEW s \in Seq(S), NEW i \in DOMAIN s
  PROVE  /\ RemoveAt(s, i) \in Seq(S)
         /\ Len(RemoveAt(s, i)) = Len(s) - 1
         /\ \A k \in 1 .. Len(s) - 1 :
               RemoveAt(s, i)[k] = IF k < i THEN s[k] ELSE s[k + 1]
<1> DEFINE n == Len(s)
           a == SubSeq(s, 1, i - 1)
           z == SubSeq(s, i + 1, n)
<1>1. n \in Nat /\ DOMAIN s = 1 .. n BY LenProperties
<1>2. i \in 1 .. n BY <1>1
<1>3. \A k \in 1 .. n : s[k] \in S BY ElementOfSeq
<1>4. /\ a \in Seq(S) /\ Len(a) = i - 1 /\ \A k \in 1 .. i - 1 : a[k] = s[k]
  <2>1. 1 \in Int /\ i - 1 \in Int /\ \A k \in 1 .. i - 1 : s[k] \in S BY <1>1, <1>2, <1>3
  <2>2. /\ a \in Seq(S) /\ Len(a) = IF 1 <= i - 1 THEN i - 1 - 1 + 1 ELSE 0
        /\ \A k \in 1 .. i - 1 - 1 + 1 : a[k] = s[1 + k - 1]
    BY <2>1, SubSeqProperties
  <2> HIDE DEF a
  <2> QED BY <1>1, <1>2, <2>2
<1>5. /\ z \in Seq(S) /\ Len(z) = n - i /\ \A k \in 1 .. n - i : z[k] = s[k + i]
  <2>1. i + 1 \in Int /\ n \in Int /\ \A k \in i + 1 .. n : s[k] \in S BY <1>1, <1>2, <1>3
  <2>2. /\ z \in Seq(S) /\ Len(z) = IF i + 1 <= n THEN n - (i + 1) + 1 ELSE 0
        /\ \A k \in 1 .. n - (i + 1) + 1 : z[k] = s[(i + 1) + k - 1]
    BY <2>1, SubSeqProperties
  <2>3. n - (i + 1) + 1 = n - i /\ (i + 1 > n => n - i = 0) BY <1>1, <1>2
  <2>4. \A k \in 1 .. n - i : (i + 1) + k - 1 = k + i BY <1>1, <1>2
  <2> HIDE DEF z
  <2>5. Len(z) = n - i BY <1>1, <1>2, <2>2, <2>3
  <2> QED BY <2>2, <2>3, <2>4, <2>5
<1>6. RemoveAt(s, i) = a \o z BY DEF RemoveAt
<1> HIDE DEF a, z
<1>7. /\ a \o z \in Seq(S) /\ Len(a \o z) = Len(a) + Len(z)
      /\ \A k \in 1 .. Len(a) + Len(z) :
            (a \o z)[k] = IF k <= Len(a) THEN a[k] ELSE z[k - Len(a)]
  BY <1>4, <1>5, ConcatProperties
<1>8. Len(a \o z) = n - 1 BY <1>1, <1>2, <1>4, <1>5, <1>7
<1>9. ASSUME NEW k \in 1 .. n - 1 PROVE (a \o z)[k] = IF k < i THEN s[k] ELSE s[k + 1]
  <2>1. k \in 1 .. Len(a) + Len(z) BY <1>1, <1>2, <1>4, <1>5
  <2>2. CASE k < i BY <1>1, <1>2, <1>4, <1>7, <2>1, <2>2
  <2>3. CASE ~(k < i)
    <3>1. k - Len(a) \in 1 .. n - i /\ ~(k <= Len(a)) /\ (k - Len(a)) + i = k + 1
      BY <1>1, <1>2, <1>4, <2>3
    <3>2. z[k - Len(a)] = s[(k - Len(a)) + i] BY <1>5, <3>1
    <3> QED BY <1>7, <2>1, <2>3, <3>1, <3>2
  <2> QED BY <2>2, <2>3
<1> QED BY <1>6, <1>7, <1>8, <1>9

\* The table after an entry has gone.
LEMMA UnlinkedType ==
  ASSUME TypeOK, NEW b
  PROVE  Unlinked(b) \in [End -> End \cup {None}]
BY VarTypes DEF Unlinked

\* unregister_bridge.
LEMMA UnregisterType ==
  ASSUME TypeOK, NEW n, UnregisterBridge(n)
  PROVE  /\ br_lst' \in Seq(Bridge) /\ link' \in [End -> End \cup {None}]
         /\ out' \in Seq(ToBridge) \/ out' = out
<1>1. CASE Lists(n) = {}
  <2>1. UNCHANGED <<br_lst, link, out>> BY <1>1 DEF UnregisterBridge
  <2> QED BY <2>1, VarTypes
<1>2. CASE Lists(n) # {}
  <2>1. PICK i \in DOMAIN br_lst :
           /\ br_lst' = RemoveAt(br_lst, i) /\ link' = Unlinked(br_lst[i])
           /\ \E p \in Rising(Drops(br_lst[i])) :
                 out' = [k \in DOMAIN p |-> Disconnect(link[<<br_lst[i], p[k]>>])]
    BY <1>2 DEF UnregisterBridge
  <2>2. PICK p \in Rising(Drops(br_lst[i])) :
           out' = [k \in DOMAIN p |-> Disconnect(link[<<br_lst[i], p[k]>>])]
    BY <2>1
  <2>3. Drops(br_lst[i]) \subseteq PortNo BY DEF Drops
  <2>4. /\ Cardinality(Drops(br_lst[i])) \in Nat
        /\ DOMAIN p = 1 .. Cardinality(Drops(br_lst[i]))
        /\ \A k \in DOMAIN p : p[k] \in Drops(br_lst[i])
    BY <2>3, RisingType
  <2>5. ASSUME NEW k \in DOMAIN p
        PROVE  Disconnect(link[<<br_lst[i], p[k]>>]) \in ToBridge
    <3>1. p[k] \in PortNo /\ link[<<br_lst[i], p[k]>>] # None BY <2>4 DEF Drops
    <3>2. <<br_lst[i], p[k]>> \in End BY <3>1, EntryEnd
    <3>3. link[<<br_lst[i], p[k]>>] \in End BY <3>1, <3>2, VarTypes
    <3> QED BY <3>3, DatagramTypes, MngrAssumption DEF Disconnect, ToBridge, End
  <2>6. out' \in Seq(ToBridge)
    <3> DEFINE c == Cardinality(Drops(br_lst[i]))
               bye(k) == Disconnect(link[<<br_lst[i], p[k]>>])
    <3>1. out' = [k \in 1 .. c |-> bye(k)] BY <2>2, <2>4
    <3>2. c \in Nat /\ \A k \in 1 .. c : bye(k) \in ToBridge BY <2>4, <2>5
    <3> HIDE DEF c, bye
    <3>3. [k \in 1 .. c |-> bye(k)] \in Seq(ToBridge) BY <3>2, IsASeq
    <3> QED BY <3>1, <3>3
  <2> QED BY <2>1, <2>6, VarTypes, RemoveAtType, UnlinkedType
<1> QED BY <1>1, <1>2

\* rx_bpdu.
LEMMA RxBpduType ==
  ASSUME TypeOK, NEW b \in Bridge, NEW p \in PortNo, NEW m \in Pdu, RxBpdu(b, p, m)
  PROVE  br_lst' = br_lst /\ link' = link /\ out' \in Seq(ToBridge)
<1>1. CASE Lists(PidOf[b]) = {}
  <2>1. UNCHANGED <<br_lst, link>> /\ UNCHANGED out BY <1>1 DEF RxBpdu
  <2> QED BY <2>1, VarTypes
<1>2. CASE Lists(PidOf[b]) # {}
  <2>1. PICK i \in DOMAIN br_lst :
           out' = IF link[<<br_lst[i], p>>] = None THEN <<>>
                  ELSE <<Bpdu(link[<<br_lst[i], p>>], <<b, p>>, m)>>
    BY <1>2 DEF RxBpdu
  <2>2. <<br_lst[i], p>> \in End /\ <<b, p>> \in End BY EntryEnd DEF End
  <2>3. CASE link[<<br_lst[i], p>>] = None BY <2>1, <2>3 DEF RxBpdu
  <2>4. CASE link[<<br_lst[i], p>>] # None
    <3>1. link[<<br_lst[i], p>>] \in End BY <2>2, <2>4, VarTypes
    <3>2. Bpdu(link[<<br_lst[i], p>>], <<b, p>>, m) \in ToBridge
      BY <2>2, <3>1, DatagramTypes
    <3> QED BY <2>1, <2>4, <3>2, ShortSeqs DEF RxBpdu
  <2> QED BY <2>3, <2>4
<1> QED BY <1>1, <1>2

\* read_uid.
LEMMA ReadUidType ==
  ASSUME TypeOK, ReadUid
  PROVE  TypeOK'
<1> DEFINE d == Head(queue)
<1>1. queue \in Seq(ToMngr) /\ queue # <<>> BY VarTypes DEF ReadUid
<1>2. d \in ToMngr /\ queue' \in Seq(ToMngr) /\ Len(queue') <= Len(queue)
  BY <1>1, TailType DEF ReadUid
<1>3. Len(queue') <= Cap
  <2>1. Len(queue) \in Nat /\ Len(queue') \in Nat /\ Cap \in Nat
    BY <1>1, <1>2, LenProperties, MngrAssumption
  <2> QED BY <1>2, <2>1, VarTypes
<1>4. d.from \in Bridge /\ (d.cmd = "BPDU" => d.port \in PortNo /\ d.pdu \in Pdu)
  BY <1>2 DEF ToMngr
<1>5. /\ br_lst' \in Seq(Bridge) /\ link' \in [End -> End \cup {None}]
      /\ out' \in Seq(ToBridge)
  <2>1. CASE d.cmd = "BRIDGE_HANDSHAKE"
    <3>1. RegisterBridge(d.from) BY <2>1 DEF ReadUid
    <3> QED BY <1>4, <3>1, RegisterType, VarTypes
  <2>2. CASE d.cmd = "BRIDGE_SHUTDOWN"
    <3>1. UnregisterBridge(PidOf[d.from]) BY <2>2 DEF ReadUid
    <3> QED BY <3>1, UnregisterType, VarTypes
  <2>3. CASE d.cmd = "BPDU"
    <3>1. RxBpdu(d.from, d.port, d.pdu) BY <2>3 DEF ReadUid
    <3> QED BY <1>4, <2>3, <3>1, RxBpduType, VarTypes
  <2>4. d.cmd \in {"BRIDGE_HANDSHAKE", "BRIDGE_SHUTDOWN", "BPDU"} BY <1>2 DEF ToMngr
  <2> QED BY <2>1, <2>2, <2>3, <2>4
<1> QED BY <1>2, <1>3, <1>5, VarTypes DEF ReadUid, TypeOK

\* link_bridges.
LEMMA LinkBridgesType ==
  ASSUME TypeOK, NEW n1, NEW p1 \in PortNo, NEW n2, NEW p2 \in PortNo,
         LinkBridges(n1, p1, n2, p2)
  PROVE  TypeOK'
<1>1. PICK i \in DOMAIN br_lst, j \in DOMAIN br_lst :
         /\ link' = [link EXCEPT ![<<br_lst[i], p1>>] = <<br_lst[j], p2>>,
                                ![<<br_lst[j], p2>>] = <<br_lst[i], p1>>]
         /\ out' = <<Connect(<<br_lst[i], p1>>, <<br_lst[j], p2>>),
                     Connect(<<br_lst[j], p2>>, <<br_lst[i], p1>>)>>
  BY DEF LinkBridges
<1> DEFINE e == <<br_lst[i], p1>>
           f == <<br_lst[j], p2>>
<1>2. e \in End /\ f \in End BY EntryEnd
<1> HIDE DEF e, f
<1>3. Connect(e, f) \in ToBridge /\ Connect(f, e) \in ToBridge
  BY <1>2 DEF Connect, ToBridge, End
<1>4. out' \in Seq(ToBridge) BY <1>1, <1>3, ShortSeqs DEF e, f
<1>5. link' = [link EXCEPT ![e] = f, ![f] = e] BY <1>1 DEF e, f
<1>6. link' \in [End -> End \cup {None}] BY <1>2, <1>5, VarTypes
<1> QED BY <1>4, <1>6, VarTypes DEF LinkBridges, Command, TypeOK

\* unlink_port.
LEMMA UnlinkPortType ==
  ASSUME TypeOK, NEW n, NEW p \in PortNo, UnlinkPort(n, p)
  PROVE  TypeOK'
<1>1. PICK i \in DOMAIN br_lst :
         /\ link[<<br_lst[i], p>>] # None
         /\ out' = FarewellFrom(<<br_lst[i], p>>)
         /\ link' = [link EXCEPT ![<<br_lst[i], p>>] = None,
                                ![link[<<br_lst[i], p>>]] = None]
  BY DEF UnlinkPort
<1> DEFINE e == <<br_lst[i], p>>
           f == link[e]
<1>2. e \in End BY EntryEnd
<1>3. f \in End BY <1>1, <1>2, VarTypes
<1>4. link[f] \in End \cup {None} BY <1>3, VarTypes
<1> HIDE DEF e
<1>5. FarewellFrom(e) \in Seq(ToBridge)
  <2>1. Disconnect(f) \in ToBridge BY <1>3 DEF Disconnect, ToBridge, End
  <2>2. CASE f = e \/ link[f] = None
    BY <2>1, <2>2, ShortSeqs DEF FarewellFrom
  <2>3. CASE ~(f = e \/ link[f] = None)
    <3>1. link[f] \in End BY <1>4, <2>3
    <3>2. Disconnect(link[f]) \in ToBridge BY <3>1 DEF Disconnect, ToBridge, End
    <3> QED BY <2>1, <2>3, <3>2, ShortSeqs DEF FarewellFrom
  <2> QED BY <2>2, <2>3
<1>6. out' = FarewellFrom(e) /\ link' = [link EXCEPT ![e] = None, ![f] = None]
  BY <1>1 DEF e
<1>7. link' \in [End -> End \cup {None}] BY <1>2, <1>3, <1>6, VarTypes
<1> QED BY <1>5, <1>6, <1>7, VarTypes DEF UnlinkPort, Command, TypeOK

\* One send of a handler.
LEMMA DeliverType ==
  ASSUME TypeOK, Deliver
  PROVE  TypeOK'
<1> DEFINE d == Head(out)
<1>1. out \in Seq(ToBridge) /\ out # <<>> BY VarTypes DEF Deliver
<1>2. d \in ToBridge /\ out' \in Seq(ToBridge) BY <1>1, TailType DEF Deliver
<1>3. d.to \in Bridge BY <1>2 DEF ToBridge
<1>4. inbox' \in [Bridge -> Seq(ToBridge)] /\ \A b \in Bridge : Len(inbox'[b]) <= Cap
  <2>1. CASE Alive(d.to)
    <3>1. /\ inbox' = [inbox EXCEPT ![d.to] = Append(@, d)]
          /\ Len(inbox[d.to]) < Cap
      BY <2>1 DEF Deliver
    <3>2. inbox[d.to] \in Seq(ToBridge) BY <1>3, VarTypes
    <3>3. /\ Append(inbox[d.to], d) \in Seq(ToBridge)
          /\ Len(Append(inbox[d.to], d)) = Len(inbox[d.to]) + 1
      BY <1>2, <3>2, AppendProperties
    <3>4. Len(inbox[d.to]) \in Nat /\ Cap \in Nat BY <3>2, LenProperties, MngrAssumption
    <3>5. Len(Append(inbox[d.to], d)) <= Cap BY <3>1, <3>3, <3>4
    <3> HIDE DEF d
    <3>6. inbox' \in [Bridge -> Seq(ToBridge)] BY <3>1, <3>3, VarTypes
    <3>7. \A b \in Bridge : Len(inbox'[b]) <= Cap BY <3>1, <3>5, VarTypes
    <3> QED BY <3>6, <3>7
  <2>2. CASE ~Alive(d.to)
    <3>1. inbox' = inbox BY <2>2 DEF Deliver
    <3> QED BY <3>1, VarTypes
  <2> QED BY <2>1, <2>2
<1> QED BY <1>2, <1>4, VarTypes DEF Deliver, TypeOK

\* mngr_shutdown tells every listed bridge.
LEMMA QuitManagerType ==
  ASSUME TypeOK, QuitManager
  PROVE  TypeOK'
<1>1. \A i \in DOMAIN br_lst : Shutdown(br_lst[i]) \in ToBridge
  <2>1. 0 \in PortNo BY MngrAssumption DEF PortNo
  <2>2. \A i \in DOMAIN br_lst : br_lst[i] \in Bridge BY <2>1, EntryEnd
  <2> QED BY <2>1, <2>2 DEF Shutdown, ToBridge
<1>2. DOMAIN br_lst = 1 .. Len(br_lst) /\ Len(br_lst) \in Nat BY VarTypes, LenProperties
<1>3. out' = [i \in 1 .. Len(br_lst) |-> Shutdown(br_lst[i])] BY <1>2 DEF QuitManager
<1>4. out' \in Seq(ToBridge) BY <1>1, <1>2, <1>3
<1>5. mngr' = "leaving" BY DEF QuitManager
<1> QED BY <1>4, <1>5, VarTypes DEF QuitManager, TypeOK

\* The manager has ended, or was killed.
LEMMA ManagerGoneType ==
  ASSUME TypeOK, ManagerGone
  PROVE  TypeOK'
<1>1. Len(<<>>) = 0 /\ Cap \in Nat BY MngrAssumption
<1>2. queue' \in Seq(ToMngr) /\ Len(queue') <= Cap BY <1>1, EmptySeq DEF ManagerGone
<1>3. br_lst' \in Seq(Bridge) /\ out' \in Seq(ToBridge) BY EmptySeq DEF ManagerGone
<1>4. link' \in [End -> End \cup {None}] BY DEF ManagerGone
<1> QED BY <1>2, <1>3, <1>4, VarTypes DEF ManagerGone, TypeOK

\* The initial states.
LEMMA InitType == Init => TypeOK
<1> SUFFICES ASSUME Init PROVE TypeOK OBVIOUS
<1>1. Len(<<>>) = 0 /\ Cap \in Nat BY MngrAssumption
<1> QED BY <1>1, EmptySeq DEF Init, TypeOK

\* Every step keeps the types.
LEMMA TypeStep == TypeOK /\ [Next]_vars => TypeOK'
<1> SUFFICES ASSUME TypeOK, [Next]_vars PROVE TypeOK' OBVIOUS
<1>1. ASSUME NEW b \in Bridge, BridgeStep(b) PROVE TypeOK'
  BY <1>1, StartType, StartCallType, TransmitType, ReadType, QuitType, SayByeType, CrashType
  DEF BridgeStep
<1>2. CASE ReadUid BY <1>2, ReadUidType
<1>3. CASE Deliver BY <1>3, DeliverType
<1>4. CASE Operator
  <2>1. ASSUME NEW l \in Links, LinkBridges(l[1], l[2], l[3], l[4]) PROVE TypeOK'
    <3>1. l[2] \in PortNo /\ l[4] \in PortNo BY MngrAssumption DEF PortNo
    <3> QED BY <2>1, <3>1, LinkBridgesType
  <2>2. ASSUME NEW n \in Pid, NEW p \in PortNo, UnlinkPort(n, p) PROVE TypeOK'
    BY <2>2, UnlinkPortType
  <2>3. CASE QuitManager BY <2>3, QuitManagerType
  <2> QED BY <1>4, <2>1, <2>2, <2>3 DEF Operator
<1>5. CASE ManagerReturns \/ ManagerCrash
  BY <1>5, ManagerGoneType DEF ManagerReturns, ManagerCrash
<1>6. CASE ManagerStart BY <1>6, VarTypes DEF ManagerStart, TypeOK
<1>7. CASE UNCHANGED vars BY <1>7, VarTypes DEF vars, TypeOK
<1> QED BY <1>1, <1>2, <1>3, <1>4, <1>5, <1>6, <1>7 DEF Next

\* In every reachable state of the manager, its sockets and the bridges each
\* variable is in its range, and no socket holds more datagrams than it can.
THEOREM MngrTypeCorrect == Spec => []TypeOK
<1> QED BY InitType, TypeStep, PTL DEF Spec

-----------------------------------------------------------------------------
(* The table of links.  TableIsMatching is inductive together with the types:  *)
(* an entry that is freed takes with it every port that has it as partner,     *)
(* because the partner of such a port is one of its own ports.                *)

TableInv == TypeOK /\ TableIsMatching

\* The entries of the list are its range.
LEMMA RangeOfList ==
  ASSUME TypeOK, NEW i \in DOMAIN br_lst
  PROVE  br_lst[i] \in Range(br_lst)
BY DEF Range

\* A link and its two ends.
LEMMA LinkEnds ==
  ASSUME TableInv, NEW e \in End, link[e] # None
  PROVE  link[e] \in End /\ link[link[e]] = e
BY VarTypes DEF TableInv, TableIsMatching

\* A step that changes no link and takes out no entry leaves the table a matching.
LEMMA TableSame ==
  ASSUME TableInv, link' = link, Range(br_lst) \subseteq Range(br_lst')
  PROVE  TableIsMatching'
BY DEF TableInv, TableIsMatching

\* The far end of a port of b is cleared with b.
LEMMA FarEndDrops ==
  ASSUME TableInv, NEW b \in Bridge, NEW e \in End, link[e] # None, link[e][1] = b,
         e[1] # b
  PROVE  \E p \in Drops(b) : link[<<b, p>>] = e
<1>1. link[e] \in End /\ link[link[e]] = e BY LinkEnds
<1>2. PICK p \in PortNo : link[e] = <<b, p>> BY <1>1 DEF End
<1>3. link[<<b, p>>] = e BY <1>1, <1>2
<1>4. ASSUME NEW q \in 0 .. p - 1, link[<<b, q>>] = <<b, p>> PROVE FALSE
  <2>1. q \in PortNo
    <3>1. p \in 0 .. Ports - 1 BY DEF PortNo
    <3> QED BY <3>1, MngrAssumption DEF PortNo
  <2>2. <<b, q>> \in End /\ link[<<b, q>>] # None
    BY <1>1, <1>2, <1>4, <2>1 DEF End, None
  <2>3. link[link[<<b, q>>]] = <<b, q>> BY <2>2, LinkEnds
  <2>4. e = <<b, q>> BY <1>3, <1>4, <2>3
  <2> QED BY <2>4
<1>5. link[<<b, p>>] # None
  <2>1. e # None BY DEF End, None
  <2> QED BY <1>3, <2>1
<1>6. p \in Drops(b) BY <1>4, <1>5 DEF Drops
<1> QED BY <1>3, <1>6

\* unregister_bridge keeps the table a matching.
LEMMA UnregisterTable ==
  ASSUME TableInv, NEW n, UnregisterBridge(n)
  PROVE  TableIsMatching'
<1>1. CASE Lists(n) = {}
  <2>1. br_lst' = br_lst /\ link' = link BY <1>1 DEF UnregisterBridge
  <2> QED BY <2>1, TableSame
<1>2. CASE Lists(n) # {}
  <2>1. PICK i \in DOMAIN br_lst : br_lst' = RemoveAt(br_lst, i) /\ link' = Unlinked(br_lst[i])
    BY <1>2 DEF UnregisterBridge
  <2> DEFINE b == br_lst[i]
  <2>2. b \in Bridge /\ br_lst \in Seq(Bridge)
    BY VarTypes, LenProperties, ElementOfSeq DEF TableInv
  <2>3. \A c \in Range(br_lst) : c # b => c \in Range(br_lst')
    <3> SUFFICES ASSUME NEW j \in DOMAIN br_lst, br_lst[j] # b
                 PROVE  br_lst[j] \in Range(br_lst')
      BY DEF Range
    <3>1. /\ br_lst' \in Seq(Bridge) /\ Len(br_lst') = Len(br_lst) - 1
          /\ \A k \in 1 .. Len(br_lst) - 1 :
                br_lst'[k] = IF k < i THEN br_lst[k] ELSE br_lst[k + 1]
      BY <2>1, <2>2, RemoveAtType
    <3>2. DOMAIN br_lst = 1 .. Len(br_lst) /\ Len(br_lst) \in Nat BY <2>2, LenProperties
    <3>3. DOMAIN br_lst' = 1 .. Len(br_lst) - 1 BY <3>1, LenProperties
    <3>4. CASE j < i
      <4>1. j \in 1 .. Len(br_lst) - 1 BY <3>2, <3>4
      <4>2. br_lst'[j] = br_lst[j] BY <3>1, <3>4, <4>1
      <4> QED BY <3>3, <4>1, <4>2 DEF Range
    <3>5. CASE j > i
      <4>1. j - 1 \in 1 .. Len(br_lst) - 1 /\ ~(j - 1 < i) /\ j - 1 + 1 = j
        BY <3>2, <3>5
      <4>2. br_lst'[j - 1] = br_lst[j] BY <3>1, <4>1
      <4> QED BY <3>3, <4>1, <4>2 DEF Range
    <3>6. j # i OBVIOUS
    <3> QED BY <3>2, <3>4, <3>5, <3>6
  <2> SUFFICES ASSUME NEW e \in End, link'[e] # None
               PROVE  /\ e[1] \in Range(br_lst') /\ link'[e][1] \in Range(br_lst')
                      /\ link'[link'[e]] = e
    BY DEF TableIsMatching
  <2> HIDE DEF b
  <2>4. link' = Unlinked(b) BY <2>1 DEF b
  <2>5. e[1] # b /\ (~\E p \in Drops(b) : link[<<b, p>>] = e) /\ link'[e] = link[e]
    BY <2>4 DEF Unlinked
  <2>6. link[e] # None BY <2>5
  <2>7. link[e] \in End /\ link[link[e]] = e BY <2>6, LinkEnds DEF TableInv
  <2>8. link[e][1] # b BY <2>2, <2>5, <2>6, FarEndDrops
  <2>9. e[1] \in Range(br_lst) /\ link[e][1] \in Range(br_lst)
    BY <2>6 DEF TableInv, TableIsMatching
  <2>10. ASSUME NEW p \in Drops(b), link[<<b, p>>] = link[e] PROVE FALSE
    <3>1. <<b, p>> \in End BY <2>2 DEF Drops, End
    <3>2. link[link[<<b, p>>]] = <<b, p>> BY <2>6, <2>10, <3>1, LinkEnds
    <3> QED BY <2>5, <2>7, <2>10, <3>2
  <2>11. link'[link[e]] = link[link[e]] BY <2>4, <2>7, <2>8, <2>10 DEF Unlinked
  <2> QED BY <2>3, <2>5, <2>7, <2>8, <2>9, <2>11
<1> QED BY <1>1, <1>2

\* link_bridges takes both ends out of their old cables first.
LEMMA LinkBridgesTable ==
  ASSUME TableInv, NEW n1, NEW p1 \in PortNo, NEW n2, NEW p2 \in PortNo,
         LinkBridges(n1, p1, n2, p2)
  PROVE  TableIsMatching'
<1>1. PICK i \in DOMAIN br_lst, j \in DOMAIN br_lst :
         /\ link[<<br_lst[i], p1>>] = None /\ link[<<br_lst[j], p2>>] = None
         /\ link' = [link EXCEPT ![<<br_lst[i], p1>>] = <<br_lst[j], p2>>,
                                ![<<br_lst[j], p2>>] = <<br_lst[i], p1>>]
  BY DEF LinkBridges
<1> DEFINE e == <<br_lst[i], p1>>
           f == <<br_lst[j], p2>>
<1>2. e \in End /\ f \in End BY EntryEnd DEF TableInv
<1>3. e[1] \in Range(br_lst) /\ f[1] \in Range(br_lst) BY RangeOfList DEF TableInv
<1>4. br_lst' = br_lst BY DEF LinkBridges, Command
<1>5. link[e] = None /\ link[f] = None /\ link' = [link EXCEPT ![e] = f, ![f] = e]
  BY <1>1
<1> HIDE DEF e, f
<1>6. link'[e] = f /\ link'[f] = e /\ \A x \in End : x # e /\ x # f => link'[x] = link[x]
  BY <1>2, <1>5, VarTypes DEF TableInv
<1> SUFFICES ASSUME NEW x \in End, link'[x] # None
             PROVE  /\ x[1] \in Range(br_lst) /\ link'[x][1] \in Range(br_lst)
                    /\ link'[link'[x]] = x
  BY <1>4 DEF TableIsMatching
<1>7. CASE x = e \/ x = f BY <1>3, <1>6, <1>7
<1>8. CASE x # e /\ x # f
  <2>1. link'[x] = link[x] /\ link[x] # None BY <1>6, <1>8
  <2>2. link[x] \in End /\ link[link[x]] = x BY <2>1, LinkEnds
  <2>3. x # None BY DEF End, None
  <2>4. link[x] # e /\ link[x] # f BY <1>5, <2>2, <2>3
  <2>5. link'[link[x]] = x BY <1>6, <2>2, <2>4
  <2> QED BY <2>1, <2>5 DEF TableInv, TableIsMatching
<1> QED BY <1>7, <1>8

\* unlink_port clears both ends.
LEMMA UnlinkPortTable ==
  ASSUME TableInv, NEW n, NEW p \in PortNo, UnlinkPort(n, p)
  PROVE  TableIsMatching'
<1>1. PICK i \in DOMAIN br_lst :
         /\ link[<<br_lst[i], p>>] # None
         /\ link' = [link EXCEPT ![<<br_lst[i], p>>] = None,
                                ![link[<<br_lst[i], p>>]] = None]
  BY DEF UnlinkPort
<1> DEFINE e == <<br_lst[i], p>>
           f == link[e]
<1>2. e \in End BY EntryEnd DEF TableInv
<1>3. f \in End /\ link[f] = e BY <1>1, <1>2, LinkEnds
<1>4. br_lst' = br_lst BY DEF UnlinkPort, Command
<1>5. link' = [link EXCEPT ![e] = None, ![f] = None] BY <1>1
<1> HIDE DEF e
<1> SUFFICES ASSUME NEW x \in End, link'[x] # None
             PROVE  /\ x[1] \in Range(br_lst) /\ link'[x][1] \in Range(br_lst)
                    /\ link'[link'[x]] = x
  BY <1>4 DEF TableIsMatching
<1>6. x # e /\ x # f /\ link'[x] = link[x]
  BY <1>2, <1>3, <1>5, VarTypes DEF TableInv
<1>7. link[x] \in End /\ link[link[x]] = x BY <1>6, LinkEnds
<1>8. link[x] # e /\ link[x] # f BY <1>3, <1>6, <1>7
<1>9. link'[link[x]] = x BY <1>2, <1>3, <1>5, <1>7, <1>8, VarTypes DEF TableInv
<1> QED BY <1>6, <1>9 DEF TableInv, TableIsMatching

\* Whatever the manager reads, the table stays a matching.
LEMMA ReadUidTable ==
  ASSUME TableInv, ReadUid
  PROVE  TableIsMatching'
<1> DEFINE d == Head(queue)
<1>1. d \in ToMngr
  <2>1. queue \in Seq(ToMngr) /\ queue # <<>> BY VarTypes DEF ReadUid, TableInv
  <2> QED BY <2>1, TailType
<1>2. d.from \in Bridge /\ d.cmd \in {"BRIDGE_HANDSHAKE", "BRIDGE_SHUTDOWN", "BPDU"}
  BY <1>1 DEF ToMngr
<1>3. CASE d.cmd = "BRIDGE_HANDSHAKE"
  <2>1. br_lst' = <<d.from>> \o br_lst /\ link' = link
    BY <1>3 DEF ReadUid, RegisterBridge
  <2>2. br_lst \in Seq(Bridge) /\ <<d.from>> \in Seq(Bridge)
    BY <1>2, VarTypes DEF TableInv
  <2> HIDE DEF d
  <2>3. ASSUME NEW j \in DOMAIN br_lst PROVE br_lst[j] \in Range(br_lst')
    <3>1. j \in 1 .. Len(br_lst) /\ Len(br_lst) \in Nat BY <2>2, LenProperties
    <3>2. br_lst' \in Seq(Bridge) /\ Len(br_lst') = Len(br_lst) + 1
          /\ br_lst'[j + 1] = br_lst[j]
      BY <2>1, <2>2, <3>1
    <3>3. j + 1 \in DOMAIN br_lst' BY <3>1, <3>2, LenProperties
    <3> QED BY <3>2, <3>3 DEF Range
  <2> QED BY <2>1, <2>3, TableSame DEF Range
<1>4. CASE d.cmd = "BRIDGE_SHUTDOWN"
  <2>1. UnregisterBridge(PidOf[d.from]) BY <1>4 DEF ReadUid
  <2> QED BY <2>1, UnregisterTable
<1>5. CASE d.cmd = "BPDU"
  <2>1. RxBpdu(d.from, d.port, d.pdu) BY <1>5 DEF ReadUid
  <2>2. br_lst' = br_lst /\ link' = link BY <2>1 DEF RxBpdu
  <2> QED BY <2>2, TableSame
<1> QED BY <1>2, <1>3, <1>4, <1>5

\* Every step keeps the table sound.
LEMMA TableStep == TableInv /\ [Next]_vars => TableInv'
<1> SUFFICES ASSUME TableInv, [Next]_vars PROVE TableIsMatching'
  BY TypeStep DEF TableInv
<1>1. ASSUME UNCHANGED <<br_lst, link>> PROVE TableIsMatching' BY <1>1, TableSame
<1>2. ASSUME NEW b \in Bridge, BridgeStep(b) PROVE TableIsMatching'
  <2>1. UNCHANGED mngrVars
    BY <1>2 DEF BridgeStep, Start, StartCall, Transmit, Read, Quit, SayBye, Crash, mngrVars
  <2> QED BY <1>1, <2>1 DEF mngrVars
<1>3. CASE ReadUid BY <1>3, ReadUidTable
<1>4. CASE Deliver \/ ManagerStart \/ UNCHANGED vars
  BY <1>1, <1>4 DEF Deliver, ManagerStart, vars
<1>5. CASE Operator
  <2>1. ASSUME NEW l \in Links, LinkBridges(l[1], l[2], l[3], l[4]) PROVE TableIsMatching'
    <3>1. l[2] \in PortNo /\ l[4] \in PortNo BY MngrAssumption DEF PortNo
    <3> QED BY <2>1, <3>1, LinkBridgesTable
  <2>2. ASSUME NEW n \in Pid, NEW p \in PortNo, UnlinkPort(n, p) PROVE TableIsMatching'
    BY <2>2, UnlinkPortTable
  <2>3. CASE QuitManager BY <1>1, <2>3 DEF QuitManager
  <2> QED BY <1>5, <2>1, <2>2, <2>3 DEF Operator
<1>6. CASE ManagerReturns \/ ManagerCrash
  <2>1. link' = [e \in End |-> None] BY <1>6 DEF ManagerReturns, ManagerCrash, ManagerGone
  <2> QED BY <2>1 DEF TableIsMatching
<1> QED BY <1>2, <1>3, <1>4, <1>5, <1>6 DEF Next

\* A manager that has just started knows no bridge and no link.
LEMMA TableInit == Init => TableInv
BY InitType DEF Init, TableInv, TableIsMatching

\* bridge_partner never points at an entry that was freed, and the two ends of a
\* link always point at each other, through register_bridge, unregister_bridge,
\* link_bridges and unlink_port in any order, two entries with one pid included.
THEOREM TableMatches == Spec => []TableIsMatching
<1>1. TableInv => TableIsMatching BY DEF TableInv
<1> QED BY <1>1, TableInit, TableStep, PTL DEF Spec

-----------------------------------------------------------------------------
(***************************************************************************)
(* FramesComeFromPeer for every set of bridges, every numbering of them,     *)
(* every number of ports and every size of the sockets: the next LACPDU a    *)
(* bridge reads is from the port whose cable it was last told of.            *)
(*                                                                         *)
(* Two arguments meet where the manager routes a LACPDU.  Behind it, the    *)
(* order of its socket: what a process has said is read after its handshake, *)
(* and that after everything an earlier process with its pid has said, so    *)
(* the first entry with the pid is the sender's.  Ahead of it, the order of  *)
(* the bridge's socket: after all that is on its way to a port that is      *)
(* linked, its bridge knows whose cable it has.                             *)
(***************************************************************************)

\* Processes that run have different pids.
AloneInv ==
    \A b, c \in Bridge : Alive(b) /\ Alive(c) /\ PidOf[b] = PidOf[c] => b = c

\* A process that has not started is unknown.
KnownInv ==
    /\ \A i \in DOMAIN queue : life[queue[i].from] # "new"
    /\ \A i \in DOMAIN br_lst : life[br_lst[i]] # "new"
    /\ \A i \in DOMAIN out : life[out[i].to] # "new"

-----------------------------------------------------------------------------
(* The manager's socket *)

\* Bridge b has said what is at place n, or what it says next will be there.
Speaks(b, n) ==
    \/ n \in DOMAIN queue /\ queue[n].from = b
    \/ n = Len(queue) + 1 /\ Alive(b)

\* The handshake of b is behind place j and not behind place n.
Handshake(b, j, n) == \E k \in DOMAIN queue : j < k /\ k <= n /\ queue[k] = Hello(b)

\* The first entry with the pid of b, if there is one, is that of b.
FirstIs(b) ==
    \A i \in DOMAIN br_lst : PidOf[br_lst[i]] = PidOf[b] =>
       \E j \in DOMAIN br_lst : j <= i /\ br_lst[j] = b

\* What stands at place n is read when b can be found by its pid.
Named(b, n) ==
    /\ \A j \in DOMAIN queue :
          j < n /\ queue[j].from # b /\ PidOf[queue[j].from] = PidOf[b] => Handshake(b, j, n)
    /\ \A j \in DOMAIN queue : j < n => queue[j] # Bye(b)
    /\ ~Handshake(b, 0, n) => FirstIs(b)

QueueInv == \A b \in Bridge : \A n \in Nat \ {0} : Speaks(b, n) => Named(b, n)

-----------------------------------------------------------------------------
(* The sockets of the bridges *)

Control(d, p) == d.cmd \in {"CONNECT", "DISCONNECT"} /\ d.port = p

\* A bridge that has been told v of port p knows w after the first n of s.
Told(s, n, p, v, w) ==
    \/ v = w /\ \A k \in 1 .. n : ~Control(s[k], p)
    \/ \E j \in 1 .. n : /\ Control(s[j], p) /\ s[j].from = w
                         /\ \A k \in j + 1 .. n : ~Control(s[k], p)

\* What the bridge of port e knows after all that is in its socket.
Knows(e, w) == Told(inbox[e[1]], Len(inbox[e[1]]), e[2], peer[e], w)

InboxInv ==
    \A b \in Bridge : \A i \in DOMAIN inbox[b] :
       LET d == inbox[b][i]
       IN  d.cmd = "BPDU" => Told(inbox[b], i - 1, d.port, peer[<<b, d.port>>], d.from)

\* What the handler has still to send is of use where it arrives.
OutInv ==
    \A j \in DOMAIN out :
       LET d == out[j]
           e == <<d.to, d.port>>
       IN  /\ d.cmd = "BPDU" => Len(out) = 1 /\ (Alive(d.to) => Knows(e, d.from))
           /\ Control(d, d.port) /\ link[e] # None => d.from = link[e]

\* The far end of a link is known, or about to be told.
LinkInv ==
    \A e \in End :
       link[e] # None /\ Alive(e[1])
       => \/ \E j \in DOMAIN out : out[j].to = e[1] /\ Control(out[j], e[2])
          \/ Knows(e, link[e])

FrameInv == InboxInv /\ OutInv /\ LinkInv

FramesInv == TableInv /\ AloneInv /\ KnownInv /\ QueueInv /\ FrameInv

-----------------------------------------------------------------------------
(* Reading in order *)

\* With one item more to read.
LEMMA ToldAppend ==
  ASSUME NEW S, NEW s \in Seq(S), NEW d \in S, NEW p, NEW v, NEW w
  PROVE  /\ Control(d, p) => Told(Append(s, d), Len(s) + 1, p, v, d.from)
         /\ ~Control(d, p) /\ Told(s, Len(s), p, v, w) => Told(Append(s, d), Len(s) + 1, p, v, w)
         /\ \A n \in 0 .. Len(s) : Told(Append(s, d), n, p, v, w) <=> Told(s, n, p, v, w)
<1> DEFINE t == Append(s, d)
           m == Len(s)
<1>1. m \in Nat /\ t[m + 1] = d /\ \A k \in 1 .. m : t[k] = s[k]
  BY AppendProperties, LenProperties
<1> HIDE DEF t, m
<1>2. ASSUME Control(d, p) PROVE Told(t, m + 1, p, v, d.from)
  <2>1. m + 1 \in 1 .. m + 1 /\ Control(t[m + 1], p) /\ t[m + 1].from = d.from
    BY <1>1, <1>2
  <2>2. \A k \in (m + 1) + 1 .. m + 1 : ~Control(t[k], p) BY <1>1
  <2> QED BY <2>1, <2>2 DEF Told
<1>3. ASSUME ~Control(d, p), Told(s, m, p, v, w) PROVE Told(t, m + 1, p, v, w)
  <2>1. CASE v = w /\ \A k \in 1 .. m : ~Control(s[k], p)
    <3>1. \A k \in 1 .. m + 1 : ~Control(t[k], p) BY <1>1, <1>3, <2>1
    <3> QED BY <2>1, <3>1 DEF Told
  <2>2. ASSUME NEW j \in 1 .. m, Control(s[j], p), s[j].from = w,
               \A k \in j + 1 .. m : ~Control(s[k], p)
        PROVE  Told(t, m + 1, p, v, w)
    <3>1. j \in 1 .. m + 1 /\ t[j] = s[j] BY <1>1
    <3>2. \A k \in j + 1 .. m + 1 : ~Control(t[k], p) BY <1>1, <1>3, <2>2
    <3> QED BY <2>2, <3>1, <3>2 DEF Told
  <2> QED BY <1>3, <2>1, <2>2 DEF Told
<1>4. ASSUME NEW n \in 0 .. m PROVE Told(t, n, p, v, w) <=> Told(s, n, p, v, w)
  <2>1. \A k \in 1 .. n : t[k] = s[k] BY <1>1
  <2>2. \A j \in 1 .. n : \A k \in j + 1 .. n : k \in 1 .. n BY <1>1
  <2>3. (\A k \in 1 .. n : ~Control(t[k], p)) <=> (\A k \in 1 .. n : ~Control(s[k], p))
    BY <2>1
  <2>4. \A j \in 1 .. n : (\A k \in j + 1 .. n : ~Control(t[k], p))
                          <=> (\A k \in j + 1 .. n : ~Control(s[k], p))
    BY <2>1, <2>2
  <2> QED BY <2>1, <2>3, <2>4 DEF Told
<1> QED BY <1>2, <1>3, <1>4 DEF t, m

\* With the first item read.
LEMMA ToldTail ==
  ASSUME NEW S, NEW s \in Seq(S), s # <<>>, NEW p, NEW v, NEW w, NEW n \in 1 .. Len(s),
         Told(s, n, p, v, w)
  PROVE  Told(Tail(s), n - 1, p, IF Control(Head(s), p) THEN Head(s).from ELSE v, w)
<1> DEFINE t == Tail(s)
           x == IF Control(Head(s), p) THEN Head(s).from ELSE v
<1>1. /\ Len(s) \in Nat /\ n \in Nat /\ n >= 1 /\ Head(s) = s[1]
      /\ \A k \in 1 .. n - 1 : t[k] = s[k + 1]
  <2>1. Len(s) \in Nat BY LenProperties
  <2>2. Len(t) = Len(s) - 1 /\ \A k \in 1 .. Len(t) : t[k] = s[k + 1]
    BY HeadTailProperties
  <2> QED BY <2>1, <2>2
<1> HIDE DEF t
<1>2. CASE v = w /\ \A k \in 1 .. n : ~Control(s[k], p)
  <2>1. x = w BY <1>1, <1>2
  <2>2. \A k \in 1 .. n - 1 : ~Control(t[k], p)
    <3>1. \A k \in 1 .. n - 1 : k + 1 \in 1 .. n BY <1>1
    <3> QED BY <1>1, <1>2, <3>1
  <2> QED BY <2>1, <2>2 DEF Told, t
<1>3. ASSUME NEW j \in 1 .. n, Control(s[j], p), s[j].from = w,
             \A k \in j + 1 .. n : ~Control(s[k], p)
      PROVE  Told(t, n - 1, p, x, w)
  <2>1. CASE j = 1
    <3>1. x = w BY <1>1, <1>3, <2>1
    <3>2. \A k \in 1 .. n - 1 : k + 1 \in j + 1 .. n BY <1>1, <2>1
    <3>3. \A k \in 1 .. n - 1 : ~Control(t[k], p) BY <1>1, <1>3, <3>2
    <3> QED BY <3>1, <3>3 DEF Told
  <2>2. CASE j > 1
    <3>1. j - 1 \in 1 .. n - 1 /\ (j - 1) + 1 = j BY <1>1, <2>2
    <3>2. t[j - 1] = s[j] BY <1>1, <3>1
    <3>3. \A k \in (j - 1) + 1 .. n - 1 : k \in 1 .. n - 1 /\ k + 1 \in j + 1 .. n
      BY <1>1, <2>2
    <3>4. \A k \in (j - 1) + 1 .. n - 1 : ~Control(t[k], p) BY <1>1, <1>3, <3>3
    <3> QED BY <1>3, <3>1, <3>2, <3>4 DEF Told
  <2>3. j = 1 \/ j > 1 BY <1>1
  <2> QED BY <2>1, <2>2, <2>3
<1> QED BY <1>2, <1>3 DEF Told, t

\* A LACPDU that comes next comes from the port it is known to come from.
LEMMA InboxGivesFrames == TypeOK /\ InboxInv => FramesComeFromPeer
<1> SUFFICES ASSUME TypeOK, InboxInv, NEW b \in Bridge, inbox[b] # <<>>,
                    Head(inbox[b]).cmd = "BPDU"
             PROVE  Head(inbox[b]).from = peer[<<b, Head(inbox[b]).port>>]
  BY DEF FramesComeFromPeer
<1>1. inbox[b] \in Seq(ToBridge) BY VarTypes
<1>2. 1 \in DOMAIN inbox[b] /\ Head(inbox[b]) = inbox[b][1]
  BY <1>1, LenProperties, HeadTailProperties, EmptySeq
<1>3. Told(inbox[b], 1 - 1, inbox[b][1].port, peer[<<b, inbox[b][1].port>>], inbox[b][1].from)
  BY <1>2 DEF InboxInv
<1>4. 1 .. 1 - 1 = {} OBVIOUS
<1> QED BY <1>2, <1>3, <1>4 DEF Told

-----------------------------------------------------------------------------
(* FrameInv: steps of the bridges *)

\* What the handler has still to send names a port of a bridge.
LEMMA OutItem ==
  ASSUME TypeOK, NEW j \in DOMAIN out
  PROVE  /\ out[j] \in ToBridge /\ out[j].to \in Bridge /\ out[j].port \in PortNo
         /\ <<out[j].to, out[j].port>> \in End
<1>1. out \in Seq(ToBridge) BY VarTypes
<1>2. out[j] \in ToBridge BY <1>1, ElementOfSeq, LenProperties
<1> QED BY <1>2 DEF ToBridge, End

\* What stands in a socket of a bridge names a port of that bridge.
LEMMA InboxItem ==
  ASSUME TypeOK, NEW b \in Bridge, NEW i \in DOMAIN inbox[b]
  PROVE  /\ inbox[b][i] \in ToBridge /\ inbox[b][i].port \in PortNo
         /\ <<b, inbox[b][i].port>> \in End
         /\ i \in 1 .. Len(inbox[b]) /\ Len(inbox[b]) \in Nat
<1>1. inbox[b] \in Seq(ToBridge) BY VarTypes
<1>2. inbox[b][i] \in ToBridge /\ i \in 1 .. Len(inbox[b]) /\ Len(inbox[b]) \in Nat
  BY <1>1, ElementOfSeq, LenProperties
<1> QED BY <1>2 DEF ToBridge, End

\* A step that sends and reads nothing and brings nobody to life.
LEMMA FrameSame ==
  ASSUME FrameInv, TypeOK, UNCHANGED <<link, out, inbox, peer>>,
         \A b \in Bridge : Alive(b)' => Alive(b)
  PROVE  FrameInv'
<1>1. InboxInv' BY DEF FrameInv, InboxInv
<1>2. \A e, w : Knows(e, w)' <=> Knows(e, w) BY DEF Knows
<1>3. OutInv'
  <2> SUFFICES ASSUME NEW j \in DOMAIN out
               PROVE  LET d == out[j]
                          e == <<d.to, d.port>>
                      IN  /\ d.cmd = "BPDU" => Len(out) = 1 /\ (Alive(d.to)' => Knows(e, d.from)')
                          /\ Control(d, d.port) /\ link[e] # None => d.from = link[e]
    BY DEF OutInv
  <2>1. out[j].to \in Bridge BY OutItem
  <2> QED BY <1>2, <2>1 DEF FrameInv, OutInv
<1>4. LinkInv'
  <2>1. \A e \in End : e[1] \in Bridge BY DEF End
  <2> QED BY <1>2, <2>1 DEF FrameInv, LinkInv
<1> QED BY <1>1, <1>3, <1>4 DEF FrameInv

\* A process that starts has been told nothing, and tells the others nothing.
LEMMA FrameStart ==
  ASSUME FrameInv, TableInv, KnownInv, NEW b \in Bridge, Start(b)
  PROVE  FrameInv'
<1>1. TypeOK BY DEF TableInv
<1>2. /\ UNCHANGED <<br_lst, link, out, inbox, peer>> /\ life[b] = "new"
      /\ \A c \in Bridge : c # b => (Alive(c)' <=> Alive(c))
  BY <1>1, VarTypes DEF Start, mngrVars, Alive
<1>3. InboxInv' BY <1>2 DEF FrameInv, InboxInv
<1>4. \A e, w : Knows(e, w)' <=> Knows(e, w) BY <1>2 DEF Knows
<1>5. OutInv'
  <2> SUFFICES ASSUME NEW j \in DOMAIN out
               PROVE  LET d == out[j]
                          e == <<d.to, d.port>>
                      IN  /\ d.cmd = "BPDU" => Len(out) = 1 /\ (Alive(d.to)' => Knows(e, d.from)')
                          /\ Control(d, d.port) /\ link[e] # None => d.from = link[e]
    BY <1>2 DEF OutInv
  <2>1. out[j].to \in Bridge /\ out[j].to # b BY <1>1, <1>2, OutItem DEF KnownInv
  <2> QED BY <1>2, <1>4, <2>1 DEF FrameInv, OutInv
<1>6. LinkInv'
  <2> SUFFICES ASSUME NEW e \in End, link[e] # None, Alive(e[1])'
               PROVE  \/ \E j \in DOMAIN out : out[j].to = e[1] /\ Control(out[j], e[2])
                      \/ Knows(e, link[e])
    BY <1>2, <1>4 DEF LinkInv
  <2>1. e[1] \in Range(br_lst) /\ e[1] \in Bridge BY DEF TableInv, TableIsMatching, End
  <2>2. e[1] # b BY <1>2, <2>1 DEF KnownInv, Range
  <2>3. Alive(e[1]) BY <1>2, <2>1, <2>2
  <2> QED BY <2>3 DEF FrameInv, LinkInv
<1> QED BY <1>3, <1>5, <1>6 DEF FrameInv

\* A process that ends leaves every other socket as it is.
LEMMA FrameEnds ==
  ASSUME FrameInv, TypeOK, NEW b \in Bridge, Ends(b), UNCHANGED mngrVars
  PROVE  FrameInv'
<1>1. /\ UNCHANGED <<link, out>> /\ inbox'[b] = <<>> /\ ~Alive(b)'
      /\ \A c \in Bridge : c # b => inbox'[c] = inbox[c] /\ (Alive(c)' <=> Alive(c))
      /\ \A e \in End : e[1] # b => peer'[e] = peer[e]
  BY VarTypes DEF Ends, mngrVars, Alive
<1>2. \A e \in End : e[1] \in Bridge BY DEF End
<1>3. ASSUME NEW e \in End, NEW w, e[1] # b PROVE Knows(e, w)' <=> Knows(e, w)
  BY <1>1, <1>2, <1>3 DEF Knows
<1>4. InboxInv'
  <2> SUFFICES ASSUME NEW c \in Bridge, NEW i \in DOMAIN inbox'[c], inbox'[c][i].cmd = "BPDU"
               PROVE  Told(inbox'[c], i - 1, inbox'[c][i].port,
                           peer'[<<c, inbox'[c][i].port>>], inbox'[c][i].from)
    BY DEF InboxInv
  <2>1. c # b BY <1>1
  <2>2. inbox'[c] = inbox[c] BY <1>1, <2>1
  <2>3. <<c, inbox[c][i].port>> \in End BY <2>2, InboxItem
  <2>4. peer'[<<c, inbox[c][i].port>>] = peer[<<c, inbox[c][i].port>>] BY <1>1, <2>1, <2>3
  <2> QED BY <2>2, <2>4 DEF FrameInv, InboxInv
<1>5. OutInv'
  <2> SUFFICES ASSUME NEW j \in DOMAIN out
               PROVE  LET d == out[j]
                          e == <<d.to, d.port>>
                      IN  /\ d.cmd = "BPDU" => Len(out) = 1 /\ (Alive(d.to)' => Knows(e, d.from)')
                          /\ Control(d, d.port) /\ link[e] # None => d.from = link[e]
    BY <1>1 DEF OutInv
  <2>1. out[j].to \in Bridge /\ <<out[j].to, out[j].port>> \in End BY OutItem
  <2> QED BY <1>1, <1>3, <2>1 DEF FrameInv, OutInv
<1>6. LinkInv' BY <1>1, <1>2, <1>3 DEF FrameInv, LinkInv
<1> QED BY <1>4, <1>5, <1>6 DEF FrameInv

\* What the first item of the socket says is then what is known.
LEMMA FrameRead ==
  ASSUME FrameInv, TypeOK, NEW b \in Bridge, Read(b)
  PROVE  FrameInv'
<1> DEFINE d == Head(inbox[b])
           s == inbox[b]
<1>1. /\ s \in Seq(ToBridge) /\ s # <<>> /\ d \in ToBridge /\ d = s[1]
      /\ Tail(s) \in Seq(ToBridge) /\ Len(Tail(s)) = Len(s) - 1
      /\ Len(s) \in Nat /\ 1 <= Len(s)
      /\ \A k \in 1 .. Len(s) - 1 : Tail(s)[k] = s[k + 1]
  <2>1. s \in Seq(ToBridge) /\ s # <<>> BY VarTypes DEF Read
  <2>2. Len(s) \in Nat /\ Len(s) # 0 BY <2>1, LenProperties, EmptySeq
  <2> QED BY <2>1, <2>2, HeadTailProperties
<1>2. d.port \in PortNo BY <1>1 DEF ToBridge
<1>3. /\ UNCHANGED <<link, out>>
      /\ inbox'[b] = Tail(s) /\ \A c \in Bridge : c # b => inbox'[c] = inbox[c]
      /\ \A c \in Bridge : Alive(c)' => Alive(c)
  BY VarTypes DEF Read, mngrVars, Alive, Waits
<1>4. ASSUME NEW e \in End
      PROVE  peer'[e] = IF e[1] = b /\ Control(d, e[2]) THEN d.from ELSE peer[e]
  <2>1. <<b, d.port>> \in End BY <1>2 DEF End
  <2>2. e = <<e[1], e[2]>> BY DEF End
  <2> QED BY <2>1, <2>2, VarTypes DEF Read, Control
<1> HIDE DEF d, s
<1>5. ASSUME NEW e \in End, NEW w, Knows(e, w) PROVE Knows(e, w)'
  <2>1. e[1] \in Bridge BY DEF End
  <2>2. CASE e[1] # b BY <1>3, <1>4, <1>5, <2>1, <2>2 DEF Knows
  <2>3. CASE e[1] = b
    <3>1. Told(s, Len(s), e[2], peer[e], w) BY <1>5, <2>3 DEF Knows, s
    <3>2. Len(s) \in 1 .. Len(s) BY <1>1
    <3>3. Told(Tail(s), Len(s) - 1, e[2], IF Control(d, e[2]) THEN d.from ELSE peer[e], w)
      BY <1>1, <3>1, <3>2, ToldTail DEF d, s
    <3> QED BY <1>1, <1>3, <1>4, <2>3, <3>3 DEF Knows
  <2> QED BY <2>2, <2>3
<1>6. InboxInv'
  <2> SUFFICES ASSUME NEW c \in Bridge, NEW i \in DOMAIN inbox'[c], inbox'[c][i].cmd = "BPDU"
               PROVE  Told(inbox'[c], i - 1, inbox'[c][i].port,
                           peer'[<<c, inbox'[c][i].port>>], inbox'[c][i].from)
    BY DEF InboxInv
  <2>1. CASE c # b
    <3>1. inbox'[c] = inbox[c] BY <1>3, <2>1
    <3>2. <<c, inbox[c][i].port>> \in End BY <3>1, InboxItem
    <3>3. peer'[<<c, inbox[c][i].port>>] = peer[<<c, inbox[c][i].port>>] BY <1>4, <2>1, <3>2
    <3> QED BY <3>1, <3>3 DEF FrameInv, InboxInv
  <2>2. CASE c = b
    <3>1. inbox'[b] = Tail(s) /\ i \in 1 .. Len(s) - 1 BY <1>1, <1>3, <2>2, LenProperties
    <3>2. i + 1 \in DOMAIN s /\ i \in 1 .. Len(s) /\ Tail(s)[i] = s[i + 1] /\ i + 1 - 1 = i
      BY <1>1, <3>1, LenProperties
    <3> DEFINE x == s[i + 1]
    <3>3. x.cmd = "BPDU" /\ inbox'[c][i] = x BY <2>2, <3>1, <3>2
    <3>4. <<b, x.port>> \in End BY <3>2, InboxItem DEF s
    <3>5. Told(s, i, x.port, peer[<<b, x.port>>], x.from)
      <4>1. ASSUME NEW k \in DOMAIN s, s[k].cmd = "BPDU"
            PROVE  Told(s, k - 1, s[k].port, peer[<<b, s[k].port>>], s[k].from)
        BY <4>1 DEF FrameInv, InboxInv, s
      <4> HIDE DEF s
      <4>2. Told(s, i + 1 - 1, x.port, peer[<<b, x.port>>], x.from)
        BY <3>2, <3>3, <4>1
      <4> QED BY <3>2, <4>2
    <3> HIDE DEF x
    <3>6. Told(Tail(s), i - 1, x.port,
               IF Control(d, x.port) THEN d.from ELSE peer[<<b, x.port>>], x.from)
      BY <1>1, <3>2, <3>5, ToldTail DEF d, s
    <3>7. peer'[<<b, x.port>>] = IF Control(d, x.port) THEN d.from ELSE peer[<<b, x.port>>]
      BY <1>4, <3>4
    <3> QED BY <2>2, <3>1, <3>3, <3>6, <3>7
  <2> QED BY <2>1, <2>2
<1>7. OutInv'
  <2> SUFFICES ASSUME NEW j \in DOMAIN out
               PROVE  LET x == out[j]
                          e == <<x.to, x.port>>
                      IN  /\ x.cmd = "BPDU" => Len(out) = 1 /\ (Alive(x.to)' => Knows(e, x.from)')
                          /\ Control(x, x.port) /\ link[e] # None => x.from = link[e]
    BY <1>3 DEF OutInv
  <2>1. out[j].to \in Bridge /\ <<out[j].to, out[j].port>> \in End BY OutItem
  <2> QED BY <1>3, <1>5, <2>1 DEF FrameInv, OutInv
<1>8. LinkInv'
  <2>1. \A e \in End : e[1] \in Bridge BY DEF End
  <2> QED BY <1>3, <1>5, <2>1 DEF FrameInv, LinkInv
<1> QED BY <1>6, <1>7, <1>8 DEF FrameInv

-----------------------------------------------------------------------------
(* FrameInv: steps of the manager *)

\* One datagram moves from the handler to the socket of its receiver.
LEMMA FrameDeliver ==
  ASSUME FrameInv, TypeOK, Deliver
  PROVE  FrameInv'
<1> DEFINE d == Head(out)
           s == inbox[d.to]
<1>1. /\ out \in Seq(ToBridge) /\ out # <<>> /\ d = out[1] /\ d \in ToBridge
      /\ Len(out) \in Nat /\ 1 \in DOMAIN out /\ DOMAIN out = 1 .. Len(out)
      /\ out' = Tail(out) /\ DOMAIN out' = 1 .. Len(out) - 1
      /\ \A k \in 1 .. Len(out) - 1 : out'[k] = out[k + 1]
  <2>1. out \in Seq(ToBridge) /\ out # <<>> BY VarTypes DEF Deliver
  <2>2. Len(out) \in Nat /\ Len(out) # 0 BY <2>1, LenProperties, EmptySeq
  <2>3. out' = Tail(out) BY DEF Deliver
  <2> QED BY <2>1, <2>2, <2>3, HeadTailProperties, LenProperties
<1>2. d.to \in Bridge /\ d.port \in PortNo BY <1>1 DEF ToBridge
<1>3. s \in Seq(ToBridge) /\ Len(s) \in Nat BY <1>2, VarTypes, LenProperties
<1>4. /\ UNCHANGED <<link, peer, life>>
      /\ \A c \in Bridge : c # d.to => inbox'[c] = inbox[c]
      /\ Alive(d.to) => inbox'[d.to] = Append(s, d)
      /\ ~Alive(d.to) => inbox' = inbox
  BY <1>2, VarTypes DEF Deliver
<1>5. \A c \in Bridge : Alive(c)' <=> Alive(c) BY <1>4 DEF Alive
<1> HIDE DEF d, s
<1>6. Alive(d.to) => Len(Append(s, d)) = Len(s) + 1 /\ DOMAIN Append(s, d) = 1 .. Len(s) + 1
                     /\ Append(s, d)[Len(s) + 1] = d
                     /\ \A k \in 1 .. Len(s) : Append(s, d)[k] = s[k]
  BY <1>1, <1>3, AppendProperties, LenProperties
<1>7. ASSUME NEW e \in End, NEW w, Knows(e, w), e[1] = d.to => ~Control(d, e[2])
      PROVE  Knows(e, w)'
  <2>1. e[1] \in Bridge BY DEF End
  <2>2. CASE e[1] # d.to \/ ~Alive(d.to) BY <1>4, <1>7, <2>1, <2>2 DEF Knows
  <2>3. CASE e[1] = d.to /\ Alive(d.to)
    <3>1. Told(s, Len(s), e[2], peer[e], w) BY <1>7, <2>3 DEF Knows, s
    <3>2. Told(Append(s, d), Len(s) + 1, e[2], peer[e], w)
      BY <1>1, <1>3, <1>7, <2>3, <3>1, ToldAppend
    <3> QED BY <1>4, <1>6, <2>3, <3>2 DEF Knows
  <2> QED BY <2>2, <2>3
<1>8. ASSUME NEW e \in End, NEW w, w = d.from, e[1] = d.to, Control(d, e[2]), Alive(d.to)
      PROVE  Knows(e, w)'
  <2>1. Told(Append(s, d), Len(s) + 1, e[2], peer[e], w)
    BY <1>1, <1>3, <1>8, ToldAppend
  <2> QED BY <1>4, <1>6, <1>8, <2>1 DEF Knows
<1>9. d.cmd = "BPDU" => Len(out) = 1 /\ (Alive(d.to) => Knows(<<d.to, d.port>>, d.from))
  BY <1>1 DEF FrameInv, OutInv
<1>10. InboxInv'
  <2> SUFFICES ASSUME NEW c \in Bridge, NEW i \in DOMAIN inbox'[c], inbox'[c][i].cmd = "BPDU"
               PROVE  Told(inbox'[c], i - 1, inbox'[c][i].port,
                           peer[<<c, inbox'[c][i].port>>], inbox'[c][i].from)
    BY <1>4 DEF InboxInv
  <2>1. CASE c # d.to \/ ~Alive(d.to)
    <3>1. inbox'[c] = inbox[c] BY <1>4, <2>1
    <3> QED BY <3>1 DEF FrameInv, InboxInv
  <2>2. CASE c = d.to /\ Alive(d.to)
    <3>1. inbox'[c] = Append(s, d) /\ i \in 1 .. Len(s) + 1 BY <1>4, <1>6, <2>2
    <3>2. CASE i = Len(s) + 1
      <4>1. inbox'[c][i] = d BY <1>6, <2>2, <3>1, <3>2
      <4>2. Told(s, Len(s), d.port, peer[<<c, d.port>>], d.from)
        BY <1>9, <2>2, <4>1 DEF Knows, s
      <4>3. Len(s) \in 0 .. Len(s) /\ i - 1 = Len(s) BY <1>3, <3>2
      <4>4. Told(Append(s, d), Len(s), d.port, peer[<<c, d.port>>], d.from)
        BY <1>1, <1>3, <4>2, <4>3, ToldAppend
      <4> QED BY <3>1, <4>1, <4>3, <4>4
    <3>3. CASE i # Len(s) + 1
      <4>1. i \in 1 .. Len(s) /\ i - 1 \in 0 .. Len(s) /\ i \in DOMAIN s
        BY <1>3, <3>1, <3>3, LenProperties
      <4> DEFINE x == s[i]
      <4>2. inbox'[c][i] = x BY <1>6, <2>2, <3>1, <4>1
      <4>3. Told(s, i - 1, x.port, peer[<<c, x.port>>], x.from)
        BY <1>2, <2>2, <4>1, <4>2 DEF FrameInv, InboxInv, s
      <4> HIDE DEF x
      <4>4. Told(Append(s, d), i - 1, x.port, peer[<<c, x.port>>], x.from)
        BY <1>1, <1>3, <4>1, <4>3, ToldAppend
      <4> QED BY <3>1, <4>2, <4>4
    <3> QED BY <3>2, <3>3
  <2> QED BY <2>1, <2>2
<1>11. OutInv'
  <2> SUFFICES ASSUME NEW j \in DOMAIN out'
               PROVE  LET x == out'[j]
                          e == <<x.to, x.port>>
                      IN  /\ x.cmd # "BPDU"
                          /\ Control(x, x.port) /\ link[e] # None => x.from = link[e]
    BY <1>4 DEF OutInv
  <2>1. j + 1 \in DOMAIN out /\ out'[j] = out[j + 1] /\ Len(out) # 1 BY <1>1
  <2> QED BY <2>1 DEF FrameInv, OutInv
<1>12. LinkInv'
  <2> SUFFICES ASSUME NEW e \in End, NEW w, w = link[e], w # None, Alive(e[1]),
                      \A j \in DOMAIN out' : ~(out'[j].to = e[1] /\ Control(out'[j], e[2]))
               PROVE  Knows(e, w)'
    <3>1. \A x \in End : x[1] \in Bridge BY DEF End
    <3> QED BY <1>4, <1>5, <3>1 DEF LinkInv, Knows
  <2>1. CASE d.to = e[1] /\ Control(d, e[2])
    <3>1. e = <<d.to, d.port>> BY <2>1 DEF Control, End
    <3>2. Control(d, d.port) BY <2>1 DEF Control
    <3>3. w = d.from BY <1>1, <3>1, <3>2 DEF FrameInv, OutInv
    <3> QED BY <1>8, <2>1, <3>3
  <2>2. CASE ~(d.to = e[1] /\ Control(d, e[2]))
    <3>1. ASSUME NEW j \in DOMAIN out, out[j].to = e[1] /\ Control(out[j], e[2]) PROVE FALSE
      <4>1. j # 1 BY <1>1, <2>2, <3>1
      <4>2. j - 1 \in DOMAIN out' /\ out'[j - 1] = out[j] BY <1>1, <4>1
      <4> QED BY <3>1, <4>2
    <3>2. Knows(e, w) BY <3>1 DEF FrameInv, LinkInv
    <3> QED BY <1>7, <2>2, <3>2
  <2> QED BY <2>1, <2>2
<1> QED BY <1>10, <1>11, <1>12 DEF FrameInv

\* A handler that changes links tells the ports it links, and nobody else, of
\* links.
LEMMA FrameHandler ==
  ASSUME FrameInv, TypeOK, out = <<>>, UNCHANGED <<life, inbox, peer>>,
         \A j \in DOMAIN out' :
            /\ out'[j].cmd # "BPDU"
            /\ LET e == <<out'[j].to, out'[j].port>>
               IN  Control(out'[j], out'[j].port) /\ link'[e] # None
                   => out'[j].from = link'[e],
         \A e \in End :
            link'[e] # None =>
               \/ link'[e] = link[e]
               \/ \E j \in DOMAIN out' : out'[j].to = e[1] /\ Control(out'[j], e[2])
  PROVE  FrameInv'
<1>1. InboxInv' BY DEF FrameInv, InboxInv
<1>2. OutInv' BY DEF OutInv
<1>3. LinkInv'
  <2> SUFFICES ASSUME NEW e \in End, link'[e] # None, Alive(e[1])',
                      \A j \in DOMAIN out' : ~(out'[j].to = e[1] /\ Control(out'[j], e[2]))
               PROVE  Knows(e, link[e])'
    BY DEF LinkInv
  <2>1. link'[e] = link[e] OBVIOUS
  <2>2. Alive(e[1]) BY DEF Alive
  <2>3. DOMAIN out = {} OBVIOUS
  <2>4. Knows(e, link[e]) BY <2>1, <2>2, <2>3 DEF FrameInv, LinkInv
  <2> QED BY <2>1, <2>4 DEF Knows
<1> QED BY <1>1, <1>2, <1>3 DEF FrameInv

\* connect is told to both ends of the new link.
LEMMA FrameLink ==
  ASSUME FrameInv, TypeOK, NEW n1, NEW p1 \in PortNo, NEW n2, NEW p2 \in PortNo,
         LinkBridges(n1, p1, n2, p2)
  PROVE  FrameInv'
<1>1. PICK i \in DOMAIN br_lst, j \in DOMAIN br_lst :
         /\ link' = [link EXCEPT ![<<br_lst[i], p1>>] = <<br_lst[j], p2>>,
                                ![<<br_lst[j], p2>>] = <<br_lst[i], p1>>]
         /\ out' = <<Connect(<<br_lst[i], p1>>, <<br_lst[j], p2>>),
                     Connect(<<br_lst[j], p2>>, <<br_lst[i], p1>>)>>
  BY DEF LinkBridges
<1> DEFINE e == <<br_lst[i], p1>>
           f == <<br_lst[j], p2>>
<1>2. e \in End /\ f \in End BY EntryEnd
<1>3. out' = <<Connect(e, f), Connect(f, e)>> /\ link' = [link EXCEPT ![e] = f, ![f] = e]
  BY <1>1
<1> HIDE DEF e, f
<1>4. link'[e] = f /\ link'[f] = e /\ \A x \in End : x # e /\ x # f => link'[x] = link[x]
  BY <1>2, <1>3, VarTypes
<1>5. <<e[1], e[2]>> = e /\ <<f[1], f[2]>> = f BY <1>2 DEF End
<1>6. /\ DOMAIN out' = 1 .. 2 /\ out'[1] = Connect(e, f) /\ out'[2] = Connect(f, e)
      /\ Connect(e, f).to = e[1] /\ Connect(e, f).port = e[2] /\ Connect(e, f).from = f
      /\ Connect(f, e).to = f[1] /\ Connect(f, e).port = f[2] /\ Connect(f, e).from = e
      /\ Connect(e, f).cmd = "CONNECT" /\ Connect(f, e).cmd = "CONNECT"
  BY <1>3 DEF Connect
<1>7. ASSUME NEW k \in DOMAIN out'
      PROVE  /\ out'[k].cmd # "BPDU"
             /\ out'[k].from = link'[<<out'[k].to, out'[k].port>>]
  <2>1. k = 1 \/ k = 2 BY <1>6
  <2> QED BY <1>4, <1>5, <1>6, <2>1
<1>8. ASSUME NEW x \in End, x = e \/ x = f
      PROVE  \E k \in DOMAIN out' : out'[k].to = x[1] /\ Control(out'[k], x[2])
  BY <1>6, <1>8 DEF Control
<1>9. out = <<>> /\ UNCHANGED <<life, inbox, peer>> BY DEF LinkBridges, Command, Idle
<1> QED BY <1>4, <1>7, <1>8, <1>9, FrameHandler

\* disconnect is told to ports that are linked no more.
LEMMA FrameUnlink ==
  ASSUME FrameInv, TableInv, NEW n, NEW p \in PortNo, UnlinkPort(n, p)
  PROVE  FrameInv'
<1>1. PICK i \in DOMAIN br_lst :
         /\ link[<<br_lst[i], p>>] # None
         /\ out' = FarewellFrom(<<br_lst[i], p>>)
         /\ link' = [link EXCEPT ![<<br_lst[i], p>>] = None,
                                ![link[<<br_lst[i], p>>]] = None]
  BY DEF UnlinkPort
<1> DEFINE e == <<br_lst[i], p>>
           f == link[e]
<1>2. e \in End BY EntryEnd DEF TableInv
<1>3. f \in End /\ link[f] = e BY <1>1, <1>2, LinkEnds
<1> HIDE DEF e
<1>4. out' = FarewellFrom(e) /\ link' = [link EXCEPT ![e] = None, ![f] = None]
  BY <1>1 DEF e
<1>5. link'[e] = None /\ link'[f] = None /\ \A x \in End : x # e /\ x # f => link'[x] = link[x]
  BY <1>2, <1>3, <1>4, VarTypes DEF TableInv
<1>6. <<e[1], e[2]>> = e /\ <<f[1], f[2]>> = f BY <1>2, <1>3 DEF End
<1>7. ASSUME NEW k \in DOMAIN out'
      PROVE  out'[k].cmd # "BPDU" /\ link'[<<out'[k].to, out'[k].port>>] = None
  <2>1. out' = <<Disconnect(f)>> \/ out' = <<Disconnect(f), Disconnect(e)>>
    BY <1>3, <1>4 DEF FarewellFrom
  <2> HIDE DEF f
  <2>2. out'[k] = Disconnect(f) \/ out'[k] = Disconnect(e) BY <2>1
  <2>3. /\ Disconnect(f).cmd = "DISCONNECT" /\ Disconnect(e).cmd = "DISCONNECT"
        /\ <<Disconnect(f).to, Disconnect(f).port>> = <<f[1], f[2]>>
        /\ <<Disconnect(e).to, Disconnect(e).port>> = <<e[1], e[2]>>
    BY DEF Disconnect
  <2> QED BY <1>5, <1>6, <2>2, <2>3
<1>8. out = <<>> /\ UNCHANGED <<life, inbox, peer>> /\ TypeOK
  BY DEF UnlinkPort, Command, Idle, TableInv
<1> QED BY <1>5, <1>7, <1>8, FrameHandler

\* The farewell of the manager carries no LACPDU.
LEMMA FrameQuit ==
  ASSUME FrameInv, TypeOK, QuitManager
  PROVE  FrameInv'
<1>1. \A k \in DOMAIN out' : out'[k].cmd = "BRIDGE_SHUTDOWN"
  BY DEF QuitManager, Shutdown
<1>2. out = <<>> /\ UNCHANGED <<link, life, inbox, peer>> BY DEF QuitManager, Idle
<1> QED BY <1>1, <1>2, FrameHandler DEF Control

\* A manager that ends leaves no link and nothing to say.
LEMMA FrameGone ==
  ASSUME FrameInv, TypeOK, ManagerGone
  PROVE  FrameInv'
<1>1. out' = <<>> /\ link' = [e \in End |-> None] /\ UNCHANGED <<life, inbox, peer>>
  BY DEF ManagerGone
<1>2. InboxInv' BY <1>1 DEF FrameInv, InboxInv
<1>3. OutInv' BY <1>1 DEF OutInv
<1>4. LinkInv' BY <1>1 DEF LinkInv
<1> QED BY <1>2, <1>3, <1>4 DEF FrameInv

\* The ports that unregister tells are linked no more.
LEMMA FrameUnregister ==
  ASSUME FrameInv, TypeOK, NEW n, UnregisterBridge(n), out = <<>>,
         UNCHANGED <<life, inbox, peer>>
  PROVE  FrameInv'
<1>1. CASE Lists(n) = {}
  <2>1. UNCHANGED <<link, out>> BY <1>1 DEF UnregisterBridge
  <2> QED BY <2>1, FrameSame DEF Alive
<1>2. CASE Lists(n) # {}
  <2>1. PICK i \in DOMAIN br_lst :
           /\ link' = Unlinked(br_lst[i])
           /\ \E p \in Rising(Drops(br_lst[i])) :
                 out' = [k \in DOMAIN p |-> Disconnect(link[<<br_lst[i], p[k]>>])]
    BY <1>2 DEF UnregisterBridge
  <2>2. PICK p \in Rising(Drops(br_lst[i])) :
           out' = [k \in DOMAIN p |-> Disconnect(link[<<br_lst[i], p[k]>>])]
    BY <2>1
  <2> DEFINE b == br_lst[i]
  <2>3. Drops(b) \subseteq PortNo BY DEF Drops
  <2>4. \A k \in DOMAIN p : p[k] \in Drops(b) BY <2>3, RisingType
  <2>5. b \in Bridge BY VarTypes, LenProperties, ElementOfSeq
  <2>6. link' = Unlinked(b) BY <2>1
  <2>7. out' = [k \in DOMAIN p |-> Disconnect(link[<<b, p[k]>>])] BY <2>2
  <2> HIDE DEF b
  <2>8. ASSUME NEW k \in DOMAIN out'
        PROVE  /\ out'[k].cmd # "BPDU"
               /\ link'[<<out'[k].to, out'[k].port>>] = None
    <3> DEFINE f == link[<<b, p[k]>>]
    <3>1. k \in DOMAIN p /\ out'[k] = Disconnect(f) BY <2>7
    <3>2. p[k] \in Drops(b) /\ p[k] \in PortNo BY <2>3, <2>4, <3>1
    <3>3. f # None /\ <<b, p[k]>> \in End BY <2>5, <3>2 DEF Drops, End
    <3>4. f \in End BY <3>3, VarTypes
    <3>5. link'[f] = None BY <2>6, <3>2, <3>4 DEF Unlinked
    <3> HIDE DEF f
    <3>6. Disconnect(f).cmd = "DISCONNECT"
          /\ <<Disconnect(f).to, Disconnect(f).port>> = f
      BY <3>4 DEF Disconnect, End
    <3> QED BY <3>1, <3>5, <3>6
  <2>9. \A x \in End : link'[x] # None => link'[x] = link[x] BY <2>6 DEF Unlinked
  <2> QED BY <2>8, <2>9, FrameHandler
<1> QED BY <1>1, <1>2

\* The first entry with the sender's pid is the sender's: its LACPDU goes to the
\* port that knows it.
LEMMA FrameRoute ==
  ASSUME FrameInv, TableInv, NEW b \in Bridge, NEW p \in PortNo, NEW m \in Pdu,
         RxBpdu(b, p, m), FirstIs(b), out = <<>>, UNCHANGED <<life, inbox, peer>>
  PROVE  FrameInv'
<1>1. link' = link /\ TypeOK BY DEF RxBpdu, TableInv
<1> DEFINE e == <<b, p>>
<1>2. e \in End BY DEF End
<1>3. CASE out' = <<>>
  BY <1>1, <1>3, FrameSame DEF Alive
<1>4. CASE out' # <<>>
  <2>1. PICK i \in DOMAIN br_lst :
           /\ IsFirst(i, PidOf[b])
           /\ out' = IF link[<<br_lst[i], p>>] = None THEN <<>>
                     ELSE <<Bpdu(link[<<br_lst[i], p>>], <<b, p>>, m)>>
    BY <1>4 DEF RxBpdu
  <2>2. br_lst[i] = b
    <3>1. PidOf[br_lst[i]] = PidOf[b] BY <2>1 DEF IsFirst, Lists
    <3>2. PICK j \in DOMAIN br_lst : j <= i /\ br_lst[j] = b BY <3>1 DEF FirstIs
    <3>3. i <= j BY <2>1, <3>2 DEF IsFirst, Lists
    <3>4. i \in Int /\ j \in Int BY <1>1, VarTypes, LenProperties
    <3> QED BY <3>2, <3>3, <3>4
  <2>3. link[e] # None /\ out' = <<Bpdu(link[e], e, m)>> BY <1>4, <2>1, <2>2
  <2>4. link[e] \in End /\ link[link[e]] = e BY <1>2, <2>3, LinkEnds
  <2>5. PICK f \in End : f = link[e] BY <2>4
  <2> HIDE DEF e
  <2>6. /\ Len(out') = 1 /\ DOMAIN out' = {1} /\ out'[1] = Bpdu(f, e, m)
        /\ Bpdu(f, e, m).cmd = "BPDU" /\ Bpdu(f, e, m).from = e
        /\ Bpdu(f, e, m).to = f[1] /\ Bpdu(f, e, m).port = f[2] /\ <<f[1], f[2]>> = f
    BY <2>3, <2>5 DEF Bpdu, End
  <2>7. DOMAIN out = {} OBVIOUS
  <2>8. Alive(f[1])' => Told(inbox'[f[1]], Len(inbox'[f[1]]), f[2], peer'[f], e)
    <3>1. e # None BY DEF None, e
    <3>2. Alive(f[1]) => Knows(f, e) BY <2>4, <2>5, <2>7, <3>1 DEF FrameInv, LinkInv
    <3> QED BY <3>2 DEF Alive, Knows
  <2>9. InboxInv' BY DEF FrameInv, InboxInv
  <2>10. OutInv' BY <2>6, <2>8 DEF OutInv, Knows, Control
  <2>11. LinkInv' BY <1>1, <2>7 DEF FrameInv, LinkInv, Knows, Alive
  <2> QED BY <2>9, <2>10, <2>11 DEF FrameInv
<1> QED BY <1>3, <1>4

-----------------------------------------------------------------------------
(* QueueInv: the order in which the manager hears the bridges *)

\* What stands in the socket of the manager was sent by a bridge.
LEMMA QueueTypes ==
  ASSUME TypeOK
  PROVE  /\ queue \in Seq(ToMngr) /\ Len(queue) \in Nat /\ DOMAIN queue = 1 .. Len(queue)
         /\ \A k \in DOMAIN queue : queue[k] \in ToMngr /\ queue[k].from \in Bridge
<1>1. queue \in Seq(ToMngr) BY VarTypes
<1>2. /\ Len(queue) \in Nat /\ DOMAIN queue = 1 .. Len(queue)
      /\ \A k \in DOMAIN queue : queue[k] \in ToMngr
  BY <1>1, LenProperties, ElementOfSeq
<1>3. \A d \in ToMngr : d.from \in Bridge BY DEF ToMngr
<1> QED BY <1>1, <1>2, <1>3

\* A step without a datagram that brings nobody to life.
LEMMA QueueSame ==
  ASSUME QueueInv, UNCHANGED <<queue, br_lst>>, \A b \in Bridge : Alive(b)' => Alive(b)
  PROVE  QueueInv'
<1>1. \A b, j, n : Handshake(b, j, n)' <=> Handshake(b, j, n) BY DEF Handshake
<1>2. \A b : FirstIs(b)' <=> FirstIs(b) BY DEF FirstIs
<1>3. \A b, n : Named(b, n) => Named(b, n)' BY <1>1, <1>2 DEF Named
<1>4. \A b \in Bridge : \A n : Speaks(b, n)' => Speaks(b, n) BY DEF Speaks
<1> QED BY <1>3, <1>4 DEF QueueInv

\* A bridge sends d: its handshake, or anything once it runs.
LEMMA QueueSend ==
  ASSUME QueueInv, TypeOK, NEW b \in Bridge, NEW d \in ToMngr, d.from = b,
         queue' = Append(queue, d), br_lst' = br_lst,
         Alive(b) \/ (d = Hello(b) /\ \A j \in DOMAIN queue : queue[j].from # b),
         Alive(b)' => d # Bye(b),
         \A c \in Bridge : c # b => (Alive(c)' <=> Alive(c)),
         \A c \in Bridge : c # b /\ Alive(c) => PidOf[c] # PidOf[b]
  PROVE  QueueInv'
<1> DEFINE m == Len(queue)
<1>1. /\ m \in Nat /\ DOMAIN queue = 1 .. m /\ Len(queue') = m + 1
      /\ DOMAIN queue' = 1 .. m + 1 /\ queue'[m + 1] = d
      /\ \A k \in 1 .. m : queue'[k] = queue[k]
  BY QueueTypes, AppendProperties, LenProperties
<1> HIDE DEF m
<1>2. \A c : FirstIs(c)' <=> FirstIs(c) BY DEF FirstIs
<1>3. ASSUME NEW c, NEW j, NEW n \in Nat, NEW l \in Nat, n <= l, Handshake(c, j, n)
      PROVE  Handshake(c, j, l)'
  <2>1. PICK k \in DOMAIN queue : j < k /\ k <= n /\ queue[k] = Hello(c)
    BY <1>3 DEF Handshake
  <2>2. k \in DOMAIN queue' /\ queue'[k] = Hello(c) /\ k <= l BY <1>1, <1>3, <2>1
  <2> QED BY <2>1, <2>2 DEF Handshake
<1>4. ASSUME NEW c \in Bridge, NEW n \in Nat \ {0}, Speaks(c, n), NEW l \in Nat, n <= l,
             \A j \in DOMAIN queue' : j < l /\ n <= j =>
                (queue'[j].from = c \/ PidOf[queue'[j].from] # PidOf[c]) /\ queue'[j] # Bye(c)
      PROVE  Named(c, l)'
  <2>1. Named(c, n) BY <1>4 DEF QueueInv
  <2>2. n <= m + 1 BY <1>1, <1>4 DEF Speaks, m
  <2>3. ASSUME NEW j \in DOMAIN queue', j < n
        PROVE  j \in DOMAIN queue /\ queue'[j] = queue[j]
    BY <1>1, <2>2, <2>3
  <2>4. ASSUME NEW j \in DOMAIN queue', j < l, queue'[j].from # c,
               PidOf[queue'[j].from] = PidOf[c]
        PROVE  Handshake(c, j, l)'
    <3>1. j < n BY <1>1, <1>4, <2>4
    <3>2. Handshake(c, j, n) BY <2>1, <2>3, <2>4, <3>1 DEF Named
    <3> QED BY <1>3, <1>4, <3>2
  <2>5. ASSUME NEW j \in DOMAIN queue', j < l PROVE queue'[j] # Bye(c)
    <3>1. CASE j < n BY <2>1, <2>3, <3>1 DEF Named
    <3>2. CASE n <= j BY <1>4, <2>5, <3>2
    <3> QED BY <1>1, <3>1, <3>2
  <2>6. ~Handshake(c, 0, l)' => FirstIs(c)' BY <1>2, <1>3, <1>4, <2>1 DEF Named
  <2> QED BY <2>4, <2>5, <2>6 DEF Named, Bye
<1>5. ASSUME d = Hello(b), \A j \in DOMAIN queue : queue[j].from # b, NEW l \in Nat, m < l
      PROVE  Named(b, l)'
  <2>1. m + 1 \in DOMAIN queue' /\ queue'[m + 1] = Hello(b) /\ m + 1 <= l BY <1>1, <1>5
  <2>2. \A j \in DOMAIN queue' : j < m + 1 => Handshake(b, j, l)' BY <2>1 DEF Handshake
  <2>3. Handshake(b, 0, l)' BY <1>1, <2>1 DEF Handshake
  <2>4. queue'[m + 1].from = b /\ queue'[m + 1] # Bye(b) BY <2>1 DEF Hello, Bye
  <2>5. \A j \in DOMAIN queue' : j = m + 1 \/ (j < m + 1 /\ queue'[j] = queue[j] /\ j \in DOMAIN queue)
    BY <1>1
  <2>6. \A j \in DOMAIN queue' : queue'[j] # Bye(b) BY <1>5, <2>4, <2>5 DEF Bye
  <2> QED BY <2>2, <2>3, <2>4, <2>5, <2>6 DEF Named, Bye
<1> SUFFICES ASSUME NEW c \in Bridge, NEW n \in Nat \ {0}, Speaks(c, n)'
             PROVE  Named(c, n)'
  BY DEF QueueInv
<1>6. n \in 1 .. m + 2 BY <1>1 DEF Speaks
<1>7. CASE n \in 1 .. m
  <2>1. Speaks(c, n) BY <1>1, <1>7 DEF Speaks, m
  <2> QED BY <1>1, <1>4, <1>7, <2>1
<1>8. CASE n = m + 1
  <2>1. c = b BY <1>1, <1>8 DEF Speaks
  <2>2. CASE Alive(b)
    <3>1. Speaks(b, m + 1) BY <2>2 DEF Speaks, m
    <3> QED BY <1>1, <1>4, <1>8, <2>1, <3>1
  <2>3. CASE ~Alive(b) BY <1>1, <1>5, <1>8, <2>1, <2>3
  <2> QED BY <2>2, <2>3
<1>9. CASE n = m + 2
  <2>1. Alive(c)' BY <1>1, <1>9 DEF Speaks
  <2>2. CASE Alive(c)
    <3>1. Speaks(c, m + 1) BY <2>2 DEF Speaks, m
    <3>2. c = b \/ PidOf[c] # PidOf[b] BY <2>2
    <3>3. d # Bye(c)
      <4>1. CASE c = b BY <2>1, <4>1
      <4>2. CASE c # b BY <4>2 DEF Bye
      <4> QED BY <4>1, <4>2
    <3>4. \A j \in DOMAIN queue' : j < n /\ m + 1 <= j => j = m + 1 BY <1>1, <1>9
    <3> QED BY <1>1, <1>4, <1>9, <3>1, <3>2, <3>3, <3>4
  <2>3. CASE ~Alive(c)
    <3>1. c = b BY <2>1, <2>3
    <3> QED BY <1>1, <1>5, <1>9, <2>3, <3>1
  <2> QED BY <2>2, <2>3
<1> QED BY <1>1, <1>6, <1>7, <1>8, <1>9

\* t is s, of n places, without place i.
Without(t, s, n, i) == \A k \in 1 .. n - 1 : t[k] = IF k < i THEN s[k] ELSE s[k + 1]

\* b comes before every other of its pid in the n places of s.
LeadsIn(s, n, b) ==
    \A k \in 1 .. n : PidOf[s[k]] = PidOf[b] => \E j \in 1 .. n : j <= k /\ s[j] = b

\* Taking out the entry of another process leaves the first entry with a pid first.
LEMMA LeadsWithout ==
  ASSUME NEW n \in Nat, NEW i \in 1 .. n, NEW s, NEW t, NEW b,
         Without(t, s, n, i), LeadsIn(s, n, b), s[i] # b
  PROVE  LeadsIn(t, n - 1, b)
<1> USE DEF Without, LeadsIn
<1> SUFFICES ASSUME NEW k \in 1 .. n - 1, PidOf[t[k]] = PidOf[b]
             PROVE  \E j \in 1 .. n - 1 : j <= k /\ t[j] = b
  OBVIOUS
<1>1. PICK l \in 1 .. n : t[k] = s[l] /\ ((k < i /\ l = k) \/ (i <= k /\ l = k + 1))
  <2>1. CASE k < i
    <3>1. k \in 1 .. n OBVIOUS
    <3>2. t[k] = s[k] BY <2>1
    <3> QED BY <2>1, <3>1, <3>2
  <2>2. CASE i <= k
    <3>1. k + 1 \in 1 .. n /\ ~(k < i) BY <2>2
    <3>2. t[k] = s[k + 1] BY <3>1
    <3> QED BY <2>2, <3>1, <3>2
  <2> QED BY <2>1, <2>2
<1>2. PICK j \in 1 .. n : j <= l /\ s[j] = b BY <1>1
<1>3. j # i BY <1>2
<1>4. CASE j < i
  <2>1. j \in 1 .. n - 1 /\ j <= k BY <1>1, <1>2, <1>4
  <2>2. t[j] = s[j] BY <1>4, <2>1
  <2> QED BY <1>2, <2>1, <2>2
<1>5. CASE j > i
  <2>1. j - 1 \in 1 .. n - 1 /\ ~(j - 1 < i) /\ j - 1 + 1 = j /\ j - 1 <= k
    BY <1>1, <1>2, <1>5
  <2>2. t[j - 1] = s[j] BY <2>1
  <2> QED BY <1>2, <2>1, <2>2
<1> QED BY <1>3, <1>4, <1>5

\* The registry keeps b the first of its pid when entries with other pids come and
\* go.
LEMMA FirstKeeps ==
  ASSUME TypeOK, NEW b \in Bridge, FirstIs(b), NEW c \in Bridge, PidOf[c] # PidOf[b],
         \/ br_lst' = <<c>> \o br_lst
         \/ \E i \in DOMAIN br_lst :
               br_lst' = RemoveAt(br_lst, i) /\ PidOf[br_lst[i]] = PidOf[c]
  PROVE  FirstIs(b)'
<1>1. /\ br_lst \in Seq(Bridge) /\ Len(br_lst) \in Nat /\ DOMAIN br_lst = 1 .. Len(br_lst)
  BY VarTypes, LenProperties
<1>2. CASE br_lst' = <<c>> \o br_lst
  <2>1. /\ DOMAIN br_lst' = 1 .. Len(br_lst) + 1 /\ br_lst'[1] = c
        /\ \A k \in 2 .. Len(br_lst) + 1 : br_lst'[k] = br_lst[k - 1]
    <3>1. <<c>> \in Seq(Bridge) /\ Len(<<c>>) = 1 /\ <<c>>[1] = c OBVIOUS
    <3>2. /\ <<c>> \o br_lst \in Seq(Bridge)
          /\ Len(<<c>> \o br_lst) = 1 + Len(br_lst)
          /\ \A k \in 1 .. 1 + Len(br_lst) :
               (<<c>> \o br_lst)[k] = IF k <= 1 THEN <<c>>[k] ELSE br_lst[k - 1]
      BY <1>1, <3>1, ConcatProperties
    <3> QED BY <1>1, <1>2, <3>1, <3>2, LenProperties
  <2> SUFFICES ASSUME NEW i \in DOMAIN br_lst', PidOf[br_lst'[i]] = PidOf[b]
               PROVE  \E j \in DOMAIN br_lst' : j <= i /\ br_lst'[j] = b
    BY DEF FirstIs
  <2>2. i \in 2 .. Len(br_lst) + 1 /\ i - 1 \in DOMAIN br_lst /\ br_lst'[i] = br_lst[i - 1]
    BY <1>1, <2>1
  <2>3. PICK j \in DOMAIN br_lst : j <= i - 1 /\ br_lst[j] = b BY <2>2 DEF FirstIs
  <2>4. j + 1 \in DOMAIN br_lst' /\ j + 1 <= i /\ br_lst'[j + 1] = b
    <3>1. j + 1 \in 2 .. Len(br_lst) + 1 /\ j + 1 - 1 = j BY <1>1, <2>3
    <3> QED BY <1>1, <2>1, <2>2, <2>3, <3>1
  <2> QED BY <2>4
<1>3. ASSUME NEW i \in DOMAIN br_lst, br_lst' = RemoveAt(br_lst, i),
             PidOf[br_lst[i]] = PidOf[c]
      PROVE  FirstIs(b)'
  <2>1. /\ i \in 1 .. Len(br_lst) /\ DOMAIN br_lst' = 1 .. Len(br_lst) - 1
        /\ \A k \in 1 .. Len(br_lst) - 1 :
              br_lst'[k] = IF k < i THEN br_lst[k] ELSE br_lst[k + 1]
    BY <1>1, <1>3, RemoveAtType, LenProperties
  <2>2. Without(br_lst', br_lst, Len(br_lst), i) BY <2>1 DEF Without
  <2>3. LeadsIn(br_lst, Len(br_lst), b) BY <1>1 DEF FirstIs, LeadsIn
  <2>4. br_lst[i] # b BY <1>3
  <2>5. LeadsIn(br_lst', Len(br_lst) - 1, b) BY <1>1, <2>1, <2>2, <2>3, <2>4, LeadsWithout
  <2> QED BY <2>1, <2>5 DEF FirstIs, LeadsIn
<1> QED BY <1>2, <1>3

\* The manager reads: what is behind the first datagram moves up a place.
LEMMA QueueRead ==
  ASSUME QueueInv, TypeOK, ReadUid
  PROVE  QueueInv'
<1> DEFINE d == Head(queue)
           m == Len(queue)
<1>1. /\ m \in Nat /\ m >= 1 /\ DOMAIN queue = 1 .. m /\ 1 \in DOMAIN queue
      /\ Len(queue') = m - 1 /\ DOMAIN queue' = 1 .. m - 1 /\ queue[1] = d
      /\ \A k \in 1 .. m - 1 : queue'[k] = queue[k + 1]
  <2>1. queue # <<>> /\ queue' = Tail(queue) BY DEF ReadUid
  <2>2. m # 0 BY <2>1, QueueTypes, EmptySeq
  <2> QED BY <2>1, <2>2, QueueTypes, HeadTailProperties, LenProperties
<1>2. d \in ToMngr /\ d.from \in Bridge BY <1>1, QueueTypes
<1>3. \A c \in Bridge : Alive(c)' <=> Alive(c) BY DEF ReadUid, Alive
<1> HIDE DEF d, m
<1>4. ASSUME NEW c, NEW j \in Nat, NEW n \in Nat, Handshake(c, j + 1, n + 1)
      PROVE  Handshake(c, j, n)'
  <2>1. PICK k \in DOMAIN queue : j + 1 < k /\ k <= n + 1 /\ queue[k] = Hello(c)
    BY <1>4 DEF Handshake
  <2>2. k - 1 \in 1 .. m - 1 /\ k - 1 + 1 = k /\ j < k - 1 /\ k - 1 <= n
    BY <1>1, <2>1
  <2>3. queue'[k - 1] = Hello(c) BY <1>1, <2>1, <2>2
  <2> QED BY <1>1, <2>2, <2>3 DEF Handshake
<1> SUFFICES ASSUME NEW b \in Bridge, NEW n \in Nat \ {0}, Speaks(b, n)'
             PROVE  Named(b, n)'
  BY DEF QueueInv
<1>5. Named(b, n + 1)
  <2>1. n + 1 \in Nat \ {0} OBVIOUS
  <2>2. CASE n \in DOMAIN queue' /\ queue'[n].from = b
    BY <1>1, <2>2, <2>1 DEF QueueInv, Speaks
  <2>3. CASE n = Len(queue') + 1 /\ Alive(b)'
    <3>1. n + 1 = m + 1 /\ Alive(b) BY <1>1, <1>3, <2>3
    <3> QED BY <2>1, <3>1 DEF QueueInv, Speaks, m
  <2> QED BY <2>2, <2>3 DEF Speaks
<1>6. ASSUME NEW j \in DOMAIN queue', j < n
      PROVE  j \in Nat /\ j + 1 \in DOMAIN queue /\ j + 1 < n + 1 /\ queue'[j] = queue[j + 1]
  BY <1>1, <1>6
<1>7. ASSUME NEW j \in DOMAIN queue', j < n, queue'[j].from # b,
             PidOf[queue'[j].from] = PidOf[b]
      PROVE  Handshake(b, j, n)'
  <2>1. Handshake(b, j + 1, n + 1) BY <1>5, <1>6, <1>7 DEF Named
  <2> QED BY <1>4, <1>6, <1>7, <2>1
<1>8. \A j \in DOMAIN queue' : j < n => queue'[j] # Bye(b) BY <1>5, <1>6 DEF Named
<1>9. ASSUME ~Handshake(b, 0, n)' PROVE FirstIs(b)'
  <2>1. ~Handshake(b, 1, n + 1)
    <3>1. Handshake(b, 0 + 1, n + 1) => Handshake(b, 0, n)' BY <1>4
    <3> QED BY <1>9, <3>1
  <2>2. 1 < n + 1 OBVIOUS
  <2>3. d.from = b \/ PidOf[d.from] # PidOf[b] BY <1>1, <1>5, <2>1, <2>2 DEF Named
  <2>4. d # Bye(b) BY <1>1, <1>5, <2>2 DEF Named
  <2>5. d # Hello(b) => FirstIs(b)
    <3> SUFFICES ASSUME d # Hello(b) PROVE ~Handshake(b, 0, n + 1) BY <1>5 DEF Named
    <3>1. \A k \in DOMAIN queue : queue[k] = Hello(b) => 1 < k BY <1>1
    <3> QED BY <2>1, <3>1 DEF Handshake
  <2>6. CASE d.cmd = "BRIDGE_HANDSHAKE"
    <3>1. br_lst' = <<d.from>> \o br_lst BY <2>6 DEF ReadUid, RegisterBridge, d
    <3>2. CASE d.from = b
      <4>1. br_lst \in Seq(Bridge) BY VarTypes
      <4>2. 1 \in DOMAIN br_lst' /\ br_lst'[1] = b /\ \A i \in DOMAIN br_lst' : 1 <= i
        BY <3>1, <3>2, <4>1
      <4> QED BY <4>2 DEF FirstIs
    <3>3. CASE PidOf[d.from] # PidOf[b]
      <4>1. d # Hello(b) BY <3>3 DEF Hello
      <4> QED BY <1>2, <2>5, <3>1, <3>3, <4>1, FirstKeeps
    <3> QED BY <2>3, <3>2, <3>3
  <2>7. CASE d.cmd = "BRIDGE_SHUTDOWN"
    <3>1. UnregisterBridge(PidOf[d.from]) BY <2>7 DEF ReadUid, d
    <3>2. d.from # b /\ d # Hello(b)
      <4>1. d = Bye(d.from) BY <1>2, <2>7 DEF ToMngr, Bye
      <4> QED BY <2>4, <2>7, <4>1 DEF Hello
    <3>3. FirstIs(b) /\ PidOf[d.from] # PidOf[b] BY <2>3, <2>5, <3>2
    <3>4. CASE Lists(PidOf[d.from]) = {}
      <4>1. br_lst' = br_lst BY <3>1, <3>4 DEF UnregisterBridge
      <4> QED BY <3>3, <4>1 DEF FirstIs
    <3>5. CASE Lists(PidOf[d.from]) # {}
      <4>1. PICK i \in DOMAIN br_lst :
               IsFirst(i, PidOf[d.from]) /\ br_lst' = RemoveAt(br_lst, i)
        BY <3>1, <3>5 DEF UnregisterBridge
      <4>2. PidOf[br_lst[i]] = PidOf[d.from] BY <4>1 DEF IsFirst, Lists
      <4> QED BY <1>2, <3>3, <4>1, <4>2, FirstKeeps
    <3> QED BY <3>4, <3>5
  <2>8. CASE d.cmd = "BPDU"
    <3>1. RxBpdu(d.from, d.port, d.pdu) BY <2>8 DEF ReadUid, d
    <3>2. br_lst' = br_lst /\ d # Hello(b) BY <2>8, <3>1 DEF RxBpdu, Hello
    <3> QED BY <2>5, <3>2 DEF FirstIs
  <2> QED BY <1>2, <2>6, <2>7, <2>8 DEF ToMngr
<1> QED BY <1>7, <1>8, <1>9 DEF Named, Bye

-----------------------------------------------------------------------------
(* Who runs and who is known *)

\* What a bridge does to the lives of the processes and to the manager's socket.
LEMMA BridgeLives ==
  ASSUME TypeOK, NEW b \in Bridge, BridgeStep(b)
  PROVE  /\ UNCHANGED mngrVars
         /\ \A c \in Bridge : c # b => life'[c] = life[c]
         /\ life'[b] # "new" \/ life'[b] = life[b]
         /\ \/ Start(b)
            \/ /\ \A c \in Bridge : Alive(c)' => Alive(c)
               /\ life[b] # "new"
               /\ UNCHANGED queue \/ SayBye(b) \/ Transmit(b)
<1>1. life \in [Bridge -> {"new", "up", "leaving", "gone"}] BY VarTypes
<1>2. CASE Start(b) BY <1>1, <1>2 DEF Start
<1>3. CASE StartCall(b) BY <1>1, <1>3 DEF StartCall, Waits, Alive
<1>4. CASE Transmit(b) BY <1>1, <1>4 DEF Transmit, Alive
<1>5. CASE Read(b) BY <1>1, <1>5 DEF Read, Waits, Alive
<1>6. CASE Quit(b) BY <1>1, <1>6 DEF Quit, Waits, Alive
<1>7. CASE SayBye(b) BY <1>1, <1>7 DEF SayBye, Ends, Alive
<1>8. CASE Crash(b) BY <1>1, <1>8 DEF Crash, Ends, Alive
<1> QED BY <1>2, <1>3, <1>4, <1>5, <1>6, <1>7, <1>8 DEF BridgeStep

\* No step makes two processes with one pid run.
LEMMA AloneStep ==
  ASSUME AloneInv, TypeOK, [Next]_vars
  PROVE  AloneInv'
<1>1. ASSUME \A c \in Bridge : Alive(c)' => Alive(c) PROVE AloneInv' BY <1>1 DEF AloneInv
<1>2. ASSUME NEW b \in Bridge, Start(b) PROVE AloneInv'
  <2>1. \A c \in Bridge : c # b => (Alive(c)' <=> Alive(c))
    BY <1>2, VarTypes DEF Start, Alive
  <2>2. \A c \in Bridge : PidOf[c] = PidOf[b] => ~Alive(c) BY <1>2 DEF Start
  <2> QED BY <2>1, <2>2 DEF AloneInv
<1>3. ASSUME NEW b \in Bridge, BridgeStep(b) PROVE AloneInv'
  BY <1>1, <1>2, <1>3, BridgeLives
<1>4. CASE UNCHANGED life BY <1>1, <1>4 DEF Alive
<1>5. (\E b \in Bridge : BridgeStep(b)) \/ UNCHANGED life
  BY DEF Next, ReadUid, Deliver, Operator, LinkBridges, UnlinkPort, Command, QuitManager,
         ManagerReturns, ManagerCrash, ManagerGone, ManagerStart, vars
<1> QED BY <1>3, <1>4, <1>5

\* What a bridge is told names a port of it.
LEMMA ReportType ==
  ASSUME TypeOK, NEW b \in Bridge, call[b] # <<>>
  PROVE  Report(b, Head(call[b])[1], Head(call[b])[2]) \in ToMngr
<1>1. call[b] \in Seq(PortNo \X Pdu) BY VarTypes
<1>2. Head(call[b]) \in PortNo \X Pdu BY <1>1, TailType
<1> QED BY <1>2 DEF Report, ToMngr

\* A datagram of a known bridge is added, or none.
LEMMA KnownSend ==
  ASSUME KnownInv, TypeOK, NEW b \in Bridge, NEW d \in ToMngr, d.from = b, ToManager(d),
         life'[b] # "new", \A c \in Bridge : c # b => life'[c] = life[c],
         UNCHANGED mngrVars
  PROVE  KnownInv'
<1>1. UNCHANGED <<br_lst, out>> BY DEF mngrVars
<1>2. \A c \in Bridge : life[c] # "new" => life'[c] # "new" OBVIOUS
<1>3. \A i \in DOMAIN br_lst : br_lst[i] \in Bridge
  BY VarTypes, ElementOfSeq, LenProperties
<1>4. \A i \in DOMAIN out : out[i].to \in Bridge BY OutItem
<1>5. ASSUME NEW i \in DOMAIN queue' PROVE life'[queue'[i].from] # "new"
  <2>1. CASE mngr = "gone"
    <3>1. queue' = queue BY <2>1 DEF ToManager
    <3> QED BY <1>2, <3>1, QueueTypes DEF KnownInv
  <2>2. CASE mngr # "gone"
    <3>1. queue' = Append(queue, d) BY <2>2 DEF ToManager
    <3>2. /\ DOMAIN queue' = 1 .. Len(queue) + 1 /\ queue'[Len(queue) + 1] = d
          /\ \A k \in 1 .. Len(queue) : queue'[k] = queue[k]
      BY <3>1, QueueTypes, AppendProperties, LenProperties
    <3>3. i \in 1 .. Len(queue) \/ i = Len(queue) + 1 BY <3>2, QueueTypes
    <3> QED BY <1>2, <3>2, <3>3, QueueTypes DEF KnownInv
  <2> QED BY <2>1, <2>2
<1> QED BY <1>1, <1>2, <1>3, <1>4, <1>5 DEF KnownInv

\* A handler tells only listed bridges, and lists only one that has started.
LEMMA KnownReadUid ==
  ASSUME KnownInv, TableInv, ReadUid
  PROVE  KnownInv'
<1> DEFINE d == Head(queue)
<1>1. TypeOK /\ UNCHANGED life BY DEF TableInv, ReadUid
<1>2. /\ d \in ToMngr /\ d.from \in Bridge /\ life[d.from] # "new"
      /\ \A k \in DOMAIN queue' : life[queue'[k].from] # "new"
  <2>1. queue # <<>> /\ queue' = Tail(queue) BY DEF ReadUid
  <2>2. Len(queue) # 0 BY <1>1, <2>1, QueueTypes, EmptySeq
  <2>3. /\ 1 \in DOMAIN queue /\ queue[1] = d /\ DOMAIN queue' = 1 .. Len(queue) - 1
        /\ \A k \in DOMAIN queue' : k + 1 \in DOMAIN queue /\ queue'[k] = queue[k + 1]
    BY <1>1, <2>1, <2>2, QueueTypes, HeadTailProperties, LenProperties
  <2> QED BY <1>1, <2>3, QueueTypes DEF KnownInv
<1> HIDE DEF d
<1>3. \A e \in End : link[e] # None => life[link[e][1]] # "new"
  BY DEF TableInv, TableIsMatching, KnownInv, Range
<1>4. ASSUME NEW i \in DOMAIN br_lst' PROVE life[br_lst'[i]] # "new"
  <2>1. br_lst \in Seq(Bridge) BY <1>1, VarTypes
  <2>2. CASE d.cmd = "BRIDGE_HANDSHAKE"
    <3>1. br_lst' = <<d.from>> \o br_lst BY <2>2 DEF ReadUid, RegisterBridge, d
    <3>2. br_lst'[i] = d.from \/ \E j \in DOMAIN br_lst : br_lst'[i] = br_lst[j]
      BY <2>1, <3>1
    <3> QED BY <1>2, <3>2 DEF KnownInv
  <2>3. CASE d.cmd = "BRIDGE_SHUTDOWN"
    <3>1. UnregisterBridge(PidOf[d.from]) BY <2>3 DEF ReadUid, d
    <3>2. CASE br_lst' = br_lst BY <3>2 DEF KnownInv
    <3>3. ASSUME NEW j \in DOMAIN br_lst, br_lst' = RemoveAt(br_lst, j)
          PROVE  life[br_lst'[i]] # "new"
      <4>1. /\ DOMAIN br_lst' = 1 .. Len(br_lst) - 1 /\ Len(br_lst) \in Nat
            /\ DOMAIN br_lst = 1 .. Len(br_lst)
            /\ \A k \in 1 .. Len(br_lst) - 1 :
                  br_lst'[k] = IF k < j THEN br_lst[k] ELSE br_lst[k + 1]
        BY <2>1, <3>3, RemoveAtType, LenProperties
      <4>2. i \in DOMAIN br_lst /\ i + 1 \in DOMAIN br_lst BY <4>1
      <4> QED BY <4>1, <4>2 DEF KnownInv
    <3> QED BY <3>1, <3>2, <3>3 DEF UnregisterBridge
  <2>4. CASE d.cmd = "BPDU"
    <3>1. RxBpdu(d.from, d.port, d.pdu) BY <2>4 DEF ReadUid, d
    <3> QED BY <3>1 DEF RxBpdu, KnownInv
  <2> QED BY <1>2, <2>2, <2>3, <2>4 DEF ToMngr
<1>5. ASSUME NEW i \in DOMAIN out' PROVE life[out'[i].to] # "new"
  <2>1. CASE out' = out BY <2>1 DEF KnownInv
  <2>2. CASE d.cmd = "BRIDGE_SHUTDOWN" /\ out' # out
    <3>1. UnregisterBridge(PidOf[d.from]) BY <2>2 DEF ReadUid, d
    <3>2. PICK j \in DOMAIN br_lst :
             \E p \in Rising(Drops(br_lst[j])) :
                out' = [k \in DOMAIN p |-> Disconnect(link[<<br_lst[j], p[k]>>])]
      BY <2>2, <3>1 DEF UnregisterBridge
    <3>3. PICK p \in Rising(Drops(br_lst[j])) :
             out' = [k \in DOMAIN p |-> Disconnect(link[<<br_lst[j], p[k]>>])]
      BY <3>2
    <3>4. Drops(br_lst[j]) \subseteq PortNo BY DEF Drops
    <3>5. i \in DOMAIN p /\ p[i] \in Drops(br_lst[j]) BY <3>3, <3>4, RisingType
    <3>6. /\ link[<<br_lst[j], p[i]>>] # None /\ <<br_lst[j], p[i]>> \in End
      BY <1>1, <3>5, EntryEnd DEF Drops
    <3>7. out'[i].to = link[<<br_lst[j], p[i]>>][1] BY <3>3, <3>5 DEF Disconnect
    <3> QED BY <1>3, <3>6, <3>7
  <2>3. CASE d.cmd = "BPDU" /\ out' # out
    <3>1. RxBpdu(d.from, d.port, d.pdu) BY <2>3 DEF ReadUid, d
    <3>2. d.port \in PortNo BY <1>2, <2>3 DEF ToMngr
    <3>3. PICK j \in DOMAIN br_lst :
             out' = IF link[<<br_lst[j], d.port>>] = None THEN <<>>
                    ELSE <<Bpdu(link[<<br_lst[j], d.port>>], <<d.from, d.port>>, d.pdu)>>
      BY <2>3, <3>1 DEF RxBpdu
    <3>4. <<br_lst[j], d.port>> \in End BY <1>1, <3>2, EntryEnd
    <3>5. link[<<br_lst[j], d.port>>] # None
          /\ out'[i] = Bpdu(link[<<br_lst[j], d.port>>], <<d.from, d.port>>, d.pdu)
      BY <3>3
    <3>6. out'[i].to = link[<<br_lst[j], d.port>>][1] BY <3>5 DEF Bpdu
    <3> QED BY <1>3, <3>4, <3>5, <3>6
  <2>4. CASE d.cmd = "BRIDGE_HANDSHAKE"
    <3>1. out' = out BY <2>4 DEF ReadUid, RegisterBridge, d
    <3> QED BY <2>1, <3>1
  <2> QED BY <1>2, <2>1, <2>2, <2>3, <2>4 DEF ToMngr
<1> QED BY <1>1, <1>2, <1>4, <1>5 DEF KnownInv
\* A process that has not started stays unknown.
LEMMA KnownStep ==
  ASSUME KnownInv, TableInv, [Next]_vars
  PROVE  KnownInv'
<1>1. TypeOK BY DEF TableInv
<1>2. ASSUME UNCHANGED <<queue, br_lst, out, life>> PROVE KnownInv' BY <1>2 DEF KnownInv
<1>3. /\ \A i \in DOMAIN queue : queue[i].from \in Bridge
      /\ \A i \in DOMAIN br_lst : br_lst[i] \in Bridge
      /\ \A i \in DOMAIN out : out[i].to \in Bridge
  BY <1>1, QueueTypes, OutItem, VarTypes, ElementOfSeq, LenProperties
<1>4. ASSUME NEW b \in Bridge, BridgeStep(b) PROVE KnownInv'
  <2>1. /\ UNCHANGED mngrVars /\ \A c \in Bridge : c # b => life'[c] = life[c]
        /\ life'[b] # "new" \/ life'[b] = life[b]
    BY <1>1, <1>4, BridgeLives
  <2>2. CASE Start(b)
    <3>1. Hello(b) \in ToMngr /\ Hello(b).from = b BY DEF Hello, ToMngr
    <3>2. ToManager(Hello(b)) /\ life'[b] # "new" BY <1>1, <2>2, VarTypes DEF Start
    <3> QED BY <1>1, <2>1, <3>1, <3>2, KnownSend
  <2>3. CASE UNCHANGED queue
    <3>1. \A c \in Bridge : life[c] # "new" => life'[c] # "new" BY <2>1
    <3> QED BY <1>3, <2>1, <2>3, <3>1 DEF KnownInv, mngrVars
  <2>4. CASE life[b] # "new" /\ SayBye(b)
    <3>1. Bye(b) \in ToMngr /\ Bye(b).from = b BY DEF Bye, ToMngr
    <3>2. ToManager(Bye(b)) /\ life'[b] # "new" BY <2>1, <2>4 DEF SayBye
    <3> QED BY <1>1, <2>1, <3>1, <3>2, KnownSend
  <2>5. CASE life[b] # "new" /\ Transmit(b)
    <3> DEFINE d == Report(b, Head(call[b])[1], Head(call[b])[2])
    <3>1. d \in ToMngr /\ d.from = b BY <1>1, <2>5, ReportType DEF Report, Transmit
    <3>2. ToManager(d) /\ life'[b] # "new" BY <2>1, <2>5 DEF Transmit
    <3> HIDE DEF d
    <3> QED BY <1>1, <2>1, <3>1, <3>2, KnownSend
  <2> QED BY <1>1, <1>4, <2>2, <2>3, <2>4, <2>5, BridgeLives
<1>5. CASE ReadUid BY <1>5, KnownReadUid
<1>6. ASSUME UNCHANGED <<queue, br_lst, life>>, NEW S, \A b \in S : life[b] # "new",
             \A i \in DOMAIN out' : out'[i].to \in S
      PROVE  KnownInv'
  BY <1>6 DEF KnownInv
<1> DEFINE known == {b \in Bridge : life[b] # "new"}
<1>7. \A b \in known : life[b] # "new" OBVIOUS
<1>8. \A i \in DOMAIN br_lst : br_lst[i] \in known BY <1>3 DEF KnownInv
<1>9. \A e \in End : link[e] # None => link[e][1] \in known
  <2>1. \A b \in Range(br_lst) : b \in known BY <1>8 DEF Range
  <2> QED BY <2>1 DEF TableInv, TableIsMatching
<1> HIDE DEF known
<1>10. CASE Deliver
  <2>1. out \in Seq(ToBridge) /\ out # <<>> /\ out' = Tail(out)
    BY <1>1, <1>10, VarTypes DEF Deliver
  <2>2. \A i \in DOMAIN out' : i + 1 \in DOMAIN out /\ out'[i] = out[i + 1]
    BY <2>1, EmptySeq, HeadTailProperties, LenProperties
  <2>3. UNCHANGED <<queue, br_lst, life>> BY <1>10 DEF Deliver
  <2> QED BY <2>2, <2>3 DEF KnownInv
<1>11. ASSUME NEW l \in Links, LinkBridges(l[1], l[2], l[3], l[4]) PROVE KnownInv'
  <2>1. PICK i \in DOMAIN br_lst, j \in DOMAIN br_lst :
           out' = <<Connect(<<br_lst[i], l[2]>>, <<br_lst[j], l[4]>>),
                    Connect(<<br_lst[j], l[4]>>, <<br_lst[i], l[2]>>)>>
    BY <1>11 DEF LinkBridges
  <2>2. \A k \in DOMAIN out' : out'[k].to = br_lst[i] \/ out'[k].to = br_lst[j]
    <3>1. \A k \in DOMAIN out' : k = 1 \/ k = 2 BY <2>1
    <3> QED BY <2>1, <3>1 DEF Connect
  <2>3. UNCHANGED <<queue, br_lst, life>> BY <1>11 DEF LinkBridges, Command
  <2> QED BY <1>6, <1>7, <1>8, <2>2, <2>3
<1>12. ASSUME NEW n \in Pid, NEW p \in PortNo, UnlinkPort(n, p) PROVE KnownInv'
  <2>1. PICK i \in DOMAIN br_lst :
           link[<<br_lst[i], p>>] # None /\ out' = FarewellFrom(<<br_lst[i], p>>)
    BY <1>12 DEF UnlinkPort
  <2> DEFINE e == <<br_lst[i], p>>
             f == link[e]
  <2>2. e \in End /\ f # None /\ f \in End /\ link[f] = e
    BY <1>1, <2>1, EntryEnd, LinkEnds
  <2>3. f[1] \in known /\ e[1] \in known BY <1>8, <1>9, <2>2
  <2>4. out' = <<Disconnect(f)>> \/ out' = <<Disconnect(f), Disconnect(e)>>
    BY <2>1, <2>2 DEF FarewellFrom
  <2> HIDE DEF e, f
  <2>5. \A k \in DOMAIN out' : out'[k] = Disconnect(f) \/ out'[k] = Disconnect(e) BY <2>4
  <2>6. \A k \in DOMAIN out' : out'[k].to \in known BY <2>3, <2>5 DEF Disconnect
  <2>7. UNCHANGED <<queue, br_lst, life>> BY <1>12 DEF UnlinkPort, Command
  <2> QED BY <1>6, <1>7, <2>6, <2>7
<1>13. CASE QuitManager
  <2>1. \A i \in DOMAIN out' : i \in DOMAIN br_lst /\ out'[i].to = br_lst[i]
    BY <1>13 DEF QuitManager, Shutdown
  <2>2. UNCHANGED <<queue, br_lst, life>> BY <1>13 DEF QuitManager
  <2> QED BY <1>6, <1>7, <1>8, <2>1, <2>2
<1>14. CASE ManagerReturns \/ ManagerCrash
  BY <1>14 DEF ManagerReturns, ManagerCrash, ManagerGone, KnownInv
<1>15. CASE ManagerStart \/ UNCHANGED vars BY <1>2, <1>15 DEF ManagerStart, vars
<1> QED BY <1>4, <1>5, <1>10, <1>11, <1>12, <1>13, <1>14, <1>15 DEF Next, Operator

-----------------------------------------------------------------------------
(* Each step *)

\* What the bridges do to the manager's socket.
LEMMA QueueBridge ==
  ASSUME QueueInv, AloneInv, KnownInv, TypeOK, NEW b \in Bridge, BridgeStep(b)
  PROVE  QueueInv'
<1>1. br_lst' = br_lst BY BridgeLives DEF mngrVars
<1>2. \A c \in Bridge : c # b => (Alive(c)' <=> Alive(c)) BY BridgeLives DEF Alive
<1>3. CASE Start(b)
  <2>1. Hello(b) \in ToMngr /\ Hello(b).from = b /\ Hello(b) # Bye(b)
    BY DEF Hello, Bye, ToMngr
  <2>2. /\ queue' = Append(queue, Hello(b)) /\ life[b] = "new"
        /\ \A c \in Bridge : c # b /\ Alive(c) => PidOf[c] # PidOf[b]
    BY <1>3 DEF Start, ToManager
  <2>3. \A j \in DOMAIN queue : queue[j].from # b BY <2>2 DEF KnownInv
  <2> HIDE DEF Hello
  <2> QED BY <1>1, <1>2, <2>1, <2>2, <2>3, QueueSend
<1>4. CASE UNCHANGED queue /\ \A c \in Bridge : Alive(c)' => Alive(c)
  BY <1>1, <1>4, QueueSame
<1>5. CASE mngr = "gone" /\ ~Start(b)
  <2>1. UNCHANGED queue BY <1>5, BridgeLives DEF SayBye, Transmit, ToManager
  <2> QED BY <1>4, <1>5, <2>1, BridgeLives
<1>6. CASE SayBye(b) /\ mngr # "gone"
  <2>1. Bye(b) \in ToMngr /\ Bye(b).from = b BY DEF Bye, ToMngr
  <2>2. queue' = Append(queue, Bye(b)) BY <1>6 DEF SayBye, ToManager
  <2>3. Alive(b) /\ ~Alive(b)' BY <1>6, VarTypes DEF SayBye, Ends, Alive
  <2>4. \A c \in Bridge : c # b /\ Alive(c) => PidOf[c] # PidOf[b] BY <2>3 DEF AloneInv
  <2> QED BY <1>1, <1>2, <2>1, <2>2, <2>3, <2>4, QueueSend
<1>7. CASE Transmit(b) /\ mngr # "gone"
  <2> DEFINE d == Report(b, Head(call[b])[1], Head(call[b])[2])
  <2>1. d \in ToMngr /\ d.from = b /\ d # Bye(b)
    BY <1>7, ReportType DEF Report, Bye, Transmit
  <2>2. queue' = Append(queue, d) /\ Alive(b) BY <1>7 DEF Transmit, ToManager, Alive
  <2>3. \A c \in Bridge : c # b /\ Alive(c) => PidOf[c] # PidOf[b] BY <2>2 DEF AloneInv
  <2> HIDE DEF d
  <2> QED BY <1>1, <1>2, <2>1, <2>2, <2>3, QueueSend
<1> QED BY <1>3, <1>4, <1>5, <1>6, <1>7, BridgeLives

\* No step spoils what the socket of the manager says of the first entries.
LEMMA QueueStep ==
  ASSUME QueueInv, AloneInv, KnownInv, TypeOK, [Next]_vars
  PROVE  QueueInv'
<1>1. ASSUME UNCHANGED <<queue, br_lst, life>> PROVE QueueInv'
  BY <1>1, QueueSame DEF Alive
<1>2. ASSUME NEW b \in Bridge, BridgeStep(b) PROVE QueueInv' BY <1>2, QueueBridge
<1>3. CASE ReadUid BY <1>3, QueueRead
<1>4. CASE Deliver \/ Operator \/ ManagerStart \/ UNCHANGED vars
  BY <1>1, <1>4 DEF Deliver, Operator, LinkBridges, UnlinkPort, Command, QuitManager,
                    ManagerStart, vars
<1>5. CASE ManagerReturns \/ ManagerCrash
  <2>1. DOMAIN queue' = {} /\ DOMAIN br_lst' = {}
    BY <1>5 DEF ManagerReturns, ManagerCrash, ManagerGone
  <2> QED BY <2>1 DEF QueueInv, Named, FirstIs
<1> QED BY <1>2, <1>3, <1>4, <1>5 DEF Next

\* What the manager reads.
LEMMA FrameReadUid ==
  ASSUME FrameInv, TableInv, QueueInv, ReadUid
  PROVE  FrameInv'
<1> DEFINE d == Head(queue)
<1>1. TypeOK /\ out = <<>> /\ UNCHANGED <<life, inbox, peer>> BY DEF TableInv, ReadUid, Idle
<1>2. 1 \in DOMAIN queue /\ queue[1] = d /\ d \in ToMngr /\ d.from \in Bridge
  <2>1. queue # <<>> BY DEF ReadUid
  <2>2. Len(queue) # 0 BY <1>1, <2>1, QueueTypes, EmptySeq
  <2>3. 1 \in DOMAIN queue /\ queue[1] = d
    BY <1>1, <2>1, <2>2, QueueTypes, HeadTailProperties
  <2> QED BY <1>1, <2>3, QueueTypes
<1> HIDE DEF d
<1>3. CASE d.cmd = "BRIDGE_HANDSHAKE"
  <2>1. UNCHANGED <<link, out>> BY <1>3 DEF ReadUid, RegisterBridge, d
  <2> QED BY <1>1, <2>1, FrameSame DEF Alive
<1>4. CASE d.cmd = "BRIDGE_SHUTDOWN"
  <2>1. UnregisterBridge(PidOf[d.from]) BY <1>4 DEF ReadUid, d
  <2> QED BY <1>1, <2>1, FrameUnregister
<1>5. CASE d.cmd = "BPDU"
  <2>1. RxBpdu(d.from, d.port, d.pdu) BY <1>5 DEF ReadUid, d
  <2>2. d.port \in PortNo /\ d.pdu \in Pdu BY <1>2, <1>5 DEF ToMngr
  <2>3. Named(d.from, 1) BY <1>2 DEF QueueInv, Speaks
  <2>4. ~Handshake(d.from, 0, 1)
    <3> SUFFICES ASSUME NEW k \in DOMAIN queue, 0 < k, k <= 1, queue[k] = Hello(d.from)
                 PROVE  FALSE
      BY DEF Handshake
    <3>1. k = 1 BY <1>1, QueueTypes
    <3> QED BY <1>2, <1>5, <3>1 DEF Hello
  <2>5. FirstIs(d.from) BY <2>3, <2>4 DEF Named
  <2> QED BY <1>1, <1>2, <2>1, <2>2, <2>5, FrameRoute
<1> QED BY <1>2, <1>3, <1>4, <1>5 DEF ToMngr

\* No step spoils what a bridge is told.
LEMMA FrameStep ==
  ASSUME FramesInv, [Next]_vars
  PROVE  FrameInv'
<1>1. FrameInv /\ TableInv /\ KnownInv /\ QueueInv /\ TypeOK BY DEF FramesInv, TableInv
<1>2. ASSUME NEW b \in Bridge, BridgeStep(b) PROVE FrameInv'
  <2>1. UNCHANGED mngrVars BY <1>1, <1>2, BridgeLives
  <2>2. CASE Start(b) BY <1>1, <2>2, FrameStart
  <2>3. CASE Read(b) BY <1>1, <2>3, FrameRead
  <2>4. CASE SayBye(b) \/ Crash(b) BY <1>1, <2>1, <2>4, FrameEnds DEF SayBye, Crash
  <2>5. CASE StartCall(b) \/ Transmit(b) \/ Quit(b)
    <3>1. UNCHANGED <<link, out, inbox, peer>>
      BY <2>5 DEF StartCall, Transmit, Quit, mngrVars
    <3>2. \A c \in Bridge : Alive(c)' => Alive(c)
      BY <1>1, <2>5, VarTypes DEF StartCall, Transmit, Quit, Waits, Alive
    <3> QED BY <1>1, <3>1, <3>2, FrameSame
  <2> QED BY <1>2, <2>2, <2>3, <2>4, <2>5 DEF BridgeStep
<1>3. CASE ReadUid BY <1>1, <1>3, FrameReadUid
<1>4. CASE Deliver BY <1>1, <1>4, FrameDeliver
<1>5. CASE Operator
  <2>1. ASSUME NEW l \in Links, LinkBridges(l[1], l[2], l[3], l[4]) PROVE FrameInv'
    <3>1. l[2] \in PortNo /\ l[4] \in PortNo BY MngrAssumption DEF PortNo
    <3> QED BY <1>1, <2>1, <3>1, FrameLink
  <2>2. ASSUME NEW n \in Pid, NEW p \in PortNo, UnlinkPort(n, p) PROVE FrameInv'
    BY <1>1, <2>2, FrameUnlink
  <2>3. CASE QuitManager BY <1>1, <2>3, FrameQuit
  <2> QED BY <1>5, <2>1, <2>2, <2>3 DEF Operator
<1>6. CASE ManagerReturns \/ ManagerCrash
  BY <1>1, <1>6, FrameGone DEF ManagerReturns, ManagerCrash
<1>7. CASE ManagerStart \/ UNCHANGED vars
  BY <1>1, <1>7, FrameSame DEF ManagerStart, vars, Alive
<1> QED BY <1>2, <1>3, <1>4, <1>5, <1>6, <1>7 DEF Next

\* Before the first process has started nothing is under way.
LEMMA FramesInit == Init => FramesInv
<1> SUFFICES ASSUME Init PROVE FramesInv OBVIOUS
<1>1. TableInv BY TableInit
<1>2. \A b \in Bridge : ~Alive(b) BY DEF Init, Alive
<1>3. /\ DOMAIN queue = {} /\ DOMAIN br_lst = {} /\ DOMAIN out = {}
      /\ \A b \in Bridge : DOMAIN inbox[b] = {}
  BY DEF Init
<1>4. AloneInv BY <1>2 DEF AloneInv
<1>5. KnownInv BY <1>3 DEF KnownInv
<1>6. QueueInv BY <1>2, <1>3 DEF QueueInv, Speaks
<1>7. FrameInv BY <1>3 DEF FrameInv, InboxInv, OutInv, LinkInv, Init
<1> QED BY <1>1, <1>4, <1>5, <1>6, <1>7 DEF FramesInv

\* The invariant is inductive.
LEMMA FramesStep == FramesInv /\ [Next]_vars => FramesInv'
BY TableStep, AloneStep, KnownStep, QueueStep, FrameStep DEF FramesInv, TableInv

\* The next LACPDU a bridge reads for a port is always from the port its last
\* CONNECT or DISCONNECT named: no crash, restart under an old pid, plug or unplug
\* brings a LACPDU of the old cable behind the word of the new one, or one of the
\* new cable before it (mngr_rx_bpdu, _link_two_ports, disconnect_port).
THEOREM FramesFollowCables == Spec => []FramesComeFromPeer
<1>1. FramesInv => FramesComeFromPeer
  BY InboxGivesFrames DEF FramesInv, FrameInv, TableInv
<1> QED BY <1>1, FramesInit, FramesStep, PTL DEF Spec

-----------------------------------------------------------------------------
(* Sequences of sequences, one behind the other *)

\* A set of natural numbers that is not empty has a least element.
LEMMA LeastNumber ==
  ASSUME NEW S \in SUBSET Nat, S # {}
  PROVE  \E n \in S : \A m \in S : n <= m
<1> DEFINE R == OpToRel(<, Nat)
<1>1. IsWellFoundedOn(R, Nat) BY NatLessThanWellFounded
<1>2. \A m, n \in Nat : m < n => <<m, n>> \in R BY DEF OpToRel
<1> HIDE DEF R
<1>3. PICK n \in S : \A m \in S : ~ (<<m, n>> \in R) BY <1>1, WFMin
<1>4. \A m \in S : ~ (m < n) BY <1>2, <1>3
<1> QED BY <1>4

\* f flattens the first n of the sequences u, up to each of them.
Flattens(f, u, n) ==
    f = [i \in 1 .. n |-> IF i = 1 THEN u[i] ELSE f[i - 1] \o u[i]]

\* For every number of sequences there is a function that flattens them.
LEMMA FlattensExists ==
  ASSUME NEW u, NEW n \in Nat
  PROVE  \E f : Flattens(f, u, n)
<1> DEFINE S == {k \in Nat : ~ \E f : Flattens(f, u, k)}
<1> SUFFICES ASSUME S # {} PROVE FALSE OBVIOUS
<1>1. PICK k \in S : \A m \in S : k <= m BY LeastNumber
<1>2. k # 0
  <2>1. Flattens(<<>>, u, 0) BY DEF Flattens
  <2> QED BY <2>1
<1>3. k - 1 \in Nat /\ k - 1 \notin S BY <1>1, <1>2
<1>4. PICK f : Flattens(f, u, k - 1) BY <1>3
<1> DEFINE g == [i \in 1 .. k |-> IF i = k THEN IF k = 1 THEN u[k] ELSE f[k - 1] \o u[k]
                                  ELSE f[i]]
<1>5. ASSUME NEW i \in 1 .. k
      PROVE  g[i] = IF i = 1 THEN u[i] ELSE g[i - 1] \o u[i]
  <2>1. CASE i = k
    <3>1. k # 1 => k - 1 \in 1 .. k /\ k - 1 # k BY <1>2
    <3> QED BY <2>1, <3>1
  <2>2. CASE i # k
    <3>1. i \in 1 .. k - 1 /\ i # k BY <2>2
    <3>2. i # 1 => i - 1 \in 1 .. k /\ i - 1 # k BY <3>1
    <3>3. f[i] = IF i = 1 THEN u[i] ELSE f[i - 1] \o u[i] BY <1>4, <3>1 DEF Flattens
    <3> QED BY <3>1, <3>2, <3>3
  <2> QED BY <2>1, <2>2
<1>6. g = [i \in 1 .. k |-> IF i = 1 THEN u[i] ELSE g[i - 1] \o u[i]]
  BY <1>5
<1>7. Flattens(g, u, k) BY <1>6 DEF Flattens
<1> QED BY <1>7

\* FlattenSeq is the last value of such a function.
LEMMA FlattenIs ==
  ASSUME NEW u, Len(u) \in Nat \ {0}
  PROVE  \E f : Flattens(f, u, Len(u)) /\ FlattenSeq(u) = f[Len(u)]
<1> DEFINE g == CHOOSE f : f = [i \in 1 .. Len(u) |-> IF i = 1 THEN u[i] ELSE f[i - 1] \o u[i]]
<1>1. \E f : Flattens(f, u, Len(u)) BY FlattensExists
<1>2. Flattens(g, u, Len(u)) BY <1>1 DEF Flattens
<1>3. FlattenSeq(u) = g[Len(u)] BY DEF FlattenSeq
<1> QED BY <1>2, <1>3

\* Each value of such a function is the one before with one sequence more behind it.
LEMMA FlattensAt ==
  ASSUME NEW f, NEW u, NEW n \in Nat, Flattens(f, u, n), NEW i \in 1 .. n
  PROVE  f[i] = IF i = 1 THEN u[i] ELSE f[i - 1] \o u[i]
BY DEF Flattens

\* One sequence and then another.  Concatenation under a name of its own, because
\* the provers expand \o wherever they meet it.
Then(s, t) == s \o t

\* Two sequences over one set make a sequence over it.
LEMMA ThenType ==
  ASSUME NEW X, NEW s \in Seq(X), NEW t \in Seq(X)
  PROVE  Then(s, t) \in Seq(X)
BY ConcatProperties DEF Then

\* The elements of two sequences in a row.
LEMMA ThenParts ==
  ASSUME NEW X, NEW s \in Seq(X), NEW t \in Seq(X)
  PROVE  /\ Then(s, t) \in Seq(X) /\ Len(Then(s, t)) = Len(s) + Len(t)
         /\ \A i \in 1 .. Len(s) + Len(t) :
               Then(s, t)[i] = IF i <= Len(s) THEN s[i] ELSE t[i - Len(s)]
BY ConcatProperties, Zenon DEF Then

\* The empty sequence adds nothing.
LEMMA ThenEmpty ==
  ASSUME NEW X, NEW s \in Seq(X)
  PROVE  Then(s, <<>>) = s /\ Then(<<>>, s) = s
BY ConcatEmptySeq DEF Then

\* The order in which three are joined does not matter.
LEMMA ThenAssociative ==
  ASSUME NEW X, NEW s \in Seq(X), NEW t \in Seq(X), NEW u \in Seq(X)
  PROVE  Then(Then(s, t), u) = Then(s, Then(t, u))
BY ConcatAssociative DEF Then

\* To append is to put a sequence of one behind.
LEMMA ThenAppend ==
  ASSUME NEW X, NEW s \in Seq(X), NEW x \in X
  PROVE  <<x>> \in Seq(X) /\ Append(s, x) = Then(s, <<x>>)
<1>1. <<x>> \in Seq(X) OBVIOUS
<1> QED BY <1>1, AppendIsConcat DEF Then

\* The two parts of a sequence are typed as it is.
LEMMA ThenHead ==
  ASSUME NEW X, NEW s \in Seq(X), s # <<>>
  PROVE  /\ Head(s) \in X /\ Tail(s) \in Seq(X) /\ <<Head(s)>> \in Seq(X)
         /\ s = Then(<<Head(s)>>, Tail(s))
<1>1. Head(s) \in X /\ Tail(s) \in Seq(X) BY HeadTailProperties
<1>2. PICK n \in Nat : n = Len(s) /\ n # 0 BY LenProperties, EmptySeq
<1>3. 1 \in 1 .. Len(s) /\ Len(s) \in 1 .. Len(s) BY <1>2
<1>4. SubSeq(s, 1, Len(s)) = <<s[1]>> \o SubSeq(s, 1 + 1, Len(s)) BY <1>3, SubSeqRecursiveFirst
<1>5. SubSeq(s, 1, Len(s)) = s BY SubSeqFull
<1>6. Tail(s) = SubSeq(s, 1 + 1, Len(s)) BY TailIsSubSeq
<1>7. Head(s) = s[1] BY HeadTailProperties
<1>8. s = <<Head(s)>> \o Tail(s) BY <1>4, <1>5, <1>6, <1>7
<1>9. <<Head(s)>> \in Seq(X)
  <2>1. PICK x \in X : x = Head(s) BY <1>1
  <2>2. <<x>> \in Seq(X) OBVIOUS
  <2> QED BY <2>1, <2>2
<1> QED BY <1>1, <1>8, <1>9 DEF Then

\* FlattenSeq of no sequence.
LEMMA FlattenEmpty == FlattenSeq(<<>>) = <<>>
<1>1. Len(<<>>) = 0 OBVIOUS
<1> QED BY <1>1 DEF FlattenSeq

\* FlattenSeq of sequences with one more.
LEMMA FlattenAppend ==
  ASSUME NEW X, NEW u \in Seq(Seq(X)), NEW x \in Seq(X)
  PROVE  FlattenSeq(Append(u, x)) = Then(FlattenSeq(u), x)
<1> DEFINE v == Append(u, x)
<1>1. PICK n \in Nat : n = Len(u) BY LenProperties
<1>2. PICK m \in Nat : m = n + 1 BY <1>1
<1>3. /\ v \in Seq(Seq(X)) /\ Len(v) = m /\ v[m] = x /\ \A i \in 1 .. n : v[i] = u[i]
  BY <1>1, <1>2, AppendProperties
<1> HIDE DEF v
<1>4. Len(v) \in Nat \ {0} BY <1>2, <1>3
<1>5. PICK g : Flattens(g, v, m) /\ FlattenSeq(v) = g[m] BY <1>3, <1>4, FlattenIs
<1>6. m \in 1 .. m BY <1>2
<1>7. g[m] = IF m = 1 THEN v[m] ELSE g[m - 1] \o v[m] BY <1>5, <1>6, FlattensAt
<1>8. CASE n = 0
  <2>1. u = <<>> BY <1>1, <1>8, EmptySeq
  <2>2. FlattenSeq(v) = x BY <1>2, <1>3, <1>5, <1>7, <1>8
  <2>3. FlattenSeq(u) = <<>> BY <2>1, FlattenEmpty
  <2>4. Then(<<>>, x) = x BY ThenEmpty
  <2> QED BY <2>2, <2>3, <2>4 DEF v
<1>9. CASE n # 0
  <2>1. Len(u) \in Nat \ {0} BY <1>1, <1>9
  <2>2. PICK f : Flattens(f, u, n) /\ FlattenSeq(u) = f[n] BY <1>1, <2>1, FlattenIs
  <2>3. n <= m /\ n \in 1 .. n /\ m # 1 /\ m - 1 = n BY <1>2, <1>9
  <2>4. f[n] = g[n]
    <3> DEFINE D == {k \in 1 .. n : f[k] # g[k]}
    <3> SUFFICES ASSUME D # {} PROVE FALSE BY <2>3
    <3>1. D \in SUBSET Nat OBVIOUS
    <3>2. PICK k \in D : \A j \in D : k <= j BY <3>1, LeastNumber
    <3>3. k \in 1 .. n /\ k \in 1 .. m BY <2>3
    <3>4. f[k] = IF k = 1 THEN u[k] ELSE f[k - 1] \o u[k] BY <2>2, <3>3, FlattensAt
    <3>5. g[k] = IF k = 1 THEN v[k] ELSE g[k - 1] \o v[k] BY <1>5, <3>3, FlattensAt
    <3>6. k # 1 => k - 1 \in 1 .. n /\ k - 1 \notin D BY <3>2, <3>3
    <3> QED BY <1>3, <3>2, <3>3, <3>4, <3>5, <3>6
  <2> QED BY <1>3, <1>5, <1>7, <2>2, <2>3, <2>4 DEF v, Then
<1> QED BY <1>8, <1>9

\* FlattenSeq of sequences is a sequence.
LEMMA FlattenType ==
  ASSUME NEW X, NEW u \in Seq(Seq(X))
  PROVE  FlattenSeq(u) \in Seq(X)
<1> DEFINE S == {k \in Nat : \E v \in Seq(Seq(X)) : Len(v) = k /\ FlattenSeq(v) \notin Seq(X)}
<1>1. S = {}
  <2> SUFFICES ASSUME S # {} PROVE FALSE OBVIOUS
  <2>1. PICK k \in S : \A m \in S : k <= m BY LeastNumber
  <2>2. PICK v \in Seq(Seq(X)) : Len(v) = k /\ FlattenSeq(v) \notin Seq(X) BY <2>1
  <2>3. v # <<>> BY <2>2, FlattenEmpty, EmptySeq
  <2>4. PICK w \in Seq(Seq(X)), x \in Seq(X) : v = Append(w, x)
    BY <2>3, SequenceEmptyOrAppend
  <2>5. Len(w) \in Nat /\ k = Len(w) + 1 BY <2>2, <2>4, AppendProperties, LenProperties
  <2>6. Len(w) \notin S
    <3> HIDE DEF S
    <3> QED BY <2>1, <2>5
  <2>7. FlattenSeq(w) \in Seq(X) BY <2>5, <2>6
  <2>8. FlattenSeq(v) = Then(FlattenSeq(w), x) BY <2>4, FlattenAppend
  <2>9. Then(FlattenSeq(w), x) \in Seq(X) BY <2>7, ThenType
  <2> QED BY <2>2, <2>8, <2>9
<1>2. Len(u) \in Nat /\ Len(u) \notin S BY <1>1, LenProperties
<1> QED BY <1>2

\* FlattenSeq of sequences and then of others.
LEMMA FlattenThen ==
  ASSUME NEW X, NEW u \in Seq(Seq(X)), NEW t \in Seq(Seq(X))
  PROVE  FlattenSeq(Then(u, t)) = Then(FlattenSeq(u), FlattenSeq(t))
<1> DEFINE Fails(v) == FlattenSeq(Then(u, v)) # Then(FlattenSeq(u), FlattenSeq(v))
           S == {k \in Nat : \E v \in Seq(Seq(X)) : Len(v) = k /\ Fails(v)}
<1>0. PICK a \in Seq(X) : a = FlattenSeq(u) BY FlattenType
<1>1. S = {}
  <2> SUFFICES ASSUME S # {} PROVE FALSE OBVIOUS
  <2>1. PICK k \in S : \A m \in S : k <= m BY LeastNumber
  <2>2. PICK v \in Seq(Seq(X)) : Len(v) = k /\ Fails(v) BY <2>1
  <2>3. v # <<>>
    <3>1. Then(u, <<>>) = u BY ThenEmpty
    <3>2. Then(a, <<>>) = a BY ThenEmpty
    <3> QED BY <1>0, <2>2, <3>1, <3>2, FlattenEmpty
  <2>4. PICK w \in Seq(Seq(X)), x \in Seq(X) : v = Append(w, x)
    BY <2>3, SequenceEmptyOrAppend
  <2>5. Len(w) \in Nat /\ k = Len(w) + 1 BY <2>2, <2>4, AppendProperties, LenProperties
  <2>6. Len(w) \notin S
    <3> HIDE DEF S
    <3> QED BY <2>1, <2>5
  <2>7. ~ Fails(w) BY <2>5, <2>6
  <2> HIDE DEF S
  <2>8. PICK y \in Seq(Seq(X)) : y = Then(u, w) BY ThenType
  <2>9. Then(u, v) = Append(y, x)
    <3>1. PICK z \in Seq(Seq(X)) : z = <<x>> /\ v = Then(w, z) BY <2>4, ThenAppend
    <3>2. Append(y, x) = Then(y, z) BY <3>1, ThenAppend
    <3>3. Then(Then(u, w), z) = Then(u, Then(w, z)) BY ThenAssociative
    <3> QED BY <2>8, <3>1, <3>2, <3>3
  <2>10. FlattenSeq(Then(u, v)) = Then(FlattenSeq(y), x) BY <2>9, FlattenAppend
  <2>11. FlattenSeq(v) = Then(FlattenSeq(w), x) BY <2>4, FlattenAppend
  <2>12. PICK b \in Seq(X) : b = FlattenSeq(w) BY FlattenType
  <2>13. Then(Then(a, b), x) = Then(a, Then(b, x)) BY ThenAssociative
  <2> QED BY <1>0, <2>2, <2>7, <2>8, <2>10, <2>11, <2>12, <2>13
<1>2. Len(t) \in Nat /\ Len(t) \notin S BY <1>1, LenProperties
<1> QED BY <1>2

\* FlattenSeq of one sequence.
LEMMA FlattenSingle ==
  ASSUME NEW X, NEW x \in Seq(X)
  PROVE  FlattenSeq(<<x>>) = x
<1>1. <<>> \in Seq(Seq(X)) /\ <<x>> = Append(<<>>, x) BY EmptySeq
<1>2. FlattenSeq(<<x>>) = Then(<<>>, x) BY <1>1, FlattenAppend, FlattenEmpty
<1> QED BY <1>2, ThenEmpty

-----------------------------------------------------------------------------
(* What a function gives for the elements of a sequence *)

\* The sequences that F gives for the elements of s, and they one behind the other.
Each(F, s) == [i \in DOMAIN s |-> F[s[i]]]
FlatMap(F, s) == FlattenSeq(Each(F, s))

\* F gives a sequence for each element of D.
Gives(F, D, X) == F \in [D -> Seq(X)]

\* Each gives one sequence for each element of s.
LEMMA EachType ==
  ASSUME NEW D, NEW X, NEW F, Gives(F, D, X), NEW s \in Seq(D)
  PROVE  Each(F, s) \in Seq(Seq(X)) /\ Len(Each(F, s)) = Len(s)
<1>1. PICK n \in Nat : n = Len(s) /\ DOMAIN s = 1 .. n BY LenProperties
<1>2. \A i \in 1 .. n : F[s[i]] \in Seq(X) BY <1>1, ElementOfSeq DEF Gives
<1> DEFINE g(i) == F[s[i]]
           m == [i \in 1 .. n |-> g(i)]
<1>3. Each(F, s) = m BY <1>1 DEF Each
<1>4. \A i \in 1 .. n : g(i) \in Seq(X) BY <1>2
<1> HIDE DEF g
<1>5. m \in Seq(Seq(X)) BY <1>4, IsASeq
<1>6. DOMAIN m = 1 .. n OBVIOUS
<1> HIDE DEF m
<1>7. Len(m) = n BY <1>5, <1>6, LenProperties
<1> QED BY <1>1, <1>3, <1>5, <1>7

\* FlatMap gives a sequence.
LEMMA MapType ==
  ASSUME NEW D, NEW X, NEW F, Gives(F, D, X), NEW s \in Seq(D)
  PROVE  FlatMap(F, s) \in Seq(X)
BY EachType, FlattenType DEF FlatMap

\* No element gives nothing.
LEMMA MapEmpty == \A F : FlatMap(F, <<>>) = <<>>
<1> SUFFICES ASSUME NEW F PROVE FlatMap(F, <<>>) = <<>> OBVIOUS
<1>1. Each(F, <<>>) = <<>> BY DEF Each
<1> QED BY <1>1, FlattenEmpty DEF FlatMap

\* One element gives what F gives.
LEMMA MapSingle ==
  ASSUME NEW D, NEW X, NEW F, Gives(F, D, X), NEW d \in D
  PROVE  FlatMap(F, <<d>>) = F[d]
<1>1. PICK y \in Seq(X) : y = F[d] BY DEF Gives
<1>2. Each(F, <<d>>) = <<y>> BY <1>1 DEF Each
<1>3. FlattenSeq(<<y>>) = y BY FlattenSingle
<1> QED BY <1>1, <1>2, <1>3 DEF FlatMap

\* What two sequences in a row give.
LEMMA MapThen ==
  ASSUME NEW D, NEW X, NEW F, Gives(F, D, X), NEW s \in Seq(D), NEW t \in Seq(D)
  PROVE  FlatMap(F, Then(s, t)) = Then(FlatMap(F, s), FlatMap(F, t))
<1>1. PICK r \in Seq(D) : r = Then(s, t) BY ThenType
<1>2. PICK m \in Nat, n \in Nat : m = Len(s) /\ n = Len(t) BY LenProperties
<1>3. /\ Len(r) = m + n
      /\ \A i \in 1 .. m + n : r[i] = IF i <= m THEN s[i] ELSE t[i - m]
  BY <1>1, <1>2, ConcatProperties DEF Then
<1>4. PICK Y : Y = Seq(X) OBVIOUS
<1>5. PICK u \in Seq(Y), v \in Seq(Y), w \in Seq(Y) :
         /\ u = Each(F, s) /\ Len(u) = m /\ v = Each(F, t) /\ Len(v) = n
         /\ w = Each(F, r) /\ Len(w) = m + n
  BY <1>2, <1>3, <1>4, EachType
<1>6. DOMAIN s = 1 .. m /\ DOMAIN t = 1 .. n /\ DOMAIN r = 1 .. m + n
  BY <1>2, <1>3, LenProperties
<1>7. ASSUME NEW i \in 1 .. m + n
      PROVE  w[i] = IF i <= m THEN u[i] ELSE v[i - m]
  <2>1. i <= m => i \in 1 .. m BY <1>2
  <2>2. ~(i <= m) => i - m \in 1 .. n BY <1>2
  <2>3. w[i] = F[r[i]] BY <1>5, <1>6 DEF Each
  <2>4. i <= m => u[i] = F[s[i]] BY <1>5, <1>6, <2>1 DEF Each
  <2>5. ~(i <= m) => v[i - m] = F[t[i - m]] BY <1>5, <1>6, <2>2 DEF Each
  <2>6. r[i] = IF i <= m THEN s[i] ELSE t[i - m] BY <1>3
  <2> QED BY <2>3, <2>4, <2>5, <2>6
<1>8. w = Then(u, v)
  <2>1. /\ Then(u, v) \in Seq(Y) /\ Len(Then(u, v)) = m + n
        /\ \A i \in 1 .. m + n : Then(u, v)[i] = IF i <= m THEN u[i] ELSE v[i - m]
    <3>1. /\ Then(u, v) \in Seq(Y) /\ Len(Then(u, v)) = Len(u) + Len(v)
          /\ \A i \in 1 .. Len(u) + Len(v) :
                Then(u, v)[i] = IF i <= Len(u) THEN u[i] ELSE v[i - Len(u)]
      BY ThenParts, Zenon
    <3>2. Len(u) = m /\ Len(v) = n BY <1>5
    <3> QED BY <3>1, <3>2
  <2>2. PICK z \in Seq(Y) : z = Then(u, v) BY <2>1
  <2>3. Len(w) = m + n BY <1>5
  <2>4. Len(z) = Len(w) BY <2>1, <2>2, <2>3
  <2>5. \A i \in 1 .. Len(w) : w[i] = z[i] BY <1>7, <2>1, <2>2, <2>3
  <2>6. w = z BY <2>4, <2>5, SeqEqual
  <2> QED BY <2>2, <2>6
<1>9. FlattenSeq(Then(u, v)) = Then(FlattenSeq(u), FlattenSeq(v)) BY <1>4, FlattenThen
<1> QED BY <1>1, <1>5, <1>8, <1>9 DEF FlatMap

\* What one element more gives.
LEMMA MapAppend ==
  ASSUME NEW D, NEW X, NEW F, Gives(F, D, X), NEW s \in Seq(D), NEW d \in D
  PROVE  FlatMap(F, Append(s, d)) = Then(FlatMap(F, s), F[d])
<1>1. PICK t \in Seq(D) : t = <<d>> /\ Append(s, d) = Then(s, t) BY ThenAppend
<1>2. FlatMap(F, t) = F[d] BY <1>1, MapSingle
<1>3. FlatMap(F, Then(s, t)) = Then(FlatMap(F, s), FlatMap(F, t)) BY MapThen
<1> QED BY <1>1, <1>2, <1>3

\* What the first element and the others give.
LEMMA MapHead ==
  ASSUME NEW D, NEW X, NEW F, Gives(F, D, X), NEW s \in Seq(D), s # <<>>
  PROVE  FlatMap(F, s) = Then(F[Head(s)], FlatMap(F, Tail(s)))
<1>1. /\ Head(s) \in D /\ Tail(s) \in Seq(D) /\ <<Head(s)>> \in Seq(D)
      /\ s = Then(<<Head(s)>>, Tail(s))
  BY ThenHead
<1>2. PICK d \in D, t \in Seq(D), z \in Seq(D) : d = Head(s) /\ t = <<d>> /\ z = Tail(s)
  BY <1>1
<1>3. FlatMap(F, t) = F[d] BY <1>2, MapSingle
<1>4. FlatMap(F, Then(t, z)) = Then(FlatMap(F, t), FlatMap(F, z)) BY MapThen
<1> QED BY <1>1, <1>2, <1>3, <1>4

\* Where F gives nothing there is nothing.
LEMMA MapNone ==
  ASSUME NEW D, NEW X, NEW F, Gives(F, D, X), NEW s \in Seq(D),
         \A i \in 1 .. Len(s) : F[s[i]] = <<>>
  PROVE  FlatMap(F, s) = <<>>
<1> DEFINE Mute(t) == \A i \in 1 .. Len(t) : F[t[i]] = <<>>
           K == {k \in Nat : \E t \in Seq(D) : Len(t) = k /\ Mute(t) /\ FlatMap(F, t) # <<>>}
<1>1. K = {}
  <2> SUFFICES ASSUME K # {} PROVE FALSE OBVIOUS
  <2>1. PICK k \in K : \A m \in K : k <= m BY LeastNumber
  <2>2. PICK t \in Seq(D) : Len(t) = k /\ Mute(t) /\ FlatMap(F, t) # <<>> BY <2>1
  <2>3. t # <<>> BY <2>2, MapEmpty
  <2>4. PICK w \in Seq(D), d \in D : t = Append(w, d) BY <2>3, SequenceEmptyOrAppend
  <2>5. PICK n \in Nat : n = Len(w) /\ k = n + 1 BY <2>2, <2>4, AppendProperties, LenProperties
  <2>6. (\A i \in 1 .. n : t[i] = w[i]) /\ t[n + 1] = d BY <2>4, <2>5, AppendProperties
  <2>7. Mute(w) /\ F[d] = <<>>
    <3>1. \A i \in 1 .. n + 1 : F[t[i]] = <<>> BY <2>2, <2>5
    <3>2. \A i \in 1 .. n : i \in 1 .. n + 1 OBVIOUS
    <3>3. n + 1 \in 1 .. n + 1 OBVIOUS
    <3> QED BY <2>5, <2>6, <3>1, <3>2, <3>3
  <2>8. n \notin K
    <3> HIDE DEF K
    <3> QED BY <2>1, <2>5
  <2>9. FlatMap(F, w) = <<>> BY <2>5, <2>7, <2>8
  <2>10. FlatMap(F, t) = Then(FlatMap(F, w), F[d]) BY <2>4, MapAppend
  <2>11. Then(<<>>, <<>>) = <<>> BY DEF Then
  <2> QED BY <2>2, <2>7, <2>9, <2>10, <2>11
<1>2. Len(s) \in Nat /\ Len(s) \notin K BY <1>1, LenProperties
<1> QED BY <1>2

\* Where F gives something at one place only, there is that.
LEMMA MapOne ==
  ASSUME NEW D, NEW X, NEW F, Gives(F, D, X), NEW s \in Seq(D), NEW k \in 1 .. Len(s),
         \A i \in 1 .. Len(s) : i # k => F[s[i]] = <<>>
  PROVE  FlatMap(F, s) = F[s[k]]
<1>1. PICK n \in Nat : n = Len(s) BY LenProperties
<1>2. \A i \in 1 .. n : s[i] \in D BY <1>1, ElementOfSeq
<1>3. k \in 1 .. n BY <1>1
<1>4. PICK a \in Seq(D) : /\ a = SubSeq(s, 1, k - 1) /\ Len(a) = k - 1
                           /\ \A i \in 1 .. k - 1 : a[i] = s[i]
  <2>1. PICK j \in Nat : j = k - 1 BY <1>3
  <2>2. 1 \in Int /\ j \in Int /\ \A i \in 1 .. j : s[i] \in D BY <1>2, <1>3, <2>1
  <2>3. PICK a : a = SubSeq(s, 1, j) OBVIOUS
  <2>4. /\ a \in Seq(D) /\ Len(a) = IF 1 <= j THEN j - 1 + 1 ELSE 0
        /\ \A i \in 1 .. j - 1 + 1 : a[i] = s[1 + i - 1]
    BY <2>2, <2>3, SubSeqProperties
  <2>5. Len(a) = j BY <2>1, <2>4
  <2>6. \A i \in 1 .. j : a[i] = s[i] BY <2>1, <2>4
  <2> QED BY <2>1, <2>3, <2>4, <2>5, <2>6
<1>5. PICK z \in Seq(D) : /\ z = SubSeq(s, k + 1, n) /\ Len(z) = n - k
                           /\ \A i \in 1 .. n - k : z[i] = s[k + i]
  <2>1. PICK j \in Nat : j = k + 1 BY <1>3
  <2>2. j \in Int /\ n \in Int /\ \A i \in j .. n : s[i] \in D BY <1>2, <1>3, <2>1
  <2>3. PICK z : z = SubSeq(s, j, n) OBVIOUS
  <2>4. /\ z \in Seq(D) /\ Len(z) = IF j <= n THEN n - j + 1 ELSE 0
        /\ \A i \in 1 .. n - j + 1 : z[i] = s[j + i - 1]
    BY <2>2, <2>3, SubSeqProperties
  <2>5. Len(z) = n - k BY <1>3, <2>1, <2>4
  <2>6. ASSUME NEW i \in 1 .. n - k PROVE z[i] = s[k + i]
    <3>1. i \in 1 .. n - j + 1 /\ j + i - 1 = k + i BY <1>3, <2>1
    <3>2. z[i] = s[j + i - 1] BY <2>4, <3>1
    <3> QED BY <3>1, <3>2
  <2> QED BY <2>1, <2>3, <2>4, <2>5, <2>6
<1>8. FlatMap(F, a) = <<>>
  <2>1. \A i \in 1 .. k - 1 : i \in 1 .. n /\ i # k BY <1>3
  <2>2. \A i \in 1 .. Len(a) : F[a[i]] = <<>> BY <1>1, <1>4, <2>1
  <2> QED BY <2>2, MapNone
<1>9. FlatMap(F, z) = <<>>
  <2>1. ASSUME NEW i \in 1 .. n - k PROVE k + i \in 1 .. n /\ k + i # k BY <1>3
  <2>2. \A i \in 1 .. Len(z) : F[z[i]] = <<>> BY <1>1, <1>5, <2>1
  <2> QED BY <2>2, MapNone
<1>10. PICK c \in Seq(D) : c = <<s[k]>>
  <2>1. PICK d \in D : d = s[k] BY <1>2, <1>3
  <2>2. <<d>> \in Seq(D) OBVIOUS
  <2> QED BY <2>1, <2>2
<1>11. s = Then(a, Then(c, z))
  <2>1. 1 \in 1 .. Len(s) + 1 /\ k - 1 \in 1 - 1 .. Len(s) /\ n \in k - 1 .. Len(s)
    BY <1>1, <1>3
  <2>2. SubSeq(s, 1, k - 1) \o SubSeq(s, k - 1 + 1, n) = SubSeq(s, 1, n)
    BY <2>1, ConcatAdjacentSubSeq
  <2>3. k \in 1 .. Len(s) /\ n \in k .. Len(s) /\ k - 1 + 1 = k BY <1>1, <1>3
  <2>4. SubSeq(s, k, n) = <<s[k]>> \o SubSeq(s, k + 1, n) BY <2>3, SubSeqRecursiveFirst
  <2>5. SubSeq(s, 1, n) = s BY <1>1, SubSeqFull
  <2> QED BY <1>4, <1>5, <1>10, <2>2, <2>3, <2>4, <2>5 DEF Then
<1>12. FlatMap(F, c) = F[s[k]] BY <1>2, <1>3, <1>10, MapSingle
<1>13. PICK x \in Seq(D) : x = Then(c, z) BY ThenType
<1>14. FlatMap(F, x) = Then(F[s[k]], <<>>) BY <1>9, <1>12, <1>13, MapThen
<1>15. FlatMap(F, Then(a, x)) = Then(<<>>, FlatMap(F, x)) BY <1>8, MapThen
<1>16. PICK y \in Seq(X) : y = F[s[k]] BY <1>2, <1>3 DEF Gives
<1>17. Then(y, <<>>) = y /\ Then(<<>>, y) = y BY ThenEmpty
<1> QED BY <1>11, <1>13, <1>14, <1>15, <1>16, <1>17

-----------------------------------------------------------------------------
(* What datagrams tell the ports, and what they carry of LACPDUs *)

\* What a port can be told, and what each datagram tells port e.
Items == {Item(d) : d \in ToBridge}
ItemMap(e) == [d \in ToBridge |-> ItemFor(d, e)]

\* What a sequence of datagrams does to a port.
LEMMA ItemsAreMap ==
  ASSUME NEW e
  PROVE  /\ Gives(ItemMap(e), ToBridge, Items)
         /\ \A d \in ToBridge : ItemMap(e)[d] = ItemFor(d, e)
         /\ \A s \in Seq(ToBridge) : ItemsFor(s, e) = FlatMap(ItemMap(e), s)
<1>1. ASSUME NEW d \in ToBridge PROVE ItemFor(d, e) \in Seq(Items)
  <2>1. PICK x \in Items : x = Item(d) BY DEF Items
  <2>2. <<x>> \in Seq(Items) /\ <<>> \in Seq(Items) OBVIOUS
  <2> QED BY <2>1, <2>2 DEF ItemFor
<1>2. ASSUME NEW s \in Seq(ToBridge) PROVE ItemsFor(s, e) = FlatMap(ItemMap(e), s)
  <2>1. \A i \in DOMAIN s : s[i] \in ToBridge BY LenProperties, ElementOfSeq
  <2>2. [i \in DOMAIN s |-> ItemFor(s[i], e)] = Each(ItemMap(e), s)
    BY <2>1 DEF Each, ItemMap
  <2> QED BY <2>2 DEF ItemsFor, FlatMap
<1>3. ItemMap(e) \in [ToBridge -> Seq(Items)] BY <1>1 DEF ItemMap
<1> QED BY <1>2, <1>3 DEF Gives, ItemMap

\* What a sequence of datagrams tells a port is a sequence of items.
LEMMA ItemsType ==
  ASSUME NEW e, NEW s \in Seq(ToBridge)
  PROVE  ItemsFor(s, e) \in Seq(Items)
BY ItemsAreMap, MapType

\* What one datagram more tells it.
LEMMA ItemsAppend ==
  ASSUME NEW e, NEW s \in Seq(ToBridge), NEW d \in ToBridge
  PROVE  ItemsFor(Append(s, d), e) = Then(ItemsFor(s, e), ItemFor(d, e))
<1>1. PICK t \in Seq(ToBridge) : t = Append(s, d) BY AppendProperties
<1>2. FlatMap(ItemMap(e), Append(s, d)) = Then(FlatMap(ItemMap(e), s), ItemMap(e)[d])
  BY ItemsAreMap, MapAppend
<1> QED BY <1>1, <1>2, ItemsAreMap

\* What the first datagram and the others tell it.
LEMMA ItemsHead ==
  ASSUME NEW e, NEW s \in Seq(ToBridge), s # <<>>
  PROVE  /\ Head(s) \in ToBridge /\ Tail(s) \in Seq(ToBridge)
         /\ ItemsFor(s, e) = Then(ItemFor(Head(s), e), ItemsFor(Tail(s), e))
<1>1. PICK d \in ToBridge, t \in Seq(ToBridge) : d = Head(s) /\ t = Tail(s)
  BY HeadTailProperties
<1>2. FlatMap(ItemMap(e), s) = Then(ItemMap(e)[Head(s)], FlatMap(ItemMap(e), Tail(s)))
  BY ItemsAreMap, MapHead
<1> QED BY <1>1, <1>2, ItemsAreMap

\* Datagrams none of which is for port e.
LEMMA ItemsNone ==
  ASSUME NEW e, NEW s \in Seq(ToBridge), \A i \in DOMAIN s : ~Tells(s[i], e)
  PROVE  ItemsFor(s, e) = <<>>
<1>1. \A i \in 1 .. Len(s) : s[i] \in ToBridge /\ i \in DOMAIN s
  BY LenProperties, ElementOfSeq
<1>2. \A i \in 1 .. Len(s) : ItemMap(e)[s[i]] = <<>> BY <1>1, ItemsAreMap DEF ItemFor
<1>3. FlatMap(ItemMap(e), s) = <<>> BY <1>2, ItemsAreMap, MapNone
<1> QED BY <1>3, ItemsAreMap

\* Datagrams of which one is for port e.
LEMMA ItemsOne ==
  ASSUME NEW e, NEW s \in Seq(ToBridge), NEW k \in DOMAIN s, Tells(s[k], e),
         \A i \in DOMAIN s : i # k => ~Tells(s[i], e)
  PROVE  ItemsFor(s, e) = <<Item(s[k])>>
<1>1. \A i \in 1 .. Len(s) : s[i] \in ToBridge /\ i \in DOMAIN s
  BY LenProperties, ElementOfSeq
<1>2. k \in 1 .. Len(s) BY LenProperties
<1>3. \A i \in 1 .. Len(s) : i # k => ItemMap(e)[s[i]] = <<>>
  BY <1>1, ItemsAreMap DEF ItemFor
<1>4. FlatMap(ItemMap(e), s) = ItemMap(e)[s[k]] BY <1>2, <1>3, ItemsAreMap, MapOne
<1>5. ItemMap(e)[s[k]] = <<Item(s[k])>> BY <1>1, <1>2, ItemsAreMap DEF ItemFor
<1> QED BY <1>4, <1>5, ItemsAreMap

\* No datagram tells nothing.
LEMMA ItemsEmpty == \A e : ItemsFor(<<>>, e) = <<>>
<1> SUFFICES ASSUME NEW e PROVE ItemsFor(<<>>, e) = <<>> OBVIOUS
<1>1. <<>> \in Seq(ToBridge) /\ DOMAIN <<>> = {} OBVIOUS
<1> QED BY <1>1, ItemsNone

\* A pair is a sequence of one with one more.
LEMMA PairIsAppend ==
  ASSUME NEW X, NEW c \in X, NEW d \in X
  PROVE  <<c, d>> = Append(<<c>>, d)
<1>1. PICK s \in Seq(X) : s = <<c>>
  <2>1. <<c>> \in Seq(X) OBVIOUS
  <2> QED BY <2>1
<1>2. Len(s) = 1 /\ s[1] = c /\ 1 \in 1 .. 1 /\ 1 + 1 = 2 BY <1>1
<1>3. /\ Append(s, d) \in Seq(X) /\ Len(Append(s, d)) = Len(s) + 1
      /\ \A i \in 1 .. Len(s) : Append(s, d)[i] = s[i]
      /\ Append(s, d)[Len(s) + 1] = d
  BY AppendProperties
<1>4. PICK t \in Seq(X) : t = Append(s, d) /\ Len(t) = 2 /\ t[1] = c /\ t[2] = d
  BY <1>2, <1>3
<1>5. PICK u \in Seq(X) : u = <<c, d>> /\ Len(u) = 2 /\ u[1] = c /\ u[2] = d
  <2>1. <<c, d>> \in Seq(X) OBVIOUS
  <2> QED BY <2>1
<1>6. \A i \in 1 .. 2 : i = 1 \/ i = 2 OBVIOUS
<1>7. t = u BY <1>4, <1>5, <1>6, SeqEqual
<1> QED BY <1>1, <1>4, <1>5, <1>7

\* What one datagram and what two of them tell.
LEMMA ItemsTwo ==
  ASSUME NEW e, NEW c \in ToBridge, NEW d \in ToBridge
  PROVE  /\ ItemsFor(<<c>>, e) = ItemFor(c, e)
         /\ ItemsFor(<<c, d>>, e) = Then(ItemFor(c, e), ItemFor(d, e))
<1>1. PICK s \in Seq(ToBridge) : s = <<c>>
  <2>1. <<c>> \in Seq(ToBridge) OBVIOUS
  <2> QED BY <2>1
<1>2. FlatMap(ItemMap(e), <<c>>) = ItemMap(e)[c] BY ItemsAreMap, MapSingle
<1>3. ItemsFor(s, e) = ItemFor(c, e) BY <1>1, <1>2, ItemsAreMap
<1>4. Append(s, d) = <<c, d>> BY <1>1, PairIsAppend
<1>5. ItemsFor(Append(s, d), e) = Then(ItemsFor(s, e), ItemFor(d, e)) BY ItemsAppend
<1> QED BY <1>1, <1>3, <1>4, <1>5

\* What the manager's socket holds of LACPDUs.
ReportsOf(q) == FlattenSeq([i \in DOMAIN q |-> ReportOf(q[i])])

\* A LACPDU with its sender, and what each datagram to the manager carries.
Frame == [from : End, pdu : Pdu]
ReportMap == [d \in ToMngr |-> ReportOf(d)]

\* The LACPDUs in a socket are those of its datagrams, in a row.
LEMMA ReportsAreMap ==
  /\ Gives(ReportMap, ToMngr, Frame)
  /\ \A d \in ToMngr : ReportMap[d] = ReportOf(d)
  /\ \A q \in Seq(ToMngr) : ReportsOf(q) = FlatMap(ReportMap, q)
<1>1. ASSUME NEW d \in ToMngr PROVE ReportOf(d) \in Seq(Frame)
  <2>1. CASE d.cmd = "BPDU"
    <3>1. d.from \in Bridge /\ d.port \in PortNo /\ d.pdu \in Pdu BY <2>1 DEF ToMngr
    <3>2. PICK x \in Frame : x = [from |-> <<d.from, d.port>>, pdu |-> d.pdu]
      BY <3>1 DEF Frame, End
    <3>3. <<x>> \in Seq(Frame) OBVIOUS
    <3> QED BY <2>1, <3>2, <3>3 DEF ReportOf
  <2>2. CASE d.cmd # "BPDU"
    <3>1. ReportOf(d) = <<>> BY <2>2 DEF ReportOf
    <3> QED BY <3>1, EmptySeq
  <2> QED BY <2>1, <2>2
<1>2. ASSUME NEW q \in Seq(ToMngr) PROVE ReportsOf(q) = FlatMap(ReportMap, q)
  <2>1. \A i \in DOMAIN q : q[i] \in ToMngr BY LenProperties, ElementOfSeq
  <2>2. [i \in DOMAIN q |-> ReportOf(q[i])] = Each(ReportMap, q)
    BY <2>1 DEF Each, ReportMap
  <2> QED BY <2>2 DEF ReportsOf, FlatMap
<1>3. ReportMap \in [ToMngr -> Seq(Frame)] BY <1>1 DEF ReportMap
<1> QED BY <1>2, <1>3 DEF Gives, ReportMap

\* Each is a LACPDU of some port.
LEMMA ReportsType ==
  ASSUME NEW q \in Seq(ToMngr)
  PROVE  ReportsOf(q) \in Seq(Frame)
BY ReportsAreMap, MapType

\* An empty socket holds no LACPDU.
LEMMA ReportsEmpty == ReportsOf(<<>>) = <<>>
<1>1. <<>> \in Seq(ToMngr) OBVIOUS
<1> QED BY <1>1, ReportsAreMap, MapEmpty

\* The LACPDUs of a socket with one datagram more.
LEMMA ReportsAppend ==
  ASSUME NEW q \in Seq(ToMngr), NEW d \in ToMngr
  PROVE  ReportsOf(Append(q, d)) = Then(ReportsOf(q), ReportOf(d))
<1>1. PICK t \in Seq(ToMngr) : t = Append(q, d) BY AppendProperties
<1>2. FlatMap(ReportMap, Append(q, d)) = Then(FlatMap(ReportMap, q), ReportMap[d])
  BY ReportsAreMap, MapAppend
<1> QED BY <1>1, <1>2, ReportsAreMap

\* The LACPDUs of the first datagram and of the others.
LEMMA ReportsHead ==
  ASSUME NEW q \in Seq(ToMngr), q # <<>>
  PROVE  /\ Head(q) \in ToMngr /\ Tail(q) \in Seq(ToMngr)
         /\ ReportsOf(q) = Then(ReportOf(Head(q)), ReportsOf(Tail(q)))
<1>1. PICK d \in ToMngr, t \in Seq(ToMngr) : d = Head(q) /\ t = Tail(q)
  BY HeadTailProperties
<1>2. FlatMap(ReportMap, q) = Then(ReportMap[Head(q)], FlatMap(ReportMap, Tail(q)))
  BY ReportsAreMap, MapHead
<1> QED BY <1>1, <1>2, ReportsAreMap

-----------------------------------------------------------------------------
(* The sockets *)

\* The sockets hold what is meant for their bridge, and nothing before it starts.
RoomInv ==
    \A b \in Bridge : /\ life[b] = "new" => inbox[b] = <<>>
                      /\ \A i \in DOMAIN inbox[b] : inbox[b][i].to = b

\* RoomInv survives a step that leaves the sockets alone and makes no bridge new.
LEMMA RoomSame ==
  ASSUME RoomInv, UNCHANGED inbox, \A b \in Bridge : life'[b] = "new" => life[b] = "new"
  PROVE  RoomInv'
BY DEF RoomInv

\* RoomInv survives every step.
LEMMA RoomStep ==
  ASSUME RoomInv, TypeOK, [Next]_vars
  PROVE  RoomInv'
<1>1. life \in [Bridge -> {"new", "up", "leaving", "gone"}] /\ inbox \in [Bridge -> Seq(ToBridge)]
  BY VarTypes
<1>2. CASE UNCHANGED <<inbox, life>> BY <1>2, RoomSame
<1>3. ASSUME NEW b \in Bridge, BridgeStep(b) PROVE RoomInv'
  <2>1. CASE Start(b) \/ StartCall(b) \/ Transmit(b) \/ Quit(b)
    BY <1>1, <2>1, RoomSame DEF Start, StartCall, Transmit, Quit
  <2>2. CASE Read(b)
    <3>1. /\ inbox' = [inbox EXCEPT ![b] = Tail(@)] /\ life[b] = "up" /\ inbox[b] # <<>>
          /\ life' = life \/ life' = [life EXCEPT ![b] = "leaving"]
      BY <2>2 DEF Read, Waits
    <3>2. PICK s \in Seq(ToBridge) : s = inbox[b] /\ s # <<>> BY <1>1, <3>1
    <3>3. /\ Tail(s) \in Seq(ToBridge) /\ Len(Tail(s)) = Len(s) - 1 /\ Len(s) \in Nat
          /\ \A i \in 1 .. Len(Tail(s)) : Tail(s)[i] = s[i + 1]
      BY <3>2, HeadTailProperties, LenProperties
    <3>4. DOMAIN s = 1 .. Len(s) /\ DOMAIN Tail(s) = 1 .. Len(Tail(s)) BY <3>3, LenProperties
    <3>5. ASSUME NEW i \in DOMAIN Tail(s) PROVE Tail(s)[i].to = b
      <4>1. i + 1 \in DOMAIN s /\ Tail(s)[i] = s[i + 1] BY <3>3, <3>4
      <4> QED BY <3>2, <4>1 DEF RoomInv
    <3>6. \A c \in Bridge : c # b => inbox'[c] = inbox[c] BY <1>1, <3>1
    <3>7. inbox'[b] = Tail(s) BY <1>1, <3>1, <3>2
    <3>8. \A c \in Bridge : life'[c] = "new" => life[c] = "new" /\ c # b BY <1>1, <3>1
    <3> QED BY <3>5, <3>6, <3>7, <3>8 DEF RoomInv
  <2>3. CASE SayBye(b) \/ Crash(b)
    <3>1. /\ life' = [life EXCEPT ![b] = "gone"] /\ inbox' = [inbox EXCEPT ![b] = <<>>]
      BY <2>3 DEF SayBye, Crash, Ends
    <3>2. \A c \in Bridge : c # b => inbox'[c] = inbox[c] /\ life'[c] = life[c] BY <1>1, <3>1
    <3>3. inbox'[b] = <<>> /\ DOMAIN <<>> = {} BY <1>1, <3>1
    <3> QED BY <3>2, <3>3 DEF RoomInv
  <2> QED BY <1>3, <2>1, <2>2, <2>3 DEF BridgeStep
<1>4. CASE Deliver
  <2> DEFINE d == Head(out)
  <2>1. /\ out # <<>> /\ life' = life
        /\ inbox' = IF Alive(d.to) THEN [inbox EXCEPT ![d.to] = Append(@, d)] ELSE inbox
    BY <1>4 DEF Deliver
  <2>2. d \in ToBridge /\ d.to \in Bridge
    <3>1. d \in ToBridge BY <2>1, VarTypes, TailType
    <3> QED BY <3>1 DEF ToBridge
  <2>3. CASE ~Alive(d.to) BY <2>1, <2>3, RoomSame
  <2>4. CASE Alive(d.to)
    <3>1. PICK b \in Bridge, s \in Seq(ToBridge) : b = d.to /\ s = inbox[b] BY <1>1, <2>2
    <3> HIDE DEF d
    <3>2. inbox' = [inbox EXCEPT ![b] = Append(s, d)] BY <2>1, <2>4, <3>1
    <3>3. /\ Append(s, d) \in Seq(ToBridge) /\ Len(Append(s, d)) = Len(s) + 1 /\ Len(s) \in Nat
          /\ \A i \in 1 .. Len(s) : Append(s, d)[i] = s[i]
          /\ Append(s, d)[Len(s) + 1] = d
      BY <2>2, AppendProperties, LenProperties
    <3>4. /\ DOMAIN Append(s, d) = 1 .. Len(s) + 1
          /\ DOMAIN s = 1 .. Len(s)
      BY <3>3, LenProperties
    <3>5. \A i \in 1 .. Len(s) : s[i].to = b BY <3>1, <3>4 DEF RoomInv
    <3>6. ASSUME NEW i \in 1 .. Len(s) + 1 PROVE Append(s, d)[i].to = b
      <4>1. i \in 1 .. Len(s) \/ i = Len(s) + 1 BY <3>3
      <4> QED BY <3>1, <3>3, <3>5, <4>1
    <3>7. \A c \in Bridge : c # b => inbox'[c] = inbox[c] BY <1>1, <3>2
    <3>8. inbox'[b] = Append(s, d) BY <1>1, <3>2
    <3>9. life[b] # "new" BY <2>4, <3>1 DEF Alive
    <3> QED BY <2>1, <3>4, <3>6, <3>7, <3>8, <3>9 DEF RoomInv
  <2> QED BY <2>3, <2>4
<1>5. CASE ReadUid \/ Operator \/ ManagerReturns \/ ManagerCrash \/ ManagerStart \/ UNCHANGED vars
  BY <1>2, <1>5 DEF ReadUid, Operator, LinkBridges, UnlinkPort, Command, QuitManager,
                    ManagerReturns, ManagerCrash, ManagerGone, ManagerStart, vars
<1> QED BY <1>3, <1>4, <1>5 DEF Next

\* The invariant the refinement needs.
CablesInv == FramesInv /\ RoomInv

-----------------------------------------------------------------------------
(* The mapping to Cables *)

\* The variables alive and way of Cables, under names of their own.
AliveSet == {b \in Bridge : Alive(b)}
WayMap == [e \in End |-> Way(e)]

\* The way to a port of a process that runs.
LEMMA WayIs ==
  ASSUME TypeOK, NEW e \in End
  PROVE  /\ Alive(e[1]) => Way(e) = Then(ItemsFor(inbox[e[1]], e), ItemsFor(out, e))
         /\ ~Alive(e[1]) => Way(e) = <<>>
         /\ Way(e) \in Seq(Items)
         /\ e[1] \in Bridge /\ e[2] \in PortNo /\ e = <<e[1], e[2]>>
         /\ inbox[e[1]] \in Seq(ToBridge) /\ out \in Seq(ToBridge)
<1>1. e[1] \in Bridge /\ e[2] \in PortNo /\ e = <<e[1], e[2]>> BY DEF End
<1>2. inbox[e[1]] \in Seq(ToBridge) /\ out \in Seq(ToBridge) BY <1>1, VarTypes
<1>3. Alive(e[1]) => Way(e) = Then(ItemsFor(inbox[e[1]], e), ItemsFor(out, e))
  BY DEF Way, Then
<1>4. ~Alive(e[1]) => Way(e) = <<>> BY DEF Way
<1>5. Then(ItemsFor(inbox[e[1]], e), ItemsFor(out, e)) \in Seq(Items)
  BY <1>2, ItemsType, ThenType
<1> QED BY <1>1, <1>2, <1>3, <1>4, <1>5, EmptySeq

\* The way to a port after a step.
LEMMA WayNext ==
  ASSUME NEW e \in End
  PROVE  /\ Alive(e[1])' => Way(e)' = Then(ItemsFor(inbox'[e[1]], e), ItemsFor(out', e))
         /\ ~Alive(e[1])' => Way(e)' = <<>>
<1>1. Alive(e[1])' => Way(e)' = Then(ItemsFor(inbox'[e[1]], e), ItemsFor(out', e))
  BY DEF Way, Then, ItemsFor
<1>2. ~Alive(e[1])' => Way(e)' = <<>> BY DEF Way
<1> QED BY <1>1, <1>2

\* What a step has to leave alone to be none of Cables.
LEMMA CablesSame ==
  ASSUME \A b \in Bridge : Alive(b)' <=> Alive(b),
         \A e \in End : Way(e)' = Way(e),
         link' = link, ReportsOf(queue') = ReportsOf(queue), peer' = peer
  PROVE  UNCHANGED C!vars
<1>1. Reports' = Reports BY DEF Reports, ReportsOf
<1>2. AliveSet' = AliveSet BY DEF AliveSet
<1>3. WayMap' = WayMap BY DEF WayMap
<1> QED BY <1>1, <1>2, <1>3 DEF C!vars, AliveSet, WayMap

\* A step that neither sends nor reads nor brings to life nor kills.
LEMMA WaySame ==
  ASSUME UNCHANGED <<inbox, out>>, \A b \in Bridge : Alive(b)' <=> Alive(b), NEW e \in End
  PROVE  Way(e)' = Way(e)
<1>1. e[1] \in Bridge BY DEF End
<1> QED BY <1>1 DEF Way, ItemsFor

-----------------------------------------------------------------------------
(* The steps of a bridge, and a send of the manager *)

\* What a datagram adds to the manager's socket of the abstract bridges.
LEMMA SendReports ==
  ASSUME TypeOK, NEW d \in ToMngr, ToManager(d)
  PROVE  /\ mngr = "gone" => ReportsOf(queue') = ReportsOf(queue)
         /\ mngr # "gone" => ReportsOf(queue') = Then(ReportsOf(queue), ReportOf(d))
<1>1. CASE mngr = "gone" BY <1>1 DEF ToManager
<1>2. CASE mngr # "gone"
  <2>1. queue' = Append(queue, d) BY <1>2 DEF ToManager
  <2> QED BY <1>2, <2>1, VarTypes, ReportsAppend
<1> QED BY <1>1, <1>2

\* A datagram that is no LACPDU adds nothing.
LEMMA SendNothing ==
  ASSUME TypeOK, NEW d \in ToMngr, ToManager(d), d.cmd # "BPDU"
  PROVE  ReportsOf(queue') = ReportsOf(queue)
<1>1. ReportOf(d) = <<>> BY DEF ReportOf
<1>2. PICK r \in Seq(Frame) : r = ReportsOf(queue) BY VarTypes, ReportsType
<1>3. Then(r, <<>>) = r BY ThenEmpty
<1> QED BY <1>1, <1>2, <1>3, SendReports

\* bridge_start.
LEMMA StartJoins ==
  ASSUME CablesInv, NEW b \in Bridge, Start(b)
  PROVE  C!Join(b)
<1>1. TypeOK /\ KnownInv /\ RoomInv BY DEF CablesInv, FramesInv, TableInv
<1>2. /\ life[b] = "new" /\ life' = [life EXCEPT ![b] = "up"]
      /\ UNCHANGED <<link, out, inbox, peer>>
  BY DEF Start, mngrVars
<1>3. ReportsOf(queue') = ReportsOf(queue)
  <2>1. Hello(b) \in ToMngr /\ Hello(b).cmd # "BPDU" BY DEF Hello, ToMngr
  <2> QED BY <1>1, <2>1, SendNothing DEF Start
<1>4. Alive(b)' /\ ~Alive(b) /\ \A c \in Bridge : c # b => (Alive(c)' <=> Alive(c))
  BY <1>1, <1>2, VarTypes DEF Alive
<1>5. AliveSet' = AliveSet \cup {b} BY <1>4 DEF AliveSet
<1>6. ASSUME NEW e \in End PROVE Way(e)' = Way(e)
  <2>1. e[1] \in Bridge /\ out \in Seq(ToBridge) BY <1>1, WayIs
  <2>2. CASE e[1] = b
    <3>1. Way(e) = <<>> BY <1>1, <1>4, <2>2, WayIs
    <3>2. inbox'[e[1]] = <<>> BY <1>1, <1>2, <2>2 DEF RoomInv
    <3>3. \A i \in DOMAIN out : ~Tells(out[i], e)
      BY <1>1, <1>2, <2>2, OutItem DEF KnownInv, Tells
    <3>4. ItemsFor(out', e) = <<>> /\ ItemsFor(inbox'[e[1]], e) = <<>>
      BY <1>2, <2>1, <3>2, <3>3, ItemsNone, ItemsEmpty
    <3>5. Then(<<>>, <<>>) = <<>> BY DEF Then
    <3> QED BY <1>4, <2>2, <3>1, <3>4, <3>5, WayNext
  <2>3. CASE e[1] # b
    <3>1. Alive(e[1])' <=> Alive(e[1]) BY <1>4, <2>1, <2>3
    <3> QED BY <1>1, <1>2, <3>1, WayIs, WayNext
  <2> QED BY <2>2, <2>3
<1>7. WayMap' = WayMap BY <1>6 DEF WayMap
<1>8. Reports' = Reports BY <1>3 DEF Reports, ReportsOf
<1> QED BY <1>2, <1>5, <1>7, <1>8 DEF C!Join, AliveSet, WayMap

\* A process that ends.
LEMMA EndsLeaves ==
  ASSUME CablesInv, NEW b \in Bridge, Ends(b), Alive(b), UNCHANGED mngrVars,
         ReportsOf(queue') = ReportsOf(queue)
  PROVE  C!Leave(b)
<1>1. TypeOK BY DEF CablesInv, FramesInv, TableInv
<1>2. /\ life' = [life EXCEPT ![b] = "gone"] /\ inbox' = [inbox EXCEPT ![b] = <<>>]
      /\ peer' = [e \in End |-> IF e[1] = b THEN None ELSE peer[e]]
      /\ UNCHANGED <<link, out>>
  BY DEF Ends, mngrVars
<1>3. ~Alive(b)' /\ \A c \in Bridge : c # b => (Alive(c)' <=> Alive(c))
  BY <1>1, <1>2, VarTypes DEF Alive
<1>4. AliveSet' = AliveSet \ {b} /\ b \in AliveSet BY <1>3 DEF AliveSet
<1>5. ASSUME NEW e \in End PROVE Way(e)' = IF e[1] = b THEN <<>> ELSE Way(e)
  <2>1. e[1] \in Bridge BY <1>1, WayIs
  <2>2. CASE e[1] = b BY <1>3, <2>2, WayNext
  <2>3. CASE e[1] # b
    <3>1. (Alive(e[1])' <=> Alive(e[1])) /\ inbox'[e[1]] = inbox[e[1]]
      BY <1>1, <1>2, <1>3, <2>1, <2>3, VarTypes
    <3> QED BY <1>1, <1>2, <2>3, <3>1, WayIs, WayNext
  <2> QED BY <2>2, <2>3
<1>6. WayMap' = [e \in End |-> IF e[1] = b THEN <<>> ELSE WayMap[e]] BY <1>5 DEF WayMap
<1>7. Reports' = Reports BY DEF Reports, ReportsOf
<1> QED BY <1>2, <1>4, <1>6, <1>7 DEF C!Leave, C!End, End, C!None, None, AliveSet, WayMap

\* bridge_shutdown, and the death of a process.
LEMMA SayByeLeaves ==
  ASSUME CablesInv, NEW b \in Bridge, SayBye(b) \/ Crash(b)
  PROVE  C!Leave(b)
<1>1. TypeOK BY DEF CablesInv, FramesInv, TableInv
<1>2. CASE SayBye(b)
  <2>1. Bye(b) \in ToMngr /\ Bye(b).cmd # "BPDU" BY DEF Bye, ToMngr
  <2>2. ReportsOf(queue') = ReportsOf(queue) BY <1>1, <1>2, <2>1, SendNothing DEF SayBye
  <2> QED BY <1>2, <2>2, EndsLeaves DEF SayBye, Alive
<1>3. CASE Crash(b)
  <2>1. ReportsOf(queue') = ReportsOf(queue) BY <1>3 DEF Crash
  <2> QED BY <1>3, <2>1, EndsLeaves DEF Crash, mngrVars
<1> QED BY <1>2, <1>3

\* bridge_tx_bpdu.
LEMMA TransmitSends ==
  ASSUME CablesInv, NEW b \in Bridge, Transmit(b)
  PROVE  (\E e \in End, m \in Pdu : C!Send(e, m)) \/ UNCHANGED C!vars
<1>1. TypeOK BY DEF CablesInv, FramesInv, TableInv
<1>2. /\ call[b] # <<>> /\ life[b] = "up" /\ UNCHANGED <<link, out, life, inbox, peer>>
  BY DEF Transmit, mngrVars
<1>3. PICK p \in PortNo, m \in Pdu : p = Head(call[b])[1] /\ m = Head(call[b])[2]
  <2>1. call[b] \in Seq(PortNo \X Pdu) BY <1>1, VarTypes
  <2>2. Head(call[b]) \in PortNo \X Pdu BY <1>2, <2>1, TailType
  <2> QED BY <2>2
<1> DEFINE d == Report(b, p, m)
           e == <<b, p>>
<1>4. d \in ToMngr /\ d.cmd = "BPDU" /\ d.from = b /\ d.port = p /\ d.pdu = m
  BY DEF Report, ToMngr
<1>5. ToManager(d) BY <1>3 DEF Transmit
<1> HIDE DEF d
<1>6. \A c \in Bridge : Alive(c)' <=> Alive(c) BY <1>2 DEF Alive
<1>7. \A x \in End : Way(x)' = Way(x) BY <1>2, <1>6, WaySame
<1>8. CASE mngr = "gone"
  <2>1. ReportsOf(queue') = ReportsOf(queue) BY <1>1, <1>4, <1>5, <1>8, SendReports
  <2> QED BY <1>2, <1>6, <1>7, <2>1, CablesSame
<1>9. CASE mngr # "gone"
  <2>1. ReportsOf(queue') = Then(ReportsOf(queue), ReportOf(d))
    BY <1>1, <1>4, <1>5, <1>9, SendReports
  <2>2. PICK x \in Frame : x = [from |-> e, pdu |-> m] BY DEF Frame, End
  <2>3. ReportOf(d) = <<x>> BY <1>4, <2>2 DEF ReportOf
  <2>4. PICK r \in Seq(Frame) : r = ReportsOf(queue) BY <1>1, VarTypes, ReportsType
  <2>5. Append(r, x) = Then(r, <<x>>) BY ThenAppend
  <2>6. Reports' = Append(Reports, x) BY <2>1, <2>3, <2>4, <2>5 DEF Reports, ReportsOf
  <2>7. AliveSet' = AliveSet /\ WayMap' = WayMap BY <1>6, <1>7 DEF AliveSet, WayMap
  <2>8. e \in End /\ e[1] = b /\ b \in AliveSet BY <1>2 DEF End, AliveSet, Alive
  <2> HIDE DEF e
  <2>9. C!Send(e, m) BY <1>2, <2>2, <2>6, <2>7, <2>8 DEF C!Send, AliveSet, WayMap
  <2> QED BY <2>8, <2>9
<1> QED BY <1>8, <1>9

\* One port of its bridge reads what is first on its way.
LEMMA ReadReceives ==
  ASSUME CablesInv, NEW b \in Bridge, Read(b)
  PROVE  (\E e \in End : C!Receive(e)) \/ UNCHANGED C!vars
<1>1. TypeOK /\ RoomInv BY DEF CablesInv, FramesInv, TableInv
<1>2. PICK s \in Seq(ToBridge) : s = inbox[b] /\ s # <<>> BY <1>1, VarTypes DEF Read
<1>3. PICK d \in ToBridge, t \in Seq(ToBridge) : d = Head(s) /\ t = Tail(s)
  BY <1>2, TailType
<1>4. /\ life[b] = "up" /\ inbox' = [inbox EXCEPT ![b] = t]
      /\ peer' = IF d.cmd \in {"CONNECT", "DISCONNECT"}
                 THEN [peer EXCEPT ![<<b, d.port>>] = d.from] ELSE peer
      /\ life' = IF d.cmd = "BRIDGE_SHUTDOWN" THEN [life EXCEPT ![b] = "leaving"] ELSE life
      /\ UNCHANGED <<link, out, queue>>
  BY <1>2, <1>3 DEF Read, Waits, mngrVars
<1>5. d.to = b /\ d.port \in PortNo
  <2>1. 1 \in DOMAIN s /\ Head(s) = s[1]
    <3>1. Len(s) \in Nat /\ Len(s) # 0 /\ DOMAIN s = 1 .. Len(s) BY <1>2, EmptySeq, LenProperties
    <3>2. Head(s) = s[1] BY <1>2, HeadTailProperties
    <3> QED BY <3>1, <3>2
  <2>2. d.to = b BY <1>1, <1>2, <1>3, <2>1 DEF RoomInv
  <2> QED BY <2>2 DEF ToBridge
<1>6. \A c \in Bridge : Alive(c)' <=> Alive(c) BY <1>1, <1>4, VarTypes DEF Alive
<1>7. \A c \in Bridge : inbox'[c] = IF c = b THEN t ELSE inbox[c] BY <1>1, <1>4, VarTypes
<1>8. ReportsOf(queue') = ReportsOf(queue) /\ Alive(b) BY <1>4 DEF Alive
\* The way to a port of b without what d is for it.
<1>9. ASSUME NEW e \in End, e[1] = b
      PROVE  /\ Way(e) = Then(ItemFor(d, e), Way(e)') /\ Way(e)' \in Seq(Items)
  <2>1. PICK x \in Seq(Items), y \in Seq(Items), z \in Seq(Items) :
           x = ItemFor(d, e) /\ y = ItemsFor(t, e) /\ z = ItemsFor(out, e)
    <3>1. ItemFor(d, e) \in Seq(Items)
      <4>1. <<d>> \in Seq(ToBridge) OBVIOUS
      <4>2. ItemsFor(<<d>>, e) \in Seq(Items) BY <4>1, ItemsType
      <4> QED BY <4>2, ItemsTwo
    <3> QED BY <1>1, <3>1, ItemsType, VarTypes
  <2>2. ItemsFor(s, e) = Then(x, y) BY <1>2, <1>3, <2>1, ItemsHead
  <2>3. Way(e) = Then(Then(x, y), z) BY <1>1, <1>2, <1>8, <1>9, <2>1, <2>2, WayIs
  <2>4. Way(e)' = Then(y, z) BY <1>4, <1>6, <1>7, <1>8, <1>9, <2>1, WayNext
  <2>5. Then(Then(x, y), z) = Then(x, Then(y, z)) BY ThenAssociative
  <2>6. Then(y, z) \in Seq(Items) BY ThenType
  <2> QED BY <2>1, <2>3, <2>4, <2>5, <2>6
<1>10. ASSUME NEW e \in End, ~Tells(d, e) PROVE Way(e)' = Way(e)
  <2>1. CASE e[1] = b
    <3>1. ItemFor(d, e) = <<>> BY <1>10 DEF ItemFor
    <3>2. PICK y \in Seq(Items) : y = Way(e)' BY <1>9, <2>1
    <3>3. Then(<<>>, y) = y BY ThenEmpty
    <3> QED BY <1>9, <2>1, <3>1, <3>2, <3>3
  <2>2. CASE e[1] # b
    <3>1. e[1] \in Bridge BY <1>1, WayIs
    <3>2. inbox'[e[1]] = inbox[e[1]] /\ (Alive(e[1])' <=> Alive(e[1]))
      BY <1>6, <1>7, <2>2, <3>1
    <3> QED BY <1>1, <1>4, <3>2, WayIs, WayNext
  <2> QED BY <2>1, <2>2
<1>11. CASE d.cmd = "BRIDGE_SHUTDOWN"
  <2>1. \A e \in End : Way(e)' = Way(e) BY <1>10, <1>11 DEF Tells
  <2>2. peer' = peer BY <1>4, <1>11
  <2> QED BY <1>4, <1>6, <1>8, <2>1, <2>2, CablesSame
<1>12. CASE d.cmd # "BRIDGE_SHUTDOWN"
  <2> DEFINE e == <<b, d.port>>
  <2>1. e \in End /\ e[1] = b /\ Tells(d, e) BY <1>5, <1>12 DEF End, Tells
  <2>2. \A x \in End : x # e => ~Tells(d, x) BY <1>5 DEF End, Tells
  <2> HIDE DEF e
  <2>3. PICK i \in Items : i = Item(d) BY DEF Items
  <2>4. PICK y \in Seq(Items) : y = Way(e)' BY <1>9, <2>1
  <2>5. Way(e) = Then(<<i>>, y) BY <1>9, <2>1, <2>3, <2>4 DEF ItemFor
  <2>6. Way(e) # <<>> /\ Head(Way(e)) = i /\ Tail(Way(e)) = y
    BY <2>5 DEF Then
  <2>7. WayMap' = [WayMap EXCEPT ![e] = Tail(@)]
    BY <1>10, <2>1, <2>2, <2>4, <2>6 DEF WayMap
  <2>8. WayMap[e] = Way(e) BY <2>1 DEF WayMap
  <2>9. i.cmd = d.cmd /\ i.from = d.from BY <2>3 DEF Item
  <2>10. d.cmd = "BPDU" \/ d.cmd \in {"CONNECT", "DISCONNECT"} BY <1>12 DEF ToBridge
  <2>11. peer' = IF i.cmd = "BPDU" THEN peer ELSE [peer EXCEPT ![e] = i.from]
    BY <1>4, <2>9, <2>10 DEF e
  <2>12. AliveSet' = AliveSet /\ Reports' = Reports
    BY <1>6, <1>8 DEF AliveSet, Reports, ReportsOf
  <2>13. C!Receive(e)
    BY <1>4, <2>6, <2>7, <2>8, <2>11, <2>12 DEF C!Receive, AliveSet, WayMap
  <2> QED BY <2>1, <2>13
<1> QED BY <1>11, <1>12

\* A datagram that is taken off the handler and put into a socket is as far on its
\* way as before.
LEMMA DeliverIsUnseen ==
  ASSUME CablesInv, Deliver
  PROVE  UNCHANGED C!vars
<1>1. TypeOK /\ RoomInv BY DEF CablesInv, FramesInv, TableInv
<1>2. PICK s \in Seq(ToBridge) : s = out /\ s # <<>> BY <1>1, VarTypes DEF Deliver
<1>3. PICK d \in ToBridge, t \in Seq(ToBridge) : d = Head(s) /\ t = Tail(s)
  BY <1>2, TailType
<1>4. /\ out' = t /\ UNCHANGED <<link, queue, life, peer>>
      /\ inbox' = IF Alive(d.to) THEN [inbox EXCEPT ![d.to] = Append(@, d)] ELSE inbox
  BY <1>2, <1>3 DEF Deliver
<1>5. d.to \in Bridge BY DEF ToBridge
<1>6. \A c \in Bridge : Alive(c)' <=> Alive(c) BY <1>4 DEF Alive
<1>7. ASSUME NEW e \in End PROVE Way(e)' = Way(e)
  <2>1. e[1] \in Bridge BY <1>1, WayIs
  <2>2. CASE ~Alive(e[1]) BY <1>1, <1>6, <2>1, <2>2, WayIs, WayNext
  <2>3. CASE Alive(e[1])
    <3>1. PICK r \in Seq(ToBridge) : r = inbox[e[1]] BY <1>1, <2>1, VarTypes
    <3>2. PICK x \in Seq(Items), y \in Seq(Items), z \in Seq(Items) :
             x = ItemsFor(r, e) /\ y = ItemFor(d, e) /\ z = ItemsFor(t, e)
      <4>1. ItemFor(d, e) \in Seq(Items)
        <5>1. <<d>> \in Seq(ToBridge) OBVIOUS
        <5>2. ItemsFor(<<d>>, e) \in Seq(Items) BY <5>1, ItemsType
        <5> QED BY <5>2, ItemsTwo
      <4> QED BY <4>1, ItemsType
    <3>3. Way(e) = Then(x, Then(y, z))
      <4>1. ItemsFor(out, e) = Then(y, z) BY <1>2, <1>3, <3>2, ItemsHead
      <4> QED BY <1>1, <2>3, <3>1, <3>2, <4>1, WayIs
    <3>4. ItemsFor(inbox'[e[1]], e) = Then(x, y)
      <4>1. CASE e[1] = d.to
        <5>1. inbox'[e[1]] = Append(r, d) BY <1>1, <1>4, <1>5, <2>3, <3>1, <4>1, VarTypes
        <5> QED BY <3>2, <5>1, ItemsAppend
      <4>2. CASE e[1] # d.to
        <5>1. inbox'[e[1]] = r BY <1>1, <1>4, <1>5, <2>1, <3>1, <4>2, VarTypes
        <5>2. y = <<>> BY <3>2, <4>2 DEF ItemFor, Tells
        <5>3. Then(x, <<>>) = x BY ThenEmpty
        <5> QED BY <3>2, <5>1, <5>2, <5>3
      <4> QED BY <4>1, <4>2
    <3>5. Way(e)' = Then(Then(x, y), z) BY <1>4, <1>6, <2>1, <2>3, <3>2, <3>4, WayNext
    <3>6. Then(Then(x, y), z) = Then(x, Then(y, z)) BY ThenAssociative
    <3> QED BY <3>3, <3>5, <3>6
  <2> QED BY <2>2, <2>3
<1>8. ReportsOf(queue') = ReportsOf(queue) BY <1>4
<1> QED BY <1>4, <1>6, <1>7, <1>8, CablesSame

\* The calls of a bridge, the ways out of its main loop and the start of a manager.
LEMMA UnseenSteps ==
  ASSUME CablesInv,
         ManagerStart \/ UNCHANGED vars \/ \E b \in Bridge : StartCall(b) \/ Quit(b)
  PROVE  UNCHANGED C!vars
<1>1. TypeOK BY DEF CablesInv, FramesInv, TableInv
<1>2. UNCHANGED <<link, queue, out, inbox, peer>>
  BY DEF ManagerStart, vars, StartCall, Quit, mngrVars
<1>3. \A c \in Bridge : Alive(c)' <=> Alive(c)
  BY <1>1, VarTypes DEF ManagerStart, vars, StartCall, Quit, Waits, Alive
<1>4. \A e \in End : Way(e)' = Way(e) BY <1>2, <1>3, WaySame
<1> QED BY <1>2, <1>3, <1>4, CablesSame

-----------------------------------------------------------------------------
(* The handlers of the manager *)

\* What can be on the way to the ports.
WayMaps == [End -> Seq(Items)]

\* The way to each port is a sequence of items.
LEMMA WayMapType ==
  ASSUME TypeOK
  PROVE  WayMap \in WayMaps
BY WayIs DEF WayMap, WayMaps

\* A datagram for a port, as Cables tells it.
LEMMA TellThen ==
  ASSUME NEW w \in WayMaps, NEW d \in ToBridge, d.cmd # "BRIDGE_SHUTDOWN",
         NEW e \in End, e = <<d.to, d.port>>
  PROVE  /\ C!Tell(w, e, Item(d)) \in WayMaps
         /\ \A y \in End : C!Tell(w, e, Item(d))[y] =
               IF Alive(y[1]) THEN Then(w[y], ItemFor(d, y)) ELSE w[y]
<1>1. PICK x \in Items : x = Item(d) BY DEF Items
<1>2. \A y \in End : w[y] \in Seq(Items) BY DEF WayMaps
<1>3. \A y \in End : Tells(d, y) <=> y = e BY DEF Tells, End
<1>4. e[1] \in Bridge BY DEF End
<1>5. CASE Alive(e[1])
  <2>1. C!Tell(w, e, x) = [w EXCEPT ![e] = Append(@, x)] BY <1>4, <1>5 DEF C!Tell
  <2>2. Append(w[e], x) \in Seq(Items) BY <1>2, AppendProperties
  <2>3. C!Tell(w, e, x) \in WayMaps BY <2>1, <2>2 DEF WayMaps
  <2>4. \A y \in End : C!Tell(w, e, x)[y] = IF y = e THEN Append(w[y], x) ELSE w[y]
    BY <2>1 DEF WayMaps
  <2>5. ASSUME NEW y \in End
        PROVE  C!Tell(w, e, x)[y] = IF Alive(y[1]) THEN Then(w[y], ItemFor(d, y)) ELSE w[y]
    <3>1. PICK a \in Seq(Items) : a = w[y] BY <1>2
    <3>2. CASE y = e
      <4>1. ItemFor(d, y) = <<x>> BY <1>1, <1>3, <3>2 DEF ItemFor
      <4>2. Append(a, x) = Then(a, <<x>>) BY ThenAppend
      <4> QED BY <1>5, <2>4, <3>1, <3>2, <4>1, <4>2
    <3>3. CASE y # e
      <4>1. ItemFor(d, y) = <<>> BY <1>3, <3>3 DEF ItemFor
      <4>2. Then(a, <<>>) = a BY ThenEmpty
      <4> QED BY <2>4, <3>1, <3>3, <4>1, <4>2
    <3> QED BY <3>2, <3>3
  <2> QED BY <1>1, <2>3, <2>5
<1>6. CASE ~Alive(e[1])
  <2>1. C!Tell(w, e, x) = w BY <1>4, <1>6 DEF C!Tell
  <2>2. ASSUME NEW y \in End, Alive(y[1]) PROVE Then(w[y], ItemFor(d, y)) = w[y]
    <3>1. ItemFor(d, y) = <<>> BY <1>3, <1>6, <2>2 DEF ItemFor
    <3>2. PICK a \in Seq(Items) : a = w[y] BY <1>2
    <3>3. Then(a, <<>>) = a BY ThenEmpty
    <3> QED BY <3>1, <3>2, <3>3
  <2> QED BY <1>1, <2>1, <2>2
<1> QED BY <1>5, <1>6

\* A handler that has returned leaves what is on its way to the sockets; the next one
\* puts what it sends behind it.
LEMMA HandlerWay ==
  ASSUME TypeOK, out = <<>>, UNCHANGED <<life, inbox>>, out' \in Seq(ToBridge), NEW e \in End
  PROVE  Way(e)' = IF Alive(e[1]) THEN Then(Way(e), ItemsFor(out', e)) ELSE Way(e)
<1>1. Alive(e[1])' <=> Alive(e[1]) BY DEF Alive
<1>2. CASE ~Alive(e[1]) BY <1>1, <1>2, WayIs, WayNext
<1>3. CASE Alive(e[1])
  <2>1. PICK a \in Seq(Items) : a = ItemsFor(inbox[e[1]], e) BY WayIs, ItemsType
  <2>2. ItemsFor(out, e) = <<>> BY ItemsEmpty
  <2>3. Then(a, <<>>) = a BY ThenEmpty
  <2>4. Way(e) = a BY <1>3, <2>1, <2>2, <2>3, WayIs
  <2>5. Way(e)' = Then(a, ItemsFor(out', e)) BY <1>1, <1>3, <2>1, WayNext
  <2> QED BY <1>3, <2>4, <2>5
<1> QED BY <1>2, <1>3

\* A handler that says nothing to any port.
LEMMA SilentHandler ==
  ASSUME TypeOK, out = <<>>, UNCHANGED <<life, inbox, link, peer>>, out' \in Seq(ToBridge),
         \A i \in DOMAIN out' : out'[i].cmd = "BRIDGE_SHUTDOWN",
         ReportsOf(queue') = ReportsOf(queue)
  PROVE  UNCHANGED C!vars
<1>1. \A b \in Bridge : Alive(b)' <=> Alive(b) BY DEF Alive
<1>2. ASSUME NEW e \in End PROVE Way(e)' = Way(e)
  <2>1. ItemsFor(out', e) = <<>>
    <3>1. PICK s \in Seq(ToBridge) : s = out' OBVIOUS
    <3>2. \A i \in DOMAIN s : ~Tells(s[i], e) BY <3>1 DEF Tells
    <3> QED BY <3>1, <3>2, ItemsNone
  <2>2. PICK a \in Seq(Items) : a = Way(e) BY WayIs
  <2>3. Then(a, <<>>) = a BY ThenEmpty
  <2> QED BY <2>1, <2>2, <2>3, HandlerWay
<1> QED BY <1>1, <1>2, CablesSame

\* mngr_shutdown.
LEMMA QuitIsUnseen ==
  ASSUME CablesInv, QuitManager
  PROVE  UNCHANGED C!vars
<1>1. TypeOK /\ TypeOK' BY QuitManagerType DEF CablesInv, FramesInv, TableInv
<1>2. out = <<>> /\ UNCHANGED <<life, inbox, link, peer, queue>> BY DEF QuitManager, Idle
<1>3. \A i \in DOMAIN out' : out'[i].cmd = "BRIDGE_SHUTDOWN" BY DEF QuitManager, Shutdown
<1>4. out' \in Seq(ToBridge) BY <1>1 DEF TypeOK
<1> QED BY <1>1, <1>2, <1>3, <1>4, SilentHandler

\* A handler that tells one port, and one that tells two.
LEMMA TellOne ==
  ASSUME TypeOK, out = <<>>, UNCHANGED <<life, inbox>>,
         NEW d \in ToBridge, d.cmd # "BRIDGE_SHUTDOWN", NEW e \in End, e = <<d.to, d.port>>,
         out' = <<d>>
  PROVE  WayMap' = C!Tell(WayMap, e, Item(d))
<1>1. out' \in Seq(ToBridge) OBVIOUS
<1>2. \A y \in End : ItemsFor(out', y) = ItemFor(d, y) BY ItemsTwo
<1>3. \A y \in End : WayMap'[y] = Way(y)' /\ WayMap[y] = Way(y) BY DEF WayMap
<1>4. PICK w \in WayMaps : w = WayMap BY WayMapType
<1>5. PICK v \in WayMaps :
         /\ v = C!Tell(w, e, Item(d))
         /\ \A y \in End : v[y] = IF Alive(y[1]) THEN Then(w[y], ItemFor(d, y)) ELSE w[y]
  BY TellThen
<1>6. \A y \in End : Way(y)' = IF Alive(y[1]) THEN Then(Way(y), ItemsFor(out', y)) ELSE Way(y)
  BY <1>1, HandlerWay
<1>7. \A y \in End : Way(y)' = v[y] BY <1>2, <1>3, <1>4, <1>5, <1>6
<1>8. WayMap' = [y \in End |-> v[y]] BY <1>7 DEF WayMap
<1>9. v = [y \in End |-> v[y]] BY DEF WayMaps
<1> QED BY <1>4, <1>5, <1>8, <1>9

\* And one that tells two ports.
LEMMA TellTwo ==
  ASSUME TypeOK, out = <<>>, UNCHANGED <<life, inbox>>,
         NEW c \in ToBridge, c.cmd # "BRIDGE_SHUTDOWN", NEW e \in End, e = <<c.to, c.port>>,
         NEW d \in ToBridge, d.cmd # "BRIDGE_SHUTDOWN", NEW f \in End, f = <<d.to, d.port>>,
         out' = <<c, d>>
  PROVE  WayMap' = C!Tell(C!Tell(WayMap, e, Item(c)), f, Item(d))
<1>1. out' \in Seq(ToBridge) OBVIOUS
<1>2. \A y \in End : ItemsFor(out', y) = Then(ItemFor(c, y), ItemFor(d, y)) BY ItemsTwo
<1>3. \A y \in End : WayMap'[y] = Way(y)' /\ WayMap[y] = Way(y) BY DEF WayMap
<1>4. PICK w \in WayMaps : w = WayMap BY WayMapType
<1>5. PICK u \in WayMaps :
         /\ u = C!Tell(w, e, Item(c))
         /\ \A y \in End : u[y] = IF Alive(y[1]) THEN Then(w[y], ItemFor(c, y)) ELSE w[y]
  BY TellThen
<1>6. PICK v \in WayMaps :
         /\ v = C!Tell(u, f, Item(d))
         /\ \A y \in End : v[y] = IF Alive(y[1]) THEN Then(u[y], ItemFor(d, y)) ELSE u[y]
  BY TellThen
<1>7. \A y \in End : Way(y)' = IF Alive(y[1]) THEN Then(Way(y), ItemsFor(out', y)) ELSE Way(y)
  BY <1>1, HandlerWay
<1>8. ASSUME NEW y \in End PROVE Way(y)' = v[y]
  <2>1. PICK a \in Seq(Items), i \in Seq(Items), j \in Seq(Items) :
           a = Way(y) /\ i = ItemFor(c, y) /\ j = ItemFor(d, y)
    <3>1. ItemFor(c, y) \in Seq(Items) /\ ItemFor(d, y) \in Seq(Items)
      <4>1. <<c>> \in Seq(ToBridge) /\ <<d>> \in Seq(ToBridge) OBVIOUS
      <4>2. ItemsFor(<<c>>, y) \in Seq(Items) /\ ItemsFor(<<d>>, y) \in Seq(Items)
        BY <4>1, ItemsType
      <4> QED BY <4>2, ItemsTwo
    <3> QED BY <3>1, WayIs
  <2>2. Then(Then(a, i), j) = Then(a, Then(i, j)) BY ThenAssociative
  <2>3. CASE Alive(y[1])
    <3>1. u[y] = Then(a, i) BY <1>3, <1>4, <1>5, <2>1, <2>3
    <3>2. v[y] = Then(Then(a, i), j) BY <1>6, <2>1, <2>3, <3>1
    <3>3. Way(y)' = Then(a, Then(i, j)) BY <1>2, <1>7, <2>1, <2>3
    <3> QED BY <2>2, <3>2, <3>3
  <2>4. CASE ~Alive(y[1]) BY <1>3, <1>4, <1>5, <1>6, <1>7, <2>4
  <2> QED BY <2>3, <2>4
<1>9. WayMap' = [y \in End |-> v[y]] BY <1>8 DEF WayMap
<1>10. v = [y \in End |-> v[y]] BY DEF WayMaps
<1> QED BY <1>4, <1>5, <1>6, <1>9, <1>10

\* link_bridges.
LEMMA LinkPlugs ==
  ASSUME CablesInv, NEW n1, NEW p1 \in PortNo, NEW n2, NEW p2 \in PortNo,
         LinkBridges(n1, p1, n2, p2)
  PROVE  \E e, f \in End : C!Plug(e, f)
<1>1. TypeOK BY DEF CablesInv, FramesInv, TableInv
<1>2. PICK i \in DOMAIN br_lst, j \in DOMAIN br_lst :
         /\ link[<<br_lst[i], p1>>] = None /\ link[<<br_lst[j], p2>>] = None
         /\ link' = [link EXCEPT ![<<br_lst[i], p1>>] = <<br_lst[j], p2>>,
                                ![<<br_lst[j], p2>>] = <<br_lst[i], p1>>]
         /\ out' = <<Connect(<<br_lst[i], p1>>, <<br_lst[j], p2>>),
                     Connect(<<br_lst[j], p2>>, <<br_lst[i], p1>>)>>
  BY DEF LinkBridges
<1>3. PICK e \in End, f \in End : e = <<br_lst[i], p1>> /\ f = <<br_lst[j], p2>>
  BY <1>1, EntryEnd
<1>4. /\ link[e] = None /\ link[f] = None /\ link' = [link EXCEPT ![e] = f, ![f] = e]
      /\ out' = <<Connect(e, f), Connect(f, e)>>
  BY <1>2, <1>3
<1>5. out = <<>> /\ UNCHANGED <<life, inbox, queue, peer>>
  BY DEF LinkBridges, Command, Idle
<1>6. PICK c \in ToBridge, d \in ToBridge : c = Connect(e, f) /\ d = Connect(f, e)
  <2>1. Connect(e, f) \in ToBridge /\ Connect(f, e) \in ToBridge
    BY DEF Connect, ToBridge, End
  <2> QED BY <2>1
<1>7. /\ Item(c) = C!Plugged(f) /\ Item(d) = C!Plugged(e)
      /\ <<c.to, c.port>> = e /\ <<d.to, d.port>> = f
      /\ c.cmd # "BRIDGE_SHUTDOWN" /\ d.cmd # "BRIDGE_SHUTDOWN"
  BY <1>6 DEF Item, Connect, C!Plugged, End
<1>8. WayMap' = C!Tell(C!Tell(WayMap, e, C!Plugged(f)), f, C!Plugged(e))
  <2>1. out' = <<c, d>> BY <1>4, <1>6
  <2>2. WayMap' = C!Tell(C!Tell(WayMap, e, Item(c)), f, Item(d))
    BY <1>1, <1>5, <1>7, <2>1, TellTwo
  <2> QED BY <1>7, <2>2
<1>9. AliveSet' = AliveSet /\ Reports' = Reports
  BY <1>5 DEF AliveSet, Alive, Reports
<1>10. C!Plug(e, f)
  BY <1>4, <1>5, <1>8, <1>9 DEF C!Plug, C!None, None, AliveSet, WayMap
<1> QED BY <1>10

\* unlink_port.
LEMMA UnlinkUnplugs ==
  ASSUME CablesInv, NEW n, NEW p \in PortNo, UnlinkPort(n, p)
  PROVE  \E e \in End : C!Unplug(e)
<1>1. TypeOK /\ TableInv BY DEF CablesInv, FramesInv, TableInv
<1>2. PICK i \in DOMAIN br_lst :
         /\ link[<<br_lst[i], p>>] # None
         /\ out' = FarewellFrom(<<br_lst[i], p>>)
         /\ link' = [link EXCEPT ![<<br_lst[i], p>>] = None,
                                ![link[<<br_lst[i], p>>]] = None]
  BY DEF UnlinkPort
<1>3. PICK e \in End : e = <<br_lst[i], p>> BY <1>1, EntryEnd
<1>4. PICK f \in End : f = link[e] /\ link[f] = e BY <1>1, <1>2, <1>3, LinkEnds
<1>5. /\ link[e] # None /\ link' = [link EXCEPT ![e] = None, ![link[e]] = None]
      /\ out' = IF f = e THEN <<Disconnect(f)>> ELSE <<Disconnect(f), Disconnect(e)>>
  <2>1. e # None BY DEF End, None
  <2>2. out' = IF f = e \/ link[f] = None THEN <<Disconnect(f)>>
               ELSE <<Disconnect(f), Disconnect(link[f])>>
    BY <1>2, <1>3, <1>4 DEF FarewellFrom
  <2> QED BY <1>2, <1>3, <1>4, <2>1, <2>2
<1>6. out = <<>> /\ UNCHANGED <<life, inbox, queue, peer>>
  BY DEF UnlinkPort, Command, Idle
<1>7. PICK c \in ToBridge, d \in ToBridge : c = Disconnect(f) /\ d = Disconnect(e)
  <2>1. Disconnect(f) \in ToBridge /\ Disconnect(e) \in ToBridge
    BY DEF Disconnect, ToBridge, End
  <2> QED BY <2>1
<1>8. /\ Item(c) = C!Unplugged /\ Item(d) = C!Unplugged
      /\ <<c.to, c.port>> = f /\ <<d.to, d.port>> = e
      /\ c.cmd # "BRIDGE_SHUTDOWN" /\ d.cmd # "BRIDGE_SHUTDOWN"
  BY <1>7 DEF Item, Disconnect, C!Unplugged, End, None, C!None
<1>9. WayMap' = LET w == C!Tell(WayMap, link[e], C!Unplugged)
                IN  IF link[e] = e THEN w ELSE C!Tell(w, e, C!Unplugged)
  <2>1. CASE f = e
    <3>1. out' = <<c>> BY <1>5, <1>7, <2>1
    <3>2. WayMap' = C!Tell(WayMap, f, Item(c)) BY <1>1, <1>6, <1>8, <3>1, TellOne
    <3> QED BY <1>4, <1>8, <2>1, <3>2
  <2>2. CASE f # e
    <3>1. out' = <<c, d>> BY <1>5, <1>7, <2>2
    <3>2. WayMap' = C!Tell(C!Tell(WayMap, f, Item(c)), e, Item(d))
      BY <1>1, <1>6, <1>8, <3>1, TellTwo
    <3> QED BY <1>4, <1>8, <2>2, <3>2
  <2> QED BY <2>1, <2>2
<1>10. AliveSet' = AliveSet /\ Reports' = Reports
  BY <1>6 DEF AliveSet, Alive, Reports
<1>11. C!Unplug(e)
  BY <1>5, <1>6, <1>9, <1>10 DEF C!Unplug, C!None, None, AliveSet, WayMap
<1> QED BY <1>11

\* The first entry with the pid of b, if there is one, is b.
LEMMA FirstEntry ==
  ASSUME TypeOK, NEW b, FirstIs(b), NEW i, IsFirst(i, PidOf[b])
  PROVE  br_lst[i] = b
<1>1. i \in DOMAIN br_lst /\ PidOf[br_lst[i]] = PidOf[b] BY DEF IsFirst, Lists
<1>2. PICK j \in DOMAIN br_lst : j <= i /\ br_lst[j] = b BY <1>1 DEF FirstIs
<1>3. i <= j BY <1>2 DEF IsFirst, Lists
<1>4. i \in Int /\ j \in Int BY <1>1, VarTypes, LenProperties
<1> QED BY <1>2, <1>3, <1>4

\* The first datagram in the manager's socket is read when its sender is the first with
\* its pid; a farewell is read when its sender has gone.
LEMMA HeadOfQueue ==
  ASSUME CablesInv, ReadUid
  PROVE  /\ queue \in Seq(ToMngr) /\ queue # <<>> /\ queue' = Tail(queue)
         /\ Head(queue) \in ToMngr /\ Head(queue).from \in Bridge
         /\ Head(queue).cmd # "BRIDGE_HANDSHAKE" => FirstIs(Head(queue).from)
         /\ Head(queue).cmd = "BRIDGE_SHUTDOWN" => ~Alive(Head(queue).from)
         /\ out = <<>> /\ UNCHANGED <<life, inbox, peer>>
<1> DEFINE d == Head(queue)
<1>1. TypeOK /\ QueueInv BY DEF CablesInv, FramesInv, TableInv
<1>2. 1 \in DOMAIN queue /\ queue[1] = d /\ d \in ToMngr /\ d.from \in Bridge
  <2>1. queue # <<>> BY DEF ReadUid
  <2>2. Len(queue) # 0 BY <1>1, <2>1, QueueTypes, EmptySeq
  <2>3. 1 \in DOMAIN queue /\ queue[1] = d
    BY <1>1, <2>1, <2>2, QueueTypes, HeadTailProperties
  <2> QED BY <1>1, <2>3, QueueTypes
<1>3. queue \in Seq(ToMngr) /\ queue # <<>> /\ queue' = Tail(queue) /\ out = <<>>
      /\ UNCHANGED <<life, inbox, peer>>
  BY <1>1, VarTypes DEF ReadUid, Idle
<1> HIDE DEF d
<1>4. ASSUME d.cmd # "BRIDGE_HANDSHAKE" PROVE FirstIs(d.from)
  <2>1. Named(d.from, 1) BY <1>1, <1>2 DEF QueueInv, Speaks
  <2>2. ~Handshake(d.from, 0, 1)
    <3> SUFFICES ASSUME NEW k \in DOMAIN queue, 0 < k, k <= 1, queue[k] = Hello(d.from)
                 PROVE  FALSE
      BY DEF Handshake
    <3>1. k = 1 BY <1>1, QueueTypes
    <3> QED BY <1>2, <1>4, <3>1 DEF Hello
  <2> QED BY <2>1, <2>2 DEF Named
<1>5. ASSUME d.cmd = "BRIDGE_SHUTDOWN", Alive(d.from) PROVE FALSE
  <2>1. PICK n \in Nat \ {0} : n = Len(queue) + 1 BY <1>1, QueueTypes
  <2>2. Named(d.from, n) BY <1>1, <1>2, <1>5, <2>1 DEF QueueInv, Speaks
  <2>3. 1 < n
    <3>1. 1 \in 1 .. Len(queue) BY <1>1, <1>2, QueueTypes
    <3> QED BY <1>1, <2>1, <3>1, QueueTypes
  <2>4. queue[1] # Bye(d.from) BY <1>2, <2>2, <2>3 DEF Named
  <2>5. d = Bye(d.from) BY <1>2, <1>5 DEF ToMngr, Bye
  <2> QED BY <1>2, <2>4, <2>5
<1> QED BY <1>2, <1>3, <1>4, <1>5 DEF d

\* mngr_rx_bpdu.
LEMMA BpduRoutes ==
  ASSUME CablesInv, ReadUid, Head(queue).cmd = "BPDU"
  PROVE  C!Route
<1> DEFINE d == Head(queue)
           b == d.from
           p == d.port
           m == d.pdu
           e == <<b, p>>
<1>1. TypeOK /\ TableInv BY DEF CablesInv, FramesInv, TableInv
<1>2. /\ queue \in Seq(ToMngr) /\ queue # <<>> /\ queue' = Tail(queue)
      /\ d \in ToMngr /\ b \in Bridge /\ FirstIs(b)
      /\ out = <<>> /\ UNCHANGED <<life, inbox, peer>>
  BY HeadOfQueue
<1>3. RxBpdu(b, p, m) BY DEF ReadUid
<1>4. p \in PortNo /\ m \in Pdu BY <1>2 DEF ToMngr
<1>5. e \in End /\ e[1] = b BY <1>2, <1>4 DEF End
<1>6. PICK x \in Frame : x = [from |-> e, pdu |-> m] BY <1>4, <1>5 DEF Frame
<1>7. ReportOf(d) = <<x>> BY <1>6 DEF ReportOf
<1> HIDE DEF d, b, p, m
<1>8. Reports # <<>> /\ Head(Reports) = x /\ Reports' = Tail(Reports)
  <2>1. ReportsOf(queue) = Then(<<x>>, ReportsOf(Tail(queue))) BY <1>2, <1>7, ReportsHead DEF d
  <2>2. Tail(queue) \in Seq(ToMngr) BY <1>2, TailType
  <2>3. PICK r \in Seq(Frame) : r = ReportsOf(Tail(queue)) BY <2>2, ReportsType
  <2>4. Reports = <<x>> \o r BY <2>1, <2>3 DEF Reports, ReportsOf, Then
  <2>5. Reports' = r BY <1>2, <2>3 DEF Reports, ReportsOf
  <2>6. <<x>> \o r # <<>> /\ Head(<<x>> \o r) = x /\ Tail(<<x>> \o r) = r OBVIOUS
  <2> QED BY <2>4, <2>5, <2>6
<1>9. link' = link BY <1>3 DEF RxBpdu
<1> HIDE DEF e
<1>10. WayMap' = IF link[e] = None THEN WayMap ELSE C!Tell(WayMap, link[e], C!Carried(e, m))
  <2>1. CASE link[e] = None
    <3>1. out' = <<>>
      <4>1. CASE Lists(PidOf[b]) = {} BY <1>2, <1>3, <4>1 DEF RxBpdu
      <4>2. CASE Lists(PidOf[b]) # {}
        <5>1. PICK i \in DOMAIN br_lst :
                 /\ IsFirst(i, PidOf[b])
                 /\ out' = IF link[<<br_lst[i], p>>] = None THEN <<>>
                           ELSE <<Bpdu(link[<<br_lst[i], p>>], <<b, p>>, m)>>
          BY <1>3, <4>2 DEF RxBpdu
        <5>2. br_lst[i] = b BY <1>1, <1>2, <5>1, FirstEntry
        <5> QED BY <2>1, <5>1, <5>2 DEF e
      <4> QED BY <4>1, <4>2
    <3>2. \A y \in End : Way(y)' = Way(y)
      <4>1. \A c \in Bridge : Alive(c)' <=> Alive(c) BY <1>2 DEF Alive
      <4> QED BY <1>2, <3>1, <4>1, WaySame
    <3> QED BY <2>1, <3>2 DEF WayMap
  <2>2. CASE link[e] # None
    <3>1. PICK f \in End : f = link[e] BY <1>1, <1>5, <2>2, LinkEnds
    <3>2. Lists(PidOf[b]) # {}
      <4>1. PICK i \in DOMAIN br_lst : br_lst[i] = b
        BY <1>1, <1>5, <2>2 DEF TableInv, TableIsMatching, Range
      <4> QED BY <4>1 DEF Lists
    <3>3. PICK i \in DOMAIN br_lst :
             /\ IsFirst(i, PidOf[b])
             /\ out' = IF link[<<br_lst[i], p>>] = None THEN <<>>
                       ELSE <<Bpdu(link[<<br_lst[i], p>>], <<b, p>>, m)>>
      BY <1>3, <3>2 DEF RxBpdu
    <3>4. br_lst[i] = b BY <1>1, <1>2, <3>3, FirstEntry
    <3>5. out' = <<Bpdu(f, e, m)>> BY <2>2, <3>1, <3>3, <3>4 DEF e
    <3>6. PICK c \in ToBridge : c = Bpdu(f, e, m)
      <4>1. Bpdu(f, e, m) \in ToBridge BY <1>4, <1>5 DEF Bpdu, ToBridge, End
      <4> QED BY <4>1
    <3>7. Item(c) = C!Carried(e, m) /\ <<c.to, c.port>> = f /\ c.cmd # "BRIDGE_SHUTDOWN"
      BY <3>6 DEF Item, Bpdu, C!Carried, End
    <3>8. out' = <<c>> BY <3>5, <3>6
    <3>9. WayMap' = C!Tell(WayMap, f, Item(c)) BY <1>1, <1>2, <3>7, <3>8, TellOne
    <3> QED BY <2>2, <3>1, <3>7, <3>9
  <2> QED BY <2>1, <2>2
<1>11. AliveSet' = AliveSet BY <1>2 DEF AliveSet, Alive
<1>12. Head(Reports).from = e /\ Head(Reports).pdu = m BY <1>6, <1>8
<1> QED BY <1>2, <1>8, <1>9, <1>10, <1>11, <1>12 DEF C!Route, C!None, None, AliveSet, WayMap

\* The members of a set of ports in rising order are all of them, each once.
LEMMA RisingIsOnto ==
  ASSUME NEW S, S \subseteq PortNo, NEW s \in Rising(S), NEW x \in S
  PROVE  \E k \in DOMAIN s : /\ s[k] = x /\ \A j \in DOMAIN s : j # k => s[j] # x
<1>1. IsFiniteSet(S)
  <2>1. 0 \in Int /\ Ports - 1 \in Int BY MngrAssumption
  <2>2. IsFiniteSet(PortNo) BY <2>1, FS_Interval DEF PortNo
  <2> QED BY <2>2, FS_Subset
<1>2. PICK n \in Nat : n = Cardinality(S) BY <1>1, FS_CardinalityType
<1>3. /\ s \in [1 .. n -> S] /\ \A i, j \in 1 .. n : i < j => s[i] < s[j]
  BY <1>2 DEF Rising
<1>4. \A i \in 1 .. n : s[i] \in Nat
  <2>1. \A i \in 1 .. n : s[i] \in S BY <1>3
  <2>2. \A q \in PortNo : q \in Nat BY MngrAssumption DEF PortNo
  <2> QED BY <2>1, <2>2
<1>5. \A i, j \in 1 .. n : s[i] = s[j] => i = j
  <2> SUFFICES ASSUME NEW i \in 1 .. n, NEW j \in 1 .. n, s[i] = s[j], i # j PROVE FALSE
    OBVIOUS
  <2>1. i < j \/ j < i OBVIOUS
  <2>2. s[i] < s[j] \/ s[j] < s[i] BY <1>3, <2>1
  <2> QED BY <1>4, <2>2
<1>6. s \in Injection(1 .. n, S) 
  <2>1. DOMAIN s = 1 .. n BY <1>3
  <2>2. IsInjective(s) BY <1>5, <2>1 DEF IsInjective
  <2> QED BY <1>3, <2>2 DEF Injection
<1>7. Cardinality(1 .. n) = n
  <2>1. 1 \in Int /\ n \in Int OBVIOUS
  <2>2. Cardinality(1 .. n) = IF 1 > n THEN 0 ELSE n - 1 + 1 BY <2>1, FS_Interval
  <2> QED BY <2>2
<1>8. s \in Surjection(1 .. n, S) BY <1>1, <1>2, <1>6, <1>7, FS_Injection
<1>9. PICK k \in 1 .. n : s[k] = x BY <1>8 DEF Surjection
<1> QED BY <1>3, <1>5, <1>9

\* unregister_bridge, for a bridge that has said goodbye.
LEMMA GoodbyeRetires ==
  ASSUME CablesInv, ReadUid, Head(queue).cmd = "BRIDGE_SHUTDOWN"
  PROVE  (\E b \in Bridge : C!Retire(b)) \/ UNCHANGED C!vars
<1> DEFINE d == Head(queue)
           b == d.from
<1>1. TypeOK /\ TableInv BY DEF CablesInv, FramesInv, TableInv
<1>2. /\ queue \in Seq(ToMngr) /\ queue # <<>> /\ queue' = Tail(queue)
      /\ d \in ToMngr /\ b \in Bridge /\ FirstIs(b) /\ ~Alive(b)
      /\ out = <<>> /\ UNCHANGED <<life, inbox, peer>>
  BY HeadOfQueue
<1>3. UnregisterBridge(PidOf[b]) BY DEF ReadUid
<1>4. ReportsOf(queue') = ReportsOf(queue)
  <2>1. ReportsOf(queue) = Then(<<>>, ReportsOf(Tail(queue))) BY <1>2, ReportsHead DEF ReportOf
  <2>2. Tail(queue) \in Seq(ToMngr) BY <1>2, TailType
  <2>3. PICK r \in Seq(Frame) : r = ReportsOf(Tail(queue)) BY <2>2, ReportsType
  <2>4. Then(<<>>, r) = r BY ThenEmpty
  <2> QED BY <1>2, <2>1, <2>3, <2>4
<1> HIDE DEF d, b
<1>5. \A c \in Bridge : Alive(c)' <=> Alive(c) BY <1>2 DEF Alive
<1>6. CASE Lists(PidOf[b]) = {}
  <2>1. UNCHANGED <<link, out>> BY <1>3, <1>6 DEF UnregisterBridge
  <2>2. \A e \in End : Way(e)' = Way(e) BY <1>2, <1>5, <2>1, WaySame
  <2> QED BY <1>2, <1>4, <1>5, <2>1, <2>2, CablesSame
<1>7. CASE Lists(PidOf[b]) # {}
  <2>1. PICK i \in DOMAIN br_lst :
           /\ IsFirst(i, PidOf[b]) /\ link' = Unlinked(br_lst[i])
           /\ \E p \in Rising(Drops(br_lst[i])) :
                 out' = [k \in DOMAIN p |-> Disconnect(link[<<br_lst[i], p[k]>>])]
    BY <1>3, <1>7 DEF UnregisterBridge
  <2>2. br_lst[i] = b BY <1>1, <1>2, <2>1, FirstEntry
  <2>3. PICK p \in Rising(Drops(b)) :
           out' = [k \in DOMAIN p |-> Disconnect(link[<<b, p[k]>>])]
    BY <2>1, <2>2
  <2>4. link' = Unlinked(b) /\ Drops(b) \subseteq PortNo BY <2>1, <2>2 DEF Drops
  <2>5. ASSUME NEW k \in DOMAIN p
        PROVE  /\ p[k] \in Drops(b) /\ <<b, p[k]>> \in End
               /\ link[<<b, p[k]>>] \in End /\ link[link[<<b, p[k]>>]] = <<b, p[k]>>
               /\ out'[k] = Disconnect(link[<<b, p[k]>>])
    <3>1. p[k] \in Drops(b) BY <2>4, RisingType
    <3>2. <<b, p[k]>> \in End /\ link[<<b, p[k]>>] # None BY <1>2, <2>4, <3>1 DEF Drops, End
    <3> QED BY <1>1, <2>3, <3>1, <3>2, LinkEnds
  <2>6. PICK t \in Seq(ToBridge) : t = out'
    <3>1. TypeOK' BY <1>1, ReadUidType
    <3> QED BY <3>1 DEF TypeOK
  <2>7. DOMAIN t = DOMAIN p BY <2>3, <2>6
  <2>8. \A e \in End : (\E q \in Drops(b) : link[<<b, q>>] = e)
                       => link[e] # None /\ link[e][1] = b
    <3> SUFFICES ASSUME NEW e \in End, NEW q \in Drops(b), link[<<b, q>>] = e
                 PROVE  link[e] # None /\ link[e][1] = b
      OBVIOUS
    <3>1. <<b, q>> \in End /\ link[<<b, q>>] # None BY <1>2, <2>4 DEF Drops, End
    <3>2. link[e] = <<b, q>> BY <1>1, <3>1, LinkEnds
    <3> QED BY <3>2 DEF None
  <2>9. link' = [e \in End |->
                   IF e[1] = b \/ (link[e] # None /\ link[e][1] = b) THEN None ELSE link[e]]
    <3>1. ASSUME NEW e \in End, e[1] # b
          PROVE  (\E q \in Drops(b) : link[<<b, q>>] = e)
                 <=> (link[e] # None /\ link[e][1] = b)
      BY <1>1, <1>2, <2>8, <3>1, FarEndDrops
    <3> QED BY <2>4, <3>1 DEF Unlinked
  <2>10. \A k \in DOMAIN p, e \in End : Tells(t[k], e) <=> link[<<b, p[k]>>] = e
    <3> SUFFICES ASSUME NEW k \in DOMAIN p, NEW e \in End
                 PROVE  Tells(t[k], e) <=> link[<<b, p[k]>>] = e
      OBVIOUS
    <3>1. PICK f \in End : f = link[<<b, p[k]>>] /\ t[k] = Disconnect(f) BY <2>5, <2>6
    <3> QED BY <3>1 DEF Tells, Disconnect, End
  <2>11. ASSUME NEW e \in End
         PROVE  Way(e)' = IF Alive(e[1]) /\ link[e] # None /\ link[e][1] = b
                          THEN Append(Way(e), C!Unplugged) ELSE Way(e)
    <3>1. Way(e)' = IF Alive(e[1]) THEN Then(Way(e), ItemsFor(t, e)) ELSE Way(e)
      BY <1>1, <1>2, <2>6, HandlerWay
    <3>2. PICK a \in Seq(Items) : a = Way(e) BY <1>1, WayIs
    <3>3. CASE Alive(e[1]) /\ link[e] # None /\ link[e][1] = b
      <4>1. e[1] # b BY <1>2, <3>3
      <4>2. PICK q \in Drops(b) : link[<<b, q>>] = e BY <1>1, <1>2, <3>3, <4>1, FarEndDrops
      <4>3. PICK k \in DOMAIN p : p[k] = q /\ \A j \in DOMAIN p : j # k => p[j] # q
        BY <2>4, RisingIsOnto
      <4>4. Tells(t[k], e) BY <2>10, <4>2, <4>3
      <4>5. ASSUME NEW j \in DOMAIN t, j # k PROVE ~Tells(t[j], e)
        <5>1. p[j] # q BY <2>7, <4>3, <4>5
        <5>2. link[link[<<b, p[j]>>]] = <<b, p[j]>> BY <2>5, <2>7
        <5>3. link[e] = <<b, q>> BY <2>5, <4>2, <4>3
        <5>4. link[<<b, p[j]>>] # e BY <5>1, <5>2, <5>3
        <5> QED BY <2>7, <2>10, <5>4
      <4>6. ItemsFor(t, e) = <<Item(t[k])>> BY <2>7, <4>4, <4>5, ItemsOne
      <4>7. Item(t[k]) = C!Unplugged
        <5>1. t[k] = Disconnect(e) BY <2>5, <2>6, <4>2, <4>3
        <5> QED BY <5>1 DEF Item, Disconnect, C!Unplugged, None, C!None
      <4>8. PICK x \in Items : x = Item(t[k])
        <5>1. t[k] \in ToBridge BY <2>7, LenProperties, ElementOfSeq
        <5> QED BY <5>1 DEF Items
      <4>9. Append(a, x) = Then(a, <<x>>) BY ThenAppend
      <4> QED BY <3>1, <3>2, <3>3, <4>6, <4>7, <4>8, <4>9
    <3>4. CASE Alive(e[1]) /\ ~(link[e] # None /\ link[e][1] = b)
      <4>1. \A k \in DOMAIN t : ~Tells(t[k], e) BY <2>5, <2>7, <2>8, <2>10, <3>4
      <4>2. ItemsFor(t, e) = <<>> BY <4>1, ItemsNone
      <4>3. Then(a, <<>>) = a BY ThenEmpty
      <4> QED BY <3>1, <3>2, <3>4, <4>2, <4>3
    <3>5. CASE ~Alive(e[1]) BY <3>1, <3>5
    <3> QED BY <3>3, <3>4, <3>5
  <2>12. WayMap' = [e \in End |-> IF e[1] \in AliveSet /\ link[e] # None /\ link[e][1] = b
                                  THEN Append(WayMap[e], C!Unplugged) ELSE WayMap[e]]
    <3>1. \A e \in End : e[1] \in AliveSet <=> Alive(e[1]) BY DEF AliveSet, End
    <3> QED BY <2>11, <3>1 DEF WayMap
  <2>13. AliveSet' = AliveSet /\ Reports' = Reports /\ b \notin AliveSet
    BY <1>2, <1>4, <1>5 DEF AliveSet, Reports, ReportsOf
  <2>14. C!Retire(b)
    BY <1>2, <2>9, <2>12, <2>13 DEF C!Retire, C!End, End, C!None, None, AliveSet, WayMap
  <2> QED BY <1>2, <2>14
<1> QED BY <1>6, <1>7

\* register_bridge: the handshake is not news to any port.
LEMMA HelloIsUnseen ==
  ASSUME CablesInv, ReadUid, Head(queue).cmd = "BRIDGE_HANDSHAKE"
  PROVE  UNCHANGED C!vars
<1> DEFINE d == Head(queue)
<1>1. /\ queue \in Seq(ToMngr) /\ queue # <<>> /\ queue' = Tail(queue)
      /\ out = <<>> /\ UNCHANGED <<life, inbox, peer>>
  BY HeadOfQueue
<1>2. RegisterBridge(d.from) BY DEF ReadUid
<1>3. ReportsOf(queue') = ReportsOf(queue)
  <2>1. ReportsOf(queue) = Then(<<>>, ReportsOf(Tail(queue))) BY <1>1, ReportsHead DEF ReportOf
  <2>2. Tail(queue) \in Seq(ToMngr) BY <1>1, TailType
  <2>3. PICK r \in Seq(Frame) : r = ReportsOf(Tail(queue)) BY <2>2, ReportsType
  <2>4. Then(<<>>, r) = r BY ThenEmpty
  <2> QED BY <1>1, <2>1, <2>3, <2>4
<1>4. UNCHANGED <<link, out>> BY <1>2 DEF RegisterBridge
<1>5. \A c \in Bridge : Alive(c)' <=> Alive(c) BY <1>1 DEF Alive
<1>6. \A e \in End : Way(e)' = Way(e) BY <1>1, <1>4, <1>5, WaySame
<1> QED BY <1>1, <1>3, <1>4, <1>5, <1>6, CablesSame

\* The first part of two sequences in a row.
LEMMA ThenPrefix ==
  ASSUME NEW X, NEW s \in Seq(X), NEW t \in Seq(X)
  PROVE  /\ Len(s) \in Nat /\ Len(Then(s, t)) \in Nat /\ Len(s) <= Len(Then(s, t))
         /\ SubSeq(Then(s, t), 1, Len(s)) = s
<1>1. PICK m \in Nat : m = Len(s) BY LenProperties
<1>2. Len(t) \in Nat /\ Len(s \o t) = Len(s) + Len(t) BY LenProperties, ConcatProperties
<1>3. Len(Then(s, t)) \in Nat /\ Len(s) <= Len(Then(s, t)) BY <1>1, <1>2 DEF Then
<1>4. CASE m = 0
  <2>1. s = <<>> BY <1>1, <1>4, EmptySeq
  <2>2. 1 \in Int /\ 0 \in Int /\ 0 < 1 OBVIOUS
  <2>3. SubSeq(Then(s, t), 1, 0) = <<>> BY <2>2, SubSeqEmpty
  <2> QED BY <1>1, <1>3, <1>4, <2>1, <2>3
<1>5. CASE m # 0
  <2>1. 1 \in 1 .. Len(s) /\ Len(s) \in 1 .. Len(s) BY <1>1, <1>5
  <2>2. SubSeq(s \o t, 1, Len(s)) = SubSeq(s, 1, Len(s)) BY <2>1, SubSeqOfConcat1
  <2>3. SubSeq(s, 1, Len(s)) = s BY SubSeqFull
  <2> QED BY <1>1, <1>3, <2>2, <2>3 DEF Then
<1> QED BY <1>4, <1>5

\* The manager ends: a port still reads what its bridge's socket holds for it.
LEMMA GoneIsBlackout ==
  ASSUME CablesInv, ManagerGone
  PROVE  C!Blackout
<1>1. TypeOK BY DEF CablesInv, FramesInv, TableInv
<1>2. /\ link' = [e \in End |-> None] /\ out' = <<>> /\ queue' = <<>>
      /\ UNCHANGED <<life, inbox, peer>>
  BY DEF ManagerGone
<1>3. \A c \in Bridge : Alive(c)' <=> Alive(c) BY <1>2 DEF Alive
<1> DEFINE told == {e \in End : WayMap[e] # <<>>}
           kept(e) == ItemsFor(inbox[e[1]], e)
           n == [e \in told |-> Len(kept(e))]
<1>4. ASSUME NEW e \in End
      PROVE  /\ WayMap[e] = Way(e) /\ Len(kept(e)) \in Nat
             /\ e \in told => /\ Len(Way(e)) \in Nat /\ Len(kept(e)) <= Len(Way(e))
                              /\ Way(e)' = SubSeq(Way(e), 1, Len(kept(e)))
             /\ e \notin told => Way(e)' = <<>>
  <2>1. /\ Alive(e[1]) => Way(e) = Then(ItemsFor(inbox[e[1]], e), ItemsFor(out, e))
        /\ ~Alive(e[1]) => Way(e) = <<>>
        /\ e[1] \in Bridge /\ inbox[e[1]] \in Seq(ToBridge) /\ out \in Seq(ToBridge)
    BY <1>1, WayIs
  <2>2. WayMap[e] = Way(e) BY DEF WayMap
  <2>3. PICK s \in Seq(Items), t \in Seq(Items) :
           s = ItemsFor(inbox[e[1]], e) /\ t = ItemsFor(out, e)
    BY <2>1, ItemsType
  <2>4. /\ Len(s) \in Nat /\ Len(Then(s, t)) \in Nat /\ Len(s) <= Len(Then(s, t))
        /\ SubSeq(Then(s, t), 1, Len(s)) = s
    BY ThenPrefix
  <2>5. Alive(e[1])' => Way(e)' = s
    <3>1. ItemsFor(out', e) = <<>> BY <1>2, ItemsEmpty
    <3>2. Then(s, <<>>) = s BY ThenEmpty
    <3>3. ItemsFor(inbox'[e[1]], e) = s BY <1>2, <2>3
    <3> QED BY <3>1, <3>2, <3>3, WayNext
  <2>6. ~Alive(e[1])' => Way(e)' = <<>> BY WayNext
  <2>7. e \in told => Alive(e[1]) BY <2>1, <2>2
  <2>8. ASSUME e \notin told, Alive(e[1]) PROVE s = <<>>
    <3>1. Then(s, t) = <<>> BY <2>1, <2>2, <2>3, <2>8
    <3>2. Len(Then(s, t)) = 0 BY <3>1
    <3>3. Len(s) = 0 BY <2>4, <3>2
    <3> QED BY <3>3, EmptySeq
  <2> HIDE DEF told
  <2>9. ASSUME e \in told
        PROVE  /\ Len(Way(e)) \in Nat /\ Len(kept(e)) <= Len(Way(e))
               /\ Way(e)' = SubSeq(Way(e), 1, Len(kept(e)))
    BY <1>3, <2>1, <2>3, <2>4, <2>5, <2>7, <2>9
  <2>10. ASSUME e \notin told PROVE Way(e)' = <<>>
    BY <1>3, <2>1, <2>5, <2>6, <2>8, <2>10
  <2> QED BY <2>2, <2>3, <2>4, <2>9, <2>10
<1>5. told \subseteq End OBVIOUS
<1> HIDE DEF told, kept
<1>6. \A e \in told : n[e] = Len(kept(e)) /\ n[e] <= Len(WayMap[e]) BY <1>4, <1>5
<1>7. n \in [told -> UNION {0 .. Len(WayMap[e]) : e \in told}]
  <2> SUFFICES ASSUME NEW e \in told PROVE Len(kept(e)) \in 0 .. Len(WayMap[e])
    OBVIOUS
  <2> QED BY <1>4, <1>5
<1>8. WayMap' = [e \in End |-> IF e \in told THEN SubSeq(WayMap[e], 1, n[e]) ELSE <<>>]
  BY <1>4, <1>5 DEF WayMap
<1>9. Reports' = <<>> BY <1>2, ReportsEmpty DEF Reports, ReportsOf
<1>10. AliveSet' = AliveSet BY <1>3 DEF AliveSet
<1> HIDE DEF n
<1>11. \E x \in [told -> UNION {0 .. Len(WayMap[e]) : e \in told}] :
          /\ \A e \in told : x[e] <= Len(WayMap[e])
          /\ WayMap' = [e \in End |-> IF e \in told THEN SubSeq(WayMap[e], 1, x[e]) ELSE <<>>]
  BY <1>6, <1>7, <1>8
<1> QED
  BY <1>2, <1>9, <1>10, <1>11
  DEF C!Blackout, C!End, End, C!None, None, AliveSet, WayMap, told

\* A datagram that the manager reads.
LEMMA ReadUidRoutes ==
  ASSUME CablesInv, ReadUid
  PROVE  [C!Next]_C!vars
<1>1. Head(queue) \in ToMngr BY HeadOfQueue
<1>2. Head(queue).cmd \in {"BRIDGE_HANDSHAKE", "BRIDGE_SHUTDOWN", "BPDU"} BY <1>1 DEF ToMngr
<1>3. CASE Head(queue).cmd = "BRIDGE_HANDSHAKE" BY <1>3, HelloIsUnseen
<1>4. CASE Head(queue).cmd = "BRIDGE_SHUTDOWN" BY <1>4, GoodbyeRetires DEF C!Next
<1>5. CASE Head(queue).cmd = "BPDU" BY <1>5, BpduRoutes DEF C!Next
<1> QED BY <1>2, <1>3, <1>4, <1>5

-----------------------------------------------------------------------------
(* The refinement *)

\* Every step is a step of the cables or none.
LEMMA CablesStep == CablesInv /\ [Next]_vars => [C!Next]_C!vars
<1> SUFFICES ASSUME CablesInv, [Next]_vars PROVE [C!Next]_C!vars OBVIOUS
<1>1. C!End = End BY DEF C!End, End
<1>2. ASSUME NEW b \in Bridge, BridgeStep(b) PROVE [C!Next]_C!vars
  <2>1. CASE Start(b) BY <2>1, StartJoins DEF C!Next
  <2>2. CASE StartCall(b) \/ Quit(b) BY <2>2, UnseenSteps
  <2>3. CASE Transmit(b) BY <1>1, <2>3, TransmitSends DEF C!Next
  <2>4. CASE Read(b) BY <1>1, <2>4, ReadReceives DEF C!Next
  <2>5. CASE SayBye(b) \/ Crash(b) BY <2>5, SayByeLeaves DEF C!Next
  <2> QED BY <1>2, <2>1, <2>2, <2>3, <2>4, <2>5 DEF BridgeStep
<1>3. ASSUME Operator PROVE [C!Next]_C!vars
  <2>1. ASSUME NEW l \in Links, LinkBridges(l[1], l[2], l[3], l[4]) PROVE [C!Next]_C!vars
    <3>1. l[2] \in PortNo /\ l[4] \in PortNo BY MngrAssumption DEF PortNo
    <3> QED BY <1>1, <2>1, <3>1, LinkPlugs DEF C!Next
  <2>2. ASSUME NEW n \in Pid, NEW p \in PortNo, UnlinkPort(n, p) PROVE [C!Next]_C!vars
    BY <1>1, <2>2, UnlinkUnplugs DEF C!Next
  <2>3. CASE QuitManager BY <2>3, QuitIsUnseen
  <2> QED BY <1>3, <2>1, <2>2, <2>3 DEF Operator
<1>4. CASE ManagerReturns \/ ManagerCrash
  BY <1>4, GoneIsBlackout DEF ManagerReturns, ManagerCrash, C!Next
<1>5. CASE ManagerStart \/ UNCHANGED vars BY <1>5, UnseenSteps
<1> QED BY <1>2, <1>3, <1>4, <1>5, ReadUidRoutes, DeliverIsUnseen DEF Next

\* The initial states are initial states of Cables, and satisfy the invariant.
LEMMA CablesInit == Init => C!Init /\ CablesInv
<1> SUFFICES ASSUME Init PROVE C!Init /\ CablesInv OBVIOUS
<1>1. /\ link = [e \in End |-> None] /\ queue = <<>> /\ peer = [e \in End |-> None]
      /\ \A b \in Bridge : inbox[b] = <<>> /\ ~Alive(b)
  BY DEF Init, Alive
<1>2. DOMAIN <<>> = {} OBVIOUS
<1>3. RoomInv BY <1>1, <1>2 DEF RoomInv
<1>4. AliveSet = {} BY <1>1 DEF AliveSet
<1>5. WayMap = [e \in End |-> <<>>] BY <1>1 DEF WayMap, Way, End
<1>6. Reports = <<>> BY <1>1, ReportsEmpty DEF Reports, ReportsOf
<1>7. C!Init
  BY <1>1, <1>4, <1>5, <1>6 DEF C!Init, C!End, End, C!None, None, AliveSet, WayMap
<1> QED BY <1>3, <1>7, FramesInit DEF CablesInv

\* The invariant survives every step.
LEMMA CablesInvStep == CablesInv /\ [Next]_vars => CablesInv'
BY FramesStep, RoomStep DEF CablesInv, FramesInv, TableInv

\* Whatever the sockets delay, whatever bridges die, come back under an old pid or
\* say goodbye, and wherever the manager dies: each step of a process is one step of
\* Cables or none (mngr.c, IPC/ipc.c and the ends of it in bridge.c).
THEOREM MngrIsCables == Spec => Implements
BY CablesInit, CablesInvStep, CablesStep, PTL DEF Spec, Implements, C!Spec
=============================================================================
