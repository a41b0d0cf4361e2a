------------------------- MODULE BridgesEndsProofs -------------------------
(***************************************************************************)
(* The ends of the cables between two bridges: the queues of the manager and *)
(* what lies in them, what a bridge's steps make of the end it holds, what   *)
(* the two ends know of each other (Pair), and the invariant of the two      *)
(* bridges (BridgesInv), which the bridges' own steps and the manager's      *)
(* passing on of a LACPDU keep.  BridgesProofs has the other steps.          *)
(*                                                                         *)
(* Each bridge is LacpChipProofs for its own variables: LP and RP.  What    *)
(* these say of one bridge's steps, that its ports go on from what they were *)
(* (Follows), is all that is used of the inside of a bridge.               *)
(***************************************************************************)
EXTENDS BridgesSafety, SequenceTheorems, WellFoundedInduction, TLAPS

-----------------------------------------------------------------------------
(* Queues *)

\* The last LACPDU that port e has sent and the manager has not reached, if there is one.
LatestAt(s, e) ==
    {i \in 1 .. Len(s) : /\ s[i].from = e
                         /\ \A k \in 1 .. Len(s) : k > i => s[k].from # e}
Latest(s, e) == {s[i].pdu : i \in LatestAt(s, e)}

\* The last item of queue w, if there is one.
LastItem(w) == IF w = <<>> THEN {} ELSE {w[Len(w)]}

LEMMA LeastNumber ==
  ASSUME NEW S \in SUBSET Nat, S # {}
  PROVE  \E n \in S : \A m \in S : n <= m
<1> DEFINE Below == OpToRel(<, Nat)
<1>1. IsWellFoundedOn(Below, Nat) BY NatLessThanWellFounded, Zenon
<1>2. \A m, n \in Nat : m < n => <<m, n>> \in Below BY DEF OpToRel
<1> HIDE DEF Below
<1>3. PICK n \in S : \A m \in S : ~ (<<m, n>> \in Below) BY <1>1, WFMin
<1>4. \A m \in S : ~ (m < n) BY <1>2, <1>3
<1> QED BY <1>4

LEMMA LatestOfNone == \A e : Latest(<<>>, e) = {}
BY DEF Latest, LatestAt

LEMMA LatestOfMore ==
  ASSUME NEW S, NEW s \in Seq(S), NEW x \in S, NEW e
  PROVE  Latest(Append(s, x), e) = IF x.from = e THEN {x.pdu} ELSE Latest(s, e)
<1> DEFINE a == Append(s, x)
           n == Len(s)
<1>1. /\ n \in Nat /\ Len(a) = n + 1 /\ a[n + 1] = x
      /\ \A i \in 1 .. n : a[i] = s[i]
  OBVIOUS
<1> HIDE DEF a
<1>2. CASE x.from = e
  <2>1. LatestAt(a, e) = {n + 1} BY <1>1, <1>2 DEF LatestAt
  <2>2. Latest(a, e) = {x.pdu} BY <1>1, <2>1 DEF Latest
  <2> QED BY <1>2, <2>2 DEF a
<1>3. CASE x.from # e
  <2>1. LatestAt(a, e) = LatestAt(s, e) BY <1>1, <1>3 DEF LatestAt
  <2>2. \A i \in LatestAt(s, e) : a[i] = s[i] BY <1>1 DEF LatestAt
  <2>3. Latest(a, e) = Latest(s, e) BY <2>1, <2>2 DEF Latest
  <2> QED BY <1>3, <2>3 DEF a
<1> QED BY <1>2, <1>3

LEMMA LatestOfRest ==
  ASSUME NEW S, NEW s \in Seq(S), s # <<>>, NEW e
  PROVE  \/ Latest(Tail(s), e) = Latest(s, e) /\ (Head(s).from = e => Latest(s, e) # {})
         \/ /\ Head(s).from = e
            /\ Latest(Tail(s), e) = {} /\ Latest(s, e) = {Head(s).pdu}
<1> DEFINE r == Tail(s)
           n == Len(s)
<1>1. /\ n \in Nat \ {0} /\ Len(r) = n - 1 /\ Head(s) = s[1]
      /\ \A i \in 1 .. n - 1 : r[i] = s[i + 1]
  OBVIOUS
<1> HIDE DEF r
<1>2. CASE s[1].from = e /\ \A k \in 2 .. n : s[k].from # e
  <2>1. LatestAt(s, e) = {1}
    <3>1. 1 \in LatestAt(s, e) BY <1>1, <1>2 DEF LatestAt
    <3>2. \A i \in LatestAt(s, e) : i = 1 BY <1>1, <1>2 DEF LatestAt
    <3> QED BY <3>1, <3>2
  <2>2. LatestAt(r, e) = {}
    <3>1. \A i \in 1 .. n - 1 : r[i].from # e
      <4> SUFFICES ASSUME NEW i \in 1 .. n - 1 PROVE r[i].from # e OBVIOUS
      <4>1. i + 1 \in 2 .. n BY <1>1
      <4> QED BY <1>1, <1>2, <4>1
    <3> QED BY <1>1, <3>1 DEF LatestAt
  <2> QED BY <1>1, <1>2, <2>1, <2>2 DEF Latest, r
<1>3. CASE ~(s[1].from = e /\ \A k \in 2 .. n : s[k].from # e)
  <2>1. \A i \in 1 .. n - 1 : i \in LatestAt(r, e) <=> i + 1 \in LatestAt(s, e)
    <3> SUFFICES ASSUME NEW i \in 1 .. n - 1
                 PROVE  i \in LatestAt(r, e) <=> i + 1 \in LatestAt(s, e)
      OBVIOUS
    <3>1. i + 1 \in 1 .. n /\ r[i] = s[i + 1] BY <1>1
    <3>2. ASSUME i \in LatestAt(r, e), NEW k \in 1 .. n, k > i + 1 PROVE s[k].from # e
      <4>1. k - 1 \in 1 .. n - 1 /\ k - 1 > i /\ (k - 1) + 1 = k BY <1>1, <3>2
      <4>2. r[k - 1].from # e BY <1>1, <3>2, <4>1 DEF LatestAt
      <4>3. r[k - 1] = s[(k - 1) + 1] BY <1>1, <4>1
      <4> QED BY <4>1, <4>2, <4>3
    <3>3. ASSUME i + 1 \in LatestAt(s, e), NEW k \in 1 .. n - 1, k > i PROVE r[k].from # e
      <4>1. k + 1 \in 1 .. n /\ k + 1 > i + 1 BY <1>1, <3>3
      <4>2. s[k + 1].from # e BY <1>1, <3>3, <4>1 DEF LatestAt
      <4> QED BY <1>1, <4>2
    <3> QED BY <1>1, <3>1, <3>2, <3>3 DEF LatestAt
  <2>2. 1 \notin LatestAt(s, e) BY <1>1, <1>3 DEF LatestAt
  <2>3. Latest(r, e) \subseteq Latest(s, e)
    <3> SUFFICES ASSUME NEW i \in LatestAt(r, e) PROVE r[i].pdu \in Latest(s, e)
      BY DEF Latest
    <3>1. i \in 1 .. n - 1 BY <1>1 DEF LatestAt
    <3>2. i + 1 \in LatestAt(s, e) /\ r[i] = s[i + 1] BY <1>1, <2>1, <3>1
    <3> QED BY <3>2 DEF Latest
  <2>4. Latest(s, e) \subseteq Latest(r, e)
    <3> SUFFICES ASSUME NEW i \in LatestAt(s, e) PROVE s[i].pdu \in Latest(r, e)
      BY DEF Latest
    <3>1. i \in 1 .. n /\ i # 1 BY <1>1, <2>2 DEF LatestAt
    <3>2. PICK k \in 1 .. n - 1 : k + 1 = i
      <4>1. i - 1 \in 1 .. n - 1 /\ (i - 1) + 1 = i BY <1>1, <3>1
      <4> QED BY <4>1
    <3>3. k \in LatestAt(r, e) /\ r[k] = s[i] BY <1>1, <2>1, <3>2
    <3> QED BY <3>3 DEF Latest
  <2>5. s[1].from = e => Latest(s, e) # {}
    <3> SUFFICES ASSUME s[1].from = e PROVE Latest(s, e) # {} OBVIOUS
    <3> DEFINE T == {k \in 2 .. n : s[k].from = e}
    <3>1. T # {} /\ T \subseteq 2 .. n BY <1>3
    <3>2. PICK k \in T : \A i \in T : i <= k
      <4> DEFINE B == {n - i : i \in T}
      <4>1. B # {} /\ B \in SUBSET Nat BY <1>1, <3>1
      <4> HIDE DEF B
      <4>2. PICK b \in B : \A c \in B : b <= c BY <4>1, LeastNumber
      <4>3. PICK k \in T : b = n - k BY DEF B
      <4>4. \A i \in T : n - i \in B BY DEF B
      <4>5. \A i \in T : n - k <= n - i BY <4>2, <4>3, <4>4
      <4>6. \A i \in T : i <= k BY <1>1, <3>1, <4>5
      <4> QED BY <4>3, <4>6
    <3>3. k \in LatestAt(s, e) BY <1>1, <3>1, <3>2 DEF LatestAt
    <3> QED BY <3>3 DEF Latest
  <2> QED BY <1>1, <2>3, <2>4, <2>5 DEF r
<1> QED BY <1>2, <1>3

LEMMA LastOfAny ==
  ASSUME NEW S, NEW w \in Seq(S)
  PROVE  /\ LastItem(<<>>) = {}
         /\ \A x \in S : LastItem(Append(w, x)) = {x}
         /\ w # <<>> => LastItem(w) # {}
BY DEF LastItem

LEMMA LastOfRest ==
  ASSUME NEW S, NEW w \in Seq(S), w # <<>>
  PROVE  \/ LastItem(Tail(w)) = LastItem(w) /\ Tail(w) # <<>>
         \/ LastItem(Tail(w)) = {} /\ LastItem(w) = {Head(w)} /\ Tail(w) = <<>>
<1>1. /\ Len(w) \in Nat \ {0} /\ Len(Tail(w)) = Len(w) - 1 /\ Head(w) = w[1]
      /\ Tail(w) \in Seq(S)
      /\ \A i \in 1 .. Len(w) - 1 : Tail(w)[i] = w[i + 1]
  OBVIOUS
<1>2. CASE Len(w) = 1
  <2>1. Tail(w) = <<>>
    <3>1. Len(Tail(w)) = 0 /\ Tail(w) \in Seq(S) BY <1>1, <1>2
    <3> QED BY <3>1, EmptySeq
  <2>2. w[Len(w)] = Head(w) BY <1>1, <1>2
  <2> QED BY <2>1, <2>2 DEF LastItem
<1>3. CASE Len(w) # 1
  <2>1. Tail(w) # <<>>
    <3>1. Len(Tail(w)) # 0 /\ Len(<<>>) = 0 BY <1>1, <1>3
    <3> QED BY <3>1, Zenon
  <2>2. Tail(w)[Len(w) - 1] = w[Len(w)]
    <3>1. Len(w) - 1 \in 1 .. Len(w) - 1 /\ (Len(w) - 1) + 1 = Len(w) BY <1>1, <1>3
    <3> QED BY <1>1, <3>1
  <2> QED BY <1>1, <2>1, <2>2 DEF LastItem
<1> QED BY <1>2, <1>3

\* An item finds the link of the port that reads it at b and leaves it at c; a port is
\* told that it is connected only when it is not.
Turns(b, d, c) ==
    /\ d.cmd = "CONNECT" => ~b /\ c
    /\ d.cmd = "DISCONNECT" => ~c
    /\ d.cmd = "BPDU" => c = b

\* What is on the way leads the link from up to end.
Leads(w, up, end) ==
    \E f \in [0 .. Len(w) -> BOOLEAN] :
       /\ f[0] = up /\ f[Len(w)] = end
       /\ \A i \in 1 .. Len(w) : Turns(f[i - 1], w[i], f[i])

LEMMA LeadsOfNone ==
  ASSUME NEW up \in BOOLEAN, NEW end
  PROVE  Leads(<<>>, up, end) <=> end = up
<1>1. Leads(<<>>, up, end) => end = up BY DEF Leads
<1>2. Leads(<<>>, up, up)
  <2> DEFINE f == [i \in 0 .. 0 |-> up]
  <2>1. f \in [0 .. Len(<<>>) -> BOOLEAN] /\ f[0] = up /\ Len(<<>>) = 0 OBVIOUS
  <2> HIDE DEF f
  <2> QED BY <2>1 DEF Leads
<1> QED BY <1>1, <1>2

LEMMA LeadsOfMore ==
  ASSUME NEW S, NEW w \in Seq(S), NEW x \in S, NEW up, NEW b, NEW c \in BOOLEAN,
         Leads(w, up, b), Turns(b, x, c)
  PROVE  Leads(Append(w, x), up, c)
<1> DEFINE n == Len(w)
           a == Append(w, x)
<1>1. /\ n \in Nat /\ Len(a) = n + 1 /\ a[n + 1] = x
      /\ \A i \in 1 .. n : a[i] = w[i]
  OBVIOUS
<1>2. PICK f \in [0 .. n -> BOOLEAN] :
            /\ f[0] = up /\ f[n] = b
            /\ \A i \in 1 .. n : Turns(f[i - 1], w[i], f[i])
  BY DEF Leads
<1> HIDE DEF a
<1> DEFINE g == [i \in 0 .. n + 1 |-> IF i = n + 1 THEN c ELSE f[i]]
<1>3. g \in [0 .. n + 1 -> BOOLEAN] BY <1>1
<1>4. g[0] = up /\ g[n + 1] = c BY <1>1, <1>2
<1>5. ASSUME NEW i \in 1 .. n + 1 PROVE Turns(g[i - 1], a[i], g[i])
  <2>1. CASE i = n + 1
    <3>1. g[i - 1] = b /\ g[i] = c BY <1>1, <1>2, <2>1
    <3> HIDE DEF g
    <3> QED BY <1>1, <2>1, <3>1
  <2>2. CASE i \in 1 .. n
    <3>1. g[i - 1] = f[i - 1] /\ g[i] = f[i] BY <1>1, <2>2
    <3> HIDE DEF g
    <3> QED BY <1>1, <1>2, <2>2, <3>1
  <2> QED BY <1>1, <2>1, <2>2
<1> HIDE DEF g
<1>6. Leads(a, up, c) BY <1>1, <1>3, <1>4, <1>5 DEF Leads
<1> QED BY <1>6 DEF a

LEMMA LeadsOfRest ==
  ASSUME NEW S, NEW w \in Seq(S), w # <<>>, NEW up, NEW end, Leads(w, up, end)
  PROVE  \E b \in BOOLEAN : Turns(up, Head(w), b) /\ Leads(Tail(w), b, end)
<1> DEFINE n == Len(w)
           r == Tail(w)
<1>1. /\ n \in Nat \ {0} /\ Len(r) = n - 1 /\ Head(w) = w[1]
      /\ \A i \in 1 .. n - 1 : r[i] = w[i + 1]
  OBVIOUS
<1>2. PICK f \in [0 .. n -> BOOLEAN] :
            /\ f[0] = up /\ f[n] = end
            /\ \A i \in 1 .. n : Turns(f[i - 1], w[i], f[i])
  BY DEF Leads
<1> HIDE DEF r
<1> DEFINE g == [i \in 0 .. n - 1 |-> f[i + 1]]
<1>3. g \in [0 .. n - 1 -> BOOLEAN] BY <1>1
<1>4. g[0] = f[1] /\ g[n - 1] = end
  <2>1. n - 1 \in 0 .. n - 1 /\ (n - 1) + 1 = n /\ 0 \in 0 .. n - 1 BY <1>1
  <2> QED BY <1>2, <2>1
<1>5. ASSUME NEW i \in 1 .. n - 1 PROVE Turns(g[i - 1], r[i], g[i])
  <2>1. i + 1 \in 1 .. n /\ (i - 1) + 1 = i /\ (i + 1) - 1 = i BY <1>1
  <2>2. g[i - 1] = f[i] /\ g[i] = f[i + 1] BY <1>1
  <2>3. Turns(f[(i + 1) - 1], w[i + 1], f[i + 1]) BY <1>2, <2>1
  <2> HIDE DEF g
  <2> QED BY <1>1, <2>1, <2>2, <2>3
<1> HIDE DEF g
<1>6. Leads(r, f[1], end) BY <1>1, <1>3, <1>4, <1>5 DEF Leads
<1>7. f[1] \in BOOLEAN /\ Turns(up, Head(w), f[1])
  <2>1. 1 \in 1 .. n /\ 1 - 1 = 0 BY <1>1
  <2>2. Turns(f[1 - 1], w[1], f[1]) BY <1>2, <2>1
  <2> QED BY <1>1, <1>2, <2>2
<1> QED BY <1>6, <1>7 DEF r

LEMMA LeadsOfPart ==
  ASSUME NEW S, NEW w \in Seq(S), NEW n \in 0 .. Len(w), NEW up, NEW end,
         Leads(w, up, end)
  PROVE  \E b \in BOOLEAN : Leads(SubSeq(w, 1, n), up, b)
<1> DEFINE r == SubSeq(w, 1, n)
<1>1. Len(w) \in Nat /\ Len(r) = n /\ \A i \in 1 .. n : r[i] = w[i]
  OBVIOUS
<1>2. PICK f \in [0 .. Len(w) -> BOOLEAN] :
            f[0] = up /\ \A i \in 1 .. Len(w) : Turns(f[i - 1], w[i], f[i])
  BY DEF Leads
<1> HIDE DEF r
<1> DEFINE g == [i \in 0 .. n |-> f[i]]
<1>3. g \in [0 .. n -> BOOLEAN] BY <1>1
<1>4. g[0] = up /\ g[n] \in BOOLEAN BY <1>1, <1>2
<1>5. ASSUME NEW i \in 1 .. n PROVE Turns(g[i - 1], r[i], g[i])
  <2>1. g[i - 1] = f[i - 1] /\ g[i] = f[i] BY <1>1
  <2> HIDE DEF g
  <2> QED BY <1>1, <1>2, <2>1
<1> HIDE DEF g
<1>6. Leads(r, up, g[n]) BY <1>1, <1>3, <1>4, <1>5 DEF Leads
<1> QED BY <1>4, <1>6 DEF r

-----------------------------------------------------------------------------
(* The network between the two bridges *)

\* What a LACPDU carries.
Words == [actor : L!Info, partner : L!Info]

Letter == [from : N!End, pdu : Words]
Item == [cmd : {"CONNECT"}, from : N!End] \cup [cmd : {"DISCONNECT"}, from : {N!None}]
        \cup [cmd : {"BPDU"}, from : N!End, pdu : Words]
Letters == Seq(Letter)
Items == Seq(Item)

LEMMA ItemFacts ==
  /\ \A e \in N!End : N!Plugged(e) \in Item /\ N!Plugged(e).cmd = "CONNECT"
  /\ N!Unplugged \in Item /\ N!Unplugged.cmd = "DISCONNECT"
  /\ \A e \in N!End, m \in Words : /\ N!Carried(e, m) \in Item
                                   /\ N!Carried(e, m).cmd = "BPDU"
                                   /\ N!Carried(e, m).pdu = m
  /\ \A d \in Item : d.cmd \in {"CONNECT", "DISCONNECT", "BPDU"}
  /\ \A d \in Item : d.cmd = "BPDU" => d.pdu \in Words
BY DEF Item, N!Plugged, N!Unplugged, N!Carried

LEMMA SentFacts ==
  ASSUME NEW s \in Letters
  PROVE  /\ \A x \in Letter :
               /\ Append(s, x) \in Letters
               /\ \A e : Latest(Append(s, x), e) = IF x.from = e THEN {x.pdu} ELSE Latest(s, e)
         /\ s # <<>> =>
               /\ Tail(s) \in Letters /\ Head(s) \in Letter
               /\ \A e : \/ /\ Latest(Tail(s), e) = Latest(s, e)
                            /\ Head(s).from = e => Latest(s, e) # {}
                         \/ /\ Head(s).from = e
                            /\ Latest(Tail(s), e) = {} /\ Latest(s, e) = {Head(s).pdu}
<1>1. s \in Seq(Letter) BY DEF Letters
<1>2. ASSUME NEW x \in Letter PROVE Append(s, x) \in Letters BY <1>1 DEF Letters
<1>3. ASSUME NEW x \in Letter, NEW e
      PROVE  Latest(Append(s, x), e) = IF x.from = e THEN {x.pdu} ELSE Latest(s, e)
  BY <1>1, LatestOfMore
<1>4. s # <<>> => Tail(s) \in Letters /\ Head(s) \in Letter BY <1>1 DEF Letters
<1>5. ASSUME s # <<>>, NEW e
      PROVE  \/ Latest(Tail(s), e) = Latest(s, e) /\ (Head(s).from = e => Latest(s, e) # {})
             \/ /\ Head(s).from = e
                /\ Latest(Tail(s), e) = {} /\ Latest(s, e) = {Head(s).pdu}
  BY <1>1, <1>5, LatestOfRest
<1> QED BY <1>2, <1>3, <1>4, <1>5

LEMMA WayFacts ==
  ASSUME NEW w \in Items
  PROVE  /\ \A x \in Item : Append(w, x) \in Items /\ LastItem(Append(w, x)) = {x}
         /\ w # <<>> =>
               /\ Tail(w) \in Items /\ Head(w) \in Item /\ LastItem(w) # {}
               /\ \/ LastItem(Tail(w)) = LastItem(w) /\ Tail(w) # <<>>
                  \/ LastItem(Tail(w)) = {} /\ LastItem(w) = {Head(w)} /\ Tail(w) = <<>>
         /\ \A n \in 0 .. Len(w) : SubSeq(w, 1, n) \in Items
<1>1. w \in Seq(Item) BY DEF Items
<1>2. ASSUME NEW x \in Item PROVE Append(w, x) \in Items BY <1>1 DEF Items
<1>3. ASSUME NEW x \in Item PROVE LastItem(Append(w, x)) = {x} BY <1>1, LastOfAny
<1>4. w # <<>> => Tail(w) \in Items /\ Head(w) \in Item BY <1>1 DEF Items
<1>5. w # <<>> => LastItem(w) # {} BY <1>1, LastOfAny
<1>6. w # <<>> =>
        \/ LastItem(Tail(w)) = LastItem(w) /\ Tail(w) # <<>>
        \/ LastItem(Tail(w)) = {} /\ LastItem(w) = {Head(w)} /\ Tail(w) = <<>>
  BY <1>1, LastOfRest
<1>7. ASSUME NEW n \in 0 .. Len(w) PROVE SubSeq(w, 1, n) \in Items BY <1>1 DEF Items
<1> QED BY <1>2, <1>3, <1>4, <1>5, <1>6, <1>7

\* What is on the way w to a port whose link is up or not leads it to the cable's being
\* in; while the manager runs that told it so, also to its being out.
Ends(w, up, in, m) ==
    \E end \in BOOLEAN : Leads(w, up, end) /\ (in => end) /\ (m => (end => in))

\* What each kind of item that a port is told does to the end.
LEMMA EndsTold ==
  ASSUME NEW w \in Items, NEW up \in BOOLEAN, NEW in \in BOOLEAN, NEW m \in BOOLEAN,
         NEW x \in Item, Ends(w, up, in, m)
  PROVE  /\ x.cmd = "BPDU" => Ends(Append(w, x), up, in, m)
         /\ x.cmd = "CONNECT" /\ ~in /\ m => Ends(Append(w, x), up, TRUE, m)
         /\ x.cmd = "DISCONNECT" => Ends(Append(w, x), up, FALSE, m)
<1>1. w \in Seq(Item) BY DEF Items
<1>2. ASSUME NEW b \in BOOLEAN, NEW c \in BOOLEAN, Leads(w, up, b), Turns(b, x, c)
      PROVE  Leads(Append(w, x), up, c)
  BY <1>1, <1>2, LeadsOfMore
<1>3. x.cmd = "BPDU" => Ends(Append(w, x), up, in, m) BY <1>2 DEF Ends, Turns
<1>4. x.cmd = "CONNECT" /\ ~in /\ m => Ends(Append(w, x), up, TRUE, m)
  BY <1>2 DEF Ends, Turns
<1>5. x.cmd = "DISCONNECT" => Ends(Append(w, x), up, FALSE, m) BY <1>2 DEF Ends, Turns
<1> QED BY <1>3, <1>4, <1>5

\* What reading the first does.
LEMMA EndsRead ==
  ASSUME NEW w \in Items, w # <<>>, NEW up \in BOOLEAN, NEW in \in BOOLEAN,
         NEW m \in BOOLEAN, Ends(w, up, in, m)
  PROVE  \E b \in BOOLEAN : Turns(up, Head(w), b) /\ Ends(Tail(w), b, in, m)
<1>1. w \in Seq(Item) BY DEF Items
<1>2. PICK end \in BOOLEAN : Leads(w, up, end) /\ (in => end) /\ (m => (end => in))
  BY DEF Ends
<1>3. PICK b \in BOOLEAN : Turns(up, Head(w), b) /\ Leads(Tail(w), b, end)
  BY <1>1, <1>2, LeadsOfRest
<1> QED BY <1>2, <1>3 DEF Ends

\* What is left when the manager has gone.
LEMMA EndsPart ==
  ASSUME NEW w \in Items, NEW n \in 0 .. Len(w), NEW up \in BOOLEAN, NEW in \in BOOLEAN,
         NEW m \in BOOLEAN, Ends(w, up, in, m)
  PROVE  Ends(SubSeq(w, 1, n), up, FALSE, FALSE)
<1>1. w \in Seq(Item) BY DEF Items
<1>2. PICK end \in BOOLEAN : Leads(w, up, end) BY DEF Ends
<1>3. PICK b \in BOOLEAN : Leads(SubSeq(w, 1, n), up, b) BY <1>1, <1>2, LeadsOfPart
<1> QED BY <1>3 DEF Ends

LEMMA EndsOfNone ==
  ASSUME NEW up \in BOOLEAN, NEW m \in BOOLEAN
  PROVE  /\ Ends(<<>>, up, FALSE, FALSE)
         /\ Ends(<<>>, FALSE, FALSE, m)
         /\ Ends(<<>>, up, TRUE, m) => up
BY LeadsOfNone DEF Ends

AtL(p) == <<"L", p>>
AtR(p) == <<"R", p>>

LEMMA PortEnds ==
  /\ \A p \in Port : AtL(p) \in N!End /\ AtR(p) \in N!End
  /\ \A e \in N!End : \E p \in Port : e = AtL(p) \/ e = AtR(p)
  /\ \A p, q : /\ AtL(p) = AtL(q) <=> p = q
               /\ AtR(p) = AtR(q) <=> p = q
               /\ AtL(p) # AtR(q)
  /\ \A p : /\ AtL(p) # N!None /\ AtR(p) # N!None
            /\ AtL(p)[1] = "L" /\ AtR(p)[1] = "R"
BY DEF AtL, AtR, N!End, N!None

-----------------------------------------------------------------------------
(* The two bridges *)

\* Each bridge as its proofs know it.
LP == INSTANCE LacpChipProofs WITH
       Mac <- {MacL, MacR, ZeroMac}, OwnMac <- {MacL}, Remote <- {}, Heard <- {},
       IpcLinks <- {}, CliLinks <- {}, Speeds <- {}, Duplexes <- {}, PortPrios <- {},
       SysPrios <- {}, Timeouts <- {}, LongPeriods <- {}, ShortPeriods <- {},
       MayReEnable <- FALSE,
       ports <- portsL, port <- portL, sys <- sysL, attr <- attrL, group <- groupL,
       cur <- curL, pc <- pcL, ret <- retL, args <- argsL

RP == INSTANCE LacpChipProofs WITH
       Mac <- {MacL, MacR, ZeroMac}, OwnMac <- {MacR}, Remote <- {}, Heard <- {},
       IpcLinks <- {}, CliLinks <- {}, Speeds <- {}, Duplexes <- {}, PortPrios <- {},
       SysPrios <- {}, Timeouts <- {}, LongPeriods <- {}, ShortPeriods <- {},
       MayReEnable <- FALSE,
       ports <- portsR, port <- portR, sys <- sysR, attr <- attrR, group <- groupR,
       cur <- curR, pc <- pcR, ret <- retR, args <- argsR

LEMMA LeftParams ==
  /\ Port \subseteq 0 .. 143 /\ Agg \subseteq 1 .. 32
  /\ LacpPortMax \in Nat /\ MaxTx \in Nat
  /\ LongTimeout \in LP!Word /\ ShortTimeout \in LP!Word
  /\ SlowPeriodic \in LP!Word /\ FastPeriodic \in LP!Word /\ AggregateWait \in LP!Word
<1>1. L!Word = LP!Word BY DEF L!Word, LP!Word, L!MaxWord, LP!MaxWord
<1> QED BY <1>1, RangeAssumption

LEMMA RightParams ==
  /\ Port \subseteq 0 .. 143 /\ Agg \subseteq 1 .. 32
  /\ LacpPortMax \in Nat /\ MaxTx \in Nat
  /\ LongTimeout \in RP!Word /\ ShortTimeout \in RP!Word
  /\ SlowPeriodic \in RP!Word /\ FastPeriodic \in RP!Word /\ AggregateWait \in RP!Word
<1>1. L!Word = RP!Word BY DEF L!Word, RP!Word, L!MaxWord, RP!MaxWord
<1> QED BY <1>1, RangeAssumption

-----------------------------------------------------------------------------
(* What the two ends of a cable know of each other *)

Says(i) == "SYN" \in i.state

\* Port Y at one end has LACPDU SY at the manager, port X has WX last on its way; the
\* sets have one element or none.  What Y waits to be told it has asked for: the last
\* word from Y says that it does not see X in sync.
Told(SY, WX, X) ==
    IF SY # {} THEN \A m \in SY : ~Says(m.partner)
    ELSE IF WX # {} THEN \A d \in WX : d.cmd = "BPDU" => ~Says(d.pdu.partner)
    ELSE IF X.msg.rcvd THEN ~Says(X.msg.partner)
    ELSE X.rx # "CURRENT"

\* The last word from Y, wherever it is under way, is right about Y, and what X has
\* recorded of it; when Y waits for X, X has said or is going to say what Y waits for.
SentIsRight(SY, Y) == \A m \in SY : LP!Right(Y, Says(m.actor))
CarriedIsRight(j, SY, WX, Y) ==
    j /\ SY = {} => \A d \in WX : d.cmd = "BPDU" => LP!Right(Y, Says(d.pdu.actor))
HeardIsRight(j, SY, WX, X, Y) ==
    j /\ SY = {} /\ WX = {} =>
       /\ X.msg.rcvd => LP!Right(Y, Says(X.msg.actor))
       /\ ~X.msg.rcvd /\ X.rx = "CURRENT" /\ LP!Sees(X) => LP!Right(Y, TRUE)
WaitIsHeard(j, SY, SX, WX, WY, X, Y) ==
    j /\ Y.mux = "ATTACHED" /\ ~LP!Sees(Y) =>
       \/ Y.ntt \/ Y.msg.rcvd \/ WY # {} \/ SX # {}
       \/ LP!Hush(X) \/ Told(SY, WX, X)

Knows(j, SY, SX, WX, WY, X, Y) ==
    /\ SentIsRight(SY, Y) /\ CarriedIsRight(j, SY, WX, Y)
    /\ HeardIsRight(j, SY, WX, X, Y) /\ WaitIsHeard(j, SY, SX, WX, WY, X, Y)

\* Ports t1 and t2 at the two ends, with s1 and s2 at the manager and w1 and w2 on
\* their ways; j tells whether the cable is in.
Pair(j, s1, s2, w1, w2, t1, t2) ==
    Knows(j, s1, s2, w2, w1, t2, t1) /\ Knows(j, s2, s1, w1, w2, t1, t2)

LEMMA PairTurns ==
  ASSUME NEW j, NEW s1, NEW s2, NEW w1, NEW w2, NEW t1, NEW t2,
         Pair(j, s1, s2, w1, w2, t1, t2)
  PROVE  Pair(j, s2, s1, w2, w1, t2, t1)
BY DEF Pair

\* A step of one end.
LEMMA PairFollows ==
  ASSUME NEW j, NEW s1, NEW s2, NEW w1, NEW w2, NEW t1, NEW t2, NEW u1,
         Pair(j, s1, s2, w1, w2, t1, t2), LP!Follows(t1, u1),
         j /\ u1.mux = "ATTACHED" /\ ~u1.port_enabled => w1 # {}
  PROVE  Pair(j, s1, s2, w1, w2, u1, t2)
<1>0. /\ \A i : LP!Right(t1, Says(i)) => LP!Right(u1, Says(i))
      /\ LP!Right(t1, TRUE) => LP!Right(u1, TRUE)
  <2>1. \A i : Says(i) \in BOOLEAN BY DEF Says
  <2> QED BY <2>1, Zenon DEF LP!Follows
<1>1. SentIsRight(s1, u1) /\ CarriedIsRight(j, s1, w2, u1) /\ HeardIsRight(j, s1, w2, t2, u1)
  BY <1>0, Zenon DEF Pair, Knows, SentIsRight, CarriedIsRight, HeardIsRight
<1>2. WaitIsHeard(j, s1, s2, w2, w1, t2, u1)
  <2> SUFFICES ASSUME j, u1.mux = "ATTACHED", ~LP!Sees(u1),
                      ~u1.ntt, ~u1.msg.rcvd, w1 = {}, s2 = {}
               PROVE  LP!Hush(t2) \/ Told(s1, w2, t2)
    BY DEF WaitIsHeard
  <2>1. CASE LP!Waits(t1)
    BY <2>1 DEF Pair, Knows, WaitIsHeard, LP!Waits
  <2>2. CASE t1.msg.rcvd /\ ~Says(t1.msg.actor)
    BY <2>2 DEF Pair, Knows, HeardIsRight, LP!Right, LP!Hush
  <2> QED BY <2>1, <2>2 DEF LP!Follows, LP!Waits, LP!Bit, Says
<1>3. SentIsRight(s2, t2) /\ CarriedIsRight(j, s2, w1, t2) BY DEF Pair, Knows
<1>4. HeardIsRight(j, s2, w1, u1, t2)
  BY Zenon DEF Pair, Knows, HeardIsRight, LP!Follows, LP!Bit, Says
<1>5. WaitIsHeard(j, s2, s1, w1, w2, u1, t2)
  <2>1. Told(s2, w1, t1) => Told(s2, w1, u1) \/ LP!Hush(u1)
    BY DEF Told, LP!Follows, LP!Bit, Says
  <2>2. LP!Hush(t1) => LP!Hush(u1) BY DEF LP!Follows
  <2> QED BY <2>1, <2>2 DEF Pair, Knows, WaitIsHeard
<1> QED BY <1>1, <1>2, <1>3, <1>4, <1>5 DEF Pair, Knows

\* One end transmits.
LEMMA PairSends ==
  ASSUME NEW j, NEW s1, NEW s2, NEW w1, NEW w2, NEW t1, NEW t2, NEW u1,
         Pair(j, s1, s2, w1, w2, t1, t2),
         LP!Only(t1, u1, {"tx", "hold_count", "ntt"}), ~u1.ntt
  PROVE  Pair(j, {Lacpdu(u1)}, s2, w1, w2, u1, t2)
<1>1. /\ u1.rx = t1.rx /\ u1.mux = t1.mux /\ u1.msg = t1.msg /\ u1.partner = t1.partner
      /\ u1.actor = t1.actor
  BY DEF LP!Only, LP!Field
<1>2. /\ Lacpdu(u1).actor = t1.actor /\ Lacpdu(u1).partner = t1.partner
      /\ {Lacpdu(u1)} # {}
  BY <1>1 DEF Lacpdu
<1>3. /\ SentIsRight({Lacpdu(u1)}, u1)
      /\ Told({Lacpdu(u1)}, w2, t2) \/ LP!Sees(u1)
  BY <1>1, <1>2 DEF SentIsRight, Told, LP!Right, LP!Syn, LP!Sees, LP!Bit, Says
<1>4. Knows(j, {Lacpdu(u1)}, s2, w2, w1, t2, u1)
  BY <1>1, <1>2, <1>3
     DEF Knows, SentIsRight, CarriedIsRight, HeardIsRight, WaitIsHeard, LP!Right, LP!Syn,
         LP!Bit, Says
<1>5. Knows(j, s2, {Lacpdu(u1)}, w1, w2, u1, t2)
  BY <1>1, <1>2, Zenon
     DEF Pair, Knows, HeardIsRight, WaitIsHeard, Told, LP!Sees
<1> QED BY <1>4, <1>5 DEF Pair

\* The manager carries the last LACPDU of one end to the other.
LEMMA PairCarries ==
  ASSUME NEW j, NEW s2, NEW w1, NEW w2, NEW t1, NEW t2, NEW d, d.cmd = "BPDU",
         Pair(j, {d.pdu}, s2, w1, w2, t1, t2)
  PROVE  Pair(j, {}, s2, w1, {d}, t1, t2)
<1>1. Knows(j, {}, s2, {d}, w1, t2, t1)
  BY Zenon DEF Pair, Knows, SentIsRight, CarriedIsRight, HeardIsRight, WaitIsHeard, Told
<1>2. Knows(j, s2, {}, w1, {d}, t1, t2)
  BY Zenon DEF Pair, Knows, CarriedIsRight, HeardIsRight, WaitIsHeard
<1> QED BY <1>1, <1>2 DEF Pair

\* Or one that is not the last.
LEMMA PairCarriesOn ==
  ASSUME NEW j, NEW s1, NEW s2, NEW w1, NEW w2, NEW v2, NEW t1, NEW t2,
         s1 # {}, v2 # {}, Pair(j, s1, s2, w1, w2, t1, t2)
  PROVE  Pair(j, s1, s2, w1, v2, t1, t2)
BY Zenon DEF Pair, Knows, CarriedIsRight, HeardIsRight, WaitIsHeard, Told

\* The manager takes LACPDU d of one end: it goes to the other end when the cable is in,
\* unless nothing is there.
LEMMA PairRoutes ==
  ASSUME NEW j, NEW s1, NEW s2, NEW w1, NEW w2, NEW t1, NEW t2, NEW v1, NEW v2, NEW d,
         Pair(j, s1, s2, w1, w2, t1, t2), d.cmd = "BPDU",
         (v1 = s1 /\ s1 # {}) \/ (v1 = {} /\ s1 = {d.pdu}),
         \/ ~j /\ v2 = w2
         \/ v2 = {d}
         \/ v2 = {} /\ LP!Blank(t2) /\ ~LP!Syn(t2)
  PROVE  Pair(j, v1, s2, w1, v2, t1, t2)
<1>1. CASE ~j /\ v2 = w2
  BY <1>1, Zenon DEF Pair, Knows, SentIsRight, CarriedIsRight, HeardIsRight, WaitIsHeard
<1>2. CASE v2 = {d} BY <1>2, PairCarries, PairCarriesOn
<1>3. CASE v2 = {} /\ LP!Blank(t2) /\ ~LP!Syn(t2)
  <2>1. /\ \A k : LP!Right(t2, k)
        /\ LP!Hush(t2) /\ ~t2.msg.rcvd /\ t2.rx # "CURRENT" /\ t2.mux # "ATTACHED"
    BY <1>3 DEF LP!Right, LP!Hush, LP!Blank
  <2>2. SentIsRight(v1, t1) BY DEF Pair, Knows, SentIsRight
  <2> QED
    BY <1>3, <2>1, <2>2, Zenon DEF Pair, Knows, SentIsRight, CarriedIsRight, HeardIsRight, WaitIsHeard
<1> QED BY <1>1, <1>2, <1>3

\* One end reads a LACPDU, the last on its way or not.
LEMMA PairReads ==
  ASSUME NEW j, NEW s1, NEW s2, NEW w1, NEW w2, NEW v1, NEW t1, NEW t2, NEW u1, NEW d,
         Pair(j, s1, s2, w1, w2, t1, t2), w1 # {},
         v1 = w1 \/ (v1 = {} /\ w1 = {d}), d.cmd = "BPDU",
         LP!Only(t1, u1, {"msg"}), u1.msg.rcvd,
         u1.msg.actor = d.pdu.actor, u1.msg.partner = d.pdu.partner
  PROVE  Pair(j, s1, s2, v1, w2, u1, t2)
<1>1. /\ u1.rx = t1.rx /\ u1.mux = t1.mux /\ u1.ntt = t1.ntt /\ u1.partner = t1.partner
      /\ u1.actor = t1.actor
  BY DEF LP!Only, LP!Field
<1>2. /\ \A i : LP!Right(t1, Says(i)) => LP!Right(u1, Says(i))
      /\ LP!Right(t1, TRUE) => LP!Right(u1, TRUE)
      /\ LP!Hush(t1) => LP!Hush(u1)
  BY <1>1 DEF LP!Right, LP!Hush, LP!Syn, LP!Attached
<1>3. Knows(j, s1, s2, w2, v1, t2, u1)
  BY <1>2, Zenon DEF Pair, Knows, SentIsRight, CarriedIsRight, HeardIsRight, WaitIsHeard
<1>4. Knows(j, s2, s1, v1, w2, u1, t2)
  BY <1>1, <1>2
     DEF Pair, Knows, SentIsRight, CarriedIsRight, HeardIsRight, WaitIsHeard, Told
<1> QED BY <1>3, <1>4 DEF Pair

\* What one end takes no notice of: it is deaf, or there is more on its way.
LEMMA PairDrops ==
  ASSUME NEW j, NEW s1, NEW s2, NEW w1, NEW w2, NEW v1, NEW t1, NEW t2,
         Pair(j, s1, s2, w1, w2, t1, t2), v1 = w1 \/ (v1 = {} /\ LP!Deaf(t1))
  PROVE  Pair(j, s1, s2, v1, w2, t1, t2)
BY Zenon DEF Pair, Knows, CarriedIsRight, HeardIsRight, WaitIsHeard, Told, LP!Deaf

\* The cable comes out.
LEMMA PairParts ==
  ASSUME NEW j, NEW s1, NEW s2, NEW w1, NEW w2, NEW t1, NEW t2,
         Pair(j, s1, s2, w1, w2, t1, t2), NEW v1, NEW v2
  PROVE  Pair(FALSE, s1, s2, v1, v2, t1, t2)
BY DEF Pair, Knows, CarriedIsRight, HeardIsRight, WaitIsHeard

\* The cable is put in, and both ends are to be told.
LEMMA PairMeets ==
  ASSUME NEW j, NEW s1, NEW s2, NEW w1, NEW w2, NEW t1, NEW t2,
         Pair(j, s1, s2, w1, w2, t1, t2), NEW d1, NEW d2, d1.cmd # "BPDU", d2.cmd # "BPDU"
  PROVE  Pair(TRUE, s1, s2, {d1}, {d2}, t1, t2)
BY Zenon DEF Pair, Knows, CarriedIsRight, HeardIsRight, WaitIsHeard

\* Nothing is left of one end.
LEMMA PairEnds ==
  ASSUME NEW j, NEW i, NEW s1, NEW s2, NEW w1, NEW v1, NEW w2, NEW t1, NEW t2, NEW u2,
         Pair(j, s1, s2, w1, w2, t1, t2), LP!Blank(u2), ~LP!Syn(u2)
  PROVE  Pair(i, s1, s2, v1, {}, t1, u2)
<1>1. /\ \A k : LP!Right(u2, k)
      /\ LP!Hush(u2) /\ ~u2.msg.rcvd /\ u2.rx # "CURRENT" /\ u2.mux # "ATTACHED"
  BY DEF LP!Right, LP!Hush, LP!Blank
<1> QED
  BY <1>1, Zenon DEF Pair, Knows, SentIsRight, CarriedIsRight, HeardIsRight, WaitIsHeard

-----------------------------------------------------------------------------
(* What the model of the two bridges calls L and R is what the proofs call LP  *)
(* and RP: one equation for each operator                                     *)

\* The values and helpers.
LEMMA LeftData ==
  /\ L!Listed = LP!Listed
  /\ \A p : L!ZeroPort(p) = LP!ZeroPort(p)
  /\ L!BootSys = LP!BootSys
  /\ L!BootAttr = LP!BootAttr
  /\ \A f, g : L!Reselect(f, g) = LP!Reselect(f, g)
  /\ \A i, b, v : L!SetBit(i, b, v) = LP!SetBit(i, b, v)
  /\ \A p : L!PartnerAdmin(p) = LP!PartnerAdmin(p)
  /\ \A a, b : L!SamePartner(a, b) <=> LP!SamePartner(a, b)
  /\ \A t : L!NewPartner(t) <=> LP!NewPartner(t)
  /\ \A g : L!Members(g) = LP!Members(g)
  /\ \A t, s, d : L!OperKey(t, s, d) = LP!OperKey(t, s, d)
  /\ \A p : L!PortTid(p) = LP!PortTid(p)
  /\ \A n : L!Low16(n) = LP!Low16(n)
  /\ L!NoPrio = LP!NoPrio
  /\ L!Default_port_priority = LP!Default_port_priority
  /\ \A f, S, key : L!UpdateAggPortsSelect(f, S, key) = LP!UpdateAggPortsSelect(f, S, key)
  /\ \A f, p, v : L!WithPrio(f, p, v) = LP!WithPrio(f, p, v)
  /\ \A r : L!StartUpdate(r) <=> LP!StartUpdate(r)
<1>1. L!Listed = LP!Listed
  BY Zenon DEF L!Listed, LP!Listed, L!Range, LP!Range
<1>2. ASSUME NEW p PROVE L!ZeroPort(p) = LP!ZeroPort(p)
  BY Zenon DEF L!ZeroInfo, LP!ZeroInfo, L!NoMsg, LP!NoMsg, L!ZeroPort, LP!ZeroPort
<1>3. L!BootSys = LP!BootSys
  BY SMT DEF L!Default_system_priority, LP!Default_system_priority, L!BootSys, LP!BootSys
<1>4. L!BootAttr = LP!BootAttr
  BY Zenon DEF L!NoPrio, LP!NoPrio, L!BootAttr, LP!BootAttr
<1>5. ASSUME NEW f, NEW g PROVE L!Reselect(f, g) = LP!Reselect(f, g)
  BY Zenon DEF L!Listed, LP!Listed, L!Range, LP!Range, L!Reselect, LP!Reselect
<1>6. ASSUME NEW i, NEW b, NEW v PROVE L!SetBit(i, b, v) = LP!SetBit(i, b, v)
  BY Zenon DEF L!SetBit, LP!SetBit
<1>7. ASSUME NEW p PROVE L!PartnerAdmin(p) = LP!PartnerAdmin(p)
  BY SMT
     DEF L!Default_system_priority, LP!Default_system_priority, L!Default_port_priority,
         LP!Default_port_priority, L!PartnerAdmin, LP!PartnerAdmin
<1>8. ASSUME NEW a, NEW b PROVE L!SamePartner(a, b) <=> LP!SamePartner(a, b)
  BY SMT DEF L!Bit, LP!Bit, L!SamePartner, LP!SamePartner
<1>9. ASSUME NEW t PROVE L!NewPartner(t) <=> LP!NewPartner(t)
  BY Zenon DEF L!Bit, LP!Bit, L!SamePartner, LP!SamePartner, L!NewPartner, LP!NewPartner
<1>10. ASSUME NEW g PROVE L!Members(g) = LP!Members(g)
  BY Zenon DEF L!Listed, LP!Listed, L!Range, LP!Range, L!Members, LP!Members
<1>11. ASSUME NEW t, NEW s, NEW d PROVE L!OperKey(t, s, d) = LP!OperKey(t, s, d)
  BY SMT DEF L!SpeedIndex, LP!SpeedIndex, L!OperKey, LP!OperKey
<1>12. ASSUME NEW p PROVE L!PortTid(p) = LP!PortTid(p)
  BY Zenon DEF L!PortTid, LP!PortTid
<1>13. ASSUME NEW n PROVE L!Low16(n) = LP!Low16(n)
  BY SMT DEF L!MaxWord, LP!MaxWord, L!Low16, LP!Low16
<1>14. L!NoPrio = LP!NoPrio
  BY Zenon DEF L!NoPrio, LP!NoPrio
<1>15. L!Default_port_priority = LP!Default_port_priority
  BY SMT DEF L!Default_port_priority, LP!Default_port_priority
<1>16. ASSUME NEW f, NEW S, NEW key PROVE L!UpdateAggPortsSelect(f, S, key) = LP!UpdateAggPortsSelect(f, S, key)
  BY Zenon
     DEF L!Bit, LP!Bit, L!Candidates, LP!Candidates, L!Better, LP!Better, L!Master,
         LP!Master, L!PartnersAPort, LP!PartnersAPort, L!SameAggregate, LP!SameAggregate,
         L!Joins, LP!Joins, L!RefreshKeys, LP!RefreshKeys, L!MarkGroup, LP!MarkGroup,
         L!UpdateAggPortsSelect, LP!UpdateAggPortsSelect
<1>17. ASSUME NEW f, NEW p, NEW v PROVE L!WithPrio(f, p, v) = LP!WithPrio(f, p, v)
  BY <1>13, Zenon DEF L!WithPrio, LP!WithPrio
<1>18. ASSUME NEW r PROVE L!StartUpdate(r) <=> LP!StartUpdate(r)
  BY Zenon DEF L!StartUpdate, LP!StartUpdate
<1> QED BY <1>1, <1>2, <1>3, <1>4, <1>5, <1>6, <1>7, <1>8, <1>9, <1>10, <1>11, <1>12, <1>13, <1>14, <1>15, <1>16, <1>17, <1>18

\* The entries of the receive machine.
LEMMA LeftEnters ==
  /\ \A p, t, s : L!RxEnter(p, t, s) = LP!RxEnter(p, t, s)
<1>1. ASSUME NEW p, NEW t PROVE L!EnterInitialize(p, t) = LP!EnterInitialize(p, t)
  BY LeftData, Zenon DEF L!EnterInitialize, LP!EnterInitialize
<1>2. ASSUME NEW t PROVE L!EnterPortDisabled(t) = LP!EnterPortDisabled(t)
  BY Zenon
     DEF L!SetBit, LP!SetBit, L!ZeroInfo, LP!ZeroInfo, L!NoMsg, LP!NoMsg,
         L!EnterPortDisabled, LP!EnterPortDisabled
<1>3. ASSUME NEW p, NEW t PROVE L!EnterLacpDisabled(p, t) = LP!EnterLacpDisabled(p, t)
  BY LeftData, Zenon DEF L!EnterLacpDisabled, LP!EnterLacpDisabled
<1>4. ASSUME NEW t PROVE L!EnterExpired(t) = LP!EnterExpired(t)
  BY Zenon DEF L!SetBit, LP!SetBit, L!EnterExpired, LP!EnterExpired
<1>5. ASSUME NEW p, NEW t PROVE L!EnterDefaulted(p, t) = LP!EnterDefaulted(p, t)
  BY LeftData, Zenon DEF L!EnterDefaulted, LP!EnterDefaulted
<1>6. ASSUME NEW t PROVE L!EnterCurrent(t) = LP!EnterCurrent(t)
  BY Zenon
     DEF L!Bit, LP!Bit, L!SetBit, LP!SetBit, L!ZeroInfo, LP!ZeroInfo, L!SamePartner,
         LP!SamePartner, L!NoMsg, LP!NoMsg, L!NewPartner, LP!NewPartner, L!PartnerMatched,
         LP!PartnerMatched, L!PartnerIsBehind, LP!PartnerIsBehind, L!TimeoutOf,
         LP!TimeoutOf, L!EnterCurrent, LP!EnterCurrent
<1>7. ASSUME NEW p, NEW t, NEW s PROVE L!RxEnter(p, t, s) = LP!RxEnter(p, t, s)
  BY <1>1, <1>2, <1>3, <1>4, <1>5, <1>6, Zenon DEF L!RxEnter, LP!RxEnter
<1> QED BY <1>7

\* The steps of lacp_sys_update.
LEMMA LeftUpdate ==
  /\ \A p : L!RunRx(p) <=> LP!RunRx(p)
  /\ \A p : L!RunSel(p) <=> LP!RunSel(p)
  /\ \A p : L!RunMux(p) <=> LP!RunMux(p)
  /\ \A p : L!RunTx(p) <=> LP!RunTx(p)
  /\ L!UpdateReturns <=> LP!UpdateReturns
<1>1. ASSUME NEW p, NEW m PROVE L!Turn(p, m) <=> LP!Turn(p, m)
  BY DEF L!Bit, LP!Bit, L!RxState, LP!RxState, L!MuxState, LP!MuxState, L!TxState,
         LP!TxState, L!LinkLost, LP!LinkLost, L!RxGoes, LP!RxGoes, L!InUse, LP!InUse,
         L!MuxGoes, LP!MuxGoes, L!TxSilent, LP!TxSilent, L!TxGoes, LP!TxGoes, L!MachineName,
         LP!MachineName, L!NoMachine, LP!NoMachine, L!Listed, LP!Listed, L!Range, LP!Range,
         L!SysIsReady, LP!SysIsReady, L!SelGoes, LP!SelGoes, L!CanHop, LP!CanHop, L!Before,
         LP!Before, L!CurCanHop, LP!CurCanHop, L!Turn, LP!Turn
<1>2. ASSUME NEW t, NEW s PROVE L!RxGoes(t, s) <=> LP!RxGoes(t, s)
  BY DEF L!LinkLost, LP!LinkLost, L!RxGoes, LP!RxGoes
<1>3. L!RxState = LP!RxState
  BY DEF L!RxState, LP!RxState
<1>4. ASSUME NEW p PROVE L!RunRx(p) <=> LP!RunRx(p)
  BY <1>1, <1>2, <1>3, LeftData, LeftEnters DEF L!RunRx, LP!RunRx
<1>5. ASSUME NEW p PROVE L!RunSel(p) <=> LP!RunSel(p)
  BY <1>1, LeftData DEF L!RunSel, LP!RunSel
<1>6. ASSUME NEW p PROVE L!RunMux(p) <=> LP!RunMux(p)
  BY DEF L!Bit, LP!Bit, L!RxState, LP!RxState, L!MuxState, LP!MuxState, L!TxState,
         LP!TxState, L!LinkLost, LP!LinkLost, L!RxGoes, LP!RxGoes, L!InUse, LP!InUse,
         L!MuxGoes, LP!MuxGoes, L!MuxBits, LP!MuxBits, L!EnterWaiting, LP!EnterWaiting,
         L!MuxEnter, LP!MuxEnter, L!TxSilent, LP!TxSilent, L!TxGoes, LP!TxGoes,
         L!MachineName, LP!MachineName, L!NoMachine, LP!NoMachine, L!Listed, LP!Listed,
         L!Range, LP!Range, L!SysIsReady, LP!SysIsReady, L!SelGoes, LP!SelGoes, L!CanHop,
         LP!CanHop, L!Before, LP!Before, L!CurCanHop, LP!CurCanHop, L!Turn, LP!Turn,
         L!MuxChip, LP!MuxChip, L!RunMux, LP!RunMux
<1>7. ASSUME NEW p PROVE L!RunTx(p) <=> LP!RunTx(p)
  BY DEF L!Bit, LP!Bit, L!RxState, LP!RxState, L!MuxState, LP!MuxState, L!TxState,
         LP!TxState, L!LinkLost, LP!LinkLost, L!RxGoes, LP!RxGoes, L!InUse, LP!InUse,
         L!MuxGoes, LP!MuxGoes, L!TxSilent, LP!TxSilent, L!TxGoes, LP!TxGoes,
         L!EnterPeriodic, LP!EnterPeriodic, L!TxEnter, LP!TxEnter, L!MachineName,
         LP!MachineName, L!NoMachine, LP!NoMachine, L!Listed, LP!Listed, L!Range, LP!Range,
         L!SysIsReady, LP!SysIsReady, L!SelGoes, LP!SelGoes, L!CanHop, LP!CanHop, L!Before,
         LP!Before, L!CurCanHop, LP!CurCanHop, L!Turn, LP!Turn, L!RunTx, LP!RunTx
<1>8. L!UpdateReturns <=> LP!UpdateReturns
  BY DEF L!Bit, LP!Bit, L!RxState, LP!RxState, L!MuxState, LP!MuxState, L!TxState,
         LP!TxState, L!LinkLost, LP!LinkLost, L!RxGoes, LP!RxGoes, L!InUse, LP!InUse,
         L!MuxGoes, LP!MuxGoes, L!TxSilent, LP!TxSilent, L!TxGoes, LP!TxGoes, L!MachineName,
         LP!MachineName, L!NoMachine, LP!NoMachine, L!NoArgs, LP!NoArgs, L!Listed,
         LP!Listed, L!Range, LP!Range, L!SysIsReady, LP!SysIsReady, L!SelGoes, LP!SelGoes,
         L!CanHop, LP!CanHop, L!Quiet, LP!Quiet, L!UpdateReturns, LP!UpdateReturns
<1> QED BY <1>4, <1>5, <1>6, <1>7, <1>8

\* The calls.
LEMMA LeftCalls ==
  /\ L!Continue <=> LP!Continue
  /\ L!OneSecond <=> LP!OneSecond
  /\ \A p, up : L!LinkChange(p, up) <=> LP!LinkChange(p, up)
  /\ \A p, m : L!RxLacpdu(p, m) <=> LP!RxLacpdu(p, m)
  /\ \A p : L!Hears(p) <=> LP!Hears(p)
  /\ \A p, g : L!Enable(p, g) <=> LP!Enable(p, g)
  /\ \A p : L!Disable(p) <=> LP!Disable(p)
  /\ L!Init <=> LP!Init
<1>1. L!EnableCfg <=> LP!EnableCfg
  BY LeftData, Zenon DEF L!EnableCfg, LP!EnableCfg
<1>2. L!EnableLink <=> LP!EnableLink
  BY Zenon
     DEF L!SetBit, LP!SetBit, L!NoArgs, LP!NoArgs, L!Listed, LP!Listed, L!Range, LP!Range,
         L!Reselect, LP!Reselect, L!StartUpdate, LP!StartUpdate, L!WithLink, LP!WithLink,
         L!LinkChanged, LP!LinkChanged, L!EnableLink, LP!EnableLink
<1>3. ASSUME NEW p PROVE L!DisableNotify(p) <=> LP!DisableNotify(p)
  BY Zenon
     DEF L!SetBit, LP!SetBit, L!StartUpdate, LP!StartUpdate, L!IsFirst, LP!IsFirst,
         L!DisableNotify, LP!DisableNotify
<1>4. L!DisableLeave <=> LP!DisableLeave
  BY Zenon
     DEF L!Listed, LP!Listed, L!Range, LP!Range, L!Reselect, LP!Reselect, L!DisableLeave,
         LP!DisableLeave
<1>5. L!DisableUpdate <=> LP!DisableUpdate
  BY Zenon DEF L!StartUpdate, LP!StartUpdate, L!DisableUpdate, LP!DisableUpdate
<1>6. ASSUME NEW p PROVE L!RemovePort(p) <=> LP!RemovePort(p)
  BY Zenon
     DEF L!ZeroInfo, LP!ZeroInfo, L!NoMsg, LP!NoMsg, L!ZeroPort, LP!ZeroPort, L!Listed,
         LP!Listed, L!Range, LP!Range, L!IsFirst, LP!IsFirst, L!RemovePort, LP!RemovePort,
         L!RemoveAt, LP!RemoveAt
<1>7. L!RemoveReturns <=> LP!RemoveReturns
  BY Zenon
     DEF L!NoArgs, LP!NoArgs, L!Listed, LP!Listed, L!Range, LP!Range, L!RemoveReturns,
         LP!RemoveReturns
<1>8. L!Continue <=> LP!Continue
  BY <1>1, <1>2, <1>3, <1>4, <1>5, <1>6, <1>7 DEF L!Continue, LP!Continue
<1>9. L!OneSecond <=> LP!OneSecond
  BY DEF L!Listed, LP!Listed, L!Range, LP!Range, L!StartUpdate, LP!StartUpdate,
         L!CallUpdate, LP!CallUpdate, L!Minus1, LP!Minus1, L!Ticked, LP!Ticked, L!OneSecond,
         LP!OneSecond
<1>10. ASSUME NEW p, NEW up PROVE L!LinkChange(p, up) <=> LP!LinkChange(p, up)
  BY DEF L!SetBit, LP!SetBit, L!Listed, LP!Listed, L!Range, LP!Range, L!PortTid, LP!PortTid,
         L!IsEnabled, LP!IsEnabled, L!Reselect, LP!Reselect, L!StartUpdate, LP!StartUpdate,
         L!CallUpdate, LP!CallUpdate, L!WithLink, LP!WithLink, L!LinkChanged,
         LP!LinkChanged, L!LinkIndication, LP!LinkIndication, L!LinkChange, LP!LinkChange
<1>11. ASSUME NEW p, NEW m PROVE L!RxLacpdu(p, m) <=> LP!RxLacpdu(p, m)
  BY DEF L!SamePort, LP!SamePort, L!Listed, LP!Listed, L!Range, LP!Range, L!PortTid,
         LP!PortTid, L!IsEnabled, LP!IsEnabled, L!StartUpdate, LP!StartUpdate, L!CallUpdate,
         LP!CallUpdate, L!Moved, LP!Moved, L!Hears, LP!Hears, L!RxLacpdu, LP!RxLacpdu
<1>12. ASSUME NEW p PROVE L!Hears(p) <=> LP!Hears(p)
  BY DEF L!Listed, LP!Listed, L!Range, LP!Range, L!PortTid, LP!PortTid, L!IsEnabled,
         LP!IsEnabled, L!Hears, LP!Hears
<1>13. ASSUME NEW p, NEW g PROVE L!Enable(p, g) <=> LP!Enable(p, g)
  BY DEF L!Default_port_priority, LP!Default_port_priority, L!ZeroInfo, LP!ZeroInfo,
         L!ActorInit, LP!ActorInit, L!NoMsg, LP!NoMsg, L!ZeroPort, LP!ZeroPort, L!NoArgs,
         LP!NoArgs, L!Listed, LP!Listed, L!Range, LP!Range, L!PortTid, LP!PortTid,
         L!IsEnabled, LP!IsEnabled, L!StartUpdate, LP!StartUpdate, L!FreshPort,
         LP!FreshPort, L!Creates, LP!Creates, L!Enable, LP!Enable
<1>14. ASSUME NEW p PROVE L!Disable(p) <=> LP!Disable(p)
  BY DEF L!NoArgs, LP!NoArgs, L!Listed, LP!Listed, L!Range, LP!Range, L!PortTid, LP!PortTid,
         L!IsEnabled, LP!IsEnabled, L!StartDisable, LP!StartDisable, L!Disable, LP!Disable
<1>15. L!Init <=> LP!Init
  BY DEF L!Default_system_priority, LP!Default_system_priority, L!ZeroInfo, LP!ZeroInfo,
         L!NoMsg, LP!NoMsg, L!ZeroPort, LP!ZeroPort, L!NoMachine, LP!NoMachine, L!NoPrio,
         LP!NoPrio, L!NoArgs, LP!NoArgs, L!BootAttr, LP!BootAttr, L!BootSys, LP!BootSys,
         L!Init, LP!Init
<1> QED BY <1>8, <1>9, <1>10, <1>11, <1>12, <1>13, <1>14, <1>15

\* The values and helpers.
LEMMA RightData ==
  /\ R!Listed = RP!Listed
  /\ \A p : R!ZeroPort(p) = RP!ZeroPort(p)
  /\ R!BootSys = RP!BootSys
  /\ R!BootAttr = RP!BootAttr
  /\ \A f, g : R!Reselect(f, g) = RP!Reselect(f, g)
  /\ \A i, b, v : R!SetBit(i, b, v) = RP!SetBit(i, b, v)
  /\ \A p : R!PartnerAdmin(p) = RP!PartnerAdmin(p)
  /\ \A a, b : R!SamePartner(a, b) <=> RP!SamePartner(a, b)
  /\ \A t : R!NewPartner(t) <=> RP!NewPartner(t)
  /\ \A g : R!Members(g) = RP!Members(g)
  /\ \A t, s, d : R!OperKey(t, s, d) = RP!OperKey(t, s, d)
  /\ \A p : R!PortTid(p) = RP!PortTid(p)
  /\ \A n : R!Low16(n) = RP!Low16(n)
  /\ R!NoPrio = RP!NoPrio
  /\ R!Default_port_priority = RP!Default_port_priority
  /\ \A f, S, key : R!UpdateAggPortsSelect(f, S, key) = RP!UpdateAggPortsSelect(f, S, key)
  /\ \A f, p, v : R!WithPrio(f, p, v) = RP!WithPrio(f, p, v)
  /\ \A r : R!StartUpdate(r) <=> RP!StartUpdate(r)
<1>1. R!Listed = RP!Listed
  BY Zenon DEF R!Listed, RP!Listed, R!Range, RP!Range
<1>2. ASSUME NEW p PROVE R!ZeroPort(p) = RP!ZeroPort(p)
  BY Zenon DEF R!ZeroInfo, RP!ZeroInfo, R!NoMsg, RP!NoMsg, R!ZeroPort, RP!ZeroPort
<1>3. R!BootSys = RP!BootSys
  BY SMT DEF R!Default_system_priority, RP!Default_system_priority, R!BootSys, RP!BootSys
<1>4. R!BootAttr = RP!BootAttr
  BY Zenon DEF R!NoPrio, RP!NoPrio, R!BootAttr, RP!BootAttr
<1>5. ASSUME NEW f, NEW g PROVE R!Reselect(f, g) = RP!Reselect(f, g)
  BY Zenon DEF R!Listed, RP!Listed, R!Range, RP!Range, R!Reselect, RP!Reselect
<1>6. ASSUME NEW i, NEW b, NEW v PROVE R!SetBit(i, b, v) = RP!SetBit(i, b, v)
  BY Zenon DEF R!SetBit, RP!SetBit
<1>7. ASSUME NEW p PROVE R!PartnerAdmin(p) = RP!PartnerAdmin(p)
  BY SMT
     DEF R!Default_system_priority, RP!Default_system_priority, R!Default_port_priority,
         RP!Default_port_priority, R!PartnerAdmin, RP!PartnerAdmin
<1>8. ASSUME NEW a, NEW b PROVE R!SamePartner(a, b) <=> RP!SamePartner(a, b)
  BY SMT DEF R!Bit, RP!Bit, R!SamePartner, RP!SamePartner
<1>9. ASSUME NEW t PROVE R!NewPartner(t) <=> RP!NewPartner(t)
  BY Zenon DEF R!Bit, RP!Bit, R!SamePartner, RP!SamePartner, R!NewPartner, RP!NewPartner
<1>10. ASSUME NEW g PROVE R!Members(g) = RP!Members(g)
  BY Zenon DEF R!Listed, RP!Listed, R!Range, RP!Range, R!Members, RP!Members
<1>11. ASSUME NEW t, NEW s, NEW d PROVE R!OperKey(t, s, d) = RP!OperKey(t, s, d)
  BY SMT DEF R!SpeedIndex, RP!SpeedIndex, R!OperKey, RP!OperKey
<1>12. ASSUME NEW p PROVE R!PortTid(p) = RP!PortTid(p)
  BY Zenon DEF R!PortTid, RP!PortTid
<1>13. ASSUME NEW n PROVE R!Low16(n) = RP!Low16(n)
  BY SMT DEF R!MaxWord, RP!MaxWord, R!Low16, RP!Low16
<1>14. R!NoPrio = RP!NoPrio
  BY Zenon DEF R!NoPrio, RP!NoPrio
<1>15. R!Default_port_priority = RP!Default_port_priority
  BY SMT DEF R!Default_port_priority, RP!Default_port_priority
<1>16. ASSUME NEW f, NEW S, NEW key PROVE R!UpdateAggPortsSelect(f, S, key) = RP!UpdateAggPortsSelect(f, S, key)
  BY Zenon
     DEF R!Bit, RP!Bit, R!Candidates, RP!Candidates, R!Better, RP!Better, R!Master,
         RP!Master, R!PartnersAPort, RP!PartnersAPort, R!SameAggregate, RP!SameAggregate,
         R!Joins, RP!Joins, R!RefreshKeys, RP!RefreshKeys, R!MarkGroup, RP!MarkGroup,
         R!UpdateAggPortsSelect, RP!UpdateAggPortsSelect
<1>17. ASSUME NEW f, NEW p, NEW v PROVE R!WithPrio(f, p, v) = RP!WithPrio(f, p, v)
  BY <1>13, Zenon DEF R!WithPrio, RP!WithPrio
<1>18. ASSUME NEW r PROVE R!StartUpdate(r) <=> RP!StartUpdate(r)
  BY Zenon DEF R!StartUpdate, RP!StartUpdate
<1> QED BY <1>1, <1>2, <1>3, <1>4, <1>5, <1>6, <1>7, <1>8, <1>9, <1>10, <1>11, <1>12, <1>13, <1>14, <1>15, <1>16, <1>17, <1>18

\* The entries of the receive machine.
LEMMA RightEnters ==
  /\ \A p, t, s : R!RxEnter(p, t, s) = RP!RxEnter(p, t, s)
<1>1. ASSUME NEW p, NEW t PROVE R!EnterInitialize(p, t) = RP!EnterInitialize(p, t)
  BY RightData, Zenon DEF R!EnterInitialize, RP!EnterInitialize
<1>2. ASSUME NEW t PROVE R!EnterPortDisabled(t) = RP!EnterPortDisabled(t)
  BY Zenon
     DEF R!SetBit, RP!SetBit, R!ZeroInfo, RP!ZeroInfo, R!NoMsg, RP!NoMsg,
         R!EnterPortDisabled, RP!EnterPortDisabled
<1>3. ASSUME NEW p, NEW t PROVE R!EnterLacpDisabled(p, t) = RP!EnterLacpDisabled(p, t)
  BY RightData, Zenon DEF R!EnterLacpDisabled, RP!EnterLacpDisabled
<1>4. ASSUME NEW t PROVE R!EnterExpired(t) = RP!EnterExpired(t)
  BY Zenon DEF R!SetBit, RP!SetBit, R!EnterExpired, RP!EnterExpired
<1>5. ASSUME NEW p, NEW t PROVE R!EnterDefaulted(p, t) = RP!EnterDefaulted(p, t)
  BY RightData, Zenon DEF R!EnterDefaulted, RP!EnterDefaulted
<1>6. ASSUME NEW t PROVE R!EnterCurrent(t) = RP!EnterCurrent(t)
  BY Zenon
     DEF R!Bit, RP!Bit, R!SetBit, RP!SetBit, R!ZeroInfo, RP!ZeroInfo, R!SamePartner,
         RP!SamePartner, R!NoMsg, RP!NoMsg, R!NewPartner, RP!NewPartner, R!PartnerMatched,
         RP!PartnerMatched, R!PartnerIsBehind, RP!PartnerIsBehind, R!TimeoutOf,
         RP!TimeoutOf, R!EnterCurrent, RP!EnterCurrent
<1>7. ASSUME NEW p, NEW t, NEW s PROVE R!RxEnter(p, t, s) = RP!RxEnter(p, t, s)
  BY <1>1, <1>2, <1>3, <1>4, <1>5, <1>6, Zenon DEF R!RxEnter, RP!RxEnter
<1> QED BY <1>7

\* The steps of lacp_sys_update.
LEMMA RightUpdate ==
  /\ \A p : R!RunRx(p) <=> RP!RunRx(p)
  /\ \A p : R!RunSel(p) <=> RP!RunSel(p)
  /\ \A p : R!RunMux(p) <=> RP!RunMux(p)
  /\ \A p : R!RunTx(p) <=> RP!RunTx(p)
  /\ R!UpdateReturns <=> RP!UpdateReturns
<1>1. ASSUME NEW p, NEW m PROVE R!Turn(p, m) <=> RP!Turn(p, m)
  BY DEF R!Bit, RP!Bit, R!RxState, RP!RxState, R!MuxState, RP!MuxState, R!TxState,
         RP!TxState, R!LinkLost, RP!LinkLost, R!RxGoes, RP!RxGoes, R!InUse, RP!InUse,
         R!MuxGoes, RP!MuxGoes, R!TxSilent, RP!TxSilent, R!TxGoes, RP!TxGoes, R!MachineName,
         RP!MachineName, R!NoMachine, RP!NoMachine, R!Listed, RP!Listed, R!Range, RP!Range,
         R!SysIsReady, RP!SysIsReady, R!SelGoes, RP!SelGoes, R!CanHop, RP!CanHop, R!Before,
         RP!Before, R!CurCanHop, RP!CurCanHop, R!Turn, RP!Turn
<1>2. ASSUME NEW t, NEW s PROVE R!RxGoes(t, s) <=> RP!RxGoes(t, s)
  BY DEF R!LinkLost, RP!LinkLost, R!RxGoes, RP!RxGoes
<1>3. R!RxState = RP!RxState
  BY DEF R!RxState, RP!RxState
<1>4. ASSUME NEW p PROVE R!RunRx(p) <=> RP!RunRx(p)
  BY <1>1, <1>2, <1>3, RightData, RightEnters DEF R!RunRx, RP!RunRx
<1>5. ASSUME NEW p PROVE R!RunSel(p) <=> RP!RunSel(p)
  BY <1>1, RightData DEF R!RunSel, RP!RunSel
<1>6. ASSUME NEW p PROVE R!RunMux(p) <=> RP!RunMux(p)
  BY DEF R!Bit, RP!Bit, R!RxState, RP!RxState, R!MuxState, RP!MuxState, R!TxState,
         RP!TxState, R!LinkLost, RP!LinkLost, R!RxGoes, RP!RxGoes, R!InUse, RP!InUse,
         R!MuxGoes, RP!MuxGoes, R!MuxBits, RP!MuxBits, R!EnterWaiting, RP!EnterWaiting,
         R!MuxEnter, RP!MuxEnter, R!TxSilent, RP!TxSilent, R!TxGoes, RP!TxGoes,
         R!MachineName, RP!MachineName, R!NoMachine, RP!NoMachine, R!Listed, RP!Listed,
         R!Range, RP!Range, R!SysIsReady, RP!SysIsReady, R!SelGoes, RP!SelGoes, R!CanHop,
         RP!CanHop, R!Before, RP!Before, R!CurCanHop, RP!CurCanHop, R!Turn, RP!Turn,
         R!MuxChip, RP!MuxChip, R!RunMux, RP!RunMux
<1>7. ASSUME NEW p PROVE R!RunTx(p) <=> RP!RunTx(p)
  BY DEF R!Bit, RP!Bit, R!RxState, RP!RxState, R!MuxState, RP!MuxState, R!TxState,
         RP!TxState, R!LinkLost, RP!LinkLost, R!RxGoes, RP!RxGoes, R!InUse, RP!InUse,
         R!MuxGoes, RP!MuxGoes, R!TxSilent, RP!TxSilent, R!TxGoes, RP!TxGoes,
         R!EnterPeriodic, RP!EnterPeriodic, R!TxEnter, RP!TxEnter, R!MachineName,
         RP!MachineName, R!NoMachine, RP!NoMachine, R!Listed, RP!Listed, R!Range, RP!Range,
         R!SysIsReady, RP!SysIsReady, R!SelGoes, RP!SelGoes, R!CanHop, RP!CanHop, R!Before,
         RP!Before, R!CurCanHop, RP!CurCanHop, R!Turn, RP!Turn, R!RunTx, RP!RunTx
<1>8. R!UpdateReturns <=> RP!UpdateReturns
  BY DEF R!Bit, RP!Bit, R!RxState, RP!RxState, R!MuxState, RP!MuxState, R!TxState,
         RP!TxState, R!LinkLost, RP!LinkLost, R!RxGoes, RP!RxGoes, R!InUse, RP!InUse,
         R!MuxGoes, RP!MuxGoes, R!TxSilent, RP!TxSilent, R!TxGoes, RP!TxGoes, R!MachineName,
         RP!MachineName, R!NoMachine, RP!NoMachine, R!NoArgs, RP!NoArgs, R!Listed,
         RP!Listed, R!Range, RP!Range, R!SysIsReady, RP!SysIsReady, R!SelGoes, RP!SelGoes,
         R!CanHop, RP!CanHop, R!Quiet, RP!Quiet, R!UpdateReturns, RP!UpdateReturns
<1> QED BY <1>4, <1>5, <1>6, <1>7, <1>8

\* The calls.
LEMMA RightCalls ==
  /\ R!Continue <=> RP!Continue
  /\ R!OneSecond <=> RP!OneSecond
  /\ \A p, up : R!LinkChange(p, up) <=> RP!LinkChange(p, up)
  /\ \A p, m : R!RxLacpdu(p, m) <=> RP!RxLacpdu(p, m)
  /\ \A p : R!Hears(p) <=> RP!Hears(p)
  /\ \A p, g : R!Enable(p, g) <=> RP!Enable(p, g)
  /\ \A p : R!Disable(p) <=> RP!Disable(p)
  /\ R!Init <=> RP!Init
<1>1. R!EnableCfg <=> RP!EnableCfg
  BY RightData, Zenon DEF R!EnableCfg, RP!EnableCfg
<1>2. R!EnableLink <=> RP!EnableLink
  BY Zenon
     DEF R!SetBit, RP!SetBit, R!NoArgs, RP!NoArgs, R!Listed, RP!Listed, R!Range, RP!Range,
         R!Reselect, RP!Reselect, R!StartUpdate, RP!StartUpdate, R!WithLink, RP!WithLink,
         R!LinkChanged, RP!LinkChanged, R!EnableLink, RP!EnableLink
<1>3. ASSUME NEW p PROVE R!DisableNotify(p) <=> RP!DisableNotify(p)
  BY Zenon
     DEF R!SetBit, RP!SetBit, R!StartUpdate, RP!StartUpdate, R!IsFirst, RP!IsFirst,
         R!DisableNotify, RP!DisableNotify
<1>4. R!DisableLeave <=> RP!DisableLeave
  BY Zenon
     DEF R!Listed, RP!Listed, R!Range, RP!Range, R!Reselect, RP!Reselect, R!DisableLeave,
         RP!DisableLeave
<1>5. R!DisableUpdate <=> RP!DisableUpdate
  BY Zenon DEF R!StartUpdate, RP!StartUpdate, R!DisableUpdate, RP!DisableUpdate
<1>6. ASSUME NEW p PROVE R!RemovePort(p) <=> RP!RemovePort(p)
  BY Zenon
     DEF R!ZeroInfo, RP!ZeroInfo, R!NoMsg, RP!NoMsg, R!ZeroPort, RP!ZeroPort, R!Listed,
         RP!Listed, R!Range, RP!Range, R!IsFirst, RP!IsFirst, R!RemovePort, RP!RemovePort,
         R!RemoveAt, RP!RemoveAt
<1>7. R!RemoveReturns <=> RP!RemoveReturns
  BY Zenon
     DEF R!NoArgs, RP!NoArgs, R!Listed, RP!Listed, R!Range, RP!Range, R!RemoveReturns,
         RP!RemoveReturns
<1>8. R!Continue <=> RP!Continue
  BY <1>1, <1>2, <1>3, <1>4, <1>5, <1>6, <1>7 DEF R!Continue, RP!Continue
<1>9. R!OneSecond <=> RP!OneSecond
  BY DEF R!Listed, RP!Listed, R!Range, RP!Range, R!StartUpdate, RP!StartUpdate,
         R!CallUpdate, RP!CallUpdate, R!Minus1, RP!Minus1, R!Ticked, RP!Ticked, R!OneSecond,
         RP!OneSecond
<1>10. ASSUME NEW p, NEW up PROVE R!LinkChange(p, up) <=> RP!LinkChange(p, up)
  BY DEF R!SetBit, RP!SetBit, R!Listed, RP!Listed, R!Range, RP!Range, R!PortTid, RP!PortTid,
         R!IsEnabled, RP!IsEnabled, R!Reselect, RP!Reselect, R!StartUpdate, RP!StartUpdate,
         R!CallUpdate, RP!CallUpdate, R!WithLink, RP!WithLink, R!LinkChanged,
         RP!LinkChanged, R!LinkIndication, RP!LinkIndication, R!LinkChange, RP!LinkChange
<1>11. ASSUME NEW p, NEW m PROVE R!RxLacpdu(p, m) <=> RP!RxLacpdu(p, m)
  BY DEF R!SamePort, RP!SamePort, R!Listed, RP!Listed, R!Range, RP!Range, R!PortTid,
         RP!PortTid, R!IsEnabled, RP!IsEnabled, R!StartUpdate, RP!StartUpdate, R!CallUpdate,
         RP!CallUpdate, R!Moved, RP!Moved, R!Hears, RP!Hears, R!RxLacpdu, RP!RxLacpdu
<1>12. ASSUME NEW p PROVE R!Hears(p) <=> RP!Hears(p)
  BY DEF R!Listed, RP!Listed, R!Range, RP!Range, R!PortTid, RP!PortTid, R!IsEnabled,
         RP!IsEnabled, R!Hears, RP!Hears
<1>13. ASSUME NEW p, NEW g PROVE R!Enable(p, g) <=> RP!Enable(p, g)
  BY DEF R!Default_port_priority, RP!Default_port_priority, R!ZeroInfo, RP!ZeroInfo,
         R!ActorInit, RP!ActorInit, R!NoMsg, RP!NoMsg, R!ZeroPort, RP!ZeroPort, R!NoArgs,
         RP!NoArgs, R!Listed, RP!Listed, R!Range, RP!Range, R!PortTid, RP!PortTid,
         R!IsEnabled, RP!IsEnabled, R!StartUpdate, RP!StartUpdate, R!FreshPort,
         RP!FreshPort, R!Creates, RP!Creates, R!Enable, RP!Enable
<1>14. ASSUME NEW p PROVE R!Disable(p) <=> RP!Disable(p)
  BY DEF R!NoArgs, RP!NoArgs, R!Listed, RP!Listed, R!Range, RP!Range, R!PortTid, RP!PortTid,
         R!IsEnabled, RP!IsEnabled, R!StartDisable, RP!StartDisable, R!Disable, RP!Disable
<1>15. R!Init <=> RP!Init
  BY DEF R!Default_system_priority, RP!Default_system_priority, R!ZeroInfo, RP!ZeroInfo,
         R!NoMsg, RP!NoMsg, R!ZeroPort, RP!ZeroPort, R!NoMachine, RP!NoMachine, R!NoPrio,
         RP!NoPrio, R!NoArgs, RP!NoArgs, R!BootAttr, RP!BootAttr, R!BootSys, RP!BootSys,
         R!Init, RP!Init
<1> QED BY <1>8, <1>9, <1>10, <1>11, <1>12, <1>13, <1>14, <1>15

-----------------------------------------------------------------------------
(* The bridges as the other end sees them *)

\* What the proofs of the two bridges say of a record is the same.
LEMMA SameSaying ==
  /\ \A t, u : RP!Follows(t, u) <=> LP!Follows(t, u)
  /\ \A t, u, S : RP!Only(t, u, S) <=> LP!Only(t, u, S)
  /\ \A t : /\ RP!Deaf(t) <=> LP!Deaf(t)
            /\ RP!Blank(t) <=> LP!Blank(t)
            /\ RP!Syn(t) <=> LP!Syn(t)
            /\ RP!Sees(t) <=> LP!Sees(t)
            /\ RP!Attached(t) <=> LP!Attached(t)
  /\ RP!Info = LP!Info /\ L!Info = LP!Info
  /\ RP!Word = LP!Word
<1>1. \A t : /\ RP!Deaf(t) <=> LP!Deaf(t)
             /\ RP!Blank(t) <=> LP!Blank(t)
             /\ RP!Syn(t) <=> LP!Syn(t)
             /\ RP!Sees(t) <=> LP!Sees(t)
             /\ RP!Attached(t) <=> LP!Attached(t)
  BY DEF RP!Deaf, LP!Deaf, RP!Blank, LP!Blank, RP!Syn, LP!Syn, RP!Sees, LP!Sees,
         RP!Attached, LP!Attached, RP!Bit, LP!Bit
<1>2. \A t, k : RP!Right(t, k) <=> LP!Right(t, k)
  BY <1>1 DEF RP!Right, LP!Right
<1>3. \A t : (RP!Hush(t) <=> LP!Hush(t)) /\ (RP!Waits(t) <=> LP!Waits(t))
  BY <1>1 DEF RP!Hush, LP!Hush, RP!Waits, LP!Waits
<1>4. \A t, u : RP!Follows(t, u) <=> LP!Follows(t, u)
  BY <1>1, <1>2, <1>3 DEF RP!Follows, LP!Follows, RP!Bit, LP!Bit
<1>5. \A t, u, S : RP!Only(t, u, S) <=> LP!Only(t, u, S)
  BY DEF RP!Only, LP!Only, RP!Field, LP!Field
<1>6. RP!Word = LP!Word BY DEF RP!Word, LP!Word, RP!MaxWord, LP!MaxWord
<1>7. RP!Info = LP!Info
  BY <1>6, Zenon DEF RP!Info, LP!Info, RP!StateBit, LP!StateBit
<1>8. L!Word = LP!Word BY DEF L!Word, LP!Word, L!MaxWord, LP!MaxWord
<1>9. L!Info = LP!Info
  BY <1>8, Zenon DEF L!Info, LP!Info, L!StateBit, LP!StateBit
<1> QED BY <1>1, <1>4, <1>5, <1>6, <1>7, <1>9

\* What bridge L does but transmit and listen.
QuietL ==
    \/ L!UpdateReturns \/ L!Continue \/ L!OneSecond
    \/ \E p \in Port : \/ L!RunRx(p) \/ L!RunSel(p) \/ L!RunMux(p) \/ L!Disable(p)
                       \/ \E g \in Agg : L!Enable(p, g)

LEMMA LeftWorks ==
  ASSUME LP!LinkInv, LongTimeout # 0, ShortTimeout # 0, QuietL
  PROVE  /\ LP!LinkInv'
         /\ \A p \in Port : /\ LP!Follows(portL[p], portL'[p])
                            /\ attrL'[p].link_status = attrL[p].link_status
<1>1. LP!Quietly BY LeftUpdate, LeftCalls DEF QuietL, LP!Quietly
<1>2. LP!LinkInv' /\ LP!AllFollow /\ LP!SameLinks BY <1>1, LeftParams, LP!BridgeWorks
<1> QED BY <1>2, SameSaying DEF LP!AllFollow, LP!SameLinks

LEMMA LeftWaits ==
  ASSUME LP!LinkInv, UNCHANGED varsL
  PROVE  /\ LP!LinkInv'
         /\ \A p \in Port : /\ LP!Follows(portL[p], portL'[p])
                            /\ attrL'[p].link_status = attrL[p].link_status
<1>1. UNCHANGED LP!vars BY DEF varsL, LP!vars
<1>2. LP!LinkInv' BY <1>1, LeftParams, LP!BridgeWaits
<1>3. \A t : LP!Follows(t, t) BY LeftParams, LP!TalkLaws DEF LP!SameTalk
<1> QED BY <1>2, <1>3 DEF varsL

LEMMA LeftSends ==
  ASSUME LP!LinkInv, NEW p \in Port, L!RunTx(p)
  PROVE  /\ LP!LinkInv'
         /\ \A q \in Port : attrL'[q].link_status = attrL[q].link_status
         /\ \A q \in Port \ {p} : portL'[q] = portL[q]
         /\ portL'[p].tx # "TX" => \A q \in Port : LP!Follows(portL[q], portL'[q])
         /\ portL'[p].tx = "TX" =>
               /\ LP!Only(portL[p], portL'[p], {"tx", "hold_count", "ntt"})
               /\ ~portL'[p].ntt /\ Lacpdu(portL'[p]) \in Words
<1>1. LP!RunTx(p) BY LeftUpdate
<1>2. /\ LP!LinkInv' /\ LP!SameLinks
      /\ \A q \in Port \ {p} : portL'[q] = portL[q]
      /\ portL'[p].tx # "TX" => LP!AllFollow
      /\ portL'[p].tx = "TX" =>
            LP!Only(portL[p], portL'[p], {"tx", "hold_count", "ntt"}) /\ ~portL'[p].ntt
  BY <1>1, LeftParams, LP!BridgeSends
<1>3. portL'[p].tx = "TX" => Lacpdu(portL'[p]) \in Words
  <2>1. portL[p] \in LP!PortRecord BY LeftParams, LP!LinkFacts
  <2>2. portL[p].actor \in LP!Info /\ portL[p].partner \in LP!Info
    BY <2>1, SameSaying DEF LP!PortRecord
  <2>3. portL'[p].tx = "TX" =>
           portL'[p].actor = portL[p].actor /\ portL'[p].partner = portL[p].partner
    BY <1>2 DEF LP!Only, LP!Field
  <2> QED BY <2>2, <2>3, SameSaying DEF Lacpdu, Words
<1> QED BY <1>2, <1>3, SameSaying DEF LP!AllFollow, LP!SameLinks

LEMMA LeftIsTold ==
  ASSUME LP!LinkInv, NEW p \in Port, NEW up \in BOOLEAN, L!LinkChange(p, up)
  PROVE  /\ LP!LinkInv'
         /\ \A q \in Port :
               /\ LP!Follows(portL[q], portL'[q])
               /\ attrL'[q].link_status = IF q = p THEN up ELSE attrL[q].link_status
<1>1. LP!LinkChange(p, up) BY LeftCalls
<1>2. /\ LP!LinkInv' /\ LP!AllFollow
      /\ \A q \in Port :
            attrL'[q].link_status = IF q = p THEN up ELSE attrL[q].link_status
  BY <1>1, LeftParams, LP!BridgeIsTold
<1> QED BY <1>2, SameSaying DEF LP!AllFollow

LEMMA LeftHears ==
  ASSUME LP!LinkInv, NEW p \in Port, NEW w \in Words,
         L!RxLacpdu(p, [rcvd |-> TRUE, actor |-> w.actor, partner |-> w.partner])
  PROVE  /\ LP!LinkInv'
         /\ \A q \in Port : attrL'[q].link_status = attrL[q].link_status
         /\ \A q \in Port \ {p} : LP!Follows(portL[q], portL'[q])
         /\ LP!Only(portL[p], portL'[p], {"msg"})
         /\ portL'[p].msg.rcvd
         /\ portL'[p].msg.actor = w.actor /\ portL'[p].msg.partner = w.partner
<1> DEFINE m == [rcvd |-> TRUE, actor |-> w.actor, partner |-> w.partner]
<1>1. LP!RxLacpdu(p, m) BY LeftCalls
<1>2. m \in LP!Pdu BY SameSaying DEF Words, LP!Pdu
<1>3. m.rcvd /\ m.actor = w.actor /\ m.partner = w.partner OBVIOUS
<1> HIDE DEF m
<1>4. /\ LP!LinkInv' /\ LP!SameLinks
      /\ LP!Only(portL[p], portL'[p], {"msg"}) /\ portL'[p].msg = m
      /\ \A q \in Port \ {p} : LP!Follows(portL[q], portL'[q])
  BY <1>1, <1>2, LeftParams, LP!BridgeHears
<1> QED BY <1>3, <1>4, SameSaying DEF LP!SameLinks

LEMMA LeftIsDeaf ==
  ASSUME LP!LinkInv, pcL = "idle", NEW p \in Port,
         ~L!Hears(p) \/ ~attrL[p].link_status
  PROVE  LP!Deaf(portL[p])
BY LeftParams, LP!BridgeIsDeaf, LeftCalls, SameSaying

LEMMA LeftRests ==
  ASSUME LP!LinkInv, pcL = "idle", NEW p \in L!Listed, attrL[p].link_status
  PROVE  /\ ~portL[p].msg.rcvd /\ portL[p].mux \notin {"BEGIN", "DISABLE"}
         /\ portL[p].ntt => Owes(portL[p])
         /\ LP!Attached(portL[p]) => LP!Syn(portL[p])
         /\ attrL[p].cd => /\ LP!Syn(portL[p]) /\ LP!Sees(portL[p])
                            /\ portL[p].rx = "CURRENT"
         /\ ~attrL[p].cd /\ LP!Syn(portL[p]) =>
               portL[p].mux = "ATTACHED" /\ ~LP!Sees(portL[p])
<1>1. p \in LP!Listed BY LeftData
<1> QED BY <1>1, LeftParams, LP!BridgeRests, SameSaying DEF Owes

LEMMA LeftNeedsLink == LP!LinkInv => LP!NoLink
BY LeftParams, LP!BridgeNeedsLink

\* Nothing has been said, heard or begun.
NothingL == \A p \in Port : LP!Blank(portL[p]) /\ ~LP!Syn(portL[p])

LEMMA LeftStarts == LP!Init => LP!LinkInv /\ pcL = "idle" /\ NothingL
<1> SUFFICES ASSUME LP!Init PROVE LP!LinkInv /\ pcL = "idle" /\ NothingL OBVIOUS
<1>1. \A p \in Port : LP!Blank(portL[p]) /\ ~LP!Syn(portL[p])
  BY LeftParams, LP!NewRecords, Zenon DEF LP!Init
<1> QED BY <1>1, LeftParams, LP!BridgeStarts, SameSaying DEF LP!Init, NothingL

\* What bridge R does but transmit and listen.
QuietR ==
    \/ R!UpdateReturns \/ R!Continue \/ R!OneSecond
    \/ \E p \in Port : \/ R!RunRx(p) \/ R!RunSel(p) \/ R!RunMux(p) \/ R!Disable(p)
                       \/ \E g \in Agg : R!Enable(p, g)

LEMMA RightWorks ==
  ASSUME RP!LinkInv, LongTimeout # 0, ShortTimeout # 0, QuietR
  PROVE  /\ RP!LinkInv'
         /\ \A p \in Port : /\ LP!Follows(portR[p], portR'[p])
                            /\ attrR'[p].link_status = attrR[p].link_status
<1>1. RP!Quietly BY RightUpdate, RightCalls DEF QuietR, RP!Quietly
<1>2. RP!LinkInv' /\ RP!AllFollow /\ RP!SameLinks BY <1>1, RightParams, RP!BridgeWorks
<1> QED BY <1>2, SameSaying DEF RP!AllFollow, RP!SameLinks

LEMMA RightWaits ==
  ASSUME RP!LinkInv, UNCHANGED varsR
  PROVE  /\ RP!LinkInv'
         /\ \A p \in Port : /\ LP!Follows(portR[p], portR'[p])
                            /\ attrR'[p].link_status = attrR[p].link_status
<1>1. UNCHANGED RP!vars BY DEF varsR, RP!vars
<1>2. RP!LinkInv' BY <1>1, RightParams, RP!BridgeWaits
<1>3. \A t : LP!Follows(t, t) BY LeftParams, LP!TalkLaws DEF LP!SameTalk
<1> QED BY <1>2, <1>3 DEF varsR

LEMMA RightSends ==
  ASSUME RP!LinkInv, NEW p \in Port, R!RunTx(p)
  PROVE  /\ RP!LinkInv'
         /\ \A q \in Port : attrR'[q].link_status = attrR[q].link_status
         /\ \A q \in Port \ {p} : portR'[q] = portR[q]
         /\ portR'[p].tx # "TX" => \A q \in Port : LP!Follows(portR[q], portR'[q])
         /\ portR'[p].tx = "TX" =>
               /\ LP!Only(portR[p], portR'[p], {"tx", "hold_count", "ntt"})
               /\ ~portR'[p].ntt /\ Lacpdu(portR'[p]) \in Words
<1>1. RP!RunTx(p) BY RightUpdate
<1>2. /\ RP!LinkInv' /\ RP!SameLinks
      /\ \A q \in Port \ {p} : portR'[q] = portR[q]
      /\ portR'[p].tx # "TX" => RP!AllFollow
      /\ portR'[p].tx = "TX" =>
            RP!Only(portR[p], portR'[p], {"tx", "hold_count", "ntt"}) /\ ~portR'[p].ntt
  BY <1>1, RightParams, RP!BridgeSends
<1>3. portR'[p].tx = "TX" => Lacpdu(portR'[p]) \in Words
  <2>1. portR[p] \in RP!PortRecord BY RightParams, RP!LinkFacts
  <2>2. portR[p].actor \in LP!Info /\ portR[p].partner \in LP!Info
    BY <2>1, SameSaying DEF RP!PortRecord
  <2>3. portR'[p].tx = "TX" =>
           portR'[p].actor = portR[p].actor /\ portR'[p].partner = portR[p].partner
    BY <1>2 DEF RP!Only, RP!Field
  <2> QED BY <2>2, <2>3, SameSaying DEF Lacpdu, Words
<1> QED BY <1>2, <1>3, SameSaying DEF RP!AllFollow, RP!SameLinks

LEMMA RightIsTold ==
  ASSUME RP!LinkInv, NEW p \in Port, NEW up \in BOOLEAN, R!LinkChange(p, up)
  PROVE  /\ RP!LinkInv'
         /\ \A q \in Port :
               /\ LP!Follows(portR[q], portR'[q])
               /\ attrR'[q].link_status = IF q = p THEN up ELSE attrR[q].link_status
<1>1. RP!LinkChange(p, up) BY RightCalls
<1>2. /\ RP!LinkInv' /\ RP!AllFollow
      /\ \A q \in Port :
            attrR'[q].link_status = IF q = p THEN up ELSE attrR[q].link_status
  BY <1>1, RightParams, RP!BridgeIsTold
<1> QED BY <1>2, SameSaying DEF RP!AllFollow

LEMMA RightHears ==
  ASSUME RP!LinkInv, NEW p \in Port, NEW w \in Words,
         R!RxLacpdu(p, [rcvd |-> TRUE, actor |-> w.actor, partner |-> w.partner])
  PROVE  /\ RP!LinkInv'
         /\ \A q \in Port : attrR'[q].link_status = attrR[q].link_status
         /\ \A q \in Port \ {p} : LP!Follows(portR[q], portR'[q])
         /\ LP!Only(portR[p], portR'[p], {"msg"})
         /\ portR'[p].msg.rcvd
         /\ portR'[p].msg.actor = w.actor /\ portR'[p].msg.partner = w.partner
<1> DEFINE m == [rcvd |-> TRUE, actor |-> w.actor, partner |-> w.partner]
<1>1. RP!RxLacpdu(p, m) BY RightCalls
<1>2. m \in RP!Pdu BY SameSaying DEF Words, RP!Pdu
<1>3. m.rcvd /\ m.actor = w.actor /\ m.partner = w.partner OBVIOUS
<1> HIDE DEF m
<1>4. /\ RP!LinkInv' /\ RP!SameLinks
      /\ RP!Only(portR[p], portR'[p], {"msg"}) /\ portR'[p].msg = m
      /\ \A q \in Port \ {p} : RP!Follows(portR[q], portR'[q])
  BY <1>1, <1>2, RightParams, RP!BridgeHears
<1> QED BY <1>3, <1>4, SameSaying DEF RP!SameLinks

LEMMA RightIsDeaf ==
  ASSUME RP!LinkInv, pcR = "idle", NEW p \in Port,
         ~R!Hears(p) \/ ~attrR[p].link_status
  PROVE  LP!Deaf(portR[p])
BY RightParams, RP!BridgeIsDeaf, RightCalls, SameSaying

LEMMA RightRests ==
  ASSUME RP!LinkInv, pcR = "idle", NEW p \in R!Listed, attrR[p].link_status
  PROVE  /\ ~portR[p].msg.rcvd /\ portR[p].mux \notin {"BEGIN", "DISABLE"}
         /\ portR[p].ntt => Owes(portR[p])
         /\ LP!Attached(portR[p]) => LP!Syn(portR[p])
         /\ attrR[p].cd => /\ LP!Syn(portR[p]) /\ LP!Sees(portR[p])
                            /\ portR[p].rx = "CURRENT"
         /\ ~attrR[p].cd /\ LP!Syn(portR[p]) =>
               portR[p].mux = "ATTACHED" /\ ~LP!Sees(portR[p])
<1>1. p \in RP!Listed BY RightData
<1> QED BY <1>1, RightParams, RP!BridgeRests, SameSaying DEF Owes

LEMMA RightNeedsLink == RP!LinkInv => RP!NoLink
BY RightParams, RP!BridgeNeedsLink

\* Nothing has been said, heard or begun.
NothingR == \A p \in Port : LP!Blank(portR[p]) /\ ~LP!Syn(portR[p])

LEMMA RightStarts == RP!Init => RP!LinkInv /\ pcR = "idle" /\ NothingR
<1> SUFFICES ASSUME RP!Init PROVE RP!LinkInv /\ pcR = "idle" /\ NothingR OBVIOUS
<1>1. \A p \in Port : RP!Blank(portR[p]) /\ ~RP!Syn(portR[p])
  BY RightParams, RP!NewRecords, Zenon DEF RP!Init
<1> QED BY <1>1, RightParams, RP!BridgeStarts, SameSaying DEF RP!Init, NothingR

\* The cable of port p of L is in.
In(p) == cable[AtL(p)] # N!None

QueuesOK == sent \in Letters /\ way \in [N!End -> Items]

\* A cable joins two ports of the same number, and bridge L is not killed.
CablesOK ==
    /\ "L" \in alive
    /\ cable \in [N!End -> N!End \cup {N!None}]
    /\ \A p \in Port : \/ cable[AtL(p)] = N!None /\ cable[AtR(p)] = N!None
                       \/ cable[AtL(p)] = AtR(p) /\ cable[AtR(p)] = AtL(p)

\* What a port is told ends with the cable as it is.
WaysOK ==
    \A p \in Port :
       /\ Ends(way[AtL(p)], attrL[p].link_status, In(p), mngr)
       /\ "R" \in alive => Ends(way[AtR(p)], attrR[p].link_status, In(p), mngr)

\* While R does not run nothing is left of it.
GoneOK ==
    "R" \notin alive => RP!Init /\ \A p \in Port : way[AtR(p)] = <<>>

NetOK == QueuesOK /\ CablesOK /\ WaysOK /\ GoneOK /\ mngr \in BOOLEAN

\* What the two ends of a cable say, have on their ways and know of each other.
PairOK(p) ==
    Pair(In(p), Latest(sent, AtL(p)), Latest(sent, AtR(p)),
         LastItem(way[AtL(p)]), LastItem(way[AtR(p)]), portL[p], portR[p])

BridgesInv ==
    /\ LP!LinkInv /\ RP!LinkInv /\ NetOK
    /\ \A p \in Port : PairOK(p)

-----------------------------------------------------------------------------
LEMMA StatusL == LP!LinkInv => \A p \in Port : attrL[p].link_status \in BOOLEAN
<1> SUFFICES ASSUME LP!LinkInv, NEW p \in Port PROVE attrL[p].link_status \in BOOLEAN
  OBVIOUS
<1>1. LP!TypeOK BY LeftParams, LP!LinkFacts DEF LP!TypeInv
<1>2. attrL[p] \in LP!Attr BY <1>1 DEF LP!TypeOK
<1> QED BY <1>2 DEF LP!Attr

LEMMA StatusR == RP!LinkInv => \A p \in Port : attrR[p].link_status \in BOOLEAN
<1> SUFFICES ASSUME RP!LinkInv, NEW p \in Port PROVE attrR[p].link_status \in BOOLEAN
  OBVIOUS
<1>1. RP!TypeOK BY RightParams, RP!LinkFacts DEF RP!TypeInv
<1>2. attrR[p] \in RP!Attr BY <1>1 DEF RP!TypeOK
<1> QED BY <1>2 DEF RP!Attr

LEMMA Unlinked == RP!Init => \A p \in Port : attrR[p].link_status = FALSE
BY DEF RP!Init, RP!BootAttr

\* A port that waits for word over a cable and does not know of its link is going to be
\* told of it.
ToldL ==
    \A p \in Port : In(p) /\ portL[p].mux = "ATTACHED" /\ ~portL[p].port_enabled
                    => LastItem(way[AtL(p)]) # {}
ToldR ==
    \A p \in Port : In(p) /\ portR[p].mux = "ATTACHED" /\ ~portR[p].port_enabled
                    => LastItem(way[AtR(p)]) # {}

LEMMA WaitersAreTold == LP!LinkInv /\ RP!LinkInv /\ NetOK => ToldL /\ ToldR
<1> SUFFICES ASSUME LP!LinkInv, RP!LinkInv, NetOK PROVE ToldL /\ ToldR OBVIOUS
<1>1. \A p \in Port : way[AtL(p)] \in Items /\ way[AtR(p)] \in Items
  BY PortEnds DEF NetOK, QueuesOK
<1>2. \A p \in Port : In(p) \in BOOLEAN BY DEF In
<1>3. mngr \in BOOLEAN BY DEF NetOK
<1>4. LP!NoLink /\ RP!NoLink BY LeftNeedsLink, RightNeedsLink
<1>5. ToldL
  <2> SUFFICES ASSUME NEW p \in Port, In(p), portL[p].mux = "ATTACHED",
                      ~portL[p].port_enabled
               PROVE  LastItem(way[AtL(p)]) # {}
    BY DEF ToldL
  <2>1. ~attrL[p].link_status BY <1>4 DEF LP!NoLink
  <2>2. attrL[p].link_status \in BOOLEAN BY StatusL
  <2>3. Ends(way[AtL(p)], attrL[p].link_status, TRUE, mngr) BY <1>2, Zenon DEF NetOK, WaysOK
  <2>4. way[AtL(p)] # <<>> BY <1>1, <1>3, <2>1, <2>2, <2>3, EndsOfNone, Zenon
  <2> QED BY <1>1, <2>4, WayFacts, Zenon
<1>6. ToldR
  <2> SUFFICES ASSUME NEW p \in Port, In(p), portR[p].mux = "ATTACHED",
                      ~portR[p].port_enabled
               PROVE  LastItem(way[AtR(p)]) # {}
    BY DEF ToldR
  <2>1. ~attrR[p].link_status BY <1>4 DEF RP!NoLink
  <2>2. attrR[p].link_status \in BOOLEAN BY StatusR
  <2>3. "R" \in alive
    <3>1. "R" \notin alive => LP!Blank(portR[p]) BY RightStarts DEF NetOK, GoneOK, NothingR
    <3> QED BY <3>1 DEF LP!Blank
  <2>4. Ends(way[AtR(p)], attrR[p].link_status, TRUE, mngr) BY <1>2, <2>3, Zenon DEF NetOK, WaysOK
  <2>5. way[AtR(p)] # <<>> BY <1>1, <1>3, <2>1, <2>2, <2>4, EndsOfNone, Zenon
  <2> QED BY <1>1, <2>5, WayFacts
<1> QED BY <1>5, <1>6

\* After the manager's part of a step both bridges do theirs.
LEMMA PairKept ==
  ASSUME LP!LinkInv', RP!LinkInv', NetOK', NEW p \in Port,
         Pair(In(p)', Latest(sent', AtL(p)), Latest(sent', AtR(p)),
              LastItem(way'[AtL(p)]), LastItem(way'[AtR(p)]), portL[p], portR[p]),
         LP!Follows(portL[p], portL'[p]), LP!Follows(portR[p], portR'[p])
  PROVE  PairOK(p)'
<1>1. ToldL' /\ ToldR' BY WaitersAreTold, PTL
<1>2. Pair(In(p)', Latest(sent', AtL(p)), Latest(sent', AtR(p)),
           LastItem(way'[AtL(p)]), LastItem(way'[AtR(p)]), portL'[p], portR[p])
  <2>1. In(p)' /\ portL'[p].mux = "ATTACHED" /\ ~portL'[p].port_enabled
        => LastItem(way'[AtL(p)]) # {}
    BY <1>1 DEF ToldL
  <2> QED BY <2>1, PairFollows
<1>3. Pair(In(p)', Latest(sent', AtR(p)), Latest(sent', AtL(p)),
           LastItem(way'[AtR(p)]), LastItem(way'[AtL(p)]), portR[p], portL'[p])
  BY <1>2, PairTurns
<1>4. Pair(In(p)', Latest(sent', AtR(p)), Latest(sent', AtL(p)),
           LastItem(way'[AtR(p)]), LastItem(way'[AtL(p)]), portR'[p], portL'[p])
  <2>1. In(p)' /\ portR'[p].mux = "ATTACHED" /\ ~portR'[p].port_enabled
        => LastItem(way'[AtR(p)]) # {}
    BY <1>1 DEF ToldR
  <2> QED BY <1>3, <2>1, PairFollows
<1>5. Pair(In(p)', Latest(sent', AtL(p)), Latest(sent', AtR(p)),
           LastItem(way'[AtL(p)]), LastItem(way'[AtR(p)]), portL'[p], portR'[p])
  BY <1>4, PairTurns
<1> QED BY <1>5 DEF PairOK

-----------------------------------------------------------------------------
\* R and its ways, while R does not run.
LEMMA GoneFacts ==
  ASSUME NetOK, "R" \notin alive
  PROVE  /\ pcR = "idle"
         /\ \A p \in Port : /\ LP!Blank(portR[p]) /\ ~LP!Syn(portR[p])
                            /\ way[AtR(p)] = <<>>
BY RightStarts DEF NetOK, GoneOK, NothingR

\* Nothing of the network changes.
LEMMA StillNet ==
  ASSUME BridgesInv, LP!LinkInv', RP!LinkInv', UNCHANGED <<varsN, mngr>>,
         "R" \notin alive => UNCHANGED varsR,
         \A p \in Port : /\ LP!Follows(portL[p], portL'[p])
                         /\ LP!Follows(portR[p], portR'[p])
                         /\ attrL'[p].link_status = attrL[p].link_status
                         /\ attrR'[p].link_status = attrR[p].link_status
  PROVE  BridgesInv'
<1>1. UNCHANGED <<alive, cable, sent, way, mngr>> BY DEF varsN
<1>2. QueuesOK' /\ CablesOK' BY <1>1 DEF BridgesInv, NetOK, QueuesOK, CablesOK
<1>3. \A p \in Port : In(p)' = In(p) BY <1>1 DEF In
<1>4. WaysOK' BY <1>1, <1>3 DEF BridgesInv, NetOK, WaysOK
<1>5. RP!Init /\ UNCHANGED varsR => RP!Init' BY DEF RP!Init, varsR
<1>6. GoneOK' BY <1>1, <1>5 DEF BridgesInv, NetOK, GoneOK
<1>7. NetOK' BY <1>1, <1>2, <1>4, <1>6 DEF BridgesInv, NetOK
<1>8. ASSUME NEW p \in Port PROVE PairOK(p)'
  <2>1. Pair(In(p)', Latest(sent', AtL(p)), Latest(sent', AtR(p)),
             LastItem(way'[AtL(p)]), LastItem(way'[AtR(p)]), portL[p], portR[p])
    BY <1>1, <1>3 DEF BridgesInv, PairOK
  <2> QED BY <1>7, <2>1, PairKept
<1> QED BY <1>7, <1>8 DEF BridgesInv

-----------------------------------------------------------------------------
(* The steps of the bridges *)

\* Steps that the network does not take part in.
LEMMA BridgesWork ==
  ASSUME BridgesInv, LongTimeout # 0, ShortTimeout # 0,
         QuietL \/ UNCHANGED varsL, QuietR \/ UNCHANGED varsR,
         "R" \notin alive => UNCHANGED varsR, UNCHANGED <<varsN, mngr>>
  PROVE  BridgesInv'
<1>1. /\ LP!LinkInv'
      /\ \A p \in Port : /\ LP!Follows(portL[p], portL'[p])
                         /\ attrL'[p].link_status = attrL[p].link_status
  BY LeftWorks, LeftWaits DEF BridgesInv
<1>2. /\ RP!LinkInv'
      /\ \A p \in Port : /\ LP!Follows(portR[p], portR'[p])
                         /\ attrR'[p].link_status = attrR[p].link_status
  BY RightWorks, RightWaits DEF BridgesInv
<1> QED BY <1>1, <1>2, StillNet

\* What a letter does to the network.
LEMMA SendFacts ==
  ASSUME NetOK, NEW e \in N!End, NEW m \in Words, N!Send(e, m)
  PROVE  /\ sent' \in Letters /\ UNCHANGED <<alive, cable, way, peer>>
         /\ \A f : Latest(sent', f) = IF e = f THEN {m} ELSE Latest(sent, f)
<1> DEFINE x == [from |-> e, pdu |-> m]
<1>1. x \in Letter /\ x.from = e /\ x.pdu = m BY DEF Letter
<1>2. sent' = Append(sent, x) /\ UNCHANGED <<alive, cable, way, peer>> BY DEF N!Send
<1> HIDE DEF x
<1>3. sent \in Letters BY DEF NetOK, QueuesOK
<1> QED BY <1>1, <1>2, <1>3, SentFacts

\* A port of L transmits.
LEMMA LeftTransmits ==
  ASSUME BridgesInv, NEW p \in Port, TransmitL(p), UNCHANGED <<varsR, mngr>>
  PROVE  BridgesInv'
<1>1. /\ LP!LinkInv'
      /\ \A q \in Port : attrL'[q].link_status = attrL[q].link_status
      /\ \A q \in Port \ {p} : portL'[q] = portL[q]
      /\ portL'[p].tx # "TX" => \A q \in Port : LP!Follows(portL[q], portL'[q])
      /\ portL'[p].tx = "TX" =>
            /\ LP!Only(portL[p], portL'[p], {"tx", "hold_count", "ntt"})
            /\ ~portL'[p].ntt /\ Lacpdu(portL'[p]) \in Words
  BY LeftSends DEF BridgesInv, TransmitL
<1>2. /\ RP!LinkInv'
      /\ \A q \in Port : /\ LP!Follows(portR[q], portR'[q])
                         /\ attrR'[q].link_status = attrR[q].link_status
  BY RightWaits DEF BridgesInv
<1>3. CASE portL'[p].tx # "TX"
  <2>1. UNCHANGED varsN BY <1>3 DEF TransmitL
  <2> QED BY <1>1, <1>2, <1>3, <2>1, StillNet
<1>4. CASE portL'[p].tx = "TX"
  <2> DEFINE m == Lacpdu(portL'[p])
  <2>1. N!Send(AtL(p), m) BY <1>4 DEF TransmitL, AtL
  <2>2. m \in Words /\ AtL(p) \in N!End BY <1>1, <1>4, PortEnds
  <2>3. NetOK BY DEF BridgesInv
  <2>4. /\ sent' \in Letters /\ UNCHANGED <<alive, cable, way, peer>>
        /\ \A f : Latest(sent', f) = IF AtL(p) = f THEN {m} ELSE Latest(sent, f)
    BY <2>1, <2>2, <2>3, SendFacts
  <2> HIDE DEF m
  <2>5. QueuesOK' /\ CablesOK' BY <2>3, <2>4 DEF NetOK, QueuesOK, CablesOK
  <2>6. \A q \in Port : In(q)' = In(q) BY <2>4 DEF In
  <2>7. attrR' = attrR /\ portR' = portR BY DEF varsR
  <2>8. WaysOK' BY <1>1, <2>3, <2>4, <2>6, <2>7 DEF NetOK, WaysOK
  <2>9. RP!Init => RP!Init' BY DEF RP!Init, varsR
  <2>10. GoneOK' BY <2>3, <2>4, <2>9 DEF NetOK, GoneOK
  <2>11. NetOK' BY <2>3, <2>5, <2>8, <2>10 DEF NetOK
  <2>12. ASSUME NEW q \in Port PROVE PairOK(q)'
    <3>1. Latest(sent', AtR(q)) = Latest(sent, AtR(q)) BY <2>4, PortEnds
    <3>2. PairOK(q) BY DEF BridgesInv
    <3>3. CASE q # p
      <4>1. Latest(sent', AtL(q)) = Latest(sent, AtL(q)) BY <2>4, <3>3, PortEnds
      <4>2. portL'[q] = portL[q] BY <1>1, <3>3
      <4> QED BY <2>4, <2>6, <2>7, <3>1, <3>2, <4>1, <4>2 DEF PairOK
    <3>4. CASE q = p
      <4>1. Latest(sent', AtL(p)) = {m} BY <2>4
      <4>2. Pair(In(p), {m}, Latest(sent, AtR(p)), LastItem(way[AtL(p)]),
                 LastItem(way[AtR(p)]), portL'[p], portR[p])
        BY <1>1, <1>4, <3>2, <3>4, PairSends DEF PairOK, m
      <4> QED BY <2>4, <2>6, <2>7, <3>1, <3>4, <4>1, <4>2 DEF PairOK
    <3> QED BY <3>3, <3>4
  <2> QED BY <1>1, <1>2, <2>11, <2>12 DEF BridgesInv
<1> QED BY <1>3, <1>4

LEMMA RightTransmits ==
  ASSUME BridgesInv, NEW p \in Port, TransmitR(p), UNCHANGED <<varsL, mngr>>
  PROVE  BridgesInv'
<1>1. /\ RP!LinkInv'
      /\ \A q \in Port : attrR'[q].link_status = attrR[q].link_status
      /\ \A q \in Port \ {p} : portR'[q] = portR[q]
      /\ portR'[p].tx # "TX" => \A q \in Port : LP!Follows(portR[q], portR'[q])
      /\ portR'[p].tx = "TX" =>
            /\ LP!Only(portR[p], portR'[p], {"tx", "hold_count", "ntt"})
            /\ ~portR'[p].ntt /\ Lacpdu(portR'[p]) \in Words
  BY RightSends DEF BridgesInv, TransmitR
<1>2. /\ LP!LinkInv'
      /\ \A q \in Port : /\ LP!Follows(portL[q], portL'[q])
                         /\ attrL'[q].link_status = attrL[q].link_status
  BY LeftWaits DEF BridgesInv
<1>3. "R" \in alive
  <2>1. pcR = "update" BY DEF TransmitR, R!RunTx, R!Turn
  <2> QED BY <2>1, GoneFacts DEF BridgesInv
<1>4. CASE portR'[p].tx # "TX"
  <2>1. UNCHANGED varsN BY <1>4 DEF TransmitR
  <2> QED BY <1>1, <1>2, <1>3, <1>4, <2>1, StillNet
<1>5. CASE portR'[p].tx = "TX"
  <2> DEFINE m == Lacpdu(portR'[p])
  <2>1. N!Send(AtR(p), m) BY <1>5 DEF TransmitR, AtR
  <2>2. m \in Words /\ AtR(p) \in N!End BY <1>1, <1>5, PortEnds
  <2>3. NetOK BY DEF BridgesInv
  <2>4. /\ sent' \in Letters /\ UNCHANGED <<alive, cable, way, peer>>
        /\ \A f : Latest(sent', f) = IF AtR(p) = f THEN {m} ELSE Latest(sent, f)
    BY <2>1, <2>2, <2>3, SendFacts
  <2> HIDE DEF m
  <2>5. QueuesOK' /\ CablesOK' BY <2>3, <2>4 DEF NetOK, QueuesOK, CablesOK
  <2>6. \A q \in Port : In(q)' = In(q) BY <2>4 DEF In
  <2>7. attrL' = attrL /\ portL' = portL BY DEF varsL
  <2>8. WaysOK' BY <1>1, <2>3, <2>4, <2>6, <2>7 DEF NetOK, WaysOK
  <2>9. GoneOK' BY <1>3, <2>4 DEF GoneOK
  <2>10. NetOK' BY <2>3, <2>5, <2>8, <2>9 DEF NetOK
  <2>11. ASSUME NEW q \in Port PROVE PairOK(q)'
    <3>1. Latest(sent', AtL(q)) = Latest(sent, AtL(q)) BY <2>4, PortEnds
    <3>2. PairOK(q) BY DEF BridgesInv
    <3>3. CASE q # p
      <4>1. Latest(sent', AtR(q)) = Latest(sent, AtR(q)) BY <2>4, <3>3, PortEnds
      <4>2. portR'[q] = portR[q] BY <1>1, <3>3
      <4> QED BY <2>4, <2>6, <2>7, <3>1, <3>2, <4>1, <4>2 DEF PairOK
    <3>4. CASE q = p
      <4>1. Latest(sent', AtR(p)) = {m} BY <2>4
      <4>2. Pair(In(p), Latest(sent, AtR(p)), Latest(sent, AtL(p)), LastItem(way[AtR(p)]),
                 LastItem(way[AtL(p)]), portR[p], portL[p])
        BY <3>2, <3>4, PairTurns DEF PairOK
      <4>3. Pair(In(p), {m}, Latest(sent, AtL(p)), LastItem(way[AtR(p)]),
                 LastItem(way[AtL(p)]), portR'[p], portL[p])
        BY <1>1, <1>5, <4>2, PairSends DEF m
      <4>4. Pair(In(p), Latest(sent, AtL(p)), {m}, LastItem(way[AtL(p)]),
                 LastItem(way[AtR(p)]), portL[p], portR'[p])
        BY <4>3, PairTurns
      <4> QED BY <2>4, <2>6, <2>7, <3>1, <3>4, <4>1, <4>4 DEF PairOK
    <3> QED BY <3>3, <3>4
  <2> QED BY <1>1, <1>2, <2>10, <2>11 DEF BridgesInv
<1> QED BY <1>4, <1>5

\* A step of one of the loops.
LEMMA WorkKeeps ==
  ASSUME BridgesInv, LongTimeout # 0, ShortTimeout # 0, WorkL \/ WorkR
  PROVE  BridgesInv'
<1>1. CASE WorkL
  <2>1. ASSUME NEW p \in Port, TransmitL(p) PROVE BridgesInv'
    BY <1>1, <2>1, LeftTransmits DEF WorkL
  <2>2. CASE /\ L!UpdateReturns \/ L!Continue
                \/ \E p \in Port : L!RunRx(p) \/ L!RunSel(p) \/ L!RunMux(p)
             /\ UNCHANGED varsN
    <3>1. QuietL BY <2>2 DEF QuietL
    <3>2. UNCHANGED varsR /\ UNCHANGED <<varsN, mngr>> BY <1>1, <2>2 DEF WorkL
    <3> QED BY <3>1, <3>2, BridgesWork
  <2> QED BY <1>1, <2>1, <2>2 DEF WorkL
<1>2. CASE WorkR
  <2>1. ASSUME NEW p \in Port, TransmitR(p) PROVE BridgesInv'
    BY <1>2, <2>1, RightTransmits DEF WorkR
  <2>2. CASE /\ R!UpdateReturns \/ R!Continue
                \/ \E p \in Port : R!RunRx(p) \/ R!RunSel(p) \/ R!RunMux(p)
             /\ UNCHANGED varsN
    <3>1. QuietR BY <2>2 DEF QuietR
    <3>2. UNCHANGED varsL /\ UNCHANGED <<varsN, mngr>> BY <1>2, <2>2 DEF WorkR
    <3>3. pcR # "idle"
      <4>1. R!Continue => pcR # "idle"
        BY Zenon DEF R!Continue, R!EnableCfg, R!EnableLink, R!DisableNotify, R!DisableLeave,
               R!DisableUpdate, R!RemovePort, R!RemoveReturns
      <4> QED BY <2>2, <4>1, Zenon DEF R!UpdateReturns, R!RunRx, R!RunSel, R!RunMux, R!Turn
    <3>4. "R" \in alive BY <3>3, GoneFacts DEF BridgesInv
    <3> QED BY <3>1, <3>2, <3>4, BridgesWork
  <2> QED BY <1>2, <2>1, <2>2 DEF WorkR
<1> QED BY <1>1, <1>2

LEMMA SecondsKeep ==
  ASSUME BridgesInv, LongTimeout # 0, ShortTimeout # 0,
         SecondL \/ SecondR \/ CommandL \/ CommandR \/ UNCHANGED vars
  PROVE  BridgesInv'
<1>1. CASE SecondL \/ CommandL
  <2>1. QuietL /\ UNCHANGED varsR /\ UNCHANGED <<varsN, mngr>>
    BY <1>1 DEF SecondL, CommandL, QuietL
  <2> QED BY <2>1, BridgesWork
<1>2. CASE SecondR \/ CommandR
  <2>1. QuietR /\ UNCHANGED varsL /\ UNCHANGED <<varsN, mngr>> /\ "R" \in alive
    BY <1>2 DEF SecondR, CommandR, QuietR
  <2> QED BY <2>1, BridgesWork
<1>3. CASE UNCHANGED vars
  <2>1. UNCHANGED varsL /\ UNCHANGED varsR /\ UNCHANGED <<varsN, mngr>>
    BY <1>3 DEF vars
  <2> QED BY <2>1, BridgesWork
<1> QED BY <1>1, <1>2, <1>3

-----------------------------------------------------------------------------
(* The steps of the manager *)

\* The items on the ways and the links they find, as the lemmas on Ends want them.
LEMMA NetFacts ==
  ASSUME BridgesInv
  PROVE  /\ QueuesOK /\ CablesOK /\ WaysOK /\ GoneOK /\ NetOK /\ mngr \in BOOLEAN
         /\ \A p \in Port : /\ way[AtL(p)] \in Items /\ way[AtR(p)] \in Items
                            /\ attrL[p].link_status \in BOOLEAN
                            /\ attrR[p].link_status \in BOOLEAN
                            /\ In(p) \in BOOLEAN
                            /\ PairOK(p)
<1>1. QueuesOK /\ CablesOK /\ WaysOK /\ GoneOK /\ NetOK /\ mngr \in BOOLEAN
  BY DEF BridgesInv, NetOK
<1>2. \A p \in Port : way[AtL(p)] \in Items /\ way[AtR(p)] \in Items
  BY <1>1, PortEnds DEF QueuesOK
<1> QED BY <1>1, <1>2, StatusL, StatusR DEF BridgesInv, In

\* The bridges that a step of the manager leaves alone.
LEMMA Untouched ==
  ASSUME BridgesInv, UNCHANGED <<varsL, varsR>>
  PROVE  /\ LP!LinkInv' /\ RP!LinkInv'
         /\ portL' = portL /\ portR' = portR /\ attrL' = attrL /\ attrR' = attrR
         /\ RP!Init => RP!Init'
<1>1. LP!LinkInv' /\ RP!LinkInv' BY LeftWaits, RightWaits DEF BridgesInv
<1>2. RP!Init => RP!Init' BY DEF RP!Init, varsR
<1> QED BY <1>1, <1>2 DEF varsL, varsR

\* Telling a port changes no other way.
LEMMA TellFacts ==
  ASSUME NEW w \in [N!End -> Items], NEW e \in N!End, NEW x \in Item
  PROVE  /\ N!Tell(w, e, x) \in [N!End -> Items]
         /\ \A f \in N!End \ {e} : N!Tell(w, e, x)[f] = w[f]
         /\ N!Tell(w, e, x)[e] = IF e[1] \in alive THEN Append(w[e], x) ELSE w[e]
<1>1. Append(w[e], x) \in Items BY WayFacts
<1> DEFINE y == Append(w[e], x)
<1>2. N!Tell(w, e, x) = IF e[1] \in alive THEN [w EXCEPT ![e] = y] ELSE w BY DEF N!Tell
<1>3. y \in Items BY <1>1
<1> HIDE DEF y
<1>4. /\ N!Tell(w, e, x) \in [N!End -> Items]
      /\ \A f \in N!End \ {e} : N!Tell(w, e, x)[f] = w[f]
      /\ N!Tell(w, e, x)[e] = IF e[1] \in alive THEN y ELSE w[e]
  BY <1>2, <1>3
<1> QED BY <1>4 DEF y

\* The manager takes the oldest letter to the other end of its cable.
LEMMA RouteKeeps ==
  ASSUME BridgesInv, Route
  PROVE  BridgesInv'
<1> DEFINE h == Head(sent)
           d == N!Carried(h.from, h.pdu)
<1>1. sent # <<>> /\ sent' = Tail(sent) /\ UNCHANGED <<alive, cable, peer, mngr>>
  BY DEF Route, N!Route
<1>2. sent \in Letters BY NetFacts DEF QueuesOK
<1>3. h \in Letter /\ sent' \in Letters BY <1>1, <1>2, SentFacts
<1>4. \A e : \/ /\ Latest(sent', e) = Latest(sent, e)
                /\ h.from = e => Latest(sent, e) # {}
             \/ h.from = e /\ Latest(sent', e) = {} /\ Latest(sent, e) = {h.pdu}
  BY <1>1, <1>2, SentFacts
<1>5. h.from \in N!End /\ h.pdu \in Words BY <1>3 DEF Letter
<1>6. d \in Item /\ d.cmd = "BPDU" /\ d.pdu = h.pdu BY <1>5, ItemFacts
<1>7. way' = IF cable[h.from] = N!None THEN way ELSE N!Tell(way, cable[h.from], d)
  BY DEF Route, N!Route
<1> HIDE DEF d, h
<1>8. way \in [N!End -> Items] BY NetFacts DEF QueuesOK
<1>9. /\ LP!LinkInv' /\ RP!LinkInv'
      /\ portL' = portL /\ portR' = portR /\ attrL' = attrL /\ attrR' = attrR
      /\ RP!Init => RP!Init'
  BY Untouched DEF Route
<1>10. \A q \in Port : In(q)' = In(q) BY <1>1 DEF In
<1>11. CablesOK' BY <1>1, NetFacts DEF CablesOK
<1>12. "L" \in alive BY NetFacts DEF CablesOK
<1>13. PICK p \in Port : h.from = AtL(p) \/ h.from = AtR(p) BY <1>5, PortEnds
<1>14. CASE h.from = AtL(p)
  <2>1. way' \in [N!End -> Items] /\ \A f \in N!End \ {AtR(p)} : way'[f] = way[f]
    BY <1>6, <1>7, <1>8, <1>14, NetFacts, PortEnds, TellFacts DEF CablesOK
  <2>2. way'[AtR(p)] = IF In(p) /\ "R" \in alive THEN Append(way[AtR(p)], d)
                       ELSE way[AtR(p)]
    BY <1>6, <1>7, <1>8, <1>14, NetFacts, PortEnds, TellFacts DEF CablesOK, In
  <2>3. QueuesOK' BY <1>3, <2>1 DEF QueuesOK
  <2>4. WaysOK'
    <3> SUFFICES ASSUME NEW q \in Port
                 PROVE  /\ Ends(way'[AtL(q)], attrL[q].link_status, In(q), mngr)
                        /\ "R" \in alive => Ends(way'[AtR(q)], attrR[q].link_status,
                                                 In(q), mngr)
      BY <1>1, <1>9, <1>10 DEF WaysOK
    <3>1. way'[AtL(q)] = way[AtL(q)] BY <2>1, PortEnds
    <3>2. CASE way'[AtR(q)] = way[AtR(q)] BY <3>1, <3>2, NetFacts DEF WaysOK
    <3>3. CASE way'[AtR(q)] = Append(way[AtR(q)], d)
      <4>1. "R" \in alive => Ends(way[AtR(q)], attrR[q].link_status, In(q), mngr)
        BY NetFacts DEF WaysOK
      <4>2. /\ way[AtR(q)] \in Items /\ attrR[q].link_status \in BOOLEAN
            /\ In(q) \in BOOLEAN /\ mngr \in BOOLEAN
        BY NetFacts
      <4>3. "R" \in alive => Ends(Append(way[AtR(q)], d), attrR[q].link_status, In(q), mngr)
        BY <1>6, <4>1, <4>2, EndsTold, Zenon
      <4> QED BY <3>1, <3>3, <4>3, NetFacts DEF WaysOK
    <3> QED BY <2>1, <2>2, <3>2, <3>3, PortEnds, Zenon
  <2>5. GoneOK'
    <3>1. "R" \notin alive => \A q \in Port : way'[AtR(q)] = way[AtR(q)]
      BY <2>1, <2>2, PortEnds
    <3> QED BY <1>1, <1>9, <3>1, NetFacts DEF GoneOK
  <2>6. NetOK' BY <1>1, <1>11, <2>3, <2>4, <2>5, NetFacts DEF NetOK
  <2>7. ASSUME NEW q \in Port PROVE PairOK(q)'
    <3>1. way'[AtL(q)] = way[AtL(q)] /\ Latest(sent', AtR(q)) = Latest(sent, AtR(q))
      BY <1>4, <1>14, <2>1, PortEnds
    <3>2. PairOK(q) BY NetFacts
    <3>3. CASE q # p
      <4>1. way'[AtR(q)] = way[AtR(q)] /\ Latest(sent', AtL(q)) = Latest(sent, AtL(q))
        BY <1>4, <1>14, <2>1, <3>3, PortEnds
      <4> QED BY <1>9, <1>10, <3>1, <3>2, <4>1 DEF PairOK
    <3>4. CASE q = p
      <4>1. \/ Latest(sent', AtL(p)) = Latest(sent, AtL(p)) /\ Latest(sent, AtL(p)) # {}
            \/ Latest(sent', AtL(p)) = {} /\ Latest(sent, AtL(p)) = {d.pdu}
        BY <1>4, <1>6, <1>14
      <4>2. \/ ~In(p) /\ LastItem(way'[AtR(p)]) = LastItem(way[AtR(p)])
            \/ LastItem(way'[AtR(p)]) = {d}
            \/ LastItem(way'[AtR(p)]) = {} /\ LP!Blank(portR[p]) /\ ~LP!Syn(portR[p])
        <5>1. CASE In(p) /\ "R" \in alive
          BY <1>6, <2>2, <5>1, NetFacts, WayFacts
        <5>2. CASE In(p) /\ "R" \notin alive
          <6>1. way'[AtR(p)] = <<>> BY <2>2, <5>2, NetFacts, GoneFacts
          <6> QED BY <5>2, <6>1, NetFacts, GoneFacts DEF LastItem
        <5> QED BY <2>2, <5>1, <5>2
      <4>3. Pair(In(p), Latest(sent', AtL(p)), Latest(sent, AtR(p)), LastItem(way[AtL(p)]),
                 LastItem(way'[AtR(p)]), portL[p], portR[p])
        BY <1>6, <3>2, <3>4, <4>1, <4>2, PairRoutes DEF PairOK
      <4> QED BY <1>9, <1>10, <3>1, <3>4, <4>3 DEF PairOK
    <3> QED BY <3>3, <3>4
  <2> QED BY <1>9, <2>6, <2>7 DEF BridgesInv
<1>15. CASE h.from = AtR(p)
  <2>1. way' \in [N!End -> Items] /\ \A f \in N!End \ {AtL(p)} : way'[f] = way[f]
    BY <1>6, <1>7, <1>8, <1>15, NetFacts, PortEnds, TellFacts DEF CablesOK
  <2>2. way'[AtL(p)] = IF In(p) THEN Append(way[AtL(p)], d) ELSE way[AtL(p)]
    BY <1>6, <1>7, <1>8, <1>12, <1>15, NetFacts, PortEnds, TellFacts DEF CablesOK, In
  <2>3. QueuesOK' BY <1>3, <2>1 DEF QueuesOK
  <2>4. WaysOK'
    <3> SUFFICES ASSUME NEW q \in Port
                 PROVE  /\ Ends(way'[AtL(q)], attrL[q].link_status, In(q), mngr)
                        /\ "R" \in alive => Ends(way'[AtR(q)], attrR[q].link_status,
                                                 In(q), mngr)
      BY <1>1, <1>9, <1>10 DEF WaysOK
    <3>1. way'[AtR(q)] = way[AtR(q)] BY <2>1, PortEnds
    <3>2. CASE way'[AtL(q)] = way[AtL(q)] BY <3>1, <3>2, NetFacts DEF WaysOK
    <3>3. CASE way'[AtL(q)] = Append(way[AtL(q)], d)
      <4>1. Ends(way[AtL(q)], attrL[q].link_status, In(q), mngr) BY NetFacts DEF WaysOK
      <4>2. /\ way[AtL(q)] \in Items /\ attrL[q].link_status \in BOOLEAN
            /\ In(q) \in BOOLEAN /\ mngr \in BOOLEAN
        BY NetFacts
      <4>3. Ends(Append(way[AtL(q)], d), attrL[q].link_status, In(q), mngr)
        BY <1>6, <4>1, <4>2, EndsTold, Zenon
      <4> QED BY <3>1, <3>3, <4>3, NetFacts DEF WaysOK
    <3> QED BY <2>1, <2>2, <3>2, <3>3, PortEnds, Zenon
  <2>5. GoneOK'
    <3>1. \A q \in Port : way'[AtR(q)] = way[AtR(q)] BY <2>1, PortEnds
    <3> QED BY <1>1, <1>9, <3>1, NetFacts DEF GoneOK
  <2>6. NetOK' BY <1>1, <1>11, <2>3, <2>4, <2>5, NetFacts DEF NetOK
  <2>7. ASSUME NEW q \in Port PROVE PairOK(q)'
    <3>1. way'[AtR(q)] = way[AtR(q)] /\ Latest(sent', AtL(q)) = Latest(sent, AtL(q))
      BY <1>4, <1>15, <2>1, PortEnds
    <3>2. PairOK(q) BY NetFacts
    <3>3. CASE q # p
      <4>1. way'[AtL(q)] = way[AtL(q)] /\ Latest(sent', AtR(q)) = Latest(sent, AtR(q))
        BY <1>4, <1>15, <2>1, <3>3, PortEnds
      <4> QED BY <1>9, <1>10, <3>1, <3>2, <4>1 DEF PairOK
    <3>4. CASE q = p
      <4>1. \/ Latest(sent', AtR(p)) = Latest(sent, AtR(p)) /\ Latest(sent, AtR(p)) # {}
            \/ Latest(sent', AtR(p)) = {} /\ Latest(sent, AtR(p)) = {d.pdu}
        BY <1>4, <1>6, <1>15
      <4>2. \/ ~In(p) /\ LastItem(way'[AtL(p)]) = LastItem(way[AtL(p)])
            \/ LastItem(way'[AtL(p)]) = {d}
        <5>1. CASE In(p) BY <1>6, <2>2, <5>1, NetFacts, WayFacts
        <5> QED BY <2>2, <5>1
      <4>3. Pair(In(p), Latest(sent, AtR(p)), Latest(sent, AtL(p)), LastItem(way[AtR(p)]),
                 LastItem(way[AtL(p)]), portR[p], portL[p])
        BY <3>2, <3>4, PairTurns DEF PairOK
      <4>4. Pair(In(p), Latest(sent', AtR(p)), Latest(sent, AtL(p)), LastItem(way[AtR(p)]),
                 LastItem(way'[AtL(p)]), portR[p], portL[p])
        BY <1>6, <4>1, <4>2, <4>3, PairRoutes
      <4>5. Pair(In(p), Latest(sent, AtL(p)), Latest(sent', AtR(p)),
                 LastItem(way'[AtL(p)]), LastItem(way[AtR(p)]), portL[p], portR[p])
        BY <4>4, PairTurns
      <4> QED BY <1>9, <1>10, <3>1, <3>4, <4>5 DEF PairOK
    <3> QED BY <3>3, <3>4
  <2> QED BY <1>9, <2>6, <2>7 DEF BridgesInv
<1> QED BY <1>13, <1>14, <1>15
=============================================================================
