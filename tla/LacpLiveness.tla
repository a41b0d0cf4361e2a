---------------------------- MODULE LacpLiveness ----------------------------
(***************************************************************************)
(* What a bridge does in time.  A call that has begun goes on (the program   *)
(* is one thread), and seconds pass: main_loop of bridge.c calls             *)
(* lacp_one_second whenever select finds no input at the end of a second.    *)
(* Input arrives at a finite rate, so that happens again and again even     *)
(* though other calls come in between: strong fairness.                     *)
(***************************************************************************)
EXTENDS LacpSafety

FairSpec == Spec /\ WF_vars(Update \/ Continue) /\ SF_vars(OneSecond)

\* Every call returns: the loop of lacp_sys_update reaches a state in which no
\* machine has a transition to take.
CallReturns == pc # "idle" ~> pc = "idle"

\* A port whose partner has gone silent for good stops carrying traffic for good,
\* whatever the partner's last LACPDU said.
SilentPartnerIsDropped ==
    \A p \in Port :
       <>[](~port[p].msg.rcvd) => <>[](Idle /\ p \in Listed => ~attr[p].cd)

\* A port that stays selected for use with a partner that stays in sync ends up
\* carrying traffic for good, whatever the other ports of its group do.
StableLinkCarriesTraffic ==
    \A p \in Port :
       <>[](p \in Listed /\ InUse(port[p]) /\ Bit(port[p].partner, "SYN"))
         => <>[](attr[p].cd)

\* A port that may transmit does so again and again: its partner never times it
\* out for lack of LACPDUs.
KeepsReporting ==
    \A p \in Port : <>[](~TxSilent(port[p])) => []<>(port[p].tx = "TX")
=============================================================================
