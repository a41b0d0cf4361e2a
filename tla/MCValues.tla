------------------------------ MODULE MCValues ------------------------------
(* Values for the constants of Lacp in the instances TLC checks. *)
CONSTANTS own, m1, m2, zero

MCMac == {own, m1, m2, zero}
MCOwnMac == {own}

Far(mac, key, no, bits) ==
    [system_priority |-> 32768, system_mac |-> mac, key |-> key,
     port_priority |-> 16384, port_no |-> no, state |-> bits]

\* A partner that can aggregate and is in sync.
InSync(mac, no) == Far(mac, 1, no, {"ACT", "AGG", "SYN"})
\* One that cannot.
Individual(mac, no) == Far(mac, 1, no, {"ACT", "SYN"})

OnlyInSync == {InSync(m1, 1)}
\* What a partner says that has heard nothing yet: all zero.
NothingYet ==
    {[system_priority |-> 0, system_mac |-> zero, key |-> 0, port_priority |-> 0,
      port_no |-> 0, state |-> {}]}

\* The ports 0 and 1 of this bridge in group 1, at full speed, as partners.
Ourselves ==
    {Far(own, 259, no, {"ACT", "AGG", "SYN"}) : no \in {1, 2}}

ThreeFaces == {InSync(m1, 1), InSync(m2, 1), Individual(m1, 1)}
=============================================================================
