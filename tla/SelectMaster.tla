---------------------------- MODULE SelectMaster ----------------------------
(***************************************************************************)
(* The second loop of select_master_port (lacp_sel.c), one port of the list   *)
(* a step, against the definition Master that module Lacp uses: for every    *)
(* order of the list the loop ends with the best candidate.  A port is       *)
(* reduced to what the loop reads of it.                                    *)
(***************************************************************************)
EXTENDS LacpSelection, SequencesExt

CONSTANTS SpeedsSeen, PriosSeen     \* the speeds and priorities tried

ASSUME SeenAssumption == SpeedsSeen \subseteq Nat /\ PriosSeen \subseteq Nat

\* No port: the NULL that best starts from.
Null == -1

VARIABLES
    f,      \* the ports of the list
    list,   \* the list not yet visited
    best

lvars == <<f, list, best>>

Seen(p) ==
    {[speed |-> v, duplex |-> TRUE, port_enabled |-> up, lacp_enabled |-> TRUE,
      actor |-> [port_priority |-> n, port_no |-> p + 1, state |-> s]] :
         v \in SpeedsSeen, n \in PriosSeen, up \in BOOLEAN, s \in {{}, {"DEF"}}}

\* A faulty variant of the test below: a slower port is not passed over.
Replaces_SlowerToo(a, b) ==
    IF a.speed > b.speed THEN TRUE
    ELSE IF a.actor.port_priority < b.actor.port_priority THEN TRUE
    ELSE IF a.actor.port_priority > b.actor.port_priority THEN FALSE
    ELSE IF ~Bit(a.actor, "DEF") /\ Bit(b.actor, "DEF") THEN TRUE
    ELSE IF Bit(a.actor, "DEF") /\ ~Bit(b.actor, "DEF") THEN FALSE
    ELSE a.actor.port_no < b.actor.port_no

\* The chain of tests that decides whether candidate a replaces best b, in the
\* order of the code.
Replaces(a, b) ==
    IF a.speed > b.speed THEN TRUE
    ELSE IF a.speed < b.speed THEN FALSE
    ELSE IF a.actor.port_priority < b.actor.port_priority THEN TRUE
    ELSE IF a.actor.port_priority > b.actor.port_priority THEN FALSE
    ELSE IF ~Bit(a.actor, "DEF") /\ Bit(b.actor, "DEF") THEN TRUE
    ELSE IF Bit(a.actor, "DEF") /\ ~Bit(b.actor, "DEF") THEN FALSE
    ELSE a.actor.port_no < b.actor.port_no

LoopInit ==
    /\ f \in {g \in [Port -> UNION {Seen(p) : p \in Port}] :
                 \A p \in Port : g[p] \in Seen(p)}
    /\ list \in SetToSeqs(Port)
    /\ best = Null

Skip ==
    /\ list # <<>> /\ Head(list) \notin Candidates(f, Port)
    /\ list' = Tail(list) /\ UNCHANGED <<f, best>>

Visit ==
    /\ list # <<>> /\ Head(list) \in Candidates(f, Port)
    /\ best' = IF best = Null \/ Replaces(f[Head(list)], f[best])
               THEN Head(list) ELSE best
    /\ list' = Tail(list) /\ UNCHANGED f

LoopNext == Skip \/ Visit
LoopSpec == LoopInit /\ [][LoopNext]_lvars

\* When the loop ends it has the best candidate, if there is one, in whatever
\* order it has met the ports.
LoopFindsMaster ==
    list = <<>> =>
       best = IF Candidates(f, Port) = {} THEN Null ELSE Master(f, Candidates(f, Port))
=============================================================================
