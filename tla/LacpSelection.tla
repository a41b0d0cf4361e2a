--------------------------- MODULE LacpSelection ---------------------------
(***************************************************************************)
(* The selection logic of lacp_sel.c as operators on port records: f maps   *)
(* ports to their records, S is the set of ports whose agg_id is that of    *)
(* the group being updated.                                                *)
(***************************************************************************)
EXTENDS LacpMachines

\* trunk_ssp_get_speed_index
SpeedIndex(speed, duplex) ==
    CASE ~duplex -> 0
      [] duplex /\ speed = 10 -> 1
      [] duplex /\ speed = 100 -> 2
      [] duplex /\ speed = 1000 -> 3
      [] duplex /\ speed = 10000 -> 4
      [] OTHER -> 0

\* trunk_ssp_get_port_oper_key: tid << 8 | speed index, 0 out of every group.
OperKey(tid, speed, duplex) ==
    IF tid = 0 THEN 0 ELSE 256 * tid + SpeedIndex(speed, duplex)

\* The ports select_master_port considers.
Candidates(f, S) ==
    {p \in S : f[p].port_enabled /\ f[p].lacp_enabled /\ f[p].duplex}

\* The comparison of select_master_port: faster, then lower priority number,
\* then not defaulted, then lower port number.
Better(a, b) ==
    \/ a.speed > b.speed
    \/ a.speed = b.speed /\
       \/ a.actor.port_priority < b.actor.port_priority
       \/ a.actor.port_priority = b.actor.port_priority /\
          \/ ~Bit(a.actor, "DEF") /\ Bit(b.actor, "DEF")
          \/ (Bit(a.actor, "DEF") <=> Bit(b.actor, "DEF"))
                /\ a.actor.port_no < b.actor.port_no

\* The port the loop of select_master_port ends with, for any order of the
\* list; module SelectMaster checks this against the loop itself.
Master(f, C) == CHOOSE p \in C : \A q \in C : ~Better(f[q], f[p])

\* A faulty variant: a partner among our own ports goes unnoticed.
PartnersAPort_Never(f, S, t) == FALSE

\* partners_aport: the partner of t is a port of our own group with a better
\* identifier than t (two of our ports wired together).
PartnersAPort(f, S, t) ==
    \E q \in S :
       LET a == f[q].actor IN
       /\ a.system_priority = t.partner.system_priority
       /\ a.system_mac = t.partner.system_mac
       /\ a.key = t.partner.key
       /\ a.port_no = t.partner.port_no
       /\ \/ a.port_priority < t.actor.port_priority
          \/ a.port_priority = t.actor.port_priority /\ a.port_no < t.actor.port_no

\* The partner system of two ports as the selection logic compares it.
SameAggregate(i, j) ==
    /\ i.system_priority = j.system_priority
    /\ i.system_mac = j.system_mac
    /\ i.key = j.key

\* The condition under which update_agg_ports_select puts port record t to use
\* beside the master's record m.
Joins(f, S, t, m) ==
    /\ t.port_enabled /\ t.lacp_enabled
    /\ t.actor.key = m.actor.key
    /\ SameAggregate(t.partner, m.partner)
    /\ Bit(t.actor, "AGG") /\ Bit(t.partner, "AGG")
    /\ Bit(m.actor, "AGG") /\ Bit(m.partner, "AGG")
    /\ ~PartnersAPort(f, S, t)

\* The first loop of select_master_port refreshes the operational keys.
RefreshKeys(f, S, key) ==
    [p \in DOMAIN f |->
        IF p \in S THEN [f[p] EXCEPT !.actor.key = key[p]] ELSE f[p]]

\* The last loop of update_agg_ports_select, keys already refreshed.
MarkGroup(f, S) ==
    LET C == Candidates(f, S)
        m == Master(f, C)
        Marked(p) ==
            IF C = {}
            THEN [f[p] EXCEPT !.selected = TRUE, !.standby = TRUE, !.master_port = p]
            ELSE [f[p] EXCEPT !.selected = TRUE,
                              !.standby = ~Joins(f, S, f[p], f[m]),
                              !.master_port = m]
    IN  [p \in DOMAIN f |-> IF p \in S THEN Marked(p) ELSE f[p]]

\* update_agg_ports_select
UpdateAggPortsSelect(f, S, key) == MarkGroup(RefreshKeys(f, S, key), S)
=============================================================================
