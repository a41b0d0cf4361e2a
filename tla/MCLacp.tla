------------------------------- MODULE MCLacp -------------------------------
(* Instances of Lacp for TLC: its constants get their values in the .cfg files,
   from MCValues where they are records. *)
EXTENDS LacpLiveness, MCValues
=============================================================================
