----------------------------- MODULE MCTunnelServer -----------------------------
(* TLC instances of TunnelServer. Three connections compete for one key; handlers
   of different keys share nothing but the locks. *)
EXTENDS TunnelServer

MCKeys == {"k"}
MCHostID == [x \in MCKeys |-> x]
================================================================================
