----------------------------- MODULE MCPackets ------------------------------
(***************************************************************************)
(* Packets on lines of each kind, with as many faults as the protocol      *)
(* bears.                                                                  *)
(***************************************************************************)
EXTENDS Packets

MCMaxFaults == [kind \in Lines |-> Bearable(kind)]
=============================================================================
