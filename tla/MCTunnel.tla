------------------------------ MODULE MCTunnel ------------------------------
(* Instances of the tunnel for TLC.                                        *)
EXTENDS Tunnel
=============================================================================
