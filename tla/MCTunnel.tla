------------------------------ MODULE MCTunnel ------------------------------
(* Instances of Tunnel for TLC. *)
EXTENDS Tunnel

(* Chains of every length, and the usual one with obfuscation. *)
AllChains == {<<0, FALSE>>, <<1, FALSE>>, <<2, FALSE>>, <<1, TRUE>>}
=============================================================================
