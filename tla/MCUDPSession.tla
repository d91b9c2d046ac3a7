---------------------------- MODULE MCUDPSession -----------------------------
(* Small instances of UDPSession: readers of their own keys (UDP forward    *)
(* and UDP range), or that share one (socks5 associations of one client).   *)
EXTENDS UDPSession

CONSTANTS r1, r2, k1, k2, Shared

MCKeysOf == [r \in Readers |-> IF Shared \/ r = r1 THEN {k1} ELSE {k2}]

=============================================================================
