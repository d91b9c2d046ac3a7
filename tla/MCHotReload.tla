----------------------------- MODULE MCHotReload -----------------------------
(* Small instances of HotReload.  The configurations:                       *)
(*   c0  one outbound "a" behind a default rule, inbound k1                 *)
(*   c1  t1 goes to a new outbound "b", inbound k1 replaced by k2, which    *)
(*       listens on the same port with another protocol                     *)
(*   c2  both targets go to the group "g", "b" has moved into it, inbound   *)
(*       k1 is back with other settings, and k3 is served by QUIC           *)
EXTENDS HotReload, TLC

CONSTANTS c0, c1, c2, k1, k2, k3, t1, t2

Rule(match, outbound, group) == [match |-> match, outbound |-> outbound, group |-> group]

MCOutboundsOf == c0 :> <<"a">> @@ c1 :> <<"b", "a">> @@ c2 :> <<"b">>

MCGroupOf ==
  c0 :> ("a" :> "g" @@ "b" :> "g" @@ "default" :> "g")
    @@ c1 :> ("a" :> "h" @@ "b" :> "h" @@ "default" :> "h")
    @@ c2 :> ("a" :> "g" @@ "b" :> "g" @@ "default" :> "g")

MCRulesOf ==
  c0 :> <<Rule({t1, t2}, "a", "g")>>
    @@ c1 :> <<Rule({t1}, "b", "h"), Rule({t1, t2}, "a", "h")>>
    @@ c2 :> <<Rule({t1}, NoName, "g"), Rule({t2}, "b", "g")>>

MCKindOf == k1 :> "loop" @@ k2 :> "http" @@ k3 :> "npchain"
MCPortOf == k1 :> 1 @@ k2 :> 1 @@ k3 :> 2
MCInboundsOf == c0 :> (k1 :> "x") @@ c1 :> (k2 :> "x") @@ c2 :> (k1 :> "y" @@ k3 :> "x")

=============================================================================
