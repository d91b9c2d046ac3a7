----------------------------- MODULE MCResolver ------------------------------
(* Small instances of Resolver: q1 and q2 ask for the same name. *)
EXTENDS Resolver, TLC

CONSTANTS q1, q2, n1, l1, l2, r1, r2, f1

MCNameOf == [q \in Queries |-> n1]
MCIsDirect == [o \in Outbounds |-> o # "proxy"]
NoAnswerTTL == -1

=============================================================================
