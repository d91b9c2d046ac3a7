-------------------------------- MODULE MCMux --------------------------------
(* Small instances of Mux: one call of Write, or two. *)
EXTENDS Mux

CONSTANTS First, Second     \* lengths of the calls, Second = 0: only one

MCEnds == IF Second = 0 THEN <<First>> ELSE <<First, First + Second>>

=============================================================================
