------------------------- MODULE MCResultsConsumer -------------------------
(* Instances of ResultsConsumer for TLC.  With room for two results in an   *)
(* insert, a list of three spans two inserts; another repeats a result,     *)
(* as after a publish that was reported as failed and had succeeded.        *)
EXTENDS ResultsConsumer, TLC

CONSTANTS c1, c2, c3, p1, p2

MCLog == (p1 :> <<<<c1, c2, c3>>, <<c1>>>>) @@ (p2 :> <<Malformed, <<c2>>>>)
MCOneLog == (p1 :> <<<<c1, c2, c3>>, <<c1, c2>>>>)
MCContentID == {c1, c2, c3}

=============================================================================
