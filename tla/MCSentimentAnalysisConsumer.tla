--------------------- MODULE MCSentimentAnalysisConsumer ---------------------
(* Instances of SentimentAnalysisConsumer for TLC.  A content that comes a  *)
(* second time, first in one list and later in another, lets the consumer   *)
(* find the message it left behind.                                         *)
EXTENDS SentimentAnalysisConsumer, TLC

CONSTANTS c1, c2, c3, p1, p2

MCLog == (p1 :> <<<<c1, c2>>, <<c3, c1>>>>) @@ (p2 :> <<Malformed>>)
MCContentID == {c1, c2, c3}

=============================================================================
