------------------------- MODULE MCSummaryConsumer -------------------------
(* Instances of SummaryConsumer for TLC.  A rebalance hands contents out a  *)
(* second time; MCOneLog also repeats one in the topic, as a publish does   *)
(* that was reported as failed and had succeeded.                           *)
EXTENDS SummaryConsumer, TLC

CONSTANTS c1, c2, p1, p2

MCLog == (p1 :> <<c1, c2>>) @@ (p2 :> <<Malformed>>)
MCOneLog == (p1 :> <<c1, c2, c1>>)
MCDistinctLog == (p1 :> <<c1, c2>>)
MCContentID == {c1, c2}
=============================================================================
