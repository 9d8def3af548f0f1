------------------------ MODULE MCRawContentConsumer ------------------------
(* An instance of RawContentConsumer for TLC: a value that does not parse,  *)
(* two short texts and a long one.  The short ones fill a buffer, or go out *)
(* one by one at ticks while the main goroutine sends the long one; a       *)
(* rebalance hands them out again.                                          *)
EXTENDS RawContentConsumer, TLC

CONSTANTS c1, c2, c3, p1

MCLog == p1 :> <<Malformed, c1, c3, c2>>

=============================================================================
