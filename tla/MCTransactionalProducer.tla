----------------------- MODULE MCTransactionalProducer -----------------------
(* Instances of TransactionalProducer for TLC: one caller, as in the        *)
(* processes that publish from a single goroutine, and the two of the raw   *)
(* content consumer.                                                        *)
EXTENDS TransactionalProducer

CONSTANTS main, sender

OneCaller == {main}
TwoCallers == {main, sender}
=============================================================================
