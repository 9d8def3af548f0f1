-------------------------- MODULE MCTopicGenerator --------------------------
(* An instance of TopicGenerator for TLC: two categories that share a       *)
(* headline, which falls into two batches, the second of them a partial     *)
(* one.  A completion may have more topics than its batch headlines, one of *)
(* them (u3) of no headline, and takes two writes then.                     *)
EXTENDS TopicGenerator

CONSTANTS u1, u2, u3

MCHeadlines == <<<<u1>>, <<u2, u1>>>>

=============================================================================
