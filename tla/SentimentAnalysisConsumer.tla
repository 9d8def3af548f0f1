---------------------- MODULE SentimentAnalysisConsumer ----------------------
(***************************************************************************)
(* internal/consumers/sentiment_analysis_consumer.go.                      *)
(*                                                                         *)
(* A message of "sentiment-request" is a list of contents.  The goroutine  *)
(* tracks it under the FIRST of them only, asks for the scores of all, and *)
(* publishes the results of all in one message to "sentiment-results";     *)
(* then it commits whatever message the map holds for any of the contents. *)
(* An unhealthy analyzer, or a failed request, leaves the message behind   *)
(* uncommitted but tracked, and the goroutine reads the next.              *)
(***************************************************************************)
EXTENDS KafkaConsumer, HuggingFaceClient, Functions

CONSTANTS
    Malformed     \* a value that is not a list of contents in JSON

(* No consumer publishes an empty list, of which requests[0] would panic.   *)
ASSUME SentimentAssumption ==
    /\ \A p \in Partition : Log[p] \in Seq(Seq(ContentID) \cup {Malformed})
    /\ \A p \in Partition : <<>> \notin {Log[p][o] : o \in 1 .. Len(Log[p])}
    /\ Malformed \notin Seq(ContentID)

VARIABLES
    pc,          \* where the goroutine is
    requests,    \* the contents of the message it handles
    batch,       \* the results being published, then committed
    attempt,     \* which of its three attempts to publish it makes
    outcome      \* history: what became of each content, over all restarts

vars == <<kafkaVars, clientVars, pc, requests, batch, attempt, outcome>>

PublishAttempts == 3

(* "skipped": the analyzer was unhealthy; "failed": it gave no answer;      *)
(* "unscored": the answer has no score for the content, whose result goes   *)
(* out with zeroes; "published", "abandoned": as PublishToKafka reported.   *)
Outcome == {"skipped", "failed", "unscored", "published", "abandoned"}

Note(C, what) ==
    outcome' = [c \in ContentID |->
                  IF c \in C THEN outcome[c] \cup {what} ELSE outcome[c]]

Init ==
    /\ KafkaInit
    /\ ClientInit
    /\ pc = "read"
    /\ requests = <<>>
    /\ batch = <<>>
    /\ attempt = 1
    /\ outcome = [c \in ContentID |-> {}]

-----------------------------------------------------------------------------
(* Mistakes this code could have made.  No action uses them: each stands in *)
(* for the definition its name recalls, to see that a property notices.     *)

(* an error ends the publish loop, the commits follow                       *)
PublishRetryBreaks ==
    /\ pc = "publish"
    /\ pc' = "commit"
    /\ UNCHANGED <<kafkaVars, clientVars, requests, batch, attempt, outcome>>

(* results only for the contents that have a score                          *)
ResultsScoredOnly(scored) == SelectSeq(requests, LAMBDA c : c \in scored)

-----------------------------------------------------------------------------
(* A read that fails is logged and tried again; a value that does not parse *)
(* is dropped.                                                              *)
ReceiveMalformed(p) ==
    /\ pc = "read"
    /\ HasNext(p)
    /\ Value(NextMessage(p)) = Malformed
    /\ Advance(p)
    /\ UNCHANGED <<committed, messageMap, faults, clientVars, pc, requests,
                   batch, attempt, outcome>>

(* utils.TrackMessage(requests[0].ContentID, msg), then the health check.   *)
ReceiveHealthy(p) ==
    LET m == NextMessage(p)
    IN  /\ pc = "read"
        /\ HasNext(p)
        /\ Value(m) # Malformed
        /\ healthy
        /\ Advance(p)
        /\ TrackMessage(Head(Value(m)), m)
        /\ requests' = Value(m)
        /\ pc' = "request"
        /\ UNCHANGED <<committed, faults, clientVars, batch, attempt, outcome>>

ReceiveUnhealthy(p) ==
    LET m == NextMessage(p)
    IN  /\ pc = "read"
        /\ HasNext(p)
        /\ Value(m) # Malformed
        /\ ~healthy
        /\ Advance(p)
        /\ TrackMessage(Head(Value(m)), m)
        /\ Note(Range(Value(m)), "skipped")
        /\ UNCHANGED <<committed, faults, clientVars, pc, requests, batch,
                       attempt>>

(* GetBatchedSentimentAnalysis.  An answer is a list; what a refusal holds  *)
(* is none, and does not parse as one.                                      *)
ScoresRequestAgain ==
    /\ pc = "request"
    /\ RequestAgain
    /\ UNCHANGED <<kafkaVars, pc, requests, batch, attempt, outcome>>

(* It returned an error.                                                    *)
ScoresFailed ==
    /\ pc = "request"
    /\ RequestsUsedUp \/ Refused
    /\ Note(Range(requests), "failed")
    /\ requests' = <<>>
    /\ pc' = "read"
    /\ UNCHANGED <<kafkaVars, batch, attempt>>

(* It returned scores: every content gets a result, with or without one.    *)
(* resultBuffer is filled here and emptied at once by GetAndClear.          *)
ResultsOf(scored) == requests

ScoresArrive(scored) ==
    /\ pc = "request"
    /\ Answered
    /\ scored \subseteq Range(requests)
    /\ batch' = ResultsOf(scored)
    /\ Note(Range(requests) \ scored, "unscored")
    /\ requests' = <<>>
    /\ pc' = IF batch' = <<>> THEN "read" ELSE "publish"
    /\ UNCHANGED <<kafkaVars, attempt>>

-----------------------------------------------------------------------------
(* sendResultsForStorage.                                                   *)
PublishOk ==
    /\ pc = "publish"
    /\ Note(Range(batch), "published")
    /\ attempt' = 1
    /\ pc' = "commit"
    /\ UNCHANGED <<kafkaVars, clientVars, requests, batch>>

PublishRetry ==
    /\ pc = "publish"
    /\ attempt < PublishAttempts
    /\ attempt' = attempt + 1
    /\ UNCHANGED <<kafkaVars, clientVars, pc, requests, batch, outcome>>

PublishGiveUp ==
    /\ pc = "publish"
    /\ attempt = PublishAttempts
    /\ Note(Range(batch), "abandoned")
    /\ attempt' = 1
    /\ pc' = "commit"
    /\ UNCHANGED <<kafkaVars, clientVars, requests, batch>>

NextResult ==
    /\ batch' = Tail(batch)
    /\ pc' = IF Len(batch) > 1 THEN "commit" ELSE "read"

(* Any content of the batch can find a message: this one under its first    *)
(* content, or an earlier one that was left behind under another.           *)
CommitTracked ==
    LET c == Head(batch)
    IN  /\ pc = "commit"
        /\ messageMap[c] # NoMessage
        /\ Commit(messageMap[c])
        /\ Untrack(c)
        /\ NextResult
        /\ UNCHANGED <<position, faults, start, reach, clientVars, requests,
                       attempt, outcome>>

NothingTracked ==
    /\ pc = "commit"
    /\ messageMap[Head(batch)] = NoMessage
    /\ NextResult
    /\ UNCHANGED <<kafkaVars, clientVars, requests, attempt, outcome>>

-----------------------------------------------------------------------------
(* The environment: monitor and service, kills, reassignments.              *)
consumerVars == <<kafkaVars, pc, requests, batch, attempt, outcome>>

MonitorAnalyzerHealth == (HealthCheck \/ StoreHealth) /\ UNCHANGED consumerVars

AnalyzerChanges == ServiceChanges /\ UNCHANGED consumerVars

Restart ==
    /\ KafkaRestart
    /\ ClientRestart
    /\ pc' = "read"
    /\ requests' = <<>>
    /\ batch' = <<>>
    /\ attempt' = 1
    /\ UNCHANGED outcome

Rebalance ==
    /\ pc = "read"
    /\ KafkaRebalance
    /\ UNCHANGED <<clientVars, pc, requests, batch, attempt, outcome>>

Loop ==
    \/ \E p \in Partition :
          ReceiveMalformed(p) \/ ReceiveHealthy(p) \/ ReceiveUnhealthy(p)
    \/ ScoresRequestAgain
    \/ ScoresFailed
    \/ \E scored \in SUBSET Range(requests) : ScoresArrive(scored)
    \/ PublishOk
    \/ PublishRetry
    \/ PublishGiveUp
    \/ CommitTracked
    \/ NothingTracked

Next ==
    \/ Loop
    \/ MonitorAnalyzerHealth
    \/ AnalyzerChanges
    \/ Restart
    \/ Rebalance

Spec == Init /\ [][Next]_vars

(* The goroutine runs, every retry loop is bounded and every request has a  *)
(* timeout.                                                                 *)
FairSpec == Spec /\ WF_vars(Loop)

-----------------------------------------------------------------------------
TypeOK ==
    /\ KafkaTypeOK
    /\ ClientTypeOK
    /\ pc \in {"read", "request", "publish", "commit"}
    /\ requests \in Seq(ContentID)
    /\ batch \in Seq(ContentID)
    /\ attempt \in 1 .. PublishAttempts
    /\ outcome \in [ContentID -> SUBSET Outcome]

Listed(p, o) == IF Log[p][o] = Malformed THEN {} ELSE Range(Log[p][o])

InMemory == Range(requests) \cup Range(batch)

Held(c) == c \in InMemory

(* A content for which there is no more to be done: its result went out, or *)
(* was given up after three attempts.                                       *)
Settled(c) == outcome[c] \cap {"published", "abandoned"} # {}

(* A message is dealt with as a whole: of the contents it lists, the ones   *)
(* without a score included, either all have a result or none is passed on. *)
(* So no content of a message handed out is ever without an end.            *)
NoContentVanishes ==
    \A p \in Partition : \A o \in HandedOut(p) :
        \A c \in Listed(p, o) :
            Held(c) \/ outcome[c] \cap (Outcome \ {"unscored"}) # {}

(* The map is keyed by a message's first content, and looked up with every  *)
(* content of a batch.  Whatever message that finds, its first content has  *)
(* a settled result, so the group's committed offset is never of a message  *)
(* the consumer merely skipped (nothing is said of its other contents: a    *)
(* message left behind is committed when its first content comes again).    *)
CommittedFirstWasSettled ==
    \A p \in Partition :
        committed[p] > 0 => Settled(Head(Log[p][committed[p]]))

(* Every content of a message past the committed offset is to be handed out *)
(* (again), in memory, or has met its end, across restarts and rebalances.  *)
UncommittedIsRecoverable ==
    \A p \in Partition : \A o \in committed[p] + 1 .. Len(Log[p]) :
        \/ o > position[p]
        \/ \A c \in Listed(p, o) :
             Held(c) \/ outcome[c] \cap (Outcome \ {"unscored"}) # {}

(* Whatever the analyzer, its health flag and the producer do, and however  *)
(* often messages are handed out again, the goroutine comes to the end of   *)
(* its partitions and waits there with nothing in hand.                     *)
ReachesTheEnd ==
    <>[](/\ pc = "read"
         /\ \A p \in Partition : ~HasNext(p))

MessageContents ==
    [p \in Partition |-> [o \in 1 .. Len(Log[p]) |-> Listed(p, o)]]

SettledContents == {c \in ContentID : Settled(c)}

DroppedContents ==
    {c \in ContentID : outcome[c] \cap {"skipped", "failed"} # {}}

(* The consumer is a ConsumerContract that drops what the analyzer did not  *)
(* answer: whatever message the map holds for a content of a batch, this    *)
(* process was handed it, and a content of it is settled.                   *)
Consumer == INSTANCE ConsumerContract WITH
    Contents <- MessageContents,
    next <- position,
    acked <- committed,
    taken <- Taken,
    held <- InMemory,
    settled <- SettledContents,
    dropped <- DroppedContents

ImplementsConsumer == Consumer!Spec

-----------------------------------------------------------------------------
(* The inductive invariant of the proofs.                                   *)

(* Between two messages the goroutine has nothing in hand.                  *)
BatchShape ==
    /\ pc # "request" => requests = <<>>
    /\ pc \in {"publish", "commit"} <=> batch # <<>>

(* A commit comes after the publish loop, which speaks for the whole batch. *)
SettledBeforeCommit == pc = "commit" => Range(batch) \subseteq SettledContents

(* The map holds a message under the first content it lists.                *)
TrackedFirst ==
    \A c \in ContentID :
        LET m == messageMap[c]
        IN  m # NoMessage => Value(m) # Malformed /\ Head(Value(m)) = c

(* Only a message that lists contents is ever committed.                    *)
CommittedParses ==
    \A p \in Partition : committed[p] > 0 => Log[p][committed[p]] # Malformed

Bookkeeping ==
    /\ TypeOK
    /\ BatchShape
    /\ SettledBeforeCommit
    /\ OffsetOrder
    /\ TrackedInHand
    /\ TrackedFirst
    /\ CommittedParses
    /\ CommittedFirstWasSettled

IInv == Bookkeeping /\ Consumer!Kept

=============================================================================
