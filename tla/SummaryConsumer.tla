--------------------------- MODULE SummaryConsumer ---------------------------
(***************************************************************************)
(* internal/consumers/summary_consumer.go.                                 *)
(*                                                                         *)
(* One goroutine reads "summary-request" into summaryBuffer; the ticker,   *)
(* or a buffer that has grown PAST BATCH_SIZE, makes it process the batch: *)
(* nothing while the summarizer is unhealthy, else calls for the summaries *)
(* of the whole batch until one returns without an error, then one publish *)
(* to "sentiment-request" and one commit for each summary of good quality. *)
(* The health flag belongs to another goroutine (HuggingFaceClient).       *)
(*                                                                         *)
(* The goroutine owns its buffer and the map, so what it does between two  *)
(* calls to the outside (read, request, publish, commit) is one step.      *)
(***************************************************************************)
EXTENDS KafkaConsumer, HuggingFaceClient, Subsequences

CONSTANTS
    Malformed,     \* a value that is not a SentimentAnalysisInput in JSON
    BATCH_SIZE,    \* utils.BATCH_SIZE
    SummaryCalls   \* for one batch: three rounds of ten in the code

ASSUME SummaryAssumption ==
    /\ \A p \in Partition : Log[p] \in Seq(ContentID \cup {Malformed})
    /\ Malformed \notin ContentID
    /\ {BATCH_SIZE, SummaryCalls} \subseteq Nat \ {0}

VARIABLES
    buffer,      \* summaryBuffer
    pc,          \* where the goroutine is
    batch,       \* the batch whose summaries are requested
    summarized,  \* summarizedSAInputs still to be published or committed
    attempt,     \* which call for the summaries, or attempt to publish
    outcome      \* history: what became of each content, over all restarts

vars == <<kafkaVars, clientVars, buffer, pc, batch, summarized, attempt, outcome>>

PublishAttempts == 3

(* "published": PublishToKafka returned nil; "abandoned": three publishes   *)
(* failed; "lowValue": no summary, or the text itself; "refused": the same, *)
(* but because the whole batch was turned down; "failed": no call for its   *)
(* batch returned anything.                                                 *)
Outcome == {"published", "abandoned", "lowValue", "refused", "failed"}

Note(C, what) ==
    outcome' = [c \in ContentID |->
                  IF c \in C THEN outcome[c] \cup {what} ELSE outcome[c]]

Init ==
    /\ KafkaInit
    /\ ClientInit
    /\ buffer = <<>>
    /\ pc = "select"
    /\ batch = <<>>
    /\ summarized = <<>>
    /\ attempt = 1
    /\ outcome = [c \in ContentID |-> {}]

-----------------------------------------------------------------------------
(* Mistakes this code could have made.  No action uses them: each stands in *)
(* for the definition its name recalls, to see that a property notices.     *)

FullLater(b) == Len(b) > BATCH_SIZE + 1

(* GetAndClear before the health check                                      *)
ClearUnhealthy ==
    /\ pc = "process"
    /\ ~healthy
    /\ buffer' = <<>>
    /\ pc' = "select"
    /\ UNCHANGED <<kafkaVars, clientVars, batch, summarized, attempt, outcome>>

(* an error ends the publish loop, the commit follows                       *)
PublishRetryBreaks ==
    /\ pc = "publish"
    /\ pc' = "commit"
    /\ UNCHANGED <<kafkaVars, clientVars, buffer, batch, summarized, attempt,
                   outcome>>

-----------------------------------------------------------------------------
Tick ==
    /\ pc = "select"
    /\ pc' = "process"
    /\ UNCHANGED <<kafkaVars, clientVars, buffer, batch, summarized, attempt,
                   outcome>>

EnterRead ==
    /\ pc = "select"
    /\ pc' = "read"
    /\ UNCHANGED <<kafkaVars, clientVars, buffer, batch, summarized, attempt,
                   outcome>>

ReadError ==
    /\ pc = "read"
    /\ pc' = "select"
    /\ UNCHANGED <<kafkaVars, clientVars, buffer, batch, summarized, attempt,
                   outcome>>

ReceiveMalformed(p) ==
    /\ pc = "read"
    /\ HasNext(p)
    /\ Value(NextMessage(p)) = Malformed
    /\ Advance(p)
    /\ pc' = "select"
    /\ UNCHANGED <<committed, messageMap, faults, clientVars, buffer, batch,
                   summarized, attempt, outcome>>

(* summaryBuffer.Size() > utils.BATCH_SIZE, asked after the Add.            *)
Full(b) == Len(b) > BATCH_SIZE

Receive(p) ==
    LET m == NextMessage(p)
        c == Value(m)
    IN  /\ pc = "read"
        /\ HasNext(p)
        /\ c # Malformed
        /\ Advance(p)
        /\ buffer' = Append(buffer, c)
        /\ TrackMessage(c, m)
        /\ pc' = IF Full(buffer') THEN "process" ELSE "select"
        /\ UNCHANGED <<committed, faults, clientVars, batch, summarized,
                       attempt, outcome>>

-----------------------------------------------------------------------------
(* processSummaryBatch.  An unhealthy summarizer leaves everything where it *)
(* is; otherwise GetAndClear, and nothing more for an empty batch.          *)
SkipUnhealthy ==
    /\ pc = "process"
    /\ ~healthy
    /\ pc' = "select"
    /\ UNCHANGED <<kafkaVars, clientVars, buffer, batch, summarized, attempt,
                   outcome>>

TakeBatch ==
    /\ pc = "process"
    /\ healthy
    /\ batch' = buffer
    /\ buffer' = <<>>
    /\ pc' = IF buffer = <<>> THEN "select" ELSE "summarize"
    /\ UNCHANGED <<kafkaVars, clientVars, summarized, attempt, outcome>>

(* sendBatchForSummary in a loop: a call returns an error when its requests *)
(* are used up, or with an answer that does not parse.                      *)
NoSummaries == RequestsUsedUp \/ Refused

SummariesRequestAgain ==
    /\ pc = "summarize"
    /\ RequestAgain
    /\ UNCHANGED <<kafkaVars, buffer, pc, batch, summarized, attempt, outcome>>

SummariesRetry ==
    /\ pc = "summarize"
    /\ attempt < SummaryCalls
    /\ NoSummaries
    /\ attempt' = attempt + 1
    /\ UNCHANGED <<kafkaVars, buffer, pc, batch, summarized, outcome>>

(* The batch ends without a publish or a commit; its messages stay tracked. *)
LeaveBatch(why) ==
    /\ Note(Range(batch), why)
    /\ batch' = <<>>
    /\ attempt' = 1
    /\ pc' = "select"
    /\ UNCHANGED <<kafkaVars, buffer, summarized>>

(* The last call failed.                                                    *)
SummariesFailed ==
    /\ pc = "summarize"
    /\ attempt = SummaryCalls
    /\ NoSummaries
    /\ LeaveBatch("failed")

(* A refusal is a JSON object, and so is the answer: it reads as an answer  *)
(* without summaries, and there is no other call.                           *)
SummariesRefused ==
    /\ pc = "summarize"
    /\ Refused
    /\ LeaveBatch("refused")

(* The answer holds a summary of good quality for the contents in good; any *)
(* other content of the batch is skipped and never committed by name.       *)
SummariesArrive(good) ==
    /\ pc = "summarize"
    /\ Answered
    /\ good \subseteq Range(batch)
    /\ summarized' \in Picked(batch, {i \in DOMAIN batch : batch[i] \in good})
    /\ Note(Range(batch) \ good, "lowValue")
    /\ batch' = <<>>
    /\ attempt' = 1
    /\ pc' = IF good = {} THEN "select" ELSE "publish"
    /\ UNCHANGED <<kafkaVars, buffer>>

-----------------------------------------------------------------------------
(* sendForAnalysis: publish one content, up to three times, then commit.    *)
PublishOk ==
    /\ pc = "publish"
    /\ Note({Head(summarized)}, "published")
    /\ attempt' = 1
    /\ pc' = "commit"
    /\ UNCHANGED <<kafkaVars, clientVars, buffer, batch, summarized>>

PublishRetry ==
    /\ pc = "publish"
    /\ attempt < PublishAttempts
    /\ attempt' = attempt + 1
    /\ UNCHANGED <<kafkaVars, clientVars, buffer, pc, batch, summarized, outcome>>

PublishGiveUp ==
    /\ pc = "publish"
    /\ attempt = PublishAttempts
    /\ Note({Head(summarized)}, "abandoned")
    /\ attempt' = 1
    /\ pc' = "commit"
    /\ UNCHANGED <<kafkaVars, clientVars, buffer, batch, summarized>>

NextSummary ==
    /\ summarized' = Tail(summarized)
    /\ pc' = IF Len(summarized) > 1 THEN "publish" ELSE "select"

(* GetMessageForContent finds the message tracked LAST for the content, or  *)
(* nothing when an earlier copy of it in the batch has taken it.            *)
CommitTracked ==
    LET c == Head(summarized)
    IN  /\ pc = "commit"
        /\ messageMap[c] # NoMessage
        /\ Commit(messageMap[c])
        /\ Untrack(c)
        /\ NextSummary
        /\ UNCHANGED <<position, faults, start, reach, clientVars, buffer,
                       batch, attempt, outcome>>

NothingTracked ==
    /\ pc = "commit"
    /\ messageMap[Head(summarized)] = NoMessage
    /\ NextSummary
    /\ UNCHANGED <<kafkaVars, clientVars, buffer, batch, attempt, outcome>>

-----------------------------------------------------------------------------
(* The environment: the health monitor and the service, the process killed  *)
(* and started again, the partitions reassigned during a read.              *)
consumerVars == <<kafkaVars, buffer, pc, batch, summarized, attempt, outcome>>

MonitorSummarizerHealth == (HealthCheck \/ StoreHealth) /\ UNCHANGED consumerVars

SummarizerChanges == ServiceChanges /\ UNCHANGED consumerVars

Restart ==
    /\ KafkaRestart
    /\ ClientRestart
    /\ buffer' = <<>>
    /\ pc' = "select"
    /\ batch' = <<>>
    /\ summarized' = <<>>
    /\ attempt' = 1
    /\ UNCHANGED outcome

Rebalance ==
    /\ pc = "read"
    /\ KafkaRebalance
    /\ UNCHANGED <<clientVars, buffer, pc, batch, summarized, attempt, outcome>>

ProcessStep ==
    \/ SkipUnhealthy
    \/ TakeBatch
    \/ SummariesRequestAgain
    \/ SummariesRetry
    \/ SummariesFailed
    \/ SummariesRefused
    \/ \E good \in SUBSET ContentID : SummariesArrive(good)
    \/ PublishOk
    \/ PublishRetry
    \/ PublishGiveUp
    \/ CommitTracked
    \/ NothingTracked

Loop ==
    \/ EnterRead
    \/ \E p \in Partition : Receive(p) \/ ReceiveMalformed(p)
    \/ ProcessStep

Next ==
    \/ Loop
    \/ Tick
    \/ ReadError
    \/ MonitorSummarizerHealth
    \/ SummarizerChanges
    \/ Restart
    \/ Rebalance

Spec == Init /\ [][Next]_vars

(* The goroutines run, every retry loop is bounded and every request has a  *)
(* timeout; nothing makes a tick find the goroutine outside a read.         *)
FairSpec == Spec /\ WF_vars(Loop) /\ WF_vars(MonitorSummarizerHealth)

-----------------------------------------------------------------------------
TypeOK ==
    /\ KafkaTypeOK
    /\ ClientTypeOK
    /\ buffer \in Seq(ContentID)
    /\ pc \in {"select", "read", "process", "summarize", "publish", "commit"}
    /\ batch \in Seq(ContentID)
    /\ summarized \in Seq(ContentID)
    /\ attempt \in 1 .. PublishAttempts \cup 1 .. SummaryCalls
    /\ outcome \in [ContentID -> SUBSET Outcome]

InMemory == Range(buffer) \cup Range(batch) \cup Range(summarized)

Held(c) == c \in InMemory

Settled(c) == outcome[c] \cap {"published", "abandoned"} # {}

(* Whatever the health flag, the ticker and the requests do, a content this *)
(* process was handed is in its memory or has met one of the five ends; in  *)
(* particular a batch that is skipped because the summarizer is unhealthy   *)
(* is not lost.                                                             *)
NoContentVanishes ==
    \A p \in Partition : \A o \in HandedOut(p) :
        Log[p][o] \in ContentID => Held(Log[p][o]) \/ outcome[Log[p][o]] # {}

(* The message at the committed offset belongs to a content whose summary   *)
(* was published or abandoned: neither a failed batch nor a skipped summary *)
(* is ever committed by name, though the map still tracks its messages.     *)
CommittedWasSettled ==
    \A p \in Partition :
        committed[p] > 0 => Settled(Log[p][committed[p]])

(* A message past the committed offset can be handed out again, is in       *)
(* memory, or has met its end -- across restarts and rebalances, so nothing *)
(* is lost but by a later commit of its partition or by its own outcome.    *)
UncommittedIsRecoverable ==
    \A p \in Partition : \A o \in committed[p] + 1 .. Len(Log[p]) :
        \/ o > position[p]
        \/ Log[p][o] = Malformed
        \/ Held(Log[p][o])
        \/ outcome[Log[p][o]] # {}

(* While the summarizer is up every content meets its end, but for at most  *)
(* BATCH_SIZE of them: the goroutine sits in a blocking read and no tick is *)
(* served until the topic has another message.                              *)
UpMeansProgress ==
    [](service = "up") =>
        <>[](/\ Len(buffer) <= BATCH_SIZE
             /\ \A p \in Partition : \A o \in HandedOut(p) :
                  Log[p][o] \in ContentID =>
                    outcome[Log[p][o]] # {} \/ Log[p][o] \in Range(buffer))

(* What an outage leaves in the buffer comes out of it: once the summarizer *)
(* stays up, and if ticks are still served, the monitor sees that it is up  *)
(* and the batches are processed until nothing is left of them.             *)
OutageEnds ==
    (<>[](service = "up") /\ []<><<Tick>>_vars) => []<>(buffer = <<>>)

MessageContents ==
    [p \in Partition |-> [o \in 1 .. Len(Log[p]) |-> {Log[p][o]} \cap ContentID]]

SettledContents == {c \in ContentID : Settled(c)}

DroppedContents ==
    {c \in ContentID : outcome[c] \cap {"lowValue", "refused", "failed"} # {}}

(* The consumer is a ConsumerContract that drops what has no summary: a     *)
(* batch leaves memory, and a message is acknowledged, only with a reason.  *)
Consumer == INSTANCE ConsumerContract WITH
    Contents <- MessageContents,
    next <- position,
    acked <- committed,
    taken <- Taken,
    held <- InMemory,
    settled <- SettledContents,
    dropped <- DroppedContents

ImplementsConsumer == Consumer!Spec

-----------------------------------------------------------------------------
(* summary_consumer.go:52 says "Track Message to commit after processing":  *)
(* what the group has committed was processed, that is summarized and sent  *)
(* on, or found not worth it.                                               *)
CommittedAfterProcessing ==
    \A p \in Partition : \A o \in 1 .. committed[p] :
        Log[p][o] \in ContentID =>
            outcome[Log[p][o]] \cap {"published", "abandoned", "lowValue"} # {}

(* summary_consumer.go:171 says "commit the message to prevent              *)
(* reprocessing": once a message is committed it stays committed, so that a *)
(* restart does not hand it out again.                                      *)
CommitPreventsReprocessing ==
    [][\A p \in Partition : committed'[p] >= committed[p]]_vars

-----------------------------------------------------------------------------
(* The inductive invariant of the proofs.                                   *)

BatchShape ==
    /\ pc # "summarize" => batch = <<>>
    /\ pc \in {"publish", "commit"} <=> summarized # <<>>

(* A commit comes after the publish loop.                                   *)
SettledBeforeCommit == pc = "commit" => Settled(Head(summarized))

TrackedContents ==
    \A c \in ContentID : messageMap[c] # NoMessage => Value(messageMap[c]) = c

Bookkeeping ==
    /\ TypeOK
    /\ BatchShape
    /\ SettledBeforeCommit
    /\ OffsetOrder
    /\ TrackedInHand
    /\ TrackedContents

IInv == Bookkeeping /\ Consumer!Kept /\ Consumer!AckedIsSettled

=============================================================================
