------------------------- MODULE RawContentConsumer -------------------------
(***************************************************************************)
(* internal/consumers/raw_content_consumer.go.                             *)
(*                                                                         *)
(* The main goroutine reads "raw-content" and splits it in two: a text     *)
(* longer than SUMMARY_THRESHOLD is published to "summary-request" at      *)
(* once, by the main goroutine itself; a shorter one waits in              *)
(* postBatchBuffer.  The ticker, and a buffer that reached BATCH_SIZE,     *)
(* each spawn a goroutine that empties the buffer, publishes the batch to  *)
(* "sentiment-request" and commits the messages of its contents.  Nothing  *)
(* orders these goroutines among themselves or with the main goroutine.    *)
(*                                                                         *)
(* published[t] holds the contents for which PublishToKafka returned nil.  *)
(* Whether nil means visible to a reader of t is the producer's business.  *)
(***************************************************************************)
EXTENDS KafkaConsumer, Functions

CONSTANTS
    Malformed,     \* a value that is not a RawContent in JSON
    LongContent,   \* contents whose text is longer than SUMMARY_THRESHOLD
    BATCH_SIZE,    \* utils.BATCH_SIZE
    Main,          \* the goroutine of StartRawContentConsumer
    Worker         \* bound: goroutines of sendBatchToKafka alive at a time

ASSUME RawAssumption ==
    /\ \A p \in Partition : Log[p] \in Seq(ContentID \cup {Malformed})
    /\ Malformed \notin ContentID
    /\ LongContent \subseteq ContentID
    /\ BATCH_SIZE \in Nat \ {0}
    /\ Main \notin Worker

VARIABLES
    buffer,      \* postBatchBuffer
    pc,          \* where each goroutine is
    batch,       \* the contents a goroutine still has to handle
    attempt,     \* which of its three attempts to publish a goroutine makes
    loaded,      \* the message GetMessageForContent loaded
    published,   \* per topic, the contents reported as published
    abandoned    \* contents for which the third attempt failed too

goroutineVars == <<pc, batch, attempt, loaded>>
vars == <<kafkaVars, buffer, goroutineVars, published, abandoned>>

Goroutine == {Main} \cup Worker
PublishAttempts == 3

(* Main's places are "select", "read", "add" and "size", a worker's "idle"  *)
(* (not spawned) and "start"; both send from "publish" to "commit", or stay *)
(* "hung" in a publish for good.                                            *)
Label == {"select", "read", "add", "size", "idle", "start",
          "publish", "hung", "load", "delete", "commit"}

SummaryTopic == "summary-request"
SentimentTopic == "sentiment-request"
Topic == {SummaryTopic, SentimentTopic}

(* sendForSummary runs in the main goroutine, sendBatchToKafka elsewhere.   *)
TopicOf(g) == IF g = Main THEN SummaryTopic ELSE SentimentTopic

(* Where a content has to go.                                               *)
Route(c) == IF c \in LongContent THEN SummaryTopic ELSE SentimentTopic

Init ==
    /\ KafkaInit
    /\ buffer = <<>>
    /\ pc = [g \in Goroutine |-> IF g = Main THEN "select" ELSE "idle"]
    /\ batch = [g \in Goroutine |-> <<>>]
    /\ attempt = [g \in Goroutine |-> 1]
    /\ loaded = [g \in Goroutine |-> NoMessage]
    /\ published = [t \in Topic |-> {}]
    /\ abandoned = {}

Goto(g, label) == pc' = [pc EXCEPT ![g] = label]

-----------------------------------------------------------------------------
(* Mistakes this code could have made.  No action uses them: each stands in *)
(* for the definition its name recalls, to see that a property notices.     *)

FullWhenExceeded == Len(buffer) > BATCH_SIZE

(* the retry loop runs once too often                                       *)
PublishRetryTooOften(g) ==
    /\ pc[g] = "publish"
    /\ attempt[g] <= PublishAttempts
    /\ attempt' = [attempt EXCEPT ![g] = @ + 1]
    /\ UNCHANGED <<kafkaVars, buffer, pc, batch, loaded, published, abandoned>>

(* an error ends the retry loop, the commits follow                         *)
PublishRetryBreaks(g) ==
    /\ pc[g] = "publish"
    /\ Goto(g, "load")
    /\ UNCHANGED <<kafkaVars, buffer, batch, attempt, loaded, published,
                   abandoned>>

(* the full buffer is replaced instead of being left to the sender          *)
AddToFreshBuffer ==
    /\ pc[Main] = "add"
    /\ buffer' = IF Len(buffer) >= BATCH_SIZE THEN batch[Main]
                 ELSE Append(buffer, Head(batch[Main]))
    /\ batch' = [batch EXCEPT ![Main] = <<>>]
    /\ Goto(Main, "size")
    /\ UNCHANGED <<kafkaVars, attempt, loaded, published, abandoned>>

-----------------------------------------------------------------------------
(* The main goroutine: one pass of the for-select loop after the other.     *)

(* case <-ticker.C: go sendBatchToKafka(...)                                *)
Tick(w) ==
    /\ pc[Main] = "select"
    /\ pc[w] = "idle"
    /\ Goto(w, "start")
    /\ UNCHANGED <<kafkaVars, buffer, batch, attempt, loaded, published,
                   abandoned>>

(* default: iterator.Next() -- from here on no tick is served until the     *)
(* read returns.                                                            *)
EnterRead ==
    /\ pc[Main] = "select"
    /\ Goto(Main, "read")
    /\ UNCHANGED <<kafkaVars, buffer, batch, attempt, loaded, published,
                   abandoned>>

(* Next returned an error: it is logged and the loop goes on.               *)
ReadError ==
    /\ pc[Main] = "read"
    /\ Goto(Main, "select")
    /\ UNCHANGED <<kafkaVars, buffer, batch, attempt, loaded, published,
                   abandoned>>

(* A value that does not parse is dropped without a word to the broker.     *)
ReceiveMalformed(p) ==
    /\ pc[Main] = "read"
    /\ HasNext(p)
    /\ Value(NextMessage(p)) = Malformed
    /\ Advance(p)
    /\ Goto(Main, "select")
    /\ UNCHANGED <<committed, messageMap, faults, buffer, batch, attempt,
                   loaded, published, abandoned>>

(* Any other is tracked, then sent for a summary or on to the buffer.       *)
Receive(p) ==
    LET m == NextMessage(p)
        c == Value(m)
    IN  /\ pc[Main] = "read"
        /\ HasNext(p)
        /\ c # Malformed
        /\ Advance(p)
        /\ TrackMessage(c, m)
        /\ batch' = [batch EXCEPT ![Main] = <<c>>]
        /\ Goto(Main, IF c \in LongContent THEN "publish" ELSE "add")
        /\ UNCHANGED <<committed, faults, buffer, attempt, loaded, published,
                       abandoned>>

(* postBatchBuffer.Add, under the buffer's lock.                            *)
AddToBuffer ==
    /\ pc[Main] = "add"
    /\ buffer' = Append(buffer, Head(batch[Main]))
    /\ batch' = [batch EXCEPT ![Main] = <<>>]
    /\ Goto(Main, "size")
    /\ UNCHANGED <<kafkaVars, attempt, loaded, published, abandoned>>

(* postBatchBuffer.Size() takes the lock again, after Add released it; a    *)
(* full buffer spawns a sender (when the bound on goroutines leaves one).   *)
Full == Len(buffer) >= BATCH_SIZE

SpawnWhenFull(w) ==
    /\ pc[Main] = "size"
    /\ Full
    /\ pc[w] = "idle"
    /\ pc' = [pc EXCEPT ![Main] = "select", ![w] = "start"]
    /\ UNCHANGED <<kafkaVars, buffer, batch, attempt, loaded, published,
                   abandoned>>

BelowBatchSize ==
    /\ pc[Main] = "size"
    /\ ~Full
    /\ Goto(Main, "select")
    /\ UNCHANGED <<kafkaVars, buffer, batch, attempt, loaded, published,
                   abandoned>>

-----------------------------------------------------------------------------
(* Sending: sendBatchToKafka in a worker, sendForSummary in the main        *)
(* goroutine with the batch of one content that Receive made.               *)

(* postBatchBuffer.GetAndClear; an empty batch ends the goroutine.          *)
GetAndClear(w) ==
    /\ pc[w] = "start"
    /\ batch' = [batch EXCEPT ![w] = buffer]
    /\ buffer' = <<>>
    /\ Goto(w, IF buffer = <<>> THEN "idle" ELSE "publish")
    /\ UNCHANGED <<kafkaVars, attempt, loaded, published, abandoned>>

(* PublishToKafka returned nil.                                             *)
PublishOk(g) ==
    /\ pc[g] = "publish"
    /\ published' = [published EXCEPT ![TopicOf(g)] = @ \cup Range(batch[g])]
    /\ attempt' = [attempt EXCEPT ![g] = 1]
    /\ Goto(g, "load")
    /\ UNCHANGED <<kafkaVars, buffer, batch, loaded, abandoned>>

(* It returned an error: wait and try again ...                             *)
PublishRetry(g) ==
    /\ pc[g] = "publish"
    /\ attempt[g] < PublishAttempts
    /\ attempt' = [attempt EXCEPT ![g] = @ + 1]
    /\ UNCHANGED <<kafkaVars, buffer, pc, batch, loaded, published, abandoned>>

(* ... and after the third error go on to the commits all the same.         *)
PublishGiveUp(g) ==
    /\ pc[g] = "publish"
    /\ attempt[g] = PublishAttempts
    /\ abandoned' = abandoned \cup Range(batch[g])
    /\ attempt' = [attempt EXCEPT ![g] = 1]
    /\ Goto(g, "load")
    /\ UNCHANGED <<kafkaVars, buffer, batch, loaded, published>>

(* PublishToKafka waits for its delivery report without a timeout, and the  *)
(* goroutines share one producer: when another one, in its own call,        *)
(* recreates it, the report never comes and this goroutine never goes on.   *)
PublishHangs(g) ==
    /\ pc[g] = "publish"
    /\ \E other \in Goroutine \ {g} : pc[other] = "publish"
    /\ attempt' = [attempt EXCEPT ![g] = 1]
    /\ Goto(g, "hung")
    /\ UNCHANGED <<kafkaVars, buffer, batch, loaded, published, abandoned>>

(* The next content of the batch, or the end of the goroutine's work.       *)
NextContent(g) ==
    /\ batch' = [batch EXCEPT ![g] = Tail(@)]
    /\ Goto(g, IF Len(batch[g]) > 1 THEN "load"
               ELSE IF g = Main THEN "select" ELSE "idle")

(* messageMap.Load(contentID) found nothing: no commit for this content.    *)
LoadMissing(g) ==
    /\ pc[g] = "load"
    /\ messageMap[Head(batch[g])] = NoMessage
    /\ NextContent(g)
    /\ UNCHANGED <<kafkaVars, buffer, attempt, loaded, published, abandoned>>

LoadFound(g) ==
    /\ pc[g] = "load"
    /\ messageMap[Head(batch[g])] # NoMessage
    /\ loaded' = [loaded EXCEPT ![g] = messageMap[Head(batch[g])]]
    /\ Goto(g, "delete")
    /\ UNCHANGED <<kafkaVars, buffer, batch, attempt, published, abandoned>>

(* messageMap.Delete(contentID) removes whatever is stored by now.          *)
DeleteLoaded(g) ==
    /\ pc[g] = "delete"
    /\ Untrack(Head(batch[g]))
    /\ Goto(g, "commit")
    /\ UNCHANGED <<position, committed, faults, start, reach, buffer, batch,
                   attempt, loaded, published, abandoned>>

CommitLoaded(g) ==
    /\ pc[g] = "commit"
    /\ Commit(loaded[g])
    /\ loaded' = [loaded EXCEPT ![g] = NoMessage]
    /\ NextContent(g)
    /\ UNCHANGED <<position, messageMap, faults, start, reach, buffer, attempt,
                   published, abandoned>>

-----------------------------------------------------------------------------
(* The process is killed and started again by Docker: memory is gone, the   *)
(* broker's offsets and the published messages stay.                        *)
Restart ==
    /\ KafkaRestart
    /\ buffer' = <<>>
    /\ pc' = [g \in Goroutine |-> IF g = Main THEN "select" ELSE "idle"]
    /\ batch' = [g \in Goroutine |-> <<>>]
    /\ attempt' = [g \in Goroutine |-> 1]
    /\ loaded' = [g \in Goroutine |-> NoMessage]
    /\ UNCHANGED <<published, abandoned>>

(* A rebalance is served inside a read: the partitions come back with their *)
(* committed offsets, the buffer, the map and the goroutines stay.          *)
Rebalance ==
    /\ pc[Main] = "read"
    /\ KafkaRebalance
    /\ UNCHANGED <<buffer, goroutineVars, published, abandoned>>

SendStep(g) ==
    \/ PublishOk(g)
    \/ PublishRetry(g)
    \/ PublishGiveUp(g)
    \/ LoadMissing(g)
    \/ LoadFound(g)
    \/ DeleteLoaded(g)
    \/ CommitLoaded(g)

WorkerStep(w) == GetAndClear(w) \/ SendStep(w)

MainStep ==
    \/ EnterRead
    \/ \E p \in Partition : Receive(p) \/ ReceiveMalformed(p)
    \/ AddToBuffer
    \/ BelowBatchSize
    \/ \E w \in Worker : SpawnWhenFull(w)
    \/ SendStep(Main)

Next ==
    \/ MainStep
    \/ ReadError
    \/ \E w \in Worker : Tick(w) \/ WorkerStep(w)
    \/ \E g \in Goroutine : PublishHangs(g)
    \/ Restart
    \/ Rebalance

Spec == Init /\ [][Next]_vars

(* The Go scheduler runs every goroutine that can run.  A commit ends after *)
(* a bounded number of timed retries, and so does a publish, unless its     *)
(* producer is closed under it: then it hangs, and a hung goroutine has no  *)
(* step to be fair to.  Nothing makes a tick find the main goroutine        *)
(* outside a read: no fairness on Tick.                                     *)
Fairness ==
    /\ WF_vars(MainStep)
    /\ \A w \in Worker : WF_vars(WorkerStep(w))

FairSpec == Spec /\ Fairness

-----------------------------------------------------------------------------
TypeOK ==
    /\ KafkaTypeOK
    /\ buffer \in Seq(ContentID)
    /\ pc \in [Goroutine -> Label]
    /\ batch \in [Goroutine -> Seq(ContentID)]
    /\ attempt \in [Goroutine -> 1 .. PublishAttempts]
    /\ loaded \in [Goroutine -> Message \cup {NoMessage}]
    /\ published \in [Topic -> SUBSET ContentID]
    /\ abandoned \subseteq ContentID

(* A content is settled when the program may forget it: published where it  *)
(* has to go, or given up after three attempts.                             *)
Settled(c) == c \in published[Route(c)] \/ c \in abandoned

(* A content is held while it is still in the process's memory.             *)
Held(c) ==
    \/ c \in Range(buffer)
    \/ \E g \in Goroutine : c \in Range(batch[g])

InMemory == {c \in ContentID : Held(c)}

SettledContents == {c \in ContentID : Settled(c)}

(* However the ticker's senders, the senders of full buffers and the main   *)
(* goroutine interleave on the buffer, no content that this process was     *)
(* handed disappears between Add, GetAndClear and the publish: it is        *)
(* settled, or in the buffer or in a batch.                                 *)
NoContentVanishes ==
    \A p \in Partition : \A o \in HandedOut(p) :
        Log[p][o] \in ContentID => Settled(Log[p][o]) \/ Held(Log[p][o])

(* The offset the group has committed always belongs to a content that was  *)
(* settled first: no goroutine acknowledges a message whose publish is      *)
(* still to be tried, in spite of the map being shared and overwritten.     *)
CommittedWasSettled ==
    \A p \in Partition :
        committed[p] > 0 => Settled(Log[p][committed[p]])

(* What remains of at-least-once delivery: a message can only be lost       *)
(* because a commit of a LATER message of its partition has overtaken it.   *)
(* One past the committed offset is still to be handed out (again), or is   *)
(* settled, or in memory, across restarts and rebalances.                   *)
UncommittedIsRecoverable ==
    \A p \in Partition : \A o \in committed[p] + 1 .. Len(Log[p]) :
        \/ o > position[p]
        \/ Log[p][o] = Malformed
        \/ Settled(Log[p][o])
        \/ Held(Log[p][o])

(* The goroutines whose publish never ends.                                 *)
Hung == {g \in Goroutine : pc[g] = "hung"}

(* Everything handed out is settled in the end except what is stuck in a    *)
(* buffer that has not reached BATCH_SIZE -- the main goroutine sits in     *)
(* ReadMessage(-1) and serves no tick until another message arrives -- and  *)
(* what a goroutine took into a publish that never ends: that one keeps     *)
(* nobody else's contents, and a full buffer still finds a sender while     *)
(* the bound on goroutines leaves one that is not hung.                     *)
OnlyAPartialBatchStays ==
    <>[](/\ Len(buffer) < BATCH_SIZE \/ Worker \subseteq Hung
         /\ \A p \in Partition : \A o \in HandedOut(p) :
              Log[p][o] \in ContentID =>
                 \/ Settled(Log[p][o])
                 \/ Log[p][o] \in Range(buffer)
                 \/ \E g \in Hung : Log[p][o] \in Range(batch[g]))

MessageContents ==
    [p \in Partition |-> [o \in 1 .. Len(Log[p]) |-> {Log[p][o]} \cap ContentID]]

(* Seen from its topic, the consumer is a ConsumerContract that drops       *)
(* nothing: all its goroutines together take, settle and acknowledge as one *)
(* would, and each commit is of a message of this process whose content is  *)
(* settled.                                                                 *)
Consumer == INSTANCE ConsumerContract WITH
    Contents <- MessageContents,
    next <- position,
    acked <- committed,
    taken <- Taken,
    held <- InMemory,
    settled <- SettledContents,
    dropped <- {}

ImplementsConsumer == Consumer!Spec

-----------------------------------------------------------------------------
(* The inductive invariant behind the three safety properties.              *)

(* A goroutine has a batch exactly while it sends (or adds) one, and the    *)
(* main goroutine's is a single content.                                    *)
BatchShape ==
    /\ \A w \in Worker :
         /\ pc[w] \in {"idle", "start", "publish", "hung", "load", "delete",
                      "commit"}
         /\ Len(batch[w]) = 0 <=> pc[w] \in {"idle", "start"}
    /\ pc[Main] \notin {"idle", "start"}
    /\ Len(batch[Main]) =
         IF pc[Main] \in {"select", "read", "size"} THEN 0 ELSE 1

(* Every content is on the way to the topic it has to go to.                *)
Routed ==
    /\ \A c \in Range(buffer) : c \notin LongContent
    /\ \A w \in Worker : \A c \in Range(batch[w]) : c \notin LongContent
    /\ \A c \in Range(batch[Main]) :
          c \in LongContent <=> pc[Main] # "add"

(* Commits come after the publish loop.                                     *)
SettledBeforeCommit ==
    \A g \in Goroutine :
        pc[g] \in {"load", "delete", "commit"} =>
            \A c \in Range(batch[g]) : Settled(c)

(* A message this process was handed, of content c.                         *)
MessageOf(m, c) == InHand(m) /\ Value(m) = c

(* The map and the goroutines' loaded messages are messages of the content  *)
(* they are kept for, and none survives from an earlier process.            *)
TrackedMessages ==
    /\ \A c \in ContentID :
          messageMap[c] # NoMessage => MessageOf(messageMap[c], c)
    /\ \A g \in Goroutine :
          pc[g] \in {"delete", "commit"} => MessageOf(loaded[g], Head(batch[g]))

IInv ==
    /\ TypeOK
    /\ BatchShape
    /\ Routed
    /\ SettledBeforeCommit
    /\ TrackedMessages
    /\ OffsetOrder
    /\ NoContentVanishes
    /\ CommittedWasSettled

=============================================================================
