--------------------------- MODULE TopicGenerator ---------------------------
(***************************************************************************)
(* cmd/topic-generator: one run of it asks NewsAPI for the headlines of    *)
(* each category, has topics made of them in batches, and stores those it  *)
(* does not have yet (clients/newsapi_client.go, topic_generation.go,      *)
(* StoreBatchedTopics of db/dynamodb.go).                                  *)
(*                                                                         *)
(* The context of a run ends after two minutes, wherever the run is.  What *)
(* is in the table is read once, at the start; an entry of it goes when    *)
(* its time to live is over.  Headlines and topics are their URLs.         *)
(***************************************************************************)
EXTENDS Subsequences, Sequences

CONSTANTS
    URL,            \* of headlines and topics; the key of the Topics table
    NoURL,          \* what a topic made without a URL has
    Headlines,      \* what NewsAPI has: one sequence for each category
    BATCH_SIZE,     \* headlines in one completion
    maxBatchSize,   \* topics in one BatchWriteItem
    WriteLimit,     \* what DynamoDB takes in one
    MaxTopics,      \* bound: topics in one completion
    MaxRuns         \* bound: runs of the program

ASSUME TopicAssumption ==
    /\ NoURL \notin URL
    /\ Headlines \in Seq(Seq(URL))
    /\ BATCH_SIZE \in Nat \ {0}
    /\ maxBatchSize \in Nat \ {0}
    /\ {WriteLimit, MaxRuns} \subseteq Nat \ {0}
    /\ MaxTopics \in Nat

(* 25 both of them.                                                         *)
ASSUME WriteLimitAssumption == maxBatchSize <= WriteLimit

VARIABLES
    pc,             \* where the run is
    category,       \* the category it asks for
    attempt,        \* which attempt at a request or a completion it makes
    headlines,      \* those not yet in the buffer
    headlineBuffer,
    batch,          \* those a completion is asked for
    topics,         \* those still to be written
    unprocessed,    \* those of a write that DynamoDB left
    storedTopics,   \* the table as it was read
    expired,        \* ctx.Done()
    table,          \* the table of topics
    runs,           \* runs so far
    given,          \* history: the headlines of this run
    written,        \* history: what this run wrote
    lost            \* history: what this run gave up, for a reason

loopVars == <<category, attempt, headlines, headlineBuffer>>
batchVars == <<batch, topics, unprocessed>>
worldVars == <<storedTopics, expired, table, runs>>
history == <<given, written, lost>>
vars == <<pc, loopVars, batchVars, worldVars, history>>

MAX_RETRIES == 5
CompletionTries == 3
RewriteTries == 3

Init ==
    /\ pc = "fetch"
    /\ category = 1
    /\ attempt = 1
    /\ headlines = <<>>
    /\ headlineBuffer = <<>>
    /\ batch = <<>>
    /\ topics = <<>>
    /\ unprocessed = {}
    /\ storedTopics = {}
    /\ expired = FALSE
    /\ table \in SUBSET URL
    /\ runs = 1
    /\ given = {}
    /\ written = {}
    /\ lost = {}

-----------------------------------------------------------------------------
(* Mistakes this code could have made.  No action uses them: each stands in *)
(* for the definition its name recalls, to see that a property notices.     *)

(* one attempt too many                                                     *)
FetchRetryTooOften ==
    /\ pc = "fetch"
    /\ category <= Len(Headlines)
    /\ attempt <= MAX_RETRIES
    /\ attempt' = attempt + 1
    /\ UNCHANGED <<pc, category, headlines, headlineBuffer, batchVars,
                   worldVars, history>>

(* a slice one too long                                                     *)
ChunkOneMore == SubSeq(topics, 1, IF Len(topics) > maxBatchSize
                                  THEN maxBatchSize + 1 ELSE Len(topics))

(* what is left in the buffer after the loop stays there                    *)
NoFinalBatch ==
    /\ pc = "headline"
    /\ headlines = <<>>
    /\ pc' = "done"
    /\ UNCHANGED <<loopVars, batchVars, worldVars, history>>

(* the stored topics are compared by something else than the URL            *)
FilterMisses(new, stored) == {new}

(* the completion is asked for until it is given                            *)
CompletionRetryForever ==
    /\ pc = "complete"
    /\ attempt' = 1 + (attempt % CompletionTries)
    /\ UNCHANGED <<pc, category, headlines, headlineBuffer, batchVars,
                   worldVars, history>>

(* what is left of a write is sent until nothing is                         *)
RewriteUncounted(left) ==
    /\ pc = "rewrite"
    /\ unprocessed # {}
    /\ left \subseteq unprocessed
    /\ table' = table \cup (unprocessed \ left)
    /\ written' = written \cup (unprocessed \ left)
    /\ unprocessed' = left
    /\ UNCHANGED <<pc, loopVars, batch, topics, storedTopics, expired, runs,
                   given, lost>>

-----------------------------------------------------------------------------
(* GetTopHeadlinesByCategory.                                               *)
FetchOk ==
    /\ pc = "fetch"
    /\ category <= Len(Headlines)
    /\ headlines' = headlines \o Headlines[category]
    /\ category' = category + 1
    /\ attempt' = 1
    /\ UNCHANGED <<pc, headlineBuffer, batchVars, worldVars, history>>

(* No answer, 429 or a server error: wait, and try again.                   *)
FetchRetry ==
    /\ pc = "fetch"
    /\ category <= Len(Headlines)
    /\ attempt < MAX_RETRIES
    /\ attempt' = attempt + 1
    /\ UNCHANGED <<pc, category, headlines, headlineBuffer, batchVars,
                   worldVars, history>>

(* The fifth failure, another status, or a body that does not parse: this   *)
(* category is left out.                                                    *)
FetchSkip ==
    /\ pc = "fetch"
    /\ category <= Len(Headlines)
    /\ category' = category + 1
    /\ attempt' = 1
    /\ UNCHANGED <<pc, headlines, headlineBuffer, batchVars, worldVars, history>>

NoHeadlines ==
    /\ pc = "fetch"
    /\ category > Len(Headlines)
    /\ headlines = <<>>
    /\ pc' = "done"
    /\ UNCHANGED <<loopVars, batchVars, worldVars, history>>

(* GenerateTopicsFromHeadlines: an error of the scan reads as no topics.    *)
ReadStored ==
    /\ pc = "fetch"
    /\ category > Len(Headlines)
    /\ headlines # <<>>
    /\ given' = Range(headlines)
    /\ storedTopics' \in {table, {}}
    /\ pc' = "headline"
    /\ UNCHANGED <<loopVars, batchVars, expired, table, runs, written, lost>>

AddHeadline ==
    /\ pc = "headline"
    /\ headlines # <<>>
    /\ ~expired
    /\ headlineBuffer' = Append(headlineBuffer, Head(headlines))
    /\ headlines' = Tail(headlines)
    /\ pc' = IF Len(headlineBuffer') >= BATCH_SIZE THEN "batch" ELSE "headline"
    /\ UNCHANGED <<category, attempt, batchVars, worldVars, history>>

(* case <-ctx.Done(): the headlines not yet in the buffer are left.         *)
ContextDone ==
    /\ pc = "headline"
    /\ headlines # <<>>
    /\ expired
    /\ lost' = lost \cup Range(headlines)
    /\ headlines' = <<>>
    /\ UNCHANGED <<pc, category, attempt, headlineBuffer, batchVars, worldVars,
                   given, written>>

FinalBatch ==
    /\ pc = "headline"
    /\ headlines = <<>>
    /\ pc' = IF headlineBuffer = <<>> THEN "done" ELSE "batch"
    /\ UNCHANGED <<loopVars, batchVars, worldVars, history>>

-----------------------------------------------------------------------------
(* processHeadlineBatch: the buffer is emptied before anything is asked.    *)
TakeBatch ==
    /\ pc = "batch"
    /\ batch' = headlineBuffer
    /\ headlineBuffer' = <<>>
    /\ attempt' = 1
    /\ pc' = "complete"
    /\ UNCHANGED <<category, headlines, topics, unprocessed, worldVars, history>>

CompletionRetry ==
    /\ pc = "complete"
    /\ attempt < CompletionTries
    /\ attempt' = attempt + 1
    /\ UNCHANGED <<pc, category, headlines, headlineBuffer, batchVars,
                   worldVars, history>>

(* The batch ends here, with an error that is logged.                       *)
DropBatch ==
    /\ lost' = lost \cup Range(batch)
    /\ batch' = <<>>
    /\ attempt' = 1
    /\ pc' = "headline"
    /\ UNCHANGED <<category, headlines, headlineBuffer, topics, unprocessed,
                   worldVars, given, written>>

CompletionGiveUp ==
    /\ pc = "complete"
    /\ attempt = CompletionTries
    /\ DropBatch

(* A text with no JSON in it, or with other JSON.                           *)
CompletionUnparsable ==
    /\ pc = "complete"
    /\ ~expired
    /\ DropBatch

(* resp.Choices[0] of an answer without choices: the process dies.          *)
CompletionEmpty ==
    /\ pc = "complete"
    /\ ~expired
    /\ lost' = lost \cup Range(batch) \cup Range(headlines)
    /\ batch' = <<>>
    /\ headlines' = <<>>
    /\ pc' = "done"
    /\ UNCHANGED <<category, attempt, headlineBuffer, topics, unprocessed,
                   worldVars, given, written>>

(* What the two loops leave, as sets of one sequence: the first topic of    *)
(* each URL, and what the table did not have.                               *)
removeLocalDuplicates(new) ==
    Picked(new, {i \in DOMAIN new :
                   /\ new[i] # NoURL
                   /\ \A j \in 1 .. i - 1 : new[j] # new[i]})

filterAgainstStored(new, stored) ==
    Picked(new, {i \in DOMAIN new : new[i] \notin stored})

(* The model is asked for one topic for each headline, with its URL, but    *)
(* the answer is taken as it comes: any number of topics, more or fewer     *)
(* than headlines, with any URLs or none.                                   *)
Answers == UNION {[1 .. n -> URL \cup {NoURL}] : n \in 0 .. MaxTopics}

CompletionOk(answer) ==
    /\ pc = "complete"
    /\ ~expired
    /\ \E unique \in removeLocalDuplicates(answer) :
          topics' \in filterAgainstStored(unique, storedTopics)
    /\ lost' = lost \cup (Range(batch) \ Range(answer))
    /\ batch' = <<>>
    /\ attempt' = 1
    /\ pc' = "store"
    /\ UNCHANGED <<category, headlines, headlineBuffer, unprocessed, worldVars,
                   given, written>>

-----------------------------------------------------------------------------
(* StoreBatchedTopics, slice by slice.                                      *)
Chunk == SubSeq(topics, 1, IF Len(topics) > maxBatchSize
                           THEN maxBatchSize ELSE Len(topics))

Acceptable(request) ==
    /\ Len(request) <= WriteLimit
    /\ IsInjective(request)

Put(items) ==
    /\ table' = table \cup items
    /\ written' = written \cup items

Stored ==
    /\ pc = "store"
    /\ topics = <<>>
    /\ pc' = "headline"
    /\ UNCHANGED <<loopVars, batchVars, worldVars, history>>

Write(left) ==
    /\ pc = "store"
    /\ topics # <<>>
    /\ ~expired
    /\ Acceptable(Chunk)
    /\ left \subseteq Range(Chunk)
    /\ Put(Range(Chunk) \ left)
    /\ topics' = SubSeq(topics, Len(Chunk) + 1, Len(topics))
    /\ unprocessed' = left
    /\ attempt' = 1
    /\ pc' = "rewrite"
    /\ UNCHANGED <<category, headlines, headlineBuffer, batch, storedTopics,
                   expired, runs, given, lost>>

(* The context is done, or the write fails (some of it may have taken       *)
(* effect): no slice after it is written.                                   *)
StoreError(done) ==
    /\ pc = "store"
    /\ topics # <<>>
    /\ done \subseteq Range(Chunk)
    /\ Put(done)
    /\ lost' = lost \cup Range(topics)
    /\ topics' = <<>>
    /\ pc' = "headline"
    /\ UNCHANGED <<loopVars, batch, unprocessed, storedTopics, expired, runs,
                   given>>

(* What is left is sent again, with a context of its own, three times.      *)
Rewrite(left) ==
    /\ pc = "rewrite"
    /\ unprocessed # {}
    /\ attempt <= RewriteTries
    /\ left \subseteq unprocessed
    /\ Put(unprocessed \ left)
    /\ unprocessed' = left
    /\ attempt' = attempt + 1
    /\ UNCHANGED <<pc, category, headlines, headlineBuffer, batch, topics,
                   storedTopics, expired, runs, given, lost>>

RewriteError(done) ==
    /\ pc = "rewrite"
    /\ unprocessed # {}
    /\ attempt <= RewriteTries
    /\ done \subseteq unprocessed
    /\ Put(done)
    /\ lost' = lost \cup unprocessed \cup Range(topics)
    /\ unprocessed' = {}
    /\ topics' = <<>>
    /\ attempt' = 1
    /\ pc' = "headline"
    /\ UNCHANGED <<category, headlines, headlineBuffer, batch, storedTopics,
                   expired, runs, given>>

(* Nothing is left, or it is only logged; then the next slice.              *)
NextChunk ==
    /\ pc = "rewrite"
    /\ unprocessed = {} \/ attempt > RewriteTries
    /\ lost' = lost \cup unprocessed
    /\ unprocessed' = {}
    /\ attempt' = 1
    /\ pc' = "store"
    /\ UNCHANGED <<category, headlines, headlineBuffer, batch, topics, worldVars,
                   given, written>>

-----------------------------------------------------------------------------
(* The two minutes are over; an entry's day is over; the next run.          *)
Expire ==
    /\ ~expired
    /\ pc # "done"
    /\ expired' = TRUE
    /\ UNCHANGED <<pc, loopVars, batchVars, storedTopics, table, runs, history>>

TimeToLive(u) ==
    /\ u \in table
    /\ table' = table \ {u}
    /\ UNCHANGED <<pc, loopVars, batchVars, storedTopics, expired, runs, history>>

NextRun ==
    /\ pc = "done"
    /\ runs < MaxRuns
    /\ runs' = runs + 1
    /\ pc' = "fetch"
    /\ category' = 1
    /\ attempt' = 1
    /\ headlineBuffer' = <<>>
    /\ storedTopics' = {}
    /\ expired' = FALSE
    /\ given' = {} /\ written' = {} /\ lost' = {}
    /\ UNCHANGED <<headlines, batchVars, table>>

Fetch == FetchOk \/ FetchRetry \/ FetchSkip \/ NoHeadlines \/ ReadStored

Generate ==
    \/ AddHeadline
    \/ ContextDone
    \/ FinalBatch
    \/ TakeBatch
    \/ CompletionRetry
    \/ CompletionGiveUp
    \/ CompletionUnparsable
    \/ CompletionEmpty
    \/ \E answer \in Answers : CompletionOk(answer)
    \/ Stored
    \/ \E left \in SUBSET Range(Chunk) : Write(left)
    \/ \E done \in SUBSET Range(Chunk) : StoreError(done)
    \/ \E left \in SUBSET unprocessed : Rewrite(left)
    \/ \E done \in SUBSET unprocessed : RewriteError(done)
    \/ NextChunk

Next ==
    \/ Fetch
    \/ Generate
    \/ Expire
    \/ \E u \in URL : TimeToLive(u)
    \/ NextRun

Spec == Init /\ [][Next]_vars

(* The loops are counted and the completion's context has a deadline.       *)
(* DynamoDB is taken to answer: the context of a rewrite has no deadline,   *)
(* only the SDK's own retries bound it.  The requests to NewsAPI have no    *)
(* timeout of any kind, hence no fairness.                                  *)
FairSpec == Spec /\ WF_vars(Generate)

-----------------------------------------------------------------------------
TypeOK ==
    /\ pc \in {"fetch", "headline", "batch", "complete", "store", "rewrite",
               "done"}
    /\ category \in 1 .. Len(Headlines) + 1
    /\ attempt \in 1 .. MAX_RETRIES
    /\ {headlines, headlineBuffer, batch, topics} \subseteq Seq(URL)
    /\ {unprocessed, storedTopics, table, given, written, lost} \subseteq SUBSET URL
    /\ expired \in BOOLEAN
    /\ runs \in 1 .. MaxRuns

(* Every request to DynamoDB is one it accepts: no slice is too long, and   *)
(* none names a key twice, whatever list of topics the completion returned  *)
(* (removeLocalDuplicates; one refused request would end the whole batch).  *)
RequestsAreAccepted ==
    pc = "store" /\ topics # <<>> => Acceptable(Chunk)

(* When a run ends, each of its headlines had its topic stored, had it in   *)
(* the table before, or was given up at a place that says so: none is lost  *)
(* in the buffer, between two slices, by a filter or among the retries.     *)
EveryHeadlineIsAccountedFor ==
    pc = "done" => given \subseteq written \cup storedTopics \cup lost

(* What the run has seen in the table it does not write again, in whichever *)
(* batch it comes and whatever became of the entry meanwhile: an old topic  *)
(* keeps its text and its day.                                              *)
StoredTopicsAreLeftAlone == written \cap storedTopics = {}

(* Once the headlines are there the run comes to its end, whatever fails    *)
(* and whenever the context is done.                                        *)
GenerationEnds == pc = "headline" ~> pc = "done"

(* That it does is a matter of counting: the steps a run has left at most.  *)
(* Each topic may be a slice of its own, written and sent again three       *)
(* times; a batch costs those of the longest completion, however few its    *)
(* headlines are; and each headline may be a batch of its own.              *)
BatchSteps == 5 * MaxTopics + 6

StepsLeft ==
    (BatchSteps + 1) * Len(headlines) +
    CASE pc = "headline" -> BatchSteps * Len(headlineBuffer) + 1
      [] pc = "batch"    -> BatchSteps
      [] pc = "complete" -> BatchSteps - attempt
      [] pc = "store"    -> 5 * Len(topics) + 2
      [] pc = "rewrite"  -> 5 * Len(topics) + 7 - attempt
      [] OTHER           -> 0

(* Every step of a run is one of those, whatever topics the completions     *)
(* name and whatever DynamoDB answers: no retry, no slice and no partial    *)
(* batch starts over.                                                       *)
EveryStepIsCounted == [][Generate => StepsLeft' \in 0 .. StepsLeft - 1]_vars

-----------------------------------------------------------------------------
(* Why they hold.  What each phase has in hand,                             *)
Phases ==
    /\ pc \notin {"headline", "batch"} => headlineBuffer = <<>>
    /\ pc # "complete" => batch = <<>>
    /\ pc \notin {"store", "rewrite"} => topics = <<>>
    /\ pc # "rewrite" => unprocessed = {}
    /\ pc = "done" => headlines = <<>>
    /\ pc = "fetch" => given = {} /\ written = {}

(* how often it has tried,                                                  *)
Attempts ==
    /\ pc = "complete" => attempt <= CompletionTries
    /\ pc = "rewrite" => attempt <= RewriteTries + 1

(* that no two of the topics to be written have one key,                    *)
TopicsAreDistinct == IsInjective(topics)

(* and none of them was in the table,                                       *)
TopicsAreNew == (Range(topics) \cup unprocessed) \cap storedTopics = {}

(* and that a headline is somewhere on its way until it is accounted for.   *)
HeadlinesInHand ==
    given \subseteq Range(headlines) \cup Range(headlineBuffer) \cup Range(batch)
                    \cup Range(topics) \cup unprocessed
                    \cup written \cup storedTopics \cup lost

(* The inductive invariant of TopicGeneratorProofs.                         *)
IInv ==
    /\ TypeOK
    /\ Phases
    /\ Attempts
    /\ TopicsAreDistinct
    /\ TopicsAreNew
    /\ HeadlinesInHand
    /\ StoredTopicsAreLeftAlone

=============================================================================
