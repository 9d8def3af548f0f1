# Sentiflow in TLA+

Sentiflow collects posts about news topics, scores their sentiment and stores
the scores. Its parts are Go processes joined by four Kafka topics:

    topic-generator --> DynamoDB (topics)
    producer (Reddit, topics, Valkey) --> raw-content
    raw-content --> raw content consumer --(text > 1024)--> summary-request
                                         --(others, batched)--> sentiment-request
    summary-request   --> summary consumer   --> sentiment-request
    sentiment-request --> sentiment consumer --> sentiment-results
    sentiment-results --> results consumer   --> DynamoDB (results)

One binary (`cmd/consumer`) runs any of the four consumers; the environment
variable `KAFKA_CONSUMER_TOPIC` chooses one per process, and Docker restarts a
process that dies. All publish through one transactional producer per process
(`kafka_client/producer.go`) and find the Kafka message of a content ID again,
to commit it, in one process-wide map (`utils/message_tracking.go`).

This directory holds the TLA+ modules of those parts, their TLC instances and
the TLAPS proofs. Each definition's lines in the source are in `PROJECT.json`
("map"), next to the runs, the mutants, the hazards and the findings.

## Inventory

| Component | State | Operations | What makes it correct |
|---|---|---|---|
| Kafka consumption (`consumer.go`, `message_iterator.go`, `commit_handler.go`, `message_tracking.go`) | positions, committed offsets, `messageMap` | `Next`, `Commit`, `TrackMessage`, `GetMessageForContent`; restart, rebalance | a message is found again for its content; what is not committed comes again |
| Raw content consumer | `postBatchBuffer`, a main goroutine, any number of senders | read and route, tick, `sendForSummary`, `sendBatchToKafka` | no content is lost between the goroutines; commit after publish |
| Summary consumer | `summaryBuffer`, health flag | read, tick, `processSummaryBatch`, `sendForAnalysis` | a batch waits while the summarizer is down; commit after publish |
| Sentiment consumer | current message, health flag | read, request scores, `sendResultsForStorage` | a message is handled as a whole; a skipped one is not committed by its own name |
| Results consumer with `BatchInsertSentimentResults` | `insertBuffer`, the message being split, retry counters | read, add, `processResults`, write and rewrite unprocessed items | inserts within DynamoDB's limit; the rest of a split message is not forgotten |
| Transactional producer | librdkafka's transaction, `producer` | `PublishToKafka`: begin, produce, await report, commit or abort, recreate | nil means visible; every call returns |
| Content producer (`cmd/producer`, `fetch.go`), Valkey client | processed set, topic, page and post at hand, the client | fetch, look up, publish, mark; recreate the client | marked only after it was published; published again only for a cause; nothing listed is left out for good |
| Hugging Face client and health monitors | the service, the flag, the probe, the request being sent | probe, store; call with five requests | a service that is up is found to be up; a call ends |
| Reddit client | token, requests left in the window | request with five tries, refresh, sleep until the window ends | a good answer reaches the caller in the end |
| Topic generation (`cmd/topic-generator`), NewsAPI client, `StoreBatchedTopics` | `headlineBuffer`, snapshot of stored topics, slices, unprocessed items | fetch, batch, ask, filter, store | each headline is stored, known or given up in the open; a known topic is left alone |
| Consumer process (`cmd/consumer/main.go`, factory, wrapper) | `initOnce`, `producer`, flags, registry | start-up | main goes on only with a producer |

All rows are modelled, the last one for its start-up loop and flags only. What
is hard there: the senders of the raw content consumer run beside its main
goroutine and beside each other; a commit speaks for every earlier offset of its
partition and is sent out of order; the map is shared and overwritten by second
copies of a content; reads block without a timeout inside the `select` that
should serve the ticker; every retry loop gives up at some point and goes on to
commit; a process may die between any two steps; a transaction's answer may be
lost; a post is looked up, published and marked in three calls; a health verdict
is old when it is used; a request is sent again without its body; what is left
of a batch is given up in the middle of a run; and librdkafka has one
transaction for however many goroutines publish. `PROJECT.json` lists each such
hazard at its line, with the properties that watch it.

## Modules

| Module | Models |
|---|---|
| `ConsumerContract` | what any consumer promises of its topic (abstract) |
| `KafkaConsumer` | what the consumers share: `position`, `committed`, `messageMap`, restart and rebalance |
| `Subsequences` | what a loop leaves that picks some elements of a slice |
| `HuggingFaceClient` | `huggingface_client.go`, the monitors of `ai_healthchecks.go`, the service itself |
| `RawContentConsumer` | `raw_content_consumer.go`, one pc per goroutine |
| `SummaryConsumer` | `summary_consumer.go` beside the monitor and over the client |
| `SentimentAnalysisConsumer` | `sentiment_analysis_consumer.go`, likewise |
| `ResultsConsumer` | `results_consumer.go` and `BatchInsertSentimentResults` |
| `RedditClient` | `doRequestWithBackoff` of `reddit_client.go` and what it meets at Reddit |
| `ContentProducer` | `cmd/producer/main.go`, `fetch.go` and the Valkey client, over `RedditClient` |
| `TopicGenerator` | `cmd/topic-generator`, `topic_generation.go`, `newsapi_client.go`, `StoreBatchedTopics` |
| `PublishContract` | what a caller of `PublishToKafka` is promised (abstract) |
| `TransactionalProducer` | `producer.go` under main's start-up loop, shown to implement `PublishContract` for one caller |
| `...Proofs` | the theorems about `KafkaConsumer` (lemmas only), the four consumers, both producers and the topic generator |
| `MC...` | the instances TLC checks: logs, sets of contents, listings, headlines |

Every consumer module EXTENDS `KafkaConsumer`; the two that ask a model service
EXTEND `HuggingFaceClient` too, and conjoin its operators (`Answered`,
`RequestAgain`, `RequestsUsedUp`, ...) with their own changes: a request of the
client is a step of the consumer's goroutine, a probe of the monitor is a step
of another one. `ContentProducer` uses `RedditClient` in the same way.

Refinement. `ConsumerContract` knows a consumer's memory as one set and its ends
as two, `settled` (published, or given up after the last attempt) and `dropped`
(no summary, no score, refused). It allows to acknowledge a message only to the
process that was handed it, and only when a content of it is settled; it
allows memory to lose a content only to one of the two ends. Each consumer has

    Consumer == INSTANCE ConsumerContract WITH next <- position, ...

and the property `ImplementsConsumer == Consumer!Spec`. The mapping forgets
buffers, batches, goroutines, retries and the map of messages: that these
together acknowledge nothing else, and in whatever order, is what the four runs
check and the four `Refinement` theorems prove. `TransactionalProducer` has
`Contract == INSTANCE PublishContract`, whose `result` and `visible` are variables
of the detailed module too.

How state and actions correspond to the code:

* A Kafka partition is a constant sequence `Log[p]`; the value at an offset is a
  content ID, a list of them, or `Malformed` (anything `DeserializeFromJSON`
  refuses). What the messages say beyond their content IDs is left out, except
  whether a text is longer than `SUMMARY_THRESHOLD` (`LongContent`).
* `position[p]` is moved by a successful `iterator.Next()`; an error of `Next`
  moves nothing. `Commit(m)` either stores exactly `m`'s offset at the broker or
  is lost, as after `KafkaCommitHandler.Commit` ran out of retries: all four
  callers only log its error.
* In the raw content consumer, the lock of the batch buffer makes `Add`, `Size`
  and `GetAndClear` atomic, and `sync.Map` makes `Store`, `Load` and `Delete`
  atomic, nothing more: each is an action of its own and goroutines interleave
  between any two of them. `Main` is the goroutine of `StartRawContentConsumer`;
  a member of `Worker` is a slot for one `sendBatchToKafka` goroutine.
* The other consumers are a single goroutine, the only one that uses its buffer
  and map. What it does between two calls to the outside (read, HTTP request,
  publish, insert, commit) is one action.
* `PublishToKafka` returns nil, or an error up to three times, after which the
  consumers give up and commit (`abandoned`); what nil is worth is the business
  of `TransactionalProducer`. The goroutines of the raw content consumer share the
  producer: while two of them publish, one may close it, and the other then
  waits for a delivery report that never comes (`PublishHangs`; the wait of
  `producer.go:176` has no timeout). Such a goroutine stays `hung` until the
  process restarts, which nothing makes it do.
* A `Restart` keeps the log, the committed offsets and what was published or
  stored, and starts the process's memory afresh. A `Rebalance` puts the
  positions back to the committed offsets and keeps the memory; librdkafka
  serves it inside `ReadMessage`, so it happens during a read only.
* In the content producer, lookup, publish and mark are an action each for
  success and for failure, with the client's three timed attempts inside. A
  failed publish or mark may have taken effect. `client` is `vc.Client`:
  `recreateClient` can leave it closed for good. `producer` says whether
  `PublishToKafka` can work: a failed publish may leave it `broken` (a fatal error,
  a transaction nobody aborts, a closed producer that was not replaced), and then
  every publish is refused (`PublishRefused`) until a restart. A call for a page
  ends without one when its requests are used up or the body of a good
  answer breaks off (`NoPage`). Reddit's answers are a constant
  (`Listing`), since what changes there is seen by a later fetch only.
* `start`, `reach`, `outcome`, `reported`, `failed`, `committing`, `cause`,
  `given`, `written`, `lost` are history: no guard reads them.
* In `HuggingFaceClient`, `service` is the truth, `probe` what the monitor has
  learnt and not yet stored, `healthy` the flag the consumer reads. `body` says
  whether a request of the call got as far as the service: `DoWithRetry` sends
  the same `http.Request` again, whose body has been read by then, so such a
  request can only fail or be refused. A status below 500 ends the call
  (`Refused`): as an answer without summaries for the summary consumer, whose
  response type is an object like the error, as an error for the other one,
  whose response type is a list. The 10 by 3 calls of a batch are one counter
  (`SummaryCalls`).
* In `RedditClient`, `Header` is what `parseRateLimitHeaders` returns of the
  next answer, which is thrown away when that is one. Each of the five rounds is
  a step.
* In `TopicGenerator` headlines and topics are their URLs; the completion
  returns a list of up to `MaxTopics` topics, with repetitions, with URLs of no
  headline of the batch or none, or nothing usable: the code holds it to
  nothing the prompt asks for. A request to the table that fails may have taken
  effect for part of its items (`StoreError`, `RewriteError`). `expired` is `ctx.Done()` of the run's two
  minutes; it is looked at where the code (or a library it passes the context
  to) does. An entry of the table may go at any time, a run is followed by
  another.
* `initOnce` and `started` of `TransactionalProducer` are the start-up loop of
  main; a process without a producer dies of its first publish (`BeginPanics`).
* In `TransactionalProducer` the states of `txn` are those a caller of
  librdkafka can tell apart by the codes it gets: `none` (no producer), `ready`,
  `inTxn`, `committing` (a commit whose answer did not come), `abortable`,
  `aborting`, `fatal`, and `closed` (`recreateProducer` closed the producer and
  got no new one). In `abortable` and `fatal` `BeginTransaction` returns an error that is
  not `ErrState`, so the call ends there; an abort that fails with one of four codes
  leads to `Recreate`, with any other code `fatal` stays. That a new producer's
  `InitTransactions` ends the old one's open transaction is so with a fixed
  `KAFKA_PRODUCER_ID`; without it the broker's timeout does, and readers see the same.
* The other `ctx.Done()` cases are left out: consumers never cancel their
  context, and the content producer cancels it between two fetches, when it
  ends.

A module's operators under "Mistakes this code could have made" are not part of
its specification. Each is the form a definition would have with a plausible
bug; the list "mutants" of `PROJECT.json` says which property then fails.

## Runs

| Run (cfg) | Checks | Instance |
|---|---|---|
| `raw` (`RawContent`) | `TypeOK`, `NoContentVanishes`, `CommittedWasSettled`, `UncommittedIsRecoverable`, `OnlyAPartialBatchStays`, `ImplementsConsumer` | a malformed value, a long text after short ones, two senders, publishes that hang, one fault, fairness |
| `summary` (`Summary`) | `TypeOK`, `NoContentVanishes`, `CommittedWasSettled`, `UncommittedIsRecoverable`, `UpMeansProgress`, `OutageEnds`, `ImplementsConsumer` | two contents, a malformed value on a second partition, the monitor and a service that comes and goes, fairness |
| `sentiment` (`Sentiment`) | `TypeOK`, `NoContentVanishes`, `CommittedFirstWasSettled`, `UncommittedIsRecoverable`, `ReachesTheEnd`, `ImplementsConsumer` | lists that share a content, two partitions, monitor and service, fairness |
| `results` (`Results`) | `TypeOK`, `InsertsWithinLimit`, `NoResultVanishes`, `CommittedWasInserted`, `UncommittedIsRecoverable`, `OnlyAPartialBatchStays`, `ImplementsConsumer` | a list longer than an insert, two partitions, fairness |
| `producer` (`Producer`) | `TypeOK`, `VisibleOnlyAfterOwnCommit`, `ImplementsContract`, `EveryCallReturns` | start-up, one caller, three calls, fairness |
| `content_producer` (`ContentProducer`) | `TypeOK`, `MarkedWasPublished`, `RepublishedHasACause`, `AllPostsArrive` | two topics, two pages, a post on both and under both topics, a budget of three requests, three failures, a producer that breaks, fairness |
| `topic_generation` (`TopicGenerator`) | `TypeOK`, `RequestsAreAccepted`, `EveryHeadlineIsAccountedFor`, `StoredTopicsAreLeftAlone`, `EveryStepIsCounted`, `GenerationEnds` | two runs, two categories that share a headline, answers of up to three topics with a URL of no headline among them, a full and a partial batch, two slices, fairness |

Together the passing consumer runs say: whatever the interleaving, the failures
and the faults, a content that was handed to a process is in its memory or has
been dealt with; the offset a group has committed is of a message that was dealt
with; and what lies past that offset can be had again. They do NOT say that
nothing is lost: a commit passes over the earlier offsets of its partition, so a
crash loses what was waiting there, and contents whose third publish or insert
failed are committed all the same. The properties are worded to leave exactly
these two ways open.

The content producer's run says: the set in Valkey never holds a post that readers
of `raw-content` do not see, a post comes twice only for a reason of its own,
and every listed post with text comes at least once, even when the Valkey client
stays closed (then all come at every fetch), and whatever Reddit's budget, as long
as it grants more than two requests in a window. The one exception is a producer
that breaks and that no restart replaces: then no publish succeeds again, and
`AllPostsArrive` says that this is the only way for a post to stay away.

`OnlyAPartialBatchStays` of the raw content consumer has an exception of the same
kind. A hung publish keeps its own batch, uncommitted, and its goroutine; every
other content is settled, or waits in a buffer that is not full, as long as a
goroutine is left to take it. When the main goroutine itself hangs in the
publish of a long text the process stops reading, and when all senders of the
instance hang too, all stops: the run therefore allows a deadlock
(`CHECK_DEADLOCK FALSE`), as does that of the topic generator, a program that ends.

The two consumers with a model service say more: if the summarizer is up, its
flag and its buffer do not stand in the way for ever (`UpMeansProgress`), and what an
outage left behind is processed after it, if ticks are served at all
(`OutageEnds`); the sentiment consumer reads on whatever the analyzer does
(`ReachesTheEnd`), at the price of skipping what it cannot have scored.

The topic generator's run says: no list of topics, however odd the completion,
makes a request DynamoDB would refuse; a headline is not lost between buffer,
batches, slices and retries; what the run has seen in the table it does not
overwrite.

Five runs end in a violation: the code does not do what one of its own comments
or log lines says.

| Run | Property | What happens |
|---|---|---|
| `summary_commit_order` | `CommitPreventsReprocessing` (summary_consumer.go:171) | the copy of a content tracked last is committed first, then a lower offset |
| `summary_processing` | `CommittedAfterProcessing` (summary_consumer.go:52) | the commit of a later content covers a batch the summarizer refused or never answered |
| `producer_shared` | `PublishedIsVisible` (producer.go:204) | one goroutine's abort discards the other's message; the other then commits the next transaction and returns nil |
| `producer_startup` | `StartedWithProducer` (cmd/consumer/main.go:34) | the first initialisation fails, `sync.Once` lets the retry return nil, main goes on without a producer |
| `results_stored` | `ReportedIsStored` (dynamodb.go:186) | items unprocessed after three retries are reported as stored |

### Bounds

`BATCH_SIZE` (10 in the code) is 2 for the raw content consumer and 1 for the
summary consumer, whose test is `>`; `INSERT_BATCH_SIZE` (25) is 2: the
properties depend on a buffer being under, at or over its size, not on the
number. `MAX_RETRIES` (5 requests in a call) is 2 and `SummaryCalls` (30) is 2:
there is a first, a last and a repeated request, with and without its body.
`RateLimit` (Reddit's requests per window) is 3, the least with which an answer
is kept at all, so that the budget runs out in the middle of a page. In the
topic generator a batch is 2 headlines (100), a slice 2 topics (25) and `MaxTopics`,
which bounds a completion (the code does not), is 3, for three headlines in two
categories: one full batch, one partial, and two slices, of answers longer than
the batch as well; `MaxRuns` is 2, so that
a run finds what an earlier one stored. Logs of two to four messages with two or
three contents fill a batch, leave a partial one, and repeat a content, which
needs no duplicated delivery: it happens when a publish that was reported as
failed had succeeded, and when the content producer fails to mark a post.
`Worker` bounds the senders alive at once; two are enough for one to overtake
the other. The code has no such bound: with `Worker` all hung, the instance has no
sender left, which `OnlyAPartialBatchStays` excepts. `MaxFaults` bounds restarts and rebalances. `MaxCalls` bounds calls
of `PublishToKafka`; three let a call leave a transaction behind, the next one
meet it and a third one follow. In the content producer a `copies` of two stands
for two or more, `MaxFaults` bounds all failures and restarts together (retries
within the clients' loops are bounded by the loops); three let a publish, its
mark and a lookup fail, or Reddit and the process, in one behaviour. The set may
expire at any time, without a bound. No run uses symmetry.

### Fairness

`WF` of the main goroutine's and of each sender's steps: Go schedules every
goroutine that can run, and each retry loop is a bounded number of timed calls,
except for the wait for a delivery report. That one ends by `message.timeout.ms`
where a single goroutine publishes; where several do it need not, and nothing is
assumed of it: `PublishHangs` may happen to any publish beside another one and
a hung goroutine has no step left to be fair to.
`Receive` is fair because `ReadMessage` returns when there is a message. `Tick`
gets none: `time.Ticker` keeps at most one tick, and the `select` only looks at
it between two reads, which block for as long as the topic is silent. In the
producer, steps of the call are fair, and so is a delivery report, which
`message.timeout.ms` bounds; the broker's own steps, faults and the state of the
services are not. The monitor's steps are fair: its goroutine waits for nothing
but its ticker and a request that `http.Client.Timeout` bounds, and so are the
consumer's requests, for the same reason. The content producer's goroutine is
fair, ticker included: `time.NewTicker` never stops, and the goroutine has
nothing else to wait for between two fetches; its failures are bounded, and an
outage of Reddit ends (`RedditRecovers`), which is the premise "once failures
end" of `AllPostsArrive`. A broken producer is not among the failures that end: a
restart that would replace it has no fairness. That a request to Reddit is answered at all is taken
from Reddit: its client has no timeout. The same holds of NewsAPI, and there
nothing is assumed: `GenerationEnds` starts after the headlines have come, from
where on the completions have the run's context and every loop is counted. Of
DynamoDB it is taken that a request is answered in the end, well or not: nothing in
the code would end one that is not, since the rewrite of unprocessed items
(`dynamodb.go:84`) uses `context.TODO()` and not the run's deadline. The results
consumer's fairness takes the same of its inserts.

## Proofs

Every safety property of the passing runs, and every refinement they check, is a
theorem: the run shows it on its instance, the theorem for every value of the
constants. Each file of proofs ends with `Invariance` (`Spec => []IInv`) and one
theorem for each property that follows.

| Module | Theorems | Of |
|---|---|---|
| `RawContentConsumerProofs` | `TypeCorrect`, `NothingVanishes`, `CommitAfterSettling`, `Recoverable`, `Refinement` | any partitions, contents, log, number of senders, batch size and faults |
| `SummaryConsumerProofs` | the same five | any log, buffer size, requests in a call, calls for a batch, choice of good summaries, faults |
| `SentimentAnalysisConsumerProofs` | the same five | any log of lists, any answers of the model, faults |
| `ResultsConsumerProofs` | the same five and `WithinLimit` | any log of lists, insert size and faults |
| `ContentProducerProofs` | `TypeCorrect`, `NoMarkWithoutMessage`, `DuplicatesHaveACause` | any topics, listings, budget of requests, failures |
| `TransactionalProducerProofs` | `TypeCorrect`, `CountedSteps`, `AloneInvariance`, `OwnCommit`, `Refinement` | any number of calls; the first two of any number of goroutines |
| `TopicGeneratorProofs` | `TypeCorrect`, `AcceptedRequests`, `HeadlinesAccountedFor`, `OldTopicsKept`, `CountedSteps` | any headlines, answers, sizes of batches and slices, number of runs |

They rest on the named assumptions about constants: logs and listings are finite
sequences of the values named, sizes and bounds are natural numbers, positive
where the code divides work by them, and `Main` is not a sender. TLC evaluates
them in every run. Two say more. `OwnCommit`, `Refinement` and `AloneInvariance`
of the producer assume one goroutine (`Caller = {g}`). That is so where the
content producer, the sentiment and the summary consumer publish; the raw content
consumer publishes from several, for which both properties are false:
`producer_shared` is the counterexample. `AcceptedRequests` assumes
`WriteLimitAssumption`, that a slice is no longer than what DynamoDB takes; in the
code both are 25.

No safety property is inductive as it stands. The invariants that are, `IInv` of
each module (`AloneInv` for a single caller), were first given to TLC as
invariants of the module's run, and the lemmas prove that each action keeps them:
one lemma for an action, one step for each conjunct it disturbs.

*Consumers.* A commit is of the message the map gave, so `CommittedWasSettled`
needs that the map holds messages of the right content that were handed to THIS
process (`TrackedMessages`, `TrackedContents`, `TrackedFirst`, `TrackedResults`,
`TrackedInHand`), and that after a publish or insert loop the whole batch is
settled (`SettledBeforeCommit`). After a rebalance positions lie behind what was
handed out, and offsets of messages from before a restart are below `start`;
`OffsetOrder` relates the four. `BatchShape` says when a batch is in hand. The raw
content consumer also needs `Routed` (a publish settles a content only if it goes to the
right topic), the results consumer `Room` (a buffer that is full is taken before
a result is added) and `CurrentInHand` (what is left of the message being split), the
sentiment consumer `CommittedParses` (only a message that lists contents is
committed). `KafkaConsumerProofs` has the steps of reading, committing, restart and
rebalance once for all.

The proof for the raw content consumer establishes invariant and refinement one
after the other. The later three go the other way round: each action's lemma
proves that the bookkeeping above is kept AND that the step is one of the
contract's or leaves it alone. What the contract promises of every state
(`Kept`, `AckedIsSettled` of `ConsumerContract`) is then kept by `ContractKeeps`, a
lemma about the abstract module only, and `KeptMeans` and `AckedMeans` read it
back as `NoContentVanishes` and `CommittedWasSettled` of the detailed one. So the
refinement is the proof of those properties, not an addition to it. (The sentiment
consumer's commits speak by the first content of a batch, which is more than the contract
asks, so `CommittedFirstWasSettled` is a conjunct of its own.) `Recoverable` follows
from the invariant without being part of it: an offset between the committed one
and the position was handed out by this process.

*Content producer.* A post is looked up, published and marked in three steps, with
the client lost or the process dead between any two. `MarkFollowsPublish` and
`CauseBeforePublish` say what is known of the post between them;
`PublishedIsAccountedFor` that what was published is in the set, is about to be
marked, or has a reason to come again.

*Transactional producer.* librdkafka's transaction is shared, and what it holds is
settled by whoever commits next, perhaps after the call is over or by the broker alone. With one
caller `OwnTransaction` ties the open transaction to the call that is made, step
by step, and `RequestedByOwnCall` says that a commit whose answer was lost can
only make that call's message visible, and that the call got no nil.

*Topic generator.* A headline is in the input, the buffer, the batch, the topics
to write or the unprocessed items until it is accounted for (`HeadlinesInHand`);
`Phases` says which of these are empty when, so that at the end of a run none is
left. `TopicsAreDistinct` and `TopicsAreNew` come from what `removeLocalDuplicates`
and `filterAgainstStored` return for every answer (`LocalDuplicates`,
`StoredFiltered`: the same elements but the duplicates, or the stored ones, each
once) and survive the cut into slices (`Cut`).

*Termination.* What can be proved of it without fairness is that the loops end:
`StepsLeft` bounds the steps a run of the topic generator, or a call of
`PublishToKafka`, has before it, and `EveryStepIsCounted` says that each of them
lowers it; for the call also that no other goroutine, fault or answer raises it
(that one is no property of a run: what TLC checks of it is `EveryCallReturns`).
The topic generator's measure gives each headline `BatchSteps + 1` steps, where
`BatchSteps` (`5 * MaxTopics + 6`) is enough for three tries of a completion and
for the longest answer, written in slices of a single topic with three rewrites each. It
needs that an answer has at most `MaxTopics` topics (`AnswerTopics`), for
whatever number that is, and that a slice is never empty (`SliceLengths`). That a step is
then taken is the scheduler's business, and TLC's: with fairness
`GenerationEnds` and `EveryCallReturns` add it on the instances.

Only model-checked: all liveness (`OnlyAPartialBatchStays`, `UpMeansProgress`,
`OutageEnds`, `ReachesTheEnd`, `EveryCallReturns`, `AllPostsArrive`,
`GenerationEnds`), since fairness is about ENABLED, which the provers do not handle; and the
five counterexamples. The order of the elements that the loops of `Picked` keep is
part of the model and no property needs it.

## Not modelled

* Models, configuration, logging, the construction of library clients (OpenAI,
  AWS, Valkey) and the Terraform files have no behaviour of their own. The registry
  of consumers and the wrapper around two of them are set up once.
* Functions without a caller: `HasData`, `Peek`, `Flush` of the batch buffer,
  `GetTopHeadlines` and `GetTopHeadlinesFromFile` of the NewsAPI client.
* Shutdown: a consumer's context is never cancelled; the content producer looks
  at a signal between two fetches only. To the other parts both are a `Restart`.
* Time: what depends on durations (a retry loop longer than
  `max.poll.interval.ms`, a verdict fifteen seconds old) appears as a rebalance or
  a change that may come at any time; backoffs are steps. How large a buffer grows
  while a service is down depends on the length of the topic and is no property here.
* Texts: that a topic gets another text when it is made again, and its posts
  other keys, is outside both models that have topics.

## Plan

Done: every component with a behaviour of its own is modelled and checked; the
safety of all of them, the four consumers' contract and that of the producer for
one caller are proved. Next:

1. What still holds of a producer shared by several goroutines, as an invariant for any
   number of them: a message that became visible was produced by a call.
2. Action properties worth stating and proving: a committed offset never goes
   back except by a commit out of order; what the content producer has marked
   only an expiry takes away.
3. `Pipeline`: two stages joined by a topic, through `ConsumerContract`.
