----------------------- MODULE TransactionalProducer -----------------------
(***************************************************************************)
(* internal/clients/kafka_client/producer.go: one producer for the whole   *)
(* process, one Kafka transaction for every call of PublishToKafka.        *)
(*                                                                         *)
(* librdkafka allows one transaction at a time; nothing in the program     *)
(* keeps two goroutines from calling PublishToKafka at once, as the raw    *)
(* content consumer's do.  What librdkafka and the broker do is external   *)
(* and modelled by what the calls here can see of it (txn, open,           *)
(* requested, report).                                                     *)
(***************************************************************************)
EXTENDS Integers

CONSTANTS
    Caller,      \* goroutines that call PublishToKafka
    MaxCalls     \* bound: calls in a behaviour

ASSUME ProducerAssumption == MaxCalls \in Nat

VARIABLES
    initOnce,    \* initOnce.Do has run its function
    started,     \* InitProducer returned nil to main
    txn,         \* state of the producer's transaction, "none" without one
    open,        \* calls whose message is in the open transaction
    requested,   \* the broker was asked to commit that transaction
    report,      \* what deliveryChan holds for each call
    visible,     \* calls whose message is in a committed transaction
    pc,          \* where each caller is in PublishToKafka
    tries,       \* iterations of the retry loop it is in
    call,        \* its current call, 0 for none
    calls,       \* calls made so far
    result,      \* what each call returned
    committing   \* history: calls that got as far as commitTransaction

brokerVars == <<txn, open, requested, report, visible>>
mainVars == <<initOnce, started>>
callerVars == <<mainVars, pc, tries, call, calls, result, committing>>
vars == <<brokerVars, callerVars>>

Call == 1 .. MaxCalls

maxBeginRetries == 5
MAX_RETRIES == 5
CommitTries == 3

Init ==
    /\ initOnce = FALSE
    /\ started = FALSE
    /\ txn = "none"
    /\ open = {}
    /\ requested = FALSE
    /\ report = [c \in Call |-> "none"]
    /\ visible = {}
    /\ pc = [g \in Caller |-> "idle"]
    /\ tries = [g \in Caller |-> 1]
    /\ call = [g \in Caller |-> 0]
    /\ calls = 0
    /\ result = [c \in Call |-> "none"]
    /\ committing = {}

(* A goroutine enters a stage of PublishToKafka, or another round of its    *)
(* retry loop, or returns.                                                  *)
Enter(g, stage) ==
    /\ pc' = [pc EXCEPT ![g] = stage]
    /\ tries' = [tries EXCEPT ![g] = 1]
    /\ UNCHANGED <<mainVars, call, calls, result>>

Again(g) ==
    /\ tries' = [tries EXCEPT ![g] = @ + 1]
    /\ UNCHANGED <<mainVars, pc, call, calls, result>>

Return(g, what) ==
    /\ pc' = [pc EXCEPT ![g] = "idle"]
    /\ tries' = [tries EXCEPT ![g] = 1]
    /\ call' = [call EXCEPT ![g] = 0]
    /\ result' = [result EXCEPT ![call[g]] = what]
    /\ UNCHANGED <<mainVars, calls>>

-----------------------------------------------------------------------------
(* Mistakes this code could have made.  No action uses them: each stands in *)
(* for the definition its name recalls, to see that a property notices.     *)

(* the loop runs once too often                                             *)
BeginAgainTooOften(g) ==
    /\ pc[g] = "begin"
    /\ txn \in {"inTxn", "committing", "aborting"}
    /\ tries[g] <= maxBeginRetries
    /\ Again(g)
    /\ UNCHANGED <<brokerVars, committing>>

(* commitTransaction returns nil when its attempts are used up              *)
CommitEndsNil(g) ==
    /\ tries[g] = CommitTries
    /\ Return(g, "nil")

(* the wait for the report times out, and nothing is aborted                *)
AwaitTimesOut(g) ==
    /\ pc[g] = "await"
    /\ report[call[g]] \in {"none", "failed"}
    /\ Return(g, "error")
    /\ UNCHANGED <<brokerVars, committing>>

(* only a successful report ends the wait                                   *)
AwaitIgnoresFailure(g) ==
    /\ pc[g] = "await"
    /\ report[call[g]] = "failed"
    /\ UNCHANGED vars

-----------------------------------------------------------------------------
(* main calls InitProducer, every five seconds until it returns nil.        *)
outsideMain == <<open, requested, report, visible, pc, tries, call, calls,
                 result, committing>>

InitProducer ==
    /\ ~started
    /\ ~initOnce
    /\ initOnce' = TRUE
    /\ txn' = "ready"
    /\ started' = TRUE
    /\ UNCHANGED outsideMain

(* createNewProducer fails: the error is returned, and Do has run.          *)
InitProducerFails ==
    /\ ~started
    /\ ~initOnce
    /\ initOnce' = TRUE
    /\ UNCHANGED <<started, txn, outsideMain>>

(* Do does nothing the second time, and there is no error to return.        *)
InitProducerAgain ==
    /\ ~started
    /\ initOnce
    /\ started' = TRUE
    /\ UNCHANGED <<initOnce, txn, outsideMain>>

Start == InitProducer \/ InitProducerFails \/ InitProducerAgain

-----------------------------------------------------------------------------
(* PublishToKafka is called.                                                *)
StartCall(g) ==
    /\ started
    /\ pc[g] = "idle"
    /\ calls < MaxCalls
    /\ calls' = calls + 1
    /\ call' = [call EXCEPT ![g] = calls + 1]
    /\ pc' = [pc EXCEPT ![g] = "begin"]
    /\ tries' = [tries EXCEPT ![g] = 1]
    /\ UNCHANGED <<mainVars, brokerVars, result, committing>>

(* BeginTransaction.                                                        *)
BeginOk(g) ==
    /\ pc[g] = "begin"
    /\ txn = "ready"
    /\ txn' = "inTxn"
    /\ Enter(g, "produce")
    /\ UNCHANGED <<open, requested, report, visible, committing>>

(* ErrState: sleep two seconds and try again, ...                           *)
BeginAgain(g) ==
    /\ pc[g] = "begin"
    /\ txn \in {"inTxn", "committing", "aborting"}
    /\ tries[g] < maxBeginRetries
    /\ Again(g)
    /\ UNCHANGED <<brokerVars, committing>>

(* ... but the loop has no exit of its own: after the fifth ErrState the    *)
(* call goes on to produce, in whatever transaction there is.               *)
BeginFallsThrough(g) ==
    /\ pc[g] = "begin"
    /\ txn \in {"inTxn", "committing", "aborting"}
    /\ tries[g] = maxBeginRetries
    /\ Enter(g, "produce")
    /\ UNCHANGED <<brokerVars, committing>>

(* Any other error is returned: that of a closed producer, and the stored   *)
(* one of a transaction that can only be aborted or of a fatal state.       *)
(* Nothing aborts the transaction or recreates the producer here.           *)
BeginError(g) ==
    /\ pc[g] = "begin"
    /\ txn \in {"abortable", "fatal", "closed"}
    /\ Return(g, "error")
    /\ UNCHANGED <<brokerVars, committing>>

(* Produce puts the message into the open transaction.                      *)
ProduceOk(g) ==
    /\ pc[g] = "produce"
    /\ txn = "inTxn"
    /\ open' = open \cup {call[g]}
    /\ Enter(g, "await")
    /\ UNCHANGED <<txn, requested, report, visible, committing>>

(* A retryable error: recreateProducer knows none of those codes and does   *)
(* nothing; wait and try again, five times in all, then abort.              *)
ProduceAgain(g) ==
    /\ pc[g] = "produce"
    /\ txn # "closed"
    /\ IF tries[g] < MAX_RETRIES THEN Again(g) ELSE Enter(g, "abort")
    /\ UNCHANGED <<brokerVars, committing>>

(* An error that is not retryable, ErrState without a transaction and a     *)
(* fatal one among them; or the message could not be marshalled.            *)
ProduceRefused(g) ==
    /\ pc[g] = "produce"
    /\ Enter(g, "abort")
    /\ UNCHANGED <<brokerVars, committing>>

(* ev := <-deliveryChan, without a timeout.                                 *)
AwaitOk(g) ==
    /\ pc[g] = "await"
    /\ report[call[g]] = "ok"
    /\ Enter(g, "commit")
    /\ committing' = committing \cup {call[g]}
    /\ UNCHANGED brokerVars

AwaitFailed(g) ==
    /\ pc[g] = "await"
    /\ report[call[g]] = "failed"
    /\ Enter(g, "abort")
    /\ UNCHANGED <<brokerVars, committing>>

-----------------------------------------------------------------------------
(* commitTransaction: three attempts without a pause.  A commit that works  *)
(* makes everything in the transaction visible, whoever put it there.       *)
CommitOk(g) ==
    /\ pc[g] = "commit"
    /\ txn \in {"inTxn", "committing"}
    /\ visible' = visible \cup open
    /\ report' = [c \in Call |-> IF c \in open /\ report[c] = "none"
                                 THEN "ok" ELSE report[c]]
    /\ txn' = "ready"
    /\ open' = {}
    /\ requested' = FALSE
    /\ Return(g, "nil")
    /\ UNCHANGED committing

(* The third error is returned as it is: nobody aborts.                     *)
CommitGivesUp(g) ==
    /\ tries[g] = CommitTries
    /\ Return(g, "error")

CommitFailed(g) ==
    \/ tries[g] < CommitTries /\ Again(g)
    \/ CommitGivesUp(g)

(* The answer of the broker does not arrive in time: the commit stays on    *)
(* its way and a further attempt takes it up again.                         *)
CommitTimesOut(g) ==
    /\ pc[g] = "commit"
    /\ txn \in {"inTxn", "committing"}
    /\ report' = [c \in Call |-> IF c \in open /\ report[c] = "none"
                                 THEN "ok" ELSE report[c]]
    /\ txn' = "committing"
    /\ requested' = TRUE
    /\ CommitFailed(g)
    /\ UNCHANGED <<open, visible, committing>>

(* No transaction to commit, or one that can only be aborted.               *)
CommitRefused(g) ==
    /\ pc[g] = "commit"
    /\ txn \in {"ready", "abortable", "aborting", "fatal", "closed"}
    /\ CommitFailed(g)
    /\ UNCHANGED <<brokerVars, committing>>

-----------------------------------------------------------------------------
(* abortTransaction: whatever its outcome, the call returns its error.      *)
AbortOk(g) ==
    /\ pc[g] = "abort"
    /\ txn \in {"inTxn", "abortable", "aborting"}
    /\ txn' = "ready"
    /\ open' = {}
    /\ report' = [c \in Call |-> IF c \in open /\ report[c] = "none"
                                 THEN "failed" ELSE report[c]]
    /\ Return(g, "error")
    /\ UNCHANGED <<requested, visible, committing>>

(* It fails with a code for which recreateProducer does nothing (also fatal *)
(* ones: of them it knows four, and not that of a fenced producer), and has *)
(* to be called again before another transaction can begin.                 *)
AbortTimesOut(g) ==
    /\ pc[g] = "abort"
    /\ txn \in {"inTxn", "abortable", "aborting", "fatal", "closed"}
    /\ txn' = IF txn \in {"fatal", "closed"} THEN txn ELSE "aborting"
    /\ Return(g, "error")
    /\ UNCHANGED <<open, requested, report, visible, committing>>

(* ErrState or a fatal error: recreateProducer closes the producer.  A      *)
(* report not yet delivered never will be.                                  *)
AbortRefused(g) ==
    /\ pc[g] = "abort"
    /\ txn \in {"ready", "committing", "fatal"}
    /\ txn' = "closed"
    /\ report' = [c \in Call |-> IF c \in open /\ report[c] = "none"
                                 THEN "never" ELSE report[c]]
    /\ Enter(g, "recreate")
    /\ UNCHANGED <<open, requested, visible, committing>>

(* createNewProducer: with KAFKA_PRODUCER_ID set, InitTransactions ends     *)
(* what the old one left open; under a new transactional id the broker does *)
(* when transaction.timeout.ms is over.  (A commit on its way may take      *)
(* effect until then; nothing below depends on the moment, so it has taken  *)
(* effect before or does not.)  Or it fails, and the variable keeps the     *)
(* closed producer.                                                         *)
Recreate(g) ==
    /\ pc[g] = "recreate"
    /\ \/ /\ txn' = "ready"
          /\ open' = {}
          /\ requested' = FALSE
       \/ UNCHANGED <<txn, open, requested>>
    /\ Return(g, "error")
    /\ UNCHANGED <<report, visible, committing>>

-----------------------------------------------------------------------------
(* librdkafka and the broker (external).                                    *)

(* A report reaches deliveryChan; message.timeout.ms bounds the wait.  A    *)
(* message that cannot be delivered makes the transaction abortable.        *)
Delivered(c) ==
    /\ c \in open /\ report[c] = "none"
    /\ txn = "inTxn"
    /\ report' = [report EXCEPT ![c] = "ok"]
    /\ UNCHANGED <<txn, open, requested, visible, callerVars>>

NotDelivered(c) ==
    /\ c \in open /\ report[c] = "none"
    /\ txn \in {"inTxn", "abortable", "aborting", "fatal"}
    /\ report' = [report EXCEPT ![c] = "failed"]
    /\ txn' = IF txn = "inTxn" THEN "abortable" ELSE txn
    /\ UNCHANGED <<open, requested, visible, callerVars>>

(* A commit whose answer was not awaited takes effect, or is turned down.   *)
BrokerCommits ==
    /\ requested
    /\ ~(open \subseteq visible)
    /\ visible' = visible \cup open
    /\ UNCHANGED <<txn, open, requested, report, callerVars>>

BrokerRefuses ==
    /\ txn = "committing"
    /\ open \cap visible = {}
    /\ txn' = "abortable"
    /\ requested' = FALSE
    /\ UNCHANGED <<open, report, visible, callerVars>>

(* The producer is fenced or meets another fatal error.                     *)
FatalError ==
    /\ txn \notin {"none", "fatal", "closed"}
    /\ txn' = "fatal"
    /\ UNCHANGED <<open, requested, report, visible, callerVars>>

(* The process is killed, or dies of the use of a closed producer, and is   *)
(* started again; calls under way never return.  Its transaction is aborted *)
(* (a commit on its way has taken effect before, or does not any more).     *)
Restart ==
    /\ initOnce' = FALSE
    /\ started' = FALSE
    /\ txn' = "none"
    /\ open' = {}
    /\ requested' = FALSE
    /\ pc' = [g \in Caller |-> "idle"]
    /\ tries' = [g \in Caller |-> 1]
    /\ call' = [g \in Caller |-> 0]
    /\ UNCHANGED <<report, visible, calls, result, committing>>

(* BeginTransaction of a producer that was never made: a nil dereference.   *)
BeginPanics(g) ==
    /\ pc[g] = "begin"
    /\ txn = "none"
    /\ Restart

-----------------------------------------------------------------------------
PublishStep(g) ==
    \/ BeginOk(g) \/ BeginAgain(g) \/ BeginFallsThrough(g) \/ BeginError(g)
    \/ BeginPanics(g)
    \/ ProduceOk(g) \/ ProduceAgain(g) \/ ProduceRefused(g)
    \/ AwaitOk(g) \/ AwaitFailed(g)
    \/ CommitOk(g) \/ CommitTimesOut(g) \/ CommitRefused(g)
    \/ AbortOk(g) \/ AbortTimesOut(g) \/ AbortRefused(g) \/ Recreate(g)

Report(c) == Delivered(c) \/ NotDelivered(c)

Next ==
    \/ Start
    \/ \E g \in Caller : StartCall(g) \/ PublishStep(g)
    \/ \E c \in Call : Report(c)
    \/ BrokerCommits
    \/ BrokerRefuses
    \/ FatalError
    \/ Restart

Spec == Init /\ [][Next]_vars

(* A call's loops are bounded and its waits timed; a message in a           *)
(* transaction is reported within message.timeout.ms.                       *)
FairSpec ==
    /\ Spec
    /\ \A g \in Caller : WF_vars(PublishStep(g))
    /\ \A c \in Call : WF_vars(Report(c))

-----------------------------------------------------------------------------
TypeOK ==
    /\ initOnce \in BOOLEAN /\ started \in BOOLEAN
    /\ txn \in {"none", "ready", "inTxn", "committing", "abortable",
                "aborting", "fatal", "closed"}
    /\ open \subseteq Call
    /\ requested \in BOOLEAN
    /\ report \in [Call -> {"none", "ok", "failed", "never"}]
    /\ visible \subseteq Call
    /\ pc \in [Caller -> {"idle", "begin", "produce", "await", "commit",
                          "abort", "recreate"}]
    /\ tries \in [Caller -> 1 .. MAX_RETRIES]
    /\ call \in [Caller -> 0 .. MaxCalls]
    /\ calls \in 0 .. MaxCalls
    /\ result \in [Call -> {"none", "nil", "error"}]
    /\ committing \subseteq Call

(* With one caller, the calls keep PublishContract: nil means visible, and  *)
(* no step makes two messages visible or ends two calls at once.            *)
Contract == INSTANCE PublishContract

ImplementsContract == Contract!Spec

(* A message becomes visible only after its own call has asked for the      *)
(* commit: what a call leaves behind when it fails earlier is aborted, and  *)
(* never rides along in the transaction of a later call.                    *)
VisibleOnlyAfterOwnCommit == visible \subseteq committing

(* Every call returns, or the process dies: each of the retry loops ends,   *)
(* and the report that is awaited without a timeout arrives.                *)
EveryCallReturns == \A g \in Caller : pc[g] # "idle" ~> pc[g] = "idle"

(* The steps a call has left at most, its retries among them.               *)
StepsLeft(g) ==
    CASE pc[g] = "begin"    -> 17 - tries[g]
      [] pc[g] = "produce"  -> 12 - tries[g]
      [] pc[g] = "await"    -> 6
      [] pc[g] = "commit"   -> 6 - tries[g]
      [] pc[g] = "abort"    -> 2
      [] pc[g] = "recreate" -> 1
      [] OTHER              -> 0

(* What makes the loops end: each step of a call is one of those, and no    *)
(* other goroutine, no fault and no answer of the broker gives it more.     *)
EveryStepIsCounted ==
    [][\A g \in Caller :
          /\ PublishStep(g) => StepsLeft(g)' < StepsLeft(g)
          /\ pc[g] # "idle" => StepsLeft(g)' <= StepsLeft(g)]_vars

(* producer.go:204 logs "Published Content to Kafka transactionally" before *)
(* it returns nil: then the content is in a committed transaction.          *)
PublishedIsVisible == \A c \in Call : result[c] = "nil" => c \in visible

(* cmd/consumer/main.go:34 logs "Kafka init failed, retrying...": when the  *)
(* retries end, because InitProducer returned nil, there is a producer.     *)
StartedWithProducer == started => txn # "none"

-----------------------------------------------------------------------------
(* The inductive invariants of TransactionalProducerProofs.  Whatever the   *)
(* number of callers, one that is in PublishToKafka has a call;             *)
InACall == \A g \in Caller : pc[g] # "idle" => call[g] \in 1 .. calls

IInv == TypeOK /\ InACall

(* and if there is only one, its calls follow each other: a call has no     *)
(* result while it is made, or before,                                      *)
NoResultYet ==
    /\ \A g \in Caller : pc[g] # "idle" => result[call[g]] = "none"
    /\ \A c \in Call : c > calls => result[c] = "none"

(* a transaction is begun empty and no call but the one that began it finds *)
(* it open,                                                                 *)
OwnTransaction ==
    /\ ~started => txn = "none" /\ \A g \in Caller : pc[g] = "idle"
    /\ txn \in {"none", "ready"} => open = {}
    /\ \A g \in Caller :
          /\ txn = "inTxn" =>
                /\ open \subseteq {call[g]}
                /\ pc[g] \in {"produce", "await", "commit", "abort"}
          /\ pc[g] \in {"await", "commit"} => open = {call[g]}
          /\ pc[g] = "commit" => call[g] \in committing

(* and what the broker may commit later is the one message whose call asked *)
(* for it, and got no nil.                                                  *)
RequestedByOwnCall ==
    /\ requested =>
          /\ txn \in {"committing", "fatal", "closed"}
          /\ \E c \in committing : open = {c}
    /\ \A c \in open : result[c] # "nil"

AloneInv ==
    /\ IInv
    /\ NoResultYet
    /\ OwnTransaction
    /\ RequestedByOwnCall
    /\ VisibleOnlyAfterOwnCommit

=============================================================================
