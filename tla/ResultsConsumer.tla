--------------------------- MODULE ResultsConsumer ---------------------------
(***************************************************************************)
(* internal/consumers/results_consumer.go with BatchInsertSentimentResults *)
(* of internal/db/dynamodb.go.                                             *)
(*                                                                         *)
(* A message of "sentiment-results" is a LIST of results, and one insert   *)
(* takes INSERT_BATCH_SIZE of them: a message can span two inserts, and an *)
(* insert several messages.  One goroutine reads, fills insertBuffer and,  *)
(* when it is full or on a tick, inserts and then commits, for each result *)
(* of the batch, the message last tracked for it.                          *)
(***************************************************************************)
EXTENDS KafkaConsumer, Functions

CONSTANTS
    Malformed,          \* a value that is not a list of results in JSON
    INSERT_BATCH_SIZE   \* utils.INSERT_BATCH_SIZE

ASSUME ResultsAssumption ==
    /\ \A p \in Partition : Log[p] \in Seq(Seq(ContentID) \cup {Malformed})
    /\ Malformed \notin Seq(ContentID)
    /\ INSERT_BATCH_SIZE \in Nat \ {0}

VARIABLES
    pc,          \* where the goroutine is
    current,     \* the message whose results are being added
    rest,        \* its results still to be added
    buffer,      \* insertBuffer
    batch,       \* the results being inserted, then committed
    attempt,     \* which of its three inserts processResults makes
    unprocessed, \* what BatchWriteItem is asked to write
    retryCount,  \* retries of unprocessed items in this insert
    table,       \* contents in the DynamoDB table
    reported,    \* history: contents an insert reported as stored
    failed       \* history: contents whose third insert failed

batchVars == <<batch, attempt, unprocessed, retryCount>>
storeVars == <<table, reported, failed>>
vars == <<kafkaVars, pc, current, rest, buffer, batchVars, storeVars>>

Attempts == 3
MaxRetryCount == 3

Init ==
    /\ KafkaInit
    /\ pc = "select"
    /\ current = NoMessage
    /\ rest = <<>>
    /\ buffer = <<>>
    /\ batch = <<>>
    /\ attempt = 1
    /\ unprocessed = {}
    /\ retryCount = 0
    /\ table = {}
    /\ reported = {}
    /\ failed = {}

-----------------------------------------------------------------------------
(* Mistakes this code could have made.  No action uses them: each stands in *)
(* for the definition its name recalls, to see that a property notices.     *)

(* the size is asked once per message, as the other consumers do            *)
FullAfterMessage(b) == Len(b) >= INSERT_BATCH_SIZE /\ Len(rest) = 1

(* the loop over the message's results ends with the insert                 *)
BackToSelect ==
    /\ pc' = "select"
    /\ rest' = <<>>
    /\ UNCHANGED current

(* an error ends the insert loop, the commits follow                        *)
InsertRetryBreaks ==
    /\ pc = "insert"
    /\ pc' = "commit"
    /\ unprocessed' = {}
    /\ UNCHANGED <<kafkaVars, current, rest, buffer, batch, attempt, retryCount,
                   storeVars>>

(* the failed inserts are not counted                                       *)
InsertRetryForever ==
    /\ pc = "insert"
    /\ unprocessed' = Range(batch)
    /\ retryCount' = 0
    /\ UNCHANGED <<kafkaVars, pc, current, rest, buffer, batch, attempt,
                   storeVars>>

(* the loop counts its last retry too                                       *)
InsertOnceMore ==
    /\ pc = "insert"
    /\ attempt <= Attempts
    /\ attempt' = attempt + 1
    /\ UNCHANGED <<kafkaVars, pc, current, rest, buffer, batch, unprocessed,
                   retryCount, storeVars>>

-----------------------------------------------------------------------------
(* The loop.                                                                *)
Tick ==
    /\ pc = "select"
    /\ pc' = "process"
    /\ UNCHANGED <<kafkaVars, current, rest, buffer, batchVars, storeVars>>

EnterRead ==
    /\ pc = "select"
    /\ pc' = "read"
    /\ UNCHANGED <<kafkaVars, current, rest, buffer, batchVars, storeVars>>

ReadError ==
    /\ pc = "read"
    /\ pc' = "select"
    /\ UNCHANGED <<kafkaVars, current, rest, buffer, batchVars, storeVars>>

(* A value that does not parse is dropped; a list of no results adds none.  *)
Receive(p) ==
    LET m == NextMessage(p)
        results == IF Value(m) = Malformed THEN <<>> ELSE Value(m)
    IN  /\ pc = "read"
        /\ HasNext(p)
        /\ Advance(p)
        /\ current' = IF results = <<>> THEN NoMessage ELSE m
        /\ rest' = results
        /\ pc' = IF results = <<>> THEN "select" ELSE "add"
        /\ UNCHANGED <<committed, messageMap, faults, buffer, batchVars,
                       storeVars>>

(* insertBuffer.Size() >= utils.INSERT_BATCH_SIZE, asked after every Add.   *)
Full(b) == Len(b) >= INSERT_BATCH_SIZE

(* Where the goroutine is when no insert is due: r is left of the message.  *)
Continue(r) == IF r = <<>> THEN "select" ELSE "add"

AddResult ==
    /\ pc = "add"
    /\ TrackMessage(Head(rest), current)
    /\ buffer' = Append(buffer, Head(rest))
    /\ rest' = Tail(rest)
    /\ current' = IF Len(rest) = 1 THEN NoMessage ELSE current
    /\ pc' = IF Full(buffer') THEN "process" ELSE Continue(rest')
    /\ UNCHANGED <<position, committed, faults, start, reach, batchVars,
                   storeVars>>

-----------------------------------------------------------------------------
(* processResults; an empty buffer ends it.                                 *)
TakeBatch ==
    /\ pc = "process"
    /\ batch' = buffer
    /\ unprocessed' = Range(buffer)
    /\ buffer' = <<>>
    /\ pc' = IF buffer = <<>> THEN Continue(rest) ELSE "insert"
    /\ UNCHANGED <<kafkaVars, current, rest, attempt, retryCount, storeVars>>

(* DynamoDB refuses a request that names a key twice (external), and the    *)
(* key is the content ID.                                                   *)
Acceptable == retryCount > 0 \/ IsInjective(batch)

(* BatchWriteItem leaves some items unprocessed: they are written again,    *)
(* three times at most; then they are logged and nil is returned.           *)
WriteAgain(left) ==
    /\ left # {}
    /\ retryCount < MaxRetryCount
    /\ unprocessed' = left
    /\ retryCount' = retryCount + 1
    /\ UNCHANGED <<pc, batch, attempt, reported>>

InsertReturnsNil(left) ==
    /\ left = {} \/ retryCount = MaxRetryCount
    /\ reported' = reported \cup Range(batch)
    /\ unprocessed' = {}
    /\ retryCount' = 0
    /\ attempt' = 1
    /\ pc' = "commit"
    /\ UNCHANGED batch

Write(left) ==
    /\ pc = "insert"
    /\ Acceptable
    /\ left \subseteq unprocessed
    /\ table' = table \cup (unprocessed \ left)
    /\ WriteAgain(left) \/ InsertReturnsNil(left)
    /\ UNCHANGED <<kafkaVars, current, rest, buffer, failed>>

(* BatchWriteItem returns an error; when only its answer was lost, it has   *)
(* written the items in done.                                               *)
WriteError(done) ==
    /\ done \subseteq (IF Acceptable THEN unprocessed ELSE {})
    /\ table' = table \cup done

(* The whole batch is inserted again, without a pause, ...                  *)
InsertRetry ==
    /\ pc = "insert"
    /\ attempt < Attempts
    /\ \E done \in SUBSET unprocessed : WriteError(done)
    /\ attempt' = attempt + 1
    /\ unprocessed' = Range(batch)
    /\ retryCount' = 0
    /\ UNCHANGED <<kafkaVars, pc, current, rest, buffer, batch, reported, failed>>

(* ... and after the third error its messages are committed all the same.   *)
InsertGiveUp ==
    /\ pc = "insert"
    /\ attempt = Attempts
    /\ \E done \in SUBSET unprocessed : WriteError(done)
    /\ failed' = failed \cup Range(batch)
    /\ attempt' = 1
    /\ unprocessed' = {}
    /\ retryCount' = 0
    /\ pc' = "commit"
    /\ UNCHANGED <<kafkaVars, current, rest, buffer, batch, reported>>

(* The batch is done: on with the message it interrupted, or the loop.      *)
BackToMessage ==
    /\ pc' = Continue(rest)
    /\ UNCHANGED <<current, rest>>

NextResult ==
    /\ batch' = Tail(batch)
    /\ IF Len(batch) > 1 THEN UNCHANGED <<pc, current, rest>> ELSE BackToMessage

CommitTracked ==
    LET c == Head(batch)
    IN  /\ pc = "commit"
        /\ messageMap[c] # NoMessage
        /\ Commit(messageMap[c])
        /\ Untrack(c)
        /\ NextResult
        /\ UNCHANGED <<position, faults, start, reach, buffer, attempt,
                       unprocessed, retryCount, storeVars>>

NothingTracked ==
    /\ pc = "commit"
    /\ messageMap[Head(batch)] = NoMessage
    /\ NextResult
    /\ UNCHANGED <<kafkaVars, buffer, attempt, unprocessed, retryCount,
                   storeVars>>

-----------------------------------------------------------------------------
Restart ==
    /\ KafkaRestart
    /\ pc' = "select"
    /\ current' = NoMessage
    /\ rest' = <<>>
    /\ buffer' = <<>>
    /\ batch' = <<>>
    /\ attempt' = 1
    /\ unprocessed' = {}
    /\ retryCount' = 0
    /\ UNCHANGED storeVars

Rebalance ==
    /\ pc = "read"
    /\ KafkaRebalance
    /\ UNCHANGED <<pc, current, rest, buffer, batchVars, storeVars>>

ProcessStep ==
    \/ TakeBatch
    \/ \E left \in SUBSET unprocessed : Write(left)
    \/ InsertRetry
    \/ InsertGiveUp
    \/ CommitTracked
    \/ NothingTracked

Loop ==
    \/ EnterRead
    \/ \E p \in Partition : Receive(p)
    \/ AddResult
    \/ ProcessStep

Next == Loop \/ Tick \/ ReadError \/ Restart \/ Rebalance

Spec == Init /\ [][Next]_vars

(* The goroutine runs and its retry loops are bounded; no tick is promised. *)
FairSpec == Spec /\ WF_vars(Loop)

-----------------------------------------------------------------------------
TypeOK ==
    /\ KafkaTypeOK
    /\ pc \in {"select", "read", "add", "process", "insert", "commit"}
    /\ current \in Message \cup {NoMessage}
    /\ rest \in Seq(ContentID)
    /\ buffer \in Seq(ContentID)
    /\ batch \in Seq(ContentID)
    /\ attempt \in 1 .. Attempts
    /\ unprocessed \subseteq Range(batch)
    /\ retryCount \in 0 .. MaxRetryCount
    /\ table \cup reported \cup failed \subseteq ContentID

Results(p, o) == IF Log[p][o] = Malformed THEN {} ELSE Range(Log[p][o])

SettledContents == reported \cup failed

Settled(c) == c \in SettledContents

InMemory == Range(rest) \cup Range(buffer) \cup Range(batch)

Held(c) == c \in InMemory

(* BatchWriteItem takes at most 25 items: whatever the lengths of the lists *)
(* and wherever the ticker cuts them, no insert is larger than that.        *)
InsertsWithinLimit == Len(batch) <= INSERT_BATCH_SIZE

(* A message's results are added one by one, with whole inserts and commits *)
(* in between, and none gets lost on the way: it is in memory, or its       *)
(* insert has been reported as stored or given up.                          *)
NoResultVanishes ==
    \A p \in Partition : \A o \in HandedOut(p) :
        \A c \in Results(p, o) : Held(c) \/ Settled(c)

(* A message is committed when an insert with one of ITS results is over,   *)
(* and not before: the group's committed offset is always of such a message *)
(* (others of its results may still wait, and are lost if the process ends).*)
CommittedWasInserted ==
    \A p \in Partition :
        committed[p] > 0 => \E c \in Results(p, committed[p]) : Settled(c)

(* Every result of a message past the committed offset is still to be       *)
(* handed out (again), in memory, or settled, across restarts and           *)
(* rebalances.                                                              *)
UncommittedIsRecoverable ==
    \A p \in Partition : \A o \in committed[p] + 1 .. Len(Log[p]) :
        o > position[p] \/ \A c \in Results(p, o) : Held(c) \/ Settled(c)

(* Every result handed out is settled in the end but for less than a full   *)
(* batch, which no tick reaches while the goroutine blocks in a read: the   *)
(* retries of unprocessed items, inside the retries of inserts, inside the  *)
(* loop over a message, all end.                                            *)
OnlyAPartialBatchStays ==
    <>[](/\ Len(buffer) < INSERT_BATCH_SIZE
         /\ \A p \in Partition : \A o \in HandedOut(p) :
              \A c \in Results(p, o) : Settled(c) \/ c \in Range(buffer))

MessageContents ==
    [p \in Partition |-> [o \in 1 .. Len(Log[p]) |-> Results(p, o)]]

(* The consumer is a ConsumerContract that drops nothing: the inserts in    *)
(* the middle of a message, their retries and the commits let no result go  *)
(* before it is settled.                                                    *)
Consumer == INSTANCE ConsumerContract WITH
    Contents <- MessageContents,
    next <- position,
    acked <- committed,
    taken <- Taken,
    held <- InMemory,
    settled <- SettledContents,
    dropped <- {}

ImplementsConsumer == Consumer!Spec

-----------------------------------------------------------------------------
(* dynamodb.go:186 logs "Successfully stored sentiment results" before the  *)
(* insert returns nil, on which the messages are committed: what an insert  *)
(* reported as stored is in the table.                                      *)
ReportedIsStored == reported \subseteq table

-----------------------------------------------------------------------------
(* The inductive invariant of the proofs.                                   *)

(* A batch is in hand only while it is inserted and committed, results of a *)
(* message only from its read to the last of its adds.                      *)
BatchShape ==
    /\ pc \in {"insert", "commit"} <=> batch # <<>>
    /\ pc # "insert" => unprocessed = {}
    /\ pc \in {"select", "read"} => rest = <<>>
    /\ pc = "add" => rest # <<>>

(* A full buffer is taken before anything else is added to it.              *)
Room ==
    /\ InsertsWithinLimit
    /\ Len(buffer) <= INSERT_BATCH_SIZE
    /\ pc \in {"select", "read", "add"} => ~Full(buffer)
    /\ pc \in {"insert", "commit"} => buffer = <<>>

(* A commit comes after the insert loop, which speaks for the whole batch.  *)
SettledBeforeCommit == pc = "commit" => Range(batch) \subseteq SettledContents

(* A message this process was handed and that lists the results in C.       *)
Lists(m, C) ==
    /\ InHand(m)
    /\ Value(m) # Malformed
    /\ C \subseteq Range(Value(m))

CurrentInHand == rest # <<>> => Lists(current, Range(rest))

TrackedResults ==
    \A c \in ContentID : messageMap[c] # NoMessage => Lists(messageMap[c], {c})

Bookkeeping ==
    /\ TypeOK
    /\ BatchShape
    /\ Room
    /\ SettledBeforeCommit
    /\ OffsetOrder
    /\ CurrentInHand
    /\ TrackedResults

IInv == Bookkeeping /\ Consumer!Kept /\ Consumer!AckedIsSettled

=============================================================================
