------------------------- MODULE ResultsConsumerProofs -------------------------
(***************************************************************************)
(* The safety of ResultsConsumer, and that it is a ConsumerContract, for   *)
(* any number of partitions and results, any log of lists of any length,   *)
(* any size of an insert and any bound on restarts and rebalances.         *)
(*                                                                         *)
(* As in SummaryConsumerProofs, one lemma for each action shows that it    *)
(* keeps the Bookkeeping and is a step of the contract.                    *)
(***************************************************************************)
EXTENDS ResultsConsumer, KafkaConsumerProofs

ContractStep == [Consumer!Next]_(Consumer!vars)

-----------------------------------------------------------------------------
(* The log: what a message lists.                                           *)

LEMMA Contents ==
    ASSUME NEW p \in Partition
    PROVE  /\ Len(MessageContents[p]) = Len(Log[p])
           /\ \A o \in 1 .. Len(Log[p]) :
                /\ MessageContents[p][o] = Results(p, o)
                /\ Log[p][o] # Malformed => Log[p][o] \in Seq(ContentID)
                /\ Results(p, o) \subseteq ContentID
<1>1. Len(Log[p]) \in Nat /\ Log[p] \in Seq(Seq(ContentID) \cup {Malformed})
  BY KafkaAssumption, ResultsAssumption
<1>2. \A o \in 1 .. Len(Log[p]) : Log[p][o] \in Seq(ContentID) \cup {Malformed}
  BY <1>1
<1>3. \A o \in 1 .. Len(Log[p]) : Results(p, o) \subseteq ContentID
  BY <1>2, RangeInSet DEF Results
<1>4. MessageContents[p] = [o \in 1 .. Len(Log[p]) |-> Results(p, o)]
  BY DEF MessageContents
<1>5. MessageContents[p] \in [1 .. Len(Log[p]) -> SUBSET ContentID]
  BY <1>3, <1>4
<1>6. Len(MessageContents[p]) = Len(Log[p])
  BY <1>1, <1>5, LenOfFunction
<1>7. QED BY <1>2, <1>3, <1>4, <1>6

-----------------------------------------------------------------------------
(* Frames.                                                                  *)

LEMMA ListsStays ==
    ASSUME NEW m, NEW C, NEW D \in SUBSET C, Lists(m, C),
           \A q \in Partition : HandedOut(q) \subseteq HandedOut(q)'
    PROVE  Lists(m, D)'
<1>1. InHand(m)'
  BY InHandStays DEF Lists
<1>2. QED BY <1>1 DEF Lists, Value

LEMMA AllTrackedInHand == Bookkeeping => TrackedInHand
  BY DEF Bookkeeping, TrackedResults, Lists, TrackedInHand

(* The parts of the Bookkeeping that speak of Kafka only.                   *)
LEMMA KafkaFrame ==
    ASSUME Bookkeeping, UNCHANGED kafkaVars
    PROVE  /\ KafkaTypeOK' /\ OffsetOrder' /\ TrackedResults'
           /\ \A q \in Partition : HandedOut(q) \subseteq HandedOut(q)'
           /\ Taken' = Taken
           /\ UNCHANGED <<position, committed>>
<1>1. KafkaTypeOK /\ OffsetOrder /\ TrackedInHand
  BY AllTrackedInHand DEF Bookkeeping, TypeOK
<1>2. \A q \in Partition : HandedOut(q)' = HandedOut(q)
  BY <1>1, KafkaStutters
<1>3. TrackedResults'
  BY <1>2, ListsStays DEF Bookkeeping, TrackedResults, kafkaVars
<1>4. QED BY <1>1, <1>2, <1>3, KafkaStutters DEF Taken, kafkaVars

LEMMA CurrentFrame ==
    ASSUME Bookkeeping, UNCHANGED <<current, rest>>,
           \A q \in Partition : HandedOut(q) \subseteq HandedOut(q)'
    PROVE  CurrentInHand' /\ current' \in Message' \cup {NoMessage}
<1>1. CurrentInHand'
  BY ListsStays DEF Bookkeeping, CurrentInHand
<1>2. QED BY <1>1 DEF Bookkeeping, TypeOK, Message

(* Steps of which the contract sees nothing.                                *)
LEMMA Unseen ==
    ASSUME Bookkeeping, UNCHANGED <<kafkaVars, reported, failed>>, InMemory' = InMemory
    PROVE  UNCHANGED Consumer!vars
  BY KafkaFrame DEF Consumer!vars, SettledContents

-----------------------------------------------------------------------------
(* Steps that move no result.                                               *)
LEMMA ControlSteps ==
    ASSUME Bookkeeping,
           Tick \/ EnterRead \/ ReadError \/ UNCHANGED vars
    PROVE  Bookkeeping' /\ ContractStep
<1> USE DEF Bookkeeping
<1>1. UNCHANGED <<kafkaVars, current, rest, buffer, batchVars, storeVars>>
  BY DEF Tick, EnterRead, ReadError, vars
<1>2. /\ pc' = pc \/ (pc \in {"select", "read"} /\ pc' \in {"select", "read", "process"})
      /\ pc' \in {"select", "read", "add", "process", "insert", "commit"}
  BY DEF Tick, EnterRead, ReadError, vars, TypeOK
<1>3. CurrentInHand' /\ current' \in Message' \cup {NoMessage}
  BY <1>1, KafkaFrame, CurrentFrame
<1>4. TypeOK'
  BY <1>1, <1>2, <1>3, KafkaFrame DEF TypeOK, batchVars, storeVars
<1>5. BatchShape'
  BY <1>1, <1>2 DEF BatchShape, batchVars
<1>6. Room' /\ SettledBeforeCommit'
  BY <1>1, <1>2
  DEF Room, InsertsWithinLimit, Full, SettledBeforeCommit, SettledContents, batchVars, storeVars
<1>7. InMemory' = InMemory
  BY <1>1 DEF InMemory, batchVars
<1>8. UNCHANGED Consumer!vars
  BY <1>1, <1>7, Unseen DEF storeVars
<1>9. QED BY <1>1, <1>3, <1>4, <1>5, <1>6, <1>8, KafkaFrame DEF ContractStep

-----------------------------------------------------------------------------
(* Reading, and adding result by result.                                    *)

LEMMA ReceiveStep ==
    ASSUME Bookkeeping, NEW p \in Partition, Receive(p)
    PROVE  Bookkeeping' /\ ContractStep
<1> USE DEF Bookkeeping
<1> DEFINE o == position[p] + 1
<1> PICK m : m = NextMessage(p)
  OBVIOUS
<1> PICK results : results = IF Value(m) = Malformed THEN <<>> ELSE Value(m)
  OBVIOUS
<1>1. /\ pc = "read" /\ HasNext(p) /\ Advance(p)
      /\ current' = IF results = <<>> THEN NoMessage ELSE m
      /\ rest' = results
      /\ pc' = IF results = <<>> THEN "select" ELSE "add"
      /\ UNCHANGED <<committed, messageMap, faults, buffer, batchVars, storeVars>>
  BY DEF Receive
<1>2. KafkaTypeOK /\ OffsetOrder
  BY DEF TypeOK
<1>3. /\ o \in 1 .. Len(Log[p])
      /\ position' = [position EXCEPT ![p] = o]
      /\ \A q \in Partition :
           HandedOut(q)' = IF q = p THEN HandedOut(q) \cup {o} ELSE HandedOut(q)
      /\ OffsetOrder'
  BY <1>1, <1>2, KafkaAdvance
<1>4. m \in Message /\ InHand(m)' /\ Value(m) = Log[p][o]
  BY <1>1, <1>2, NextInHand
<1>5. results \in Seq(ContentID) /\ Range(results) = Results(p, o)
  <2>1. CASE Value(m) = Malformed
    BY <1>4, <2>1, EmptySequence DEF Results
  <2>2. CASE Value(m) # Malformed
    BY <1>3, <1>4, <2>2, Contents DEF Results
  <2>3. QED BY <2>1, <2>2
<1>6. KafkaTypeOK'
  BY <1>1, <1>2, KafkaAdvance DEF KafkaTypeOK, Message
<1>7. TrackedResults'
  BY <1>1, <1>3, ListsStays DEF TrackedResults
<1>8. CurrentInHand'
  <2> SUFFICES ASSUME rest' # <<>> PROVE Lists(current, Range(rest))'
    BY DEF CurrentInHand
  <2>1. current' = m /\ rest' = Value(m) /\ Value(m) # Malformed
    BY <1>1
  <2>2. QED BY <1>4, <2>1 DEF Lists, Value, InHand, Message
<1>9. TypeOK'
  <2>1. current' \in Message' \cup {NoMessage}
    BY <1>1, <1>4 DEF Message
  <2>2. QED BY <1>1, <1>5, <1>6, <2>1 DEF TypeOK, batchVars, storeVars
<1>10. BatchShape' /\ Room' /\ SettledBeforeCommit'
  BY <1>1 DEF BatchShape, Room, InsertsWithinLimit, Full, SettledBeforeCommit, batchVars
<1>11. InMemory' = InMemory \cup Results(p, o)
  <2>1. Range(rest) = {}
    BY <1>1, EmptySequence DEF BatchShape
  <2>2. Range(rest') = Results(p, o)
    BY <1>1, <1>5
  <2>3. QED BY <1>1, <2>1, <2>2 DEF InMemory, batchVars
<1>12. o <= Len(MessageContents[p]) /\ MessageContents[p][o] = Results(p, o)
  BY <1>3, Contents, KafkaAssumption
<1>13. Taken' = [Taken EXCEPT ![p] = @ \cup {o}]
  BY <1>3 DEF Taken
<1>14. SettledContents' = SettledContents
  BY <1>1 DEF SettledContents, storeVars
<1>15. Consumer!Take(p)
  BY <1>1, <1>3, <1>11, <1>12, <1>13, <1>14 DEF Consumer!Take
<1>16. QED BY <1>3, <1>7, <1>8, <1>9, <1>10, <1>15 DEF ContractStep, Consumer!Next

(* A result is tracked under the message it came with, and added.           *)
LEMMA AddResultStep ==
    ASSUME Bookkeeping, AddResult
    PROVE  Bookkeeping' /\ ContractStep
<1> USE DEF Bookkeeping
<1> PICK c, m, r : c = Head(rest) /\ m = current /\ r = Tail(rest)
  OBVIOUS
<1>1. /\ pc = "add"
      /\ messageMap' = [messageMap EXCEPT ![c] = m]
      /\ buffer' = Append(buffer, c)
      /\ rest' = r
      /\ current' = IF Len(rest) = 1 THEN NoMessage ELSE m
      /\ pc' = IF Full(buffer') THEN "process" ELSE Continue(r)
      /\ UNCHANGED <<position, committed, faults, start, reach, batchVars, storeVars>>
  BY DEF AddResult, TrackMessage
<1>2. /\ rest \in Seq(ContentID) /\ Len(rest) > 0 /\ Len(rest) \in Nat
      /\ buffer \in Seq(ContentID)
  BY <1>1, EmptySequence DEF BatchShape, TypeOK
<1>3. /\ r \in Seq(ContentID) /\ Len(r) = Len(rest) - 1
      /\ c \in ContentID
      /\ Range(rest) = {c} \cup Range(r)
  BY <1>2, RangeOfTail
<1>4. /\ buffer' \in Seq(ContentID)
      /\ Range(buffer') = Range(buffer) \cup {c}
      /\ Len(buffer') = Len(buffer) + 1
  BY <1>1, <1>2, <1>3, RangeOfAppend
<1>5. Lists(m, Range(rest)) /\ m \in Message
  BY <1>1, <1>2 DEF BatchShape, CurrentInHand, Lists, InHand
<1>6. \A q \in Partition : HandedOut(q)' = HandedOut(q)
  BY <1>1 DEF HandedOut
<1>7. messageMap \in [ContentID -> Message \cup {NoMessage}]
  BY DEF TypeOK, KafkaTypeOK
<1>8. KafkaTypeOK' /\ OffsetOrder'
  <2>1. messageMap' \in [ContentID -> Message \cup {NoMessage}]
    BY <1>1, <1>5, <1>7
  <2>2. QED BY <1>1, <2>1 DEF TypeOK, KafkaTypeOK, OffsetOrder, Message
<1>9. TrackedResults'
  <2>1. Lists(m, {c})'
    BY <1>3, <1>5, <1>6 DEF Lists, Value, InHand, Message
  <2>2. ASSUME NEW d \in ContentID, messageMap'[d] # NoMessage
        PROVE  (Lists(messageMap[d], {d}))'
    <3>1. CASE d = c
      BY <1>1, <1>7, <2>1, <3>1
    <3>2. CASE d # c
      <4>1. messageMap'[d] = messageMap[d]
        BY <1>1, <1>7, <3>2
      <4>2. Lists(messageMap[d], {d})
        BY <2>2, <4>1 DEF TrackedResults
      <4>3. QED BY <1>6, <4>1, <4>2 DEF Lists, Value, InHand, Message
    <3>3. QED BY <3>1, <3>2
  <2>3. QED BY <2>2 DEF TrackedResults
<1>10. CurrentInHand' /\ current' \in Message' \cup {NoMessage}
  <2>1. current' \in Message' \cup {NoMessage}
    BY <1>1, <1>5 DEF Message
  <2>2. ASSUME rest' # <<>> PROVE Lists(current, Range(rest))'
    <3>1. Len(rest) # 1
      BY <1>1, <1>2, <1>3, <2>2, EmptySequence
    <3>2. current' = m /\ rest' = r /\ Range(r) \subseteq Range(rest)
      BY <1>1, <1>3, <3>1
    <3>3. QED BY <1>5, <1>6, <3>2 DEF Lists, Value, InHand, Message
  <2>3. QED BY <2>1, <2>2 DEF CurrentInHand
<1>11. TypeOK'
  <2>1. pc' \in {"select", "read", "add", "process", "insert", "commit"}
    BY <1>1 DEF Continue
  <2>2. QED BY <1>1, <1>3, <1>4, <1>8, <1>10, <2>1 DEF TypeOK, batchVars, storeVars
<1>12. BatchShape' /\ SettledBeforeCommit'
  BY <1>1 DEF BatchShape, SettledBeforeCommit, Continue, batchVars
<1>13. Room'
  <2>1. Len(buffer) \in Nat /\ Len(buffer) < INSERT_BATCH_SIZE /\ INSERT_BATCH_SIZE \in Nat
    BY <1>1, <1>2, ResultsAssumption DEF Room, Full
  <2>2. Len(buffer') <= INSERT_BATCH_SIZE
    BY <1>4, <2>1
  <2>3. pc' \in {"select", "read", "add"} => ~Full(buffer')
    BY <1>1
  <2>4. pc' \notin {"insert", "commit"}
    BY <1>1 DEF Continue
  <2>5. InsertsWithinLimit'
    BY <1>1 DEF Room, InsertsWithinLimit, batchVars
  <2>6. QED BY <2>2, <2>3, <2>4, <2>5 DEF Room, Full
<1>14. InMemory' = InMemory
  BY <1>1, <1>3, <1>4 DEF InMemory, batchVars
<1>15. UNCHANGED Consumer!vars
  BY <1>1, <1>6, <1>14 DEF Consumer!vars, Taken, SettledContents, storeVars
<1>16. QED BY <1>8, <1>9, <1>10, <1>11, <1>12, <1>13, <1>15 DEF ContractStep

-----------------------------------------------------------------------------
(* The insert.                                                              *)

LEMMA TakeBatchStep ==
    ASSUME Bookkeeping, TakeBatch
    PROVE  Bookkeeping' /\ ContractStep
<1> USE DEF Bookkeeping
<1>1. /\ pc = "process" /\ pc' = IF buffer = <<>> THEN Continue(rest) ELSE "insert"
      /\ batch' = buffer /\ buffer' = <<>> /\ unprocessed' = Range(buffer)
      /\ UNCHANGED <<kafkaVars, current, rest, attempt, retryCount, storeVars>>
  BY DEF TakeBatch
<1>2. <<>> \in Seq(ContentID) /\ Len(<<>>) = 0 /\ Range(<<>>) = {} /\ batch = <<>>
  BY <1>1, EmptySequence DEF BatchShape
<1>3. CurrentInHand' /\ current' \in Message' \cup {NoMessage}
  BY <1>1, KafkaFrame, CurrentFrame
<1>4. TypeOK'
  <2>1. pc' \in {"select", "read", "add", "process", "insert", "commit"}
    BY <1>1 DEF Continue
  <2>2. QED BY <1>1, <1>2, <1>3, <2>1, KafkaFrame DEF TypeOK, storeVars
<1>5. BatchShape' /\ SettledBeforeCommit'
  BY <1>1, <1>2 DEF BatchShape, SettledBeforeCommit, Continue
<1>6. Room'
  <2>1. InsertsWithinLimit' /\ Len(buffer') <= INSERT_BATCH_SIZE /\ ~Full(buffer')
    BY <1>1, <1>2, ResultsAssumption DEF Room, InsertsWithinLimit, Full
  <2>2. QED BY <1>1, <2>1 DEF Room
<1>7. InMemory' = InMemory
  BY <1>1, <1>2 DEF InMemory
<1>8. UNCHANGED Consumer!vars
  BY <1>1, <1>7, Unseen DEF storeVars
<1>9. QED BY <1>1, <1>3, <1>4, <1>5, <1>6, <1>8, KafkaFrame DEF ContractStep

(* A write that is tried again, in part or as a whole.                      *)
LEMMA InsertContinues ==
    ASSUME Bookkeeping, pc = "insert",
           UNCHANGED <<kafkaVars, pc, current, rest, buffer, batch, reported, failed>>,
           unprocessed' \in SUBSET Range(batch),
           attempt' \in 1 .. Attempts, retryCount' \in 0 .. MaxRetryCount,
           table' \in SUBSET ContentID
    PROVE  Bookkeeping' /\ ContractStep
<1> USE DEF Bookkeeping
<1>1. CurrentInHand' /\ current' \in Message' \cup {NoMessage}
  BY KafkaFrame, CurrentFrame
<1>2. TypeOK'
  BY <1>1, KafkaFrame DEF TypeOK
<1>3. BatchShape' /\ SettledBeforeCommit' /\ Room'
  BY DEF BatchShape, SettledBeforeCommit, Room, InsertsWithinLimit, Full
<1>4. InMemory' = InMemory
  BY DEF InMemory
<1>5. UNCHANGED Consumer!vars
  BY <1>4, Unseen
<1>6. QED BY <1>1, <1>2, <1>3, <1>5, KafkaFrame DEF ContractStep

(* The insert is over, reported as stored or failed for the last time.      *)
LEMMA InsertEnds ==
    ASSUME Bookkeeping, pc = "insert", pc' = "commit",
           UNCHANGED <<kafkaVars, current, rest, buffer, batch>>,
           unprocessed' = {}, attempt' = 1, retryCount' = 0,
           table' \in SUBSET ContentID,
           \/ reported' = reported \cup Range(batch) /\ failed' = failed
           \/ failed' = failed \cup Range(batch) /\ reported' = reported
    PROVE  Bookkeeping' /\ ContractStep
<1> USE DEF Bookkeeping
<1>1. CurrentInHand' /\ current' \in Message' \cup {NoMessage}
  BY KafkaFrame, CurrentFrame
<1>2. Range(batch) \subseteq ContentID
  BY RangeInSet DEF TypeOK
<1>3. TypeOK'
  BY <1>1, <1>2, KafkaFrame DEF TypeOK, Attempts, MaxRetryCount
<1>4. SettledContents' = SettledContents \cup Range(batch)
  BY DEF SettledContents
<1>5. BatchShape' /\ SettledBeforeCommit' /\ Room'
  BY <1>4 DEF BatchShape, SettledBeforeCommit, Room, InsertsWithinLimit, Full
<1>6. InMemory' = InMemory /\ Range(batch) \subseteq InMemory
  BY DEF InMemory
<1>7. Consumer!Settle
  BY <1>4, <1>6, KafkaFrame DEF Consumer!Settle, Consumer!LetGo
<1>8. QED BY <1>1, <1>3, <1>5, <1>7, KafkaFrame DEF ContractStep, Consumer!Next

LEMMA InsertSteps ==
    ASSUME Bookkeeping,
           \/ \E left \in SUBSET unprocessed : Write(left)
           \/ InsertRetry
           \/ InsertGiveUp
    PROVE  Bookkeeping' /\ ContractStep
<1>1. /\ unprocessed \subseteq Range(batch) /\ Range(batch) \subseteq ContentID
      /\ table \subseteq ContentID
      /\ attempt \in 1 .. Attempts /\ retryCount \in 0 .. MaxRetryCount
  BY RangeInSet DEF Bookkeeping, TypeOK
<1>2. table' \in SUBSET ContentID
  <2>1. \A done : WriteError(done) => table' \in SUBSET ContentID
    BY <1>1 DEF WriteError
  <2>2. QED BY <1>1, <2>1 DEF Write, InsertRetry, InsertGiveUp
<1>3. ASSUME NEW left \in SUBSET unprocessed, Write(left), WriteAgain(left)
      PROVE  Bookkeeping' /\ ContractStep
  <2>1. retryCount' \in 0 .. MaxRetryCount
    BY <1>1, <1>3 DEF WriteAgain, MaxRetryCount
  <2>2. QED BY <1>1, <1>2, <1>3, <2>1, InsertContinues DEF Write, WriteAgain
<1>4. ASSUME NEW left \in SUBSET unprocessed, Write(left), InsertReturnsNil(left)
      PROVE  Bookkeeping' /\ ContractStep
  BY <1>2, <1>4, InsertEnds DEF Write, InsertReturnsNil
<1>5. CASE InsertRetry
  <2>1. attempt' \in 1 .. Attempts /\ retryCount' \in 0 .. MaxRetryCount
    BY <1>1, <1>5 DEF InsertRetry, Attempts, MaxRetryCount
  <2>2. QED BY <1>1, <1>2, <1>5, <2>1, InsertContinues DEF InsertRetry
<1>6. CASE InsertGiveUp
  BY <1>2, <1>6, InsertEnds DEF InsertGiveUp
<1>7. QED BY <1>3, <1>4, <1>5, <1>6 DEF Write

-----------------------------------------------------------------------------
(* The commits.                                                             *)

(* Going on to the next result lets go of one that is settled.              *)
LEMMA NextResultStep ==
    ASSUME Bookkeeping, pc = "commit", NextResult,
           UNCHANGED <<buffer, attempt, unprocessed, retryCount, storeVars>>
    PROVE  /\ batch' \in Seq(ContentID)
           /\ pc' \in {"commit", "select", "add"}
           /\ UNCHANGED <<current, rest>>
           /\ unprocessed' \subseteq Range(batch')
           /\ BatchShape' /\ SettledBeforeCommit' /\ Room'
           /\ Head(batch) \in ContentID /\ Head(batch) \in SettledContents
           /\ UNCHANGED SettledContents
           /\ Consumer!LetGo
<1> USE DEF Bookkeeping
<1>1. /\ batch' = Tail(batch)
      /\ UNCHANGED <<current, rest>>
      /\ pc' = IF Len(batch) > 1 THEN "commit" ELSE Continue(rest)
  BY DEF NextResult, BackToMessage
<1>2. batch \in Seq(ContentID) /\ Len(batch) > 0 /\ Len(batch) \in Nat
  BY EmptySequence DEF TypeOK, BatchShape
<1>3. /\ Tail(batch) \in Seq(ContentID)
      /\ Len(Tail(batch)) = Len(batch) - 1
      /\ Head(batch) \in ContentID
      /\ Range(batch) = {Head(batch)} \cup Range(Tail(batch))
  BY <1>2, RangeOfTail
<1>4. batch' # <<>> <=> Len(batch) > 1
  <2>1. batch' # <<>> <=> Len(batch') # 0
    BY <1>1, <1>3, EmptySequence
  <2>2. Len(batch') = Len(batch) - 1
    BY <1>1, <1>3
  <2>3. Len(batch) \in Nat
    BY <1>2
  <2>4. QED BY <2>1, <2>2, <2>3
<1>5. UNCHANGED SettledContents
  BY DEF SettledContents, storeVars
<1>6. Head(batch) \in SettledContents
  BY <1>3 DEF SettledBeforeCommit
<1>7. BatchShape'
  BY <1>1, <1>4 DEF BatchShape, Continue
<1>8. SettledBeforeCommit'
  BY <1>1, <1>3, <1>5 DEF SettledBeforeCommit, Continue
<1>9. Room'
  <2>1. InsertsWithinLimit'
    BY <1>1, <1>2, <1>3, ResultsAssumption DEF Room, InsertsWithinLimit
  <2>2. buffer' = <<>> /\ Len(buffer') <= INSERT_BATCH_SIZE /\ ~Full(buffer')
    BY EmptySequence, ResultsAssumption DEF Room, Full
  <2>3. QED BY <2>1, <2>2 DEF Room
<1>10. unprocessed' \subseteq Range(batch')
  BY DEF BatchShape
<1>11. InMemory' \subseteq InMemory /\ InMemory \subseteq InMemory' \cup {Head(batch)}
  BY <1>1, <1>3 DEF InMemory
<1>12. Consumer!LetGo
  BY <1>5, <1>6, <1>11 DEF Consumer!LetGo
<1>13. pc' \in {"commit", "select", "add"}
  BY <1>1 DEF Continue
<1>14. QED BY <1>1, <1>3, <1>5, <1>6, <1>7, <1>8, <1>9, <1>10, <1>12, <1>13

LEMMA NothingTrackedStep ==
    ASSUME Bookkeeping, NothingTracked
    PROVE  Bookkeeping' /\ ContractStep
<1> USE DEF Bookkeeping
<1>1. /\ pc = "commit" /\ NextResult
      /\ UNCHANGED <<kafkaVars, buffer, attempt, unprocessed, retryCount, storeVars>>
  BY DEF NothingTracked
<1>2. CurrentInHand' /\ current' \in Message' \cup {NoMessage}
  BY <1>1, NextResultStep, KafkaFrame, CurrentFrame
<1>3. TypeOK'
  BY <1>1, <1>2, NextResultStep, KafkaFrame DEF TypeOK, storeVars
<1>4. Consumer!Settle
  BY <1>1, NextResultStep, KafkaFrame DEF Consumer!Settle
<1>5. QED
  BY <1>1, <1>2, <1>3, <1>4, NextResultStep, KafkaFrame DEF ContractStep, Consumer!Next

LEMMA CommitTrackedStep ==
    ASSUME Bookkeeping, CommitTracked
    PROVE  Bookkeeping' /\ ContractStep
<1> USE DEF Bookkeeping
<1> PICK c, m : c = Head(batch) /\ m = messageMap[c]
  OBVIOUS
<1>1. /\ pc = "commit" /\ NextResult
      /\ m # NoMessage /\ Commit(m)
      /\ messageMap' = [messageMap EXCEPT ![c] = NoMessage]
      /\ UNCHANGED <<position, faults, start, reach, buffer, attempt, unprocessed,
                     retryCount, storeVars>>
  BY DEF CommitTracked, Untrack
<1>2. KafkaTypeOK /\ OffsetOrder
  BY DEF TypeOK
<1>3. c \in ContentID /\ c \in SettledContents
  BY <1>1, NextResultStep
<1>4. InHand(m) /\ Value(m) # Malformed /\ c \in Range(Value(m))
  BY <1>1, <1>3 DEF TrackedResults, Lists
<1>5. /\ m.partition \in Partition
      /\ m.offset \in HandedOut(m.partition)
      /\ m.offset \in 1 .. Len(Log[m.partition])
      /\ \/ UNCHANGED committed
         \/ committed' = [committed EXCEPT ![m.partition] = m.offset]
      /\ committed' \in [Partition -> Nat]
      /\ \A q \in Partition : committed'[q] <= Len(Log[q])
      /\ OffsetOrder'
  BY <1>1, <1>2, <1>4, KafkaCommit
<1>6. \A q \in Partition : HandedOut(q)' = HandedOut(q)
  BY <1>1 DEF HandedOut
<1>7. /\ messageMap' \in [ContentID -> Message \cup {NoMessage}]
      /\ \A d \in ContentID :
           messageMap'[d] # NoMessage => messageMap'[d] = messageMap[d]
  BY <1>1, <1>2 DEF KafkaTypeOK
<1>8. KafkaTypeOK'
  BY <1>1, <1>2, <1>5, <1>7 DEF KafkaTypeOK, Message
<1>9. TrackedResults'
  BY <1>6, <1>7, ListsStays DEF TrackedResults
<1>10. CurrentInHand' /\ current' \in Message' \cup {NoMessage}
  BY <1>1, <1>6, NextResultStep, CurrentFrame
<1>11. TypeOK'
  BY <1>1, <1>8, <1>10, NextResultStep DEF TypeOK, storeVars
<1>12. Taken' = Taken /\ m.offset \in Taken[m.partition]
  BY <1>5, <1>6 DEF Taken
<1>13. MessageContents[m.partition][m.offset] \cap SettledContents # {}
  <2>1. c \in Results(m.partition, m.offset)
    BY <1>4 DEF Results, Value
  <2>2. QED BY <1>3, <1>5, <2>1, Contents
<1>14. Consumer!Settle \/ Consumer!Acknowledge(m.partition, m.offset)
  BY <1>1, <1>5, <1>12, <1>13, NextResultStep
  DEF Consumer!Settle, Consumer!Acknowledge
<1>15. Consumer!Next
  BY <1>5, <1>12, <1>14 DEF Consumer!Next
<1>16. QED
  BY <1>1, <1>5, <1>9, <1>10, <1>11, <1>15, NextResultStep DEF ContractStep

-----------------------------------------------------------------------------
(* Faults.                                                                  *)

LEMMA RestartStep ==
    ASSUME Bookkeeping, Restart
    PROVE  Bookkeeping' /\ ContractStep
<1> USE DEF Bookkeeping
<1>1. /\ KafkaRestart
      /\ pc' = "select" /\ current' = NoMessage /\ rest' = <<>> /\ buffer' = <<>>
      /\ batch' = <<>> /\ attempt' = 1 /\ unprocessed' = {} /\ retryCount' = 0
      /\ UNCHANGED storeVars
  BY DEF Restart
<1>2. /\ KafkaTypeOK' /\ OffsetOrder'
      /\ \A q \in Partition : HandedOut(q)' = {}
      /\ position' = committed /\ UNCHANGED committed
      /\ messageMap' = [c \in ContentID |-> NoMessage]
  BY <1>1, KafkaRestarts DEF TypeOK
<1>3. <<>> \in Seq(ContentID) /\ Len(<<>>) = 0 /\ Range(<<>>) = {}
  BY EmptySequence
<1>4. TypeOK'
  BY <1>1, <1>2, <1>3 DEF TypeOK, Attempts, MaxRetryCount, storeVars
<1>5. BatchShape' /\ SettledBeforeCommit' /\ CurrentInHand' /\ TrackedResults'
  BY <1>1, <1>2 DEF BatchShape, SettledBeforeCommit, CurrentInHand, TrackedResults
<1>6. Room'
  BY <1>1, <1>3, ResultsAssumption DEF Room, InsertsWithinLimit, Full
<1>7. InMemory' = {} /\ SettledContents' = SettledContents
  BY <1>1, <1>3 DEF InMemory, SettledContents, storeVars
<1>8. Taken' = [q \in Partition |-> {}]
  BY <1>2 DEF Taken
<1>9. Consumer!Crash
  BY <1>2, <1>7, <1>8 DEF Consumer!Crash
<1>10. QED BY <1>2, <1>4, <1>5, <1>6, <1>9 DEF ContractStep, Consumer!Next

LEMMA RebalanceStep ==
    ASSUME Bookkeeping, Rebalance
    PROVE  Bookkeeping' /\ ContractStep
<1> USE DEF Bookkeeping
<1>1. /\ KafkaRebalance
      /\ UNCHANGED <<pc, current, rest, buffer, batchVars, storeVars>>
  BY DEF Rebalance
<1>2. /\ KafkaTypeOK' /\ OffsetOrder'
      /\ \A q \in Partition : HandedOut(q)' = HandedOut(q)
      /\ position' = committed /\ UNCHANGED <<committed, messageMap>>
  BY <1>1, AllTrackedInHand, KafkaRebalances DEF TypeOK
<1>3. TrackedResults'
  BY <1>2, ListsStays DEF TrackedResults
<1>4. CurrentInHand' /\ current' \in Message' \cup {NoMessage}
  BY <1>1, <1>2, CurrentFrame
<1>5. TypeOK'
  BY <1>1, <1>2, <1>4 DEF TypeOK, batchVars, storeVars
<1>6. BatchShape' /\ SettledBeforeCommit' /\ Room'
  BY <1>1
  DEF BatchShape, SettledBeforeCommit, SettledContents, Room, InsertsWithinLimit,
      Full, batchVars, storeVars
<1>7. InMemory' = InMemory /\ SettledContents' = SettledContents /\ Taken' = Taken
  BY <1>1, <1>2 DEF InMemory, SettledContents, Taken, batchVars, storeVars
<1>8. Consumer!Reassign
  BY <1>2, <1>7 DEF Consumer!Reassign
<1>9. QED BY <1>2, <1>3, <1>4, <1>5, <1>6, <1>8 DEF ContractStep, Consumer!Next

-----------------------------------------------------------------------------
(* All together.                                                            *)

LEMMA EveryStep ==
    ASSUME Bookkeeping, [Next]_vars
    PROVE  Bookkeeping' /\ ContractStep
<1>1. CASE Loop
  BY <1>1, ControlSteps, ReceiveStep, AddResultStep, TakeBatchStep, InsertSteps,
     CommitTrackedStep, NothingTrackedStep DEF Loop, ProcessStep
<1>2. CASE Restart
  BY <1>2, RestartStep
<1>3. CASE Rebalance
  BY <1>3, RebalanceStep
<1>4. CASE Tick \/ ReadError \/ UNCHANGED vars
  BY <1>4, ControlSteps
<1>5. QED BY <1>1, <1>2, <1>3, <1>4 DEF Next

LEMMA InitBookkeeping ==
    ASSUME Init
    PROVE  Bookkeeping /\ Consumer!Init
<1> USE DEF Init, KafkaInit
<1>1. <<>> \in Seq(ContentID) /\ Len(<<>>) = 0 /\ Range(<<>>) = {}
  BY EmptySequence
<1>2. KafkaTypeOK
  BY KafkaAssumption DEF KafkaTypeOK
<1>3. TypeOK
  BY <1>1, <1>2 DEF TypeOK, Attempts, MaxRetryCount
<1>4. BatchShape /\ SettledBeforeCommit /\ OffsetOrder /\ CurrentInHand /\ TrackedResults
  BY DEF BatchShape, SettledBeforeCommit, OffsetOrder, CurrentInHand, TrackedResults
<1>5. Room
  BY <1>1, ResultsAssumption DEF Room, InsertsWithinLimit, Full
<1>6. Taken = [p \in Partition |-> {}] /\ InMemory = {} /\ SettledContents = {}
  BY <1>1 DEF Taken, HandedOut, InMemory, SettledContents
<1>7. QED BY <1>3, <1>4, <1>5, <1>6 DEF Bookkeeping, Consumer!Init

(* A step of the contract loses no result and acknowledges no message that  *)
(* is not settled.                                                          *)
LEMMA ContractKeeps ==
    ASSUME TypeOK, Consumer!Kept, Consumer!AckedIsSettled, ContractStep
    PROVE  Consumer!Kept' /\ Consumer!AckedIsSettled'
<1> USE DEF Consumer!Kept, Consumer!AckedIsSettled
<1>1. committed \in [Partition -> Nat]
  BY DEF TypeOK, KafkaTypeOK
<1>2. MessageContents' = MessageContents
  BY DEF MessageContents, Results
<1>3. CASE Consumer!Crash \/ Consumer!Reassign \/ UNCHANGED Consumer!vars
  BY <1>2, <1>3 DEF Consumer!Crash, Consumer!Reassign, Consumer!vars
<1>4. CASE Consumer!Settle \/ Consumer!Drop
  BY <1>2, <1>4 DEF Consumer!Settle, Consumer!Drop, Consumer!LetGo
<1>5. ASSUME NEW p \in Partition, Consumer!Take(p)
      PROVE  Consumer!Kept' /\ Consumer!AckedIsSettled'
  <2>1. /\ \A q \in Partition : \A o \in Taken'[q] :
             o \in Taken[q] \/ (q = p /\ o = position[p] + 1)
        /\ UNCHANGED <<committed, SettledContents>>
    BY <1>5 DEF Consumer!Take, Taken
  <2>2. /\ InMemory \subseteq InMemory'
        /\ MessageContents[p][position[p] + 1] \subseteq InMemory'
    BY <1>5 DEF Consumer!Take
  <2>3. Consumer!Kept'
    BY <1>2, <2>1, <2>2
  <2>4. Consumer!AckedIsSettled'
    BY <1>2, <2>1
  <2>5. QED BY <2>3, <2>4
<1>6. ASSUME NEW p \in Partition, NEW o \in Taken[p], Consumer!Acknowledge(p, o)
      PROVE  Consumer!Kept' /\ Consumer!AckedIsSettled'
  BY <1>1, <1>2, <1>6 DEF Consumer!Acknowledge, Consumer!LetGo
<1>7. QED BY <1>3, <1>4, <1>5, <1>6 DEF ContractStep, Consumer!Next

-----------------------------------------------------------------------------
(* What the invariant says in the consumer's own terms.                     *)

LEMMA KeptMeans == IInv => NoResultVanishes
<1> SUFFICES ASSUME IInv, NEW p \in Partition, NEW o \in HandedOut(p),
                    NEW c \in Results(p, o)
             PROVE  Held(c) \/ Settled(c)
  BY DEF NoResultVanishes
<1>1. o \in 1 .. Len(Log[p])
  BY KafkaAssumption DEF IInv, Bookkeeping, TypeOK, KafkaTypeOK, HandedOut
<1>2. c \in MessageContents[p][o]
  BY <1>1, Contents
<1>3. QED BY <1>2 DEF IInv, Consumer!Kept, Taken, Held, Settled

LEMMA AckedMeans == IInv => CommittedWasInserted
<1> SUFFICES ASSUME IInv, NEW p \in Partition, committed[p] > 0
             PROVE  \E c \in Results(p, committed[p]) : Settled(c)
  BY DEF CommittedWasInserted
<1>1. committed[p] \in 1 .. Len(Log[p])
  BY KafkaAssumption DEF IInv, Bookkeeping, TypeOK, KafkaTypeOK
<1>2. MessageContents[p][committed[p]] \cap SettledContents # {}
  BY DEF IInv, Consumer!AckedIsSettled
<1>3. MessageContents[p][committed[p]] = Results(p, committed[p])
  BY <1>1, Contents
<1>4. QED BY <1>2, <1>3 DEF Settled

(* An offset past the committed one was handed to this process, or will be. *)
LEMMA RecoverableMeans == IInv => UncommittedIsRecoverable
<1> SUFFICES ASSUME IInv, NEW p \in Partition,
                    NEW o \in committed[p] + 1 .. Len(Log[p]), ~(o > position[p]),
                    NEW c \in Results(p, o)
             PROVE  Held(c) \/ Settled(c)
  BY DEF UncommittedIsRecoverable
<1>1. o \in HandedOut(p)
  BY KafkaAssumption
  DEF IInv, Bookkeeping, TypeOK, KafkaTypeOK, OffsetOrder, HandedOut
<1>2. QED BY <1>1, KeptMeans DEF NoResultVanishes

-----------------------------------------------------------------------------
(* IInv holds in every state of every behaviour.                            *)
THEOREM Invariance == Spec => []IInv
<1>1. Init => IInv
  <2> SUFFICES ASSUME Init PROVE IInv
    OBVIOUS
  <2>1. Bookkeeping /\ Consumer!Init
    BY InitBookkeeping
  <2>2. Consumer!Kept /\ Consumer!AckedIsSettled
    BY <2>1 DEF Consumer!Init, Consumer!Kept, Consumer!AckedIsSettled
  <2>3. QED BY <2>1, <2>2 DEF IInv
<1>2. IInv /\ [Next]_vars => IInv'
  BY EveryStep, ContractKeeps DEF IInv, Bookkeeping
<1>3. QED BY <1>1, <1>2, PTL DEF Spec

(* Every reachable state is well typed.                                     *)
THEOREM TypeCorrect == Spec => []TypeOK
<1>1. IInv => TypeOK
  BY DEF IInv, Bookkeeping
<1>2. QED BY <1>1, Invariance, PTL

(* However the lists and the ticks fall, no insert is larger than what one  *)
(* request may hold.                                                        *)
THEOREM WithinLimit == Spec => []InsertsWithinLimit
<1>1. IInv => InsertsWithinLimit
  BY DEF IInv, Bookkeeping, Room
<1>2. QED BY <1>1, Invariance, PTL

(* A result of a message handed out is in memory or its insert is over.     *)
THEOREM NothingVanishes == Spec => []NoResultVanishes
  BY KeptMeans, Invariance, PTL

(* The committed message has a result whose insert is over.                 *)
THEOREM CommitAfterInsert == Spec => []CommittedWasInserted
  BY AckedMeans, Invariance, PTL

(* No result of a message past the committed offset is lost, through any    *)
(* number of restarts and rebalances.                                       *)
THEOREM Recoverable == Spec => []UncommittedIsRecoverable
  BY RecoverableMeans, Invariance, PTL

(* The results consumer is a ConsumerContract that drops nothing.           *)
THEOREM Refinement == Spec => ImplementsConsumer
<1>1. Init => Consumer!Init
  BY InitBookkeeping
<1>2. IInv /\ [Next]_vars => [Consumer!Next]_(Consumer!vars)
  BY EveryStep DEF IInv, ContractStep
<1>3. QED BY <1>1, <1>2, Invariance, PTL DEF Spec, ImplementsConsumer, Consumer!Spec
=============================================================================
