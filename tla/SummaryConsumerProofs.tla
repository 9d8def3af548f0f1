------------------------- MODULE SummaryConsumerProofs -------------------------
(***************************************************************************)
(* The safety of SummaryConsumer, and that it is a ConsumerContract, for   *)
(* any number of partitions and contents, any log, batch size and numbers  *)
(* of requests and calls, and any bound on restarts and rebalances.        *)
(*                                                                         *)
(* Every action keeps the Bookkeeping and is a step of the contract, or    *)
(* changes nothing the contract speaks of: one lemma for each action says  *)
(* both.  What the contract keeps then is what IInv adds.                  *)
(***************************************************************************)
EXTENDS SummaryConsumer, KafkaConsumerProofs, FiniteSetTheorems

ContractStep == [Consumer!Next]_(Consumer!vars)

-----------------------------------------------------------------------------
(* Picked: the range of the one sequence.                                   *)
LEMMA RangeOfPicked ==
    ASSUME NEW S, NEW s \in Seq(S), NEW at \in SUBSET (DOMAIN s),
           NEW t \in Picked(s, at)
    PROVE  t \in Seq(S) /\ Range(t) = {s[i] : i \in at}
<1>1. Cardinality(at) \in Nat
  <2>1. DOMAIN s = 1 .. Len(s) /\ Len(s) \in Nat
    OBVIOUS
  <2>2. IsFiniteSet(1 .. Len(s))
    BY <2>1, FS_Interval
  <2>3. IsFiniteSet(at)
    BY <2>1, <2>2, FS_Subset
  <2>4. QED BY <2>3, FS_CardinalityType
<1> DEFINE n == Cardinality(at)
<1>2. PICK f \in Bijection(1 .. n, at) : t = [k \in 1 .. n |-> s[f[k]]]
  BY DEF Picked
<1>3. /\ f \in [1 .. n -> at]
      /\ \A i \in at : \E k \in 1 .. n : f[k] = i
  BY <1>2 DEF Bijection, Surjection, Injection
<1>4. \A i \in at : s[i] \in S
  OBVIOUS
<1> HIDE DEF n
<1>5. t \in [1 .. n -> S]
  BY <1>2, <1>3, <1>4
<1>6. n \in Nat
  BY <1>1 DEF n
<1>7. t \in Seq(S)
  BY <1>5, <1>6
<1>8. Range(t) = {s[i] : i \in at}
  BY <1>2, <1>3 DEF Range
<1>9. QED BY <1>7, <1>8

-----------------------------------------------------------------------------
(* Frames.                                                                  *)

LEMMA ClientStep ==
    ASSUME ClientTypeOK,
           \/ HealthCheck \/ StoreHealth \/ ServiceChanges
           \/ RequestAgain \/ RequestsUsedUp \/ Refused \/ Answered
           \/ ClientRestart
           \/ UNCHANGED clientVars
    PROVE  ClientTypeOK'
<1> USE DEF ClientTypeOK, CallEnds, serviceVars, callVars, clientVars, HealthCheck,
            StoreHealth, ServiceChanges, RequestAgain, RequestsUsedUp, Refused,
            Answered, ClientRestart
<1>1. service' \in {"up", "down"} /\ probe' \in {"none", "up", "down"}
  OBVIOUS
<1>2. healthy' \in BOOLEAN
  OBVIOUS
<1>3. request' \in 1 .. MAX_RETRIES /\ body' \in {"whole", "read"}
  <2>1. request' \in {request, 1} \/ (request < MAX_RETRIES /\ request' = request + 1)
    OBVIOUS
  <2>2. request' \in 1 .. MAX_RETRIES
    BY <2>1, HuggingFaceAssumption
  <2>3. body' \in {"whole", "read"}
    OBVIOUS
  <2>4. QED BY <2>2, <2>3
<1>4. QED BY <1>1, <1>2, <1>3

(* The parts of the Bookkeeping that speak of Kafka and of outcomes only.   *)
LEMMA KafkaFrame ==
    ASSUME Bookkeeping, UNCHANGED kafkaVars
    PROVE  /\ KafkaTypeOK' /\ OffsetOrder' /\ TrackedInHand' /\ TrackedContents'
           /\ Taken' = Taken
<1>1. KafkaTypeOK /\ OffsetOrder /\ TrackedInHand /\ TrackedContents
  BY DEF Bookkeeping, TypeOK
<1>2. TrackedContents'
  BY <1>1 DEF TrackedContents, Value, kafkaVars
<1>3. QED BY <1>1, <1>2, KafkaStutters DEF Taken

LEMMA Unseen ==
    ASSUME Bookkeeping, UNCHANGED <<kafkaVars, outcome>>, InMemory' = InMemory
    PROVE  UNCHANGED Consumer!vars
<1>1. Taken' = Taken /\ UNCHANGED <<position, committed>>
  BY KafkaFrame DEF kafkaVars
<1>2. SettledContents' = SettledContents /\ DroppedContents' = DroppedContents
  BY DEF SettledContents, DroppedContents, Settled
<1>3. QED BY <1>1, <1>2 DEF Consumer!vars

(* What Note does to the two sets of the contract.                          *)
LEMMA NoteStep ==
    ASSUME TypeOK, NEW C \in SUBSET ContentID, NEW what \in Outcome, Note(C, what)
    PROVE  /\ outcome' \in [ContentID -> SUBSET Outcome]
           /\ SettledContents' = SettledContents \cup
                (IF what \in {"published", "abandoned"} THEN C ELSE {})
           /\ DroppedContents' = DroppedContents \cup
                (IF what \in {"lowValue", "refused", "failed"} THEN C ELSE {})
<1>1. outcome' = [c \in ContentID |->
                    IF c \in C THEN outcome[c] \cup {what} ELSE outcome[c]]
  BY DEF Note
<1>2. outcome \in [ContentID -> SUBSET Outcome]
  BY DEF TypeOK
<1>3. outcome' \in [ContentID -> SUBSET Outcome]
  BY <1>1, <1>2
<1>4. QED BY <1>1, <1>2, <1>3 DEF SettledContents, DroppedContents, Settled, Outcome

-----------------------------------------------------------------------------
(* Steps that move no content.                                              *)
LEMMA ControlSteps ==
    ASSUME Bookkeeping,
           \/ Tick \/ EnterRead \/ ReadError \/ SkipUnhealthy
           \/ SummariesRequestAgain \/ SummariesRetry \/ PublishRetry
           \/ MonitorSummarizerHealth \/ SummarizerChanges
           \/ UNCHANGED vars
    PROVE  Bookkeeping' /\ ContractStep
<1> USE DEF Bookkeeping
<1>1. UNCHANGED <<kafkaVars, buffer, batch, summarized, outcome>>
  BY DEF Tick, EnterRead, ReadError, SkipUnhealthy, SummariesRequestAgain,
         SummariesRetry, PublishRetry, MonitorSummarizerHealth,
         SummarizerChanges, consumerVars, vars
<1>2. ClientTypeOK'
  <2>1. ClientTypeOK
    BY DEF TypeOK
  <2>2. QED
    BY <2>1, ClientStep
    DEF Tick, EnterRead, ReadError, SkipUnhealthy, SummariesRequestAgain,
        SummariesRetry, PublishRetry, MonitorSummarizerHealth,
        SummarizerChanges, NoSummaries, vars
<1>3. pc' = pc \/ {pc, pc'} \subseteq {"select", "read", "process"}
  BY DEF Tick, EnterRead, ReadError, SkipUnhealthy, SummariesRequestAgain,
         SummariesRetry, PublishRetry, MonitorSummarizerHealth,
         SummarizerChanges, consumerVars, vars
<1>4. attempt' \in 1 .. PublishAttempts \cup 1 .. SummaryCalls
  <2>1. attempt \in 1 .. 3 \cup 1 .. SummaryCalls /\ SummaryCalls \in Nat
    BY SummaryAssumption DEF TypeOK, PublishAttempts
  <2>2. \/ attempt' = attempt
        \/ attempt < 3 /\ attempt' = attempt + 1
        \/ attempt < SummaryCalls /\ attempt' = attempt + 1
    BY DEF Tick, EnterRead, ReadError, SkipUnhealthy, SummariesRequestAgain,
           SummariesRetry, PublishRetry, MonitorSummarizerHealth,
           SummarizerChanges, consumerVars, vars, PublishAttempts
  <2>3. QED BY <2>1, <2>2 DEF PublishAttempts
<1>5. TypeOK'
  BY <1>1, <1>2, <1>3, <1>4, KafkaFrame DEF TypeOK
<1>6. BatchShape' /\ SettledBeforeCommit'
  BY <1>1, <1>3 DEF BatchShape, SettledBeforeCommit, Settled
<1>7. InMemory' = InMemory
  BY <1>1 DEF InMemory
<1>8. UNCHANGED Consumer!vars
  BY <1>1, <1>7, Unseen
<1>9. QED BY <1>1, <1>5, <1>6, <1>8, KafkaFrame DEF ContractStep

-----------------------------------------------------------------------------
(* Reading.                                                                 *)

LEMMA Contents ==
    ASSUME NEW p \in Partition
    PROVE  /\ Len(MessageContents[p]) = Len(Log[p])
           /\ \A o \in 1 .. Len(Log[p]) :
                /\ MessageContents[p][o] = {Log[p][o]} \cap ContentID
                /\ Log[p][o] \in ContentID \cup {Malformed}
<1>1. Len(Log[p]) \in Nat /\ Log[p] \in Seq(ContentID \cup {Malformed})
  BY KafkaAssumption, SummaryAssumption
<1>2. MessageContents[p] = [o \in 1 .. Len(Log[p]) |-> {Log[p][o]} \cap ContentID]
  BY DEF MessageContents
<1>3. MessageContents[p] \in [1 .. Len(Log[p]) -> SUBSET ContentID]
  BY <1>2
<1>4. Len(MessageContents[p]) = Len(Log[p])
  BY <1>1, <1>3, LenOfFunction
<1>5. \A o \in 1 .. Len(Log[p]) : Log[p][o] \in ContentID \cup {Malformed}
  BY <1>1
<1>6. QED BY <1>2, <1>4, <1>5

(* A message is taken: its content goes into memory, or it has none.        *)
LEMMA TakeStep ==
    ASSUME Bookkeeping, NEW p \in Partition, HasNext(p), Advance(p),
           UNCHANGED <<committed, outcome>>,
           InMemory' = InMemory \cup ({Log[p][position[p] + 1]} \cap ContentID)
    PROVE  Consumer!Take(p)
<1>1. KafkaTypeOK /\ OffsetOrder
  BY DEF Bookkeeping, TypeOK
<1> DEFINE o == position[p] + 1
<1>2. /\ o \in 1 .. Len(Log[p])
      /\ position' = [position EXCEPT ![p] = o]
      /\ \A q \in Partition :
           HandedOut(q)' = IF q = p THEN HandedOut(q) \cup {o} ELSE HandedOut(q)
  BY <1>1, KafkaAdvance
<1>3. o <= Len(MessageContents[p]) /\ MessageContents[p][o] = {Log[p][o]} \cap ContentID
  BY <1>2, Contents, KafkaAssumption
<1>4. Taken' = [Taken EXCEPT ![p] = @ \cup {o}]
  BY <1>2 DEF Taken
<1>5. SettledContents' = SettledContents /\ DroppedContents' = DroppedContents
  BY DEF SettledContents, DroppedContents, Settled
<1>6. QED BY <1>2, <1>3, <1>4, <1>5 DEF Consumer!Take

LEMMA ReceiveMalformedStep ==
    ASSUME Bookkeeping, NEW p \in Partition, ReceiveMalformed(p)
    PROVE  Bookkeeping' /\ ContractStep
<1> USE DEF Bookkeeping
<1>1. /\ pc = "read" /\ pc' = "select"
      /\ HasNext(p) /\ Advance(p)
      /\ Value(NextMessage(p)) = Malformed
      /\ UNCHANGED <<committed, messageMap, faults, clientVars, buffer, batch,
                     summarized, attempt, outcome>>
  BY DEF ReceiveMalformed
<1>2. KafkaTypeOK /\ OffsetOrder /\ ClientTypeOK
  BY DEF TypeOK
<1>3. Log[p][position[p] + 1] = Malformed
  BY <1>1 DEF Value, NextMessage
<1>4. /\ KafkaTypeOK' /\ OffsetOrder'
      /\ \A q \in Partition : HandedOut(q) \subseteq HandedOut(q)'
  BY <1>1, <1>2, KafkaAdvance DEF KafkaTypeOK, Message
<1>5. TrackedInHand' /\ TrackedContents'
  BY <1>1, <1>4, InHandStays DEF TrackedInHand, TrackedContents, Value
<1>6. TypeOK'
  BY <1>1, <1>2, <1>4, ClientStep DEF TypeOK
<1>7. BatchShape' /\ SettledBeforeCommit'
  BY <1>1 DEF BatchShape, SettledBeforeCommit
<1>8. InMemory' = InMemory \cup ({Log[p][position[p] + 1]} \cap ContentID)
  BY <1>1, <1>3, SummaryAssumption DEF InMemory
<1>9. Consumer!Take(p)
  BY <1>1, <1>8, TakeStep
<1>10. QED BY <1>4, <1>5, <1>6, <1>7, <1>9 DEF ContractStep, Consumer!Next

LEMMA ReceiveStep ==
    ASSUME Bookkeeping, NEW p \in Partition, Receive(p)
    PROVE  Bookkeeping' /\ ContractStep
<1> USE DEF Bookkeeping
<1> PICK m, c : m = NextMessage(p) /\ c = Value(m)
  OBVIOUS
<1>1. /\ pc = "read" /\ pc' = IF Full(buffer') THEN "process" ELSE "select"
      /\ HasNext(p) /\ Advance(p)
      /\ c # Malformed
      /\ buffer' = Append(buffer, c)
      /\ messageMap' = [messageMap EXCEPT ![c] = m]
      /\ UNCHANGED <<committed, faults, clientVars, batch, summarized, attempt,
                     outcome>>
  BY DEF Receive, TrackMessage
<1>2. KafkaTypeOK /\ OffsetOrder /\ ClientTypeOK /\ buffer \in Seq(ContentID)
  BY DEF TypeOK
<1>3. /\ m \in Message /\ InHand(m)'
      /\ c = Log[p][position[p] + 1]
  BY <1>1, <1>2, NextInHand
<1>4. c \in ContentID
  BY <1>1, <1>2, <1>3, KafkaAdvance, Contents
<1>5. /\ buffer' \in Seq(ContentID)
      /\ Range(buffer') = Range(buffer) \cup {c}
  BY <1>1, <1>2, <1>4, RangeOfAppend
<1>6. /\ KafkaTypeOK' /\ OffsetOrder'
      /\ \A q \in Partition : HandedOut(q) \subseteq HandedOut(q)'
  BY <1>1, <1>2, <1>3, KafkaAdvance DEF KafkaTypeOK, Message
<1>7. messageMap \in [ContentID -> Message \cup {NoMessage}]
  BY <1>2 DEF KafkaTypeOK
<1>8. TrackedInHand'
  BY <1>1, <1>3, <1>6, <1>7, InHandStays DEF TrackedInHand
<1>9. TrackedContents'
  BY <1>1, <1>7 DEF TrackedContents, Value
<1>10. TypeOK'
  BY <1>1, <1>2, <1>5, <1>6, ClientStep DEF TypeOK
<1>11. BatchShape' /\ SettledBeforeCommit'
  BY <1>1 DEF BatchShape, SettledBeforeCommit
<1>12. InMemory' = InMemory \cup ({Log[p][position[p] + 1]} \cap ContentID)
  BY <1>1, <1>3, <1>4, <1>5 DEF InMemory
<1>13. Consumer!Take(p)
  BY <1>1, <1>12, TakeStep
<1>14. QED BY <1>6, <1>8, <1>9, <1>10, <1>11, <1>13 DEF ContractStep, Consumer!Next

-----------------------------------------------------------------------------
(* The batch.                                                               *)

LEMMA TakeBatchStep ==
    ASSUME Bookkeeping, TakeBatch
    PROVE  Bookkeeping' /\ ContractStep
<1> USE DEF Bookkeeping
<1>1. /\ pc = "process" /\ pc' = IF buffer = <<>> THEN "select" ELSE "summarize"
      /\ batch' = buffer /\ buffer' = <<>>
      /\ UNCHANGED <<kafkaVars, clientVars, summarized, attempt, outcome>>
  BY DEF TakeBatch
<1>2. batch = <<>> /\ summarized = <<>>
  BY <1>1 DEF BatchShape
<1>3. <<>> \in Seq(ContentID) /\ Range(<<>>) = {}
  BY EmptySequence
<1>4. TypeOK'
  <2>1. KafkaTypeOK'
    BY <1>1, KafkaFrame
  <2>2. ClientTypeOK'
    BY <1>1, ClientStep DEF TypeOK
  <2>3. QED BY <1>1, <1>3, <2>1, <2>2 DEF TypeOK
<1>5. BatchShape' /\ SettledBeforeCommit'
  BY <1>1, <1>2 DEF BatchShape, SettledBeforeCommit
<1>6. InMemory' = InMemory
  BY <1>1, <1>2, <1>3 DEF InMemory
<1>7. UNCHANGED Consumer!vars
  BY <1>1, <1>6, Unseen
<1>8. QED BY <1>1, <1>4, <1>5, <1>7, KafkaFrame DEF ContractStep

(* The batch leaves memory with a reason.                                   *)
LEMMA LeaveBatchStep ==
    ASSUME Bookkeeping, pc = "summarize", ClientTypeOK', UNCHANGED kafkaVars,
           NEW why \in {"failed", "refused"}, LeaveBatch(why)
    PROVE  Bookkeeping' /\ ContractStep
<1> USE DEF Bookkeeping
<1>1. /\ Note(Range(batch), why)
      /\ batch' = <<>> /\ attempt' = 1 /\ pc' = "select"
      /\ UNCHANGED <<kafkaVars, buffer, summarized>>
  BY DEF LeaveBatch
<1>2. <<>> \in Seq(ContentID) /\ Range(<<>>) = {}
  BY EmptySequence
<1>3. Range(batch) \subseteq ContentID
  BY RangeInSet DEF TypeOK
<1>4. /\ outcome' \in [ContentID -> SUBSET Outcome]
      /\ SettledContents' = SettledContents
      /\ DroppedContents' = DroppedContents \cup Range(batch)
  <2>1. /\ why \in Outcome /\ why \notin {"published", "abandoned"}
        /\ why \in {"lowValue", "refused", "failed"}
    BY DEF Outcome
  <2>2. QED BY <1>1, <1>3, <2>1, NoteStep
<1>5. TypeOK'
  BY <1>1, <1>2, <1>4, KafkaFrame DEF TypeOK, PublishAttempts
<1>6. BatchShape' /\ SettledBeforeCommit'
  BY <1>1 DEF BatchShape, SettledBeforeCommit
<1>7. InMemory' \subseteq InMemory /\ InMemory \subseteq InMemory' \cup Range(batch)
  BY <1>1, <1>2 DEF InMemory
<1>8. Range(batch) \subseteq InMemory
  BY DEF InMemory
<1>9. Taken' = Taken /\ UNCHANGED <<position, committed>>
  BY KafkaFrame DEF kafkaVars
<1>10. Consumer!Drop
  BY <1>4, <1>7, <1>8, <1>9 DEF Consumer!Drop, Consumer!LetGo
<1>11. QED BY <1>5, <1>6, <1>10, KafkaFrame DEF ContractStep, Consumer!Next

LEMMA SummariesMissing ==
    ASSUME Bookkeeping, SummariesFailed \/ SummariesRefused
    PROVE  Bookkeeping' /\ ContractStep
<1>1. pc = "summarize" /\ (LeaveBatch("failed") \/ LeaveBatch("refused"))
  BY DEF SummariesFailed, SummariesRefused
<1>2. ClientTypeOK'
  BY ClientStep DEF SummariesFailed, SummariesRefused, NoSummaries, Bookkeeping, TypeOK
<1>3. UNCHANGED kafkaVars
  BY <1>1 DEF LeaveBatch
<1>4. QED BY <1>1, <1>2, <1>3, LeaveBatchStep

LEMMA SummariesArriveStep ==
    ASSUME Bookkeeping, NEW good \in SUBSET ContentID, SummariesArrive(good)
    PROVE  Bookkeeping' /\ ContractStep
<1> USE DEF Bookkeeping
<1> DEFINE at == {i \in DOMAIN batch : batch[i] \in good}
<1>1. /\ pc = "summarize" /\ pc' = IF good = {} THEN "select" ELSE "publish"
      /\ Answered
      /\ good \subseteq Range(batch)
      /\ summarized' \in Picked(batch, at)
      /\ Note(Range(batch) \ good, "lowValue")
      /\ batch' = <<>> /\ attempt' = 1
      /\ UNCHANGED <<kafkaVars, buffer>>
  BY DEF SummariesArrive
<1>2. <<>> \in Seq(ContentID) /\ Range(<<>>) = {}
  BY EmptySequence
<1>3. summarized = <<>> /\ batch \in Seq(ContentID)
  BY <1>1 DEF BatchShape, TypeOK
<1>4. Range(batch) \subseteq ContentID
  BY <1>3, RangeInSet
<1>5. summarized' \in Seq(ContentID) /\ Range(summarized') = good
  <2>1. summarized' \in Seq(ContentID) /\ Range(summarized') = {batch[i] : i \in at}
    BY <1>1, <1>3, RangeOfPicked
  <2>2. {batch[i] : i \in at} = good
    BY <1>1 DEF Range
  <2>3. QED BY <2>1, <2>2
<1>6. summarized' = <<>> <=> good = {}
  BY <1>5, EmptySequence, RangeOfEmpty
<1>7. /\ outcome' \in [ContentID -> SUBSET Outcome]
      /\ SettledContents' = SettledContents
      /\ DroppedContents' = DroppedContents \cup (Range(batch) \ good)
  BY <1>1, <1>4, NoteStep DEF Outcome
<1>8. ClientTypeOK'
  BY <1>1, ClientStep DEF TypeOK
<1>9. TypeOK'
  BY <1>1, <1>2, <1>5, <1>7, <1>8, KafkaFrame DEF TypeOK, PublishAttempts
<1>10. BatchShape' /\ SettledBeforeCommit'
  BY <1>1, <1>6 DEF BatchShape, SettledBeforeCommit
<1>11. /\ InMemory' \subseteq InMemory
       /\ InMemory \subseteq InMemory' \cup (Range(batch) \ good)
       /\ Range(batch) \subseteq InMemory
  BY <1>1, <1>2, <1>3, <1>5 DEF InMemory
<1>12. Taken' = Taken /\ UNCHANGED <<position, committed>>
  BY <1>1, KafkaFrame DEF kafkaVars
<1>13. Consumer!Drop
  BY <1>7, <1>11, <1>12 DEF Consumer!Drop, Consumer!LetGo
<1>14. QED BY <1>1, <1>9, <1>10, <1>13, KafkaFrame DEF ContractStep, Consumer!Next

-----------------------------------------------------------------------------
(* Publishing and committing.                                               *)

(* The publish loop ends, one way or the other, with the content settled.   *)
LEMMA PublishEnds ==
    ASSUME Bookkeeping, PublishOk \/ PublishGiveUp
    PROVE  Bookkeeping' /\ ContractStep
<1> USE DEF Bookkeeping
<1>1. PICK what \in {"published", "abandoned"} :
         /\ pc = "publish" /\ pc' = "commit"
         /\ Note({Head(summarized)}, what)
         /\ attempt' = 1
         /\ UNCHANGED <<kafkaVars, clientVars, buffer, batch, summarized>>
  BY DEF PublishOk, PublishGiveUp
<1> DEFINE c == Head(summarized)
<1>2. c \in ContentID /\ c \in Range(summarized)
  <2>1. summarized \in Seq(ContentID) /\ Len(summarized) > 0
    BY <1>1, EmptySequence DEF TypeOK, BatchShape
  <2>2. QED BY <2>1, RangeOfTail
<1>3. /\ outcome' \in [ContentID -> SUBSET Outcome]
      /\ SettledContents' = SettledContents \cup {c}
      /\ DroppedContents' = DroppedContents
  <2>1. /\ what \in Outcome /\ {c} \in SUBSET ContentID
        /\ what \notin {"lowValue", "refused", "failed"}
    BY <1>2 DEF Outcome
  <2>2. QED BY <1>1, <2>1, NoteStep
<1>4. Settled(c)'
  BY <1>1, <1>3 DEF SettledContents
<1>5. ClientTypeOK'
  BY <1>1, ClientStep DEF TypeOK
<1>6. TypeOK'
  BY <1>1, <1>3, <1>5, KafkaFrame DEF TypeOK, PublishAttempts
<1>7. BatchShape' /\ SettledBeforeCommit'
  BY <1>1, <1>4 DEF BatchShape, SettledBeforeCommit
<1>8. InMemory' = InMemory /\ c \in InMemory
  BY <1>1, <1>2 DEF InMemory
<1>9. Taken' = Taken /\ UNCHANGED <<position, committed>>
  BY <1>1, KafkaFrame DEF kafkaVars
<1>10. Consumer!Settle
  BY <1>3, <1>8, <1>9 DEF Consumer!Settle, Consumer!LetGo
<1>11. QED BY <1>1, <1>6, <1>7, <1>10, KafkaFrame DEF ContractStep, Consumer!Next

(* Going on to the next content drops one that is settled.                  *)
LEMMA NextSummaryStep ==
    ASSUME Bookkeeping, pc = "commit", NextSummary,
           UNCHANGED <<buffer, batch, attempt, outcome>>
    PROVE  /\ summarized' \in Seq(ContentID)
           /\ pc' \in {"publish", "select"}
           /\ BatchShape' /\ SettledBeforeCommit'
           /\ Head(summarized) \in SettledContents
           /\ UNCHANGED <<SettledContents, DroppedContents>>
           /\ Consumer!LetGo
<1> USE DEF Bookkeeping
<1>1. /\ summarized' = Tail(summarized)
      /\ pc' = IF Len(summarized) > 1 THEN "publish" ELSE "select"
  BY DEF NextSummary
<1>2. summarized \in Seq(ContentID) /\ Len(summarized) > 0 /\ Len(summarized) \in Nat
  BY EmptySequence DEF TypeOK, BatchShape
<1>3. /\ Tail(summarized) \in Seq(ContentID)
      /\ Len(Tail(summarized)) = Len(summarized) - 1
      /\ Head(summarized) \in ContentID
      /\ Range(summarized) = {Head(summarized)} \cup Range(Tail(summarized))
  BY <1>2, RangeOfTail
<1>4. summarized' # <<>> <=> Len(summarized) > 1
  <2>1. summarized' # <<>> <=> Len(summarized') # 0
    BY <1>1, <1>3, EmptySequence
  <2>2. QED BY <1>1, <1>2, <1>3, <2>1
<1>5. BatchShape' /\ SettledBeforeCommit'
  BY <1>1, <1>4 DEF BatchShape, SettledBeforeCommit
<1>6. Head(summarized) \in SettledContents
  BY <1>3 DEF SettledBeforeCommit, SettledContents
<1>7. UNCHANGED <<SettledContents, DroppedContents>>
  BY DEF SettledContents, DroppedContents, Settled
<1>8. InMemory' \subseteq InMemory /\ InMemory \subseteq InMemory' \cup {Head(summarized)}
  BY <1>1, <1>3 DEF InMemory
<1>9. Consumer!LetGo
  BY <1>6, <1>7, <1>8 DEF Consumer!LetGo
<1>10. QED BY <1>1, <1>3, <1>5, <1>6, <1>7, <1>9

LEMMA NothingTrackedStep ==
    ASSUME Bookkeeping, NothingTracked
    PROVE  Bookkeeping' /\ ContractStep
<1> USE DEF Bookkeeping
<1>1. /\ pc = "commit" /\ NextSummary
      /\ UNCHANGED <<kafkaVars, clientVars, buffer, batch, attempt, outcome>>
  BY DEF NothingTracked
<1>2. ClientTypeOK'
  BY <1>1, ClientStep DEF TypeOK
<1>3. TypeOK'
  BY <1>1, <1>2, NextSummaryStep, KafkaFrame DEF TypeOK
<1>4. Taken' = Taken /\ UNCHANGED <<position, committed>>
  BY <1>1, KafkaFrame DEF kafkaVars
<1>5. Consumer!Settle
  BY <1>1, <1>4, NextSummaryStep DEF Consumer!Settle
<1>6. QED BY <1>1, <1>3, <1>5, NextSummaryStep, KafkaFrame DEF ContractStep, Consumer!Next

LEMMA CommitTrackedStep ==
    ASSUME Bookkeeping, CommitTracked
    PROVE  Bookkeeping' /\ ContractStep
<1> USE DEF Bookkeeping
<1> PICK c, m : c = Head(summarized) /\ m = messageMap[c]
  OBVIOUS
<1>1. /\ pc = "commit" /\ NextSummary
      /\ m # NoMessage /\ Commit(m)
      /\ messageMap' = [messageMap EXCEPT ![c] = NoMessage]
      /\ UNCHANGED <<position, faults, start, reach, clientVars, buffer, batch,
                     attempt, outcome>>
  BY DEF CommitTracked, Untrack
<1>2. KafkaTypeOK /\ OffsetOrder /\ ClientTypeOK
  BY DEF TypeOK
<1>3. c \in ContentID /\ c \in SettledContents
  BY <1>1, NextSummaryStep DEF SettledContents
<1>4. InHand(m) /\ Value(m) = c
  BY <1>1, <1>3 DEF TrackedInHand, TrackedContents
<1>5. /\ m.partition \in Partition
      /\ m.offset \in HandedOut(m.partition)
      /\ m.offset \in 1 .. Len(Log[m.partition])
      /\ \/ UNCHANGED committed
         \/ committed' = [committed EXCEPT ![m.partition] = m.offset]
      /\ committed' \in [Partition -> Nat]
      /\ \A q \in Partition : committed'[q] <= Len(Log[q])
      /\ OffsetOrder'
  BY <1>1, <1>2, <1>4, KafkaCommit
<1>6. \A q \in Partition : HandedOut(q)' = HandedOut(q)
  BY <1>1 DEF HandedOut
<1>7. messageMap' \in [ContentID -> Message \cup {NoMessage}]
  BY <1>1, <1>2 DEF KafkaTypeOK
<1>8. KafkaTypeOK'
  BY <1>1, <1>2, <1>5, <1>7 DEF KafkaTypeOK, Message
<1>9. TrackedInHand' /\ TrackedContents'
  <2>1. \A d \in ContentID :
           messageMap'[d] # NoMessage => messageMap'[d] = messageMap[d]
    BY <1>1, <1>2 DEF KafkaTypeOK
  <2>2. QED BY <1>6, <2>1, InHandStays DEF TrackedInHand, TrackedContents, Value
<1>10. TypeOK'
  BY <1>1, <1>2, <1>8, NextSummaryStep, ClientStep DEF TypeOK
<1>11. Taken' = Taken /\ m.offset \in Taken[m.partition]
  BY <1>5, <1>6 DEF Taken
<1>12. MessageContents[m.partition][m.offset] \cap SettledContents # {}
  BY <1>3, <1>4, <1>5, Contents DEF Value
<1>13. Consumer!Settle \/ Consumer!Acknowledge(m.partition, m.offset)
  BY <1>1, <1>5, <1>11, <1>12, NextSummaryStep
  DEF Consumer!Settle, Consumer!Acknowledge
<1>14. Consumer!Next
  BY <1>5, <1>11, <1>13 DEF Consumer!Next
<1>15. QED BY <1>1, <1>5, <1>9, <1>10, <1>14, NextSummaryStep DEF ContractStep

-----------------------------------------------------------------------------
(* Faults.                                                                  *)

LEMMA RestartStep ==
    ASSUME Bookkeeping, Restart
    PROVE  Bookkeeping' /\ ContractStep
<1> USE DEF Bookkeeping
<1>1. /\ KafkaRestart /\ ClientRestart
      /\ buffer' = <<>> /\ pc' = "select" /\ batch' = <<>>
      /\ summarized' = <<>> /\ attempt' = 1 /\ UNCHANGED outcome
  BY DEF Restart
<1>2. KafkaTypeOK /\ ClientTypeOK
  BY DEF TypeOK
<1>3. /\ KafkaTypeOK' /\ OffsetOrder' /\ TrackedInHand'
      /\ \A q \in Partition : HandedOut(q)' = {}
      /\ position' = committed /\ UNCHANGED committed
      /\ messageMap' = [c \in ContentID |-> NoMessage]
  BY <1>1, <1>2, KafkaRestarts
<1>4. <<>> \in Seq(ContentID) /\ Range(<<>>) = {}
  BY EmptySequence
<1>5. ClientTypeOK'
  BY <1>1, <1>2, ClientStep
<1>6. TypeOK'
  BY <1>1, <1>3, <1>4, <1>5 DEF TypeOK, PublishAttempts
<1>7. BatchShape' /\ SettledBeforeCommit' /\ TrackedContents'
  BY <1>1, <1>3 DEF BatchShape, SettledBeforeCommit, TrackedContents
<1>8. InMemory' = {}
  BY <1>1, <1>4 DEF InMemory
<1>9. UNCHANGED <<SettledContents, DroppedContents>>
  BY <1>1 DEF SettledContents, DroppedContents, Settled
<1>10. Taken' = [q \in Partition |-> {}]
  BY <1>3 DEF Taken
<1>11. Consumer!Crash
  BY <1>3, <1>8, <1>9, <1>10 DEF Consumer!Crash
<1>12. QED BY <1>3, <1>6, <1>7, <1>11 DEF ContractStep, Consumer!Next

LEMMA RebalanceStep ==
    ASSUME Bookkeeping, Rebalance
    PROVE  Bookkeeping' /\ ContractStep
<1> USE DEF Bookkeeping
<1>1. /\ KafkaRebalance
      /\ UNCHANGED <<clientVars, buffer, pc, batch, summarized, attempt, outcome>>
  BY DEF Rebalance
<1>2. KafkaTypeOK /\ ClientTypeOK
  BY DEF TypeOK
<1>3. /\ KafkaTypeOK' /\ OffsetOrder' /\ TrackedInHand'
      /\ \A q \in Partition : HandedOut(q)' = HandedOut(q)
      /\ position' = committed /\ UNCHANGED <<committed, messageMap>>
  BY <1>1, <1>2, KafkaRebalances
<1>4. ClientTypeOK'
  BY <1>1, <1>2, ClientStep
<1>5. TypeOK'
  BY <1>1, <1>3, <1>4 DEF TypeOK
<1>6. BatchShape' /\ SettledBeforeCommit' /\ TrackedContents'
  BY <1>1, <1>3 DEF BatchShape, SettledBeforeCommit, Settled, TrackedContents, Value
<1>7. UNCHANGED <<InMemory, SettledContents, DroppedContents>>
  BY <1>1 DEF InMemory, SettledContents, DroppedContents, Settled
<1>8. Taken' = Taken
  BY <1>3 DEF Taken
<1>9. Consumer!Reassign
  BY <1>3, <1>7, <1>8 DEF Consumer!Reassign
<1>10. QED BY <1>3, <1>5, <1>6, <1>9 DEF ContractStep, Consumer!Next

-----------------------------------------------------------------------------
(* All together.                                                            *)

LEMMA EveryStep ==
    ASSUME Bookkeeping, [Next]_vars
    PROVE  Bookkeeping' /\ ContractStep
<1>1. CASE ProcessStep
  BY <1>1, ControlSteps, TakeBatchStep, SummariesMissing, SummariesArriveStep,
     PublishEnds, CommitTrackedStep, NothingTrackedStep DEF ProcessStep
<1>2. CASE Loop
  BY <1>1, <1>2, ControlSteps, ReceiveStep, ReceiveMalformedStep DEF Loop
<1>3. CASE Restart
  BY <1>3, RestartStep
<1>4. CASE Rebalance
  BY <1>4, RebalanceStep
<1>5. CASE Tick \/ ReadError \/ MonitorSummarizerHealth \/ SummarizerChanges
           \/ UNCHANGED vars
  BY <1>5, ControlSteps
<1>6. QED BY <1>2, <1>3, <1>4, <1>5 DEF Next

LEMMA InitBookkeeping ==
    ASSUME Init
    PROVE  Bookkeeping /\ Consumer!Init
<1> USE DEF Init, KafkaInit
<1>1. <<>> \in Seq(ContentID) /\ Range(<<>>) = {}
  BY EmptySequence
<1>2. KafkaTypeOK
  BY KafkaAssumption DEF KafkaTypeOK
<1>3. ClientTypeOK
  BY HuggingFaceAssumption DEF ClientInit, ClientTypeOK
<1>4. TypeOK
  BY <1>1, <1>2, <1>3 DEF TypeOK, PublishAttempts
<1>5. BatchShape /\ SettledBeforeCommit /\ OffsetOrder /\ TrackedInHand /\ TrackedContents
  BY DEF BatchShape, SettledBeforeCommit, OffsetOrder, TrackedInHand, TrackedContents
<1>6. /\ Taken = [p \in Partition |-> {}] /\ InMemory = {}
      /\ SettledContents = {} /\ DroppedContents = {}
  BY <1>1 DEF Taken, HandedOut, InMemory, SettledContents, DroppedContents, Settled
<1>7. QED BY <1>4, <1>5, <1>6 DEF Bookkeeping, Consumer!Init

(* A step of the contract loses no content and acknowledges no message that *)
(* is not settled.                                                          *)
LEMMA ContractKeeps ==
    ASSUME TypeOK, Consumer!Kept, Consumer!AckedIsSettled, ContractStep
    PROVE  Consumer!Kept' /\ Consumer!AckedIsSettled'
<1> USE DEF Consumer!Kept, Consumer!AckedIsSettled
<1>1. committed \in [Partition -> Nat]
  BY DEF TypeOK, KafkaTypeOK
<1>2. MessageContents' = MessageContents
  BY DEF MessageContents
<1>3. CASE Consumer!Crash \/ Consumer!Reassign \/ UNCHANGED Consumer!vars
  BY <1>3 DEF Consumer!Crash, Consumer!Reassign, Consumer!vars
<1>4. CASE Consumer!Settle \/ Consumer!Drop
  BY <1>4 DEF Consumer!Settle, Consumer!Drop, Consumer!LetGo
<1>5. ASSUME NEW p \in Partition, Consumer!Take(p)
      PROVE  Consumer!Kept' /\ Consumer!AckedIsSettled'
  <2>1. /\ \A q \in Partition : \A o \in Taken'[q] :
             o \in Taken[q] \/ (q = p /\ o = position[p] + 1)
        /\ UNCHANGED <<committed, SettledContents>>
    BY <1>5 DEF Consumer!Take, Taken
  <2>2. /\ InMemory \subseteq InMemory' /\ DroppedContents \subseteq DroppedContents'
        /\ MessageContents[p][position[p] + 1] \subseteq InMemory' \cup DroppedContents'
    BY <1>5 DEF Consumer!Take
  <2>3. Consumer!Kept'
    BY <1>2, <2>1, <2>2
  <2>4. Consumer!AckedIsSettled'
    BY <1>2, <2>1
  <2>5. QED BY <2>3, <2>4
<1>6. ASSUME NEW p \in Partition, NEW o \in Taken[p], Consumer!Acknowledge(p, o)
      PROVE  Consumer!Kept' /\ Consumer!AckedIsSettled'
  BY <1>1, <1>6 DEF Consumer!Acknowledge, Consumer!LetGo
<1>7. QED BY <1>3, <1>4, <1>5, <1>6 DEF ContractStep, Consumer!Next

-----------------------------------------------------------------------------
(* What the invariant says in the consumer's own terms.                     *)

LEMMA EndsAreNoted ==
    ASSUME TypeOK, NEW c \in SettledContents \cup DroppedContents
    PROVE  c \in ContentID /\ outcome[c] # {}
  BY DEF TypeOK, SettledContents, DroppedContents, Settled

LEMMA KeptMeans == IInv => NoContentVanishes
<1> SUFFICES ASSUME IInv, NEW p \in Partition, NEW o \in HandedOut(p),
                    Log[p][o] \in ContentID
             PROVE  Held(Log[p][o]) \/ outcome[Log[p][o]] # {}
  BY DEF NoContentVanishes
<1>1. TypeOK /\ o \in 1 .. Len(Log[p])
  BY KafkaAssumption DEF IInv, Bookkeeping, TypeOK, KafkaTypeOK, HandedOut
<1>2. Log[p][o] \in MessageContents[p][o]
  BY <1>1, Contents
<1>3. MessageContents[p][o] \subseteq InMemory \cup SettledContents \cup DroppedContents
  BY DEF IInv, Consumer!Kept, Taken
<1>4. QED BY <1>1, <1>2, <1>3, EndsAreNoted DEF Held

LEMMA AckedMeans == IInv => CommittedWasSettled
<1> SUFFICES ASSUME IInv, NEW p \in Partition, committed[p] > 0
             PROVE  Settled(Log[p][committed[p]])
  BY DEF CommittedWasSettled
<1>1. committed[p] \in 1 .. Len(Log[p])
  BY KafkaAssumption DEF IInv, Bookkeeping, TypeOK, KafkaTypeOK
<1>2. MessageContents[p][committed[p]] \cap SettledContents # {}
  BY DEF IInv, Consumer!AckedIsSettled
<1>3. QED BY <1>1, <1>2, Contents DEF SettledContents

(* An offset past the committed one was handed to this process, or will be. *)
LEMMA RecoverableMeans == IInv => UncommittedIsRecoverable
<1> SUFFICES ASSUME IInv, NEW p \in Partition,
                    NEW o \in committed[p] + 1 .. Len(Log[p]),
                    ~(o > position[p]), Log[p][o] # Malformed
             PROVE  Held(Log[p][o]) \/ outcome[Log[p][o]] # {}
  BY DEF UncommittedIsRecoverable
<1>1. o \in HandedOut(p) /\ o \in 1 .. Len(Log[p])
  BY KafkaAssumption
  DEF IInv, Bookkeeping, TypeOK, KafkaTypeOK, OffsetOrder, HandedOut
<1>2. Log[p][o] \in ContentID
  BY <1>1, Contents
<1>3. QED BY <1>1, <1>2, KeptMeans DEF NoContentVanishes

-----------------------------------------------------------------------------
(* IInv holds in every state of every behaviour.                            *)
THEOREM Invariance == Spec => []IInv
<1>1. Init => IInv
  <2> SUFFICES ASSUME Init PROVE IInv
    OBVIOUS
  <2>1. Bookkeeping /\ Consumer!Init
    BY InitBookkeeping
  <2>2. Consumer!Kept /\ Consumer!AckedIsSettled
    BY <2>1 DEF Consumer!Init, Consumer!Kept, Consumer!AckedIsSettled
  <2>3. QED BY <2>1, <2>2 DEF IInv
<1>2. IInv /\ [Next]_vars => IInv'
  BY EveryStep, ContractKeeps DEF IInv, Bookkeeping
<1>3. QED BY <1>1, <1>2, PTL DEF Spec

(* Every reachable state is well typed.                                     *)
THEOREM TypeCorrect == Spec => []TypeOK
<1>1. IInv => TypeOK
  BY DEF IInv, Bookkeeping
<1>2. QED BY <1>1, Invariance, PTL

(* Whatever the health flag, the ticker and the requests do, a content this *)
(* process was handed is in its memory or has met one of the five ends.     *)
THEOREM NothingVanishes == Spec => []NoContentVanishes
  BY KeptMeans, Invariance, PTL

(* The committed offset is that of a content published or abandoned.        *)
THEOREM CommitAfterSettling == Spec => []CommittedWasSettled
  BY AckedMeans, Invariance, PTL

(* No message past the committed offset is lost, through any number of      *)
(* restarts and rebalances.                                                 *)
THEOREM Recoverable == Spec => []UncommittedIsRecoverable
  BY RecoverableMeans, Invariance, PTL

(* The summary consumer is a ConsumerContract: each of its steps is one of  *)
(* the contract, or changes nothing that the contract speaks of.            *)
THEOREM Refinement == Spec => ImplementsConsumer
<1>1. Init => Consumer!Init
  BY InitBookkeeping
<1>2. IInv /\ [Next]_vars => [Consumer!Next]_(Consumer!vars)
  BY EveryStep DEF IInv, ContractStep
<1>3. QED BY <1>1, <1>2, Invariance, PTL DEF Spec, ImplementsConsumer, Consumer!Spec
=============================================================================
