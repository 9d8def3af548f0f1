-------------------- MODULE SentimentAnalysisConsumerProofs --------------------
(***************************************************************************)
(* The safety of SentimentAnalysisConsumer, and that it is a               *)
(* ConsumerContract, for any number of partitions and contents, any log of *)
(* lists that are not empty, any number of requests in a call and any      *)
(* bound on restarts and rebalances.                                       *)
(*                                                                         *)
(* As in SummaryConsumerProofs, one lemma for each action shows that it    *)
(* keeps the Bookkeeping and is a step of the contract.                    *)
(***************************************************************************)
EXTENDS SentimentAnalysisConsumer, KafkaConsumerProofs

ContractStep == [Consumer!Next]_(Consumer!vars)

-----------------------------------------------------------------------------
(* Frames.                                                                  *)

LEMMA ClientStep ==
    ASSUME ClientTypeOK,
           \/ HealthCheck \/ StoreHealth \/ ServiceChanges
           \/ RequestAgain \/ RequestsUsedUp \/ Refused \/ Answered
           \/ ClientRestart
           \/ UNCHANGED clientVars
    PROVE  ClientTypeOK'
<1> USE DEF ClientTypeOK, CallEnds, serviceVars, callVars, clientVars, HealthCheck,
            StoreHealth, ServiceChanges, RequestAgain, RequestsUsedUp, Refused,
            Answered, ClientRestart
<1>1. service' \in {"up", "down"} /\ probe' \in {"none", "up", "down"}
  OBVIOUS
<1>2. healthy' \in BOOLEAN
  OBVIOUS
<1>3. request' \in 1 .. MAX_RETRIES /\ body' \in {"whole", "read"}
  <2>1. request' \in {request, 1} \/ (request < MAX_RETRIES /\ request' = request + 1)
    OBVIOUS
  <2>2. request' \in 1 .. MAX_RETRIES
    BY <2>1, HuggingFaceAssumption
  <2>3. body' \in {"whole", "read"}
    OBVIOUS
  <2>4. QED BY <2>2, <2>3
<1>4. QED BY <1>1, <1>2, <1>3

LEMMA SameOutcome ==
    ASSUME UNCHANGED outcome
    PROVE  /\ SettledContents' = SettledContents /\ DroppedContents' = DroppedContents
           /\ \A c : Settled(c)' <=> Settled(c)
  BY DEF SettledContents, DroppedContents, Settled

(* What Note does to the two sets of the contract.                          *)
LEMMA NoteStep ==
    ASSUME TypeOK, NEW C \in SUBSET ContentID, NEW what \in Outcome, Note(C, what)
    PROVE  /\ outcome' \in [ContentID -> SUBSET Outcome]
           /\ SettledContents' = SettledContents \cup
                (IF what \in {"published", "abandoned"} THEN C ELSE {})
           /\ DroppedContents' = DroppedContents \cup
                (IF what \in {"skipped", "failed"} THEN C ELSE {})
           /\ \A c \in ContentID : Settled(c) => Settled(c)'
<1>1. outcome' = [c \in ContentID |->
                    IF c \in C THEN outcome[c] \cup {what} ELSE outcome[c]]
  BY DEF Note
<1>2. outcome \in [ContentID -> SUBSET Outcome]
  BY DEF TypeOK
<1>3. outcome' \in [ContentID -> SUBSET Outcome]
  BY <1>1, <1>2
<1>4. \A c \in ContentID : Settled(c) => Settled(c)'
  BY <1>1 DEF Settled
<1>5. QED BY <1>1, <1>2, <1>3, <1>4 DEF SettledContents, DroppedContents, Settled, Outcome

-----------------------------------------------------------------------------
(* The log: what a message lists.                                           *)

LEMMA Contents ==
    ASSUME NEW p \in Partition
    PROVE  /\ Len(MessageContents[p]) = Len(Log[p])
           /\ \A o \in 1 .. Len(Log[p]) :
                /\ MessageContents[p][o] = Listed(p, o)
                /\ Log[p][o] # Malformed =>
                     /\ Log[p][o] \in Seq(ContentID) /\ Len(Log[p][o]) > 0
                     /\ Head(Log[p][o]) \in Listed(p, o)
                     /\ Head(Log[p][o]) \in ContentID
                /\ Listed(p, o) \subseteq ContentID
<1>1. Len(Log[p]) \in Nat /\ Log[p] \in Seq(Seq(ContentID) \cup {Malformed})
  BY KafkaAssumption, SentimentAssumption
<1>2. ASSUME NEW o \in 1 .. Len(Log[p]), Log[p][o] # Malformed
      PROVE  /\ Log[p][o] \in Seq(ContentID) /\ Len(Log[p][o]) > 0
             /\ Head(Log[p][o]) \in Listed(p, o)
             /\ Head(Log[p][o]) \in ContentID
             /\ Listed(p, o) \subseteq ContentID
  <2> DEFINE list == Log[p][o]
  <2>1. list \in Seq(ContentID) \cup {Malformed}
    BY <1>1
  <2>2. list \in Seq(ContentID) /\ list # <<>>
    BY <1>2, <2>1, SentimentAssumption
  <2>3. Len(list) > 0
    BY <2>2, EmptySequence
  <2>4. Listed(p, o) = Range(list)
    BY <1>2 DEF Listed
  <2> HIDE DEF list
  <2>5. Head(list) \in ContentID /\ Head(list) \in Range(list)
    BY <2>2, <2>3, RangeOfTail
  <2>6. QED BY <2>2, <2>3, <2>4, <2>5, RangeInSet DEF list
<1>3. \A o \in 1 .. Len(Log[p]) : Listed(p, o) \subseteq ContentID
  BY <1>2 DEF Listed
<1>4. MessageContents[p] = [o \in 1 .. Len(Log[p]) |-> Listed(p, o)]
  BY DEF MessageContents
<1>5. MessageContents[p] \in [1 .. Len(Log[p]) -> SUBSET ContentID]
  BY <1>3, <1>4
<1>6. Len(MessageContents[p]) = Len(Log[p])
  BY <1>1, <1>5, LenOfFunction
<1>7. QED BY <1>2, <1>3, <1>4, <1>6

LEMMA CommittedFirst ==
    ASSUME Bookkeeping, NEW p \in Partition, committed[p] > 0
    PROVE  /\ committed[p] \in 1 .. Len(Log[p])
           /\ Head(Log[p][committed[p]]) \in ContentID
           /\ Head(Log[p][committed[p]]) \in Listed(p, committed[p])
           /\ Settled(Head(Log[p][committed[p]]))
<1>1. committed[p] \in 1 .. Len(Log[p])
  BY KafkaAssumption DEF Bookkeeping, TypeOK, KafkaTypeOK
<1>2. Log[p][committed[p]] # Malformed /\ Settled(Head(Log[p][committed[p]]))
  BY DEF Bookkeeping, CommittedParses, CommittedFirstWasSettled
<1>3. QED BY <1>1, <1>2, Contents

(* Commits are the only steps that can disturb what is committed.           *)
LEMMA CommittedFrame ==
    ASSUME Bookkeeping, UNCHANGED committed,
           \A c \in ContentID : Settled(c) => Settled(c)'
    PROVE  CommittedParses' /\ CommittedFirstWasSettled'
<1>1. CommittedParses'
  BY DEF Bookkeeping, CommittedParses
<1>2. ASSUME NEW p \in Partition, committed[p] > 0
      PROVE  (Settled(Head(Log[p][committed[p]])))'
  <2> PICK c \in ContentID : c = Head(Log[p][committed[p]]) /\ Settled(c)
    BY <1>2, CommittedFirst
  <2>1. Settled(c)'
    OBVIOUS
  <2>2. QED BY <2>1 DEF Settled
<1>3. QED BY <1>1, <1>2 DEF CommittedFirstWasSettled

(* The parts of the Bookkeeping that speak of Kafka and of outcomes only.   *)
LEMMA KafkaFrame ==
    ASSUME Bookkeeping, UNCHANGED kafkaVars,
           \A c \in ContentID : Settled(c) => Settled(c)'
    PROVE  /\ KafkaTypeOK' /\ OffsetOrder' /\ TrackedInHand' /\ TrackedFirst'
           /\ CommittedParses' /\ CommittedFirstWasSettled'
           /\ Taken' = Taken
<1>1. KafkaTypeOK /\ OffsetOrder /\ TrackedInHand /\ TrackedFirst
  BY DEF Bookkeeping, TypeOK
<1>2. TrackedFirst'
  BY <1>1 DEF TrackedFirst, Value, kafkaVars
<1>3. QED BY <1>1, <1>2, CommittedFrame, KafkaStutters DEF Taken, kafkaVars

-----------------------------------------------------------------------------
(* Steps that move no content.                                              *)
LEMMA ControlSteps ==
    ASSUME Bookkeeping,
           \/ ScoresRequestAgain \/ PublishRetry
           \/ MonitorAnalyzerHealth \/ AnalyzerChanges
           \/ UNCHANGED vars
    PROVE  Bookkeeping' /\ ContractStep
<1> USE DEF Bookkeeping
<1>1. UNCHANGED <<kafkaVars, pc, requests, batch, outcome>>
  BY DEF ScoresRequestAgain, PublishRetry, MonitorAnalyzerHealth,
         AnalyzerChanges, consumerVars, vars
<1>2. ClientTypeOK'
  <2>1. ClientTypeOK
    BY DEF TypeOK
  <2>2. QED
    BY <2>1, ClientStep
    DEF ScoresRequestAgain, PublishRetry, MonitorAnalyzerHealth, AnalyzerChanges, vars
<1>3. attempt' \in 1 .. PublishAttempts
  BY DEF TypeOK, PublishAttempts, ScoresRequestAgain, PublishRetry,
         MonitorAnalyzerHealth, AnalyzerChanges, consumerVars, vars
<1>4. /\ SettledContents' = SettledContents /\ DroppedContents' = DroppedContents
      /\ \A c : Settled(c)' <=> Settled(c)
  BY <1>1, SameOutcome
<1>5. /\ KafkaTypeOK' /\ OffsetOrder' /\ TrackedInHand' /\ TrackedFirst'
      /\ CommittedParses' /\ CommittedFirstWasSettled'
      /\ Taken' = Taken
  BY <1>1, <1>4, KafkaFrame
<1>6. TypeOK'
  BY <1>1, <1>2, <1>3, <1>5 DEF TypeOK
<1>7. BatchShape' /\ SettledBeforeCommit'
  BY <1>1, <1>4 DEF BatchShape, SettledBeforeCommit
<1>8. InMemory' = InMemory
  BY <1>1 DEF InMemory
<1>9. UNCHANGED Consumer!vars
  BY <1>1, <1>4, <1>5, <1>8 DEF Consumer!vars, kafkaVars
<1>10. QED BY <1>5, <1>6, <1>7, <1>9 DEF ContractStep

-----------------------------------------------------------------------------
(* Reading.                                                                 *)

(* A message is taken: what it lists goes into memory, or is dropped.       *)
LEMMA TakeStep ==
    ASSUME Bookkeeping, NEW p \in Partition, HasNext(p), Advance(p),
           UNCHANGED committed, SettledContents' = SettledContents,
           \/ /\ InMemory' = InMemory \cup Listed(p, position[p] + 1)
              /\ DroppedContents' = DroppedContents
           \/ /\ DroppedContents' = DroppedContents \cup Listed(p, position[p] + 1)
              /\ InMemory' = InMemory
    PROVE  Consumer!Take(p)
<1>1. KafkaTypeOK /\ OffsetOrder
  BY DEF Bookkeeping, TypeOK
<1> DEFINE o == position[p] + 1
<1>2. /\ o \in 1 .. Len(Log[p])
      /\ position' = [position EXCEPT ![p] = o]
      /\ \A q \in Partition :
           HandedOut(q)' = IF q = p THEN HandedOut(q) \cup {o} ELSE HandedOut(q)
  BY <1>1, KafkaAdvance
<1>3. o <= Len(MessageContents[p]) /\ MessageContents[p][o] = Listed(p, o)
  BY <1>2, Contents, KafkaAssumption
<1>4. Taken' = [Taken EXCEPT ![p] = @ \cup {o}]
  BY <1>2 DEF Taken
<1>5. QED BY <1>2, <1>3, <1>4 DEF Consumer!Take

(* What every message read does to the part of the state that is Kafka's.   *)
LEMMA Reads ==
    ASSUME Bookkeeping, NEW p \in Partition, HasNext(p), Advance(p),
           UNCHANGED <<committed, faults>>,
           \/ UNCHANGED messageMap
           \/ /\ Value(NextMessage(p)) # Malformed
              /\ TrackMessage(Head(Value(NextMessage(p))), NextMessage(p)),
           \A c \in ContentID : Settled(c) => Settled(c)'
    PROVE  /\ KafkaTypeOK' /\ OffsetOrder' /\ TrackedInHand' /\ TrackedFirst'
           /\ CommittedParses' /\ CommittedFirstWasSettled'
<1> USE DEF Bookkeeping
<1> PICK m : m = NextMessage(p)
  OBVIOUS
<1>1. KafkaTypeOK /\ OffsetOrder
  BY DEF TypeOK
<1>2. /\ position[p] + 1 \in 1 .. Len(Log[p])
      /\ OffsetOrder'
      /\ \A q \in Partition : HandedOut(q) \subseteq HandedOut(q)'
  BY <1>1, KafkaAdvance
<1>3. m \in Message /\ InHand(m)' /\ Value(m) = Log[p][position[p] + 1]
  BY <1>1, NextInHand
<1>4. messageMap \in [ContentID -> Message \cup {NoMessage}]
  BY <1>1 DEF KafkaTypeOK
<1>5. /\ messageMap' \in [ContentID -> Message \cup {NoMessage}]
      /\ \A d \in ContentID :
           \/ messageMap'[d] = messageMap[d]
           \/ /\ messageMap'[d] = m
              /\ Value(m) # Malformed /\ Head(Value(m)) = d
  <2>1. CASE UNCHANGED messageMap
    BY <1>4, <2>1
  <2>2. CASE Value(m) # Malformed /\ TrackMessage(Head(Value(m)), m)
    <3>1. messageMap' = [messageMap EXCEPT ![Head(Value(m))] = m]
      BY <2>2 DEF TrackMessage
    <3>2. QED BY <1>3, <1>4, <2>2, <3>1
  <2>3. QED BY <2>1, <2>2
<1>6. KafkaTypeOK'
  BY <1>1, <1>5, KafkaAdvance DEF KafkaTypeOK, Message
<1>7. TrackedInHand'
  BY <1>2, <1>3, <1>5, InHandStays DEF TrackedInHand
<1>8. TrackedFirst'
  BY <1>5 DEF TrackedFirst, Value
<1>9. QED BY <1>2, <1>6, <1>7, <1>8, CommittedFrame

LEMMA ReceiveMalformedStep ==
    ASSUME Bookkeeping, NEW p \in Partition, ReceiveMalformed(p)
    PROVE  Bookkeeping' /\ ContractStep
<1> USE DEF Bookkeeping
<1>1. /\ HasNext(p) /\ Advance(p)
      /\ Value(NextMessage(p)) = Malformed
      /\ UNCHANGED <<committed, messageMap, faults, clientVars, pc, requests,
                     batch, attempt, outcome>>
  BY DEF ReceiveMalformed
<1>2. /\ SettledContents' = SettledContents /\ DroppedContents' = DroppedContents
      /\ \A c : Settled(c)' <=> Settled(c)
  BY <1>1, SameOutcome
<1>3. /\ KafkaTypeOK' /\ OffsetOrder' /\ TrackedInHand' /\ TrackedFirst'
      /\ CommittedParses' /\ CommittedFirstWasSettled'
  BY <1>1, <1>2, Reads
<1>4. TypeOK'
  BY <1>1, <1>3, ClientStep DEF TypeOK
<1>5. BatchShape' /\ SettledBeforeCommit'
  BY <1>1, <1>2 DEF BatchShape, SettledBeforeCommit
<1>6. Listed(p, position[p] + 1) = {}
  BY <1>1 DEF Listed, Value, NextMessage
<1>7. InMemory' = InMemory
  BY <1>1 DEF InMemory
<1>8. Consumer!Take(p)
  BY <1>1, <1>2, <1>6, <1>7, TakeStep
<1>9. QED BY <1>3, <1>4, <1>5, <1>8 DEF ContractStep, Consumer!Next

(* The message the next read hands out, when it lists contents.             *)
LEMMA NextListed ==
    ASSUME Bookkeeping, NEW p \in Partition, HasNext(p), Advance(p), UNCHANGED committed,
           Value(NextMessage(p)) # Malformed
    PROVE  /\ Value(NextMessage(p)) \in Seq(ContentID)
           /\ Len(Value(NextMessage(p))) > 0
           /\ Range(Value(NextMessage(p))) = Listed(p, position[p] + 1)
           /\ Listed(p, position[p] + 1) \subseteq ContentID
<1>1. Value(NextMessage(p)) = Log[p][position[p] + 1]
  BY DEF Value, NextMessage
<1>2. position[p] + 1 \in 1 .. Len(Log[p])
  BY KafkaAdvance DEF Bookkeeping, TypeOK
<1>3. QED BY <1>1, <1>2, Contents DEF Listed

LEMMA ReceiveHealthyStep ==
    ASSUME Bookkeeping, NEW p \in Partition, ReceiveHealthy(p)
    PROVE  Bookkeeping' /\ ContractStep
<1> USE DEF Bookkeeping
<1> PICK m : m = NextMessage(p)
  OBVIOUS
<1>1. /\ pc = "read" /\ pc' = "request"
      /\ HasNext(p) /\ Advance(p)
      /\ Value(m) # Malformed
      /\ TrackMessage(Head(Value(m)), m)
      /\ requests' = Value(m)
      /\ UNCHANGED <<committed, faults, clientVars, batch, attempt, outcome>>
  BY DEF ReceiveHealthy
<1>2. /\ SettledContents' = SettledContents /\ DroppedContents' = DroppedContents
      /\ \A c : Settled(c)' <=> Settled(c)
  BY <1>1, SameOutcome
<1>3. /\ KafkaTypeOK' /\ OffsetOrder' /\ TrackedInHand' /\ TrackedFirst'
      /\ CommittedParses' /\ CommittedFirstWasSettled'
  BY <1>1, <1>2, Reads
<1>4. requests' \in Seq(ContentID) /\ Range(requests') = Listed(p, position[p] + 1)
  BY <1>1, NextListed
<1>5. TypeOK'
  BY <1>1, <1>3, <1>4, ClientStep DEF TypeOK
<1>6. BatchShape' /\ SettledBeforeCommit'
  BY <1>1 DEF BatchShape, SettledBeforeCommit
<1>7. Range(requests) = {} /\ Range(batch) = {}
  BY <1>1, EmptySequence DEF BatchShape
<1>8. InMemory' = InMemory \cup Listed(p, position[p] + 1)
  BY <1>1, <1>4, <1>7 DEF InMemory
<1>9. Consumer!Take(p)
  BY <1>1, <1>2, <1>8, TakeStep
<1>10. QED BY <1>3, <1>5, <1>6, <1>9 DEF ContractStep, Consumer!Next

LEMMA ReceiveUnhealthyStep ==
    ASSUME Bookkeeping, NEW p \in Partition, ReceiveUnhealthy(p)
    PROVE  Bookkeeping' /\ ContractStep
<1> USE DEF Bookkeeping
<1> PICK m : m = NextMessage(p)
  OBVIOUS
<1>1. /\ pc = "read"
      /\ HasNext(p) /\ Advance(p)
      /\ Value(m) # Malformed
      /\ TrackMessage(Head(Value(m)), m)
      /\ Note(Range(Value(m)), "skipped")
      /\ UNCHANGED <<committed, faults, clientVars, pc, requests, batch, attempt>>
  BY DEF ReceiveUnhealthy
<1>2. /\ Range(Value(m)) = Listed(p, position[p] + 1)
      /\ Range(Value(m)) \subseteq ContentID
  BY <1>1, NextListed
<1>3. /\ outcome' \in [ContentID -> SUBSET Outcome]
      /\ SettledContents' = SettledContents
      /\ DroppedContents' = DroppedContents \cup Listed(p, position[p] + 1)
      /\ \A c \in ContentID : Settled(c) => Settled(c)'
  BY <1>1, <1>2, NoteStep DEF Outcome
<1>4. /\ KafkaTypeOK' /\ OffsetOrder' /\ TrackedInHand' /\ TrackedFirst'
      /\ CommittedParses' /\ CommittedFirstWasSettled'
  BY <1>1, <1>3, Reads
<1>5. TypeOK'
  BY <1>1, <1>3, <1>4, ClientStep DEF TypeOK
<1>6. BatchShape' /\ SettledBeforeCommit'
  BY <1>1 DEF BatchShape, SettledBeforeCommit
<1>7. InMemory' = InMemory
  BY <1>1 DEF InMemory
<1>8. Consumer!Take(p)
  BY <1>1, <1>3, <1>7, TakeStep
<1>9. QED BY <1>4, <1>5, <1>6, <1>8 DEF ContractStep, Consumer!Next

-----------------------------------------------------------------------------
(* The answer.                                                              *)

LEMMA ScoresFailedStep ==
    ASSUME Bookkeeping, ScoresFailed
    PROVE  Bookkeeping' /\ ContractStep
<1> USE DEF Bookkeeping
<1>1. /\ pc = "request" /\ pc' = "read"
      /\ RequestsUsedUp \/ Refused
      /\ Note(Range(requests), "failed")
      /\ requests' = <<>>
      /\ UNCHANGED <<kafkaVars, batch, attempt>>
  BY DEF ScoresFailed
<1>2. <<>> \in Seq(ContentID) /\ Range(<<>>) = {}
  BY EmptySequence
<1>3. Range(requests) \subseteq ContentID
  BY RangeInSet DEF TypeOK
<1>4. /\ outcome' \in [ContentID -> SUBSET Outcome]
      /\ SettledContents' = SettledContents
      /\ DroppedContents' = DroppedContents \cup Range(requests)
      /\ \A c \in ContentID : Settled(c) => Settled(c)'
  BY <1>1, <1>3, NoteStep DEF Outcome
<1>5. /\ KafkaTypeOK' /\ OffsetOrder' /\ TrackedInHand' /\ TrackedFirst'
      /\ CommittedParses' /\ CommittedFirstWasSettled'
      /\ Taken' = Taken
  BY <1>1, <1>4, KafkaFrame
<1>6. ClientTypeOK'
  BY <1>1, ClientStep DEF TypeOK
<1>7. TypeOK'
  BY <1>1, <1>2, <1>4, <1>5, <1>6 DEF TypeOK
<1>8. BatchShape' /\ SettledBeforeCommit'
  BY <1>1 DEF BatchShape, SettledBeforeCommit
<1>9. InMemory' \subseteq InMemory /\ InMemory \subseteq InMemory' \cup Range(requests)
  BY <1>1, <1>2 DEF InMemory
<1>10. Range(requests) \subseteq InMemory
  BY DEF InMemory
<1>11. Consumer!Drop
  BY <1>1, <1>4, <1>5, <1>9, <1>10 DEF Consumer!Drop, Consumer!LetGo, kafkaVars
<1>12. QED BY <1>5, <1>7, <1>8, <1>11 DEF ContractStep, Consumer!Next

(* Every content goes from the requests to the results.                     *)
LEMMA ScoresArriveStep ==
    ASSUME Bookkeeping, NEW scored \in SUBSET Range(requests), ScoresArrive(scored)
    PROVE  Bookkeeping' /\ ContractStep
<1> USE DEF Bookkeeping
<1>1. /\ pc = "request" /\ pc' = IF batch' = <<>> THEN "read" ELSE "publish"
      /\ Answered
      /\ batch' = requests /\ requests' = <<>>
      /\ Note(Range(requests) \ scored, "unscored")
      /\ UNCHANGED <<kafkaVars, attempt>>
  BY DEF ScoresArrive, ResultsOf
<1>2. <<>> \in Seq(ContentID) /\ Range(<<>>) = {}
  BY EmptySequence
<1>3. Range(requests) \ scored \in SUBSET ContentID
  BY RangeInSet DEF TypeOK
<1>4. /\ outcome' \in [ContentID -> SUBSET Outcome]
      /\ SettledContents' = SettledContents /\ DroppedContents' = DroppedContents
      /\ \A c \in ContentID : Settled(c) => Settled(c)'
  BY <1>1, <1>3, NoteStep DEF Outcome
<1>5. /\ KafkaTypeOK' /\ OffsetOrder' /\ TrackedInHand' /\ TrackedFirst'
      /\ CommittedParses' /\ CommittedFirstWasSettled'
      /\ Taken' = Taken
  BY <1>1, <1>4, KafkaFrame
<1>6. ClientTypeOK'
  BY <1>1, ClientStep DEF TypeOK
<1>7. TypeOK'
  BY <1>1, <1>2, <1>4, <1>5, <1>6 DEF TypeOK
<1>8. BatchShape' /\ SettledBeforeCommit'
  BY <1>1 DEF BatchShape, SettledBeforeCommit
<1>9. batch = <<>>
  BY <1>1 DEF BatchShape
<1>10. InMemory' = InMemory
  BY <1>1, <1>2, <1>9 DEF InMemory
<1>11. UNCHANGED Consumer!vars
  BY <1>1, <1>4, <1>5, <1>10 DEF Consumer!vars, kafkaVars
<1>12. QED BY <1>5, <1>7, <1>8, <1>11 DEF ContractStep

-----------------------------------------------------------------------------
(* Publishing and committing.                                               *)

(* The publish loop ends, one way or the other, with the batch settled.     *)
LEMMA PublishEnds ==
    ASSUME Bookkeeping, PublishOk \/ PublishGiveUp
    PROVE  Bookkeeping' /\ ContractStep
<1> USE DEF Bookkeeping
<1>1. PICK what \in {"published", "abandoned"} :
         /\ pc = "publish" /\ pc' = "commit"
         /\ Note(Range(batch), what)
         /\ attempt' = 1
         /\ UNCHANGED <<kafkaVars, clientVars, requests, batch>>
  BY DEF PublishOk, PublishGiveUp
<1>2. Range(batch) \in SUBSET ContentID
  BY RangeInSet DEF TypeOK
<1>3. /\ outcome' \in [ContentID -> SUBSET Outcome]
      /\ SettledContents' = SettledContents \cup Range(batch)
      /\ DroppedContents' = DroppedContents
      /\ \A c \in ContentID : Settled(c) => Settled(c)'
  <2>1. what \in Outcome /\ what \notin {"skipped", "failed"}
    BY DEF Outcome
  <2>2. QED BY <1>1, <1>2, <2>1, NoteStep
<1>4. /\ KafkaTypeOK' /\ OffsetOrder' /\ TrackedInHand' /\ TrackedFirst'
      /\ CommittedParses' /\ CommittedFirstWasSettled'
      /\ Taken' = Taken
  BY <1>1, <1>3, KafkaFrame
<1>5. ClientTypeOK'
  BY <1>1, ClientStep DEF TypeOK
<1>6. TypeOK'
  BY <1>1, <1>3, <1>4, <1>5 DEF TypeOK, PublishAttempts
<1>7. BatchShape' /\ SettledBeforeCommit'
  BY <1>1, <1>3 DEF BatchShape, SettledBeforeCommit
<1>8. InMemory' = InMemory /\ Range(batch) \subseteq InMemory
  BY <1>1 DEF InMemory
<1>9. Consumer!Settle
  BY <1>1, <1>3, <1>4, <1>8 DEF Consumer!Settle, Consumer!LetGo, kafkaVars
<1>10. QED BY <1>4, <1>6, <1>7, <1>9 DEF ContractStep, Consumer!Next

(* Going on to the next result lets go of a content that is settled.        *)
LEMMA NextResultStep ==
    ASSUME Bookkeeping, pc = "commit", NextResult,
           UNCHANGED <<requests, attempt, outcome>>
    PROVE  /\ batch' \in Seq(ContentID)
           /\ pc' \in {"commit", "read"}
           /\ BatchShape' /\ SettledBeforeCommit'
           /\ Head(batch) \in SettledContents
           /\ UNCHANGED <<SettledContents, DroppedContents>>
           /\ \A c : Settled(c)' <=> Settled(c)
           /\ Consumer!LetGo
<1> USE DEF Bookkeeping
<1>1. batch' = Tail(batch) /\ pc' = IF Len(batch) > 1 THEN "commit" ELSE "read"
  BY DEF NextResult
<1>2. batch \in Seq(ContentID) /\ Len(batch) > 0 /\ Len(batch) \in Nat
  BY EmptySequence DEF TypeOK, BatchShape
<1>3. /\ Tail(batch) \in Seq(ContentID)
      /\ Len(Tail(batch)) = Len(batch) - 1
      /\ Head(batch) \in ContentID
      /\ Range(batch) = {Head(batch)} \cup Range(Tail(batch))
  BY <1>2, RangeOfTail
<1>4. batch' # <<>> <=> Len(batch) > 1
  <2>1. batch' # <<>> <=> Len(batch') # 0
    BY <1>1, <1>3, EmptySequence
  <2>2. QED BY <1>1, <1>2, <1>3, <2>1
<1>5. /\ UNCHANGED <<SettledContents, DroppedContents>>
      /\ \A c : Settled(c)' <=> Settled(c)
  BY SameOutcome
<1>6. Head(batch) \in SettledContents
  BY <1>3 DEF SettledBeforeCommit
<1>7. BatchShape' /\ SettledBeforeCommit'
  BY <1>1, <1>3, <1>4, <1>5 DEF BatchShape, SettledBeforeCommit
<1>8. InMemory' \subseteq InMemory /\ InMemory \subseteq InMemory' \cup {Head(batch)}
  BY <1>1, <1>3 DEF InMemory
<1>9. Consumer!LetGo
  BY <1>5, <1>6, <1>8 DEF Consumer!LetGo
<1>10. QED BY <1>1, <1>3, <1>5, <1>6, <1>7, <1>9

LEMMA NothingTrackedStep ==
    ASSUME Bookkeeping, NothingTracked
    PROVE  Bookkeeping' /\ ContractStep
<1> USE DEF Bookkeeping
<1>1. /\ pc = "commit" /\ NextResult
      /\ UNCHANGED <<kafkaVars, clientVars, requests, attempt, outcome>>
  BY DEF NothingTracked
<1>2. ClientTypeOK'
  BY <1>1, ClientStep DEF TypeOK
<1>3. /\ KafkaTypeOK' /\ OffsetOrder' /\ TrackedInHand' /\ TrackedFirst'
      /\ CommittedParses' /\ CommittedFirstWasSettled'
      /\ Taken' = Taken
  BY <1>1, NextResultStep, KafkaFrame
<1>4. TypeOK'
  BY <1>1, <1>2, <1>3, NextResultStep DEF TypeOK
<1>5. Consumer!Settle
  BY <1>1, <1>3, NextResultStep DEF Consumer!Settle, kafkaVars
<1>6. QED BY <1>1, <1>3, <1>4, <1>5, NextResultStep DEF ContractStep, Consumer!Next

(* The message found may be one left behind: its first content is the one   *)
(* it was found under, whose result is settled.                             *)
LEMMA CommitTrackedStep ==
    ASSUME Bookkeeping, CommitTracked
    PROVE  Bookkeeping' /\ ContractStep
<1> USE DEF Bookkeeping
<1> PICK c, m : c = Head(batch) /\ m = messageMap[c]
  OBVIOUS
<1>1. /\ pc = "commit" /\ NextResult
      /\ m # NoMessage /\ Commit(m)
      /\ messageMap' = [messageMap EXCEPT ![c] = NoMessage]
      /\ UNCHANGED <<position, faults, start, reach, clientVars, requests,
                     attempt, outcome>>
  BY DEF CommitTracked, Untrack
<1>2. KafkaTypeOK /\ OffsetOrder /\ ClientTypeOK
  BY DEF TypeOK
<1>3. c \in ContentID /\ c \in SettledContents
  BY <1>1, NextResultStep DEF SettledContents
<1>4. InHand(m) /\ Value(m) # Malformed /\ Head(Value(m)) = c
  BY <1>1, <1>3 DEF TrackedInHand, TrackedFirst
<1>5. /\ m.partition \in Partition
      /\ m.offset \in HandedOut(m.partition)
      /\ m.offset \in 1 .. Len(Log[m.partition])
      /\ \/ UNCHANGED committed
         \/ committed' = [committed EXCEPT ![m.partition] = m.offset]
      /\ committed' \in [Partition -> Nat]
      /\ \A q \in Partition : committed'[q] <= Len(Log[q])
      /\ \A q \in Partition :
           committed'[q] = committed[q] \/ (q = m.partition /\ committed'[q] = m.offset)
      /\ OffsetOrder'
  BY <1>1, <1>2, <1>4, KafkaCommit
<1>6. \A q \in Partition : HandedOut(q)' = HandedOut(q)
  BY <1>1 DEF HandedOut
<1>7. messageMap' \in [ContentID -> Message \cup {NoMessage}]
  BY <1>1, <1>2 DEF KafkaTypeOK
<1>8. KafkaTypeOK'
  BY <1>1, <1>2, <1>5, <1>7 DEF KafkaTypeOK, Message
<1>9. TrackedInHand' /\ TrackedFirst'
  <2>1. \A d \in ContentID :
           messageMap'[d] # NoMessage => messageMap'[d] = messageMap[d]
    BY <1>1, <1>2 DEF KafkaTypeOK
  <2>2. QED BY <1>6, <2>1, InHandStays DEF TrackedInHand, TrackedFirst, Value
<1>10. TypeOK'
  <2>1. ClientTypeOK'
    BY <1>1, <1>2, ClientStep
  <2>2. QED BY <1>1, <1>8, <2>1, NextResultStep DEF TypeOK
<1>11. Log[m.partition][m.offset] # Malformed /\ Head(Log[m.partition][m.offset]) = c
  BY <1>4 DEF Value
<1>12. \A d : Settled(d)' <=> Settled(d)
  BY <1>1, NextResultStep
<1>13. CommittedParses'
  BY <1>5, <1>11 DEF CommittedParses
<1>14. CommittedFirstWasSettled'
  <2> SUFFICES ASSUME NEW q \in Partition, committed'[q] > 0
               PROVE  (Settled(Head(Log[q][committed[q]])))'
    BY DEF CommittedFirstWasSettled
  <2>1. CASE committed'[q] = committed[q]
    BY <1>1, <2>1, CommittedFirst DEF Settled
  <2>2. CASE q = m.partition /\ committed'[q] = m.offset
    BY <1>1, <1>3, <1>11, <2>2 DEF Settled, SettledContents
  <2>3. QED BY <1>5, <2>1, <2>2
<1>15. Taken' = Taken /\ m.offset \in Taken[m.partition]
  BY <1>5, <1>6 DEF Taken
<1>16. MessageContents[m.partition][m.offset] \cap SettledContents # {}
  <2>1. c \in MessageContents[m.partition][m.offset]
    BY <1>5, <1>11, Contents
  <2>2. QED BY <1>3, <2>1
<1>17. Consumer!Settle \/ Consumer!Acknowledge(m.partition, m.offset)
  BY <1>1, <1>5, <1>15, <1>16, NextResultStep
  DEF Consumer!Settle, Consumer!Acknowledge
<1>18. Consumer!Next
  BY <1>5, <1>15, <1>17 DEF Consumer!Next
<1>19. QED BY <1>1, <1>5, <1>9, <1>10, <1>13, <1>14, <1>18, NextResultStep DEF ContractStep

-----------------------------------------------------------------------------
(* Faults.                                                                  *)

LEMMA RestartStep ==
    ASSUME Bookkeeping, Restart
    PROVE  Bookkeeping' /\ ContractStep
<1> USE DEF Bookkeeping
<1>1. /\ KafkaRestart /\ ClientRestart
      /\ pc' = "read" /\ requests' = <<>> /\ batch' = <<>>
      /\ attempt' = 1 /\ UNCHANGED outcome
  BY DEF Restart
<1>2. KafkaTypeOK /\ ClientTypeOK
  BY DEF TypeOK
<1>3. /\ KafkaTypeOK' /\ OffsetOrder' /\ TrackedInHand'
      /\ \A q \in Partition : HandedOut(q)' = {}
      /\ position' = committed /\ UNCHANGED committed
      /\ messageMap' = [c \in ContentID |-> NoMessage]
  BY <1>1, <1>2, KafkaRestarts
<1>4. <<>> \in Seq(ContentID) /\ Range(<<>>) = {}
  BY EmptySequence
<1>5. ClientTypeOK'
  BY <1>1, <1>2, ClientStep
<1>6. TypeOK'
  BY <1>1, <1>3, <1>4, <1>5 DEF TypeOK, PublishAttempts
<1>7. BatchShape' /\ SettledBeforeCommit' /\ TrackedFirst'
  BY <1>1, <1>3 DEF BatchShape, SettledBeforeCommit, TrackedFirst
<1>8. /\ SettledContents' = SettledContents /\ DroppedContents' = DroppedContents
      /\ \A c : Settled(c)' <=> Settled(c)
  BY <1>1, SameOutcome
<1>9. CommittedParses' /\ CommittedFirstWasSettled'
  BY <1>3, <1>8, CommittedFrame
<1>10. InMemory' = {}
  BY <1>1, <1>4 DEF InMemory
<1>11. Taken' = [q \in Partition |-> {}]
  BY <1>3 DEF Taken
<1>12. Consumer!Crash
  BY <1>3, <1>8, <1>10, <1>11 DEF Consumer!Crash
<1>13. QED BY <1>3, <1>6, <1>7, <1>9, <1>12 DEF ContractStep, Consumer!Next

LEMMA RebalanceStep ==
    ASSUME Bookkeeping, Rebalance
    PROVE  Bookkeeping' /\ ContractStep
<1> USE DEF Bookkeeping
<1>1. /\ KafkaRebalance
      /\ UNCHANGED <<clientVars, pc, requests, batch, attempt, outcome>>
  BY DEF Rebalance
<1>2. KafkaTypeOK /\ ClientTypeOK
  BY DEF TypeOK
<1>3. /\ KafkaTypeOK' /\ OffsetOrder' /\ TrackedInHand'
      /\ \A q \in Partition : HandedOut(q)' = HandedOut(q)
      /\ position' = committed /\ UNCHANGED <<committed, messageMap>>
  BY <1>1, <1>2, KafkaRebalances
<1>4. ClientTypeOK'
  BY <1>1, <1>2, ClientStep
<1>5. TypeOK'
  BY <1>1, <1>3, <1>4 DEF TypeOK
<1>6. /\ SettledContents' = SettledContents /\ DroppedContents' = DroppedContents
      /\ \A c : Settled(c)' <=> Settled(c)
  BY <1>1, SameOutcome
<1>7. BatchShape' /\ SettledBeforeCommit' /\ TrackedFirst'
  BY <1>1, <1>3, <1>6 DEF BatchShape, SettledBeforeCommit, TrackedFirst, Value
<1>8. CommittedParses' /\ CommittedFirstWasSettled'
  BY <1>3, <1>6, CommittedFrame
<1>9. InMemory' = InMemory /\ Taken' = Taken
  BY <1>1, <1>3 DEF InMemory, Taken
<1>10. Consumer!Reassign
  BY <1>3, <1>6, <1>9 DEF Consumer!Reassign
<1>11. QED BY <1>3, <1>5, <1>7, <1>8, <1>10 DEF ContractStep, Consumer!Next

-----------------------------------------------------------------------------
(* All together.                                                            *)

LEMMA EveryStep ==
    ASSUME Bookkeeping, [Next]_vars
    PROVE  Bookkeeping' /\ ContractStep
<1>1. CASE Loop
  BY <1>1, ControlSteps, ReceiveMalformedStep, ReceiveHealthyStep,
     ReceiveUnhealthyStep, ScoresFailedStep, ScoresArriveStep, PublishEnds,
     CommitTrackedStep, NothingTrackedStep DEF Loop
<1>2. CASE Restart
  BY <1>2, RestartStep
<1>3. CASE Rebalance
  BY <1>3, RebalanceStep
<1>4. CASE MonitorAnalyzerHealth \/ AnalyzerChanges \/ UNCHANGED vars
  BY <1>4, ControlSteps
<1>5. QED BY <1>1, <1>2, <1>3, <1>4 DEF Next

LEMMA InitBookkeeping ==
    ASSUME Init
    PROVE  Bookkeeping /\ Consumer!Init
<1> USE DEF Init, KafkaInit
<1>1. <<>> \in Seq(ContentID) /\ Range(<<>>) = {}
  BY EmptySequence
<1>2. KafkaTypeOK
  BY KafkaAssumption DEF KafkaTypeOK
<1>3. ClientTypeOK
  BY HuggingFaceAssumption DEF ClientInit, ClientTypeOK
<1>4. TypeOK
  BY <1>1, <1>2, <1>3 DEF TypeOK, PublishAttempts
<1>5. BatchShape /\ SettledBeforeCommit /\ OffsetOrder /\ TrackedInHand /\ TrackedFirst
  BY DEF BatchShape, SettledBeforeCommit, OffsetOrder, TrackedInHand, TrackedFirst
<1>6. CommittedParses /\ CommittedFirstWasSettled
  BY DEF CommittedParses, CommittedFirstWasSettled
<1>7. /\ Taken = [p \in Partition |-> {}] /\ InMemory = {}
      /\ SettledContents = {} /\ DroppedContents = {}
  BY <1>1 DEF Taken, HandedOut, InMemory, SettledContents, DroppedContents, Settled
<1>8. QED BY <1>4, <1>5, <1>6, <1>7 DEF Bookkeeping, Consumer!Init

(* A step of the contract loses no content.                                 *)
LEMMA ContractKeeps ==
    ASSUME Consumer!Kept, ContractStep
    PROVE  Consumer!Kept'
<1> USE DEF Consumer!Kept
<1>1. MessageContents' = MessageContents
  BY DEF MessageContents, Listed
<1>2. CASE Consumer!Crash \/ Consumer!Reassign \/ UNCHANGED Consumer!vars
  BY <1>1, <1>2 DEF Consumer!Crash, Consumer!Reassign, Consumer!vars
<1>3. CASE Consumer!Settle \/ Consumer!Drop
  BY <1>1, <1>3 DEF Consumer!Settle, Consumer!Drop, Consumer!LetGo
<1>4. ASSUME NEW p \in Partition, Consumer!Take(p)
      PROVE  Consumer!Kept'
  <2>1. /\ \A q \in Partition : \A o \in Taken'[q] :
             o \in Taken[q] \/ (q = p /\ o = position[p] + 1)
        /\ UNCHANGED SettledContents
    BY <1>4 DEF Consumer!Take, Taken
  <2>2. /\ InMemory \subseteq InMemory' /\ DroppedContents \subseteq DroppedContents'
        /\ MessageContents[p][position[p] + 1] \subseteq InMemory' \cup DroppedContents'
    BY <1>4 DEF Consumer!Take
  <2>3. QED BY <1>1, <2>1, <2>2
<1>5. ASSUME NEW p \in Partition, NEW o \in Taken[p], Consumer!Acknowledge(p, o)
      PROVE  Consumer!Kept'
  BY <1>1, <1>5 DEF Consumer!Acknowledge, Consumer!LetGo
<1>6. QED BY <1>2, <1>3, <1>4, <1>5 DEF ContractStep, Consumer!Next

-----------------------------------------------------------------------------
(* What the invariant says in the consumer's own terms.                     *)

LEMMA KeptMeans == IInv => NoContentVanishes
<1> SUFFICES ASSUME IInv, NEW p \in Partition, NEW o \in HandedOut(p),
                    NEW c \in Listed(p, o)
             PROVE  Held(c) \/ outcome[c] \cap (Outcome \ {"unscored"}) # {}
  BY DEF NoContentVanishes
<1>1. o \in 1 .. Len(Log[p])
  BY KafkaAssumption DEF IInv, Bookkeeping, TypeOK, KafkaTypeOK, HandedOut
<1>2. c \in MessageContents[p][o]
  BY <1>1, Contents
<1>3. c \in InMemory \cup SettledContents \cup DroppedContents
  BY <1>2 DEF IInv, Consumer!Kept, Taken
<1>4. QED BY <1>3 DEF Held, SettledContents, DroppedContents, Settled, Outcome

(* An offset past the committed one was handed to this process, or will be. *)
LEMMA RecoverableMeans == IInv => UncommittedIsRecoverable
<1> SUFFICES ASSUME IInv, NEW p \in Partition,
                    NEW o \in committed[p] + 1 .. Len(Log[p]), ~(o > position[p]),
                    NEW c \in Listed(p, o)
             PROVE  Held(c) \/ outcome[c] \cap (Outcome \ {"unscored"}) # {}
  BY DEF UncommittedIsRecoverable
<1>1. o \in HandedOut(p)
  BY KafkaAssumption
  DEF IInv, Bookkeeping, TypeOK, KafkaTypeOK, OffsetOrder, HandedOut
<1>2. QED BY <1>1, KeptMeans DEF NoContentVanishes

-----------------------------------------------------------------------------
(* IInv holds in every state of every behaviour.                            *)
THEOREM Invariance == Spec => []IInv
<1>1. Init => IInv
  <2> SUFFICES ASSUME Init PROVE IInv
    OBVIOUS
  <2>1. Bookkeeping /\ Consumer!Init
    BY InitBookkeeping
  <2>2. Consumer!Kept
    BY <2>1 DEF Consumer!Init, Consumer!Kept
  <2>3. QED BY <2>1, <2>2 DEF IInv
<1>2. IInv /\ [Next]_vars => IInv'
  BY EveryStep, ContractKeeps DEF IInv
<1>3. QED BY <1>1, <1>2, PTL DEF Spec

(* Every reachable state is well typed.                                     *)
THEOREM TypeCorrect == Spec => []TypeOK
<1>1. IInv => TypeOK
  BY DEF IInv, Bookkeeping
<1>2. QED BY <1>1, Invariance, PTL

(* Of a message handed out, every content is in memory or has met its end:  *)
(* skipped, without an answer, published or abandoned.                      *)
THEOREM NothingVanishes == Spec => []NoContentVanishes
  BY KeptMeans, Invariance, PTL

(* Whatever message the map finds, the first content of the one committed   *)
(* has a settled result.                                                    *)
THEOREM CommitAfterSettling == Spec => []CommittedFirstWasSettled
<1>1. IInv => CommittedFirstWasSettled
  BY DEF IInv, Bookkeeping
<1>2. QED BY <1>1, Invariance, PTL

(* No content of a message past the committed offset is lost, through any   *)
(* number of restarts and rebalances.                                       *)
THEOREM Recoverable == Spec => []UncommittedIsRecoverable
  BY RecoverableMeans, Invariance, PTL

(* The sentiment consumer is a ConsumerContract that drops what it skips    *)
(* and what got no answer.                                                  *)
THEOREM Refinement == Spec => ImplementsConsumer
<1>1. Init => Consumer!Init
  BY InitBookkeeping
<1>2. IInv /\ [Next]_vars => [Consumer!Next]_(Consumer!vars)
  BY EveryStep DEF IInv, ContractStep
<1>3. QED BY <1>1, <1>2, Invariance, PTL DEF Spec, ImplementsConsumer, Consumer!Spec
=============================================================================
