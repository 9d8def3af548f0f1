---------------------- MODULE RawContentConsumerProofs ----------------------
(***************************************************************************)
(* The safety of RawContentConsumer for any number of partitions, of       *)
(* messages, of contents and of sender goroutines, any batch size and any  *)
(* bound on restarts and rebalances.                                       *)
(*                                                                         *)
(* IInv is inductive: one lemma for each action shows that it preserves    *)
(* it.  The facts about Range and about parts of the state an action       *)
(* leaves alone come first.                                                *)
(***************************************************************************)
EXTENDS RawContentConsumer, KafkaConsumerProofs

-----------------------------------------------------------------------------
(* Frames: parts of the invariant that survive when what they speak of is   *)
(* left alone.                                                              *)

Safe(c) == Settled(c) \/ Held(c)

LEMMA VanishesFrame ==
    ASSUME IInv,
           UNCHANGED <<start, reach>>,
           \A c \in ContentID : Safe(c) => Safe(c)'
    PROVE  NoContentVanishes'
  BY DEF IInv, NoContentVanishes, HandedOut, Safe

LEMMA CommittedFrame ==
    ASSUME IInv,
           UNCHANGED committed,
           \A c : Settled(c) => Settled(c)'
    PROVE  CommittedWasSettled'
  BY DEF IInv, CommittedWasSettled

LEMMA DataFrame ==
    ASSUME IInv,
           UNCHANGED <<kafkaVars, buffer, batch, published, abandoned>>
    PROVE  /\ KafkaTypeOK'
           /\ OffsetOrder'
           /\ NoContentVanishes'
           /\ CommittedWasSettled'
<1>1. KafkaTypeOK' /\ OffsetOrder'
  BY DEF IInv, TypeOK, KafkaTypeOK, OffsetOrder, kafkaVars
<1>2. \A c : /\ Settled(c) => Settled(c)'
             /\ Safe(c) => Safe(c)'
  BY DEF Safe, Settled, Held
<1>3. QED BY <1>1, <1>2, VanishesFrame, CommittedFrame DEF kafkaVars

(* Nothing but the places of goroutines that hold no content changes.       *)
LEMMA ControlStep ==
    ASSUME IInv,
           UNCHANGED <<kafkaVars, buffer, batch, attempt, loaded, published, abandoned>>,
           pc' \in [Goroutine -> Label],
           pc'[Main] \in {"select", "read", "size"},
           pc[Main] \in {"select", "read", "size"},
           \A w \in Worker : pc'[w] = pc[w] \/ (pc[w] = "idle" /\ pc'[w] = "start")
    PROVE  IInv'
<1> USE DEF IInv
<1>1. TypeOK'
  BY DataFrame DEF TypeOK, Message
<1>2. BatchShape'
  BY DEF BatchShape
<1>3. Routed'
  <2>1. Range(batch[Main]) = {}
    BY RangeOfEmpty DEF BatchShape, TypeOK, Goroutine
  <2>2. QED BY <2>1 DEF Routed
<1>4. SettledBeforeCommit'
  BY DEF SettledBeforeCommit, Goroutine, Settled
<1>5. TrackedMessages'
  BY DEF TrackedMessages, Goroutine, MessageOf, InHand, Message, Value, HandedOut, kafkaVars
<1>6. QED BY <1>1, <1>2, <1>3, <1>4, <1>5, DataFrame

-----------------------------------------------------------------------------
(* The main goroutine.                                                      *)

LEMMA PcStep ==
    ASSUME IInv,
           \/ EnterRead
           \/ ReadError
           \/ BelowBatchSize
           \/ \E w \in Worker : Tick(w) \/ SpawnWhenFull(w)
    PROVE  IInv'
<1>1. UNCHANGED <<kafkaVars, buffer, batch, attempt, loaded, published, abandoned>>
  BY DEF EnterRead, ReadError, BelowBatchSize, Tick, SpawnWhenFull
<1>2. pc \in [Goroutine -> Label] /\ Main \in Goroutine /\ Worker \subseteq Goroutine
  BY DEF IInv, TypeOK, Goroutine
<1> DEFINE ControlOnly ==
              /\ pc' \in [Goroutine -> Label]
              /\ pc'[Main] \in {"select", "read", "size"}
              /\ pc[Main] \in {"select", "read", "size"}
              /\ \A w \in Worker :
                    pc'[w] = pc[w] \/ (pc[w] = "idle" /\ pc'[w] = "start")
<1>3. ControlOnly
  <2> USE <1>2, RawAssumption DEF Goto, Label
  <2>1. CASE EnterRead
    BY <2>1 DEF EnterRead
  <2>2. CASE ReadError
    BY <2>2 DEF ReadError
  <2>3. CASE BelowBatchSize
    BY <2>3 DEF BelowBatchSize
  <2>4. ASSUME NEW w \in Worker, Tick(w) PROVE ControlOnly
    BY <2>4 DEF Tick
  <2>5. ASSUME NEW w \in Worker, SpawnWhenFull(w) PROVE ControlOnly
    BY <2>5 DEF SpawnWhenFull
  <2>6. QED BY <2>1, <2>2, <2>3, <2>4, <2>5
<1>4. QED BY <1>1, <1>3, ControlStep

LEMMA AdvanceStep ==
    ASSUME IInv, NEW p \in Partition, HasNext(p), Advance(p), UNCHANGED committed
    PROVE  /\ position[p] + 1 \in 1 .. Len(Log[p])
           /\ position[p] + 1 \in HandedOut(p)'
           /\ start' = start
           /\ position' \in [Partition -> Nat]
           /\ reach' \in [Partition -> Nat]
           /\ \A q \in Partition : position'[q] <= Len(Log[q])
           /\ \A q \in Partition : reach'[q] <= Len(Log[q])
           /\ \A q \in Partition : HandedOut(q) \subseteq HandedOut(q)'
           /\ \A q \in Partition : \A o \in HandedOut(q)' :
                o \in HandedOut(q) \/ (q = p /\ o = position[p] + 1)
           /\ OffsetOrder'
<1>1. KafkaTypeOK /\ OffsetOrder
  BY DEF IInv, TypeOK
<1>2. QED BY <1>1, KafkaAdvance DEF KafkaTypeOK

LEMMA MessagesStay ==
    ASSUME NEW m, NEW c, MessageOf(m, c),
           \A q \in Partition : HandedOut(q) \subseteq HandedOut(q)'
    PROVE  MessageOf(m, c)'
  BY InHandStays DEF MessageOf, Value

LEMMA ReceiveMalformedStep ==
    ASSUME IInv, NEW p \in Partition, ReceiveMalformed(p)
    PROVE  IInv'
<1> USE DEF IInv
<1>1. /\ pc[Main] = "read" /\ pc' = [pc EXCEPT ![Main] = "select"]
      /\ Value(NextMessage(p)) = Malformed
      /\ HasNext(p) /\ Advance(p)
      /\ UNCHANGED <<committed, messageMap, faults, buffer, batch, attempt,
                     loaded, published, abandoned>>
  BY DEF ReceiveMalformed, Goto
<1>2. pc \in [Goroutine -> Label] /\ Main \in Goroutine /\ Worker \subseteq Goroutine
  BY DEF TypeOK, Goroutine
<1>3. \A c : (Settled(c) <=> Settled(c)') /\ (Held(c) <=> Held(c)')
  BY <1>1 DEF Settled, Held
<1>4. TypeOK'
  BY <1>1, <1>2, AdvanceStep DEF TypeOK, KafkaTypeOK, Message, Label
<1>5. BatchShape'
  BY <1>1, <1>2, RawAssumption DEF BatchShape
<1>6. Routed'
  <2>1. Range(batch[Main]) = {}
    BY <1>1, RangeOfEmpty DEF BatchShape, TypeOK, Goroutine
  <2>2. QED BY <1>1, <2>1 DEF Routed
<1>7. SettledBeforeCommit'
  BY <1>1, <1>2, <1>3 DEF SettledBeforeCommit
<1>8. TrackedMessages'
  BY <1>1, <1>2, AdvanceStep, MessagesStay DEF TrackedMessages
<1>9. NoContentVanishes'
  <2>1. Log[p][position[p] + 1] \notin ContentID
    BY <1>1, RawAssumption DEF Value, NextMessage
  <2>2. QED BY <1>1, <1>3, <2>1, AdvanceStep DEF NoContentVanishes
<1>10. CommittedWasSettled'
  BY <1>1, <1>3, CommittedFrame
<1>11. QED BY <1>1, <1>4, <1>5, <1>6, <1>7, <1>8, <1>9, <1>10, AdvanceStep

LEMMA ReceiveStep ==
    ASSUME IInv, NEW p \in Partition, Receive(p)
    PROVE  IInv'
<1> USE DEF IInv
<1> PICK m, c : m = NextMessage(p) /\ c = Value(m)
  OBVIOUS
<1>1. /\ pc[Main] = "read"
      /\ pc' = [pc EXCEPT ![Main] = IF c \in LongContent THEN "publish" ELSE "add"]
      /\ c # Malformed
      /\ HasNext(p) /\ Advance(p)
      /\ messageMap' = [messageMap EXCEPT ![c] = m]
      /\ batch' = [batch EXCEPT ![Main] = <<c>>]
      /\ UNCHANGED <<committed, faults, buffer, attempt, loaded, published, abandoned>>
  BY DEF Receive, Goto, TrackMessage
<1>2. /\ pc \in [Goroutine -> Label] /\ Main \in Goroutine /\ Worker \subseteq Goroutine
      /\ batch \in [Goroutine -> Seq(ContentID)]
  BY DEF TypeOK, Goroutine
<1>3. m \in Message /\ c \in ContentID /\ c = Log[p][position[p] + 1]
  <2>1. m = [partition |-> p, offset |-> position[p] + 1] /\ c = Log[p][position[p] + 1]
    BY DEF NextMessage, Value
  <2>2. position[p] + 1 \in 1 .. Len(Log[p]) /\ position[p] + 1 \in Nat
    BY <1>1, AdvanceStep
  <2>3. Log[p] \in Seq(ContentID \cup {Malformed})
    BY RawAssumption
  <2>4. Log[p][position[p] + 1] \in ContentID \cup {Malformed}
    BY <2>2, <2>3
  <2>5. QED BY <1>1, <2>1, <2>2, <2>4 DEF Message
<1>4. MessageOf(m, c)'
  BY <1>1, <1>3, AdvanceStep DEF MessageOf, InHand, NextMessage, Message, Value
<1>5. /\ <<c>> \in Seq(ContentID) /\ Len(<<c>>) = 1 /\ Range(<<c>>) = {c}
      /\ Range(batch[Main]) = {}
  BY <1>1, <1>2, <1>3, RangeOfOne, RangeOfEmpty DEF BatchShape
<1>6. /\ \A d : Settled(d) <=> Settled(d)'
      /\ \A d : Held(d) => Held(d)'
      /\ Held(c)'
  BY <1>1, <1>2, <1>5 DEF Settled, Held
<1>7. TypeOK'
  BY <1>1, <1>2, <1>3, <1>5, AdvanceStep DEF TypeOK, KafkaTypeOK, Message, Label
<1>8. BatchShape'
  BY <1>1, <1>2, <1>5, RawAssumption DEF BatchShape
<1>9. Routed'
  BY <1>1, <1>2, <1>5, RawAssumption DEF Routed
<1>10. SettledBeforeCommit'
  BY <1>1, <1>2, <1>6 DEF SettledBeforeCommit
<1>11. TrackedMessages'
  <2>1. \A d \in ContentID : messageMap'[d] # NoMessage => (MessageOf(messageMap[d], d))'
    BY <1>1, <1>3, <1>4, AdvanceStep, MessagesStay DEF TrackedMessages, TypeOK, KafkaTypeOK
  <2>2. \A g \in Goroutine : pc'[g] \in {"delete", "commit"} =>
            (MessageOf(loaded[g], Head(batch[g])))'
    BY <1>1, <1>2, AdvanceStep, MessagesStay DEF TrackedMessages
  <2>3. QED BY <2>1, <2>2 DEF TrackedMessages
<1>12. NoContentVanishes'
  BY <1>1, <1>3, <1>6, AdvanceStep DEF NoContentVanishes
<1>13. CommittedWasSettled'
  BY <1>1, <1>6, CommittedFrame
<1>14. QED BY <1>1, <1>7, <1>8, <1>9, <1>10, <1>11, <1>12, <1>13, AdvanceStep

LEMMA AddToBufferStep ==
    ASSUME IInv, AddToBuffer
    PROVE  IInv'
<1> USE DEF IInv
<1> PICK c : c = Head(batch[Main])
  OBVIOUS
<1>1. /\ pc[Main] = "add" /\ pc' = [pc EXCEPT ![Main] = "size"]
      /\ buffer' = Append(buffer, c)
      /\ batch' = [batch EXCEPT ![Main] = <<>>]
      /\ UNCHANGED <<kafkaVars, attempt, loaded, published, abandoned>>
  BY DEF AddToBuffer, Goto
<1>2. /\ pc \in [Goroutine -> Label] /\ Main \in Goroutine /\ Worker \subseteq Goroutine
      /\ batch \in [Goroutine -> Seq(ContentID)]
      /\ buffer \in Seq(ContentID)
  BY DEF TypeOK, Goroutine
<1>3. c \in ContentID /\ Range(batch[Main]) = {c} /\ c \notin LongContent
  <2>1. Len(batch[Main]) = 1 /\ batch[Main] \in Seq(ContentID)
    BY <1>1, <1>2 DEF BatchShape
  <2>2. c \in ContentID /\ Range(batch[Main]) = {c}
    BY <2>1, RangeOfSingle
  <2>3. QED BY <1>1, <2>2 DEF Routed
<1>4. /\ buffer' \in Seq(ContentID) /\ Range(buffer') = Range(buffer) \cup {c}
      /\ <<>> \in Seq(ContentID) /\ Len(<<>>) = 0 /\ Range(<<>>) = {}
  <2>1. <<>> \in Seq(ContentID) /\ Len(<<>>) = 0
    OBVIOUS
  <2>2. Range(<<>>) = {}
    BY <2>1, RangeOfEmpty
  <2>3. QED BY <1>1, <1>2, <1>3, <2>1, <2>2, RangeOfAppend
<1>5. /\ \A d : Settled(d) <=> Settled(d)'
      /\ \A d : Held(d) => Held(d)'
  BY <1>1, <1>2, <1>3, <1>4 DEF Settled, Held
<1>6. TypeOK'
  BY <1>1, <1>2, <1>4 DEF TypeOK, KafkaTypeOK, kafkaVars, Message, Label
<1>7. BatchShape'
  BY <1>1, <1>2, <1>4, RawAssumption DEF BatchShape
<1>8. Routed'
  BY <1>1, <1>2, <1>3, <1>4, RawAssumption DEF Routed
<1>9. SettledBeforeCommit'
  BY <1>1, <1>2, <1>5 DEF SettledBeforeCommit
<1>10. TrackedMessages'
  <2>1. \A q \in Partition : HandedOut(q) \subseteq HandedOut(q)'
    BY <1>1 DEF HandedOut, kafkaVars
  <2>2. QED BY <1>1, <1>2, <2>1, MessagesStay DEF TrackedMessages, kafkaVars
<1>11. OffsetOrder'
  BY <1>1 DEF OffsetOrder, kafkaVars
<1>12. NoContentVanishes'
  BY <1>1, <1>5, VanishesFrame DEF Safe, kafkaVars
<1>13. CommittedWasSettled'
  BY <1>1, <1>5, CommittedFrame DEF kafkaVars
<1>14. QED BY <1>6, <1>7, <1>8, <1>9, <1>10, <1>11, <1>12, <1>13

-----------------------------------------------------------------------------
(* Sending.                                                                 *)

LEMMA GetAndClearStep ==
    ASSUME IInv, NEW w \in Worker, GetAndClear(w)
    PROVE  IInv'
<1> USE DEF IInv
<1>1. /\ pc[w] = "start"
      /\ pc' = [pc EXCEPT ![w] = IF buffer = <<>> THEN "idle" ELSE "publish"]
      /\ buffer' = <<>>
      /\ batch' = [batch EXCEPT ![w] = buffer]
      /\ UNCHANGED <<kafkaVars, attempt, loaded, published, abandoned>>
  BY DEF GetAndClear, Goto
<1>2. /\ pc \in [Goroutine -> Label] /\ Main \in Goroutine /\ Worker \subseteq Goroutine
      /\ batch \in [Goroutine -> Seq(ContentID)] /\ buffer \in Seq(ContentID)
      /\ w # Main /\ w \in Goroutine
  BY RawAssumption DEF TypeOK, Goroutine
<1>3. buffer = <<>> <=> Len(buffer) = 0
  BY <1>2
<1>4. /\ <<>> \in Seq(ContentID) /\ Range(<<>>) = {}
      /\ Range(batch[w]) = {}
  <2>1. <<>> \in Seq(ContentID) /\ Len(<<>>) = 0
    OBVIOUS
  <2>2. Range(<<>>) = {}
    BY <2>1, RangeOfEmpty
  <2>3. batch[w] \in Seq(ContentID) /\ Len(batch[w]) = 0
    BY <1>1, <1>2 DEF BatchShape
  <2>4. Range(batch[w]) = {}
    BY <2>3, RangeOfEmpty
  <2>5. QED BY <2>1, <2>2, <2>4
<1>5. /\ \A d : Settled(d) <=> Settled(d)'
      /\ \A d : Held(d) => Held(d)'
  <2>1. \A d : Settled(d) <=> Settled(d)'
    BY <1>1 DEF Settled
  <2>2. ASSUME NEW d, d \in Range(buffer) PROVE Held(d)'
    BY <1>1, <1>2, <2>2 DEF Held
  <2>3. ASSUME NEW d, NEW g \in Goroutine, d \in Range(batch[g]) PROVE Held(d)'
    <3>1. g # w
      BY <1>4, <2>3
    <3>2. QED BY <1>1, <1>2, <2>3, <3>1 DEF Held
  <2>4. QED BY <2>1, <2>2, <2>3 DEF Held
<1>6. TypeOK'
  BY <1>1, <1>2, <1>4 DEF TypeOK, KafkaTypeOK, kafkaVars, Message, Label
<1>7. BatchShape'
  BY <1>1, <1>2, <1>3, RawAssumption DEF BatchShape
<1>8. Routed'
  BY <1>1, <1>2, <1>4, RawAssumption DEF Routed
<1>9. SettledBeforeCommit'
  BY <1>1, <1>2, <1>5 DEF SettledBeforeCommit
<1>10. TrackedMessages'
  <2>1. \A q \in Partition : HandedOut(q) \subseteq HandedOut(q)'
    BY <1>1 DEF HandedOut, kafkaVars
  <2>2. QED BY <1>1, <1>2, <2>1, MessagesStay DEF TrackedMessages, kafkaVars
<1>11. OffsetOrder'
  BY <1>1 DEF OffsetOrder, kafkaVars
<1>12. NoContentVanishes'
  BY <1>1, <1>5, VanishesFrame DEF Safe, kafkaVars
<1>13. CommittedWasSettled'
  BY <1>1, <1>5, CommittedFrame DEF kafkaVars
<1>14. QED BY <1>6, <1>7, <1>8, <1>9, <1>10, <1>11, <1>12, <1>13

(* The publish loop ends, one way or the other, with the batch settled.     *)
LEMMA PublishEnds ==
    ASSUME IInv, NEW g \in Goroutine, PublishOk(g) \/ PublishGiveUp(g)
    PROVE  IInv'
<1> USE DEF IInv
<1>1. /\ pc[g] = "publish" /\ pc' = [pc EXCEPT ![g] = "load"]
      /\ attempt' = [attempt EXCEPT ![g] = 1]
      /\ UNCHANGED <<kafkaVars, buffer, batch, loaded>>
  BY DEF PublishOk, PublishGiveUp, Goto
<1>2. /\ pc \in [Goroutine -> Label] /\ Main \in Goroutine /\ Worker \subseteq Goroutine
      /\ batch \in [Goroutine -> Seq(ContentID)]
      /\ published \in [Topic -> SUBSET ContentID]
      /\ abandoned \subseteq ContentID
      /\ Range(batch[g]) \subseteq ContentID
  BY DEF TypeOK, Goroutine, Range
<1>3. \A c \in Range(batch[g]) : Route(c) = TopicOf(g)
  <2>1. CASE g = Main
    BY <1>1, <2>1 DEF Routed, Route, TopicOf
  <2>2. CASE g \in Worker
    BY <2>2, RawAssumption DEF Routed, Route, TopicOf
  <2>3. QED BY <2>1, <2>2 DEF Goroutine
<1>4. /\ published' \in [Topic -> SUBSET ContentID]
      /\ abandoned' \subseteq ContentID
      /\ \A c : Settled(c) => Settled(c)'
      /\ \A c \in Range(batch[g]) : Settled(c)'
  <2>1. CASE PublishOk(g)
    <3>1. /\ published' = [published EXCEPT ![TopicOf(g)] = @ \cup Range(batch[g])]
          /\ abandoned' = abandoned
      BY <2>1 DEF PublishOk
    <3>2. TopicOf(g) \in Topic /\ \A c : Route(c) \in Topic
      BY DEF TopicOf, Topic, Route
    <3>3. QED BY <1>2, <1>3, <3>1, <3>2 DEF Settled
  <2>2. CASE PublishGiveUp(g)
    BY <1>2, <2>2 DEF PublishGiveUp, Settled
  <2>3. QED BY <2>1, <2>2
<1>5. TypeOK'
  <2>1. attempt' \in [Goroutine -> 1 .. PublishAttempts]
    BY <1>1 DEF TypeOK, PublishAttempts
  <2>2. pc' \in [Goroutine -> Label]
    BY <1>1, <1>2 DEF Label
  <2>3. KafkaTypeOK' /\ buffer' \in Seq(ContentID) /\ batch' \in [Goroutine -> Seq(ContentID)]
    BY <1>1 DEF TypeOK, KafkaTypeOK, kafkaVars
  <2>4. loaded' \in [Goroutine -> Message \cup {NoMessage}]
    BY <1>1 DEF TypeOK
  <2>5. QED BY <1>4, <2>1, <2>2, <2>3, <2>4 DEF TypeOK, Message
<1>6. BatchShape'
  BY <1>1, <1>2, RawAssumption DEF BatchShape, Goroutine
<1>7. Routed'
  BY <1>1, <1>2 DEF Routed
<1>8. SettledBeforeCommit'
  BY <1>1, <1>2, <1>4 DEF SettledBeforeCommit
<1>9. TrackedMessages'
  <2>1. \A q \in Partition : HandedOut(q) \subseteq HandedOut(q)'
    BY <1>1 DEF HandedOut, kafkaVars
  <2>2. QED BY <1>1, <1>2, <2>1, MessagesStay DEF TrackedMessages, kafkaVars
<1>10. OffsetOrder'
  BY <1>1 DEF OffsetOrder, kafkaVars
<1>11. NoContentVanishes'
  <2>1. \A c : Safe(c) => Safe(c)'
    BY <1>1, <1>4 DEF Safe, Held
  <2>2. QED BY <1>1, <2>1, VanishesFrame DEF kafkaVars
<1>12. CommittedWasSettled'
  BY <1>1, <1>4, CommittedFrame DEF kafkaVars
<1>13. QED BY <1>5, <1>6, <1>7, <1>8, <1>9, <1>10, <1>11, <1>12

(* A goroutine that hangs keeps its batch.                                  *)
LEMMA PublishHangsStep ==
    ASSUME IInv, NEW g \in Goroutine, PublishHangs(g)
    PROVE  IInv'
<1> USE DEF IInv
<1>1. /\ pc[g] = "publish" /\ pc' = [pc EXCEPT ![g] = "hung"]
      /\ attempt' = [attempt EXCEPT ![g] = 1]
      /\ UNCHANGED <<kafkaVars, buffer, batch, loaded, published, abandoned>>
  BY DEF PublishHangs, Goto
<1>2. pc \in [Goroutine -> Label] /\ Main \in Goroutine /\ Worker \subseteq Goroutine
  BY DEF TypeOK, Goroutine
<1>3. TypeOK'
  <2>1. attempt' \in [Goroutine -> 1 .. PublishAttempts]
    BY <1>1 DEF TypeOK, PublishAttempts
  <2>2. pc' \in [Goroutine -> Label]
    BY <1>1, <1>2 DEF Label
  <2>3. QED BY <1>1, <2>1, <2>2, DataFrame DEF TypeOK, Message
<1>4. BatchShape'
  BY <1>1, <1>2, RawAssumption DEF BatchShape, Goroutine
<1>5. Routed' /\ SettledBeforeCommit'
  BY <1>1, <1>2 DEF Routed, SettledBeforeCommit, Settled
<1>6. TrackedMessages'
  <2>1. \A q \in Partition : HandedOut(q) \subseteq HandedOut(q)'
    BY <1>1 DEF HandedOut, kafkaVars
  <2>2. QED BY <1>1, <1>2, <2>1, MessagesStay DEF TrackedMessages, kafkaVars
<1>7. QED BY <1>1, <1>3, <1>4, <1>5, <1>6, DataFrame

LEMMA PublishRetryStep ==
    ASSUME IInv, NEW g \in Goroutine, PublishRetry(g)
    PROVE  IInv'
<1> USE DEF IInv
<1>1. /\ attempt' = [attempt EXCEPT ![g] = @ + 1]
      /\ attempt[g] < PublishAttempts
      /\ UNCHANGED <<kafkaVars, buffer, pc, batch, loaded, published, abandoned>>
  BY DEF PublishRetry
<1>2. TypeOK'
  <2>1. attempt' \in [Goroutine -> 1 .. PublishAttempts]
    <3>1. attempt \in [Goroutine -> 1 .. 3] /\ attempt[g] < 3
      BY <1>1 DEF TypeOK, PublishAttempts
    <3>2. attempt[g] \in 1 .. 3 /\ attempt[g] + 1 \in 1 .. 3
      BY <3>1
    <3>3. QED BY <1>1, <3>1, <3>2 DEF PublishAttempts
  <2>2. QED BY <1>1, <2>1, DataFrame DEF TypeOK, Message
<1>3. BatchShape' /\ Routed' /\ SettledBeforeCommit'
  BY <1>1 DEF BatchShape, Routed, SettledBeforeCommit, Settled
<1>4. TrackedMessages'
  <2>1. \A q \in Partition : HandedOut(q) \subseteq HandedOut(q)'
    BY <1>1 DEF HandedOut, kafkaVars
  <2>2. QED BY <1>1, <2>1, MessagesStay DEF TrackedMessages, kafkaVars
<1>5. QED BY <1>1, <1>2, <1>3, <1>4, DataFrame

LEMMA LoadFoundStep ==
    ASSUME IInv, NEW g \in Goroutine, LoadFound(g)
    PROVE  IInv'
<1> USE DEF IInv
<1>1. /\ pc[g] = "load" /\ pc' = [pc EXCEPT ![g] = "delete"]
      /\ loaded' = [loaded EXCEPT ![g] = messageMap[Head(batch[g])]]
      /\ messageMap[Head(batch[g])] # NoMessage
      /\ UNCHANGED <<kafkaVars, buffer, batch, attempt, published, abandoned>>
  BY DEF LoadFound, Goto
<1>2. /\ pc \in [Goroutine -> Label] /\ Main \in Goroutine /\ Worker \subseteq Goroutine
      /\ loaded \in [Goroutine -> Message \cup {NoMessage}]
  BY DEF TypeOK, Goroutine
<1>3. Head(batch[g]) \in ContentID
  <2>1. batch[g] \in Seq(ContentID) /\ Len(batch[g]) > 0
    BY <1>1 DEF TypeOK, BatchShape, Goroutine
  <2>2. QED BY <2>1, RangeOfTail
<1>4. MessageOf(messageMap[Head(batch[g])], Head(batch[g]))
  BY <1>1, <1>3 DEF TrackedMessages
<1>5. TypeOK'
  BY <1>1, <1>2, <1>4 DEF TypeOK, KafkaTypeOK, kafkaVars, Message, MessageOf, InHand, Label
<1>6. BatchShape' /\ Routed'
  BY <1>1, <1>2, RawAssumption DEF BatchShape, Routed, Goroutine
<1>7. SettledBeforeCommit'
  BY <1>1, <1>2 DEF SettledBeforeCommit, Settled
<1>8. TrackedMessages'
  <2>1. \A q \in Partition : HandedOut(q) \subseteq HandedOut(q)'
    BY <1>1 DEF HandedOut, kafkaVars
  <2>2. QED BY <1>1, <1>2, <1>4, <2>1, MessagesStay DEF TrackedMessages, kafkaVars
<1>9. QED BY <1>1, <1>5, <1>6, <1>7, <1>8, DataFrame

LEMMA DeleteLoadedStep ==
    ASSUME IInv, NEW g \in Goroutine, DeleteLoaded(g)
    PROVE  IInv'
<1> USE DEF IInv
<1>1. /\ pc[g] = "delete" /\ pc' = [pc EXCEPT ![g] = "commit"]
      /\ messageMap' = [messageMap EXCEPT ![Head(batch[g])] = NoMessage]
      /\ UNCHANGED <<position, committed, faults, start, reach, buffer, batch,
                     attempt, loaded, published, abandoned>>
  BY DEF DeleteLoaded, Untrack, Goto
<1>2. pc \in [Goroutine -> Label] /\ Main \in Goroutine /\ Worker \subseteq Goroutine
  BY DEF TypeOK, Goroutine
<1>3. TypeOK'
  BY <1>1, <1>2 DEF TypeOK, KafkaTypeOK, Message, Label
<1>4. BatchShape' /\ Routed'
  BY <1>1, <1>2, RawAssumption DEF BatchShape, Routed, Goroutine
<1>5. SettledBeforeCommit'
  BY <1>1, <1>2 DEF SettledBeforeCommit, Settled
<1>6. TrackedMessages'
  <2>1. \A q \in Partition : HandedOut(q) \subseteq HandedOut(q)'
    BY <1>1 DEF HandedOut
  <2>2. \A c \in ContentID :
           messageMap'[c] = NoMessage \/ messageMap'[c] = messageMap[c]
    BY <1>1 DEF TypeOK, KafkaTypeOK
  <2>3. QED BY <1>1, <1>2, <2>1, <2>2, MessagesStay DEF TrackedMessages
<1>7. OffsetOrder'
  BY <1>1 DEF OffsetOrder
<1>8. \A c : (Settled(c) => Settled(c)') /\ (Safe(c) => Safe(c)')
  BY <1>1 DEF Safe, Settled, Held
<1>9. NoContentVanishes' /\ CommittedWasSettled'
  BY <1>1, <1>8, VanishesFrame, CommittedFrame
<1>10. QED BY <1>3, <1>4, <1>5, <1>6, <1>7, <1>9

(* Going on to the next content drops one that is settled.                  *)
LEMMA NextContentStep ==
    ASSUME IInv, NEW g \in Goroutine,
           pc[g] \in {"load", "commit"},
           NextContent(g),
           UNCHANGED <<buffer, published, abandoned>>
    PROVE  /\ pc' \in [Goroutine -> Label] /\ batch' \in [Goroutine -> Seq(ContentID)]
           /\ \A h \in Goroutine : pc'[h] \in {"delete", "commit"} =>
                 h # g /\ pc'[h] = pc[h] /\ batch'[h] = batch[h]
           /\ BatchShape' /\ Routed' /\ SettledBeforeCommit'
           /\ \A c : Settled(c) <=> Settled(c)'
           /\ \A c : Safe(c) => Safe(c)'
<1> USE DEF IInv
<1>1. /\ batch' = [batch EXCEPT ![g] = Tail(@)]
      /\ pc' = [pc EXCEPT ![g] = IF Len(batch[g]) > 1 THEN "load"
                                 ELSE IF g = Main THEN "select" ELSE "idle"]
  BY DEF NextContent, Goto
<1>2. /\ pc \in [Goroutine -> Label] /\ Main \in Goroutine /\ Worker \subseteq Goroutine
      /\ batch \in [Goroutine -> Seq(ContentID)]
  BY DEF TypeOK, Goroutine
<1>3. batch[g] \in Seq(ContentID) /\ Len(batch[g]) > 0 /\ (g = Main => Len(batch[g]) = 1)
  <2>1. batch[g] \in Seq(ContentID) /\ Len(batch[g]) \in Nat
    BY <1>2
  <2>2. CASE g = Main
    <3>1. pc[Main] \notin {"select", "read", "size"}
      BY <2>2
    <3>2. Len(batch[Main]) = 1
      BY <3>1 DEF BatchShape
    <3>3. QED BY <2>1, <2>2, <3>2
  <2>3. CASE g \in Worker
    <3>1. Len(batch[g]) # 0
      BY <2>3 DEF BatchShape
    <3>2. QED BY <2>1, <2>3, <3>1, RawAssumption
  <2>4. QED BY <2>2, <2>3 DEF Goroutine
<1>4. /\ Tail(batch[g]) \in Seq(ContentID)
      /\ Len(Tail(batch[g])) = Len(batch[g]) - 1
      /\ Head(batch[g]) \in ContentID
      /\ Range(batch[g]) = {Head(batch[g])} \cup Range(Tail(batch[g]))
  BY <1>3, RangeOfTail
<1>5. Len(batch[g]) \in Nat
  BY <1>3
<1>6. pc' \in [Goroutine -> Label] /\ batch' \in [Goroutine -> Seq(ContentID)]
  BY <1>1, <1>2, <1>4 DEF Label
<1>7. \A h \in Goroutine : pc'[h] \in {"delete", "commit"} =>
         h # g /\ pc'[h] = pc[h] /\ batch'[h] = batch[h]
  BY <1>1, <1>2
<1>8. \A c : Settled(c) <=> Settled(c)'
  BY DEF Settled
<1>9. \A c : Safe(c) => Safe(c)'
  <2>1. SUFFICES ASSUME NEW c, NEW h \in Goroutine, c \in Range(batch[h])
                 PROVE  Safe(c)'
    BY <1>8 DEF Safe, Held
  <2>2. CASE c = Head(batch[g]) /\ h = g
    BY <1>4, <1>8, <2>2 DEF SettledBeforeCommit, Safe
  <2>3. CASE ~(c = Head(batch[g]) /\ h = g)
    <3>1. c \in Range(batch'[h])
      BY <1>1, <1>2, <1>4, <2>1, <2>3
    <3>2. QED BY <3>1 DEF Safe, Held
  <2>4. QED BY <2>2, <2>3
<1>10. BatchShape'
  <2>1. /\ Len(batch'[g]) = Len(batch[g]) - 1
        /\ \A h \in Goroutine : h # g => batch'[h] = batch[h] /\ pc'[h] = pc[h]
    BY <1>1, <1>2, <1>4
  <2>2. CASE g = Main
    <3>1. pc'[Main] = "select" /\ Len(batch'[Main]) = 0
      BY <1>1, <1>2, <1>3, <2>1, <2>2
    <3>2. QED BY <1>2, <2>1, <2>2, <3>1, RawAssumption DEF BatchShape
  <2>3. CASE g \in Worker
    <3>1. /\ pc'[g] = IF Len(batch[g]) > 1 THEN "load" ELSE "idle"
          /\ Len(batch'[g]) = 0 <=> ~(Len(batch[g]) > 1)
      <4>1. g # Main
        BY <2>3, RawAssumption
      <4>2. Len(batch'[g]) = 0 <=> ~(Len(batch[g]) > 1)
        <5>1. \A n \in Nat : n > 0 => (n - 1 = 0 <=> ~(n > 1))
          OBVIOUS
        <5>2. Len(batch'[g]) = Len(batch[g]) - 1
          BY <2>1
        <5>3. Len(batch[g]) \in Nat /\ Len(batch[g]) > 0
          BY <1>3, <1>5
        <5>4. QED BY <5>1, <5>2, <5>3
      <4>3. QED BY <1>1, <1>2, <4>1, <4>2
    <3>2. QED BY <1>2, <2>1, <2>3, <3>1, RawAssumption DEF BatchShape
  <2>4. QED BY <2>2, <2>3 DEF Goroutine
<1>11. Routed'
  <2>1. \A h \in Goroutine : Range(batch'[h]) \subseteq Range(batch[h])
    BY <1>1, <1>2, <1>4
  <2>2. g = Main => Range(batch'[Main]) = {}
    <3>1. g = Main => Len(batch'[g]) = 0 /\ batch'[g] \in Seq(ContentID)
      BY <1>1, <1>2, <1>3, <1>4
    <3>2. QED BY <3>1, RangeOfEmpty
  <2>3. g # Main => pc'[Main] = pc[Main]
    BY <1>1, <1>2
  <2>4. QED BY <1>2, <2>1, <2>2, <2>3 DEF Routed
<1>12. SettledBeforeCommit'
  <2>1. \A h \in Goroutine : pc'[h] \in {"load", "delete", "commit"} =>
           /\ pc[h] \in {"load", "delete", "commit"}
           /\ Range(batch'[h]) \subseteq Range(batch[h])
    BY <1>1, <1>2, <1>4
  <2>2. QED BY <1>8, <2>1 DEF SettledBeforeCommit
<1>13. QED BY <1>6, <1>7, <1>8, <1>9, <1>10, <1>11, <1>12

LEMMA LoadMissingStep ==
    ASSUME IInv, NEW g \in Goroutine, LoadMissing(g)
    PROVE  IInv'
<1> USE DEF IInv
<1>1. /\ pc[g] = "load" /\ NextContent(g)
      /\ UNCHANGED <<kafkaVars, buffer, attempt, loaded, published, abandoned>>
  BY DEF LoadMissing
<1>2. TypeOK'
  BY <1>1, NextContentStep DEF TypeOK, KafkaTypeOK, kafkaVars, Message
<1>3. TrackedMessages'
  <2>1. \A q \in Partition : HandedOut(q) \subseteq HandedOut(q)'
    BY <1>1 DEF HandedOut, kafkaVars
  <2>2. QED BY <1>1, <2>1, MessagesStay, NextContentStep DEF TrackedMessages, kafkaVars
<1>4. OffsetOrder'
  BY <1>1 DEF OffsetOrder, kafkaVars
<1>5. NoContentVanishes' /\ CommittedWasSettled'
  BY <1>1, VanishesFrame, CommittedFrame, NextContentStep DEF kafkaVars
<1>6. QED BY <1>1, <1>2, <1>3, <1>4, <1>5, NextContentStep

LEMMA CommitLoadedStep ==
    ASSUME IInv, NEW g \in Goroutine, CommitLoaded(g)
    PROVE  IInv'
<1> USE DEF IInv
<1> PICK m, c : m = loaded[g] /\ c = Head(batch[g])
  OBVIOUS
<1>1. /\ pc[g] = "commit" /\ NextContent(g)
      /\ loaded' = [loaded EXCEPT ![g] = NoMessage]
      /\ Commit(m)
      /\ UNCHANGED <<position, messageMap, faults, start, reach, buffer, attempt,
                     published, abandoned>>
  BY DEF CommitLoaded
<1>2. MessageOf(m, c) /\ Settled(c)
  <2>1. batch[g] \in Seq(ContentID) /\ Len(batch[g]) > 0
    BY <1>1 DEF TypeOK, BatchShape, Goroutine
  <2>2. c \in Range(batch[g])
    BY <2>1, RangeOfTail
  <2>3. QED BY <1>1, <2>2 DEF TrackedMessages, SettledBeforeCommit
<1>3. /\ m.partition \in Partition
      /\ m.offset \in HandedOut(m.partition)
      /\ Log[m.partition][m.offset] = c
  BY <1>2 DEF MessageOf, InHand, Message, Value
<1>4. \A q \in Partition :
         \/ committed'[q] = committed[q]
         \/ committed'[q] = m.offset /\ q = m.partition
  BY <1>1, <1>3 DEF Commit, TypeOK, KafkaTypeOK
<1>5. /\ committed' \in [Partition -> Nat]
      /\ \A q \in Partition : committed'[q] <= Len(Log[q])
      /\ \A q \in Partition : start[q] <= committed'[q] /\ committed'[q] <= reach[q]
  <2>1. /\ m.offset \in Nat
        /\ m.offset <= Len(Log[m.partition])
        /\ start[m.partition] <= m.offset /\ m.offset <= reach[m.partition]
    BY <1>2, <1>3, KafkaAssumption DEF MessageOf, InHand, Message, HandedOut, TypeOK, KafkaTypeOK
  <2>2. committed' \in [Partition -> Nat]
    BY <1>1, <2>1 DEF Commit, TypeOK, KafkaTypeOK
  <2>3. QED BY <1>4, <2>1, <2>2 DEF OffsetOrder, TypeOK, KafkaTypeOK
<1>6. TypeOK'
  BY <1>1, <1>5, NextContentStep DEF TypeOK, KafkaTypeOK, Message
<1>7. TrackedMessages'
  <2>1. \A q \in Partition : HandedOut(q) \subseteq HandedOut(q)'
    BY <1>1 DEF HandedOut
  <2>2. \A h \in Goroutine : pc'[h] \in {"delete", "commit"} =>
           /\ pc[h] \in {"delete", "commit"}
           /\ batch'[h] = batch[h] /\ loaded'[h] = loaded[h]
    BY <1>1, NextContentStep DEF TypeOK
  <2>3. QED BY <1>1, <2>1, <2>2, MessagesStay DEF TrackedMessages
<1>8. OffsetOrder'
  BY <1>1, <1>5 DEF OffsetOrder
<1>9. NoContentVanishes'
  BY <1>1, VanishesFrame, NextContentStep
<1>10. CommittedWasSettled'
  BY <1>1, <1>2, <1>3, <1>4, NextContentStep DEF CommittedWasSettled
<1>11. QED BY <1>1, <1>6, <1>7, <1>8, <1>9, <1>10, NextContentStep

-----------------------------------------------------------------------------
(* Faults.                                                                  *)

LEMMA RestartStep ==
    ASSUME IInv, Restart
    PROVE  IInv'
<1> USE DEF IInv
<1>1. /\ position' = committed /\ start' = committed /\ reach' = committed
      /\ faults < MaxFaults /\ faults' = faults + 1
      /\ messageMap' = [c \in ContentID |-> NoMessage]
      /\ buffer' = <<>>
      /\ pc' = [g \in Goroutine |-> IF g = Main THEN "select" ELSE "idle"]
      /\ batch' = [g \in Goroutine |-> <<>>]
      /\ attempt' = [g \in Goroutine |-> 1]
      /\ loaded' = [g \in Goroutine |-> NoMessage]
      /\ UNCHANGED <<committed, published, abandoned>>
  BY DEF Restart, KafkaRestart, Resume
<1>2. /\ <<>> \in Seq(ContentID) /\ Len(<<>>) = 0 /\ Range(<<>>) = {}
  <2>1. <<>> \in Seq(ContentID) /\ Len(<<>>) = 0
    OBVIOUS
  <2>2. QED BY <2>1, RangeOfEmpty
<1>3. TypeOK'
  BY <1>1, <1>2, KafkaAssumption DEF TypeOK, KafkaTypeOK, Message, Label, PublishAttempts
<1>4. BatchShape' /\ Routed' /\ SettledBeforeCommit' /\ TrackedMessages'
  BY <1>1, <1>2, RawAssumption
  DEF BatchShape, Routed, SettledBeforeCommit, TrackedMessages, Goroutine
<1>5. OffsetOrder'
  BY <1>1 DEF OffsetOrder, TypeOK, KafkaTypeOK
<1>6. NoContentVanishes'
  <2>1. \A p \in Partition : HandedOut(p)' = {}
    BY <1>1 DEF HandedOut, TypeOK, KafkaTypeOK
  <2>2. QED BY <2>1 DEF NoContentVanishes
<1>7. CommittedWasSettled'
  BY <1>1, CommittedFrame DEF Settled
<1>8. QED BY <1>3, <1>4, <1>5, <1>6, <1>7

LEMMA RebalanceStep ==
    ASSUME IInv, Rebalance
    PROVE  IInv'
<1> USE DEF IInv
<1>1. /\ position' = committed
      /\ faults < MaxFaults /\ faults' = faults + 1
      /\ UNCHANGED <<committed, messageMap, start, reach, buffer, pc, batch,
                     attempt, loaded, published, abandoned>>
  BY DEF Rebalance, KafkaRebalance, Resume, goroutineVars
<1>2. TypeOK'
  BY <1>1, KafkaAssumption DEF TypeOK, KafkaTypeOK, Message
<1>3. BatchShape' /\ Routed' /\ SettledBeforeCommit'
  BY <1>1 DEF BatchShape, Routed, SettledBeforeCommit, Settled
<1>4. TrackedMessages'
  <2>1. \A q \in Partition : HandedOut(q) \subseteq HandedOut(q)'
    BY <1>1 DEF HandedOut
  <2>2. QED BY <1>1, <2>1, MessagesStay DEF TrackedMessages
<1>5. OffsetOrder'
  BY <1>1 DEF OffsetOrder
<1>6. \A c : (Settled(c) => Settled(c)') /\ (Safe(c) => Safe(c)')
  BY <1>1 DEF Safe, Settled, Held
<1>7. NoContentVanishes' /\ CommittedWasSettled'
  BY <1>1, <1>6, VanishesFrame, CommittedFrame
<1>8. QED BY <1>2, <1>3, <1>4, <1>5, <1>7

-----------------------------------------------------------------------------
LEMMA InitIInv == Init => IInv
<1> SUFFICES ASSUME Init PROVE IInv
  OBVIOUS
<1> USE DEF Init, KafkaInit
<1>1. /\ <<>> \in Seq(ContentID) /\ Len(<<>>) = 0 /\ Range(<<>>) = {}
  <2>1. <<>> \in Seq(ContentID) /\ Len(<<>>) = 0
    OBVIOUS
  <2>2. QED BY <2>1, RangeOfEmpty
<1>2. TypeOK
  BY <1>1, KafkaAssumption
  DEF TypeOK, KafkaTypeOK, Goroutine, Topic, PublishAttempts, Label
<1>3. BatchShape /\ Routed /\ SettledBeforeCommit /\ TrackedMessages
  BY <1>1, RawAssumption
  DEF BatchShape, Routed, SettledBeforeCommit, TrackedMessages, Goroutine
<1>4. OffsetOrder /\ NoContentVanishes /\ CommittedWasSettled
  BY DEF OffsetOrder, NoContentVanishes, CommittedWasSettled, HandedOut
<1>5. QED BY <1>2, <1>3, <1>4 DEF IInv

LEMMA StutterStep == IInv /\ UNCHANGED vars => IInv'
<1> SUFFICES ASSUME IInv, UNCHANGED vars PROVE IInv'
  OBVIOUS
<1> USE DEF IInv
<1>1. UNCHANGED <<kafkaVars, buffer, pc, batch, attempt, loaded, published, abandoned>>
  BY DEF vars, goroutineVars
<1>2. TypeOK'
  BY <1>1, DataFrame DEF TypeOK, Message
<1>3. BatchShape' /\ Routed' /\ SettledBeforeCommit'
  BY <1>1 DEF BatchShape, Routed, SettledBeforeCommit, Settled
<1>4. TrackedMessages'
  <2>1. \A q \in Partition : HandedOut(q) \subseteq HandedOut(q)'
    BY <1>1 DEF HandedOut, kafkaVars
  <2>2. QED BY <1>1, <2>1, MessagesStay DEF TrackedMessages, kafkaVars
<1>5. QED BY <1>1, <1>2, <1>3, <1>4, DataFrame

LEMMA NextIInv == IInv /\ [Next]_vars => IInv'
<1> SUFFICES ASSUME IInv, [Next]_vars PROVE IInv'
  OBVIOUS
<1>1. ASSUME NEW g \in Goroutine, SendStep(g) PROVE IInv'
  BY <1>1, PublishEnds, PublishRetryStep, LoadMissingStep, LoadFoundStep,
     DeleteLoadedStep, CommitLoadedStep DEF SendStep
<1>2. ASSUME NEW w \in Worker, WorkerStep(w) PROVE IInv'
  BY <1>1, <1>2, GetAndClearStep DEF WorkerStep, Goroutine
<1>3. CASE MainStep
  BY <1>1, <1>3, PcStep, ReceiveStep, ReceiveMalformedStep, AddToBufferStep
  DEF MainStep, Goroutine
<1>4. CASE ReadError
  BY <1>4, PcStep
<1>5. ASSUME NEW w \in Worker, Tick(w) PROVE IInv'
  BY <1>5, PcStep
<1>6. CASE Restart
  BY <1>6, RestartStep
<1>7. CASE Rebalance
  BY <1>7, RebalanceStep
<1>8. ASSUME NEW g \in Goroutine, PublishHangs(g) PROVE IInv'
  BY <1>8, PublishHangsStep
<1>9. CASE UNCHANGED vars
  BY <1>9, StutterStep
<1>10. QED BY <1>2, <1>3, <1>4, <1>5, <1>6, <1>7, <1>8, <1>9 DEF Next

(* IInv holds in every state of every behaviour.                            *)
THEOREM Invariance == Spec => []IInv
  BY InitIInv, NextIInv, PTL DEF Spec

-----------------------------------------------------------------------------
(* What the invariant says of one offset past the committed one: the        *)
(* process was handed it, or will be.                                       *)
LEMMA IInvRecoverable == IInv => UncommittedIsRecoverable
<1> SUFFICES ASSUME IInv, NEW p \in Partition,
                    NEW o \in committed[p] + 1 .. Len(Log[p]),
                    ~(o > position[p]), Log[p][o] # Malformed
             PROVE  Settled(Log[p][o]) \/ Held(Log[p][o])
  BY DEF UncommittedIsRecoverable
<1>1. o \in HandedOut(p)
  BY KafkaAssumption DEF IInv, TypeOK, KafkaTypeOK, OffsetOrder, HandedOut
<1>2. o \in 1 .. Len(Log[p])
  BY KafkaAssumption DEF IInv, TypeOK, KafkaTypeOK
<1>3. Log[p][o] \in ContentID
  <2>1. Log[p] \in Seq(ContentID \cup {Malformed})
    BY RawAssumption
  <2>2. QED BY <1>2, <2>1
<1>4. QED BY <1>1, <1>3 DEF IInv, NoContentVanishes

(* Every reachable state is well typed; among other things a goroutine      *)
(* that commits has loaded a message, and a publish is tried at most three  *)
(* times.                                                                   *)
THEOREM TypeCorrect == Spec => []TypeOK
<1>1. IInv => TypeOK
  BY DEF IInv
<1>2. QED BY <1>1, Invariance, PTL

(* A content this process was handed is settled, in the buffer or in a      *)
(* batch, whatever the number of senders that race for the buffer.          *)
THEOREM NothingVanishes == Spec => []NoContentVanishes
<1>1. IInv => NoContentVanishes
  BY DEF IInv
<1>2. QED BY <1>1, Invariance, PTL

(* The committed offset is that of a settled content.                       *)
THEOREM CommitAfterSettling == Spec => []CommittedWasSettled
<1>1. IInv => CommittedWasSettled
  BY DEF IInv
<1>2. QED BY <1>1, Invariance, PTL

(* No message past the committed offset is lost, through any number of      *)
(* restarts and rebalances.                                                 *)
THEOREM Recoverable == Spec => []UncommittedIsRecoverable
  BY IInvRecoverable, Invariance, PTL

-----------------------------------------------------------------------------
(* Each step is one of ConsumerContract, or changes nothing it speaks of.   *)

ContractStep == [Consumer!Next]_(Consumer!vars)

LEMMA Contents ==
    ASSUME NEW p \in Partition
    PROVE  /\ Len(MessageContents[p]) = Len(Log[p])
           /\ \A o \in 1 .. Len(Log[p]) :
                MessageContents[p][o] = {Log[p][o]} \cap ContentID
<1>1. Len(Log[p]) \in Nat
  BY KafkaAssumption
<1>2. MessageContents[p] = [o \in 1 .. Len(Log[p]) |-> {Log[p][o]} \cap ContentID]
  BY DEF MessageContents
<1>3. MessageContents[p] \in [1 .. Len(Log[p]) -> SUBSET ContentID]
  BY <1>2
<1>4. Len(MessageContents[p]) = Len(Log[p])
  BY <1>1, <1>3, LenOfFunction
<1>5. QED BY <1>2, <1>4

(* What a step shows the contract when it leaves Kafka alone.               *)
LEMMA Unseen ==
    ASSUME UNCHANGED <<position, committed, start, reach>>
    PROVE  Taken' = Taken
  BY DEF Taken, HandedOut

(* A content moves from one place in memory to another, or stays.           *)
LEMMA MovesRefine ==
    ASSUME IInv,
           \/ EnterRead \/ ReadError \/ BelowBatchSize \/ AddToBuffer
           \/ \E w \in Worker : Tick(w) \/ SpawnWhenFull(w) \/ GetAndClear(w)
           \/ \E g \in Goroutine :
                 PublishRetry(g) \/ PublishHangs(g) \/ LoadFound(g) \/ DeleteLoaded(g)
           \/ UNCHANGED vars
    PROVE  ContractStep
<1>1. UNCHANGED <<position, committed, start, reach, published, abandoned>>
  BY DEF EnterRead, ReadError, BelowBatchSize, AddToBuffer, Tick, SpawnWhenFull,
         GetAndClear, PublishRetry, PublishHangs, LoadFound, DeleteLoaded, vars,
         kafkaVars, goroutineVars
<1>2. InMemory' = InMemory
  <2>1. CASE UNCHANGED <<buffer, batch>>
    BY <2>1 DEF InMemory, Held
  <2>2. CASE AddToBuffer
    <3>1. /\ Main \in Goroutine /\ batch \in [Goroutine -> Seq(ContentID)]
          /\ buffer \in Seq(ContentID)
      BY DEF IInv, TypeOK, Goroutine
    <3>2. Len(batch[Main]) = 1 /\ batch[Main] \in Seq(ContentID)
      BY <2>2, <3>1 DEF AddToBuffer, IInv, BatchShape
    <3>3. PICK c \in ContentID : c = Head(batch[Main]) /\ Range(batch[Main]) = {c}
      BY <3>2, RangeOfSingle
    <3>4. Range(buffer') = Range(buffer) \cup {c} /\ Range(<<>>) = {}
      BY <2>2, <3>1, <3>3, RangeOfAppend, EmptySequence DEF AddToBuffer
    <3>5. batch' = [batch EXCEPT ![Main] = <<>>]
      BY <2>2 DEF AddToBuffer
    <3>6. \A d : Held(d)' <=> Held(d)
      BY <3>1, <3>3, <3>4, <3>5 DEF Held
    <3>7. QED BY <3>6 DEF InMemory
  <2>3. ASSUME NEW w \in Worker, GetAndClear(w) PROVE InMemory' = InMemory
    <3>1. w \in Goroutine /\ batch \in [Goroutine -> Seq(ContentID)]
      BY DEF IInv, TypeOK, Goroutine
    <3>2. Range(batch[w]) = {} /\ Range(<<>>) = {}
      BY <2>3, <3>1, RangeOfEmpty, EmptySequence DEF GetAndClear, IInv, BatchShape
    <3>3. batch' = [batch EXCEPT ![w] = buffer] /\ buffer' = <<>>
      BY <2>3 DEF GetAndClear
    <3>4. \A d : Held(d)' <=> Held(d)
      BY <3>1, <3>2, <3>3 DEF Held
    <3>5. QED BY <3>4 DEF InMemory
  <2>4. QED
    BY <2>1, <2>2, <2>3
    DEF EnterRead, ReadError, BelowBatchSize, Tick, SpawnWhenFull, PublishRetry,
        PublishHangs, LoadFound, DeleteLoaded, vars, goroutineVars
<1>3. SettledContents' = SettledContents
  BY <1>1 DEF SettledContents, Settled
<1>4. QED BY <1>1, <1>2, <1>3, Unseen DEF ContractStep, Consumer!vars

LEMMA TakesRefine ==
    ASSUME IInv, NEW p \in Partition, Receive(p) \/ ReceiveMalformed(p)
    PROVE  ContractStep
<1> DEFINE o == position[p] + 1
<1>1. KafkaTypeOK /\ OffsetOrder
  BY DEF IInv, TypeOK
<1>2. /\ HasNext(p) /\ Advance(p) /\ UNCHANGED <<committed, published, abandoned, buffer>>
  BY DEF Receive, ReceiveMalformed
<1>3. /\ o \in 1 .. Len(Log[p])
      /\ position' = [position EXCEPT ![p] = o]
      /\ \A q \in Partition :
           HandedOut(q)' = IF q = p THEN HandedOut(q) \cup {o} ELSE HandedOut(q)
  BY <1>1, <1>2, KafkaAdvance
<1>4. o <= Len(MessageContents[p]) /\ MessageContents[p][o] = {Log[p][o]} \cap ContentID
  BY <1>3, Contents, KafkaAssumption
<1>5. Taken' = [Taken EXCEPT ![p] = @ \cup {o}]
  BY <1>3 DEF Taken
<1>6. SettledContents' = SettledContents
  BY <1>2 DEF SettledContents, Settled
<1>7. InMemory' = InMemory \cup ({Log[p][o]} \cap ContentID)
  <2>1. CASE ReceiveMalformed(p)
    <3>1. UNCHANGED <<buffer, batch>> /\ Log[p][o] = Malformed
      BY <2>1 DEF ReceiveMalformed, Value, NextMessage
    <3>2. QED BY <3>1, RawAssumption DEF InMemory, Held
  <2>2. CASE Receive(p)
    <3>1. /\ batch' = [batch EXCEPT ![Main] = <<Log[p][o]>>] /\ Log[p][o] # Malformed
          /\ pc[Main] = "read"
      BY <2>2 DEF Receive, Value, NextMessage
    <3>2. Log[p][o] \in ContentID
      <4>1. Log[p] \in Seq(ContentID \cup {Malformed})
        BY RawAssumption
      <4>2. Log[p][o] \in ContentID \cup {Malformed}
        BY <1>3, <4>1
      <4>3. QED BY <3>1, <4>2
    <3>3. Main \in Goroutine /\ batch \in [Goroutine -> Seq(ContentID)]
      BY DEF IInv, TypeOK, Goroutine
    <3>4. Range(batch[Main]) = {} /\ Range(<<Log[p][o]>>) = {Log[p][o]}
      BY <3>1, <3>2, <3>3, RangeOfEmpty, RangeOfOne DEF IInv, BatchShape
    <3>5. \A d : Held(d)' <=> Held(d) \/ d = Log[p][o]
      BY <1>2, <3>1, <3>3, <3>4 DEF Held
    <3>6. QED BY <3>2, <3>5 DEF InMemory
  <2>3. QED BY <2>1, <2>2
<1>8. Consumer!Take(p)
  BY <1>2, <1>3, <1>4, <1>5, <1>6, <1>7 DEF Consumer!Take
<1>9. QED BY <1>8 DEF ContractStep, Consumer!Next

LEMMA PublishEndsRefine ==
    ASSUME IInv, NEW g \in Goroutine, PublishOk(g) \/ PublishGiveUp(g)
    PROVE  ContractStep
<1>1. UNCHANGED <<position, committed, start, reach, buffer, batch>>
  BY DEF PublishOk, PublishGiveUp, kafkaVars
<1>2. InMemory' = InMemory
  BY <1>1 DEF InMemory, Held
<1>3. \A c \in ContentID :
         /\ Settled(c) => Settled(c)'
         /\ Settled(c)' => Settled(c) \/ c \in Range(batch[g])
  <2>1. \A c : Route(c) \in Topic
    BY DEF Route, Topic
  <2>2. published \in [Topic -> SUBSET ContentID]
    BY DEF IInv, TypeOK
  <2>3. \/ /\ published' = [published EXCEPT ![TopicOf(g)] = @ \cup Range(batch[g])]
           /\ abandoned' = abandoned
        \/ abandoned' = abandoned \cup Range(batch[g]) /\ published' = published
    BY DEF PublishOk, PublishGiveUp
  <2>4. \A t \in Topic : /\ published[t] \subseteq published'[t]
                         /\ published'[t] \subseteq published[t] \cup Range(batch[g])
    BY <2>2, <2>3
  <2>5. QED BY <2>1, <2>3, <2>4 DEF Settled
<1>4. /\ SettledContents \subseteq SettledContents'
      /\ SettledContents' \subseteq SettledContents \cup InMemory
  BY <1>3 DEF SettledContents, InMemory, Held
<1>5. Consumer!Settle
  BY <1>1, <1>2, <1>4, Unseen DEF Consumer!Settle, Consumer!LetGo
<1>6. QED BY <1>5 DEF ContractStep, Consumer!Next

(* Memory lets go of the content whose commit is over.                      *)
LEMMA CommitEndsRefine ==
    ASSUME IInv, NEW g \in Goroutine, LoadMissing(g) \/ CommitLoaded(g)
    PROVE  ContractStep
<1>1. /\ NextContent(g) /\ pc[g] \in {"load", "commit"}
      /\ UNCHANGED <<position, start, reach, buffer, published, abandoned>>
  BY DEF LoadMissing, CommitLoaded, kafkaVars
<1>2. batch[g] \in Seq(ContentID) /\ Len(batch[g]) > 0
  <2>1. batch[g] \in Seq(ContentID)
    BY DEF IInv, TypeOK
  <2>2. Len(batch[g]) # 0
    BY <1>1 DEF IInv, BatchShape, Goroutine
  <2>3. QED BY <2>1, <2>2
<1>3. /\ Head(batch[g]) \in ContentID
      /\ Range(batch[g]) = {Head(batch[g])} \cup Range(Tail(batch[g]))
      /\ Settled(Head(batch[g]))
  BY <1>1, <1>2, RangeOfTail DEF IInv, SettledBeforeCommit
<1>4. SettledContents' = SettledContents
  BY <1>1 DEF SettledContents, Settled
<1>5. \A d : /\ Held(d)' => Held(d)
             /\ Held(d) => Held(d)' \/ d = Head(batch[g])
  <2>1. batch' = [batch EXCEPT ![g] = Tail(batch[g])] /\ batch \in [Goroutine -> Seq(ContentID)]
    BY <1>1 DEF NextContent, IInv, TypeOK
  <2>2. QED BY <1>1, <1>3, <2>1 DEF Held
<1>6. Consumer!LetGo
  BY <1>3, <1>4, <1>5 DEF Consumer!LetGo, InMemory, SettledContents
<1>7. Taken' = Taken
  BY <1>1 DEF Taken, HandedOut
<1>8. CASE UNCHANGED committed
  <2>1. Consumer!Settle
    BY <1>1, <1>4, <1>6, <1>7, <1>8 DEF Consumer!Settle
  <2>2. QED BY <2>1 DEF ContractStep, Consumer!Next
<1>9. CASE ~UNCHANGED committed
  <2> PICK m : m = loaded[g]
    OBVIOUS
  <2>1. CommitLoaded(g) /\ pc[g] = "commit" /\ Commit(m)
    BY <1>9 DEF LoadMissing, CommitLoaded, kafkaVars
  <2>2. MessageOf(m, Head(batch[g]))
    BY <2>1 DEF IInv, TrackedMessages
  <2>3. /\ m.partition \in Partition /\ m.offset \in HandedOut(m.partition)
        /\ m.offset \in 1 .. Len(Log[m.partition])
        /\ Log[m.partition][m.offset] = Head(batch[g])
    BY <2>2 DEF MessageOf, InHand, Message, Value
  <2>4. committed' = [committed EXCEPT ![m.partition] = m.offset]
    BY <1>9, <2>1 DEF Commit
  <2>5. MessageContents[m.partition][m.offset] \cap SettledContents # {}
    BY <1>3, <2>3, Contents DEF SettledContents
  <2>6. m.offset \in Taken[m.partition]
    BY <2>3 DEF Taken
  <2>7. Consumer!Acknowledge(m.partition, m.offset)
    BY <1>1, <1>4, <1>6, <1>7, <2>4, <2>5, <2>6 DEF Consumer!Acknowledge
  <2>8. QED BY <2>3, <2>6, <2>7 DEF ContractStep, Consumer!Next
<1>10. QED BY <1>8, <1>9

LEMMA FaultsRefine ==
    ASSUME IInv, Restart \/ Rebalance
    PROVE  ContractStep
<1>1. SettledContents' = SettledContents
  BY DEF Restart, Rebalance, SettledContents, Settled
<1>2. KafkaTypeOK /\ OffsetOrder
  BY DEF IInv, TypeOK
<1>3. CASE Restart
  <2>1. position' = committed /\ UNCHANGED committed /\ \A q \in Partition : HandedOut(q)' = {}
    BY <1>2, <1>3, KafkaRestarts DEF Restart
  <2>2. \A c : ~Held(c)'
    BY <1>3, EmptySequence DEF Restart, Held
  <2>3. Taken' = [q \in Partition |-> {}] /\ InMemory' = {}
    BY <2>1, <2>2 DEF Taken, InMemory
  <2>4. Consumer!Crash
    BY <1>1, <2>1, <2>3 DEF Consumer!Crash
  <2>5. QED BY <2>4 DEF ContractStep, Consumer!Next
<1>4. CASE Rebalance
  <2>1. position' = committed /\ UNCHANGED <<committed, start, reach, buffer, batch>>
    BY <1>4 DEF Rebalance, KafkaRebalance, Resume, goroutineVars
  <2>2. Taken' = Taken /\ InMemory' = InMemory
    BY <2>1 DEF Taken, HandedOut, InMemory, Held
  <2>3. Consumer!Reassign
    BY <1>1, <2>1, <2>2 DEF Consumer!Reassign
  <2>4. QED BY <2>3 DEF ContractStep, Consumer!Next
<1>5. QED BY <1>3, <1>4

LEMMA StepRefines == IInv /\ [Next]_vars => ContractStep
<1> SUFFICES ASSUME IInv, [Next]_vars PROVE ContractStep
  OBVIOUS
<1>1. ASSUME NEW g \in Goroutine, SendStep(g) PROVE ContractStep
  BY <1>1, MovesRefine, PublishEndsRefine, CommitEndsRefine DEF SendStep
<1>2. ASSUME NEW w \in Worker, Tick(w) \/ WorkerStep(w) PROVE ContractStep
  BY <1>1, <1>2, MovesRefine DEF WorkerStep, Goroutine
<1>3. CASE MainStep
  BY <1>1, <1>3, MovesRefine, TakesRefine DEF MainStep, Goroutine
<1>4. CASE Restart \/ Rebalance
  BY <1>4, FaultsRefine
<1>5. CASE ReadError \/ UNCHANGED vars
  BY <1>5, MovesRefine
<1>6. ASSUME NEW g \in Goroutine, PublishHangs(g) PROVE ContractStep
  BY <1>6, MovesRefine
<1>7. QED BY <1>2, <1>3, <1>4, <1>5, <1>6 DEF Next

LEMMA InitRefines == Init => Consumer!Init
<1> SUFFICES ASSUME Init PROVE Consumer!Init
  OBVIOUS
<1> USE DEF Init, KafkaInit
<1>1. \A c : ~Held(c) /\ ~(c \in ContentID /\ Settled(c))
  BY EmptySequence DEF Held, Settled, Route, Topic
<1>2. InMemory = {} /\ SettledContents = {}
  BY <1>1 DEF InMemory, SettledContents
<1>3. Taken = [p \in Partition |-> {}]
  BY DEF Taken, HandedOut
<1>4. QED BY <1>2, <1>3 DEF Consumer!Init

(* The raw content consumer, with all its goroutines, is a ConsumerContract *)
(* that drops nothing.                                                      *)
THEOREM Refinement == Spec => ImplementsConsumer
<1>1. IInv /\ [Next]_vars => [Consumer!Next]_(Consumer!vars)
  BY StepRefines DEF ContractStep
<1>2. QED BY <1>1, InitRefines, Invariance, PTL DEF Spec, ImplementsConsumer, Consumer!Spec
=============================================================================
