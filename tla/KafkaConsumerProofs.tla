-------------------------- MODULE KafkaConsumerProofs --------------------------
(***************************************************************************)
(* What the proofs about the four consumers share: facts about sequences,  *)
(* and what the operators of KafkaConsumer do to the offsets and to the    *)
(* map of tracked messages.                                                *)
(***************************************************************************)
EXTENDS KafkaConsumer, Functions, TLAPS

-----------------------------------------------------------------------------
(* Sequences: what Append adds to the range, what Tail takes from it.       *)

LEMMA RangeOfAppend ==
    ASSUME NEW S, NEW s \in Seq(S), NEW e \in S
    PROVE  /\ Append(s, e) \in Seq(S)
           /\ Range(Append(s, e)) = Range(s) \cup {e}
<1>1. /\ DOMAIN Append(s, e) = 1 .. Len(s) + 1
      /\ \A i \in 1 .. Len(s) : Append(s, e)[i] = s[i]
      /\ Append(s, e)[Len(s) + 1] = e
      /\ DOMAIN s = 1 .. Len(s)
  OBVIOUS
<1>2. QED BY <1>1 DEF Range

LEMMA RangeOfTail ==
    ASSUME NEW S, NEW s \in Seq(S), Len(s) > 0
    PROVE  /\ Tail(s) \in Seq(S)
           /\ Len(Tail(s)) = Len(s) - 1
           /\ Head(s) \in S
           /\ Range(s) = {Head(s)} \cup Range(Tail(s))
<1>1. /\ Tail(s) \in Seq(S)
      /\ Len(Tail(s)) = Len(s) - 1
      /\ Head(s) = s[1]
      /\ s[1] \in S
      /\ \A i \in 1 .. Len(s) - 1 : Tail(s)[i] = s[i + 1]
      /\ DOMAIN Tail(s) = 1 .. Len(s) - 1
      /\ DOMAIN s = 1 .. Len(s)
  OBVIOUS
<1>2. Range(s) \subseteq {Head(s)} \cup Range(Tail(s))
  <2>1. SUFFICES ASSUME NEW i \in 1 .. Len(s), i # 1
                 PROVE  s[i] \in Range(Tail(s))
    BY <1>1 DEF Range
  <2>2. i - 1 \in 1 .. Len(s) - 1 /\ s[i] = Tail(s)[i - 1]
    BY <1>1, <2>1
  <2>3. QED BY <1>1, <2>2 DEF Range
<1>3. {Head(s)} \cup Range(Tail(s)) \subseteq Range(s)
  <2>1. SUFFICES ASSUME NEW i \in 1 .. Len(s) - 1
                 PROVE  Tail(s)[i] \in Range(s)
    BY <1>1 DEF Range
  <2>2. i + 1 \in 1 .. Len(s) /\ Tail(s)[i] = s[i + 1]
    BY <1>1
  <2>3. QED BY <1>1, <2>2 DEF Range
<1>4. QED BY <1>1, <1>2, <1>3

LEMMA RangeOfEmpty ==
    ASSUME NEW S, NEW s \in Seq(S)
    PROVE  Len(s) = 0 <=> Range(s) = {}
<1>1. DOMAIN s = 1 .. Len(s) /\ Len(s) \in Nat
  OBVIOUS
<1>2. ASSUME Len(s) = 0 PROVE Range(s) = {}
  <2>1. DOMAIN s = {}
    BY <1>1, <1>2
  <2>2. QED BY <2>1 DEF Range
<1>3. ASSUME Len(s) # 0 PROVE s[1] \in Range(s)
  <2>1. 1 \in DOMAIN s
    BY <1>1, <1>3
  <2>2. QED BY <2>1 DEF Range
<1>4. QED BY <1>2, <1>3

LEMMA RangeOfOne ==
    ASSUME NEW S, NEW e \in S
    PROVE  <<e>> \in Seq(S) /\ Len(<<e>>) = 1 /\ Head(<<e>>) = e /\ Range(<<e>>) = {e}
  BY DEF Range

LEMMA RangeOfSingle ==
    ASSUME NEW S, NEW s \in Seq(S), Len(s) = 1
    PROVE  Head(s) \in S /\ Range(s) = {Head(s)}
<1>1. DOMAIN s = {1} /\ Head(s) = s[1] /\ s[1] \in S
  OBVIOUS
<1>2. QED BY <1>1 DEF Range

LEMMA EmptySequence ==
    ASSUME NEW S
    PROVE  /\ <<>> \in Seq(S) /\ Len(<<>>) = 0 /\ Range(<<>>) = {}
           /\ \A s \in Seq(S) : s = <<>> <=> Len(s) = 0
<1>1. <<>> \in Seq(S) /\ Len(<<>>) = 0
  OBVIOUS
<1>2. \A s \in Seq(S) : s = <<>> <=> Len(s) = 0
  OBVIOUS
<1>3. QED BY <1>1, <1>2, RangeOfEmpty

LEMMA RangeInSet ==
    ASSUME NEW S, NEW s \in Seq(S)
    PROVE  Range(s) \subseteq S
  BY DEF Range

(* A function on 1 .. n is a sequence of length n.                          *)
LEMMA LenOfFunction ==
    ASSUME NEW S, NEW n \in Nat, NEW f \in [1 .. n -> S]
    PROVE  Len(f) = n
  OBVIOUS

-----------------------------------------------------------------------------
(* The operators of KafkaConsumer.                                          *)

(* What Next moves: the position of one partition, and with it perhaps how  *)
(* far the process has read.                                                *)
LEMMA KafkaAdvance ==
    ASSUME KafkaTypeOK, OffsetOrder,
           NEW p \in Partition, HasNext(p), Advance(p), UNCHANGED committed
    PROVE  /\ position[p] + 1 \in 1 .. Len(Log[p])
           /\ position' = [position EXCEPT ![p] = position[p] + 1]
           /\ start' = start
           /\ position' \in [Partition -> Nat]
           /\ reach' \in [Partition -> Nat]
           /\ \A q \in Partition : position'[q] <= Len(Log[q])
           /\ \A q \in Partition : reach'[q] <= Len(Log[q])
           /\ \A q \in Partition : HandedOut(q)' =
                IF q = p THEN HandedOut(q) \cup {position[p] + 1} ELSE HandedOut(q)
           /\ OffsetOrder'
<1> USE KafkaAssumption DEF KafkaTypeOK
<1>1. /\ position[p] + 1 \in 1 .. Len(Log[p])
      /\ start' = start
      /\ position' = [position EXCEPT ![p] = position[p] + 1]
      /\ reach' = [reach EXCEPT ![p] = IF @ > position[p] THEN @ ELSE position[p] + 1]
  BY DEF HasNext, Advance
<1>2. /\ position' \in [Partition -> Nat]
      /\ reach' \in [Partition -> Nat]
      /\ \A q \in Partition :
           /\ position'[q] <= Len(Log[q]) /\ reach'[q] <= Len(Log[q])
           /\ reach[q] <= reach'[q]
           /\ position[q] <= position'[q] /\ position'[q] <= reach'[q]
  BY <1>1 DEF OffsetOrder
<1>3. ASSUME NEW q \in Partition
      PROVE  HandedOut(q)' = IF q = p THEN HandedOut(q) \cup {position[p] + 1}
                                      ELSE HandedOut(q)
  <2>1. CASE q # p
    BY <1>1, <2>1 DEF HandedOut
  <2>2. CASE q = p /\ reach[p] > position[p]
    <3>1. HandedOut(p)' = HandedOut(p)
      BY <1>1, <2>2 DEF HandedOut
    <3>2. position[p] + 1 \in HandedOut(p)
      BY <2>2 DEF HandedOut, OffsetOrder
    <3>3. QED BY <2>2, <3>1, <3>2
  <2>3. CASE q = p /\ ~(reach[p] > position[p])
    <3>1. reach'[p] = reach[p] + 1 /\ position[p] = reach[p] /\ start[p] <= reach[p]
      BY <1>1, <2>3 DEF OffsetOrder
    <3>2. QED BY <1>1, <2>3, <3>1 DEF HandedOut
  <2>4. QED BY <2>1, <2>2, <2>3
<1>4. OffsetOrder'
  BY <1>1, <1>2 DEF OffsetOrder
<1>5. QED BY <1>1, <1>2, <1>3, <1>4

LEMMA InHandStays ==
    ASSUME NEW m, InHand(m),
           \A q \in Partition : HandedOut(q) \subseteq HandedOut(q)'
    PROVE  InHand(m)'
  BY DEF InHand, Message

(* The message the iterator returns is one of this process from then on.    *)
LEMMA NextInHand ==
    ASSUME KafkaTypeOK, OffsetOrder,
           NEW p \in Partition, HasNext(p), Advance(p), UNCHANGED committed,
           NEW m, m = NextMessage(p)
    PROVE  /\ m \in Message
           /\ InHand(m)'
           /\ Value(m) = Log[p][position[p] + 1]
<1>1. position[p] + 1 \in 1 .. Len(Log[p]) /\ position[p] + 1 \in HandedOut(p)'
  BY KafkaAdvance
<1>2. m = [partition |-> p, offset |-> position[p] + 1]
  BY DEF NextMessage
<1>3. m \in Message
  BY <1>1, <1>2, KafkaAssumption DEF Message
<1>4. InHand(m)'
  BY <1>1, <1>2, <1>3 DEF InHand, Message
<1>5. QED BY <1>2, <1>3, <1>4 DEF Value

(* A commit reaches the broker, or is lost.                                 *)
LEMMA KafkaCommit ==
    ASSUME KafkaTypeOK, OffsetOrder, NEW m, InHand(m), Commit(m),
           UNCHANGED <<position, start, reach>>
    PROVE  /\ m.partition \in Partition
           /\ m.offset \in HandedOut(m.partition)
           /\ m.offset \in 1 .. Len(Log[m.partition])
           /\ \/ UNCHANGED committed
              \/ committed' = [committed EXCEPT ![m.partition] = m.offset]
           /\ committed' \in [Partition -> Nat]
           /\ \A q \in Partition : committed'[q] <= Len(Log[q])
           /\ \A q \in Partition :
                committed'[q] = committed[q] \/ (q = m.partition /\ committed'[q] = m.offset)
           /\ OffsetOrder'
<1> USE KafkaAssumption DEF KafkaTypeOK
<1>1. /\ m.partition \in Partition /\ m.offset \in Nat
      /\ m.offset \in HandedOut(m.partition)
      /\ m.offset \in 1 .. Len(Log[m.partition])
  BY DEF InHand, Message
<1>2. \/ UNCHANGED committed
      \/ committed' = [committed EXCEPT ![m.partition] = m.offset]
  BY DEF Commit
<1>3. /\ committed' \in [Partition -> Nat]
      /\ \A q \in Partition :
           committed'[q] = committed[q] \/ (q = m.partition /\ committed'[q] = m.offset)
  BY <1>1, <1>2
<1>4. start[m.partition] <= m.offset /\ m.offset <= reach[m.partition]
  BY <1>1 DEF HandedOut
<1>5. OffsetOrder'
  BY <1>1, <1>3, <1>4 DEF OffsetOrder
<1>6. ASSUME NEW q \in Partition PROVE committed'[q] <= Len(Log[q])
  <2>1. CASE committed'[q] = committed[q]
    BY <2>1
  <2>2. CASE q = m.partition /\ committed'[q] = m.offset
    <3>1. m.offset <= Len(Log[m.partition])
      BY <1>1
    <3>2. QED BY <2>2, <3>1
  <2>3. QED BY <1>3, <2>1, <2>2
<1>7. QED BY <1>1, <1>2, <1>3, <1>5, <1>6

LEMMA KafkaRestarts ==
    ASSUME KafkaTypeOK, KafkaRestart
    PROVE  /\ KafkaTypeOK' /\ OffsetOrder' /\ TrackedInHand'
           /\ \A q \in Partition : HandedOut(q)' = {}
           /\ position' = committed /\ UNCHANGED committed
           /\ messageMap' = [c \in ContentID |-> NoMessage]
<1> USE KafkaAssumption DEF KafkaTypeOK
<1>1. /\ position' = committed /\ start' = committed /\ reach' = committed
      /\ faults < MaxFaults /\ faults' = faults + 1
      /\ messageMap' = [c \in ContentID |-> NoMessage]
      /\ UNCHANGED committed
  BY DEF KafkaRestart, Resume
<1>2. KafkaTypeOK'
  BY <1>1 DEF Message
<1>3. OffsetOrder'
  BY <1>1 DEF OffsetOrder
<1>4. \A q \in Partition : HandedOut(q)' = {}
  BY <1>1 DEF HandedOut
<1>5. TrackedInHand'
  BY <1>1 DEF TrackedInHand
<1>6. QED BY <1>1, <1>2, <1>3, <1>4, <1>5

LEMMA KafkaRebalances ==
    ASSUME KafkaTypeOK, OffsetOrder, TrackedInHand, KafkaRebalance
    PROVE  /\ KafkaTypeOK' /\ OffsetOrder' /\ TrackedInHand'
           /\ \A q \in Partition : HandedOut(q)' = HandedOut(q)
           /\ position' = committed /\ UNCHANGED <<committed, messageMap, start, reach>>
<1> USE KafkaAssumption DEF KafkaTypeOK
<1>1. /\ position' = committed
      /\ faults < MaxFaults /\ faults' = faults + 1
      /\ UNCHANGED <<committed, messageMap, start, reach>>
  BY DEF KafkaRebalance, Resume
<1>2. KafkaTypeOK'
  BY <1>1 DEF Message
<1>3. OffsetOrder'
  BY <1>1 DEF OffsetOrder
<1>4. \A q \in Partition : HandedOut(q)' = HandedOut(q)
  BY <1>1 DEF HandedOut
<1>5. TrackedInHand'
  BY <1>1, <1>4, InHandStays DEF TrackedInHand
<1>6. QED BY <1>1, <1>2, <1>3, <1>4, <1>5

(* Nothing of Kafka changes.                                                *)
LEMMA KafkaStutters ==
    ASSUME KafkaTypeOK, OffsetOrder, TrackedInHand, UNCHANGED kafkaVars
    PROVE  /\ KafkaTypeOK' /\ OffsetOrder' /\ TrackedInHand'
           /\ \A q \in Partition : HandedOut(q)' = HandedOut(q)
<1>1. \A q \in Partition : HandedOut(q)' = HandedOut(q)
  BY DEF HandedOut, kafkaVars
<1>2. KafkaTypeOK' /\ OffsetOrder'
  BY DEF KafkaTypeOK, OffsetOrder, kafkaVars, Message
<1>3. TrackedInHand'
  BY <1>1, InHandStays DEF TrackedInHand, kafkaVars
<1>4. QED BY <1>1, <1>2, <1>3

=============================================================================
