--------------------------- MODULE KafkaConsumer ---------------------------
(***************************************************************************)
(* What the four consumers share: the partitions of the subscribed topic,  *)
(* the group's committed offsets, the iterator that hands messages out one *)
(* at a time, the commit handler, and the process-wide map that finds the  *)
(* Kafka message of a content ID again when its offset is to be committed. *)
(*                                                                         *)
(* Offsets count from 1.  position[p] is the last offset of p handed to    *)
(* the program; committed[p] is the last offset committed, 0 when none was *)
(* (auto.offset.reset is "earliest").  A commit names ONE message, but it  *)
(* speaks for every earlier offset of the partition as well.               *)
(***************************************************************************)
EXTENDS Integers, Sequences

CONSTANTS
    Partition,   \* partitions of the topic assigned to this process
    Log,         \* Log[p]: the values stored in partition p, in offset order
    ContentID,   \* content IDs
    NoMessage,   \* "not in the map", the second result of messageMap.Load
    MaxFaults    \* bound: process restarts and rebalances in a behaviour

ASSUME KafkaAssumption ==
    /\ \A p \in Partition : Len(Log[p]) \in Nat
    /\ MaxFaults \in Nat

VARIABLES
    position,    \* last offset handed out, per partition
    committed,   \* last offset committed, per partition
    messageMap,  \* utils.messageMap: content ID -> tracked Kafka message
    faults,      \* restarts and rebalances so far
    start,       \* history: where this process began to read, per partition
    reach        \* history: how far it has read at most, per partition

kafkaVars == <<position, committed, messageMap, faults, start, reach>>

Message == {m \in [partition : Partition, offset : Nat] :
              m.offset \in 1 .. Len(Log[m.partition])}

Value(m) == Log[m.partition][m.offset]

(* The offsets handed out since the process started.                        *)
HandedOut(p) == start[p] + 1 .. reach[p]

Taken == [p \in Partition |-> HandedOut(p)]

KafkaTypeOK ==
    /\ position \in [Partition -> Nat]
    /\ committed \in [Partition -> Nat]
    /\ \A p \in Partition : position[p] <= Len(Log[p])
    /\ \A p \in Partition : committed[p] <= Len(Log[p])
    /\ messageMap \in [ContentID -> Message \cup {NoMessage}]
    /\ faults \in 0 .. MaxFaults
    /\ start \in [Partition -> Nat]
    /\ reach \in [Partition -> Nat]
    /\ \A p \in Partition : reach[p] <= Len(Log[p])

KafkaInit ==
    /\ position = [p \in Partition |-> 0]
    /\ committed = [p \in Partition |-> 0]
    /\ messageMap = [c \in ContentID |-> NoMessage]
    /\ faults = 0
    /\ start = [p \in Partition |-> 0]
    /\ reach = [p \in Partition |-> 0]

-----------------------------------------------------------------------------
(* The iterator.  Next blocks in ReadMessage(-1) until some partition has a *)
(* message past its position; a read that fails five times, or with a code *)
(* that is not retryable, returns an error and moves no position.           *)

NextMessage(p) == [partition |-> p, offset |-> position[p] + 1]

HasNext(p) == position[p] < Len(Log[p])

Advance(p) ==
    /\ position' = [position EXCEPT ![p] = @ + 1]
    /\ reach' = [reach EXCEPT ![p] = IF @ > position[p] THEN @ ELSE position[p] + 1]
    /\ UNCHANGED start

(* The commit handler.  Five retries with backoff change nothing but time;  *)
(* the caller only logs an error, so a commit either reaches the broker,    *)
(* which stores exactly this offset even when it is lower than the one it   *)
(* holds, or is lost.                                                       *)
Commit(m) ==
    \/ committed' = [committed EXCEPT ![m.partition] = m.offset]
    \/ UNCHANGED committed

(* Message tracking: Store overwrites, Load and Delete are separate calls.  *)
TrackMessage(c, m) == messageMap' = [messageMap EXCEPT ![c] = m]

Untrack(c) == messageMap' = [messageMap EXCEPT ![c] = NoMessage]

-----------------------------------------------------------------------------
(* Faults.  Both make the group hand the messages after the committed       *)
(* offsets out again; a restart also loses the process's memory.            *)

LatestResume == position' = [p \in Partition |-> Len(Log[p])]

Resume == position' = committed

KafkaRestart ==
    /\ faults < MaxFaults
    /\ faults' = faults + 1
    /\ Resume
    /\ messageMap' = [c \in ContentID |-> NoMessage]
    /\ start' = position'
    /\ reach' = position'
    /\ UNCHANGED committed

KafkaRebalance ==
    /\ faults < MaxFaults
    /\ faults' = faults + 1
    /\ Resume
    /\ UNCHANGED <<committed, messageMap, start, reach>>

-----------------------------------------------------------------------------
(* What the proofs rest on.                                                 *)

(* A message this process was handed.                                       *)
InHand(m) == m \in Message /\ m.offset \in HandedOut(m.partition)

(* No message of an earlier process is left in the map.                     *)
TrackedInHand ==
    \A c \in ContentID : messageMap[c] # NoMessage => InHand(messageMap[c])

(* Where the process began is the least offset it can have committed.       *)
OffsetOrder ==
    \A p \in Partition :
        /\ start[p] <= committed[p] /\ committed[p] <= reach[p]
        /\ start[p] <= position[p] /\ position[p] <= reach[p]

=============================================================================
