-------------------------- MODULE ConsumerContract --------------------------
(***************************************************************************)
(* What each of the four consumers promises of the topic it reads, however *)
(* it buffers, batches and retries.  A content enters the process's memory *)
(* with its message and leaves it only when it has met its end: settled    *)
(* (passed on, or given up after the last attempt) or dropped (turned down *)
(* for a reason the consumer knows).  A message is acknowledged only by    *)
(* the process it was handed to, and only when a content of it is settled. *)
(* After a crash or a rebalance the messages past the acknowledged ones    *)
(* come again.  Messages may be acknowledged in any order.                 *)
(***************************************************************************)
EXTENDS Naturals, Sequences

CONSTANTS
    Partition,   \* partitions of the topic
    Contents     \* Contents[p][o]: the contents of the message at offset o

VARIABLES
    next,        \* last offset handed out, per partition
    acked,       \* last offset acknowledged, per partition
    taken,       \* offsets handed to this process, per partition
    held,        \* the contents in its memory
    settled,     \* contents settled, by any process
    dropped      \* contents dropped, by any process

vars == <<next, acked, taken, held, settled, dropped>>

Init ==
    /\ next = [p \in Partition |-> 0]
    /\ acked = [p \in Partition |-> 0]
    /\ taken = [p \in Partition |-> {}]
    /\ held = {}
    /\ settled = {}
    /\ dropped = {}

(* A message may be dropped as it is taken.                                 *)
Take(p) ==
    LET o == next[p] + 1
    IN  /\ o <= Len(Contents[p])
        /\ next' = [next EXCEPT ![p] = o]
        /\ taken' = [taken EXCEPT ![p] = @ \cup {o}]
        /\ \/ held' = held \cup Contents[p][o] /\ UNCHANGED dropped
           \/ dropped' = dropped \cup Contents[p][o] /\ UNCHANGED held
        /\ UNCHANGED <<acked, settled>>

(* Memory may let go of contents that have met their end.                   *)
LetGo == held' \subseteq held /\ held \ held' \subseteq settled' \cup dropped'

Settle ==
    /\ UNCHANGED <<next, acked, taken, dropped>>
    /\ settled \subseteq settled' /\ settled' \subseteq settled \cup held
    /\ LetGo

Drop ==
    /\ UNCHANGED <<next, acked, taken, settled>>
    /\ dropped \subseteq dropped' /\ dropped' \subseteq dropped \cup held
    /\ LetGo

Acknowledge(p, o) ==
    /\ o \in taken[p]
    /\ Contents[p][o] \cap settled # {}
    /\ acked' = [acked EXCEPT ![p] = o]
    /\ LetGo
    /\ UNCHANGED <<next, taken, settled, dropped>>

Crash ==
    /\ next' = acked
    /\ taken' = [p \in Partition |-> {}]
    /\ held' = {}
    /\ UNCHANGED <<acked, settled, dropped>>

Reassign ==
    /\ next' = acked
    /\ UNCHANGED <<acked, taken, held, settled, dropped>>

Next ==
    \/ \E p \in Partition : Take(p)
    \/ Settle
    \/ Drop
    \/ \E p \in Partition : \E o \in taken[p] : Acknowledge(p, o)
    \/ Crash
    \/ Reassign

Spec == Init /\ [][Next]_vars

-----------------------------------------------------------------------------
(* What follows of every state: no content of a message taken is without an *)
(* end while it is not in memory, and an acknowledged message has a content *)
(* that is settled.                                                         *)
Kept ==
    \A p \in Partition : \A o \in taken[p] :
        Contents[p][o] \subseteq held \cup settled \cup dropped

AckedIsSettled ==
    \A p \in Partition :
        acked[p] > 0 => Contents[p][acked[p]] \cap settled # {}

=============================================================================
