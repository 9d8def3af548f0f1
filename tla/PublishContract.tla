-------------------------- MODULE PublishContract --------------------------
(***************************************************************************)
(* What a caller of PublishToKafka is promised: each call ends at most     *)
(* once, and one that returns nil has made its message visible to readers  *)
(* of committed data.  One that returns an error, or never returns because *)
(* the process died, may or may not have done so, perhaps later.           *)
(***************************************************************************)
EXTENDS Integers

CONSTANTS MaxCalls     \* bound: calls of PublishToKafka in a behaviour

VARIABLES
    result,    \* what each call returned, "none" before it returns
    visible    \* calls whose message is in a committed transaction

Call == 1 .. MaxCalls

Init ==
    /\ result = [c \in Call |-> "none"]
    /\ visible = {}

ReturnNil(c) ==
    /\ result[c] = "none"
    /\ result' = [result EXCEPT ![c] = "nil"]
    /\ visible' = visible \cup {c}

ReturnError(c) ==
    /\ result[c] = "none"
    /\ result' = [result EXCEPT ![c] = "error"]
    /\ UNCHANGED visible

BecomeVisible(c) ==
    /\ c \notin visible
    /\ result[c] \in {"none", "error"}
    /\ visible' = visible \cup {c}
    /\ UNCHANGED result

Next == \E c \in Call : ReturnNil(c) \/ ReturnError(c) \/ BecomeVisible(c)

Spec == Init /\ [][Next]_<<result, visible>>

=============================================================================
