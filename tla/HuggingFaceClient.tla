-------------------------- MODULE HuggingFaceClient --------------------------
(***************************************************************************)
(* internal/clients/huggingface_client.go and the goroutine of             *)
(* monitoring/ai_healthchecks.go that uses it beside a consumer: one model *)
(* service, the health flag that goroutine keeps of it, and the call       *)
(* (postJSON, DoWithRetry) that the consumer makes.                        *)
(*                                                                         *)
(* DoWithRetry sends the SAME request again.  Its body is read once: after *)
(* a request that got as far as the body, the service is sent a length     *)
(* with nothing behind it, which it can only turn down.                    *)
(***************************************************************************)
EXTENDS Integers

CONSTANTS MAX_RETRIES   \* requests in one call: 5 in the code

ASSUME HuggingFaceAssumption == MAX_RETRIES \in Nat \ {0}

VARIABLES
    service,    \* "up" or "down"
    probe,      \* the health check: "none", or what is about to be stored
    healthy,    \* summarizerHealthy, analyzerHealthy
    request,    \* which request of the call is being made
    body        \* its body: "whole", or "read" by an earlier request

serviceVars == <<service, probe, healthy>>
callVars == <<request, body>>
clientVars == <<serviceVars, callVars>>

ClientInit ==
    /\ service = "up"
    /\ probe = "none"
    /\ healthy = TRUE
    /\ request = 1
    /\ body = "whole"

(* A new process: main stores true before it starts the monitor.            *)
ClientRestart ==
    /\ probe' = "none"
    /\ healthy' = TRUE
    /\ request' = 1
    /\ body' = "whole"
    /\ UNCHANGED service

-----------------------------------------------------------------------------
(* Mistakes this code could have made.  No action uses them: each stands in *)
(* for the definition its name recalls, to see that a property notices.     *)

(* the monitor returns when it finds the service unhealthy                  *)
StoreHealthOnce ==
    /\ probe # "none"
    /\ healthy' = (probe = "up")
    /\ probe' = IF probe = "up" THEN "none" ELSE probe
    /\ UNCHANGED <<service, callVars>>

(* the requests of a call are counted from the start again                  *)
RequestAgainUncounted ==
    /\ request' = IF request < MAX_RETRIES THEN request + 1 ELSE 1
    /\ body' \in {body, "read"}
    /\ UNCHANGED serviceVars

(* one request more                                                         *)
RequestOnceMore ==
    /\ request <= MAX_RETRIES
    /\ request' = request + 1
    /\ body' \in {body, "read"}
    /\ UNCHANGED serviceVars

-----------------------------------------------------------------------------
(* The monitor.  At a tick it asks; the answer (or the timeout, which every *)
(* request of this client has) is stored later, when the service may        *)
(* already be something else.                                               *)
HealthCheck ==
    /\ probe = "none"
    /\ probe' = service
    /\ UNCHANGED <<service, healthy, callVars>>

StoreHealth ==
    /\ probe # "none"
    /\ healthy' = (probe = "up")
    /\ probe' = "none"
    /\ UNCHANGED <<service, callVars>>

ServiceChanges ==
    /\ service' = IF service = "up" THEN "down" ELSE "up"
    /\ UNCHANGED <<probe, healthy, callVars>>

-----------------------------------------------------------------------------
(* The call.                                                                *)
CallEnds == request' = 1 /\ body' = "whole"

(* 200, and the answer of the service.                                      *)
Answered ==
    /\ service = "up"
    /\ body = "whole"
    /\ CallEnds
    /\ UNCHANGED serviceVars

(* Any other status below 500 ends the call like an answer.                 *)
Refused ==
    /\ CallEnds
    /\ UNCHANGED serviceVars

(* No connection: the body is as it was.  5xx, or no answer: it is read.    *)
RequestAgain ==
    /\ request < MAX_RETRIES
    /\ request' = request + 1
    /\ body' \in {body, "read"}
    /\ UNCHANGED serviceVars

(* The last one failed too.  After a 5xx DoWithRetry returns no error, but  *)
(* a response it has closed, whose body cannot be read.                     *)
RequestsUsedUp ==
    /\ request = MAX_RETRIES
    /\ CallEnds
    /\ UNCHANGED serviceVars

ClientTypeOK ==
    /\ service \in {"up", "down"}
    /\ probe \in {"none", "up", "down"}
    /\ healthy \in BOOLEAN
    /\ request \in 1 .. MAX_RETRIES
    /\ body \in {"whole", "read"}

=============================================================================
