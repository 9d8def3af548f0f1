--------------------- MODULE TransactionalProducerProofs ---------------------
(***************************************************************************)
(* Proofs about the transactional producer, for any number of calls: types *)
(* whatever the number of goroutines that share it; and, for a process     *)
(* that publishes from one goroutine, PublishContract, and that a message  *)
(* is visible only after its own call has asked for the commit.            *)
(***************************************************************************)
EXTENDS TransactionalProducer, TLAPS

Stage == {"idle", "begin", "produce", "await", "commit", "abort", "recreate"}

(* TypeOK of what is librdkafka's and the broker's.                         *)
BrokerTypeOK ==
    /\ txn \in {"none", "ready", "inTxn", "committing", "abortable",
                "aborting", "fatal", "closed"}
    /\ open \subseteq Call
    /\ requested \in BOOLEAN
    /\ report \in [Call -> {"none", "ok", "failed", "never"}]
    /\ visible \subseteq Call
    /\ committing \subseteq Call

-----------------------------------------------------------------------------
(* What the three ways to leave a step of PublishToKafka keep.              *)
LEMMA EnterKeeps ==
    ASSUME IInv, BrokerTypeOK', NEW g \in Caller, NEW stage \in Stage,
           pc[g] # "idle", Enter(g, stage)
    PROVE  IInv'
BY DEF IInv, TypeOK, BrokerTypeOK, InACall, Enter, mainVars, Stage, MAX_RETRIES

LEMMA AgainKeeps ==
    ASSUME IInv, BrokerTypeOK', NEW g \in Caller,
           tries[g] < MAX_RETRIES, Again(g)
    PROVE  IInv'
BY DEF IInv, TypeOK, BrokerTypeOK, InACall, Again, mainVars, MAX_RETRIES

LEMMA ReturnKeeps ==
    ASSUME IInv, BrokerTypeOK', NEW g \in Caller, NEW what \in {"nil", "error"},
           Return(g, what)
    PROVE  IInv'
<1>1. 0 \in 0 .. MaxCalls /\ 1 \in 1 .. MAX_RETRIES
  BY ProducerAssumption DEF MAX_RETRIES
<1>2. result' \in [Call -> {"none", "nil", "error"}]
  BY DEF IInv, TypeOK, Return
<1>3. TypeOK'
  BY <1>1, <1>2 DEF IInv, TypeOK, BrokerTypeOK, Return, mainVars
<1>4. InACall'
  BY DEF IInv, TypeOK, InACall, Return
<1>5. QED BY <1>3, <1>4 DEF IInv

(* A step of the broker is none of the callers'.                            *)
LEMMA OutsideKeeps ==
    ASSUME IInv, BrokerTypeOK', UNCHANGED callerVars
    PROVE  IInv'
BY DEF IInv, TypeOK, BrokerTypeOK, InACall, callerVars, mainVars

(* A caller that is in PublishToKafka is there for one of the calls.        *)
LEMMA CallInHand ==
    ASSUME IInv, NEW g \in Caller, pc[g] # "idle"
    PROVE  call[g] \in Call
BY DEF IInv, TypeOK, InACall, Call

-----------------------------------------------------------------------------
LEMMA StartTypes == ASSUME IInv, Start PROVE IInv'
BY DEF IInv, TypeOK, InACall, Start, InitProducer, InitProducerFails,
       InitProducerAgain, outsideMain

LEMMA StartCallTypes ==
    ASSUME IInv, NEW g \in Caller, StartCall(g)
    PROVE  IInv'
<1>1. calls + 1 \in 1 .. MaxCalls
  BY ProducerAssumption DEF IInv, TypeOK, StartCall
<1>2. QED
  BY <1>1
  DEF IInv, TypeOK, InACall, StartCall, mainVars, brokerVars, MAX_RETRIES

LEMMA BeginTypes ==
    ASSUME IInv, NEW g \in Caller,
           BeginOk(g) \/ BeginAgain(g) \/ BeginFallsThrough(g) \/ BeginError(g)
    PROVE  IInv'
<1>1. BrokerTypeOK'
  BY DEF IInv, TypeOK, BrokerTypeOK, BeginOk, BeginAgain, BeginFallsThrough,
         BeginError, brokerVars
<1>2. CASE BeginOk(g) \/ BeginFallsThrough(g)
  BY <1>1, <1>2, EnterKeeps DEF BeginOk, BeginFallsThrough, Stage
<1>3. CASE BeginAgain(g)
  BY <1>1, <1>3, AgainKeeps DEF BeginAgain, maxBeginRetries, MAX_RETRIES
<1>4. CASE BeginError(g)
  BY <1>1, <1>4, ReturnKeeps DEF BeginError
<1>5. QED BY <1>2, <1>3, <1>4

LEMMA ProduceTypes ==
    ASSUME IInv, NEW g \in Caller,
           ProduceOk(g) \/ ProduceAgain(g) \/ ProduceRefused(g)
    PROVE  IInv'
<1>1. pc[g] = "produce" /\ call[g] \in Call
  BY CallInHand DEF ProduceOk, ProduceAgain, ProduceRefused
<1>2. BrokerTypeOK'
  BY <1>1
  DEF IInv, TypeOK, BrokerTypeOK, ProduceOk, ProduceAgain, ProduceRefused,
      brokerVars
<1>3. CASE ProduceAgain(g) /\ Again(g) /\ tries[g] < MAX_RETRIES
  BY <1>2, <1>3, AgainKeeps
<1>4. CASE Enter(g, "await") \/ Enter(g, "abort")
  BY <1>1, <1>2, <1>4, EnterKeeps DEF Stage
<1>5. QED BY <1>3, <1>4 DEF ProduceOk, ProduceAgain, ProduceRefused

LEMMA AwaitTypes ==
    ASSUME IInv, NEW g \in Caller, AwaitOk(g) \/ AwaitFailed(g)
    PROVE  IInv'
<1>1. pc[g] = "await" /\ call[g] \in Call
  BY CallInHand DEF AwaitOk, AwaitFailed
<1>2. BrokerTypeOK'
  BY <1>1 DEF IInv, TypeOK, BrokerTypeOK, AwaitOk, AwaitFailed, brokerVars
<1>3. Enter(g, "commit") \/ Enter(g, "abort")
  BY DEF AwaitOk, AwaitFailed
<1>4. QED BY <1>1, <1>2, <1>3, EnterKeeps DEF Stage

(* A report is replaced by another one for the messages in the transaction. *)
LEMMA ReportsOfOpen ==
    ASSUME IInv, NEW what \in {"ok", "failed", "never"},
           report' = [c \in Call |-> IF c \in open /\ report[c] = "none"
                                     THEN what ELSE report[c]]
    PROVE  report' \in [Call -> {"none", "ok", "failed", "never"}]
BY DEF IInv, TypeOK

LEMMA CommitTypes ==
    ASSUME IInv, NEW g \in Caller,
           CommitOk(g) \/ CommitTimesOut(g) \/ CommitRefused(g)
    PROVE  IInv'
<1>1. report' \in [Call -> {"none", "ok", "failed", "never"}]
  BY ReportsOfOpen
  DEF IInv, TypeOK, CommitOk, CommitTimesOut, CommitRefused, brokerVars
<1>2. BrokerTypeOK'
  BY <1>1
  DEF IInv, TypeOK, BrokerTypeOK, CommitOk, CommitTimesOut, CommitRefused,
      brokerVars
<1>3. CASE Again(g) /\ tries[g] < CommitTries
  BY <1>2, <1>3, AgainKeeps DEF CommitTries, MAX_RETRIES, IInv, TypeOK
<1>4. CASE Return(g, "nil") \/ Return(g, "error")
  BY <1>2, <1>4, ReturnKeeps
<1>5. QED BY <1>3, <1>4
      DEF CommitOk, CommitTimesOut, CommitRefused, CommitFailed, CommitGivesUp

LEMMA AbortTypes ==
    ASSUME IInv, NEW g \in Caller,
           AbortOk(g) \/ AbortTimesOut(g) \/ AbortRefused(g) \/ Recreate(g)
    PROVE  IInv'
<1>1. report' \in [Call -> {"none", "ok", "failed", "never"}]
  BY ReportsOfOpen
  DEF IInv, TypeOK, AbortOk, AbortTimesOut, AbortRefused, Recreate
<1>2. BrokerTypeOK'
  BY <1>1
  DEF IInv, TypeOK, BrokerTypeOK, AbortOk, AbortTimesOut, AbortRefused, Recreate
<1>3. CASE AbortRefused(g)
  BY <1>2, <1>3, EnterKeeps DEF AbortRefused, Stage
<1>4. CASE Return(g, "error")
  BY <1>2, <1>4, ReturnKeeps
<1>5. QED BY <1>3, <1>4 DEF AbortOk, AbortTimesOut, Recreate

LEMMA BrokerTypes ==
    ASSUME IInv,
           \/ \E c \in Call : Report(c)
           \/ BrokerCommits \/ BrokerRefuses \/ FatalError
    PROVE  IInv'
<1>1. UNCHANGED callerVars
  BY DEF Report, Delivered, NotDelivered, BrokerCommits, BrokerRefuses, FatalError
<1>2. committing' = committing
  BY <1>1 DEF callerVars
<1>3. BrokerTypeOK'
  BY <1>2
  DEF IInv, TypeOK, BrokerTypeOK, Report, Delivered, NotDelivered,
      BrokerCommits, BrokerRefuses, FatalError
<1>4. QED BY <1>1, <1>3, OutsideKeeps

LEMMA RestartTypes == ASSUME IInv, Restart PROVE IInv'
<1>1. 0 \in 0 .. MaxCalls /\ 1 \in 1 .. MAX_RETRIES
  BY ProducerAssumption DEF MAX_RETRIES
<1>2. /\ pc' \in [Caller -> Stage]
      /\ tries' \in [Caller -> 1 .. MAX_RETRIES]
      /\ call' \in [Caller -> 0 .. MaxCalls]
  BY <1>1 DEF Restart, Stage
<1>3. TypeOK'
  BY <1>2 DEF IInv, TypeOK, Restart, Stage
<1>4. QED BY <1>3 DEF IInv, InACall, Restart

LEMMA InitTypes == ASSUME Init PROVE IInv
<1>1. 0 \in 0 .. MaxCalls /\ 1 \in 1 .. MAX_RETRIES
  BY ProducerAssumption DEF MAX_RETRIES
<1>2. /\ pc \in [Caller -> Stage]
      /\ tries \in [Caller -> 1 .. MAX_RETRIES]
      /\ call \in [Caller -> 0 .. MaxCalls]
  BY <1>1 DEF Init, Stage
<1>3. /\ report \in [Call -> {"none", "ok", "failed", "never"}]
      /\ result \in [Call -> {"none", "nil", "error"}]
  BY DEF Init
<1>4. TypeOK
  BY <1>1, <1>2, <1>3 DEF Init, TypeOK, Stage
<1>5. QED BY <1>4 DEF IInv, InACall, Init

LEMMA EveryStep == ASSUME IInv, [Next]_vars PROVE IInv'
<1>1. CASE Start
  BY <1>1, StartTypes
<1>2. CASE \E g \in Caller : StartCall(g) \/ PublishStep(g)
  BY <1>2, StartCallTypes, BeginTypes, ProduceTypes, AwaitTypes, CommitTypes,
     AbortTypes, RestartTypes DEF PublishStep, BeginPanics
<1>3. CASE \/ \E c \in Call : Report(c)
           \/ BrokerCommits \/ BrokerRefuses \/ FatalError
  BY <1>3, BrokerTypes
<1>4. CASE Restart
  BY <1>4, RestartTypes
<1>5. CASE UNCHANGED vars
  BY <1>5 DEF vars, brokerVars, callerVars, mainVars, IInv, TypeOK, InACall
<1>6. QED BY <1>1, <1>2, <1>3, <1>4, <1>5 DEF Next

(* The types hold in every state, and every goroutine in PublishToKafka is  *)
(* there for one call, whatever the number of goroutines.                   *)
THEOREM Invariance == Spec => []IInv
<1>1. Init => IInv
  BY InitTypes
<1>2. IInv /\ [Next]_vars => IInv'
  BY EveryStep
<1>3. QED BY <1>1, <1>2, PTL DEF Spec

(* Every reachable state is well typed; none of the loops goes on for more  *)
(* than its five rounds.                                                    *)
THEOREM TypeCorrect == Spec => []TypeOK
<1>1. IInv => TypeOK
  BY DEF IInv
<1>2. QED BY <1>1, Invariance, PTL

-----------------------------------------------------------------------------
(* Every step counts, whatever the number of goroutines.                    *)

LEMMA SomeStepsLeft ==
    ASSUME IInv, NEW g \in Caller
    PROVE  /\ StepsLeft(g) \in Nat
           /\ pc[g] # "idle" => StepsLeft(g) > 0
<1>1. tries[g] \in 1 .. 5 /\ pc[g] \in Stage
  BY DEF IInv, TypeOK, Stage, MAX_RETRIES
<1>2. QED BY <1>1 DEF StepsLeft, Stage

LEMMA OthersStay ==
    ASSUME IInv, NEW g \in Caller, NEW h \in Caller \ {g},
           \/ \E stage \in Stage : Enter(g, stage)
           \/ Again(g)
           \/ \E what \in {"nil", "error"} : Return(g, what)
    PROVE  StepsLeft(h)' = StepsLeft(h)
<1>1. pc'[h] = pc[h] /\ tries'[h] = tries[h]
  BY DEF IInv, TypeOK, Enter, Again, Return
<1>2. QED BY <1>1 DEF StepsLeft

LEMMA EnterCounts ==
    ASSUME IInv, NEW g \in Caller, NEW stage \in Stage, Enter(g, stage)
    PROVE  pc'[g] = stage /\ tries'[g] = 1
BY DEF IInv, TypeOK, Enter

LEMMA AgainCounts ==
    ASSUME IInv, NEW g \in Caller, Again(g),
           pc[g] \in {"begin", "produce", "commit"}
    PROVE  StepsLeft(g)' < StepsLeft(g)
<1>1. tries'[g] = tries[g] + 1 /\ pc'[g] = pc[g] /\ tries[g] \in 1 .. 5
  BY DEF IInv, TypeOK, Again, MAX_RETRIES
<1>2. QED BY <1>1 DEF StepsLeft

LEMMA ReturnCounts ==
    ASSUME IInv, NEW g \in Caller, pc[g] # "idle",
           NEW what \in {"nil", "error"}, Return(g, what)
    PROVE  StepsLeft(g)' < StepsLeft(g)
<1>1. pc'[g] = "idle"
  BY DEF IInv, TypeOK, Return
<1>2. StepsLeft(g)' = 0
  BY <1>1 DEF StepsLeft
<1>3. QED BY <1>2, SomeStepsLeft

LEMMA OwnStepCounts ==
    ASSUME IInv, NEW g \in Caller, PublishStep(g), ~BeginPanics(g)
    PROVE  /\ StepsLeft(g)' < StepsLeft(g)
           /\ \A h \in Caller \ {g} : StepsLeft(h)' = StepsLeft(h)
<1>1. tries[g] \in 1 .. 5
  BY DEF IInv, TypeOK, MAX_RETRIES
<1>2. CASE BeginOk(g) \/ BeginFallsThrough(g)
  <2>1. pc[g] = "begin" /\ Enter(g, "produce") /\ "produce" \in Stage
    BY <1>2 DEF BeginOk, BeginFallsThrough, Stage
  <2>2. StepsLeft(g)' = 11 /\ StepsLeft(g) = 17 - tries[g]
    BY <2>1, EnterCounts DEF StepsLeft
  <2>3. QED BY <1>1, <2>1, <2>2, OthersStay
<1>3. CASE BeginAgain(g)
  BY <1>3, AgainCounts, OthersStay DEF BeginAgain
<1>4. CASE BeginError(g)
  BY <1>4, ReturnCounts, OthersStay DEF BeginError
<1>5. CASE ProduceOk(g)
  <2>1. pc[g] = "produce" /\ Enter(g, "await") /\ "await" \in Stage
    BY <1>5 DEF ProduceOk, Stage
  <2>2. StepsLeft(g)' = 6 /\ StepsLeft(g) = 12 - tries[g]
    BY <2>1, EnterCounts DEF StepsLeft
  <2>3. QED BY <1>1, <2>1, <2>2, OthersStay
<1>6. ASSUME pc[g] \in {"produce", "await"}, Enter(g, "abort")
      PROVE  /\ StepsLeft(g)' < StepsLeft(g)
             /\ \A h \in Caller \ {g} : StepsLeft(h)' = StepsLeft(h)
  <2>1. "abort" \in Stage
    BY DEF Stage
  <2>2. StepsLeft(g)' = 2 /\ StepsLeft(g) \in {6, 12 - tries[g]}
    BY <1>6, <2>1, EnterCounts DEF StepsLeft
  <2>3. QED BY <1>1, <1>6, <2>1, <2>2, OthersStay
<1>7. CASE ProduceAgain(g) \/ ProduceRefused(g)
  BY <1>6, <1>7, AgainCounts, OthersStay DEF ProduceAgain, ProduceRefused
<1>8. CASE AwaitOk(g)
  <2>1. pc[g] = "await" /\ Enter(g, "commit") /\ "commit" \in Stage
    BY <1>8 DEF AwaitOk, Stage
  <2>2. StepsLeft(g)' = 5 /\ StepsLeft(g) = 6
    BY <2>1, EnterCounts DEF StepsLeft
  <2>3. QED BY <2>1, <2>2, OthersStay
<1>9. CASE AwaitFailed(g)
  BY <1>6, <1>9 DEF AwaitFailed
<1>10. CASE CommitOk(g) \/ CommitTimesOut(g) \/ CommitRefused(g)
  <2>1. /\ pc[g] = "commit"
        /\ Again(g) \/ Return(g, "nil") \/ Return(g, "error")
    BY <1>10
    DEF CommitOk, CommitTimesOut, CommitRefused, CommitFailed, CommitGivesUp
  <2>2. QED BY <2>1, AgainCounts, ReturnCounts, OthersStay
<1>11. CASE AbortOk(g) \/ AbortTimesOut(g) \/ Recreate(g)
  <2>1. pc[g] # "idle" /\ Return(g, "error")
    BY <1>11 DEF AbortOk, AbortTimesOut, Recreate
  <2>2. QED BY <2>1, ReturnCounts, OthersStay
<1>12. CASE AbortRefused(g)
  <2>1. pc[g] = "abort" /\ Enter(g, "recreate") /\ "recreate" \in Stage
    BY <1>12 DEF AbortRefused, Stage
  <2>2. StepsLeft(g)' = 1 /\ StepsLeft(g) = 2
    BY <2>1, EnterCounts DEF StepsLeft
  <2>3. QED BY <2>1, <2>2, OthersStay
<1>13. QED
  BY <1>2, <1>3, <1>4, <1>5, <1>7, <1>8, <1>9, <1>10, <1>11, <1>12 DEF PublishStep

LEMMA RestartCounts ==
    ASSUME IInv, Restart, NEW g \in Caller
    PROVE  /\ StepsLeft(g)' <= StepsLeft(g)
           /\ pc[g] # "idle" => StepsLeft(g)' < StepsLeft(g)
<1>1. StepsLeft(g)' = 0
  BY DEF Restart, StepsLeft
<1>2. QED BY <1>1, SomeStepsLeft

(* A call makes at most sixteen steps, however many goroutines share the    *)
(* producer and whatever they, the broker and main do between them.         *)
THEOREM CountedSteps == Spec => EveryStepIsCounted
<1> DEFINE Counted(g) ==
      /\ PublishStep(g) => StepsLeft(g)' < StepsLeft(g)
      /\ pc[g] # "idle" => StepsLeft(g)' <= StepsLeft(g)
<1>1. ASSUME IInv, Next, NEW g \in Caller
      PROVE  Counted(g)
  <2>1. StepsLeft(g) \in Nat /\ StepsLeft(g)' \in Int
    <3>1. IInv'
      BY <1>1, EveryStep
    <3>2. tries'[g] \in 1 .. 5
      BY <3>1 DEF IInv, TypeOK, MAX_RETRIES
    <3>3. StepsLeft(g)' \in Int
      BY <3>2 DEF StepsLeft
    <3>4. QED BY <1>1, <3>3, SomeStepsLeft
  <2>2. CASE PublishStep(g) /\ ~BeginPanics(g)
    <3>1. StepsLeft(g)' < StepsLeft(g)
      BY <1>1, <2>2, OwnStepCounts
    <3>2. QED BY <2>1, <3>1
  <2>3. CASE BeginPanics(g)
    BY <1>1, <2>3, RestartCounts DEF BeginPanics
  <2>4. CASE Restart /\ ~PublishStep(g)
    BY <1>1, <2>4, RestartCounts
  <2>5. ASSUME ~PublishStep(g), NEW h \in Caller \ {g},
               PublishStep(h) /\ ~BeginPanics(h)
        PROVE  Counted(g)
    <3>1. StepsLeft(g)' = StepsLeft(g)
      BY <1>1, <2>5, OwnStepCounts
    <3>2. QED BY <2>1, <2>5, <3>1
  <2>6. ASSUME ~PublishStep(g), pc[g] # "idle",
               pc'[g] = pc[g] /\ tries'[g] = tries[g]
        PROVE  Counted(g)
    <3>1. StepsLeft(g)' = StepsLeft(g)
      BY <2>6 DEF StepsLeft
    <3>2. QED BY <2>1, <2>6, <3>1
  <2>7. CASE ~PublishStep(g) /\ \E h \in Caller : StartCall(h)
    <3>1. PICK h \in Caller : StartCall(h)
      BY <2>7
    <3>2. pc[g] # "idle" => pc'[g] = pc[g] /\ tries'[g] = tries[g]
      BY <1>1, <3>1 DEF StartCall, IInv, TypeOK
    <3>3. QED BY <2>6, <2>7, <3>2
  <2>8. CASE /\ ~PublishStep(g)
             /\ \/ Start
                \/ \E c \in Call : Report(c)
                \/ BrokerCommits \/ BrokerRefuses \/ FatalError
    <3>1. pc' = pc /\ tries' = tries
      BY <2>8
      DEF Start, InitProducer, InitProducerFails, InitProducerAgain, outsideMain,
          Report, Delivered, NotDelivered, BrokerCommits, BrokerRefuses,
          FatalError, callerVars
    <3>2. QED BY <2>6, <2>8, <3>1
  <2>9. QED
    BY <1>1, <2>2, <2>3, <2>4, <2>5, <2>7, <2>8 DEF Next, BeginPanics
<1>2. IInv /\ [Next]_vars => [\A g \in Caller : Counted(g)]_vars
  BY <1>1
<1>3. QED BY <1>2, Invariance, PTL DEF Spec, EveryStepIsCounted

-----------------------------------------------------------------------------
(* From here on one goroutine publishes, as in the content producer and in  *)
(* the sentiment consumer.  With two, TLC finds both theorems below wrong.  *)

ContractStep == Contract!Next \/ UNCHANGED <<result, visible>>

(* What the ways to leave a step are for the one caller.                    *)
LEMMA EnterMeans ==
    ASSUME IInv, NEW g \in Caller, NEW stage, Enter(g, stage)
    PROVE  /\ pc'[g] = stage
           /\ UNCHANGED <<started, call, calls, result>>
BY DEF IInv, TypeOK, Enter, mainVars

LEMMA ReturnMeans ==
    ASSUME IInv, NEW g \in Caller, NEW what, Return(g, what), call[g] \in Call
    PROVE  /\ pc'[g] = "idle"
           /\ UNCHANGED <<started, calls>>
           /\ result' = [result EXCEPT ![call[g]] = what]
           /\ result'[call[g]] = what
           /\ \A c \in Call \ {call[g]} : result'[c] = result[c]
BY DEF IInv, TypeOK, Return, mainVars

(* A call in hand is the one that has no result.                            *)
LEMMA AloneInHand ==
    ASSUME AloneInv, NEW g \in Caller, pc[g] # "idle"
    PROVE  call[g] \in Call /\ call[g] \in 1 .. calls /\ result[call[g]] = "none"
BY CallInHand DEF AloneInv, NoResultYet, IInv, InACall

(* A call that returns an error ends in the contract, too.                  *)
LEMMA ErrorReturned ==
    ASSUME AloneInv, NEW g, Caller = {g}, pc[g] # "idle", Return(g, "error"),
           UNCHANGED visible
    PROVE  ContractStep /\ NoResultYet'
<1>1. PICK c \in Call : c = call[g]
  BY AloneInHand
<1>2. c \in 1 .. calls /\ result[c] = "none"
  BY <1>1, AloneInHand
<1>3. /\ pc'[g] = "idle"
      /\ UNCHANGED calls
      /\ result' = [result EXCEPT ![c] = "error"]
      /\ \A d \in Call \ {c} : result'[d] = result[d]
  BY <1>1, ReturnMeans DEF AloneInv
<1>4. Contract!ReturnError(c)
  BY <1>2, <1>3 DEF Contract!ReturnError
<1>5. ContractStep
  BY <1>1, <1>4 DEF ContractStep, Contract!Next, Contract!Call, Call
<1>6. NoResultYet'
  <2>1. \A d \in Call : d > calls => d # c
    BY <1>2 DEF AloneInv, IInv, TypeOK, Call
  <2>2. Call' = Call
    BY DEF Call
  <2>3. QED BY <1>3, <2>1, <2>2 DEF AloneInv, NoResultYet
<1>7. QED BY <1>5, <1>6

(* A step inside of a call, or outside of all, changes no result.           *)
LEMMA NothingReturned ==
    ASSUME AloneInv, NEW g, Caller = {g}, UNCHANGED <<calls, result>>,
           \/ pc[g] # "idle" /\ call' = call
           \/ pc'[g] = "idle"
           \/ UNCHANGED <<pc, call>>
    PROVE  NoResultYet'
BY DEF AloneInv, NoResultYet, Call

-----------------------------------------------------------------------------
LEMMA StartAlone ==
    ASSUME AloneInv, NEW g, Caller = {g}, Start
    PROVE  AloneInv' /\ ContractStep
<1>1. IInv'
  BY StartTypes DEF AloneInv
<1>2. UNCHANGED outsideMain /\ txn = "none" /\ txn' \in {"none", "ready"}
      /\ (~started' => txn' = "none")
  BY DEF Start, InitProducer, InitProducerFails, InitProducerAgain, AloneInv,
         OwnTransaction
<1>3. started' \/ pc[g] = "idle"
  BY DEF Start, InitProducer, InitProducerFails, InitProducerAgain, AloneInv,
         OwnTransaction
<1>4. QED
  BY <1>1, <1>2, <1>3
  DEF AloneInv, NoResultYet, OwnTransaction, RequestedByOwnCall,
      VisibleOnlyAfterOwnCommit, ContractStep, outsideMain, Call

(* A call begins with no result, outside of any transaction it can write    *)
(* to.                                                                      *)
LEMMA StartCallAlone ==
    ASSUME AloneInv, NEW g, Caller = {g}, StartCall(g)
    PROVE  AloneInv' /\ ContractStep
<1>1. IInv'
  BY StartCallTypes DEF AloneInv
<1>2. /\ pc[g] = "idle" /\ pc'[g] = "begin"
      /\ calls \in Nat /\ calls' = calls + 1 /\ calls' \in Call
      /\ call'[g] = calls'
  BY ProducerAssumption DEF AloneInv, IInv, TypeOK, StartCall, Call
<1>3. NoResultYet'
  <2>1. result'[call'[g]] = "none"
    BY <1>2 DEF StartCall, AloneInv, NoResultYet
  <2>2. \A c \in Call : c > calls' => result'[c] = "none"
    BY <1>2 DEF StartCall, AloneInv, NoResultYet, Call
  <2>3. QED BY <2>1, <2>2 DEF NoResultYet, Call
<1>4. QED
  BY <1>1, <1>2, <1>3
  DEF AloneInv, StartCall, OwnTransaction, RequestedByOwnCall, brokerVars,
      mainVars, VisibleOnlyAfterOwnCommit, ContractStep

LEMMA BeginAlone ==
    ASSUME AloneInv, NEW g, Caller = {g},
           BeginOk(g) \/ BeginAgain(g) \/ BeginFallsThrough(g)
    PROVE  AloneInv' /\ ContractStep
<1>1. IInv'
  BY BeginTypes DEF AloneInv
<1>2. /\ pc[g] = "begin"
      /\ pc'[g] \in {"begin", "produce"}
      /\ UNCHANGED <<started, call, calls, result, open, requested, visible,
                     committing>>
  BY EnterMeans
  DEF AloneInv, BeginOk, BeginAgain, BeginFallsThrough, Again, brokerVars,
      mainVars, Enter
<1>3. \/ txn = "ready" /\ txn' = "inTxn" /\ pc'[g] = "produce"
      \/ txn' = txn /\ txn # "inTxn"
  BY <1>2, EnterMeans
  DEF AloneInv, OwnTransaction, BeginOk, BeginAgain, BeginFallsThrough,
      brokerVars
<1>4. NoResultYet'
  BY <1>2, NothingReturned
<1>5. QED
  BY <1>1, <1>2, <1>3, <1>4
  DEF AloneInv, OwnTransaction, RequestedByOwnCall, VisibleOnlyAfterOwnCommit,
      ContractStep

(* The message goes into a transaction that holds no other.                 *)
LEMMA ProduceOkAlone ==
    ASSUME AloneInv, NEW g, Caller = {g}, ProduceOk(g)
    PROVE  AloneInv' /\ ContractStep
<1>1. IInv'
  BY ProduceTypes DEF AloneInv
<1>2. /\ pc[g] = "produce" /\ pc'[g] = "await"
      /\ txn = "inTxn" /\ txn' = txn
      /\ UNCHANGED <<started, call, calls, result, requested, visible,
                     committing>>
  BY EnterMeans DEF AloneInv, ProduceOk
<1>3. open' = {call[g]}
  BY DEF AloneInv, OwnTransaction, ProduceOk
<1>4. result[call[g]] = "none"
  BY <1>2, AloneInHand
<1>5. NoResultYet'
  BY <1>2, NothingReturned
<1>6. QED
  BY <1>1, <1>2, <1>3, <1>4, <1>5
  DEF AloneInv, OwnTransaction, RequestedByOwnCall, VisibleOnlyAfterOwnCommit,
      ContractStep

LEMMA ProduceFailsAlone ==
    ASSUME AloneInv, NEW g, Caller = {g}, ProduceAgain(g) \/ ProduceRefused(g)
    PROVE  AloneInv' /\ ContractStep
<1>1. IInv'
  BY ProduceTypes DEF AloneInv
<1>2. /\ pc[g] = "produce" /\ pc'[g] \in {"produce", "abort"}
      /\ UNCHANGED <<started, call, calls, result, txn, open, requested,
                     visible, committing>>
  BY EnterMeans
  DEF AloneInv, ProduceAgain, ProduceRefused, Again, mainVars, brokerVars
<1>3. NoResultYet'
  BY <1>2, NothingReturned
<1>4. QED
  BY <1>1, <1>2, <1>3
  DEF AloneInv, OwnTransaction, RequestedByOwnCall, VisibleOnlyAfterOwnCommit,
      ContractStep

LEMMA AwaitAlone ==
    ASSUME AloneInv, NEW g, Caller = {g}, AwaitOk(g) \/ AwaitFailed(g)
    PROVE  AloneInv' /\ ContractStep
<1>1. IInv'
  BY AwaitTypes DEF AloneInv
<1>2. /\ pc[g] = "await"
      /\ \/ pc'[g] = "commit" /\ committing' = committing \cup {call[g]}
         \/ pc'[g] = "abort" /\ committing' = committing
      /\ UNCHANGED <<started, call, calls, result, txn, open, requested,
                     visible>>
  BY EnterMeans DEF AloneInv, AwaitOk, AwaitFailed, brokerVars
<1>3. NoResultYet'
  BY <1>2, NothingReturned
<1>4. QED
  BY <1>1, <1>2, <1>3
  DEF AloneInv, OwnTransaction, RequestedByOwnCall, VisibleOnlyAfterOwnCommit,
      ContractStep

-----------------------------------------------------------------------------
(* What a commit makes visible is the message of its own call.              *)
LEMMA CommitOkAlone ==
    ASSUME AloneInv, NEW g, Caller = {g}, CommitOk(g)
    PROVE  AloneInv' /\ ContractStep
<1>1. IInv'
  BY CommitTypes DEF AloneInv
<1>2. PICK c \in Call : c = call[g]
  BY AloneInHand DEF CommitOk
<1>3. c \in 1 .. calls /\ result[c] = "none"
  BY <1>2, AloneInHand DEF CommitOk
<1>4. /\ pc'[g] = "idle"
      /\ UNCHANGED <<started, calls>>
      /\ result' = [result EXCEPT ![c] = "nil"]
      /\ \A d \in Call \ {c} : result'[d] = result[d]
  BY <1>2, ReturnMeans DEF AloneInv, CommitOk
<1>5. c \in committing /\ visible' = visible \cup {c}
  BY <1>2 DEF AloneInv, OwnTransaction, CommitOk
<1>6. ContractStep
  <2>1. Contract!ReturnNil(c)
    BY <1>3, <1>4, <1>5 DEF Contract!ReturnNil
  <2>2. QED BY <1>2, <2>1 DEF ContractStep, Contract!Next, Contract!Call, Call
<1>7. NoResultYet'
  <2>1. \A d \in Call : d > calls => d # c
    BY <1>3 DEF AloneInv, IInv, TypeOK, Call
  <2>2. Call' = Call
    BY DEF Call
  <2>3. QED BY <1>4, <2>1, <2>2 DEF AloneInv, NoResultYet
<1>8. txn' = "ready" /\ open' = {} /\ ~requested' /\ committing' = committing
  BY DEF CommitOk
<1>9. started
  BY DEF AloneInv, OwnTransaction, CommitOk
<1>10. QED
  BY <1>1, <1>4, <1>5, <1>6, <1>7, <1>8, <1>9
  DEF AloneInv, OwnTransaction, RequestedByOwnCall, VisibleOnlyAfterOwnCommit

(* One that is not answered may become visible later, but not with the      *)
(* result nil.                                                              *)
LEMMA CommitFailsAlone ==
    ASSUME AloneInv, NEW g, Caller = {g}, CommitTimesOut(g) \/ CommitRefused(g)
    PROVE  AloneInv' /\ ContractStep
<1>1. IInv'
  BY CommitTypes DEF AloneInv
<1>2. /\ pc[g] = "commit" /\ UNCHANGED <<open, visible, committing>>
      /\ \/ Return(g, "error")
         \/ Again(g)
  BY DEF CommitTimesOut, CommitRefused, CommitFailed, CommitGivesUp, brokerVars
<1>3. PICK c \in Call : c = call[g]
  BY <1>2, AloneInHand
<1>4. open = {c} /\ c \in committing
  BY <1>2, <1>3 DEF AloneInv, OwnTransaction
<1>5. \/ txn' = "committing" /\ requested'
      \/ UNCHANGED <<txn, requested>> /\ txn # "inTxn"
  BY DEF CommitTimesOut, CommitRefused, brokerVars
<1>6. txn # "none" /\ started /\ txn # "ready"
  BY <1>4 DEF AloneInv, OwnTransaction
<1>7. CASE Return(g, "error")
  <2>1. ContractStep /\ NoResultYet'
    BY <1>2, <1>7, ErrorReturned
  <2>2. /\ pc'[g] = "idle" /\ UNCHANGED started
        /\ result'[c] = "error"
    BY <1>3, <1>7, ReturnMeans DEF AloneInv
  <2>3. QED
    BY <1>1, <1>2, <1>4, <1>5, <1>6, <2>1, <2>2
    DEF AloneInv, OwnTransaction, RequestedByOwnCall, VisibleOnlyAfterOwnCommit
<1>8. CASE Again(g)
  <2>1. UNCHANGED <<started, pc, call, calls, result>>
    BY <1>8 DEF Again, mainVars
  <2>2. NoResultYet'
    BY <2>1, NothingReturned
  <2>3. QED
    BY <1>1, <1>2, <1>4, <1>5, <1>6, <2>1, <2>2
    DEF AloneInv, OwnTransaction, RequestedByOwnCall, VisibleOnlyAfterOwnCommit,
        ContractStep
<1>9. QED BY <1>2, <1>7, <1>8

-----------------------------------------------------------------------------
(* A call that is given up leaves its transaction ended, or in a state in   *)
(* which nothing can be added to it or asked of it.                         *)
LEMMA GivenUpAlone ==
    ASSUME AloneInv, NEW g, Caller = {g},
           \/ BeginError(g) \/ AbortOk(g) \/ AbortTimesOut(g) \/ Recreate(g)
    PROVE  AloneInv' /\ ContractStep
<1>1. IInv'
  BY BeginTypes, AbortTypes DEF AloneInv
<1>2. /\ pc[g] \in {"begin", "abort", "recreate"}
      /\ Return(g, "error")
      /\ UNCHANGED <<visible, committing>>
  BY DEF BeginError, AbortOk, AbortTimesOut, Recreate, brokerVars
<1>3. ContractStep /\ NoResultYet'
  BY <1>2, ErrorReturned
<1>4. PICK c \in Call : c = call[g]
  BY <1>2, AloneInHand
<1>5. /\ pc'[g] = "idle" /\ UNCHANGED started
      /\ result'[c] = "error"
      /\ \A d \in Call \ {c} : result'[d] = result[d]
  BY <1>2, <1>4, ReturnMeans DEF AloneInv
<1>6. open' \subseteq open /\ open \subseteq Call
  BY DEF BeginError, AbortOk, AbortTimesOut, Recreate, brokerVars, AloneInv,
         IInv, TypeOK
<1>7. \A d \in open' : result'[d] # "nil"
  BY <1>5, <1>6 DEF AloneInv, RequestedByOwnCall
<1>8. \/ txn' = "ready" /\ open' = {} /\ ~requested'
      \/ UNCHANGED <<txn, open, requested>> /\ txn # "inTxn"
      \/ /\ txn' = "aborting" /\ ~requested'
         /\ UNCHANGED open
  <2>1. requested => txn \in {"committing", "fatal", "closed"}
    BY DEF AloneInv, RequestedByOwnCall
  <2>2. CASE BeginError(g)
    BY <2>2 DEF BeginError, brokerVars
  <2>3. CASE AbortOk(g)
    BY <2>1, <2>3 DEF AbortOk
  <2>4. CASE AbortTimesOut(g)
    BY <2>1, <2>4 DEF AbortTimesOut
  <2>5. CASE Recreate(g)
    BY <2>5 DEF Recreate, AloneInv, OwnTransaction
  <2>6. QED BY <2>2, <2>3, <2>4, <2>5
<1>9. started
  BY <1>2 DEF AloneInv, OwnTransaction
<1>10. QED
  BY <1>1, <1>2, <1>3, <1>5, <1>7, <1>8, <1>9
  DEF AloneInv, OwnTransaction, RequestedByOwnCall, VisibleOnlyAfterOwnCommit

LEMMA AbortRefusedAlone ==
    ASSUME AloneInv, NEW g, Caller = {g}, AbortRefused(g)
    PROVE  AloneInv' /\ ContractStep
<1>1. IInv'
  BY AbortTypes DEF AloneInv
<1>2. /\ pc[g] = "abort" /\ pc'[g] = "recreate"
      /\ txn # "none" /\ txn' = "closed"
      /\ UNCHANGED <<started, call, calls, result, open, requested, visible,
                     committing>>
  BY EnterMeans DEF AloneInv, AbortRefused
<1>3. NoResultYet'
  BY <1>2, NothingReturned
<1>4. QED
  BY <1>1, <1>2, <1>3
  DEF AloneInv, OwnTransaction, RequestedByOwnCall, VisibleOnlyAfterOwnCommit,
      ContractStep

-----------------------------------------------------------------------------
(* A report changes no message's fate.                                      *)
LEMMA ReportAlone ==
    ASSUME AloneInv, NEW g, Caller = {g}, NEW c \in Call, Report(c)
    PROVE  AloneInv' /\ ContractStep
<1>1. IInv'
  BY BrokerTypes DEF AloneInv
<1>2. /\ \/ UNCHANGED txn
         \/ txn = "inTxn" /\ txn' = "abortable"
      /\ UNCHANGED <<started, pc, call, calls, result, open, requested, visible,
                     committing>>
  BY DEF Report, Delivered, NotDelivered, callerVars, mainVars
<1>3. NoResultYet'
  BY <1>2, NothingReturned
<1>4. QED
  BY <1>1, <1>2, <1>3
  DEF AloneInv, OwnTransaction, RequestedByOwnCall, VisibleOnlyAfterOwnCommit,
      ContractStep

(* The late effect of a commit is that one message becomes visible, of a    *)
(* call without a nil.                                                      *)
LEMMA BrokerCommitsAlone ==
    ASSUME AloneInv, NEW g, Caller = {g}, BrokerCommits
    PROVE  AloneInv' /\ ContractStep
<1>1. IInv'
  BY BrokerTypes DEF AloneInv
<1>2. UNCHANGED <<started, pc, call, calls, result, txn, open, requested,
                  committing>>
  BY DEF BrokerCommits, callerVars, mainVars
<1>3. PICK c \in committing : open = {c}
  BY DEF AloneInv, RequestedByOwnCall, BrokerCommits
<1>4. c \in Call /\ result[c] \in {"none", "error"}
  BY <1>3 DEF AloneInv, IInv, TypeOK, RequestedByOwnCall
<1>5. c \notin visible /\ visible' = visible \cup {c}
  BY <1>3 DEF BrokerCommits
<1>6. Contract!BecomeVisible(c)
  BY <1>2, <1>4, <1>5 DEF Contract!BecomeVisible
<1>7. ContractStep
  BY <1>4, <1>6 DEF ContractStep, Contract!Next, Contract!Call, Call
<1>8. NoResultYet'
  BY <1>2, NothingReturned
<1>9. QED
  BY <1>1, <1>2, <1>3, <1>5, <1>7, <1>8
  DEF AloneInv, OwnTransaction, RequestedByOwnCall, VisibleOnlyAfterOwnCommit

LEMMA BrokerFailsAlone ==
    ASSUME AloneInv, NEW g, Caller = {g}, BrokerRefuses \/ FatalError
    PROVE  AloneInv' /\ ContractStep
<1>1. IInv'
  BY BrokerTypes DEF AloneInv
<1>2. /\ txn # "none"
      /\ UNCHANGED <<started, pc, call, calls, result, open, visible, committing>>
      /\ \/ txn' = "abortable" /\ ~requested'
         \/ txn' = "fatal" /\ UNCHANGED requested
  BY DEF BrokerRefuses, FatalError, callerVars, mainVars
<1>3. NoResultYet'
  BY <1>2, NothingReturned
<1>4. QED
  BY <1>1, <1>2, <1>3
  DEF AloneInv, OwnTransaction, RequestedByOwnCall, VisibleOnlyAfterOwnCommit,
      ContractStep

(* The calls of a process that died stay without a result.                  *)
LEMMA RestartAlone ==
    ASSUME AloneInv, NEW g, Caller = {g}, Restart
    PROVE  AloneInv' /\ ContractStep
<1>1. IInv'
  BY RestartTypes DEF AloneInv
<1>2. /\ pc'[g] = "idle" /\ txn' = "none" /\ open' = {} /\ ~requested'
      /\ UNCHANGED <<calls, result, visible, committing>>
  BY DEF Restart
<1>3. NoResultYet'
  BY <1>2, NothingReturned
<1>4. QED
  BY <1>1, <1>2, <1>3
  DEF AloneInv, OwnTransaction, RequestedByOwnCall, VisibleOnlyAfterOwnCommit,
      ContractStep

LEMMA StutterAlone ==
    ASSUME AloneInv, NEW g, Caller = {g}, UNCHANGED vars
    PROVE  AloneInv' /\ ContractStep
<1>1. UNCHANGED <<initOnce, started, txn, open, requested, report, visible, pc,
                  tries, call, calls, result, committing>>
  BY DEF vars, brokerVars, callerVars, mainVars
<1>2. IInv'
  BY <1>1 DEF AloneInv, IInv, TypeOK, InACall
<1>3. NoResultYet'
  BY <1>1, NothingReturned
<1>4. QED
  BY <1>1, <1>2, <1>3
  DEF AloneInv, OwnTransaction, RequestedByOwnCall, VisibleOnlyAfterOwnCommit,
      ContractStep

LEMMA PublishStepAlone ==
    ASSUME AloneInv, NEW g, Caller = {g}, PublishStep(g)
    PROVE  AloneInv' /\ ContractStep
<1>1. CASE BeginOk(g) \/ BeginAgain(g) \/ BeginFallsThrough(g)
  BY <1>1, BeginAlone
<1>2. CASE ProduceOk(g) \/ ProduceAgain(g) \/ ProduceRefused(g)
  BY <1>2, ProduceOkAlone, ProduceFailsAlone
<1>3. CASE AwaitOk(g) \/ AwaitFailed(g)
  BY <1>3, AwaitAlone
<1>4. CASE CommitOk(g) \/ CommitTimesOut(g) \/ CommitRefused(g)
  BY <1>4, CommitOkAlone, CommitFailsAlone
<1>5. CASE BeginError(g) \/ AbortOk(g) \/ AbortTimesOut(g) \/ Recreate(g)
  BY <1>5, GivenUpAlone
<1>6. CASE AbortRefused(g)
  BY <1>6, AbortRefusedAlone
<1>7. CASE BeginPanics(g)
  BY <1>7, RestartAlone DEF BeginPanics
<1>8. QED BY <1>1, <1>2, <1>3, <1>4, <1>5, <1>6, <1>7 DEF PublishStep

LEMMA EveryStepAlone ==
    ASSUME AloneInv, NEW g, Caller = {g}, [Next]_vars
    PROVE  AloneInv' /\ ContractStep
<1>1. CASE Start
  BY <1>1, StartAlone
<1>2. CASE \E h \in Caller : StartCall(h) \/ PublishStep(h)
  BY <1>2, StartCallAlone, PublishStepAlone
<1>3. CASE \E c \in Call : Report(c)
  BY <1>3, ReportAlone
<1>4. CASE BrokerCommits
  BY <1>4, BrokerCommitsAlone
<1>5. CASE BrokerRefuses \/ FatalError
  BY <1>5, BrokerFailsAlone
<1>6. CASE Restart
  BY <1>6, RestartAlone
<1>7. CASE UNCHANGED vars
  BY <1>7, StutterAlone
<1>8. QED BY <1>1, <1>2, <1>3, <1>4, <1>5, <1>6, <1>7 DEF Next

LEMMA InitAlone ==
    ASSUME Init
    PROVE  AloneInv /\ Contract!Init
<1>1. IInv
  BY InitTypes
<1>2. QED
  BY <1>1
  DEF Init, AloneInv, NoResultYet, OwnTransaction, RequestedByOwnCall,
      VisibleOnlyAfterOwnCommit, Contract!Init, Contract!Call, Call

-----------------------------------------------------------------------------
(* With one caller, for any number of calls, faults of the broker, restarts *)
(* and start-ups.                                                           *)
THEOREM AloneInvariance ==
    ASSUME NEW g, Caller = {g}
    PROVE  Spec => []AloneInv
<1>1. Init => AloneInv
  BY InitAlone
<1>2. AloneInv /\ [Next]_vars => AloneInv'
  BY EveryStepAlone
<1>3. QED BY <1>1, <1>2, PTL DEF Spec

(* No message rides along in the transaction of a later call.               *)
THEOREM OwnCommit ==
    ASSUME NEW g, Caller = {g}
    PROVE  Spec => []VisibleOnlyAfterOwnCommit
<1>1. AloneInv => VisibleOnlyAfterOwnCommit
  BY DEF AloneInv
<1>2. QED BY <1>1, AloneInvariance, PTL

(* PublishToKafka keeps PublishContract: no nil without a visible message,  *)
(* one result for a call, one message at a time.                            *)
THEOREM Refinement ==
    ASSUME NEW g, Caller = {g}
    PROVE  Spec => ImplementsContract
<1>1. AloneInv /\ [Next]_vars => [Contract!Next]_<<result, visible>>
  BY EveryStepAlone DEF ContractStep
<1>2. Init => Contract!Init
  BY InitAlone
<1>3. QED BY <1>1, <1>2, AloneInvariance, PTL
      DEF Spec, ImplementsContract, Contract!Spec

=============================================================================
