------------------------ MODULE ContentProducerProofs ------------------------
(***************************************************************************)
(* Proofs about the content producer: for any topics, listings, budget of  *)
(* requests and number of faults, a post is marked only when readers of    *)
(* the topic see it, and comes to them twice only for a cause of its own.  *)
(***************************************************************************)
EXTENDS ContentProducer, TLAPS

(* The count of faults keeps its bound.                                     *)
LEMMA FaultCount ==
    ASSUME TypeOK, Fault \/ UNCHANGED faults
    PROVE  faults' \in 0 .. MaxFaults
BY ContentAssumption DEF TypeOK, Fault

(* What RedditClient's part of the state is left to be by its operators.    *)
LEMMA RedditStep ==
    ASSUME RedditTypeOK,
           \/ UNCHANGED redditVars
           \/ Answered \/ RequestAgain \/ RequestsUsedUp
           \/ Outage \/ Recovery \/ TokenExpires \/ WindowEnds
    PROVE  RedditTypeOK'
BY RedditAssumption
DEF RedditTypeOK, redditVars, Answered, RequestAgain, RequestsUsedUp, Outage,
    Recovery, TokenExpires, WindowEnds, NotAnswered, RateLimited, Unauthorized,
    Unanswered, Header, MAX_RETRIES

(* A page is a sequence of posts, and there is one at every place the       *)
(* cursor can be.                                                           *)
LEMMA Pages ==
    ASSUME NEW t \in Topic
    PROVE  /\ Listing[t] \in Seq(Seq(Post))
           /\ Len(Listing[t]) \in Nat \ {0}
           /\ \A n \in 1 .. Len(Listing[t]) : Listing[t][n] \in Seq(Post)
<1>1. Listing[t] \in Seq(Seq(Post)) \ {<<>>}
  BY ContentAssumption
<1>2. QED BY <1>1

(* The key of a post in hand.                                               *)
LEMMA DedupeKeyType ==
    ASSUME TypeOK, posts # <<>>
    PROVE  dedupeKey \in Key
<1>1. Head(posts) \in Post
  BY DEF TypeOK
<1>2. QED BY <1>1 DEF TypeOK, dedupeKey, Key

-----------------------------------------------------------------------------
(* A step that neither begins nor ends with a post being published, and     *)
(* leaves what is known of the keys alone, has only types to keep.          *)
LEMMA NoPostAtHand ==
    ASSUME IInv, TypeOK',
           UNCHANGED <<processed, copies, cause>>,
           pc \notin {"publish", "mark"}, pc' \notin {"publish", "mark"}
    PROVE  IInv'
BY DEF IInv, PostInHand, MarkFollowsPublish, CauseBeforePublish,
       PublishedIsAccountedFor, MarkedWasPublished, RepublishedHasACause

(* Nor has one that leaves the loop where it is.                            *)
LEMMA SamePost ==
    ASSUME IInv, TypeOK', UNCHANGED elsewhere
    PROVE  IInv'
BY DEF IInv, PostInHand, MarkFollowsPublish, CauseBeforePublish, dedupeKey,
       PublishedIsAccountedFor, MarkedWasPublished, RepublishedHasACause,
       elsewhere, storeVars

LEMMA StartFetchStep == ASSUME IInv, StartFetch PROVE IInv'
<1>1. TypeOK'
  BY RedditStep DEF IInv, TypeOK, StartFetch, storeVars
<1>2. QED BY <1>1, NoPostAtHand DEF StartFetch, storeVars

LEMMA TopicsErrorStep == ASSUME IInv, TopicsError PROVE IInv'
<1>1. TypeOK'
  BY RedditStep, FaultCount
  DEF IInv, TypeOK, TopicsError, fetchVars, storeVars
<1>2. QED BY <1>1, NoPostAtHand DEF TopicsError, storeVars

LEMMA BeginTopicStep == ASSUME IInv, NEW t \in Topic, BeginTopic(t) PROVE IInv'
<1>1. TypeOK'
  <2>1. 1 \in 1 .. Len(Listing[t])
    BY Pages
  <2>2. QED BY <2>1, RedditStep DEF IInv, TypeOK, BeginTopic, storeVars
<1>2. QED BY <1>1, NoPostAtHand DEF BeginTopic, storeVars

LEMMA EndFetchStep == ASSUME IInv, EndFetch PROVE IInv'
<1>1. TypeOK'
  BY RedditStep DEF IInv, TypeOK, EndFetch, fetchVars, storeVars
<1>2. QED BY <1>1, NoPostAtHand DEF EndFetch, storeVars

(* A page that was had is one of the listing.                               *)
LEMMA FetchOkStep == ASSUME IInv, FetchOk PROVE IInv'
<1>1. TypeOK'
  <2>1. Listing[topic][page] \in Seq(Post)
    BY Pages DEF IInv, TypeOK
  <2>2. QED BY <2>1, RedditStep
          DEF IInv, TypeOK, FetchOk, storeVars, FetchAttempts
<1>2. QED BY <1>1, NoPostAtHand DEF FetchOk, storeVars

(* The three other ends of a request, and a request after another.          *)
LEMMA FetchFailsStep ==
    ASSUME IInv, FetchRequestAgain \/ FetchRetry \/ FetchGiveUp \/ FetchUnparsable
    PROVE  IInv'
<1>1. TypeOK'
  <2>1. RedditTypeOK'
    BY RedditStep
    DEF IInv, TypeOK, FetchRequestAgain, FetchRetry, FetchGiveUp,
        FetchUnparsable, NoPage
  <2>2. faults' \in 0 .. MaxFaults
    BY FaultCount
    DEF IInv, FetchRequestAgain, FetchRetry, FetchGiveUp, FetchUnparsable, NoPage
  <2>3. QED BY <2>1, <2>2
          DEF IInv, TypeOK, FetchRequestAgain, FetchRetry, FetchGiveUp,
              FetchUnparsable, storeVars, FetchAttempts
<1>2. QED BY <1>1, NoPostAtHand
      DEF FetchRequestAgain, FetchRetry, FetchGiveUp, FetchUnparsable, storeVars

(* The cursor stays within the listing.                                     *)
LEMMA NextPageStep == ASSUME IInv, NextPage PROVE IInv'
<1>1. TypeOK'
  <2>1. page + 1 \in 1 .. Len(Listing[topic])
    BY Pages DEF IInv, TypeOK, NextPage
  <2>2. QED BY <2>1, RedditStep DEF IInv, TypeOK, NextPage, storeVars
<1>2. QED BY <1>1, NoPostAtHand DEF NextPage, storeVars

LEMMA LastPageStep == ASSUME IInv, LastPage PROVE IInv'
<1>1. TypeOK'
  BY RedditStep DEF IInv, TypeOK, LastPage, fetchVars, storeVars
<1>2. QED BY <1>1, NoPostAtHand DEF LastPage, storeVars

-----------------------------------------------------------------------------
(* What going on to the next post keeps.                                    *)
LEMMA NextPostTypes ==
    ASSUME TypeOK, posts # <<>>, NextPost
    PROVE  /\ pc' \in {"idle", "topic", "fetch", "posts", "publish", "mark"}
           /\ todo' \subseteq Topic
           /\ topic' \in Topic
           /\ page' \in 1 .. Len(Listing[topic'])
           /\ posts' \in Seq(Post)
           /\ attempt' \in 1 .. FetchAttempts
           /\ RedditTypeOK'
<1>1. RedditTypeOK'
  BY RedditStep DEF TypeOK, NextPost
<1>2. posts' \in Seq(Post)
  BY DEF TypeOK, NextPost
<1>3. QED BY <1>1, <1>2 DEF TypeOK, NextPost

(* A post that is left as it is.                                            *)
LEMMA SkipStep ==
    ASSUME IInv, SkipEmpty \/ LookupProcessed
    PROVE  IInv'
<1>1. posts # <<>> /\ NextPost /\ UNCHANGED <<storeVars, faults>>
  BY DEF SkipEmpty, LookupProcessed, ToLookUp
<1>2. TypeOK'
  BY <1>1, NextPostTypes DEF IInv, TypeOK, storeVars
<1>3. QED BY <1>1, <1>2, NoPostAtHand
      DEF SkipEmpty, LookupProcessed, ToLookUp, NextPost, storeVars

(* A post that is not in the set, and has been published all the same, has  *)
(* its cause already: no other post is being marked.                        *)
LEMMA LookupNotProcessedStep ==
    ASSUME IInv, LookupNotProcessed
    PROVE  IInv'
<1>1. TypeOK'
  BY RedditStep
  DEF IInv, TypeOK, LookupNotProcessed, ToLookUp, fetchVars, storeVars
<1>2. dedupeKey \in Key
  BY DedupeKeyType DEF IInv, LookupNotProcessed, ToLookUp
<1>3. copies[dedupeKey] > 0 => dedupeKey \in cause
  BY <1>2 DEF IInv, PublishedIsAccountedFor, LookupNotProcessed, ToLookUp
<1>4. QED
  BY <1>1, <1>3
  DEF IInv, LookupNotProcessed, ToLookUp, fetchVars, storeVars, dedupeKey,
      PostInHand, MarkFollowsPublish, CauseBeforePublish,
      PublishedIsAccountedFor, MarkedWasPublished, RepublishedHasACause

(* A lookup that failed is the cause.                                       *)
LEMMA LookupFailsStep == ASSUME IInv, LookupFails PROVE IInv'
<1>1. dedupeKey \in Key
  BY DedupeKeyType DEF IInv, LookupFails, ToLookUp
<1>2. TypeOK'
  <2>1. RedditTypeOK'
    BY RedditStep DEF IInv, TypeOK, LookupFails, fetchVars
  <2>2. client' \in {"open", "closed"} /\ faults' \in 0 .. MaxFaults
    BY FaultCount DEF IInv, TypeOK, LookupFails, MayRecreateClient
  <2>3. QED BY <1>1, <2>1, <2>2 DEF IInv, TypeOK, LookupFails, fetchVars
<1>3. QED
  BY <1>1, <1>2
  DEF IInv, LookupFails, ToLookUp, fetchVars, dedupeKey,
      PostInHand, MarkFollowsPublish, CauseBeforePublish,
      PublishedIsAccountedFor, MarkedWasPublished, RepublishedHasACause

-----------------------------------------------------------------------------
(* One copy more of a key, and no fewer of another.                         *)
LEMMA OneMoreCopy ==
    ASSUME TypeOK, NEW k \in Key,
           copies' = [copies EXCEPT ![k] = OneMore(@)]
    PROVE  /\ copies' \in [Key -> 0 .. 2]
           /\ copies'[k] > 0
           /\ copies'[k] > 1 => copies[k] > 0
           /\ \A other \in Key \ {k} : copies'[other] = copies[other]
BY DEF TypeOK, OneMore

LEMMA PublishOkStep == ASSUME IInv, PublishOk PROVE IInv'
<1>1. PICK k \in Key : k = dedupeKey
  BY DedupeKeyType DEF IInv, PostInHand, PublishOk
<1>2. dedupeKey' = k
  BY <1>1 DEF dedupeKey, PublishOk, fetchVars
<1>3. /\ copies' \in [Key -> 0 .. 2]
      /\ copies'[k] > 0
      /\ copies'[k] > 1 => copies[k] > 0
      /\ \A other \in Key \ {k} : copies'[other] = copies[other]
  BY <1>1, OneMoreCopy DEF IInv, PublishOk
<1>4. TypeOK'
  BY <1>3, RedditStep DEF IInv, TypeOK, PublishOk, fetchVars
<1>5. QED
  BY <1>1, <1>2, <1>3, <1>4
  DEF IInv, TypeOK, PublishOk, fetchVars, PostInHand, MarkFollowsPublish,
      CauseBeforePublish, PublishedIsAccountedFor, MarkedWasPublished,
      RepublishedHasACause

(* A publish that reported an error either did nothing, or is itself the    *)
(* cause why its post will come again.                                      *)
LEMMA PublishFailsStep == ASSUME IInv, PublishFails PROVE IInv'
<1>1. PICK k \in Key : k = dedupeKey
  BY DedupeKeyType DEF IInv, PostInHand, PublishFails
<1>2. \/ UNCHANGED <<copies, cause>>
      \/ /\ copies' \in [Key -> 0 .. 2]
         /\ copies'[k] > 0
         /\ \A other \in Key \ {k} : copies'[other] = copies[other]
         /\ cause' = cause \cup {k}
  BY <1>1, OneMoreCopy DEF IInv, PublishFails
<1>3. TypeOK'
  <2>1. NextPost /\ posts # <<>>
    BY DEF IInv, PostInHand, PublishFails
  <2>2. copies' \in [Key -> 0 .. 2] /\ cause' \subseteq Key
    BY <1>2 DEF IInv, TypeOK
  <2>3. QED BY <2>1, <2>2, NextPostTypes, FaultCount
          DEF IInv, TypeOK, PublishFails
<1>4. pc' = "posts" /\ pc = "publish" /\ UNCHANGED processed
  BY DEF PublishFails, NextPost
<1>5. QED
  BY <1>1, <1>2, <1>3, <1>4
  DEF IInv, TypeOK, PostInHand, MarkFollowsPublish,
      CauseBeforePublish, PublishedIsAccountedFor, MarkedWasPublished,
      RepublishedHasACause

(* A broken producer refuses the post, which is left to the next fetch.     *)
LEMMA PublishRefusedStep == ASSUME IInv, PublishRefused PROVE IInv'
<1>1. /\ posts # <<>> /\ NextPost /\ UNCHANGED <<storeVars, faults>>
      /\ pc = "publish" /\ pc' = "posts"
  BY DEF IInv, PostInHand, PublishRefused, NextPost
<1>2. TypeOK'
  BY <1>1, NextPostTypes DEF IInv, TypeOK, storeVars
<1>3. QED
  BY <1>1, <1>2
  DEF IInv, storeVars, PostInHand, MarkFollowsPublish, CauseBeforePublish,
      PublishedIsAccountedFor, MarkedWasPublished, RepublishedHasACause

(* A mark, or the cause that replaces it, is of the post that was published. *)
LEMMA MarkStep == ASSUME IInv, MarkOk \/ MarkFails PROVE IInv'
<1>1. PICK k \in Key : k = dedupeKey
  BY DedupeKeyType DEF IInv, PostInHand, MarkOk, MarkFails
<1>2. \/ processed' = processed \cup {k} /\ cause' = cause
      \/ processed' = processed /\ cause' = cause \cup {k}
  BY <1>1 DEF MarkOk, MarkFails
<1>3. TypeOK'
  <2>1. NextPost /\ posts # <<>>
    BY DEF IInv, PostInHand, MarkOk, MarkFails
  <2>2. processed' \subseteq Key /\ cause' \subseteq Key
    BY <1>2 DEF IInv, TypeOK
  <2>3. client' \in {"open", "closed"} /\ faults' \in 0 .. MaxFaults
    BY FaultCount DEF IInv, TypeOK, MarkOk, MarkFails, MayRecreateClient
  <2>4. copies' = copies /\ producer' = producer
    BY DEF MarkOk, MarkFails
  <2>5. QED BY <2>1, <2>2, <2>3, <2>4, NextPostTypes DEF IInv, TypeOK
<1>4. pc' = "posts" /\ pc = "mark" /\ UNCHANGED copies
  BY DEF MarkOk, MarkFails, NextPost
<1>5. copies[k] > 0
  BY <1>1, <1>4 DEF IInv, MarkFollowsPublish
<1>6. QED
  BY <1>1, <1>2, <1>3, <1>4, <1>5
  DEF IInv, PostInHand, MarkFollowsPublish, CauseBeforePublish,
      PublishedIsAccountedFor, MarkedWasPublished, RepublishedHasACause

-----------------------------------------------------------------------------
(* A process that ends between publish and mark is a cause.                 *)
LEMMA RestartStep == ASSUME IInv, Restart PROVE IInv'
<1>1. pc = "mark" => dedupeKey \in Key
  BY DedupeKeyType DEF IInv, PostInHand
<1>2. TypeOK'
  <2>1. RedditTypeOK'
    BY DEF IInv, TypeOK, RedditTypeOK, Restart, MAX_RETRIES
  <2>2. 1 \in 1 .. Len(Listing[topic])
    BY Pages DEF IInv, TypeOK
  <2>3. posts' \in Seq(Post)
    BY DEF Restart
  <2>4. cause' \subseteq Key
    BY <1>1 DEF IInv, TypeOK, Restart
  <2>5. QED BY <2>1, <2>2, <2>3, <2>4,
             FaultCount DEF IInv, TypeOK, Restart, FetchAttempts
<1>3. QED
  BY <1>1, <1>2
  DEF IInv, Restart, PostInHand, MarkFollowsPublish, CauseBeforePublish,
      PublishedIsAccountedFor, MarkedWasPublished, RepublishedHasACause

(* So is the end of the set, for every key that was in it.                  *)
LEMMA ExpireStep == ASSUME IInv, Expire PROVE IInv'
<1>1. TypeOK'
  BY RedditStep DEF IInv, TypeOK, Expire, fetchVars
<1>2. dedupeKey' = dedupeKey
  BY DEF Expire, fetchVars, dedupeKey
<1>3. QED
  BY <1>1, <1>2
  DEF IInv, Expire, fetchVars, PostInHand, MarkFollowsPublish,
      CauseBeforePublish, PublishedIsAccountedFor, MarkedWasPublished,
      RepublishedHasACause

LEMMA RedditChangesStep == ASSUME IInv, RedditChanges PROVE IInv'
<1>1. UNCHANGED elsewhere /\ faults' \in 0 .. MaxFaults
  BY FaultCount
  DEF IInv, RedditChanges, RedditFails, RedditRecovers, BudgetRenewed
<1>2. RedditTypeOK'
  BY RedditStep
  DEF IInv, TypeOK, RedditChanges, RedditFails, RedditRecovers, BudgetRenewed
<1>3. TypeOK'
  BY <1>1, <1>2 DEF IInv, TypeOK, elsewhere, storeVars
<1>4. QED BY <1>1, <1>3, SamePost

-----------------------------------------------------------------------------
(* IInv holds in every state of every behaviour.                            *)
THEOREM Invariance == Spec => []IInv
<1>1. Init => IInv
  <2>1. SUFFICES ASSUME Init PROVE IInv
    OBVIOUS
  <2>2. RedditTypeOK
    BY <2>1, RedditAssumption DEF Init, RedditInit, RedditTypeOK, MAX_RETRIES
  <2>3. page \in 1 .. Len(Listing[topic])
    BY <2>1, Pages DEF Init
  <2>4. TypeOK
    BY <2>1, <2>2, <2>3, ContentAssumption DEF Init, TypeOK, FetchAttempts
  <2>5. QED
    BY <2>1, <2>4
    DEF Init, IInv, PostInHand, MarkFollowsPublish, CauseBeforePublish,
        PublishedIsAccountedFor, MarkedWasPublished, RepublishedHasACause
<1>2. IInv /\ [Next]_vars => IInv'
  <2>1. SUFFICES ASSUME IInv, [Next]_vars PROVE IInv'
    OBVIOUS
  <2>2. CASE Fetch
    BY <2>1, <2>2, StartFetchStep, TopicsErrorStep, BeginTopicStep, EndFetchStep,
       FetchOkStep, FetchFailsStep, NextPageStep, LastPageStep DEF Fetch
  <2>3. CASE ProcessPost
    BY <2>1, <2>3, SkipStep, LookupNotProcessedStep, LookupFailsStep,
       PublishOkStep, PublishFailsStep, PublishRefusedStep, MarkStep DEF ProcessPost
  <2>4. CASE RedditChanges
    BY <2>1, <2>4, RedditChangesStep
  <2>5. CASE Restart
    BY <2>1, <2>5, RestartStep
  <2>6. CASE Expire
    BY <2>1, <2>6, ExpireStep
  <2>7. CASE UNCHANGED vars
    <3>1. TypeOK'
      BY <2>1, <2>7, RedditStep DEF IInv, TypeOK, vars, fetchVars, storeVars
    <3>2. UNCHANGED elsewhere
      BY <2>7 DEF vars, fetchVars, storeVars, elsewhere
    <3>3. QED BY <2>1, <3>1, <3>2, SamePost
  <2>8. QED BY <2>1, <2>2, <2>3, <2>4, <2>5, <2>6, <2>7 DEF Next
<1>3. QED BY <1>1, <1>2, PTL DEF Spec

(* Every reachable state is well typed: the cursor is within the listing    *)
(* and neither loop tries more often than it may.                           *)
THEOREM TypeCorrect == Spec => []TypeOK
<1>1. IInv => TypeOK
  BY DEF IInv
<1>2. QED BY <1>1, Invariance, PTL

(* Readers of the topic see every post that is in the set.                  *)
THEOREM NoMarkWithoutMessage == Spec => []MarkedWasPublished
<1>1. IInv => MarkedWasPublished
  BY DEF IInv
<1>2. QED BY <1>1, Invariance, PTL

(* A post that comes twice has met a failure of its own.                    *)
THEOREM DuplicatesHaveACause == Spec => []RepublishedHasACause
<1>1. IInv => RepublishedHasACause
  BY DEF IInv
<1>2. QED BY <1>1, Invariance, PTL

=============================================================================
