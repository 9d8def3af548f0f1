--------------------------- MODULE ContentProducer ---------------------------
(***************************************************************************)
(* cmd/producer and internal/producer/fetch.go, with the Valkey client.    *)
(*                                                                         *)
(* At every tick one goroutine reads the stored topics and, topic by topic *)
(* and page by page, the posts Reddit has on them.  A post is looked up in *)
(* a set in Valkey; if it is not there it is published to "raw-content"    *)
(* and then added to the set.  Lookup, publish and mark are three calls,   *)
(* each of which may fail or be the last of its process, and the set as a  *)
(* whole expires a day after the last mark.                                *)
(***************************************************************************)
EXTENDS RedditClient, Sequences

CONSTANTS
    Topic,        \* the topics stored in DynamoDB
    Category,     \* their categories: Category[t]
    Categories,   \* those the program knows subreddits for
    Post,         \* posts, by ID
    NoContent,    \* those of them that have no text
    Listing,      \* Reddit's answers: Listing[t] is a sequence of pages
    MaxFaults     \* bound on the failures of one behaviour

ASSUME ContentAssumption ==
    /\ \A t \in Topic : Listing[t] \in Seq(Seq(Post)) \ {<<>>}
    /\ NoContent \subseteq Post
    /\ MaxFaults \in Nat

VARIABLES
    pc,          \* where the goroutine is
    todo,        \* the topics this fetch has not begun
    topic,       \* the topic it is at
    page,        \* the page it is at (after)
    posts,       \* the posts of that page it has not finished
    attempt,     \* which of its three attempts to get the page it makes
    client,      \* vc.Client: "open", or "closed" and never replaced
    producer,    \* of Kafka: "works", or "broken" for the process's life
    processed,   \* the set in Valkey, of keys
    copies,      \* how many messages of a key readers of the topic see
    cause,       \* history: the keys that have a reason to come again
    faults       \* failures so far

fetchVars == <<todo, topic, page, posts, attempt, redditVars>>
storeVars == <<client, producer, processed, copies, cause>>
vars == <<pc, fetchVars, storeVars, faults>>

(* dedupeKey, topic:postID, tells apart what the content ID tells apart.    *)
Key == Topic \X Post

dedupeKey == <<topic, Head(posts)>>

FetchAttempts == 3

Fault ==
    /\ faults < MaxFaults
    /\ faults' = faults + 1

(* Two copies of a message stand for two or more.                           *)
OneMore(n) == IF n < 2 THEN n + 1 ELSE n

Init ==
    /\ pc = "idle"
    /\ todo = {}
    /\ topic \in Topic
    /\ page = 1
    /\ posts = <<>>
    /\ attempt = 1
    /\ RedditInit
    /\ client = "open"
    /\ producer = "works"
    /\ processed = {}
    /\ copies = [k \in Key |-> 0]
    /\ cause = {}
    /\ faults = 0

NextPost ==
    /\ posts' = Tail(posts)
    /\ pc' = "posts"
    /\ UNCHANGED <<todo, topic, page, attempt, redditVars>>

-----------------------------------------------------------------------------
(* Mistakes this code could have made.  No action uses them: each stands in *)
(* for the definition its name recalls, to see that a property notices.     *)

(* the cursor stays where it is                                             *)
NextPageFromStart ==
    /\ pc = "posts"
    /\ posts = <<>>
    /\ page < Len(Listing[topic])
    /\ page' = 1
    /\ pc' = "fetch"
    /\ UNCHANGED <<todo, topic, posts, attempt, redditVars, storeVars, faults>>

(* one more call for a page                                                 *)
FetchRetryTooOften ==
    /\ pc = "fetch"
    /\ attempt <= FetchAttempts
    /\ RequestsUsedUp
    /\ attempt' = attempt + 1
    /\ UNCHANGED <<pc, todo, topic, page, posts, storeVars, faults>>

(* a post is marked although it could not be published                      *)
PublishFailsThrough ==
    /\ pc = "publish"
    /\ Fault
    /\ pc' = "mark"
    /\ UNCHANGED <<fetchVars, storeVars>>

(* a post that was published is not marked                                  *)
MarkNever ==
    /\ pc = "mark"
    /\ client = "open"
    /\ NextPost
    /\ UNCHANGED <<storeVars, faults>>

-----------------------------------------------------------------------------
(* FetchRedditContentForTopics.  Topics of other categories are not asked   *)
(* for.                                                                     *)
StartFetch ==
    /\ pc = "idle"
    /\ todo' = {t \in Topic : Category[t] \in Categories}
    /\ pc' = "topic"
    /\ UNCHANGED <<topic, page, posts, attempt, redditVars, storeVars, faults>>

TopicsError ==
    /\ pc = "idle"
    /\ Fault
    /\ UNCHANGED <<pc, fetchVars, storeVars>>

(* The order is that of a Go map and of a table scan: any.                  *)
BeginTopic(t) ==
    /\ pc = "topic"
    /\ t \in todo
    /\ topic' = t
    /\ todo' = todo \ {t}
    /\ page' = 1
    /\ pc' = "fetch"
    /\ UNCHANGED <<posts, attempt, redditVars, storeVars, faults>>

EndFetch ==
    /\ pc = "topic"
    /\ todo = {}
    /\ pc' = "idle"
    /\ UNCHANGED <<fetchVars, storeVars, faults>>

-----------------------------------------------------------------------------
(* A call of the client ends without a page: its requests are used up, or   *)
(* the body of a good answer breaks off, which is not asked for again.      *)
NoPage ==
    \/ RequestsUsedUp /\ UNCHANGED faults
    \/ Answered /\ Fault

(* fetchWithRetries, three calls of RedditClient's loop.  A topic whose page *)
(* cannot be had ends here; so does, without an error, one whose page       *)
(* cannot be parsed: its cursor is "".                                      *)
FetchOk ==
    /\ pc = "fetch"
    /\ Answered
    /\ posts' = Listing[topic][page]
    /\ attempt' = 1
    /\ pc' = "posts"
    /\ UNCHANGED <<todo, topic, page, storeVars, faults>>

FetchRequestAgain ==
    /\ pc = "fetch"
    /\ RequestAgain
    /\ UNCHANGED <<pc, todo, topic, page, posts, attempt, storeVars, faults>>

FetchRetry ==
    /\ pc = "fetch"
    /\ attempt < FetchAttempts
    /\ NoPage
    /\ attempt' = attempt + 1
    /\ UNCHANGED <<pc, todo, topic, page, posts, storeVars>>

FetchGiveUp ==
    /\ pc = "fetch"
    /\ attempt = FetchAttempts
    /\ NoPage
    /\ attempt' = 1
    /\ pc' = "topic"
    /\ UNCHANGED <<todo, topic, page, posts, storeVars>>

FetchUnparsable ==
    /\ pc = "fetch"
    /\ Fault
    /\ Answered
    /\ attempt' = 1
    /\ pc' = "topic"
    /\ UNCHANGED <<todo, topic, page, posts, storeVars>>

NextPage ==
    /\ pc = "posts"
    /\ posts = <<>>
    /\ page < Len(Listing[topic])
    /\ page' = page + 1
    /\ pc' = "fetch"
    /\ UNCHANGED <<todo, topic, posts, attempt, redditVars, storeVars, faults>>

LastPage ==
    /\ pc = "posts"
    /\ posts = <<>>
    /\ page = Len(Listing[topic])
    /\ pc' = "topic"
    /\ UNCHANGED <<fetchVars, storeVars, faults>>

-----------------------------------------------------------------------------
(* processPosts: a post without text, or in the set, is skipped.            *)
SkipEmpty ==
    /\ pc = "posts"
    /\ posts # <<>>
    /\ Head(posts) \in NoContent
    /\ NextPost
    /\ UNCHANGED <<storeVars, faults>>

ToLookUp ==
    /\ pc = "posts"
    /\ posts # <<>>
    /\ Head(posts) \notin NoContent

LookupProcessed ==
    /\ ToLookUp
    /\ client = "open"
    /\ dedupeKey \in processed
    /\ NextPost
    /\ UNCHANGED <<storeVars, faults>>

LookupNotProcessed ==
    /\ ToLookUp
    /\ client = "open"
    /\ dedupeKey \notin processed
    /\ pc' = "publish"
    /\ UNCHANGED <<fetchVars, storeVars, faults>>

(* recreateClient, after a lost connection, closes the client before it has *)
(* another; if it gets none, the panic is recovered and the closed one      *)
(* stays.  A closed client's own error is none that isConnectionError       *)
(* knows, so nothing opens it again.  After other errors it is not called.  *)
MayRecreateClient ==
    /\ client = "open"
    /\ client' \in {"open", "closed"}

(* Any answer but a yes reads as "not processed".                           *)
LookupFails ==
    /\ ToLookUp
    /\ \/ Fault /\ MayRecreateClient
       \/ client = "closed" /\ UNCHANGED <<client, faults>>
    /\ cause' = cause \cup {dedupeKey}
    /\ pc' = "publish"
    /\ UNCHANGED <<fetchVars, producer, processed, copies>>

(* PublishToKafka returned nil: readers see the message.                    *)
PublishOk ==
    /\ pc = "publish"
    /\ producer = "works"
    /\ copies' = [copies EXCEPT ![dedupeKey] = OneMore(@)]
    /\ pc' = "mark"
    /\ UNCHANGED <<fetchVars, client, producer, processed, cause, faults>>

(* It returned an error: they may see it all the same (at once, here: when  *)
(* a copy comes late nothing below depends on the moment).  The failure may *)
(* be the producer's last: a fatal error, a transaction that could only be  *)
(* aborted and was not, a recreation that failed.  The post is left to the  *)
(* next fetch.                                                              *)
PublishFails ==
    /\ pc = "publish"
    /\ producer = "works"
    /\ Fault
    /\ producer' \in {"works", "broken"}
    /\ \/ UNCHANGED <<copies, cause>>
       \/ /\ copies' = [copies EXCEPT ![dedupeKey] = OneMore(@)]
          /\ cause' = cause \cup {dedupeKey}
    /\ NextPost
    /\ UNCHANGED <<client, processed>>

(* Every call of a broken producer ends at BeginTransaction, which neither  *)
(* aborts nor recreates anything: only another process brings one that      *)
(* works.                                                                   *)
PublishRefused ==
    /\ pc = "publish"
    /\ producer = "broken"
    /\ NextPost
    /\ UNCHANGED <<storeVars, faults>>

(* MarkProcessed.  Of its three attempts one was answered.                  *)
MarkOk ==
    /\ pc = "mark"
    /\ client = "open"
    /\ processed' = processed \cup {dedupeKey}
    /\ NextPost
    /\ UNCHANGED <<client, producer, copies, cause, faults>>

(* None was, but one may have reached the server.  The error is logged.     *)
MarkFails ==
    /\ pc = "mark"
    /\ \/ /\ Fault
          /\ MayRecreateClient
          /\ \/ processed' = processed \cup {dedupeKey} /\ UNCHANGED cause
             \/ UNCHANGED processed /\ cause' = cause \cup {dedupeKey}
       \/ /\ client = "closed"
          /\ cause' = cause \cup {dedupeKey}
          /\ UNCHANGED <<client, processed, faults>>
    /\ NextPost
    /\ UNCHANGED <<producer, copies>>

-----------------------------------------------------------------------------
(* A new process has a new client and a new producer; of the old one a post *)
(* may be left that was published and not marked.                           *)
Restart ==
    /\ Fault
    /\ pc' = "idle"
    /\ todo' = {}
    /\ page' = 1
    /\ posts' = <<>>
    /\ attempt' = 1
    /\ request' = 1
    /\ token' = "valid"
    /\ client' = "open"
    /\ producer' = "works"
    /\ cause' = IF pc = "mark" THEN cause \cup {dedupeKey} ELSE cause
    /\ UNCHANGED <<topic, reddit, remaining, processed, copies>>

(* EXPIRE is of the set, not of a key: a day without a mark empties it.     *)
Expire ==
    /\ processed # {}
    /\ processed' = {}
    /\ cause' = cause \cup processed
    /\ UNCHANGED <<pc, fetchVars, client, producer, copies, faults>>

elsewhere == <<pc, todo, topic, page, posts, attempt, storeVars>>

RedditFails ==
    /\ Fault
    /\ Outage \/ TokenExpires
    /\ UNCHANGED elsewhere

RedditRecovers == Recovery /\ UNCHANGED <<elsewhere, faults>>

BudgetRenewed == WindowEnds /\ UNCHANGED <<elsewhere, faults>>

Fetch ==
    \/ StartFetch
    \/ TopicsError
    \/ \E t \in Topic : BeginTopic(t)
    \/ EndFetch
    \/ FetchOk
    \/ FetchRequestAgain
    \/ FetchRetry
    \/ FetchGiveUp
    \/ FetchUnparsable
    \/ NextPage
    \/ LastPage

ProcessPost ==
    \/ SkipEmpty
    \/ LookupProcessed
    \/ LookupNotProcessed
    \/ LookupFails
    \/ PublishOk
    \/ PublishFails
    \/ PublishRefused
    \/ MarkOk
    \/ MarkFails

RedditChanges == RedditFails \/ RedditRecovers \/ BudgetRenewed

Next == Fetch \/ ProcessPost \/ RedditChanges \/ Restart \/ Expire

Spec == Init /\ [][Next]_vars

(* Go runs the goroutine, and the ticker comes again for ever.  An outage    *)
(* ends; a window need not, since the loop itself waits for it.             *)
FairSpec == Spec /\ WF_vars(Fetch \/ ProcessPost) /\ WF_vars(RedditRecovers)

-----------------------------------------------------------------------------
TypeOK ==
    /\ pc \in {"idle", "topic", "fetch", "posts", "publish", "mark"}
    /\ todo \subseteq Topic
    /\ topic \in Topic
    /\ page \in 1 .. Len(Listing[topic])
    /\ posts \in Seq(Post)
    /\ attempt \in 1 .. FetchAttempts
    /\ RedditTypeOK
    /\ client \in {"open", "closed"}
    /\ producer \in {"works", "broken"}
    /\ processed \subseteq Key
    /\ copies \in [Key -> 0 .. 2]
    /\ cause \subseteq Key
    /\ faults \in 0 .. MaxFaults

(* A post in the set is never asked for again while the set lives, so it    *)
(* must be one that readers of the topic see: neither a failed publish nor  *)
(* a crash leaves a key in the set without its message.                     *)
MarkedWasPublished == \A k \in processed : copies[k] > 0

(* A post is published a second time only if something went wrong with it:  *)
(* its publish reported an error and took effect, its mark was lost or its  *)
(* process died before it, the set expired, or a lookup of it failed.  A    *)
(* failure at one post never brings another one back.                       *)
RepublishedHasACause == \A k \in Key : copies[k] > 1 => k \in cause

Wanted ==
    {k \in Key :
        /\ Category[k[1]] \in Categories
        /\ k[2] \notin NoContent
        /\ \E n \in DOMAIN Listing[k[1]] :
              \E i \in DOMAIN Listing[k[1]][n] : Listing[k[1]][n][i] = k[2]}

(* Once failures end, and even with a Valkey client that stays closed,      *)
(* every post with text on any page of any known topic reaches the topic:   *)
(* what a fetch leaves out, the next one finds, also when answers near the  *)
(* end of the budget of requests are thrown away.  One thing stops it: a    *)
(* producer of Kafka that is broken, in a process that nobody restarts.     *)
AllPostsArrive ==
    \/ <>[](producer = "broken")
    \/ \A k \in Wanted : <>(copies[k] > 0)

-----------------------------------------------------------------------------
(* Why the two hold.  The post that is published or marked is the first of  *)
(* those in hand;                                                           *)
PostInHand == pc \in {"publish", "mark"} => posts # <<>>

(* one that is marked has been published;                                   *)
MarkFollowsPublish == pc = "mark" => copies[dedupeKey] > 0

(* one that is published for a second time has its cause by then;           *)
CauseBeforePublish ==
    pc = "publish" /\ copies[dedupeKey] > 0 => dedupeKey \in cause

(* and whatever was published is in the set, or about to be marked, or has  *)
(* a reason not to be.                                                      *)
PublishedIsAccountedFor ==
    \A k \in Key :
        copies[k] > 0 =>
            \/ k \in processed \cup cause
            \/ pc = "mark" /\ k = dedupeKey

(* The inductive invariant of ContentProducerProofs.                        *)
IInv ==
    /\ TypeOK
    /\ PostInHand
    /\ MarkFollowsPublish
    /\ CauseBeforePublish
    /\ PublishedIsAccountedFor
    /\ MarkedWasPublished
    /\ RepublishedHasACause

=============================================================================
