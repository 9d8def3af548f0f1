---------------------------- MODULE RedditClient ----------------------------
(***************************************************************************)
(* internal/clients/reddit_client.go: doRequestWithBackoff, the loop of    *)
(* five requests behind each page of posts, and what it meets at Reddit: a *)
(* budget of requests per window, a token that expires, an outage.  One    *)
(* goroutine uses the client, so its two worker tokens never run out.      *)
(***************************************************************************)
EXTENDS Integers

CONSTANTS RateLimit     \* requests Reddit grants in one window

(* With a smaller budget every answer says that at most one is left, and    *)
(* none is ever used.                                                       *)
ASSUME RedditAssumption == RateLimit \in Nat /\ RateLimit > 2

VARIABLES
    reddit,      \* "up", or "down": no answer, or an error status
    token,       \* "valid" or "expired"
    remaining,   \* requests left in this window
    request      \* which of its five requests the loop makes

redditVars == <<reddit, token, remaining, request>>

MAX_RETRIES == 5

RedditInit ==
    /\ reddit = "up"
    /\ token = "valid"
    /\ remaining \in 0 .. RateLimit
    /\ request = 1

(* parseRateLimitHeaders: what the header of the next answer says is left,  *)
(* and never less than one.                                                 *)
Header == IF remaining > 1 THEN remaining - 1 ELSE 1

ApproachingLimit == Header <= 1

(* 200, and enough is left: the body is returned.                           *)
Answered ==
    /\ reddit = "up"
    /\ token = "valid"
    /\ ~ApproachingLimit
    /\ remaining' = Header
    /\ request' = 1
    /\ UNCHANGED <<reddit, token>>

(* Otherwise, whatever the status, the answer is thrown away and the loop   *)
(* sleeps until the window ends.                                            *)
RateLimited ==
    /\ reddit = "up"
    /\ token = "valid"
    /\ ApproachingLimit
    /\ remaining' = RateLimit
    /\ UNCHANGED <<reddit, token>>

(* 401, which comes without the headers of the budget: RefreshClient.       *)
Unauthorized ==
    /\ reddit = "up"
    /\ token = "expired"
    /\ token' = "valid"
    /\ UNCHANGED <<reddit, remaining>>

(* No answer, 429 without a header, or another status: back off.            *)
Unanswered ==
    /\ reddit = "down"
    /\ UNCHANGED <<reddit, token, remaining>>

NotAnswered == RateLimited \/ Unauthorized \/ Unanswered

RequestAgain ==
    /\ request < MAX_RETRIES
    /\ NotAnswered
    /\ request' = request + 1

(* "Max retries reached": the caller gets an error.                         *)
RequestsUsedUp ==
    /\ request = MAX_RETRIES
    /\ NotAnswered
    /\ request' = 1

Outage ==
    /\ reddit = "up"
    /\ reddit' = "down"
    /\ UNCHANGED <<token, remaining, request>>

Recovery ==
    /\ reddit = "down"
    /\ reddit' = "up"
    /\ UNCHANGED <<token, remaining, request>>

TokenExpires ==
    /\ token = "valid"
    /\ token' = "expired"
    /\ UNCHANGED <<reddit, remaining, request>>

WindowEnds ==
    /\ remaining < RateLimit
    /\ remaining' = RateLimit
    /\ UNCHANGED <<reddit, token, request>>

RedditTypeOK ==
    /\ reddit \in {"up", "down"}
    /\ token \in {"valid", "expired"}
    /\ remaining \in 0 .. RateLimit
    /\ request \in 1 .. MAX_RETRIES

=============================================================================
