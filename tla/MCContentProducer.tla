-------------------------- MODULE MCContentProducer --------------------------
(* An instance of ContentProducer for TLC.  Topic t1 has two pages, the     *)
(* second of which begins with a post of the first, as pages shift between  *)
(* two requests; a post is found under two topics; one has no text.  The    *)
(* category of t3 is not known.                                             *)
EXTENDS ContentProducer, TLC

CONSTANTS t1, t2, t3, a, b, e

MCTopic == {t1, t2, t3}
MCPost == {a, b, e}
MCNoContent == {e}
MCListing ==
    (t1 :> <<<<a, e>>, <<a, b>>>>) @@ (t2 :> <<<<a>>>>) @@ (t3 :> <<<<b>>>>)
MCCategory == (t1 :> "Sports") @@ (t2 :> "Law") @@ (t3 :> "Weather")
MCCategories == {"Sports", "Law"}

=============================================================================
