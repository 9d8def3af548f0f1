------------------------ MODULE TopicGeneratorProofs ------------------------
(***************************************************************************)
(* Proofs about the topic generator, for any headlines and categories, any *)
(* sizes of batches and of writes, any answers and any number of runs: the *)
(* writes are ones DynamoDB takes, what the table had is left alone, and   *)
(* every headline is accounted for.                                        *)
(***************************************************************************)
EXTENDS TopicGenerator, SequenceTheorems, FiniteSetTheorems,
        WellFoundedInduction, TLAPS

-----------------------------------------------------------------------------
(* Sequences, as sets of their elements.                                    *)

LEMMA NoElements ==
    ASSUME NEW S
    PROVE  /\ <<>> \in Seq(S) /\ Range(<<>>) = {} /\ IsInjective(<<>>)
           /\ \A s \in Seq(S) : s = <<>> <=> Len(s) = 0
<1>1. <<>> \in Seq(S) /\ Len(<<>>) = 0 /\ DOMAIN <<>> = {}
  OBVIOUS
<1>2. \A s \in Seq(S) : s = <<>> <=> Len(s) = 0
  OBVIOUS
<1>3. Range(<<>>) = {} /\ IsInjective(<<>>)
  BY <1>1 DEF Range, IsInjective
<1>4. QED BY <1>1, <1>2, <1>3

LEMMA OneElementMore ==
    ASSUME NEW S, NEW s \in Seq(S), NEW e \in S
    PROVE  /\ Append(s, e) \in Seq(S)
           /\ Range(Append(s, e)) = Range(s) \cup {e}
<1>1. /\ Append(s, e) \in Seq(S)
      /\ DOMAIN Append(s, e) = 1 .. Len(s) + 1
      /\ \A i \in 1 .. Len(s) : Append(s, e)[i] = s[i]
      /\ Append(s, e)[Len(s) + 1] = e
      /\ DOMAIN s = 1 .. Len(s)
  OBVIOUS
<1>2. QED BY <1>1 DEF Range

(* A sequence that is cut in two: no element is left out, and what is       *)
(* distinct stays so.                                                       *)
LEMMA Cut ==
    ASSUME NEW S, NEW s \in Seq(S), NEW n \in 0 .. Len(s)
    PROVE  /\ SubSeq(s, 1, n) \in Seq(S) /\ Len(SubSeq(s, 1, n)) = n
           /\ SubSeq(s, n + 1, Len(s)) \in Seq(S)
           /\ Range(s) = Range(SubSeq(s, 1, n))
                           \cup Range(SubSeq(s, n + 1, Len(s)))
           /\ IsInjective(s) => /\ IsInjective(SubSeq(s, 1, n))
                                /\ IsInjective(SubSeq(s, n + 1, Len(s)))
<1>1. /\ DOMAIN s = 1 .. Len(s) /\ Len(s) \in Nat /\ n \in Nat /\ n <= Len(s)
      /\ \A i \in 1 .. Len(s) : s[i] \in S
  OBVIOUS
<1>2. PICK first, last : /\ first = SubSeq(s, 1, n)
                         /\ last = SubSeq(s, n + 1, Len(s))
  OBVIOUS
<1>3. /\ first \in Seq(S) /\ Len(first) = n
      /\ \A i \in 1 .. n : first[i] = s[i]
  <2>1. /\ SubSeq(s, 1, n) \in Seq(S)
        /\ Len(SubSeq(s, 1, n)) = IF 1 <= n THEN n - 1 + 1 ELSE 0
        /\ \A i \in 1 .. n - 1 + 1 : SubSeq(s, 1, n)[i] = s[1 + i - 1]
    BY <1>1, SubSeqProperties
  <2>2. \A i \in 1 .. n : i \in 1 .. n - 1 + 1 /\ 1 + i - 1 = i
    BY <1>1
  <2>3. (IF 1 <= n THEN n - 1 + 1 ELSE 0) = n
    BY <1>1
  <2>4. QED BY <1>2, <2>1, <2>2, <2>3
<1>4. /\ last \in Seq(S) /\ Len(last) = Len(s) - n
      /\ \A i \in 1 .. Len(s) - n : last[i] = s[n + i]
  <2>1. /\ SubSeq(s, n + 1, Len(s)) \in Seq(S)
        /\ Len(SubSeq(s, n + 1, Len(s))) =
             IF n + 1 <= Len(s) THEN Len(s) - (n + 1) + 1 ELSE 0
        /\ \A i \in 1 .. Len(s) - (n + 1) + 1 :
              SubSeq(s, n + 1, Len(s))[i] = s[n + 1 + i - 1]
    BY <1>1, SubSeqProperties
  <2>2. \A i \in 1 .. Len(s) - n :
          i \in 1 .. Len(s) - (n + 1) + 1 /\ n + 1 + i - 1 = n + i
    BY <1>1
  <2>3. (IF n + 1 <= Len(s) THEN Len(s) - (n + 1) + 1 ELSE 0) = Len(s) - n
    <3>1. Len(s) \in Nat /\ n \in Nat /\ n <= Len(s)
      BY <1>1
    <3>2. QED BY <3>1
  <2>4. QED BY <1>2, <2>1, <2>2, <2>3
<1>5. DOMAIN first = 1 .. n /\ DOMAIN last = 1 .. Len(s) - n
  BY <1>3, <1>4
<1>6. Range(s) \subseteq Range(first) \cup Range(last)
  <2>1. SUFFICES ASSUME NEW i \in 1 .. Len(s)
                 PROVE  s[i] \in Range(first) \cup Range(last)
    BY <1>1 DEF Range
  <2>2. CASE i <= n
    <3>1. i \in DOMAIN first /\ first[i] = s[i]
      BY <1>1, <1>3, <1>5, <2>2
    <3>2. QED BY <3>1 DEF Range
  <2>3. CASE i > n
    <3>1. i - n \in DOMAIN last /\ last[i - n] = s[i]
      BY <1>1, <1>4, <1>5, <2>3
    <3>2. QED BY <3>1 DEF Range
  <2>4. QED BY <1>1, <2>2, <2>3
<1>7. Range(first) \subseteq Range(s)
  BY <1>1, <1>3, <1>5 DEF Range
<1>8. Range(last) \subseteq Range(s)
  <2>1. SUFFICES ASSUME NEW i \in 1 .. Len(s) - n
                 PROVE  last[i] \in Range(s)
    BY <1>5 DEF Range
  <2>2. n + i \in DOMAIN s /\ last[i] = s[n + i]
    BY <1>1, <1>4
  <2>3. QED BY <2>2 DEF Range
<1>9. IsInjective(s) => IsInjective(first)
  BY <1>1, <1>3, <1>5 DEF IsInjective
<1>10. IsInjective(s) => IsInjective(last)
  <2>1. SUFFICES ASSUME IsInjective(s), NEW i \in 1 .. Len(s) - n,
                        NEW j \in 1 .. Len(s) - n, last[i] = last[j]
                 PROVE  i = j
    BY <1>5 DEF IsInjective
  <2>2. n + i \in DOMAIN s /\ n + j \in DOMAIN s /\ s[n + i] = s[n + j]
    BY <1>1, <1>4, <2>1
  <2>3. n + i = n + j
    BY <2>1, <2>2 DEF IsInjective
  <2>4. QED BY <1>1, <2>3
<1>11. QED BY <1>2, <1>3, <1>4, <1>6, <1>7, <1>8, <1>9, <1>10

(* What is picked from a sequence is what it has at the given positions, if  *)
(* that is distinct.                                                        *)
LEMMA PickedElements ==
    ASSUME NEW S, NEW s, NEW at, IsFiniteSet(at),
           \A i \in at : s[i] \in S,
           \A i, j \in at : s[i] = s[j] => i = j,
           NEW kept, \A e : e \in kept <=> \E i \in at : e = s[i],
           NEW t \in Picked(s, at)
    PROVE  t \in Seq(S) /\ Range(t) = kept /\ IsInjective(t)
<1>1. Cardinality(at) \in Nat
  BY FS_CardinalityType
<1> DEFINE m == Cardinality(at)
<1>2. PICK f \in Bijection(1 .. m, at) : t = [k \in 1 .. m |-> s[f[k]]]
  BY DEF Picked
<1>3. /\ f \in [1 .. m -> at]
      /\ \A i \in at : \E k \in 1 .. m : f[k] = i
      /\ \A k, l \in 1 .. m : f[k] = f[l] => k = l
  BY <1>2 DEF Bijection, Surjection, Injection, IsInjective
<1> HIDE DEF m
<1>4. t \in [1 .. m -> S]
  BY <1>2, <1>3
<1>5. m \in Nat
  BY <1>1 DEF m
<1>6. t \in Seq(S)
  BY <1>4, <1>5
<1>7. /\ DOMAIN t = 1 .. m
      /\ \A k \in 1 .. m : f[k] \in at /\ t[k] = s[f[k]]
  BY <1>2, <1>3
<1>8. Range(t) = {s[i] : i \in at}
  <2>1. Range(t) \subseteq {s[i] : i \in at}
    BY <1>7 DEF Range
  <2>2. ASSUME NEW i \in at
        PROVE  s[i] \in Range(t)
    <3>1. PICK k \in 1 .. m : f[k] = i
      BY <1>3
    <3>2. QED BY <1>7, <3>1 DEF Range
  <2>3. QED BY <2>1, <2>2
<1>9. Range(t) = kept
  BY <1>8
<1>10. IsInjective(t)
  <2>1. \A k, l \in 1 .. m : t[k] = t[l] => f[k] = f[l]
    BY <1>7
  <2>2. QED BY <1>3, <1>7, <2>1 DEF IsInjective
<1>11. QED BY <1>6, <1>9, <1>10

LEMMA PickedLength ==
    ASSUME NEW s, NEW n \in Nat, NEW at \in SUBSET (1 .. n),
           NEW t \in Picked(s, at)
    PROVE  Len(t) <= n
<1>1. /\ IsFiniteSet(at) /\ Cardinality(at) <= n
      /\ Cardinality(at) \in Nat
  <2>1. IsFiniteSet(1 .. n) /\ Cardinality(1 .. n) = n
    BY FS_Interval
  <2>2. IsFiniteSet(at) /\ Cardinality(at) <= n
    BY <2>1, FS_Subset
  <2>3. QED BY <2>2, FS_CardinalityType
<1>2. PICK f : t = [k \in 1 .. Cardinality(at) |-> s[f[k]]]
  BY DEF Picked
<1>3. Len(t) = Cardinality(at)
  BY <1>1, <1>2
<1>4. QED BY <1>1, <1>3

(* A set of numbers has a least one.                                        *)
LEMMA Least ==
    ASSUME NEW T \in SUBSET Nat, T # {}
    PROVE  \E x \in T : \A y \in T : x <= y
<1> DEFINE R == OpToRel(<, Nat)
<1>1. IsWellFoundedOn(R, Nat)
  BY NatLessThanWellFounded
<1> HIDE DEF R
<1>2. PICK x \in T : \A y \in T : ~(<<y, x>> \in R)
  BY <1>1, WFMin
<1>3. \A y \in T : ~(y < x)
  BY <1>2 DEF R, OpToRel
<1>4. QED BY <1>3

-----------------------------------------------------------------------------
(* removeLocalDuplicates leaves one topic of every URL that is not "".      *)
LEMMA LocalDuplicates ==
    ASSUME NEW new, NEW unique
    PROVE  \A n \in Nat :
              /\ new \in [1 .. n -> URL \cup {NoURL}]
              /\ unique \in removeLocalDuplicates(new)
              => /\ unique \in Seq(URL) /\ Len(unique) <= n
                 /\ Range(unique) = Range(new) \ {NoURL}
                 /\ IsInjective(unique)
<1>1. SUFFICES ASSUME NEW n, n \in Nat, DOMAIN new = 1 .. n,
                      \A i \in 1 .. n : new[i] \in URL \cup {NoURL},
                      unique \in removeLocalDuplicates(new)
               PROVE  /\ unique \in Seq(URL) /\ Len(unique) <= n
                      /\ Range(unique) = Range(new) \ {NoURL}
                      /\ IsInjective(unique)
  OBVIOUS
<1> DEFINE at == {i \in DOMAIN new : /\ new[i] # NoURL
                                     /\ \A j \in 1 .. i - 1 : new[j] # new[i]}
           kept == Range(new) \ {NoURL}
<1>2. /\ at \subseteq 1 .. n
      /\ \A i \in at : new[i] \in URL
      /\ unique \in Picked(new, at)
      /\ IsFiniteSet(at)
  <2>1. at \subseteq 1 .. n
    BY <1>1
  <2>2. IsFiniteSet(at)
    BY <1>1, <2>1, FS_Interval, FS_Subset
  <2>3. QED BY <1>1, <2>1, <2>2 DEF removeLocalDuplicates
<1>3. ASSUME NEW i \in at, NEW j \in at, new[i] = new[j]
      PROVE  i = j
  <2>1. i \in 1 .. n /\ j \in 1 .. n
    BY <1>2
  <2>2. ~(i < j)
    <3>1. i < j => i \in 1 .. j - 1
      BY <1>1, <2>1
    <3>2. QED BY <1>3, <3>1
  <2>3. ~(j < i)
    <3>1. j < i => j \in 1 .. i - 1
      BY <1>1, <2>1
    <3>2. QED BY <1>3, <3>1
  <2>4. QED BY <1>1, <2>1, <2>2, <2>3
<1>4. \A e : e \in kept <=> \E i \in at : e = new[i]
  <2>1. \A i \in at : new[i] \in kept
    BY DEF Range
  <2>2. ASSUME NEW k \in 1 .. n, new[k] # NoURL
        PROVE  \E i \in at : new[i] = new[k]
    <3> DEFINE T == {i \in 1 .. n : new[i] = new[k]}
    <3>1. T \in SUBSET Nat /\ k \in T
      BY <1>1
    <3>2. PICK i \in T : \A y \in T : i <= y
      BY <3>1, Least
    <3>3. \A j \in 1 .. i - 1 : j \in 1 .. n /\ ~(i <= j)
      BY <1>1, <3>2
    <3>4. i \in at
      BY <1>1, <2>2, <3>2, <3>3
    <3>5. QED BY <3>2, <3>4
  <2>3. \A e \in kept : \E i \in at : e = new[i]
    BY <1>1, <2>2 DEF Range
  <2>4. QED BY <2>1, <2>3
<1> HIDE DEF at, kept
<1>5. unique \in Seq(URL) /\ Range(unique) = kept /\ IsInjective(unique)
  BY <1>2, <1>3, <1>4, PickedElements
<1>6. Len(unique) <= n
  BY <1>1, <1>2, PickedLength
<1>7. QED BY <1>5, <1>6 DEF kept

(* filterAgainstStored takes away what the table had, and nothing else.     *)
LEMMA StoredFiltered ==
    ASSUME NEW new \in Seq(URL), IsInjective(new), NEW stored,
           NEW final \in filterAgainstStored(new, stored)
    PROVE  /\ final \in Seq(URL) /\ Len(final) <= Len(new)
           /\ Range(final) = Range(new) \ stored
           /\ IsInjective(final)
<1> DEFINE at == {i \in DOMAIN new : new[i] \notin stored}
<1>1. \A i \in at : new[i] \in URL
  OBVIOUS
<1>2. final \in Picked(new, at)
  BY DEF filterAgainstStored
<1>3. \A e : e \in Range(new) \ stored <=> \E i \in at : e = new[i]
  BY DEF Range
<1>4. \A i, j \in at : new[i] = new[j] => i = j
  BY DEF IsInjective
<1>5. IsFiniteSet(at) /\ Len(final) <= Len(new)
  <2>1. Len(new) \in Nat /\ at \subseteq 1 .. Len(new)
    OBVIOUS
  <2>2. IsFiniteSet(at)
    BY <2>1, FS_Interval, FS_Subset
  <2> HIDE DEF at
  <2>3. Len(final) <= Len(new)
    BY <1>2, <2>1, PickedLength
  <2>4. QED BY <2>2, <2>3
<1> HIDE DEF at
<1> DEFINE kept == Range(new) \ stored
<1>6. \A e : e \in kept <=> \E i \in at : e = new[i]
  BY <1>3
<1> HIDE DEF kept
<1>7. final \in Seq(URL) /\ Range(final) = kept /\ IsInjective(final)
  BY <1>1, <1>2, <1>4, <1>5, <1>6, PickedElements
<1>8. QED BY <1>5, <1>7 DEF kept

-----------------------------------------------------------------------------
LEMMA RangeType ==
    ASSUME NEW S, NEW s \in Seq(S)
    PROVE  Range(s) \subseteq S
BY DEF Range

LEMMA HeadAndTail ==
    ASSUME NEW S, NEW s \in Seq(S), s # <<>>
    PROVE  /\ Head(s) \in S /\ Tail(s) \in Seq(S)
           /\ Range(s) = {Head(s)} \cup Range(Tail(s))
<1>1. /\ Head(s) \in S /\ Tail(s) \in Seq(S)
      /\ Len(s) \in Nat \ {0} /\ DOMAIN s = 1 .. Len(s) /\ Head(s) = s[1]
      /\ DOMAIN Tail(s) = 1 .. Len(s) - 1
      /\ \A i \in 1 .. Len(s) - 1 : Tail(s)[i] = s[i + 1]
  OBVIOUS
<1>2. Range(s) \subseteq {Head(s)} \cup Range(Tail(s))
  <2>1. SUFFICES ASSUME NEW i \in 1 .. Len(s), i # 1
                 PROVE  s[i] \in Range(Tail(s))
    BY <1>1 DEF Range
  <2>2. i - 1 \in DOMAIN Tail(s) /\ Tail(s)[i - 1] = s[i]
    BY <1>1, <2>1
  <2>3. QED BY <2>2 DEF Range
<1>3. Range(Tail(s)) \subseteq Range(s)
  BY <1>1 DEF Range
<1>4. Head(s) \in Range(s)
  BY <1>1 DEF Range
<1>5. QED BY <1>1, <1>2, <1>3, <1>4

(* The slice that is written next, and the topics after it.                 *)
LEMMA ChunkAndRest ==
    ASSUME TypeOK, TopicsAreDistinct
    PROVE  LET rest == SubSeq(topics, Len(Chunk) + 1, Len(topics))
           IN  /\ Chunk \in Seq(URL) /\ Len(Chunk) <= maxBatchSize
               /\ rest \in Seq(URL)
               /\ Range(topics) = Range(Chunk) \cup Range(rest)
               /\ IsInjective(Chunk) /\ IsInjective(rest)
<1> DEFINE n == IF Len(topics) > maxBatchSize THEN maxBatchSize ELSE Len(topics)
<1>1. topics \in Seq(URL)
  BY DEF TypeOK
<1>2. n \in 0 .. Len(topics) /\ n <= maxBatchSize
  <2>1. Len(topics) \in Nat /\ maxBatchSize \in Nat
    BY <1>1, TopicAssumption
  <2>2. QED BY <2>1
<1>3. Chunk = SubSeq(topics, 1, n)
  BY DEF Chunk
<1> HIDE DEF n
<1>4. /\ SubSeq(topics, 1, n) \in Seq(URL) /\ Len(SubSeq(topics, 1, n)) = n
      /\ SubSeq(topics, n + 1, Len(topics)) \in Seq(URL)
      /\ Range(topics) = Range(SubSeq(topics, 1, n))
                           \cup Range(SubSeq(topics, n + 1, Len(topics)))
      /\ IsInjective(topics) => /\ IsInjective(SubSeq(topics, 1, n))
                                /\ IsInjective(SubSeq(topics, n + 1, Len(topics)))
  BY <1>1, <1>2, Cut
<1>5. Len(Chunk) = n
  BY <1>3, <1>4
<1>6. QED BY <1>2, <1>3, <1>4, <1>5 DEF TopicsAreDistinct

-----------------------------------------------------------------------------
(* Each action keeps IInv.                                                  *)

LEMMA FetchKeeps ==
    ASSUME IInv, Fetch
    PROVE  IInv'
<1> USE TopicAssumption
<1> USE NoElements
<1>1. CASE FetchOk
  <2>1. headlines' \in Seq(URL)
    BY <1>1 DEF IInv, TypeOK, FetchOk
  <2>2. category' \in 1 .. Len(Headlines) + 1
    BY <1>1 DEF IInv, TypeOK, FetchOk
  <2>3. TypeOK'
    BY <1>1, <2>1, <2>2 DEF IInv, TypeOK, FetchOk, batchVars, worldVars,
       history, MAX_RETRIES
  <2>4. QED
    BY <1>1, <2>3 DEF IInv, Phases, Attempts, FetchOk, batchVars, worldVars,
       history, TopicsAreDistinct, TopicsAreNew, HeadlinesInHand,
       StoredTopicsAreLeftAlone
<1>2. CASE FetchRetry
  BY <1>2 DEF IInv, TypeOK, FetchRetry, batchVars, worldVars, history,
     MAX_RETRIES, Phases, Attempts, TopicsAreDistinct, TopicsAreNew,
     HeadlinesInHand, StoredTopicsAreLeftAlone
<1>3. CASE FetchSkip
  BY <1>3 DEF IInv, TypeOK, FetchSkip, batchVars, worldVars, history,
     MAX_RETRIES, Phases, Attempts, TopicsAreDistinct, TopicsAreNew,
     HeadlinesInHand, StoredTopicsAreLeftAlone
<1>4. CASE NoHeadlines
  BY <1>4 DEF IInv, TypeOK, NoHeadlines, loopVars, batchVars, worldVars,
     history, MAX_RETRIES, Phases, Attempts, TopicsAreDistinct, TopicsAreNew,
     HeadlinesInHand, StoredTopicsAreLeftAlone
<1>5. CASE ReadStored
  <2>1. TypeOK'
    BY <1>5, RangeType DEF IInv, TypeOK, ReadStored, loopVars, batchVars
  <2>2. QED
    BY <1>5, <2>1 DEF IInv, Phases, Attempts, ReadStored, loopVars, batchVars,
       TopicsAreDistinct, TopicsAreNew, HeadlinesInHand,
       StoredTopicsAreLeftAlone
<1>6. QED BY <1>1, <1>2, <1>3, <1>4, <1>5 DEF Fetch

LEMMA HeadlinesKeep ==
    ASSUME IInv, AddHeadline \/ ContextDone \/ FinalBatch
    PROVE  IInv'
<1> USE NoElements
<1>1. CASE AddHeadline
  <2>1. /\ headlines \in Seq(URL) /\ headlines # <<>>
        /\ headlineBuffer \in Seq(URL)
    BY <1>1 DEF IInv, TypeOK, AddHeadline
  <2>2. /\ Head(headlines) \in URL /\ Tail(headlines) \in Seq(URL)
        /\ Range(headlines) = {Head(headlines)} \cup Range(Tail(headlines))
    BY <2>1, HeadAndTail
  <2>3. /\ Append(headlineBuffer, Head(headlines)) \in Seq(URL)
        /\ Range(Append(headlineBuffer, Head(headlines))) =
             Range(headlineBuffer) \cup {Head(headlines)}
    BY <2>1, <2>2, OneElementMore
  <2>4. /\ headlines' \in Seq(URL) /\ headlineBuffer' \in Seq(URL)
        /\ Range(headlines') \cup Range(headlineBuffer') =
             Range(headlines) \cup Range(headlineBuffer)
    BY <1>1, <2>2, <2>3 DEF AddHeadline
  <2>5. TypeOK'
    BY <1>1, <2>4 DEF IInv, TypeOK, AddHeadline, batchVars, worldVars, history
  <2>6. Phases' /\ Attempts'
    BY <1>1 DEF IInv, Phases, Attempts, AddHeadline, batchVars, worldVars,
       history
  <2>7. HeadlinesInHand'
    BY <1>1, <2>4 DEF IInv, HeadlinesInHand, AddHeadline, batchVars, worldVars,
       history
  <2>8. QED
    BY <1>1, <2>5, <2>6, <2>7 DEF IInv, AddHeadline, batchVars, worldVars,
       history, TopicsAreDistinct, TopicsAreNew, StoredTopicsAreLeftAlone
<1>2. CASE ContextDone
  <2>1. TypeOK'
    BY <1>2, RangeType DEF IInv, TypeOK, ContextDone, batchVars, worldVars
  <2>2. HeadlinesInHand'
    BY <1>2 DEF IInv, HeadlinesInHand, ContextDone, batchVars, worldVars
  <2>3. QED
    BY <1>2, <2>1, <2>2 DEF IInv, ContextDone, batchVars, worldVars, Phases,
       Attempts, TopicsAreDistinct, TopicsAreNew, StoredTopicsAreLeftAlone
<1>3. CASE FinalBatch
  BY <1>3 DEF IInv, FinalBatch, loopVars, batchVars, worldVars, history,
     TypeOK, Phases, Attempts, TopicsAreDistinct, TopicsAreNew,
     HeadlinesInHand, StoredTopicsAreLeftAlone
<1>4. QED BY <1>1, <1>2, <1>3

LEMMA CompletionKeeps ==
    ASSUME IInv,
           \/ TakeBatch \/ CompletionRetry \/ CompletionGiveUp
           \/ CompletionUnparsable \/ CompletionEmpty
    PROVE  IInv'
<1> USE NoElements
<1>1. CASE TakeBatch
  <2>1. TypeOK'
    BY <1>1 DEF IInv, TypeOK, TakeBatch, worldVars, history, MAX_RETRIES
  <2>2. Phases' /\ Attempts'
    BY <1>1
    DEF IInv, Phases, Attempts, TakeBatch, worldVars, history, CompletionTries
  <2>3. HeadlinesInHand'
    BY <1>1 DEF IInv, Phases, TakeBatch, worldVars, history, HeadlinesInHand
  <2>4. QED
    BY <1>1, <2>1, <2>2, <2>3 DEF IInv, TakeBatch, worldVars, history,
       TopicsAreDistinct, TopicsAreNew, StoredTopicsAreLeftAlone
<1>2. CASE CompletionRetry
  <2>1. TypeOK' /\ Attempts'
    BY <1>2 DEF IInv, TypeOK, Attempts, CompletionRetry, batchVars, worldVars,
       history, MAX_RETRIES, CompletionTries
  <2>2. QED
    BY <1>2, <2>1 DEF IInv, CompletionRetry, batchVars, worldVars, history,
       Phases, TopicsAreDistinct, TopicsAreNew, HeadlinesInHand,
       StoredTopicsAreLeftAlone
<1>3. ASSUME pc = "complete", DropBatch
      PROVE  IInv'
  <2>1. TypeOK'
    BY <1>3, RangeType DEF IInv, TypeOK, DropBatch, worldVars, MAX_RETRIES
  <2>2. HeadlinesInHand'
    BY <1>3 DEF IInv, HeadlinesInHand, DropBatch, worldVars
  <2>3. QED
    BY <1>3, <2>1, <2>2 DEF IInv, DropBatch, worldVars, Phases, Attempts,
       TopicsAreDistinct, TopicsAreNew, StoredTopicsAreLeftAlone
<1>4. CASE CompletionEmpty
  <2>1. TypeOK'
    BY <1>4, RangeType DEF IInv, TypeOK, CompletionEmpty, worldVars
  <2>2. HeadlinesInHand'
    BY <1>4 DEF IInv, HeadlinesInHand, CompletionEmpty, worldVars
  <2>3. QED
    BY <1>4, <2>1, <2>2 DEF IInv, CompletionEmpty, worldVars, Phases, Attempts,
       TopicsAreDistinct, TopicsAreNew, StoredTopicsAreLeftAlone
<1>5. QED
  BY <1>1, <1>2, <1>3, <1>4 DEF CompletionGiveUp, CompletionUnparsable

(* The topics of an answer are new and distinct, and no more than those of  *)
(* the longest completion.                                                  *)
LEMMA AnswerTopics ==
    ASSUME IInv, NEW answer \in Answers, CompletionOk(answer)
    PROVE  /\ topics' \in Seq(URL) /\ Len(topics') <= MaxTopics
           /\ Range(topics') = Range(answer) \ ({NoURL} \cup storedTopics)
           /\ IsInjective(topics')
<1>1. MaxTopics \in Nat
  BY TopicAssumption
<1>2. PICK unique \in removeLocalDuplicates(answer) :
         topics' \in filterAgainstStored(unique, storedTopics)
  BY DEF CompletionOk
<1>3. PICK n \in 0 .. MaxTopics : answer \in [1 .. n -> URL \cup {NoURL}]
  BY DEF Answers
<1>4. n \in Nat /\ n <= MaxTopics
  BY <1>1
<1>5. /\ unique \in Seq(URL) /\ Len(unique) <= n
      /\ Range(unique) = Range(answer) \ {NoURL}
      /\ IsInjective(unique)
  BY <1>2, <1>3, <1>4, LocalDuplicates
<1>6. /\ topics' \in Seq(URL) /\ Len(topics') <= Len(unique)
      /\ Range(topics') = Range(unique) \ storedTopics
      /\ IsInjective(topics')
  BY <1>2, <1>5, StoredFiltered
<1>7. Len(topics') <= MaxTopics
  <2>1. Len(topics') \in Nat /\ Len(unique) \in Nat
    BY <1>5, <1>6
  <2>2. QED BY <1>1, <1>4, <1>5, <1>6, <2>1
<1>8. QED BY <1>5, <1>6, <1>7

LEMMA AnswerKeeps ==
    ASSUME IInv, NEW answer \in Answers, CompletionOk(answer)
    PROVE  IInv'
<1> USE NoElements
<1>1. Range(batch) \subseteq URL
  BY RangeType DEF IInv, TypeOK
<1>2. /\ topics' \in Seq(URL)
      /\ Range(topics') = Range(answer) \ ({NoURL} \cup storedTopics)
      /\ IsInjective(topics')
  BY AnswerTopics
<1>3. Range(batch) \subseteq Range(topics') \cup storedTopics \cup lost'
  <2>1. NoURL \notin Range(batch)
    BY <1>1, TopicAssumption
  <2>2. lost' = lost \cup (Range(batch) \ Range(answer))
    BY DEF CompletionOk
  <2>3. QED BY <1>2, <2>1, <2>2
<1>4. TypeOK'
  BY <1>1, <1>2 DEF IInv, TypeOK, CompletionOk, worldVars, MAX_RETRIES
<1>5. Phases' /\ Attempts'
  BY DEF IInv, Phases, Attempts, CompletionOk, worldVars
<1>6. TopicsAreDistinct' /\ TopicsAreNew' /\ StoredTopicsAreLeftAlone'
  BY <1>2 DEF IInv, Phases, CompletionOk, worldVars, TopicsAreDistinct,
     TopicsAreNew, StoredTopicsAreLeftAlone
<1>7. HeadlinesInHand'
  BY <1>3 DEF IInv, Phases, CompletionOk, worldVars, HeadlinesInHand
<1>8. QED BY <1>4, <1>5, <1>6, <1>7 DEF IInv

LEMMA WriteKeeps ==
    ASSUME IInv, NEW left \in SUBSET Range(Chunk), Write(left)
    PROVE  IInv'
<1> DEFINE rest == SubSeq(topics, Len(Chunk) + 1, Len(topics))
<1>1. /\ Chunk \in Seq(URL) /\ rest \in Seq(URL)
      /\ Range(topics) = Range(Chunk) \cup Range(rest)
      /\ IsInjective(rest)
  BY ChunkAndRest DEF IInv
<1>2. topics' = rest
  BY DEF Write
<1>3. Range(Chunk) \subseteq URL
  BY <1>1, RangeType
<1> DEFINE slice == Range(Chunk)
<1>4. /\ left \subseteq slice /\ unprocessed' = left
      /\ table' = table \cup (slice \ left)
      /\ written' = written \cup (slice \ left)
  BY DEF Write, Put
<1> HIDE DEF rest, slice
<1>5. slice \subseteq URL /\ Range(topics) = slice \cup Range(topics')
  BY <1>1, <1>2, <1>3 DEF slice
<1>6. TypeOK'
  BY <1>1, <1>2, <1>4, <1>5 DEF IInv, TypeOK, Write, MAX_RETRIES
<1>7. Phases' /\ Attempts'
  BY DEF IInv, Phases, Attempts, Write, RewriteTries
<1>8. TopicsAreDistinct'
  BY <1>1, <1>2 DEF TopicsAreDistinct
<1>9. TopicsAreNew' /\ StoredTopicsAreLeftAlone'
  BY <1>4, <1>5 DEF IInv, Write, TopicsAreNew, StoredTopicsAreLeftAlone
<1>10. HeadlinesInHand'
  <2>1. unprocessed = {}
    BY DEF IInv, Phases, Write
  <2>2. Range(topics) \cup written
          \subseteq Range(topics') \cup unprocessed' \cup written'
    BY <1>4, <1>5
  <2>3. QED BY <2>1, <2>2 DEF IInv, Write, HeadlinesInHand
<1>11. QED BY <1>6, <1>7, <1>8, <1>9, <1>10 DEF IInv

LEMMA RewriteKeeps ==
    ASSUME IInv, NEW left \in SUBSET unprocessed, Rewrite(left)
    PROVE  IInv'
<1>1. TypeOK' /\ Attempts'
  BY DEF IInv, TypeOK, Attempts, Rewrite, Put, RewriteTries, MAX_RETRIES
<1>2. HeadlinesInHand'
  BY DEF IInv, HeadlinesInHand, Rewrite, Put
<1>3. QED
  BY <1>1, <1>2 DEF IInv, Rewrite, Put, Phases, TopicsAreDistinct,
     TopicsAreNew, StoredTopicsAreLeftAlone

(* An error after some of the write took effect: all of it counts as lost.  *)
LEMMA StoreFailsKeeps ==
    ASSUME IInv,
           \/ \E done \in SUBSET Range(Chunk) : StoreError(done)
           \/ \E done \in SUBSET unprocessed : RewriteError(done)
    PROVE  IInv'
<1> USE NoElements
<1>1. Range(Chunk) \subseteq Range(topics) /\ Range(topics) \subseteq URL
  BY ChunkAndRest, RangeType DEF IInv, TypeOK
<1>2. ASSUME NEW done \in SUBSET Range(Chunk), StoreError(done)
      PROVE  IInv'
  <2>1. TypeOK'
    BY <1>1, <1>2 DEF IInv, TypeOK, StoreError, Put, loopVars
  <2>2. HeadlinesInHand'
    BY <1>2 DEF IInv, HeadlinesInHand, StoreError, Put, loopVars
  <2>3. StoredTopicsAreLeftAlone'
    BY <1>1, <1>2 DEF IInv, StoreError, Put, TopicsAreNew,
       StoredTopicsAreLeftAlone
  <2>4. QED
    BY <1>2, <2>1, <2>2, <2>3 DEF IInv, StoreError, loopVars, Phases, Attempts,
       TopicsAreDistinct, TopicsAreNew
<1>3. ASSUME NEW done \in SUBSET unprocessed, RewriteError(done)
      PROVE  IInv'
  <2>1. TypeOK'
    BY <1>1, <1>3 DEF IInv, TypeOK, RewriteError, Put, MAX_RETRIES
  <2>2. HeadlinesInHand'
    BY <1>3 DEF IInv, HeadlinesInHand, RewriteError, Put
  <2>3. StoredTopicsAreLeftAlone'
    BY <1>3 DEF IInv, RewriteError, Put, TopicsAreNew, StoredTopicsAreLeftAlone
  <2>4. QED
    BY <1>3, <2>1, <2>2, <2>3 DEF IInv, RewriteError, Phases, Attempts,
       TopicsAreDistinct, TopicsAreNew
<1>4. QED BY <1>2, <1>3

LEMMA StoreKeeps ==
    ASSUME IInv, Stored \/ NextChunk
    PROVE  IInv'
<1> USE NoElements
<1>1. CASE Stored
  BY <1>1 DEF IInv, Stored, loopVars, batchVars, worldVars, history, TypeOK,
     Phases, Attempts, TopicsAreDistinct, TopicsAreNew, HeadlinesInHand,
     StoredTopicsAreLeftAlone
<1>2. CASE NextChunk
  <2>1. TypeOK'
    BY <1>2 DEF IInv, TypeOK, NextChunk, worldVars, MAX_RETRIES
  <2>2. HeadlinesInHand'
    BY <1>2 DEF IInv, HeadlinesInHand, NextChunk, worldVars
  <2>3. QED
    BY <1>2, <2>1, <2>2 DEF IInv, NextChunk, worldVars, Phases, Attempts,
       TopicsAreDistinct, TopicsAreNew, StoredTopicsAreLeftAlone
<1>3. QED BY <1>1, <1>2

LEMMA WorldKeeps ==
    ASSUME IInv, Expire \/ NextRun \/ (\E u \in URL : TimeToLive(u))
    PROVE  IInv'
<1> USE NoElements, TopicAssumption
<1>1. CASE Expire
  BY <1>1 DEF IInv, Expire, loopVars, batchVars, history, TypeOK, Phases,
     Attempts, TopicsAreDistinct, TopicsAreNew, HeadlinesInHand,
     StoredTopicsAreLeftAlone
<1>2. CASE NextRun
  <2>1. runs' \in 1 .. MaxRuns /\ category' \in 1 .. Len(Headlines) + 1
    BY <1>2 DEF IInv, TypeOK, NextRun
  <2>2. TypeOK'
    <3>1. {headlines, headlineBuffer, batch, topics}' \subseteq Seq(URL)
      BY <1>2 DEF IInv, TypeOK, NextRun, batchVars
    <3>2. {unprocessed, storedTopics, table, given, written, lost}' \subseteq SUBSET URL
      BY <1>2 DEF IInv, TypeOK, NextRun, batchVars
    <3>3. pc' = "fetch" /\ attempt' \in 1 .. MAX_RETRIES
      BY <1>2 DEF NextRun, MAX_RETRIES
    <3>4. expired' \in BOOLEAN
      BY <1>2 DEF NextRun
    <3>5. QED BY <2>1, <3>1, <3>2, <3>3, <3>4 DEF TypeOK
  <2>3. Phases' /\ Attempts'
    BY <1>2 DEF IInv, NextRun, batchVars, Phases, Attempts
  <2>4. QED
    BY <1>2, <2>2, <2>3 DEF IInv, NextRun, batchVars, Phases, Attempts,
       TopicsAreDistinct, TopicsAreNew, HeadlinesInHand,
       StoredTopicsAreLeftAlone
<1>3. ASSUME NEW u \in URL, TimeToLive(u)
      PROVE  IInv'
  <2>1. TypeOK'
    BY <1>3 DEF IInv, TimeToLive, loopVars, batchVars, history, TypeOK
  <2>2. QED
    BY <1>3, <2>1 DEF IInv, TimeToLive, loopVars, batchVars, history, Phases,
       Attempts, TopicsAreDistinct, TopicsAreNew, HeadlinesInHand,
       StoredTopicsAreLeftAlone
<1>4. QED BY <1>1, <1>2, <1>3

-----------------------------------------------------------------------------
(* In every state of every execution.                                       *)

LEMMA EveryStep == ASSUME IInv, [Next]_vars PROVE IInv'
<1>1. CASE Fetch
  BY <1>1, FetchKeeps
<1>2. CASE Generate
  BY <1>2, HeadlinesKeep, CompletionKeeps, AnswerKeeps, WriteKeeps, RewriteKeeps,
     StoreFailsKeeps, StoreKeeps DEF Generate
<1>3. CASE Expire \/ NextRun \/ (\E u \in URL : TimeToLive(u))
  BY <1>3, WorldKeeps
<1>4. CASE UNCHANGED vars
  BY <1>4 DEF IInv, vars, loopVars, batchVars, worldVars, history, TypeOK,
     Phases, Attempts, TopicsAreDistinct, TopicsAreNew, HeadlinesInHand,
     StoredTopicsAreLeftAlone
<1>5. QED BY <1>1, <1>2, <1>3, <1>4 DEF Next

LEMMA Initially ==
    ASSUME Init
    PROVE  IInv
<1> USE NoElements, TopicAssumption
<1>1. TypeOK
  <2>1. 1 \in 1 .. Len(Headlines) + 1 /\ 1 \in 1 .. MaxRuns
    OBVIOUS
  <2>2. <<>> \in Seq(URL)
    OBVIOUS
  <2>3. table \subseteq URL
    BY DEF Init
  <2>4. {headlines, headlineBuffer, batch, topics} \subseteq Seq(URL)
    BY <2>2 DEF Init
  <2>5. {unprocessed, storedTopics, table, given, written, lost} \subseteq SUBSET URL
    BY <2>3 DEF Init
  <2>6. category \in 1 .. Len(Headlines) + 1 /\ runs \in 1 .. MaxRuns
    BY <2>1 DEF Init
  <2>7. attempt \in 1 .. MAX_RETRIES
    BY DEF Init, MAX_RETRIES
  <2>8. expired \in BOOLEAN
    BY DEF Init
  <2>9. pc \in {"fetch", "headline", "batch", "complete", "store", "rewrite",
               "done"}
    BY DEF Init
  <2>10. QED BY <2>4, <2>5, <2>6, <2>7, <2>8, <2>9 DEF TypeOK
<1>2. Phases /\ Attempts /\ HeadlinesInHand
  BY DEF Init, Phases, Attempts, HeadlinesInHand
<1>3. TopicsAreDistinct /\ TopicsAreNew /\ StoredTopicsAreLeftAlone
  BY DEF Init, TopicsAreDistinct, TopicsAreNew, StoredTopicsAreLeftAlone
<1>4. QED BY <1>1, <1>2, <1>3 DEF IInv

(* The invariant behind the properties: what each phase has in hand, that   *)
(* the topics to be written are distinct and new, and where each headline   *)
(* of the run is (GenerateTopicsFromHeadlines, StoreBatchedTopics).         *)
THEOREM Invariance == Spec => []IInv
<1>1. Init => IInv
  BY Initially
<1>2. IInv /\ [Next]_vars => IInv'
  BY EveryStep
<1>3. QED BY <1>1, <1>2, PTL DEF Spec

(* Every variable keeps its type.                                           *)
THEOREM TypeCorrect == Spec => []TypeOK
<1>1. IInv => TypeOK
  BY DEF IInv
<1>2. QED BY <1>1, Invariance, PTL

(* No request to DynamoDB is too long or names a key twice, whatever the    *)
(* answers (removeLocalDuplicates, the slices of StoreBatchedTopics).       *)
THEOREM AcceptedRequests == Spec => []RequestsAreAccepted
<1>1. IInv => RequestsAreAccepted
  <2>1. SUFFICES ASSUME IInv
                 PROVE  Acceptable(Chunk)
    BY DEF RequestsAreAccepted
  <2>2. Chunk \in Seq(URL) /\ Len(Chunk) <= maxBatchSize /\ IsInjective(Chunk)
    BY <2>1, ChunkAndRest DEF IInv
  <2>3. Len(Chunk) <= WriteLimit
    <3>1. Len(Chunk) \in Nat /\ maxBatchSize \in Nat /\ WriteLimit \in Nat
      BY <2>2, TopicAssumption
    <3>2. QED BY <2>2, <3>1, WriteLimitAssumption
  <2>4. QED BY <2>2, <2>3 DEF Acceptable
<1>2. QED BY <1>1, Invariance, PTL

(* No headline of a run is lost on its way from the answer of NewsAPI to    *)
(* the table, wherever the run was when its context ended.                  *)
THEOREM HeadlinesAccountedFor == Spec => []EveryHeadlineIsAccountedFor
<1>1. IInv => EveryHeadlineIsAccountedFor
  BY NoElements DEF IInv, Phases, HeadlinesInHand, EveryHeadlineIsAccountedFor
<1>2. QED BY <1>1, Invariance, PTL

(* What the run has seen in the table it never writes (filterAgainstStored).*)
THEOREM OldTopicsKept == Spec => []StoredTopicsAreLeftAlone
<1>1. IInv => StoredTopicsAreLeftAlone
  BY DEF IInv
<1>2. QED BY <1>1, Invariance, PTL

-----------------------------------------------------------------------------
(* Every step of a run is counted.                                          *)

(* StepsLeft in numbers, before and after.                                  *)
LEMMA LengthsAndAttempts ==
    ASSUME IInv
    PROVE  /\ Len(headlines) \in Nat /\ Len(headlineBuffer) \in Nat
           /\ Len(batch) \in Nat /\ Len(topics) \in Nat
           /\ attempt \in 1 .. 5
           /\ pc = "complete" => attempt <= 3
           /\ pc = "rewrite" => attempt <= 4
<1>1. /\ headlines \in Seq(URL) /\ headlineBuffer \in Seq(URL)
      /\ batch \in Seq(URL) /\ topics \in Seq(URL)
      /\ attempt \in 1 .. 5
  BY DEF IInv, TypeOK, MAX_RETRIES
<1>2. /\ pc = "complete" => attempt <= 3
      /\ pc = "rewrite" => attempt <= 4
  BY <1>1 DEF IInv, Attempts, CompletionTries, RewriteTries
<1>3. QED BY <1>1, <1>2

(* What a batch costs, and products of it: all that is needed of numbers    *)
(* that are not constants.                                                  *)
LEMMA BatchStepsType ==
    /\ BatchSteps \in Nat /\ BatchSteps >= 6
    /\ \A t \in Nat : t <= MaxTopics => 5 * t + 6 <= BatchSteps
BY TopicAssumption DEF BatchSteps

LEMMA Products ==
    \A w, n \in Nat : w * n \in Nat /\ w * (n + 1) = w * n + w /\ w * 0 = 0
OBVIOUS

(* What the headlines cost that are not in the buffer yet.                  *)
HeadlineSteps(n) == (BatchSteps + 1) * n

LEMMA HeadlineStepsType ==
    \A n \in Nat : /\ HeadlineSteps(n) \in Nat /\ HeadlineSteps(0) = 0
                   /\ HeadlineSteps(n + 1) = HeadlineSteps(n) + BatchSteps + 1
<1>1. BatchSteps + 1 \in Nat /\ BatchSteps \in Nat
  BY BatchStepsType
<1>2. SUFFICES ASSUME NEW n \in Nat
               PROVE  /\ HeadlineSteps(n) \in Nat /\ HeadlineSteps(0) = 0
                      /\ HeadlineSteps(n + 1) = HeadlineSteps(n) + BatchSteps + 1
  OBVIOUS
<1>3. /\ (BatchSteps + 1) * n \in Nat /\ (BatchSteps + 1) * 0 = 0
      /\ (BatchSteps + 1) * (n + 1) = (BatchSteps + 1) * n + (BatchSteps + 1)
  BY <1>1, Products
<1>4. QED BY <1>1, <1>3 DEF HeadlineSteps

(* StepsLeft, phase by phase, before a step and after it.                   *)
LEMMA StepsLeftBefore ==
    /\ pc = "headline" =>
         StepsLeft = HeadlineSteps(Len(headlines)) +
                     (BatchSteps * Len(headlineBuffer) + 1)
    /\ pc = "batch" =>
         StepsLeft = HeadlineSteps(Len(headlines)) + BatchSteps
    /\ pc = "complete" =>
         StepsLeft = HeadlineSteps(Len(headlines)) + (BatchSteps - attempt)
    /\ pc = "store" =>
         StepsLeft = HeadlineSteps(Len(headlines)) + (5 * Len(topics) + 2)
    /\ pc = "rewrite" =>
         StepsLeft = HeadlineSteps(Len(headlines)) +
                     (5 * Len(topics) + 7 - attempt)
BY DEF StepsLeft, HeadlineSteps

LEMMA StepsLeftAfter ==
    /\ pc' = "headline" =>
         StepsLeft' = HeadlineSteps(Len(headlines')) +
                      (BatchSteps * Len(headlineBuffer') + 1)
    /\ pc' = "batch" =>
         StepsLeft' = HeadlineSteps(Len(headlines')) + BatchSteps
    /\ pc' = "complete" =>
         StepsLeft' = HeadlineSteps(Len(headlines')) + (BatchSteps - attempt')
    /\ pc' = "store" =>
         StepsLeft' = HeadlineSteps(Len(headlines')) + (5 * Len(topics') + 2)
    /\ pc' = "rewrite" =>
         StepsLeft' = HeadlineSteps(Len(headlines')) +
                      (5 * Len(topics') + 7 - attempt')
    /\ pc' = "done" => StepsLeft' = HeadlineSteps(Len(headlines')) + 0
BY DEF StepsLeft, HeadlineSteps, BatchSteps

LEMMA HeadlinesCount ==
    ASSUME IInv, AddHeadline \/ ContextDone \/ FinalBatch \/ TakeBatch
    PROVE  StepsLeft' \in 0 .. StepsLeft - 1
<1>1. /\ headlines \in Seq(URL) /\ headlineBuffer \in Seq(URL)
      /\ Len(<<>>) = 0
  BY DEF IInv, TypeOK
<1>2. /\ Len(headlines) \in Nat /\ Len(headlineBuffer) \in Nat
      /\ BatchSteps \in Nat
  BY <1>1, BatchStepsType
<1>3. CASE AddHeadline
  <2>1. /\ pc = "headline" /\ pc' \in {"batch", "headline"}
        /\ headlines # <<>> /\ headlines' = Tail(headlines)
        /\ headlineBuffer' = Append(headlineBuffer, Head(headlines))
    BY <1>3 DEF AddHeadline
  <2>2. /\ Len(headlines') = Len(headlines) - 1 /\ Len(headlines) > 0
        /\ Len(headlineBuffer') = Len(headlineBuffer) + 1
    BY <1>1, <2>1, HeadAndTail
  <2>3. PICK left \in Nat, n \in Nat :
           /\ Len(headlines') = left /\ Len(headlines) = left + 1
           /\ Len(headlineBuffer) = n /\ Len(headlineBuffer') = n + 1
    BY <1>2, <2>2
  <2>4. StepsLeft = HeadlineSteps(left + 1) + (BatchSteps * n + 1)
    BY <2>1, <2>3, StepsLeftBefore
  <2>5. \/ StepsLeft' = HeadlineSteps(left) + (BatchSteps * (n + 1) + 1)
        \/ StepsLeft' = HeadlineSteps(left) + BatchSteps
    BY <2>1, <2>3, StepsLeftAfter
  <2>6. /\ HeadlineSteps(left) \in Nat
        /\ HeadlineSteps(left + 1) = HeadlineSteps(left) + BatchSteps + 1
        /\ BatchSteps * n \in Nat
        /\ BatchSteps * (n + 1) = BatchSteps * n + BatchSteps
    BY <1>2, HeadlineStepsType, Products
  <2>7. \A h, b, p \in Nat :
           /\ h + ((p + b) + 1) \in 0 .. (h + b + 1) + (p + 1) - 1
           /\ h + b \in 0 .. (h + b + 1) + (p + 1) - 1
    OBVIOUS
  <2>8. StepsLeft = (HeadlineSteps(left) + BatchSteps + 1) + (BatchSteps * n + 1)
    BY <2>4, <2>6
  <2>9. CASE StepsLeft' = HeadlineSteps(left) + (BatchSteps * (n + 1) + 1)
    <3>1. StepsLeft' = HeadlineSteps(left) + ((BatchSteps * n + BatchSteps) + 1)
      BY <2>6, <2>9
    <3>2. QED BY <1>2, <2>6, <2>7, <2>8, <3>1
  <2>10. CASE StepsLeft' = HeadlineSteps(left) + BatchSteps
    <3>1. StepsLeft' \in 0 .. ((HeadlineSteps(left) + BatchSteps + 1)
                                  + (BatchSteps * n + 1)) - 1
      BY <1>2, <2>6, <2>7, <2>10
    <3>2. QED BY <2>8, <3>1
  <2>11. QED BY <2>5, <2>9, <2>10
<1>4. CASE ContextDone
  <2>1. /\ pc = "headline" /\ pc' = "headline"
        /\ headlines # <<>> /\ headlines' = <<>>
        /\ headlineBuffer' = headlineBuffer
    BY <1>4 DEF ContextDone
  <2>2. PICK left \in Nat : Len(headlines) = left + 1
    <3>1. Len(headlines) > 0 /\ Len(headlines) - 1 \in Nat
      BY <1>1, <2>1
    <3>2. QED BY <1>2, <3>1
  <2>3. StepsLeft = HeadlineSteps(left + 1) +
                    (BatchSteps * Len(headlineBuffer) + 1)
    BY <2>1, <2>2, StepsLeftBefore
  <2>4. StepsLeft' = HeadlineSteps(0) + (BatchSteps * Len(headlineBuffer) + 1)
    BY <1>1, <2>1, StepsLeftAfter
  <2>5. /\ HeadlineSteps(left) \in Nat /\ HeadlineSteps(0) = 0
        /\ HeadlineSteps(left + 1) = HeadlineSteps(left) + BatchSteps + 1
        /\ BatchSteps * Len(headlineBuffer) \in Nat
    BY <1>2, HeadlineStepsType, Products
  <2>6. \A h, b, p \in Nat :
           0 + (p + 1) \in 0 .. (h + b + 1) + (p + 1) - 1
    OBVIOUS
  <2>7. QED BY <1>2, <2>3, <2>4, <2>5, <2>6
<1>5. CASE FinalBatch
  <2>1. /\ pc = "headline" /\ headlines = <<>>
        /\ headlines' = headlines /\ headlineBuffer' = headlineBuffer
        /\ pc' = IF headlineBuffer = <<>> THEN "done" ELSE "batch"
    BY <1>5 DEF FinalBatch, loopVars
  <2>2. StepsLeft = HeadlineSteps(0) + (BatchSteps * Len(headlineBuffer) + 1)
    BY <1>1, <2>1, StepsLeftBefore
  <2>3. HeadlineSteps(0) = 0
    BY HeadlineStepsType
  <2>4. CASE headlineBuffer = <<>>
    <3>1. StepsLeft' = HeadlineSteps(0) + 0
      BY <1>1, <2>1, <2>4, StepsLeftAfter
    <3>2. BatchSteps * Len(headlineBuffer) = 0
      BY <1>1, <1>2, <2>4, Products
    <3>3. QED BY <2>2, <2>3, <3>1, <3>2
  <2>5. CASE headlineBuffer # <<>>
    <3>1. StepsLeft' = HeadlineSteps(0) + BatchSteps
      BY <1>1, <2>1, <2>5, StepsLeftAfter
    <3>2. PICK n \in Nat : Len(headlineBuffer) = n + 1
      <4>1. Len(headlineBuffer) > 0
        BY <1>1, <2>5
      <4>2. \A m \in Nat : m > 0 => \E n \in Nat : m = n + 1
        OBVIOUS
      <4>3. QED BY <1>2, <4>1, <4>2
    <3>3. /\ BatchSteps * n \in Nat
          /\ BatchSteps * (n + 1) = BatchSteps * n + BatchSteps
      BY <1>2, Products
    <3>4. \A b, p \in Nat : 0 + b \in 0 .. 0 + ((p + b) + 1) - 1
      OBVIOUS
    <3>5. QED BY <1>2, <2>2, <2>3, <3>1, <3>2, <3>3, <3>4
  <2>6. QED BY <2>4, <2>5
<1>6. CASE TakeBatch
  <2>1. /\ pc = "batch" /\ pc' = "complete" /\ headlines' = headlines
        /\ attempt' = 1
    BY <1>6 DEF TakeBatch
  <2>2. /\ StepsLeft = HeadlineSteps(Len(headlines)) + BatchSteps
        /\ StepsLeft' = HeadlineSteps(Len(headlines)) + (BatchSteps - 1)
    BY <2>1, StepsLeftBefore, StepsLeftAfter
  <2>3. HeadlineSteps(Len(headlines)) \in Nat /\ BatchSteps >= 6
    BY <1>2, HeadlineStepsType, BatchStepsType
  <2>4. QED BY <1>2, <2>2, <2>3
<1>7. QED BY <1>3, <1>4, <1>5, <1>6

LEMMA CompletionCounts ==
    ASSUME IInv,
           \/ CompletionRetry \/ CompletionGiveUp \/ CompletionUnparsable
           \/ CompletionEmpty
           \/ \E answer \in Answers : CompletionOk(answer)
    PROVE  StepsLeft' \in 0 .. StepsLeft - 1
<1>1. /\ Len(headlines) \in Nat
      /\ attempt \in 1 .. 5 /\ pc = "complete" /\ attempt <= 3
      /\ headlineBuffer = <<>> /\ Len(<<>>) = 0
  BY LengthsAndAttempts
  DEF IInv, Phases, CompletionRetry, CompletionGiveUp, CompletionUnparsable,
      CompletionEmpty, CompletionOk
<1>2. /\ StepsLeft = HeadlineSteps(Len(headlines)) + (BatchSteps - attempt)
      /\ HeadlineSteps(Len(headlines)) \in Nat /\ HeadlineSteps(0) = 0
      /\ BatchSteps \in Nat /\ BatchSteps >= 6 /\ BatchSteps * 0 = 0
  BY <1>1, StepsLeftBefore, HeadlineStepsType, BatchStepsType, Products
<1>3. CASE CompletionRetry
  <2>1. /\ pc' = "complete" /\ headlines' = headlines
        /\ attempt' = attempt + 1 /\ attempt < 3
    BY <1>1, <1>3 DEF CompletionRetry, CompletionTries
  <2>2. StepsLeft' = HeadlineSteps(Len(headlines)) + (BatchSteps - (attempt + 1))
    BY <2>1, StepsLeftAfter
  <2>3. QED BY <1>1, <1>2, <2>1, <2>2
<1>4. CASE CompletionGiveUp \/ CompletionUnparsable
  <2>1. /\ pc' = "headline" /\ headlines' = headlines
        /\ headlineBuffer' = headlineBuffer
    BY <1>4 DEF CompletionGiveUp, CompletionUnparsable, DropBatch
  <2>2. StepsLeft' = HeadlineSteps(Len(headlines)) + (BatchSteps * 0 + 1)
    BY <1>1, <2>1, StepsLeftAfter
  <2>3. StepsLeft' = HeadlineSteps(Len(headlines)) + 1
    BY <1>2, <2>2
  <2>4. \A h, b \in Nat, k \in 1 .. 5 :
           k <= 3 /\ b >= 6 => h + 1 \in 0 .. h + (b - k) - 1
    OBVIOUS
  <2>5. QED BY <1>1, <1>2, <2>3, <2>4
<1>5. CASE CompletionEmpty
  <2>1. pc' = "done" /\ headlines' = <<>>
    BY <1>5 DEF CompletionEmpty
  <2>2. StepsLeft' = HeadlineSteps(0) + 0
    BY <1>1, <2>1, StepsLeftAfter
  <2>3. StepsLeft' = 0
    BY <1>2, <2>2
  <2>4. \A h, b \in Nat, k \in 1 .. 5 :
           k <= 3 /\ b >= 6 => 0 \in 0 .. h + (b - k) - 1
    OBVIOUS
  <2>5. QED BY <1>1, <1>2, <2>3, <2>4
<1>6. ASSUME NEW answer \in Answers, CompletionOk(answer)
      PROVE  StepsLeft' \in 0 .. StepsLeft - 1
  <2>1. pc' = "store" /\ headlines' = headlines
    BY <1>6 DEF CompletionOk
  <2>2. StepsLeft' = HeadlineSteps(Len(headlines)) + (5 * Len(topics') + 2)
    BY <2>1, StepsLeftAfter
  <2>3. topics' \in Seq(URL) /\ Len(topics') <= MaxTopics
    BY <1>6, AnswerTopics
  <2>4. Len(topics') \in Nat
    BY <2>3
  <2>5. 5 * Len(topics') + 6 <= BatchSteps
    BY <2>3, <2>4, BatchStepsType
  <2>6. \A h, b, t \in Nat, k \in 1 .. 5 :
           k <= 3 /\ 5 * t + 6 <= b =>
              h + (5 * t + 2) \in 0 .. h + (b - k) - 1
    OBVIOUS
  <2>7. QED BY <1>1, <1>2, <2>2, <2>4, <2>5, <2>6
<1>7. QED BY <1>3, <1>4, <1>5, <1>6

(* A slice holds a topic at least.                                          *)
LEMMA SliceLengths ==
    ASSUME IInv, topics # <<>>
    PROVE  LET rest == SubSeq(topics, Len(Chunk) + 1, Len(topics))
           IN  Len(rest) \in Nat /\ Len(rest) < Len(topics)
<1> DEFINE n == IF Len(topics) > maxBatchSize THEN maxBatchSize ELSE Len(topics)
<1>1. topics \in Seq(URL)
  BY DEF IInv, TypeOK
<1>2. /\ Len(topics) \in Nat /\ maxBatchSize \in Nat
      /\ Len(topics) > 0 /\ maxBatchSize > 0
  BY <1>1, TopicAssumption
<1>3. n \in Nat /\ n > 0 /\ n <= Len(topics)
  BY <1>2
<1>4. Chunk = SubSeq(topics, 1, n)
  BY DEF Chunk
<1> HIDE DEF n
<1>5. Len(Chunk) = n
  BY <1>1, <1>2, <1>3, <1>4, Cut
<1>6. n + 1 \in Nat /\ Len(topics) \in Nat
  BY <1>2, <1>3
<1>7. Len(SubSeq(topics, n + 1, Len(topics))) =
        IF n + 1 <= Len(topics) THEN Len(topics) - (n + 1) + 1 ELSE 0
  BY <1>1, <1>2, <1>3, SubSeqProperties
<1>8. QED BY <1>2, <1>3, <1>5, <1>7

LEMMA StoreCounts ==
    ASSUME IInv,
           \/ Stored \/ NextChunk
           \/ \E done \in SUBSET Range(Chunk) : StoreError(done)
           \/ \E done \in SUBSET unprocessed : RewriteError(done)
           \/ \E left \in SUBSET Range(Chunk) : Write(left)
           \/ \E left \in SUBSET unprocessed : Rewrite(left)
    PROVE  StepsLeft' \in 0 .. StepsLeft - 1
<1> DEFINE h == HeadlineSteps(Len(headlines))
<1>1. /\ Len(topics) \in Nat /\ attempt \in 1 .. 5
      /\ pc = "rewrite" => attempt <= 4
      /\ h \in Nat /\ BatchSteps * 0 = 0
  BY LengthsAndAttempts, HeadlineStepsType, BatchStepsType, Products
<1>2. /\ pc \in {"store", "rewrite"}
      /\ headlineBuffer = <<>> /\ Len(<<>>) = 0
  BY DEF IInv, Phases, Stored, StoreError, RewriteError, NextChunk, Write,
     Rewrite
<1>3. /\ pc = "store" => StepsLeft = h + (5 * Len(topics) + 2)
      /\ pc = "rewrite" => StepsLeft = h + (5 * Len(topics) + 7 - attempt)
  BY StepsLeftBefore
<1>4. ASSUME pc' = "headline", headlines' = headlines,
             headlineBuffer' = headlineBuffer
      PROVE  StepsLeft' \in 0 .. StepsLeft - 1
  <2>1. StepsLeft' = h + (BatchSteps * 0 + 1)
    BY <1>2, <1>4, StepsLeftAfter
  <2>2. StepsLeft' = h + 1
    BY <1>1, <2>1
  <2> HIDE DEF h
  <2>3. QED BY <1>1, <1>2, <1>3, <2>2
<1>5. CASE NextChunk
  <2>1. /\ pc = "rewrite" /\ pc' = "store"
        /\ headlines' = headlines /\ topics' = topics
    BY <1>5 DEF NextChunk
  <2>2. StepsLeft' = h + (5 * Len(topics) + 2)
    BY <2>1, StepsLeftAfter
  <2> HIDE DEF h
  <2>3. QED BY <1>1, <1>3, <2>1, <2>2
<1>6. ASSUME NEW left, Write(left)
      PROVE  StepsLeft' \in 0 .. StepsLeft - 1
  <2>1. /\ pc = "store" /\ pc' = "rewrite" /\ topics # <<>>
        /\ headlines' = headlines /\ attempt' = 1
        /\ topics' = SubSeq(topics, Len(Chunk) + 1, Len(topics))
    BY <1>6 DEF Write
  <2>2. StepsLeft' = h + (5 * Len(topics') + 7 - 1)
    BY <2>1, StepsLeftAfter
  <2>3. Len(topics') \in Nat /\ Len(topics') < Len(topics)
    BY <2>1, SliceLengths
  <2>4. \A n, t, k \in Nat :
          k < t => n + (5 * k + 7 - 1) \in 0 .. n + (5 * t + 2) - 1
    OBVIOUS
  <2>5. StepsLeft = h + (5 * Len(topics) + 2)
    BY <1>3, <2>1
  <2> HIDE DEF h
  <2>6. QED BY <1>1, <2>2, <2>3, <2>4, <2>5
<1>7. ASSUME NEW left, Rewrite(left)
      PROVE  StepsLeft' \in 0 .. StepsLeft - 1
  <2>1. /\ pc = "rewrite" /\ pc' = "rewrite" /\ headlines' = headlines
        /\ topics' = topics /\ attempt' = attempt + 1 /\ attempt <= 3
    BY <1>7 DEF Rewrite, RewriteTries
  <2>2. StepsLeft' = h + (5 * Len(topics) + 7 - (attempt + 1))
    BY <2>1, StepsLeftAfter
  <2> HIDE DEF h
  <2>3. QED BY <1>1, <1>3, <2>1, <2>2
<1>8. QED
  BY <1>4, <1>5, <1>6, <1>7 DEF Stored, StoreError, RewriteError, loopVars

(* From the first headline on a run has at most 5 * MaxTopics + 7 steps for *)
(* each one, and one more, where MaxTopics is the longest completion        *)
(* (GenerateTopicsFromHeadlines and all that it calls).                     *)
THEOREM CountedSteps == Spec => EveryStepIsCounted
<1>1. ASSUME IInv, Generate
      PROVE  StepsLeft' \in 0 .. StepsLeft - 1
  BY <1>1, HeadlinesCount, CompletionCounts, StoreCounts DEF Generate
<1>2. IInv /\ [Next]_vars => [Generate => StepsLeft' \in 0 .. StepsLeft - 1]_vars
  BY <1>1
<1>3. QED BY <1>2, Invariance, PTL DEF Spec, EveryStepIsCounted

=============================================================================
