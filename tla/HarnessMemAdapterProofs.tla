---------------------- MODULE HarnessMemAdapterProofs -----------------------
(***************************************************************************)
(* Proofs about HarnessMemAdapter, for every value of the constants.       *)
(***************************************************************************)
EXTENDS HarnessMemAdapter, TLAPS

USE AdapterStatusAssumption, LimitAssumption, SentinelAssumption

\* A length is never one of the sentinels for a missing or null value.
LEMMA LensAreNotSentinels == \A x \in InputLens : x \notin {Absent, None}
BY LimitAssumption, SentinelAssumption

\* Whatever _request and the method make of an answer is an outcome.
LEMMA ResultType ==
    ASSUME NEW m \in Methods, NEW r \in Replies \ {NoReply}
    PROVE  Result(m, r) \in Outcomes
<1>1. CASE Fetch(r).kind = "raised"
  BY <1>1 DEF Result, Fetch, Raised, Returned, Outcomes, Excs
<1>2. CASE Fetch(r).kind # "raised"
  <2>1. Fetch(r).value \in Objects \cup NonObjects
    BY <1>2 DEF Fetch, Raised, Returned, Replies, NoReply, Bodies, EmptyObject,
                Objects, OkVals, ItemsVals
  <2>2. PostProcess(m, Fetch(r).value) \in Outcomes
    BY <2>1 DEF PostProcess, Raised, Returned, Outcomes, Excs, Values, Objects,
                ItemsVals
  <2>3. QED
    BY <1>2, <2>2 DEF Result
<1>3. QED
  BY <1>1, <1>2

\* The title and content lengths save_context computes are within the
\* limits, and the title is never empty.
LEMMA CheckpointFields ==
    ASSUME NEW i \in TextVals, NEW o \in TextVals
    PROVE  /\ Prefix(TitleOf(i), TitleLimit) \in 1..TitleLimit
           /\ Prefix(ContentOf(o), ContentLimit) \in 0..ContentLimit
<1>1. TitleOf(i) \in Nat \ {0}
  <2>1. CASE i \in {Absent, None, 0}
    BY <2>1 DEF TitleOf, DefaultTitleLen
  <2>2. CASE i \notin {Absent, None, 0}
    <3>1. i \in InputLens
      BY <2>2 DEF TextVals
    <3>2. QED
      BY <2>2, <3>1 DEF TitleOf
  <2>3. QED
    BY <2>1, <2>2
<1>2. ContentOf(o) \in Nat
  <2>1. CASE o \in {Absent, None}
    BY <2>1 DEF ContentOf
  <2>2. CASE o \notin {Absent, None}
    <3>1. o \in InputLens
      BY <2>2 DEF TextVals
    <3>2. QED
      BY <2>2, <3>1 DEF ContentOf
  <2>3. QED
    BY <2>1, <2>2
<1>3. QED
  BY <1>1, <1>2 DEF Prefix

\* On a caller's text of length n, the slices keep the whole text when it
\* fits and the first TitleLimit (ContentLimit) characters otherwise.
LEMMA SliceOfText ==
    ASSUME NEW n \in InputLens
    PROVE  /\ n # 0 /\ n <= TitleLimit => Prefix(TitleOf(n), TitleLimit) = n
           /\ n > TitleLimit => Prefix(TitleOf(n), TitleLimit) = TitleLimit
           /\ n <= ContentLimit => Prefix(ContentOf(n), ContentLimit) = n
           /\ n > ContentLimit => Prefix(ContentOf(n), ContentLimit) = ContentLimit
<1>1. n \in Nat /\ n \notin {Absent, None}
  BY LensAreNotSentinels
<1>2. n # 0 => TitleOf(n) = n
  BY <1>1 DEF TitleOf
<1>3. ContentOf(n) = n
  BY <1>1 DEF ContentOf
<1>4. QED
  BY <1>1, <1>2, <1>3 DEF Prefix

\* A missing or falsy input is titled "langchain-input", and a missing or
\* None output is saved as "".
LEMMA SliceOfFallback ==
    /\ \A i \in {Absent, None, 0} : Prefix(TitleOf(i), TitleLimit) = Prefix(DefaultTitleLen, TitleLimit)
    /\ \A o \in {Absent, None} : Prefix(ContentOf(o), ContentLimit) = 0
<1>1. \A i \in {Absent, None, 0} : TitleOf(i) = DefaultTitleLen
  BY DEF TitleOf
<1>2. \A o \in {Absent, None} : ContentOf(o) = 0
  BY DEF ContentOf
<1>3. QED
  BY <1>1, <1>2, LimitAssumption DEF Prefix

\* Every request a method builds is a well-formed request.
LEMMA RequestType ==
    ASSUME NEW m \in Methods, token \in {None, EmptyStr} \cup Secrets,
           NEW title \in (1..TitleLimit) \cup {NoField},
           NEW content \in (0..ContentLimit) \cup {NoField}
    PROVE  Request(m, title, content) \in Requests
BY DEF Request, Requests, HeaderNames, Truthy
-----------------------------------------------------------------------------
(***************************************************************************)
(* The inductive invariant: the outcome is the result of the call's own    *)
(* answer, and the request in place is the one the call's inputs and the  *)
(* token give.                                                             *)
(***************************************************************************)
ResultOfReply ==
    /\ pc = "awaiting" => outcome = NoOutcome
    /\ pc = "idle" /\ reply # NoReply => outcome = Result(call, reply)
    /\ pc = "idle" /\ reply = NoReply => outcome = NoOutcome

RequestOfCall ==
    req # NoReq =>
        /\ req.headers = HeaderNames(token)
        /\ req.bearer = IF Truthy(token) THEN token ELSE None
        /\ req.path = Path["save_context"] =>
              /\ req.title = Prefix(TitleOf(saved[1]), TitleLimit)
              /\ req.content = Prefix(ContentOf(saved[2]), ContentLimit)

AInv == ATypeOK /\ ResultOfReply /\ RequestOfCall

\* Every step of a method or of the environment preserves AInv.
LEMMA AInvStep == AInv /\ [ANext]_avars => AInv'
<1> SUFFICES ASSUME AInv, [ANext]_avars PROVE AInv'
  OBVIOUS
<1>1. ASSUME NEW m \in Methods, NEW title \in (1..TitleLimit) \cup {NoField},
             NEW content \in (0..ContentLimit) \cup {NoField},
             Send(m, title, content),
             saved' \in TextVals \X TextVals,
             m = "save_context" => /\ title = Prefix(TitleOf(saved'[1]), TitleLimit)
                                   /\ content = Prefix(ContentOf(saved'[2]), ContentLimit)
      PROVE  AInv'
  <2>1. Request(m, title, content) \in Requests
    BY <1>1, RequestType DEF AInv, ATypeOK
  <2>2. ATypeOK'
    BY <1>1, <2>1 DEF Send, AInv, ATypeOK, Outcomes, Replies
  <2>3. ResultOfReply'
    BY <1>1 DEF Send, ResultOfReply
  <2>4. m # "save_context" => Path[m] # Path["save_context"]
    BY DEF Path, Methods
  <2>5. RequestOfCall'
    BY <1>1, <2>4 DEF Send, Request, RequestOfCall
  <2>6. QED
    BY <2>2, <2>3, <2>5 DEF AInv
<1>2. CASE Invoke \/ LoadMemoryVariables \/ Clear
  <2>1. saved' \in TextVals \X TextVals
    BY <1>2 DEF Invoke, LoadMemoryVariables, Clear, AInv, ATypeOK
  <2>2. NoField \in (1..TitleLimit) \cup {NoField} /\ NoField \in (0..ContentLimit) \cup {NoField}
    OBVIOUS
  <2>3. CASE Invoke
    BY <1>1, <2>1, <2>2, <2>3 DEF Invoke, Methods
  <2>4. CASE LoadMemoryVariables
    BY <1>1, <2>1, <2>2, <2>4 DEF LoadMemoryVariables, Methods
  <2>5. CASE Clear
    BY <1>1, <2>1, <2>2, <2>5 DEF Clear, Methods
  <2>6. QED
    BY <1>2, <2>3, <2>4, <2>5
<1>3. ASSUME NEW i \in TextVals, NEW o \in TextVals, SaveContext(i, o) PROVE AInv'
  <2>1. Prefix(TitleOf(i), TitleLimit) \in 1..TitleLimit
        /\ Prefix(ContentOf(o), ContentLimit) \in 0..ContentLimit
    BY CheckpointFields
  <2>2. QED
    BY <1>1, <1>3, <2>1 DEF SaveContext, Methods
<1>4. CASE Return
  <2>1. Result(call, reply) \in Outcomes
    BY <1>4, ResultType DEF Return, AInv, ATypeOK
  <2>2. QED
    BY <1>4, <2>1 DEF Return, AInv, ATypeOK, ResultOfReply, RequestOfCall
<1>5. ASSUME NEW r \in Replies \ {NoReply}, Answer(r) PROVE AInv'
  BY <1>5 DEF Answer, AInv, ATypeOK, ResultOfReply, RequestOfCall
<1>6. CASE UNCHANGED avars
  BY <1>6 DEF avars, AInv, ATypeOK, ResultOfReply, RequestOfCall
<1>7. QED
  BY <1>2, <1>3, <1>4, <1>5, <1>6 DEF ANext

\* AInv holds in every reachable state.
THEOREM AdapterInvariant == ASpec => []AInv
<1>1. Init => AInv
  BY DEF Init, AInv, ATypeOK, ResultOfReply, RequestOfCall, Replies, Outcomes,
         TextVals, Methods
<1>2. QED
  BY <1>1, AInvStep, PTL DEF ASpec

\* Every variable ranges over the values the adapter's code can give it.
THEOREM ATypeCorrect == ASpec => []ATypeOK
BY AdapterInvariant, PTL DEF AInv
-----------------------------------------------------------------------------
\* The checkpoint save_context records has a non-empty title of at most
\* TitleLimit characters and content of at most ContentLimit characters,
\* the caller's own texts whenever they fit (lines 87-98).
THEOREM CheckpointTruncatedHolds == ASpec => []CheckpointTruncated
<1>1. AInv => CheckpointTruncated
  <2> SUFFICES ASSUME AInv, req # NoReq, req.path = Path["save_context"]
               PROVE  CheckpointTruncated
    BY DEF CheckpointTruncated
  <2>1. /\ req.title = Prefix(TitleOf(saved[1]), TitleLimit)
        /\ req.content = Prefix(ContentOf(saved[2]), ContentLimit)
        /\ saved[1] \in TextVals /\ saved[2] \in TextVals
    BY DEF AInv, RequestOfCall, ATypeOK
  <2>2. req.title \in 1..TitleLimit /\ req.content \in 0..ContentLimit
    BY <2>1, CheckpointFields
  <2>3. saved[1] \in InputLens =>
          /\ saved[1] # 0 /\ saved[1] <= TitleLimit => req.title = saved[1]
          /\ saved[1] > TitleLimit => req.title = TitleLimit
    <3> SUFFICES ASSUME saved[1] \in InputLens
                 PROVE  /\ saved[1] # 0 /\ saved[1] <= TitleLimit => req.title = saved[1]
                        /\ saved[1] > TitleLimit => req.title = TitleLimit
      OBVIOUS
    <3>1. PICK n \in InputLens : n = saved[1]
      OBVIOUS
    <3>2. /\ n # 0 /\ n <= TitleLimit => Prefix(TitleOf(n), TitleLimit) = n
          /\ n > TitleLimit => Prefix(TitleOf(n), TitleLimit) = TitleLimit
      BY SliceOfText
    <3>3. req.title = Prefix(TitleOf(n), TitleLimit)
      BY <2>1, <3>1
    <3>4. QED
      BY <3>1, <3>2, <3>3
  <2>4. saved[2] \in InputLens =>
          /\ saved[2] <= ContentLimit => req.content = saved[2]
          /\ saved[2] > ContentLimit => req.content = ContentLimit
    <3> SUFFICES ASSUME saved[2] \in InputLens
                 PROVE  /\ saved[2] <= ContentLimit => req.content = saved[2]
                        /\ saved[2] > ContentLimit => req.content = ContentLimit
      OBVIOUS
    <3>1. PICK n \in InputLens : n = saved[2]
      OBVIOUS
    <3>2. /\ n <= ContentLimit => Prefix(ContentOf(n), ContentLimit) = n
          /\ n > ContentLimit => Prefix(ContentOf(n), ContentLimit) = ContentLimit
      BY SliceOfText
    <3>3. req.content = Prefix(ContentOf(n), ContentLimit)
      BY <2>1, <3>1
    <3>4. QED
      BY <3>1, <3>2, <3>3
  <2>6. saved[1] \in {Absent, None, 0} => req.title = Prefix(DefaultTitleLen, TitleLimit)
    BY <2>1, SliceOfFallback
  <2>7. saved[2] \in {Absent, None} => req.content = 0
    BY <2>1, SliceOfFallback
  <2>5. QED
    BY <2>2, <2>3, <2>4, <2>6, <2>7 DEF CheckpointTruncated
<1>2. QED
  BY <1>1, AdapterInvariant, PTL

\* An adapter call returns normally only after a complete, decodable 2xx
\* answer: nothing in the adapter catches HTTPError or a failed read.
THEOREM ReturnsOnlyOnSuccessHolds == ASpec => []ReturnsOnlyOnSuccess
<1>1. AInv => ReturnsOnlyOnSuccess
  <2> SUFFICES ASSUME AInv, pc = "idle", outcome.kind = "ok"
               PROVE  /\ reply.kind = "full"
                      /\ Success(reply.status)
                      /\ reply.body \notin {BadUtf8, BadJson}
    BY DEF ReturnsOnlyOnSuccess
  <2>1. reply # NoReply /\ reply \in Replies
    BY DEF AInv, ResultOfReply, ATypeOK, NoOutcome
  <2>2. outcome = Result(call, reply)
    BY <2>1 DEF AInv, ResultOfReply
  <2>3. Fetch(reply).kind # "raised"
    BY <2>2 DEF Result, Raised
  <2>4. QED
    BY <2>1, <2>3 DEF Fetch, Raised, Returned, Replies, NoReply
<1>2. QED
  BY <1>1, AdapterInvariant, PTL
=============================================================================
