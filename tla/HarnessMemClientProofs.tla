----------------------- MODULE HarnessMemClientProofs -----------------------
(***************************************************************************)
(* Proofs about HarnessMemClient, for every value of the constants.        *)
(***************************************************************************)
EXTENDS HarnessMemClient, FiniteSetTheorems, WellFoundedInduction, TLAPS

USE TimeoutAssumption, BoundsAssumption, SentinelAssumption

\* The fallback message a classification may pass to the extraction.
LEMMA ExtractErrorMessageType ==
    ASSUME NEW p, NEW fallback
    PROVE  ExtractErrorMessage(p, fallback) \in FieldVals \cup {fallback}
BY DEF ExtractErrorMessage, Usable, FieldVals

\* What a response body parses to on the success path is a JSON value.
LEMMA ParsedType ==
    ASSUME NEW b \in Bodies \ {BadUtf8, BadJson}
    PROVE  Parsed(b) \in JsonValues
<1>1. EmptyObject \in Objects
  BY DEF EmptyObject, Objects, OkVals, FieldVals
<1>2. QED
  BY <1>1 DEF Parsed, Bodies, JsonValues

\* Every reply the socket can report classifies into an outcome.
LEMMA ClassifyType ==
    ASSUME NEW r \in Replies \ {NoReply}
    PROVE  Classify(r) \in Outcomes
<1>1. CASE r.kind = "noresp"
  BY <1>1 DEF Classify, Outcomes, Escaped, TransportErr
<1>2. CASE r.kind # "noresp" /\ ~Success(r.status)
  <2>1. r.status \in Statuses
    BY <1>2 DEF Replies, NoReply
  <2>2. ErrorBody(r) \in JsonValues \cup {None}
    BY DEF ErrorBody
  <2>3. ExtractErrorMessage(ErrorBody(r), HttpErrorText(r.status)) \in Messages
    BY <2>1, ExtractErrorMessageType DEF Messages
  <2>4. QED
    BY <1>2, <2>1, <2>2, <2>3 DEF Classify, HttpErrorOutcome, ApiErr, Outcomes
<1>3. CASE r.kind # "noresp" /\ Success(r.status)
  <2>1. CASE r.kind = "cut"
    BY <1>3, <2>1 DEF Classify, SuccessOutcome, Outcomes, Escaped, TransportErr
  <2>2. CASE r.kind = "full" /\ r.body \in {BadUtf8, BadJson}
    BY <1>3, <2>2 DEF Classify, SuccessOutcome, Outcomes, Escaped, TransportErr
  <2>3. CASE r.kind = "full" /\ r.body \notin {BadUtf8, BadJson}
    <3>1. r.body \in Bodies \ {BadUtf8, BadJson}
      BY <2>3 DEF Replies, NoReply
    <3>2. Parsed(r.body) \in JsonValues
      BY <3>1, ParsedType
    <3>3. ExtractErrorMessage(Parsed(r.body), OkFalseText) \in Messages
      BY ExtractErrorMessageType DEF Messages
    <3>4. SuccessOutcome(r) \in Outcomes
      BY <2>3, <3>2, <3>3
      DEF SuccessOutcome, JsonValues, Outcomes, ApiErr, Returned, TransportErr
    <3>5. QED
      BY <1>3, <3>4 DEF Classify
  <2>4. QED
    BY <1>3, <2>1, <2>2, <2>3 DEF Replies, NoReply
<1>4. QED
  BY <1>1, <1>2, <1>3

\* Every request the client builds is a well-formed request.
LEMMA SendRequestType ==
    ASSUME TypeOK,
           NEW op \in Ops, NEW q \in AuditQueries \cup {None}, NEW ids \in IdLists,
           SendRequest(op, q, ids)
    PROVE  TypeOK'
<1>1. Endpoint[op] \in {"GET", "POST"}
  BY DEF Ops, Endpoint
<1>2. QueryKeys(q) \subseteq {"limit", "action", "target_type"}
  BY DEF QueryKeys, AuditQueries
<1>3. req' \in Requests
  BY <1>1, <1>2 DEF SendRequest, Requests, TypeOK
<1>4. QED
  BY <1>3
  DEF SendRequest, TypeOK, Replies, Outcomes

\* Every step of the client and of its environment preserves TypeOK.
LEMMA TypeOKStep == TypeOK /\ [Next]_vars => TypeOK'
<1> SUFFICES ASSUME TypeOK, [Next]_vars PROVE TypeOK'
  OBVIOUS
<1>1. ASSUME NEW op \in PlainOps, CallPlain(op) PROVE TypeOK'
  <2>1. <<>> \in IdLists
    BY DEF IdLists
  <2>2. QED
    BY <1>1, <2>1, SendRequestType DEF CallPlain, PlainOps
<1>2. ASSUME NEW ids \in IdInputs, CallGetObservations(ids) PROVE TypeOK'
  <2>1. NormalizeIds(ids) \in IdLists
    BY DEF IdLists
  <2>2. CASE NormalizeIds(ids) = <<>>
    <3>1. /\ outcome' = ValidationErr /\ sent' = 0 /\ reply' = NoReply
          /\ UNCHANGED <<token, pc, req, status, idle, elapsed, chunks>>
      BY <1>2, <2>2 DEF CallGetObservations
    <3>2. ValidationErr \in Outcomes /\ NoReply \in Replies
      BY DEF Outcomes, Replies
    <3>3. QED
      BY <3>1, <3>2 DEF TypeOK
  <2>3. CASE NormalizeIds(ids) # <<>>
    <3>1. SendRequest("get_observations", None, NormalizeIds(ids))
      BY <1>2, <2>3 DEF CallGetObservations
    <3>2. "get_observations" \in Ops
      BY DEF Ops, Endpoint
    <3>3. QED
      BY <2>1, <3>1, <3>2, SendRequestType
  <2>4. QED
    BY <2>2, <2>3
<1>3. ASSUME NEW q \in AuditQueries, CallAuditLog(q) PROVE TypeOK'
  <2>1. "audit_log" \in Ops /\ <<>> \in IdLists
    BY DEF Ops, Endpoint, IdLists
  <2>2. QED
    BY <1>3, <2>1, SendRequestType DEF CallAuditLog
<1>4. CASE Receive
  <2>1. reply \in Replies \ {NoReply}
    BY <1>4 DEF Receive, TypeOK
  <2>2. Classify(reply) \in Outcomes
    BY <2>1, ClassifyType
  <2>3. QED
    BY <1>4, <2>2 DEF Receive, TypeOK
<1>5. CASE TimeoutFires
  BY <1>5 DEF TimeoutFires, TypeOK, Replies, NoResp, Cut
<1>6. CASE Tick
  BY <1>6 DEF Tick, TypeOK
<1>7. CASE Trickle
  BY <1>7 DEF Trickle, TypeOK
<1>8. ASSUME NEW s \in Statuses, StatusLine(s) PROVE TypeOK'
  BY <1>8 DEF StatusLine, TypeOK
<1>9. ASSUME NEW c \in {"refused", "garbage"}, NoResponse(c) PROVE TypeOK'
  BY <1>9 DEF NoResponse, TypeOK, Replies, NoResp
<1>10. ASSUME NEW c \in {"reset", "short"}, BodyCut(c) PROVE TypeOK'
  BY <1>10 DEF BodyCut, TypeOK, Replies, Cut
<1>11. ASSUME NEW b \in Bodies, Deliver(b) PROVE TypeOK'
  BY <1>11 DEF Deliver, TypeOK, Replies, Full
<1>12. CASE UNCHANGED vars
  BY <1>12 DEF vars, TypeOK
<1>13. QED
  BY <1>1, <1>2, <1>3, <1>4, <1>5, <1>6, <1>7, <1>8, <1>9, <1>10, <1>11, <1>12
  DEF Next, Client, Environment
\* TypeOK is an inductive invariant of the client.
THEOREM TypeCorrect == Spec => []TypeOK
<1>1. Init => TypeOK
  BY DEF Init, TypeOK, Replies, Outcomes
<1>2. TypeOK /\ [Next]_vars => TypeOK'
  BY TypeOKStep
<1>3. QED
  BY <1>1, <1>2, PTL DEF Spec
-----------------------------------------------------------------------------
(***************************************************************************)
(* The outcome a caller sees is the classification of its own call's       *)
(* reply.  With TypeOK this is the inductive invariant the safety          *)
(* theorems rest on: ApiMessagePrecedence and OnlyExplicitFalseFails are   *)
(* facts about Classify once the outcome is known to be Classify(reply).   *)
(***************************************************************************)
OutcomeOfReply ==
    /\ pc = "awaiting" => outcome = NoOutcome
    /\ pc = "idle" /\ reply # NoReply => outcome = Classify(reply)
    /\ pc = "idle" /\ reply = NoReply => outcome \in {NoOutcome, ValidationErr}

IInv == TypeOK /\ OutcomeOfReply

\* Every step keeps the outcome tied to the reply.
LEMMA OutcomeOfReplyStep ==
    ASSUME TypeOK, OutcomeOfReply, [Next]_vars
    PROVE  OutcomeOfReply'
<1>1. ASSUME NEW op, NEW q, NEW ids, SendRequest(op, q, ids) PROVE OutcomeOfReply'
  BY <1>1 DEF SendRequest, OutcomeOfReply
<1>2. ASSUME NEW op \in PlainOps, CallPlain(op) PROVE OutcomeOfReply'
  BY <1>1, <1>2 DEF CallPlain
<1>3. ASSUME NEW ids \in IdInputs, CallGetObservations(ids) PROVE OutcomeOfReply'
  <2>1. CASE NormalizeIds(ids) = <<>>
    BY <1>3, <2>1 DEF CallGetObservations, OutcomeOfReply
  <2>2. CASE NormalizeIds(ids) # <<>>
    BY <1>1, <1>3, <2>2 DEF CallGetObservations
  <2>3. QED
    BY <2>1, <2>2
<1>4. ASSUME NEW q \in AuditQueries, CallAuditLog(q) PROVE OutcomeOfReply'
  BY <1>1, <1>4 DEF CallAuditLog
<1>5. CASE Receive
  BY <1>5 DEF Receive, OutcomeOfReply
<1>6. CASE TimeoutFires
  BY <1>6 DEF TimeoutFires, OutcomeOfReply
<1>7. CASE Environment
  BY <1>7 DEF Environment, Waiting, Tick, Trickle, StatusLine, NoResponse,
              BodyCut, Deliver, OutcomeOfReply
<1>8. CASE UNCHANGED vars
  BY <1>8 DEF vars, OutcomeOfReply
<1>9. QED
  BY <1>2, <1>3, <1>4, <1>5, <1>6, <1>7, <1>8 DEF Next, Client

\* IInv holds in every reachable state.
THEOREM OutcomeInvariant == Spec => []IInv
<1>1. Init => IInv
  BY DEF Init, IInv, TypeOK, OutcomeOfReply, Replies, Outcomes
<1>2. IInv /\ [Next]_vars => IInv'
  <2> SUFFICES ASSUME IInv, [Next]_vars PROVE IInv'
    OBVIOUS
  <2>1. TypeOK'
    BY TypeOKStep DEF IInv
  <2>2. OutcomeOfReply'
    BY OutcomeOfReplyStep DEF IInv
  <2>3. QED
    BY <2>1, <2>2 DEF IInv
<1>3. QED
  BY <1>1, <1>2, PTL DEF Spec
-----------------------------------------------------------------------------
(***************************************************************************)
(* The extraction the code performs is the spec's precedence rule.         *)
(***************************************************************************)
\* The unrolled loop of _extract_error_message picks the same value as the
\* reference: the first key in ErrorKeys order with a non-blank string.
LEMMA ExtractIsRef ==
    ASSUME NEW p, NEW fallback
    PROVE  ExtractErrorMessage(p, fallback) = RefMessage(p, fallback)
<1>1. CASE p \notin Objects
  BY <1>1 DEF ExtractErrorMessage, RefMessage
<1>2. CASE p \in Objects
  <2> DEFINE First(i) == /\ Usable(p[ErrorKeys[i]])
                         /\ \A j \in 1..(i - 1) : ~Usable(p[ErrorKeys[j]])
  <2>0. /\ p[ErrorKeys[1]] = p.error
        /\ p[ErrorKeys[2]] = p.message
        /\ p[ErrorKeys[3]] = p.detail
    BY DEF ErrorKeys
  <2>1. CASE Usable(p.error)
    <3>1. \A i \in 1..3 : First(i) <=> i = 1
      BY <2>0, <2>1
    <3>2. (CHOOSE i \in 1..3 : First(i)) = 1
      BY <3>1
    <3>3. QED
      BY <1>2, <2>0, <2>1, <3>2 DEF ExtractErrorMessage, RefMessage
  <2>2. CASE ~Usable(p.error) /\ Usable(p.message)
    <3>1. \A i \in 1..3 : First(i) <=> i = 2
      BY <2>0, <2>2
    <3>2. (CHOOSE i \in 1..3 : First(i)) = 2
      BY <3>1
    <3>3. QED
      BY <1>2, <2>0, <2>2, <3>2 DEF ExtractErrorMessage, RefMessage
  <2>3. CASE ~Usable(p.error) /\ ~Usable(p.message) /\ Usable(p.detail)
    <3>1. \A i \in 1..3 : First(i) <=> i = 3
      BY <2>0, <2>3
    <3>2. (CHOOSE i \in 1..3 : First(i)) = 3
      BY <3>1
    <3>3. QED
      BY <1>2, <2>0, <2>3, <3>2 DEF ExtractErrorMessage, RefMessage
  <2>4. CASE ~Usable(p.error) /\ ~Usable(p.message) /\ ~Usable(p.detail)
    <3>1. ~\E i \in 1..3 : Usable(p[ErrorKeys[i]])
      BY <2>0, <2>4
    <3>2. QED
      BY <1>2, <2>4, <3>1 DEF ExtractErrorMessage, RefMessage
  <2>5. QED
    BY <2>1, <2>2, <2>3, <2>4
<1>3. QED
  BY <1>1, <1>2

\* Whichever way a reply becomes an API error, its message is the
\* reference message of its body, with the fallback of its status.
LEMMA ClassifyApiMessage ==
    ASSUME NEW r \in Replies \ {NoReply}, Classify(r).kind = "api"
    PROVE  Classify(r).msg = RefMessage(Classify(r).body, FallbackFor(Classify(r).status))
<1>1. CASE r.kind = "noresp"
  BY <1>1 DEF Classify, Escaped, TransportErr
<1>2. CASE r.kind # "noresp" /\ ~Success(r.status)
  <2>1. Classify(r) = HttpErrorOutcome(r)
    BY <1>2 DEF Classify
  <2>2. FallbackFor(r.status) = HttpErrorText(r.status)
    BY <1>2 DEF FallbackFor
  <2>3. QED
    BY <2>1, <2>2, ExtractIsRef DEF HttpErrorOutcome, ApiErr
<1>3. CASE r.kind # "noresp" /\ Success(r.status)
  <2>1. Classify(r) = SuccessOutcome(r)
    BY <1>3 DEF Classify
  <2>2. SuccessOutcome(r)
          = ApiErr(200, ExtractErrorMessage(Parsed(r.body), OkFalseText), Parsed(r.body))
    BY <2>1 DEF SuccessOutcome, Escaped, TransportErr, Returned
  <2>3. FallbackFor(200) = OkFalseText
    BY DEF FallbackFor, Success
  <2>4. QED
    BY <2>1, <2>2, <2>3, ExtractIsRef DEF ApiErr
<1>4. QED
  BY <1>1, <1>2, <1>3

\* In a reachable state an API error is the classification of a reply.
LEMMA ApiOutcomeIsClassified ==
    ASSUME IInv, outcome.kind # "none", outcome.kind # "validation"
    PROVE  /\ reply \in Replies \ {NoReply}
           /\ outcome = Classify(reply)
<1>1. pc = "idle"
  BY DEF IInv, TypeOK, OutcomeOfReply, NoOutcome
<1>2. reply # NoReply
  BY <1>1 DEF IInv, OutcomeOfReply, NoOutcome, ValidationErr
<1>3. QED
  BY <1>1, <1>2 DEF IInv, TypeOK, OutcomeOfReply

\* Every API error a caller sees carries the message the spec's precedence
\* (error, then message, then detail, then the fallback) picks from the
\* body it carries: _extract_error_message at both of its call sites.
THEOREM ApiMessagePrecedenceHolds == Spec => []ApiMessagePrecedence
<1>1. IInv => ApiMessagePrecedence
  <2> SUFFICES ASSUME IInv, outcome.kind = "api"
               PROVE  outcome.msg = RefMessage(outcome.body, FallbackFor(outcome.status))
    BY DEF ApiMessagePrecedence
  <2>1. reply \in Replies \ {NoReply} /\ outcome = Classify(reply)
    BY ApiOutcomeIsClassified
  <2>2. QED
    BY <2>1, ClassifyApiMessage
<1>2. QED
  BY <1>1, OutcomeInvariant, PTL

\* A 2xx JSON object fails the call exactly when its "ok" is the boolean
\* false (the "is False" test of _request, line 75).
THEOREM OnlyExplicitFalseFailsHolds == Spec => []OnlyExplicitFalseFails
<1>1. IInv => OnlyExplicitFalseFails
  <2> SUFFICES ASSUME IInv, pc = "idle", reply.kind = "full", Success(reply.status),
                      Parsed(reply.body) \in Objects
               PROVE  outcome.kind = "api" <=> Parsed(reply.body).ok = "false"
    BY DEF OnlyExplicitFalseFails
  <2>1. outcome = SuccessOutcome(reply)
    BY DEF IInv, OutcomeOfReply, NoReply, Classify
  <2>2. BadUtf8 \notin Objects /\ BadJson \notin Objects
        /\ BadUtf8 # EmptyBody /\ BadJson # EmptyBody
    BY DEF BadUtf8, BadJson, EmptyBody, Objects
  <2>3. reply.body \notin {BadUtf8, BadJson}
    BY <2>2 DEF Parsed
  <2>4. QED
    BY <2>1, <2>3 DEF SuccessOutcome, ApiErr, Returned, TransportErr, Escaped
<1>2. QED
  BY <1>1, OutcomeInvariant, PTL
\* An answer with a status outside 2xx reaches the caller as an API error
\* with that status, whatever became of its body (spec 4.1; HTTPError is
\* caught before the URLError and OSError it subclasses, lines 60-68).
THEOREM ErrorStatusIsApiErrorHolds == Spec => []ErrorStatusIsApiError
<1>1. IInv => ErrorStatusIsApiError
  <2> SUFFICES ASSUME IInv, pc = "idle", reply.kind \in {"full", "cut"},
                      ~Success(reply.status)
               PROVE  /\ outcome.kind = "api"
                      /\ outcome.status = reply.status
                      /\ outcome.body = IF reply.kind = "full" /\ reply.body \in JsonValues
                                        THEN reply.body ELSE None
    BY DEF ErrorStatusIsApiError
  <2>1. outcome = Classify(reply)
    BY DEF IInv, OutcomeOfReply, NoReply
  <2>2. Classify(reply) = HttpErrorOutcome(reply)
    BY DEF Classify
  <2>3. QED
    BY <2>1, <2>2 DEF HttpErrorOutcome, ApiErr, ErrorBody
<1>2. QED
  BY <1>1, OutcomeInvariant, PTL
-----------------------------------------------------------------------------
(***************************************************************************)
(* _normalize_ids keeps only non-blank strings, for inputs of any length.  *)
(* The argument is the least-prefix one: the j-th kept id sits where the   *)
(* count of kept candidates first reaches j, and that least prefix exists  *)
(* because < is well founded on Nat (WFMin).                               *)
(***************************************************************************)
\* No position is kept in the empty prefix.
LEMMA KeptNone ==
    ASSUME NEW c
    PROVE  KeptCount(c, 0) = 0
<1>1. KeptUpTo(c, 0) = {}
  BY DEF KeptUpTo
<1>2. QED
  BY <1>1, FS_EmptySet DEF KeptCount

\* The kept positions of a prefix are finitely many.
LEMMA KeptCountType ==
    ASSUME NEW c, NEW i \in Nat
    PROVE  IsFiniteSet(KeptUpTo(c, i)) /\ KeptCount(c, i) \in Nat
<1>1. IsFiniteSet(1..i)
  BY FS_Interval
<1>2. KeptUpTo(c, i) \subseteq 1..i
  BY DEF KeptUpTo
<1>3. IsFiniteSet(KeptUpTo(c, i))
  BY <1>1, <1>2, FS_Subset
<1>4. QED
  BY <1>3, FS_CardinalityType DEF KeptCount

\* One more candidate raises the count by one exactly when it is kept.
LEMMA KeptStep ==
    ASSUME NEW c, NEW i \in Nat \ {0}
    PROVE  KeptCount(c, i) = KeptCount(c, i - 1) + (IF c[i] \in IdTexts THEN 1 ELSE 0)
<1>1. IsFiniteSet(KeptUpTo(c, i - 1)) /\ KeptCount(c, i - 1) \in Nat
  BY KeptCountType
<1>2. i \notin KeptUpTo(c, i - 1)
  BY DEF KeptUpTo
<1>3. CASE c[i] \in IdTexts
  <2>1. KeptUpTo(c, i) = KeptUpTo(c, i - 1) \cup {i}
    BY <1>3 DEF KeptUpTo
  <2>2. KeptCount(c, i) = KeptCount(c, i - 1) + 1
    BY <1>1, <1>2, <2>1, FS_AddElement DEF KeptCount
  <2>3. QED
    BY <1>3, <2>2
<1>4. CASE c[i] \notin IdTexts
  <2>1. KeptUpTo(c, i) = KeptUpTo(c, i - 1)
    BY <1>4 DEF KeptUpTo
  <2>2. QED
    BY <1>1, <1>4, <2>1 DEF KeptCount
<1>5. QED
  BY <1>3, <1>4

\* For every j up to the count, some kept candidate is the j-th one: the
\* least prefix whose count reaches j ends with it.
LEMMA KeptHit ==
    ASSUME NEW c, NEW n \in Nat, NEW j \in 1..KeptCount(c, n)
    PROVE  \E i \in 1..n : c[i] \in IdTexts /\ KeptCount(c, i) = j
<1> DEFINE Reach == {i \in 0..n : KeptCount(c, i) >= j}
<1>1. Reach \subseteq Nat /\ Reach # {}
  BY KeptCountType
<1>2. PICK m \in Reach : \A y \in Reach : ~(<<y, m>> \in OpToRel(<, Nat))
  BY <1>1, NatLessThanWellFounded, WFMin
<1>3. m # 0
  BY KeptNone
<1>4. KeptCount(c, m - 1) < j
  <2>1. <<m - 1, m>> \in OpToRel(<, Nat)
    BY <1>3 DEF OpToRel
  <2>2. m - 1 \notin Reach
    BY <1>2, <2>1
  <2>3. QED
    BY <1>3, <2>2, KeptCountType
<1>5. KeptCount(c, m) = KeptCount(c, m - 1) + (IF c[m] \in IdTexts THEN 1 ELSE 0)
  BY <1>3, KeptStep
<1>6. QED
  BY <1>3, <1>4, <1>5, KeptCountType

\* A prefix that ends with a kept candidate keeps more than any shorter one.
LEMMA KeptStrict ==
    ASSUME NEW c, NEW i \in Nat, NEW i2 \in Nat, i < i2, c[i2] \in IdTexts
    PROVE  KeptCount(c, i) < KeptCount(c, i2)
<1>1. IsFiniteSet(KeptUpTo(c, i)) /\ IsFiniteSet(KeptUpTo(c, i2))
  BY KeptCountType
<1>2. i2 \notin KeptUpTo(c, i)
  BY DEF KeptUpTo
<1>3. Cardinality(KeptUpTo(c, i) \cup {i2}) = KeptCount(c, i) + 1
  BY <1>1, <1>2, FS_AddElement DEF KeptCount
<1>4. KeptUpTo(c, i) \cup {i2} \subseteq KeptUpTo(c, i2)
  BY DEF KeptUpTo
<1>5. Cardinality(KeptUpTo(c, i) \cup {i2}) <= KeptCount(c, i2)
  BY <1>1, <1>4, FS_Subset DEF KeptCount
<1>6. QED
  BY <1>3, <1>5, KeptCountType

\* A longer prefix keeps at least as many candidates.
LEMMA KeptMono ==
    ASSUME NEW c, NEW i \in Nat, NEW i2 \in Nat, i <= i2
    PROVE  KeptCount(c, i) <= KeptCount(c, i2)
<1>1. IsFiniteSet(KeptUpTo(c, i2))
  BY KeptCountType
<1>2. KeptUpTo(c, i) \subseteq KeptUpTo(c, i2)
  BY DEF KeptUpTo
<1>3. QED
  BY <1>1, <1>2, FS_Subset DEF KeptCount

\* Two kept candidates with the same count are the same candidate.
LEMMA KeptUnique ==
    ASSUME NEW c, NEW i \in Nat, NEW i2 \in Nat, c[i] \in IdTexts, c[i2] \in IdTexts,
           KeptCount(c, i) = KeptCount(c, i2)
    PROVE  i = i2
<1>1. KeptCount(c, i) \in Nat /\ KeptCount(c, i2) \in Nat
  BY KeptCountType
<1>2. i < i2 => KeptCount(c, i) < KeptCount(c, i2)
  BY KeptStrict
<1>3. i2 < i => KeptCount(c, i2) < KeptCount(c, i)
  BY KeptStrict
<1>4. QED
  BY <1>1, <1>2, <1>3

\* The candidates are a list, whichever form the caller passed.
LEMMA CandidatesType ==
    ASSUME NEW ids \in IdInputs
    PROVE  Candidates(ids) \in Seq(IdAtoms \cup {NonStr})
<1>1. CASE ids \in IdAtoms
  BY <1>1 DEF Candidates
<1>2. CASE ids \notin IdAtoms
  <2>1. PICK n \in 0..MaxIds : ids \in [1..n -> IdAtoms \cup {NonStr}]
    BY <1>2 DEF IdInputs
  <2>2. QED
    BY <1>2, <2>1 DEF Candidates
<1>3. QED
  BY <1>1, <1>2

\* What get_observations sends is a list of non-blank ids, whatever the
\* caller passed.
LEMMA NormalizeIdsType ==
    ASSUME NEW ids \in IdInputs
    PROVE  NormalizeIds(ids) \in Seq(IdTexts)
<1> DEFINE c == Candidates(ids)
<1>1. c \in Seq(IdAtoms \cup {NonStr})
  BY CandidatesType
<1>2. KeptCount(c, Len(c)) \in Nat
  BY <1>1, KeptCountType
<1>3. \A j \in 1..KeptCount(c, Len(c)) :
         c[CHOOSE i \in 1..Len(c) : c[i] \in IdTexts /\ KeptCount(c, i) = j] \in IdTexts
  <2> TAKE j \in 1..KeptCount(c, Len(c))
  <2>1. \E i \in 1..Len(c) : c[i] \in IdTexts /\ KeptCount(c, i) = j
    BY <1>1, KeptHit
  <2>2. QED
    BY <2>1
<1>4. QED
  BY <1>2, <1>3 DEF NormalizeIds

\* The counting form of _normalize_ids is the list comprehension: for
\* inputs of every length it keeps every non-blank string id, only those,
\* each once and in the caller's order.
THEOREM NormalizeIdsIsFilterHolds == NormalizeIdsIsFilter
<1> SUFFICES ASSUME NEW ids \in IdInputs
             PROVE  IsOrderedFilter(NormalizeIds(ids), Candidates(ids))
  BY DEF NormalizeIdsIsFilter
<1> DEFINE c == Candidates(ids)
           n == Len(c)
           N == KeptCount(c, n)
           Pos(j) == CHOOSE i \in 1..n : c[i] \in IdTexts /\ KeptCount(c, i) = j
           r == NormalizeIds(ids)
           f == [j \in 1..N |-> Pos(j)]
<1>1. n \in Nat /\ N \in Nat
  BY CandidatesType, KeptCountType
<1>2. r = [j \in 1..N |-> c[Pos(j)]] /\ Len(r) = N
  BY <1>1 DEF NormalizeIds
<1>3. \A j \in 1..N : Pos(j) \in 1..n /\ c[Pos(j)] \in IdTexts /\ KeptCount(c, Pos(j)) = j
  <2> TAKE j \in 1..N
  <2>1. \E i \in 1..n : c[i] \in IdTexts /\ KeptCount(c, i) = j
    BY <1>1, KeptHit
  <2>2. QED
    BY <2>1
<1>4. f \in [1..Len(r) -> 1..n]
  BY <1>2, <1>3
<1>5. \A j, k \in 1..Len(r) : j < k => f[j] < f[k]
  <2> SUFFICES ASSUME NEW j \in 1..Len(r), NEW k \in 1..Len(r), j < k
               PROVE  f[j] < f[k]
    OBVIOUS
  <2>0. j \in 1..N /\ k \in 1..N
    BY <1>2
  <2> SUFFICES Pos(j) < Pos(k)
    BY <2>0
  <2>1. Pos(j) \in 1..n /\ Pos(k) \in 1..n
    BY <1>3, <2>0
  <2>5. Pos(j) \in Nat /\ Pos(k) \in Nat
    BY <1>1, <2>1
  <2>2. Pos(k) <= Pos(j) => KeptCount(c, Pos(k)) <= KeptCount(c, Pos(j))
    BY <2>1, KeptMono
  <2>3. KeptCount(c, Pos(j)) = j /\ KeptCount(c, Pos(k)) = k
    BY <1>3, <2>0
  <2>4. QED
    BY <2>2, <2>3, <2>5
<1>6. \A j \in 1..Len(r) : r[j] = c[f[j]]
  BY <1>2
<1>7. {f[j] : j \in 1..Len(r)} = {i \in 1..n : c[i] \in IdTexts}
  <2>1. ASSUME NEW j \in 1..Len(r) PROVE f[j] \in {i \in 1..n : c[i] \in IdTexts}
    <3>1. j \in 1..N
      BY <1>2
    <3>2. QED
      BY <1>3, <3>1
  <2>2. ASSUME NEW i \in 1..n, c[i] \in IdTexts
        PROVE  \E j \in 1..Len(r) : f[j] = i
    <3> DEFINE j == KeptCount(c, i)
    <3>0. i \in Nat \ {0} /\ n \in Nat
      BY <1>1
    <3>1. j \in 1..N
      <4>1. KeptCount(c, i - 1) \in Nat
        BY <3>0, KeptCountType
      <4>2. j = KeptCount(c, i - 1) + 1
        BY <2>2, <3>0, KeptStep
      <4>3. j <= N
        BY <3>0, KeptMono
      <4>4. QED
        BY <1>1, <4>1, <4>2, <4>3
    <3>2. Pos(j) \in 1..n /\ c[Pos(j)] \in IdTexts /\ KeptCount(c, Pos(j)) = j
      BY <1>3, <3>1
    <3>3. Pos(j) \in Nat
      BY <1>1, <3>2
    <3>4. Pos(j) = i
      BY <2>2, <3>0, <3>2, <3>3, KeptUnique
    <3>5. QED
      BY <1>2, <3>1, <3>4
  <2>3. {f[j] : j \in 1..Len(r)} \subseteq {i \in 1..n : c[i] \in IdTexts}
    BY <2>1
  <2>4. {i \in 1..n : c[i] \in IdTexts} \subseteq {f[j] : j \in 1..Len(r)}
    BY <2>2
  <2>5. QED
    BY <2>3, <2>4
<1>8. QED
  BY <1>4, <1>5, <1>6, <1>7 DEF IsOrderedFilter

-----------------------------------------------------------------------------
(***************************************************************************)
(* get_observations never sends a blank id and never sends after a        *)
(* rejection.  With TypeOK the property is inductive as it stands: no      *)
(* classification of a reply is a validation error, and only a non-empty   *)
(* normalized list reaches SendRequest.                                    *)
(***************************************************************************)
\* A reply never classifies as the local validation error.
LEMMA ClassifyNotValidation ==
    ASSUME NEW r
    PROVE  Classify(r).kind # "validation"
BY DEF Classify, SuccessOutcome, HttpErrorOutcome, ApiErr, TransportErr, Escaped, Returned

\* Every step keeps the rejection and the sent ids as the property says.
LEMMA NoRequestWithoutIdsStep ==
    ASSUME TypeOK, NoRequestWithoutIds, [Next]_vars
    PROVE  NoRequestWithoutIds'
<1>1. ASSUME NEW op \in Ops \ {"get_observations"}, NEW q, NEW ids,
             SendRequest(op, q, ids)
      PROVE  NoRequestWithoutIds'
  BY <1>1 DEF SendRequest, NoRequestWithoutIds, NoOutcome
<1>2. ASSUME NEW op \in PlainOps, CallPlain(op) PROVE NoRequestWithoutIds'
  BY <1>1, <1>2 DEF CallPlain, PlainOps
<1>3. ASSUME NEW ids \in IdInputs, CallGetObservations(ids) PROVE NoRequestWithoutIds'
  <2>1. CASE NormalizeIds(ids) = <<>>
    BY <1>3, <2>1 DEF CallGetObservations, NoRequestWithoutIds, ValidationErr
  <2>2. CASE NormalizeIds(ids) # <<>>
    <3>1. NormalizeIds(ids) \in Seq(IdTexts)
      BY NormalizeIdsType
    <3>2. SendRequest("get_observations", None, NormalizeIds(ids))
      BY <1>3, <2>2 DEF CallGetObservations
    <3>3. QED
      BY <2>2, <3>1, <3>2 DEF SendRequest, NoRequestWithoutIds, NoOutcome
  <2>3. QED
    BY <2>1, <2>2
<1>4. ASSUME NEW q \in AuditQueries, CallAuditLog(q) PROVE NoRequestWithoutIds'
  <2>1. "audit_log" \in Ops \ {"get_observations"}
    BY DEF Ops, Endpoint
  <2>2. QED
    BY <1>1, <1>4, <2>1 DEF CallAuditLog
<1>5. CASE Receive
  BY <1>5, ClassifyNotValidation DEF Receive, NoRequestWithoutIds, NoReq
<1>6. CASE TimeoutFires \/ Environment
  BY <1>6 DEF TimeoutFires, Environment, Waiting, Tick, Trickle, StatusLine,
              NoResponse, BodyCut, Deliver, NoRequestWithoutIds
<1>7. CASE UNCHANGED vars
  BY <1>7 DEF vars, NoRequestWithoutIds
<1>8. QED
  BY <1>2, <1>3, <1>4, <1>5, <1>6, <1>7 DEF Next, Client

\* get_observations raises ValueError before any request when no id is
\* left after normalization, and every id it sends is a non-blank string
\* (spec 4.3; _normalize_ids and its call site).
THEOREM NoRequestWithoutIdsHolds == Spec => []NoRequestWithoutIds
<1>1. Init => TypeOK /\ NoRequestWithoutIds
  BY DEF Init, TypeOK, Replies, Outcomes, NoRequestWithoutIds, NoOutcome, NoReq
<1>2. TypeOK /\ NoRequestWithoutIds /\ [Next]_vars => (TypeOK /\ NoRequestWithoutIds)'
  BY TypeOKStep, NoRequestWithoutIdsStep
<1>3. QED
  BY <1>1, <1>2, PTL DEF Spec
=============================================================================
