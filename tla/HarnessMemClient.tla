-------------------------- MODULE HarnessMemClient --------------------------
(***************************************************************************)
(* The request/response contract layer of the Python SDK                   *)
(* (src/python-sdk/harness_mem/client.py, class HarnessMemClient).         *)
(*                                                                         *)
(* One caller issues typed calls one at a time.  A call builds a request   *)
(* (_request lines 47-54), blocks in urlopen (line 57) while the network   *)
(* and the memory service -- the environment -- answer, and then the code  *)
(* after urlopen classifies what came back (lines 56-82) into a returned   *)
(* envelope or one of the SDK's errors.  Payload contents that the client  *)
(* only passes through are abstracted away; what is kept is what the       *)
(* classification and the request shape depend on.                         *)
(***************************************************************************)
EXTENDS Naturals, Sequences, FiniteSets

CONSTANTS
    None,       \* Python None: an absent query value, an unset token
    EmptyStr,   \* the empty string "" (a falsy token)
    Secrets,    \* non-empty token strings
    Texts,      \* strings that are non-empty after strip()
    Blank,      \* a string that is empty after strip()
    NonStr,     \* a JSON value that is not a string (number, list, ...)
    Absent,     \* a key missing from a JSON object
    IdTexts,    \* observation ids that are non-empty after strip()
    MaxIds,     \* longest id list a caller passes to get_observations
    Statuses,   \* HTTP status codes the service or a proxy may answer
    Timeout,    \* timeout_sec, in ticks of the model's clock
    MaxChunks   \* how often a slow server may trickle a partial answer

ASSUME StatusAssumption == Statuses \subseteq (200..299) \cup (400..599)
ASSUME TimeoutAssumption == Timeout \in Nat \ {0}
ASSUME BoundsAssumption == MaxIds \in Nat /\ MaxChunks \in Nat
\* A status code is a number, never Python None.
ASSUME SentinelAssumption == None \notin Statuses

VARIABLES
    token,    \* HarnessMemClient.token
    pc,       \* "idle": no call in flight; "awaiting": blocked in urlopen/read
    req,      \* the Request object of the call in flight, or NoReq
    sent,     \* how many requests the current call has put on the wire
    status,   \* status line received so far, or None
    idle,     \* ticks since the socket last received data
    elapsed,  \* ticks since the call was sent
    chunks,   \* partial data the server has trickled in this call
    reply,    \* how the exchange ended, as seen by the socket, or NoReply
    outcome   \* what the current or last call returned or raised

vars == <<token, pc, req, sent, status, idle, elapsed, chunks, reply, outcome>>
-----------------------------------------------------------------------------
(***************************************************************************)
(* Data.                                                                   *)
(***************************************************************************)
Success(s) == s \in 200..299

\* The JSON value of "ok": only the boolean false counts as failure (line 75).
OkVals == {"absent", "true", "false", "null", "zero"}
FieldVals == {Absent, Blank, NonStr} \cup Texts
\* A JSON object, by the fields the client looks at.
Objects == [ok : OkVals, error : FieldVals, message : FieldVals, detail : FieldVals]
EmptyObject == [ok |-> "absent", error |-> Absent, message |-> Absent, detail |-> Absent]
\* A top-level JSON array, or a scalar (number, string, true/false, null).
NonObjects == {[json |-> "array"], [json |-> "scalar"]}
JsonValues == Objects \cup NonObjects
\* A raw response body: JSON text, nothing, invalid UTF-8, or invalid JSON.
EmptyBody == [raw |-> "empty"]
BadUtf8 == [raw |-> "badutf8"]
BadJson == [raw |-> "badjson"]
Bodies == JsonValues \cup {EmptyBody, BadUtf8, BadJson}

NoReply == [kind |-> "none"]
\* urlopen failed before a status line: refused/DNS, timeout, or not HTTP.
NoResp(c) == [kind |-> "noresp", cause |-> c]
\* A status line arrived but the body was cut: timeout, reset, short read.
Cut(s, c) == [kind |-> "cut", status |-> s, cause |-> c]
Full(s, b) == [kind |-> "full", status |-> s, body |-> b]
Replies ==
    {NoReply}
    \cup [kind : {"noresp"}, cause : {"refused", "timeout", "garbage"}]
    \cup [kind : {"cut"}, status : Statuses, cause : {"timeout", "reset", "short"}]
    \cup [kind : {"full"}, status : Statuses, body : Bodies]

\* Fallback messages: str(HTTPError) and the ok=false default (line 78).
HttpErrorText(s) == <<"http_error", s>>
OkFalseText == <<"ok_false", 200>>
Messages == FieldVals \cup {HttpErrorText(s) : s \in Statuses} \cup {OkFalseText}

NoOutcome == [kind |-> "none"]
Returned(e) == [kind |-> "ok", body |-> e]
TransportErr(m) == [kind |-> "transport", msg |-> m]
ApiErr(s, m, b) == [kind |-> "api", status |-> s, msg |-> m, body |-> b]
ValidationErr == [kind |-> "validation"]
\* An exception that escapes the SDK's error taxonomy unwrapped.
Escaped(e) == [kind |-> "escaped", exc |-> e]
Outcomes ==
    {NoOutcome, ValidationErr}
    \cup [kind : {"ok"}, body : Objects]
    \cup [kind : {"transport"}, msg : {"os_error", "invalid_json", "not_object"}]
    \cup [kind : {"api"}, status : Statuses \cup {200}, msg : Messages,
          body : JsonValues \cup {None}]
    \cup [kind : {"escaped"}, exc : {"BadStatusLine", "IncompleteRead", "UnicodeDecodeError"}]
-----------------------------------------------------------------------------
(***************************************************************************)
(* The typed operation surface: every endpoint and its HTTP method.        *)
(***************************************************************************)
Endpoint ==
    [health |-> "GET", search |-> "POST", timeline |-> "POST",
     get_observations |-> "POST", record_event |-> "POST",
     record_checkpoint |-> "POST", finalize_session |-> "POST",
     resume_pack |-> "POST", run_consolidation |-> "POST",
     consolidation_status |-> "GET", audit_log |-> "GET"]
Ops == DOMAIN Endpoint
\* Operations whose payload the client passes through without checking.
PlainOps == Ops \ {"get_observations", "audit_log"}
BodyMethods == {"POST", "PUT", "PATCH"}

\* audit_log's query: limit is an int, action and target_type optional.
AuditQueries == [limit : {"v"}, action : {"v", None}, target_type : {"v", None}]
\* The query keys that reach the URL: those whose value is not None.
QueryKeys(q) == IF q = None THEN {} ELSE {k \in DOMAIN q : q[k] # None}

\* What a caller may pass as ids: one string, or a list of anything.
IdAtoms == IdTexts \cup {Blank}
IdInputs == IdAtoms \cup UNION {[1..n -> IdAtoms \cup {NonStr}] : n \in 0..MaxIds}

\* Lines 94-97: a single string is wrapped, anything else is listed.
Candidates(ids) == IF ids \in IdAtoms THEN <<ids>> ELSE ids

\* The positions up to i of the list comprehension's kept candidates: the
\* strings that are non-blank after strip().
KeptUpTo(c, i) == {k \in 1..i : c[k] \in IdTexts}
KeptCount(c, i) == Cardinality(KeptUpTo(c, i))

\* _normalize_ids: the comprehension keeps the non-blank strings in order,
\* so its j-th element is the candidate at which the j-th one is kept.
NormalizeIds(ids) ==
    LET c == Candidates(ids)
    IN  [j \in 1..KeptCount(c, Len(c)) |->
            c[CHOOSE i \in 1..Len(c) : c[i] \in IdTexts /\ KeptCount(c, i) = j]]

\* _headers: the custom token header only when the token is truthy.
Truthy(t) == t \notin {None, EmptyStr}
Headers(t) ==
    IF Truthy(t)
    THEN [h \in {"content-type", "x-harness-mem-token"} |->
            IF h = "content-type" THEN "application/json" ELSE t]
    ELSE [h \in {"content-type"} |-> "application/json"]

NoReq == [op |-> "none"]
IdLists == {NormalizeIds(x) : x \in IdInputs} \cup {<<>>}
Requests ==
    [op : Ops, method : {"GET", "POST"}, query : SUBSET {"limit", "action", "target_type"},
     body : BOOLEAN, ids : IdLists,
     headers : {Headers(t) : t \in {None, EmptyStr} \cup Secrets}]
-----------------------------------------------------------------------------
(***************************************************************************)
(* Classification of what urlopen and the reads produced (lines 56-82).    *)
(***************************************************************************)
Usable(v) == v \in Texts

\* Mutant: the keys tried in the order message, error, detail.
ExtractErrorMessageMessageFirst(payload, fallback) ==
    IF payload \notin Objects THEN fallback
    ELSE IF Usable(payload.message) THEN payload.message
    ELSE IF Usable(payload.error) THEN payload.error
    ELSE IF Usable(payload.detail) THEN payload.detail
    ELSE fallback

\* _extract_error_message: the first of error, message, detail that is a
\* non-blank string, else the fallback.
ExtractErrorMessage(payload, fallback) ==
    IF payload \notin Objects THEN fallback
    ELSE IF Usable(payload.error) THEN payload.error
    ELSE IF Usable(payload.message) THEN payload.message
    ELSE IF Usable(payload.detail) THEN payload.detail
    ELSE fallback

\* Lines 61-64: the HTTPError body parsed as JSON, None on any failure.
ErrorBody(r) == IF r.kind = "full" /\ r.body \in JsonValues THEN r.body ELSE None

\* Line 59: an empty body stands for {}.
Parsed(b) == IF b = EmptyBody THEN EmptyObject ELSE b

\* except HTTPError (lines 60-66): the status and the resolved message.
HttpErrorOutcome(r) ==
    ApiErr(r.status, ExtractErrorMessage(ErrorBody(r), HttpErrorText(r.status)), ErrorBody(r))

\* Mutant: the isinstance(parsed, dict) check of lines 72-73 left out.
SuccessOutcomeNoObjectCheck(r) ==
    IF r.kind = "cut"
    THEN IF r.cause = "short" THEN Escaped("IncompleteRead") ELSE TransportErr("os_error")
    ELSE IF r.body = BadUtf8 THEN Escaped("UnicodeDecodeError")
    ELSE IF r.body = BadJson THEN TransportErr("invalid_json")
    ELSE IF Parsed(r.body) \in Objects /\ Parsed(r.body).ok = "false"
         THEN ApiErr(200, ExtractErrorMessage(Parsed(r.body), OkFalseText), Parsed(r.body))
    ELSE Returned(Parsed(r.body))

\* Mutant: "if not parsed.get('ok')" instead of "is False" (spec 9).
SuccessOutcomeFalsyOk(r) ==
    IF r.kind = "cut"
    THEN IF r.cause = "short" THEN Escaped("IncompleteRead") ELSE TransportErr("os_error")
    ELSE IF r.body = BadUtf8 THEN Escaped("UnicodeDecodeError")
    ELSE IF r.body = BadJson THEN TransportErr("invalid_json")
    ELSE IF Parsed(r.body) \notin Objects THEN TransportErr("not_object")
    ELSE IF Parsed(r.body).ok \in {"absent", "false", "null", "zero"}
         THEN ApiErr(200, ExtractErrorMessage(Parsed(r.body), OkFalseText), Parsed(r.body))
    ELSE Returned(Parsed(r.body))

\* A 2xx answer: the reads and json.loads inside the with block (57-59),
\* then the object check (72-73) and the ok flag (75-80).
SuccessOutcome(r) ==
    IF r.kind = "cut"
    THEN IF r.cause = "short" THEN Escaped("IncompleteRead") ELSE TransportErr("os_error")
    ELSE IF r.body = BadUtf8 THEN Escaped("UnicodeDecodeError")
    ELSE IF r.body = BadJson THEN TransportErr("invalid_json")
    ELSE IF Parsed(r.body) \notin Objects THEN TransportErr("not_object")
    ELSE IF Parsed(r.body).ok = "false"
         THEN ApiErr(200, ExtractErrorMessage(Parsed(r.body), OkFalseText), Parsed(r.body))
    ELSE Returned(Parsed(r.body))

\* Mutant: "except (URLError, OSError)" placed before "except HTTPError".
ClassifyUrlErrorFirst(r) ==
    IF r.kind = "noresp"
    THEN IF r.cause = "garbage" THEN Escaped("BadStatusLine") ELSE TransportErr("os_error")
    ELSE IF ~Success(r.status) THEN TransportErr("os_error")
    ELSE SuccessOutcome(r)

\* The handlers in the order Python tries them: HTTPError before the
\* URLError/OSError it subclasses.
Classify(r) ==
    IF r.kind = "noresp"
    THEN IF r.cause = "garbage" THEN Escaped("BadStatusLine") ELSE TransportErr("os_error")
    ELSE IF ~Success(r.status) THEN HttpErrorOutcome(r)
    ELSE SuccessOutcome(r)
-----------------------------------------------------------------------------
(***************************************************************************)
(* The client's actions.                                                   *)
(***************************************************************************)
Init ==
    /\ token \in {None, EmptyStr} \cup Secrets
    /\ pc = "idle"
    /\ req = NoReq
    /\ sent = 0
    /\ status = None
    /\ idle = 0
    /\ elapsed = 0
    /\ chunks = 0
    /\ reply = NoReply
    /\ outcome = NoOutcome

\* _request up to the blocking urlopen: query string, body, headers.
\* Connecting (create_connection, which times each getaddrinfo address on
\* its own) and sendall are folded into the first wait for the status
\* line: the model keeps which way a call ends, not how long it blocks.
SendRequest(op, q, ids) ==
    /\ req' = [op |-> op, method |-> Endpoint[op], query |-> QueryKeys(q),
               body |-> Endpoint[op] \in BodyMethods, ids |-> ids,
               headers |-> Headers(token)]
    /\ pc' = "awaiting"
    /\ sent' = 1
    /\ status' = None
    /\ idle' = 0
    /\ elapsed' = 0
    /\ chunks' = 0
    /\ reply' = NoReply
    /\ outcome' = NoOutcome
    /\ UNCHANGED token

\* health, search, timeline, record_*, finalize_session, resume_pack,
\* run_consolidation, consolidation_status: build the payload and send.
CallPlain(op) ==
    /\ pc = "idle"
    /\ SendRequest(op, None, <<>>)

\* Mutant: the "if not normalized: raise ValueError" of line 100 left out.
CallGetObservationsUnchecked(ids) ==
    /\ pc = "idle"
    /\ SendRequest("get_observations", None, NormalizeIds(ids))

\* get_observations: ids are normalized before anything is sent.
CallGetObservations(ids) ==
    /\ pc = "idle"
    /\ LET normalized == NormalizeIds(ids) IN
        \/ /\ normalized = <<>>
           /\ outcome' = ValidationErr
           /\ sent' = 0
           /\ reply' = NoReply
           /\ UNCHANGED <<token, pc, req, status, idle, elapsed, chunks>>
        \/ /\ normalized # <<>>
           /\ SendRequest("get_observations", None, normalized)

\* audit_log: the only operation with a query string.
CallAuditLog(q) ==
    /\ pc = "idle"
    /\ SendRequest("audit_log", q, <<>>)

\* Control returns from urlopen/read with what the socket saw; the with
\* block closes the response, and the outcome is returned or raised.
Receive ==
    /\ pc = "awaiting"
    /\ reply # NoReply
    /\ outcome' = Classify(reply)
    /\ pc' = "idle"
    /\ req' = NoReq
    /\ status' = None
    /\ idle' = 0
    /\ elapsed' = 0
    /\ chunks' = 0
    /\ UNCHANGED <<token, sent, reply>>

\* Mutant: urlopen(req) without a timeout; a silent socket never raises.
TimeoutFiresNoTimeout ==
    /\ pc = "awaiting"
    /\ reply = NoReply
    /\ FALSE
    /\ UNCHANGED vars

\* urlopen(..., timeout=self.timeout_sec): a socket operation that waits
\* Timeout ticks without data raises.
TimeoutFires ==
    /\ pc = "awaiting"
    /\ reply = NoReply
    /\ idle = Timeout
    /\ reply' = IF status = None THEN NoResp("timeout") ELSE Cut(status, "timeout")
    /\ UNCHANGED <<token, pc, req, sent, status, idle, elapsed, chunks, outcome>>
-----------------------------------------------------------------------------
(***************************************************************************)
(* The environment: the clock, the network and the memory service.         *)
(***************************************************************************)
Waiting == pc = "awaiting" /\ reply = NoReply

Tick ==
    /\ Waiting
    /\ idle < Timeout
    /\ idle' = idle + 1
    /\ elapsed' = elapsed + 1
    /\ UNCHANGED <<token, pc, req, sent, status, chunks, reply, outcome>>

\* The server sends part of an answer: the socket's idle timer restarts.
Trickle ==
    /\ Waiting
    /\ chunks < MaxChunks
    /\ idle' = 0
    /\ chunks' = chunks + 1
    /\ UNCHANGED <<token, pc, req, sent, status, elapsed, reply, outcome>>

StatusLine(s) ==
    /\ Waiting
    /\ status = None
    /\ status' = s
    /\ idle' = 0
    /\ UNCHANGED <<token, pc, req, sent, elapsed, chunks, reply, outcome>>

NoResponse(c) ==
    /\ Waiting
    /\ status = None
    /\ reply' = NoResp(c)
    /\ UNCHANGED <<token, pc, req, sent, status, idle, elapsed, chunks, outcome>>

BodyCut(c) ==
    /\ Waiting
    /\ status # None
    /\ reply' = Cut(status, c)
    /\ UNCHANGED <<token, pc, req, sent, status, idle, elapsed, chunks, outcome>>

Deliver(b) ==
    /\ Waiting
    /\ status # None
    /\ reply' = Full(status, b)
    /\ UNCHANGED <<token, pc, req, sent, status, idle, elapsed, chunks, outcome>>

Environment ==
    \/ Tick
    \/ Trickle
    \/ \E s \in Statuses : StatusLine(s)
    \/ \E c \in {"refused", "garbage"} : NoResponse(c)
    \/ \E c \in {"reset", "short"} : BodyCut(c)
    \/ \E b \in Bodies : Deliver(b)

Client ==
    \/ \E op \in PlainOps : CallPlain(op)
    \/ \E ids \in IdInputs : CallGetObservations(ids)
    \/ \E q \in AuditQueries : CallAuditLog(q)
    \/ Receive
    \/ TimeoutFires

Next == Client \/ Environment

\* The code's own steps and the clock are fair; the server is not.
Fairness == WF_vars(Receive) /\ WF_vars(TimeoutFires) /\ WF_vars(Tick)

Spec == Init /\ [][Next]_vars
LiveSpec == Spec /\ Fairness
-----------------------------------------------------------------------------
(***************************************************************************)
(* Properties.                                                             *)
(***************************************************************************)
\* Every variable ranges over the values the code can give it.
TypeOK ==
    /\ token \in {None, EmptyStr} \cup Secrets
    /\ pc \in {"idle", "awaiting"}
    /\ req \in Requests \cup {NoReq}
    /\ sent \in {0, 1}
    /\ status \in Statuses \cup {None}
    /\ idle \in 0..Timeout
    /\ elapsed \in Nat
    /\ chunks \in 0..MaxChunks
    /\ reply \in Replies
    /\ outcome \in Outcomes

\* Spec 4.2 and 9: a 2xx JSON object makes the call fail exactly when its
\* "ok" is the boolean false; absent, true, null or 0 all return the
\* envelope (the "is False" test of _request, line 75).
OnlyExplicitFalseFails ==
    pc = "idle" /\ reply.kind = "full" /\ Success(reply.status)
    /\ Parsed(reply.body) \in Objects
    => (outcome.kind = "api" <=> Parsed(reply.body).ok = "false")

\* The reference reading of spec 4.2: the message is the value of the
\* first key, in the order error, message, detail, whose value is a
\* non-blank string; otherwise the fallback.
ErrorKeys == <<"error", "message", "detail">>
RefMessage(p, fallback) ==
    IF p \in Objects /\ \E i \in 1..3 : Usable(p[ErrorKeys[i]])
    THEN p[ErrorKeys[CHOOSE i \in 1..3 :
                        /\ Usable(p[ErrorKeys[i]])
                        /\ \A j \in 1..(i - 1) : ~Usable(p[ErrorKeys[j]])]]
    ELSE fallback
FallbackFor(s) == IF Success(s) THEN OkFalseText ELSE HttpErrorText(s)

\* Every HarnessMemAPIError a caller sees, from an HTTP error status or
\* from ok=false, carries the message the spec's precedence picks from the
\* body it carries (_extract_error_message and its two call sites).
ApiMessagePrecedence ==
    outcome.kind = "api" => outcome.msg = RefMessage(outcome.body, FallbackFor(outcome.status))

\* Spec 4.1: an answer with a status outside 2xx is an API error with that
\* status, whatever happens to its body afterwards (HTTPError is caught
\* before the URLError and OSError it subclasses, lines 60-68).  The error
\* carries the error body as JSON when the whole body arrived and parsed,
\* and None when reading, decoding or parsing it failed (lines 61-64).
ErrorStatusIsApiError ==
    pc = "idle" /\ reply.kind \in {"full", "cut"} /\ ~Success(reply.status)
    => /\ outcome.kind = "api"
       /\ outcome.status = reply.status
       /\ outcome.body = IF reply.kind = "full" /\ reply.body \in JsonValues
                         THEN reply.body ELSE None

\* Spec 4.3: get_observations rejects an id list with no non-blank id
\* before any request is sent, and never sends a blank id.
NoRequestWithoutIds ==
    /\ outcome.kind = "validation" => sent = 0
    /\ req.op = "get_observations"
       => req.ids # <<>> /\ \A i \in 1..Len(req.ids) : req.ids[i] \in IdTexts

\* r is the list comprehension over c that keeps the non-blank strings: a
\* strictly increasing choice of positions of c, which are exactly the
\* positions holding a non-blank string, read off in order.
IsOrderedFilter(r, c) ==
    \E f \in [1..Len(r) -> 1..Len(c)] :
        /\ \A j, k \in 1..Len(r) : j < k => f[j] < f[k]
        /\ \A j \in 1..Len(r) : r[j] = c[f[j]]
        /\ {f[j] : j \in 1..Len(r)} = {i \in 1..Len(c) : c[i] \in IdTexts}

\* _normalize_ids (lines 93-102), on every input a caller can pass, keeps
\* every non-blank string id, only those, each once and in the caller's
\* order: the counting form the proofs use is the comprehension's list.
NormalizeIdsIsFilter ==
    \A ids \in IdInputs : IsOrderedFilter(NormalizeIds(ids), Candidates(ids))

\* Every call returns or raises, even when the server stops answering:
\* the socket timeout of urlopen bounds each wait.
CallReturns == pc = "awaiting" ~> pc = "idle"
-----------------------------------------------------------------------------
(***************************************************************************)
(* What the spec says and the code does not do (checked as violations).    *)
(***************************************************************************)
\* Spec 4.2 and 8: a body that is not a JSON object is a transport error
\* regardless of the HTTP status.
NonObjectIsTransportError ==
    pc = "idle" /\ reply.kind = "full" /\ reply.body \in NonObjects
    => outcome.kind = "transport"

\* Spec 4.1 and 6: with a token configured, every request carries both the
\* x-harness-mem-token header and "authorization: Bearer <token>".
AuthHeadersSent ==
    req # NoReq /\ Truthy(token)
    => /\ "x-harness-mem-token" \in DOMAIN req.headers
       /\ "authorization" \in DOMAIN req.headers
       /\ req.headers["authorization"] = <<"Bearer", token>>

\* Spec 7: every failure reaches the caller as a transport, API or
\* validation error.
FailuresClassified == outcome.kind # "escaped"

\* Spec 4.1: the timeout bounds the whole round trip.
RoundTripBounded == pc = "awaiting" => elapsed <= Timeout

\* Spec 4.1: a 2xx answer whose body is not valid JSON is a transport error.
InvalidJsonIsTransportError ==
    pc = "idle" /\ reply.kind = "full" /\ Success(reply.status)
    /\ reply.body \in {EmptyBody, BadJson}
    => outcome.kind = "transport"
=============================================================================
