------------------------- MODULE HarnessMemAdapter --------------------------
(***************************************************************************)
(* The LangChain adapter (src/integrations/langchain/harness_mem_langchain *)
(* /adapter.py): a retriever (invoke) and a chat memory                    *)
(* (load_memory_variables, save_context, clear), both over the module's    *)
(* own _request, which has none of the SDK client's classification.        *)
(*                                                                         *)
(* One caller makes one adapter call at a time.  A call sends one POST and *)
(* blocks in urlopen (line 27) while the network and the memory service -- *)
(* the environment -- answer; then _request parses the body (28-29) and    *)
(* the method post-processes the parsed value or lets an exception out.    *)
(* Texts the adapter only copies are abstracted to their lengths, and the  *)
(* "items" of an answer to the shapes the loops over it tell apart.        *)
(***************************************************************************)
EXTENDS Naturals

CONSTANTS
    None,          \* Python None: an unset token, a null "input"
    EmptyStr,      \* the empty (falsy) token ""
    Absent,        \* a key missing from the inputs/outputs dict
    Secrets,       \* non-empty token strings
    Statuses,      \* HTTP status codes the service or a proxy may answer
    InputLens,     \* lengths of the strings a caller passes to save_context
    TitleLimit,    \* the 120 of title[:120] (line 97)
    ContentLimit   \* the 4000 of content[:4000] (line 98)

ASSUME AdapterStatusAssumption == Statuses \subseteq (200..299) \cup (400..599)
ASSUME LimitAssumption ==
    /\ TitleLimit \in Nat \ {0} /\ ContentLimit \in Nat
    /\ InputLens \subseteq Nat
\* A missing key and None are not lengths of strings.
ASSUME SentinelAssumption == Absent \notin Nat /\ None \notin Nat

VARIABLES
    token,    \* the dataclass's token
    pc,       \* "idle", or "awaiting" while blocked in urlopen/read
    call,     \* the adapter method of the call in flight or last made
    saved,    \* the inputs/outputs of the last save_context call
    req,      \* the Request the call built, or NoReq
    reply,    \* how the exchange ended, as the socket saw it, or NoReply
    outcome   \* what the call returned or raised

avars == <<token, pc, call, saved, req, reply, outcome>>
-----------------------------------------------------------------------------
(***************************************************************************)
(* Data.                                                                   *)
(***************************************************************************)
Success(s) == s \in 200..299
Methods == {"invoke", "load_memory_variables", "save_context", "clear"}
Path == [invoke |-> "/v1/search", load_memory_variables |-> "/v1/resume-pack",
         save_context |-> "/v1/checkpoints/record", clear |-> "/v1/sessions/finalize"]

\* What a caller's dict holds under "input" or "output": nothing, None, or
\* a string of the given length (0 is the falsy "").
TextVals == {Absent, None} \cup InputLens
\* len("langchain-input"), the title of an input that is missing or falsy.
DefaultTitleLen == 15

\* The "items" of an answer, by what iterating it does (lines 52, 80-83):
\* a list of dicts, "" (iterates nothing), null or a number (not
\* iterable), a list holding a non-dict or a non-empty string (item.get
\* fails).
ItemsVals == {"absent", "dicts", "emptystr", "null", "nondicts"}
OkVals == {"absent", "true", "false"}
Objects == [ok : OkVals, items : ItemsVals]
EmptyObject == [ok |-> "absent", items |-> "absent"]
NonObjects == {[json |-> "array"], [json |-> "scalar"]}
EmptyBody == [raw |-> "empty"]
BadUtf8 == [raw |-> "badutf8"]
BadJson == [raw |-> "badjson"]
Bodies == Objects \cup NonObjects \cup {EmptyBody, BadUtf8, BadJson}

NoReply == [kind |-> "none"]
Replies ==
    {NoReply}
    \cup [kind : {"noresp"}, cause : {"refused", "timeout", "garbage"}]
    \cup [kind : {"cut"}, status : Statuses, cause : {"timeout", "reset", "short"}]
    \cup [kind : {"full"}, status : Statuses, body : Bodies]

NoOutcome == [kind |-> "none"]
Returned(v) == [kind |-> "ok", value |-> v]
Raised(e) == [kind |-> "raised", exc |-> e]
Excs == {"OSError", "BadStatusLine", "HTTPError", "IncompleteRead",
         "UnicodeDecodeError", "JSONDecodeError", "AttributeError", "TypeError"}
\* invoke returns the items value ("emptylist" for the default []),
\* load_memory_variables a history, save_context and clear None.
Values == (ItemsVals \ {"absent"}) \cup {"emptylist", "history", None}
Outcomes == {NoOutcome} \cup [kind : {"ok"}, value : Values] \cup [kind : {"raised"}, exc : Excs]

NoReq == [path |-> "none"]
\* A checkpoint field that the request does not carry.
NoField == None
Requests ==
    [path : {Path[m] : m \in Methods}, method : {"POST"}, body : BOOLEAN,
     headers : SUBSET {"content-type", "x-harness-mem-token", "authorization"},
     bearer : Secrets \cup {None},
     title : (0..TitleLimit) \cup {NoField}, content : (0..ContentLimit) \cup {NoField}]
-----------------------------------------------------------------------------
(***************************************************************************)
(* _request (lines 9-29).                                                  *)
(***************************************************************************)
Truthy(t) == t \notin {None, EmptyStr}

\* Lines 17-20: both token headers when the token is truthy.
HeaderNames(t) ==
    IF Truthy(t) THEN {"content-type", "x-harness-mem-token", "authorization"}
    ELSE {"content-type"}

\* Lines 16-26 for a POST with a payload; the checkpoint fields are the
\* lengths of the title and content the payload carries.
Request(m, title, content) ==
    [path |-> Path[m], method |-> "POST", body |-> TRUE,
     headers |-> HeaderNames(token),
     bearer |-> IF Truthy(token) THEN token ELSE None,
     title |-> title, content |-> content]

\* Mutant: an HTTPError caught and its body read as if it were the answer.
FetchReadsErrorBody(r) ==
    IF r.kind = "noresp"
    THEN Raised(IF r.cause = "garbage" THEN "BadStatusLine" ELSE "OSError")
    ELSE IF r.kind = "cut"
    THEN Raised(IF r.cause = "short" THEN "IncompleteRead" ELSE "OSError")
    ELSE IF r.body = BadUtf8 THEN Raised("UnicodeDecodeError")
    ELSE IF r.body = BadJson THEN Raised("JSONDecodeError")
    ELSE IF r.body = EmptyBody THEN Returned(EmptyObject)
    ELSE Returned(r.body)

\* What _request returns or raises for an answer: urlopen raises HTTPError
\* on a status outside 2xx before the body is read (27); read, decode and
\* json.loads may raise (28-29); an empty body is {} (29).
Fetch(r) ==
    IF r.kind = "noresp"
    THEN Raised(IF r.cause = "garbage" THEN "BadStatusLine" ELSE "OSError")
    ELSE IF ~Success(r.status) THEN Raised("HTTPError")
    ELSE IF r.kind = "cut"
    THEN Raised(IF r.cause = "short" THEN "IncompleteRead" ELSE "OSError")
    ELSE IF r.body = BadUtf8 THEN Raised("UnicodeDecodeError")
    ELSE IF r.body = BadJson THEN Raised("JSONDecodeError")
    ELSE IF r.body = EmptyBody THEN Returned(EmptyObject)
    ELSE Returned(r.body)

\* What each method does with the parsed value: response.get("items", [])
\* in invoke (52) and in the loop of load_memory_variables (80-84);
\* save_context and clear discard it.
PostProcess(m, v) ==
    IF m \in {"save_context", "clear"} THEN Returned(None)
    ELSE IF v \notin Objects THEN Raised("AttributeError")
    ELSE IF m = "invoke"
         THEN Returned(IF v.items = "absent" THEN "emptylist" ELSE v.items)
    ELSE IF v.items \in {"absent", "dicts", "emptystr"} THEN Returned("history")
    ELSE IF v.items = "null" THEN Raised("TypeError")
    ELSE Raised("AttributeError")

Result(m, r) ==
    IF Fetch(r).kind = "raised" THEN Fetch(r) ELSE PostProcess(m, Fetch(r).value)
-----------------------------------------------------------------------------
(***************************************************************************)
(* The adapter's methods.                                                  *)
(***************************************************************************)
Init ==
    /\ token \in {None, EmptyStr} \cup Secrets
    /\ pc = "idle"
    /\ call = "invoke"
    /\ saved = <<Absent, Absent>>
    /\ req = NoReq
    /\ reply = NoReply
    /\ outcome = NoOutcome

\* A method puts its one request on the wire and blocks in urlopen.
Send(m, title, content) ==
    /\ pc = "idle"
    /\ pc' = "awaiting"
    /\ call' = m
    /\ req' = Request(m, title, content)
    /\ reply' = NoReply
    /\ outcome' = NoOutcome
    /\ UNCHANGED token

\* HarnessMemLangChainRetriever.invoke and
\* HarnessMemLangChainChatMemory.load_memory_variables: fixed payloads.
Invoke == Send("invoke", NoField, NoField) /\ UNCHANGED saved
LoadMemoryVariables == Send("load_memory_variables", NoField, NoField) /\ UNCHANGED saved

\* Mutant: str(inputs.get("input", "langchain-input")) instead of "or".
TitleOfGetDefault(i) ==
    CASE i = Absent -> DefaultTitleLen [] i = None -> 4 [] OTHER -> i

\* Line 87: the input, or "langchain-input" when it is missing or falsy.
TitleOf(i) == IF i \in {Absent, None, 0} THEN DefaultTitleLen ELSE i
\* Line 88: the output, or "" when it is missing or falsy.
ContentOf(o) == IF o \in {Absent, None} THEN 0 ELSE o
\* s[:k] on a string of length n.
Prefix(n, k) == IF n <= k THEN n ELSE k

\* Mutant: the title sent without the [:120] slice.
SaveContextUntruncated(i, o) ==
    /\ Send("save_context", TitleOf(i), Prefix(ContentOf(o), ContentLimit))
    /\ saved' = <<i, o>>

\* save_context: the checkpoint's title and content sliced (lines 86-103).
SaveContext(i, o) ==
    /\ Send("save_context", Prefix(TitleOf(i), TitleLimit), Prefix(ContentOf(o), ContentLimit))
    /\ saved' = <<i, o>>

\* clear: finalize the session (lines 105-117).
Clear == Send("clear", NoField, NoField) /\ UNCHANGED saved

\* Control returns from urlopen/read; the method returns or raises.
Return ==
    /\ pc = "awaiting"
    /\ reply # NoReply
    /\ pc' = "idle"
    /\ outcome' = Result(call, reply)
    /\ UNCHANGED <<token, call, saved, req, reply>>

\* The network and the service end the exchange, in any of the ways the
\* socket can see (the timeout=8 of line 27 is one of the causes).
Answer(r) ==
    /\ pc = "awaiting"
    /\ reply = NoReply
    /\ reply' = r
    /\ UNCHANGED <<token, pc, call, saved, req, outcome>>

ANext ==
    \/ Invoke
    \/ LoadMemoryVariables
    \/ \E i, o \in TextVals : SaveContext(i, o)
    \/ Clear
    \/ Return
    \/ \E r \in Replies \ {NoReply} : Answer(r)

ASpec == Init /\ [][ANext]_avars
-----------------------------------------------------------------------------
(***************************************************************************)
(* Properties.                                                             *)
(***************************************************************************)
\* Every variable ranges over the values the code can give it.
ATypeOK ==
    /\ token \in {None, EmptyStr} \cup Secrets
    /\ pc \in {"idle", "awaiting"}
    /\ call \in Methods
    /\ saved \in TextVals \X TextVals
    /\ req \in Requests \cup {NoReq}
    /\ reply \in Replies
    /\ outcome \in Outcomes

\* Spec 6: save_context records a non-empty title of at most TitleLimit
\* characters and a content of at most ContentLimit characters, which are
\* the caller's own texts whenever those fit, cut at the limit when they do
\* not; a missing or falsy input is titled "langchain-input" and a missing
\* or None output is saved as "" (lines 87-98).
CheckpointTruncated ==
    req # NoReq /\ req.path = Path["save_context"]
    => /\ req.title \in 1..TitleLimit
       /\ req.content \in 0..ContentLimit
       /\ saved[1] \in InputLens \ {0} /\ saved[1] <= TitleLimit
          => req.title = saved[1]
       /\ saved[1] \in InputLens /\ saved[1] > TitleLimit => req.title = TitleLimit
       /\ saved[1] \in {Absent, None, 0}
          => req.title = Prefix(DefaultTitleLen, TitleLimit)
       /\ saved[2] \in InputLens /\ saved[2] <= ContentLimit
          => req.content = saved[2]
       /\ saved[2] \in InputLens /\ saved[2] > ContentLimit
          => req.content = ContentLimit
       /\ saved[2] \in {Absent, None} => req.content = 0

\* An adapter call returns normally only after a 2xx answer whose whole
\* body arrived and decoded: an error status, a cut body or garbage is
\* never turned into an empty result (urlopen raising HTTPError at line 27
\* and nothing in the adapter catching it).
ReturnsOnlyOnSuccess ==
    pc = "idle" /\ outcome.kind = "ok"
    => /\ reply.kind = "full"
       /\ Success(reply.status)
       /\ reply.body \notin {BadUtf8, BadJson}
-----------------------------------------------------------------------------
(***************************************************************************)
(* What the spec says and the adapter does not do (checked as violation).  *)
(***************************************************************************)
\* Spec 7 (no silent suppression) for a collaborator that is "a pure
\* translation onto the same calls": an ok:false envelope never comes back
\* to the caller as a normal result.
NoSilentSuppression ==
    pc = "idle" /\ outcome.kind = "ok" /\ reply.kind = "full"
    => ~(reply.body \in Objects /\ reply.body.ok = "false")
=============================================================================
