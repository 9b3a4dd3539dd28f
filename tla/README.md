# Formal model of harness-mem's Python client

TLA+ modules for the client-side access layer of the harness-mem memory
service. The modules model `src/python-sdk/harness_mem/client.py`, `errors.py`,
the envelope type from `types.py`, and the LangChain adapter
`src/integrations/langchain/harness_mem_langchain/adapter.py`. TLC checks the
modules on small instances, and TLAPS proves the safety properties of the
passing runs for every value of the constants.

## 1. Inventory

### Components

| Component | Source | State it keeps | Operations |
|---|---|---|---|
| Request Transport | `client.py` `_headers`, `_request` lines 34-70 | none across calls; per call: the Request (method, URL with query, body, headers) and the open response | build the request, `urlopen(req, timeout)`, `read().decode()`, `json.loads` |
| Response Contract Validator | `client.py` lines 56-91 | none | the except clauses, the dict check (72), the `ok is False` test (75), `_extract_error_message` (84-91) |
| ID normalization | `client.py` `_normalize_ids` 93-102 | none | wrap one string, keep the non-blank strings, raise `ValueError` if none are left |
| Typed operation surface | `client.py` 104-267 | none | 11 endpoint methods: 8 POST with a JSON body, 3 GET (`audit_log` also has a query string) |
| Error taxonomy | `errors.py` | none | `HarnessMemTransportError(message)`, `HarnessMemAPIError(status_code, message, response_body)` |
| Response types | `types.py` | none | TypedDicts; the client only reads `ok`, `error`, `message` and `detail` |
| LangChain adapter | `integrations/langchain/.../adapter.py` | config only | its own `_request` (no error classification, both token headers), `invoke`, `load_memory_variables`, `save_context` (truncates the title to 120 and the content to 4000), `clear` |
| Memory service | external | opaque | answers with any status and body, or does not answer |

Client configuration (`base_url`, `timeout_sec`, `token`) is set when the
dataclass is built and read on every call. Nothing else lives from one call to
the next.

### How the components interact

Each call runs the same synchronous chain. A typed method builds a payload.
`_request` serializes it and blocks in `urlopen`, waiting on the network and
the server. Then the code after `urlopen` classifies what came back into one of
three results: the returned envelope, a transport error or an API error. A
`ValueError` from `_normalize_ids` happens before any of this. Components share
no mutable state, there are no callbacks, and the client issues one call at a
time.

### What makes it hard

The code has no concurrency. The difficulty is in how failures are classified:

- **Exception ordering.** `HTTPError` is a subclass of `URLError` and
  `OSError`, so its except clause has to come first.
- **Failures in the middle of a response.** After the status line has
  arrived, reading the body can still time out, be reset or be cut short.
  These take different routes on the 2xx path and on the HTTPError path.
- **Exceptions that escape the taxonomy.** `IncompleteRead`,
  `UnicodeDecodeError` and `BadStatusLine` are not caught by any except
  clause.
- **Timeout semantics.** `urlopen`'s timeout bounds each socket wait, not the
  whole round trip.
- **Tri-state `ok`.** Only the JSON `false` fails a call. A missing `ok`,
  `true`, `null` or `0` all return the envelope.
- **Message precedence.** The message is taken from the first non-blank
  string among `error`, `message` and `detail`, in that order.
- **Ordering of validation and I/O.** `get_observations` must reject its ids
  before it sends anything.

PROJECT.json lists each hazard at the line where it bites, with the
properties that cover it.

### What makes each component correct

- **Transport.** A well-formed request. No absent query value is sent. A body
  is sent only for POST, PUT and PATCH. Both token headers are sent when a
  token is set. Every call returns.
- **Validator.** Each reply is classified as spec 4.1, 4.2 and 7 say: a non-object
  body is a transport error, an error status is an API error with that status,
  `ok: false` is an API error with status 200, and the message follows the
  precedence. No failure escapes the three error kinds.
- **ID normalization.** Only non-blank ids are sent, and the error comes
  before any I/O.
- **LangChain adapter.** Both token headers are sent. Titles and contents
  are truncated as spec 6 says. No failure and no `ok:false` is returned as
  a normal result.

## 2. Modules

### `HarnessMemClient.tla`: the SDK client, core of the project

Variables:

| Variable | Code counterpart |
|---|---|
| `token` | `HarnessMemClient.token`. `None`, `""` (falsy) or a secret; chosen in `Init` |
| `pc` | `"idle"`, or `"awaiting"` while the caller is blocked in `urlopen` or `read` |
| `req` | the `Request` built at lines 47-54 |
| `sent` | how many requests the current call has put on the wire |
| `status`, `idle`, `elapsed`, `chunks` | the socket as the environment drives it: status line received, ticks since data last arrived, ticks since the call was sent, partial data trickled |
| `reply` | how the exchange ended, as the socket saw it: `NoResp` (refused, timeout, non-HTTP peer), `Cut` (body cut by timeout, reset or short read), `Full(status, body)` |
| `outcome` | what the call returned or raised |

Bodies are abstracted to what the classification can tell apart: a JSON
object (its `ok`, and its `error`, `message` and `detail` each absent, blank,
non-string or one of the `Texts`), a JSON array or scalar, an empty body,
invalid UTF-8, or invalid JSON.

Actions:

| Action | Code |
|---|---|
| `CallPlain(op)` | health, search, timeline, record_*, finalize_session, resume_pack, run_consolidation, consolidation_status. All go through `SendRequest` (`_request` lines 40-57) |
| `CallGetObservations(ids)` | lines 142-157 with `_normalize_ids` |
| `CallAuditLog(q)` | lines 259-267, the query filter of line 47 |
| `Receive` | lines 56-82: `Classify` tries the except clauses in Python's order, then the dict check, then the `ok` test |
| `TimeoutFires` | the `timeout=` of line 57 |

`_normalize_ids` (lines 93-102) is a list comprehension that filters the
candidates. `NormalizeIds` writes it in closed form: the j-th kept id is the
candidate at which the count of kept candidates (`KeptCount`) reaches j.
This is because tlapm knows nothing of `SelectSeq` from `Sequences` (it is a
builtin with no axioms), while counts of finite sets come with the
FiniteSetTheorems lemmas. `NormalizeIdsIsFilterHolds` proves that the closed
form is the comprehension's list for inputs of every length.

The environment actions (`Tick`, `Trickle`, `StatusLine`, `NoResponse`,
`BodyCut`, `Deliver`) are the clock, the network and the server. They are not
code.

**Fairness** (`LiveSpec`): weak fairness on `Receive` (the code's own step
after `urlopen` returns), on `TimeoutFires` (the OS raises on a socket that has
waited `timeout_sec`) and on `Tick` (time passes). The server gets no fairness:
it may go silent forever.

**What the wait abstracts.** `SendRequest` starts one idle timer at 0, and
only the status line and trickled chunks restart it. The real call also
blocks in `socket.create_connection`, which gives each address from
`getaddrinfo` its own `timeout_sec` and moves on to the next one after a
timeout, and in `sendall`, which is timed too. The model folds these into
the first wait. It therefore keeps which way a call ends (every exception
path), but it under-states how long a call can block. No property bounds a
wait from above; the round-trip run only shows that the wait can exceed
`timeout_sec`, which the real code does all the more.


### `HarnessMemAdapter.tla`: the LangChain adapter

Variables: `token` (the dataclass field), `pc`, `call` (the method in
flight), `saved` (the `input`/`output` values of the last `save_context`),
`req`, `reply` and `outcome`, with the same meaning as in the client.

| Action | Code |
|---|---|
| `Invoke` | `HarnessMemLangChainRetriever.invoke` and `get_relevant_documents`, lines 39-55 |
| `LoadMemoryVariables` | lines 66-84 |
| `SaveContext(i, o)` | lines 86-103. `TitleOf` and `ContentOf` are the `or` fallbacks of 87-88; `Prefix` is the slicing of 97-98 |
| `Clear` | lines 105-117 |
| `Return` | control returns from `_request` (27-29). `Result` is `Fetch` (what `urlopen`, `read`, `decode` and `json.loads` return or raise) followed by `PostProcess` (what the method does with the parsed value) |
| `Answer(r)` | the network and the service; not code |

Texts are abstracted to their lengths: `InputLens`, plus missing and `None`.
`items` is abstracted to what the loop of `load_memory_variables` tells
apart: absent, a list of dicts, `""`, null (or a number), and a list holding
a non-dict (or a non-empty string). The adapter has a fixed `timeout=8` and
the same per-socket semantics as the client, so timeouts appear only as one
of the ways an answer can end. Its liveness is the client's argument and is
not checked again.

### `HarnessMemClientProofs.tla` and `HarnessMemAdapterProofs.tla`: TLAPS proofs (see section 4)

### `MCHarnessMemClient.tla`, `MCHarnessMemAdapter.tla` and their `.cfg` files: the TLC instances

## 3. Runs

| Run | cfg | Expect | What it shows |
|---|---|---|---|
| client_safety | `MCHarnessMemClient.cfg` | pass | `TypeOK`. `OnlyExplicitFalseFails`: a 2xx object fails exactly when `ok` is `false`. `ApiMessagePrecedence`: every API error's message is the one the spec's precedence picks (checked against a reference definition, `RefMessage`, written as "the least-ranked usable key"). `ErrorStatusIsApiError`: an error status gives an API error with that status, even if reading the body then fails, and the error's body is the parsed error body when it arrived whole and parsed, `None` otherwise. `NoRequestWithoutIds`: `get_observations` sends nothing when no id survives normalization, and never a blank id |
| client_liveness | `MCClient_Liveness.cfg` | pass | `CallReturns`: every call returns even if the server goes silent |
| client_nonobject_error_body | `MCClient_NonObject.cfg` | violation | A 404 with a JSON array body is an API error, not a transport error |
| client_bearer_header | `MCClient_AuthHeaders.cfg` | violation | The SDK never sends `authorization: Bearer` |
| client_unclassified_exceptions | `MCClient_Escapes.cfg` | violation | `BadStatusLine`, `IncompleteRead` and `UnicodeDecodeError` escape the error taxonomy |
| client_round_trip_timeout | `MCClient_RoundTrip.cfg` | violation | A trickling server keeps a call waiting past `timeout_sec` |
| client_empty_body | `MCClient_EmptyBody.cfg` | violation | An empty 2xx body is returned as `{}` |
| adapter_safety | `MCHarnessMemAdapter.cfg` | pass | `ATypeOK`. `CheckpointTruncated`: the title is non-empty and at most 120 characters, the content at most 4000; each is the caller's text when it fits and cut at the limit when it does not; a missing or falsy input gives "langchain-input" and a missing or `None` output gives "". `ReturnsOnlyOnSuccess`: a method returns normally only after a complete, decodable 2xx answer |
| adapter_ok_false_suppressed | `MCAdapter_Suppression.cfg` | violation | An `ok:false` envelope is a normal result of every adapter method (spec 7, "no silent suppression") |

**Bounds.** Two statuses (200 and 404) reach both the success path and the
error path. Two `Texts` values are enough for `error` and `message` to hold
different usable strings, so precedence is observable. With `NonStr` and
`Blank` every skip rule of `_extract_error_message` is exercised; that gives
625 JSON objects. One id text and id lists of up to 2 elements (of ids, blanks
and non-strings) cover the single-string, all-blank, mixed and empty-list
inputs. With `Timeout = 1` and `MaxChunks = 0` the timeout fires before and
after the status line. The liveness and round-trip runs use `MaxChunks = 1`,
so trickled data can reset the socket timer. `MaxChunks` is the only bound
that limits behaviour. It stands for a server that eventually stops
trickling; with unbounded trickling no call need ever return (that is the
round-trip finding).

The adapter instance uses the real limits (120 and 4000) and the input lengths
0, 3 and 4001. That covers the falsy fallback, a text that fits, and a text
over both limits. Statuses 200 and 404 reach both sides of `urlopen`'s
HTTPError.

Every property of a passing run has a mutant in PROJECT.json: a plausible
bug that TLC then catches:

- `is False` replaced by falsiness;
- the dict check dropped;
- the except clauses swapped;
- `message` tried before `error`;
- the empty-ids check dropped;
- `urlopen` called without a timeout;
- the title sent unsliced (`ATypeOK`);
- `inputs.get("input", "langchain-input")` instead of `or` (`CheckpointTruncated`);
- an HTTPError caught and its body read as the answer (`ReturnsOnlyOnSuccess`).

## 4. Proofs (`HarnessMemClientProofs.tla`, `HarnessMemAdapterProofs.tla`)

The client's theorems hold for every value of the constants under these
assumptions:
- `StatusAssumption`: statuses are in 2xx, 4xx or 5xx;
- `TimeoutAssumption`: `Timeout` is a positive natural;
- `BoundsAssumption`;
- `SentinelAssumption`: `None` is not a status.

- **`TypeCorrect`: `Spec => []TypeOK`.** It rests on these lemmas:
  - `ClassifyType`: every reply classifies into `Outcomes`;
  - `SendRequestType`: every built request is in `Requests`;
  - `ExtractErrorMessageType`;
  - `ParsedType`.

  The type of the `ids` field is "a normalization of some input"; what
  that normalization contains is the next theorem.
- **`NormalizeIdsIsFilterHolds`: `NormalizeIdsIsFilter`, for id lists of
  every length.** The witness is `f[j]`, the position at which the count of
  kept candidates reaches j. `KeptHit` shows that such a position exists.
  Its argument takes the least prefix whose count reaches j, which is
  `WFMin` applied to `NatLessThanWellFounded`; that ends with a kept
  candidate. `KeptStrict` and `KeptMono` (counts of nested finite sets,
  from `FS_AddElement` and `FS_Subset`) give the order and the coverage.
  No induction over the list is needed, which is what the library's
  induction theorems, with their operator parameter, cannot provide here.
- **`NoRequestWithoutIdsHolds`.** Together with `TypeOK`, `NoRequestWithoutIds`
  is inductive as it stands. No reply classifies as a validation error
  (`ClassifyNotValidation`), and only a non-empty normalization, a sequence
  of `IdTexts` by `NormalizeIdsType`, reaches `SendRequest`.
- **`OutcomeInvariant`: `Spec => []IInv`, where `IInv == TypeOK /\
  OutcomeOfReply`.** `OutcomeOfReply` says three things: a call in flight has
  no outcome; once idle with a reply, the outcome is `Classify(reply)`;
  otherwise the outcome is none or a validation error. This strengthening is
  needed because the safety properties mention the outcome, while
  `Classify` is a function of the reply. No run checks `IInv` itself; TLC
  checks the properties it implies.
- **`ApiMessagePrecedenceHolds`.** `ExtractIsRef` proves that the unrolled
  loop of `_extract_error_message` equals the reference `RefMessage` (a
  `CHOOSE` of the first usable key). `ClassifyApiMessage` proves that both
  call sites pass the fallback that belongs to the status.
- **`OnlyExplicitFalseFailsHolds`.** It follows from `IInv` and the shape of
  `SuccessOutcome`.

- **`ErrorStatusIsApiErrorHolds`.** `IInv` gives `outcome = Classify(reply)`.
  On a reply with a non-2xx status, `Classify` takes the HTTPError branch
  whatever the reply's kind. Its body is `ErrorBody(reply)`, which is `None` for a cut
  body and for one that does not decode or parse.
In `HarnessMemAdapterProofs.tla`, under `AdapterStatusAssumption`,
`LimitAssumption` (positive title limit, natural lengths) and
`SentinelAssumption` (missing and `None` are not lengths):

- **`AdapterInvariant`: `ASpec => []AInv`.** `AInv` is `ATypeOK` plus
  `ResultOfReply` (the outcome is `Result(call, reply)` once idle, none while
  waiting) and `RequestOfCall` (the request in place carries the token's
  headers and the sliced fields of `saved`). These strengthenings are needed
  because every property relates the outcome or the request to the state
  that produced it.
- **`ATypeCorrect`, `CheckpointTruncatedHolds` and
  `ReturnsOnlyOnSuccessHolds`.** Each follows from `AInv`.
  `CheckpointTruncatedHolds` rests on three lemmas, which state what the
  fallbacks and slices give for every length and every limit:
  - `CheckpointFields`;
  - `SliceOfText`: a text is kept whole when it fits, and cut at the limit
    otherwise;
  - `SliceOfFallback`: the default title, and the empty content.

Checked only by TLC:

- **Liveness (`CallReturns`).** TLAPS does not handle liveness under fairness
  or `ENABLED`.
- **`SelectSeq`.** tlapm has no facts about it, so the model does not use it
  for `_normalize_ids`. The comprehension's result is stated once, as its
  definition (`IsOrderedFilter`), and proved of `NormalizeIds`. No run
  checks it: for every input of every length, the theorem is stronger than
  an enumeration by TLC, and the formula mentions no variable.

## 5. Not modelled

- **Payload contents.** The client passes them through (search terms,
  checkpoint text, the event envelope), so only the fields that control flow
  depends on are modelled.
- **`items` and `meta`.** They are passed through unchanged.
- **`base_url` and the URL path.** They are identified with the operation.
- **Redirects (3xx).** No 3xx status is in `Statuses`. urllib's default
  redirect handler re-issues a POST answered with 301, 302 or 303 as a GET
  without its body, a second request the model does not represent. Any 3xx
  it does not follow reaches the code as an `HTTPError`, the same path the
  4xx and 5xx statuses already exercise.
- **`timeout_sec` of `None` or `0`.** These are configuration misuse outside
  the typed `float`.
- **The memory service.** It is external, so it appears only as a
  nondeterministic environment.
- **Concurrent callers.** The spec leaves concurrency to callers, and the
  client has no shared mutable state, so there is nothing to interleave.
- **Spec 8's round trip.** It needs a service whose search returns what was
  recorded. The service is not in the repository, so its consistency would
  be an assumption, not a translation of code.
- **Package exports (`__init__.py`) and the response `TypedDict`s beyond the
  envelope.** They are declarations with no behaviour.
- **The example scripts (`quickstart.py`, `chat_memory_sample.py`).** Not
  yet modelled (plan item 5). The adapter's sample only calls the three
  modelled methods once each.
- **The adapter's malformed `items`.** They are modelled (TypeError,
  AttributeError, an empty history for `""`), but no property checks them,
  since nothing states what should happen.

## 6. Plan

1. *(done)* `HarnessMemClient`: transport, validator, ids, typed operations,
   error taxonomy. Safety, liveness and the five divergence runs, with their
   proofs.
2. *(done)* `HarnessMemAdapter`: `_request`, `invoke`,
   `load_memory_variables`, `save_context` and `clear`. Headers, truncation
   and error propagation are checked and proved. The `ok:false` suppression
   is shown as a violation.
3. *(dropped)* An abstract one-call contract for the client. Instantiated
   with the client's own classification, it held by construction and said
   nothing the safety run does not.
4. *(done)* Proofs of `ErrorStatusIsApiError` and of the adapter's
   invariants.
5. Next: a `Quickstart` composition of `examples/quickstart.py` over
   `HarnessMemClient`. The script's fixed sequence is health,
   record_checkpoint, search, then timeline and get_observations on the
   first hit's id, then finalize_session. The server stays
   nondeterministic. Hazards to state:
   - an error in any call aborts the script with the session left
     unfinalized;
   - a hit whose `id` is blank makes `get_observations` raise `ValueError`
     after `timeline` has already been sent.
6. Next: TLC-only properties for the malformed-`items` outcomes of the
   adapter, if the spec is ever given a rule for them.
