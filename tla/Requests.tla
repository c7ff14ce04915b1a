------------------------------ MODULE Requests ------------------------------
(***************************************************************************)
(* The life of a request in the service: the control plane's gate, the     *)
(* dependencies and handlers of the query and plain-English routes         *)
(* (service/routes/protocol.py, sparql.py, nl.py), the rate limits and the *)
(* default session of /sparql (service/security.py).                       *)
(*                                                                         *)
(* A handler is the sequence of its stages; a request goes through them    *)
(* one by one, and a stage that refuses leaves only the answer.  The       *)
(* handlers of /sparql are coroutines and run on the event loop, the       *)
(* others on threads; the gate and every answer also need the loop.        *)
(***************************************************************************)
EXTENDS Negotiation, FiniteSets

CONSTANTS
    Request,      \* requests that may be on their way at once
    Deployments,  \* the modes the service may run in
    Headers,      \* Accept headers
    Texts,        \* query texts
    Capacity,     \* requests per bucket
    SessionTtl,   \* SESSION_TTL_SECONDS
    MaxNow,       \* bound on the clock; a tick refills one token
    MaxArrivals   \* bound on the requests

ASSUME DeploymentModes == Deployments \subseteq {"local", "public", "governed"}
ASSUME RequestBounds ==
    Capacity \in Nat \ {0} /\ SessionTtl \in Nat /\ MaxNow \in Nat /\ MaxArrivals \in Nat
ASSUME HeadersAreOffers ==
    \A accept \in Headers : accept \in Seq([type : STRING \X STRING, q : 0..Full])
ASSUME TextsAreTexts == Texts \subseteq Text
ASSUME FreeIsNoRequest == "free" \notin Request

VARIABLES
    mode,      \* how the service is deployed
    now,       \* the clock
    arrived,   \* requests so far
    loop,      \* the coroutine that runs on the event loop, or "free"
    tokens, refilled,  \* the two token buckets of the caller: _tokens, _last_refill
    envDefault,        \* the session of /sparql without a token: [id, lastUsed]; id 0 is none
    route, todo,       \* per request: its route and the stages left
    is                 \* per request: what its handler knows

vars == <<mode, now, arrived, loop, tokens, refilled, envDefault, route, todo, is>>

Buckets == {"compute", "nl"}

----------------------------------------------------------------------------
(* The handlers.  A dependency is a stage of the routes that depend on it. *)

(* Mutants: the handler runs on a thread; the media type is found last. *)
OnAThread == <<"compute", "update", "parse", "negotiate", "protocol session", "schema",
               "translate", "execute", "record", "answer">>
NegotiatesLast == <<"loop", "compute", "update", "parse", "protocol session", "schema",
                    "translate", "execute", "record", "negotiate", "answer">>

sparql_get == <<"loop", "compute", "update", "parse", "negotiate", "protocol session", "schema",
                "translate", "execute", "record", "answer">>
sparql_post == <<"content type", "loop", "body", "compute", "update", "parse", "negotiate",
                 "protocol session", "schema", "translate", "execute", "record", "answer">>
_service_description_response == <<"loop", "description session", "answer">>
translate_endpoint == <<"compute", "optional session", "ontology", "translate", "answer">>
execute_endpoint ==
    <<"compute", "session", "ontology", "translate", "execute", "record", "answer">>
execute_aql_endpoint == <<"compute", "session", "execute", "answer">>
explain_endpoint == <<"compute", "session", "ontology", "translate", "explain", "answer">>
profile_endpoint ==
    <<"compute", "session", "ontology", "translate", "execute", "record", "answer">>
validate_endpoint == <<"compute", "answer">>
nl_translate_endpoint == <<"nl", "optional session", "ontology", "generate", "answer">>
nl_explain_endpoint == <<"nl", "optional session", "ontology", "generate", "answer">>
nl_execute_endpoint ==
    <<"nl", "compute", "session", "ontology", "generate", "execute", "record", "answer">>
nl_samples_endpoint == <<"nl", "answer">>

Handler ==
    [sparql_get |-> sparql_get, sparql_post |-> sparql_post,
     description |-> _service_description_response, translate |-> translate_endpoint,
     execute |-> execute_endpoint, execute_aql |-> execute_aql_endpoint,
     explain |-> explain_endpoint, profile |-> profile_endpoint,
     validate |-> validate_endpoint, nl_translate |-> nl_translate_endpoint,
     nl_explain |-> nl_explain_endpoint, nl_execute |-> nl_execute_endpoint,
     nl_samples |-> nl_samples_endpoint]

Route == DOMAIN Handler
Stage == {"gate", "compute taken", "nl taken", "open default"}
         \cup UNION {ToSet(Handler[r]) : r \in Route}

(* Mutant: raw AQL, which is not recorded, stays open under a control plane. *)
ServesRawAql(r) == TRUE

(* The routes a control plane's deployment serves. *)
SERVED(r) == r # "execute_aql"

----------------------------------------------------------------------------
NoText == [prologue |-> <<>>, body |-> "nonsense"]
NotNegotiated == <<"any", "any">>

Fresh == [text |-> NoText, accept |-> <<>>, form |-> "select", media |-> NotNegotiated,
          session |-> 0, held |-> 0, status |-> "ok", ran |-> FALSE, recorded |-> FALSE,
          truncated |-> FALSE, left |-> FALSE]

(* The status of an answer; those of a request refused before its query    *)
(* ran come first.                                                         *)
RefusedEarly == {"400", "401", "403", "405", "406", "409", "413", "422", "429", "503"}
Status == RefusedEarly \cup {"ok", "failed", "timed out", "not recorded"}

TypeOK ==
    /\ mode \in Deployments /\ now \in 0..MaxNow /\ arrived \in 0..MaxArrivals
    /\ loop \in Request \cup {"free"}
    /\ tokens \in [Buckets -> 0..Capacity] /\ refilled \in [Buckets -> 0..MaxNow]
    /\ envDefault \in [id : 0..MaxArrivals, lastUsed : 0..MaxNow]
    /\ route \in [Request -> Route]
    /\ \A r \in Request :
          /\ ToSet(todo[r]) \subseteq Stage
          /\ is[r].text \in Text /\ is[r].form \in Forms /\ is[r].status \in Status
          /\ is[r].session \in 0..MaxArrivals
          /\ is[r].held \in 0..Capacity

Init ==
    /\ mode \in Deployments /\ now = 0 /\ arrived = 0 /\ loop = "free"
    /\ tokens = [b \in Buckets |-> Capacity] /\ refilled = [b \in Buckets |-> 0]
    /\ envDefault = [id |-> 0, lastUsed |-> 0]
    /\ route = [r \in Request |-> "validate"]
    /\ todo = [r \in Request |-> <<>>] /\ is = [r \in Request |-> Fresh]

At(r, stage) == todo[r] # <<>> /\ Head(todo[r]) = stage
GoOn(r) == todo' = [todo EXCEPT ![r] = Tail(@)]
Refuse(r, status) ==
    /\ todo' = [todo EXCEPT ![r] = <<"answer">>]
    /\ is' = [is EXCEPT ![r].status = status]

deployment == <<mode, arrived, route>>
limits == <<tokens, refilled>>

Arrive(r) ==
    /\ todo[r] = <<>> /\ arrived < MaxArrivals
    /\ \E to \in Route : /\ route' = [route EXCEPT ![r] = to]
                         /\ todo' = [todo EXCEPT ![r] = <<"gate">> \o Handler[to]]
    /\ arrived' = arrived + 1
    /\ UNCHANGED <<mode, now, loop, limits, envDefault, is>>

(* ControlPlaneGate: under a control plane a route it does not serve is    *)
(* refused, and so is a context that does not verify or cannot be.         *)
Gate(r) ==
    /\ At(r, "gate") /\ loop = "free"
    /\ \/ /\ mode = "governed" /\ ~SERVED(route[r]) /\ Refuse(r, "403")
       \/ /\ mode = "governed" /\ SERVED(route[r]) /\ \E s \in {"400", "401", "503"} : Refuse(r, s)
       \/ /\ mode = "governed" => SERVED(route[r])
          /\ GoOn(r) /\ UNCHANGED is
    /\ UNCHANGED <<deployment, now, loop, limits, envDefault>>

(* The coroutine runs, and nothing else does on the loop until it answers. *)
EnterLoop(r) ==
    /\ At(r, "loop") /\ loop = "free"
    /\ loop' = r /\ GoOn(r)
    /\ UNCHANGED <<deployment, now, limits, envDefault, is>>

(* A body of the Update media type is an Update, whatever it says.         *)
ContentType(r) ==
    /\ At(r, "content type")
    /\ \/ Refuse(r, "405")
       \/ GoOn(r) /\ UNCHANGED is
    /\ UNCHANGED <<deployment, now, loop, limits, envDefault>>

(* Too large, not UTF-8, or without a query. *)
_extract_query_from_post(r) ==
    /\ At(r, "body")
    /\ \/ \E s \in {"413", "400"} : Refuse(r, s)
       \/ GoOn(r) /\ UNCHANGED is
    /\ UNCHANGED <<deployment, now, loop, limits, envDefault>>

----------------------------------------------------------------------------
(* _TokenBucket.allow runs without a lock: what it read of the bucket may  *)
(* be old when it writes.                                                  *)

Taken == [compute |-> "compute taken", nl |-> "nl taken"]

(* Mutant: what accrued is not cut to the capacity. *)
LevelUncapped(b) == tokens[b] + (now - refilled[b])

(* The tokens left and those that accrued since the last refill, at most   *)
(* the capacity.                                                           *)
Level(b) ==
    LET full == tokens[b] + (now - refilled[b])
    IN  IF full > Capacity THEN Capacity ELSE full

ReadBucket(r, b) ==
    /\ At(r, b)
    /\ todo' = [todo EXCEPT ![r] = <<Taken[b]>> \o Tail(@)]
    /\ is' = [is EXCEPT ![r].held = Level(b)]
    /\ UNCHANGED <<deployment, now, loop, limits, envDefault>>

TakeToken(r, b) ==
    LET level == is[r].held IN
    /\ At(r, Taken[b])
    /\ refilled' = [refilled EXCEPT ![b] = now]
    /\ tokens' = [tokens EXCEPT ![b] = IF level > 0 THEN level - 1 ELSE 0]
    /\ IF level > 0
       THEN GoOn(r) /\ is' = [is EXCEPT ![r].held = 0]
       ELSE /\ todo' = [todo EXCEPT ![r] = <<"answer">>]
            /\ is' = [is EXCEPT ![r].held = 0, ![r].status = "429"]
    /\ UNCHANGED <<deployment, now, loop, envDefault>>

----------------------------------------------------------------------------
(* The stages of _execute_protocol_query. *)

(* The request's query is looked at here for the first time. *)
DetectUpdate(r) ==
    /\ At(r, "update")
    /\ \E text \in Texts :
          IF is_sparql_update(text)
          THEN /\ todo' = [todo EXCEPT ![r] = <<"answer">>]
               /\ is' = [is EXCEPT ![r].text = text, ![r].status = "405"]
          ELSE GoOn(r) /\ is' = [is EXCEPT ![r].text = text]
    /\ UNCHANGED <<deployment, now, loop, limits, envDefault>>

(* Only a query parses, into a form. *)
Parse(r) ==
    /\ At(r, "parse")
    /\ IF is[r].text.body # "query" THEN Refuse(r, "400")
       ELSE /\ GoOn(r)
            /\ \E form \in Forms : is' = [is EXCEPT ![r].form = form, ![r].text = NoText]
    /\ UNCHANGED <<deployment, now, loop, limits, envDefault>>

Negotiate(r) ==
    /\ At(r, "negotiate")
    /\ \E accept \in Headers :
          LET media == negotiate_media_type(accept, is[r].form)
              known == [is EXCEPT ![r].accept = accept, ![r].media = media]
          IN  IF media = NotAcceptable
              THEN /\ todo' = [todo EXCEPT ![r] = <<"answer">>]
                   /\ is' = [known EXCEPT ![r].status = "406"]
              ELSE GoOn(r) /\ is' = known
    /\ UNCHANGED <<deployment, now, loop, limits, envDefault>>

(* A session that is known and not expired, or why there is none: the      *)
(* context's under a control plane, the token's otherwise.                 *)
SessionRefusals == IF mode = "governed" THEN {"401", "409", "503"} ELSE {"401"}

EnvDefaultLive == envDefault.id # 0 /\ now - envDefault.lastUsed <= SessionTtl

(* _resolve_protocol_session: locally, a request without a token gets the  *)
(* default session, opened when there is none or it expired.               *)
_resolve_protocol_session(r) ==
    /\ At(r, "protocol session")
    /\ \/ /\ GoOn(r) /\ UNCHANGED <<is, envDefault>>
       \/ /\ \E s \in SessionRefusals : Refuse(r, s)
          /\ UNCHANGED envDefault
       \/ /\ mode = "local" /\ EnvDefaultLive
          /\ envDefault' = [envDefault EXCEPT !.lastUsed = now]
          /\ is' = [is EXCEPT ![r].session = envDefault.id]
          /\ GoOn(r)
       \/ /\ mode = "local" /\ ~EnvDefaultLive
          /\ todo' = [todo EXCEPT ![r] = <<"open default">> \o Tail(@)]
          /\ UNCHANGED <<is, envDefault>>
    /\ UNCHANGED <<deployment, now, loop, limits>>

(* The client it replaces, if any, stays open. *)
_build_env_default_session(r) ==
    /\ At(r, "open default")
    /\ envDefault' = [id |-> envDefault.id + 1, lastUsed |-> now]
    /\ is' = [is EXCEPT ![r].session = envDefault.id + 1]
    /\ GoOn(r)
    /\ UNCHANGED <<deployment, now, loop, limits>>

(* The service description goes on without a session. *)
DescriptionSession(r) ==
    /\ At(r, "description session")
    /\ \/ envDefault' = envDefault
       \/ /\ mode = "local"
          /\ envDefault' = IF EnvDefaultLive THEN [envDefault EXCEPT !.lastUsed = now]
                           ELSE [id |-> envDefault.id + 1, lastUsed |-> now]
    /\ GoOn(r)
    /\ UNCHANGED <<deployment, now, loop, limits, is>>

(* _resolver_for_session: 503 while the schema is analyzed, or when it     *)
(* cannot be.                                                              *)
_resolver_for_session(r) ==
    /\ At(r, "schema")
    /\ \/ GoOn(r) /\ UNCHANGED is
       \/ Refuse(r, "503")
    /\ UNCHANGED <<deployment, now, loop, limits, envDefault>>

----------------------------------------------------------------------------
(* The stages the other handlers share. *)

_get_session(r) ==
    /\ At(r, "session")
    /\ \/ GoOn(r) /\ UNCHANGED is
       \/ \E s \in SessionRefusals : Refuse(r, s)
    /\ UNCHANGED <<deployment, now, loop, limits, envDefault>>

(* Refuses only a context: a missing or unknown token is no session, and   *)
(* so is a project without one database.                                   *)
_get_optional_session(r) ==
    /\ At(r, "optional session")
    /\ \/ GoOn(r) /\ UNCHANGED is
       \/ mode = "governed" /\ \E s \in {"401", "503"} : Refuse(r, s)
    /\ UNCHANGED <<deployment, now, loop, limits, envDefault>>

(* An ontology that does not parse; a schema that cannot be read is left   *)
(* out.                                                                    *)
_resolver_or_422(r) ==
    /\ At(r, "ontology")
    /\ \/ GoOn(r) /\ UNCHANGED is
       \/ Refuse(r, "422")
    /\ UNCHANGED <<deployment, now, loop, limits, envDefault>>

Translate(r) ==
    /\ At(r, "translate")
    /\ \/ GoOn(r) /\ UNCHANGED is
       \/ Refuse(r, "422")
    /\ UNCHANGED <<deployment, now, loop, limits, envDefault>>

(* No provider, or no query after the last repair. *)
Generate(r) ==
    /\ At(r, "generate")
    /\ \/ GoOn(r) /\ UNCHANGED is
       \/ \E s \in {"422", "503"} : Refuse(r, s)
    /\ UNCHANGED <<deployment, now, loop, limits, envDefault>>

(* The rows of a cursor up to the cap: one more is asked for to learn      *)
(* whether more are left, and the failure of that passes for the end.      *)
Materialised(known, more, probed) ==
    [known EXCEPT !.ran = TRUE, !.left = more, !.truncated = more /\ probed]

(* The query runs, or the database refuses it, or the driver fails; only   *)
(* /sparql sets a maximal run time.                                        *)
Execute(r) ==
    /\ At(r, "execute")
    /\ \/ /\ GoOn(r)
          /\ \E more, probed \in BOOLEAN : is' = [is EXCEPT ![r] = Materialised(@, more, probed)]
       \/ \E s \in {"failed"} \cup (IF loop = r THEN {"timed out"} ELSE {}) :
             /\ todo' = [todo EXCEPT ![r] = <<"answer">>]
             /\ is' = [is EXCEPT ![r].ran = TRUE, ![r].status = s]
    /\ UNCHANGED <<deployment, now, loop, limits, envDefault>>

Explain(r) ==
    /\ At(r, "explain")
    /\ \/ GoOn(r) /\ UNCHANGED is
       \/ Refuse(r, "failed")
    /\ UNCHANGED <<deployment, now, loop, limits, envDefault>>

(* record_question: off the control plane it does nothing.  A graph run    *)
(* that is not recorded again is recorded by the run it repeats.           *)
Record(r) ==
    /\ At(r, "record")
    /\ \/ GoOn(r) /\ is' = [is EXCEPT ![r].recorded = mode = "governed"]
       \/ mode = "governed" /\ Refuse(r, "not recorded")
    /\ UNCHANGED <<deployment, now, loop, limits, envDefault>>

(* What is not refused by now is answered. *)
Answered(r) == At(r, "answer") /\ is[r].status = "ok"

Answer(r) ==
    /\ At(r, "answer") /\ loop \in {"free", r}
    /\ loop' = "free"
    /\ GoOn(r) /\ is' = [is EXCEPT ![r] = Fresh]
    /\ UNCHANGED <<deployment, now, limits, envDefault>>

Tick ==
    /\ now < MaxNow /\ now' = now + 1
    /\ UNCHANGED <<deployment, loop, limits, envDefault, todo, is>>

Step(r) ==
    \/ Arrive(r) \/ Gate(r) \/ EnterLoop(r) \/ ContentType(r) \/ _extract_query_from_post(r)
    \/ \E b \in Buckets : ReadBucket(r, b) \/ TakeToken(r, b)
    \/ DetectUpdate(r) \/ Parse(r) \/ Negotiate(r)
    \/ _resolve_protocol_session(r) \/ _build_env_default_session(r) \/ DescriptionSession(r)
    \/ _resolver_for_session(r) \/ _get_session(r) \/ _get_optional_session(r)
    \/ _resolver_or_422(r) \/ Translate(r) \/ Generate(r) \/ Execute(r) \/ Explain(r)
    \/ Record(r) \/ Answer(r)

Next == (\E r \in Request : Step(r)) \/ Tick

Spec == Init /\ [][Next]_vars

----------------------------------------------------------------------------
(* Properties *)

(* Under a control plane an answer carries what a query gave exactly when  *)
(* the question was recorded, and what did not run is not recorded: the    *)
(* gate's table and the routes' stages agree (PRD 8.7).                    *)
AnsweredAsRecorded ==
    \A r \in Request :
       /\ mode = "governed" /\ Answered(r) => (is[r].ran <=> is[r].recorded)
       /\ is[r].recorded => is[r].ran

(* A request refused for its rate, form, media type, session, schema or    *)
(* translation has neither reached the database nor the history.           *)
RefusalsCostNothing ==
    \A r \in Request : is[r].status \in RefusedEarly => ~is[r].ran /\ ~is[r].recorded

(* The media type of an answer is one the header gives its best quality    *)
(* to, the server's first among those; nothing acceptable, and only that,  *)
(* is a 406.                                                               *)
AnswerIsAcceptable ==
    \A r \in Request : is[r].media # NotNegotiated =>
       LET offered == priority_for_form(is[r].form)
           quality(i) == Quality(is[r].accept, offered[i])
       IN  IF is[r].media = NotAcceptable THEN \A i \in DOMAIN offered : quality(i) = 0
           ELSE \E i \in DOMAIN offered :
                   /\ offered[i] = is[r].media /\ quality(i) > 0
                   /\ \A j \in DOMAIN offered :
                         /\ quality(j) <= quality(i)
                         /\ j < i => quality(j) < quality(i)

(* The default session of /sparql is kept in a global without a lock: no   *)
(* request works with one that another request has replaced.               *)
OneEnvDefault ==
    \A r \in Request : is[r].session # 0 => is[r].session = envDefault.id

(* An Update is answered 405, in whatever body it arrives (the docstring   *)
(* of service/protocol/update_detect.py).                                  *)
UpdateIs405 ==
    \A r \in Request : At(r, "answer") /\ IsUpdate(is[r].text) => is[r].status = "405"

(* A type the header rejects with q=0 is not sent (negotiate.py:17).       *)
RejectedIsNotSent ==
    \A r \in Request : \A o \in ToSet(is[r].accept) : o.q = 0 => is[r].media # o.type

(* The rows are flagged truncated when more were left (sparql.py:57).      *)
TruncatedIffMore == \A r \in Request : is[r].truncated <=> is[r].left
=============================================================================
