# arango-sparql-py: a TLA+ model of the translator and its service

`arango-sparql-py` translates SPARQL to AQL, executes it on ArangoDB and serves
both over HTTP and the SPARQL Protocol. Three things in it are hard to get right
and hard to test. The *translation* must mean what SPARQL means for every
combination of operators and every way a class or a relationship is stored. The
*mapping* it translates with is guessed from samples of data that change, then
exported, imported and merged. The *service* around both keeps state that its
worker threads share, most of it in plain dictionaries: FastAPI runs synchronous
endpoints on a thread pool, so a thread may be suspended between any two
statements. These modules model all three; TLC checks small instances, TLAPS
proves the central facts about the service and the mapping for all of them. All
paths below are relative to the repository, and the Python is under
`arango_sparql/`.

## 1. Inventory

| Component | State | Operations | Hard behaviour | What makes it correct | Module |
| --- | --- | --- | --- | --- | --- |
| SPARQL to AQL translator (`translate/visitor.py`, `builder.py`, `resolver.py`), paths, MINUS, OPTIONAL, UNION, sub-selects, expressions | a binding state per visitor, one query builder | a visit per operator of the algebra, child visitors, finalize | combinations of operators, unbound variables, names and scopes of nested visitors, tenants, named graphs | the rows are SPARQL's; the database takes the plan; nobody sees another tenant | `Translate`, `Answering` |
| Schema acquisition (`schema/acquire.py`, `detect.py`, `graph_scope.py`) | a bundle that grows | classify, build, analyze, three enriching passes, cut down to a graph | samples, coverage, passes at different times, best-effort failures | endpoints are declared and hold; few documents are lost | `Acquisition` |
| Mapping as OWL (`translate/owl.py`, `resolver.py`, `service/mapping.py`) | none | export, import, merge with a request's ontology, resolve | four tables of annotations that have to agree; an analyzer's text that is older than its bundle | the mapping means the same on every way to a query | `Ontology`, `AcquiredOntology` |
| Schema cache (`schema/cache.py`, `persistent_cache.py`) | L1 dict, one document per database (L2), hydration locks | `_lookup`, `get`, `peek`, `put`, `revalidated`, `invalidate` | read-through races with writes; restarts; another release's document | a stale bundle never passes for current; what this release analyzed is not displaced by what it did not | `SchemaCache` |
| Builders and drift check (`service/routes/schema.py`) | none of their own | full analysis, fingerprint comparison, recount, re-stamp | the database changes while an analysis of minutes runs | a change during an analysis is found by the next check | `SchemaCache` |
| Background warms (`service/schema_warm.py`) | `_inflight`, `_rebuild_after`, `_errors` | `schedule_warm`, `request_rebuild`, `take_error`, the warm thread | several locked calls in a row; threads end | one warm per database; queued re-analyses run; failures are reported once | `WarmRegistry` |
| Non-blocking read and poll (`_read_or_warm`, `ui/src/api/client.ts`) | the client's poll | peek, schedule or queue, re-read, answer | lost wake-ups, dedup, errors | every poll ends; an old release's bundle is replaced | `SchemaService` |
| Sessions (`service/security.py`, `routes/connect.py`) | `_sessions`, unlocked | connect, look up, touch, prune, evict, disconnect | interleavings of unlocked steps; clients closed | a session that can be looked up has an open client; no client is lost but in the known ways; the table is bounded | `SessionStore` |
| Identity and mapping of a session (`service/security.py`, `control_plane.py`) | login, handle, project mapping and its stamp | re-bind, read, keep, stamp, Refresh schema | rotating logins, concurrent reads, outages | handle and login agree; a mapping is recent; no analysis over it | `SessionIdentity` |
| Question recording (`service/recording.py`) | two maps per session, the project's history | `remember_generated`, `record_question` | check, record and note are separate steps; lost answers | nothing is answered unrecorded; words are vouched for | `QuestionRecording` |
| Routes (`routes/sparql.py`, `protocol.py`, `nl.py`), control-plane gate, rate limits, negotiation | two token buckets, the default session of `/sparql` | thirteen routes, each a sequence of stages | the order of stages; coroutines and threads together | refusals cost nothing; answers are recorded; media types are the header's | `Requests`, `Negotiation` |
| NL pipeline (`nl2sparql/`), Workbench (`ui/src`), query mining, redaction, observability, CLI | little | | | see section 6 | |

A request passes the gate and the limits, looks its session up, gets a schema
through `_read_or_warm` (which calls the cache and the warm registry; a warm
calls the builders, which acquire a bundle and call the cache) or from the
project's mapping, merges the ontology it brought, translates, executes, records
its question and answers. The only callback is the warm's thread; the only
persistent state is the cache's document and the control plane's history.

## 2. Modules

| Module | Models | Uses |
| --- | --- | --- |
| `Sparql` | what a query means: the algebra's multiset semantics over triples | |
| `Aql` | the plans the builder makes, and what ArangoDB returns for them | `Sparql` |
| `Translate` | the translator: a visitor state to a visitor state per operator | `Aql` |
| `Answering`, `MCAnswering` | a query translated and executed; its instances | `Translate` |
| `Acquisition`, `AcquisitionProofs` | how a mapping is acquired while the data changes | |
| `Ontology` | mapping to OWL and back, merge, resolution | |
| `AcquiredOntology`, `MCAcquisition`, `AcquiredOntologyProofs` | an acquired mapping on its way to a query; its instances | `Acquisition`, `Ontology` |
| `SchemaCache`, `SchemaCacheProofs` | both tiers, builders and drift check of one database | |
| `WarmRegistry` | the in-flight map and the warm thread | |
| `SchemaService`, `WarmRegistryProofs` | `_read_or_warm`, the polling client and the warms over a slot | `WarmRegistry` |
| `SessionStore`, `MCSessionStore`, `SessionStoreProofs` | the session table; its symmetries for TLC | |
| `SessionIdentity`, `SessionIdentityProofs` | the login and the mapping that a session's requests share | |
| `ProjectHistory` | abstract: what recording promises | |
| `QuestionRecording`, `QuestionRecordingProofs` | recording of a session's questions, implementing `ProjectHistory` | `ProjectHistory` |
| `Negotiation` | Accept headers, Update detection | |
| `Requests`, `MCRequests`, `RequestsProofs` | the routes as sequences of stages, limits, the default session | `Negotiation` |

Definitions whose comment says *Mutant* are plausible mistakes, not behaviour:
each is listed in `PROJECT.json` under the property that catches it.

### The translator

`Sparql` is the reference: section 18 of SPARQL 1.1 for the algebra rdflib hands
over, with solutions as functions and multisets as sequences without order; it
says nothing of the code. `Aql` is `AqlQueryBuilder` (clauses in the order they
were added; SORT, LIMIT and RETURN last whatever the order of the visits) and an
executor of its clauses: loops over collections, traversals, filters, LET,
sub-queries, UNION, COLLECT. AQL's `null`, its comparisons with it and the null
row of an OPTIONAL are as ArangoDB has them; this half is external.

In `Translate` every `visit_X` of `AlgebraVisitor` and of the modules it
delegates to is an operator from a visitor state to a visitor state; the state
is the source's `_BindingState` with the builder, and a child visitor is opened
with exactly what the source passes it. Modelled are the four query forms, basic
graph patterns over classes with a collection of their own, with a label, or
united of members, attributes, dedicated and generic edge collections, symmetric
and domainless properties, variable predicates, paths, FILTER, BIND, VALUES,
GRAPH, grouping with HAVING, ORDER BY, slices and the tenant's guards.
Abstracted: an IRI is one document, attributes hold one value, parallel edges
are not merged, edges stay inside one graph, `default_graph_includes_named` is
off, only declared properties are used, no class is an RPT triple collection,
and no predicate is registered.

`Answering` translates (`Translates`), executes (`Executes`) and compares with
the solutions of the triples the database stands for, cut down to what the
caller's tenant may see.

### Acquisition and the mapping's ontology

`Acquisition` has a step per pass: `_classify_all` and
`build_heuristic_mapping`, or `_acquire_via_analyzer`, then the RPT, endpoint
and label-shape passes and `scope_bundle_to_graph`; `PassFails` is the `except`
around a best-effort pass, and `Change` stores or removes a document or an edge
between any two. `Samples` is every way of reading all collections up to the
sample size: of a larger one, any subset of that size. Of two collections that
emit one name the later one tells (`LastWins`), as an assignment to a dict does.
A document has at most one discriminator field; two field names stand for the
two tiers of candidates. The RPT pass reads at one moment; when only the
inference of its relationships fails, it adds the triples' entries alone.
`text` is the `owl_turtle` an analyzer's bundle carries: what it describes is the
bundle when it was written. Only the label-shape pass appends to it, for the names
that Turtle takes as they are (`Plain`); the other passes leave it. The export of
the analyzer may fail (`NoText`). An edge collection with the columns of triples
is not among the databases.

`Ontology` holds the tables of annotations of `owl.py` (synthesised, harvested,
inherited, resolved) over specifications as sets of fields and values, with
`mapping_to_turtle`, `turtle_to_mapping`, `_resolver_from_request`,
`_resolve_class` and `_resolve_property`; local names are percent-encoded where
the source encodes them and matched encoded where it matches them. The two
spellings of `phys:`, the syntax of Turtle, datatype properties and supertypes
are left out. `Wire` of `AcquiredOntology` is the bundle with the ontology that its
text states (annotated as a synthesised one is), which export and resolution use
verbatim in place of the bundle. The module asks of every whole-database mapping acquired
from quiet, uniform data whether each way to a query reads the same documents.

### The service

**SchemaCache.** A bundle is the version of the structure (`shape`) and of the
row counts (`counts`) it was derived from, a fingerprint is the version it
hashes: equality of versions is equality of fingerprints. `pc[t]` is the place
of a thread between two locked blocks or I/O calls: `hydrate` (waiting for the
hydration lock), `read_l2`, `fill`, `evict`, `fingerprint`, `analyze`, `put` and
`store` (the halves of `put`), `compare`, `clock`, `restamp` and `touch`
(`revalidated`), `recount`, `drop_l2`. Both writers of L1 read the clock before
they take the lock, in steps of their own (`Analyze` ends with it, `ReadClock`
before `Restamp`), so they may store their times in any order. `Found` is the return of `_lookup` into
its caller, which goes on in the same step when it does no I/O. `seen[t]`, the
states the database had since the fingerprints were taken, is what an analysis
may have read: a mixture, since it is no transaction. Every L2 operation may
fail as the code's `except` clauses allow. A restart loses L1 and every thread
and may start the next release, whose `producer` differs.

**WarmRegistry** has one action per locked block of `schema_warm.py`. Its own
`RegistrySpec` lets anyone call any operation at any time; `SchemaService` says who
calls which, and when.

**SchemaService** has one client step per call of `_read_or_warm` that reads or
changes shared state, so two requests interleave between the error check, the
in-flight check, the scheduling and the re-read. A worker thread is a warm.
The slot abstracts the two tiers to what the read decides on. `Reacquire` is
the synchronous `force-reacquire`, `Expire` is the TTL or an invalidation.

**SessionStore.** The table is a plain dict. `ScanStart`, `ScanEnd` and
`ScanRaises` model a comprehension over it: a dict whose size changed under an
iteration raises `RuntimeError`. `Dial` constructs a client and `CheckCredential` is
its first call: a refused credential ends the call, and only the platform login
closes the client then. `Pop` and `Close` are the two halves of ending
a session. Token sessions and control-plane sessions differ in who inserts; the
mode is chosen initially and fixed. `Insert` of a context's session writes under
the key that was looked up, perhaps for the second time.

**SessionIdentity.** A platform session re-binds in two steps, the handle
(`open_platform_database`, which refuses an expired login before it changes
anything) and the remembered login (`StoreToken`). A project's session looks at
its mapping's age, reads, keeps and stamps (`LookAtAge` to `Stamp`, the stamp
being the time read first), and `RefreshSchema` resets the stamp under requests
in flight. The platform rotates its logins, the project publishes or withdraws
mappings, the control plane answers, rejects or fails. The read has the driver's
timeout; the two assignments after it take no time.

**QuestionRecording.** `clock[t]` is the `now` that `record_question` reads
before it consults `recent`, under which it later notes the recording. Time is
counted in `AGAIN_SECONDS`. The control plane's answer may be lost after it
recorded. `HistoryKept` maps it to `ProjectHistory`, three actions that promise
what the module's docstring does.

**Requests.** A handler is the sequence of its stages (`Handler`), a dependency
being a stage of the routes that depend on it; an action per stage goes on or
refuses, and a refusal leaves only the answer. The coroutines of `/sparql` hold
the event loop from their start to their answer, as `protocol.py` never awaits
in between, the other routes run on threads; `ReadBucket` and `TakeToken` are the
two halves of the unlocked bucket; `_build_env_default_session` writes the
global default session. In `Negotiation` the offers of a header are a set: the
source groups them by quality, and their order within one means nothing.

## 3. Runs

| Run | Question | Bounds | Result |
| --- | --- | --- | --- |
| `answering` | `PlanCompiles`, `RowsAgree`, `OtherTenantsUnseen` | 6900 queries, operators nested three deep, on two databases each | holds, 40 thousand states |
| `acquisition` | `OntologyKeepsMeaning`, `BareInheritsMeaning`, `EndpointsDeclared`, `EndpointsHold`, `FewAreLost`, `ScopeIsClosed`, `PinnedStays` | 640 databases, one change between any two passes, both strategies, two graphs | holds, 4 million states |
| `requests` | type, `AnsweredAsRecorded`, `RefusalsCostNothing`, `AnswerIsAcceptable`, `OneEnvDefault` | three deployments, two requests at once of three that arrive, buckets of one, one tick | holds, 4 million states |
| `identity` | type, `AgreesUnlessRaced`, `MappingIsRecent`, `NotAnalyzedOver` | two requests at once, logins good for a tick, refresh and read of a tick, three versions, four ticks | holds, 7.8 million states |
| `cache_safety` | type, `NoSilentDrift`, `OneHydration`, `OwnAnalysisStays`, `EvictsOnlyExpired` | a request thread and the warm, 2 structures and counts, 2 ticks with a TTL of 1, 2 releases, failing fingerprints | holds, 5.9 million states |
| `cache_liveness` | `CallsReturn` | two threads, no change of the database | holds |
| `service_safety` | type, `OneWarm`, `QueuedBehindCheck`, `FailureIsOfLastWarm` | two clients, two polls, two worker identities, one disturbance, failures | holds, 1.9 million states |
| `service_liveness` | `PollsEnd`, `WarmsEnd`, `OutdatedIsReplaced` | as above, one worker, analyses carry OWL, some fail or all | holds, 138 thousand states |
| `sessions` | `StoredIsOpen`, `SessionsBounded`, `NoClientIsLost` | two threads, three keys, five clients, a cap of one, both modes | holds, 196 thousand states |
| `recording` | type, `AnsweredIsRecorded`, `UnrecordedWasRecent`, `WordsAreVouchedFor`, `HistoryKept` (a refinement) | two threads, two wordings of one query, one remembered, two ticks | holds, 1.6 million states |
| `answering_graph_scope` | `GraphScopeKept` | patterns inside `GRAPH <g>` | violated |
| `service_rebuild_lost` | `NoQueuedRebuildLost` | as `service_safety`, nothing fails | violated |

*Why these bounds.* The translator has no state between queries, so its run is
an enumeration: every operator over every other, five left operands and
twenty-four right ones that differ in storage shape, a third level over a choice
of them, and the forms of query, grouping, graphs and wildcards around them. The
two databases hold both values of everything that decides a row: a class with
and without a label, two tenants, named and default graphs, parallel edges and
loops, missing attributes. `MaxDepth` is the hops of a path, on both sides.

The races in the service are between two threads: a third repeats the role of
one of the two, except as a second warm, which `OneWarm` excludes (hence two
worker identities, so that a second could start). One change of structure
separates *before* and *after* an analysis, one tick with a TTL of one
separates fresh from expired, two releases separate current from outdated. A cap
of one with two threads is the smallest table in which the eviction and the
insertion of two threads compete, three keys let it overflow by more than the
promised one, and five clients are two per thread and one stored. Two wordings
distinguish a vouched question from another. Three versions of a mapping let one
be replaced by an older one while a third is current; four ticks are a refresh
and a read twice over. A third arrival finds what the first two left in the
buckets and in the default session. A sample of three with a threshold of two
thirds, the smallest in which a document may be lost to coverage, is filled and
exceeded by four vertices.

The clocks, versions, releases, arrivals, polls, changes and disturbances are
capped in guards (`MaxNow`, `MaxVersion`, `MaxVersions`, `MaxRelease`,
`MaxArrivals`, `MaxAsks`, `MaxChanges`, `MaxDisturbances`). The runs of
`SchemaService`, `Requests`, `Answering` and `Acquisition` do not check deadlock:
with all polls made, all requests answered or the acquisition done, they rest.
The symmetries of `MCSessionStore` and `MCRequests` are used for invariants and for
one action property (`NoClientIsLost`), which no permutation changes; never for liveness.

*What the claims of `answering` and `acquisition` leave out.* `RowsAgree` is
claimed for the queries `CoveredQuery` admits: `Covered` names the combinations
in which the code's answer differs from SPARQL's, and section 5 lists them one by
one; `PlanCompiles` and `OtherTenantsUnseen` are claimed for all. The properties
of `Acquisition` state their conditions as conjuncts (`Quiet`: nothing changed;
`Complete`: the samples show everything; `Uniform`: no two collections share the
name of a class, be it a label or a collection's own, and no field holds strings
in some documents and arrays in others); those without them hold whatever
changes. Where two collections share a name, the bundle has one entry for both,
and an edge between them names a class it is not stored in. The two of
`AcquiredOntology` speak of mappings of the whole database, not of a graph's, and
of names that are not `Shared` by a class and a relationship; `OntologyKeepsMeaning`
speaks, of a mapping with an analyzer's text, of what that text describes (`Own`:
not the entries of triples that a later pass put in, which it does not know), and
needs besides that no name is the percent-encoding of another (`Unmixed`);
`BareInheritsMeaning` needs that the name is its own encoding.

*Fairness.* In `SchemaCache`, a thread in a call keeps running and its I/O
returns (weak fairness of its steps; an I/O call that fails is a step too), and
the hydration lock is not withheld for ever from a waiting thread (strong
fairness of acquiring it: `threading.Lock` is not fair, but a holder does finite
work and goes idle). Starting calls, changes of the database and restarts are
never fair. In `SchemaService`, request threads and warm threads are scheduled,
and a waiting client polls again until it is answered (its time limit of twenty
minutes, `GiveUp`, is possible but never counted upon): weak fairness of the steps
of each. Nothing makes an analysis succeed. `PollsEnd` has a premise instead: from
some time on no failure is dropped unreported (`<>FailureIsReported`). The analyses
may then all fail, and every poll still ends, with the failure it is told. Without
the premise the code does have polls without end (section 5). `OutdatedIsReplaced`
supposes that no analysis fails, since one that always does replaces nothing. The
other modules state safety only.

*What the violated runs show.*

- `answering_graph_scope`: the visitor of a MINUS or an EXISTS starts without the
  graph in scope, so inside `GRAPH <g>` it reads the default graph's documents in
  place of that graph's, against `docs/architecture/PRD.md:1357`. (A sub-select is
  seeded in the same way, `subselect.py:157`; the run has none under GRAPH.)
- `service_rebuild_lost`: between a check's last look at `_rebuild_after` and
  its `finally` clause (or after it failed) `request_rebuild` still sees a
  revalidation and queues a re-analysis nobody runs.

## 4. Proofs

`SchemaCacheProofs` (any threads, versions, TTL, releases, read-only or not):

- `TypeCorrect`: `TypeOK`, strengthened by `HoldsAnEntry`: a thread at a place
  where it works on an entry holds one. Without it `held[t]` may be `None` where
  a field of it is written.
- `DriftIsCaught`: `NoSilentDrift`, for databases whose structures do not recur.
  The property says nothing of the entries in threads' hands and is not
  inductive. `DriftInv` says that every entry, stored or held, is *honest*: it
  describes a structure no older than the one its fingerprint was taken of, and
  no newer than the live one (`HonestCopies`); that what a running analysis may
  read is no older than its fingerprint (`FingerprintsFirst`: the order of the
  two calls in `_build_and_cache_full_bundle`); and that a recount is of a
  mapping whose structure was found unchanged (`RecountsUnchanged`). An honest
  entry with the live fingerprint describes the live structure.
- `HydrationIsShared`: `OneHydration`, inductive with the types.
- `OwnAnalysisIsKept`, `EvictionIsOfExpired`: the action properties, from
  `SlotInv`: what a thread is about to put was built by the release that runs, and an
  entry held for eviction is expired (the clock only adds to that).

`WarmRegistryProofs`: `RegistryIsSound` proves one warm per database and queued
re-analyses behind checks for the registry alone, its invariant tying the
marker to the place of the running thread, and that a failure kept is of the last
warm: nobody but a finishing thread records one, and starting the next drops it.
`ServiceRunsOneWarm`, `ServiceQueuesBehindChecks` and `ServiceTellsLastFailure` carry
the invariant over to the composition. `ServiceTypeCorrect` is the types of the
composition.

`SessionStoreProofs` (any threads, keys, clients, TTL and cap):

- `TypeCorrect`, with `CallInv`: what a thread holds at each place of its call. No
  run repeats it.
- `StoredIsAlwaysOpen`: `StoredIsOpen` is not inductive, since the clients in
  threads' hands may be closed later. `ClientInv` adds that a client in a
  thread's hands is its own (`HeldIsOwn`), no client is stored twice
  (`StoredOnce`), and a session a thread is about to close, evicted or
  disconnected, has left the table (`VictimIsGone`, `DisconnectsOwn`).
- `ClientsAreNotLost`: an open client that a session in the table, the thread that
  dialled it or a thread about to close it can still close stays so until it is
  closed, but for the failed credential check and the two races `NoClientIsLost`
  names (TLC shows a trace of each when it is struck from the property). `EndingInv` is needed: the
  mode keeps tokens and contexts apart (`ModeInv`), a thread has a client to close
  only where it closes it, so no pop overwrites another's (`VictimAtClose`), and the
  session under a disconnect's token is the one it found or none (`TokenIsKept`),
  since a new token is none in use. `HandedOn` is the fact each action's step cites.
- `SessionsStayBounded`: `CountInv` counts the threads that passed the size check
  and have not inserted: stored and inserting together stay below the cap plus
  the threads. The cardinalities come from `FiniteSetTheorems`.

`SessionIdentityProofs` (any requests and bounds; the refresh interval is
positive, as `MAPPING_REFRESH_SECONDS` is):

- `TypeCorrect`; `LoginsAgree`: `LoginInv` ties a handle that differs from the
  stored login to the one request that is between the two steps.
- `MappingsAreRecent`: `RecentInv` says of the kept mapping, of each mapping
  brought, and of each mapping in use that it was the project's within a refresh
  and a read of the time it is measured from (`HeldWithin`), whatever the order
  in which reads are kept and stamped.
- `NeverAnalyzedOver`: `NoneInv`, an empty answer kept or carried witnesses a
  version that is no mapping, and outages bring none.

`QuestionRecordingProofs` (any threads, words, queries, memory and clock):
`TypeCorrect`; `WordsVouchedFor` from `WordsInv` (what is remembered, and what a
thread is about to record with words, was generated); `AnswersRecorded` and
`RecentWhenUnrecorded` from `NotesAreHistory` (a note never exceeds the
recording it notes); `KeepsHistory`, the refinement: initial states map to
`ProjectHistory`'s, and each step to one of its steps or a stutter.

`RequestsProofs` (any requests, texts, headers and steps of the quality):
`TypeCorrect`, `AnswersRecorded`, `RefusalsAreFree`, `DefaultIsOne` and
`MediaTypeAcceptable` from one invariant, `RequestsInv`, which TLC checked on
the instance of the run before it was proved.

- None of the five is inductive: a request that is under way may do anything its
  remaining stages say. `Ordered` says of them what the properties need: they
  grow in `Rank`, an order in which the stages of all thirteen routes appear
  (`SoundHandlers` looks at each), an execution is still followed by its
  recording when a control plane serves the deployment, and a stage that opens
  or uses the default session comes with the event loop held.
- `Sane` says what each outcome has left behind, `Alone` that the loop belongs
  to one request, `Counted` that a session opened is of a request that arrived,
  `Chosen` that the media type is the header's. `Chosen` rests on
  `NegotiatedSuits`: the first type of the best tier is the first of those whose
  quality no other exceeds, for any header.

`AcquisitionProofs` (any collections, documents, edges, sample size, coverage,
graphs and changes): `DeclaresEndpoints`, `EndpointsAreHeld`, `LittleIsLost`,
`ScopesAreClosed` and `PinsAreKept` from one invariant, `AcquisitionInv`, which
TLC checked on the instance of the run before it was proved.

- The properties compare a finished bundle with the database; none is inductive,
  since they do not say where a bundle came from. `HeuristicIsExact` and
  `AnalyzerIsExact` do: as long as nothing changed and the samples were whole,
  each class is one the classification of the whole database emits (`Emits`,
  `Analyzed`), and the two ends of each relationship are what the classes of its
  edges' endpoints agree on (`Relates`), or the key of the collection that those
  name (`Keyed`). Every pass rests on its predecessors having left that so.
- `Fresh` says that a classification at hand is the exact one, `FlagsShown` that a
  flag of an entity's shape was seen in a document, `AnalyzerDeclares` that an
  analyzer's bundle names declared classes whatever changes meanwhile.
- `EndpointsAreHeld` follows from an endpoint's own label being the agreed one
  (`AgreedIsOne`) and from a name being of one collection (`EmittedInOne`,
  `AnalyzedInOne`); `LittleIsLost` from the coverage of the discriminator and
  `FiniteSetTheorems`.

`AcquiredOntologyProofs` (the same, and any encoding of names): `MeaningIsKept` and
`BareInherits`, each for every ontology the property names, those that place a
class themselves included.

- The argument is about annotations, not about documents. `SaysOfClass` and
  `SaysOfRelationship` fix the values that each field the resolver reads has. The
  bundle's specifications say so (`EntitySpecSays`), the synthesised nodes do
  (`ClassNodeSays`), what is harvested from them does (`ImportedClassSays`), a
  node that says all takes nothing from a specification that says the same
  (`ClassKept`), and one that only declares takes all of it (`ClassInherited`):
  one lemma for each of the four tables of annotations, and one beside it for
  relationships. What says so is read where the bundle stores it (`ClassIsRead`,
  `RelationshipIsRead`).
- The shape of a label's field is what may be lost on the way, so `SaysOfClass`
  has it absent or right; in uniform data neither changes what is read, which
  takes `Flagged`: a flag was seen in a document of the collection.
- `OntologyInv`, beside `AcquisitionInv`, says that every entry acquired is
  well-formed (a label has a field and a value, a typed relationship a type) and
  has a name the encoding tells apart. It is what the acquisition leaves whatever
  changed meanwhile. `Wired` and `FlagsLast` were checked by TLC first.
- An export need not be of the bundle: `TextInv` says that the text an analyzer's
  bundle carries describes every entry but those of triples, as the bundle does up
  to the flag of a label and the endpoints (`Texted`, `AlikeClass`,
  `AlikeRelationship`), and, for the whole database, nothing besides (`TextNames`).
  So an export is that of a mapping alike (`ExportedAs`), and what it says of the
  names of `Own` is what the bundle says (`ExportedClass`, `ExportedProperty`).

The assumptions are the named `ASSUME`s of the modules: `None` is no entry, the
warm is one of the threads, sets of threads are finite, bounds are numbers,
headers and texts are what their names say, a collection is one of documents or
one of edges, what may be stored is finite, and no two names have one encoding.

Only model-checked: everything under fairness (`CallsReturn`, `PollsEnd`,
`WarmsEnd`, `OutdatedIsReplaced`), which the prover does not reach; and the
properties of `Answering`, whose definitions are recursive over algebra and
plans.

## 5. Where the code and what it promises differ

Each was found by TLC or by translating the code; the two with a run are in
section 3. The properties named are in the modules, without a run of their own:
add one to a copy of the module's cfg and TLC shows the trace.

In the service:

- `ReadOnlyWritesNothing` (`SchemaCache`, `Writes = FALSE`): `touch` is the one
  write of `ArangoSchemaCache` that does not ask `_writes()`. Under a control
  plane a drift check of a document that a former deployment stored re-stamps it
  in the project's database, which "the service only reads"
  (`service/routes/schema.py:93`).
- `EveryPollEnds` (`SchemaService`), that is `PollsEnd` without its premise: with an
  analysis that keeps failing a poll may go on until the client's own limit. Between
  its look for an error and its look for a warm, another client's `schedule_warm` pops
  the failure just recorded (`schema_warm.py:119`) and the poll waits for the next
  warm; or a forced request that has an expired bundle to serve pops it without raising
  it (`routes/schema.py:488`). The comment at `schema_warm.py:55` and the docstring of
  `_read_or_warm` promise that a failure is reported "instead of leaving the client
  polling forever".
- `PollsEnd` (`SchemaService`, `OwlFails = TRUE`): the OWL export is best-effort,
  and a bundle without OWL is not usable for a client that asks for it, as the
  Workbench always does. No failure is recorded, so each of its polls starts
  another full analysis.
- `FailureIsReported` (`SchemaService`): `take_error` pops a failure that is not
  raised when there is a bundle to serve, and `schedule_warm` pops one recorded
  since.
- Seen with them, stated as a comment (`routes/schema.py:494`, "must not absorb a
  requested re-analysis"): between `is_warming` and `schedule_warm` another request may
  start a drift check; the re-analysis is then not scheduled, and not queued either
  (`routes/schema.py:490`).
- Stamps of L1 may go back (stated nowhere): `put` and `revalidated` read the clock
  before they take the lock (`schema/cache.py:311`, `341`), so of two writers the one
  with the older time may write last.
- `LookupNeverRaises` (`SessionStore`): a lookup's scan of the unlocked table
  raises `RuntimeError` when another thread inserts or removes meanwhile.
- `ContextSessionIsKept` (`SessionStore`): two first requests of one context each
  open its session; the second insertion replaces the first, whose client stays
  open and whose remembered questions are lost.
- A client is lost (`NoClientIsLost` names the ways) by this race, by a scan that
  raises over a client just opened, and without any race by a credential that is
  refused: `/connect` (`routes/connect.py:106`) and `_control_plane_session`
  (`security.py:297`) construct the client, then check, and do not close it when the
  check fails, while `/connect/platform` does.
- `BoundLoginAgrees` (`SessionIdentity`): two requests that re-bind at once leave
  the handle of one with the login of the other (comment at `security.py:142`).
- `UpdateIs405` (`Requests`): an Update behind a declaration of the default
  prefix, or with a WITH that names a long graph, is taken for a query by the
  scan and refused as one that does not parse, not with the 405 of
  `update_detect.py`'s docstring (and a check that comes earlier may refuse it).
- `RejectedIsNotSent` (`Requests`): a type rejected with `q=0` is sent when a
  wildcard admits it (`negotiate.py:17`).
- `TruncatedIffMore` (`Requests`): a probe for one more row that fails passes for
  the end, so rows are left that no flag announces (`routes/sparql.py:57`).
- Seen in the source, stated nowhere: the default session of `/sparql` is replaced without
  closing its client (`routes/protocol.py:353`), and the coroutines of `protocol.py`
  block the event loop while a query runs. Refresh schema forgets how old the mapping
  is, and with it that there is one: an outage just after it is answered with
  "unavailable" where PRD 8.7 keeps the last mapping (`security.py:345`).
- A structure that changes and changes back during an analysis violates
  `NoSilentDrift` (`ShapesRecur = TRUE`): fingerprints cannot see it.

In the mapping:

- `HeuristicEndpointsDeclared` (`Acquisition`): a heuristic bundle may name a
  class that its sample never showed.
- `EndpointsHoldUnresolved`: the analyzer keeps a class for a collection that the
  detection takes for triples; an endpoint there resolves to nothing, so the class
  inferred from the others excludes it (docstring of `_endpoints_from_edges`).
- `EndpointsHoldForArrays`: an endpoint in a collection with arrays of labels
  resolves to nothing and does not count, so the class inferred from the others
  may exclude it.
- `RptEntryWins`: an analyzer's entry under another name stays beside the RPT
  entry of its collection (docstring of `_apply_rpt_enrichment`).
- `TriplesKeepMeaning` (`AcquiredOntology`): the RPT pass adds the triples' entries to
  an analyzer's bundle and leaves its `owl_turtle` as it was written
  (`acquire.py:588`), which resolution (`resolver.py:522`) and export (`owl.py:686`) use
  verbatim: the classes and relationships of triples are unknown to both, and after an
  import they are gone. The docstring of `_apply_rpt_enrichment` says of the
  classification the analyzer misses that the pass "closes that gap
  deterministically" (`acquire.py:664`). Endpoints that a later pass fills in are not in
  the text either.
- `SharedNamesKeepMeaning` (`AcquiredOntology`): a label and a type of edge with
  one name export as one node with two mapping styles; the resolver takes either.
- `MixedNamesKeepMeaning`: when one name is the encoding of another (`a%20b`
  beside `a b`), a request that brings the export back finds the one's
  specification under the other's IRI, since the bundle is looked up by the
  encoded local name. Found by the proof of `MeaningIsKept`; TLC shows it with
  such a label.
- `NamesSurvive`: a name that needs percent-encoding is imported under its
  encoding, against "round-trippable" (`_synthetic_iri`).
- `PlacedIsNotMixed`: a class a request places in another collection is tested
  for the discriminator of the collection the bundle knows.
- Seen in the source, stated nowhere: the tables of inheritance and of import miss `labelsField`
  and `labelValue`; the former misses `typeFieldIsArray`, which is harmless since
  the test of an unknown shape matches both.

In the translator, the queries that `Covered` excludes; each returns other rows
than SPARQL 1.1:

1. `MINUS { VALUES … }` removes nothing, its variables not being collected
   (`minus_exists.py:312`, against its line 74; `MinusRemoves`).
2. A BIND in a joined group overwrites the outer variable (`visitor.py:1121`).
3. A join, MINUS or EXISTS on a variable that may be unbound compares `null`
   (`visitor.py:1560`).
4. So do `=` and `!=`, which SPARQL makes an error.
5. A zero-length path with an unbound start ranges over the default collection.
6. EXISTS over an aggregating sub-select, or over a MINUS.
7. MINUS, EXISTS and sub-selects under GRAPH lose its scope (`GraphScopeKept`).
8. `GRAPH ?g` with `?g` unbound ranges over the default graph too
   (`visitor.py:2210`).
9. `GRAPH ?g { … OPTIONAL … }` hides `?g` from the optional body
   (`optional_subquery.py:58`).
10. A blank node of a CONSTRUCT template is one node for all solutions
    (`visitor.py:477`).
11. A negated path reads attributes only, never edges.

Others are refusals or omissions rather than other rows: a variable predicate in a
basic graph pattern under OPTIONAL is refused, on purpose
(`optional_subquery.py:157`, ADR-0002), CONSTRUCT and DESCRIBE with LIMIT are, and DESCRIBE does not attach the inferred `rdf:type` its
docstring announces (`visitor.py:486`).

## 6. Not modelled, and what could follow

- *Of the translator*: registered predicates, RPT and reified storage, lists in
  attributes, shard families, the string, numeric and date functions (one-to-one
  with AQL's, covered by the repository's goldens), the parser (rdflib's).
- *Of acquisition and mapping*: warnings and the statistics themselves, datatype
  properties, supertypes, the syntax of Turtle, size limits, wire aliases; an edge
  collection with the columns of triples (`detect.py:358`); a name stored otherwise
  than it is spelt in the triples (`detect.py:991`).
- *Of the service*: how rows are written in each media type; graph binding,
  listings and diagnostics of `/connect`; tokens minted by the sidecar; the
  verification the control plane does; a warm thread that cannot be started
  (`schema_warm.py:151`, outside any `try`: its marker would stay), a background handle
  that cannot be opened (`routes/schema.py:492`); the hashing of bundles behind
  fingerprints. A generation of the NL routes is one step that succeeds or
  fails: its attempts are a library's outside the repository.
- *Not at all*: error redaction and the connect-target guard (tests of strings
  without state), query mining (offline), observability, the vocabulary, health
  and static routes, the CLI and administration tools, the Workbench's reducer.

Next in order of worth: RPT storage in `Translate`; the Workbench's poll
generations across database switches; an abstract cache that `SchemaCache`
implements.

## 7. Running

    tlc -workers 2 -config cache_safety.cfg SchemaCache.tla
    tlc -workers 2 -config answering.cfg MCAnswering.tla
    tlapm SessionStoreProofs.tla

`PROJECT.json` lists each run's module and configuration, the source lines of
every definition, and the mutant that each property catches.
