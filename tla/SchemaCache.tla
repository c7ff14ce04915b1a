---------------------------- MODULE SchemaCache ----------------------------
(***************************************************************************)
(* The two-tier schema cache of one database (schema/cache.py over         *)
(* schema/persistent_cache.py) and the code that fills and re-checks it    *)
(* (the builders of service/routes/schema.py), called by concurrent        *)
(* worker threads.                                                         *)
(*                                                                         *)
(* L1 is a slot of the process-wide dict and is lost when the process      *)
(* stops; L2 is one document in the database and survives.  A bundle is    *)
(* abstracted to the version of the database structure it was derived from *)
(* (shape); a live fingerprint is the version of the structure or of the   *)
(* row counts it hashes.  The counts inside a bundle decide nothing here.  *)
(***************************************************************************)
EXTENDS Naturals

CONSTANTS
    Thread,       \* worker threads
    Warm,         \* the one of them that runs the database's background warm
    None,         \* no entry, no document, no fingerprint, no lock holder
    Ttl,          \* SCHEMA_MAPPING_CACHE_TTL_SECONDS, in ticks; 0 never expires
    Writes,       \* what l2_writes() answers: FALSE under a control plane
    FpFails,      \* whether a live fingerprint may be unavailable
    ShapesRecur,  \* whether the database may return to an earlier structure
    MaxVersion,   \* bound on the versions of the live database
    MaxNow,       \* bound on the clock
    MaxRelease    \* bound on the releases deployed

Stored == [shape: Nat, dbShape: Nat \cup {None}, dbCounts: Nat \cup {None},
           stamp: Nat, producer: Nat]

ASSUME NoneIsNothing == None \notin Nat /\ None \notin Stored /\ None \notin Thread
ASSUME WarmIsAThread == Warm \in Thread
ASSUME BoundsAreNumbers == /\ Ttl \in Nat /\ MaxVersion \in Nat
                           /\ MaxNow \in Nat /\ MaxRelease \in Nat
ASSUME SwitchesAreBoolean == {Writes, FpFails, ShapesRecur} \subseteq BOOLEAN

VARIABLES
    live,       \* the database: the versions a fingerprint taken now would hash
    now,        \* the clock
    release,    \* the build of the acquisition code this process runs
    l1,         \* SchemaCache._l1[db_name]
    l2,         \* the cache collection's document
    hydrating,  \* the thread holding SchemaCache._hydration_locks[db_name]
    pc,         \* per thread: where it is
    op,         \* per thread: the lookup it is waiting in
    held,       \* per thread: the entry it works on
    fp,         \* per thread: the live fingerprints it took
    seen        \* per thread: the structures of the database since it took them

threadVars == <<pc, op, held, fp, seen>>
vars == <<live, now, release, l1, l2, hydrating, pc, op, held, fp, seen>>

Op == {"peek", "get", "revalidate"}
Label == {"idle", "hydrate", "read_l2", "fill", "evict", "fingerprint",
          "analyze", "put", "store", "compare", "clock", "restamp", "touch", "recount",
          "drop_l2"}
Database == [shape: Nat, counts: Nat]
Fingerprints == [shape: Nat \cup {None}, counts: Nat \cup {None}]
NoFingerprints == [shape |-> None, counts |-> None]

TypeOK ==
    /\ live \in Database /\ now \in Nat /\ release \in Nat
    /\ l1 \in Stored \cup {None} /\ l2 \in Stored \cup {None}
    /\ hydrating \in Thread \cup {None}
    /\ pc \in [Thread -> Label] /\ op \in [Thread -> Op]
    /\ held \in [Thread -> Stored \cup {None}]
    /\ fp \in [Thread -> Fingerprints] /\ seen \in [Thread -> SUBSET Nat]

(* The process starts with the document an earlier process of the same     *)
(* deployment stored, or with none.                                        *)
EarlierDocument == [shape |-> 0, dbShape |-> 0, dbCounts |-> 0, stamp |-> 0, producer |-> 0]

Init ==
    /\ live = [shape |-> 0, counts |-> 0] /\ now = 0 /\ release = 0
    /\ l1 = None /\ l2 \in {None, EarlierDocument} /\ hydrating = None
    /\ pc = [t \in Thread |-> "idle"] /\ op = [t \in Thread |-> "peek"]
    /\ held = [t \in Thread |-> None]
    /\ fp = [t \in Thread |-> NoFingerprints] /\ seen = [t \in Thread |-> {}]

----------------------------------------------------------------------------
(* CachedEntry *)

IsExpired(e) == Ttl > 0 /\ now - e.stamp >= Ttl

IsFromCurrentCode(e) == e.producer = release

----------------------------------------------------------------------------
(* A thread returns to its caller; what it held is no longer of interest.  *)

Forget(t) ==
    /\ fp' = [fp EXCEPT ![t] = NoFingerprints]
    /\ seen' = [seen EXCEPT ![t] = {}]

Return(t) ==
    /\ pc' = [pc EXCEPT ![t] = "idle"]
    /\ held' = [held EXCEPT ![t] = None] /\ Forget(t)
    /\ UNCHANGED op

Goto(t, label) == pc' = [pc EXCEPT ![t] = label] /\ UNCHANGED <<op, fp, seen>>

(* What the caller of _lookup does with its answer: peek returns it; get   *)
(* returns it or evicts and its caller analyzes; the drift check compares  *)
(* it when it is trustworthy and analyzes otherwise.                       *)
Continuation(o, e) ==
    CASE o = "get" /\ e # None /\ IsExpired(e) -> "evict"
      [] o = "revalidate" /\ e # None /\ IsFromCurrentCode(e) /\ e.dbShape # None -> "compare"
      [] o = "peek" \/ (o = "get" /\ e # None /\ ~IsExpired(e)) -> "idle"
      [] OTHER -> "fingerprint"

Found(t, o, e) ==
    LET next == Continuation(o, e) IN
    /\ pc' = [pc EXCEPT ![t] = next]
    /\ op' = [op EXCEPT ![t] = "peek"]
    /\ held' = [held EXCEPT ![t] = IF next \in {"evict", "compare"} THEN e ELSE None]
    /\ UNCHANGED <<fp, seen>>

(* Route handlers peek and get; drift checks run only in the warm, of      *)
(* which schema_warm keeps one in flight (module SchemaWarm).              *)
LookupsOf(t) == IF t = Warm THEN {"revalidate"} ELSE {"peek", "get"}

(* _lookup, first locked block: an L1 hit is the answer. *)
Lookup(t, o) ==
    /\ pc[t] = "idle"
    /\ \/ l1 # None /\ Found(t, o, l1)
       \/ /\ l1 = None
          /\ pc' = [pc EXCEPT ![t] = "hydrate"] /\ op' = [op EXCEPT ![t] = o]
          /\ UNCHANGED <<held, fp, seen>>
    /\ UNCHANGED <<live, now, release, l1, l2, hydrating>>

(* Mutant: the lock is not waited for. *)
LockHydrationUnguarded(t) ==
    /\ pc[t] = "hydrate" /\ l1 = None
    /\ hydrating' = t /\ Goto(t, "read_l2")
    /\ UNCHANGED <<live, now, release, l1, l2, held>>

(* The hydration lock is acquired; a slot another thread filled meanwhile  *)
(* is the answer and the lock is released at once.                         *)
LockHydration(t) ==
    /\ pc[t] = "hydrate" /\ hydrating = None
    /\ \/ l1 # None /\ Found(t, op[t], l1) /\ UNCHANGED hydrating
       \/ /\ l1 = None
          /\ hydrating' = t /\ Goto(t, "read_l2") /\ UNCHANGED held
    /\ UNCHANGED <<live, now, release, l1, l2>>

(* Mutant: a miss returns without releasing the lock. *)
ReadL2KeepingLock(t) ==
    /\ pc[t] = "read_l2"
    /\ \/ Found(t, op[t], None)
       \/ l2 # None /\ held' = [held EXCEPT ![t] = l2] /\ Goto(t, "fill")
    /\ UNCHANGED <<live, now, release, l1, l2, hydrating>>

(* _read_from_l2: any failure reads as a miss, which releases the lock. *)
ReadL2(t) ==
    /\ pc[t] = "read_l2"
    /\ \/ /\ hydrating' = None /\ Found(t, op[t], None)
       \/ /\ l2 # None
          /\ held' = [held EXCEPT ![t] = l2] /\ Goto(t, "fill")
          /\ UNCHANGED hydrating
    /\ UNCHANGED <<live, now, release, l1, l2>>

(* Mutant: the document displaces a put that landed during the read. *)
FillSlotAlways(doc) == doc

(* setdefault: a put that landed during the read stays. *)
FillSlot(doc) == IF l1 = None THEN doc ELSE l1

FillL1(t) ==
    /\ pc[t] = "fill"
    /\ l1' = FillSlot(held[t])
    /\ Found(t, op[t], FillSlot(held[t]))
    /\ hydrating' = None
    /\ UNCHANGED <<live, now, release, l2>>

(* Mutant: whatever is in the slot is dropped. *)
DropWhatever(e) == None

(* get: the expired entry it read is dropped only if it is still the slot's. *)
AfterEvict(e) == IF l1 = e THEN None ELSE l1

EvictExpired(t) ==
    /\ pc[t] = "evict"
    /\ l1' = AfterEvict(held[t])
    /\ held' = [held EXCEPT ![t] = None] /\ Goto(t, "fingerprint")
    /\ UNCHANGED <<live, now, release, l2, hydrating>>

----------------------------------------------------------------------------
(* _build_and_cache_full_bundle, _revalidate_or_rebuild *)

(* force-reacquire in a handler, or a warm that rebuilds. *)
StartBuild(t) ==
    /\ pc[t] = "idle"
    /\ Goto(t, "fingerprint")
    /\ UNCHANGED <<live, now, release, l1, l2, hydrating, held>>

(* A live fingerprint is None without the analyzer or on a failure. *)
MaybeNone(v) == IF FpFails THEN {v, None} ELSE {v}

TakeFingerprints(t) ==
    /\ \E s \in MaybeNone(live.shape), c \in MaybeNone(live.counts) :
          fp' = [fp EXCEPT ![t] = [shape |-> s, counts |-> c]]
    /\ seen' = [seen EXCEPT ![t] = {live.shape}]

(* The fingerprints are taken before the analysis starts. *)
Fingerprint(t) ==
    /\ pc[t] = "fingerprint"
    /\ TakeFingerprints(t)
    /\ pc' = [pc EXCEPT ![t] = "analyze"]
    /\ UNCHANGED <<live, now, release, l1, l2, hydrating, op, held>>

(* Mutants: the fingerprints are taken after the analysis; the entry is    *)
(* stamped as already expired, to have it checked on the next read.        *)
FingerprintedAfter(t, shape) ==
    [shape |-> shape, dbShape |-> live.shape, dbCounts |-> live.counts,
     stamp |-> now, producer |-> release]

BackdatedEntry(t, shape) ==
    [shape |-> shape, dbShape |-> fp[t].shape, dbCounts |-> fp[t].counts,
     stamp |-> now - Ttl, producer |-> release]

NewEntry(t, shape) ==
    [shape |-> shape, dbShape |-> fp[t].shape, dbCounts |-> fp[t].counts,
     stamp |-> now, producer |-> release]

(* put reads the clock and builds the entry before it asks for the lock.   *)
Put(t, e) ==
    /\ pc' = [pc EXCEPT ![t] = "put"] /\ held' = [held EXCEPT ![t] = e] /\ Forget(t)
    /\ UNCHANGED <<live, now, release, l1, l2, hydrating, op>>

(* The analysis reads the database at moments between the fingerprints and *)
(* now, so its bundle describes a structure it had meanwhile.              *)
Analyze(t) ==
    /\ pc[t] = "analyze"
    /\ \E s \in seen[t] : Put(t, NewEntry(t, s))

AnalyzeFails(t) ==
    /\ pc[t] = "analyze"
    /\ Return(t)
    /\ UNCHANGED <<live, now, release, l1, l2, hydrating>>

(* put's locked block. *)
PutL1(t) ==
    /\ pc[t] = "put"
    /\ l1' = held[t] /\ Goto(t, "store")
    /\ UNCHANGED <<live, now, release, l2, hydrating, held>>

(* put's last part, outside the lock: the document is overwritten, or the  *)
(* write is refused or fails.                                              *)
StoreL2(t) ==
    /\ pc[t] = "store"
    /\ \/ Writes /\ l2' = held[t]
       \/ UNCHANGED l2
    /\ Return(t)
    /\ UNCHANGED <<live, now, release, l1, hydrating>>

(* classify_live_drift, and _revalidate_or_rebuild's answer to it. *)
Drift(e, f) ==
    IF f.shape # e.dbShape THEN "shape_changed"
    ELSE IF f.counts = None \/ e.dbCounts = None \/ f.counts # e.dbCounts
         THEN "stats_only" ELSE "unchanged"

AnswerTo(drift) ==
    CASE drift = "shape_changed" -> "analyze"
      [] drift = "stats_only"    -> "recount"
      [] drift = "unchanged"     -> "clock"

Compare(t) ==
    /\ pc[t] = "compare"
    /\ TakeFingerprints(t)
    /\ pc' = [pc EXCEPT ![t] = AnswerTo(Drift(held[t], fp'[t]))]
    /\ UNCHANGED <<live, now, release, l1, l2, hydrating, op, held>>

Restamped(e, counts, when) == [e EXCEPT !.stamp = when, !.dbCounts = counts]

(* revalidated reads the clock before it asks for the lock; the time and   *)
(* the counts are kept in the entry that was compared.                     *)
ReadClock(t) ==
    /\ pc[t] = "clock"
    /\ pc' = [pc EXCEPT ![t] = "restamp"]
    /\ held' = [held EXCEPT ![t] = Restamped(@, fp[t].counts, now)] /\ Forget(t)
    /\ UNCHANGED <<live, now, release, l1, l2, hydrating, op>>

(* revalidated: the entry in L1 now is re-stamped, then the document. *)
Restamp(t) ==
    /\ pc[t] = "restamp"
    /\ \/ l1 = None /\ Return(t) /\ UNCHANGED l1
       \/ /\ l1 # None
          /\ l1' = Restamped(l1, held[t].dbCounts, held[t].stamp)
          /\ held' = [held EXCEPT ![t] = l1'] /\ Goto(t, "touch")
    /\ UNCHANGED <<live, now, release, l2, hydrating>>

(* touch updates two fields of whatever document is stored; a missing      *)
(* document or any failure leaves L2 as it is.                             *)
Touch(t) ==
    /\ pc[t] = "touch"
    /\ \/ l2 # None /\ l2' = Restamped(l2, held[t].dbCounts, held[t].stamp)
       \/ UNCHANGED l2
    /\ Return(t)
    /\ UNCHANGED <<live, now, release, l1, hydrating>>

(* refresh_statistics: the cached mapping with new counts, or with the old *)
(* ones if they cannot be taken.                                           *)
Recount(t) == pc[t] = "recount" /\ Put(t, NewEntry(t, held[t].shape))

(* /schema/invalidate-cache: L1, then the document. *)
Invalidate(t) ==
    /\ pc[t] = "idle" /\ t # Warm
    /\ l1' = None /\ Goto(t, "drop_l2")
    /\ UNCHANGED <<live, now, release, l2, hydrating, held>>

DropL2(t) ==
    /\ pc[t] = "drop_l2"
    /\ \/ Writes /\ l2' = None
       \/ UNCHANGED l2
    /\ Return(t)
    /\ UNCHANGED <<live, now, release, l1, hydrating>>

----------------------------------------------------------------------------
(* The environment: the database changes under the cache, time passes, and *)
(* the process is restarted, by the same release or the next one.          *)

(* A change of structure is a change of the counts fingerprint too.        *)
Later(d) == IF ShapesRecur THEN d # live
            ELSE d.shape >= live.shape /\ d.counts > live.counts

LiveChange ==
    /\ \E s, c \in 0..MaxVersion :
          /\ Later([shape |-> s, counts |-> c])
          /\ live' = [shape |-> s, counts |-> c]
    /\ seen' = [t \in Thread |-> IF seen[t] = {} THEN {} ELSE seen[t] \cup {live'.shape}]
    /\ UNCHANGED <<now, release, l1, l2, hydrating, pc, op, held, fp>>

Tick ==
    /\ now < MaxNow /\ now' = now + 1
    /\ UNCHANGED <<live, release, l1, l2, hydrating, threadVars>>

Restart ==
    /\ \E r \in {release, release + 1} : r <= MaxRelease /\ release' = r
    /\ l1' = None /\ hydrating' = None
    /\ pc' = [t \in Thread |-> "idle"] /\ op' = [t \in Thread |-> "peek"]
    /\ held' = [t \in Thread |-> None]
    /\ fp' = [t \in Thread |-> NoFingerprints]
    /\ seen' = [t \in Thread |-> {}]
    /\ UNCHANGED <<live, now, l2>>

Step(t) ==
    \/ \E o \in LookupsOf(t) : Lookup(t, o)
    \/ LockHydration(t) \/ ReadL2(t) \/ FillL1(t) \/ EvictExpired(t)
    \/ StartBuild(t) \/ Fingerprint(t) \/ Analyze(t) \/ AnalyzeFails(t) \/ PutL1(t)
    \/ StoreL2(t) \/ Compare(t) \/ ReadClock(t) \/ Restamp(t) \/ Touch(t) \/ Recount(t)
    \/ Invalidate(t) \/ DropL2(t)

Next == (\E t \in Thread : Step(t)) \/ LiveChange \/ Tick \/ Restart

Spec == Init /\ [][Next]_vars

(* A thread that is in a call keeps running and its analysis returns; the  *)
(* hydration lock is not withheld for ever from a thread waiting for it.   *)
Progress(t) ==
    \/ ReadL2(t) \/ FillL1(t) \/ EvictExpired(t) \/ Fingerprint(t) \/ Analyze(t)
    \/ AnalyzeFails(t) \/ PutL1(t) \/ StoreL2(t) \/ Compare(t) \/ ReadClock(t)
    \/ Restamp(t) \/ Touch(t) \/ Recount(t) \/ DropL2(t)

FairSpec == /\ Spec
            /\ \A t \in Thread : WF_vars(Progress(t)) /\ SF_vars(LockHydration(t))

----------------------------------------------------------------------------
(* Properties *)

Copies == {l1, l2} \ {None}

(* No structural change is recorded as already analyzed: a cached bundle   *)
(* whose stored fingerprint equals the live one describes the live         *)
(* structure, whatever changed while its analysis ran                      *)
(* (_build_and_cache_full_bundle takes the fingerprints first).            *)
NoSilentDrift == \A e \in Copies : e.dbShape = live.shape => e.shape = live.shape

(* What this release analyzed stays in the slot until it is dropped: a     *)
(* document of an earlier release that was read before a put landed never  *)
(* displaces the put (_lookup's setdefault).  The stamps may go back: put  *)
(* and revalidated read the clock before they take the lock.               *)
OwnAnalysisStays ==
    [][l1 # None /\ l1' # None /\ l1.producer = release /\ release' = release
       => l1'.producer = release]_vars

(* get drops an entry it found expired only while it is still the one in   *)
(* the slot: an entry another thread stored meanwhile is kept.             *)
EvictsOnlyExpired ==
    [][\A t \in Thread :
          pc[t] = "evict" /\ pc'[t] = "fingerprint" /\ l1 # None /\ l1' = None
          => IsExpired(l1)]_vars

(* Concurrent misses share one read of L2: the thread between the lock and *)
(* its release is the one holding it, so there is never a second one.      *)
OneHydration == \A t \in Thread : hydrating = t <=> pc[t] \in {"read_l2", "fill"}

(* Every call returns: no path through a miss, a failure or a lost race    *)
(* leaves the hydration lock held or a thread waiting.                     *)
CallsReturn == \A t \in Thread : pc[t] # "idle" ~> pc[t] = "idle"

(* While the cache is read-only nothing is created, stored or deleted in   *)
(* the database (the comment in ArangoSchemaCache.__init__).               *)
ReadOnlyWritesNothing == [][~Writes => l2' = l2]_vars

=============================================================================
