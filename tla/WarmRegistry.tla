---------------------------- MODULE WarmRegistry ----------------------------
(***************************************************************************)
(* The background warms of one database (service/schema_warm.py): the      *)
(* in-flight map, the queued re-analysis and the last failure, all under   *)
(* one lock, and the daemon threads schedule_warm starts.                  *)
(***************************************************************************)
EXTENDS Naturals, FiniteSets

CONSTANTS
    Worker,   \* thread identities; each warm is a thread of its own
    CanFail   \* whether an analysis may raise; a check degrades to an analysis instead

ASSUME CanFailIsBoolean == CanFail \in BOOLEAN

VARIABLES
    inflight,      \* _inflight[db]: "none", "revalidate" or "rebuild"
    rebuildAfter,  \* whether db is in _rebuild_after
    failure,       \* whether _errors holds a failure of db
    wpc            \* per thread: where _run is

registryVars == <<inflight, rebuildAfter, failure, wpc>>

Mode == {"revalidate", "rebuild"}

(* "check": the fingerprint comparison; "analyze": an analysis, the        *)
(* requested one or one the check called for; "reanalyze": the queued one; *)
(* "after": past the first, about to look for a queued one; "failed": in   *)
(* the except clause; "finish": in the finally clause.                     *)
WorkerLabel == {"off", "check", "analyze", "after", "reanalyze", "failed", "finish"}

RegistryTypeOK ==
    /\ inflight \in Mode \cup {"none"}
    /\ rebuildAfter \in BOOLEAN /\ failure \in BOOLEAN
    /\ wpc \in [Worker -> WorkerLabel]

RegistryInit ==
    /\ inflight = "none" /\ rebuildAfter = FALSE /\ failure = FALSE
    /\ wpc = [w \in Worker |-> "off"]

----------------------------------------------------------------------------
(* The calls of the request path *)

IsWarming == inflight # "none"

(* take_error: the failure is popped whatever the caller does with it. *)
TakeError == failure' = FALSE /\ UNCHANGED <<inflight, rebuildAfter, wpc>>

(* Mutant: queued whatever is in flight. *)
RequestRebuildAlways ==
    rebuildAfter' = TRUE /\ UNCHANGED <<inflight, failure, wpc>>

RequestRebuild ==
    /\ rebuildAfter' = (rebuildAfter \/ inflight = "revalidate")
    /\ UNCHANGED <<inflight, failure, wpc>>

(* Mutant: the mode is taken for the step. *)
FirstStepIsMode(mode) == mode

FirstStep(mode) == IF mode = "revalidate" THEN "check" ELSE "analyze"

(* Mutant: no dedupe. *)
ScheduleAlways(mode) ==
    /\ \E w \in Worker :
          wpc[w] = "off" /\ wpc' = [wpc EXCEPT ![w] = FirstStep(mode)]
    /\ inflight' = mode /\ failure' = FALSE
    /\ UNCHANGED rebuildAfter

(* Mutant: the failure stays until a request takes it. *)
ScheduleKeepingFailure(mode) ==
    \/ IsWarming /\ UNCHANGED registryVars
    \/ /\ ~IsWarming
       /\ \E w \in Worker :
             wpc[w] = "off" /\ wpc' = [wpc EXCEPT ![w] = FirstStep(mode)]
       /\ inflight' = mode
       /\ UNCHANGED <<rebuildAfter, failure>>

(* schedule_warm: deduped when a warm is in flight; else the failure of    *)
(* the last one is forgotten and a thread starts.                          *)
ScheduleWarm(mode) ==
    \/ /\ IsWarming
       /\ UNCHANGED registryVars
    \/ /\ ~IsWarming
       /\ \E w \in Worker :
             wpc[w] = "off" /\ wpc' = [wpc EXCEPT ![w] = FirstStep(mode)]
       /\ inflight' = mode /\ failure' = FALSE
       /\ UNCHANGED rebuildAfter

----------------------------------------------------------------------------
(* The thread a warm runs on *)

WorkerGoto(w, label) ==
    wpc' = [wpc EXCEPT ![w] = label] /\ UNCHANGED <<inflight, rebuildAfter, failure>>

(* _revalidate_or_rebuild: the check keeps or recounts the cached bundle,  *)
(* or calls for an analysis.                                               *)
CheckHolds(w) == wpc[w] = "check" /\ WorkerGoto(w, "after")

CheckCallsForAnalysis(w) == wpc[w] = "check" /\ WorkerGoto(w, "analyze")

Analyzed(w) ==
    \/ wpc[w] = "analyze" /\ WorkerGoto(w, "after")
    \/ wpc[w] = "reanalyze" /\ WorkerGoto(w, "finish")

(* The locked block after the first run: a queued re-analysis is taken     *)
(* over, and the marker says so.                                           *)
TakeOverRebuild(w) ==
    /\ wpc[w] = "after" /\ rebuildAfter
    /\ rebuildAfter' = FALSE /\ inflight' = "rebuild"
    /\ wpc' = [wpc EXCEPT ![w] = "reanalyze"]
    /\ UNCHANGED failure

NothingQueued(w) ==
    /\ wpc[w] = "after" /\ ~rebuildAfter
    /\ WorkerGoto(w, "finish")

Raises(w) ==
    /\ CanFail
    /\ wpc[w] \in {"analyze", "reanalyze"}
    /\ WorkerGoto(w, "failed")

RecordFailure(w) ==
    /\ wpc[w] = "failed"
    /\ failure' = TRUE /\ wpc' = [wpc EXCEPT ![w] = "finish"]
    /\ UNCHANGED <<inflight, rebuildAfter>>

(* Mutant: the marker stays. *)
FinishKeepingMarker(w) ==
    /\ wpc[w] = "finish"
    /\ rebuildAfter' = FALSE /\ wpc' = [wpc EXCEPT ![w] = "off"]
    /\ UNCHANGED <<inflight, failure>>

Finish(w) ==
    /\ wpc[w] = "finish"
    /\ inflight' = "none" /\ rebuildAfter' = FALSE
    /\ wpc' = [wpc EXCEPT ![w] = "off"]
    /\ UNCHANGED failure

WorkerStep(w) ==
    \/ CheckHolds(w) \/ CheckCallsForAnalysis(w) \/ Analyzed(w)
    \/ TakeOverRebuild(w) \/ NothingQueued(w)
    \/ Raises(w) \/ RecordFailure(w) \/ Finish(w)

(* The registry on its own, called by anyone at any time. *)
RegistryNext ==
    \/ TakeError \/ RequestRebuild
    \/ \E mode \in Mode : ScheduleWarm(mode)
    \/ \E w \in Worker : WorkerStep(w)

RegistrySpec == RegistryInit /\ [][RegistryNext]_registryVars

----------------------------------------------------------------------------
(* Properties *)

Running == {w \in Worker : wpc[w] # "off"}

(* One warm per database: the in-flight marker is set exactly while a      *)
(* thread runs, and never more than one does - a polling client cannot     *)
(* pile up analyses, nor be told of a warm that is no longer there.        *)
OneWarm ==
    /\ \A v, w \in Running : v = w
    /\ IsWarming <=> Running # {}

(* A re-analysis is queued only behind a check, and a warm marked as a     *)
(* check has not begun the queued re-analysis.                             *)
QueuedBehindCheck ==
    /\ rebuildAfter => inflight = "revalidate"
    /\ \A w \in Worker : /\ wpc[w] = "check" => inflight = "revalidate"
                         /\ wpc[w] = "reanalyze" => inflight = "rebuild"

(* A failure a client is told is of the last warm that ended: none that    *)
(* runs is newer.  A check that found no warm races with the end of one,   *)
(* and schedule_warm forgets its failure in the block that sets the marker.*)
FailureIsOfLastWarm == failure => \A w \in Worker : wpc[w] \in {"off", "finish"}

(* A queued re-analysis leaves the queue only for a thread that runs it    *)
(* (the docstring of request_rebuild).                                     *)
NoQueuedRebuildLost == [][rebuildAfter /\ ~rebuildAfter' => inflight' = "rebuild"]_registryVars
=============================================================================
