--------------------------- MODULE SchemaService ---------------------------
(***************************************************************************)
(* The non-blocking schema read of one database: the requests that run     *)
(* _read_or_warm (service/routes/schema.py), the polling client behind     *)
(* them (ui/src/api/client.ts) and the background warms (WarmRegistry),    *)
(* over a cache slot that the warms fill.                                  *)
(*                                                                         *)
(* The slot stands for the two tiers as peek answers them (SchemaCache is  *)
(* the module about the tiers).  A cached bundle is abstracted to what the *)
(* read decides on: whether it carries OWL, whether its TTL ran out and    *)
(* whether another release produced it.                                    *)
(***************************************************************************)
EXTENDS WarmRegistry

CONSTANTS
    Client,          \* browser sessions polling this database's schema
    NoEntry,         \* no cached bundle
    OwlAsks,         \* the values of include_owl they ask with
    OwlFails,        \* whether an analysis may yield a bundle without OWL
    MaxAsks,         \* bound on the polls started
    MaxDisturbances  \* bound on expiries and drops of the cached bundle

Entry == [owl: BOOLEAN, expired: BOOLEAN, outdated: BOOLEAN]

ASSUME NoEntryIsNoEntry == NoEntry \notin Entry
ASSUME ServiceConstants == /\ OwlAsks \subseteq BOOLEAN /\ OwlFails \in BOOLEAN
                           /\ MaxAsks \in Nat /\ MaxDisturbances \in Nat

VARIABLES
    slot,     \* the cached bundle of the database
    checked,  \* per warm: the entry its drift check holds
    cpc,      \* per client: where its request or its poll is
    req,      \* per client: the request it makes
    got,      \* per client: what the request found
    asks, disturbances

clientVars == <<cpc, req, got, asks>>
vars == <<registryVars, slot, checked, clientVars, disturbances>>

ClientLabel == {"idle", "peek", "first_error", "inflight", "schedule", "queue",
                "reread", "second_error", "marker", "wait"}

(* poll: the poll was started by "Refresh schema"; force: this request of  *)
(* it carries force=true.                                                  *)
Request == [poll: BOOLEAN, force: BOOLEAN, owl: BOOLEAN]
Finding == [usable: BOOLEAN, revalidate: BOOLEAN]
NoRequest == [poll |-> FALSE, force |-> FALSE, owl |-> FALSE]
NoFinding == [usable |-> FALSE, revalidate |-> FALSE]

ServiceTypeOK ==
    /\ RegistryTypeOK
    /\ slot \in Entry \cup {NoEntry} /\ checked \in [Worker -> Entry \cup {NoEntry}]
    /\ cpc \in [Client -> ClientLabel] /\ req \in [Client -> Request]
    /\ got \in [Client -> Finding]
    /\ asks \in 0..MaxAsks /\ disturbances \in 0..MaxDisturbances

(* The process starts with what the persistent tier holds: nothing, or an  *)
(* earlier process's bundle.                                               *)
Init ==
    /\ RegistryInit
    /\ slot \in {e \in Entry : OwlFails \/ e.owl} \cup {NoEntry}
    /\ checked = [w \in Worker |-> NoEntry]
    /\ cpc = [c \in Client |-> "idle"]
    /\ req = [c \in Client |-> NoRequest] /\ got = [c \in Client |-> NoFinding]
    /\ asks = 0 /\ disturbances = 0

----------------------------------------------------------------------------
(* One request: _read_or_warm *)

Usable(e, owl) == e # NoEntry /\ (owl => e.owl)

IsOutdated(e) == e # NoEntry /\ e.outdated

NeedsWork(e, r) == r.force \/ IsOutdated(e) \/ ~Usable(e, r.owl) \/ e.expired

(* Only the TTL ran out: a drift check suffices. *)
CheckSuffices(e, r) == ~r.force /\ ~IsOutdated(e) /\ Usable(e, r.owl)

ClientGoto(c, label) == cpc' = [cpc EXCEPT ![c] = label] /\ UNCHANGED <<req, got>>

(* The poll is over; what it worked on is no longer of interest. *)
EndPoll(c) ==
    /\ cpc' = [cpc EXCEPT ![c] = "idle"]
    /\ req' = [req EXCEPT ![c] = NoRequest] /\ got' = [got EXCEPT ![c] = NoFinding]

CacheUnchanged == UNCHANGED <<slot, checked, asks, disturbances>>

Peek(c) ==
    /\ cpc[c] = "peek"
    /\ got' = [got EXCEPT ![c] = [usable |-> Usable(slot, req[c].owl),
                                  revalidate |-> CheckSuffices(slot, req[c])]]
    /\ cpc' = [cpc EXCEPT ![c] = IF NeedsWork(slot, req[c]) THEN "first_error" ELSE "marker"]
    /\ UNCHANGED <<registryVars, req>> /\ CacheUnchanged

(* A failure is raised to the caller unless there is a bundle to serve. An *)
(* error answer ends the poll.                                             *)
TakeFirstError(c) ==
    /\ cpc[c] = "first_error"
    /\ TakeError
    /\ IF failure /\ ~got[c].usable THEN EndPoll(c) ELSE ClientGoto(c, "inflight")
    /\ CacheUnchanged

CheckInflight(c) ==
    /\ cpc[c] = "inflight"
    /\ \/ ~IsWarming /\ ClientGoto(c, "schedule")
       \/ IsWarming /\ ~got[c].revalidate /\ ClientGoto(c, "queue")
       \/ IsWarming /\ got[c].revalidate /\ ClientGoto(c, "reread")
    /\ UNCHANGED registryVars /\ CacheUnchanged

Schedule(c) ==
    /\ cpc[c] = "schedule"
    /\ ScheduleWarm(IF got[c].revalidate THEN "revalidate" ELSE "rebuild")
    /\ ClientGoto(c, "reread")
    /\ CacheUnchanged

Queue(c) ==
    /\ cpc[c] = "queue"
    /\ RequestRebuild
    /\ ClientGoto(c, "reread")
    /\ CacheUnchanged

Reread(c) ==
    /\ cpc[c] = "reread"
    /\ got' = [got EXCEPT ![c] = [usable |-> Usable(slot, req[c].owl), revalidate |-> FALSE]]
    /\ cpc' = [cpc EXCEPT ![c] = IF got'[c].usable THEN "marker" ELSE "second_error"]
    /\ UNCHANGED <<registryVars, req>> /\ CacheUnchanged

TakeSecondError(c) ==
    /\ cpc[c] = "second_error"
    /\ TakeError
    /\ IF failure THEN EndPoll(c) ELSE ClientGoto(c, "marker")
    /\ CacheUnchanged

----------------------------------------------------------------------------
(* The polling client: schemaIntrospectUntilReady *)

Ask(c) ==
    /\ cpc[c] = "idle" /\ asks < MaxAsks /\ asks' = asks + 1
    /\ \E force \in BOOLEAN, owl \in OwlAsks :
          req' = [req EXCEPT ![c] = [poll |-> force, force |-> force, owl |-> owl]]
    /\ cpc' = [cpc EXCEPT ![c] = "peek"]
    /\ UNCHANGED <<registryVars, got, slot, checked, disturbances>>

(* The answer: pending without a usable bundle, else ready; a forced poll  *)
(* also waits while a warm runs.                                           *)
Waits(c) == ~got[c].usable \/ (req[c].poll /\ IsWarming)

Answer(c) ==
    /\ cpc[c] = "marker"
    /\ IF Waits(c) THEN ClientGoto(c, "wait") ELSE EndPoll(c)
    /\ UNCHANGED registryVars /\ CacheUnchanged

(* Mutant: every poll of a forced refresh forces again. *)
PollAgainForcing(c) ==
    /\ cpc[c] = "wait"
    /\ cpc' = [cpc EXCEPT ![c] = "peek"]
    /\ got' = [got EXCEPT ![c] = NoFinding]
    /\ UNCHANGED <<registryVars, req>> /\ CacheUnchanged

(* Later polls never force again. *)
PollAgain(c) ==
    /\ cpc[c] = "wait"
    /\ cpc' = [cpc EXCEPT ![c] = "peek"]
    /\ req' = [req EXCEPT ![c].force = FALSE]
    /\ got' = [got EXCEPT ![c] = NoFinding]
    /\ UNCHANGED registryVars /\ CacheUnchanged

(* The waiting time is over, or a newer poll supersedes this one. *)
GiveUp(c) ==
    /\ cpc[c] = "wait"
    /\ EndPoll(c)
    /\ UNCHANGED registryVars /\ CacheUnchanged

ClientStep(c) ==
    \/ Peek(c) \/ TakeFirstError(c) \/ CheckInflight(c) \/ Schedule(c) \/ Queue(c)
    \/ Reread(c) \/ TakeSecondError(c) \/ Answer(c) \/ PollAgain(c)

----------------------------------------------------------------------------
(* The warms, and the synchronous paths, over the slot *)

NewBundle == {[owl |-> o, expired |-> FALSE, outdated |-> FALSE] : o \in {TRUE, ~OwlFails}}

(* Mutant: a bundle that is already there stays. *)
LandIfEmpty == slot' \in IF slot = NoEntry THEN NewBundle ELSE {slot}

Land == slot' \in NewBundle

AnalysisLands(w) ==
    /\ Analyzed(w) /\ Land
    /\ UNCHANGED <<checked, clientVars, disturbances>>

(* The drift check peeks: an entry of this release is compared. *)
CheckPeeks(w) ==
    /\ wpc[w] = "check" /\ checked[w] = NoEntry
    /\ slot # NoEntry /\ ~slot.outdated
    /\ checked' = [checked EXCEPT ![w] = slot]
    /\ UNCHANGED <<registryVars, slot, clientVars, disturbances>>

Fresh(e) == [e EXCEPT !.expired = FALSE]

(* No drift: what the slot holds now is re-stamped; other counts: the      *)
(* entry that was compared is stored again.                                *)
CheckKeeps(w) ==
    /\ CheckHolds(w) /\ checked[w] # NoEntry
    /\ slot' \in {Fresh(checked[w]), IF slot = NoEntry THEN NoEntry ELSE Fresh(slot)}
    /\ checked' = [checked EXCEPT ![w] = NoEntry]
    /\ UNCHANGED <<clientVars, disturbances>>

(* A change of structure, or nothing to compare. *)
CheckFails(w) ==
    /\ CheckCallsForAnalysis(w)
    /\ checked[w] # NoEntry \/ slot = NoEntry \/ IsOutdated(slot)
    /\ checked' = [checked EXCEPT ![w] = NoEntry]
    /\ UNCHANGED <<slot, clientVars, disturbances>>

WarmGoesOn(w) ==
    /\ TakeOverRebuild(w) \/ NothingQueued(w) \/ Raises(w) \/ RecordFailure(w) \/ Finish(w)
    /\ UNCHANGED <<slot, checked, clientVars, disturbances>>

WarmStep(w) ==
    AnalysisLands(w) \/ CheckPeeks(w) \/ CheckKeeps(w) \/ CheckFails(w) \/ WarmGoesOn(w)

(* POST /schema/force-reacquire, and strategy=heuristic: built inline. *)
Reacquire ==
    /\ disturbances < MaxDisturbances /\ disturbances' = disturbances + 1
    /\ Land
    /\ UNCHANGED <<registryVars, checked, clientVars>>

(* The TTL runs out; the entry is evicted by get, or invalidated. *)
Expire ==
    /\ disturbances < MaxDisturbances /\ disturbances' = disturbances + 1
    /\ slot # NoEntry
    /\ slot' \in {[slot EXCEPT !.expired = TRUE], NoEntry}
    /\ UNCHANGED <<registryVars, checked, clientVars>>

Next ==
    \/ \E c \in Client : Ask(c) \/ GiveUp(c) \/ ClientStep(c)
    \/ \E w \in Worker : WarmStep(w)
    \/ Reacquire \/ Expire

Spec == Init /\ [][Next]_vars

(* Request threads and warm threads are scheduled, and a client that waits *)
(* polls again.  Whether an analysis ever succeeds is left open.           *)
FairSpec ==
    /\ Spec
    /\ \A c \in Client : WF_vars(ClientStep(c))
    /\ \A w \in Worker : WF_vars(WarmStep(w))

----------------------------------------------------------------------------
(* Properties *)

(* A background failure leaves the registry only for the caller it is      *)
(* raised to (the docstring of _read_or_warm).                             *)
FailureIsReported ==
    [][failure /\ ~failure' =>
          \E c \in Client : cpc[c] \in {"first_error", "second_error"} /\ cpc'[c] = "idle"]_vars

EveryPollEnds == \A c \in Client : cpc[c] # "idle" ~> cpc[c] = "idle"

(* A poll ends, with a schema or a failure, even if no analysis ever       *)
(* succeeds: no lost wake-up, dedup or error path leaves the client        *)
(* waiting for a schema nobody is acquiring (PRD 6.3.5), unless failures   *)
(* are dropped again and again, by schedule_warm or by a request that has  *)
(* a bundle to serve.                                                      *)
PollsEnd == <>FailureIsReported => EveryPollEnds

(* As long as no analysis fails, the bundle another release left is        *)
(* replaced once a request has met it: neither a drift check nor a warm    *)
(* already in flight takes the place of its re-analysis (PRD 6.3.5).       *)
NoAnalysisFails == [](\A w \in Worker : wpc[w] # "failed")

OutdatedIsReplaced ==
    NoAnalysisFails =>
    \A c \in Client :
       cpc[c] = "first_error" /\ IsOutdated(slot) ~> ~IsOutdated(slot)

(* A warm ends, the queued re-analysis included. *)
WarmsEnd == IsWarming ~> ~IsWarming

=============================================================================
