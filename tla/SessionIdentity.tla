-------------------------- MODULE SessionIdentity --------------------------
(***************************************************************************)
(* What the requests of one session share besides its place in the session *)
(* table: the login a platform session's database handle is opened with,   *)
(* or, under a control plane, the project's mapping it answers in          *)
(* (service/security.py, platform_auth.py, control_plane.py).              *)
(*                                                                         *)
(* The platform rotates the JWT it forwards: JWT i is issued at time i and *)
(* good for LoginTtl ticks, so a slow request may carry an older one.  The *)
(* project publishes version after version of its mapping, or withdraws    *)
(* it; a read of it takes up to ReadTimeout.                               *)
(***************************************************************************)
EXTENDS Naturals, FiniteSets, Sequences, SequencesExt

CONSTANTS
    Request,       \* requests of the session at once
    Kinds,         \* the kinds of session checked: "platform", "project"
    LoginTtl,      \* how long a JWT is good
    RefreshAfter,  \* MAPPING_REFRESH_SECONDS
    ReadTimeout,   \* the longest a read of the mapping takes
    MaxVersions,   \* bound on the mapping's versions
    MaxNow         \* bound on the clock

ASSUME IdentityKinds == Kinds \subseteq {"platform", "project"}
ASSUME IdentityBounds ==
    /\ LoginTtl \in Nat /\ RefreshAfter \in Nat \ {0} /\ ReadTimeout \in Nat
    /\ MaxVersions \in Nat \ {0} /\ MaxNow \in Nat

Times == 0..MaxNow
Never == MaxNow + 1  \* no time, and no login
None == 0            \* no mapping

VARIABLES
    kind, now,
    db,             \* the JWT the session's database handle authenticates with
    platformToken,  \* session.platform_token
    raced,          \* whether two requests have ever re-bound the session at once
    versions,       \* of the project's mapping: since when, and whether there is one
    mapping,        \* session.project_mapping: a version that is one, or None
    mappingAt,      \* session.project_mapping_at, or Never
    outage,         \* whether the control plane ever failed to answer
    pc,             \* per request: where it is
    began,          \* per request: the time it read when it looked at the mapping's age
    token,          \* per request: the JWT it carries, or Never
    brought,        \* per request: the version its read brought
    used            \* per request: the login or the mapping its query ran with

platformVars == <<db, platformToken, raced>>
projectVars == <<versions, mapping, mappingAt, outage>>
requestVars == <<pc, began, token, brought, used>>
vars == <<kind, now, platformVars, projectVars, requestVars>>

Labels == {"idle", "open", "store", "run", "age", "read", "keep", "stamp", "resolved",
           "done", "refused", "unavailable"}

TypeOK ==
    /\ kind \in Kinds /\ now \in Times
    /\ db \in Times /\ platformToken \in Times /\ raced \in BOOLEAN
    /\ versions \in Seq([since : Times, maps : BOOLEAN]) /\ Len(versions) \in 1..MaxVersions
    /\ mapping \in None..Len(versions) /\ mappingAt \in Times \cup {Never}
    /\ mapping # None => versions[mapping].maps
    /\ outage \in BOOLEAN
    /\ pc \in [Request -> Labels] /\ began \in [Request -> Times]
    /\ token \in [Request -> Times \cup {Never}]
    /\ brought \in [Request -> None..MaxVersions]
    /\ used \in [Request -> Times \cup None..MaxVersions]

(* /connect/platform opened the session with a login good at the time; a   *)
(* project's session has read nothing yet.                                 *)
Init ==
    /\ kind \in Kinds /\ now = 0
    /\ db = 0 /\ platformToken = 0 /\ raced = FALSE
    /\ versions \in {<<[since |-> 0, maps |-> m]>> : m \in BOOLEAN}
    /\ mapping = None /\ mappingAt = Never /\ outage = FALSE
    /\ pc = [r \in Request |-> "idle"] /\ began = [r \in Request |-> 0]
    /\ token = [r \in Request |-> Never]
    /\ brought = [r \in Request |-> None] /\ used = [r \in Request |-> 0]

Goto(r, label) == pc' = [pc EXCEPT ![r] = label]

----------------------------------------------------------------------------
(* A platform session *)

Good(login) == now <= login + LoginTtl

(* forwarded_token: what the gateway forwards, when the request came       *)
(* through it and names its session in a header of its own.                *)
forwarded_token == {login \in 0..now : Good(login)} \cup {Never}

Rebinding(r) == pc[r] \in {"open", "store"}

(* _follow_platform_identity: a request without a login is refused, one    *)
(* with the login the session has goes on, another re-binds the session.   *)
_follow_platform_identity(r) ==
    /\ kind = "platform" /\ pc[r] = "idle"
    /\ \E login \in forwarded_token :
          /\ token' = [token EXCEPT ![r] = login]
          /\ Goto(r, IF login = Never THEN "refused"
                     ELSE IF login = platformToken THEN "run" ELSE "open")
          /\ raced' = (raced \/ (login \notin {Never, platformToken}
                                 /\ \E other \in Request : Rebinding(other)))
    /\ UNCHANGED <<kind, now, db, platformToken, projectVars, began, brought, used>>

(* Mutant: the login is stored before the handle that it is to open. *)
StoreFirst(r) ==
    /\ pc[r] = "open"
    /\ platformToken' = token[r]
    /\ IF Good(token[r]) THEN Goto(r, "store") /\ db' = token[r]
       ELSE Goto(r, "refused") /\ db' = db
    /\ UNCHANGED <<kind, now, raced, projectVars, began, token, brought, used>>

(* The driver reads the expiry of the login before it makes the handle.    *)
open_platform_database(r) ==
    /\ pc[r] = "open"
    /\ IF Good(token[r]) THEN Goto(r, "store") /\ db' = token[r]
       ELSE Goto(r, "refused") /\ db' = db
    /\ UNCHANGED <<kind, now, platformToken, raced, projectVars, began, token, brought, used>>

StoreToken(r) ==
    /\ pc[r] = "store"
    /\ platformToken' = token[r]
    /\ Goto(r, "run")
    /\ UNCHANGED <<kind, now, db, raced, projectVars, began, token, brought, used>>

(* The query runs with the handle the session has by then. *)
RunWithHandle(r) ==
    /\ pc[r] = "run"
    /\ used' = [used EXCEPT ![r] = db]
    /\ Goto(r, "done")
    /\ UNCHANGED <<kind, now, platformVars, projectVars, began, token, brought>>

----------------------------------------------------------------------------
(* A project's session *)

Current == Len(versions)

(* The control plane's project: its mapping changes, is withdrawn, comes.  *)
Publish ==
    /\ kind = "project" /\ Current < MaxVersions
    /\ \E maps \in BOOLEAN :
          versions' = Append(versions, [since |-> now, maps |-> maps])
    /\ UNCHANGED <<kind, now, platformVars, mapping, mappingAt, outage, requestVars>>

(* The request's session is found; the mapping's age is looked at.         *)
LookAtAge(r) ==
    /\ kind = "project" /\ pc[r] = "idle"
    /\ began' = [began EXCEPT ![r] = now]
    /\ Goto(r, IF mappingAt # Never /\ now < mappingAt + RefreshAfter THEN "resolved" ELSE "read")
    /\ UNCHANGED <<kind, now, platformVars, projectVars, token, brought, used>>

(* Mutant: an answer without terms is kept as a mapping. *)
KeepsAnEmptyAnswer(r) ==
    /\ pc[r] = "read"
    /\ brought' = [brought EXCEPT ![r] = Current] /\ Goto(r, "keep")
    /\ UNCHANGED <<kind, now, platformVars, versions, mapping, mappingAt, outage, began, token, used>>

(* The control plane answers with the version of now, or rejects the       *)
(* context, or does not answer.                                            *)
ReadMapping(r) ==
    /\ pc[r] = "read"
    /\ \/ /\ brought' = [brought EXCEPT ![r] = IF versions[Current].maps THEN Current ELSE None]
          /\ Goto(r, "keep") /\ UNCHANGED outage
       \/ Goto(r, "refused") /\ UNCHANGED <<outage, brought>>
       \/ /\ outage' = TRUE
          /\ Goto(r, IF mappingAt # Never THEN "stamp" ELSE "unavailable")
          /\ UNCHANGED brought
    /\ UNCHANGED <<kind, now, platformVars, versions, mapping, mappingAt, began, token, used>>

(* Mutant: the read's stamp is set before its mapping is kept. *)
StampFirst(r) ==
    /\ pc[r] = "keep"
    /\ IF mappingAt # began[r]
       THEN mappingAt' = began[r] /\ UNCHANGED <<mapping, pc>>
       ELSE mapping' = brought[r] /\ Goto(r, "stamp") /\ UNCHANGED mappingAt
    /\ UNCHANGED <<kind, now, platformVars, versions, outage, began, token, brought, used>>

KeepMapping(r) ==
    /\ pc[r] = "keep"
    /\ mapping' = brought[r]
    /\ Goto(r, "stamp")
    /\ UNCHANGED <<kind, now, platformVars, versions, mappingAt, outage, began, token, brought, used>>

StampNow(r) ==
    /\ pc[r] = "stamp"
    /\ mappingAt' = now
    /\ Goto(r, "resolved")
    /\ UNCHANGED <<kind, now, platformVars, versions, mapping, outage, began, token, brought, used>>

(* The stamp is the time read before the control plane was asked.          *)
Stamp(r) ==
    /\ pc[r] = "stamp"
    /\ mappingAt' = began[r]
    /\ Goto(r, "resolved")
    /\ UNCHANGED <<kind, now, platformVars, versions, mapping, outage, began, token, brought, used>>

(* _session_schema: the query is answered in the project's mapping, or     *)
(* without one in the analyzed schema.                                     *)
UseMapping(r) ==
    /\ pc[r] = "resolved"
    /\ used' = [used EXCEPT ![r] = mapping]
    /\ Goto(r, "done")
    /\ UNCHANGED <<kind, now, platformVars, projectVars, began, token, brought>>

(* /schema/invalidate-cache: the next request is to read the mapping.      *)
RefreshSchema(r) ==
    /\ pc[r] = "resolved"
    /\ mappingAt' = Never
    /\ Goto(r, "idle")
    /\ UNCHANGED <<kind, now, platformVars, versions, mapping, outage, began, token, brought, used>>

Return(r) ==
    /\ pc[r] \in {"done", "refused", "unavailable"}
    /\ Goto(r, "idle")
    /\ began' = [began EXCEPT ![r] = 0] /\ token' = [token EXCEPT ![r] = Never]
    /\ brought' = [brought EXCEPT ![r] = None] /\ used' = [used EXCEPT ![r] = 0]
    /\ UNCHANGED <<kind, now, platformVars, projectVars>>

(* The driver gives a read up after ReadTimeout; the two assignments after *)
(* it take no time of their own.                                           *)
Tick ==
    /\ now < MaxNow
    /\ \A r \in Request : pc[r] \in {"read", "keep", "stamp"} => now < began[r] + ReadTimeout
    /\ now' = now + 1
    /\ UNCHANGED <<kind, platformVars, projectVars, requestVars>>

Step(r) ==
    \/ _follow_platform_identity(r) \/ open_platform_database(r) \/ StoreToken(r) \/ RunWithHandle(r)
    \/ LookAtAge(r) \/ ReadMapping(r) \/ KeepMapping(r) \/ Stamp(r)
    \/ UseMapping(r) \/ RefreshSchema(r) \/ Return(r)

Next == (\E r \in Request : Step(r)) \/ Publish \/ Tick

Spec == Init /\ [][Next]_vars

----------------------------------------------------------------------------
(* Properties *)

(* The stored login is the one the handle authenticates with: the comment  *)
(* at security.py:142.                                                     *)
BoundLoginAgrees == (\A r \in Request : pc[r] # "store") => db = platformToken

(* It is, refusals included, as long as no two requests re-bind at once.   *)
AgreesUnlessRaced == ~raced => BoundLoginAgrees

(* A query is answered in a version of the mapping that was the project's  *)
(* less than RefreshAfter, and a read, before it looked, unless the        *)
(* control plane failed to answer (PRD 8.7): whatever reads were in        *)
(* flight, and in whatever order they were kept and stamped.               *)
MappingIsRecent ==
    \A r \in Request :
       kind = "project" /\ pc[r] = "done" /\ used[r] \in 1..(Current - 1) /\ ~outage
       => began[r] < versions[used[r] + 1].since + RefreshAfter + ReadTimeout

(* The mapping of a project that always had one is never replaced by an    *)
(* analysis of the database (PRD 8.7).                                     *)
NotAnalyzedOver ==
    \A r \in Request :
       kind = "project" /\ pc[r] = "done" /\ used[r] = None
       => \E i \in 1..Current : ~versions[i].maps
=============================================================================
