------------------------- MODULE WarmRegistryProofs -------------------------
(***************************************************************************)
(* What the warm registry guarantees for any number of threads, and with   *)
(* it the service of SchemaService.                                        *)
(***************************************************************************)
EXTENDS SchemaService, TLAPS

RegistryInv == RegistryTypeOK /\ OneWarm /\ QueuedBehindCheck /\ FailureIsOfLastWarm

(* The registry starts with no warm, no queue and no thread. *)
LEMMA RegistryStarts == RegistryInit => RegistryInv
<1> SUFFICES ASSUME RegistryInit PROVE RegistryInv
  OBVIOUS
<1>1. RegistryTypeOK
  BY DEF RegistryInit, RegistryTypeOK, WorkerLabel
<1>2. OneWarm
  BY DEF RegistryInit, OneWarm, Running, IsWarming
<1>3. QueuedBehindCheck
  BY DEF RegistryInit, QueuedBehindCheck
<1>4. FailureIsOfLastWarm
  BY DEF RegistryInit, FailureIsOfLastWarm
<1> QED
  BY <1>1, <1>2, <1>3, <1>4 DEF RegistryInv

(* A call of the request path keeps the invariant: a warm is started only  *)
(* when none is in flight, and queued behind only when a check is.         *)
LEMMA RequestKeepsInv ==
    ASSUME RegistryInv,
           TakeError \/ RequestRebuild \/ \E mode \in Mode : ScheduleWarm(mode)
    PROVE  RegistryInv'
<1> USE DEF RegistryInv, RegistryTypeOK, OneWarm, QueuedBehindCheck, FailureIsOfLastWarm,
            Running, IsWarming
<1>1. CASE TakeError
  BY <1>1 DEF TakeError
<1>2. CASE RequestRebuild
  BY <1>2 DEF RequestRebuild
<1>3. ASSUME NEW mode \in Mode, ScheduleWarm(mode)
      PROVE  RegistryInv'
  <2>1. CASE inflight # "none"
    BY <2>1, <1>3 DEF ScheduleWarm, registryVars
  <2>2. CASE inflight = "none"
    <3>1. PICK w \in Worker : wpc[w] = "off" /\ wpc' = [wpc EXCEPT ![w] = FirstStep(mode)]
      BY <2>2, <1>3 DEF ScheduleWarm
    <3>2. inflight' = mode /\ failure' = FALSE /\ rebuildAfter' = rebuildAfter
      BY <2>2, <1>3 DEF ScheduleWarm
    <3>3. mode # "none" /\ FirstStep(mode) \in {"check", "analyze"}
          /\ (FirstStep(mode) = "check" => mode = "revalidate")
      BY <1>3 DEF Mode, FirstStep
    <3>4. \A v \in Worker : wpc[v] = "off"
      BY <2>2
    <3>5. \A v \in Worker : wpc'[v] = IF v = w THEN FirstStep(mode) ELSE "off"
      BY <3>1, <3>4
    <3>6. RegistryTypeOK'
      BY <3>1, <3>2, <3>3, <1>3 DEF WorkerLabel
    <3>7. OneWarm'
      BY <3>2, <3>3, <3>5
    <3>8. QueuedBehindCheck'
      BY <2>2, <3>2, <3>3, <3>5
    <3>9. FailureIsOfLastWarm'
      BY <3>2
    <3> QED
      BY <3>6, <3>7, <3>8, <3>9
  <2> QED
    BY <2>1, <2>2
<1> QED
  BY <1>1, <1>2, <1>3

(* A step of a warm's thread keeps the invariant: it is the only thread    *)
(* there is, so the marker it clears is its own.                           *)
LEMMA WorkerKeepsInv ==
    ASSUME RegistryInv, NEW w \in Worker, WorkerStep(w)
    PROVE  RegistryInv'
<1> USE DEF RegistryInv, RegistryTypeOK, OneWarm, QueuedBehindCheck, FailureIsOfLastWarm,
            Running, IsWarming
<1>0. wpc[w] # "off" /\ inflight # "none" /\ \A v \in Worker : v # w => wpc[v] = "off"
  <2>1. wpc[w] # "off"
    BY DEF WorkerStep, CheckHolds, CheckCallsForAnalysis, Analyzed, TakeOverRebuild,
           NothingQueued, Raises, RecordFailure, Finish
  <2> QED
    BY <2>1
<1>1. ASSUME NEW label \in WorkerLabel \ {"off", "check", "reanalyze"}, WorkerGoto(w, label),
             wpc[w] # "finish"
      PROVE  RegistryInv'
  <2>1. wpc' = [wpc EXCEPT ![w] = label] /\ UNCHANGED <<inflight, rebuildAfter, failure>>
    BY <1>1 DEF WorkerGoto
  <2>2. \A v \in Worker : wpc'[v] = IF v = w THEN label ELSE "off"
    BY <2>1, <1>0
  <2>3. RegistryTypeOK'
    BY <2>1, <1>1
  <2>4. OneWarm'
    BY <2>1, <2>2, <1>0, <1>1
  <2>5. QueuedBehindCheck'
    BY <2>1, <2>2, <1>1
  <2>6. FailureIsOfLastWarm'
    BY <2>1, <1>0, <1>1
  <2> QED
    BY <2>3, <2>4, <2>5, <2>6
<1>2. CASE CheckHolds(w) \/ CheckCallsForAnalysis(w) \/ Analyzed(w) \/ NothingQueued(w)
           \/ Raises(w)
  BY <1>1, <1>2 DEF CheckHolds, CheckCallsForAnalysis, Analyzed, NothingQueued, Raises,
                    WorkerLabel
<1>3. CASE TakeOverRebuild(w)
  <2>1. /\ rebuildAfter' = FALSE /\ inflight' = "rebuild" /\ failure' = failure
        /\ wpc' = [wpc EXCEPT ![w] = "reanalyze"]
    BY <1>3 DEF TakeOverRebuild
  <2>2. \A v \in Worker : wpc'[v] = IF v = w THEN "reanalyze" ELSE "off"
    BY <2>1, <1>0
  <2>3. failure = FALSE
    BY <1>0, <1>3 DEF TakeOverRebuild
  <2>4. RegistryTypeOK' /\ FailureIsOfLastWarm'
    BY <2>1, <2>3 DEF WorkerLabel, Mode
  <2>5. OneWarm' /\ QueuedBehindCheck'
    BY <2>1, <2>2
  <2> QED
    BY <2>4, <2>5
<1>4. CASE RecordFailure(w)
  <2>1. /\ failure' = TRUE /\ UNCHANGED <<inflight, rebuildAfter>>
        /\ wpc' = [wpc EXCEPT ![w] = "finish"]
    BY <1>4 DEF RecordFailure
  <2>2. \A v \in Worker : wpc'[v] = IF v = w THEN "finish" ELSE "off"
    BY <2>1, <1>0
  <2> QED
    BY <2>1, <2>2, <1>0 DEF WorkerLabel
<1>5. CASE Finish(w)
  <2>1. /\ inflight' = "none" /\ rebuildAfter' = FALSE /\ failure' = failure
        /\ wpc' = [wpc EXCEPT ![w] = "off"]
    BY <1>5 DEF Finish
  <2>2. \A v \in Worker : wpc'[v] = "off"
    BY <2>1, <1>0
  <2> QED
    BY <2>1, <2>2 DEF WorkerLabel
<1> QED
  BY <1>2, <1>3, <1>4, <1>5 DEF WorkerStep

(* At most one warm of a database runs, and the marker says so; a queued   *)
(* re-analysis always waits behind a check; no warm is newer than the      *)
(* failure that is kept.                                                   *)
THEOREM RegistryIsSound ==
    RegistrySpec => [](RegistryTypeOK /\ OneWarm /\ QueuedBehindCheck /\ FailureIsOfLastWarm)
<1>1. RegistryInit => RegistryInv
  BY RegistryStarts
<1>2. RegistryInv /\ [RegistryNext]_registryVars => RegistryInv'
  <2> SUFFICES ASSUME RegistryInv, [RegistryNext]_registryVars PROVE RegistryInv'
    OBVIOUS
  <2>1. CASE TakeError \/ RequestRebuild \/ \E mode \in Mode : ScheduleWarm(mode)
    BY <2>1, RequestKeepsInv
  <2>2. CASE \E w \in Worker : WorkerStep(w)
    BY <2>2, WorkerKeepsInv
  <2>3. CASE UNCHANGED registryVars
    BY <2>3 DEF registryVars, RegistryInv, RegistryTypeOK, OneWarm, QueuedBehindCheck,
                FailureIsOfLastWarm, Running, IsWarming
  <2> QED
    BY <2>1, <2>2, <2>3 DEF RegistryNext
<1> QED
  BY <1>1, <1>2, PTL DEF RegistrySpec, RegistryInv

----------------------------------------------------------------------------
(* What holds of the registry holds of the service, which changes it only  *)
(* through its operations.                                                 *)

(* A step of a request makes one call of the registry or none. *)
LEMMA ClientMakesOneCall ==
    ASSUME NEW c \in Client, ClientStep(c)
    PROVE  \/ TakeError \/ RequestRebuild \/ \E mode \in Mode : ScheduleWarm(mode)
           \/ UNCHANGED registryVars
<1>1. CASE Peek(c)
  BY <1>1 DEF Peek
<1>2. CASE TakeFirstError(c) \/ TakeSecondError(c)
  BY <1>2 DEF TakeFirstError, TakeSecondError
<1>3. CASE CheckInflight(c)
  BY <1>3 DEF CheckInflight
<1>4. CASE Schedule(c)
  <2>1. (IF got[c].revalidate THEN "revalidate" ELSE "rebuild") \in Mode
    BY DEF Mode
  <2> QED
    BY <1>4, <2>1 DEF Schedule
<1>5. CASE Queue(c)
  BY <1>5 DEF Queue
<1>6. CASE Reread(c)
  BY <1>6 DEF Reread
<1>7. CASE Answer(c) \/ PollAgain(c)
  BY <1>7 DEF Answer, PollAgain
<1> QED
  BY <1>1, <1>2, <1>3, <1>4, <1>5, <1>6, <1>7 DEF ClientStep

(* A step of a warm is a step of its thread, or reads only the cache. *)
LEMMA WarmIsAWorker ==
    ASSUME NEW w \in Worker, WarmStep(w)
    PROVE  WorkerStep(w) \/ UNCHANGED registryVars
BY DEF WarmStep, AnalysisLands, CheckPeeks, CheckKeeps, CheckFails, WarmGoesOn, WorkerStep

(* Requests and warms use the registry only through its operations. *)
LEMMA ServiceUsesRegistry == Spec => RegistrySpec
<1>1. Init => RegistryInit
  BY DEF Init
<1>2. [Next]_vars => [RegistryNext]_registryVars
  <2> SUFFICES ASSUME [Next]_vars PROVE [RegistryNext]_registryVars
    OBVIOUS
  <2>1. CASE \E c \in Client : Ask(c) \/ GiveUp(c)
    BY <2>1 DEF Ask, GiveUp
  <2>2. CASE \E c \in Client : ClientStep(c)
    BY <2>2, ClientMakesOneCall DEF RegistryNext
  <2>3. CASE \E w \in Worker : WarmStep(w)
    BY <2>3, WarmIsAWorker DEF RegistryNext
  <2>4. CASE Reacquire \/ Expire
    BY <2>4 DEF Reacquire, Expire
  <2>5. CASE UNCHANGED vars
    BY <2>5 DEF vars, registryVars
  <2> QED
    BY <2>1, <2>2, <2>3, <2>4, <2>5 DEF Next
<1> QED
  BY <1>1, <1>2, PTL DEF Spec, RegistrySpec

(* At most one warm of a database runs, whatever the requests do. *)
THEOREM ServiceRunsOneWarm == Spec => []OneWarm
BY ServiceUsesRegistry, RegistryIsSound, PTL

(* A client is told of a failure only while no newer warm runs, however    *)
(* requests schedule, look and pop at once.                                *)
THEOREM ServiceTellsLastFailure == Spec => []FailureIsOfLastWarm
BY ServiceUsesRegistry, RegistryIsSound, PTL

(* No request queues a re-analysis behind anything but a check. *)
THEOREM ServiceQueuesBehindChecks == Spec => []QueuedBehindCheck
BY ServiceUsesRegistry, RegistryIsSound, PTL

----------------------------------------------------------------------------
(* Types of the composition *)

LEMMA ClientKeepsTypes ==
    ASSUME ServiceTypeOK, RegistryTypeOK', NEW c \in Client, Ask(c) \/ GiveUp(c) \/ ClientStep(c)
    PROVE  ServiceTypeOK'
<1>1. UNCHANGED <<slot, checked, disturbances>>
  BY DEF Ask, GiveUp, ClientStep, Peek, TakeFirstError, TakeSecondError, CheckInflight, Schedule,
         Queue, Reread, Answer, PollAgain, CacheUnchanged
<1>2. cpc' \in [Client -> ClientLabel]
  BY DEF Ask, GiveUp, ClientStep, Peek, TakeFirstError, TakeSecondError, CheckInflight, Schedule,
         Queue, Reread, Answer, PollAgain, ClientGoto, EndPoll, ClientLabel, ServiceTypeOK
<1>3. req' \in [Client -> Request]
  <2>1. CASE Ask(c)
    BY <2>1, ServiceConstants DEF Ask, Request, ServiceTypeOK
  <2>2. CASE PollAgain(c)
    BY <2>2 DEF PollAgain, Request, ServiceTypeOK
  <2>3. NoRequest \in Request
    BY DEF NoRequest, Request
  <2>4. CASE req' = req \/ req' = [req EXCEPT ![c] = NoRequest]
    BY <2>3, <2>4 DEF ServiceTypeOK
  <2> QED
    BY <2>1, <2>2, <2>4 DEF GiveUp, ClientStep, Peek, TakeFirstError, TakeSecondError,
       CheckInflight, Schedule, Queue, Reread, Answer, ClientGoto, EndPoll
<1>4. got' \in [Client -> Finding]
  <2>1. \A e, owl : [usable |-> e, revalidate |-> owl] \in Finding <=> e \in BOOLEAN /\ owl \in BOOLEAN
    BY DEF Finding
  <2>2. NoFinding \in Finding
    BY <2>1 DEF NoFinding
  <2>3. CASE Peek(c)
    <3>1. Usable(slot, req[c].owl) \in BOOLEAN /\ CheckSuffices(slot, req[c]) \in BOOLEAN
      BY DEF Usable, CheckSuffices
    <3> QED
      BY <2>1, <2>3, <3>1 DEF Peek, ServiceTypeOK
  <2>4. CASE Reread(c)
    <3>1. Usable(slot, req[c].owl) \in BOOLEAN
      BY DEF Usable
    <3> QED
      BY <2>1, <2>4, <3>1 DEF Reread, ServiceTypeOK
  <2>5. CASE got' = got \/ got' = [got EXCEPT ![c] = NoFinding]
    BY <2>2, <2>5 DEF ServiceTypeOK
  <2> QED
    BY <2>3, <2>4, <2>5 DEF Ask, GiveUp, ClientStep, TakeFirstError, TakeSecondError,
       CheckInflight, Schedule, Queue, Answer, PollAgain, ClientGoto, EndPoll
<1>5. asks' \in 0..MaxAsks
  BY ServiceConstants DEF Ask, GiveUp, ClientStep, Peek, TakeFirstError, TakeSecondError,
     CheckInflight, Schedule, Queue, Reread, Answer, PollAgain, CacheUnchanged, ServiceTypeOK
<1> QED
  BY <1>1, <1>2, <1>3, <1>4, <1>5 DEF ServiceTypeOK

LEMMA BundleTypes ==
    /\ NewBundle \subseteq Entry
    /\ \A e \in Entry : Fresh(e) \in Entry /\ [e EXCEPT !.expired = TRUE] \in Entry
<1>1. NewBundle \subseteq Entry
  <2>1. {TRUE, ~OwlFails} \subseteq BOOLEAN
    BY ServiceConstants
  <2>2. ASSUME NEW o \in BOOLEAN PROVE [owl |-> o, expired |-> FALSE, outdated |-> FALSE] \in Entry
    BY DEF Entry
  <2> QED
    BY <2>1, <2>2 DEF NewBundle
<1>2. \A e \in Entry : Fresh(e) \in Entry
  BY DEF Entry, Fresh
<1>3. \A e \in Entry : [e EXCEPT !.expired = TRUE] \in Entry
  BY DEF Entry
<1> QED
  BY <1>1, <1>2, <1>3

LEMMA WarmKeepsTypes ==
    ASSUME ServiceTypeOK, RegistryTypeOK', (\E w \in Worker : WarmStep(w)) \/ Reacquire \/ Expire
    PROVE  ServiceTypeOK'
<1>1. slot' \in Entry \cup {NoEntry}
  BY BundleTypes DEF WarmStep, AnalysisLands, CheckPeeks, CheckKeeps, CheckFails, WarmGoesOn,
     Reacquire, Expire, Land, ServiceTypeOK
<1>2. checked' \in [Worker -> Entry \cup {NoEntry}]
  BY DEF WarmStep, AnalysisLands, CheckPeeks, CheckKeeps, CheckFails, WarmGoesOn,
     Reacquire, Expire, ServiceTypeOK
<1>3. UNCHANGED clientVars
  BY DEF WarmStep, AnalysisLands, CheckPeeks, CheckKeeps, CheckFails, WarmGoesOn, Reacquire, Expire
<1>4. disturbances' \in 0..MaxDisturbances
  BY ServiceConstants DEF WarmStep, AnalysisLands, CheckPeeks, CheckKeeps, CheckFails, WarmGoesOn,
     Reacquire, Expire, ServiceTypeOK
<1> QED
  BY <1>1, <1>2, <1>3, <1>4 DEF clientVars, ServiceTypeOK

(* Requests, polls, warms and the slot they share are well typed.          *)
THEOREM ServiceTypeCorrect == Spec => []ServiceTypeOK
<1>1. Init => ServiceTypeOK
  <2> SUFFICES ASSUME Init PROVE ServiceTypeOK
    OBVIOUS
  <2>1. RegistryTypeOK
    BY RegistryStarts DEF Init, RegistryInv
  <2>2. NoRequest \in Request /\ NoFinding \in Finding
    BY DEF NoRequest, Request, NoFinding, Finding
  <2> QED
    BY <2>1, <2>2, ServiceConstants DEF Init, ClientLabel, ServiceTypeOK
<1>2. ServiceTypeOK /\ RegistryTypeOK' /\ [Next]_vars => ServiceTypeOK'
  <2> SUFFICES ASSUME ServiceTypeOK, RegistryTypeOK', [Next]_vars PROVE ServiceTypeOK'
    OBVIOUS
  <2>1. CASE UNCHANGED vars
    BY <2>1 DEF vars, clientVars, ServiceTypeOK
  <2> QED
    BY <2>1, ClientKeepsTypes, WarmKeepsTypes DEF Next
<1> QED
  BY <1>1, <1>2, ServiceUsesRegistry, RegistryIsSound, PTL DEF Spec
=============================================================================
