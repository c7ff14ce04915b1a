----------------------- MODULE SessionIdentityProofs -----------------------
(***************************************************************************)
(* SessionIdentity for any number of requests, any bounds and any          *)
(* mappings: the login and the handle agree unless two requests raced, and *)
(* a project's queries are answered in a mapping that is recent, or was    *)
(* withdrawn, however its reads overtake one another.                      *)
(***************************************************************************)
EXTENDS SessionIdentity, SequenceTheorems, TLAPS

----------------------------------------------------------------------------
(* What a request has read by the time it is at a label *)

RequestInv ==
    /\ \A r \in Request : began[r] <= now
    /\ \A r \in Request : pc[r] \in {"open", "store", "run"} => kind = "platform"
    /\ \A r \in Request : pc[r] \in {"read", "keep", "stamp", "resolved"} => kind = "project"
    /\ \A r \in Request : pc[r] \in {"open", "store"} => token[r] \in Times
    /\ \A r \in Request : /\ brought[r] <= Len(versions)
                          /\ brought[r] # None => versions[brought[r]].maps
    /\ \A i \in 1..Len(versions) : versions[i].since <= now
    /\ mappingAt # Never => mappingAt <= now
    /\ \A r \in Request : pc[r] \in {"read", "keep", "stamp"} => now <= began[r] + ReadTimeout

----------------------------------------------------------------------------
(* Logins *)

(* As long as requests re-bind one at a time, the one that opened a handle *)
(* opened it with its own login, and otherwise the session's login is the  *)
(* handle's.                                                               *)
LoginInv ==
    ~raced =>
       /\ \A r, s \in Request : Rebinding(r) /\ Rebinding(s) => r = s
       /\ \A r \in Request : pc[r] = "store" => db = token[r]
       /\ BoundLoginAgrees

----------------------------------------------------------------------------
(* Mappings *)

(* Time t is less than d after version v ceased to be the project's. *)
HeldWithin(v, t, d) == v \in 1..(Len(versions) - 1) => t < versions[v + 1].since + d

(* A read brings what was the project's after it began; what is kept is by *)
(* at most a read older than any stamp there is or is to come.             *)
RecentInv ==
    /\ \A r \in Request : pc[r] = "keep" => HeldWithin(brought[r], began[r], 1)
    /\ ~outage =>
       /\ \A r \in Request : pc[r] = "stamp" => HeldWithin(mapping, began[r], ReadTimeout + 1)
       /\ mappingAt # Never => HeldWithin(mapping, mappingAt, ReadTimeout + 1)
       /\ \A r \in Request : pc[r] = "resolved" =>
             HeldWithin(mapping, began[r], ReadTimeout + RefreshAfter)
       /\ \A r \in Request : pc[r] = "done" /\ kind = "project" =>
             HeldWithin(used[r], began[r], ReadTimeout + RefreshAfter)

Withdrawn == \E i \in 1..Len(versions) : ~versions[i].maps

(* A session is without a mapping only before its first read, or after one *)
(* that found none.                                                        *)
NoneInv ==
    /\ \A r \in Request : pc[r] = "keep" /\ brought[r] = None => Withdrawn
    /\ mapping = None =>
       /\ mappingAt # Never => Withdrawn
       /\ \A r \in Request : pc[r] \in {"stamp", "resolved"} => Withdrawn
    /\ \A r \in Request : pc[r] = "done" /\ kind = "project" /\ used[r] = None => Withdrawn

----------------------------------------------------------------------------
(* Types *)

Version == [since : Times, maps : BOOLEAN]

LEMMA Arithmetic ==
  /\ Never \notin Times /\ Times \subseteq Nat /\ None \in Nat
  BY IdentityBounds DEF Never, Times, None

(* A version is published: the ones before it stay. *)
LEMMA Published ==
  ASSUME TypeOK, Publish
  PROVE  /\ versions' \in Seq(Version) /\ Len(versions') = Len(versions) + 1
         /\ Len(versions') \in 1..MaxVersions
         /\ \A i \in 1..Len(versions) : versions'[i] = versions[i]
         /\ versions'[Len(versions')].since = now
<1>1. PICK maps \in BOOLEAN : versions' = Append(versions, [since |-> now, maps |-> maps])
  BY DEF Publish
<1>2. [since |-> now, maps |-> maps] \in Version /\ versions \in Seq(Version)
  BY DEF Version, TypeOK
<1>3. Len(versions) < MaxVersions /\ Len(versions) \in Nat /\ MaxVersions \in Nat
  BY IdentityBounds DEF Publish, Current, TypeOK
<1> HIDE DEF Version
<1> QED
  BY <1>1, <1>2, <1>3, AppendProperties

LEMMA Values ==
  ASSUME TypeOK
  PROVE  /\ now \in Nat /\ Len(versions) \in Nat \ {0} /\ mapping \in Nat
         /\ mappingAt # Never => mappingAt \in Nat
         /\ \A i \in 1..Len(versions) : versions[i].since \in Nat /\ versions[i].maps \in BOOLEAN
         /\ \A r \in Request : began[r] \in Nat /\ brought[r] \in Nat
         /\ DOMAIN pc = Request /\ DOMAIN began = Request /\ DOMAIN token = Request
         /\ DOMAIN brought = Request /\ DOMAIN used = Request
<1>1. now \in Nat /\ (mappingAt # Never => mappingAt \in Nat)
  BY Arithmetic DEF TypeOK
<1>2. versions \in Seq([since : Times, maps : BOOLEAN]) /\ Len(versions) \in Nat \ {0} /\ mapping \in Nat
  BY Arithmetic DEF TypeOK, None
<1>3. \A i \in 1..Len(versions) : versions[i].since \in Nat /\ versions[i].maps \in BOOLEAN
  <2> SUFFICES ASSUME NEW i \in 1..Len(versions)
               PROVE  versions[i].since \in Nat /\ versions[i].maps \in BOOLEAN
    OBVIOUS
  <2>1. versions \in Seq(Version)
    BY <1>2 DEF Version
  <2>2. versions[i] \in Version
    BY <2>1, ElementOfSeq
  <2> QED
    BY <2>2, Arithmetic DEF Version
<1>4. \A r \in Request : began[r] \in Nat /\ brought[r] \in Nat
  <2>1. None..MaxVersions \subseteq Nat
    BY IdentityBounds DEF None
  <2> QED
    BY <2>1, Arithmetic DEF TypeOK
<1> QED
  BY <1>1, <1>2, <1>3, <1>4 DEF TypeOK

(* What is held within some time of a moment is so within more of an       *)
(* earlier one, and of a later one within as much more.                    *)
LEMMA HeldLonger ==
  ASSUME TypeOK, NEW v, NEW t \in Nat, NEW d \in Nat, HeldWithin(v, t, d),
         NEW s \in Nat, NEW c \in Nat, s + d <= t + c
  PROVE  HeldWithin(v, s, c)
<1> SUFFICES ASSUME v \in 1..(Len(versions) - 1) PROVE s < versions[v + 1].since + c
  BY DEF HeldWithin
<1>1. v + 1 \in 1..Len(versions)
  <2>1. Len(versions) \in Nat
    BY Values
  <2> QED
    BY <2>1
<1> DEFINE since == versions[v + 1].since
<1>2. since \in Nat
  BY <1>1, Values
<1>3. t < since + d
  BY DEF HeldWithin
<1> HIDE DEF since
<1>4. s < since + c
  BY <1>2, <1>3
<1> QED
  BY <1>4 DEF since

LEMMA TypeStep == TypeOK /\ RequestInv /\ [Next]_vars => TypeOK'
<1> SUFFICES ASSUME TypeOK, RequestInv, [Next]_vars PROVE TypeOK'
  OBVIOUS
<1>0. /\ now \in Times /\ 0 \in Times /\ 0..now \subseteq Times
      /\ None \in None..MaxVersions /\ None..Len(versions) \subseteq None..MaxVersions
      /\ Current \in None..MaxVersions
  BY IdentityBounds DEF TypeOK, Times, None, Current
<1>1. ASSUME NEW r \in Request, _follow_platform_identity(r) PROVE TypeOK'
  <2>1. PICK login \in forwarded_token :
          /\ token' = [token EXCEPT ![r] = login]
          /\ Goto(r, IF login = Never THEN "refused"
                     ELSE IF login = platformToken THEN "run" ELSE "open")
    BY <1>1 DEF _follow_platform_identity
  <2>2. token' \in [Request -> Times \cup {Never}]
    BY <1>0, <2>1 DEF forwarded_token, TypeOK
  <2>3. pc' \in [Request -> Labels]
    BY <2>1 DEF Goto, Labels, TypeOK
  <2>4. raced' \in BOOLEAN
    BY <1>1 DEF _follow_platform_identity, TypeOK
  <2> QED
    BY <1>1, <2>2, <2>3, <2>4 DEF _follow_platform_identity, projectVars, TypeOK
<1>2. ASSUME NEW r \in Request, open_platform_database(r) PROVE TypeOK'
  <2>1. db' \in Times /\ pc' \in [Request -> Labels]
    BY <1>2 DEF open_platform_database, Goto, Labels, RequestInv, TypeOK
  <2> QED
    BY <1>2, <2>1 DEF open_platform_database, projectVars, TypeOK
<1>3. ASSUME NEW r \in Request, StoreToken(r) PROVE TypeOK'
  <2>1. platformToken' \in Times /\ pc' \in [Request -> Labels]
    BY <1>3 DEF StoreToken, Goto, Labels, RequestInv, TypeOK
  <2> QED
    BY <1>3, <2>1 DEF StoreToken, projectVars, TypeOK
<1>4. ASSUME NEW r \in Request, RunWithHandle(r) PROVE TypeOK'
  BY <1>4 DEF RunWithHandle, Goto, platformVars, projectVars, requestVars, TypeOK, Labels
<1>5. ASSUME NEW r \in Request, LookAtAge(r) PROVE TypeOK'
  BY <1>5 DEF LookAtAge, Goto, platformVars, projectVars, requestVars, TypeOK, Labels
<1>6. ASSUME NEW r \in Request, ReadMapping(r) PROVE TypeOK'
  <2>1. brought' \in [Request -> None..MaxVersions]
    BY <1>6, <1>0 DEF ReadMapping, TypeOK
  <2>2. pc' \in [Request -> Labels] /\ outage' \in BOOLEAN
    BY <1>6 DEF ReadMapping, Goto, Labels, TypeOK
  <2> QED
    BY <1>6, <2>1, <2>2 DEF ReadMapping, platformVars, TypeOK
<1>7. ASSUME NEW r \in Request, KeepMapping(r) PROVE TypeOK'
  <2>1. mapping' \in None..Len(versions) /\ (mapping' # None => versions[mapping'].maps)
    BY <1>7, <1>0 DEF KeepMapping, RequestInv, TypeOK, None
  <2>2. pc' \in [Request -> Labels]
    BY <1>7 DEF KeepMapping, Goto, Labels, TypeOK
  <2> QED
    BY <1>7, <2>1, <2>2 DEF KeepMapping, platformVars, TypeOK
<1>8. ASSUME NEW r \in Request, Stamp(r) PROVE TypeOK'
  BY <1>8 DEF Stamp, Goto, platformVars, projectVars, requestVars, TypeOK, Labels
<1>9. ASSUME NEW r \in Request, UseMapping(r) PROVE TypeOK'
  <2>1. used' \in [Request -> Times \cup None..MaxVersions]
    BY <1>9, <1>0 DEF UseMapping, TypeOK
  <2>2. pc' \in [Request -> Labels]
    BY <1>9 DEF UseMapping, Goto, Labels, TypeOK
  <2> QED
    BY <1>9, <2>1, <2>2 DEF UseMapping, platformVars, projectVars, TypeOK
<1>10. ASSUME NEW r \in Request, RefreshSchema(r) PROVE TypeOK'
  BY <1>10 DEF RefreshSchema, Goto, platformVars, projectVars, requestVars, TypeOK, Labels
<1>11. ASSUME NEW r \in Request, Return(r) PROVE TypeOK'
  <2>1. /\ began' \in [Request -> Times] /\ token' \in [Request -> Times \cup {Never}]
        /\ brought' \in [Request -> None..MaxVersions]
        /\ used' \in [Request -> Times \cup None..MaxVersions]
    BY <1>11, <1>0 DEF Return, TypeOK
  <2>2. pc' \in [Request -> Labels]
    BY <1>11 DEF Return, Goto, Labels, TypeOK
  <2> QED
    BY <1>11, <2>1, <2>2 DEF Return, platformVars, projectVars, TypeOK
<1>12. CASE Publish
  <2>1. /\ UNCHANGED <<kind, now, platformVars, mapping, mappingAt, outage, requestVars>>
        /\ versions' \in Seq([since : Times, maps : BOOLEAN]) /\ Len(versions') \in 1..MaxVersions
    BY <1>12, Published DEF Publish, Version
  <2>2. mapping' \in None..Len(versions') /\ (mapping' # None => versions'[mapping'].maps)
    BY <1>12, <2>1, Published DEF TypeOK, None
  <2> QED
    BY <2>1, <2>2 DEF platformVars, requestVars, TypeOK
<1>13. CASE Tick
  <2>1. now' \in Times
    BY <1>13, IdentityBounds DEF Tick, TypeOK, Times
  <2> QED
    BY <1>13, <2>1 DEF Tick, platformVars, projectVars, requestVars, TypeOK
<1>14. CASE UNCHANGED vars
  BY <1>14 DEF vars, platformVars, projectVars, requestVars, TypeOK, Labels
<1> QED
  BY <1>1, <1>2, <1>3, <1>4, <1>5, <1>6, <1>7, <1>8, <1>9, <1>10, <1>11, <1>12, <1>13, <1>14
  DEF Next, Step

LEMMA RequestStep == TypeOK /\ TypeOK' /\ RequestInv /\ [Next]_vars => RequestInv'
<1> SUFFICES ASSUME TypeOK, TypeOK', RequestInv, [Next]_vars PROVE RequestInv'
  OBVIOUS
<1> USE Arithmetic, IdentityBounds
<1>1. ASSUME NEW r \in Request, _follow_platform_identity(r) PROVE RequestInv'
  BY <1>1
  DEF _follow_platform_identity, Goto, platformVars, projectVars, requestVars,
     forwarded_token, RequestInv, TypeOK
<1>2. ASSUME NEW r \in Request, open_platform_database(r) PROVE RequestInv'
  BY <1>2
  DEF open_platform_database, Goto, platformVars, projectVars, requestVars, RequestInv, TypeOK
<1>3. ASSUME NEW r \in Request, StoreToken(r) PROVE RequestInv'
  BY <1>3 DEF StoreToken, Goto, platformVars, projectVars, requestVars, RequestInv, TypeOK
<1>4. ASSUME NEW r \in Request, RunWithHandle(r) PROVE RequestInv'
  BY <1>4 DEF RunWithHandle, Goto, platformVars, projectVars, requestVars, RequestInv, TypeOK
<1>5. ASSUME NEW r \in Request, LookAtAge(r) PROVE RequestInv'
  BY <1>5 DEF LookAtAge, Goto, platformVars, projectVars, requestVars, RequestInv, TypeOK
<1>6. ASSUME NEW r \in Request, ReadMapping(r) PROVE RequestInv'
  <2>1. \A q \in Request : /\ brought'[q] <= Len(versions)
                           /\ brought'[q] # None => versions[brought'[q]].maps
    <3>1. Current <= Len(versions) /\ None <= Len(versions)
      BY Values DEF Current, None
    <3> QED
      BY <1>6, <3>1, Values DEF ReadMapping, RequestInv
  <2>2. /\ UNCHANGED <<kind, now, versions, mappingAt, began, token>>
        /\ \A q \in Request \ {r} : pc'[q] = pc[q]
        /\ pc[r] = "read" /\ pc'[r] \in {"keep", "refused", "stamp", "unavailable"}
    BY <1>6, Values DEF ReadMapping, Goto
  <2>3. \A q \in Request : pc'[q] \in {"read", "keep", "stamp"} => now <= began[q] + ReadTimeout
    BY <2>2 DEF RequestInv
  <2>4. /\ \A q \in Request : pc'[q] \in {"open", "store", "run"} => q # r
        /\ \A q \in Request : pc'[q] \in {"read", "keep", "stamp", "resolved"} => kind = "project"
    BY <2>2 DEF RequestInv
  <2> QED
    BY <2>1, <2>2, <2>3, <2>4 DEF RequestInv
<1>7. ASSUME NEW r \in Request, KeepMapping(r) PROVE RequestInv'
  BY <1>7 DEF KeepMapping, Goto, platformVars, projectVars, requestVars, RequestInv, TypeOK
<1>8. ASSUME NEW r \in Request, Stamp(r) PROVE RequestInv'
  BY <1>8 DEF Stamp, Goto, platformVars, projectVars, requestVars, RequestInv, TypeOK
<1>9. ASSUME NEW r \in Request, UseMapping(r) PROVE RequestInv'
  BY <1>9 DEF UseMapping, Goto, platformVars, projectVars, requestVars, RequestInv, TypeOK
<1>10. ASSUME NEW r \in Request, RefreshSchema(r) PROVE RequestInv'
  BY <1>10 DEF RefreshSchema, Goto, platformVars, projectVars, requestVars, RequestInv, TypeOK
<1>11. ASSUME NEW r \in Request, Return(r) PROVE RequestInv'
  BY <1>11 DEF Return, Goto, platformVars, projectVars, requestVars, RequestInv, TypeOK
<1>12. CASE Publish
  BY <1>12 DEF Publish, platformVars, projectVars, requestVars, RequestInv, TypeOK
<1>13. CASE Tick
  <2>1. /\ now' = now + 1 /\ UNCHANGED <<kind, versions, mappingAt, pc, began, token, brought>>
        /\ \A r \in Request : pc[r] \in {"read", "keep", "stamp"} => now < began[r] + ReadTimeout
    BY <1>13 DEF Tick, projectVars, requestVars
  <2>2. \A r \in Request : began[r] <= now + 1
    BY Values DEF RequestInv
  <2>3. \A i \in 1..Len(versions) : versions[i].since <= now + 1
    BY Values DEF RequestInv
  <2>4. mappingAt # Never => mappingAt <= now + 1
    BY Values DEF RequestInv
  <2>5. \A r \in Request : pc[r] \in {"read", "keep", "stamp"} => now + 1 <= began[r] + ReadTimeout
    BY <2>1, Values
  <2> QED
    BY <2>1, <2>2, <2>3, <2>4, <2>5 DEF RequestInv
<1>14. CASE UNCHANGED vars
  BY <1>14 DEF vars, platformVars, projectVars, requestVars, RequestInv, TypeOK
<1> QED
  BY <1>1, <1>2, <1>3, <1>4, <1>5, <1>6, <1>7, <1>8, <1>9, <1>10, <1>11, <1>12, <1>13, <1>14
  DEF Next, Step

LEMMA LoginStep == TypeOK /\ LoginInv /\ [Next]_vars => LoginInv'
<1> SUFFICES ASSUME TypeOK, LoginInv, [Next]_vars PROVE LoginInv'
  OBVIOUS
<1> USE Arithmetic
<1>1. ASSUME NEW r \in Request, _follow_platform_identity(r) PROVE LoginInv'
  <2>1. PICK login \in forwarded_token :
          /\ Goto(r, IF login = Never THEN "refused"
                     ELSE IF login = platformToken THEN "run" ELSE "open")
          /\ token' = [token EXCEPT ![r] = login]
          /\ raced' = (raced \/ (login \notin {Never, platformToken}
                                 /\ \E other \in Request : Rebinding(other)))
    BY <1>1 DEF _follow_platform_identity
  <2>2. /\ pc[r] = "idle" /\ db' = db /\ platformToken' = platformToken
        /\ \A q \in Request \ {r} : pc'[q] = pc[q] /\ token'[q] = token[q]
        /\ pc'[r] # "store"
    BY <1>1, <2>1 DEF _follow_platform_identity, Goto, TypeOK
  <2>3. CASE login \in {Never, platformToken}
    <3>1. pc'[r] \notin {"open", "store"} /\ raced' = raced
      BY <2>1, <2>3 DEF Goto, TypeOK
    <3> QED
      BY <2>2, <3>1 DEF LoginInv, BoundLoginAgrees, Rebinding
  <2>4. CASE login \notin {Never, platformToken} /\ ~ \E other \in Request : Rebinding(other)
    <3>1. raced' = raced
      BY <2>1, <2>4 DEF TypeOK
    <3> QED
      BY <2>2, <2>4, <3>1 DEF LoginInv, BoundLoginAgrees, Rebinding
  <2>5. CASE login \notin {Never, platformToken} /\ \E other \in Request : Rebinding(other)
    BY <2>1, <2>5 DEF LoginInv
  <2> QED
    BY <2>3, <2>4, <2>5
<1>2. ASSUME NEW r \in Request, open_platform_database(r) PROVE LoginInv'
  BY <1>2
  DEF open_platform_database, Goto, platformVars, projectVars, requestVars, LoginInv,
     BoundLoginAgrees, Rebinding, TypeOK
<1>3. ASSUME NEW r \in Request, StoreToken(r) PROVE LoginInv'
  BY <1>3
  DEF StoreToken, Goto, platformVars, projectVars, requestVars, LoginInv, BoundLoginAgrees,
     Rebinding, TypeOK
<1>4. ASSUME NEW r \in Request, RunWithHandle(r) PROVE LoginInv'
  BY <1>4
  DEF RunWithHandle, Goto, platformVars, projectVars, requestVars, LoginInv, BoundLoginAgrees,
     Rebinding, TypeOK
<1>5. ASSUME NEW r \in Request, LookAtAge(r) PROVE LoginInv'
  BY <1>5
  DEF LookAtAge, Goto, platformVars, projectVars, requestVars, LoginInv, BoundLoginAgrees,
     Rebinding, TypeOK
<1>6. ASSUME NEW r \in Request, ReadMapping(r) PROVE LoginInv'
  <2>1. /\ pc[r] = "read" /\ UNCHANGED <<db, platformToken, raced, token>>
        /\ \E p \in {"keep", "refused", "stamp", "unavailable"} : pc' = [pc EXCEPT ![r] = p]
    BY <1>6 DEF ReadMapping, Goto, platformVars
  <2>2. \A q \in Request : pc'[q] \in {"open", "store"} => pc'[q] = pc[q]
    BY <2>1 DEF TypeOK
  <2>3. \A q \in Request : pc[q] \in {"open", "store"} => pc'[q] = pc[q]
    BY <2>1 DEF TypeOK
  <2> QED
    BY <2>1, <2>2, <2>3 DEF LoginInv, BoundLoginAgrees, Rebinding
<1>7. ASSUME NEW r \in Request, KeepMapping(r) PROVE LoginInv'
  BY <1>7
  DEF KeepMapping, Goto, platformVars, projectVars, requestVars, LoginInv, BoundLoginAgrees,
     Rebinding, TypeOK
<1>8. ASSUME NEW r \in Request, Stamp(r) PROVE LoginInv'
  BY <1>8
  DEF Stamp, Goto, platformVars, projectVars, requestVars, LoginInv, BoundLoginAgrees,
     Rebinding, TypeOK
<1>9. ASSUME NEW r \in Request, UseMapping(r) PROVE LoginInv'
  BY <1>9
  DEF UseMapping, Goto, platformVars, projectVars, requestVars, LoginInv, BoundLoginAgrees,
     Rebinding, TypeOK
<1>10. ASSUME NEW r \in Request, RefreshSchema(r) PROVE LoginInv'
  BY <1>10
  DEF RefreshSchema, Goto, platformVars, projectVars, requestVars, LoginInv, BoundLoginAgrees,
     Rebinding, TypeOK
<1>11. ASSUME NEW r \in Request, Return(r) PROVE LoginInv'
  BY <1>11
  DEF Return, Goto, platformVars, projectVars, requestVars, LoginInv, BoundLoginAgrees,
     Rebinding, TypeOK
<1>12. CASE Publish
  BY <1>12
  DEF Publish, platformVars, projectVars, requestVars, LoginInv, BoundLoginAgrees, Rebinding,
     TypeOK
<1>13. CASE Tick
  BY <1>13
  DEF Tick, platformVars, projectVars, requestVars, LoginInv, BoundLoginAgrees, Rebinding,
     TypeOK
<1>14. CASE UNCHANGED vars
  BY <1>14
  DEF vars, platformVars, projectVars, requestVars, LoginInv, BoundLoginAgrees, Rebinding,
     TypeOK
<1> QED
  BY <1>1, <1>2, <1>3, <1>4, <1>5, <1>6, <1>7, <1>8, <1>9, <1>10, <1>11, <1>12, <1>13, <1>14
  DEF Next, Step

LEMMA RecentStep == TypeOK /\ RequestInv /\ RecentInv /\ [Next]_vars => RecentInv'
<1> SUFFICES ASSUME TypeOK, RequestInv, RecentInv, [Next]_vars PROVE RecentInv'
  OBVIOUS
<1> USE Arithmetic, IdentityBounds
<1>1. ASSUME NEW r \in Request, _follow_platform_identity(r) PROVE RecentInv'
  BY <1>1
  DEF _follow_platform_identity, Goto, platformVars, projectVars, requestVars,
     forwarded_token, RecentInv, RequestInv, HeldWithin, TypeOK, Current
<1>2. ASSUME NEW r \in Request, open_platform_database(r) PROVE RecentInv'
  BY <1>2
  DEF open_platform_database, Goto, platformVars, projectVars, requestVars, RecentInv,
     RequestInv, HeldWithin, TypeOK, Current
<1>3. ASSUME NEW r \in Request, StoreToken(r) PROVE RecentInv'
  BY <1>3
  DEF StoreToken, Goto, platformVars, projectVars, requestVars, RecentInv, RequestInv,
     HeldWithin, TypeOK, Current
<1>4. ASSUME NEW r \in Request, RunWithHandle(r) PROVE RecentInv'
  BY <1>4
  DEF RunWithHandle, Goto, platformVars, projectVars, requestVars, RecentInv, RequestInv,
     HeldWithin, TypeOK, Current
<1>5. ASSUME NEW r \in Request, LookAtAge(r) PROVE RecentInv'
  <2>a. /\ UNCHANGED <<kind, versions, mapping, mappingAt, outage, brought, used>>
        /\ \A q \in Request \ {r} : pc'[q] = pc[q] /\ began'[q] = began[q]
        /\ began'[r] = now /\ pc'[r] \in {"resolved", "read"}
        /\ pc'[r] = "resolved" => mappingAt # Never /\ now < mappingAt + RefreshAfter
    BY <1>5, Values DEF LookAtAge, Goto, projectVars
  <2>b. pc'[r] = "resolved" /\ ~outage => HeldWithin(mapping, now, ReadTimeout + RefreshAfter)
    <3> SUFFICES ASSUME pc'[r] = "resolved", ~outage, mapping \in 1..(Len(versions) - 1)
                 PROVE  now < versions[mapping + 1].since + (ReadTimeout + RefreshAfter)
      BY DEF HeldWithin
    <3>1. mappingAt # Never /\ now < mappingAt + RefreshAfter
      BY <2>a
    <3>2. mappingAt < versions[mapping + 1].since + (ReadTimeout + 1)
      BY <3>1 DEF RecentInv, HeldWithin
    <3>3. mapping + 1 \in 1..Len(versions)
      BY Values
    <3> QED
      BY <3>1, <3>2, <3>3, Values
  <2> QED
    BY <2>a, <2>b DEF RecentInv, HeldWithin
<1>6. ASSUME NEW r \in Request, ReadMapping(r) PROVE RecentInv'
  <2>a. /\ UNCHANGED <<kind, versions, mapping, mappingAt, began, used>>
        /\ \A q \in Request \ {r} : pc'[q] = pc[q] /\ brought'[q] = brought[q]
        /\ pc'[r] \in {"keep", "refused", "stamp", "unavailable"}
        /\ pc'[r] = "keep" => brought'[r] \in {Current, None}
        /\ pc'[r] = "stamp" => outage'
        /\ ~outage' => ~outage
    BY <1>6, Values DEF ReadMapping, Goto, TypeOK
  <2>b. pc'[r] = "keep" => HeldWithin(brought'[r], began[r], 1)
    BY <2>a, Values DEF HeldWithin, Current, None
  <2> QED
    BY <2>a, <2>b DEF RecentInv, HeldWithin
<1>7. ASSUME NEW r \in Request, KeepMapping(r) PROVE RecentInv'
  <2>a. /\ UNCHANGED <<kind, versions, mappingAt, outage, began, brought, used>>
        /\ \A q \in Request \ {r} : pc'[q] = pc[q]
        /\ pc'[r] = "stamp" /\ mapping' = brought[r]
    BY <1>7, Values DEF KeepMapping, Goto
  <2>b. HeldWithin(mapping', now, ReadTimeout + 1)
    <3>1. HeldWithin(mapping', began[r], 1) /\ now <= began[r] + ReadTimeout
      BY <1>7, <2>a DEF KeepMapping, RecentInv, RequestInv
    <3>2. /\ began[r] \in Nat /\ now \in Nat /\ ReadTimeout + 1 \in Nat
          /\ now + 1 <= began[r] + (ReadTimeout + 1)
      BY <3>1, Arithmetic, Values
    <3> QED
      BY <3>1, <3>2, HeldLonger
  <2>c. \A t \in Nat : t <= now => HeldWithin(mapping', t, ReadTimeout + 1)
                               /\ HeldWithin(mapping', t, ReadTimeout + RefreshAfter)
    <3>1. /\ ReadTimeout + 1 \in Nat /\ ReadTimeout + RefreshAfter \in Nat /\ now \in Nat
          /\ \A t \in Nat : t <= now =>
                /\ t + (ReadTimeout + 1) <= now + (ReadTimeout + 1)
                /\ t + (ReadTimeout + 1) <= now + (ReadTimeout + RefreshAfter)
      BY Arithmetic, Values
    <3> QED
      BY <2>b, <3>1, HeldLonger
  <2>d. /\ \A q \in Request : HeldWithin(mapping', began[q], ReadTimeout + 1)
                            /\ HeldWithin(mapping', began[q], ReadTimeout + RefreshAfter)
        /\ mappingAt # Never => HeldWithin(mapping', mappingAt, ReadTimeout + 1)
    BY <2>c, Values DEF RequestInv
  <2> QED
    BY <2>a, <2>d DEF RecentInv, HeldWithin
<1>8. ASSUME NEW r \in Request, Stamp(r) PROVE RecentInv'
  <2>a. /\ UNCHANGED <<kind, versions, mapping, outage, began, brought, used>>
        /\ \A q \in Request \ {r} : pc'[q] = pc[q]
        /\ pc[r] = "stamp" /\ pc'[r] = "resolved" /\ mappingAt' = began[r]
    BY <1>8, Values DEF Stamp, Goto
  <2>b. ~outage => /\ HeldWithin(mapping, began[r], ReadTimeout + 1)
                   /\ HeldWithin(mapping, began[r], ReadTimeout + RefreshAfter)
    BY <2>a, Values DEF RecentInv, HeldWithin
  <2> QED
    BY <2>a, <2>b DEF RecentInv, HeldWithin
<1>9. ASSUME NEW r \in Request, UseMapping(r) PROVE RecentInv'
  BY <1>9
  DEF UseMapping, Goto, platformVars, projectVars, requestVars, RecentInv, RequestInv,
     HeldWithin, TypeOK, Current
<1>10. ASSUME NEW r \in Request, RefreshSchema(r) PROVE RecentInv'
  BY <1>10
  DEF RefreshSchema, Goto, platformVars, projectVars, requestVars, RecentInv, RequestInv,
     HeldWithin, TypeOK, Current
<1>11. ASSUME NEW r \in Request, Return(r) PROVE RecentInv'
  BY <1>11
  DEF Return, Goto, platformVars, projectVars, requestVars, RecentInv, RequestInv, HeldWithin,
     TypeOK, Current
<1>12. CASE Publish
  <2>a. /\ UNCHANGED <<kind, mapping, mappingAt, outage, pc, began, brought, used>>
        /\ Len(versions') = Len(versions) + 1
        /\ \A i \in 1..Len(versions) : versions'[i] = versions[i]
        /\ versions'[Len(versions')].since = now
    BY <1>12, Published DEF Publish, requestVars
  <2>b. ASSUME NEW v, NEW t \in Nat, t <= now, NEW d \in Nat \ {0}, HeldWithin(v, t, d)
        PROVE HeldWithin(v, t, d)'
    BY <2>a, <2>b, Values DEF HeldWithin
  <2>c. /\ \A q \in Request : began[q] \in Nat /\ began[q] <= now
        /\ mappingAt # Never => mappingAt \in Nat /\ mappingAt <= now
        /\ ReadTimeout + 1 \in Nat \ {0} /\ ReadTimeout + RefreshAfter \in Nat \ {0}
    BY Values DEF RequestInv
  <2>1. \A q \in Request : pc'[q] = "keep" => HeldWithin(brought[q], began[q], 1)'
    BY <2>a, <2>b, <2>c DEF RecentInv
  <2>2. ~outage => \A q \in Request : pc'[q] = "stamp" => HeldWithin(mapping, began[q], ReadTimeout + 1)'
    BY <2>a, <2>b, <2>c DEF RecentInv
  <2>3. ~outage => (mappingAt # Never => HeldWithin(mapping, mappingAt, ReadTimeout + 1)')
    BY <2>a, <2>b, <2>c DEF RecentInv
  <2>4. ~outage => \A q \in Request : pc'[q] = "resolved" =>
           HeldWithin(mapping, began[q], ReadTimeout + RefreshAfter)'
    BY <2>a, <2>b, <2>c DEF RecentInv
  <2>5. ~outage => \A q \in Request : pc'[q] = "done" /\ kind = "project" =>
           HeldWithin(used[q], began[q], ReadTimeout + RefreshAfter)'
    BY <2>a, <2>b, <2>c DEF RecentInv
  <2> QED
    BY <2>a, <2>1, <2>2, <2>3, <2>4, <2>5 DEF RecentInv, Never
<1>13. CASE Tick
  BY <1>13
  DEF Tick, platformVars, projectVars, requestVars, RecentInv, RequestInv, HeldWithin, TypeOK,
     Current
<1>14. CASE UNCHANGED vars
  BY <1>14
  DEF vars, platformVars, projectVars, requestVars, RecentInv, RequestInv, HeldWithin, TypeOK,
     Current
<1> QED
  BY <1>1, <1>2, <1>3, <1>4, <1>5, <1>6, <1>7, <1>8, <1>9, <1>10, <1>11, <1>12, <1>13, <1>14
  DEF Next, Step

LEMMA NoneStep == TypeOK /\ RequestInv /\ NoneInv /\ [Next]_vars => NoneInv'
<1> SUFFICES ASSUME TypeOK, RequestInv, NoneInv, [Next]_vars PROVE NoneInv'
  OBVIOUS
<1> USE Arithmetic
<1>1. ASSUME NEW r \in Request, _follow_platform_identity(r) PROVE NoneInv'
  BY <1>1
  DEF _follow_platform_identity, Goto, platformVars, projectVars, requestVars,
     forwarded_token, NoneInv, Withdrawn, TypeOK, Current
<1>2. ASSUME NEW r \in Request, open_platform_database(r) PROVE NoneInv'
  BY <1>2
  DEF open_platform_database, Goto, platformVars, projectVars, requestVars, NoneInv,
     Withdrawn, TypeOK, Current
<1>3. ASSUME NEW r \in Request, StoreToken(r) PROVE NoneInv'
  BY <1>3
  DEF StoreToken, Goto, platformVars, projectVars, requestVars, NoneInv, Withdrawn, TypeOK,
     Current
<1>4. ASSUME NEW r \in Request, RunWithHandle(r) PROVE NoneInv'
  <2>1. kind = "platform"
    BY <1>4 DEF RunWithHandle, RequestInv
  <2> QED
    BY <1>4, <2>1, Values DEF RunWithHandle, Goto, projectVars, NoneInv, Withdrawn
<1>5. ASSUME NEW r \in Request, LookAtAge(r) PROVE NoneInv'
  BY <1>5
  DEF LookAtAge, Goto, platformVars, projectVars, requestVars, NoneInv, Withdrawn, TypeOK,
     Current
<1>6. ASSUME NEW r \in Request, ReadMapping(r) PROVE NoneInv'
  <2>a. /\ UNCHANGED <<kind, versions, mapping, mappingAt, used>>
        /\ \A q \in Request \ {r} : pc'[q] = pc[q] /\ brought'[q] = brought[q]
        /\ pc'[r] \in {"keep", "refused", "stamp", "unavailable"}
        /\ pc'[r] = "keep" => brought'[r] = IF versions[Current].maps THEN Current ELSE None
        /\ pc'[r] = "stamp" => mappingAt # Never
    BY <1>6, Values DEF ReadMapping, Goto
  <2>b. pc'[r] = "keep" /\ brought'[r] = None => Withdrawn
    BY <2>a, Values DEF Withdrawn, Current, None
  <2> QED
    BY <2>a, <2>b DEF NoneInv, Withdrawn
<1>7. ASSUME NEW r \in Request, KeepMapping(r) PROVE NoneInv'
  BY <1>7
  DEF KeepMapping, Goto, platformVars, projectVars, requestVars, NoneInv, Withdrawn, TypeOK,
     Current
<1>8. ASSUME NEW r \in Request, Stamp(r) PROVE NoneInv'
  BY <1>8
  DEF Stamp, Goto, platformVars, projectVars, requestVars, NoneInv, Withdrawn, TypeOK, Current
<1>9. ASSUME NEW r \in Request, UseMapping(r) PROVE NoneInv'
  BY <1>9
  DEF UseMapping, Goto, platformVars, projectVars, requestVars, NoneInv, Withdrawn, TypeOK,
     Current
<1>10. ASSUME NEW r \in Request, RefreshSchema(r) PROVE NoneInv'
  BY <1>10
  DEF RefreshSchema, Goto, platformVars, projectVars, requestVars, NoneInv, Withdrawn, TypeOK,
     Current
<1>11. ASSUME NEW r \in Request, Return(r) PROVE NoneInv'
  BY <1>11
  DEF Return, Goto, platformVars, projectVars, requestVars, NoneInv, Withdrawn, TypeOK, Current
<1>12. CASE Publish
  BY <1>12
  DEF Publish, platformVars, projectVars, requestVars, NoneInv, Withdrawn, TypeOK, Current
<1>13. CASE Tick
  BY <1>13 DEF Tick, platformVars, projectVars, requestVars, NoneInv, Withdrawn, TypeOK, Current
<1>14. CASE UNCHANGED vars
  BY <1>14 DEF vars, platformVars, projectVars, requestVars, NoneInv, Withdrawn, TypeOK, Current
<1> QED
  BY <1>1, <1>2, <1>3, <1>4, <1>5, <1>6, <1>7, <1>8, <1>9, <1>10, <1>11, <1>12, <1>13, <1>14
  DEF Next, Step

----------------------------------------------------------------------------
(* Theorems *)

LEMMA RequestsHold == Spec => [](TypeOK /\ RequestInv)
<1>1. Init => TypeOK /\ RequestInv
  <2> SUFFICES ASSUME Init PROVE TypeOK /\ RequestInv
    OBVIOUS
  <2>0. 0 \in Times /\ 0 \in None..MaxVersions /\ 1 \in 1..MaxVersions
    BY IdentityBounds DEF Times, None
  <2>1. PICK m \in BOOLEAN : versions = <<[since |-> 0, maps |-> m]>>
    BY DEF Init
  <2>2. versions \in Seq([since : Times, maps : BOOLEAN]) /\ Len(versions) = 1 /\ versions[1].since = 0
    BY <2>0, <2>1
  <2>3. TypeOK
    <3>1. /\ kind \in Kinds /\ now \in Times /\ db \in Times /\ platformToken \in Times
          /\ raced \in BOOLEAN /\ outage \in BOOLEAN /\ mappingAt \in Times \cup {Never}
      BY <2>0 DEF Init
    <3>2. Len(versions) \in 1..MaxVersions /\ mapping = None /\ mapping \in None..Len(versions)
      BY <2>0, <2>2 DEF Init, None
    <3>3. /\ pc \in [Request -> Labels] /\ began \in [Request -> Times]
          /\ token \in [Request -> Times \cup {Never}]
      BY <2>0 DEF Init, Labels
    <3>4. brought \in [Request -> None..MaxVersions] /\ used \in [Request -> Times \cup None..MaxVersions]
      BY <2>0 DEF Init, None
    <3> QED
      BY <2>2, <3>1, <3>2, <3>3, <3>4 DEF TypeOK
  <2>4. RequestInv
    BY <2>2 DEF Init, RequestInv, None
  <2> QED
    BY <2>3, <2>4
<1>2. TypeOK /\ RequestInv /\ [Next]_vars => TypeOK' /\ RequestInv'
  BY TypeStep, RequestStep
<1> QED
  BY <1>1, <1>2, PTL DEF Spec

(* The session's shared state and its requests are well typed, whatever    *)
(* the rotation of logins and the history of the mapping.                  *)
THEOREM TypeCorrect == Spec => []TypeOK
  BY RequestsHold, PTL

(* The login kept is the handle's, refusals included, unless two requests  *)
(* re-bound the session at once (_follow_platform_identity).               *)
THEOREM LoginsAgree == Spec => []AgreesUnlessRaced
<1>1. Init => LoginInv
  BY DEF Init, LoginInv, BoundLoginAgrees, Rebinding
<1>2. LoginInv => AgreesUnlessRaced
  BY DEF LoginInv, AgreesUnlessRaced
<1> QED
  BY <1>1, <1>2, LoginStep, RequestsHold, PTL DEF Spec

(* A query is answered in a mapping that was the project's less than a     *)
(* refresh and a read before it looked, however many reads are in flight   *)
(* and in whatever order they are kept and stamped.                        *)
THEOREM MappingsAreRecent == Spec => []MappingIsRecent
<1>1. Init => RecentInv
  BY DEF Init, RecentInv
<1>2. TypeOK /\ RecentInv => MappingIsRecent
  <2> SUFFICES ASSUME TypeOK, RecentInv, NEW r \in Request, kind = "project", pc[r] = "done",
                      used[r] \in 1..(Current - 1), ~outage
               PROVE  began[r] < versions[used[r] + 1].since + RefreshAfter + ReadTimeout
    BY DEF MappingIsRecent
  <2>1. began[r] < versions[used[r] + 1].since + (ReadTimeout + RefreshAfter)
    BY DEF RecentInv, HeldWithin, Current
  <2>2. used[r] + 1 \in 1..Len(versions)
    BY Values DEF Current
  <2> QED
    BY <2>1, <2>2, Values, IdentityBounds
<1> QED
  BY <1>1, <1>2, RecentStep, RequestsHold, PTL DEF Spec

(* A project that never withdrew its mapping is never answered by an       *)
(* analysis of the database, outages and refreshes included.               *)
THEOREM NeverAnalyzedOver == Spec => []NotAnalyzedOver
<1>1. Init => NoneInv
  BY Arithmetic DEF Init, NoneInv
<1>2. NoneInv => NotAnalyzedOver
  BY DEF NoneInv, Withdrawn, NotAnalyzedOver, Current
<1> QED
  BY <1>1, <1>2, NoneStep, RequestsHold, PTL DEF Spec
=============================================================================
