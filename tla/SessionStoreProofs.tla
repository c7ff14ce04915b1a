------------------------- MODULE SessionStoreProofs -------------------------
(***************************************************************************)
(* SessionStore for any number of threads, tokens and clients: its types,  *)
(* that a stored session has an open client, that no client is lost but by *)
(* a failed credential check and in two races, and how far the unlocked    *)
(* table outgrows its cap.                                                 *)
(***************************************************************************)
EXTENDS SessionStore, FiniteSetTheorems, TLAPS

----------------------------------------------------------------------------
(* What a call has found by the time it is at a label *)

CallInv ==
    \A t \in Thread :
       /\ pc[t] \in {"idle", "dial", "lookup"} => conn[t] = None
       /\ pc[t] \in {"dial", "check"} => op[t] \in Connects \cup {"context"}
       /\ op[t] \in {"request", "disconnect"} =>
             /\ pc[t] \notin {"check", "evict", "choose", "insert"}
             /\ pc[t] = "close" => after[t] \in {"idle", "prune"}
             /\ pc[t] \in {"scan", "scanning", "prune"} \/ (pc[t] = "close" /\ after[t] = "prune")
                => conn[t] = None
       /\ pc[t] # "idle" /\ op[t] \notin Connects => key[t] \in Key
       /\ op[t] \in Connects => pc[t] \notin {"lookup", "touch", "serve"}
       /\ op[t] \in Connects /\ pc[t] \in {"scan", "scanning", "prune", "close"} => conn[t] \in Conn
       /\ pc[t] \in {"check", "evict", "choose", "insert"} => conn[t] \in Conn
       /\ pc[t] # "close" => after[t] = "idle"
       /\ pc[t] = "close" => after[t] \in {"idle", "prune", "evict"}
       /\ pc[t] = "close" /\ after[t] = "evict" => conn[t] \in Conn

----------------------------------------------------------------------------
(* Which client is whose *)

HeldIsOwn ==
    \A t \in Thread : Holds(t) =>
       /\ conn[t] \in open
       /\ \A k \in Key : store[k] # None => store[k].conn # conn[t]
       /\ \A u \in Thread : conn[u] = conn[t] => u = t

StoredOnce ==
    \A j, k \in Key : store[j] # None /\ store[k] # None /\ store[j].conn = store[k].conn => j = k

(* The client a thread is about to close is nobody's session. *)
VictimIsGone ==
    \A t \in Thread : victim[t] # None =>
       /\ \A k \in Key : store[k] # None => store[k].conn # victim[t]
       /\ \A u \in Thread : Holds(u) => conn[u] # victim[t]

(* The session a disconnect found is stored under its token or not at all. *)
DisconnectsOwn ==
    \A t \in Thread : op[t] = "disconnect" /\ pc[t] \in {"touch", "serve"} =>
       \A k \in Key : store[k] # None /\ store[k].conn = conn[t] => k = key[t]

ClientInv == StoredIsOpen /\ HeldIsOwn /\ StoredOnce /\ VictimIsGone /\ DisconnectsOwn

----------------------------------------------------------------------------
(* How many sessions there are and may be inserted *)

Inserting == {t \in Thread : pc[t] = "insert"}

CountInv == Cardinality(Stored) + Cardinality(Inserting) < MaxSessions + Cardinality(Thread)

----------------------------------------------------------------------------
(* Types *)

LEMMA SessionParts ==
  /\ \A s \in Session : s # None /\ s.conn \in Conn /\ s.last \in Nat
  /\ \A c \in Conn, n \in Nat : [conn |-> c, last |-> n] \in Session
  /\ \A s \in Session, n \in Nat : [s EXCEPT !.last = n] \in Session /\ [s EXCEPT !.last = n].conn = s.conn
<1>1. \A s \in Session : s # None
  BY NoneIsNothing
<1> QED
  BY <1>1 DEF Session

LEMMA ReturnTypes ==
  ASSUME TypeOK, NEW t \in Thread, Return(t)
  PROVE  /\ pc' \in [Thread -> Label] /\ op' \in [Thread -> Op]
         /\ key' \in [Thread -> Key \cup {None}] /\ conn' \in [Thread -> Conn \cup {None}]
         /\ size' \in [Thread -> Nat] /\ todo' \in [Thread -> SUBSET Key]
         /\ victim' \in [Thread -> Conn \cup {None}] /\ after' \in [Thread -> Label]
  BY DEF TypeOK, Return, Goto, Label, Op, Connects

LEMMA PopTypes ==
  ASSUME TypeOK, NEW t \in Thread, NEW k, NEW client \in Conn \cup {None}, NEW next \in Label,
         Pop(t, k, client, next)
  PROVE  /\ store' \in [Key -> Session \cup {None}] /\ pc' \in [Thread -> Label]
         /\ victim' \in [Thread -> Conn \cup {None}] /\ after' \in [Thread -> Label]
  BY DEF TypeOK, Pop, Goto, Label

LEMMA TypeStep == TypeOK /\ CallInv /\ [Next]_vars => TypeOK'
<1> SUFFICES ASSUME TypeOK, CallInv, [Next]_vars PROVE TypeOK'
  OBVIOUS
<1>0. controlPlane' = controlPlane
  BY DEF Next, vars
<1>f. IsFiniteSet(Stored) /\ Cardinality(Stored) \in Nat
  BY KeysAreFinite, FS_Subset, FS_CardinalityType DEF Stored
<1>l. {"idle", "prune", "evict"} \subseteq Label
  BY DEF Label
<1> USE <1>0
<1>1. ASSUME NEW t \in Thread, Start(t) PROVE TypeOK'
  BY <1>1 DEF Start, Goto, TypeOK, Label, Op, Connects
<1>2. ASSUME NEW t \in Thread, Dial(t) PROVE TypeOK'
  <2>1. CASE Return(t) /\ UNCHANGED open
    BY <1>2, <2>1, ReturnTypes DEF Dial, TypeOK
  <2>2. ASSUME NEW c \in NewConns, conn' = [conn EXCEPT ![t] = c], open' = open \cup {c},
               Goto(t, "check"), UNCHANGED <<op, key, size, todo, victim, after>>
        PROVE TypeOK'
    BY <1>2, <2>2 DEF Dial, NewConns, Goto, TypeOK, Label
  <2> QED
    BY <1>2, <2>1, <2>2 DEF Dial
<1>3. ASSUME NEW t \in Thread, ScanStart(t) PROVE TypeOK'
  BY <1>3, <1>f DEF ScanStart, Goto, TypeOK, Label
<1>4. ASSUME NEW t \in Thread, ScanRaises(t) PROVE TypeOK'
  BY <1>4, ReturnTypes DEF ScanRaises, TypeOK
<1>5. ASSUME NEW t \in Thread, ScanEnd(t) PROVE TypeOK'
  BY <1>5 DEF ScanEnd, ExpiredKeys, Stored, Goto, TypeOK, Label
<1>6. ASSUME NEW t \in Thread, Prune(t) PROVE TypeOK'
  <2> PICK k \in todo[t] : Prune(t)!2!(k)
    BY <1>6 DEF Prune
  <2>k. k \in Key
    BY DEF TypeOK
  <2>1. todo' \in [Thread -> SUBSET Key]
    BY DEF TypeOK
  <2>2. CASE store[k] # None /\ Pop(t, k, store[k].conn, "prune")
    <3>1. store[k].conn \in Conn
      BY <2>2, <2>k, SessionParts DEF TypeOK
    <3> QED
      BY <1>6, <2>1, <2>2, <3>1, <1>l, PopTypes DEF Prune, TypeOK
  <2>3. CASE store[k] = None /\ UNCHANGED <<store, pc, victim, after>>
    BY <1>6, <2>1, <2>3 DEF Prune, TypeOK
  <2> QED
    BY <2>2, <2>3
<1>7. ASSUME NEW t \in Thread, Pruned(t) PROVE TypeOK'
  BY <1>7 DEF Pruned, Goto, callVars, TypeOK, Label
<1>8. ASSUME NEW t \in Thread, Lookup(t) PROVE TypeOK'
  <2>k. key[t] \in Key
    BY <1>8 DEF Lookup, CallInv
  <2>c. store[key[t]] # None => store[key[t]].conn \in Conn
    BY <2>k, SessionParts DEF TypeOK
  <2>1. CASE /\ store[key[t]] # None /\ conn' = [conn EXCEPT ![t] = store[key[t]].conn]
             /\ Goto(t, "touch") /\ UNCHANGED <<store, op, key, size, todo, victim, after>>
    BY <1>8, <2>1, <2>c DEF Lookup, Goto, TypeOK, Label
  <2>2. CASE /\ store[key[t]] # None /\ Pop(t, key[t], store[key[t]].conn, "idle")
             /\ UNCHANGED <<op, key, conn, size, todo>>
    BY <1>8, <2>2, <2>c, <1>l, PopTypes DEF Lookup, TypeOK
  <2>3. CASE Return(t) /\ UNCHANGED store
    BY <1>8, <2>3, ReturnTypes DEF Lookup, TypeOK
  <2>4. CASE Goto(t, "dial") /\ UNCHANGED <<store, op, callVars>>
    BY <1>8, <2>4 DEF Lookup, Goto, callVars, TypeOK, Label
  <2> QED
    BY <1>8, <2>1, <2>2, <2>3, <2>4 DEF Lookup
<1>9. ASSUME NEW t \in Thread, Evict(t) PROVE TypeOK'
  BY <1>9, <1>f DEF Evict, Goto, TypeOK, Label
<1>10. ASSUME NEW t \in Thread, Choose(t) PROVE TypeOK'
  <2> PICK k \in LeastRecentlyUsed : Pop(t, k, store[k].conn, "evict")
    BY <1>10 DEF Choose
  <2>1. store[k].conn \in Conn
    BY SessionParts DEF LeastRecentlyUsed, Stored, TypeOK
  <2> QED
    BY <1>10, <2>1, <1>l, PopTypes DEF Choose, TypeOK
<1>11. ASSUME NEW t \in Thread, Insert(t) PROVE TypeOK'
  <2>1. [conn |-> conn[t], last |-> now] \in Session
    BY <1>11, SessionParts DEF Insert, CallInv, TypeOK
  <2>2. store' \in [Key -> Session \cup {None}]
    BY <1>11, <2>1 DEF Insert, TypeOK
  <2>3. CASE Return(t)
    BY <1>11, <2>2, <2>3, ReturnTypes DEF Insert, TypeOK
  <2>4. CASE Goto(t, "touch") /\ UNCHANGED <<op, callVars>>
    BY <1>11, <2>2, <2>4 DEF Insert, Goto, callVars, TypeOK, Label
  <2> QED
    BY <1>11, <2>3, <2>4 DEF Insert
<1>12. ASSUME NEW t \in Thread, Touch(t) PROVE TypeOK'
  <2>1. key[t] \in Key
    BY <1>12 DEF Touch, CallInv
  <2>2. Touched(store[key[t]], conn[t]) \in Session \cup {None}
    BY <2>1, SessionParts DEF Touched, TypeOK
  <2> QED
    BY <1>12, <2>2 DEF Touch, Goto, callVars, TypeOK, Label
<1>13. ASSUME NEW t \in Thread, Serve(t) PROVE TypeOK'
  <2>1. CASE Return(t) /\ UNCHANGED store
    BY <1>13, <2>1, ReturnTypes DEF Serve, TypeOK
  <2>2. CASE Pop(t, key[t], conn[t], "idle") /\ UNCHANGED <<op, key, conn, size, todo>>
    <3>1. conn[t] \in Conn \cup {None}
      BY DEF TypeOK
    <3> QED
      BY <1>13, <2>2, <3>1, <1>l, PopTypes DEF Serve, TypeOK
  <2> QED
    BY <1>13, <2>1, <2>2 DEF Serve
<1>14. ASSUME NEW t \in Thread, Close(t) PROVE TypeOK'
  <2>1. CASE Return(t)
    BY <1>14, <2>1, ReturnTypes DEF Close, TypeOK
  <2>2. CASE /\ Goto(t, after[t])
             /\ victim' = [victim EXCEPT ![t] = None] /\ after' = [after EXCEPT ![t] = "idle"]
             /\ UNCHANGED <<op, key, conn, size, todo>>
    BY <1>14, <2>2 DEF Close, Goto, TypeOK, Label
  <2> QED
    BY <1>14, <2>1, <2>2 DEF Close
<1>15. ASSUME NEW t \in Thread, CheckCredential(t) PROVE TypeOK'
  <2>1. CASE Goto(t, "scan") /\ UNCHANGED <<op, callVars>>
    BY <1>15, <2>1 DEF CheckCredential, Goto, callVars, TypeOK, Label
  <2>2. CASE Return(t)
    BY <1>15, <2>2, ReturnTypes DEF CheckCredential, TypeOK
  <2>3. CASE /\ Goto(t, "close") /\ victim' = [victim EXCEPT ![t] = conn[t]]
             /\ UNCHANGED <<op, key, conn, size, todo, after>>
    BY <1>15, <2>3 DEF CheckCredential, Goto, TypeOK, Label
  <2> QED
    BY <1>15, <2>1, <2>2, <2>3 DEF CheckCredential
<1>16. CASE Tick
  BY <1>16 DEF Tick, callVars, TypeOK
<1>17. CASE UNCHANGED vars
  BY <1>17 DEF vars, callVars, TypeOK
<1> QED
  BY <1>1, <1>2, <1>3, <1>4, <1>5, <1>6, <1>7, <1>8, <1>9, <1>10, <1>11, <1>12, <1>13, <1>14,
     <1>15, <1>16, <1>17 DEF Next, Step

LEMMA CallStep == TypeOK /\ CallInv /\ [Next]_vars => CallInv'
<1> SUFFICES ASSUME TypeOK, CallInv, [Next]_vars PROVE CallInv'
  OBVIOUS
<1> DEFINE Domains == /\ DOMAIN pc = Thread /\ DOMAIN op = Thread /\ DOMAIN key = Thread
                      /\ DOMAIN conn = Thread /\ DOMAIN after = Thread
                      /\ \A t \in Thread : conn[t] \in Conn \cup {None} /\ op[t] \in Op
<1>d. Domains
  BY DEF TypeOK
<1>n. None \notin Conn /\ NewConns \subseteq Conn
  BY NoneIsNothing DEF NewConns
<1> USE <1>d, <1>n
<1>1. ASSUME NEW t \in Thread, Start(t) PROVE CallInv'
  BY <1>1 DEF Start, Goto, callVars, CallInv, Connects
<1>2. ASSUME NEW t \in Thread, Dial(t) PROVE CallInv'
  BY <1>2 DEF Dial, Goto, Return, CallInv, Connects
<1>3. ASSUME NEW t \in Thread, ScanStart(t) PROVE CallInv'
  BY <1>3 DEF ScanStart, Goto, CallInv
<1>4. ASSUME NEW t \in Thread, ScanRaises(t) PROVE CallInv'
  BY <1>4 DEF ScanRaises, Goto, Return, CallInv, Connects
<1>5. ASSUME NEW t \in Thread, ScanEnd(t) PROVE CallInv'
  BY <1>5 DEF ScanEnd, Goto, CallInv
<1>6. ASSUME NEW t \in Thread, Prune(t) PROVE CallInv'
  BY <1>6 DEF Prune, Goto, Pop, CallInv
<1>7. ASSUME NEW t \in Thread, Pruned(t) PROVE CallInv'
  BY <1>7 DEF Pruned, Goto, callVars, CallInv, Connects, Op
<1>8. ASSUME NEW t \in Thread, Lookup(t) PROVE CallInv'
  BY <1>8 DEF Lookup, Goto, Return, Pop, callVars, CallInv, Connects
<1>9. ASSUME NEW t \in Thread, Evict(t) PROVE CallInv'
  BY <1>9 DEF Evict, Goto, CallInv
<1>10. ASSUME NEW t \in Thread, Choose(t) PROVE CallInv'
  BY <1>10 DEF Choose, Goto, Pop, CallInv
<1>11. ASSUME NEW t \in Thread, Insert(t) PROVE CallInv'
  BY <1>11 DEF Insert, Goto, Return, callVars, CallInv, Connects, Op
<1>12. ASSUME NEW t \in Thread, Touch(t) PROVE CallInv'
  BY <1>12 DEF Touch, Goto, callVars, CallInv
<1>13. ASSUME NEW t \in Thread, Serve(t) PROVE CallInv'
  BY <1>13 DEF Serve, Goto, Return, Pop, CallInv, Connects
<1>14. ASSUME NEW t \in Thread, Close(t) PROVE CallInv'
  BY <1>14 DEF Close, Goto, Return, CallInv, Connects
<1>15. ASSUME NEW t \in Thread, CheckCredential(t) PROVE CallInv'
  BY <1>15 DEF CheckCredential, Goto, Return, callVars, CallInv, Connects
<1>16. CASE Tick
  BY <1>16 DEF Tick, callVars, CallInv
<1>17. CASE UNCHANGED vars
  BY <1>17 DEF vars, callVars, CallInv
<1> QED
  BY <1>1, <1>2, <1>3, <1>4, <1>5, <1>6, <1>7, <1>8, <1>9, <1>10, <1>11, <1>12, <1>13, <1>14,
     <1>15, <1>16, <1>17
  DEF Next, Step

----------------------------------------------------------------------------
(* Clients *)

(* A session is popped: its client is nobody's any more. *)
LEMMA PopKeepsClients ==
  ASSUME TypeOK, ClientInv, NEW t \in Thread, NEW k \in Key, store[k] # None,
         store' = [store EXCEPT ![k] = None], victim' = [victim EXCEPT ![t] = store[k].conn],
         open' = open, conn' = conn, op' = op, key' = key,
         \A u \in Thread : Holds(u)' => Holds(u),
         \A u \in Thread : pc'[u] \in {"touch", "serve"} => pc'[u] = pc[u]
  PROVE  ClientInv'
<1>a. /\ \A j \in Key : store'[j] # None => j # k /\ store'[j] = store[j]
      /\ victim'[t] = store[k].conn /\ \A u \in Thread \ {t} : victim'[u] = victim[u]
  BY DEF TypeOK
<1>1. StoredIsOpen'
  BY <1>a DEF ClientInv, StoredIsOpen, Stored
<1>2. HeldIsOwn'
  BY <1>a DEF ClientInv, HeldIsOwn
<1>3. StoredOnce'
  BY <1>a DEF ClientInv, StoredOnce
<1>4. VictimIsGone'
  BY <1>a DEF ClientInv, VictimIsGone, HeldIsOwn, StoredOnce
<1>5. DisconnectsOwn'
  BY <1>a DEF ClientInv, DisconnectsOwn
<1> QED
  BY <1>1, <1>2, <1>3, <1>4, <1>5 DEF ClientInv

LEMMA ClientStep == TypeOK /\ CallInv /\ ClientInv /\ [Next]_vars => ClientInv'
<1> SUFFICES ASSUME TypeOK, CallInv, ClientInv, [Next]_vars PROVE ClientInv'
  OBVIOUS
<1> DEFINE Domains == /\ DOMAIN pc = Thread /\ DOMAIN op = Thread /\ DOMAIN key = Thread
                      /\ DOMAIN conn = Thread /\ DOMAIN victim = Thread /\ DOMAIN after = Thread
                      /\ DOMAIN store = Key
                      /\ \A t \in Thread : conn[t] \in Conn \cup {None} /\ op[t] \in Op
<1>d. Domains
  BY DEF TypeOK
<1>n. None \notin Conn /\ NewConns \subseteq Conn
  BY NoneIsNothing DEF NewConns
<1> USE <1>d, <1>n
<1>1. ASSUME NEW t \in Thread, Start(t) PROVE ClientInv'
  <2>a. /\ store' = store /\ open' = open /\ conn' = conn /\ victim' = victim
        /\ \A u \in Thread : pc'[u] \in {"touch", "serve"} => u # t /\ pc'[u] = pc[u] /\ op'[u] = op[u] /\ key'[u] = key[u]
    BY <1>1 DEF Start, Goto
  <2>b. \A u \in Thread : Holds(u)' => Holds(u) /\ conn'[u] = conn[u]
    <3>1. conn[t] = None
      BY <1>1 DEF Start, CallInv
    <3> QED
      BY <1>1, <3>1 DEF Start, Goto, Holds
  <2>1. StoredIsOpen'
    BY <2>a, <2>b DEF ClientInv, StoredIsOpen, Stored
  <2>2. HeldIsOwn'
    BY <2>a, <2>b DEF ClientInv, HeldIsOwn, StoredIsOpen, Stored, VictimIsGone
  <2>3. StoredOnce'
    BY <2>a, <2>b DEF ClientInv, StoredOnce, HeldIsOwn
  <2>4. VictimIsGone'
    BY <2>a, <2>b DEF ClientInv, VictimIsGone, HeldIsOwn, StoredOnce
  <2>5. DisconnectsOwn'
    BY <2>a, <2>b DEF ClientInv, DisconnectsOwn, HeldIsOwn, StoredOnce
  <2> QED
    BY <2>1, <2>2, <2>3, <2>4, <2>5 DEF ClientInv
<1>2. ASSUME NEW t \in Thread, Dial(t) PROVE ClientInv'
  <2>1. CASE Return(t) /\ UNCHANGED open
    BY <1>2, <2>1
    DEF Dial, Return, Goto, ClientInv, StoredIsOpen, HeldIsOwn, StoredOnce, VictimIsGone,
       DisconnectsOwn, Holds, Stored
  <2>2. ASSUME NEW c \in NewConns, conn' = [conn EXCEPT ![t] = c], open' = open \cup {c},
               Goto(t, "check"), UNCHANGED <<op, key, size, todo, victim, after>>
        PROVE ClientInv'
    <3>a. /\ store' = store /\ victim' = victim /\ op' = op /\ key' = key /\ conn'[t] = c /\ c # None
          /\ \A u \in Thread : pc'[u] \in {"touch", "serve"} => u # t /\ pc'[u] = pc[u]
          /\ \A u \in Thread \ {t} : conn'[u] = conn[u]
      BY <1>2, <2>2 DEF Dial, Goto
    <3>b. /\ \A k \in Key : store[k] # None => store[k].conn # c
          /\ \A u \in Thread : conn[u] # c /\ victim[u] # c
      BY <2>2 DEF NewConns, Stored
    <3>c. \A u \in Thread \ {t} : Holds(u)' => Holds(u)
      BY <1>2, <2>2 DEF Dial, Goto, Holds
    <3>1. StoredIsOpen'
      BY <2>2, <3>a DEF ClientInv, StoredIsOpen, Stored
    <3>2. HeldIsOwn'
      BY <2>2, <3>a, <3>b, <3>c DEF ClientInv, HeldIsOwn
    <3>3. StoredOnce'
      BY <3>a DEF ClientInv, StoredOnce
    <3>4. VictimIsGone'
      BY <3>a, <3>b, <3>c DEF ClientInv, VictimIsGone
    <3>5. DisconnectsOwn'
      BY <3>a DEF ClientInv, DisconnectsOwn
    <3> QED
      BY <3>1, <3>2, <3>3, <3>4, <3>5 DEF ClientInv
  <2> QED
    BY <1>2, <2>1, <2>2 DEF Dial
<1>3. ASSUME NEW t \in Thread, ScanStart(t) PROVE ClientInv'
  BY <1>3
  DEF ScanStart, Goto, ClientInv, StoredIsOpen, HeldIsOwn, StoredOnce, VictimIsGone,
     DisconnectsOwn, Holds, Stored
<1>4. ASSUME NEW t \in Thread, ScanRaises(t) PROVE ClientInv'
  BY <1>4
  DEF ScanRaises, Goto, Return, ClientInv, StoredIsOpen, HeldIsOwn, StoredOnce, VictimIsGone,
     DisconnectsOwn, Holds, Stored
<1>5. ASSUME NEW t \in Thread, ScanEnd(t) PROVE ClientInv'
  BY <1>5
  DEF ScanEnd, Goto, ClientInv, StoredIsOpen, HeldIsOwn, StoredOnce, VictimIsGone,
     DisconnectsOwn, Holds, Stored
<1>6. ASSUME NEW t \in Thread, Prune(t) PROVE ClientInv'
  <2>1. PICK k \in todo[t] : Prune(t)!2!(k)
    BY <1>6 DEF Prune
  <2>2. k \in Key
    BY DEF TypeOK
  <2>3. CASE store[k] # None /\ Pop(t, k, store[k].conn, "prune")
    <3>1. \A u \in Thread : Holds(u)' => Holds(u)
      BY <1>6, <2>3 DEF Prune, Pop, Goto, Holds
    <3>2. \A u \in Thread : pc'[u] \in {"touch", "serve"} => pc'[u] = pc[u]
      BY <1>6, <2>3 DEF Prune, Pop, Goto
    <3> QED
      BY <1>6, <2>2, <2>3, <3>1, <3>2, PopKeepsClients DEF Prune, Pop
  <2>4. CASE store[k] = None /\ UNCHANGED <<store, pc, victim, after>>
    BY <1>6, <2>4
    DEF Prune, ClientInv, StoredIsOpen, HeldIsOwn, StoredOnce, VictimIsGone, DisconnectsOwn,
       Holds, Stored
  <2> QED
    BY <2>1, <2>3, <2>4
<1>7. ASSUME NEW t \in Thread, Pruned(t) PROVE ClientInv'
  BY <1>7
  DEF Pruned, Goto, callVars, ClientInv, StoredIsOpen, HeldIsOwn, StoredOnce, VictimIsGone,
     DisconnectsOwn, Holds, Stored
<1>8. ASSUME NEW t \in Thread, Lookup(t) PROVE ClientInv'
  <2>k. key[t] \in Key /\ conn[t] = None
    BY <1>8 DEF Lookup, CallInv
  <2>1. CASE /\ store[key[t]] # None /\ conn' = [conn EXCEPT ![t] = store[key[t]].conn]
             /\ Goto(t, "touch") /\ UNCHANGED <<store, op, key, size, todo, victim, after>>
    <3>a. /\ store' = store /\ open' = open /\ victim' = victim /\ op' = op /\ key' = key
          /\ conn'[t] = store[key[t]].conn
          /\ \A u \in Thread \ {t} : conn'[u] = conn[u] /\ pc'[u] = pc[u]
      BY <1>8, <2>1 DEF Lookup, Goto
    <3>b. \A u \in Thread : Holds(u)' => Holds(u) /\ u # t
      BY <1>8, <2>1 DEF Lookup, Goto, Holds
    <3>1. StoredIsOpen'
      BY <3>a DEF ClientInv, StoredIsOpen, Stored
    <3>2. HeldIsOwn'
      BY <2>1, <2>k, <3>a, <3>b DEF ClientInv, HeldIsOwn
    <3>3. StoredOnce'
      BY <3>a DEF ClientInv, StoredOnce
    <3>4. VictimIsGone'
      BY <3>a, <3>b DEF ClientInv, VictimIsGone
    <3>5. DisconnectsOwn'
      BY <2>1, <2>k, <3>a DEF ClientInv, DisconnectsOwn, StoredOnce
    <3> QED
      BY <3>1, <3>2, <3>3, <3>4, <3>5 DEF ClientInv
  <2>2. CASE /\ store[key[t]] # None /\ Pop(t, key[t], store[key[t]].conn, "idle")
             /\ UNCHANGED <<op, key, conn, size, todo>>
    <3>1. \A u \in Thread : Holds(u)' => Holds(u)
      BY <1>8, <2>2 DEF Lookup, Pop, Goto, Holds
    <3>2. \A u \in Thread : pc'[u] \in {"touch", "serve"} => pc'[u] = pc[u]
      BY <1>8, <2>2 DEF Lookup, Pop, Goto
    <3> QED
      BY <1>8, <2>k, <2>2, <3>1, <3>2, PopKeepsClients DEF Lookup, Pop
  <2>3. CASE Return(t) /\ UNCHANGED store
    <3>a. /\ store' = store /\ open' = open /\ pc'[t] = "idle" /\ conn'[t] = None /\ victim'[t] = None
      BY <1>8, <2>3, <2>k DEF Lookup, Return, Goto, TypeOK
    <3>b. \A u \in Thread \ {t} : /\ pc'[u] = pc[u] /\ op'[u] = op[u] /\ key'[u] = key[u]
                                 /\ conn'[u] = conn[u] /\ victim'[u] = victim[u] /\ after'[u] = after[u]
      BY <2>3 DEF Return, Goto
    <3>c. ~ Holds(t)' /\ \A u \in Thread \ {t} : Holds(u)' <=> Holds(u)
      BY <3>a, <3>b DEF Holds
    <3>1. StoredIsOpen' /\ StoredOnce'
      BY <3>a DEF ClientInv, StoredIsOpen, StoredOnce, Stored
    <3>2. HeldIsOwn'
      <4> SUFFICES ASSUME NEW u \in Thread \ {t}, Holds(u)
                   PROVE  /\ conn'[u] \in open'
                          /\ \A k \in Key : store'[k] # None => store'[k].conn # conn'[u]
                          /\ \A v \in Thread : conn'[v] = conn'[u] => v = u
        BY <3>c DEF HeldIsOwn
      <4>1. conn'[u] = conn[u] /\ conn[u] # None
        BY <3>b DEF Holds
      <4> QED
        BY <3>a, <3>b, <4>1 DEF ClientInv, HeldIsOwn
    <3>3. VictimIsGone'
      BY <3>a, <3>b, <3>c DEF ClientInv, VictimIsGone
    <3>4. DisconnectsOwn'
      BY <3>a, <3>b DEF ClientInv, DisconnectsOwn
    <3> QED
      BY <3>1, <3>2, <3>3, <3>4 DEF ClientInv
  <2>4. CASE Goto(t, "dial") /\ UNCHANGED <<store, op, callVars>>
    BY <1>8, <2>4
    DEF Lookup, Goto, callVars, ClientInv, StoredIsOpen, HeldIsOwn, StoredOnce, VictimIsGone,
       DisconnectsOwn, Holds, Stored
  <2> QED
    BY <1>8, <2>1, <2>2, <2>3, <2>4 DEF Lookup
<1>9. ASSUME NEW t \in Thread, Evict(t) PROVE ClientInv'
  BY <1>9
  DEF Evict, Goto, ClientInv, StoredIsOpen, HeldIsOwn, StoredOnce, VictimIsGone,
     DisconnectsOwn, Holds, Stored
<1>10. ASSUME NEW t \in Thread, Choose(t) PROVE ClientInv'
  <2>1. PICK k \in LeastRecentlyUsed : Pop(t, k, store[k].conn, "evict")
    BY <1>10 DEF Choose
  <2>2. k \in Key /\ store[k] # None
    BY DEF LeastRecentlyUsed, Stored
  <2>3. \A u \in Thread : Holds(u)' => Holds(u)
    BY <1>10, <2>1 DEF Choose, Pop, Goto, Holds
  <2>4. \A u \in Thread : pc'[u] \in {"touch", "serve"} => pc'[u] = pc[u]
    BY <1>10, <2>1 DEF Choose, Pop, Goto
  <2> QED
    BY <1>10, <2>1, <2>2, <2>3, <2>4, PopKeepsClients DEF Choose, Pop
<1>11. ASSUME NEW t \in Thread, Insert(t) PROVE ClientInv'
  <2>1. PICK k \in IF op[t] \in Connects THEN NewTokens ELSE {key[t]} :
          store' = [store EXCEPT ![k] = [conn |-> conn[t], last |-> now]]
    BY <1>11 DEF Insert
  <2>2. k \in Key
    BY <1>11, <2>1 DEF Insert, CallInv, NewTokens
  <2>3. Holds(t) /\ conn[t] \in Conn
    BY <1>11 DEF Insert, CallInv, Holds
  <2>4. /\ [conn |-> conn[t], last |-> now] # None /\ store'[k].conn = conn[t]
        /\ \A j \in Key \ {k} : store'[j] = store[j]
    BY <2>1, <2>2, <2>3, SessionParts DEF TypeOK
  <2>5. /\ open' = open
        /\ \A u \in Thread : victim'[u] # None => victim'[u] = victim[u]
        /\ \A u \in Thread : Holds(u)' => u # t /\ Holds(u) /\ conn'[u] = conn[u]
        /\ \A u \in Thread : conn'[u] # None => conn'[u] = conn[u]
        /\ \A u \in Thread : op'[u] = "disconnect" /\ pc'[u] \in {"touch", "serve"} =>
              u # t /\ op[u] = "disconnect" /\ pc[u] \in {"touch", "serve"} /\ conn'[u] = conn[u] /\ key'[u] = key[u]
    <3>1. CASE Return(t)
      BY <1>11, <3>1 DEF Insert, Return, Goto, Holds
    <3>2. CASE op[t] \notin Connects /\ Goto(t, "touch") /\ UNCHANGED <<op, callVars>>
      <4>1. op[t] # "disconnect"
        BY <1>11 DEF Insert, CallInv
      <4> QED
        BY <1>11, <3>2, <4>1 DEF Insert, Goto, callVars, Holds, Connects
    <3> QED
      BY <1>11, <3>1, <3>2 DEF Insert
  <2>6. StoredIsOpen'
    BY <2>2, <2>3, <2>4, <2>5 DEF ClientInv, StoredIsOpen, HeldIsOwn, Stored
  <2>7. HeldIsOwn'
    BY <2>2, <2>3, <2>4, <2>5 DEF ClientInv, HeldIsOwn, Holds
  <2>8. StoredOnce'
    BY <2>2, <2>3, <2>4 DEF ClientInv, StoredOnce, HeldIsOwn
  <2>9. VictimIsGone'
    BY <2>2, <2>3, <2>4, <2>5 DEF ClientInv, VictimIsGone
  <2>10. DisconnectsOwn'
    BY <2>2, <2>3, <2>4, <2>5 DEF ClientInv, DisconnectsOwn, HeldIsOwn
  <2> QED
    BY <2>6, <2>7, <2>8, <2>9, <2>10 DEF ClientInv
<1>12. ASSUME NEW t \in Thread, Touch(t) PROVE ClientInv'
  <2>1. /\ open' = open /\ conn' = conn /\ victim' = victim /\ op' = op /\ key' = key
        /\ \A u \in Thread : pc'[u] \in {"touch", "serve"} => pc[u] \in {"touch", "serve"}
    BY <1>12 DEF Touch, Goto, callVars
  <2>2. \A u \in Thread : Holds(u)' => Holds(u)
    BY <1>12 DEF Touch, Goto, callVars, Holds
  <2>3. \A k \in Key : store'[k] # None => store[k] # None /\ store'[k].conn = store[k].conn
    BY <1>12, SessionParts DEF Touch, Touched, TypeOK
  <2>4. StoredIsOpen'
    BY <2>1, <2>3 DEF ClientInv, StoredIsOpen, Stored
  <2>5. HeldIsOwn'
    BY <2>1, <2>2, <2>3 DEF ClientInv, HeldIsOwn
  <2>6. StoredOnce'
    BY <2>3 DEF ClientInv, StoredOnce
  <2>7. VictimIsGone'
    BY <2>1, <2>2, <2>3 DEF ClientInv, VictimIsGone
  <2>8. DisconnectsOwn'
    BY <2>1, <2>3 DEF ClientInv, DisconnectsOwn
  <2> QED
    BY <2>4, <2>5, <2>6, <2>7, <2>8 DEF ClientInv
<1>13. ASSUME NEW t \in Thread, Serve(t) PROVE ClientInv'
  BY <1>13
  DEF Serve, Goto, Return, Pop, ClientInv, StoredIsOpen, HeldIsOwn, StoredOnce, VictimIsGone,
     DisconnectsOwn, Holds, Stored
<1>14. ASSUME NEW t \in Thread, Close(t) PROVE ClientInv'
  <2>1. /\ store' = store /\ open' = open \ {victim[t]}
        /\ \A u \in Thread : conn'[u] # None => conn'[u] = conn[u]
        /\ \A u \in Thread : victim'[u] # None => victim'[u] = victim[u]
        /\ \A u \in Thread : pc'[u] \in {"touch", "serve"} =>
              pc[u] \in {"touch", "serve"} /\ conn'[u] = conn[u] /\ key'[u] = key[u] /\ op'[u] = op[u]
        /\ \A u \in Thread : Holds(u)' => Holds(u) /\ conn'[u] = conn[u]
    <3>1. CASE Return(t)
      BY <1>14, <3>1 DEF Close, Return, Goto, Holds
    <3>2. CASE /\ after[t] # "idle" /\ Goto(t, after[t])
               /\ victim' = [victim EXCEPT ![t] = None] /\ after' = [after EXCEPT ![t] = "idle"]
               /\ UNCHANGED <<op, key, conn, size, todo>>
      BY <1>14, <3>2 DEF Close, Goto, Holds, CallInv
    <3> QED
      BY <1>14, <3>1, <3>2 DEF Close
  <2>2. StoredIsOpen'
    BY <2>1, SessionParts DEF ClientInv, StoredIsOpen, VictimIsGone, Stored, TypeOK
  <2>3. HeldIsOwn'
    BY <2>1 DEF ClientInv, HeldIsOwn, VictimIsGone, Holds
  <2>4. StoredOnce'
    BY <2>1 DEF ClientInv, StoredOnce
  <2>5. VictimIsGone'
    BY <2>1 DEF ClientInv, VictimIsGone
  <2>6. DisconnectsOwn'
    BY <2>1 DEF ClientInv, DisconnectsOwn
  <2> QED
    BY <2>2, <2>3, <2>4, <2>5, <2>6 DEF ClientInv
<1>15. ASSUME NEW t \in Thread, CheckCredential(t) PROVE ClientInv'
  <2>1. /\ store' = store /\ open' = open
        /\ \A u \in Thread : conn'[u] # None => conn'[u] = conn[u]
        /\ \A u \in Thread : pc'[u] \in {"touch", "serve"} =>
              pc[u] \in {"touch", "serve"} /\ conn'[u] = conn[u] /\ key'[u] = key[u] /\ op'[u] = op[u]
        /\ \A u \in Thread : Holds(u)' => Holds(u) /\ conn'[u] = conn[u]
    BY <1>15 DEF CheckCredential, Return, Goto, callVars, Holds, CallInv
  <2>2. \A u \in Thread : victim'[u] # None => victim'[u] = victim[u] \/
           (u = t /\ victim'[u] = conn[t] /\ Holds(t) /\ ~Holds(t)')
    <3>1. CASE Goto(t, "scan") /\ UNCHANGED <<op, callVars>>
      BY <3>1 DEF callVars
    <3>2. CASE Return(t)
      BY <3>2 DEF Return
    <3>3. CASE Goto(t, "close") /\ victim' = [victim EXCEPT ![t] = conn[t]] /\ UNCHANGED <<conn, after>>
               /\ op[t] = "platform"
      <4>1. Holds(t)
        BY <1>15 DEF CheckCredential, CallInv, Holds
      <4>2. after[t] = "idle"
        BY <1>15 DEF CheckCredential, CallInv
      <4> QED
        BY <3>3, <4>1, <4>2 DEF Goto, Holds
    <3> QED
      BY <1>15, <3>1, <3>2, <3>3 DEF CheckCredential
  <2>3. StoredIsOpen'
    BY <2>1 DEF ClientInv, StoredIsOpen, Stored
  <2>4. HeldIsOwn'
    BY <2>1 DEF ClientInv, HeldIsOwn, Holds
  <2>5. StoredOnce'
    BY <2>1 DEF ClientInv, StoredOnce
  <2>6. VictimIsGone'
    BY <2>1, <2>2 DEF ClientInv, VictimIsGone, HeldIsOwn
  <2>7. DisconnectsOwn'
    BY <2>1 DEF ClientInv, DisconnectsOwn
  <2> QED
    BY <2>3, <2>4, <2>5, <2>6, <2>7 DEF ClientInv
<1>16. CASE Tick
  BY <1>16
  DEF Tick, callVars, ClientInv, StoredIsOpen, HeldIsOwn, StoredOnce, VictimIsGone,
     DisconnectsOwn, Holds, Stored
<1>17. CASE UNCHANGED vars
  BY <1>17
  DEF vars, callVars, ClientInv, StoredIsOpen, HeldIsOwn, StoredOnce, VictimIsGone,
     DisconnectsOwn, Holds, Stored
<1> QED
  BY <1>1, <1>2, <1>3, <1>4, <1>5, <1>6, <1>7, <1>8, <1>9, <1>10, <1>11, <1>12, <1>13, <1>14,
     <1>15, <1>16, <1>17
  DEF Next, Step

----------------------------------------------------------------------------
(* No client is lost *)

(* Contexts open sessions in one mode of the deployment, tokens in the other. *)
ModeInv ==
    \A t \in Thread : /\ op[t] = "context" => controlPlane
                      /\ op[t] \in Connects \cup {"disconnect"} => ~controlPlane

(* A thread has a client to close only where it closes it. *)
VictimAtClose == \A t \in Thread : victim[t] # None => pc[t] = "close"

(* No other session comes under the token of the one a disconnect found. *)
TokenIsKept ==
    \A t \in Thread : op[t] = "disconnect" /\ pc[t] \in {"touch", "serve"} /\ store[key[t]] # None
                      => store[key[t]].conn = conn[t]

EndingInv == ModeInv /\ VictimAtClose /\ TokenIsKept

LEMMA ModeStep == TypeOK /\ ModeInv /\ [Next]_vars => ModeInv'
<1> SUFFICES ASSUME TypeOK, ModeInv, [Next]_vars PROVE ModeInv'
  OBVIOUS
<1>1. controlPlane' = controlPlane /\ DOMAIN op = Thread
  BY DEF Next, vars, TypeOK
<1>2. ASSUME NEW t \in Thread, Start(t) PROVE ModeInv'
  BY <1>1, <1>2 DEF Start, ModeInv, Connects
<1>3. ASSUME NEW t \in Thread, op' = op \/ op' = [op EXCEPT ![t] = "request"] PROVE ModeInv'
  BY <1>1, <1>3 DEF ModeInv, Connects
<1>4. ASSUME NEW t \in Thread, Step(t), ~Start(t)
      PROVE  op' = op \/ op' = [op EXCEPT ![t] = "request"]
  BY <1>4
  DEF Step, Dial, CheckCredential, ScanStart, ScanRaises, ScanEnd, Prune, Pruned, Lookup, Evict, Choose, Insert,
      Touch, Serve, Close, Return, callVars
<1>5. CASE Tick \/ UNCHANGED vars
  BY <1>1, <1>5 DEF Tick, vars, ModeInv
<1> QED
  BY <1>2, <1>3, <1>4, <1>5 DEF Next

LEMMA VictimStep == TypeOK /\ CallInv /\ VictimAtClose /\ [Next]_vars => VictimAtClose'
<1> SUFFICES ASSUME TypeOK, CallInv, VictimAtClose, [Next]_vars PROVE VictimAtClose'
  OBVIOUS
<1>d. DOMAIN pc = Thread /\ DOMAIN victim = Thread
  BY DEF TypeOK
<1>1. ASSUME NEW t \in Thread,
             Start(t) \/ ScanStart(t) \/ ScanEnd(t) \/ Pruned(t) \/ Evict(t) \/ Touch(t)
      PROVE VictimAtClose'
  BY <1>1, <1>d DEF Start, ScanStart, ScanEnd, Pruned, Evict, Touch, Goto, callVars, VictimAtClose
<1>2. ASSUME NEW t \in Thread, Dial(t) \/ ScanRaises(t) \/ Insert(t)
      PROVE VictimAtClose'
  BY <1>2, <1>d DEF Dial, ScanRaises, Insert, Return, Goto, callVars, VictimAtClose
<1>3. ASSUME NEW t \in Thread, Prune(t) \/ Choose(t) PROVE VictimAtClose'
  BY <1>3, <1>d DEF Prune, Choose, Pop, Goto, VictimAtClose
<1>4. ASSUME NEW t \in Thread, Lookup(t) \/ Serve(t) PROVE VictimAtClose'
  BY <1>4, <1>d DEF Lookup, Serve, Return, Pop, Goto, callVars, VictimAtClose
<1>5. ASSUME NEW t \in Thread, Close(t) PROVE VictimAtClose'
  BY <1>5, <1>d DEF Close, Return, Goto, VictimAtClose
<1>6. ASSUME NEW t \in Thread, CheckCredential(t) PROVE VictimAtClose'
  BY <1>6, <1>d DEF CheckCredential, Return, Goto, callVars, VictimAtClose
<1>7. CASE Tick \/ UNCHANGED vars
  BY <1>7 DEF Tick, vars, callVars, VictimAtClose
<1> QED
  BY <1>1, <1>2, <1>3, <1>4, <1>5, <1>6, <1>7 DEF Next, Step

LEMMA TokenStep == TypeOK /\ CallInv /\ ModeInv /\ TokenIsKept /\ [Next]_vars => TokenIsKept'
<1> SUFFICES ASSUME TypeOK, CallInv, ModeInv, TokenIsKept, [Next]_vars,
                    NEW u \in Thread, op'[u] = "disconnect", pc'[u] \in {"touch", "serve"},
                    store'[key'[u]] # None
             PROVE  store'[key'[u]].conn = conn'[u]
  BY DEF TokenIsKept
<1>d. /\ DOMAIN pc = Thread /\ DOMAIN op = Thread /\ DOMAIN key = Thread /\ DOMAIN conn = Thread
      /\ DOMAIN store = Key
  BY DEF TypeOK
<1>1. ASSUME op[u] = "disconnect", pc[u] \in {"touch", "serve"}, key'[u] = key[u], conn'[u] = conn[u],
             store'[key[u]] = store[key[u]]
      PROVE  store'[key'[u]].conn = conn'[u]
  BY <1>1 DEF TokenIsKept
<1>2. ASSUME NEW t \in Thread,
             Start(t) \/ ScanStart(t) \/ ScanEnd(t) \/ Pruned(t) \/ Evict(t)
      PROVE  store'[key'[u]].conn = conn'[u]
  BY <1>1, <1>2, <1>d DEF Start, ScanStart, ScanEnd, Pruned, Evict, Goto, callVars
<1>3. ASSUME NEW t \in Thread, Dial(t) \/ CheckCredential(t) \/ ScanRaises(t) \/ Close(t)
      PROVE  store'[key'[u]].conn = conn'[u]
  BY <1>1, <1>3, <1>d
  DEF Dial, CheckCredential, ScanRaises, Close, Return, Goto, callVars, CallInv
<1>4. ASSUME NEW t \in Thread, NEW k \in Key, store' = [store EXCEPT ![k] = None],
             pc'[u] # "close", pc' = [pc EXCEPT ![t] = "close"], UNCHANGED <<op, key, conn>>
      PROVE  store'[key'[u]].conn = conn'[u]
  BY <1>1, <1>4, <1>d
<1>5. ASSUME NEW t \in Thread, Prune(t) PROVE store'[key'[u]].conn = conn'[u]
  <2> PICK k \in todo[t] : Prune(t)!2!(k)
    BY <1>5 DEF Prune
  <2>1. k \in Key
    BY DEF TypeOK
  <2> QED
    BY <1>1, <1>4, <1>5, <2>1 DEF Prune, Pop, Goto
<1>6. ASSUME NEW t \in Thread, Choose(t) PROVE store'[key'[u]].conn = conn'[u]
  BY <1>4, <1>6 DEF Choose, LeastRecentlyUsed, Stored, Pop, Goto
<1>7. ASSUME NEW t \in Thread, Lookup(t) PROVE store'[key'[u]].conn = conn'[u]
  <2>k. key[t] \in Key
    BY <1>7 DEF Lookup, CallInv
  <2>1. CASE conn' = [conn EXCEPT ![t] = store[key[t]].conn] /\ UNCHANGED <<store, op, key>> /\ Goto(t, "touch")
    BY <1>1, <2>1, <1>d DEF Goto
  <2>2. CASE Pop(t, key[t], store[key[t]].conn, "idle") /\ UNCHANGED <<op, key, conn>>
    BY <1>4, <2>2, <2>k DEF Pop, Goto
  <2>3. CASE Return(t) /\ UNCHANGED store
    BY <1>1, <2>3, <1>d DEF Return, Goto
  <2>4. CASE Goto(t, "dial") /\ UNCHANGED <<store, op, callVars>>
    BY <1>1, <2>4, <1>d DEF Goto, callVars
  <2> QED
    BY <1>7, <2>1, <2>2, <2>3, <2>4 DEF Lookup
<1>8. ASSUME NEW t \in Thread, Insert(t) PROVE store'[key'[u]].conn = conn'[u]
  <2>1. u # t /\ op[u] = "disconnect" /\ pc[u] \in {"touch", "serve"} /\ key'[u] = key[u] /\ conn'[u] = conn[u]
    BY <1>8, <1>d DEF Insert, Return, Goto, callVars, CallInv, Connects, Op
  <2>2. op[t] \in Connects
    BY <1>8, <2>1 DEF Insert, CallInv, ModeInv, TypeOK, Op
  <2>3. store'[key[u]] = store[key[u]]
    BY <1>8, <2>1, <2>2, <1>d DEF Insert, NewTokens
  <2> QED
    BY <1>1, <2>1, <2>3
<1>9. ASSUME NEW t \in Thread, Touch(t) PROVE store'[key'[u]].conn = conn'[u]
  <2>1. op[u] = "disconnect" /\ pc[u] \in {"touch", "serve"} /\ key'[u] = key[u] /\ conn'[u] = conn[u]
    BY <1>9, <1>d DEF Touch, Goto, callVars
  <2>2. key[u] \in Key /\ key[t] \in Key
    BY <1>9, <2>1 DEF Touch, CallInv
  <2>3. store[key[u]] # None /\ store'[key[u]].conn = store[key[u]].conn
    BY <1>9, <2>1, <2>2, <1>d, SessionParts DEF Touch, Touched, TypeOK
  <2> QED
    BY <2>1, <2>3 DEF TokenIsKept
<1>10. ASSUME NEW t \in Thread, Serve(t) PROVE store'[key'[u]].conn = conn'[u]
  <2>1. CASE Return(t) /\ UNCHANGED store
    BY <1>1, <2>1, <1>d DEF Return, Goto
  <2>2. CASE op[t] = "disconnect" /\ Pop(t, key[t], conn[t], "idle") /\ UNCHANGED <<op, key, conn>>
    <3>1. key[t] \in Key
      BY <1>10 DEF Serve, CallInv
    <3> QED
      BY <1>4, <2>2, <3>1 DEF Pop, Goto
  <2> QED
    BY <1>10, <2>1, <2>2 DEF Serve
<1>11. CASE Tick \/ UNCHANGED vars
  BY <1>1, <1>11 DEF Tick, vars, callVars
<1> QED
  BY <1>2, <1>3, <1>5, <1>6, <1>7, <1>8, <1>9, <1>10, <1>11 DEF Next, Step

(* Whoever could close the client hands it on. *)
LEMMA HandedOn ==
  ASSUME NEW c, Kept(c),
         \A k \in Key : store[k] # None /\ store[k].conn = c =>
            (store'[k] # None /\ store'[k].conn = c) \/ \E u \in Thread : victim'[u] = c,
         \A u \in Thread : Holds(u) /\ conn[u] = c =>
            (Holds(u)' /\ conn'[u] = c) \/ \E k \in Key : store'[k] # None /\ store'[k].conn = c,
         \A u \in Thread : victim[u] = c => victim'[u] = c
  PROVE  Kept(c)'
  BY DEF Kept, Stored

(* The thread that pops a session takes its client over. *)
LEMMA PopHandsOn ==
  ASSUME TypeOK, VictimAtClose, NEW c \in Conn, Kept(c), NEW t \in Thread, NEW k \in Key,
         pc[t] # "close",
         store[k] # None => store[k].conn = victim'[t],
         store' = [store EXCEPT ![k] = None], victim' = [victim EXCEPT ![t] = victim'[t]],
         \A u \in Thread : Holds(u) => Holds(u)' /\ conn'[u] = conn[u]
  PROVE  Kept(c)'
<1>1. c # None
  BY NoneIsNothing
<1>2. \A j \in Key : store[j] # None /\ store[j].conn = c =>
         (store'[j] # None /\ store'[j].conn = c) \/ \E u \in Thread : victim'[u] = c
  BY DEF TypeOK
<1>3. \A u \in Thread : victim[u] = c => victim'[u] = c
  BY <1>1 DEF TypeOK, VictimAtClose
<1> QED
  BY <1>2, <1>3, HandedOn

(* A call that returns without a client of its own loses none. *)
LEMMA ReturnLosesNone ==
  ASSUME TypeOK, VictimAtClose, NEW c \in Conn, Kept(c), NEW t \in Thread, Return(t),
         UNCHANGED store, pc[t] # "close", ~(Holds(t) /\ conn[t] = c)
  PROVE  Kept(c)'
<1>1. c # None /\ victim[t] = None
  BY NoneIsNothing DEF VictimAtClose
<1>2. \A u \in Thread \ {t} : pc'[u] = pc[u] /\ conn'[u] = conn[u] /\ victim'[u] = victim[u] /\ after'[u] = after[u]
  BY DEF Return, Goto, TypeOK
<1>3. \A u \in Thread : Holds(u) /\ conn[u] = c => Holds(u)' /\ conn'[u] = c
  BY <1>2 DEF Holds
<1>4. \A u \in Thread : victim[u] = c => victim'[u] = c
  BY <1>1, <1>2
<1> QED
  BY <1>3, <1>4, HandedOn

LEMMA NoneIsLostStep ==
  ASSUME TypeOK, CallInv, EndingInv, [Next]_vars, NEW c \in open, Kept(c)
  PROVE  Kept(c)' \/ c \notin open' \/ FailedCheck(c) \/ ScanRaisedOver(c) \/ SecondFirstRequest(c)
<1>c. c \in Conn /\ c # None
  BY NoneIsNothing DEF TypeOK
<1>d. /\ DOMAIN pc = Thread /\ DOMAIN conn = Thread /\ DOMAIN victim = Thread /\ DOMAIN after = Thread
      /\ DOMAIN store = Key
  BY DEF TypeOK
<1>v. VictimAtClose
  BY DEF EndingInv
<1>1. ASSUME NEW t \in Thread, Start(t) \/ ScanStart(t) \/ ScanEnd(t) \/ Pruned(t) \/ Evict(t)
      PROVE Kept(c)'
  <2>1. store' = store /\ conn' = conn /\ victim' = victim /\ after' = after
    BY <1>1 DEF Start, ScanStart, ScanEnd, Pruned, Evict, callVars
  <2>2. \A u \in Thread : Holds(u) => Holds(u)'
    BY <1>1, <1>d DEF Start, ScanStart, ScanEnd, Pruned, Evict, Goto, callVars, Holds
  <2> QED
    BY <2>1, <2>2, HandedOn
<1>2. ASSUME NEW t \in Thread, Dial(t) PROVE Kept(c)'
  <2>1. conn[t] = None /\ pc[t] = "dial"
    BY <1>2 DEF Dial, CallInv
  <2>2. CASE Return(t)
    BY <1>2, <2>1, <2>2, <1>c, <1>v, ReturnLosesNone DEF Dial
  <2>3. ASSUME NEW e \in NewConns, conn' = [conn EXCEPT ![t] = e], Goto(t, "check"),
               UNCHANGED <<victim, after>>
        PROVE Kept(c)'
    <3>1. \A u \in Thread : Holds(u) => Holds(u)' /\ conn'[u] = conn[u]
      BY <2>1, <2>3, <1>d DEF Goto, Holds
    <3> QED
      BY <1>2, <2>3, <3>1, HandedOn DEF Dial
  <2> QED
    BY <1>2, <2>2, <2>3 DEF Dial
<1>3. ASSUME NEW t \in Thread, ScanRaises(t) PROVE Kept(c)' \/ ScanRaisedOver(c)
  <2>1. CASE Holds(t) /\ conn[t] = c
    BY <1>3, <2>1, <1>d DEF ScanRaises, Return, Goto, ScanRaisedOver
  <2>2. CASE ~(Holds(t) /\ conn[t] = c)
    BY <1>3, <2>2, <1>c, <1>v, ReturnLosesNone DEF ScanRaises
  <2> QED
    BY <2>1, <2>2
<1>4. ASSUME NEW t \in Thread, Prune(t) PROVE Kept(c)'
  <2> PICK k \in todo[t] : Prune(t)!2!(k)
    BY <1>4 DEF Prune
  <2>1. k \in Key
    BY DEF TypeOK
  <2>2. CASE store[k] # None /\ Pop(t, k, store[k].conn, "prune")
    <3>1. \A u \in Thread : Holds(u) => Holds(u)' /\ conn'[u] = conn[u]
      BY <1>4, <2>2, <1>d DEF Prune, Pop, Goto, Holds
    <3>2. victim' = [victim EXCEPT ![t] = victim'[t]] /\ victim'[t] = store[k].conn /\ pc[t] # "close"
      BY <1>4, <2>2, <1>d DEF Prune, Pop
    <3>3. store' = [store EXCEPT ![k] = None]
      BY <2>2 DEF Pop
    <3> QED
      BY <2>1, <3>1, <3>2, <3>3, <1>c, <1>v, PopHandsOn
  <2>3. CASE UNCHANGED <<store, pc, victim, after>>
    BY <1>4, <2>3, HandedOn DEF Prune, Holds
  <2> QED
    BY <2>2, <2>3
<1>5. ASSUME NEW t \in Thread, Choose(t) PROVE Kept(c)'
  <2> PICK k \in LeastRecentlyUsed : Pop(t, k, store[k].conn, "evict")
    BY <1>5 DEF Choose
  <2>1. k \in Key
    BY DEF LeastRecentlyUsed, Stored
  <2>2. \A u \in Thread : Holds(u) => Holds(u)' /\ conn'[u] = conn[u]
    BY <1>5, <1>d DEF Choose, Pop, Goto, Holds
  <2>3. victim' = [victim EXCEPT ![t] = victim'[t]] /\ victim'[t] = store[k].conn /\ pc[t] # "close"
    BY <1>5, <1>d DEF Choose, Pop
  <2>4. store' = [store EXCEPT ![k] = None]
    BY DEF Pop
  <2> QED
    BY <2>1, <2>2, <2>3, <2>4, <1>c, <1>v, PopHandsOn
<1>6. ASSUME NEW t \in Thread, Lookup(t) PROVE Kept(c)'
  <2>1. key[t] \in Key /\ conn[t] = None /\ pc[t] = "lookup" /\ ~Holds(t)
    BY <1>6 DEF Lookup, CallInv, Holds
  <2>2. CASE conn' = [conn EXCEPT ![t] = store[key[t]].conn] /\ Goto(t, "touch") /\ UNCHANGED <<store, victim, after>>
    <3>1. \A u \in Thread : Holds(u) => Holds(u)' /\ conn'[u] = conn[u]
      BY <2>1, <2>2, <1>d DEF Goto, Holds
    <3> QED
      BY <2>2, <3>1, HandedOn
  <2>3. CASE store[key[t]] # None /\ Pop(t, key[t], store[key[t]].conn, "idle") /\ UNCHANGED conn
    <3>1. \A u \in Thread : Holds(u) => Holds(u)' /\ conn'[u] = conn[u]
      BY <2>1, <2>3, <1>d DEF Pop, Goto, Holds
    <3>2. victim' = [victim EXCEPT ![t] = victim'[t]] /\ victim'[t] = store[key[t]].conn
      BY <2>3, <1>d DEF Pop
    <3>3. store' = [store EXCEPT ![key[t]] = None]
      BY <2>3 DEF Pop
    <3> QED
      BY <2>1, <3>1, <3>2, <3>3, <1>c, <1>v, PopHandsOn
  <2>4. CASE Return(t) /\ UNCHANGED store
    BY <2>1, <2>4, <1>c, <1>v, ReturnLosesNone
  <2>5. CASE Goto(t, "dial") /\ UNCHANGED <<store, op, callVars>>
    <3>1. \A u \in Thread : Holds(u) => Holds(u)'
      BY <2>1, <2>5, <1>d DEF Goto, callVars, Holds
    <3> QED
      BY <2>5, <3>1, HandedOn DEF callVars
  <2> QED
    BY <1>6, <2>2, <2>3, <2>4, <2>5 DEF Lookup
<1>7. ASSUME NEW t \in Thread, Insert(t) PROVE Kept(c)' \/ SecondFirstRequest(c)
  <2>1. PICK k \in IF op[t] \in Connects THEN NewTokens ELSE {key[t]} :
          store' = [store EXCEPT ![k] = [conn |-> conn[t], last |-> now]]
    BY <1>7 DEF Insert
  <2>2. k \in Key /\ conn[t] \in Conn /\ pc[t] = "insert" /\ victim[t] = None
    BY <1>7, <2>1, <1>v DEF Insert, CallInv, NewTokens, VictimAtClose
  <2>3. /\ store'[k] # None /\ store'[k].conn = conn[t]
        /\ \A j \in Key \ {k} : store'[j] = store[j]
    BY <2>1, <2>2, <1>d, SessionParts DEF TypeOK
  <2>4. \A u \in Thread \ {t} : pc'[u] = pc[u] /\ conn'[u] = conn[u] /\ victim'[u] = victim[u] /\ after'[u] = after[u]
    BY <1>7, <1>d DEF Insert, Return, Goto, callVars
  <2>5. \A u \in Thread : Holds(u) /\ conn[u] = c =>
           (Holds(u)' /\ conn'[u] = c) \/ \E j \in Key : store'[j] # None /\ store'[j].conn = c
    BY <2>2, <2>3, <2>4 DEF Holds
  <2>6. \A u \in Thread : victim[u] = c => victim'[u] = c
    BY <2>2, <2>4, <1>c
  <2>7. CASE store[k] # None /\ store[k].conn = c
    <3>1. op[t] \notin Connects
      BY <2>1, <2>7 DEF NewTokens, Stored
    <3>2. k = key[t] /\ op[t] = "context" /\ controlPlane
      BY <1>7, <2>1, <3>1 DEF Insert, CallInv, EndingInv, ModeInv, TypeOK, Op
    <3>3. pc'[t] = "touch"
      BY <1>7, <3>1, <1>d DEF Insert, Goto
    <3> QED
      BY <2>2, <2>7, <3>2, <3>3 DEF SecondFirstRequest
  <2>8. CASE ~(store[k] # None /\ store[k].conn = c)
    BY <2>3, <2>5, <2>6, <2>8, HandedOn
  <2> QED
    BY <2>7, <2>8
<1>8. ASSUME NEW t \in Thread, Touch(t) PROVE Kept(c)'
  <2>1. key[t] \in Key /\ conn' = conn /\ victim' = victim
    BY <1>8 DEF Touch, CallInv, callVars
  <2>2. \A k \in Key : store[k] # None => store'[k] # None /\ store'[k].conn = store[k].conn
    BY <1>8, <2>1, <1>d, SessionParts DEF Touch, Touched, TypeOK
  <2>3. \A u \in Thread : Holds(u) => Holds(u)'
    BY <1>8, <1>d DEF Touch, Goto, callVars, Holds
  <2> QED
    BY <2>1, <2>2, <2>3, HandedOn
<1>9. ASSUME NEW t \in Thread, Serve(t) PROVE Kept(c)'
  <2>1. pc[t] = "serve" /\ ~Holds(t)
    BY <1>9 DEF Serve, Holds
  <2>2. CASE Return(t) /\ UNCHANGED store
    BY <2>1, <2>2, <1>c, <1>v, ReturnLosesNone
  <2>3. CASE op[t] = "disconnect" /\ Pop(t, key[t], conn[t], "idle") /\ UNCHANGED conn
    <3>1. key[t] \in Key
      BY <2>1, <2>3 DEF CallInv
    <3>2. store[key[t]] # None => store[key[t]].conn = conn[t]
      BY <2>1, <2>3 DEF EndingInv, TokenIsKept
    <3>3. \A u \in Thread : Holds(u) => Holds(u)' /\ conn'[u] = conn[u]
      BY <2>1, <2>3, <1>d DEF Pop, Goto, Holds
    <3>4. victim' = [victim EXCEPT ![t] = victim'[t]] /\ victim'[t] = conn[t]
      BY <2>3, <1>d DEF Pop
    <3>5. store' = [store EXCEPT ![key[t]] = None]
      BY <2>3 DEF Pop
    <3> QED
      BY <2>1, <3>1, <3>2, <3>3, <3>4, <3>5, <1>c, <1>v, PopHandsOn
  <2> QED
    BY <1>9, <2>2, <2>3 DEF Serve
<1>10. ASSUME NEW t \in Thread, Close(t) PROVE Kept(c)' \/ c \notin open'
  <2>1. CASE victim[t] = c
    BY <1>10, <2>1 DEF Close
  <2>2. CASE victim[t] # c
    <3>1. store' = store /\ \A u \in Thread \ {t} : victim'[u] = victim[u]
      BY <1>10, <1>d DEF Close, Return
    <3>2. \A u \in Thread : Holds(u) => Holds(u)' /\ conn'[u] = conn[u]
      <4>1. CASE after[t] = "idle" /\ Return(t)
        BY <1>10, <4>1, <1>d DEF Close, Return, Goto, Holds
      <4>2. CASE after[t] # "idle" /\ Goto(t, after[t]) /\ UNCHANGED conn /\ after' = [after EXCEPT ![t] = "idle"]
        BY <1>10, <4>2, <1>d DEF Close, Goto, Holds, CallInv
      <4> QED
        BY <1>10, <4>1, <4>2 DEF Close
    <3> QED
      BY <2>2, <3>1, <3>2, HandedOn
  <2> QED
    BY <2>1, <2>2
<1>11. ASSUME NEW t \in Thread, CheckCredential(t) PROVE Kept(c)' \/ FailedCheck(c)
  <2>1. pc[t] = "check" /\ victim[t] = None
    BY <1>11, <1>v DEF CheckCredential, VictimAtClose
  <2>2. CASE Goto(t, "scan") /\ UNCHANGED <<op, callVars>>
    <3>1. \A u \in Thread : Holds(u) => Holds(u)'
      BY <2>1, <2>2, <1>d DEF Goto, callVars, Holds
    <3> QED
      BY <1>11, <2>2, <3>1, HandedOn DEF CheckCredential, callVars
  <2>3. CASE op[t] # "platform" /\ Return(t)
    <3>1. CASE conn[t] = c
      BY <2>1, <2>3, <3>1, <1>d DEF Return, Goto, FailedCheck
    <3>2. CASE conn[t] # c
      BY <1>11, <2>1, <2>3, <3>2, <1>c, <1>v, ReturnLosesNone DEF CheckCredential
    <3> QED
      BY <3>1, <3>2
  <2>4. CASE /\ Goto(t, "close") /\ victim' = [victim EXCEPT ![t] = conn[t]]
             /\ UNCHANGED <<op, key, conn, size, todo, after>>
    <3>1. CASE conn[t] = c
      BY <2>4, <3>1, <1>d DEF Kept
    <3>2. CASE conn[t] # c
      <4>1. store' = store /\ conn' = conn
        BY <1>11, <2>4 DEF CheckCredential
      <4>2. \A u \in Thread : victim[u] = c => victim'[u] = c
        BY <2>1, <2>4, <1>c, <1>d
      <4>3. \A u \in Thread : Holds(u) /\ conn[u] = c => Holds(u)'
        BY <2>4, <3>2, <4>1, <1>d DEF Goto, Holds
      <4> QED
        BY <4>1, <4>2, <4>3, HandedOn
    <3> QED
      BY <3>1, <3>2
  <2> QED
    BY <1>11, <2>2, <2>3, <2>4 DEF CheckCredential
<1>12. CASE Tick \/ UNCHANGED vars
  <2>1. UNCHANGED <<store, pc, conn, victim, after>>
    BY <1>12 DEF Tick, vars, callVars
  <2> QED
    BY <2>1, HandedOn DEF Holds
<1> QED
  BY <1>1, <1>2, <1>3, <1>4, <1>5, <1>6, <1>7, <1>8, <1>9, <1>10, <1>11, <1>12 DEF Next, Step

----------------------------------------------------------------------------
(* Counting *)

LEMMA Finite ==
  /\ IsFiniteSet(Stored) /\ Cardinality(Stored) \in Nat
  /\ IsFiniteSet(Inserting) /\ Cardinality(Inserting) \in Nat
  /\ Cardinality(Thread) \in Nat
  BY KeysAreFinite, ThreadsAreFinite, FS_Subset, FS_CardinalityType DEF Stored, Inserting

LEMMA FinitePrimed ==
  /\ IsFiniteSet(Stored') /\ Cardinality(Stored)' \in Nat
  /\ IsFiniteSet(Inserting') /\ Cardinality(Inserting)' \in Nat
  BY KeysAreFinite, ThreadsAreFinite, FS_Subset, FS_CardinalityType DEF Stored, Inserting

(* A step that stores nothing and goes nowhere near an insertion. *)
LEMMA CountFalls ==
  ASSUME CountInv, Stored' \subseteq Stored, Inserting' \subseteq Inserting
  PROVE  CountInv'
<1>1. Cardinality(Stored)' <= Cardinality(Stored)
  BY Finite, FS_Subset
<1>2. Cardinality(Inserting)' <= Cardinality(Inserting)
  BY Finite, FS_Subset
<1> QED
  BY <1>1, <1>2, Finite, FinitePrimed, StoreBounds DEF CountInv

LEMMA CountStep == TypeOK /\ CallInv /\ CountInv /\ [Next]_vars => CountInv'
<1> SUFFICES ASSUME TypeOK, CallInv, CountInv, [Next]_vars PROVE CountInv'
  OBVIOUS
<1>1. ASSUME NEW t \in Thread, Evict(t) PROVE CountInv'
  <2>1. Stored' = Stored
    BY <1>1 DEF Evict, Stored
  <2>2. CASE HasRoom
    <3>1. Inserting \subseteq Thread \ {t} /\ Inserting' \subseteq Inserting \cup {t}
      BY <1>1 DEF Evict, Goto, Inserting, TypeOK
    <3>2. IsFiniteSet(Thread \ {t}) /\ Cardinality(Thread \ {t}) = Cardinality(Thread) - 1
      BY ThreadsAreFinite, FS_RemoveElement
    <3>3. Cardinality(Inserting) <= Cardinality(Thread) - 1
      BY <3>1, <3>2, FS_Subset
    <3>4. t \notin Inserting
      BY <3>1
    <3>5. IsFiniteSet(Inserting \cup {t}) /\ Cardinality(Inserting \cup {t}) = Cardinality(Inserting) + 1
      BY <3>4, Finite, FS_AddElement
    <3>6. Cardinality(Inserting)' <= Cardinality(Inserting) + 1
      BY <3>1, <3>5, FS_Subset
    <3>7. Cardinality(Stored)' < MaxSessions
      BY <2>1, <2>2 DEF HasRoom
    <3> QED
      BY <3>3, <3>6, <3>7, Finite, FinitePrimed, StoreBounds DEF CountInv
  <2>3. CASE ~HasRoom
    <3>1. Inserting' \subseteq Inserting
      BY <1>1, <2>3 DEF Evict, Goto, Inserting, TypeOK
    <3> QED
      BY <2>1, <3>1, CountFalls
  <2> QED
    BY <2>2, <2>3
<1>2. ASSUME NEW t \in Thread, Insert(t) PROVE CountInv'
  <2>1. PICK k \in IF op[t] \in Connects THEN NewTokens ELSE {key[t]} :
          store' = [store EXCEPT ![k] = [conn |-> conn[t], last |-> now]]
    BY <1>2 DEF Insert
  <2>2. Stored' \subseteq Stored \cup {k}
    BY <2>1 DEF Stored, TypeOK
  <2>3. Cardinality(Stored)' <= Cardinality(Stored) + 1
    <3>1. IsFiniteSet(Stored \cup {k}) /\ Cardinality(Stored \cup {k}) <= Cardinality(Stored) + 1
      <4>1. CASE k \in Stored
        <5>1. Stored \cup {k} = Stored
          BY <4>1
        <5>2. IsFiniteSet(Stored \cup {k}) /\ Cardinality(Stored \cup {k}) = Cardinality(Stored)
          BY ONLY <5>1, Finite, Zenon
        <5> QED
          BY <5>2, Finite
      <4>2. CASE k \notin Stored
        <5>1. IsFiniteSet(Stored \cup {k}) /\ Cardinality(Stored \cup {k}) = Cardinality(Stored) + 1
          BY <4>2, Finite, FS_AddElement
        <5> QED
          BY <5>1, Finite
      <4> QED
        BY <4>1, <4>2
    <3> QED
      BY <2>2, <3>1, Finite, FinitePrimed, FS_Subset, FS_CardinalityType
  <2>4. t \in Inserting /\ Inserting' \subseteq Inserting \ {t}
    BY <1>2 DEF Insert, Return, Goto, Inserting, TypeOK
  <2>5. Cardinality(Inserting)' <= Cardinality(Inserting) - 1
    <3>1. IsFiniteSet(Inserting \ {t}) /\ Cardinality(Inserting \ {t}) = Cardinality(Inserting) - 1
      BY <2>4, Finite, FS_RemoveElement
    <3> QED
      BY <2>4, <3>1, FS_Subset
  <2> QED
    BY <2>3, <2>5, Finite, FinitePrimed, StoreBounds DEF CountInv
<1>3. ASSUME NEW t \in Thread, Touch(t) PROVE CountInv'
  <2>1. key[t] \in Key
    BY <1>3 DEF Touch, CallInv
  <2>2. Stored' \subseteq Stored
    BY <1>3, <2>1, SessionParts DEF Touch, Touched, Stored, TypeOK
  <2>3. Inserting' \subseteq Inserting
    BY <1>3 DEF Touch, Goto, Inserting, TypeOK
  <2> QED
    BY <2>2, <2>3, CountFalls
<1>4. ASSUME NEW t \in Thread,
             \/ Start(t) \/ Dial(t) \/ CheckCredential(t) \/ ScanStart(t)
             \/ ScanRaises(t) \/ ScanEnd(t) \/ Pruned(t)
      PROVE CountInv'
  <2>1. Stored' \subseteq Stored
    BY <1>4 DEF Start, Dial, CheckCredential, ScanStart, ScanRaises, ScanEnd, Pruned, Stored
  <2>2. Inserting' \subseteq Inserting
    BY <1>4
    DEF Start, Dial, CheckCredential, ScanStart, ScanRaises, ScanEnd, Pruned, Return, Goto,
       Inserting, TypeOK
  <2> QED
    BY <2>1, <2>2, CountFalls
<1>5. ASSUME NEW t \in Thread,
             Prune(t) \/ Lookup(t) \/ Choose(t) \/ Serve(t) \/ Close(t)
      PROVE CountInv'
  <2>1. Stored' \subseteq Stored
    BY <1>5 DEF Prune, Lookup, Choose, Serve, Close, Pop, Stored, TypeOK
  <2>2. Inserting' \subseteq Inserting
    BY <1>5
    DEF Prune, Lookup, Choose, Serve, Close, Return, Pop, Goto, Inserting, CallInv, TypeOK
  <2> QED
    BY <2>1, <2>2, CountFalls
<1>6. CASE Tick \/ UNCHANGED vars
  BY <1>6, CountFalls DEF Tick, vars, callVars, Stored, Inserting
<1> QED
  BY <1>1, <1>2, <1>3, <1>4, <1>5, <1>6 DEF Next, Step

----------------------------------------------------------------------------
(* The table's state has the type the model gives it, and a thread is at a *)
(* label only with what that label needs (security.py, connect.py).        *)
LEMMA CallsHold == Spec => [](TypeOK /\ CallInv)
<1>1. Init => TypeOK /\ CallInv
  BY DEF Init, TypeOK, CallInv, Label, Op
<1>2. TypeOK /\ CallInv /\ [Next]_vars => TypeOK' /\ CallInv'
  BY TypeStep, CallStep
<1> QED
  BY <1>1, <1>2, PTL DEF Spec

THEOREM TypeCorrect == Spec => []TypeOK
  BY CallsHold, PTL

(* However threads prune, evict, expire, replace and disconnect, a session *)
(* that can be looked up has an open client.                               *)
THEOREM StoredIsAlwaysOpen == Spec => []StoredIsOpen
<1>1. Init => ClientInv
  BY
  DEF Init, ClientInv, StoredIsOpen, HeldIsOwn, StoredOnce, VictimIsGone, DisconnectsOwn,
     Holds, Stored
<1>2. ClientInv => StoredIsOpen
  BY DEF ClientInv
<1> QED
  BY <1>1, <1>2, ClientStep, CallsHold, PTL DEF Spec

(* The unlocked table outgrows MAX_SESSIONS by less than the number of     *)
(* threads: each is past the size check with at most one session.          *)
THEOREM SessionsStayBounded == Spec => []SessionsBounded
<1>1. Init => CountInv
  <2> SUFFICES ASSUME Init PROVE CountInv
    OBVIOUS
  <2>1. Stored = {} /\ Inserting = {}
    BY DEF Init, Stored, Inserting
  <2>2. Cardinality(Stored) = 0 /\ Cardinality(Inserting) = 0
    BY <2>1, FS_EmptySet
  <2> QED
    BY <2>2, Finite, StoreBounds DEF CountInv
<1>2. CountInv => SessionsBounded
  BY Finite, StoreBounds DEF CountInv, SessionsBounded
<1> QED
  BY <1>1, <1>2, CountStep, CallsHold, PTL DEF Spec

(* Every open client is still somebody's to close, except after the failed *)
(* check and the two races that NoClientIsLost names: evictions, expiries  *)
(* and disconnects that cut in on one another lose none.                   *)
THEOREM ClientsAreNotLost == Spec => NoClientIsLost
<1>1. Init => EndingInv
  BY DEF Init, EndingInv, ModeInv, VictimAtClose, TokenIsKept, Connects
<1>2. TypeOK /\ CallInv /\ EndingInv /\ [Next]_vars => EndingInv'
  BY ModeStep, VictimStep, TokenStep DEF EndingInv
<1>3. ASSUME TypeOK, CallInv, EndingInv, [Next]_vars
      PROVE  [\A c \in open : Kept(c) /\ ~Kept(c)' =>
              c \notin open' \/ FailedCheck(c) \/ ScanRaisedOver(c) \/ SecondFirstRequest(c)]_vars
  BY <1>3, NoneIsLostStep
<1> QED
  BY <1>1, <1>2, <1>3, CallsHold, PTL DEF Spec, NoClientIsLost
=============================================================================
