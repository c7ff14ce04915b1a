---------------------------- MODULE SessionStore ----------------------------
(***************************************************************************)
(* The session table of the service (service/security.py) and the requests *)
(* that open, use and end sessions (service/routes/connect.py).  The table *)
(* is a plain dict: request threads read and change it without a lock, so  *)
(* a thread may be suspended between any two of the steps below.           *)
(***************************************************************************)
EXTENDS Naturals, FiniteSets

CONSTANTS
    Thread,        \* request threads
    Key,           \* session tokens, or under a control plane the sessions' keys
    Conn,          \* python-arango clients
    None,          \* no session, no key, no client
    Ttl,           \* SESSION_TTL_SECONDS, in ticks
    MaxSessions,   \* MAX_SESSIONS
    MaxNow         \* bound on the clock

Session == [conn: Conn, last: Nat]

ASSUME NoneIsNothing == None \notin Session \cup Key \cup Conn
ASSUME ThreadsAreFinite == IsFiniteSet(Thread) /\ Thread # {}
ASSUME KeysAreFinite == IsFiniteSet(Key)
ASSUME StoreBounds == Ttl \in Nat /\ MaxSessions \in Nat \ {0} /\ MaxNow \in Nat

VARIABLES
    controlPlane,  \* control_plane.mode(): set by the deployment's environment
    now,     \* the clock
    store,   \* _sessions
    open,    \* the clients constructed and not closed
    pc, op,  \* per thread: where it is, and in which call
    key,     \* per thread: the key it looks up
    conn,    \* per thread: the client of the session it works with
    size,    \* per thread: the table's size when its scan began
    todo,    \* per thread: the keys its scan found expired
    victim,  \* per thread: the client of the session it just removed
    after    \* per thread: where it goes on once that client is closed

callVars == <<key, conn, size, todo, victim, after>>
vars == <<controlPlane, now, store, open, pc, op, callVars>>

Connects == {"connect", "platform"}  \* POST /connect, POST /connect/platform
Op == Connects \cup {"request", "disconnect", "context"}
Label == {"idle", "dial", "check", "scan", "scanning", "prune", "lookup", "evict", "choose",
          "insert", "touch", "serve", "close"}

TypeOK ==
    /\ controlPlane \in BOOLEAN /\ now \in Nat
    /\ store \in [Key -> Session \cup {None}] /\ open \subseteq Conn
    /\ pc \in [Thread -> Label] /\ op \in [Thread -> Op]
    /\ key \in [Thread -> Key \cup {None}] /\ conn \in [Thread -> Conn \cup {None}]
    /\ size \in [Thread -> Nat] /\ todo \in [Thread -> SUBSET Key]
    /\ victim \in [Thread -> Conn \cup {None}] /\ after \in [Thread -> Label]

Init ==
    /\ controlPlane \in BOOLEAN
    /\ now = 0 /\ store = [k \in Key |-> None] /\ open = {}
    /\ pc = [t \in Thread |-> "idle"] /\ op = [t \in Thread |-> "request"]
    /\ key = [t \in Thread |-> None] /\ conn = [t \in Thread |-> None]
    /\ size = [t \in Thread |-> 0] /\ todo = [t \in Thread |-> {}]
    /\ victim = [t \in Thread |-> None] /\ after = [t \in Thread |-> "idle"]

----------------------------------------------------------------------------
(* The table *)

Stored == {k \in Key : store[k] # None}

Expired(s) == now - s.last > Ttl

ExpiredKeys == {k \in Stored : Expired(store[k])}

LeastRecentlyUsed == {k \in Stored : \A j \in Stored : store[k].last <= store[j].last}

(* Tokens are random: a new one is none that is stored or in use. *)
NewTokens == Key \ (Stored \cup {key[t] : t \in Thread} \cup UNION {todo[t] : t \in Thread})

(* A client nobody refers to any more is collected, and so may be new.     *)
NewConns == Conn \ ({store[k].conn : k \in Stored}
                    \cup {conn[t] : t \in Thread} \cup {victim[t] : t \in Thread})

----------------------------------------------------------------------------
(* Steps of a call *)

Goto(t, label) == pc' = [pc EXCEPT ![t] = label]

(* The call ends, with an answer or an error. *)
Return(t) ==
    /\ Goto(t, "idle")
    /\ op' = [op EXCEPT ![t] = "request"]
    /\ key' = [key EXCEPT ![t] = None] /\ conn' = [conn EXCEPT ![t] = None]
    /\ size' = [size EXCEPT ![t] = 0] /\ todo' = [todo EXCEPT ![t] = {}]
    /\ victim' = [victim EXCEPT ![t] = None] /\ after' = [after EXCEPT ![t] = "idle"]

(* Mutant: a session that expired or disconnects is popped and not closed. *)
PopUnclosed(t, k, client, next) ==
    /\ store' = [store EXCEPT ![k] = None]
    /\ victim' = [victim EXCEPT ![t] = IF next = "idle" THEN None ELSE client]
    /\ after' = [after EXCEPT ![t] = next]
    /\ Goto(t, "close")

(* The session is popped, and its client closed by the next step. *)
Pop(t, k, client, next) ==
    /\ store' = [store EXCEPT ![k] = None]
    /\ victim' = [victim EXCEPT ![t] = client]
    /\ after' = [after EXCEPT ![t] = next]
    /\ Goto(t, "close")

Start(t) ==
    /\ pc[t] = "idle"
    /\ \/ /\ ~controlPlane
          /\ \E o \in Connects : op' = [op EXCEPT ![t] = o]
          /\ Goto(t, "dial") /\ UNCHANGED key
       \/ /\ \E o \in IF controlPlane THEN {"context"} ELSE {"request", "disconnect"} :
                op' = [op EXCEPT ![t] = o]
          /\ \E k \in Key : key' = [key EXCEPT ![t] = k]
          /\ Goto(t, "scan")
    /\ UNCHANGED <<now, store, open, conn, size, todo, victim, after>>

(* A client is constructed; a target that is refused, or whose client      *)
(* cannot be constructed, is answered with an error.                       *)
Dial(t) ==
    /\ pc[t] = "dial"
    /\ \/ Return(t) /\ UNCHANGED open
       \/ /\ \E c \in NewConns :
                conn' = [conn EXCEPT ![t] = c] /\ open' = open \cup {c}
          /\ Goto(t, "check")
          /\ UNCHANGED <<op, key, size, todo, victim, after>>
    /\ UNCHANGED <<now, store>>

(* The first call of the client checks the credential.  Only the platform  *)
(* login closes a client whose credential is refused.                      *)
CheckCredential(t) ==
    /\ pc[t] = "check"
    /\ \/ Goto(t, "scan") /\ UNCHANGED <<op, callVars>>
       \/ op[t] # "platform" /\ Return(t)
       \/ /\ op[t] = "platform" /\ Goto(t, "close")
          /\ victim' = [victim EXCEPT ![t] = conn[t]]
          /\ UNCHANGED <<op, key, conn, size, todo, after>>
    /\ UNCHANGED <<now, store, open>>

(* _prune_expired: the table is scanned; the scan raises when the table's  *)
(* size changes under it.                                                  *)
ScanStart(t) ==
    /\ pc[t] = "scan"
    /\ size' = [size EXCEPT ![t] = Cardinality(Stored)]
    /\ Goto(t, IF Stored = {} THEN "prune" ELSE "scanning")
    /\ UNCHANGED <<now, store, open, op, key, conn, todo, victim, after>>

SizeChanged(t) == size[t] # Cardinality(Stored)

ScanRaises(t) ==
    /\ pc[t] \in {"scanning", "choose"} /\ SizeChanged(t)
    /\ Return(t)
    /\ UNCHANGED <<now, store, open>>

ScanEnd(t) ==
    /\ pc[t] = "scanning" /\ ~SizeChanged(t)
    /\ todo' = [todo EXCEPT ![t] = ExpiredKeys]
    /\ Goto(t, "prune")
    /\ UNCHANGED <<now, store, open, op, key, conn, size, victim, after>>

(* The keys the scan found are popped one by one. *)
Prune(t) ==
    /\ pc[t] = "prune"
    /\ \E k \in todo[t] :
          /\ todo' = [todo EXCEPT ![t] = @ \ {k}]
          /\ \/ store[k] # None /\ Pop(t, k, store[k].conn, "prune")
             \/ store[k] = None /\ UNCHANGED <<store, pc, victim, after>>
    /\ UNCHANGED <<now, open, op, key, conn, size>>

(* A call that has a client to store goes on to _evict_lru's second half.  *)
Pruned(t) ==
    /\ pc[t] = "prune" /\ todo[t] = {}
    /\ Goto(t, IF conn[t] = None THEN "lookup" ELSE "evict")
    /\ UNCHANGED <<now, store, open, op, callVars>>

(* _get_session, _get_optional_session: 401 without a live session.  Under *)
(* a control plane a missing session is opened.                            *)
Lookup(t) ==
    /\ pc[t] = "lookup"
    /\ LET s == store[key[t]] IN
       \/ /\ s # None /\ (op[t] = "context" \/ ~Expired(s))
          /\ conn' = [conn EXCEPT ![t] = s.conn] /\ Goto(t, "touch")
          /\ UNCHANGED <<store, op, key, size, todo, victim, after>>
       \/ /\ s # None /\ op[t] # "context" /\ Expired(s)
          /\ Pop(t, key[t], s.conn, "idle")
          /\ UNCHANGED <<op, key, conn, size, todo>>
       \/ /\ s = None /\ op[t] # "context"
          /\ Return(t) /\ UNCHANGED store
       \/ /\ s = None /\ op[t] = "context"
          /\ Goto(t, "dial") /\ UNCHANGED <<store, op, callVars>>
    /\ UNCHANGED <<now, open>>

(* Mutant: off by one. *)
HasRoomForOneMore == Cardinality(Stored) <= MaxSessions

(* _evict_lru's loop. *)
HasRoom == Cardinality(Stored) < MaxSessions

Evict(t) ==
    /\ pc[t] = "evict"
    /\ Goto(t, IF HasRoom THEN "insert" ELSE "choose")
    /\ size' = [size EXCEPT ![t] = Cardinality(Stored)]
    /\ UNCHANGED <<now, store, open, op, key, conn, todo, victim, after>>

Choose(t) ==
    /\ pc[t] = "choose" /\ ~SizeChanged(t)
    /\ \E k \in LeastRecentlyUsed : Pop(t, k, store[k].conn, "evict")
    /\ UNCHANGED <<now, open, op, key, conn, size, todo>>

(* The new session, under a new token or under the context's key.          *)
Insert(t) ==
    /\ pc[t] = "insert"
    /\ \E k \in IF op[t] \in Connects THEN NewTokens ELSE {key[t]} :
          store' = [store EXCEPT ![k] = [conn |-> conn[t], last |-> now]]
    /\ \/ op[t] \in Connects /\ Return(t)
       \/ op[t] \notin Connects /\ Goto(t, "touch") /\ UNCHANGED <<op, callVars>>
    /\ UNCHANGED <<now, open>>

(* Mutant: the touched session is written back to the table. *)
TouchedAndKept(s, client) == [conn |-> client, last |-> now]

(* The session object is touched, whether or not it is still in the table. *)
Touched(s, client) == IF s # None /\ s.conn = client THEN [s EXCEPT !.last = now] ELSE s

Touch(t) ==
    /\ pc[t] = "touch"
    /\ store' = [store EXCEPT ![key[t]] = Touched(store[key[t]], conn[t])]
    /\ Goto(t, "serve")
    /\ UNCHANGED <<now, open, op, callVars>>

(* The request is served; a disconnect pops its session first. *)
Serve(t) ==
    /\ pc[t] = "serve"
    /\ \/ op[t] # "disconnect" /\ Return(t) /\ UNCHANGED store
       \/ /\ op[t] = "disconnect" /\ Pop(t, key[t], conn[t], "idle")
          /\ UNCHANGED <<op, key, conn, size, todo>>
    /\ UNCHANGED <<now, open>>

Close(t) ==
    /\ pc[t] = "close"
    /\ open' = open \ {victim[t]}
    /\ \/ after[t] = "idle" /\ Return(t)
       \/ /\ after[t] # "idle" /\ Goto(t, after[t])
          /\ victim' = [victim EXCEPT ![t] = None] /\ after' = [after EXCEPT ![t] = "idle"]
          /\ UNCHANGED <<op, key, conn, size, todo>>
    /\ UNCHANGED <<now, store>>

Tick ==
    /\ now < MaxNow /\ now' = now + 1
    /\ UNCHANGED <<store, open, pc, op, callVars>>

Step(t) ==
    \/ Start(t) \/ Dial(t) \/ CheckCredential(t) \/ ScanStart(t) \/ ScanRaises(t)
    \/ ScanEnd(t) \/ Prune(t) \/ Pruned(t) \/ Lookup(t) \/ Evict(t) \/ Choose(t) \/ Insert(t) \/ Touch(t)
    \/ Serve(t) \/ Close(t)

Next == ((\E t \in Thread : Step(t)) \/ Tick) /\ UNCHANGED controlPlane

Spec == Init /\ [][Next]_vars

----------------------------------------------------------------------------
(* Properties *)

(* A session that can still be looked up has an open client: whoever ends  *)
(* a session removes it before closing, and nobody closes another's.       *)
StoredIsOpen == \A k \in Stored : store[k].conn \in open

(* The table outgrows MAX_SESSIONS by less than the number of threads      *)
(* racing through _evict_lru's check.                                      *)
SessionsBounded == Cardinality(Stored) < MaxSessions + Cardinality(Thread)

(* The session a context opened is kept: no request replaces it            *)
(* (_control_plane_session).                                               *)
ContextSessionIsKept ==
    [][\A k \in Key : store[k] # None /\ store'[k] # None => store'[k].conn = store[k].conn]_vars

(* Looking up a session never raises, for a missing or an expired token    *)
(* (_get_optional_session).                                                *)
LookupNeverRaises ==
    [][\A t \in Thread : pc[t] = "scanning" /\ conn[t] = None => pc'[t] # "idle"]_vars

(* A thread holds the client it opened until it stores its session. *)
Holds(t) ==
    /\ conn[t] # None
    /\ \/ pc[t] \in {"check", "scan", "scanning", "prune", "evict", "choose", "insert"}
       \/ pc[t] = "close" /\ after[t] # "idle"

(* Somebody can still close the client: its session is in the table, or    *)
(* the thread that opened it has yet to store it, or one is closing it.    *)
Kept(c) ==
    \/ \E k \in Stored : store[k].conn = c
    \/ \E t \in Thread : Holds(t) /\ conn[t] = c
    \/ \E t \in Thread : victim[t] = c

(* _evict_lru raises on its way to storing the session of this client. *)
ScanRaisedOver(c) ==
    \E t \in Thread : Holds(t) /\ conn[t] = c /\ SizeChanged(t) /\ pc'[t] = "idle"

(* A second first request of one context stores its session over this one. *)
SecondFirstRequest(c) ==
    /\ controlPlane
    /\ \E t \in Thread : /\ pc[t] = "insert" /\ pc'[t] = "touch"
                        /\ store[key[t]] # None /\ store[key[t]].conn = c

(* /connect or a context's first request is answered with an error for the *)
(* credential, and leaves the client it constructed to nobody.             *)
FailedCheck(c) ==
    \E t \in Thread : /\ pc[t] = "check" /\ pc'[t] = "idle"
                      /\ conn[t] = c /\ op[t] # "platform"

(* Whatever threads prune, evict, expire and disconnect, no open client is *)
(* left that nobody will close, but by a failed credential check (connect, *)
(* _control_plane_session) and in two races: a scan that raises            *)
(* (_evict_lru), and two first requests of one context.                    *)
NoClientIsLost ==
    [][\A c \in open : Kept(c) /\ ~Kept(c)' =>
          c \notin open' \/ FailedCheck(c) \/ ScanRaisedOver(c) \/ SecondFirstRequest(c)]_vars
=============================================================================
