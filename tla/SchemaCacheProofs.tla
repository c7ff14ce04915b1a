------------------------- MODULE SchemaCacheProofs -------------------------
(***************************************************************************)
(* Proofs about SchemaCache, for any number of threads, versions, releases *)
(* and ticks of the clock.                                                 *)
(***************************************************************************)
EXTENDS SchemaCache, TLAPS

(* The labels at which a thread holds an entry. *)
HoldingLabels == {"fill", "evict", "put", "store", "compare", "clock", "restamp", "touch",
                  "recount"}

HoldsAnEntry == \A t \in Thread : pc[t] \in HoldingLabels => held[t] # None

(* An entry is honest when the structure it describes existed no earlier   *)
(* than the one whose fingerprint it carries.                              *)
Honest(e) == e.shape <= live.shape /\ (e.dbShape # None => e.dbShape <= e.shape)

HonestCopies ==
    /\ l1 # None => Honest(l1)
    /\ l2 # None => Honest(l2)
    /\ \A t \in Thread : held[t] # None => Honest(held[t])

(* What a thread may still read is no older than the fingerprint it took.  *)
FingerprintsFirst ==
    \A t \in Thread : \A s \in seen[t] :
        s <= live.shape /\ (fp[t].shape # None => fp[t].shape <= s)

(* A recount is for a mapping whose structure was found unchanged.         *)
RecountsUnchanged ==
    \A t \in Thread : pc[t] = "recount" => fp[t].shape = held[t].dbShape

EvictsExpired == \A t \in Thread : pc[t] = "evict" => IsExpired(held[t])

(* What a thread is about to put was built by the release that runs.       *)
PutsOwnAnalysis == \A t \in Thread : pc[t] = "put" => held[t].producer = release

DriftInv == HonestCopies /\ FingerprintsFirst /\ RecountsUnchanged
SlotInv == PutsOwnAnalysis /\ EvictsExpired

----------------------------------------------------------------------------
(* Type correctness.  HoldsAnEntry is part of it: what FillL1, StoreL2 and *)
(* Touch write is a field of the entry the thread holds.                   *)

TypeInv == TypeOK /\ HoldsAnEntry

(* What the caller of _lookup does next, by operation; it evicts only an   *)
(* entry it found expired.                                                 *)
LEMMA ContinuationIs ==
    ASSUME NEW o \in Op, NEW e
    PROVE  /\ Continuation(o, e) \in {"idle", "fingerprint", "evict", "compare"}
           /\ Continuation(o, e) \in {"evict", "compare"} => e # None
           /\ Continuation(o, e) = "evict" => IsExpired(e)
  BY DEF Continuation, Op

(* A lookup's answer leaves the thread's variables in their types.         *)
LEMMA FoundTyped ==
    ASSUME TypeInv, NEW t \in Thread, NEW o \in Op,
           NEW e \in Stored \cup {None}, Found(t, o, e)
    PROVE  /\ pc' \in [Thread -> Label] /\ op' \in [Thread -> Op]
           /\ held' \in [Thread -> Stored \cup {None}]
           /\ fp' = fp /\ seen' = seen
           /\ \A u \in Thread : pc'[u] \in HoldingLabels => held'[u] # None
<1> DEFINE next == Continuation(o, e)
<1>1. next \in {"idle", "fingerprint", "evict", "compare"}
      /\ (next \in {"evict", "compare"} => e # None)
  BY ContinuationIs
<1>2. /\ pc' = [pc EXCEPT ![t] = next] /\ op' = [op EXCEPT ![t] = "peek"]
      /\ held' = [held EXCEPT ![t] = IF next \in {"evict", "compare"} THEN e ELSE None]
      /\ fp' = fp /\ seen' = seen
  BY DEF Found
<1> HIDE DEF next
<1> QED
  BY <1>1, <1>2 DEF TypeInv, TypeOK, HoldsAnEntry, Label, Op, HoldingLabels

(* put and a recount build an entry from the fingerprints and the clock.   *)
LEMMA NewEntryTyped ==
    ASSUME TypeInv, NEW t \in Thread, NEW s \in Nat
    PROVE  /\ NewEntry(t, s) \in Stored /\ NewEntry(t, s) # None
           /\ NewEntry(t, s).shape = s /\ NewEntry(t, s).dbShape = fp[t].shape
           /\ NewEntry(t, s).producer = release
<1>1. fp[t].shape \in Nat \cup {None} /\ fp[t].counts \in Nat \cup {None}
      /\ now \in Nat /\ release \in Nat
  BY DEF TypeInv, TypeOK, Fingerprints
<1> QED
  BY <1>1, NoneIsNothing DEF NewEntry, Stored

(* revalidated and touch change the stamp and the counts fingerprint only. *)
LEMMA RestampedTyped ==
    ASSUME NEW e \in Stored, NEW c \in Nat \cup {None}, NEW when \in Nat
    PROVE  /\ Restamped(e, c, when) \in Stored /\ Restamped(e, c, when) # None
           /\ Restamped(e, c, when).shape = e.shape
           /\ Restamped(e, c, when).dbShape = e.dbShape
           /\ Restamped(e, c, when).producer = e.producer
           /\ Restamped(e, c, when).stamp = when
           /\ Restamped(e, c, when).dbCounts = c
  BY NoneIsNothing DEF Restamped, Stored

(* Every variable keeps its type, and a thread past a lookup holds the     *)
(* entry it works on.                                                      *)
LEMMA TypeInvHolds == Spec => []TypeInv
<1>1. Init => TypeInv
  BY DEF Init, TypeInv, TypeOK, HoldsAnEntry, HoldingLabels, Database, Stored, Label, Op,
         EarlierDocument, Fingerprints, NoFingerprints
<1>2. TypeInv /\ [Next]_vars => TypeInv'
  <2> SUFFICES ASSUME TypeInv, [Next]_vars PROVE TypeInv'
    OBVIOUS
  <2> USE DEF TypeInv, TypeOK, HoldsAnEntry
  <2>a. ASSUME NEW t \in Thread, NEW e \in Stored, e # None, Put(t, e) PROVE TypeInv'
    BY <2>a DEF Put, Forget, Label, HoldingLabels, Fingerprints, NoFingerprints
  <2>1. ASSUME NEW t \in Thread, NEW o \in LookupsOf(t), Lookup(t, o) PROVE TypeInv'
    <3>1. o \in Op
      BY DEF LookupsOf, Op
    <3>2. CASE l1 # None /\ Found(t, o, l1)
      <4> HIDE DEF TypeInv
      <4> QED BY <2>1, <3>1, <3>2, FoundTyped DEF Lookup, TypeInv
    <3>3. CASE l1 = None
      BY <2>1, <3>1, <3>3 DEF Lookup, Label, Op, HoldingLabels
    <3> QED BY <2>1, <3>2, <3>3 DEF Lookup
  <2>2. ASSUME NEW t \in Thread, LockHydration(t) PROVE TypeInv'
    <3>1. CASE l1 # None /\ Found(t, op[t], l1) /\ UNCHANGED hydrating
      BY <2>2, <3>1, FoundTyped DEF LockHydration
    <3>2. CASE l1 = None
      BY <2>2, <3>2 DEF LockHydration, Goto, Label, HoldingLabels
    <3> QED BY <2>2, <3>1, <3>2 DEF LockHydration
  <2>3. ASSUME NEW t \in Thread, ReadL2(t) PROVE TypeInv'
    <3>1. CASE hydrating' = None /\ Found(t, op[t], None)
      BY <2>3, <3>1, FoundTyped DEF ReadL2
    <3>2. CASE l2 # None /\ held' = [held EXCEPT ![t] = l2] /\ Goto(t, "fill") /\ UNCHANGED hydrating
      BY <2>3, <3>2 DEF ReadL2, Goto, Label, HoldingLabels
    <3> QED BY <2>3, <3>1, <3>2 DEF ReadL2
  <2>4. ASSUME NEW t \in Thread, FillL1(t) PROVE TypeInv'
    <3>1. FillSlot(held[t]) \in Stored \cup {None}
      BY DEF FillSlot
    <3> QED BY <2>4, <3>1, FoundTyped DEF FillL1
  <2>5. ASSUME NEW t \in Thread, EvictExpired(t) PROVE TypeInv'
    BY <2>5 DEF EvictExpired, AfterEvict, Goto, Label, HoldingLabels
  <2>6. ASSUME NEW t \in Thread, StartBuild(t) PROVE TypeInv'
    BY <2>6 DEF StartBuild, Goto, Label, HoldingLabels
  <2>7. ASSUME NEW t \in Thread, Fingerprint(t) PROVE TypeInv'
    BY <2>7 DEF Fingerprint, TakeFingerprints, MaybeNone, Fingerprints, Database, Label, HoldingLabels
  <2>8. ASSUME NEW t \in Thread, Analyze(t) PROVE TypeInv'
    <3>1. PICK s \in seen[t] : Put(t, NewEntry(t, s))
      BY <2>8 DEF Analyze
    <3>2. NewEntry(t, s) \in Stored /\ NewEntry(t, s) # None
      BY NewEntryTyped
    <3> QED BY <3>1, <3>2, <2>a
  <2>9. ASSUME NEW t \in Thread, AnalyzeFails(t) PROVE TypeInv'
    BY <2>9 DEF AnalyzeFails, Return, Forget, Label, HoldingLabels, Fingerprints, NoFingerprints
  <2>10. ASSUME NEW t \in Thread, StoreL2(t) PROVE TypeInv'
    BY <2>10 DEF StoreL2, Return, Forget, Label, HoldingLabels, Fingerprints, NoFingerprints
  <2>11. ASSUME NEW t \in Thread, Compare(t) PROVE TypeInv'
    <3>1. AnswerTo(Drift(held[t], fp'[t])) \in {"analyze", "recount", "clock"}
      BY DEF AnswerTo, Drift
    <3>2. held[t] # None
      BY <2>11 DEF Compare, HoldingLabels
    <3>3. fp' \in [Thread -> Fingerprints] /\ seen' \in [Thread -> SUBSET Nat]
      BY <2>11 DEF Compare, TakeFingerprints, MaybeNone, Fingerprints, Database
    <3> QED BY <2>11, <3>1, <3>2, <3>3 DEF Compare, Label, HoldingLabels
  <2>12. ASSUME NEW t \in Thread, Restamp(t) PROVE TypeInv'
    <3>1. CASE l1 = None
      <4>1. Return(t) /\ UNCHANGED <<l1, live, now, release, l2, hydrating>>
        BY <2>12, <3>1 DEF Restamp
      <4> QED BY <4>1 DEF Return, Forget, Label, HoldingLabels, Fingerprints, NoFingerprints
    <3>2. CASE l1 # None
      <4>1. held[t] \in Stored
        BY <2>12 DEF Restamp, HoldingLabels
      <4>a. held[t].dbCounts \in Nat \cup {None} /\ held[t].stamp \in Nat
        BY <4>1 DEF Stored
      <4>2. l1' = Restamped(l1, held[t].dbCounts, held[t].stamp)
        BY <2>12, <3>2 DEF Restamp
      <4>3. l1' \in Stored /\ l1' # None
        BY <3>2, <4>a, <4>2, RestampedTyped
      <4> QED BY <2>12, <3>2, <4>3 DEF Restamp, Goto, Label, HoldingLabels
    <3> QED BY <3>1, <3>2
  <2>13. ASSUME NEW t \in Thread, Touch(t) PROVE TypeInv'
    <3>1. held[t] \in Stored
      BY <2>13 DEF Touch, HoldingLabels
    <3>2. held[t].dbCounts \in Nat \cup {None} /\ held[t].stamp \in Nat
      BY <3>1 DEF Stored
    <3>3. l2' = l2 \/ (l2 # None /\ l2' = Restamped(l2, held[t].dbCounts, held[t].stamp))
      BY <2>13 DEF Touch
    <3>4. l2' \in Stored \cup {None}
      <4>1. CASE l2' = l2
        BY <4>1
      <4>2. CASE l2 # None /\ l2' = Restamped(l2, held[t].dbCounts, held[t].stamp)
        <5>1. l2 \in Stored
          BY <4>2
        <5> QED BY <3>2, <4>2, <5>1, RestampedTyped
      <4> QED BY <3>3, <4>1, <4>2
    <3> QED BY <2>13, <3>4 DEF Touch, Return, Forget, Label, HoldingLabels, Fingerprints, NoFingerprints
  <2>14. ASSUME NEW t \in Thread, Recount(t) PROVE TypeInv'
    <3>1. held[t] \in Stored
      BY <2>14 DEF Recount, HoldingLabels
    <3>2. held[t].shape \in Nat
      BY <3>1 DEF Stored
    <3>3. NewEntry(t, held[t].shape) \in Stored /\ NewEntry(t, held[t].shape) # None
      BY <3>2, NewEntryTyped
    <3> QED BY <2>14, <3>3, <2>a DEF Recount
  <2>15. ASSUME NEW t \in Thread, Invalidate(t) PROVE TypeInv'
    BY <2>15 DEF Invalidate, Goto, Label, HoldingLabels
  <2>16. ASSUME NEW t \in Thread, DropL2(t) PROVE TypeInv'
    BY <2>16 DEF DropL2, Return, Forget, Label, HoldingLabels, Fingerprints, NoFingerprints
  <2>21. ASSUME NEW t \in Thread, PutL1(t) PROVE TypeInv'
    BY <2>21 DEF PutL1, Goto, Label, HoldingLabels
  <2>22. ASSUME NEW t \in Thread, ReadClock(t) PROVE TypeInv'
    <3>1. held[t] \in Stored /\ fp[t].counts \in Nat \cup {None}
      BY <2>22 DEF ReadClock, HoldingLabels, Fingerprints
    <3>2. PICK e \in Stored : e # None /\ held' = [held EXCEPT ![t] = e]
      BY <2>22, <3>1, RestampedTyped DEF ReadClock
    <3> QED BY <2>22, <3>2 DEF ReadClock, Forget, Label, HoldingLabels, Fingerprints,
                               NoFingerprints
  <2>17. CASE LiveChange
    <3>1. live' \in Database /\ live'.shape \in Nat
      BY <2>17, BoundsAreNumbers DEF LiveChange, Database
    <3> QED BY <2>17, <3>1 DEF LiveChange
  <2>18. CASE Tick
    BY <2>18 DEF Tick, threadVars
  <2>19. CASE Restart
    BY <2>19 DEF Restart, Label, Op, HoldingLabels, Fingerprints, NoFingerprints
  <2>20. CASE UNCHANGED vars
    BY <2>20 DEF vars
  <2> QED
    BY <2>1, <2>2, <2>3, <2>4, <2>5, <2>6, <2>7, <2>8, <2>9, <2>10, <2>11, <2>12, <2>13,
       <2>14, <2>15, <2>16, <2>17, <2>18, <2>19, <2>20, <2>21, <2>22 DEF Next, Step
<1>3. QED
  BY <1>1, <1>2, PTL DEF Spec

(* The cache, the document and the threads keep their types.               *)
THEOREM TypeCorrect == Spec => []TypeOK
<1>1. TypeInv => TypeOK
  BY DEF TypeInv
<1> QED BY <1>1, TypeInvHolds, PTL

----------------------------------------------------------------------------
(* No silent drift, when the database never returns to a structure it had: *)
(* the fingerprint an entry carries is then no newer than its bundle, and  *)
(* its bundle no newer than the database.                                  *)

(* One thread's step leaves the database alone; what it puts into L1, L2   *)
(* or its own hands is honest, so every copy still is.                     *)
LEMMA HonestStep ==
    ASSUME TypeInv, DriftInv, NEW t \in Thread, live' = live,
           l1' = None \/ Honest(l1'), l2' = None \/ Honest(l2'),
           NEW h, h = None \/ Honest(h), held' = [held EXCEPT ![t] = h]
    PROVE  HonestCopies'
  BY DEF TypeInv, TypeOK, DriftInv, HonestCopies, Honest

(* A thread keeps only an entry that L1, L2 or its own hands already held. *)
LEMMA FoundHolds ==
    ASSUME NEW t \in Thread, NEW o \in Op, NEW e, Found(t, o, e)
    PROVE  \E h \in {None, e} :
              /\ held' = [held EXCEPT ![t] = h]
              /\ \E p \in {"idle", "fingerprint", "evict", "compare"} : 
                    /\ pc' = [pc EXCEPT ![t] = p]
                    /\ p = "evict" => h = e /\ IsExpired(e)
              /\ fp' = fp /\ seen' = seen
  BY ContinuationIs DEF Found

(* For a database that never returns to an earlier structure, no cached    *)
(* bundle's fingerprint vouches for a structure it does not describe.      *)
THEOREM DriftIsCaught == ASSUME ~ShapesRecur PROVE Spec => []NoSilentDrift
<1>1. Init => DriftInv
  BY DEF Init, DriftInv, HonestCopies, Honest, FingerprintsFirst, RecountsUnchanged, EarlierDocument
<1>2. TypeInv /\ TypeInv' /\ DriftInv /\ [Next]_vars => DriftInv'
  <2> SUFFICES ASSUME TypeInv, TypeInv', DriftInv, [Next]_vars PROVE DriftInv'
    OBVIOUS
  <2>0. ASSUME NEW t \in Thread, NEW o \in Op, NEW e, Found(t, o, e),
               live' = live, l2' = l2, l1' = None \/ Honest(l1'), e = None \/ Honest(e)
        PROVE  DriftInv'
    <3>1. PICK h \in {None, e} :
              /\ held' = [held EXCEPT ![t] = h]
              /\ \E p \in {"idle", "fingerprint", "evict", "compare"} : 
                    /\ pc' = [pc EXCEPT ![t] = p]
              /\ fp' = fp /\ seen' = seen
      BY <2>0, FoundHolds
    <3>2. PICK p \in {"idle", "fingerprint", "evict", "compare"} : pc' = [pc EXCEPT ![t] = p]
      BY <3>1
    <3>3. l2' = None \/ Honest(l2')
      BY <2>0 DEF DriftInv, HonestCopies
    <3>4. HonestCopies'
      BY <2>0, <3>1, <3>3, HonestStep
    <3>5. FingerprintsFirst'
      BY <2>0, <3>1 DEF DriftInv, FingerprintsFirst
    <3>6. RecountsUnchanged'
      BY <3>1, <3>2 DEF DriftInv, RecountsUnchanged, TypeInv, TypeOK
    <3> QED BY <3>4, <3>5, <3>6 DEF DriftInv
  <2>a. /\ l1 = None \/ Honest(l1)
        /\ l2 = None \/ Honest(l2)
        /\ \A t \in Thread : held[t] = None \/ Honest(held[t])
    BY DEF DriftInv, HonestCopies
  <2>b. ASSUME NEW t \in Thread, Goto(t, "hydrate") \/ Goto(t, "read_l2") \/ Goto(t, "fill")
                   \/ Goto(t, "fingerprint") \/ Goto(t, "store") \/ Goto(t, "touch"),
               NEW h, held' = [held EXCEPT ![t] = h], live' = live
        PROVE  FingerprintsFirst' /\ RecountsUnchanged'
    BY <2>b DEF DriftInv, FingerprintsFirst, RecountsUnchanged, Goto, TypeInv, TypeOK
  <2>c. ASSUME NEW t \in Thread, Return(t), l1' = l1 \/ l1' = None \/ Honest(l1'),
               l2' = l2 \/ l2' = None \/ Honest(l2'), live' = live
        PROVE  DriftInv'
    <3>1. HonestCopies'
      BY <2>a, <2>c DEF HonestCopies, Honest, Return, TypeInv, TypeOK
    <3>2. FingerprintsFirst' /\ RecountsUnchanged'
      BY <2>c DEF DriftInv, FingerprintsFirst, RecountsUnchanged, Return, Forget, TypeInv, TypeOK
    <3> QED BY <3>1, <3>2 DEF DriftInv
  <2>d. ASSUME NEW t \in Thread, NEW e, Put(t, e), Honest(e)
        PROVE  DriftInv'
    <3>1. HonestCopies'
      BY <2>a, <2>d DEF HonestCopies, Honest, Put, TypeInv, TypeOK
    <3>2. FingerprintsFirst' /\ RecountsUnchanged'
      BY <2>d DEF DriftInv, FingerprintsFirst, RecountsUnchanged, Put, Forget, TypeInv, TypeOK
    <3> QED BY <3>1, <3>2 DEF DriftInv
  <2>1. ASSUME NEW t \in Thread, NEW o \in LookupsOf(t), Lookup(t, o) PROVE DriftInv'
    <3>1. o \in Op
      BY DEF LookupsOf, Op
    <3>2. CASE l1 # None /\ Found(t, o, l1)
      BY <2>1, <3>1, <3>2, <2>0, <2>a DEF Lookup, Honest
    <3>3. CASE l1 = None
      BY <2>1, <3>3 DEF Lookup, DriftInv, HonestCopies, Honest, FingerprintsFirst,
                        RecountsUnchanged, TypeInv, TypeOK
    <3> QED BY <2>1, <3>2, <3>3 DEF Lookup
  <2>2. ASSUME NEW t \in Thread, LockHydration(t) PROVE DriftInv'
    <3>1. CASE l1 # None /\ Found(t, op[t], l1) /\ UNCHANGED hydrating
      BY <2>2, <3>1, <2>0, <2>a DEF LockHydration, Honest, TypeInv, TypeOK
    <3>2. CASE l1 = None
      BY <2>2, <3>2 DEF LockHydration, Goto, DriftInv, HonestCopies, Honest,
                        FingerprintsFirst, RecountsUnchanged, TypeInv, TypeOK
    <3> QED BY <2>2, <3>1, <3>2 DEF LockHydration
  <2>3. ASSUME NEW t \in Thread, ReadL2(t) PROVE DriftInv'
    <3>1. CASE hydrating' = None /\ Found(t, op[t], None)
      BY <2>3, <3>1, <2>0, <2>a DEF ReadL2, Honest, TypeInv, TypeOK
    <3>2. CASE held' = [held EXCEPT ![t] = l2] /\ Goto(t, "fill")
      <4>1. HonestCopies'
        BY <2>3, <3>2, <2>a, HonestStep DEF ReadL2, Honest
      <4> QED BY <2>3, <3>2, <4>1, <2>b DEF ReadL2, DriftInv
    <3> QED BY <2>3, <3>1, <3>2 DEF ReadL2
  <2>4. ASSUME NEW t \in Thread, FillL1(t) PROVE DriftInv'
    <3>1. FillSlot(held[t]) = None \/ Honest(FillSlot(held[t]))
      BY <2>a DEF FillSlot
    <3> QED BY <2>4, <3>1, <2>0 DEF FillL1, Honest, TypeInv, TypeOK
  <2>5. ASSUME NEW t \in Thread, EvictExpired(t) PROVE DriftInv'
    <3>1. HonestCopies'
      BY <2>5, <2>a, HonestStep DEF EvictExpired, AfterEvict, Honest
    <3> QED BY <2>5, <3>1, <2>b DEF EvictExpired, DriftInv
  <2>6. ASSUME NEW t \in Thread, StartBuild(t) PROVE DriftInv'
    BY <2>6 DEF StartBuild, Goto, DriftInv, HonestCopies, Honest, FingerprintsFirst,
                RecountsUnchanged, TypeInv, TypeOK
  <2>7. ASSUME NEW t \in Thread, TakeFingerprints(t), live' = live
        PROVE  FingerprintsFirst'
    BY <2>7 DEF TakeFingerprints, MaybeNone, DriftInv, FingerprintsFirst, TypeInv, TypeOK,
                Database, Fingerprints
  <2>8. ASSUME NEW t \in Thread, Fingerprint(t) PROVE DriftInv'
    <3>1. HonestCopies' /\ RecountsUnchanged'
      BY <2>8 DEF Fingerprint, TakeFingerprints, DriftInv, HonestCopies, Honest,
                  RecountsUnchanged, TypeInv, TypeOK
    <3> QED BY <2>8, <2>7, <3>1 DEF Fingerprint, DriftInv
  <2>9. ASSUME NEW t \in Thread, Analyze(t) PROVE DriftInv'
    <3>1. PICK s \in seen[t] : Put(t, NewEntry(t, s))
      BY <2>9 DEF Analyze
    <3>2. s \in Nat
      BY DEF TypeInv, TypeOK
    <3>3. s <= live.shape /\ (fp[t].shape # None => fp[t].shape <= s)
      BY DEF DriftInv, FingerprintsFirst
    <3>4. Honest(NewEntry(t, s))
      BY <3>2, <3>3, NewEntryTyped DEF Honest
    <3> QED BY <3>1, <3>4, <2>d
  <2>10. ASSUME NEW t \in Thread, AnalyzeFails(t) PROVE DriftInv'
    BY <2>10, <2>c DEF AnalyzeFails
  <2>11. ASSUME NEW t \in Thread, StoreL2(t) PROVE DriftInv'
    BY <2>11, <2>a, <2>c DEF StoreL2, Honest
  <2>12. ASSUME NEW t \in Thread, Compare(t) PROVE DriftInv'
    <3>1. HonestCopies'
      BY <2>12 DEF Compare, DriftInv, HonestCopies, Honest
    <3>2. ASSUME pc'[t] = "recount" PROVE fp'[t].shape = held[t].dbShape
      BY <2>12, <3>2 DEF Compare, AnswerTo, Drift, TypeInv, TypeOK
    <3>3. \A u \in Thread : u # t => pc'[u] = pc[u] /\ fp'[u] = fp[u]
      BY <2>12 DEF Compare, TakeFingerprints, TypeInv, TypeOK
    <3>4. RecountsUnchanged'
      BY <2>12, <3>2, <3>3 DEF Compare, DriftInv, RecountsUnchanged
    <3> QED BY <2>12, <2>7, <3>1, <3>4 DEF Compare, DriftInv
  <2>13. ASSUME NEW t \in Thread, Restamp(t) PROVE DriftInv'
    <3>1. CASE l1 = None /\ Return(t)
      BY <2>13, <3>1, <2>c DEF Restamp
    <3>2. CASE l1 # None /\ l1' = Restamped(l1, held[t].dbCounts, held[t].stamp)
               /\ held' = [held EXCEPT ![t] = l1'] /\ Goto(t, "touch")
      <4>1. l1 \in Stored /\ held[t] \in Stored
        BY <2>13, <3>2 DEF Restamp, HoldingLabels, TypeInv, TypeOK, HoldsAnEntry
      <4>a. held[t].dbCounts \in Nat \cup {None} /\ held[t].stamp \in Nat
        BY <4>1 DEF Stored
      <4>2. l1'.shape = l1.shape /\ l1'.dbShape = l1.dbShape
        BY <3>2, <4>1, <4>a, RestampedTyped
      <4>3. Honest(l1') /\ live' = live /\ l2' = l2
        BY <2>13, <3>2, <4>2, <2>a DEF Restamp, Honest
      <4>4. HonestCopies'
        BY <3>2, <4>3, <2>a, HonestStep DEF Honest
      <4> QED BY <3>2, <4>3, <4>4, <2>b DEF DriftInv
    <3> QED BY <2>13, <3>1, <3>2 DEF Restamp
  <2>23. ASSUME NEW t \in Thread, PutL1(t) PROVE DriftInv'
    <3>1. held[t] # None
      BY <2>23 DEF PutL1, HoldingLabels, TypeInv, HoldsAnEntry
    <3>2. Honest(l1') /\ live' = live /\ l2' = l2 /\ held' = held
      BY <2>23, <2>a, <3>1 DEF PutL1, Honest
    <3>3. HonestCopies'
      BY <3>2, <2>a DEF HonestCopies, Honest
    <3>4. FingerprintsFirst' /\ RecountsUnchanged'
      BY <2>23, <3>2 DEF PutL1, Goto, DriftInv, FingerprintsFirst, RecountsUnchanged, TypeInv,
                         TypeOK
    <3> QED BY <3>3, <3>4 DEF DriftInv
  <2>24. ASSUME NEW t \in Thread, ReadClock(t) PROVE DriftInv'
    <3>1. held[t] \in Stored /\ held[t] # None
      BY <2>24 DEF ReadClock, HoldingLabels, TypeInv, TypeOK, HoldsAnEntry
    <3>2. fp[t].counts \in Nat \cup {None} /\ now \in Nat
      BY DEF TypeInv, TypeOK, Fingerprints
    <3>a. Honest(held[t])
      BY <3>1, <2>a
    <3>b. /\ Restamped(held[t], fp[t].counts, now).shape = held[t].shape
          /\ Restamped(held[t], fp[t].counts, now).dbShape = held[t].dbShape
      BY <3>1 DEF Restamped, Stored
    <3>3. Honest(Restamped(held[t], fp[t].counts, now))
      BY <3>a, <3>b DEF Honest
    <3>4. HonestCopies'
      BY <2>24, <3>3, <2>a, HonestStep DEF ReadClock, Honest
    <3>5. FingerprintsFirst' /\ RecountsUnchanged'
      BY <2>24 DEF ReadClock, Forget, DriftInv, FingerprintsFirst, RecountsUnchanged, TypeInv,
                   TypeOK
    <3> QED BY <3>4, <3>5 DEF DriftInv
  <2>14. ASSUME NEW t \in Thread, Touch(t) PROVE DriftInv'
    <3>1. held[t] \in Stored
      BY <2>14 DEF Touch, HoldingLabels, TypeInv, TypeOK, HoldsAnEntry
    <3>2. held[t].dbCounts \in Nat \cup {None} /\ held[t].stamp \in Nat
      BY <3>1 DEF Stored
    <3>3. CASE l2 # None /\ l2' = Restamped(l2, held[t].dbCounts, held[t].stamp)
      <4>1. l2 \in Stored
        BY <3>3 DEF TypeInv, TypeOK
      <4>2. LET r == Restamped(l2, held[t].dbCounts, held[t].stamp)
            IN  r.shape = l2.shape /\ r.dbShape = l2.dbShape
        BY <3>2, <4>1, RestampedTyped
      <4>3. Honest(l2')
        BY <2>14, <3>3, <4>2, <2>a DEF Touch, Honest
      <4> QED BY <2>14, <4>3, <2>c DEF Touch
    <3> QED BY <2>14, <3>3, <2>c DEF Touch
  <2>15. ASSUME NEW t \in Thread, Recount(t) PROVE DriftInv'
    <3>1. held[t] \in Stored /\ held[t] # None
      BY <2>15 DEF Recount, HoldingLabels, TypeInv, TypeOK, HoldsAnEntry
    <3>2. held[t].shape \in Nat
      BY <3>1 DEF Stored
    <3>3. Honest(held[t]) /\ fp[t].shape = held[t].dbShape
      BY <2>15, <2>a, <3>1 DEF Recount, DriftInv, RecountsUnchanged
    <3>4. Honest(NewEntry(t, held[t].shape))
      BY <3>2, <3>3, NewEntryTyped DEF Honest
    <3> QED BY <2>15, <3>4, <2>d DEF Recount
  <2>16. ASSUME NEW t \in Thread, Invalidate(t) PROVE DriftInv'
    BY <2>16 DEF Invalidate, Goto, DriftInv, HonestCopies, Honest, FingerprintsFirst,
                 RecountsUnchanged, TypeInv, TypeOK
  <2>17. ASSUME NEW t \in Thread, DropL2(t) PROVE DriftInv'
    BY <2>17, <2>c DEF DropL2
  <2>18. CASE LiveChange
    <3>1. live'.shape >= live.shape /\ live'.shape \in Nat /\ live.shape \in Nat
      BY <2>18, BoundsAreNumbers DEF LiveChange, Later, TypeInv, TypeOK, Database
    <3>2. HonestCopies'
      BY <2>18, <3>1, <2>a DEF LiveChange, HonestCopies, Honest, TypeInv, TypeOK, Stored
    <3>3. FingerprintsFirst'
      <4> SUFFICES ASSUME NEW t \in Thread, NEW d \in seen'[t]
                   PROVE  d <= live'.shape /\ (fp[t].shape # None => fp[t].shape <= d)
        BY <2>18 DEF LiveChange, FingerprintsFirst
      <4>1. seen[t] # {} /\ seen'[t] = seen[t] \cup {live'.shape}
        BY <2>18 DEF LiveChange
      <4>2. PICK e \in seen[t] : TRUE
        BY <4>1
      <4>3. /\ e <= live.shape /\ (fp[t].shape # None => fp[t].shape <= e)
            /\ e \in Nat /\ fp[t].shape \in Nat \cup {None}
        BY <4>2 DEF DriftInv, FingerprintsFirst, TypeInv, TypeOK, Database, Fingerprints
      <4>4. CASE d = live'.shape
        BY <3>1, <4>3, <4>4
      <4>5. CASE d \in seen[t]
        <5>1. d \in Nat /\ d <= live.shape /\ (fp[t].shape # None => fp[t].shape <= d)
          BY <4>5 DEF DriftInv, FingerprintsFirst, TypeInv, TypeOK, Database
        <5> QED BY <3>1, <5>1
      <4> QED BY <4>1, <4>4, <4>5
    <3>4. RecountsUnchanged'
      BY <2>18 DEF LiveChange, DriftInv, RecountsUnchanged
    <3> QED BY <3>2, <3>3, <3>4 DEF DriftInv
  <2>19. CASE Tick
    BY <2>19 DEF Tick, threadVars, DriftInv, HonestCopies, Honest, FingerprintsFirst,
                 RecountsUnchanged
  <2>20. CASE Restart
    BY <2>20 DEF Restart, DriftInv, HonestCopies, Honest, FingerprintsFirst, RecountsUnchanged
  <2>21. CASE UNCHANGED vars
    BY <2>21 DEF vars, DriftInv, HonestCopies, Honest, FingerprintsFirst, RecountsUnchanged
  <2>22. ASSUME NEW t \in Thread, Step(t) PROVE DriftInv'
    BY <2>22, <2>1, <2>2, <2>3, <2>4, <2>5, <2>6, <2>8, <2>9, <2>10, <2>11, <2>12, <2>13,
       <2>14, <2>15, <2>16, <2>17, <2>23, <2>24 DEF Step
  <2> QED
    BY <2>18, <2>19, <2>20, <2>21, <2>22 DEF Next
<1>3. TypeInv /\ DriftInv => NoSilentDrift
  <2> SUFFICES ASSUME TypeInv, DriftInv, NEW e \in Copies, e.dbShape = live.shape
               PROVE  e.shape = live.shape
    BY DEF NoSilentDrift
  <2>1. e \in Stored /\ Honest(e)
    BY DEF Copies, TypeInv, TypeOK, DriftInv, HonestCopies
  <2>2. live.shape \in Nat /\ e.shape \in Nat
    BY <2>1 DEF TypeInv, TypeOK, Database, Stored
  <2> QED
    BY <2>1, <2>2, NoneIsNothing DEF Honest
<1>4. QED
  BY <1>1, <1>2, <1>3, TypeInvHolds, PTL DEF Spec

----------------------------------------------------------------------------
(* One hydration at a time: the lock's holder is the thread between its    *)
(* acquisition and its release.                                            *)
THEOREM HydrationIsShared == Spec => []OneHydration
<1>1. Init => OneHydration
  BY NoneIsNothing DEF Init, OneHydration
<1>2. TypeInv /\ OneHydration /\ [Next]_vars => OneHydration'
  <2> SUFFICES ASSUME TypeInv, OneHydration, [Next]_vars PROVE OneHydration'
    OBVIOUS
  <2> USE DEF TypeInv, TypeOK, OneHydration
  <2>0. ASSUME NEW t \in Thread, NEW o \in Op, NEW e, Found(t, o, e),
               \/ hydrating # t /\ hydrating' = hydrating
               \/ hydrating = t /\ hydrating' = None
        PROVE  OneHydration'
    <3>1. PICK p \in {"idle", "fingerprint", "evict", "compare"} : pc' = [pc EXCEPT ![t] = p]
      BY <2>0, FoundHolds
    <3> QED BY <2>0, <3>1, NoneIsNothing
  <2>1. ASSUME NEW t \in Thread, NEW o \in LookupsOf(t), Lookup(t, o) PROVE OneHydration'
    <3>1. o \in Op
      BY DEF LookupsOf, Op
    <3>2. hydrating # t /\ hydrating' = hydrating
      BY <2>1 DEF Lookup
    <3>3. CASE Found(t, o, l1)
      <4> HIDE DEF OneHydration
      <4> QED BY <2>0, <3>1, <3>2, <3>3
    <3>4. CASE pc' = [pc EXCEPT ![t] = "hydrate"]
      BY <3>2, <3>4
    <3> QED BY <2>1, <3>3, <3>4 DEF Lookup
  <2>2. ASSUME NEW t \in Thread, LockHydration(t) PROVE OneHydration'
    BY <2>0, <2>2, NoneIsNothing DEF LockHydration, Goto
  <2>3. ASSUME NEW t \in Thread, ReadL2(t) PROVE OneHydration'
    BY <2>0, <2>3 DEF ReadL2, Goto
  <2>4. ASSUME NEW t \in Thread, FillL1(t) PROVE OneHydration'
    BY <2>0, <2>4 DEF FillL1
  <2>5. ASSUME NEW t \in Thread, pc[t] \notin {"read_l2", "fill"}, hydrating' = hydrating,
               NEW p \in Label \ {"read_l2", "fill"}, pc' = [pc EXCEPT ![t] = p]
        PROVE  OneHydration'
    BY <2>5
  <2>6. ASSUME NEW t \in Thread,
               \/ EvictExpired(t) \/ StartBuild(t) \/ Fingerprint(t) \/ Analyze(t)
               \/ AnalyzeFails(t) \/ PutL1(t) \/ StoreL2(t) \/ ReadClock(t) \/ Restamp(t)
               \/ Touch(t) \/ Recount(t) \/ Invalidate(t) \/ DropL2(t)
        PROVE  OneHydration'
    BY <2>5, <2>6 DEF EvictExpired, StartBuild, Fingerprint, Analyze, AnalyzeFails, PutL1,
       StoreL2, ReadClock, Restamp, Touch, Recount, Invalidate, DropL2, Put, Return, Goto, Label
  <2>7. ASSUME NEW t \in Thread, Compare(t) PROVE OneHydration'
    <3>1. AnswerTo(Drift(held[t], fp'[t])) \in {"analyze", "recount", "clock"}
      BY DEF AnswerTo, Drift
    <3> QED BY <2>5, <2>7, <3>1 DEF Compare, Label
  <2>8. CASE Restart
    BY <2>8, NoneIsNothing DEF Restart
  <2>9. CASE LiveChange \/ Tick \/ UNCHANGED vars
    BY <2>9 DEF LiveChange, Tick, threadVars, vars
  <2> QED
    BY <2>1, <2>2, <2>3, <2>4, <2>6, <2>7, <2>8, <2>9 DEF Next, Step
<1>3. QED
  BY <1>1, <1>2, TypeInvHolds, PTL DEF Spec

----------------------------------------------------------------------------
(* What is put was built by the release that runs, since a restart drops   *)
(* what the threads hold; an entry a thread is about to evict was expired  *)
(* when it was read, and stays so.                                         *)
THEOREM SlotInvariant == Spec => []SlotInv
<1>1. Init => SlotInv
  BY DEF Init, SlotInv, PutsOwnAnalysis, EvictsExpired
<1>2. TypeInv /\ SlotInv /\ [Next]_vars => SlotInv'
  <2> SUFFICES ASSUME TypeInv, SlotInv, [Next]_vars PROVE SlotInv'
    OBVIOUS
  (* A step of a thread that neither puts nor evicts next.                 *)
  <2>a. ASSUME NEW t \in Thread, now' = now, release' = release, NEW h,
               held' = [held EXCEPT ![t] = h], NEW p, pc' = [pc EXCEPT ![t] = p],
               p = "evict" => IsExpired(h), p = "put" => h.producer = release
        PROVE  SlotInv'
    <3>1. PutsOwnAnalysis'
      BY <2>a DEF SlotInv, PutsOwnAnalysis, TypeInv, TypeOK
    <3>2. EvictsExpired'
      BY <2>a DEF SlotInv, EvictsExpired, IsExpired, TypeInv, TypeOK
    <3> QED BY <3>1, <3>2 DEF SlotInv
  <2>b. ASSUME NEW t \in Thread, NEW p \in Label \ {"evict", "put"}, now' = now,
               release' = release, held' = held, pc' = [pc EXCEPT ![t] = p]
        PROVE  SlotInv'
    <3>1. held' = [held EXCEPT ![t] = held[t]]
      BY <2>b DEF TypeInv, TypeOK
    <3> QED BY <2>a, <2>b, <3>1
  <2>c. ASSUME NEW t \in Thread, NEW o \in Op, NEW e, Found(t, o, e), now' = now,
               release' = release
        PROVE  SlotInv'
    <3>1. PICK h \in {None, e} :
              /\ held' = [held EXCEPT ![t] = h]
              /\ \E p \in {"idle", "fingerprint", "evict", "compare"} :
                    /\ pc' = [pc EXCEPT ![t] = p]
                    /\ p = "evict" => h = e /\ IsExpired(e)
      BY <2>c, FoundHolds
    <3>2. PICK p \in {"idle", "fingerprint", "evict", "compare"} :
              pc' = [pc EXCEPT ![t] = p] /\ (p = "evict" => h = e /\ IsExpired(e))
      BY <3>1
    <3> QED BY <2>a, <2>c, <3>1, <3>2
  <2>d. ASSUME NEW t \in Thread, NEW s \in Nat, Put(t, NewEntry(t, s)) PROVE SlotInv'
    <3>1. NewEntry(t, s).producer = release
      BY NewEntryTyped
    <3> QED BY <2>a, <2>d, <3>1 DEF Put
  <2>1. ASSUME NEW t \in Thread, NEW o \in LookupsOf(t), Lookup(t, o) PROVE SlotInv'
    <3>1. o \in Op
      BY DEF LookupsOf, Op
    <3> QED BY <2>1, <3>1, <2>b, <2>c DEF Lookup, Label
  <2>2. ASSUME NEW t \in Thread, LockHydration(t) PROVE SlotInv'
    BY <2>2, <2>b, <2>c DEF LockHydration, Goto, Label, TypeInv, TypeOK
  <2>3. ASSUME NEW t \in Thread, ReadL2(t) PROVE SlotInv'
    BY <2>3, <2>a, <2>c DEF ReadL2, Goto, TypeInv, TypeOK
  <2>4. ASSUME NEW t \in Thread, FillL1(t) PROVE SlotInv'
    BY <2>4, <2>c DEF FillL1, TypeInv, TypeOK
  <2>5. ASSUME NEW t \in Thread, EvictExpired(t) PROVE SlotInv'
    BY <2>5, <2>a DEF EvictExpired, Goto
  <2>6. ASSUME NEW t \in Thread, StartBuild(t) \/ Fingerprint(t) \/ PutL1(t) \/ Invalidate(t)
        PROVE  SlotInv'
    BY <2>6, <2>b DEF StartBuild, Fingerprint, PutL1, Invalidate, Goto, Label
  <2>7. ASSUME NEW t \in Thread, Analyze(t) PROVE SlotInv'
    BY <2>7, <2>d DEF Analyze, TypeInv, TypeOK
  <2>8. ASSUME NEW t \in Thread, AnalyzeFails(t) \/ StoreL2(t) \/ Touch(t) \/ DropL2(t)
        PROVE  SlotInv'
    BY <2>8, <2>a DEF AnalyzeFails, StoreL2, Touch, DropL2, Return
  <2>9. ASSUME NEW t \in Thread, Compare(t) PROVE SlotInv'
    <3>1. AnswerTo(Drift(held[t], fp'[t])) \in {"analyze", "recount", "clock"}
      BY DEF AnswerTo, Drift
    <3> QED BY <2>b, <2>9, <3>1 DEF Compare, Label
  <2>10. ASSUME NEW t \in Thread, ReadClock(t) \/ Restamp(t) PROVE SlotInv'
    BY <2>10, <2>a DEF ReadClock, Restamp, Return, Goto
  <2>11. ASSUME NEW t \in Thread, Recount(t) PROVE SlotInv'
    <3>1. held[t] \in Stored
      BY <2>11 DEF Recount, HoldingLabels, TypeInv, TypeOK, HoldsAnEntry
    <3>2. held[t].shape \in Nat
      BY <3>1 DEF Stored
    <3> QED BY <2>11, <2>d, <3>2 DEF Recount
  <2>12. CASE Tick
    <3>1. ASSUME NEW t \in Thread, pc[t] = "evict" PROVE IsExpired(held[t])'
      <4>1. IsExpired(held[t]) /\ held[t] \in Stored
        BY <3>1 DEF SlotInv, EvictsExpired, TypeInv, TypeOK, HoldsAnEntry, HoldingLabels
      <4>2. held[t].stamp \in Nat /\ Ttl \in Nat /\ now \in Nat /\ now' = now + 1
        BY <2>12, <4>1, BoundsAreNumbers DEF Tick, Stored, TypeInv, TypeOK
      <4> QED BY <2>12, <4>1, <4>2 DEF Tick, threadVars, IsExpired
    <3> QED BY <2>12, <3>1 DEF Tick, threadVars, SlotInv, PutsOwnAnalysis, EvictsExpired
  <2>13. CASE Restart
    BY <2>13 DEF Restart, SlotInv, PutsOwnAnalysis, EvictsExpired
  <2>14. CASE LiveChange \/ UNCHANGED vars
    BY <2>14 DEF LiveChange, vars, SlotInv, PutsOwnAnalysis, EvictsExpired, IsExpired
  <2>15. ASSUME NEW t \in Thread, Step(t) PROVE SlotInv'
    BY <2>15, <2>1, <2>2, <2>3, <2>4, <2>5, <2>6, <2>7, <2>8, <2>9, <2>10, <2>11 DEF Step
  <2> QED
    BY <2>12, <2>13, <2>14, <2>15 DEF Next
<1>3. QED
  BY <1>1, <1>2, TypeInvHolds, PTL DEF Spec

(* An entry this release built is replaced only by one it built or by      *)
(* itself re-stamped, whatever was read from L2 in the meantime.           *)
THEOREM OwnAnalysisIsKept == Spec => OwnAnalysisStays
<1> DEFINE Stays == l1 # None /\ l1' # None /\ l1.producer = release /\ release' = release
                    => l1'.producer = release
<1>1. TypeInv /\ SlotInv /\ [Next]_vars => [Stays]_vars
  <2> SUFFICES ASSUME TypeInv, SlotInv, Next, l1 # None, l1' # None, l1.producer = release
               PROVE  l1'.producer = release
    OBVIOUS
  <2>1. ASSUME NEW t \in Thread, PutL1(t) PROVE l1'.producer = release
    BY <2>1 DEF PutL1, SlotInv, PutsOwnAnalysis
  <2>2. ASSUME NEW t \in Thread, Restamp(t) PROVE l1'.producer = release
    <3>1. l1 \in Stored /\ held[t] \in Stored
      BY <2>2 DEF Restamp, HoldingLabels, TypeInv, TypeOK, HoldsAnEntry
    <3>2. held[t].dbCounts \in Nat \cup {None} /\ held[t].stamp \in Nat
      BY <3>1 DEF Stored
    <3>3. l1' = Restamped(l1, held[t].dbCounts, held[t].stamp)
      BY <2>2 DEF Restamp
    <3> QED BY <3>1, <3>2, <3>3, RestampedTyped
  <2>3. ASSUME NEW t \in Thread, Step(t) PROVE l1' = l1 \/ l1'.producer = release
    BY <2>1, <2>2, <2>3 DEF Step, Lookup, LockHydration, ReadL2, FillL1, FillSlot,
       EvictExpired, AfterEvict, StartBuild, Fingerprint, Analyze, AnalyzeFails, StoreL2,
       Compare, ReadClock, Recount, Put, Touch, Invalidate, DropL2
  <2>4. CASE LiveChange \/ Tick \/ Restart
    BY <2>4 DEF LiveChange, Tick, Restart
  <2> QED
    BY <2>3, <2>4 DEF Next
<1>2. QED
  BY <1>1, TypeInvHolds, SlotInvariant, PTL DEF Spec, OwnAnalysisStays

(* get evicts an expired entry or nothing.                                 *)
THEOREM EvictionIsOfExpired == Spec => EvictsOnlyExpired
<1> DEFINE Evicts == \A t \in Thread :
              pc[t] = "evict" /\ pc'[t] = "fingerprint" /\ l1 # None /\ l1' = None
              => IsExpired(l1)
<1>1. TypeInv /\ SlotInv /\ [Next]_vars => [Evicts]_vars
  <2> SUFFICES ASSUME TypeInv, SlotInv, Next, NEW t \in Thread, pc[t] = "evict",
                      pc'[t] = "fingerprint", l1 # None, l1' = None
               PROVE  IsExpired(l1)
    OBVIOUS
  <2>1. ASSUME NEW u \in Thread, u # t, Step(u) PROVE FALSE
    <3>1. \A o, e : Found(u, o, e) => pc'[t] = pc[t]
      BY <2>1 DEF Found, TypeInv, TypeOK
    <3>2. pc'[t] = pc[t]
      BY <2>1, <3>1 DEF Step, Lookup, LockHydration, ReadL2, FillL1, EvictExpired, StartBuild,
         Fingerprint, Analyze, AnalyzeFails, PutL1, StoreL2, Compare, ReadClock, Restamp, Touch,
         Recount, Invalidate, DropL2, Put, Return, Goto, TypeInv, TypeOK
    <3> QED BY <3>2
  <2>2. CASE Step(t)
    <3>1. EvictExpired(t)
      BY <2>2 DEF Step, Lookup, LockHydration, ReadL2, FillL1, StartBuild, Fingerprint, Analyze,
         AnalyzeFails, PutL1, StoreL2, Compare, ReadClock, Restamp, Touch, Recount, Put,
         Invalidate, DropL2
    <3>2. l1 = held[t]
      BY <3>1 DEF EvictExpired, AfterEvict
    <3> QED BY <3>2 DEF SlotInv, EvictsExpired
  <2>3. CASE LiveChange \/ Tick \/ Restart
    BY <2>3 DEF LiveChange, Tick, Restart, threadVars
  <2> QED
    BY <2>1, <2>2, <2>3 DEF Next
<1>2. QED
  BY <1>1, TypeInvHolds, SlotInvariant, PTL DEF Spec, EvictsOnlyExpired
=============================================================================
