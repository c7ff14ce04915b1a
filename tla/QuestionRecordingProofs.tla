---------------------- MODULE QuestionRecordingProofs ----------------------
(***************************************************************************)
(* Proofs about QuestionRecording, for any number of threads, questions,   *)
(* remembered questions and ticks of the clock.                            *)
(***************************************************************************)
EXTENDS QuestionRecording, SequenceTheorems, TLAPS

(* The labels a thread reaches once its words have been vouched for. *)
VouchedLabels == {"check", "record", "note", "answer"}

OwnWords(q) == q.words # None => q \in earned

GeneratedIsEarned == ToSet(generated) \subseteq earned

RunsAreEarned ==
    \A t \in Thread :
       /\ pc[t] = "vouch" /\ ~run[t].client => OwnWords(run[t].asked)
       /\ pc[t] \in VouchedLabels => OwnWords(run[t].asked)

HistoryIsEarned == \A q \in Question : history[q] # Never => OwnWords(q)

WordsInv == GeneratedIsEarned /\ RunsAreEarned /\ HistoryIsEarned

(* A note names a time before which its question was recorded. *)
NotesAreHistory ==
    /\ now > 0
    /\ \A q \in Question : recent[q] <= history[q] /\ history[q] <= now
    /\ \A t \in Thread : clock[t] <= now
    /\ \A t \in Thread : pc[t] \in {"note", "answer"} => history[run[t].asked] # Never
    /\ \A t \in Thread : pc[t] = "note" => clock[t] <= history[run[t].asked]

----------------------------------------------------------------------------
(* Type correctness *)

(* A sequence's elements, by position. *)
LEMMA ElementsOf ==
    ASSUME NEW S, NEW seq \in Seq(S)
    PROVE  ToSet(seq) = {seq[i] : i \in 1..Len(seq)}
  BY DEF ToSet

(* Concatenation and cutting bring no element that was not there. *)
LEMMA ElementsOfConcat ==
    ASSUME NEW S, NEW s \in Seq(S), NEW u \in Seq(S)
    PROVE  s \o u \in Seq(S) /\ ToSet(s \o u) \subseteq ToSet(s) \cup ToSet(u)
<1> DEFINE r == s \o u
<1>1. /\ r \in Seq(S) /\ Len(r) = Len(s) + Len(u)
      /\ \A i \in 1..(Len(s) + Len(u)) : r[i] = IF i <= Len(s) THEN s[i] ELSE u[i - Len(s)]
  BY ConcatProperties
<1> HIDE DEF r
<1>2. ASSUME NEW i \in 1..Len(r) PROVE r[i] \in ToSet(s) \cup ToSet(u)
  <2>1. CASE i <= Len(s)
    <3>1. i \in 1..Len(s) /\ r[i] = s[i]
      BY <1>1, <2>1
    <3> QED
      BY <3>1, ElementsOf
  <2>2. CASE ~(i <= Len(s))
    <3>1. i - Len(s) \in 1..Len(u) /\ r[i] = u[i - Len(s)]
      BY <1>1, <2>2
    <3> QED
      BY <3>1, ElementsOf
  <2> QED
    BY <2>1, <2>2
<1>3. ToSet(r) = {r[i] : i \in 1..Len(r)}
  BY <1>1, ElementsOf
<1> QED
  BY <1>1, <1>2, <1>3 DEF r

LEMMA ElementsOfSubSeq ==
    ASSUME NEW S, NEW seq \in Seq(S),
           NEW m \in 1..(Len(seq) + 1), NEW n \in 0..Len(seq)
    PROVE  /\ SubSeq(seq, m, n) \in Seq(S)
           /\ Len(SubSeq(seq, m, n)) = IF m <= n THEN n - m + 1 ELSE 0
           /\ ToSet(SubSeq(seq, m, n)) \subseteq ToSet(seq)
<1> DEFINE r == SubSeq(seq, m, n)
<1>1. /\ r \in Seq(S) /\ Len(r) = IF m <= n THEN n - m + 1 ELSE 0
      /\ \A i \in 1..(n - m + 1) : r[i] = seq[m + i - 1]
  BY SubSeqProperties
<1> HIDE DEF r
<1>2. ASSUME NEW i \in 1..Len(r) PROVE r[i] \in ToSet(seq)
  <2>1. m + i - 1 \in 1..Len(seq) /\ r[i] = seq[m + i - 1]
    BY <1>1
  <2> QED
    BY <2>1, ElementsOf
<1>3. ToSet(r) = {r[i] : i \in 1..Len(r)}
  BY <1>1, ElementsOf
<1> QED
  BY <1>1, <1>2, <1>3 DEF r

(* Popping a question only drops. *)
LEMMA PoppedTyped ==
    ASSUME NEW S, NEW seq \in Seq(S), NEW q \in S
    PROVE  Popped(seq, q) \in Seq(S) /\ ToSet(Popped(seq, q)) \subseteq ToSet(seq)
<1>1. CASE q \in ToSet(seq)
  <2> DEFINE i == CHOOSE i \in DOMAIN seq : seq[i] = q
  <2>1. i \in 1..Len(seq)
    BY <1>1 DEF ToSet
  <2> DEFINE front == SubSeq(seq, 1, i - 1)
             back == SubSeq(seq, i + 1, Len(seq))
  <2>2. Popped(seq, q) = front \o back
    BY <1>1 DEF Popped, RemoveAt
  <2> HIDE DEF i
  <2>3. front \in Seq(S) /\ ToSet(front) \subseteq ToSet(seq)
    <3>1. 1 \in 1..(Len(seq) + 1) /\ i - 1 \in 0..Len(seq)
      BY <2>1
    <3> QED
      BY <3>1, ElementsOfSubSeq
  <2>4. back \in Seq(S) /\ ToSet(back) \subseteq ToSet(seq)
    <3>1. i + 1 \in 1..(Len(seq) + 1) /\ Len(seq) \in 0..Len(seq)
      BY <2>1
    <3> QED
      BY <3>1, ElementsOfSubSeq
  <2> HIDE DEF front, back
  <2>5. front \o back \in Seq(S) /\ ToSet(front \o back) \subseteq ToSet(front) \cup ToSet(back)
    BY <2>3, <2>4, ElementsOfConcat
  <2> QED
    BY <2>2, <2>3, <2>4, <2>5
<1>2. CASE q \notin ToSet(seq)
  BY <1>2 DEF Popped
<1> QED
  BY <1>1, <1>2

(* A remembered list holds no other questions than the list and the new    *)
(* one, and no more than Kept.                                             *)
LEMMA RememberedTyped ==
    ASSUME NEW S, NEW seq \in Seq(S), NEW q \in S
    PROVE  /\ Remembered(seq, q) \in Seq(S) /\ Len(Remembered(seq, q)) <= Kept
           /\ ToSet(Remembered(seq, q)) \subseteq ToSet(seq) \cup {q}
<1> DEFINE all == Append(Popped(seq, q), q)
           first == IF Len(all) > Kept THEN Len(all) - Kept + 1 ELSE 1
<1>1. /\ Popped(seq, q) \in Seq(S) /\ ToSet(Popped(seq, q)) \subseteq ToSet(seq)
      /\ <<q>> \in Seq(S) /\ ToSet(<<q>>) = {q}
  <2>1. <<q>> \in Seq(S) /\ DOMAIN <<q>> = {1} /\ <<q>>[1] = q
    OBVIOUS
  <2>2. ToSet(<<q>>) = {q}
    BY <2>1 DEF ToSet
  <2> HIDE DEF all
  <2> QED
    BY <2>1, <2>2, PoppedTyped
<1>2. all \in Seq(S) /\ Len(all) >= 1 /\ ToSet(all) \subseteq ToSet(seq) \cup {q}
  <2> DEFINE rest == Popped(seq, q)
             new == <<q>>
  <2>1. all = rest \o new /\ Len(all) >= 1 /\ all \in Seq(S)
    BY <1>1
  <2>2. rest \in Seq(S) /\ ToSet(rest) \subseteq ToSet(seq) /\ new \in Seq(S) /\ ToSet(new) = {q}
    BY <1>1
  <2> HIDE DEF rest, new, all
  <2>3. ToSet(rest \o new) \subseteq ToSet(rest) \cup ToSet(new)
    BY <2>2, ElementsOfConcat
  <2> QED
    BY <2>1, <2>2, <2>3
<1>3. Remembered(seq, q) = SubSeq(all, first, Len(all))
  BY DEF Remembered
<1> HIDE DEF all
<1>4. /\ first \in 1..(Len(all) + 1) /\ Len(all) \in 0..Len(all)
      /\ first <= Len(all) /\ Len(all) - first + 1 <= Kept
  BY <1>2, RecordingBounds
<1> HIDE DEF first
<1>5. /\ SubSeq(all, first, Len(all)) \in Seq(S)
      /\ Len(SubSeq(all, first, Len(all))) = Len(all) - first + 1
      /\ ToSet(SubSeq(all, first, Len(all))) \subseteq ToSet(all)
  BY <1>2, <1>4, ElementsOfSubSeq
<1> QED
  BY <1>2, <1>3, <1>4, <1>5

(* The variables keep their types. *)
THEOREM TypeCorrect == Spec => []TypeOK
<1>0. NoRun \in Run
  BY SomeQuery DEF NoRun, Run, Question
<1>1. Init => TypeOK
  BY <1>0, RecordingBounds DEF Init, TypeOK, Label, Never, Worded
<1>2. TypeOK /\ [Next]_vars => TypeOK'
  <2> SUFFICES ASSUME TypeOK, [Next]_vars PROVE TypeOK'
    OBVIOUS
  <2> USE DEF TypeOK, Label, Goto
  <2>1. ASSUME NEW t \in Thread, NlTranslate(t) PROVE TypeOK'
    <3>1. PICK q \in Worded : generated' = Remembered(generated, q) /\ earned' = earned \cup {q}
      BY <2>1 DEF NlTranslate
    <3>2. generated' \in Seq(Worded) /\ Len(generated') <= Kept
      BY <3>1, RememberedTyped
    <3> QED
      BY <2>1, <3>1, <3>2 DEF NlTranslate, threadVars
  <2>2. ASSUME NEW t \in Thread, QueryRan(t) PROVE TypeOK'
    <3>1. PICK q \in Question, client \in BOOLEAN, again \in BOOLEAN :
             /\ run' = [run EXCEPT ![t] = [asked |-> q, client |-> client, again |-> again]]
             /\ earned' = IF client THEN earned ELSE earned \cup ({q} \cap Worded)
      BY <2>2 DEF QueryRan
    <3>2. [asked |-> q, client |-> client, again |-> again] \in Run
      BY DEF Run
    <3>3. earned' \subseteq Worded
      BY <3>1
    <3> QED
      BY <2>2, <3>1, <3>2, <3>3 DEF QueryRan
  <2>3. ASSUME NEW t \in Thread, Vouch(t) PROVE TypeOK'
    <3> DEFINE mine == [run[t] EXCEPT !.asked.words = None]
    <3>a. mine \in Run
      <4>1. run[t] \in Run
        BY DEF TypeOK
      <4>2. mine = [run[t] EXCEPT !.asked = [run[t].asked EXCEPT !.words = None]]
        BY <4>1 DEF Run, Question
      <4>3. run[t].asked \in Question
        BY <4>1 DEF Run
      <4>4. [run[t].asked EXCEPT !.words = None] \in Question
        BY <4>3 DEF Question
      <4> HIDE DEF mine
      <4> QED
        BY <4>1, <4>2, <4>4 DEF Run
    <3>b. [run EXCEPT ![t].asked.words = None] = [run EXCEPT ![t] = mine]
      OBVIOUS
    <3> HIDE DEF mine
    <3>1. [run EXCEPT ![t].asked.words = None] \in [Thread -> Run]
      BY <3>a, <3>b
    <3>2. run' \in [Thread -> Run]
      BY <2>3, <3>1 DEF Vouch
    <3> QED
      BY <2>3, <3>2 DEF Vouch
  <2>4. ASSUME NEW t \in Thread, Check(t) PROVE TypeOK'
    BY <2>4 DEF Check
  <2>5. ASSUME NEW t \in Thread, Record(t) PROVE TypeOK'
    BY <2>5 DEF Record
  <2>6. ASSUME NEW t \in Thread, RecordFails(t) PROVE TypeOK'
    BY <1>0, <2>6 DEF RecordFails, Return, Never
  <2>7. ASSUME NEW t \in Thread, Note(t) PROVE TypeOK'
    BY <2>7 DEF Note, Noted, Never
  <2>8. ASSUME NEW t \in Thread, Answer(t) PROVE TypeOK'
    BY <1>0, <2>8 DEF Answer, Return, Never
  <2>9. CASE Tick
    BY <2>9 DEF Tick, threadVars
  <2>10. CASE UNCHANGED vars
    BY <2>10 DEF vars, threadVars
  <2> QED
    BY <2>1, <2>2, <2>3, <2>4, <2>5, <2>6, <2>7, <2>8, <2>9, <2>10 DEF Next, Step
<1> QED
  BY <1>1, <1>2, PTL DEF Spec

----------------------------------------------------------------------------
(* Words are vouched for *)

(* Words the session put together with a query are remembered only then,   *)
(* and a caller's words pass the check only when they are remembered.      *)
LEMMA WordsAreKept == TypeOK /\ TypeOK' /\ WordsInv /\ [Next]_vars => WordsInv'
<1> SUFFICES ASSUME TypeOK, TypeOK', WordsInv, [Next]_vars PROVE WordsInv'
  OBVIOUS
<1> USE DEF WordsInv, GeneratedIsEarned, RunsAreEarned, HistoryIsEarned, OwnWords, VouchedLabels
<1>1. ASSUME NEW t \in Thread, NlTranslate(t) PROVE WordsInv'
  <2>1. PICK q \in Worded : generated' = Remembered(generated, q) /\ earned' = earned \cup {q}
    BY <1>1 DEF NlTranslate
  <2>2. ToSet(generated') \subseteq earned'
    <3>1. ToSet(generated') \subseteq ToSet(generated) \cup {q}
      BY <2>1, RememberedTyped DEF TypeOK
    <3> QED
      BY <2>1, <3>1
  <2> QED
    BY <1>1, <2>1, <2>2 DEF NlTranslate, threadVars
<1>2. ASSUME NEW t \in Thread, QueryRan(t) PROVE WordsInv'
  <2>1. PICK q \in Question, client \in BOOLEAN, again \in BOOLEAN :
           /\ run' = [run EXCEPT ![t] = [asked |-> q, client |-> client, again |-> again]]
           /\ earned' = IF client THEN earned ELSE earned \cup ({q} \cap Worded)
    BY <1>2 DEF QueryRan
  <2>2. q.words # None => q \in Worded
    BY DEF Question, Worded
  <2>3. earned \subseteq earned' /\ (~client /\ q.words # None => q \in earned')
    BY <2>1, <2>2
  <2>4. ToSet(generated') \subseteq earned'
    BY <1>2, <2>3 DEF QueryRan
  <2>5. pc' = [pc EXCEPT ![t] = "vouch"]
    BY <1>2 DEF QueryRan, Goto
  <2>6. RunsAreEarned'
    BY <2>1, <2>3, <2>5 DEF TypeOK
  <2>7. HistoryIsEarned'
    BY <1>2, <2>3 DEF QueryRan
  <2> QED
    BY <2>4, <2>6, <2>7
<1>3. ASSUME NEW t \in Thread, Vouch(t) PROVE WordsInv'
  <2>1. pc[t] = "vouch" /\ pc' = [pc EXCEPT ![t] = "check"]
        /\ earned' = earned /\ generated' = generated /\ history' = history
    BY <1>3 DEF Vouch, Goto
  <2>2. /\ run[t] \in Run /\ \A u \in Thread \ {t} : run'[u] = run[u] /\ pc'[u] = pc[u]
        /\ run'[t].asked.words # None => run'[t] = run[t] /\ Vouched(run[t])
    BY <1>3, <2>1 DEF Vouch, TypeOK, Run, Question
  <2>3. run[t].client /\ Vouched(run[t]) /\ run[t].asked.words # None => run[t].asked \in earned
    BY DEF Vouched
  <2>4. run[t].client \in BOOLEAN
    BY <2>2 DEF Run
  <2>5. OwnWords(run[t].asked) \/ run'[t].asked.words = None
    BY <2>1, <2>2, <2>3, <2>4
  <2>6. OwnWords(run'[t].asked)
    BY <2>2, <2>5
  <2>7. RunsAreEarned'
    BY <2>1, <2>2, <2>6 DEF TypeOK
  <2> QED
    BY <2>1, <2>7
<1>4. ASSUME NEW t \in Thread, Check(t) PROVE WordsInv'
  BY <1>4 DEF Check, Goto, TypeOK
<1>5. ASSUME NEW t \in Thread, Record(t) PROVE WordsInv'
  BY <1>5 DEF Record, Goto, TypeOK
<1>6. ASSUME NEW t \in Thread, RecordFails(t) PROVE WordsInv'
  <2>1. pc[t] = "record" /\ pc' = [pc EXCEPT ![t] = "idle"] /\ run' = [run EXCEPT ![t] = NoRun]
        /\ earned' = earned /\ generated' = generated
        /\ history' \in {history, [history EXCEPT ![run[t].asked] = now]}
    BY <1>6 DEF RecordFails, Return, Goto
  <2>2. HistoryIsEarned'
    BY <2>1 DEF TypeOK
  <2>3. RunsAreEarned'
    BY <2>1 DEF TypeOK
  <2> QED
    BY <2>1, <2>2, <2>3
<1>7. ASSUME NEW t \in Thread, Note(t) PROVE WordsInv'
  BY <1>7 DEF Note, Goto, TypeOK
<1>8. ASSUME NEW t \in Thread, Answer(t) PROVE WordsInv'
  BY <1>8 DEF Answer, Return, Goto, TypeOK
<1>9. CASE Tick
  BY <1>9 DEF Tick, threadVars
<1>10. CASE UNCHANGED vars
  BY <1>10 DEF vars, threadVars
<1> QED
  BY <1>1, <1>2, <1>3, <1>4, <1>5, <1>6, <1>7, <1>8, <1>9, <1>10 DEF Next, Step

LEMMA WordsHold == Spec => []WordsInv
<1>1. Init => WordsInv
  BY DEF Init, WordsInv, GeneratedIsEarned, RunsAreEarned, HistoryIsEarned, VouchedLabels, Never, ToSet
<1> QED
  BY <1>1, WordsAreKept, TypeCorrect, PTL DEF Spec

(* Words enter the history only with a query this service generated from   *)
(* them, however many threads generate, vouch and record at once.          *)
THEOREM WordsVouchedFor == Spec => []WordsAreVouchedFor
<1>1. WordsInv => WordsAreVouchedFor
  BY DEF WordsInv, HistoryIsEarned, OwnWords, WordsAreVouchedFor
<1> QED
  BY <1>1, WordsHold, PTL

----------------------------------------------------------------------------
(* Answers are recorded *)

LEMMA NotesKeep == TypeOK /\ TypeOK' /\ NotesAreHistory /\ [Next]_vars => NotesAreHistory'
<1> SUFFICES ASSUME TypeOK, TypeOK', NotesAreHistory, [Next]_vars PROVE NotesAreHistory'
  OBVIOUS
<1> USE DEF NotesAreHistory, Never
<1>1. ASSUME NEW t \in Thread, NlTranslate(t) PROVE NotesAreHistory'
  BY <1>1 DEF NlTranslate, threadVars
<1>2. ASSUME NEW t \in Thread, QueryRan(t) PROVE NotesAreHistory'
  BY <1>2 DEF QueryRan, Goto, TypeOK
<1>3. ASSUME NEW t \in Thread, Vouch(t) PROVE NotesAreHistory'
  <2>1. /\ pc[t] = "vouch" /\ pc' = [pc EXCEPT ![t] = "check"]
        /\ clock' = [clock EXCEPT ![t] = now]
        /\ now' = now /\ recent' = recent /\ history' = history
        /\ \A u \in Thread \ {t} : run'[u] = run[u]
    BY <1>3 DEF Vouch, Goto, TypeOK
  <2> QED
    BY <2>1 DEF TypeOK
<1>4. ASSUME NEW t \in Thread, Check(t) PROVE NotesAreHistory'
  <2>1. /\ pc[t] = "check" /\ run[t].asked \in Question
        /\ pc' = [pc EXCEPT ![t] = IF RecordedRecently(t) THEN "answer" ELSE "record"]
        /\ now' = now /\ recent' = recent /\ history' = history /\ run' = run /\ clock' = clock
    BY <1>4 DEF Check, Goto, TypeOK, Run
  <2>2. RecordedRecently(t) => history[run[t].asked] # Never
    BY <2>1 DEF RecordedRecently, TypeOK
  <2> QED
    BY <2>1, <2>2 DEF TypeOK
<1>5. ASSUME NEW t \in Thread, Record(t) PROVE NotesAreHistory'
  <2>1. /\ pc[t] = "record" /\ run[t].asked \in Question /\ pc' = [pc EXCEPT ![t] = "note"]
        /\ history' = [history EXCEPT ![run[t].asked] = now]
        /\ now' = now /\ recent' = recent /\ run' = run /\ clock' = clock
    BY <1>5 DEF Record, Goto, TypeOK, Run
  <2>2. \A u \in Thread : run[u].asked \in Question
    BY DEF TypeOK, Run
  <2> QED
    BY <2>1, <2>2 DEF TypeOK
<1>6. ASSUME NEW t \in Thread, RecordFails(t) PROVE NotesAreHistory'
  <2>1. /\ pc[t] = "record" /\ run[t].asked \in Question /\ pc' = [pc EXCEPT ![t] = "idle"]
        /\ history' \in {history, [history EXCEPT ![run[t].asked] = now]}
        /\ now' = now /\ recent' = recent /\ run' = [run EXCEPT ![t] = NoRun]
        /\ clock' = [clock EXCEPT ![t] = Never]
    BY <1>6 DEF RecordFails, Return, Goto, TypeOK, Run
  <2>2. \A q \in Question : history'[q] = history[q] \/ history'[q] = now
    BY <2>1 DEF TypeOK
  <2>3. ASSUME NEW q \in Question PROVE history[q] <= history'[q] /\ history'[q] <= now
    <3>1. history[q] \in Nat /\ now \in Nat /\ history[q] <= now
      BY DEF TypeOK
    <3> QED
      BY ONLY <2>2, <3>1
  <2>4. \A u \in Thread : run[u].asked \in Question
    BY DEF TypeOK, Run
  <2>5. \A u \in Thread : pc'[u] \in {"note", "answer"} => pc'[u] = pc[u] /\ run'[u] = run[u] /\ clock'[u] = clock[u]
    BY <2>1 DEF TypeOK
  <2>6. \A u \in Thread : clock'[u] <= now
    BY <2>1 DEF TypeOK
  <2>7. \A q \in Question : recent[q] <= history'[q]
    BY <2>3 DEF TypeOK
  <2>8. \A u \in Thread : pc'[u] \in {"note", "answer"} => history'[run'[u].asked] # Never
    <3> SUFFICES ASSUME NEW u \in Thread, pc'[u] \in {"note", "answer"}
                 PROVE  history'[run'[u].asked] # Never
      OBVIOUS
    <3>1. history[run[u].asked] # Never /\ run'[u] = run[u] /\ run[u].asked \in Question
      BY <2>4, <2>5
    <3> QED
      BY <2>3, <3>1 DEF TypeOK, Never
  <2>9. \A u \in Thread : pc'[u] = "note" => clock'[u] <= history'[run'[u].asked]
    <3> SUFFICES ASSUME NEW u \in Thread, pc'[u] = "note" PROVE clock'[u] <= history'[run'[u].asked]
      OBVIOUS
    <3>1. /\ clock[u] <= history[run[u].asked] /\ clock'[u] = clock[u] /\ run'[u] = run[u]
          /\ run[u].asked \in Question
      BY <2>4, <2>5
    <3>2. history[run[u].asked] <= history'[run[u].asked]
      BY <2>3, <3>1
    <3> QED
      BY <2>3, <3>1, <3>2 DEF TypeOK
  <2> QED
    BY <2>1, <2>3, <2>6, <2>7, <2>8, <2>9 DEF TypeOK
<1>7. ASSUME NEW t \in Thread, Note(t) PROVE NotesAreHistory'
  <2>1. /\ pc[t] = "note" /\ run[t].asked \in Question /\ pc' = [pc EXCEPT ![t] = "answer"]
        /\ recent' = Noted(t)
        /\ now' = now /\ history' = history /\ run' = run /\ clock' = clock
    BY <1>7 DEF Note, Goto, TypeOK, Run
  <2>2. \A q \in Question : recent'[q] <= history'[q]
    BY <2>1 DEF Noted, TypeOK
  <2> QED
    BY <2>1, <2>2 DEF TypeOK
<1>8. ASSUME NEW t \in Thread, Answer(t) PROVE NotesAreHistory'
  BY <1>8 DEF Answer, Return, Goto, TypeOK
<1>9. CASE Tick
  BY <1>9 DEF Tick, threadVars, TypeOK
<1>10. CASE UNCHANGED vars
  BY <1>10 DEF vars, threadVars
<1> QED
  BY <1>1, <1>2, <1>3, <1>4, <1>5, <1>6, <1>7, <1>8, <1>9, <1>10 DEF Next, Step

LEMMA NotesHold == Spec => []NotesAreHistory
<1>1. Init => NotesAreHistory
  BY DEF Init, NotesAreHistory, Never
<1> QED
  BY <1>1, NotesKeep, TypeCorrect, PTL DEF Spec

(* Nothing is answered unrecorded, whichever thread recorded it.           *)
THEOREM AnswersRecorded == Spec => []AnsweredIsRecorded
<1>1. NotesAreHistory => AnsweredIsRecorded
  BY DEF NotesAreHistory, AnsweredIsRecorded
<1> QED
  BY <1>1, NotesHold, PTL

(* A graph run goes unrecorded only for a recording of its question that   *)
(* is recent by the time the run read.                                     *)
THEOREM RecentWhenUnrecorded == Spec => UnrecordedWasRecent
<1> DEFINE WasRecent == \A t \in Thread :
               pc[t] = "check" /\ pc'[t] = "answer" => history[run[t].asked] >= clock[t]
<1>1. TypeOK /\ NotesAreHistory /\ [Next]_vars => WasRecent
  <2> SUFFICES ASSUME TypeOK, NotesAreHistory, [Next]_vars,
                      NEW t \in Thread, pc[t] = "check", pc'[t] = "answer"
               PROVE  history[run[t].asked] >= clock[t]
    OBVIOUS
  <2>1. \A u \in Thread : Step(u) => u = t
    BY DEF Step, NlTranslate, QueryRan, Vouch, Check, Record, RecordFails, Note, Answer,
           Return, Goto, TypeOK, threadVars
  <2>2. Check(t)
    BY <2>1 DEF Next, Step, NlTranslate, QueryRan, Vouch, Record, RecordFails, Note, Answer,
           Return, Goto, TypeOK, threadVars, vars, Tick
  <2>3. RecordedRecently(t)
    BY <2>2 DEF Check, Goto, TypeOK
  <2>4. run[t].asked \in Question
    BY DEF TypeOK, Run
  <2> QED
    BY <2>3, <2>4 DEF RecordedRecently, NotesAreHistory, TypeOK
<1> QED
  BY <1>1, TypeCorrect, NotesHold, PTL DEF Spec, UnrecordedWasRecent

----------------------------------------------------------------------------
(* The recording keeps the history it promises *)

InHistory == {q \in Question : history[q] # Never}
Answers == {<<t, run[t].asked>> : t \in {u \in Thread : pc[u] = "answer"}}

(* A thread that moves elsewhere than into or out of an answer leaves the  *)
(* answers as they are.                                                    *)
LEMMA AnswersKept ==
    ASSUME NEW t \in Thread, TypeOK, pc[t] # "answer", pc'[t] # "answer",
           \A u \in Thread \ {t} : pc'[u] = pc[u] /\ run'[u] = run[u]
    PROVE  Answers' = Answers
BY DEF Answers

LEMMA AnswersBegin ==
    ASSUME NEW t \in Thread, TypeOK, pc[t] # "answer", pc'[t] = "answer", run' = run,
           \A u \in Thread \ {t} : pc'[u] = pc[u]
    PROVE  /\ Answers' = Answers \cup {<<t, run[t].asked>>}
           /\ \A q \in Question : <<t, q>> \notin Answers
BY DEF Answers

LEMMA AnswersEnd ==
    ASSUME NEW t \in Thread, TypeOK, pc[t] = "answer", pc'[t] # "answer",
           \A u \in Thread \ {t} : pc'[u] = pc[u] /\ run'[u] = run[u]
    PROVE  /\ Answers' = Answers \ {<<t, run[t].asked>>}
           /\ <<t, run[t].asked>> \in Answers
BY DEF Answers

(* The steps of the history, as steps of the recording's state. *)
LEMMA EarnStep ==
    ASSUME NEW q \in Worded, earned' = earned \cup {q}, InHistory' = InHistory, Answers' = Answers
    PROVE  Promised!Next
<1>1. q \in Promised!Question /\ q.words # None
  BY NoneIsNoWords DEF Worded, Promised!Question
<1> QED
  BY <1>1 DEF Promised!Next, Promised!Earn, InHistory, Answers

LEMMA RecordStep ==
    ASSUME NEW q \in Question, OwnWords(q), earned' = earned,
           InHistory' = InHistory \cup {q}, Answers' = Answers
    PROVE  Promised!Next
<1>1. q \in Promised!Question
  BY DEF Question, Promised!Question
<1> QED
  BY <1>1 DEF Promised!Next, Promised!Record, InHistory, Answers, OwnWords

LEMMA AnswerStep ==
    ASSUME NEW t \in Thread, NEW q \in InHistory, earned' = earned, InHistory' = InHistory,
           Answers' = Answers \cup {<<t, q>>}, \A r \in Question : <<t, r>> \notin Answers
    PROVE  Promised!Next
<1>1. Promised!Answer(t)
  BY DEF Promised!Answer, Promised!Question, Question, InHistory, Answers
<1> QED
  BY <1>1 DEF Promised!Next

LEMMA AnsweredStep ==
    ASSUME NEW t \in Thread, NEW q \in Question, earned' = earned, InHistory' = InHistory,
           Answers' = Answers \ {<<t, q>>}, <<t, q>> \in Answers
    PROVE  Promised!Next
<1>1. Promised!Answered(t)
  BY DEF Promised!Answered, Promised!Question, Question, InHistory, Answers
<1> QED
  BY <1>1 DEF Promised!Next

(* Every step of the recording is one of the history's or changes nothing  *)
(* of it.                                                                  *)
LEMMA StepsImplement ==
    TypeOK /\ TypeOK' /\ WordsInv /\ NotesAreHistory /\ NotesAreHistory' /\ [Next]_vars
    => Promised!Next \/ UNCHANGED <<earned, InHistory, Answers>>
<1> SUFFICES ASSUME TypeOK, TypeOK', WordsInv, NotesAreHistory, NotesAreHistory', [Next]_vars
             PROVE  Promised!Next \/ UNCHANGED <<earned, InHistory, Answers>>
  OBVIOUS
<1>0. \A t \in Thread : run[t].asked \in Question
  BY DEF TypeOK, Run
<1>1. ASSUME NEW t \in Thread, NlTranslate(t) PROVE Promised!Next
  <2>1. PICK q \in Worded : earned' = earned \cup {q}
    BY <1>1 DEF NlTranslate
  <2>2. InHistory' = InHistory /\ Answers' = Answers
    BY <1>1 DEF NlTranslate, threadVars, InHistory, Answers
  <2> QED
    BY <2>1, <2>2, EarnStep
<1>2. ASSUME NEW t \in Thread, QueryRan(t) PROVE Promised!Next \/ UNCHANGED <<earned, InHistory, Answers>>
  <2>1. PICK q \in Question, client \in BOOLEAN :
           earned' = IF client THEN earned ELSE earned \cup ({q} \cap Worded)
    BY <1>2 DEF QueryRan
  <2>2. InHistory' = InHistory
    BY <1>2 DEF QueryRan, InHistory
  <2>3. pc[t] = "idle" /\ pc'[t] = "vouch" /\ \A u \in Thread \ {t} : pc'[u] = pc[u] /\ run'[u] = run[u]
    BY <1>2 DEF QueryRan, Goto, TypeOK
  <2>4. Answers' = Answers
    BY <2>3, AnswersKept
  <2>5. earned' = earned \/ (q \in Worded /\ earned' = earned \cup {q})
    BY <2>1
  <2> QED
    BY <2>2, <2>4, <2>5, EarnStep
<1>3. ASSUME NEW t \in Thread, Vouch(t) PROVE UNCHANGED <<earned, InHistory, Answers>>
  <2>1. pc[t] = "vouch" /\ pc'[t] = "check" /\ \A u \in Thread \ {t} : pc'[u] = pc[u] /\ run'[u] = run[u]
    BY <1>3 DEF Vouch, Goto, TypeOK
  <2>2. Answers' = Answers
    BY <2>1, AnswersKept
  <2> QED
    BY <1>3, <2>2 DEF Vouch, InHistory
<1>4. ASSUME NEW t \in Thread, Check(t) PROVE Promised!Next \/ UNCHANGED <<earned, InHistory, Answers>>
  <2>1. /\ pc[t] = "check" /\ run' = run /\ earned' = earned /\ history' = history
        /\ pc'[t] \in {"answer", "record"} /\ \A u \in Thread \ {t} : pc'[u] = pc[u]
    BY <1>4 DEF Check, Goto, TypeOK
  <2>2. CASE pc'[t] = "answer"
    <3>1. run[t].asked \in InHistory
      BY <1>0, <2>1, <2>2 DEF NotesAreHistory, InHistory
    <3>2. Answers' = Answers \cup {<<t, run[t].asked>>} /\ \A q \in Question : <<t, q>> \notin Answers
      BY <2>1, <2>2, AnswersBegin
    <3> QED
      BY <2>1, <3>1, <3>2, AnswerStep DEF InHistory
  <2>3. CASE pc'[t] = "record"
    <3>1. Answers' = Answers
      BY <2>1, <2>3, AnswersKept
    <3> QED
      BY <2>1, <3>1 DEF InHistory
  <2> QED
    BY <2>1, <2>2, <2>3
<1>5. ASSUME NEW t \in Thread, Record(t) PROVE Promised!Next
  <2>1. /\ pc[t] = "record" /\ pc'[t] = "note" /\ run' = run /\ earned' = earned
        /\ history' = [history EXCEPT ![run[t].asked] = now] /\ \A u \in Thread \ {t} : pc'[u] = pc[u]
    BY <1>5 DEF Record, Goto, TypeOK
  <2>2. Answers' = Answers
    BY <2>1, AnswersKept
  <2>3. InHistory' = InHistory \cup {run[t].asked}
    BY <1>0, <2>1 DEF InHistory, TypeOK, NotesAreHistory, Never
  <2>4. OwnWords(run[t].asked)
    BY <2>1 DEF WordsInv, RunsAreEarned, VouchedLabels
  <2> QED
    BY <1>0, <2>1, <2>2, <2>3, <2>4, RecordStep
<1>6. ASSUME NEW t \in Thread, RecordFails(t) PROVE Promised!Next \/ UNCHANGED <<earned, InHistory, Answers>>
  <2>1. /\ pc[t] = "record" /\ pc'[t] = "idle" /\ earned' = earned
        /\ history' \in {history, [history EXCEPT ![run[t].asked] = now]}
        /\ \A u \in Thread \ {t} : pc'[u] = pc[u] /\ run'[u] = run[u]
    BY <1>6 DEF RecordFails, Return, Goto, TypeOK
  <2>2. Answers' = Answers
    BY <2>1, AnswersKept
  <2>3. CASE history' = history
    BY <2>1, <2>2, <2>3 DEF InHistory
  <2>4. CASE history' = [history EXCEPT ![run[t].asked] = now]
    <3>1. InHistory' = InHistory \cup {run[t].asked}
      BY <1>0, <2>4 DEF InHistory, TypeOK, NotesAreHistory, Never
    <3>2. OwnWords(run[t].asked)
      BY <2>1 DEF WordsInv, RunsAreEarned, VouchedLabels
    <3> QED
      BY <1>0, <2>1, <2>2, <3>1, <3>2, RecordStep
  <2> QED
    BY <2>1, <2>3, <2>4
<1>7. ASSUME NEW t \in Thread, Note(t) PROVE Promised!Next
  <2>1. /\ pc[t] = "note" /\ pc'[t] = "answer" /\ run' = run /\ earned' = earned /\ history' = history
        /\ \A u \in Thread \ {t} : pc'[u] = pc[u]
    BY <1>7 DEF Note, Goto, TypeOK
  <2>2. run[t].asked \in InHistory
    BY <1>0, <2>1 DEF NotesAreHistory, InHistory
  <2>3. Answers' = Answers \cup {<<t, run[t].asked>>} /\ \A q \in Question : <<t, q>> \notin Answers
    BY <2>1, AnswersBegin
  <2> QED
    BY <2>1, <2>2, <2>3, AnswerStep DEF InHistory
<1>8. ASSUME NEW t \in Thread, Answer(t) PROVE Promised!Next
  <2>1. /\ pc[t] = "answer" /\ pc'[t] = "idle" /\ earned' = earned /\ history' = history
        /\ \A u \in Thread \ {t} : pc'[u] = pc[u] /\ run'[u] = run[u]
    BY <1>8 DEF Answer, Return, Goto, TypeOK
  <2>2. Answers' = Answers \ {<<t, run[t].asked>>} /\ <<t, run[t].asked>> \in Answers
    BY <2>1, AnswersEnd
  <2> QED
    BY <1>0, <2>1, <2>2, AnsweredStep DEF InHistory
<1>9. CASE Tick
  BY <1>9 DEF Tick, threadVars, InHistory, Answers
<1>10. CASE UNCHANGED vars
  BY <1>10 DEF vars, threadVars, InHistory, Answers
<1> QED
  BY <1>1, <1>2, <1>3, <1>4, <1>5, <1>6, <1>7, <1>8, <1>9, <1>10 DEF Next, Step

(* The recording implements the history it promises.                       *)
THEOREM KeepsHistory == Spec => HistoryKept
<1>1. Init => Promised!Init
  BY DEF Init, Promised!Init, Never
<1>2. TypeOK /\ TypeOK' /\ WordsInv /\ NotesAreHistory /\ NotesAreHistory' /\ [Next]_vars
      => [Promised!Next]_(Promised!vars)
  BY StepsImplement DEF Promised!vars, InHistory, Answers
<1> QED
  BY <1>1, <1>2, TypeCorrect, WordsHold, NotesHold, PTL DEF Spec, HistoryKept, Promised!Spec
=============================================================================
