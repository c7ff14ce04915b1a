------------------------- MODULE QuestionRecording -------------------------
(***************************************************************************)
(* Recording the questions of one session in the project's history under a *)
(* control plane (service/recording.py), by the routes that run a query:   *)
(* /execute and /profile carry the caller's words, /nl-execute its own,    *)
(* /sparql none; /nl-translate remembers what it generated.                *)
(*                                                                         *)
(* Time is counted in AGAIN_SECONDS, so a recording is recent while it is  *)
(* of the same tick or a later one.                                        *)
(***************************************************************************)
EXTENDS Naturals, FiniteSets, Sequences, SequencesExt

CONSTANTS
    Thread,  \* request threads of the session
    Words,   \* questions in plain English
    Query,   \* SPARQL queries
    None,    \* no words
    Kept,    \* GENERATED_KEPT
    MaxNow   \* bound on the clock

ASSUME NoneIsNoWords == None \notin Words
ASSUME SomeQuery == Query # {}
ASSUME RecordingBounds == Kept \in Nat \ {0} /\ MaxNow \in Nat \ {0}

Question == [words: Words \cup {None}, query: Query]
Worded == [words: Words, query: Query]
Run == [asked: Question, client: BOOLEAN, again: BOOLEAN]

Never == 0

VARIABLES
    now,        \* the clock; it starts at 1
    generated,  \* session.generated_questions, oldest first
    recent,     \* session.recorded_questions: the time noted for each, or Never
    history,    \* the project's history: when each question was last recorded, or Never
    earned,     \* words and queries this service put together
    pc, run,    \* per thread: where it is, and what it runs
    clock       \* per thread: the time it read before it looked at recent

threadVars == <<pc, run, clock>>
vars == <<now, generated, recent, history, earned, threadVars>>

Label == {"idle", "vouch", "check", "record", "note", "answer"}

NoRun == [asked |-> [words |-> None, query |-> CHOOSE q \in Query : TRUE],
          client |-> FALSE, again |-> FALSE]

TypeOK ==
    /\ now \in Nat
    /\ generated \in Seq(Worded) /\ Len(generated) <= Kept
    /\ recent \in [Question -> Nat] /\ history \in [Question -> Nat]
    /\ earned \subseteq Worded
    /\ pc \in [Thread -> Label] /\ run \in [Thread -> Run] /\ clock \in [Thread -> Nat]

Init ==
    /\ now = 1 /\ generated = <<>> /\ earned = {}
    /\ recent = [q \in Question |-> Never] /\ history = [q \in Question |-> Never]
    /\ pc = [t \in Thread |-> "idle"] /\ run = [t \in Thread |-> NoRun]
    /\ clock = [t \in Thread |-> Never]

----------------------------------------------------------------------------
Goto(t, label) == pc' = [pc EXCEPT ![t] = label]

Return(t) ==
    /\ Goto(t, "idle")
    /\ run' = [run EXCEPT ![t] = NoRun] /\ clock' = [clock EXCEPT ![t] = Never]

(* generated.pop(key, None) *)
Popped(seq, q) ==
    IF q \in ToSet(seq) THEN RemoveAt(seq, CHOOSE i \in DOMAIN seq : seq[i] = q) ELSE seq

(* Mutant: the list is not cut. *)
RememberedAll(seq, q) == Append(Popped(seq, q), q)

(* remember_generated: the newest last, each once, the last Kept of them.  *)
Remembered(seq, q) ==
    LET all == Append(Popped(seq, q), q)
    IN  SubSeq(all, IF Len(all) > Kept THEN Len(all) - Kept + 1 ELSE 1, Len(all))

NlTranslate(t) ==
    /\ pc[t] = "idle"
    /\ \E q \in Worded : /\ generated' = Remembered(generated, q)
                         /\ earned' = earned \cup {q}
    /\ UNCHANGED <<now, recent, history, threadVars>>

(* A query has run: through /execute or /profile, with words the caller    *)
(* sent (again for the graph view); through /nl-execute, with the words it *)
(* was generated from; or through /sparql, without words.                  *)
QueryRan(t) ==
    /\ pc[t] = "idle"
    /\ \E q \in Question, client, again \in BOOLEAN :
          /\ again => client
          /\ run' = [run EXCEPT ![t] = [asked |-> q, client |-> client, again |-> again]]
          /\ earned' = IF client THEN earned ELSE earned \cup ({q} \cap Worded)
    /\ Goto(t, "vouch")
    /\ UNCHANGED <<now, generated, recent, history, clock>>

(* Mutant: the caller's words are kept as they come. *)
VouchedAlways(r) == TRUE

(* The caller's words are kept when this session generated the query from  *)
(* them.                                                                   *)
Vouched(r) == r.client /\ r.asked.words # None => r.asked \in ToSet(generated)

(* The time is read next, before recent is. *)
Vouch(t) ==
    /\ pc[t] = "vouch"
    /\ run' = IF Vouched(run[t]) THEN run ELSE [run EXCEPT ![t].asked.words = None]
    /\ clock' = [clock EXCEPT ![t] = now]
    /\ Goto(t, "check")
    /\ UNCHANGED <<now, generated, recent, history, earned>>

(* Mutant: a recording of the query under any words is a recent one. *)
QueryRecordedRecently(t) ==
    /\ run[t].again
    /\ \E q \in Question :
          q.query = run[t].asked.query /\ recent[q] # Never /\ recent[q] >= clock[t]

(* A graph run of a question recorded recently is the same question.       *)
RecordedRecently(t) ==
    /\ run[t].again
    /\ recent[run[t].asked] # Never /\ recent[run[t].asked] >= clock[t]

Check(t) ==
    /\ pc[t] = "check"
    /\ Goto(t, IF RecordedRecently(t) THEN "answer" ELSE "record")
    /\ UNCHANGED <<now, generated, recent, history, earned, run, clock>>

(* The history gets the question as asked; beside it, the event carries    *)
(* the SPARQL that ran for a graph, which vouches for nothing.             *)
Record(t) ==
    /\ pc[t] = "record"
    /\ history' = [history EXCEPT ![run[t].asked] = now]
    /\ Goto(t, "note")
    /\ UNCHANGED <<now, generated, recent, earned, run, clock>>

(* Mutant: a question that cannot be recorded is answered all the same. *)
AnswerUnrecorded(t) ==
    /\ pc[t] = "record"
    /\ Goto(t, "answer")
    /\ UNCHANGED <<now, generated, recent, history, earned, run, clock>>

(* A question that cannot be recorded is not answered: 503.  The control   *)
(* plane may have recorded it when only its answer was lost.               *)
RecordFails(t) ==
    /\ pc[t] = "record"
    /\ history' \in {history, [history EXCEPT ![run[t].asked] = now]}
    /\ Return(t)
    /\ UNCHANGED <<now, generated, recent, earned>>

(* Mutant: noted under the time of the note. *)
NotedNow(t) == [recent EXCEPT ![run[t].asked] = now]

(* The recording is noted under the time read before it was made; what is  *)
(* no longer recent by that time is dropped.                               *)
Noted(t) ==
    [q \in Question |-> IF q = run[t].asked THEN clock[t]
                        ELSE IF recent[q] < clock[t] THEN Never ELSE recent[q]]

Note(t) ==
    /\ pc[t] = "note"
    /\ recent' = Noted(t)
    /\ Goto(t, "answer")
    /\ UNCHANGED <<now, generated, history, earned, run, clock>>

Answer(t) ==
    /\ pc[t] = "answer"
    /\ Return(t)
    /\ UNCHANGED <<now, generated, recent, history, earned>>

Tick ==
    /\ now < MaxNow /\ now' = now + 1
    /\ UNCHANGED <<generated, recent, history, earned, threadVars>>

Step(t) ==
    \/ NlTranslate(t) \/ QueryRan(t) \/ Vouch(t) \/ Check(t) \/ Record(t) \/ RecordFails(t)
    \/ Note(t) \/ Answer(t)

Next == (\E t \in Thread : Step(t)) \/ Tick

Spec == Init /\ [][Next]_vars

----------------------------------------------------------------------------
(* Properties *)

(* Nothing is answered unrecorded: the question of an answer is in the     *)
(* history, whichever thread recorded it (the module's docstring).         *)
AnsweredIsRecorded == \A t \in Thread : pc[t] = "answer" => history[run[t].asked] # Never

(* A graph run goes unrecorded only for a recording of the same words and  *)
(* query less than AGAIN_SECONDS old, though the recording, its note and   *)
(* the check are steps of different threads at different times.            *)
UnrecordedWasRecent ==
    [][\A t \in Thread :
          pc[t] = "check" /\ pc'[t] = "answer" => history[run[t].asked] >= clock[t]]_vars

(* Words enter the history only with a query this service generated from   *)
(* them: a caller cannot label a query.                                    *)
WordsAreVouchedFor ==
    \A q \in Question : history[q] # Never /\ q.words # None => q \in earned

(* The recording implements the history it promises: a question is         *)
(* recorded only unworded or under words this service earned, and answered *)
(* only once it is recorded.                                               *)
Promised == INSTANCE ProjectHistory WITH
    recorded <- {q \in Question : history[q] # Never},
    answering <- {<<t, run[t].asked>> : t \in {u \in Thread : pc[u] = "answer"}}

HistoryKept == Promised!Spec
=============================================================================
