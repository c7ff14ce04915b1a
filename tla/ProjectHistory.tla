--------------------------- MODULE ProjectHistory ---------------------------
(***************************************************************************)
(* What the recording of questions promises (the docstring of              *)
(* service/recording.py): the project's history holds a question under     *)
(* words only when this service put words and query together, and no       *)
(* question is answered that the history does not hold.                    *)
(***************************************************************************)
CONSTANTS Thread, Words, Query, None

VARIABLES
    earned,     \* the words and queries the service put together
    recorded,   \* the questions of the history
    answering   \* the questions being answered, and by which threads

vars == <<earned, recorded, answering>>

Question == [words: Words \cup {None}, query: Query]

Init == earned = {} /\ recorded = {} /\ answering = {}

Earn ==
    /\ \E q \in Question : q.words # None /\ earned' = earned \cup {q}
    /\ UNCHANGED <<recorded, answering>>

Record ==
    /\ \E q \in Question :
          /\ q.words = None \/ q \in earned
          /\ recorded' = recorded \cup {q}
    /\ UNCHANGED <<earned, answering>>

Answer(t) ==
    /\ \A q \in Question : <<t, q>> \notin answering
    /\ \E q \in recorded : answering' = answering \cup {<<t, q>>}
    /\ UNCHANGED <<earned, recorded>>

Answered(t) ==
    /\ \E q \in Question : <<t, q>> \in answering /\ answering' = answering \ {<<t, q>>}
    /\ UNCHANGED <<earned, recorded>>

Next == Earn \/ Record \/ \E t \in Thread : Answer(t) \/ Answered(t)

Spec == Init /\ [][Next]_vars
=============================================================================
