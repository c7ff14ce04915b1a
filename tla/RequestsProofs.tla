--------------------------- MODULE RequestsProofs ---------------------------
(***************************************************************************)
(* Requests for any number of requests, texts and headers: its types, the  *)
(* order of stages, what refusals leave undone and answers have done, the  *)
(* default session, and the media type of an answer.                       *)
(***************************************************************************)
EXTENDS Requests, SequenceTheorems, FiniteSetTheorems, WellFoundedInduction, TLAPS

----------------------------------------------------------------------------
(* The order of the stages, which every handler follows *)

(* Stages of one number replace each other. *)
Rank(stage) ==
    CASE stage = "gate" -> 0
      [] stage = "content type" -> 1
      [] stage = "loop" -> 2
      [] stage = "body" -> 3
      [] stage \in {"nl", "nl taken"} -> 4
      [] stage \in {"compute", "compute taken"} -> 5
      [] stage = "update" -> 6
      [] stage = "parse" -> 7
      [] stage = "negotiate" -> 8
      [] stage \in {"protocol session", "open default", "description session"} -> 9
      [] stage = "optional session" -> 10
      [] stage = "session" -> 11
      [] stage = "ontology" -> 12
      [] stage = "schema" -> 13
      [] stage = "generate" -> 14
      [] stage = "translate" -> 15
      [] stage = "explain" -> 16
      [] stage = "execute" -> 17
      [] stage = "record" -> 18
      [] stage = "answer" -> 19
      [] OTHER -> 0

InOrder(s) == \A i, j \in 1..Len(s) : i < j => Rank(s[i]) < Rank(s[j])

Opening == {"protocol session", "open default", "description session"}

(* What a handler is made of. *)
Sound(s, to) ==
    /\ s \in Seq(Stage) /\ InOrder(s) /\ "answer" \in ToSet(s)
    /\ "record" \in ToSet(s) => "execute" \in ToSet(s)
    /\ "execute" \in ToSet(s) /\ SERVED(to) => "record" \in ToSet(s)
    /\ ToSet(s) \cap Opening # {} => "loop" \in ToSet(s)

LEMMA RankType == \A stage : Rank(stage) \in 0..19
  BY DEF Rank

LEMMA LastRanks ==
  ASSUME NEW stage, stage # "record", stage # "answer" PROVE Rank(stage) \in 0..17
  BY DEF Rank

(* The stages of a sequence that has one put before it. *)
LEMMA ConsStages ==
  ASSUME NEW x \in Stage, NEW s \in Seq(Stage), InOrder(s), \A y \in ToSet(s) : Rank(x) < Rank(y)
  PROVE  /\ <<x>> \o s \in Seq(Stage)
         /\ InOrder(<<x>> \o s)
         /\ ToSet(<<x>> \o s) = {x} \cup ToSet(s)
         /\ <<x>> \o s # <<>> /\ Head(<<x>> \o s) = x
<1> DEFINE t == <<x>> \o s
<1>1. /\ t \in Seq(Stage) /\ Len(t) = 1 + Len(s) /\ Len(s) \in Nat
      /\ t[1] = x /\ \A i \in 2..Len(t) : t[i] = s[i - 1]
      /\ DOMAIN t = 1..Len(t) /\ DOMAIN s = 1..Len(s)
  BY ConcatProperties, LenProperties
<1>2. InOrder(t)
  <2> SUFFICES ASSUME NEW i \in 1..Len(t), NEW j \in 1..Len(t), i < j
               PROVE  Rank(t[i]) < Rank(t[j])
    BY DEF InOrder
  <2>1. j - 1 \in 1..Len(s) /\ t[j] = s[j - 1]
    BY <1>1
  <2>2. CASE i = 1
    BY <2>1, <2>2, <1>1 DEF ToSet
  <2>3. CASE i # 1
    BY <2>1, <2>3, <1>1 DEF InOrder
  <2> QED BY <2>2, <2>3
<1>3. ToSet(t) = {x} \cup ToSet(s)
  <2>1. \A y \in ToSet(t) : y \in {x} \cup ToSet(s)
    BY <1>1 DEF ToSet
  <2>2. x \in ToSet(t)
    BY <1>1 DEF ToSet
  <2>3. ASSUME NEW y \in ToSet(s) PROVE y \in ToSet(t)
    <3>1. PICK i \in 1..Len(s) : y = s[i]
      BY <1>1 DEF ToSet
    <3>2. i + 1 \in DOMAIN t /\ t[i + 1] = y
      <4>1. i + 1 \in 2..Len(t) /\ i + 1 \in 1..Len(t) /\ (i + 1) - 1 = i
        BY <1>1
      <4> HIDE DEF t
      <4> QED BY <4>1, <3>1, <1>1
    <3> HIDE DEF t
    <3>3. t[i + 1] \in ToSet(t)
      BY <3>2 DEF ToSet
    <3> QED BY <3>2, <3>3
  <2> QED BY <2>1, <2>2, <2>3
<1> QED BY <1>1, <1>2, <1>3, HeadTailProperties, EmptySeq

(* What is left after the first stage of a sequence. *)
LEMMA TailStages ==
  ASSUME NEW s \in Seq(Stage), s # <<>>, InOrder(s)
  PROVE  /\ Head(s) \in Stage /\ Head(s) \in ToSet(s)
         /\ Tail(s) \in Seq(Stage)
         /\ InOrder(Tail(s))
         /\ ToSet(Tail(s)) = ToSet(s) \ {Head(s)}
         /\ \A y \in ToSet(Tail(s)) : Rank(Head(s)) < Rank(y)
<1>1. /\ Len(s) \in Nat \ {0} /\ s \in [1..Len(s) -> Stage] /\ DOMAIN s = 1..Len(s)
      /\ Head(s) = s[1] /\ Tail(s) \in Seq(Stage) /\ Len(Tail(s)) = Len(s) - 1
      /\ DOMAIN Tail(s) = 1..Len(Tail(s))
      /\ \A i \in 1..Len(Tail(s)) : Tail(s)[i] = s[i + 1]
  BY LenProperties, EmptySeq, HeadTailProperties
<1>2. InOrder(Tail(s))
  BY <1>1 DEF InOrder
<1>3. \A y \in ToSet(Tail(s)) : Rank(Head(s)) < Rank(y) /\ y \in ToSet(s)
  BY <1>1 DEF InOrder, ToSet
<1>4. \A y \in ToSet(s) : y = Head(s) \/ y \in ToSet(Tail(s))
  <2> SUFFICES ASSUME NEW i \in 1..Len(s), i # 1
               PROVE  s[i] \in ToSet(Tail(s))
    BY <1>1 DEF ToSet
  <2>1. i - 1 \in 1..Len(Tail(s)) /\ Tail(s)[i - 1] = s[i]
    BY <1>1
  <2> QED BY <2>1, <1>1 DEF ToSet
<1>5. Head(s) \notin ToSet(Tail(s))
  BY <1>3, RankType
<1>6. ToSet(Tail(s)) = ToSet(s) \ {Head(s)}
  BY <1>3, <1>4, <1>5
<1>7. Head(s) \in Stage /\ Head(s) \in ToSet(s)
  BY <1>1 DEF ToSet
<1> QED BY <1>1, <1>2, <1>3, <1>6, <1>7

(* The answer alone, which a refusal leaves. *)
LEMMA OnlyAnswer ==
  /\ <<"answer">> \in Seq(Stage) /\ InOrder(<<"answer">>)
  /\ ToSet(<<"answer">>) = {"answer"} /\ <<"answer">> # <<>> /\ Head(<<"answer">>) = "answer"
<1>1. "answer" \in Stage
  <2>1. "answer" \in ToSet(Handler["validate"]) /\ "validate" \in Route
    BY DEF Handler, Route, validate_endpoint, ToSet
  <2> QED BY <2>1 DEF Stage
<1> QED BY <1>1 DEF InOrder, ToSet

LEMMA EarlyRanks ==
  /\ Rank("gate") = 0 /\ Rank("content type") = 1 /\ Rank("loop") = 2 /\ Rank("body") = 3
  /\ Rank("nl") = 4 /\ Rank("nl taken") = 4 /\ Rank("compute") = 5 /\ Rank("compute taken") = 5
  /\ Rank("update") = 6 /\ Rank("parse") = 7 /\ Rank("negotiate") = 8
  BY DEF Rank

LEMMA LateRanks ==
  /\ Rank("protocol session") = 9 /\ Rank("open default") = 9
  /\ Rank("description session") = 9 /\ Rank("optional session") = 10
  /\ Rank("session") = 11 /\ Rank("ontology") = 12 /\ Rank("schema") = 13
  /\ Rank("generate") = 14 /\ Rank("translate") = 15 /\ Rank("explain") = 16
  /\ Rank("execute") = 17 /\ Rank("record") = 18 /\ Rank("answer") = 19
  BY DEF Rank

(* The members of a sequence are those of its places. *)
LEMMA Places ==
  ASSUME NEW S, NEW s \in Seq(S)
  PROVE  /\ ToSet(s) \subseteq S /\ \A i \in DOMAIN s : s[i] \in ToSet(s)
         /\ s \in Seq(ToSet(s))
<1>1. /\ ToSet(s) \subseteq S /\ \A i \in DOMAIN s : s[i] \in ToSet(s)
      /\ Len(s) \in Nat /\ DOMAIN s = 1..Len(s) /\ s \in [1..Len(s) -> S]
  BY ElementOfSeq, LenProperties DEF ToSet
<1>2. s \in [1..Len(s) -> ToSet(s)]
  BY <1>1
<1> HIDE DEF ToSet
<1> QED BY <1>1, <1>2, SeqDef

(* Ranks that grow from each stage to the next grow throughout. *)
LEMMA StepwiseInOrder ==
  ASSUME NEW s \in Seq(Stage), \A i \in 1..Len(s) : i # Len(s) => Rank(s[i]) < Rank(s[i + 1])
  PROVE  InOrder(s)
<1>1. Len(s) \in Nat /\ \A i \in 1..Len(s) : Rank(s[i]) \in Nat
  <2>1. \A stage : Rank(stage) \in Nat
    BY RankType
  <2>2. Len(s) \in Nat
    BY LenProperties
  <2> QED BY <2>1, <2>2
<1>2. SUFFICES ASSUME NEW i \in 1..Len(s), NEW j \in 1..Len(s), i < j,
                      Rank(s[j]) <= Rank(s[i])
               PROVE  FALSE
  BY <1>1 DEF InOrder
<1> DEFINE below == {k \in Nat : k \in 1..Len(s) /\ i < k /\ Rank(s[k]) <= Rank(s[i])}
<1>3. PICK k \in below : \A l \in below : ~ (<<l, k>> \in OpToRel(<, Nat))
  <2>1. below \subseteq Nat /\ j \in below
    BY <1>1, <1>2
  <2> HIDE DEF below
  <2> QED BY <2>1, WFMin, NatLessThanWellFounded
<1>4. k \in 1..Len(s) /\ i < k /\ Rank(s[k]) <= Rank(s[i])
  BY <1>3
<1>5. k - 1 \in 1..Len(s) /\ k - 1 # Len(s) /\ (k - 1) + 1 = k
  BY <1>1, <1>2, <1>4
<1>6. Rank(s[k - 1]) < Rank(s[k])
  BY <1>5
<1>7. k - 1 \notin below
  <2>1. <<k - 1, k>> \in OpToRel(<, Nat)
    BY <1>4, <1>5, <1>1 DEF OpToRel
  <2> HIDE DEF below
  <2> QED BY <1>3, <2>1
<1>8. k - 1 = i
  BY <1>1, <1>2, <1>4, <1>5, <1>6, <1>7
<1> QED BY <1>1, <1>4, <1>6, <1>8

(* A handler whose ranks grow is made of stages in their order. *)
LEMMA HandlerInOrder ==
  ASSUME NEW S, NEW h \in Seq(S), ToSet(h) \subseteq Stage,
         \A i \in 1..Len(h) : i # Len(h) => Rank(h[i]) < Rank(h[i + 1])
  PROVE  h \in Seq(Stage) /\ InOrder(h)
<1>1. h \in Seq(Stage)
  BY Places, SeqMonotonic
<1> QED BY <1>1, StepwiseInOrder

LEMMA sparql_getSound ==
  /\ Handler["sparql_get"] = sparql_get
  /\ Sound(sparql_get, "sparql_get") /\ Rank(sparql_get[1]) > 0
<1> DEFINE h == sparql_get
           S == {"loop", "compute", "update", "parse", "negotiate", "protocol session",
                 "schema", "translate", "execute", "record", "answer"}
<1>1. Handler["sparql_get"] = h /\ ToSet(h) \subseteq Stage
  BY DEF Stage, Route, Handler
<1>2. h \in Seq(S) /\ DOMAIN h = 1..11
  BY DEF sparql_get
<1>3. /\ h[1] = "loop" /\ h[2] = "compute" /\ h[3] = "update" /\ h[4] = "parse"
      /\ h[5] = "negotiate" /\ h[6] = "protocol session" /\ h[7] = "schema"
      /\ h[8] = "translate" /\ h[9] = "execute" /\ h[10] = "record"
      /\ h[11] = "answer"
  BY DEF sparql_get
<1> HIDE DEF h, S
<1>4a. Rank(h[1]) = 2 /\ Rank(h[2]) = 5 /\ Rank(h[3]) = 6
  BY <1>3, EarlyRanks, Zenon
<1>4b. Rank(h[4]) = 7 /\ Rank(h[5]) = 8
  BY <1>3, EarlyRanks, Zenon
<1>4c. Rank(h[6]) = 9 /\ Rank(h[7]) = 13 /\ Rank(h[8]) = 15
  BY <1>3, LateRanks, Zenon
<1>4d. Rank(h[9]) = 17 /\ Rank(h[10]) = 18 /\ Rank(h[11]) = 19
  BY <1>3, LateRanks, Zenon
<1>5. h \in Seq(Stage) /\ InOrder(h)
  <2>1. \A i \in 1..11 : i # 11 => Rank(h[i]) < Rank(h[i + 1])
    BY <1>4a, <1>4b, <1>4c, <1>4d
  <2>2. Len(h) = 11
    BY <1>2, LenProperties
  <2> QED BY <1>1, <1>2, <2>1, <2>2, HandlerInOrder
<1>6. ToSet(h) \subseteq S /\ \A i \in 1..11 : h[i] \in ToSet(h)
  BY <1>2, Places
<1>7. /\ "loop" \in ToSet(h) /\ "execute" \in ToSet(h) /\ "record" \in ToSet(h)
      /\ "answer" \in ToSet(h)
  <2>1. /\ h[1] \in ToSet(h) /\ h[9] \in ToSet(h) /\ h[10] \in ToSet(h)
        /\ h[11] \in ToSet(h)
    BY <1>6
  <2> QED BY <2>1, <1>3, Zenon
<1>9. Sound(h, "sparql_get")
  BY <1>5, <1>7 DEF Sound, Opening
<1> QED BY <1>1, <1>4a, <1>9 DEF h

LEMMA sparql_postSound ==
  /\ Handler["sparql_post"] = sparql_post
  /\ Sound(sparql_post, "sparql_post") /\ Rank(sparql_post[1]) > 0
<1> DEFINE h == sparql_post
           S == {"content type", "loop", "body", "compute", "update", "parse",
                 "negotiate", "protocol session", "schema", "translate", "execute",
                 "record", "answer"}
<1>1. Handler["sparql_post"] = h /\ ToSet(h) \subseteq Stage
  BY DEF Stage, Route, Handler
<1>2. h \in Seq(S) /\ DOMAIN h = 1..13
  BY DEF sparql_post
<1>3. /\ h[1] = "content type" /\ h[2] = "loop" /\ h[3] = "body" /\ h[4] = "compute"
      /\ h[5] = "update" /\ h[6] = "parse" /\ h[7] = "negotiate"
      /\ h[8] = "protocol session" /\ h[9] = "schema" /\ h[10] = "translate"
      /\ h[11] = "execute" /\ h[12] = "record" /\ h[13] = "answer"
  BY DEF sparql_post
<1> HIDE DEF h, S
<1>4a. Rank(h[1]) = 1 /\ Rank(h[2]) = 2 /\ Rank(h[3]) = 3
  BY <1>3, EarlyRanks, Zenon
<1>4b. Rank(h[4]) = 5 /\ Rank(h[5]) = 6 /\ Rank(h[6]) = 7
  BY <1>3, EarlyRanks, Zenon
<1>4c. Rank(h[7]) = 8
  BY <1>3, EarlyRanks, Zenon
<1>4d. Rank(h[8]) = 9 /\ Rank(h[9]) = 13 /\ Rank(h[10]) = 15
  BY <1>3, LateRanks, Zenon
<1>4e. Rank(h[11]) = 17 /\ Rank(h[12]) = 18 /\ Rank(h[13]) = 19
  BY <1>3, LateRanks, Zenon
<1>5. h \in Seq(Stage) /\ InOrder(h)
  <2>1. \A i \in 1..13 : i # 13 => Rank(h[i]) < Rank(h[i + 1])
    BY <1>4a, <1>4b, <1>4c, <1>4d, <1>4e
  <2>2. Len(h) = 13
    BY <1>2, LenProperties
  <2> QED BY <1>1, <1>2, <2>1, <2>2, HandlerInOrder
<1>6. ToSet(h) \subseteq S /\ \A i \in 1..13 : h[i] \in ToSet(h)
  BY <1>2, Places
<1>7. /\ "loop" \in ToSet(h) /\ "execute" \in ToSet(h) /\ "record" \in ToSet(h)
      /\ "answer" \in ToSet(h)
  <2>1. /\ h[2] \in ToSet(h) /\ h[11] \in ToSet(h) /\ h[12] \in ToSet(h)
        /\ h[13] \in ToSet(h)
    BY <1>6
  <2> QED BY <2>1, <1>3, Zenon
<1>9. Sound(h, "sparql_post")
  BY <1>5, <1>7 DEF Sound, Opening
<1> QED BY <1>1, <1>4a, <1>9 DEF h

LEMMA descriptionSound ==
  /\ Handler["description"] = _service_description_response
  /\ Sound(_service_description_response, "description") /\ Rank(_service_description_response[1]) > 0
<1> DEFINE h == _service_description_response
           S == {"loop", "description session", "answer"}
<1>1. Handler["description"] = h /\ ToSet(h) \subseteq Stage
  BY DEF Stage, Route, Handler
<1>2. h \in Seq(S) /\ DOMAIN h = 1..3
  BY DEF _service_description_response
<1>3. /\ h[1] = "loop" /\ h[2] = "description session" /\ h[3] = "answer"
  BY DEF _service_description_response
<1> HIDE DEF h, S
<1>4a. Rank(h[1]) = 2
  BY <1>3, EarlyRanks, Zenon
<1>4b. Rank(h[2]) = 9 /\ Rank(h[3]) = 19
  BY <1>3, LateRanks, Zenon
<1>5. h \in Seq(Stage) /\ InOrder(h)
  <2>1. \A i \in 1..3 : i # 3 => Rank(h[i]) < Rank(h[i + 1])
    BY <1>4a, <1>4b
  <2>2. Len(h) = 3
    BY <1>2, LenProperties
  <2> QED BY <1>1, <1>2, <2>1, <2>2, HandlerInOrder
<1>6. ToSet(h) \subseteq S /\ \A i \in 1..3 : h[i] \in ToSet(h)
  BY <1>2, Places
<1>7. /\ "loop" \in ToSet(h) /\ "answer" \in ToSet(h)
  <2>1. /\ h[1] \in ToSet(h) /\ h[3] \in ToSet(h)
    BY <1>6
  <2> QED BY <2>1, <1>3, Zenon
<1>8. /\ "execute" \notin ToSet(h) /\ "record" \notin ToSet(h)
  BY <1>6 DEF S
<1>9. Sound(h, "description")
  BY <1>5, <1>7, <1>8 DEF Sound, Opening
<1> QED BY <1>1, <1>4a, <1>9 DEF h

LEMMA translateSound ==
  /\ Handler["translate"] = translate_endpoint
  /\ Sound(translate_endpoint, "translate") /\ Rank(translate_endpoint[1]) > 0
<1> DEFINE h == translate_endpoint
           S == {"compute", "optional session", "ontology", "translate", "answer"}
<1>1. Handler["translate"] = h /\ ToSet(h) \subseteq Stage
  BY DEF Stage, Route, Handler
<1>2. h \in Seq(S) /\ DOMAIN h = 1..5
  BY DEF translate_endpoint
<1>3. /\ h[1] = "compute" /\ h[2] = "optional session" /\ h[3] = "ontology"
      /\ h[4] = "translate" /\ h[5] = "answer"
  BY DEF translate_endpoint
<1> HIDE DEF h, S
<1>4a. Rank(h[1]) = 5
  BY <1>3, EarlyRanks, Zenon
<1>4b. Rank(h[2]) = 10 /\ Rank(h[3]) = 12 /\ Rank(h[4]) = 15
  BY <1>3, LateRanks, Zenon
<1>4c. Rank(h[5]) = 19
  BY <1>3, LateRanks, Zenon
<1>5. h \in Seq(Stage) /\ InOrder(h)
  <2>1. \A i \in 1..5 : i # 5 => Rank(h[i]) < Rank(h[i + 1])
    BY <1>4a, <1>4b, <1>4c
  <2>2. Len(h) = 5
    BY <1>2, LenProperties
  <2> QED BY <1>1, <1>2, <2>1, <2>2, HandlerInOrder
<1>6. ToSet(h) \subseteq S /\ \A i \in 1..5 : h[i] \in ToSet(h)
  BY <1>2, Places
<1>7. /\ "answer" \in ToSet(h)
  <2>1. /\ h[5] \in ToSet(h)
    BY <1>6
  <2> QED BY <2>1, <1>3, Zenon
<1>8. /\ "execute" \notin ToSet(h) /\ "record" \notin ToSet(h)
      /\ "protocol session" \notin ToSet(h) /\ "open default" \notin ToSet(h)
      /\ "description session" \notin ToSet(h)
  BY <1>6 DEF S
<1>9. Sound(h, "translate")
  BY <1>5, <1>7, <1>8 DEF Sound, Opening
<1> QED BY <1>1, <1>4a, <1>9 DEF h

LEMMA executeSound ==
  /\ Handler["execute"] = execute_endpoint
  /\ Sound(execute_endpoint, "execute") /\ Rank(execute_endpoint[1]) > 0
<1> DEFINE h == execute_endpoint
           S == {"compute", "session", "ontology", "translate", "execute", "record",
                 "answer"}
<1>1. Handler["execute"] = h /\ ToSet(h) \subseteq Stage
  BY DEF Stage, Route, Handler
<1>2. h \in Seq(S) /\ DOMAIN h = 1..7
  BY DEF execute_endpoint
<1>3. /\ h[1] = "compute" /\ h[2] = "session" /\ h[3] = "ontology"
      /\ h[4] = "translate" /\ h[5] = "execute" /\ h[6] = "record" /\ h[7] = "answer"
  BY DEF execute_endpoint
<1> HIDE DEF h, S
<1>4a. Rank(h[1]) = 5
  BY <1>3, EarlyRanks, Zenon
<1>4b. Rank(h[2]) = 11 /\ Rank(h[3]) = 12 /\ Rank(h[4]) = 15
  BY <1>3, LateRanks, Zenon
<1>4c. Rank(h[5]) = 17 /\ Rank(h[6]) = 18 /\ Rank(h[7]) = 19
  BY <1>3, LateRanks, Zenon
<1>5. h \in Seq(Stage) /\ InOrder(h)
  <2>1. \A i \in 1..7 : i # 7 => Rank(h[i]) < Rank(h[i + 1])
    BY <1>4a, <1>4b, <1>4c
  <2>2. Len(h) = 7
    BY <1>2, LenProperties
  <2> QED BY <1>1, <1>2, <2>1, <2>2, HandlerInOrder
<1>6. ToSet(h) \subseteq S /\ \A i \in 1..7 : h[i] \in ToSet(h)
  BY <1>2, Places
<1>7. /\ "execute" \in ToSet(h) /\ "record" \in ToSet(h) /\ "answer" \in ToSet(h)
  <2>1. /\ h[5] \in ToSet(h) /\ h[6] \in ToSet(h) /\ h[7] \in ToSet(h)
    BY <1>6
  <2> QED BY <2>1, <1>3, Zenon
<1>8. /\ "protocol session" \notin ToSet(h) /\ "open default" \notin ToSet(h)
      /\ "description session" \notin ToSet(h)
  BY <1>6 DEF S
<1>9. Sound(h, "execute")
  BY <1>5, <1>7, <1>8 DEF Sound, Opening
<1> QED BY <1>1, <1>4a, <1>9 DEF h

LEMMA execute_aqlSound ==
  /\ Handler["execute_aql"] = execute_aql_endpoint
  /\ Sound(execute_aql_endpoint, "execute_aql") /\ Rank(execute_aql_endpoint[1]) > 0
<1> DEFINE h == execute_aql_endpoint
           S == {"compute", "session", "execute", "answer"}
<1>1. Handler["execute_aql"] = h /\ ToSet(h) \subseteq Stage
  BY DEF Stage, Route, Handler
<1>2. h \in Seq(S) /\ DOMAIN h = 1..4
  BY DEF execute_aql_endpoint
<1>3. /\ h[1] = "compute" /\ h[2] = "session" /\ h[3] = "execute" /\ h[4] = "answer"
  BY DEF execute_aql_endpoint
<1> HIDE DEF h, S
<1>4a. Rank(h[1]) = 5
  BY <1>3, EarlyRanks, Zenon
<1>4b. Rank(h[2]) = 11 /\ Rank(h[3]) = 17 /\ Rank(h[4]) = 19
  BY <1>3, LateRanks, Zenon
<1>5. h \in Seq(Stage) /\ InOrder(h)
  <2>1. \A i \in 1..4 : i # 4 => Rank(h[i]) < Rank(h[i + 1])
    BY <1>4a, <1>4b
  <2>2. Len(h) = 4
    BY <1>2, LenProperties
  <2> QED BY <1>1, <1>2, <2>1, <2>2, HandlerInOrder
<1>6. ToSet(h) \subseteq S /\ \A i \in 1..4 : h[i] \in ToSet(h)
  BY <1>2, Places
<1>7. /\ "execute" \in ToSet(h) /\ "answer" \in ToSet(h)
  <2>1. /\ h[3] \in ToSet(h) /\ h[4] \in ToSet(h)
    BY <1>6
  <2> QED BY <2>1, <1>3, Zenon
<1>8. /\ "record" \notin ToSet(h) /\ "protocol session" \notin ToSet(h)
      /\ "open default" \notin ToSet(h) /\ "description session" \notin ToSet(h)
  BY <1>6 DEF S
<1>9. Sound(h, "execute_aql")
  BY <1>5, <1>7, <1>8 DEF Sound, Opening, SERVED
<1> QED BY <1>1, <1>4a, <1>9 DEF h

LEMMA explainSound ==
  /\ Handler["explain"] = explain_endpoint
  /\ Sound(explain_endpoint, "explain") /\ Rank(explain_endpoint[1]) > 0
<1> DEFINE h == explain_endpoint
           S == {"compute", "session", "ontology", "translate", "explain", "answer"}
<1>1. Handler["explain"] = h /\ ToSet(h) \subseteq Stage
  BY DEF Stage, Route, Handler
<1>2. h \in Seq(S) /\ DOMAIN h = 1..6
  BY DEF explain_endpoint
<1>3. /\ h[1] = "compute" /\ h[2] = "session" /\ h[3] = "ontology"
      /\ h[4] = "translate" /\ h[5] = "explain" /\ h[6] = "answer"
  BY DEF explain_endpoint
<1> HIDE DEF h, S
<1>4a. Rank(h[1]) = 5
  BY <1>3, EarlyRanks, Zenon
<1>4b. Rank(h[2]) = 11 /\ Rank(h[3]) = 12 /\ Rank(h[4]) = 15
  BY <1>3, LateRanks, Zenon
<1>4c. Rank(h[5]) = 16 /\ Rank(h[6]) = 19
  BY <1>3, LateRanks, Zenon
<1>5. h \in Seq(Stage) /\ InOrder(h)
  <2>1. \A i \in 1..6 : i # 6 => Rank(h[i]) < Rank(h[i + 1])
    BY <1>4a, <1>4b, <1>4c
  <2>2. Len(h) = 6
    BY <1>2, LenProperties
  <2> QED BY <1>1, <1>2, <2>1, <2>2, HandlerInOrder
<1>6. ToSet(h) \subseteq S /\ \A i \in 1..6 : h[i] \in ToSet(h)
  BY <1>2, Places
<1>7. /\ "answer" \in ToSet(h)
  <2>1. /\ h[6] \in ToSet(h)
    BY <1>6
  <2> QED BY <2>1, <1>3, Zenon
<1>8. /\ "execute" \notin ToSet(h) /\ "record" \notin ToSet(h)
      /\ "protocol session" \notin ToSet(h) /\ "open default" \notin ToSet(h)
      /\ "description session" \notin ToSet(h)
  BY <1>6 DEF S
<1>9. Sound(h, "explain")
  BY <1>5, <1>7, <1>8 DEF Sound, Opening
<1> QED BY <1>1, <1>4a, <1>9 DEF h

LEMMA profileSound ==
  /\ Handler["profile"] = profile_endpoint
  /\ Sound(profile_endpoint, "profile") /\ Rank(profile_endpoint[1]) > 0
<1> DEFINE h == profile_endpoint
           S == {"compute", "session", "ontology", "translate", "execute", "record",
                 "answer"}
<1>1. Handler["profile"] = h /\ ToSet(h) \subseteq Stage
  BY DEF Stage, Route, Handler
<1>2. h \in Seq(S) /\ DOMAIN h = 1..7
  BY DEF profile_endpoint
<1>3. /\ h[1] = "compute" /\ h[2] = "session" /\ h[3] = "ontology"
      /\ h[4] = "translate" /\ h[5] = "execute" /\ h[6] = "record" /\ h[7] = "answer"
  BY DEF profile_endpoint
<1> HIDE DEF h, S
<1>4a. Rank(h[1]) = 5
  BY <1>3, EarlyRanks, Zenon
<1>4b. Rank(h[2]) = 11 /\ Rank(h[3]) = 12 /\ Rank(h[4]) = 15
  BY <1>3, LateRanks, Zenon
<1>4c. Rank(h[5]) = 17 /\ Rank(h[6]) = 18 /\ Rank(h[7]) = 19
  BY <1>3, LateRanks, Zenon
<1>5. h \in Seq(Stage) /\ InOrder(h)
  <2>1. \A i \in 1..7 : i # 7 => Rank(h[i]) < Rank(h[i + 1])
    BY <1>4a, <1>4b, <1>4c
  <2>2. Len(h) = 7
    BY <1>2, LenProperties
  <2> QED BY <1>1, <1>2, <2>1, <2>2, HandlerInOrder
<1>6. ToSet(h) \subseteq S /\ \A i \in 1..7 : h[i] \in ToSet(h)
  BY <1>2, Places
<1>7. /\ "execute" \in ToSet(h) /\ "record" \in ToSet(h) /\ "answer" \in ToSet(h)
  <2>1. /\ h[5] \in ToSet(h) /\ h[6] \in ToSet(h) /\ h[7] \in ToSet(h)
    BY <1>6
  <2> QED BY <2>1, <1>3, Zenon
<1>8. /\ "protocol session" \notin ToSet(h) /\ "open default" \notin ToSet(h)
      /\ "description session" \notin ToSet(h)
  BY <1>6 DEF S
<1>9. Sound(h, "profile")
  BY <1>5, <1>7, <1>8 DEF Sound, Opening
<1> QED BY <1>1, <1>4a, <1>9 DEF h

LEMMA validateSound ==
  /\ Handler["validate"] = validate_endpoint
  /\ Sound(validate_endpoint, "validate") /\ Rank(validate_endpoint[1]) > 0
<1> DEFINE h == validate_endpoint
           S == {"compute", "answer"}
<1>1. Handler["validate"] = h /\ ToSet(h) \subseteq Stage
  BY DEF Stage, Route, Handler
<1>2. h \in Seq(S) /\ DOMAIN h = 1..2
  BY DEF validate_endpoint
<1>3. /\ h[1] = "compute" /\ h[2] = "answer"
  BY DEF validate_endpoint
<1> HIDE DEF h, S
<1>4a. Rank(h[1]) = 5
  BY <1>3, EarlyRanks, Zenon
<1>4b. Rank(h[2]) = 19
  BY <1>3, LateRanks, Zenon
<1>5. h \in Seq(Stage) /\ InOrder(h)
  <2>1. \A i \in 1..2 : i # 2 => Rank(h[i]) < Rank(h[i + 1])
    BY <1>4a, <1>4b
  <2>2. Len(h) = 2
    BY <1>2, LenProperties
  <2> QED BY <1>1, <1>2, <2>1, <2>2, HandlerInOrder
<1>6. ToSet(h) \subseteq S /\ \A i \in 1..2 : h[i] \in ToSet(h)
  BY <1>2, Places
<1>7. /\ "answer" \in ToSet(h)
  <2>1. /\ h[2] \in ToSet(h)
    BY <1>6
  <2> QED BY <2>1, <1>3, Zenon
<1>8. /\ "execute" \notin ToSet(h) /\ "record" \notin ToSet(h)
      /\ "protocol session" \notin ToSet(h) /\ "open default" \notin ToSet(h)
      /\ "description session" \notin ToSet(h)
  BY <1>6 DEF S
<1>9. Sound(h, "validate")
  BY <1>5, <1>7, <1>8 DEF Sound, Opening
<1> QED BY <1>1, <1>4a, <1>9 DEF h

LEMMA nl_translateSound ==
  /\ Handler["nl_translate"] = nl_translate_endpoint
  /\ Sound(nl_translate_endpoint, "nl_translate") /\ Rank(nl_translate_endpoint[1]) > 0
<1> DEFINE h == nl_translate_endpoint
           S == {"nl", "optional session", "ontology", "generate", "answer"}
<1>1. Handler["nl_translate"] = h /\ ToSet(h) \subseteq Stage
  BY DEF Stage, Route, Handler
<1>2. h \in Seq(S) /\ DOMAIN h = 1..5
  BY DEF nl_translate_endpoint
<1>3. /\ h[1] = "nl" /\ h[2] = "optional session" /\ h[3] = "ontology"
      /\ h[4] = "generate" /\ h[5] = "answer"
  BY DEF nl_translate_endpoint
<1> HIDE DEF h, S
<1>4a. Rank(h[1]) = 4
  BY <1>3, EarlyRanks, Zenon
<1>4b. Rank(h[2]) = 10 /\ Rank(h[3]) = 12 /\ Rank(h[4]) = 14
  BY <1>3, LateRanks, Zenon
<1>4c. Rank(h[5]) = 19
  BY <1>3, LateRanks, Zenon
<1>5. h \in Seq(Stage) /\ InOrder(h)
  <2>1. \A i \in 1..5 : i # 5 => Rank(h[i]) < Rank(h[i + 1])
    BY <1>4a, <1>4b, <1>4c
  <2>2. Len(h) = 5
    BY <1>2, LenProperties
  <2> QED BY <1>1, <1>2, <2>1, <2>2, HandlerInOrder
<1>6. ToSet(h) \subseteq S /\ \A i \in 1..5 : h[i] \in ToSet(h)
  BY <1>2, Places
<1>7. /\ "answer" \in ToSet(h)
  <2>1. /\ h[5] \in ToSet(h)
    BY <1>6
  <2> QED BY <2>1, <1>3, Zenon
<1>8. /\ "execute" \notin ToSet(h) /\ "record" \notin ToSet(h)
      /\ "protocol session" \notin ToSet(h) /\ "open default" \notin ToSet(h)
      /\ "description session" \notin ToSet(h)
  BY <1>6 DEF S
<1>9. Sound(h, "nl_translate")
  BY <1>5, <1>7, <1>8 DEF Sound, Opening
<1> QED BY <1>1, <1>4a, <1>9 DEF h

LEMMA nl_explainSound ==
  /\ Handler["nl_explain"] = nl_explain_endpoint
  /\ Sound(nl_explain_endpoint, "nl_explain") /\ Rank(nl_explain_endpoint[1]) > 0
<1> DEFINE h == nl_explain_endpoint
           S == {"nl", "optional session", "ontology", "generate", "answer"}
<1>1. Handler["nl_explain"] = h /\ ToSet(h) \subseteq Stage
  BY DEF Stage, Route, Handler
<1>2. h \in Seq(S) /\ DOMAIN h = 1..5
  BY DEF nl_explain_endpoint
<1>3. /\ h[1] = "nl" /\ h[2] = "optional session" /\ h[3] = "ontology"
      /\ h[4] = "generate" /\ h[5] = "answer"
  BY DEF nl_explain_endpoint
<1> HIDE DEF h, S
<1>4a. Rank(h[1]) = 4
  BY <1>3, EarlyRanks, Zenon
<1>4b. Rank(h[2]) = 10 /\ Rank(h[3]) = 12 /\ Rank(h[4]) = 14
  BY <1>3, LateRanks, Zenon
<1>4c. Rank(h[5]) = 19
  BY <1>3, LateRanks, Zenon
<1>5. h \in Seq(Stage) /\ InOrder(h)
  <2>1. \A i \in 1..5 : i # 5 => Rank(h[i]) < Rank(h[i + 1])
    BY <1>4a, <1>4b, <1>4c
  <2>2. Len(h) = 5
    BY <1>2, LenProperties
  <2> QED BY <1>1, <1>2, <2>1, <2>2, HandlerInOrder
<1>6. ToSet(h) \subseteq S /\ \A i \in 1..5 : h[i] \in ToSet(h)
  BY <1>2, Places
<1>7. /\ "answer" \in ToSet(h)
  <2>1. /\ h[5] \in ToSet(h)
    BY <1>6
  <2> QED BY <2>1, <1>3, Zenon
<1>8. /\ "execute" \notin ToSet(h) /\ "record" \notin ToSet(h)
      /\ "protocol session" \notin ToSet(h) /\ "open default" \notin ToSet(h)
      /\ "description session" \notin ToSet(h)
  BY <1>6 DEF S
<1>9. Sound(h, "nl_explain")
  BY <1>5, <1>7, <1>8 DEF Sound, Opening
<1> QED BY <1>1, <1>4a, <1>9 DEF h

LEMMA nl_executeSound ==
  /\ Handler["nl_execute"] = nl_execute_endpoint
  /\ Sound(nl_execute_endpoint, "nl_execute") /\ Rank(nl_execute_endpoint[1]) > 0
<1> DEFINE h == nl_execute_endpoint
           S == {"nl", "compute", "session", "ontology", "generate", "execute", "record",
                 "answer"}
<1>1. Handler["nl_execute"] = h /\ ToSet(h) \subseteq Stage
  BY DEF Stage, Route, Handler
<1>2. h \in Seq(S) /\ DOMAIN h = 1..8
  BY DEF nl_execute_endpoint
<1>3. /\ h[1] = "nl" /\ h[2] = "compute" /\ h[3] = "session" /\ h[4] = "ontology"
      /\ h[5] = "generate" /\ h[6] = "execute" /\ h[7] = "record" /\ h[8] = "answer"
  BY DEF nl_execute_endpoint
<1> HIDE DEF h, S
<1>4a. Rank(h[1]) = 4 /\ Rank(h[2]) = 5
  BY <1>3, EarlyRanks, Zenon
<1>4b. Rank(h[3]) = 11 /\ Rank(h[4]) = 12 /\ Rank(h[5]) = 14
  BY <1>3, LateRanks, Zenon
<1>4c. Rank(h[6]) = 17 /\ Rank(h[7]) = 18 /\ Rank(h[8]) = 19
  BY <1>3, LateRanks, Zenon
<1>5. h \in Seq(Stage) /\ InOrder(h)
  <2>1. \A i \in 1..8 : i # 8 => Rank(h[i]) < Rank(h[i + 1])
    BY <1>4a, <1>4b, <1>4c
  <2>2. Len(h) = 8
    BY <1>2, LenProperties
  <2> QED BY <1>1, <1>2, <2>1, <2>2, HandlerInOrder
<1>6. ToSet(h) \subseteq S /\ \A i \in 1..8 : h[i] \in ToSet(h)
  BY <1>2, Places
<1>7. /\ "execute" \in ToSet(h) /\ "record" \in ToSet(h) /\ "answer" \in ToSet(h)
  <2>1. /\ h[6] \in ToSet(h) /\ h[7] \in ToSet(h) /\ h[8] \in ToSet(h)
    BY <1>6
  <2> QED BY <2>1, <1>3, Zenon
<1>8. /\ "protocol session" \notin ToSet(h) /\ "open default" \notin ToSet(h)
      /\ "description session" \notin ToSet(h)
  BY <1>6 DEF S
<1>9. Sound(h, "nl_execute")
  BY <1>5, <1>7, <1>8 DEF Sound, Opening
<1> QED BY <1>1, <1>4a, <1>9 DEF h

LEMMA nl_samplesSound ==
  /\ Handler["nl_samples"] = nl_samples_endpoint
  /\ Sound(nl_samples_endpoint, "nl_samples") /\ Rank(nl_samples_endpoint[1]) > 0
<1> DEFINE h == nl_samples_endpoint
           S == {"nl", "answer"}
<1>1. Handler["nl_samples"] = h /\ ToSet(h) \subseteq Stage
  BY DEF Stage, Route, Handler
<1>2. h \in Seq(S) /\ DOMAIN h = 1..2
  BY DEF nl_samples_endpoint
<1>3. /\ h[1] = "nl" /\ h[2] = "answer"
  BY DEF nl_samples_endpoint
<1> HIDE DEF h, S
<1>4a. Rank(h[1]) = 4
  BY <1>3, EarlyRanks, Zenon
<1>4b. Rank(h[2]) = 19
  BY <1>3, LateRanks, Zenon
<1>5. h \in Seq(Stage) /\ InOrder(h)
  <2>1. \A i \in 1..2 : i # 2 => Rank(h[i]) < Rank(h[i + 1])
    BY <1>4a, <1>4b
  <2>2. Len(h) = 2
    BY <1>2, LenProperties
  <2> QED BY <1>1, <1>2, <2>1, <2>2, HandlerInOrder
<1>6. ToSet(h) \subseteq S /\ \A i \in 1..2 : h[i] \in ToSet(h)
  BY <1>2, Places
<1>7. /\ "answer" \in ToSet(h)
  <2>1. /\ h[2] \in ToSet(h)
    BY <1>6
  <2> QED BY <2>1, <1>3, Zenon
<1>8. /\ "execute" \notin ToSet(h) /\ "record" \notin ToSet(h)
      /\ "protocol session" \notin ToSet(h) /\ "open default" \notin ToSet(h)
      /\ "description session" \notin ToSet(h)
  BY <1>6 DEF S
<1>9. Sound(h, "nl_samples")
  BY <1>5, <1>7, <1>8 DEF Sound, Opening
<1> QED BY <1>1, <1>4a, <1>9 DEF h

(* Every handler is sound, and nothing of it comes before the gate. *)
LEMMA SoundHandlers ==
  ASSUME NEW to \in Route
  PROVE  Sound(Handler[to], to) /\ \A y \in ToSet(Handler[to]) : Rank(y) > 0
<1>1. Sound(Handler[to], to) /\ Rank(Handler[to][1]) > 0
  <2>1. to \in {"sparql_get", "sparql_post", "description", "translate", "execute", "execute_aql", "explain",
                "profile", "validate", "nl_translate", "nl_explain", "nl_execute", "nl_samples"}
    BY DEF Route, Handler
  <2> QED BY <2>1, sparql_getSound, sparql_postSound, descriptionSound, translateSound, executeSound, execute_aqlSound,
             explainSound, profileSound, validateSound, nl_translateSound, nl_explainSound, nl_executeSound, nl_samplesSound
<1>2. ASSUME NEW s, s = Handler[to], NEW y \in ToSet(s) PROVE Rank(y) > 0
  <2>1. s \in Seq(Stage) /\ InOrder(s) /\ Rank(s[1]) > 0
    BY <1>1, <1>2 DEF Sound
  <2>2. PICK i \in 1..Len(s) : y = s[i]
    BY <2>1, <1>2, LenProperties DEF ToSet
  <2>3. 1 \in 1..Len(s) /\ i \in Nat
    BY <2>1, <2>2, LenProperties
  <2>4. i = 1 \/ Rank(s[1]) < Rank(s[i])
    BY <2>1, <2>3 DEF InOrder
  <2>5. Rank(s[1]) < Rank(s[i]) => Rank(s[i]) > 0
    <3> DEFINE a == Rank(s[1])
               b == Rank(s[i])
    <3>1. a \in 0..19 /\ b \in 0..19
      BY RankType
    <3> HIDE DEF a, b
    <3>2. a < b => b > 0
      BY <3>1
    <3> QED BY <3>2 DEF a, b
  <2> QED BY <2>1, <2>2, <2>4, <2>5
<1> QED BY <1>1, <1>2

----------------------------------------------------------------------------
(* The inductive invariant *)

Ahead(r) == ToSet(todo[r])

Medias == {NotNegotiated, NotAcceptable}
          \cup ToSet(SELECT_PRIORITY) \cup ToSet(CONSTRUCT_PRIORITY)
Known == [text : Text, accept : Headers \cup {<<>>}, form : Forms, media : Medias,
          session : Nat, held : 0..Capacity, status : Status, ran : BOOLEAN,
          recorded : BOOLEAN, truncated : BOOLEAN, left : BOOLEAN]

Typed ==
    /\ mode \in Deployments /\ now \in 0..MaxNow /\ arrived \in 0..MaxArrivals
    /\ loop \in Request \cup {"free"}
    /\ envDefault \in [id : Nat, lastUsed : 0..MaxNow]
    /\ route \in [Request -> Route] /\ is \in [Request -> Known]

Limited ==
    /\ tokens \in [Buckets -> 0..Capacity] /\ refilled \in [Buckets -> 0..MaxNow]
    /\ \A b \in Buckets : refilled[b] <= now

Ordered == todo \in [Request -> Seq(Stage)] /\ \A r \in Request : InOrder(todo[r])

(* What a request's handler knows fits the stages it has ahead. *)
Sane(deployed, to, ahead, known) ==
    /\ ahead = {} => known = Fresh
    /\ ahead # {} => "answer" \in ahead
    /\ known.status # "ok" => ahead = {"answer"}
    /\ known.ran => ahead \subseteq {"record", "answer"}
    /\ known.recorded => known.ran /\ ahead \subseteq {"answer"}
    /\ deployed = "governed" /\ known.status = "ok" /\ known.ran /\ ~known.recorded
          => "record" \in ahead
    /\ "record" \in ahead => known.ran \/ "execute" \in ahead
    /\ "execute" \in ahead /\ SERVED(to) => "record" \in ahead
    /\ deployed = "governed" /\ ~SERVED(to)
          => ahead = {} \/ "gate" \in ahead \/ (ahead = {"answer"} /\ ~known.ran)
    /\ known.status \in RefusedEarly => ~known.ran

(* A media type answers the header and the form it was negotiated for. *)
Suits(accept, form, media) ==
    LET offered == priority_for_form(form)
        quality(i) == Quality(accept, offered[i])
    IN  IF media = NotAcceptable THEN \A i \in DOMAIN offered : quality(i) = 0
        ELSE \E i \in DOMAIN offered :
                /\ offered[i] = media /\ quality(i) > 0
                /\ \A j \in DOMAIN offered :
                      /\ quality(j) <= quality(i)
                      /\ j < i => quality(j) < quality(i)

Chosen(ahead, known) ==
    known.media # NotNegotiated =>
       "parse" \notin ahead /\ "negotiate" \notin ahead
       /\ Suits(known.accept, known.form, known.media)

(* A session of /sparql is opened and used on the loop alone. *)
Alone(r, runs, default, ahead, known) ==
    /\ known.session # 0 =>
          runs = r /\ known.session = default
          /\ "loop" \notin ahead /\ ahead \cap Opening = {}
    /\ ahead \cap Opening # {} => "loop" \in ahead \/ runs = r

(* The requests that may still open the default session. *)
Openings == {r \in Request : Ahead(r) \cap Opening # {}}
Counted == IsFiniteSet(Openings) /\ envDefault.id + Cardinality(Openings) <= arrived

RequestsInv ==
    /\ Typed /\ Limited /\ Ordered /\ Counted
    /\ \A r \in Request : /\ Sane(mode, route[r], Ahead(r), is[r])
                          /\ Chosen(Ahead(r), is[r])
                          /\ Alone(r, loop, envDefault.id, Ahead(r), is[r])

----------------------------------------------------------------------------
(* The stages ahead after a step *)

(* The stage a request is at comes before the others it has ahead. *)
LEMMA AtAhead ==
  ASSUME Ordered, NEW r \in Request, NEW x, At(r, x)
  PROVE  /\ x \in Stage /\ x \in Ahead(r)
         /\ \A y \in Ahead(r) : y = x \/ Rank(x) < Rank(y)
<1>1. todo[r] \in Seq(Stage) /\ InOrder(todo[r]) /\ todo[r] # <<>> /\ Head(todo[r]) = x
  BY DEF Ordered, At
<1> QED BY <1>1, TailStages DEF Ahead

LEMMA AtLater ==
  ASSUME Ordered, NEW r \in Request, NEW x, At(r, x), NEW y, y # x, Rank(y) <= Rank(x)
  PROVE  y \notin Ahead(r)
  BY AtAhead, RankType

(* A request that goes on has passed this stage only. *)
LEMMA GoOnAhead ==
  ASSUME Ordered, NEW r \in Request, NEW x, At(r, x), GoOn(r)
  PROVE  /\ Ordered' /\ Ahead(r)' = Ahead(r) \ {x}
         /\ \A q \in Request \ {r} : Ahead(q)' = Ahead(q)
<1>1. todo[r] \in Seq(Stage) /\ InOrder(todo[r]) /\ todo[r] # <<>> /\ Head(todo[r]) = x
  BY DEF Ordered, At
<1>2. /\ Tail(todo[r]) \in Seq(Stage) /\ InOrder(Tail(todo[r]))
      /\ ToSet(Tail(todo[r])) = ToSet(todo[r]) \ {x}
  BY <1>1, TailStages
<1>3. todo' = [todo EXCEPT ![r] = Tail(todo[r])]
  BY DEF GoOn
<1> QED BY <1>2, <1>3 DEF Ordered, Ahead

(* A refused request has its answer ahead. *)
LEMMA RefusedAhead ==
  ASSUME Ordered, NEW r \in Request, todo' = [todo EXCEPT ![r] = <<"answer">>]
  PROVE  /\ Ordered' /\ Ahead(r)' = {"answer"}
         /\ \A q \in Request \ {r} : Ahead(q)' = Ahead(q)
  BY OnlyAnswer DEF Ordered, Ahead

(* A stage may give way to another of its rank. *)
LEMMA ReplacedAhead ==
  ASSUME Ordered, NEW r \in Request, NEW x, At(r, x), NEW y \in Stage, Rank(y) = Rank(x),
         todo' = [todo EXCEPT ![r] = <<y>> \o Tail(@)]
  PROVE  /\ Ordered' /\ Ahead(r)' = (Ahead(r) \ {x}) \cup {y}
         /\ \A q \in Request \ {r} : Ahead(q)' = Ahead(q)
<1>1. todo[r] \in Seq(Stage) /\ InOrder(todo[r]) /\ todo[r] # <<>> /\ Head(todo[r]) = x
  BY DEF Ordered, At
<1>2. /\ Tail(todo[r]) \in Seq(Stage) /\ InOrder(Tail(todo[r]))
      /\ ToSet(Tail(todo[r])) = ToSet(todo[r]) \ {x}
      /\ \A z \in ToSet(Tail(todo[r])) : Rank(y) < Rank(z)
  BY <1>1, TailStages
<1> DEFINE t == <<y>> \o Tail(todo[r])
<1>3. t \in Seq(Stage) /\ InOrder(t) /\ ToSet(t) = {y} \cup ToSet(Tail(todo[r]))
  BY <1>2, ConsStages
<1>4. todo' = [todo EXCEPT ![r] = t]
  OBVIOUS
<1> QED BY <1>2, <1>3, <1>4 DEF Ordered, Ahead

----------------------------------------------------------------------------
(* What a step does to what the handler knows *)

(* Before its query is executed, a request is not refused and has cost nothing. *)
LEMMA Underway ==
  ASSUME NEW m, NEW to, NEW ahead, NEW known, Sane(m, to, ahead, known),
         NEW x \in ahead, x # "record", x # "answer"
  PROVE  known.status = "ok" /\ ~known.ran /\ ~known.recorded
  BY DEF Sane

Costly == {"execute", "record", "answer"}

(* A stage that costs nothing is passed, the gate by who may. *)
LEMMA SanePassed ==
  ASSUME NEW m, NEW to, NEW ahead, NEW known, Sane(m, to, ahead, known),
         NEW x \in ahead, x \notin Costly, NEW ahead2, NEW known2,
         ahead2 \cap Costly = ahead \cap Costly,
         m = "governed" /\ ~SERVED(to) /\ "gate" \in ahead => "gate" \in ahead2,
         known2.status = known.status, known2.ran = known.ran, known2.recorded = known.recorded
  PROVE  Sane(m, to, ahead2, known2)
<1>1. known2.status = "ok" /\ ~known2.ran /\ ~known2.recorded
  BY Underway DEF Costly
<1>2. /\ "answer" \in ahead2 /\ ("record" \in ahead2 <=> "record" \in ahead)
      /\ ("execute" \in ahead2 <=> "execute" \in ahead)
  BY DEF Sane, Costly
<1> QED BY <1>1, <1>2 DEF Sane, Costly, RefusedEarly

(* A stage that refuses leaves the answer. *)
LEMMA SaneRefused ==
  ASSUME NEW m, NEW to, NEW ahead, NEW known, Sane(m, to, ahead, known),
         NEW x \in ahead, x # "answer", NEW known2,
         known2.status # "ok", known2.status \in RefusedEarly => x # "record",
         known2.ran = known.ran, known2.recorded = known.recorded
  PROVE  Sane(m, to, {"answer"}, known2)
<1>1. ~known2.recorded /\ (x # "record" => ~known2.ran)
  BY Underway DEF Sane
<1>2. m = "governed" /\ ~SERVED(to) => ~known2.ran
  BY DEF Sane
<1> QED BY <1>1, <1>2 DEF Sane

(* A step of one request that leaves the loop and the default session alone. *)
LEMMA LocalStep ==
  ASSUME RequestsInv, NEW r \in Request,
         Ordered', \A q \in Request \ {r} : Ahead(q)' = Ahead(q) /\ is'[q] = is[q],
         Limited', is' \in [Request -> Known], is'[r].session = is[r].session,
         UNCHANGED <<deployment, now, loop, envDefault>>,
         "loop" \in Ahead(r)' => "loop" \in Ahead(r),
         Ahead(r)' \cap Opening # {} =>
            Ahead(r) \cap Opening # {} /\ ("loop" \in Ahead(r) => "loop" \in Ahead(r)'),
         Sane(mode, route[r], Ahead(r)', is'[r]), Chosen(Ahead(r)', is'[r])
  PROVE  RequestsInv'
<1>1. Typed'
  BY DEF RequestsInv, Typed, deployment
<1>2. Counted'
  <2>1. Openings' \subseteq Openings
    BY DEF Openings
  <2>2. /\ IsFiniteSet(Openings) /\ IsFiniteSet(Openings') 
        /\ Cardinality(Openings') \in Nat /\ Cardinality(Openings) \in Nat
        /\ Cardinality(Openings') <= Cardinality(Openings)
    BY <2>1, FS_Subset, FS_CardinalityType DEF RequestsInv, Counted
  <2>3. envDefault.id \in Nat /\ arrived \in Nat /\ envDefault'.id = envDefault.id
        /\ arrived' = arrived
    BY RequestBounds DEF RequestsInv, Typed, deployment
  <2> QED BY <2>2, <2>3 DEF RequestsInv, Counted
<1>3. ASSUME NEW q \in Request
      PROVE  /\ Sane(mode, route[q], Ahead(q), is[q])'
             /\ Chosen(Ahead(q), is[q])'
             /\ Alone(q, loop, envDefault.id, Ahead(q), is[q])'
  <2>1. /\ Sane(mode, route[q], Ahead(q), is[q]) /\ Chosen(Ahead(q), is[q])
        /\ Alone(q, loop, envDefault.id, Ahead(q), is[q])
    BY DEF RequestsInv
  <2>2. mode' = mode /\ route' = route /\ loop' = loop /\ envDefault' = envDefault
    BY DEF deployment
  <2>3. CASE q # r
    <3>1. Ahead(q)' = Ahead(q) /\ is'[q] = is[q]
      BY <2>3
    <3> QED BY <2>1, <2>2, <3>1
  <2>4. CASE q = r
    <3>1. Alone(r, loop, envDefault.id, Ahead(r)', is'[r])
      BY <2>1, <2>4 DEF Alone
    <3> QED BY <2>2, <2>4, <3>1
  <2> QED BY <2>3, <2>4
<1> QED BY <1>1, <1>2, <1>3 DEF RequestsInv

----------------------------------------------------------------------------
(* The media type *)

LEMMA LowestIs ==
  ASSUME NEW S \in SUBSET Nat, S # {}
  PROVE  Lowest(S) \in S /\ \A y \in S : Lowest(S) <= y
<1>1. PICK x \in S : \A y \in S : ~ (<<y, x>> \in OpToRel(<, Nat))
  BY WFMin, NatLessThanWellFounded
<1>2. \A y \in S : x <= y
  <2> SUFFICES ASSUME NEW y \in S, y < x PROVE FALSE
    OBVIOUS
  <2>1. <<y, x>> \in OpToRel(<, Nat)
    BY DEF OpToRel
  <2> QED BY <1>1, <2>1
<1> QED BY <1>2 DEF Lowest

LEMMA HighestIs ==
  ASSUME NEW n \in Nat, NEW S \in SUBSET (0..n), S # {}
  PROVE  Highest(S) \in S /\ \A y \in S : y <= Highest(S)
<1> DEFINE T == {m \in Nat : m <= n /\ n - m \in S}
<1>1. T \in SUBSET Nat /\ T # {}
  <2>1. PICK x \in S : TRUE
    OBVIOUS
  <2>2. n - x \in T
    <3>1. x \in 0..n /\ n - (n - x) = x
      OBVIOUS
    <3> QED BY <2>1, <3>1
  <2> QED BY <2>2
<1>2. Lowest(T) \in T /\ \A m \in T : Lowest(T) <= m
  BY <1>1, LowestIs
<1> DEFINE h == n - Lowest(T)
<1>3. h \in S
  BY <1>2
<1>4. ASSUME NEW y \in S PROVE y <= h
  <2>1. y \in 0..n /\ n - y \in Nat /\ n - (n - y) = y
    OBVIOUS
  <2>2. n - y \in T
    BY <2>1
  <2> HIDE DEF T
  <2>3. Lowest(T) <= n - y
    BY <1>2, <2>2
  <2>4. Lowest(T) \in Nat
    BY <1>1, <1>2
  <2> QED BY <2>1, <2>3, <2>4
<1> QED BY <1>3, <1>4 DEF Highest

(* The server's types of a form. *)
LEMMA Priorities ==
  ASSUME NEW form
  PROVE  LET offered == priority_for_form(form)
         IN  /\ DOMAIN offered = 1..4
             /\ \A i \in 1..4 : offered[i] \in Medias /\ offered[i] # NotAcceptable
<1>1. DOMAIN SELECT_PRIORITY = 1..4 /\ DOMAIN CONSTRUCT_PRIORITY = 1..4
  BY DEF SELECT_PRIORITY, CONSTRUCT_PRIORITY
<1>2. \A i \in 1..4 : SELECT_PRIORITY[i] \in Medias /\ CONSTRUCT_PRIORITY[i] \in Medias
  BY <1>1 DEF Medias, ToSet
<1>3. \A i \in 1..4 : SELECT_PRIORITY[i] # NotAcceptable
  BY DEF SELECT_PRIORITY, NotAcceptable
<1>4. \A i \in 1..4 : CONSTRUCT_PRIORITY[i] # NotAcceptable
  BY DEF CONSTRUCT_PRIORITY, NotAcceptable
<1> QED BY <1>1, <1>2, <1>3, <1>4 DEF priority_for_form

(* The server's types that offers of one quality match. *)
InTier(accept, form, q) ==
    {i \in DOMAIN priority_for_form(form) :
        \E o \in parse_accept_header(accept) :
           o.q = q /\ _matches(o.type, priority_for_form(form)[i])}

(* The quality of a type is that of the best of its tiers. *)
LEMMA QualityIsBestTier ==
  ASSUME NEW accept \in Headers, NEW form, NEW i \in DOMAIN priority_for_form(form)
  PROVE  LET quality == Quality(accept, priority_for_form(form)[i])
         IN  /\ quality \in 0..Full
             /\ \A q \in 1..Full : i \in InTier(accept, form, q) => q <= quality
             /\ quality > 0 => i \in InTier(accept, form, quality)
<1> DEFINE s == priority_for_form(form)[i]
           kept == {offer \in ToSet(accept) : offer.q > 0}
           best == {q \in 1..Full : \E o \in ToSet(accept) : o.q = q /\ _matches(o.type, s)}
           quality == Quality(accept, s)
<1>1. Full \in Nat \ {0} /\ \A o \in ToSet(accept) : o.q \in 0..Full
  <2>1. ToSet(accept) \subseteq [type : STRING \X STRING, q : 0..Full]
    BY HeadersAreOffers, Places
  <2> QED BY <2>1, FullIsPositive
<1>2. CASE kept = {}
  <2>1. \A o \in ToSet(accept) : o.q = 0
    BY <1>1, <1>2
  <2>2. quality = Full
    BY <2>1 DEF Quality
  <2>3. parse_accept_header(accept) = {AnyType}
    BY <1>2 DEF parse_accept_header
  <2>4. AnyType.q = Full /\ _matches(AnyType.type, s)
    BY DEF AnyType, _matches
  <2> QED BY <1>1, <2>2, <2>3, <2>4 DEF InTier
<1>3. CASE kept # {}
  <2>1. ~ \A o \in ToSet(accept) : o.q = 0
    BY <1>1, <1>3
  <2>2. quality = IF best = {} THEN 0 ELSE Highest(best)
    BY <2>1 DEF Quality
  <2>3. parse_accept_header(accept) = kept
    BY <1>3 DEF parse_accept_header
  <2>4. \A q \in 1..Full : i \in InTier(accept, form, q) <=> q \in best
    BY <1>1, <2>3 DEF InTier
  <2>5. best # {} => Highest(best) \in best /\ \A q \in best : q <= Highest(best)
    <3>1. best \in SUBSET (0..Full)
      BY <1>1
    <3> HIDE DEF best
    <3> QED BY <1>1, <3>1, HighestIs
  <2>6. best \subseteq 1..Full
    OBVIOUS
  <2>7. \A q \in best : q <= quality
    BY <2>2, <2>5
  <2>8. quality \in 0..Full /\ (quality > 0 => quality \in best)
    BY <1>1, <2>2, <2>5, <2>6
  <2> HIDE DEF best
  <2> QED BY <1>1, <2>4, <2>6, <2>7, <2>8
<1> QED BY <1>2, <1>3

(* The negotiation finds the best of the server's types, or that there is none. *)
LEMMA NegotiatedSuits ==
  ASSUME NEW accept \in Headers, NEW form
  PROVE  /\ negotiate_media_type(accept, form) \in Medias
         /\ Suits(accept, form, negotiate_media_type(accept, form))
<1> DEFINE offered == priority_for_form(form)
           tier(q) == InTier(accept, form, q)
           tiers == {q \in 1..Full : tier(q) # {}}
           quality(i) == Quality(accept, offered[i])
           media == negotiate_media_type(accept, form)
<1>1. media = IF tiers = {} THEN NotAcceptable ELSE offered[Lowest(tier(Highest(tiers)))]
  BY DEF negotiate_media_type, InTier
<1>2. /\ DOMAIN offered = 1..4 /\ Full \in Nat
      /\ \A i \in 1..4 : offered[i] \in Medias /\ offered[i] # NotAcceptable
  BY Priorities, FullIsPositive
<1>3. \A i \in 1..4 : /\ quality(i) \in 0..Full
                      /\ \A q \in 1..Full : i \in tier(q) => q <= quality(i)
                      /\ quality(i) > 0 => i \in tier(quality(i))
  BY <1>2, QualityIsBestTier
<1>4. \A q : tier(q) \subseteq 1..4
  BY <1>2 DEF InTier
<1> HIDE DEF tier, quality, media
<1>5. \A i \in 1..4 : quality(i) > 0 => quality(i) \in tiers
  BY <1>2, <1>3
<1>6. CASE tiers = {}
  <2>1. media = NotAcceptable /\ \A i \in 1..4 : quality(i) = 0
    BY <1>1, <1>2, <1>3, <1>5, <1>6
  <2> QED BY <1>2, <2>1 DEF Suits, Medias, media, quality
<1>7. CASE tiers # {}
  <2> DEFINE top == Highest(tiers)
             first == Lowest(tier(top))
  <2>1. top \in tiers /\ \A q \in tiers : q <= top
    <3>1. tiers \in SUBSET (0..Full)
      BY <1>2
    <3> HIDE DEF tiers
    <3> QED BY <1>2, <1>7, <3>1, HighestIs
  <2>2. top \in 1..Full /\ tier(top) # {}
    BY <2>1
  <2>3. first \in tier(top) /\ \A i \in tier(top) : first <= i
    <3>1. tier(top) \in SUBSET Nat
      BY <1>4
    <3> HIDE DEF top
    <3> QED BY <2>2, <3>1, LowestIs
  <2> HIDE DEF top, first
  <2>4. first \in 1..4 /\ quality(first) = top
    <3>1. first \in 1..4
      BY <1>4, <2>3
    <3>2. top <= quality(first) /\ quality(first) \in 0..Full
      BY <1>3, <2>2, <2>3, <3>1
    <3>3. quality(first) <= top
      BY <1>5, <2>1, <2>2, <3>1, <3>2
    <3> QED BY <2>2, <3>1, <3>2, <3>3
  <2>5. ASSUME NEW j \in 1..4 PROVE quality(j) <= top /\ (j < first => quality(j) < top)
    <3>1. quality(j) <= top
      BY <1>3, <1>5, <2>1, <2>2
    <3>2. ASSUME j < first, quality(j) = top PROVE FALSE
      BY <1>3, <2>2, <2>3, <2>4, <3>2
    <3> QED BY <1>3, <2>2, <3>1, <3>2
  <2>6. media = offered[first]
    BY <1>1, <1>7 DEF top, first
  <2> QED BY <1>2, <2>2, <2>4, <2>5, <2>6 DEF Suits, media, quality
<1> QED BY <1>6, <1>7 DEF media

----------------------------------------------------------------------------
(* The steps *)

LEMMA FreshKnown == NoText \in Text /\ Fresh \in Known /\ Fresh.session = 0
<1>1. <<>> \in BoundedSeq(Declarations, 1)
  BY DEF BoundedSeq, SeqOf
<1>2. NoText \in Text
  BY <1>1 DEF NoText, Text, Bodies
<1>3. NotNegotiated \in Medias
  BY DEF Medias
<1>4. "select" \in Forms /\ "ok" \in Status
  BY DEF Forms, Status
<1> QED BY <1>2, <1>3, <1>4, RequestBounds DEF Fresh, Known

(* A request that waits for nothing fits any deployment and any loop. *)
LEMMA FreshSane ==
  ASSUME NEW m, NEW to, NEW r, NEW runs, NEW default
  PROVE  Sane(m, to, {}, Fresh) /\ Chosen({}, Fresh) /\ Alone(r, runs, default, {}, Fresh)
<1>1. /\ Fresh.status = "ok" /\ ~Fresh.ran /\ ~Fresh.recorded
      /\ Fresh.media = NotNegotiated /\ Fresh.session = 0
  BY DEF Fresh
<1>2. "ok" \notin RefusedEarly
  BY DEF RefusedEarly
<1>3. Sane(m, to, {}, Fresh)
  BY <1>1, <1>2 DEF Sane
<1> QED BY <1>1, <1>3 DEF Chosen, Alone

LEMMA InitInv == Init => RequestsInv
<1> SUFFICES ASSUME Init PROVE RequestsInv
  OBVIOUS
<1>1. Typed
  <2>1. "validate" \in Route
    BY DEF Route, Handler
  <2> QED BY <2>1, FreshKnown, RequestBounds DEF Init, Typed
<1>2. Limited /\ Ordered
  BY RequestBounds DEF Init, Limited, Ordered, InOrder
<1>3. \A r \in Request : Ahead(r) = {} /\ is[r] = Fresh
  BY DEF Init, Ahead, ToSet
<1>4. Counted
  <2>1. Openings = {}
    BY <1>3 DEF Openings
  <2>2. envDefault.id = 0 /\ arrived = 0
    BY DEF Init
  <2> QED BY <2>1, <2>2, FS_EmptySet DEF Counted
<1>5. ASSUME NEW r \in Request
      PROVE  /\ Sane(mode, route[r], Ahead(r), is[r]) /\ Chosen(Ahead(r), is[r])
             /\ Alone(r, loop, envDefault.id, Ahead(r), is[r])
  BY <1>3, FreshSane
<1> QED BY <1>1, <1>2, <1>4, <1>5 DEF RequestsInv

(* A stage that only lets pass or refuses. *)
LEMMA PassOrRefuse ==
  ASSUME RequestsInv, NEW r \in Request, NEW x, At(r, x), x # "answer", x # "loop",
         UNCHANGED <<deployment, now, loop, limits, envDefault>>,
         \/ /\ GoOn(r) /\ UNCHANGED is /\ x \notin Costly
            /\ x = "gate" => (mode = "governed" => SERVED(route[r]))
         \/ \E s \in Status \ {"ok"} : Refuse(r, s) /\ (s \in RefusedEarly => x # "record")
  PROVE  RequestsInv'
<1>1. /\ Ordered /\ is \in [Request -> Known] /\ x \in Ahead(r) /\ Limited'
      /\ Sane(mode, route[r], Ahead(r), is[r]) /\ Chosen(Ahead(r), is[r])
  BY AtAhead DEF RequestsInv, Typed, Limited, limits
<1>2. CASE /\ GoOn(r) /\ UNCHANGED is /\ x \notin Costly
           /\ x = "gate" => (mode = "governed" => SERVED(route[r]))
  <2>1. /\ Ordered' /\ Ahead(r)' = Ahead(r) \ {x}
        /\ \A q \in Request \ {r} : Ahead(q)' = Ahead(q)
    BY <1>1, <1>2, GoOnAhead
  <2>2. Sane(mode, route[r], Ahead(r)', is[r])
    <3>1. /\ Ahead(r)' \cap Costly = Ahead(r) \cap Costly
          /\ mode = "governed" /\ ~SERVED(route[r]) /\ "gate" \in Ahead(r)
                => "gate" \in Ahead(r)'
      BY <1>2, <2>1
    <3> QED BY <1>1, <1>2, <3>1, SanePassed
  <2>3. Chosen(Ahead(r)', is[r])
    BY <1>1, <2>1 DEF Chosen
  <2> QED BY <1>1, <1>2, <2>1, <2>2, <2>3, LocalStep
<1>3. CASE \E s \in Status \ {"ok"} : Refuse(r, s) /\ (s \in RefusedEarly => x # "record")
  <2>1. PICK s \in Status \ {"ok"} : Refuse(r, s) /\ (s \in RefusedEarly => x # "record")
    BY <1>3
  <2>2. /\ Ordered' /\ Ahead(r)' = {"answer"}
        /\ \A q \in Request \ {r} : Ahead(q)' = Ahead(q)
    BY <1>1, <2>1, RefusedAhead DEF Refuse
  <2>3. /\ is' = [is EXCEPT ![r].status = s] /\ is' \in [Request -> Known]
        /\ \A q \in Request \ {r} : is'[q] = is[q]
        /\ is'[r].status = s /\ is'[r].ran = is[r].ran /\ is'[r].recorded = is[r].recorded
        /\ is'[r].media = is[r].media /\ is'[r].accept = is[r].accept
        /\ is'[r].form = is[r].form /\ is'[r].session = is[r].session
    <3> DEFINE k == [is[r] EXCEPT !.status = s]
    <3>1. is' = [is EXCEPT ![r] = k]
      BY <2>1 DEF Refuse
    <3>2. /\ k \in Known /\ k.status = s /\ k.ran = is[r].ran /\ k.recorded = is[r].recorded
          /\ k.media = is[r].media /\ k.accept = is[r].accept
          /\ k.form = is[r].form /\ k.session = is[r].session
      BY <1>1 DEF Known
    <3> HIDE DEF k
    <3> QED BY <1>1, <2>1, <3>1, <3>2 DEF Refuse
  <2>4. Sane(mode, route[r], Ahead(r)', is'[r])
    <3>1. is'[r].status # "ok" /\ (is'[r].status \in RefusedEarly => x # "record")
      BY <2>1, <2>3
    <3>2. is'[r].ran = is[r].ran /\ is'[r].recorded = is[r].recorded
      BY <2>3
    <3>3. Sane(mode, route[r], {"answer"}, is'[r])
      BY <1>1, <3>1, <3>2, SaneRefused
    <3> QED BY <2>2, <3>3
  <2>5. Chosen(Ahead(r)', is'[r])
    BY <1>1, <2>2, <2>3 DEF Chosen
  <2> QED BY <1>1, <2>2, <2>3, <2>4, <2>5, LocalStep DEF Opening
<1> QED BY <1>2, <1>3

(* The gate refuses a route it does not serve before anything is spent on it. *)
LEMMA GateStep == ASSUME RequestsInv, NEW r \in Request, Gate(r) PROVE RequestsInv'
<1>1. At(r, "gate") /\ UNCHANGED <<deployment, now, loop, limits, envDefault>>
  BY DEF Gate
<1>2. \/ \E s \in {"400", "401", "403", "503"} : Refuse(r, s)
      \/ GoOn(r) /\ UNCHANGED is /\ (mode = "governed" => SERVED(route[r]))
  BY DEF Gate
<1> QED BY <1>1, <1>2, PassOrRefuse DEF Status, RefusedEarly, Costly

(* The stages that check a request or get something for it. *)
LEMMA CheckStep ==
  ASSUME RequestsInv, NEW r \in Request,
         \/ ContentType(r) \/ _extract_query_from_post(r) \/ _resolver_for_session(r)
         \/ _get_session(r) \/ _get_optional_session(r) \/ _resolver_or_422(r)
         \/ Translate(r) \/ Generate(r) \/ Explain(r)
  PROVE  RequestsInv'
<1>1. CASE ContentType(r)
  BY <1>1, PassOrRefuse DEF ContentType, Status, RefusedEarly, Costly
<1>2. CASE _extract_query_from_post(r)
  BY <1>2, PassOrRefuse DEF _extract_query_from_post, Status, RefusedEarly, Costly
<1>3. CASE _resolver_for_session(r)
  BY <1>3, PassOrRefuse DEF _resolver_for_session, Status, RefusedEarly, Costly
<1>4. CASE _get_session(r)
  BY <1>4, PassOrRefuse DEF _get_session, SessionRefusals, Status, RefusedEarly, Costly
<1>5. CASE _get_optional_session(r)
  BY <1>5, PassOrRefuse DEF _get_optional_session, Status, RefusedEarly, Costly
<1>6. CASE _resolver_or_422(r)
  BY <1>6, PassOrRefuse DEF _resolver_or_422, Status, RefusedEarly, Costly
<1>7. CASE Translate(r)
  BY <1>7, PassOrRefuse DEF Translate, Status, RefusedEarly, Costly
<1>8. CASE Generate(r)
  BY <1>8, PassOrRefuse DEF Generate, Status, RefusedEarly, Costly
<1>9. CASE Explain(r)
  BY <1>9, PassOrRefuse DEF Explain, Status, RefusedEarly, Costly
<1> QED BY <1>1, <1>2, <1>3, <1>4, <1>5, <1>6, <1>7, <1>8, <1>9

(* The buckets' tokens are at most their capacity, and at least none. *)
LEMMA LevelType == ASSUME RequestsInv, NEW b \in Buckets PROVE Level(b) \in 0..Capacity
<1>1. /\ tokens[b] \in Nat /\ refilled[b] \in Nat /\ refilled[b] <= now /\ now \in Nat
      /\ Capacity \in Nat
  BY RequestBounds DEF RequestsInv, Typed, Limited
<1> QED BY <1>1 DEF Level

(* The limiter reads a bucket. *)
LEMMA ReadStep ==
  ASSUME RequestsInv, NEW r \in Request, NEW b \in Buckets, ReadBucket(r, b)
  PROVE  RequestsInv'
<1>1. /\ Ordered /\ is \in [Request -> Known] /\ Limited /\ At(r, b)
      /\ Sane(mode, route[r], Ahead(r), is[r]) /\ Chosen(Ahead(r), is[r])
      /\ b \in Ahead(r)
  BY AtAhead DEF RequestsInv, Typed, ReadBucket
<1>2. /\ b \in {"compute", "nl"} /\ Taken[b] \in {"compute taken", "nl taken"}
      /\ Taken[b] \in Stage /\ Rank(Taken[b]) = Rank(b)
  <2>1. CASE b = "compute"
    BY <2>1, EarlyRanks, LateRanks DEF Taken, Stage
  <2>2. CASE b = "nl"
    BY <2>2, EarlyRanks, LateRanks DEF Taken, Stage
  <2> QED BY <2>1, <2>2 DEF Buckets
<1>3. /\ Ordered' /\ Ahead(r)' = (Ahead(r) \ {b}) \cup {Taken[b]}
      /\ \A q \in Request \ {r} : Ahead(q)' = Ahead(q)
  BY <1>1, <1>2, ReplacedAhead DEF ReadBucket
<1> DEFINE k == [is[r] EXCEPT !.held = Level(b)]
<1>4. /\ k \in Known /\ k.status = is[r].status /\ k.ran = is[r].ran
      /\ k.recorded = is[r].recorded /\ k.media = is[r].media /\ k.accept = is[r].accept
      /\ k.form = is[r].form /\ k.session = is[r].session
  BY <1>1, LevelType DEF Known
<1>5. is' = [is EXCEPT ![r] = k]
  BY DEF ReadBucket
<1> HIDE DEF k
<1>6. is' \in [Request -> Known] /\ is'[r] = k /\ \A q \in Request \ {r} : is'[q] = is[q]
  BY <1>1, <1>4, <1>5
<1>7. Sane(mode, route[r], Ahead(r)', k)
  <2>1. /\ Ahead(r)' \cap Costly = Ahead(r) \cap Costly /\ b \notin Costly
        /\ "gate" \in Ahead(r) => "gate" \in Ahead(r)'
    BY <1>2, <1>3 DEF Costly
  <2> QED BY <1>1, <1>4, <2>1, SanePassed
<1>8. Chosen(Ahead(r)', k)
  BY <1>1, <1>2, <1>3, <1>4 DEF Chosen
<1>9. /\ "loop" \in Ahead(r)' <=> "loop" \in Ahead(r)
      /\ Ahead(r)' \cap Opening = Ahead(r) \cap Opening
  BY <1>2, <1>3 DEF Opening
<1>10. Limited' /\ UNCHANGED <<deployment, now, loop, envDefault>>
  BY <1>1 DEF ReadBucket, Limited, limits
<1> QED BY <1>3, <1>4, <1>6, <1>7, <1>8, <1>9, <1>10, LocalStep

(* A stage that learns something, and then passes or refuses. *)
LEMMA LearnStep ==
  ASSUME RequestsInv, NEW r \in Request, NEW x, At(r, x), x \notin Costly, x \notin {"loop", "gate"},
         NEW k \in Known, is' = [is EXCEPT ![r] = k],
         k.ran = is[r].ran, k.recorded = is[r].recorded, k.session = is[r].session,
         Chosen(Ahead(r) \ {x}, k), Limited',
         UNCHANGED <<deployment, now, loop, envDefault>>,
         \/ GoOn(r) /\ k.status = is[r].status
         \/ todo' = [todo EXCEPT ![r] = <<"answer">>] /\ k.status # "ok"
  PROVE  RequestsInv'
<1>1. /\ Ordered /\ is \in [Request -> Known] /\ x \in Ahead(r)
      /\ Sane(mode, route[r], Ahead(r), is[r])
  BY AtAhead DEF RequestsInv, Typed
<1>2. is' \in [Request -> Known] /\ is'[r] = k /\ \A q \in Request \ {r} : is'[q] = is[q]
  BY <1>1
<1>3. CASE GoOn(r) /\ k.status = is[r].status
  <2>1. /\ Ordered' /\ Ahead(r)' = Ahead(r) \ {x}
        /\ \A q \in Request \ {r} : Ahead(q)' = Ahead(q)
    BY <1>1, <1>3, GoOnAhead
  <2>2. Sane(mode, route[r], Ahead(r)', k)
    <3>1. /\ Ahead(r)' \cap Costly = Ahead(r) \cap Costly
          /\ "gate" \in Ahead(r) => "gate" \in Ahead(r)'
      BY <2>1
    <3> QED BY <1>1, <1>3, <3>1, SanePassed
  <2>3. ("loop" \in Ahead(r)' <=> "loop" \in Ahead(r)) /\ Ahead(r)' \subseteq Ahead(r)
    BY <2>1
  <2> QED BY <1>2, <2>1, <2>2, <2>3, LocalStep
<1>4. CASE todo' = [todo EXCEPT ![r] = <<"answer">>] /\ k.status # "ok"
  <2>1. /\ Ordered' /\ Ahead(r)' = {"answer"}
        /\ \A q \in Request \ {r} : Ahead(q)' = Ahead(q)
    BY <1>1, <1>4, RefusedAhead
  <2>2. Sane(mode, route[r], {"answer"}, k)
    BY <1>1, <1>4, SaneRefused DEF Costly
  <2>3. Chosen({"answer"}, k)
    BY DEF Chosen
  <2> QED BY <1>2, <2>1, <2>2, <2>3, LocalStep DEF Opening
<1> QED BY <1>3, <1>4

(* The limiter takes a token, or finds none. *)
LEMMA TakeStep ==
  ASSUME RequestsInv, NEW r \in Request, NEW b \in Buckets, TakeToken(r, b)
  PROVE  RequestsInv'
<1> DEFINE level == is[r].held
           k == IF level > 0 THEN [is[r] EXCEPT !.held = 0]
                ELSE [is[r] EXCEPT !.held = 0, !.status = "429"]
<1>1. /\ is \in [Request -> Known] /\ Limited /\ level \in 0..Capacity /\ now \in 0..MaxNow
      /\ Capacity \in Nat /\ MaxNow \in Nat /\ Chosen(Ahead(r), is[r])
  BY RequestBounds DEF RequestsInv, Typed, Known
<1>2. /\ At(r, Taken[b]) /\ Taken[b] \notin Costly /\ Taken[b] \notin {"loop", "gate"}
      /\ UNCHANGED <<deployment, now, loop, envDefault>>
  <2>1. Taken[b] \in {"compute taken", "nl taken"}
    <3>1. CASE b = "compute"
      BY <3>1 DEF Taken
    <3>2. CASE b = "nl"
      BY <3>2 DEF Taken
    <3> QED BY <3>1, <3>2 DEF Buckets
  <2> QED BY <2>1 DEF TakeToken, Costly
<1>3. Limited'
  BY <1>1 DEF TakeToken, Limited
<1>4. /\ k \in Known /\ k.ran = is[r].ran /\ k.recorded = is[r].recorded
      /\ k.session = is[r].session /\ k.media = is[r].media /\ k.accept = is[r].accept
      /\ k.form = is[r].form /\ k.status = IF level > 0 THEN is[r].status ELSE "429"
  <2>1. "429" \in Status
    BY DEF Status, RefusedEarly
  <2>2. is[r] \in Known /\ 0 \in 0..Capacity
    BY <1>1
  <2> QED BY <2>1, <2>2 DEF Known
<1>5. is' = [is EXCEPT ![r] = k]
  BY DEF TakeToken
<1>6. IF level > 0 THEN GoOn(r) ELSE todo' = [todo EXCEPT ![r] = <<"answer">>]
  BY DEF TakeToken
<1> HIDE DEF k
<1>7. Chosen(Ahead(r) \ {Taken[b]}, k)
  BY <1>1, <1>4 DEF Chosen
<1> QED BY <1>2, <1>3, <1>4, <1>5, <1>6, <1>7, LearnStep

(* An Update is refused before it is parsed. *)
LEMMA DetectStep ==
  ASSUME RequestsInv, NEW r \in Request, DetectUpdate(r)
  PROVE  RequestsInv'
<1>1. /\ is \in [Request -> Known] /\ Limited' /\ Chosen(Ahead(r), is[r])
  BY DEF RequestsInv, Typed, Limited, DetectUpdate, limits
<1>2. PICK text \in Texts :
         IF is_sparql_update(text)
         THEN /\ todo' = [todo EXCEPT ![r] = <<"answer">>]
              /\ is' = [is EXCEPT ![r].text = text, ![r].status = "405"]
         ELSE GoOn(r) /\ is' = [is EXCEPT ![r].text = text]
  BY DEF DetectUpdate
<1> DEFINE k == IF is_sparql_update(text) THEN [is[r] EXCEPT !.text = text, !.status = "405"]
                ELSE [is[r] EXCEPT !.text = text]
<1>3. /\ k \in Known /\ k.ran = is[r].ran /\ k.recorded = is[r].recorded
      /\ k.session = is[r].session /\ k.media = is[r].media /\ k.accept = is[r].accept
      /\ k.form = is[r].form
      /\ k.status = IF is_sparql_update(text) THEN "405" ELSE is[r].status
  <2>1. "405" \in Status
    BY DEF Status, RefusedEarly
  <2>2. is[r] \in Known /\ text \in Text
    BY <1>1, TextsAreTexts
  <2> QED BY <2>1, <2>2 DEF Known
<1>4. is' = [is EXCEPT ![r] = k]
  BY <1>2
<1> HIDE DEF k
<1>5. Chosen(Ahead(r) \ {"update"}, k)
  BY <1>1, <1>3 DEF Chosen
<1>6. At(r, "update") /\ UNCHANGED <<deployment, now, loop, envDefault>>
  BY DEF DetectUpdate
<1> QED BY <1>1, <1>2, <1>3, <1>4, <1>5, <1>6, LearnStep DEF Costly

(* A query is parsed before a media type is chosen for its form. *)
LEMMA ParseStep ==
  ASSUME RequestsInv, NEW r \in Request, Parse(r)
  PROVE  RequestsInv'
<1>1. CASE is[r].text.body # "query"
  BY <1>1, PassOrRefuse DEF Parse, Status, RefusedEarly
<1>2. CASE is[r].text.body = "query"
  <2>1. /\ is \in [Request -> Known] /\ Limited' /\ Chosen(Ahead(r), is[r]) /\ Ordered
    BY DEF RequestsInv, Typed, Limited, Parse, limits
  <2>2. PICK form \in Forms : is' = [is EXCEPT ![r].form = form, ![r].text = NoText]
    BY <1>2 DEF Parse
  <2> DEFINE k == [is[r] EXCEPT !.form = form, !.text = NoText]
  <2>3. /\ k \in Known /\ k.ran = is[r].ran /\ k.recorded = is[r].recorded
        /\ k.session = is[r].session /\ k.media = is[r].media /\ k.status = is[r].status
    BY <2>1, FreshKnown DEF Known
  <2>4. is' = [is EXCEPT ![r] = k]
    BY <2>2
  <2> HIDE DEF k
  <2>5. At(r, "parse") /\ GoOn(r) /\ UNCHANGED <<deployment, now, loop, envDefault>>
    BY <1>2 DEF Parse
  <2>6. Chosen(Ahead(r) \ {"parse"}, k)
    BY <2>1, <2>3, <2>5, AtAhead DEF Chosen
  <2> QED BY <2>1, <2>3, <2>4, <2>5, <2>6, LearnStep DEF Costly
<1> QED BY <1>1, <1>2

(* The media type is chosen for the header and the form. *)
LEMMA NegotiateStep ==
  ASSUME RequestsInv, NEW r \in Request, Negotiate(r)
  PROVE  RequestsInv'
<1>1. /\ is \in [Request -> Known] /\ Limited' /\ Ordered
  BY DEF RequestsInv, Typed, Limited, Negotiate, limits
<1>2. PICK accept \in Headers :
         LET media == negotiate_media_type(accept, is[r].form)
             known == [is EXCEPT ![r].accept = accept, ![r].media = media]
         IN  IF media = NotAcceptable
             THEN /\ todo' = [todo EXCEPT ![r] = <<"answer">>]
                  /\ is' = [known EXCEPT ![r].status = "406"]
             ELSE GoOn(r) /\ is' = known
  BY DEF Negotiate
<1> DEFINE media == negotiate_media_type(accept, is[r].form)
           k == IF media = NotAcceptable
                THEN [is[r] EXCEPT !.accept = accept, !.media = media, !.status = "406"]
                ELSE [is[r] EXCEPT !.accept = accept, !.media = media]
<1>3. media \in Medias /\ Suits(accept, is[r].form, media)
  BY NegotiatedSuits
<1>4. /\ IF media = NotAcceptable THEN todo' = [todo EXCEPT ![r] = <<"answer">>] ELSE GoOn(r)
      /\ is' = [is EXCEPT ![r] = k]
  <2> HIDE DEF media
  <2>1. CASE media = NotAcceptable
    BY <1>1, <1>2, <2>1 DEF media
  <2>2. CASE media # NotAcceptable
    BY <1>1, <1>2, <2>2 DEF media
  <2> QED BY <2>1, <2>2
<1> HIDE DEF media
<1>5. /\ k \in Known /\ k.ran = is[r].ran /\ k.recorded = is[r].recorded
      /\ k.session = is[r].session /\ k.media = media /\ k.accept = accept
      /\ k.form = is[r].form
      /\ k.status = IF media = NotAcceptable THEN "406" ELSE is[r].status
  <2>1. "406" \in Status
    BY DEF Status, RefusedEarly
  <2>2. is[r] \in Known
    BY <1>1
  <2> QED BY <1>3, <2>1, <2>2 DEF Known
<1> HIDE DEF k
<1>6. At(r, "negotiate") /\ UNCHANGED <<deployment, now, loop, envDefault>>
  BY DEF Negotiate
<1>7. Chosen(Ahead(r) \ {"negotiate"}, k)
  <2>1. "parse" \notin Ahead(r)
    <3>1. Rank("parse") <= Rank("negotiate")
      <4>1. Rank("parse") = 7 /\ Rank("negotiate") = 8
        BY EarlyRanks, LateRanks
      <4> QED BY <4>1
    <3> QED BY <1>1, <1>6, <3>1, AtLater
  <2> QED BY <1>3, <1>5, <2>1 DEF Chosen
<1> QED BY <1>1, <1>4, <1>5, <1>6, <1>7, LearnStep DEF Costly

(* A query that runs has only its record and its answer ahead. *)
LEMMA ExecuteStep ==
  ASSUME RequestsInv, NEW r \in Request, Execute(r)
  PROVE  RequestsInv'
<1>1. /\ is \in [Request -> Known] /\ Limited' /\ Ordered /\ Chosen(Ahead(r), is[r])
      /\ Sane(mode, route[r], Ahead(r), is[r])
  BY DEF RequestsInv, Typed, Limited, Execute, limits
<1>2. /\ At(r, "execute") /\ UNCHANGED <<deployment, now, loop, envDefault>>
  BY DEF Execute
<1>3. /\ "execute" \in Ahead(r) /\ "gate" \notin Ahead(r) /\ "loop" \notin Ahead(r)
      /\ Ahead(r) \cap Opening = {}
      /\ Ahead(r) \ {"execute"} \subseteq {"record", "answer"}
  <2>1. "execute" \in Ahead(r) /\ \A y \in Ahead(r) : y = "execute" \/ Rank("execute") < Rank(y)
    BY <1>1, <1>2, AtAhead
  <2>2. ASSUME NEW y \in Ahead(r), y # "execute" PROVE y \in {"record", "answer"}
    <3>1. Rank(y) > 17
      <4>1. Rank("execute") = 17
        BY EarlyRanks, LateRanks
      <4> QED BY <2>1, <2>2, <4>1, RankType
    <3>2. y = "record" \/ y = "answer"
      BY <3>1, LastRanks
    <3> QED BY <3>2
  <2> QED BY <2>1, <2>2 DEF Opening
<1>4. /\ is[r].status = "ok" /\ ~is[r].ran /\ ~is[r].recorded
      /\ mode = "governed" => SERVED(route[r])
  <2>1. mode = "governed" => SERVED(route[r])
    BY <1>1, <1>3 DEF Sane
  <2> QED BY <1>1, <1>3, <2>1, Underway
<1>5. CASE GoOn(r) /\ \E more, probed \in BOOLEAN :
              is' = [is EXCEPT ![r] = Materialised(@, more, probed)]
  <2>1. PICK more, probed \in BOOLEAN : is' = [is EXCEPT ![r] = Materialised(is[r], more, probed)]
    BY <1>5
  <2> DEFINE k == Materialised(is[r], more, probed)
  <2>2. /\ k \in Known /\ k.ran /\ ~k.recorded /\ k.status = "ok" /\ k.session = is[r].session
        /\ k.media = is[r].media /\ k.accept = is[r].accept /\ k.form = is[r].form
    BY <1>1, <1>4 DEF Known, Materialised
  <2> HIDE DEF k
  <2>3. is' \in [Request -> Known] /\ is'[r] = k /\ \A q \in Request \ {r} : is'[q] = is[q]
    BY <1>1, <2>1, <2>2 DEF k
  <2>4. /\ Ordered' /\ Ahead(r)' = Ahead(r) \ {"execute"}
        /\ \A q \in Request \ {r} : Ahead(q)' = Ahead(q)
    BY <1>1, <1>2, <1>5, GoOnAhead
  <2>5. Sane(mode, route[r], Ahead(r)', k)
    <3>1. /\ "answer" \in Ahead(r)' /\ ("record" \in Ahead(r)' <=> "record" \in Ahead(r))
          /\ "execute" \notin Ahead(r)' /\ Ahead(r)' \subseteq {"record", "answer"}
      BY <1>1, <1>3, <2>4 DEF Sane
    <3>2. mode = "governed" => SERVED(route[r]) /\ "record" \in Ahead(r)
      BY <1>1, <1>3 DEF Sane
    <3>3. "ok" \notin RefusedEarly
      BY DEF RefusedEarly
    <3> QED BY <2>2, <3>1, <3>2, <3>3 DEF Sane
  <2>6. Chosen(Ahead(r)', k)
    BY <1>1, <2>2, <2>4 DEF Chosen
  <2>7. Ahead(r)' \cap Opening = {} /\ "loop" \notin Ahead(r)'
    BY <1>3, <2>4
  <2> QED BY <1>1, <1>2, <2>2, <2>3, <2>4, <2>5, <2>6, <2>7, LocalStep
<1>6. CASE \E s \in {"failed"} \cup (IF loop = r THEN {"timed out"} ELSE {}) :
              /\ todo' = [todo EXCEPT ![r] = <<"answer">>]
              /\ is' = [is EXCEPT ![r].ran = TRUE, ![r].status = s]
  <2>1. PICK s \in {"failed", "timed out"} :
              /\ todo' = [todo EXCEPT ![r] = <<"answer">>]
              /\ is' = [is EXCEPT ![r].ran = TRUE, ![r].status = s]
    BY <1>6
  <2> DEFINE k == [is[r] EXCEPT !.ran = TRUE, !.status = s]
  <2>2. /\ k \in Known /\ k.ran /\ ~k.recorded /\ k.status = s /\ k.session = is[r].session
        /\ k.media = is[r].media /\ k.accept = is[r].accept /\ k.form = is[r].form
    <3>1. s \in Status
      BY DEF Status
    <3>2. is[r] \in Known
      BY <1>1
    <3> QED BY <1>4, <3>1, <3>2 DEF Known
  <2>3. is' = [is EXCEPT ![r] = k]
    BY <2>1
  <2> HIDE DEF k
  <2>4. is' \in [Request -> Known] /\ is'[r] = k /\ \A q \in Request \ {r} : is'[q] = is[q]
    BY <1>1, <2>2, <2>3
  <2>5. /\ Ordered' /\ Ahead(r)' = {"answer"}
        /\ \A q \in Request \ {r} : Ahead(q)' = Ahead(q)
    BY <1>1, <2>1, RefusedAhead
  <2>6. Sane(mode, route[r], {"answer"}, k)
    <3>1. mode = "governed" => SERVED(route[r])
      BY <1>4
    <3>2. k.status # "ok" /\ k.status \notin RefusedEarly
      BY <2>2 DEF RefusedEarly
    <3> QED BY <2>2, <3>1, <3>2 DEF Sane
  <2>7. Chosen({"answer"}, k)
    BY <1>1, <2>2 DEF Chosen
  <2> QED BY <1>1, <1>2, <2>2, <2>4, <2>5, <2>6, <2>7, LocalStep DEF Opening
<1> QED BY <1>5, <1>6 DEF Execute

(* A question is recorded after its query ran. *)
LEMMA RecordStep ==
  ASSUME RequestsInv, NEW r \in Request, Record(r)
  PROVE  RequestsInv'
<1>1. /\ is \in [Request -> Known] /\ Limited' /\ Ordered /\ Chosen(Ahead(r), is[r])
      /\ Sane(mode, route[r], Ahead(r), is[r])
  BY DEF RequestsInv, Typed, Limited, Record, limits
<1>2. /\ At(r, "record") /\ UNCHANGED <<deployment, now, loop, limits, envDefault>>
  BY DEF Record
<1>3. CASE mode = "governed" /\ Refuse(r, "not recorded")
  <2>1. "not recorded" \in Status \ {"ok"} /\ "not recorded" \notin RefusedEarly
    BY DEF Status, RefusedEarly
  <2> QED BY <1>2, <1>3, <2>1, PassOrRefuse
<1>4. CASE GoOn(r) /\ is' = [is EXCEPT ![r].recorded = mode = "governed"]
  <2>1. /\ "record" \in Ahead(r) /\ "gate" \notin Ahead(r) /\ "loop" \notin Ahead(r)
        /\ "execute" \notin Ahead(r) /\ Ahead(r) \cap Opening = {}
    <3>1. "record" \in Ahead(r) /\ \A y : y # "record" /\ Rank(y) \in {0, 2, 9, 17} => y \notin Ahead(r)
      <4>1. Rank("record") = 18
        BY EarlyRanks, LateRanks
      <4> QED BY <1>1, <1>2, <4>1, AtAhead, AtLater
    <3>2. Rank("gate") = 0 /\ Rank("loop") = 2 /\ Rank("execute") = 17
      BY EarlyRanks, LateRanks
    <3>3. \A y \in Opening : Rank(y) = 9 /\ y # "record"
      BY EarlyRanks, LateRanks DEF Opening
    <3> QED BY <3>1, <3>2, <3>3
  <2>2. /\ is[r].ran /\ is[r].status = "ok" /\ Ahead(r) = {"record", "answer"}
    BY <1>1, <2>1 DEF Sane
  <2> DEFINE k == [is[r] EXCEPT !.recorded = mode = "governed"]
  <2>3. /\ k \in Known /\ k.ran /\ k.status = "ok" /\ k.session = is[r].session
        /\ (k.recorded <=> mode = "governed")
        /\ k.media = is[r].media /\ k.accept = is[r].accept /\ k.form = is[r].form
    BY <1>1, <2>2 DEF Known
  <2>4. is' = [is EXCEPT ![r] = k]
    BY <1>4
  <2> HIDE DEF k
  <2>5. is' \in [Request -> Known] /\ is'[r] = k /\ \A q \in Request \ {r} : is'[q] = is[q]
    BY <1>1, <2>3, <2>4
  <2>6. /\ Ordered' /\ Ahead(r)' = {"answer"}
        /\ \A q \in Request \ {r} : Ahead(q)' = Ahead(q)
    BY <1>1, <1>2, <1>4, <2>2, GoOnAhead
  <2>7. Sane(mode, route[r], {"answer"}, k)
    <3>1. mode = "governed" => SERVED(route[r])
      BY <1>1, <2>1, <2>2 DEF Sane
    <3>2. k.status \notin RefusedEarly
      BY <2>3 DEF RefusedEarly
    <3> QED BY <2>3, <3>1, <3>2 DEF Sane
  <2>8. Chosen({"answer"}, k)
    BY <1>1, <2>3 DEF Chosen
  <2> QED BY <1>1, <1>2, <2>3, <2>5, <2>6, <2>7, <2>8, LocalStep DEF Opening
<1> QED BY <1>3, <1>4 DEF Record

(* The protocol's session. *)

(* A request that opens the default session runs on the loop. *)
LEMMA OpeningOnLoop ==
  ASSUME RequestsInv, NEW r \in Request, NEW x \in Opening, At(r, x)
  PROVE  /\ loop = r /\ "loop" \notin Ahead(r) /\ r \in Openings
         /\ Ahead(r) \cap Opening = {x}
<1>1. /\ Ordered /\ Alone(r, loop, envDefault.id, Ahead(r), is[r])
  BY DEF RequestsInv
<1>2. /\ Rank(x) = 9 /\ Rank("loop") = 2 /\ x # "loop"
      /\ \A y \in Opening : Rank(y) = 9
  BY EarlyRanks, LateRanks DEF Opening
<1>3. "loop" \notin Ahead(r) /\ \A y \in Opening : y # x => y \notin Ahead(r)
  BY <1>1, <1>2, AtLater
<1>4. x \in Ahead(r)
  BY <1>1, AtAhead
<1> QED BY <1>1, <1>3, <1>4 DEF Alone, Openings

(* It is the only one to hold a session. *)
LEMMA OthersHoldNone ==
  ASSUME RequestsInv, NEW r \in Request, loop = r, NEW q \in Request \ {r}
  PROVE  is[q].session = 0
  BY DEF RequestsInv, Alone

(* A request gets the default session, opened or not. *)
LEMMA DefaultStep ==
  ASSUME RequestsInv, NEW r \in Request, NEW x \in Opening, At(r, x), GoOn(r),
         envDefault' \in [id : Nat, lastUsed : 0..MaxNow],
         envDefault'.id = envDefault.id \/ envDefault'.id = envDefault.id + 1,
         NEW k \in Known, is' = [is EXCEPT ![r] = k],
         k.session = 0 \/ k.session = envDefault'.id,
         k.status = is[r].status, k.ran = is[r].ran, k.recorded = is[r].recorded,
         k.media = is[r].media, k.accept = is[r].accept, k.form = is[r].form,
         UNCHANGED <<deployment, now, loop, limits>>
  PROVE  RequestsInv'
<1>1. /\ Ordered /\ is \in [Request -> Known] /\ x \in Ahead(r)
      /\ Sane(mode, route[r], Ahead(r), is[r]) /\ Chosen(Ahead(r), is[r])
  BY AtAhead DEF RequestsInv, Typed
<1>2. /\ loop = r /\ "loop" \notin Ahead(r) /\ r \in Openings /\ Ahead(r) \cap Opening = {x}
  BY OpeningOnLoop
<1>3. /\ Ordered' /\ Ahead(r)' = Ahead(r) \ {x}
      /\ \A q \in Request \ {r} : Ahead(q)' = Ahead(q)
  BY <1>1, GoOnAhead
<1>4. is' \in [Request -> Known] /\ is'[r] = k /\ \A q \in Request \ {r} : is'[q] = is[q]
  BY <1>1
<1>5. Typed' /\ Limited'
  BY <1>4 DEF RequestsInv, Typed, Limited, deployment, limits
<1>6. Counted'
  <2>1. Openings' = Openings \ {r}
    BY <1>2, <1>3 DEF Openings
  <2>2. /\ IsFiniteSet(Openings) /\ IsFiniteSet(Openings') /\ Cardinality(Openings) \in Nat
        /\ Cardinality(Openings') = Cardinality(Openings) - 1
    BY <1>2, <2>1, FS_RemoveElement, FS_CardinalityType DEF RequestsInv, Counted
  <2>3. envDefault.id \in Nat /\ arrived \in Nat /\ arrived' = arrived
    BY RequestBounds DEF RequestsInv, Typed, deployment
  <2> QED BY <2>2, <2>3 DEF RequestsInv, Counted
<1>7. Sane(mode, route[r], Ahead(r)', k)
  <2>1. /\ Ahead(r)' \cap Costly = Ahead(r) \cap Costly /\ x \notin Costly
        /\ "gate" \in Ahead(r) => "gate" \in Ahead(r)'
    BY <1>3 DEF Costly, Opening
  <2> QED BY <1>1, <2>1, SanePassed
<1>8. Chosen(Ahead(r)', k)
  BY <1>1, <1>3 DEF Chosen
<1>9. Alone(r, loop, envDefault'.id, Ahead(r)', k)
  BY <1>2, <1>3 DEF Alone
<1>10. ASSUME NEW q \in Request
       PROVE  /\ Sane(mode, route[q], Ahead(q), is[q])'
              /\ Chosen(Ahead(q), is[q])'
              /\ Alone(q, loop, envDefault.id, Ahead(q), is[q])'
  <2>1. mode' = mode /\ route' = route /\ loop' = loop
    BY DEF deployment
  <2>2. CASE q = r
    BY <1>4, <1>7, <1>8, <1>9, <2>1, <2>2
  <2>3. CASE q # r
    <3>1. /\ Sane(mode, route[q], Ahead(q), is[q]) /\ Chosen(Ahead(q), is[q])
          /\ Alone(q, loop, envDefault.id, Ahead(q), is[q]) /\ is[q].session = 0
      BY <1>2, <2>3, OthersHoldNone DEF RequestsInv
    <3>2. Alone(q, loop, envDefault'.id, Ahead(q), is[q])
      BY <3>1 DEF Alone
    <3>3. Ahead(q)' = Ahead(q) /\ is'[q] = is[q]
      BY <1>3, <1>4, <2>3
    <3> QED BY <2>1, <3>1, <3>2, <3>3
  <2> QED BY <2>2, <2>3
<1> QED BY <1>3, <1>5, <1>6, <1>10 DEF RequestsInv

LEMMA ResolveStep ==
  ASSUME RequestsInv, NEW r \in Request, _resolve_protocol_session(r)
  PROVE  RequestsInv'
<1>1. /\ is \in [Request -> Known] /\ Ordered /\ Limited /\ now \in 0..MaxNow
      /\ envDefault \in [id : Nat, lastUsed : 0..MaxNow]
  BY DEF RequestsInv, Typed
<1>2. /\ At(r, "protocol session") /\ UNCHANGED <<deployment, now, loop, limits>>
      /\ "protocol session" \in Opening
  BY DEF _resolve_protocol_session, Opening
<1>3. CASE GoOn(r) /\ UNCHANGED <<is, envDefault>>
  BY <1>2, <1>3, PassOrRefuse DEF Costly
<1>4. CASE (\E s \in SessionRefusals : Refuse(r, s)) /\ UNCHANGED envDefault
  BY <1>2, <1>4, PassOrRefuse DEF SessionRefusals, Status, RefusedEarly
<1>5. CASE /\ mode = "local" /\ EnvDefaultLive
           /\ envDefault' = [envDefault EXCEPT !.lastUsed = now]
           /\ is' = [is EXCEPT ![r].session = envDefault.id]
           /\ GoOn(r)
  <2> DEFINE k == [is[r] EXCEPT !.session = envDefault.id]
  <2>1. /\ k \in Known /\ k.session = envDefault.id
        /\ k.status = is[r].status /\ k.ran = is[r].ran /\ k.recorded = is[r].recorded
        /\ k.media = is[r].media /\ k.accept = is[r].accept /\ k.form = is[r].form
    BY <1>1 DEF Known
  <2>2. is' = [is EXCEPT ![r] = k]
    BY <1>5
  <2>3. /\ envDefault' \in [id : Nat, lastUsed : 0..MaxNow] /\ envDefault'.id = envDefault.id
        /\ envDefault.id \in Nat
    BY <1>1, <1>5
  <2> HIDE DEF k
  <2> QED BY <1>2, <1>5, <2>1, <2>2, <2>3, DefaultStep
<1>6. CASE /\ mode = "local" /\ ~EnvDefaultLive
           /\ todo' = [todo EXCEPT ![r] = <<"open default">> \o Tail(@)]
           /\ UNCHANGED <<is, envDefault>>
  <2>1. /\ "open default" \in Stage /\ "open default" \in Opening
        /\ Rank("open default") = Rank("protocol session")
    BY EarlyRanks, LateRanks DEF Stage, Opening
  <2>2. /\ Ordered' /\ Ahead(r)' = (Ahead(r) \ {"protocol session"}) \cup {"open default"}
        /\ \A q \in Request \ {r} : Ahead(q)' = Ahead(q)
    BY <1>1, <1>2, <1>6, <2>1, ReplacedAhead
  <2>3. /\ "protocol session" \in Ahead(r) /\ Sane(mode, route[r], Ahead(r), is[r])
        /\ Chosen(Ahead(r), is[r]) /\ "loop" \notin Ahead(r)
        /\ Ahead(r) \cap Opening = {"protocol session"}
    BY <1>1, <1>2, AtAhead, OpeningOnLoop DEF RequestsInv
  <2>4. Sane(mode, route[r], Ahead(r)', is[r])
    <3>1. /\ Ahead(r)' \cap Costly = Ahead(r) \cap Costly /\ "protocol session" \notin Costly
          /\ "gate" \in Ahead(r) => "gate" \in Ahead(r)'
      BY <2>2 DEF Costly
    <3> QED BY <2>3, <3>1, SanePassed
  <2>5. Chosen(Ahead(r)', is[r])
    BY <2>2, <2>3 DEF Chosen
  <2>6. "loop" \notin Ahead(r)' /\ Ahead(r) \cap Opening # {}
    BY <2>2, <2>3
  <2>7. Limited'
    BY <1>1, <1>2 DEF Limited, limits
  <2> QED BY <1>1, <1>2, <1>6, <2>2, <2>3, <2>4, <2>5, <2>6, <2>7, LocalStep
<1> QED BY <1>3, <1>4, <1>5, <1>6 DEF _resolve_protocol_session

LEMMA BuildStep ==
  ASSUME RequestsInv, NEW r \in Request, _build_env_default_session(r)
  PROVE  RequestsInv'
<1>1. /\ is[r] \in Known /\ is \in [Request -> Known] /\ now \in 0..MaxNow
      /\ envDefault.id \in Nat /\ envDefault.id + 1 \in Nat
  BY DEF RequestsInv, Typed
<1>2. /\ At(r, "open default") /\ GoOn(r) /\ UNCHANGED <<deployment, now, loop, limits>>
      /\ envDefault' = [id |-> envDefault.id + 1, lastUsed |-> now]
      /\ is' = [is EXCEPT ![r].session = envDefault.id + 1]
  BY DEF _build_env_default_session
<1>3. "open default" \in Opening
  BY DEF Opening
<1> DEFINE n == envDefault.id + 1
           k == [is[r] EXCEPT !.session = n]
<1>4. is' = [is EXCEPT ![r] = k]
  BY <1>2
<1>5. n \in Nat /\ envDefault' \in [id : Nat, lastUsed : 0..MaxNow] /\ envDefault'.id = n
  BY <1>1, <1>2
<1> HIDE DEF n
<1>6. /\ k \in Known /\ k.session = n
      /\ k.status = is[r].status /\ k.ran = is[r].ran /\ k.recorded = is[r].recorded
      /\ k.media = is[r].media /\ k.accept = is[r].accept /\ k.form = is[r].form
  BY <1>1, <1>5 DEF Known
<1> HIDE DEF k
<1> QED BY <1>2, <1>3, <1>4, <1>5, <1>6, DefaultStep DEF n

LEMMA DescriptionStep ==
  ASSUME RequestsInv, NEW r \in Request, DescriptionSession(r)
  PROVE  RequestsInv'
<1>1. /\ is \in [Request -> Known] /\ now \in 0..MaxNow
      /\ envDefault \in [id : Nat, lastUsed : 0..MaxNow]
      /\ Alone(r, loop, envDefault.id, Ahead(r), is[r])
  BY DEF RequestsInv, Typed
<1>2. /\ At(r, "description session") /\ GoOn(r) /\ UNCHANGED <<deployment, now, loop, limits>>
      /\ "description session" \in Opening /\ is' = is
  BY DEF DescriptionSession, Opening
<1>3. is[r] \in Known /\ is' = [is EXCEPT ![r] = is[r]] /\ is[r].session = 0
  <2>1. Ahead(r) \cap Opening # {}
    BY <1>2, OpeningOnLoop
  <2> QED BY <1>1, <1>2, <2>1 DEF Alone
<1>4. /\ envDefault' \in [id : Nat, lastUsed : 0..MaxNow] /\ envDefault'.id \in Nat
      /\ envDefault'.id = envDefault.id \/ envDefault'.id = envDefault.id + 1
  <2>1. envDefault.id \in Nat /\ envDefault.id + 1 \in Nat
    BY <1>1
  <2>2. CASE envDefault' = envDefault
    BY <1>1, <2>1, <2>2
  <2>3. CASE envDefault' = [envDefault EXCEPT !.lastUsed = now]
    BY <1>1, <2>1, <2>3
  <2>4. CASE envDefault' = [id |-> envDefault.id + 1, lastUsed |-> now]
    BY <1>1, <2>1, <2>4
  <2> QED BY <2>2, <2>3, <2>4 DEF DescriptionSession
<1> QED BY <1>2, <1>3, <1>4, DefaultStep

(* A request arrives with the stages of its handler, after the gate, ahead. *)
LEMMA ArriveStep ==
  ASSUME RequestsInv, NEW r \in Request, Arrive(r)
  PROVE  RequestsInv'
<1>1. /\ Ordered /\ Sane(mode, route[r], Ahead(r), is[r]) /\ todo[r] = <<>>
      /\ arrived < MaxArrivals /\ arrived \in Nat /\ envDefault.id \in Nat /\ route \in [Request -> Route]
      /\ UNCHANGED <<mode, now, loop, limits, envDefault, is>>
  BY RequestBounds DEF RequestsInv, Typed, Arrive
<1>2. PICK to \in Route : /\ route' = [route EXCEPT ![r] = to]
                          /\ todo' = [todo EXCEPT ![r] = <<"gate">> \o Handler[to]]
  BY DEF Arrive
<1>3. is[r] = Fresh
  <2>1. Ahead(r) = {}
    BY <1>1 DEF Ahead, ToSet
  <2> QED BY <1>1, <2>1 DEF Sane
<1> DEFINE handler == Handler[to]
           t == <<"gate">> \o handler
<1>4. /\ Sound(handler, to) /\ \A y \in ToSet(handler) : Rank(y) > 0
      /\ "gate" \in Stage /\ Rank("gate") = 0
  BY SoundHandlers, EarlyRanks, LateRanks DEF Stage
<1> HIDE DEF handler
<1>5. t \in Seq(Stage) /\ InOrder(t) /\ ToSet(t) = {"gate"} \cup ToSet(handler)
  BY <1>4, ConsStages DEF Sound
<1>6. todo' = [todo EXCEPT ![r] = t]
  BY <1>2 DEF handler
<1> HIDE DEF t
<1>7. /\ Ordered' /\ Ahead(r)' = {"gate"} \cup ToSet(handler)
      /\ \A q \in Request \ {r} : Ahead(q)' = Ahead(q)
  BY <1>1, <1>5, <1>6 DEF Ordered, Ahead
<1>8. Typed' /\ Limited'
  BY <1>1, <1>2, RequestBounds DEF RequestsInv, Typed, Limited, limits, Arrive
<1>9. Counted'
  <2>1. Openings' \subseteq Openings \cup {r}
    BY <1>7 DEF Openings
  <2>2. /\ IsFiniteSet(Openings) /\ Cardinality(Openings) \in Nat
        /\ IsFiniteSet(Openings \cup {r})
        /\ Cardinality(Openings \cup {r}) \in Nat
        /\ Cardinality(Openings \cup {r}) <= Cardinality(Openings) + 1
    <3>1. IsFiniteSet(Openings) /\ Cardinality(Openings) \in Nat
      BY FS_CardinalityType DEF RequestsInv, Counted
    <3>2. /\ IsFiniteSet(Openings \cup {r})
          /\ Cardinality(Openings \cup {r}) =
                IF r \in Openings THEN Cardinality(Openings) ELSE Cardinality(Openings) + 1
      BY <3>1, FS_AddElement
    <3> QED BY <3>1, <3>2
  <2>3. /\ IsFiniteSet(Openings') /\ Cardinality(Openings') \in Nat
        /\ Cardinality(Openings') <= Cardinality(Openings \cup {r})
    BY <2>1, <2>2, FS_Subset, FS_CardinalityType
  <2>4. arrived' = arrived + 1 /\ envDefault' = envDefault
    BY <1>1 DEF Arrive
  <2> QED BY <1>1, <2>2, <2>3, <2>4 DEF RequestsInv, Counted
<1>10. /\ Sane(mode, to, Ahead(r)', Fresh) /\ Chosen(Ahead(r)', Fresh)
       /\ Alone(r, loop, envDefault.id, Ahead(r)', Fresh)
  <2>1. /\ Fresh.status = "ok" /\ ~Fresh.ran /\ ~Fresh.recorded
        /\ Fresh.media = NotNegotiated /\ Fresh.session = 0 /\ "ok" \notin RefusedEarly
    BY DEF Fresh, RefusedEarly
  <2>2. /\ "gate" \in Ahead(r)' /\ "answer" \in Ahead(r)'
        /\ "record" \in Ahead(r)' => "execute" \in Ahead(r)'
        /\ "execute" \in Ahead(r)' /\ SERVED(to) => "record" \in Ahead(r)'
        /\ Ahead(r)' \cap Opening # {} => "loop" \in Ahead(r)'
    BY <1>4, <1>7 DEF Sound, Opening
  <2>3. Sane(mode, to, Ahead(r)', Fresh)
    BY <2>1, <2>2 DEF Sane
  <2> QED BY <2>1, <2>2, <2>3 DEF Chosen, Alone
<1>11. ASSUME NEW q \in Request
       PROVE  /\ Sane(mode, route[q], Ahead(q), is[q])'
              /\ Chosen(Ahead(q), is[q])'
              /\ Alone(q, loop, envDefault.id, Ahead(q), is[q])'
  <2>1. mode' = mode /\ loop' = loop /\ envDefault' = envDefault /\ is' = is
    BY <1>1
  <2>2. CASE q = r
    <3>1. route'[r] = to
      BY <1>1, <1>2
    <3> QED BY <1>3, <1>10, <2>1, <2>2, <3>1
  <2>3. CASE q # r
    <3>1. route'[q] = route[q] /\ Ahead(q)' = Ahead(q)
      BY <1>1, <1>2, <1>7, <2>3
    <3>2. /\ Sane(mode, route[q], Ahead(q), is[q]) /\ Chosen(Ahead(q), is[q])
          /\ Alone(q, loop, envDefault.id, Ahead(q), is[q])
      BY DEF RequestsInv
    <3> QED BY <2>1, <3>1, <3>2
  <2> QED BY <2>2, <2>3
<1> QED BY <1>7, <1>8, <1>9, <1>11 DEF RequestsInv

(* The loop goes from one request to another. *)
LEMMA LoopStep ==
  ASSUME RequestsInv, NEW r \in Request, loop \in {"free", r}, loop' \in {"free", r},
         Ordered', Ahead(r)' \subseteq Ahead(r),
         \A q \in Request \ {r} : Ahead(q)' = Ahead(q) /\ is'[q] = is[q],
         is' \in [Request -> Known], UNCHANGED <<deployment, now, limits, envDefault>>,
         Sane(mode, route[r], Ahead(r)', is'[r]), Chosen(Ahead(r)', is'[r]),
         Alone(r, loop', envDefault.id, Ahead(r)', is'[r])
  PROVE  RequestsInv'
<1>1. Typed' /\ Limited'
  BY DEF RequestsInv, Typed, Limited, limits, deployment
<1>2. Counted'
  <2>1. Openings' \subseteq Openings
    BY DEF Openings
  <2>2. /\ IsFiniteSet(Openings) /\ IsFiniteSet(Openings')
        /\ Cardinality(Openings') \in Nat /\ Cardinality(Openings) \in Nat
        /\ Cardinality(Openings') <= Cardinality(Openings)
    BY <2>1, FS_Subset, FS_CardinalityType DEF RequestsInv, Counted
  <2>3. envDefault.id \in Nat /\ arrived \in Nat /\ envDefault' = envDefault /\ arrived' = arrived
    BY RequestBounds DEF RequestsInv, Typed, deployment
  <2> QED BY <2>2, <2>3 DEF RequestsInv, Counted
<1>3. ASSUME NEW q \in Request
      PROVE  /\ Sane(mode, route[q], Ahead(q), is[q])'
             /\ Chosen(Ahead(q), is[q])'
             /\ Alone(q, loop, envDefault.id, Ahead(q), is[q])'
  <2>1. mode' = mode /\ route' = route /\ envDefault' = envDefault
    BY DEF deployment
  <2>2. CASE q = r
    BY <2>1, <2>2
  <2>3. CASE q # r
    <3>1. /\ Sane(mode, route[q], Ahead(q), is[q]) /\ Chosen(Ahead(q), is[q])
          /\ Alone(q, loop, envDefault.id, Ahead(q), is[q])
      BY DEF RequestsInv
    <3>2. loop # q
      BY <2>3, FreeIsNoRequest
    <3>3. Alone(q, loop', envDefault.id, Ahead(q), is[q])
      BY <3>1, <3>2 DEF Alone
    <3>4. Ahead(q)' = Ahead(q) /\ is'[q] = is[q]
      BY <2>3
    <3> QED BY <2>1, <3>1, <3>3, <3>4
  <2> QED BY <2>2, <2>3
<1> QED BY <1>1, <1>2, <1>3 DEF RequestsInv

LEMMA EnterStep ==
  ASSUME RequestsInv, NEW r \in Request, EnterLoop(r)
  PROVE  RequestsInv'
<1>1. /\ Ordered /\ is \in [Request -> Known] /\ Sane(mode, route[r], Ahead(r), is[r])
      /\ Chosen(Ahead(r), is[r]) /\ Alone(r, loop, envDefault.id, Ahead(r), is[r])
  BY DEF RequestsInv, Typed
<1>2. /\ At(r, "loop") /\ loop = "free" /\ loop' = r /\ GoOn(r)
      /\ UNCHANGED <<deployment, now, limits, envDefault, is>>
  BY DEF EnterLoop
<1>3. /\ "loop" \in Ahead(r) /\ Ordered' /\ Ahead(r)' = Ahead(r) \ {"loop"}
      /\ \A q \in Request \ {r} : Ahead(q)' = Ahead(q)
  BY <1>1, <1>2, AtAhead, GoOnAhead
<1>4. Sane(mode, route[r], Ahead(r)', is[r])
  <2>1. /\ Ahead(r)' \cap Costly = Ahead(r) \cap Costly /\ "loop" \notin Costly
        /\ "gate" \in Ahead(r) => "gate" \in Ahead(r)'
    BY <1>3 DEF Costly
  <2> QED BY <1>1, <1>3, <2>1, SanePassed
<1>5. Chosen(Ahead(r)', is[r])
  BY <1>1, <1>3 DEF Chosen
<1>6. Alone(r, r, envDefault.id, Ahead(r)', is[r])
  BY <1>1, <1>3 DEF Alone
<1> QED BY <1>1, <1>2, <1>3, <1>4, <1>5, <1>6, LoopStep

LEMMA AnswerStep ==
  ASSUME RequestsInv, NEW r \in Request, Answer(r)
  PROVE  RequestsInv'
<1>1. Ordered /\ is \in [Request -> Known]
  BY DEF RequestsInv, Typed
<1>2. /\ At(r, "answer") /\ loop \in {"free", r} /\ loop' = "free" /\ GoOn(r)
      /\ is' = [is EXCEPT ![r] = Fresh]
      /\ UNCHANGED <<deployment, now, limits, envDefault>>
  BY DEF Answer
<1>3. /\ Ordered' /\ Ahead(r)' = Ahead(r) \ {"answer"}
      /\ \A q \in Request \ {r} : Ahead(q)' = Ahead(q)
  BY <1>1, <1>2, GoOnAhead
<1>4. Ahead(r)' = {}
  <2>1. Rank("answer") = 19
    BY EarlyRanks, LateRanks
  <2>2. \A y : y # "answer" => y \notin Ahead(r)
    BY <1>1, <1>2, <2>1, AtLater, RankType
  <2> QED BY <1>3, <2>2
<1>5. /\ is' \in [Request -> Known] /\ is'[r] = Fresh
      /\ \A q \in Request \ {r} : is'[q] = is[q]
  BY <1>1, <1>2, FreshKnown
<1>6. /\ Sane(mode, route[r], Ahead(r)', is'[r]) /\ Chosen(Ahead(r)', is'[r])
      /\ Alone(r, loop', envDefault.id, Ahead(r)', is'[r])
  BY <1>4, <1>5, FreshSane
<1> QED BY <1>2, <1>3, <1>4, <1>5, <1>6, LoopStep

LEMMA TickStep == ASSUME RequestsInv, Tick PROVE RequestsInv'
<1>1. /\ now' = now + 1 /\ now < MaxNow /\ now \in Nat
      /\ UNCHANGED <<deployment, loop, limits, envDefault, todo, is>>
  BY RequestBounds DEF Tick, RequestsInv, Typed
<1>2. Typed' /\ Limited'
  BY <1>1, RequestBounds DEF RequestsInv, Typed, Limited, limits, deployment
<1>3. Ordered' /\ Counted' /\ \A r \in Request : Ahead(r)' = Ahead(r)
  BY <1>1 DEF RequestsInv, Ordered, Counted, Openings, Ahead, deployment
<1> QED BY <1>1, <1>2, <1>3 DEF RequestsInv, deployment

LEMMA NextInv == RequestsInv /\ [Next]_vars => RequestsInv'
<1> SUFFICES ASSUME RequestsInv, [Next]_vars PROVE RequestsInv'
  OBVIOUS
<1>1. ASSUME NEW r \in Request, Step(r) PROVE RequestsInv'
  <2>1. ASSUME NEW b \in Buckets, ReadBucket(r, b) \/ TakeToken(r, b) PROVE RequestsInv'
    BY <2>1, ReadStep, TakeStep
  <2> QED BY <1>1, <2>1, ArriveStep, GateStep, EnterStep, CheckStep, DetectStep, ParseStep,
             NegotiateStep, ResolveStep, BuildStep, DescriptionStep, ExecuteStep, RecordStep,
             AnswerStep DEF Step
<1>2. CASE UNCHANGED vars
  <2>1. Typed' /\ Limited' /\ Ordered'
    BY <1>2 DEF RequestsInv, Typed, Limited, Ordered, vars
  <2>2. Counted' /\ \A r \in Request : Ahead(r)' = Ahead(r)
    BY <1>2 DEF RequestsInv, Counted, Openings, Ahead, vars
  <2> QED BY <1>2, <2>1, <2>2 DEF RequestsInv, vars
<1> QED BY <1>1, <1>2, TickStep DEF Next

(* The invariant the others rest on: types, limits, the order of the      *)
(* stages, the count of sessions, what each outcome has left behind, the   *)
(* media type chosen, and that one request at most is on the loop.         *)
THEOREM Inductive == Spec => []RequestsInv
  BY InitInv, NextInv, PTL DEF Spec

----------------------------------------------------------------------------
(* The theorems *)

(* The types of the requests, the limits and the default session, for any  *)
(* requests, headers and texts: no bucket holds more than its capacity and *)
(* no more sessions are opened than requests arrived.                      *)
THEOREM TypeCorrect == Spec => []TypeOK
<1>1. RequestsInv => TypeOK
  <2> SUFFICES ASSUME RequestsInv PROVE TypeOK
    OBVIOUS
  <2>1. envDefault.id \in 0..MaxArrivals
    <3>1. /\ envDefault.id \in Nat /\ arrived \in 0..MaxArrivals /\ MaxArrivals \in Nat
          /\ Cardinality(Openings) \in Nat
          /\ envDefault.id + Cardinality(Openings) <= arrived
      BY FS_CardinalityType, RequestBounds DEF RequestsInv, Typed, Counted
    <3> QED BY <3>1
  <2>2. ASSUME NEW r \in Request
        PROVE  /\ ToSet(todo[r]) \subseteq Stage
               /\ is[r].text \in Text /\ is[r].form \in Forms /\ is[r].status \in Status
               /\ is[r].session \in 0..MaxArrivals
               /\ is[r].held \in 0..Capacity
    <3>1. todo[r] \in Seq(Stage) /\ is[r] \in Known
      BY DEF RequestsInv, Ordered, Typed
    <3>2. ToSet(todo[r]) \subseteq Stage
      BY <3>1, Places
    <3>3. is[r].session = 0 \/ is[r].session = envDefault.id
      BY DEF RequestsInv, Alone
    <3> QED BY <2>1, <3>1, <3>2, <3>3, RequestBounds DEF Known
  <2>3. envDefault \in [id : 0..MaxArrivals, lastUsed : 0..MaxNow]
    BY <2>1 DEF RequestsInv, Typed
  <2> QED BY <2>2, <2>3 DEF RequestsInv, Typed, Limited, TypeOK
<1> QED BY <1>1, Inductive, PTL

(* Under a control plane an answer carries rows exactly when the question  *)
(* was recorded, for any number of requests: the gate's table and the      *)
(* order of the routes' stages see to it.                                  *)
THEOREM AnswersRecorded == Spec => []AnsweredAsRecorded
<1>1. RequestsInv => AnsweredAsRecorded
  <2> SUFFICES ASSUME RequestsInv, NEW r \in Request
               PROVE  /\ mode = "governed" /\ Answered(r) => (is[r].ran <=> is[r].recorded)
                      /\ is[r].recorded => is[r].ran
    BY DEF AnsweredAsRecorded
  <2>1. Ordered /\ Sane(mode, route[r], Ahead(r), is[r]) /\ is[r] \in Known
    BY DEF RequestsInv, Typed
  <2>2. ASSUME At(r, "answer") PROVE "record" \notin Ahead(r)
    <3>1. Rank("answer") = 19
      BY EarlyRanks, LateRanks
    <3> QED BY <2>1, <2>2, <3>1, AtLater, RankType
  <2>3. is[r].ran \in BOOLEAN /\ is[r].recorded \in BOOLEAN
    BY <2>1 DEF Known
  <2> QED BY <2>1, <2>2, <2>3 DEF Sane, Answered
<1> QED BY <1>1, Inductive, PTL

(* What is refused for its rate, form, media type, session, schema or      *)
(* translation has reached neither the database nor the history, on every  *)
(* route.                                                                  *)
THEOREM RefusalsAreFree == Spec => []RefusalsCostNothing
<1>1. RequestsInv => RefusalsCostNothing
  BY DEF RequestsInv, Sane, RefusalsCostNothing
<1> QED BY <1>1, Inductive, PTL

(* The default session of /sparql needs no lock: only the request that     *)
(* runs on the loop opens it or works with it.                             *)
THEOREM DefaultIsOne == Spec => []OneEnvDefault
<1>1. RequestsInv => OneEnvDefault
  BY DEF RequestsInv, Alone, OneEnvDefault
<1> QED BY <1>1, Inductive, PTL

(* The media type is the server's first among those the header likes best, *)
(* for any header and any steps of the quality.                            *)
THEOREM MediaTypeAcceptable == Spec => []AnswerIsAcceptable
<1>1. RequestsInv => AnswerIsAcceptable
  BY DEF RequestsInv, Chosen, Suits, AnswerIsAcceptable
<1> QED BY <1>1, Inductive, PTL

=============================================================================
