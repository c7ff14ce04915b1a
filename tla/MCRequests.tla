----------------------------- MODULE MCRequests -----------------------------
(* Small instances of Requests for TLC. *)
EXTENDS Requests, TLC

Offer(type, q) == [type |-> type, q |-> q]
Json == <<"application", "sparql-results+json">>
Turtle == <<"text", "turtle">>
TextRange(sub) == <<"text", sub>>
Anything == <<"*", "*">>

(* Ties against the server's order, ranges and ranks; a header with nothing *)
(* left of it, which is as none; a rejection a wildcard admits; one that    *)
(* suits one form only.                                                     *)
MCHeaders ==
    { << Offer(TextRange("*"), 2), Offer(Json, 2), Offer(Turtle, 1) >>,
      << Offer(Json, 0) >>,
      << Offer(Json, 0), Offer(Anything, 1) >>,
      << Offer(TextRange("html"), 2), Offer(Turtle, 1) >> }

MCTexts ==
    {text \in Text : text.prologue = <<>> \/ text.body = "update"}

Symmetry == Permutations(Request)
=============================================================================
