---------------------------- MODULE Negotiation ----------------------------
(***************************************************************************)
(* Content negotiation and Update detection of the SPARQL Protocol         *)
(* endpoint (service/protocol/negotiate.py, update_detect.py).  A media    *)
(* type is a pair of its top-level type and its subtype; a quality is a    *)
(* number 0..Full, counted in steps of the q parameter.                    *)
(***************************************************************************)
EXTENDS Naturals, Sequences, SequencesExt

CONSTANT Full  \* the quality 1.0

ASSUME FullIsPositive == Full \in Nat \ {0}

Forms == {"select", "ask", "construct", "describe"}

SELECT_PRIORITY ==
    << <<"application", "sparql-results+json">>, <<"application", "sparql-results+xml">>,
       <<"text", "csv">>, <<"text", "tab-separated-values">> >>
CONSTRUCT_PRIORITY ==
    << <<"text", "turtle">>, <<"application", "n-triples">>,
       <<"application", "rdf+xml">>, <<"application", "ld+json">> >>

(* The server's types for a form, the preferred first; ASK answers in the  *)
(* formats of SELECT.                                                      *)
priority_for_form(form) ==
    IF form \in {"construct", "describe"} THEN CONSTRUCT_PRIORITY ELSE SELECT_PRIORITY

AnyType == [type |-> <<"*", "*">>, q |-> Full]
NotAcceptable == <<"none", "none">>

(* Offers of quality zero are dropped.  No header, or nothing left of it,  *)
(* accepts anything.  The others are sorted by quality; the order within   *)
(* one means nothing to the negotiation.                                   *)
parse_accept_header(accept) ==
    LET kept == {offer \in ToSet(accept) : offer.q > 0}
    IN  IF kept = {} THEN {AnyType} ELSE kept

(* "*/*", the type itself, or a range of its top-level type. *)
_matches(offered, supported) ==
    \/ offered = <<"*", "*">>
    \/ offered = supported
    \/ offered = <<supported[1], "*">>

Highest(S) == CHOOSE x \in S : \A y \in S : y <= x
Lowest(S) == CHOOSE x \in S : \A y \in S : x <= y

(* Mutant: the client's order breaks a tie, not the server's. *)
InHeaderOrder(accept, form) ==
    LET priority == priority_for_form(form)
        given == IF parse_accept_header(accept) = {AnyType} THEN <<AnyType>> ELSE accept
        met == {i \in DOMAIN given :
                   given[i].q > 0 /\ \E s \in ToSet(priority) : _matches(given[i].type, s)}
        first == CHOOSE i \in met : \A j \in met :
                    given[j].q < given[i].q \/ (given[j].q = given[i].q /\ i <= j)
    IN  IF met = {} THEN NotAcceptable
        ELSE SelectSeq(priority, LAMBDA s : _matches(given[first].type, s))[1]

(* The first of the server's types that an offer of the highest quality    *)
(* matches; then of the next quality, and so on.                           *)
negotiate_media_type(accept, form) ==
    LET offers == parse_accept_header(accept)
        priority == priority_for_form(form)
        InTier(q) == {i \in DOMAIN priority :
                         \E o \in offers : o.q = q /\ _matches(o.type, priority[i])}
        tiers == {q \in 1..Full : InTier(q) # {}}
    IN  IF tiers = {} THEN NotAcceptable ELSE priority[Lowest(InTier(Highest(tiers)))]

(* What the header says of a type: the best quality an offer gives it;     *)
(* a header without a usable offer accepts every type.                     *)
Quality(accept, s) ==
    LET best == {q \in 1..Full : \E o \in ToSet(accept) : o.q = q /\ _matches(o.type, s)}
    IN  IF \A o \in ToSet(accept) : o.q = 0 THEN Full
        ELSE IF best = {} THEN 0 ELSE Highest(best)

----------------------------------------------------------------------------
(* A query text as the scan sees it: the declarations before its first     *)
(* keyword, and what follows.  Comments are gone, those inside an IRI or a *)
(* string are none.                                                        *)
Declarations == {"base", "prefix", "default prefix"}
Bodies == {"query", "update", "with", "long with", "nonsense"}
Text == [prologue : BoundedSeq(Declarations, 1), body : Bodies]

(* The pattern of a PREFIX wants a name before the colon: the scan stops   *)
(* at the declaration of the default prefix.                               *)
strip_prologue_and_comments(text) ==
    LET named == SelectSeq(text.prologue, LAMBDA d : d # "default prefix")
    IN  IF named = text.prologue THEN text.body ELSE "PREFIX"

(* An Update starts with one of its keywords, or with WITH and has one in  *)
(* the 256 characters after it ("long with" names a longer graph first).   *)
is_sparql_update(text) == strip_prologue_and_comments(text) \in {"update", "with"}

IsUpdate(text) == text.body \in {"update", "with", "long with"}
=============================================================================
