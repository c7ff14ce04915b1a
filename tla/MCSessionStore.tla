--------------------------- MODULE MCSessionStore ---------------------------
(* Threads, tokens and clients are interchangeable in SessionStore. *)
EXTENDS SessionStore, TLC

Symmetry == Permutations(Thread) \cup Permutations(Key) \cup Permutations(Conn)
=============================================================================
