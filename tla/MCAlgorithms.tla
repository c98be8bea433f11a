---------------------------- MODULE MCAlgorithms ----------------------------
(* Algorithms on small inputs: what each one is for is said in its cfg. *)
EXTENDS Algorithms

Words == {<<"a">>, <<"a", "b">>, <<"b", "a">>, <<"a", "b", "a">>, <<"a", "b", "b">>,
          <<"a", "b", "a", "b">>}
AllTexts == UNION {[1..n -> Words] : n \in 1..3}
OneWord == <<<<"a">>>>

\* Keys on both sides of each threshold, one the beginning of the other; heard
\* words that begin alike, two that are the same but for their case, and the
\* longest replaced by nothing; more terms than a prompt names.
Keys == {<<>>, <<"a", "b">>, <<"a", "b", "a">>, <<"a", "b", "b", "a">>, <<"a", "b", "a", "b", "b">>}
Heard1 == [words |-> <<<<"a">>>>, canon |-> <<"a", "b">>]
Heard2 == [words |-> <<<<"a">>, <<"a", "b">>>>, canon |-> <<"b">>]
Heard3 == [words |-> <<<<"a">>, <<"a", "b">>>>, canon |-> <<"a">>]
Heard4 == [words |-> <<<<"a">>, <<"a", "b">>, <<"a">>>>, canon |-> <<>>]
Empty == [reps |-> {}, terms |-> <<>>, fuzzy |-> TRUE]
AllVocabularies ==
  {[reps |-> {}, terms |-> <<k, l>>, fuzzy |-> f] : k \in Keys, l \in Keys, f \in BOOLEAN}
    \cup {[reps |-> {Heard1, Heard2, Heard3, Heard4}, terms |-> <<k>>, fuzzy |-> TRUE] : k \in Keys}
    \cup {[reps |-> {}, terms |-> <<<<"a">>, <<"b">>, k>>, fuzzy |-> TRUE] : k \in Keys}
    \cup {Empty}
=============================================================================
