----------------------------- MODULE Vocabulary -----------------------------
(***************************************************************************)
(* llm.Vocabulary (llm/vocabulary.go): the terms that go into a prompt, and *)
(* Correct, which goes through the words of a transcript and replaces what *)
(* it takes for a replacement or a term.  A word is a sequence of letters, *)
(* in lower case; what separates words is not modelled.  A replacement is  *)
(* the words heard and the term meant; a term is its key, the letters of   *)
(* its words.                                                              *)
(***************************************************************************)
EXTENDS Naturals, Sequences, SequencesExt

CONSTANTS Alphabet,     \* bound: the letters
          Texts,        \* bound: transcripts, sequences of words
          Vocabularies, \* bound: [reps : a set, terms : a sequence, fuzzy : BOOLEAN]
          MaxTerms,     \* MaxVocabularyPromptTerms (200)
          MaxBytes,     \* MaxVocabularyPromptBytes (3000)
          FuzzyMin,     \* the letters of a fuzzy term (6)
          FuzzyTwo,     \* from how many letters two edits are allowed (9)
          MinWord,      \* the letters of a word that is no short word (4)
          Window,       \* maxTermWindow (6)
          FuzzyWindow   \* the widest fuzzy window (3)

ASSUME VocabularyAssumption ==
  /\ {MaxTerms, MaxBytes, FuzzyMin, FuzzyTwo, MinWord, Window, FuzzyWindow} \subseteq Nat \ {0}
  /\ Texts \subseteq Seq(Seq(Alphabet) \ {<<>>})
  /\ \A v \in Vocabularies :
       /\ DOMAIN v = {"reps", "terms", "fuzzy"} /\ v.fuzzy \in BOOLEAN
       /\ v.terms \in Seq(Seq(Alphabet))
       /\ \A r \in v.reps : DOMAIN r = {"words", "canon"} /\ r.words \in Seq(Seq(Alphabet))

VARIABLES vocab,  \* the vocabulary
          toks,   \* the words of the transcript
          at,     \* the word Correct looks at
          spans   \* what it has replaced: [from, to, canon, by]

vocabularyVars == <<vocab, toks, at, spans>>

Letters(words) == FlattenSeq(words)
AtMost(a, b) == IF a < b THEN a ELSE b

VocabularyTypeOK == /\ vocab \in Vocabularies /\ toks \in Texts /\ at \in 1..(Len(toks) + 1)
                    /\ \A n \in DOMAIN spans : spans[n].by \in {"words", "letters", "near"}

VocabularyInit == vocab \in Vocabularies /\ toks \in Texts /\ at = 1 /\ spans = <<>>

-----------------------------------------------------------------------------
\* As if the cap left out the comma before the term.
NoRoomUncommaed(l, t) == Len(l.terms) = MaxTerms \/ l.bytes + Len(t) > MaxBytes

\* promptLine: terms, in order and separated by commas, until the next one would
\* be one too many or too long; a blank term is passed over.
NoRoom(l, t) == Len(l.terms) = MaxTerms \/ l.bytes + Len(t) + 2 > MaxBytes

Listed(l, t) ==
  CASE l.full \/ t = <<>> -> l
    [] ~l.full /\ t # <<>> /\ NoRoom(l, t) -> [l EXCEPT !.full = TRUE]
    [] OTHER -> [terms |-> Append(l.terms, t), full |-> FALSE,
                 bytes |-> l.bytes + Len(t) + (IF l.terms = <<>> THEN 0 ELSE 2)]

PromptTerms(v) ==
  LET line[i \in 0..Len(v.terms)] ==
        IF i = 0 THEN [terms |-> <<>>, full |-> FALSE, bytes |-> 0] ELSE Listed(line[i - 1], v.terms[i])
  IN  line[Len(v.terms)].terms

\* As if a letter could not be missing from what was heard.
DistanceNoInsert(dist, a, b, i, j) ==
  CASE i = 0 -> j
    [] i > 0 /\ j = 0 -> i
    [] OTHER -> AtMost(dist[<<i - 1, j>>] + 1,
                       dist[<<i - 1, j - 1>>] + IF a[i] = b[j] THEN 0 ELSE 1)

\* An entry of levenshtein's table, for the first i letters of a and j of b.
Distance(dist, a, b, i, j) ==
  CASE i = 0 -> j
    [] i > 0 /\ j = 0 -> i
    [] OTHER -> AtMost(AtMost(dist[<<i - 1, j>>], dist[<<i, j - 1>>]) + 1,
                       dist[<<i - 1, j - 1>>] + IF a[i] = b[j] THEN 0 ELSE 1)

Levenshtein(a, b) ==
  LET dist[p \in (0..Len(a)) \X (0..Len(b))] == Distance(dist, a, b, p[1], p[2])
  IN  dist[<<Len(a), Len(b)>>]

\* Terms are tried longest key first, otherwise as they are listed.
Terms == {i \in DOMAIN vocab.terms : vocab.terms[i] # <<>>}
First(ts) == CHOOSE i \in ts : \A j \in ts :
               LET k == Len(vocab.terms[i])  l == Len(vocab.terms[j]) IN k > l \/ (k = l /\ i <= j)

\* The replacements by something that match the words of rest, longest first.  Of
\* two with the same words either may come first: they are read from a map, and the sort
\* that follows does not tell them apart (vocabulary.go:114-129).
RepsAt(rest) ==
  LET fit == {r \in vocab.reps : r.words # <<>> /\ r.canon # <<>> /\ IsPrefix(r.words, rest)}
  IN  {r \in fit : \A s \in fit : Len(s.words) <= Len(r.words)}

\* The terms whose key is the letters of the first n words.
TermsAt(rest, n) == {i \in Terms : vocab.terms[i] = Letters(SubSeq(rest, 1, n))}

MaxDist(key) == IF Len(key) >= FuzzyTwo THEN 2 ELSE 1

\* The terms near the letters of the first n words, none of them short.
NearAt(rest, n) ==
  LET heard == Letters(SubSeq(rest, 1, n)) IN
  {i \in Terms :
     LET key == vocab.terms[i] IN
       /\ vocab.fuzzy /\ Len(key) >= FuzzyMin
       /\ \A k \in 1..n : Len(rest[k]) >= MinWord
       /\ heard[1] = key[1]
       /\ Len(heard) <= Len(key) + MaxDist(key) /\ Len(key) <= Len(heard) + MaxDist(key)
       /\ Levenshtein(heard, key) <= MaxDist(key)}

Widest(ns) == CHOOSE n \in ns : \A m \in ns : m <= n

\* matchAt: how many words, and what they are replaced by; an empty set where
\* nothing matches.
MatchAt(rest) ==
  LET exact == {n \in 1..AtMost(Window, Len(rest)) : TermsAt(rest, n) # {}}
      near == {n \in 1..AtMost(FuzzyWindow, Len(rest)) : NearAt(rest, n) # {}}
  IN  CASE RepsAt(rest) # {} ->
             {[n |-> Len(r.words), canon |-> r.canon, by |-> "words"] : r \in RepsAt(rest)}
        [] RepsAt(rest) = {} /\ exact # {} ->
             {[n |-> Widest(exact), by |-> "letters",
               canon |-> vocab.terms[First(TermsAt(rest, Widest(exact)))]]}
        [] RepsAt(rest) = {} /\ exact = {} /\ near # {} ->
             {[n |-> Widest(near), by |-> "near",
               canon |-> vocab.terms[First(NearAt(rest, Widest(near)))]]}
        [] OTHER -> {}

-----------------------------------------------------------------------------
Rest == SubSeq(toks, at, Len(toks))

\* One turn of Correct's loop.
Replace ==
  /\ at <= Len(toks)
  /\ \E m \in MatchAt(Rest) :
       /\ spans' = Append(spans, [from |-> at, to |-> at + m.n - 1, canon |-> m.canon, by |-> m.by])
       /\ at' = at + m.n
  /\ UNCHANGED <<vocab, toks>>

Keep ==
  /\ at <= Len(toks)
  /\ MatchAt(Rest) = {}
  /\ at' = at + 1
  /\ UNCHANGED <<vocab, toks, spans>>

VocabularyNext == Replace \/ Keep

-----------------------------------------------------------------------------
\* The reference for a near miss: what a word becomes by one edit, and by two.
Edited(w) == {w} \cup {RemoveAt(w, i) : i \in DOMAIN w}
                 \cup {ReplaceAt(w, i, x) : i \in DOMAIN w, x \in Alphabet}
                 \cup {InsertAt(w, i, x) : i \in 1..(Len(w) + 1), x \in Alphabet}
Within(w, n) == IF n = 1 THEN Edited(w) ELSE UNION {Edited(e) : e \in Edited(w)}

\* Why the words from..to may become canon (vocabulary.go:22-33).
Heard(from, to, canon) ==
  canon # <<>> /\ \E r \in vocab.reps : r.words = SubSeq(toks, from, to) /\ r.canon = canon
Spelt(from, to, canon) ==
  to - from < Window /\ canon = Letters(SubSeq(toks, from, to)) /\ canon \in Range(vocab.terms)
Missed(from, to, canon) ==
  LET heard == Letters(SubSeq(toks, from, to)) IN
  /\ vocab.fuzzy /\ canon \in Range(vocab.terms) /\ Len(canon) >= FuzzyMin
  /\ to - from < FuzzyWindow
  /\ \A i \in from..to : Len(toks[i]) >= MinWord
  /\ heard[1] = canon[1]
  /\ canon \in Within(heard, IF Len(canon) >= FuzzyTwo THEN 2 ELSE 1)
Allowed(by, from, to, canon) == \/ by = "words"   /\ Heard(from, to, canon)
                                \/ by = "letters" /\ Spelt(from, to, canon)
                                \/ by = "near"    /\ Missed(from, to, canon)
Canons == Range(vocab.terms) \cup {r.canon : r \in vocab.reps}
Covered(i) == \E n \in DOMAIN spans : i \in spans[n].from..spans[n].to

\* Correct changes what a rule allows it to change, by the strongest rule at
\* that word and the most words it allows, and leaves no word alone that a rule
\* would change (llm/vocabulary.go Correct, matchAt, levenshtein).
CorrectionIsSound ==
  /\ VocabularyTypeOK
  /\ \A n \in DOMAIN spans :
       LET s == spans[n] IN
       /\ n > 1 => spans[n - 1].to < s.from
       /\ Allowed(s.by, s.from, s.to, s.canon)
       /\ \A to \in s.from..Len(toks), c \in Canons :
            /\ to > s.to => ~Allowed(s.by, s.from, to, c)
            /\ s.by # "words" => ~Heard(s.from, to, c)
            /\ s.by = "near" => ~Spelt(s.from, to, c)
  /\ \A i \in 1..(at - 1) : ~Covered(i) =>
       \A to \in i..Len(toks), c \in Canons : ~Heard(i, to, c) /\ ~Spelt(i, to, c) /\ ~Missed(i, to, c)

\* A prompt names as many of the terms, from the first on, as its two caps allow:
\* the number of terms, and the bytes they take with the commas between them. A
\* comma is counted for the next term even if it is the first (llm/vocabulary.go
\* promptLine).
Filled == FlattenSeq([i \in DOMAIN vocab.terms |->
                       IF vocab.terms[i] = <<>> THEN <<>> ELSE <<vocab.terms[i]>>])
Bytes(ts) == IF ts = <<>> THEN 0 ELSE Len(Letters(ts)) + 2 * (Len(ts) - 1)
PromptIsFull ==
  LET named == PromptTerms(vocab) IN
  /\ IsPrefix(named, Filled) /\ Len(named) <= MaxTerms /\ Bytes(named) <= MaxBytes
  /\ named # Filled => \/ Len(named) = MaxTerms
                       \/ Bytes(named) + 2 + Len(Filled[Len(named) + 1]) > MaxBytes

-----------------------------------------------------------------------------
(* What the documentation says and the code does not do. *)

\* Correct "rewrites the transcript deterministically", in an order "so a map
\* never decides" (vocabulary.go:20, 123): one thing at most to do with a word.
CorrectIsDeterministic == at <= Len(toks) => \A m, n \in MatchAt(Rest) : m = n
=============================================================================
