----------------------------- MODULE Sentences -----------------------------
(***************************************************************************)
(* The sentence cutter of the voice pipeline: feed, flush and speak of     *)
(* speaker (voice/voice.go) and splitSentences (voice/speakable.go).  A    *)
(* reply arrives in deltas, cut anywhere; complete sentences leave the     *)
(* buffer as they appear, and a tool call or the end of the turn flushes   *)
(* the rest.  A rune is what the cutter tells apart: a letter (a letter or *)
(* a digit that Speakable keeps), a space, a stop (. ! ? or an ellipsis)   *)
(* or a line break.                                                        *)
(***************************************************************************)
EXTENDS Naturals, Sequences

CONSTANTS MinRunes,   \* minSentenceRunes (12 in the code)
          MaxHeard,   \* bound: the runes of a reply
          MaxDelta    \* bound: the runes of a delta

ASSUME SentencesAssumption == MinRunes \in Nat /\ MaxHeard \in Nat /\ MaxDelta \in Nat \ {0}

VARIABLES heard,  \* every rune of the reply so far
          start,  \* how many of them have left buf: buf is the rest
          said    \* the sentences given to synthesis: where each begins and ends

sentenceVars == <<heard, start, said>>

Runes == {"letter", "space", "stop", "newline"}
Blank == {"space", "newline"}
Deltas == UNION {[1..n -> Runes] : n \in 1..MaxDelta}

SentencesTypeOK == /\ heard \in Seq(Runes) /\ Len(heard) <= MaxHeard
                   /\ start \in 0..Len(heard)
                   /\ said \in Seq([from : 1..MaxHeard, to : 1..MaxHeard, flushed : BOOLEAN])

SentencesInit == heard = <<>> /\ start = 0 /\ said = <<>>

-----------------------------------------------------------------------------
\* The runes of text[from..to] that TrimSpace leaves.
Trimmed(text, from, to) ==
  LET kept == {i \in from..to : text[i] \notin Blank}
  IN  IF kept = {} THEN 0
      ELSE 1 + (CHOOSE l \in kept : \A i \in kept : i <= l) - (CHOOSE f \in kept : \A i \in kept : f <= i)

\* As if the end of what has arrived were the end of what was said.
EndsHereAtOnce(text, begin, i) ==
  \/ text[i] = "newline"
  \/ /\ text[i] = "stop"
     /\ i < Len(text) => text[i + 1] \in Blank
     /\ Trimmed(text, begin + 1, i) >= MinRunes

\* splitSentences: a sentence begun after begin ends with rune i of text, as far
\* as text goes: a stop at the very end may be followed by anything.
EndsHere(text, begin, i) ==
  \/ text[i] = "newline"
  \/ /\ text[i] = "stop"
     /\ i < Len(text) /\ text[i + 1] \in Blank
     /\ Trimmed(text, begin + 1, i) >= MinRunes

\* Speakable leaves nothing of a text without a letter (speakable.go:82-84).
Speaks(text, from, to) == \E i \in from..to : text[i] = "letter"

Spoken(spoken, text, begin, end, flush) ==
  IF Speaks(text, begin + 1, end)
  THEN Append(spoken, [from |-> begin + 1, to |-> end, flushed |-> flush]) ELSE spoken

\* What has been cut off once rune i has been looked at too.
CutAt(text, i, c) ==
  IF EndsHere(text, c.start, i)
  THEN [start |-> i, said |-> Spoken(c.said, text, c.start, i, FALSE)] ELSE c

\* One pass over the runes after begin: what has been cut off up to each.
Scan(text, begin) ==
  LET scan[i \in begin..Len(text)] ==
        IF i = begin THEN [start |-> begin, said |-> said] ELSE CutAt(text, i, scan[i - 1])
  IN  scan[Len(text)]

\* feed, with a delta of the reply.
Feed(delta) ==
  /\ Len(heard) + Len(delta) <= MaxHeard
  /\ heard' = heard \o delta
  /\ LET cut == Scan(heard', start) IN start' = cut.start /\ said' = cut.said

\* flush, at a tool call and at the end of the turn.
Flush ==
  /\ start < Len(heard)
  /\ said' = Spoken(said, heard, start, Len(heard), TRUE)
  /\ start' = Len(heard)
  /\ UNCHANGED heard

SentencesNext == (\E delta \in Deltas : Feed(delta)) \/ Flush

-----------------------------------------------------------------------------
\* Where a sentence that began with rune from may end, now that more is known.
MayEnd(from, i) ==
  \/ heard[i] = "newline"
  \/ /\ heard[i] = "stop" /\ i < Len(heard) /\ heard[i + 1] \in Blank
     /\ \E f \in from..i : heard[f] \notin Blank /\ i - f + 1 >= MinRunes

\* What is spoken does not depend on where the reply was cut into deltas, and
\* loses nothing: every letter that has left the buffer is in one sentence, they
\* are spoken in their order, and no sentence, nor the buffer, goes on past a
\* place where one may end; only a flush ends one elsewhere (voice/speakable.go
\* splitSentences, voice/voice.go feed and flush).
SentencesAreStable ==
  /\ SentencesTypeOK
  /\ \A n \in DOMAIN said :
       /\ n > 1 => said[n - 1].to < said[n].from
       /\ said[n].flushed \/ MayEnd(said[n].from, said[n].to)
       /\ \A i \in said[n].from..(said[n].to - 1) : ~MayEnd(said[n].from, i)
  /\ \A i \in 1..start : heard[i] = "letter" =>
       \E n \in DOMAIN said : i \in said[n].from..said[n].to
  /\ \A i \in (start + 1)..Len(heard) :
       ~MayEnd(start + 1, i) /\ \A n \in DOMAIN said : said[n].to <= start
=============================================================================
