----------------------------- MODULE Algorithms -----------------------------
(***************************************************************************)
(* The pure algorithms of the library, each fed with every input within    *)
(* its bounds: the sentences of a spoken reply, the corrections of a       *)
(* transcript, the sleeps between the attempts of a request.  They share   *)
(* nothing: a behaviour is one of them.                                    *)
(***************************************************************************)
EXTENDS Sentences, Vocabulary, Backoff

CONSTANTS SomeText,  \* a transcript for the behaviours of the other algorithms
          SomeVocab  \* and a vocabulary

ASSUME AlgorithmsAssumption == SomeText \in Texts /\ SomeVocab \in Vocabularies

VARIABLE algorithm  \* which of them it is

algorithmsVars == <<algorithm, sentenceVars, vocabularyVars, backoffVars>>

AlgorithmsInit ==
  /\ algorithm \in {"sentences", "vocabulary", "backoff"}
  /\ SentencesInit
  /\ VocabularyInit /\ (algorithm # "vocabulary" => vocab = SomeVocab /\ toks = SomeText)
  /\ BackoffInit /\ (algorithm # "backoff" => policy = CHOOSE p \in Policies : TRUE)

Cut == /\ algorithm = "sentences" /\ SentencesNext
       /\ UNCHANGED <<algorithm, vocabularyVars, backoffVars>>
Correct == /\ algorithm = "vocabulary" /\ VocabularyNext
           /\ UNCHANGED <<algorithm, sentenceVars, backoffVars>>
Wait == /\ algorithm = "backoff" /\ BackoffNext
        /\ UNCHANGED <<algorithm, sentenceVars, vocabularyVars>>

AlgorithmsNext == Cut \/ Correct \/ Wait

AlgorithmsSpec == AlgorithmsInit /\ [][AlgorithmsNext]_algorithmsVars
=============================================================================
