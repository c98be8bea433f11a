\* Replies of five runes in deltas of up to two, sentences of at least two; three
\* words and up to three terms around thresholds of three and five letters, a prompt
\* of two terms and eight bytes; durations of ten bits, so that the exponential and
\* a hint go beyond them.
SPECIFICATION AlgorithmsSpec
CONSTANTS
  MinRunes = 2
  MaxHeard = 5
  MaxDelta = 2
  Alphabet = {"a", "b"}
  Texts <- AllTexts
  Vocabularies <- AllVocabularies
  MaxTerms = 2
  MaxBytes = 8
  FuzzyMin = 3
  FuzzyTwo = 5
  MinWord = 2
  Window = 2
  FuzzyWindow = 2
  SomeText <- OneWord
  SomeVocab <- Empty
  Width = 10
  Second = 10
  Delays = {0, 7, 40}
  Multipliers = {1, 3}
  Jitters = {0, 2, 15}
  Attempts = 6
  Hints = {0, 1, 5, 51, 60, 110, 600}
INVARIANTS SentencesAreStable CorrectionIsSound PromptIsFull SleepsAreBounded
CHECK_DEADLOCK FALSE
