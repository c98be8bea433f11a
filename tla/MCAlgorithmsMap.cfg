\* Two replacements that are heard alike but for their case, as in the other run.
SPECIFICATION AlgorithmsSpec
CONSTANTS
  MinRunes = 2
  MaxHeard = 5
  MaxDelta = 2
  Alphabet = {"a", "b"}
  Texts <- AllTexts
  Vocabularies <- AllVocabularies
  MaxTerms = 2
  MaxBytes = 8
  FuzzyMin = 3
  FuzzyTwo = 5
  MinWord = 2
  Window = 2
  FuzzyWindow = 2
  SomeText <- OneWord
  SomeVocab <- Empty
  Width = 10
  Second = 10
  Delays = {0, 7, 40}
  Multipliers = {1, 3}
  Jitters = {0, 2, 15}
  Attempts = 6
  Hints = {0, 1, 5, 51, 60, 110, 600}
INVARIANTS CorrectIsDeterministic
CHECK_DEADLOCK FALSE
