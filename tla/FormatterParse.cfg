\* All patterns of up to five characters and all spellings of up to three tokens.
SPECIFICATION Spec
CONSTANTS
  Alpha <- Letters
  Patterns <- AllPatterns
  Replacements <- SomePatterns
  MaxPatterns = 2
  Sentences <- AllSentences
CHECK_DEADLOCK FALSE
INVARIANTS
  TypeOK
  PrintsWhatItSpells
  ConsumedIsKept
PROPERTIES
  InitTerminates
