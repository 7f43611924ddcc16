SPECIFICATION Spec
CONSTANTS
  Child = {c1, c2}
  MAX_TERMINAL_CHARS = 6
  MAX_WORDS = 4
  MAX_WORD_LENGTH = 2
  NULL = NULL
  MaxChildren = 3
INVARIANTS WordsAreSplit PartsInMemory WaitsForItsProgram
PROPERTY EndsOnlyOnExit
CHECK_DEADLOCK FALSE
SYMMETRY Symmetry
