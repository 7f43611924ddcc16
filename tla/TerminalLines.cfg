SPECIFICATION ScreenSpec
CONSTANTS
  WIDTH = 20
  HEIGHT = 5
  FONT_WIDTH = 2
  LINE_HEIGHT = 1
  MAX_FONTSIZE = 2
  COMMAND_CHAR <- MCPrompt
  MAX_TERMINAL_CHARS = 3
  Letters = {"7"}
  Outputs <- MCOutputs
  INT_MAX = 4095
  Numbers = {0, 2, 3, 4, 6, 7, 9, 10, 23, 59, 100, 4095}
  BUFF_MAX = 8
  MaxTyped = 5
INVARIANTS ScreenShowsText NumbersReadBack ProgramsAnswer
