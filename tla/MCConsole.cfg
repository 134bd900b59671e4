\* Lines of up to four characters behind prompts of one and two, so that they wrap and reach the bottom row.
SPECIFICATION Spec
CONSTANTS
  NUM_COLS = 4
  NUM_ROWS = 3
  WORD = 64
  Characters <- Glyphs
  Letters = {"a"}
  Prompts <- Prompt
  Outputs <- Output
  Recalled <- History
  Foreground <- Rest
  MaxLine = 4
INVARIANT
  ScreenEndsWithLine
PROPERTIES
  PastKept
  NoStray
