SPECIFICATION Spec
CONSTANTS
  Commands = {c1, c2}
  Arguments <- CreateArguments
  HandWritten <- HandWrittenTexts
  Calls <- ProgramCalls
  Beginnings <- ProgramBuilders
  MaxCreates = 2
SYMMETRY Symmetry
INVARIANTS TypeOK BuiltStaysValid ReadBack AcceptedMoves
