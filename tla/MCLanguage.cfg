\* Every program of MCVM on the machine, against its end on the walker; words of
\* four bits; expressions two operators deep, and programs with two comments
\* anywhere.
SPECIFICATION SceneSpec
CONSTANTS
  MaxInt = 7
  MaxString = 6
  MaxCallDepth = 3
  MaxOverflowFires = 2
  Code <- AgreedCode
  Expected <- AgreedEnds
  MaxWidth = 8
  Variables = {"$x", "$y"}
  Identifiers = {"f", "g", "example", "use", "export", "fails", "BEGIN", "END"}
  Strings = {"'s'"}
  Numerals = {"1", "2"}
  Comments = {"#1", "#2"}
  Sources <- AllTexts
  Written <- FormatOfAny
  Understood <- UnderstandingOfAny
INVARIANTS Parity ScopesBalanced OverflowExact FormatKeepsMeaning FormatSettles
PROPERTIES MachineHalts
CHECK_DEADLOCK FALSE
