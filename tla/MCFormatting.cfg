\* Two branches with comments behind their braces.
SPECIFICATION FormatSpec
CONSTANTS
  MaxWidth = 8
  Variables = {"$x", "$y"}
  Identifiers = {"f", "g", "example", "use", "export", "fails", "BEGIN", "END"}
  Strings = {"'s'"}
  Numerals = {"1", "2"}
  Comments = {"#1", "#2"}
  Written <- FormatOfAny
  Understood <- UnderstandingOfAny
  Sources <- ElseTexts
INVARIANT FormatSettles
