---------------------------- MODULE MCFormatting ----------------------------
(* The formatter, on its own, given the texts of MCText.                     *)
EXTENDS Formatting, MCText

CONSTANTS MaxWidth, Variables, Identifiers, Strings, Numerals, Comments

LOCAL P == INSTANCE Printer

FormatOfAny == [t \in Seq(STRING) |-> P!Format(t)]
UnderstandingOfAny == [t \in Seq(STRING) |-> P!Understanding(t)]
=============================================================================
