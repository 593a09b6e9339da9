----------------------------- MODULE Formatting -----------------------------
(* A source file that drang fmt -w rewrites, again and again.                *)
EXTENDS Sequences

CONSTANTS Sources,           \* the texts there are
          Written,           \* Printer's Format, for every text
          Understood         \* Printer's Understanding, for every text

VARIABLES source,            \* what was written by hand
          text               \* what the file holds now

formatVars == <<source, text>>

FormatInit == source \in Sources /\ text = source

\* What does not format is reported and stays as it is.
Left(f, t) == IF f.ok THEN f.text ELSE t
Fmt == text' = Left(Written[text], text) /\ UNCHANGED source

FormatNext == Fmt
FormatSpec == FormatInit /\ [][FormatNext]_formatVars

-----------------------------------------------------------------------------
(* Properties.                                                               *)

\* A formatted file is the program that was written, with its comments: no
\* parenthesis that matters is lost, no line break moves, no comment vanishes
\* ("never changes what a program does", MANUAL.md:5209).
FormatKeepsMeaning == text # source => Understood[text] = Understood[source]

\* Formatting a formatted file changes nothing ("running `fmt` on
\* already-formatted source is a no-op", MANUAL.md:5306).
FormatSettles == text # source => Written[text] = [ok |-> TRUE, text |-> text]
=============================================================================
