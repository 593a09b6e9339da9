----------------------------- MODULE Accumulator -----------------------------
(* An integer variable that a program updates again and again, $v op= k, or  *)
(* sets to the length of a range, $v = len($v..k).                           *)
EXTENDS Numbers

VARIABLES held,              \* what $v holds
          latest             \* the latest update, and whether it failed

accVars == <<held, latest>>

\* A failed update aborts its strand; $v stays what it was.
NoUpdate == [op |-> "none"]
UpdateRecords == [op : Integral, from : Word, by : Word, failed : BOOLEAN]
LengthRecords == [op : {"len"}, from : Word, by : Word, failed : {FALSE}]

AccInit == held \in Word /\ latest = NoUpdate

AccUpdate(op, k) ==
  /\ latest' = [op |-> op, from |-> held, by |-> k, failed |-> Fails(op, held, k)]
  /\ held' = IF Fails(op, held, k) THEN held ELSE Result(op, held, k)

AccMeasure(k) ==
  /\ latest' = [op |-> "len", from |-> held, by |-> k, failed |-> FALSE]
  /\ held' = RangeLen(held, k)

AccNext == \E k \in Word : AccMeasure(k) \/ \E op \in Integral : AccUpdate(op, k)

AccSpec == AccInit /\ [][AccNext]_accVars

-----------------------------------------------------------------------------
(* Properties.                                                               *)

AccTypeOK == held \in Word /\ latest \in UpdateRecords \cup LengthRecords \cup {NoUpdate}

Exact(op, a, b) == CASE op = "+" -> a + b [] op = "-" -> a - b [] op = "*" -> a * b

\* No sum, difference or product is ever left wrapped, and none fails that fits:
\* at every corner of the word, by whichever rule its operator has ("so integer
\* arithmetic fails loudly ... instead of wrapping silently", addOverflows).
OverflowExact ==
  latest.op \in {"+", "-", "*"} =>
    LET n == Exact(latest.op, latest.from, latest.by)
    IN  /\ latest.failed <=> n \notin Word
        /\ held = IF latest.failed THEN latest.from ELSE n

\* A length is the number of integers walked, or the largest integer when there
\* are more ("so the subtraction can't overflow across the sign boundary", Len).
LengthExact ==
  latest.op = "len" =>
    LET n == latest.by - latest.from + 1
    IN  held = IF n < 0 THEN 0 ELSE IF n > MaxInt THEN MaxInt ELSE n
=============================================================================
