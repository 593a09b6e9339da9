-------------------------------- MODULE MCText --------------------------------
(* The texts TLC formats: expressions with one operator inside another, and  *)
(* programs with comments and line breaks put in everywhere.                 *)
EXTENDS Naturals, Sequences

(* Expressions, with parentheses around every operand that is not a leaf. *)
Parens(s) == IF Len(s) = 1 THEN s ELSE <<"(">> \o s \o <<")">>
InfixOps == {"or", "and", "//", "==", "<", "..", "+", "-", "*"}
Prefixed(S) == {<<op>> \o Parens(s) : op \in {"-", "!"}, s \in S}
Joined(S, R) == {Parens(s) \o <<op>> \o Parens(r) : op \in InfixOps, s \in S, r \in R}
Piped(S, R) ==
  {Parens(s) \o <<"|>">> \o Parens(r) \o <<"(", ")">> : s \in S, r \in R}
  \cup {Parens(s) \o <<"|>", "f", "(">> \o r \o <<")">> : s \in S, r \in R}
Applied(s) ==
  {Parens(s) \o <<"(", ")">>, Parens(s) \o <<"[", "1", "]">>, <<"f", "[">> \o s \o <<"]">>,
   Parens(s) \o <<".", "g">>, Parens(s) \o <<"?">>}
Around(s) ==
  {<<"|", "$y", "|">> \o Parens(s), <<"|", "$y", "=">> \o s \o <<"|", "{">> \o s \o <<"}">>,
   <<"[">> \o s \o <<",", "$x", "]">>, <<"{">> \o s \o <<":">> \o s \o <<"}">>,
   <<"f", "(">> \o s \o <<",">> \o s \o <<")">>}

X1 == {<<"$x">>}
OneDeep ==
  Prefixed({<<"$x">>, <<"1">>}) \cup Joined(X1, {<<"1">>}) \cup Piped(X1, {<<"f">>})
  \cup Applied(<<"$x">>) \cup Around(<<"$x">>)
TwoDeep ==
  Prefixed(OneDeep) \cup Joined(OneDeep, {<<"1">>}) \cup Joined({<<"1">>}, OneDeep)
  \cup Piped(OneDeep, {<<"f">>}) \cup Piped(X1, OneDeep)
  \cup UNION {Applied(s) \cup Around(s) : s \in OneDeep}
Expressions == {s \o <<"\n">> : s \in TwoDeep \cup Joined(OneDeep, OneDeep)}

(* Statements of every kind. *)
Programs ==
  << <<"$x", ":=", "1", "\n", "f", "(", "1", ",", "$x", ")", "\n">>,
     <<"if", "$x", "{", "f", "(", ")", "}", "if", "$y", "{", "}", "\n", "1", "\n">>,
     <<"$x", "|>", "f", "|>", "g", "(", "1", ")", "\n">>,
     <<"while", "$x", "{", "break", "if", "$y", ";", "next", "}", "$x", "+=", "1", "\n">>,
     <<"fn", ".", "f", "(", "$x", ",", "$y", "=", "1", ")", "{", "return", "[", "$x", ",", "$y",
       "]", "}", "f", "(", ")", ";", "1", "\n">>,
     <<"for", "$x", ",", "$y", "in", "{", "1", ":", "2", ",", "2", ":", "1", "}", "{", "return",
       "}", "\n">>,
     <<"export", "$x", "::=", "|", "$y", "|", "{", "$y", "\n", "f", "(", ")", "}", "\n", "use",
       "'s'", "\n">>,
     <<"f", "(", "|", "$x", "|", "{", "g", "(", "$x", ")", "}", ",", "1", ")", "unless", "!",
       "$y", "\n", "BEGIN", "{", "}", "\n">>,
     <<"example", "f", "(", "1", ")", "==", "2", "\n", "example", "g", "fails", "\n", "$x",
       "until", "$y", "\n">> >>
Branches ==
  <<"if", "$x", "{", "f", "(", ")", "}", "else", "if", "$y", "{", "g", "(", ")", "}", "else",
    "{", "}", "\n", "1", "\n">>

(* A text t put in after the first i lexemes of s, anywhere. *)
Insert(s, i, t) == SubSeq(s, 1, i) \o t \o SubSeq(s, i + 1, Len(s))
Anywhere(S, t) == UNION {{Insert(s, i, t) : i \in 0..Len(s)} : s \in S}
ProgramTexts == {Programs[k] : k \in DOMAIN Programs}
Comment1 == <<"#1", "\n">>
Comment2 == <<"#2", "\n">>
Commented == Anywhere(ProgramTexts \cup {Branches}, Comment1)
TwiceCommented == Anywhere(Anywhere(ProgramTexts, Comment1), Comment2)
Broken == Anywhere(ProgramTexts \cup {Branches}, <<"\n">>)

AllTexts == Expressions \cup Commented \cup TwiceCommented \cup Broken
ElseTexts == Anywhere(Anywhere({Branches}, Comment1), Comment2)
=============================================================================
