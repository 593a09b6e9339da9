-------------------------------- MODULE MCVM --------------------------------
(* The programs TLC runs on both backends: pairs of fragments in the body of *)
(* a function that keeps its locals in registers, of one that keeps them in  *)
(* scopes because a closure captures one, and at the top level.              *)
EXTENDS VM, Compiler

A == Var("a")
B == Var("b")
X == Var("x")
Y == Var("y")
G == Var("g")
I(n) == Lit(IntV(n))
S(s) == Lit(TextV(s))
CallOf(x, as) == Call(Name(x), as)
SayOf(as) == Do(CallOf("say", as))
Nothing == CallOf(".nil", <<>>)
Inc(v, n) == Update(v, "+", I(n))
NoDefaults(n) == [i \in 1..n |-> None]

\* Functions the fragments call.  .deep never ends by itself, .wide branches.
Library ==
  << Decl("g", I(0)),
     Fn(".nil", <<>>, <<>>, <<>>),
     Fn(".id", <<"v">>, NoDefaults(1), <<Return(Var("v"))>>),
     Fn(".two", <<"p", "q">>, <<None, Bin("+", Var("p"), I(1))>>,
        <<Do(ArrayLit(<<Var("p"), Var("q")>>))>>),
     Fn(".down", <<"n">>, NoDefaults(1),
        <<If(Bin("<=", Var("n"), I(0)), <<Return(I(0))>>),
          Do(Bin("+", CallOf(".down", <<Bin("-", Var("n"), I(1))>>), I(1)))>>),
     Fn(".pick", <<"p">>, NoDefaults(1),
        <<ElseIf(Bin("==", Var("p"), I(0)), <<Do(S("zero"))>>,
                 IfElse(Not(Var("p")), <<Decl("q", S("no")), Do(Var("q"))>>,
                        <<For(<<"e">>, RangeLit(I(1), I(1)), <<Do(Var("e"))>>)>>))>>),
     Fn(".deep", <<"n">>, NoDefaults(1), <<Do(CallOf(".deep", <<Var("n")>>))>>),
     Fn(".wide", <<>>, <<>>,
        <<Do(Bin("+", CallOf(".wide", <<>>), CallOf(".wide", <<>>)))>>) >>

\* Fragments: sequences of statements over $a, $b, the local $x and the global $g.
Loops ==
  << <<While(Bin("<", X, I(2)), <<Inc(X, 1), If(Bin("==", X, A), <<Break>>), SayOf(<<X>>)>>)>>,
     <<While(Bin("<", X, I(3)), <<Inc(X, 1), If(Bin(">=", X, A), <<Decl("z", X), Next_>>),
                                  SayOf(<<X>>)>>)>>,
     <<While(Not(X), <<Assign(X, I(1)), Next_>>)>>,
     <<For(<<"i">>, RangeLit(I(0), I(2)),
           <<If(Bin("!=", Var("i"), A), <<Next_>>), Update(X, "+", Var("i"))>>)>>,
     <<For(<<"i">>, RangeLit(I(MaxInt - 1), I(MaxInt)), <<SayOf(<<Var("i")>>)>>)>>,
     <<For(<<"k", "v">>, MapLit(<<Name("p"), S("q")>>, <<A, B>>),
           <<SayOf(<<Var("k"), Var("v")>>), If(Var("v"), <<Break>>)>>)>>,
     <<For(<<"i">>, RangeLit(I(1), I(2)),
           <<For(<<"c">>, Interp(<<A, X>>),
                 <<Decl("w", Var("c")),
                   IfElse(Bin("<", X, Var("i")), <<Inc(X, 1), Next_>>, <<Break>>)>>)>>)>>,
     <<For(<<"e">>, ArrayLit(<<A, B>>), <<While(Lit(BoolV(TRUE)), <<Break>>), Inc(X, 1)>>)>>,
     <<For(<<"e">>, CallOf("fail", <<>>), <<Inc(X, 1)>>)>>,
     <<For(<<"e">>, A, <<Inc(X, 1)>>)>>,
     <<For(<<"e">>, ArrayLit(<<A, B, CallOf("fail", <<>>)>>),
           <<If(Lit(BoolV(TRUE)), <<Decl("w", Try(Var("e"))), SayOf(<<Var("w")>>)>>)>>)>> >>

Updates ==
  << <<Update(X, "+", A), Assign(X, Bin("-", X, I(1)))>>,
     <<Assign(X, Bin("+", I(1), A)), Update(X, "//", B), Update(X, "~", A)>>,
     <<Decl("y", Nothing), Update(Y, "+", I(2)), Update(Y, "*", X), SayOf(<<Y>>)>>,
     <<Assign(X, Logic("&&", A, B)), Decl("x", Bin("+", X, I(1)))>>,
     <<Assign(X, Logic("||", X, A)), Assign(X, DefOr(Nothing, B))>>,
     <<Assign(G, Bin("+", G, X)), Inc(G, 1), SayOf(<<G>>)>>,
     <<Decl("m", Nothing), Assign(At(Var("m"), S("q")), B),
       Update(At(Field(Var("m"), "p"), I(0)), "+", I(1)), SayOf(<<Var("m")>>)>>,
     <<Decl("m", Nothing), Update(Field(At(Var("m"), S("r")), "p"), "+", A),
       SayOf(<<At(Field(Var("m"), "r"), S("p")), Field(Var("m"), "no")>>)>>,
     <<Assign(At(G, I(0)), A)>>,
     <<Decl("r", ArrayLit(<<A>>)), Do(CallOf("push", <<Var("r"), B>>)),
       For(<<"e">>, Var("r"), <<Do(CallOf("push", <<Var("r"), Var("e")>>))>>),
       Assign(At(Var("r"), I(-1)), X), SayOf(<<CallOf("len", <<Var("r")>>), Var("r")>>)>>,
     <<If(A, <<Decl("x", I(5)), Inc(X, 1), SayOf(<<X>>)>>)>>,
     <<Assign(Var("nowhere"), X)>> >>

Values1 ==
  << <<SayOf(<<Interp(<<S("v"), A, X>>), Neg(X), Not(B)>>)>>,
     <<SayOf(<<Interp(<<A, A, A, A, A, CallOf(".nil", <<>>), B>>)>>)>>,
     <<SayOf(<<Bin("<", A, X), Bin("==", B, Nothing), At(B, S("k"))>>)>>,
     <<SayOf(<<Bin("%", A, I(2)), Bin("~", B, S("t")), Bin("*", I(2), X)>>)>>,
     <<SayOf(<<MapLit(<<ArrayLit(<<>>), S("k")>>, <<CallOf("say", <<A>>), B>>)>>)>>,
     <<SayOf(<<MapLit(<<A, X>>, <<B, A>>), At(A, X), At(CallOf("fail", <<>>), X)>>)>> >>

Calls1 ==
  << <<Decl("y", Try(CallOf(".id", <<DefOr(B, CallOf("fail", <<>>))>>))), SayOf(<<Y>>)>>,
     <<SayOf(<<Pipe(A, Name(".two"), <<>>), CallOf(".two", <<A, X>>)>>)>>,
     <<SayOf(<<CallOf(".down", <<A>>), DefOr(CallOf(".deep", <<A>>), X)>>)>>,
     <<SayOf(<<CallOf(".wide", <<>>)>>)>>,
     <<SayOf(<<CallOf(".pick", <<A>>), CallOf(".pick", <<B>>)>>)>>,
     <<Decl("n", A), Decl("inc", Lambda(<<>>, <<>>, <<Inc(Var("n"), 1)>>)),
       SayOf(<<Call(Var("inc"), <<>>), Call(Var("inc"), <<>>), Var("n")>>)>>,
     <<Decl("y", Lambda(<<"v">>, NoDefaults(1), <<Update(G, "+", Var("v"))>>)),
       Assign(X, Call(Y, <<A>>)), Do(Call(Y, <<I(1)>>))>>,
     <<Decl("y", Name("say")), Do(Call(Y, <<X>>)), Do(Call(A, <<>>))>> >>

\* Only in a function: a return, and closures over its locals.
InFunction ==
  << <<If(Bin("==", A, X), <<Return(None)>>)>>,
     <<For(<<"i">>, ArrayLit(<<A, B>>), <<If(Var("i"), <<Return(Bin("+", X, Var("i")))>>)>>)>>,
     <<For(<<"i">>, RangeLit(I(0), I(1)),
           <<Assign(G, Lambda(<<>>, <<>>, <<Do(Bin("+", Var("i"), A))>>))>>),
       SayOf(<<Call(G, <<>>)>>)>> >>

\* Names the compiler has to look up at run time: constants, a named function
\* in a block, a binding that shadows a builtin.  None fits a register function.
InScopes ==
  << <<Const("k", ArrayLit(<<A>>)), Do(CallOf("push", <<Var("k"), B>>)),
       Assign(At(Var("k"), I(0)), B)>>,
     <<If(A, <<Fn(".in", <<"p">>, NoDefaults(1), <<Inc(X, 1), Do(Var("p"))>>),
               Assign(X, CallOf(".in", <<A>>))>>), SayOf(<<X>>)>>,
     <<Decl("len", Name(".id")), Do(CallOf("len", <<X, A>>))>> >>

-----------------------------------------------------------------------------
(* Programs.                                                                 *)

FnProgram(body, args) ==
  Library \o << Fn(".f", <<"a", "b">>, NoDefaults(2), <<Decl("x", I(0))>> \o body \o <<Do(X)>>),
                SayOf(<<CallOf(".f", args), G>>) >>
TopProgram(body, args) ==
  Library \o <<Decl("a", args[1]), Decl("b", args[2]), Decl("x", I(0))>> \o body
          \o <<SayOf(<<X, G>>)>>

\* The body in a function whose locals are registers, in one with a closure
\* over $x, and as part of the program itself.
Where == {"registers", "scopes", "top"}
InContext(where, body, args) ==
  CASE where = "registers" -> FnProgram(body, args)
    [] where = "scopes" ->
         FnProgram(<<Decl("seen", Lambda(<<>>, <<>>, <<Do(X)>>))>> \o body
                   \o <<SayOf(<<Call(Var("seen"), <<>>)>>)>>, args)
    [] where = "top" -> TopProgram(body, args)

ArgLists == << <<I(1), I(2)>>, <<I(0), Nothing>>, <<S("s"), I(1)>> >>

Shared == Loops \o Updates \o Values1 \o Calls1
Fragments == Shared \o InFunction \o InScopes
Fits(f, where) ==
  CASE f \in 1..Len(Shared) -> TRUE
    [] f \in (Len(Shared) + 1)..(Len(Shared) + Len(InFunction)) -> where # "top"
    [] OTHER -> where # "registers"

\* Every fragment, then each of Followers, wherever it fits, for all arguments.
Followers == <<Loops[2], Loops[4], Updates[7]>>
AgreedCases ==
  {p \in Where \X (DOMAIN Fragments) \X (DOMAIN Followers) \X (DOMAIN ArgLists) :
     Fits(p[2], p[1])}
Agreed(p) == InContext(p[1], Fragments[p[2]] \o Followers[p[3]], ArgLists[p[4]])

\* A register local assigned from an expression that reads it after the first
\* write to its slot.
SelfReads ==
  << <<Assign(X, Interp(<<S("v"), X>>))>>,
     <<Assign(X, DefOr(Nothing, X))>>,
     <<Assign(X, Logic("||", Nothing, X))>> >>
SelfAssign(p) == InContext("registers", SelfReads[p], ArgLists[1])

-----------------------------------------------------------------------------
(* Both backends, given the same programs.                                   *)

AgreedCode == [p \in AgreedCases |-> Compile(Agreed(p))]
AgreedEnds == [p \in AgreedCases |-> Walk(Agreed(p))]
SelfAssignCode == [p \in DOMAIN SelfReads |-> Compile(SelfAssign(p))]
SelfAssignEnds == [p \in DOMAIN SelfReads |-> Walk(SelfAssign(p))]
=============================================================================
