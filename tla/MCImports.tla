------------------------------ MODULE MCImports ------------------------------
(* Three modules, and the shapes their imports can take. *)
EXTENDS Modules, TLC

CONSTANTS a, b, c

Three == {a, b, c}

Diamond == (a :> {b, c}) @@ (b :> {c}) @@ (c :> {})
Circle == (a :> {b}) @@ (b :> {c}) @@ (c :> {a})
Pair == (a :> {b}) @@ (b :> {a, b}) @@ (c :> {a})

AllShapes == {Diamond, Circle, Pair}
OneCircle == {Circle}
=============================================================================
