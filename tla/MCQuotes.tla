------------------------------ MODULE MCQuotes ------------------------------
(***************************************************************************)
(* Quotes for TLC: two requests at a time, two acts of which the ficha     *)
(* names the first, one captured budget, one proposal or two.              *)
(***************************************************************************)
EXTENDS Quotes, TLC

CONSTANTS s1, s2, a1, a2, b1, g1, g2, h1, f1, f2, k1

Sesiones == {s1, s2}
Actos == {a1, a2}
Fichas == {{}, {a1}}
Capturas == {b1}
Propuestas == {g1}
DosPropuestas == {g1, g2}
Archivos == {f1, f2}
Claves == {k1}

(* Requests are interchangeable, and so are storage keys. *)
Symmetry == Permutations(Sesiones) \cup Permutations(Archivos) \cup Permutations(DosPropuestas)

=============================================================================
