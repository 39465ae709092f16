---------------------------- MODULE MCParameters ----------------------------
(* The parameters of a filter on small names and few callbacks.            *)
EXTENDS Parameters

\* Characters of three digits.  B and C part after one digit, B and E at
\* once.
B == <<1, 1, 1>>
C == <<1, 2, 1>>
E == <<2, 1, 1>>

\* Names that split, bifurcate and merge at each digit of a character.
SmallNames == {B \o B, B \o B \o B, B \o B \o C, B \o B \o E, C}
\* All parameters but those named C have a setCallback().
AllButC == SmallNames \ {C}
OnePattern == {{n \in SmallNames : Len(n) = 9}}

cb(fn, keep, one) == [fn |-> fn, keep |-> keep, one |-> one]
CONSTANTS f, g
TwoCallbacks == {cb(f, TRUE, FALSE), cb(g, FALSE, TRUE)}

-----------------------------------------------------------------------------
\* The constants of the violation runs.
PrefixNames == {B, B \o B, B \o E}
OneCallback == {cb(f, FALSE, FALSE)}
=============================================================================
