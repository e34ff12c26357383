--------------------------- MODULE MCPrefixCache ---------------------------
(***************************************************************************)
(* PrefixCache for two requests at a time, prompts that are prefixes of    *)
(* one another or share none, and one image.                               *)
(***************************************************************************)
EXTENDS PrefixCache, TLC

X   == <<"x">>
XY  == <<"x", "y">>
XYX == <<"x", "y", "x">>
YY  == <<"y", "y">>

\* X is too short for the cache; XYX leaves no room for YY or XY.
NestedPrompts == {X, XY, XYX, YY}

ShortPrompts == {X, <<"y">>, <<"z">>}

Symmetry == Permutations(Requests)

=============================================================================
