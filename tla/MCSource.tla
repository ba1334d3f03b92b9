------------------------------ MODULE MCSource ------------------------------
(***************************************************************************)
(* Source for TLC: every text of a few fragments, and every text of two    *)
(* lines of fewer kinds of fragments.                                      *)
(***************************************************************************)
EXTENDS Source

MCChars == {"v", "a", "r", "b", "1", "0", "x", " ", "tab", "#", ",", ";", "!", NewLine}

Fragments ==
    { <<"v", "a", "r">>, <<"b">>, <<"1">>, <<"0", "x">>, <<" ">>, <<"#">>, <<",">>,
      <<"nl">>, <<"!">> }
LineFragments == { <<"b">>, <<"tab">>, <<"#">>, <<";">> }

Joined(frags) == FoldLeft(LAMBDA acc, f : acc \o f, <<>>, frags)
UpTo(n, frags) == UNION { { Joined(f) : f \in [1 .. m -> frags] } : m \in 0 .. n }

Lines == UpTo(3, LineFragments)
MCFiles == UpTo(4, Fragments) \cup { k \o <<NewLine>> \o l : k \in Lines, l \in Lines }
=============================================================================
