----------------------------- MODULE MCLanguage -----------------------------
(* Documents of a few lines about three steps. *)
EXTENDS Language, TLC

CONSTANTS a, b, c, t

MCNames == {a, b, c}

Line(kw, args) == [kw |-> kw, args |-> args]

MCLines ==
    {Line("section", <<t>>), Line("step", <<>>), Line("workflow", <<t>>), Line(Overlong, <<>>),
     Line("note", <<t>>), Line("assign", <<t>>), Line("item!", <<t, t>>),
     Line("gate", <<>>), Line("ask", <<t, Arrow, Comma>>)}
    \cup {Line("step", <<n>>) : n \in MCNames}
    \cup {Line("needs", <<n>>) : n \in MCNames}
    \cup {Line("ask", <<t, Arrow, p[1], p[2]>>) :
             p \in {q \in MCNames \X MCNames : q[1] # q[2]}}

Symmetric == Permutations(MCNames)
=============================================================================
