----------------------------- MODULE MCBnetRead -----------------------------
(***************************************************************************)
(* Every file of up to five of these directives: lists with no name, a     *)
(* name driven twice, an undriven pin, a gate that reads one signal twice, *)
(* two gates that read each other, a constant, .outputs before and after   *)
(* the gates, an unknown directive, and files that just end.               *)
(***************************************************************************)
EXTENDS BnetRead

CONSTANTS a, f, g

MCName == {a, f, g}

Directive(kind, names, lines) == [kind |-> kind, names |-> names, lines |-> lines]

MCDirectives ==
    {Directive("inputs", s, <<>>) : s \in {<<>>, <<a>>, <<a, g>>}} \cup
    {Directive("outputs", s, <<>>) : s \in {<<>>, <<f>>}} \cup
    {Directive("names", s, <<"1">>) : s \in {<<>>, <<a, f>>, <<g, f>>, <<a, a, g>>, <<f>>}} \cup
    {Directive("names", <<f, g>>, <<"0", "0">>),
     Directive("model", <<>>, <<>>), Directive("end", <<>>, <<>>),
     Directive("other", <<>>, <<>>)}
=============================================================================
