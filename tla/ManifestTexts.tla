----------------------------- MODULE ManifestTexts -----------------------------
(***************************************************************************)
(* Texts for Manifest.  Every text starts with a rule whose command        *)
(* mentions one variable of the rule twice, directly and through another;  *)
(* the file may bind a variable of the rule, another file has its own rule *)
(* of the same name, a rule is circular, and outputs and inputs are        *)
(* repeated.                                                               *)
(***************************************************************************)
EXTENDS Integers, Sequences, TLC

raw(t) == <<"raw", t>>
var(x) == <<"var", x>>

Let(x, v) == [kind |-> "let", key |-> x, value |-> v]
Rule(name, bs) == [kind |-> "rule", name |-> name, bindings |-> bs]
Build(outs, also, rule, ins, bs) ==
    [kind |-> "build", outs |-> outs, implicit_outs |-> also, rule |-> rule,
     ins |-> ins[1], implicit_ins |-> ins[2], order_only |-> ins[3], validations |-> <<>>,
     bindings |-> bs]

Validated(edge, by) == [edge EXCEPT !.validations = by]

A == <<raw("a")>>
B == <<raw("b")>>
C == <<raw("c")>>
X == <<var("x")>>

MCPreamble ==
    <<Rule("cc", ("command" :> <<raw("cc"), var("description"), var("depfile")>>) @@
                 ("depfile" :> <<var("description"), var("x")>>) @@
                 ("description" :> <<raw("d")>>)),
      Let("x", A)>>

MCStatement ==
    {Let("x", <<raw("./"), raw("b")>>),
     Let("depfile", <<raw("f"), var("x")>>),
     Rule("cc", "command" :> <<raw("other"), var("x")>>),
     Rule("loop", ("command" :> <<var("depfile")>>) @@ ("depfile" :> <<raw("e"), var("depfile")>>)),
     Rule("bad", ("command" :> A) @@ ("rspfile" :> A)),
     [kind |-> "pool", name |-> "link", depth |-> 1],
     [kind |-> "include"],
     [kind |-> "subninja"],
     [kind |-> "default", path |-> B],
     Build(<<X>>, <<>>, "cc", <<<<C>>, <<>>, <<>>>>, <<>>),
     Build(<<A>>, <<B, C>>, "cc", <<<<>>, <<>>, <<>>>>, ("x" :> <<raw("c"), var("x")>>) @@ ("pool" :> <<raw("link")>>)),
     Build(<<B, C>>, <<A>>, "loop", <<<<>>, <<>>, <<C>>>>, "depfile" :> <<raw("f")>>),
     Build(<<C>>, <<>>, "loop", <<<<A>>, <<B>>, <<>>>>, "dyndep" :> X),
     Validated(Build(<<B>>, <<>>, "phony", <<<<C>>, <<>>, <<B>>>>, <<>>), <<A>>)}
===============================================================================
