------------------------------- MODULE Manifest -------------------------------
(***************************************************************************)
(* Reading a manifest (ManifestParser): from statements to scopes of       *)
(* variables and rules (BindingEnv), and to the graph of edges and nodes   *)
(* (State) that everything else works on; and what a variable of an edge   *)
(* then stands for (EdgeEnv).  A manifest may include others, in its own   *)
(* scope or in a new one.                                                  *)
(*                                                                         *)
(* The text is chosen as it is read, a statement at a time, out of the set *)
(* Statement; how the lexer finds the statements is left out, up to that   *)
(* it may find none.  A value with variables in it (EvalString) is a       *)
(* sequence of pairs <<"raw", text>> and <<"var", name>>, a value without  *)
(* a sequence of texts, the empty one what an unknown variable has.        *)
(***************************************************************************)
EXTENDS Integers, Sequences, FiniteSets, SequencesExt

CONSTANTS
    Statement,      \* the statements that may occur
    Preamble,       \* bound: the statements that every text starts with
    MaxStatements,  \* bound on the length of a text, ends of files included
    MaxOpen         \* bound on the files that include each other

VARIABLES
    dupes,     \* dupe_edge_action_: "error" or "warn"
    envs,      \* every BindingEnv: the parent's place, bindings_, rules_
    open,      \* the scope of each file that is being read, the last one the innermost
    pools,     \* names of the pools, but the default one
    in_edge,   \* nodes with an edge that makes them: the place of that edge
    outs_of,   \* each known node: out_edges_, places of edges
    edges,     \* edges_, each with the place of its statement in the text
    defaults,  \* defaults_
    parse,     \* "reading", "read" or "failed"
    text       \* history: the statements that were read, and the ends of files

graph == <<in_edge, outs_of, edges>>
vars  == <<dupes, envs, open, pools, graph, defaults, parse, text>>

\* Rule::IsReservedBinding, those of them that are told apart.
Reserved == {"command", "depfile", "description", "dyndep", "pool", "rspfile", "rspfile_content"}

End == [kind |-> "end"]

-----------------------------------------------------------------------------
(***************************************************************************)
(* Values.                                                                 *)
(***************************************************************************)
\* "." parts are dropped: the spellings of a path are one node.
CanonicalizePath(path) == SelectSeq(path, LAMBDA part : part # "./")

\* EvalString::Evaluate.
Substitute(value, Of(_)) ==
    FlattenSeq([i \in DOMAIN value |-> IF value[i][1] = "raw" THEN <<value[i][2]>>
                                       ELSE Of(value[i][2])])

RECURSIVE LookupVariable(_, _, _)
LookupVariable(scopes, env, x) ==
    IF env = 0 THEN <<>>
    ELSE IF x \in DOMAIN scopes[env].bindings THEN scopes[env].bindings[x]
    ELSE LookupVariable(scopes, scopes[env].parent, x)

Evaluate(value, scopes, env) ==
    Substitute(value, LAMBDA x : LookupVariable(scopes, env, x))

\* The rule of a name, in a set that is empty if there is none.
RECURSIVE LookupRule(_, _)
LookupRule(env, name) ==
    IF env = 0 THEN {}
    ELSE IF name \in DOMAIN envs[env].rules THEN {envs[env].rules[name]}
    ELSE LookupRule(envs[env].parent, name)

Fatal == "cycle in rule variables"
Dies(value) == Fatal \in ToSet(value)

\* EdgeEnv::LookupVariable: $in and $out; then LookupWithFallback, which takes the
\* edge's own scope, that of the file if the edge has no bindings, then the rule, then
\* what is around that scope.  stack is lookups_, the variables of the rule that are
\* being expanded; the one that was asked for first is not recorded.
RECURSIVE EdgeLookup(_, _, _, _, _)
EdgeLookup(edge, scopes, x, stack, recursive) ==
    LET rule  == edge.rule
        below == IF recursive /\ x \in DOMAIN rule THEN stack \cup {x} ELSE stack
        plain == Len(edge.ins) - edge.order_only - edge.implicit_deps
    IN  CASE x = "in"  -> FlattenSeq(SubSeq(edge.ins, 1, plain))
          [] x = "out" -> FlattenSeq(SubSeq(edge.outs, 1, Len(edge.outs) - edge.implicit_outs))
          [] x \notin {"in", "out"} /\ recursive /\ x \in stack -> <<Fatal>>
          [] OTHER ->
               IF x \in DOMAIN scopes[edge.env].bindings THEN scopes[edge.env].bindings[x]
               ELSE IF x \in DOMAIN rule
               THEN Substitute(rule[x], LAMBDA y : EdgeLookup(edge, scopes, y, below, TRUE))
               ELSE LookupVariable(scopes, scopes[edge.env].parent, x)

\* Edge::GetBinding.
GetBinding(e, x) == EdgeLookup(edges[e], envs, x, {}, FALSE)

Init ==
    /\ dupes \in {"error", "warn"}
    /\ envs = <<[parent |-> 0, bindings |-> <<>>, rules |-> ("phony" :> <<>>)]>>
    /\ open = <<1>> /\ pools = {"console"}
    /\ in_edge = <<>> /\ outs_of = <<>> /\ edges = <<>>
    /\ defaults = <<>> /\ parse = "reading" /\ text = <<>>

-----------------------------------------------------------------------------
env_ == Last(open)

Read(s) ==
    /\ parse = "reading" /\ Len(text) < MaxStatements
    /\ IF Len(text) < Len(Preamble) THEN s = Preamble[Len(text) + 1] ELSE s \in Statement
    /\ text' = Append(text, s)
    /\ UNCHANGED dupes

\* Parse returns false: main gives up.
Fail == parse' = "failed" /\ UNCHANGED <<envs, open, pools, graph, defaults>>

\* An IDENT token: ParseLet, and the value is bound at once.
ParseLet(s) ==
    /\ s.kind = "let" /\ Read(s)
    /\ envs' = [envs EXCEPT ![env_].bindings = (s.key :> Evaluate(s.value, envs, env_)) @@ @]
    /\ UNCHANGED <<open, pools, graph, defaults, parse>>

ParsePool(s) ==
    /\ s.kind = "pool" /\ Read(s)
    /\ IF s.name \in pools \/ s.depth < 0 THEN Fail
       ELSE pools' = pools \cup {s.name} /\ UNCHANGED <<envs, open, graph, defaults, parse>>

\* The checks leave empty bindings behind for what they ask of.
ParseRule(s) ==
    LET asked == [k \in {"rspfile", "rspfile_content", "command"} |-> <<>>]
        bindings == s.bindings @@ asked
    IN  /\ s.kind = "rule" /\ Read(s)
        /\ IF \/ s.name \in DOMAIN envs[env_].rules
              \/ ~(DOMAIN s.bindings \subseteq Reserved)
              \/ bindings["command"] = <<>>
              \/ (bindings["rspfile"] = <<>>) # (bindings["rspfile_content"] = <<>>)
           THEN Fail
           ELSE /\ envs' = [envs EXCEPT ![env_].rules = (s.name :> bindings) @@ @]
                /\ UNCHANGED <<open, pools, graph, defaults, parse>>

\* State::AddDefault, for a target that was mentioned before.
ParseDefault(s) ==
    /\ s.kind = "default" /\ Read(s)
    /\ LET path == CanonicalizePath(Evaluate(s.path, envs, env_))
       IN  IF path \notin DOMAIN outs_of THEN Fail
           ELSE defaults' = Append(defaults, path) /\ UNCHANGED <<envs, open, pools, graph, parse>>

\* ParseFileInclude: a parser of its own reads the file.
ParseInclude(s) ==
    /\ s.kind = "include" /\ Len(open) < MaxOpen /\ Read(s)
    /\ open' = Append(open, env_)
    /\ UNCHANGED <<envs, pools, graph, defaults, parse>>

\* A mutant: a file that is included gets the scope of the one that includes it.
SubninjaShares(s) ==
    /\ s.kind = "subninja" /\ Len(open) < MaxOpen /\ Read(s)
    /\ open' = Append(open, env_)
    /\ UNCHANGED <<envs, pools, graph, defaults, parse>>

ParseSubninja(s) ==
    /\ s.kind = "subninja" /\ Len(open) < MaxOpen /\ Read(s)
    /\ envs' = Append(envs, [parent |-> env_, bindings |-> <<>>, rules |-> <<>>])
    /\ open' = Append(open, Len(envs) + 1)
    /\ UNCHANGED <<pools, graph, defaults, parse>>

EndOfFile ==
    /\ parse = "reading" /\ Len(text) >= Len(Preamble)
    /\ open' = Front(open) /\ text' = Append(text, End)
    /\ parse' = IF Len(open) = 1 THEN "read" ELSE parse
    /\ UNCHANGED <<dupes, envs, pools, graph, defaults>>

\* The lexer finds none of these.
SyntaxError ==
    /\ parse = "reading" /\ Fail
    /\ UNCHANGED <<dupes, text>>

-----------------------------------------------------------------------------
(***************************************************************************)
(* ParseEdge.                                                              *)
(***************************************************************************)
\* State::AddOut for each output: one that another edge makes is left out, and taken
\* off implicit_outs if it is one of the last ones.
AddOuts(paths, implicit) ==
    FoldLeft(LAMBDA r, i :
        IF paths[i] \in DOMAIN r.in_edge
        THEN [r EXCEPT !.implicit = IF Len(paths) - i + 1 <= @ THEN @ - 1 ELSE @]
        ELSE [r EXCEPT !.in_edge = (paths[i] :> Len(edges) + 1) @@ @,
                       !.outs = Append(@, paths[i])],
        [in_edge |-> in_edge, outs |-> <<>>, implicit |-> implicit],
        [i \in DOMAIN paths |-> i])

\* GetNode: a path that is mentioned is a node from then on.
GetNodes(paths) == outs_of @@ [p \in paths |-> <<>>]

\* State::AddIn: the edge comes to the out-edges, once for each mention.
AddIns(nodes, ins) ==
    [p \in DOMAIN nodes |-> nodes[p] \o [i \in 1 .. Len(SelectSeq(ins, LAMBDA q : q = p)) |-> Len(edges) + 1]]

\* The inputs come last: an edge without outputs is dropped before them.
Connect(outs, ins, validations, made) ==
    IF made.outs = <<>> THEN GetNodes(ToSet(outs))
    ELSE AddIns(GetNodes(ToSet(outs \o ins \o validations)), ins)

\* Edge::maybe_phonycycle_diagnostic; phony_cycle_action_ is to warn.
MaybePhonyCycle(s, made) ==
    s.rule = "phony" /\ Len(made.outs) = 1 /\ made.implicit = 0 /\ s.implicit_ins = <<>>

\* The counts of implicit and order-only inputs are those of the statement, even when
\* the edge's own output is taken out of its inputs.
NewEdge(s, rule, env, made, ins, validations) ==
    [rule |-> rule, env |-> env, outs |-> made.outs, implicit_outs |-> made.implicit,
     ins |-> IF MaybePhonyCycle(s, made) THEN SelectSeq(ins, LAMBDA p : p # made.outs[1]) ELSE ins,
     implicit_deps |-> Len(s.implicit_ins), order_only |-> Len(s.order_only),
     validations |-> validations, dyndep |-> <<>>, at |-> Len(text) + 1]

\* GetBinding of the pool, for an edge that has no inputs and outputs yet.
PoolName(rule, scopes, env) ==
    EdgeLookup([rule |-> rule, env |-> env, outs |-> <<>>, implicit_outs |-> 0, ins |-> <<>>,
                implicit_deps |-> 0, order_only |-> 0], scopes, "pool", {}, FALSE)

\* The dyndep binding is looked up when the edge has all but that; the node's
\* dyndep_pending says no more than that an edge names it.
WithDyndep(edge, scopes) ==
    [edge EXCEPT !.dyndep = CanonicalizePath(EdgeLookup(edge, scopes, "dyndep", {}, FALSE))]

ParseEdge(s) ==
    /\ s.kind = "build" /\ Read(s)
    /\ LET own == [parent |-> env_, rules |-> <<>>,
                   bindings |-> [x \in DOMAIN s.bindings |-> Evaluate(s.bindings[x], envs, env_)]]
           scopes == IF s.bindings = <<>> THEN envs ELSE Append(envs, own)
           env == IF s.bindings = <<>> THEN env_ ELSE Len(envs) + 1
           paths(vs) == [i \in DOMAIN vs |-> CanonicalizePath(Evaluate(vs[i], scopes, env))]
           outs == paths(s.outs \o s.implicit_outs)
           ins == paths(s.ins \o s.implicit_ins \o s.order_only)
           validations == paths(s.validations)
           rules == LookupRule(env_, s.rule)
           made == AddOuts(outs, Len(s.implicit_outs))
           new == {WithDyndep(NewEdge(s, rule, env, made, ins, validations), scopes) :
                     rule \in IF made.outs = <<>> THEN {} ELSE rules}
       IN  IF \/ rules = {}
              \/ \E rule \in rules : PoolName(rule, scopes, env) \notin {<<>>} \cup {<<p>> : p \in pools}
              \/ <<>> \in ToSet(outs)
              \/ dupes = "error" /\ made.outs # outs
              \/ made.outs # <<>> /\ <<>> \in ToSet(ins \o validations)
              \/ \E edge \in new : edge.dyndep \notin {<<>>} \cup ToSet(edge.ins)
           THEN Fail
           ELSE /\ envs' = scopes
                /\ in_edge' = made.in_edge
                /\ outs_of' = Connect(outs, ins, validations, made)
                /\ edges' = edges \o SetToSeq(new)
                /\ UNCHANGED <<open, pools, defaults, parse>>

Parsed == parse # "reading" /\ UNCHANGED vars

Statements == IF Len(text) < Len(Preamble) THEN {Preamble[Len(text) + 1]} ELSE Statement

Next ==
    \/ \E s \in Statements :
          \/ ParseLet(s) \/ ParsePool(s) \/ ParseRule(s) \/ ParseDefault(s)
          \/ ParseInclude(s) \/ ParseSubninja(s) \/ ParseEdge(s)
    \/ EndOfFile \/ SyntaxError \/ Parsed

Spec == Init /\ [][Next]_vars

-----------------------------------------------------------------------------
(***************************************************************************)
(* What the graph is used for.                                             *)
(***************************************************************************)
\* State::RootNodes: outputs that no edge has for an input.
RootNodes == {p \in UNION {ToSet(edges[e].outs) : e \in DOMAIN edges} : outs_of[p] = <<>>}

\* State::DefaultNodes.
DefaultNodes == IF defaults = <<>> THEN RootNodes ELSE ToSet(defaults)

-----------------------------------------------------------------------------
(***************************************************************************)
(* The text, read once more.                                               *)
(***************************************************************************)
\* Scopes are named for the subninja that opens them; 0 is that of the manifest.
Scope(i) ==
    Last(FoldLeft(LAMBDA r, j : CASE text[j].kind = "include"  -> Append(r, Last(r))
                                  [] text[j].kind = "subninja" -> Append(r, j)
                                  [] text[j].kind = "end"      -> Front(r)
                                  [] OTHER -> r, <<0>>, [j \in 1 .. i - 1 |-> j]))

\* What x stands for in a scope after the first n statements.
RECURSIVE Meaning(_, _, _)
Meaning(scope, x, n) ==
    LET lets == {i \in 1 .. n : text[i].kind = "let" /\ text[i].key = x /\ Scope(i) = scope}
        last == CHOOSE i \in lets : \A j \in lets : j <= i
    IN  IF lets # {} THEN Substitute(text[last].value, LAMBDA y : Meaning(scope, y, last - 1))
        ELSE IF scope # 0 THEN Meaning(Scope(scope), x, n)
        ELSE <<>>

\* The bindings of the rule that the statement at i names, seen from a scope.
RECURSIVE RuleOf(_, _)
RuleOf(i, scope) ==
    LET named == {j \in 1 .. i - 1 : text[j].kind = "rule" /\ text[j].name = text[i].rule /\ Scope(j) = scope}
    IN  IF named # {} THEN text[CHOOSE j \in named : TRUE].bindings
        ELSE IF scope # 0 THEN RuleOf(i, Scope(scope))
        ELSE <<>>

\* What a variable of the edge at i stands for when all is read, in the order of the
\* manual: the build block, the rule, the file, the files around it.  It is circular
\* if n variables of the rule, more than there are, lead from one to the next.
RECURSIVE EdgeMeaning(_, _, _)
EdgeMeaning(i, x, n) ==
    LET rule == RuleOf(i, Scope(i))
    IN  IF n = 0 THEN <<Fatal>>
        ELSE IF x \in DOMAIN text[i].bindings
        THEN Substitute(text[i].bindings[x], LAMBDA y : Meaning(Scope(i), y, i - 1))
        ELSE IF x \in DOMAIN rule THEN Substitute(rule[x], LAMBDA y : EdgeMeaning(i, y, n - 1))
        ELSE Meaning(Scope(i), x, Len(text))

Asked == {"command", "pool", "depfile"}

Agrees(e, x) ==
    LET meant == EdgeMeaning(edges[e].at, x, Cardinality(Reserved) + 1)
    IN  IF Dies(meant) THEN Dies(GetBinding(e, x)) ELSE GetBinding(e, x) = meant

\* A variable of the rule that the file binds too.
Shadowed(e) ==
    \E x \in DOMAIN edges[e].rule, j \in DOMAIN text : text[j].kind = "let" /\ text[j].key = x

\* A variable has the value that the manual's lookup order gives it, with the scopes of
\* the text, whatever was read in between, and its expansion ends the program exactly
\* if it is circular (EdgeEnv::LookupVariable, LookupWithFallback, ParseFileInclude);
\* where the file binds a variable of the rule, and the edge binds none, see LookupOrder.
LookupsAreScoped ==
    parse = "read" => \A e \in DOMAIN edges, x \in Asked :
        (text[edges[e].at].bindings = <<>> /\ Shadowed(e)) \/ Agrees(e, x)

\* The manual: the full lookup order is the build block, the rule, the file that the
\* build line was in, the files around it.
LookupOrder == parse = "read" => \A e \in DOMAIN edges, x \in Asked : Agrees(e, x)

Written(i, vs) ==
    LET of(y) == IF y \in DOMAIN text[i].bindings
                 THEN Substitute(text[i].bindings[y], LAMBDA z : Meaning(Scope(i), z, i - 1))
                 ELSE Meaning(Scope(i), y, i - 1)
    IN  [k \in DOMAIN vs |-> CanonicalizePath(Substitute(vs[k], of))]

\* The edges that were written: an output of the graph has the first statement that
\* names it, and it is explicit, which $out shows, exactly if it is named there before
\* the bar, though others were dropped (ParseEdge, AddOut); the inputs keep their
\* kind, and $in shows those before the bar; a node's out-edges are the edges that
\* read it, and not those it validates; and the dyndep file is the one the edge's
\* block names, an input that stays one.  A phony edge is left out whose own target
\* was taken out of its inputs: it stays an out-edge of that target, and an input in
\* front of it may have become order-only.
EdgesAreAsWritten ==
    \A e \in DOMAIN edges :
        LET edge == edges[e]
            s == text[edge.at]
            outs == Written(edge.at, s.outs \o s.implicit_outs)
            explicit == ToSet(Written(edge.at, s.outs))
            own == {p \in DOMAIN in_edge : in_edge[p] = e}
            selfish == s.rule = "phony" /\ ToSet(outs) \cap ToSet(Written(edge.at, s.ins \o s.order_only)) # {}
        IN  /\ ToSet(edge.outs) = own /\ own \subseteq ToSet(outs)
            /\ \A p \in ToSet(outs) \ own : in_edge[p] < e
            /\ ToSet(SubSeq(edge.outs, 1, Len(edge.outs) - edge.implicit_outs)) = own \cap explicit
            /\ edge.validations = Written(edge.at, s.validations)
            /\ "dyndep" \in DOMAIN s.bindings =>
                 edge.dyndep = CanonicalizePath(EdgeMeaning(edge.at, "dyndep", 1))
            /\ edge.dyndep \in {<<>>} \cup ToSet(edge.ins)
            /\ selfish \/ ( /\ GetBinding(e, "in") = FlattenSeq(Written(edge.at, s.ins))
                            /\ edge.ins = Written(edge.at, s.ins \o s.implicit_ins \o s.order_only)
                            /\ edge.ins # <<>> => {p \in DOMAIN outs_of : e \in ToSet(outs_of[p])} = ToSet(edge.ins) )

RECURSIVE BuiltWith(_, _)
BuiltWith(ps, n) ==
    IF n = 0 THEN ps
    ELSE BuiltWith(ps \cup UNION {ToSet(edges[in_edge[p]].ins) \cup ToSet(edges[in_edge[p]].outs) :
                                     p \in ps \cap DOMAIN in_edge}, n - 1)

\* Without default statements a build builds everything: each edge makes a root, or
\* something that leads to one, in a graph without cycles; but a phony target that
\* names itself stays an out-edge of itself, and is no root (RootNodes, and ParseEdge,
\* which connects no input to an edge that it drops).
EverythingIsBuilt ==
    LET needs(e) == {in_edge[p] : p \in ToSet(edges[e].ins) \cap DOMAIN in_edge}
        acyclic == \A es \in SUBSET DOMAIN edges : es # {} => \E e \in es : needs(e) \cap es = {}
        selfish == {e \in DOMAIN edges : \E p \in ToSet(edges[e].outs) : e \in ToSet(outs_of[p])}
    IN  (parse = "read" /\ defaults = <<>> /\ acyclic /\ selfish = {}) =>
            \A e \in DOMAIN edges :
                ToSet(edges[e].outs) \subseteq BuiltWith(DefaultNodes, Len(edges))
===============================================================================
