-------------------------------- MODULE Depfile --------------------------------
(***************************************************************************)
(* What a compiler wrote of the headers it read, and the two parsers that  *)
(* read it: DepfileParser, for the inputs that an edge gets from its       *)
(* depfile (ImplicitDepLoader::LoadDepFile, Builder::ExtractDeps), and     *)
(* DepsFromMakeRules, for the headers that go to a remote worker.          *)
(*                                                                         *)
(* Here the characters matter, and a text is a sequence of them: those     *)
(* that mean something to one of the parsers, and "a" and "b" for the      *)
(* others.  Names are not canonicalized.                                   *)
(***************************************************************************)
EXTENDS Integers, Sequences, FiniteSets, SequencesExt

Space == " "
Back == "\\"
Hash == "#"
Colon == ":"
Dollar == "$"
Newline == "newline"
Plain == {"a", "b", Colon}
Missing == <<"missing">>

Backs(n) == [i \in 1 .. n |-> Back]

-----------------------------------------------------------------------------
(***************************************************************************)
(* DepfileParser::Parse.                                                   *)
(***************************************************************************)
\* How many characters of a kind there are from i.
RECURSIVE Run(_, _, _)
Run(text, i, kind) == IF i > Len(text) \/ text[i] \notin kind THEN 0 ELSE 1 + Run(text, i + 1, kind)

Token(out, len, ends, line) == [out |-> out, len |-> len, ends |-> ends, line |-> line]

\* A mutant: backslashes in front of a space are taken for themselves.
SpaceAsIs(k) ==
    IF k % 2 = 1 THEN Token(Append(Backs(k - 1), Space), k + 1, FALSE, FALSE)
    ELSE Token(Backs(k), k + 1, TRUE, FALSE)

\* An odd number of backslashes escapes a space, and stands for half of the others; an
\* even number ends the name.
BeforeSpace(k) ==
    IF k % 2 = 1 THEN Token(Append(Backs((k - 1) \div 2), Space), k + 1, FALSE, FALSE)
    ELSE Token(Backs(k), k + 1, TRUE, FALSE)

\* The longest rule of the lexer at i: what it adds to the name, and whether the name
\* and the line end.
Lex(text, i) ==
    LET at(j) == IF j <= Len(text) THEN text[j] ELSE "nul"
        k     == Run(text, i, {Back})
        c     == at(i + k)
        plain == Run(text, i, Plain)
        white == at(i + k + 1) \in {"nul", Space, Newline}
    IN  CASE k > 0 /\ c = Space             -> BeforeSpace(k)
          [] k > 0 /\ c = Hash              -> Token(Append(Backs(k - 1), Hash), k + 1, FALSE, FALSE)
          [] k > 0 /\ c = Colon /\ white    -> Token(Append(Backs(k), Colon), k + 2, TRUE, at(i + k + 1) = Newline)
          [] k > 0 /\ c = Colon /\ ~white   -> Token(Append(Backs(k - 1), Colon), k + 1, FALSE, FALSE)
          [] k > 0 /\ c \in {"a", "b", Dollar} -> Token(Append(Backs(k), c), k + 1, FALSE, FALSE)
          [] k > 1 /\ c \in {"nul", Newline} -> Token(Backs(k), k, FALSE, FALSE)
          [] k = 1 /\ c = "nul"             -> Token(<<>>, 1, TRUE, FALSE)
          [] k = 1 /\ c = Newline           -> Token(<<>>, 2, TRUE, FALSE)
          [] k = 0 /\ plain > 0             -> Token(SubSeq(text, i, i + plain - 1), plain, FALSE, FALSE)
          [] c = Dollar /\ k = 0 /\ at(i + 1) = Dollar -> Token(<<Dollar>>, 2, FALSE, FALSE)
          [] c = Newline /\ k = 0           -> Token(<<>>, 1, TRUE, TRUE)
          [] OTHER                          -> Token(<<>>, 1, TRUE, FALSE)

\* One name, which a colon at its end makes the last target.
Take(p, name, line) ==
    LET colon == name # <<>> /\ Last(name) = Colon
        piece == IF colon THEN Front(name) ELSE name
        known == Contains(p.ins, piece)
        next  == [p EXCEPT !.targets = line \/ (p.targets /\ ~colon), !.has_target = @ \/ colon,
                           !.empty = @ /\ piece = <<>>, !.poisoned = ~line /\ (@ \/ (known /\ p.targets))]
    IN  CASE piece = <<>>                            -> [next EXCEPT !.poisoned = ~line /\ p.poisoned]
          [] piece # <<>> /\ ~p.targets /\ ~known    -> [next EXCEPT !.ins = Append(@, piece), !.failed = @ \/ p.poisoned]
          [] piece # <<>> /\ p.targets /\ ~known     -> [next EXCEPT !.outs = IF Contains(@, piece) THEN @ ELSE Append(@, piece)]
          [] OTHER                                   -> next

RECURSIVE ParseFrom(_, _, _, _)
ParseFrom(text, i, name, p) ==
    IF i > Len(text) THEN IF name = <<>> THEN p ELSE Take(p, name, FALSE)
    ELSE LET t == Lex(text, i)
         IN  IF t.ends THEN ParseFrom(text, i + t.len, <<>>, Take(p, name \o t.out, t.line))
             ELSE ParseFrom(text, i + t.len, name \o t.out, p)

Parse(text) ==
    LET p == ParseFrom(text, 1, <<>>, [outs |-> <<>>, ins |-> <<>>, targets |-> TRUE, has_target |-> FALSE,
                                       empty |-> TRUE, poisoned |-> FALSE, failed |-> FALSE])
    IN  [outs |-> p.outs, ins |-> p.ins, failed |-> p.failed \/ (~p.has_target /\ ~p.empty)]

-----------------------------------------------------------------------------
(***************************************************************************)
(* The users of DepfileParser.  An edge has outs and ins, of which the     *)
(* last order are order-only.                                              *)
(***************************************************************************)
\* PreallocateSpace, ProcessDepfileDeps.
WithInputs(edge, more) ==
    LET n == Len(edge.ins) - edge.order
    IN  SubSeq(edge.ins, 1, n) \o more \o SubSeq(edge.ins, n + 1, Len(edge.ins))

Loaded(state, ins) == [state |-> state, ins |-> ins]

\* LoadDepFile: an edge without deps is dirty; an error ends the build.
LoadDepFile(edge, text) ==
    LET p == Parse(text)
    IN  CASE text \in {Missing, <<>>}                              -> Loaded("dirty", edge.ins)
          [] text \notin {Missing, <<>>} /\ (p.failed \/ p.outs = <<>>) -> Loaded("error", edge.ins)
          [] text \notin {Missing, <<>>} /\ ~p.failed /\ p.outs # <<>> ->
               IF p.outs[1] # edge.outs[1] THEN Loaded("dirty", edge.ins)
               ELSE IF ~(ToSet(p.outs) \subseteq ToSet(edge.outs)) THEN Loaded("error", edge.ins)
               ELSE Loaded("known", WithInputs(edge, p.ins))

\* ExtractDeps for deps = gcc: what is recorded in the deps log.
ExtractDeps(text) ==
    IF text \in {Missing, <<>>} THEN Loaded("known", <<>>)
    ELSE Loaded(IF Parse(text).failed THEN "error" ELSE "known", Parse(text).ins)

-----------------------------------------------------------------------------
\* DepsFromMakeRules, character by character: names are what comes behind the first
\* colon of a line.
MakeRules(text, sun) ==
    FoldLeft(LAMBDA r, c :
        CASE r.back -> [r EXCEPT !.back = FALSE,
                                 !.name = IF r.colon /\ c # Newline THEN Append(@, c) ELSE @]
          [] ~r.back /\ c = Back -> [r EXCEPT !.back = TRUE]
          [] ~r.back /\ c = Colon /\ ~r.colon -> [r EXCEPT !.colon = TRUE]
          [] ~r.back /\ c = Space /\ sun ->
               [r EXCEPT !.name = IF r.name # <<>> /\ r.colon THEN Append(@, c) ELSE @]
          [] ~r.back /\ (c = Newline \/ (c = Space /\ ~sun)) ->
               [r EXCEPT !.colon = @ /\ c = Space, !.name = <<>>,
                         !.names = IF r.name = <<>> THEN @ ELSE @ \cup {r.name}]
          [] OTHER -> [r EXCEPT !.name = IF r.colon THEN Append(@, c) ELSE @],
        [colon |-> FALSE, back |-> FALSE, name |-> <<>>, names |-> {}], text)

DepsFromMakeRules(text, sun) ==
    LET r == MakeRules(text, sun) IN IF r.name = <<>> THEN r.names ELSE r.names \cup {r.name}

-----------------------------------------------------------------------------
(***************************************************************************)
(* The compiler (external).  It puts a backslash in front of a hash sign,  *)
(* and of a space and each backslash before that, and doubles a dollar.    *)
(***************************************************************************)
Written(name) ==
    FlattenSeq([i \in DOMAIN name |->
        LET backs == Cardinality({j \in 1 .. i - 1 : \A l \in j .. i - 1 : name[l] = Back}) IN
        CASE name[i] = Space  -> Backs(backs + 1) \o <<Space>>
          [] name[i] = Hash   -> <<Back, Hash>>
          [] name[i] = Dollar -> <<Dollar, Dollar>>
          [] OTHER            -> <<name[i]>>])

\* One rule, with or without line breaks, and for each input a rule without inputs
\* (-MP), if so asked.
TextOf(out, ins, breaks, phony) ==
    LET gap == IF breaks THEN <<Space, Back, Newline, Space>> ELSE <<Space>>
    IN  Written(out) \o <<Colon>> \o FlattenSeq([i \in DOMAIN ins |-> gap \o Written(ins[i])]) \o <<Newline>>
        \o IF phony THEN FlattenSeq([i \in DOMAIN ins |-> Written(ins[i]) \o <<Colon, Newline>>]) ELSE <<>>

\* A name that no compiler can write down so that it is read again: a backslash in
\* front of a dollar or a colon, or at the end; and a colon there.
Readable(name) ==
    /\ name # <<>> /\ Last(name) \notin {Back, Colon}
    /\ \A i \in 1 .. Len(name) - 1 : name[i] = Back => name[i + 1] \notin {Dollar, Colon}

\* What a compiler wrote is what an edge gets: the very names, once each and in order,
\* in front of the order-only inputs, whatever is escaped in them, wherever the lines
\* are broken, and though every header is a target too (Lex, Take, LoadDepFile); and
\* the deps log would get the same.
DepfileIsRead(edge, out, ins, breaks, phony) ==
    LET text == TextOf(out, ins, breaks, phony)
        once == FoldLeft(LAMBDA r, n : IF Contains(r, n) THEN r ELSE Append(r, n), <<>>, ins)
    IN  (\A i \in DOMAIN ins : Readable(ins[i])) =>
            /\ LoadDepFile(edge, text) = IF out = edge.outs[1] THEN Loaded("known", WithInputs(edge, once))
                                        ELSE Loaded("dirty", edge.ins)
            /\ ExtractDeps(text) = Loaded("known", once)

\* The headers that go to a remote worker are those that the local build would have
\* known of: the two parsers agree on what a compiler wrote, unless a name has a dollar
\* or a backslash, which DepsFromMakeRules does not undo.
ParsersAgree(out, ins, breaks) ==
    LET text == TextOf(out, ins, breaks, FALSE)
    IN  (\A i \in DOMAIN ins : Readable(ins[i]) /\ ToSet(ins[i]) \cap {Dollar, Back} = {}) =>
            DepsFromMakeRules(text, FALSE) = ToSet(Parse(text).ins)
===============================================================================
