--------------------------------- MODULE Paths ---------------------------------
(***************************************************************************)
(* Paths as text: CanonicalizePath (util.cc), which makes one node of the  *)
(* spellings of a file, and the functions of StaticFileUtils with which a  *)
(* command is moved to a remote worker.                                    *)
(*                                                                         *)
(* A path is the sequence of what is between its slashes: "/a//b" is       *)
(* <<"", "a", "", "b">>, "a/" is <<"a", "">>, and the empty one <<"">>.    *)
(***************************************************************************)
EXTENDS Integers, Sequences, SequencesExt

Absolute(p) == Len(p) > 1 /\ p[1] = ""
Proper(p)   == SelectSeq(p, LAMBDA s : s \notin {"", "."})

\* A mutant: a ".." takes away whatever is before it.
BackUpAlways(path, out) == out # <<>>

\* Whether a ".." takes away a component; one that was kept as ".." does not count.
BackUp(path, out) == out # <<>> /\ Last(out) # ".."

\* CanonicalizePath: at the root of an absolute path ".." is kept too.
CanonicalizePath(path) ==
    LET out == FoldLeft(LAMBDA r, s : IF s = ".." /\ BackUp(path, r) THEN Front(r) ELSE Append(r, s),
                        <<>>, Proper(path))
    IN  CASE path = <<"">>                       -> path
          [] Absolute(path) /\ out = <<>>        -> <<"", "">>
          [] Absolute(path) /\ out # <<>>        -> <<"">> \o out
          [] ~Absolute(path) /\ path # <<"">>    -> IF out = <<>> THEN <<".">> ELSE out

\* StaticFileUtils::NormalizePath: the root has no "..", and the empty path is ".".
NormalizePath(path) ==
    LET out == FoldLeft(LAMBDA r, s : CASE s = ".." /\ BackUp(path, r)             -> Front(r)
                                        [] s = ".." /\ r = <<>> /\ Absolute(path)  -> r
                                        [] OTHER                                   -> Append(r, s),
                        <<>>, Proper(path))
    IN  CASE Absolute(path)                -> <<"">> \o (IF out = <<>> THEN <<"">> ELSE out)
          [] ~Absolute(path) /\ out = <<>> -> <<".">>
          [] OTHER                         -> out

\* How many directories above its own a path leads; its last part is none of them,
\* unless it is "..".
ParentDirectoryLevel(path) ==
    LET walk == Proper(IF Last(path) = ".." THEN path ELSE Front(path))
    IN  -FoldLeft(LAMBDA r, s : LET now == IF s = ".." THEN r.now - 1 ELSE r.now + 1
                                IN  [now |-> now, lowest |-> IF now < r.lowest THEN now ELSE r.lowest],
                  [now |-> 0, lowest |-> 0], walk).lowest

\* The end of a path with n segments, if it has a slash before them.
LastNSegments(path, n) ==
    LET trimmed == IF Last(path) = "" THEN Front(path) ELSE path
    IN  IF n = 0 THEN <<"">> ELSE SubSeq(trimmed, Len(trimmed) - n + 1, Len(trimmed))

HasPathPrefix(path, prefix) ==
    LET closed(p) == IF Last(p) = "" THEN Front(p) ELSE p
    IN  prefix # <<"">> /\ IsPrefix(closed(prefix), closed(path))

\* The base is a directory without a slash at its end.  What is left of a path below it
\* is as it is written there: a second slash in between makes it absolute again.
MakePathRelative(path, base) ==
    LET Agree(k) == k <= Len(path) /\ k <= Len(base) /\ SubSeq(path, 1, k) = SubSeq(base, 1, k)
        shared   == CHOOSE k \in DOMAIN base : Agree(k) /\ ~Agree(k + 1)
        rest     == SubSeq(path, shared + 1, Len(path))
    IN  CASE ~Absolute(path) \/ base = <<"">>   -> path
          [] base # <<"">> /\ path = base        -> <<".">>
          [] base # <<"">> /\ path = base \o <<"">> -> <<".", "">>
          [] OTHER -> [i \in 1 .. Len(base) - shared |-> ".."] \o rest

-----------------------------------------------------------------------------
\* The file that a path leads to from a directory, without links.
Locate(dir, path) ==
    FoldLeft(LAMBDA r, s : IF s # ".." THEN Append(r, s) ELSE IF r = <<>> THEN r ELSE Front(r),
             IF Absolute(path) THEN <<>> ELSE dir, Proper(path))

\* From here a path goes up as far as it likes, and meets no name of its own.
Deep == <<"u1", "u2", "u3", "u4", "u5", "u6">>
Where(path) == Locate(Deep, path)

\* The functions of paths change no meaning, from whatever directory it is read: a
\* canonical path leads to the file that the path leads to, and is the one spelling of
\* it, so that a file is one node (CanonicalizePath), except that ".." at the root is
\* kept; NormalizePath agrees, there too; the levels that are counted above are those
\* that are used (ParentDirectoryLevel).
MeansTheSame(p, q) ==
    LET root(r) == Absolute(r) /\ ParentDirectoryLevel(r) > 0
        c == CanonicalizePath(p)
    IN  /\ p # <<"">> => Where(c) = Where(p) /\ CanonicalizePath(c) = c
        /\ (Absolute(p) = Absolute(q) /\ ~root(p) /\ ~root(q) /\ <<"">> \notin {p, q}) =>
              ((c = CanonicalizePath(q)) <=> (Where(p) = Where(q)))
        /\ Where(NormalizePath(p)) = Where(p) /\ NormalizePath(NormalizePath(p)) = NormalizePath(p)
        /\ ~Absolute(p) => \A n \in 0 .. Len(Deep) :
              (n < ParentDirectoryLevel(p)) <=>
                 \E k \in DOMAIN p : ~IsPrefix(SubSeq(Deep, 1, Len(Deep) - n), Where(SubSeq(p, 1, k)))

\* A path that is made relative leads from there to where it led before, though not if
\* it has two slashes behind the directory (MakePathRelative).
RelativeIsSame(p, dir) ==
    (p # <<"">> /\ ~IsPrefix(Append(dir, ""), p)) =>
        Locate(Tail(dir), MakePathRelative(p, dir)) = Locate(Tail(dir), p)
===============================================================================
