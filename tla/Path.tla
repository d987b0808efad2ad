-------------------------------- MODULE Path --------------------------------
(***************************************************************************)
(* Paths and their texts (file.cpp:25-256): a path is the sequence of its  *)
(* components, a text a sequence of characters.  A first component without *)
(* characters is the root.                                                 *)
(***************************************************************************)
EXTENDS Integers, Sequences, SequencesExt, FiniteSetsExt

CONSTANTS TextLen,  \* bound: the length of the texts that are looked at
          ExtLen    \* bound: the length of what is joined or set as extension

ASSUME PathAssumption == TextLen \in Nat /\ ExtLen \in Nat

Back == "\\"
Chars == {"/", Back, ".", "a"}
TextsUpTo(n) == UNION {[1 .. k -> Chars] : k \in 0 .. n}

Has(text, c) == \E i \in DOMAIN text : text[i] = c

\* A backslash separates where no slash does.
Separators(text) ==
    {i \in DOMAIN text : text[i] = "/" \/ (text[i] = Back /\ ~Has(text, "/"))}

\* What stands between the separators, the ends included.
Segments(text) ==
    LET at == <<0>> \o SetToSortSeq(Separators(text), <) \o <<Len(text) + 1>>
    IN  [k \in 1 .. Len(at) - 1 |-> SubSeq(text, at[k] + 1, at[k + 1] - 1)]

NotEmpty(segment) == segment # <<>>

\* Empty segments are dropped, but for one that a separator ends at the front.
CreatePath(text) ==
    LET segs == Segments(text)
    IN  (IF Len(segs) > 1 /\ segs[1] = <<>> THEN << <<>> >> ELSE <<>>)
        \o SelectSeq(segs, NotEmpty)

AsText(path, delim) ==
    IF path = << <<>> >> THEN <<delim>>
    ELSE LET text == FlattenSeq([k \in DOMAIN path |-> <<delim>> \o path[k]])
         IN  SubSeq(text, 2, Len(text))

\* path + right.
Join(path, right) == IF right = <<>> THEN path ELSE Append(path, right)

GetDir(path) == IF Len(path) <= 1 THEN <<>> ELSE Front(path)

\* The place of the last dot of a name, or 0.
Dot(leaf) == Max({0} \union {i \in DOMAIN leaf : leaf[i] = "."})

GetExt(path) ==
    IF path = <<>> \/ Dot(Last(path)) = 0 THEN <<>>
    ELSE SubSeq(Last(path), Dot(Last(path)) + 1, Len(Last(path)))

\* Mutant: a name that is only an extension becomes an empty one.
SetExtEmpty(path, ext) ==
    LET leaf == Last(path)
        Named(name) == Append(Front(path), name)
    IN  IF path = <<>> \/ (Dot(leaf) = 0 /\ ext = <<>>) THEN path
        ELSE IF Dot(leaf) = 0 THEN Named(leaf \o <<".">> \o ext)
        ELSE IF ext # <<>> THEN Named(SubSeq(leaf, 1, Dot(leaf)) \o ext)
        ELSE Named(SubSeq(leaf, 1, Dot(leaf) - 1))

\* A name that is nothing but the extension to be removed goes with it.
SetExt(path, ext) ==
    LET leaf == Last(path)
        Named(name) == Append(Front(path), name)
    IN  IF path = <<>> \/ (Dot(leaf) = 0 /\ ext = <<>>) THEN path
        ELSE IF Dot(leaf) = 0 THEN Named(leaf \o <<".">> \o ext)
        ELSE IF ext # <<>> THEN Named(SubSeq(leaf, 1, Dot(leaf)) \o ext)
        ELSE IF Dot(leaf) > 1 THEN Named(SubSeq(leaf, 1, Dot(leaf) - 1))
        ELSE GetDir(path)

-----------------------------------------------------------------------------
\* The text stands for the path.
Faithful(path, delim) == CreatePath(AsText(path, delim)) = path

\* A path is its text read back, unless a backslash in a name has become a
\* separator: with slashes, if there is no other name and no root.  The same
\* holds of what join, get_dir and set_ext make of it, so that no path stands
\* for no file (file.cpp:30-130).
\* Joining and taking the directory undo each other.  The extension after
\* set_ext is what stands behind the last dot of the new one, which is all of it
\* if it has none; such a one takes the place of the one before, so that removing
\* it leaves what removing that one would have left.  Removing takes the last
\* extension and its dot off the name and nothing else; a name without a dot
\* stays; one that was only an extension disappears, so that the path is its
\* directory.  Else the directory is the same, and the root becomes a file of the
\* working directory (file.cpp:84-92, 207-256, 515-517).
PathRoundTrips ==
    \A text \in TextsUpTo(TextLen) : \A right \in TextsUpTo(ExtLen) :
       LET path == CreatePath(text)
           leaf == Last(path)
           new == SetExt(path, right)
       IN  /\ \A delim \in {"/", Back} :
                 Faithful(path, delim) <=>
                    ~\E k \in DOMAIN path : Has(path[k], Back) /\ (delim = "/" => Len(path) = 1)
           /\ ~Has(text \o right, Back) /\ ~Has(right, "/") =>
                 \A made \in {GetDir(path), Join(path, right), new} : Faithful(made, "/")
           /\ path # <<>> /\ right # <<>> =>
                 /\ GetDir(Join(path, right)) = path
                 /\ GetExt(new) = IF Has(right, ".") THEN GetExt(<<right>>) ELSE right
                 /\ ~Has(right, ".") /\ leaf # <<>> => SetExt(new, <<>>) = SetExt(path, <<>>)
                 /\ GetDir(new) = GetDir(path)
                 /\ path = << <<>> >> => new = << <<".">> \o right >>
           /\ path # <<>> /\ right = <<>> =>
                 /\ ~Has(leaf, ".") => new = path
                 /\ Has(leaf, ".") =>
                       LET last == <<".">> \o GetExt(path)
                       IN  IF leaf = last THEN new = GetDir(path)
                           ELSE GetDir(new) = GetDir(path) /\ Last(new) \o last = leaf
=============================================================================
