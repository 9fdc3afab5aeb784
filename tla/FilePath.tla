------------------------------ MODULE FilePath ------------------------------
(***************************************************************************)
(* XTL::FilePath (linux/fs/FilePath.cpp and FilePathTokenizer.cpp): paths   *)
(* as lists of parts, without looking at the file system.  The text of a    *)
(* path is what the tokenizer makes of it: whether it starts with a         *)
(* delimiter, and its components (repeated delimiters make no component).   *)
(***************************************************************************)
EXTENDS Integers, Sequences, SequencesExt

CONSTANTS
    Names,          \* names of files and directories
    MaxTokens,      \* bound: components of a text
    MaxWalked       \* bound: components given to one path in all

ASSUME FilePathAssumption ==
    /\ "." \notin Names /\ ".." \notin Names
    /\ MaxTokens \in Nat /\ MaxWalked \in Nat

Components == Names \cup {".", ".."}
Texts == [root : BOOLEAN, tokens : SeqOf(Components, MaxTokens)]

VARIABLES
    path,       \* parts_ and absolute_
    walked      \* history: every component given to the path, as it was given

filePathVars == <<path, walked>>

-----------------------------------------------------------------------------
(* Building a path from tokens.                                             *)

\* Mutant: a part ".." is taken off like a directory.
GoesUpAlways(p) == p.parts # <<>>

\* AppendParentDir takes the last part off unless it is ".." itself.
GoesUp(p) == p.parts # <<>> /\ Last(p.parts) # ".."

\* AppendParentDir adds a part "..": there is nothing to take off, and the path
\* does not start at the root.
KeepsParent(p) == p.parts # <<>> \/ ~p.absolute

AppendParentDir(p) ==
    IF GoesUp(p) THEN [p EXCEPT !.parts = Front(@)]
    ELSE IF KeepsParent(p) THEN [p EXCEPT !.parts = Append(@, "..")]
    ELSE p

\* ProcessToken: OnCurrentDir, OnParentDir or OnPathPart of the listener.
ProcessToken(p, token) ==
    CASE token = "." -> p
      [] token = ".." -> AppendParentDir(p)
      [] OTHER -> [p EXCEPT !.parts = Append(@, token)]

\* The listener FilePathAppender ignores the root of what is appended.
Appended(p, tokens) ==
    LET at[k \in 0 .. Len(tokens)] == IF k = 0 THEN p ELSE ProcessToken(at[k - 1], tokens[k])
    IN  at[Len(tokens)]

\* The constructor, with the listener FilePathCreator.
Created(t) == Appended([parts |-> <<>>, absolute |-> t.root], t.tokens)

\* ToString.
ToText(p) ==
    [root |-> p.absolute,
     tokens |-> IF p.parts = <<>> /\ ~p.absolute THEN <<".">> ELSE p.parts]

-----------------------------------------------------------------------------

FilePathInit ==
    \E t \in Texts : path = Created(t) /\ walked = t.tokens

\* Append of a text.
AppendText(t) ==
    /\ Len(walked) + Len(t.tokens) <= MaxWalked
    /\ path' = Appended(path, t.tokens)
    /\ walked' = walked \o t.tokens

\* Append of another FilePath, which is tokenized from its parts.
AppendPath(t) ==
    LET other == Created(t)
    IN  /\ Len(walked) + Len(other.parts) <= MaxWalked
        /\ path' = Appended(path, other.parts)
        /\ walked' = walked \o other.parts

\* Remove takes the last part off, whatever it is.
RemovePart ==
    /\ path.parts # <<>>
    /\ path' = [path EXCEPT !.parts = Front(@)]
    /\ walked' = Front(path.parts)

\* tempFilePath in ConvertToAbsolute.
Joined(base, p) == Appended(base, p.parts)

\* ConvertToAbsolute; a base that is not absolute throws.
ConvertToAbsolute(t) ==
    /\ ~path.absolute
    /\ t.root
    /\ Len(walked) + Len(t.tokens) <= MaxWalked
    /\ path' = [parts |-> Joined(Created(t), path).parts, absolute |-> TRUE]
    /\ walked' = t.tokens \o walked

FilePathNext ==
    \/ \E t \in Texts : AppendText(t) \/ AppendPath(t) \/ ConvertToAbsolute(t)
    \/ RemovePart

FilePathSpec == FilePathInit /\ [][FilePathNext]_filePathVars

-----------------------------------------------------------------------------
(* Properties.                                                              *)

\* Where a walk along the components ends, from a directory given by its parts:
\* the parent of the root directory is the root directory.
WalkStep(dir, token) ==
    CASE token = "." -> dir
      [] token = ".." -> IF dir = <<>> THEN dir ELSE Front(dir)
      [] OTHER -> Append(dir, token)
WalkFrom(from, tokens) ==
    LET at[k \in 0 .. Len(tokens)] == IF k = 0 THEN from ELSE WalkStep(at[k - 1], tokens[k])
    IN  at[Len(tokens)]

\* A path keeps ".." at its beginning only, and not at all if it is absolute,
\* after any sequence of Append, Remove and ConvertToAbsolute.
PathIsNormal ==
    \A i \in 1 .. Len(path.parts) :
        /\ path.parts[i] # "."
        /\ path.parts[i] = ".." =>
               ~path.absolute /\ \A j \in 1 .. i : path.parts[j] = ".."

\* Simplifying never changes where a path leads: from every directory it ends
\* where the components lead that the path was given, one after the other.
PathLeadsToTheSame ==
    \A from \in {<<>>} \cup (IF path.absolute THEN {} ELSE SeqOf({"dir"}, 3)) :
        WalkFrom(from, path.parts) = WalkFrom(from, walked)

\* The text of a path makes the same path again.
TextMakesThePath == Created(ToText(path)) = path

\* A path is in its normal form, leads where its components lead, and its text
\* makes the same path again.
PathIsFaithful == PathIsNormal /\ PathLeadsToTheSame /\ TextMakesThePath
=============================================================================
