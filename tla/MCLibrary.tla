----------------------------- MODULE MCLibrary -----------------------------
(***************************************************************************)
(* The library's containers, pointers, values and formats.  They share no   *)
(* state: a behaviour exercises one of them, "part", and leaves the others  *)
(* as they were made.                                                       *)
(***************************************************************************)
EXTENDS BTree, SocketSelector, AutoPtrMapCache, Ownership, Heap,
        Date, Base64, FilePath, NumberLiteral, IniConfig, ProgramOptions, StringMatcher,
        JsonPrinter, SimpleTemplate, PlainRecords

VARIABLE part

-----------------------------------------------------------------------------
(* The selector is given the null socket and one beyond FD_SETSIZE.         *)

MCSockets == -1 .. 4

(* Dates around leap years, centuries and the end of a 400 year cycle.      *)

MCYears == {1, 2, 3, 4, 99, 100, 399, 400, 401}
MCIndexes == {-1, 0, 36523, 36524, 146096, 146097}
MCDayCounts == {-366, -31, -1, 0, 1, 29, 366}
MCMonthCounts == {-25, -12, -1, 0, 1, 11, 12}
MCYearCounts == {-4, -1, 0, 1, 4}

(* Files of up to three lines: headers, pairs, comments, empty lines, and    *)
(* lines with an error at each place the parser can meet one.               *)

IniLines == {<<"[", "a", "]">>, <<"b", "space", "1">>, <<"a", "space", "=", "2">>,
             <<"b", "=", "2", "space", "semicolon", "other">>, <<"semicolon", "[">>, <<"space">>,
             <<"[", "a">>, <<"b">>, <<"a", "=", "1", "other">>}
MCFiles ==
    {<<>>} \cup IniLines
    \cup {p \o <<"newline">> \o q : p, q \in IniLines}
    \cup {p \o <<"return", "newline">> \o q \o <<"newline">> \o r : p, q, r \in IniLines}

(* Options and arguments of every form.                                     *)

MCOption(name, kind, required, password, labels) ==
    [name |-> name, kind |-> kind, required |-> required, password |-> password, labels |-> labels]
MCListOptions == {MCOption("w", "string", TRUE, FALSE, {}),
                  MCOption("x", "number", FALSE, FALSE, {}),
                  MCOption("y", "array", FALSE, TRUE, {})}
MCMapOptions == {MCOption("f", "flag", FALSE, FALSE, {"-f"}),
                 MCOption("s", "number", TRUE, FALSE, {"-s"}),
                 MCOption("p", "string", FALSE, TRUE, {"-s", "--p"}),
                 MCOption("h", "usage", FALSE, FALSE, {"-f"}),
                 MCOption("a", "array", FALSE, FALSE, {"-f"}),
                 MCOption("n", "flag", FALSE, FALSE, {"-f", "n"})}
MCArguments == {"a", "b", "-f", "-s", "--p=a", "--p"}
MCDashes == [a \in MCArguments |-> CASE a \in {"a", "b"} -> 0 [] a \in {"-f", "-s"} -> 1 [] OTHER -> 2]
MCLabels == [a \in MCArguments |-> IF a = "--p=a" THEN "--p" ELSE a]
MCValues == [a \in MCArguments |-> IF a = "--p=a" THEN "a" ELSE "none"]

(* Digits that make indexes with and without a value, and gaps between them. *)

MCDigits == [c \in {"0", "2"} |-> IF c = "0" THEN 0 ELSE 2]
MCValueChars == <<"X", "Y">>

(* Simple fields, CHARS, and structs whose size is no multiple of their       *)
(* alignment.                                                               *)

MCFieldTypes == {[size |-> s, alignment |-> s] : s \in {1, 2, 4, 8}}
                \cup {[size |-> 3, alignment |-> 1], [size |-> 5, alignment |-> 4],
                      [size |-> 16, alignment |-> 4]}

-----------------------------------------------------------------------------
(* One part per behaviour; the parts with several initial states take one    *)
(* of them where they are not exercised.                                    *)

Parts == {"tree", "selector", "cache", "pointers", "owners", "heap", "limited heap", "date",
          "base64", "path", "number", "ini", "options", "matcher", "json", "template",
          "prototype", "records"}

LibraryInit ==
    /\ part \in Parts
    /\ IF part = "cache" THEN TRUE
       ELSE cache = [capacity |-> 1, map |-> [k \in CacheKeys |-> NoEntry], list |-> <<>>]
    /\ IF part = "limited heap" THEN TRUE ELSE limited = [capacity |-> 1, items |-> <<>>]
    /\ IF part = "date" THEN TRUE ELSE date = [year |-> 1, month |-> 1, day |-> 1]
    /\ IF part = "base64" THEN TRUE ELSE message = <<>> /\ text = <<>> /\ base64Pc = "text" /\ codec = "url"
    /\ IF part = "path" THEN TRUE ELSE path = Created([root |-> TRUE, tokens |-> <<>>]) /\ walked = <<>>
    /\ IF part = "number" THEN TRUE ELSE literal = <<0>> /\ parser = "integer"
    /\ IF part = "ini" THEN TRUE ELSE pairs = EmptyPairs
    /\ IF part = "matcher" THEN TRUE ELSE template = <<>>
    /\ IF part = "template" THEN TRUE ELSE pattern = <<>>
    /\ TreeInit /\ SelectorInit /\ CacheInit /\ SharedInit /\ OwningInit /\ HeapInit
    /\ DateInit /\ Base64Init /\ FilePathInit /\ NumberInit /\ IniInit /\ OptionsInit
    /\ MatcherInit /\ JsonInit /\ PatternInit /\ RecordsInit

LibraryNext ==
    /\ UNCHANGED part
    /\ IF part = "tree" THEN TreeNext ELSE UNCHANGED treeVars
    /\ IF part = "selector" THEN SelectorNext ELSE UNCHANGED selector
    /\ IF part = "cache" THEN CacheNext ELSE UNCHANGED cacheVars
    /\ IF part = "pointers" THEN SharedNext ELSE UNCHANGED sharedVars
    /\ IF part = "owners" THEN OwningNext ELSE UNCHANGED ownVars
    /\ IF part = "heap" THEN PlainHeapNext
       ELSE IF part = "limited heap" THEN LimitedHeapNext ELSE UNCHANGED heapVars
    /\ IF part = "date" THEN DateNext ELSE UNCHANGED dateVars
    /\ IF part = "base64" THEN Base64Next ELSE UNCHANGED base64Vars
    /\ IF part = "path" THEN FilePathNext ELSE UNCHANGED filePathVars
    /\ IF part = "number" THEN NumberNext ELSE UNCHANGED numberVars
    /\ IF part = "ini" THEN IniNext ELSE UNCHANGED iniVars
    /\ IF part = "options" THEN OptionsNext ELSE UNCHANGED optVars
    /\ IF part = "matcher" THEN MatcherNext ELSE UNCHANGED matchVars
    /\ IF part = "json" THEN JsonNext ELSE UNCHANGED jsonVars
    /\ IF part = "template" THEN PatternNext ELSE UNCHANGED patternVars
    /\ IF part = "prototype" THEN PrototypeNext
       ELSE IF part = "records" THEN ArrayNext ELSE UNCHANGED <<protoVars, recVars>>

libraryVars == <<part, treeVars, selector, cacheVars, sharedVars, ownVars, heapVars, dateVars,
                 base64Vars, filePathVars, numberVars, iniVars, optVars, matchVars,
                 jsonVars, patternVars, protoVars, recVars>>

LibrarySpec == LibraryInit /\ [][LibraryNext]_libraryVars
=============================================================================
