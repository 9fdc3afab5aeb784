--------------------------- MODULE ProgramOptions ---------------------------
(***************************************************************************)
(* ProgramOptionsPool: registering options in the list (arguments without a *)
(* label) and in the map (arguments with one), and parsing the command      *)
(* line.  An argument is a text with a number of leading dashes, a label    *)
(* and, for --label=value, a value.                                         *)
(***************************************************************************)
EXTENDS Integers, Sequences, FiniteSets, SequencesExt

CONSTANTS
    ListOptions,    \* options that may be registered in the list: records
    MapOptions,     \* options that may be registered in the map, with labels
    Arguments,      \* texts on the command line
    DashesOf,       \* [Arguments -> 0 .. 2], leading dashes
    LabelOf,        \* each argument without "=value", its dashes included
    ValueOfArgument,\* what follows "=" in an argument with two dashes, or NoValue
    NoValue,
    BadValues,      \* texts that an integer or a choice option refuses
    BadLabels,      \* labels of options that do not begin with a dash
    MaxList,        \* bound: options registered in the list
    MaxMap,         \* bound: options registered in the map
    MaxArguments    \* bound: arguments on the command line

\* "flag" (or a function that returns), "usage" (the function that prints the
\* usage and ends the program), "string", "number" (an integer or a choice), "array"
OptionKinds == {"flag", "usage", "string", "number", "array"}

\* An option is owned by the list or by the map, never by both.
ASSUME OptionsAssumption ==
    /\ ListOptions \cap MapOptions = {}
    /\ \A o \in ListOptions \cup MapOptions :
           /\ o.kind \in OptionKinds
           /\ {o.required, o.password} \subseteq BOOLEAN
    /\ DashesOf \in [Arguments -> 0 .. 2]
    /\ NoValue \notin Arguments
    /\ \A a \in Arguments : ValueOfArgument[a] # NoValue => DashesOf[a] = 2

VARIABLES
    list,           \* ProgramOptionsList::optionsList_
    map,            \* ProgramOptionsMap::optionsMap_: from labels to options
    optPc,          \* "setup", "parse", "returned", "usage", "terminated"
    argv,           \* the arguments
    argAt,          \* i of Parse
    currentIndex,   \* currentIndex_, counted from 1
    values,         \* the values of the options that exist, the last one last
    stars           \* arguments whose value was overwritten with asterisks

optVars == <<list, map, optPc, argv, argAt, currentIndex, values, stars>>

EmptyMap == [l \in {} |-> {}]
ValuesOf(o) == IF o \in DOMAIN values THEN values[o] ELSE <<>>

OptionsInit ==
    /\ list = <<>> /\ map = EmptyMap
    /\ optPc = "setup"
    /\ argv = <<>> /\ argAt = 1 /\ currentIndex = 1
    /\ values = EmptyMap /\ stars = {}

-----------------------------------------------------------------------------
(* Registering.                                                             *)

IsArray(o) == o.kind = "array"
NeedValue(o) == o.kind \in {"string", "number", "array"}

\* Nothing after an array, nothing required after something optional.
FitsList(o) ==
    list # <<>> => ~IsArray(Last(list)) /\ (o.required => Last(list).required)

ListAppend(o) ==
    /\ optPc = "setup" /\ Len(list) < MaxList
    /\ \A i \in 1 .. Len(list) : list[i] # o
    /\ IF FitsList(o) THEN list' = Append(list, o) /\ UNCHANGED optPc
                      ELSE optPc' = "terminated" /\ UNCHANGED list
    /\ UNCHANGED <<map, argv, argAt, currentIndex, values, stars>>

MapWith(labels, o) == [l \in DOMAIN map \cup labels |-> IF l \in labels THEN o ELSE map[l]]
Refused(o) == o.labels \cap (BadLabels \cup DOMAIN map)

\* The labels are entered one after the other.  The program ends at one that has
\* no dash or is known already; those before it are entered by then.
MapInsert(o) ==
    /\ optPc = "setup" /\ Cardinality({map[l] : l \in DOMAIN map}) < MaxMap
    /\ \/ IsArray(o) /\ optPc' = "terminated" /\ UNCHANGED map
       \/ /\ ~IsArray(o) /\ Refused(o) # {}
          /\ optPc' = "terminated"
          /\ \E entered \in SUBSET (o.labels \ Refused(o)) : map' = MapWith(entered, o)
       \/ /\ ~IsArray(o) /\ Refused(o) = {}
          /\ map' = MapWith(o.labels, o)
          /\ UNCHANGED optPc
    /\ UNCHANGED <<list, argv, argAt, currentIndex, values, stars>>

StartParse(args) ==
    /\ optPc = "setup"
    /\ argv' = args
    /\ optPc' = "parse"
    /\ UNCHANGED <<list, map, argAt, currentIndex, values, stars>>

-----------------------------------------------------------------------------
(* Parsing.                                                                 *)

\* The value of a password is overwritten once it was copied.
StarsAfterSet(o, i) == IF o.password THEN stars \cup {i} ELSE stars

\* ProgramOption::Set for a value taken from argument i: a value that SetValue
\* refuses, or the handler of the usage option, ends the program, and a refused
\* password stays readable.
Set(o, value, i, next) ==
    /\ IF o.kind = "number" /\ value \in BadValues
       THEN optPc' = "terminated" /\ UNCHANGED <<values, stars>>
       ELSE IF o.kind = "usage"
       THEN optPc' = "usage" /\ UNCHANGED <<values, stars>>
       ELSE /\ values' = [p \in DOMAIN values \cup {o} |->
                             IF p = o THEN Append(ValuesOf(o), value) ELSE values[p]]
            /\ stars' = IF value = NoValue THEN stars ELSE StarsAfterSet(o, i)
            /\ UNCHANGED optPc
    /\ argAt' = next

Terminate == optPc' = "terminated" /\ UNCHANGED <<argAt, currentIndex, values, stars>>

\* ProgramOptionsList::SetOptionValue: what the list has no place for is dropped.
SetInList(i) ==
    IF currentIndex > Len(list)
    THEN argAt' = i + 1 /\ UNCHANGED <<optPc, currentIndex, values, stars>>
    ELSE LET o == list[currentIndex]
         IN  /\ Set(o, argv[i], i, i + 1)
             /\ currentIndex' = IF IsArray(o) THEN currentIndex ELSE currentIndex + 1

\* --label or --label=value.
ParseLong(i) ==
    LET label == LabelOf[argv[i]]
        value == ValueOfArgument[argv[i]]
    IN  IF label \in DOMAIN map /\ (NeedValue(map[label]) <=> value # NoValue)
        THEN Set(map[label], value, i, i + 1) /\ UNCHANGED currentIndex
        ELSE Terminate

\* Mutant: the value of a short option is looked at again as an argument.
AfterShortValueStays(i) == i + 1

AfterShortValue(i) == i + 2

\* -label, followed by its value; an unknown one is an argument for the list.
ParseShort(i) ==
    LET label == LabelOf[argv[i]]
    IN  CASE label \notin DOMAIN map /\ list = <<>> -> Terminate
          [] label \notin DOMAIN map /\ list # <<>> -> SetInList(i)
          [] label \in DOMAIN map /\ ~NeedValue(map[label]) ->
                 Set(map[label], NoValue, i, i + 1) /\ UNCHANGED currentIndex
          [] label \in DOMAIN map /\ NeedValue(map[label]) ->
                 IF i = Len(argv) THEN Terminate
                 ELSE /\ Set(map[label], argv[i + 1], i + 1, AfterShortValue(i))
                      /\ UNCHANGED currentIndex

ParseArgument ==
    /\ optPc = "parse" /\ argAt <= Len(argv)
    /\ CASE DashesOf[argv[argAt]] = 2 -> ParseLong(argAt)
         [] DashesOf[argv[argAt]] = 1 -> ParseShort(argAt)
         [] DashesOf[argv[argAt]] = 0 -> SetInList(argAt)
    /\ UNCHANGED <<list, map, argv>>

Registered == ToSet(list) \cup {map[l] : l \in DOMAIN map}

\* CheckRequired of the list and of the map.
MissingRequired == {o \in Registered : o.required /\ o \notin DOMAIN values}

CheckRequired ==
    /\ optPc = "parse" /\ argAt > Len(argv)
    /\ optPc' = IF MissingRequired = {} THEN "returned" ELSE "terminated"
    /\ UNCHANGED <<list, map, argv, argAt, currentIndex, values, stars>>

OptionsNext ==
    \/ \E o \in ListOptions : ListAppend(o)
    \/ \E o \in MapOptions : MapInsert(o)
    \/ \E args \in BoundedSeq(Arguments, MaxArguments) : StartParse(args)
    \/ ParseArgument \/ CheckRequired

OptionsSpec == OptionsInit /\ [][OptionsNext]_optVars

-----------------------------------------------------------------------------
(* Properties.                                                              *)

\* What each argument is, told from the argument before it: the value of a
\* short option, an option, or a word for the list.
RoleOf ==
    LET role[i \in 1 .. Len(argv)] ==
            LET takesNext == i > 1 /\ role[i - 1] = "option" /\ DashesOf[argv[i - 1]] = 1
                             /\ NeedValue(map[LabelOf[argv[i - 1]]])
            IN  IF takesNext THEN "value"
                ELSE IF DashesOf[argv[i]] = 2
                        \/ (DashesOf[argv[i]] = 1 /\ LabelOf[argv[i]] \in DOMAIN map)
                THEN "option" ELSE "word"
    IN  role

\* The place of a word in the list, 0 if it is dropped.
PlaceOf(i) ==
    LET before == Cardinality({j \in 1 .. i - 1 : RoleOf[j] = "word"})
    IN  IF before < Len(list) THEN before + 1
        ELSE IF list # <<>> /\ IsArray(Last(list)) THEN Len(list) ELSE 0

\* The value of a password comes from one of these arguments.
CarriesPassword(i) ==
    \/ RoleOf[i] = "word" /\ PlaceOf(i) # 0 /\ list[PlaceOf(i)].password
    \/ RoleOf[i] = "value" /\ map[LabelOf[argv[i - 1]]].password
    \/ RoleOf[i] = "option" /\ ValueOfArgument[argv[i]] # NoValue /\ map[LabelOf[argv[i]]].password

\* The n-th word on the command line is the value of the n-th option of the list
\* (the last, if an array, takes the rest), wherever options and their values
\* stand between the words.
WordsFillTheList ==
    optPc \in {"parse", "returned"} =>
        \A p \in 1 .. Len(list) :
            LET mine == {i \in 1 .. argAt - 1 : RoleOf[i] = "word" /\ PlaceOf(i) = p}
                given == ValuesOf(list[p])
            IN  /\ Len(given) = Cardinality(mine)
                /\ \A i \in mine : given[Cardinality({j \in mine : j <= i})] = argv[i]

\* While Parse runs and when it returns, every password read so far is
\* overwritten in argv, and nothing else is.
PasswordsAreHidden ==
    optPc \in {"parse", "returned"} => stars = {i \in 1 .. argAt - 1 : CarriesPassword(i)}

\* When Parse returns, every required option was given, and an option of the
\* list that was not given is not followed by one that was.
RequiredAreGiven ==
    optPc = "returned" =>
        /\ \A o \in Registered : o.required => ValuesOf(o) # <<>>
        /\ \A p, q \in 1 .. Len(list) :
               p < q /\ list[p] \notin DOMAIN values => list[q] \notin DOMAIN values

\* Every value on the command line goes to the option it was meant for, every
\* required option is there when Parse returns, and passwords are gone from argv.
OptionsAreAsGiven == WordsFillTheList /\ PasswordsAreHidden /\ RequiredAreGiven
=============================================================================
