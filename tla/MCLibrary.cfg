SPECIFICATION LibrarySpec
CONSTANTS
  UNIQUE_KEYS = FALSE
  LEAF_CAPACITY = 3
  BRANCH_CAPACITY = 3
  Keys = {1, 2, 3}
  MaxItems = 9
  FD_SETSIZE = 4
  Sockets <- MCSockets
  CacheKeys = {k1, k2, k3, k4}
  CacheObjects = {o1, o2, o3}
  CacheCapacities = {0, 1, 3}
  Pointers = {p1, p2}
  SharedObjects = {o1, o2, o3}
  OwnedObjects = {o1, o2, o3}
  OwnedKeys = {k1, k2}
  MaxVectorSize = 3
  HeapValues = {1, 2, 3}
  HeapCapacities = {1, 2}
  MaxHeapSize = 4
  StartYears <- MCYears
  StartIndexes <- MCIndexes
  StartDays = {1, 2, 15, 28, 29, 30, 31}
  DayCounts <- MCDayCounts
  MonthCounts <- MCMonthCounts
  YearCounts <- MCYearCounts
  Bytes = {0, 1, 16, 64, 170, 255}
  TextChars = {61, 65, 66, 81, 119, 47, 95, 200}
  MaxText = 4
  MaxMessage = 4
  Names = {"a", "b"}
  MaxTokens = 2
  MaxWalked = 5
  WIDTH = 4
  MAX_EXPONENT = 5
  MaxLiteral = 4
  LiteralChars = {0, 1, 5, 6, 8, 9, 11, 14, 20, 21, 22}
  Idents = {"a", "b"}
  IniValues = {"1", "2"}
  IniFiles <- MCFiles
  ListOptions <- MCListOptions
  MapOptions <- MCMapOptions
  Arguments <- MCArguments
  DashesOf <- MCDashes
  LabelOf <- MCLabels
  ValueOfArgument <- MCValues
  NoValue = "none"
  BadValues = {"b"}
  BadLabels = {"n"}
  MaxList = 2
  MaxMap = 2
  MaxArguments = 3
  TemplateChars = {"(", ")", "?", "$", "%", "d", "a"}
  SourceChars = {"a", "1", "("}
  DigitChars = {"1"}
  MaxTemplate = 4
  MaxSource = 2
  MaxJsonCalls = 6
  PatternChars = {"$", "_", "0", "2", "a"}
  PatternDigits <- MCDigits
  ValueChars <- MCValueChars
  MaxPattern = 5
  FieldTypes <- MCFieldTypes
  MaxFields = 4
  ChunkCapacity = 2
  RecordKeys = {1, 2, 3}
  MaxRecords = 5
  MaxRecordCalls = 4
INVARIANTS
  TreeIsSound
  SelectOverlooksNone
  CacheIsRecent
  ObjectsAreDeletedOnce
  HeapsAreOrdered
  DatesAreCounted
  CodecsAreInverse
  PathIsFaithful
  NumberIsAsWritten
  ConfigIsWhatWasRead
  OptionsAreAsGiven
  MatcherIsRight
  JsonIsWellFormed
  TemplateIsAsWritten
  RecordsAreRight
PROPERTIES
  ImplementsBag
CHECK_DEADLOCK FALSE
