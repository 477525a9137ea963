SPECIFICATION Spec
CONSTANTS
    IntMax = 127
    LLMax = 32767
    Bases = {3, 4}
    NULL = NULL
    FirstParts = 2
    FirstSize = 2
    FirstGrab = 2
    GrabStep = 3
    GoodSize = 1
    Turns = 12
    Space = " "
    Newline <- MCNewline
    Arg <- MCArg
    Default <- MCDefault
    Closing <- MCClosing
    Quote = "'"
    Dots <- MCDots
    ShowLen = 5
    MinDesc = 4
    MinTotal = 8
    Files <- MCFiles
    Root = "root"
    Dirs = {"root", "a", "b"}
    Target <- MCTarget
    NameOf <- MCNameOf
    Moved = {"b"}
    Links = 10
    Owners = {1, 2}
    Keys <- MCKeys
    Arrays <- MCArrays
    Alignments = {0, 1, 2, 3}
    Texts <- MCTexts
    Numbers <- MCNumbersShown
    Splits <- MCSplits
    Delim = ","
    Regexes <- MCRegexes
    HexTexts <- MCHexTexts
    Bytes <- MCBytes
    Failures <- MCFailures
    Sizes = {0, 1, 2, 3, 5, 9}
    Chunks = {1, 2, 4}
    Streams <- MCStreams
    Descs <- MCDescs
    Names <- MCNames
    Columns = {0, 10, 14}
    Tables <- MCTables
    Folders <- MCFolders
    Joined <- MCJoined
    Pathnames <- MCPathnames
    HomeOf <- MCHome
INVARIANTS HashesAgree ValuesExact StringsExact BuffersHold LeadsToTheSame
