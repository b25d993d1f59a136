SPECIFICATION Spec
CONSTANTS
    Frames = {0, 2}
    MaxPainters = 3
    Tweets = {"long", "tiny"}
    Short = {"tiny"}
    MaxSearches = 1
    MaxPictures = 1
    Kinds = {"text", "delete"}
    MaxSent = 2
    MaxCalls = 2
    MaxXAuth = 1
    Domains = {"", "x"}
    Addresses = {"p", "q"}
    MaxLookups = 3
    MaxThreads = 1
INVARIANTS DisplaysHold NothingStale AnswersRead
PROPERTIES NobodyHangs
CHECK_DEADLOCK FALSE
