SPECIFICATION Spec
CONSTANTS
    MaxWire = 2
    Contacts = {"c", "d"}
    Names = {"x", "y"}
    BookmarkSets = {"A", "B"}
    MaxRequests = 3
    Members = {"m", "n"}
    Affiliations = {"owner", "member"}
    MaxRounds = 2
    MaxGiven = 1
    MaxInFlight = 2
INVARIANTS CopiesAgree NothingOutlives LoginsJust
PROPERTIES AnswersKnown
CHECK_DEADLOCK FALSE
