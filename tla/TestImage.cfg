SPECIFICATION Spec
CONSTANTS
    Names = {"api", "db"}
    FileNames = {"a", "b", "c", "d", "-e"}
    EarlyNames = {"-e"}
    Trees <- Directories
    Selves <- OwnCases
    Others <- Foreign
INVARIANTS TypeOK RoundTrip DigestPins ValidatedIsRun ScratchRemoved
