SPECIFICATION Spec
CONSTANTS
    Contents <- MCContents
    VideoTS = 9
    DropName = 0
    Formats = {"avc", "hevc"}
    Heights = {0, 720, 1080}
    Sizes = {1, 2}
    MaxRows = 3
INVARIANTS EveryFileHasARole DiscsImportWhole MainIsUndominated
PROPERTIES FormatSurvivesRename
