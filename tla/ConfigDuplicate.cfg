SPECIFICATION Spec
CONSTANTS
    StartPicks = {"builtin"}
    SetupPicks = {"same"}
    Renderers = {"python"}
    Blobs = {FALSE}
    Plugins = {"p"}
    Crashes = TRUE
    HandEdited = FALSE
    MaxBoots = 2
INVARIANT Parses
CHECK_DEADLOCK FALSE
