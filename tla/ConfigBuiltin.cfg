SPECIFICATION Spec
CONSTANTS
    StartPicks = {"builtin"}
    SetupPicks = {"same", "raises", "skips"}
    Renderers = {"python", "shell", "broken"}
    Blobs = {TRUE, FALSE}
    Plugins = {}
    Crashes = TRUE
    HandEdited = TRUE
    MaxBoots = 3
INVARIANT Parses
INVARIANT RuntimeReady
INVARIANT HandEditsKept
INVARIANT RebootIsIdempotent
CHECK_DEADLOCK FALSE
