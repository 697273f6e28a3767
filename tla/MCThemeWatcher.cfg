SPECIFICATION Spec
CONSTANT Palettes = {dark, light}
INVARIANT WatchSurvivesReplace
PROPERTY ThemeCatchesUp
