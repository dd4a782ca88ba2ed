\* No reset command: the only way left for run() to wait forever is a
\* completion that fires before addObserver(this).
CONSTANTS
    MaxHeight <- MC_MaxHeight
    MaxResets = 0
SPECIFICATION Spec
PROPERTY
    RunReachesConsole
