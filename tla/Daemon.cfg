\* Two launchers, two daemons and the file of a third one that was killed.
\* No more launchers are started than MaxEnters, and then the system stops.
SPECIFICATION Spec
CHECK_DEADLOCK FALSE
CONSTANTS
    Clients = {a, b}
    MaxDaemons = 2
    MaxEnters = 2
PROPERTIES
    OpenEnds
    AcceptedOrCut
    StopsWhenIdle
    StopsAfterLast
