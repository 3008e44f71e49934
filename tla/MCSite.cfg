SPECIFICATION Spec
CONSTANTS
    first = first
    second = second
    odd = odd
    Announcements = {first, second, odd}
    Contents <- MCContents
    Reserved = {"build", "pkg"}
    Readable = {"build", "devel", "gtk+", "sub", "wip"}
    Escaped = {"gtk+"}
    DbErrors = TRUE
    MaxBuilds = 2
    MaxStarts = 3
INVARIANTS TypeOK NoDeadLinks PanicsExplained PagesComplete 
CHECK_DEADLOCK FALSE
