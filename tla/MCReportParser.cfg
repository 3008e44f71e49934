SPECIFICATION Spec
CONSTANTS
    foo = foo
    bar = bar
    here = here
    NoPath = NoPath
    Names = {foo, bar}
    Paths = {here}
    Words <- MCWords
    Inputs <- MCInputs
    MaxRecords = 3
INVARIANTS TypeOK IndexesValid FailedDepsAreReported BreaksArePackages
CHECK_DEADLOCK FALSE
