---------------------------- MODULE ReportParser ----------------------------
(***************************************************************************)
(* PkgsFromReport of src/bulk/bulk.go: the machine-readable report is read *)
(* line by line into one record per package; a second pass keeps, of the   *)
(* dependencies of the indirectly failed packages, those that failed, and  *)
(* counts for every failed package how many dependencies it broke.         *)
(*                                                                         *)
(* A line is what the switch of the loop tells apart: its key and, for the *)
(* keys it knows, the value.  The dependencies are the words of the value. *)
(***************************************************************************)
EXTENDS Integers, Sequences, FiniteSets, KeepLoop

CONSTANTS Names,       \* values of PKGNAME
          Paths,       \* values of PKG_LOCATION
          Words,       \* values of BUILD_STATUS, known ones or not
          Inputs,      \* the reports that may have to be parsed
          NoPath       \* a record's path before a PKG_LOCATION line

Keys == {"PKGNAME", "PKG_LOCATION", "BUILD_STATUS", "DEPENDS", "other"}
Lines ==
    [key : {"PKGNAME"}, val : Names] \cup
    [key : {"PKG_LOCATION"}, val : Paths] \cup
    [key : {"BUILD_STATUS"}, val : Words] \cup
    [key : {"DEPENDS"}, val : Seq(Names)] \cup
    [key : {"other"}, val : {NoPath}]

ASSUME InputAssumption == Inputs \subseteq Seq(Lines)

Statuses == {"OK", "Prefailed", "Failed", "IndirectFailed", "IndirectPrefailed"}

StatusOrUnknown(word) ==
    CASE word = "done" -> "OK"
      [] word = "prefailed" -> "Prefailed"
      [] word = "failed" -> "Failed"
      [] word = "indirect-failed" -> "IndirectFailed"
      [] word = "indirect-prefailed" -> "IndirectPrefailed"
      [] OTHER -> "unknown"

\* A word that the map does not have yields its zero value, which is OK.
Status(word) ==
    CASE word = "prefailed" -> "Prefailed"
      [] word = "failed" -> "Failed"
      [] word = "indirect-failed" -> "IndirectFailed"
      [] word = "indirect-prefailed" -> "IndirectPrefailed"
      [] OTHER -> "OK"

Records ==
    [name : Names, path : Paths \cup {NoPath}, status : Statuses,
     failedDeps : Seq(Names), breaks : Nat]

VARIABLES
    input,        \* the report
    pos,          \* lines read so far
    pkgs,         \* the records; p of the code is the last of them
    failedPkgs,   \* name of a failed package -> index into pkgs
    resolved,     \* records the second pass is done with
    phase,        \* which part of the function runs
    err           \* what s.Err() is going to say

vars == <<input, pos, pkgs, failedPkgs, resolved, phase, err>>

Phases == {"scan", "resolve", "returned", "panicked"}

Init ==
    /\ input \in Inputs /\ pos = 0
    /\ pkgs = <<>> /\ failedPkgs = <<>> /\ resolved = 0
    /\ phase = "scan" /\ err = FALSE

-----------------------------------------------------------------------------
(* The scan.                                                               *)

Line == input[pos + 1]

Scan(key) ==
    /\ phase = "scan" /\ pos < Len(input)
    /\ Line.key = key
    /\ pos' = pos + 1

Current == Len(pkgs)

StartRecord ==
    /\ Scan("PKGNAME")
    /\ pkgs' = Append(pkgs, [name |-> Line.val, path |-> NoPath, status |-> "OK",
                             failedDeps |-> <<>>, breaks |-> 0])
    /\ UNCHANGED <<input, failedPkgs, resolved, phase, err>>

SetLocation ==
    /\ Scan("PKG_LOCATION") /\ pkgs # <<>>
    /\ pkgs' = [pkgs EXCEPT ![Current].path = Line.val]
    /\ UNCHANGED <<input, failedPkgs, resolved, phase, err>>

Broken(status) == status \in {"Failed", "Prefailed"}

EntryAfter(name, i) ==
    [n \in DOMAIN failedPkgs \cup {name} |-> IF n = name THEN i + 1 ELSE failedPkgs[n]]

\* failedPkgs[name] = i
WithEntry(name, i) ==
    [n \in DOMAIN failedPkgs \cup {name} |-> IF n = name THEN i ELSE failedPkgs[n]]

SetStatus ==
    /\ Scan("BUILD_STATUS") /\ pkgs # <<>>
    /\ LET status == Status(Line.val)
       IN /\ pkgs' = [pkgs EXCEPT ![Current].status = status]
          /\ failedPkgs' = IF Broken(status) THEN WithEntry(pkgs[Current].name, Current) ELSE failedPkgs
    /\ UNCHANGED <<input, resolved, phase, err>>

SetDepends ==
    /\ Scan("DEPENDS") /\ pkgs # <<>>
    /\ pkgs' = [pkgs EXCEPT ![Current].failedDeps = Line.val]
    /\ UNCHANGED <<input, failedPkgs, resolved, phase, err>>

SkipLine ==
    /\ Scan("other")
    /\ UNCHANGED <<input, pkgs, failedPkgs, resolved, phase, err>>

\* A field before the first PKGNAME dereferences the nil p.
NilRecord ==
    /\ \E key \in {"PKG_LOCATION", "BUILD_STATUS", "DEPENDS"} : Scan(key)
    /\ pkgs = <<>>
    /\ phase' = "panicked"
    /\ UNCHANGED <<input, pkgs, failedPkgs, resolved, err>>

\* The scanner stops: at the end, or because the body cannot be read on or a
\* line is too long.  The second pass runs in either case.
EndScan ==
    /\ phase = "scan"
    /\ \/ pos = Len(input) /\ UNCHANGED err
       \/ err' = TRUE
    /\ phase' = "resolve"
    /\ UNCHANGED <<input, pos, pkgs, failedPkgs, resolved>>

-----------------------------------------------------------------------------
(* The second pass.                                                        *)

Indirect(status) == status \in {"IndirectFailed", "IndirectPrefailed"}

KeptForAll(i) == Keep(pkgs[i].failedDeps, DOMAIN failedPkgs)

\* The dependencies of record i that are kept.
Kept(i) ==
    IF Indirect(pkgs[i].status) THEN Keep(pkgs[i].failedDeps, DOMAIN failedPkgs) ELSE <<>>

\* A loop that is left at the first dependency that has failed.
CountFirst(deps, j) == IF deps # <<>> /\ failedPkgs[deps[1]] = j THEN 1 ELSE 0

\* How often the loop over the dependencies increments record j.
Count(deps, j) == Cardinality({k \in DOMAIN deps : failedPkgs[deps[k]] = j})

ResolveRecord ==
    /\ phase = "resolve" /\ resolved < Len(pkgs)
    /\ LET i == resolved + 1
           deps == Kept(i)
       IN pkgs' = [j \in DOMAIN pkgs |->
                     [pkgs[j] EXCEPT !.breaks = @ + Count(deps, j),
                                     !.failedDeps = IF j = i THEN deps ELSE @]]
    /\ resolved' = resolved + 1
    /\ UNCHANGED <<input, pos, failedPkgs, phase, err>>

Return ==
    /\ phase = "resolve" /\ resolved = Len(pkgs)
    /\ phase' = "returned"
    /\ UNCHANGED <<input, pos, pkgs, failedPkgs, resolved, err>>

Next ==
    \/ StartRecord \/ SetLocation \/ SetStatus \/ SetDepends \/ SkipLine \/ NilRecord
    \/ EndScan \/ ResolveRecord \/ Return

Spec == Init /\ [][Next]_vars

-----------------------------------------------------------------------------
(* What a report says, read off the text rather than by the loop.          *)

\* The lines of the report that PkgsFromReport has seen.
Seen == 1..pos
Starts == {p \in Seen : input[p].key = "PKGNAME"}
\* The line that starts the i-th record, and the lines of that record.
StartOf(i) == CHOOSE p \in Starts : Cardinality({q \in Starts : q <= p}) = i
Segment(i) ==
    {p \in Seen : p >= StartOf(i) /\ \A q \in Starts : q > StartOf(i) => p < q}
Fields(i, key) == {p \in Segment(i) : input[p].key = key}

\* The last line of the record with the key: the scan overwrites what earlier ones said.
LastOf(i, key) == {p \in Fields(i, key) : \A q \in Fields(i, key) : q <= p}

\* The packages of which a line says that they failed or prefailed, and the
\* records that the report calls indirectly failed.
ReportedBroken(name) ==
    \E i \in 1..Cardinality(Starts) :
        /\ input[StartOf(i)].val = name
        /\ \E p \in Fields(i, "BUILD_STATUS") : input[p].val \in {"failed", "prefailed"}

ReportedIndirect(i) ==
    \E p \in LastOf(i, "BUILD_STATUS") :
        input[p].val \in {"indirect-failed", "indirect-prefailed"}

ReportedName(i) == input[StartOf(i)].val

ReportedFailed(i) ==
    \E p \in LastOf(i, "BUILD_STATUS") : input[p].val \in {"failed", "prefailed"}

\* Where the record's list of dependencies names a package.
Mentions(i, name) ==
    UNION {{k \in DOMAIN input[p].val : input[p].val[k] = name} : p \in LastOf(i, "DEPENDS")}

\* The packages that the one of this name broke.
BrokenBy(name) ==
    {i \in 1..Cardinality(Starts) : ReportedIndirect(i) /\ Mentions(i, name) # {}}

\* No other record has the name, the record has one status at most, and no list
\* names the package twice.
Unambiguous(j) ==
    /\ \A i \in 1..Cardinality(Starts) : ReportedName(i) = ReportedName(j) => i = j
    /\ \A p, q \in Fields(j, "BUILD_STATUS") : p = q
    /\ \A i \in BrokenBy(ReportedName(j)) : \A k, l \in Mentions(i, ReportedName(j)) : k = l

Returned == phase = "returned"

TypeOK ==
    /\ input \in Inputs /\ pos \in 0..Len(input)
    /\ pkgs \in Seq(Records)
    /\ DOMAIN failedPkgs \subseteq Names
    /\ resolved \in 0..Len(pkgs)
    /\ phase \in Phases /\ err \in BOOLEAN

\* The second pass indexes pkgs by what the first one put into the map: the
\* index is always that of a record, with that name.
IndexesValid ==
    \A n \in DOMAIN failedPkgs :
        failedPkgs[n] \in DOMAIN pkgs /\ pkgs[failedPkgs[n]].name = n

\* Whatever the report looks like, the dependencies kept for a record that it
\* calls indirectly failed are, in the order of its DEPENDS line, those that it
\* calls failed or prefailed anywhere, before or after the record; other records
\* keep none.
FailedDepsAreReported ==
    Returned =>
        \A i \in DOMAIN pkgs :
            IF ReportedIndirect(i) /\ Fields(i, "DEPENDS") # {}
            THEN \E p \in LastOf(i, "DEPENDS") :
                     IsSelection(pkgs[i].failedDeps, input[p].val, {n \in Names : ReportedBroken(n)})
            ELSE pkgs[i].failedDeps = <<>>

\* "Number of packages broken by this one": of a package that the report calls
\* failed, the indirectly failed ones that depend on it, before or after it and
\* itself among them, and none of any other package.  That is for reports without
\* ambiguities; of a package that a list names twice the code counts two, and of
\* one whose first status is failed and whose last is not, it counts some.
BreaksArePackages ==
    Returned =>
        \A j \in DOMAIN pkgs : Unambiguous(j) =>
            pkgs[j].breaks =
                IF ReportedFailed(j) THEN Cardinality(BrokenBy(ReportedName(j))) ELSE 0
=============================================================================
