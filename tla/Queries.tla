------------------------------ MODULE Queries -------------------------------
(***************************************************************************)
(* What the pages show of the tables builds and results: the queries of    *)
(* src/ddao, the Go code of src/json and src/pages that goes through their *)
(* rows, and the filter of the older src/dao that one query has replaced.  *)
(*                                                                         *)
(* build_ts is what a mail says about its build, build_id the order in     *)
(* which mails are stored: mail is delayed and reordered, so the two may   *)
(* disagree.  ORDER BY leaves the order of equal rows open, so a query is  *)
(* the set of the lists it may return.  failed_deps is the text that       *)
(* PkgsFromReport has made of the names of the failed dependencies, joined *)
(* by blanks; a text is modelled as the sequence of its names, none of     *)
(* which has a blank or a comma in it.                                     *)
(***************************************************************************)
EXTENDS Integers, Sequences, FiniteSets, SequencesExt, KeepLoop

CONSTANTS Kinds,         \* values of (platform, branch, compiler, build_user)
          Times,         \* values of build_ts
          Names,         \* package names
          PathOf,        \* the directory (category/dir) each is built from
          LikeIn,        \* <<n, m>>: name m LIKE %n% (a match across a blank,
                         \* which only an underscore in n can make, is left out)
          RawReports,    \* reports: sequences of [name, status, depends]
          Limit,         \* the LIMIT of the lists of builds, 1000
          TopLimit,      \* the LIMIT of GetPkgsBreakingMostOthers, 100
          MaxBuilds,     \* bound: rows of builds
          MaxReports     \* bound: builds with results

\* BUILD_STATUS as PkgsFromReport numbers it.
Status == [done |-> 0, prefailed |-> 1, failed |-> 2,
           indirect_failed |-> 3, indirect_prefailed |-> 4]

Broken(status) == status \in {Status.failed, Status.prefailed}
Indirect(status) == status \in {Status.indirect_failed, Status.indirect_prefailed}

ASSUME BoundAssumption ==
    /\ Times \subseteq Nat /\ Limit \in Nat \ {0} /\ TopLimit \in Nat
    /\ MaxBuilds \in Nat /\ MaxReports \in Nat

ASSUME LikeAssumption ==
    /\ LikeIn \subseteq Names \X Names
    /\ \A n \in Names : <<n, n>> \in LikeIn

\* pbulk writes one record per package name.
ASSUME RawAssumption ==
    \A raw \in RawReports :
        /\ raw \in Seq([name : Names, status : 0..4, depends : Seq(Names)])
        /\ \A i, j \in DOMAIN raw : raw[i].name = raw[j].name => i = j

VARIABLES builds,        \* table builds by build_id: [kind, ts]
          results        \* table results by result_id, see Rows

vars == <<builds, results>>

Rows == [build : DOMAIN builds, name : Names, status : 0..4,
         failedDeps : Seq(Names), breaks : Nat]

-----------------------------------------------------------------------------
(* What PkgsFromReport makes of a report, see ReportParser for its steps.  *)

BrokenNames(raw) == {raw[i].name : i \in {j \in DOMAIN raw : Broken(raw[j].status)}}

FailedDeps(raw, i) ==
    IF Indirect(raw[i].status) THEN Keep(raw[i].depends, BrokenNames(raw)) ELSE <<>>

Breaks(raw, i) ==
    Cardinality(UNION {{<<j, k>> : k \in {k \in DOMAIN FailedDeps(raw, j) :
                                            FailedDeps(raw, j)[k] = raw[i].name}} : j \in DOMAIN raw})

PkgsFromReport(raw, b) ==
    [i \in DOMAIN raw |-> [build |-> b, name |-> raw[i].name, status |-> raw[i].status,
                           failedDeps |-> FailedDeps(raw, i), breaks |-> Breaks(raw, i)]]

-----------------------------------------------------------------------------
(* The writers, each as what its committed transaction leaves.             *)

Init == builds = <<>> /\ results = <<>>

PutBuild(kind, ts) ==
    /\ Len(builds) < MaxBuilds
    /\ builds' = Append(builds, [kind |-> kind, ts |-> ts])
    /\ UNCHANGED results

BuildsWithResults == {results[i].build : i \in DOMAIN results}

\* Without foreign keys, the id of a PutBuild that failed would do.
PutResultsUnderPrevious(b, raw) ==
    /\ b \notin BuildsWithResults
    /\ Cardinality(BuildsWithResults) < MaxReports
    /\ results' = results \o PkgsFromReport(raw, b - 1)
    /\ UNCHANGED builds

\* The results of a report, in any order of the builds: reports are fetched
\* while other mails are stored.
PutResults(b, raw) ==
    /\ b \notin BuildsWithResults
    /\ Cardinality(BuildsWithResults) < MaxReports
    /\ results' = results \o PkgsFromReport(raw, b)
    /\ UNCHANGED builds

Next ==
    \/ \E k \in Kinds, t \in Times : PutBuild(k, t)
    \/ \E b \in DOMAIN builds, raw \in RawReports : PutResults(b, raw)

Spec == Init /\ [][Next]_vars

-----------------------------------------------------------------------------
(* Lists of builds.                                                        *)

\* ORDER BY build_ts DESC, over build ids.
NewestFirst(ids) ==
    {s \in SetToSeqs(ids) :
        \A i, j \in DOMAIN s : i < j => builds[s[i]].ts >= builds[s[j]].ts}

Limited(s) == IF Len(s) <= Limit THEN s ELSE SubSeq(s, 1, Limit)

\* Without the PARTITION BY.
HighestId(kind) == {b \in DOMAIN builds : \A c \in DOMAIN builds : c <= b}

\* MAX(build_id) OVER (PARTITION BY platform, branch, compiler, build_user)
MaxId(kind) ==
    {b \in DOMAIN builds :
        /\ builds[b].kind = kind
        /\ \A c \in DOMAIN builds : builds[c].kind = kind => c <= b}

GetLatestBuildsPerPlatform ==
    {Limited(s) : s \in NewestFirst(UNION {MaxId(k) : k \in Kinds})}

\* Without the DESC.
OldestBuilds == {Limited(Reverse(s)) : s \in NewestFirst(DOMAIN builds)}

getLatestBuilds == {Limited(s) : s \in NewestFirst(DOMAIN builds)}

LatestBuilds(filter) == IF filter THEN GetLatestBuildsPerPlatform ELSE getLatestBuilds

-----------------------------------------------------------------------------
(* One package's results.  Result ids are what the pages link to.          *)

Ids == DOMAIN results
NoRow == 0

IdsOf(path) == {i \in Ids : PathOf[results[i].name] = path}

\* Ordered by build_id, which the start page relies on.
ResultsInArrivalOrder(path) ==
    {s \in SetToSeqs(IdsOf(path)) :
        \A i, j \in DOMAIN s : i < j => results[s[i]].build >= results[s[j]].build}

\* The join of results and builds for a package, all of it, newest build first.
GetAllPkgResults(path) ==
    {s \in SetToSeqs(IdsOf(path)) :
        \A i, j \in DOMAIN s :
            i < j => builds[results[s[i]].build].ts >= builds[results[s[j]].build].ts}

\* failed_deps == name
EqualsText(name, text) == text = <<name>>

\* failed_deps LIKE %name%
Like(name, text) == \E k \in DOMAIN text : <<name, text[k]>> \in LikeIn

getPkgsBrokenBy(name) == {i \in Ids : Like(name, results[i].failedDeps)}

GetPkgsBrokenBy(id) == getPkgsBrokenBy(results[id].name)

\* Without the condition on the build.
SingleResultOfAnyBuild(b, text) ==
    LET found == {i \in Ids : text = <<results[i].name>>}
    IN IF found = {} THEN NoRow ELSE CHOOSE i \in found : TRUE

\* A row of the build whose pkg_name is the whole text.
GetSingleResultByPkgName(b, text) ==
    LET found == {i \in Ids : results[i].build = b /\ text = <<results[i].name>>}
    IN IF found = {} THEN NoRow ELSE CHOOSE i \in found : TRUE

\* An off-by-one that takes prefailed packages for built ones.
StatusAboveOne(i) == results[i].status > 1

\* build_status > 0
NotBuilt(i) == results[i].status > 0

\* ORDER BY breaks DESC leaves the order of equal counts open: the sets of rows
\* that the LIMIT may leave.
GetPkgsBreakingMostOthers(b) ==
    LET all == {i \in Ids : results[i].build = b /\ NotBuilt(i)}
    IN {top \in SUBSET all :
           /\ Cardinality(top) = IF Cardinality(all) < TopLimit THEN Cardinality(all) ELSE TopLimit
           /\ \A i \in top, j \in all \ top : results[i].breaks >= results[j].breaks}

-----------------------------------------------------------------------------
(* Go: both loops keep the first of each kind, see KeepLoop.  The one of   *)
(* dao compares with the builds it has kept instead of a map of the kinds  *)
(* it has seen, which are those of the builds it has kept.                 *)

BuildKind == [b \in DOMAIN builds |-> builds[b].kind]
ResultKind == [i \in Ids |-> builds[results[i].build].kind]

\* dao.LatestBuilds(filter = true): the filter sees what the LIMIT has left.
DaoLatestBuildsFiltered == {FirstOfKind(s, BuildKind) : s \in getLatestBuilds}

PkgResults(path) == {FirstOfKind(s, ResultKind) : s \in GetAllPkgResults(path)}

\* PkgDetails.ServeHTTP: the heading and the rows of the table of failed
\* dependencies.  It splits the text at commas, of which there are none.
SplitAtCommas(text) == <<text>>

PageShowsDeps(id) == results[id].failedDeps # <<>>

HeadingCount(id) == Len(SplitAtCommas(results[id].failedDeps))

DepRows(id) ==
    IF ~PageShowsDeps(id) THEN {}
    ELSE {GetSingleResultByPkgName(results[id].build, dep) :
             dep \in ToSet(SplitAtCommas(results[id].failedDeps))} \ {NoRow}

-----------------------------------------------------------------------------
TypeOK ==
    /\ builds \in Seq([kind : Kinds, ts : Times])
    /\ results \in Seq(Rows)

KindsOf(ids) == {builds[b].kind : b \in ids}

\* No kind of build is missing from the start page and none is there twice, as
\* long as there are at most Limit kinds, however many builds there are.
StartPageComplete ==
    Cardinality(KindsOf(DOMAIN builds)) <= Limit =>
        \A list \in LatestBuilds(TRUE) :
            /\ KindsOf(ToSet(list)) = KindsOf(DOMAIN builds)
            /\ Len(list) = Cardinality(KindsOf(DOMAIN builds))

InOrder == \A b, c \in DOMAIN builds : b < c => builds[b].ts < builds[c].ts

\* The query that replaced dao's filter returns what the filter did, if builds
\* arrive in the order of their times and the table is within the limit.
SameAsDao ==
    InOrder /\ Len(builds) <= Limit => LatestBuilds(TRUE) = DaoLatestBuildsFiltered

\* The comment in PkgResults: "Only keep the first (i.e. most recent) result."
\* Each kind that has built the package is shown once, with a build that no
\* build of the kind with a result for the package is newer than, in whatever
\* order builds and reports arrived.
PkgResultsMostRecent ==
    \A path \in {PathOf[n] : n \in Names} : \A list \in PkgResults(path) :
        /\ {ResultKind[i] : i \in IdsOf(path)} = {ResultKind[i] : i \in ToSet(list)}
        /\ \A k, l \in DOMAIN list : ResultKind[list[k]] = ResultKind[list[l]] => k = l
        /\ \A i \in ToSet(list), j \in IdsOf(path) :
              ResultKind[j] = ResultKind[i] =>
                  builds[results[j].build].ts <= builds[results[i].build].ts

DependsOn(j, i) ==
    /\ results[j].build = results[i].build
    /\ results[i].name \in ToSet(results[j].failedDeps)

\* "This package breaks N others", and the list below it, come from different
\* columns: no package of the build that is counted is missing from the list.
BrokenByComplete ==
    \A i \in Ids :
        /\ {j \in Ids : DependsOn(j, i)} \subseteq GetPkgsBrokenBy(i)
        /\ results[i].breaks > 0 <=> \E j \in Ids : DependsOn(j, i)

\* Following the links there and back: each row in a table of failed
\* dependencies is a package of the same build that was not built itself and
\* that lists the page's package among those it has broken; the one failed
\* dependency of a package that has just one is in the table.
DepPagesAgree ==
    \A i \in Ids :
        /\ \A d \in DepRows(i) :
              /\ results[d].build = results[i].build /\ Broken(results[d].status)
              /\ results[d].breaks > 0 /\ i \in GetPkgsBrokenBy(d)
        /\ Len(results[i].failedDeps) = 1 => DepRows(i) # {}

\* The limits cut lists off in their own order.  The list of all builds leaves a
\* build out only if it is full of builds that are as new; a build's list of the
\* packages that break most others leaves one out that breaks any only if it is
\* full of packages that break as many.
CutsKeepTheTop ==
    /\ \A list \in LatestBuilds(FALSE) : \A b \in DOMAIN builds \ ToSet(list) :
          /\ Len(list) = Limit
          /\ \A i \in DOMAIN list : builds[list[i]].ts >= builds[b].ts
    /\ \A b \in DOMAIN builds : \A top \in GetPkgsBreakingMostOthers(b) : \A i \in Ids \ top :
          results[i].build = b /\ results[i].breaks > 0 =>
              /\ Cardinality(top) = TopLimit
              /\ \A j \in top : results[j].breaks >= results[i].breaks

\* The heading "This package has %d failed dependencies" gives their number.
HeadingCountsDeps ==
    \A i \in Ids : PageShowsDeps(i) => HeadingCount(i) = Len(results[i].failedDeps)
=============================================================================
