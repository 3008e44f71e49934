# BulkTracker in TLA+

BulkTracker receives the reports of pkgsrc bulk builds by mail, fetches the
machine-readable report that each mail points to, stores both in an SQLite
database, and serves pages and JSON lists from it.  This directory holds TLA+
modules of that program, TLC runs over small instances of them, and proofs for
TLAPS.  `PROJECT.json` lists the runs, the source lines behind each definition,
the findings, the hazards and the theorems.

Run a model with `tlc -config X.cfg M`, and check the proofs with `tlapm M.tla` for
M one of IngestProofs, JsonApiProofs, ExpireOldProofs, KeepLoopProofs,
ReportParserProofs, QueriesProofs, SiteProofs and BtInjectProofs.

## The system

| Part | State | Operations | Talks to |
|---|---|---|---|
| Server, `bulktracker.go` | the routes of one mux, made at the start | `main`, `registerCategories` | opens the database, starts everything else |
| Mail handler, `ingest/ingest.go` | the frame of a request | `ServeHTTP`, `FetchReport`, `ParseMultipartMail` | the mail sender (status codes), report servers (HTTP, FTP), `bulk`, `ddao` |
| Report parsers, `bulk/bulk.go` | local to a call | `BuildFromReport`, `PkgsFromReport` | called by the mail handler |
| Database layer, `ddao/` (`dao/` opens it) | SQLite: `builds`, `pkgs`, `results` | `PutBuild`, `PutResults`, the queries | one connection per statement or transaction, file locks between them |
| JSON API, `json/json.go` | a map of cached answers, one mutex | `ServeHTTP`, `CacheGet`, `dispatch`, `CacheAndWrite` | `ddao`, and the scripts of the pages |
| Pages, `pages/` with `templates/` | none | start page, build, package, category | `ddao`; hold read transactions while they write |
| `expireold/` | the old App Engine datastore | `main`, `RemoveDetails`, `DeleteMulti` | the datastore |
| `testing/btinject` | one channel | `main`, `fileServer` | posts a mail, and serves the report when called back |
| `stateful/`, `log/`, `static/` | none | types, logging, scripts | |

### What is hard about it

* Mail handlers run concurrently, one goroutine per request, with no lock of
  their own.  Each runs a statement that commits on its own (`PutBuild`), then
  waits for a network that has no timeout, then runs a transaction
  (`PutResults`).  Between them other handlers run, the sender may go away (which
  cancels the context), or the server may die.
* The handler logs errors and goes on.  An id from a `PutBuild` that failed, 0 or
  worse, goes into `PutResults`.
* SQLite with a rollback journal has one writer; a commit waits for all readers,
  and a page reads for as long as its client takes to receive it.  A wait longer
  than the driver's busy timeout is an error.
* `pkgs` is shared by all builds and written by all ingests.
* The parser has to resolve references to records it has not seen yet.
* The cache is filled without the mutex held in between; a hit holds the mutex
  while a client is written to.
* Ids follow the arrival of mails and times follow the builds; the lists use both.
* Data goes through a text column: failed dependencies are joined by the parser,
  split by a page and searched by a query, each in its own way.
* `DeleteMulti` has a producer, workers that return at their first error, and an
  unbuffered channel between them.
* Categories become routes when the server starts, and mails bring new ones while
  it runs.  Pages are made of several statements outside of any transaction, any
  of which may fail without the page failing.  One handler serves the pages of a
  category and those of its packages, and tells them apart by slashes.
* A mail is read line by line by code in which the next line's meaning depends on
  the last one, and whose scan errors nobody looks at.
* `btinject` waits for its POST, whose handler waits for `btinject`.

### What makes each part correct

* Mail handler and database: a build has no results or one whole report, its
  own; results stay; references hold; no lock is kept while the network is waited
  for; every request ends if report servers end their answers; a mail that is
  answered with 200 has its build.
* Parser: kept dependencies are the failed ones of the report, a package has as
  many as it has broken, fields stay in their own record.
* Lists and pages: no kind of build is missing or old; links lead there and back;
  a list that is cut off keeps what ranks highest.
* Routes and directories: a link leads to a page once its category was read at a
  start; a start panics over no categories but those that are known to clash; a page
  shows all there was when it was asked for; a package can be reached unless its
  name or its path stands in the way.
* Mail parser: which mails become builds, which are dropped and which panic; each
  field is from the line that gives it.
* `btinject`: its POST ends, and the tool exits when the report is ingested.
* JSON API: an answer is for the question asked, as far as keys tell questions
  apart, and of bounded age.
* `DeleteMulti`, `expireold`: success means all is deleted; nothing is orphaned by
  a stop; the call returns.

## The modules

    BuildLog  <--implements--  Ingest   <--EXTENDS--  IngestProofs
                               Ingest   <--EXTENDS--  MCIngest
    BuildLog  <--INSTANCE----  Site, whose tables it is  <--EXTENDS--  SiteProofs
    MailParser  <--EXTENDS---  BtInject  <--EXTENDS--  BtInjectProofs
                    computes the class of a mail of Ingest
    KeepLoop  <--EXTENDS-----  ReportParser  <--EXTENDS--  ReportParserProofs
                    its results are the Reports of Ingest and the rows of Queries
    KeepLoop  <--EXTENDS-----  Queries  <--EXTENDS--  QueriesProofs
                    reads the tables that Ingest writes
    KeepLoop  <--EXTENDS-----  KeepLoopProofs, whose lemmas the last two use
    JsonApi  <--EXTENDS------  JsonApiProofs; caches what Queries computes
    DeleteMulti  <--EXTENDS--  ExpireOld, which calls it  <--EXTENDS--  ExpireOldProofs

An MC module and its `.cfg` files give a module its constants.

**BuildLog** is the abstract specification of the ingest side: an append-only
log of builds; an entry is announced empty, may get one whole report of its own,
and never changes after that.

**Ingest** is the core.  `builds`, `pkgs` and `results` are the committed tables
(ids are indexes); `txPkgs` and `txResults` are the same tables as the connection
with the write lock sees them, and `writer` is the handler that holds that lock.
`pc` says where each handler is: `put_build` (before line 181 of `ingest.go`),
`fetch` (in `FetchReport`), `put_results` (before the DELETE), `writing` (in the
loop) and `reply`.  Each statement is one action with the outcomes it can have:

| Code | Actions |
|---|---|
| `ServeHTTP` up to `BuildFromReport` | `Reject` (500 or a panic), `Ignore` (200, nothing done), `Accept` |
| `PutBuild` | `PutBuildStored`; `PutBuildInterrupted` (stored, the id not scanned); `PutBuildRolledBack` (the id scanned, the row undone); `PutBuildFails` (busy, cancelled, disk) |
| `FetchReport` up to `PkgsFromReport` | `Fetched`, `FetchFails`, `FetchPanics` |
| `PutResults` | `BeginResults`, `BeginFails`, `WriteResult` (`PutPkg`, `GetPkgID`, `PutResult`), `Commit`, `Rollback` |
| the end of `FetchReport` and `ServeHTTP` | `Reply` |
| net/http, the sender, the process, page handlers | `Cancel`, `Send`, `Crash`, `OpenPage`, `ClosePage` |

`PutBuildRolledBack` deserves a word.  `INSERT ... RETURNING` in autocommit mode
yields its row at the first step, and commits when the statement is closed.
`QueryRow(...).Scan` has the id by then, and returns it with the error of the
commit, if a reader outlasts the busy timeout or the disk is full.  The
row is gone, the next insert is given the same id, and the handler that was given
it first still uses it.

What the model takes from outside the repository: SQLite in its default
rollback-journal mode (the connection string sets only foreign keys), statements
that are atomic, a journal that undoes a transaction after a crash, and the
driver's finite busy timeout.  Records with equal contents are one value.
`PkgsFromReport` is the constant `Reports`: what each URL may serve, read by the
parser.  The status code of the fetch is not looked at by the code, so an error
page is a report of no records.

**ReportParser** is `PkgsFromReport` line by line: the scan with its map of
failed packages, a read error anywhere (`EndScan`), the second pass record by
record, and the nil dereference (`NilRecord`).  The properties compare its result
with what the text says, defined on the lines (`Segment`, `Fields`, `LastOf`), not
by the loop.  `BreaksArePackages` takes the comment of `Breaks` at its word, "Number
of packages broken by this one", and counts records of the text.  It leaves out the
packages that a report names ambiguously (`Unambiguous`): two records of the name, two
statuses, or a list that names it twice.

**KeepLoop** has the loop that occurs twice in the Go code, `KeepAt`, which goes
through a list and appends some of its elements to another: the failed ones among
a package's dependencies (`Keep`, `PkgsFromReport`), and the first row of each
kind of build (`FirstOfKind`, `API.PkgResults`).  `IsSelection` says of two lists
that one is made of elements of the other in their order, without the loop.

**JsonApi** is `ServeHTTP` with `CacheGet`, `dispatch` and `CacheAndWrite`; the
database is a version number, so that staleness can be stated, and an answer
carries the question it was computed for.  A path is a sequence of characters or
longer pieces, so that the key, `CacheKey`, can be put together as the code does:
the path without its last slash, `?` and the form, in one sequence.

**Queries** is what the pages compute from the tables: the lists of builds and of
a package's results, the result page of a package, and the two lists of broken
packages. A query is the set of answers that SQL allows, since `ORDER BY` leaves
ties open; the Go loops over them are those of KeepLoop. Its `Next` fills the
tables the way committed ingests do, with builds in every order of times and their
reports in every order of builds.

**Site** is the server between starts and stops, and a reader who follows links
while mails are ingested.  `log` holds the tables as BuildLog has them (Ingest
implements it, and its theorem `PackagesAreReal` is why `pkgs` can be read off the
results); `routes` is what the running mux has for categories; `req` and `page`
are the reader's request and what is on the screen, which survives a restart.  A URL
says whether it is `escaped`: the server decodes what encodeURIComponent has made of
a name (`SearchUrl`), the script of a package's page does not (`Decodes`).  `Readable`
are the names of the characters that its pattern knows.

| Code | Actions |
|---|---|
| `main`, `registerCategories` | `Start`, `StartPanics` (`mux.Handle` is given a pattern twice), `StartWithoutCategories` (the query fails and is logged), `Stop` |
| the mux | `Open`, with `Redirected` and `Route` |
| `StartPage` | `StartCategories`, then `StartBuilds`; `NotFound` for any other path that falls to `/` |
| `BuildDetails` | `GetBuild`, then `BuildPage` or `BuildCategoryPage` |
| `Dirs`, `PkgResults` and its script | `DirsPage`, `PkgResultsPage` |
| `Autocomplete` of the API and the script of the search field | `Autocomplete` |

A statement that fails leaves its list empty and the page goes on (`Items`).
`asked`, `known` and `before` are history: the tables when a request arrived, and
whether its link could have been seen before the last start.

**MailParser** is `ServeHTTP` up to `PutBuild`, `ParseMultipartMail` and
`BuildFromReport`: `Headers`, `NextPart`, and one action per stage of the scan
(`FindTitle`, `ReadRule`, `SkipLine`, `ReadPlatform`, `ReadField`, `ReadUrl`).  A
field's value is the number of the line it is from, so that the properties can say
where it should be from, defined on the text (`Titles`, `TakenAsUrl`, `Gives`).  A part
may be `cut`: the scanner then ends with a read error, which BuildFromReport returns
and ServeHTTP drops, so that the parser goes the same ways as at the end of a text.
**BtInject** puts the tool around it: `Post`, `PostReturns` and `Signal` are `main`,
`Listen`, `Accept` and `Answer` its file server, `Get`, `Store` and `GetFails` the
fetch at the server, which is `FetchElsewhere` if the mail names another host.
`delivered` holds when net/http has passed all of the file on: at once for a large
regular file, at the end of the handler for a small answer, and the handler ends
only when `main` has received from the channel.

**DeleteMulti** is the producer, the workers and the error group, with the
unbuffered channel as a rendezvous (`Send`).  A transaction may fail and have been
applied all the same, and one that began before the context was cancelled may
still succeed.  **ExpireOld** is the command around it: each of its calls
(`RemoveDetails`, `DeleteBuilds`) sets up a call of DeleteMulti, whose steps then
interleave with a stop of the process, and it may run again.

## The runs

| Run | Instance | States | What it shows |
|---|---|---|---|
| `ingest` | 2 handlers, 2 report mails sent up to twice, 3 builds, 1 slow page, disk errors, 1 crash | 1,055,720 | `ReferentialIntegrity`, `AllOrNothing`, `BuildsWereSent` |
| `ingest_own` | the same without the page and disk errors | 149,136 | `ResultsBelongToBuild`, `PackagesHaveResults`, `ResultsNeverLost`, the refinement `ImplementsBuildLog` |
| `ingest_live` | 2 handlers, 4 mails of which 2 are no reports, sent once, 1 slow page, 1 crash | 138,224 | `LockReleased`, `AnsweredIfFetched` |
| `ingest_acked` | 2 handlers | violation | a mail is answered with 200 and its build is lost |
| `ingest_stray` | 2 handlers, 1 slow page | violation | `ResultsBelongToBuild` fails if a commit can fail after its id was returned |
| `parser` | all reports of up to 3 records of 12 shapes, all sequences of up to 4 free lines | 101,858 | `FailedDepsAreReported`, `BreaksArePackages`, `IndexesValid` |
| `json_cache` | 2 requests, 4 URLs (a path with and without a slash, with a form, and with an encoded "?"), 3 ticks, expiration 1, a fill up to 1 tick after its read | 466,278 | `BoundedStaleness`, `AnswersMatch`, `AnsweredIfClientsRead` |
| `expire_old` | 5 builds with up to 5 details, chunks of 2, 2 workers, 2 failing transactions, 3 runs, 2 builds per run, a limit of 4 | 9,803 | `OkMeansAllDeleted`, `NoOrphans`, `DoneMeansExpired`, `ReturnsIfWorkersSuffice` |
| `queries` | 3 builds of 2 kinds at 2 times, 2 of them with reports of 3 packages, limits of 2 | 143,615 | `StartPageComplete`, `SameAsDao`, `PkgResultsMostRecent`, `BrokenByComplete`, `DepPagesAgree`, `CutsKeepTheTop` |
| `queries_heading` | the same | violation | the count of dependencies |
| `site` | 2 builds out of 3 mails, 3 starts, failing statements, reports with plain, nested, empty and reserved categories, names with a "+" and a dot | 882,509 | `NoDeadLinks`, `PanicsExplained`, `PagesComplete`, `PackagesReachable` |
| `btinject` | all texts of up to 4 lines, all lists of up to 3 fields, a report that breaks off after each of its lines, every kind of header and multipart mail; a large, a small and a foreign URL | 116,900 | `AnswerExplained`, `FieldsAsReported`, `PostEnds`, `ExitsWhenIngested` |

### Why the bounds are enough

* Ingest: everything that goes wrong between handlers needs two of them and a
  package that both reports name; three builds leave room for a row that a retry
  has duplicated.  More handlers and larger reports are what the proofs are for.
  In `ingest_live` each mail is sent once, since temporal checking is
  expensive and a second delivery is a request like the first.
* The parser's map, counts and indexes relate at most two records through a
  third; three records give every order of a reference and its target.
* `json_cache`: an entry has to be filled, expire and be filled again, and a
  slow fill to overwrite a newer one; three ticks hold that sequence.  Of the four
  URLs, two differ by a slash, two by the form, and one has the form in its path.
* `expire_old`: three chunks for two workers is the smallest case with more
  chunks than workers, and the last chunk is short; three runs let a second run
  be cut short too.
* `queries`: the table of builds outgrows the limit, and the kinds do not; two
  reports are enough for a row of another build to be mistaken for one's own, and
  the third build has none, or has a report that arrives before an older one's.
* `site`: a link goes stale when a category comes after a start, and must work
  after the next; two builds and three starts hold that twice over, with a build
  between two statements of one page.  The reports share a package and have a
  category inside another, whose name is also a package's; one package is escaped
  by the search field, and one has a dot.
* `btinject`: four lines reach every stage of the scan above the fields, and the
  lists of fields start below a complete heading; three fields hold a run of two
  keys without values and the line that the second is taken for.
* The bounds are `MaxBuilds`, `MaxSends` and `MaxCrashes` in Ingest,
  `MaxVersion` and `MaxTime` in JsonApi, `MaxErrors` in DeleteMulti, `MaxRuns` in
  ExpireOld, `MaxBuilds` and `MaxReports` in Queries, `MaxBuilds` and `MaxStarts`
  in Site, and `MaxLines` and `MaxFields` in MCBtInject (they bound the mails).  They stop the
  environment, so no run checks for deadlock where the system may come to rest at
  a bound or at its end.
* Symmetry (handlers in Ingest, `Kinds` in Queries) is used only where every
  property is an invariant or about single steps.

### Fairness

* Ingest: weak fairness of each handler's own steps, `Serve(h)`: a goroutine that
  is not waiting for the network goes on, and a statement that waits for a
  lock ends at the busy timeout.  Nothing is assumed of report servers, of the
  clients of pages or of senders; `AnsweredIfFetched` states what it needs of
  report servers itself.
* JsonApi: strong fairness of `Serve(r)`, since a `sync.Mutex` hands itself to a
  waiter that has starved.  That clients read is an assumption in the property.
* DeleteMulti: the process runs as long as one of its goroutines can.
* BtInject: weak fairness of the tool, its file server and the mail handler, each
  of which runs on goroutines of its own and does not wait but where the model has
  a guard.  A fetch from elsewhere may take for ever, and nobody need kill the tool.
* The other modules state no liveness.

## The proofs

`IngestProofs` proves, for any number of handlers, mails, pages and reports:

1. `InductiveInvariant`: `Spec => []IInv`, with nothing assumed of commits.
   `AllOrNothing` is not inductive: a commit publishes what the writer's
   connection sees.  `IInv` says what that is: `TransactionHoldsPrefix` (under the
   writer's build, the first `written` records of its report, each under the right
   path; elsewhere what is committed), `LockHeldInTransaction` (a handler is in
   its loop iff it holds the lock, and without a writer nothing is pending),
   `PkgsExtend` (the writer's `pkgs` extends the committed one, so committed ids
   keep their meaning) and `HandlersHaveReports` (what a handler stores is a
   report its URL served).  A lemma per action shows that it preserves `IInv`.
   `TypeCorrect`, `ReferencesHold` and `ReportsAreWhole` follow.
2. Under `CommitsSucceed` (no reader outlasts the busy timeout and the disk works,
   so that an id that was returned is a row), `OwnershipInvariant`: `Spec =>
   []OwnInv`.  It adds `HandlersOwnTheirBuilds`: from `PutBuild` to the end of its
   transaction, a handler's build is its own mail's, still empty, and no other
   handler's.  `ResultsAreOwn` and `ResultsStay` follow.
3. `Implementation`: `Spec => ImplementsBuildLog` under the same assumption.
   `PutBuildStored` and `PutBuildInterrupted` map to `Announce`, `Commit` to
   `Publish` or, for a report of no records, to a stutter; all other actions leave
   `PublishedLog` alone.
4. `PackagesAreReal`: `Spec => []PackagesHaveResults`, under the same assumption.
   What is missing for induction is `NewPackagesWritten`: a package that only the
   writer sees is named by a result that it has written under its own build, which
   the commit publishes together with the package.  That the DELETE of a
   PutResults takes no package's last result away follows from `OwnInv`: the build
   has no results yet.
5. `BuildsAreSent`: `Spec => []BuildsWereSent`, again with nothing assumed of
   commits. `SentInv` adds that of the handlers with one mail at most one may
   still insert a row (the sender waits for an answer or a disconnection before it
   sends again), and that while one may, there is one row less than the mail was
   sent.

`JsonApiProofs` proves, for any number of requests, any set of URLs and all times:

6. `AnswersAreOwn`: `Spec => []AnswersMatch`.  The invariant `MatchInv` follows an
   answer from the request that computes it through the map to the ones that are
   given it: all of them have the same `CacheKey`.  `SharedKey` is the argument that
   this is enough: if neither path has a `?`, the first one in the key is where
   the form begins (`KeyParts`), so equal keys have equal forms, and paths that
   differ by one slash at most.  Paths with an encoded `?` are the exception.
7. `StalenessIsBounded`: `Spec => []BoundedStaleness`.  `StaleInv` dates what is
   read, not what is served: an answer was current when it was read, and became an
   entry at most `FillTime` later, so at the entry's timestamp it had been out of
   date for at most that long, whatever it overwrote.

`ExpireOldProofs` proves, for any builds, details, workers and sizes of chunks:

8. `OkIsComplete`: `Spec => []OkMeansAllDeleted`.  `DeleteInv` says where a key
   can be: every key that was handed over is deleted or in some worker's chunk
   (`NoKeyLost`), and a worker that receives again, or has gone without setting
   the error, has none (`WorkersDone`).  So when all are gone and there is no
   error, none is left.
9. `NothingOrphaned`: `Spec => []NoOrphans`.  `PhaseInv` ties the keys of a call
   to what `main` is doing: details of the current build, or builds of which none
   has details left.  The latter is known from `OkMeansAllDeleted` for the call
   before, or from the query that found none.
10. `DoneIsExpired`: `Spec => []DoneMeansExpired`, and `TypeCorrect`.  What a run
    has done is only known at its end, so `ProgressInv` keeps an account of it on
    the way: the builds whose details are gone since the run began are as many as
    `i` counts, and one more from the moment the last transaction of a call
    commits to the moment `main` counts it; the builds that the query has found
    are seen or still to come.  A build that an earlier, stopped run had left
    empty is seen and not counted.

`KeepLoopProofs` proves, for lists of any length, that the loop selects:

11. `KeepAtSelects`, and from it `KeepSelects` (the list is a selection, by the
    set of the failed packages) and `FirstOfKindKeeps` (one element of each kind,
    and the first).  The provers cannot instantiate the library's induction
    theorems, so the induction over the rounds is made by hand: `LeastExists`
    gives the least round at which the claim fails, and `LoopExists` uses it also
    to show that there is a function that satisfies the recursive equation in the
    first place.

`ReportParserProofs` proves, for reports of any length, well-formed or not:

12. `IndexesStayValid`: `Spec => []IndexesValid`.  Records are only appended, and
    no assignment to a field changes a name, so an index that was right stays so.
13. `BreaksAreCounted`: `Spec => []BreaksArePackages`.  `BalanceInv` says it record
    by record: the count at record j is the number of places, in the dependencies
    that were kept so far, that the map leads from to j.  Each round of the second
    pass appends the places of one record, which are none of those counted before.
    For a package that is named unambiguously the map leads to its record iff it
    failed, a list that was kept has the name iff the one in the text has it
    (KeepLoop's selection), and at one place only; so the places are as many as
    the records that depend on it.
14. `FailedDepsCorrect`: `Spec => []FailedDepsAreReported`.  `StartsInv` is about
    the text: there are as many records as PKGNAME lines were read, and the i-th
    record began at the i-th of them, which is what `StartOf` chooses.  `ReadInv`
    then says of each record that it has what the last of its own lines say, and
    of the map that its keys are the names reported as failed; the second pass
    replaces one record's list by what KeepLoop selects of it.  Nothing is assumed
    of the report: a name may occur twice, and fields may be missing, repeated and
    in any order.
15. `TypeCorrect`.

`QueriesProofs` proves, for any builds, reports, packages and limits:

16. `BrokenByIsComplete` and `DepPagesDoAgree`.  `RowsInv` says what the rows of
    one build have in common: the names differ (`DifferentNames`), a count is
    positive iff some row of the build lists the name (`CountsAgree`), and the
    names that a row lists are those of rows of the build that failed
    (`DepsFailed`).  A report adds all rows of its build at once, so each follows
    for the new ones from what KeepLoop selects, and stays for the old ones, which
    are of other builds.
17. `CutsDoKeepTheTop` and `StartPageIsComplete`, from lemmas about sorted lists
    (`SetToSeqsIs`, `LimitedIs`) and about the last build of each kind
    (`LastOfKinds`): one build of each kind makes the start page as long as there
    are kinds, so the LIMIT cuts nothing off.  `CutsDoKeepTheTop` needs `RowsInv`
    as well: the query looks only at packages that were not built, and only those
    can break any.
18. `PkgResultsAreMostRecent`, from `FirstOfKindKeeps`: the list is sorted, so the
    first of a kind is the newest.
19. `ReplacementAgrees`: `Spec => []SameAsDao`.  If times follow ids, both the
    query and dao's loop yield the last build of each kind from the highest id
    down (`FilterLeavesTheLast`), and there is only one such list
    (`ListsDownOnce`).

`SiteProofs` proves, for any reports, site and numbers of builds and starts:

20. `LinksLive`: `Spec => []NoDeadLinks`.  `SiteOK` says that the routes are the
    categories in the tables as the last start read them, that none of them is a
    pattern of `main` (else the start would have panicked), and that builds stay.
    `CategoryIsRouted` is the argument about the mux: the longest pattern that
    matches a path in such a category is at least as long as the category, the
    site's own patterns have at most one name, and two prefixes of a path of one
    length are the same; so it is a category that answers.  `KnownIsServed` keeps
    that for a request whose statements are under way.
21. `PanicsAreExplained`: `Spec => []PanicsExplained`.  Two categories have one
    pattern only if they are one, whatever slashes are in them, so only the site's
    own patterns are left to clash with.
22. `PagesAreComplete` and `PackagesAreReachable`, for any names and whichever of
    them the script can read or the search field escapes.  `RequestOK` relates a page
    that is half made to the tables when it was asked for and now; `Fits` says
    what each kind of page has when it is done, and is kept by every later ingest
    since tables only grow (`Within`).
23. `TypeCorrect`, which says that the tables hold nothing but what reports say.

`BtInjectProofs` proves, for mails with any number of parts and lines:

24. `AnswersAreExplained` and `FieldsAreReported`.  `PlaceInv` says which part is
    read and how far, `TitleInv` how the stage of the scan follows from the
    distance to the first title, and `FieldInv` (by `GivenUpTo`) that each field
    is from the last line so far that gives it.  At the end of the text they say
    of the whole text what the properties say.
25. `ExitIsAfterIngest`, the safety half of `ExitsWhenIngested`: `main` exits only
    after the signal, and is in a position to receive it only when its POST has
    been answered, by when the handler is over.
26. `TypeCorrect`.

The run `ingest_stray` shows that `CommitsSucceed` cannot be dropped.

The assumptions on constants, which TLC evaluates in the runs of their modules:
`MailAssumption`, `ReportAssumption` and `BoundAssumption` of Ingest;
`TimeAssumption` and `UrlAssumption` (paths are made of strings, and so is what
forms are written as, but for the `?`) of JsonApi; `SizeAssumption` and `ExpireAssumption` of
DeleteMulti and ExpireOld; `InputAssumption` of ReportParser (a report is a
sequence of lines); `BoundAssumption`, `LikeAssumption` (a name is LIKE itself)
and `RawAssumption` of Queries; `PathAssumption`, `ReservedAssumption`,
`NameAssumption` and `BoundAssumption` of Site (names are strings, those of a path
are not empty, and no category begins with `pkgresults`, which is a page's name and
which the script drops);
`MailAssumption`, `KeyAssumption` (two names that the model gives to parts of a
build are no keys of a mail) and `FileAssumption` of MailParser and BtInject.
`RawAssumption` takes from pbulk that a report has one record per package, which
nothing in this code enforces; what the parser does with a report that has two is
in `ReportParser`, which does not assume it.  That a fill comes at most `FillTime`
after its read is the guard of `Tick`: nothing in the code bounds it.

With these, every invariant that a run checks is a theorem, and so are
`ResultsNeverLost` and `ImplementsBuildLog`.  Only model-checked are the liveness
properties (`LockReleased`, `AnsweredIfFetched`, `AnsweredIfClientsRead`,
`ReturnsIfWorkersSuffice`, `PostEnds`, `ExitsWhenIngested`), which need fairness
and ENABLED.  No proof here is about a recursive operator or by induction over
data but for the loop of KeepLoop, whose rounds can be counted.

## What the code does otherwise than it says

Each has a run that ends in a violation and an entry under "findings":
`AckedReportHasBuild`, `ResultsBelongToBuild`, `HeadingCountsDeps`.

Other things to know of, which the models show but no property demands:

* The start page shows the build with the highest id of each kind.  If mails arrive
  out of order, that is not the newest one (`ddao/queries.sql.go:136`).
* A package whose list names a dependency twice counts as two in the `Breaks` of that
  one, although "Number of packages broken by this one" is what it should be
  (`bulk/bulk.go:152`, `:202`).
* A package that is first called failed and then something else stays in the map of
  failed packages: it is kept as a failed dependency of others, and counts them
  (`bulk/bulk.go:184`).
* A mail whose body breaks off below the platform is stored as a build, although
  BuildFromReport returns the read error and the handler is to ingest a mail "if
  successful" (`bulk/bulk.go:130`, `ingest/ingest.go:124`, `:163`).
* The keys of the JSON cache are path, `?` and form in one string, and the path is
  decoded: with an encoded question mark in it, it shares its key with another path
  and a form, and is given the other's answer (`json/json.go:74`).
* The page of a package whose name has a dot says "Failed to decode the package name
  from the URL", as does that of one with a `+` if the reader comes from the search
  field, which writes it as `%2B`; the pattern knows the `+`, but is applied to the
  URL as it is written (`static/select-pkgresult.js:3`, `static/pkgresults.js:18`, `:26`).
* A start that cannot read the categories leaves a server that answers 404 to all
  links to them; `NoDeadLinks` is about the starts that can (`bulktracker.go:142`).
* `GetPkgsBrokenBy` searches `failed_deps` with LIKE in all builds: it also
  returns packages of other builds and of packages with longer names
  (`ddao/manual_additions.go:184`).  `BrokenByComplete` therefore asks for
  completeness only.
* The pages of a nested category show the one it is in, since only the first name
  of the path is looked at, and that of the empty category shows nothing
  (`pages/bulktracker.go:139`, `:279`).
* A record without a PKG_LOCATION, or in a category named like one of the site's
  own pages, keeps the server from starting the next time (`PanicsExplained`).
* `btinject` waits for ever if its mail is refused, names another server or a
  small file, or is read before the port is open.

## Not modelled

Templates and logging render or forward what they are given.  Of the scripts, the
way from the search field to the page of a package is modelled, and how that page
takes the package from its URL.  Names in Site have no characters that mean something
in a URL (`?`, `#`, `%`).  `ingest.Status`
consists of comments.  `dao` is modelled as far as the server uses it, and its
filter for comparison.  How numbers and dates of a mail are read is left out, since
no property tells them apart.  In Site the API answers from the database without
its cache, and LIKE finds whole names.  BtInject leaves out what PutBuild does,
which changes nothing for the tool: the report is fetched in any case.  Flags, the
metrics endpoint and static files keep no state.

## Plan

Done, in this order: Ingest with BuildLog and its proofs, because losing or mixing
up results is the worst the system can do; ReportParser; JsonApi; DeleteMulti and
ExpireOld; Queries; Site; MailParser with BtInject; the proofs about packages,
JsonApi, ExpireOld, ReportParser and Site; then those of all invariants that were
left, for which the loop of KeepLoop was written as a recursive function.  Next:

1. A composition of Ingest and JsonApi: a cached list against result ids that are
   given again.
2. Proofs: the parser's report as a constant of Ingest (that `Reports` are results of
   ReportParser) and the tables of Site as those of Ingest, by one refinement.
