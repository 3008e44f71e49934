-------------------------------- MODULE Site --------------------------------
(***************************************************************************)
(* The web site between starts and stops of the server: main and           *)
(* registerCategories of src/bulktracker.go, which turn the categories     *)
(* that are stored at the start into routes, and a reader who follows the  *)
(* links of the pages of src/pages while mails are ingested.  Each page is *)
(* made of several statements outside of any transaction.                  *)
(*                                                                         *)
(* The tables are those of BuildLog, which Ingest implements: pkgs holds   *)
(* the paths of all results (PackagesHaveResults in Ingest).  The reader   *)
(* may keep a page open over a restart.                                    *)
(***************************************************************************)
EXTENDS Integers, Sequences, FiniteSets, SequencesExt

CONSTANTS
    Announcements,   \* the report mails, see BuildLog
    Contents,        \* the reports of each: sequences of [path, rec]
    Reserved,        \* names that main registers as "/name/" itself
    Readable,        \* names of letters, digits, "+", "-" and "_" only
    Escaped,         \* names that encodeURIComponent changes: those with a "+"
    DbErrors,        \* TRUE if a statement may fail
    MaxBuilds,       \* bound: entries of the log
    MaxStarts        \* bound: starts of the server

\* PKG_LOCATION as path.Split takes it apart: the names up to the last slash
\* are the category, <<>> if there is none; a record without a PKG_LOCATION
\* has no directory either.  No name has a character that means something in a
\* URL ("?", "#", "%"), and no category begins with pkgresults, which the script
\* of the package's page drops.
AllPaths == UNION {{r[k].path : k \in DOMAIN r} : r \in UNION {Contents[m] : m \in Announcements}}

ASSUME PathAssumption ==
    \A p \in AllPaths :
        /\ p \in [category : Seq(STRING), dir : STRING]
        /\ p.dir = "" => p.category = <<>>
        /\ "" \notin ToSet(p.category)
        /\ p.category # <<>> => Head(p.category) # "pkgresults"

ASSUME ReservedAssumption == Reserved \subseteq STRING

ASSUME NameAssumption == Readable \subseteq STRING /\ Escaped \subseteq STRING

ASSUME BoundAssumption == DbErrors \in BOOLEAN /\ MaxBuilds \in Nat /\ MaxStarts \in Nat

VARIABLES
    log,         \* the tables, see BuildLog
    server,      \* up or down
    routes,      \* the category routes of the running server's mux
    starts,      \* how often it was started
    panicked,    \* a start ended in a panic
    req,         \* the request the reader waits for, see NoRequest
    page,        \* the page the reader looks at
    before       \* history: the tables when a start has last read the categories

process == <<server, routes, starts, panicked, before>>
reader == <<req, page>>
vars == <<log, process, reader>>

Log == INSTANCE BuildLog

-----------------------------------------------------------------------------
(* The statements that the pages use, over the tables as they are in l.    *)

Pkgs(l) == UNION {{l[i].rows[k].path : k \in DOMAIN l[i].rows} : i \in DOMAIN l}

\* "This used to be the list of categories for the current build."
CategoriesOfLastBuild(l) ==
    IF l = <<>> THEN {} ELSE {p.category : p \in Pkgs(<<Last(l)>>)}

\* SELECT DISTINCT category FROM pkgs
GetCategories(l) == {p.category : p \in Pkgs(l)}

GetPkgsInCategory(l, category) == {p.dir : p \in {p \in Pkgs(l) : p.category = category}}

\* The results of some builds, each with its build.
Rows(l, bs) == UNION {{b} \X ToSet(l[b].rows) : b \in bs}
PathOf(row) == row[2].path

\* Without the condition on the build.
GetResultsOfAnyBuild(l, b, category) ==
    {row \in Rows(l, DOMAIN l) : PathOf(row).category = category}

GetResultsInCategory(l, b, category) ==
    {row \in Rows(l, {b}) : PathOf(row).category = category}

\* Without the condition on the category.
GetAllDirResults(l, category, dir) ==
    {row \in Rows(l, DOMAIN l) : PathOf(row).dir = dir}

\* GetPkgID and the join: nothing if there is no such package.
GetAllPkgResults(l, category, dir) ==
    {row \in Rows(l, DOMAIN l) : PathOf(row) = [category |-> category, dir |-> dir]}

\* pkgpath LIKE %name%.  Which packages a term finds does not matter to where
\* they lead, so a term is a name.
GetAllPkgsMatching(l, name) ==
    {p \in Pkgs(l) : name \in ToSet(p.category) \cup {p.dir}}

-----------------------------------------------------------------------------
(* URLs: /build/<build>/... if build is not 0, the names of the path,      *)
(* whether a slash ends it, and whether a name is written with a "%".  The *)
(* server decodes the names; the browser shows them as they are written.   *)

Url(build, names, slash) ==
    [build |-> build, path |-> names, slash |-> slash, escaped |-> FALSE]
Home == Url(0, <<>>, TRUE)
CategoryUrl(c) == Url(0, c, TRUE)
PkgUrl(p) == Url(0, Append(p.category, p.dir), FALSE)

\* Where the search field leads to: encodeURIComponent, but for the slashes.
SearchUrl(p) ==
    LET u == PkgUrl(p)
    IN [u EXCEPT !.escaped = ToSet(u.path) \cap Escaped # {}]

BuildUrl(b) == Url(b, <<>>, FALSE)
BuildCategoryUrl(b, c) == Url(b, c, TRUE)

\* The links that pages may show over the tables l.
Links(l) ==
    {Home} \cup {BuildUrl(b) : b \in DOMAIN l} \cup {PkgUrl(p) : p \in Pkgs(l)}
        \cup {SearchUrl(p) : p \in Pkgs(l)}
        \cup UNION {{CategoryUrl(c)} \cup {BuildCategoryUrl(b, c) : b \in DOMAIN l}
                      : c \in GetCategories(l)}

\* The patterns that main registers for "/" and for "/name/".
FixedRoutes == {<<>>} \cup {<<n>> : n \in Reserved}

\* ServeMux redirects /name to /name/ if only that is registered; the new URL
\* is written from the decoded path.
Redirected(u) ==
    IF u.build = 0 /\ u.path \in FixedRoutes \cup routes THEN Url(0, u.path, TRUE) ELSE u

\* The longest pattern that is a prefix of the path.
Matching(u) == {r \in FixedRoutes \cup routes : IsPrefix(r, u.path) /\ (u.slash \/ r # u.path)}
Route(u) == CHOOSE r \in Matching(u) : \A s \in Matching(u) : Len(s) <= Len(r)

NoPage == [kind |-> "none", url |-> Home, links |-> {}, rows |-> {},
           asked |-> <<>>, known |-> FALSE, ok |-> TRUE]
NoRequest == [stage |-> "idle", url |-> Home, found |-> {},
              asked |-> <<>>, known |-> FALSE, ok |-> TRUE]

\* asked, known and ok are history: the tables when the request arrived,
\* whether a page may have shown its link before the last start that read the
\* categories, and whether all statements of the page have succeeded.
Page(kind, links, rows, ok) ==
    [kind |-> kind, url |-> req.url, links |-> links, rows |-> rows,
     asked |-> req.asked, known |-> req.known, ok |-> ok /\ req.ok]

Show(p) == page' = p /\ req' = NoRequest

-----------------------------------------------------------------------------
Init ==
    /\ Log!Init
    /\ server = "down" /\ routes = {} /\ starts = 0 /\ panicked = FALSE
    /\ req = NoRequest /\ page = NoPage
    /\ before = <<>>

\* Mails arrive at the same server.
Ingest ==
    /\ server = "up"
    /\ Log!Next /\ Len(log') <= MaxBuilds
    /\ UNCHANGED <<process, reader>>

\* The first name only, for all categories.
TopLevel(c) == IF c = <<>> THEN c ELSE <<c[1]>>

\* mux.Handle("/"+c, handler)
CategoryRoute(c) == c

\* mux.Handle panics if it is given a pattern that it has.
Registers(cs) ==
    /\ \A c \in cs : CategoryRoute(c) \notin FixedRoutes
    /\ \A c, d \in cs : CategoryRoute(c) = CategoryRoute(d) => c = d

Start ==
    /\ server = "down" /\ starts < MaxStarts
    /\ Registers(GetCategories(log))
    /\ server' = "up" /\ routes' = {CategoryRoute(c) : c \in GetCategories(log)}
    /\ starts' = starts + 1 /\ before' = log
    /\ UNCHANGED <<log, panicked, reader>>

StartPanics ==
    /\ server = "down" /\ starts < MaxStarts
    /\ ~Registers(GetCategories(log))
    /\ panicked' = TRUE /\ starts' = starts + 1
    /\ UNCHANGED <<log, server, routes, before, reader>>

\* GetCategories fails: the error is logged, and the server serves the rest.
StartWithoutCategories ==
    /\ server = "down" /\ starts < MaxStarts /\ DbErrors
    /\ server' = "up" /\ routes' = {}
    /\ starts' = starts + 1 /\ before' = <<>>
    /\ UNCHANGED <<log, panicked, reader>>

\* The reader waits in vain; the page on the screen stays.
Stop ==
    /\ server = "up"
    /\ server' = "down" /\ routes' = {} /\ req' = NoRequest
    /\ UNCHANGED <<log, starts, panicked, before, page>>

-----------------------------------------------------------------------------
(* One request: the handler that the mux finds, and its statements.        *)

\* Where the handler of a URL begins.
Handler(u) ==
    IF u.build # 0 THEN "build"
    ELSE LET r == Route(u) IN
         IF r \in routes THEN (IF Len(u.path) > 1 THEN "results" ELSE "dirs")
         ELSE IF r # <<>> THEN "other"
         ELSE IF u.path # <<>> THEN "notFound" ELSE "start"

Open(u) ==
    /\ server = "up" /\ req = NoRequest
    /\ req' = [NoRequest EXCEPT !.stage = Handler(Redirected(u)), !.url = Redirected(u),
                                !.asked = log, !.known = u \in Links(before)]
    /\ UNCHANGED <<log, process, page>>

AtStage(s) == req.stage = s /\ UNCHANGED <<log, process>>

\* http.NotFound of StartPage; /build/ and the like without an argument.
NotFound ==
    \E s \in {"notFound", "other"} : AtStage(s) /\ Show(Page(s, {}, {}, TRUE))

\* What a page makes of a statement that fails: an error after some rows drops
\* them, and the page goes on without any.
Items(all) == {[list |-> all, ok |-> TRUE]}
                  \cup (IF DbErrors THEN {[list |-> {}, ok |-> FALSE]} ELSE {})

\* StartPage: first the categories ...
StartCategories ==
    /\ AtStage("start")
    /\ \E got \in Items(GetCategories(log)) :
          req' = [req EXCEPT !.stage = "latest", !.found = got.list, !.ok = got.ok]
    /\ UNCHANGED <<page>>

\* ... and then the builds (of which Queries tells which are listed).
StartBuilds ==
    /\ AtStage("latest")
    /\ \E got \in Items(DOMAIN log) :
          Show(Page("start", {CategoryUrl(c) : c \in req.found} \cup {BuildUrl(b) : b \in got.list},
                    {}, got.ok))

\* The search field of the start page.
Autocomplete(name) ==
    /\ server = "up" /\ req = NoRequest /\ page.kind \in {"start", "search"}
    /\ \E got \in Items(GetAllPkgsMatching(log, name)) :
          page' = [page EXCEPT !.kind = "search", !.links = {SearchUrl(p) : p \in got.list}]
    /\ UNCHANGED <<log, process, req>>

\* BuildDetails: the build ...
GetBuild ==
    /\ AtStage("build")
    /\ \/ /\ req.url.build \in DOMAIN log
          /\ req' = [req EXCEPT !.stage = "details"]
          /\ UNCHANGED <<page>>
       \/ /\ req.url.build \notin DOMAIN log \/ DbErrors
          /\ Show(Page("noBuild", {}, {}, req.url.build \notin DOMAIN log))

\* ... and then all categories, whichever builds they come from,
BuildPage ==
    /\ AtStage("details") /\ req.url = BuildUrl(req.url.build)
    /\ \E got \in Items(GetCategories(log)) :
          Show(Page("build", {BuildCategoryUrl(req.url.build, c) : c \in got.list}, {}, got.ok))

\* paths[1] + "/": what is behind a second slash is not looked at.
FirstName(u) == IF u.path = <<>> THEN <<"">> ELSE <<u.path[1]>>

\* ... or the results in one.
BuildCategoryPage ==
    /\ AtStage("details") /\ req.url # BuildUrl(req.url.build)
    /\ \E got \in Items(GetResultsInCategory(log, req.url.build, FirstName(req.url))) :
          Show(Page("list", {}, got.list, got.ok))

DirsPage ==
    /\ AtStage("dirs")
    /\ \E got \in Items(GetPkgsInCategory(log, FirstName(req.url))) :
          Show(Page("dirs", {PkgUrl([category |-> FirstName(req.url), dir |-> d]) : d \in got.list},
                    {}, got.ok))

\* pkgname_re on window.location.pathname, which is not decoded.
Decodes(u) == Len(u.path) = 2 /\ ~u.slash /\ ~u.escaped /\ ToSet(u.path) \subseteq Readable

\* The page of a package: its script takes the package from the URL, if it can,
\* and asks json's AllPkgResults.
PkgResultsPage ==
    /\ AtStage("results")
    /\ IF Decodes(req.url)
       THEN \E got \in Items(GetAllPkgResults(log, FirstName(req.url), req.url.path[2])) :
                Show(Page("results", {}, got.list, got.ok))
       ELSE Show(Page("undecodable", {}, {}, TRUE))

Serve ==
    \/ NotFound \/ StartCategories \/ StartBuilds \/ GetBuild \/ BuildPage
    \/ BuildCategoryPage \/ DirsPage \/ PkgResultsPage

Names == UNION {ToSet(p.category) \cup {p.dir} : p \in AllPaths} \ {""}

Next ==
    \/ Ingest \/ Start \/ StartPanics \/ StartWithoutCategories \/ Stop \/ Serve
    \/ \E u \in page.links \cup {Home} : Open(u)
    \/ \E n \in Names : Autocomplete(n)

Spec == Init /\ [][Next]_vars

-----------------------------------------------------------------------------
TypeOK ==
    /\ \A i \in DOMAIN log : log[i].mail \in Announcements /\ ToSet(log[i].rows) \subseteq
                                UNION {ToSet(r) : r \in Contents[log[i].mail]}
    /\ server \in {"up", "down"} /\ starts \in 0..MaxStarts /\ panicked \in BOOLEAN
    /\ routes \subseteq GetCategories(log) /\ routes \cap FixedRoutes = {}
    /\ page.links \subseteq Links(log) /\ Len(before) <= Len(log) /\ req.ok \in BOOLEAN

\* Categories become routes only when the server starts, so a link may lead to
\* a 404 for a while.  But not for ever: a link that any page may have shown
\* before the last start that read the categories leads to a page, whatever has
\* been ingested, read and restarted in between.
NoDeadLinks ==
    page.kind \in {"notFound", "other", "noBuild"} /\ page.ok => ~page.known

\* The server fails to start (for good, since categories stay) only if a report
\* had a record without a category or in one that has the name of a page: no
\* two categories, nested ones among them, ever claim one route.
PanicsExplained ==
    panicked => \E c \in GetCategories(log) : c \in FixedRoutes

Plain(c) == Len(c) = 1

\* What a page shows is complete for the time at which it was asked for, although
\* its statements are not in a transaction and the routes may be older than any
\* of them: the start page and the build page list every category that was
\* stored then, and a build's page of a category of one name all results of this
\* build in this category, and no others.
PagesComplete ==
    /\ \A c \in GetCategories(page.asked) :
          /\ page.kind = "start" /\ page.ok => CategoryUrl(c) \in page.links
          /\ page.kind = "build" /\ page.ok => BuildCategoryUrl(page.url.build, c) \in page.links
    /\ \A c \in GetCategories(log) :
          page.kind = "list" /\ page.ok /\ Plain(c) /\ page.url = BuildCategoryUrl(page.url.build, c) =>
              /\ GetResultsInCategory(page.asked, page.url.build, c) \subseteq page.rows
              /\ \A row \in page.rows : row[1] = page.url.build /\ PathOf(row).category = c

\* From a category's page one gets to the results of every package in a category
\* of one name: each is listed, its page shows all results it had and no other
\* package's.  The page understands its URL unless a name has another character
\* than its script knows (a dot), a category has the URL too, or the reader comes
\* from the search field and a name was escaped.
PackagesReachable ==
    /\ page.kind = "dirs" /\ page.ok =>
          \A p \in Pkgs(page.asked) :
              CategoryUrl(p.category) = page.url => PkgUrl(p) \in page.links
    /\ page.kind = "undecodable" =>
          \/ Len(page.url.path) # 2 \/ page.url.path \in GetCategories(log)
          \/ ~(ToSet(page.url.path) \subseteq Readable)
          \/ page.url.escaped /\ ToSet(page.url.path) \cap Escaped # {}
    /\ page.kind = "results" /\ page.ok =>
          /\ page.rows # {}
          /\ \A row \in page.rows : PkgUrl(PathOf(row)) = page.url
          /\ {row \in Rows(page.asked, DOMAIN page.asked) : PkgUrl(PathOf(row)) = page.url}
                \subseteq page.rows
=============================================================================
