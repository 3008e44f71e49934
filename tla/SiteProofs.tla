------------------------------ MODULE SiteProofs ------------------------------
(***************************************************************************)
(* Theorems about Site, for any reports, categories and numbers of starts. *)
(***************************************************************************)
EXTENDS Site, SequenceTheorems, WellFoundedInduction, TLAPS

-----------------------------------------------------------------------------
(* The mux.                                                                *)

LEMMA ShortLengths == Len(<<>>) = 0 /\ \A m : Len(<<m>>) = 1
OBVIOUS

LEMMA OneName ==
    ASSUME NEW s \in Seq(STRING), Len(s) = 1
    PROVE  s # <<>> /\ s = <<s[1]>>
OBVIOUS

\* Two prefixes of a path that are of one length are the same.
LEMMA PrefixesAgree ==
    ASSUME NEW p \in Seq(STRING), NEW s \in Seq(STRING), NEW t \in Seq(STRING),
           IsPrefix(s, p), IsPrefix(t, p), Len(s) = Len(t)
    PROVE  s = t
<1>1. SubSeq(s, 1, Len(s)) = SubSeq(t, 1, Len(t))
  BY DEF IsPrefix
<1>2. SubSeq(s, 1, Len(s)) = s /\ SubSeq(t, 1, Len(t)) = t
  OBVIOUS
<1> QED
  BY <1>1, <1>2

\* A path is a prefix of itself.
LEMMA PrefixOfItself ==
    ASSUME NEW s \in Seq(STRING)
    PROVE  IsPrefix(s, s)
BY DEF IsPrefix

\* A category is a proper prefix of the path of a package in it.
LEMMA PrefixOfLonger ==
    ASSUME NEW s \in Seq(STRING), NEW d \in STRING
    PROVE  Append(s, d) \in Seq(STRING) /\ IsPrefix(s, Append(s, d)) /\ s # Append(s, d)
<1>1. Append(s, d) \in Seq(STRING)
  BY AppendProperties
<1>2. Len(Append(s, d)) = Len(s) + 1
  OBVIOUS
<1>3. SubSeq(s, 1, Len(s)) = SubSeq(Append(s, d), 1, Len(s))
  OBVIOUS
<1>4. IsPrefix(s, Append(s, d))
  <2>1. Len(s) <= Len(Append(s, d))
    BY <1>2
  <2> QED
    BY <1>3, <2>1 DEF IsPrefix
<1>5. s # Append(s, d)
  <2>1. Len(s) \in Nat /\ Len(Append(s, d)) # Len(s)
    BY <1>2
  <2> QED
    BY <2>1
<1> QED
  BY <1>1, <1>4, <1>5

\* Among sequences of bounded length there is a longest.
LEMMA LongestExists ==
    ASSUME NEW S, S # {}, NEW n \in Nat, \A s \in S : Len(s) \in Nat /\ Len(s) <= n
    PROVE  \E r \in S : \A s \in S : Len(s) <= Len(r)
<1> DEFINE R == OpToRel(<, Nat)
           T == {n - Len(s) : s \in S}
<1>1. IsWellFoundedOn(R, Nat)
  BY NatLessThanWellFounded
<1>2. T \subseteq Nat /\ T # {}
  OBVIOUS
<1>3. \E x \in T : \A y \in T : ~(<<y, x>> \in R)
  <2> HIDE DEF R, T
  <2> QED
    BY <1>1, <1>2, WFMin
<1>4. PICK x \in T : \A y \in T : ~(y < x)
  BY <1>2, <1>3 DEF OpToRel
<1>5. PICK r \in S : x = n - Len(r)
  OBVIOUS
<1>6. \A s \in S : ~(n - Len(s) < n - Len(r))
  BY <1>4, <1>5
<1> QED
  BY <1>6

\* What the mux is made of: the categories are sequences of names, and none has
\* a pattern that main registers itself.
RoutesOK == routes \subseteq Seq(STRING) /\ routes \cap FixedRoutes = {}

\* A path that lies in a category that is a route is handled by the route of a
\* category: the patterns for the site's own pages are too short to hide it.
LEMMA CategoryIsRouted ==
    ASSUME RoutesOK, NEW u, u.path \in Seq(STRING), NEW c \in routes,
           IsPrefix(c, u.path), u.slash \/ c # u.path
    PROVE  Route(u) \in routes
<1>1. c \in Matching(u)
  BY DEF Matching
<1>2. FixedRoutes \subseteq Seq(STRING) /\ \A r \in FixedRoutes : Len(r) <= 1
  <2> SUFFICES ASSUME NEW r \in FixedRoutes PROVE r \in Seq(STRING) /\ Len(r) <= 1
    OBVIOUS
  <2>1. CASE r = <<>>
    BY <2>1
  <2>2. ASSUME NEW m \in Reserved, r = <<m>> PROVE r \in Seq(STRING) /\ Len(r) <= 1
    <3>1. m \in STRING
      BY ReservedAssumption
    <3> QED
      BY <2>2, <3>1
  <2> QED
    BY <2>1, <2>2 DEF FixedRoutes
<1>3. Matching(u) \subseteq Seq(STRING) /\ \A r \in Matching(u) : Len(r) <= Len(u.path)
  BY <1>2 DEF Matching, RoutesOK, IsPrefix
<1>4. PICK r \in Matching(u) : \A s \in Matching(u) : Len(s) <= Len(r)
  <2>1. Len(u.path) \in Nat /\ \A s \in Matching(u) : Len(s) \in Nat /\ Len(s) <= Len(u.path)
    BY <1>3
  <2> QED
    BY <1>1, <2>1, LongestExists
<1>5. Route(u) \in Matching(u) /\ Len(c) <= Len(Route(u))
  <2> DEFINE r0 == CHOOSE q \in Matching(u) : \A s \in Matching(u) : Len(s) <= Len(q)
  <2>1. r0 \in Matching(u) /\ \A s \in Matching(u) : Len(s) <= Len(r0)
    BY <1>4
  <2> QED
    BY <1>1, <2>1 DEF Route
<1>6. c \in Seq(STRING) /\ c # <<>> /\ Len(c) \in Nat
  BY DEF RoutesOK, FixedRoutes
<1>7. ASSUME Route(u) \in FixedRoutes PROVE FALSE
  <2>1. Len(c) # 0
    BY <1>6
  <2>2. Len(Route(u)) = Len(c)
    BY <1>2, <1>5, <1>6, <1>7, <2>1
  <2>3. IsPrefix(Route(u), u.path) /\ Route(u) \in Seq(STRING)
    BY <1>2, <1>5, <1>7 DEF Matching
  <2>4. Route(u) = c
    BY <1>6, <2>2, <2>3, PrefixesAgree
  <2> QED
    BY <1>7, <2>4 DEF RoutesOK
<1> QED
  BY <1>5, <1>7 DEF Matching

-----------------------------------------------------------------------------
(* The tables.                                                             *)

\* What is in the tables is from the reports: under each mail one of its own.
Reports == {<<>>} \cup UNION {Contents[m] : m \in Announcements}
Entries == [mail : Announcements, rows : Reports]
Tables(l) ==
    /\ l \in Seq(Entries)
    /\ \A i \in DOMAIN l : l[i].rows \in {<<>>} \cup Contents[l[i].mail]

\* Earlier tables l and later ones: builds stay, and so do results.
Within(l, later) ==
    /\ DOMAIN l \subseteq DOMAIN later
    /\ \A i \in DOMAIN l : l[i].rows = <<>> \/ l[i].rows = later[i].rows

LEMMA TablesEmpty == Tables(<<>>)
<1>1. <<>> \in Seq(Entries)
  OBVIOUS
<1>2. DOMAIN <<>> = {}
  OBVIOUS
<1> QED
  BY <1>1, <1>2 DEF Tables

LEMMA WithinEmpty == ASSUME NEW l PROVE Within(<<>>, l)
BY DEF Within

LEMMA WithinItself == ASSUME NEW l PROVE Within(l, l)
BY DEF Within

LEMMA WithinLater ==
    ASSUME NEW l, NEW m, NEW n, Within(l, m), Within(m, n)
    PROVE  Within(l, n)
<1>1. DOMAIN l \subseteq DOMAIN n
  BY DEF Within
<1>2. ASSUME NEW i \in DOMAIN l, l[i].rows # <<>> PROVE l[i].rows = n[i].rows
  <2>1. l[i].rows = m[i].rows /\ i \in DOMAIN m
    BY <1>2 DEF Within
  <2> QED
    BY <1>2, <2>1 DEF Within
<1> QED
  BY <1>1, <1>2 DEF Within

\* An entry of the tables.
LEMMA EntryIs ==
    ASSUME NEW l, Tables(l), NEW i \in DOMAIN l
    PROVE  /\ l[i] \in Entries /\ i \in 1..Len(l) /\ Len(l) \in Nat
           /\ l[i].mail \in Announcements /\ l[i].rows \in Reports
<1> HIDE DEF Entries
<1>1. l \in Seq(Entries)
  BY DEF Tables
<1>2. l[i] \in Entries /\ i \in 1..Len(l) /\ Len(l) \in Nat
  BY <1>1
<1> QED
  BY <1>2 DEF Entries

\* What the steps of BuildLog keep.
LEMMA LogGrows ==
    ASSUME Tables(log), Log!Next
    PROVE  Tables(log') /\ Within(log, log')
<1>1. ASSUME NEW m \in Announcements, Log!Announce(m)
      PROVE  Tables(log') /\ Within(log, log')
  <2> DEFINE e == [mail |-> m, rows |-> <<>>]
  <2>1. e \in Entries /\ e.rows = <<>> /\ log' = Append(log, e)
    BY <1>1 DEF Log!Announce, Log!Entry, Reports, Entries
  <2> HIDE DEF e
  <2>2. log \in Seq(Entries)
    BY DEF Tables
  <2> HIDE DEF Entries
  <2>3. /\ log' \in Seq(Entries) /\ DOMAIN log \subseteq DOMAIN log'
        /\ \A i \in DOMAIN log : log'[i] = log[i]
        /\ \A i \in DOMAIN log' : i \in DOMAIN log \/ log'[i] = e
    BY <2>1, <2>2
  <2> QED
    BY <2>1, <2>3 DEF Tables, Within
<1>2. ASSUME NEW i \in DOMAIN log, NEW rows \in Contents[log[i].mail], Log!Publish(i, rows)
      PROVE  Tables(log') /\ Within(log, log')
  <2> DEFINE e == [mail |-> log[i].mail, rows |-> rows]
  <2>1. log[i] \in Entries
    BY EntryIs
  <2>2. /\ e \in Entries /\ e.rows \in Contents[e.mail] /\ log[i].rows = <<>>
        /\ log' = [log EXCEPT ![i] = e]
    BY <1>2, <2>1 DEF Log!Publish, Log!Entry, Reports, Entries
  <2> HIDE DEF e
  <2>3. log \in Seq(Entries)
    BY DEF Tables
  <2> HIDE DEF Entries
  <2>4. /\ log' \in Seq(Entries) /\ DOMAIN log' = DOMAIN log
        /\ \A j \in DOMAIN log : log'[j] = IF j = i THEN e ELSE log[j]
    BY <2>2, <2>3
  <2> QED
    BY <2>2, <2>4 DEF Tables, Within
<1> QED
  BY <1>1, <1>2 DEF Log!Next

\* A link of the search field leads to the page of the package, too; if none of
\* the names is escaped, it is the same link.
LEMMA SearchUrlIs ==
    ASSUME NEW p
    PROVE  LET u == SearchUrl(p)
           IN /\ u.build = 0 /\ ~u.slash /\ u.path = Append(p.category, p.dir)
              /\ u.escaped = (ToSet(u.path) \cap Escaped # {})
              /\ ~u.escaped => u = PkgUrl(p)
<1> DEFINE path == Append(p.category, p.dir)
           escaped == ToSet(path) \cap Escaped # {}
<1>1. PkgUrl(p) = [build |-> 0, path |-> path, slash |-> FALSE, escaped |-> FALSE]
  BY DEF PkgUrl, Url
<1>2. SearchUrl(p) = [[build |-> 0, path |-> path, slash |-> FALSE, escaped |-> FALSE]
                         EXCEPT !.escaped = escaped]
  BY <1>1 DEF SearchUrl
<1>3. escaped \in BOOLEAN
  OBVIOUS
<1> HIDE DEF path, escaped
<1>4. SearchUrl(p) = [build |-> 0, path |-> path, slash |-> FALSE, escaped |-> escaped]
  BY <1>2
<1>5. ~escaped => SearchUrl(p) = PkgUrl(p)
  BY <1>1, <1>3, <1>4
<1>6. SearchUrl(p).build = 0 /\ ~SearchUrl(p).slash /\ SearchUrl(p).path = path
  BY <1>4
<1>7. SearchUrl(p).escaped = escaped
  BY <1>4
<1> QED
  BY <1>5, <1>6, <1>7 DEF path, escaped

\* The tables hold no package that no report names.
LEMMA PkgsFromReports ==
    ASSUME NEW l, Tables(l)
    PROVE  Pkgs(l) \subseteq AllPaths
<1> SUFFICES ASSUME NEW i \in DOMAIN l, NEW k \in DOMAIN l[i].rows
             PROVE  l[i].rows[k].path \in AllPaths
  BY DEF Pkgs
<1>1. l[i].rows \in Reports
  BY EntryIs
<1>2. l[i].rows \in UNION {Contents[m] : m \in Announcements}
  BY <1>1 DEF Reports
<1> QED
  BY <1>2 DEF AllPaths

\* So a category that is read from the tables is a sequence of names.
LEMMA CategoriesAreNames ==
    ASSUME NEW l, Tables(l)
    PROVE  GetCategories(l) \subseteq Seq(STRING)
<1> SUFFICES ASSUME NEW p \in Pkgs(l) PROVE p.category \in Seq(STRING)
  BY DEF GetCategories
<1>1. p \in [category : Seq(STRING), dir : STRING]
  BY PkgsFromReports, PathAssumption
<1> QED
  BY <1>1

\* Packages, categories, links and results stay.
LEMMA PkgsStay ==
    ASSUME NEW l, NEW m, Within(l, m)
    PROVE  /\ Pkgs(l) \subseteq Pkgs(m) /\ GetCategories(l) \subseteq GetCategories(m)
           /\ Links(l) \subseteq Links(m)
<1>1. Pkgs(l) \subseteq Pkgs(m)
  <2> SUFFICES ASSUME NEW i \in DOMAIN l, NEW k \in DOMAIN l[i].rows
               PROVE  l[i].rows[k].path \in Pkgs(m)
    BY DEF Pkgs
  <2>1. l[i].rows # <<>>
    OBVIOUS
  <2>2. i \in DOMAIN m /\ l[i].rows = m[i].rows
    BY <2>1 DEF Within
  <2> QED
    BY <2>2 DEF Pkgs
<1>2. GetCategories(l) \subseteq GetCategories(m)
  BY <1>1 DEF GetCategories
<1>3. ASSUME NEW u \in Links(l) PROVE u \in Links(m)
  <2>1. DOMAIN l \subseteq DOMAIN m
    BY DEF Within
  <2> QED
    BY <1>1, <1>2, <2>1 DEF Links
<1> QED
  BY <1>1, <1>2, <1>3

LEMMA RowsStay ==
    ASSUME NEW l, NEW m, Within(l, m), NEW bs, bs \subseteq DOMAIN l
    PROVE  Rows(l, bs) \subseteq Rows(m, bs)
<1> SUFFICES ASSUME NEW b \in bs, NEW k \in DOMAIN l[b].rows
             PROVE  <<b, l[b].rows[k]>> \in Rows(m, bs)
  BY DEF Rows, ToSet
<1>1. l[b].rows # <<>>
  OBVIOUS
<1>2. l[b].rows = m[b].rows
  BY <1>1 DEF Within
<1> QED
  BY <1>2 DEF Rows, ToSet

\* A package has results, and a result a package.
LEMMA RowsAndPkgs ==
    ASSUME NEW l
    PROVE  /\ \A row \in Rows(l, DOMAIN l) : PathOf(row) \in Pkgs(l)
           /\ \A p \in Pkgs(l) : \E row \in Rows(l, DOMAIN l) : PathOf(row) = p
<1>1. ASSUME NEW b \in DOMAIN l, NEW r \in ToSet(l[b].rows)
      PROVE  PathOf(<<b, r>>) \in Pkgs(l)
  BY DEF ToSet, PathOf, Pkgs
<1>2. ASSUME NEW b \in DOMAIN l, NEW k \in DOMAIN l[b].rows
      PROVE  \E row \in Rows(l, DOMAIN l) : PathOf(row) = l[b].rows[k].path
  <2>1. <<b, l[b].rows[k]>> \in Rows(l, DOMAIN l)
    BY DEF Rows, ToSet
  <2> QED
    BY <2>1 DEF PathOf
<1>3. \A row \in Rows(l, DOMAIN l) : PathOf(row) \in Pkgs(l)
  BY <1>1 DEF Rows
<1>4. \A p \in Pkgs(l) : \E row \in Rows(l, DOMAIN l) : PathOf(row) = p
  BY <1>2 DEF Pkgs
<1> QED
  BY <1>3, <1>4
-----------------------------------------------------------------------------
(* The invariant.                                                          *)

\* The routes are the categories that the last start has read; what was there
\* then still is.
SiteOK ==
    /\ Tables(log) /\ Tables(before) /\ Within(before, log)
    /\ server \in {"up", "down"} /\ starts \in 0..MaxStarts /\ panicked \in BOOLEAN
    /\ RoutesOK
    /\ server = "up" => routes = GetCategories(before)
    /\ server = "down" => routes = {}
    /\ PanicsExplained

\* The URLs of requests, while the tables are l: that of a build which is there
\* since the tables were a; with a slash, that of a page of the site's own or of
\* a category; or that of a package.
UrlOK(u, a, l) ==
    /\ u.build # 0 => u.build \in DOMAIN a
    /\ u.build = 0 /\ u.slash => u.path \in FixedRoutes \cup GetCategories(l)
    /\ u.build = 0 /\ ~u.slash => \E p \in Pkgs(l) : u \in {PkgUrl(p), SearchUrl(p)}

\* The handlers of categories see no other URLs than those of one name, and of
\* more; the start page has all categories that were there when it was asked
\* for, unless the statement has failed; and no request for a link that was
\* known goes to a handler that has no page for it.
RequestOK ==
    /\ Tables(req.asked) /\ Within(req.asked, log)
    /\ req.ok \in BOOLEAN
    /\ req.stage # "idle" => UrlOK(req.url, req.asked, log)
    /\ req.stage = "dirs" => req.url.build = 0 /\ req.url.path # <<>> /\ ~(Len(req.url.path) > 1)
    /\ req.stage = "results" => req.url.build = 0 /\ Len(req.url.path) > 1
    /\ req.stage \in {"build", "details"} => req.url.build # 0
    /\ req.stage = "latest" =>
          /\ req.found \subseteq GetCategories(log)
          /\ req.ok => GetCategories(req.asked) \subseteq req.found
    /\ req.known => /\ req.stage \notin {"notFound", "other"}
                    /\ req.stage = "build" => req.url.build \in DOMAIN log

\* What each kind of page shows while the tables are l.
ListsCategories(p) ==
    \A c \in GetCategories(p.asked) :
        /\ p.kind = "start" /\ p.ok => CategoryUrl(c) \in p.links
        /\ p.kind = "build" /\ p.ok => BuildCategoryUrl(p.url.build, c) \in p.links

ListsResults(p) ==
    \A c \in Seq(STRING) :
        p.kind = "list" /\ p.ok /\ Plain(c) /\ p.url = BuildCategoryUrl(p.url.build, c) =>
            /\ GetResultsInCategory(p.asked, p.url.build, c) \subseteq p.rows
            /\ \A row \in p.rows : row[1] = p.url.build /\ PathOf(row).category = c

ListsPackages(p) ==
    p.kind = "dirs" /\ p.ok =>
        \A q \in Pkgs(p.asked) : CategoryUrl(q.category) = p.url => PkgUrl(q) \in p.links

ListsAllResults(p) ==
    p.kind = "results" /\ p.ok =>
        /\ p.rows # {}
        /\ \A row \in p.rows : PkgUrl(PathOf(row)) = p.url
        /\ {row \in Rows(p.asked, DOMAIN p.asked) : PkgUrl(PathOf(row)) = p.url} \subseteq p.rows

\* Why the script of a package's page does not understand its URL.
Illegible(u, l) ==
    \/ Len(u.path) # 2 \/ u.path \in GetCategories(l)
    \/ ~(ToSet(u.path) \subseteq Readable)
    \/ u.escaped /\ ToSet(u.path) \cap Escaped # {}

Fits(p, l) ==
    /\ p.links \subseteq Links(l)
    /\ p.kind \in {"notFound", "other", "noBuild"} /\ p.ok => ~p.known
    /\ p.kind = "undecodable" => Illegible(p.url, l)
    /\ ListsCategories(p) /\ ListsResults(p) /\ ListsPackages(p) /\ ListsAllResults(p)

\* The invariant that each step of the site keeps.
Inv == SiteOK /\ RequestOK /\ Fits(page, log)

LEMMA SiteStays ==
    ASSUME SiteOK, UNCHANGED <<log, process>>
    PROVE  SiteOK'
BY DEF SiteOK, RoutesOK, FixedRoutes, process, PanicsExplained

\* A page that fits the tables fits later ones.
LEMMA FitsLater ==
    ASSUME NEW p, NEW l, NEW m, Fits(p, l), Within(l, m)
    PROVE  Fits(p, m)
<1>1. Links(l) \subseteq Links(m) /\ GetCategories(l) \subseteq GetCategories(m)
  BY PkgsStay
<1> QED
  BY <1>1 DEF Fits, Illegible

\* A page of a kind that lists nothing in particular, or with an error.
LEMMA FitsPlainly ==
    ASSUME NEW p, NEW l, p.links \subseteq Links(l),
           p.kind \notin {"start", "build", "list", "dirs", "results", "undecodable"},
           p.kind \in {"notFound", "other", "noBuild"} /\ p.ok => ~p.known
    PROVE  Fits(p, l)
BY DEF Fits, ListsCategories, ListsResults, ListsPackages, ListsAllResults

\* A page that fits is as the properties of Site say.
LEMMA FittingPages ==
    ASSUME Tables(log), Fits(page, log)
    PROVE  NoDeadLinks /\ PagesComplete /\ PackagesReachable
<1>1. GetCategories(log) \subseteq Seq(STRING)
  BY CategoriesAreNames
<1>2. NoDeadLinks
  BY DEF Fits, NoDeadLinks
<1>3. PagesComplete
  BY <1>1 DEF Fits, PagesComplete, ListsCategories, ListsResults
<1>4. PackagesReachable
  BY DEF Fits, PackagesReachable, Illegible, ListsPackages, ListsAllResults
<1> QED
  BY <1>2, <1>3, <1>4

-----------------------------------------------------------------------------
(* Requests.                                                               *)

\* The root is the start page.
LEMMA RootIsStart ==
    ASSUME RoutesOK, NEW v, v.build = 0, v.path = <<>>, v.slash
    PROVE  Handler(v) = "start"
<1>1. <<>> \notin routes
  BY DEF RoutesOK, FixedRoutes
<1>2. <<>> \in Matching(v)
  <2>1. IsPrefix(<<>>, <<>>)
    BY DEF IsPrefix
  <2> QED
    BY <2>1 DEF Matching, FixedRoutes
<1>3. \A r \in Matching(v) : r \notin routes
  <2> SUFFICES ASSUME NEW r \in routes, IsPrefix(r, <<>>) PROVE FALSE
    BY DEF Matching
  <2>1. r \in Seq(STRING) /\ Len(r) <= 0
    BY DEF RoutesOK, IsPrefix
  <2>2. r = <<>>
    BY <2>1
  <2> QED
    BY <1>1, <2>2
<1>4. \A r \in Matching(v) : r = <<>>
  <2> SUFFICES ASSUME NEW r \in FixedRoutes, IsPrefix(r, <<>>) PROVE r = <<>>
    BY <1>3 DEF Matching
  <2>1. ASSUME NEW m \in Reserved, r = <<m>> PROVE FALSE
    BY <2>1 DEF IsPrefix
  <2> QED
    BY <2>1 DEF FixedRoutes
<1>5. Route(v) = <<>>
  <2> DEFINE r0 == CHOOSE q \in Matching(v) : \A s \in Matching(v) : Len(s) <= Len(q)
  <2>1. r0 \in Matching(v)
    BY <1>2, <1>4
  <2> QED
    BY <1>4, <2>1 DEF Route
<1> QED
  BY <1>1, <1>5 DEF Handler

\* Where a link that was known at the last start leads to.
LEMMA KnownLinks ==
    ASSUME SiteOK, server = "up", NEW u \in Links(before)
    PROVE  /\ Handler(Redirected(u)) \notin {"notFound", "other"}
           /\ Handler(Redirected(u)) = "build" => Redirected(u).build \in DOMAIN log
<1>0. RoutesOK /\ routes = GetCategories(before)
  BY DEF SiteOK
<1> DEFINE v == Redirected(u)
<1>1. ASSUME u.build # 0, u.build \in DOMAIN log
      PROVE  Handler(v) = "build" /\ v.build \in DOMAIN log
  BY <1>1 DEF Redirected, Handler
<1>2. CASE u = Home
  <2>1. v.path = <<>> /\ v.build = 0 /\ v.slash
    BY <1>2 DEF Redirected, Home, Url
  <2> QED
    BY <1>0, <2>1, RootIsStart
<1>3. ASSUME NEW b \in DOMAIN before, u = BuildUrl(b)
      PROVE  u.build # 0 /\ u.build \in DOMAIN log
  <2>1. b \in DOMAIN log /\ b # 0
    BY EntryIs DEF SiteOK, Within
  <2> QED
    BY <1>3, <2>1 DEF BuildUrl, Url
<1>4. ASSUME NEW b \in DOMAIN before, NEW c, u = BuildCategoryUrl(b, c)
      PROVE  u.build # 0 /\ u.build \in DOMAIN log
  <2>1. b \in DOMAIN log /\ b # 0
    BY EntryIs DEF SiteOK, Within
  <2> QED
    BY <1>4, <2>1 DEF BuildCategoryUrl, Url
<1>5. ASSUME u.build = 0, u.path \in Seq(STRING), NEW c \in routes, IsPrefix(c, u.path),
             u.slash \/ c # u.path
      PROVE  Handler(v) \in {"results", "dirs"}
  <2>1. v.build = 0 /\ v.path = u.path /\ (v.slash \/ c # v.path)
    BY <1>5 DEF Redirected, Url
  <2>2. Route(v) \in routes
    BY <1>0, <1>5, <2>1, CategoryIsRouted
  <2> QED
    BY <2>1, <2>2 DEF Handler
<1>6. ASSUME NEW p \in Pkgs(before), u \in {PkgUrl(p), SearchUrl(p)}
      PROVE  Handler(v) \in {"results", "dirs"}
  <2>1. p \in [category : Seq(STRING), dir : STRING]
    BY PkgsFromReports, PathAssumption DEF SiteOK
  <2>2. p.category \in routes /\ p.category \in Seq(STRING) /\ p.dir \in STRING
    BY <1>0, <2>1 DEF GetCategories
  <2>3. u.build = 0 /\ u.path = Append(p.category, p.dir)
    BY <1>6, SearchUrlIs DEF PkgUrl, Url
  <2>4. u.path \in Seq(STRING) /\ IsPrefix(p.category, u.path) /\ p.category # u.path
    <3> DEFINE q == Append(p.category, p.dir)
    <3>1. q \in Seq(STRING) /\ IsPrefix(p.category, q) /\ p.category # q
      BY <2>2, PrefixOfLonger
    <3> HIDE DEF q
    <3> QED
      BY <2>3, <3>1 DEF q
  <2> QED
    BY <1>5, <2>2, <2>3, <2>4
<1>7. ASSUME NEW c \in GetCategories(before), u = CategoryUrl(c)
      PROVE  Handler(v) \in {"results", "dirs"}
  <2>1. c \in routes /\ c \in Seq(STRING)
    BY <1>0 DEF RoutesOK
  <2>2. u.build = 0 /\ u.path = c /\ u.slash
    BY <1>7 DEF CategoryUrl, Url
  <2>3. IsPrefix(c, c)
    BY <2>1, PrefixOfItself
  <2> QED
    BY <1>5, <2>1, <2>2, <2>3
<1> QED
  BY <1>1, <1>2, <1>3, <1>4, <1>6, <1>7 DEF Links

\* What a link is, and a redirection of one.
LEMMA LinkIs ==
    ASSUME NEW l, Tables(l), NEW u \in Links(l)
    PROVE  UrlOK(u, l, l)
<1>1. CASE u = Home
  BY <1>1 DEF UrlOK, Home, Url, FixedRoutes
<1>2. ASSUME NEW b \in DOMAIN l, u = BuildUrl(b) PROVE UrlOK(u, l, l)
  <2>1. b # 0
    BY EntryIs
  <2> QED
    BY <1>2, <2>1 DEF UrlOK, BuildUrl, Url
<1>3. ASSUME NEW b \in DOMAIN l, NEW c, u = BuildCategoryUrl(b, c) PROVE UrlOK(u, l, l)
  <2>1. b # 0
    BY EntryIs
  <2> QED
    BY <1>3, <2>1 DEF UrlOK, BuildCategoryUrl, Url
<1>4. ASSUME NEW p \in Pkgs(l), u \in {PkgUrl(p), SearchUrl(p)} PROVE UrlOK(u, l, l)
  <2>1. u.build = 0 /\ ~u.slash
    BY <1>4, SearchUrlIs DEF PkgUrl, Url
  <2> QED
    BY <1>4, <2>1 DEF UrlOK
<1>5. ASSUME NEW c \in GetCategories(l), u = CategoryUrl(c) PROVE UrlOK(u, l, l)
  BY <1>5 DEF UrlOK, CategoryUrl, Url
<1> QED
  BY <1>1, <1>2, <1>3, <1>4, <1>5 DEF Links

LEMMA RedirectedIs ==
    ASSUME SiteOK, NEW u, UrlOK(u, log, log)
    PROVE  UrlOK(Redirected(u), log, log)
<1>1. routes \subseteq GetCategories(log)
  <2>1. GetCategories(before) \subseteq GetCategories(log)
    BY PkgsStay DEF SiteOK
  <2> QED
    BY <2>1 DEF SiteOK
<1>2. CASE u.build = 0 /\ u.path \in FixedRoutes \cup routes
  <2> DEFINE v == Url(0, u.path, TRUE)
  <2>1. Redirected(u) = v
    BY <1>2 DEF Redirected
  <2>2. v.build = 0 /\ v.path = u.path /\ v.slash
    BY <1>2 DEF Url
  <2> HIDE DEF v
  <2> QED
    BY <1>1, <1>2, <2>1, <2>2 DEF UrlOK
<1>3. CASE ~(u.build = 0 /\ u.path \in FixedRoutes \cup routes)
  BY <1>3 DEF Redirected
<1> QED
  BY <1>2, <1>3

\* What the handlers of categories and builds are asked for.
LEMMA HandlerIs ==
    ASSUME RoutesOK, NEW u
    PROVE  LET v == Redirected(u)
               h == Handler(v)
           IN /\ h \in {"build", "results", "dirs", "other", "notFound", "start"}
              /\ h = "dirs" => v.build = 0 /\ v.path # <<>> /\ ~(Len(v.path) > 1)
              /\ h = "results" => v.build = 0 /\ Len(v.path) > 1
              /\ h = "build" => v.build # 0
<1> DEFINE v == Redirected(u)
<1>1. v.build = 0 /\ v.path = <<>> => v.slash
  BY DEF Redirected, FixedRoutes, Url
<1>2. v.build = 0 /\ v.path = <<>> => Handler(v) = "start"
  BY <1>1, RootIsStart
<1> HIDE DEF v
<1>3. /\ Handler(v) \in {"build", "results", "dirs", "other", "notFound", "start"}
      /\ Handler(v) = "dirs" => v.build = 0 /\ ~(Len(v.path) > 1)
      /\ Handler(v) = "results" => v.build = 0 /\ Len(v.path) > 1
      /\ Handler(v) = "build" => v.build # 0
  BY DEF Handler
<1> QED
  BY <1>2, <1>3 DEF v

\* A request for a link of the page.
LEMMA OpenInv ==
    ASSUME Inv, NEW u \in page.links \cup {Home}, Open(u)
    PROVE  Inv'
<1> DEFINE v == Redirected(u)
           h == Handler(v)
<1>1. /\ server = "up" /\ UNCHANGED <<log, process, page>>
      /\ req' = [NoRequest EXCEPT !.stage = h, !.url = v,
                                  !.asked = log, !.known = u \in Links(before)]
  BY DEF Open
<1>2. /\ h \in {"build", "results", "dirs", "other", "notFound", "start"}
      /\ h = "dirs" => v.build = 0 /\ v.path # <<>> /\ ~(Len(v.path) > 1)
      /\ h = "results" => v.build = 0 /\ Len(v.path) > 1
      /\ h = "build" => v.build # 0
  BY HandlerIs DEF Inv, SiteOK
<1>3. UrlOK(v, log, log)
  <2>1. u \in Links(log)
    BY DEF Inv, Fits, Links
  <2> QED
    BY <2>1, LinkIs, RedirectedIs DEF Inv, SiteOK
<1>4. u \in Links(before) => h \notin {"notFound", "other"} /\ (h = "build" => v.build \in DOMAIN log)
  BY <1>1, KnownLinks DEF Inv
<1> HIDE DEF v, h
<1>5. /\ req'.known = (u \in Links(before)) /\ req'.stage = h /\ req'.url = v
      /\ req'.asked = log /\ req'.ok = TRUE
  BY <1>1 DEF NoRequest
<1>6. RequestOK'
  <2>1. Tables(log) /\ Within(log, log) /\ log' = log
    BY <1>1, WithinItself DEF Inv, SiteOK
  <2> QED
    BY <1>2, <1>3, <1>4, <1>5, <2>1 DEF RequestOK
<1>7. SiteOK'
  BY <1>1, SiteStays DEF Inv
<1>8. Fits(page, log)'
  BY <1>1 DEF Inv
<1> QED
  BY <1>6, <1>7, <1>8 DEF Inv
-----------------------------------------------------------------------------
(* Pages.                                                                  *)

\* No request is waited for.
LEMMA NoRequestOK ==
    ASSUME req' = NoRequest
    PROVE  RequestOK'
<1>1. /\ req'.asked = <<>> /\ req'.ok = TRUE /\ req'.stage = "idle" /\ req'.known = FALSE
  BY DEF NoRequest
<1>2. Tables(<<>>) /\ Within(<<>>, log')
  BY TablesEmpty, WithinEmpty
<1> QED
  BY <1>1, <1>2 DEF RequestOK

\* A page that fits is shown.
LEMMA ShowInv ==
    ASSUME Inv, UNCHANGED <<log, process>>, NEW p, Show(p), Fits(p, log)
    PROVE  Inv'
<1>1. SiteOK' /\ RequestOK' /\ page' = p /\ log' = log
  BY SiteStays, NoRequestOK DEF Inv, Show
<1> QED
  BY <1>1 DEF Inv

\* The parts of a page.
LEMMA PageIs ==
    ASSUME NEW kind, NEW links, NEW rows, NEW ok
    PROVE  LET p == Page(kind, links, rows, ok)
           IN /\ p.kind = kind /\ p.url = req.url /\ p.links = links /\ p.rows = rows
              /\ p.asked = req.asked /\ p.known = req.known /\ p.ok = (ok /\ req.ok)
BY DEF Page

\* What the tables had at the request they still have.
LEMMA AskedStays ==
    ASSUME Inv
    PROVE  /\ GetCategories(req.asked) \subseteq GetCategories(log)
           /\ Pkgs(req.asked) \subseteq Pkgs(log) /\ DOMAIN req.asked \subseteq DOMAIN log
           /\ Rows(req.asked, DOMAIN req.asked) \subseteq Rows(log, DOMAIN log)
<1>1. Within(req.asked, log)
  BY DEF Inv, RequestOK
<1>2. DOMAIN req.asked \subseteq DOMAIN log
  BY <1>1 DEF Within
<1>3. Rows(req.asked, DOMAIN req.asked) \subseteq Rows(log, DOMAIN req.asked)
  BY <1>1, RowsStay
<1>4. Rows(log, DOMAIN req.asked) \subseteq Rows(log, DOMAIN log)
  BY <1>2 DEF Rows
<1> QED
  BY <1>1, <1>2, <1>3, <1>4, PkgsStay

\* A list without an error is the whole one.
LEMMA ItemsAre ==
    ASSUME NEW all, NEW got \in Items(all)
    PROVE  got.list \subseteq all /\ got.ok \in BOOLEAN /\ (got.ok => got.list = all)
<1>1. CASE got = [list |-> all, ok |-> TRUE]
  BY <1>1
<1>2. CASE got = [list |-> {}, ok |-> FALSE]
  BY <1>2
<1> QED
  BY <1>1, <1>2 DEF Items

LEMMA NotFoundInv ==
    ASSUME Inv, NotFound
    PROVE  Inv'
<1>1. PICK s \in {"notFound", "other"} : AtStage(s) /\ Show(Page(s, {}, {}, TRUE))
  BY DEF NotFound
<1> DEFINE p == Page(s, {}, {}, TRUE)
<1>2. p.kind = s /\ p.links = {} /\ p.known = req.known
  BY DEF Page
<1>3. ~req.known
  BY <1>1 DEF AtStage, Inv, RequestOK
<1>4. Show(p) /\ UNCHANGED <<log, process>>
  BY <1>1 DEF AtStage
<1> HIDE DEF p
<1>5. Fits(p, log)
  BY <1>2, <1>3, FitsPlainly
<1> QED
  BY <1>4, <1>5, ShowInv

\* The categories are there at the request, and at the statement.
LEMMA StartCategoriesInv ==
    ASSUME Inv, StartCategories
    PROVE  Inv'
<1>1. PICK got \in Items(GetCategories(log)) :
          req' = [req EXCEPT !.stage = "latest", !.found = got.list, !.ok = got.ok]
  BY DEF StartCategories
<1>2. req.stage = "start" /\ UNCHANGED <<log, process, page>>
  BY DEF StartCategories, AtStage
<1>3. /\ req'.stage = "latest" /\ req'.found = got.list /\ req'.ok = got.ok
      /\ req'.asked = req.asked /\ req'.url = req.url /\ req'.known = req.known
  BY <1>1
<1>4. got.list \subseteq GetCategories(log) /\ got.ok \in BOOLEAN
        /\ (got.ok => got.list = GetCategories(log))
  BY ItemsAre
<1>5. GetCategories(req.asked) \subseteq GetCategories(log)
  BY AskedStays
<1>6. RequestOK'
  BY <1>2, <1>3, <1>4, <1>5 DEF Inv, RequestOK
<1>7. SiteOK' /\ Fits(page, log)'
  BY <1>2, SiteStays DEF Inv
<1> QED
  BY <1>6, <1>7 DEF Inv

LEMMA StartBuildsInv ==
    ASSUME Inv, StartBuilds
    PROVE  Inv'
<1>1. PICK got \in Items(DOMAIN log) :
          Show(Page("start", {CategoryUrl(c) : c \in req.found} \cup {BuildUrl(b) : b \in got.list},
                    {}, got.ok))
  BY DEF StartBuilds
<1> DEFINE links == {CategoryUrl(c) : c \in req.found} \cup {BuildUrl(b) : b \in got.list}
           p == Page("start", links, {}, got.ok)
<1>2. req.stage = "latest" /\ UNCHANGED <<log, process>>
  BY DEF StartBuilds, AtStage
<1>3. /\ req.found \subseteq GetCategories(log)
      /\ req.ok => GetCategories(req.asked) \subseteq req.found
  BY <1>2 DEF Inv, RequestOK
<1>4. links \subseteq Links(log)
  <2>1. got.list \subseteq DOMAIN log
    BY ItemsAre
  <2> QED
    BY <1>3, <2>1 DEF Links
<1>5. req.ok => \A c \in GetCategories(req.asked) : CategoryUrl(c) \in links
  BY <1>3
<1> HIDE DEF links
<1>6. p.kind = "start" /\ p.links = links /\ p.asked = req.asked /\ p.ok = (got.ok /\ req.ok)
  BY PageIs
<1>7. Show(p)
  BY <1>1 DEF links
<1> HIDE DEF p
<1>8. Fits(p, log)
  BY <1>4, <1>5, <1>6
     DEF Fits, ListsCategories, ListsResults, ListsPackages, ListsAllResults
<1> QED
  BY <1>2, <1>7, <1>8, ShowInv

LEMMA GetBuildInv ==
    ASSUME Inv, GetBuild
    PROVE  Inv'
<1>1. req.stage = "build" /\ UNCHANGED <<log, process>>
  BY DEF GetBuild, AtStage
<1>2. CASE req' = [req EXCEPT !.stage = "details"] /\ UNCHANGED page
  <2>1. /\ req'.stage = "details" /\ req'.ok = req.ok
        /\ req'.asked = req.asked /\ req'.url = req.url /\ req'.known = req.known
    BY <1>2
  <2>2. RequestOK'
    BY <1>1, <2>1 DEF Inv, RequestOK
  <2>3. SiteOK' /\ Fits(page, log)'
    BY <1>1, <1>2, SiteStays DEF Inv
  <2> QED
    BY <2>2, <2>3 DEF Inv
<1>3. CASE Show(Page("noBuild", {}, {}, req.url.build \notin DOMAIN log))
  <2> DEFINE ok == req.url.build \notin DOMAIN log
             p == Page("noBuild", {}, {}, ok)
  <2>1. ok => ~req.known
    BY <1>1 DEF Inv, RequestOK
  <2>2. p.kind = "noBuild" /\ p.links = {} /\ p.known = req.known /\ p.ok = (ok /\ req.ok)
    BY DEF Page
  <2>3. Show(p)
    BY <1>3
  <2> HIDE DEF p, ok
  <2>4. Fits(p, log)
    BY <2>1, <2>2, FitsPlainly
  <2> QED
    BY <1>1, <2>3, <2>4, ShowInv
<1> QED
  BY <1>2, <1>3 DEF GetBuild

\* The build page offers all categories for the build.
LEMMA BuildPageInv ==
    ASSUME Inv, BuildPage
    PROVE  Inv'
<1> DEFINE b == req.url.build
<1>1. req.stage = "details" /\ UNCHANGED <<log, process>>
  BY DEF BuildPage, AtStage
<1>2. PICK got \in Items(GetCategories(log)) :
          Show(Page("build", {BuildCategoryUrl(b, c) : c \in got.list}, {}, got.ok))
  BY DEF BuildPage
<1> DEFINE links == {BuildCategoryUrl(b, c) : c \in got.list}
           p == Page("build", links, {}, got.ok)
<1>3. b \in DOMAIN log
  <2>1. b \in DOMAIN req.asked
    BY <1>1 DEF Inv, RequestOK, UrlOK
  <2> QED
    BY <2>1, AskedStays
<1>4. got.list \subseteq GetCategories(log) /\ (got.ok => got.list = GetCategories(log))
  BY ItemsAre
<1>5. links \subseteq Links(log)
  BY <1>3, <1>4 DEF Links
<1>6. got.ok => \A c \in GetCategories(req.asked) : BuildCategoryUrl(b, c) \in links
  BY <1>4, AskedStays
<1> HIDE DEF links
<1>7. /\ p.kind = "build" /\ p.links = links /\ p.asked = req.asked /\ p.ok = (got.ok /\ req.ok)
      /\ p.url.build = b
  BY PageIs
<1>8. Show(p)
  BY <1>2 DEF links
<1> HIDE DEF p, b
<1>9. Fits(p, log)
  BY <1>5, <1>6, <1>7
     DEF Fits, ListsCategories, ListsResults, ListsPackages, ListsAllResults
<1> QED
  BY <1>1, <1>8, <1>9, ShowInv

\* A build's page of a category: if it is of one name, that is the one asked for.
LEMMA BuildCategoryPageInv ==
    ASSUME Inv, BuildCategoryPage
    PROVE  Inv'
<1> DEFINE b == req.url.build
           f == FirstName(req.url)
<1>1. req.stage = "details" /\ UNCHANGED <<log, process>>
  BY DEF BuildCategoryPage, AtStage
<1>2. PICK got \in Items(GetResultsInCategory(log, b, f)) : Show(Page("list", {}, got.list, got.ok))
  BY DEF BuildCategoryPage
<1> DEFINE p == Page("list", {}, got.list, got.ok)
<1>3. b \in DOMAIN req.asked /\ Within(req.asked, log)
  BY <1>1 DEF Inv, RequestOK, UrlOK
<1>4. Rows(req.asked, {b}) \subseteq Rows(log, {b})
  BY <1>3, RowsStay
<1>5. ASSUME NEW c \in Seq(STRING), Plain(c), req.url = BuildCategoryUrl(b, c), got.ok
      PROVE  /\ GetResultsInCategory(req.asked, b, c) \subseteq got.list
             /\ \A row \in got.list : row[1] = b /\ PathOf(row).category = c
  <2>1. req.url.path = c
    BY <1>5 DEF BuildCategoryUrl, Url
  <2>2. c # <<>> /\ <<c[1]>> = c
    <3>1. Len(c) = 1
      BY <1>5 DEF Plain
    <3> QED
      BY <3>1, OneName
  <2>3. f = c
    BY <2>1, <2>2 DEF FirstName
  <2>4. got.list = GetResultsInCategory(log, b, c)
    BY <1>5, <2>3, ItemsAre
  <2> HIDE DEF b, f
  <2> QED
    BY <1>4, <2>4 DEF GetResultsInCategory, Rows
<1>6. /\ p.kind = "list" /\ p.links = {} /\ p.asked = req.asked /\ p.ok = (got.ok /\ req.ok)
      /\ p.url = req.url /\ p.rows = got.list
  BY PageIs
<1>7. Show(p)
  BY <1>2
<1> HIDE DEF p, f
<1>8. ListsResults(p)
  BY <1>5, <1>6 DEF ListsResults
<1>9. Fits(p, log)
  BY <1>6, <1>8 DEF Fits, ListsCategories, ListsPackages, ListsAllResults
<1> QED
  BY <1>1, <1>7, <1>9, ShowInv

\* A category's page: its handler is given a URL of one name only.
LEMMA DirsPageInv ==
    ASSUME Inv, DirsPage
    PROVE  Inv'
<1> DEFINE f == FirstName(req.url)
<1>1. req.stage = "dirs" /\ UNCHANGED <<log, process>>
  BY DEF DirsPage, AtStage
<1>2. PICK got \in Items(GetPkgsInCategory(log, f)) :
          Show(Page("dirs", {PkgUrl([category |-> f, dir |-> d]) : d \in got.list}, {}, got.ok))
  BY DEF DirsPage
<1> DEFINE links == {PkgUrl([category |-> f, dir |-> d]) : d \in got.list}
           p == Page("dirs", links, {}, got.ok)
<1>3. got.list \subseteq GetPkgsInCategory(log, f) /\ (got.ok => got.list = GetPkgsInCategory(log, f))
  BY ItemsAre
<1>4. links \subseteq Links(log)
  <2> SUFFICES ASSUME NEW d \in got.list PROVE PkgUrl([category |-> f, dir |-> d]) \in Links(log)
    OBVIOUS
  <2>1. PICK q \in Pkgs(log) : q.category = f /\ q.dir = d
    BY <1>3 DEF GetPkgsInCategory
  <2>2. PkgUrl([category |-> f, dir |-> d]) = PkgUrl(q)
    BY <2>1 DEF PkgUrl
  <2> QED
    BY <2>2 DEF Links
<1>5. ASSUME got.ok, NEW q \in Pkgs(req.asked), CategoryUrl(q.category) = req.url
      PROVE  PkgUrl(q) \in links
  <2>1. q \in Pkgs(log) /\ q.category = req.url.path
    BY <1>5, AskedStays DEF CategoryUrl, Url
  <2>2. q \in [category : Seq(STRING), dir : STRING]
    BY <2>1, PkgsFromReports, PathAssumption DEF Inv, SiteOK
  <2>3. q.category # <<>> /\ ~(Len(q.category) > 1)
    BY <1>1, <2>1 DEF Inv, RequestOK
  <2>4. q.category = <<q.category[1]>>
    BY <2>2, <2>3
  <2>5. q.category = f
    BY <2>1, <2>3, <2>4 DEF FirstName
  <2>6. q.dir \in got.list
    BY <1>3, <1>5, <2>1, <2>5 DEF GetPkgsInCategory
  <2>7. PkgUrl([category |-> f, dir |-> q.dir]) = PkgUrl(q)
    BY <2>5 DEF PkgUrl
  <2> QED
    BY <2>6, <2>7
<1> HIDE DEF links
<1>6. /\ p.kind = "dirs" /\ p.links = links /\ p.asked = req.asked /\ p.ok = (got.ok /\ req.ok)
      /\ p.url = req.url
  BY PageIs
<1>7. Show(p)
  BY <1>2 DEF links
<1> HIDE DEF p, f
<1>8. ListsPackages(p)
  BY <1>5, <1>6 DEF ListsPackages
<1>9. Fits(p, log)
  BY <1>4, <1>6, <1>8 DEF Fits, ListsCategories, ListsResults, ListsAllResults
<1> QED
  BY <1>1, <1>7, <1>9, ShowInv

\* The URL of a package tells which one it is.
LEMMA PkgUrlIs ==
    ASSUME NEW q \in [category : Seq(STRING), dir : STRING], NEW path,
           Len(path) = 2, PkgUrl(q).path = path
    PROVE  q = [category |-> <<path[1]>>, dir |-> path[2]]
<1>1. path = Append(q.category, q.dir) /\ q.category \in Seq(STRING) /\ q.dir \in STRING
  BY DEF PkgUrl, Url
<1>2. Len(q.category) \in Nat /\ Len(path) = Len(q.category) + 1
  BY <1>1, AppendProperties
<1>3. Len(q.category) = 1
  <2> DEFINE k == Len(q.category)
  <2>1. k \in Nat /\ k + 1 = 2
    BY <1>2
  <2> HIDE DEF k
  <2>2. k = 1
    BY <2>1
  <2> QED
    BY <2>2 DEF k
<1>4. path[2] = q.dir /\ path[1] = q.category[1]
  BY <1>1, <1>3, AppendProperties
<1>5. q.category = <<q.category[1]>>
  BY <1>1, <1>3
<1>6. q.category = <<path[1]>>
  BY <1>4, <1>5
<1> QED
  BY <1>4, <1>6

LEMMA PkgResultsPageInv ==
    ASSUME Inv, PkgResultsPage
    PROVE  Inv'
<1> DEFINE path == req.url.path
           q == [category |-> <<path[1]>>, dir |-> path[2]]
<1>1. req.stage = "results" /\ UNCHANGED <<log, process>>
  BY DEF PkgResultsPage, AtStage
<1>2. UrlOK(req.url, req.asked, log) /\ req.url.build = 0
  BY <1>1 DEF Inv, RequestOK
<1>3. CASE Decodes(req.url)
  <2>0. Len(path) = 2 /\ ~req.url.slash /\ ~req.url.escaped
    BY <1>3 DEF Decodes
  <2>1. FirstName(req.url) = <<path[1]>>
    <3>1. path # <<>>
      BY <2>0, ShortLengths
    <3> QED
      BY <3>1 DEF FirstName
  <2>2. PICK got \in Items(GetAllPkgResults(log, <<path[1]>>, path[2])) :
            Show(Page("results", {}, got.list, got.ok))
    BY <1>3, <2>1 DEF PkgResultsPage
  <2> DEFINE p == Page("results", {}, got.list, got.ok)
  <2>3. got.ok => got.list = {row \in Rows(log, DOMAIN log) : PathOf(row) = q}
    BY ItemsAre DEF GetAllPkgResults
  <2>4. PICK r \in Pkgs(log) : req.url = PkgUrl(r)
    BY <1>2, <2>0, SearchUrlIs DEF UrlOK
  <2>5. ASSUME NEW s \in Pkgs(log), PkgUrl(s) = req.url PROVE s = q
    <3>1. s \in [category : Seq(STRING), dir : STRING]
      BY PkgsFromReports, PathAssumption DEF Inv, SiteOK
    <3>2. PkgUrl(s).path = path
      BY <2>5
    <3> QED
      BY <2>0, <3>1, <3>2, PkgUrlIs
  <2>6. r = q
    BY <2>4, <2>5
  <2>7. got.ok => got.list # {} /\ \A row \in got.list : PkgUrl(PathOf(row)) = req.url
    <3>1. \E row \in Rows(log, DOMAIN log) : PathOf(row) = q
      BY <2>6, RowsAndPkgs
    <3>2. PkgUrl(q) = req.url
      BY <2>4, <2>6
    <3> HIDE DEF q
    <3> QED
      BY <2>3, <3>1, <3>2
  <2>8. got.ok => {row \in Rows(req.asked, DOMAIN req.asked) : PkgUrl(PathOf(row)) = req.url}
                      \subseteq got.list
    <3>1. ASSUME NEW row \in Rows(req.asked, DOMAIN req.asked), PkgUrl(PathOf(row)) = req.url
          PROVE  row \in Rows(log, DOMAIN log) /\ PathOf(row) = q
      <4>1. row \in Rows(log, DOMAIN log)
        BY AskedStays
      <4>2. PathOf(row) \in Pkgs(log)
        BY <4>1, RowsAndPkgs
      <4> QED
        BY <2>5, <3>1, <4>1, <4>2
    <3> HIDE DEF q
    <3> QED
      BY <2>3, <3>1
  <2>9. /\ p.kind = "results" /\ p.links = {} /\ p.asked = req.asked /\ p.ok = (got.ok /\ req.ok)
        /\ p.url = req.url /\ p.rows = got.list
    BY PageIs
  <2>10. Show(p)
    BY <2>2
  <2> HIDE DEF p
  <2>11. ListsAllResults(p)
    BY <2>7, <2>8, <2>9 DEF ListsAllResults
  <2>12. Fits(p, log)
    BY <2>9, <2>11 DEF Fits, ListsCategories, ListsResults, ListsPackages
  <2> QED
    BY <1>1, <2>10, <2>12, ShowInv
<1>4. CASE ~Decodes(req.url)
  <2> DEFINE p == Page("undecodable", {}, {}, TRUE)
  <2>1. Illegible(req.url, log)
    <3>1. CASE Len(path) # 2 \/ ~(ToSet(path) \subseteq Readable)
      BY <3>1 DEF Illegible
    <3>2. CASE req.url.slash /\ Len(path) = 2
      <4>1. path \in FixedRoutes \cup GetCategories(log)
        BY <1>2, <3>2 DEF UrlOK
      <4>2. ASSUME path = <<>> PROVE FALSE
        BY <3>2, <4>2, ShortLengths
      <4>3. ASSUME NEW m \in Reserved, path = <<m>> PROVE FALSE
        BY <3>2, <4>3, ShortLengths
      <4> QED
        BY <4>1, <4>2, <4>3 DEF FixedRoutes, Illegible
    <3>3. CASE req.url.escaped /\ ~req.url.slash
      <4>1. PICK r \in Pkgs(log) : req.url \in {PkgUrl(r), SearchUrl(r)}
        BY <1>2, <3>3 DEF UrlOK
      <4>2. req.url = SearchUrl(r)
        BY <3>3, <4>1 DEF PkgUrl, Url
      <4> QED
        BY <3>3, <4>2, SearchUrlIs DEF Illegible
    <3> QED
      BY <1>4, <3>1, <3>2, <3>3 DEF Decodes
  <2>2. p.kind = "undecodable" /\ p.links = {} /\ p.url = req.url
    BY DEF Page
  <2>3. Show(p)
    BY <1>4 DEF PkgResultsPage
  <2> HIDE DEF p
  <2>4. Fits(p, log)
    BY <2>1, <2>2 DEF Fits, ListsCategories, ListsResults, ListsPackages, ListsAllResults
  <2> QED
    BY <1>1, <2>3, <2>4, ShowInv
<1> QED
  BY <1>3, <1>4
\* The search field offers packages that are there.
LEMMA AutocompleteInv ==
    ASSUME Inv, NEW name, Autocomplete(name)
    PROVE  Inv'
<1>1. PICK got \in Items(GetAllPkgsMatching(log, name)) :
          page' = [page EXCEPT !.kind = "search", !.links = {SearchUrl(p) : p \in got.list}]
  BY DEF Autocomplete
<1>2. UNCHANGED <<log, process, req>>
  BY DEF Autocomplete
<1> DEFINE links == {SearchUrl(p) : p \in got.list}
<1>3. links \subseteq Links(log)
  <2>1. got.list \subseteq Pkgs(log)
    BY ItemsAre DEF GetAllPkgsMatching
  <2> QED
    BY <2>1 DEF Links
<1> HIDE DEF links
<1>4. page'.kind = "search" /\ page'.links = links
  BY <1>1 DEF links
<1>5. Fits(page', log)
  BY <1>3, <1>4, FitsPlainly
<1>6. SiteOK' /\ RequestOK'
  BY <1>2, SiteStays DEF Inv, RequestOK
<1> QED
  BY <1>2, <1>5, <1>6 DEF Inv

-----------------------------------------------------------------------------
(* The server and the tables.                                              *)

\* What a request relies on is there in later tables, too.
LEMMA UrlLater ==
    ASSUME NEW u, NEW a, NEW l, NEW m, UrlOK(u, a, l), Within(l, m)
    PROVE  UrlOK(u, a, m)
<1>1. Pkgs(l) \subseteq Pkgs(m) /\ GetCategories(l) \subseteq GetCategories(m)
  BY PkgsStay
<1> QED
  BY <1>1 DEF UrlOK

LEMMA IngestInv ==
    ASSUME Inv, Ingest
    PROVE  Inv'
<1>1. UNCHANGED <<process, reader>> /\ Log!Next
  BY DEF Ingest
<1>2. Tables(log') /\ Within(log, log')
  BY <1>1, LogGrows DEF Inv, SiteOK
<1>3. GetCategories(log) \subseteq GetCategories(log')
  BY <1>2, PkgsStay
<1>4. SiteOK'
  <2>1. Within(before, log')
    BY <1>2, WithinLater DEF Inv, SiteOK
  <2>2. PanicsExplained'
    BY <1>1, <1>3 DEF Inv, SiteOK, PanicsExplained, FixedRoutes, process
  <2> QED
    BY <1>1, <1>2, <2>1, <2>2 DEF Inv, SiteOK, RoutesOK, FixedRoutes, process
<1>5. RequestOK'
  <2>1. Within(req.asked, log')
    BY <1>2, WithinLater DEF Inv, RequestOK
  <2>2. req.stage # "idle" => UrlOK(req.url, req.asked, log')
    BY <1>2, UrlLater DEF Inv, RequestOK
  <2>3. DOMAIN log \subseteq DOMAIN log'
    BY <1>2 DEF Within
  <2> QED
    BY <1>1, <1>3, <2>1, <2>2, <2>3 DEF Inv, RequestOK, reader
<1>6. Fits(page, log)'
  <2>1. page' = page /\ Fits(page, log')
    BY <1>1, <1>2, FitsLater DEF Inv, reader
  <2> QED
    BY <2>1
<1> QED
  BY <1>4, <1>5, <1>6 DEF Inv

\* mux.Handle is given each category once, so it panics only at a pattern of
\* the site's own.
LEMMA StartsInv ==
    ASSUME Inv, Start \/ StartPanics \/ StartWithoutCategories
    PROVE  Inv'
<1>1. UNCHANGED <<log, reader>> /\ starts' = starts + 1 /\ starts < MaxStarts
  BY DEF Start, StartPanics, StartWithoutCategories
<1>2. starts' \in 0..MaxStarts
  BY <1>1, BoundAssumption DEF Inv, SiteOK
<1>3. RequestOK' /\ Fits(page, log)'
  BY <1>1 DEF Inv, RequestOK, reader
<1>4. Tables(log) /\ Within(log, log) /\ Tables(<<>>) /\ Within(<<>>, log)
  BY TablesEmpty, WithinEmpty, WithinItself DEF Inv, SiteOK
<1>5. CASE Start
  <2>1. routes' = GetCategories(log) /\ \A c \in GetCategories(log) : c \notin FixedRoutes
    BY <1>5 DEF Start, Registers, CategoryRoute
  <2>2. RoutesOK'
    BY <1>4, <2>1, CategoriesAreNames DEF RoutesOK, FixedRoutes
  <2>3. before' = log /\ server' = "up" /\ panicked' = panicked
    BY <1>5 DEF Start
  <2>4. SiteOK'
    BY <1>1, <1>2, <1>4, <2>1, <2>2, <2>3 DEF Inv, SiteOK, PanicsExplained, FixedRoutes
  <2> QED
    BY <1>3, <2>4 DEF Inv
<1>6. CASE StartPanics
  <2>1. \E c \in GetCategories(log) : c \in FixedRoutes
    BY <1>6 DEF StartPanics, Registers, CategoryRoute
  <2>2. panicked' = TRUE /\ UNCHANGED <<server, routes, before>>
    BY <1>6 DEF StartPanics
  <2>3. SiteOK'
    BY <1>1, <1>2, <2>1, <2>2 DEF Inv, SiteOK, PanicsExplained, FixedRoutes, RoutesOK
  <2> QED
    BY <1>3, <2>3 DEF Inv
<1>7. CASE StartWithoutCategories
  <2>1. before' = <<>> /\ server' = "up" /\ routes' = {} /\ panicked' = panicked
    BY <1>7 DEF StartWithoutCategories
  <2>2. GetCategories(<<>>) = {}
    BY DEF GetCategories, Pkgs
  <2>3. SiteOK'
    BY <1>1, <1>2, <1>4, <2>1, <2>2 DEF Inv, SiteOK, PanicsExplained, FixedRoutes, RoutesOK
  <2> QED
    BY <1>3, <2>3 DEF Inv
<1> QED
  BY <1>5, <1>6, <1>7

LEMMA StopInv ==
    ASSUME Inv, Stop
    PROVE  Inv'
<1>1. /\ UNCHANGED <<log, starts, panicked, before, page>>
      /\ server' = "down" /\ routes' = {} /\ req' = NoRequest
  BY DEF Stop
<1>2. SiteOK'
  BY <1>1 DEF Inv, SiteOK, RoutesOK, PanicsExplained, FixedRoutes
<1>3. RequestOK' /\ Fits(page, log)'
  BY <1>1, NoRequestOK DEF Inv
<1> QED
  BY <1>2, <1>3 DEF Inv

-----------------------------------------------------------------------------
LEMMA InvariantInductive == Spec => []Inv
<1>1. Init => Inv
  <2> SUFFICES ASSUME Init PROVE Inv
    OBVIOUS
  <2>1. log = <<>> /\ Tables(<<>>) /\ Within(<<>>, <<>>)
    BY TablesEmpty, WithinEmpty DEF Init, Log!Init
  <2>2. SiteOK
    <3>1. /\ server = "down" /\ routes = {} /\ starts = 0 /\ panicked = FALSE /\ before = <<>>
      BY DEF Init
    <3>2. 0 \in 0..MaxStarts
      BY BoundAssumption
    <3>3. RoutesOK /\ PanicsExplained
      BY <3>1 DEF RoutesOK, PanicsExplained
    <3> QED
      BY <2>1, <3>1, <3>2, <3>3 DEF SiteOK
  <2>3. RequestOK
    <3>1. /\ req.asked = <<>> /\ req.ok = TRUE /\ req.stage = "idle" /\ req.known = FALSE
      BY DEF Init, NoRequest
    <3> QED
      BY <2>1, <3>1 DEF RequestOK
  <2>4. Fits(page, log)
    <3>1. page.links = {} /\ page.kind = "none"
      BY DEF Init, NoPage
    <3> QED
      BY <3>1, FitsPlainly
  <2> QED
    BY <2>2, <2>3, <2>4 DEF Inv
<1>2. Inv /\ [Next]_vars => Inv'
  <2> SUFFICES ASSUME Inv, [Next]_vars
               PROVE  Inv'
    OBVIOUS
  <2>1. CASE Serve
    BY <2>1, NotFoundInv, StartCategoriesInv, StartBuildsInv, GetBuildInv, BuildPageInv,
       BuildCategoryPageInv, DirsPageInv, PkgResultsPageInv DEF Serve
  <2>2. CASE UNCHANGED vars
    <3>1. UNCHANGED <<log, process>> /\ UNCHANGED <<req, page>>
      BY <2>2 DEF vars, reader
    <3>2. SiteOK' /\ RequestOK' /\ Fits(page, log)'
      BY <3>1, SiteStays DEF Inv, RequestOK
    <3> QED
      BY <3>2 DEF Inv
  <2> QED
    BY <2>1, <2>2, IngestInv, StartsInv, StopInv, OpenInv, AutocompleteInv DEF Next
<1> QED
  BY <1>1, <1>2, PTL DEF Spec

\* However ingests, starts, stops and the statements of pages interleave, a link
\* that could be seen before the last start that read the categories leads to a
\* page: no route of the site's own, and no other category, hides it
\* (registerCategories in bulktracker.go:136).
THEOREM LinksLive == Spec => []NoDeadLinks
<1>1. Inv => NoDeadLinks
  BY FittingPages DEF Inv, SiteOK
<1> QED
  BY <1>1, InvariantInductive, PTL

\* The server fails to start only if a stored report has a record without a
\* category, or one in a category with the name of a page: mux.Handle is never
\* given the pattern of another category, however the categories are nested.
THEOREM PanicsAreExplained == Spec => []PanicsExplained
<1>1. Inv => PanicsExplained
  BY DEF Inv, SiteOK
<1> QED
  BY <1>1, InvariantInductive, PTL

\* What StartPage and BuildDetails list is complete for the time at which they
\* were asked, although no two of their statements are in one transaction.
THEOREM PagesAreComplete == Spec => []PagesComplete
<1>1. Inv => PagesComplete
  BY FittingPages DEF Inv, SiteOK
<1> QED
  BY <1>1, InvariantInductive, PTL

\* Every package in a category of one name is listed on the category's page, and
\* a page that has understood its URL shows all results of its package and no
\* others.  It fails to only for a name that its script does not know, one that
\* the search field has escaped, and the URL of a category (pkgresults.js:18).
THEOREM PackagesAreReachable == Spec => []PackagesReachable
<1>1. Inv => PackagesReachable
  BY FittingPages DEF Inv, SiteOK
<1> QED
  BY <1>1, InvariantInductive, PTL

\* The tables hold nothing but what the mails' own reports say, the routes are
\* categories that are stored, and a page only has links to what is stored.
THEOREM TypeCorrect == Spec => []TypeOK
<1>1. ASSUME Inv PROVE TypeOK
  <2>1. SiteOK /\ Fits(page, log) /\ req.ok \in BOOLEAN
    BY <1>1 DEF Inv, RequestOK
  <2>2. ASSUME NEW i \in DOMAIN log
        PROVE  /\ log[i].mail \in Announcements
               /\ ToSet(log[i].rows) \subseteq UNION {ToSet(r) : r \in Contents[log[i].mail]}
    <3>1. log[i].mail \in Announcements
      BY <2>1, EntryIs DEF SiteOK
    <3>2. CASE log[i].rows = <<>>
      <4>1. ToSet(<<>>) = {}
        BY DEF ToSet
      <4> QED
        BY <3>1, <3>2, <4>1
    <3>3. CASE log[i].rows \in Contents[log[i].mail]
      BY <3>1, <3>3
    <3> QED
      BY <2>1, <3>2, <3>3 DEF SiteOK, Tables
  <2>3. routes \subseteq GetCategories(log) /\ routes \cap FixedRoutes = {}
    <3>1. GetCategories(before) \subseteq GetCategories(log)
      BY <2>1, PkgsStay DEF SiteOK
    <3> QED
      BY <2>1, <3>1 DEF SiteOK, RoutesOK
  <2>4. Len(before) <= Len(log)
    <3>1. before \in Seq(Entries) /\ log \in Seq(Entries) /\ DOMAIN before \subseteq DOMAIN log
      BY <2>1 DEF SiteOK, Tables, Within
    <3> HIDE DEF Entries
    <3>2. /\ DOMAIN before = 1..Len(before) /\ Len(before) \in Nat
          /\ DOMAIN log = 1..Len(log) /\ Len(log) \in Nat
      BY <3>1
    <3>3. Len(before) = 0 \/ Len(before) \in 1..Len(log)
      BY <3>1, <3>2
    <3> QED
      BY <3>2, <3>3
  <2> QED
    BY <2>1, <2>2, <2>3, <2>4 DEF TypeOK, SiteOK, Fits
<1> QED
  BY <1>1, InvariantInductive, PTL
=============================================================================
