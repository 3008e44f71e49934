------------------------------- MODULE Ingest -------------------------------
(***************************************************************************)
(* The mail handlers of src/ingest/ingest.go over the SQLite database of   *)
(* src/ddao: one process per POST of a mail, any number of them at once,   *)
(* next to page handlers that hold a read transaction while they write to  *)
(* their client.                                                           *)
(*                                                                         *)
(* Each handler stores a row for the build, fetches the machine-readable   *)
(* report over HTTP, and stores the report's results in one transaction.   *)
(* The database is a rollback-journal SQLite file: one connection at a     *)
(* time holds the RESERVED lock (variable writer), a commit waits for the  *)
(* SHARED locks of readers to go away, and a statement that waits longer   *)
(* than the driver's busy timeout fails.                                   *)
(***************************************************************************)
EXTENDS Integers, Sequences, FiniteSets

CONSTANTS
    Handlers,      \* concurrent requests to the mail endpoint
    Pages,         \* requests whose read transaction outlasts the busy timeout
    Mails,         \* the mails that are sent
    MailClass,     \* what ServeHTTP makes of a mail, see Classes
    ReportUrl,     \* the "Machine readable version" of a report mail
    Reports,       \* what each URL may serve, as the parser reads it
    NoOne,         \* the lock is free
    NoMail,        \* what a handler that is idle works on
    DiskErrors,    \* TRUE if a statement may fail for a reason of its own
    MaxBuilds,     \* bound: rows of the builds table
    MaxSends,      \* bound: times the sender tries a mail
    MaxCrashes     \* bound: times the server dies

Classes == {"unreadable", "ignored", "panics", "report"}
Urls == {ReportUrl[m] : m \in Mails}
ItemsAt(url) == UNION {{r[k] : k \in DOMAIN r} : r \in Reports[url]}
Items == UNION {ItemsAt(u) : u \in Urls}
Paths == {it.path : it \in Items}
Recs == {it.rec : it \in Items}
BuildIds == 0..MaxBuilds      \* 0: the id that a failed PutBuild returns
ReportMails == {m \in Mails : MailClass[m] = "report"}

ASSUME MailAssumption ==
    /\ MailClass \in [Mails -> Classes]
    /\ DOMAIN ReportUrl = Mails

\* The results of a report: the pkgs row they belong to, and the rest of the
\* record, which nothing here looks at.
ASSUME ReportAssumption ==
    /\ DOMAIN Reports = Urls
    /\ \A u \in Urls : \A r \in Reports[u] :
          /\ r \in Seq(ItemsAt(u))
          /\ \A k \in DOMAIN r : r[k] = [path |-> r[k].path, rec |-> r[k].rec]

ASSUME BoundAssumption ==
    /\ NoOne \notin Handlers
    /\ NoMail \notin Mails
    /\ DiskErrors \in BOOLEAN
    /\ MaxBuilds \in Nat /\ MaxSends \in Nat /\ MaxCrashes \in Nat

VARIABLES
    builds,      \* table builds: build_id is the index, a row is its mail
    pkgs,        \* table pkgs: pkg_id is the index, a row is its path
    results,     \* table results by build_id: a row is [pkg, rec]
    writer,      \* the handler whose connection holds the RESERVED lock
    readers,     \* the page handlers whose connections hold a SHARED lock
    txPkgs,      \* pkgs as the writer's connection sees it
    txResults,   \* results as the writer's connection sees it
    written,     \* PutResults: how many records its loop has inserted
    pc,          \* where each handler is
    mail,        \* the mail a handler was given
    bid,         \* the build id that PutBuild returned to it
    items,       \* the records that PkgsFromReport returned to it
    cancelled,   \* its request context is done: the sender went away
    sends,       \* how often the sender has tried each mail
    acked,       \* the mails whose sender was told 200
    crashes      \* how often the server has died

db == <<builds, pkgs, results>>
tx == <<writer, txPkgs, txResults, written>>
handler == <<pc, mail, bid, items, cancelled>>
sender == <<sends, acked>>
vars == <<db, readers, tx, handler, sender, crashes>>

Stages == {"idle", "put_build", "fetch", "put_results", "writing", "reply"}
Rows == [pkg : Nat \ {0}, rec : Recs]

-----------------------------------------------------------------------------
(* The statements of src/ddao/queries.sql.go on the two tables that the    *)
(* transaction of PutResults writes.  Next to some of them is the          *)
(* statement one could have written instead; the runs are shown to notice. *)

DeleteAll(rs, b) == [i \in DOMAIN rs |-> <<>>]

DeleteAllForBuild(rs, b) == [rs EXCEPT ![b] = <<>>]

\* INSERT OR IGNORE under UNIQUE (category, dir).
PutPkg(ps, path) ==
    IF \E i \in DOMAIN ps : ps[i] = path THEN ps ELSE Append(ps, path)

LastPkgID(ps, path) == Len(ps)
UnscannedPkgID(ps, path) == 0

GetPkgID(ps, path) == CHOOSE i \in DOMAIN ps : ps[i] = path

PutResult(rs, b, row) == [rs EXCEPT ![b] = Append(@, row)]

NoForeignKeys(b) == TRUE

\* The connection string asks for foreign keys (_fk=true): PutResult fails
\* for a build_id that is not a row of builds.
ForeignKeysHold(b) == b \in DOMAIN builds

-----------------------------------------------------------------------------
Init ==
    /\ builds = <<>> /\ pkgs = <<>>
    /\ results = [b \in BuildIds |-> <<>>]
    /\ writer = NoOne /\ readers = {}
    /\ txPkgs = pkgs /\ txResults = results /\ written = 0
    /\ pc = [h \in Handlers |-> "idle"]
    /\ mail = [h \in Handlers |-> NoMail]
    /\ bid = [h \in Handlers |-> 0]
    /\ items = [h \in Handlers |-> <<>>]
    /\ cancelled = [h \in Handlers |-> FALSE]
    /\ sends = [m \in Mails |-> 0]
    /\ acked = {}
    /\ crashes = 0

InFlight(h) == pc[h] # "idle"

Goto(h, stage) == pc' = [pc EXCEPT ![h] = stage]

\* The handler is over: nothing of its frame survives.
Return(h) ==
    /\ Goto(h, "idle")
    /\ mail' = [mail EXCEPT ![h] = NoMail]
    /\ bid' = [bid EXCEPT ![h] = 0]
    /\ items' = [items EXCEPT ![h] = <<>>]
    /\ cancelled' = [cancelled EXCEPT ![h] = FALSE]

(***************************************************************************)
(* The sender posts a mail until it is told 200.  It sends a mail again    *)
(* only after the previous attempt has failed from its point of view.      *)
(***************************************************************************)
Send(m) ==
    /\ m \notin acked
    /\ sends[m] < MaxSends
    /\ \A h \in Handlers : InFlight(h) /\ mail[h] = m => cancelled[h]
    /\ sends' = [sends EXCEPT ![m] = @ + 1]

\* mail.ReadMessage failed: 500.  BuildFromReport or ParseMultipartMail
\* panicked: net/http recovers and drops the connection.  No answer to keep.
Reject(m) ==
    /\ MailClass[m] \in {"unreadable", "panics"}
    /\ Send(m)
    /\ \E h \in Handlers : pc[h] = "idle"
    /\ UNCHANGED <<db, readers, tx, handler, acked, crashes>>

\* No sender, majordomo, not decodable, or no bulk build report: 200.
Ignore(m) ==
    /\ MailClass[m] = "ignored"
    /\ Send(m)
    /\ \E h \in Handlers : pc[h] = "idle"
    /\ acked' = acked \cup {m}
    /\ UNCHANGED <<db, readers, tx, handler, crashes>>

\* BuildFromReport returned a build: go on to PutBuild.
Accept(h, m) ==
    /\ pc[h] = "idle"
    /\ MailClass[m] = "report"
    /\ Send(m)
    /\ Goto(h, "put_build")
    /\ mail' = [mail EXCEPT ![h] = m]
    /\ UNCHANGED <<db, readers, tx, bid, items, cancelled, acked, crashes>>

\* The sender gives up on the connection: the request's context is done.
Cancel(h) ==
    /\ InFlight(h) /\ ~cancelled[h]
    /\ cancelled' = [cancelled EXCEPT ![h] = TRUE]
    /\ UNCHANGED <<db, readers, tx, pc, mail, bid, items, sender, crashes>>

-----------------------------------------------------------------------------
(* PutBuild: one INSERT ... RETURNING outside of any transaction.  The id  *)
(* is scanned from the row that the statement returns; the insert commits  *)
(* on its own when the statement is closed after that.  The handler logs   *)
(* an error and goes on with whatever id PutBuild returned.                *)

CanCommit == writer = NoOne /\ readers = {}

InsertBuild(h) ==
    /\ Len(builds) < MaxBuilds
    /\ builds' = Append(builds, mail[h])

PreviousId(table) == IF Len(table) > 1 THEN Len(table) - 1 ELSE Len(table)

\* RETURNING build_id, of the row that was inserted last.
ReturnedId(table) == Len(table)

PutBuildStored(h) ==
    /\ pc[h] = "put_build"
    /\ CanCommit /\ ~cancelled[h]
    /\ InsertBuild(h)
    /\ bid' = [bid EXCEPT ![h] = ReturnedId(builds')]
    /\ Goto(h, "fetch")
    /\ UNCHANGED <<pkgs, results, readers, tx, mail, items, cancelled, sender, crashes>>

\* A handler that tries again because it was not told the id.
PutBuildRetried(h) ==
    /\ pc[h] = "put_build"
    /\ CanCommit /\ ~cancelled[h]
    /\ InsertBuild(h)
    /\ UNCHANGED <<pkgs, results, readers, tx, handler, sender, crashes>>

\* The context ends after the row is stored and before its id is scanned.
PutBuildInterrupted(h) ==
    /\ pc[h] = "put_build"
    /\ CanCommit /\ ~cancelled[h]
    /\ InsertBuild(h)
    /\ cancelled' = [cancelled EXCEPT ![h] = TRUE]
    /\ Goto(h, "fetch")
    /\ UNCHANGED <<pkgs, results, readers, tx, mail, bid, items, sender, crashes>>

\* The statement returned its row, but cannot commit while a reader stays or
\* the disk is full: it is undone, and PutBuild returns an error together with
\* the id, which the next insert is going to be given again.
PutBuildRolledBack(h) ==
    /\ pc[h] = "put_build"
    /\ writer = NoOne /\ ~cancelled[h]
    /\ readers # {} \/ DiskErrors
    /\ Len(builds) < MaxBuilds
    /\ bid' = [bid EXCEPT ![h] = Len(builds) + 1]
    /\ Goto(h, "fetch")
    /\ UNCHANGED <<db, readers, tx, mail, items, cancelled, sender, crashes>>

\* The statement did not return a row: busy for longer than the timeout, the
\* context is done, or an error.
PutBuildFails(h) ==
    /\ pc[h] = "put_build"
    /\ ~CanCommit \/ cancelled[h] \/ DiskErrors
    /\ Goto(h, "fetch")
    /\ UNCHANGED <<db, readers, tx, mail, bid, items, cancelled, sender, crashes>>

PutBuild(h) ==
    \/ PutBuildStored(h) \/ PutBuildInterrupted(h)
    \/ PutBuildRolledBack(h) \/ PutBuildFails(h)

-----------------------------------------------------------------------------
(* FetchReport: an HTTP (or FTP) GET without context or timeout, so it may *)
(* take forever; the status code is not looked at, so an error page is a   *)
(* report without results.                                                 *)

Fetched(h) ==
    /\ pc[h] = "fetch"
    /\ \E r \in Reports[ReportUrl[mail[h]]] : items' = [items EXCEPT ![h] = r]
    /\ Goto(h, "put_results")
    /\ UNCHANGED <<db, readers, tx, mail, bid, cancelled, sender, crashes>>

\* No connection, not decompressible, or a read error in the parser.
FetchFails(h) ==
    /\ pc[h] = "fetch"
    /\ Goto(h, "reply")
    /\ UNCHANGED <<db, readers, tx, mail, bid, items, cancelled, sender, crashes>>

\* PkgsFromReport dereferences nil on a record without a PKGNAME.
FetchPanics(h) ==
    /\ pc[h] = "fetch"
    /\ Return(h)
    /\ UNCHANGED <<db, readers, tx, sender, crashes>>

FetchReport(h) == Fetched(h) \/ FetchFails(h) \/ FetchPanics(h)

-----------------------------------------------------------------------------
(* PutResults: one transaction.  Its first statement is the DELETE, which  *)
(* takes the RESERVED lock or fails as busy; the connection then sees its  *)
(* own changes, and everybody else the committed tables.                   *)

DropTx ==
    /\ writer' = NoOne /\ written' = 0
    /\ txPkgs' = pkgs' /\ txResults' = results'

BeginResults(h) ==
    /\ pc[h] = "put_results"
    /\ writer = NoOne /\ ~cancelled[h]
    /\ writer' = h
    /\ txResults' = DeleteAllForBuild(results, bid[h])
    /\ Goto(h, "writing")
    /\ UNCHANGED <<db, readers, txPkgs, written, mail, bid, items, cancelled, sender, crashes>>

\* BeginTx or the DELETE failed: PutResults returns, nothing was changed.
BeginFails(h) ==
    /\ pc[h] = "put_results"
    /\ writer # NoOne \/ cancelled[h] \/ DiskErrors
    /\ Goto(h, "reply")
    /\ UNCHANGED <<db, readers, tx, mail, bid, items, cancelled, sender, crashes>>

AllWritten(h) == written = Len(items[h])

\* One round of the loop: PutPkg, GetPkgID, PutResult.
WriteResult(h) ==
    /\ pc[h] = "writing"
    /\ ~AllWritten(h) /\ ~cancelled[h]
    /\ ForeignKeysHold(bid[h])
    /\ LET item == items[h][written + 1]
           ps == PutPkg(txPkgs, item.path)
           row == [pkg |-> GetPkgID(ps, item.path), rec |-> item.rec]
       IN /\ txPkgs' = ps
          /\ txResults' = PutResult(txResults, bid[h], row)
    /\ written' = written + 1
    /\ UNCHANGED <<db, readers, writer, handler, sender, crashes>>

\* A deferred Commit would also run after an error in the loop.
CommitPartial(h) ==
    /\ pc[h] = "writing"
    /\ readers = {} /\ ~cancelled[h]
    /\ pkgs' = txPkgs /\ results' = txResults
    /\ DropTx
    /\ Goto(h, "reply")
    /\ UNCHANGED <<builds, readers, mail, bid, items, cancelled, sender, crashes>>

Commit(h) ==
    /\ pc[h] = "writing"
    /\ AllWritten(h) /\ readers = {} /\ ~cancelled[h]
    /\ pkgs' = txPkgs /\ results' = txResults
    /\ DropTx
    /\ Goto(h, "reply")
    /\ UNCHANGED <<builds, readers, mail, bid, items, cancelled, sender, crashes>>

\* Without the deferred Rollback, the connection stays in its transaction.
KeepTx(h) ==
    /\ pc[h] = "writing"
    /\ \/ ~AllWritten(h) /\ ~ForeignKeysHold(bid[h])
       \/ cancelled[h] \/ DiskErrors \/ readers # {}
    /\ Goto(h, "reply")
    /\ UNCHANGED <<db, readers, tx, mail, bid, items, cancelled, sender, crashes>>

\* Without a busy timeout, a commit waits for the readers.
WaitForReaders(h) ==
    /\ pc[h] = "writing"
    /\ \/ ~AllWritten(h) /\ ~ForeignKeysHold(bid[h])
       \/ cancelled[h] \/ DiskErrors
    /\ UNCHANGED db
    /\ DropTx
    /\ Goto(h, "reply")
    /\ UNCHANGED <<readers, mail, bid, items, cancelled, sender, crashes>>

\* PutPkg outside of the transaction: a rollback leaves the new packages.
RollbackResults(h) ==
    /\ pc[h] = "writing"
    /\ \/ ~AllWritten(h) /\ ~ForeignKeysHold(bid[h])
       \/ cancelled[h] \/ DiskErrors \/ readers # {}
    /\ pkgs' = txPkgs /\ UNCHANGED <<builds, results>>
    /\ DropTx
    /\ Goto(h, "reply")
    /\ UNCHANGED <<readers, mail, bid, items, cancelled, sender, crashes>>

\* The deferred tx.Rollback() after an error: a foreign key that does not
\* hold, the context, the disk, or readers that stay while the transaction
\* has to write to the file (at its commit, or when its cache overflows).
Rollback(h) ==
    /\ pc[h] = "writing"
    /\ \/ ~AllWritten(h) /\ ~ForeignKeysHold(bid[h])
       \/ cancelled[h] \/ DiskErrors \/ readers # {}
    /\ UNCHANGED db
    /\ DropTx
    /\ Goto(h, "reply")
    /\ UNCHANGED <<readers, mail, bid, items, cancelled, sender, crashes>>

PutResults(h) ==
    BeginResults(h) \/ BeginFails(h) \/ WriteResult(h) \/ Commit(h) \/ Rollback(h)

\* ServeHTTP returns, whatever happened: an implicit 200.
Reply(h) ==
    /\ pc[h] = "reply"
    /\ acked' = IF cancelled[h] THEN acked ELSE acked \cup {mail[h]}
    /\ Return(h)
    /\ UNCHANGED <<db, readers, tx, sends, crashes>>

-----------------------------------------------------------------------------
(* The rest of the server.                                                 *)

\* A page begins its read transaction, and ends it when its client has
\* taken the whole page.
OpenPage(p) ==
    /\ p \notin readers
    /\ readers' = readers \cup {p}
    /\ UNCHANGED <<db, tx, handler, sender, crashes>>

ClosePage(p) ==
    /\ p \in readers
    /\ readers' = readers \ {p}
    /\ UNCHANGED <<db, tx, handler, sender, crashes>>

\* The process dies.  SQLite's journal undoes what was not committed.
Crash ==
    /\ crashes < MaxCrashes
    /\ crashes' = crashes + 1
    /\ UNCHANGED db
    /\ DropTx
    /\ readers' = {}
    /\ pc' = [h \in Handlers |-> "idle"]
    /\ mail' = [h \in Handlers |-> NoMail]
    /\ bid' = [h \in Handlers |-> 0]
    /\ items' = [h \in Handlers |-> <<>>]
    /\ cancelled' = [h \in Handlers |-> FALSE]
    /\ UNCHANGED sender

Serve(h) == PutBuild(h) \/ PutResults(h) \/ Reply(h)

Next ==
    \/ \E m \in Mails : Reject(m) \/ Ignore(m) \/ \E h \in Handlers : Accept(h, m)
    \/ \E h \in Handlers : Serve(h) \/ FetchReport(h) \/ Cancel(h)
    \/ \E p \in Pages : OpenPage(p) \/ ClosePage(p)
    \/ Crash

(***************************************************************************)
(* A goroutine that is not waiting for the network keeps running, and a    *)
(* statement that waits for a lock ends at the busy timeout at the latest. *)
(* Nothing is assumed of the report server, of the clients that read pages *)
(* or of the sender.                                                       *)
(***************************************************************************)
Spec == Init /\ [][Next]_vars /\ \A h \in Handlers : WF_vars(Serve(h))

-----------------------------------------------------------------------------
(* What is right about every state.                                        *)

TypeOK ==
    /\ builds \in Seq(Mails)
    /\ pkgs \in Seq(Paths) /\ txPkgs \in Seq(Paths)
    /\ results \in [BuildIds -> Seq(Rows)]
    /\ txResults \in [BuildIds -> Seq(Rows)]
    /\ writer \in Handlers \cup {NoOne}
    /\ readers \subseteq Pages
    /\ written \in Nat
    /\ pc \in [Handlers -> Stages]
    /\ mail \in [Handlers -> Mails \cup {NoMail}]
    /\ bid \in [Handlers -> BuildIds]
    /\ items \in [Handlers -> Seq(Items)]
    /\ cancelled \in [Handlers -> BOOLEAN]
    /\ sends \in [Mails -> Nat]
    /\ acked \subseteq Mails
    /\ crashes \in Nat

Resolved(rows, ps) ==
    [k \in DOMAIN rows |-> [path |-> ps[rows[k].pkg], rec |-> rows[k].rec]]

\* The committed results of a build, as a page joins results with pkgs.
Published(b) == Resolved(results[b], pkgs)

\* Every result row names a build and a package that exist, although a
\* failed PutBuild lets its handler go on with build id 0.
ReferentialIntegrity ==
    \A b \in BuildIds : \A k \in DOMAIN results[b] :
        /\ b \in DOMAIN builds
        /\ results[b][k].pkg \in DOMAIN pkgs

\* Whatever handlers, crashes, disconnections and busy locks do, a build has
\* either no results at all or exactly one report that some URL served, under
\* the packages that the report names: never a part of one or a mixture, even
\* if two handlers work with one build id.
AllOrNothing ==
    \A b \in BuildIds : Published(b) \in {<<>>} \cup UNION {Reports[u] : u \in Urls}

\* The doc comment of Pkg.BuildID: "BuildID is the numeric ID of the build that
\* this belongs to."  The results under a build are those of its own report.
ResultsBelongToBuild ==
    \A b \in DOMAIN builds : Published(b) \in {<<>>} \cup Reports[ReportUrl[builds[b]]]

\* Once results are stored under a build they stay as they are: no other
\* ingest deletes them, appends to them or renames their packages, although
\* every ingest starts with a DELETE and pkgs is shared by all builds.
ResultsNeverLost ==
    [][\A b \in BuildIds : results[b] # <<>> => Published(b)' = Published(b)]_vars

\* The last three hold if an INSERT that was given an id is also committed: no
\* reader outlasts the busy timeout and the disk does its job.
CommitsSucceed == Pages = {} /\ ~DiskErrors

\* A mail has no more build rows than the times it was sent, although PutBuild
\* may have stored its row when it reports a failure: the handler never tries
\* again by itself.  (A mail that is sent twice may well have two rows.)
BuildsWereSent ==
    \A m \in Mails : Cardinality({b \in DOMAIN builds : builds[b] = m}) <= sends[m]

\* Every package has a result: the pages list packages from the table pkgs alone,
\* and a row that an ingest left behind would be a link to a page of nothing.
\* INSERT OR IGNORE makes no row that is not used, an ingest that fails takes its
\* own back, and the results of a build are not deleted to be left without any.
PackagesHaveResults ==
    \A i \in DOMAIN pkgs :
        \E b \in DOMAIN builds : \E k \in DOMAIN results[b] : results[b][k].pkg = i

\* A write lock is given back, even if readers never go away and no report
\* server ever answers: no transaction is open while the network is waited for.
LockReleased == \A h \in Handlers : writer = h ~> writer # h

\* If every report server ends its answer, every request is answered or
\* dropped in the end: handlers never wait for one another for good.
AnsweredIfFetched ==
    (\A h \in Handlers : WF_vars(FetchReport(h)))
        => \A h \in Handlers : InFlight(h) ~> ~InFlight(h)

\* The doc comment of IncomingMailHandler: a mail that parses as a report is
\* ingested.  A mail the sender was told 200 about is never sent again, so its
\* build must be in the database by then.
AckedReportHasBuild ==
    \A m \in acked \cap ReportMails : \E b \in DOMAIN builds : builds[b] = m

PublishedLog ==
    [b \in DOMAIN builds |-> [mail |-> builds[b], rows |-> Published(b)]]

Log == INSTANCE BuildLog WITH
    Announcements <- ReportMails,
    Contents <- [m \in Mails |-> Reports[ReportUrl[m]]],
    log <- PublishedLog

\* If commits succeed, the tables implement the append-only log that readers
\* rely on: a build appears empty, and its own report in one later step or never.
ImplementsBuildLog == Log!Spec

-----------------------------------------------------------------------------
(* The inductive invariants behind the safety properties, see IngestProofs. *)

\* A handler that works has a report mail, and what it is about to store is a
\* report that the mail's URL served.
HandlersHaveReports ==
    \A h \in Handlers :
        /\ InFlight(h) => mail[h] \in ReportMails
        /\ pc[h] \in {"put_results", "writing"} => items[h] \in Reports[ReportUrl[mail[h]]]

\* The lock belongs to the handler in its transaction, and a connection
\* without a transaction sees the committed tables.
LockHeldInTransaction ==
    /\ \A h \in Handlers : pc[h] = "writing" <=> writer = h
    /\ writer = NoOne => txPkgs = pkgs /\ txResults = results /\ written = 0

\* pkgs only grows, so the ids that are in use keep their meaning.
PkgsExtend ==
    /\ DOMAIN pkgs \subseteq DOMAIN txPkgs
    /\ \A i \in DOMAIN pkgs : txPkgs[i] = pkgs[i]

\* What the writer has inserted is the start of its report, or nothing if its
\* build does not exist; the rest of the table is what is committed.
TransactionHoldsPrefix ==
    \A h \in Handlers : writer = h =>
        /\ written <= Len(items[h])
        /\ bid[h] \notin DOMAIN builds => written = 0
        /\ Len(txResults[bid[h]]) = written
        /\ \A k \in 1..written :
              /\ txResults[bid[h]][k].pkg \in DOMAIN txPkgs
              /\ txPkgs[txResults[bid[h]][k].pkg] = items[h][k].path
              /\ txResults[bid[h]][k].rec = items[h][k].rec
        /\ \A b \in BuildIds \ {bid[h]} : txResults[b] = results[b]

IInv ==
    /\ TypeOK
    /\ builds \in Seq(ReportMails) /\ Len(builds) <= MaxBuilds
    /\ ReferentialIntegrity
    /\ AllOrNothing
    /\ HandlersHaveReports
    /\ LockHeldInTransaction
    /\ PkgsExtend
    /\ TransactionHoldsPrefix

\* A handler is between its PutBuild and the end of its PutResults.
Owning(h) == pc[h] \in {"fetch", "put_results", "writing"}

\* From PutBuild to the end of its transaction, the row a handler was given is
\* its own mail's, has no results, and is no other handler's.
HandlersOwnTheirBuilds ==
    /\ \A h \in Handlers :
          /\ pc[h] \in {"idle", "put_build"} => bid[h] = 0
          /\ Owning(h) /\ bid[h] # 0 =>
                /\ bid[h] \in DOMAIN builds
                /\ builds[bid[h]] = mail[h]
                /\ results[bid[h]] = <<>>
    /\ \A g, h \in Handlers :
          g # h /\ Owning(g) /\ Owning(h) /\ bid[g] = bid[h] => bid[h] = 0

\* What the writer has put into pkgs is named by what it has put into results.
NewPackagesWritten ==
    \A h \in Handlers : writer = h =>
        \A i \in DOMAIN txPkgs \ DOMAIN pkgs :
            \E k \in DOMAIN txResults[bid[h]] : txResults[bid[h]][k].pkg = i

\* What is inductive on top of IInv if commits succeed.
OwnInv ==
    /\ IInv
    /\ readers = {}
    /\ HandlersOwnTheirBuilds
    /\ ResultsBelongToBuild
=============================================================================
