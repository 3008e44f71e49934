---------------------------- MODULE IngestProofs ----------------------------
(***************************************************************************)
(* Theorems about Ingest, for any handlers, pages, mails and reports.      *)
(***************************************************************************)
EXTENDS Ingest, FiniteSetTheorems, SequenceTheorems, TLAPS

-----------------------------------------------------------------------------
(* The statements of a transaction.                                        *)

\* Looking a package up after INSERT OR IGNORE finds the row of that package,
\* and the rows that were there keep their ids.
LEMMA PutPkgLookup ==
    ASSUME NEW ps \in Seq(Paths), NEW path \in Paths
    PROVE  /\ PutPkg(ps, path) \in Seq(Paths)
           /\ DOMAIN ps \subseteq DOMAIN PutPkg(ps, path)
           /\ \A i \in DOMAIN ps : PutPkg(ps, path)[i] = ps[i]
           /\ GetPkgID(PutPkg(ps, path), path) \in DOMAIN PutPkg(ps, path)
           /\ PutPkg(ps, path)[GetPkgID(PutPkg(ps, path), path)] = path
<1> DEFINE qs == PutPkg(ps, path)
<1>1. /\ qs \in Seq(Paths)
      /\ DOMAIN ps \subseteq DOMAIN qs
      /\ \A i \in DOMAIN ps : qs[i] = ps[i]
      /\ \E i \in DOMAIN qs : qs[i] = path
  <2>1. CASE \E i \in DOMAIN ps : ps[i] = path
    BY <2>1 DEF PutPkg
  <2>2. CASE ~ \E i \in DOMAIN ps : ps[i] = path
    <3>1. qs = Append(ps, path)
      BY <2>2 DEF PutPkg
    <3>2. qs \in Seq(Paths) /\ Len(qs) = Len(ps) + 1
      BY <3>1
    <3>3. \A i \in 1..Len(ps) : qs[i] = ps[i]
      BY <3>1
    <3>4. qs[Len(ps) + 1] = path
      BY <3>1
    <3>5. DOMAIN ps = 1..Len(ps) /\ DOMAIN qs = 1..(Len(ps) + 1) /\ Len(ps) \in Nat
      BY <3>2
    <3> HIDE DEF qs
    <3> QED
      BY <3>2, <3>3, <3>4, <3>5
  <2> QED
    BY <2>1, <2>2
<1>2. GetPkgID(qs, path) \in DOMAIN qs /\ qs[GetPkgID(qs, path)] = path
  <2> HIDE DEF qs
  <2> QED
    BY <1>1 DEF GetPkgID
<1> QED
  BY <1>1, <1>2

\* Rows that name packages of ps read the same in every table that extends ps.
LEMMA ResolvedStable ==
    ASSUME NEW rows, NEW ps, NEW qs,
           \A k \in DOMAIN rows : rows[k].pkg \in DOMAIN ps,
           \A i \in DOMAIN ps : qs[i] = ps[i]
    PROVE  Resolved(rows, qs) = Resolved(rows, ps)
BY DEF Resolved

\* Every record of a fetched report has a path and a rec of the right type.
LEMMA ItemTypes ==
    ASSUME NEW m \in Mails, NEW r \in Reports[ReportUrl[m]]
    PROVE  /\ r \in Seq(Items)
           /\ \A k \in DOMAIN r : /\ r[k] = [path |-> r[k].path, rec |-> r[k].rec]
                                  /\ r[k].path \in Paths
                                  /\ r[k].rec \in Recs
<1> DEFINE u == ReportUrl[m]
<1>1. u \in Urls
  BY DEF Urls
<1>2. /\ r \in Seq(ItemsAt(u))
      /\ \A k \in DOMAIN r : r[k] = [path |-> r[k].path, rec |-> r[k].rec]
  BY <1>1, ReportAssumption
<1>3. ItemsAt(u) \subseteq Items
  BY <1>1 DEF Items
<1>4. r \in Seq(Items)
  BY <1>2, <1>3
<1>5. \A k \in DOMAIN r : r[k] \in Items
  BY <1>4
<1>6. \A it \in Items : it.path \in Paths /\ it.rec \in Recs
  BY DEF Paths, Recs
<1> QED
  BY <1>2, <1>4, <1>5, <1>6

-----------------------------------------------------------------------------
(* The inductive invariant.                                                *)

\* Nothing is stored and nobody works at first.
LEMMA InitIInv == Init => IInv
<1> SUFFICES ASSUME Init PROVE IInv
  OBVIOUS
<1> USE DEF Init
<1>1. 0 \in BuildIds
  BY BoundAssumption DEF BuildIds
<1>2. TypeOK
  BY <1>1 DEF TypeOK, Stages
<1>3. builds \in Seq(ReportMails) /\ Len(builds) <= MaxBuilds
  BY BoundAssumption
<1>4. ReferentialIntegrity /\ AllOrNothing
  BY DEF ReferentialIntegrity, AllOrNothing, Published, Resolved
<1>5. HandlersHaveReports
  BY DEF HandlersHaveReports, InFlight
<1>6. LockHeldInTransaction
  BY BoundAssumption DEF LockHeldInTransaction
<1>7. PkgsExtend
  BY DEF PkgsExtend
<1>8. TransactionHoldsPrefix
  BY BoundAssumption DEF TransactionHoldsPrefix
<1> QED
  BY <1>2, <1>3, <1>4, <1>5, <1>6, <1>7, <1>8 DEF IInv

\* What the invariant says of the tables and of the open transaction does not
\* change in a step that touches neither.
LEMMA TablesFrame ==
    ASSUME IInv, UNCHANGED <<db, tx>>
    PROVE  /\ builds' \in Seq(ReportMails) /\ Len(builds') <= MaxBuilds
           /\ ReferentialIntegrity' /\ AllOrNothing' /\ PkgsExtend'
<1> USE DEF db, tx, IInv
<1>1. builds' \in Seq(ReportMails) /\ Len(builds') <= MaxBuilds
  OBVIOUS
<1>2. ReferentialIntegrity'
  BY DEF ReferentialIntegrity
<1>3. AllOrNothing'
  BY DEF AllOrNothing, Published, Resolved
<1>4. PkgsExtend'
  BY DEF PkgsExtend
<1> QED
  BY <1>1, <1>2, <1>3, <1>4

\* Nor does what it says of the lock and the transaction, if the handlers'
\* part of it does not change either.
LEMMA TxFrame ==
    ASSUME IInv, UNCHANGED <<db, tx>>,
           \A h \in Handlers :
               /\ pc'[h] = "writing" <=> pc[h] = "writing"
               /\ writer = h => bid'[h] = bid[h] /\ items'[h] = items[h]
    PROVE  LockHeldInTransaction' /\ TransactionHoldsPrefix'
<1>1. LockHeldInTransaction'
  BY DEF IInv, LockHeldInTransaction, db, tx
<1>2. TransactionHoldsPrefix'
  <2>1. TransactionHoldsPrefix
    BY DEF IInv
  <2>2. UNCHANGED <<builds, results, writer, txPkgs, txResults, written>>
    BY DEF db, tx
  <2>3. \A h \in Handlers : writer' = h => writer = h /\ bid'[h] = bid[h] /\ items'[h] = items[h]
    BY <2>2
  <2> QED
    BY <2>1, <2>2, <2>3, SMTT(30) DEF TransactionHoldsPrefix
<1> QED
  BY <1>1, <1>2

\* A request that begins has a report mail and holds nothing.
LEMMA ActionAccept ==
    ASSUME IInv, NEW h \in Handlers, NEW m \in Mails, Accept(h, m)
    PROVE  IInv'
<1> USE DEF Accept, Goto, Send
<1>1. TypeOK'
  BY DEF IInv, TypeOK, db, tx, Stages
<1>2. HandlersHaveReports'
  BY DEF IInv, HandlersHaveReports, InFlight, ReportMails, TypeOK, db, tx
<1>3. LockHeldInTransaction' /\ TransactionHoldsPrefix'
  BY TxFrame DEF IInv, TypeOK, LockHeldInTransaction
<1> QED
  BY <1>1, <1>2, <1>3, TablesFrame DEF IInv

\* A mail that is refused or ignored leaves database and handlers alone.
LEMMA ActionReject ==
    ASSUME IInv, NEW m \in Mails, Reject(m) \/ Ignore(m)
    PROVE  IInv'
<1>1. UNCHANGED <<db, readers, tx, handler, crashes>>
  BY DEF Reject, Ignore
<1>2. TypeOK'
  <2>1. sends' = [sends EXCEPT ![m] = @ + 1]
    BY DEF Reject, Ignore, Send
  <2>2. acked' \in {acked, acked \cup {m}}
    BY DEF Reject, Ignore
  <2>3. sends' \in [Mails -> Nat] /\ acked' \subseteq Mails
    BY <2>1, <2>2 DEF IInv, TypeOK
  <2> QED
    BY <1>1, <2>3 DEF IInv, TypeOK, db, tx, handler
<1>3. HandlersHaveReports'
  <2>1. UNCHANGED <<builds, results, pc, mail, bid, items>>
    BY <1>1 DEF db, handler
  <2> QED
    BY <2>1 DEF IInv, HandlersHaveReports, InFlight
<1>4. LockHeldInTransaction' /\ TransactionHoldsPrefix'
  BY <1>1, TxFrame DEF handler
<1> QED
  BY <1>1, <1>2, <1>3, <1>4, TablesFrame DEF IInv

\* A sender that goes away changes only what a handler may do next.
LEMMA ActionCancel ==
    ASSUME IInv, NEW h \in Handlers, Cancel(h)
    PROVE  IInv'
<1> USE DEF Cancel
<1>1. TypeOK'
  BY DEF IInv, TypeOK, db, tx, handler, sender, Stages
<1>2. HandlersHaveReports'
  BY DEF IInv, HandlersHaveReports, InFlight, TypeOK, db, tx, handler, sender
<1>3. LockHeldInTransaction' /\ TransactionHoldsPrefix'
  BY TxFrame DEF IInv, TypeOK, LockHeldInTransaction, handler
<1> QED
  BY <1>1, <1>2, <1>3, TablesFrame DEF IInv

\* A PutBuild without a row changes nothing.
LEMMA ActionPutBuildFails ==
    ASSUME IInv, NEW h \in Handlers, PutBuildFails(h)
    PROVE  IInv'
<1> USE DEF PutBuildFails, Goto
<1>1. TypeOK'
  BY DEF IInv, TypeOK, db, tx, handler, sender, Stages
<1>2. HandlersHaveReports'
  BY DEF IInv, HandlersHaveReports, InFlight, TypeOK, db, tx, handler, sender
<1>3. LockHeldInTransaction' /\ TransactionHoldsPrefix'
  BY TxFrame DEF IInv, TypeOK, LockHeldInTransaction, handler
<1> QED
  BY <1>1, <1>2, <1>3, TablesFrame DEF IInv

\* A report that cannot be fetched ends the work on it.
LEMMA ActionFetchFails ==
    ASSUME IInv, NEW h \in Handlers, FetchFails(h)
    PROVE  IInv'
<1> USE DEF FetchFails, Goto
<1>1. TypeOK'
  BY DEF IInv, TypeOK, db, tx, sender, Stages
<1>2. HandlersHaveReports'
  BY DEF IInv, HandlersHaveReports, InFlight, TypeOK, db
<1>3. LockHeldInTransaction' /\ TransactionHoldsPrefix'
  BY TxFrame DEF IInv, TypeOK, LockHeldInTransaction
<1> QED
  BY <1>1, <1>2, <1>3, TablesFrame DEF IInv

\* A handler that is not in its transaction and ends leaves the others alone.
LEMMA ReturnFrame ==
    ASSUME IInv, NEW h \in Handlers, pc[h] # "writing", Return(h), UNCHANGED <<db, tx>>
    PROVE  /\ pc' \in [Handlers -> Stages] /\ mail' \in [Handlers -> Mails \cup {NoMail}]
           /\ bid' \in [Handlers -> BuildIds] /\ items' \in [Handlers -> Seq(Items)]
           /\ cancelled' \in [Handlers -> BOOLEAN]
           /\ HandlersHaveReports' /\ LockHeldInTransaction' /\ TransactionHoldsPrefix'
<1> USE DEF Return, Goto
<1>1. 0 \in BuildIds /\ <<>> \in Seq(Items)
  BY BoundAssumption DEF BuildIds
<1>2. pc' \in [Handlers -> Stages] /\ mail' \in [Handlers -> Mails \cup {NoMail}]
  BY DEF IInv, TypeOK, Stages
<1>3. bid' \in [Handlers -> BuildIds] /\ items' \in [Handlers -> Seq(Items)]
  BY <1>1 DEF IInv, TypeOK
<1>4. cancelled' \in [Handlers -> BOOLEAN]
  BY DEF IInv, TypeOK
<1>5. HandlersHaveReports'
  BY DEF IInv, HandlersHaveReports, InFlight, TypeOK, db
<1>6. LockHeldInTransaction' /\ TransactionHoldsPrefix'
  BY TxFrame DEF IInv, TypeOK, LockHeldInTransaction
<1> QED
  BY <1>2, <1>3, <1>4, <1>5, <1>6

\* A report that makes the parser panic ends its handler.
LEMMA ActionFetchPanics ==
    ASSUME IInv, NEW h \in Handlers, FetchPanics(h)
    PROVE  IInv'
<1>1. pc[h] # "writing" /\ Return(h) /\ UNCHANGED <<db, readers, tx, sender, crashes>>
  BY DEF FetchPanics
<1>2. TypeOK'
  BY <1>1, ReturnFrame DEF IInv, TypeOK, db, tx, sender
<1> QED
  BY <1>1, <1>2, ReturnFrame, TablesFrame DEF IInv

\* A transaction that does not start changes nothing.
LEMMA ActionBeginFails ==
    ASSUME IInv, NEW h \in Handlers, BeginFails(h)
    PROVE  IInv'
<1> USE DEF BeginFails, Goto
<1>1. TypeOK'
  BY DEF IInv, TypeOK, db, tx, handler, sender, Stages
<1>2. HandlersHaveReports'
  BY DEF IInv, HandlersHaveReports, InFlight, TypeOK, db, tx, handler, sender
<1>3. LockHeldInTransaction' /\ TransactionHoldsPrefix'
  BY TxFrame DEF IInv, TypeOK, LockHeldInTransaction, handler
<1> QED
  BY <1>1, <1>2, <1>3, TablesFrame DEF IInv

\* An answer only adds to what the sender knows.
LEMMA ActionReply ==
    ASSUME IInv, NEW h \in Handlers, Reply(h)
    PROVE  IInv'
<1>1. pc[h] = "reply" /\ Return(h) /\ UNCHANGED <<db, readers, tx, sends, crashes>>
  BY DEF Reply
<1>2. acked' \subseteq Mails
  BY <1>1 DEF Reply, IInv, TypeOK, HandlersHaveReports, InFlight, ReportMails
<1>3. TypeOK'
  BY <1>1, <1>2, ReturnFrame DEF IInv, TypeOK, db, tx
<1> QED
  BY <1>1, <1>3, ReturnFrame, TablesFrame DEF IInv

\* Pages only read.
LEMMA ActionPage ==
    ASSUME IInv, NEW p \in Pages, OpenPage(p) \/ ClosePage(p)
    PROVE  IInv'
<1> USE DEF OpenPage, ClosePage
<1>1. TypeOK'
  BY DEF IInv, TypeOK, db, tx, handler, sender, Stages
<1>2. HandlersHaveReports'
  BY DEF IInv, HandlersHaveReports, InFlight, TypeOK, db, tx, handler, sender
<1>3. LockHeldInTransaction' /\ TransactionHoldsPrefix'
  BY TxFrame DEF IInv, TypeOK, LockHeldInTransaction, handler
<1> QED
  BY <1>1, <1>2, <1>3, TablesFrame DEF IInv

\* What a handler fetched is a report of its mail's URL, ItemTypes its type.
LEMMA ActionFetched ==
    ASSUME IInv, NEW h \in Handlers, Fetched(h)
    PROVE  IInv'
<1> USE DEF Fetched, Goto
<1>1. PICK r \in Reports[ReportUrl[mail[h]]] : items' = [items EXCEPT ![h] = r]
  OBVIOUS
<1>2. mail[h] \in Mails
  BY DEF IInv, HandlersHaveReports, InFlight, ReportMails
<1>3. r \in Seq(Items)
  BY <1>1, <1>2, ItemTypes
<1>4. TypeOK'
  BY <1>1, <1>3 DEF IInv, TypeOK, db, tx, sender, Stages
<1>5. HandlersHaveReports'
  BY <1>1 DEF IInv, HandlersHaveReports, InFlight, TypeOK, db, tx
<1>6. LockHeldInTransaction' /\ TransactionHoldsPrefix'
  BY <1>1, TxFrame DEF IInv, TypeOK, LockHeldInTransaction
<1> QED
  BY <1>4, <1>5, <1>6, TablesFrame DEF IInv

-----------------------------------------------------------------------------
(* The steps that change the tables or the transaction.                    *)

\* There are no results under an id that no build has.
LEMMA NoBuildNoResults ==
    ASSUME IInv, NEW b \in BuildIds, b \notin DOMAIN builds
    PROVE  results[b] = <<>>
<1>1. results[b] \in Seq(Rows)
  BY DEF IInv, TypeOK
<1>2. DOMAIN results[b] = {}
  BY DEF IInv, ReferentialIntegrity
<1>3. results[b] # <<>> => 1 \in DOMAIN results[b]
  BY <1>1, EmptySeq, LenProperties
<1> QED
  BY <1>2, <1>3

\* A new row of builds has the mail of its handler and no results.
LEMMA InsertBuildTables ==
    ASSUME IInv, NEW h \in Handlers, pc[h] = "put_build", InsertBuild(h),
           UNCHANGED <<pkgs, results, txPkgs>>
    PROVE  /\ builds' \in Seq(ReportMails) /\ builds' \in Seq(Mails)
           /\ Len(builds') = Len(builds) + 1 /\ Len(builds') <= MaxBuilds
           /\ Len(builds') \in BuildIds \ {0} /\ Len(builds') \notin DOMAIN builds
           /\ DOMAIN builds' = DOMAIN builds \cup {Len(builds')}
           /\ \A b \in DOMAIN builds : builds'[b] = builds[b]
           /\ builds'[Len(builds')] = mail[h]
           /\ results[Len(builds')] = <<>>
           /\ ReferentialIntegrity' /\ AllOrNothing' /\ PkgsExtend'
<1> DEFINE n == Len(builds) + 1
<1>1. mail[h] \in ReportMails /\ ReportMails \subseteq Mails
  BY DEF IInv, HandlersHaveReports, InFlight, ReportMails
<1>2. builds \in Seq(ReportMails) /\ builds' = Append(builds, mail[h]) /\ n <= MaxBuilds
  <2>1. Len(builds) \in Nat /\ Len(builds) < MaxBuilds
    BY DEF IInv, InsertBuild
  <2> QED
    BY <2>1, BoundAssumption DEF IInv, InsertBuild
<1>3. Len(builds') = n /\ builds' \in Seq(ReportMails) /\ builds' \in Seq(Mails)
  BY <1>1, <1>2
<1>4. n \in BuildIds \ {0} /\ n \notin DOMAIN builds
  BY <1>2, BoundAssumption DEF BuildIds
<1>5. DOMAIN builds' = DOMAIN builds \cup {n}
  BY <1>2, <1>3
<1>6. (\A b \in DOMAIN builds : builds'[b] = builds[b]) /\ builds'[n] = mail[h]
  BY <1>1, <1>2
<1>7. results[n] = <<>>
  BY <1>4, NoBuildNoResults
<1>8. ReferentialIntegrity'
  BY <1>5 DEF IInv, ReferentialIntegrity
<1>9. AllOrNothing'
  BY DEF IInv, AllOrNothing, Published, Resolved
<1>10. PkgsExtend'
  BY DEF IInv, PkgsExtend
<1> QED
  BY <1>2, <1>3, <1>4, <1>5, <1>6, <1>7, <1>8, <1>9, <1>10

\* The new row is empty, so the tables stay as the invariant has them.
LEMMA ActionPutBuildStored ==
    ASSUME IInv, NEW h \in Handlers, PutBuildStored(h)
    PROVE  IInv'
<1> USE DEF PutBuildStored, Goto
<1>1. pc[h] = "put_build" /\ InsertBuild(h) /\ UNCHANGED <<pkgs, results, txPkgs>>
  BY DEF tx
<1> DEFINE n == Len(builds')
<1> HIDE DEF n
<1>2. /\ builds' \in Seq(ReportMails) /\ builds' \in Seq(Mails) /\ Len(builds') <= MaxBuilds
      /\ n \in BuildIds
      /\ ReferentialIntegrity' /\ AllOrNothing' /\ PkgsExtend'
  BY <1>1, InsertBuildTables DEF n
<1>3. bid' = [bid EXCEPT ![h] = n]
  BY DEF n, ReturnedId
<1>4. TypeOK'
  BY <1>2, <1>3 DEF IInv, TypeOK, tx, sender, Stages
<1>5. HandlersHaveReports'
  BY DEF IInv, HandlersHaveReports, InFlight, TypeOK
<1>6. LockHeldInTransaction'
  BY DEF IInv, TypeOK, LockHeldInTransaction, tx
<1>7. TransactionHoldsPrefix'
  BY BoundAssumption DEF CanCommit, TransactionHoldsPrefix, tx
<1> QED
  BY <1>2, <1>4, <1>5, <1>6, <1>7 DEF IInv

\* The same, when nobody is told about the row.
LEMMA ActionPutBuildInterrupted ==
    ASSUME IInv, NEW h \in Handlers, PutBuildInterrupted(h)
    PROVE  IInv'
<1> USE DEF PutBuildInterrupted, Goto
<1>1. pc[h] = "put_build" /\ InsertBuild(h) /\ UNCHANGED <<pkgs, results, txPkgs>>
  BY DEF tx
<1>2. /\ builds' \in Seq(ReportMails) /\ builds' \in Seq(Mails) /\ Len(builds') <= MaxBuilds
      /\ \A b \in DOMAIN builds : b \in DOMAIN builds' /\ builds'[b] = builds[b]
      /\ ReferentialIntegrity' /\ AllOrNothing' /\ PkgsExtend'
  BY <1>1, InsertBuildTables
<1>3. TypeOK'
  BY <1>2 DEF IInv, TypeOK, tx, sender, Stages
<1>4. HandlersHaveReports'
  BY <1>2 DEF IInv, HandlersHaveReports, InFlight, TypeOK
<1>5. LockHeldInTransaction'
  BY DEF IInv, TypeOK, LockHeldInTransaction, tx
<1>6. TransactionHoldsPrefix'
  BY BoundAssumption DEF CanCommit, TransactionHoldsPrefix, tx
<1> QED
  BY <1>2, <1>3, <1>4, <1>5, <1>6 DEF IInv

\* An id without a row is still an id that results may be filed under.
LEMMA ActionPutBuildRolledBack ==
    ASSUME IInv, NEW h \in Handlers, PutBuildRolledBack(h)
    PROVE  IInv'
<1> USE DEF PutBuildRolledBack, Goto
<1>1. Len(builds) + 1 \in BuildIds
  <2>1. builds \in Seq(ReportMails) /\ Len(builds) < MaxBuilds
    BY DEF IInv
  <2>2. Len(builds) \in Nat /\ MaxBuilds \in Nat
    BY <2>1, BoundAssumption
  <2> QED
    BY <2>1, <2>2 DEF BuildIds
<1>2. TypeOK'
  BY <1>1 DEF IInv, TypeOK, db, tx, sender, Stages
<1>3. HandlersHaveReports'
  BY DEF IInv, HandlersHaveReports, InFlight, TypeOK
<1>4. LockHeldInTransaction'
  BY DEF IInv, TypeOK, LockHeldInTransaction, tx, db
<1>5. TransactionHoldsPrefix'
  BY BoundAssumption DEF TransactionHoldsPrefix, tx
<1> QED
  BY <1>2, <1>3, <1>4, <1>5, TablesFrame DEF IInv

\* The DELETE leaves the transaction with no record of its report: the empty
\* prefix.
LEMMA ActionBeginResults ==
    ASSUME IInv, NEW h \in Handlers, BeginResults(h)
    PROVE  IInv'
<1> USE DEF BeginResults, Goto, DeleteAllForBuild
<1>1. bid[h] \in BuildIds /\ results \in [BuildIds -> Seq(Rows)]
  BY DEF IInv, TypeOK
<1>2. txResults' = [results EXCEPT ![bid[h]] = <<>>]
  OBVIOUS
<1>3. TypeOK'
  BY <1>1, <1>2 DEF IInv, TypeOK, db, sender, Stages
<1>4. HandlersHaveReports'
  BY DEF IInv, HandlersHaveReports, InFlight, TypeOK, db
<1>5. ReferentialIntegrity' /\ AllOrNothing' /\ PkgsExtend'
  BY DEF IInv, db, ReferentialIntegrity, AllOrNothing, Published, Resolved, PkgsExtend
<1>6. LockHeldInTransaction'
  BY BoundAssumption DEF IInv, TypeOK, LockHeldInTransaction
<1>7. TransactionHoldsPrefix'
  <2>1. written = 0 /\ items[h] \in Seq(Items) /\ Len(items[h]) \in Nat
    BY DEF IInv, TypeOK, LockHeldInTransaction
  <2> QED
    BY <1>1, <1>2, <2>1 DEF TransactionHoldsPrefix, db
<1> QED
  BY <1>3, <1>4, <1>5, <1>6, <1>7 DEF IInv, db

\* One round of the loop extends the prefix by one record, under the right
\* package (PutPkgLookup), and only if the build exists.
LEMMA ActionWriteResult ==
    ASSUME IInv, NEW h \in Handlers, WriteResult(h)
    PROVE  IInv'
<1> DEFINE item == items[h][written + 1]
           ps == PutPkg(txPkgs, item.path)
           b == bid[h]
           row == [pkg |-> GetPkgID(ps, item.path), rec |-> item.rec]
<1>1. /\ writer = h /\ written < Len(items[h]) /\ written + 1 \in 1..Len(items[h])
      /\ b \in DOMAIN builds /\ b # 0 /\ b \in BuildIds
      /\ txPkgs \in Seq(Paths) /\ txResults \in [BuildIds -> Seq(Rows)]
      /\ Len(txResults[b]) = written
  <2>1. writer = h
    BY DEF WriteResult, IInv, LockHeldInTransaction
  <2>2. /\ written <= Len(items[h]) /\ written # Len(items[h])
        /\ written \in Nat /\ items[h] \in Seq(Items)
    BY <2>1 DEF WriteResult, AllWritten, IInv, TypeOK, TransactionHoldsPrefix
  <2>3. b \in DOMAIN builds /\ b # 0 /\ b \in BuildIds
    BY DEF WriteResult, ForeignKeysHold, IInv, TypeOK
  <2>4. /\ txPkgs \in Seq(Paths) /\ txResults \in [BuildIds -> Seq(Rows)]
        /\ Len(txResults[b]) = written
    BY <2>1 DEF IInv, TypeOK, TransactionHoldsPrefix
  <2> QED
    BY <2>1, <2>2, <2>3, <2>4
<1>2. item.path \in Paths /\ item.rec \in Recs
  <2>1. items[h] \in Reports[ReportUrl[mail[h]]] /\ mail[h] \in Mails
    BY DEF WriteResult, IInv, HandlersHaveReports, InFlight, ReportMails
  <2>2. written + 1 \in DOMAIN items[h]
    BY <1>1 DEF IInv, TypeOK
  <2> QED
    BY <2>1, <2>2, ItemTypes
<1>3. /\ ps \in Seq(Paths) /\ DOMAIN txPkgs \subseteq DOMAIN ps
      /\ \A i \in DOMAIN txPkgs : ps[i] = txPkgs[i]
      /\ row.pkg \in DOMAIN ps /\ ps[row.pkg] = item.path /\ row.rec = item.rec
  BY <1>1, <1>2, PutPkgLookup
<1>4. row \in Rows
  BY <1>2, <1>3 DEF Rows
<1>5. txPkgs' = ps /\ txResults' = [txResults EXCEPT ![b] = Append(@, row)] /\ written' = written + 1
  BY DEF WriteResult, PutResult
<1>6. /\ txResults' \in [BuildIds -> Seq(Rows)]
      /\ txResults'[b] = Append(txResults[b], row)
      /\ \A c \in BuildIds \ {b} : txResults'[c] = txResults[c]
  <2> HIDE DEF row, b
  <2> QED
    BY <1>1, <1>4, <1>5
<1>7. UNCHANGED <<builds, pkgs, results, readers, writer, pc, mail, bid, items, cancelled, sends, acked, crashes>>
  BY DEF WriteResult, db, handler, sender
<1> HIDE DEF item, ps, row, b
<1>8. TypeOK'
  <2>1. txPkgs' \in Seq(Paths) /\ txResults' \in [BuildIds -> Seq(Rows)]
    BY <1>3, <1>5, <1>6
  <2>2. TypeOK /\ written' \in Nat
    BY <1>5 DEF IInv, TypeOK
  <2> QED
    BY <2>1, <2>2, <1>7 DEF TypeOK
<1>9. HandlersHaveReports'
  BY <1>7 DEF IInv, HandlersHaveReports, InFlight
<1>10. ReferentialIntegrity' /\ AllOrNothing'
  BY <1>7 DEF IInv, ReferentialIntegrity, AllOrNothing, Published, Resolved
<1>11. LockHeldInTransaction'
  BY <1>1, <1>7, BoundAssumption DEF IInv, LockHeldInTransaction
<1>12. PkgsExtend'
  BY <1>3, <1>5, <1>7 DEF IInv, PkgsExtend
<1>13. TransactionHoldsPrefix'
  <2>1. /\ written + 1 <= Len(items[h])
        /\ Len(txResults'[b]) = written + 1
    <3>1. txResults[b] \in Seq(Rows) /\ written \in Nat
      BY <1>1 DEF IInv, TypeOK
    <3>2. Len(Append(txResults[b], row)) = Len(txResults[b]) + 1
      BY <1>4, <3>1
    <3>3. Len(items[h]) \in Nat
      BY DEF IInv, TypeOK
    <3> QED
      BY <1>1, <1>6, <3>1, <3>2, <3>3
  <2>2. ASSUME NEW k \in 1..(written + 1)
        PROVE  /\ txResults'[b][k].pkg \in DOMAIN ps
               /\ ps[txResults'[b][k].pkg] = items[h][k].path
               /\ txResults'[b][k].rec = items[h][k].rec
    <3>1. CASE k = written + 1
      <4>1. txResults'[b][k] = row
        BY <1>1, <1>4, <1>6, <3>1
      <4> QED
        BY <1>3, <3>1, <4>1 DEF item
    <3>2. CASE k \in 1..written
      <4>1. txResults'[b][k] = txResults[b][k]
        BY <1>1, <1>4, <1>6, <3>2
      <4>2. /\ txResults[b][k].pkg \in DOMAIN txPkgs
            /\ txPkgs[txResults[b][k].pkg] = items[h][k].path
            /\ txResults[b][k].rec = items[h][k].rec
        BY <1>1, <3>2 DEF IInv, TransactionHoldsPrefix, b
      <4> QED
        BY <1>3, <4>1, <4>2
    <3> QED
      BY <3>1, <3>2 DEF IInv, TypeOK
  <2>3. \A c \in BuildIds \ {b} : txResults'[c] = results[c]
    BY <1>1, <1>6 DEF IInv, TransactionHoldsPrefix, b
  <2>4. /\ written' <= Len(items'[h])
        /\ bid'[h] \notin DOMAIN builds' => written' = 0
        /\ Len(txResults'[bid'[h]]) = written'
        /\ \A k \in 1..written' :
              /\ txResults'[bid'[h]][k].pkg \in DOMAIN txPkgs'
              /\ txPkgs'[txResults'[bid'[h]][k].pkg] = items'[h][k].path
              /\ txResults'[bid'[h]][k].rec = items'[h][k].rec
        /\ \A c \in BuildIds \ {bid'[h]} : txResults'[c] = results'[c]
    <3>1. bid'[h] = b /\ bid'[h] \in DOMAIN builds'
      BY <1>1, <1>7 DEF b
    <3> QED
      BY <1>5, <1>7, <2>1, <2>2, <2>3, <3>1
  <2>5. \A g \in Handlers : writer' = g => g = h
    BY <1>1, <1>7
  <2> QED
    BY <2>4, <2>5 DEF TransactionHoldsPrefix
<1> QED
  BY <1>7, <1>8, <1>9, <1>10, <1>11, <1>12, <1>13 DEF IInv

\* A transaction that has gone through its loop holds exactly its report.
LEMMA TransactionHoldsReport ==
    ASSUME IInv, NEW h \in Handlers, writer = h, AllWritten(h)
    PROVE  Resolved(txResults[bid[h]], txPkgs) = items[h]
<1> DEFINE rows == txResults[bid[h]]
<1>1. /\ items[h] \in Seq(Items)
      /\ \A k \in DOMAIN items[h] : items[h][k] = [path |-> items[h][k].path, rec |-> items[h][k].rec]
  <2>1. items[h] \in Reports[ReportUrl[mail[h]]] /\ mail[h] \in Mails
    BY DEF IInv, LockHeldInTransaction, HandlersHaveReports, InFlight, ReportMails
  <2> QED
    BY <2>1, ItemTypes
<1>2. rows \in Seq(Rows) /\ Len(rows) = Len(items[h])
  BY DEF AllWritten, IInv, TypeOK, TransactionHoldsPrefix
<1>3. DOMAIN rows = DOMAIN items[h] /\ DOMAIN items[h] = 1..written
  BY <1>1, <1>2 DEF AllWritten
<1>4. \A k \in DOMAIN rows :
          txPkgs[rows[k].pkg] = items[h][k].path /\ rows[k].rec = items[h][k].rec
  BY <1>3 DEF IInv, TransactionHoldsPrefix
<1>5. \A k \in DOMAIN rows : [path |-> txPkgs[rows[k].pkg], rec |-> rows[k].rec] = items[h][k]
  BY <1>1, <1>3, <1>4
<1>6. items[h] = [k \in DOMAIN items[h] |-> items[h][k]]
  BY <1>1
<1> QED
  BY <1>3, <1>5, <1>6 DEF Resolved

\* What a commit does to the log: the writer's build, if it has one, gets the
\* report, and every other build keeps what it had.
LEMMA CommitPublishes ==
    ASSUME IInv, NEW h \in Handlers, Commit(h)
    PROVE  /\ writer = h
           /\ \A b \in BuildIds \ {bid[h]} : results'[b] = results[b] /\ Published(b)' = Published(b)
           /\ bid[h] \notin DOMAIN builds => results'[bid[h]] = <<>>
           /\ Published(bid[h])' = items[h]
<1>1. writer = h /\ AllWritten(h) /\ pkgs' = txPkgs /\ results' = txResults
  BY DEF Commit, IInv, LockHeldInTransaction
<1>2. ASSUME NEW b \in BuildIds \ {bid[h]}
      PROVE  results'[b] = results[b] /\ Published(b)' = Published(b)
  <2>1. results'[b] = results[b]
    BY <1>1 DEF IInv, TransactionHoldsPrefix
  <2>2. /\ \A k \in DOMAIN results[b] : results[b][k].pkg \in DOMAIN pkgs
        /\ \A i \in DOMAIN pkgs : txPkgs[i] = pkgs[i]
    BY DEF IInv, ReferentialIntegrity, PkgsExtend
  <2>3. Resolved(results[b], txPkgs) = Resolved(results[b], pkgs)
    BY <2>2, ResolvedStable
  <2>4. Published(b)' = Resolved(results'[b], pkgs')
    BY DEF Published, Resolved
  <2> QED
    BY <1>1, <2>1, <2>3, <2>4 DEF Published
<1>3. bid[h] \notin DOMAIN builds => results'[bid[h]] = <<>>
  <2> SUFFICES ASSUME bid[h] \notin DOMAIN builds PROVE txResults[bid[h]] = <<>>
    BY <1>1
  <2>1. txResults[bid[h]] \in Seq(Rows) /\ Len(txResults[bid[h]]) = 0
    BY <1>1 DEF IInv, TypeOK, TransactionHoldsPrefix
  <2> QED
    BY <2>1, EmptySeq
<1>4. Published(bid[h])' = items[h]
  <2>1. bid' = bid
    BY DEF Commit
  <2>2. Published(bid[h])' = Resolved(txResults[bid[h]], txPkgs)
    BY <1>1, <2>1 DEF Published, Resolved
  <2> QED
    BY <1>1, <2>2, TransactionHoldsReport
<1> QED
  BY <1>1, <1>2, <1>3, <1>4

\* A commit publishes a prefix that is the whole report (CommitPublishes).
LEMMA ActionCommit ==
    ASSUME IInv, NEW h \in Handlers, Commit(h)
    PROVE  IInv'
<1>1. /\ pc[h] = "writing" /\ pc' = [pc EXCEPT ![h] = "reply"] /\ AllWritten(h)
      /\ pkgs' = txPkgs /\ results' = txResults /\ txPkgs' = txPkgs /\ txResults' = txResults
      /\ writer' = NoOne /\ written' = 0
      /\ UNCHANGED <<builds, readers, mail, bid, items, cancelled, sends, acked, crashes>>
  BY DEF Commit, DropTx, Goto, sender
<1>2. /\ writer = h
      /\ \A b \in BuildIds \ {bid[h]} : results'[b] = results[b] /\ Published(b)' = Published(b)
      /\ bid[h] \notin DOMAIN builds => results'[bid[h]] = <<>>
      /\ Published(bid[h])' = items[h]
  BY CommitPublishes
<1>3. bid[h] \in BuildIds
  BY DEF IInv, TypeOK
<1>4. TypeOK'
  BY <1>1 DEF IInv, TypeOK, Stages
<1>5. ReferentialIntegrity'
  <2> SUFFICES ASSUME NEW b \in BuildIds, NEW k \in DOMAIN results'[b]
               PROVE  b \in DOMAIN builds' /\ results'[b][k].pkg \in DOMAIN pkgs'
    BY DEF ReferentialIntegrity
  <2>1. CASE b = bid[h]
    <3>1. DOMAIN results'[b] = 1..written
      BY <1>1, <1>2, <2>1 DEF IInv, TypeOK, TransactionHoldsPrefix
    <3>2. results'[b][k].pkg \in DOMAIN pkgs'
      BY <1>1, <1>2, <2>1, <3>1 DEF IInv, TransactionHoldsPrefix
    <3>3. b \in DOMAIN builds
      BY <1>2, <2>1
    <3> QED
      BY <1>1, <1>3, <2>1, <3>2, <3>3
  <2>2. CASE b # bid[h]
    BY <1>1, <1>2, <2>2 DEF IInv, ReferentialIntegrity, PkgsExtend
  <2> QED
    BY <2>1, <2>2
<1>6. AllOrNothing'
  <2> SUFFICES ASSUME NEW b \in BuildIds
               PROVE  Published(b)' \in {<<>>} \cup UNION {Reports[u] : u \in Urls}
    BY DEF AllOrNothing
  <2>1. CASE b = bid[h]
    <3>1. items[h] \in Reports[ReportUrl[mail[h]]] /\ mail[h] \in Mails
      BY <1>1 DEF IInv, HandlersHaveReports, InFlight, ReportMails
    <3>2. Published(b)' = Published(bid[h])'
      BY <1>1, <2>1 DEF Published, Resolved
    <3> QED
      BY <1>2, <3>1, <3>2 DEF Urls
  <2>2. CASE b # bid[h]
    BY <1>2, <2>2 DEF IInv, AllOrNothing
  <2> QED
    BY <2>1, <2>2
<1>7. HandlersHaveReports'
  BY <1>1 DEF IInv, HandlersHaveReports, InFlight, TypeOK
<1>8. LockHeldInTransaction'
  BY <1>1, <1>2, BoundAssumption DEF IInv, TypeOK, LockHeldInTransaction
<1>9. PkgsExtend'
  BY <1>1 DEF PkgsExtend
<1>10. TransactionHoldsPrefix'
  BY <1>1, BoundAssumption DEF TransactionHoldsPrefix
<1> QED
  BY <1>1, <1>4, <1>5, <1>6, <1>7, <1>8, <1>9, <1>10 DEF IInv

\* A rollback gives the lock back and forgets the transaction.
LEMMA ActionRollback ==
    ASSUME IInv, NEW h \in Handlers, Rollback(h)
    PROVE  IInv'
<1>1. /\ pc[h] = "writing" /\ pc' = [pc EXCEPT ![h] = "reply"]
      /\ UNCHANGED <<builds, pkgs, results, readers, mail, bid, items, cancelled, sends, acked, crashes>>
      /\ txPkgs' = pkgs /\ txResults' = results
      /\ writer' = NoOne /\ written' = 0
  BY DEF Rollback, DropTx, Goto, db, sender
<1>2. TypeOK'
  BY <1>1 DEF IInv, TypeOK, Stages
<1>3. ReferentialIntegrity' /\ AllOrNothing' /\ PkgsExtend'
  BY <1>1 DEF IInv, ReferentialIntegrity, AllOrNothing, Published, Resolved, PkgsExtend
<1>4. HandlersHaveReports'
  BY <1>1 DEF IInv, HandlersHaveReports, InFlight, TypeOK
<1>5. LockHeldInTransaction'
  BY <1>1, BoundAssumption DEF IInv, TypeOK, LockHeldInTransaction
<1>6. TransactionHoldsPrefix'
  BY <1>1, BoundAssumption DEF TransactionHoldsPrefix
<1> QED
  BY <1>1, <1>2, <1>3, <1>4, <1>5, <1>6 DEF IInv

\* A crash forgets everything but the tables.
LEMMA ActionCrash ==
    ASSUME IInv, Crash
    PROVE  IInv'
<1>1. /\ pc' = [h \in Handlers |-> "idle"] /\ mail' = [h \in Handlers |-> NoMail]
      /\ bid' = [h \in Handlers |-> 0] /\ items' = [h \in Handlers |-> <<>>]
      /\ cancelled' = [h \in Handlers |-> FALSE] /\ readers' = {} /\ crashes' = crashes + 1
      /\ UNCHANGED <<builds, pkgs, results, sends, acked>>
      /\ txPkgs' = pkgs /\ txResults' = results
      /\ writer' = NoOne /\ written' = 0
  BY DEF Crash, DropTx, db, sender
<1>2. 0 \in BuildIds
  BY BoundAssumption DEF BuildIds
<1>3. TypeOK'
  BY <1>1, <1>2 DEF IInv, TypeOK, Stages
<1>4. ReferentialIntegrity' /\ AllOrNothing' /\ PkgsExtend'
  BY <1>1 DEF IInv, ReferentialIntegrity, AllOrNothing, Published, Resolved, PkgsExtend
<1>5. HandlersHaveReports'
  BY <1>1 DEF HandlersHaveReports, InFlight
<1>6. LockHeldInTransaction'
  BY <1>1, BoundAssumption DEF LockHeldInTransaction
<1>7. TransactionHoldsPrefix'
  BY <1>1, BoundAssumption DEF TransactionHoldsPrefix
<1> QED
  BY <1>1, <1>3, <1>4, <1>5, <1>6, <1>7 DEF IInv

-----------------------------------------------------------------------------
(* The theorems of the component.                                          *)

\* Every step keeps the inductive invariant.
LEMMA NextIInv == IInv /\ [Next]_vars => IInv'
<1> SUFFICES ASSUME IInv, [Next]_vars PROVE IInv'
  OBVIOUS
<1>1. ASSUME NEW m \in Mails, Reject(m) \/ Ignore(m) PROVE IInv'
  BY <1>1, ActionReject
<1>2. ASSUME NEW m \in Mails, NEW h \in Handlers, Accept(h, m) PROVE IInv'
  BY <1>2, ActionAccept
<1>3. ASSUME NEW h \in Handlers, PutBuild(h) PROVE IInv'
  BY <1>3, ActionPutBuildStored, ActionPutBuildInterrupted, ActionPutBuildRolledBack,
     ActionPutBuildFails DEF PutBuild
<1>4. ASSUME NEW h \in Handlers, FetchReport(h) PROVE IInv'
  BY <1>4, ActionFetched, ActionFetchFails, ActionFetchPanics DEF FetchReport
<1>5. ASSUME NEW h \in Handlers, PutResults(h) PROVE IInv'
  BY <1>5, ActionBeginResults, ActionBeginFails, ActionWriteResult, ActionCommit, ActionRollback
     DEF PutResults
<1>6. ASSUME NEW h \in Handlers, Reply(h) PROVE IInv'
  BY <1>6, ActionReply
<1>7. ASSUME NEW h \in Handlers, Cancel(h) PROVE IInv'
  BY <1>7, ActionCancel
<1>8. ASSUME NEW p \in Pages, OpenPage(p) \/ ClosePage(p) PROVE IInv'
  BY <1>8, ActionPage
<1>9. CASE Crash
  BY <1>9, ActionCrash
<1>10. CASE UNCHANGED vars
  <2>1. /\ UNCHANGED <<db, tx>> /\ UNCHANGED <<builds, pkgs, results, readers, writer, txPkgs, txResults>>
        /\ UNCHANGED <<written, pc, mail, bid, items, cancelled, sends, acked, crashes>>
    BY <1>10 DEF vars, db, tx, handler, sender
  <2>2. TypeOK'
    BY <2>1 DEF IInv, TypeOK
  <2>3. HandlersHaveReports'
    BY <2>1 DEF IInv, HandlersHaveReports, InFlight
  <2>4. LockHeldInTransaction' /\ TransactionHoldsPrefix'
    BY <2>1, TxFrame
  <2> QED
    BY <2>1, <2>2, <2>3, <2>4, TablesFrame DEF IInv
<1> QED
  BY <1>1, <1>2, <1>3, <1>4, <1>5, <1>6, <1>7, <1>8, <1>9, <1>10 DEF Next, Serve

\* The inductive invariant holds of every run of the handlers.
THEOREM InductiveInvariant == Spec => []IInv
BY InitIInv, NextIInv, PTL DEF Spec

\* Type correctness.
THEOREM TypeCorrect == Spec => []TypeOK
<1>1. IInv => TypeOK
  BY DEF IInv
<1> QED
  BY <1>1, InductiveInvariant, PTL

\* No result row ever names a build or a package that does not exist, with
\* whatever number of handlers and failures: a handler that goes on with
\* build id 0 stores nothing (PutBuild's error is only logged, ingest.go:194).
THEOREM ReferencesHold == Spec => []ReferentialIntegrity
<1>1. IInv => ReferentialIntegrity
  BY DEF IInv
<1> QED
  BY <1>1, InductiveInvariant, PTL

\* A build shows no results or one whole report, never a part of one or a
\* mixture, whatever the handlers, the reports and the failures, even if two
\* handlers work with one build id (PutResults is one transaction).
THEOREM ReportsAreWhole == Spec => []AllOrNothing
<1>1. IInv => AllOrNothing
  BY DEF IInv
<1> QED
  BY <1>1, InductiveInvariant, PTL

-----------------------------------------------------------------------------
(* What a step does to the database.                                       *)

\* Only an insert into builds and a commit change the database.
LEMMA DatabaseStep ==
    ASSUME [Next]_vars
    PROVE  \/ UNCHANGED db
           \/ \E h \in Handlers : PutBuildStored(h) \/ PutBuildInterrupted(h)
           \/ \E h \in Handlers : Commit(h)
BY DEF Next, vars, Serve, PutBuild, FetchReport, PutResults, Reject, Ignore, Accept, Cancel,
       PutBuildFails, PutBuildRolledBack, Fetched, FetchFails, FetchPanics, BeginResults, BeginFails, WriteResult,
       Rollback, Reply, OpenPage, ClosePage, Crash

-----------------------------------------------------------------------------
(* The second invariant: whose results a build has if commits succeed.     *)

\* What OwnInv adds to IInv says nothing of a handler that owns nothing, so it
\* survives a step that changes no table and gives no handler an id.
LEMMA OwnFrame ==
    ASSUME OwnInv, IInv', UNCHANGED db, readers' = {},
           \A h \in Handlers :
               /\ pc'[h] \in {"idle", "put_build"} => bid'[h] = 0
               /\ \/ ~Owning(h)' \/ bid'[h] = 0
                  \/ Owning(h) /\ bid'[h] = bid[h] /\ mail'[h] = mail[h]
    PROVE  OwnInv'
<1>1. UNCHANGED <<builds, pkgs, results>>
  BY DEF db
<1>2. HandlersOwnTheirBuilds'
  BY <1>1 DEF OwnInv, HandlersOwnTheirBuilds
<1>3. ResultsBelongToBuild'
  BY <1>1 DEF OwnInv, ResultsBelongToBuild, Published, Resolved
<1> QED
  BY <1>2, <1>3 DEF OwnInv

\* Initially no handler owns anything and no build exists.
LEMMA InitOwnInv == Init => OwnInv
<1> SUFFICES ASSUME Init PROVE OwnInv
  OBVIOUS
<1>1. HandlersOwnTheirBuilds
  BY DEF Init, HandlersOwnTheirBuilds, Owning
<1>2. ResultsBelongToBuild
  BY DEF Init, ResultsBelongToBuild
<1> QED
  BY <1>1, <1>2, InitIInv DEF OwnInv, Init

\* The handler that stored a row owns it alone: its id is a new one.
LEMMA OwnPutBuildStored ==
    ASSUME OwnInv, IInv', NEW h \in Handlers, PutBuildStored(h)
    PROVE  OwnInv'
<1> USE DEF PutBuildStored, Goto
<1>0. IInv
  BY DEF OwnInv
<1>1. pc[h] = "put_build" /\ InsertBuild(h) /\ UNCHANGED <<pkgs, results, txPkgs, readers>>
  BY DEF tx
<1> DEFINE n == Len(builds')
<1> HIDE DEF n
<1>2. /\ n \in BuildIds \ {0} /\ n \notin DOMAIN builds
      /\ DOMAIN builds' = DOMAIN builds \cup {n}
      /\ \A b \in DOMAIN builds : builds'[b] = builds[b]
      /\ builds'[n] = mail[h] /\ results[n] = <<>>
  BY <1>0, <1>1, InsertBuildTables DEF n
<1>3. bid' = [bid EXCEPT ![h] = n]
  BY DEF n, ReturnedId
<1>4. \A g \in Handlers \ {h} : pc'[g] = pc[g] /\ bid'[g] = bid[g]
  BY <1>0, <1>3 DEF IInv, TypeOK
<1>5. pc'[h] = "fetch" /\ bid'[h] = n
  BY <1>0, <1>3 DEF IInv, TypeOK
<1>6. HandlersOwnTheirBuilds'
  <2>1. \A g \in Handlers \ {h} : Owning(g) => bid[g] # n
    BY <1>2 DEF OwnInv, HandlersOwnTheirBuilds
  <2>2. \A f, g \in Handlers :
            f # g /\ Owning(f)' /\ Owning(g)' /\ bid'[f] = bid'[g] => bid'[g] = 0
    BY <1>4, <1>5, <2>1 DEF OwnInv, HandlersOwnTheirBuilds, Owning
  <2>3. ASSUME NEW g \in Handlers
        PROVE  /\ pc'[g] \in {"idle", "put_build"} => bid'[g] = 0
               /\ Owning(g)' /\ bid'[g] # 0 =>
                     bid'[g] \in DOMAIN builds' /\ builds'[bid'[g]] = mail'[g] /\ results'[bid'[g]] = <<>>
    <3>1. CASE g = h
      BY <1>2, <1>5, <3>1
    <3>2. CASE g # h
      BY <1>2, <1>4, <3>2 DEF OwnInv, HandlersOwnTheirBuilds, Owning
    <3> QED
      BY <3>1, <3>2
  <2> QED
    BY <2>2, <2>3 DEF HandlersOwnTheirBuilds
<1>7. ResultsBelongToBuild'
  <2>1. \A b : Published(b)' = Published(b)
    BY <1>1 DEF Published, Resolved
  <2>2. Published(n) = <<>>
    BY <1>2 DEF Published, Resolved
  <2> QED
    BY <1>2, <2>1, <2>2 DEF OwnInv, ResultsBelongToBuild
<1> QED
  BY <1>1, <1>6, <1>7 DEF OwnInv

\* A row whose handler was not told its id is owned by nobody.
LEMMA OwnPutBuildInterrupted ==
    ASSUME OwnInv, IInv', NEW h \in Handlers, PutBuildInterrupted(h)
    PROVE  OwnInv'
<1> USE DEF PutBuildInterrupted, Goto
<1>0. IInv
  BY DEF OwnInv
<1>1. pc[h] = "put_build" /\ InsertBuild(h) /\ UNCHANGED <<pkgs, results, txPkgs, readers>>
  BY DEF tx
<1> DEFINE n == Len(builds')
<1>2. /\ DOMAIN builds' = DOMAIN builds \cup {n}
      /\ \A b \in DOMAIN builds : builds'[b] = builds[b]
      /\ results[n] = <<>>
  BY <1>0, <1>1, InsertBuildTables
<1> HIDE DEF n
<1>3. HandlersOwnTheirBuilds'
  <2>1. pc'[h] = "fetch" /\ bid[h] = 0 /\ \A g \in Handlers \ {h} : pc'[g] = pc[g]
    BY <1>0, <1>1 DEF OwnInv, HandlersOwnTheirBuilds, IInv, TypeOK
  <2>2. UNCHANGED <<results, mail, bid>>
    OBVIOUS
  <2>3. \A f, g \in Handlers :
            f # g /\ Owning(f)' /\ Owning(g)' /\ bid[f] = bid[g] => bid[g] = 0
    BY <2>1 DEF OwnInv, HandlersOwnTheirBuilds, Owning
  <2>4. \A g \in Handlers :
            /\ pc'[g] \in {"idle", "put_build"} => bid[g] = 0
            /\ Owning(g)' /\ bid[g] # 0 =>
                  bid[g] \in DOMAIN builds' /\ builds'[bid[g]] = mail[g] /\ results[bid[g]] = <<>>
    BY <1>2, <2>1 DEF OwnInv, HandlersOwnTheirBuilds, Owning
  <2> QED
    BY <2>2, <2>3, <2>4 DEF HandlersOwnTheirBuilds
<1>4. ResultsBelongToBuild'
  <2>1. \A b : Published(b)' = Published(b)
    BY <1>1 DEF Published, Resolved
  <2>2. Published(n) = <<>>
    BY <1>2 DEF Published, Resolved
  <2> QED
    BY <1>2, <2>1, <2>2 DEF OwnInv, ResultsBelongToBuild
<1> QED
  BY <1>1, <1>3, <1>4 DEF OwnInv

\* The build that a commit publishes had no results before.
LEMMA CommitFindsEmpty ==
    ASSUME OwnInv, NEW h \in Handlers, Commit(h)
    PROVE  bid[h] \in BuildIds /\ results[bid[h]] = <<>>
<1>1. pc[h] = "writing" /\ bid[h] \in BuildIds
  BY DEF Commit, OwnInv, IInv, TypeOK
<1>2. CASE bid[h] # 0
  BY <1>1, <1>2 DEF OwnInv, HandlersOwnTheirBuilds, Owning
<1>3. CASE bid[h] = 0
  <2>1. 0 \notin DOMAIN builds
    BY DEF OwnInv, IInv, TypeOK
  <2> QED
    BY <1>1, <1>3, <2>1, NoBuildNoResults DEF OwnInv
<1> QED
  BY <1>1, <1>2, <1>3

\* A commit publishes a handler's report under its own build, and takes
\* nothing away from the builds that other handlers own.
LEMMA OwnCommit ==
    ASSUME OwnInv, IInv', NEW h \in Handlers, Commit(h)
    PROVE  OwnInv'
<1>0. IInv
  BY DEF OwnInv
<1>1. /\ pc[h] = "writing" /\ pc' = [pc EXCEPT ![h] = "reply"]
      /\ UNCHANGED <<builds, readers, mail, bid, items>>
  BY DEF Commit, Goto
<1>2. /\ \A b \in BuildIds \ {bid[h]} : results'[b] = results[b] /\ Published(b)' = Published(b)
      /\ Published(bid[h])' = items[h]
  BY <1>0, CommitPublishes
<1>3. bid[h] # 0 => builds[bid[h]] = mail[h]
  BY <1>1 DEF OwnInv, HandlersOwnTheirBuilds, Owning
<1>4. HandlersOwnTheirBuilds'
  <2>1. \A g \in Handlers \ {h} : pc'[g] = pc[g]
    BY <1>0, <1>1 DEF IInv, TypeOK
  <2>2. pc'[h] = "reply"
    BY <1>0, <1>1 DEF IInv, TypeOK
  <2>3. \A g \in Handlers \ {h} : Owning(g) /\ bid[g] # 0 => results'[bid[g]] = results[bid[g]]
    BY <1>0, <1>1, <1>2 DEF OwnInv, IInv, TypeOK, HandlersOwnTheirBuilds, Owning
  <2> QED
    BY <1>1, <2>1, <2>2, <2>3 DEF OwnInv, HandlersOwnTheirBuilds, Owning
<1>5. ResultsBelongToBuild'
  <2> SUFFICES ASSUME NEW b \in DOMAIN builds
               PROVE  Published(b)' \in {<<>>} \cup Reports[ReportUrl[builds[b]]]
    BY <1>1 DEF ResultsBelongToBuild
  <2>1. b \in BuildIds /\ b # 0
    BY <1>0, BoundAssumption DEF IInv, BuildIds
  <2>2. CASE b = bid[h]
    <3>1. items[h] \in Reports[ReportUrl[mail[h]]]
      BY <1>0, <1>1 DEF IInv, HandlersHaveReports
    <3>2. Published(b)' = Published(bid[h])'
      BY <1>1, <2>2 DEF Published, Resolved
    <3> QED
      BY <1>2, <1>3, <2>1, <2>2, <3>1, <3>2
  <2>3. CASE b # bid[h]
    BY <1>2, <2>1, <2>3 DEF OwnInv, ResultsBelongToBuild
  <2> QED
    BY <2>2, <2>3
<1> QED
  BY <1>1, <1>4, <1>5 DEF OwnInv

\* A request begins without an id.
LEMMA OwnAccept ==
    ASSUME OwnInv, NEW h \in Handlers, NEW m \in Mails, Accept(h, m), NEW g \in Handlers
    PROVE  /\ pc'[g] \in {"idle", "put_build"} => bid'[g] = 0
           /\ \/ ~Owning(g)' \/ bid'[g] = 0
              \/ Owning(g) /\ bid'[g] = bid[g] /\ mail'[g] = mail[g]
BY DEF Accept, Goto, OwnInv, IInv, TypeOK, HandlersOwnTheirBuilds, Owning

\* A handler that moves on without a change to the tables owns what it owned.
LEMMA OwnMove ==
    ASSUME OwnInv, NEW h \in Handlers, NEW g \in Handlers,
           \/ PutBuildFails(h) \/ Fetched(h) \/ FetchFails(h) \/ BeginResults(h)
           \/ BeginFails(h) \/ WriteResult(h) \/ Rollback(h)
    PROVE  /\ pc'[g] \in {"idle", "put_build"} => bid'[g] = 0
           /\ \/ ~Owning(g)' \/ bid'[g] = 0
              \/ Owning(g) /\ bid'[g] = bid[g] /\ mail'[g] = mail[g]
<1>1. PICK stage \in {"fetch", "reply", "put_results", "writing"} :
          /\ pc' = [pc EXCEPT ![h] = stage]
          /\ stage = "fetch" => pc[h] = "put_build"
          /\ stage \in {"put_results", "writing"} => Owning(h)
      \/ UNCHANGED pc
  BY DEF PutBuildFails, Fetched, FetchFails, BeginResults, BeginFails, WriteResult, Rollback, Goto,
         handler, Owning
<1>2. UNCHANGED <<bid, mail>>
  BY DEF PutBuildFails, Fetched, FetchFails, BeginResults, BeginFails, WriteResult, Rollback, handler
<1> QED
  BY <1>1, <1>2 DEF OwnInv, IInv, TypeOK, HandlersOwnTheirBuilds, Owning

\* A handler that is over owns nothing.
LEMMA OwnReturn ==
    ASSUME OwnInv, NEW h \in Handlers, Return(h), NEW g \in Handlers
    PROVE  /\ pc'[g] \in {"idle", "put_build"} => bid'[g] = 0
           /\ \/ ~Owning(g)' \/ bid'[g] = 0
              \/ Owning(g) /\ bid'[g] = bid[g] /\ mail'[g] = mail[g]
BY DEF Return, Goto, OwnInv, IInv, TypeOK, HandlersOwnTheirBuilds, Owning

\* If commits succeed, every step keeps the second invariant.
LEMMA NextOwnInv ==
    ASSUME CommitsSucceed, OwnInv, IInv', [Next]_vars
    PROVE  OwnInv'
<1>1. readers' = {}
  BY DEF CommitsSucceed, OwnInv, IInv, TypeOK
<1>2. ASSUME NEW m \in Mails, Reject(m) \/ Ignore(m) PROVE OwnInv'
  <2>1. UNCHANGED <<db, pc, bid, mail>>
    BY <1>2 DEF Reject, Ignore, handler
  <2> QED
    BY <1>1, <2>1, OwnFrame DEF OwnInv, HandlersOwnTheirBuilds, Owning
<1>3. ASSUME NEW m \in Mails, NEW h \in Handlers, Accept(h, m) PROVE OwnInv'
  <2>1. UNCHANGED db
    BY <1>3 DEF Accept
  <2> QED
    BY <1>1, <1>3, <2>1, OwnFrame, OwnAccept
<1>4. ASSUME NEW h \in Handlers, PutBuild(h) PROVE OwnInv'
  <2>1. ~PutBuildRolledBack(h)
    BY DEF CommitsSucceed, OwnInv, PutBuildRolledBack
  <2>2. ASSUME PutBuildFails(h) PROVE OwnInv'
    <3>1. UNCHANGED db
      BY <2>2 DEF PutBuildFails
    <3> QED
      BY <1>1, <2>2, <3>1, OwnFrame, OwnMove
  <2> QED
    BY <1>4, <2>1, <2>2, OwnPutBuildStored, OwnPutBuildInterrupted DEF PutBuild
<1>5. ASSUME NEW h \in Handlers, FetchReport(h) PROVE OwnInv'
  <2>1. UNCHANGED db
    BY <1>5 DEF FetchReport, Fetched, FetchFails, FetchPanics
  <2>2. Fetched(h) \/ FetchFails(h) \/ Return(h)
    BY <1>5 DEF FetchReport, FetchPanics
  <2> QED
    BY <1>1, <2>1, <2>2, OwnFrame, OwnMove, OwnReturn
<1>6. ASSUME NEW h \in Handlers, PutResults(h) PROVE OwnInv'
  <2>1. CASE Commit(h)
    BY <2>1, OwnCommit
  <2>2. CASE BeginResults(h) \/ BeginFails(h) \/ WriteResult(h) \/ Rollback(h)
    <3>1. UNCHANGED db
      BY <2>2 DEF BeginResults, BeginFails, WriteResult, Rollback
    <3> QED
      BY <1>1, <2>2, <3>1, OwnFrame, OwnMove
  <2> QED
    BY <1>6, <2>1, <2>2 DEF PutResults
<1>7. ASSUME NEW h \in Handlers, Reply(h) PROVE OwnInv'
  <2>1. UNCHANGED db /\ Return(h)
    BY <1>7 DEF Reply
  <2> QED
    BY <1>1, <2>1, OwnFrame, OwnReturn
<1>8. ASSUME NEW h \in Handlers, Cancel(h) PROVE OwnInv'
  <2>1. UNCHANGED <<db, pc, bid, mail>>
    BY <1>8 DEF Cancel
  <2> QED
    BY <1>1, <2>1, OwnFrame DEF OwnInv, HandlersOwnTheirBuilds, Owning
<1>9. ASSUME NEW p \in Pages PROVE FALSE
  BY <1>9 DEF CommitsSucceed
<1>10. CASE Crash
  <2>1. UNCHANGED db /\ pc' = [h \in Handlers |-> "idle"] /\ bid' = [h \in Handlers |-> 0]
    BY <1>10 DEF Crash
  <2> QED
    BY <1>1, <2>1, OwnFrame
<1>11. CASE UNCHANGED vars
  <2>1. UNCHANGED <<db, pc, bid, mail>>
    BY <1>11 DEF vars, handler
  <2> QED
    BY <1>1, <2>1, OwnFrame DEF OwnInv, HandlersOwnTheirBuilds, Owning
<1> QED
  BY <1>2, <1>3, <1>4, <1>5, <1>6, <1>7, <1>8, <1>9, <1>10, <1>11 DEF Next, Serve

\* If commits succeed, the second invariant holds of every run.
THEOREM OwnershipInvariant ==
    ASSUME CommitsSucceed
    PROVE  Spec => []OwnInv
<1>1. OwnInv /\ [Next]_vars => OwnInv'
  BY NextIInv, NextOwnInv DEF OwnInv
<1> QED
  BY InitOwnInv, <1>1, PTL DEF Spec

\* If no reader outlasts the busy timeout and the disk does its job, no build
\* ever shows the results of another mail's report (PutBuild, ingest.go:181).
THEOREM ResultsAreOwn ==
    ASSUME CommitsSucceed
    PROVE  Spec => []ResultsBelongToBuild
<1>1. OwnInv => ResultsBelongToBuild
  BY DEF OwnInv
<1> QED
  BY <1>1, OwnershipInvariant, PTL

\* If commits succeed, once a build has results, no step of any ingest changes what they say
\* (each one starts with a DELETE, ddao/manual_additions.go:99).
THEOREM ResultsStay ==
    ASSUME CommitsSucceed
    PROVE  Spec => ResultsNeverLost
<1>1. ASSUME OwnInv, [Next]_vars, NEW b \in BuildIds, results[b] # <<>>
      PROVE  Published(b)' = Published(b)
  <2>1. CASE UNCHANGED <<pkgs, results>>
    BY <2>1 DEF Published, Resolved
  <2>2. ASSUME NEW h \in Handlers, Commit(h)
        PROVE  Published(b)' = Published(b)
    <3>1. b # bid[h]
      BY <1>1, <2>2, CommitFindsEmpty
    <3> QED
      BY <1>1, <2>2, <3>1, CommitPublishes DEF OwnInv
  <2> QED
    BY <1>1, <2>1, <2>2, DatabaseStep DEF db, PutBuildStored, PutBuildInterrupted
<1>2. OwnInv /\ [Next]_vars =>
          [\A b \in BuildIds : results[b] # <<>> => Published(b)' = Published(b)]_vars
  BY <1>1
<1> QED
  BY <1>2, OwnershipInvariant, PTL DEF Spec, ResultsNeverLost

-----------------------------------------------------------------------------
(* Every package has a result.                                             *)

PkgInv == PackagesHaveResults /\ NewPackagesWritten

\* What PkgInv says does not change in a step that touches neither pkgs nor
\* results nor the transaction, and takes no build away.
LEMMA PkgFrame ==
    ASSUME IInv, PkgInv, UNCHANGED <<pkgs, results, tx>>, DOMAIN builds \subseteq DOMAIN builds',
           \A h \in Handlers : writer = h => bid'[h] = bid[h]
    PROVE  PkgInv'
<1>1. PackagesHaveResults'
  BY DEF PkgInv, PackagesHaveResults
<1>2. NewPackagesWritten'
  BY DEF PkgInv, NewPackagesWritten, tx
<1> QED
  BY <1>1, <1>2 DEF PkgInv

\* Without a transaction there are no packages that only the writer sees.
LEMMA PkgNoWriter ==
    ASSUME PkgInv, UNCHANGED db, writer' \notin Handlers \/ txPkgs' = pkgs'
    PROVE  PkgInv'
<1>1. PackagesHaveResults'
  BY DEF PkgInv, PackagesHaveResults, db
<1>2. NewPackagesWritten'
  BY DEF NewPackagesWritten
<1> QED
  BY <1>1, <1>2 DEF PkgInv

\* A round of the loop puts at most one new package, and its row of results
\* names that package.
LEMMA PkgWriteResult ==
    ASSUME IInv, PkgInv, NEW h \in Handlers, WriteResult(h)
    PROVE  PkgInv'
<1> DEFINE item == items[h][written + 1]
           ps == PutPkg(txPkgs, item.path)
           row == [pkg |-> GetPkgID(ps, item.path), rec |-> item.rec]
           rows == txResults[bid[h]]
<1>1. /\ UNCHANGED <<builds, pkgs, results, writer, bid>>
      /\ txPkgs' = ps /\ txResults' = PutResult(txResults, bid[h], row)
  BY DEF WriteResult, db, handler
<1>2. /\ writer = h /\ bid[h] \in BuildIds
      /\ txPkgs \in Seq(Paths) /\ txResults \in [BuildIds -> Seq(Rows)] /\ rows \in Seq(Rows)
  BY DEF WriteResult, IInv, LockHeldInTransaction, TypeOK
<1>3. txResults'[bid[h]] = Append(rows, row)
  BY <1>1, <1>2 DEF PutResult
<1>4. PackagesHaveResults'
  BY <1>1 DEF PkgInv, PackagesHaveResults
<1>5. ASSUME NEW i \in DOMAIN ps \ DOMAIN pkgs
      PROVE  \E k \in DOMAIN Append(rows, row) : Append(rows, row)[k].pkg = i
  <2>1. CASE i \in DOMAIN txPkgs
    <3>1. PICK k \in DOMAIN rows : rows[k].pkg = i
      BY <1>2, <1>5, <2>1 DEF PkgInv, NewPackagesWritten
    <3>2. k \in DOMAIN Append(rows, row) /\ Append(rows, row)[k] = rows[k]
      BY <1>2, <3>1
    <3> QED
      BY <3>1, <3>2
  <2>2. CASE i \notin DOMAIN txPkgs
    <3>1. ps = Append(txPkgs, item.path) /\ ~ \E j \in DOMAIN txPkgs : txPkgs[j] = item.path
      BY <1>5, <2>2 DEF PutPkg
    <3>2. i = Len(txPkgs) + 1
      BY <1>2, <1>5, <2>2, <3>1
    <3>3. ps[i] = item.path /\ \A j \in DOMAIN ps : ps[j] = item.path => j = i
      BY <1>2, <3>1, <3>2
    <3>4. GetPkgID(ps, item.path) = i
      <4> HIDE DEF ps, item
      <4> QED
        BY <1>5, <3>3 DEF GetPkgID
    <3>5. Len(rows) + 1 \in DOMAIN Append(rows, row) /\ Append(rows, row)[Len(rows) + 1] = row
      BY <1>2
    <3>6. row.pkg = i
      BY <3>4
    <3> HIDE DEF row, rows
    <3> QED
      BY <3>5, <3>6
  <2> QED
    BY <2>1, <2>2
<1>6. NewPackagesWritten'
  <2> SUFFICES ASSUME NEW g \in Handlers, writer' = g, NEW i \in DOMAIN txPkgs' \ DOMAIN pkgs'
               PROVE  \E k \in DOMAIN txResults'[bid'[g]] : txResults'[bid'[g]][k].pkg = i
    BY DEF NewPackagesWritten
  <2>1. g = h
    BY <1>1, <1>2
  <2>2. i \in DOMAIN ps \ DOMAIN pkgs
    BY <1>1
  <2>3. txResults'[bid'[g]] = Append(rows, row)
    BY <1>1, <1>3, <2>1
  <2> HIDE DEF ps, row, rows
  <2> QED
    BY <1>5, <2>2, <2>3
<1> QED
  BY <1>4, <1>6 DEF PkgInv

\* A commit publishes what the writer has put, and it takes no result away: the
\* build that it writes to had none.
LEMMA PkgCommit ==
    ASSUME OwnInv, PkgInv, NEW h \in Handlers, Commit(h)
    PROVE  PkgInv'
<1>0. IInv
  BY DEF OwnInv
<1>1. /\ UNCHANGED <<builds, bid>> /\ writer' = NoOne
      /\ pkgs' = txPkgs /\ results' = txResults
  BY DEF Commit, DropTx
<1>2. writer = h
  BY <1>0 DEF Commit, IInv, LockHeldInTransaction
<1>3. results[bid[h]] = <<>> /\ bid[h] \in BuildIds
  BY CommitFindsEmpty
<1>4. \A b \in BuildIds \ {bid[h]} : txResults[b] = results[b]
  BY <1>0, <1>2 DEF IInv, TransactionHoldsPrefix
<1>5. ASSUME NEW i \in DOMAIN txPkgs
      PROVE  \E b \in DOMAIN builds : \E k \in DOMAIN txResults[b] : txResults[b][k].pkg = i
  <2>1. CASE i \in DOMAIN pkgs
    <3>1. PICK b \in DOMAIN builds : \E k \in DOMAIN results[b] : results[b][k].pkg = i
      BY <2>1 DEF PkgInv, PackagesHaveResults
    <3>2. b \in BuildIds
      BY <1>0, BoundAssumption DEF IInv, BuildIds
    <3>3. b # bid[h]
      BY <1>3, <3>1
    <3> QED
      BY <1>4, <3>1, <3>2, <3>3
  <2>2. CASE i \notin DOMAIN pkgs
    <3>1. PICK k \in DOMAIN txResults[bid[h]] : txResults[bid[h]][k].pkg = i
      BY <1>2, <2>2 DEF PkgInv, NewPackagesWritten
    <3>2. Len(txResults[bid[h]]) = written /\ (bid[h] \notin DOMAIN builds => written = 0)
      BY <1>0, <1>2 DEF IInv, TransactionHoldsPrefix
    <3>3. txResults[bid[h]] \in Seq(Rows)
      BY <1>0, <1>3 DEF IInv, TypeOK
    <3>4. bid[h] \in DOMAIN builds
      BY <3>1, <3>2, <3>3
    <3> QED
      BY <3>1, <3>4
  <2> QED
    BY <2>1, <2>2
<1>6. PackagesHaveResults'
  BY <1>1, <1>5 DEF PackagesHaveResults
<1>7. NewPackagesWritten'
  BY <1>1, BoundAssumption DEF NewPackagesWritten
<1> QED
  BY <1>6, <1>7 DEF PkgInv

\* The writer keeps its build until its transaction is over.
LEMMA WriterKeepsBuild ==
    ASSUME IInv, NEW g \in Handlers, writer = g,
           \/ \E m \in Mails : Reject(m) \/ Ignore(m) \/ \E h \in Handlers : Accept(h, m)
           \/ \E h \in Handlers : \/ PutBuild(h) \/ FetchReport(h) \/ BeginFails(h)
                                  \/ Reply(h) \/ Cancel(h)
           \/ UNCHANGED vars
    PROVE  bid'[g] = bid[g]
<1>1. pc[g] = "writing"
  BY DEF IInv, LockHeldInTransaction
<1>2. ASSUME NEW h \in Handlers, PutBuild(h) \/ FetchPanics(h) \/ Reply(h) PROVE bid'[g] = bid[g]
  <2>1. h # g
    BY <1>1, <1>2 DEF PutBuild, PutBuildStored, PutBuildInterrupted, PutBuildRolledBack,
                      PutBuildFails, FetchPanics, Reply
  <2>2. bid' = bid \/ \E b : bid' = [bid EXCEPT ![h] = b]
    BY <1>2 DEF PutBuild, PutBuildStored, PutBuildInterrupted, PutBuildRolledBack,
                PutBuildFails, FetchPanics, Reply, Return, handler
  <2> QED
    BY <2>1, <2>2 DEF IInv, TypeOK
<1> QED
  BY <1>2 DEF Reject, Ignore, Accept, FetchReport, Fetched, FetchFails, BeginFails, Cancel, vars, handler

\* Every step keeps it, if commits succeed.
LEMMA NextPkgInv ==
    ASSUME OwnInv, PkgInv, [Next]_vars
    PROVE  PkgInv'
<1>0. IInv
  BY DEF OwnInv
<1>1. CASE \/ \E m \in Mails : Reject(m) \/ Ignore(m) \/ \E h \in Handlers : Accept(h, m)
           \/ \E h \in Handlers : \/ FetchReport(h) \/ BeginFails(h) \/ Reply(h) \/ Cancel(h)
                                  \/ PutBuildFails(h) \/ PutBuildRolledBack(h)
           \/ UNCHANGED vars
  <2>1. UNCHANGED <<builds, pkgs, results, tx>>
    BY <1>1 DEF Reject, Ignore, Accept, FetchReport, Fetched, FetchFails, FetchPanics, BeginFails,
                Reply, Cancel, PutBuildFails, PutBuildRolledBack, vars, db
  <2>2. \A h \in Handlers : writer = h => bid'[h] = bid[h]
    BY <1>0, <1>1, WriterKeepsBuild DEF PutBuild
  <2> QED
    BY <1>0, <2>1, <2>2, PkgFrame
<1>2. ASSUME NEW h \in Handlers, PutBuildStored(h) \/ PutBuildInterrupted(h) PROVE PkgInv'
  <2>1. UNCHANGED <<pkgs, results, tx>> /\ builds' = Append(builds, mail[h])
    BY <1>2 DEF PutBuildStored, PutBuildInterrupted, InsertBuild
  <2>2. DOMAIN builds \subseteq DOMAIN builds'
    BY <1>0, <2>1 DEF IInv
  <2>3. \A g \in Handlers : writer = g => bid'[g] = bid[g]
    BY <1>0, <1>2, WriterKeepsBuild DEF PutBuild
  <2> QED
    BY <1>0, <2>1, <2>2, <2>3, PkgFrame
<1>3. ASSUME NEW h \in Handlers, BeginResults(h) PROVE PkgInv'
  <2>1. UNCHANGED db /\ txPkgs' = pkgs'
    BY <1>0, <1>3 DEF BeginResults, IInv, LockHeldInTransaction, db
  <2> QED
    BY <2>1, PkgNoWriter
<1>4. ASSUME NEW h \in Handlers, Rollback(h) PROVE PkgInv'
  BY <1>4, PkgNoWriter DEF Rollback, DropTx
<1>5. CASE Crash
  BY <1>5, PkgNoWriter DEF Crash, DropTx
<1>6. ASSUME NEW p \in Pages, OpenPage(p) \/ ClosePage(p) PROVE PkgInv'
  BY <1>0, <1>6, PkgFrame DEF OpenPage, ClosePage, db, handler
<1> QED
  BY <1>0, <1>1, <1>2, <1>3, <1>4, <1>5, <1>6, PkgWriteResult, PkgCommit
     DEF Next, Serve, PutBuild, PutResults

\* If commits succeed, every package has a result in a build that exists, so a
\* page that lists the table pkgs links to nothing that is empty.
THEOREM PackagesAreReal ==
    ASSUME CommitsSucceed
    PROVE  Spec => []PackagesHaveResults
<1>1. Init => PkgInv
  BY DEF Init, PkgInv, PackagesHaveResults, NewPackagesWritten
<1>2. OwnInv /\ PkgInv /\ [Next]_vars => PkgInv'
  BY NextPkgInv
<1>3. PkgInv => PackagesHaveResults
  BY DEF PkgInv
<1> QED
  BY <1>1, <1>2, <1>3, OwnershipInvariant, PTL DEF Spec

-----------------------------------------------------------------------------
(* Builds are not made up.                                                 *)

\* The rows of a mail.
RowsOf(m) == {b \in DOMAIN builds : builds[b] = m}

\* A handler may still insert a row for its mail.
MayInsert(h) == pc[h] = "put_build" /\ ~cancelled[h]

\* The sender waits for one answer at a time, so of the handlers with one mail at
\* most one may insert a row; and while one may, there is one row less than the
\* mail was sent.
SentInv ==
    /\ \A g, h \in Handlers :
          InFlight(g) /\ InFlight(h) /\ ~cancelled[g] /\ ~cancelled[h] /\ mail[g] = mail[h] => g = h
    /\ \A m \in Mails : Cardinality(RowsOf(m)) <= sends[m]
    /\ \A h \in Handlers : MayInsert(h) => Cardinality(RowsOf(mail[h])) < sends[mail[h]]

LEMMA RowsFinite ==
    ASSUME IInv, NEW m
    PROVE  IsFiniteSet(RowsOf(m)) /\ Cardinality(RowsOf(m)) \in Nat
<1>1. DOMAIN builds = 1..Len(builds) /\ Len(builds) \in Nat
  BY DEF IInv
<1>2. RowsOf(m) \subseteq 1..Len(builds) /\ IsFiniteSet(1..Len(builds))
  BY <1>1, FS_Interval DEF RowsOf
<1>3. IsFiniteSet(RowsOf(m))
  BY <1>2, FS_Subset
<1> QED
  BY <1>3, FS_CardinalityType

\* An insert adds a row for its own mail.
LEMMA InsertAddsRow ==
    ASSUME IInv, NEW h \in Handlers, mail[h] \in Mails, InsertBuild(h)
    PROVE  /\ Cardinality({b \in DOMAIN builds' : builds'[b] = mail[h]})
                  = Cardinality(RowsOf(mail[h])) + 1
           /\ \A m \in Mails : m # mail[h] => RowsOf(m)' = RowsOf(m)
<1> DEFINE l == Len(builds)
           x == mail[h]
<1>1. builds \in Seq(Mails) /\ builds' = Append(builds, x)
  BY DEF InsertBuild, IInv, TypeOK
<1>2. /\ DOMAIN builds = 1..l /\ l \in Nat /\ DOMAIN builds' = 1..(l + 1)
      /\ builds'[l + 1] = x /\ \A b \in 1..l : builds'[b] = builds[b]
  BY <1>1
<1>3. ASSUME NEW m \in Mails, m # x PROVE RowsOf(m)' = RowsOf(m)
  <2>1. RowsOf(m)' = {b \in 1..(l + 1) : builds'[b] = m}
    BY <1>2 DEF RowsOf
  <2>2. RowsOf(m) = {b \in 1..l : builds[b] = m}
    BY <1>2 DEF RowsOf
  <2> QED
    BY <1>2, <1>3, <2>1, <2>2
<1>4. {b \in DOMAIN builds' : builds'[b] = x} = RowsOf(x) \cup {l + 1}
  <2>1. RowsOf(x) = {b \in 1..l : builds[b] = x}
    BY <1>2 DEF RowsOf
  <2> HIDE DEF l, x
  <2> QED
    BY <1>2, <2>1
<1>5. l + 1 \notin RowsOf(x)
  BY <1>2 DEF RowsOf
<1>6. Cardinality(RowsOf(x) \cup {l + 1}) = Cardinality(RowsOf(x)) + 1
  BY <1>5, RowsFinite, FS_AddElement
<1> QED
  BY <1>3, <1>4, <1>6

\* Without an insert or a mail that arrives nobody comes to insert a row.
LEMMA SentFrame ==
    ASSUME IInv, SentInv, UNCHANGED <<builds, sends>>,
           \A g \in Handlers : InFlight(g)' /\ ~cancelled'[g] =>
               InFlight(g) /\ ~cancelled[g] /\ mail'[g] = mail[g] /\ (MayInsert(g)' => MayInsert(g))
    PROVE  SentInv'
<1>1. \A m : RowsOf(m)' = RowsOf(m)
  BY DEF RowsOf
<1>2. ASSUME NEW g \in Handlers, NEW h \in Handlers,
             InFlight(g)', InFlight(h)', ~cancelled'[g], ~cancelled'[h], mail'[g] = mail'[h]
      PROVE  g = h
  BY <1>2 DEF SentInv
<1>3. \A m \in Mails : Cardinality(RowsOf(m)') <= sends'[m]
  BY <1>1 DEF SentInv
<1>4. ASSUME NEW h \in Handlers, MayInsert(h)'
      PROVE  Cardinality({b \in DOMAIN builds' : builds'[b] = mail'[h]}) < sends'[mail'[h]]
  <2>1. mail'[h] = mail[h] /\ MayInsert(h)
    BY <1>4 DEF MayInsert, InFlight
  <2>2. Cardinality(RowsOf(mail[h])) < sends[mail[h]]
    BY <2>1 DEF SentInv
  <2> QED
    BY <2>1, <2>2 DEF RowsOf
<1> QED
  BY <1>2, <1>3, <1>4 DEF SentInv, RowsOf

LEMMA SentSend ==
    ASSUME IInv, SentInv, NEW m \in Mails, Reject(m) \/ Ignore(m)
    PROVE  SentInv'
<1>1. UNCHANGED <<builds, pc, mail, cancelled>> /\ sends' = [sends EXCEPT ![m] = @ + 1]
  BY DEF Reject, Ignore, Send, db, handler
<1>3. \A n : RowsOf(n)' = RowsOf(n)
  BY <1>1 DEF RowsOf
<1>4. ASSUME NEW n \in Mails PROVE Cardinality(RowsOf(n)') <= sends'[n]
  <2>1. Cardinality(RowsOf(n)) \in Nat /\ Cardinality(RowsOf(n)) <= sends[n]
    BY RowsFinite DEF SentInv
  <2>2. sends[n] \in Nat /\ sends'[n] \in Nat /\ sends'[n] >= sends[n]
    BY <1>1 DEF IInv, TypeOK
  <2> QED
    BY <1>3, <2>1, <2>2
<1>5. ASSUME NEW h \in Handlers, MayInsert(h)
      PROVE  Cardinality(RowsOf(mail[h])) < sends'[mail[h]]
  <2>1. mail[h] \in Mails
    BY <1>5 DEF MayInsert, IInv, HandlersHaveReports, InFlight, ReportMails
  <2>2. Cardinality(RowsOf(mail[h])) < sends[mail[h]]
    BY <1>5 DEF SentInv
  <2>3. Cardinality(RowsOf(mail[h])) \in Nat
    BY RowsFinite
  <2>4. sends[mail[h]] \in Nat /\ sends'[mail[h]] \in Nat /\ sends'[mail[h]] >= sends[mail[h]]
    BY <1>1, <2>1 DEF IInv, TypeOK
  <2> QED
    BY <2>2, <2>3, <2>4
<1>6. \A h \in Handlers : MayInsert(h)' <=> MayInsert(h)
  BY <1>1 DEF MayInsert
<1>7. \A h \in Handlers : InFlight(h)' <=> InFlight(h)
  BY <1>1 DEF InFlight
<1> QED
  BY <1>1, <1>4, <1>5, <1>6, <1>7 DEF SentInv, RowsOf

\* The sender only tries again when it has given up on the earlier attempts.
LEMMA SentAccept ==
    ASSUME IInv, SentInv, NEW h \in Handlers, NEW m \in Mails, Accept(h, m)
    PROVE  SentInv'
<1>1. /\ UNCHANGED <<builds, cancelled>> /\ sends' = [sends EXCEPT ![m] = @ + 1]
      /\ pc' = [pc EXCEPT ![h] = "put_build"] /\ mail' = [mail EXCEPT ![h] = m]
      /\ \A g \in Handlers : InFlight(g) /\ mail[g] = m => cancelled[g]
  BY DEF Accept, Send, Goto, db
<1>2. /\ pc'[h] = "put_build" /\ mail'[h] = m
      /\ \A g \in Handlers \ {h} : pc'[g] = pc[g] /\ mail'[g] = mail[g]
  BY <1>1 DEF IInv, TypeOK
<1>3. /\ sends[m] \in Nat /\ sends'[m] = sends[m] + 1
      /\ \A n \in Mails \ {m} : sends'[n] = sends[n]
  BY <1>1 DEF IInv, TypeOK
<1>4. \A n : RowsOf(n)' = RowsOf(n)
  BY <1>1 DEF RowsOf
<1>5. \A n \in Mails : Cardinality(RowsOf(n)') <= sends'[n]
  BY <1>3, <1>4, RowsFinite DEF SentInv
<1>6. ASSUME NEW f \in Handlers, NEW g \in Handlers,
             InFlight(f)', InFlight(g)', ~cancelled'[f], ~cancelled'[g], mail'[f] = mail'[g]
      PROVE  f = g
  BY <1>1, <1>2, <1>6 DEF SentInv, InFlight
<1>7. ASSUME NEW g \in Handlers, MayInsert(g)'
      PROVE  Cardinality({b \in DOMAIN builds' : builds'[b] = mail'[g]}) < sends'[mail'[g]]
  <2>1. CASE mail'[g] = m
    <3>1. Cardinality(RowsOf(m)) <= sends[m]
      BY DEF SentInv
    <3>2. Cardinality(RowsOf(m)) < sends'[m]
      BY <1>3, <3>1, RowsFinite
    <3> QED
      BY <1>1, <2>1, <3>2 DEF RowsOf
  <2>2. CASE mail'[g] # m
    <3>1. g # h /\ MayInsert(g) /\ mail'[g] = mail[g]
      BY <1>1, <1>2, <1>7, <2>2 DEF MayInsert
    <3>2. mail[g] \in Mails
      BY <3>1 DEF MayInsert, IInv, HandlersHaveReports, InFlight, ReportMails
    <3>3. Cardinality(RowsOf(mail[g])) < sends'[mail[g]]
      BY <1>3, <2>2, <3>1, <3>2 DEF SentInv
    <3> QED
      BY <1>1, <3>1, <3>3 DEF RowsOf
  <2> QED
    BY <2>1, <2>2
<1> QED
  BY <1>5, <1>6, <1>7 DEF SentInv, RowsOf

\* Nobody else may insert a row for the mail of the one that does.
LEMMA SentInsert ==
    ASSUME IInv, SentInv, NEW h \in Handlers, PutBuildStored(h) \/ PutBuildInterrupted(h)
    PROVE  SentInv'
<1>1. /\ MayInsert(h) /\ InsertBuild(h) /\ UNCHANGED <<mail, sends>> /\ pc' = [pc EXCEPT ![h] = "fetch"]
      /\ cancelled' = cancelled \/ cancelled' = [cancelled EXCEPT ![h] = TRUE]
  BY DEF PutBuildStored, PutBuildInterrupted, MayInsert, Goto, sender
<1>2. mail[h] \in Mails
  BY <1>1 DEF MayInsert, IInv, HandlersHaveReports, InFlight, ReportMails
<1>3. /\ Cardinality({b \in DOMAIN builds' : builds'[b] = mail[h]}) = Cardinality(RowsOf(mail[h])) + 1
      /\ \A m \in Mails : m # mail[h] => RowsOf(m)' = RowsOf(m)
  BY <1>1, <1>2, InsertAddsRow
<1>4. ~MayInsert(h)' /\ \A g \in Handlers \ {h} : MayInsert(g)' <=> MayInsert(g)
  BY <1>1 DEF MayInsert, IInv, TypeOK
<1>5. ASSUME NEW g \in Handlers, InFlight(g)', ~cancelled'[g]
      PROVE  InFlight(g) /\ ~cancelled[g]
  <2>1. InFlight(h)
    BY <1>1 DEF MayInsert, InFlight
  <2> QED
    BY <1>1, <1>5, <2>1 DEF InFlight, IInv, TypeOK
<1>6. ASSUME NEW m \in Mails
      PROVE  Cardinality({b \in DOMAIN builds' : builds'[b] = m}) <= sends'[m]
  <2>1. CASE m = mail[h]
    <3>1. Cardinality(RowsOf(m)) < sends[m] /\ sends[m] \in Nat
      BY <1>1, <2>1 DEF SentInv, IInv, TypeOK
    <3>2. Cardinality(RowsOf(m)) + 1 <= sends[m]
      BY <3>1, RowsFinite
    <3> QED
      BY <1>1, <1>3, <2>1, <3>2
  <2>2. CASE m # mail[h]
    BY <1>1, <1>3, <2>2 DEF SentInv, RowsOf
  <2> QED
    BY <2>1, <2>2
<1>7. ASSUME NEW g \in Handlers, MayInsert(g)'
      PROVE  Cardinality({b \in DOMAIN builds' : builds'[b] = mail'[g]}) < sends'[mail'[g]]
  <2>1. g # h /\ MayInsert(g) /\ mail' = mail
    BY <1>1, <1>4, <1>7
  <2>2. mail[g] # mail[h]
    BY <1>1, <2>1 DEF SentInv, MayInsert, InFlight
  <2>3. mail[g] \in Mails
    BY <2>1 DEF MayInsert, IInv, HandlersHaveReports, InFlight, ReportMails
  <2>4. Cardinality(RowsOf(mail[g])) < sends[mail[g]]
    BY <2>1 DEF SentInv
  <2> QED
    BY <1>1, <1>3, <2>1, <2>2, <2>3, <2>4 DEF RowsOf
<1>8. \A f, g \in Handlers :
          InFlight(f)' /\ InFlight(g)' /\ ~cancelled'[f] /\ ~cancelled'[g] /\ mail'[f] = mail'[g] => f = g
  BY <1>1, <1>5 DEF SentInv
<1> QED
  BY <1>6, <1>7, <1>8 DEF SentInv, RowsOf

\* The other steps of a handler.
LEMMA SentMove ==
    ASSUME IInv, SentInv, NEW h \in Handlers,
           \/ PutBuildRolledBack(h) \/ PutBuildFails(h) \/ FetchReport(h) \/ PutResults(h)
           \/ Reply(h) \/ Cancel(h)
    PROVE  SentInv'
<1>1. UNCHANGED <<builds, sends>>
  BY DEF PutBuildRolledBack, PutBuildFails, FetchReport, Fetched, FetchFails, FetchPanics, PutResults,
         BeginResults, BeginFails, WriteResult, Commit, Rollback, Reply, Cancel, db, sender
<1>2. InFlight(h)
  BY DEF PutBuildRolledBack, PutBuildFails, FetchReport, Fetched, FetchFails, FetchPanics, PutResults,
         BeginResults, BeginFails, WriteResult, Commit, Rollback, Reply, Cancel, InFlight
<1>3. /\ pc' = pc \/ \E stage : pc' = [pc EXCEPT ![h] = stage] /\ stage # "put_build"
      /\ \/ mail' = mail
         \/ mail' = [mail EXCEPT ![h] = NoMail] /\ pc' = [pc EXCEPT ![h] = "idle"]
      /\ \/ cancelled' = cancelled \/ cancelled' = [cancelled EXCEPT ![h] = TRUE]
         \/ cancelled' = [cancelled EXCEPT ![h] = FALSE] /\ pc' = [pc EXCEPT ![h] = "idle"]
  BY DEF PutBuildRolledBack, PutBuildFails, FetchReport, Fetched, FetchFails, FetchPanics, PutResults,
         BeginResults, BeginFails, WriteResult, Commit, Rollback, Reply, Cancel, Return, Goto, handler
<1>4. ASSUME NEW g \in Handlers, InFlight(g)', ~cancelled'[g]
      PROVE  InFlight(g) /\ ~cancelled[g] /\ mail'[g] = mail[g] /\ (MayInsert(g)' => MayInsert(g))
  <2>1. CASE g = h
    <3>1. pc'[h] # "idle"
      BY <1>4, <2>1 DEF InFlight
    <3>2. mail' = mail /\ (cancelled' = cancelled \/ cancelled' = [cancelled EXCEPT ![h] = TRUE])
      BY <1>3, <3>1 DEF IInv, TypeOK
    <3>3. ~cancelled[h]
      BY <1>4, <2>1, <3>2 DEF IInv, TypeOK
    <3>4. pc'[h] = "put_build" => pc[h] = "put_build"
      BY <1>3 DEF IInv, TypeOK
    <3> QED
      BY <1>2, <2>1, <3>2, <3>3, <3>4 DEF MayInsert
  <2>2. CASE g # h
    <3>1. pc'[g] = pc[g]
      BY <1>3, <2>2 DEF IInv, TypeOK
    <3>2. mail'[g] = mail[g]
      BY <1>3, <2>2 DEF IInv, TypeOK
    <3>3. cancelled'[g] = cancelled[g]
      BY <1>3, <2>2 DEF IInv, TypeOK
    <3> QED
      BY <1>4, <3>1, <3>2, <3>3 DEF InFlight, MayInsert
  <2> QED
    BY <2>1, <2>2
<1> QED
  BY <1>1, <1>4, SentFrame

LEMMA NextSentInv ==
    ASSUME IInv, SentInv, [Next]_vars
    PROVE  SentInv'
<1>1. CASE Crash
  <2>1. UNCHANGED <<builds, sends>> /\ pc' = [h \in Handlers |-> "idle"]
    BY <1>1 DEF Crash, db, sender
  <2>2. \A g \in Handlers : ~InFlight(g)'
    BY <2>1 DEF InFlight
  <2> QED
    BY <2>1, <2>2, SentFrame
<1>2. ASSUME UNCHANGED vars \/ \E p \in Pages : OpenPage(p) \/ ClosePage(p)
      PROVE  SentInv'
  <2>1. UNCHANGED <<builds, sends, pc, mail, cancelled>>
    BY <1>2 DEF OpenPage, ClosePage, vars, db, handler, sender
  <2>2. \A g \in Handlers : /\ InFlight(g)' <=> InFlight(g)
                            /\ MayInsert(g)' <=> MayInsert(g)
    BY <2>1 DEF InFlight, MayInsert
  <2> QED
    BY <2>1, <2>2, SentFrame
<1> QED
  BY <1>1, <1>2, SentSend, SentAccept, SentInsert, SentMove DEF Next, Serve, PutBuild

\* No mail has more build rows than the times it was sent, whatever handlers,
\* readers, errors and crashes do: the sender waits before it tries again, and
\* PutBuild inserts at most once, even if it then reports a failure.
THEOREM BuildsAreSent == Spec => []BuildsWereSent
<1>1. Init => SentInv
  <2> SUFFICES ASSUME Init PROVE SentInv
    OBVIOUS
  <2>1. \A h \in Handlers : ~InFlight(h) /\ ~MayInsert(h)
    BY DEF Init, InFlight, MayInsert
  <2>2. ASSUME NEW m \in Mails PROVE Cardinality(RowsOf(m)) <= sends[m]
    <3>1. RowsOf(m) = {} /\ sends[m] = 0
      BY DEF Init, RowsOf
    <3> QED
      BY <3>1, FS_EmptySet
  <2> QED
    BY <2>1, <2>2 DEF SentInv
<1>2. IInv /\ SentInv /\ [Next]_vars => SentInv'
  BY NextSentInv
<1>3. SentInv => BuildsWereSent
  BY DEF SentInv, RowsOf, BuildsWereSent
<1> QED
  BY <1>1, <1>2, <1>3, InductiveInvariant, PTL DEF Spec

-----------------------------------------------------------------------------
(* Ingest implements BuildLog.                                             *)

\* A sequence that is one longer and begins the same is an Append.
LEMMA AppendLast ==
    ASSUME NEW S, NEW f \in Seq(S), NEW g \in Seq(S),
           Len(g) = Len(f) + 1, \A i \in 1..Len(f) : g[i] = f[i]
    PROVE  g = Append(f, g[Len(g)])
<1> DEFINE x == g[Len(g)]
<1>1. x \in S /\ Len(f) \in Nat
  OBVIOUS
<1>2. Append(f, x) \in Seq(S) /\ Len(Append(f, x)) = Len(g)
  BY <1>1
<1>3. \A i \in 1..Len(g) : g[i] = Append(f, x)[i]
  <2>1. \A i \in 1..Len(f) : Append(f, x)[i] = f[i]
    BY <1>1
  <2>2. Append(f, x)[Len(f) + 1] = x
    BY <1>1
  <2> QED
    BY <1>1, <2>1, <2>2
<1> HIDE DEF x
<1>4. g = Append(f, x)
  BY <1>2, <1>3, SeqEqual
<1> QED
  BY <1>4 DEF x

\* What the entries of the log may be.
LogEntries ==
    [mail : Mails, rows : {<<>>} \cup UNION {Reports[u] : u \in Urls}]

\* The abstract log is a sequence with one entry per build.
LEMMA LogType ==
    IInv => PublishedLog \in Seq(LogEntries) /\ Len(PublishedLog) = Len(builds)
<1> SUFFICES ASSUME IInv
             PROVE  PublishedLog \in Seq(LogEntries) /\ Len(PublishedLog) = Len(builds)
  OBVIOUS
<1>1. builds \in Seq(Mails) /\ Len(builds) \in Nat /\ DOMAIN builds = 1..Len(builds)
  BY DEF IInv, TypeOK
<1>2. \A b \in 1..Len(builds) : [mail |-> builds[b], rows |-> Published(b)] \in LogEntries
  <2>1. 1..Len(builds) \subseteq BuildIds
    BY <1>1, BoundAssumption DEF IInv, BuildIds
  <2> QED
    BY <1>1, <2>1 DEF IInv, AllOrNothing, LogEntries
<1>3. PublishedLog = [b \in 1..Len(builds) |-> [mail |-> builds[b], rows |-> Published(b)]]
  BY <1>1 DEF PublishedLog
<1>4. PublishedLog \in [1..Len(builds) -> LogEntries]
  BY <1>2, <1>3
<1> QED
  BY <1>1, <1>4

\* An insert into builds appends an entry without results to the log.
LEMMA InsertAnnounces ==
    ASSUME IInv, IInv', NEW h \in Handlers, PutBuildStored(h) \/ PutBuildInterrupted(h)
    PROVE  Log!Announce(mail[h])
<1>0. PICK n : n = Len(builds) + 1
  OBVIOUS
<1>1. pc[h] = "put_build" /\ InsertBuild(h) /\ UNCHANGED <<pkgs, results, txPkgs>>
  BY DEF PutBuildStored, PutBuildInterrupted, tx
<1>2. /\ Len(builds') = n /\ builds' \in Seq(Mails) /\ builds \in Seq(Mails)
      /\ \A b \in DOMAIN builds : builds'[b] = builds[b]
      /\ builds'[n] = mail[h] /\ results[n] = <<>>
  BY <1>0, <1>1, InsertBuildTables DEF IInv, TypeOK
<1>3. DOMAIN builds = 1..Len(builds) /\ DOMAIN builds' = 1..n /\ n = Len(builds) + 1 /\ n \in Nat
  BY <1>0, <1>2
<1>4. \A b : Published(b)' = Published(b)
  BY <1>1 DEF Published, Resolved
<1>5. Published(n) = <<>>
  BY <1>2 DEF Published, Resolved
<1>6. /\ PublishedLog \in Seq(LogEntries) /\ Len(PublishedLog) = Len(builds)
      /\ PublishedLog' \in Seq(LogEntries) /\ Len(PublishedLog') = Len(builds')
  <2>1. (IInv => PublishedLog \in Seq(LogEntries) /\ Len(PublishedLog) = Len(builds))'
    BY LogType, PTL
  <2> QED
    BY <2>1, LogType DEF LogEntries, Urls
<1>7. \A b \in 1..Len(builds) : PublishedLog'[b] = PublishedLog[b]
  BY <1>2, <1>3, <1>4 DEF PublishedLog
<1>8. PublishedLog'[n] = Log!Entry(mail[h], <<>>)
  <2>1. PublishedLog'[n] = [mail |-> builds'[n], rows |-> Published(n)']
    BY <1>3 DEF PublishedLog
  <2> QED
    BY <1>2, <1>4, <1>5, <2>1 DEF Log!Entry
<1>9. PublishedLog' = Append(PublishedLog, PublishedLog'[n])
  BY <1>2, <1>3, <1>6, <1>7, AppendLast
<1> QED
  BY <1>8, <1>9 DEF Log!Announce

\* A commit publishes a report in the handler's own entry, or is invisible.
LEMMA CommitPublishesLog ==
    ASSUME OwnInv, NEW h \in Handlers, Commit(h)
    PROVE  Log!Next \/ UNCHANGED PublishedLog
<1> DEFINE b == bid[h]
<1>1. /\ UNCHANGED builds
      /\ \A c \in BuildIds \ {b} : Published(c)' = Published(c)
      /\ \A c : c = b => Published(c)' = items[h]
      /\ b \in BuildIds /\ results[b] = <<>> /\ pc[h] = "writing"
  <2>1. UNCHANGED <<builds, bid>> /\ pc[h] = "writing"
    BY DEF Commit
  <2>2. \A c : c = b => Published(c)' = Published(b)'
    BY <2>1 DEF Published, Resolved
  <2> QED
    BY <2>1, <2>2, CommitPublishes, CommitFindsEmpty DEF OwnInv
<1>2. DOMAIN builds \subseteq BuildIds \ {0}
  <2>1. DOMAIN builds = 1..Len(builds) /\ Len(builds) \in Nat /\ Len(builds) <= MaxBuilds
    BY DEF OwnInv, IInv, TypeOK
  <2> QED
    BY <2>1, BoundAssumption DEF BuildIds
<1>3. CASE b = 0
  BY <1>1, <1>2, <1>3 DEF PublishedLog
<1>4. CASE b # 0
  <2>1. /\ b \in DOMAIN builds /\ builds[b] = mail[h] /\ mail[h] \in Mails
        /\ items[h] \in Reports[ReportUrl[mail[h]]]
    BY <1>1, <1>4 DEF OwnInv, IInv, HandlersOwnTheirBuilds, HandlersHaveReports, Owning, InFlight, ReportMails
  <2>2. PublishedLog[b] = [mail |-> mail[h], rows |-> <<>>]
    BY <1>1, <2>1 DEF PublishedLog, Published, Resolved
  <2>3. PublishedLog' = [PublishedLog EXCEPT ![b] = Log!Entry(mail[h], items[h])]
    <3> HIDE DEF b
    <3> QED
      BY <1>1, <1>2, <2>1 DEF PublishedLog, Log!Entry
  <2>4. Log!Publish(b, items[h])
    BY <2>1, <2>2, <2>3 DEF Log!Publish
  <2>5. b \in DOMAIN PublishedLog
    BY <2>1 DEF PublishedLog
  <2> QED
    BY <2>1, <2>2, <2>4, <2>5 DEF Log!Next
<1> QED
  BY <1>3, <1>4

\* If commits succeed, the tables under any number of concurrent ingests,
\* disconnects and crashes behave as an append-only log whose entries get their results at
\* most once and all at once.
THEOREM Implementation ==
    ASSUME CommitsSucceed
    PROVE  Spec => ImplementsBuildLog
<1>1. Init => Log!Init
  BY DEF Init, Log!Init, PublishedLog
<1>2. OwnInv /\ OwnInv' /\ [Next]_vars => [Log!Next]_PublishedLog
  <2> SUFFICES ASSUME OwnInv, OwnInv', [Next]_vars PROVE Log!Next \/ UNCHANGED PublishedLog
    OBVIOUS
  <2>1. CASE UNCHANGED db
    BY <2>1 DEF db, PublishedLog, Published, Resolved
  <2>2. ASSUME NEW h \in Handlers, PutBuildStored(h) \/ PutBuildInterrupted(h)
        PROVE  Log!Next
    <3>1. mail[h] \in ReportMails
      BY <2>2 DEF PutBuildStored, PutBuildInterrupted, OwnInv, IInv, HandlersHaveReports, InFlight
    <3> QED
      BY <2>2, <3>1, InsertAnnounces DEF OwnInv, Log!Next
  <2> QED
    BY <2>1, <2>2, CommitPublishesLog, DatabaseStep
<1> QED
  BY <1>1, <1>2, OwnershipInvariant, PTL DEF Spec, ImplementsBuildLog, Log!Spec
=============================================================================
