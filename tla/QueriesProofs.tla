---------------------------- MODULE QueriesProofs ----------------------------
(***************************************************************************)
(* Theorems about Queries, for any builds, packages, reports and limits.   *)
(***************************************************************************)
EXTENDS Queries, KeepLoopProofs, FiniteSetTheorems, TLAPS

-----------------------------------------------------------------------------
(* The rows that a report is stored as.                                    *)

\* A report has records with different names, and each lists names.
LEMMA RawType ==
    ASSUME NEW raw \in RawReports
    PROVE  /\ Len(raw) \in Nat /\ DOMAIN raw = 1..Len(raw)
           /\ \A i \in DOMAIN raw : raw[i].name \in Names /\ raw[i].status \in 0..4 /\ raw[i].depends \in Seq(Names)
           /\ \A i, j \in DOMAIN raw : raw[i].name = raw[j].name => i = j
<1>1. raw \in Seq([name : Names, status : 0..4, depends : Seq(Names)])
  BY RawAssumption
<1>2. Len(raw) \in Nat /\ DOMAIN raw = 1..Len(raw)
  BY <1>1
<1>3. \A i \in DOMAIN raw : raw[i].name \in Names /\ raw[i].status \in 0..4 /\ raw[i].depends \in Seq(Names)
  <2> DEFINE R == [name : Names, status : 0..4, depends : Seq(Names)]
  <2>1. raw \in Seq(R)
    BY <1>1
  <2>2. \A i \in DOMAIN raw : raw[i] \in R
    <3> HIDE DEF R
    <3> QED
      BY <2>1
  <2> QED
    BY <2>2
<1> QED
  BY <1>2, <1>3, RawAssumption

\* The dependencies that are kept are records of the same report that failed.
LEMMA FailedDepsFailed ==
    ASSUME NEW raw \in RawReports, NEW i \in DOMAIN raw
    PROVE  /\ FailedDeps(raw, i) \in Seq(Names)
           /\ \A k \in DOMAIN FailedDeps(raw, i) :
                 \E j \in DOMAIN raw : raw[j].name = FailedDeps(raw, i)[k] /\ Broken(raw[j].status)
<1>1. raw[i].depends \in Seq(Names)
  BY RawType
<1>2. CASE ~Indirect(raw[i].status)
  <2>1. FailedDeps(raw, i) = <<>>
    BY <1>2 DEF FailedDeps
  <2>2. <<>> \in Seq(Names) /\ DOMAIN <<>> = {}
    OBVIOUS
  <2> QED
    BY <2>1, <2>2
<1>3. CASE Indirect(raw[i].status)
  <2> DEFINE d == raw[i].depends
             S == BrokenNames(raw)
  <2>1. FailedDeps(raw, i) = Keep(d, S)
    BY <1>3 DEF FailedDeps
  <2>2. Keep(d, S) \in Seq(Names)
    BY <1>1, KeepSelects
  <2>3. ASSUME NEW k \in DOMAIN Keep(d, S) PROVE Keep(d, S)[k] \in S
    BY <1>1, KeptAre
  <2> QED
    BY <2>1, <2>2, <2>3 DEF BrokenNames
<1> QED
  BY <1>2, <1>3

\* Breaks counts a finite set, and is zero only if nothing depends on the record.
LEMMA BreaksType ==
    ASSUME NEW raw \in RawReports, NEW i \in DOMAIN raw
    PROVE  /\ Breaks(raw, i) \in Nat
           /\ Breaks(raw, i) > 0 <=>
                 \E j \in DOMAIN raw : \E k \in DOMAIN FailedDeps(raw, j) : FailedDeps(raw, j)[k] = raw[i].name
<1> DEFINE Of(j) == {<<j, k>> : k \in {k \in DOMAIN FailedDeps(raw, j) : FailedDeps(raw, j)[k] = raw[i].name}}
           S == {Of(j) : j \in DOMAIN raw}
<1>1. Breaks(raw, i) = Cardinality(UNION S)
  BY DEF Breaks
<1>2. IsFiniteSet(UNION S)
  <2>1. IsFiniteSet(S)
    <3> DEFINE f == [j \in DOMAIN raw |-> Of(j)]
    <3>1. f \in Surjection(DOMAIN raw, S)
      BY DEF Surjection
    <3>2. IsFiniteSet(DOMAIN raw)
      BY RawType, FS_Interval
    <3> HIDE DEF f, S
    <3> QED
      BY <3>1, <3>2, FS_Surjection
  <2>2. ASSUME NEW T \in S PROVE IsFiniteSet(T)
    <3>1. PICK j \in DOMAIN raw : T = Of(j)
      OBVIOUS
    <3> DEFINE D == DOMAIN FailedDeps(raw, j)
    <3>2. Len(FailedDeps(raw, j)) \in Nat /\ D = 1..Len(FailedDeps(raw, j))
      BY FailedDepsFailed
    <3>3. IsFiniteSet(D) /\ IsFiniteSet({j})
      <4>1. IsFiniteSet(1..Len(FailedDeps(raw, j)))
        BY <3>2, FS_Interval
      <4> QED
        BY <3>2, <4>1, FS_Singleton
    <3>4. IsFiniteSet({j} \X D)
      BY <3>3, FS_Product
    <3>5. T \subseteq {j} \X D
      BY <3>1
    <3> QED
      BY <3>4, <3>5, FS_Subset
  <2> HIDE DEF S
  <2> QED
    BY <2>1, <2>2, FS_UNION
<1>3. UNION S # {} <=> \E j \in DOMAIN raw : \E k \in DOMAIN FailedDeps(raw, j) : FailedDeps(raw, j)[k] = raw[i].name
  <2>1. ASSUME NEW x \in UNION S
        PROVE  \E j \in DOMAIN raw : \E k \in DOMAIN FailedDeps(raw, j) : FailedDeps(raw, j)[k] = raw[i].name
    <3>1. PICK j \in DOMAIN raw : x \in Of(j)
      BY <2>1
    <3> QED
      BY <3>1
  <2>2. ASSUME NEW j \in DOMAIN raw, NEW k \in DOMAIN FailedDeps(raw, j), FailedDeps(raw, j)[k] = raw[i].name
        PROVE  UNION S # {}
    <3>1. <<j, k>> \in Of(j) /\ Of(j) \in S
      BY <2>2
    <3> HIDE DEF S, Of
    <3> QED
      BY <3>1
  <2> HIDE DEF S
  <2> QED
    BY <2>1, <2>2
<1> DEFINE U == UNION S
<1>4. IsFiniteSet(U) /\ Breaks(raw, i) = Cardinality(U)
  BY <1>1, <1>2
<1> HIDE DEF S, U
<1>5. Cardinality(U) \in Nat /\ (Cardinality(U) = 0 <=> U = {})
  BY <1>4, FS_EmptySet, FS_CardinalityType
<1> QED
  BY <1>3, <1>4, <1>5 DEF U

\* What PkgsFromReport returns.
LEMMA ReportRows ==
    ASSUME NEW raw \in RawReports, NEW b
    PROVE  LET rows == PkgsFromReport(raw, b)
           IN  /\ rows \in Seq([build : {b}, name : Names, status : 0..4, failedDeps : Seq(Names), breaks : Nat])
               /\ Len(rows) = Len(raw)
               /\ \A i \in DOMAIN raw :
                     /\ rows[i].name = raw[i].name /\ rows[i].status = raw[i].status
                     /\ rows[i].failedDeps = FailedDeps(raw, i) /\ rows[i].breaks = Breaks(raw, i)
                     /\ rows[i].build = b
<1> DEFINE rows == PkgsFromReport(raw, b)
           R == [build : {b}, name : Names, status : 0..4, failedDeps : Seq(Names), breaks : Nat]
           row(i) == [build |-> b, name |-> raw[i].name, status |-> raw[i].status,
                      failedDeps |-> FailedDeps(raw, i), breaks |-> Breaks(raw, i)]
<1>1. rows = [i \in DOMAIN raw |-> row(i)]
  BY DEF PkgsFromReport
<1>2. ASSUME NEW i \in DOMAIN raw PROVE row(i) \in R
  BY RawType, FailedDepsFailed, BreaksType
<1>3. rows \in [1..Len(raw) -> R]
  <2> HIDE DEF R, row
  <2> QED
    BY <1>1, <1>2, RawType
<1>4. rows \in Seq(R) /\ Len(rows) = Len(raw)
  <2> HIDE DEF R, rows
  <2> QED
    BY <1>3, RawType
<1>5. \A i \in DOMAIN raw : rows[i] = row(i)
  BY <1>1
<1>6. \A i \in DOMAIN raw :
         /\ rows[i].name = raw[i].name /\ rows[i].status = raw[i].status
         /\ rows[i].failedDeps = FailedDeps(raw, i) /\ rows[i].breaks = Breaks(raw, i)
         /\ rows[i].build = b
  <2> SUFFICES ASSUME NEW i \in DOMAIN raw
               PROVE  /\ rows[i].name = raw[i].name /\ rows[i].status = raw[i].status
                      /\ rows[i].failedDeps = FailedDeps(raw, i) /\ rows[i].breaks = Breaks(raw, i)
                      /\ rows[i].build = b
    OBVIOUS
  <2>1. rows[i] = row(i)
    BY <1>5
  <2> HIDE DEF rows
  <2> QED
    BY <2>1
<1> HIDE DEF rows, R
<1> QED
  BY <1>4, <1>6 DEF rows, R
-----------------------------------------------------------------------------
(* The tables.                                                             *)

LEMMA TablesType ==
    ASSUME TypeOK
    PROVE  /\ Len(builds) \in Nat /\ DOMAIN builds = 1..Len(builds)
           /\ \A b \in DOMAIN builds : builds[b].kind \in Kinds /\ builds[b].ts \in Times /\ builds[b].ts \in Nat
           /\ Len(results) \in Nat /\ Ids = 1..Len(results)
           /\ \A i \in Ids : /\ results[i] \in Rows
                             /\ results[i].build \in DOMAIN builds /\ results[i].name \in Names
                             /\ results[i].status \in 0..4
                             /\ results[i].failedDeps \in Seq(Names) /\ results[i].breaks \in Nat
<1> DEFINE B == [kind : Kinds, ts : Times]
<1>1. builds \in Seq(B) /\ results \in Seq(Rows)
  BY DEF TypeOK
<1>2. Len(builds) \in Nat /\ DOMAIN builds = 1..Len(builds) /\ \A b \in DOMAIN builds : builds[b] \in B
  <2> HIDE DEF B
  <2> QED
    BY <1>1
<1>3. Len(results) \in Nat /\ Ids = 1..Len(results) /\ \A i \in Ids : results[i] \in Rows
  BY <1>1 DEF Ids
<1>4. \A b \in DOMAIN builds : builds[b].kind \in Kinds /\ builds[b].ts \in Times /\ builds[b].ts \in Nat
  BY <1>2, BoundAssumption
<1>5. \A i \in Ids : /\ results[i].build \in DOMAIN builds /\ results[i].name \in Names
                     /\ results[i].status \in 0..4
                     /\ results[i].failedDeps \in Seq(Names) /\ results[i].breaks \in Nat
  BY <1>3 DEF Rows
<1> QED
  BY <1>2, <1>3, <1>4, <1>5

\* A report becomes the last rows, and the only ones of its build.
LEMMA PutResultsRows ==
    ASSUME TypeOK, NEW b \in DOMAIN builds, NEW raw \in RawReports, PutResults(b, raw)
    PROVE  /\ DOMAIN results' = 1..(Len(results) + Len(raw)) /\ Len(results) \in Nat /\ Len(raw) \in Nat
           /\ \A i \in Ids : /\ i \in DOMAIN results' /\ results'[i] = results[i]
                             /\ results[i].build # b /\ \A j \in DOMAIN raw : i # Len(results) + j
           /\ \A i \in DOMAIN raw :
                 LET x == Len(results) + i
                 IN  /\ x \in DOMAIN results'
                     /\ results'[x].name = raw[i].name /\ results'[x].status = raw[i].status
                     /\ results'[x].failedDeps = FailedDeps(raw, i) /\ results'[x].breaks = Breaks(raw, i)
                     /\ results'[x].build = b
           /\ \A x \in DOMAIN results' : x \in Ids \/ \E i \in DOMAIN raw : x = Len(results) + i
           /\ results' \in Seq(Rows) /\ builds' = builds
<1> DEFINE rows == PkgsFromReport(raw, b)
           R == [build : {b}, name : Names, status : 0..4, failedDeps : Seq(Names), breaks : Nat]
           n == Len(results)
           m == Len(raw)
<1>1. /\ results' = results \o rows /\ builds' = builds /\ b \notin BuildsWithResults
      /\ results \in Seq(Rows)
  BY DEF PutResults, TypeOK
<1>2. /\ rows \in Seq(R) /\ Len(rows) = m
      /\ \A i \in DOMAIN raw :
            /\ rows[i].name = raw[i].name /\ rows[i].status = raw[i].status
            /\ rows[i].failedDeps = FailedDeps(raw, i) /\ rows[i].breaks = Breaks(raw, i)
            /\ rows[i].build = b
  BY ReportRows
<1>3. rows \in Seq(Rows)
  <2>1. R \subseteq Rows
    BY DEF Rows
  <2> HIDE DEF R, rows
  <2> QED
    BY <1>2, <2>1
<1>4. n \in Nat /\ m \in Nat /\ DOMAIN raw = 1..m /\ Ids = 1..n
  BY RawType, TablesType
<1> HIDE DEF rows, R
<1>5. /\ results' \in Seq(Rows) /\ Len(results') = n + m
      /\ \A i \in 1..n : results'[i] = results[i]
      /\ \A i \in 1..m : results'[n + i] = rows[i]
  <2> DEFINE s == results
             cat == s \o rows
  <2>1. s \in Seq(Rows) /\ rows \in Seq(Rows) /\ Len(s) = n /\ Len(rows) = m
    BY <1>1, <1>2, <1>3
  <2>2. results' = cat
    BY <1>1
  <2> HIDE DEF n, m, s
  <2>3. cat \in Seq(Rows) /\ Len(cat) = n + m
    BY <2>1
  <2>4. \A i \in 1..n : cat[i] = s[i]
    BY <2>1, <1>4
  <2>5. \A i \in 1..m : cat[n + i] = rows[i]
    BY <2>1, <1>4
  <2> HIDE DEF cat
  <2> QED
    BY <2>2, <2>3, <2>4, <2>5 DEF s
<1>6. DOMAIN results' = 1..(n + m)
  BY <1>4, <1>5
<1>7. \A i \in Ids : results[i].build # b
  BY <1>1 DEF BuildsWithResults, Ids
<1> HIDE DEF n, m
<1>8. \A i \in Ids : i \in DOMAIN results' /\ results'[i] = results[i] /\ \A j \in DOMAIN raw : i # n + j
  BY <1>4, <1>5, <1>6
<1>9. ASSUME NEW i \in DOMAIN raw
      PROVE  n + i \in DOMAIN results' /\ results'[n + i] = rows[i]
  BY <1>4, <1>5, <1>6
<1>10. ASSUME NEW x \in DOMAIN results' PROVE x \in Ids \/ \E i \in DOMAIN raw : x = n + i
  <2>1. x \in 1..(n + m)
    BY <1>6
  <2>2. CASE x <= n
    BY <1>4, <2>1, <2>2
  <2>3. CASE x > n
    <3>1. x - n \in DOMAIN raw /\ x = n + (x - n)
      BY <1>4, <2>1, <2>3
    <3> QED
      BY <3>1
  <2> QED
    BY <1>4, <2>1, <2>2, <2>3
<1>11. ASSUME NEW i \in DOMAIN raw
       PROVE  LET x == Len(results) + i
              IN  /\ x \in DOMAIN results'
                  /\ results'[x].name = raw[i].name /\ results'[x].status = raw[i].status
                  /\ results'[x].failedDeps = FailedDeps(raw, i) /\ results'[x].breaks = Breaks(raw, i)
                  /\ results'[x].build = b
  BY <1>2, <1>9 DEF n
<1>12. /\ DOMAIN results' = 1..(Len(results) + Len(raw)) /\ Len(results) \in Nat /\ Len(raw) \in Nat
       /\ results' \in Seq(Rows) /\ builds' = builds
  BY <1>1, <1>4, <1>5, <1>6 DEF n, m
<1>13. \A i \in Ids : /\ i \in DOMAIN results' /\ results'[i] = results[i]
                      /\ results[i].build # b /\ \A j \in DOMAIN raw : i # Len(results) + j
  BY <1>7, <1>8 DEF n
<1>14. \A x \in DOMAIN results' : x \in Ids \/ \E i \in DOMAIN raw : x = Len(results) + i
  BY <1>10 DEF n
<1> QED
  BY <1>11, <1>12, <1>13, <1>14

LEMMA NextTypeOK ==
    ASSUME TypeOK, [Next]_vars
    PROVE  TypeOK'
<1>1. ASSUME NEW k \in Kinds, NEW t \in Times, PutBuild(k, t) PROVE TypeOK'
  <2> DEFINE B == [kind : Kinds, ts : Times]
             x == [kind |-> k, ts |-> t]
  <2>1. builds' = Append(builds, x) /\ results' = results /\ builds \in Seq(B) /\ x \in B
    BY <1>1 DEF PutBuild, TypeOK
  <2>2. builds' \in Seq(B) /\ DOMAIN builds \subseteq DOMAIN builds'
    <3> HIDE DEF B, x
    <3> QED
      BY <2>1
  <2>3. Rows \subseteq Rows'
    BY <2>2 DEF Rows
  <2>4. results' \in Seq(Rows')
    BY <2>1, <2>3 DEF TypeOK
  <2> QED
    BY <2>2, <2>4 DEF TypeOK
<1>2. ASSUME NEW b \in DOMAIN builds, NEW raw \in RawReports, PutResults(b, raw) PROVE TypeOK'
  <2>1. results' \in Seq(Rows) /\ builds' = builds
    BY <1>2, PutResultsRows
  <2>2. Rows' = Rows
    BY <2>1 DEF Rows
  <2> QED
    BY <2>1, <2>2 DEF TypeOK
<1>3. CASE UNCHANGED vars
  BY <1>3 DEF vars, TypeOK, Rows
<1> QED
  BY <1>1, <1>2, <1>3 DEF Next

\* Every result belongs to a build that is there, and has a known status, names
\* and a count.
THEOREM TypeCorrect == Spec => []TypeOK
<1>1. Init => TypeOK
  <2> SUFFICES ASSUME Init PROVE TypeOK
    OBVIOUS
  <2>1. builds = <<>> /\ results = <<>>
    BY DEF Init
  <2> QED
    BY <2>1 DEF TypeOK
<1>2. TypeOK /\ [Next]_vars => TypeOK'
  BY NextTypeOK
<1> QED
  BY <1>1, <1>2, PTL DEF Spec

-----------------------------------------------------------------------------
(* The results of one build.                                               *)

\* The packages of a build have different names.
DifferentNames ==
    \A i, j \in Ids : results[i].build = results[j].build /\ results[i].name = results[j].name => i = j

\* A package is counted as breaking others if there is one that it breaks.
CountsAgree == \A i \in Ids : results[i].breaks > 0 <=> \E j \in Ids : DependsOn(j, i)

\* The failed dependencies of a package are packages of its build that failed.
DepsFailed ==
    \A i \in Ids : \A k \in DOMAIN results[i].failedDeps :
        \E j \in Ids : /\ results[j].build = results[i].build
                       /\ results[j].name = results[i].failedDeps[k] /\ Broken(results[j].status)

RowsInv == DifferentNames /\ CountsAgree /\ DepsFailed

\* A report brings its own packages.
LEMMA PutResultsInv ==
    ASSUME TypeOK, RowsInv, NEW b \in DOMAIN builds, NEW raw \in RawReports, PutResults(b, raw)
    PROVE  RowsInv'
<1> DEFINE n == Len(results)
           N == DOMAIN results'
<1>1. /\ \A i \in Ids : i \in N /\ results'[i] = results[i] /\ results[i].build # b
      /\ \A i \in DOMAIN raw :
            /\ n + i \in N
            /\ results'[n + i].name = raw[i].name /\ results'[n + i].status = raw[i].status
            /\ results'[n + i].failedDeps = FailedDeps(raw, i) /\ results'[n + i].breaks = Breaks(raw, i)
            /\ results'[n + i].build = b
      /\ \A x \in N : x \in Ids \/ \E i \in DOMAIN raw : x = n + i
      /\ Ids' = N
  BY PutResultsRows DEF Ids
<1> HIDE DEF n, N
<1>2. ASSUME NEW i \in N, NEW j \in N, results'[i].build = results'[j].build, results'[i].name = results'[j].name
      PROVE  i = j
  <2>1. CASE i \in Ids /\ j \in Ids
    BY <1>1, <1>2, <2>1 DEF RowsInv, DifferentNames
  <2>2. ASSUME NEW k \in DOMAIN raw, NEW l \in DOMAIN raw, i = n + k, j = n + l PROVE i = j
    <3>1. raw[k].name = raw[l].name
      BY <1>1, <1>2, <2>2
    <3> QED
      BY <2>2, <3>1, RawType
  <2> QED
    BY <1>1, <1>2, <2>1, <2>2
<1>3. ASSUME NEW i \in N
      PROVE  results'[i].breaks > 0 <=>
                \E j \in N : /\ results'[j].build = results'[i].build
                             /\ results'[i].name \in ToSet(results'[j].failedDeps)
  <2>1. CASE i \in Ids
    <3>1. results'[i].breaks > 0 <=>
             \E j \in Ids : results[j].build = results[i].build /\ results[i].name \in ToSet(results[j].failedDeps)
      BY <1>1, <2>1 DEF RowsInv, CountsAgree, DependsOn
    <3>2. \A j \in N : results'[j].build = results'[i].build => j \in Ids
      BY <1>1, <2>1
    <3> QED
      BY <1>1, <2>1, <3>1, <3>2
  <2>2. ASSUME NEW k \in DOMAIN raw, i = n + k
        PROVE  results'[i].breaks > 0 <=>
                  \E j \in N : /\ results'[j].build = results'[i].build
                               /\ results'[i].name \in ToSet(results'[j].failedDeps)
    <3>1. results'[i].breaks > 0 <=>
             \E l \in DOMAIN raw : \E d \in DOMAIN FailedDeps(raw, l) : FailedDeps(raw, l)[d] = raw[k].name
      BY <1>1, <2>2, BreaksType
    <3>2. results'[i].breaks > 0 <=> \E l \in DOMAIN raw : raw[k].name \in ToSet(FailedDeps(raw, l))
      BY <3>1 DEF ToSet
    <3>3. \A j \in N : results'[j].build = results'[i].build => \E l \in DOMAIN raw : j = n + l
      BY <1>1, <2>2
    <3> QED
      BY <1>1, <2>2, <3>2, <3>3
  <2> QED
    BY <1>1, <2>1, <2>2
<1>4. ASSUME NEW i \in N, NEW k \in DOMAIN results'[i].failedDeps
      PROVE  \E j \in N : /\ results'[j].build = results'[i].build
                          /\ results'[j].name = results'[i].failedDeps[k] /\ Broken(results'[j].status)
  <2>1. CASE i \in Ids
    BY <1>1, <1>4, <2>1 DEF RowsInv, DepsFailed
  <2>2. ASSUME NEW l \in DOMAIN raw, i = n + l
        PROVE  \E j \in N : /\ results'[j].build = results'[i].build
                            /\ results'[j].name = results'[i].failedDeps[k] /\ Broken(results'[j].status)
    <3>1. results'[i].failedDeps = FailedDeps(raw, l) /\ results'[i].build = b
      BY <1>1, <2>2
    <3>2. PICK j \in DOMAIN raw : raw[j].name = FailedDeps(raw, l)[k] /\ Broken(raw[j].status)
      BY <1>4, <3>1, FailedDepsFailed
    <3> QED
      BY <1>1, <3>1, <3>2
  <2> QED
    BY <1>1, <2>1, <2>2
<1>5. DifferentNames'
  BY <1>1, <1>2 DEF DifferentNames
<1>6. CountsAgree'
  BY <1>1, <1>3 DEF CountsAgree, DependsOn
<1>7. DepsFailed'
  BY <1>1, <1>4 DEF DepsFailed
<1> QED
  BY <1>5, <1>6, <1>7 DEF RowsInv

LEMMA RowsInvariant == Spec => []RowsInv
<1>1. Init => RowsInv
  BY DEF Init, RowsInv, DifferentNames, CountsAgree, DepsFailed, Ids
<1>2. TypeOK /\ RowsInv /\ [Next]_vars => RowsInv'
  <2> SUFFICES ASSUME TypeOK, RowsInv, [Next]_vars PROVE RowsInv'
    OBVIOUS
  <2>1. CASE UNCHANGED results
    BY <2>1 DEF RowsInv, DifferentNames, CountsAgree, DepsFailed, Ids, DependsOn
  <2> QED
    BY <2>1, PutResultsInv DEF Next, PutBuild, vars
<1> QED
  BY <1>1, <1>2, TypeCorrect, PTL DEF Spec

\* A package that depends on another is found by the text of its dependencies.
LEMMA DependsIsFound ==
    ASSUME TypeOK, NEW i \in Ids, NEW j \in Ids, DependsOn(j, i)
    PROVE  j \in GetPkgsBrokenBy(i)
<1>1. PICK k \in DOMAIN results[j].failedDeps : results[j].failedDeps[k] = results[i].name
  BY DEF DependsOn, ToSet
<1>2. results[i].name \in Names
  BY TablesType
<1>3. <<results[i].name, results[j].failedDeps[k]>> \in LikeIn
  BY <1>1, <1>2, LikeAssumption
<1> QED
  BY <1>3 DEF GetPkgsBrokenBy, getPkgsBrokenBy, Like

\* However builds and reports arrive, no package that is counted is missing from
\* the list below it: the search for the name in the text of the dependencies
\* (queries.sql.go:602) finds at least what the parser has counted.
THEOREM BrokenByIsComplete == Spec => []BrokenByComplete
<1>1. TypeOK /\ RowsInv => BrokenByComplete
  <2> SUFFICES ASSUME TypeOK, RowsInv, NEW i \in Ids
               PROVE  /\ {j \in Ids : DependsOn(j, i)} \subseteq GetPkgsBrokenBy(i)
                      /\ results[i].breaks > 0 <=> \E j \in Ids : DependsOn(j, i)
    BY DEF BrokenByComplete
  <2> QED
    BY DependsIsFound DEF RowsInv, CountsAgree
<1> QED
  BY <1>1, TypeCorrect, RowsInvariant, PTL

\* Following the links between a package and its only failed dependency there and
\* back: the row that the page finds by the text (queries.sql.go:401) is that of a
\* package of the same build that failed, counts it and lists it.
THEOREM DepPagesDoAgree == Spec => []DepPagesAgree
<1>1. TypeOK /\ RowsInv => DepPagesAgree
  <2> SUFFICES ASSUME TypeOK, RowsInv, NEW i \in Ids
               PROVE  /\ \A d \in DepRows(i) :
                            /\ results[d].build = results[i].build /\ Broken(results[d].status)
                            /\ results[d].breaks > 0 /\ i \in GetPkgsBrokenBy(d)
                      /\ Len(results[i].failedDeps) = 1 => DepRows(i) # {}
    BY DEF DepPagesAgree
  <2> DEFINE text == results[i].failedDeps
             found == {d \in Ids : results[d].build = results[i].build /\ text = <<results[d].name>>}
             row == GetSingleResultByPkgName(results[i].build, text)
  <2>1. row = IF found = {} THEN NoRow ELSE CHOOSE d \in found : TRUE
    BY DEF GetSingleResultByPkgName
  <2>2. ToSet(<<text>>) = {text}
    BY DEF ToSet
  <2>3. DepRows(i) = IF text = <<>> THEN {} ELSE {row} \ {NoRow}
    BY <2>2 DEF DepRows, PageShowsDeps, SplitAtCommas
  <2>4. NoRow \notin found
    BY TablesType DEF NoRow
  <2>5. text \in Seq(Names)
    BY TablesType
  <2> HIDE DEF row, text
  <2>6. ASSUME NEW d \in DepRows(i)
        PROVE  /\ results[d].build = results[i].build /\ Broken(results[d].status)
               /\ results[d].breaks > 0 /\ i \in GetPkgsBrokenBy(d)
    <3>1. d \in found
      BY <2>1, <2>3, <2>6
    <3>2. text = <<results[d].name>> /\ d \in Ids /\ results[d].build = results[i].build
      BY <3>1
    <3>3. 1 \in DOMAIN text /\ text[1] = results[d].name
      BY <3>2
    <3>4. PICK j \in Ids : /\ results[j].build = results[i].build
                           /\ results[j].name = text[1] /\ Broken(results[j].status)
      BY <3>3 DEF RowsInv, DepsFailed, text
    <3>5. j = d
      BY <3>2, <3>3, <3>4 DEF RowsInv, DifferentNames
    <3>6. DependsOn(i, d)
      BY <3>2, <3>3 DEF DependsOn, ToSet, text
    <3> QED
      BY <3>2, <3>4, <3>5, <3>6, DependsIsFound DEF RowsInv, CountsAgree
  <2>7. ASSUME Len(text) = 1 PROVE DepRows(i) # {}
    <3>1. 1 \in DOMAIN text /\ text = <<text[1]>> /\ text # <<>>
      BY <2>5, <2>7
    <3>2. PICK j \in Ids : results[j].build = results[i].build /\ results[j].name = text[1]
      BY <3>1 DEF RowsInv, DepsFailed, text
    <3>3. j \in found
      BY <3>1, <3>2
    <3>4. row \in found
      BY <2>1, <3>3
    <3> QED
      BY <2>3, <2>4, <3>1, <3>4
  <2> QED
    BY <2>6, <2>7 DEF text
<1> QED
  BY <1>1, TypeCorrect, RowsInvariant, PTL
-----------------------------------------------------------------------------
(* Lists.                                                                  *)

\* A list of a set has each of its elements once.
LEMMA SetToSeqsIs ==
    ASSUME NEW S, IsFiniteSet(S), NEW s \in SetToSeqs(S)
    PROVE  /\ s \in Seq(S) /\ Len(s) = Cardinality(S) /\ Len(s) \in Nat /\ DOMAIN s = 1..Len(s)
           /\ \A i, j \in DOMAIN s : s[i] = s[j] => i = j
           /\ \A x \in S : \E i \in DOMAIN s : s[i] = x
           /\ ToSet(s) = S
<1> DEFINE n == Cardinality(S)
<1>1. n \in Nat
  BY FS_CardinalityType
<1>2. s \in [1..n -> S] /\ \A i, j \in 1..n : i # j => s[i] # s[j]
  BY DEF SetToSeqs
<1> HIDE DEF n
<1>3. s \in Seq(S) /\ Len(s) = n /\ DOMAIN s = 1..n
  BY <1>1, <1>2
<1>4. s \in Injection(1..n, S)
  BY <1>2 DEF Injection, IsInjective
<1>5. IsFiniteSet(1..n) /\ Cardinality(1..n) = n
  BY <1>1, FS_Interval
<1>6. s \in Surjection(1..n, S)
  BY <1>4, <1>5, FS_Injection DEF n
<1>7. \A x \in S : \E i \in 1..n : s[i] = x
  BY <1>6 DEF Surjection
<1>8. ToSet(s) = S
  BY <1>2, <1>3, <1>7 DEF ToSet
<1> QED
  BY <1>1, <1>2, <1>3, <1>7, <1>8 DEF n

\* The LIMIT leaves the beginning of a list.
LEMMA LimitedIs ==
    ASSUME NEW S, NEW s \in Seq(S)
    PROVE  /\ Len(s) <= Limit => Limited(s) = s
           /\ Len(s) > Limit => /\ Len(Limited(s)) = Limit /\ DOMAIN Limited(s) = 1..Limit
                                /\ \A i \in 1..Limit : Limited(s)[i] = s[i]
<1>1. Limit \in Nat \ {0}
  BY BoundAssumption
<1>2. Len(s) \in Nat
  OBVIOUS
<1>3. CASE Len(s) > Limit
  <2> DEFINE t == SubSeq(s, 1, Limit)
  <2>1. t \in Seq(S) /\ Len(t) = Limit /\ \A i \in 1..Limit : t[i] = s[i]
    BY <1>1, <1>2, <1>3
  <2>2. Limited(s) = t
    BY <1>1, <1>2, <1>3 DEF Limited
  <2>3. DOMAIN t = 1..Limit
    <3> HIDE DEF t
    <3> QED
      BY <2>1
  <2> QED
    BY <1>1, <1>2, <1>3, <2>1, <2>2, <2>3
<1>4. CASE Len(s) <= Limit
  BY <1>1, <1>2, <1>4 DEF Limited
<1> QED
  BY <1>1, <1>2, <1>3, <1>4

LEMMA BuildIdsFinite ==
    ASSUME TypeOK, NEW S, S \subseteq DOMAIN builds
    PROVE  IsFiniteSet(S)
<1>1. IsFiniteSet(1..Len(builds))
  BY TablesType, FS_Interval
<1> QED
  BY <1>1, TablesType, FS_Subset

\* A package that breaks others has not been built.
LEMMA BreakingIsNotBuilt ==
    ASSUME TypeOK, RowsInv, NEW i \in Ids, results[i].breaks > 0
    PROVE  NotBuilt(i)
<1>1. PICK j \in Ids : DependsOn(j, i)
  BY DEF RowsInv, CountsAgree
<1>2. PICK k \in DOMAIN results[j].failedDeps : results[j].failedDeps[k] = results[i].name
  BY <1>1 DEF DependsOn, ToSet
<1>3. PICK l \in Ids : /\ results[l].build = results[j].build
                       /\ results[l].name = results[i].name /\ Broken(results[l].status)
  BY <1>2 DEF RowsInv, DepsFailed
<1>4. l = i
  BY <1>1, <1>3 DEF DependsOn, RowsInv, DifferentNames
<1> QED
  BY <1>3, <1>4 DEF Broken, NotBuilt, Status

\* What the LIMITs cut off (queries.sql.go:199 and 560) is no newer, and breaks no
\* more, than anything they leave, and they cut nothing off before they have to:
\* the condition on the status, for one, loses no package that breaks others.
THEOREM CutsDoKeepTheTop == Spec => []CutsKeepTheTop
<1>1. ASSUME TypeOK, NEW list \in LatestBuilds(FALSE), NEW b \in DOMAIN builds \ ToSet(list)
      PROVE  /\ Len(list) = Limit
             /\ \A i \in DOMAIN list : builds[list[i]].ts >= builds[b].ts
  <2> DEFINE S == DOMAIN builds
  <2>1. PICK s \in NewestFirst(S) : list = Limited(s)
    BY DEF LatestBuilds, getLatestBuilds
  <2>2. /\ s \in SetToSeqs(S) /\ IsFiniteSet(S)
        /\ \A i, j \in DOMAIN s : i < j => builds[s[i]].ts >= builds[s[j]].ts
    BY <1>1, BuildIdsFinite DEF NewestFirst
  <2> HIDE DEF S
  <2>3. /\ s \in Seq(S) /\ Len(s) \in Nat /\ DOMAIN s = 1..Len(s) /\ ToSet(s) = S
        /\ \A x \in S : \E i \in DOMAIN s : s[i] = x
    BY <2>2, SetToSeqsIs
  <2>4. Limit \in Nat \ {0}
    BY BoundAssumption
  <2>5. Len(s) > Limit
    <3>1. CASE Len(s) <= Limit
      BY <2>1, <2>3, <3>1, LimitedIs DEF S
    <3> QED
      BY <2>3, <2>4, <3>1
  <2>6. /\ Len(list) = Limit /\ DOMAIN list = 1..Limit
        /\ \A i \in 1..Limit : list[i] = s[i]
    BY <2>1, <2>3, <2>5, LimitedIs
  <2>7. PICK k \in DOMAIN s : s[k] = b
    BY <2>3 DEF S
  <2>8. k > Limit
    <3>1. ASSUME k \in 1..Limit PROVE FALSE
      <4>1. list[k] = b /\ k \in DOMAIN list
        BY <2>6, <2>7, <3>1
      <4> QED
        BY <4>1 DEF ToSet
    <3> QED
      BY <2>3, <2>4, <3>1
  <2>9. ASSUME NEW i \in DOMAIN list PROVE builds[list[i]].ts >= builds[b].ts
    <3>1. i \in DOMAIN s /\ i < k /\ list[i] = s[i]
      BY <2>3, <2>4, <2>5, <2>6, <2>8
    <3> QED
      BY <2>2, <2>7, <3>1
  <2> QED
    BY <2>6, <2>9
<1>2. ASSUME TypeOK, RowsInv, NEW b \in DOMAIN builds, NEW top \in GetPkgsBreakingMostOthers(b),
             NEW i \in Ids \ top, results[i].build = b, results[i].breaks > 0
      PROVE  /\ Cardinality(top) = TopLimit
             /\ \A j \in top : results[j].breaks >= results[i].breaks
  <2> DEFINE all == {x \in Ids : results[x].build = b /\ NotBuilt(x)}
  <2>1. /\ top \subseteq all
        /\ Cardinality(top) = IF Cardinality(all) < TopLimit THEN Cardinality(all) ELSE TopLimit
        /\ \A x \in top, y \in all \ top : results[x].breaks >= results[y].breaks
    BY DEF GetPkgsBreakingMostOthers
  <2>2. i \in all \ top
    BY <1>2, BreakingIsNotBuilt
  <2>3. IsFiniteSet(all)
    <3>1. IsFiniteSet(1..Len(results)) /\ all \subseteq 1..Len(results)
      BY <1>2, TablesType, FS_Interval
    <3> HIDE DEF all
    <3> QED
      BY <3>1, FS_Subset
  <2> HIDE DEF all
  <2>4. Cardinality(top) # Cardinality(all)
    BY <2>1, <2>2, <2>3, FS_Subset
  <2> QED
    BY <2>1, <2>2, <2>4
<1>3. TypeOK /\ RowsInv => CutsKeepTheTop
  BY <1>1, <1>2 DEF CutsKeepTheTop
<1> QED
  BY <1>3, TypeCorrect, RowsInvariant, PTL

-----------------------------------------------------------------------------
(* The start page.                                                         *)

\* There is a last one of the builds with some property.
LEMMA LastBuildExists ==
    ASSUME TypeOK, NEW S, S \subseteq DOMAIN builds, S # {}
    PROVE  \E x \in S : \A y \in S : y <= x
<1> DEFINE n == Len(builds)
           D == {n - x : x \in S}
<1>1. n \in Nat /\ DOMAIN builds = 1..n
  BY TablesType
<1> HIDE DEF n
<1>2. D \subseteq Nat /\ D # {}
  BY <1>1
<1>3. PICK d \in D : \A e \in D : d <= e
  BY <1>2, LeastExists
<1>4. PICK x \in S : d = n - x
  BY <1>3
<1>5. ASSUME NEW y \in S PROVE y <= x
  <2>1. d <= n - y
    BY <1>3
  <2>2. x \in Nat /\ y \in Nat
    BY <1>1
  <2> QED
    BY <1>1, <1>4, <2>1, <2>2
<1> QED
  BY <1>5

\* The last builds of the kinds, one for each.
LEMMA LastOfKinds ==
    ASSUME TypeOK
    PROVE  LET S == UNION {MaxId(k) : k \in Kinds}
           IN  /\ S \subseteq DOMAIN builds
               /\ KindsOf(S) = KindsOf(DOMAIN builds)
               /\ \A b, c \in S : builds[b].kind = builds[c].kind => b = c
<1> DEFINE S == UNION {MaxId(k) : k \in Kinds}
<1>1. \A b : b \in S <=> /\ b \in DOMAIN builds
                         /\ \A c \in DOMAIN builds : builds[c].kind = builds[b].kind => c <= b
  <2>1. \A b \in DOMAIN builds : builds[b].kind \in Kinds
    BY TablesType
  <2> QED
    BY <2>1 DEF MaxId
<1> HIDE DEF S
<1>2. \A b, c \in S : builds[b].kind = builds[c].kind => b = c
  <2> SUFFICES ASSUME NEW b \in S, NEW c \in S, builds[b].kind = builds[c].kind PROVE b = c
    OBVIOUS
  <2>1. b <= c /\ c <= b /\ b \in Nat /\ c \in Nat
    BY <1>1, TablesType
  <2> QED
    BY <2>1
<1>3. ASSUME NEW b \in DOMAIN builds PROVE \E c \in S : builds[c].kind = builds[b].kind
  <2> DEFINE T == {c \in DOMAIN builds : builds[c].kind = builds[b].kind}
  <2>1. PICK x \in T : \A y \in T : y <= x
    BY LastBuildExists
  <2>2. x \in S
    BY <1>1, <2>1
  <2> QED
    BY <2>1, <2>2
<1>4. KindsOf(S) = KindsOf(DOMAIN builds)
  BY <1>1, <1>3 DEF KindsOf
<1> QED
  BY <1>1, <1>2, <1>4 DEF S

\* With at most as many kinds as the LIMIT, each of them is on the start page
\* (queries.sql.go:132), once, with its last build, however many builds there are.
THEOREM StartPageIsComplete == Spec => []StartPageComplete
<1>1. ASSUME TypeOK, Cardinality(KindsOf(DOMAIN builds)) <= Limit, NEW list \in LatestBuilds(TRUE)
      PROVE  /\ KindsOf(ToSet(list)) = KindsOf(DOMAIN builds)
             /\ Len(list) = Cardinality(KindsOf(DOMAIN builds))
  <2> DEFINE S == UNION {MaxId(k) : k \in Kinds}
             K == KindsOf(DOMAIN builds)
             f == [b \in S |-> builds[b].kind]
  <2>1. /\ S \subseteq DOMAIN builds /\ KindsOf(S) = K
        /\ \A b, c \in S : builds[b].kind = builds[c].kind => b = c
    BY <1>1, LastOfKinds
  <2>2. IsFiniteSet(S)
    BY <1>1, <2>1, BuildIdsFinite
  <2>3. PICK s \in NewestFirst(S) : list = Limited(s)
    BY DEF LatestBuilds, GetLatestBuildsPerPlatform
  <2> HIDE DEF S, K
  <2>4. f \in Bijection(S, K)
    <3>1. f \in [S -> K] /\ \A k \in K : \E b \in S : f[b] = k
      BY <2>1 DEF KindsOf
    <3>2. \A a, b \in S : f[a] = f[b] => a = b
      BY <2>1
    <3> HIDE DEF f
    <3> QED
      BY <3>1, <3>2 DEF Bijection, Injection, Surjection, IsInjective
  <2>5. Cardinality(K) = Cardinality(S)
    BY <2>2, <2>4, FS_Bijection DEF ExistsBijection
  <2>6. s \in Seq(S) /\ Len(s) = Cardinality(S) /\ ToSet(s) = S
    BY <2>2, SetToSeqsIs DEF NewestFirst
  <2>7. Len(s) <= Limit
    BY <1>1, <2>5, <2>6 DEF K
  <2>8. list = s
    BY <2>3, <2>6, <2>7, LimitedIs
  <2> QED
    BY <2>1, <2>5, <2>6, <2>8 DEF K
<1>2. TypeOK => StartPageComplete
  BY <1>1 DEF StartPageComplete
<1> QED
  BY <1>2, TypeCorrect, PTL
-----------------------------------------------------------------------------
(* The rows of one package.                                                *)

\* Per kind of build that has built the package, API.PkgResults
\* (src/json/json.go:193-206) returns one result, and no build of the kind that has
\* one is newer, whatever the order in which builds and reports were stored.
THEOREM PkgResultsAreMostRecent == Spec => []PkgResultsMostRecent
<1>1. ASSUME TypeOK, NEW path, NEW list \in PkgResults(path)
      PROVE  /\ {ResultKind[i] : i \in IdsOf(path)} = {ResultKind[i] : i \in ToSet(list)}
             /\ \A k, l \in DOMAIN list : ResultKind[list[k]] = ResultKind[list[l]] => k = l
             /\ \A i \in ToSet(list), j \in IdsOf(path) :
                   ResultKind[j] = ResultKind[i] =>
                       builds[results[j].build].ts <= builds[results[i].build].ts
  <2> DEFINE S == IdsOf(path)
             K == ResultKind
             Ts(i) == builds[results[i].build].ts
  <2>1. PICK s \in GetAllPkgResults(path) : list = FirstOfKind(s, K)
    BY DEF PkgResults
  <2>2. IsFiniteSet(S) /\ \A i \in S : Ts(i) \in Nat
    <3>1. S \subseteq Ids
      BY DEF IdsOf
    <3>2. IsFiniteSet(Ids)
      <4>1. Ids = 1..Len(results) /\ Len(results) \in Nat
        BY <1>1, TablesType
      <4> QED
        BY <4>1, FS_Interval
    <3>3. \A i \in Ids : Ts(i) \in Nat
      BY <1>1, TablesType
    <3> HIDE DEF S, Ts
    <3> QED
      BY <3>1, <3>2, <3>3, FS_Subset
  <2>3. s \in SetToSeqs(S) /\ \A i, j \in DOMAIN s : i < j => Ts(s[i]) >= Ts(s[j])
    BY DEF GetAllPkgResults
  <2> HIDE DEF S, K, Ts
  <2>4. s \in Seq(S) /\ Len(s) \in Nat /\ DOMAIN s = 1..Len(s) /\ \A x \in S : \E i \in DOMAIN s : s[i] = x
    BY <2>2, <2>3, SetToSeqsIs
  <2>5. list \in Seq(S) /\ DOMAIN list = 1..Len(list) /\ Len(list) \in Nat
    BY <2>1, <2>4, FirstOfKindKeeps
  <2>11. PICK at : AreFirsts(at, list, s, K)
    BY <2>1, <2>4, FirstOfKindKeeps
  <2>6. /\ at \in [1..Len(list) -> 1..Len(s)]
        /\ \A k, l \in 1..Len(list) : k < l => at[k] < at[l]
        /\ \A k \in 1..Len(list) : list[k] = s[at[k]]
        /\ \A i \in 1..Len(s) : \E k \in 1..Len(list) : at[k] <= i /\ K[list[k]] = K[s[i]]
        /\ \A k \in 1..Len(list), i \in 1..Len(s) : K[list[k]] = K[s[i]] => at[k] <= i
    BY <2>11 DEF AreFirsts
  <2>7. ASSUME NEW i \in ToSet(list) PROVE i \in S /\ \E k \in 1..Len(list) : list[k] = i
    BY <2>5 DEF ToSet
  <2>8. {K[i] : i \in S} = {K[i] : i \in ToSet(list)}
    <3>1. ASSUME NEW i \in S PROVE \E j \in ToSet(list) : K[j] = K[i]
      <4>1. PICK m \in 1..Len(s) : s[m] = i
        BY <2>4
      <4>2. PICK k \in 1..Len(list) : K[list[k]] = K[s[m]]
        BY <2>6
      <4>3. list[k] \in ToSet(list)
        BY <2>5 DEF ToSet
      <4> QED
        BY <4>1, <4>2, <4>3
    <3> QED
      BY <2>7, <3>1
  <2>9. ASSUME NEW k \in DOMAIN list, NEW l \in DOMAIN list, K[list[k]] = K[list[l]]
        PROVE  k = l
    <3>1. at[k] \in 1..Len(s) /\ at[l] \in 1..Len(s) /\ list[k] = s[at[k]] /\ list[l] = s[at[l]]
      BY <2>5, <2>6
    <3>2. at[k] <= at[l] /\ at[l] <= at[k]
      BY <2>5, <2>6, <2>9, <3>1
    <3>3. ~(at[k] < at[l]) /\ ~(at[l] < at[k])
      BY <2>4, <3>1, <3>2
    <3>4. ~(k < l) /\ ~(l < k)
      BY <2>5, <2>6, <3>3
    <3> QED
      BY <2>5, <3>4
  <2>10. ASSUME NEW i \in ToSet(list), NEW j \in S, K[j] = K[i] PROVE Ts(j) <= Ts(i)
    <3>1. PICK k \in 1..Len(list) : list[k] = i
      BY <2>7
    <3>2. PICK m \in 1..Len(s) : s[m] = j
      BY <2>4
    <3>3. at[k] <= m /\ at[k] \in 1..Len(s) /\ s[at[k]] = i
      BY <2>6, <2>10, <3>1, <3>2
    <3>4. CASE at[k] = m
      BY <2>2, <3>2, <3>3, <3>4
    <3>5. CASE at[k] < m
      <4>1. Ts(s[at[k]]) >= Ts(s[m])
        BY <2>3, <2>4, <3>3, <3>5
      <4>2. Ts(i) \in Nat /\ Ts(j) \in Nat
        BY <2>2, <2>7
      <4> QED
        BY <3>2, <3>3, <4>1, <4>2
    <3> QED
      BY <2>4, <3>3, <3>4, <3>5
  <2> QED
    BY <2>8, <2>9, <2>10 DEF S, K, Ts
<1>2. TypeOK => PkgResultsMostRecent
  BY <1>1 DEF PkgResultsMostRecent
<1> QED
  BY <1>2, TypeCorrect, PTL

-----------------------------------------------------------------------------
(* The query and the filter that it replaced.                              *)

\* s lists the n numbers of M, the highest first.
ListsDown(s, M, n) ==
    /\ s \in [1..n -> M]
    /\ \A x \in M : \E i \in 1..n : s[i] = x
    /\ \A i, j \in 1..n : i < j => s[i] > s[j]

\* There is one such list.
LEMMA ListsDownOnce ==
    ASSUME NEW M, M \subseteq Nat, NEW n \in Nat, NEW s, NEW t, ListsDown(s, M, n), ListsDown(t, M, n)
    PROVE  s = t
<1>2. /\ s \in [1..n -> M] /\ t \in [1..n -> M]
      /\ \A i, j \in 1..n : i < j => s[i] > s[j]
      /\ \A i, j \in 1..n : i < j => t[i] > t[j]
      /\ \A x \in M : (\E i \in 1..n : s[i] = x) /\ (\E i \in 1..n : t[i] = x)
  BY DEF ListsDown
<1> DEFINE Bad == {i \in 1..n : s[i] # t[i]}
<1>1. ASSUME Bad # {} PROVE FALSE
  <2>1. PICK i \in Bad : \A j \in Bad : i <= j
    <3>1. Bad \subseteq Nat
      OBVIOUS
    <3> HIDE DEF Bad
    <3> QED
      BY <1>1, <3>1, LeastExists
  <2>2. i \in 1..n /\ s[i] # t[i] /\ \A j \in 1..n : j < i => s[j] = t[j]
    BY <2>1
  <2> HIDE DEF Bad
  <2>6. i \in Nat /\ s[i] \in Nat /\ t[i] \in Nat /\ s[i] \in M /\ t[i] \in M
    <3>1. s[i] \in M /\ t[i] \in M
      BY <1>2, <2>2
    <3>2. i \in Nat
      BY <2>2
    <3> QED
      BY <3>1, <3>2
  <2>3. s[i] < t[i]
    <3>1. PICK j \in 1..n : s[i] = t[j]
      BY <1>2, <2>6
    <3>2. ~(j < i)
      <4>1. j < i => s[i] > s[i]
        BY <1>2, <2>2, <3>1
      <4> QED
        BY <2>6, <4>1
    <3>3. i < j
      <4>1. j # i
        BY <2>2, <3>1
      <4>2. j \in Nat
        OBVIOUS
      <4> QED
        BY <2>6, <3>2, <4>1, <4>2
    <3> QED
      BY <1>2, <2>2, <3>1, <3>3
  <2>4. t[i] < s[i]
    <3>1. PICK j \in 1..n : t[i] = s[j]
      BY <1>2, <2>6
    <3>2. ~(j < i)
      <4>1. j < i => t[i] > t[i]
        BY <1>2, <2>2, <3>1
      <4> QED
        BY <2>6, <4>1
    <3>3. i < j
      <4>1. j # i
        BY <2>2, <3>1
      <4>2. j \in Nat
        OBVIOUS
      <4> QED
        BY <2>6, <3>2, <4>1, <4>2
    <3> QED
      BY <1>2, <2>2, <3>1, <3>3
  <2> QED
    BY <2>3, <2>4, <2>6
<1> QED
  BY <1>1, <1>2
-----------------------------------------------------------------------------
\* What the start page lists, see MaxId.
LatestIds == UNION {MaxId(k) : k \in Kinds}

\* If builds arrive in the order of their times, the newest first are the highest
\* ids first.
LEMMA NewestIsHighest ==
    ASSUME TypeOK, InOrder, NEW S, S \subseteq DOMAIN builds, NEW s \in SetToSeqs(S)
    PROVE  s \in NewestFirst(S) <=> \A i, j \in DOMAIN s : i < j => s[i] > s[j]
<1>1. /\ DOMAIN s \subseteq Nat /\ \A i \in DOMAIN s : s[i] \in DOMAIN builds
      /\ \A i, j \in DOMAIN s : s[i] = s[j] => i = j
  <2>1. IsFiniteSet(S)
    BY BuildIdsFinite
  <2>2. s \in Seq(S) /\ DOMAIN s = 1..Len(s) /\ \A i, j \in DOMAIN s : s[i] = s[j] => i = j
    BY <2>1, SetToSeqsIs
  <2> QED
    BY <2>2
<1>2. /\ DOMAIN builds \subseteq Nat
      /\ \A b \in DOMAIN builds : builds[b].ts \in Nat
  BY TablesType
<1>3. ASSUME NEW i \in DOMAIN s, NEW j \in DOMAIN s, i < j
      PROVE  builds[s[i]].ts >= builds[s[j]].ts <=> s[i] > s[j]
  <2>1. s[i] \in DOMAIN builds /\ s[j] \in DOMAIN builds /\ s[i] # s[j]
    BY <1>1, <1>3
  <2>2. s[i] < s[j] => builds[s[i]].ts < builds[s[j]].ts
    BY <2>1 DEF InOrder
  <2>3. s[j] < s[i] => builds[s[j]].ts < builds[s[i]].ts
    BY <2>1 DEF InOrder
  <2>4. s[i] \in Nat /\ s[j] \in Nat /\ builds[s[i]].ts \in Nat /\ builds[s[j]].ts \in Nat
    BY <1>2, <2>1
  <2> QED
    BY <2>1, <2>2, <2>3, <2>4
<1> QED
  BY <1>3 DEF NewestFirst

\* There is a list of all builds from the last to the first.
LEMMA HighestFirstExists ==
    ASSUME TypeOK, InOrder
    PROVE  \E s : s \in NewestFirst(DOMAIN builds)
<1> DEFINE n == Len(builds)
           s == [i \in 1..n |-> n + 1 - i]
<1>1. n \in Nat /\ DOMAIN builds = 1..n
  BY TablesType
<1> HIDE DEF n
<1>2. Cardinality(1..n) = n
  BY <1>1, FS_Interval
<1>3. \A i \in 1..n : s[i] = n + 1 - i /\ s[i] \in 1..n
  BY <1>1
<1>4. s \in [1..n -> 1..n] /\ DOMAIN s = 1..n
  BY <1>3
<1> HIDE DEF s
<1>5. \A i, j \in 1..n : i # j => s[i] # s[j]
  BY <1>1, <1>3
<1>6. s \in SetToSeqs(1..n)
  BY <1>2, <1>4, <1>5 DEF SetToSeqs
<1>7. \A i, j \in DOMAIN s : i < j => s[i] > s[j]
  BY <1>1, <1>3, <1>4
<1>8. s \in NewestFirst(DOMAIN builds)
  BY <1>1, <1>6, <1>7, NewestIsHighest
<1> QED
  BY <1>8

\* The filter leaves the last build of each kind, from the last to the first.
LEMMA FilterLeavesTheLast ==
    ASSUME TypeOK, InOrder, NEW s \in NewestFirst(DOMAIN builds), NEW t, t = FirstOfKind(s, BuildKind)
    PROVE  t \in NewestFirst(LatestIds)
<1> DEFINE D == DOMAIN builds
           Kind(b) == builds[b].kind
           M == LatestIds
<1>1. /\ D \subseteq Nat /\ IsFiniteSet(D) /\ M \subseteq D /\ IsFiniteSet(M)
      /\ \A b : b \in M <=> b \in D /\ \A c \in D : Kind(c) = Kind(b) => c <= b
  <2>1. \A b \in D : Kind(b) \in Kinds
    BY TablesType
  <2>2. \A b : b \in M <=> b \in D /\ \A c \in D : Kind(c) = Kind(b) => c <= b
    BY <2>1 DEF LatestIds, MaxId
  <2>3. D \subseteq Nat
    BY TablesType
  <2>4. M \subseteq D
    BY <2>2
  <2> HIDE DEF M, D
  <2>5. IsFiniteSet(D) /\ IsFiniteSet(M)
    BY <2>4, BuildIdsFinite DEF D
  <2> QED
    BY <2>2, <2>3, <2>4, <2>5
<1>2. s \in SetToSeqs(D) /\ \A i, j \in DOMAIN s : i < j => s[i] > s[j]
  BY NewestIsHighest DEF NewestFirst
<1>3. \A b \in D : BuildKind[b] = Kind(b)
  BY DEF BuildKind
<1> HIDE DEF D, M, Kind
<1>4. /\ s \in Seq(D) /\ Len(s) \in Nat /\ DOMAIN s = 1..Len(s)
      /\ \A x \in D : \E i \in DOMAIN s : s[i] = x
  BY <1>1, <1>2, SetToSeqsIs
<1>5. t \in Seq(D) /\ DOMAIN t = 1..Len(t) /\ Len(t) \in Nat
  BY <1>4, FirstOfKindKeeps
<1>6. PICK at : AreFirsts(at, t, s, BuildKind)
  BY <1>4, FirstOfKindKeeps
<1>7. /\ at \in [1..Len(t) -> 1..Len(s)]
      /\ \A k, l \in 1..Len(t) : k < l => at[k] < at[l]
      /\ \A k \in 1..Len(t) : t[k] = s[at[k]]
      /\ \A i \in 1..Len(s) : \E k \in 1..Len(t) : at[k] <= i /\ BuildKind[t[k]] = BuildKind[s[i]]
      /\ \A k \in 1..Len(t), i \in 1..Len(s) : BuildKind[t[k]] = BuildKind[s[i]] => at[k] <= i
  BY <1>6 DEF AreFirsts
<1>8. \A k, l \in 1..Len(t) : k < l => t[k] > t[l]
  <2> SUFFICES ASSUME NEW k \in 1..Len(t), NEW l \in 1..Len(t), k < l PROVE t[k] > t[l]
    OBVIOUS
  <2>1. /\ at[k] \in DOMAIN s /\ at[l] \in DOMAIN s /\ at[k] < at[l]
        /\ t[k] = s[at[k]] /\ t[l] = s[at[l]]
    BY <1>4, <1>7
  <2> QED
    BY <1>2, <2>1
<1>9. ASSUME NEW k \in 1..Len(t), NEW i \in 1..Len(s), at[k] <= i
      PROVE  s[i] <= t[k] /\ s[i] \in D /\ t[k] \in D
  <2>1. at[k] \in 1..Len(s) /\ t[k] = s[at[k]] /\ s[i] \in D /\ t[k] \in D
    <3>1. at[k] \in 1..Len(s) /\ t[k] = s[at[k]]
      BY <1>7
    <3>2. \A j \in 1..Len(s) : s[j] \in D
      BY <1>4
    <3> QED
      BY <3>1, <3>2
  <2>2. s[i] \in Nat /\ t[k] \in Nat
    BY <1>1, <2>1
  <2>3. CASE at[k] = i
    BY <2>1, <2>2, <2>3
  <2>4. CASE at[k] < i
    <3>1. s[at[k]] > s[i]
      BY <1>2, <1>4, <2>1, <2>4
    <3> QED
      BY <2>1, <2>2, <3>1
  <2> QED
    BY <1>4, <1>9, <2>1, <2>3, <2>4
<1>10. ASSUME NEW k \in 1..Len(t) PROVE t[k] \in M
  <2>1. t[k] \in D
    BY <1>5
  <2>2. ASSUME NEW c \in D, Kind(c) = Kind(t[k]) PROVE c <= t[k]
    <3>1. PICK i \in 1..Len(s) : s[i] = c
      BY <1>4
    <3>2. BuildKind[t[k]] = BuildKind[s[i]]
      BY <1>3, <2>1, <2>2, <3>1
    <3>3. at[k] <= i
      BY <1>7, <3>2
    <3> QED
      BY <1>9, <3>1, <3>3
  <2> QED
    BY <1>1, <2>1, <2>2
<1>11. ASSUME NEW b \in M PROVE \E k \in 1..Len(t) : t[k] = b
  <2>1. b \in D /\ \A c \in D : Kind(c) = Kind(b) => c <= b
    BY <1>1
  <2>2. PICK i \in 1..Len(s) : s[i] = b
    BY <1>4, <2>1
  <2>3. PICK k \in 1..Len(t) : at[k] <= i /\ BuildKind[t[k]] = BuildKind[s[i]]
    BY <1>7
  <2>4. b <= t[k] /\ t[k] \in D
    BY <1>9, <2>2, <2>3
  <2>5. t[k] <= b
    BY <1>3, <2>1, <2>2, <2>3, <2>4
  <2>6. t[k] = b
    <3>1. t[k] \in Nat /\ b \in Nat
      BY <1>1, <2>1, <2>4
    <3> QED
      BY <2>4, <2>5, <3>1
  <2> QED
    BY <2>6
<1>12. \A k, l \in 1..Len(t) : k # l => t[k] # t[l]
  <2> SUFFICES ASSUME NEW k \in 1..Len(t), NEW l \in 1..Len(t), k # l PROVE t[k] # t[l]
    OBVIOUS
  <2>1. t[k] \in Nat /\ t[l] \in Nat
    BY <1>1, <1>10
  <2>2. k < l \/ l < k
    BY <1>5
  <2> QED
    BY <1>8, <2>1, <2>2
<1>13. t \in [1..Len(t) -> M]
  BY <1>5, <1>10
<1>14. Cardinality(M) = Len(t)
  <2> DEFINE m == Len(t)
  <2>4. m \in Nat
    BY <1>5
  <2> HIDE DEF m
  <2>1. IsFiniteSet(1..m) /\ Cardinality(1..m) = m
    BY <2>4, FS_Interval
  <2>2. t \in Bijection(1..m, M)
    BY <1>11, <1>12, <1>13 DEF Bijection, Injection, Surjection, IsInjective, m
  <2>3. Cardinality(M) = Cardinality(1..m)
    BY <2>1, <2>2, FS_Bijection DEF ExistsBijection
  <2> QED
    BY <2>1, <2>3 DEF m
<1>15. t \in SetToSeqs(M)
  BY <1>12, <1>13, <1>14 DEF SetToSeqs
<1>16. \A i, j \in DOMAIN t : i < j => t[i] > t[j]
  BY <1>5, <1>8
<1> QED
  BY <1>1, <1>15, <1>16, NewestIsHighest DEF M, D

\* While builds arrive in the order of their times and are no more than the LIMIT,
\* the start page is what the filter of dao.go:275-282 made of the list of all
\* builds: the window function of queries.sql.go:132 has replaced it unnoticed.
THEOREM ReplacementAgrees == Spec => []SameAsDao
<1>1. ASSUME TypeOK, InOrder, Len(builds) <= Limit PROVE LatestBuilds(TRUE) = DaoLatestBuildsFiltered
  <2> DEFINE D == DOMAIN builds
  <2>1. /\ D \subseteq Nat /\ IsFiniteSet(D) /\ Cardinality(D) <= Limit
        /\ LatestIds \subseteq D
    <3>1. D = 1..Len(builds) /\ Len(builds) \in Nat
      BY <1>1, TablesType
    <3>2. IsFiniteSet(D) /\ Cardinality(D) = Len(builds)
      <4> DEFINE n == Len(builds)
      <4>1. n \in Nat /\ D = 1..n
        BY <3>1
      <4> HIDE DEF n, D
      <4>2. IsFiniteSet(1..n) /\ Cardinality(1..n) = n
        BY <4>1, FS_Interval
      <4> QED
        BY <4>1, <4>2 DEF n
    <3>3. LatestIds \subseteq D
      BY DEF LatestIds, MaxId
    <3> QED
      BY <1>1, <3>1, <3>2, <3>3
  <2>2. Limit \in Nat
    BY BoundAssumption
  <2> HIDE DEF D
  <2>3. ASSUME NEW S, S \subseteq D, NEW s \in NewestFirst(S) PROVE Limited(s) = s
    <3>1. IsFiniteSet(S) /\ Cardinality(S) <= Cardinality(D) /\ Cardinality(S) \in Nat /\ Cardinality(D) \in Nat
      BY <2>1, <2>3, FS_Subset, FS_CardinalityType
    <3>2. s \in Seq(S) /\ Len(s) = Cardinality(S)
      BY <3>1, SetToSeqsIs DEF NewestFirst
    <3> QED
      BY <2>1, <2>2, <3>1, <3>2, LimitedIs
  <2>4. LatestBuilds(TRUE) = NewestFirst(LatestIds)
    <3>1. LatestBuilds(TRUE) = {Limited(s) : s \in NewestFirst(LatestIds)}
      BY DEF LatestBuilds, GetLatestBuildsPerPlatform, LatestIds
    <3>2. \A s \in NewestFirst(LatestIds) : Limited(s) = s
      BY <2>1, <2>3
    <3> QED
      BY <3>1, <3>2
  <2>5. DaoLatestBuildsFiltered = {FirstOfKind(s, BuildKind) : s \in NewestFirst(D)}
    <3>1. getLatestBuilds = {Limited(s) : s \in NewestFirst(D)}
      BY DEF getLatestBuilds, D
    <3>2. \A s \in NewestFirst(D) : Limited(s) = s
      BY <2>3
    <3>3. getLatestBuilds = NewestFirst(D)
      BY <3>1, <3>2
    <3> QED
      BY <3>3 DEF DaoLatestBuildsFiltered
  <2>6. ASSUME NEW s \in NewestFirst(D) PROVE FirstOfKind(s, BuildKind) \in NewestFirst(LatestIds)
    BY <1>1, FilterLeavesTheLast DEF D
  <2>7. ASSUME NEW s \in NewestFirst(LatestIds), NEW t \in NewestFirst(LatestIds) PROVE s = t
    <3> DEFINE M == LatestIds
               n == Cardinality(M)
    <3>1. IsFiniteSet(M) /\ M \subseteq Nat /\ M \subseteq D
      BY <2>1, FS_Subset
    <3>2. n \in Nat
      BY <3>1, FS_CardinalityType
    <3>3. s \in SetToSeqs(M) /\ t \in SetToSeqs(M)
      BY DEF NewestFirst
    <3>4. /\ \A i, j \in DOMAIN s : i < j => s[i] > s[j]
          /\ \A i, j \in DOMAIN t : i < j => t[i] > t[j]
      BY <1>1, <3>1, <3>3, NewestIsHighest DEF D
    <3> HIDE DEF n, M
    <3>5. /\ s \in Seq(M) /\ Len(s) = n /\ DOMAIN s = 1..n
          /\ \A x \in M : \E i \in DOMAIN s : s[i] = x
      BY <3>1, <3>3, SetToSeqsIs DEF n
    <3>6. /\ t \in Seq(M) /\ Len(t) = n /\ DOMAIN t = 1..n
          /\ \A x \in M : \E i \in DOMAIN t : t[i] = x
      BY <3>1, <3>3, SetToSeqsIs DEF n
    <3>7. ListsDown(s, M, n)
      BY <3>4, <3>5 DEF ListsDown
    <3>8. ListsDown(t, M, n)
      BY <3>4, <3>6 DEF ListsDown
    <3> QED
      BY <3>1, <3>2, <3>7, <3>8, ListsDownOnce
  <2>8. PICK s \in NewestFirst(D) : TRUE
    BY <1>1, HighestFirstExists DEF D
  <2> QED
    BY <2>4, <2>5, <2>6, <2>7, <2>8
<1>2. TypeOK => SameAsDao
  BY <1>1 DEF SameAsDao
<1> QED
  BY <1>2, TypeCorrect, PTL
=============================================================================
