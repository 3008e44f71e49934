------------------------- MODULE ReportParserProofs -------------------------
(***************************************************************************)
(* Theorems about ReportParser, for reports of any length and any names:   *)
(* the indexes that the scan leaves for the second pass stay good, and the *)
(* second pass keeps and counts what the report says.                      *)
(***************************************************************************)
EXTENDS ReportParser, KeepLoopProofs, FiniteSetTheorems, TLAPS

RecordFields == {"name", "path", "status", "failedDeps", "breaks"}
IsRecord(r) == r = [f \in RecordFields |-> r[f]]

\* s is a sequence of records.
RecordsOK(s) ==
    /\ Len(s) \in Nat
    /\ s = [j \in 1..Len(s) |-> s[j]]
    /\ \A j \in 1..Len(s) : IsRecord(s[j])

\* t has the records of s, with the same names.
SameNames(s, t) == Len(t) = Len(s) /\ \A j \in 1..Len(s) : t[j].name = s[j].name

\* What is inductive of IndexesValid.
IndexInv == RecordsOK(pkgs) /\ IndexesValid

\* A function on 1..n is a sequence of length n.
LEMMA FunctionLength ==
    ASSUME NEW n \in Nat, NEW t, t = [j \in 1..n |-> t[j]]
    PROVE  Len(t) = n
<1> DEFINE S == {t[j] : j \in 1..n}
<1>1. t \in [1..n -> S]
  OBVIOUS
<1> HIDE DEF S
<1> QED
  BY <1>1

\* Assigning to a field leaves a record with the same name.
LEMMA FieldAssigned ==
    ASSUME NEW r, IsRecord(r), NEW x
    PROVE  /\ IsRecord([r EXCEPT !.path = x]) /\ [r EXCEPT !.path = x].name = r.name
           /\ IsRecord([r EXCEPT !.status = x]) /\ [r EXCEPT !.status = x].name = r.name
           /\ IsRecord([r EXCEPT !.failedDeps = x]) /\ [r EXCEPT !.failedDeps = x].name = r.name
BY DEF IsRecord, RecordFields

\* So does assigning it in one place of a sequence.
LEMMA RecordAssigned ==
    ASSUME NEW s, RecordsOK(s), NEW c, NEW r, NEW t,
           t = [s EXCEPT ![c] = r],
           c \in 1..Len(s) => IsRecord(r) /\ r.name = s[c].name
    PROVE  RecordsOK(t) /\ SameNames(s, t)
<1>1. t = [j \in 1..Len(s) |-> IF j = c THEN r ELSE s[j]]
  BY DEF RecordsOK
<1>2. t = [j \in 1..Len(s) |-> t[j]]
  BY <1>1
<1>3. Len(t) = Len(s)
  BY <1>2, FunctionLength DEF RecordsOK
<1> QED
  BY <1>1, <1>2, <1>3 DEF RecordsOK, SameNames

LEMMA NamesKept ==
    ASSUME IndexInv, RecordsOK(pkgs'), SameNames(pkgs, pkgs'), UNCHANGED failedPkgs
    PROVE  IndexInv'
BY DEF IndexInv, IndexesValid, RecordsOK, SameNames

LEMMA NextIndexInv ==
    ASSUME IndexInv, [Next]_vars
    PROVE  IndexInv'
<1>0. RecordsOK(pkgs) /\ Current = Len(pkgs)
  BY DEF IndexInv, Current
<1>1. CASE StartRecord
  <2> DEFINE r == [name |-> Line.val, path |-> NoPath, status |-> "OK",
                   failedDeps |-> <<>>, breaks |-> 0]
             S == {pkgs[j] : j \in 1..Len(pkgs)} \cup {r}
  <2>1. pkgs' = Append(pkgs, r) /\ UNCHANGED failedPkgs
    BY <1>1 DEF StartRecord
  <2>2. IsRecord(r)
    BY DEF IsRecord, RecordFields
  <2>3. pkgs \in Seq(S) /\ r \in S
    <3>1. pkgs \in [1..Len(pkgs) -> S]
      BY <1>0 DEF RecordsOK
    <3> QED
      BY <1>0, <3>1 DEF RecordsOK
  <2> HIDE DEF r, S
  <2>4. /\ Len(pkgs') = Len(pkgs) + 1 /\ pkgs' \in Seq(S)
        /\ \A j \in 1..Len(pkgs) : pkgs'[j] = pkgs[j]
        /\ pkgs'[Len(pkgs) + 1] = r
    BY <2>1, <2>3
  <2>5. RecordsOK(pkgs')
    BY <1>0, <2>2, <2>4 DEF RecordsOK
  <2>6. DOMAIN pkgs = 1..Len(pkgs) /\ DOMAIN pkgs' = 1..(Len(pkgs) + 1)
    BY <2>3, <2>4
  <2>7. IndexesValid'
    BY <1>0, <2>1, <2>4, <2>6 DEF IndexInv, IndexesValid, RecordsOK
  <2> QED
    BY <2>5, <2>7 DEF IndexInv
<1>2. CASE SetLocation \/ SetDepends
  <2>1. PICK r : /\ pkgs' = [pkgs EXCEPT ![Current] = r]
                 /\ Current \in 1..Len(pkgs) => IsRecord(r) /\ r.name = pkgs[Current].name
    <3> DEFINE r1 == [pkgs[Current] EXCEPT !.path = Line.val]
               r2 == [pkgs[Current] EXCEPT !.failedDeps = Line.val]
    <3>1. pkgs' = [pkgs EXCEPT ![Current] = r1] \/ pkgs' = [pkgs EXCEPT ![Current] = r2]
      BY <1>2 DEF SetLocation, SetDepends
    <3>2. Current \in 1..Len(pkgs) => /\ IsRecord(r1) /\ r1.name = pkgs[Current].name
                                      /\ IsRecord(r2) /\ r2.name = pkgs[Current].name
      BY <1>0, FieldAssigned DEF RecordsOK
    <3> HIDE DEF r1, r2
    <3> QED
      BY <3>1, <3>2
  <2>2. UNCHANGED failedPkgs
    BY <1>2 DEF SetLocation, SetDepends
  <2> QED
    BY <1>0, <2>1, <2>2, RecordAssigned, NamesKept
<1>3. CASE SetStatus
  <2> DEFINE status == Status(Line.val)
             name == pkgs[Current].name
             r == [pkgs[Current] EXCEPT !.status = status]
  <2>1. /\ pkgs # <<>> /\ pkgs' = [pkgs EXCEPT ![Current] = r]
        /\ failedPkgs' = IF Broken(status) THEN WithEntry(name, Current) ELSE failedPkgs
    BY <1>3 DEF SetStatus
  <2>2. Current \in 1..Len(pkgs) => IsRecord(r) /\ r.name = name
    BY <1>0, FieldAssigned DEF RecordsOK
  <2> HIDE DEF status, r
  <2>3. RecordsOK(pkgs') /\ SameNames(pkgs, pkgs')
    BY <1>0, <2>1, <2>2, RecordAssigned
  <2>4. Current \in 1..Len(pkgs)
    <3>1. Len(pkgs) # 0
      BY <1>0, <2>1 DEF RecordsOK
    <3> QED
      BY <1>0, <3>1 DEF RecordsOK
  <2>5. CASE Broken(status)
    <3>1. failedPkgs' = [n \in DOMAIN failedPkgs \cup {name} |->
                            IF n = name THEN Current ELSE failedPkgs[n]]
      BY <2>1, <2>5 DEF WithEntry
    <3>2. DOMAIN pkgs = 1..Len(pkgs) /\ DOMAIN pkgs' = 1..Len(pkgs)
      BY <1>0, <2>3 DEF RecordsOK, SameNames
    <3>3. \A n \in DOMAIN failedPkgs' :
              failedPkgs'[n] \in 1..Len(pkgs) /\ pkgs[failedPkgs'[n]].name = n
      BY <2>4, <3>1, <3>2 DEF IndexInv, IndexesValid
    <3>4. IndexesValid'
      BY <2>3, <3>2, <3>3 DEF IndexesValid, SameNames
    <3> QED
      BY <2>3, <3>4 DEF IndexInv
  <2>6. CASE ~Broken(status)
    BY <2>1, <2>3, <2>6, NamesKept
  <2> QED
    BY <2>5, <2>6
<1>4. CASE ResolveRecord
  <2> DEFINE i == resolved + 1
             deps == Kept(i)
             r(j) == [pkgs[j] EXCEPT !.breaks = @ + Count(deps, j),
                                     !.failedDeps = IF j = i THEN deps ELSE @]
  <2>1. pkgs' = [j \in DOMAIN pkgs |-> r(j)] /\ UNCHANGED failedPkgs
    BY <1>4 DEF ResolveRecord
  <2>2. ASSUME NEW j \in 1..Len(pkgs) PROVE IsRecord(r(j)) /\ r(j).name = pkgs[j].name
    <3> DEFINE x == pkgs[j].breaks + Count(deps, j)
               y == IF j = i THEN deps ELSE pkgs[j].failedDeps
    <3>1. IsRecord(pkgs[j])
      BY <1>0 DEF RecordsOK
    <3>2. r(j) = [pkgs[j] EXCEPT !.breaks = x, !.failedDeps = y]
      OBVIOUS
    <3> HIDE DEF x, y
    <3>3. /\ IsRecord([pkgs[j] EXCEPT !.breaks = x, !.failedDeps = y])
          /\ [pkgs[j] EXCEPT !.breaks = x, !.failedDeps = y].name = pkgs[j].name
      BY <3>1 DEF IsRecord, RecordFields
    <3> QED
      BY <3>2, <3>3 DEF IsRecord
  <2> HIDE DEF r
  <2>3. DOMAIN pkgs = 1..Len(pkgs)
    BY <1>0 DEF RecordsOK
  <2>4. pkgs' = [j \in 1..Len(pkgs) |-> pkgs'[j]]
    BY <2>1, <2>3
  <2>5. Len(pkgs') = Len(pkgs)
    BY <1>0, <2>4, FunctionLength DEF RecordsOK
  <2>6. RecordsOK(pkgs') /\ SameNames(pkgs, pkgs')
    BY <1>0, <2>1, <2>2, <2>3, <2>4, <2>5 DEF RecordsOK, SameNames
  <2> QED
    BY <2>1, <2>6, NamesKept
<1>5. CASE SkipLine \/ NilRecord \/ EndScan \/ Return \/ UNCHANGED vars
  BY <1>5 DEF SkipLine, NilRecord, EndScan, Return, vars, IndexInv, IndexesValid
<1> QED
  BY <1>1, <1>2, <1>3, <1>4, <1>5 DEF Next

\* Whatever a report says, twice or in whatever order, the map from names to
\* indexes never leads to a record that is not there or has another name: the
\* second pass of PkgsFromReport (bulk.go:201) cannot count at a wrong record.
THEOREM IndexesStayValid == Spec => []IndexesValid
<1>1. Init => IndexInv
  <2> SUFFICES ASSUME Init PROVE IndexInv
    OBVIOUS
  <2>1. pkgs = <<>> /\ failedPkgs = <<>>
    BY DEF Init
  <2> QED
    BY <2>1 DEF IndexInv, RecordsOK, IndexesValid
<1>2. IndexInv /\ [Next]_vars => IndexInv'
  BY NextIndexInv
<1>3. IndexInv => IndexesValid
  BY DEF IndexInv
<1> QED
  BY <1>1, <1>2, <1>3, PTL DEF Spec

-----------------------------------------------------------------------------
(* Types.                                                                  *)

\* The next line of a report has a value of the type that its key says.
LEMMA LineType ==
    ASSUME TypeOK, pos < Len(input)
    PROVE  /\ pos \in Nat /\ pos + 1 \in 1..Len(input) /\ Len(input) \in Nat
           /\ Line.key = "PKGNAME" => Line.val \in Names
           /\ Line.key = "PKG_LOCATION" => Line.val \in Paths
           /\ Line.key = "DEPENDS" => Line.val \in Seq(Names)
<1>1. input \in Seq(Lines)
  BY InputAssumption DEF TypeOK
<1>2. Len(input) \in Nat /\ DOMAIN input = 1..Len(input)
  BY <1>1
<1>3. pos \in Nat /\ pos + 1 \in 1..Len(input)
  BY <1>2 DEF TypeOK
<1>4. Line \in Lines
  BY <1>1, <1>2, <1>3 DEF Line
<1> QED
  BY <1>2, <1>3, <1>4 DEF Lines

\* The records are those of a function on the first numbers.
LEMMA RecordsType ==
    ASSUME TypeOK
    PROVE  /\ Current \in Nat /\ DOMAIN pkgs = 1..Current /\ Len(pkgs) = Current
           /\ pkgs \in [1..Current -> Records]
           /\ pkgs # <<>> => Current \in 1..Current
BY DEF TypeOK, Current

\* A function to records on the first numbers is a list of records.
LEMMA FunctionIsSeq ==
    ASSUME NEW n \in Nat, NEW S, NEW t \in [1..n -> S]
    PROVE  t \in Seq(S) /\ Len(t) = n
OBVIOUS

\* The loop over the dependencies of one record keeps names of failed packages.
LEMMA KeptType ==
    ASSUME TypeOK, NEW i \in 1..Current
    PROVE  /\ Kept(i) \in Seq(Names)
           /\ DOMAIN Kept(i) = 1..Len(Kept(i)) /\ Len(Kept(i)) \in Nat
<1>1. pkgs[i].failedDeps \in Seq(Names)
  BY RecordsType DEF Records
<1>2. Kept(i) \in Seq(Names)
  BY <1>1, KeepSelects DEF Kept
<1> QED
  BY <1>2

\* A record is counted as often as it is met.
LEMMA CountType ==
    ASSUME NEW deps, Len(deps) \in Nat, DOMAIN deps = 1..Len(deps), NEW j
    PROVE  /\ IsFiniteSet({k \in DOMAIN deps : failedPkgs[deps[k]] = j})
           /\ Count(deps, j) \in Nat
<1>1. IsFiniteSet(1..Len(deps))
  BY FS_Interval
<1>2. IsFiniteSet({k \in DOMAIN deps : failedPkgs[deps[k]] = j})
  BY <1>1, FS_Subset
<1> QED
  BY <1>2, FS_CardinalityType DEF Count

\* The record that the second pass leaves where record j was.
ResolvedRecord(j) ==
    [pkgs[j] EXCEPT !.breaks = @ + Count(Kept(resolved + 1), j),
                    !.failedDeps = IF j = resolved + 1 THEN Kept(resolved + 1) ELSE @]

\* A step of the second pass changes two fields.
LEMMA ResolveStep ==
    ASSUME TypeOK, ResolveRecord
    PROVE  /\ resolved + 1 \in 1..Current /\ DOMAIN pkgs' = 1..Current
           /\ \A j \in 1..Current :
                 /\ pkgs'[j] \in Records
                 /\ pkgs'[j].name = pkgs[j].name /\ pkgs'[j].status = pkgs[j].status
                 /\ pkgs'[j].breaks = pkgs[j].breaks + Count(Kept(resolved + 1), j)
                 /\ pkgs'[j].failedDeps =
                       IF j = resolved + 1 THEN Kept(resolved + 1) ELSE pkgs[j].failedDeps
           /\ pkgs' \in [1..Current -> Records]
<1>1. resolved + 1 \in 1..Current
  <2>1. resolved < Len(pkgs)
    BY DEF ResolveRecord
  <2>2. resolved \in 0..Current /\ Len(pkgs) = Current /\ Current \in Nat
    BY RecordsType DEF TypeOK
  <2> QED
    BY <2>1, <2>2
<1>2. pkgs' = [j \in 1..Current |-> ResolvedRecord(j)]
  BY RecordsType DEF ResolveRecord, ResolvedRecord
<1>3. ASSUME NEW j \in 1..Current
      PROVE  /\ ResolvedRecord(j) \in Records
             /\ ResolvedRecord(j).name = pkgs[j].name /\ ResolvedRecord(j).status = pkgs[j].status
             /\ ResolvedRecord(j).breaks = pkgs[j].breaks + Count(Kept(resolved + 1), j)
             /\ ResolvedRecord(j).failedDeps =
                   IF j = resolved + 1 THEN Kept(resolved + 1) ELSE pkgs[j].failedDeps
  <2> DEFINE r == pkgs[j]
             deps == Kept(resolved + 1)
             c == Count(deps, j)
  <2>1. r \in Records
    BY RecordsType
  <2>2. deps \in Seq(Names)
    BY <1>1, KeptType
  <2>3. c \in Nat
    BY <1>1, KeptType, CountType
  <2>4. ResolvedRecord(j) = [r EXCEPT !.breaks = r.breaks + c,
                                      !.failedDeps = IF j = resolved + 1 THEN deps ELSE r.failedDeps]
    BY <2>1 DEF ResolvedRecord, Records
  <2> HIDE DEF r, c, deps
  <2>5. r.failedDeps \in Seq(Names) /\ r.breaks + c \in Nat
    BY <2>1, <2>3 DEF Records
  <2> DEFINE d == IF j = resolved + 1 THEN deps ELSE r.failedDeps
             x == r.breaks + c
  <2>6. d \in Seq(Names)
    BY <2>2, <2>5
  <2>7. ResolvedRecord(j) = [r EXCEPT !.breaks = x, !.failedDeps = d] /\ x \in Nat
    BY <2>4, <2>5
  <2> HIDE DEF d, x
  <2>8. /\ [r EXCEPT !.breaks = x, !.failedDeps = d] \in Records
        /\ [r EXCEPT !.breaks = x, !.failedDeps = d].name = r.name
        /\ [r EXCEPT !.breaks = x, !.failedDeps = d].status = r.status
        /\ [r EXCEPT !.breaks = x, !.failedDeps = d].breaks = x
        /\ [r EXCEPT !.breaks = x, !.failedDeps = d].failedDeps = d
    BY <2>1, <2>6, <2>7 DEF Records
  <2> QED
    BY <2>7, <2>8 DEF d, x, r, c, deps
<1>4. \A j \in 1..Current : pkgs'[j] = ResolvedRecord(j)
  BY <1>2
<1>5. DOMAIN pkgs' = 1..Current
  BY <1>2
<1>6. pkgs' \in [1..Current -> Records]
  BY <1>2, <1>3
<1> QED
  BY <1>1, <1>3, <1>4, <1>5, <1>6

\* A field of the current record is assigned.
LEMMA AssignedType ==
    ASSUME TypeOK, NEW r \in Records, pkgs # <<>>, pkgs' = [pkgs EXCEPT ![Current] = r]
    PROVE  /\ pkgs' \in [1..Current -> Records] /\ pkgs' \in Seq(Records) /\ Len(pkgs') = Current
           /\ pkgs'[Current] = r
           /\ \A i \in 1..Current : i # Current => pkgs'[i] = pkgs[i]
<1>1. pkgs' \in [1..Current -> Records]
  BY RecordsType
<1> QED
  BY <1>1, RecordsType, FunctionIsSeq

\* The three ways to assign to a field.
LEMMA Assignments ==
    ASSUME TypeOK
    PROVE  /\ SetLocation => pkgs # <<>> /\ pkgs' = [pkgs EXCEPT ![Current] = [pkgs[Current] EXCEPT !.path = Line.val]]
           /\ SetDepends => pkgs # <<>> /\ pkgs' = [pkgs EXCEPT ![Current] = [pkgs[Current] EXCEPT !.failedDeps = Line.val]]
           /\ SetStatus => pkgs # <<>> /\ pkgs' = [pkgs EXCEPT ![Current] = [pkgs[Current] EXCEPT !.status = Status(Line.val)]]
BY DEF SetLocation, SetDepends, SetStatus

LEMMA NextTypeOK ==
    ASSUME TypeOK, [Next]_vars
    PROVE  TypeOK'
<1>1. CASE StartRecord
  <2>1. Line.val \in Names /\ pos < Len(input)
    BY <1>1, LineType DEF StartRecord, Scan
  <2> DEFINE r == [name |-> Line.val, path |-> NoPath, status |-> "OK",
                   failedDeps |-> <<>>, breaks |-> 0]
  <2>2. r \in Records
    BY <2>1 DEF Records, Statuses
  <2>3. pkgs' = Append(pkgs, r) /\ pkgs \in Seq(Records)
    BY <1>1 DEF StartRecord, TypeOK
  <2> HIDE DEF r
  <2>4. pkgs' \in Seq(Records) /\ Len(pkgs') = Len(pkgs) + 1 /\ Len(pkgs) \in Nat
    BY <2>2, <2>3
  <2>5. /\ UNCHANGED <<input, failedPkgs, resolved, phase, err>>
        /\ pos' = pos + 1
    BY <1>1 DEF StartRecord, Scan
  <2> QED
    BY <2>1, <2>4, <2>5, LineType DEF TypeOK
<1>2. CASE SetLocation \/ SetDepends \/ SetStatus
  <2>1. pos < Len(input) /\ pos' = pos + 1 /\ UNCHANGED <<input, resolved, phase, err>>
    BY <1>2 DEF SetLocation, SetDepends, SetStatus, Scan
  <2>2. PICK r \in Records : pkgs # <<>> /\ pkgs' = [pkgs EXCEPT ![Current] = r]
    <3> DEFINE p == Line.val
               s == Status(Line.val)
               r == pkgs[Current]
    <3>1. pkgs # <<>>
      BY <1>2 DEF SetLocation, SetDepends, SetStatus
    <3>2. r \in Records
      BY <3>1, RecordsType
    <3>3. s \in Statuses
      BY DEF Status, Statuses
    <3>4. CASE SetLocation
      <4>1. p \in Paths
        BY <2>1, <3>4, LineType DEF SetLocation, Scan
      <4>2. [r EXCEPT !.path = p] \in Records
        BY <3>2, <4>1 DEF Records
      <4> QED
        BY <3>1, <3>4, <4>2, Assignments
    <3>5. CASE SetDepends
      <4>1. p \in Seq(Names)
        BY <2>1, <3>5, LineType DEF SetDepends, Scan
      <4>2. [r EXCEPT !.failedDeps = p] \in Records
        BY <3>2, <4>1 DEF Records
      <4> QED
        BY <3>1, <3>5, <4>2, Assignments
    <3>6. CASE SetStatus
      <4>1. [r EXCEPT !.status = s] \in Records
        <5> HIDE DEF s, r
        <5> QED
          BY <3>2, <3>3 DEF Records
      <4> QED
        BY <3>1, <3>6, <4>1, Assignments
    <3> QED
      BY <1>2, <3>4, <3>5, <3>6
  <2>3. pkgs' \in Seq(Records) /\ Len(pkgs') = Len(pkgs)
    BY <2>2, AssignedType, RecordsType
  <2>4. DOMAIN failedPkgs' \subseteq Names
    <3>1. pkgs[Current].name \in Names
      BY <2>2, RecordsType DEF Records
    <3>2. \/ failedPkgs' = failedPkgs
          \/ failedPkgs' = WithEntry(pkgs[Current].name, Current)
      BY <1>2 DEF SetLocation, SetDepends, SetStatus
    <3> QED
      BY <3>1, <3>2 DEF WithEntry, TypeOK
  <2> QED
    BY <2>1, <2>3, <2>4, LineType DEF TypeOK
<1>3. CASE SkipLine \/ NilRecord
  <2>1. /\ pos < Len(input) /\ pos' = pos + 1 /\ UNCHANGED <<input, pkgs, failedPkgs, resolved, err>>
        /\ phase' \in Phases
    BY <1>3 DEF SkipLine, NilRecord, Scan, Phases, TypeOK
  <2> QED
    BY <2>1, LineType DEF TypeOK
<1>4. CASE ResolveRecord
  <2>1. pkgs' \in Seq(Records) /\ Len(pkgs') = Current
    BY <1>4, ResolveStep, RecordsType, FunctionIsSeq
  <2>2. resolved + 1 \in 0..Current
    BY <1>4, ResolveStep, RecordsType
  <2> QED
    BY <1>4, <2>1, <2>2 DEF ResolveRecord, TypeOK
<1>5. CASE EndScan \/ Return \/ UNCHANGED vars
  BY <1>5 DEF EndScan, Return, vars, TypeOK, Phases
<1> QED
  BY <1>1, <1>2, <1>3, <1>4, <1>5 DEF Next

\* The records that PkgsFromReport makes are records, their dependencies names of
\* packages and their counts numbers, and the second pass stays within them.
THEOREM TypeCorrect == Spec => []TypeOK
<1>1. Init => TypeOK
  <2> SUFFICES ASSUME Init PROVE TypeOK
    OBVIOUS
  <2>1. input \in Seq(Lines)
    BY InputAssumption DEF Init
  <2>2. Len(input) \in Nat
    BY <2>1
  <2>3. <<>> \in Seq(Records) /\ Len(<<>>) = 0 /\ DOMAIN <<>> = {}
    OBVIOUS
  <2>4. pkgs = <<>> /\ failedPkgs = <<>> /\ resolved = 0 /\ pos = 0
    BY DEF Init
  <2>5. pkgs \in Seq(Records) /\ DOMAIN failedPkgs \subseteq Names /\ resolved \in 0..Len(pkgs)
    BY <2>3, <2>4
  <2>6. input \in Inputs /\ pos \in 0..Len(input) /\ phase \in Phases /\ err \in BOOLEAN
    <3>1. pos \in 0..Len(input)
      BY <2>2, <2>4
    <3>2. phase \in Phases
      BY DEF Init, Phases
    <3>3. input \in Inputs /\ err \in BOOLEAN
      BY DEF Init
    <3> QED
      BY <3>1, <3>2, <3>3
  <2> QED
    BY <2>5, <2>6 DEF TypeOK
<1>2. TypeOK /\ [Next]_vars => TypeOK'
  BY NextTypeOK
<1> QED
  BY <1>1, <1>2, PTL DEF Spec

-----------------------------------------------------------------------------
(* The counts.                                                             *)

\* The kept dependencies of the first n records that are counted at record j.
Counted(j, n) ==
    UNION {{i} \X {k \in DOMAIN pkgs[i].failedDeps : failedPkgs[pkgs[i].failedDeps[k]] = j} : i \in 1..n}

\* The counts add up to the dependencies of the records that are done with.
BalanceInv ==
    /\ phase = "scan" => resolved = 0
    /\ phase = "returned" => resolved = Len(pkgs)
    /\ \A j \in DOMAIN pkgs :
          /\ IsFiniteSet(Counted(j, resolved))
          /\ pkgs[j].breaks = Cardinality(Counted(j, resolved))

\* Before the second pass nothing has been counted.
LEMMA NoneCounted ==
    ASSUME NEW j
    PROVE  Counted(j, 0) = {}
BY DEF Counted

\* One more record adds those of its dependencies that are counted at j.
LEMMA CountOfRecord ==
    ASSUME NEW S, NEW K, NEW i, IsFiniteSet(S), IsFiniteSet(K), \A z \in S : z[1] # i
    PROVE  /\ IsFiniteSet(S \cup ({i} \X K))
           /\ Cardinality(S \cup ({i} \X K)) = Cardinality(S) + Cardinality(K)
<1>1. IsFiniteSet({i}) /\ Cardinality({i}) = 1
  BY FS_Singleton
<1>2. IsFiniteSet({i} \X K) /\ Cardinality({i} \X K) = 1 * Cardinality(K)
  BY <1>1, FS_Product
<1>3. Cardinality(K) \in Nat /\ Cardinality(S) \in Nat
  BY FS_CardinalityType
<1>4. S \cap ({i} \X K) = {}
  OBVIOUS
<1>5. Cardinality(S \cap ({i} \X K)) = 0
  BY <1>4, FS_EmptySet
<1>6. IsFiniteSet(S \cup ({i} \X K)) /\ Cardinality(S \cup ({i} \X K)) =
         Cardinality(S) + Cardinality({i} \X K) - Cardinality(S \cap ({i} \X K))
  BY <1>2, FS_Union
<1> QED
  BY <1>2, <1>3, <1>5, <1>6

\* A step of the scan leaves the counts at zero.
LEMMA BalanceScan ==
    ASSUME TypeOK, BalanceInv, phase = "scan", UNCHANGED resolved,
           phase' \in {"scan", "resolve", "panicked"},
           \A j \in DOMAIN pkgs' : pkgs'[j].breaks = 0 \/ (j \in DOMAIN pkgs /\ pkgs'[j].breaks = pkgs[j].breaks)
    PROVE  BalanceInv'
<1>1. resolved = 0 /\ resolved' = 0
  BY DEF BalanceInv
<1>2. IsFiniteSet({}) /\ Cardinality({}) = 0
  BY FS_EmptySet
<1>3. ASSUME NEW j \in DOMAIN pkgs PROVE pkgs[j].breaks = 0
  BY <1>1, <1>2, NoneCounted DEF BalanceInv
<1>4. ASSUME NEW j PROVE Counted(j, 0)' = {}
  BY DEF Counted
<1> QED
  BY <1>1, <1>2, <1>3, <1>4 DEF BalanceInv

LEMMA NextBalanceInv ==
    ASSUME TypeOK, BalanceInv, [Next]_vars
    PROVE  BalanceInv'
<1>1. CASE StartRecord
  <2> DEFINE r == [name |-> Line.val, path |-> NoPath, status |-> "OK",
                   failedDeps |-> <<>>, breaks |-> 0]
  <2>1. phase = "scan" /\ UNCHANGED <<resolved, phase>> /\ pkgs' = Append(pkgs, r) /\ pkgs \in Seq(Records)
    BY <1>1 DEF StartRecord, Scan, TypeOK
  <2>2. r.breaks = 0
    OBVIOUS
  <2> HIDE DEF r
  <2>3. \A j \in DOMAIN pkgs' : pkgs'[j] = r \/ (j \in DOMAIN pkgs /\ pkgs'[j] = pkgs[j])
    BY <2>1
  <2> QED
    BY <2>1, <2>2, <2>3, BalanceScan
<1>2. CASE SetLocation \/ SetDepends \/ SetStatus
  <2>1. phase = "scan" /\ UNCHANGED <<resolved, phase>>
    BY <1>2 DEF SetLocation, SetDepends, SetStatus, Scan
  <2>2. \A j \in DOMAIN pkgs' : j \in DOMAIN pkgs /\ pkgs'[j].breaks = pkgs[j].breaks
    <3> SUFFICES ASSUME NEW j \in DOMAIN pkgs'
                 PROVE  j \in DOMAIN pkgs /\ pkgs'[j].breaks = pkgs[j].breaks
      OBVIOUS
    <3>1. j \in DOMAIN pkgs /\ pkgs[j] \in Records /\ DOMAIN pkgs = 1..Current
      BY <1>2, Assignments, RecordsType
    <3>2. CASE j # Current
      BY <1>2, <3>1, <3>2, Assignments
    <3>3. CASE j = Current
      <4> DEFINE r == pkgs[j]
                 x == Line.val
                 s == Status(Line.val)
      <4>1. \/ pkgs'[j] = [r EXCEPT !.path = x] \/ pkgs'[j] = [r EXCEPT !.failedDeps = x]
            \/ pkgs'[j] = [r EXCEPT !.status = s]
        BY <1>2, <3>1, <3>3, Assignments
      <4> HIDE DEF r, x, s
      <4>2. r \in Records
        BY <3>1 DEF r
      <4>3. pkgs'[j].breaks = r.breaks
        BY <4>1, <4>2 DEF Records
      <4> QED
        BY <3>1, <4>3 DEF r
    <3> QED
      BY <3>2, <3>3
  <2> QED
    BY <2>1, <2>2, BalanceScan
<1>3. CASE SkipLine \/ NilRecord \/ EndScan
  <2>1. /\ phase = "scan" /\ UNCHANGED <<resolved, pkgs>>
        /\ phase' \in {"scan", "resolve", "panicked"}
    BY <1>3 DEF SkipLine, NilRecord, EndScan, Scan
  <2> QED
    BY <2>1, BalanceScan
<1>4. CASE ResolveRecord
  <2> DEFINE i == resolved + 1
             deps == Kept(i)
  <2>1. /\ phase = "resolve" /\ phase' = phase /\ UNCHANGED failedPkgs /\ resolved' = i
        /\ i \in 1..Current /\ Current \in Nat /\ resolved \in Nat
    <3>1. phase = "resolve" /\ phase' = phase /\ UNCHANGED failedPkgs /\ resolved' = resolved + 1
      BY <1>4 DEF ResolveRecord
    <3>2. resolved + 1 \in 1..Current
      BY <1>4, ResolveStep
    <3>3. Current \in Nat /\ resolved \in Nat
      BY RecordsType DEF TypeOK
    <3> QED
      BY <3>1, <3>2, <3>3
  <2>2. ASSUME NEW j \in 1..Current
        PROVE  /\ IsFiniteSet(Counted(j, resolved)')
               /\ pkgs'[j].breaks = Cardinality(Counted(j, resolved)')
    <3> DEFINE K == {k \in DOMAIN deps : failedPkgs[deps[k]] = j}
               S == Counted(j, resolved)
    <3>1. IsFiniteSet(K) /\ Cardinality(K) = Count(deps, j)
      BY <2>1, KeptType, CountType DEF Count
    <3>2. IsFiniteSet(S) /\ pkgs[j].breaks = Cardinality(S)
      BY RecordsType DEF BalanceInv
    <3>3. \A z \in S : z[1] # i
      <4>1. \A x \in 1..resolved : x # i
        BY <2>1
      <4> QED
        BY <4>1 DEF Counted
    <3>4. Counted(j, resolved)' = S \cup ({i} \X K)
      <4> DEFINE Of(x) == {x} \X {k \in DOMAIN pkgs[x].failedDeps : failedPkgs[pkgs[x].failedDeps[k]] = j}
                 New(x) == {x} \X {k \in DOMAIN pkgs'[x].failedDeps : failedPkgs[pkgs'[x].failedDeps[k]] = j}
      <4>1. Counted(j, resolved)' = UNION {New(x) : x \in 1..i}
        BY <2>1 DEF Counted
      <4>2. S = UNION {Of(x) : x \in 1..resolved}
        BY DEF Counted
      <4>3. ASSUME NEW x \in 1..resolved PROVE New(x) = Of(x)
        <5>1. x # i /\ x \in 1..Current
          BY <2>1
        <5>2. pkgs'[x].failedDeps = pkgs[x].failedDeps
          BY <1>4, <5>1, ResolveStep
        <5> QED
          BY <5>2
      <4>4. New(i) = {i} \X K
        <5>1. pkgs'[i].failedDeps = deps
          BY <1>4, <2>1, ResolveStep
        <5> QED
          BY <5>1
      <4>5. 1..i = 1..resolved \cup {i}
        BY <2>1
      <4> HIDE DEF Of, New, S, K, i
      <4> QED
        BY <4>1, <4>2, <4>3, <4>4, <4>5
    <3>5. pkgs'[j].breaks = pkgs[j].breaks + Count(deps, j)
      BY <1>4, ResolveStep
    <3> HIDE DEF S, K, i, deps
    <3>6. IsFiniteSet(S \cup ({i} \X K)) /\ Cardinality(S \cup ({i} \X K)) = Cardinality(S) + Cardinality(K)
      BY <3>1, <3>2, <3>3, CountOfRecord
    <3> QED
      BY <3>1, <3>2, <3>4, <3>5, <3>6
  <2>3. DOMAIN pkgs' = 1..Current
    BY <1>4, ResolveStep
  <2> QED
    BY <2>1, <2>2, <2>3 DEF BalanceInv
<1>5. CASE Return
  BY <1>5 DEF Return, BalanceInv, Counted
<1>6. CASE UNCHANGED vars
  BY <1>6 DEF vars, BalanceInv, Counted
<1> QED
  BY <1>1, <1>2, <1>3, <1>4, <1>5, <1>6 DEF Next

LEMMA CountsInvariant == Spec => []BalanceInv
<1>1. Init => BalanceInv
  <2> SUFFICES ASSUME Init PROVE BalanceInv
    OBVIOUS
  <2>1. phase = "scan" /\ resolved = 0 /\ DOMAIN pkgs = {}
    BY DEF Init
  <2> QED
    BY <2>1 DEF BalanceInv
<1>2. TypeOK /\ BalanceInv /\ [Next]_vars => BalanceInv'
  BY NextBalanceInv
<1> QED
  BY <1>1, <1>2, TypeCorrect, PTL DEF Spec

-----------------------------------------------------------------------------
(* The lines that start a record.                                          *)

Rank(T, p) == Cardinality({q \in T : q <= p})

\* The n numbers of T have the ranks 1..n.
Ranked(T, n) ==
    /\ T \subseteq Nat /\ IsFiniteSet(T) /\ Cardinality(T) = n /\ n \in Nat
    /\ \A p \in T : Rank(T, p) \in 1..n
    /\ \A i \in 1..n : \E p \in T : Rank(T, p) = i
    /\ \A p, q \in T : p < q => Rank(T, p) < Rank(T, q)

Nth(T, i) == CHOOSE p \in T : Cardinality({q \in T : q <= p}) = i

LEMMA NthIs ==
    ASSUME NEW T, NEW n, Ranked(T, n), NEW p \in T
    PROVE  Nth(T, Rank(T, p)) = p
<1> DEFINE r == Rank(T, p)
           x == Nth(T, r)
<1>1. x \in T /\ Rank(T, x) = r
  BY DEF Nth, Rank
<1>2. Rank(T, p) = r
  OBVIOUS
<1> HIDE DEF x, r
<1>3. x \in Nat /\ p \in Nat /\ Rank(T, x) \in Nat /\ Rank(T, p) \in Nat
  BY <1>1 DEF Ranked
<1>4. ~(x < p) /\ ~(p < x)
  BY <1>1, <1>2, <1>3 DEF Ranked
<1> QED
  BY <1>3, <1>4 DEF x, r

LEMMA NthOrder ==
    ASSUME NEW T, NEW n, Ranked(T, n)
    PROVE  /\ \A i \in 1..n : Nth(T, i) \in T /\ Nth(T, i) \in Nat
           /\ \A p \in T : \E i \in 1..n : Nth(T, i) = p
           /\ \A i, j \in 1..n : i < j => Nth(T, i) < Nth(T, j)
<1>1. ASSUME NEW i \in 1..n PROVE Nth(T, i) \in T /\ Rank(T, Nth(T, i)) = i /\ Nth(T, i) \in Nat
  <2>1. PICK p \in T : Rank(T, p) = i
    BY DEF Ranked
  <2> QED
    BY <2>1, NthIs DEF Ranked
<1>2. ASSUME NEW p \in T PROVE \E i \in 1..n : Nth(T, i) = p
  BY NthIs DEF Ranked
<1>3. ASSUME NEW i \in 1..n, NEW j \in 1..n, i < j PROVE Nth(T, i) < Nth(T, j)
  <2>1. Nth(T, j) < Nth(T, i) => j < i
    BY <1>1 DEF Ranked
  <2>2. Nth(T, j) # Nth(T, i)
    BY <1>1, <1>3
  <2> QED
    BY <1>1, <1>3, <2>1, <2>2 DEF Ranked
<1> QED
  BY <1>1, <1>2, <1>3

\* A larger number comes last.
LEMMA RankAdded ==
    ASSUME NEW T, NEW n, Ranked(T, n), NEW x \in Nat, \A p \in T : p < x
    PROVE  /\ Ranked(T \cup {x}, n + 1)
           /\ \A i \in 1..n : Nth(T \cup {x}, i) = Nth(T, i)
           /\ Nth(T \cup {x}, n + 1) = x
<1> DEFINE U == T \cup {x}
<1>1. x \notin T
  <2>1. ~(x < x)
    OBVIOUS
  <2> QED
    BY <2>1
<1>2. IsFiniteSet(U) /\ Cardinality(U) = n + 1 /\ U \subseteq Nat /\ n \in Nat
  BY <1>1, FS_AddElement DEF Ranked
<1>3. ASSUME NEW p \in T PROVE Rank(U, p) = Rank(T, p)
  <2>1. p \in Nat /\ p < x
    BY DEF Ranked
  <2>2. {q \in U : q <= p} = {q \in T : q <= p}
    BY <2>1
  <2> QED
    BY <2>2 DEF Rank
<1>4. Rank(U, x) = n + 1
  <2>1. {q \in U : q <= x} = U
    <3>1. \A q \in T : q \in Nat /\ q < x
      BY DEF Ranked
    <3>2. \A q \in U : q <= x
      BY <3>1
    <3> HIDE DEF U
    <3> QED
      BY <3>2
  <2> QED
    BY <1>2, <2>1 DEF Rank
<1> HIDE DEF U
<1>5. U = T \cup {x}
  BY DEF U
<1>6. \A p \in U : Rank(U, p) \in 1..(n + 1)
  BY <1>2, <1>3, <1>4, <1>5 DEF Ranked
<1>7. ASSUME NEW i \in 1..(n + 1) PROVE \E p \in U : Rank(U, p) = i
  <2>1. i = n + 1 \/ i \in 1..n
    BY <1>2
  <2> QED
    BY <1>3, <1>4, <1>5, <2>1 DEF Ranked
<1>8. ASSUME NEW p \in U, NEW q \in U, p < q PROVE Rank(U, p) < Rank(U, q)
  <2>1. p \in T
    BY <1>5, <1>8 DEF Ranked
  <2>2. CASE q \in T
    BY <1>3, <1>8, <2>1, <2>2 DEF Ranked
  <2>3. CASE q = x
    <3>1. Rank(T, p) \in 1..n
      BY <2>1 DEF Ranked
    <3> QED
      BY <1>2, <1>3, <1>4, <2>1, <2>3, <3>1
  <2> QED
    BY <1>5, <2>2, <2>3
<1>9. Ranked(U, n + 1)
  BY <1>2, <1>6, <1>7, <1>8 DEF Ranked
<1>10. Nth(U, n + 1) = x
  BY <1>4, <1>5, <1>9, NthIs
<1>11. ASSUME NEW i \in 1..n PROVE Nth(U, i) = Nth(T, i)
  <2>1. PICK p \in T : Rank(T, p) = i
    BY DEF Ranked
  <2>2. Nth(T, i) = p
    BY <2>1, NthIs
  <2>3. Rank(U, p) = i /\ p \in U
    BY <1>3, <1>5, <2>1
  <2> QED
    BY <1>9, <2>2, <2>3, NthIs
<1> QED
  BY <1>5, <1>9, <1>10, <1>11

-----------------------------------------------------------------------------
(* The lines of a record.                                                  *)

StartsInv == Ranked(Starts, Len(pkgs))

LEMMA StartIs ==
    /\ \A i : StartOf(i) = Nth(Starts, i)
    /\ \A i : StartOf(i)' = Nth(Starts', i)
BY DEF StartOf, Nth

\* The lines that are read of the records, the current one among them.
LEMMA StartsOf ==
    ASSUME TypeOK, StartsInv
    PROVE  /\ \A i \in 1..Current : StartOf(i) \in Starts /\ StartOf(i) \in 1..pos
           /\ \A q \in Starts : \E i \in 1..Current : q = StartOf(i)
           /\ \A i, j \in 1..Current : i < j => StartOf(i) < StartOf(j)
           /\ Cardinality(Starts) = Current
<1>1. \A p \in Starts : p \in 1..pos
  BY DEF Starts, Seen
<1> DEFINE T == Starts
<1>2. Ranked(T, Current)
  BY DEF StartsInv, Current
<1> HIDE DEF T
<1>3. /\ \A i \in 1..Current : Nth(T, i) \in T
      /\ \A p \in T : \E i \in 1..Current : Nth(T, i) = p
      /\ \A i, j \in 1..Current : i < j => Nth(T, i) < Nth(T, j)
  BY <1>2, NthOrder
<1>4. Cardinality(T) = Current
  BY <1>2 DEF Ranked
<1>5. \A i : StartOf(i) = Nth(T, i)
  BY StartIs DEF T
<1> QED
  BY <1>1, <1>3, <1>4, <1>5 DEF T

\* A line that starts no record belongs to the last one.
LEMMA AddedLine ==
    ASSUME TypeOK, StartsInv, NEW key, key # "PKGNAME", Scan(key), UNCHANGED input
    PROVE  /\ Starts' = Starts
           /\ \A i : StartOf(i)' = StartOf(i)
           /\ \A k : \A i \in 1..Current :
                 Fields(i, k)' = IF i = Current /\ k = key THEN Fields(i, k) \cup {pos + 1} ELSE Fields(i, k)
<1>1. /\ Line.key = key /\ pos' = pos + 1 /\ pos < Len(input) /\ pos \in Nat
      /\ Line = input[pos + 1]
  BY LineType DEF Scan, Line
<1>2. Seen' = Seen \cup {pos + 1} /\ Seen = 1..pos
  BY <1>1 DEF Seen
<1>3. Starts' = Starts
  BY <1>1, <1>2 DEF Starts
<1>4. \A i : StartOf(i)' = StartOf(i)
  BY <1>3, StartIs
<1>5. ASSUME NEW i \in 1..Current
      PROVE  Segment(i)' = IF i = Current THEN Segment(i) \cup {pos + 1} ELSE Segment(i)
  <2> DEFINE s == StartOf(i)
             In(p) == p >= s /\ \A q \in Starts : q > s => p < q
  <2>1. Segment(i) = {p \in Seen : In(p)}
    BY DEF Segment
  <2>2. Segment(i)' = {p \in Seen' : In(p)}
    BY <1>3, <1>4 DEF Segment
  <2>3. In(pos + 1) <=> i = Current
    <3>1. pos + 1 >= s /\ s \in Nat
      BY <1>1, StartsOf
    <3>2. CASE i = Current
      <4>1. \A q \in Starts : ~(q > s)
        <5> SUFFICES ASSUME NEW q \in Starts PROVE ~(q > s)
          OBVIOUS
        <5>1. PICK j \in 1..Current : q = StartOf(j)
          BY StartsOf
        <5>2. j = i \/ j < i
          BY <3>2, RecordsType
        <5>3. q \in Nat
          BY <5>1, StartsOf
        <5> QED
          BY <3>1, <5>1, <5>2, <5>3, StartsOf
      <4> QED
        BY <3>1, <3>2, <4>1
    <3>3. CASE i # Current
      <4> DEFINE q == StartOf(Current)
      <4>1. i < Current /\ Current \in 1..Current
        BY <3>3, RecordsType
      <4>2. q \in Starts /\ q \in 1..pos /\ q > s
        BY <3>1, <4>1, StartsOf
      <4> QED
        BY <1>1, <3>3, <4>2
    <3> QED
      BY <3>2, <3>3
  <2> HIDE DEF In
  <2> QED
    BY <1>2, <2>1, <2>2, <2>3
<1>6. ASSUME NEW i \in 1..Current, NEW k
      PROVE  Fields(i, k)' = IF i = Current /\ k = key THEN Fields(i, k) \cup {pos + 1} ELSE Fields(i, k)
  BY <1>1, <1>5 DEF Fields
<1> QED
  BY <1>3, <1>4, <1>6

\* A line that starts a record is all that the record has.
LEMMA AddedStart ==
    ASSUME TypeOK, StartsInv, Scan("PKGNAME"), UNCHANGED input
    PROVE  /\ Ranked(Starts', Current + 1)
           /\ \A i \in 1..Current : StartOf(i)' = StartOf(i)
           /\ \A k : \A i \in 1..Current : Fields(i, k)' = Fields(i, k)
           /\ \A i : i = Current + 1 => /\ StartOf(i)' = pos + 1
                                        /\ \A k : k # "PKGNAME" => Fields(i, k)' = {}
<1>1. /\ Line.key = "PKGNAME" /\ pos' = pos + 1 /\ pos < Len(input) /\ pos \in Nat
      /\ Line = input[pos + 1]
  BY LineType DEF Scan, Line
<1>2. Seen' = Seen \cup {pos + 1} /\ Seen = 1..pos
  BY <1>1 DEF Seen
<1>3. Starts' = Starts \cup {pos + 1}
  BY <1>1, <1>2 DEF Starts
<1>4. \A p \in Starts : p < pos + 1 /\ p \in Nat
  BY <1>1, <1>2 DEF Starts
<1>5. /\ Ranked(Starts', Current + 1)
      /\ \A i \in 1..Current : Nth(Starts', i) = Nth(Starts, i)
      /\ Nth(Starts', Current + 1) = pos + 1
  <2> DEFINE T == Starts
             x == pos + 1
  <2>1. Ranked(T, Current) /\ x \in Nat /\ \A p \in T : p < x
    BY <1>1, <1>4 DEF StartsInv, Current
  <2> HIDE DEF T, x
  <2>2. /\ Ranked(T \cup {x}, Current + 1)
        /\ \A i \in 1..Current : Nth(T \cup {x}, i) = Nth(T, i)
        /\ Nth(T \cup {x}, Current + 1) = x
    BY <2>1, RankAdded
  <2> QED
    BY <1>3, <2>2 DEF T, x
<1>6. \A i \in 1..Current : StartOf(i)' = StartOf(i)
  BY <1>5, StartIs
<1>7. ASSUME NEW i \in 1..Current PROVE Segment(i)' = Segment(i)
  <2> DEFINE s == StartOf(i)
             In(T, p) == p >= s /\ \A q \in T : q > s => p < q
  <2>1. Segment(i) = {p \in Seen : In(Starts, p)}
    BY DEF Segment
  <2>2. Segment(i)' = {p \in Seen' : In(Starts', p)}
    BY <1>6 DEF Segment
  <2>3. s \in 1..pos
    BY StartsOf
  <2>4. ~In(Starts', pos + 1)
    <3>1. pos + 1 \in Starts' /\ pos + 1 > s /\ ~(pos + 1 < pos + 1)
      BY <1>1, <1>3, <2>3
    <3> QED
      BY <3>1
  <2>5. ASSUME NEW p \in Seen PROVE In(Starts', p) <=> In(Starts, p)
    BY <1>1, <1>2, <1>3
  <2> HIDE DEF In
  <2> QED
    BY <1>2, <2>1, <2>2, <2>4, <2>5
<1>8. ASSUME NEW i, i = Current + 1
      PROVE  /\ StartOf(i)' = pos + 1
             /\ \A k : k # "PKGNAME" => Fields(i, k)' = {}
  <2>1. StartOf(i)' = pos + 1
    BY <1>5, <1>8, StartIs
  <2>2. Segment(i)' \subseteq {pos + 1}
    <3>1. \A p \in Segment(i)' : p \in Seen' /\ p >= pos + 1
      BY <2>1 DEF Segment
    <3> QED
      BY <1>1, <1>2, <3>1
  <2> QED
    BY <1>1, <2>1, <2>2 DEF Fields
<1>9. \A k : \A i \in 1..Current : Fields(i, k)' = Fields(i, k)
  BY <1>7 DEF Fields
<1> QED
  BY <1>5, <1>6, <1>8, <1>9

-----------------------------------------------------------------------------
(* What the scan has read.                                                 *)

NameRead(i) == pkgs[i].name = input[StartOf(i)].val

StatusRead(i) ==
    \/ Fields(i, "BUILD_STATUS") = {} /\ pkgs[i].status = "OK"
    \/ \E p \in LastOf(i, "BUILD_STATUS") : pkgs[i].status = Status(input[p].val)

DepsRead(i) ==
    \/ Fields(i, "DEPENDS") = {} /\ pkgs[i].failedDeps = <<>>
    \/ \E p \in LastOf(i, "DEPENDS") : pkgs[i].failedDeps = input[p].val

\* What FailedDepsAreReported says of one record.
Reported(i, deps) ==
    IF ReportedIndirect(i) /\ Fields(i, "DEPENDS") # {}
    THEN \E p \in LastOf(i, "DEPENDS") :
             IsSelection(deps, input[p].val, {n \in Names : ReportedBroken(n)})
    ELSE deps = <<>>

KeysReported == DOMAIN failedPkgs = {n \in Names : ReportedBroken(n)}

\* The records say what their lines say; the second pass has put its dependencies
\* in the place of those of the line.
ReadInv ==
    /\ StartsInv /\ KeysReported
    /\ \A i \in 1..Current :
          /\ NameRead(i) /\ StatusRead(i)
          /\ i <= resolved => Reported(i, pkgs[i].failedDeps)
          /\ i > resolved => DepsRead(i)

\* A line becomes the last one with its key.
LEMMA AddedLast ==
    ASSUME TypeOK, StartsInv, NEW key, key # "PKGNAME", Scan(key), UNCHANGED input
    PROVE  \A k : \A i \in 1..Current :
              LastOf(i, k)' = IF i = Current /\ k = key THEN {pos + 1} ELSE LastOf(i, k)
<1> SUFFICES ASSUME NEW i \in 1..Current, NEW k
             PROVE  LastOf(i, k)' = IF i = Current /\ k = key THEN {pos + 1} ELSE LastOf(i, k)
  OBVIOUS
<1>1. Fields(i, k)' = IF i = Current /\ k = key THEN Fields(i, k) \cup {pos + 1} ELSE Fields(i, k)
  BY AddedLine
<1>2. pos \in Nat /\ \A p \in Fields(i, k) : p \in Nat /\ p < pos + 1
  BY LineType DEF Fields, Segment, Seen, Scan
<1>3. CASE i = Current /\ k = key
  <2> DEFINE F == Fields(i, k)
             x == pos + 1
  <2>1. LastOf(i, k)' = {p \in F \cup {x} : \A q \in F \cup {x} : q <= p}
    BY <1>1, <1>3 DEF LastOf
  <2>2. x \in Nat /\ \A p \in F : p \in Nat /\ p < x
    BY <1>2
  <2> HIDE DEF F, x
  <2>3. x \in F \cup {x} /\ \A q \in F \cup {x} : q <= x
    BY <2>2
  <2>4. \A p \in F : ~(x <= p)
    BY <2>2
  <2>5. {p \in F \cup {x} : \A q \in F \cup {x} : q <= p} = {x}
    BY <2>3, <2>4
  <2> QED
    BY <1>3, <2>1, <2>5 DEF x
<1>4. CASE ~(i = Current /\ k = key)
  BY <1>1, <1>4 DEF LastOf
<1> QED
  BY <1>3, <1>4

\* Whether a record of that name has a line that says it failed.
LEMMA AddedBroken ==
    ASSUME TypeOK, StartsInv, NEW key, key # "PKGNAME", Scan(key), UNCHANGED input, NEW n
    PROVE  ReportedBroken(n)' <=>
              \/ ReportedBroken(n)
              \/ /\ key = "BUILD_STATUS" /\ pkgs # <<>> /\ Line.val \in {"failed", "prefailed"}
                 /\ input[StartOf(Current)].val = n
<1> DEFINE BrokenAt(i) == /\ input[StartOf(i)].val = n
                          /\ \E p \in Fields(i, "BUILD_STATUS") : input[p].val \in {"failed", "prefailed"}
<1>1. ReportedBroken(n) <=> \E i \in 1..Current : BrokenAt(i)
  BY StartsOf DEF ReportedBroken
<1>2. ReportedBroken(n)' <=> \E i \in 1..Current : BrokenAt(i)'
  BY AddedLine, StartsOf DEF ReportedBroken
<1>3. ASSUME NEW i \in 1..Current
      PROVE  BrokenAt(i)' <=> \/ BrokenAt(i)
                              \/ /\ key = "BUILD_STATUS" /\ i = Current /\ Line.val \in {"failed", "prefailed"}
                                 /\ input[StartOf(i)].val = n
  <2>1. StartOf(i)' = StartOf(i) /\ input' = input
    BY AddedLine
  <2>2. Fields(i, "BUILD_STATUS")' = IF i = Current /\ "BUILD_STATUS" = key
                                     THEN Fields(i, "BUILD_STATUS") \cup {pos + 1} ELSE Fields(i, "BUILD_STATUS")
    BY AddedLine
  <2>3. Line = input[pos + 1]
    BY DEF Line
  <2> QED
    BY <2>1, <2>2, <2>3
<1>4. pkgs # <<>> <=> Current \in 1..Current
  <2>1. Current \in 1..Current => pkgs # <<>>
    BY RecordsType
  <2> QED
    BY <2>1, RecordsType
<1> HIDE DEF BrokenAt
<1> QED
  BY <1>1, <1>2, <1>3, <1>4

\* A line of the current record.
LEMMA ReadLine ==
    ASSUME TypeOK, ReadInv, NEW key, key # "PKGNAME", Scan(key),
           resolved = 0, UNCHANGED <<input, resolved>>, Len(pkgs') = Current,
           \A i \in 1..Current :
              /\ pkgs'[i].name = pkgs[i].name
              /\ pkgs'[i].status =
                    IF i = Current /\ key = "BUILD_STATUS" THEN Status(Line.val) ELSE pkgs[i].status
              /\ pkgs'[i].failedDeps =
                    IF i = Current /\ key = "DEPENDS" THEN Line.val ELSE pkgs[i].failedDeps,
           DOMAIN failedPkgs' =
              IF key = "BUILD_STATUS" /\ pkgs # <<>> /\ Broken(Status(Line.val))
              THEN DOMAIN failedPkgs \cup {pkgs[Current].name} ELSE DOMAIN failedPkgs
    PROVE  ReadInv'
<1>0. /\ StartsInv /\ KeysReported /\ Current \in Nat /\ Current' = Current
      /\ \A i \in 1..Current : NameRead(i) /\ StatusRead(i) /\ DepsRead(i)
  BY RecordsType DEF ReadInv, Current
<1>1. StartsInv'
  BY <1>0, AddedLine DEF StartsInv, Current
<1>2. KeysReported'
  <2>1. \A n : ReportedBroken(n)' <=>
              \/ ReportedBroken(n)
              \/ /\ key = "BUILD_STATUS" /\ pkgs # <<>> /\ Line.val \in {"failed", "prefailed"}
                 /\ input[StartOf(Current)].val = n
    BY <1>0, AddedBroken
  <2>2. Broken(Status(Line.val)) <=> Line.val \in {"failed", "prefailed"}
    BY DEF Broken, Status
  <2>3. pkgs # <<>> => pkgs[Current].name = input[StartOf(Current)].val /\ pkgs[Current].name \in Names
    BY <1>0, RecordsType DEF NameRead, Records
  <2> QED
    BY <1>0, <2>1, <2>2, <2>3 DEF KeysReported
<1>3. ASSUME NEW i \in 1..Current PROVE NameRead(i)' /\ StatusRead(i)' /\ DepsRead(i)'
  <2>1. /\ StartOf(i)' = StartOf(i) /\ input' = input /\ Line = input[pos + 1]
        /\ \A k : Fields(i, k)' = IF i = Current /\ k = key THEN Fields(i, k) \cup {pos + 1} ELSE Fields(i, k)
        /\ \A k : LastOf(i, k)' = IF i = Current /\ k = key THEN {pos + 1} ELSE LastOf(i, k)
    BY <1>0, AddedLine, AddedLast DEF Line
  <2>2. NameRead(i)'
    BY <1>0, <2>1 DEF NameRead
  <2>3. StatusRead(i)'
    BY <1>0, <2>1 DEF StatusRead
  <2>4. DepsRead(i)'
    BY <1>0, <2>1 DEF DepsRead
  <2> QED
    BY <2>2, <2>3, <2>4
<1>4. \A i \in 1..Current : ~(i <= resolved') /\ i > resolved'
  BY <1>0
<1> QED
  BY <1>0, <1>1, <1>2, <1>3, <1>4 DEF ReadInv

\* A new record.
LEMMA ReadStart ==
    ASSUME TypeOK, ReadInv, resolved = 0, StartRecord
    PROVE  ReadInv'
<1> DEFINE r == [name |-> Line.val, path |-> NoPath, status |-> "OK",
                 failedDeps |-> <<>>, breaks |-> 0]
<1>0. /\ StartsInv /\ KeysReported /\ Current \in Nat
      /\ \A i \in 1..Current : NameRead(i) /\ StatusRead(i) /\ DepsRead(i)
  BY RecordsType DEF ReadInv
<1>1. /\ Scan("PKGNAME") /\ UNCHANGED <<input, resolved, failedPkgs>>
      /\ pkgs' = Append(pkgs, r) /\ pkgs \in Seq(Records) /\ Line.val \in Names
  BY LineType DEF StartRecord, Scan, TypeOK
<1>2. r \in Records /\ r.name = Line.val /\ r.status = "OK" /\ r.failedDeps = <<>>
  BY <1>1 DEF Records, Statuses
<1> HIDE DEF r
<1>3. /\ Len(pkgs') = Current + 1 /\ pkgs'[Current + 1] = r
      /\ \A i \in 1..Current : pkgs'[i] = pkgs[i]
  BY <1>1, <1>2 DEF Current
<1>4. /\ Ranked(Starts', Current + 1)
      /\ \A i \in 1..Current : StartOf(i)' = StartOf(i)
      /\ \A k : \A i \in 1..Current : Fields(i, k)' = Fields(i, k)
      /\ \A i : i = Current + 1 => /\ StartOf(i)' = pos + 1
                                   /\ \A k : k # "PKGNAME" => Fields(i, k)' = {}
  BY <1>0, <1>1, AddedStart
<1>5. \A k : \A i \in 1..Current : LastOf(i, k)' = LastOf(i, k)
  BY <1>4 DEF LastOf
<1>6. StartsInv' /\ Current' = Current + 1
  BY <1>3, <1>4 DEF StartsInv, Current
<1>7. KeysReported'
  <2> DEFINE BrokenAt(i, n) == /\ input[StartOf(i)].val = n
                               /\ \E p \in Fields(i, "BUILD_STATUS") : input[p].val \in {"failed", "prefailed"}
  <2>1. ASSUME NEW n PROVE ReportedBroken(n)' <=> ReportedBroken(n)
    <3>1. ReportedBroken(n) <=> \E i \in 1..Current : BrokenAt(i, n)
      BY <1>0, StartsOf DEF ReportedBroken
    <3>2. ReportedBroken(n)' <=> \E i \in 1..(Current + 1) : BrokenAt(i, n)'
      BY <1>4 DEF ReportedBroken, Ranked
    <3>3. \A i \in 1..Current : BrokenAt(i, n)' <=> BrokenAt(i, n)
      BY <1>1, <1>4
    <3>4. \A i \in 1..(Current + 1) : i = Current + 1 \/ i \in 1..Current
      BY <1>0
    <3>5. \A i : i = Current + 1 => ~BrokenAt(i, n)'
      BY <1>4
    <3>6. \A i \in 1..Current : i \in 1..(Current + 1)
      BY <1>0
    <3> HIDE DEF BrokenAt
    <3> QED
      BY <3>1, <3>2, <3>3, <3>4, <3>5, <3>6
  <2> QED
    BY <1>0, <1>1, <2>1 DEF KeysReported
<1>8. ASSUME NEW i \in 1..Current PROVE NameRead(i)' /\ StatusRead(i)' /\ DepsRead(i)'
  <2>1. NameRead(i)'
    BY <1>0, <1>1, <1>3, <1>4 DEF NameRead
  <2>2. StatusRead(i)'
    BY <1>0, <1>1, <1>3, <1>4, <1>5 DEF StatusRead
  <2>3. DepsRead(i)'
    BY <1>0, <1>1, <1>3, <1>4, <1>5 DEF DepsRead
  <2> QED
    BY <2>1, <2>2, <2>3
<1>9. ASSUME NEW i, i = Current + 1 PROVE NameRead(i)' /\ StatusRead(i)' /\ DepsRead(i)'
  <2>1. pkgs'[i] = r /\ StartOf(i)' = pos + 1 /\ Fields(i, "BUILD_STATUS")' = {} /\ Fields(i, "DEPENDS")' = {}
    BY <1>3, <1>4, <1>9
  <2>2. Line = input[pos + 1] /\ input' = input
    BY <1>1 DEF Line
  <2>3. NameRead(i)'
    BY <1>2, <2>1, <2>2 DEF NameRead
  <2>4. StatusRead(i)'
    BY <1>2, <2>1 DEF StatusRead
  <2>5. DepsRead(i)'
    BY <1>2, <2>1 DEF DepsRead
  <2> QED
    BY <2>3, <2>4, <2>5
<1>10. \A i \in 1..(Current + 1) : (i = Current + 1 \/ i \in 1..Current) /\ ~(i <= resolved') /\ i > resolved'
  BY <1>0, <1>1
<1> QED
  BY <1>6, <1>7, <1>8, <1>9, <1>10 DEF ReadInv

\* After the scan nothing changes in the text that has been read.
LEMMA TextFrame ==
    ASSUME UNCHANGED <<input, pos>>
    PROVE  /\ Starts' = Starts
           /\ \A i : StartOf(i)' = StartOf(i)
           /\ \A i, k : Fields(i, k)' = Fields(i, k) /\ LastOf(i, k)' = LastOf(i, k)
           /\ \A n : ReportedBroken(n)' <=> ReportedBroken(n)
           /\ \A i : ReportedIndirect(i)' <=> ReportedIndirect(i)
<1>1. Starts' = Starts /\ Seen' = Seen
  BY DEF Starts, Seen
<1>2. \A i : StartOf(i)' = StartOf(i)
  BY <1>1, StartIs
<1>3. \A i, k : Fields(i, k)' = Fields(i, k)
  BY <1>1, <1>2 DEF Fields, Segment
<1>4. \A i, k : LastOf(i, k)' = LastOf(i, k)
  BY <1>3 DEF LastOf
<1>5. \A n : ReportedBroken(n)' <=> ReportedBroken(n)
  BY <1>1, <1>2, <1>3 DEF ReportedBroken
<1>6. \A i : ReportedIndirect(i)' <=> ReportedIndirect(i)
  BY <1>4 DEF ReportedIndirect
<1> QED
  BY <1>1, <1>2, <1>3, <1>4, <1>5, <1>6

\* What the second pass makes of a record.
LEMMA KeptIsReported ==
    ASSUME TypeOK, KeysReported, NEW i \in 1..Current, StatusRead(i), DepsRead(i)
    PROVE  Reported(i, Kept(i))
<1>1. \A k : LastOf(i, k) \subseteq Fields(i, k) /\ Fields(i, k) \subseteq Nat
  BY DEF LastOf, Fields, Segment, Seen
<1>2. ASSUME NEW k, NEW p \in LastOf(i, k), NEW q \in LastOf(i, k) PROVE p = q
  <2>1. p <= q /\ q <= p /\ p \in Nat /\ q \in Nat
    BY <1>1 DEF LastOf
  <2> QED
    BY <2>1
<1>3. Indirect(pkgs[i].status) <=> ReportedIndirect(i)
  <2>1. CASE Fields(i, "BUILD_STATUS") = {} /\ pkgs[i].status = "OK"
    BY <1>1, <2>1 DEF Indirect, ReportedIndirect
  <2>2. ASSUME NEW p \in LastOf(i, "BUILD_STATUS"), pkgs[i].status = Status(input[p].val)
        PROVE  Indirect(pkgs[i].status) <=> ReportedIndirect(i)
    <3>1. Indirect(Status(input[p].val)) <=> input[p].val \in {"indirect-failed", "indirect-prefailed"}
      BY DEF Indirect, Status
    <3>2. ReportedIndirect(i) <=> input[p].val \in {"indirect-failed", "indirect-prefailed"}
      BY <1>2 DEF ReportedIndirect
    <3> QED
      BY <2>2, <3>1, <3>2
  <2> QED
    BY <2>1, <2>2 DEF StatusRead
<1>4. CASE ~ReportedIndirect(i)
  BY <1>3, <1>4 DEF Reported, Kept
<1>5. CASE ReportedIndirect(i)
  <2> DEFINE deps == pkgs[i].failedDeps
             S == DOMAIN failedPkgs
  <2>1. Kept(i) = Keep(deps, S)
    BY <1>3, <1>5 DEF Kept
  <2>2. deps \in Seq(Names)
    BY RecordsType DEF Records
  <2>3. Keep(deps, S) \in Seq(Names) /\ IsSelection(Keep(deps, S), deps, S)
    BY <2>2, KeepSelects
  <2>4. CASE Fields(i, "DEPENDS") = {} /\ deps = <<>>
    <3>1. PICK at \in [DOMAIN Keep(deps, S) -> DOMAIN deps] : TRUE
      BY <2>3 DEF IsSelection
    <3>2. DOMAIN deps = {}
      BY <2>4
    <3>3. DOMAIN Keep(deps, S) = {}
      BY <3>1, <3>2
    <3>4. Keep(deps, S) = <<>>
      BY <2>3, <3>3
    <3> QED
      BY <2>1, <2>4, <3>4 DEF Reported
  <2>5. ASSUME NEW p \in LastOf(i, "DEPENDS"), deps = input[p].val
        PROVE  Reported(i, Kept(i))
    <3>1. Fields(i, "DEPENDS") # {}
      BY <1>1
    <3>2. IsSelection(Kept(i), input[p].val, {n \in Names : ReportedBroken(n)})
      BY <2>1, <2>3, <2>5 DEF KeysReported
    <3> QED
      BY <1>5, <3>1, <3>2 DEF Reported
  <2> QED
    BY <2>4, <2>5 DEF DepsRead
<1> QED
  BY <1>4, <1>5

\* A record that the second pass is done with.
LEMMA ReadResolve ==
    ASSUME TypeOK, ReadInv, ResolveRecord
    PROVE  ReadInv'
<1>1. /\ UNCHANGED <<input, pos, failedPkgs>> /\ resolved' = resolved + 1
      /\ resolved + 1 \in 1..Current /\ resolved \in Nat
  <2>1. UNCHANGED <<input, pos, failedPkgs>> /\ resolved' = resolved + 1
    BY DEF ResolveRecord
  <2>2. resolved + 1 \in 1..Current
    BY ResolveStep
  <2>3. resolved \in Nat
    BY RecordsType DEF TypeOK
  <2> QED
    BY <2>1, <2>2, <2>3
<1>2. Current' = Current /\ Len(pkgs') = Current
  BY ResolveStep, RecordsType, FunctionIsSeq DEF Current
<1>3. StartsInv' /\ KeysReported'
  BY <1>1, <1>2, TextFrame DEF ReadInv, StartsInv, KeysReported, Current
<1>4. ASSUME NEW i \in 1..Current
      PROVE  /\ NameRead(i)' /\ StatusRead(i)'
             /\ i <= resolved' => Reported(i, pkgs[i].failedDeps)'
             /\ i > resolved' => DepsRead(i)'
  <2>1. /\ pkgs'[i].name = pkgs[i].name /\ pkgs'[i].status = pkgs[i].status
        /\ pkgs'[i].failedDeps = IF i = resolved + 1 THEN Kept(resolved + 1) ELSE pkgs[i].failedDeps
    BY ResolveStep
  <2>2. NameRead(i)' /\ StatusRead(i)'
    BY <1>1, <2>1, TextFrame DEF ReadInv, NameRead, StatusRead
  <2>3. CASE i > resolved + 1
    <3>1. DepsRead(i) /\ i # resolved + 1
      BY <1>1, <2>3 DEF ReadInv
    <3>2. DepsRead(i)'
      BY <1>1, <2>1, <3>1, TextFrame DEF DepsRead
    <3> QED
      BY <1>1, <2>2, <2>3, <3>2
  <2>4. CASE i <= resolved + 1
    <3>1. Reported(i, pkgs'[i].failedDeps)
      <4>1. CASE i = resolved + 1
        <5>1. StatusRead(i) /\ DepsRead(i) /\ KeysReported
          BY <1>1, <4>1 DEF ReadInv
        <5> QED
          BY <2>1, <4>1, <5>1, KeptIsReported
      <4>2. CASE i # resolved + 1
        <5>1. i <= resolved
          BY <1>1, <2>4, <4>2
        <5> QED
          BY <2>1, <4>2, <5>1 DEF ReadInv
      <4> QED
        BY <4>1, <4>2
    <3>2. Reported(i, pkgs[i].failedDeps)'
      BY <1>1, <3>1, TextFrame DEF Reported
    <3> QED
      BY <1>1, <2>2, <2>4, <3>2
  <2> QED
    BY <1>1, <2>3, <2>4
<1> QED
  BY <1>2, <1>3, <1>4 DEF ReadInv

LEMMA NextReadInv ==
    ASSUME TypeOK, BalanceInv, ReadInv, [Next]_vars
    PROVE  ReadInv'
<1>1. CASE StartRecord
  BY <1>1, ReadStart DEF BalanceInv, StartRecord, Scan
<1>2. CASE SetLocation \/ SetDepends \/ SetStatus
  <2>1. PICK key \in {"PKG_LOCATION", "DEPENDS", "BUILD_STATUS"} :
            /\ Scan(key)
            /\ key = "PKG_LOCATION" => SetLocation
            /\ key = "DEPENDS" => SetDepends
            /\ key = "BUILD_STATUS" => SetStatus
    BY <1>2 DEF SetLocation, SetDepends, SetStatus
  <2>2. /\ resolved = 0 /\ UNCHANGED <<input, resolved>> /\ pkgs # <<>>
    BY <2>1 DEF SetLocation, SetDepends, SetStatus, Scan, BalanceInv
  <2> DEFINE x == Line.val
             s == Status(x)
             r == pkgs[Current]
             t == IF key = "PKG_LOCATION" THEN [r EXCEPT !.path = x]
                  ELSE IF key = "DEPENDS" THEN [r EXCEPT !.failedDeps = x]
                  ELSE [r EXCEPT !.status = s]
  <2>3. pkgs' = [pkgs EXCEPT ![Current] = t]
    BY <2>1, Assignments
  <2>4. r \in Records
    BY <2>2, RecordsType
  <2>5. /\ t.name = r.name
        /\ t.status = IF key = "BUILD_STATUS" THEN s ELSE r.status
        /\ t.failedDeps = IF key = "DEPENDS" THEN x ELSE r.failedDeps
    <3> HIDE DEF r, s, x
    <3> QED
      BY <2>1, <2>4 DEF Records
  <2>6. Len(pkgs') = Current
    <3>1. TypeOK'
      BY NextTypeOK
    <3>2. DOMAIN pkgs' = 1..Current
      BY <2>3, RecordsType
    <3> QED
      BY <3>1, <3>2, RecordsType DEF TypeOK
  <2>7. pkgs'[Current] = t /\ \A i \in 1..Current : i # Current => pkgs'[i] = pkgs[i]
    <3> HIDE DEF t
    <3> QED
      BY <2>2, <2>3, RecordsType
  <2>8. DOMAIN failedPkgs' =
            IF key = "BUILD_STATUS" /\ pkgs # <<>> /\ Broken(Status(Line.val))
            THEN DOMAIN failedPkgs \cup {pkgs[Current].name} ELSE DOMAIN failedPkgs
    BY <2>1, <2>2 DEF SetLocation, SetDepends, SetStatus, WithEntry
  <2> HIDE DEF t
  <2> QED
    BY <2>1, <2>2, <2>5, <2>6, <2>7, <2>8, ReadLine
<1>3. CASE SkipLine
  <2>1. /\ Scan("other") /\ UNCHANGED <<input, resolved, pkgs, failedPkgs>> /\ resolved = 0
    BY <1>3 DEF SkipLine, Scan, BalanceInv
  <2>2. "other" # "PKGNAME" /\ "other" # "BUILD_STATUS" /\ "other" # "DEPENDS" /\ Len(pkgs') = Current
    BY <2>1 DEF Current
  <2> QED
    BY <2>1, <2>2, ReadLine
<1>4. CASE NilRecord
  <2>1. PICK key \in {"PKG_LOCATION", "BUILD_STATUS", "DEPENDS"} : Scan(key)
    BY <1>4 DEF NilRecord
  <2>2. UNCHANGED <<input, resolved, pkgs, failedPkgs>> /\ resolved = 0 /\ pkgs = <<>> /\ Len(pkgs') = Current
    BY <1>4, <2>1 DEF NilRecord, Scan, BalanceInv, Current
  <2>3. \A i \in 1..Current : FALSE
    BY <2>2, RecordsType
  <2> QED
    BY <2>1, <2>2, <2>3, ReadLine
<1>5. CASE ResolveRecord
  BY <1>5, ReadResolve
<1>6. CASE EndScan \/ Return \/ UNCHANGED vars
  <2>1. UNCHANGED <<input, pos, pkgs, failedPkgs, resolved>>
    BY <1>6 DEF EndScan, Return, vars
  <2>2. Current' = Current /\ StartsInv' /\ KeysReported'
    BY <2>1, TextFrame DEF ReadInv, StartsInv, KeysReported, Current
  <2>3. ASSUME NEW i \in 1..Current
        PROVE  /\ NameRead(i)' /\ StatusRead(i)'
               /\ i <= resolved' => Reported(i, pkgs[i].failedDeps)'
               /\ i > resolved' => DepsRead(i)'
    <3>1. NameRead(i)' /\ StatusRead(i)'
      BY <2>1, TextFrame DEF ReadInv, NameRead, StatusRead
    <3>2. Reported(i, pkgs[i].failedDeps)' <=> Reported(i, pkgs[i].failedDeps)
      BY <2>1, TextFrame DEF Reported
    <3>3. DepsRead(i)' <=> DepsRead(i)
      BY <2>1, TextFrame DEF DepsRead
    <3> QED
      BY <2>1, <3>1, <3>2, <3>3 DEF ReadInv
  <2> QED
    BY <2>2, <2>3 DEF ReadInv
<1> QED
  BY <1>1, <1>2, <1>3, <1>4, <1>5, <1>6 DEF Next

\* The scan and the second pass keep it.
LEMMA ReadInvariant == Spec => []ReadInv
<1>1. Init => ReadInv
  <2> SUFFICES ASSUME Init PROVE ReadInv
    OBVIOUS
  <2>1. pkgs = <<>> /\ failedPkgs = <<>> /\ pos = 0 /\ resolved = 0
    BY DEF Init
  <2>2. Len(<<>>) = 0 /\ DOMAIN <<>> = {}
    OBVIOUS
  <2>3. Starts = {} /\ Current = 0
    BY <2>1, <2>2 DEF Starts, Seen, Current
  <2>4. Ranked({}, 0)
    BY FS_EmptySet DEF Ranked
  <2>5. Cardinality(Starts) = 0
    BY <2>3, FS_EmptySet
  <2>6. \A n : ~ReportedBroken(n)
    BY <2>5 DEF ReportedBroken
  <2>7. StartsInv /\ KeysReported
    BY <2>1, <2>2, <2>3, <2>4, <2>6 DEF StartsInv, KeysReported
  <2> QED
    BY <2>3, <2>7 DEF ReadInv
<1>2. TypeOK /\ TypeOK' /\ BalanceInv /\ ReadInv /\ [Next]_vars => ReadInv'
  BY NextReadInv
<1> QED
  BY <1>1, <1>2, TypeCorrect, CountsInvariant, PTL DEF Spec

\* So every record that is returned is as reported.
LEMMA AllReported ==
    ASSUME TypeOK, BalanceInv, ReadInv, Returned, NEW i \in DOMAIN pkgs
    PROVE  Reported(i, pkgs[i].failedDeps)
<1>1. i \in 1..Current /\ resolved = Current /\ Current \in Nat
  BY RecordsType DEF BalanceInv, Returned
<1> QED
  BY <1>1 DEF ReadInv

\* Whatever a report looks like, a record ends with the dependencies of its last
\* DEPENDS line that the report says failed, wherever it says so, if its last
\* status line says indirectly failed, and with none otherwise: what the loop at
\* bulk.go:192 makes with the map that the scan has left.
THEOREM FailedDepsCorrect == Spec => []FailedDepsAreReported
<1>1. TypeOK /\ BalanceInv /\ ReadInv => FailedDepsAreReported
  BY AllReported DEF FailedDepsAreReported, Reported
<1> QED
  BY <1>1, TypeCorrect, CountsInvariant, ReadInvariant, PTL DEF Spec

-----------------------------------------------------------------------------
(* Whom a package breaks.                                                  *)

\* A selection has an element once that the list has once, if it is wanted.
LEMMA SelectedOnce ==
    ASSUME NEW t, NEW s, NEW S, IsSelection(t, s, S), NEW x \in S,
           DOMAIN t \subseteq Nat, DOMAIN s \subseteq Nat,
           \A k, l \in DOMAIN s : s[k] = x /\ s[l] = x => k = l
    PROVE  /\ (\E k \in DOMAIN t : t[k] = x) <=> (\E k \in DOMAIN s : s[k] = x)
           /\ \A k, l \in DOMAIN t : t[k] = x /\ t[l] = x => k = l
<1>1. PICK at \in [DOMAIN t -> DOMAIN s] :
          /\ \A k, l \in DOMAIN t : k < l => at[k] < at[l]
          /\ \A k \in DOMAIN t : t[k] = s[at[k]]
          /\ {at[k] : k \in DOMAIN t} = {k \in DOMAIN s : s[k] \in S}
  BY DEF IsSelection
<1>2. ASSUME NEW k \in DOMAIN t, t[k] = x PROVE \E l \in DOMAIN s : s[l] = x
  BY <1>1, <1>2
<1>3. ASSUME NEW l \in DOMAIN s, s[l] = x PROVE \E k \in DOMAIN t : t[k] = x
  <2>1. l \in {at[k] : k \in DOMAIN t}
    BY <1>1, <1>3
  <2>2. PICK k \in DOMAIN t : l = at[k]
    BY <2>1
  <2> QED
    BY <1>1, <1>3, <2>2
<1>4. ASSUME NEW k \in DOMAIN t, NEW l \in DOMAIN t, t[k] = x, t[l] = x PROVE k = l
  <2>1. at[k] = at[l]
    BY <1>1, <1>4
  <2>2. k \in Nat /\ l \in Nat /\ at[k] \in Nat
    OBVIOUS
  <2> QED
    BY <1>1, <2>1, <2>2
<1> QED
  BY <1>2, <1>3, <1>4

\* If there is at most one of each, there are as many pairs as there are those
\* that have one.
AtMostOne(K, n) == \A i \in 1..n : \A k, l \in K[i] : k = l

LEMMA OneOfEach ==
    ASSUME NEW n \in Nat, NEW K, AtMostOne(K, n)
    PROVE  Cardinality(UNION {{i} \X K[i] : i \in 1..n}) = Cardinality({i \in 1..n : K[i] # {}})
<1> DEFINE S == {i \in 1..n : K[i] # {}}
           T == UNION {{i} \X K[i] : i \in 1..n}
           f == [i \in S |-> <<i, CHOOSE k \in K[i] : TRUE>>]
<1>1. IsFiniteSet(S)
  <2>1. IsFiniteSet(1..n)
    BY FS_Interval
  <2> QED
    BY <2>1, FS_Subset
<1>2. \A i \in S : f[i] = <<i, CHOOSE k \in K[i] : TRUE>> /\ (CHOOSE k \in K[i] : TRUE) \in K[i]
  OBVIOUS
<1>3. \A z : z \in T <=> \E i \in 1..n : \E k \in K[i] : z = <<i, k>>
  OBVIOUS
<1>4. f \in [S -> T]
  BY <1>2, <1>3
<1>5. ASSUME NEW z \in T PROVE \E i \in S : f[i] = z
  <2>1. PICK i \in 1..n : \E k \in K[i] : z = <<i, k>>
    BY <1>3
  <2>2. PICK k \in K[i] : z = <<i, k>>
    BY <2>1
  <2>3. i \in S
    BY <2>2
  <2>4. (CHOOSE l \in K[i] : TRUE) = k
    BY <1>2, <2>2, <2>3 DEF AtMostOne
  <2> QED
    BY <1>2, <2>2, <2>3, <2>4
<1>6. ASSUME NEW i \in S, NEW j \in S, f[i] = f[j] PROVE i = j
  BY <1>2, <1>6
<1> HIDE DEF S, T, f
<1>7. f \in Bijection(S, T)
  BY <1>4, <1>5, <1>6 DEF Bijection, Injection, Surjection, IsInjective
<1>8. ExistsBijection(S, T)
  BY <1>7 DEF ExistsBijection
<1>9. Cardinality(T) = Cardinality(S)
  BY <1>1, <1>8, FS_Bijection
<1> QED
  BY <1>9 DEF S, T

\* An unambiguous record is the one that the map has for its name, if any.
LEMMA IndexOfRecord ==
    ASSUME TypeOK, IndexesValid, ReadInv, NEW j \in 1..Current, Unambiguous(j)
    PROVE  /\ \A m \in DOMAIN failedPkgs : failedPkgs[m] = j <=> m = ReportedName(j)
           /\ ReportedName(j) \in DOMAIN failedPkgs <=> ReportedFailed(j)
<1>1. /\ DOMAIN pkgs = 1..Current /\ Cardinality(Starts) = Current
      /\ \A i \in 1..Current : pkgs[i].name = ReportedName(i) /\ pkgs[i].name \in Names
  <2>1. DOMAIN pkgs = 1..Current /\ \A i \in 1..Current : pkgs[i].name \in Names
    BY RecordsType DEF Records
  <2>2. Cardinality(Starts) = Current
    BY StartsOf DEF ReadInv
  <2> QED
    BY <2>1, <2>2 DEF ReadInv, NameRead, ReportedName
<1>2. ASSUME NEW i \in 1..Current, ReportedName(i) = ReportedName(j) PROVE i = j
  BY <1>1, <1>2 DEF Unambiguous
<1>3. ASSUME NEW m \in DOMAIN failedPkgs PROVE failedPkgs[m] = j <=> m = ReportedName(j)
  BY <1>1, <1>2 DEF IndexesValid
<1>4. ReportedName(j) \in DOMAIN failedPkgs <=> ReportedBroken(ReportedName(j))
  BY <1>1 DEF ReadInv, KeysReported
<1>5. \A p \in Fields(j, "BUILD_STATUS") : p \in LastOf(j, "BUILD_STATUS")
  <2>1. Fields(j, "BUILD_STATUS") \subseteq Nat
    BY DEF Fields, Segment, Seen
  <2> QED
    BY <2>1 DEF Unambiguous, LastOf
<1>6. ASSUME ReportedBroken(ReportedName(j)) PROVE ReportedFailed(j)
  <2>1. PICK i \in 1..Current : ReportedName(i) = ReportedName(j)
                /\ \E p \in Fields(i, "BUILD_STATUS") : input[p].val \in {"failed", "prefailed"}
    BY <1>1, <1>6 DEF ReportedBroken, ReportedName
  <2>2. i = j
    BY <1>2, <2>1
  <2> QED
    BY <1>5, <2>1, <2>2 DEF ReportedFailed
<1>7. ASSUME ReportedFailed(j) PROVE ReportedBroken(ReportedName(j))
  <2>1. PICK p \in Fields(j, "BUILD_STATUS") : input[p].val \in {"failed", "prefailed"}
    BY <1>7 DEF ReportedFailed, LastOf
  <2> QED
    BY <1>1, <2>1 DEF ReportedBroken, ReportedName
<1> QED
  BY <1>3, <1>4, <1>6, <1>7

\* What a record keeps of an unambiguous, failed package.
KeptPlaces(i, x) == {k \in DOMAIN pkgs[i].failedDeps : pkgs[i].failedDeps[k] = x}

\* It keeps it at one place if it depends on it, and at none otherwise.
LEMMA KeptOnce ==
    ASSUME TypeOK, ReadInv, NEW i \in 1..Current, Reported(i, pkgs[i].failedDeps),
           Cardinality(Starts) = Current,
           NEW x \in Names, ReportedBroken(x),
           i \in BrokenBy(x) => \A k, l \in Mentions(i, x) : k = l
    PROVE  /\ KeptPlaces(i, x) # {} <=> i \in BrokenBy(x)
           /\ \A k, l \in KeptPlaces(i, x) : k = l
<1> DEFINE t == pkgs[i].failedDeps
           S == {n \in Names : ReportedBroken(n)}
<1>1. t \in Seq(Names) /\ DOMAIN t \subseteq Nat
  <2>1. pkgs[i] \in Records
    BY RecordsType
  <2>2. t \in Seq(Names)
    BY <2>1 DEF Records
  <2> QED
    BY <2>2
<1>2. ASSUME NEW p \in LastOf(i, "DEPENDS"), NEW q \in LastOf(i, "DEPENDS") PROVE p = q
  <2>1. p <= q /\ q <= p /\ p \in Nat /\ q \in Nat
    BY DEF LastOf, Fields, Segment, Seen
  <2> QED
    BY <2>1
<1>3. CASE ReportedIndirect(i) /\ Fields(i, "DEPENDS") # {}
  <2>1. PICK p \in LastOf(i, "DEPENDS") : IsSelection(t, input[p].val, S)
    BY <1>3 DEF Reported
  <2>2. Mentions(i, x) = {k \in DOMAIN input[p].val : input[p].val[k] = x}
    BY <1>2, <2>1 DEF Mentions
  <2>3. i \in BrokenBy(x) <=> \E k \in DOMAIN input[p].val : input[p].val[k] = x
    BY <1>3, <2>2 DEF BrokenBy
  <2>4. \A k, l \in DOMAIN input[p].val : input[p].val[k] = x /\ input[p].val[l] = x => k = l
    BY <2>2, <2>3
  <2>5. DOMAIN input[p].val \subseteq Nat
    <3>1. p \in 1..Len(input) /\ input[p].key = "DEPENDS"
      BY DEF LastOf, Fields, Segment, Seen, TypeOK
    <3>2. input[p] \in Lines
      BY <3>1, InputAssumption DEF TypeOK
    <3>3. input[p].val \in Seq(Names)
      BY <3>1, <3>2 DEF Lines
    <3> QED
      BY <3>3
  <2>6. x \in S
    OBVIOUS
  <2> HIDE DEF t, S
  <2>7. /\ (\E k \in DOMAIN t : t[k] = x) <=> (\E k \in DOMAIN input[p].val : input[p].val[k] = x)
        /\ \A k, l \in DOMAIN t : t[k] = x /\ t[l] = x => k = l
    BY <1>1, <2>1, <2>4, <2>5, <2>6, SelectedOnce
  <2> QED
    BY <2>3, <2>7 DEF KeptPlaces, t
<1>4. CASE ~(ReportedIndirect(i) /\ Fields(i, "DEPENDS") # {})
  <2>1. t = <<>> /\ DOMAIN t = {}
    BY <1>4 DEF Reported
  <2>2. i \notin BrokenBy(x)
    BY <1>4 DEF BrokenBy, Mentions, LastOf
  <2> QED
    BY <2>1, <2>2 DEF KeptPlaces
<1> QED
  BY <1>3, <1>4

\* Only names in the map are kept.
LEMMA KeptAreKeys ==
    ASSUME TypeOK, ReadInv, NEW i \in 1..Current, Reported(i, pkgs[i].failedDeps),
           NEW k \in DOMAIN pkgs[i].failedDeps
    PROVE  pkgs[i].failedDeps[k] \in DOMAIN failedPkgs
<1>1. pkgs[i].failedDeps # <<>>
  OBVIOUS
<1>2. PICK p \in LastOf(i, "DEPENDS") :
          IsSelection(pkgs[i].failedDeps, input[p].val, {n \in Names : ReportedBroken(n)})
  BY <1>1 DEF Reported
<1>3. pkgs[i].failedDeps[k] \in {n \in Names : ReportedBroken(n)}
  BY <1>2 DEF IsSelection
<1> QED
  BY <1>3 DEF ReadInv, KeysReported

\* For any report, a package that it calls failed, and that it is unambiguous
\* about, ends with the number of indirectly failed packages whose dependencies
\* name it, and one that it does not call failed with none ("Number of packages
\* broken by this one", bulk.go:152).
THEOREM BreaksAreCounted == Spec => []BreaksArePackages
<1>1. TypeOK /\ IndexesValid /\ BalanceInv /\ ReadInv => BreaksArePackages
  <2> SUFFICES ASSUME TypeOK, IndexesValid, BalanceInv, ReadInv, Returned,
                      NEW j \in DOMAIN pkgs, Unambiguous(j)
               PROVE  pkgs[j].breaks =
                        IF ReportedFailed(j) THEN Cardinality(BrokenBy(ReportedName(j))) ELSE 0
    BY DEF BreaksArePackages
  <2> DEFINE x == ReportedName(j)
  <2>1. /\ DOMAIN pkgs = 1..Current /\ Current \in Nat /\ resolved = Current
        /\ Cardinality(Starts) = Current /\ j \in 1..Current
    <3>1. Cardinality(Starts) = Current
      BY StartsOf DEF ReadInv
    <3> QED
      BY <3>1, RecordsType DEF BalanceInv, Returned
  <2>2. \A i \in 1..Current : Reported(i, pkgs[i].failedDeps)
    BY <2>1, AllReported
  <2>3. pkgs[j].breaks = Cardinality(Counted(j, Current))
    BY <2>1 DEF BalanceInv
  <2>4. /\ \A m \in DOMAIN failedPkgs : failedPkgs[m] = j <=> m = x
        /\ x \in DOMAIN failedPkgs <=> ReportedFailed(j)
    BY <2>1, IndexOfRecord
  <2>5. \A i \in 1..Current :
            {k \in DOMAIN pkgs[i].failedDeps : failedPkgs[pkgs[i].failedDeps[k]] = j} = KeptPlaces(i, x)
    BY <2>1, <2>2, <2>4, KeptAreKeys DEF KeptPlaces
  <2>6. Counted(j, Current) = UNION {{i} \X KeptPlaces(i, x) : i \in 1..Current}
    BY <2>5 DEF Counted
  <2>7. CASE ~ReportedFailed(j)
    <3>1. \A i \in 1..Current : KeptPlaces(i, x) = {}
      BY <2>1, <2>2, <2>4, <2>7, KeptAreKeys DEF KeptPlaces
    <3>2. Counted(j, Current) = {}
      BY <2>6, <3>1
    <3> QED
      BY <2>3, <2>7, <3>2, FS_EmptySet
  <2>8. CASE ReportedFailed(j)
    <3>1. x \in Names /\ ReportedBroken(x)
      BY <2>4, <2>8 DEF ReadInv, KeysReported
    <3> DEFINE K == [i \in 1..Current |-> KeptPlaces(i, x)]
    <3>2. ASSUME NEW i \in 1..Current
          PROVE  /\ K[i] # {} <=> i \in BrokenBy(x)
                 /\ \A k, l \in K[i] : k = l
      <4>1. i \in BrokenBy(x) => \A k, l \in Mentions(i, x) : k = l
        BY DEF Unambiguous
      <4> QED
        BY <2>1, <2>2, <3>1, <4>1, KeptOnce
    <3>3. {i \in 1..Current : K[i] # {}} = BrokenBy(x)
      BY <2>1, <3>2 DEF BrokenBy
    <3>4. UNION {{i} \X KeptPlaces(i, x) : i \in 1..Current} = UNION {{i} \X K[i] : i \in 1..Current}
      OBVIOUS
    <3> HIDE DEF K
    <3>5. Cardinality(UNION {{i} \X K[i] : i \in 1..Current}) = Cardinality({i \in 1..Current : K[i] # {}})
      <4>1. AtMostOne(K, Current)
        BY <3>2 DEF AtMostOne
      <4> QED
        BY <2>1, <4>1, OneOfEach
    <3> QED
      BY <2>3, <2>6, <2>8, <3>3, <3>4, <3>5
  <2> QED
    BY <2>7, <2>8
<1> QED
  BY <1>1, TypeCorrect, IndexesStayValid, CountsInvariant, ReadInvariant, PTL DEF Spec
=============================================================================
