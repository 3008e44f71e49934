--------------------------- MODULE ExpireOldProofs ---------------------------
(***************************************************************************)
(* Theorems about ExpireOld and the DeleteMulti that it calls, for any     *)
(* builds, workers and sizes of chunks, stopped and run again at any step. *)
(***************************************************************************)
EXTENDS ExpireOld, FiniteSetTheorems, TLAPS

-----------------------------------------------------------------------------
(* Keys.                                                                   *)

\* The sequence that a finite set of keys is made into has all of it.
LEMMA AllKeysPassed ==
    ASSUME NEW S, IsFiniteSet(S)
    PROVE  /\ ToSet(SetToSeq(S)) = S
           /\ Len(SetToSeq(S)) \in Nat
           /\ DOMAIN SetToSeq(S) = 1..Len(SetToSeq(S))
<1> DEFINE n == Cardinality(S)
           f == SetToSeq(S)
<1>1. n \in Nat /\ ExistsBijection(1..n, S)
  BY FS_CardinalityType
<1>2. PICK g \in Bijection(1..n, S) : TRUE
  BY <1>1 DEF ExistsBijection
<1>3. g \in [1..n -> S] /\ IsInjective(g)
  BY <1>2 DEF Bijection, Injection
<1>4. f \in [1..n -> S] /\ IsInjective(f)
  BY <1>3 DEF SetToSeq
<1>5. IsFiniteSet(1..n) /\ Cardinality(1..n) = n
  BY <1>1, FS_Interval
<1>6. f \in Surjection(1..n, S)
  BY <1>4, <1>5, FS_Injection DEF Injection
<1>7. Len(f) = n
  BY <1>1, <1>4
<1>8. ToSet(f) = S
  BY <1>4, <1>6 DEF ToSet, Surjection
<1> QED
  BY <1>1, <1>4, <1>7, <1>8

\* The key of a detail is longer than that of its build.
LEMMA DetailsAreNoBuilds ==
    ASSUME NEW b, NEW c, NEW k \in DetailKeys(c)
    PROVE  k # BuildKey(b)
<1>1. PICK d : k = <<c, d>>
  BY DEF DetailKeys
<1>2. Len(<<c, d>>) = 2 /\ Len(<<b>>) = 1
  OBVIOUS
<1> QED
  BY <1>1, <1>2 DEF BuildKey

LEMMA BuildKeysDiffer ==
    ASSUME NEW b, NEW c, BuildKey(b) = BuildKey(c)
    PROVE  b = c
BY DEF BuildKey

\* The keys of an argument of DeleteMulti are finitely many.
LEMMA FiniteDetails ==
    ASSUME NEW b \in Builds
    PROVE  IsFiniteSet(StoredDetails(b))
<1>1. NumDetails[b] \in Nat
  BY ExpireAssumption
<1>2. IsFiniteSet(1..NumDetails[b])
  BY <1>1, FS_Interval
<1>3. [d \in 1..NumDetails[b] |-> <<b, d>>] \in Surjection(1..NumDetails[b], DetailKeys(b))
  BY DEF Surjection, DetailKeys
<1>4. IsFiniteSet(DetailKeys(b))
  BY <1>2, <1>3, FS_Surjection
<1> QED
  BY <1>4, FS_Subset DEF StoredDetails

LEMMA FiniteBuildKeys ==
    ASSUME NEW S, IsFiniteSet(S)
    PROVE  IsFiniteSet({BuildKey(b) : b \in S})
<1>1. [b \in S |-> BuildKey(b)] \in Surjection(S, {BuildKey(b) : b \in S})
  BY DEF Surjection
<1> QED
  BY <1>1, FS_Surjection

\* There is an oldest build among any.
LEMMA OldestIsLeast ==
    ASSUME NEW S, S \subseteq Nat, S # {}
    PROVE  Oldest(S) \in S /\ \A y \in S : Oldest(S) <= y
<1> DEFINE R == OpToRel(<, Nat)
<1>1. PICK x \in S : \A y \in S : ~(<<y, x>> \in R)
  <2>1. IsWellFoundedOn(R, Nat)
    BY NatLessThanWellFounded
  <2> HIDE DEF R
  <2> QED
    BY <2>1, WFMin
<1>2. \A y \in S : x <= y
  <2> SUFFICES ASSUME NEW y \in S PROVE x <= y
    OBVIOUS
  <2>1. ~(<<y, x>> \in R)
    BY <1>1
  <2>2. ~(y < x)
    BY <2>1 DEF OpToRel
  <2> QED
    BY <2>2
<1> QED
  BY <1>2 DEF Oldest, Min

-----------------------------------------------------------------------------
(* A call of DeleteMulti.                                                  *)

\* The keys are a sequence, and the workers hold some of them.
CallTypes ==
    /\ Len(keys) \in Nat /\ DOMAIN keys = 1..Len(keys) /\ next \in Nat
    /\ worker \in [Workers -> {"receive", "delete", "cancelled", "done"}]
    /\ chunk \in [Workers -> SUBSET ToSet(keys)]

\* Every key that was handed over is deleted or with a worker.
NoKeyLost ==
    \A k \in DOMAIN keys :
        k <= next => keys[k] \notin stored \/ \E w \in Workers : keys[k] \in chunk[w]

\* A worker that receives has deleted what it had; one that is gone has too, or
\* has set the error; there are no others without a call.
WorkersDone ==
    \A w \in Workers :
        /\ worker[w] = "receive" => chunk[w] = {}
        /\ worker[w] = "done" => failed \/ chunk[w] = {}
        /\ worker[w] # "done" => result = "running"

\* What is inductive about one call.
DeleteInv ==
    /\ CallTypes /\ NoKeyLost /\ WorkersDone
    /\ closed => next >= Len(keys)
    /\ OkMeansAllDeleted

\* A step of a call keeps what is inductive, and takes only keys of the call away.
LEMMA NextDeleteInv ==
    ASSUME DeleteInv, Deleting
    PROVE  /\ DeleteInv' /\ UNCHANGED keys
           /\ \E D \in SUBSET ToSet(keys) : stored' = stored \ D /\ (D # {} => result = "running")
           /\ result' = "running" => result = "running"
<1> USE DEF DeleteInv, CallTypes, NoKeyLost, WorkersDone, OkMeansAllDeleted
<1>0. {} \in SUBSET ToSet(keys) /\ stored = stored \ {}
  OBVIOUS
<1>1. ASSUME NEW w \in Workers, Send(w)
      PROVE  DeleteInv' /\ UNCHANGED <<keys, stored, result>>
  <2>1. /\ result = "running" /\ next < Len(keys) /\ worker[w] = "receive"
        /\ worker' = [worker EXCEPT ![w] = IF failed THEN "cancelled" ELSE "delete"]
        /\ chunk' = [chunk EXCEPT ![w] = Chunk(next)]
        /\ next' = next + MaxPerCall
        /\ UNCHANGED <<stored, keys, closed, failed, errors, result>>
    BY <1>1 DEF Send
  <2>2. Chunk(next) \in SUBSET ToSet(keys)
    BY DEF Chunk, ToSet
  <2>3. CallTypes'
    BY <2>1, <2>2, SizeAssumption
  <2>4. NoKeyLost'
    <3> SUFFICES ASSUME NEW k \in DOMAIN keys, k <= next + MaxPerCall, keys[k] \in stored
                 PROVE  \E v \in Workers : keys[k] \in chunk'[v]
      BY <2>1
    <3>1. CASE k <= next
      <4>1. PICK v \in Workers : keys[k] \in chunk[v]
        BY <3>1
      <4>2. v # w
        BY <4>1, <2>1
      <4> QED
        BY <4>1, <4>2, <2>1
    <3>2. CASE ~(k <= next)
      <4>1. k \in Nat /\ next < k
        BY <3>2
      <4>2. keys[k] \in Chunk(next)
        BY <4>1 DEF Chunk
      <4> QED
        BY <4>2, <2>1
    <3> QED
      BY <3>1, <3>2
  <2>5. WorkersDone'
    BY <2>1
  <2>6. closed' => next' >= Len(keys)'
    BY <2>1, SizeAssumption
  <2>7. OkMeansAllDeleted'
    BY <2>1
  <2> QED
    BY <2>1, <2>3, <2>4, <2>5, <2>6, <2>7
<1>2. ASSUME NEW w \in Workers, Delete(w)
      PROVE  /\ DeleteInv' /\ UNCHANGED <<keys, result>> /\ result = "running"
             /\ chunk[w] \in SUBSET ToSet(keys) /\ stored' = stored \ chunk[w]
  BY <1>2 DEF Delete
<1>3. ASSUME NEW w \in Workers, DeleteFails(w)
      PROVE  /\ DeleteInv' /\ UNCHANGED <<keys, result>> /\ result = "running"
             /\ chunk[w] \in SUBSET ToSet(keys) /\ stored' \in {stored, stored \ chunk[w]}
  BY <1>3 DEF DeleteFails, TransactionFails
<1>4. ASSUME NEW w \in Workers, Finish(w)
      PROVE  DeleteInv' /\ UNCHANGED <<keys, stored, result>>
  BY <1>4 DEF Finish
<1>5. CASE Close
  BY <1>0, <1>5 DEF Close
<1>6. CASE Return
  <2>1. ~failed => ToSet(keys) \cap stored = {}
    <3> SUFFICES ASSUME ~failed, NEW k \in DOMAIN keys PROVE keys[k] \notin stored
      BY DEF ToSet
    <3>1. k <= next
      BY <1>6 DEF Return
    <3>2. \A w \in Workers : chunk[w] = {}
      BY <1>6 DEF Return
    <3> QED
      BY <3>1, <3>2
  <2> QED
    BY <1>0, <1>6, <2>1 DEF Return
<1> QED
  BY <1>0, <1>1, <1>2, <1>3, <1>4, <1>5, <1>6 DEF Deleting

\* A new call, of any finite set of keys, and the end of the process establish it.
LEMMA CallDeleteInv ==
    ASSUME NEW S, IsFiniteSet(S), Call(SetToSeq(S))
    PROVE  DeleteInv' /\ ToSet(keys') = S /\ UNCHANGED stored /\ result' = "running"
<1>1. /\ ToSet(keys') = S /\ Len(keys') \in Nat /\ DOMAIN keys' = 1..Len(keys')
  BY AllKeysPassed DEF Call
<1> QED
  BY <1>1 DEF Call, DeleteInv, CallTypes, NoKeyLost, WorkersDone, OkMeansAllDeleted

LEMMA AbandonDeleteInv ==
    ASSUME Abandon
    PROVE  DeleteInv' /\ UNCHANGED stored /\ result' = "none"
BY DEF Abandon, DeleteInv, CallTypes, NoKeyLost, WorkersDone, OkMeansAllDeleted, ToSet

-----------------------------------------------------------------------------
(* The command.                                                            *)

\* The builds that main has seen have no details left, but for the current one
\* while they are removed; what a call is about to delete depends on the phase.
PhaseInv ==
    /\ IsFiniteSet(seen) /\ seen \subseteq Builds /\ iter \subseteq Builds
    /\ result = "running" => phase \in {"remove", "delete"}
    /\ phase \in {"loop", "delete"} => \A b \in seen : StoredDetails(b) = {}
    /\ phase = "remove" =>
          /\ current \in Builds
          /\ \A b \in seen \ {current} : StoredDetails(b) = {}
          /\ StoredDetails(current) \subseteq ToSet(keys)
          /\ ToSet(keys) \subseteq DetailKeys(current)
    /\ phase = "delete" => ToSet(keys) = {BuildKey(b) : b \in seen}

Inv == DeleteInv /\ PhaseInv /\ NoOrphans

\* Deleting keys of the call leaves no orphans: these are details of one build,
\* or builds without details.
LEMMA DeletingInv ==
    ASSUME Inv, Deleting, UNCHANGED main
    PROVE  Inv'
<1>1. /\ DeleteInv' /\ UNCHANGED keys
      /\ result' = "running" => result = "running"
  BY NextDeleteInv DEF Inv
<1>2. PICK D \in SUBSET ToSet(keys) : stored' = stored \ D /\ (D # {} => result = "running")
  BY NextDeleteInv DEF Inv
<1>3. \A b : StoredDetails(b)' \subseteq StoredDetails(b)
  BY <1>2 DEF StoredDetails, DetailKeys
<1>4. PhaseInv'
  BY <1>1, <1>3 DEF Inv, PhaseInv, main, DetailKeys
<1>5. NoOrphans'
  <2> SUFFICES ASSUME NEW b \in Builds, StoredDetails(b) # {} PROVE BuildKey(b) \notin D
    BY <1>2, <1>3 DEF Inv, NoOrphans, WithDetails, StoredBuilds, BuildKey
  <2>1. CASE phase = "remove"
    <3>1. D \subseteq DetailKeys(current)
      BY <1>2, <2>1 DEF Inv, PhaseInv
    <3> QED
      BY <3>1, DetailsAreNoBuilds
  <2>2. CASE phase = "delete"
    <3>1. D \subseteq {BuildKey(c) : c \in seen}
      BY <1>2, <2>2 DEF Inv, PhaseInv
    <3>2. b \notin seen
      BY <2>2 DEF Inv, PhaseInv
    <3> QED
      BY <3>1, <3>2, BuildKeysDiffer
  <2>3. CASE phase \notin {"remove", "delete"}
    BY <1>2, <2>3 DEF Inv, PhaseInv
  <2> QED
    BY <2>1, <2>2, <2>3
<1> QED
  BY <1>1, <1>4, <1>5 DEF Inv

\* main takes a build that is stored, and adds it to a finite set.
LEMMA IterNextSeen ==
    ASSUME Inv, IterNext
    PROVE  /\ phase = "loop"
           /\ current' \in Builds /\ seen' = seen \cup {current'}
           /\ IsFiniteSet(seen') /\ seen' \subseteq Builds /\ iter' \subseteq Builds
<1>1. current' \in iter
  BY OldestIsLeast, ExpireAssumption DEF IterNext, Inv, PhaseInv
<1>2. current' \in Builds /\ seen' = seen \cup {current'} /\ iter' \subseteq Builds /\ phase = "loop"
  BY <1>1 DEF IterNext, Inv, PhaseInv
<1>3. IsFiniteSet(seen')
  BY <1>2, FS_AddElement DEF Inv, PhaseInv
<1> QED
  BY <1>2, <1>3 DEF Inv, PhaseInv

\* Each step of main, too, keeps the invariant.
LEMMA MainInv ==
    ASSUME Inv, Main \/ Start \/ Stop \/ UNCHANGED vars
    PROVE  Inv'
<1> USE DEF NoOrphans, WithDetails, StoredBuilds, StoredDetails, DetailKeys, BuildKey
<1>1. ASSUME UNCHANGED deleteVars PROVE DeleteInv'
  BY <1>1 DEF Inv, DeleteInv, CallTypes, NoKeyLost, WorkersDone, OkMeansAllDeleted, deleteVars, call
<1>2. ASSUME UNCHANGED stored PROVE NoOrphans'
  BY <1>2 DEF Inv
<1>3. CASE SkipEmptyBuild
  <2>1. UNCHANGED <<deleteVars, stored, keys, result, phase>> /\ StoredDetails(current') = {}
    BY <1>3 DEF SkipEmptyBuild, deleteVars, call
  <2>2. PhaseInv'
    BY <1>3, <2>1, IterNextSeen DEF SkipEmptyBuild, Inv, PhaseInv
  <2> QED
    BY <1>1, <1>2, <2>1, <2>2 DEF Inv
<1>4. CASE RemoveDetails
  <2>1. /\ phase' = "remove" /\ IsFiniteSet(StoredDetails(current'))
        /\ Call(SetToSeq(StoredDetails(current')))
    BY <1>4, IterNextSeen, FiniteDetails DEF RemoveDetails
  <2>2. /\ DeleteInv' /\ UNCHANGED stored
        /\ ToSet(keys)' = StoredDetails(current')
    BY <2>1, CallDeleteInv
  <2>3. PhaseInv'
    BY <1>4, <2>1, <2>2, IterNextSeen DEF RemoveDetails, Inv, PhaseInv
  <2> QED
    BY <1>2, <2>2, <2>3 DEF Inv
<1>5. CASE DetailsRemoved
  <2>1. UNCHANGED <<deleteVars, stored, keys, result, iter, seen, current>> /\ phase' = "loop"
    BY <1>5 DEF DetailsRemoved, deleteVars, call
  <2>2. StoredDetails(current) = {}
    BY <1>5 DEF DetailsRemoved, Inv, PhaseInv, DeleteInv, OkMeansAllDeleted
  <2>3. PhaseInv'
    BY <1>5, <2>1, <2>2 DEF DetailsRemoved, Inv, PhaseInv
  <2> QED
    BY <1>1, <1>2, <2>1, <2>3 DEF Inv
<1>6. CASE DeleteBuilds
  <2> DEFINE S == {BuildKey(b) : b \in seen}
  <2>2. IsFiniteSet(S)
    BY FiniteBuildKeys DEF Inv, PhaseInv
  <2>3. DeleteInv' /\ UNCHANGED stored /\ ToSet(keys)' = S
    BY <1>6, <2>2, CallDeleteInv DEF DeleteBuilds
  <2>4. PhaseInv'
    BY <1>6, <2>3 DEF DeleteBuilds, Inv, PhaseInv
  <2> QED
    BY <1>2, <2>3, <2>4 DEF Inv
<1>7. CASE BuildsDeleted
  <2>1. UNCHANGED <<deleteVars, stored, keys, result>>
    BY <1>7 DEF BuildsDeleted, deleteVars, call
  <2>2. PhaseInv'
    BY <1>7, <2>1 DEF BuildsDeleted, Inv, PhaseInv
  <2> QED
    BY <1>1, <1>2, <2>1, <2>2 DEF Inv
<1>8. CASE Start
  <2>1. UNCHANGED <<deleteVars, stored, keys, result>>
    BY <1>8 DEF Start, deleteVars, call
  <2>2. PhaseInv'
    BY <1>8, <2>1, FS_EmptySet DEF Start, OldestBuilds, Inv, PhaseInv
  <2> QED
    BY <1>1, <1>2, <2>1, <2>2 DEF Inv
<1>9. CASE Stop
  <2>1. DeleteInv' /\ UNCHANGED stored /\ result' = "none"
    BY <1>9, AbandonDeleteInv DEF Stop
  <2>2. PhaseInv'
    BY <1>9, <2>1 DEF Stop, Inv, PhaseInv
  <2> QED
    BY <1>2, <2>1, <2>2 DEF Inv
<1>10. CASE UNCHANGED vars
  <2>1. UNCHANGED <<deleteVars, stored, keys, result>>
    BY <1>10 DEF vars, deleteVars, call
  <2>2. PhaseInv'
    BY <1>10, <2>1 DEF vars, main, Inv, PhaseInv
  <2> QED
    BY <1>1, <1>2, <2>1, <2>2 DEF Inv
<1> QED
  BY <1>3, <1>4, <1>5, <1>6, <1>7, <1>8, <1>9, <1>10 DEF Main

\* Before the first chunk.
LEMMA NoneHandedOver ==
    ASSUME NEW n \in Nat
    PROVE  0 \in 0..(n + MaxPerCall - 1)
<1>1. MaxPerCall \in Nat /\ MaxPerCall >= 1
  BY SizeAssumption
<1> QED
  BY <1>1

\* Each step of a call keeps its types.
LEMMA DeletingTypes ==
    ASSUME DeleteTypeOK, DeleteInv, Deleting
    PROVE  DeleteTypeOK'
<1> USE DEF DeleteTypeOK
<1>1. ASSUME NEW w \in Workers, Send(w) PROVE DeleteTypeOK'
  <2>1. next + MaxPerCall \in 0..(Len(keys) + MaxPerCall - 1)
    BY <1>1, SizeAssumption DEF Send, DeleteInv, CallTypes
  <2> QED
    BY <1>1, <2>1 DEF Send
<1>2. ASSUME NEW w \in Workers, Delete(w) PROVE DeleteTypeOK'
  BY <1>2 DEF Delete
<1>3. ASSUME NEW w \in Workers, DeleteFails(w) PROVE DeleteTypeOK'
  <2>1. errors' \in 0..MaxErrors
    BY <1>3, SizeAssumption DEF DeleteFails, TransactionFails
  <2> QED
    BY <1>3, <2>1 DEF DeleteFails
<1>4. ASSUME NEW w \in Workers, Finish(w) PROVE DeleteTypeOK'
  BY <1>4 DEF Finish
<1>5. CASE Close \/ Return
  BY <1>5 DEF Close, Return
<1> QED
  BY <1>1, <1>2, <1>3, <1>4, <1>5 DEF Deleting

\* The invariant holds whatever fails, and wherever the command is stopped and
\* started again.
THEOREM InductiveInvariant == Spec => []Inv
<1>1. Init => Inv
  <2> SUFFICES ASSUME Init PROVE Inv
    OBVIOUS
  <2>1. DeleteInv
    BY DEF Init, NoCall, DeleteInv, CallTypes, NoKeyLost, WorkersDone, OkMeansAllDeleted, ToSet
  <2>2. PhaseInv
    BY FS_EmptySet DEF Init, NoCall, PhaseInv
  <2>3. NoOrphans
    BY DEF Init, NoOrphans, WithDetails, StoredBuilds
  <2> QED
    BY <2>1, <2>2, <2>3 DEF Inv
<1>2. Inv /\ [Next]_vars => Inv'
  BY DeletingInv, MainInv DEF Next
<1> QED
  BY <1>1, <1>2, PTL DEF Spec

\* A call of DeleteMulti that returns no error has deleted every key it was
\* given, whatever the number of keys, chunks and workers and whichever
\* transactions have failed (dsbatch.go:36).
THEOREM OkIsComplete == Spec => []OkMeansAllDeleted
<1>1. Inv => OkMeansAllDeleted
  BY DEF Inv, DeleteInv
<1> QED
  BY <1>1, InductiveInvariant, PTL

\* Wherever the command stops and however often it is run, no details are left
\* below a build that is gone (main.go:69).
THEOREM NothingOrphaned == Spec => []NoOrphans
<1>1. Inv => NoOrphans
  BY DEF Inv
<1> QED
  BY <1>1, InductiveInvariant, PTL

(* What the command has done when it ends.                                 *)

\* A bounded set of numbers has a greatest one.
LEMMA GreatestExists ==
    ASSUME NEW S, S # {}, NEW n \in Nat, S \subseteq 0..n
    PROVE  \E m \in S : \A x \in S : x <= m
<1> DEFINE T == {n - x : x \in S}
<1>1. T \subseteq Nat /\ T # {}
  <2> SUFFICES ASSUME NEW x \in S PROVE n - x \in Nat
    OBVIOUS
  <2>1. x \in 0..n
    OBVIOUS
  <2> QED
    BY <2>1
<1>2. PICK y \in T : \A z \in T : y <= z
  <2> HIDE DEF T
  <2> QED
    BY <1>1, OldestIsLeast
<1>3. PICK m \in S : y = n - m
  OBVIOUS
<1>4. ASSUME NEW x \in S PROVE x <= m
  <2>1. n - m <= n - x
    BY <1>2, <1>3
  <2> QED
    BY <2>1
<1> QED
  BY <1>4

\* The numbers below one of them are finitely many.
LEMMA BelowFinite ==
    ASSUME NEW S, S \subseteq Nat, NEW b \in Nat
    PROVE  /\ IsFiniteSet({c \in S : c < b})
           /\ Cardinality({c \in S : c < b}) \in Nat
<1>1. {c \in S : c < b} \subseteq 0..b
  <2> SUFFICES ASSUME NEW c \in S, c < b PROVE c \in 0..b
    OBVIOUS
  <2>1. c \in Nat
    OBVIOUS
  <2> QED
    BY <2>1
<1>2. IsFiniteSet(0..b)
  BY FS_Interval
<1> QED
  BY <1>1, <1>2, FS_Subset, FS_CardinalityType

\* The LIMIT of a query by age takes all of a set or as many as the limit says.
LEMMA LimitTakes ==
    ASSUME NEW S, S \subseteq Nat, NEW n \in Nat
    PROVE  LET T == {b \in S : Cardinality({c \in S : c < b}) < n}
           IN  T = S \/ Cardinality(T) = n
<1> DEFINE Below(b) == {c \in S : c < b}
           T == {b \in S : Cardinality(Below(b)) < n}
           first == Oldest(S \ T)
<1> SUFFICES ASSUME T # S PROVE Cardinality(T) = n
  OBVIOUS
<1>1. ASSUME NEW b \in Nat PROVE IsFiniteSet(Below(b)) /\ Cardinality(Below(b)) \in Nat
  BY BelowFinite
<1>2. first \in S /\ first \notin T /\ \A x \in S : x \notin T => first <= x
  <2> HIDE DEF T
  <2>1. S \ T \subseteq Nat
    OBVIOUS
  <2>2. S \ T # {}
    BY DEF T
  <2> QED
    BY <2>1, <2>2, OldestIsLeast
<1> HIDE DEF first
<1>3. \A b : b \in T <=> b \in S /\ Cardinality(Below(b)) < n
  OBVIOUS
<1>4. \A b, c : c \in Below(b) <=> c \in S /\ c < b
  OBVIOUS
<1> HIDE DEF T, Below
<1>5. Cardinality(Below(first)) >= n /\ first \in Nat
  BY <1>1, <1>2, <1>3
<1>6. T = Below(first)
  <2>1. ASSUME NEW b \in T PROVE b < first
    <3>1. b \in Nat
      BY <1>3
    <3> SUFFICES ASSUME first <= b PROVE FALSE
      BY <1>5, <3>1
    <3>2. \A c \in Nat : c < first => c < b
      BY <1>5, <3>1
    <3>3. Below(first) \subseteq Below(b)
      BY <1>4, <3>2
    <3>4. Cardinality(Below(first)) <= Cardinality(Below(b))
      BY <1>1, <3>1, <3>3, FS_Subset
    <3> QED
      BY <1>1, <1>3, <1>5, <3>1, <3>4
  <2>2. ASSUME NEW b \in S, b < first PROVE b \in T
    <3>1. b \in Nat /\ ~(first <= b)
      BY <1>5, <2>2
    <3> QED
      BY <1>2, <3>1
  <2> QED
    BY <1>3, <1>4, <2>1, <2>2
<1>7. IsFiniteSet(T) /\ Cardinality(T) \in Nat /\ Cardinality(T) >= n
  BY <1>1, <1>5, <1>6
<1>8. Cardinality(T) <= n
  <2>1. CASE T = {}
    <3>1. Cardinality({}) = 0
      BY FS_EmptySet
    <3> QED
      BY <2>1, <3>1
  <2>2. CASE T # {}
    <3>1. T \subseteq 0..first
      <4> SUFFICES ASSUME NEW c \in T PROVE c \in 0..first
        OBVIOUS
      <4>1. c \in Nat /\ c < first
        BY <1>4, <1>6
      <4> QED
        BY <1>5, <4>1
    <3>2. PICK m \in T : \A x \in T : x <= m
      BY <1>5, <2>2, <3>1, GreatestExists
    <3>3. m \in Nat /\ m < first
      BY <1>4, <1>5, <1>6
    <3>4. \A c \in Nat : c < first /\ c <= m <=> c < m \/ c = m
      BY <1>5, <3>3
    <3>5. T = Below(m) \cup {m}
      BY <1>4, <1>6, <3>2, <3>4
    <3>6. m \notin Below(m)
      BY <1>4, <3>3
    <3>7. Cardinality(Below(m) \cup {m}) = Cardinality(Below(m)) + 1
      BY <1>1, <3>3, <3>6, FS_AddElement
    <3>8. Cardinality(Below(m)) < n /\ Cardinality(Below(m)) \in Nat
      BY <1>1, <1>3, <3>3
    <3> QED
      BY <3>5, <3>7, <3>8
  <2> QED
    BY <2>1, <2>2
<1>9. Cardinality(T) = n
  BY <1>7, <1>8
<1> QED
  BY <1>9

\* While the command runs: details of i builds are gone, or of one more that it
\* is about to count, and what the query has found is read or still to come.
ProgressInv ==
    phase # "stopped" =>
        /\ i \in 0..NumResults /\ before \subseteq Builds
        /\ WithDetails \subseteq before /\ before \ WithDetails \subseteq seen
        /\ phase # "remove" => Cardinality(before \ WithDetails) = i
        /\ phase = "remove" =>
              /\ current \in before \cap seen /\ i < NumResults
              /\ Cardinality((before \ WithDetails) \ {current}) = i
        /\ before \subseteq iter \cup seen \/ Cardinality(iter \cup seen) = Limit
        /\ phase \in {"delete", "done"} => i = NumResults \/ iter = {}
        /\ phase = "done" => seen \cap StoredBuilds = {}

\* A call takes details of the current build away, and of no other.
LEMMA OtherDetailsStay ==
    ASSUME Inv, Deleting, NEW b \in Builds, phase = "remove" => b # current
    PROVE  StoredDetails(b)' = StoredDetails(b)
<1>1. PICK D \in SUBSET ToSet(keys) : stored' = stored \ D /\ (D # {} => result = "running")
  BY NextDeleteInv DEF Inv
<1>2. \A k \in D : k \notin DetailKeys(b)
  <2> SUFFICES ASSUME NEW k \in D PROVE k \notin DetailKeys(b)
    OBVIOUS
  <2>1. CASE phase = "remove"
    <3>1. PICK d : k = <<current, d>>
      BY <1>1, <2>1 DEF Inv, PhaseInv, DetailKeys
    <3>2. \A e : <<b, e>> # <<current, d>>
      BY <2>1
    <3> QED
      BY <3>1, <3>2 DEF DetailKeys
  <2>2. CASE phase = "delete"
    <3>1. PICK c : k = BuildKey(c)
      BY <1>1, <2>2 DEF Inv, PhaseInv
    <3> QED
      BY <3>1, DetailsAreNoBuilds
  <2>3. CASE phase \notin {"remove", "delete"}
    BY <1>1, <2>3 DEF Inv, PhaseInv
  <2> QED
    BY <2>1, <2>2, <2>3
<1> QED
  BY <1>1, <1>2 DEF StoredDetails, DetailKeys

\* Neither the steps of a call nor those of main disturb that.
LEMMA DeletingProgress ==
    ASSUME Inv, ProgressInv, Deleting, UNCHANGED main
    PROVE  ProgressInv'
<1> SUFFICES ASSUME phase # "stopped" PROVE ProgressInv'
  BY DEF ProgressInv, main
<1>1. PICK D \in SUBSET ToSet(keys) : stored' = stored \ D /\ (D # {} => result = "running")
  BY NextDeleteInv DEF Inv
<1>2. StoredBuilds' \subseteq StoredBuilds
  BY <1>1 DEF StoredBuilds, BuildKey
<1>3. WithDetails' \subseteq WithDetails
  BY <1>1 DEF WithDetails, StoredDetails, DetailKeys
<1>4. ASSUME phase # "remove" PROVE WithDetails' = WithDetails
  BY <1>4, OtherDetailsStay DEF WithDetails
<1>5. ASSUME phase = "remove" PROVE WithDetails' \ {current} = WithDetails \ {current}
  BY <1>5, OtherDetailsStay DEF WithDetails
<1>6. CASE phase # "remove"
  BY <1>2, <1>4, <1>6 DEF ProgressInv, main
<1>7. CASE phase = "remove"
  <2>1. (before \ WithDetails') \ {current} = (before \ WithDetails) \ {current}
    BY <1>5, <1>7
  <2>2. before \ WithDetails' \subseteq seen
    BY <1>7, <2>1 DEF ProgressInv
  <2> QED
    BY <1>3, <1>7, <2>1, <2>2 DEF ProgressInv, main
<1> QED
  BY <1>6, <1>7

LEMMA MainProgress ==
    ASSUME Inv, ProgressInv, Main \/ Start \/ Stop \/ UNCHANGED vars
    PROVE  ProgressInv'
<1>1. ASSUME UNCHANGED stored PROVE WithDetails' = WithDetails /\ StoredBuilds' = StoredBuilds
  BY <1>1 DEF WithDetails, StoredDetails, DetailKeys, StoredBuilds, BuildKey
<1>2. ASSUME IterNext
      PROVE  /\ phase = "loop" /\ i < NumResults /\ current' \in iter
             /\ seen' = seen \cup {current'} /\ iter' \cup seen' = iter \cup seen
  <2>1. current' \in iter
    BY <1>2, OldestIsLeast, ExpireAssumption DEF IterNext, Inv, PhaseInv
  <2> QED
    BY <1>2, <2>1 DEF IterNext
<1>3. CASE SkipEmptyBuild
  <2>1. UNCHANGED <<stored, phase, i, before>>
    BY <1>3 DEF SkipEmptyBuild, deleteVars
  <2> QED
    BY <1>1, <1>2, <1>3, <2>1 DEF SkipEmptyBuild, ProgressInv
<1>4. CASE RemoveDetails
  <2>1. UNCHANGED <<stored, i, before>> /\ phase' = "remove"
    BY <1>4 DEF RemoveDetails, Call
  <2>2. current' \in WithDetails
    BY <1>2, <1>4 DEF RemoveDetails, WithDetails, Inv, PhaseInv
  <2>3. (before \ WithDetails) \ {current'} = before \ WithDetails
    BY <2>2
  <2> QED
    BY <1>1, <1>2, <1>4, <2>1, <2>2, <2>3 DEF RemoveDetails, ProgressInv
<1>5. CASE DetailsRemoved
  <2>1. /\ UNCHANGED <<stored, iter, seen, current, before>>
        /\ phase = "remove" /\ phase' = "loop" /\ i' = i + 1
    BY <1>5 DEF DetailsRemoved, deleteVars
  <2>2. StoredDetails(current) = {}
    <3>1. ToSet(keys) \cap stored = {} /\ StoredDetails(current) \subseteq ToSet(keys)
      BY <1>5 DEF DetailsRemoved, Inv, PhaseInv, DeleteInv, OkMeansAllDeleted
    <3> QED
      BY <3>1 DEF StoredDetails
  <2> DEFINE gone == (before \ WithDetails) \ {current}
  <2>3. before \ WithDetails = gone \cup {current}
    BY <2>1, <2>2 DEF ProgressInv, WithDetails
  <2>4. IsFiniteSet(gone)
    BY <2>1, FS_Subset DEF ProgressInv, Inv, PhaseInv
  <2>5. Cardinality(gone \cup {current}) = Cardinality(gone) + 1
    BY <2>4, FS_AddElement
  <2>6. Cardinality(gone) = i /\ i \in Nat /\ i < NumResults
    BY <2>1 DEF ProgressInv
  <2>7. Cardinality(before \ WithDetails) = i + 1
    BY <2>3, <2>5, <2>6
  <2>8. i + 1 \in 0..NumResults
    BY <2>6, ExpireAssumption
  <2> QED
    BY <1>1, <2>1, <2>7, <2>8 DEF ProgressInv
<1>6. CASE DeleteBuilds
  <2>1. /\ UNCHANGED <<stored, iter, seen, current, i, before>>
        /\ phase = "loop" /\ phase' = "delete"
        /\ i >= NumResults \/ iter = {}
    BY <1>6 DEF DeleteBuilds, Call
  <2>2. i = NumResults \/ iter = {}
    BY <2>1, ExpireAssumption DEF ProgressInv
  <2> QED
    BY <1>1, <2>1, <2>2 DEF ProgressInv
<1>7. CASE BuildsDeleted
  <2>1. /\ UNCHANGED <<stored, iter, seen, current, i, before>>
        /\ phase = "delete" /\ phase' = "done"
    BY <1>7 DEF BuildsDeleted, deleteVars
  <2>2. \A b \in seen : BuildKey(b) \notin stored
    BY <1>7, <2>1 DEF BuildsDeleted, Inv, PhaseInv, DeleteInv, OkMeansAllDeleted
  <2>3. seen \cap StoredBuilds = {}
    BY <2>2 DEF StoredBuilds
  <2> QED
    BY <1>1, <2>1, <2>3 DEF ProgressInv
<1>8. CASE Start
  <2>1. /\ UNCHANGED stored /\ phase' = "loop"
        /\ iter' = OldestBuilds /\ seen' = {} /\ i' = 0 /\ before' = WithDetails
    BY <1>8 DEF Start, deleteVars
  <2>2. WithDetails \subseteq OldestBuilds \/ Cardinality(OldestBuilds) = Limit
    <3>1. StoredBuilds \subseteq Nat /\ Limit \in Nat
      BY ExpireAssumption DEF StoredBuilds
    <3>2. OldestBuilds = StoredBuilds \/ Cardinality(OldestBuilds) = Limit
      BY <3>1, LimitTakes DEF OldestBuilds
    <3> QED
      BY <3>2 DEF Inv, NoOrphans
  <2>3. Cardinality(WithDetails \ WithDetails) = 0
    BY FS_EmptySet
  <2>4. 0 \in 0..NumResults /\ WithDetails \subseteq Builds /\ OldestBuilds \cup {} = OldestBuilds
    BY ExpireAssumption DEF WithDetails
  <2> QED
    BY <1>1, <2>1, <2>2, <2>3, <2>4 DEF ProgressInv
<1>9. CASE Stop
  BY <1>9 DEF Stop, ProgressInv
<1>10. CASE UNCHANGED vars
  <2>1. UNCHANGED <<stored, phase, iter, seen, current, i, before>>
    BY <1>10 DEF vars, deleteVars, main
  <2> QED
    BY <1>1, <2>1 DEF ProgressInv
<1> QED
  BY <1>3, <1>4, <1>5, <1>6, <1>7, <1>8, <1>9, <1>10 DEF Main

\* So it always holds.
LEMMA ProgressInvariant == Spec => []ProgressInv
<1>1. Init => ProgressInv
  BY DEF Init, ProgressInv
<1>2. Inv /\ ProgressInv /\ [Next]_vars => ProgressInv'
  BY DeletingProgress, MainProgress DEF Next
<1> QED
  BY <1>1, <1>2, InductiveInvariant, PTL DEF Spec

\* A run of the command that ends well has removed the details of exactly as
\* many builds as it was told to, unless it has seen all that had any or as many
\* as its query returns; and none of the builds it has seen is left.  Runs that
\* were stopped before, and builds that they left empty, do not count
\* (main.go:92, :107).
THEOREM DoneIsExpired == Spec => []DoneMeansExpired
<1>1. ProgressInv => DoneMeansExpired
  BY DEF ProgressInv, DoneMeansExpired
<1> QED
  BY <1>1, ProgressInvariant, PTL

\* Every variable of the command and of DeleteMulti stays in its type; among
\* them, that the producer never hands over more than one chunk past the end of
\* the keys, and that main never counts past n.
THEOREM TypeCorrect == Spec => []TypeOK
<1>1. Init => TypeOK
  <2> SUFFICES ASSUME Init PROVE TypeOK
    OBVIOUS
  <2>1. Len(keys) = 0 /\ next = 0 /\ errors = 0 /\ i = 0 /\ runs = 0
    BY DEF Init, NoCall
  <2>2. DeleteTypeOK
    <3>1. next \in 0..(Len(keys) + MaxPerCall - 1)
      BY <2>1, NoneHandedOver
    <3>2. errors \in 0..MaxErrors
      BY <2>1, SizeAssumption
    <3> QED
      BY <3>1, <3>2 DEF Init, NoCall, DeleteTypeOK
  <2> QED
    BY <2>1, <2>2, ExpireAssumption DEF Init, TypeOK
<1>2. Inv /\ ProgressInv /\ TypeOK /\ [Next]_vars => TypeOK'
  <2> SUFFICES ASSUME Inv, ProgressInv, TypeOK, [Next]_vars PROVE TypeOK'
    OBVIOUS
  <2>1. ASSUME DeleteTypeOK', stored' \subseteq stored, UNCHANGED main PROVE TypeOK'
    BY <2>1 DEF TypeOK, main, DetailKeys, BuildKey
  <2>2. CASE Deleting /\ UNCHANGED main
    <3>1. DeleteTypeOK'
      BY <2>2, DeletingTypes DEF Inv, DeleteInv, TypeOK
    <3>2. stored' \subseteq stored
      BY <2>2, NextDeleteInv DEF Inv
    <3> QED
      BY <2>1, <2>2, <3>1, <3>2
  <2>3. ASSUME UNCHANGED deleteVars PROVE DeleteTypeOK' /\ UNCHANGED stored
    BY <2>3 DEF TypeOK, DeleteTypeOK, deleteVars, call
  <2>4. ASSUME NEW S, IsFiniteSet(S), Call(SetToSeq(S)) PROVE DeleteTypeOK' /\ UNCHANGED stored
    BY <2>4, AllKeysPassed, NoneHandedOver DEF Call, TypeOK, DeleteTypeOK
  <2> USE DEF TypeOK, DetailKeys, BuildKey
  <2>5. CASE SkipEmptyBuild
    BY <2>3, <2>5, IterNextSeen DEF SkipEmptyBuild
  <2>6. CASE RemoveDetails
    <3>1. DeleteTypeOK' /\ UNCHANGED stored
      BY <2>4, <2>6, IterNextSeen, FiniteDetails DEF RemoveDetails
    <3> QED
      BY <2>6, <3>1, IterNextSeen DEF RemoveDetails
  <2>7. CASE DetailsRemoved
    <3>1. i + 1 \in 0..NumResults
      BY <2>7, ExpireAssumption DEF DetailsRemoved, ProgressInv
    <3> QED
      BY <2>3, <2>7, <3>1 DEF DetailsRemoved
  <2>8. CASE DeleteBuilds
    <3>1. IsFiniteSet({BuildKey(b) : b \in seen})
      BY FiniteBuildKeys DEF Inv, PhaseInv
    <3>2. DeleteTypeOK' /\ UNCHANGED stored
      BY <2>4, <2>8, <3>1 DEF DeleteBuilds
    <3> QED
      BY <2>8, <3>2 DEF DeleteBuilds
  <2>9. CASE BuildsDeleted
    BY <2>3, <2>9 DEF BuildsDeleted
  <2>10. CASE Start
    BY <2>3, <2>10, ExpireAssumption DEF Start, OldestBuilds, StoredBuilds, WithDetails
  <2>11. CASE Stop
    <3>1. DeleteTypeOK' /\ UNCHANGED stored
      <4>1. Len(<<>>) = 0
        OBVIOUS
      <4> QED
        BY <2>11, <4>1, NoneHandedOver DEF Stop, Abandon, DeleteTypeOK
    <3> QED
      BY <2>11, <3>1 DEF Stop
  <2>12. CASE UNCHANGED vars
    BY <2>1, <2>3, <2>12 DEF vars
  <2> QED
    BY <2>2, <2>5, <2>6, <2>7, <2>8, <2>9, <2>10, <2>11, <2>12 DEF Next, Main
<1> QED
  BY <1>1, <1>2, InductiveInvariant, ProgressInvariant, PTL DEF Spec
=============================================================================
