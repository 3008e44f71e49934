----------------------------- MODULE ExpireOld -----------------------------
(***************************************************************************)
(* The command src/expireold/main.go: it goes through the builds in the    *)
(* datastore, oldest first, removes their details (the pkg entities below  *)
(* a build) until it has done so for n builds, and deletes the builds it   *)
(* has seen, with DeleteMulti for both.  It stops at the first error, or   *)
(* when it is interrupted, and may be run again.                           *)
(***************************************************************************)
EXTENDS DeleteMulti, FiniteSetsExt

CONSTANTS Builds,       \* the builds at first: numbers in the order of Timestamp
          NumDetails,   \* how many details each has
          NumResults,   \* the flag -n
          Limit,        \* the LIMIT of OldestBuilds, 1000
          MaxRuns       \* bound: times the command is started

ASSUME ExpireAssumption ==
    /\ Builds \subseteq Nat \ {0} /\ NumDetails \in [Builds -> Nat]
    /\ NumResults \in Nat /\ Limit \in Nat /\ MaxRuns \in Nat

VARIABLES phase,        \* where main is
          iter,         \* what the iterator is still going to return
          seen,         \* the builds it has returned: keys of the code
          current,      \* the last of them
          i,            \* builds whose details were removed
          runs,         \* starts of the command
          before        \* history: the builds with details when it was started

main == <<phase, iter, seen, current, i, runs, before>>
vars == <<deleteVars, main>>

\* An entity's key has its ancestor's: a detail is <<build, number>>.
BuildKey(b) == <<b>>
DetailKeys(b) == {<<b, d>> : d \in 1..NumDetails[b]}
StoredDetails(b) == DetailKeys(b) \cap stored
WithDetails == {b \in Builds : StoredDetails(b) # {}}
StoredBuilds == {b \in Builds : BuildKey(b) \in stored}

Init ==
    /\ NoCall /\ errors = 0
    /\ stored = UNION {DetailKeys(b) \cup {BuildKey(b)} : b \in Builds}
    /\ phase = "stopped" /\ runs = 0
    /\ iter = {} /\ seen = {} /\ current = 0 /\ i = 0 /\ before = {}

\* The query is ordered by Timestamp.
Oldest(S) == Min(S)

OldestBuilds == {b \in StoredBuilds : Cardinality({c \in StoredBuilds : c < b}) < Limit}

Start ==
    /\ phase \in {"stopped", "done"} /\ runs < MaxRuns
    /\ runs' = runs + 1
    /\ phase' = "loop"
    /\ iter' = OldestBuilds /\ seen' = {} /\ i' = 0
    /\ before' = WithDetails
    /\ UNCHANGED <<deleteVars, current>>

\* An off-by-one in the condition of the loop.
IterNextOneMore ==
    /\ phase = "loop" /\ i <= NumResults /\ iter # {}
    /\ current' = Oldest(iter)
    /\ iter' = iter \ {current'} /\ seen' = seen \cup {current'}

IterNext ==
    /\ phase = "loop" /\ i < NumResults /\ iter # {}
    /\ current' = Oldest(iter)
    /\ iter' = iter \ {current'} /\ seen' = seen \cup {current'}

\* ErrNoDetails, if it counted.
CountEmptyBuild ==
    /\ IterNext
    /\ StoredDetails(current') = {}
    /\ i' = i + 1
    /\ UNCHANGED <<deleteVars, phase, runs, before>>

\* RemoveDetails returns ErrNoDetails: the loop continues without counting.
SkipEmptyBuild ==
    /\ IterNext
    /\ StoredDetails(current') = {}
    /\ UNCHANGED <<deleteVars, phase, i, runs, before>>

RemoveDetails ==
    /\ IterNext
    /\ StoredDetails(current') # {}
    /\ Call(SetToSeq(StoredDetails(current')))
    /\ phase' = "remove"
    /\ UNCHANGED <<i, runs, before>>

\* A loop that goes on to the next build after an error.
DetailsRemovedOrNot ==
    /\ phase = "remove" /\ result \in {"ok", "error"}
    /\ phase' = "loop" /\ i' = i + 1
    /\ UNCHANGED <<deleteVars, iter, seen, current, runs, before>>

DetailsRemoved ==
    /\ phase = "remove" /\ result = "ok"
    /\ phase' = "loop" /\ i' = i + 1
    /\ UNCHANGED <<deleteVars, iter, seen, current, runs, before>>

DeleteBuilds ==
    /\ phase = "loop" /\ (i >= NumResults \/ iter = {})
    /\ Call(SetToSeq({BuildKey(b) : b \in seen}))
    /\ phase' = "delete"
    /\ UNCHANGED <<iter, seen, current, i, runs, before>>

BuildsDeleted ==
    /\ phase = "delete" /\ result = "ok"
    /\ phase' = "done"
    /\ UNCHANGED <<deleteVars, iter, seen, current, i, runs, before>>

\* log.Fatal after an error of DeleteMulti or of a query, or an interrupt.
Stop ==
    /\ phase \in {"loop", "remove", "delete"}
    /\ Abandon
    /\ phase' = "stopped"
    /\ UNCHANGED <<iter, seen, current, i, runs, before>>

Main == SkipEmptyBuild \/ RemoveDetails \/ DetailsRemoved \/ DeleteBuilds \/ BuildsDeleted

Next == (Deleting /\ UNCHANGED main) \/ Main \/ Start \/ Stop

\* All of it are goroutines of one process, and the datastore answers.  Nobody
\* has to start the command or to interrupt it.
Spec == Init /\ [][Next]_vars /\ WF_vars(Deleting /\ UNCHANGED main)

-----------------------------------------------------------------------------
TypeOK ==
    /\ DeleteTypeOK
    /\ stored \subseteq UNION {DetailKeys(b) \cup {BuildKey(b)} : b \in Builds}
    /\ phase \in {"stopped", "loop", "remove", "delete", "done"}
    /\ iter \subseteq Builds /\ seen \subseteq Builds /\ current \in Builds \cup {0}
    /\ i \in 0..NumResults /\ runs \in 0..MaxRuns /\ before \subseteq Builds

\* Wherever the command stops, no details are left below a build that is gone:
\* no later run would find them.
NoOrphans == WithDetails \subseteq StoredBuilds

\* A run that ends well has removed the details of n builds, or of all that it
\* could see, whatever earlier runs have left behind; and its builds are gone.
DoneMeansExpired ==
    phase = "done" =>
        /\ seen \cap StoredBuilds = {}
        /\ Cardinality(before \ WithDetails) = i
        /\ i = NumResults \/ before \subseteq seen \/ Cardinality(seen) = Limit
=============================================================================
