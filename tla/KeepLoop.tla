------------------------------ MODULE KeepLoop ------------------------------
(***************************************************************************)
(* A loop of the Go code that goes through a list and appends some of its  *)
(* elements, one after the other, to a list of its own: PkgsFromReport of  *)
(* src/bulk/bulk.go keeps the dependencies of a package that have failed,  *)
(* API.PkgResults of src/json/json.go the first row of each kind of build. *)
(***************************************************************************)
EXTENDS Integers, Sequences

\* f[n] is the list after n rounds; the rounds in P append their element.
KeepAt(s, P) ==
    LET f[n \in 0..Len(s)] ==
            IF n = 0 THEN <<>>
            ELSE IF n \in P THEN Append(f[n - 1], s[n]) ELSE f[n - 1]
    IN f[Len(s)]

\* The rounds whose element is a key of the map of the failed packages.
Keep(deps, S) == KeepAt(deps, {n \in DOMAIN deps : deps[n] \in S})

\* The rounds whose element is of a kind that no round before has seen.
FirstOfKind(list, kindOf) ==
    KeepAt(list, {n \in DOMAIN list :
                    kindOf[list[n]] \notin {kindOf[list[m]] : m \in 1..(n - 1)}})

\* Said without the loop: t lists the elements of s that are in S, each as often
\* as s has it and in the order of s.
IsSelection(t, s, S) ==
    \E at \in [DOMAIN t -> DOMAIN s] :
        /\ \A k, l \in DOMAIN t : k < l => at[k] < at[l]
        /\ \A k \in DOMAIN t : t[k] = s[at[k]]
        /\ {at[k] : k \in DOMAIN t} = {k \in DOMAIN s : s[k] \in S}
=============================================================================
