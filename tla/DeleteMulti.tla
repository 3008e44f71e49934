----------------------------- MODULE DeleteMulti -----------------------------
(***************************************************************************)
(* DeleteMulti of src/expireold/dsbatch.go: the keys go in chunks through  *)
(* an unbuffered channel to a fixed number of workers; a worker deletes a  *)
(* chunk in one datastore transaction and returns at its first error,      *)
(* which also cancels the context that the transactions of all workers     *)
(* run under (errgroup).  ExpireOld calls it.                              *)
(***************************************************************************)
EXTENDS Integers, Sequences, FiniteSets, SequencesExt

CONSTANTS Workers,      \* numParallel of them
          MaxPerCall,   \* keys per chunk
          MaxErrors     \* bound: transactions that the datastore aborts

ASSUME SizeAssumption == MaxPerCall \in Nat \ {0} /\ MaxErrors \in Nat

VARIABLES
    stored,     \* the entities in the datastore, by key
    keys,       \* the argument of the call
    next,       \* n of the producer's loop: the keys handed over
    closed,     \* the channel is closed
    worker,     \* what each worker does
    chunk,      \* the keys each worker holds
    failed,     \* the group's error is set, its context is cancelled
    errors,     \* transactions the datastore has aborted
    result      \* of the call: none, running, ok or error

call == <<keys, next, closed, worker, chunk, failed, result>>
deleteVars == <<stored, call, errors>>

NoCall ==
    /\ keys = <<>> /\ next = 0 /\ closed = FALSE /\ failed = FALSE
    /\ worker = [w \in Workers |-> "done"] /\ chunk = [w \in Workers |-> {}]
    /\ result = "none"

Call(s) ==
    /\ keys' = s /\ next' = 0 /\ closed' = FALSE /\ failed' = FALSE
    /\ worker' = [w \in Workers |-> "receive"] /\ chunk' = [w \in Workers |-> {}]
    /\ result' = "running"
    /\ UNCHANGED <<stored, errors>>

\* The process is gone.
Abandon ==
    /\ keys' = <<>> /\ next' = 0 /\ closed' = FALSE /\ failed' = FALSE
    /\ worker' = [w \in Workers |-> "done"] /\ chunk' = [w \in Workers |-> {}]
    /\ result' = "none"
    /\ UNCHANGED <<stored, errors>>

\* keys[n:m], where m is cut off at the number of keys.
Chunk(n) == {keys[k] : k \in {k \in DOMAIN keys : n < k /\ k <= n + MaxPerCall}}

\* ch <- k: needs a worker that receives.  Its transaction cannot begin once the
\* context is cancelled.
Send(w) ==
    /\ result = "running" /\ next < Len(keys)
    /\ worker[w] = "receive"
    /\ worker' = [worker EXCEPT ![w] = IF failed THEN "cancelled" ELSE "delete"]
    /\ chunk' = [chunk EXCEPT ![w] = Chunk(next)]
    /\ next' = next + MaxPerCall
    /\ UNCHANGED <<stored, keys, closed, failed, errors, result>>

NeverClose == FALSE /\ UNCHANGED deleteVars

Close ==
    /\ result = "running" /\ next >= Len(keys) /\ ~closed
    /\ closed' = TRUE
    /\ UNCHANGED <<stored, keys, next, worker, chunk, failed, errors, result>>

\* A transaction that had begun may still succeed when another one has failed.
Delete(w) ==
    /\ worker[w] = "delete"
    /\ stored' = stored \ chunk[w]
    /\ chunk' = [chunk EXCEPT ![w] = {}]
    /\ worker' = [worker EXCEPT ![w] = "receive"]
    /\ UNCHANGED <<keys, next, closed, failed, errors, result>>

\* The transaction is aborted, its context is cancelled, or the answer to its
\* commit is lost, after which it may have been applied or not.
TransactionFails(w) ==
    \/ /\ worker[w] = "cancelled"
       /\ UNCHANGED <<stored, errors>>
    \/ /\ worker[w] = "delete" /\ (failed \/ errors < MaxErrors)
       /\ errors' = IF failed THEN errors ELSE errors + 1
       /\ stored' \in {stored, stored \ chunk[w]}

\* The worker goes on with the next chunk after an error.
DropChunk(w) ==
    /\ TransactionFails(w)
    /\ chunk' = [chunk EXCEPT ![w] = {}]
    /\ worker' = [worker EXCEPT ![w] = "receive"]
    /\ UNCHANGED <<keys, next, closed, failed, result>>

DeleteFails(w) ==
    /\ TransactionFails(w)
    /\ failed' = TRUE
    /\ worker' = [worker EXCEPT ![w] = "done"]
    /\ UNCHANGED <<keys, next, closed, chunk, result>>

\* The range over the channel ends.
Finish(w) ==
    /\ worker[w] = "receive" /\ closed
    /\ worker' = [worker EXCEPT ![w] = "done"]
    /\ UNCHANGED <<stored, keys, next, closed, chunk, failed, errors, result>>

\* group.Wait().
Return ==
    /\ result = "running" /\ closed
    /\ \A w \in Workers : worker[w] = "done"
    /\ result' = IF failed THEN "error" ELSE "ok"
    /\ UNCHANGED <<stored, keys, next, closed, worker, chunk, failed, errors>>

Deleting ==
    \/ \E w \in Workers : Send(w) \/ Delete(w) \/ DeleteFails(w) \/ Finish(w)
    \/ Close \/ Return

-----------------------------------------------------------------------------
DeleteTypeOK ==
    /\ next \in 0..(Len(keys) + MaxPerCall - 1) /\ closed \in BOOLEAN
    /\ worker \in [Workers -> {"receive", "delete", "cancelled", "done"}]
    /\ DOMAIN chunk = Workers
    /\ failed \in BOOLEAN /\ errors \in 0..MaxErrors
    /\ result \in {"none", "running", "ok", "error"}

\* If DeleteMulti says that all went well, every key is deleted: whatever the
\* size of the last chunk, and whichever worker got which chunk.
OkMeansAllDeleted == result = "ok" => ToSet(keys) \cap stored = {}

WorkersSuffice ==
    Len(keys) - next <= MaxPerCall * Cardinality({w \in Workers : worker[w] = "receive"})

\* A call returns, unless a transaction has failed and there are more chunks to
\* come than workers that are left: each cancelled transaction takes one worker
\* away, and the producer then waits at the channel for good.
ReturnsIfWorkersSuffice ==
    (result = "running") ~> (result # "running" \/ (failed /\ ~WorkersSuffice))
=============================================================================
