------------------------------ MODULE BuildLog ------------------------------
(***************************************************************************)
(* What the ingest side of BulkTracker promises to everything that reads   *)
(* the database: an append-only log of bulk builds.  A build is announced  *)
(* once per entry, with no package results; later, at most once, the whole *)
(* contents of one report found at its URL appears under it, in one step;  *)
(* after that the entry never changes.  Ingest implements this module.     *)
(***************************************************************************)
EXTENDS Integers, Sequences

CONSTANTS Announcements,   \* the report mails
          Contents         \* for each mail, the reports its URL may serve

VARIABLE log

Entry(m, rows) == [mail |-> m, rows |-> rows]

Init == log = <<>>

Announce(m) == log' = Append(log, Entry(m, <<>>))

Publish(i, rows) ==
    /\ log[i].rows = <<>>
    /\ rows \in Contents[log[i].mail]
    /\ log' = [log EXCEPT ![i] = Entry(log[i].mail, rows)]

Next ==
    \/ \E m \in Announcements : Announce(m)
    \/ \E i \in DOMAIN log : \E rows \in Contents[log[i].mail] : Publish(i, rows)

Spec == Init /\ [][Next]_log
=============================================================================
