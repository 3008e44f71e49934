------------------------------ MODULE MCIngest ------------------------------
(* Finite instances of Ingest. *)
EXTENDS Ingest, TLC

CONSTANTS h1, h2, p1, mailA, mailB, junk, garbled, urlA, urlB,
          gettext, perl, old, new, broken

It(path, rec) == [path |-> path, rec |-> rec]

\* Two reports that share a package, so that their transactions meet in pkgs.
\* A URL may also serve an error page, which parses as a report of nothing.
ReportA == <<It(gettext, old), It(perl, broken)>>
ReportB == <<It(perl, new)>>

MCClass ==
    [m \in Mails |-> IF m = junk THEN "ignored"
                     ELSE IF m = garbled THEN "unreadable" ELSE "report"]
MCUrl == [m \in Mails |-> IF m = mailB THEN urlB ELSE urlA]
MCReports ==
    [u \in {MCUrl[m] : m \in Mails} |->
        IF u = urlA THEN {ReportA, <<>>} ELSE {ReportB}]

\* Handlers that do the same are interchangeable; there is no liveness to check
\* in the runs that use this.
HandlerSymmetry == Permutations(Handlers)
=============================================================================
