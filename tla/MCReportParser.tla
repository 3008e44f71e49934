--------------------------- MODULE MCReportParser ---------------------------
(* Finite instances of ReportParser. *)
EXTENDS ReportParser, SequencesExt

CONSTANTS MaxRecords, foo, bar, here

L(key, val) == [key |-> key, val |-> val]

\* A record: its name, then possibly a status and dependencies.
Block(name, word, deps) ==
    <<L("PKGNAME", name)>>
    \o (IF word = "none" THEN <<L("other", NoPath)>> ELSE <<L("BUILD_STATUS", word)>>)
    \o (IF deps = <<>> THEN <<>> ELSE <<L("DEPENDS", deps)>>)

MCWords == {"indirect-prefailed", "done", "failed", "prefailed", "indirect-failed", "open"}

Blocks ==
    {Block(foo, word, <<>>) : word \in {"done", "failed", "none"}} \cup
    {Block(bar, word, <<>>) : word \in {"prefailed", "open"}} \cup
    {Block(n, "indirect-failed", deps) :
        n \in {foo, bar}, deps \in {<<foo>>, <<bar, foo>>, <<foo, foo>>}} \cup
    {Block(foo, "done", <<bar>>)}

\* Every sequence of up to MaxRecords of them: dependencies before and after
\* the package they name, on itself, twice, and names that occur twice.
BlockReports ==
    {FlattenSeq(s) : s \in UNION {[1..n -> Blocks] : n \in 0..MaxRecords}}

\* Any lines in any order, with locations, fields that come twice, and fields
\* that belong to no record.
FreeLines ==
    {L("PKGNAME", foo), L("PKGNAME", bar), L("PKG_LOCATION", here),
     L("BUILD_STATUS", "failed"), L("BUILD_STATUS", "indirect-prefailed"), L("DEPENDS", <<foo>>)}
FreeReports == UNION {[1..n -> FreeLines] : n \in 0..4}

MCInputs == BlockReports \cup FreeReports
=============================================================================
