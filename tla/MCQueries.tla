----------------------------- MODULE MCQueries ------------------------------
(* Three packages; the name of p is part of the name of q, as perl is part  *)
(* of the name of p5-perl-ldap, and q and r are built from one directory,   *)
(* as the flavours of a package for several Python versions are.  The       *)
(* dependencies that matter are those of a package that was not built       *)
(* because of them; the table of builds outgrows the limit of the queries.  *)
EXTENDS Queries, TLC

CONSTANTS p, q, r

MCNames == {p, q, r}
MCLikeIn == {<<n, n>> : n \in MCNames} \cup {<<p, q>>}
MCPathOf == [n \in MCNames |-> IF n = p THEN 1 ELSE 2]

Record(n, statuses, depends) == [name : {n}, status : statuses, depends : depends]

OfP == Record(p, {Status.done, Status.prefailed, Status.failed}, {<<>>})
OfQ == Record(q, {Status.done, Status.failed}, {<<>>})
           \cup Record(q, {Status.indirect_failed}, {<<p>>})
OfR == Record(r, {Status.done}, {<<>>})
           \cup Record(r, {Status.indirect_prefailed}, {<<q>>, <<p, q>>})

MCRawReports == {<<a, b, c>> : a \in OfP, b \in OfQ, c \in OfR} \cup {<<c>> : c \in OfR}

Symmetry == Permutations(Kinds)
=============================================================================
