------------------------------- MODULE MCSite -------------------------------
(* Reports that share a package and a category, a category within another   *)
(* one, whose name is also a package's, packages with a "+" or a dot in     *)
(* their names, and records that have no category or the name of one of     *)
(* the site's own pages as their category.                                  *)
EXTENDS Site

CONSTANTS first, second, odd

At(c, d) == [path |-> [category |-> c, dir |-> d], rec |-> d]

Plainly == <<At(<<"devel">>, "gtk+"), At(<<"wip">>, "sub")>>
Nested == <<At(<<"devel">>, "gtk+"), At(<<"devel">>, "py.test"), At(<<"wip", "sub">>, "gtk+")>>

MCContents ==
    [m \in {first, second, odd} |->
        CASE m = first -> {Plainly}
          [] m = second -> {Nested}
          [] m = odd -> {<<At(<<>>, "")>>, <<At(<<"build">>, "gtk+")>>, <<At(<<>>, "gtk+")>>}]
=============================================================================
