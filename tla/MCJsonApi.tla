----------------------------- MODULE MCJsonApi -----------------------------
(* Finite instances of JsonApi. *)
EXTENDS JsonApi, TLC

CONSTANTS r1, r2

\* Two searches under one path, with and without a trailing slash, and a path
\* with an encoded "?" that looks like one of them.  (The endpoint takes no
\* notice of its parameters.)
Search == <<"autocomplete", "/", "all">>
MCUrls ==
    {[path |-> Search \o <<"/">>, form |-> <<"term=perl">>],
     [path |-> Search, form |-> <<"term=perl">>],
     [path |-> Search, form |-> <<"term=python">>],
     [path |-> Search \o <<"?", "term=perl">>, form |-> <<>>]}
=============================================================================
