------------------------------- MODULE JsonApi -------------------------------
(***************************************************************************)
(* The JSON endpoints of src/json/json.go and the cache in front of them:  *)
(* a map under one mutex, filled by the requests that miss.  A request     *)
(* reads the database between its lookup and its fill without the mutex,   *)
(* so fills race; a hit writes to its client while it holds the mutex.     *)
(*                                                                         *)
(* The database is a version number, which every commit of an ingest       *)
(* increments; an answer is the question it was computed for and the       *)
(* version that was read.  Time passes in ticks.                           *)
(***************************************************************************)
EXTENDS Integers, Sequences, SequencesExt

CONSTANTS
    Requests,          \* concurrent requests
    Urls,              \* what may be asked: [path, form]
    Nobody,            \* the mutex is free; a key has no entry; no URL
    CacheExpiration,   \* ticks until an entry is too old
    FillTime,          \* ticks from a database read to its fill: assumed
    MaxVersion,        \* bound: commits of the database
    MaxTime            \* bound: ticks

\* Strings that the code puts together are sequences here.  A decoded path is
\* cut at each "/" and "?", which are elements of their own; a form, without the
\* parameter "_" and encoded in a canonical order, is one element or none.  The
\* encoding leaves no "?" in it.
ASSUME UrlAssumption ==
    \A u \in Urls :
        /\ u \in [path : Seq(STRING), form : Seq(STRING)]
        /\ \A i \in DOMAIN u.form : u.form[i] # "?"

ASSUME TimeAssumption ==
    CacheExpiration \in Nat /\ FillTime \in Nat /\ MaxVersion \in Nat /\ MaxTime \in Nat

\* strings.TrimSuffix(path, "/")
TrimSlash(path) ==
    IF path # <<>> /\ path[Len(path)] = "/" THEN SubSeq(path, 1, Len(path) - 1) ELSE path

KeyWithoutForm(u) == TrimSlash(u.path)

\* One string: a path that ends in an (encoded) "?" and another URL's form makes
\* the same key as that URL.
CacheKey(u) == TrimSlash(u.path) \o (IF u.form = <<>> THEN <<>> ELSE <<"?">> \o u.form)

\* What dispatch makes of a request: the endpoint's name and its parameters, of
\* which a trailing slash adds one that is empty, and the form.
Question(u) == [path |-> u.path, form |-> u.form]

Keys == {CacheKey(u) : u \in Urls}
Questions == {Question(u) : u \in Urls}
Versions == 0..MaxVersion

VARIABLES
    now,          \* the clock
    version,      \* the database's version
    superseded,   \* when each older version stopped being the current one
    cache,        \* key -> entry, or Nobody
    mu,           \* the request that holds the mutex while it writes
    pc,           \* where each request is
    url,          \* what it asks, or Nobody
    answer,       \* what it has read or is given
    readAt        \* when it read the database, until its fill

clock == <<now, version, superseded>>
vars == <<clock, cache, mu, pc, url, answer, readAt>>

NoAnswer == [question |-> Nobody, version |-> 0]
Answers == [question : Questions \cup {Nobody}, version : Versions]
Entries == [value : Answers, timestamp : 0..MaxTime]
Stages == {"idle", "lookup", "hit", "query", "fill", "write"}

Init ==
    /\ now = 0 /\ version = 0
    /\ superseded = [v \in Versions |-> 0]
    /\ cache = [k \in Keys |-> Nobody]
    /\ mu = Nobody
    /\ pc = [r \in Requests |-> "idle"]
    /\ url = [r \in Requests |-> Nobody]
    /\ answer = [r \in Requests |-> NoAnswer]
    /\ readAt = [r \in Requests |-> 0]

Goto(r, stage) == pc' = [pc EXCEPT ![r] = stage]
Key(r) == CacheKey(url[r])

\* With the handler, what it has read is gone.
Return(r) ==
    /\ Goto(r, "idle")
    /\ url' = [url EXCEPT ![r] = Nobody]
    /\ answer' = [answer EXCEPT ![r] = NoAnswer]

Receive(r) ==
    /\ pc[r] = "idle"
    /\ \E u \in Urls : url' = [url EXCEPT ![r] = u]
    /\ Goto(r, "lookup")
    /\ UNCHANGED <<clock, cache, mu, answer, readAt>>

-----------------------------------------------------------------------------
(* CacheGet.                                                               *)

Expired(entry) == now - entry.timestamp > CacheExpiration

Miss(r) ==
    /\ pc[r] = "lookup" /\ mu = Nobody
    /\ cache[Key(r)] = Nobody
    /\ Goto(r, "query")
    /\ UNCHANGED <<clock, cache, mu, url, answer, readAt>>

Expire(r) ==
    /\ pc[r] = "lookup" /\ mu = Nobody
    /\ cache[Key(r)] # Nobody /\ Expired(cache[Key(r)])
    /\ cache' = [cache EXCEPT ![Key(r)] = Nobody]
    /\ Goto(r, "query")
    /\ UNCHANGED <<clock, mu, url, answer, readAt>>

\* A cache that counts its expiration from the last use.
HitKeepsAlive(r) ==
    /\ pc[r] = "lookup" /\ mu = Nobody
    /\ cache[Key(r)] # Nobody /\ ~Expired(cache[Key(r)])
    /\ answer' = [answer EXCEPT ![r] = cache[Key(r)].value]
    /\ cache' = [cache EXCEPT ![Key(r)].timestamp = now]
    /\ mu' = r
    /\ Goto(r, "hit")
    /\ UNCHANGED <<clock, url, readAt>>

\* The entry is written to the client under the mutex (deferred Unlock).
Hit(r) ==
    /\ pc[r] = "lookup" /\ mu = Nobody
    /\ cache[Key(r)] # Nobody /\ ~Expired(cache[Key(r)])
    /\ answer' = [answer EXCEPT ![r] = cache[Key(r)].value]
    /\ mu' = r
    /\ Goto(r, "hit")
    /\ UNCHANGED <<clock, cache, url, readAt>>

\* A reader that goes before the Unlock would leave the mutex locked.
HitWrittenStillLocked(r) ==
    /\ pc[r] = "hit"
    /\ Return(r)
    /\ UNCHANGED <<clock, cache, mu, readAt>>

HitWritten(r) ==
    /\ pc[r] = "hit"
    /\ mu' = Nobody
    /\ Return(r)
    /\ UNCHANGED <<clock, cache, readAt>>

CacheGet(r) == Miss(r) \/ Expire(r) \/ Hit(r)

-----------------------------------------------------------------------------
(* dispatch and CacheAndWrite.                                             *)

Query(r) ==
    /\ pc[r] = "query"
    /\ answer' = [answer EXCEPT ![r] = [question |-> Question(url[r]), version |-> version]]
    /\ readAt' = [readAt EXCEPT ![r] = now]
    /\ Goto(r, "fill")
    /\ UNCHANGED <<clock, cache, mu, url>>

\* An endpoint that returns an error is not cached.
QueryFails(r) ==
    /\ pc[r] = "query"
    /\ Return(r)
    /\ UNCHANGED <<clock, cache, mu, readAt>>

FillUnstamped(r) ==
    /\ pc[r] = "fill" /\ mu = Nobody
    /\ cache' = [cache EXCEPT ![Key(r)] = [value |-> answer[r], timestamp |-> Nobody]]
    /\ readAt' = [readAt EXCEPT ![r] = 0]
    /\ Goto(r, "write")
    /\ UNCHANGED <<clock, mu, url, answer>>

Fill(r) ==
    /\ pc[r] = "fill" /\ mu = Nobody
    /\ cache' = [cache EXCEPT ![Key(r)] = [value |-> answer[r], timestamp |-> now]]
    /\ readAt' = [readAt EXCEPT ![r] = 0]
    /\ Goto(r, "write")
    /\ UNCHANGED <<clock, mu, url, answer>>

Written(r) ==
    /\ pc[r] = "write"
    /\ Return(r)
    /\ UNCHANGED <<clock, cache, mu, readAt>>

-----------------------------------------------------------------------------
\* An ingest commits.
Change ==
    /\ version < MaxVersion
    /\ version' = version + 1
    /\ superseded' = [superseded EXCEPT ![version] = now]
    /\ UNCHANGED <<now, cache, mu, pc, url, answer, readAt>>

\* Nothing in the code bounds the time from a read to its fill, which may have
\* to wait for the mutex; it is an assumption of the staleness bound.
Tick ==
    /\ now < MaxTime
    /\ \A r \in Requests : pc[r] = "fill" => now - readAt[r] < FillTime
    /\ now' = now + 1
    /\ UNCHANGED <<version, superseded, cache, mu, pc, url, answer, readAt>>

Serve(r) == CacheGet(r) \/ Query(r) \/ QueryFails(r) \/ Fill(r)
WriteOut(r) == HitWritten(r) \/ Written(r)

Next ==
    \/ \E r \in Requests : Receive(r) \/ Serve(r) \/ WriteOut(r)
    \/ Change \/ Tick

\* A goroutine that waits for a sync.Mutex gets it in the end, however often
\* others do (the starvation mode of the mutex).  Clients may never read.
Spec ==
    /\ Init /\ [][Next]_vars
    /\ \A r \in Requests : SF_vars(Serve(r))

-----------------------------------------------------------------------------
TypeOK ==
    /\ now \in 0..MaxTime /\ version \in Versions
    /\ superseded \in [Versions -> 0..MaxTime]
    /\ cache \in [Keys -> Entries \cup {Nobody}]
    /\ mu \in Requests \cup {Nobody}
    /\ pc \in [Requests -> Stages]
    /\ url \in [Requests -> Urls \cup {Nobody}]
    /\ \A r \in Requests : pc[r] # "idle" => url[r] \in Urls
    /\ answer \in [Requests -> Answers]
    /\ readAt \in [Requests -> 0..MaxTime]

\* However fills and commits race, what a lookup finds in the cache and may
\* serve was still true of the database CacheExpiration + FillTime ago.
BoundedStaleness ==
    \A k \in Keys :
        cache[k] # Nobody /\ ~Expired(cache[k]) /\ cache[k].value.version < version =>
            now - superseded[cache[k].value.version] <= CacheExpiration + FillTime

SameButForSlash(q, u) == TrimSlash(q.path) = TrimSlash(u.path) /\ q.form = u.form
QueryInPath(u) == \E i \in DOMAIN u.path : u.path[i] = "?"

\* Although all questions share one map, whose keys are put together from path
\* and form, a request is only given an answer that was computed for its own
\* question but for one trailing slash: never for other parameters or another
\* search term.  The exception are paths with an encoded "?" in them: these do
\* share keys with questions that have a form.
AnswersMatch ==
    \A r \in Requests : answer[r] # NoAnswer =>
        \/ SameButForSlash(answer[r].question, url[r])
        \/ QueryInPath(answer[r].question) \/ QueryInPath(url[r])

\* If all clients read what they are sent, every request is answered: no
\* request waits for the mutex for good.
AnsweredIfClientsRead ==
    (\A r \in Requests : WF_vars(WriteOut(r)))
        => \A r \in Requests : pc[r] = "lookup" ~> pc[r] = "idle"
=============================================================================
