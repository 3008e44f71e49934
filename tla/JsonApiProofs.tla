--------------------------- MODULE JsonApiProofs ---------------------------
(***************************************************************************)
(* Theorems about JsonApi, for any requests, URLs and times.               *)
(***************************************************************************)
EXTENDS JsonApi, TLAPS

-----------------------------------------------------------------------------
(* Types.                                                                  *)

\* What one finds of a request in the cache is a key, and what it asks a
\* question.
LEMMA KeyTypes ==
    ASSUME NEW u \in Urls
    PROVE  CacheKey(u) \in Keys /\ Question(u) \in Questions
BY DEF Keys, Questions

\* Every variable stays in its type (the variables of API.ServeHTTP and the map
\* of json/json.go:61).
THEOREM TypeCorrect == Spec => []TypeOK
<1>1. Init => TypeOK
  BY TimeAssumption DEF Init, TypeOK, Versions, Stages, Answers, NoAnswer
<1>2. TypeOK /\ [Next]_vars => TypeOK'
  <2> SUFFICES ASSUME TypeOK, [Next]_vars PROVE TypeOK'
    OBVIOUS
  <2> USE DEF TypeOK, Goto, Stages
  <2>1. ASSUME NEW r \in Requests, Receive(r) PROVE TypeOK'
    BY <2>1 DEF Receive, clock
  <2>2. ASSUME NEW r \in Requests, CacheGet(r) PROVE TypeOK'
    <3>1. Key(r) \in Keys
      BY <2>2, KeyTypes DEF Key, CacheGet, Miss, Expire, Hit
    <3>2. CASE Miss(r)
      BY <3>2 DEF Miss, clock
    <3>3. CASE Expire(r)
      BY <3>1, <3>3 DEF Expire, clock
    <3>4. CASE Hit(r)
      BY <3>1, <3>4 DEF Hit, clock, Entries
    <3> QED
      BY <2>2, <3>2, <3>3, <3>4 DEF CacheGet
  <2>3. ASSUME NEW r \in Requests, Query(r) PROVE TypeOK'
    <3>1. [question |-> Question(url[r]), version |-> version] \in Answers
      BY <2>3, KeyTypes DEF Query, Answers
    <3> QED
      BY <2>3, <3>1 DEF Query, clock
  <2>4. ASSUME NEW r \in Requests, QueryFails(r) \/ HitWritten(r) \/ Written(r) PROVE TypeOK'
    <3>1. NoAnswer \in Answers
      BY TimeAssumption DEF NoAnswer, Answers, Versions
    <3> QED
      BY <2>4, <3>1 DEF QueryFails, HitWritten, Written, Return, clock
  <2>5. ASSUME NEW r \in Requests, Fill(r) PROVE TypeOK'
    <3>1. Key(r) \in Keys
      BY <2>5, KeyTypes DEF Key, Fill
    <3>2. [value |-> answer[r], timestamp |-> now] \in Entries
      BY DEF Entries
    <3> QED
      BY <2>5, <3>1, <3>2, TimeAssumption DEF Fill, clock
  <2>6. CASE Change
    BY <2>6, TimeAssumption DEF Change, Versions
  <2>7. CASE Tick
    BY <2>7, TimeAssumption DEF Tick
  <2>8. CASE UNCHANGED vars
    BY <2>8 DEF vars, clock
  <2> QED
    BY <2>1, <2>2, <2>3, <2>4, <2>5, <2>6, <2>7, <2>8 DEF Next, Serve, WriteOut
<1> QED
  BY <1>1, <1>2, PTL DEF Spec

-----------------------------------------------------------------------------
(* Whose answer it is.                                                     *)

\* What the form adds to a key.
QueryPart(form) == IF form = <<>> THEN <<>> ELSE <<"?">> \o form
NoMark(s) == \A i \in DOMAIN s : s[i] # "?"

\* What keys are made of: the prover does not know that "?" is a string.
Pieces == STRING \cup {"?"}

\* The second half of a key is a sequence of the same.
LEMMA QueryPartType ==
    ASSUME NEW form \in Seq(Pieces) PROVE QueryPart(form) \in Seq(Pieces)
<1>1. <<"?">> \in Seq(Pieces)
  BY DEF Pieces
<1>2. <<"?">> \o form \in Seq(Pieces)
  BY <1>1
<1> QED
  BY <1>2 DEF QueryPart

\* Of two keys that are the same, neither has the shorter path.
LEMMA NotShorter ==
    ASSUME NEW p \in Seq(Pieces), NEW q \in Seq(Pieces), NEW f \in Seq(Pieces), NEW g \in Seq(Pieces),
           NoMark(q), p \o QueryPart(f) = q \o QueryPart(g)
    PROVE  Len(p) >= Len(q)
<1> SUFFICES ASSUME Len(p) < Len(q) PROVE FALSE
  OBVIOUS
<1> DEFINE n == Len(p) + 1
<1>1. QueryPart(f) \in Seq(Pieces) /\ QueryPart(g) \in Seq(Pieces)
  BY QueryPartType
<1>2. Len(p \o QueryPart(f)) = Len(p) + Len(QueryPart(f)) /\ Len(q \o QueryPart(g)) = Len(q) + Len(QueryPart(g))
  BY <1>1
<1>3. Len(QueryPart(f)) > 0
  BY <1>1, <1>2
<1>4. QueryPart(f) = <<"?">> \o f
  BY <1>3 DEF QueryPart
<1>5. (p \o QueryPart(f))[n] = QueryPart(f)[1]
  BY <1>1, <1>3
<1>6. QueryPart(f)[1] = "?"
  BY <1>4
<1>7. n \in DOMAIN q /\ (q \o QueryPart(g))[n] = q[n]
  BY <1>1
<1> QED
  BY <1>5, <1>6, <1>7 DEF NoMark

\* A key whose path has no "?" can be taken apart again.
LEMMA KeyParts ==
    ASSUME NEW p \in Seq(Pieces), NEW q \in Seq(Pieces), NEW f \in Seq(Pieces), NEW g \in Seq(Pieces),
           NoMark(p), NoMark(q), p \o QueryPart(f) = q \o QueryPart(g)
    PROVE  p = q /\ f = g
<1>1. QueryPart(f) \in Seq(Pieces) /\ QueryPart(g) \in Seq(Pieces)
  BY QueryPartType
<1>2. Len(p) = Len(q)
  <2>1. Len(p) >= Len(q)
    BY NotShorter
  <2>2. Len(q) >= Len(p)
    BY NotShorter
  <2> QED
    BY <2>1, <2>2
<1>3. p = q
  <2>1. ASSUME NEW i \in 1..Len(p) PROVE p[i] = q[i]
    <3>1. (p \o QueryPart(f))[i] = p[i] /\ (q \o QueryPart(g))[i] = q[i]
      BY <1>1, <1>2
    <3> QED
      BY <3>1
  <2> QED
    BY <1>2, <2>1
<1>4. Len(QueryPart(f)) = Len(QueryPart(g))
  <2>1. Len(p \o QueryPart(f)) = Len(p) + Len(QueryPart(f)) /\ Len(q \o QueryPart(g)) = Len(q) + Len(QueryPart(g))
    BY <1>1
  <2> QED
    BY <1>1, <1>2, <2>1
<1>5. ASSUME NEW i \in 1..Len(QueryPart(f)) PROVE QueryPart(f)[i] = QueryPart(g)[i]
  <2>1. /\ (p \o QueryPart(f))[Len(p) + i] = QueryPart(f)[i]
        /\ (q \o QueryPart(g))[Len(q) + i] = QueryPart(g)[i]
    BY <1>1, <1>4
  <2> QED
    BY <1>2, <2>1
<1>6. Len(QueryPart(f)) = (IF f = <<>> THEN 0 ELSE Len(f) + 1) /\ Len(QueryPart(g)) = (IF g = <<>> THEN 0 ELSE Len(g) + 1)
  BY DEF QueryPart
<1>7. Len(f) = Len(g)
  <2>1. Len(f) \in Nat /\ Len(g) \in Nat
    OBVIOUS
  <2>2. (f = <<>> => Len(f) = 0) /\ (g = <<>> => Len(g) = 0)
    OBVIOUS
  <2>3. (IF f = <<>> THEN 0 ELSE Len(f) + 1) = (IF g = <<>> THEN 0 ELSE Len(g) + 1)
    BY <1>4, <1>6
  <2> QED
    BY <2>1, <2>2, <2>3
<1>8. ASSUME NEW i \in 1..Len(f) PROVE f[i] = g[i]
  <2>1. f # <<>> /\ g # <<>>
    BY <1>7
  <2>2. QueryPart(f)[i + 1] = f[i] /\ QueryPart(g)[i + 1] = g[i]
    BY <1>7, <2>1 DEF QueryPart
  <2> QED
    BY <1>5, <1>6, <2>1, <2>2
<1> QED
  BY <1>3, <1>7, <1>8

\* URLs without a "?" in their path that share a key differ in a slash at most.
LEMMA SharedKey ==
    ASSUME NEW u \in Urls, NEW w \in Urls, CacheKey(u) = CacheKey(w),
           ~QueryInPath(u), ~QueryInPath(w)
    PROVE  SameButForSlash(u, w)
<1>1. u \in [path : Seq(Pieces), form : Seq(Pieces)] /\ w \in [path : Seq(Pieces), form : Seq(Pieces)]
  BY UrlAssumption DEF Pieces
<1>2. ASSUME NEW p \in Seq(Pieces), \A i \in DOMAIN p : p[i] # "?"
      PROVE  TrimSlash(p) \in Seq(Pieces) /\ NoMark(TrimSlash(p))
  <2>1. CASE TrimSlash(p) = p
    BY <1>2, <2>1 DEF NoMark
  <2>2. CASE TrimSlash(p) # p
    <3>1. p # <<>> /\ TrimSlash(p) = SubSeq(p, 1, Len(p) - 1)
      BY <2>2 DEF TrimSlash
    <3>2. /\ SubSeq(p, 1, Len(p) - 1) \in Seq(Pieces)
          /\ DOMAIN SubSeq(p, 1, Len(p) - 1) = 1..Len(p) - 1
          /\ \A i \in 1..Len(p) - 1 : SubSeq(p, 1, Len(p) - 1)[i] = p[i]
      BY <3>1
    <3> QED
      BY <1>2, <3>1, <3>2 DEF NoMark
  <2> QED
    BY <2>1, <2>2
<1>3. /\ TrimSlash(u.path) \in Seq(Pieces) /\ NoMark(TrimSlash(u.path))
      /\ TrimSlash(w.path) \in Seq(Pieces) /\ NoMark(TrimSlash(w.path))
  BY <1>1, <1>2 DEF QueryInPath
<1>4. TrimSlash(u.path) \o QueryPart(u.form) = TrimSlash(w.path) \o QueryPart(w.form)
  BY DEF CacheKey, QueryPart
<1> QED
  BY <1>1, <1>3, <1>4, KeyParts DEF SameButForSlash

\* What dispatch looks at is all of a URL.
LEMMA QuestionIsUrl ==
    ASSUME NEW u \in Urls PROVE Question(u) = u
BY UrlAssumption DEF Question

\* An answer was computed for a URL that has this key.
AnswerFor(a, key) == a.question \in Urls /\ CacheKey(a.question) = key

\* That is so for what is in the cache, and for what requests hold.
MatchInv ==
    /\ \A k \in Keys : cache[k] # Nobody => AnswerFor(cache[k].value, k)
    /\ \A r \in Requests : answer[r] # NoAnswer => AnswerFor(answer[r], Key(r))
    /\ \A r \in Requests : pc[r] = "fill" => AnswerFor(answer[r], Key(r))
    /\ \A r \in Requests : pc[r] \in {"idle", "lookup", "query"} => answer[r] = NoAnswer

\* Every step keeps it.
LEMMA NextMatchInv ==
    ASSUME TypeOK, MatchInv, [Next]_vars
    PROVE  MatchInv'
<1> USE DEF MatchInv, AnswerFor, Key, TypeOK, Goto
<1>1. ASSUME NEW r \in Requests, Receive(r) PROVE MatchInv'
  BY <1>1 DEF Receive, clock
<1>2. ASSUME NEW r \in Requests, QueryFails(r) \/ HitWritten(r) \/ Written(r)
      PROVE  MatchInv'
  BY <1>2 DEF QueryFails, HitWritten, Written, Return, clock
<1>3. ASSUME NEW r \in Requests, Miss(r) \/ Expire(r) PROVE MatchInv'
  BY <1>3 DEF Miss, Expire, clock
<1>4. ASSUME NEW r \in Requests, Hit(r) PROVE MatchInv'
  <2>1. Key(r) \in Keys
    BY <1>4, KeyTypes DEF Hit
  <2>2. AnswerFor(cache[Key(r)].value, Key(r))
    BY <1>4, <2>1 DEF Hit
  <2> QED
    BY <1>4, <2>2 DEF Hit, clock
<1>5. ASSUME NEW r \in Requests, Query(r) PROVE MatchInv'
  <2>1. Question(url[r]) = url[r] /\ url[r] \in Urls
    BY <1>5, QuestionIsUrl DEF Query
  <2> QED
    BY <1>5, <2>1 DEF Query, clock
<1>6. ASSUME NEW r \in Requests, Fill(r) PROVE MatchInv'
  <2>1. Key(r) \in Keys
    BY <1>6, KeyTypes DEF Fill
  <2>2. AnswerFor(answer[r], Key(r))
    BY <1>6 DEF Fill
  <2> QED
    BY <1>6, <2>1, <2>2 DEF Fill, clock
<1>7. CASE Change \/ Tick \/ UNCHANGED vars
  BY <1>7 DEF Change, Tick, vars, clock
<1> QED
  BY <1>1, <1>2, <1>3, <1>4, <1>5, <1>6, <1>7 DEF Next, Serve, WriteOut, CacheGet

\* A request is given an answer to its own question, but for a trailing slash,
\* unless there is an encoded "?" in a path, however many URLs share the map:
\* the string that json/json.go:74-77 puts together can be taken apart again.
THEOREM AnswersAreOwn == Spec => []AnswersMatch
<1>1. Init => MatchInv
  BY DEF Init, MatchInv
<1>2. TypeOK /\ MatchInv /\ [Next]_vars => MatchInv'
  BY NextMatchInv
<1>3. TypeOK /\ MatchInv => AnswersMatch
  <2> SUFFICES ASSUME TypeOK, MatchInv, NEW r \in Requests, answer[r] # NoAnswer,
                      ~QueryInPath(answer[r].question), ~QueryInPath(url[r])
               PROVE  SameButForSlash(answer[r].question, url[r])
    BY DEF AnswersMatch
  <2>1. answer[r].question \in Urls /\ CacheKey(answer[r].question) = CacheKey(url[r])
    BY DEF MatchInv, AnswerFor, Key
  <2>2. url[r] \in Urls
    BY DEF TypeOK, MatchInv
  <2> QED
    BY <2>1, <2>2, SharedKey
<1> QED
  BY <1>1, <1>2, <1>3, TypeCorrect, PTL DEF Spec

-----------------------------------------------------------------------------
(* How old it is.                                                          *)

\* At the time t, the database had the version v, or lost it at most d before.
TrueBefore(v, t, d) == v <= version /\ (v < version => t - superseded[v] <= d)

\* Nothing was superseded in the future; what a request has read was current
\* when it read it, and what it has put into the cache was so FillTime before.
StaleInv ==
    /\ \A v \in Versions : superseded[v] <= now
    /\ \A r \in Requests : pc[r] = "fill" =>
          /\ readAt[r] <= now /\ now - readAt[r] <= FillTime
          /\ TrueBefore(answer[r].version, readAt[r], 0)
    /\ \A k \in Keys : cache[k] # Nobody =>
          /\ cache[k].timestamp <= now
          /\ TrueBefore(cache[k].value.version, cache[k].timestamp, FillTime)

\* Every step keeps it.
LEMMA NextStaleInv ==
    ASSUME TypeOK, StaleInv, [Next]_vars
    PROVE  StaleInv'
<1> USE TimeAssumption DEF StaleInv, TrueBefore, TypeOK, Goto
<1>0. /\ now \in Nat /\ version \in Nat /\ FillTime \in Nat
      /\ \A v \in Versions : superseded[v] \in Nat
      /\ \A r \in Requests : readAt[r] \in Nat /\ answer[r].version \in Versions
      /\ \A k \in Keys : cache[k] # Nobody =>
            cache[k].timestamp \in Nat /\ cache[k].value.version \in Versions
      /\ \A v \in Versions : v \in Nat
  <2>1. now \in Nat /\ version \in Nat /\ FillTime \in Nat /\ \A v \in Versions : v \in Nat
    BY DEF Versions
  <2>2. /\ \A v \in Versions : superseded[v] \in Nat
        /\ \A r \in Requests : readAt[r] \in Nat
    OBVIOUS
  <2>3. ASSUME NEW r \in Requests PROVE answer[r].version \in Versions
    <3>1. answer[r] \in Answers
      OBVIOUS
    <3> QED
      BY <3>1 DEF Answers
  <2>4. ASSUME NEW k \in Keys, cache[k] # Nobody
        PROVE  cache[k].timestamp \in Nat /\ cache[k].value.version \in Versions
    <3>1. cache[k] \in Entries
      BY <2>4
    <3>2. cache[k].timestamp \in 0..MaxTime /\ cache[k].value \in Answers
      BY <3>1 DEF Entries
    <3> QED
      BY <3>2 DEF Answers
  <2> QED
    BY <2>1, <2>2, <2>3, <2>4
<1>1. ASSUME NEW r \in Requests, Receive(r) PROVE StaleInv'
  BY <1>1 DEF Receive, clock
<1>2. ASSUME NEW r \in Requests, Miss(r) \/ QueryFails(r) \/ HitWritten(r) \/ Written(r)
      PROVE  StaleInv'
  BY <1>2 DEF Miss, QueryFails, HitWritten, Written, Return, clock
<1>3. ASSUME NEW r \in Requests, Expire(r) PROVE StaleInv'
  BY <1>3 DEF Expire, clock
<1>4. ASSUME NEW r \in Requests, Hit(r) PROVE StaleInv'
  BY <1>4 DEF Hit, clock
<1>5. ASSUME NEW r \in Requests, Query(r) PROVE StaleInv'
  BY <1>0, <1>5 DEF Query, clock
<1>6. ASSUME NEW r \in Requests, Fill(r) PROVE StaleInv'
  <2>1. /\ UNCHANGED <<now, version, superseded, answer>>
        /\ readAt' = [readAt EXCEPT ![r] = 0]
        /\ cache' = [cache EXCEPT ![Key(r)] = [value |-> answer[r], timestamp |-> now]]
        /\ pc' = [pc EXCEPT ![r] = "write"] /\ pc[r] = "fill"
    BY <1>6 DEF Fill, clock
  <2>2. ASSUME answer[r].version < version
        PROVE  now - superseded[answer[r].version] <= FillTime
    <3>1. now - readAt[r] <= FillTime /\ readAt[r] - superseded[answer[r].version] <= 0
      BY <2>1, <2>2
    <3>2. superseded[answer[r].version] \in Nat /\ readAt[r] \in Nat
      BY <1>0
    <3> QED
      BY <1>0, <3>1, <3>2
  <2>3. answer[r].version <= version
    BY <2>1
  <2>4. ASSUME NEW k \in Keys, cache'[k] # Nobody
        PROVE  /\ cache'[k].timestamp <= now
               /\ cache'[k].value.version <= version
               /\ cache'[k].value.version < version =>
                     cache'[k].timestamp - superseded[cache'[k].value.version] <= FillTime
    <3>1. CASE k = Key(r)
      BY <1>0, <2>1, <2>2, <2>3, <3>1
    <3>2. CASE k # Key(r)
      BY <2>1, <2>4, <3>2
    <3> QED
      BY <3>1, <3>2
  <2> QED
    BY <2>1, <2>4
<1>7. CASE Change
  <2>1. /\ version' = version + 1 /\ version \in Versions
        /\ superseded' = [superseded EXCEPT ![version] = now]
        /\ UNCHANGED <<now, cache, pc, answer, readAt>>
    BY <1>7 DEF Change
  <2>2. /\ superseded'[version] = now
        /\ \A v \in Versions : v # version => superseded'[v] = superseded[v]
    BY <2>1
  <2>3. \A v \in Versions : superseded'[v] <= now
    BY <1>0, <2>2
  <2>4. ASSUME NEW v \in Versions, NEW t \in Nat, NEW d \in Nat, t <= now, TrueBefore(v, t, d)
        PROVE  TrueBefore(v, t, d)'
    <3>1. CASE v = version
      BY <1>0, <2>1, <2>2, <2>4, <3>1
    <3>2. CASE v # version
      BY <1>0, <2>1, <2>2, <2>4, <3>2
    <3> QED
      BY <3>1, <3>2
  <2>5. \A r \in Requests : pc[r] = "fill" => TrueBefore(answer[r].version, readAt[r], 0)'
    BY <1>0, <2>1, <2>4
  <2>6. \A k \in Keys : cache[k] # Nobody =>
            TrueBefore(cache[k].value.version, cache[k].timestamp, FillTime)'
    BY <1>0, <2>1, <2>4
  <2> QED
    BY <2>1, <2>3, <2>5, <2>6
<1>8. CASE Tick
  BY <1>0, <1>8 DEF Tick
<1>9. CASE UNCHANGED vars
  BY <1>9 DEF vars, clock
<1> QED
  BY <1>1, <1>2, <1>3, <1>4, <1>5, <1>6, <1>7, <1>8, <1>9 DEF Next, Serve, WriteOut, CacheGet

\* Whatever fills and commits race, what the cache may serve was true of the
\* database CacheExpiration + FillTime ago (CacheAndWrite, json/json.go:120,
\* does not hold the mutex from its read to its fill).
THEOREM StalenessIsBounded == Spec => []BoundedStaleness
<1>1. Init => StaleInv
  BY DEF Init, StaleInv
<1>2. TypeOK /\ StaleInv /\ [Next]_vars => StaleInv'
  BY NextStaleInv
<1>3. TypeOK /\ StaleInv => BoundedStaleness
  <2> SUFFICES ASSUME TypeOK, StaleInv, NEW k \in Keys,
                      cache[k] # Nobody, ~Expired(cache[k]), cache[k].value.version < version
               PROVE  now - superseded[cache[k].value.version] <= CacheExpiration + FillTime
    BY DEF BoundedStaleness
  <2> DEFINE v == cache[k].value.version
             t == cache[k].timestamp
  <2>1. t \in Nat /\ v \in Versions /\ now \in Nat /\ superseded[v] \in Nat
    BY DEF TypeOK, Entries, Answers
  <2>2. t - superseded[v] <= FillTime
    BY DEF StaleInv, TrueBefore
  <2>3. now - t <= CacheExpiration
    BY <2>1, TimeAssumption DEF Expired
  <2> QED
    BY <2>1, <2>2, <2>3, TimeAssumption
<1> QED
  BY <1>1, <1>2, <1>3, TypeCorrect, PTL DEF Spec
=============================================================================
