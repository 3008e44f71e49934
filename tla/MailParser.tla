----------------------------- MODULE MailParser -----------------------------
(***************************************************************************)
(* How the mail handler reads a mail: ServeHTTP of src/ingest/ingest.go up *)
(* to PutBuild, with ParseMultipartMail and with BuildFromReport of        *)
(* src/bulk/bulk.go, which goes through the body line by line.  What is    *)
(* the class of a mail in Ingest is computed here.  BtInject posts a mail  *)
(* to this handler.                                                        *)
(*                                                                         *)
(* A value that the parser takes from a line is modelled by the line's     *)
(* number, so that one can tell where a field comes from.                  *)
(***************************************************************************)
EXTENDS Integers, Sequences, FiniteSets, SequencesExt

CONSTANTS Mails,       \* see MailAssumption
          Fields       \* the keys that BuildFromReport knows besides UrlKey

UrlKey == "Machine readable version"
Keys == Fields \cup {UrlKey}

\* What bufio.Scanner makes of a part: its lines, and whether they end with a
\* read error (a line that is too long, a body that breaks off) instead of EOF.  A
\* line is the title, empty, a rule (begins with "="), text, or has a colon in it.
LineKinds == {"title", "empty", "rule", "text", "colon"}
TextLines == [kind : LineKinds, key : STRING, val : STRING, text : STRING]
Parts == [type : {"text", "html"}, lines : Seq(TextLines), cut : BOOLEAN]

ASSUME MailAssumption ==
    \A m \in Mails :
        /\ m.header \in {"unreadable", "no sender", "majordomo", "good"}
        /\ m.content \in {"text", "alternative", "bare", "other"}
        /\ m.broken \in BOOLEAN
        /\ m.parts \in Seq(Parts)
        /\ m.content = "text" => Len(m.parts) = 1 /\ m.parts[1].type = "text"

\* What else a build has is none of these.
ASSUME KeyAssumption == {"platform", "whole"} \cap Keys = {}

VARIABLES
    mail,      \* the request's body
    stage,     \* what the handler does
    part,      \* the MIME part that it reads
    n,         \* the lines it has scanned
    build,     \* the line that each field is from, 0 if there is none, and the
               \* last line that was taken as a URL as a whole
    answer     \* what has become of the mail

parser == <<mail, stage, part, n, build, answer>>

Answers == {"none", "200", "500", "panic", "build"}

ParserInit ==
    /\ mail \in Mails /\ stage = "idle" /\ answer = "none"
    /\ part = 1 /\ n = 0
    /\ build = [f \in Keys \cup {"platform", "whole"} |-> 0]

Goto(s) == stage' = s /\ UNCHANGED answer
End(a) == stage' = "over" /\ answer' = a

\* The Content-Type; parts[1] does not exist if the type has no parameter.
ParseMultipartMail ==
    CASE mail.content = "other" -> End("200")
      [] mail.content = "bare" -> End("panic")
      [] mail.content = "alternative" -> Goto("parts")
      [] mail.content = "text" -> Goto("title")

\* mail.ReadMessage, the sender, and then the body.
Headers ==
    /\ stage = "received"
    /\ CASE mail.header = "unreadable" -> End("500")
         [] mail.header \in {"no sender", "majordomo"} -> End("200")
         [] mail.header = "good" -> ParseMultipartMail
    /\ UNCHANGED <<mail, part, n, build>>

\* mr.NextPart() until there is a text.  If there is none, the reader is nil,
\* and BuildFromReport dereferences it.
NextPart ==
    /\ stage = "parts"
    /\ \/ /\ part <= Len(mail.parts)
          /\ IF mail.parts[part].type = "text" THEN Goto("title") /\ UNCHANGED part
             ELSE Goto("parts") /\ part' = part + 1
       \/ /\ part > Len(mail.parts)
          /\ End(IF mail.broken THEN "200" ELSE "panic")
          /\ UNCHANGED part
    /\ UNCHANGED <<mail, n, build>>

Lines == mail.parts[part].lines
More == n < Len(Lines)
Line == Lines[n + 1]

\* s.Scan() is false: at EOF, or at a read error.  BuildFromReport returns the
\* latter as err, which ServeHTTP does not look at, so that only build == nil counts.
Scan == More /\ n' = n + 1 /\ UNCHANGED <<mail, part>>
ScanEnds(a) == ~More /\ End(a) /\ UNCHANGED <<mail, part, n, build>>

FindTitle ==
    /\ stage = "title"
    /\ \/ Scan /\ Goto(IF Line.kind = "title" THEN "rule" ELSE "title") /\ UNCHANGED build
       \/ ScanEnds("200")

\* Any line that is not empty will do.
ReadAnyRule ==
    /\ stage = "rule"
    /\ \/ /\ Scan
          /\ IF Line.kind = "empty" THEN End("panic") ELSE Goto("skip")
          /\ UNCHANGED build
       \/ ScanEnds("200")

\* s.Bytes()[0] != '=': an empty line has no first byte.
ReadRule ==
    /\ stage = "rule"
    /\ \/ /\ Scan
          /\ CASE Line.kind = "empty" -> End("panic")
               [] Line.kind = "rule" -> Goto("skip")
               [] OTHER -> End("200")
          /\ UNCHANGED build
       \/ ScanEnds("200")

SkipLine ==
    /\ stage = "skip"
    /\ \/ Scan /\ Goto("platform") /\ UNCHANGED build
       \/ ScanEnds("200")

\* The first line of a key is the one that counts.
SetOnce(field) == build' = [build EXCEPT ![field] = IF @ = 0 THEN n + 1 ELSE @]

Set(field) == build' = [build EXCEPT ![field] = n + 1]
SetUrl == build' = [build EXCEPT ![UrlKey] = n + 1, !.whole = n + 1]

ReadPlatform ==
    /\ stage = "platform"
    /\ \/ Scan /\ Goto("fields") /\ Set("platform")
       \/ ScanEnds("200")

IsField(l) == l.kind = "colon" /\ l.key \in Keys
UrlFollows(l) == l.kind = "colon" /\ l.key = UrlKey /\ l.val = ""

\* One round of the loop; a later line overrides an earlier one.
ReadField ==
    /\ stage = "fields"
    /\ \/ Scan /\ UrlFollows(Line) /\ Goto("url") /\ UNCHANGED build
       \/ Scan /\ IsField(Line) /\ ~UrlFollows(Line) /\ Goto("fields") /\ Set(Line.key)
       \/ Scan /\ ~IsField(Line) /\ Goto("fields") /\ UNCHANGED build
       \/ ScanEnds("build")

\* The line is looked at a second time.
PeekUrl ==
    /\ stage = "url"
    /\ \/ More /\ Goto("fields") /\ SetUrl /\ UNCHANGED <<mail, part, n>>
       \/ ScanEnds("build")

\* The URL is the line after its key, whatever that is.  If there is none, the
\* break leaves the switch, and the next Scan ends the loop.
ReadUrl ==
    /\ stage = "url"
    /\ \/ Scan /\ Goto("fields") /\ SetUrl
       \/ ScanEnds("build")

Parse ==
    \/ Headers \/ NextPart \/ FindTitle \/ ReadRule \/ SkipLine \/ ReadPlatform
    \/ ReadField \/ ReadUrl

\* The text of build.ReportUrl: what the key's line has after the colon, or all
\* of the line after it, which may be no URL at all.
ReportUrl ==
    LET l == Lines[build[UrlKey]]
    IN CASE build[UrlKey] = 0 -> ""
         [] build[UrlKey] = build.whole -> l.text
         [] OTHER -> l.val

-----------------------------------------------------------------------------
ParserTypeOK ==
    /\ answer \in Answers
    /\ part \in 1..(Len(mail.parts) + 1) /\ n \in Nat
    /\ stage \in {"title", "rule", "skip", "platform", "fields", "url"} =>
          /\ part \in DOMAIN mail.parts /\ n <= Len(Lines)
          /\ \A f \in DOMAIN build : build[f] <= n

TextParts(m) == {i \in DOMAIN m.parts : m.parts[i].type = "text"}

TextPart(m) == CHOOSE i \in TextParts(m) : \A j \in TextParts(m) : i <= j

\* The body that the parser should read, and where the title is in it.
Body(m) ==
    IF m.header # "good" \/ m.content \notin {"text", "alternative"} \/ TextParts(m) = {} THEN <<>>
    ELSE m.parts[TextPart(m)].lines

Titles(m) == {i \in DOMAIN Body(m) : Body(m)[i].kind = "title"}
Title(m) == CHOOSE i \in Titles(m) : \A j \in Titles(m) : i <= j
LineAfterTitle(m) == IF Titles(m) = {} \/ Title(m) = Len(Body(m)) THEN "none"
                     ELSE Body(m)[Title(m) + 1].kind

\* The body could only be read up to an error.
Cut(m) == TextParts(m) # {} /\ m.parts[TextPart(m)].cut

IsReport(m) == LineAfterTitle(m) = "rule" /\ Len(Body(m)) >= Title(m) + 3

\* A build is stored only for mails whose text has the title, a rule and two
\* more lines, and for all of these that can be read to their end.  (If one breaks
\* off below that, the code stores it, although BuildFromReport has returned an
\* error and the handler "ingests it, if successful".)  The handler panics if no
\* text part is there to be read or an empty line follows the title, and on
\* nothing else; the rest is dropped.
AnswerExplained ==
    stage = "over" =>
        /\ answer = "500" <=> mail.header = "unreadable"
        /\ answer = "build" => IsReport(mail)
        /\ IsReport(mail) /\ ~Cut(mail) => answer = "build"
        /\ answer = "panic" <=>
              \/ mail.header = "good" /\ mail.content = "bare"
              \/ mail.header = "good" /\ mail.content = "alternative"
                    /\ TextParts(mail) = {} /\ ~mail.broken
              \/ LineAfterTitle(mail) = "empty"

FieldLines(m) == {i \in DOMAIN Body(m) : i > Title(m) + 3}

\* Line i is taken as a URL because of the line before it: the end of a run of
\* keys without a value, of which every second one is taken as a URL itself.
TakenAsUrl(m, i) ==
    \E k \in FieldLines(m) :
        /\ k < i /\ (i - k) % 2 = 1
        /\ \A j \in k..(i - 1) : UrlFollows(Body(m)[j])
        /\ k - 1 \in FieldLines(m) => ~UrlFollows(Body(m)[k - 1])

Gives(m, i, field) ==
    LET l == Body(m)[i]
    IN IF TakenAsUrl(m, i) THEN field = UrlKey
       ELSE IsField(l) /\ l.key = field /\ ~UrlFollows(l)

\* Each field of the build is from the last line below the platform that gives
\* it, or from none if there is none; a line that is taken as the URL gives
\* nothing else, even if it is another field.
FieldsAsReported ==
    answer = "build" => \A f \in Keys :
        LET given == {i \in FieldLines(mail) : Gives(mail, i, f)}
        IN IF given = {} THEN build[f] = 0
           ELSE build[f] \in given /\ \A i \in given : i <= build[f]
=============================================================================
