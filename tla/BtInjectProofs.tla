---------------------------- MODULE BtInjectProofs ----------------------------
(***************************************************************************)
(* Theorems about MailParser, for mails of any length in any number of     *)
(* parts, and about BtInject, which posts one of them.                     *)
(***************************************************************************)
EXTENDS BtInject, WellFoundedInduction, TLAPS

-----------------------------------------------------------------------------
(* The text of a mail.                                                     *)

\* There is a least one among any numbers.
LEMMA LeastExists ==
    ASSUME NEW S, S \subseteq Nat, S # {}
    PROVE  \E x \in S : \A y \in S : x <= y
<1> DEFINE R == OpToRel(<, Nat)
<1>1. PICK x \in S : \A y \in S : ~(<<y, x>> \in R)
  <2>1. IsWellFoundedOn(R, Nat)
    BY NatLessThanWellFounded
  <2> HIDE DEF R
  <2> QED
    BY <2>1, WFMin
<1>2. ASSUME NEW y \in S PROVE x <= y
  <2>1. ~(<<y, x>> \in R)
    BY <1>1
  <2>2. ~(y < x)
    BY <2>1 DEF OpToRel
  <2> QED
    BY <2>2
<1> QED
  BY <1>2

\* The lines of a part are lines.
LEMMA PartLines ==
    ASSUME NEW m \in Mails, NEW p \in DOMAIN m.parts
    PROVE  /\ m.parts[p].lines \in Seq(TextLines)
           /\ DOMAIN m.parts = 1..Len(m.parts) /\ Len(m.parts) \in Nat
<1>1. m.parts \in Seq(Parts)
  BY MailAssumption
<1>2. m.parts[p] \in Parts /\ DOMAIN m.parts = 1..Len(m.parts) /\ Len(m.parts) \in Nat
  BY <1>1
<1> QED
  BY <1>2 DEF Parts

\* The text of a mail is its first part that is one.
LEMMA BodyIs ==
    ASSUME NEW m \in Mails, m.header = "good", m.content \in {"text", "alternative"},
           NEW p \in TextParts(m), \A j \in TextParts(m) : p <= j
    PROVE  Body(m) = m.parts[p].lines
<1> DEFINE q == CHOOSE i \in TextParts(m) : \A j \in TextParts(m) : i <= j
<1>1. q \in TextParts(m) /\ \A j \in TextParts(m) : q <= j
  OBVIOUS
<1>2. TextParts(m) \subseteq Nat
  BY PartLines DEF TextParts
<1>3. q = p
  <2> HIDE DEF q
  <2>1. q \in Nat /\ p \in Nat /\ q <= p /\ p <= q
    BY <1>1, <1>2
  <2> QED
    BY <2>1
<1> QED
  BY <1>3 DEF Body, TextPart

\* If there is none, it is empty; else it consists of lines, too.
LEMMA BodyType ==
    ASSUME NEW m \in Mails
    PROVE  Body(m) \in Seq(TextLines)
<1>1. CASE Body(m) = <<>>
  BY <1>1
<1>2. CASE Body(m) # <<>>
  <2> DEFINE q == CHOOSE i \in TextParts(m) : \A j \in TextParts(m) : i <= j
  <2>1. TextParts(m) # {} /\ Body(m) = m.parts[q].lines
    BY <1>2 DEF Body, TextPart
  <2>2. TextParts(m) \subseteq Nat
    BY PartLines DEF TextParts
  <2>3. \E i \in TextParts(m) : \A j \in TextParts(m) : i <= j
    BY <2>1, <2>2, LeastExists
  <2>4. q \in TextParts(m)
    BY <2>3
  <2> HIDE DEF q
  <2> QED
    BY <2>1, <2>4, PartLines DEF TextParts
<1> QED
  BY <1>1, <1>2

\* The first title.
LEMMA TitleIs ==
    ASSUME NEW m \in Mails, NEW t \in Titles(m), \A j \in Titles(m) : t <= j
    PROVE  Title(m) = t
<1>1. Title(m) \in Titles(m) /\ \A j \in Titles(m) : Title(m) <= j
  BY DEF Title
<1>2. Titles(m) \subseteq Nat
  BY BodyType DEF Titles
<1>3. Title(m) \in Nat /\ t \in Nat /\ Title(m) <= t /\ t <= Title(m)
  BY <1>1, <1>2
<1> QED
  BY <1>3

-----------------------------------------------------------------------------
(* Which part is read, and how far.                                        *)

ReadStages == {"title", "rule", "skip", "platform", "fields", "url"}
Stages == {"idle", "received", "parts", "over"} \cup ReadStages

\* The lines come from the first part that is a text, and none is skipped: the
\* parts before the one that is looked at are no texts.
PlaceInv ==
    /\ mail \in Mails /\ stage \in Stages /\ answer \in Answers
    /\ part \in 1..(Len(mail.parts) + 1) /\ n \in Nat
    /\ answer = "none" <=> stage # "over"
    /\ stage \in {"idle", "received"} => part = 1
    /\ stage \in {"idle", "received", "parts"} => n = 0
    /\ stage \in ReadStages \cup {"parts"} =>
          /\ mail.header = "good" /\ mail.content \in {"text", "alternative"}
          /\ \A j \in TextParts(mail) : part <= j
    /\ stage = "parts" => mail.content = "alternative"
    /\ stage \in ReadStages => part \in TextParts(mail) /\ n <= Len(Body(mail))

\* What the scanner goes through is the text of the mail.
LEMMA LinesAreBody ==
    ASSUME PlaceInv, stage \in ReadStages
    PROVE  /\ Lines = Body(mail) /\ Body(mail) \in Seq(TextLines)
           /\ Len(Body(mail)) \in Nat /\ DOMAIN Body(mail) = 1..Len(Body(mail))
<1>1. mail \in Mails /\ part \in TextParts(mail)
  BY DEF PlaceInv
<1>2. Body(mail) = mail.parts[part].lines
  BY <1>1, BodyIs DEF PlaceInv
<1>3. Body(mail) \in Seq(TextLines)
  BY <1>1, BodyType
<1> QED
  BY <1>2, <1>3 DEF Lines

LEMMA ParserInitPlace ==
    ASSUME ParserInit
    PROVE  PlaceInv
<1>1. mail \in Mails
  BY DEF ParserInit
<1>2. mail.parts \in Seq(Parts)
  BY <1>1, MailAssumption
<1>3. Len(mail.parts) \in Nat
  BY <1>2
<1> QED
  BY <1>1, <1>3 DEF ParserInit, PlaceInv, Stages, ReadStages, Answers

\* One step of the scanner, to a stage of the same part or to the end.
LEMMA ScanPlace ==
    ASSUME PlaceInv, stage \in ReadStages, UNCHANGED <<mail, part>>,
           \/ n' = n
           \/ More /\ n' = n + 1,
           \/ stage' \in ReadStages /\ answer' = answer
           \/ stage' = "over" /\ answer' \in Answers \ {"none"}
    PROVE  PlaceInv'
<1>1. Lines = Body(mail) /\ Len(Body(mail)) \in Nat
  BY LinesAreBody
<1>2. n' \in Nat /\ n' <= Len(Body(mail))
  BY <1>1 DEF PlaceInv, More
<1>3. stage # "over" /\ stage \notin {"idle", "received", "parts"}
  BY DEF ReadStages
<1>4. answer = "none"
  BY <1>3 DEF PlaceInv
<1>5. CASE stage' \in ReadStages /\ answer' = answer
  <2>1. stage' \notin {"idle", "received", "parts", "over"} /\ stage' \in Stages
    BY <1>5 DEF ReadStages, Stages
  <2> QED
    BY <1>2, <1>4, <1>5, <2>1 DEF PlaceInv
<1>6. CASE stage' = "over" /\ answer' \in Answers \ {"none"}
  <2>1. stage' \notin ReadStages \cup {"parts", "idle", "received"} /\ stage' \in Stages
    BY <1>6 DEF ReadStages, Stages
  <2> QED
    BY <1>2, <1>6, <2>1 DEF PlaceInv
<1> QED
  BY <1>5, <1>6

LEMMA HeadersPlace ==
    ASSUME PlaceInv, Headers
    PROVE  PlaceInv'
<1>1. stage = "received" /\ part = 1 /\ n = 0 /\ answer = "none" /\ UNCHANGED <<mail, part, n>>
  BY DEF PlaceInv, Headers
<1>2. mail \in Mails /\ mail.header \in {"unreadable", "no sender", "majordomo", "good"}
        /\ mail.content \in {"text", "alternative", "bare", "other"}
  BY MailAssumption DEF PlaceInv
<1>3. TextParts(mail) \subseteq Nat /\ \A j \in TextParts(mail) : 1 <= j
  <2>1. ASSUME NEW j \in TextParts(mail) PROVE j \in Nat /\ 1 <= j
    <3>1. j \in 1..Len(mail.parts) /\ Len(mail.parts) \in Nat
      BY <1>2, PartLines DEF TextParts
    <3> QED
      BY <3>1
  <2> QED
    BY <2>1
<1>4. CASE stage' = "over" /\ answer' \in {"200", "500", "panic"}
  BY <1>1, <1>4 DEF PlaceInv, Stages, ReadStages, Answers
<1>5. CASE stage' = "parts" /\ answer' = answer /\ mail.header = "good" /\ mail.content = "alternative"
  BY <1>1, <1>3, <1>5 DEF PlaceInv, Stages, ReadStages
<1>6. CASE stage' = "title" /\ answer' = answer /\ mail.header = "good" /\ mail.content = "text"
  <2>1. Len(mail.parts) = 1 /\ mail.parts[1].type = "text" /\ mail.parts \in Seq(Parts)
    BY <1>2, <1>6, MailAssumption
  <2>2. 1 \in TextParts(mail)
    BY <2>1 DEF TextParts
  <2>3. Body(mail) \in Seq(TextLines)
    BY <1>2, BodyType
  <2>4. 0 <= Len(Body(mail))
    BY <2>3
  <2> QED
    BY <1>1, <1>3, <1>6, <2>2, <2>4 DEF PlaceInv, Stages, ReadStages
<1>7. \/ stage' = "over" /\ answer' \in {"200", "500", "panic"}
      \/ stage' = "parts" /\ answer' = answer /\ mail.header = "good" /\ mail.content = "alternative"
      \/ stage' = "title" /\ answer' = answer /\ mail.header = "good" /\ mail.content = "text"
  BY <1>2 DEF Headers, ParseMultipartMail, Goto, End
<1> QED
  BY <1>4, <1>5, <1>6, <1>7

\* A part that is no text is passed by, so the first one is not missed.
LEMMA NextPartPlace ==
    ASSUME PlaceInv, NextPart
    PROVE  PlaceInv'
<1>1. stage = "parts" /\ n = 0 /\ answer = "none" /\ UNCHANGED <<mail, n>> /\ mail \in Mails
  BY DEF PlaceInv, NextPart
<1>2. /\ mail.header = "good" /\ mail.content = "alternative"
      /\ \A j \in TextParts(mail) : part <= j
  BY <1>1 DEF PlaceInv
<1>3. Len(mail.parts) \in Nat /\ DOMAIN mail.parts = 1..Len(mail.parts) /\ part \in 1..(Len(mail.parts) + 1)
  <2>1. mail.parts \in Seq(Parts) /\ part \in 1..(Len(mail.parts) + 1)
    BY <1>1, MailAssumption DEF PlaceInv
  <2> QED
    BY <2>1
<1>4. CASE stage' = "over" /\ answer' \in {"200", "panic"} /\ part' = part
  BY <1>1, <1>4 DEF PlaceInv, Stages, ReadStages, Answers
<1>5. CASE part <= Len(mail.parts) /\ mail.parts[part].type = "text" /\ Goto("title") /\ part' = part
  <2>1. part \in TextParts(mail)
    BY <1>3, <1>5 DEF TextParts
  <2>2. Body(mail) \in Seq(TextLines)
    BY <1>1, BodyType
  <2>3. 0 <= Len(Body(mail))
    BY <2>2
  <2> QED
    BY <1>1, <1>2, <1>5, <2>1, <2>3 DEF PlaceInv, Stages, ReadStages, Goto
<1>6. CASE part <= Len(mail.parts) /\ mail.parts[part].type # "text" /\ Goto("parts") /\ part' = part + 1
  <2>1. part' \in 1..(Len(mail.parts) + 1)
    BY <1>3, <1>6
  <2>2. ASSUME NEW j \in TextParts(mail) PROVE part + 1 <= j
    BY <1>2, <1>3, <1>6 DEF TextParts
  <2> QED
    BY <1>1, <1>2, <1>6, <2>1, <2>2 DEF PlaceInv, Stages, ReadStages, Goto
<1> QED
  BY <1>4, <1>5, <1>6 DEF NextPart, End

\* The steps of the scanner by name.
ScanStep == FindTitle \/ ReadRule \/ SkipLine \/ ReadPlatform \/ ReadField \/ ReadUrl

LEMMA ScanStepPlace ==
    ASSUME PlaceInv, ScanStep
    PROVE  PlaceInv'
<1>1. stage \in ReadStages /\ UNCHANGED <<mail, part>>
  BY DEF ScanStep, FindTitle, ReadRule, SkipLine, ReadPlatform, ReadField, ReadUrl, Scan,
         ScanEnds, ReadStages
<1>2. n' = n \/ (More /\ n' = n + 1)
  BY DEF ScanStep, FindTitle, ReadRule, SkipLine, ReadPlatform, ReadField, ReadUrl, Scan, ScanEnds
<1>3. \/ stage' \in ReadStages /\ answer' = answer
      \/ stage' = "over" /\ answer' \in Answers \ {"none"}
  BY DEF ScanStep, FindTitle, ReadRule, SkipLine, ReadPlatform, ReadField, ReadUrl, Scan,
         ScanEnds, ReadStages, Answers, Goto, End
<1> QED
  BY <1>1, <1>2, <1>3, ScanPlace

\* In a mail without a text there is nothing after the title.
LEMMA NoBody ==
    ASSUME NEW m, Body(m) = <<>>
    PROVE  LineAfterTitle(m) = "none"
<1>1. Titles(m) = {}
  BY DEF Titles
<1> QED
  BY <1>1 DEF LineAfterTitle

-----------------------------------------------------------------------------
(* What has been read of the title and of the lines below it.              *)

Below == {"skip", "platform", "fields", "url"}

TitleInv ==
    /\ stage = "title" => \A i \in Titles(mail) : n < i
    /\ stage \in Below \cup {"rule"} => Titles(mail) # {} /\ Title(mail) \in Nat
    /\ stage = "rule" => n = Title(mail)
    /\ stage = "skip" => n = Title(mail) + 1
    /\ stage = "platform" => n = Title(mail) + 2
    /\ stage \in {"fields", "url"} => n >= Title(mail) + 3
    /\ stage \in Below => Body(mail)[Title(mail) + 1].kind = "rule"
    /\ AnswerExplained

LEMMA HeadersTitle ==
    ASSUME PlaceInv, Headers
    PROVE  TitleInv'
<1>1. stage = "received" /\ n = 0 /\ UNCHANGED <<mail, n>> /\ mail \in Mails
  BY DEF PlaceInv, Headers
<1>2. mail.header \in {"unreadable", "no sender", "majordomo", "good"}
        /\ mail.content \in {"text", "alternative", "bare", "other"}
  BY <1>1, MailAssumption
<1>3. CASE mail.header = "good" /\ mail.content = "text"
  <2>1. stage' = "title"
    BY <1>3 DEF Headers, ParseMultipartMail, Goto, End
  <2>2. ASSUME NEW i \in Titles(mail) PROVE n < i
    <3>1. Body(mail) \in Seq(TextLines)
      BY <1>1, BodyType
    <3>2. i \in 1..Len(Body(mail)) /\ Len(Body(mail)) \in Nat
      BY <3>1 DEF Titles
    <3> QED
      BY <1>1, <3>2
  <2> QED
    BY <1>1, <2>1, <2>2 DEF TitleInv, Below, AnswerExplained
<1>4. CASE mail.header = "good" /\ mail.content = "alternative"
  <2>1. stage' = "parts"
    BY <1>4 DEF Headers, ParseMultipartMail, Goto, End
  <2> QED
    BY <1>1, <2>1 DEF TitleInv, Below, AnswerExplained
<1>5. CASE mail.header # "good" \/ mail.content \in {"bare", "other"}
  <2>1. LineAfterTitle(mail) = "none"
    <3>1. Body(mail) = <<>>
      BY <1>5 DEF Body
    <3> QED
      BY <3>1, NoBody
  <2>2. /\ stage' = "over"
        /\ answer' = IF mail.header = "unreadable" THEN "500"
                     ELSE IF mail.header = "good" /\ mail.content = "bare" THEN "panic" ELSE "200"
    BY <1>2, <1>5 DEF Headers, ParseMultipartMail, Goto, End
  <2>3. AnswerExplained'
    BY <1>1, <1>2, <1>5, <2>1, <2>2 DEF AnswerExplained, IsReport
  <2> QED
    BY <2>2, <2>3 DEF TitleInv, Below
<1> QED
  BY <1>2, <1>3, <1>4, <1>5

LEMMA NextPartTitle ==
    ASSUME PlaceInv, NextPart
    PROVE  TitleInv'
<1>1. stage = "parts" /\ n = 0 /\ UNCHANGED <<mail, n>> /\ mail \in Mails
  BY DEF PlaceInv, NextPart
<1>2. CASE stage' = "parts"
  BY <1>1, <1>2 DEF TitleInv, Below, AnswerExplained
<1>3. CASE stage' = "title"
  <2>1. ASSUME NEW i \in Titles(mail) PROVE n < i
    <3>1. Body(mail) \in Seq(TextLines)
      BY <1>1, BodyType
    <3>2. i \in 1..Len(Body(mail)) /\ Len(Body(mail)) \in Nat
      BY <3>1 DEF Titles
    <3> QED
      BY <1>1, <3>2
  <2> QED
    BY <1>1, <1>3, <2>1 DEF TitleInv, Below, AnswerExplained
<1>4. CASE part > Len(mail.parts) /\ End(IF mail.broken THEN "200" ELSE "panic")
  <2>1. mail.parts \in Seq(Parts) /\ mail.broken \in BOOLEAN
    BY <1>1, MailAssumption
  <2>2. TextParts(mail) = {}
    <3>1. ASSUME NEW j \in TextParts(mail) PROVE FALSE
      <4>1. j \in 1..Len(mail.parts) /\ Len(mail.parts) \in Nat
        BY <2>1 DEF TextParts
      <4>2. part <= j /\ part \in Nat
        BY <1>1, <4>1 DEF PlaceInv
      <4> QED
        BY <1>4, <4>1, <4>2
    <3> QED
      BY <3>1
  <2>3. LineAfterTitle(mail) = "none"
    <3>1. Body(mail) = <<>>
      BY <2>2 DEF Body
    <3> QED
      BY <3>1, NoBody
  <2>4. mail.header = "good" /\ mail.content = "alternative"
    BY <1>1 DEF PlaceInv
  <2>5. AnswerExplained'
    BY <1>1, <1>4, <2>1, <2>2, <2>3, <2>4 DEF AnswerExplained, IsReport, End
  <2> QED
    BY <1>4, <2>5 DEF TitleInv, Below, End
<1> QED
  BY <1>2, <1>3, <1>4 DEF NextPart, Goto, End

\* Once the body is being read, the answer depends on the title only.
LEMMA BodyAnswer ==
    ASSUME PlaceInv, stage \in ReadStages, mail' = mail,
           answer' \in {"200", "build", "panic"},
           answer' = "build" <=> LineAfterTitle(mail) = "rule" /\ Len(Body(mail)) >= Title(mail) + 3,
           answer' = "panic" <=> LineAfterTitle(mail) = "empty"
    PROVE  AnswerExplained'
<1>1. mail.header = "good" /\ mail.content # "bare" /\ TextParts(mail) # {}
  BY DEF PlaceInv, ReadStages
<1> QED
  BY <1>1 DEF AnswerExplained, IsReport

\* The title that is found is the first one.
LEMMA FindTitleTitle ==
    ASSUME PlaceInv, TitleInv, FindTitle
    PROVE  TitleInv'
<1>1. stage = "title" /\ mail' = mail /\ n \in Nat
  BY DEF FindTitle, Scan, ScanEnds, PlaceInv
<1>2. stage \in ReadStages
  BY <1>1 DEF ReadStages
<1>3. Lines = Body(mail) /\ Len(Body(mail)) \in Nat /\ DOMAIN Body(mail) = 1..Len(Body(mail))
  BY <1>2, LinesAreBody
<1>4. ASSUME NEW i \in Titles(mail) PROVE i \in 1..Len(Body(mail)) /\ n < i
  BY <1>1, <1>3 DEF TitleInv, Titles
<1>5. CASE ScanEnds("200")
  <2>1. Titles(mail) = {}
    BY <1>1, <1>3, <1>4, <1>5 DEF ScanEnds, More, PlaceInv
  <2>2. LineAfterTitle(mail) = "none"
    BY <2>1 DEF LineAfterTitle
  <2>3. stage' = "over" /\ answer' = "200"
    BY <1>5 DEF ScanEnds, End
  <2>4. AnswerExplained'
    BY <1>1, <1>2, <2>2, <2>3, BodyAnswer
  <2> QED
    BY <2>3, <2>4 DEF TitleInv, Below
<1>6. CASE Scan /\ Line.kind = "title" /\ Goto("rule")
  <2>1. n' = n + 1 /\ n + 1 \in Titles(mail)
    BY <1>1, <1>3, <1>6 DEF Scan, More, Line, Titles
  <2>2. \A i \in Titles(mail) : n + 1 <= i
    BY <1>1, <1>4
  <2>3. Title(mail) = n + 1
    BY <1>1, <2>1, <2>2, TitleIs DEF PlaceInv
  <2> QED
    BY <1>1, <1>6, <2>1, <2>3 DEF TitleInv, Below, AnswerExplained, Goto
<1>7. CASE Scan /\ Line.kind # "title" /\ Goto("title")
  <2>1. n' = n + 1 /\ n + 1 \notin Titles(mail)
    BY <1>1, <1>3, <1>7 DEF Scan, More, Line, Titles
  <2>2. \A i \in Titles(mail) : n + 1 < i
    BY <1>1, <1>4, <2>1
  <2> QED
    BY <1>1, <1>7, <2>1, <2>2 DEF TitleInv, Below, AnswerExplained, Goto
<1> QED
  BY <1>5, <1>6, <1>7 DEF FindTitle

LEMMA ReadRuleTitle ==
    ASSUME PlaceInv, TitleInv, ReadRule
    PROVE  TitleInv'
<1>1. stage = "rule" /\ mail' = mail /\ n \in Nat
  BY DEF ReadRule, Scan, ScanEnds, PlaceInv
<1>2. stage \in ReadStages
  BY <1>1 DEF ReadStages
<1>3. Lines = Body(mail) /\ Len(Body(mail)) \in Nat /\ DOMAIN Body(mail) = 1..Len(Body(mail))
  BY <1>2, LinesAreBody
<1>4. Titles(mail) # {} /\ Title(mail) \in Nat /\ n = Title(mail) /\ n <= Len(Body(mail))
  BY <1>1, <1>2 DEF TitleInv, PlaceInv
<1>5. CASE ScanEnds("200")
  <2>1. LineAfterTitle(mail) = "none"
    BY <1>3, <1>4, <1>5 DEF LineAfterTitle, ScanEnds, More
  <2>2. stage' = "over" /\ answer' = "200"
    BY <1>5 DEF ScanEnds, End
  <2>3. AnswerExplained'
    BY <1>1, <1>2, <2>1, <2>2, BodyAnswer
  <2> QED
    BY <2>2, <2>3 DEF TitleInv, Below
<1>6. CASE Scan
  <2>1. /\ n' = Title(mail) + 1 /\ Title(mail) # Len(Body(mail))
        /\ LineAfterTitle(mail) = Line.kind /\ Line = Body(mail)[Title(mail) + 1]
    BY <1>3, <1>4, <1>6 DEF Scan, More, Line, LineAfterTitle
  <2>2. CASE Line.kind = "rule" /\ Goto("skip")
    BY <1>1, <1>4, <2>1, <2>2 DEF TitleInv, Below, AnswerExplained, Goto
  <2>3. CASE Line.kind = "empty" /\ End("panic")
    <3>1. AnswerExplained'
      BY <1>1, <1>2, <2>1, <2>3, BodyAnswer DEF End
    <3> QED
      BY <2>3, <3>1 DEF TitleInv, Below, End
  <2>4. CASE Line.kind \notin {"rule", "empty"} /\ End("200")
    <3>1. AnswerExplained'
      BY <1>1, <1>2, <2>1, <2>4, BodyAnswer DEF End
    <3> QED
      BY <2>4, <3>1 DEF TitleInv, Below, End
  <2>5. \/ Line.kind = "rule" /\ Goto("skip")
        \/ Line.kind = "empty" /\ End("panic")
        \/ Line.kind \notin {"rule", "empty"} /\ End("200")
    BY <1>3, <1>6 DEF ReadRule, ScanEnds, Scan
  <2> QED
    BY <2>2, <2>3, <2>4, <2>5
<1> QED
  BY <1>5, <1>6 DEF ReadRule

\* The lines below the rule.
LEMMA BelowTitle ==
    ASSUME PlaceInv, TitleInv, SkipLine \/ ReadPlatform \/ ReadField \/ ReadUrl
    PROVE  TitleInv'
<1>1. stage \in Below /\ mail' = mail /\ n \in Nat
  BY DEF SkipLine, ReadPlatform, ReadField, ReadUrl, Scan, ScanEnds, PlaceInv, Below
<1>2. stage \in ReadStages
  BY <1>1 DEF ReadStages, Below
<1>3. Lines = Body(mail) /\ Len(Body(mail)) \in Nat
  BY <1>2, LinesAreBody
<1>4. /\ Titles(mail) # {} /\ Title(mail) \in Nat /\ n <= Len(Body(mail)) /\ n > Title(mail)
      /\ Body(mail)[Title(mail) + 1].kind = "rule"
  BY <1>1, <1>2 DEF TitleInv, PlaceInv, Below
<1>5. LineAfterTitle(mail) = "rule"
  BY <1>1, <1>3, <1>4 DEF LineAfterTitle
<1>6. CASE Scan
  <2>1. n' = n + 1
    BY <1>6 DEF Scan
  <2>2. CASE stage = "skip" /\ stage' = "platform"
    BY <1>1, <1>4, <2>1, <2>2 DEF TitleInv, Below, AnswerExplained
  <2>3. CASE stage = "platform" /\ stage' = "fields"
    BY <1>1, <1>4, <2>1, <2>3 DEF TitleInv, Below, AnswerExplained
  <2>4. CASE stage \in {"fields", "url"} /\ stage' \in {"fields", "url"}
    BY <1>1, <1>4, <2>1, <2>4 DEF TitleInv, Below, AnswerExplained
  <2> QED
    BY <1>6, <2>2, <2>3, <2>4 DEF SkipLine, ReadPlatform, ReadField, ReadUrl, Goto, Scan, ScanEnds
<1>7. CASE stage \in {"skip", "platform"} /\ ScanEnds("200")
  <2>1. Len(Body(mail)) < Title(mail) + 3
    BY <1>1, <1>3, <1>4, <1>7 DEF TitleInv, ScanEnds, More
  <2>2. AnswerExplained'
    BY <1>1, <1>2, <1>3, <1>4, <1>5, <1>7, <2>1, BodyAnswer DEF ScanEnds, End
  <2> QED
    BY <1>7, <2>2 DEF TitleInv, Below, ScanEnds, End
<1>8. CASE stage \in {"fields", "url"} /\ ScanEnds("build")
  <2>1. Len(Body(mail)) >= Title(mail) + 3
    BY <1>1, <1>3, <1>4, <1>8 DEF TitleInv
  <2>2. AnswerExplained'
    BY <1>1, <1>2, <1>5, <1>8, <2>1, BodyAnswer DEF ScanEnds, End
  <2> QED
    BY <1>8, <2>2 DEF TitleInv, Below, ScanEnds, End
<1> QED
  BY <1>6, <1>7, <1>8 DEF SkipLine, ReadPlatform, ReadField, ReadUrl

-----------------------------------------------------------------------------
(* Which lines are URLs because of the line before them.                   *)

\* Whether a line is taken as a URL is found out going down the body: it is if
\* the line above it is a URL key that has no value, and is not itself taken.
LEMMA NextTaken ==
    ASSUME NEW m \in Mails, Title(m) \in Nat, NEW i \in DOMAIN Body(m)
    PROVE  TakenAsUrl(m, i + 1) <=>
              i \in FieldLines(m) /\ UrlFollows(Body(m)[i]) /\ ~TakenAsUrl(m, i)
<1> DEFINE F(j) == UrlFollows(Body(m)[j])
           Starts(k) == k - 1 \in FieldLines(m) => ~F(k - 1)
<1>1. /\ \A j : j \in FieldLines(m) <=> j \in Nat /\ j > Title(m) + 3 /\ j <= Len(Body(m))
      /\ i \in Nat /\ i <= Len(Body(m)) /\ Len(Body(m)) \in Nat
  <2>1. Body(m) \in Seq(TextLines)
    BY BodyType
  <2>2. DOMAIN Body(m) = 1..Len(Body(m)) /\ Len(Body(m)) \in Nat
    BY <2>1
  <2> QED
    BY <2>2 DEF FieldLines
<1>2. \A h \in Nat : TakenAsUrl(m, h) <=>
          \E k \in FieldLines(m) : k < h /\ (h - k) % 2 = 1 /\ (\A j \in k..(h - 1) : F(j)) /\ Starts(k)
  BY DEF TakenAsUrl
<1> HIDE DEF F
<1>3. ASSUME TakenAsUrl(m, i + 1)
      PROVE  i \in FieldLines(m) /\ F(i) /\ ~TakenAsUrl(m, i)
  <2>1. PICK k \in FieldLines(m) :
            k < i + 1 /\ ((i + 1) - k) % 2 = 1 /\ (\A j \in k..((i + 1) - 1) : F(j)) /\ Starts(k)
    BY <1>1, <1>2, <1>3
  <2>2. k \in Nat /\ k <= i /\ k > Title(m) + 3 /\ \A j \in k..i : F(j)
    BY <1>1, <2>1
  <2>3. ASSUME TakenAsUrl(m, i) PROVE FALSE
    <3>1. PICK l \in FieldLines(m) :
              l < i /\ (i - l) % 2 = 1 /\ (\A j \in l..(i - 1) : F(j)) /\ Starts(l)
      BY <1>1, <1>2, <2>3
    <3>2. l \in Nat /\ l > Title(m) + 3
      BY <1>1
    <3>3. ~(k < l)
      <4>1. ASSUME k < l PROVE l - 1 \in FieldLines(m) /\ l - 1 \in k..i
        BY <1>1, <2>2, <3>1, <3>2, <4>1
      <4> QED
        BY <2>2, <3>1, <4>1
    <3>4. ~(l < k)
      <4>1. ASSUME l < k PROVE k - 1 \in FieldLines(m) /\ k - 1 \in l..(i - 1)
        BY <1>1, <2>2, <3>1, <3>2, <4>1
      <4> QED
        BY <2>1, <3>1, <4>1
    <3>5. k = l
      BY <2>2, <3>2, <3>3, <3>4
    <3> QED
      BY <1>1, <2>1, <3>1, <3>2, <3>5
  <2>4. i \in FieldLines(m) /\ F(i)
    BY <1>1, <2>2
  <2> QED
    BY <2>3, <2>4
<1>4. ASSUME i \in FieldLines(m), F(i), ~TakenAsUrl(m, i)
      PROVE  TakenAsUrl(m, i + 1)
  <2> DEFINE S == {k \in FieldLines(m) : k <= i /\ \A j \in k..i : F(j)}
  <2>1. S \subseteq Nat /\ i \in S
    BY <1>1, <1>4
  <2>2. PICK k \in S : \A j \in S : k <= j
    BY <2>1, LeastExists
  <2>3. k \in Nat /\ k \in FieldLines(m) /\ k <= i /\ \A j \in k..i : F(j)
    BY <1>1, <2>2
  <2>4. Starts(k)
    <3>1. SUFFICES ASSUME k - 1 \in FieldLines(m), F(k - 1) PROVE FALSE
      OBVIOUS
    <3>2. \A j \in (k - 1)..i : F(j)
      <4>1. ASSUME NEW j \in (k - 1)..i PROVE j = k - 1 \/ j \in k..i
        BY <1>1, <2>3, <4>1
      <4> QED
        BY <2>3, <3>1, <4>1
    <3>3. k - 1 \in S
      BY <1>1, <2>3, <3>1, <3>2
    <3>4. k <= k - 1
      BY <2>2, <3>3
    <3> QED
      BY <2>3, <3>4
  <2> HIDE DEF S
  <2>5. CASE ((i + 1) - k) % 2 = 1
    <3>1. i + 1 \in Nat /\ k < i + 1 /\ \A j \in k..((i + 1) - 1) : F(j)
      BY <1>1, <2>3
    <3> QED
      BY <1>2, <2>3, <2>4, <2>5, <3>1
  <2>6. CASE ((i + 1) - k) % 2 # 1
    <3>1. (i - k) % 2 = 1 /\ k < i
      BY <1>1, <2>3, <2>6
    <3>2. \A j \in k..(i - 1) : F(j)
      BY <1>1, <2>3
    <3>3. TakenAsUrl(m, i)
      BY <1>1, <1>2, <2>3, <2>4, <3>1, <3>2
    <3> QED
      BY <1>4, <3>3
  <2> QED
    BY <2>5, <2>6
<1> QED
  BY <1>3, <1>4 DEF F

\* Nor is the first line of the fields taken: it has none before it.
LEMMA FirstIsNotTaken ==
    ASSUME NEW m \in Mails, Title(m) \in Nat
    PROVE  ~TakenAsUrl(m, Title(m) + 4)
<1>1. SUFFICES ASSUME NEW k \in FieldLines(m), k < Title(m) + 4 PROVE FALSE
  BY DEF TakenAsUrl
<1>2. Body(m) \in Seq(TextLines)
  BY BodyType
<1>3. k \in Nat /\ k > Title(m) + 3
  BY <1>2 DEF FieldLines
<1> QED
  BY <1>1, <1>3

-----------------------------------------------------------------------------
(* The fields of the build.                                                *)

BuildKeys == Keys \cup {"platform", "whole"}

\* A build b that has the fields as the first k lines give them.
GivenUpTo(m, k, b) ==
    \A f \in Keys :
        LET given == {i \in FieldLines(m) : i <= k /\ Gives(m, i, f)}
        IN IF given = {} THEN b[f] = 0
           ELSE b[f] \in given /\ \A i \in given : i <= b[f]

\* One more line gives what it gives, and takes precedence.
LEMMA OneMoreLine ==
    ASSUME NEW m \in Mails, NEW k \in Nat, k + 1 \in FieldLines(m), NEW b, NEW c,
           GivenUpTo(m, k, b),
           \A f \in Keys : c[f] = IF Gives(m, k + 1, f) THEN k + 1 ELSE b[f]
    PROVE  GivenUpTo(m, k + 1, c)
<1> SUFFICES ASSUME NEW f \in Keys
             PROVE  LET given == {i \in FieldLines(m) : i <= k + 1 /\ Gives(m, i, f)}
                    IN IF given = {} THEN c[f] = 0
                       ELSE c[f] \in given /\ \A i \in given : i <= c[f]
  BY DEF GivenUpTo
<1> DEFINE before == {i \in FieldLines(m) : i <= k /\ Gives(m, i, f)}
           given == {i \in FieldLines(m) : i <= k + 1 /\ Gives(m, i, f)}
<1>1. FieldLines(m) \subseteq Nat
  <2>1. Body(m) \in Seq(TextLines)
    BY BodyType
  <2> QED
    BY <2>1 DEF FieldLines
<1>2. IF before = {} THEN b[f] = 0 ELSE b[f] \in before /\ \A i \in before : i <= b[f]
  BY DEF GivenUpTo
<1>3. CASE Gives(m, k + 1, f)
  <2>1. c[f] = k + 1 /\ k + 1 \in given /\ \A i \in given : i <= k + 1
    BY <1>3
  <2> QED
    BY <2>1
<1>4. CASE ~Gives(m, k + 1, f)
  <2>1. c[f] = b[f]
    BY <1>4
  <2>2. given = before
    <3>1. \A i \in FieldLines(m) : (i <= k + 1 /\ Gives(m, i, f)) <=> (i <= k /\ Gives(m, i, f))
      BY <1>1, <1>4
    <3> QED
      BY <3>1
  <2> HIDE DEF given, before
  <2> QED
    BY <1>2, <2>1, <2>2 DEF given
<1> QED
  BY <1>3, <1>4

FieldInv ==
    /\ build \in [BuildKeys -> Nat]
    /\ \A f \in BuildKeys : build[f] <= n
    /\ stage \in Stages \ {"fields", "url", "over"} => \A f \in Keys : build[f] = 0
    /\ stage = "fields" => ~TakenAsUrl(mail, n + 1)
    /\ stage = "url" => TakenAsUrl(mail, n + 1)
    /\ stage \in {"fields", "url"} \/ answer = "build" => GivenUpTo(mail, n, build)
    /\ answer = "build" => n = Len(Body(mail))

\* Before the loop no line has given a field, and there is no build yet.
LEMMA EarlierFields ==
    ASSUME PlaceInv, TitleInv, FieldInv,
           Headers \/ NextPart \/ FindTitle \/ ReadRule \/ SkipLine
    PROVE  FieldInv'
<1>1. /\ stage \in Stages \ {"fields", "url", "over"} /\ build' = build /\ n \in Nat
      /\ answer = "none"
  BY DEF Headers, NextPart, FindTitle, ReadRule, SkipLine, Scan, ScanEnds, Stages, ReadStages, PlaceInv
<1>2. n' = n \/ n' = n + 1
  BY DEF Headers, NextPart, FindTitle, ReadRule, SkipLine, Scan, ScanEnds
<1>3. /\ stage' \in Stages \ {"fields", "url"} /\ answer' # "build"
  <2>1. CASE Headers
    <3>1. mail.header \in {"unreadable", "no sender", "majordomo", "good"}
            /\ mail.content \in {"text", "alternative", "bare", "other"}
      BY MailAssumption DEF PlaceInv
    <3> QED
      BY <1>1, <2>1, <3>1 DEF Headers, ParseMultipartMail, Stages, ReadStages, Goto, End
  <2>2. CASE NextPart
    BY <1>1, <2>2 DEF NextPart, Stages, ReadStages, Goto, End
  <2>3. CASE FindTitle \/ ReadRule \/ SkipLine
    BY <1>1, <2>3 DEF FindTitle, ReadRule, SkipLine, ScanEnds, Stages, ReadStages, Goto, End
  <2> QED
    BY <2>1, <2>2, <2>3
<1>4. build \in [BuildKeys -> Nat] /\ \A f \in BuildKeys : build[f] <= n'
  <2>1. ASSUME NEW f \in BuildKeys PROVE build[f] <= n'
    <3>1. build[f] \in Nat /\ build[f] <= n
      BY DEF FieldInv
    <3> QED
      BY <1>1, <1>2, <3>1
  <2> QED
    BY <2>1 DEF FieldInv
<1>5. \A f \in Keys : build[f] = 0
  BY <1>1 DEF FieldInv
<1> QED
  BY <1>1, <1>3, <1>4, <1>5 DEF FieldInv

\* Setting some fields to the line that is read keeps the build well-formed.
LEMMA FieldsSet ==
    ASSUME FieldInv, n \in Nat, NEW S, S \subseteq BuildKeys, n' \in Nat, n' = n + 1,
           build' = [f \in BuildKeys |-> IF f \in S THEN n + 1 ELSE build[f]]
    PROVE  build' \in [BuildKeys -> Nat] /\ \A f \in BuildKeys : build'[f] <= n'
<1>1. ASSUME NEW f \in BuildKeys PROVE build'[f] \in Nat /\ build'[f] <= n'
  <2>1. build[f] \in Nat /\ build[f] <= n
    BY DEF FieldInv
  <2> QED
    BY <2>1
<1> QED
  BY <1>1

\* The platform is the line above the fields.
LEMMA PlatformFields ==
    ASSUME PlaceInv, TitleInv, FieldInv, ReadPlatform
    PROVE  FieldInv'
<1>1. stage = "platform" /\ mail' = mail /\ n \in Nat /\ mail \in Mails /\ answer = "none"
  BY DEF ReadPlatform, Scan, ScanEnds, PlaceInv
<1>2. \A f \in Keys : build[f] = 0
  BY <1>1 DEF FieldInv, Stages, ReadStages
<1>3. CASE ScanEnds("200")
  <2>1. build' = build /\ n' = n /\ stage' = "over" /\ answer' = "200"
    BY <1>3 DEF ScanEnds, End
  <2> QED
    BY <1>1, <2>1 DEF FieldInv, Stages
<1>4. CASE Scan /\ Goto("fields") /\ Set("platform")
  <2>1. n' = n + 1 /\ n' \in Nat /\ stage' = "fields" /\ answer' = "none"
    BY <1>1, <1>4 DEF Scan, Goto
  <2>2. build' = [f \in BuildKeys |-> IF f \in {"platform"} THEN n + 1 ELSE build[f]]
    BY <1>4 DEF Set, FieldInv
  <2>3. build' \in [BuildKeys -> Nat] /\ \A f \in BuildKeys : build'[f] <= n'
    <3>1. {"platform"} \subseteq BuildKeys
      BY DEF BuildKeys
    <3> QED
      BY <1>1, <2>1, <2>2, <3>1, FieldsSet
  <2>4. \A f \in Keys : build'[f] = 0
    BY <1>2, <2>2, KeyAssumption DEF BuildKeys
  <2>5. Title(mail) \in Nat /\ n' = Title(mail) + 3
    BY <1>1, <2>1 DEF TitleInv, Below
  <2>6. ~TakenAsUrl(mail, n' + 1)
    <3>1. n' + 1 = Title(mail) + 4
      BY <2>5
    <3> QED
      BY <1>1, <2>5, <3>1, FirstIsNotTaken
  <2>7. GivenUpTo(mail, n', build')
    <3>1. ASSUME NEW i \in FieldLines(mail) PROVE ~(i <= n')
      <4>1. Body(mail) \in Seq(TextLines)
        BY <1>1, BodyType
      <4>2. i \in Nat /\ i > Title(mail) + 3
        BY <4>1 DEF FieldLines
      <4> QED
        BY <2>5, <4>2
    <3> QED
      BY <2>4, <3>1 DEF GivenUpTo
  <2> QED
    BY <1>1, <2>1, <2>3, <2>6, <2>7 DEF FieldInv, Stages
<1> QED
  BY <1>3, <1>4 DEF ReadPlatform

\* The line that the loop reads is one of the fields' lines.
LEMMA LoopLine ==
    ASSUME PlaceInv, TitleInv, stage \in {"fields", "url"}, Scan
    PROVE  /\ mail' = mail /\ mail \in Mails /\ n \in Nat /\ n' = n + 1 /\ n' \in Nat
           /\ answer = "none" /\ Title(mail) \in Nat
           /\ n + 1 \in DOMAIN Body(mail) /\ n + 1 \in FieldLines(mail)
           /\ Line = Body(mail)[n + 1]
<1>1. stage \in ReadStages
  BY DEF ReadStages
<1>2. Lines = Body(mail) /\ Len(Body(mail)) \in Nat /\ DOMAIN Body(mail) = 1..Len(Body(mail))
  BY <1>1, LinesAreBody
<1>3. Title(mail) \in Nat /\ n >= Title(mail) + 3
  BY DEF TitleInv, Below
<1> QED
  BY <1>2, <1>3 DEF Scan, More, Line, PlaceInv, FieldLines

\* The loop ends with the last line.
LEMMA LoopEnds ==
    ASSUME PlaceInv, TitleInv, FieldInv, stage \in {"fields", "url"}, ScanEnds("build")
    PROVE  FieldInv'
<1>1. stage \in ReadStages
  BY DEF ReadStages
<1>2. Lines = Body(mail) /\ Len(Body(mail)) \in Nat
  BY <1>1, LinesAreBody
<1>3. n = Len(Body(mail))
  BY <1>1, <1>2 DEF ScanEnds, More, PlaceInv
<1> QED
  BY <1>3 DEF ScanEnds, End, FieldInv, Stages

LEMMA ReadFieldFields ==
    ASSUME PlaceInv, TitleInv, FieldInv, ReadField
    PROVE  FieldInv'
<1>1. stage = "fields"
  BY DEF ReadField, ScanEnds
<1>2. CASE ScanEnds("build")
  BY <1>1, <1>2, LoopEnds
<1>3. CASE Scan
  <2>1. /\ mail' = mail /\ mail \in Mails /\ n \in Nat /\ n' = n + 1 /\ n' \in Nat
        /\ answer = "none" /\ Title(mail) \in Nat
        /\ n + 1 \in DOMAIN Body(mail) /\ n + 1 \in FieldLines(mail)
        /\ Line = Body(mail)[n + 1]
    BY <1>1, <1>3, LoopLine
  <2>2. ~TakenAsUrl(mail, n + 1) /\ GivenUpTo(mail, n, build)
    BY <1>1 DEF FieldInv
  <2>3. TakenAsUrl(mail, n' + 1) <=> UrlFollows(Line)
    BY <2>1, <2>2, NextTaken
  <2>4. \A f \in Keys : Gives(mail, n + 1, f) <=>
            IsField(Line) /\ Line.key = f /\ ~UrlFollows(Line)
    BY <2>1, <2>2 DEF Gives
  <2>5. /\ stage' = IF UrlFollows(Line) THEN "url" ELSE "fields"
        /\ answer' = "none"
    <3>1. ~ScanEnds("build")
      BY <1>3 DEF Scan, ScanEnds
    <3>2. UrlFollows(Line) => IsField(Line)
      BY DEF UrlFollows, IsField, Keys
    <3> QED
      BY <2>1, <3>1, <3>2 DEF ReadField, Goto
  <2>6. PICK S \in SUBSET Keys :
            /\ \A f \in Keys : Gives(mail, n + 1, f) <=> f \in S
            /\ build' = [f \in BuildKeys |-> IF f \in S THEN n + 1 ELSE build[f]]
    <3>1. build = [f \in BuildKeys |-> build[f]]
      BY DEF FieldInv
    <3>2. CASE IsField(Line) /\ ~UrlFollows(Line) /\ Set(Line.key)
      <4>1. Line.key \in Keys
        BY <3>2 DEF IsField
      <4>2. build' = [f \in BuildKeys |-> IF f \in {Line.key} THEN n + 1 ELSE build[f]]
        BY <3>2 DEF Set, FieldInv
      <4>3. {Line.key} \in SUBSET Keys /\ \A f \in Keys : Gives(mail, n + 1, f) <=> f \in {Line.key}
        BY <2>4, <3>2, <4>1
      <4> QED
        BY <4>2, <4>3
    <3>3. CASE build' = build /\ (UrlFollows(Line) \/ ~IsField(Line))
      <4>1. {} \in SUBSET Keys /\ \A f \in Keys : Gives(mail, n + 1, f) <=> f \in {}
        BY <2>4, <3>3
      <4>2. build' = [f \in BuildKeys |-> IF f \in {} THEN n + 1 ELSE build[f]]
        BY <3>1, <3>3
      <4> QED
        BY <4>1, <4>2
    <3> QED
      BY <1>3, <3>2, <3>3 DEF ReadField, ScanEnds, Scan
  <2>7. build' \in [BuildKeys -> Nat] /\ \A f \in BuildKeys : build'[f] <= n'
    <3>1. S \subseteq BuildKeys
      BY DEF BuildKeys
    <3> QED
      BY <2>1, <2>6, <3>1, FieldsSet
  <2>8. GivenUpTo(mail, n', build')
    <3>1. \A f \in Keys : build'[f] = IF Gives(mail, n + 1, f) THEN n + 1 ELSE build[f]
      BY <2>6 DEF BuildKeys
    <3> QED
      BY <2>1, <2>2, <3>1, OneMoreLine
  <2> QED
    BY <2>1, <2>3, <2>5, <2>7, <2>8 DEF FieldInv, Stages
<1> QED
  BY <1>2, <1>3 DEF ReadField

\* The line that is taken as a URL gives that, and nothing else.
LEMMA ReadUrlFields ==
    ASSUME PlaceInv, TitleInv, FieldInv, ReadUrl
    PROVE  FieldInv'
<1>1. stage = "url"
  BY DEF ReadUrl, ScanEnds
<1>2. CASE ScanEnds("build")
  BY <1>1, <1>2, LoopEnds
<1>3. CASE Scan /\ Goto("fields") /\ SetUrl
  <2>1. /\ mail' = mail /\ mail \in Mails /\ n \in Nat /\ n' = n + 1 /\ n' \in Nat
        /\ answer = "none" /\ Title(mail) \in Nat
        /\ n + 1 \in DOMAIN Body(mail) /\ n + 1 \in FieldLines(mail)
    BY <1>1, <1>3, LoopLine
  <2>2. TakenAsUrl(mail, n + 1) /\ GivenUpTo(mail, n, build)
    BY <1>1 DEF FieldInv
  <2>3. ~TakenAsUrl(mail, n' + 1)
    BY <2>1, <2>2, NextTaken
  <2>4. \A f \in Keys : Gives(mail, n + 1, f) <=> f = UrlKey
    BY <2>2 DEF Gives
  <2>5. build' = [f \in BuildKeys |-> IF f \in {UrlKey, "whole"} THEN n + 1 ELSE build[f]]
    BY <1>3 DEF SetUrl, FieldInv
  <2>6. build' \in [BuildKeys -> Nat] /\ \A f \in BuildKeys : build'[f] <= n'
    <3>1. {UrlKey, "whole"} \subseteq BuildKeys
      BY DEF BuildKeys, Keys
    <3> QED
      BY <2>1, <2>5, <3>1, FieldsSet
  <2>7. GivenUpTo(mail, n', build')
    <3>1. \A f \in Keys : build'[f] = IF Gives(mail, n + 1, f) THEN n + 1 ELSE build[f]
      BY <2>4, <2>5, KeyAssumption DEF BuildKeys
    <3> QED
      BY <2>1, <2>2, <3>1, OneMoreLine
  <2>8. stage' = "fields" /\ answer' = "none"
    BY <1>3, <2>1 DEF Goto
  <2> QED
    BY <2>1, <2>3, <2>6, <2>7, <2>8 DEF FieldInv, Stages
<1> QED
  BY <1>2, <1>3 DEF ReadUrl

-----------------------------------------------------------------------------
(* The parser as a whole, and the theorems.                                *)

ParserInv == PlaceInv /\ TitleInv /\ FieldInv

LEMMA ParserInitOK ==
    ASSUME ParserInit
    PROVE  ParserInv
<1>1. PlaceInv
  BY ParserInitPlace
<1>2. TitleInv
  BY DEF ParserInit, TitleInv, Below, AnswerExplained
<1>3. FieldInv
  BY DEF ParserInit, FieldInv, BuildKeys
<1> QED
  BY <1>1, <1>2, <1>3 DEF ParserInv

LEMMA ParseOK ==
    ASSUME ParserInv, Parse
    PROVE  ParserInv'
<1>1. PlaceInv /\ TitleInv /\ FieldInv
  BY DEF ParserInv
<1>2. PlaceInv'
  BY <1>1, HeadersPlace, NextPartPlace, ScanStepPlace DEF Parse, ScanStep
<1>3. TitleInv'
  BY <1>1, HeadersTitle, NextPartTitle, FindTitleTitle, ReadRuleTitle, BelowTitle DEF Parse
<1>4. FieldInv'
  BY <1>1, EarlierFields, PlatformFields, ReadFieldFields, ReadUrlFields DEF Parse
<1> QED
  BY <1>2, <1>3, <1>4 DEF ParserInv

\* What else happens in the parser is that a mail arrives.
LEMMA PostOK ==
    ASSUME ParserInv, stage = "idle", stage' = "received", UNCHANGED <<mail, part, n, build, answer>>
    PROVE  ParserInv'
<1>1. PlaceInv /\ TitleInv /\ FieldInv
  BY DEF ParserInv
<1>2. PlaceInv'
  BY <1>1 DEF PlaceInv, Stages, ReadStages
<1>3. TitleInv'
  BY DEF TitleInv, Below, AnswerExplained
<1>4. FieldInv'
  BY <1>1 DEF FieldInv, Stages, ReadStages
<1> QED
  BY <1>2, <1>3, <1>4 DEF ParserInv

LEMMA ParserStutters ==
    ASSUME ParserInv, UNCHANGED parser
    PROVE  ParserInv'
BY DEF ParserInv, parser, PlaceInv, TitleInv, FieldInv, AnswerExplained, GivenUpTo

LEMMA ParserTypes ==
    ASSUME ParserInv
    PROVE  ParserTypeOK
<1>1. answer \in Answers /\ part \in 1..(Len(mail.parts) + 1) /\ n \in Nat
  BY DEF ParserInv, PlaceInv
<1>2. ASSUME stage \in ReadStages
      PROVE  /\ part \in DOMAIN mail.parts /\ n <= Len(Lines)
             /\ \A f \in DOMAIN build : build[f] <= n
  <2>1. Lines = Body(mail) /\ n <= Len(Body(mail)) /\ part \in TextParts(mail)
    BY <1>2, LinesAreBody DEF ParserInv, PlaceInv
  <2>2. \A f \in DOMAIN build : build[f] <= n
    BY DEF ParserInv, FieldInv
  <2> QED
    BY <2>1, <2>2 DEF TextParts
<1> QED
  BY <1>1, <1>2 DEF ParserTypeOK, ReadStages

\* All lines of the text have been read, so the fields are those of the mail.
LEMMA FieldsOfAll ==
    ASSUME ParserInv
    PROVE  FieldsAsReported
<1>1. SUFFICES ASSUME answer = "build", NEW f \in Keys
               PROVE  LET given == {i \in FieldLines(mail) : Gives(mail, i, f)}
                      IN IF given = {} THEN build[f] = 0
                         ELSE build[f] \in given /\ \A i \in given : i <= build[f]
  BY DEF FieldsAsReported
<1> DEFINE given == {i \in FieldLines(mail) : Gives(mail, i, f)}
           upTo == {i \in FieldLines(mail) : i <= n /\ Gives(mail, i, f)}
<1>2. IF upTo = {} THEN build[f] = 0 ELSE build[f] \in upTo /\ \A i \in upTo : i <= build[f]
  BY <1>1 DEF ParserInv, FieldInv, GivenUpTo
<1>3. \A i \in FieldLines(mail) : i <= n
  <2>1. Body(mail) \in Seq(TextLines) /\ n = Len(Body(mail))
    BY <1>1, BodyType DEF ParserInv, PlaceInv, FieldInv
  <2> QED
    BY <2>1 DEF FieldLines
<1>4. given = upTo
  BY <1>3
<1> HIDE DEF given, upTo
<1>5. IF given = {} THEN build[f] = 0 ELSE build[f] \in given /\ \A i \in given : i <= build[f]
  BY <1>2, <1>4
<1> QED
  BY <1>5 DEF given

-----------------------------------------------------------------------------
(* The tool.                                                               *)

\* The tool exits only after a request for which the server got all of the file
\* and is done with the mail.
ExitedIsIngested == main = "exited" => fetch = "over" /\ delivered

\* Once main waits, the mail is done with; the tool's file server only serves a
\* server that fetches the report of a build.
ToolInv ==
    /\ main \in {"start", "posting", "waiting", "exited", "killed"} /\ wait \in BOOLEAN
    /\ files \in {"closed", "idle", "serving", "signal", "done"} /\ delivered \in BOOLEAN
    /\ fetch \in {"none", "waiting", "over"}
    /\ main = "start" => stage = "idle"
    /\ files \in {"serving", "signal", "done"} => fetch # "none"
    /\ fetch # "none" => answer = "build"
    /\ main = "waiting" => HandlerOver
    /\ ExitedIsIngested

Inv == ParserInv /\ ToolInv

LEMMA ToolStep ==
    ASSUME Inv, Next
    PROVE  ToolInv'
<1> USE DEF ToolInv, HandlerOver, ExitedIsIngested, parser, tool
<1>1. ToolInv
  BY DEF Inv
<1>2. CASE Post
  BY <1>1, <1>2 DEF Post
<1>3. CASE PostReturns
  BY <1>1, <1>3 DEF PostReturns
<1>4. CASE Signal
  BY <1>1, <1>4 DEF Signal
<1>5. CASE FileServer
  <2>1. main # "exited" /\ UNCHANGED <<wait, parser, main, fetch>>
    BY <1>5 DEF FileServer, Listen, Accept, Answer, Alive
  <2>2. delivered' \in BOOLEAN
    <3>1. CASE Listen \/ Accept
      BY <1>1, <3>1 DEF Listen, Accept
    <3>2. CASE Answer
      BY <3>2 DEF Answer
    <3> QED
      BY <1>5, <3>1, <3>2 DEF FileServer
  <2>3. files' \in {"idle", "serving", "signal"} /\ (files' # "idle" => fetch # "none")
    BY <1>1, <1>5 DEF FileServer, Listen, Accept, Answer
  <2> QED
    BY <1>1, <2>1, <2>2, <2>3
<1>6. CASE Reading
  <2>1. stage # "over" /\ stage # "idle" /\ UNCHANGED <<tool, fetch>>
    BY <1>6 DEF Reading, Parse, Headers, NextPart, FindTitle, ReadRule, SkipLine, ReadPlatform,
                ReadField, ReadUrl, Scan, ScanEnds
  <2>2. answer = "none"
    BY <2>1 DEF Inv, ParserInv, PlaceInv
  <2> QED
    BY <1>1, <2>1, <2>2
<1>7. CASE Get
  BY <1>1, <1>7 DEF Get
<1>8. CASE Store \/ GetFails \/ FetchElsewhere
  BY <1>1, <1>8 DEF Store, GetFails, FetchElsewhere
<1>9. CASE Kill
  BY <1>1, <1>9 DEF Kill
<1> QED
  BY <1>2, <1>3, <1>4, <1>5, <1>6, <1>7, <1>8, <1>9 DEF Next, Tool, Server

LEMMA InductiveInvariant == Spec => []Inv
<1>1. Init => Inv
  BY ParserInitOK DEF Init, ParserInit, Inv, ToolInv, HandlerOver, ExitedIsIngested
<1>2. Inv /\ [Next]_vars => Inv'
  <2> SUFFICES ASSUME Inv, [Next]_vars
               PROVE  Inv'
    OBVIOUS
  <2>1. CASE Next
    <3>1. ToolInv'
      BY <2>1, ToolStep
    <3>2. CASE Post
      <4>1. stage = "idle"
        BY <3>2 DEF Inv, ToolInv, Post
      <4> QED
        BY <3>1, <3>2, <4>1, PostOK DEF Inv, Post
    <3>3. CASE Reading
      BY <3>1, <3>3, ParseOK DEF Inv, Reading
    <3>4. CASE UNCHANGED parser
      BY <3>1, <3>4, ParserStutters DEF Inv
    <3> QED
      BY <2>1, <3>2, <3>3, <3>4
         DEF Next, Tool, FileServer, Server, PostReturns, Signal, Listen, Accept, Answer, Get,
             Store, GetFails, FetchElsewhere, Kill, parser
  <2>2. CASE UNCHANGED vars
    <3>1. UNCHANGED parser /\ UNCHANGED <<wait, main, files, delivered, fetch>>
      BY <2>2 DEF vars, tool
    <3>2. ParserInv'
      BY <3>1, ParserStutters DEF Inv
    <3>3. ToolInv'
      BY <3>1 DEF Inv, ToolInv, HandlerOver, ExitedIsIngested, parser
    <3> QED
      BY <3>2, <3>3 DEF Inv
  <2> QED
    BY <2>1, <2>2
<1> QED
  BY <1>1, <1>2, PTL DEF Spec

\* Whatever mails there are, the variables have their types, and the scanner
\* stays inside the part that it reads.
THEOREM TypeCorrect == Spec => []TypeOK
<1>1. Inv => TypeOK
  BY ParserTypes DEF Inv, ToolInv, TypeOK
<1> QED
  BY <1>1, InductiveInvariant, PTL

\* ServeHTTP stores a build, answers 200 or 500 or panics for exactly those
\* mails that AnswerExplained says, with any number of parts and lines.
THEOREM AnswersAreExplained == Spec => []AnswerExplained
<1>1. Inv => AnswerExplained
  BY DEF Inv, ParserInv, TitleInv
<1> QED
  BY <1>1, InductiveInvariant, PTL

\* BuildFromReport takes each field from the last line that gives it, and a line
\* that follows a URL key without a value as a URL and nothing else.
THEOREM FieldsAreReported == Spec => []FieldsAsReported
<1>1. Inv => FieldsAsReported
  BY FieldsOfAll DEF Inv
<1> QED
  BY <1>1, InductiveInvariant, PTL

\* The safety half of ExitsWhenIngested: when btinject exits, the server has the
\* report, because main receives the signal only after the answer to its POST.
THEOREM ExitIsAfterIngest == Spec => []ExitedIsIngested
<1>1. Inv => ExitedIsIngested
  BY DEF Inv, ToolInv
<1> QED
  BY <1>1, InductiveInvariant, PTL
===============================================================================
