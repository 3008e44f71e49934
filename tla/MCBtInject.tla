----------------------------- MODULE MCBtInject -----------------------------
(* Mails for MailParser: what can be wrong around the text, every short     *)
(* text, every short list of fields below a title, and a report that breaks *)
(* off at each of its lines.                                                *)
EXTENDS BtInject

CONSTANTS MaxLines, MaxFields

L(kind, key, val, text) == [kind |-> kind, key |-> key, val |-> val, text |-> text]
Plain(kind) == L(kind, "", "", "")

Other == L("colon", "Wiki", "no", "Wiki: no")
FieldLine(f, val) == L("colon", f, val, "a field")
UrlLine(url) == L("colon", "http", "//", url)

Seqs(S, max) == UNION {[1..k -> S] : k \in 0..max}

Shapes == {Plain(k) : k \in {"title", "rule", "empty", "text"}} \cup {Other}
Heading == <<Plain("title"), Plain("rule"), Plain("empty"), Plain("text")>>
ReportFields == {FieldLine(f, "value") : f \in Fields} \cup
    {FieldLine(UrlKey, v) : v \in {"", "large", "elsewhere"}} \cup
    {UrlLine("large"), UrlLine("small"), Other}

Texts == Seqs(Shapes, MaxLines) \cup {Heading \o fs : fs \in Seqs(ReportFields, MaxFields)}

Mail(header, content, broken, parts) ==
    [header |-> header, content |-> content, broken |-> broken, parts |-> parts]
Part(type, lines, cut) == [type |-> type, lines |-> lines, cut |-> cut]

Report == Heading \o <<FieldLine(UrlKey, ""), UrlLine("large")>>
Html == Part("html", <<Plain("text")>>, FALSE)
BrokenOff == {Part("text", SubSeq(Report, 1, k), TRUE) : k \in 0..Len(Report)}

MCMails ==
    {Mail("good", "text", FALSE, <<Part("text", t, FALSE)>>) : t \in Texts} \cup
    {Mail("good", "text", FALSE, <<p>>) : p \in BrokenOff} \cup
    {Mail(h, "text", FALSE, <<Part("text", Report, FALSE)>>) :
        h \in {"unreadable", "no sender", "majordomo"}} \cup
    {Mail("good", c, b, ps) :
        c \in {"alternative", "bare", "other"}, b \in BOOLEAN,
        ps \in Seqs({Html, Part("text", Report, FALSE), Part("text", <<>>, TRUE)}, 2)}
=============================================================================
