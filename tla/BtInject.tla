------------------------------ MODULE BtInject ------------------------------
(***************************************************************************)
(* The tool src/testing/btinject/btinject.go together with the server that *)
(* it tests.  main posts a mail and waits for the answer; the server's     *)
(* mail handler (MailParser, then FetchReport) reads the mail and asks for *)
(* the report at the URL in it, where the tool itself may be the server;   *)
(* the tool's file server answers and signals on an unbuffered channel;    *)
(* main receives from the channel only after the answer to its POST.       *)
(*                                                                         *)
(* net/http keeps an answer in its buffer until the handler returns, but   *)
(* hands a regular file of 512 bytes or more to the connection at once.    *)
(***************************************************************************)
EXTENDS MailParser

CONSTANTS LargeFiles,   \* URLs of files of the tool that are 512 bytes or more
          SmallFiles,   \* other URLs at the tool: less, or a 404
          Elsewhere     \* URLs of other servers

Local == LargeFiles \cup SmallFiles

ASSUME FileAssumption ==
    /\ LargeFiles \cap SmallFiles = {} /\ Elsewhere \cap Local = {}
    /\ "" \notin Local \cup Elsewhere

VARIABLES wait,        \* the flag of the tool
          main,        \* of the tool
          files,       \* the tool's file server: where its handler is
          delivered,   \* the server has got all of the file
          fetch        \* FetchReport at the server

tool == <<wait, main, files, delivered>>
vars == <<parser, tool, fetch>>

Alive == main \notin {"exited", "killed"}

Init ==
    /\ ParserInit
    /\ wait \in BOOLEAN /\ main = "start" /\ files = "closed" /\ delivered = FALSE /\ fetch = "none"

\* ListenAndServe, in a goroutine: nobody waits until the port is open.
Listen ==
    /\ files = "closed" /\ Alive
    /\ files' = "idle"
    /\ UNCHANGED <<wait, parser, main, delivered, fetch>>

\* http.Post
Post ==
    /\ main = "start"
    /\ main' = "posting" /\ stage' = "received"
    /\ UNCHANGED <<wait, mail, part, n, build, answer, files, delivered, fetch>>

Reading == Parse /\ UNCHANGED <<tool, fetch>>

\* PutBuild, whatever comes of it, and then client.Get(url).
Get ==
    /\ answer = "build" /\ fetch = "none"
    /\ fetch' = "waiting"
    /\ UNCHANGED <<parser, tool>>

\* The request reaches the tool's handler.
Accept ==
    /\ fetch = "waiting" /\ ReportUrl \in Local /\ Alive /\ files = "idle"
    /\ files' = "serving"
    /\ UNCHANGED <<wait, parser, main, delivered, fetch>>

\* The signal first, then the answer.
SignalFirst ==
    /\ files = "serving" /\ Alive
    /\ files' = "signal"
    /\ UNCHANGED <<wait, parser, main, delivered, fetch>>

\* f.h.ServeHTTP(w, req)
Answer ==
    /\ files = "serving" /\ Alive
    /\ files' = "signal" /\ delivered' = (ReportUrl \in LargeFiles)
    /\ UNCHANGED <<wait, parser, main, fetch>>

\* FetchReport has the report, and stores it.
Store ==
    /\ fetch = "waiting" /\ delivered
    /\ fetch' = "over"
    /\ UNCHANGED <<parser, tool>>

\* What is there is not a URL, or the tool does not listen any more, or not yet.
GetFails ==
    /\ fetch = "waiting"
    /\ \/ ReportUrl \notin Local \cup Elsewhere
       \/ ReportUrl \in Local /\ (~Alive \/ files = "closed")
    /\ fetch' = "over"
    /\ UNCHANGED <<parser, tool>>

\* The end, if any, of a fetch from another server.
FetchElsewhere ==
    /\ fetch = "waiting" /\ ReportUrl \in Elsewhere
    /\ fetch' = "over"
    /\ UNCHANGED <<parser, tool>>

HandlerOver == answer \in {"200", "500", "panic"} \/ fetch = "over"

\* The POST returns: an answer, or a connection that was dropped.  main logs
\* an error and goes on.
PostReturns ==
    /\ main = "posting" /\ HandlerOver
    /\ main' = "waiting"
    /\ UNCHANGED <<wait, parser, files, delivered, fetch>>

\* main takes the signal although the POST is still under way.
SignalAnytime ==
    /\ files = "signal" /\ main \in {"posting", "waiting"}
    /\ files' = "done" /\ delivered' = TRUE
    /\ main' = IF wait THEN "waiting" ELSE "exited"
    /\ UNCHANGED <<wait, parser, fetch>>

\* f.Ch <- true meets <-ch; the handler returns and its answer is flushed.
Signal ==
    /\ files = "signal" /\ main = "waiting"
    /\ files' = "done" /\ delivered' = TRUE
    /\ main' = IF wait THEN "waiting" ELSE "exited"
    /\ UNCHANGED <<wait, parser, fetch>>

\* Somebody interrupts the tool, or it cannot listen at its port: log.Fatal.
Kill ==
    /\ Alive
    /\ main' = "killed"
    /\ UNCHANGED <<wait, parser, files, delivered, fetch>>

Tool == Post \/ PostReturns \/ Signal
FileServer == Listen \/ Accept \/ Answer
Server == Reading \/ Get \/ Store \/ GetFails

Next == Tool \/ FileServer \/ Server \/ FetchElsewhere \/ Kill

(***************************************************************************)
(* Goroutines run, and a connection that is refused or reset fails.  A     *)
(* fetch from elsewhere may take for ever, and nobody need kill the tool.  *)
(***************************************************************************)
Spec == Init /\ [][Next]_vars /\ WF_vars(Tool) /\ WF_vars(FileServer) /\ WF_vars(Server)

-----------------------------------------------------------------------------
TypeOK ==
    /\ ParserTypeOK
    /\ main \in {"start", "posting", "waiting", "exited", "killed"}
    /\ wait \in BOOLEAN /\ files \in {"closed", "idle", "serving", "signal", "done"} /\ delivered \in BOOLEAN
    /\ fetch \in {"none", "waiting", "over"}

\* main waits for the POST, the POST for the fetch, the fetch for the end of an
\* answer, and the handler that would end it for main.
CircularWait ==
    main = "posting" /\ fetch = "waiting" /\ files = "signal" /\ ~delivered

\* The POST comes back, whatever the mail is: unless the report is too small to
\* leave the buffer, which is a circular wait for good, or is elsewhere, from
\* where it may take for ever.
PostEnds ==
    main = "posting" ~>
        \/ main # "posting"
        \/ CircularWait /\ ReportUrl \in SmallFiles
        \/ fetch = "waiting" /\ ReportUrl \in Elsewhere

\* "Wait for callback, then exit": once the server has asked the tool for a
\* report that it can deliver, the tool exits; and it does not exit before.  (A
\* mail that is refused, or a request that comes before the port is open, leaves
\* it waiting for a callback that never comes.)
ExitsWhenIngested ==
    /\ [](main = "exited" => fetch = "over" /\ delivered)
    /\ (files = "serving" /\ ReportUrl \in LargeFiles /\ ~wait) ~> ~Alive
=============================================================================
