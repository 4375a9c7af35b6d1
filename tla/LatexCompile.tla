---------------------------- MODULE LatexCompile ----------------------------
(***************************************************************************)
(* Compiling one LaTeX source: compile_latex_source in the backend, the    *)
(* compile service of latex-api, and between them the network, which loses *)
(* what it likes, with a proxy that answers for a service that sleeps.     *)
(*                                                                         *)
(* `disturbed` and `slow` are history: the attempts that met a sleeping    *)
(* service, a lost message or the client's timeout, and whether the        *)
(* service failed on a good source.                                        *)
(***************************************************************************)
EXTENDS Integers

VARIABLES
  configured, \* whether there is a LATEX_API_URL
  source,  \* what is to be compiled
  client,  \* where compile_latex_source is
  jobs,    \* the attempts the service is working on
  replies, \* answers under way
  result,  \* what compile_latex_source returns
  disturbed, slow

latexVars == <<configured, source, client, jobs, replies, result, disturbed, slow>>

Attempts == {1, 2}
Results == {"none", "pdf", "no_pdf", "failed"}

\* A PDF, raw or in an envelope; an envelope with an error, or with success and
\* no PDF; the page or the 502 or 503 of the proxy.
Responses == {"pdf", "enveloped", "error", "success", "asleep"}

LatexTypeOK ==
  /\ configured \in BOOLEAN
  /\ source \in {"good", "bad", "no_document"}
  /\ client \in [phase: {"start", "waiting", "pausing", "done"}, attempt: Attempts]
  /\ jobs \subseteq Attempts
  /\ replies \subseteq [attempt: Attempts, answer: Responses]
  /\ result \in Results
  /\ client.phase = "done" <=> result # "none"
  /\ disturbed \subseteq Attempts /\ slow \in BOOLEAN

LatexInit ==
  /\ configured \in BOOLEAN
  /\ source \in {"good", "bad", "no_document"}
  /\ client = [phase |-> "start", attempt |-> 1]
  /\ jobs = {} /\ replies = {}
  /\ result = "none"
  /\ disturbed = {} /\ slow = FALSE

Phase(phase, n) == client = [phase |-> phase, attempt |-> n]
Return(r) == result' = r /\ client' = [client EXCEPT !.phase = "done"]

\* What the answer to an attempt that is not repeated amounts to.
Outcome(answer) ==
  CASE answer \in {"pdf", "enveloped"} -> "pdf"
    [] answer = "success" -> "no_pdf"
    [] OTHER -> "failed"

------------------------------------------------------------------------------
(* compile_latex_source *)

Refuse ==
  /\ Phase("start", 1)
  /\ ~configured \/ source = "no_document"
  /\ Return("failed")
  /\ UNCHANGED <<configured, source, jobs, replies, disturbed, slow>>

\* POST: it arrives, meets the proxy of a sleeping service, or is lost.
Post(n) ==
  /\ client' = [phase |-> "waiting", attempt |-> n]
  /\ \/ jobs' = jobs \cup {n} /\ UNCHANGED <<replies, disturbed>>
     \/ /\ replies' \in {replies, replies \cup {[attempt |-> n, answer |-> "asleep"]}}
        /\ disturbed' = disturbed \cup {n}
        /\ UNCHANGED jobs
  /\ UNCHANGED <<configured, source, result, slow>>

FirstAttempt == Phase("start", 1) /\ configured /\ source # "no_document" /\ Post(1)

\* The second attempt waits a minute longer.
SecondAttempt == Phase("pausing", 2) /\ Post(2)

Pause == client' = [phase |-> "pausing", attempt |-> 2] /\ UNCHANGED result

\* An answer ends it, unless it is the first and the service was asleep.
Receive(n) ==
  /\ Phase("waiting", n)
  /\ \E reply \in replies :
       /\ reply.attempt = n
       /\ IF reply.answer = "asleep" /\ n = 1 THEN Pause ELSE Return(Outcome(reply.answer))
       /\ replies' = replies \ {reply}
  /\ UNCHANGED <<configured, source, jobs, disturbed, slow>>

TimeOut_NotRepeated(n) ==
  /\ Phase("waiting", n)
  /\ Return("failed")
  /\ disturbed' = disturbed \cup {n}
  /\ replies' = {reply \in replies : reply.attempt # n}
  /\ UNCHANGED <<configured, source, jobs, slow>>

\* A timeout or a broken connection; the first is repeated, though the service
\* may still be at work on it.
TimeOut(n) ==
  /\ Phase("waiting", n)
  /\ IF n = 1 THEN Pause ELSE Return("failed")
  /\ disturbed' = disturbed \cup {n}
  /\ replies' = {reply \in replies : reply.attempt # n}
  /\ UNCHANGED <<configured, source, jobs, slow>>

------------------------------------------------------------------------------
(* compile_sync, and the way back *)

\* A good source may take longer than the service allows, or a service of
\* another make may report success without the PDF.
Compile(n) ==
  /\ n \in jobs
  /\ jobs' = jobs \ {n}
  /\ \E answer \in IF source = "good" THEN Responses \ {"asleep"} ELSE {"error"} :
       /\ replies' = IF client.attempt = n /\ client.phase = "waiting"
                     THEN replies \cup {[attempt |-> n, answer |-> answer]} ELSE replies
       /\ slow' = (slow \/ (source = "good" /\ Outcome(answer) # "pdf"))
  /\ UNCHANGED <<configured, source, client, result, disturbed>>

LoseReply ==
  /\ \E reply \in replies : /\ replies' = replies \ {reply}
                            /\ disturbed' = disturbed \cup {reply.attempt}
  /\ UNCHANGED <<configured, source, client, jobs, result, slow>>

LatexNext ==
  \/ Refuse \/ FirstAttempt \/ SecondAttempt
  \/ \E n \in Attempts : Receive(n) \/ TimeOut(n) \/ Compile(n)
  \/ LoseReply

LatexSpec == LatexInit /\ [][LatexNext]_latexVars
------------------------------------------------------------------------------

\* "Retry once" (latex_compile_service.py:54): whatever happens to one of the two
\* attempts, a good source that the service can compile comes back as a PDF, if
\* there is a service; and nothing else does.
OneDisturbanceIsSurvived ==
  /\ result \in {"failed", "no_pdf"} /\ source = "good" =>
       (~configured \/ slow \/ disturbed = Attempts)
  /\ result = "pdf" => source = "good"
==============================================================================
