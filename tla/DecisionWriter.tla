--------------------------- MODULE DecisionWriter ---------------------------
(***************************************************************************)
(* The decisionWriter of one request (internal/core/writer.go): it stands  *)
(* between the reverse proxy and the client over every attempt, buffers an *)
(* answer that may be retried and lets a success through as it comes.      *)
(*                                                                         *)
(* Everything an upstream sends is tagged with the number of its attempt:  *)
(* a body is the sequence of the attempts its units come from, a header    *)
(* the sequence of the attempts that added a Content-Length to it (the     *)
(* first value is the one that counts).  ReverseProxy and net/http are not *)
(* part of the repository; they are modelled by the calls they make.       *)
(***************************************************************************)
EXTENDS Naturals, Sequences, Functions, SequencesExt

CONSTANTS
    MaxAttempts,  \* attempts over all the pools of the request
    MaxRetryBuf,  \* maxRetryBufSize, in units
    MaxBody,      \* bound: units in the body of one answer
    Chunk,        \* sizes of one Write
    Retryable     \* buffered codes the loop retries

ASSUME WriterAssumption ==
    /\ MaxAttempts \in Nat \ {0}
    /\ MaxRetryBuf \in Nat /\ MaxBody \in Nat
    /\ Chunk \subseteq Nat \ {0}

\* Statuses of an upstream's answer; "info" is a 1xx other than 100.
Final == {"ok", "client_error", "error"}
Code == Final \cup {"none", "info", "exhausted"}

VARIABLES
    phase,     \* "loop", "header", "body", "end", or "sent"
    attempt,   \* attempts begun
    upstream,  \* the status the present attempt's upstream really answered
    produced,  \* units of body it has sent
    aborted,   \* its body broke off
    code, header, body, discard, directMode,  \* the writer's fields
    client     \* what the client has: status, header, body and header writes

upVars == <<upstream, produced, aborted>>
dwVars == <<code, header, body, discard, directMode>>
vars == <<phase, attempt, upVars, dwVars, client>>

Attempts == 1 .. MaxAttempts

TypeOK ==
    /\ phase \in {"loop", "header", "body", "end", "sent"}
    /\ attempt \in 0 .. MaxAttempts
    /\ upstream \in Final \cup {"none"}
    /\ produced \in 0 .. MaxBody
    /\ aborted \in BOOLEAN
    /\ code \in Code
    /\ header \in Seq(Attempts)
    /\ body \in Seq(Attempts) /\ Len(body) <= MaxRetryBuf
    /\ discard \in BOOLEAN
    /\ directMode \in BOOLEAN
    /\ client \in [status : Code, header : Seq(Attempts),
                   body : Seq(Attempts), heads : Nat]

Init ==
    /\ phase = "loop" /\ attempt = 0
    /\ upstream = "none" /\ produced = 0 /\ aborted = FALSE
    /\ code = "none" /\ header = <<>> /\ body = <<>>
    /\ discard = FALSE /\ directMode = FALSE
    /\ client = [status |-> "none", header |-> <<>>, body |-> <<>>, heads |-> 0]

----------------------------------------------------------------------------
(* The writer's methods.                                                   *)

\* The status net/http sends for a WriteHeader(c): an informational one is
\* sent ahead and the final status becomes the implicit 200.
Sent(c) == IF c = "info" THEN "ok" ELSE c

\* The client's view after real.WriteHeader(c) with header h and body b.
Deliver(c, h, b) ==
    [status |-> Sent(c), header |-> client.header \o h,
     body |-> client.body \o b, heads |-> client.heads + 1]

\* WriteHeader(c) when the writer's header map is h: the first status wins, and
\* a 2xx/3xx goes straight to the client.
WriteHeader(c, h) ==
    IF code # "none" THEN UNCHANGED <<code, directMode, client>>
    ELSE /\ code' = c
         /\ directMode' = (c = "ok")
         /\ client' = IF c = "ok" THEN Deliver(c, h, <<>>) ELSE client

Units(n) == [i \in 1 .. n |-> attempt]

\* The chunk still fits in the retry buffer.
Fits(n) == Len(body) + n <= MaxRetryBuf

\* Write of n units: passed on in direct mode; otherwise buffered until a chunk
\* does not fit, and from then on dropped.
Write(n) ==
    /\ IF directMode
       THEN /\ client' = [client EXCEPT !.body = @ \o Units(n)]
            /\ UNCHANGED <<body, discard>>
       ELSE /\ discard' = (discard \/ ~Fits(n))
            /\ body' = IF discard' THEN body ELSE body \o Units(n)
            /\ UNCHANGED client
    /\ UNCHANGED <<code, header, directMode>>

\* Mutant: commit does not look at directMode.
CommitTwice(c) == client' = Deliver(c, header, body)

\* commit() when the code is c: the buffered answer goes to the client.
Commit(c) ==
    client' = IF directMode THEN client ELSE Deliver(c, header, body)

\* Mutant: the body of the attempt before stays.
ResetKeepsBody ==
    IF directMode THEN UNCHANGED dwVars
    ELSE /\ code' = "none" /\ discard' = FALSE
         /\ UNCHANGED <<header, body, directMode>>

\* Mutant: the discard flag of the attempt before stays.
ResetKeepsDiscard ==
    IF directMode THEN UNCHANGED dwVars
    ELSE /\ code' = "none" /\ body' = <<>>
         /\ UNCHANGED <<header, discard, directMode>>

\* reset() before an attempt.  The header map is not part of it.
Reset ==
    IF directMode THEN UNCHANGED dwVars
    ELSE /\ code' = "none" /\ body' = <<>> /\ discard' = FALSE
         /\ UNCHANGED <<header, directMode>>

----------------------------------------------------------------------------
(* The proxy loop and the reverse proxy, as far as they touch the writer.  *)

\* proxyWithRetry takes an endpoint and resets the writer.
BeginAttempt ==
    /\ phase = "loop" /\ attempt < MaxAttempts
    /\ attempt' = attempt + 1
    /\ Reset
    /\ upstream' = "none" /\ produced' = 0 /\ aborted' = FALSE
    /\ phase' = "header"
    /\ UNCHANGED client

\* The circuit breaker refuses the call: nothing is written.
BreakerRefuses ==
    /\ phase = "header" /\ code = "none"
    /\ phase' = "end"
    /\ UNCHANGED <<attempt, upVars, dwVars, client>>

\* ReverseProxy passes a 1xx on and then clears the header map.
Informational ==
    /\ phase = "header"
    /\ WriteHeader("info", header)
    /\ header' = <<>>
    /\ UNCHANGED <<phase, attempt, upVars, body, discard>>

\* ReverseProxy adds the answer's header fields to the map and writes its status.
\* An answer may carry a Content-Length or not.
UpstreamAnswers ==
    /\ phase = "header"
    /\ \E st \in Final, h \in {header, Append(header, attempt)} :
          /\ upstream' = st
          /\ header' = h
          /\ WriteHeader(st, h)
    /\ phase' = "body"
    /\ UNCHANGED <<attempt, produced, aborted, body, discard>>

UpstreamSends ==
    /\ phase = "body"
    /\ \E n \in Chunk :
          /\ produced + n <= MaxBody
          /\ produced' = produced + n
          /\ Write(n)
    /\ UNCHANGED <<phase, attempt, upstream, aborted>>

\* The body ends; one that breaks off makes ReverseProxy panic with
\* ErrAbortHandler, which the loop recovers into an error.
UpstreamEnds ==
    /\ phase = "body"
    /\ aborted' \in BOOLEAN
    /\ phase' = "end"
    /\ UNCHANGED <<attempt, upstream, produced, dwVars, client>>

\* No answer: the ErrorHandler calls http.Error with 502, which drops the
\* Content-Length, writes the status and a line of text.
ProxyError ==
    /\ phase = "header"
    /\ upstream' = "error"
    /\ header' = <<>>
    /\ WriteHeader("error", <<>>)
    /\ produced' = 1
    /\ discard' = (discard \/ ~Fits(1))
    /\ body' = IF discard' THEN body ELSE body \o Units(1)
    /\ phase' = "end"
    /\ UNCHANGED <<attempt, aborted>>

\* The attempt returned an error.
Failed == aborted \/ code \in {"none", "error"}

\* An error before the client has anything, or a status to retry, goes on to
\* the next attempt.  (Retryable answers are committed by a pool's last attempt;
\* the writer does not know which one that is.)
TryAgain ==
    /\ phase = "end" /\ ~directMode
    /\ Failed \/ code \in Retryable
    /\ ~Failed => attempt < MaxAttempts
    /\ phase' = "loop"
    /\ UNCHANGED <<attempt, upVars, dwVars, client>>

\* The loop returns, with a commit unless a direct answer broke off.
Return ==
    /\ phase = "end" /\ (directMode \/ ~Failed)
    /\ IF directMode /\ Failed THEN UNCHANGED client ELSE Commit(code)
    /\ phase' = "sent"
    /\ UNCHANGED <<attempt, upVars, dwVars>>

\* Mutant: the exhausted loop commits what the last attempt left.
GiveUpWithLastCode ==
    /\ phase = "loop"
    /\ Commit(IF code = "none" THEN "error" ELSE code)
    /\ phase' = "sent"
    /\ UNCHANGED <<attempt, upVars, dwVars>>

\* Out of attempts, or a pool that has no endpoint to offer: the code is set to
\* 503 and committed, with whatever the last attempt has left in the buffer.
GiveUp ==
    /\ phase = "loop"
    /\ code' = "exhausted"
    /\ Commit("exhausted")
    /\ phase' = "sent"
    /\ UNCHANGED <<attempt, upVars, header, body, discard, directMode>>

\* The request is over.
Over == phase = "sent" /\ UNCHANGED vars

Next ==
    \/ BeginAttempt \/ BreakerRefuses \/ Informational \/ UpstreamAnswers
    \/ UpstreamSends \/ UpstreamEnds \/ ProxyError \/ TryAgain \/ Return
    \/ GiveUp \/ Over

Spec == Init /\ [][Next]_vars

----------------------------------------------------------------------------
(* Properties                                                              *)

\* However many attempts were made, what the client gets as a body is the work
\* of a single one, and the status with it is of the same attempt (the gateway's
\* own 503 carries the text of the last attempt).
OneBody ==
    \E a \in Attempts \cup {0} :
        /\ Range(client.body) \subseteq {a}
        /\ client.status \in {"ok", "client_error"} => a \in {0, attempt}

\* An answer that is small enough for the buffer arrives whole, whatever was
\* buffered or discarded in earlier attempts; only a larger one is cut, and a
\* direct one never is.
WholeBody ==
    phase = "sent" /\ client.status \in {"ok", "client_error"} =>
        \/ Len(client.body) = produced
        \/ ~directMode /\ discard /\ produced > MaxRetryBuf

\* The client's ResponseWriter gets one status line, also when a direct answer
\* is followed by the loop's commit.
OneHead == client.heads <= 1

\* The request as the clients' promise sees it.
View ==
    IF client.status = "none" THEN "pending"
    ELSE IF directMode
    THEN IF phase # "sent" THEN "streaming"
         ELSE IF aborted THEN "truncated" ELSE "ok"
    ELSE IF code = "info" THEN "early" ELSE client.status

Promise == INSTANCE ClientView WITH
    Req <- {"r"},
    view <- [r \in {"r"} |-> View]

\* From the moment it is let in, the request takes the promised steps only: one
\* buffered answer or one stream, and no upstream error passed on.
PromisedSteps == [][Promise!Next]_View

\* handler.go:479 says that the writer is reset for each attempt: the header the
\* client gets is the one of the attempt that answers.
HeaderOfAnswer ==
    client.status \in {"ok", "client_error"} =>
        Range(client.header) \subseteq {attempt}

\* writer.go:13 says that a 5xx or 429 is buffered and never written to the
\* client: a success the client sees is a success of the upstream.
SuccessIsReal ==
    client.status = "ok" => upstream = "ok"
=============================================================================
