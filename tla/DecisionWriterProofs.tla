------------------------ MODULE DecisionWriterProofs ------------------------
(***************************************************************************)
(* The client gets one attempt's answer, whole and once, for any number of *)
(* attempts, any sizes of buffer, bodies and chunks, and any set of        *)
(* statuses the loop retries.  What was buffered is the work of the        *)
(* present attempt only, and what is missing from it is known to have been *)
(* too large.                                                              *)
(***************************************************************************)
EXTENDS DecisionWriter, TLAPS, SequenceTheorems

\* Types, as far as the argument needs them.
Shape ==
    /\ phase \in {"loop", "header", "body", "end", "sent"}
    /\ attempt \in 0 .. MaxAttempts
    /\ produced \in Nat
    /\ code \in Code
    /\ aborted \in BOOLEAN /\ discard \in BOOLEAN /\ directMode \in BOOLEAN

\* The client has a status, a header and a body.
IsClient ==
    client = [status |-> client.status, header |-> client.header,
              body |-> client.body, heads |-> client.heads]

\* The client has nothing.
Untouched == client.status = "none" /\ client.body = <<>> /\ client.heads = 0

\* An attempt begins with an empty buffer, whatever the one before has left.
Begun ==
    /\ phase = "loop" => ~directMode
    /\ phase = "header" =>
        /\ ~directMode /\ code \in {"none", "info"}
        /\ produced = 0 /\ body = <<>> /\ ~discard

\* A buffered answer: the client has nothing until it is committed.
Buffered ==
    ~directMode =>
        /\ code # "ok"
        /\ body \in Seq({attempt})
        /\ IF discard THEN produced > MaxRetryBuf ELSE Len(body) = produced
        /\ phase # "sent" => Untouched
        /\ phase = "sent" =>
            /\ client.heads = 1 /\ client.body = body
            /\ client.status = Sent(code) /\ code # "none"

\* A direct one: the client has all that was produced.
Streamed ==
    directMode =>
        /\ code = "ok" /\ phase \in {"body", "end", "sent"}
        /\ client.status = "ok" /\ client.heads = 1
        /\ client.body \in Seq({attempt})
        /\ Len(client.body) = produced

IInv == Shape /\ IsClient /\ Begun /\ Buffered /\ Streamed

------------------------------------------------------------------------------
(* Bodies *)

\* The units of a chunk are the present attempt's.
LEMMA ChunkOf ==
    ASSUME NEW n \in Nat
    PROVE  Units(n) \in Seq({attempt}) /\ Len(Units(n)) = n
<1> DEFINE F == [i \in 1 .. n |-> attempt]
<1>1. F \in [1 .. n -> {attempt}]
    OBVIOUS
<1>2. F \in Seq({attempt}) /\ Len(F) = n
    BY <1>1
<1>3. QED
    BY <1>2 DEF Units

\* A body grows by a chunk.
LEMMA Grown ==
    ASSUME NEW b \in Seq({attempt}), NEW n \in Nat
    PROVE  /\ b \o Units(n) \in Seq({attempt})
           /\ Len(b \o Units(n)) = Len(b) + n
<1>1. Units(n) \in Seq({attempt}) /\ Len(Units(n)) = n
    BY ChunkOf
<1> HIDE DEF Units
<1>2. QED
    BY <1>1, ConcatProperties

------------------------------------------------------------------------------
(* The steps *)

LEMMA SameClient == IsClient /\ UNCHANGED client => IsClient'
BY DEF IsClient

LEMMA InitIInv == Init => IInv
<1> SUFFICES ASSUME Init PROVE IInv
    OBVIOUS
<1>1. <<>> \in Seq({attempt}) /\ Len(<<>>) = 0
    BY EmptySeq
<1>2. Shape
  <2>1. attempt \in 0 .. MaxAttempts /\ produced \in Nat
      BY WriterAssumption DEF Init
  <2>2. code \in Code /\ phase = "loop"
      BY DEF Init, Code
  <2>3. aborted \in BOOLEAN /\ discard \in BOOLEAN /\ directMode \in BOOLEAN
      BY DEF Init
  <2>4. QED
      BY <2>1, <2>2, <2>3 DEF Shape
<1>3. Begun
    BY DEF Init, Begun
<1>4. IsClient
    BY DEF Init, IsClient
<1>5. Buffered /\ Streamed
    BY <1>1 DEF Init, Buffered, Streamed, Untouched
<1>6. QED
    BY <1>2, <1>3, <1>4, <1>5 DEF IInv

LEMMA BeginStep == IInv /\ BeginAttempt => IInv'
<1> SUFFICES ASSUME IInv, BeginAttempt PROVE IInv'
    OBVIOUS
<1>1. ~directMode /\ ~directMode'
    BY DEF IInv, Begun, BeginAttempt, Reset
<1>2. /\ code' = "none" /\ body' = <<>> /\ discard' = FALSE /\ produced' = 0
      /\ phase' = "header" /\ aborted' = FALSE /\ UNCHANGED client
      /\ attempt' \in 0 .. MaxAttempts /\ phase = "loop"
    BY <1>1, WriterAssumption DEF BeginAttempt, Reset, IInv, Shape
<1>3. <<>> \in Seq({attempt'}) /\ Len(<<>>) = 0
    BY EmptySeq
<1>4. Shape' /\ Begun'
  <2>1. attempt' \in 0 .. MaxAttempts /\ produced' \in Nat
      BY <1>2
  <2>2. code' \in Code
      BY <1>2 DEF Code
  <2>3. /\ aborted' \in BOOLEAN /\ discard' \in BOOLEAN
        /\ directMode' \in BOOLEAN
      BY <1>2 DEF BeginAttempt, Reset, IInv, Shape, dwVars
  <2>4. Shape'
      BY <1>2, <2>1, <2>2, <2>3 DEF Shape
  <2>5. Begun'
      BY <1>1, <1>2 DEF Begun
  <2>6. QED
      BY <2>4, <2>5
<1>5. Buffered' /\ Streamed'
    BY <1>1, <1>2, <1>3 DEF IInv, Buffered, Streamed, Untouched
<1>6. QED
    BY <1>2, <1>4, <1>5, SameClient DEF IInv

\* Steps that move only the request on.
LEMMA LoopStep ==
    IInv /\ (BreakerRefuses \/ UpstreamEnds \/ TryAgain) => IInv'
<1> SUFFICES ASSUME IInv, BreakerRefuses \/ UpstreamEnds \/ TryAgain
             PROVE  IInv'
    OBVIOUS
<1>1. /\ UNCHANGED <<attempt, produced, code, body, discard, directMode, client>>
      /\ aborted' \in BOOLEAN
      /\ phase' \in {"end", "loop"} /\ phase # "sent"
      /\ phase' = "loop" => ~directMode
    BY DEF BreakerRefuses, UpstreamEnds, TryAgain, upVars, dwVars, IInv, Shape
<1>2. Shape' /\ Begun'
    BY <1>1 DEF IInv, Shape, Begun
<1>3. Buffered' /\ Streamed'
    BY <1>1 DEF IInv, Buffered, Streamed, Untouched
<1>4. QED
    BY <1>1, <1>2, <1>3, SameClient DEF IInv

LEMMA InformationalStep == IInv /\ Informational => IInv'
<1> SUFFICES ASSUME IInv, Informational PROVE IInv'
    OBVIOUS
<1>1. /\ UNCHANGED <<phase, attempt, produced, aborted, body, discard, client>>
      /\ phase = "header" /\ ~directMode /\ directMode' = FALSE
      /\ code' = "info"
    BY DEF Informational, WriteHeader, IInv, Shape, Begun, upVars
<1>2. Shape' /\ Begun'
    BY <1>1 DEF IInv, Shape, Begun, Code
<1>3. Buffered' /\ Streamed'
    BY <1>1 DEF IInv, Buffered, Streamed, Untouched
<1>4. QED
    BY <1>1, <1>2, <1>3, SameClient DEF IInv

LEMMA AnswerStep == IInv /\ UpstreamAnswers => IInv'
<1> SUFFICES ASSUME IInv, UpstreamAnswers PROVE IInv'
    OBVIOUS
<1>1. /\ phase = "header" /\ phase' = "body"
      /\ UNCHANGED <<attempt, produced, aborted, body, discard>>
      /\ ~directMode /\ code \in {"none", "info"} /\ produced = 0
      /\ body = <<>> /\ discard = FALSE /\ Untouched
    BY DEF UpstreamAnswers, IInv, Shape, Begun, Buffered
<1>2. PICK st \in Final, h \in {header, Append(header, attempt)} :
          WriteHeader(st, h)
    BY DEF UpstreamAnswers
<1>3. <<>> \in Seq({attempt}) /\ Len(<<>>) = 0 /\ <<>> \o <<>> = <<>>
    BY EmptySeq, ConcatEmptySeq
<1>4. CASE code = "none" /\ st = "ok"
  <2>1. code' = "ok" /\ directMode' = TRUE /\ client' = Deliver("ok", h, <<>>)
      BY <1>2, <1>4 DEF WriteHeader
  <2>2. /\ client'.status = "ok" /\ client'.heads = 1 /\ client'.body = <<>>
        /\ IsClient'
      BY <1>1, <1>3, <2>1 DEF Deliver, Sent, Untouched, IsClient
  <2>3. Shape' /\ Begun'
      BY <1>1, <2>1, <2>2 DEF IInv, Shape, Begun, Code, Final
  <2>4. Buffered' /\ Streamed'
      BY <1>1, <1>3, <2>1, <2>2 DEF Buffered, Streamed
  <2>5. QED
      BY <2>2, <2>3, <2>4 DEF IInv
<1>5. CASE ~(code = "none" /\ st = "ok")
  <2>1. directMode' = FALSE /\ code' \in Code /\ code' # "ok" /\ UNCHANGED client
      BY <1>1, <1>2, <1>5 DEF WriteHeader, Code, IInv, Shape
  <2>2. Shape' /\ Begun'
      BY <1>1, <2>1 DEF IInv, Shape, Begun
  <2>3. Buffered' /\ Streamed'
      BY <1>1, <2>1 DEF IInv, Buffered, Streamed, Untouched
  <2>4. QED
      BY <2>1, <2>2, <2>3, SameClient DEF IInv
<1>6. QED
    BY <1>4, <1>5

\* A buffered write keeps the body whole until it is known to be too large.
LEMMA Written ==
    ASSUME NEW n \in Nat, body \in Seq({attempt}), produced \in Nat,
           IF discard THEN produced > MaxRetryBuf ELSE Len(body) = produced,
           discard' = (discard \/ ~Fits(n)),
           body' = IF discard' THEN body ELSE body \o Units(n),
           produced' = produced + n
    PROVE  /\ body' \in Seq({attempt})
           /\ IF discard' THEN produced' > MaxRetryBuf ELSE Len(body') = produced'
<1>1. /\ body \o Units(n) \in Seq({attempt})
      /\ Len(body \o Units(n)) = Len(body) + n
    BY Grown
<1>2. CASE discard'
  <2>1. body' \in Seq({attempt})
      BY <1>2
  <2>2. CASE discard
      BY <1>2, <2>1, <2>2, WriterAssumption
  <2>3. CASE ~discard
    <3>1. ~(produced + n <= MaxRetryBuf)
        BY <1>2, <2>3 DEF Fits
    <3>2. QED
        BY <1>2, <2>1, <3>1, WriterAssumption
  <2>4. QED
      BY <2>2, <2>3
<1>3. CASE ~discard'
  <2>1. ~discard
      BY <1>3
  <2>2. body' = body \o Units(n) /\ Len(body) = produced
      BY <1>3, <2>1
  <2>3. QED
      BY <1>1, <1>3, <2>2
<1>4. QED
    BY <1>2, <1>3

LEMMA SendStep == IInv /\ UpstreamSends => IInv'
<1> SUFFICES ASSUME IInv, UpstreamSends PROVE IInv'
    OBVIOUS
<1>1. PICK n \in Chunk : produced' = produced + n /\ Write(n)
    BY DEF UpstreamSends
<1>2. n \in Nat \ {0}
    BY WriterAssumption
<1>3. /\ phase = "body" /\ phase' = "body"
      /\ UNCHANGED <<attempt, aborted, code, directMode>>
      /\ produced' \in Nat
    BY <1>1, <1>2 DEF UpstreamSends, Write, IInv, Shape
<1>4. CASE directMode
  <2>1. /\ client' = [client EXCEPT !.body = @ \o Units(n)]
        /\ UNCHANGED <<body, discard>>
      BY <1>1, <1>4 DEF Write
  <2>2. /\ client'.status = client.status /\ client'.heads = client.heads
        /\ client'.body = client.body \o Units(n)
        /\ IsClient'
      BY <2>1 DEF IInv, IsClient
  <2>3. /\ client.body \o Units(n) \in Seq({attempt})
        /\ Len(client.body \o Units(n)) = produced + n
      BY <1>2, <1>4, Grown DEF IInv, Streamed
  <2>4. Shape' /\ Begun'
      BY <1>3, <2>1 DEF IInv, Shape, Begun
  <2>5. Buffered' /\ Streamed'
      BY <1>1, <1>3, <1>4, <2>2, <2>3 DEF IInv, Buffered, Streamed
  <2>6. QED
      BY <2>2, <2>4, <2>5 DEF IInv
<1>5. CASE ~directMode
  <2>1. /\ discard' = (discard \/ ~Fits(n))
        /\ body' = IF discard' THEN body ELSE body \o Units(n)
        /\ UNCHANGED client
      BY <1>1, <1>5 DEF Write
  <2>2. /\ body \in Seq({attempt}) /\ Untouched /\ produced \in Nat /\ code # "ok"
        /\ IF discard THEN produced > MaxRetryBuf ELSE Len(body) = produced
      BY <1>3, <1>5 DEF IInv, Buffered, Shape
  <2>3. discard' \in BOOLEAN
      BY <2>1
  <2>4. /\ body' \in Seq({attempt})
        /\ IF discard' THEN produced' > MaxRetryBuf ELSE Len(body') = produced'
      BY <1>1, <1>2, <2>1, <2>2, Written
  <2>5. Shape' /\ Begun'
      BY <1>3, <2>3 DEF IInv, Shape, Begun
  <2>6. Buffered' /\ Streamed'
      BY <1>3, <1>5, <2>1, <2>2, <2>4 DEF Buffered, Streamed, Untouched
  <2>7. QED
      BY <2>1, <2>5, <2>6, SameClient DEF IInv
<1>6. QED
    BY <1>4, <1>5

LEMMA ErrorStep == IInv /\ ProxyError => IInv'
<1> SUFFICES ASSUME IInv, ProxyError PROVE IInv'
    OBVIOUS
<1>1. /\ phase = "header" /\ phase' = "end" /\ produced' = 1
      /\ ~directMode /\ code \in {"none", "info"}
      /\ body = <<>> /\ discard = FALSE /\ Untouched
      /\ UNCHANGED <<attempt, aborted>>
    BY DEF ProxyError, IInv, Shape, Begun, Buffered
<1>2. directMode' = FALSE /\ code' \in Code /\ code' # "ok" /\ UNCHANGED client
    BY <1>1 DEF ProxyError, WriteHeader, Code, Final, IInv, Shape
<1>3. /\ discard' = (discard \/ ~Fits(1))
      /\ body' = IF discard' THEN body ELSE body \o Units(1)
    BY DEF ProxyError
<1>4. /\ body \in Seq({attempt}) /\ produced = 0
      /\ IF discard THEN produced > MaxRetryBuf ELSE Len(body) = produced
    BY <1>1 DEF ProxyError, IInv, Begun, Buffered
<1>5. /\ body' \in Seq({attempt})
      /\ IF discard' THEN produced' > MaxRetryBuf ELSE Len(body') = produced'
  <2>1. 1 \in Nat /\ produced \in Nat /\ produced' = produced + 1
      BY <1>1, <1>4
  <2>2. QED
      BY <1>3, <1>4, <2>1, Written
<1>6. Shape' /\ Begun'
  <2>1. discard' \in BOOLEAN
      BY <1>3
  <2>2. QED
      BY <1>1, <1>2, <2>1 DEF IInv, Shape, Begun
<1>7. Buffered' /\ Streamed'
    BY <1>1, <1>2, <1>5 DEF Buffered, Streamed, Untouched
<1>8. QED
    BY <1>2, <1>6, <1>7, SameClient DEF IInv

\* What a commit of code c makes of a client that has nothing.
LEMMA Committed ==
    ASSUME Untouched, ~directMode, NEW c, Commit(c),
           body \in Seq({attempt})
    PROVE  /\ client'.status = Sent(c) /\ client'.heads = 1
           /\ client'.body = body /\ IsClient'
<1>1. client' = Deliver(c, header, body)
    BY DEF Commit
<1>2. <<>> \o body = body
    BY ConcatEmptySeq
<1>3. QED
    BY <1>1, <1>2 DEF Deliver, Untouched, IsClient

LEMMA ReturnStep == IInv /\ Return => IInv'
<1> SUFFICES ASSUME IInv, Return PROVE IInv'
    OBVIOUS
<1>1. /\ phase = "end" /\ phase' = "sent"
      /\ UNCHANGED <<attempt, produced, aborted, code, body, discard, directMode>>
    BY DEF Return, upVars, dwVars
<1>2. Shape' /\ Begun'
    BY <1>1 DEF IInv, Shape, Begun
<1>3. CASE directMode
  <2>1. UNCHANGED client
      BY <1>3 DEF Return, Commit
  <2>2. Buffered' /\ Streamed'
      BY <1>1, <1>3, <2>1 DEF IInv, Buffered, Streamed
  <2>3. QED
      BY <1>2, <2>1, <2>2, SameClient DEF IInv
<1>4. CASE ~directMode
  <2>1. /\ Untouched /\ Commit(code) /\ code # "none"
        /\ body \in Seq({attempt})
      BY <1>1, <1>4 DEF Return, Failed, IInv, Buffered
  <2>2. /\ client'.status = Sent(code) /\ client'.heads = 1
        /\ client'.body = body /\ IsClient'
      BY <1>4, <2>1, Committed
  <2>3. Buffered' /\ Streamed'
      BY <1>1, <1>4, <2>1, <2>2 DEF IInv, Buffered, Streamed, Sent
  <2>4. QED
      BY <1>2, <2>2, <2>3 DEF IInv
<1>5. QED
    BY <1>3, <1>4

LEMMA GiveUpStep == IInv /\ GiveUp => IInv'
<1> SUFFICES ASSUME IInv, GiveUp PROVE IInv'
    OBVIOUS
<1>1. /\ phase = "loop" /\ phase' = "sent" /\ code' = "exhausted"
      /\ UNCHANGED <<attempt, produced, aborted, body, discard, directMode>>
      /\ Commit("exhausted")
    BY DEF GiveUp, upVars
<1>2. ~directMode /\ Untouched /\ body \in Seq({attempt})
    BY <1>1 DEF IInv, Begun, Buffered
<1>3. /\ client'.status = Sent("exhausted") /\ client'.heads = 1
      /\ client'.body = body /\ IsClient'
    BY <1>1, <1>2, Committed
<1>4. Shape' /\ Begun'
    BY <1>1 DEF IInv, Shape, Begun, Code
<1>5. Buffered' /\ Streamed'
    BY <1>1, <1>2, <1>3 DEF IInv, Buffered, Streamed, Sent
<1>6. QED
    BY <1>3, <1>4, <1>5 DEF IInv

LEMMA NextIInv == IInv /\ [Next]_vars => IInv'
<1> SUFFICES ASSUME IInv, [Next]_vars PROVE IInv'
    OBVIOUS
<1>1. CASE Over \/ UNCHANGED vars
  <2>1. UNCHANGED <<phase, attempt, produced, aborted, code, body, discard,
                    directMode, client>>
      BY <1>1 DEF Over, vars, upVars, dwVars
  <2>2. Shape' /\ Begun' /\ IsClient'
      BY <2>1, SameClient DEF IInv, Shape, Begun
  <2>3. Buffered' /\ Streamed'
      BY <2>1 DEF IInv, Buffered, Streamed, Untouched
  <2>4. QED
      BY <2>2, <2>3 DEF IInv
<1>2. CASE Next /\ ~Over
    BY <1>2, BeginStep, LoopStep, InformationalStep, AnswerStep, SendStep,
       ErrorStep, ReturnStep, GiveUpStep DEF Next
<1>3. QED
    BY <1>1, <1>2

------------------------------------------------------------------------------
(* The theorems *)

\* The inductive invariant: an attempt begins with an empty buffer, a buffered
\* answer is this attempt's and misses nothing that would have fit, a direct
\* one is with the client.
THEOREM Inductive == Spec => []IInv
<1>1. Init => IInv
    BY InitIInv
<1>2. IInv /\ [Next]_vars => IInv'
    BY NextIInv
<1>3. QED
    BY <1>1, <1>2, PTL DEF Spec

\* The body a client gets is the work of one attempt, the one whose status it
\* comes with (writer.go, reset and commit).
THEOREM BodyIsOne == Spec => []OneBody
<1>1. IInv => OneBody
  <2> SUFFICES ASSUME IInv PROVE OneBody
      OBVIOUS
  <2>1. attempt \in Attempts \cup {0}
      BY WriterAssumption DEF IInv, Shape, Attempts
  <2>2. client.body = <<>> \/ client.body \in Seq({attempt})
      BY DEF IInv, Shape, Buffered, Streamed, Untouched
  <2>3. client.body \in Seq({attempt})
      BY <2>2, EmptySeq
  <2>4. Range(client.body) \subseteq {attempt}
      BY <2>3, ElementOfSeq, LenProperties DEF Range
  <2>5. QED
      BY <2>1, <2>4 DEF OneBody
<1>2. QED
    BY <1>1, Inductive, PTL

\* An answer that fits in the retry buffer arrives whole (writer.go, Write):
\* nothing an earlier attempt buffered or discarded shortens it.
THEOREM BodyIsWhole == Spec => []WholeBody
<1>1. IInv => WholeBody
    BY DEF IInv, Shape, Buffered, Streamed, WholeBody, Sent
<1>2. QED
    BY <1>1, Inductive, PTL

\* The client gets one status line, whatever the loop commits after a direct
\* answer (writer.go, commit).
THEOREM HeadIsOne == Spec => []OneHead
<1>1. IInv => OneHead
    BY DEF IInv, Shape, Buffered, Streamed, Untouched, OneHead
<1>2. QED
    BY <1>1, Inductive, PTL

------------------------------------------------------------------------------
(* The promise *)

\* What the client sees, from where the request is.
Seen ==
    /\ phase # "sent" /\ directMode => View = "streaming"
    /\ phase # "sent" /\ ~directMode => View = "pending"
    /\ phase = "sent" /\ directMode =>
         View = IF aborted THEN "truncated" ELSE "ok"
    /\ phase = "sent" /\ ~directMode =>
         View = IF code = "info" THEN "early" ELSE code

LEMMA ViewIs == IInv => Seen
<1> SUFFICES ASSUME IInv PROVE Seen
    OBVIOUS
<1>1. CASE directMode
    BY <1>1 DEF IInv, Streamed, View, Seen
<1>2. CASE ~directMode /\ phase # "sent"
    BY <1>2 DEF IInv, Buffered, Untouched, View, Seen
<1>3. CASE ~directMode /\ phase = "sent"
  <2>1. client.status = Sent(code) /\ code # "none"
      BY <1>3 DEF IInv, Buffered
  <2>2. QED
      BY <1>3, <2>1 DEF Sent, View, Seen
<1>4. QED
    BY <1>1, <1>2, <1>3

\* A move of the view is a move of the request the promise is about.
LEMMA Moved ==
    ASSUME NEW from, NEW to, View = from, View' = to
    PROVE  Promise!Move("r", from, to)
BY DEF Promise!Move

\* Each step takes the view nowhere, or where the promise lets it go.
LEMMA StepIsPromised ==
    IInv /\ Seen /\ Seen' /\ [Next]_vars => [Promise!Next]_View
<1> SUFFICES ASSUME IInv, Seen, Seen', [Next]_vars
             PROVE  UNCHANGED View \/ Promise!Next
    OBVIOUS
<1>1. CASE Over \/ UNCHANGED vars
    BY <1>1 DEF Over, vars, upVars, dwVars, View
<1>2. CASE BeginAttempt
  <2>1. phase = "loop" /\ phase' = "header" /\ ~directMode /\ ~directMode'
      BY <1>2 DEF BeginAttempt, Reset, IInv, Begun
  <2>2. QED
      BY <2>1 DEF Seen
<1>3. CASE BreakerRefuses \/ UpstreamSends \/ UpstreamEnds \/ TryAgain
  <2>1. phase # "sent" /\ phase' # "sent" /\ UNCHANGED directMode
      BY <1>3 DEF BreakerRefuses, UpstreamSends, UpstreamEnds, TryAgain,
                  Write, dwVars
  <2>2. QED
      BY <2>1 DEF Seen
<1>4. CASE Informational \/ ProxyError
  <2>1. phase = "header" /\ phase' # "sent" /\ ~directMode /\ ~directMode'
      BY <1>4 DEF Informational, ProxyError, WriteHeader, IInv, Begun
  <2>2. QED
      BY <2>1 DEF Seen
<1>5. CASE UpstreamAnswers
  <2>1. phase = "header" /\ phase' = "body" /\ ~directMode
      BY <1>5 DEF UpstreamAnswers, IInv, Begun
  <2>2. View = "pending" /\ View' \in {"pending", "streaming"}
      BY <2>1 DEF Seen
  <2>3. CASE View' = "streaming"
      BY <2>2, <2>3, Moved DEF Promise!Answer, Promise!Next
  <2>4. QED
      BY <2>2, <2>3
<1>6. CASE Return
  <2>1. phase = "end" /\ phase' = "sent" /\ UNCHANGED <<code, directMode, aborted>>
      BY <1>6 DEF Return, upVars, dwVars
  <2>2. CASE directMode
    <3>1. View = "streaming" /\ View' \in {"truncated", "ok"}
        BY <2>1, <2>2 DEF Seen
    <3>2. Promise!Move("r", "streaming", View')
        BY <3>1, Moved
    <3>3. QED
        BY <3>1, <3>2 DEF Promise!Answer, Promise!Next
  <2>3. CASE ~directMode
    <3>1. code \in Promise!Whole \cup {"info"}
        BY <1>6, <2>1, <2>3
        DEF Return, Failed, IInv, Shape, Buffered, Code, Final, Promise!Whole
    <3>2. View = "pending" /\ View' \in Promise!Whole
        BY <2>1, <2>3, <3>1 DEF Seen, Promise!Whole
    <3>3. Promise!Move("r", "pending", View')
        BY <3>2, Moved
    <3>4. QED
        BY <3>2, <3>3 DEF Promise!Answer, Promise!Next
  <2>4. QED
      BY <2>2, <2>3
<1>7. CASE GiveUp
  <2>1. /\ phase = "loop" /\ phase' = "sent" /\ code' = "exhausted"
        /\ ~directMode /\ ~directMode'
      BY <1>7 DEF GiveUp, IInv, Begun
  <2>2. View = "pending" /\ View' = "exhausted"
      BY <2>1 DEF Seen
  <2>3. Promise!Move("r", "pending", "exhausted")
      BY <2>2, Moved
  <2>4. QED
      BY <2>3 DEF Promise!Answer, Promise!Next, Promise!Whole
<1>8. QED
    BY <1>1, <1>2, <1>3, <1>4, <1>5, <1>6, <1>7 DEF Next

\* From the client's side the writer takes the steps of ClientView only: one
\* buffered answer or one stream, and no upstream error passed on
\* (handler.go, proxyWithRetry; writer.go).
THEOREM StepsArePromised == Spec => PromisedSteps
<1>1. IInv => Seen
    BY ViewIs
<1>2. IInv /\ Seen /\ Seen' /\ [Next]_vars => [Promise!Next]_View
    BY StepIsPromised
<1>3. QED
    BY <1>1, <1>2, Inductive, PTL DEF Spec, PromisedSteps
=============================================================================
