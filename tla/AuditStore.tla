----------------------------- MODULE AuditStore -----------------------------
(***************************************************************************)
(* The audit plugin's SQLite store (plugins/audit/plugin.go): records are  *)
(* buffered under a mutex and written in batches by whichever goroutine    *)
(* flushes: the ticker loop, a goroutine a full buffer starts, a query.    *)
(* SQLite is not part of the repository: it has one write lock, refuses at *)
(* once what it cannot do, and cannot commit beside a reader.              *)
(***************************************************************************)
EXTENDS Naturals, FiniteSets

CONSTANTS
    Rec,       \* audit records, each recorded once by its request
    Query,     \* calls of QueryTraces
    Event,     \* calls of RecordEpisodeEvent
    FlushAt,   \* buffered records that start a flush (50)
    Modes,     \* configured values of audit.store to consider
    Loop,      \* the flushLoop goroutine
    NoOne      \* nobody holds the lock

Flusher == Rec \cup Query \cup {Loop}

ASSUME AuditAssumption ==
    /\ FlushAt \in Nat \ {0}
    /\ Modes \subseteq {"log", "sqlite", "both"}
    /\ Loop \notin Rec \cup Query
    /\ NoOne \notin Flusher \cup Event
    /\ Rec \cap Query = {}

VARIABLES
    mode,      \* Plugin.cfg.Store
    store,     \* "none", "open" or "closed": Plugin.store and its db
    stopping,  \* stopCh is closed
    final,     \* flushLoop has seen it and flushes for the last time
    recorded,  \* history: records handed to Record
    logged,    \* records written to the log
    buf,       \* Store.buf
    table,     \* rows of the audit table
    lost,      \* history: records the store has given up
    mu,        \* who holds Store.mu across a step
    writer,    \* who holds SQLite's write lock
    pc,        \* per flusher
    batch,     \* per flusher: rows still to insert
    written,   \* per flusher: rows inserted, not committed
    due,       \* per query, history: what was stored or buffered when it began
    eventPc    \* per event call

flushVars == <<buf, table, lost, writer, pc, batch, written>>
plugVars == <<mode, store, stopping, final, recorded, logged>>
vars == <<plugVars, mu, flushVars, due, eventPc>>

\* The write lock is held from a transaction's first row to its end only.
TypeOK ==
    /\ mode \in Modes
    /\ store \in {"none", "open", "closed"}
    /\ stopping \in BOOLEAN /\ final \in BOOLEAN
    /\ {recorded, logged, buf, table, lost} \subseteq SUBSET Rec
    /\ mu \in Event \cup {NoOne}
    /\ writer \in Flusher \cup {NoOne}
    /\ pc \in [Flusher -> {"idle", "swap", "begin", "insert", "read", "over"}]
    /\ batch \in [Flusher -> SUBSET Rec]
    /\ written \in [Flusher -> SUBSET Rec]
    /\ due \in [Query -> SUBSET Rec]
    /\ eventPc \in [Event -> {"new", "exec", "stored", "failed"}]
    /\ writer # NoOne => pc[writer] = "insert"

ToLog == mode \in {"log", "both"}
ToStore == mode \in {"sqlite", "both"} /\ store # "none"

\* Plugin.Init: sqlite is opened when the mode asks for it; when that fails only
\* the local copy of the configuration falls back to "log".
Init ==
    /\ mode \in Modes
    /\ store \in IF mode = "log" THEN {"none"} ELSE {"none", "open"}
    /\ stopping = FALSE /\ final = FALSE
    /\ recorded = {} /\ logged = {} /\ buf = {} /\ table = {} /\ lost = {}
    /\ mu = NoOne /\ writer = NoOne
    /\ pc = [p \in Flusher |-> "idle"]
    /\ batch = [p \in Flusher |-> {}]
    /\ written = [p \in Flusher |-> {}]
    /\ due = [q \in Query |-> {}]
    /\ eventPc = [e \in Event |-> "new"]

----------------------------------------------------------------------------
(* Record                                                                  *)

\* Plugin.Record: the log sink, then the buffer; the record that fills the
\* buffer starts a goroutine that flushes it.
Record(r) ==
    /\ r \notin recorded
    /\ ToStore => mu = NoOne
    /\ recorded' = recorded \cup {r}
    /\ logged' = IF ToLog THEN logged \cup {r} ELSE logged
    /\ buf' = IF ToStore THEN buf \cup {r} ELSE buf
    /\ pc' = IF ToStore /\ Cardinality(buf') >= FlushAt
             THEN [pc EXCEPT ![r] = "swap"] ELSE pc
    /\ UNCHANGED <<mode, store, stopping, final, mu, table, lost, writer,
                   batch, written, due, eventPc>>

----------------------------------------------------------------------------
(* Flush                                                                   *)

\* What a flusher does next: the loop waits for its ticker, or ends after its
\* last flush; a query reads.
AfterFlush(p) ==
    IF p \in Query THEN "read"
    ELSE IF p = Loop /\ ~final THEN "idle"
    ELSE "over"

\* Mutant: the buffer is emptied only when the batch is committed.
SwapLater(p) ==
    /\ batch' = [batch EXCEPT ![p] = buf]
    /\ UNCHANGED buf

\* The batch is taken and the buffer replaced under one lock.
TakeBuffer(p) ==
    /\ batch' = [batch EXCEPT ![p] = buf]
    /\ buf' = {}

Swap(p) ==
    /\ pc[p] = "swap" /\ mu = NoOne
    /\ IF buf = {}
       THEN /\ pc' = [pc EXCEPT ![p] = AfterFlush(p)]
            /\ UNCHANGED <<buf, batch>>
       ELSE /\ TakeBuffer(p)
            /\ pc' = [pc EXCEPT ![p] = "begin"]
    /\ UNCHANGED <<plugVars, mu, table, lost, writer, written, due, eventPc>>

\* db.Begin: a closed database refuses it and the batch is gone.
BeginTx(p) ==
    /\ pc[p] = "begin"
    /\ IF store = "open"
       THEN /\ pc' = [pc EXCEPT ![p] = "insert"]
            /\ UNCHANGED <<batch, lost>>
       ELSE /\ pc' = [pc EXCEPT ![p] = AfterFlush(p)]
            /\ lost' = lost \cup batch[p]
            /\ batch' = [batch EXCEPT ![p] = {}]
    /\ UNCHANGED <<plugVars, mu, buf, table, writer, written, due, eventPc>>

\* One INSERT: the first takes the write lock; while another transaction has it
\* the row is refused, the error logged, and the loop goes on.
Insert(p) ==
    /\ pc[p] = "insert"
    /\ \E r \in batch[p] :
          /\ batch' = [batch EXCEPT ![p] = @ \ {r}]
          /\ IF writer \in {NoOne, p}
             THEN /\ writer' = p
                  /\ written' = [written EXCEPT ![p] = @ \cup {r}]
                  /\ UNCHANGED lost
             ELSE /\ lost' = lost \cup {r}
                  /\ UNCHANGED <<writer, written>>
    /\ UNCHANGED <<plugVars, mu, buf, table, pc, due, eventPc>>

Readers == {q \in Query : pc[q] = "read"}

\* Committed or rolled back, the transaction ends.
Release(p) == writer' = IF writer = p THEN NoOne ELSE writer

\* Commit: it may fail while a query reads, and then the rows are gone.
CommitTx(p) ==
    /\ pc[p] = "insert" /\ batch[p] = {}
    /\ \/ /\ table' = table \cup written[p]
          /\ UNCHANGED lost
       \/ /\ Readers # {}
          /\ lost' = lost \cup written[p]
          /\ UNCHANGED table
    /\ written' = [written EXCEPT ![p] = {}]
    /\ Release(p)
    /\ pc' = [pc EXCEPT ![p] = AfterFlush(p)]
    /\ UNCHANGED <<plugVars, mu, buf, batch, due, eventPc>>

\* Mutant: the ticker leaves a buffer that is not full to the next Record.
TickWhenFull == Cardinality(buf) >= FlushAt

\* The ticker fires whatever the buffer holds.
TickReady == TRUE

\* flushLoop: the ticker fires, or stopCh is found closed; either way it
\* flushes, in the second case for the last time.
Tick ==
    /\ store # "none" /\ pc[Loop] = "idle"
    /\ \/ TickReady /\ final' = FALSE
       \/ stopping /\ final' = TRUE
    /\ pc' = [pc EXCEPT ![Loop] = "swap"]
    /\ UNCHANGED <<mode, store, stopping, recorded, logged, mu, buf, table,
                   lost, writer, batch, written, due, eventPc>>

----------------------------------------------------------------------------
(* QueryTraces and RecordEpisodeEvent                                      *)

\* Mutant: a query reads without flushing.
QueryFirst == "read"

QueryEntry == "swap"

\* QueryTraces flushes and then reads.
StartQuery(q) ==
    /\ store # "none" /\ pc[q] = "idle"
    /\ pc' = [pc EXCEPT ![q] = QueryEntry]
    /\ due' = [due EXCEPT ![q] = buf \cup table]
    /\ UNCHANGED <<plugVars, mu, buf, table, lost, writer, batch, written,
                   eventPc>>

\* The rows have been read, or the database is closed.
EndQuery(q) ==
    /\ pc[q] = "read"
    /\ pc' = [pc EXCEPT ![q] = "over"]
    /\ UNCHANGED <<plugVars, mu, buf, table, lost, writer, batch, written,
                   due, eventPc>>

\* RecordEpisodeEvent takes the mutex and keeps it while SQLite works.
BeginEvent(e) ==
    /\ store # "none" /\ eventPc[e] = "new" /\ mu = NoOne
    /\ mu' = e
    /\ eventPc' = [eventPc EXCEPT ![e] = "exec"]
    /\ UNCHANGED <<plugVars, flushVars, due>>

EndEvent(e) ==
    /\ eventPc[e] = "exec"
    /\ \/ /\ store = "open" /\ writer = NoOne
          /\ eventPc' = [eventPc EXCEPT ![e] = "stored"]
       \/ /\ store = "closed" \/ writer # NoOne \/ Readers # {}
          /\ eventPc' = [eventPc EXCEPT ![e] = "failed"]
    /\ mu' = NoOne
    /\ UNCHANGED <<plugVars, flushVars, due>>

----------------------------------------------------------------------------
(* Close, on shutdown and before the server has drained.                   *)

CloseStopCh ==
    /\ store = "open" /\ ~stopping
    /\ stopping' = TRUE
    /\ UNCHANGED <<mode, store, final, recorded, logged, mu, flushVars, due,
                   eventPc>>

\* db.Close: transactions that have begun may finish, no other begins.
CloseDb ==
    /\ store = "open" /\ stopping
    /\ store' = "closed"
    /\ UNCHANGED <<mode, stopping, final, recorded, logged, mu, flushVars,
                   due, eventPc>>

Flush(p) == Swap(p) \/ BeginTx(p) \/ Insert(p) \/ CommitTx(p)

Next ==
    \/ \E r \in Rec : Record(r)
    \/ \E p \in Flusher : Flush(p)
    \/ Tick
    \/ \E q \in Query : StartQuery(q) \/ EndQuery(q)
    \/ \E e \in Event : BeginEvent(e) \/ EndEvent(e)
    \/ CloseStopCh \/ CloseDb

Spec == Init /\ [][Next]_vars

\* Goroutines run, the ticker ticks, a mutex is granted to who keeps waiting.
FairSpec ==
    /\ Spec
    /\ WF_vars(Tick)
    /\ \A p \in Flusher : SF_vars(Swap(p)) /\ WF_vars(Flush(p))
    /\ \A e \in Event : WF_vars(EndEvent(e))

----------------------------------------------------------------------------
(* Properties                                                              *)

\* Every record handed to the store is in exactly one place: the buffer, one
\* goroutine's batch, the table, or among those a refused transaction lost;
\* however flushes, queries and the ticker interleave, none is written twice and
\* none falls between two goroutines.
Conserved ==
    ToStore =>
        LET places == <<buf, table, lost>>
            held(p) == batch[p] \cup written[p]
        IN  /\ recorded = buf \cup table \cup lost \cup UNION {held(p) : p \in Flusher}
            /\ \A i, j \in DOMAIN places : i # j => places[i] \cap places[j] = {}
            /\ \A p \in Flusher :
                  /\ \A i \in DOMAIN places : places[i] \cap held(p) = {}
                  /\ batch[p] \cap written[p] = {}
                  /\ \A q \in Flusher \ {p} : held(p) \cap held(q) = {}

\* A query reads when nothing that was buffered before it is still in the buffer:
\* what it can miss is only in another goroutine's transaction.
QueryReadsItsPast ==
    \A q \in Query : pc[q] = "read" => due[q] \cap buf = {}

\* While the gateway runs every record leaves the buffer and reaches the table,
\* or is lost to a refused transaction; a last one does not wait for a full buffer.
Settles ==
    \A r \in Rec : r \in buf ~> r \in table \cup lost \/ stopping

=============================================================================
