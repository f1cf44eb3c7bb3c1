-------------------------- MODULE AuditStoreProofs --------------------------
(***************************************************************************)
(* No record is written twice and none falls between two goroutines, and   *)
(* a query reads what was buffered before it, for any number of records,   *)
(* queries and events and any size of the buffer.  A record that is handed *)
(* to the store for the first time is nowhere yet, because whatever is     *)
(* somewhere has been handed over; from then on a step moves it from one   *)
(* place to one other.                                                     *)
(***************************************************************************)
EXTENDS AuditStore, TLAPS

Held(p) == batch[p] \cup written[p]

\* Types, as far as the argument needs them.
Shape ==
    /\ recorded \subseteq Rec
    /\ pc = [p \in Flusher |-> pc[p]]
    /\ batch \in [Flusher -> SUBSET Rec]
    /\ written \in [Flusher -> SUBSET Rec]
    /\ due = [q \in Query |-> due[q]]

\* What is somewhere has been recorded.
Handed ==
    /\ buf \cup table \cup lost \subseteq recorded
    /\ \A p \in Flusher : Held(p) \subseteq recorded
    /\ \A q \in Query : due[q] \subseteq recorded

\* What has been recorded is somewhere.
Somewhere ==
    ToStore =>
        \A r \in recorded :
            r \in buf \cup table \cup lost \/ \E p \in Flusher : r \in Held(p)

\* No record is in two places.
Apart ==
    /\ buf \cap table = {} /\ buf \cap lost = {} /\ table \cap lost = {}
    /\ \A p \in Flusher :
          /\ Held(p) \cap buf = {} /\ Held(p) \cap table = {}
          /\ Held(p) \cap lost = {}
          /\ batch[p] \cap written[p] = {}
    /\ \A p, q \in Flusher : p # q => Held(p) \cap Held(q) = {}

\* From its swap on, what was there before a query has left the buffer.
Flushed ==
    \A q \in Query :
        pc[q] \in {"begin", "insert", "read"} => due[q] \cap buf = {}

Places == Handed /\ Somewhere /\ Apart

\* Only a flush under way holds records; a record's goroutine is started by it.
Flushing ==
    /\ \A p \in Flusher :
          /\ pc[p] \notin {"begin", "insert"} => batch[p] = {}
          /\ pc[p] # "insert" => written[p] = {}
    /\ \A r \in Rec \ recorded : pc[r] = "idle"

IInv == Shape /\ Places /\ Flushing /\ Flushed

------------------------------------------------------------------------------
(* Steps *)

LEMMA InitIInv == Init => IInv
BY AuditAssumption
DEF Init, IInv, Shape, Places, Handed, Somewhere, Apart, Flushing, Flushed,
    Held, Flusher

\* A step that moves no record.
LEMMA NothingMoves ==
    ASSUME IInv, UNCHANGED <<recorded, buf, table, lost, batch, written>>,
           ToStore' => ToStore, Shape', Flushing', Flushed',
           \A q \in Query : due'[q] \subseteq recorded
    PROVE  IInv'
<1>1. \A p \in Flusher : Held(p)' = Held(p)
    BY DEF Held
<1>2. Handed'
    BY <1>1 DEF IInv, Places, Handed
<1>3. Somewhere'
    BY <1>1 DEF IInv, Places, Somewhere
<1>4. Apart'
    BY <1>1 DEF IInv, Places, Apart
<1>5. QED
    BY <1>2, <1>3, <1>4 DEF IInv, Places

\* A flusher's records go on: to it from the buffer, from it to the table or
\* among the lost; all others stay where they are.
LEMMA OneMoves ==
    ASSUME IInv, NEW p \in Flusher, UNCHANGED <<recorded, due>>,
           ToStore' => ToStore, Shape', Flushing', Flushed',
           \A q \in Flusher \ {p} : Held(q)' = Held(q) /\ batch'[q] = batch[q]
                                    /\ written'[q] = written[q],
           batch'[p] \cap written'[p] = {},
           \/ /\ UNCHANGED <<table, lost>> /\ buf' = {} /\ Held(p)' = Held(p) \cup buf
           \/ /\ UNCHANGED buf
              /\ table \subseteq table' /\ lost \subseteq lost'
              /\ (table' \ table) \cap (lost' \ lost) = {}
              /\ Held(p)' \cap (table' \cup lost') = {}
              /\ Held(p) = Held(p)' \cup (table' \ table) \cup (lost' \ lost)
    PROVE  IInv'
<1>1. Handed'
    BY DEF IInv, Places, Handed
<1>2. Somewhere'
  <2> SUFFICES ASSUME ToStore, NEW r \in recorded
               PROVE  \/ r \in buf' \cup table' \cup lost'
                      \/ \E q \in Flusher : r \in Held(q)'
      BY DEF Somewhere
  <2>1. CASE r \in buf \cup table \cup lost
      BY <2>1
  <2>2. CASE r \in Held(p)
      BY <2>2
  <2>3. CASE \E q \in Flusher \ {p} : r \in Held(q)
      BY <2>3
  <2>4. QED
      BY <2>1, <2>2, <2>3 DEF IInv, Places, Somewhere
<1>3. Apart'
  <2>1. /\ buf' \cap table' = {} /\ buf' \cap lost' = {} /\ table' \cap lost' = {}
        /\ Held(p)' \cap buf' = {} /\ Held(p)' \cap table' = {}
        /\ Held(p)' \cap lost' = {}
      BY DEF IInv, Places, Apart
  <2>2. ASSUME NEW q \in Flusher \ {p}
        PROVE  /\ Held(q)' \cap buf' = {} /\ Held(q)' \cap table' = {}
               /\ Held(q)' \cap lost' = {} /\ Held(q)' \cap Held(p)' = {}
               /\ batch'[q] \cap written'[q] = {}
      BY <2>2 DEF IInv, Places, Apart
  <2>3. \A q, r \in Flusher \ {p} : q # r => Held(q)' \cap Held(r)' = {}
      BY DEF IInv, Places, Apart
  <2>4. QED
      BY <2>1, <2>2, <2>3 DEF Apart
<1>4. QED
    BY <1>1, <1>2, <1>3 DEF IInv, Places

LEMMA RecordStep == ASSUME IInv, NEW r \in Rec, Record(r) PROVE IInv'
<1>1. /\ UNCHANGED <<mode, store, table, lost, batch, written, due>>
      /\ recorded' = recorded \cup {r} /\ r \notin recorded
      /\ buf' = IF ToStore THEN buf \cup {r} ELSE buf
      /\ pc' = [pc EXCEPT ![r] = "swap"] \/ pc' = pc
    BY DEF Record
<1>2. \A p \in Flusher : Held(p)' = Held(p)
    BY <1>1 DEF Held
<1>3. Shape'
    BY <1>1 DEF IInv, Shape
<1>4. Handed'
    BY <1>1, <1>2 DEF IInv, Places, Handed
<1>5. Somewhere'
    BY <1>1, <1>2 DEF IInv, Places, Somewhere, ToStore
<1>6. Apart'
    BY <1>1, <1>2 DEF IInv, Places, Handed, Apart
<1>7. Flushed'
  <2> SUFFICES ASSUME NEW q \in Query, pc'[q] \in {"begin", "insert", "read"}
               PROVE  due[q] \cap buf' = {}
      BY <1>1 DEF Flushed
  <2>1. pc'[q] = pc[q] /\ q \in Flusher
      BY <1>1, AuditAssumption DEF IInv, Shape, Flusher
  <2>2. QED
      BY <1>1, <2>1 DEF IInv, Flushed, Places, Handed
<1>8. Flushing'
    BY <1>1, <1>2 DEF IInv, Shape, Flushing, Flusher
<1>9. QED
    BY <1>3, <1>4, <1>5, <1>6, <1>7, <1>8 DEF IInv, Places

\* A query whose flush goes on past the swap, or ends, has what it had.
LEMMA FlushGoesOn ==
    ASSUME IInv, NEW p \in Flusher, NEW to, pc' = [pc EXCEPT ![p] = to],
           pc[p] \in {"begin", "insert"}, UNCHANGED <<due, buf>>
    PROVE  Flushed'
BY AuditAssumption DEF IInv, Shape, Flushed, Flusher

LEMMA SwapStep == ASSUME IInv, NEW p \in Flusher, Swap(p) PROVE IInv'
<1>1. UNCHANGED <<mode, store, recorded, table, lost, written, due>>
    BY DEF Swap, plugVars
<1>2. PICK to : pc' = [pc EXCEPT ![p] = to]
    BY DEF Swap
<1>0. /\ pc[p] = "swap" /\ batch[p] = {} /\ written[p] = {}
      /\ p \in Rec => p \in recorded
    BY DEF Swap, IInv, Flushing
<1>3. CASE buf = {}
  <2>1. UNCHANGED <<buf, batch>>
      BY <1>3 DEF Swap
  <2>2. Shape' /\ Flushed'
      BY <1>1, <1>2, <1>3, <2>1 DEF IInv, Shape, Flushed
  <2>3. Flushing'
      BY <1>0, <1>1, <1>2, <2>1 DEF IInv, Shape, Flushing, Flusher
  <2>4. QED
      BY <1>1, <2>1, <2>2, <2>3, NothingMoves DEF ToStore, IInv, Places, Handed
<1>4. CASE buf # {}
  <2>1. /\ batch' = [batch EXCEPT ![p] = buf] /\ buf' = {}
        /\ pc' = [pc EXCEPT ![p] = "begin"]
      BY <1>4 DEF Swap, TakeBuffer
  <2>2. Shape' /\ Flushed'
      BY <1>1, <1>2, <2>1 DEF IInv, Shape, Flushed, Places, Handed
  <2>3. /\ \A q \in Flusher \ {p} : batch'[q] = batch[q] /\ written'[q] = written[q]
        /\ batch'[p] = buf /\ written'[p] = written[p]
      BY <1>1, <2>1 DEF IInv, Shape
  <2>4. \A q \in Flusher \ {p} : Held(q)' = Held(q)
      BY <2>3 DEF Held
  <2>5. Held(p)' = Held(p) \cup buf
      BY <1>0, <2>3 DEF Held
  <2>6. batch'[p] \cap written'[p] = {}
      BY <2>3 DEF IInv, Places, Apart, Held
  <2>7. Flushing'
      BY <1>0, <1>1, <2>1, <2>3 DEF IInv, Shape, Flushing, Flusher
  <2>8. QED
      BY <1>1, <2>1, <2>2, <2>3, <2>4, <2>5, <2>6, <2>7, OneMoves DEF ToStore
<1>5. QED
    BY <1>3, <1>4

LEMMA BeginStep == ASSUME IInv, NEW p \in Flusher, BeginTx(p) PROVE IInv'
<1>1. /\ UNCHANGED <<mode, store, recorded, buf, table, written, due>>
      /\ pc[p] = "begin"
    BY DEF BeginTx, plugVars
<1>2. PICK to : /\ pc' = [pc EXCEPT ![p] = to]
                /\ \/ to = "insert" /\ UNCHANGED <<batch, lost>>
                   \/ /\ to \in {"read", "idle", "over"}
                      /\ lost' = lost \cup batch[p]
                      /\ batch' = [batch EXCEPT ![p] = {}]
    BY DEF BeginTx, AfterFlush
<1>3. Flushed'
    BY <1>1, <1>2, FlushGoesOn
<1>4. CASE to = "insert" /\ UNCHANGED <<batch, lost>>
  <2>1. Shape' /\ Flushing'
      BY <1>1, <1>2, <1>4 DEF IInv, Shape, Flushing, Flusher
  <2>2. QED
      BY <1>1, <1>3, <1>4, <2>1, NothingMoves DEF ToStore, IInv, Places, Handed
<1>5. CASE /\ to \in {"read", "idle", "over"}
           /\ lost' = lost \cup batch[p]
           /\ batch' = [batch EXCEPT ![p] = {}]
  <2>1. Shape'
      BY <1>1, <1>2, <1>5 DEF IInv, Shape
  <2>2. /\ \A q \in Flusher \ {p} : batch'[q] = batch[q] /\ written'[q] = written[q]
        /\ batch'[p] = {} /\ written'[p] = written[p]
      BY <1>1, <1>5 DEF IInv, Shape
  <2>3. /\ \A q \in Flusher \ {p} : Held(q)' = Held(q)
        /\ Held(p)' = written[p]
      BY <2>2 DEF Held
  <2>4. /\ Held(p) = Held(p)' \cup (table' \ table) \cup (lost' \ lost)
        /\ Held(p)' \cap (table' \cup lost') = {}
      BY <1>1, <1>5, <2>3 DEF IInv, Places, Apart, Held
  <2>5. Flushing'
      BY <1>1, <1>2, <1>5, <2>2 DEF IInv, Shape, Flushing, Flusher
  <2>6. QED
      BY <1>1, <1>3, <1>5, <2>1, <2>2, <2>3, <2>4, <2>5, OneMoves DEF ToStore
<1>6. QED
    BY <1>2, <1>4, <1>5

LEMMA InsertStep == ASSUME IInv, NEW p \in Flusher, Insert(p) PROVE IInv'
<1>1. /\ UNCHANGED <<mode, store, recorded, buf, table, due, pc>>
      /\ pc[p] = "insert"
    BY DEF Insert, plugVars
<1>2. PICK r \in batch[p] :
          /\ batch' = [batch EXCEPT ![p] = @ \ {r}]
          /\ \/ written' = [written EXCEPT ![p] = @ \cup {r}] /\ lost' = lost
             \/ written' = written /\ lost' = lost \cup {r}
    BY DEF Insert
<1>3. Shape' /\ Flushed'
    BY <1>1, <1>2 DEF IInv, Shape, Flushed
<1>4. /\ \A q \in Flusher \ {p} : batch'[q] = batch[q] /\ written'[q] = written[q]
      /\ batch'[p] = batch[p] \ {r}
      /\ \/ written'[p] = written[p] \cup {r} /\ lost' = lost
         \/ written'[p] = written[p] /\ lost' = lost \cup {r}
    BY <1>2 DEF IInv, Shape
<1>5. \A q \in Flusher \ {p} : Held(q)' = Held(q)
    BY <1>4 DEF Held
<1>6. batch'[p] \cap written'[p] = {}
    BY <1>4 DEF IInv, Places, Apart
<1>7. /\ Held(p) = Held(p)' \cup (table' \ table) \cup (lost' \ lost)
      /\ Held(p)' \cap (table' \cup lost') = {}
    BY <1>1, <1>4 DEF IInv, Places, Apart, Held
<1>8. Flushing'
    BY <1>1, <1>4 DEF IInv, Flushing
<1>9. QED
    BY <1>1, <1>3, <1>4, <1>5, <1>6, <1>7, <1>8, OneMoves DEF ToStore

LEMMA CommitStep == ASSUME IInv, NEW p \in Flusher, CommitTx(p) PROVE IInv'
<1>1. /\ UNCHANGED <<mode, store, recorded, buf, due, batch>>
      /\ pc[p] = "insert" /\ batch[p] = {}
      /\ written' = [written EXCEPT ![p] = {}]
      /\ pc' = [pc EXCEPT ![p] = AfterFlush(p)]
      /\ AfterFlush(p) \in {"read", "idle", "over"}
    BY DEF CommitTx, plugVars, AfterFlush
<1>2. \/ table' = table \cup written[p] /\ lost' = lost
      \/ lost' = lost \cup written[p] /\ table' = table
    BY DEF CommitTx
<1>3. Shape'
    BY <1>1 DEF IInv, Shape
<1>4. Flushed'
    BY <1>1, FlushGoesOn
<1>5. /\ \A q \in Flusher \ {p} : batch'[q] = batch[q] /\ written'[q] = written[q]
      /\ batch'[p] = {} /\ written'[p] = {}
    BY <1>1 DEF IInv, Shape
<1>6. \A q \in Flusher \ {p} : Held(q)' = Held(q)
    BY <1>5 DEF Held
<1>7. /\ Held(p) = Held(p)' \cup (table' \ table) \cup (lost' \ lost)
      /\ Held(p)' \cap (table' \cup lost') = {}
      /\ (table' \ table) \cap (lost' \ lost) = {}
    BY <1>1, <1>2, <1>5 DEF IInv, Places, Apart, Held
<1>8. Flushing'
    BY <1>1, <1>5 DEF IInv, Shape, Flushing, Flusher
<1>9. QED
    BY <1>1, <1>2, <1>3, <1>4, <1>5, <1>6, <1>7, <1>8, OneMoves DEF ToStore

\* Steps that move no record.
LEMMA OtherStep ==
    ASSUME IInv,
           \/ Tick \/ CloseStopCh \/ CloseDb \/ UNCHANGED vars
           \/ \E q \in Query : EndQuery(q)
           \/ \E e \in Event : BeginEvent(e) \/ EndEvent(e)
    PROVE  IInv'
<1>1. UNCHANGED <<recorded, buf, table, lost, batch, written, due>>
    BY DEF Tick, CloseStopCh, CloseDb, EndQuery, BeginEvent, EndEvent,
           flushVars, plugVars, vars
<1>2. ToStore' => ToStore
    BY DEF Tick, CloseStopCh, CloseDb, EndQuery, BeginEvent, EndEvent,
           plugVars, vars, ToStore
<1>3. \/ UNCHANGED pc
      \/ pc[Loop] = "idle" /\ pc' = [pc EXCEPT ![Loop] = "swap"]
      \/ \E q \in Query : pc[q] = "read" /\ pc' = [pc EXCEPT ![q] = "over"]
    BY DEF Tick, CloseStopCh, CloseDb, EndQuery, BeginEvent, EndEvent,
           flushVars, vars
<1>4. Shape' /\ Flushed'
    BY <1>1, <1>3, AuditAssumption DEF IInv, Shape, Flushed, Flusher
<1>5. Flushing'
    BY <1>1, <1>3, AuditAssumption DEF IInv, Shape, Flushing, Flusher
<1>6. QED
    BY <1>1, <1>2, <1>4, <1>5, NothingMoves DEF IInv, Places, Handed

LEMMA QueryStep == ASSUME IInv, NEW q \in Query, StartQuery(q) PROVE IInv'
<1>1. /\ UNCHANGED <<mode, store, recorded, buf, table, lost, batch, written>>
      /\ pc' = [pc EXCEPT ![q] = "swap"]
      /\ due' = [due EXCEPT ![q] = buf \cup table] /\ pc[q] = "idle"
    BY DEF StartQuery, plugVars, QueryEntry
<1>2. Shape' /\ Flushed'
    BY <1>1 DEF IInv, Shape, Flushed, Flusher
<1>3. \A x \in Query : due'[x] \subseteq recorded
    BY <1>1 DEF IInv, Shape, Places, Handed
<1>4. Flushing'
    BY <1>1, AuditAssumption DEF IInv, Shape, Flushing, Flusher
<1>5. QED
    BY <1>1, <1>2, <1>3, <1>4, NothingMoves DEF ToStore

LEMMA NextIInv == ASSUME IInv, [Next]_vars PROVE IInv'
BY RecordStep, SwapStep, BeginStep, InsertStep, CommitStep, QueryStep, OtherStep
DEF Next, Flush

------------------------------------------------------------------------------
(* The theorems *)

\* The inductive invariant: what is somewhere has been handed over, what has
\* been handed over is in one place, and a query past its swap has nothing of
\* its past in the buffer.
THEOREM Inductive == Spec => []IInv
<1>1. Init => IInv
    BY InitIInv
<1>2. IInv /\ [Next]_vars => IInv'
    BY NextIInv
<1>3. QED
    BY <1>1, <1>2, PTL DEF Spec

\* Flushing (plugin.go, Store.flush) neither loses nor doubles a record, however
\* the ticker, full buffers and queries interleave.
THEOREM NoRecordTwice == Spec => []Conserved
<1>1. IInv => Conserved
  <2> SUFFICES ASSUME IInv, ToStore PROVE Conserved
      BY DEF Conserved
  <2> DEFINE places == <<buf, table, lost>>
             held(p) == batch[p] \cup written[p]
  <2>1. \A p \in Flusher : held(p) = Held(p)
      BY DEF Held
  <2>2. recorded = buf \cup table \cup lost \cup UNION {held(p) : p \in Flusher}
      BY DEF IInv, Places, Handed, Somewhere, Held
  <2>3. \A i, j \in DOMAIN places : i # j => places[i] \cap places[j] = {}
      BY DEF IInv, Places, Apart
  <2>4. \A p \in Flusher : \A i \in DOMAIN places : places[i] \cap held(p) = {}
      BY DEF IInv, Places, Apart, Held
  <2>5. \A p \in Flusher :
            /\ batch[p] \cap written[p] = {}
            /\ \A q \in Flusher \ {p} : held(p) \cap held(q) = {}
      BY DEF IInv, Places, Apart, Held
  <2>6. QED
      BY <2>2, <2>3, <2>4, <2>5 DEF Conserved
<1>2. QED
    BY <1>1, Inductive, PTL

\* QueryTraces reads when what was buffered before it has left the buffer,
\* whoever has flushed it.
THEOREM QueriesReadTheirPast == Spec => []QueryReadsItsPast
<1>1. IInv => QueryReadsItsPast
    BY DEF IInv, Flushed, QueryReadsItsPast
<1>2. QED
    BY <1>1, Inductive, PTL
=============================================================================
