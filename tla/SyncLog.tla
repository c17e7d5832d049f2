------------------------------ MODULE SyncLog ------------------------------
(***************************************************************************)
(* The replay of missed events: sync_events in app/services/messages.py    *)
(* over the conversation_events table of 0001_init.sql.                    *)
(*                                                                         *)
(* Writers are transactions of send, edit and delete (Messages has their   *)
(* content).  Three things are assigned to an event at three moments:      *)
(* created_at is now(), the start of the transaction; the sequence number  *)
(* comes under the conversation's row lock; the BIGSERIAL id comes at the  *)
(* insert, and is not given back by a rollback.                            *)
(*                                                                         *)
(* Time is an integer that Tick advances.  One user reads; Mine are the    *)
(* conversations it is a member of throughout.                             *)
(***************************************************************************)
EXTENDS Integers, FiniteSets

CONSTANTS
  Writers, Conversations,
  Mine,       \* the conversations the reader is a member of
  Lag,        \* the interval of the created_at guard
  Limit,      \* rows in a page
  MaxOpen,    \* bound: the longest a writer's transaction stays open
  MaxTime,    \* bound on the clock
  None

ASSUME SyncAssumption ==
  /\ Mine \subseteq Conversations
  /\ Lag \in Nat /\ Limit \in Nat \ {0} /\ MaxOpen \in Nat /\ MaxTime \in Nat
  /\ None \notin Writers \cup Conversations \cup Nat

VARIABLES
  now,
  phase, conv, start, seq, id,  \* per writer: its transaction and its event
  ended,      \* when a writer committed; the code does not keep it
  holder,     \* the writer that holds the conversation's row
  lastSeq,    \* conversations.last_seq
  nextId,     \* the id sequence of conversation_events
  syncStart,  \* now() of the reader's transaction, None between two calls
  cursor,     \* the cursor the client holds
  delivered   \* events the client has been given

tx == <<phase, conv, start, seq, id, ended>>
reader == <<syncStart, cursor, delivered>>
vars == <<now, tx, holder, lastSeq, nextId, reader>>

Phase == {"idle", "open", "locked", "inserted", "committed", "aborted"}

TypeOK ==
  /\ now \in Nat
  /\ phase \in [Writers -> Phase]
  /\ conv \in [Writers -> Conversations \cup {None}]
  /\ start \in [Writers -> Nat]
  /\ seq \in [Writers -> Nat]
  /\ id \in [Writers -> Nat]
  /\ ended \in [Writers -> Nat]
  /\ holder \in [Conversations -> Writers \cup {None}]
  /\ lastSeq \in [Conversations -> Nat]
  /\ nextId \in Nat
  /\ syncStart \in Nat \cup {None}
  /\ cursor \in Nat
  /\ delivered \subseteq Writers

Init ==
  /\ now = 0
  /\ phase = [w \in Writers |-> "idle"]
  /\ conv = [w \in Writers |-> None]
  /\ start = [w \in Writers |-> 0]
  /\ seq = [w \in Writers |-> 0]
  /\ id = [w \in Writers |-> 0]
  /\ ended = [w \in Writers |-> 0]
  /\ holder = [c \in Conversations |-> None]
  /\ lastSeq = [c \in Conversations |-> 0]
  /\ nextId = 1
  /\ syncStart = None
  /\ cursor = 0
  /\ delivered = {}

Open == {w \in Writers : phase[w] \in {"open", "locked", "inserted"}}
Committed == {w \in Writers : phase[w] = "committed"}

-----------------------------------------------------------------------------
(* Writers.                                                                *)

(* The first statement of the request starts the transaction.              *)
Begin(w, c) ==
  /\ phase[w] = "idle"
  /\ phase' = [phase EXCEPT ![w] = "open"]
  /\ conv' = [conv EXCEPT ![w] = c]
  /\ start' = [start EXCEPT ![w] = now]
  /\ UNCHANGED <<now, seq, id, ended, holder, lastSeq, nextId, reader>>

(* Mutant: the number is read without the row lock.                        *)
AllocSeqUnlocked(w) ==
  /\ phase[w] = "open"
  /\ phase' = [phase EXCEPT ![w] = "locked"]
  /\ seq' = [seq EXCEPT ![w] = lastSeq[conv[w]] + 1]
  /\ UNCHANGED <<now, conv, start, id, ended, holder, lastSeq, nextId, reader>>

(* next_conversation_seq waits for the row and keeps it until the end.     *)
AllocSeq(w) ==
  /\ phase[w] = "open" /\ holder[conv[w]] = None
  /\ phase' = [phase EXCEPT ![w] = "locked"]
  /\ holder' = [holder EXCEPT ![conv[w]] = w]
  /\ seq' = [seq EXCEPT ![w] = lastSeq[conv[w]] + 1]
  /\ UNCHANGED <<now, conv, start, id, ended, lastSeq, nextId, reader>>

Insert(w) ==
  /\ phase[w] = "locked"
  /\ phase' = [phase EXCEPT ![w] = "inserted"]
  /\ id' = [id EXCEPT ![w] = nextId]
  /\ nextId' = nextId + 1
  /\ UNCHANGED <<now, conv, start, seq, ended, holder, lastSeq, reader>>

Commit(w) ==
  /\ phase[w] = "inserted"
  /\ phase' = [phase EXCEPT ![w] = "committed"]
  /\ ended' = [ended EXCEPT ![w] = now]
  /\ lastSeq' = [lastSeq EXCEPT ![conv[w]] = seq[w]]
  /\ holder' = [holder EXCEPT ![conv[w]] = None]
  /\ UNCHANGED <<now, conv, start, seq, id, nextId, reader>>

(* A duplicate key, a timeout or a lost connection: all is undone but the  *)
(* id that nextval has given out.                                          *)
Abort(w) ==
  /\ w \in Open
  /\ phase' = [phase EXCEPT ![w] = "aborted"]
  /\ holder' = [c \in Conversations |-> IF holder[c] = w THEN None ELSE holder[c]]
  /\ UNCHANGED <<now, conv, start, seq, id, ended, lastSeq, nextId, reader>>

-----------------------------------------------------------------------------
(* The reader.                                                             *)

(* now() of the reader is the start of its transaction, which the          *)
(* authentication of the request begins; the page is read later.           *)
BeginSync ==
  /\ syncStart = None
  /\ syncStart' = now
  /\ UNCHANGED <<now, tx, holder, lastSeq, nextId, cursor, delivered>>

(* Mutant: no created_at guard.                                            *)
VisibleAtOnce == {w \in Committed : id[w] > cursor /\ conv[w] \in Mine}

(* The rows the WHERE clause selects.                                      *)
Visible ==
  {w \in Committed : id[w] > cursor /\ conv[w] \in Mine /\ start[w] < syncStart - Lag}

(* ORDER BY id LIMIT.                                                      *)
Page == {w \in Visible : Cardinality({v \in Visible : id[v] <= id[w]}) <= Limit}

(* Mutant: the rows come in descending order.                              *)
IsLastDescending(w) == \A v \in Page : id[w] <= id[v]

IsLast(w) == \A v \in Page : id[v] <= id[w]

(* Mutant: the cursor of an empty page.                                    *)
ReadPageUnguarded ==
  /\ syncStart # None
  /\ delivered' = delivered \cup Page
  /\ IF Page = {} THEN cursor' = None ELSE \E w \in Page : IsLast(w) /\ cursor' = id[w]
  /\ syncStart' = None
  /\ UNCHANGED <<now, tx, holder, lastSeq, nextId>>

ReadPage ==
  /\ syncStart # None
  /\ delivered' = delivered \cup Page
  /\ IF Page = {} THEN UNCHANGED cursor ELSE \E w \in Page : IsLast(w) /\ cursor' = id[w]
  /\ syncStart' = None
  /\ UNCHANGED <<now, tx, holder, lastSeq, nextId>>

Tick ==
  /\ now < MaxTime
  /\ \A w \in Open : now < start[w] + MaxOpen
  /\ now' = now + 1
  /\ UNCHANGED <<tx, holder, lastSeq, nextId, reader>>

Next ==
  \/ \E w \in Writers, c \in Conversations : Begin(w, c)
  \/ \E w \in Writers : AllocSeq(w) \/ Insert(w) \/ Commit(w) \/ Abort(w)
  \/ BeginSync \/ ReadPage
  \/ Tick

Spec == Init /\ [][Next]_vars

-----------------------------------------------------------------------------
(* Events of one conversation have ids in the order of their sequence      *)
(* numbers: both are assigned while the row is locked.                     *)
IdsFollowSeqs ==
  \A v, w \in Writers :
    /\ phase[v] \in {"inserted", "committed"} /\ phase[w] \in {"inserted", "committed"}
    /\ conv[v] = conv[w] /\ id[v] < id[w]
    => seq[v] < seq[w]

(* A replay never goes back: what a call delivers of a conversation is     *)
(* newer than everything delivered of it before.                           *)
ReplayMovesOn ==
  [][\A v \in delivered, w \in delivered' \ delivered :
       conv[v] = conv[w] => seq[v] < seq[w]]_vars

(* What the created_at guard does achieve: the cursor passes an event that *)
(* is not delivered only if the event's transaction was open for longer    *)
(* than the lag, or a transaction that started before it took a later id.  *)
Passed(w) ==
  /\ phase[w] \in {"inserted", "committed"}
  /\ conv[w] \in Mine /\ id[w] <= cursor /\ w \notin delivered

Slow(w) == start[w] + Lag < (IF phase[w] = "committed" THEN ended[w] ELSE now)

Overtaken(w) == \E v \in delivered : id[w] < id[v] /\ start[v] < start[w]

SkipsExplained == \A w \in Writers : Passed(w) => Slow(w) \/ Overtaken(w)

(* messages.py:359-362 and 0001_init.sql:387-390: with the guard, no       *)
(* reader passes an event without being given it.                          *)
NoEventSkipped ==
  \A w \in Committed : conv[w] \in Mine /\ id[w] <= cursor => w \in delivered

=============================================================================
