-------------------------- MODULE MessagesLogProofs --------------------------
(***************************************************************************)
(* The message service implements the append-only log of ConversationLog,  *)
(* for any conversations, users, keys and requests: a commit appends one   *)
(* entry and every other step only publishes, answers or does neither.     *)
(* The invariants that Messages has been proved to keep are what makes it  *)
(* so: rows keep their identity, every row has its "send" entry, and only  *)
(* what is in the log is published or confirmed.                           *)
(***************************************************************************)
EXTENDS MessagesLog, MessagesProofs, SequenceTheorems

Inv == Inv1 /\ Inv2 /\ Inv3

-----------------------------------------------------------------------------
(* The log that the mapping makes of the rows and events.                  *)

EntryIn(rows, e) ==
  [type |-> e.type, id |-> <<rows[e.message].sender, rows[e.message].key>>]

LogIn(rows, es) == [i \in 1..Len(es) |-> EntryIn(rows, es[i])]

EntryOf(e) == EntryIn(message, e)

(* Entries that keep their identity keep the log.                          *)
LEMMA SameLog ==
  ASSUME NEW es, NEW old, NEW new,
         \A i \in 1..Len(es) : EntryIn(new, es[i]) = EntryIn(old, es[i])
  PROVE  LogIn(new, es) = LogIn(old, es)
BY DEF LogIn

(* An event more is an entry more.                                         *)
LEMMA LogOfAppend ==
  ASSUME NEW es \in Seq(Event), NEW e \in Event, NEW old, NEW new,
         \A i \in 1..Len(es) :
           EntryIn(new, es[i]) = EntryIn(old, es[i]) /\ EntryIn(old, es[i]) \in Log!Entry,
         EntryIn(new, e) \in Log!Entry
  PROVE  LogIn(new, Append(es, e)) = Append(LogIn(old, es), EntryIn(new, e))
<1> DEFINE n == Len(es)
           s == LogIn(old, es)
           t == LogIn(new, Append(es, e))
           x == EntryIn(new, e)
<1>1. /\ n \in Nat /\ Len(Append(es, e)) = n + 1
      /\ Append(es, e)[n + 1] = e
      /\ \A i \in 1..n : Append(es, e)[i] = es[i]
  OBVIOUS
<1>2. /\ s = [i \in 1..n |-> EntryIn(old, es[i])]
      /\ t = [i \in 1..(n + 1) |-> EntryIn(new, Append(es, e)[i])]
  BY <1>1 DEF LogIn
<1>3. s \in [1..n -> Log!Entry]
  BY <1>2
<1>4. t[n + 1] = x /\ \A i \in 1..n : t[i] = s[i]
  <2> HIDE DEF n, s, t
  <2>1. t[n + 1] = EntryIn(new, e)
    BY <1>1, <1>2
  <2>2. ASSUME NEW i \in 1..n PROVE t[i] = s[i]
    <3>1. t[i] = EntryIn(new, es[i]) /\ s[i] = EntryIn(old, es[i])
      BY <1>1, <1>2
    <3>2. QED
      BY <3>1 DEF n
  <2>3. QED
    BY <2>1, <2>2
<1>5. t \in [1..(n + 1) -> Log!Entry]
  <2> HIDE DEF n, s, t, x
  <2>1. DOMAIN t = 1..(n + 1) /\ t = [i \in 1..(n + 1) |-> t[i]]
    BY <1>2
  <2>2. x \in Log!Entry
    BY DEF x
  <2>3. \A i \in 1..(n + 1) : t[i] \in Log!Entry
    BY <1>1, <1>3, <1>4, <2>2
  <2>4. QED
    BY <2>1, <2>3
<1>6. x \in Log!Entry
  OBVIOUS
<1> HIDE DEF n, s, t, x
<1>7. s \in Seq(Log!Entry) /\ Len(s) = n
  BY <1>1, <1>3
<1>8. t \in Seq(Log!Entry) /\ Len(t) = n + 1
  BY <1>1, <1>5
<1>9. /\ Append(s, x) \in Seq(Log!Entry) /\ Len(Append(s, x)) = n + 1
      /\ Append(s, x)[n + 1] = x /\ \A i \in 1..n : Append(s, x)[i] = s[i]
  BY <1>6, <1>7
<1>10. \A i \in 1..(n + 1) : t[i] = Append(s, x)[i]
  BY <1>1, <1>4, <1>9
<1>11. t = Append(s, x)
  BY <1>8, <1>9, <1>10, SeqEqual
<1>12. QED
  BY <1>11 DEF s, t, x

LEMMA EntriesAreLog == entries = [c \in Conversations |-> LogIn(message, events[c])]
BY DEF entries, Identity, LogIn, EntryIn

(* The log of a conversation has one entry for each of its events.         *)
LEMMA EntriesOf ==
  ASSUME Inv1, NEW c \in Conversations
  PROVE  /\ Len(events[c]) \in Nat
         /\ DOMAIN entries[c] = 1..Len(events[c])
         /\ \A i \in 1..Len(events[c]) :
              /\ events[c][i] \in Event
              /\ entries[c][i] = EntryOf(events[c][i])
<1>1. events[c] \in Seq(Event)
  BY DEF Inv1, TypeOK
<1>2. entries[c] = [i \in 1..Len(events[c]) |-> EntryOf(events[c][i])]
  BY EntriesAreLog DEF LogIn, EntryOf
<1>3. QED
  BY <1>1, <1>2

(* A stored row is known by a sender and a key.                            *)
LEMMA IdentityType ==
  ASSUME Inv1, NEW m \in Requests, Exists(m)
  PROVE  Identity(m) \in Users \X Keys
<1>1. message[m] \in Row
  BY DEF Inv1, TypeOK, Exists
<1>2. QED
  BY <1>1 DEF Identity, Row

(* A row of the conversation is present in its log.                        *)
LEMMA RowIsPresent ==
  ASSUME Inv, NEW c \in Conversations, NEW m \in Requests,
         Exists(m), message[m].conv = c
  PROVE  Log!Present(c, Identity(m))
<1>1. RowLogged(m)
  BY DEF Inv, Inv3, Tables, LogMatchesRows
<1>2. PICK i \in 1..Len(events[c]) :
        events[c][i].type = "send" /\ events[c][i].message = m
  BY <1>1 DEF RowLogged
<1>3. entries[c][i] = [type |-> "send", id |-> Identity(m)] /\ i \in DOMAIN entries[c]
  BY <1>2, EntriesOf DEF Inv, EntryOf, EntryIn, Identity
<1>4. QED
  BY <1>3 DEF Log!Present

(* What is present in the log of a conversation is one of its rows.        *)
LEMMA PresentIsRow ==
  ASSUME Inv, NEW c \in Conversations, NEW id, Log!Present(c, id)
  PROVE  \E m \in Requests : Exists(m) /\ message[m].conv = c /\ Identity(m) = id
<1>1. PICK i \in DOMAIN entries[c] : entries[c][i] = [type |-> "send", id |-> id]
  BY DEF Log!Present
<1>2. /\ i \in 1..Len(events[c]) /\ events[c][i] \in Event
      /\ entries[c][i] = EntryOf(events[c][i])
  BY <1>1, EntriesOf DEF Inv
<1>3. EntryOf(events[c][i]).id = id
  BY <1>1, <1>2
<1>4. Identity(events[c][i].message) = id
  BY <1>3 DEF EntryOf, EntryIn, Identity
<1>5. events[c][i].message \in Requests
  BY <1>2 DEF Event
<1>6. EventGrounded(c, i)
  BY <1>2 DEF Inv, Inv3, Tables, LogMatchesRows
<1>7. QED
  BY <1>4, <1>5, <1>6 DEF EventGrounded

-----------------------------------------------------------------------------
(* The initial states are initial states of the log.                       *)
LEMMA InitLog == Init => Log!LogInit
<1> SUFFICES ASSUME Init PROVE Log!LogInit
  OBVIOUS
<1>1. entries = [c \in Conversations |-> <<>>]
  <2>1. ASSUME NEW c \in Conversations
        PROVE  [i \in 1..Len(events[c]) |->
                  [type |-> events[c][i].type, id |-> Identity(events[c][i].message)]]
                 = <<>>
    <3>1. events[c] = <<>>
      BY DEF Init
    <3>2. 1..Len(events[c]) = {}
      BY <3>1
    <3>3. QED
      BY <3>2
  <2>2. QED
    BY <2>1 DEF entries
<1>2. positions = [c \in Conversations |-> {}]
  BY DEF Init, positions
<1>3. identities = [c \in Conversations |-> {}]
  BY DEF Init, identities, Told
<1>4. QED
  BY <1>1, <1>2, <1>3 DEF Log!LogInit

-----------------------------------------------------------------------------
(* The steps that leave rows and log alone (Soft in MessagesProofs).       *)

(* A sender is told of success only for a message in the log, and members  *)
(* only of its positions.                                                  *)
ConfirmedAreLogged ==
  \A c \in Conversations : \A id \in identities[c] : Log!Present(c, id)

ToldAreLogged == \A c \in Conversations : positions[c] \subseteq DOMAIN entries[c]

(* What a sender was told names a row of its key, and so an entry.         *)
LEMMA ConfirmedIsPresent ==
  Inv => ConfirmedAreLogged
<1> SUFFICES ASSUME Inv, NEW c \in Conversations, NEW id \in identities[c]
             PROVE  Log!Present(c, id)
  BY DEF ConfirmedAreLogged
<1>1. PICK s \in Requests :
        Told(s) /\ ctx[s].conv = c /\ id = <<ctx[s].user, ctx[s].key>>
  BY DEF identities
<1>2. AnswerOf(s)
  BY DEF Inv, Inv3, Knowledge
<1>3. Holds(reply[s].message, ctx[s].conv, ctx[s].user, ctx[s].key)
  BY <1>1, <1>2 DEF Told, AnswerOf
<1>4. PICK m \in Requests : m = reply[s].message
  BY <1>1, <1>2 DEF Told, AnswerOf
<1>5. Exists(m) /\ message[m].conv = c /\ Identity(m) = id
  BY <1>1, <1>3, <1>4 DEF Holds, Identity
<1>6. QED
  BY <1>5, RowIsPresent

(* What is published is an event, at the position of its number.           *)
LEMMA ToldIsInLog ==
  Inv => ToldAreLogged
<1> SUFFICES ASSUME Inv, NEW c \in Conversations, NEW e \in published[c]
             PROVE  e.seq \in DOMAIN entries[c]
  BY DEF positions, ToldAreLogged
<1>1. PICK i \in 1..Len(events[c]) : e = events[c][i]
  BY DEF Inv, Inv3, Tables, PublishedIsCommitted
<1>2. e.seq = i
  BY <1>1 DEF Inv, Inv2, GapFreeLog
<1>3. QED
  BY <1>1, <1>2, EntriesOf DEF Inv

(* An answered request stays answered, about the same message.             *)
LEMMA SoftKeepsTold ==
  ASSUME Inv1, NEW r \in Requests, Soft(r), NEW s \in Requests, Told(s)
  PROVE  s # r /\ ctx'[s] = ctx[s] /\ reply'[s] = reply[s]
<1>1. s # r
  BY DEF Inv1, Control, ControlOf, Soft, Told
<1>2. QED
  BY <1>1 DEF Soft, Others

(* A soft step publishes or confirms what the log holds.                   *)
LEMMA SoftInforms ==
  ASSUME Inv, Inv', NEW r \in Requests, Soft(r)
  PROVE  Log!Inform
<1>1. entries' = entries
  BY DEF Soft, entries, Identity
<1>2. ASSUME NEW c \in Conversations
      PROVE  positions[c] \subseteq positions'[c]
  <2>1. published[c] \subseteq published'[c]
    BY DEF Soft
  <2>2. QED
    BY <2>1 DEF positions
<1>3. ASSUME NEW c \in Conversations
      PROVE  positions'[c] \subseteq DOMAIN entries[c]
  <2>1. ToldAreLogged'
    BY ToldIsInLog, PTL
  <2>2. QED
    BY <1>1, <2>1 DEF ToldAreLogged
<1>4. ASSUME NEW c \in Conversations, NEW id \in identities[c]
      PROVE  id \in identities'[c]
  <2>1. PICK s \in Requests :
          Told(s) /\ ctx[s].conv = c /\ id = <<ctx[s].user, ctx[s].key>>
    BY <1>4 DEF identities
  <2>2. ctx'[s] = ctx[s] /\ reply'[s] = reply[s]
    BY <2>1, SoftKeepsTold DEF Inv
  <2>3. Told(s)' /\ ctx'[s].conv = c /\ id = <<ctx'[s].user, ctx'[s].key>>
    BY <2>1, <2>2 DEF Told
  <2>4. QED
    BY <2>3 DEF identities
<1>5. ASSUME NEW c \in Conversations, NEW id \in identities'[c]
      PROVE  Log!Present(c, id)
  <2>1. ConfirmedAreLogged'
    BY ConfirmedIsPresent, PTL
  <2>2. Log!Present(c, id)'
    BY <1>5, <2>1 DEF ConfirmedAreLogged
  <2>3. QED
    BY <1>1, <2>2 DEF Log!Present
<1>6. QED
  BY <1>1, <1>2, <1>3, <1>4, <1>5 DEF Log!Inform

-----------------------------------------------------------------------------
(* The three commits.                                                      *)

(* The entries of a log keep their identity while the rows are kept.       *)
LEMMA EntriesKept ==
  ASSUME Inv, NEW r \in Requests, KeepsRows(r),
         NEW c \in Conversations, NEW i \in 1..Len(events[c])
  PROVE  /\ EntryIn(message', events[c][i]) = EntryIn(message, events[c][i])
         /\ EntryIn(message, events[c][i]) \in Log!Entry
<1>1. PICK m \in Requests : m = events[c][i].message
  BY EntriesOf DEF Inv, Event
<1>2. EventGrounded(c, i)
  BY DEF Inv, Inv3, Tables, LogMatchesRows
<1>3. Exists(m)
  BY <1>1, <1>2 DEF EventGrounded
<1>4. message'[m].sender = message[m].sender /\ message'[m].key = message[m].key
  BY <1>3 DEF KeepsRows, Fixed
<1>5. <<message[m].sender, message[m].key>> \in Users \X Keys
  BY <1>3, IdentityType DEF Inv, Identity
<1>6. events[c][i].type \in {"send", "edit", "delete"}
  BY EntriesOf DEF Inv, Event
<1>7. QED
  BY <1>1, <1>4, <1>5, <1>6 DEF EntryIn, Log!Entry

(* A commit appends the entry of its event and says nothing to anybody.    *)
LEMMA CommitExtends ==
  ASSUME Inv, NEW r \in Requests, pc[r] = "write", CommitEvent(r), KeepsRows(r),
         NEW c \in Conversations, NEW t \in Requests, NEW id \in Users \X Keys,
         c = ctx[r].conv, t = ctx[r].target,
         id = <<message'[t].sender, message'[t].key>>
  PROVE  /\ entries' = [entries EXCEPT ![c] =
                          Append(@, [type |-> ctx[r].op, id |-> id])]
         /\ UNCHANGED <<positions, identities>>
<1> DEFINE new == [type |-> ctx[r].op, id |-> id]
<1>1. PICK e \in Event :
        /\ e = EventOf(r) /\ e.type = ctx[r].op /\ e.message = t
        /\ ctx[r].op \in {"send", "edit", "delete"}
  BY EventType DEF Inv, Event
<1>2. /\ events' = [events EXCEPT ![c] = Append(@, e)]
      /\ events \in [Conversations -> Seq(Event)]
      /\ UNCHANGED <<published, ctx, reply>>
  BY <1>1 DEF CommitEvent, Inv, Inv1, TypeOK
<1>3. EntryIn(message', e) = new /\ new \in Log!Entry
  BY <1>1 DEF EntryIn, Log!Entry
<1>4. entries' = [d \in Conversations |-> LogIn(message', events'[d])]
  BY DEF entries, Identity, LogIn, EntryIn
<1>5. ASSUME NEW d \in Conversations \ {c}
      PROVE  entries'[d] = entries[d]
  <2>1. LogIn(message', events[d]) = LogIn(message, events[d])
    BY EntriesKept, SameLog
  <2>2. QED
    BY <1>2, <1>4, <2>1, EntriesAreLog
<1>6. entries'[c] = Append(entries[c], new)
  <2>1. LogIn(message', Append(events[c], e))
          = Append(LogIn(message, events[c]), EntryIn(message', e))
    <3> DEFINE es == events[c]
    <3>1. es \in Seq(Event)
      BY <1>2
    <3>2. \A i \in 1..Len(es) :
            /\ EntryIn(message', es[i]) = EntryIn(message, es[i])
            /\ EntryIn(message, es[i]) \in Log!Entry
      BY EntriesKept
    <3>3. EntryIn(message', e) \in Log!Entry
      BY <1>3
    <3> HIDE DEF es
    <3>4. LogIn(message', Append(es, e))
            = Append(LogIn(message, es), EntryIn(message', e))
      BY <3>1, <3>2, <3>3, LogOfAppend
    <3>5. QED
      BY <3>4 DEF es
  <2>2. QED
    BY <1>2, <1>3, <1>4, <2>1, EntriesAreLog
<1>7. entries' = [entries EXCEPT ![c] = Append(@, new)]
  BY <1>4, <1>5, <1>6, EntriesAreLog
<1>8. UNCHANGED <<positions, identities>>
  BY <1>2 DEF positions, identities, Told
<1>9. QED
  BY <1>7, <1>8

(* A send is new to the log.                                               *)
LEMMA SendExtends ==
  ASSUME Inv, NEW r \in Requests, CommitSend(r)
  PROVE  Log!LogNext
<1>1. pc[r] = "write" /\ CommitEvent(r) /\ ctx[r].op = "send"
  BY DEF CommitSend
<1>2. ctx[r] \in Context /\ ctx[r].target = r /\ ctx[r].key \in Keys
  BY <1>1 DEF Inv, Inv1, Control, ControlOf
<1>3. PICK c \in Conversations, id \in Users \X Keys :
        c = ctx[r].conv /\ id = <<ctx[r].user, ctx[r].key>>
  BY <1>2 DEF Context
<1>4. KeepsRows(r) /\ id = <<message'[r].sender, message'[r].key>>
  BY <1>3, SendRows DEF Inv, Fixed
<1>5. /\ entries' = [entries EXCEPT ![c] = Append(@, [type |-> "send", id |-> id])]
      /\ UNCHANGED <<positions, identities>>
  BY <1>1, <1>2, <1>3, <1>4, CommitExtends
<1>6. ~Log!Present(c, id)
  <2> SUFFICES ASSUME Log!Present(c, id) PROVE FALSE
    OBVIOUS
  <2>1. PICK m \in Requests : Exists(m) /\ message[m].conv = c /\ Identity(m) = id
    BY PresentIsRow
  <2>2. Holds(m, ctx[r].conv, ctx[r].user, ctx[r].key)
    BY <1>3, <2>1 DEF Holds, Identity
  <2>3. QED
    BY <2>2 DEF CommitSend, Duplicate
<1>7. Log!Extend(c, "send", id)
  BY <1>5, <1>6 DEF Log!Extend
<1>8. QED
  BY <1>7 DEF Log!LogNext

(* An edit or a deletion follows the send of its message.                  *)
LEMMA ChangeExtends ==
  ASSUME Inv, NEW r \in Requests, CommitEdit(r) \/ CommitDelete(r)
  PROVE  Log!LogNext
<1>1. /\ pc[r] = "write" /\ CommitEvent(r)
      /\ ctx[r].op \in {"edit", "delete"} /\ KeepsRows(r)
      /\ Exists(ctx[r].target) /\ message[ctx[r].target].conv = ctx[r].conv
  BY ChangeRows DEF CommitEdit, CommitDelete, Inv
<1>2. ctx[r] \in Context
  BY <1>1 DEF Inv, Inv1, Control, ControlOf
<1>3. PICK c \in Conversations, t \in Requests :
        c = ctx[r].conv /\ t = ctx[r].target
  BY <1>2 DEF Context
<1>4. PICK id \in Users \X Keys : id = Identity(t)
  BY <1>1, <1>3, IdentityType DEF Inv
<1>5. id = <<message'[t].sender, message'[t].key>>
  BY <1>1, <1>3, <1>4 DEF KeepsRows, Fixed, Identity
<1>6. /\ entries' = [entries EXCEPT ![c] = Append(@, [type |-> ctx[r].op, id |-> id])]
      /\ UNCHANGED <<positions, identities>>
  BY <1>1, <1>3, <1>5, CommitExtends
<1>7. Log!Present(c, id)
  BY <1>1, <1>3, <1>4, RowIsPresent
<1>8. Log!Extend(c, ctx[r].op, id)
  BY <1>1, <1>6, <1>7 DEF Log!Extend
<1>9. QED
  BY <1>1, <1>8 DEF Log!LogNext

-----------------------------------------------------------------------------
LEMMA StepLog == Inv /\ Inv' /\ [Next]_vars => [Log!LogNext]_Log!logVars
<1> SUFFICES ASSUME Inv, Inv', [Next]_vars PROVE [Log!LogNext]_Log!logVars
  OBVIOUS
<1>1. CASE UNCHANGED vars
  BY <1>1 DEF vars, Log!logVars, entries, positions, identities, Identity, Told
<1>2. ASSUME NEW r \in Requests, CommitSend(r) \/ CommitEdit(r) \/ CommitDelete(r)
      PROVE  Log!LogNext
  BY <1>2, SendExtends, ChangeExtends
<1>3. ASSUME NEW r \in Requests, Soft(r)
      PROVE  Log!LogNext
  BY <1>3, SoftInforms DEF Log!LogNext
<1>4. QED
  BY <1>1, <1>2, <1>3, CommitOrSoft DEF Inv, Next, Finished, StepOf

(* The messages, events, publications and answers of the service are the   *)
(* append-only, duplicate-free log that ConversationLog specifies: every   *)
(* behaviour of send_message, edit_message, delete_message and mark_read   *)
(* under any interleaving and failure is, through the mapping, one of its. *)
THEOREM LogIsImplemented == Spec => ImplementsLog
<1>1. Init => Log!LogInit
  BY InitLog
<1>2. Inv /\ Inv' /\ [Next]_vars => [Log!LogNext]_Log!logVars
  BY StepLog
<1>3. Inv1 /\ Inv2 /\ Inv3 => Inv
  BY DEF Inv
<1>4. QED
  BY <1>1, <1>2, <1>3, TypeAndControl, LogNumbering, Agreement, PTL
     DEF Spec, ImplementsLog, Log!LogSpec
=============================================================================
