------------------------------ MODULE Messages ------------------------------
(***************************************************************************)
(* The write path of app/services/messages.py over PostgreSQL at READ      *)
(* COMMITTED.  Each member of Requests is one HTTP request: it runs once,  *)
(* and one of its steps is one database statement, the commit or the       *)
(* publication to Redis, since these are the awaits at which requests      *)
(* interleave.                                                             *)
(*                                                                         *)
(* Rows a transaction has written and not committed are visible to nobody, *)
(* so the variables hold committed state only.  What is visible early is   *)
(* the row lock that next_conversation_seq takes on the conversation.      *)
(*                                                                         *)
(* text() statements do not autoflush in SQLAlchemy 2.0: edit and delete   *)
(* take the conversation lock first and write the message row while they   *)
(* commit, with the values they computed from the row they had loaded.     *)
(*                                                                         *)
(* A message row is named by the request that inserted it.  Reply targets, *)
(* mentions and kinds are payload; a reply target that is refused, a rate  *)
(* limit, an expired edit window and a statement timeout are Fail.         *)
(***************************************************************************)
EXTENDS Integers, Sequences

CONSTANTS
  Conversations,
  Users,
  Moderators,     \* members whose role grants DELETE_ANY_MESSAGE
  Keys,           \* client_msg_id values
  Bodies,
  Attachments,    \* READY uploads
  Owner,          \* [Attachments -> Users]
  Payloads,       \* what a send may carry: a text or None, and files
  Requests,
  MaxUpTo,        \* bound on the up_to_seq a client sends to mark_read
  None            \* SQL NULL, or "no such row"

ASSUME ModelAssumption ==
  /\ Moderators \subseteq Users
  /\ Owner \in [Attachments -> Users]
  /\ Payloads \subseteq [body : Bodies \cup {None}, files : SUBSET Attachments]
  /\ MaxUpTo \in Nat

VARIABLES
  lastSeq,    \* conversations.last_seq
  lock,       \* the request whose transaction holds the conversation row
  message,    \* the messages table: request |-> row it inserted
  edits,      \* the message_edits table
  events,     \* the conversation_events table, in commit order
  attached,   \* attachments.message_id
  readMark,   \* conversation_members.last_read_seq
  published,  \* events given to Redis
  pc, ctx, reply

store == <<lastSeq, message, edits, events, attached>>
vars == <<lastSeq, lock, message, edits, events, attached, readMark, published,
          pc, ctx, reply>>

Row == [conv : Conversations, seq : Nat, sender : Users, key : Keys,
        body : Bodies \cup {None}, edits : Nat, deleted : BOOLEAN]

(* type: message.created, message.edited and message.deleted are named by  *)
(* the operation that writes them.                                         *)
Event == [seq : Nat, type : {"send", "edit", "delete"},
          message : Requests, body : Bodies \cup {None}]

Edit == [message : Requests, previous : Bodies \cup {None}, by : Requests]

(* What a request carries between its steps.  "seen" is what it read of    *)
(* the row it will overwrite: the body and edit count of the message, or   *)
(* for mark_read the conversation's last_seq and the member's mark.        *)
Context ==
  [op : {"send", "edit", "delete", "read"}, conv : Conversations, user : Users,
   key : Keys \cup {None}, body : Bodies \cup {None}, target : Requests,
   files : SUBSET Attachments, upTo : Nat, seq : Nat,
   seenBody : Bodies \cup {None}, seenEdits : Nat, seenLast : Nat, seenMark : Nat]

(* Mutant: no message is named until the row exists.                       *)
BlankUnnamed(r, c, u) ==
  [op |-> "send", conv |-> c, user |-> u, key |-> None, body |-> None,
   target |-> None, files |-> {}, upTo |-> 0, seq |-> 0,
   seenBody |-> None, seenEdits |-> 0, seenLast |-> 0, seenMark |-> 0]

Blank(r, c, u) ==
  [op |-> "send", conv |-> c, user |-> u, key |-> None, body |-> None,
   target |-> r, files |-> {}, upTo |-> 0, seq |-> 0,
   seenBody |-> None, seenEdits |-> 0, seenLast |-> 0, seenMark |-> 0]

(* None: no answer yet.  "existing" is send_message's created=False.       *)
Reply == [status : {"created", "existing", "ok", "error", "missing_greenlet"},
          message : Requests \cup {None}]

(* NULL is none of the values of its column.                               *)
ASSUME NullAssumption ==
  /\ None \notin Requests \cup Bodies \cup Keys
  /\ None \notin Row
  /\ None \notin Reply

PC == {"idle", "files", "alloc", "write", "reselect", "publish", "member", "mark",
       "done"}

TypeOK ==
  /\ lastSeq \in [Conversations -> Nat]
  /\ lock \in [Conversations -> Requests \cup {None}]
  /\ message \in [Requests -> Row \cup {None}]
  /\ edits \subseteq Edit
  /\ events \in [Conversations -> Seq(Event)]
  /\ attached \in [Attachments -> Requests \cup {None}]
  /\ readMark \in [Conversations -> [Users -> Nat]]
  /\ published \in [Conversations -> SUBSET Event]
  /\ pc \in [Requests -> PC]
  /\ ctx \in [Requests -> Context \cup {None}]
  /\ reply \in [Requests -> Reply \cup {None}]

Init ==
  /\ lastSeq = [c \in Conversations |-> 0]
  /\ lock = [c \in Conversations |-> None]
  /\ message = [r \in Requests |-> None]
  /\ edits = {}
  /\ events = [c \in Conversations |-> <<>>]
  /\ attached = [a \in Attachments |-> None]
  /\ readMark = [c \in Conversations |-> [u \in Users |-> 0]]
  /\ published = [c \in Conversations |-> {}]
  /\ pc = [r \in Requests |-> "idle"]
  /\ ctx = [r \in Requests |-> None]
  /\ reply = [r \in Requests |-> None]

-----------------------------------------------------------------------------
(* Steps every request is made of.                                         *)

Goto(r, label) == pc' = [pc EXCEPT ![r] = label]

Answer(r, status, m) ==
  /\ reply' = [reply EXCEPT ![r] = [status |-> status, message |-> m]]
  /\ Goto(r, "done")

(* The end of r's transaction frees the conversation row it had locked.    *)
Unlock(r) == lock' = [c \in Conversations |-> IF lock[c] = r THEN None ELSE lock[c]]

Exists(m) == message[m] # None

(* The row the UNIQUE (conversation_id, sender_id, client_msg_id) index    *)
(* would find.                                                             *)
Holds(m, c, u, k) ==
  Exists(m) /\ message[m].conv = c /\ message[m].sender = u /\ message[m].key = k

(* Mutant: the index leaves soft-deleted rows out.                         *)
DuplicateAlive(c, u, k) == \E m \in Requests : Holds(m, c, u, k) /\ ~message[m].deleted

Duplicate(c, u, k) == \E m \in Requests : Holds(m, c, u, k)

(* Mutant: the number is read without taking the row lock.                 *)
AllocSeqUnlocked(r) ==
  /\ pc[r] = "alloc"
  /\ ctx' = [ctx EXCEPT ![r].seq = lastSeq[ctx[r].conv] + 1]
  /\ Goto(r, "write")
  /\ UNCHANGED <<store, lock, readMark, published, reply>>

(* next_conversation_seq: UPDATE ... last_seq + 1 RETURNING.  It waits for *)
(* the row lock, re-reads the committed value and keeps the lock until the *)
(* transaction ends.                                                       *)
AllocSeq(r) ==
  /\ pc[r] = "alloc"
  /\ lock[ctx[r].conv] = None
  /\ lock' = [lock EXCEPT ![ctx[r].conv] = r]
  /\ ctx' = [ctx EXCEPT ![r].seq = lastSeq[ctx[r].conv] + 1]
  /\ Goto(r, "write")
  /\ UNCHANGED <<store, readMark, published, reply>>

(* The event a writer stores and, after the commit, publishes.             *)
EventOf(r) ==
  [seq |-> ctx[r].seq, type |-> ctx[r].op, message |-> ctx[r].target,
   body |-> IF ctx[r].op = "delete" THEN None ELSE ctx[r].body]

(* What every committing writer does: the increment of last_seq and the    *)
(* ConversationEvent become visible and the row lock goes.                 *)
CommitEvent(r) ==
  /\ lastSeq' = [lastSeq EXCEPT ![ctx[r].conv] = ctx[r].seq]
  /\ events' = [events EXCEPT ![ctx[r].conv] = Append(@, EventOf(r))]
  /\ Unlock(r)
  /\ Goto(r, "publish")
  /\ UNCHANGED <<readMark, published, ctx, reply>>

-----------------------------------------------------------------------------
(* send_message                                                            *)

(* Mutant: the lookup leaves the sender out.                               *)
SendReplayedAnySender(r, c, u, k) ==
  /\ pc[r] = "idle"
  /\ \E m \in Requests : (\E v \in Users : Holds(m, c, v, k)) /\ Answer(r, "existing", m)
  /\ ctx' = [ctx EXCEPT ![r] = [Blank(r, c, u) EXCEPT !.key = k]]
  /\ UNCHANGED <<store, lock, readMark, published>>

(* The idempotency SELECT, before the rate limiter: a retry of an accepted *)
(* message is answered with the row as it is now.                          *)
SendReplayed(r, c, u, k) ==
  /\ pc[r] = "idle"
  /\ \E m \in Requests : Holds(m, c, u, k) /\ Answer(r, "existing", m)
  /\ ctx' = [ctx EXCEPT ![r] = [Blank(r, c, u) EXCEPT !.key = k]]
  /\ UNCHANGED <<store, lock, readMark, published>>

(* A message that is not of kind TEXT need not have a body.                *)
SendNew(r, c, u, k, b, files) ==
  /\ pc[r] = "idle"
  /\ ~Duplicate(c, u, k)
  /\ \A a \in files : Owner[a] = u
  /\ ctx' = [ctx EXCEPT ![r] = [Blank(r, c, u) EXCEPT !.key = k, !.body = b,
                                                      !.files = files]]
  /\ Goto(r, IF files = {} THEN "alloc" ELSE "files")
  /\ UNCHANGED <<store, lock, readMark, published, reply>>

(* The attachments SELECT, without a lock: every file must be unattached.  *)
AcceptFiles(r) ==
  /\ pc[r] = "files"
  /\ \A a \in ctx[r].files : attached[a] = None
  /\ Goto(r, "alloc")
  /\ UNCHANGED <<store, lock, readMark, published, ctx, reply>>

RefuseFiles(r) ==
  /\ pc[r] = "files"
  /\ \E a \in ctx[r].files : attached[a] # None
  /\ Answer(r, "error", None)
  /\ UNCHANGED <<store, lock, readMark, published, ctx>>

(* Mutant: no unique index.                                                *)
CommitSendAgain(r) ==
  /\ pc[r] = "write" /\ ctx[r].op = "send"
  /\ message' = [message EXCEPT ![r] =
                   [conv |-> ctx[r].conv, seq |-> ctx[r].seq, sender |-> ctx[r].user,
                    key |-> ctx[r].key, body |-> ctx[r].body, edits |-> 0,
                    deleted |-> FALSE]]
  /\ attached' = [a \in Attachments |-> IF a \in ctx[r].files THEN r ELSE attached[a]]
  /\ CommitEvent(r)
  /\ UNCHANGED edits

(* flush and commit.  The flush checks the unique index; the conversation  *)
(* lock keeps its outcome until the commit.                                *)
CommitSend(r) ==
  /\ pc[r] = "write" /\ ctx[r].op = "send"
  /\ ~Duplicate(ctx[r].conv, ctx[r].user, ctx[r].key)
  /\ message' = [message EXCEPT ![r] =
                   [conv |-> ctx[r].conv, seq |-> ctx[r].seq, sender |-> ctx[r].user,
                    key |-> ctx[r].key, body |-> ctx[r].body, edits |-> 0,
                    deleted |-> FALSE]]
  /\ attached' = [a \in Attachments |-> IF a \in ctx[r].files THEN r ELSE attached[a]]
  /\ CommitEvent(r)
  /\ UNCHANGED edits

(* Mutant: the handler goes on to publish.                                 *)
SendDuplicateGoesOn(r) ==
  /\ pc[r] = "write" /\ ctx[r].op = "send"
  /\ Duplicate(ctx[r].conv, ctx[r].user, ctx[r].key)
  /\ Unlock(r)
  /\ Goto(r, "publish")
  /\ UNCHANGED <<store, readMark, published, ctx, reply>>

(* IntegrityError: the whole transaction rolls back, the allocated number  *)
(* with it.                                                                *)
SendDuplicate(r) ==
  /\ pc[r] = "write" /\ ctx[r].op = "send"
  /\ Duplicate(ctx[r].conv, ctx[r].user, ctx[r].key)
  /\ Unlock(r)
  /\ Goto(r, "reselect")
  /\ UNCHANGED <<store, readMark, published, ctx, reply>>

(* The handler would now select the winner, but the rollback has expired   *)
(* the ORM objects: to name the conversation in the query it reads         *)
(* conversation.id, whose lazy reload outside the greenlet raises          *)
(* MissingGreenlet.  The query is never sent.                              *)
Reselect(r) ==
  /\ pc[r] = "reselect"
  /\ Answer(r, "missing_greenlet", None)
  /\ UNCHANGED <<store, lock, readMark, published, ctx>>

-----------------------------------------------------------------------------
(* edit_message and delete_message                                         *)

(* The route loads the row, then can_modify_message decides on that copy.  *)
LoadForEdit(r, m, b) ==
  /\ pc[r] = "idle"
  /\ Exists(m) /\ ~message[m].deleted
  /\ ctx' = [ctx EXCEPT ![r] =
               [Blank(r, message[m].conv, message[m].sender) EXCEPT
                  !.op = "edit", !.target = m, !.body = b,
                  !.seenBody = message[m].body, !.seenEdits = message[m].edits]]
  /\ Goto(r, "alloc")
  /\ UNCHANGED <<store, lock, readMark, published, reply>>

LoadForDelete(r, m, u) ==
  /\ pc[r] = "idle"
  /\ Exists(m) /\ (u = message[m].sender \/ u \in Moderators)
  /\ ctx' = [ctx EXCEPT ![r] =
               [Blank(r, message[m].conv, u) EXCEPT
                  !.op = "delete", !.target = m,
                  !.seenBody = message[m].body, !.seenEdits = message[m].edits]]
  /\ Goto(r, "alloc")
  /\ UNCHANGED <<store, lock, readMark, published, reply>>

(* The ORM's UPDATE names the columns whose new value differs from the     *)
(* loaded one, and no others.                                              *)
Written(seen, new, stored) == IF new = seen THEN stored ELSE new

CommitEdit(r) ==
  /\ pc[r] = "write" /\ ctx[r].op = "edit"
  /\ LET m == ctx[r].target IN
       /\ edits' = edits \cup {[message |-> m, previous |-> ctx[r].seenBody, by |-> r]}
       /\ message' = [message EXCEPT
                        ![m].body = Written(ctx[r].seenBody, ctx[r].body, @),
                        ![m].edits = ctx[r].seenEdits + 1]
       /\ CommitEvent(r)
  /\ UNCHANGED attached

(* Mutant: the row is marked and keeps its text.                           *)
CommitDeleteMark(r) ==
  /\ pc[r] = "write" /\ ctx[r].op = "delete"
  /\ message' = [message EXCEPT ![ctx[r].target].deleted = TRUE]
  /\ CommitEvent(r)
  /\ UNCHANGED <<edits, attached>>

(* Mutant: a hard delete.                                                  *)
CommitHardDelete(r) ==
  /\ pc[r] = "write" /\ ctx[r].op = "delete"
  /\ message' = [message EXCEPT ![ctx[r].target] = None]
  /\ CommitEvent(r)
  /\ UNCHANGED <<edits, attached>>

CommitDelete(r) ==
  /\ pc[r] = "write" /\ ctx[r].op = "delete"
  /\ LET m == ctx[r].target IN
       /\ message' = [message EXCEPT
                        ![m].body = Written(ctx[r].seenBody, None, @),
                        ![m].deleted = TRUE]
       /\ CommitEvent(r)
  /\ UNCHANGED <<edits, attached>>

-----------------------------------------------------------------------------
(* mark_read: conversation and membership are read by two statements, and  *)
(* the new mark is computed from both.  Its receipt changes nothing here.  *)

ReadConversation(r, c, u, n) ==
  /\ pc[r] = "idle"
  /\ ctx' = [ctx EXCEPT ![r] = [Blank(r, c, u) EXCEPT
                                  !.op = "read", !.upTo = n, !.seenLast = lastSeq[c]]]
  /\ Goto(r, "member")
  /\ UNCHANGED <<store, lock, readMark, published, reply>>

ReadMembership(r) ==
  /\ pc[r] = "member"
  /\ LET seen == readMark[ctx[r].conv][ctx[r].user] IN
       /\ ctx' = [ctx EXCEPT ![r].seenMark = seen]
       /\ IF ctx[r].upTo <= seen
          THEN Answer(r, "ok", None)
          ELSE Goto(r, "mark") /\ UNCHANGED reply
  /\ UNCHANGED <<store, lock, readMark, published>>

(* Mutant: the client's number is taken as it is.                          *)
LesserTrusting(a, b) == a

Lesser(a, b) == IF a <= b THEN a ELSE b

MarkRead(r) ==
  /\ pc[r] = "mark"
  /\ LET new == Lesser(ctx[r].upTo, ctx[r].seenLast) IN
       readMark' = [readMark EXCEPT ![ctx[r].conv][ctx[r].user] =
                      Written(ctx[r].seenMark, new, @)]
  /\ Answer(r, "ok", None)
  /\ UNCHANGED <<store, lock, published, ctx>>

-----------------------------------------------------------------------------
(* publish_to_conversation, after the commit, and the answer.              *)
Publish(r) ==
  /\ pc[r] = "publish"
  /\ published' = [published EXCEPT ![ctx[r].conv] = @ \cup {EventOf(r)}]
  /\ Answer(r, IF ctx[r].op = "send" THEN "created" ELSE "ok", ctx[r].target)
  /\ UNCHANGED <<store, lock, readMark, ctx>>

(* Redis refuses, or the process dies: the row stays, the client is told   *)
(* of an error or of nothing.                                              *)
LosePublication(r) ==
  /\ pc[r] = "publish"
  /\ Answer(r, "error", None)
  /\ UNCHANGED <<store, lock, readMark, published, ctx>>

(* Mutant: the error leaves the transaction open.                          *)
FailKeepsLock(r) ==
  /\ pc[r] \in {"files", "alloc", "write", "reselect", "member", "mark"}
  /\ Answer(r, "error", None)
  /\ UNCHANGED <<store, lock, readMark, published, ctx>>

(* Before the commit anything may go wrong: get_db rolls back.             *)
Fail(r) ==
  /\ pc[r] \in {"files", "alloc", "write", "reselect", "member", "mark"}
  /\ Unlock(r)
  /\ Answer(r, "error", None)
  /\ UNCHANGED <<store, readMark, published, ctx>>

Arrive(r) ==
  \/ \E c \in Conversations, u \in Users, k \in Keys : SendReplayed(r, c, u, k)
  \/ \E c \in Conversations, u \in Users, k \in Keys, p \in Payloads :
        SendNew(r, c, u, k, p.body, p.files)
  \/ \E m \in Requests, b \in Bodies : LoadForEdit(r, m, b)
  \/ \E m \in Requests, u \in Users : LoadForDelete(r, m, u)
  \/ \E c \in Conversations, u \in Users, n \in 1..MaxUpTo :
        ReadConversation(r, c, u, n)

Proceed(r) ==
  \/ AcceptFiles(r) \/ RefuseFiles(r)
  \/ AllocSeq(r)
  \/ CommitSend(r) \/ SendDuplicate(r) \/ Reselect(r)
  \/ CommitEdit(r) \/ CommitDelete(r)
  \/ ReadMembership(r) \/ MarkRead(r)
  \/ Publish(r)

(* Every request has been answered: the model stops.                       *)
Finished == (\A r \in Requests : pc[r] = "done") /\ UNCHANGED vars

Next ==
  \/ \E r \in Requests : Arrive(r) \/ Proceed(r) \/ LosePublication(r) \/ Fail(r)
  \/ Finished

(* The event loop and PostgreSQL's lock queue run every request on; nothing *)
(* obliges a client to send one or a failure to happen.                     *)
Fairness == \A r \in Requests : WF_vars(Proceed(r))

Spec == Init /\ [][Next]_vars
FairSpec == Spec /\ Fairness

-----------------------------------------------------------------------------
(* Safety.                                                                 *)

(* The event log of a conversation is numbered 1, 2, 3, ... in the order   *)
(* of the commits, up to last_seq: no aborted send leaves a hole and no    *)
(* two writers share a number.                                             *)
GapFreeLog ==
  \A c \in Conversations :
    /\ Len(events[c]) = lastSeq[c]
    /\ \A i \in 1..Len(events[c]) : events[c][i].seq = i

(* However often and however concurrently a client retries a send, the     *)
(* conversation holds one row for its client_msg_id.                       *)
OneRowPerKey ==
  \A c \in Conversations, u \in Users, k \in Keys :
    \A m, n \in Requests : Holds(m, c, u, k) /\ Holds(n, c, u, k) => m = n

(* A sender who is told of success holds the id of the stored row of its   *)
(* own key, and at most one of its retries is told that it created it.     *)
RetriesAgree ==
  \A r \in Requests : reply[r] # None =>
    /\ reply[r].status \in {"created", "existing"} =>
         Holds(reply[r].message, ctx[r].conv, ctx[r].user, ctx[r].key)
    /\ reply[r].status = "created" => reply[r].message = r

(* Redis is never given an event that is not in the log.                   *)
PublishedIsCommitted ==
  \A c \in Conversations :
    published[c] \subseteq {events[c][i] : i \in 1..Len(events[c])}

(* The log and the messages table agree: every row is announced by the     *)
(* "send" event that has its number, and every event is about a row that   *)
(* still exists and was announced before it.                               *)
RowLogged(m) ==
  LET log == events[message[m].conv] IN
    /\ message[m].seq \in 1..Len(log)
    /\ log[message[m].seq].type = "send"
    /\ log[message[m].seq].message = m

EventGrounded(c, i) ==
  LET m == events[c][i].message IN
    /\ Exists(m)
    /\ message[m].conv = c
    /\ message[m].seq <= i
    /\ events[c][i].type = "send" <=> message[m].seq = i

LogMatchesRows ==
  /\ \A m \in Requests : Exists(m) => RowLogged(m)
  /\ \A c \in Conversations : \A i \in 1..Len(events[c]) : EventGrounded(c, i)

(* A deleted message has a text only because an edit overlapped with the   *)
(* deletion: the text is that of an edit in the log, and either a deletion *)
(* came before that edit, or the message was sent without a text, so that  *)
(* a deletion that had not seen the edit had none to remove.               *)
TextComesFromEdit(m) ==
  LET log == events[message[m].conv] IN
    \E i \in 1..Len(log) :
      /\ log[i].type = "edit" /\ log[i].message = m /\ log[i].body = message[m].body
      /\ \/ log[message[m].seq].body = None
         \/ \E j \in 1..(i - 1) : log[j].type = "delete" /\ log[j].message = m

DeletedTextIsLateEdit ==
  \A m \in Requests :
    Exists(m) /\ message[m].deleted /\ message[m].body # None => TextComesFromEdit(m)

(* Nobody has read beyond the end of a conversation.                       *)
ReadMarkBounded ==
  \A c \in Conversations, u \in Users : readMark[c][u] <= lastSeq[c]

(* Every request that has arrived is answered.                             *)
RequestsAnswered ==
  \A r \in Requests : pc[r] # "idle" ~> pc[r] = "done"

-----------------------------------------------------------------------------
(* What comments in the source say and concurrent requests do not keep.    *)

(* messages.py:162, "Return the winner rather than surfacing an error": a  *)
(* retry that the unique index refuses is never answered by an exception   *)
(* of its own.                                                             *)
LoserReturnsWinner ==
  \A r \in Requests : reply[r] # None => reply[r].status # "missing_greenlet"

(* messages.py:243, "content genuinely goes": a deleted message keeps no   *)
(* body.                                                                   *)
DeletedHasNoBody ==
  \A m \in Requests : Exists(m) /\ message[m].deleted => message[m].body = None

(* messages.py:213, "prior versions are retained": every text a message    *)
(* was stored with and no longer has is in the edit trail, deletion apart. *)
EditTrailComplete ==
  \A c \in Conversations : \A i \in 1..Len(events[c]) :
    LET e == events[c][i] IN
      e.type # "delete" /\ ~message[e.message].deleted =>
        \/ message[e.message].body = e.body
        \/ \E d \in edits : d.message = e.message /\ d.previous = e.body

(* messages.py:313, "a high-water mark per member": it never moves back.   *)
ReadMarkOnlyRises ==
  [][\A c \in Conversations, u \in Users : readMark'[c][u] >= readMark[c][u]]_vars

=============================================================================
