---------------------------- MODULE UploadsProofs ----------------------------
(***************************************************************************)
(* The safety of Uploads, proved for any uploads, requests, contents,      *)
(* conversations and readers: what a message shows stays, and the rows     *)
(* implement UploadLife.  What makes it work is that a file which a send   *)
(* has written is locked by that send until it commits, or had been purged *)
(* before (RequestOf); that what the worker has deleted is locked by the   *)
(* worker, and a row is READY only with an object the probe has recognised *)
(* (RowOf); and that the conversation of a row on a message is always that *)
(* of some message which lists the file, though not always of that one,    *)
(* as a send may leave the conversation which it loaded (RequestOf).       *)
(***************************************************************************)
EXTENDS Uploads, TLAPS

(* A message of conversation c lists the file.                             *)
Lists(u, c) == \E q \in Requests : u \in shows[q].files /\ shows[q].conversation = c

(* What a request may rely on at each of its steps.                        *)
Held(r, u) ==
  \/ lock[u] = r /\ row[u].state = "READY"
  \/ ctx[r].files # {u} /\ row[u].state = "purged"

(* The row names the conversation the send loaded, or another send has     *)
(* committed since and moved it.                                           *)
StaysOrMoved(r, u) ==
  row[u].conversation = ctx[r].conversation \/ Lists(u, row[u].conversation)

RequestOf(r) ==
  /\ pc[r] # "done" => shows[r].files = {}
  /\ pc[r] \in {"probe", "accept"} => ctx[r].upload \in Uploads
  /\ pc[r] = "accept" => ctx[r].type \in Known /\ object[ctx[r].upload] # None
  /\ pc[r] = "idle" => ctx[r].written = {}
  /\ pc[r] = "attach" =>
       /\ ctx[r].conversation \in Conversations
       /\ \A u \in ctx[r].files : row[u].state \in {"READY", "purged"}
       /\ \A u \in ctx[r].files \ ctx[r].moved : StaysOrMoved(r, u)
       /\ \A u \in ctx[r].written : Held(r, u)

(* What a row says, and who may hold it.                                   *)
RowOf(u) ==
  /\ row[u].state = "READY" => row[u].type \in Known /\ object[u] # None
  /\ row[u].message # None => row[u].state = "READY" /\ Lists(u, row[u].conversation)
  /\ u \in deleted => lock[u] = Worker /\ Stored(u) /\ row[u].message = None

(* What a stored message lists is on a message.                            *)
MessageOf(r) ==
  \A u \in shows[r].files :
    /\ shows[r].conversation \in Conversations
    /\ row[u].message # None \/ Lost(r, u)

RequestInv == \A r \in Requests : RequestOf(r)
RowInv == \A u \in Uploads : RowOf(u)
MessageInv == \A r \in Requests : MessageOf(r)

Inv == TypeOK /\ RequestInv /\ RowInv /\ MessageInv

-----------------------------------------------------------------------------
(* The parts every step is made of.                                        *)

LEMMA NamesDiffer ==
  /\ Worker \notin Requests /\ None \notin Requests /\ None # Worker
  /\ None \notin Known /\ None \notin Other /\ None \notin Conversations
BY UploadsAssumption DEF UploadsAssumption

LEMMA RowIsRow == ASSUME TypeOK, NEW u \in Uploads PROVE row[u] \in Row
BY DEF TypeOK

LEMMA ContextIsContext == ASSUME TypeOK, NEW r \in Requests PROVE ctx[r] \in Context
BY DEF TypeOK

(* A row and a context keep their types when one field is written.         *)
LEMMA WriteState ==
  ASSUME NEW x \in Row, NEW v \in {"PENDING", "READY", "purged"}
  PROVE  /\ [x EXCEPT !.state = v] \in Row /\ [x EXCEPT !.state = v].state = v
         /\ [x EXCEPT !.state = v].type = x.type
         /\ [x EXCEPT !.state = v].message = x.message
         /\ [x EXCEPT !.state = v].conversation = x.conversation
BY DEF Row

LEMMA WriteType ==
  ASSUME NEW x \in Row, NEW v \in Known \cup {None}
  PROVE  /\ [x EXCEPT !.type = v] \in Row /\ [x EXCEPT !.type = v].type = v
         /\ [x EXCEPT !.type = v].state = x.state
         /\ [x EXCEPT !.type = v].message = x.message
         /\ [x EXCEPT !.type = v].conversation = x.conversation
BY DEF Row

LEMMA WriteMessage ==
  ASSUME NEW x \in Row, NEW v \in Requests
  PROVE  /\ [x EXCEPT !.message = v] \in Row /\ [x EXCEPT !.message = v].message = v
         /\ [x EXCEPT !.message = v].state = x.state
         /\ [x EXCEPT !.message = v].type = x.type
         /\ [x EXCEPT !.message = v].conversation = x.conversation
BY DEF Row

LEMMA WriteConversation ==
  ASSUME NEW x \in Row, NEW v \in Conversations \cup {None}
  PROVE  /\ [x EXCEPT !.conversation = v] \in Row /\ [x EXCEPT !.conversation = v].conversation = v
         /\ [x EXCEPT !.conversation = v].state = x.state
         /\ [x EXCEPT !.conversation = v].type = x.type
         /\ [x EXCEPT !.conversation = v].message = x.message
BY DEF Row

(* The same for the table.                                                 *)
LEMMA TableState ==
  ASSUME NEW f \in [Uploads -> Row], NEW u \in Uploads, NEW v \in {"PENDING", "READY", "purged"},
         NEW g, g = [f EXCEPT ![u].state = v]
  PROVE  /\ g \in [Uploads -> Row]
         /\ g[u].state = v /\ g[u].type = f[u].type
         /\ g[u].message = f[u].message /\ g[u].conversation = f[u].conversation
         /\ \A w \in Uploads \ {u} : g[w] = f[w]
<1>1. PICK y : y = [f[u] EXCEPT !.state = v]
  OBVIOUS
<1>2. /\ y \in Row /\ y.state = v /\ y.type = f[u].type
      /\ y.message = f[u].message /\ y.conversation = f[u].conversation
  BY <1>1, WriteState
<1>3. g = [f EXCEPT ![u] = y]
  BY <1>1
<1> QED BY <1>2, <1>3

LEMMA TableType ==
  ASSUME NEW f \in [Uploads -> Row], NEW u \in Uploads, NEW v \in Known \cup {None},
         NEW g, g = [f EXCEPT ![u].type = v]
  PROVE  /\ g \in [Uploads -> Row]
         /\ g[u].type = v /\ g[u].state = f[u].state
         /\ g[u].message = f[u].message /\ g[u].conversation = f[u].conversation
         /\ \A w \in Uploads \ {u} : g[w] = f[w]
<1>1. PICK y : y = [f[u] EXCEPT !.type = v]
  OBVIOUS
<1>2. /\ y \in Row /\ y.type = v /\ y.state = f[u].state
      /\ y.message = f[u].message /\ y.conversation = f[u].conversation
  BY <1>1, WriteType
<1>3. g = [f EXCEPT ![u] = y]
  BY <1>1
<1> QED BY <1>2, <1>3

LEMMA TableConversation ==
  ASSUME NEW f \in [Uploads -> Row], NEW u \in Uploads, NEW v \in Conversations \cup {None},
         NEW g, g = [f EXCEPT ![u].conversation = v]
  PROVE  /\ g \in [Uploads -> Row]
         /\ g[u].conversation = v /\ g[u].state = f[u].state
         /\ g[u].type = f[u].type /\ g[u].message = f[u].message
         /\ \A w \in Uploads \ {u} : g[w] = f[w]
<1>1. PICK y : y = [f[u] EXCEPT !.conversation = v]
  OBVIOUS
<1>2. /\ y \in Row /\ y.conversation = v /\ y.state = f[u].state
      /\ y.type = f[u].type /\ y.message = f[u].message
  BY <1>1, WriteConversation
<1>3. g = [f EXCEPT ![u] = y]
  BY <1>1
<1> QED BY <1>2, <1>3

LEMMA ContextWrites ==
  ASSUME NEW x \in Context
  PROVE  /\ \A u \in Uploads : [x EXCEPT !.upload = u] \in Context
         /\ \A t \in Known : [x EXCEPT !.type = t] \in Context
         /\ \A c \in Conversations : [x EXCEPT !.conversation = c] \in Context
         /\ \A S \in SUBSET Uploads :
              /\ [x EXCEPT !.files = S] \in Context
              /\ [x EXCEPT !.moved = S] \in Context
              /\ [x EXCEPT !.written = S] \in Context
BY DEF Context

(* A request that is answered leaves nothing to rely on.                   *)
LEMMA AnswerTyped ==
  ASSUME TypeOK, NEW r \in Requests, Answer(r)
  PROVE  /\ pc' \in [Requests -> {"idle", "probe", "accept", "attach", "done"}]
         /\ ctx' \in [Requests -> Context]
<1>1. Blank \in Context
  BY DEF Blank, Context
<1> QED BY <1>1 DEF TypeOK, Answer, Goto

LEMMA UnlockTyped ==
  ASSUME TypeOK, NEW p, Unlock(p)
  PROVE  lock' \in [Uploads -> Requests \cup {Worker, None}]
BY DEF TypeOK, Unlock

(* What the SELECT of a send leaves in its context.                        *)
LEMMA SelectChanges ==
  ASSUME TypeOK, NEW r \in Requests, NEW c \in Conversations,
         NEW files \in SUBSET Uploads, SelectFiles(r, c, files), ~Answer(r)
  PROVE  /\ ctx'[r] \in Context /\ ctx'[r].written = ctx[r].written
         /\ ctx'[r].conversation = c /\ ctx'[r].files = files
         /\ \A u : u \in ctx'[r].moved <=> u \in files /\ row[u].conversation # c
         /\ ctx' = [ctx EXCEPT ![r] = ctx'[r]]
         /\ Goto(r, "attach")
<1> DEFINE moved == {u \in files : row[u].conversation # c}
<1>1. ctx' = [ctx EXCEPT ![r].conversation = c, ![r].files = files, ![r].moved = moved]
      /\ Goto(r, "attach")
  BY DEF SelectFiles
<1> HIDE DEF moved
<1>2. PICK one : one = [ctx EXCEPT ![r].conversation = c]
  OBVIOUS
<1>3. PICK two : two = [one EXCEPT ![r].files = files]
  OBVIOUS
<1>4. ctx' = [two EXCEPT ![r].moved = moved]
  BY <1>1, <1>2, <1>3
<1>5. DOMAIN ctx = Requests /\ ctx[r] \in Context
  BY DEF TypeOK
<1>6. one = [ctx EXCEPT ![r] = [ctx[r] EXCEPT !.conversation = c]]
  BY <1>2, <1>5 DEF TypeOK, Context
<1>7. two = [ctx EXCEPT ![r] = [ctx[r] EXCEPT !.conversation = c, !.files = files]]
  BY <1>3, <1>5, <1>6 DEF TypeOK, Context
<1>8. ctx' = [ctx EXCEPT ![r] = [ctx[r] EXCEPT !.conversation = c, !.files = files,
                                  !.moved = moved]]
  BY <1>4, <1>5, <1>7 DEF TypeOK, Context
<1>9. ctx'[r] = [ctx[r] EXCEPT !.conversation = c, !.files = files, !.moved = moved]
  BY <1>5, <1>8 DEF TypeOK
<1>10. moved \in SUBSET Uploads /\ \A u : u \in moved <=> u \in files /\ row[u].conversation # c
  BY DEF moved
<1>11. PICK late \in SUBSET Uploads : late = moved
  BY <1>10
<1>12. PICK three : three = [ctx[r] EXCEPT !.conversation = c, !.files = files, !.moved = late]
  OBVIOUS
<1>13. /\ three \in Context /\ three.written = ctx[r].written
       /\ three.conversation = c /\ three.files = files /\ three.moved = late
  <2>1. PICK first : first = [ctx[r] EXCEPT !.conversation = c]
    OBVIOUS
  <2>2. PICK second : second = [first EXCEPT !.files = files]
    OBVIOUS
  <2>3. first \in Context /\ first.conversation = c /\ first.written = ctx[r].written
    BY <1>5, <2>1 DEF Context
  <2>4. /\ second \in Context /\ second.conversation = c /\ second.files = files
        /\ second.written = ctx[r].written
    BY <2>2, <2>3 DEF Context
  <2>5. three = [second EXCEPT !.moved = late]
    BY <1>12, <2>1, <2>2
  <2> QED BY <2>4, <2>5 DEF Context
<1>14. ctx'[r] = three
  BY <1>9, <1>11, <1>12
<1>15. ctx' = [ctx EXCEPT ![r] = ctx'[r]]
  BY <1>8, <1>9
<1> QED BY <1>1, <1>10, <1>11, <1>13, <1>14, <1>15

(* A grant writes the state and the conversation of one row.               *)
LEMMA GrantChanges ==
  ASSUME TypeOK, NEW u \in Uploads, NEW c \in Conversations, RequestUpload(u, c)
  PROVE  /\ row' \in [Uploads -> Row]
         /\ row'[u].state = "PENDING" /\ row'[u].message = row[u].message
         /\ \A v \in Uploads \ {u} : row'[v] = row[v]
<1>1. PICK new : new = [row EXCEPT ![u].state = "PENDING"]
  OBVIOUS
<1>2. /\ new \in [Uploads -> Row]
      /\ new[u].state = "PENDING" /\ new[u].message = row[u].message
      /\ \A v \in Uploads \ {u} : new[v] = row[v]
  BY <1>1, TableState DEF TypeOK
<1>3. row' = [new EXCEPT ![u].conversation = c]
  BY <1>1 DEF RequestUpload
<1> QED BY <1>2, <1>3, TableConversation

(* A send writes the message and, where it moves a file, the conversation. *)
LEMMA AttachedChanges ==
  ASSUME TypeOK, NEW r \in Requests, NEW u \in Uploads
  PROVE  /\ Attached(r, u) \in Row /\ row[u] \in Row
         /\ Attached(r, u).state = row[u].state /\ Attached(r, u).type = row[u].type
         /\ Attached(r, u).message = r
         /\ Attached(r, u).conversation =
              IF u \in ctx[r].moved THEN ctx[r].conversation ELSE row[u].conversation
<1> DEFINE c == IF u \in ctx[r].moved THEN ctx[r].conversation ELSE row[u].conversation
<1>1. row[u] \in Row /\ c \in Conversations \cup {None}
  BY RowIsRow, ContextIsContext DEF Context, Row
<1>2. PICK x : x = [row[u] EXCEPT !.message = r]
  OBVIOUS
<1>3. /\ x \in Row /\ x.state = row[u].state /\ x.type = row[u].type
      /\ x.message = r /\ x.conversation = row[u].conversation
  BY <1>1, <1>2, WriteMessage
<1>4. Attached(r, u) = [x EXCEPT !.conversation = c]
  BY <1>2 DEF Attached
<1> HIDE DEF c
<1>5. /\ Attached(r, u) \in Row /\ Attached(r, u).conversation = c
      /\ Attached(r, u).state = x.state /\ Attached(r, u).type = x.type
      /\ Attached(r, u).message = x.message
  BY <1>1, <1>3, <1>4, WriteConversation
<1> QED BY <1>1, <1>3, <1>5 DEF c

-----------------------------------------------------------------------------
(* Types                                                                   *)

(* The tables and requests have their types after every step.              *)
LEMMA TypeStep == TypeOK /\ [Next]_vars => TypeOK'
<1> SUFFICES ASSUME TypeOK, [Next]_vars PROVE TypeOK'
  OBVIOUS
<1> USE NamesDiffer DEF TypeOK
<1>1. CASE UNCHANGED vars
  BY <1>1 DEF vars, worker
<1>2. ASSUME NEW r \in Requests, Arrive(r) PROVE TypeOK'
  <2>1. ASSUME NEW u \in Uploads, FinalizeReady(r, u) PROVE TypeOK'
    BY <2>1, AnswerTyped DEF FinalizeReady, worker
  <2>2. ASSUME NEW u \in Uploads, LoadForFinalize(r, u) PROVE TypeOK'
    BY <2>2, ContextWrites DEF LoadForFinalize, worker, Goto
  <2>3. ASSUME NEW c \in Conversations, NEW files \in SUBSET Uploads \ {{}},
               SelectFiles(r, c, files)
        PROVE  TypeOK'
    <3>1. CASE Answer(r)
      BY <2>3, <3>1, AnswerTyped DEF SelectFiles, worker
    <3>2. CASE ~Answer(r)
      <4>1. ctx'[r] \in Context /\ ctx' = [ctx EXCEPT ![r] = ctx'[r]] /\ Goto(r, "attach")
        BY <2>3, <3>2, SelectChanges
      <4> QED BY <2>3, <4>1 DEF SelectFiles, worker, Goto
    <3> QED BY <2>3, <3>1, <3>2 DEF SelectFiles
  <2> QED BY <1>2, <2>1, <2>2, <2>3 DEF Arrive
<1>3. ASSUME NEW r \in Requests, Probe(r) PROVE TypeOK'
  <2>1. CASE Answer(r)
    BY <1>3, <2>1, AnswerTyped DEF Probe, worker
  <2>2. CASE /\ object[ctx[r].upload] \in Known
             /\ ctx' = [ctx EXCEPT ![r].type = object[ctx[r].upload]]
             /\ Goto(r, "accept")
    BY <1>3, <2>2, ContextWrites DEF Probe, worker, Goto
  <2> QED BY <1>3, <2>1, <2>2 DEF Probe
<1>4. ASSUME NEW r \in Requests, AcceptUpload(r) PROVE TypeOK'
  <2>1. pc' \in [Requests -> {"idle", "probe", "accept", "attach", "done"}]
        /\ ctx' \in [Requests -> Context]
    BY <1>4, AnswerTyped DEF AcceptUpload
  <2>2. row' \in [Uploads -> Row]
    <3>1. CASE UNCHANGED row
      BY <3>1
    <3>2. PICK u, t : u = ctx[r].upload /\ t = ctx[r].type
      OBVIOUS
    <3>3. CASE row' = [row EXCEPT ![u].state = "READY", ![u].type = t]
      <4>1. t \in Known \cup {None}
        BY <3>2, ContextIsContext DEF Context
      <4>2. PICK new : new = [row EXCEPT ![u].state = "READY"]
        OBVIOUS
      <4>3. row' = [new EXCEPT ![u].type = t]
        BY <3>3, <4>2
      <4>4. CASE u \in Uploads
        <5>1. new \in [Uploads -> Row]
          BY <4>2, <4>4, TableState
        <5> QED BY <4>1, <4>3, <4>4, <5>1, TableType
      <4>5. CASE u \notin Uploads
        <5>1. new = row
          BY <4>2, <4>5
        <5> QED BY <4>3, <4>5, <5>1
      <4> QED BY <4>4, <4>5
    <3> QED BY <1>4, <3>1, <3>2, <3>3 DEF AcceptUpload
  <2> QED BY <1>4, <2>1, <2>2 DEF AcceptUpload, worker
<1>5. ASSUME NEW r \in Requests, NEW u \in Uploads, WriteFile(r, u) PROVE TypeOK'
  <2>1. CASE Unlock(r) /\ Answer(r)
    BY <1>5, <2>1, AnswerTyped, UnlockTyped DEF WriteFile, worker
  <2>2. CASE /\ lock' = IF Stored(u) THEN [lock EXCEPT ![u] = r] ELSE lock
             /\ ctx' = [ctx EXCEPT ![r].written = @ \cup {u}]
             /\ UNCHANGED pc
    <3>1. lock' \in [Uploads -> Requests \cup {Worker, None}]
      BY <2>2
    <3>2. ctx' \in [Requests -> Context]
      <4>1. ctx[r].written \cup {u} \in SUBSET Uploads
        BY ContextIsContext DEF Context
      <4> QED BY <2>2, <4>1, ContextWrites
    <3> QED BY <1>5, <2>2, <3>1, <3>2 DEF WriteFile, worker
  <2> QED BY <1>5, <2>1, <2>2 DEF WriteFile
<1>6. ASSUME NEW r \in Requests, CommitSend(r) PROVE TypeOK'
  <2>1. row' \in [Uploads -> Row]
    <3>1. ctx[r].conversation \in Conversations \cup {None}
      BY ContextIsContext DEF Context
    <3>2. ASSUME NEW u \in Uploads PROVE row[u] \in Row /\ Attached(r, u) \in Row
      BY <3>1, AttachedChanges
    <3> QED BY <1>6, <3>2 DEF CommitSend
  <2>2. shows' \in [Requests -> Message]
    BY <1>6, ContextIsContext DEF CommitSend, Context, Message
  <2> QED BY <1>6, <2>1, <2>2, AnswerTyped, UnlockTyped DEF CommitSend, worker
<1>7. ASSUME NEW r \in Requests, Fail(r) PROVE TypeOK'
  BY <1>7, AnswerTyped, UnlockTyped DEF Fail, worker
<1>8. ASSUME NEW r \in Requests, BreakDeadlock(r) PROVE TypeOK'
  <2>1. CASE AbortPurge /\ UNCHANGED crashes
    BY <2>1, UnlockTyped DEF AbortPurge
  <2>2. CASE Unlock(r) /\ Answer(r) /\ UNCHANGED <<row, age, object, shows, worker>>
    BY <2>2, AnswerTyped, UnlockTyped DEF worker
  <2> QED BY <1>8, <2>1, <2>2 DEF BreakDeadlock
<1>9. ASSUME NEW u \in Uploads, NEW c \in Conversations, RequestUpload(u, c) PROVE TypeOK'
  BY <1>9, GrantChanges DEF RequestUpload, worker
<1>10. ASSUME NEW u \in Uploads, Tick(u) PROVE TypeOK'
  <2>1. age[u] + 1 \in 0..2
    BY <1>10 DEF Tick
  <2> QED BY <1>10, <2>1 DEF Tick, worker
<1>11. ASSUME NEW u \in Uploads, NEW c \in Known \cup Other, Put(u, c) PROVE TypeOK'
  BY <1>11 DEF Put, worker
<1>12. CASE BeginPurge
  BY <1>12 DEF BeginPurge
<1>13. ASSUME NEW u \in Uploads, Visit(u) PROVE TypeOK'
  BY <1>13 DEF Visit
<1>14. CASE CommitPurge
  <2>1. row' \in [Uploads -> Row]
    BY <1>14, WriteState DEF CommitPurge
  <2> QED BY <1>14, <2>1, UnlockTyped DEF CommitPurge
<1>15. CASE CrashPurge
  <2>1. crashes' \in 0..MaxCrashes
    BY <1>15, UploadsAssumption DEF CrashPurge, UploadsAssumption
  <2> QED BY <1>15, <2>1, UnlockTyped DEF CrashPurge, AbortPurge
<1>16. CASE Finished
  BY <1>16 DEF Finished, vars, worker
<1> QED BY <1>1, <1>2, <1>3, <1>4, <1>5, <1>6, <1>7, <1>8, <1>9, <1>10, <1>11, <1>12,
           <1>13, <1>14, <1>15, <1>16 DEF Next, Proceed, Purge

-----------------------------------------------------------------------------
(* The invariant, one lemma per kind of step                               *)

Safe == RequestInv /\ RowInv /\ MessageInv

OthersStay(r) ==
  \A q \in Requests \ {r} : pc'[q] = pc[q] /\ ctx'[q] = ctx[q]

(* What is answered relies on nothing, and the other requests stay.        *)
LEMMA AnswerFrees ==
  ASSUME TypeOK, NEW r \in Requests, Answer(r)
  PROVE  RequestOf(r)' /\ OthersStay(r)
<1>1. pc'[r] = "done"
  BY DEF TypeOK, Answer, Goto
<1>2. OthersStay(r)
  BY DEF TypeOK, Answer, Goto, OthersStay
<1> QED BY <1>1, <1>2 DEF RequestOf

(* Rows that stay on their messages, or purged, keep what messages rely on. *)
LEMMA MessagesStay ==
  ASSUME Inv, UNCHANGED shows,
         \A u \in Uploads :
           /\ row[u].message # None => row'[u].message # None
           /\ row[u].state = "purged" => row'[u].state = "purged"
  PROVE  MessageInv'
<1> SUFFICES ASSUME NEW q \in Requests, NEW u \in shows[q].files
             PROVE  /\ shows[q].conversation \in Conversations
                    /\ row'[u].message # None \/ Lost(q, u)'
  BY DEF MessageInv, MessageOf
<1>1. u \in Uploads
  BY DEF Inv, TypeOK, Message
<1> QED BY <1>1 DEF Inv, MessageInv, MessageOf, Lost

(* A step of one request that changes nothing but where it stands.         *)
LEMMA StandStep ==
  ASSUME Inv, NEW r \in Requests, UNCHANGED <<row, object, lock, shows, deleted>>,
         OthersStay(r), RequestOf(r)'
  PROVE  Safe'
<1>1. RequestInv'
  <2> SUFFICES ASSUME NEW q \in Requests, q # r PROVE RequestOf(q)'
    BY DEF RequestInv
  <2> QED BY DEF Inv, RequestInv, RequestOf, Held, StaysOrMoved, Lists, OthersStay
<1>2. RowInv'
  BY DEF Inv, RowInv, RowOf, Stored, Lists
<1>3. MessageInv'
  BY MessagesStay
<1> QED BY <1>1, <1>2, <1>3 DEF Safe

(* A request that ends without a commit lets its rows go.                  *)
LEMMA ReleaseStep ==
  ASSUME Inv, NEW r \in Requests, UNCHANGED <<row, object, shows, deleted>>,
         Unlock(r), Answer(r)
  PROVE  Safe'
<1> USE NamesDiffer
<1>1. \A u \in Uploads : lock[u] # r => lock'[u] = lock[u]
  BY DEF Inv, TypeOK, Unlock
<1>2. RequestInv'
  <2> SUFFICES ASSUME NEW q \in Requests, q # r PROVE RequestOf(q)'
    BY AnswerFrees DEF Inv, RequestInv
  <2>1. pc'[q] = pc[q] /\ ctx'[q] = ctx[q] /\ RequestOf(q)
    BY AnswerFrees DEF Inv, RequestInv, OthersStay
  <2>2. ctx[q].written \subseteq Uploads
    BY ContextIsContext DEF Inv, Context
  <2> QED BY <1>1, <2>1, <2>2 DEF RequestOf, Held, StaysOrMoved, Lists
<1>3. RowInv'
  BY <1>1 DEF Inv, RowInv, RowOf, Stored, Lists
<1>4. MessageInv'
  BY MessagesStay
<1> QED BY <1>2, <1>3, <1>4 DEF Safe

(* finalize_upload and the SELECT of a send.                               *)
LEMMA ReadStep ==
  ASSUME Inv, NEW r \in Requests, Arrive(r) \/ Probe(r)
  PROVE  Safe'
<1> USE DEF Inv
<1>1. CASE Answer(r) /\ UNCHANGED <<row, age, object, lock, shows, worker>>
  BY <1>1, AnswerFrees, StandStep DEF worker
<1>2. ASSUME NEW u \in Uploads, LoadForFinalize(r, u) PROVE Safe'
  <2>1. OthersStay(r)
    BY <1>2 DEF LoadForFinalize, Goto, OthersStay, TypeOK
  <2>2. pc'[r] = "probe" /\ ctx'[r].upload = u
    BY <1>2, ContextIsContext DEF LoadForFinalize, Goto, TypeOK, Context
  <2> QED BY <1>2, <2>1, <2>2, StandStep
        DEF LoadForFinalize, RequestInv, RequestOf, worker
<1>3. ASSUME NEW c \in Conversations, NEW files \in SUBSET Uploads,
             SelectFiles(r, c, files), ~Answer(r)
      PROVE  Safe'
  <2>1. /\ OthersStay(r)
        /\ pc'[r] = "attach" /\ ctx'[r].files = files /\ ctx'[r].written = ctx[r].written
        /\ ctx'[r].conversation = c
        /\ \A u : u \in ctx'[r].moved <=> u \in files /\ row[u].conversation # c
    <3>1. /\ ctx'[r].files = files /\ ctx'[r].written = ctx[r].written
          /\ ctx'[r].conversation = c
          /\ \A u : u \in ctx'[r].moved <=> u \in files /\ row[u].conversation # c
          /\ ctx' = [ctx EXCEPT ![r] = ctx'[r]]
          /\ Goto(r, "attach")
      BY <1>3, SelectChanges
    <3>2. OthersStay(r) /\ pc'[r] = "attach"
      BY <3>1 DEF Goto, OthersStay, TypeOK
    <3> QED BY <3>1, <3>2
  <2>2. ctx[r].written = {} /\ shows[r].files = {}
    BY <1>3 DEF SelectFiles, RequestInv, RequestOf
  <2>3. UNCHANGED <<row, object, lock, shows, deleted>>
    BY <1>3 DEF SelectFiles, worker
  <2>4. \A u \in files : row'[u].state = "READY"
    BY <1>3, <2>3 DEF SelectFiles, Acceptable
  <2>5. \A u \in files \ ctx'[r].moved : StaysOrMoved(r, u)'
    BY <2>1, <2>3 DEF StaysOrMoved
  <2>6. RequestOf(r)'
    BY <2>1, <2>2, <2>3, <2>4, <2>5 DEF RequestOf
  <2> QED BY <2>1, <2>3, <2>6, StandStep
<1>4. ASSUME Probe(r), ~Answer(r) PROVE Safe'
  <2>1. OthersStay(r)
    BY <1>4 DEF Probe, Goto, OthersStay, TypeOK
  <2>2. pc'[r] = "accept" /\ ctx'[r].upload = ctx[r].upload
        /\ ctx'[r].type = object[ctx[r].upload] /\ object[ctx[r].upload] \in Known
    BY <1>4, ContextIsContext DEF Probe, Goto, TypeOK, Context
  <2>3. ctx[r].upload \in Uploads /\ shows[r].files = {}
    BY <1>4 DEF Probe, RequestInv, RequestOf
  <2> QED BY <1>4, <2>1, <2>2, <2>3, StandStep, NamesDiffer DEF Probe, RequestOf, worker
<1>5. ASSUME Probe(r) \/ (\E u \in Uploads : FinalizeReady(r, u))
                \/ (\E c \in Conversations, files \in SUBSET Uploads \ {{}} :
                      SelectFiles(r, c, files)), Answer(r)
      PROVE  Safe'
  BY <1>1, <1>5 DEF Probe, FinalizeReady, SelectFiles
<1> QED BY <1>2, <1>3, <1>4, <1>5 DEF Arrive, FinalizeReady

(* The commit of finalize_upload.                                          *)
LEMMA AcceptStep ==
  ASSUME Inv, NEW r \in Requests, AcceptUpload(r)
  PROVE  Safe'
<1> USE DEF Inv
<1>1. CASE Answer(r) /\ UNCHANGED <<row, age, object, lock, shows, worker>>
  BY <1>1, AnswerFrees, StandStep DEF worker
<1>2. PICK u, t : u = ctx[r].upload /\ t = ctx[r].type
  OBVIOUS
<1>3. CASE Stored(u) /\ row' = [row EXCEPT ![u].state = "READY", ![u].type = t]
  <2>1. u \in Uploads /\ t \in Known /\ object[u] # None /\ lock[u] = None
    BY <1>2, AcceptUpload(r) DEF AcceptUpload, RequestInv, RequestOf
  <2>2. /\ row'[u].state = "READY" /\ row'[u].type = t /\ row'[u].message = row[u].message
        /\ row'[u].conversation = row[u].conversation
        /\ \A v \in Uploads \ {u} : row'[v] = row[v]
    <3>1. PICK new : new = [row EXCEPT ![u].state = "READY"]
      OBVIOUS
    <3>2. /\ new \in [Uploads -> Row]
          /\ new[u].state = "READY" /\ new[u].message = row[u].message
          /\ new[u].conversation = row[u].conversation
          /\ \A v \in Uploads \ {u} : new[v] = row[v]
      BY <2>1, <3>1, TableState DEF TypeOK
    <3>3. row' = [new EXCEPT ![u].type = t]
      BY <1>3, <3>1
    <3> QED BY <2>1, <3>2, <3>3, TableType
  <2>3. RequestInv'
    <3> SUFFICES ASSUME NEW q \in Requests, q # r PROVE RequestOf(q)'
      BY AnswerFrees DEF RequestInv, AcceptUpload
    <3>1. pc'[q] = pc[q] /\ ctx'[q] = ctx[q] /\ RequestOf(q)
      BY AnswerFrees DEF RequestInv, OthersStay, AcceptUpload
    <3>2. ctx[q] \in Context
      BY ContextIsContext
    <3>3. \A v \in Uploads :
            /\ row'[v].state = row[v].state \/ (v = u /\ row'[v].state = "READY")
            /\ row'[v].conversation = row[v].conversation
      BY <2>2
    <3>4. UNCHANGED <<object, lock, shows>> /\ row[u].state # "purged"
      BY <1>3 DEF AcceptUpload, Stored
    <3>6. ctx[q].files \subseteq Uploads /\ ctx[q].written \subseteq Uploads
      BY <3>2 DEF Context
    <3>7. \A v \in Uploads : Held(q, v) => Held(q, v)'
      BY <2>1, <3>1, <3>3, <3>4 DEF Held
    <3> QED BY <3>1, <3>3, <3>4, <3>6, <3>7 DEF RequestOf, StaysOrMoved, Lists
  <2>4. RowInv'
    <3> SUFFICES ASSUME NEW v \in Uploads PROVE RowOf(v)'
      BY DEF RowInv
    <3>1. /\ RowOf(v) /\ UNCHANGED <<object, lock, shows, deleted>>
          /\ row[u].state # "purged" /\ row[u].state # "none"
      BY <1>3 DEF AcceptUpload, RowInv, Stored, worker
    <3>2. Lists(v, row[v].conversation) => Lists(v, row[v].conversation)'
      BY <2>1, <2>2, <3>1 DEF Lists
    <3>3. CASE v = u
      BY <2>1, <2>2, <3>1, <3>2, <3>3 DEF RowOf, Stored
    <3>4. CASE v # u
      BY <2>2, <3>1, <3>2, <3>4 DEF RowOf, Stored
    <3> QED BY <3>3, <3>4
  <2>5. MessageInv'
    BY <1>3, <2>1, <2>2, MessagesStay DEF AcceptUpload, Stored
  <2> QED BY <2>3, <2>4, <2>5 DEF Safe
<1> QED BY <1>1, <1>2, <1>3 DEF AcceptUpload

(* One UPDATE of a send.                                                   *)
LEMMA WriteStep ==
  ASSUME Inv, NEW r \in Requests, NEW u \in Uploads, WriteFile(r, u)
  PROVE  Safe'
<1> USE NamesDiffer DEF Inv
<1>1. CASE Unlock(r) /\ Answer(r)
  BY <1>1, ReleaseStep DEF WriteFile, worker
<1>2. CASE /\ Stored(u) \/ ~Alone(r, u)
           /\ lock' = IF Stored(u) THEN [lock EXCEPT ![u] = r] ELSE lock
           /\ ctx' = [ctx EXCEPT ![r].written = @ \cup {u}]
           /\ UNCHANGED pc
  <2>0. ~Stored(u) => ctx[r].files # {u}
    BY <1>2 DEF Alone
  <2>1. /\ ctx'[r].files = ctx[r].files /\ ctx'[r].written = ctx[r].written \cup {u}
        /\ ctx'[r].conversation = ctx[r].conversation /\ ctx'[r].moved = ctx[r].moved
        /\ pc[r] = "attach" /\ u \in ctx[r].files /\ lock[u] = None
    BY <1>2, ContextIsContext DEF WriteFile, Unwritten, TypeOK, Context
  <2>2. OthersStay(r)
    BY <1>2 DEF OthersStay, TypeOK
  <2>3. \A v \in Uploads : lock'[v] = IF v = u /\ Stored(u) THEN r ELSE lock[v]
    BY <1>2 DEF TypeOK
  <2>4. row[u].state \in {"READY", "purged"}
    BY <2>1 DEF RequestInv, RequestOf
  <2>5. RequestOf(r)'
    <3>1. ctx[r].written \subseteq Uploads /\ ctx[r].files \subseteq Uploads
      BY ContextIsContext DEF Context
    <3>2. \A v \in ctx'[r].written : Held(r, v)'
      BY <2>0, <2>1, <2>3, <2>4, <3>1
         DEF WriteFile, RequestInv, RequestOf, Held, Stored
    <3> QED BY <1>2, <2>1, <3>2 DEF WriteFile, RequestInv, RequestOf, StaysOrMoved, Lists
  <2>6. RequestInv'
    <3> SUFFICES ASSUME NEW q \in Requests, q # r PROVE RequestOf(q)'
      BY <2>5 DEF RequestInv
    <3>1. pc'[q] = pc[q] /\ ctx'[q] = ctx[q] /\ RequestOf(q)
      BY <2>2 DEF RequestInv, OthersStay
    <3>2. ctx[q].written \subseteq Uploads
      BY ContextIsContext DEF Context
    <3> QED BY <2>1, <2>3, <3>1, <3>2 DEF WriteFile, RequestOf, Held, StaysOrMoved, Lists
  <2>7. RowInv'
    BY <2>1, <2>3 DEF WriteFile, RowInv, RowOf, Stored, Lists, worker
  <2>8. MessageInv'
    BY MessagesStay DEF WriteFile
  <2> QED BY <2>6, <2>7, <2>8 DEF Safe
<1> QED BY <1>1, <1>2 DEF WriteFile

(* The commit of a send: every file it lists is held by it, or purged.     *)
LEMMA SendStep ==
  ASSUME Inv, NEW r \in Requests, CommitSend(r)
  PROVE  Safe'
<1> USE NamesDiffer DEF Inv
<1>1. ctx[r].files \subseteq Uploads /\ ctx[r].files \subseteq ctx[r].written
  BY ContextIsContext DEF CommitSend, Unwritten, Context
<1>2. \A u \in ctx[r].files : Held(r, u)
  BY <1>1 DEF CommitSend, RequestInv, RequestOf
<1>3. \A u \in Uploads :
        IF u \in ctx[r].files /\ row[u].state = "READY"
        THEN /\ lock[u] = r /\ row'[u].message = r
             /\ row'[u].state = row[u].state /\ row'[u].type = row[u].type
             /\ row'[u].conversation = IF u \in ctx[r].moved THEN ctx[r].conversation
                                                             ELSE row[u].conversation
        ELSE row'[u] = row[u]
  BY <1>1, <1>2, RowIsRow DEF CommitSend, Attached, Held, Stored, Row
<1>4. \A u \in Uploads : lock[u] # r => lock'[u] = lock[u]
  BY DEF TypeOK, CommitSend, Unlock
<1>5. /\ shows'[r].files = ctx[r].files /\ shows'[r].conversation = ctx[r].conversation
      /\ \A q \in Requests \ {r} : shows'[q] = shows[q]
      /\ shows[r].files = {} /\ ctx[r].conversation \in Conversations
  BY DEF CommitSend, TypeOK, RequestInv, RequestOf
<1>6. \A u, c : (\E q \in Requests : u \in shows[q].files /\ shows[q].conversation = c)
             => (\E q \in Requests : u \in shows'[q].files /\ shows'[q].conversation = c)
  BY <1>5
<1>7. \A u \in ctx[r].files : row[u].state = "READY" => Lists(u, row[u].conversation)'
  <2> SUFFICES ASSUME NEW u \in ctx[r].files, row[u].state = "READY"
               PROVE  Lists(u, row[u].conversation)'
    OBVIOUS
  <2>1. CASE row'[u].conversation = ctx[r].conversation
    BY <1>5, <2>1 DEF Lists
  <2>2. CASE row'[u].conversation # ctx[r].conversation
    <3>1. u \in Uploads /\ u \notin ctx[r].moved /\ row'[u].conversation = row[u].conversation
      BY <1>1, <1>3, <2>2
    <3>2. StaysOrMoved(r, u)
      BY <3>1 DEF CommitSend, RequestInv, RequestOf
    <3> QED BY <1>6, <2>2, <3>1, <3>2 DEF StaysOrMoved, Lists
  <2> QED BY <2>1, <2>2
<1>8. RequestInv'
  <2> SUFFICES ASSUME NEW q \in Requests, q # r PROVE RequestOf(q)'
    BY AnswerFrees DEF RequestInv, CommitSend
  <2>1. pc'[q] = pc[q] /\ ctx'[q] = ctx[q] /\ RequestOf(q)
    BY AnswerFrees DEF RequestInv, OthersStay, CommitSend
  <2>2. ctx[q].written \subseteq Uploads /\ ctx[q].files \subseteq Uploads
    BY ContextIsContext DEF Context
  <2>3. \A u \in Uploads : row'[u].state = row[u].state
    BY <1>3
  <2>4. \A u \in Uploads : StaysOrMoved(q, u) => StaysOrMoved(q, u)'
    <3> SUFFICES ASSUME NEW u \in Uploads, StaysOrMoved(q, u) PROVE StaysOrMoved(q, u)'
      OBVIOUS
    <3>1. CASE u \in ctx[r].files /\ row[u].state = "READY"
      BY <1>7, <3>1 DEF StaysOrMoved
    <3>2. CASE row'[u] = row[u]
      BY <1>6, <2>1, <3>2 DEF StaysOrMoved, Lists
    <3> QED BY <1>3, <3>1, <3>2
  <2>5. shows'[q] = shows[q] /\ object' = object
    BY <1>5 DEF CommitSend
  <2> QED BY <1>4, <2>1, <2>2, <2>3, <2>4, <2>5 DEF RequestOf, Held
<1>9. RowInv'
  <2> SUFFICES ASSUME NEW u \in Uploads PROVE RowOf(u)'
    BY DEF RowInv
  <2>1. RowOf(u) /\ object'[u] = object[u] /\ deleted' = deleted
    BY DEF RowInv, CommitSend, worker
  <2>2. CASE u \in ctx[r].files /\ row[u].state = "READY"
    BY <1>3, <1>4, <1>7, <2>1, <2>2 DEF RowOf, Stored
  <2>3. CASE row'[u] = row[u]
    BY <1>4, <1>6, <2>1, <2>3 DEF RowOf, Stored, Lists
  <2> QED BY <1>3, <2>2, <2>3
<1>10. MessageInv'
  <2> SUFFICES ASSUME NEW q \in Requests, NEW u \in shows'[q].files
               PROVE  /\ shows'[q].conversation \in Conversations
                      /\ row'[u].message # None \/ Lost(q, u)'
    BY DEF MessageInv, MessageOf
  <2>1. CASE q = r
    <3>1. u \in Uploads /\ u \in ctx[r].files /\ Held(r, u)
      BY <1>1, <1>2, <1>5, <2>1
    <3> QED BY <1>3, <1>5, <2>1, <3>1 DEF Held, Lost
  <2>2. CASE q # r
    <3>1. shows'[q] = shows[q] /\ u \in Uploads
      BY <1>5, <2>2 DEF TypeOK, Message
    <3>2. shows[q].conversation \in Conversations /\ (row[u].message # None \/ Lost(q, u))
      BY <3>1 DEF MessageInv, MessageOf
    <3> QED BY <1>3, <3>1, <3>2 DEF Lost
  <2> QED BY <2>1, <2>2
<1> QED BY <1>8, <1>9, <1>10 DEF Safe

(* A grant names a row that nobody holds or shows.                         *)
LEMMA GrantStep ==
  ASSUME Inv, NEW u \in Uploads, NEW c \in Conversations, RequestUpload(u, c)
  PROVE  Safe'
<1> USE DEF Inv
<1>1. /\ row[u].state = "none" /\ row[u].message = None
      /\ row'[u].state = "PENDING" /\ row'[u].message = row[u].message
      /\ \A v \in Uploads \ {u} : row'[v] = row[v]
      /\ UNCHANGED <<object, lock, shows, deleted, pc, ctx>>
  BY GrantChanges DEF RequestUpload, RowInv, RowOf, worker
<1>2. RequestInv'
  <2> SUFFICES ASSUME NEW q \in Requests PROVE RequestOf(q)'
    BY DEF RequestInv
  <2>1. ctx[q].files \subseteq Uploads /\ ctx[q].written \subseteq Uploads /\ RequestOf(q)
    BY ContextIsContext DEF RequestInv, Context
  <2> QED BY <1>1, <2>1 DEF RequestOf, Held, StaysOrMoved, Lists
<1>3. RowInv'
  BY <1>1 DEF RowInv, RowOf, Stored, Lists
<1>4. MessageInv'
  BY <1>1, MessagesStay
<1> QED BY <1>2, <1>3, <1>4 DEF Safe

(* A PUT never leaves a key without an object.                             *)
LEMMA PutStep ==
  ASSUME Inv, NEW u \in Uploads, NEW c \in Known \cup Other, Put(u, c)
  PROVE  Safe'
<1> USE NamesDiffer DEF Inv
<1>1. \A v \in Uploads : object[v] # None => object'[v] # None
  BY DEF Put, TypeOK
<1>2. RequestInv'
  BY <1>1 DEF Put, RequestInv, RequestOf, Held, StaysOrMoved, Lists
<1>3. RowInv'
  BY <1>1 DEF Put, RowInv, RowOf, Stored, Lists, worker
<1>4. MessageInv'
  BY MessagesStay DEF Put
<1> QED BY <1>2, <1>3, <1>4 DEF Safe

(* What leaves everything the invariant speaks of as it is.                *)
LEMMA OutsideStep ==
  ASSUME Inv, UNCHANGED <<row, object, lock, shows, deleted, pc, ctx>>
  PROVE  Safe'
BY MessagesStay
   DEF Inv, Safe, RequestInv, RequestOf, Held, StaysOrMoved, RowInv, RowOf, Stored, Lists

(* A visited row that is still an orphan is locked by the worker.          *)
LEMMA VisitStep ==
  ASSUME Inv, NEW u \in Uploads, Visit(u)
  PROVE  Safe'
<1> USE NamesDiffer DEF Inv
<1>1. CASE UNCHANGED <<lock, deleted>>
  BY <1>1, OutsideStep DEF Visit
<1>2. CASE Orphan(u) /\ lock' = [lock EXCEPT ![u] = Worker] /\ deleted' = deleted \cup {u}
  <2>1. lock[u] = None /\ row[u].state # "purged" /\ Stored(u) /\ row[u].message = None
    BY <1>2 DEF Visit, Orphan, Stored
  <2>2. \A v \in Uploads : lock'[v] = IF v = u THEN Worker ELSE lock[v]
    BY <1>2 DEF TypeOK
  <2>3. RequestInv'
    <3> SUFFICES ASSUME NEW q \in Requests PROVE RequestOf(q)'
      BY DEF RequestInv
    <3>1. ctx[q].written \subseteq Uploads /\ RequestOf(q)
      BY ContextIsContext DEF RequestInv, Context
    <3> QED BY <2>1, <2>2, <3>1 DEF Visit, RequestOf, Held, StaysOrMoved, Lists
  <2>4. RowInv'
    BY <1>2, <2>1, <2>2 DEF Visit, RowInv, RowOf, Stored, Lists
  <2>5. MessageInv'
    BY MessagesStay DEF Visit
  <2> QED BY <2>3, <2>4, <2>5 DEF Safe
<1> QED BY <1>1, <1>2 DEF Visit

(* The commit of the purge takes rows that nobody holds and nobody shows.  *)
LEMMA PurgeStep ==
  ASSUME Inv, CommitPurge
  PROVE  Safe'
<1> USE NamesDiffer DEF Inv
<1>1. \A u \in Uploads : lock[u] # Worker => lock'[u] = lock[u] /\ u \notin deleted
  BY DEF CommitPurge, TypeOK, Unlock, RowInv, RowOf
<1>2. \A u \in Uploads :
        /\ row'[u].message = row[u].message /\ row'[u].type = row[u].type
        /\ row'[u].conversation = row[u].conversation
        /\ row'[u].state = IF u \in deleted THEN "purged" ELSE row[u].state
  BY RowIsRow DEF CommitPurge, Row
<1>3. \A u \in deleted : row[u].message = None /\ u \in Uploads
  BY DEF RowInv, RowOf, TypeOK
<1>4. RequestInv'
  <2> SUFFICES ASSUME NEW q \in Requests PROVE RequestOf(q)'
    BY DEF RequestInv
  <2>1. /\ ctx[q].files \subseteq Uploads /\ ctx[q].written \subseteq Uploads
        /\ RequestOf(q)
    BY ContextIsContext DEF RequestInv, Context
  <2> QED BY <1>1, <1>2, <2>1 DEF CommitPurge, RequestOf, Held, StaysOrMoved, Lists
<1>5. RowInv'
  BY <1>1, <1>2, <1>3 DEF CommitPurge, RowInv, RowOf, Stored, Lists
<1>6. MessageInv'
  BY <1>2, MessagesStay DEF CommitPurge
<1> QED BY <1>4, <1>5, <1>6 DEF Safe

(* What the worker gives up it held alone.                                 *)
LEMMA AbortStep ==
  ASSUME Inv, AbortPurge
  PROVE  Safe'
<1> USE NamesDiffer DEF Inv
<1>1. \A u \in Uploads : lock[u] # Worker => lock'[u] = lock[u]
  BY DEF AbortPurge, TypeOK, Unlock
<1>2. RequestInv'
  <2> SUFFICES ASSUME NEW q \in Requests PROVE RequestOf(q)'
    BY DEF RequestInv
  <2>1. ctx[q].written \subseteq Uploads /\ RequestOf(q)
    BY ContextIsContext DEF RequestInv, Context
  <2> QED BY <1>1, <2>1 DEF AbortPurge, RequestOf, Held, StaysOrMoved, Lists
<1>3. RowInv'
  BY DEF AbortPurge, RowInv, RowOf, Lists
<1>4. MessageInv'
  BY MessagesStay DEF AbortPurge
<1> QED BY <1>2, <1>3, <1>4 DEF Safe

(* Every step keeps the three parts.                                       *)
LEMMA SafeStep == Inv /\ [Next]_vars => Safe'
<1> SUFFICES ASSUME Inv, [Next]_vars PROVE Safe'
  OBVIOUS
<1>1. CASE UNCHANGED vars \/ Finished \/ BeginPurge \/ \E u \in Uploads : Tick(u)
  BY <1>1, OutsideStep DEF vars, worker, Finished, BeginPurge, Tick
<1>2. ASSUME NEW r \in Requests, Arrive(r) PROVE Safe'
  BY <1>2, ReadStep
<1>3. ASSUME NEW r \in Requests, Proceed(r) PROVE Safe'
  <2>1. CASE BreakDeadlock(r)
    BY <2>1, AbortStep, ReleaseStep DEF BreakDeadlock, worker
  <2> QED BY <1>3, <2>1, ReadStep, AcceptStep, WriteStep, SendStep DEF Proceed
<1>4. ASSUME NEW r \in Requests, Fail(r) PROVE Safe'
  BY <1>4, ReleaseStep DEF Fail, worker
<1>5. ASSUME NEW u \in Uploads, NEW c \in Conversations, RequestUpload(u, c) PROVE Safe'
  BY <1>5, GrantStep
<1>6. ASSUME NEW u \in Uploads, NEW c \in Known \cup Other, Put(u, c) PROVE Safe'
  BY <1>6, PutStep
<1>7. ASSUME NEW u \in Uploads, Visit(u) PROVE Safe'
  BY <1>7, VisitStep
<1>8. CASE CommitPurge
  BY <1>8, PurgeStep
<1>9. CASE CrashPurge
  BY <1>9, AbortStep DEF CrashPurge
<1> QED BY <1>1, <1>2, <1>3, <1>4, <1>5, <1>6, <1>7, <1>8, <1>9 DEF Next, Purge

(* Nothing is granted, held or shown at first.                             *)
LEMMA InvInit == Init => Inv
<1> SUFFICES ASSUME Init PROVE Inv
  OBVIOUS
<1> USE NamesDiffer DEF Init
<1>1. TypeOK
  BY UploadsAssumption DEF UploadsAssumption, TypeOK, Row, Message, Context, Blank
<1>2. RequestInv
  BY DEF RequestInv, RequestOf, Blank
<1>3. RowInv
  BY DEF RowInv, RowOf
<1>4. MessageInv
  BY DEF MessageInv, MessageOf
<1> QED BY <1>1, <1>2, <1>3, <1>4 DEF Inv

(* The invariant is inductive.                                             *)
LEMMA InvStep == Inv /\ [Next]_vars => Inv'
BY SafeStep, TypeStep DEF Inv, Safe

(* What requests, rows, locks and messages say of each other, always.      *)
THEOREM FilesAreHeld == Spec => []Inv
BY InvInit, InvStep, PTL DEF Spec

(* Rows, bucket, locks and requests have their types.                      *)
THEOREM TypeCorrect == Spec => []TypeOK
<1>1. Inv => TypeOK
  BY DEF Inv
<1> QED BY <1>1, FilesAreHeld, PTL

(* The readers of the conversation that a file's row names can fetch it,   *)
(* and that is the conversation of a message which lists it.               *)
LEMMA ListedIsKept == Inv => ShownFilesStay
<1> SUFFICES ASSUME Inv, NEW r \in Requests, NEW u \in shows[r].files
             PROVE  Kept(r, u) \/ Lost(r, u) \/ Taken(r, u)
  BY DEF ShownFilesStay
<1> USE DEF Inv
<1>1. u \in Uploads /\ (row[u].message # None \/ Lost(r, u))
  BY DEF TypeOK, Message, MessageInv, MessageOf
<1>2. CASE row[u].message # None
  <2>1. /\ row[u].state = "READY" /\ row[u].type \in Known /\ object[u] # None
        /\ Lists(u, row[u].conversation)
    BY <1>1, <1>2 DEF RowInv, RowOf
  <2>2. PICK q \in Requests : u \in shows[q].files /\ shows[q].conversation = row[u].conversation
    BY <2>1 DEF Lists
  <2>3. row[u].conversation # None
    BY <2>2, NamesDiffer DEF MessageInv, MessageOf
  <2>4. \A p : shows[p].conversation = row[u].conversation => Kept(p, u)
    BY <1>2, <2>1, <2>3 DEF Kept, CanFetch
  <2> QED BY <2>2, <2>4 DEF Taken
<1> QED BY <1>1, <1>2

(* What a stored message lists was validated, is out of the purge's reach  *)
(* and can be fetched by whoever reads the message, or, where another      *)
(* message took it to another conversation, by whoever reads that one; but *)
(* for a file of several that was purged before the flush.                 *)
THEOREM ShownFilesAreKept == Spec => []ShownFilesStay
BY ListedIsKept, FilesAreHeld, PTL

-----------------------------------------------------------------------------
(* Refinement                                                              *)

(* Rows that stay as they are stay in their stage.                         *)
LEMMA StagesStay == ASSUME UNCHANGED row PROVE UNCHANGED stages
BY DEF stages

(* The rows of S go from one of the stages in from to the stage to.        *)
LEMMA MoveOf ==
  ASSUME NEW from, NEW to, NEW S \in SUBSET Uploads,
         \A u \in S : stages[u] \in from /\ stages'[u] = to,
         \A u \in Uploads \ S : row'[u] = row[u]
  PROVE  Life!Move(from, to)
<1>1. \A u \in Uploads \ S : stages'[u] = stages[u]
  BY DEF stages
<1>2. stages' = [u \in Uploads |-> IF u \in S THEN to ELSE stages[u]]
  BY <1>1 DEF stages
<1> QED BY <1>2 DEF Life!Move

(* Every row starts with no stage behind it.                               *)
LEMMA LifeStart == Init => Life!LifeInit
BY DEF Init, Life!LifeInit, stages

(* Every step moves some rows on by one stage, or none.                    *)
LEMMA LifeStep == Inv /\ [Next]_vars => [Life!LifeNext]_stages
<1> SUFFICES ASSUME Inv, [Next]_vars PROVE Life!LifeNext \/ UNCHANGED stages
  OBVIOUS
<1> USE NamesDiffer DEF Inv
<1>1. CASE UNCHANGED row
  BY <1>1, StagesStay
<1>2. ASSUME NEW u \in Uploads, NEW c \in Conversations, RequestUpload(u, c)
      PROVE  Life!LifeNext
  <2>1. /\ row[u].state = "none" /\ row[u].message = None
        /\ row'[u].state = "PENDING" /\ row'[u].message = row[u].message
        /\ \A v \in Uploads \ {u} : row'[v] = row[v]
    BY <1>2, GrantChanges DEF RequestUpload, RowInv, RowOf
  <2>2. stages[u] = "none" /\ stages'[u] = "pending"
    BY <2>1 DEF stages
  <2>3. Life!Move({"none"}, "pending")
    BY <2>1, <2>2, MoveOf
  <2> QED BY <2>3 DEF Life!LifeNext
<1>3. ASSUME NEW r \in Requests, AcceptUpload(r), ~UNCHANGED row
      PROVE  Life!LifeNext \/ UNCHANGED stages
  <2>1. PICK u, t : u = ctx[r].upload /\ t = ctx[r].type
    OBVIOUS
  <2>2. u \in Uploads
    BY <1>3, <2>1 DEF AcceptUpload, RequestInv, RequestOf
  <2>3. Stored(u) /\ row' = [row EXCEPT ![u].state = "READY", ![u].type = t]
    BY <1>3, <2>1 DEF AcceptUpload
  <2>4. /\ row'[u].state = "READY" /\ row'[u].message = row[u].message
        /\ \A v \in Uploads \ {u} : row'[v] = row[v]
    <3>1. PICK new : new = [row EXCEPT ![u].state = "READY"]
      OBVIOUS
    <3>2. /\ new \in [Uploads -> Row]
          /\ new[u].state = "READY" /\ new[u].message = row[u].message
          /\ \A v \in Uploads \ {u} : new[v] = row[v]
      BY <2>2, <3>1 DEF TypeOK, Row
    <3>3. row' = [new EXCEPT ![u].type = t]
      BY <2>3, <3>1
    <3> QED BY <2>2, <3>2, <3>3 DEF Row
  <2>5. RowOf(u)
    BY <2>2 DEF RowInv
  <2>6. CASE row[u].state = "PENDING"
    <3>1. stages[u] = "pending" /\ stages'[u] = "ready"
      BY <2>2, <2>4, <2>5, <2>6 DEF stages, RowOf
    <3>2. /\ {u} \in SUBSET Uploads
          /\ \A v \in {u} : stages[v] \in {"pending"} /\ stages'[v] = "ready"
          /\ \A v \in Uploads \ {u} : row'[v] = row[v]
      BY <2>2, <2>4, <3>1
    <3>3. Life!Move({"pending"}, "ready")
      BY <3>2, MoveOf
    <3> QED BY <3>3 DEF Life!LifeNext
  <2>7. CASE row[u].state = "READY"
    BY <2>2, <2>4, <2>7 DEF stages
  <2> QED BY <2>3, <2>6, <2>7 DEF Stored
<1>4. ASSUME NEW r \in Requests, CommitSend(r) PROVE Life!LifeNext
  <2> DEFINE S == {u \in ctx[r].files : row[u].state = "READY" /\ row[u].message = None}
  <2>1. ctx[r].files \subseteq Uploads /\ ctx[r].files \subseteq ctx[r].written
    BY <1>4, ContextIsContext DEF CommitSend, Unwritten, Context
  <2>2. \A u \in ctx[r].files : row[u].state \in {"READY", "purged"}
    BY <1>4, <2>1 DEF CommitSend, RequestInv, RequestOf
  <2>3. \A u \in Uploads :
          /\ row'[u].state = row[u].state
          /\ row'[u].message = IF u \in ctx[r].files /\ row[u].state = "READY"
                               THEN r ELSE row[u].message
    BY <1>4, <2>1, <2>2, RowIsRow DEF CommitSend, Attached, Stored, Row
  <2>4. \A u \in S : stages[u] = "ready" /\ stages'[u] = "shown"
    BY <2>1, <2>3 DEF stages
  <2>5. \A u \in Uploads \ S : stages'[u] = stages[u]
    BY <2>3 DEF stages
  <2>6. stages' = [u \in Uploads |-> IF u \in S THEN "shown" ELSE stages[u]]
    BY <2>4, <2>5 DEF stages
  <2>7. Life!Move({"ready"}, "shown")
    <3> HIDE DEF S
    <3>1. S \in SUBSET Uploads
      BY <2>1 DEF S
    <3> QED BY <2>4, <2>6, <3>1 DEF Life!Move
  <2> QED BY <2>7 DEF Life!LifeNext
<1>5. CASE CommitPurge
  <2>1. deleted \subseteq Uploads /\ \A u \in deleted : RowOf(u)
    BY DEF TypeOK, RowInv
  <2>2. \A u \in Uploads :
          /\ row'[u].message = row[u].message
          /\ row'[u].state = IF u \in deleted THEN "purged" ELSE row[u].state
    BY <1>5, RowIsRow DEF CommitPurge, Row
  <2>3. \A u \in deleted : stages[u] \in {"pending", "ready"} /\ stages'[u] = "removed"
    BY <2>1, <2>2 DEF stages, RowOf, Stored
  <2>4. \A u \in Uploads \ deleted : row'[u] = row[u]
    BY <1>5 DEF CommitPurge
  <2>5. Life!Move({"pending", "ready"}, "removed")
    BY <2>1, <2>3, <2>4, MoveOf
  <2> QED BY <2>5 DEF Life!LifeNext
<1>6. \/ UNCHANGED row
      \/ \E u \in Uploads, c \in Conversations : RequestUpload(u, c)
      \/ \E r \in Requests : AcceptUpload(r) \/ CommitSend(r)
      \/ CommitPurge
  BY DEF Next, vars, worker, Arrive, FinalizeReady, LoadForFinalize, SelectFiles, Proceed,
         Probe, WriteFile, BreakDeadlock, Fail, Tick, Put, Purge, BeginPurge, Visit,
         AbortPurge, CrashPurge, Finished
<1> QED BY <1>1, <1>2, <1>3, <1>4, <1>5, <1>6

(* Nothing is shown before it was validated, nothing leaves once shown.    *)
THEOREM RowsLive == Spec => ImplementsLife
BY LifeStart, LifeStep, FilesAreHeld, PTL DEF Spec, ImplementsLife, Life!LifeSpec
=============================================================================
