--------------------------- MODULE MessagesProofs ---------------------------
(***************************************************************************)
(* The safety invariants of Messages, proved for any conversations, users, *)
(* messages and requests.  They are proved in layers, each with the help   *)
(* of those before: what a request knows at each of its steps (Control),   *)
(* who holds the conversation lock and how the log is numbered (Locking),  *)
(* how the rows, the log and the answers agree (Agreement), and where the  *)
(* text of a row comes from (TextsAgree).                                  *)
(***************************************************************************)
EXTENDS Messages, TLAPS

(* What each step may rely on of its own request.                          *)
ControlOf(r) ==
  /\ pc[r] # "idle" => ctx[r] \in Context
  /\ pc[r] \in {"files", "reselect"} => ctx[r].op = "send"
  /\ pc[r] \in {"alloc", "write", "publish"} => ctx[r].op \in {"send", "edit", "delete"}
  /\ pc[r] \in {"member", "mark"} => ctx[r].op = "read"
  /\ pc[r] \in {"files", "alloc", "write", "publish"} /\ ctx[r].op = "send"
       => ctx[r].target = r
  /\ pc[r] \in {"files", "alloc", "write", "publish", "reselect"} /\ ctx[r].op = "send"
       => ctx[r].key \in Keys
  /\ pc[r] \in {"alloc", "write"} /\ ctx[r].op # "send"
       => Exists(ctx[r].target) /\ message[ctx[r].target].conv = ctx[r].conv
  /\ pc[r] \notin {"publish", "done"} => message[r] = None
  /\ pc[r] # "done" => reply[r] = None

Control == \A r \in Requests : ControlOf(r)

Inv1 == TypeOK /\ Control

(* The columns of a row that no statement updates.                         *)
Fixed(m) == <<message[m].conv, message[m].seq, message[m].sender, message[m].key>>

(* A step of r neither drops a row nor renames it, and inserts none but r's *)
KeepsRows(r) ==
  /\ \A m \in Requests : Exists(m) => Exists(m)' /\ Fixed(m)' = Fixed(m)
  /\ \A m \in Requests \ {r} : message[m] = None => message'[m] = None

-----------------------------------------------------------------------------
(* The parts every step is made of.                                        *)

(* What a send carries is a text or none, and files.                       *)
LEMMA PayloadParts ==
  \A p \in Payloads : p.body \in Bodies \cup {None} /\ p.files \in SUBSET Attachments
BY ModelAssumption DEF ModelAssumption

LEMMA GotoStep ==
  ASSUME TypeOK, NEW r \in Requests, NEW label \in PC, Goto(r, label)
  PROVE  /\ pc' \in [Requests -> PC]
         /\ pc'[r] = label
         /\ \A s \in Requests \ {r} : pc'[s] = pc[s]
BY DEF TypeOK, Goto

LEMMA AnswerStep ==
  ASSUME TypeOK, NEW r \in Requests, NEW m \in Requests \cup {None},
         NEW status \in {"created", "existing", "ok", "error", "missing_greenlet"},
         Answer(r, status, m)
  PROVE  /\ pc' \in [Requests -> PC]
         /\ pc'[r] = "done"
         /\ \A s \in Requests \ {r} : pc'[s] = pc[s]
         /\ reply' \in [Requests -> Reply \cup {None}]
         /\ reply'[r] \in Reply
         /\ reply'[r].status = status /\ reply'[r].message = m
         /\ \A s \in Requests \ {r} : reply'[s] = reply[s]
<1>1. [status |-> status, message |-> m] \in Reply
  BY DEF Reply
<1> DEFINE x == [status |-> status, message |-> m]
<1>2. x.status = status /\ x.message = m
  OBVIOUS
<1> HIDE DEF x
<1>3. reply' = [reply EXCEPT ![r] = x] /\ x \in Reply
  BY <1>1 DEF x, Answer
<1>4. "done" \in PC /\ Goto(r, "done")
  BY DEF Answer, PC
<1>5. QED
  BY <1>2, <1>3, <1>4, GotoStep DEF TypeOK

LEMMA ContextStep ==
  ASSUME TypeOK, NEW r \in Requests, NEW x \in Context, ctx' = [ctx EXCEPT ![r] = x]
  PROVE  /\ ctx' \in [Requests -> Context \cup {None}]
         /\ ctx'[r] = x
         /\ \A s \in Requests \ {r} : ctx'[s] = ctx[s]
BY DEF TypeOK

(* A step of one request disturbs no other request's knowledge.            *)
LEMMA ControlFrame ==
  ASSUME Inv1, NEW r \in Requests, ControlOf(r)', KeepsRows(r),
         \A s \in Requests \ {r} :
           pc'[s] = pc[s] /\ ctx'[s] = ctx[s] /\ reply'[s] = reply[s]
  PROVE  Control'
<1> SUFFICES ASSUME NEW s \in Requests \ {r} PROVE ControlOf(s)'
  BY DEF Control
<1>1. ControlOf(s)
  BY DEF Inv1, Control
<1>2. pc[s] # "idle" => ctx[s].target \in Requests
  BY <1>1 DEF ControlOf, Context
<1>3. QED
  BY <1>1, <1>2 DEF ControlOf, KeepsRows, Fixed

LEMMA SameRows ==
  ASSUME NEW r \in Requests, UNCHANGED message PROVE KeepsRows(r)
BY DEF KeepsRows, Exists, Fixed

LEMMA UnlockStep ==
  ASSUME TypeOK, NEW r \in Requests, Unlock(r)
  PROVE  lock' \in [Conversations -> Requests \cup {None}]
BY DEF TypeOK, Unlock

LEMMA EventType ==
  ASSUME Inv1, NEW r \in Requests, pc[r] \in {"write", "publish"}
  PROVE  /\ EventOf(r) \in Event
         /\ EventOf(r).seq = ctx[r].seq
         /\ EventOf(r).type = ctx[r].op
         /\ EventOf(r).message = ctx[r].target
<1>1. ctx[r] \in Context /\ ctx[r].op \in {"send", "edit", "delete"}
  BY DEF Inv1, Control, ControlOf
<1>2. QED
  BY <1>1 DEF EventOf, Event, Context

-----------------------------------------------------------------------------
LEMMA InitInv1 == Init => Inv1
BY DEF Init, Inv1, TypeOK, Control, ControlOf, PC

(* The contexts in which edit_message and delete_message start.            *)
EditContext(r, m, b, row) ==
  [Blank(r, row.conv, row.sender) EXCEPT
     !.op = "edit", !.target = m, !.body = b, !.seenBody = row.body, !.seenEdits = row.edits]

DeleteContext(r, m, u, row) ==
  [Blank(r, row.conv, u) EXCEPT
     !.op = "delete", !.target = m, !.seenBody = row.body, !.seenEdits = row.edits]

LEMMA EditStarts ==
  ASSUME NEW r \in Requests, NEW m \in Requests, NEW b \in Bodies, NEW row \in Row
  PROVE  /\ EditContext(r, m, b, row) \in Context
         /\ EditContext(r, m, b, row).op = "edit"
         /\ EditContext(r, m, b, row).target = m
         /\ EditContext(r, m, b, row).conv = row.conv
BY DEF Blank, Context, EditContext, Row

LEMMA DeleteStarts ==
  ASSUME NEW r \in Requests, NEW m \in Requests, NEW u \in Users, NEW row \in Row
  PROVE  /\ DeleteContext(r, m, u, row) \in Context
         /\ DeleteContext(r, m, u, row).op = "delete"
         /\ DeleteContext(r, m, u, row).target = m
         /\ DeleteContext(r, m, u, row).conv = row.conv
BY DEF Blank, Context, DeleteContext, Row

(* edit and delete update a row in place.                                  *)
LEMMA RowUpdate ==
  ASSUME TypeOK, NEW r \in Requests, NEW m \in Requests, Exists(m), NEW row \in Row,
         <<row.conv, row.seq, row.sender, row.key>> = Fixed(m),
         message' = [message EXCEPT ![m] = row]
  PROVE  message' \in [Requests -> Row \cup {None}] /\ KeepsRows(r)
BY NullAssumption DEF TypeOK, KeepsRows, Exists, Fixed

(* What the commits do to the messages table.                              *)
LEMMA SendRows ==
  ASSUME Inv1, NEW r \in Requests, CommitSend(r)
  PROVE  /\ message' \in [Requests -> Row \cup {None}] /\ KeepsRows(r)
         /\ Exists(r)'
         /\ Fixed(r)' = <<ctx[r].conv, ctx[r].seq, ctx[r].user, ctx[r].key>>
<1> DEFINE row == [conv |-> ctx[r].conv, seq |-> ctx[r].seq, sender |-> ctx[r].user,
                   key |-> ctx[r].key, body |-> ctx[r].body, edits |-> 0,
                   deleted |-> FALSE]
<1>1. ctx[r] \in Context /\ ctx[r].key \in Keys /\ message[r] = None
  BY DEF CommitSend, Inv1, Control, ControlOf
<1>2. row \in Row
  BY <1>1 DEF Row, Context
<1>3. <<row.conv, row.seq, row.sender, row.key>>
        = <<ctx[r].conv, ctx[r].seq, ctx[r].user, ctx[r].key>>
  OBVIOUS
<1>4. message' = [message EXCEPT ![r] = row]
  BY DEF CommitSend
<1> HIDE DEF row
<1>5. QED
  BY <1>1, <1>2, <1>3, <1>4, NullAssumption DEF Inv1, TypeOK, KeepsRows, Exists, Fixed

LEMMA ChangeRows ==
  ASSUME Inv1, NEW r \in Requests, CommitEdit(r) \/ CommitDelete(r)
  PROVE  /\ message' \in [Requests -> Row \cup {None}] /\ KeepsRows(r)
         /\ Exists(r)' => Exists(r)
         /\ Exists(ctx[r].target) /\ message[ctx[r].target].conv = ctx[r].conv
<1> USE DEF Inv1
<1>1. ctx[r] \in Context
  BY DEF CommitEdit, CommitDelete, Control, ControlOf
<1>2. /\ Exists(ctx[r].target) /\ ctx[r].target \in Requests
      /\ message[ctx[r].target].conv = ctx[r].conv
  BY <1>1 DEF CommitEdit, CommitDelete, Control, ControlOf, Context
<1>3. PICK row \in Row :
        /\ message' = [message EXCEPT ![ctx[r].target] = row]
        /\ <<row.conv, row.seq, row.sender, row.key>> = Fixed(ctx[r].target)
  <2> DEFINE m == ctx[r].target
  <2>1. m \in Requests /\ message[m] \in Row
    BY <1>2 DEF Exists, TypeOK
  <2>2. CASE CommitEdit(r)
    <3> DEFINE x == [message[m] EXCEPT
                       !.body = Written(ctx[r].seenBody, ctx[r].body, message[m].body),
                       !.edits = ctx[r].seenEdits + 1]
    <3>1. message' = [message EXCEPT ![m] = x]
      BY <2>1, <2>2 DEF CommitEdit, Row
    <3>2. Written(ctx[r].seenBody, ctx[r].body, message[m].body) \in Bodies \cup {None}
          /\ ctx[r].seenEdits + 1 \in Nat
      BY <1>1, <2>1 DEF Written, Context, Row
    <3>3. x \in Row /\ <<x.conv, x.seq, x.sender, x.key>> = Fixed(m)
      BY <2>1, <3>2 DEF Row, Fixed
    <3>4. QED
      BY <3>1, <3>3
  <2>3. CASE CommitDelete(r)
    <3> DEFINE x == [message[m] EXCEPT
                       !.body = Written(ctx[r].seenBody, None, message[m].body),
                       !.deleted = TRUE]
    <3>1. message' = [message EXCEPT ![m] = x]
      BY <2>1, <2>3 DEF CommitDelete, Row
    <3>2. x \in Row /\ <<x.conv, x.seq, x.sender, x.key>> = Fixed(m)
      BY <1>1, <2>1 DEF Written, Context, Row, Fixed
    <3>3. QED
      BY <3>1, <3>2
  <2>4. QED
    BY <2>2, <2>3
<1>4. message' \in [Requests -> Row \cup {None}] /\ KeepsRows(r)
  BY <1>2, <1>3, RowUpdate
<1>5. Exists(r)' => Exists(r)
  BY <1>2, <1>3 DEF Exists, TypeOK
<1>6. QED
  BY <1>2, <1>4, <1>5

LEMMA StepInv1 ==
  ASSUME Inv1, [Next]_vars PROVE Inv1'
<1> USE DEF Inv1
<1>1. ASSUME NEW r \in Requests, NEW c \in Conversations, NEW u \in Users,
             NEW k \in Keys, SendReplayed(r, c, u, k)
      PROVE  Inv1'
  <2> DEFINE x == [Blank(r, c, u) EXCEPT !.key = k]
  <2>1. x \in Context
    BY DEF Blank, Context
  <2> HIDE DEF x
  <2>2. ctx' = [ctx EXCEPT ![r] = x]
    BY <1>1 DEF SendReplayed, x
  <2>3. PICK m \in Requests : Answer(r, "existing", m)
    BY <1>1 DEF SendReplayed
  <2>4. UNCHANGED <<store, lock, readMark, published>>
    BY <1>1 DEF SendReplayed
  <2>5. TypeOK'
    BY <2>1, <2>2, <2>3, <2>4, AnswerStep, ContextStep DEF TypeOK, store
  <2>6. ControlOf(r)'
    BY <2>1, <2>2, <2>3, AnswerStep, ContextStep DEF ControlOf
  <2>7. QED
    BY <2>1, <2>2, <2>3, <2>4, <2>5, <2>6, AnswerStep, ContextStep, ControlFrame,
       SameRows DEF store
<1>2. ASSUME NEW r \in Requests, NEW c \in Conversations, NEW u \in Users,
             NEW k \in Keys, NEW b \in Bodies \cup {None}, NEW files \in SUBSET Attachments,
             SendNew(r, c, u, k, b, files)
      PROVE  Inv1'
  <2> DEFINE x == [Blank(r, c, u) EXCEPT !.key = k, !.body = b, !.files = files]
             label == IF files = {} THEN "alloc" ELSE "files"
  <2>1. x \in Context /\ x.op = "send" /\ x.target = r /\ x.key = k /\ label \in PC
    BY DEF Blank, Context, PC
  <2>2. label \in {"alloc", "files"}
    OBVIOUS
  <2> HIDE DEF x, label
  <2>3. ctx' = [ctx EXCEPT ![r] = x] /\ Goto(r, label) /\ pc[r] = "idle"
    BY <1>2 DEF SendNew, x, label
  <2>4. UNCHANGED <<store, lock, readMark, published, reply>>
    BY <1>2 DEF SendNew
  <2>5. TypeOK'
    BY <2>1, <2>3, <2>4, GotoStep, ContextStep DEF TypeOK, store
  <2>6. ControlOf(r)'
    BY <2>1, <2>2, <2>3, <2>4, GotoStep, ContextStep DEF ControlOf, Control, store, Exists
  <2>7. QED
    BY <2>1, <2>3, <2>4, <2>5, <2>6, GotoStep, ContextStep, ControlFrame, SameRows DEF store
<1>3. ASSUME NEW r \in Requests, NEW m \in Requests, NEW b \in Bodies,
             LoadForEdit(r, m, b)
      PROVE  Inv1'
  <2> DEFINE x == EditContext(r, m, b, message[m])
  <2>1. message[m] \in Row
    BY <1>3 DEF LoadForEdit, Exists, TypeOK
  <2>2. x \in Context /\ x.op = "edit" /\ x.target = m /\ x.conv = message[m].conv
    BY <2>1, EditStarts
  <2> HIDE DEF x
  <2>3. ctx' = [ctx EXCEPT ![r] = x] /\ Goto(r, "alloc") /\ "alloc" \in PC
        /\ pc[r] = "idle" /\ Exists(m)
    BY <1>3 DEF LoadForEdit, x, PC, EditContext
  <2>4. UNCHANGED <<store, lock, readMark, published, reply>>
    BY <1>3 DEF LoadForEdit
  <2>5. TypeOK'
    BY <2>2, <2>3, <2>4, GotoStep, ContextStep DEF TypeOK, store
  <2>6. ControlOf(r)'
    <3>1. message' = message /\ reply' = reply /\ message[r] = None /\ reply[r] = None
      BY <2>3, <2>4 DEF Control, ControlOf, store
    <3>2. pc'[r] = "alloc" /\ ctx'[r] = x
      BY <2>2, <2>3, GotoStep, ContextStep
    <3>3. QED
      BY <2>2, <2>3, <3>1, <3>2 DEF ControlOf, Exists
  <2>7. QED
    BY <2>2, <2>3, <2>4, <2>5, <2>6, GotoStep, ContextStep, ControlFrame, SameRows DEF store
<1>4. ASSUME NEW r \in Requests, NEW m \in Requests, NEW u \in Users,
             LoadForDelete(r, m, u)
      PROVE  Inv1'
  <2> DEFINE x == DeleteContext(r, m, u, message[m])
  <2>1. message[m] \in Row
    BY <1>4 DEF LoadForDelete, Exists, TypeOK
  <2>2. x \in Context /\ x.op = "delete" /\ x.target = m /\ x.conv = message[m].conv
    BY <2>1, DeleteStarts
  <2> HIDE DEF x
  <2>3. ctx' = [ctx EXCEPT ![r] = x] /\ Goto(r, "alloc") /\ "alloc" \in PC
        /\ pc[r] = "idle" /\ Exists(m)
    BY <1>4 DEF LoadForDelete, x, PC, DeleteContext
  <2>4. UNCHANGED <<store, lock, readMark, published, reply>>
    BY <1>4 DEF LoadForDelete
  <2>5. TypeOK'
    BY <2>2, <2>3, <2>4, GotoStep, ContextStep DEF TypeOK, store
  <2>6. ControlOf(r)'
    <3>1. message' = message /\ reply' = reply /\ message[r] = None /\ reply[r] = None
      BY <2>3, <2>4 DEF Control, ControlOf, store
    <3>2. pc'[r] = "alloc" /\ ctx'[r] = x
      BY <2>2, <2>3, GotoStep, ContextStep
    <3>3. QED
      BY <2>2, <2>3, <3>1, <3>2 DEF ControlOf, Exists
  <2>7. QED
    BY <2>2, <2>3, <2>4, <2>5, <2>6, GotoStep, ContextStep, ControlFrame, SameRows DEF store
<1>5. ASSUME NEW r \in Requests, NEW c \in Conversations, NEW u \in Users,
             NEW n \in 1..MaxUpTo, ReadConversation(r, c, u, n)
      PROVE  Inv1'
  <2> DEFINE x == [Blank(r, c, u) EXCEPT
                     !.op = "read", !.upTo = n, !.seenLast = lastSeq[c]]
  <2>1. n \in Nat /\ lastSeq[c] \in Nat
    BY ModelAssumption DEF TypeOK
  <2>2. x \in Context /\ x.op = "read" /\ "member" \in PC
    BY <2>1 DEF Blank, Context, PC
  <2> HIDE DEF x
  <2>3. ctx' = [ctx EXCEPT ![r] = x] /\ Goto(r, "member") /\ pc[r] = "idle"
    BY <1>5 DEF ReadConversation, x
  <2>4. UNCHANGED <<store, lock, readMark, published, reply>>
    BY <1>5 DEF ReadConversation
  <2>5. TypeOK'
    BY <2>2, <2>3, <2>4, GotoStep, ContextStep DEF TypeOK, store
  <2>6. ControlOf(r)'
    <3>1. message' = message /\ reply' = reply /\ message[r] = None /\ reply[r] = None
      BY <2>3, <2>4 DEF Control, ControlOf, store
    <3>2. pc'[r] = "member" /\ ctx'[r] = x
      BY <2>2, <2>3, GotoStep, ContextStep
    <3>3. QED
      BY <2>2, <2>3, <3>1, <3>2 DEF ControlOf, Exists
  <2>7. QED
    BY <2>2, <2>3, <2>4, <2>5, <2>6, GotoStep, ContextStep, ControlFrame, SameRows DEF store
<1>6. ASSUME NEW r \in Requests, AcceptFiles(r)
      PROVE  Inv1'
  <2>1. pc[r] = "files" /\ Goto(r, "alloc") /\ "alloc" \in PC
        /\ UNCHANGED <<store, lock, readMark, published, ctx, reply>>
    BY <1>6 DEF AcceptFiles, PC
  <2>2. TypeOK'
    BY <2>1, GotoStep DEF TypeOK, store
  <2>3. ControlOf(r)'
    BY <2>1, GotoStep DEF ControlOf, Control, store, Exists
  <2>4. QED
    BY <2>1, <2>2, <2>3, GotoStep, ControlFrame, SameRows DEF store
<1>7. ASSUME NEW r \in Requests, NEW m \in Requests \cup {None},
             NEW status \in {"created", "existing", "ok", "error", "missing_greenlet"},
             Answer(r, status, m), UNCHANGED <<store, published>>,
             UNCHANGED lock \/ Unlock(r),
             readMark' \in [Conversations -> [Users -> Nat]],
             ctx' \in [Requests -> Context \cup {None}], ctx'[r] \in Context,
             \A s \in Requests \ {r} : ctx'[s] = ctx[s]
      PROVE  Inv1'
  <2>1. TypeOK'
    BY <1>7, AnswerStep, UnlockStep DEF TypeOK, store
  <2>2. ControlOf(r)'
    BY <1>7, AnswerStep DEF ControlOf
  <2>3. QED
    BY <1>7, <2>1, <2>2, AnswerStep, ControlFrame, SameRows DEF store
<1>8. ASSUME NEW r \in Requests, RefuseFiles(r) \/ Reselect(r) \/ LosePublication(r)
      PROVE  Inv1'
  <2>1. pc[r] # "idle" /\ ctx[r] \in Context /\ ctx \in [Requests -> Context \cup {None}]
        /\ readMark \in [Conversations -> [Users -> Nat]]
    BY <1>8 DEF RefuseFiles, Reselect, LosePublication, Control, ControlOf, TypeOK
  <2>2. UNCHANGED <<store, lock, readMark, published, ctx>>
    BY <1>8 DEF RefuseFiles, Reselect, LosePublication
  <2>3. PICK m \in Requests \cup {None},
             status \in {"created", "existing", "ok", "error", "missing_greenlet"} :
          Answer(r, status, m)
    BY <1>8 DEF RefuseFiles, Reselect, LosePublication
  <2>4. QED
    BY <2>1, <2>2, <2>3, <1>7
<1>9. ASSUME NEW r \in Requests, Fail(r)
      PROVE  Inv1'
  <2>1. pc[r] # "idle" /\ ctx[r] \in Context /\ ctx \in [Requests -> Context \cup {None}]
        /\ readMark \in [Conversations -> [Users -> Nat]]
    BY <1>9 DEF Fail, Control, ControlOf, TypeOK
  <2>2. QED
    BY <1>9, <2>1, <1>7 DEF Fail
<1>10. ASSUME NEW r \in Requests, AllocSeq(r)
       PROVE  Inv1'
  <2> DEFINE x == [ctx[r] EXCEPT !.seq = lastSeq[ctx[r].conv] + 1]
  <2>1. ctx[r] \in Context /\ pc[r] = "alloc" /\ Goto(r, "write") /\ "write" \in PC
        /\ UNCHANGED <<store, readMark, published, reply>>
    BY <1>10 DEF AllocSeq, Control, ControlOf, PC
  <2>2. lastSeq[ctx[r].conv] + 1 \in Nat
    BY <2>1 DEF TypeOK, Context
  <2>3. x \in Context /\ x.op = ctx[r].op /\ x.target = ctx[r].target /\ x.key = ctx[r].key
        /\ x.conv = ctx[r].conv
    BY <2>1, <2>2 DEF Context
  <2>4. ctx' = [ctx EXCEPT ![r] = x]
    BY <1>10 DEF AllocSeq
  <2> HIDE DEF x
  <2>5. lock' \in [Conversations -> Requests \cup {None}]
    BY <1>10, <2>1 DEF AllocSeq, TypeOK
  <2>6. TypeOK'
    BY <2>1, <2>3, <2>4, <2>5, GotoStep, ContextStep DEF TypeOK, store
  <2>7. ControlOf(r)'
    BY <2>1, <2>3, <2>4, GotoStep, ContextStep DEF ControlOf, Control, store, Exists
  <2>8. QED
    BY <2>1, <2>3, <2>4, <2>6, <2>7, GotoStep, ContextStep, ControlFrame, SameRows DEF store
<1>11. ASSUME NEW r \in Requests, pc[r] = "write", CommitEvent(r), KeepsRows(r),
              message' \in [Requests -> Row \cup {None}], edits' \subseteq Edit,
              attached' \in [Attachments -> Requests \cup {None}]
       PROVE  Inv1'
  <2>1. ctx[r] \in Context /\ ctx[r].conv \in Conversations /\ ctx[r].seq \in Nat
    BY <1>11 DEF Control, ControlOf, Context
  <2>2. /\ lastSeq' \in [Conversations -> Nat]
        /\ lock' \in [Conversations -> Requests \cup {None}]
        /\ Goto(r, "publish") /\ "publish" \in PC
        /\ UNCHANGED <<readMark, published, ctx, reply>>
    BY <1>11, <2>1, UnlockStep DEF CommitEvent, TypeOK, PC
  <2>3. events' \in [Conversations -> Seq(Event)]
    <3>1. events' = [events EXCEPT ![ctx[r].conv] = Append(@, EventOf(r))]
      BY <1>11 DEF CommitEvent
    <3>2. EventOf(r) \in Event /\ events[ctx[r].conv] \in Seq(Event)
      BY <1>11, <2>1, EventType DEF TypeOK
    <3>3. Append(events[ctx[r].conv], EventOf(r)) \in Seq(Event)
      BY <3>2
    <3>4. QED
      BY <3>1, <3>3, <2>1 DEF TypeOK
  <2>4. TypeOK'
    BY <1>11, <2>2, <2>3, GotoStep DEF TypeOK
  <2>5. ControlOf(r)'
    BY <1>11, <2>2, GotoStep DEF ControlOf, Control
  <2>6. QED
    BY <1>11, <2>2, <2>4, <2>5, GotoStep, ControlFrame
<1>12. ASSUME NEW r \in Requests, CommitSend(r) \/ CommitEdit(r) \/ CommitDelete(r)
       PROVE  Inv1'
  <2>1. ctx[r] \in Context /\ pc[r] = "write" /\ CommitEvent(r)
    BY <1>12 DEF CommitSend, CommitEdit, CommitDelete, Control, ControlOf
  <2>2. edits' \subseteq Edit
    <3>1. [message |-> ctx[r].target, previous |-> ctx[r].seenBody, by |-> r] \in Edit
      BY <2>1 DEF Context, Edit
    <3>2. QED
      BY <3>1, <1>12 DEF CommitSend, CommitEdit, CommitDelete, TypeOK
  <2>3. attached' \in [Attachments -> Requests \cup {None}]
    BY <1>12 DEF CommitSend, CommitEdit, CommitDelete, TypeOK
  <2>4. message' \in [Requests -> Row \cup {None}] /\ KeepsRows(r)
    BY <1>12, SendRows, ChangeRows
  <2>5. QED
    BY <1>11, <2>1, <2>2, <2>3, <2>4
<1>13. ASSUME NEW r \in Requests, SendDuplicate(r)
       PROVE  Inv1'
  <2>1. pc[r] = "write" /\ ctx[r].op = "send" /\ Goto(r, "reselect") /\ "reselect" \in PC
        /\ Unlock(r) /\ UNCHANGED <<store, readMark, published, ctx, reply>>
    BY <1>13 DEF SendDuplicate, PC
  <2>2. TypeOK'
    BY <2>1, GotoStep, UnlockStep DEF TypeOK, store
  <2>3. ControlOf(r)'
    BY <2>1, GotoStep DEF ControlOf, Control, store, Exists
  <2>4. QED
    BY <2>1, <2>2, <2>3, GotoStep, ControlFrame, SameRows DEF store
<1>14. ASSUME NEW r \in Requests, ReadMembership(r)
       PROVE  Inv1'
  <2> DEFINE seen == readMark[ctx[r].conv][ctx[r].user]
             x == [ctx[r] EXCEPT !.seenMark = seen]
  <2>1. ctx[r] \in Context /\ pc[r] = "member" /\ ctx[r].op = "read"
        /\ message[r] = None /\ reply[r] = None
    BY <1>14 DEF ReadMembership, Control, ControlOf
  <2>2. seen \in Nat
    BY <2>1 DEF TypeOK, Context
  <2>3. x \in Context /\ x.op = "read" /\ ctx' = [ctx EXCEPT ![r] = x]
        /\ UNCHANGED <<store, lock, readMark, published>>
    BY <1>14, <2>1, <2>2 DEF ReadMembership, Context
  <2>4. Answer(r, "ok", None) \/ (Goto(r, "mark") /\ UNCHANGED reply)
    BY <1>14 DEF ReadMembership
  <2> HIDE DEF x, seen
  <2>5. CASE Answer(r, "ok", None)
    BY <1>7, <2>3, <2>5, ContextStep DEF TypeOK
  <2>6. CASE Goto(r, "mark") /\ UNCHANGED reply
    <3>1. "mark" \in PC
      BY DEF PC
    <3>2. TypeOK'
      BY <2>3, <2>6, <3>1, GotoStep, ContextStep DEF TypeOK, store
    <3>3. ControlOf(r)'
      BY <2>1, <2>3, <2>6, <3>1, GotoStep, ContextStep DEF ControlOf, store
    <3>4. QED
      BY <2>3, <2>6, <3>1, <3>2, <3>3, GotoStep, ContextStep, ControlFrame, SameRows
         DEF store
  <2>7. QED
    BY <2>4, <2>5, <2>6
<1>15. ASSUME NEW r \in Requests, MarkRead(r)
       PROVE  Inv1'
  <2> DEFINE new == Written(ctx[r].seenMark, Lesser(ctx[r].upTo, ctx[r].seenLast),
                            readMark[ctx[r].conv][ctx[r].user])
  <2>1. ctx[r] \in Context /\ ctx \in [Requests -> Context \cup {None}]
    BY <1>15 DEF MarkRead, Control, ControlOf, TypeOK
  <2>2. new \in Nat
    BY <2>1 DEF Written, Lesser, TypeOK, Context
  <2>3. readMark' = [readMark EXCEPT ![ctx[r].conv][ctx[r].user] = new]
    BY <1>15 DEF MarkRead
  <2> HIDE DEF new
  <2>4. readMark' \in [Conversations -> [Users -> Nat]]
    BY <2>1, <2>2, <2>3 DEF TypeOK, Context
  <2>5. Answer(r, "ok", None) /\ UNCHANGED <<store, lock, published, ctx>>
    BY <1>15 DEF MarkRead
  <2>6. QED
    BY <1>7, <2>1, <2>4, <2>5
<1>16. ASSUME NEW r \in Requests, Publish(r)
       PROVE  Inv1'
  <2>1. pc[r] = "publish" /\ ctx[r] \in Context
        /\ UNCHANGED <<store, lock, readMark, ctx>>
    BY <1>16 DEF Publish, Control, ControlOf
  <2>2. PICK m \in Requests, status \in {"created", "ok"} : Answer(r, status, m)
    BY <1>16, <2>1 DEF Publish, Context
  <2>3. published' \in [Conversations -> SUBSET Event]
    <3>1. EventOf(r) \in Event /\ ctx[r].conv \in Conversations
      BY <2>1, EventType DEF Context
    <3>2. QED
      BY <1>16, <3>1 DEF Publish, TypeOK
  <2>4. TypeOK'
    BY <2>1, <2>2, <2>3, AnswerStep DEF TypeOK, store
  <2>5. ControlOf(r)'
    BY <2>1, <2>2, AnswerStep DEF ControlOf
  <2>6. QED
    BY <2>1, <2>2, <2>4, <2>5, AnswerStep, ControlFrame, SameRows DEF store
<1>17. CASE UNCHANGED vars
  BY <1>17 DEF vars, TypeOK, Control, ControlOf, Exists
<1>18. QED
  BY <1>1, <1>2, <1>3, <1>4, <1>5, <1>6, <1>8, <1>9, <1>10, <1>12, <1>13,
     <1>14, <1>15, <1>16, <1>17, PayloadParts DEF Next, Arrive, Proceed, Finished

(* Every row that is ever read has the type of its table, and every step   *)
(* of a request finds in its context what it needs (Messages, all actions).*)
THEOREM TypeAndControl == Spec => []Inv1
<1>1. Init => Inv1
  BY InitInv1
<1>2. Inv1 /\ [Next]_vars => Inv1'
  BY StepInv1
<1>3. QED
  BY <1>1, <1>2, PTL DEF Spec

(* Type correctness of the message service's state.                        *)
THEOREM TypeCorrect == Spec => []TypeOK
<1>1. Inv1 => TypeOK
  BY DEF Inv1
<1>2. QED
  BY <1>1, TypeAndControl, PTL

-----------------------------------------------------------------------------
(* The conversation row lock is held exactly by a request that is writing, *)
(* and the number that request was given is the next one.                  *)
Locking ==
  /\ \A r \in Requests : pc[r] = "write" =>
       lock[ctx[r].conv] = r /\ ctx[r].seq = lastSeq[ctx[r].conv] + 1
  /\ \A c \in Conversations : lock[c] # None =>
       pc[lock[c]] = "write" /\ ctx[lock[c]].conv = c

Inv2 == Locking /\ GapFreeLog

(* The steps of r that leave lock and log alone, and those that roll back. *)
Others(r) == \A s \in Requests \ {r} : pc'[s] = pc[s] /\ ctx'[s] = ctx[s]

Quiet(r) ==
  /\ pc[r] # "write" /\ pc'[r] # "write"
  /\ Others(r)
  /\ UNCHANGED <<lock, lastSeq, events>>

Release(r) ==
  /\ pc'[r] # "write"
  /\ Others(r) /\ ctx' = ctx
  /\ Unlock(r)
  /\ UNCHANGED <<lastSeq, events>>

(* What all arrivals have in common.                                       *)
ArrivalOf(r) ==
  /\ pc[r] = "idle" /\ pc'[r] \in {"files", "alloc", "member", "done"}
  /\ Others(r)
  /\ \A s \in Requests \ {r} : reply'[s] = reply[s]
  /\ UNCHANGED <<store, lock, readMark, published>>

LEMMA ArriveShape ==
  ASSUME TypeOK, NEW r \in Requests, Arrive(r)
  PROVE  ArrivalOf(r)
<1> USE DEF ArrivalOf, Others, Goto, TypeOK
<1>1. ASSUME NEW c \in Conversations, NEW u \in Users, NEW k \in Keys,
             SendReplayed(r, c, u, k)
      PROVE  ArrivalOf(r)
  BY <1>1 DEF SendReplayed, Answer
<1>2. ASSUME NEW c \in Conversations, NEW u \in Users, NEW k \in Keys,
             NEW b \in Bodies \cup {None}, NEW files \in SUBSET Attachments,
             SendNew(r, c, u, k, b, files)
      PROVE  ArrivalOf(r)
  BY <1>2 DEF SendNew
<1>3. ASSUME NEW m \in Requests, NEW b \in Bodies, LoadForEdit(r, m, b)
      PROVE  ArrivalOf(r)
  BY <1>3 DEF LoadForEdit
<1>4. ASSUME NEW m \in Requests, NEW u \in Users, LoadForDelete(r, m, u)
      PROVE  ArrivalOf(r)
  BY <1>4 DEF LoadForDelete
<1>5. ASSUME NEW c \in Conversations, NEW u \in Users, NEW n \in 1..MaxUpTo,
             ReadConversation(r, c, u, n)
      PROVE  ArrivalOf(r)
  BY <1>5 DEF ReadConversation
<1>6. QED
  BY <1>1, <1>2, <1>3, <1>4, <1>5, PayloadParts DEF Arrive

LEMMA StepShapes ==
  ASSUME Inv1, Next
  PROVE  \/ \E r \in Requests : Quiet(r) \/ Release(r) \/ AllocSeq(r)
         \/ \E r \in Requests : pc[r] = "write" /\ CommitEvent(r)
         \/ UNCHANGED vars
<1> USE DEF Inv1
<1>1. ASSUME NEW r \in Requests, Arrive(r)
      PROVE  Quiet(r)
  BY <1>1, ArriveShape DEF ArrivalOf, Quiet, store
<1>2. ASSUME NEW r \in Requests,
             AcceptFiles(r) \/ RefuseFiles(r) \/ Reselect(r) \/ ReadMembership(r)
             \/ MarkRead(r) \/ Publish(r) \/ LosePublication(r)
      PROVE  Quiet(r)
  BY <1>2 DEF AcceptFiles, RefuseFiles, Reselect, ReadMembership, MarkRead, Publish,
     LosePublication, Answer, Goto, Quiet, Others, store, TypeOK
<1>3. ASSUME NEW r \in Requests, SendDuplicate(r) \/ Fail(r)
      PROVE  Release(r)
  BY <1>3 DEF SendDuplicate, Fail, Answer, Goto, Release, Others, store, TypeOK
<1>4. ASSUME NEW r \in Requests, CommitSend(r) \/ CommitEdit(r) \/ CommitDelete(r)
      PROVE  pc[r] = "write" /\ CommitEvent(r)
  BY <1>4 DEF CommitSend, CommitEdit, CommitDelete
<1>5. QED
  BY <1>1, <1>2, <1>3, <1>4 DEF Next, Proceed, Finished

LEMMA StepInv2 ==
  ASSUME Inv1, Inv2, [Next]_vars PROVE Inv2'
<1> USE DEF Inv1, Inv2
<1>1. ASSUME NEW r \in Requests, Quiet(r)
      PROVE  Inv2'
  <2>1. ASSUME NEW s \in Requests, pc'[s] = "write"
        PROVE  lock'[ctx'[s].conv] = s /\ ctx'[s].seq = lastSeq'[ctx'[s].conv] + 1
    BY <1>1, <2>1 DEF Quiet, Others, Locking
  <2>2. ASSUME NEW d \in Conversations, lock'[d] # None
        PROVE  pc'[lock'[d]] = "write" /\ ctx'[lock'[d]].conv = d
    <3>1. lock'[d] = lock[d] /\ lock[d] \in Requests
      BY <1>1, <2>2 DEF Quiet, TypeOK
    <3>2. pc[lock[d]] = "write" /\ ctx[lock[d]].conv = d
      BY <2>2, <3>1 DEF Locking
    <3>3. lock[d] # r
      BY <1>1, <3>2 DEF Quiet
    <3>4. QED
      BY <1>1, <3>1, <3>2, <3>3 DEF Quiet, Others
  <2>3. GapFreeLog'
    BY <1>1 DEF Quiet, GapFreeLog
  <2>4. QED
    BY <2>1, <2>2, <2>3 DEF Locking
<1>2. ASSUME NEW r \in Requests, Release(r)
      PROVE  Inv2'
  <2>1. Locking'
    BY <1>2, NullAssumption DEF Release, Others, Unlock, Locking, TypeOK, Control,
       ControlOf, Context
  <2>2. GapFreeLog'
    BY <1>2 DEF Release, GapFreeLog
  <2>3. QED
    BY <2>1, <2>2
<1>3. ASSUME NEW r \in Requests, AllocSeq(r)
      PROVE  Inv2'
  <2> DEFINE c == ctx[r].conv
  <2>1. c \in Conversations /\ lock[c] = None /\ r # None /\ ctx[r] \in Context
    BY <1>3, NullAssumption DEF AllocSeq, Control, ControlOf, Context
  <2>2. /\ pc'[r] = "write" /\ lock' = [lock EXCEPT ![c] = r]
        /\ ctx'[r].conv = c /\ ctx'[r].seq = lastSeq[c] + 1
        /\ Others(r)
        /\ UNCHANGED <<lastSeq, events>>
    <3> DEFINE x == [ctx[r] EXCEPT !.seq = lastSeq[c] + 1]
    <3>1. ctx' = [ctx EXCEPT ![r] = x]
      BY <1>3 DEF AllocSeq
    <3>2. x.conv = c /\ x.seq = lastSeq[c] + 1
      BY <2>1 DEF Context
    <3> HIDE DEF x
    <3>3. QED
      BY <1>3, <3>1, <3>2 DEF AllocSeq, Goto, Others, store, TypeOK
  <2>3. Locking'
    <3>1. ASSUME NEW s \in Requests, pc'[s] = "write"
          PROVE  lock'[ctx'[s].conv] = s /\ ctx'[s].seq = lastSeq'[ctx'[s].conv] + 1
      <4>1. CASE s = r
        BY <2>1, <2>2, <4>1 DEF TypeOK
      <4>2. CASE s # r
        <5>1. pc[s] = "write" /\ ctx'[s] = ctx[s] /\ lock[ctx[s].conv] = s
          BY <2>2, <3>1, <4>2 DEF Others, Locking
        <5>2. ctx[s].conv # c /\ ctx[s].conv \in Conversations /\ s # None
          BY <2>1, <5>1, NullAssumption DEF Control, ControlOf, Context
        <5>3. QED
          BY <2>2, <5>1, <5>2 DEF Locking, TypeOK
      <4>3. QED
        BY <4>1, <4>2
    <3>2. ASSUME NEW d \in Conversations, lock'[d] # None
          PROVE  pc'[lock'[d]] = "write" /\ ctx'[lock'[d]].conv = d
      <4>1. CASE d = c
        BY <2>1, <2>2, <4>1 DEF TypeOK
      <4>2. CASE d # c
        <5>1. lock'[d] = lock[d] /\ lock[d] \in Requests
          BY <2>2, <3>2, <4>2 DEF TypeOK
        <5>2. pc[lock[d]] = "write" /\ ctx[lock[d]].conv = d /\ lock[d] # r
          BY <1>3, <3>2, <5>1 DEF Locking, AllocSeq
        <5>3. QED
          BY <2>2, <5>1, <5>2 DEF Others
      <4>3. QED
        BY <4>1, <4>2
    <3>3. QED
      BY <3>1, <3>2 DEF Locking
  <2>4. GapFreeLog'
    BY <2>2 DEF GapFreeLog
  <2>5. QED
    BY <2>3, <2>4
<1>4. ASSUME NEW r \in Requests, pc[r] = "write", CommitEvent(r)
      PROVE  Inv2'
  <2> DEFINE c == ctx[r].conv
             e == EventOf(r)
  <2>1. /\ c \in Conversations /\ r # None /\ ctx[r] \in Context /\ lock[c] = r
        /\ ctx[r].seq = lastSeq[c] + 1
    BY <1>4, NullAssumption DEF Control, ControlOf, Context, Locking
  <2>2. /\ lastSeq' = [lastSeq EXCEPT ![c] = lastSeq[c] + 1]
        /\ events' = [events EXCEPT ![c] = Append(events[c], e)]
        /\ pc'[r] = "publish" /\ Others(r) /\ ctx' = ctx /\ Unlock(r)
    BY <1>4, <2>1 DEF CommitEvent, Goto, Others, TypeOK, EventOf
  <2>3. e.seq = lastSeq[c] + 1 /\ e \in Event
    BY <1>4, <2>1, EventType
  <2>4. Locking'
    <3>1. ASSUME NEW s \in Requests, pc'[s] = "write"
          PROVE  lock'[ctx'[s].conv] = s /\ ctx'[s].seq = lastSeq'[ctx'[s].conv] + 1
      <4>1. s # r /\ pc[s] = "write" /\ ctx'[s] = ctx[s]
        BY <2>2, <3>1 DEF Others
      <4>2. ctx[s].conv \in Conversations /\ lock[ctx[s].conv] = s
            /\ ctx[s].seq = lastSeq[ctx[s].conv] + 1
        BY <4>1 DEF Locking, Control, ControlOf, Context
      <4>3. QED
        BY <2>1, <2>2, <4>1, <4>2 DEF Unlock, TypeOK
    <3>2. ASSUME NEW d \in Conversations, lock'[d] # None
          PROVE  pc'[lock'[d]] = "write" /\ ctx'[lock'[d]].conv = d
      <4>1. lock'[d] = lock[d] /\ lock[d] # r /\ lock[d] \in Requests
        BY <2>2, <3>2 DEF Unlock, TypeOK
      <4>2. QED
        BY <2>2, <3>2, <4>1 DEF Others, Locking
    <3>3. QED
      BY <3>1, <3>2 DEF Locking
  <2> HIDE DEF e
  <2>5. GapFreeLog'
    <3>1. events[c] \in Seq(Event) /\ Len(events[c]) = lastSeq[c]
          /\ \A i \in 1..Len(events[c]) : events[c][i].seq = i
      BY <2>1 DEF GapFreeLog, TypeOK
    <3>2. Len(events'[c]) = lastSeq'[c]
          /\ \A i \in 1..Len(events'[c]) : events'[c][i].seq = i
      BY <2>1, <2>2, <2>3, <3>1 DEF TypeOK
    <3>3. \A d \in Conversations \ {c} : events'[d] = events[d] /\ lastSeq'[d] = lastSeq[d]
      BY <2>2 DEF TypeOK
    <3>4. QED
      BY <3>2, <3>3 DEF GapFreeLog
  <2>6. QED
    BY <2>4, <2>5
<1>5. CASE UNCHANGED vars
  BY <1>5 DEF vars, Locking, GapFreeLog
<1>6. QED
  BY <1>1, <1>2, <1>3, <1>4, <1>5, StepShapes

LEMMA InitInv2 == Init => Inv2
BY NullAssumption DEF Init, Inv2, Locking, GapFreeLog

(* The lock discipline of next_conversation_seq numbers the log.           *)
THEOREM LogNumbering == Spec => []Inv2
<1>1. Init => Inv2
  BY InitInv2
<1>2. Inv1 /\ Inv2 /\ [Next]_vars => Inv2'
  BY StepInv2
<1>3. QED
  BY <1>1, <1>2, TypeAndControl, PTL DEF Spec

(* The log of every conversation is numbered without gaps or repetition in *)
(* commit order: next_conversation_seq under its row lock, whatever aborts.*)
THEOREM LogIsGapFree == Spec => []GapFreeLog
<1>1. Inv2 => GapFreeLog
  BY DEF Inv2
<1>2. QED
  BY <1>1, LogNumbering, PTL

-----------------------------------------------------------------------------
(* Rows, log, publications, marks and answers.                             *)

Logged(c) == {events[c][i] : i \in 1..Len(events[c])}

(* What a request has established and relies on later.                     *)
KnowledgeOf(r) ==
  /\ pc[r] = "publish" => EventOf(r) \in Logged(ctx[r].conv)
  /\ pc[r] = "publish" /\ ctx[r].op = "send" =>
       Holds(r, ctx[r].conv, ctx[r].user, ctx[r].key)
  /\ pc[r] \in {"member", "mark"} => ctx[r].seenLast <= lastSeq[ctx[r].conv]

AnswerOf(r) ==
  reply[r] # None =>
    /\ reply[r].status \in {"created", "existing"} =>
         /\ reply[r].message \in Requests
         /\ Holds(reply[r].message, ctx[r].conv, ctx[r].user, ctx[r].key)
    /\ reply[r].status = "created" => reply[r].message = r

Knowledge == \A r \in Requests : KnowledgeOf(r) /\ AnswerOf(r)

LEMMA HoldsStep ==
  ASSUME NEW r \in Requests, KeepsRows(r)
  PROVE  \A c, u, k : \A m \in Requests :
           /\ Holds(m, c, u, k) => Holds(m, c, u, k)'
           /\ m # r /\ Holds(m, c, u, k)' => Holds(m, c, u, k)
BY DEF KeepsRows, Holds, Exists, Fixed

(* Rows and log under the three commits.                                   *)
LEMMA CommitKeepsKeysUnique ==
  ASSUME Inv1, OneRowPerKey, NEW r \in Requests,
         CommitSend(r) \/ CommitEdit(r) \/ CommitDelete(r)
  PROVE  OneRowPerKey'
<1>1. KeepsRows(r)
  BY SendRows, ChangeRows
<1>2. SUFFICES ASSUME NEW c \in Conversations, NEW u \in Users, NEW k \in Keys,
                      NEW m \in Requests, NEW n \in Requests,
                      Holds(m, c, u, k)', Holds(n, c, u, k)', m # n
               PROVE  FALSE
  BY DEF OneRowPerKey
<1>3. m # r /\ n # r => FALSE
  BY <1>1, <1>2, HoldsStep DEF OneRowPerKey
<1>4. CASE CommitSend(r)
  <2>1. PICK s \in Requests : s # r /\ Holds(s, c, u, k)
    BY <1>1, <1>2, <1>3, HoldsStep
  <2>2. Holds(r, c, u, k)'
    BY <1>2, <1>3
  <2>3. c = ctx[r].conv /\ u = ctx[r].user /\ k = ctx[r].key
    BY <1>4, <2>2, SendRows DEF Holds, Fixed
  <2>4. QED
    BY <1>4, <2>1, <2>3 DEF CommitSend, Duplicate
<1>5. CASE CommitEdit(r) \/ CommitDelete(r)
  <2>1. Holds(r, c, u, k)' => Holds(r, c, u, k)
    BY <1>1, <1>5, ChangeRows DEF KeepsRows, Holds, Exists, Fixed
  <2>2. QED
    BY <1>1, <1>2, <2>1, HoldsStep DEF OneRowPerKey
<1>6. QED
  BY <1>4, <1>5

(* A commit appends one event, and leaves the log before it as it was.     *)
LEMMA CommitAppends ==
  ASSUME Inv1, Inv2, NEW r \in Requests, pc[r] = "write", CommitEvent(r)
  PROVE  LET c == ctx[r].conv  n == Len(events[c]) + 1 IN
         /\ c \in Conversations /\ ctx[r] \in Context
         /\ ctx[r].seq = n /\ n \in Nat /\ n > 0 /\ lastSeq[c] = n - 1
         /\ Len(events'[c]) = n /\ events'[c][n] = EventOf(r)
         /\ \A i \in 1..(n - 1) : events'[c][i] = events[c][i]
         /\ \A d \in Conversations \ {c} : events'[d] = events[d]
         /\ \A d \in Conversations : lastSeq[d] <= lastSeq'[d]
         /\ pc'[r] = "publish" /\ Others(r)
         /\ UNCHANGED <<readMark, published, ctx, reply>>
<1> USE DEF Inv1, Inv2
<1> DEFINE c == ctx[r].conv
           n == Len(events[c]) + 1
           e == EventOf(r)
<1>1. c \in Conversations /\ ctx[r] \in Context /\ ctx[r].seq = lastSeq[c] + 1
  BY DEF Control, ControlOf, Context, Locking
<1>2. events[c] \in Seq(Event) /\ Len(events[c]) = lastSeq[c] /\ lastSeq[c] \in Nat
      /\ e \in Event
  BY <1>1, EventType DEF GapFreeLog, TypeOK
<1>3. events' = [events EXCEPT ![c] = Append(events[c], e)]
      /\ lastSeq' = [lastSeq EXCEPT ![c] = ctx[r].seq]
      /\ UNCHANGED <<readMark, published, ctx, reply>>
  BY DEF CommitEvent
<1>4. pc'[r] = "publish" /\ Others(r)
  BY <1>3 DEF CommitEvent, Goto, Others, TypeOK
<1> HIDE DEF e
<1>5. Len(events'[c]) = n /\ events'[c][n] = e
      /\ \A i \in 1..(n - 1) : events'[c][i] = events[c][i]
  BY <1>1, <1>2, <1>3 DEF TypeOK
<1>6. \A d \in Conversations \ {c} : events'[d] = events[d]
  BY <1>3 DEF TypeOK
<1>7. \A d \in Conversations : lastSeq[d] <= lastSeq'[d]
  BY <1>1, <1>2, <1>3 DEF TypeOK
<1>8. QED
  BY <1>1, <1>2, <1>3, <1>4, <1>5, <1>6, <1>7 DEF e

LEMMA LoggedGrows ==
  ASSUME Inv1, Inv2, NEW r \in Requests, pc[r] = "write", CommitEvent(r),
         NEW c \in Conversations
  PROVE  Logged(c) \subseteq Logged(c)'
<1>1. events[c] \in Seq(Event)
  BY DEF Inv1, TypeOK
<1>2. CASE c = ctx[r].conv
  <2>1. /\ Len(events'[c]) = Len(events[c]) + 1
        /\ \A i \in 1..Len(events[c]) : events'[c][i] = events[c][i]
    BY <1>1, <1>2, CommitAppends
  <2>2. 1..Len(events[c]) \subseteq 1..Len(events'[c])
    BY <1>1, <2>1
  <2>3. QED
    BY <2>1, <2>2 DEF Logged
<1>3. CASE c # ctx[r].conv
  BY <1>3, CommitAppends DEF Logged
<1>4. QED
  BY <1>2, <1>3

LEMMA CommitKeepsLogAndRows ==
  ASSUME Inv1, Inv2, LogMatchesRows, NEW r \in Requests, CommitEvent(r),
         CommitSend(r) \/ CommitEdit(r) \/ CommitDelete(r)
  PROVE  LogMatchesRows'
<1>1. pc[r] = "write" /\ KeepsRows(r)
  BY SendRows, ChangeRows DEF CommitSend, CommitEdit, CommitDelete
<1>2. PICK c \in Conversations, t \in Requests, n \in Nat :
        c = ctx[r].conv /\ t = ctx[r].target /\ n = Len(events[c]) + 1
  <2>1. ctx[r] \in Context /\ events[ctx[r].conv] \in Seq(Event)
    BY <1>1, CommitAppends DEF Inv1, TypeOK
  <2>2. QED
    BY <2>1 DEF Context
<1>3. /\ ctx[r] \in Context /\ ctx[r].seq = n /\ n > 0
      /\ Len(events'[c]) = n /\ events'[c][n] = EventOf(r)
      /\ \A i \in 1..(n - 1) : events'[c][i] = events[c][i]
      /\ \A d \in Conversations \ {c} : events'[d] = events[d]
      /\ EventOf(r).type = ctx[r].op /\ EventOf(r).message = t
  BY <1>1, <1>2, CommitAppends, EventType
<1>4. \A d \in Conversations : Len(events[d]) \in Nat /\ Len(events[d]) <= Len(events'[d])
        /\ \A i \in 1..Len(events[d]) :
             events'[d][i] = events[d][i] /\ events[d][i].message \in Requests
  <2>1. ASSUME NEW d \in Conversations
        PROVE  events[d] \in Seq(Event)
    BY DEF Inv1, TypeOK
  <2>2. ASSUME NEW d \in Conversations, NEW i \in 1..Len(events[d])
        PROVE  events[d][i].message \in Requests
    <3>1. events[d][i] \in Event
      BY <2>1
    <3>2. QED
      BY <3>1 DEF Event
  <2>3. QED
    BY <1>2, <1>3, <2>1, <2>2
<1>5. ASSUME NEW m \in Requests, Exists(m)
      PROVE  RowLogged(m)'
  <2>1. message'[m].conv = message[m].conv /\ message'[m].seq = message[m].seq
    BY <1>1, <1>5 DEF KeepsRows, Fixed
  <2>2. message[m].conv \in Conversations
    BY <1>5 DEF Inv1, TypeOK, Exists, Row
  <2>3. RowLogged(m)
    BY <1>5 DEF LogMatchesRows
  <2>4. QED
    BY <1>4, <2>1, <2>2, <2>3 DEF RowLogged
<1>6. ASSUME NEW d \in Conversations, NEW i \in 1..Len(events[d])
      PROVE  EventGrounded(d, i)'
  <2> DEFINE m == events[d][i].message
  <2>1. m \in Requests /\ events'[d][i] = events[d][i]
    BY <1>4
  <2>2. /\ Exists(m) /\ message[m].conv = d /\ message[m].seq <= i
        /\ events[d][i].type = "send" <=> message[m].seq = i
    BY DEF LogMatchesRows, EventGrounded
  <2>3. Exists(m)' /\ message'[m].conv = message[m].conv
        /\ message'[m].seq = message[m].seq
    BY <1>1, <2>1, <2>2 DEF KeepsRows, Fixed
  <2>4. QED
    BY <2>1, <2>2, <2>3 DEF EventGrounded, Exists
<1>7. CASE CommitSend(r)
  <2>1. ctx[r].op = "send" /\ t = r
    BY <1>2, <1>7 DEF CommitSend, Inv1, Control, ControlOf
  <2>2. Exists(r)' /\ message'[r].conv = c /\ message'[r].seq = n
    BY <1>2, <1>3, <1>7, SendRows DEF Fixed
  <2>3. ASSUME NEW m \in Requests, Exists(m)'
        PROVE  RowLogged(m)'
    <3>1. CASE m = r
      <4>1. message'[m].conv = c /\ message'[m].seq = n /\ n \in 1..Len(events'[c])
        BY <1>3, <2>2, <3>1
      <4>2. events'[c][n].type = "send" /\ events'[c][n].message = m
        BY <1>3, <2>1, <1>2, <3>1
      <4>3. QED
        BY <4>1, <4>2 DEF RowLogged
    <3>2. CASE m # r
      <4>1. Exists(m)
        BY <1>1, <2>3, <3>2 DEF KeepsRows, Exists
      <4>2. QED
        BY <1>5, <4>1
    <3>3. QED
      BY <3>1, <3>2
  <2>4. EventGrounded(c, n)'
    BY <1>2, <1>3, <2>1, <2>2 DEF EventGrounded, Exists
  <2>5. \A d \in Conversations : \A i \in 1..Len(events'[d]) :
          i \in 1..Len(events[d]) \/ (d = c /\ i = n)
    BY <1>2, <1>3, <1>4
  <2>6. QED
    BY <1>6, <2>3, <2>4, <2>5 DEF LogMatchesRows
<1>8. CASE CommitEdit(r) \/ CommitDelete(r)
  <2>1. ctx[r].op # "send"
    BY <1>8 DEF CommitEdit, CommitDelete
  <2>2. Exists(t) /\ message[t].conv = c
    BY <1>2, <1>8, ChangeRows
  <2>3. Exists(t)' /\ message'[t].conv = c /\ message'[t].seq = message[t].seq
    BY <1>1, <1>3, <2>2 DEF KeepsRows, Fixed, Exists
  <2>4. message[t].seq \in 1..(n - 1)
    BY <1>2, <1>3, <2>2 DEF LogMatchesRows, RowLogged
  <2>5. EventGrounded(c, n)'
    BY <1>2, <1>3, <2>1, <2>3, <2>4 DEF EventGrounded, Exists
  <2>6. \A d \in Conversations : \A i \in 1..Len(events'[d]) :
          i \in 1..Len(events[d]) \/ (d = c /\ i = n)
    BY <1>2, <1>3, <1>4
  <2>7. \A m \in Requests : Exists(m)' => Exists(m)
    BY <1>1, <1>8, ChangeRows DEF KeepsRows, Exists
  <2>8. QED
    BY <1>5, <1>6, <2>5, <2>6, <2>7 DEF LogMatchesRows
<1>9. QED
  BY <1>7, <1>8

-----------------------------------------------------------------------------
Tables == OneRowPerKey /\ LogMatchesRows /\ PublishedIsCommitted /\ ReadMarkBounded

Inv3 == Tables /\ Knowledge

LEMMA InitInv3 == Init => Inv3
BY DEF Init, Inv3, Tables, OneRowPerKey, LogMatchesRows, PublishedIsCommitted,
   ReadMarkBounded, Knowledge, KnowledgeOf, AnswerOf, Holds, Exists

LEMMA SameTables ==
  ASSUME Tables, UNCHANGED <<message, events, lastSeq, readMark, published>>
  PROVE  Tables'
BY DEF Tables, OneRowPerKey, LogMatchesRows, RowLogged, EventGrounded,
   PublishedIsCommitted, ReadMarkBounded, Holds, Exists

(* Logs, rows and numbers only grow: a step of r leaves what the other     *)
(* requests know, and what they were told, true.                           *)
Grows(r) ==
  /\ KeepsRows(r)
  /\ \A c \in Conversations :
       /\ lastSeq'[c] \in Nat /\ lastSeq[c] <= lastSeq'[c]
       /\ Logged(c) \subseteq Logged(c)'

LEMMA SameGrows ==
  ASSUME TypeOK, NEW r \in Requests, UNCHANGED <<message, events, lastSeq>>
  PROVE  Grows(r)
<1>1. \A c \in Conversations : lastSeq'[c] \in Nat /\ lastSeq[c] <= lastSeq'[c]
  BY DEF TypeOK
<1>2. \A c \in Conversations : Logged(c) \subseteq Logged(c)'
  BY DEF Logged
<1>3. QED
  BY <1>1, <1>2, SameRows DEF Grows

LEMMA KnowledgeFrame ==
  ASSUME Inv1, Knowledge, NEW r \in Requests, Grows(r), Others(r),
         \A s \in Requests \ {r} : reply'[s] = reply[s],
         KnowledgeOf(r)', AnswerOf(r)'
  PROVE  Knowledge'
<1> SUFFICES ASSUME NEW s \in Requests \ {r} PROVE KnowledgeOf(s)' /\ AnswerOf(s)'
  BY DEF Knowledge
<1>1. pc'[s] = pc[s] /\ ctx'[s] = ctx[s] /\ reply'[s] = reply[s]
  BY DEF Others
<1>2. KnowledgeOf(s) /\ AnswerOf(s) /\ ControlOf(s)
  BY DEF Knowledge, Inv1, Control
<1>3. \A c, u, k : \A m \in Requests : Holds(m, c, u, k) => Holds(m, c, u, k)'
  BY HoldsStep DEF Grows
<1>4. pc[s] # "idle" => ctx[s] \in Context /\ ctx[s].conv \in Conversations
  BY <1>2 DEF ControlOf, Context
<1>6. (pc[s] = "publish" => EventOf(s) \in Logged(ctx[s].conv))'
  <2>1. EventOf(s)' = EventOf(s)
    BY <1>1 DEF EventOf
  <2>2. Logged(ctx[s].conv)' = {events'[ctx[s].conv][i] : i \in 1..Len(events'[ctx[s].conv])}
    BY <1>1 DEF Logged
  <2>3. ctx[s].conv \in Conversations =>
          Logged(ctx[s].conv) \subseteq
            {events'[ctx[s].conv][i] : i \in 1..Len(events'[ctx[s].conv])}
    BY DEF Grows, Logged
  <2>4. QED
    BY <1>1, <1>2, <1>4, <2>1, <2>2, <2>3 DEF KnowledgeOf
<1>7. (pc[s] \in {"member", "mark"} => ctx[s].seenLast <= lastSeq[ctx[s].conv])'
  <2> SUFFICES ASSUME pc[s] \in {"member", "mark"}
               PROVE  ctx[s].seenLast <= lastSeq'[ctx[s].conv]
    BY <1>1
  <2>1. ctx[s].seenLast <= lastSeq[ctx[s].conv]
    BY <1>2 DEF KnowledgeOf
  <2>2. ctx[s].conv \in Conversations /\ ctx[s].seenLast \in Nat
    BY <1>2 DEF ControlOf, Context
  <2>3. lastSeq[ctx[s].conv] <= lastSeq'[ctx[s].conv] /\ lastSeq'[ctx[s].conv] \in Nat
    BY <2>2 DEF Grows
  <2>4. lastSeq[ctx[s].conv] \in Nat
    BY <2>2 DEF Inv1, TypeOK
  <2>5. QED
    BY <2>1, <2>2, <2>3, <2>4
<1>8. KnowledgeOf(s)'
  BY <1>1, <1>2, <1>3, <1>6, <1>7 DEF KnowledgeOf
<1>9. AnswerOf(s)'
  BY <1>1, <1>2, <1>3 DEF AnswerOf
<1>10. QED
  BY <1>8, <1>9

(* A step that touches no table, and after which r knows and was told the  *)
(* truth.                                                                  *)
LEMMA TablesUntouched ==
  ASSUME Inv1, Inv3, NEW r \in Requests, Others(r),
         UNCHANGED <<message, events, lastSeq, readMark, published>>,
         \A s \in Requests \ {r} : reply'[s] = reply[s],
         KnowledgeOf(r)', AnswerOf(r)'
  PROVE  Inv3'
BY SameTables, SameGrows, KnowledgeFrame DEF Inv1, Inv3

(* A request that ends in an error, or with no message in its answer.      *)
LEMMA PlainAnswer ==
  ASSUME Inv1, Inv3, NEW r \in Requests, NEW m \in Requests \cup {None},
         NEW status \in {"ok", "error", "missing_greenlet"}, Answer(r, status, m), Others(r),
         UNCHANGED <<message, events, lastSeq, readMark, published>>
  PROVE  Inv3'
<1>1. /\ pc'[r] = "done" /\ reply'[r].status = status
      /\ \A s \in Requests \ {r} : reply'[s] = reply[s]
  BY AnswerStep DEF Inv1
<1>2. KnowledgeOf(r)' /\ AnswerOf(r)'
  BY <1>1 DEF KnowledgeOf, AnswerOf
<1>3. QED
  BY <1>1, <1>2, TablesUntouched

(* A sender that is shown a row that has its key.                          *)
LEMMA ExistingAnswer ==
  ASSUME Inv1, Inv3, NEW r \in Requests, NEW m \in Requests, Others(r),
         Answer(r, "existing", m),
         Holds(m, ctx'[r].conv, ctx'[r].user, ctx'[r].key),
         UNCHANGED <<message, events, lastSeq, readMark, published>>
  PROVE  Inv3'
<1>1. /\ pc'[r] = "done" /\ reply'[r].status = "existing" /\ reply'[r].message = m
      /\ \A s \in Requests \ {r} : reply'[s] = reply[s]
  BY AnswerStep DEF Inv1
<1>2. KnowledgeOf(r)'
  BY <1>1 DEF KnowledgeOf
<1>3. AnswerOf(r)'
  BY <1>1 DEF AnswerOf, Holds, Exists
<1>4. QED
  BY <1>1, <1>2, <1>3, TablesUntouched

(* A step before the commit, to a label of which nothing has to be known.  *)
LEMMA PlainStep ==
  ASSUME Inv1, Inv3, NEW r \in Requests, pc[r] # "done", Others(r),
         pc'[r] \in {"files", "alloc", "write"},
         UNCHANGED <<message, events, lastSeq, readMark, published, reply>>
  PROVE  Inv3'
<1>1. reply'[r] = None
  BY DEF Inv1, Control, ControlOf
<1>2. KnowledgeOf(r)' /\ AnswerOf(r)'
  BY <1>1 DEF KnowledgeOf, AnswerOf
<1>3. QED
  BY <1>2, TablesUntouched

(* The three commits.                                                      *)
LEMMA CommitInv3 ==
  ASSUME Inv1, Inv2, Inv3, NEW r \in Requests, CommitEvent(r),
         CommitSend(r) \/ CommitEdit(r) \/ CommitDelete(r)
  PROVE  Inv3'
<1> USE DEF Inv3, Tables
<1>1. pc[r] = "write" /\ KeepsRows(r)
  BY SendRows, ChangeRows DEF CommitSend, CommitEdit, CommitDelete
<1>2. OneRowPerKey' /\ LogMatchesRows'
  BY CommitKeepsKeysUnique, CommitKeepsLogAndRows
<1>3. \A c \in Conversations : lastSeq'[c] \in Nat /\ lastSeq[c] <= lastSeq'[c]
        /\ Logged(c) \subseteq Logged(c)'
  <2>1. lastSeq' \in [Conversations -> Nat]
    BY <1>1, CommitAppends DEF CommitEvent, Inv1, TypeOK, Context
  <2>2. QED
    BY <1>1, <2>1, CommitAppends, LoggedGrows
<1>4. PublishedIsCommitted'
  BY <1>1, <1>3, CommitAppends DEF PublishedIsCommitted, Logged
<1>5. ReadMarkBounded'
  <2>1. ASSUME NEW c \in Conversations, NEW u \in Users
        PROVE  readMark'[c][u] <= lastSeq'[c]
    <3>1. readMark'[c][u] = readMark[c][u] /\ readMark[c][u] <= lastSeq[c]
      BY <1>1, CommitAppends DEF ReadMarkBounded
    <3>2. readMark[c][u] \in Nat /\ lastSeq[c] \in Nat
      BY DEF Inv1, TypeOK
    <3>3. QED
      BY <1>3, <3>1, <3>2
  <2>2. QED
    BY <2>1 DEF ReadMarkBounded
<1>6. KnowledgeOf(r)'
  <2>1. pc'[r] = "publish" /\ ctx' = ctx /\ ctx[r].conv \in Conversations
    BY <1>1, CommitAppends
  <2>2. EventOf(r)' = EventOf(r)
    BY <2>1 DEF EventOf
  <2>3. EventOf(r) \in {events'[ctx[r].conv][i] : i \in 1..Len(events'[ctx[r].conv])}
    BY <1>1, CommitAppends
  <2>4. (EventOf(r) \in Logged(ctx[r].conv))'
    BY <2>1, <2>2, <2>3 DEF Logged
  <2>5. ctx[r].op = "send" => Holds(r, ctx[r].conv, ctx[r].user, ctx[r].key)'
    BY <2>1, SendRows DEF CommitEdit, CommitDelete, Holds, Fixed, Exists
  <2>6. QED
    BY <2>1, <2>4, <2>5 DEF KnowledgeOf
<1>7. AnswerOf(r)'
  <2>1. reply'[r] = None
    BY <1>1, CommitAppends DEF Inv1, Control, ControlOf
  <2>2. QED
    BY <2>1 DEF AnswerOf
<1>8. Knowledge'
  BY <1>1, <1>3, <1>6, <1>7, CommitAppends, KnowledgeFrame DEF Grows
<1>9. QED
  BY <1>2, <1>4, <1>5, <1>8

LEMMA StepInv3 ==
  ASSUME Inv1, Inv2, Inv3, [Next]_vars PROVE Inv3'
<1>1. ASSUME NEW r \in Requests, NEW c \in Conversations, NEW u \in Users,
             NEW k \in Keys, SendReplayed(r, c, u, k)
      PROVE  Inv3'
  <2> DEFINE x == [Blank(r, c, u) EXCEPT !.key = k]
  <2>1. x \in Context /\ x.conv = c /\ x.user = u /\ x.key = k
    BY DEF Blank, Context
  <2> HIDE DEF x
  <2>2. ctx' = [ctx EXCEPT ![r] = x] /\ UNCHANGED <<store, lock, readMark, published>>
    BY <1>1 DEF SendReplayed, x
  <2>3. PICK m \in Requests : Holds(m, c, u, k) /\ Answer(r, "existing", m)
    BY <1>1 DEF SendReplayed
  <2>4. ctx'[r] = x /\ \A s \in Requests \ {r} : ctx'[s] = ctx[s]
    BY <2>1, <2>2, ContextStep DEF Inv1
  <2>5. Others(r)
    BY <2>3, <2>4, AnswerStep DEF Others, Inv1
  <2>6. Holds(m, ctx'[r].conv, ctx'[r].user, ctx'[r].key)
    BY <2>1, <2>3, <2>4
  <2>7. QED
    BY <2>2, <2>3, <2>5, <2>6, ExistingAnswer DEF store
<1>2. ASSUME NEW r \in Requests, NEW c \in Conversations, NEW u \in Users,
             NEW k \in Keys, NEW b \in Bodies \cup {None}, NEW files \in SUBSET Attachments,
             SendNew(r, c, u, k, b, files)
      PROVE  Inv3'
  <2>1. Others(r) /\ pc[r] = "idle" /\ pc'[r] \in {"files", "alloc", "write"}
    BY <1>2 DEF SendNew, Goto, Others, Inv1, TypeOK
  <2>2. QED
    BY <1>2, <2>1, PlainStep DEF SendNew, store
<1>3. ASSUME NEW r \in Requests, NEW m \in Requests, NEW b \in Bodies,
             LoadForEdit(r, m, b)
      PROVE  Inv3'
  <2>1. Others(r) /\ pc[r] = "idle" /\ pc'[r] \in {"files", "alloc", "write"}
    BY <1>3 DEF LoadForEdit, Goto, Others, Inv1, TypeOK
  <2>2. QED
    BY <1>3, <2>1, PlainStep DEF LoadForEdit, store
<1>4. ASSUME NEW r \in Requests, NEW m \in Requests, NEW u \in Users,
             LoadForDelete(r, m, u)
      PROVE  Inv3'
  <2>1. Others(r) /\ pc[r] = "idle" /\ pc'[r] \in {"files", "alloc", "write"}
    BY <1>4 DEF LoadForDelete, Goto, Others, Inv1, TypeOK
  <2>2. QED
    BY <1>4, <2>1, PlainStep DEF LoadForDelete, store
<1>5. ASSUME NEW r \in Requests, NEW c \in Conversations, NEW u \in Users,
             NEW n \in 1..MaxUpTo, ReadConversation(r, c, u, n)
      PROVE  Inv3'
  <2> DEFINE x == [Blank(r, c, u) EXCEPT
                     !.op = "read", !.upTo = n, !.seenLast = lastSeq[c]]
  <2>1. n \in Nat /\ lastSeq[c] \in Nat
    BY ModelAssumption DEF Inv1, TypeOK
  <2>2. x \in Context /\ x.conv = c /\ x.seenLast = lastSeq[c]
    BY <2>1 DEF Blank, Context
  <2> HIDE DEF x
  <2>3. /\ ctx' = [ctx EXCEPT ![r] = x] /\ Goto(r, "member") /\ "member" \in PC
        /\ pc[r] = "idle" /\ UNCHANGED <<store, lock, readMark, published, reply>>
    BY <1>5 DEF ReadConversation, x, PC
  <2>4. Others(r) /\ ctx'[r] = x /\ pc'[r] = "member"
    BY <2>2, <2>3, GotoStep, ContextStep DEF Others, Inv1
  <2>5. reply'[r] = None
    BY <2>3 DEF Inv1, Control, ControlOf
  <2>6. KnowledgeOf(r)'
    <3>1. ctx'[r].seenLast <= lastSeq'[ctx'[r].conv]
      BY <2>1, <2>2, <2>3, <2>4 DEF store
    <3>2. QED
      BY <2>4, <3>1 DEF KnowledgeOf
  <2>7. AnswerOf(r)'
    BY <2>5 DEF AnswerOf
  <2>8. QED
    BY <2>3, <2>4, <2>6, <2>7, TablesUntouched DEF store
<1>6. ASSUME NEW r \in Requests, AcceptFiles(r)
      PROVE  Inv3'
  <2>1. Others(r) /\ pc[r] = "files" /\ pc'[r] \in {"files", "alloc", "write"}
    BY <1>6 DEF AcceptFiles, Goto, Others, Inv1, TypeOK
  <2>2. QED
    BY <1>6, <2>1, PlainStep DEF AcceptFiles, store
<1>7. ASSUME NEW r \in Requests, AllocSeq(r)
      PROVE  Inv3'
  <2>1. Others(r) /\ pc[r] = "alloc" /\ pc'[r] \in {"files", "alloc", "write"}
    BY <1>7 DEF AllocSeq, Goto, Others, Inv1, TypeOK
  <2>2. QED
    BY <1>7, <2>1, PlainStep DEF AllocSeq, store
<1>8. ASSUME NEW r \in Requests,
             RefuseFiles(r) \/ LosePublication(r) \/ Fail(r)
      PROVE  Inv3'
  <2>1. Answer(r, "error", None) /\ ctx' = ctx
        /\ UNCHANGED <<store, readMark, published>>
    BY <1>8 DEF RefuseFiles, LosePublication, Fail
  <2>2. Others(r)
    BY <2>1, AnswerStep DEF Others, Inv1
  <2>3. QED
    BY <2>1, <2>2, PlainAnswer DEF store
<1>9. ASSUME NEW r \in Requests, SendDuplicate(r)
      PROVE  Inv3'
  <2>1. /\ pc[r] = "write" /\ Duplicate(ctx[r].conv, ctx[r].user, ctx[r].key)
        /\ Goto(r, "reselect") /\ "reselect" \in PC
        /\ UNCHANGED <<store, readMark, published, ctx, reply>>
    BY <1>9 DEF SendDuplicate, PC
  <2>2. Others(r) /\ pc'[r] = "reselect" /\ reply'[r] = None
    BY <2>1, GotoStep DEF Others, Inv1, Control, ControlOf
  <2>3. KnowledgeOf(r)' /\ AnswerOf(r)'
    BY <2>1, <2>2 DEF KnowledgeOf, AnswerOf, Duplicate, Holds, Exists, store
  <2>4. QED
    BY <2>1, <2>2, <2>3, TablesUntouched DEF store
<1>10. ASSUME NEW r \in Requests, Reselect(r)
       PROVE  Inv3'
  <2>1. /\ Answer(r, "missing_greenlet", None)
        /\ UNCHANGED <<store, lock, readMark, published, ctx>>
    BY <1>10 DEF Reselect
  <2>2. Others(r)
    BY <2>1, AnswerStep DEF Others, Inv1
  <2>3. QED
    BY <2>1, <2>2, PlainAnswer DEF store
<1>11. ASSUME NEW r \in Requests,
              CommitSend(r) \/ CommitEdit(r) \/ CommitDelete(r)
       PROVE  Inv3'
  BY <1>11, CommitInv3 DEF CommitSend, CommitEdit, CommitDelete
<1>12. ASSUME NEW r \in Requests, ReadMembership(r)
       PROVE  Inv3'
  <2> DEFINE seen == readMark[ctx[r].conv][ctx[r].user]
             x == [ctx[r] EXCEPT !.seenMark = seen]
  <2>1. ctx[r] \in Context /\ pc[r] = "member" /\ reply[r] = None
    BY <1>12 DEF ReadMembership, Inv1, Control, ControlOf
  <2>2. seen \in Nat
    BY <2>1 DEF Inv1, TypeOK, Context
  <2>3. x \in Context /\ x.conv = ctx[r].conv /\ x.seenLast = ctx[r].seenLast
    BY <2>1, <2>2 DEF Context
  <2>4. ctx' = [ctx EXCEPT ![r] = x] /\ UNCHANGED <<store, lock, readMark, published>>
    BY <1>12 DEF ReadMembership
  <2> HIDE DEF x
  <2>5. ctx'[r] = x /\ \A s \in Requests \ {r} : ctx'[s] = ctx[s]
    BY <2>3, <2>4, ContextStep DEF Inv1
  <2>6. CASE Answer(r, "ok", None)
    BY <2>4, <2>5, <2>6, AnswerStep, PlainAnswer DEF Others, store, Inv1
  <2>7. CASE Goto(r, "mark") /\ UNCHANGED reply
    <3>1. pc'[r] = "mark" /\ Others(r)
      BY <2>5, <2>7, GotoStep DEF Others, Inv1, PC
    <3>2. ctx'[r].seenLast <= lastSeq'[ctx'[r].conv]
      BY <2>1, <2>3, <2>4, <2>5 DEF store, Inv3, Knowledge, KnowledgeOf
    <3>3. KnowledgeOf(r)' /\ AnswerOf(r)'
      BY <2>1, <2>7, <3>1, <3>2 DEF KnowledgeOf, AnswerOf
    <3>4. QED
      BY <2>4, <2>7, <3>1, <3>3, TablesUntouched DEF store
  <2>8. QED
    BY <1>12, <2>6, <2>7 DEF ReadMembership
<1>13. ASSUME NEW r \in Requests, MarkRead(r)
       PROVE  Inv3'
  <2> DEFINE c == ctx[r].conv
             u == ctx[r].user
             mark == Written(ctx[r].seenMark, Lesser(ctx[r].upTo, ctx[r].seenLast),
                             readMark[c][u])
  <2>1. /\ ctx[r] \in Context /\ c \in Conversations /\ u \in Users
        /\ ctx[r].seenLast <= lastSeq[c]
    BY <1>13 DEF MarkRead, Inv1, Control, ControlOf, Context, Inv3, Knowledge, KnowledgeOf
  <2>2. readMark[c][u] \in Nat /\ readMark[c][u] <= lastSeq[c] /\ lastSeq[c] \in Nat
    BY <2>1 DEF Inv1, TypeOK, Inv3, Tables, ReadMarkBounded
  <2>3. mark <= lastSeq[c]
    BY <2>1, <2>2 DEF Written, Lesser, Context
  <2>4. /\ readMark' = [readMark EXCEPT ![c][u] = mark]
        /\ Answer(r, "ok", None) /\ UNCHANGED <<store, lock, published, ctx>>
    BY <1>13 DEF MarkRead
  <2> HIDE DEF mark
  <2>5. ReadMarkBounded'
    <3>1. ASSUME NEW d \in Conversations, NEW v \in Users
          PROVE  readMark'[d][v] \in {mark, readMark[d][v]}
                 /\ (readMark'[d][v] # readMark[d][v] => d = c)
      BY <2>1, <2>4 DEF Inv1, TypeOK
    <3>2. QED
      BY <2>3, <2>4, <3>1 DEF ReadMarkBounded, Inv3, Tables, store
  <2>6. OneRowPerKey' /\ LogMatchesRows' /\ PublishedIsCommitted'
    BY <2>4 DEF Inv3, Tables, OneRowPerKey, LogMatchesRows, RowLogged, EventGrounded,
       PublishedIsCommitted, Holds, Exists, store
  <2>7. /\ pc'[r] = "done" /\ reply'[r].status = "ok" /\ Others(r)
        /\ \A s \in Requests \ {r} : reply'[s] = reply[s]
    BY <2>4, AnswerStep DEF Inv1, Others
  <2>8. KnowledgeOf(r)' /\ AnswerOf(r)'
    BY <2>7 DEF KnowledgeOf, AnswerOf
  <2>9. Knowledge'
    BY <2>4, <2>7, <2>8, SameGrows, KnowledgeFrame DEF Inv1, Inv3, store
  <2>10. QED
    BY <2>5, <2>6, <2>9 DEF Inv3, Tables
<1>14. ASSUME NEW r \in Requests, Publish(r)
       PROVE  Inv3'
  <2> DEFINE status == IF ctx[r].op = "send" THEN "created" ELSE "ok"
  <2>1. /\ ctx[r] \in Context /\ ctx[r].conv \in Conversations
        /\ ctx[r].target \in Requests
        /\ ctx[r].op = "send" => ctx[r].target = r
    BY <1>14 DEF Publish, Inv1, Control, ControlOf, Context
  <2>2. /\ EventOf(r) \in Logged(ctx[r].conv)
        /\ ctx[r].op = "send" => Holds(r, ctx[r].conv, ctx[r].user, ctx[r].key)
    BY <1>14 DEF Publish, Inv3, Knowledge, KnowledgeOf
  <2>3. /\ published' = [published EXCEPT ![ctx[r].conv] = @ \cup {EventOf(r)}]
        /\ Answer(r, status, ctx[r].target) /\ UNCHANGED <<store, lock, readMark, ctx>>
    BY <1>14 DEF Publish
  <2>4. /\ status \in {"created", "existing", "ok", "error", "missing_greenlet"}
        /\ status # "existing"
        /\ status = "created" => ctx[r].op = "send"
    OBVIOUS
  <2> HIDE DEF status
  <2>5. /\ pc'[r] = "done" /\ Others(r)
        /\ reply'[r].status = status /\ reply'[r].message = ctx[r].target
        /\ \A s \in Requests \ {r} : reply'[s] = reply[s]
    BY <2>1, <2>3, <2>4, AnswerStep DEF Inv1, Others
  <2>6. KnowledgeOf(r)' /\ AnswerOf(r)'
    BY <2>1, <2>2, <2>3, <2>4, <2>5 DEF KnowledgeOf, AnswerOf, Holds, Exists, store
  <2>7. Knowledge'
    BY <2>3, <2>5, <2>6, SameGrows, KnowledgeFrame DEF Inv1, Inv3, store
  <2>8. PublishedIsCommitted'
    BY <2>1, <2>2, <2>3 DEF Inv1, Inv3, Tables, TypeOK, PublishedIsCommitted, Logged, store
  <2>9. OneRowPerKey' /\ LogMatchesRows' /\ ReadMarkBounded'
    BY <2>3 DEF Inv3, Tables, OneRowPerKey, LogMatchesRows, RowLogged, EventGrounded,
       ReadMarkBounded, Holds, Exists, store
  <2>10. QED
    BY <2>7, <2>8, <2>9 DEF Inv3, Tables
<1>15. CASE UNCHANGED vars
  <2>1. Tables'
    BY <1>15, SameTables DEF vars, Inv3
  <2>2. Knowledge'
    BY <1>15 DEF vars, Inv3, Knowledge, KnowledgeOf, AnswerOf, Duplicate, Holds, Exists,
       Logged, EventOf
  <2>3. QED
    BY <2>1, <2>2 DEF Inv3
<1>16. QED
  BY <1>1, <1>2, <1>3, <1>4, <1>5, <1>6, <1>7, <1>8, <1>9, <1>10, <1>11, <1>12, <1>13,
     <1>14, <1>15, PayloadParts DEF Next, Arrive, Proceed, Finished

(* Rows, log, publications, marks and answers agree (all of Messages).     *)
THEOREM Agreement == Spec => []Inv3
<1>1. Init => Inv3
  BY InitInv3
<1>2. Inv1 /\ Inv2 /\ Inv3 /\ [Next]_vars => Inv3'
  BY StepInv3
<1>3. QED
  BY <1>1, <1>2, TypeAndControl, LogNumbering, PTL DEF Spec

(* One row for each client_msg_id of a sender in a conversation, whatever  *)
(* the interleaving of its retries (send_message and its unique index).    *)
THEOREM SendIsIdempotent == Spec => []OneRowPerKey
<1>1. Inv3 => OneRowPerKey
  BY DEF Inv3, Tables
<1>2. QED
  BY <1>1, Agreement, PTL

(* What a retried send is answered: the row of its own key, created by at  *)
(* most one of the retries (send_message's three ways to answer).          *)
THEOREM RetriesAreConsistent == Spec => []RetriesAgree
<1>1. Inv3 => RetriesAgree
  BY DEF Inv3, Knowledge, AnswerOf, RetriesAgree
<1>2. QED
  BY <1>1, Agreement, PTL

(* Redis is given committed events only (publish_to_conversation's place   *)
(* after db.commit in the three writers).                                  *)
THEOREM PublicationFollowsCommit == Spec => []PublishedIsCommitted
<1>1. Inv3 => PublishedIsCommitted
  BY DEF Inv3, Tables
<1>2. QED
  BY <1>1, Agreement, PTL

(* Every row has its send event, every event a row that came before it     *)
(* (the three commits; delete_message's soft delete).                      *)
THEOREM LogAndRowsAgree == Spec => []LogMatchesRows
<1>1. Inv3 => LogMatchesRows
  BY DEF Inv3, Tables
<1>2. QED
  BY <1>1, Agreement, PTL

(* No read mark lies beyond the end of its conversation (mark_read's min). *)
THEOREM ReadMarksAreBounded == Spec => []ReadMarkBounded
<1>1. Inv3 => ReadMarkBounded
  BY DEF Inv3, Tables
<1>2. QED
  BY <1>1, Agreement, PTL

-----------------------------------------------------------------------------
(* The steps that leave rows and log alone.                                *)

Soft(r) ==
  /\ UNCHANGED <<message, events>>
  /\ pc[r] # "done"
  /\ Others(r)
  /\ \A s \in Requests \ {r} : reply'[s] = reply[s]
  /\ \A c \in Conversations : published[c] \subseteq published'[c]

StepOf(r) == Arrive(r) \/ Proceed(r) \/ LosePublication(r) \/ Fail(r)

(* Every step of a request commits or is soft.                             *)
LEMMA CommitOrSoft ==
  ASSUME Inv1, NEW r \in Requests, StepOf(r)
  PROVE  CommitSend(r) \/ CommitEdit(r) \/ CommitDelete(r) \/ Soft(r)
<1> USE DEF Inv1
<1>1. ASSUME Arrive(r)
      PROVE  Soft(r)
  BY <1>1, ArriveShape DEF ArrivalOf, Soft, store
<1>2. ASSUME AcceptFiles(r) \/ RefuseFiles(r) \/ AllocSeq(r) \/ SendDuplicate(r)
             \/ Reselect(r) \/ ReadMembership(r) \/ MarkRead(r)
             \/ LosePublication(r) \/ Fail(r)
      PROVE  Soft(r)
  BY <1>2 DEF AcceptFiles, RefuseFiles, AllocSeq, SendDuplicate, Reselect,
     ReadMembership, MarkRead, LosePublication, Fail, Answer, Goto, Soft, Others,
     store, TypeOK
<1>3. ASSUME Publish(r)
      PROVE  Soft(r)
  BY <1>3 DEF Publish, Answer, Goto, Soft, Others, store, TypeOK
<1>4. QED
  BY <1>1, <1>2, <1>3 DEF StepOf, Proceed

-----------------------------------------------------------------------------
(* The text of a message and the log of its conversation.                  *)

EditIn(log, m, row) ==
  \E i \in 1..Len(log) :
    /\ log[i].type = "edit" /\ log[i].message = m /\ log[i].body = row.body
    /\ \/ log[row.seq].body = None
       \/ \E j \in 1..(i - 1) : log[j].type = "delete" /\ log[j].message = m

(* What a row says of its log: a deletion is in it, a text was sent or     *)
(* edited in, no text was deleted or never sent, and the text of a deleted *)
(* message is a late edit's.                                               *)
TextIn(log, m, row) ==
  /\ row.deleted => \E j \in 1..Len(log) : log[j].type = "delete" /\ log[j].message = m
  /\ row.body = None => row.deleted \/ log[row.seq].body = None
  /\ row.body # None =>
       \E i \in 1..Len(log) :
         /\ log[i].type \in {"send", "edit"} /\ log[i].message = m
         /\ log[i].body = row.body
  /\ row.deleted /\ row.body # None => EditIn(log, m, row)

(* A delete that saw no text saw a deleted message or one sent without;    *)
(* an edit always brings a text.                                           *)
SeenOf(r) ==
  pc[r] \in {"alloc", "write"} =>
    /\ ctx[r].op = "edit" => ctx[r].body # None
    /\ ctx[r].op = "delete" /\ ctx[r].seenBody = None =>
         LET row == message[ctx[r].target] IN
           row.deleted \/ events[row.conv][row.seq].body = None

Texts == \A m \in Requests : Exists(m) => TextIn(events[message[m].conv], m, message[m])

Seen == \A r \in Requests : SeenOf(r)

Inv4 == Texts /\ Seen

LEMMA TextGrows ==
  ASSUME NEW log, NEW more, Len(log) \in Nat, Len(more) \in Nat, Len(log) <= Len(more),
         \A i \in 1..Len(log) : more[i] = log[i],
         NEW m, NEW row, row.seq \in 1..Len(log), TextIn(log, m, row)
  PROVE  TextIn(more, m, row)
<1>1. 1..Len(log) \subseteq 1..Len(more) /\ more[row.seq] = log[row.seq]
  OBVIOUS
<1>2. EditIn(log, m, row) => EditIn(more, m, row)
  BY <1>1 DEF EditIn
<1>3. /\ row.deleted =>
           \E j \in 1..Len(more) : more[j].type = "delete" /\ more[j].message = m
      /\ row.body = None => row.deleted \/ more[row.seq].body = None
  BY <1>1 DEF TextIn
<1>4. row.body # None =>
        \E i \in 1..Len(more) :
          /\ more[i].type \in {"send", "edit"} /\ more[i].message = m
          /\ more[i].body = row.body
  BY <1>1 DEF TextIn
<1>5. QED
  BY <1>2, <1>3, <1>4 DEF TextIn

LEMMA SameText ==
  ASSUME NEW log, NEW m, NEW row, NEW new, TextIn(log, m, row),
         new.seq = row.seq, new.deleted = row.deleted, new.body = row.body
  PROVE  TextIn(log, m, new)
<1>1. EditIn(log, m, row) => EditIn(log, m, new)
  BY DEF EditIn
<1>2. QED
  BY <1>1 DEF TextIn

(* The three commits, on one row and its log.                              *)
LEMMA TextSent ==
  ASSUME NEW log \in Seq(Event), NEW e \in Event, NEW m, NEW row,
         row.seq = Len(log) + 1, ~row.deleted, row.body = e.body,
         e.type = "send", e.message = m
  PROVE  TextIn(Append(log, e), m, row)
BY DEF TextIn, EditIn

LEMMA TextEdited ==
  ASSUME NEW log \in Seq(Event), NEW e \in Event, NEW m, NEW row, NEW new, NEW seen,
         row.seq \in 1..Len(log), TextIn(log, m, row),
         new.seq = row.seq, new.deleted = row.deleted,
         e.type = "edit", e.message = m, e.body # None,
         new.body = Written(seen, e.body, row.body)
  PROVE  TextIn(Append(log, e), m, new)
<1> DEFINE more == Append(log, e)
           n == Len(log) + 1
<1>1. /\ Len(log) \in Nat /\ Len(more) = n /\ more[n] = e
      /\ \A i \in 1..Len(log) : more[i] = log[i]
  OBVIOUS
<1> HIDE DEF more, n
<1>2. n = Len(log) + 1
  BY DEF n
<1>3. TextIn(more, m, row)
  <2>1. Len(more) \in Nat /\ Len(log) <= Len(more)
    BY <1>1, <1>2
  <2>2. QED
    BY <1>1, <2>1, TextGrows
<1>4. CASE new.body = row.body
  <2>1. TextIn(more, m, new)
    BY <1>3, <1>4, SameText
  <2>2. QED
    BY <2>1 DEF more
<1>5. CASE new.body = e.body
  <2>1. n \in 1..Len(more) /\ more[n] = e /\ new.body # None
    BY <1>1, <1>2, <1>5
  <2>2. new.deleted => \E j \in 1..(n - 1) : more[j].type = "delete" /\ more[j].message = m
    BY <1>1, <1>2 DEF TextIn
  <2>3. new.deleted => EditIn(more, m, new)
    BY <1>5, <2>1, <2>2 DEF EditIn
  <2>4. new.deleted => \E j \in 1..Len(more) : more[j].type = "delete" /\ more[j].message = m
    BY <1>3 DEF TextIn
  <2>5. \E i \in 1..Len(more) : more[i].type \in {"send", "edit"} /\ more[i].message = m
                               /\ more[i].body = new.body
    BY <1>5, <2>1
  <2>6. QED
    BY <2>1, <2>3, <2>4, <2>5 DEF TextIn, more
<1>6. QED
  BY <1>4, <1>5 DEF Written

LEMMA TextDeleted ==
  ASSUME NEW log \in Seq(Event), NEW e \in Event, NEW m, NEW row, NEW new, NEW seen,
         row.seq \in 1..Len(log), TextIn(log, m, row),
         \A i \in 1..Len(log) :
           log[i].type = "send" /\ log[i].message = m => i = row.seq,
         seen = None => row.deleted \/ log[row.seq].body = None,
         new.seq = row.seq, new.deleted,
         e.type = "delete", e.message = m,
         new.body = Written(seen, None, row.body)
  PROVE  TextIn(Append(log, e), m, new)
<1> DEFINE more == Append(log, e)
           n == Len(log) + 1
<1>1. /\ Len(log) \in Nat /\ Len(more) = n /\ more[n] = e
      /\ \A i \in 1..Len(log) : more[i] = log[i]
  OBVIOUS
<1> HIDE DEF more, n
<1>2. n = Len(log) + 1
  BY DEF n
<1>3. \E j \in 1..Len(more) : more[j].type = "delete" /\ more[j].message = m
  BY <1>1, <1>2
<1>4. CASE new.body = None
  BY <1>3, <1>4 DEF TextIn, more
<1>5. CASE new.body # None
  <2>1. seen = None /\ new.body = row.body
    BY <1>5 DEF Written
  <2>2. TextIn(more, m, row)
    <3>1. Len(more) \in Nat /\ Len(log) <= Len(more)
      BY <1>1, <1>2
    <3>2. QED
      BY <1>1, <3>1, TextGrows
  <2>3. EditIn(more, m, row)
    <3>1. CASE row.deleted
      BY <1>5, <2>1, <2>2, <3>1 DEF TextIn
    <3>2. CASE log[row.seq].body = None
      <4>1. PICK i \in 1..Len(log) :
              /\ log[i].type \in {"send", "edit"} /\ log[i].message = m
              /\ log[i].body = row.body
        BY <1>5, <2>1 DEF TextIn
      <4>2. log[i].type = "edit"
        BY <1>5, <2>1, <3>2, <4>1
      <4>3. i \in 1..Len(more) /\ more[i] = log[i] /\ more[row.seq] = log[row.seq]
        BY <1>1, <1>2
      <4>4. QED
        BY <3>2, <4>1, <4>2, <4>3 DEF EditIn
    <3>3. QED
      BY <2>1, <3>1, <3>2
  <2>4. EditIn(more, m, new)
    BY <2>1, <2>3 DEF EditIn
  <2>5. \E i \in 1..Len(more) : more[i].type \in {"send", "edit"} /\ more[i].message = m
                               /\ more[i].body = new.body
    BY <1>5, <2>1, <2>2 DEF TextIn
  <2>6. QED
    BY <1>3, <1>5, <2>4, <2>5 DEF TextIn, more
<1>6. QED
  BY <1>4, <1>5

-----------------------------------------------------------------------------
LEMMA InitInv4 == Init => Inv4
BY DEF Init, Inv4, Texts, Seen, SeenOf, Exists

(* A request that neither locks nor commits is not about to write.         *)
LEMMA SoftTexts ==
  ASSUME Inv1, Texts, NEW r \in Requests, Soft(r)
  PROVE  Texts'
BY DEF Texts, Soft, Exists

(* What the others have seen stays true: rows and logs only grow, and      *)
(* nothing is undeleted.                                                   *)
LEMMA SeenFrame ==
  ASSUME Inv1, Inv3, Seen, NEW r \in Requests, Others(r), KeepsRows(r), SeenOf(r)',
         \A m \in Requests : Exists(m) /\ message[m].deleted => message'[m].deleted,
         \A c \in Conversations : \A i \in 1..Len(events[c]) : events'[c][i] = events[c][i]
  PROVE  Seen'
<1> SUFFICES ASSUME NEW s \in Requests \ {r}, pc'[s] \in {"alloc", "write"} PROVE SeenOf(s)'
  BY DEF Seen, SeenOf
<1>1. pc'[s] = pc[s] /\ ctx'[s] = ctx[s] /\ SeenOf(s) /\ ControlOf(s)
  BY DEF Others, Seen, Inv1, Control
<1>2. CASE ctx[s].op = "delete" /\ ctx[s].seenBody = None
  <2>1. PICK m \in Requests : m = ctx[s].target /\ Exists(m)
    BY <1>1, <1>2 DEF ControlOf, Context
  <2>2. message[m].deleted \/ events[message[m].conv][message[m].seq].body = None
    BY <1>1, <1>2, <2>1 DEF SeenOf
  <2>3. /\ message[m].conv \in Conversations
        /\ message[m].seq \in 1..Len(events[message[m].conv])
    BY <2>1 DEF Inv1, Inv3, Tables, LogMatchesRows, RowLogged, TypeOK, Row, Exists
  <2>4. message'[m].conv = message[m].conv /\ message'[m].seq = message[m].seq
    BY <2>1 DEF KeepsRows, Fixed
  <2>5. message'[m].deleted \/ events'[message'[m].conv][message'[m].seq].body = None
    BY <2>1, <2>2, <2>3, <2>4
  <2>6. QED
    BY <1>1, <1>2, <2>1, <2>5 DEF SeenOf
<1>3. CASE ~(ctx[s].op = "delete" /\ ctx[s].seenBody = None)
  BY <1>1, <1>3 DEF SeenOf
<1>4. QED
  BY <1>2, <1>3

(* Each commit, on the row it writes and on the rows it leaves alone.      *)
LEMMA CommitTexts ==
  ASSUME Inv1, Inv2, Inv3, Inv4, NEW r \in Requests, CommitEvent(r), KeepsRows(r),
         pc[r] = "write", NEW t \in Requests, t = ctx[r].target, Exists(t)',
         \A m \in Requests \ {t} : message'[m] = message[m],
         TextIn(Append(events[ctx[r].conv], EventOf(r)), t, message'[t]),
         message'[t].conv = ctx[r].conv
  PROVE  Texts'
<1> SUFFICES ASSUME NEW m \in Requests, Exists(m)'
             PROVE  TextIn(events'[message'[m].conv], m, message'[m])
  BY DEF Texts
<1>1. PICK c \in Conversations : c = ctx[r].conv
  BY DEF Inv1, Control, ControlOf, Context
<1>2. events[c] \in Seq(Event) /\ events'[c] = Append(events[c], EventOf(r))
  BY <1>1 DEF Inv1, TypeOK, CommitEvent
<1>3. CASE m = t
  BY <1>1, <1>2, <1>3
<1>4. CASE m # t
  <2>1. Exists(m) /\ message'[m] = message[m] /\ message[m] \in Row
    BY <1>4 DEF Exists, Inv1, TypeOK
  <2>2. PICK d \in Conversations : d = message[m].conv
    BY <2>1 DEF Row
  <2>3. /\ TextIn(events[d], m, message[m])
        /\ message[m].seq \in 1..Len(events[d])
    BY <2>1, <2>2 DEF Inv4, Texts, Inv3, Tables, LogMatchesRows, RowLogged
  <2>4. CASE d # c
    <3>1. events'[d] = events[d]
      BY <1>1, <2>4 DEF CommitEvent, Inv1, TypeOK
    <3>2. QED
      BY <2>1, <2>2, <2>3, <3>1
  <2>5. CASE d = c
    <3>1. /\ Len(events[d]) \in Nat /\ Len(events'[d]) = Len(events[d]) + 1
          /\ \A i \in 1..Len(events[d]) : events'[d][i] = events[d][i]
      BY <1>1, <2>5, CommitAppends DEF Inv1, TypeOK
    <3>2. Len(events'[d]) \in Nat /\ Len(events[d]) <= Len(events'[d])
      BY <3>1
    <3>3. TextIn(events'[d], m, message[m])
      BY <2>3, <3>1, <3>2, TextGrows
    <3>4. QED
      BY <2>1, <2>2, <3>3
  <2>6. QED
    BY <2>4, <2>5
<1>5. QED
  BY <1>3, <1>4

LEMMA SendTexts ==
  ASSUME Inv1, Inv2, Inv3, Inv4, NEW r \in Requests, CommitSend(r)
  PROVE  Texts'
<1>1. /\ pc[r] = "write" /\ CommitEvent(r) /\ ctx[r].op = "send"
      /\ ctx[r] \in Context /\ ctx[r].target = r /\ message[r] = None
  BY DEF CommitSend, Inv1, Control, ControlOf
<1>2. KeepsRows(r) /\ Exists(r)'
  BY SendRows
<1>3. PICK e \in Event :
        e = EventOf(r) /\ e.type = "send" /\ e.message = r /\ e.body = ctx[r].body
  BY <1>1, EventType DEF EventOf
<1>4. /\ message'[r].conv = ctx[r].conv /\ message'[r].seq = ctx[r].seq
      /\ ~message'[r].deleted /\ message'[r].body = ctx[r].body
      /\ \A m \in Requests \ {r} : message'[m] = message[m]
  BY <1>1 DEF CommitSend, Inv1, TypeOK
<1>5. PICK log \in Seq(Event) : log = events[ctx[r].conv] /\ ctx[r].seq = Len(log) + 1
  BY <1>1, CommitAppends DEF Inv1, TypeOK
<1>6. TextIn(Append(log, e), r, message'[r])
  BY <1>3, <1>4, <1>5, TextSent
<1>7. QED
  BY <1>1, <1>2, <1>3, <1>4, <1>5, <1>6, CommitTexts

(* What edit and delete find when they commit.                             *)
LEMMA ChangeFinds ==
  ASSUME Inv1, Inv2, Inv3, Inv4, NEW r \in Requests, CommitEdit(r) \/ CommitDelete(r)
  PROVE  \E t \in Requests, log \in Seq(Event), e \in Event, row \in Row :
           /\ t = ctx[r].target /\ log = events[ctx[r].conv] /\ e = EventOf(r)
           /\ row = message[t] /\ Exists(t)
           /\ pc[r] = "write" /\ CommitEvent(r) /\ KeepsRows(r)
           /\ e.type = ctx[r].op /\ e.message = t
           /\ row.conv = ctx[r].conv /\ row.seq \in 1..Len(log)
           /\ TextIn(log, t, row)
           /\ \A i \in 1..Len(log) :
                log[i].type = "send" /\ log[i].message = t => i = row.seq
<1>1. /\ pc[r] = "write" /\ CommitEvent(r)
      /\ ctx[r] \in Context
  BY DEF CommitEdit, CommitDelete, Inv1, Control, ControlOf
<1>2. PICK t \in Requests, c \in Conversations : t = ctx[r].target /\ c = ctx[r].conv
  BY <1>1 DEF Context
<1>3. KeepsRows(r) /\ Exists(t) /\ message[t].conv = c
  BY <1>2, ChangeRows
<1>4. PICK row \in Row : row = message[t]
  BY <1>3 DEF Inv1, TypeOK, Exists
<1>5. PICK log \in Seq(Event) : log = events[c]
  BY DEF Inv1, TypeOK
<1>6. TextIn(log, t, row) /\ row.seq \in 1..Len(log)
  BY <1>3, <1>4, <1>5 DEF Inv4, Texts, Inv3, Tables, LogMatchesRows, RowLogged
<1>7. ASSUME NEW i \in 1..Len(log), log[i].type = "send", log[i].message = t
      PROVE  i = row.seq
  BY <1>4, <1>5, <1>7 DEF Inv3, Tables, LogMatchesRows, EventGrounded
<1>8. PICK e \in Event : e = EventOf(r) /\ e.type = ctx[r].op /\ e.message = t
  BY <1>1, <1>2, EventType
<1>9. QED
  BY <1>1, <1>2, <1>3, <1>4, <1>5, <1>6, <1>7, <1>8

LEMMA EditTexts ==
  ASSUME Inv1, Inv2, Inv3, Inv4, NEW r \in Requests, CommitEdit(r)
  PROVE  Texts'
<1>1. PICK t \in Requests, log \in Seq(Event), e \in Event, row \in Row :
        /\ t = ctx[r].target /\ log = events[ctx[r].conv] /\ e = EventOf(r)
        /\ row = message[t] /\ Exists(t)
        /\ pc[r] = "write" /\ CommitEvent(r) /\ KeepsRows(r)
        /\ e.type = ctx[r].op /\ e.message = t
        /\ row.conv = ctx[r].conv /\ row.seq \in 1..Len(log)
        /\ TextIn(log, t, row)
  BY ChangeFinds
<1>2. ctx[r].op = "edit" /\ e.type = "edit" /\ e.body = ctx[r].body /\ ctx[r].body # None
  BY <1>1 DEF CommitEdit, EventOf, Inv4, Seen, SeenOf
<1>3. /\ message'[t].seq = row.seq /\ message'[t].deleted = row.deleted
      /\ message'[t].conv = row.conv
      /\ message'[t].body = Written(ctx[r].seenBody, e.body, row.body)
      /\ \A m \in Requests \ {t} : message'[m] = message[m]
  BY <1>1, <1>2 DEF CommitEdit, Inv1, TypeOK, Row
<1>4. TextIn(Append(log, e), t, message'[t])
  BY <1>1, <1>2, <1>3, TextEdited
<1>5. Exists(t)'
  BY <1>1 DEF KeepsRows
<1>6. QED
  BY <1>1, <1>3, <1>4, <1>5, CommitTexts

LEMMA DeleteTexts ==
  ASSUME Inv1, Inv2, Inv3, Inv4, NEW r \in Requests, CommitDelete(r)
  PROVE  Texts'
<1>1. PICK t \in Requests, log \in Seq(Event), e \in Event, row \in Row :
        /\ t = ctx[r].target /\ log = events[ctx[r].conv] /\ e = EventOf(r)
        /\ row = message[t] /\ Exists(t)
        /\ pc[r] = "write" /\ CommitEvent(r) /\ KeepsRows(r)
        /\ e.type = ctx[r].op /\ e.message = t
        /\ row.conv = ctx[r].conv /\ row.seq \in 1..Len(log)
        /\ TextIn(log, t, row)
        /\ \A i \in 1..Len(log) :
             log[i].type = "send" /\ log[i].message = t => i = row.seq
  BY ChangeFinds
<1>2. ctx[r].op = "delete" /\ e.type = "delete"
  BY <1>1 DEF CommitDelete
<1>3. ctx[r].seenBody = None => row.deleted \/ log[row.seq].body = None
  BY <1>1, <1>2 DEF Inv4, Seen, SeenOf
<1>4. /\ message'[t].seq = row.seq /\ message'[t].deleted
      /\ message'[t].conv = row.conv
      /\ message'[t].body = Written(ctx[r].seenBody, None, row.body)
      /\ \A m \in Requests \ {t} : message'[m] = message[m]
  BY <1>1 DEF CommitDelete, Inv1, TypeOK, Row
<1>5. TextIn(Append(log, e), t, message'[t])
  <2> DEFINE new == message'[t]
             seen == ctx[r].seenBody
  <2>1. row.seq \in 1..Len(log) /\ TextIn(log, t, row)
    BY <1>1
  <2>2. \A i \in 1..Len(log) :
          log[i].type = "send" /\ log[i].message = t => i = row.seq
    BY <1>1
  <2>3. seen = None => row.deleted \/ log[row.seq].body = None
    BY <1>3
  <2>4. new.seq = row.seq /\ new.deleted /\ new.body = Written(seen, None, row.body)
    BY <1>4
  <2>5. e.type = "delete" /\ e.message = t
    BY <1>1, <1>2
  <2> HIDE DEF new, seen
  <2>6. TextIn(Append(log, e), t, new)
    BY <2>1, <2>2, <2>3, <2>4, <2>5, TextDeleted
  <2>7. QED
    BY <2>6 DEF new
<1>6. Exists(t)'
  BY <1>1 DEF KeepsRows
<1>7. QED
  BY <1>1, <1>4, <1>5, <1>6, CommitTexts

(* A request that is about to write has loaded the row it will overwrite.  *)
LEMMA SoftSeen ==
  ASSUME Inv1, Inv3, Inv4, NEW r \in Requests, Soft(r), StepOf(r)
  PROVE  SeenOf(r)'
<1> USE DEF Inv1
<1>1. ASSUME NEW m \in Requests, NEW b \in Bodies, LoadForEdit(r, m, b)
      PROVE  SeenOf(r)'
  <2> DEFINE x == EditContext(r, m, b, message[m])
  <2>1. x \in Context /\ x.op = "edit" /\ x.body = b
    BY <1>1 DEF EditContext, LoadForEdit, Exists, TypeOK, Blank, Context, Row
  <2>2. ctx' = [ctx EXCEPT ![r] = x]
    BY <1>1 DEF LoadForEdit, EditContext
  <2> HIDE DEF x
  <2>3. ctx'[r] = x /\ b # None
    BY <2>1, <2>2, ContextStep, NullAssumption
  <2>4. QED
    BY <2>1, <2>3 DEF SeenOf
<1>2. ASSUME NEW m \in Requests, NEW u \in Users, LoadForDelete(r, m, u)
      PROVE  SeenOf(r)'
  <2> DEFINE x == DeleteContext(r, m, u, message[m])
  <2>1. x \in Context /\ x.op = "delete" /\ x.target = m /\ x.seenBody = message[m].body
    BY <1>2 DEF DeleteContext, LoadForDelete, Exists, TypeOK, Blank, Context, Row
  <2>2. ctx' = [ctx EXCEPT ![r] = x]
    BY <1>2 DEF LoadForDelete, DeleteContext
  <2> HIDE DEF x
  <2>3. ctx'[r] = x
    BY <2>1, <2>2, ContextStep
  <2>4. TextIn(events[message[m].conv], m, message[m])
    BY <1>2 DEF LoadForDelete, Inv4, Texts
  <2>5. message[m].body = None =>
          message[m].deleted \/ events[message[m].conv][message[m].seq].body = None
    BY <2>4 DEF TextIn
  <2>6. QED
    BY <2>1, <2>3, <2>5 DEF SeenOf, Soft
<1>3. CASE AllocSeq(r)
  <2>1. /\ ctx[r] \in Context /\ pc[r] = "alloc" /\ SeenOf(r)
    BY <1>3 DEF AllocSeq, Control, ControlOf, Inv4, Seen
  <2>2. /\ ctx'[r].op = ctx[r].op /\ ctx'[r].body = ctx[r].body
        /\ ctx'[r].seenBody = ctx[r].seenBody /\ ctx'[r].target = ctx[r].target
    BY <1>3, <2>1 DEF AllocSeq, TypeOK, Context
  <2>3. QED
    BY <2>1, <2>2 DEF SeenOf, Soft
<1>4. ASSUME NEW c \in Conversations, NEW u \in Users, NEW k \in Keys,
             NEW b \in Bodies \cup {None}, NEW files \in SUBSET Attachments,
             SendNew(r, c, u, k, b, files)
      PROVE  SeenOf(r)'
  <2> DEFINE x == [Blank(r, c, u) EXCEPT !.key = k, !.body = b, !.files = files]
  <2>1. x \in Context /\ x.op = "send"
    BY DEF Blank, Context
  <2> HIDE DEF x
  <2>2. ctx' = [ctx EXCEPT ![r] = x]
    BY <1>4 DEF SendNew, x
  <2>3. ctx'[r] = x
    BY <2>1, <2>2, ContextStep
  <2>4. QED
    BY <2>1, <2>3 DEF SeenOf
<1>5. CASE AcceptFiles(r)
  BY <1>5 DEF AcceptFiles, SeenOf, Control, ControlOf
<1>6. ASSUME NEW c \in Conversations, NEW u \in Users, NEW k \in Keys,
             SendReplayed(r, c, u, k)
      PROVE  SeenOf(r)'
  BY <1>6 DEF SendReplayed, Answer, Goto, SeenOf, TypeOK
<1>7. ASSUME NEW c \in Conversations, NEW u \in Users, NEW n \in 1..MaxUpTo,
             ReadConversation(r, c, u, n)
      PROVE  SeenOf(r)'
  BY <1>7 DEF ReadConversation, Goto, SeenOf, TypeOK
<1>8. CASE RefuseFiles(r) \/ Reselect(r) \/ MarkRead(r) \/ Publish(r)
           \/ LosePublication(r) \/ Fail(r)
  BY <1>8 DEF RefuseFiles, Reselect, MarkRead, Publish, LosePublication, Fail, Answer,
     Goto, SeenOf, TypeOK
<1>9. CASE SendDuplicate(r)
  BY <1>9 DEF SendDuplicate, Goto, SeenOf, TypeOK
<1>10. CASE ReadMembership(r)
  BY <1>10 DEF ReadMembership, Answer, Goto, SeenOf, TypeOK
<1>11. CASE CommitSend(r) \/ CommitEdit(r) \/ CommitDelete(r)
  BY <1>11 DEF CommitSend, CommitEdit, CommitDelete, CommitEvent, Goto, SeenOf, TypeOK
<1>12. QED
  BY <1>1, <1>2, <1>3, <1>4, <1>5, <1>6, <1>7, <1>8, <1>9, <1>10, <1>11,
     PayloadParts
     DEF StepOf, Arrive, Proceed

LEMMA StepInv4 ==
  ASSUME Inv1, Inv2, Inv3, Inv4, [Next]_vars PROVE Inv4'
<1>1. ASSUME NEW r \in Requests, Soft(r), StepOf(r)
      PROVE  Inv4'
  <2>1. Texts'
    BY <1>1, SoftTexts DEF Inv4
  <2>2. SeenOf(r)'
    BY <1>1, SoftSeen
  <2>3. KeepsRows(r) /\ Others(r)
    BY <1>1, SameRows DEF Soft
  <2>4. Seen'
    BY <1>1, <2>2, <2>3, SeenFrame DEF Soft, Inv4
  <2>5. QED
    BY <2>1, <2>4 DEF Inv4
<1>2. ASSUME NEW r \in Requests, CommitSend(r) \/ CommitEdit(r) \/ CommitDelete(r)
      PROVE  Inv4'
  <2>1. Texts'
    BY <1>2, SendTexts, EditTexts, DeleteTexts
  <2>2. pc[r] = "write" /\ CommitEvent(r) /\ KeepsRows(r)
    BY <1>2, SendRows, ChangeRows DEF CommitSend, CommitEdit, CommitDelete
  <2>3. SeenOf(r)' /\ Others(r)
    BY <2>2, CommitAppends DEF SeenOf
  <2>4. \A m \in Requests : Exists(m) /\ message[m].deleted => message'[m].deleted
    <3>1. CASE CommitSend(r)
      BY <3>1 DEF CommitSend, Inv1, TypeOK, Control, ControlOf, Exists
    <3>2. CASE CommitEdit(r)
      BY <3>2 DEF CommitEdit, Inv1, TypeOK, Row, Exists
    <3>3. CASE CommitDelete(r)
      BY <3>3 DEF CommitDelete, Inv1, TypeOK, Row, Exists
    <3>4. QED
      BY <1>2, <3>1, <3>2, <3>3
  <2>5. \A c \in Conversations : \A i \in 1..Len(events[c]) : events'[c][i] = events[c][i]
    BY <2>2, CommitAppends
  <2>6. Seen'
    BY <2>2, <2>3, <2>4, <2>5, SeenFrame DEF Inv4
  <2>7. QED
    BY <2>1, <2>6 DEF Inv4
<1>3. CASE UNCHANGED vars
  BY <1>3 DEF vars, Inv4, Texts, Seen, SeenOf, Exists
<1>4. QED
  BY <1>1, <1>2, <1>3, CommitOrSoft DEF Next, Finished, StepOf

(* The texts of the rows and what edits and deletions have loaded of them. *)
THEOREM TextsAgree == Spec => []Inv4
<1>1. Init => Inv4
  BY InitInv4
<1>2. Inv1 /\ Inv2 /\ Inv3 /\ Inv4 /\ [Next]_vars => Inv4'
  BY StepInv4
<1>3. QED
  BY <1>1, <1>2, TypeAndControl, LogNumbering, Agreement, PTL DEF Spec

(* A deleted message has a text only if an edit brought it that overlapped *)
(* the deletion (edit_message and delete_message write what they loaded).  *)
THEOREM DeletedTextIsExplained == Spec => []DeletedTextIsLateEdit
<1>1. Inv4 => DeletedTextIsLateEdit
  BY DEF Inv4, Texts, DeletedTextIsLateEdit, TextComesFromEdit, TextIn, EditIn
<1>2. QED
  BY <1>1, TextsAgree, PTL
=============================================================================
