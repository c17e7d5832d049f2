------------------------------- MODULE Uploads -------------------------------
(***************************************************************************)
(* The life of an attachment: api/v1/uploads.py and services/storage.py    *)
(* grant and finalize it, send_message gives it to a message, worker.py    *)
(* purges what nobody attached.  The row is in PostgreSQL (READ COMMITTED) *)
(* and the object in an S3 bucket, and nothing writes both at once.        *)
(*                                                                         *)
(* Requests are HTTP requests of the uploads' owner; those of anyone else  *)
(* find no row and change nothing.  One step is one statement, one row     *)
(* lock, one call of the bucket or the commit; a grant is a single step    *)
(* and is not given a request.  Requests are numbered in the order of      *)
(* their arrival.  A send is named by its request, and shown from its      *)
(* attachments SELECT on; numbering and publication are in Messages.  Row  *)
(* locks are shown because the purge waits on them; the variables hold     *)
(* committed rows.                                                         *)
(*                                                                         *)
(* A row names the conversation whose readers may fetch the file: that of  *)
(* the grant, then that of the message which took it.  Who reads a         *)
(* conversation is fixed here and no conversation is deleted.  Uploads are *)
(* numbers in the order of their primary keys, the order in which a flush  *)
(* updates them.  Size and name are payload: the URL binds the declared    *)
(* size, so the size check of the probe never fails.                       *)
(***************************************************************************)
EXTENDS Naturals

CONSTANTS
  Uploads,
  Requests,
  Conversations,  \* those the owner of the uploads may send to
  Targets,      \* upload |-> those it may be granted for
  Users, Owner,
  Readers,      \* whom resolve_access lets read each of them
  Known,        \* contents with the signature of an accepted type
  Other,        \* any other contents
  MaxCrashes,   \* bound on the failures of the worker
  Worker, None

ASSUME UploadsAssumption ==
  /\ Uploads \subseteq Nat /\ Requests \subseteq Nat
  /\ Targets \in [Uploads -> SUBSET Conversations]
  /\ Readers \in [Conversations -> SUBSET Users] /\ Owner \in Users
  /\ Worker \notin Requests
  /\ None \notin Requests \cup Conversations \cup {Worker} \cup Known \cup Other
  /\ Known \cap Other = {}
  /\ MaxCrashes \in Nat

VARIABLES
  row,      \* the attachments table
  age,      \* of the row: 0 the URL is valid, 1 it has expired, 2 over 24 hours
  object,   \* the bucket
  lock,     \* row locks of attachments
  shows,    \* request |-> conversation and attachments of the message it stored
  doomed,   \* rows the worker's DELETE has yet to visit
  deleted,  \* rows it has deleted and not committed
  crashes,  \* failures of the worker so far
  pc, ctx

worker == <<doomed, deleted, crashes>>
vars == <<row, age, object, lock, shows, worker, pc, ctx>>

(* "none": not granted yet; "purged": deleted.  Nothing ever writes        *)
(* REJECTED, see Probe.                                                    *)
Row == [state : {"none", "PENDING", "READY", "purged"},
        type : Known \cup {None}, message : Requests \cup {None},
        conversation : Conversations \cup {None}]

Message == [conversation : Conversations \cup {None}, files : SUBSET Uploads]

(* moved: the files that were loaded with another conversation.            *)
Context == [upload : Uploads \cup {None}, type : Known \cup {None},
            conversation : Conversations \cup {None}, files : SUBSET Uploads,
            moved : SUBSET Uploads, written : SUBSET Uploads]

Blank == [upload |-> None, type |-> None, conversation |-> None,
          files |-> {}, moved |-> {}, written |-> {}]

TypeOK ==
  /\ row \in [Uploads -> Row]
  /\ age \in [Uploads -> 0..2]
  /\ object \in [Uploads -> Known \cup Other \cup {None}]
  /\ lock \in [Uploads -> Requests \cup {Worker, None}]
  /\ shows \in [Requests -> Message]
  /\ doomed \subseteq Uploads /\ deleted \subseteq Uploads
  /\ crashes \in 0..MaxCrashes
  /\ pc \in [Requests -> {"idle", "probe", "accept", "attach", "done"}]
  /\ ctx \in [Requests -> Context]

Init ==
  /\ row = [u \in Uploads |-> [state |-> "none", type |-> None, message |-> None,
                              conversation |-> None]]
  /\ age = [u \in Uploads |-> 0]
  /\ object = [u \in Uploads |-> None]
  /\ lock = [u \in Uploads |-> None]
  /\ shows = [r \in Requests |-> [conversation |-> None, files |-> {}]]
  /\ doomed = {} /\ deleted = {} /\ crashes = 0
  /\ pc = [r \in Requests |-> "idle"]
  /\ ctx = [r \in Requests |-> Blank]

Stored(u) == row[u].state \in {"PENDING", "READY"}

Goto(r, label) == pc' = [pc EXCEPT ![r] = label]

(* The answer, whatever it is; what the request carried is gone.           *)
Answer(r) == Goto(r, "done") /\ ctx' = [ctx EXCEPT ![r] = Blank]

Unlock(p) == lock' = [u \in Uploads |-> IF lock[u] = p THEN None ELSE lock[u]]

-----------------------------------------------------------------------------
(* request_upload: create_upload_grant signs a URL for a new random key    *)
(* without asking the bucket, then the row is inserted and committed.      *)
RequestUpload(u, c) ==
  /\ row[u].state = "none" /\ c \in Targets[u]
  /\ row' = [row EXCEPT ![u].state = "PENDING", ![u].conversation = c]
  /\ UNCHANGED <<age, object, lock, shows, worker, pc, ctx>>

(* The client's PUT to the signed URL; it may repeat it while it is valid. *)
Put(u, content) ==
  /\ Stored(u) /\ age[u] = 0
  /\ object' = [object EXCEPT ![u] = content]
  /\ UNCHANGED <<row, age, lock, shows, worker, pc, ctx>>

-----------------------------------------------------------------------------
(* finalize_upload                                                         *)

FinalizeReady(r, u) ==
  /\ pc[r] = "idle" /\ row[u].state = "READY"
  /\ Answer(r)
  /\ UNCHANGED <<row, age, object, lock, shows, worker>>

LoadForFinalize(r, u) ==
  /\ pc[r] = "idle" /\ row[u].state = "PENDING"
  /\ ctx' = [ctx EXCEPT ![r].upload = u]
  /\ Goto(r, "probe")
  /\ UNCHANGED <<row, age, object, lock, shows, worker>>

(* Mutant: any content is its own type.                                    *)
ProbeTrusting(r) ==
  /\ pc[r] = "probe"
  /\ IF object[ctx[r].upload] # None
     THEN /\ ctx' = [ctx EXCEPT ![r].type = object[ctx[r].upload]]
          /\ Goto(r, "accept")
     ELSE Answer(r)
  /\ UNCHANGED <<row, age, object, lock, shows, worker>>

(* probe_object.  HEAD of a missing object raises.  For content that has   *)
(* no signature of the types up to audio/ogg the loop reaches audio/webm,  *)
(* whose signatures are bytes and not a tuple of bytes: startswith gets an *)
(* integer and raises.  detected_mime is therefore never None, and the     *)
(* branch of finalize_upload that rejects the row and deletes the object   *)
(* is not reached.                                                         *)
Probe(r) ==
  /\ pc[r] = "probe"
  /\ IF object[ctx[r].upload] \in Known
     THEN /\ ctx' = [ctx EXCEPT ![r].type = object[ctx[r].upload]]
          /\ Goto(r, "accept")
     ELSE Answer(r)
  /\ UNCHANGED <<row, age, object, lock, shows, worker>>

(* The UPDATE waits for the row.  One that has gone meanwhile is a         *)
(* StaleDataError; one that was attached meanwhile keeps its message_id,   *)
(* which the UPDATE does not name.                                         *)
AcceptUpload(r) ==
  LET u == ctx[r].upload IN
    /\ pc[r] = "accept" /\ lock[u] = None
    /\ IF Stored(u)
       THEN /\ row' = [row EXCEPT ![u].state = "READY", ![u].type = ctx[r].type]
            /\ Answer(r)
       ELSE Answer(r) /\ UNCHANGED row
    /\ UNCHANGED <<age, object, lock, shows, worker>>

-----------------------------------------------------------------------------
(* send_message with attachments                                           *)

Acceptable(u) == row[u].state = "READY" /\ row[u].message = None

(* The SELECT takes no lock, and takes files of any conversation.          *)
SelectFiles(r, c, files) ==
  /\ pc[r] = "idle"
  /\ IF \A u \in files : Acceptable(u)
     THEN /\ ctx' = [ctx EXCEPT
                      ![r].conversation = c, ![r].files = files,
                      ![r].moved = {u \in files : row[u].conversation # c}]
          /\ Goto(r, "attach")
     ELSE Answer(r)
  /\ UNCHANGED <<row, age, object, lock, shows, worker>>

Unwritten(r) == ctx[r].files \ ctx[r].written

(* Mutant: an UPDATE that matches no row is no error.                      *)
WriteFileUnchecked(r, u) ==
  /\ pc[r] = "attach"
  /\ u \in Unwritten(r) /\ \A v \in Unwritten(r) : u <= v
  /\ lock[u] = None
  /\ lock' = [lock EXCEPT ![u] = r]
  /\ ctx' = [ctx EXCEPT ![r].written = @ \cup {u}]
  /\ UNCHANGED <<row, age, object, shows, worker, pc>>

(* SQLAlchemy sends neighbours that set the same columns as one            *)
(* executemany; conversation_id is set where it differs from what the      *)
(* SELECT loaded.                                                          *)
Together(r, u, v) ==
  \A w \in ctx[r].files :
    (u <= w /\ w <= v) \/ (v <= w /\ w <= u) =>
      (w \in ctx[r].moved <=> u \in ctx[r].moved)

Alone(r, u) == \A v \in ctx[r].files \ {u} : ~Together(r, u, v)

(* The flush: one UPDATE per file in the order of the keys.  It waits for  *)
(* the row and does not look at message_id again.  A row that has gone is  *)
(* a StaleDataError if its UPDATE is sent alone; for an executemany        *)
(* asyncpg counts no rows, and nobody notices.                             *)
WriteFile(r, u) ==
  /\ pc[r] = "attach"
  /\ u \in Unwritten(r) /\ \A v \in Unwritten(r) : u <= v
  /\ lock[u] = None
  /\ IF Stored(u) \/ ~Alone(r, u)
     THEN /\ lock' = IF Stored(u) THEN [lock EXCEPT ![u] = r] ELSE lock
          /\ ctx' = [ctx EXCEPT ![r].written = @ \cup {u}]
          /\ UNCHANGED pc
     ELSE /\ Unlock(r)
          /\ Answer(r)
  /\ UNCHANGED <<row, age, object, shows, worker>>

(* Mutant: conversation_id is left as it is.                               *)
AttachedInPlace(r, u) == [row[u] EXCEPT !.message = r]

(* What the UPDATE of a file that is still there makes of its row.         *)
Attached(r, u) ==
  [row[u] EXCEPT !.message = r,
                 !.conversation = IF u \in ctx[r].moved THEN ctx[r].conversation ELSE @]

(* The payload lists what the SELECT returned.                             *)
CommitSend(r) ==
  /\ pc[r] = "attach" /\ Unwritten(r) = {}
  /\ row' = [u \in Uploads |->
               IF u \in ctx[r].files /\ Stored(u) THEN Attached(r, u) ELSE row[u]]
  /\ shows' = [shows EXCEPT ![r] = [conversation |-> ctx[r].conversation,
                                    files |-> ctx[r].files]]
  /\ Unlock(r)
  /\ Answer(r)
  /\ UNCHANGED <<age, object, worker>>

(* Anything else that goes wrong in a request rolls its transaction back.  *)
Fail(r) ==
  /\ pc[r] \in {"probe", "accept", "attach"}
  /\ Unlock(r)
  /\ Answer(r)
  /\ UNCHANGED <<row, age, object, shows, worker>>

-----------------------------------------------------------------------------
(* purge_orphan_attachments: one DELETE, in its steps.                     *)

Orphan(u) == Stored(u) /\ row[u].message = None /\ age[u] = 2

(* Mutant: uploads that were never finalized only.                         *)
BeginPurgePending ==
  /\ doomed = {} /\ deleted = {}
  /\ doomed' = {u \in Uploads : Orphan(u) /\ row[u].state = "PENDING"}
  /\ doomed' # {}
  /\ UNCHANGED <<row, age, object, lock, shows, deleted, crashes, pc, ctx>>

(* The rows the snapshot of the statement holds; with none it does nothing. *)
BeginPurge ==
  /\ doomed = {} /\ deleted = {}
  /\ doomed' = {u \in Uploads : Orphan(u)}
  /\ doomed' # {}
  /\ UNCHANGED <<row, age, object, lock, shows, deleted, crashes, pc, ctx>>

(* Mutant: the row is deleted as the snapshot showed it.                   *)
VisitAsSeen(u) ==
  /\ u \in doomed /\ lock[u] = None
  /\ doomed' = doomed \ {u}
  /\ lock' = [lock EXCEPT ![u] = Worker]
  /\ deleted' = deleted \cup {u}
  /\ UNCHANGED <<row, age, object, shows, crashes, pc, ctx>>

(* The DELETE waits for a row and looks at its newest version.             *)
Visit(u) ==
  /\ u \in doomed /\ lock[u] = None
  /\ doomed' = doomed \ {u}
  /\ IF Orphan(u)
     THEN lock' = [lock EXCEPT ![u] = Worker] /\ deleted' = deleted \cup {u}
     ELSE UNCHANGED <<lock, deleted>>
  /\ UNCHANGED <<row, age, object, shows, crashes, pc, ctx>>

(* The keys of the deleted rows are logged; their objects stay.            *)
CommitPurge ==
  /\ doomed = {} /\ deleted # {}
  /\ row' = [u \in Uploads |->
               IF u \in deleted THEN [row[u] EXCEPT !.state = "purged"] ELSE row[u]]
  /\ deleted' = {}
  /\ Unlock(Worker)
  /\ UNCHANGED <<age, object, shows, doomed, crashes, pc, ctx>>

(* The worker rolls back: it died, was cut off, or is the deadlock's       *)
(* victim.  The next cycle starts over.                                    *)
AbortPurge ==
  /\ doomed' = {} /\ deleted' = {}
  /\ Unlock(Worker)
  /\ UNCHANGED <<row, age, object, shows, pc, ctx>>

CrashPurge ==
  /\ doomed \cup deleted # {} /\ crashes < MaxCrashes
  /\ crashes' = crashes + 1
  /\ AbortPurge

(* A send and the worker hold a row each and want the other's.             *)
Deadlocked(r) ==
  /\ pc[r] = "attach"
  /\ \E u \in Unwritten(r) : lock[u] = Worker /\ \A v \in Unwritten(r) : u <= v
  /\ \E u \in doomed : lock[u] = r

BreakDeadlock(r) ==
  /\ Deadlocked(r)
  /\ \/ AbortPurge /\ UNCHANGED crashes
     \/ /\ Unlock(r)
        /\ Answer(r)
        /\ UNCHANGED <<row, age, object, shows, worker>>

Tick(u) ==
  /\ Stored(u) /\ age[u] < 2
  /\ age' = [age EXCEPT ![u] = @ + 1]
  /\ UNCHANGED <<row, object, lock, shows, worker, pc, ctx>>

-----------------------------------------------------------------------------
Arrive(r) ==
  /\ \A q \in Requests : q < r => pc[q] # "idle"
  /\ \/ \E u \in Uploads : FinalizeReady(r, u) \/ LoadForFinalize(r, u)
     \/ \E c \in Conversations, files \in SUBSET Uploads \ {{}} : SelectFiles(r, c, files)

Proceed(r) ==
  \/ Probe(r) \/ AcceptUpload(r)
  \/ (\E u \in Uploads : WriteFile(r, u)) \/ CommitSend(r)
  \/ BreakDeadlock(r)

Purge == BeginPurge \/ (\E u \in Uploads : Visit(u)) \/ CommitPurge

Finished == (\A r \in Requests : pc[r] = "done") /\ UNCHANGED vars

Next ==
  \/ \E r \in Requests : Arrive(r) \/ Proceed(r) \/ Fail(r)
  \/ \E u \in Uploads, c \in Conversations : RequestUpload(u, c)
  \/ \E u \in Uploads : Tick(u) \/ \E content \in Known \cup Other : Put(u, content)
  \/ Purge \/ CrashPurge
  \/ Finished

(* Requests run on; the worker's loop comes round every five minutes; a    *)
(* waiter for a row, woken when its holder ends, is first in PostgreSQL's  *)
(* queue for it.                                                           *)
Fairness ==
  /\ \A r \in Requests :
       WF_vars(Proceed(r)) /\ SF_vars(\E u \in Uploads : WriteFile(r, u))
  /\ WF_vars(Purge)

Spec == Init /\ [][Next]_vars
FairSpec == Spec /\ Fairness

-----------------------------------------------------------------------------
(* download_url mints a URL for a READY row and for those who may read the *)
(* row's conversation; that it works takes an object under the row's key.  *)
CanFetch(u, p) ==
  /\ row[u].state = "READY"
  /\ IF row[u].conversation = None
     THEN p = Owner ELSE p \in Readers[row[u].conversation]
  /\ object[u] # None

(* Whoever reads the message of r can fetch its file u, which has a type   *)
(* the probe recognised and is out of the purge's reach.                   *)
Kept(r, u) ==
  /\ row[u].state = "READY" /\ row[u].type \in Known /\ row[u].message # None
  /\ \A p \in Readers[shows[r].conversation] : CanFetch(u, p)

(* A file of several that was purged before the flush.                     *)
Lost(r, u) == shows[r].files # {u} /\ row[u].state = "purged"

(* Another conversation's message lists the file, and it is fetched there. *)
Taken(r, u) ==
  \E q \in Requests :
    /\ u \in shows[q].files /\ shows[q].conversation # shows[r].conversation
    /\ Kept(q, u)

(* A file that the payload of a stored message lists can be fetched by     *)
(* everyone who can read the message, and stays validated and on a         *)
(* message, whichever of finalize, send, purge and their failures overlap. *)
(* There are two exceptions: one of several files may have been purged     *)
(* before the flush, and where sends to two conversations took one file,   *)
(* the readers of one of them have it.                                     *)
ShownFilesStay ==
  \A r \in Requests : \A u \in shows[r].files : Kept(r, u) \/ Lost(r, u) \/ Taken(r, u)

stages ==
  [u \in Uploads |->
     IF row[u].state = "none" THEN "none"
     ELSE IF row[u].state = "purged" THEN "removed"
     ELSE IF row[u].message # None THEN "shown"
     ELSE IF row[u].state = "PENDING" THEN "pending"
     ELSE "ready"]

Life == INSTANCE UploadLife WITH stage <- stages

(* The rows go through the stages in order: nothing is shown before it was *)
(* validated, and nothing leaves once it is shown.                         *)
ImplementsLife == Life!LifeSpec

(* worker.py:31, "Anything unattached after 24h goes": whatever crashes    *)
(* and deadlocks the worker meets, an old upload is deleted, or a message  *)
(* has taken it.                                                           *)
UnattachedGoes == \A u \in Uploads : Orphan(u) ~> ~Orphan(u)

-----------------------------------------------------------------------------
(* What the source says and concurrent requests do not keep.               *)

(* Every file a message lists is there for everyone who reads the message. *)
EveryShownFileStays == \A r \in Requests : \A u \in shows[r].files : Kept(r, u)

(* messages.py:141, "not already attached elsewhere": a file that is on a  *)
(* message stays on that message.                                          *)
FilesStayPut ==
  [][\A u \in Uploads :
       row[u].message # None => row'[u].message = row[u].message]_vars

=============================================================================
