# Signal-Lite: a verification project in TLA+

Signal-Lite is a chat platform: a FastAPI backend (`backend/app`) over
PostgreSQL and Redis, and a Next.js client (`frontend`). The promises it makes
that are hard to keep are about concurrency. Retried sends must not duplicate, the
event log must stay gap-free, a replay must miss nothing, and a refresh token must be
exchangeable once. This directory holds TLA+ models of the code that makes those
promises, TLC configurations that check them on small instances, and TLAPS proofs
for any number of users, requests and conversations.

Paths below are relative to `src/`; `app/` stands for `backend/app/`.

## 1. Inventory

| Component | State | Operations | Interacts with |
|---|---|---|---|
| Message write path, `app/services/messages.py`, routes in `app/api/v1/conversations.py` | `conversations.last_seq`, `messages`, `message_edits`, `conversation_events`, `attachments.message_id` and `conversation_id`, `conversation_members.last_read_seq` | send, retry, edit, delete, mark_read (reactions, search, pages) | the row lock of `next_conversation_seq`, the unique index, Redis publication |
| Sync log, `sync_events` | `conversation_events` and a client's cursor | one page after a cursor | every writer, through the commit order of its events |
| Sessions, `app/services/sessions.py`, `app/api/v1/auth.py`, `app/api/deps.py` | `user_sessions`, `user_devices`, `revoked:<id>` keys in Redis | login, rotate, detect reuse, logout, logout all, revoke device | row locks, Redis marks, the announcement to sockets |
| OTP and rate limiter, `app/services/otp.py`, `app/core/ratelimit.py` | `otp_challenges`, one sorted set per budget | request and verify a code; check a budget | SMS, sessions |
| WebSocket fan-out, `app/ws` | connections, subscriptions by channel, the replica's Redis subscription, presence and typing keys | ticket, connect, subscribe, relay, close revoked | Redis, sessions, authorization |
| Conversations and authorization, `app/services/conversations.py`, `authz.py` | `conversations`, `conversation_members`, `direct_conversation_keys`, `invite_links` | create, add member, change role, invite, redeem | every other service through `resolve_access` |
| Moderation, `app/api/v1/moderation.py` | `reports`, `blocked_users`, `users.account_state` | report, block, resolve, suspend | authorization, sessions |
| Uploads and worker, `app/api/v1/uploads.py`, `storage.py`, `worker.py` | `attachments`, objects in the bucket | grant, finalize, download, purge | sends |
| Web client, `frontend/lib`, `frontend/app/chat` | access token, pending sends, message list, socket | refresh, send with retry, reconnect, open conversation | the HTTP and socket interfaces |

What is hard here:

* **Interleaving at awaits.** Every request is a coroutine with a transaction at
  READ COMMITTED. State is read by one statement and used by a later one.
* **Locks.** The conversation row, the session row, the device row, and rows that a
  bulk UPDATE visits one after another.
* **Three orders of one event.** An event has a start time, a sequence number, an id
  and a commit time, and the sync cursor uses all but the last.
* **Two stores.** PostgreSQL and Redis are not written atomically.
* **Retries and loss.** Clients retry sends and refreshes, publications can be
  lost, and a process can die between two steps.

What makes each component correct, in one line each:

* *Write path*: the log is gap-free, in commit order, agrees with the rows; one row
  for each client key; what is published is committed.
* *Sync*: a reader gets every committed event of its conversations, in order.
* *Sessions*: a token is exchanged once, a family has one live token, a revoked
  session is refused at once, and no request hangs.
* *OTP*: a code is accepted once, within its attempts, one live code per number.
* *Fan-out*: a socket gets its channels' events while authorized and no longer.
* *Membership*: limits, roles and bans hold whatever interleaves.
* *Uploads*: a file that a message shows was validated, stays and can be fetched by the
  message's readers; an old unattached one goes.
* *Client*: no message is lost, shown twice or out of order.

## 2. Modules

| Module | What it is |
|---|---|
| `Messages` | the write path: requests, one step per statement, commit or publication |
| `ConversationLog` | abstract specification: per conversation an append-only log and the set of accepted sends |
| `MessagesLog` | the refinement mapping from `Messages` to `ConversationLog` |
| `MessagesProofs` | theorems about `Messages` |
| `MessagesLogProofs` | `Messages` implements `ConversationLog` |
| `SyncLog` | `sync_events` over writers' transactions, with time |
| `SyncLogProofs` | theorems about `SyncLog` |
| `Sessions` | sessions, rotation, revocation, locks and Redis marks |
| `SessionsProofs` | theorems about `Sessions` |
| `RateLimit` | the sliding-window budgets, one action for the Lua script |
| `Otp` | codes for one number: request, verification, login, purge; uses `RateLimit` |
| `OtpProofs` | theorems about `Otp` and the budgets it uses |
| `Authz` | `resolve_access`: the permissions of a user in a conversation, as operators |
| `Conversations` | direct chats, groups, members, roles, invites and blocks; uses `Authz` |
| `ConversationsProofs` | theorems about `Conversations` |
| `Uploads` | attachments: grant, finalize, send, purge, over rows, row locks and the bucket |
| `UploadLife` | abstract specification: the stages of an upload; `Uploads` refines it |
| `UploadsProofs` | theorems about `Uploads`, the refinement included |
| `ApiClient` | one tab's access token, its shared refresh, and `api()` calls in flight |
| `ChatSocket` | ticket, socket, reconnection and subscriptions; extends `ApiClient` |
| `Client` | outbox, send and retry of the chat page; composes the three |
| `ClientProofs` | theorems about the three layers of the client |
| `MCMessages`, `MCSyncLog`, `MCSessions`, `MCOtp`, `MCConversations`, `MCUploads`, `MCClient` | instances for TLC |

### Messages

`Requests` are HTTP requests; `pc[r]` is where one stands and `ctx[r]` what it carries
from one await to the next. A transaction's uncommitted rows are visible to nobody,
so the variables hold committed rows; the one thing visible early is the row lock
`lock[c]` that `next_conversation_seq` takes. The steps:

* **send**: `SendReplayed` or `SendNew` (the idempotency SELECT), `AcceptFiles` or
  `RefuseFiles` (the attachment SELECT), `AllocSeq` (waits for the row), then
  `CommitSend`, or `SendDuplicate` (IntegrityError and rollback) followed by
  `Reselect` (which raises, see section 4), then `Publish`.
* **edit, delete**: `LoadForEdit` or `LoadForDelete` (the route's load and the
  permission check on that copy), `AllocSeq`, `CommitEdit` or `CommitDelete`, `Publish`.
  The ORM's UPDATE names only the columns that differ from the loaded row (`Written`).
* **mark_read**: `ReadConversation`, `ReadMembership`, `MarkRead`.
* **failures**: `Fail` at any step before the commit rolls back; `LosePublication`
  after it leaves the row without a publication.

A row is named by the request that inserted it. A message may have no text: only one of
kind TEXT needs a body (`_validate_body`), so a photo can be sent without a caption and
be given one by an edit. `Payloads` are the pairs of a text and files that a send may
carry; the proofs hold for any. Authorization enters as the constants
`Users` (members who may send) and `Moderators`.

`ConversationLog` says what the outside may rely on: each conversation's log only
grows, one entry at a time, and an accepted key names one entry. `MessagesLog` maps the
detailed state to it; the run `messages` checks the refinement and `MessagesLogProofs`
proves it.

### SyncLog

A writer is `Begin` (the transaction's `now()`, which becomes `created_at`), `AllocSeq`
(row lock and number), `Insert` (the BIGSERIAL id), `Commit` or `Abort`. The reader is
`BeginSync` (its own `now()`) and `ReadPage` (the query, and the new cursor). `Tick`
advances an integer clock. `Mine` are the reader's conversations. The variable `ended`
is a history variable that only a property reads.

### Sessions

`Sessions` are rows and their refresh tokens; `Families` are families and, because
`verify_otp` makes a new device for every login, also device rows. `lock` is the lock
table. `Present` starts a rotation with any token that was ever handed out.
`Accept`, `DetectReuse` and `Reject` are the three outcomes of the locked SELECT;
`UpdateDevice`, `CommitRotation` and `Issue` are the rest. A revocation is
`BeginUpdate` (the rows the UPDATE's snapshot holds) and one `Visit` per row, which
waits for the row and looks at its newest version; then one `Mark` per row in Redis,
`Announce` and `CommitRevocation`, in the order each route has them. `Fail` is any
error, the `statement_timeout` of `app/db/session.py` included: the transaction rolls back
and Redis keeps what it was told. `BreakDeadlock` is PostgreSQL's detector.

### Otp and RateLimit

`Otp` is the life of one phone number. A challenge row is named by the request that
inserted it. `RequestCode` and `SubmitCode` arrive with the clock they read;
`Enforce` is the budget's script. A request for a code then supersedes the live rows
(`BeginSupersede` is the UPDATE's snapshot, `Supersede` one row of it, with its lock),
commits (`CommitChallenge`) and sends the SMS. A verification is `Select`
(`SELECT ... FOR UPDATE` and the decision `VerdictOn`) and `CommitVerdict`, then, if the
code was accepted, `FindAccount` and `Login`, a transaction of their own. `Purge` is the
worker's deletion and `Tick` the clock. The variable `judged` is a history variable of
the verifications that committed. `RateLimit` is instantiated by `Otp`: `bucket` is the
sorted set, whose members are the milliseconds the callers read, `expiry` the key's
time to live.

### Conversations and Authz

`Authz` is the permission table and `resolve_access` as set operators: what a role
grants, less what the conversation's policies, a restraint, an archive or a block take
away, plus what the platform role adds. `Conversations` calls it (`Allowed`) at the step
where a route calls `require_permission`; what follows uses the answer, however old.

A conversation or invite is named by the request that inserted it; `Founded` is a group
with an owner and an invite that exist from the start, so that no request is spent on
making them. A membership row is its role, because no code writes any other
column to something other than its default: nothing bans, mutes or removes a member,
archives a conversation or revokes an invite. The steps are the statements of
`get_or_create_direct` (`CheckBlocks`, `LookUpDirect`, `CommitDirect` or
`DirectDuplicate` and `TakeWinner`), `create_group` (one `ConsiderInvitee` per invitee,
in any order, then `CommitGroup`), `create_invite`, `redeem_invite` (`PresentInvite`
locks the invite's row; `ReadMembership`; `Join` or `JoinConflict`), `add_member`,
`change_role`, `block_user` and `unblock_user`. `add_member` and `change_role` have no
route yet; they are modelled as services that run beside the others, which is how
their guards have to hold.

### Uploads

`row` is the attachments table, `object` the bucket, `lock` the row locks, `age` how
long ago the row was made (URL valid, URL expired, over 24 hours). A finalize is
`LoadForFinalize`, `Probe` and `AcceptUpload`, or `FinalizeReady`. Of a send only the
attachments are here: `SelectFiles`, one `WriteFile` per file in the order of the keys,
`CommitSend`; what else it does is in `Messages`, whose `AcceptFiles` and `RefuseFiles`
are the outcome of `SelectFiles`. Requests are numbered by their arrival.

A row names a conversation: `RequestUpload` writes that of the grant, and the commit of a
send that of its message (`Attached`, `messages.py:175-176`). The ORM's UPDATE names
`conversation_id` only where it differs from what the SELECT loaded (`moved`), so a send
to the conversation it loaded does not undo another send's move. Neighbours in the order
of the keys that set the same columns go out as one executemany (`Together`), for which
asyncpg reports no row count: a row that has gone is noticed (SQLAlchemy's
StaleDataError) only if its UPDATE is sent alone (`Alone`). `CanFetch` is what
`download_url` grants: the row is READY, and the user may read the row's conversation, or
is the owner if there is none; and the object exists. Who may read a conversation is fixed
(`Readers`), and `Targets` are the conversations an upload may be granted for: any to
which the owner may send.

The worker's DELETE is `BeginPurge` (its
snapshot), a `Visit` per row, which waits for the row and looks at its newest version,
and `CommitPurge`; it may crash (`CrashPurge`) or be the victim of a deadlock with a
send (`BreakDeadlock`). `Put` is the client's upload and S3, and row locks are
PostgreSQL's: these are external.

`UploadLife` has five stages and four moves: none, pending, ready, shown, and removed
from pending or ready only. The mapping is `Life` in `Uploads`.

### ApiClient, ChatSocket and Client

One tab, in three layers that share the calls of `api()`. `ApiClient`: `Call` runs up to
the first await (an early refresh or the request), `Unauthorized` is the 401 that
refreshes once, `Refresh` joins the refresh in flight or starts it, and `EndRefresh`
resumes everyone who awaits it, each with the token then in memory. The server is
there as what it does to the family: an exchange that arrives, one whose answer is
lost, a refusal that burns the family. `ChatSocket`: `Connect` takes a ticket, `OpenSocket`
makes the browser socket, `OnClose` and `TicketFails` go through `ScheduleReconnect`.
Close is two steps, as in a browser: the socket is closing, and its close event comes
later. `Client`: each run of `sendWithRetry` is a loop; `Retry` may start two, because it
starts them inside a state updater, which React calls twice in strict mode. The page is
mounted once and left once; strict mode's second mount has a ChatSocket of its own.
The server that `ChatSocket` talks to is an environment that may accept, close and
announce a revocation; what the code's own server does is in section 4. The module has
no `unsubscribe`, which the page never calls, and no typing notices, which keep no state
in the client.

## 3. Runs

| Run | Instance | Shows |
|---|---|---|
| `messages` | 3 requests, 2 users, 2 bodies, 1 attachment, 1 conversation and key, fairness | `GapFreeLog`, `OneRowPerKey`, `RetriesAgree`, `PublishedIsCommitted`, `LogMatchesRows`, `DeletedTextIsLateEdit`, `ReadMarkBounded`, the refinement `ImplementsLog`, and `RequestsAnswered` |
| `retry_loser` | as `messages` | **violated**: the loser of two retries is not answered with the winner |
| `deleted_body` | as `messages` | **violated**: a deleted message can get a body back |
| `sync` | 3 writers, 3 conversations (2 of them the reader's), lag 1, page of 2 | `IdsFollowSeqs`, `SkipsExplained`, `ReplayMovesOn` |
| `sync_skip` | 2 writers, 1 conversation, lag 2, transactions of at most 1 | **violated**: the cursor passes an event that was never delivered |
| `sessions` | 2 requests, 4 sessions, 2 families, fairness | `SingleUse`, `OneLiveToken`, `RevokedIsMarked`, and `RequestsAnswered` although requests lock in opposite orders |
| `family_burn` | 3 requests, 3 sessions, 1 family | **violated**: a family survives its own reuse detection |
| `otp` | 3 requests, 1 attempt, 2 calls per window of 3, time to 4 | `SingleUse`, `GuessesBounded`, `SupersededIsDead`, `BudgetKept`, `RefusalJustified` |
| `conversations` | 3 requests, 3 users, a founded group, channels, limit 2, invites of 1, 2 or unlimited uses | `DirectChatsConverge`, `InviteUsesExact`, `OneOwner`, `RolesAreTheOwners` |
| `uploads` | 2 uploads, 3 requests, 2 conversations with one other reader each, an accepted and another content, 1 crash, fairness | `ShownFilesStay`, the refinement `ImplementsLife`, `UnattachedGoes` |
| `double_attach` | as `uploads` | **violated**: a second send takes the file of the first |
| `client` | 1 message, 3 loops of at most 2 attempts, 2 tickets, 2 sockets, 1 conversation, 1 exchange, fairness | `OwnRefreshesSpare`, `SocketDiscipline`, `NothingDropped`, `EveryMessageSettles` |

Why the bounds are enough. *Messages*: the races are between two writers of one
conversation, with a third that has committed before them or that reads; conversations share no state but attachments. Both kinds of deleter (sender
and moderator) exist. `MaxUpTo` exceeds the log in some states and not in others. A send is a text or
a photo without a caption (`Payloads`): the least that has a send with and one
without text, with and without a file. The second body tells an edit's text from
the one that was sent, and a send, an edit and a deletion are enough for both ways that
`DeletedTextIsLateEdit` names.
*SyncLog*: a skip needs one writer that is passed and one that passes it; the third
shows that a page limit and a foreign conversation do not add reasons. `MaxOpen` and
`MaxTime` let a transaction be shorter or longer than the lag. *Sessions*: a
rotation needs two sessions, its successor's rotation a third, a second family a
fourth. There is one session more than liveness needs, so that no request waits for a
name. `family_burn` has the third request that detects the reuse while two race.
*Otp*: two calls reach the limit and the third is refused; the window of 3 slides
within the 4 units of time; one attempt makes the second guess the exhausted one;
the retention of 0 lets the purge run beside verifications. *Conversations*: each
property is about two racing requests (two people opening one chat, two redemptions,
a redemption and a promotion) and a third that prepares or disturbs them. The owner,
two others and both kinds of offered role are the least that tell apart who may change
whom. *Uploads*: two files are what a deadlock and a flush of several need; three
requests are a finalize of each and a send, or a finalize and two sends. Each conversation
has a reader whom the other does not have, so that a file in the wrong one shows.
`MCTargets` grants the first upload for one conversation only: the two differ in nothing
but their names, and swapping these gives the rest. *Client*: the
server can exchange the cookie once, so that a second exchange is of a spent token; two
tickets and sockets exist so that `OneConnection` can fail; the first loop and the two
that one retry starts are the three loops, and two attempts have a first and a last. The token ages
only while an exchange can follow, and nothing outside happens after the page is left;
both bounds are named at their actions. Symmetry is used
only where no temporal formula with fairness is checked, over sets the
specification does not tell apart.

Fairness is weak fairness of `Proceed(r)`, a request's own next step. The event
loop runs a ready coroutine, PostgreSQL's lock queue serves waiters, and its
deadlock detector runs. Nothing is assumed about arrivals, failures or lost publications.
`Uploads` adds the worker's loop (weak fairness of `Purge`), and strong fairness of a
send's `WriteFile`: a waiter for a row is first in PostgreSQL's queue for it, so the
purge cannot take the row again and again before it, with the worker the deadlock's
victim each time. In `Client` the loops and their calls go on, and so do the calls for
tickets: fetches end or fail, timers fire. Nothing is assumed of the server's answers.

## 4. What disagrees with the text

* `deleted_body`: `edit_message` checks the row it loaded, and its UPDATE does not
  look at `deleted_at`. A deletion in between is followed by the edit's text in the
  deleted row (`app/services/messages.py:218` against :243 and `docs/security.md:40`).
  The other order fails too if the message was sent without a text: a deletion that
  loaded no body does not write the column, so the caption of an edit that committed
  first stays. `DeletedTextIsLateEdit` says that there are no further ways: a text in a deleted row
  is that of an edit in the log, and a deletion came before that edit or the message was
  sent without text.
* `retry_loser`: after the duplicate key, `send_message` rolls back and then reads
  `conversation.id`. The rollback has expired the object, and its reload outside the
  greenlet raises MissingGreenlet, so the winner is never looked up
  (`messages.py:164-167` against :162). The row stays unique; the client is answered
  500 and finds the winner only if it tries again.
* `sync_skip`: the one-second guard compares start times, the cursor compares
  ids. Of two transactions the one that started first may insert second; then the
  guard hides the lower id and shows the higher (`messages.py:359-374`). `SkipsExplained`
  is what the guard does achieve: an event is passed only if its own
  transaction outlived the lag or if it was overtaken in this way.
* `family_burn`: `revoke_family` is one UPDATE at READ COMMITTED. It waits for a
  rotation's row, re-reads that row and never sees the successor the rotation
  inserted (`app/services/sessions.py:172` against :9-11).
* `double_attach`: the SELECT of a send's files takes no lock, and the UPDATE that
  attaches them names the row only. Of two sends with one file both succeed, and the
  file moves to the second message (`messages.py:138-144` and :174-176 against :141). If
  the messages are in two conversations, the file can be fetched in one of them only,
  and `download_url` answers the other's readers with 404 (`app/api/v1/uploads.py:142`).
  Which one depends on the columns of the UPDATEs: a send to the
  conversation of the grant does not write it, so the row may name the second message and
  the first one's conversation. `ShownFilesStay` says that there are no further
  ways to lose a file that is listed, but for one of several that was purged
  before the flush.

Five more statements are written down and fail when checked: in `Messages`,
`EditTrailComplete` (two concurrent edits record the same previous body) and
`ReadMarkOnlyRises` (two concurrent `mark_read` calls can move the mark back); in `Otp`,
`OneLiveCode` (two concurrent requests supersede what they see and then both insert) and
`EveryCallCounts` (calls of one millisecond are one member of the sorted set); in
`Uploads`, `EveryShownFileStays` (`ShownFilesStay` without its two exceptions: of several
files of one send, one that is purged between the SELECT and the flush is listed all the
same, and of two conversations that list one file only one can fetch it).

More were met while reading. They do not depend on any interleaving, or are not about
anything the modules claim:

* `Connection` (`app/ws/manager.py:31`) is a dataclass with `eq` and without `frozen`, so
  it is unhashable, and `register` (`:127`) puts it in a set: every accepted socket
  ends in a TypeError before it is registered.
* The signature of webm in `app/services/storage.py:43` is `(b"...")`, bytes and not a
  tuple; iterating it gives integers, so `probe_object` (`:153-154`) raises for any
  content that no earlier signature matches, and `finalize` never reaches
  its rejection (`app/api/v1/uploads.py:100-105`). `Probe` has this; it is why REJECTED
  is no state of `Uploads`, and why the object of such a file stays.
* The worker deletes rows and only logs the keys of their objects (`app/worker.py:36-40`,
  whose comment defers the deletion): a purged upload's object stays in the bucket.
* The upload URL stays valid after `finalize`: the object can be replaced by content of
  the same size that the probe never saw (`app/core/config.py:41`).
* `ChatSocket.close()` does not stop a `connect()` that awaits its ticket: a socket opens,
  or a timer is armed, after it (`frontend/lib/ws.ts:50-59`). `SocketDiscipline` still
  holds, as there is only that one.
* A manual retry that succeeds removes the pending row and does not add the confirmed
  message to the list, as `send` does (`frontend/app/chat/page.tsx:173-179` against
  :150-158). The message is stored; it reappears when the page is loaded again.
* `requires_approval` is stored with an invite (`app/services/conversations.py:208-210`);
  `redeem_invite` does not read it.

## 5. Proofs

`MessagesProofs` proves, for any values of the constants that satisfy
`ModelAssumption` and `NullAssumption`, every safety invariant of the run `messages`.
The argument has four layers, each inductive relative to the ones before it:

1. **Control.** Types, and for each value of `pc[r]` what `ctx[r]` must contain.
   `TypeOK` alone is not inductive, since a step reads fields of `ctx[r]` that are
   there only if the request has arrived.
2. **Locking.** The row lock of `c` is held by `r` exactly while `r` is a writer
   between allocation and commit; the number it was given is then `lastSeq[c] + 1`.
   This gives `GapFreeLog` (`LogIsGapFree`).
3. **Agreement.** Rows, log, publications, read marks, contexts and answers agree. A
   writer of an edit or a deletion has loaded a row that still exists; a request that
   is about to publish finds its event in the log. This gives `OneRowPerKey`,
   `RetriesAgree`, `PublishedIsCommitted`, `LogMatchesRows` and `ReadMarkBounded`.
4. **Texts.** What a row's text says of its log. A row that is not deleted has the text of
   its send entry or of an edit in the log. `TextIn` and `SeenOf` add what a pending request
   has seen: a deletion that loaded no text loaded a row that was deleted, or whose
   message was sent without. Without that, the deletion's UPDATE, which leaves
   the text column out when it was empty, could not be shown to leave only a text that an
   edit explains. This gives `DeletedTextIsLateEdit`.

Each layer has one lemma per action and a temporal theorem that combines them.
Actions that commit nothing share one lemma (`Soft`).

`MessagesLogProofs` proves `ImplementsLog`. The mapped log names every entry by the row's
sender and key, so the proof needs of the first three layers that a row keeps its identity,
that its "send" entry came first, and that what is published or answered is in the log.
Then a commit of a send or of a change is `ConversationLog`'s step that extends
one log by one entry, a publication or answer is its step that informs, and the
rest are stutters.

`SyncLogProofs` proves the safety of `SyncLog` for any writers, conversations, lag and page.
`IdsFollowSeqs` is not inductive: one must know that a writer with a number and without an id
still holds the row, with a number above all that were given (`LockInv`), and that new ids are above
old ones (`OrderInv`). `ReaderInv` says that the cursor has passed no id that is still to
come. `SkipsExplained` is then inductive, with the case of a page that is cut off at
its limit: the cursor stops at the last event delivered, and an event with a lower id that
was not delivered was either uncommitted or hidden by the guard. If its transaction started later
than the delivered one's it was overtaken; if not, it started more than the lag before the
page's own transaction and was still open then, or was committed and in the page.
`ReplayMovesOn` follows from the same invariant.

`SessionsProofs` proves the safety of `Sessions` for any sessions, families and requests.
`ControlOf` says what a request may rely on after an await: a rotation holds the row it
spends, live, from its SELECT to its commit, and a revocation holds every row it is going to revoke,
and has marked it in Redis, or will before it commits. `Tables` are the three
invariants with what they need: a row's predecessor is spent (so a second successor would
need a live row that is spent), handed-out tokens have rows, and finitely many rows exist,
so that the rows `revoke_device` goes through can be counted without assuming that
`Sessions` is finite. `OneLiveToken`
holds although `FamilyIsDead` fails: the successor that escapes a revocation is still
the only one.

`OtpProofs` proves the safety of `Otp` for any requests, limits and times. A verification holds the
row from its SELECT to its commit, so the attempts that it read are still the row's when it
adds one (`VerdictOf`); the superseding UPDATE holds the live rows it has visited until its
challenge is stored (`SupersedeOf`). `GuessesBounded` needs `Counted`, attempts bound the
judged guesses while the row exists, and that a purged row is judged no more. `BudgetKept` and
`RefusalJustified` need what a bucket remembers (`BucketOf`): every stamp granted that is still within
the window, no stamp that was not granted, and a key that does not expire before its last
call's window has passed.

`ClientProofs` proves the safety of the three layers for any calls, sockets, entries and loops.
`RefreshInv`: the refresh in flight is that of one call, which presents the tab's cookie, and that is the
server's session until an answer is lost. `ConnectionInv`: a ticket under way, a socket and an
armed timer exclude one another, which is why a reconnection never makes a second
connection. `SubscriptionInv`: an open socket was told everything that is subscribed, and a revocation
leaves nothing that reconnects. `OutboxInv`: a loop is in a call exactly
while it is calling, and a call that succeeded stored its entry. Of the constants
the proof uses that there is a socket and that every entry has a loop (`SocketAssumption`,
`ClientAssumption`): instances without them have no behaviour of the page to speak of.

`ConversationsProofs` proves every property of the run `conversations`, the action
property included, for any users, finite set of requests and limits. Two invariants:

1. `Inv`. *Control*: what `ctx[r]` says at each `pc[r]`, in particular that an
   invite, an addition and a role change are about a conversation that is not a direct
   chat (`OnlyShared`, from the permission table: the people of a direct chat are plain
   members) and that a role change was asked for by the owner. *Tables*: the members of a
   direct chat are its pair, a pair names one conversation, a group has the owner who
   made it. Neither part is inductive alone: the owner stays unique because
   `rerole` knows its target is not the owner, and it knows that because the owner was
   unique when the target was read.
2. `Redeeming`. The row lock of an invite is held by the request between its SELECT
   and its commit, so the comparison with `max` is still true when `uses` rises.

That `Requests` is finite is needed for the cardinality only.

`UploadsProofs` proves the safety of the run `uploads` for any uploads, requests, contents,
conversations and readers that satisfy `UploadsAssumption`. `ShownFilesStay` is not
inductive: a commit makes files shown on the word of a SELECT that took no lock. `Inv` adds
what holds in between.

1. `RequestInv`. A file that a send has written is locked by it and READY until it commits,
   or it had been purged and the send has several files. A type that a finalize carries came
   from an object, which is never deleted. A file that a send will not move still has the
   conversation it loaded, or that of a message which lists the file.
2. `RowInv`. A READY row has a recognised type and an object; only a READY row has a
   message; and what the worker has deleted it holds locked, unattached. The conversation of
   a row on a message is that of some message which lists the file, though not always of the
   message the row names.
3. `MessageInv`. A file that a message lists is on a message, or is `Lost`.

So the commit of a send and the commit of the purge never concern the same row, and
`ListedIsKept` reads `ShownFilesStay` off `Inv`: the message in the row's own conversation
has the file, and any other that lists it has lost it to that one. `RowsLive` is the
refinement: from `Inv`, every step moves some rows on by one stage of `UploadLife`, or none.

The assumptions on constants say that `None` is no key, row or context, that numbers are
naturals and limits sensible; each is named in the module that declares the constant and
evaluated by the runs that extend it.

Model-checked only: liveness (`RequestsAnswered` twice, `UnattachedGoes`,
`EveryMessageSettles`), which is outside the prover's reach together with `ENABLED`. Every
safety property, action property and refinement of a passing run is a theorem. The
violated properties are shown by TLC's counterexamples.

## 6. Not modelled

Reply targets, mentions and kinds of messages (payload of a send), search, pagination,
typing and presence; token formats, hashing and cookies; the SMS provider; database roles
and grants; the login page and presentation components; start-up and deployment. The
components marked `not_modelled` in `PROJECT.json` carry their reason. Of modelled
components:

* WebSocket fan-out: `register` raises for every socket (section 4), so a faithful module
  has nothing to check, and one of the intended protocol would not be of this code.
* The page's message list, its paging and the switching of conversations: no text of the
  repository says what the list must show, and the races listed under the hazards are
  of a list without a specification.
* Two tabs of one browser: `Sessions` has the server's side (a spent token is presented
  again), `ApiClient` has one tab.
* Suspension: the account state is refused wherever a session is used; the revocation that
  follows it is the logout of all sessions in `Sessions`.

## 7. Plan

Every component that section 2 lists has its theorems. What would say more:

1. For the other statements that fail (section 4), what does hold in their place, as
   `DeletedTextIsLateEdit` and `SkipsExplained` do: which edits an incomplete trail can lose, how
   far a read mark can fall, which token survives a family's revocation.
2. Consequences of `ConversationLog` that a client relies on, proved once at the
   abstract level and carried over by the refinement.
