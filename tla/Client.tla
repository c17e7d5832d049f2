------------------------------- MODULE Client -------------------------------
(***************************************************************************)
(* One tab of the web client: lib/outbox.ts with the send and retry of the *)
(* chat page, beside ChatSocket and over ApiClient.  An entry of Entries   *)
(* is a composed message and its clientMsgId.  Each run of sendWithRetry   *)
(* is a loop; retry() starts its loop inside a state updater, which React  *)
(* may call twice (reactStrictMode does), so there may be two.             *)
(*                                                                         *)
(* The list of messages is not modelled, only whether a pending row is     *)
(* there and what it says.                                                 *)
(***************************************************************************)
EXTENDS ChatSocket

CONSTANTS
  Entries,
  Loops,        \* sendWithRetry runs: numbers, the least unused one is used
  Of,           \* [Loops -> Entries]
  MAX_ATTEMPTS

ASSUME ClientAssumption ==
  /\ Callers = Connects \cup Loops /\ Connects \cap Loops = {} /\ Loops \subseteq Nat
  /\ Of \in [Loops -> Entries] /\ \A e \in Entries : \E l \in Loops : Of[l] = e
  /\ MAX_ATTEMPTS \in Nat \ {0}

VARIABLES
  pending,   \* entry |-> its row: not composed, its state, or removed as SENT
  stored,    \* entries the server has stored
  loop,      \* loop |-> where it stands
  attempt

outbox == <<pending, stored, loop, attempt>>
vars == <<api, ws, outbox>>

TypeOK ==
  /\ ApiTypeOK /\ SocketTypeOK
  /\ pending \in [Entries -> {"none", "SENDING", "FAILED", "SENT"}]
  /\ stored \subseteq Entries
  /\ loop \in [Loops -> {"unused", "ready", "calling", "over"}]
  /\ attempt \in [Loops -> 0..MAX_ATTEMPTS]

Init ==
  /\ ApiInit /\ SocketInit
  /\ pending = [e \in Entries |-> "none"]
  /\ stored = {}
  /\ loop = [l \in Loops |-> "unused"]
  /\ attempt = [l \in Loops |-> 0]

Unused(e) == {l \in Loops : Of[l] = e /\ loop[l] = "unused"}
Running(e) == {l \in Loops : Of[l] = e /\ loop[l] \in {"ready", "calling"}}

Begin(L) == loop' = [l \in Loops |-> IF l \in L THEN "ready" ELSE loop[l]]

Send(e) ==
  /\ page = "mounted" /\ pending[e] = "none"
  /\ pending' = [pending EXCEPT ![e] = "SENDING"]
  /\ Begin({Least(Unused(e))})
  /\ UNCHANGED <<api, ws, stored, attempt>>

Retry(e) ==
  /\ page = "mounted" /\ pending[e] = "FAILED"
  /\ pending' = [pending EXCEPT ![e] = "SENDING"]
  /\ \E L \in SUBSET Unused(e) :
       /\ Cardinality(L) \in 1..2
       /\ \A l \in L, k \in Unused(e) \ L : l < k
       /\ Begin(L)
  /\ UNCHANGED <<api, ws, stored, attempt>>

(* One round of the loop, after its delay if it had one.                   *)
Attempt(l) ==
  /\ loop[l] = "ready"
  /\ loop' = [loop EXCEPT ![l] = "calling"]
  /\ attempt' = [attempt EXCEPT ![l] = @ + 1]
  /\ Call(l)
  /\ UNCHANGED <<ws, pending, stored>>

(* Mutant: a rejected message is taken off the screen.                     *)
UpdateDropping(e, s) ==
  pending' = IF page = "mounted" THEN [pending EXCEPT ![e] = "SENT"] ELSE pending

(* onStateChange: SENT removes the row, anything else updates it if it is  *)
(* there.  An unmounted page ignores it.                                   *)
Update(e, s) ==
  pending' = IF page = "mounted" /\ pending[e] # "SENT"
             THEN [pending EXCEPT ![e] = s] ELSE pending

EndLoop(l, s) ==
  /\ Take(l)
  /\ loop' = [loop EXCEPT ![l] = "over"]
  /\ attempt' = [attempt EXCEPT ![l] = 0]
  /\ Update(Of[l], s)
  /\ UNCHANGED <<credentials, flight, shown, awaited, carried, ws, stored>>

Succeed(l) == call[l] = "ok" /\ EndLoop(l, "SENT")

(* A rejection on the merits, or the last attempt.                         *)
GiveUp(l) ==
  /\ call[l] = "refused" \/ (call[l] = "failed" /\ attempt[l] = MAX_ATTEMPTS)
  /\ EndLoop(l, "FAILED")

(* Mutant: one attempt too many.                                           *)
BackOffOnceMore(l) ==
  /\ call[l] = "failed" /\ attempt[l] <= MAX_ATTEMPTS
  /\ Take(l)
  /\ loop' = [loop EXCEPT ![l] = "ready"]
  /\ UNCHANGED <<credentials, flight, shown, awaited, carried, ws,
                 pending, stored, attempt>>

BackOff(l) ==
  /\ call[l] = "failed" /\ attempt[l] < MAX_ATTEMPTS
  /\ Take(l)
  /\ loop' = [loop EXCEPT ![l] = "ready"]
  /\ UNCHANGED <<credentials, flight, shown, awaited, carried, ws,
                 pending, stored, attempt>>

(* send_message at the server: it stores the entry, or had stored it, and  *)
(* may fail after that; or it refuses, or fails, without storing it.       *)
AnswerSend(l) ==
  /\ \/ \E result \in {"ok", "failed"} :
          Settle(l, result) /\ stored' = stored \cup {Of[l]}
     \/ Settle(l, "refused") /\ UNCHANGED stored
     \/ Unanswered(l) /\ UNCHANGED stored
  /\ UNCHANGED <<ws, pending, loop, attempt>>

AnswerTicket(k) ==
  /\ Settle(k, "ok") \/ Unanswered(k)
  /\ UNCHANGED <<ws, outbox>>

ApiStep(c) == (Unauthorized(c) \/ RefreshEnds(c)) /\ UNCHANGED <<ws, outbox>>

LoopStep(l) == Attempt(l) \/ Succeed(l) \/ GiveUp(l) \/ BackOff(l) \/ AnswerSend(l)

(* A bound: what happens outside is not looked at once the page is left.   *)
Outside == page # "left" /\ (TokenAges \/ Revoke) /\ UNCHANGED <<ws, outbox>>

(* After the page has gone everything comes to rest.                       *)
Finished == page = "left" /\ UNCHANGED vars

Next ==
  \/ SocketStep /\ UNCHANGED outbox
  \/ \E e \in Entries : Send(e) \/ Retry(e)
  \/ \E l \in Loops : LoopStep(l)
  \/ \E k \in Connects : AnswerTicket(k)
  \/ \E c \in Callers : ApiStep(c)
  \/ Outside
  \/ Finished

(* Requests end, one way or another, and timers fire.                      *)
Fairness ==
  /\ WF_vars(\E l \in Loops : LoopStep(l) \/ ApiStep(l))
  /\ WF_vars(\E k \in Connects : ApiStep(k))

Spec == Init /\ [][Next]_vars
FairSpec == Spec /\ Fairness

-----------------------------------------------------------------------------
(* outbox.ts:8, "Nothing is ever dropped silently": while the page is      *)
(* there, a row goes only when the server has the message, and one that    *)
(* says Sending has a loop that will settle it, whatever other loops of    *)
(* the same message have reported meanwhile.                               *)
NothingDropped ==
  page = "mounted" =>
    \A e \in Entries :
      /\ pending[e] = "SENT" => e \in stored
      /\ pending[e] = "SENDING" => Running(e) # {}

(* outbox.ts:9-10: a message never says Sending for ever.  It is sent, or  *)
(* stays visible as FAILED, whatever the refreshes it waits for come to.   *)
EveryMessageSettles ==
  \A e \in Entries : pending[e] = "SENDING" ~> pending[e] # "SENDING" \/ page = "left"
=============================================================================
