----------------------------- MODULE ChatSocket -----------------------------
(***************************************************************************)
(* frontend/lib/ws.ts, as the chat page uses it.  connect() is a call of   *)
(* api() for a ticket and then a browser socket; there are two of each     *)
(* here, so that the class has to see to it that only one is in use.       *)
(* Backoff delays are data: an armed timer may fire at any time.           *)
(***************************************************************************)
EXTENDS ApiClient

CONSTANTS
  Connects,        \* calls for a ticket: numbers, the least idle one is used
  Sockets,         \* likewise
  Conversations

ASSUME SocketAssumption ==
  /\ Connects \subseteq Callers /\ Connects \subseteq Nat
  /\ Sockets \subseteq Nat /\ Sockets # {}

VARIABLES
  page,         \* whether the chat page is mounted
  timer,        \* reconnectTimer; "cleared": close() stops it and keeps the handle
  closedByUs,
  socket,       \* this.socket
  state,        \* socket |-> readyState; "unused" once its close event is over
  subscribed,
  told,         \* socket |-> what the server was told to subscribe it to
  revoked       \* history: session.revoked has been received

ws == <<page, timer, closedByUs, socket, state, subscribed, told, revoked>>

SocketTypeOK ==
  /\ page \in {"loading", "mounted", "left"}
  /\ timer \in {"none", "armed", "cleared"}
  /\ closedByUs \in BOOLEAN /\ revoked \in BOOLEAN
  /\ socket \in Sockets \cup {None}
  /\ state \in [Sockets -> {"unused", "connecting", "open", "closing"}]
  /\ subscribed \subseteq Conversations
  /\ told \in [Sockets -> SUBSET Conversations]

SocketInit ==
  /\ page = "loading" /\ timer = "none" /\ socket = None
  /\ closedByUs = FALSE /\ revoked = FALSE
  /\ state = [s \in Sockets |-> "unused"]
  /\ subscribed = {}
  /\ told = [s \in Sockets |-> {}]

Least(S) == CHOOSE x \in S : \A y \in S : x <= y
Ticketing == {k \in Connects : call[k] # "idle"}
LiveSockets == {s \in Sockets : state[s] # "unused"}

(* connect() up to its first await.                                        *)
Connect ==
  /\ Connects \ Ticketing # {}
  /\ closedByUs' = FALSE
  /\ Call(Least(Connects \ Ticketing))

Mount ==
  /\ page = "loading"
  /\ page' = "mounted"
  /\ Connect
  /\ UNCHANGED <<timer, socket, state, subscribed, told, revoked>>

Fire ==
  /\ timer = "armed"
  /\ timer' = "none"
  /\ Connect
  /\ UNCHANGED <<page, socket, state, subscribed, told, revoked>>

(* With a handle in the field nothing is armed.                            *)
ScheduleReconnect == timer' = IF timer = "none" THEN "armed" ELSE timer

TicketFails(k) ==
  /\ call[k] \in {"refused", "failed"}
  /\ Take(k)
  /\ ScheduleReconnect
  /\ UNCHANGED <<credentials, flight, shown, awaited, carried,
                 page, closedByUs, socket, state, subscribed, told, revoked>>

(* new WebSocket: nobody asks whether close() was called meanwhile.        *)
OpenSocket(k) ==
  /\ call[k] = "ok"
  /\ Take(k)
  /\ LET s == Least(Sockets \ LiveSockets) IN
       /\ socket' = s
       /\ state' = [state EXCEPT ![s] = "connecting"]
       /\ told' = [told EXCEPT ![s] = {}]
  /\ UNCHANGED <<credentials, flight, shown, awaited, carried,
                 page, timer, closedByUs, subscribed, revoked>>

(* sendRaw writes to this.socket, if that is open.                         *)
Tell(ids, st) ==
  told' = [s \in Sockets |->
             IF s = socket /\ st[s] = "open" THEN told[s] \cup ids ELSE told[s]]

OnOpen(s) ==
  /\ state[s] = "connecting"
  /\ state' = [state EXCEPT ![s] = "open"]
  /\ Tell(subscribed, state')
  /\ UNCHANGED <<api, page, timer, closedByUs, socket, subscribed, revoked>>

(* Mutant: reconnection is left on.                                        *)
OnRevokedIgnored(s) ==
  /\ state[s] = "open" /\ family # "live"
  /\ revoked' = TRUE
  /\ UNCHANGED <<api, closedByUs, page, timer, socket, state, subscribed, told>>

(* session.revoked: the server announces it, and then closes the socket.   *)
OnRevoked(s) ==
  /\ state[s] = "open" /\ family # "live"
  /\ closedByUs' = TRUE
  /\ revoked' = TRUE
  /\ UNCHANGED <<api, page, timer, socket, state, subscribed, told>>

(* An error, or the other side closes: the close event comes later.        *)
Break(s) ==
  /\ state[s] \in {"connecting", "open"}
  /\ state' = [state EXCEPT ![s] = "closing"]
  /\ UNCHANGED <<api, page, timer, closedByUs, socket, subscribed, told, revoked>>

OnClose(s) ==
  /\ state[s] = "closing"
  /\ state' = [state EXCEPT ![s] = "unused"]
  /\ socket' = None
  /\ IF closedByUs THEN UNCHANGED timer ELSE ScheduleReconnect
  /\ UNCHANGED <<api, page, closedByUs, subscribed, told, revoked>>

Subscribe(id) ==
  /\ page = "mounted"
  /\ subscribed' = subscribed \cup {id}
  /\ Tell({id}, state)
  /\ UNCHANGED <<api, page, timer, closedByUs, socket, state, revoked>>

(* The page unmounts: close().                                             *)
Leave ==
  /\ page = "mounted"
  /\ page' = "left"
  /\ closedByUs' = TRUE
  /\ timer' = IF timer = "armed" THEN "cleared" ELSE timer
  /\ state' = [s \in Sockets |-> IF s = socket THEN "closing" ELSE state[s]]
  /\ UNCHANGED <<api, socket, subscribed, told, revoked>>

SocketStep ==
  \/ Mount \/ Fire \/ Leave
  \/ \E k \in Connects : TicketFails(k) \/ OpenSocket(k)
  \/ \E s \in Sockets : OnOpen(s) \/ OnRevoked(s) \/ Break(s) \/ OnClose(s)
  \/ \E id \in Conversations : Subscribe(id)

-----------------------------------------------------------------------------
Activities ==
  Cardinality(Ticketing) + Cardinality(LiveSockets) + IF timer = "armed" THEN 1 ELSE 0

(* There is never more than one attempt to be connected, be it a ticket, a *)
(* socket or a timer, and none is missing while the page wants one.        *)
OneConnection ==
  /\ Activities <= 1
  /\ page = "mounted" /\ ~closedByUs => Activities = 1

(* ws.ts:83, "Reconnecting would be wrong": once the server has said that  *)
(* the session is revoked, nothing is left that could reconnect.           *)
RevokedStaysOff == revoked => Ticketing = {} /\ timer # "armed"

(* A connection that is open is subscribed to every conversation that was  *)
(* asked for, before it opened or since, on this socket or an earlier one. *)
Resubscribed == socket # None /\ state[socket] = "open" => told[socket] = subscribed

SocketDiscipline == OneConnection /\ RevokedStaysOff /\ Resubscribed
=============================================================================
