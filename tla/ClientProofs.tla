---------------------------- MODULE ClientProofs ----------------------------
(***************************************************************************)
(* The safety of Client, proved for any calls, sockets, entries and loops. *)
(* At most one refresh is in flight and it presents the cookie of the tab  *)
(* (RefreshInv); a ticket, a socket and an armed timer exclude each other  *)
(* (ConnectionInv); a loop has a call exactly while it is calling, and     *)
(* "ok" says that its entry is stored (OutboxInv).                         *)
(***************************************************************************)
EXTENDS Client, FiniteSetTheorems, WellFoundedInduction, TLAPS

(* The refresh in flight is that of one call, which presents the cookie;   *)
(* who waits for a refresh has nothing else under way.                     *)
RefreshInv ==
  /\ \A c \in Callers :
       /\ shown[c] # None <=> flight = c
       /\ shown[c] # None => shown[c] = cookie
       /\ awaited[c] # None => call[c] \in Waiting
  /\ ~lost => cookie = session
  /\ OwnRefreshesSpare

ConnectionInv ==
  /\ \A k, m \in Ticketing : k = m
  /\ Ticketing # {} => socket = None /\ timer # "armed"
  /\ socket # None => timer # "armed"
  /\ \A s \in Sockets : state[s] # "unused" <=> socket = s
  /\ page = "mounted" /\ ~closedByUs => Ticketing # {} \/ socket # None \/ timer = "armed"
  /\ timer = "cleared" => page = "left"
  /\ page = "loading" => Ticketing = {} /\ socket = None /\ timer = "none"

(* What the server has been told, and what it has told.                    *)
SubscriptionInv ==
  /\ \A s \in Sockets :
       /\ state[s] = "connecting" => told[s] = {}
       /\ state[s] = "open" => told[s] = subscribed
  /\ revoked => closedByUs /\ page # "loading" /\ Ticketing = {} /\ timer # "armed"

OutboxInv ==
  /\ \A l \in Loops :
       /\ loop[l] = "calling" <=> call[l] # "idle"
       /\ call[l] = "ok" => Of[l] \in stored
       /\ loop[l] = "unused" => attempt[l] = 0
       /\ loop[l] = "ready" => attempt[l] < MAX_ATTEMPTS
       /\ pending[Of[l]] = "none" => loop[l] = "unused"
  /\ page = "loading" => \A e \in Entries : pending[e] = "none"
  /\ NothingDropped

Inv == TypeOK /\ RefreshInv /\ ConnectionInv /\ SubscriptionInv /\ OutboxInv

ApiInv == ApiTypeOK /\ RefreshInv

-----------------------------------------------------------------------------
(* api(), call by call                                                     *)

(* NULL is no call, no number and no socket.                               *)
LEMMA Distinct ==
  /\ None \notin Callers /\ None \notin Nat /\ None \notin 1..MaxSession
  /\ None \notin Sockets /\ MaxSession \in Nat /\ 1 \in 1..MaxSession
<1>1. None \notin Callers /\ None \notin Nat /\ MaxSession \in Nat /\ MaxSession # 0
  BY ApiAssumption DEF ApiAssumption
<1>2. Sockets \subseteq Nat
  BY SocketAssumption DEF SocketAssumption
<1>3. 1..MaxSession \subseteq Nat /\ 1 \in 1..MaxSession
  BY <1>1
<1> QED BY <1>1, <1>2, <1>3

(* A caller that wants a refresh waits for the one there is.               *)
LEMMA RefreshStep ==
  ASSUME ApiInv, NEW c \in Callers, Refresh(c)
  PROVE  /\ flight' \in Callers
         /\ shown' \in [Callers -> 1..MaxSession \cup {None}]
         /\ awaited' \in [Callers -> Callers \cup {None}]
         /\ \A d \in Callers :
              /\ shown'[d] # None <=> flight' = d
              /\ shown'[d] # None => shown'[d] = cookie
              /\ d # c => awaited'[d] = awaited[d]
<1> USE Distinct DEF ApiInv, ApiTypeOK, RefreshInv
<1>1. CASE flight # None
  BY <1>1 DEF Refresh
<1>2. CASE flight = None
  BY <1>2 DEF Refresh
<1> QED BY <1>1, <1>2

(* A call starts with a refresh or its request.                            *)
LEMMA CallStep ==
  ASSUME ApiInv, NEW c \in Callers, Call(c)
  PROVE  /\ ApiInv' /\ call[c] = "idle" /\ call'[c] \in {"early", "sent"}
         /\ \A d \in Callers \ {c} : call'[d] = call[d]
<1> USE Distinct
<1>1. call[c] = "idle" /\ UNCHANGED credentials
  BY DEF Call
<1>2. CASE token # None /\ near
  <2>1. call' = [call EXCEPT ![c] = "early"] /\ Refresh(c) /\ UNCHANGED carried
    BY <1>2 DEF Call
  <2>2. /\ call' \in [Callers -> {"idle"} \cup Waiting \cup Sent \cup Result]
        /\ call'[c] = "early" /\ \A d \in Callers \ {c} : call'[d] = call[d]
    BY <2>1 DEF ApiInv, ApiTypeOK, Waiting
  <2> QED BY <1>1, <2>1, <2>2, RefreshStep
          DEF ApiInv, ApiTypeOK, RefreshInv, OwnRefreshesSpare, credentials, Waiting
<1>3. CASE ~(token # None /\ near)
  <2>1. /\ call' = [call EXCEPT ![c] = "sent"] /\ carried' = [carried EXCEPT ![c] = token]
        /\ UNCHANGED <<flight, shown, awaited>>
    BY <1>3 DEF Call
  <2>2. /\ call' \in [Callers -> {"idle"} \cup Waiting \cup Sent \cup Result]
        /\ carried' \in [Callers -> 1..MaxSession \cup {None}]
        /\ call'[c] = "sent" /\ \A d \in Callers \ {c} : call'[d] = call[d]
    BY <2>1 DEF ApiInv, ApiTypeOK, Sent
  <2> QED BY <1>1, <2>1, <2>2
          DEF ApiInv, ApiTypeOK, RefreshInv, OwnRefreshesSpare, credentials, Waiting
<1> QED BY <1>2, <1>3

(* The owner of a settled call takes its result.                           *)
LEMMA TakeStep ==
  ASSUME ApiInv, NEW c \in Callers, call[c] \in Result, Take(c),
         UNCHANGED <<credentials, flight, shown, awaited, carried>>
  PROVE  /\ ApiInv' /\ call'[c] = "idle"
         /\ \A d \in Callers \ {c} : call'[d] = call[d]
<1>1. /\ call' \in [Callers -> {"idle"} \cup Waiting \cup Sent \cup Result]
      /\ call'[c] = "idle" /\ \A d \in Callers \ {c} : call'[d] = call[d]
  BY DEF Take, ApiInv, ApiTypeOK
<1> QED BY <1>1 DEF ApiInv, ApiTypeOK, RefreshInv, OwnRefreshesSpare, credentials, Waiting, Result

(* A request that is answered, or is not.                                  *)
LEMMA SettleStep ==
  ASSUME ApiInv, NEW c \in Callers, NEW result \in Result,
         Settle(c, result) \/ (result = "failed" /\ Unanswered(c))
  PROVE  /\ ApiInv' /\ call[c] \in Sent /\ call'[c] = result
         /\ \A d \in Callers \ {c} : call'[d] = call[d]
<1> USE Distinct
<1>1. /\ call[c] \in Sent /\ call' = [call EXCEPT ![c] = result]
      /\ carried' = [carried EXCEPT ![c] = None]
      /\ UNCHANGED <<credentials, flight, shown, awaited>>
  BY DEF Settle, Unanswered
<1>2. /\ call' \in [Callers -> {"idle"} \cup Waiting \cup Sent \cup Result]
      /\ carried' \in [Callers -> 1..MaxSession \cup {None}]
      /\ call'[c] = result /\ \A d \in Callers \ {c} : call'[d] = call[d]
  BY <1>1 DEF ApiInv, ApiTypeOK
<1> QED BY <1>1, <1>2 DEF ApiInv, ApiTypeOK, RefreshInv, OwnRefreshesSpare, credentials, Waiting,
                          Sent, Result

(* Nothing starts or ends, and nothing succeeds.                           *)
CallsStand(C) ==
  \A c \in C : (call'[c] = "idle" <=> call[c] = "idle") /\ (call'[c] = "ok" => call[c] = "ok")

(* After a 401 a call goes on or is refused.                               *)
LEMMA UnauthorizedStep ==
  ASSUME ApiInv, NEW c \in Callers, Unauthorized(c)
  PROVE  ApiInv' /\ CallsStand(Callers)
<1> USE Distinct
<1>1. /\ call[c] \in Sent /\ carried' = [carried EXCEPT ![c] = None] /\ UNCHANGED credentials
      /\ IF call[c] = "sent"
         THEN call' = [call EXCEPT ![c] = "reauth"] /\ Refresh(c)
         ELSE call' = [call EXCEPT ![c] = "refused"] /\ UNCHANGED <<flight, shown, awaited>>
  BY DEF Unauthorized
<1>2. /\ call' \in [Callers -> {"idle"} \cup Waiting \cup Sent \cup Result]
      /\ carried' \in [Callers -> 1..MaxSession \cup {None}]
      /\ call'[c] = (IF call[c] = "sent" THEN "reauth" ELSE "refused")
      /\ \A d \in Callers \ {c} : call'[d] = call[d]
  BY <1>1 DEF ApiInv, ApiTypeOK, Waiting, Result
<1>3. CallsStand(Callers)
  BY <1>1, <1>2 DEF CallsStand, Sent
<1>4. CASE call[c] = "sent"
  BY <1>1, <1>2, <1>3, <1>4, RefreshStep
     DEF ApiInv, ApiTypeOK, RefreshInv, OwnRefreshesSpare, credentials, Waiting
<1>5. CASE call[c] # "sent"
  BY <1>1, <1>2, <1>3, <1>5
     DEF ApiInv, ApiTypeOK, RefreshInv, OwnRefreshesSpare, credentials, Waiting, Sent
<1> QED BY <1>4, <1>5

(* The end of a refresh wakes those who wait for it, whatever it came to.  *)
LEMMA EndRefreshStep ==
  ASSUME ApiInv, NEW c \in Callers, shown[c] # None, EndRefresh(c),
         token' \in 1..MaxSession \cup {None}
  PROVE  /\ flight' = None
         /\ shown' \in [Callers -> 1..MaxSession \cup {None}]
         /\ awaited' \in [Callers -> Callers \cup {None}]
         /\ call' \in [Callers -> {"idle"} \cup Waiting \cup Sent \cup Result]
         /\ carried' \in [Callers -> 1..MaxSession \cup {None}]
         /\ \A d \in Callers : shown'[d] = None
         /\ \A d \in Callers : awaited'[d] # None => call'[d] \in Waiting
         /\ CallsStand(Callers)
<1> USE Distinct
<1>1. PICK woken : woken = {d \in Callers : awaited[d] = c}
  OBVIOUS
<1>2. /\ flight' = None
      /\ shown' = [shown EXCEPT ![c] = None]
      /\ awaited' = [d \in Callers |-> IF d \in woken THEN None ELSE awaited[d]]
      /\ call' = [d \in Callers |->
                    IF d \notin woken THEN call[d]
                    ELSE IF call[d] = "early" THEN "sent"
                    ELSE IF token' # None THEN "resent" ELSE "refused"]
      /\ carried' = [d \in Callers |->
                       IF d \in woken /\ call'[d] \in Sent THEN token' ELSE carried[d]]
  BY <1>1 DEF EndRefresh
<1>3. \A d \in woken : d \in Callers /\ call[d] \in Waiting
  BY <1>1 DEF ApiInv, RefreshInv
<1>4. \A d \in Callers \ {c} : shown[d] = None
  BY DEF ApiInv, RefreshInv
<1>5. /\ shown' \in [Callers -> 1..MaxSession \cup {None}]
      /\ \A d \in Callers : shown'[d] = None
  BY <1>2, <1>4 DEF ApiInv, ApiTypeOK
<1>6. /\ call' \in [Callers -> {"idle"} \cup Waiting \cup Sent \cup Result]
      /\ CallsStand(Callers)
  BY <1>2, <1>3 DEF ApiInv, ApiTypeOK, CallsStand, Waiting, Sent, Result
<1>7. carried' \in [Callers -> 1..MaxSession \cup {None}]
  BY <1>2 DEF ApiInv, ApiTypeOK
<1>8. /\ awaited' \in [Callers -> Callers \cup {None}]
      /\ \A d \in Callers : awaited'[d] # None => call'[d] \in Waiting
  BY <1>2, <1>3 DEF ApiInv, ApiTypeOK, RefreshInv
<1> QED BY <1>2, <1>5, <1>6, <1>7, <1>8

(* A spent cookie is presented only after an answer was lost.              *)
LEMMA RefreshEndsStep ==
  ASSUME ApiInv, NEW c \in Callers, RefreshEnds(c)
  PROVE  ApiInv' /\ CallsStand(Callers)
<1> USE Distinct
<1>1. /\ token \in 1..MaxSession \cup {None} /\ session \in 1..MaxSession
      /\ cookie \in 1..MaxSession /\ near \in BOOLEAN /\ lost \in BOOLEAN
      /\ family \in {"live", "reused", "revoked"}
      /\ ~lost => cookie = session
      /\ family = "reused" => lost
      /\ shown[c] # None => shown[c] = cookie
  BY DEF ApiInv, ApiTypeOK, RefreshInv, OwnRefreshesSpare
<1>2. /\ shown[c] # None /\ EndRefresh(c)
      /\ token' \in 1..MaxSession \cup {None} /\ session' \in 1..MaxSession
      /\ cookie' \in 1..MaxSession /\ near' \in BOOLEAN /\ lost' \in BOOLEAN
      /\ family' \in {"live", "reused", "revoked"}
      /\ ~lost' => cookie' = session'
      /\ family' = "reused" => lost'
  <2>1. CASE Exchanged(c)
    <3>1. /\ shown[c] # None /\ session < MaxSession /\ EndRefresh(c)
          /\ session' = session + 1 /\ cookie' = session + 1 /\ token' = session + 1
          /\ near' = FALSE /\ UNCHANGED <<family, lost>>
      BY <2>1 DEF Exchanged, Exchangeable
    <3>2. session + 1 \in 1..MaxSession
      BY <1>1, <3>1
    <3> QED BY <1>1, <3>1, <3>2
  <2>2. CASE ExchangeLost(c)
    BY <1>1, <2>2 DEF ExchangeLost, Exchangeable
  <2>3. CASE ExchangeRefused(c)
    BY <1>1, <2>3 DEF ExchangeRefused, Exchangeable
  <2>4. CASE RefreshUnreachable(c)
    BY <1>1, <2>4 DEF RefreshUnreachable
  <2> QED BY <2>1, <2>2, <2>3, <2>4 DEF RefreshEnds
<1> QED BY <1>2, EndRefreshStep DEF ApiInv, ApiTypeOK, RefreshInv, OwnRefreshesSpare

(* Time and others change no call.                                         *)
LEMMA OutsideStep ==
  ASSUME ApiInv, TokenAges \/ Revoke
  PROVE  ApiInv' /\ UNCHANGED call
BY DEF ApiInv, ApiTypeOK, RefreshInv, OwnRefreshesSpare, TokenAges, Revoke

-----------------------------------------------------------------------------
(* What one part leaves to the other                                       *)

(* Who minds the steps of a part: the calls of the other part stand, and   *)
(* its variables.                                                          *)
LEMMA ConnectionStands ==
  ASSUME ConnectionInv, SubscriptionInv, CallsStand(Connects), UNCHANGED ws
  PROVE  ConnectionInv' /\ SubscriptionInv'
<1>1. UNCHANGED <<page, timer, closedByUs, socket, state, subscribed, told, revoked>>
  BY DEF ws
<1>2. Ticketing' = Ticketing
  BY DEF CallsStand, Ticketing
<1> QED BY <1>1, <1>2 DEF ConnectionInv, SubscriptionInv

(* Steps that leave the outbox and the calls of its loops alone.           *)
LEMMA OutboxStands ==
  ASSUME TypeOK, OutboxInv, CallsStand(Loops), UNCHANGED outbox,
         page' \in {page, "left"} \/ (page = "loading" /\ page' = "mounted")
  PROVE  OutboxInv'
<1>1. UNCHANGED <<pending, stored, loop, attempt>>
  BY DEF outbox
<1>2. \A e \in Entries : Running(e)' = Running(e)
  BY <1>1 DEF Running
<1>3. NothingDropped'
  BY <1>1, <1>2 DEF OutboxInv, NothingDropped
<1>4. page' = "loading" => page = "loading"
  OBVIOUS
<1>5. page' = "loading" => \A e \in Entries : pending'[e] = "none"
  BY <1>1, <1>4 DEF OutboxInv
<1> QED BY <1>1, <1>3, <1>5 DEF OutboxInv, CallsStand

(* The calls for tickets and those of loops are not the same.              *)
LEMMA CallersAre ==
  /\ Connects \subseteq Callers /\ Loops \subseteq Callers
  /\ \A k \in Connects, l \in Loops : k # l
BY ClientAssumption DEF ClientAssumption

(* A smallest number is one of them.                                       *)
LEMMA LeastIsIn ==
  ASSUME NEW S \in SUBSET Nat, S # {}
  PROVE  Least(S) \in S
<1>1. PICK R : R = OpToRel(<, Nat)
  OBVIOUS
<1>2. IsWellFoundedOn(R, Nat)
  BY <1>1, NatLessThanWellFounded
<1>3. \A x, y \in Nat : x < y => <<x, y>> \in R
  BY <1>1 DEF OpToRel
<1>4. PICK x \in S : \A y \in S : <<y, x>> \notin R
  BY <1>2, WFMin
<1>5. \A y \in S : x <= y
  <2> SUFFICES ASSUME NEW y \in S PROVE x <= y
    OBVIOUS
  <2>1. x \in Nat /\ y \in Nat
    OBVIOUS
  <2>2. ~(y < x)
    BY <1>3, <1>4, <2>1, Zenon
  <2> QED BY <2>1, <2>2
<1> QED BY <1>5 DEF Least

-----------------------------------------------------------------------------
(* The socket                                                              *)

WsInv == SocketTypeOK /\ ConnectionInv /\ SubscriptionInv

(* A call for a ticket is the only one.                                    *)
LEMMA ConnectStep ==
  ASSUME ApiInv, Connect, Ticketing = {}
  PROVE  /\ ApiInv' /\ closedByUs' = FALSE
         /\ \E k \in Connects : Ticketing' = {k}
         /\ CallsStand(Loops)
<1>1. PICK k : /\ k = Least(Connects \ Ticketing) /\ Connects \ Ticketing # {}
               /\ closedByUs' = FALSE /\ Call(k)
  BY DEF Connect
<1>2. k \in Connects /\ k \in Callers
  <2>1. Connects \ Ticketing \in SUBSET Nat
    BY SocketAssumption DEF SocketAssumption
  <2> QED BY <1>1, <2>1, LeastIsIn, CallersAre
<1>3. /\ ApiInv' /\ call'[k] \in {"early", "sent"}
      /\ \A d \in Callers \ {k} : call'[d] = call[d]
  BY <1>1, <1>2, CallStep
<1>4. Ticketing' = {k}
  BY <1>2, <1>3, CallersAre DEF Ticketing
<1>5. CallsStand(Loops)
  BY <1>2, <1>3, CallersAre DEF CallsStand
<1> QED BY <1>1, <1>2, <1>3, <1>4, <1>5

(* Only one step of a ticket's call ends it.                               *)
LEMMA TicketStep ==
  ASSUME ApiInv, ConnectionInv, NEW k \in Connects, call[k] \in Result, Take(k),
         UNCHANGED <<credentials, flight, shown, awaited, carried>>
  PROVE  ApiInv' /\ Ticketing = {k} /\ Ticketing' = {} /\ CallsStand(Loops)
<1>1. k \in Callers /\ k \in Ticketing
  BY CallersAre DEF Ticketing, Result
<1>2. Ticketing = {k}
  BY <1>1 DEF ConnectionInv
<1>3. /\ ApiInv' /\ call'[k] = "idle"
      /\ \A d \in Callers \ {k} : call'[d] = call[d]
  BY <1>1, TakeStep
<1>4. Ticketing' = {}
  BY <1>2, <1>3, CallersAre DEF Ticketing
<1>5. CallsStand(Loops)
  BY <1>1, <1>3, CallersAre DEF CallsStand
<1> QED BY <1>2, <1>3, <1>4, <1>5

(* The page mounts, or a timer fires: nothing else is under way.           *)
LEMMA MountStep ==
  ASSUME ApiInv, WsInv, Mount \/ Fire
  PROVE  ApiInv' /\ WsInv' /\ CallsStand(Loops)
<1> USE DEF WsInv
<1>1. /\ Connect /\ UNCHANGED <<socket, state, subscribed, told, revoked>>
      /\ \/ page = "loading" /\ page' = "mounted" /\ UNCHANGED timer
         \/ timer = "armed" /\ timer' = "none" /\ UNCHANGED page
  BY DEF Mount, Fire
<1>2. Ticketing = {} /\ socket = None /\ timer' = "none" /\ ~revoked
  BY <1>1 DEF ConnectionInv, SubscriptionInv
<1>3. PICK k \in Connects : Ticketing' = {k} /\ ApiInv' /\ closedByUs' = FALSE /\ CallsStand(Loops)
  BY <1>1, <1>2, ConnectStep
<1>4. SocketTypeOK'
  BY <1>1, <1>2, <1>3 DEF SocketTypeOK
<1>5. ConnectionInv'
  <2>1. page' # "loading"
    BY <1>1 DEF ConnectionInv
  <2> QED BY <1>1, <1>2, <1>3, <2>1 DEF ConnectionInv
<1>6. SubscriptionInv'
  BY <1>1, <1>2 DEF SubscriptionInv
<1> QED BY <1>3, <1>4, <1>5, <1>6

(* Without a ticket, a timer.                                              *)
LEMMA TicketFailsStep ==
  ASSUME ApiInv, WsInv, NEW k \in Connects, TicketFails(k)
  PROVE  ApiInv' /\ WsInv' /\ CallsStand(Loops)
<1> USE DEF WsInv
<1>1. /\ call[k] \in Result /\ Take(k) /\ timer' = (IF timer = "none" THEN "armed" ELSE timer)
      /\ UNCHANGED <<credentials, flight, shown, awaited, carried>>
      /\ UNCHANGED <<page, closedByUs, socket, state, subscribed, told, revoked>>
  BY DEF TicketFails, ScheduleReconnect, Result
<1>2. ApiInv' /\ Ticketing = {k} /\ Ticketing' = {} /\ CallsStand(Loops)
  BY <1>1, TicketStep
<1>3. socket = None /\ page # "loading" /\ ~revoked
  BY <1>2 DEF ConnectionInv, SubscriptionInv
<1>4. SocketTypeOK' /\ timer \in {"none", "armed", "cleared"}
  BY <1>1 DEF SocketTypeOK
<1>5. ConnectionInv'
  BY <1>1, <1>2, <1>3, <1>4 DEF ConnectionInv
<1>6. SubscriptionInv'
  BY <1>1, <1>3 DEF SubscriptionInv
<1> QED BY <1>2, <1>4, <1>5, <1>6

(* With a ticket, a socket.                                                *)
LEMMA OpenSocketStep ==
  ASSUME ApiInv, WsInv, NEW k \in Connects, OpenSocket(k)
  PROVE  ApiInv' /\ WsInv' /\ CallsStand(Loops)
<1> USE Distinct DEF WsInv
<1>1. /\ call[k] \in Result /\ Take(k)
      /\ UNCHANGED <<credentials, flight, shown, awaited, carried>>
      /\ UNCHANGED <<page, timer, closedByUs, subscribed, revoked>>
  BY DEF OpenSocket, Result
<1>2. ApiInv' /\ Ticketing = {k} /\ Ticketing' = {} /\ CallsStand(Loops)
  BY <1>1, TicketStep
<1>3. socket = None /\ page # "loading" /\ timer # "armed" /\ ~revoked /\ LiveSockets = {}
  BY <1>2 DEF ConnectionInv, SubscriptionInv, LiveSockets
<1>4. PICK s : /\ s = Least(Sockets \ LiveSockets) /\ socket' = s
               /\ state' = [state EXCEPT ![s] = "connecting"]
               /\ told' = [told EXCEPT ![s] = {}]
  BY DEF OpenSocket
<1>5. s \in Sockets
  <2>1. Sockets \ LiveSockets \in SUBSET Nat /\ Sockets \ LiveSockets # {}
    BY <1>3, SocketAssumption DEF SocketAssumption
  <2> QED BY <1>4, <2>1, LeastIsIn
<1>6. /\ SocketTypeOK' /\ state'[s] = "connecting" /\ told'[s] = {}
      /\ \A t \in Sockets \ {s} : state'[t] = state[t] /\ told'[t] = told[t]
  BY <1>1, <1>4, <1>5 DEF SocketTypeOK
<1>7. ConnectionInv'
  BY <1>1, <1>2, <1>3, <1>4, <1>5, <1>6 DEF ConnectionInv
<1>8. SubscriptionInv'
  BY <1>1, <1>3, <1>5, <1>6 DEF SubscriptionInv
<1> QED BY <1>2, <1>6, <1>7, <1>8

(* What is told goes to the socket, if that is open.                       *)
LEMMA TellStep ==
  ASSUME SocketTypeOK, NEW ids \in SUBSET Conversations, NEW st, Tell(ids, st)
  PROVE  /\ told' \in [Sockets -> SUBSET Conversations]
         /\ \A s \in Sockets :
              told'[s] = IF s = socket /\ st[s] = "open" THEN told[s] \cup ids ELSE told[s]
BY DEF SocketTypeOK, Tell

(* Events of a socket: there is no other.                                  *)
LEMMA SocketEventStep ==
  ASSUME WsInv, NEW s \in Sockets,
         OnOpen(s) \/ OnRevoked(s) \/ Break(s) \/ OnClose(s)
  PROVE  WsInv' /\ UNCHANGED api
<1> USE Distinct DEF WsInv
<1>1. /\ state[s] # "unused" /\ UNCHANGED api /\ UNCHANGED call
      /\ UNCHANGED <<page, subscribed>>
  BY DEF OnOpen, OnRevoked, Break, OnClose, api
<1>2. /\ socket = s /\ Ticketing = {} /\ timer # "armed" /\ page # "loading"
      /\ Ticketing' = Ticketing /\ timer \in {"none", "armed", "cleared"}
  BY <1>1 DEF ConnectionInv, Ticketing, SocketTypeOK
<1>3. CASE OnOpen(s)
  <2>1. /\ state[s] = "connecting" /\ state' = [state EXCEPT ![s] = "open"]
        /\ Tell(subscribed, state') /\ subscribed \in SUBSET Conversations
        /\ UNCHANGED <<timer, closedByUs, socket, revoked>>
    BY <1>3 DEF OnOpen, SocketTypeOK
  <2>2. /\ state'[s] = "open" /\ \A t \in Sockets \ {s} : state'[t] = state[t]
        /\ state' \in [Sockets -> {"unused", "connecting", "open", "closing"}]
    BY <2>1 DEF SocketTypeOK
  <2>3. /\ told' \in [Sockets -> SUBSET Conversations] /\ told'[s] = told[s] \cup subscribed
        /\ \A t \in Sockets \ {s} : told'[t] = told[t]
    BY <1>2, <2>1, <2>2, TellStep, ZenonT(60)
  <2>4. told[s] = {}
    BY <2>1 DEF SubscriptionInv
  <2>5. ConnectionInv'
    BY <1>1, <1>2, <2>1, <2>2 DEF ConnectionInv
  <2>6. SubscriptionInv'
    BY <1>1, <1>2, <2>1, <2>2, <2>3, <2>4 DEF SubscriptionInv
  <2> QED BY <1>1, <2>1, <2>2, <2>3, <2>5, <2>6 DEF SocketTypeOK
<1>4. CASE OnRevoked(s)
  <2>1. /\ closedByUs' = TRUE /\ revoked' = TRUE /\ UNCHANGED <<timer, socket, state, told>>
    BY <1>4 DEF OnRevoked
  <2>2. ConnectionInv'
    BY <1>1, <1>2, <2>1 DEF ConnectionInv
  <2>3. SubscriptionInv'
    BY <1>1, <1>2, <2>1 DEF SubscriptionInv
  <2> QED BY <1>1, <2>1, <2>2, <2>3 DEF SocketTypeOK
<1>5. CASE Break(s)
  <2>1. /\ state' = [state EXCEPT ![s] = "closing"]
        /\ UNCHANGED <<timer, closedByUs, socket, told, revoked>>
    BY <1>5 DEF Break
  <2>2. /\ state'[s] = "closing" /\ \A t \in Sockets \ {s} : state'[t] = state[t]
        /\ state' \in [Sockets -> {"unused", "connecting", "open", "closing"}]
    BY <2>1 DEF SocketTypeOK
  <2>3. ConnectionInv'
    BY <1>1, <1>2, <2>1, <2>2 DEF ConnectionInv
  <2>4. SubscriptionInv'
    BY <1>1, <1>2, <2>1, <2>2 DEF SubscriptionInv
  <2> QED BY <1>1, <2>1, <2>2, <2>3, <2>4 DEF SocketTypeOK
<1>6. CASE OnClose(s)
  <2>1. /\ state' = [state EXCEPT ![s] = "unused"] /\ socket' = None
        /\ timer' = IF ~closedByUs /\ timer = "none" THEN "armed" ELSE timer
        /\ UNCHANGED <<closedByUs, told, revoked>>
    BY <1>6 DEF OnClose, ScheduleReconnect
  <2>2. /\ state'[s] = "unused" /\ \A t \in Sockets \ {s} : state'[t] = state[t]
        /\ state' \in [Sockets -> {"unused", "connecting", "open", "closing"}]
    BY <2>1 DEF SocketTypeOK
  <2>3. SocketTypeOK'
    BY <1>1, <1>2, <2>1, <2>2 DEF SocketTypeOK
  <2>4. ConnectionInv'
    BY <1>1, <1>2, <2>1, <2>2 DEF ConnectionInv
  <2>5. SubscriptionInv'
    BY <1>1, <1>2, <2>1, <2>2 DEF SubscriptionInv
  <2> QED BY <1>1, <2>3, <2>4, <2>5
<1> QED BY <1>1, <1>3, <1>4, <1>5, <1>6

(* A subscription is told at once, or when a socket opens.                 *)
LEMMA SubscribeStep ==
  ASSUME WsInv, NEW id \in Conversations, Subscribe(id)
  PROVE  WsInv' /\ UNCHANGED api
<1> USE Distinct DEF WsInv
<1>1. /\ subscribed' = subscribed \cup {id} /\ Tell({id}, state) /\ UNCHANGED api
      /\ UNCHANGED call /\ page = "mounted"
      /\ UNCHANGED <<page, timer, closedByUs, socket, state, revoked>>
  BY DEF Subscribe, api
<1>2. /\ told' \in [Sockets -> SUBSET Conversations]
      /\ \A s \in Sockets :
           told'[s] = IF s = socket /\ state[s] = "open" THEN told[s] \cup {id} ELSE told[s]
  BY <1>1, TellStep
<1>3. Ticketing' = Ticketing
  BY <1>1 DEF Ticketing
<1>4. SocketTypeOK'
  BY <1>1, <1>2 DEF SocketTypeOK
<1>5. ConnectionInv'
  BY <1>1, <1>3 DEF ConnectionInv
<1>6. SubscriptionInv'
  BY <1>1, <1>2, <1>3 DEF SubscriptionInv, ConnectionInv
<1> QED BY <1>1, <1>4, <1>5, <1>6

(* A page that is left closes its socket and stops its timer.              *)
LEMMA LeaveStep ==
  ASSUME WsInv, Leave
  PROVE  WsInv' /\ UNCHANGED api
<1> USE Distinct DEF WsInv
<1>1. /\ page = "mounted" /\ page' = "left" /\ closedByUs' = TRUE
      /\ timer' = IF timer = "armed" THEN "cleared" ELSE timer
      /\ state' = [s \in Sockets |-> IF s = socket THEN "closing" ELSE state[s]]
      /\ UNCHANGED api /\ UNCHANGED call /\ UNCHANGED <<socket, subscribed, told, revoked>>
  BY DEF Leave, api
<1>2. Ticketing' = Ticketing
  BY <1>1 DEF Ticketing
<1>3. /\ state' \in [Sockets -> {"unused", "connecting", "open", "closing"}]
      /\ \A s \in Sockets : state'[s] = IF s = socket THEN "closing" ELSE state[s]
  BY <1>1 DEF SocketTypeOK
<1>4. SocketTypeOK'
  BY <1>1, <1>3 DEF SocketTypeOK
<1>5. ConnectionInv'
  BY <1>1, <1>2, <1>3 DEF ConnectionInv
<1>6. SubscriptionInv'
  BY <1>1, <1>2, <1>3 DEF SubscriptionInv
<1> QED BY <1>1, <1>4, <1>5, <1>6

-----------------------------------------------------------------------------
(* The outbox                                                              *)

OutboxTypeOK ==
  /\ pending \in [Entries -> {"none", "SENDING", "FAILED", "SENT"}]
  /\ stored \subseteq Entries
  /\ loop \in [Loops -> {"unused", "ready", "calling", "over"}]
  /\ attempt \in [Loops -> 0..MAX_ATTEMPTS]

OutInv == OutboxTypeOK /\ OutboxInv

(* Loops that begin run for the entry that is sent.                        *)
LEMMA BeginStep ==
  ASSUME OutInv, NEW e \in Entries, NEW L \in SUBSET Unused(e), L # {}, Begin(L),
         page = "mounted",
         pending' = [pending EXCEPT ![e] = "SENDING"], UNCHANGED <<page, call, stored, attempt>>
  PROVE  OutInv'
<1> USE DEF OutInv
<1>1. \A l \in L : l \in Loops /\ Of[l] = e /\ loop[l] = "unused"
  BY DEF Unused
<1>2. /\ loop' \in [Loops -> {"unused", "ready", "calling", "over"}]
      /\ \A l \in Loops : loop'[l] = IF l \in L THEN "ready" ELSE loop[l]
  BY DEF Begin, OutboxTypeOK
<1>3. /\ pending' \in [Entries -> {"none", "SENDING", "FAILED", "SENT"}]
      /\ pending'[e] = "SENDING" /\ \A d \in Entries \ {e} : pending'[d] = pending[d]
  BY DEF OutboxTypeOK
<1>4. OutboxTypeOK'
  BY <1>2, <1>3 DEF OutboxTypeOK
<1>5. NothingDropped'
  <2>1. PICK l \in L : TRUE
    OBVIOUS
  <2>2. Running(e)' # {}
    BY <1>1, <1>2, <2>1 DEF Running
  <2>3. \A d \in Entries : Running(d) \subseteq Running(d)'
    BY <1>1, <1>2 DEF Running
  <2> QED BY <1>3, <2>2, <2>3 DEF OutboxInv, NothingDropped
<1>6. ASSUME NEW l \in Loops
      PROVE  /\ loop'[l] = "calling" <=> call'[l] # "idle"
             /\ call'[l] = "ok" => Of[l] \in stored'
             /\ loop'[l] = "unused" => attempt'[l] = 0
             /\ loop'[l] = "ready" => attempt'[l] < MAX_ATTEMPTS
             /\ pending'[Of[l]] = "none" => loop'[l] = "unused"
  <2>1. Of[l] \in Entries /\ MAX_ATTEMPTS > 0
    BY ClientAssumption DEF ClientAssumption
  <2>2. CASE l \in L
    BY <1>1, <1>2, <1>3, <2>1, <2>2 DEF OutboxInv
  <2>3. CASE l \notin L
    BY <1>2, <1>3, <2>1, <2>3 DEF OutboxInv
  <2> QED BY <2>2, <2>3
<1> QED BY <1>4, <1>5, <1>6 DEF OutboxInv

(* A message that is composed has its loops still to come.                 *)
LEMMA SendStep ==
  ASSUME OutInv, NEW e \in Entries, Send(e) \/ Retry(e)
  PROVE  OutInv' /\ UNCHANGED api /\ UNCHANGED ws
<1>1. /\ page = "mounted" /\ pending' = [pending EXCEPT ![e] = "SENDING"]
      /\ UNCHANGED <<api, ws, stored, attempt>> /\ UNCHANGED <<page, call>>
  BY DEF Send, Retry, api, ws
<1>2. PICK L \in SUBSET Unused(e) : L # {} /\ Begin(L)
  <2>1. CASE Send(e)
    <3>1. PICK l \in Loops : Of[l] = e
      BY ClientAssumption DEF ClientAssumption
    <3>2. l \in Unused(e)
      BY <2>1, <3>1 DEF Send, Unused, OutInv, OutboxInv
    <3>3. Unused(e) \in SUBSET Nat
      BY ClientAssumption DEF Unused, ClientAssumption
    <3>4. Least(Unused(e)) \in Unused(e)
      BY <3>2, <3>3, LeastIsIn
    <3> QED BY <2>1, <3>4 DEF Send
  <2>2. CASE Retry(e)
    <3>1. PICK L \in SUBSET Unused(e) : Cardinality(L) \in 1..2 /\ Begin(L)
      BY <2>2 DEF Retry
    <3>2. L # {}
      BY <3>1, FS_EmptySet
    <3> QED BY <3>1, <3>2
  <2> QED BY <2>1, <2>2
<1> QED BY <1>1, <1>2, BeginStep

(* Steps of one loop change the state of that loop only.                   *)
LEMMA LoopAlone ==
  ASSUME OutInv, NEW l \in Loops, NEW where \in {"ready", "calling"},
         NEW n \in 0..MAX_ATTEMPTS, loop[l] \in {"ready", "calling"},
         loop' = [loop EXCEPT ![l] = where], attempt' = [attempt EXCEPT ![l] = n],
         where = "ready" => n < MAX_ATTEMPTS,
         where = "calling" <=> call'[l] # "idle", call'[l] # "ok",
         \A k \in Loops \ {l} : call'[k] = call[k],
         UNCHANGED <<page, pending, stored>>
  PROVE  OutInv'
<1> USE DEF OutInv
<1>1. /\ loop' \in [Loops -> {"unused", "ready", "calling", "over"}] /\ loop'[l] = where
      /\ attempt' \in [Loops -> 0..MAX_ATTEMPTS] /\ attempt'[l] = n
      /\ \A k \in Loops \ {l} : loop'[k] = loop[k] /\ attempt'[k] = attempt[k]
  BY DEF OutboxTypeOK
<1>2. \A e \in Entries : Running(e)' = Running(e)
  BY <1>1 DEF Running
<1>3. NothingDropped'
  BY <1>2 DEF OutboxInv, NothingDropped
<1>4. pending[Of[l]] # "none"
  BY DEF OutboxInv
<1> QED BY <1>1, <1>3, <1>4 DEF OutboxInv, OutboxTypeOK

(* A loop calls the server again.                                          *)
LEMMA AttemptStep ==
  ASSUME ApiInv, OutInv, NEW l \in Loops, Attempt(l)
  PROVE  ApiInv' /\ OutInv' /\ UNCHANGED ws /\ CallsStand(Connects)
<1>1. /\ loop[l] = "ready" /\ loop' = [loop EXCEPT ![l] = "calling"] /\ Call(l)
      /\ attempt' = [attempt EXCEPT ![l] = attempt[l] + 1]
      /\ UNCHANGED <<ws, pending, stored>> /\ UNCHANGED page
  BY DEF Attempt, ws
<1>2. /\ ApiInv' /\ call'[l] \in {"early", "sent"}
      /\ \A d \in Callers \ {l} : call'[d] = call[d]
  BY <1>1, CallStep, CallersAre
<1>3. attempt[l] + 1 \in 0..MAX_ATTEMPTS
  <2>1. attempt[l] < MAX_ATTEMPTS /\ attempt[l] \in 0..MAX_ATTEMPTS /\ MAX_ATTEMPTS \in Nat
    BY <1>1, ClientAssumption DEF OutInv, OutboxInv, OutboxTypeOK, ClientAssumption
  <2> QED BY <2>1
<1>4. OutInv'
  BY <1>1, <1>2, <1>3, LoopAlone, CallersAre
<1>5. CallsStand(Connects)
  BY <1>2, CallersAre DEF CallsStand
<1> QED BY <1>1, <1>2, <1>4, <1>5

(* A loop whose call failed waits for its next attempt.                    *)
LEMMA BackOffStep ==
  ASSUME ApiInv, OutInv, NEW l \in Loops, BackOff(l)
  PROVE  ApiInv' /\ OutInv' /\ UNCHANGED ws /\ CallsStand(Connects)
<1>1. /\ call[l] = "failed" /\ attempt[l] < MAX_ATTEMPTS /\ Take(l)
      /\ loop' = [loop EXCEPT ![l] = "ready"]
      /\ UNCHANGED <<credentials, flight, shown, awaited, carried>>
      /\ UNCHANGED <<ws, pending, stored, attempt>> /\ UNCHANGED page
  BY DEF BackOff, ws
<1>2. /\ ApiInv' /\ call'[l] = "idle"
      /\ \A d \in Callers \ {l} : call'[d] = call[d]
  BY <1>1, TakeStep, CallersAre DEF Result
<1>3. /\ loop[l] = "calling" /\ attempt[l] \in 0..MAX_ATTEMPTS
      /\ attempt' = [attempt EXCEPT ![l] = attempt[l]]
  BY <1>1 DEF OutInv, OutboxInv, OutboxTypeOK
<1>4. OutInv'
  BY <1>1, <1>2, <1>3, LoopAlone, CallersAre
<1>5. CallsStand(Connects)
  BY <1>2, CallersAre DEF CallsStand
<1> QED BY <1>1, <1>2, <1>4, <1>5

(* A loop that ends settles its row, as long as the page is there.         *)
LEMMA EndLoopStep ==
  ASSUME ApiInv, OutInv, NEW l \in Loops, Succeed(l) \/ GiveUp(l)
  PROVE  ApiInv' /\ OutInv' /\ UNCHANGED ws /\ CallsStand(Connects)
<1> USE DEF OutInv
<1>1. PICK s \in {"SENT", "FAILED"} :
        /\ call[l] \in Result /\ EndLoop(l, s) /\ (s = "SENT" => call[l] = "ok")
  BY DEF Succeed, GiveUp, Result
<1>2. PICK e : e = Of[l]
  OBVIOUS
<1>3. /\ Take(l) /\ loop' = [loop EXCEPT ![l] = "over"] /\ attempt' = [attempt EXCEPT ![l] = 0]
      /\ pending' = (IF page = "mounted" /\ pending[e] # "SENT"
                     THEN [pending EXCEPT ![e] = s] ELSE pending)
      /\ UNCHANGED <<credentials, flight, shown, awaited, carried>>
      /\ UNCHANGED <<ws, stored>> /\ UNCHANGED page
  BY <1>1, <1>2 DEF EndLoop, Update, ws
<1>4. /\ ApiInv' /\ call'[l] = "idle"
      /\ \A d \in Callers \ {l} : call'[d] = call[d]
  BY <1>1, <1>3, TakeStep, CallersAre
<1>5. /\ e \in Entries /\ MAX_ATTEMPTS \in Nat /\ loop[l] = "calling" /\ pending[e] # "none"
      /\ s = "SENT" => e \in stored
  BY <1>1, <1>2, ClientAssumption DEF ClientAssumption, OutboxInv, Result
<1>6. /\ loop' \in [Loops -> {"unused", "ready", "calling", "over"}] /\ loop'[l] = "over"
      /\ attempt' \in [Loops -> 0..MAX_ATTEMPTS] /\ attempt'[l] = 0
      /\ \A k \in Loops \ {l} : loop'[k] = loop[k] /\ attempt'[k] = attempt[k]
  BY <1>3, <1>5 DEF OutboxTypeOK
<1>7. /\ pending' \in [Entries -> {"none", "SENDING", "FAILED", "SENT"}]
      /\ \A d \in Entries \ {e} : pending'[d] = pending[d]
      /\ pending'[e] # "none" /\ (page # "mounted" => pending' = pending)
      /\ page = "mounted" => pending'[e] \in {s, "SENT"} /\ (pending'[e] # s => pending[e] = "SENT")
  BY <1>3, <1>5 DEF OutboxTypeOK
<1>8. NothingDropped'
  <2>1. \A d \in Entries \ {e} : Running(d)' = Running(d)
    BY <1>2, <1>6 DEF Running
  <2> QED BY <1>3, <1>5, <1>7, <2>1 DEF OutboxInv, NothingDropped
<1>9. ASSUME NEW k \in Loops
      PROVE  /\ loop'[k] = "calling" <=> call'[k] # "idle"
             /\ call'[k] = "ok" => Of[k] \in stored'
             /\ loop'[k] = "unused" => attempt'[k] = 0
             /\ loop'[k] = "ready" => attempt'[k] < MAX_ATTEMPTS
             /\ pending'[Of[k]] = "none" => loop'[k] = "unused"
  <2>1. Of[k] \in Entries
    BY ClientAssumption DEF ClientAssumption
  <2>2. CASE k = l
    BY <1>2, <1>4, <1>6, <1>7, <2>2
  <2>3. CASE k # l
    BY <1>3, <1>4, <1>6, <1>7, <2>1, <2>3, CallersAre DEF OutboxInv
  <2> QED BY <2>2, <2>3
<1>10. page' = "loading" => \A d \in Entries : pending'[d] = "none"
  BY <1>3, <1>7 DEF OutboxInv
<1>11. OutboxTypeOK'
  BY <1>3, <1>6, <1>7 DEF OutboxTypeOK
<1>12. CallsStand(Connects)
  BY <1>4, CallersAre DEF CallsStand
<1> QED BY <1>3, <1>4, <1>8, <1>9, <1>10, <1>11, <1>12 DEF OutboxInv

(* What the server says it has stored, it has.                             *)
LEMMA AnswerSendStep ==
  ASSUME ApiInv, OutInv, NEW l \in Loops, AnswerSend(l)
  PROVE  ApiInv' /\ OutInv' /\ UNCHANGED ws /\ CallsStand(Connects)
<1> USE DEF OutInv
<1>1. PICK result \in Result :
        /\ Settle(l, result) \/ (result = "failed" /\ Unanswered(l))
        /\ stored' = stored \cup {Of[l]} \/ (result # "ok" /\ stored' = stored)
  BY DEF AnswerSend, Result
<1>2. UNCHANGED <<ws, pending, loop, attempt>> /\ UNCHANGED page
  BY DEF AnswerSend, ws
<1>3. /\ ApiInv' /\ call[l] \in Sent /\ call'[l] = result
      /\ \A d \in Callers \ {l} : call'[d] = call[d]
  BY <1>1, SettleStep, CallersAre
<1>4. stored \subseteq stored' /\ stored' \subseteq Entries /\ (result = "ok" => Of[l] \in stored')
  BY <1>1, ClientAssumption DEF OutboxTypeOK, ClientAssumption
<1>5. OutboxTypeOK'
  BY <1>2, <1>4 DEF OutboxTypeOK
<1>6. \A e \in Entries : Running(e)' = Running(e)
  BY <1>2 DEF Running
<1>7. NothingDropped'
  BY <1>2, <1>4, <1>6 DEF OutboxInv, NothingDropped
<1>8. call[l] # "idle" /\ call'[l] # "idle"
  BY <1>3 DEF Sent, Result
<1>9. OutboxInv'
  BY <1>2, <1>3, <1>4, <1>7, <1>8, CallersAre DEF OutboxInv
<1>10. CallsStand(Connects)
  BY <1>3, CallersAre DEF CallsStand
<1> QED BY <1>2, <1>3, <1>5, <1>9, <1>10

-----------------------------------------------------------------------------
(* The whole                                                               *)

(* When the page has restored its session.                                 *)
LEMMA InvInit == Init => Inv
<1> SUFFICES ASSUME Init PROVE Inv
  OBVIOUS
<1> USE Distinct DEF Init, ApiInit, SocketInit
<1>1. 0 \in 0..MAX_ATTEMPTS
  BY ClientAssumption DEF ClientAssumption
<1>2. TypeOK
  BY <1>1 DEF TypeOK, ApiTypeOK, SocketTypeOK
<1>3. RefreshInv
  BY DEF RefreshInv, OwnRefreshesSpare
<1>4. Ticketing = {}
  BY CallersAre DEF Ticketing
<1>5. ConnectionInv /\ SubscriptionInv
  BY <1>4 DEF ConnectionInv, SubscriptionInv
<1>6. OutboxInv
  BY CallersAre, ClientAssumption DEF OutboxInv, NothingDropped, ClientAssumption
<1> QED BY <1>2, <1>3, <1>5, <1>6 DEF Inv

(* Every step keeps what its part relies on, and leaves the other alone.   *)
LEMMA InvStep == Inv /\ [Next]_vars => Inv'
<1> SUFFICES ASSUME Inv, [Next]_vars PROVE Inv'
  OBVIOUS
<1>0. ApiInv /\ WsInv /\ OutInv /\ TypeOK /\ ConnectionInv /\ SubscriptionInv /\ OutboxInv
  BY DEF Inv, ApiInv, WsInv, OutInv, TypeOK, OutboxTypeOK
<1> USE <1>0
<1>1. ASSUME ApiInv', WsInv', OutInv' PROVE Inv'
  BY <1>1 DEF Inv, ApiInv, WsInv, OutInv, TypeOK, OutboxTypeOK
<1>2. ASSUME CallsStand(Connects), UNCHANGED ws PROVE WsInv'
  BY <1>2, ConnectionStands DEF WsInv, SocketTypeOK, ws
<1>3. ASSUME CallsStand(Loops), UNCHANGED outbox,
             page' \in {page, "left"} \/ (page = "loading" /\ page' = "mounted")
      PROVE  OutInv'
  BY <1>3, OutboxStands DEF OutInv, OutboxTypeOK, outbox
<1>4. ASSUME UNCHANGED api PROVE ApiInv' /\ CallsStand(Connects) /\ CallsStand(Loops)
  BY <1>4 DEF api, ApiInv, ApiTypeOK, RefreshInv, OwnRefreshesSpare, CallsStand
<1>5. ASSUME CallsStand(Callers) PROVE CallsStand(Connects) /\ CallsStand(Loops)
  BY <1>5, CallersAre DEF CallsStand
<1>6. CASE SocketStep /\ UNCHANGED outbox
  <2>1. CASE Mount \/ Fire
    <3>1. page' = page \/ (page = "loading" /\ page' = "mounted")
      BY <2>1 DEF Mount, Fire
    <3> QED BY <1>1, <1>3, <1>6, <2>1, <3>1, MountStep
  <2>2. CASE Leave
    <3>1. page' = "left"
      BY <2>2 DEF Leave
    <3> QED BY <1>1, <1>3, <1>4, <1>6, <2>2, <3>1, LeaveStep
  <2>3. ASSUME NEW k \in Connects, TicketFails(k) \/ OpenSocket(k) PROVE Inv'
    <3>1. page' = page
      BY <2>3 DEF TicketFails, OpenSocket
    <3> QED BY <1>1, <1>3, <1>6, <2>3, <3>1, TicketFailsStep, OpenSocketStep
  <2>4. ASSUME NEW s \in Sockets, OnOpen(s) \/ OnRevoked(s) \/ Break(s) \/ OnClose(s) PROVE Inv'
    <3>1. page' = page
      BY <2>4 DEF OnOpen, OnRevoked, Break, OnClose
    <3> QED BY <1>1, <1>3, <1>4, <1>6, <2>4, <3>1, SocketEventStep
  <2>5. ASSUME NEW id \in Conversations, Subscribe(id) PROVE Inv'
    <3>1. page' = page
      BY <2>5 DEF Subscribe
    <3> QED BY <1>1, <1>3, <1>4, <1>6, <2>5, <3>1, SubscribeStep
  <2> QED BY <1>6, <2>1, <2>2, <2>3, <2>4, <2>5 DEF SocketStep
<1>7. ASSUME NEW e \in Entries, Send(e) \/ Retry(e) PROVE Inv'
  BY <1>1, <1>2, <1>4, <1>7, SendStep
<1>8. ASSUME NEW l \in Loops, LoopStep(l) PROVE Inv'
  BY <1>1, <1>2, <1>8, AttemptStep, BackOffStep, EndLoopStep, AnswerSendStep DEF LoopStep
<1>9. ASSUME NEW k \in Connects, AnswerTicket(k) PROVE Inv'
  <2>1. PICK result \in Result :
          Settle(k, result) \/ (result = "failed" /\ Unanswered(k))
    BY <1>9 DEF AnswerTicket, Result
  <2>2. /\ ApiInv' /\ call[k] \in Sent /\ call'[k] \in Result
        /\ \A d \in Callers \ {k} : call'[d] = call[d]
    BY <2>1, SettleStep, CallersAre
  <2>3. CallsStand(Connects) \/ call'[k] = "ok"
    BY <2>2, CallersAre DEF CallsStand, Sent, Result
  <2>4. Ticketing' = Ticketing /\ UNCHANGED ws /\ UNCHANGED outbox
    BY <1>9, <2>2, CallersAre DEF Ticketing, Sent, Result, AnswerTicket
  <2>5. WsInv'
    BY <2>4 DEF WsInv, SocketTypeOK, ConnectionInv, SubscriptionInv, ws
  <2>6. CallsStand(Loops) /\ page' = page
    BY <2>2, <2>4, CallersAre DEF CallsStand, ws
  <2> QED BY <1>1, <1>3, <2>2, <2>4, <2>5, <2>6
<1>10. ASSUME NEW c \in Callers, ApiStep(c) PROVE Inv'
  <2>1. UNCHANGED ws /\ UNCHANGED outbox /\ UNCHANGED page
    BY <1>10 DEF ApiStep, ws
  <2> QED BY <1>1, <1>2, <1>3, <1>5, <1>10, <2>1, UnauthorizedStep, RefreshEndsStep DEF ApiStep
<1>11. CASE Outside
  <2>1. UNCHANGED ws /\ UNCHANGED outbox /\ UNCHANGED page
    BY <1>11 DEF Outside, ws
  <2>2. ApiInv' /\ UNCHANGED call
    BY <1>11, OutsideStep DEF Outside
  <2>3. CallsStand(Callers)
    BY <2>2 DEF CallsStand
  <2> QED BY <1>1, <1>2, <1>3, <1>5, <2>1, <2>2, <2>3
<1>12. CASE Finished \/ UNCHANGED vars
  <2>1. UNCHANGED api /\ UNCHANGED ws /\ UNCHANGED outbox /\ UNCHANGED page
    BY <1>12 DEF Finished, vars, ws
  <2> QED BY <1>1, <1>2, <1>3, <1>4, <2>1
<1> QED BY <1>6, <1>7, <1>8, <1>9, <1>10, <1>11, <1>12 DEF Next

(* Refreshes, the connection and the outbox, always.                       *)
THEOREM TabIsInOrder == Spec => []Inv
BY InvInit, InvStep, PTL DEF Spec

(* Calls, sockets and messages have their types.                           *)
THEOREM TypeCorrect == Spec => []TypeOK
<1>1. Inv => TypeOK
  BY DEF Inv
<1> QED BY <1>1, TabIsInOrder, PTL

(* However its calls overlap, a tab burns its family only if an answer was *)
(* lost.                                                                   *)
THEOREM RefreshesSpareTheFamily == Spec => []OwnRefreshesSpare
<1>1. Inv => OwnRefreshesSpare
  BY DEF Inv, RefreshInv
<1> QED BY <1>1, TabIsInOrder, PTL

(* A ticket, a socket and an armed timer count for one, together.          *)
LEMMA OneActivity == TypeOK /\ ConnectionInv => OneConnection
<1> SUFFICES ASSUME TypeOK, ConnectionInv PROVE OneConnection
  OBVIOUS
<1> USE Distinct DEF ConnectionInv
<1>1. \/ Ticketing = {} /\ Cardinality(Ticketing) = 0
      \/ Ticketing # {} /\ Cardinality(Ticketing) = 1
  <2>1. CASE Ticketing = {}
    BY <2>1, FS_EmptySet
  <2>2. CASE Ticketing # {}
    <3>1. PICK k : Ticketing = {k}
      BY <2>2
    <3> QED BY <3>1, FS_Singleton
  <2> QED BY <2>1, <2>2
<1>2. \/ socket = None /\ Cardinality(LiveSockets) = 0
      \/ socket # None /\ Cardinality(LiveSockets) = 1
  <2>1. CASE socket = None
    <3>1. LiveSockets = {}
      BY <2>1 DEF LiveSockets
    <3> QED BY <2>1, <3>1, FS_EmptySet
  <2>2. CASE socket # None
    <3>1. LiveSockets = {socket}
      BY <2>2 DEF LiveSockets, TypeOK, SocketTypeOK
    <3> QED BY <2>2, <3>1, FS_Singleton
  <2> QED BY <2>1, <2>2
<1> QED BY <1>1, <1>2 DEF OneConnection, Activities

(* One connection at most, none after a revocation, and one that is open   *)
(* is subscribed to all it should be.                                      *)
THEOREM SocketsAreDisciplined == Spec => []SocketDiscipline
<1>1. Inv => SocketDiscipline
  <2> SUFFICES ASSUME Inv PROVE SocketDiscipline
    OBVIOUS
  <2>1. OneConnection
    BY OneActivity DEF Inv
  <2>2. RevokedStaysOff
    BY DEF Inv, SubscriptionInv, RevokedStaysOff
  <2>3. Resubscribed
    BY DEF Inv, SubscriptionInv, TypeOK, SocketTypeOK, Resubscribed
  <2> QED BY <2>1, <2>2, <2>3 DEF SocketDiscipline
<1> QED BY <1>1, TabIsInOrder, PTL

(* A row goes only when the server has the message, and one that says      *)
(* Sending has a loop.                                                     *)
THEOREM NothingIsDropped == Spec => []NothingDropped
<1>1. Inv => NothingDropped
  BY DEF Inv, OutboxInv
<1> QED BY <1>1, TabIsInOrder, PTL
=============================================================================
