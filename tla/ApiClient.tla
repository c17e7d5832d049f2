------------------------------ MODULE ApiClient ------------------------------
(***************************************************************************)
(* frontend/lib/api.ts: api() with its refreshes, for the calls that are   *)
(* in flight in one tab, and what the server does about tokens (Sessions   *)
(* has that in detail).  A token and a refresh cookie are the number of    *)
(* the session they belong to.  A settled call keeps its result until its  *)
(* owner takes it; ChatSocket and Outbox own the calls.                    *)
(***************************************************************************)
EXTENDS Naturals, FiniteSets

CONSTANTS
  Callers,
  MaxSession,   \* bound on the exchanges of the refresh token
  None

ASSUME ApiAssumption == None \notin Callers \cup Nat /\ MaxSession \in Nat \ {0}

VARIABLES
  token,     \* accessToken
  near,      \* its expiry is less than 30 seconds away, or past
  flight,    \* refreshInFlight, named by the call that started it
  cookie,    \* the refresh cookie in the browser
  session,   \* server: the family's session that is not spent
  family,    \* server: live, or revoked by reuse detection or by other means
  lost,      \* history: the answer to an exchange did not arrive
  shown,     \* call |-> the cookie its own refresh presents
  awaited,   \* call |-> the refresh it waits for
  call,      \* call |-> where api() stands
  carried    \* call |-> the token its request carries

api == <<token, near, flight, cookie, session, family, lost, shown, awaited, call, carried>>
credentials == <<token, near, cookie, session, family, lost>>

Waiting == {"early", "reauth"}
Sent == {"sent", "resent"}
Result == {"ok", "refused", "failed"}   \* refused: 4xx but 429; failed: the rest

ApiTypeOK ==
  /\ token \in 1..MaxSession \cup {None}
  /\ near \in BOOLEAN /\ lost \in BOOLEAN
  /\ flight \in Callers \cup {None}
  /\ cookie \in 1..MaxSession /\ session \in 1..MaxSession
  /\ family \in {"live", "reused", "revoked"}
  /\ shown \in [Callers -> 1..MaxSession \cup {None}]
  /\ awaited \in [Callers -> Callers \cup {None}]
  /\ call \in [Callers -> {"idle"} \cup Waiting \cup Sent \cup Result]
  /\ carried \in [Callers -> 1..MaxSession \cup {None}]

(* The page has restored its session.                                      *)
ApiInit ==
  /\ token = 1 /\ cookie = 1 /\ session = 1
  /\ near = FALSE /\ family = "live" /\ lost = FALSE /\ flight = None
  /\ shown = [c \in Callers |-> None]
  /\ awaited = [c \in Callers |-> None]
  /\ call = [c \in Callers |-> "idle"]
  /\ carried = [c \in Callers |-> None]

(* Mutant: every caller refreshes by itself.                               *)
RefreshAlone(c) ==
  /\ awaited' = [awaited EXCEPT ![c] = c]
  /\ flight' = c
  /\ shown' = [shown EXCEPT ![c] = cookie]

(* refresh(): a caller joins the one in flight or starts it.               *)
Refresh(c) ==
  IF flight # None
  THEN awaited' = [awaited EXCEPT ![c] = flight] /\ UNCHANGED <<flight, shown>>
  ELSE /\ awaited' = [awaited EXCEPT ![c] = c]
       /\ flight' = c
       /\ shown' = [shown EXCEPT ![c] = cookie]

(* api() up to its first await.                                            *)
Call(c) ==
  /\ call[c] = "idle"
  /\ UNCHANGED credentials
  /\ IF token # None /\ near
     THEN /\ call' = [call EXCEPT ![c] = "early"]
          /\ Refresh(c)
          /\ UNCHANGED carried
     ELSE /\ call' = [call EXCEPT ![c] = "sent"]
          /\ carried' = [carried EXCEPT ![c] = token]
          /\ UNCHANGED <<flight, shown, awaited>>

Take(c) == call' = [call EXCEPT ![c] = "idle"]

(* The server is reached, and the token is accepted.                       *)
Settle(c, result) ==
  /\ call[c] \in Sent
  /\ family = "live" /\ carried[c] # None
  /\ call' = [call EXCEPT ![c] = result]
  /\ carried' = [carried EXCEPT ![c] = None]
  /\ UNCHANGED <<credentials, flight, shown, awaited>>

(* It is not reached, or cannot answer.                                    *)
Unanswered(c) ==
  /\ call[c] \in Sent
  /\ call' = [call EXCEPT ![c] = "failed"]
  /\ carried' = [carried EXCEPT ![c] = None]
  /\ UNCHANGED <<credentials, flight, shown, awaited>>

(* 401: refresh and try once more; the second 401 is the result.           *)
Unauthorized(c) ==
  /\ call[c] \in Sent
  /\ family # "live" \/ carried[c] # session \/ near
  /\ carried' = [carried EXCEPT ![c] = None]
  /\ UNCHANGED credentials
  /\ IF call[c] = "sent"
     THEN call' = [call EXCEPT ![c] = "reauth"] /\ Refresh(c)
     ELSE call' = [call EXCEPT ![c] = "refused"] /\ UNCHANGED <<flight, shown, awaited>>

(* Mutant: only the call that started the refresh is told of its end.      *)
EndRefreshAlone(c) ==
  /\ flight' = None
  /\ shown' = [shown EXCEPT ![c] = None]
  /\ awaited' = [awaited EXCEPT ![c] = None]
  /\ call' = [call EXCEPT ![c] = IF @ = "early" THEN "sent"
                                 ELSE IF token' # None THEN "resent" ELSE "refused"]
  /\ carried' = [carried EXCEPT ![c] = IF call'[c] \in Sent THEN token' ELSE @]

(* The refresh that c started ends; those who wait for it go on.           *)
EndRefresh(c) ==
  LET woken == {d \in Callers : awaited[d] = c} IN
    /\ flight' = None
    /\ shown' = [shown EXCEPT ![c] = None]
    /\ awaited' = [d \in Callers |-> IF d \in woken THEN None ELSE awaited[d]]
    /\ call' = [d \in Callers |->
                  IF d \notin woken THEN call[d]
                  ELSE IF call[d] = "early" THEN "sent"
                  ELSE IF token' # None THEN "resent" ELSE "refused"]
    /\ carried' = [d \in Callers |->
                     IF d \in woken /\ call'[d] \in Sent THEN token' ELSE carried[d]]

Exchangeable(c) == shown[c] # None /\ family = "live" /\ shown[c] = session

Exchanged(c) ==
  /\ Exchangeable(c) /\ session < MaxSession
  /\ session' = session + 1 /\ cookie' = session + 1 /\ token' = session + 1
  /\ near' = FALSE
  /\ EndRefresh(c)
  /\ UNCHANGED <<family, lost>>

(* The server exchanges the token; the answer, and the cookie in it, does  *)
(* not arrive.                                                             *)
ExchangeLost(c) ==
  /\ Exchangeable(c) /\ session < MaxSession
  /\ session' = session + 1
  /\ token' = None /\ lost' = TRUE
  /\ EndRefresh(c)
  /\ UNCHANGED <<near, cookie, family>>

(* A spent token burns the family.                                         *)
ExchangeRefused(c) ==
  /\ shown[c] # None /\ ~Exchangeable(c)
  /\ token' = None
  /\ family' = IF family = "live" THEN "reused" ELSE family
  /\ EndRefresh(c)
  /\ UNCHANGED <<near, cookie, session, lost>>

RefreshUnreachable(c) ==
  /\ shown[c] # None
  /\ token' = None
  /\ EndRefresh(c)
  /\ UNCHANGED <<near, cookie, session, family, lost>>

RefreshEnds(c) ==
  Exchanged(c) \/ ExchangeLost(c) \/ ExchangeRefused(c) \/ RefreshUnreachable(c)

(* Time passes (a bound: while an exchange can still follow); another      *)
(* device or a moderator revokes the session.                              *)
TokenAges ==
  /\ token # None /\ ~near /\ session < MaxSession
  /\ near' = TRUE
  /\ UNCHANGED <<token, flight, cookie, session, family, lost, shown, awaited, call, carried>>

Revoke ==
  /\ family = "live"
  /\ family' = "revoked"
  /\ UNCHANGED <<token, near, flight, cookie, session, lost, shown, awaited, call, carried>>

(* api.ts:59, "Two parallel 401s must not both rotate": however the calls  *)
(* of a tab overlap, the tab burns its own family by presenting a spent    *)
(* token only if the answer to an exchange was lost.                       *)
OwnRefreshesSpare == family = "reused" => lost
=============================================================================
