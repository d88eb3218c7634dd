--------------------------- MODULE WebSocketSync ---------------------------
(***************************************************************************)
(* WebSocketSyncLive of src/src/Sync.ts: one variable "ws" for the current *)
(* socket, a reconnect chain driven by onclose and setTimeout, and calls   *)
(* (push, pull, reconcile, partialSync) that send a request, register a    *)
(* message listener on the socket and end with an answer or a timeout.     *)
(*                                                                         *)
(* WebSockets and the server are external: a socket delivers what is sent  *)
(* in order until it closes, and the server answers each request it has    *)
(* processed; the answer to a push or a partial sync names no request.     *)
(***************************************************************************)
EXTENDS Integers, Sequences

CONSTANTS
  Socket,       \* the sockets: connect makes a new one each time
  First,        \* the socket of the connect that builds the layer
  Call,         \* the calls of the service's operations
  Kind,         \* Kind[c]: the operation c calls
  User,         \* what the holder of the service may call: "connect", "disconnect"
  None,         \* null
  MaxAttempts   \* maxReconnectAttempts

ASSUME SocketAssumption == First \in Socket /\ None \notin Socket
ASSUME NoneAssumption == None \notin {"online", "offline", "syncing"}
ASSUME KindAssumption == Kind \in [Call -> {"push", "pull", "reconcile", "partialSync"}]
ASSUME UserAssumption == User \subseteq {"connect", "disconnect"}
ASSUME AttemptsAssumption == MaxAttempts \in Nat

VARIABLES
  socket,      \* socket[s]: its readyState, "unused" before it is made
  ws,          \* the variable ws
  layer,       \* "starting" until the first connect ends, "ready" or "failed"
  attempts,    \* reconnectAttempts
  reconnects,  \* the number of pending reconnect timers
  again,       \* ghost: the holder of the service has called connect
  status,      \* the last element offered to statusQueue, None before
  call,        \* call[c]: "idle", "checked", "sent", "ok" or "error"
  timers,      \* the calls whose timeout is pending
  listeners,   \* the <<call, socket>> pairs of the registered message listeners
  toServer,    \* external: toServer[s]: the requests under way
  toClient,    \* external: toClient[s]: the answers under way
  received     \* external: the calls whose request the server has processed

link == <<socket, ws, layer, attempts, reconnects, again>>
calls == <<call, timers, listeners>>
net == <<toServer, toClient, received>>
vars == <<link, status, calls, net>>

\* connect: the new socket replaces whatever ws held.
Connecting(s) ==
  /\ socket[s] = "unused"
  /\ socket' = [socket EXCEPT ![s] = "connecting"]
  /\ ws' = s

Init ==
  /\ socket = [s \in Socket |-> IF s = First THEN "connecting" ELSE "unused"]
  /\ ws = First
  /\ layer = "starting"
  /\ attempts = 0
  /\ reconnects = 0
  /\ again = FALSE
  /\ status = None
  /\ call = [c \in Call |-> "idle"]
  /\ timers = {}
  /\ listeners = {}
  /\ toServer = [s \in Socket |-> <<>>]
  /\ toClient = [s \in Socket |-> <<>>]
  /\ received = {}

-----------------------------------------------------------------------------
(* The connection.                                                          *)

\* Mutant of Opens: a restored connection is not announced.
OpensSilently(s) ==
  /\ socket[s] = "connecting"
  /\ socket' = [socket EXCEPT ![s] = "open"]
  /\ layer' = IF layer = "starting" /\ s = First THEN "ready" ELSE layer
  /\ attempts' = 0
  /\ UNCHANGED <<ws, reconnects, again, status, calls, net>>

\* onopen
Opens(s) ==
  /\ socket[s] = "connecting"
  /\ socket' = [socket EXCEPT ![s] = "open"]
  /\ layer' = IF layer = "starting" /\ s = First THEN "ready" ELSE layer
  /\ attempts' = 0
  /\ status' = "online"
  /\ UNCHANGED <<ws, reconnects, again, calls, net>>

\* Mutant of Schedules: the attempts are not counted against the limit.
SchedulesAlways == reconnects' = reconnects + 1

\* The part of onclose that sets the timer of the next attempt.
Schedules == reconnects' = reconnects + IF attempts < MaxAttempts THEN 1 ELSE 0

\* onerror, if the connection failed, and onclose; what is under way is lost.
\* It makes no difference whether the close was asked for by disconnect.
Closes(s) ==
  /\ socket[s] \in {"connecting", "open", "closing"}
  /\ socket' = [socket EXCEPT ![s] = "closed"]
  /\ layer' = IF layer = "starting" /\ s = First THEN "failed" ELSE layer
  /\ status' = "offline"
  /\ Schedules
  /\ toServer' = [toServer EXCEPT ![s] = <<>>]
  /\ toClient' = [toClient EXCEPT ![s] = <<>>]
  /\ UNCHANGED <<ws, attempts, again, calls, received>>

\* The reconnect timer fires.
Reconnect(s) ==
  /\ reconnects > 0
  /\ reconnects' = reconnects - 1
  /\ attempts' = attempts + 1
  /\ Connecting(s)
  /\ UNCHANGED <<layer, again, status, calls, net>>

\* The holder of the service calls connect.
Connect(s) ==
  /\ "connect" \in User /\ layer = "ready"
  /\ Connecting(s)
  /\ again' = TRUE
  /\ UNCHANGED <<layer, attempts, reconnects, status, calls, net>>

\* The holder of the service calls disconnect: ws.close() and ws = null.
Disconnect ==
  /\ "disconnect" \in User /\ layer = "ready" /\ ws # None
  /\ socket' = [socket EXCEPT ![ws] = IF @ = "closed" THEN @ ELSE "closing"]
  /\ ws' = None
  /\ UNCHANGED <<layer, attempts, reconnects, again, status, calls, net>>

-----------------------------------------------------------------------------
(* The calls.                                                               *)

IsOpen == ws # None /\ socket[ws] = "open"

\* Not connected: the call fails at once.
Refuse(c) ==
  /\ layer = "ready" /\ call[c] = "idle"
  /\ ~IsOpen
  /\ call' = [call EXCEPT ![c] = "error"]
  /\ UNCHANGED <<link, status, timers, listeners, net>>

\* Connected; all but pull announce "syncing" before they send.
Check(c) ==
  /\ layer = "ready" /\ call[c] = "idle"
  /\ IsOpen
  /\ call' = [call EXCEPT ![c] = "checked"]
  /\ status' = IF Kind[c] = "pull" THEN status ELSE "syncing"
  /\ UNCHANGED <<link, timers, listeners, net>>

\* ws.send throws when ws is null or still connecting.
SendThrows(c) ==
  /\ call[c] = "checked"
  /\ ~(ws # None /\ socket[ws] # "connecting")
  /\ call' = [call EXCEPT ![c] = "error"]
  /\ UNCHANGED <<link, status, timers, listeners, net>>

\* A socket that is closing or closed discards what is sent.
Send(c) ==
  /\ call[c] = "checked"
  /\ ws # None /\ socket[ws] # "connecting"
  /\ call' = [call EXCEPT ![c] = "sent"]
  /\ timers' = timers \cup {c}
  /\ listeners' = listeners \cup {<<c, ws>>}
  /\ toServer' = IF socket[ws] = "open"
                   THEN [toServer EXCEPT ![ws] = Append(@, c)] ELSE toServer
  /\ UNCHANGED <<link, status, toClient, received>>

\* Mutant of Answers: no answer is matched with its request.
AnswersAny(c, m) == Kind[m] = Kind[c]

\* The listener of c takes the answer to m for its own: pull and reconcile
\* compare the id of the request; push takes every "ack", and partialSync
\* every "partial-sync-complete".
Answers(c, m) ==
  IF Kind[c] \in {"pull", "reconcile"} THEN m = c ELSE Kind[m] = Kind[c]

\* A message on s: each listener that takes it clears its timeout, removes
\* itself from the socket ws holds by now, and ends its call.
Deliver(s) ==
  LET m == Head(toClient[s])
      taken == {c \in Call : <<c, s>> \in listeners /\ Answers(c, m)}
  IN /\ socket[s] = "open" /\ toClient[s] # <<>>
     /\ ws # None \/ taken = {}
     /\ timers' = timers \ taken
     /\ listeners' = listeners \ {<<c, ws>> : c \in taken}
     /\ call' = [c \in Call |-> IF c \in taken /\ call[c] = "sent" THEN "ok" ELSE call[c]]
     /\ status' = IF \E c \in taken : Kind[c] # "pull" THEN "online" ELSE status
     /\ toClient' = [toClient EXCEPT ![s] = Tail(@)]
     /\ UNCHANGED <<link, toServer, received>>

\* ws is null: the listeners clear their timeouts and throw before they end
\* their calls.
DeliverThrows(s) ==
  LET m == Head(toClient[s])
      taken == {c \in Call : <<c, s>> \in listeners /\ Answers(c, m)}
  IN /\ socket[s] = "open" /\ toClient[s] # <<>>
     /\ ws = None /\ taken # {}
     /\ timers' = timers \ taken
     /\ toClient' = [toClient EXCEPT ![s] = Tail(@)]
     /\ UNCHANGED <<link, status, call, listeners, toServer, received>>

\* Mutants of Timeout: it fires again and again; it only fires while the
\* connection stands.
TimeoutRepeats(c) ==
  /\ c \in timers
  /\ call' = [call EXCEPT ![c] = "error"]
  /\ UNCHANGED <<link, status, timers, listeners, net>>

TimeoutOnline(c) ==
  /\ c \in timers /\ IsOpen
  /\ timers' = timers \ {c}
  /\ call' = [call EXCEPT ![c] = "error"]
  /\ UNCHANGED <<link, status, listeners, net>>

\* The timeout ends the call and leaves its listener where it is.
Timeout(c) ==
  /\ c \in timers
  /\ timers' = timers \ {c}
  /\ call' = [call EXCEPT ![c] = "error"]
  /\ UNCHANGED <<link, status, listeners, net>>

\* External: the server processes the next request and answers it.
Serve(s) ==
  /\ socket[s] = "open" /\ toServer[s] # <<>>
  /\ received' = received \cup {Head(toServer[s])}
  /\ toServer' = [toServer EXCEPT ![s] = Tail(@)]
  /\ toClient' = [toClient EXCEPT ![s] = Append(@, Head(toServer[s]))]
  /\ UNCHANGED <<link, status, calls>>

-----------------------------------------------------------------------------
Begin(c) == Refuse(c) \/ Check(c)

CallStep(c) == SendThrows(c) \/ Send(c) \/ Timeout(c)

Event(s) == Opens(s) \/ Closes(s) \/ Reconnect(s) \/ Connect(s)
            \/ Deliver(s) \/ DeliverThrows(s) \/ Serve(s)

Next ==
  \/ \E c \in Call : Begin(c) \/ CallStep(c)
  \/ \E s \in Socket : Event(s)
  \/ Disconnect

Spec == Init /\ [][Next]_vars

\* The runtime goes on with a call that has begun, and timers fire.  Nothing
\* is asked of the network, of the server, or of the holder of the service.
FairSpec == Spec /\ \A c \in Call : WF_vars(CallStep(c))

-----------------------------------------------------------------------------
(* Properties.                                                              *)

\* Every variable holds a value of its kind; a pending timeout and a listener
\* belong to a call that has sent its request.
TypeOK ==
  /\ socket \in [Socket -> {"unused", "connecting", "open", "closing", "closed"}]
  /\ ws \in Socket \cup {None}
  /\ ws # None => socket[ws] # "unused"
  /\ layer \in {"starting", "ready", "failed"} /\ again \in BOOLEAN
  /\ attempts \in Nat /\ reconnects \in Nat
  /\ status \in {None, "online", "offline", "syncing"}
  /\ call \in [Call -> {"idle", "checked", "sent", "ok", "error"}]
  /\ timers \subseteq {c \in Call : call[c] = "sent"}
  /\ listeners \subseteq {c \in Call : call[c] \in {"sent", "ok", "error"}} \X Socket
  /\ toServer \in [Socket -> Seq(Call)]
  /\ toClient \in [Socket -> Seq(Call)]
  /\ received \subseteq Call

Live == {s \in Socket : socket[s] \in {"connecting", "open", "closing"}}

\* The reconnect chain is one chain: there is a socket, or the timer that will
\* make the next one, never two of them; and when there is neither, every
\* attempt is used up.
OneChain ==
  ~again =>
    /\ \A s, t \in Live : s = t
    /\ Live # {} => reconnects = 0
    /\ reconnects <= 1
    /\ Live = {} /\ reconnects = 0 => attempts >= MaxAttempts
    /\ attempts <= MaxAttempts

\* What the status stream says last is so: "online" with a socket that is not
\* closed yet, "offline" without an open one.
StatusTruthful ==
  ~again =>
    /\ status = "online" => \E s \in Socket : socket[s] \in {"open", "closing"}
    /\ status = "offline" => \A s \in Socket : socket[s] # "open"

Processed(kinds) ==
  \A c \in Call : Kind[c] \in kinds /\ call[c] = "ok" => c \in received

\* A pull or a reconcile that succeeds has been processed by the server,
\* although answers arrive late and requests and listeners outlive their calls
\* and sockets.
AnsweredMeansProcessed == Processed({"pull", "reconcile"})

\* The same of a push: it succeeds only if the server has its operations.
PushedMeansProcessed == Processed({"push"})

\* Every call that is under way ends, unless connect has replaced the socket
\* its answer may still come from.
CallsEnd ==
  [](~again) => \A c \in Call : call[c] = "sent" ~> call[c] \in {"ok", "error"}

=============================================================================
