------------------------------- MODULE Launch -------------------------------
(***************************************************************************)
(* Launcher::LaunchApp, HandleNewConnection and HandleMessage              *)
(* (launcher.cc, launch.h): for each app that is launched, the Launcher    *)
(* listens on a port until a client connects or a timer expires, and gives *)
(* the client until the timer's second expiry.                             *)
(*                                                                         *)
(* Three actors share a Launch: the thread that called LaunchApp, the timer*)
(* (whose handlers are run by any thread of asio_service_ and dispatch     *)
(* themselves onto the strand) and the strand, which runs one handler at a *)
(* time in the order they were dispatched.  asio and the tcp classes of    *)
(* maidsafe_common are external; what is assumed of them is said at        *)
(* Connect, TimerExpires and ClientCloses.                                 *)
(***************************************************************************)
EXTENDS FiniteSets, SequencesExt

CONSTANTS
    Launches,      \* calls of LaunchApp
    StrayClients   \* whether a client connects that was not told the port

ASSUME StrayClientsIsBoolean == StrayClients \in BOOLEAN

VARIABLES
    caller,      \* caller[l]: what the caller of LaunchApp does next
    accepting,   \* accepting[l]: the port accepts clients
    listener,    \* listener[l]: launch->listener is not null
    waits,       \* waits[l]: what timer.async_wait is waiting for
    strand,      \* strand[l]: handlers dispatched and not yet run
    connection,  \* connection[l]: the client's connection
    undefined    \* a null pointer was followed: nothing can be said any more

vars == <<caller, accepting, listener, waits, strand, connection, undefined>>

Callers == {"idle", "assign", "wait", "port", "done"}
Waits == {"connect", "handshake"}
Handlers == {"connected", "connectTimeout", "handshakeTimeout"}
Connections == {"none", "open", "dropped", "closed"}

Init ==
    /\ caller = [l \in Launches |-> "idle"]
    /\ accepting = [l \in Launches |-> FALSE]
    /\ listener = [l \in Launches |-> FALSE]
    /\ waits = [l \in Launches |-> {}]
    /\ strand = [l \in Launches |-> <<>>]
    /\ connection = [l \in Launches |-> "none"]
    /\ undefined = FALSE

-----------------------------------------------------------------------------
(* The caller.  The port is open before launch->listener points at the
   Listener, and the timer is waited for after that. *)

Listen(l) ==
    /\ caller[l] = "idle"
    /\ caller' = [caller EXCEPT ![l] = "assign"]
    /\ accepting' = [accepting EXCEPT ![l] = TRUE]
    /\ UNCHANGED <<listener, waits, strand, connection, undefined>>

AssignListener(l) ==
    /\ caller[l] = "assign"
    /\ caller' = [caller EXCEPT ![l] = "wait"]
    /\ listener' = [listener EXCEPT ![l] = TRUE]
    /\ UNCHANGED <<accepting, waits, strand, connection, undefined>>

WaitLeftOut(l) ==      \* no timer.async_wait
    /\ caller[l] = "wait"
    /\ caller' = [caller EXCEPT ![l] = "port"]
    /\ UNCHANGED <<accepting, listener, waits, strand, connection, undefined>>

WaitForConnection(l) ==
    /\ caller[l] = "wait"
    /\ caller' = [caller EXCEPT ![l] = "port"]
    /\ waits' = [waits EXCEPT ![l] = @ \cup {"connect"}]
    /\ UNCHANGED <<accepting, listener, strand, connection, undefined>>

(* launch->listener->ListeningPort(), by the caller: a handler on the strand may
   have reset the listener. *)
ReadPort(l) ==
    /\ caller[l] = "port"
    /\ caller' = [caller EXCEPT ![l] = "done"]
    /\ undefined' = ~listener[l]
    /\ UNCHANGED <<accepting, listener, waits, strand, connection>>

-----------------------------------------------------------------------------
(* asio and the client. *)

Dispatch(l, handler) == strand' = [strand EXCEPT ![l] = Append(@, handler)]

(* The app connects when it has been started with the port as an argument; but
   whatever connects to the port on the loopback address is taken for it.  The
   Listener accepts the next client when the handler of this one has run. *)
Connect(l) ==
    /\ accepting[l]
    /\ StrayClients \/ caller[l] = "done"
    /\ "connected" \notin Range(strand[l])
    /\ Dispatch(l, "connected")
    /\ UNCHANGED <<caller, accepting, listener, waits, connection, undefined>>

(* The deadline passes: a wait that has completed cannot be cancelled any
   more.  The handler dispatches the rest onto the strand. *)
Timeout(wait) == IF wait = "connect" THEN "connectTimeout" ELSE "handshakeTimeout"

TimerExpires(l) ==
    /\ \E wait \in waits[l] :
           /\ waits' = [waits EXCEPT ![l] = @ \ {wait}]
           /\ Dispatch(l, Timeout(wait))
    /\ UNCHANGED <<caller, accepting, listener, connection, undefined>>

(* The client closes, or the connection fails: the handler given to
   connection->Start cancels the timer. *)
ClientCloses(l) ==
    /\ connection[l] = "open"
    /\ connection' = [connection EXCEPT ![l] = "closed"]
    /\ waits' = [waits EXCEPT ![l] = {}]
    /\ UNCHANGED <<caller, accepting, listener, strand, undefined>>

-----------------------------------------------------------------------------
(* The strand. *)

Runs(l, handler) ==
    /\ strand[l] # <<>>
    /\ Head(strand[l]) = handler
    /\ strand' = [strand EXCEPT ![l] = Tail(@)]

(* HandleNewConnection starts with launch->listener->StopListening() and
   launch->listener.reset(). *)
StopWithoutReset(l) ==   \* slip: no launch->listener.reset()
    /\ accepting' = [accepting EXCEPT ![l] = FALSE]
    /\ undefined' = ~listener[l]
    /\ UNCHANGED listener

StopListening(l) ==
    /\ accepting' = [accepting EXCEPT ![l] = FALSE]
    /\ listener' = [listener EXCEPT ![l] = FALSE]
    /\ undefined' = ~listener[l]

ConnectionTimesOut(l) ==
    /\ Runs(l, "connectTimeout")
    /\ StopListening(l)
    /\ UNCHANGED <<caller, waits, connection>>

(* expires_from_now cancels the waits and says how many there were; where
   there were none the connection is let go. *)
Cancelled(l) == Cardinality(waits[l])

NewConnectionUntimed(l) ==   \* slip: no second timer.async_wait
    /\ Runs(l, "connected")
    /\ accepting[l]
    /\ StopListening(l)
    /\ Cancelled(l) > 0
    /\ waits' = [waits EXCEPT ![l] = {}]
    /\ connection' = [connection EXCEPT ![l] = "open"]
    /\ UNCHANGED caller

NewConnectionUnchecked(l) ==   \* slip: the result of expires_from_now not looked at
    /\ Runs(l, "connected")
    /\ accepting[l]
    /\ StopListening(l)
    /\ waits' = [waits EXCEPT ![l] = {"handshake"}]
    /\ connection' = [connection EXCEPT ![l] = "open"]
    /\ UNCHANGED caller

NewConnection(l) ==
    /\ Runs(l, "connected")
    /\ accepting[l]
    /\ StopListening(l)
    /\ \/ /\ Cancelled(l) > 0
          /\ waits' = [waits EXCEPT ![l] = {"handshake"}]
          /\ connection' = [connection EXCEPT ![l] = "open"]
       \/ /\ Cancelled(l) = 0
          /\ connection' = [connection EXCEPT ![l] = "dropped"]
          /\ UNCHANGED waits
    /\ UNCHANGED caller

(* The Listener does not pass on a client that it accepted before it stopped. *)
ConnectionIsLate(l) ==
    /\ Runs(l, "connected")
    /\ ~accepting[l]
    /\ UNCHANGED <<caller, accepting, listener, waits, connection, undefined>>

(* connection->Close(), after which the timer is cancelled as above. *)
HandshakeTimesOut(l) ==
    /\ Runs(l, "handshakeTimeout")
    /\ connection' = [connection EXCEPT ![l] = "closed"]
    /\ waits' = [waits EXCEPT ![l] = {}]
    /\ UNCHANGED <<caller, accepting, listener, undefined>>

-----------------------------------------------------------------------------
Call(l) == Listen(l) \/ AssignListener(l) \/ WaitForConnection(l) \/ ReadPort(l)

Run(l) ==
    NewConnection(l) \/ ConnectionIsLate(l) \/ ConnectionTimesOut(l) \/ HandshakeTimesOut(l)

Step(l) == Call(l) \/ Connect(l) \/ TimerExpires(l) \/ ClientCloses(l) \/ Run(l)

(* HandleMessage does nothing yet, so a handshake ends with its connection. *)
Finished(l) == /\ caller[l] = "done"
               /\ ~accepting[l]
               /\ strand[l] = <<>>
               /\ connection[l] # "open"

Next ==
    \/ ~undefined /\ \E l \in Launches : Step(l)
    \/ (undefined \/ \A l \in Launches : Finished(l)) /\ UNCHANGED vars

(* The caller, the timer and the strand go on; no client need come or go. *)
Fairness ==
    \A l \in Launches :
        /\ WF_vars(~undefined /\ Call(l))
        /\ WF_vars(~undefined /\ TimerExpires(l))
        /\ WF_vars(~undefined /\ Run(l))

Spec == Init /\ [][Next]_vars /\ Fairness

-----------------------------------------------------------------------------
TypeOK ==
    /\ caller \in [Launches -> Callers]
    /\ accepting \in [Launches -> BOOLEAN]
    /\ listener \in [Launches -> BOOLEAN]
    /\ waits \in [Launches -> SUBSET Waits]
    /\ strand \in [Launches -> Seq(Handlers)]
    /\ connection \in [Launches -> Connections]
    /\ undefined \in BOOLEAN
    /\ \A l \in Launches : listener[l] => accepting[l]

(* "The time from the connection being established until the Launcher receives
   the final confirmation from the app must be within the 'handshake_timeout_'
   duration or the launch fails" (launcher.h:132): an open connection has its
   timer running, or the strand is about to close it. *)
OpenIsTimed ==
    \A l \in Launches : connection[l] = "open" =>
        waits[l] # {} \/ "handshakeTimeout" \in Range(strand[l])

(* A client that came in time is not cut off by the first deadline: once its
   connection is open, no handler for that deadline is left or will be. *)
ConnectDeadlineIsOver ==
    \A l \in Launches : connection[l] = "open" =>
        "connect" \notin waits[l] /\ "connectTimeout" \notin Range(strand[l])

(* The app must connect "within the 'connect_timeout_' duration or the launch
   attempt fails" (launcher.h:124): from the moment that LaunchApp waits, a port that
   is open has its deadline ahead, or the strand is about to close it. *)
PortIsTimed ==
    \A l \in Launches : accepting[l] /\ caller[l] \in {"port", "done"} =>
        "connect" \in waits[l] \/ "connectTimeout" \in Range(strand[l])

(* A launch comes to an end: the port is closed and so is the connection, if
   there was one.  Or it ends in undefined behaviour, of which LateLaunchFails shows
   one case. *)
LaunchEnds == \A l \in Launches : (caller[l] = "port") ~> (undefined \/ Finished(l))

(* The app "must then establish a TCP connection to the launcher on the loopback
   address at this port within the 'connect_timeout_' duration or the launch
   attempt fails" (launcher.h:122-124): once LaunchApp has returned, an app that comes
   late, or just as the time is up, is a launch that fails, and no handler on the
   strand follows a null pointer.  (Before that, LaunchApp itself may: at
   launch->listener->ListeningPort(), which is ReadPort's.  And without stray
   clients, which come before that as well.) *)
LateLaunchFails ==
    [][(\A l \in Launches : caller[l] = "done") => ~undefined']_vars
=============================================================================
