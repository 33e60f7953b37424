---------------------------- MODULE LaunchProofs ----------------------------
(* The deadlines of a launch, for any number of launches, with and without stray
   clients. *)
EXTENDS Launch, FiniteSetTheorems, TLAPS

-----------------------------------------------------------------------------
(* Which handlers are on a strand after one was dispatched or has run. *)

LEMMA RangeOfAppend ==
    ASSUME NEW s \in Seq(Handlers), NEW h \in Handlers
    PROVE  Append(s, h) \in Seq(Handlers) /\ Range(Append(s, h)) = Range(s) \cup {h}
  <1>1. DOMAIN Append(s, h) = DOMAIN s \cup {Len(s) + 1}
    OBVIOUS
  <1>2. \A i \in DOMAIN s : Append(s, h)[i] = s[i]
    OBVIOUS
  <1>3. Append(s, h)[Len(s) + 1] = h
    OBVIOUS
  <1> QED
    BY <1>1, <1>2, <1>3 DEF Range

LEMMA RangeOfTail ==
    ASSUME NEW s \in Seq(Handlers), s # <<>>
    PROVE  Tail(s) \in Seq(Handlers) /\ Range(s) = Range(Tail(s)) \cup {Head(s)}
  <1>1. Len(s) \in Nat \ {0} /\ Len(Tail(s)) = Len(s) - 1 /\ Head(s) = s[1]
    OBVIOUS
  <1>2. \A i \in 1 .. Len(s) - 1 : Tail(s)[i] = s[i + 1]
    OBVIOUS
  <1>3. ASSUME NEW h \in Range(s) PROVE h \in Range(Tail(s)) \cup {Head(s)}
    <2>1. PICK i \in 1 .. Len(s) : h = s[i]
      BY DEF Range
    <2>2. CASE i = 1
      BY <1>1, <2>1, <2>2
    <2>3. CASE i # 1
      <3>1. i - 1 \in DOMAIN Tail(s) /\ Tail(s)[i - 1] = s[i]
        BY <1>1, <1>2, <2>3
      <3> QED
        BY <2>1, <3>1 DEF Range
    <2> QED
      BY <2>2, <2>3
  <1>4. ASSUME NEW h \in Range(Tail(s)) PROVE h \in Range(s)
    <2>1. PICK i \in 1 .. Len(s) - 1 : h = Tail(s)[i]
      BY <1>1 DEF Range
    <2>2. i + 1 \in DOMAIN s /\ h = s[i + 1]
      BY <1>1, <1>2, <2>1
    <2> QED
      BY <2>2 DEF Range
  <1>5. Head(s) \in Range(s)
    <2>1. 1 \in DOMAIN s
      BY <1>1
    <2> QED
      BY <1>1, <2>1 DEF Range
  <1> QED
    BY <1>3, <1>4, <1>5

-----------------------------------------------------------------------------
(* The inductive invariant.  A launch waits for its connection once, from "wait" on:
   the wait, the handler it becomes and the connection exclude one another as said
   here, so that a connection which cancels the wait cancels the only one. *)

BeforeWait == {"idle", "assign", "wait"}
NotOpened == {"none", "dropped"}

LaunchInv(l) ==
    /\ caller[l] = "idle" => ~accepting[l] /\ connection[l] = "none"
    /\ caller[l] = "assign" /\ ~undefined => accepting[l]
    /\ caller[l] \in {"idle", "assign"} => ~listener[l]
    /\ listener[l] => accepting[l]
    /\ accepting[l] => connection[l] = "none"
    /\ accepting[l] /\ caller[l] \in {"port", "done"} =>
           "connect" \in waits[l] \/ "connectTimeout" \in Range(strand[l])
    /\ caller[l] \in BeforeWait =>
           /\ connection[l] \in NotOpened
           /\ "connect" \notin waits[l] /\ "connectTimeout" \notin Range(strand[l])
    /\ connection[l] \in NotOpened =>
           "handshake" \notin waits[l] /\ "handshakeTimeout" \notin Range(strand[l])
    /\ "connect" \in waits[l] =>
           connection[l] \in NotOpened /\ "connectTimeout" \notin Range(strand[l])
    /\ connection[l] = "open" =>
           /\ "connectTimeout" \notin Range(strand[l])
           /\ waits[l] # {} \/ "handshakeTimeout" \in Range(strand[l])

Types ==
    /\ caller \in [Launches -> Callers]
    /\ accepting \in [Launches -> BOOLEAN]
    /\ listener \in [Launches -> BOOLEAN]
    /\ waits \in [Launches -> SUBSET Waits]
    /\ strand \in [Launches -> Seq(Handlers)]
    /\ connection \in [Launches -> Connections]
    /\ undefined \in BOOLEAN

Inv == Types /\ \A l \in Launches : LaunchInv(l)

LEMMA InitHolds == Init => Inv
  <1> SUFFICES ASSUME Init PROVE Inv
    OBVIOUS
  <1>1. Types
    <2>1. <<>> \in Seq(Handlers)
      OBVIOUS
    <2> QED
      BY <2>1 DEF Init, Types, Callers, Waits, Connections
  <1>2. ASSUME NEW l \in Launches PROVE LaunchInv(l)
    <2>1. Range(<<>>) = {}
      BY DEF Range
    <2>2. /\ caller[l] = "idle" /\ accepting[l] = FALSE /\ listener[l] = FALSE
          /\ waits[l] = {} /\ strand[l] = <<>> /\ connection[l] = "none"
      BY DEF Init
    <2> QED
      BY <2>1, <2>2 DEF LaunchInv, BeforeWait, NotOpened
  <1> QED
    BY <1>1, <1>2 DEF Inv

(* A step of a launch keeps to its own elements of the variables. *)
OtherLaunches(l) ==
    \A k \in Launches \ {l} :
        /\ caller'[k] = caller[k] /\ accepting'[k] = accepting[k]
        /\ listener'[k] = listener[k] /\ waits'[k] = waits[k]
        /\ strand'[k] = strand[k] /\ connection'[k] = connection[k]

LEMMA OthersKeepInv ==
    ASSUME Inv, ~undefined, NEW l \in Launches, OtherLaunches(l),
           NEW k \in Launches, k # l
    PROVE  LaunchInv(k)'
  BY DEF Inv, OtherLaunches, LaunchInv

(* A strand with a new handler, and one from which the first was taken. *)
LEMMA DispatchValue ==
    ASSUME Types, NEW l \in Launches, NEW h \in Handlers, Dispatch(l, h)
    PROVE  /\ strand' \in [Launches -> Seq(Handlers)]
           /\ Range(strand'[l]) = Range(strand[l]) \cup {h}
           /\ \A k \in Launches \ {l} : strand'[k] = strand[k]
  BY RangeOfAppend DEF Types, Dispatch

LEMMA RunsValue ==
    ASSUME Types, NEW l \in Launches, NEW h, Runs(l, h)
    PROVE  /\ strand' \in [Launches -> Seq(Handlers)]
           /\ Range(strand[l]) = Range(strand'[l]) \cup {h}
           /\ \A k \in Launches \ {l} : strand'[k] = strand[k]
  BY RangeOfTail DEF Types, Runs

StepGoal(l) == Types' /\ OtherLaunches(l) /\ LaunchInv(l)'

LEMMA CallKeepsInv ==
    ASSUME Inv, ~undefined, NEW l \in Launches, Call(l)
    PROVE  StepGoal(l)
  <1> USE DEF Inv, Types, StepGoal, OtherLaunches, LaunchInv, BeforeWait, NotOpened, Callers
  <1>1. CASE Listen(l)
    BY <1>1 DEF Listen
  <1>2. CASE AssignListener(l)
    BY <1>2 DEF AssignListener
  <1>3. CASE WaitForConnection(l)
    BY <1>3 DEF WaitForConnection, Waits
  <1>4. CASE ReadPort(l)
    BY <1>4 DEF ReadPort
  <1> QED
    BY <1>1, <1>2, <1>3, <1>4 DEF Call

LEMMA OutsideKeepsInv ==
    ASSUME Inv, ~undefined, NEW l \in Launches, Connect(l) \/ TimerExpires(l) \/ ClientCloses(l)
    PROVE  StepGoal(l)
  <1> USE DEF Inv, Types, StepGoal, OtherLaunches, LaunchInv, BeforeWait, NotOpened
  <1>1. CASE Connect(l)
    <2>1. /\ strand' \in [Launches -> Seq(Handlers)]
          /\ Range(strand'[l]) = Range(strand[l]) \cup {"connected"}
          /\ \A k \in Launches \ {l} : strand'[k] = strand[k]
      BY <1>1, DispatchValue DEF Connect, Handlers
    <2> QED
      BY <1>1, <2>1 DEF Connect
  <1>2. CASE TimerExpires(l)
    <2>1. PICK wait \in waits[l] :
              waits' = [waits EXCEPT ![l] = @ \ {wait}] /\ Dispatch(l, Timeout(wait))
      BY <1>2 DEF TimerExpires
    <2>2. wait \in Waits /\ Timeout(wait) \in Handlers
      BY <2>1 DEF Waits, Timeout, Handlers
    <2>3. /\ strand' \in [Launches -> Seq(Handlers)]
          /\ Range(strand'[l]) = Range(strand[l]) \cup {Timeout(wait)}
          /\ \A k \in Launches \ {l} : strand'[k] = strand[k]
      BY <2>1, <2>2, DispatchValue
    <2>4. UNCHANGED <<caller, accepting, listener, connection, undefined>>
      BY <1>2 DEF TimerExpires
    <2>5. Types' /\ OtherLaunches(l)
      BY <2>1, <2>3, <2>4
    <2>6. CASE wait = "connect"
      BY <2>1, <2>3, <2>4, <2>5, <2>6 DEF Timeout, Waits
    <2>7. CASE wait = "handshake"
      BY <2>1, <2>3, <2>4, <2>5, <2>7 DEF Timeout, Waits
    <2> QED
      BY <2>2, <2>6, <2>7 DEF Waits
  <1>3. CASE ClientCloses(l)
    BY <1>3 DEF ClientCloses, Connections
  <1> QED
    BY <1>1, <1>2, <1>3

LEMMA RunKeepsInv ==
    ASSUME Inv, ~undefined, NEW l \in Launches, Run(l)
    PROVE  StepGoal(l)
  <1> USE DEF Inv, Types, StepGoal, OtherLaunches, LaunchInv, BeforeWait, NotOpened
  <1>1. CASE NewConnection(l)
    <2>1. /\ strand' \in [Launches -> Seq(Handlers)]
          /\ Range(strand[l]) = Range(strand'[l]) \cup {"connected"}
          /\ \A k \in Launches \ {l} : strand'[k] = strand[k]
      BY <1>1, RunsValue DEF NewConnection
    <2>2. accepting[l] /\ connection[l] = "none" /\ waits[l] \subseteq {"connect"}
      BY <1>1 DEF NewConnection, Waits
    <2>3. CASE Cancelled(l) > 0
      <3>1. "connect" \in waits[l]
        <4>1. waits[l] # {}
          BY ONLY <2>3, FS_EmptySet DEF Cancelled
        <4> QED
          BY <2>2, <4>1
      <3>2. /\ waits' = [waits EXCEPT ![l] = {"handshake"}]
            /\ connection' = [connection EXCEPT ![l] = "open"]
        BY ONLY <1>1, <2>3 DEF NewConnection
      <3> QED
        BY <1>1, <2>1, <2>2, <3>1, <3>2 DEF NewConnection, StopListening, Waits, Connections
    <2>4. CASE ~(Cancelled(l) > 0)
      <3>1. UNCHANGED waits /\ connection' = [connection EXCEPT ![l] = "dropped"]
        BY ONLY <1>1, <2>4 DEF NewConnection
      <3> QED
        BY <1>1, <2>1, <2>2, <3>1 DEF NewConnection, StopListening, Connections
    <2> QED
      BY <2>3, <2>4
  <1>2. CASE ConnectionIsLate(l)
    <2>1. /\ strand' \in [Launches -> Seq(Handlers)]
          /\ Range(strand[l]) = Range(strand'[l]) \cup {"connected"}
          /\ \A k \in Launches \ {l} : strand'[k] = strand[k]
      BY <1>2, RunsValue DEF ConnectionIsLate
    <2> QED
      BY <1>2, <2>1 DEF ConnectionIsLate
  <1>3. CASE ConnectionTimesOut(l)
    <2>1. /\ strand' \in [Launches -> Seq(Handlers)]
          /\ Range(strand[l]) = Range(strand'[l]) \cup {"connectTimeout"}
          /\ \A k \in Launches \ {l} : strand'[k] = strand[k]
      BY <1>3, RunsValue DEF ConnectionTimesOut
    <2> QED
      BY <1>3, <2>1 DEF ConnectionTimesOut, StopListening
  <1>4. CASE HandshakeTimesOut(l)
    <2>1. /\ strand' \in [Launches -> Seq(Handlers)]
          /\ Range(strand[l]) = Range(strand'[l]) \cup {"handshakeTimeout"}
          /\ \A k \in Launches \ {l} : strand'[k] = strand[k]
      BY <1>4, RunsValue DEF HandshakeTimesOut
    <2> QED
      BY <1>4, <2>1 DEF HandshakeTimesOut, Connections
  <1> QED
    BY <1>1, <1>2, <1>3, <1>4 DEF Run

THEOREM InvHolds == Spec => []Inv
  <1>1. Init => Inv
    BY InitHolds
  <1>2. Inv /\ [Next]_vars => Inv'
    <2> SUFFICES ASSUME Inv, [Next]_vars PROVE Inv'
      OBVIOUS
    <2>1. ASSUME ~undefined, NEW l \in Launches, Step(l)
          PROVE  Inv'
      <3>1. StepGoal(l)
        BY <2>1, CallKeepsInv, OutsideKeepsInv, RunKeepsInv DEF Step
      <3>2. ASSUME NEW k \in Launches PROVE LaunchInv(k)'
        BY <2>1, <3>1, OthersKeepInv DEF StepGoal
      <3> QED
        BY <3>1, <3>2 DEF Inv, StepGoal
    <2>2. CASE UNCHANGED vars
      BY <2>2 DEF vars, Inv, Types, LaunchInv
    <2> QED
      BY <2>1, <2>2 DEF Next
  <1> QED
    BY <1>1, <1>2, PTL DEF Spec

-----------------------------------------------------------------------------
(* All variables keep their types, and a listener that is there accepts. *)
THEOREM TypesHold == Spec => []TypeOK
  <1>1. Inv => TypeOK
    BY DEF Inv, Types, LaunchInv, TypeOK
  <1> QED
    BY <1>1, InvHolds, PTL

(* No client keeps a connection without a deadline. *)
THEOREM ConnectionsAreTimed == Spec => []OpenIsTimed
  <1>1. Inv => OpenIsTimed
    BY DEF Inv, LaunchInv, OpenIsTimed
  <1> QED
    BY <1>1, InvHolds, PTL

(* No port is left open without a deadline. *)
THEOREM PortsAreTimed == Spec => []PortIsTimed
  <1>1. Inv => PortIsTimed
    BY DEF Inv, LaunchInv, PortIsTimed
  <1> QED
    BY <1>1, InvHolds, PTL

(* No client that came in time is cut off by the deadline it has met. *)
THEOREM FirstDeadlineIsOver == Spec => []ConnectDeadlineIsOver
  <1>1. Inv => ConnectDeadlineIsOver
    BY DEF Inv, LaunchInv, NotOpened, ConnectDeadlineIsOver
  <1> QED
    BY <1>1, InvHolds, PTL
=============================================================================
