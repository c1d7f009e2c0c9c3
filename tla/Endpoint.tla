------------------------------ MODULE Endpoint ------------------------------
(***************************************************************************)
(* IrohSyncTransport: callers start the native endpoint, register the      *)
(* listener for envelopes, connect and disconnect peers and dispose of     *)
(* everything, each call in steps with an await between them.              *)
(***************************************************************************)
EXTENDS Naturals, FiniteSets

CONSTANTS Callers,      \* calls that may be made
          Peers,        \* peer ids
          Undefined     \* no listener, no peer

ASSUME UndefinedAssumption == Undefined \notin Callers

VARIABLES endpointInfo,   \* the endpoint is known to run
          unlistenFn,     \* the listener that can be removed, or Undefined
          isInitializing,
          connectedPeers, \* peers with a session
          calls,          \* [Callers -> [op, peer, pc]]
          native,         \* the native endpoint runs
          listeners       \* listeners the native events reach

endpointVars == <<endpointInfo, unlistenFn, isInitializing, connectedPeers, calls, native, listeners>>

Uncalled == [op |-> "none", peer |-> Undefined, pc |-> "idle"]

EndpointInit ==
    /\ endpointInfo = FALSE /\ unlistenFn = Undefined /\ isInitializing = FALSE
    /\ connectedPeers = {}
    /\ calls = [c \in Callers |-> Uncalled]
    /\ native = FALSE /\ listeners = {}

Ready == endpointInfo /\ unlistenFn /= Undefined
GoTo(c, pc) == calls' = [calls EXCEPT ![c].pc = pc]
InStep(c, pc) == calls[c].pc = pc
Opened(c) == IF calls[c].op = "connect" THEN "connect" ELSE "done"
TransportState == <<endpointInfo, unlistenFn, isInitializing, connectedPeers>>

Arrive(c, op, peer) ==
    /\ calls[c] = Uncalled
    /\ calls' = [calls EXCEPT ![c] = [op |-> op, peer |-> peer,
         pc |-> IF op = "connect" THEN "init" ELSE op]]
    /\ UNCHANGED <<TransportState, native, listeners>>

\* (A caller that has waited once goes ahead.)
EnterAfterOneWait(c) == InStep(c, "wait") \/ (InStep(c, "init") /\ ~isInitializing)

\* init: somebody else's attempt is polled until it has ended.
MayEnter(c) == (InStep(c, "init") \/ InStep(c, "wait")) /\ ~isInitializing

WaitForInit(c) ==
    /\ InStep(c, "init") /\ ~Ready /\ isInitializing
    /\ GoTo(c, "wait")
    /\ UNCHANGED <<TransportState, native, listeners>>

AlreadyOpen(c) ==
    /\ Ready /\ (InStep(c, "init") \/ MayEnter(c))
    /\ GoTo(c, Opened(c))
    /\ UNCHANGED <<TransportState, native, listeners>>

EnterInit(c) ==
    /\ MayEnter(c) /\ ~Ready
    /\ isInitializing' = TRUE
    /\ GoTo(c, IF endpointInfo THEN "listen" ELSE "start")
    /\ UNCHANGED <<endpointInfo, unlistenFn, connectedPeers, native, listeners>>

\* sync_start_endpoint: an endpoint that runs already is returned as it is.
StartEndpoint(c) ==
    /\ InStep(c, "start")
    /\ native' = TRUE
    /\ GoTo(c, "started")
    /\ UNCHANGED <<TransportState, listeners>>

\* The finally of init.
Leave(c, pc) == isInitializing' = FALSE /\ GoTo(c, pc)

Started(c) ==
    /\ InStep(c, "started")
    /\ endpointInfo' = TRUE
    /\ IF unlistenFn = Undefined THEN GoTo(c, "listen") /\ UNCHANGED isInitializing
       ELSE Leave(c, Opened(c))
    /\ UNCHANGED <<unlistenFn, connectedPeers, native, listeners>>

Listen(c) ==
    /\ InStep(c, "listen")
    /\ listeners' = listeners \cup {c}
    /\ GoTo(c, "listening")
    /\ UNCHANGED <<TransportState, native>>

Listening(c) ==
    /\ InStep(c, "listening")
    /\ unlistenFn' = c
    /\ Leave(c, Opened(c))
    /\ UNCHANGED <<endpointInfo, connectedPeers, native, listeners>>

InitFails(c) ==
    /\ InStep(c, "start") \/ InStep(c, "listen")
    /\ Leave(c, "done")
    /\ UNCHANGED <<endpointInfo, unlistenFn, connectedPeers, native, listeners>>

\* sync_connect_peer, and the session it is tracked by.
ConnectPeer(c) ==
    /\ InStep(c, "connect")
    /\ GoTo(c, IF native THEN "connected" ELSE "done")
    /\ UNCHANGED <<TransportState, native, listeners>>

Connected(c) ==
    /\ InStep(c, "connected")
    /\ connectedPeers' = connectedPeers \cup {calls[c].peer}
    /\ GoTo(c, "done")
    /\ UNCHANGED <<endpointInfo, unlistenFn, isInitializing, native, listeners>>

ConnectFails(c) ==
    /\ InStep(c, "connect")
    /\ GoTo(c, "done")
    /\ UNCHANGED <<TransportState, native, listeners>>

\* The session is dropped whether sync_disconnect_peer succeeds or not.
Disconnect(c) ==
    /\ InStep(c, "disconnect")
    /\ connectedPeers' = connectedPeers \ {calls[c].peer}
    /\ GoTo(c, "done")
    /\ UNCHANGED <<endpointInfo, unlistenFn, isInitializing, native, listeners>>

\* dispose waits for an init under way and gives up what it finds.
Dispose(c) ==
    /\ InStep(c, "dispose") /\ ~isInitializing
    /\ listeners' = listeners \ {unlistenFn}
    /\ unlistenFn' = Undefined
    /\ endpointInfo' = FALSE
    /\ connectedPeers' = IF endpointInfo THEN {} ELSE connectedPeers
    /\ GoTo(c, IF endpointInfo THEN "stop" ELSE "done")
    /\ UNCHANGED <<isInitializing, native>>

StopEndpoint(c) ==
    /\ InStep(c, "stop")
    /\ native' = FALSE
    /\ GoTo(c, "done")
    /\ UNCHANGED <<TransportState, listeners>>

EndpointNext ==
    \E c \in Callers :
        \/ \E op \in {"init", "dispose"} : Arrive(c, op, Undefined)
        \/ \E op \in {"connect", "disconnect"}, p \in Peers : Arrive(c, op, p)
        \/ WaitForInit(c) \/ AlreadyOpen(c) \/ EnterInit(c)
        \/ StartEndpoint(c) \/ Started(c) \/ Listen(c) \/ Listening(c) \/ InitFails(c)
        \/ ConnectPeer(c) \/ Connected(c) \/ ConnectFails(c) \/ Disconnect(c)
        \/ Dispose(c) \/ StopEndpoint(c)

EndpointSpec == EndpointInit /\ [][EndpointNext]_endpointVars

----------------------------------------------------------------------------
\* However calls to init, connect and dispose overlap or fail, an envelope
\* reaches the handlers once: one listener at most is registered, and between
\* attempts it is the one dispose would remove; none is left behind.
OneListener ==
    /\ Cardinality(listeners) <= 1
    /\ ~isInitializing => listeners = {unlistenFn} \ {Undefined}
=============================================================================
