---------------------------- MODULE ServerStreams ----------------------------
(***************************************************************************)
(* The registry of server-to-client streams of the streamable proxy        *)
(* (dispatcher_streams.go): at most one stream per session, each with a    *)
(* stop channel that tells its GET handler to return. A stream is named by *)
(* the handler that registered it. Closing a closed channel panics in Go,  *)
(* so every operation that closes records whether it closed one twice.     *)
(***************************************************************************)
EXTENDS Naturals, FiniteSets

CONSTANTS Sessions,   \* the values of the Mcp-Session-Id header
          Handlers,   \* goroutines that serve HTTP requests
          None        \* no handler, no resource

VARIABLES streams,    \* serverStreamRegistry.streams: session -> handler or None
          stopped,    \* handlers whose stop channel is closed
          panicked    \* a stop channel was closed twice

streamVars == <<streams, stopped, panicked>>

StreamsInit ==
  /\ streams = [s \in Sessions |-> None]
  /\ stopped = {}
  /\ panicked = FALSE

StreamsTypeOK ==
  /\ streams \in [Sessions -> Handlers \cup {None}]
  /\ stopped \subseteq Handlers
  /\ panicked \in BOOLEAN

\* close(s.stop) on each stream of H.
Close(H) ==
  /\ stopped' = stopped \cup H
  /\ panicked' = (panicked \/ H \cap stopped # {})

\* The stream registered for s, as a set.
Registered(s) == {streams[s]} \ {None}

\* register: the newest GET of a session evicts the one before it. Its own
\* stop channel is a new one.
register(h, s) ==
  /\ stopped' = (stopped \cup Registered(s)) \ {h}
  /\ panicked' = (panicked \/ Registered(s) \cap stopped # {})
  /\ streams' = [streams EXCEPT ![s] = h]

\* deregister: only if the stream is still the registered one.
deregisterForgetsOther(h, s) ==
  /\ streams' = [streams EXCEPT ![s] = None]
  /\ stopped' = stopped \ {h}
  /\ UNCHANGED panicked

deregister(h, s) ==
  /\ streams' = [streams EXCEPT ![s] = IF @ = h THEN None ELSE @]
  /\ stopped' = stopped \ {h}
  /\ UNCHANGED panicked

\* closeStream: whatever stream is registered for s.
closeStreamKeepsEntry(s) ==
  /\ Close(Registered(s))
  /\ UNCHANGED streams

closeStream(s) ==
  /\ Close(Registered(s))
  /\ streams' = [streams EXCEPT ![s] = None]

\* closeAll: every registered stream; the registry is reset.
closeAll ==
  /\ Close(UNION {Registered(s) : s \in Sessions})
  /\ streams' = [s \in Sessions |-> None]
==============================================================================
