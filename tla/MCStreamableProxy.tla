-------------------------- MODULE MCStreamableProxy --------------------------
(* Instances of StreamableProxy for TLC. *)
EXTENDS StreamableProxy, TLC

CONSTANTS a, b

\* What each session may ask for, and NoSession for what comes without one.
Each(sessions, verbs) ==
  [s \in Sessions \cup {NoSession} |-> IF s \in sessions THEN verbs ELSE {}]

\* Handshakes of two sessions, and requests without a session.
Handshakes == [verbs |-> Each({a, b, NoSession}, {"initialize", "call"}), requests |-> 2,
               sessions |-> {a, b}]

\* Enough calls of one session to fill messageCh with abandoned ones.
Calls == [verbs |-> Each({a, NoSession}, {"call"}), requests |-> 3, sessions |-> {a}]

\* Two sessions, and requests without one, that share a resource.
Sharers == [verbs |-> Each({a, b, NoSession}, {"subscribe", "unsubscribe"}), requests |-> 2,
            sessions |-> {a, b}]

\* One session's last unsubscribe during the other's first subscribe.
Successors == [verbs |-> Each({a, b}, {"subscribe", "unsubscribe"}), requests |-> 3,
               sessions |-> {a, b}]

\* A session that goes away while it subscribes.
Leavers == [verbs |-> Each({a, NoSession}, {"subscribe", "delete", "expire"}), requests |-> 2,
            sessions |-> {a}]

\* Streams that are opened, evicted, deleted, reaped and stopped.
Streams == [verbs |-> Each({a, NoSession}, {"initialize", "get", "delete", "stop"}),
            requests |-> 1, sessions |-> {a}]

AllMixes == {Handshakes, Calls, Sharers, Successors, Leavers, Streams}
==============================================================================
