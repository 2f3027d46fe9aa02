----------------------------- MODULE Correlation -----------------------------
(***************************************************************************)
(* How the streamable proxy carries a request to the stdio backend and the *)
(* response back to the handler that waits for it (streamable_proxy.go,    *)
(* dispatcher.go, stdio.go). A forwarded request carries the composite key *)
(* <<session or routing token, JSON-RPC id>> as its id; the dispatcher     *)
(* finds the waiter under that key. Both channels are bounded and written  *)
(* without blocking. Every client numbers its requests from 1, so that the *)
(* JSON-RPC ids of two clients are often equal; "n" numbers the requests   *)
(* over the whole proxy and is what tells their responses apart here.      *)
(***************************************************************************)
EXTENDS ServerStreams, Sequences

CONSTANTS NoSession,     \* no header: the request gets a routing token
          Uris,          \* resources a client may subscribe to
          MessageCap,    \* capacity of messageCh
          ResponseCap,   \* capacity of responseCh
          MaxRequests    \* bound: requests forwarded over the proxy's life

VARIABLES sent,        \* requests forwarded so far
          used,        \* JSON-RPC ids used so far by the client of a session
          waiters,     \* HTTPProxy.waiters: composite key -> handler
          chan,        \* the waiter channel of a handler: <<>> or <<response>>
          messageCh,   \* HTTPProxy.messageCh: to the backend's stdin
          responseCh,  \* HTTPProxy.responseCh: from the backend's stdout
          subscribed   \* external: resources the backend sends updates for

pipeVars == <<sent, used, waiters, chan, messageCh, responseCh, subscribed>>

Ops == {"initialize", "subscribe", "unsubscribe", "call"}

Keys == ((Sessions \cup 1..MaxRequests) \X (1..MaxRequests))

Messages == [n : 1..MaxRequests, key : Keys, op : Ops, uri : Uris \cup {None}]

Responses == [n : 1..MaxRequests, key : Keys, ok : BOOLEAN]

PipeTypeOK ==
  /\ sent \in 0..MaxRequests
  /\ used \in [Sessions -> 0..MaxRequests]
  /\ \E K \in SUBSET Keys : waiters \in [K -> Handlers]
  /\ chan \in [Handlers -> {<<>>} \cup {<<r>> : r \in Responses}]
  /\ messageCh \in Seq(Messages) /\ Len(messageCh) <= MessageCap
  /\ responseCh \in Seq(Responses) /\ Len(responseCh) <= ResponseCap
  /\ subscribed \subseteq Uris

PipeInit ==
  /\ sent = 0
  /\ used = [s \in Sessions |-> 0]
  /\ waiters = <<>>
  /\ chan = [h \in Handlers |-> <<>>]
  /\ messageCh = <<>>
  /\ responseCh = <<>>
  /\ subscribed = {}

\* All requests without a session share one routing token.
oneToken(s) ==
  IF s = NoSession THEN <<1, 1>> ELSE <<s, used[s] + 1>>

\* compositeKey, for the next request of session s: a session's client numbers
\* its own requests; a request without a session has a token of its own, and
\* its client (one that sends a single request) the id 1.
compositeKey(s) ==
  IF s = NoSession THEN <<sent + 1, 1>> ELSE <<s, used[s] + 1>>

\* createWaiter and SendMessageToDestination: the waiter is stored under the
\* key, and the message is put if the channel has room.
sendCorrelatedRequest(h, s, op, uri) ==
  /\ Len(messageCh) < MessageCap
  /\ sent' = sent + 1
  /\ used' = IF s = NoSession THEN used ELSE [used EXCEPT ![s] = @ + 1]
  /\ waiters' = [k \in DOMAIN waiters \cup {compositeKey(s)} |->
                   IF k = compositeKey(s) THEN h ELSE waiters[k]]
  /\ chan' = [chan EXCEPT ![h] = <<>>]
  /\ messageCh' = Append(messageCh, [n |-> sent + 1, key |-> compositeKey(s),
                                     op |-> op, uri |-> uri])
  /\ UNCHANGED <<responseCh, subscribed>>

\* The cleanup returned by createWaiter.
cleanup(h, key) ==
  /\ waiters' = [k \in DOMAIN waiters \ {key} |-> waiters[k]]
  /\ chan' = [chan EXCEPT ![h] = <<>>]
  /\ UNCHANGED <<sent, used, messageCh, responseCh, subscribed>>

\* The sequence without its i-th element.
Without(seq, i) ==
  [j \in 1..(Len(seq) - 1) |-> IF j < i THEN seq[j] ELSE seq[j + 1]]

\* External: the backend grants or refuses a request it has read from its stdin
\* and writes the response, which is dropped when responseCh is full
\* (ForwardResponseToClients). It may answer a call out of turn; it handles
\* initialize, subscribe and unsubscribe in the order it reads them.
backendAnswers(i, ok) ==
  /\ i \in DOMAIN messageCh
  /\ i = 1 \/ messageCh[i].op = "call"
  /\ LET m == messageCh[i]
         r == [n |-> m.n, key |-> m.key, ok |-> ok] IN
     /\ subscribed' = CASE m.op = "subscribe" /\ ok   -> subscribed \cup {m.uri}
                        [] m.op = "unsubscribe" /\ ok -> subscribed \ {m.uri}
                        [] OTHER                      -> subscribed
     /\ responseCh' = IF Len(responseCh) < ResponseCap
                      THEN Append(responseCh, r) ELSE responseCh
  /\ messageCh' = Without(messageCh, i)
  /\ UNCHANGED <<sent, used, waiters, chan>>

\* processMessages could not write the request to stdin: it is logged only.
messageLost ==
  /\ messageCh # <<>>
  /\ messageCh' = Tail(messageCh)
  /\ UNCHANGED <<sent, used, waiters, chan, responseCh, subscribed>>

\* dispatchResponses and routeResponseToWaiter: a response goes to the waiter
\* of its key; without one, or when the channel of the waiter is full, it is
\* dropped.
routeResponseToWaiter ==
  /\ responseCh # <<>>
  /\ LET r == Head(responseCh) IN
       chan' = IF r.key \in DOMAIN waiters /\ chan[waiters[r.key]] = <<>>
               THEN [chan EXCEPT ![waiters[r.key]] = <<r>>] ELSE chan
  /\ responseCh' = Tail(responseCh)
  /\ UNCHANGED <<sent, used, waiters, messageCh, subscribed>>
==============================================================================
