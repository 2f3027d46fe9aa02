-------------------------- MODULE CorrelationProofs --------------------------
(***************************************************************************)
(* What StreamableProxy keeps of its requests and responses, for any       *)
(* sessions, handlers, channel capacities and bounds: PipeInv, keys are    *)
(* never used twice, and a response that reaches a waiter carries the      *)
(* number of its request; and NumberInv, numbers, keys and channels stay   *)
(* within their bounds as long as no request too many is sent.             *)
(***************************************************************************)
EXTENDS ProxyHandlerProofs

-----------------------------------------------------------------------------
(* Correlation *)

Resps == [n : Nat, key : Key, ok : BOOLEAN]
Msgs  == [n : Nat, key : Key, op : Ops, uri : Uris \cup {None}]

PipeTypes ==
  /\ sent \in Nat /\ used \in [Sessions -> Nat]
  /\ chan \in [Handlers -> {<<>>} \cup {<<r>> : r \in Resps}]
  /\ messageCh \in Seq(Msgs) /\ responseCh \in Seq(Resps)

(* A key that compositeKey has given out. *)
Old(k) == IF k[1] \in Sessions THEN k[2] <= used[k[1]] ELSE k[1] <= sent

(* A message or response on its way is for no waiter but its own. *)
Apt(m) ==
  /\ Old(m.key)
  /\ \A h \in Handlers : proc[h].pc = "wait" /\ proc[h].key = m.key => proc[h].n = m.n

Carried ==
  /\ \A i \in 1..Len(messageCh) : Apt(messageCh[i])
  /\ \A i \in 1..Len(responseCh) : Apt(responseCh[i])

Waiting ==
  /\ \A h \in Handlers : proc[h].pc = "wait" =>
       /\ proc[h].n \in 1..sent /\ proc[h].key \in Key /\ Old(proc[h].key)
       /\ proc[h].key \in DOMAIN waiters /\ waiters[proc[h].key] = h
  /\ \A k \in DOMAIN waiters :
       waiters[k] \in Handlers /\ proc[waiters[k]].pc = "wait" /\ proc[waiters[k]].key = k

Inbox ==
  \A h \in Handlers : chan[h] # <<>> => proc[h].pc = "wait" /\ chan[h][1].n = proc[h].n

PipeInv == PipeTypes /\ Carried /\ Waiting /\ Inbox

LEMMA FreshKey ==
  ASSUME PipeTypes, NEW s \in Sessions \cup {NoSession}, NEW k \in Key, Old(k)
  PROVE  k # compositeKey(s)
BY ProxyConstants DEF PipeTypes, Old, compositeKey, Key

(* Apt in the next state, of a message of either. *)
OldThen(k) == IF k[1] \in Sessions THEN k[2] <= used'[k[1]] ELSE k[1] <= sent'

AptThen(m) ==
  /\ OldThen(m.key)
  /\ \A h \in Handlers : proc'[h].pc = "wait" /\ proc'[h].key = m.key => proc'[h].n = m.n

LEMMA CarriedThen ==
  ASSUME \A i \in 1..Len(messageCh') : AptThen(messageCh'[i]),
         \A i \in 1..Len(responseCh') : AptThen(responseCh'[i])
  PROVE  Carried'
BY DEF Carried, Apt, Old, AptThen, OldThen

LEMMA AptRests ==
  ASSUME UNCHANGED <<sent, used>>,
         \A g \in Handlers : proc'[g].pc = "wait" => proc'[g] = proc[g],
         NEW m, Apt(m)
  PROVE  AptThen(m)
BY DEF Apt, AptThen, Old, OldThen

(* Nobody starts or ends a wait, and nothing is carried. *)
LEMMA PipeRests ==
  ASSUME PipeInv, UNCHANGED pipeVars,
         \A g \in Handlers : proc'[g] = proc[g] \/ (proc[g].pc # "wait" /\ proc'[g].pc # "wait")
  PROVE  PipeInv'
<1>1. UNCHANGED <<sent, used, waiters, chan, messageCh, responseCh>> BY DEF pipeVars
<1>2. PipeTypes' BY <1>1 DEF PipeInv, PipeTypes
<1>3. Carried'
  BY <1>1, AptRests, CarriedThen DEF PipeInv, Carried
<1>4. Waiting'
  <2>1. ASSUME NEW h \in Handlers, proc'[h].pc = "wait"
        PROVE  /\ proc'[h].n \in 1..sent /\ proc'[h].key \in Key /\ Old(proc'[h].key)
               /\ proc'[h].key \in DOMAIN waiters /\ waiters[proc'[h].key] = h
    <3>1. proc'[h] = proc[h] BY <2>1
    <3> QED BY <2>1, <3>1 DEF PipeInv, Waiting
  <2>2. ASSUME NEW k \in DOMAIN waiters
        PROVE  waiters[k] \in Handlers /\ proc'[waiters[k]].pc = "wait" /\ proc'[waiters[k]].key = k
    BY <2>2 DEF PipeInv, Waiting
  <2> QED BY <1>1, <2>1, <2>2 DEF Waiting, Old
<1>5. Inbox' BY <1>1 DEF PipeInv, Inbox
<1> QED BY <1>2, <1>3, <1>4, <1>5 DEF PipeInv

LEMMA PipeSends ==
  ASSUME HandlerInv, PipeInv, NEW h \in Handlers, sendRequest(h)
  PROVE  PipeInv'
<1> DEFINE s == proc[h].sess
           k == compositeKey(s)
           m == [n |-> sent + 1, key |-> k, op |-> proc[h].op, uri |-> proc[h].uri]
<1>0. PipeTypes /\ sent \in Nat /\ used \in [Sessions -> Nat] BY DEF PipeInv, PipeTypes
<1>1. /\ proc[h].pc = "send" /\ proc'[h].pc = "wait"
      /\ proc'[h].n = sent + 1 /\ proc'[h].key = k
      /\ \A g \in Handlers : g # h => proc'[g] = proc[g]
  BY <1>0, SendKeeps
<1>2. /\ sent' = sent + 1
      /\ used' = IF s = NoSession THEN used ELSE [used EXCEPT ![s] = @ + 1]
      /\ waiters' = [j \in DOMAIN waiters \cup {k} |-> IF j = k THEN h ELSE waiters[j]]
      /\ chan' = [chan EXCEPT ![h] = <<>>]
      /\ messageCh' = Append(messageCh, m)
      /\ responseCh' = responseCh
  BY DEF sendRequest, sendCorrelatedRequest
<1>3. /\ s \in Sessions \cup {NoSession} /\ proc[h].op \in Ops /\ proc[h].uri \in Uris \cup {None}
  BY <1>1 DEF HandlerInv, ProcType, Recs, Shape, ShapeOf
<1>4. k \in Key BY <1>0, <1>3, KeyType
<1>5. \A j \in Key : Old(j) => j # k BY <1>0, <1>3, FreshKey
<1>6. k = IF s = NoSession THEN <<sent + 1, 1>> ELSE <<s, used[s] + 1>> BY DEF compositeKey
<1>m. m \in Msgs /\ m.key = k /\ m.n = sent + 1 BY <1>0, <1>3, <1>4 DEF Msgs
<1> HIDE DEF s, k, m
<1>7. \A j \in Key : Old(j) => OldThen(j)
  BY <1>0, <1>2, <1>3, ProxyConstants DEF Old, OldThen, Key
<1>8. OldThen(k)
  <2>1. CASE s = NoSession
    <3>1. k[1] = sent + 1 /\ sent' = sent + 1 BY <1>2, <1>6, <2>1
    <3>2. k[1] \notin Sessions BY <1>0, <3>1, ProxyConstants
    <3> QED BY <1>0, <3>1, <3>2 DEF OldThen
  <2>2. CASE s # NoSession
    <3>1. k[1] = s /\ k[2] = used[s] + 1 /\ s \in Sessions BY <1>3, <1>6, <2>2
    <3>2. used'[s] = used[s] + 1 /\ used[s] \in Nat BY <1>0, <1>2, <2>2, <3>1
    <3> QED BY <3>1, <3>2 DEF OldThen
  <2> QED BY <2>1, <2>2
<1>9. PipeTypes'
  <2>1. sent' \in Nat /\ used' \in [Sessions -> Nat] BY <1>0, <1>2, <1>3
  <2>2. chan' \in [Handlers -> {<<>>} \cup {<<r>> : r \in Resps}] BY <1>0, <1>2 DEF PipeTypes
  <2>3. messageCh' \in Seq(Msgs) /\ responseCh' \in Seq(Resps) BY <1>0, <1>2, <1>m DEF PipeTypes
  <2> QED BY <2>1, <2>2, <2>3 DEF PipeTypes
<1>10. ASSUME NEW x, x.key \in Key, Apt(x) PROVE AptThen(x)
  <2>1. x.key # k BY <1>5, <1>10 DEF Apt
  <2>2. OldThen(x.key) BY <1>7, <1>10 DEF Apt
  <2>3. ASSUME NEW g \in Handlers, proc'[g].pc = "wait", proc'[g].key = x.key
        PROVE  proc'[g].n = x.n
    BY <1>1, <1>10, <2>1, <2>3 DEF Apt
  <2> QED BY <2>2, <2>3 DEF AptThen
<1>11. AptThen(m)
  <2>2. ASSUME NEW g \in Handlers, proc'[g].pc = "wait", proc'[g].key = k
        PROVE  proc'[g].n = sent + 1
    <3>1. CASE g = h BY <1>1, <3>1
    <3>2. CASE g # h
      <4>1. proc[g].pc = "wait" /\ proc[g].key = k BY <1>1, <2>2, <3>2
      <4>2. Old(proc[g].key) /\ proc[g].key \in Key BY <4>1 DEF PipeInv, Waiting
      <4> QED BY <1>5, <4>1, <4>2
    <3> QED BY <3>1, <3>2
  <2> QED BY <1>8, <1>m, <2>2 DEF AptThen
<1>12. Carried'
  <2>1. ASSUME NEW i \in 1..Len(messageCh') PROVE AptThen(messageCh'[i])
    <3>1. Len(messageCh) \in Nat /\ Len(messageCh') = Len(messageCh) + 1
      BY <1>0, <1>2, <1>m DEF PipeTypes
    <3>2. CASE i = Len(messageCh) + 1
      <4>1. messageCh'[i] = m BY <1>0, <1>2, <1>m, <3>2 DEF PipeTypes
      <4> QED BY <1>11, <4>1
    <3>3. CASE i \in 1..Len(messageCh)
      <4>1. messageCh'[i] = messageCh[i] /\ messageCh[i] \in Msgs
        BY <1>0, <1>2, <1>m, <3>3 DEF PipeTypes
      <4>2. messageCh[i].key \in Key BY <4>1 DEF Msgs
      <4>3. Apt(messageCh[i]) BY <3>3 DEF PipeInv, Carried
      <4> QED BY <1>10, <4>1, <4>2, <4>3
    <3> QED BY <3>1, <3>2, <3>3
  <2>2. ASSUME NEW i \in 1..Len(responseCh') PROVE AptThen(responseCh'[i])
    <3>1. responseCh'[i] = responseCh[i] /\ responseCh[i] \in Resps
      BY <1>0, <1>2 DEF PipeTypes
    <3>2. responseCh[i].key \in Key BY <3>1 DEF Resps
    <3>3. Apt(responseCh[i]) BY <1>2 DEF PipeInv, Carried
    <3> QED BY <1>10, <3>1, <3>2, <3>3
  <2> QED BY <2>1, <2>2, CarriedThen
<1>13. Waiting'
  <2>1. ASSUME NEW g \in Handlers, proc'[g].pc = "wait"
        PROVE  /\ proc'[g].n \in 1..sent' /\ proc'[g].key \in Key /\ OldThen(proc'[g].key)
               /\ proc'[g].key \in DOMAIN waiters' /\ waiters'[proc'[g].key] = g
    <3>1. CASE g = h BY <1>0, <1>1, <1>2, <1>4, <1>8, <3>1
    <3>2. CASE g # h
      <4>1. proc'[g] = proc[g] /\ proc[g].pc = "wait" BY <1>1, <2>1, <3>2
      <4>2. /\ proc[g].n \in 1..sent /\ proc[g].key \in Key /\ Old(proc[g].key)
            /\ proc[g].key \in DOMAIN waiters /\ waiters[proc[g].key] = g
        BY <4>1 DEF PipeInv, Waiting
      <4>3. proc[g].key # k /\ OldThen(proc[g].key) BY <1>5, <1>7, <4>2
      <4>4. proc[g].key \in DOMAIN waiters' /\ waiters'[proc[g].key] = g
        BY <1>2, <4>2, <4>3
      <4>5. proc[g].n \in 1..sent' BY <1>0, <1>2, <4>2
      <4> QED BY <4>1, <4>2, <4>3, <4>4, <4>5
    <3> QED BY <3>1, <3>2
  <2>2. ASSUME NEW j \in DOMAIN waiters'
        PROVE  waiters'[j] \in Handlers /\ proc'[waiters'[j]].pc = "wait"
               /\ proc'[waiters'[j]].key = j
    <3>1. CASE j = k BY <1>1, <1>2, <3>1
    <3>2. CASE j # k
      <4>1. j \in DOMAIN waiters /\ waiters'[j] = waiters[j] BY <1>2, <3>2
      <4>2. waiters[j] \in Handlers /\ proc[waiters[j]].pc = "wait" /\ proc[waiters[j]].key = j
        BY <4>1 DEF PipeInv, Waiting
      <4> QED BY <1>1, <4>1, <4>2
    <3> QED BY <3>1, <3>2
  <2> QED BY <2>1, <2>2 DEF Waiting, Old, OldThen
<1>14. Inbox'
  <2> SUFFICES ASSUME NEW g \in Handlers, chan'[g] # <<>>
               PROVE  proc'[g].pc = "wait" /\ chan'[g][1].n = proc'[g].n
    BY DEF Inbox
  <2>1. g # h /\ chan'[g] = chan[g] BY <1>0, <1>2 DEF PipeTypes
  <2> QED BY <1>1, <2>1 DEF PipeInv, Inbox
<1> QED BY <1>9, <1>12, <1>13, <1>14 DEF PipeInv

(* What the provers know of sequences. *)
LEMMA SeqBasics ==
  ASSUME NEW S, NEW q \in Seq(S)
  PROVE  /\ Len(q) \in Nat /\ DOMAIN q = 1..Len(q)
         /\ \A i \in 1..Len(q) : q[i] \in S
OBVIOUS

LEMMA SeqEmpty ==
  ASSUME NEW S
  PROVE  /\ <<>> \in Seq(S) /\ Len(<<>>) = 0
         /\ \A q \in Seq(S) : q # <<>> => Len(q) # 0
OBVIOUS

LEMMA SeqAppend ==
  ASSUME NEW S, NEW q \in Seq(S), NEW e \in S
  PROVE  /\ Append(q, e) \in Seq(S)
         /\ Len(Append(q, e)) = Len(q) + 1
         /\ \A i \in 1..Len(q) : Append(q, e)[i] = q[i]
         /\ Append(q, e)[Len(q) + 1] = e
OBVIOUS

LEMMA SeqTail ==
  ASSUME NEW S, NEW q \in Seq(S), q # <<>>
  PROVE  /\ Tail(q) \in Seq(S) /\ Head(q) \in S /\ Head(q) = q[1]
         /\ Len(Tail(q)) = Len(q) - 1
         /\ \A j \in 1..Len(Tail(q)) : Tail(q)[j] = q[j + 1]
OBVIOUS

(* Every element of q is one of p. *)
Drawn(q, p) == \A j \in 1..Len(q) : \E l \in 1..Len(p) : q[j] = p[l]

LEMMA WithoutSeq ==
  ASSUME NEW S, NEW q \in Seq(S), NEW i \in DOMAIN q
  PROVE  Without(q, i) \in Seq(S) /\ Drawn(Without(q, i), q) /\ Len(Without(q, i)) = Len(q) - 1
<1>1. Len(q) \in Nat /\ i \in 1..Len(q) /\ Len(q) - 1 \in Nat
  BY SeqBasics
<1>2. Without(q, i) \in [1..(Len(q) - 1) -> S] BY <1>1, SeqBasics DEF Without
<1>3. Without(q, i) \in Seq(S) BY <1>1, <1>2
<1>4. DOMAIN Without(q, i) = 1..(Len(q) - 1) BY DEF Without
<1>5. Len(Without(q, i)) = Len(q) - 1 BY <1>1, <1>3, <1>4, SeqBasics
<1>6. ASSUME NEW j \in 1..(Len(q) - 1) PROVE \E l \in 1..Len(q) : Without(q, i)[j] = q[l]
  <2>1. CASE j < i
    <3>1. Without(q, i)[j] = q[j] /\ j \in 1..Len(q) BY <1>1, <2>1 DEF Without
    <3> QED BY <3>1
  <2>2. CASE ~(j < i)
    <3>1. Without(q, i)[j] = q[j + 1] /\ j + 1 \in 1..Len(q) BY <1>1, <2>2 DEF Without
    <3> QED BY <3>1
  <2> QED BY <2>1, <2>2
<1> QED BY Zenon, <1>3, <1>5, <1>6 DEF Drawn

LEMMA TailSeq ==
  ASSUME NEW S, NEW q \in Seq(S), q # <<>>
  PROVE  /\ Tail(q) \in Seq(S) /\ Head(q) \in S /\ Head(q) = q[1] /\ 1 \in 1..Len(q)
         /\ \A j \in 1..Len(Tail(q)) : \E l \in 1..Len(q) : Tail(q)[j] = q[l]
<1>1. /\ Tail(q) \in Seq(S) /\ Head(q) \in S /\ Head(q) = q[1] /\ Len(q) \in Nat
      /\ Len(Tail(q)) = Len(q) - 1
      /\ \A j \in 1..Len(Tail(q)) : Tail(q)[j] = q[j + 1]
  BY SeqTail, SeqBasics
<1>2. Len(q) # 0 BY SeqEmpty
<1> QED BY <1>1, <1>2

(* The channels move and the handlers do not. *)
LEMMA PipeMoves ==
  ASSUME PipeInv, UNCHANGED <<proc, sent, used, waiters, chan>>,
         messageCh' \in Seq(Msgs), responseCh' \in Seq(Resps),
         \A j \in 1..Len(messageCh') : Apt(messageCh'[j]),
         \A j \in 1..Len(responseCh') : Apt(responseCh'[j])
  PROVE  PipeInv'
<1>1. PipeTypes' BY DEF PipeInv, PipeTypes
<1>2. Carried'
  <2>1. ASSUME NEW m, Apt(m) PROVE AptThen(m) BY <2>1, AptRests
  <2> QED BY <2>1, CarriedThen
<1>3. Waiting' BY DEF PipeInv, Waiting, Old
<1>4. Inbox' BY DEF PipeInv, Inbox
<1> QED BY <1>1, <1>2, <1>3, <1>4 DEF PipeInv

LEMMA PipeAnswers ==
  ASSUME PipeInv, backendStep
  PROVE  PipeInv'
<1>0. /\ UNCHANGED <<proc, sent, used, waiters, chan>>
      /\ messageCh \in Seq(Msgs) /\ responseCh \in Seq(Resps)
      /\ \A j \in 1..Len(messageCh) : Apt(messageCh[j])
      /\ \A j \in 1..Len(responseCh) : Apt(responseCh[j])
  BY Zenon DEF backendStep, backendAnswers, messageLost, outside, PipeInv, PipeTypes, Carried
<1>1. CASE messageLost
  <2>1. messageCh # <<>> /\ messageCh' = Tail(messageCh) /\ responseCh' = responseCh
    BY <1>1 DEF messageLost
  <2>2. messageCh' \in Seq(Msgs) /\ \A j \in 1..Len(messageCh') : Apt(messageCh'[j])
    BY <1>0, <2>1, TailSeq
  <2> QED BY <1>0, <2>1, <2>2, PipeMoves
<1>2. ASSUME NEW i \in 1..MessageCap, NEW ok \in BOOLEAN, backendAnswers(i, ok)
      PROVE  PipeInv'
  <2> DEFINE m == messageCh[i]
             r == [n |-> m.n, key |-> m.key, ok |-> ok]
  <2>1. /\ i \in DOMAIN messageCh /\ messageCh' = Without(messageCh, i)
        /\ responseCh' = IF Len(responseCh) < ResponseCap
                         THEN Append(responseCh, r) ELSE responseCh
    BY <1>2 DEF backendAnswers
  <2>2. m \in Msgs /\ Apt(m) BY <1>0, <2>1, SeqBasics
  <2>3. r \in Resps /\ r.key = m.key /\ r.n = m.n BY <2>2 DEF Msgs, Resps
  <2> HIDE DEF m, r
  <2>4. Apt(r) BY <2>2, <2>3 DEF Apt
  <2>5. messageCh' \in Seq(Msgs) /\ \A j \in 1..Len(messageCh') : Apt(messageCh'[j])
    <3>0. messageCh \in Seq(Msgs) /\ i \in DOMAIN messageCh BY <1>0, <2>1
    <3>1. Without(messageCh, i) \in Seq(Msgs) /\ Drawn(Without(messageCh, i), messageCh)
      BY <3>0, WithoutSeq
    <3> QED BY Zenon, <1>0, <2>1, <3>1 DEF Drawn
  <2>6. responseCh' \in Seq(Resps) /\ \A j \in 1..Len(responseCh') : Apt(responseCh'[j])
    <3>1. CASE responseCh' = responseCh BY <1>0, <3>1
    <3>2. CASE responseCh' = Append(responseCh, r)
      <4>1. /\ responseCh' \in Seq(Resps) /\ Len(responseCh) \in Nat
            /\ Len(responseCh') = Len(responseCh) + 1
            /\ \A j \in 1..Len(responseCh) : responseCh'[j] = responseCh[j]
            /\ responseCh'[Len(responseCh) + 1] = r
        BY <1>0, <2>3, <3>2, SeqAppend, SeqBasics
      <4> QED BY <1>0, <2>4, <4>1
    <3> QED BY <2>1, <3>1, <3>2
  <2> QED BY <1>0, <2>5, <2>6, PipeMoves
<1> QED BY <1>1, <1>2 DEF backendStep

LEMMA PipeRoutes ==
  ASSUME PipeInv, dispatchResponses
  PROVE  /\ PipeInv'
         /\ \/ chan' = chan
            \/ \E h \in Handlers, r \in Resps :
                 /\ proc[h].pc = "wait" /\ chan[h] = <<>> /\ r.n = proc[h].n
                 /\ chan' = [chan EXCEPT ![h] = <<r>>]
<1> DEFINE r == Head(responseCh)
<1>0. /\ UNCHANGED <<proc, sent, used, waiters, messageCh>>
      /\ responseCh # <<>> /\ responseCh' = Tail(responseCh)
      /\ chan' = IF r.key \in DOMAIN waiters /\ chan[waiters[r.key]] = <<>>
                 THEN [chan EXCEPT ![waiters[r.key]] = <<r>>] ELSE chan
      /\ messageCh \in Seq(Msgs) /\ responseCh \in Seq(Resps)
      /\ chan \in [Handlers -> {<<>>} \cup {<<x>> : x \in Resps}]
      /\ \A j \in 1..Len(messageCh) : Apt(messageCh[j])
      /\ \A j \in 1..Len(responseCh) : Apt(responseCh[j])
  BY DEF dispatchResponses, routeResponseToWaiter, outside, PipeInv, PipeTypes, Carried
<1>1. /\ responseCh' \in Seq(Resps) /\ \A j \in 1..Len(responseCh') : Apt(responseCh'[j])
      /\ r \in Resps /\ Apt(r)
  BY <1>0, TailSeq
<1>2. Carried'
  <2>1. ASSUME NEW m, Apt(m) PROVE AptThen(m)
    BY <1>0, <2>1, AptRests, Zenon
  <2> QED BY Zenon, <1>0, <1>1, <2>1, CarriedThen
<1>3. Waiting' BY <1>0 DEF PipeInv, Waiting, Old
<1> HIDE DEF r
<1>4. CASE chan' = chan
  BY Zenon, <1>0, <1>1, <1>2, <1>3, <1>4 DEF PipeInv, PipeTypes, Inbox
<1>5. CASE chan' # chan
  <2> DEFINE h == waiters[r.key]
  <2>1. /\ r.key \in DOMAIN waiters /\ chan[h] = <<>> /\ chan' = [chan EXCEPT ![h] = <<r>>]
    BY Zenon, <1>0, <1>5
  <2>2. h \in Handlers /\ proc[h].pc = "wait" /\ proc[h].key = r.key
    BY <2>1 DEF PipeInv, Waiting
  <2> HIDE DEF h
  <2>3. r.n = proc[h].n BY <1>1, <2>2 DEF Apt
  <2>4. chan' \in [Handlers -> {<<>>} \cup {<<x>> : x \in Resps}]
    BY Zenon, <1>0, <1>1, <2>1, <2>2
  <2>5. PipeTypes' BY <1>0, <1>1, <2>4 DEF PipeInv, PipeTypes
  <2>6. Inbox'
    <3> SUFFICES ASSUME NEW g \in Handlers, chan'[g] # <<>>
                 PROVE  proc[g].pc = "wait" /\ chan'[g][1].n = proc[g].n
      BY <1>0 DEF Inbox
    <3>1. CASE g = h
      <4>1. chan'[g] = <<r>> BY <1>0, <2>1, <2>2, <3>1
      <4>2. chan'[g][1] = r BY <4>1
      <4> QED BY <2>2, <2>3, <3>1, <4>2
    <3>2. CASE g # h
      <4>1. chan'[g] = chan[g] BY <1>0, <2>1, <2>2, <3>2
      <4> QED BY <4>1 DEF PipeInv, Inbox
    <3> QED BY <3>1, <3>2
  <2> QED BY Zenon, <1>1, <1>2, <1>3, <2>1, <2>2, <2>3, <2>5, <2>6 DEF PipeInv
<1> QED BY <1>4, <1>5

(* A wait ends: the waiter is taken away, and with it what was in its box. *)
LEMMA PipeLeaves ==
  ASSUME PipeInv, NEW h \in Handlers, proc[h].pc = "wait", cleanup(h, proc[h].key),
         proc'[h].pc # "wait",
         \A g \in Handlers :
           \/ g = h \/ proc'[g] = proc[g] \/ (proc[g].pc # "wait" /\ proc'[g].pc # "wait")
  PROVE  PipeInv'
<1> DEFINE k == proc[h].key
<1>0. /\ waiters' = [j \in DOMAIN waiters \ {k} |-> waiters[j]]
      /\ chan' = [chan EXCEPT ![h] = <<>>]
      /\ UNCHANGED <<sent, used, messageCh, responseCh>>
  BY DEF cleanup
<1>1. waiters[k] = h BY DEF PipeInv, Waiting
<1> HIDE DEF k
<1>2. PipeTypes'
  <2>1. chan' \in [Handlers -> {<<>>} \cup {<<r>> : r \in Resps}]
    BY Zenon, <1>0 DEF PipeInv, PipeTypes
  <2> QED BY <1>0, <2>1 DEF PipeInv, PipeTypes
<1>3. Carried'
  BY <1>0, AptRests, CarriedThen DEF PipeInv, Carried
<1>4. Waiting'
  <2>1. ASSUME NEW g \in Handlers, proc'[g].pc = "wait"
        PROVE  /\ proc'[g].n \in 1..sent /\ proc'[g].key \in Key /\ Old(proc'[g].key)
               /\ proc'[g].key \in DOMAIN waiters' /\ waiters'[proc'[g].key] = g
    <3>1. g # h /\ proc'[g] = proc[g] /\ proc[g].pc = "wait" BY <2>1
    <3>2. /\ proc[g].n \in 1..sent /\ proc[g].key \in Key /\ Old(proc[g].key)
          /\ proc[g].key \in DOMAIN waiters /\ waiters[proc[g].key] = g
      BY <3>1 DEF PipeInv, Waiting
    <3>3. proc[g].key # k BY <1>1, <3>1, <3>2
    <3> QED BY <1>0, <3>1, <3>2, <3>3
  <2>2. ASSUME NEW j \in DOMAIN waiters'
        PROVE  waiters'[j] \in Handlers /\ proc'[waiters'[j]].pc = "wait"
               /\ proc'[waiters'[j]].key = j
    <3>1. j \in DOMAIN waiters /\ j # k /\ waiters'[j] = waiters[j] BY <1>0
    <3>2. waiters[j] \in Handlers /\ proc[waiters[j]].pc = "wait" /\ proc[waiters[j]].key = j
      BY <3>1 DEF PipeInv, Waiting
    <3>3. waiters[j] # h BY <3>1, <3>2 DEF k
    <3> QED BY <3>1, <3>2, <3>3
  <2> QED BY Zenon, <1>0, <2>1, <2>2 DEF Waiting, Old
<1>5. Inbox'
  <2> SUFFICES ASSUME NEW g \in Handlers, chan'[g] # <<>>
               PROVE  proc'[g].pc = "wait" /\ chan'[g][1].n = proc'[g].n
    BY DEF Inbox
  <2>1. g # h /\ chan'[g] = chan[g] BY <1>0 DEF PipeInv, PipeTypes
  <2> QED BY <2>1 DEF PipeInv, Inbox
<1> QED BY <1>2, <1>3, <1>4, <1>5 DEF PipeInv

-----------------------------------------------------------------------------
(* Each step is a step of Rendezvous, or none. *)

Same == UNCHANGED <<sent, asked, reply>>

LEMMA SameWhenIdle ==
  ASSUME UNCHANGED <<sent, chan>>,
         \A g \in Handlers : proc'[g] = proc[g] \/ (proc[g].pc # "wait" /\ proc'[g].pc # "wait")
  PROVE  Same
<1>1. asked' = asked BY DEF asked, At
<1>2. reply' = reply BY DEF reply
<1> QED BY <1>1, <1>2 DEF Same

LEMMA SendAsks ==
  ASSUME HandlerInv, PipeInv, NEW h \in Handlers, sendRequest(h)
  PROVE  R!Ask(h)
<1>0. sent \in Nat /\ used \in [Sessions -> Nat] BY DEF PipeInv, PipeTypes
<1>1. /\ proc[h].pc = "send" /\ proc'[h].pc = "wait" /\ proc'[h].n = sent + 1
      /\ \A g \in Handlers : g # h => proc'[g] = proc[g]
  BY <1>0, SendKeeps
<1>2. sent' = sent + 1 /\ chan' = [chan EXCEPT ![h] = <<>>]
  BY DEF sendRequest, sendCorrelatedRequest
<1>3. chan[h] = <<>> BY <1>1 DEF PipeInv, Inbox
<1>4. chan' = chan BY <1>2, <1>3 DEF PipeInv, PipeTypes
<1>5. asked[h] = 0 BY <1>1 DEF asked, At
<1>6. asked' = [asked EXCEPT ![h] = sent + 1] BY Zenon, <1>1 DEF asked, At
<1>7. reply' = reply BY <1>4 DEF reply
<1> QED BY <1>2, <1>5, <1>6, <1>7 DEF R!Ask

LEMMA CleanupLeaves ==
  ASSUME PipeInv, NEW h \in Handlers, proc[h].pc = "wait", cleanup(h, proc[h].key),
         proc'[h].pc # "wait",
         \A g \in Handlers :
           \/ g = h \/ proc'[g] = proc[g] \/ (proc[g].pc # "wait" /\ proc'[g].pc # "wait")
  PROVE  R!Leave(h)
<1>1. sent' = sent /\ chan' = [chan EXCEPT ![h] = <<>>] BY Zenon DEF cleanup
<1>2. asked[h] # 0 BY DEF asked, At, PipeInv, Waiting, PipeTypes
<1>3. asked' = [asked EXCEPT ![h] = 0] BY Zenon DEF asked, At
<1>4. reply' = [reply EXCEPT ![h] = 0]
  BY Zenon, <1>1 DEF reply, PipeInv, PipeTypes
<1> QED BY <1>1, <1>2, <1>3, <1>4 DEF R!Leave

LEMMA DispatchReplies ==
  ASSUME PipeInv, dispatchResponses
  PROVE  Same \/ \E h \in Handlers : R!Reply(h)
<1>0. UNCHANGED <<proc, sent>> BY DEF dispatchResponses, routeResponseToWaiter, outside
<1>1. CASE chan' = chan BY <1>0, <1>1, SameWhenIdle
<1>2. ASSUME NEW h \in Handlers, NEW r \in Resps, proc[h].pc = "wait", chan[h] = <<>>,
             r.n = proc[h].n, chan' = [chan EXCEPT ![h] = <<r>>]
      PROVE  R!Reply(h)
  <2>1. asked[h] = proc[h].n /\ asked[h] # 0
    BY <1>2 DEF asked, At, PipeInv, Waiting, PipeTypes
  <2>2. reply[h] = 0 BY <1>2 DEF reply
  <2>3. chan'[h] = <<r>> /\ \A g \in Handlers : g # h => chan'[g] = chan[g]
    BY <1>2 DEF PipeInv, PipeTypes
  <2>4. chan'[h] # <<>> /\ chan'[h][1].n = proc[h].n BY <1>2, <2>3
  <2>5. reply' = [reply EXCEPT ![h] = asked[h]] BY Zenon, <2>1, <2>3, <2>4 DEF reply
  <2>6. asked' = asked BY <1>0 DEF asked, At
  <2> QED BY <1>0, <2>1, <2>2, <2>5, <2>6 DEF R!Reply
<1> QED BY <1>1, <1>2, PipeRoutes

(* The channels' part of a step, and the step of Rendezvous it is. *)
LEMMA PipeNext ==
  ASSUME HandlerInv, PipeInv, [Next]_vars
  PROVE  PipeInv' /\ (Same \/ R!Next)
<1>0. sent \in Nat /\ used \in [Sessions -> Nat] BY DEF PipeInv, PipeTypes
<1>r. ASSUME UNCHANGED pipeVars,
             \A g \in Handlers : proc'[g] = proc[g] \/ (proc[g].pc # "wait" /\ proc'[g].pc # "wait")
      PROVE  PipeInv' /\ Same
  BY <1>r, PipeRests, SameWhenIdle DEF pipeVars
<1>1. CASE quiet \/ reapClose \/ StopStreams \/ UNCHANGED vars
  <2>1. UNCHANGED <<proc, pipeVars>>
    BY <1>1, QuietKeeps DEF reapClose, reapVars, StopStreams, vars
  <2> QED BY <1>r, <2>1
<1>2. CASE backendStep
  <2>1. UNCHANGED <<proc, sent, chan>>
    BY Zenon, <1>2 DEF backendStep, backendAnswers, messageLost, outside
  <2>2. Same BY <2>1, SameWhenIdle
  <2> QED BY <1>2, <2>2, PipeAnswers
<1>3. CASE dispatchResponses
  BY Zenon, <1>3, PipeRoutes, DispatchReplies DEF R!Next
<1>4. ASSUME NEW h \in Handlers,
             \/ arrivals(h) \/ posts(h) \/ localStep(h) \/ interceptInitialize(h)
             \/ sendRequest(h) \/ sendFails(h) \/ receive(h) \/ giveUp(h)
             \/ registerStream(h) \/ leaveStream(h) \/ closeDeleted(h)
      PROVE  PipeInv' /\ (Same \/ R!Next)
  <2>1. CASE arrivals(h) \/ posts(h)
    <3>1. /\ UNCHANGED pipeVars /\ proc[h].pc # "wait" /\ proc'[h].pc # "wait"
          /\ \A g \in Handlers : g # h => proc'[g] = proc[g]
      BY <2>1, ArriveKeeps
    <3> QED BY Zenon, <1>r, <3>1
  <2>2. CASE localStep(h)
    <3>1. /\ UNCHANGED pipeVars /\ proc[h].pc # "wait" /\ proc'[h].pc # "wait"
          /\ \A g \in Handlers : g # h => proc'[g] = proc[g]
      BY <2>2, LocalKeeps DEF Elsewhere
    <3> QED BY <1>r, <3>1
  <2>3. CASE registerStream(h) \/ leaveStream(h) \/ closeDeleted(h)
    <3>1. /\ UNCHANGED pipeVars /\ proc[h].pc # "wait" /\ proc'[h].pc # "wait"
          /\ \A g \in Handlers : g # h => proc'[g] = proc[g]
      BY Zenon, <2>3, StreamStepKeeps
    <3> QED BY <1>r, <3>1
  <2>4. CASE interceptInitialize(h)
    <3>1. /\ UNCHANGED pipeVars /\ proc[h].pc # "wait" /\ proc'[h].pc # "wait"
          /\ \A g \in Handlers : g # h => proc'[g] = proc[g]
      BY <2>4, FlyKeeps
    <3> QED BY <1>r, <3>1
  <2>5. CASE sendRequest(h) BY Zenon, <2>5, PipeSends, SendAsks DEF R!Next
  <2>f. ASSUME NEW ok, finish(h, ok), NEW g \in Handlers, g # h
        PROVE  proc'[g] = proc[g] \/ (proc[g].pc # "wait" /\ proc'[g].pc # "wait")
    <3>1. \/ proc'[g] = proc[g]
          \/ proc'[g] = Idle /\ g \in Sharing(h)
      BY <2>f, FinishIdles DEF HandlerInv
    <3>2. g \in Sharing(h) => proc[g].pc # "wait" BY <2>f DEF Sharing, At
    <3> QED BY <3>1, <3>2, IdleType
  <2>6. CASE sendFails(h)
    <3>1. finish(h, FALSE) /\ proc[h].pc = "send" /\ UNCHANGED pipeVars
      BY Zenon, <2>6 DEF sendFails, At
    <3>2. proc'[h].pc # "wait" BY Zenon, <3>1, FinishIdles, IdleType DEF HandlerInv
    <3> QED BY Zenon, <1>r, <2>f, <3>1, <3>2
  <2>7. CASE giveUp(h)
    <3>1. finish(h, FALSE) /\ proc[h].pc = "wait" /\ cleanup(h, proc[h].key)
      BY Zenon, <2>7 DEF giveUp, At
    <3>2. proc'[h].pc # "wait" BY Zenon, <3>1, FinishIdles, IdleType DEF HandlerInv
    <3> QED BY Zenon, <2>f, <3>1, <3>2, PipeLeaves, CleanupLeaves DEF R!Next
  <2>8. CASE receive(h)
    <3>1. proc[h].pc = "wait" /\ cleanup(h, proc[h].key)
      BY Zenon, <2>8 DEF receive, At
    <3>2. CASE finish(h, chan[h][1].ok)
      <4>1. proc'[h].pc # "wait" BY Zenon, <3>2, FinishIdles, IdleType DEF HandlerInv
      <4> QED BY Zenon, <2>f, <3>1, <3>2, <4>1, PipeLeaves, CleanupLeaves DEF R!Next
    <3>3. CASE ~finish(h, chan[h][1].ok)
      <4>1. /\ proc'[h].pc = "record"
            /\ \A g \in Handlers : g # h => proc'[g] = proc[g]
        BY <2>8, <3>3, ReceiveKeeps
      <4> QED BY Zenon, <3>1, <4>1, PipeLeaves, CleanupLeaves DEF R!Next
    <3> QED BY <3>2, <3>3
  <2> QED BY Zenon, <1>4, <2>1, <2>2, <2>3, <2>4, <2>5, <2>6, <2>7, <2>8
<1> QED BY <1>1, <1>2, <1>3, <1>4, StepKinds

-----------------------------------------------------------------------------
(* How many requests there are *)

Sent == {"wait", "record"}

(* A request gets its number when it is sent. *)
Numbered(q) ==
  /\ q.n <= MaxRequests /\ q.key \in Keys \cup {<<>>}
  /\ q.pc \notin Sent => q.n = 0

(* What a step makes of a handler that does not send: it serves the same
   request, with the number it had, or none.                               *)
Follows(q, r) ==
  \/ r = Idle
  \/ /\ r.op = q.op /\ r.n = q.n /\ r.key = q.key
     /\ q.pc \in Sent => r.pc \in Sent

LEMMA FollowsSelf == \A q : Follows(q, q)
BY Zenon DEF Follows

LEMMA IdleNumbered == Numbered(Idle) /\ Idle.op \notin Ops
BY ProxyConstants DEF Numbered, Idle, Ops

LEMMA NumberedFollows ==
  ASSUME NEW q, NEW r, Numbered(q), Follows(q, r)
  PROVE  Numbered(r) /\ (r.op \in Ops /\ r.n = 0 => q.op \in Ops /\ q.n = 0)
BY Zenon, IdleNumbered DEF Numbered, Follows

LEMMA GotoFollows ==
  ASSUME ProcType, NEW h \in Handlers, NEW w \in Pcs, goto(h, w),
         proc[h].pc \in Sent => w \in Sent
  PROVE  \A g \in Handlers : Follows(proc[g], proc'[g])
<1>1. /\ proc'[h].pc = w /\ proc'[h].op = proc[h].op
      /\ proc'[h].n = proc[h].n /\ proc'[h].key = proc[h].key
      /\ \A g \in Handlers : g # h => proc'[g] = proc[g]
  BY Zenon DEF ProcType, Recs, goto
<1> QED BY Zenon, <1>1 DEF Follows

LEMMA CutFollows ==
  ASSUME ProcType, NEW h \in Handlers, NEW w \in Pcs,
         proc' = [proc EXCEPT ![h].cut = TRUE, ![h].pc = w], proc[h].pc \notin Sent
  PROVE  \A g \in Handlers : Follows(proc[g], proc'[g])
<1>1. /\ proc'[h].op = proc[h].op
      /\ proc'[h].n = proc[h].n /\ proc'[h].key = proc[h].key
      /\ \A g \in Handlers : g # h => proc'[g] = proc[g]
  BY Zenon DEF ProcType, Recs
<1> QED BY Zenon, <1>1 DEF Follows

LEMMA DoneFollows ==
  ASSUME ProcType, NEW h \in Handlers, done(h)
  PROVE  \A g \in Handlers : Follows(proc[g], proc'[g])
BY Zenon, DoneIdles DEF Follows

LEMMA FinishFollows ==
  ASSUME ProcType, NEW h \in Handlers, NEW ok, finish(h, ok)
  PROVE  \A g \in Handlers : Follows(proc[g], proc'[g])
BY Zenon, FinishIdles DEF Follows

(* No step but an arrival and a sending gives a handler a request or a number. *)
LEMMA StepFollows ==
  ASSUME HandlerInv, NEW h \in Handlers,
         \/ localStep(h) \/ interceptInitialize(h) \/ sendFails(h) \/ receive(h) \/ giveUp(h)
         \/ registerStream(h) \/ leaveStream(h) \/ closeDeleted(h)
  PROVE  \A g \in Handlers : Follows(proc[g], proc'[g])
<1>0. ProcType BY DEF HandlerInv
<1>1. ASSUME NEW w \in Pcs, goto(h, w), proc[h].pc \in Sent => w \in Sent
      PROVE  \A g \in Handlers : Follows(proc[g], proc'[g])
  BY Zenon, <1>0, <1>1, GotoFollows
<1>2. CASE done(h) BY Zenon, <1>0, <1>2, DoneFollows
<1>3. ASSUME NEW ok, finish(h, ok)
      PROVE  \A g \in Handlers : Follows(proc[g], proc'[g])
  BY Zenon, <1>0, <1>3, FinishFollows
<1>4. CASE AddWithIDLoad(h) \/ AddWithIDStore(h) \/ interceptSubscribe(h)
           \/ interceptUnsubscribe(h) \/ deleteSession(h) \/ purgeSession(h)
           \/ interceptInitialize(h) \/ registerStream(h)
  <2>1. proc[h].pc \notin Sent
    BY <1>4 DEF AddWithIDLoad, AddWithIDStore, interceptSubscribe, interceptUnsubscribe,
         deleteSession, purgeSession, interceptInitialize, registerStream, At, Sent
  <2>2. done(h) \/ \E w \in {"store", "intercept", "record", "send", "purge", "close", "joined",
                             "stream"} : goto(h, w)
    BY Zenon, <1>4 DEF AddWithIDLoad, AddWithIDStore, interceptSubscribe, interceptUnsubscribe,
         deleteSession, purgeSession, interceptInitialize, registerStream
  <2>3. {"store", "intercept", "record", "send", "purge", "close", "joined", "stream"} \subseteq Pcs
    BY DEF Pcs
  <2> QED BY Zenon, <1>1, <1>2, <2>1, <2>2, <2>3
<1>5. CASE lockUri(h) \/ intercept(h)
  <2>1. proc[h].pc \notin Sent
    BY <1>5 DEF lockUri, intercept, At, Sent
  <2>2. \/ goto(h, "send")
        \/ \E w \in {"peek", "remove", "fly"} :
             proc' = [proc EXCEPT ![h].cut = TRUE, ![h].pc = w]
    BY Zenon, <1>5 DEF lockUri, intercept
  <2>3. {"peek", "remove", "fly", "send"} \subseteq Pcs BY DEF Pcs
  <2> QED BY Zenon, <1>0, <1>1, <2>1, <2>2, <2>3, CutFollows
<1>6. CASE receive(h)
  <2>1. finish(h, chan[h][1].ok) \/ goto(h, "record") BY Zenon, <1>6 DEF receive
  <2>2. "record" \in Pcs /\ "record" \in Sent BY DEF Pcs, Sent
  <2> QED BY Zenon, <1>1, <1>3, <2>1, <2>2
<1>7. CASE addSubscription(h) \/ leaveStream(h) \/ closeDeleted(h)
  BY Zenon, <1>2, <1>7 DEF addSubscription, leaveStream, closeDeleted
<1>8. CASE sendFails(h) \/ giveUp(h)
  BY Zenon, <1>3, <1>8 DEF sendFails, giveUp
<1> QED BY Zenon, <1>4, <1>5, <1>6, <1>7, <1>8 DEF localStep

LEMMA ArrivalNumbered ==
  ASSUME HandlerInv, NEW h \in Handlers, arrivals(h) \/ posts(h)
  PROVE  /\ Numbered(proc'[h])
         /\ \A g \in Handlers : g # h => proc'[g] = proc[g]
         /\ \/ proc'[h].op \notin Ops
            \/ sent + Cardinality(Forwarding) < mix.requests
<1>0. ProcType BY DEF HandlerInv
<1>1. ASSUME NEW op \in Ops \cup {"get", "delete"}, NEW s \in Sessions \cup {NoSession},
             NEW u \in Uris \cup {None}, NEW w \in Pcs \ Sent, arrive(h, op, s, u, w)
      PROVE  /\ Numbered(proc'[h]) /\ proc'[h].op = op
             /\ \A g \in Handlers : g # h => proc'[g] = proc[g]
  <2> DEFINE q == [Idle EXCEPT !.op = op, !.sess = s, !.uri = u, !.pc = w]
  <2>1. proc' = [proc EXCEPT ![h] = q] BY Zenon, <1>1 DEF arrive
  <2>2. q.op = op /\ q.pc = w /\ q.n = Idle.n /\ q.key = Idle.key
    BY Zenon, IdleType DEF Recs
  <2> HIDE DEF q
  <2>3. proc'[h] = q /\ \A g \in Handlers : g # h => proc'[g] = proc[g]
    BY Zenon, <1>0, <2>1 DEF ProcType
  <2>4. Idle.n = 0 /\ Idle.key = <<>> BY Zenon DEF Idle
  <2>5. Numbered(q) BY <1>1, <2>2, <2>4, ProxyConstants DEF Numbered
  <2> QED BY Zenon, <2>2, <2>3, <2>5
<1>2. /\ {"intercept", "add", "lock", "register", "delete"} \subseteq Pcs \ Sent
      /\ {"initialize", "call", "subscribe", "unsubscribe"} \subseteq Ops
      /\ "get" \notin Ops /\ "delete" \notin Ops
  BY DEF Pcs, Sent, Ops
<1>3. CASE \E s \in Sessions : Get(h, s) \/ Delete(h, s)
  BY Zenon, <1>1, <1>2, <1>3 DEF Get, Delete
<1>4. CASE \E s \in Sessions : Initialize(h, s)
  BY Zenon, <1>1, <1>2, <1>4 DEF Initialize
<1>5. CASE posts(h)
  BY Zenon, <1>1, <1>2, <1>5 DEF posts, Post
<1> QED BY Zenon, <1>3, <1>4, <1>5 DEF arrivals

(* Only a resource is subscribed to. *)
Names(m) == m.op \in {"subscribe", "unsubscribe"} => m.uri \in Uris

Channels ==
  /\ PipeTypeOK
  /\ \A s \in Sessions : used[s] <= sent
  /\ \A i \in 1..Len(messageCh) : Names(messageCh[i])

(* A message leaves the channel. *)
LEMMA ChannelsAnswer ==
  ASSUME Channels, backendStep
  PROVE  Channels'
<1>0. /\ UNCHANGED <<sent, used, waiters, chan>>
      /\ messageCh \in Seq(Messages) /\ responseCh \in Seq(Responses)
      /\ Len(messageCh) <= MessageCap /\ Len(responseCh) <= ResponseCap
      /\ subscribed \subseteq Uris
      /\ \A j \in 1..Len(messageCh) : Names(messageCh[j])
  BY Zenon DEF backendStep, backendAnswers, messageLost, Channels, PipeTypeOK
<1>1. /\ Len(messageCh) \in Nat /\ Len(responseCh) \in Nat
      /\ MessageCap \in Nat /\ ResponseCap \in Nat
  BY Zenon, <1>0, SeqBasics, ProxyConstants
<1>2. ASSUME messageCh' \in Seq(Messages), Drawn(messageCh', messageCh),
             Len(messageCh') = Len(messageCh) - 1,
             responseCh' \in Seq(Responses), Len(responseCh') <= ResponseCap,
             subscribed' \subseteq Uris
      PROVE  Channels'
  <2>1. Len(messageCh') <= MessageCap BY <1>0, <1>1, <1>2
  <2>2. \A j \in 1..Len(messageCh') : Names(messageCh'[j])
    BY Zenon, <1>0, <1>2 DEF Drawn
  <2>3. /\ sent' \in 0..MaxRequests /\ used' \in [Sessions -> 0..MaxRequests]
        /\ \E K \in SUBSET Keys : waiters' \in [K -> Handlers]
        /\ chan' \in [Handlers -> {<<>>} \cup {<<r>> : r \in Responses}]
        /\ \A s \in Sessions : used'[s] <= sent'
    BY Zenon, <1>0 DEF Channels, PipeTypeOK
  <2> QED BY Zenon, <1>2, <2>1, <2>2, <2>3 DEF Channels, PipeTypeOK
<1>3. CASE messageLost
  <2>1. messageCh # <<>> /\ messageCh' = Tail(messageCh) /\ UNCHANGED <<responseCh, subscribed>>
    BY Zenon, <1>3 DEF messageLost
  <2>2. /\ messageCh' \in Seq(Messages) /\ Drawn(messageCh', messageCh)
        /\ Len(messageCh') = Len(messageCh) - 1
    <3>1. PICK q \in Seq(Messages) : q = messageCh BY Zenon, <1>0
    <3>2. q # <<>> BY Zenon, <2>1, <3>1
    <3>3. /\ Tail(q) \in Seq(Messages)
          /\ \A j \in 1..Len(Tail(q)) : \E l \in 1..Len(q) : Tail(q)[j] = q[l]
      BY <3>2, TailSeq
    <3>4. Len(Tail(q)) = Len(q) - 1 BY <3>2, SeqTail
    <3> QED BY Zenon, <2>1, <3>1, <3>3, <3>4 DEF Drawn
  <2> QED BY Zenon, <1>0, <1>2, <2>1, <2>2
<1>4. ASSUME NEW i \in 1..MessageCap, NEW ok \in BOOLEAN, backendAnswers(i, ok)
      PROVE  Channels'
  <2> DEFINE m == messageCh[i]
             r == [n |-> m.n, key |-> m.key, ok |-> ok]
  <2>1. /\ i \in DOMAIN messageCh /\ messageCh' = Without(messageCh, i)
        /\ responseCh' = IF Len(responseCh) < ResponseCap
                         THEN Append(responseCh, r) ELSE responseCh
        /\ subscribed' = CASE m.op = "subscribe" /\ ok   -> subscribed \cup {m.uri}
                           [] m.op = "unsubscribe" /\ ok -> subscribed \ {m.uri}
                           [] OTHER                      -> subscribed
    BY Zenon, <1>4 DEF backendAnswers
  <2>2. m \in Messages /\ Names(m) BY Zenon, <1>0, <2>1, SeqBasics
  <2>3. r \in Responses BY <2>2 DEF Messages, Responses
  <2> HIDE DEF m, r
  <2>4. subscribed' \subseteq Uris
    <3>1. CASE m.op = "subscribe" /\ ok BY Zenon, <1>0, <2>1, <2>2, <3>1 DEF Names
    <3>2. CASE ~(m.op = "subscribe" /\ ok) BY <1>0, <2>1, <3>2
    <3> QED BY Zenon, <3>1, <3>2
  <2>5. /\ messageCh' \in Seq(Messages) /\ Drawn(messageCh', messageCh)
        /\ Len(messageCh') = Len(messageCh) - 1
    BY Zenon, <1>0, <2>1, WithoutSeq
  <2>6. responseCh' \in Seq(Responses) /\ Len(responseCh') <= ResponseCap
    <3>1. CASE responseCh' = responseCh BY Zenon, <1>0, <3>1
    <3>2. CASE responseCh' = Append(responseCh, r) /\ Len(responseCh) < ResponseCap
      <4>1. responseCh' \in Seq(Responses) /\ Len(responseCh') = Len(responseCh) + 1
        BY Zenon, <1>0, <2>3, <3>2, SeqAppend
      <4> QED BY <1>1, <3>2, <4>1
    <3> QED BY Zenon, <2>1, <3>1, <3>2
  <2> QED BY Zenon, <1>2, <2>4, <2>5, <2>6
<1> QED BY Zenon, <1>3, <1>4 DEF backendStep

(* A response leaves the channel, and goes to the waiter's box or nowhere. *)
LEMMA ChannelsRoute ==
  ASSUME Channels, dispatchResponses
  PROVE  Channels'
<1>0. /\ UNCHANGED <<sent, used, waiters, messageCh, subscribed>>
      /\ responseCh # <<>> /\ responseCh' = Tail(responseCh)
      /\ responseCh \in Seq(Responses) /\ Len(responseCh) <= ResponseCap
      /\ chan \in [Handlers -> {<<>>} \cup {<<x>> : x \in Responses}]
  BY Zenon DEF dispatchResponses, routeResponseToWaiter, Channels, PipeTypeOK
<1>1. PICK r \in Responses : r = Head(responseCh) BY Zenon, <1>0, SeqTail
<1>2. chan' = chan \/ chan' = [chan EXCEPT ![waiters[r.key]] = <<r>>]
  BY Zenon, <1>1 DEF dispatchResponses, routeResponseToWaiter
<1>3. chan' \in [Handlers -> {<<>>} \cup {<<x>> : x \in Responses}]
  BY Zenon, <1>0, <1>2
<1>4. responseCh' \in Seq(Responses) /\ Len(responseCh') <= ResponseCap
  <2>1. /\ responseCh' \in Seq(Responses) /\ Len(responseCh') = Len(responseCh) - 1
        /\ Len(responseCh) \in Nat /\ ResponseCap \in Nat
    BY Zenon, <1>0, SeqTail, SeqBasics, ProxyConstants
  <2> QED BY <1>0, <2>1
<1> QED BY Zenon, <1>0, <1>3, <1>4 DEF Channels, PipeTypeOK

(* A waiter is taken away. *)
LEMMA ChannelsLeave ==
  ASSUME Channels, NEW h \in Handlers, NEW k, cleanup(h, k)
  PROVE  Channels'
<1>1. /\ UNCHANGED <<sent, used, messageCh, responseCh, subscribed>>
      /\ waiters' = [j \in DOMAIN waiters \ {k} |-> waiters[j]]
      /\ chan' = [chan EXCEPT ![h] = <<>>]
  BY Zenon DEF cleanup
<1>2. PICK K \in SUBSET Keys : waiters \in [K -> Handlers]
  BY Zenon DEF Channels, PipeTypeOK
<1>3. waiters' \in [K \ {k} -> Handlers] /\ K \ {k} \in SUBSET Keys
  BY Zenon, <1>1, <1>2
<1>4. chan' \in [Handlers -> {<<>>} \cup {<<x>> : x \in Responses}]
  BY Zenon, <1>1 DEF Channels, PipeTypeOK
<1> QED BY Zenon, <1>1, <1>3, <1>4 DEF Channels, PipeTypeOK

(* A message is put, and the waiter with it. *)
LEMMA ChannelsSend ==
  ASSUME HandlerInv, Channels, sent \in Nat, sent < MaxRequests, NEW h \in Handlers,
         sendRequest(h)
  PROVE  Channels' /\ Numbered(proc'[h])
<1> DEFINE s == proc[h].sess
           k == compositeKey(s)
           m == [n |-> sent + 1, key |-> k, op |-> proc[h].op, uri |-> proc[h].uri]
<1>0. /\ used \in [Sessions -> 0..MaxRequests] /\ MaxRequests \in Nat /\ MessageCap \in Nat
      /\ \A t \in Sessions : used[t] <= sent
      /\ messageCh \in Seq(Messages) /\ Len(messageCh) \in Nat
      /\ \A j \in 1..Len(messageCh) : Names(messageCh[j])
  BY Zenon, ProxyConstants, SeqBasics DEF Channels, PipeTypeOK
<1>1. /\ Len(messageCh) < MessageCap /\ sent' = sent + 1
      /\ used' = IF s = NoSession THEN used ELSE [used EXCEPT ![s] = @ + 1]
      /\ waiters' = [j \in DOMAIN waiters \cup {k} |-> IF j = k THEN h ELSE waiters[j]]
      /\ chan' = [chan EXCEPT ![h] = <<>>]
      /\ messageCh' = Append(messageCh, m)
      /\ UNCHANGED <<responseCh, subscribed>>
  BY Zenon DEF sendRequest, sendCorrelatedRequest
<1>2. /\ s \in Sessions \cup {NoSession} /\ proc[h].op \in Ops /\ proc[h].uri \in Uris \cup {None}
      /\ proc[h].op \in {"subscribe", "unsubscribe"} => proc[h].uri \in Uris
  BY DEF HandlerInv, ProcType, Recs, Shape, ShapeOf, sendRequest, At
<1> HIDE DEF s
<1>3. sent + 1 \in 1..MaxRequests /\ sent' \in 0..MaxRequests BY <1>0, <1>1
<1>4. \A t \in Sessions : used[t] + 1 \in 1..MaxRequests /\ used[t] + 1 <= sent + 1
                          /\ used[t] <= sent + 1
  BY <1>0
<1>5. k \in Keys
  <2>1. CASE s = NoSession
    <3>1. k = <<sent + 1, 1>> BY Zenon, <2>1 DEF compositeKey
    <3>2. 1 \in 1..MaxRequests BY <1>0, <1>3
    <3> QED BY <1>3, <3>1, <3>2 DEF Keys
  <2>2. CASE s # NoSession
    <3>1. k = <<s, used[s] + 1>> /\ s \in Sessions BY Zenon, <1>2, <2>2 DEF compositeKey
    <3> QED BY <1>4, <3>1 DEF Keys
  <2> QED BY Zenon, <2>1, <2>2
<1>6. Numbered(proc'[h])
  <2>1. used \in [Sessions -> Nat] BY <1>0
  <2>2. proc'[h].pc = "wait" /\ proc'[h].n = sent + 1 /\ proc'[h].key = k
    BY Zenon, <2>1, SendKeeps DEF s
  <2>3. sent + 1 <= MaxRequests BY <1>3
  <2>4. "wait" \in Sent BY Zenon DEF Sent
  <2> QED BY Zenon, <1>5, <2>2, <2>3, <2>4 DEF Numbered
<1> HIDE DEF k
<1>7. m \in Messages /\ Names(m) BY <1>2, <1>3, <1>5 DEF Messages, Names
<1> HIDE DEF m
<1>8. /\ messageCh' \in Seq(Messages) /\ Len(messageCh') = Len(messageCh) + 1
      /\ \A j \in 1..Len(messageCh) : messageCh'[j] = messageCh[j]
      /\ messageCh'[Len(messageCh) + 1] = m
  <2>1. PICK q \in Seq(Messages), e \in Messages : q = messageCh /\ e = m BY Zenon, <1>0, <1>7
  <2>2. /\ Append(q, e) \in Seq(Messages) /\ Len(Append(q, e)) = Len(q) + 1
        /\ \A j \in 1..Len(q) : Append(q, e)[j] = q[j]
        /\ Append(q, e)[Len(q) + 1] = e
    BY SeqAppend
  <2> QED BY Zenon, <1>1, <2>1, <2>2
<1>9. Len(messageCh') <= MessageCap BY <1>0, <1>1, <1>8
<1>10. \A j \in 1..Len(messageCh') : Names(messageCh'[j])
  <2>1. \A j \in 1..Len(messageCh') : j \in 1..Len(messageCh) \/ j = Len(messageCh) + 1
    BY <1>0, <1>8
  <2> QED BY Zenon, <1>0, <1>7, <1>8, <2>1
<1>11. used' \in [Sessions -> 0..MaxRequests] /\ \A t \in Sessions : used'[t] <= sent'
  <2>1. CASE s = NoSession BY Zenon, <1>0, <1>1, <1>4, <2>1
  <2>2. CASE s # NoSession
    <3>1. s \in Sessions /\ used' = [used EXCEPT ![s] = used[s] + 1] BY Zenon, <1>1, <1>2, <2>2
    <3> QED BY <1>0, <1>1, <1>4, <3>1
  <2> QED BY Zenon, <2>1, <2>2
<1>12. \E K \in SUBSET Keys : waiters' \in [K -> Handlers]
  <2>1. PICK K \in SUBSET Keys : waiters \in [K -> Handlers]
    BY Zenon DEF Channels, PipeTypeOK
  <2>2. waiters' \in [K \cup {k} -> Handlers] BY Zenon, <1>1, <2>1
  <2> QED BY Zenon, <1>5, <2>1, <2>2
<1>13. chan' \in [Handlers -> {<<>>} \cup {<<x>> : x \in Responses}]
  BY Zenon, <1>1 DEF Channels, PipeTypeOK
<1>14. /\ responseCh' \in Seq(Responses) /\ Len(responseCh') <= ResponseCap
       /\ subscribed' \subseteq Uris
  BY Zenon, <1>1 DEF Channels, PipeTypeOK
<1> QED BY Zenon, <1>3, <1>6, <1>8, <1>9, <1>10, <1>11, <1>12, <1>13, <1>14
           DEF Channels, PipeTypeOK

NumberInv == Channels /\ \A h \in Handlers : Numbered(proc[h])

(* A step that is not the sending of a request too many keeps the numbers
   within the bound.                                                       *)
LEMMA NumberNext ==
  ASSUME HandlerInv, NumberInv, [Next]_vars,
         \A h \in Handlers : sendRequest(h) => sent < MaxRequests
  PROVE  NumberInv'
<1>r. ASSUME UNCHANGED pipeVars, \A g \in Handlers : Numbered(proc'[g])
      PROVE  NumberInv'
  BY Zenon, <1>r DEF NumberInv, Channels, PipeTypeOK, pipeVars, Names
<1>f. ASSUME \A g \in Handlers : Follows(proc[g], proc'[g])
      PROVE  \A g \in Handlers : Numbered(proc'[g])
  BY Zenon, <1>f, NumberedFollows DEF NumberInv
<1>1. CASE quiet \/ reapClose \/ StopStreams \/ UNCHANGED vars
  <2>1. UNCHANGED <<proc, pipeVars>>
    BY Zenon, <1>1, QuietKeeps DEF reapClose, reapVars, StopStreams, vars
  <2> QED BY Zenon, <1>r, <2>1 DEF NumberInv
<1>2. CASE backendStep \/ dispatchResponses
  <2>1. UNCHANGED proc BY Zenon, <1>2 DEF backendStep, dispatchResponses, outside
  <2> QED BY Zenon, <1>2, <2>1, ChannelsAnswer, ChannelsRoute DEF NumberInv
<1>3. ASSUME NEW h \in Handlers,
             \/ arrivals(h) \/ posts(h) \/ localStep(h) \/ interceptInitialize(h)
             \/ sendRequest(h) \/ sendFails(h) \/ receive(h) \/ giveUp(h)
             \/ registerStream(h) \/ leaveStream(h) \/ closeDeleted(h)
      PROVE  NumberInv'
  <2>1. CASE arrivals(h) \/ posts(h)
    BY Zenon, <1>r, <2>1, ArriveKeeps, ArrivalNumbered DEF NumberInv
  <2>2. CASE sendRequest(h)
    <3>1. sent \in Nat /\ used \in [Sessions -> Nat]
      BY DEF NumberInv, Channels, PipeTypeOK
    <3>2. \A g \in Handlers : g # h => proc'[g] = proc[g] BY Zenon, <2>2, <3>1, SendKeeps
    <3> QED BY Zenon, <2>2, <3>1, <3>2, ChannelsSend DEF NumberInv
  <2>3. CASE localStep(h) \/ interceptInitialize(h) \/ sendFails(h)
             \/ registerStream(h) \/ leaveStream(h) \/ closeDeleted(h)
    <3>1. UNCHANGED pipeVars
      BY Zenon, <2>3, LocalKeeps, FlyKeeps, StreamStepKeeps DEF sendFails
    <3> QED BY Zenon, <1>f, <1>r, <2>3, <3>1, StepFollows
  <2>4. CASE receive(h) \/ giveUp(h)
    <3>1. Channels' BY Zenon, <2>4, ChannelsLeave DEF receive, giveUp, NumberInv
    <3> QED BY Zenon, <1>f, <2>4, <3>1, StepFollows DEF NumberInv
  <2> QED BY Zenon, <1>3, <2>1, <2>2, <2>3, <2>4
<1> QED BY Zenon, <1>1, <1>2, <1>3, StepKinds
=============================================================================
