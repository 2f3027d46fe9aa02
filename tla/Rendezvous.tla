----------------------------- MODULE Rendezvous -----------------------------
(***************************************************************************)
(* What the streamable proxy promises the handler of a request that it     *)
(* forwards to the backend: while the handler waits it gets one reply, the *)
(* reply to that very request, or it gets none and leaves; it never gets a *)
(* second one, nor one meant for another request. Requests are numbered as *)
(* they are sent.                                                          *)
(***************************************************************************)
EXTENDS Naturals

CONSTANT Handlers

VARIABLES last,    \* the number of the last request that was sent
          asked,   \* the number of the request a handler waits for, or 0
          reply    \* the number of the request whose reply it holds, or 0

rvars == <<last, asked, reply>>

Init ==
  /\ last = 0
  /\ asked = [h \in Handlers |-> 0]
  /\ reply = [h \in Handlers |-> 0]

Ask(h) ==
  /\ asked[h] = 0
  /\ last' = last + 1
  /\ asked' = [asked EXCEPT ![h] = last + 1]
  /\ UNCHANGED reply

Reply(h) ==
  /\ asked[h] # 0
  /\ reply[h] = 0
  /\ reply' = [reply EXCEPT ![h] = asked[h]]
  /\ UNCHANGED <<last, asked>>

Leave(h) ==
  /\ asked[h] # 0
  /\ asked' = [asked EXCEPT ![h] = 0]
  /\ reply' = [reply EXCEPT ![h] = 0]
  /\ UNCHANGED last

Next == \E h \in Handlers : Ask(h) \/ Reply(h) \/ Leave(h)

Spec == Init /\ [][Next]_rvars
=============================================================================
