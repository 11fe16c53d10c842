-------------------------- MODULE WsmanClientProofs --------------------------
(***************************************************************************)
(* Proofs about WsmanClient and WsmanResponse: single flight, a queue that *)
(* is always served, no reply left behind and no nonce count written       *)
(* twice, for any number of requests, certificates, nonces and settings;   *)
(* and the exact body of a response of any length, cut in any way.         *)
(***************************************************************************)
EXTENDS WsmanClient, WsmanResponse, Integers, FiniteSetTheorems, SequenceTheorems, TLAPS

(***************************************************************************)
(* The inductive invariant.                                                *)
(***************************************************************************)

\* A reply that waits in the queue is as sendEnvelope() left it.
QueuedReply == [NewReply EXCEPT !.st = "Idle", !.viaQueue = TRUE]

Working(rec) == rec.st \notin {"Unsent", "Idle"} /\ ~rec.finished

\* What is true of every single reply.
ReplyOk(rec) ==
    /\ rec.st = "Unsent" => rec = NewReply
    /\ rec.st = "Idle" => rec = QueuedReply
    /\ rec.finished => rec.st \in {"Done", "Failed"}
    /\ rec.heard => rec.finished
    /\ rec.deleted => rec.finished
    /\ Working(rec) => rec.armed /\ (rec.opening => rec.st = "Connecting" /\ rec.tunnel)

\* The queue holds the replies that wait, each once.
QueueOk(rep, q) ==
    /\ \A i, j \in 1..Len(q) : q[i] = q[j] => i = j
    /\ \A i \in 1..Len(q) : rep[q[i]].st = "Idle"
    /\ \A r \in Requests : rep[r].st = "Idle" => \E i \in 1..Len(q) : q[i] = r

\* The current request is the reply sent through the queue that is at work.
CurrentOk(rep, q, cur) ==
    /\ \A r \in Requests : rep[r].viaQueue /\ Working(rep[r]) => cur = r
    /\ cur # NoReply => rep[cur].viaQueue /\ Working(rep[cur])
    /\ q # <<>> => cur # NoReply

\* Where abort() may be called, nothing goes through the queue.
AbortOk ==
    "Abort" \in profile.events => ~serialize /\ \A r \in Requests : ~reply[r].viaQueue

FlightOk(rep, q, cur) ==
    /\ \A r \in Requests : ReplyOk(rep[r])
    /\ QueueOk(rep, q)
    /\ CurrentOk(rep, q, cur)

FlightInv == FlightOk(reply, queue, current) /\ AbortOk

BeforeWrite == {"Connecting", "TlsHandshaking", "WritingRequest"}

\* A reply that has taken a nonce count and is yet to write it.
Pending(rec) == Working(rec) /\ rec.auth # NoAuth /\ rec.st \in BeforeWrite

PairOf(rec) == <<rec.auth.nonce, rec.auth.nc>>

\* A pair is under a nonce that was taken from a challenge, and under the cached one
\* its count is not beyond the current count.
Counted(p, cs, n, k) == p[1] \in cs /\ p[1] # 0 /\ (p[1] = n => p[2] <= k)

\* As long as no nonce was taken again: the pairs written and the pairs taken are all
\* different, and all behind the count.
CountOk ==
    /\ nonce # 0 => nonce \in counted
    /\ \A p \in used : Counted(p, counted, nonce, nc)
    /\ \A r \in Requests :
          Pending(reply[r]) => /\ Counted(PairOf(reply[r]), counted, nonce, nc)
                               /\ PairOf(reply[r]) \notin used
    /\ \A r, s \in Requests :
          Pending(reply[r]) /\ Pending(reply[s]) /\ PairOf(reply[r]) = PairOf(reply[s]) => r = s
    /\ ~reused

\* Every response is under one of the device's nonces.
WireInv ==
    /\ haveDigest => nonce # 0
    /\ devNonce # 0
    /\ \A r \in Requests :
          Working(reply[r]) /\ reply[r].wire # NoResponse => reply[r].wire.nonce # 0

\* One at a time, the responses are under nonces that are not older than the cached one,
\* and that is the newest of those taken.
SteadyInv ==
    Steady =>
      /\ serialize /\ nonce <= devNonce /\ ~rewound
      /\ \A n \in counted : n <= nonce
      /\ \A r \in Requests :
            /\ reply[r].st # "Unsent" => reply[r].viaQueue
            /\ Working(reply[r]) /\ reply[r].wire # NoResponse
                 => /\ reply[r].wire.kind \in profile.kinds
                    /\ nonce <= reply[r].wire.nonce /\ reply[r].wire.nonce <= devNonce

NonceInv == WireInv /\ (~rewound => CountOk) /\ SteadyInv

IndInv == TypeOK /\ FlightInv /\ NonceInv
-----------------------------------------------------------------------------
(* Replies.                                                                *)

\* What starting a reply brings: a new attempt under `auth`, its timeout armed; a
\* failure when it has to go through a tunnel that is down.
Begun(s, rec, auth, down) ==
    /\ s \in ReplyType
    /\ s.armed /\ s.viaQueue = rec.viaQueue /\ s.deleted = rec.deleted
    /\ s.wire = NoResponse /\ s.auth = auth
    /\ down => s.finished /\ s.st = "Failed"
    /\ ~down => ~s.finished /\ s.st = "Connecting" /\ s.heard = rec.heard
    /\ s.opening => s.tunnel

PairFor(pre, k) == IF pre = 0 THEN NoAuth ELSE [nonce |-> pre, nc |-> k]

LEMMA BlankFields == NewReply \in ReplyType /\ QueuedReply \in ReplyType
  BY DEF NewReply, QueuedReply, ReplyType, States, Errors, NoAuth, NoResponse, Kinds

LEMMA FinishedFields ==
    ASSUME NEW rec \in ReplyType, NEW e \in Errors
    PROVE  LET s == Finished(rec, e)
           IN  /\ s \in ReplyType /\ s.finished /\ s.st \in {"Done", "Failed"}
               /\ s.viaQueue = rec.viaQueue /\ s.deleted = rec.deleted
               /\ s.armed = rec.armed /\ s.auth = rec.auth /\ s.wire = rec.wire
  BY DEF Finished, ReplyType, States, Errors

LEMMA TransportFields ==
    ASSUME NEW rec \in ReplyType, ~rec.finished, NEW f \in BOOLEAN, NEW up \in BOOLEAN
    PROVE  Begun(StartTransport(rec, f, up), rec, NoAuth, f /\ ~up)
  <1> DEFINE opened == [rec EXCEPT !.armed = TRUE, !.st = "Connecting", !.auth = NoAuth,
                                   !.wire = NoResponse, !.prompts = TRUE,
                                   !.tunnel = f, !.opening = f /\ up]
  <1>1. opened \in ReplyType
    BY DEF ReplyType, States, NoAuth, NoResponse
  <1>2. /\ opened.armed /\ opened.viaQueue = rec.viaQueue /\ opened.deleted = rec.deleted
        /\ opened.wire = NoResponse /\ opened.auth = NoAuth
        /\ ~opened.finished /\ opened.st = "Connecting" /\ opened.heard = rec.heard
        /\ opened.opening => opened.tunnel
    BY DEF ReplyType
  <1> HIDE DEF opened
  <1>3. CASE f /\ ~up
    <2>1. StartTransport(rec, f, up) = Finished(opened, "Other")
      BY <1>3 DEF StartTransport, opened
    <2>2. /\ Finished(opened, "Other").st = "Failed"
          /\ Finished(opened, "Other").opening = opened.opening
          /\ Finished(opened, "Other").tunnel = opened.tunnel
      BY <1>1 DEF Finished, ReplyType
    <2>3. PICK s \in ReplyType : s = Finished(opened, "Other")
      BY <1>1, FinishedFields DEF Errors
    <2>4. /\ s.finished /\ s.viaQueue = rec.viaQueue /\ s.deleted = rec.deleted
          /\ s.armed /\ s.auth = opened.auth /\ s.wire = NoResponse
      BY <1>1, <1>2, <2>3, FinishedFields DEF Errors
    <2>5. s.st = "Failed" /\ (s.opening => s.tunnel)
      BY <1>2, <2>2, <2>3
    <2> QED BY <1>2, <1>3, <2>1, <2>3, <2>4, <2>5 DEF Begun
  <1>4. CASE ~(f /\ ~up)
    <2>1. StartTransport(rec, f, up) = opened
      BY <1>4 DEF StartTransport, opened
    <2> QED BY <1>1, <1>2, <1>4, <2>1 DEF Begun
  <1> QED BY <1>3, <1>4

LEMMA DigestFields ==
    ASSUME NEW rec \in ReplyType, ~rec.finished, NEW n \in Nat, NEW k \in Nat,
           NEW f \in BOOLEAN, NEW up \in BOOLEAN
    PROVE  Begun(RetryWithDigest(rec, n, k, f, up), rec, [nonce |-> n, nc |-> k], f /\ ~up)
  <1> DEFINE opened == [rec EXCEPT !.armed = TRUE, !.st = "Connecting",
                                   !.auth = [nonce |-> n, nc |-> k],
                                   !.wire = NoResponse, !.prompts = FALSE,
                                   !.tunnel = f, !.opening = f /\ up]
  <1>1. opened \in ReplyType
    BY DEF ReplyType, States, NoResponse
  <1>2. /\ opened.armed /\ opened.viaQueue = rec.viaQueue /\ opened.deleted = rec.deleted
        /\ opened.wire = NoResponse /\ opened.auth = [nonce |-> n, nc |-> k]
        /\ ~opened.finished /\ opened.st = "Connecting" /\ opened.heard = rec.heard
        /\ opened.opening => opened.tunnel
    BY DEF ReplyType
  <1> HIDE DEF opened
  <1>3. CASE f /\ ~up
    <2>1. RetryWithDigest(rec, n, k, f, up) = Finished(opened, "Other")
      BY <1>3 DEF RetryWithDigest, opened
    <2>2. /\ Finished(opened, "Other").st = "Failed"
          /\ Finished(opened, "Other").opening = opened.opening
          /\ Finished(opened, "Other").tunnel = opened.tunnel
      BY <1>1 DEF Finished, ReplyType
    <2>3. PICK s \in ReplyType : s = Finished(opened, "Other")
      BY <1>1, FinishedFields DEF Errors
    <2>4. /\ s.finished /\ s.viaQueue = rec.viaQueue /\ s.deleted = rec.deleted
          /\ s.armed /\ s.auth = opened.auth /\ s.wire = NoResponse
      BY <1>1, <1>2, <2>3, FinishedFields DEF Errors
    <2>5. s.st = "Failed" /\ (s.opening => s.tunnel)
      BY <1>2, <2>2, <2>3
    <2> QED BY <1>2, <1>3, <2>1, <2>3, <2>4, <2>5 DEF Begun
  <1>4. CASE ~(f /\ ~up)
    <2>1. RetryWithDigest(rec, n, k, f, up) = opened
      BY <1>4 DEF RetryWithDigest, opened
    <2> QED BY <1>1, <1>2, <1>4, <2>1 DEF Begun
  <1> QED BY <1>3, <1>4

LEMMA StartFields ==
    ASSUME NEW rec \in ReplyType, ~rec.finished, NEW pre \in Nat, NEW k \in Nat,
           factory \in BOOLEAN, sshUp \in BOOLEAN
    PROVE  Begun(Start(rec, pre, k), rec, PairFor(pre, k), factory /\ ~sshUp)
  <1>1. CASE pre = 0
    BY <1>1, TransportFields DEF Start, PairFor
  <1>2. CASE pre # 0
    BY <1>2, DigestFields DEF Start, PairFor
  <1> QED BY <1>1, <1>2

\* A started reply that was waiting is in order.
LEMMA BegunOk ==
    ASSUME NEW s, NEW auth, NEW down \in BOOLEAN, NEW rec \in ReplyType,
           ~rec.heard, ~rec.deleted, Begun(s, rec, auth, down)
    PROVE  ReplyOk(s) /\ s.st # "Idle" /\ (Working(s) <=> ~down)
  BY DEF Begun, ReplyOk, Working, ReplyType

LEMMA LeastOne ==
    ASSUME NEW n \in Nat, n # 0
    PROVE  Least(1..n) = 1
  BY DEF Least

LEMMA LeastOnly ==
    ASSUME NEW i \in Nat
    PROVE  Least({i}) = i
  BY DEF Least

LEMMA BehindFirst ==
    ASSUME NEW S, NEW q \in Seq(S), Len(q) # 0
    PROVE  /\ SubSeq(q, 2, Len(q)) \in Seq(S)
           /\ Len(SubSeq(q, 2, Len(q))) = Len(q) - 1
           /\ \A i \in 1..(Len(q) - 1) : SubSeq(q, 2, Len(q))[i] = q[i + 1]
  <1>1. Len(q) \in Nat /\ Len(q) \in Int /\ 2 \in Int /\ \A i \in 2..Len(q) : q[i] \in S
    BY LenProperties, ElementOfSeq
  <1>2. /\ SubSeq(q, 2, Len(q)) \in Seq(S)
        /\ Len(SubSeq(q, 2, Len(q))) = IF 2 <= Len(q) THEN Len(q) - 2 + 1 ELSE 0
        /\ \A i \in 1..(Len(q) - 2 + 1) : SubSeq(q, 2, Len(q))[i] = q[2 + i - 1]
    BY <1>1, SubSeqProperties
  <1>3. Len(SubSeq(q, 2, Len(q))) = Len(q) - 1
    <2>1. Len(q) \in Nat
      BY <1>1
    <2>2. ASSUME NEW n \in Nat, n # 0
          PROVE  n - 1 = IF 2 <= n THEN n - 2 + 1 ELSE 0
      <3>1. CASE 2 <= n
        BY <3>1
      <3>2. CASE n = 1
        BY <3>2
      <3> QED BY <2>2, <3>1, <3>2
    <2> QED BY <1>2, <2>1, <2>2
  <1>4. ASSUME NEW i \in 1..(Len(q) - 1)
        PROVE  SubSeq(q, 2, Len(q))[i] = q[i + 1]
    <2>1. i \in 1..(Len(q) - 2 + 1) /\ 2 + i - 1 = i + 1
      BY <1>1
    <2> QED BY <1>2, <2>1
  <1> QED BY <1>2, <1>3, <1>4

-----------------------------------------------------------------------------
(* The queue.                                                              *)

\* `old` waited and has been started by the drainer: if it is at work, it took the
\* first nonce count behind `base`, and no other reply took one.
Dequeued(old, new, pre, base) ==
    /\ old = QueuedReply
    /\ new.viaQueue /\ new.wire = NoResponse
    /\ Working(new) => new.auth = PairFor(pre, base + 1) /\ nc' = base + Taken(pre, 1)

\* The slot on finished(), with none of the queued replies' transports at work: the
\* next reply is started and current or, with the tunnel down, all of them fail.
LEMMA DrainWorks ==
    ASSUME NEW rep \in [Requests -> ReplyType], NEW q \in Seq(Requests),
           NEW pre \in Nat, NEW base \in Nat,
           factory \in BOOLEAN, sshUp \in BOOLEAN,
           \A r \in Requests : ReplyOk(rep[r]),
           QueueOk(rep, q),
           \A r \in Requests : rep[r].viaQueue => ~Working(rep[r]),
           Drain(rep, q, pre, base)
    PROVE  /\ reply' \in [Requests -> ReplyType] /\ queue' \in Seq(Requests)
           /\ current' \in Requests \cup {NoReply}
           /\ nc' \in Nat /\ base <= nc'
           /\ FlightOk(reply', queue', current')
           /\ \A r \in Requests : reply'[r] = rep[r] \/ Dequeued(rep[r], reply'[r], pre, base)
  <1> DEFINE down == factory /\ ~sshUp
             stops == Stops(rep, q)
             last == IF stops = {} THEN Len(q) ELSE Least(stops)
             turn(r) == {i \in 1..last : q[i] = r}
  <1>1. Len(q) \in Nat /\ \A i \in 1..Len(q) : q[i] \in Requests
    BY LenProperties, ElementOfSeq
  <1>2. \A i \in 1..Len(q) : rep[q[i]] = QueuedReply
    BY <1>1 DEF QueueOk, ReplyOk
  <1>3. /\ ~QueuedReply.deleted /\ ~QueuedReply.finished /\ ~QueuedReply.heard
        /\ QueuedReply.viaQueue /\ QueuedReply.st = "Idle"
    BY DEF QueuedReply, NewReply
  <1>4. stops = IF down THEN {} ELSE 1..Len(q)
    BY <1>2, <1>3 DEF Stops
  <1>5. last = IF down \/ Len(q) = 0 THEN Len(q) ELSE 1
    BY <1>1, <1>4, LeastOne
  <1>6. last \in 0..Len(q)
    BY <1>1, <1>5
  <1>7. \A k \in 0..Len(q) : Left(rep, q, k) = k
    <2> SUFFICES ASSUME NEW k \in 0..Len(q)
                 PROVE  Left(rep, q, k) = k
      OBVIOUS
    <2>1. {i \in 1..k : ~rep[q[i]].deleted} = 1..k
      BY <1>1, <1>2, <1>3
    <2>2. Cardinality(1..k) = k
      BY FS_Interval
    <2> QED BY <2>1, <2>2 DEF Left
  <1>8. \A i \in 1..last : turn(q[i]) = {i} /\ Least(turn(q[i])) = i
    BY <1>1, <1>6, LeastOnly DEF QueueOk
  <1> HIDE DEF last, stops
  <1>9. \A r \in Requests : reply'[r] = IF turn(r) # {} /\ ~rep[r].deleted
                        THEN Start(rep[r], pre, base + Left(rep, q, Least(turn(r))))
                        ELSE rep[r]
    BY DEF Drain, last, stops
  <1>10. /\ DOMAIN reply' = Requests
         /\ reply' = [r \in Requests |-> reply'[r]]
         /\ queue' = SubSeq(q, last + 1, Len(q))
         /\ current' = IF stops = {} THEN NoReply ELSE q[last]
         /\ nc' = base + Taken(pre, last)
    BY <1>6, <1>7 DEF Drain, last, stops
  <1>11. \A i \in 1..last : /\ reply'[q[i]] = Start(QueuedReply, pre, base + i)
                            /\ Begun(reply'[q[i]], QueuedReply, PairFor(pre, base + i), down)
    <2> SUFFICES ASSUME NEW i \in 1..last
                 PROVE  /\ reply'[q[i]] = Start(QueuedReply, pre, base + i)
                        /\ Begun(reply'[q[i]], QueuedReply, PairFor(pre, base + i), down)
      OBVIOUS
    <2>1. i \in 1..Len(q) /\ i \in 0..Len(q) /\ base + i \in Nat
      BY <1>1, <1>6
    <2>2. reply'[q[i]] = Start(rep[q[i]], pre, base + Left(rep, q, Least(turn(q[i]))))
      BY <1>1, <1>2, <1>3, <1>8, <1>9, <2>1
    <2>3. reply'[q[i]] = Start(QueuedReply, pre, base + i)
      BY <1>2, <1>7, <1>8, <2>1, <2>2
    <2> QED BY <1>3, <2>1, <2>3, StartFields, BlankFields
  <1>12. \A r \in Requests : (\A i \in 1..last : q[i] # r) => reply'[r] = rep[r]
    BY <1>9
  <1> HIDE DEF turn
  <1>13. \A r \in Requests : \/ reply'[r] = rep[r]
                             \/ \E i \in 1..last : q[i] = r
    BY <1>12
  <1>14. \A i \in 1..last : /\ reply'[q[i]] \in ReplyType /\ ReplyOk(reply'[q[i]])
                            /\ reply'[q[i]].viaQueue /\ reply'[q[i]].st # "Idle"
                            /\ reply'[q[i]].wire = NoResponse
                            /\ reply'[q[i]].auth = PairFor(pre, base + i)
                            /\ Working(reply'[q[i]]) <=> ~down
    <2> SUFFICES ASSUME NEW i \in 1..last
                 PROVE  /\ reply'[q[i]] \in ReplyType /\ ReplyOk(reply'[q[i]])
                        /\ reply'[q[i]].viaQueue /\ reply'[q[i]].st # "Idle"
                        /\ reply'[q[i]].wire = NoResponse
                        /\ reply'[q[i]].auth = PairFor(pre, base + i)
                        /\ Working(reply'[q[i]]) <=> ~down
      OBVIOUS
    <2>1. Begun(reply'[q[i]], QueuedReply, PairFor(pre, base + i), down)
      BY <1>11
    <2>2. ReplyOk(reply'[q[i]]) /\ reply'[q[i]].st # "Idle" /\ (Working(reply'[q[i]]) <=> ~down)
      BY <1>3, <2>1, BegunOk, BlankFields
    <2> QED BY <1>3, <2>1, <2>2 DEF Begun
  <1>15. reply' \in [Requests -> ReplyType] /\ \A r \in Requests : ReplyOk(reply'[r])
    <2>1. \A r \in Requests : reply'[r] \in ReplyType /\ ReplyOk(reply'[r])
      BY <1>13, <1>14
    <2> QED BY <1>10, <2>1
  <1>16. nc' \in Nat /\ base <= nc'
    BY <1>1, <1>6, <1>10 DEF Taken
  <1>17. CASE down \/ Len(q) = 0
    <2>1. last = Len(q) /\ stops = {}
      BY <1>1, <1>4, <1>5, <1>17 DEF stops
    <2>2. queue' = <<>> /\ current' = NoReply
      BY <1>1, <1>10, <2>1, SubSeqEmpty
    <2>3. \A r \in Requests : reply'[r].st # "Idle"
      BY <1>13, <1>14, <2>1 DEF QueueOk
    <2>4. \A r \in Requests : reply'[r].viaQueue => ~Working(reply'[r])
      BY <1>13, <1>14, <1>17, <2>1, <1>1
    <2>5. QueueOk(reply', queue') /\ CurrentOk(reply', queue', current')
      BY <2>2, <2>3, <2>4, EmptySeq DEF QueueOk, CurrentOk
    <2>6. \A r \in Requests : \/ reply'[r] = rep[r]
                              \/ /\ rep[r] = QueuedReply /\ reply'[r].viaQueue
                                 /\ reply'[r].wire = NoResponse /\ ~Working(reply'[r])
      BY <1>1, <1>2, <1>13, <1>14, <1>17, <2>1
    <2> QED BY <1>15, <1>16, <2>2, <2>5, <2>6, EmptySeq DEF FlightOk, Dequeued
  <1>18. CASE ~down /\ Len(q) # 0
    <2>1. last = 1 /\ stops # {}
      BY <1>1, <1>4, <1>5, <1>18 DEF stops
    <2>2. /\ current' = q[1]
          /\ queue' \in Seq(Requests) /\ Len(queue') = Len(q) - 1
          /\ \A i \in 1..Len(queue') : queue'[i] = q[i + 1]
      <3>1. current' = q[1] /\ queue' = SubSeq(q, 2, Len(q))
        BY <1>10, <2>1
      <3>2. /\ SubSeq(q, 2, Len(q)) \in Seq(Requests)
            /\ Len(SubSeq(q, 2, Len(q))) = Len(q) - 1
            /\ \A i \in 1..(Len(q) - 1) : SubSeq(q, 2, Len(q))[i] = q[i + 1]
        BY <1>18, BehindFirst
      <3> QED BY <3>1, <3>2
    <2>3. \A r \in Requests : r # q[1] => reply'[r] = rep[r]
      BY <1>13, <2>1
    <2>4. \A i \in 1..Len(queue') : queue'[i] # q[1]
      BY <1>1, <2>2 DEF QueueOk
    <2>5. QueueOk(reply', queue')
      <3>1. \A i, j \in 1..Len(queue') : queue'[i] = queue'[j] => i = j
        BY <1>1, <2>2 DEF QueueOk
      <3>2. \A i \in 1..Len(queue') : reply'[queue'[i]].st = "Idle"
        BY <1>1, <1>2, <1>3, <2>2, <2>3, <2>4
      <3>3. ASSUME NEW r \in Requests, reply'[r].st = "Idle"
            PROVE  \E i \in 1..Len(queue') : queue'[i] = r
        <4>1. r # q[1] /\ rep[r].st = "Idle"
          BY <1>14, <2>1, <2>3, <3>3
        <4>2. PICK i \in 1..Len(q) : q[i] = r
          BY <4>1 DEF QueueOk
        <4>3. i - 1 \in 1..Len(queue') /\ queue'[i - 1] = r
          BY <1>1, <2>2, <4>1, <4>2
        <4> QED BY <4>3
      <3> QED BY <3>1, <3>2, <3>3 DEF QueueOk
    <2>6. q[1] \in Requests /\ reply'[q[1]].viaQueue /\ Working(reply'[q[1]])
      BY <1>1, <1>14, <1>18, <2>1
    <2>7. CurrentOk(reply', queue', current')
      <3>1. NoReply \notin Requests
        BY WsmanAssumption
      <3> QED BY <2>2, <2>3, <2>6, <3>1 DEF CurrentOk
    <2>8. nc' = base + Taken(pre, 1) /\ reply'[q[1]].auth = PairFor(pre, base + 1)
      BY <1>10, <1>14, <2>1
    <2>9. rep[q[1]] = QueuedReply /\ reply'[q[1]].wire = NoResponse
      BY <1>1, <1>2, <1>14, <1>18, <2>1
    <2> QED BY <1>15, <1>16, <2>2, <2>3, <2>5, <2>6, <2>7, <2>8, <2>9 DEF FlightOk, Dequeued
  <1> QED BY <1>1, <1>17, <1>18

\* What an operation on reply r leaves: the invariant of the queue, r as `rec`, and
\* the others as they were or dequeued.
Outcome(r, rec, pre, base) ==
    /\ reply' \in [Requests -> ReplyType] /\ queue' \in Seq(Requests)
    /\ current' \in Requests \cup {NoReply}
    /\ nc' \in Nat /\ base <= nc'
    /\ FlightOk(reply', queue', current')
    /\ reply'[r] = rec
    /\ \A s \in Requests \ {r} :
          \/ reply'[s] = reply[s]
          \/ rec.finished /\ Dequeued(reply[s], reply'[s], pre, base)

\* A reply at work goes on working.
LEMMA Proceeds ==
    ASSUME TypeOK, FlightInv, NEW r \in Requests, NEW rec \in ReplyType,
           Working(reply[r]), Working(rec), ReplyOk(rec), rec.viaQueue = reply[r].viaQueue,
           reply' = [reply EXCEPT ![r] = rec], queue' = queue, current' = current
    PROVE  /\ reply' \in [Requests -> ReplyType]
           /\ FlightOk(reply', queue', current')
           /\ reply'[r] = rec /\ \A s \in Requests \ {r} : reply'[s] = reply[s]
  <1>1. reply \in [Requests -> ReplyType]
    BY DEF TypeOK
  <1>2. /\ reply' \in [Requests -> ReplyType]
        /\ reply'[r] = rec /\ \A s \in Requests \ {r} : reply'[s] = reply[s]
    BY <1>1
  <1>3. \A i \in 1..Len(queue) : queue[i] \in Requests
    BY ElementOfSeq DEF TypeOK
  <1>4. \A s \in Requests : reply'[s].st = "Idle" <=> reply[s].st = "Idle"
    BY <1>2 DEF Working
  <1>5. QueueOk(reply', queue')
    BY <1>3, <1>4 DEF QueueOk, FlightInv, FlightOk
  <1>6. \A s \in Requests : /\ reply'[s].viaQueue = reply[s].viaQueue
                            /\ Working(reply'[s]) <=> Working(reply[s])
    BY <1>2
  <1>7. CurrentOk(reply', queue', current')
    BY <1>6 DEF CurrentOk, FlightInv, FlightOk, TypeOK
  <1> QED BY <1>2, <1>5, <1>7 DEF FlightOk, FlightInv

\* A reply at work finishes, and the slot on finished() runs.
LEMMA Finishes ==
    ASSUME TypeOK, FlightInv, NEW r \in Requests, NEW rec \in ReplyType,
           Working(reply[r]), rec.finished, ReplyOk(rec), rec.viaQueue = reply[r].viaQueue,
           NEW pre \in Nat, NEW base \in Nat,
           Update(r, rec, queue, current, pre, base)
    PROVE  Outcome(r, rec, pre, base)
  <1> DEFINE rep == [reply EXCEPT ![r] = rec]
  <1>1. /\ reply \in [Requests -> ReplyType] /\ queue \in Seq(Requests)
        /\ factory \in BOOLEAN /\ sshUp \in BOOLEAN
        /\ current \in Requests \cup {NoReply}
    BY DEF TypeOK
  <1>2. /\ rep \in [Requests -> ReplyType]
        /\ rep[r] = rec /\ \A s \in Requests \ {r} : rep[s] = reply[s]
    BY <1>1
  <1>3. ~Working(rec) /\ rec.st \in {"Done", "Failed"} /\ ~reply[r].finished
    BY DEF Working, ReplyOk
  <1> HIDE DEF rep
  <1>4. \A i \in 1..Len(queue) : queue[i] \in Requests
    BY <1>1, ElementOfSeq
  <1>5. \A s \in Requests : rep[s].st = "Idle" <=> reply[s].st = "Idle"
    BY <1>2, <1>3 DEF Working
  <1>6. QueueOk(rep, queue)
    BY <1>4, <1>5 DEF QueueOk, FlightInv, FlightOk
  <1>7. \A s \in Requests : ReplyOk(rep[s])
    BY <1>2 DEF FlightInv, FlightOk
  <1>8. CASE rec.viaQueue
    <2>1. current = r
      BY <1>8 DEF FlightInv, FlightOk, CurrentOk
    <2>2. \A s \in Requests : rep[s].viaQueue => ~Working(rep[s])
      BY <1>2, <1>3, <2>1 DEF FlightInv, FlightOk, CurrentOk
    <2>3. Drain(rep, queue, pre, base)
      BY <1>3, <1>8 DEF Update, rep
    <2>4. /\ reply' \in [Requests -> ReplyType] /\ queue' \in Seq(Requests)
          /\ current' \in Requests \cup {NoReply}
          /\ nc' \in Nat /\ base <= nc'
          /\ FlightOk(reply', queue', current')
          /\ \A s \in Requests : reply'[s] = rep[s] \/ Dequeued(rep[s], reply'[s], pre, base)
      BY <1>1, <1>2, <1>6, <1>7, <2>2, <2>3, DrainWorks
    <2>5. QueuedReply.st = "Idle"
      BY DEF QueuedReply, NewReply
    <2>6. reply'[r] = rec
      BY <1>2, <1>3, <2>4, <2>5 DEF Dequeued
    <2> QED BY <1>2, <2>4, <2>6 DEF Outcome
  <1>9. CASE ~rec.viaQueue
    <2>1. reply' = rep /\ queue' = queue /\ current' = current /\ nc' = base
      BY <1>9 DEF Update, rep
    <2>2. \A s \in Requests : rep[s].viaQueue /\ Working(rep[s])
                                <=> reply[s].viaQueue /\ Working(reply[s])
      BY <1>2, <1>3, <1>9
    <2>3. CurrentOk(rep, queue, current)
      BY <1>1, <2>2 DEF CurrentOk, FlightInv, FlightOk
    <2> QED BY <1>1, <1>2, <1>6, <1>7, <2>1, <2>3 DEF Outcome, FlightOk
  <1>10. rec.viaQueue \in BOOLEAN
    BY DEF ReplyType
  <1> QED BY <1>8, <1>9, <1>10

\* sendEnvelope(): the new reply is started, or waits behind the one at work.
LEMMA Sends ==
    ASSUME TypeOK, FlightInv, NEW r \in Requests, Send(r)
    PROVE  /\ reply[r].st = "Unsent"
           /\ Outcome(r, reply'[r], Cached(haveDigest, nonce), nc)
           /\ \A s \in Requests \ {r} : reply'[s] = reply[s]
           /\ reply'[r].viaQueue = serialize /\ reply'[r].wire = NoResponse
           /\ Working(reply'[r]) =>
                /\ reply'[r].auth = PairFor(Cached(haveDigest, nonce), nc + 1)
                /\ nc' = nc + Taken(Cached(haveDigest, nonce), 1)
  <1> DEFINE pre  == Cached(haveDigest, nonce)
             new  == [NewReply EXCEPT !.st = "Idle", !.viaQueue = serialize]
             begun == Start(new, pre, nc + 1)
             rec  == [begun EXCEPT !.heard = FALSE]
             down == factory /\ ~sshUp
  <1>1. /\ reply \in [Requests -> ReplyType] /\ queue \in Seq(Requests)
        /\ factory \in BOOLEAN /\ sshUp \in BOOLEAN /\ serialize \in BOOLEAN
        /\ current \in Requests \cup {NoReply} /\ nc \in Nat /\ nonce \in Nat
    BY DEF TypeOK
  <1>2. pre \in Nat /\ nc + 1 \in Nat /\ Taken(pre, 1) \in Nat
    BY <1>1 DEF Cached, Taken
  <1>3. /\ new \in ReplyType /\ ~new.finished /\ ~new.heard /\ ~new.deleted
        /\ new.viaQueue = serialize /\ new.st = "Idle" /\ new.wire = NoResponse
    BY <1>1 DEF NewReply, ReplyType, States, Errors, NoAuth, NoResponse, Kinds
  <1>4. serialize => new = QueuedReply
    BY DEF QueuedReply
  <1> HIDE DEF new, pre
  <1>5. Begun(begun, new, PairFor(pre, nc + 1), down)
    BY <1>1, <1>2, <1>3, StartFields
  <1> HIDE DEF begun
  <1>6. /\ rec \in ReplyType /\ rec.viaQueue = serialize /\ rec.wire = NoResponse
        /\ rec.auth = PairFor(pre, nc + 1) /\ rec.armed /\ ~rec.heard /\ ~rec.deleted
        /\ rec.st = begun.st /\ rec.finished = begun.finished
        /\ rec.opening = begun.opening /\ rec.tunnel = begun.tunnel
    BY <1>3, <1>5 DEF Begun, ReplyType
  <1> HIDE DEF rec
  <1>7. ReplyOk(rec) /\ rec.st \in {"Connecting", "Failed"} /\ (rec.finished <=> down)
    BY <1>1, <1>5, <1>6 DEF Begun, ReplyOk, Working
  <1>8. reply[r].st = "Unsent" /\ reply[r] = NewReply /\ ~reply[r].finished
    BY DEF Send, Unsent, FlightInv, FlightOk, ReplyOk, NewReply
  <1>9. ASSUME NEW x \in ReplyType
        PROVE  /\ [reply EXCEPT ![r] = x] \in [Requests -> ReplyType]
               /\ [reply EXCEPT ![r] = x][r] = x
               /\ \A s \in Requests \ {r} : [reply EXCEPT ![r] = x][s] = reply[s]
    BY <1>1
  <1>10. \A i \in 1..Len(queue) : queue[i] \in Requests /\ queue[i] # r
    BY <1>1, <1>8, ElementOfSeq DEF FlightInv, FlightOk, QueueOk
  <1>11. ~Working(reply[r]) /\ NewReply.viaQueue = FALSE /\ NewReply.st = "Unsent"
    BY <1>8 DEF Working, NewReply
  <1>12. NoReply \notin Requests /\ current # r
    BY <1>11, WsmanAssumption DEF FlightInv, FlightOk, CurrentOk
  <1>13. CASE /\ ~serialize
              /\ Update(r, rec, queue, current, pre, nc + Taken(pre, 1))
    <2> DEFINE rep == [reply EXCEPT ![r] = rec]
    <2>1. reply' = rep /\ queue' = queue /\ current' = current /\ nc' = nc + Taken(pre, 1)
      BY <1>6, <1>13 DEF Update
    <2>2. /\ rep \in [Requests -> ReplyType] /\ rep[r] = rec
          /\ \A s \in Requests \ {r} : rep[s] = reply[s]
      BY <1>6, <1>9
    <2> HIDE DEF rep
    <2>3. QueueOk(rep, queue)
      BY <1>7, <1>8, <1>10, <2>2 DEF QueueOk, FlightInv, FlightOk
    <2>4. CurrentOk(rep, queue, current)
      BY <1>1, <1>6, <1>12, <1>13, <2>2 DEF CurrentOk, FlightInv, FlightOk
    <2>5. \A s \in Requests : ReplyOk(rep[s])
      BY <1>7, <2>2 DEF FlightInv, FlightOk
    <2> QED BY <1>1, <1>2, <1>6, <1>8, <2>1, <2>2, <2>3, <2>4, <2>5 DEF Outcome, FlightOk, pre
  <1>14. CASE /\ serialize /\ CurrentIsNull
              /\ Update(r, rec, Tail(Append(queue, r)), Head(Append(queue, r)), pre,
                        nc + Taken(pre, 1))
    <2> DEFINE rep == [reply EXCEPT ![r] = rec]
    <2>1. current = NoReply /\ queue = <<>>
      BY <1>1, <1>14 DEF CurrentIsNull, FlightInv, FlightOk, CurrentOk, ReplyOk, Working
    <2>2. Tail(Append(queue, r)) = <<>> /\ Head(Append(queue, r)) = r
      BY <2>1
    <2>3. /\ rep \in [Requests -> ReplyType] /\ rep[r] = rec
          /\ \A s \in Requests \ {r} : rep[s] = reply[s]
      BY <1>6, <1>9
    <2>4. Update(r, rec, <<>>, r, pre, nc + Taken(pre, 1))
      BY <1>14, <2>2
    <2>5. \A s \in Requests : ReplyOk(rep[s]) /\ rep[s].st # "Idle"
      BY <1>7, <2>1, <2>3, EmptySeq DEF FlightInv, FlightOk, QueueOk
    <2>6. \A s \in Requests \ {r} : rep[s].viaQueue => ~Working(rep[s])
      BY <2>1, <2>3, <1>12 DEF FlightInv, FlightOk, CurrentOk
    <2>7. QueueOk(rep, <<>>) /\ <<>> \in Seq(Requests)
      BY <2>5, EmptySeq DEF QueueOk
    <2>8. CASE rec.finished
      <3>1. Drain(rep, <<>>, pre, nc + Taken(pre, 1))
        BY <1>6, <1>8, <1>14, <2>4, <2>8 DEF Update
      <3>2. \A s \in Requests : rep[s].viaQueue => ~Working(rep[s])
        BY <2>3, <2>6, <2>8 DEF Working
      <3> HIDE DEF rep
      <3>3. /\ reply' \in [Requests -> ReplyType] /\ queue' \in Seq(Requests)
            /\ current' \in Requests \cup {NoReply}
            /\ nc' \in Nat /\ nc + Taken(pre, 1) <= nc'
            /\ FlightOk(reply', queue', current')
            /\ \A s \in Requests : \/ reply'[s] = rep[s]
                                   \/ Dequeued(rep[s], reply'[s], pre, nc + Taken(pre, 1))
        <4> DEFINE base == nc + Taken(pre, 1)
                   none == <<>>
        <4>1. base \in Nat /\ none \in Seq(Requests)
          BY <1>1, <1>2, <2>7
        <4>2. QueueOk(rep, none) /\ Drain(rep, none, pre, base)
          BY <2>7, <3>1
        <4> HIDE DEF base, none
        <4>3. /\ reply' \in [Requests -> ReplyType] /\ queue' \in Seq(Requests)
              /\ current' \in Requests \cup {NoReply}
              /\ nc' \in Nat /\ base <= nc'
              /\ FlightOk(reply', queue', current')
              /\ \A s \in Requests : reply'[s] = rep[s] \/ Dequeued(rep[s], reply'[s], pre, base)
          BY <1>1, <1>2, <2>3, <2>5, <3>2, <4>1, <4>2, DrainWorks
        <4> QED BY <4>3 DEF base
      <3>4. \A s \in Requests : reply'[s] = rep[s]
        <4>1. QueuedReply.st = "Idle"
          BY DEF QueuedReply, NewReply
        <4> QED BY <2>5, <3>3, <4>1 DEF Dequeued
      <3>5. nc <= nc'
        BY <1>1, <1>2, <3>3
      <3>6. ~Working(reply'[r])
        BY <2>3, <2>8, <3>4 DEF Working
      <3>7. reply'[r].viaQueue = serialize /\ reply'[r].wire = NoResponse
        BY <1>6, <2>3, <3>4
      <3>8. \A s \in Requests \ {r} : reply'[s] = reply[s]
        BY <2>3, <3>4
      <3> QED BY <1>8, <3>3, <3>5, <3>6, <3>7, <3>8 DEF Outcome
    <2>9. CASE ~rec.finished
      <3>1. reply' = rep /\ queue' = <<>> /\ current' = r /\ nc' = nc + Taken(pre, 1)
        BY <2>4, <2>9 DEF Update
      <3>2. Working(rec)
        BY <1>7, <2>9 DEF Working
      <3> HIDE DEF rep
      <3>3. CurrentOk(rep, <<>>, r)
        BY <1>6, <1>14, <2>3, <2>6, <3>2 DEF CurrentOk
      <3>4. FlightOk(rep, <<>>, r)
        BY <2>5, <2>7, <3>3 DEF FlightOk
      <3> QED BY <1>1, <1>2, <1>6, <1>8, <2>3, <2>7, <3>1, <3>4 DEF Outcome, pre
    <2> QED BY <2>8, <2>9
  <1>15. CASE /\ serialize /\ ~CurrentIsNull
              /\ Update(r, new, Append(queue, r), current, pre, nc)
    <2> DEFINE rep == [reply EXCEPT ![r] = new]
               q   == Append(queue, r)
    <2>1. reply' = rep /\ queue' = q /\ current' = current /\ nc' = nc
      BY <1>3, <1>15 DEF Update
    <2>2. /\ rep \in [Requests -> ReplyType] /\ rep[r] = new
          /\ \A s \in Requests \ {r} : rep[s] = reply[s]
      BY <1>3, <1>9
    <2>3. /\ Len(queue) \in Nat /\ q \in Seq(Requests) /\ Len(q) = Len(queue) + 1
          /\ \A i \in 1..Len(queue) : q[i] = queue[i]
          /\ q[Len(queue) + 1] = r
      BY <1>1, AppendProperties, LenProperties
    <2>4. q # <<>>
      BY <2>3, EmptySeq
    <2> HIDE DEF rep, q
    <2>5. QueueOk(rep, q)
      <3>1. \A i \in 1..Len(q) : i \in 1..Len(queue) \/ i = Len(queue) + 1
        BY <2>3
      <3>2. \A i, j \in 1..Len(q) : q[i] = q[j] => i = j
        BY <1>10, <2>3, <3>1 DEF FlightInv, FlightOk, QueueOk
      <3>3. \A i \in 1..Len(q) : rep[q[i]].st = "Idle"
        BY <1>3, <1>10, <2>2, <2>3, <3>1 DEF FlightInv, FlightOk, QueueOk
      <3>4. ASSUME NEW s \in Requests, rep[s].st = "Idle"
            PROVE  \E i \in 1..Len(q) : q[i] = s
        <4>1. CASE s = r
          <5>1. Len(queue) + 1 \in 1..Len(q)
            BY <2>3
          <5> QED BY <2>3, <4>1, <5>1
        <4>2. CASE s # r
          <5>1. PICK i \in 1..Len(queue) : queue[i] = s
            BY <2>2, <3>4, <4>2 DEF FlightInv, FlightOk, QueueOk
          <5>2. i \in 1..Len(q) /\ q[i] = s
            BY <2>3, <5>1
          <5> QED BY <5>2
        <4> QED BY <4>1, <4>2
      <3> QED BY <3>2, <3>3, <3>4 DEF QueueOk
    <2>6. current \in Requests
      BY <1>1, <1>15 DEF CurrentIsNull
    <2>7. ~Working(new)
      BY <1>3 DEF Working
    <2>8. CurrentOk(rep, q, current)
      BY <1>12, <2>2, <2>4, <2>6, <2>7 DEF CurrentOk, FlightInv, FlightOk
    <2>9. \A s \in Requests : ReplyOk(rep[s])
      BY <1>3, <1>4, <1>15, <2>2, <2>7 DEF FlightInv, FlightOk, ReplyOk
    <2> QED BY <1>1, <1>3, <1>8, <2>1, <2>2, <2>3, <2>5, <2>7, <2>8, <2>9
            DEF Outcome, FlightOk
  <1>16. \/ /\ ~serialize
            /\ Update(r, rec, queue, current, pre, nc + Taken(pre, 1))
         \/ /\ serialize /\ CurrentIsNull
            /\ Update(r, rec, Tail(Append(queue, r)), Head(Append(queue, r)), pre,
                      nc + Taken(pre, 1))
         \/ /\ serialize /\ ~CurrentIsNull
            /\ Update(r, new, Append(queue, r), current, pre, nc)
    BY DEF Send, rec, begun, new, pre
  <1> QED BY <1>13, <1>14, <1>15, <1>16 DEF pre

-----------------------------------------------------------------------------
(* The steps of a reply at work.                                           *)

\* A step of reply r's transport: r was at work, and what it dequeues is started
\* under the cached challenge, with counts behind those taken so far.
Moved(r) ==
    /\ Working(reply[r]) /\ reply'[r].viaQueue = reply[r].viaQueue
    /\ \E base \in Nat :
          /\ Outcome(r, reply'[r], Cached(haveDigest', nonce'), base)
          /\ nonce' = nonce => nc <= base

\* r goes on working as `rec`.
LEMMA ProceedMoves ==
    ASSUME TypeOK, FlightInv, NEW r \in Requests, NEW rec \in ReplyType,
           Working(reply[r]), Working(rec), rec.armed, ~rec.heard, ~rec.deleted,
           rec.opening => rec.st = "Connecting" /\ rec.tunnel,
           rec.viaQueue = reply[r].viaQueue,
           reply' = [reply EXCEPT ![r] = rec], UNCHANGED <<queue, current, nc>>
    PROVE  Moved(r) /\ reply'[r] = rec
  <1>1. ReplyOk(rec)
    BY DEF ReplyOk, Working
  <1>2. /\ reply' \in [Requests -> ReplyType]
        /\ FlightOk(reply', queue', current')
        /\ reply'[r] = rec /\ \A s \in Requests \ {r} : reply'[s] = reply[s]
    BY <1>1, Proceeds
  <1>3. nc \in Nat /\ nc <= nc /\ queue \in Seq(Requests) /\ current \in Requests \cup {NoReply}
    BY DEF TypeOK
  <1>4. Outcome(r, reply'[r], Cached(haveDigest', nonce'), nc)
    BY <1>2, <1>3 DEF Outcome
  <1> QED BY <1>2, <1>3, <1>4 DEF Moved

\* r finishes as `rec`.
LEMMA FinishMoves ==
    ASSUME TypeOK, FlightInv, NEW r \in Requests, NEW rec \in ReplyType, NEW base \in Nat,
           Working(reply[r]), rec.finished, rec.st \in {"Done", "Failed"},
           rec.viaQueue = reply[r].viaQueue,
           nonce' \in Nat, nonce' = nonce => nc <= base,
           Update(r, rec, queue, current, Cached(haveDigest', nonce'), base)
    PROVE  Moved(r) /\ reply'[r] = rec
  <1>1. ReplyOk(rec)
    BY DEF ReplyOk, Working
  <1>2. Cached(haveDigest', nonce') \in Nat
    BY DEF Cached
  <1>3. Outcome(r, rec, Cached(haveDigest', nonce'), base)
    BY <1>1, <1>2, Finishes
  <1> QED BY <1>3 DEF Outcome, Moved

\* The same for finishReply() on an unchanged challenge.
LEMMA FinishReplyMoves ==
    ASSUME TypeOK, FlightInv, NEW r \in Requests, NEW rec \in ReplyType, NEW e \in Errors,
           Working(reply[r]), rec.viaQueue = reply[r].viaQueue,
           Update(r, Finished(rec, e), queue, current, Cached(haveDigest, nonce), nc),
           UNCHANGED digest
    PROVE  Moved(r) /\ reply'[r] = Finished(rec, e)
  <1>1. haveDigest' = haveDigest /\ nonce' = nonce
    BY DEF digest
  <1>2. nonce' \in Nat /\ nc \in Nat /\ nc <= nc
    BY <1>1 DEF TypeOK
  <1>3. Update(r, Finished(rec, e), queue, current, Cached(haveDigest', nonce'), nc)
    BY <1>1
  <1> QED BY <1>2, <1>3, FinishedFields, FinishMoves

\* What of a reply at work the steps below look at.
LEMMA WorkingFacts ==
    ASSUME TypeOK, FlightInv, NEW r \in Requests, Working(reply[r])
    PROVE  /\ reply[r] \in ReplyType /\ reply[r].armed
           /\ ~reply[r].finished /\ ~reply[r].heard /\ ~reply[r].deleted
           /\ reply[r].opening => reply[r].st = "Connecting" /\ reply[r].tunnel
  <1>1. reply[r] \in ReplyType /\ ReplyOk(reply[r])
    BY DEF TypeOK, FlightInv, FlightOk
  <1> QED BY <1>1 DEF ReplyOk, Working, ReplyType

\* A reply with a timer or an open callback that has not finished is at work.
LEMMA WorkingWhen ==
    ASSUME TypeOK, FlightInv, NEW r \in Requests, Alive(r),
           \/ reply[r].armed \/ reply[r].opening
           \/ reply[r].st \notin {"Unsent", "Idle"}
    PROVE  Working(reply[r])
  <1>1. ReplyOk(reply[r])
    BY DEF FlightInv, FlightOk
  <1>2. /\ ~NewReply.armed /\ ~NewReply.opening
        /\ ~QueuedReply.armed /\ ~QueuedReply.opening
    BY DEF QueuedReply, NewReply
  <1> QED BY <1>1, <1>2 DEF ReplyOk, Working, Alive

\* writeRequestBytes().
LEMMA WriteMoves ==
    ASSUME TypeOK, FlightInv, NEW r \in Requests, NEW rec \in ReplyType,
           Working(reply[r]), rec.armed, ~rec.heard, ~rec.deleted, ~rec.finished, ~rec.opening,
           rec.viaQueue = reply[r].viaQueue, Write(r, rec)
    PROVE  /\ Moved(r)
           /\ reply'[r] = [rec EXCEPT !.st = "ReadingHeaders", !.writes = @ + 1]
           /\ nc' = nc
  <1> DEFINE x == [rec EXCEPT !.st = "ReadingHeaders", !.writes = @ + 1]
  <1>1. x \in ReplyType
    <2>1. rec.writes \in Nat
      BY DEF ReplyType
    <2>2. PICK n \in Nat : n = rec.writes + 1
      BY <2>1
    <2>3. x = [rec EXCEPT !.st = "ReadingHeaders", !.writes = n]
      BY <2>2
    <2>4. [rec EXCEPT !.st = "ReadingHeaders", !.writes = n] \in ReplyType
      BY DEF ReplyType, States
    <2> QED BY <2>3, <2>4
  <1>2. /\ x.armed /\ ~x.heard /\ ~x.deleted /\ Working(x) /\ ~x.opening
        /\ x.viaQueue = reply[r].viaQueue
    BY DEF ReplyType, Working
  <1>3. reply' = [reply EXCEPT ![r] = x] /\ UNCHANGED <<queue, current, nc>>
    BY DEF Write
  <1> HIDE DEF x
  <1>4. Moved(r) /\ reply'[r] = x
    BY <1>1, <1>2, <1>3, ProceedMoves
  <1> QED BY <1>3, <1>4 DEF x

LEMMA ReachedMoves ==
    ASSUME TypeOK, FlightInv, NEW r \in Requests, NEW rec \in ReplyType,
           Working(reply[r]), rec.armed, ~rec.heard, ~rec.deleted, ~rec.finished, ~rec.opening,
           rec.viaQueue = reply[r].viaQueue, Reached(r, rec)
    PROVE  /\ Moved(r)
           /\ nc' = nc
           /\ \/ reply'[r] = [rec EXCEPT !.st = "TlsHandshaking"] /\ UNCHANGED log
              \/ Write(r, rec) /\ reply'[r] = [rec EXCEPT !.st = "ReadingHeaders", !.writes = @ + 1]
  <1>1. CASE Write(r, rec)
    BY <1>1, WriteMoves
  <1>2. CASE /\ reply' = [reply EXCEPT ![r] = [rec EXCEPT !.st = "TlsHandshaking"]]
             /\ UNCHANGED <<queue, current, nc, log>>
    <2> DEFINE x == [rec EXCEPT !.st = "TlsHandshaking"]
    <2>1. x \in ReplyType
      BY DEF ReplyType, States
    <2>2. /\ x.armed /\ ~x.heard /\ ~x.deleted /\ Working(x) /\ ~x.opening
          /\ x.viaQueue = reply[r].viaQueue
      BY DEF ReplyType, Working
    <2>3. reply' = [reply EXCEPT ![r] = x] /\ UNCHANGED <<queue, current, nc, log>>
      BY <1>2
    <2> HIDE DEF x
    <2>4. Moved(r) /\ reply'[r] = x
      BY <2>1, <2>2, <2>3, ProceedMoves
    <2> QED BY <2>3, <2>4 DEF x
  <1> QED BY <1>1, <1>2 DEF Reached

\* The ways in which a step of its transport may leave reply r, with the challenge,
\* the count and the log.
Waits(r) ==         \* on the way to its request, or behind it
    /\ UNCHANGED <<nc, log, digest>>
    /\ reply'[r].auth = reply[r].auth /\ reply'[r].wire = reply[r].wire
    /\ \/ reply[r].st \in {"Connecting", "TlsHandshaking", "WritingRequest"}
       \/ reply'[r].st \notin {"Connecting", "TlsHandshaking", "WritingRequest"}

Wrote(r) ==         \* has written its request
    /\ UNCHANGED <<nc, digest>>
    /\ reply'[r].auth = reply[r].auth /\ reply'[r].wire = reply[r].wire
    /\ reply[r].st \in {"Connecting", "TlsHandshaking", "WritingRequest"}
    /\ reply'[r].st = "ReadingHeaders"
    /\ LET pair == <<reply[r].auth.nonce, reply[r].auth.nc>>
       IN  /\ used' = IF reply[r].auth = NoAuth THEN used ELSE used \cup {pair}
           /\ reused' = (reused \/ pair \in used)

Ended(r) == reply'[r].finished /\ UNCHANGED <<log, digest>>

Heard(r) ==         \* has a response
    /\ UNCHANGED <<nc, log, digest>>
    /\ reply'[r].auth = reply[r].auth /\ reply'[r].st = "ReadingHeaders"
    /\ reply'[r].wire.kind \in profile.kinds /\ reply'[r].wire.nonce = devNonce

Challenged(r) ==    \* has taken a challenge, and tries again or gives up
    /\ UNCHANGED log
    /\ reply[r].wire # NoResponse
    /\ haveDigest' /\ nonce' = reply[r].wire.nonce
    /\ counted' = counted \cup {nonce'}
    /\ rewound' = (rewound \/ nonce' \in counted \ {nonce})
    /\ \/ reply'[r].finished
       \/ /\ reply'[r].wire = NoResponse /\ reply'[r].st = "Connecting"
          /\ reply'[r].auth = [nonce |-> nonce', nc |-> nc']
          /\ nc' = Rewound(nonce') + 1

Refused(r) ==       \* has been sent a challenge it cannot use
    /\ reply[r].wire.kind = "Unsupported" /\ reply'[r].finished
    /\ haveDigest' = FALSE /\ nonce' = 0 /\ UNCHANGED <<counted, rewound, log>>

Went(r) == Waits(r) \/ Wrote(r) \/ Ended(r) \/ Heard(r) \/ Challenged(r) \/ Refused(r)

LEMMA FinishWent ==
    ASSUME TypeOK, FlightInv, NEW r \in Requests, NEW rec \in ReplyType, NEW e \in Errors,
           Working(reply[r]), rec.viaQueue = reply[r].viaQueue,
           Update(r, Finished(rec, e), queue, current, Cached(haveDigest, nonce), nc),
           UNCHANGED <<digest, log>>
    PROVE  Moved(r) /\ Went(r)
  <1>1. Moved(r) /\ reply'[r] = Finished(rec, e)
    BY FinishReplyMoves
  <1>2. reply'[r].finished
    BY <1>1, FinishedFields
  <1> QED BY <1>1, <1>2 DEF Went, Ended

\* The transport slots before the response.
LEMMA TransportStep ==
    ASSUME TypeOK, FlightInv, NEW r \in Requests,
           Connected(r) \/ FactoryDone(r) \/ TlsResult(r) \/ QueuedWrite(r)
    PROVE  Moved(r) /\ Went(r)
  <1>1. Working(reply[r])
    BY WorkingWhen DEF Connected, FactoryDone, TlsResult, QueuedWrite
  <1>2. /\ reply[r] \in ReplyType /\ reply[r].armed
        /\ ~reply[r].finished /\ ~reply[r].heard /\ ~reply[r].deleted
        /\ reply[r].opening => reply[r].st = "Connecting" /\ reply[r].tunnel
    BY <1>1, WorkingFacts
  <1>3. ASSUME ~reply[r].opening, Write(r, reply[r]), UNCHANGED digest,
               reply[r].st \in {"Connecting", "TlsHandshaking", "WritingRequest"}
        PROVE  Moved(r) /\ Went(r)
    <2>1. /\ Moved(r) /\ nc' = nc
          /\ reply'[r] = [reply[r] EXCEPT !.st = "ReadingHeaders", !.writes = @ + 1]
      BY <1>1, <1>2, <1>3, WriteMoves
    <2>2. /\ reply'[r].auth = reply[r].auth /\ reply'[r].wire = reply[r].wire
          /\ reply'[r].st = "ReadingHeaders"
      BY <1>2, <2>1 DEF ReplyType
    <2>3. Wrote(r)
      BY <1>3, <2>1, <2>2 DEF Wrote, Write, digest
    <2> QED BY <2>1, <2>3 DEF Went
  <1>4. ASSUME NEW rec \in ReplyType, rec = [reply[r] EXCEPT !.opening = FALSE] \/ rec = reply[r],
               ~rec.opening, reply[r].st = "Connecting", Reached(r, rec), UNCHANGED digest
        PROVE  Moved(r) /\ Went(r)
    <2>1. /\ rec.armed /\ ~rec.heard /\ ~rec.deleted /\ ~rec.finished
          /\ rec.viaQueue = reply[r].viaQueue /\ rec.auth = reply[r].auth
          /\ rec.wire = reply[r].wire
      BY <1>2, <1>4 DEF ReplyType
    <2>2. /\ Moved(r) /\ nc' = nc
          /\ \/ reply'[r] = [rec EXCEPT !.st = "TlsHandshaking"] /\ UNCHANGED log
             \/ /\ Write(r, rec)
                /\ reply'[r] = [rec EXCEPT !.st = "ReadingHeaders", !.writes = @ + 1]
      BY <1>1, <1>4, <2>1, ReachedMoves
    <2>3. CASE reply'[r] = [rec EXCEPT !.st = "TlsHandshaking"] /\ UNCHANGED log
      <3>1. reply'[r].auth = reply[r].auth /\ reply'[r].wire = reply[r].wire
        BY <2>1, <2>3 DEF ReplyType
      <3>2. Waits(r)
        BY <1>4, <2>2, <2>3, <3>1 DEF Waits
      <3> QED BY <2>2, <3>2 DEF Went
    <2>4. CASE /\ Write(r, rec)
               /\ reply'[r] = [rec EXCEPT !.st = "ReadingHeaders", !.writes = @ + 1]
      <3>1. /\ reply'[r].auth = reply[r].auth /\ reply'[r].wire = reply[r].wire
            /\ reply'[r].st = "ReadingHeaders"
        BY <2>1, <2>4 DEF ReplyType
      <3>2. Wrote(r)
        BY <1>4, <2>1, <2>2, <2>4, <3>1 DEF Wrote, Write, digest
      <3> QED BY <2>2, <3>2 DEF Went
    <2> QED BY <2>2, <2>3, <2>4
  <1>5. CASE Connected(r)
    <2>1. reply[r].st = "Connecting" /\ ~reply[r].opening
      BY <1>2, <1>5 DEF Connected
    <2> QED BY <1>2, <1>4, <1>5, <2>1 DEF Connected
  <1>6. CASE FactoryDone(r)
    <2> DEFINE rec == [reply[r] EXCEPT !.opening = FALSE]
    <2>1. rec \in ReplyType /\ ~rec.opening /\ rec.viaQueue = reply[r].viaQueue
      BY <1>2 DEF ReplyType
    <2>2. reply[r].st = "Connecting"
      BY <1>2, <1>6 DEF FactoryDone
    <2> HIDE DEF rec
    <2>3. CASE Reached(r, rec)
      BY <1>4, <1>6, <2>1, <2>2, <2>3 DEF FactoryDone, rec
    <2>4. CASE /\ Update(r, Finished(rec, "Other"), queue, current,
                        Cached(haveDigest, nonce), nc)
               /\ UNCHANGED log
      <3>1. "Other" \in Errors /\ UNCHANGED <<digest, log>>
        BY <1>6, <2>4 DEF FactoryDone, Errors
      <3> QED BY <1>1, <2>1, <2>4, <3>1, FinishWent
    <2> QED BY <1>6, <2>3, <2>4 DEF FactoryDone, rec
  <1>7. CASE TlsResult(r)
    <2>0. reply[r].st = "TlsHandshaking" /\ ~reply[r].opening /\ UNCHANGED digest
      BY <1>2, <1>7 DEF TlsResult
    <2>1. CASE Write(r, reply[r])
      BY <1>3, <2>0, <2>1
    <2>2. CASE /\ reply' = [reply EXCEPT ![r].st = "WritingRequest"]
               /\ UNCHANGED <<queue, current, nc, log>>
      <3> DEFINE x == [reply[r] EXCEPT !.st = "WritingRequest"]
      <3>1. reply' = [reply EXCEPT ![r] = x]
        BY <2>2 DEF TypeOK
      <3>2. x \in ReplyType
        BY <1>2 DEF ReplyType, States
      <3>3. /\ x.armed /\ ~x.heard /\ ~x.deleted /\ ~x.opening /\ Working(x)
            /\ x.viaQueue = reply[r].viaQueue /\ x.auth = reply[r].auth /\ x.wire = reply[r].wire
        BY <1>2, <2>0 DEF ReplyType, Working
      <3> HIDE DEF x
      <3>4. Moved(r) /\ reply'[r] = x
        BY <1>1, <2>2, <3>1, <3>2, <3>3, ProceedMoves
      <3>5. Waits(r)
        BY <2>0, <2>2, <3>3, <3>4 DEF Waits
      <3> QED BY <3>4, <3>5 DEF Went
    <2>3. CASE Finish(r, "Ssl") /\ UNCHANGED log
      <3>1. "Ssl" \in Errors /\ UNCHANGED <<digest, log>>
        BY <2>0, <2>3 DEF Errors
      <3> QED BY <1>1, <1>2, <2>3, <3>1, FinishWent DEF Finish
    <2> QED BY <1>7, <2>1, <2>2, <2>3 DEF TlsResult
  <1>8. CASE QueuedWrite(r)
    BY <1>2, <1>3, <1>8 DEF QueuedWrite
  <1> QED BY <1>5, <1>6, <1>7, <1>8

\* retryWithDigest() in place of the attempt that was challenged.
LEMMA RetryMoves ==
    ASSUME TypeOK, FlightInv, NEW r \in Requests, NEW rec \in ReplyType, NEW base \in Nat,
           Working(reply[r]), ~rec.finished, ~rec.heard, ~rec.deleted,
           rec.viaQueue = reply[r].viaQueue,
           nonce' \in Nat, nonce' = nonce => nc <= base,
           Update(r, RetryWithDigest(rec, nonce', base + 1, factory, sshUp), queue, current,
                  Cached(haveDigest', nonce'), base + 1)
    PROVE  /\ Moved(r)
           /\ \/ reply'[r].finished
              \/ /\ reply'[r].wire = NoResponse /\ reply'[r].st = "Connecting"
                 /\ reply'[r].auth = [nonce |-> nonce', nc |-> nc']
                 /\ nc' = base + 1
  <1> DEFINE new == RetryWithDigest(rec, nonce', base + 1, factory, sshUp)
             down == factory /\ ~sshUp
  <1>1. base + 1 \in Nat /\ (nonce' = nonce => nc <= base + 1) /\ nc \in Nat
    BY DEF TypeOK
  <1>2. Begun(new, rec, [nonce |-> nonce', nc |-> base + 1], down)
    BY <1>1, DigestFields DEF TypeOK
  <1>3. new \in ReplyType /\ new.viaQueue = reply[r].viaQueue /\ ReplyOk(new)
    BY <1>2, BegunOk DEF Begun, TypeOK
  <1> HIDE DEF new
  <1>4. CASE down
    <2>1. new.finished /\ new.st = "Failed"
      BY <1>2, <1>4 DEF Begun
    <2>2. Moved(r) /\ reply'[r] = new
      BY <1>1, <1>3, <2>1, FinishMoves DEF new
    <2> QED BY <2>1, <2>2
  <1>5. CASE ~down
    <2>1. /\ ~new.finished /\ new.st = "Connecting" /\ new.wire = NoResponse
          /\ new.auth = [nonce |-> nonce', nc |-> base + 1] /\ Working(new)
      BY <1>2, <1>5 DEF Begun, Working
    <2>2. /\ reply' = [reply EXCEPT ![r] = new] /\ queue' = queue /\ current' = current
          /\ nc' = base + 1
      BY <2>1 DEF Update, new
    <2>3. /\ reply' \in [Requests -> ReplyType]
          /\ FlightOk(reply', queue', current')
          /\ reply'[r] = new /\ \A s \in Requests \ {r} : reply'[s] = reply[s]
      BY <1>3, <2>1, <2>2, Proceeds
    <2>4. Outcome(r, reply'[r], Cached(haveDigest', nonce'), base + 1)
      <3>1. queue \in Seq(Requests) /\ current \in Requests \cup {NoReply} /\ base + 1 <= base + 1
        BY <1>1 DEF TypeOK
      <3> QED BY <1>1, <2>2, <2>3, <3>1 DEF Outcome
    <2>5. Moved(r)
      BY <1>1, <1>3, <2>3, <2>4 DEF Moved
    <2> QED BY <2>1, <2>2, <2>3, <2>5
  <1> QED BY <1>4, <1>5

\* The response, the timeout, an error of the socket and abort().
LEMMA ResponseStep ==
    ASSUME TypeOK, FlightInv, NEW r \in Requests,
           \/ SocketError(r) \/ DeviceAnswers(r) \/ ReadHeaders(r)
           \/ ReadBody(r) \/ Timeout(r) \/ Abort(r)
    PROVE  Moved(r) /\ Went(r)
  <1>1. Working(reply[r])
    <2>1. CASE Abort(r)
      <3>1. ~reply[r].viaQueue /\ ReplyOk(reply[r]) /\ Alive(r) /\ reply[r].st # "Unsent"
        BY <2>1 DEF Abort, FlightInv, FlightOk, AbortOk
      <3>2. QueuedReply.viaQueue
        BY DEF QueuedReply, NewReply
      <3> QED BY <3>1, <3>2 DEF ReplyOk, Working, Alive
    <2> QED BY <2>1, WorkingWhen DEF SocketError, DeviceAnswers, ReadHeaders, ReadBody, Timeout
  <1>2. /\ reply[r] \in ReplyType /\ reply[r].armed
        /\ ~reply[r].finished /\ ~reply[r].heard /\ ~reply[r].deleted
        /\ reply[r].opening => reply[r].st = "Connecting" /\ reply[r].tunnel
    BY <1>1, WorkingFacts
  <1>3. /\ nc \in Nat /\ nonce \in Nat /\ reply \in [Requests -> ReplyType]
        /\ reply[r].wire.nonce \in Nat
    BY <1>2 DEF TypeOK, ReplyType
  <1>4. ASSUME NEW e \in Errors, Finish(r, e), UNCHANGED <<digest, log>>
        PROVE  Moved(r) /\ Went(r)
    BY <1>1, <1>2, <1>4, FinishWent DEF Finish
  <1>5. CASE SocketError(r) \/ ReadBody(r) \/ Timeout(r) \/ Abort(r)
    <2>1. PICK e \in Errors : Finish(r, e)
      BY <1>5 DEF SocketError, ReadBody, Timeout, Abort, Errors
    <2>2. UNCHANGED <<digest, log>>
      BY <1>5 DEF SocketError, ReadBody, Timeout, Abort
    <2> QED BY <1>4, <2>1, <2>2
  <1>6. CASE DeviceAnswers(r)
    <2>1. PICK k \in profile.kinds :
             reply' = [reply EXCEPT ![r].wire = [kind |-> k, nonce |-> devNonce]]
      BY <1>6 DEF DeviceAnswers
    <2> DEFINE x == [reply[r] EXCEPT !.wire = [kind |-> k, nonce |-> devNonce]]
    <2>2. k \in Kinds /\ devNonce \in Nat
      BY WsmanAssumption DEF TypeOK, ProfileType
    <2>3. reply' = [reply EXCEPT ![r] = x] /\ UNCHANGED <<queue, current, nc, log, digest>>
      BY <1>3, <1>6, <2>1 DEF DeviceAnswers
    <2>4. x \in ReplyType
      BY <1>2, <2>2 DEF ReplyType
    <2>5. reply[r].st = "ReadingHeaders"
      BY <1>6 DEF DeviceAnswers
    <2>6. /\ x.armed /\ ~x.heard /\ ~x.deleted /\ ~x.opening /\ Working(x)
          /\ x.viaQueue = reply[r].viaQueue /\ x.auth = reply[r].auth
          /\ x.wire.kind = k /\ x.wire.nonce = devNonce /\ x.st = "ReadingHeaders"
      BY <1>2, <2>5 DEF ReplyType, Working
    <2> HIDE DEF x
    <2>7. Moved(r) /\ reply'[r] = x
      BY <1>1, <2>3, <2>4, <2>6, ProceedMoves
    <2>8. reply'[r].wire.kind \in profile.kinds
      BY <2>6, <2>7
    <2>9. Heard(r)
      BY <2>3, <2>6, <2>7, <2>8 DEF Heard
    <2> QED BY <2>7, <2>9 DEF Went
  <1>7. CASE ReadHeaders(r)
    <2>1. reply[r].st = "ReadingHeaders" /\ UNCHANGED log
      BY <1>7 DEF ReadHeaders
    <2>2. CASE ReadMalformed(r)
      <3>1. "Other" \in Errors /\ Finish(r, "Other") /\ UNCHANGED <<digest, log>>
        BY <2>1, <2>2 DEF ReadMalformed, Errors
      <3> QED BY <1>4, <3>1
    <2>3. CASE ReadOk(r)
      <3> DEFINE x == [reply[r] EXCEPT !.st = "ReadingBody"]
      <3>1. reply' = [reply EXCEPT ![r] = x] /\ UNCHANGED <<queue, current, nc, digest>>
        BY <1>3, <2>3 DEF ReadOk
      <3>2. x \in ReplyType
        BY <1>2 DEF ReplyType, States
      <3>3. /\ x.armed /\ ~x.heard /\ ~x.deleted /\ ~x.opening /\ Working(x)
            /\ x.viaQueue = reply[r].viaQueue /\ x.auth = reply[r].auth
            /\ x.wire = reply[r].wire /\ x.st = "ReadingBody"
        BY <1>2, <2>1 DEF ReplyType, Working
      <3> HIDE DEF x
      <3>4. Moved(r) /\ reply'[r] = x
        BY <1>1, <3>1, <3>2, <3>3, ProceedMoves
      <3>5. Waits(r)
        BY <2>1, <3>1, <3>3, <3>4 DEF Waits
      <3> QED BY <3>4, <3>5 DEF Went
    <2>4. CASE ReadUnsupported(r)
      <3>1. /\ nonce' = 0 /\ haveDigest' = FALSE /\ UNCHANGED <<counted, rewound>>
            /\ reply[r].wire.kind = "Unsupported"
        BY <2>4 DEF ReadUnsupported
      <3>2. Cached(haveDigest', nonce') = 0
        BY <3>1 DEF Cached
      <3>3. Rewound(0) \in Nat /\ (nonce' = nonce => nc <= Rewound(0)) /\ nonce' \in Nat
        BY <1>3, <3>1 DEF Rewound
      <3>4. Update(r, Finished(reply[r], "Other"), queue, current,
                   Cached(haveDigest', nonce'), Rewound(0))
        BY <2>4, <3>2 DEF ReadUnsupported
      <3>5. Moved(r) /\ reply'[r] = Finished(reply[r], "Other")
        BY <1>1, <1>2, <3>3, <3>4, FinishMoves, FinishedFields DEF Errors
      <3>6. reply'[r].finished
        BY <1>2, <3>5, FinishedFields DEF Errors
      <3> QED BY <2>1, <3>1, <3>5, <3>6 DEF Went, Refused
    <2>5. CASE ReadChallenge(r)
      <3> DEFINE n == reply[r].wire.nonce
      <3>1. /\ nonce' = n /\ haveDigest' = TRUE /\ n \in Nat
            /\ counted' = counted \cup {n}
            /\ rewound' = (rewound \/ n \in counted \ {nonce})
            /\ reply[r].wire.kind \in {"Challenge", "Stale"}
        BY <1>3, <2>5 DEF ReadChallenge
      <3>2. reply[r].wire # NoResponse
        BY <3>1 DEF NoResponse
      <3>3. /\ Rewound(n) \in Nat /\ (nonce' = nonce => nc <= Rewound(n))
            /\ Cached(haveDigest', nonce') = Cached(TRUE, n)
        BY <1>3, <3>1 DEF Rewound, Cached
      <3>4. CASE Update(r, Finished(reply[r], "Other"), queue, current, Cached(TRUE, n), Rewound(n))
        <4>1. Moved(r) /\ reply'[r] = Finished(reply[r], "Other")
          BY <1>1, <1>2, <3>1, <3>3, <3>4, FinishMoves, FinishedFields DEF Errors
        <4>2. reply'[r].finished
          BY <1>2, <4>1, FinishedFields DEF Errors
        <4> QED BY <2>1, <3>1, <3>2, <4>1, <4>2 DEF Went, Challenged
      <3>5. CASE Update(r, RetryWithDigest([reply[r] EXCEPT !.retries = @ + 1], n,
                                           Rewound(n) + 1, factory, sshUp),
                        queue, current, Cached(TRUE, n), Rewound(n) + 1)
        <4> DEFINE x == [reply[r] EXCEPT !.retries = @ + 1]
        <4>1. x \in ReplyType
          <5>1. PICK m \in Nat : m = reply[r].retries + 1
            BY <1>2 DEF ReplyType
          <5>2. [reply[r] EXCEPT !.retries = m] \in ReplyType
            BY <1>2 DEF ReplyType
          <5> QED BY <5>1, <5>2
        <4>2. ~x.finished /\ ~x.heard /\ ~x.deleted /\ x.viaQueue = reply[r].viaQueue
          BY <1>2 DEF ReplyType
        <4> HIDE DEF x
        <4>3. Update(r, RetryWithDigest(x, nonce', Rewound(n) + 1, factory, sshUp),
                     queue, current, Cached(haveDigest', nonce'), Rewound(n) + 1)
          BY <3>1, <3>3, <3>5 DEF x
        <4>4. nonce' \in Nat
          BY <3>1
        <4> HIDE DEF n
        <4>5. /\ Moved(r)
              /\ \/ reply'[r].finished
                 \/ /\ reply'[r].wire = NoResponse /\ reply'[r].st = "Connecting"
                    /\ reply'[r].auth = [nonce |-> nonce', nc |-> nc']
                    /\ nc' = Rewound(n) + 1
          BY <1>1, <3>3, <4>1, <4>2, <4>3, <4>4, RetryMoves
        <4>6. Challenged(r)
          BY <2>1, <3>1, <3>2, <4>5 DEF Challenged, n
        <4> QED BY <4>5, <4>6 DEF Went
      <3> QED BY <2>5, <3>4, <3>5 DEF ReadChallenge
    <2> QED BY <1>7, <2>2, <2>3, <2>4, <2>5 DEF ReadHeaders
  <1> QED BY <1>5, <1>6, <1>7

-----------------------------------------------------------------------------
(* Replies that have finished, and everybody else.                         *)

\* closeOrphanFd() and the caller's deleteLater(): the outcome stays.
LEMMA LateStep ==
    ASSUME TypeOK, FlightInv, NEW r \in Requests, FactoryLate(r) \/ DeleteReply(r)
    PROVE  /\ reply' \in [Requests -> ReplyType]
           /\ FlightOk(reply', queue', current')
           /\ reply[r].finished /\ reply'[r].finished
           /\ reply'[r].viaQueue = reply[r].viaQueue
           /\ reply'[r].st = reply[r].st /\ reply'[r].err = reply[r].err
           /\ \A s \in Requests \ {r} : reply'[s] = reply[s]
  <1>1. /\ reply \in [Requests -> ReplyType] /\ reply[r] \in ReplyType
        /\ ReplyOk(reply[r])
    BY DEF TypeOK, FlightInv, FlightOk
  <1>2. reply[r].finished /\ reply[r].st \in {"Done", "Failed"}
    BY <1>1 DEF FactoryLate, DeleteReply, Alive, ReplyOk
  <1>3. PICK x \in ReplyType :
            /\ reply' = [reply EXCEPT ![r] = x]
            /\ x.finished /\ x.viaQueue = reply[r].viaQueue
            /\ x.st = reply[r].st /\ x.err = reply[r].err
    <2>1. CASE FactoryLate(r)
      <3> DEFINE x == [reply[r] EXCEPT !.opening = FALSE]
      <3>1. x \in ReplyType /\ x.finished /\ x.viaQueue = reply[r].viaQueue
            /\ x.st = reply[r].st /\ x.err = reply[r].err
        BY <1>1, <1>2 DEF ReplyType
      <3>2. reply' = [reply EXCEPT ![r] = x]
        BY <1>1, <2>1 DEF FactoryLate
      <3> HIDE DEF x
      <3> QED BY <3>1, <3>2
    <2>2. CASE DeleteReply(r)
      <3> DEFINE x == [NewReply EXCEPT !.st = reply[r].st, !.err = reply[r].err,
                                    !.finished = TRUE, !.heard = TRUE, !.deleted = TRUE,
                                    !.viaQueue = reply[r].viaQueue,
                                    !.opening = reply[r].opening]
      <3>1. x \in ReplyType /\ x.finished /\ x.viaQueue = reply[r].viaQueue
            /\ x.st = reply[r].st /\ x.err = reply[r].err
        <4>1. PICK w \in States, e \in Errors, v \in BOOLEAN, o \in BOOLEAN :
                 /\ w = reply[r].st /\ e = reply[r].err
                 /\ v = reply[r].viaQueue /\ o = reply[r].opening
          BY <1>1 DEF ReplyType
        <4>2. x = [NewReply EXCEPT !.st = w, !.err = e, !.finished = TRUE, !.heard = TRUE,
                                   !.deleted = TRUE, !.viaQueue = v, !.opening = o]
          BY <4>1
        <4> HIDE DEF x
        <4>3. x \in ReplyType /\ x.finished /\ x.viaQueue = v /\ x.st = w /\ x.err = e
          BY <4>2, BlankFields DEF ReplyType
        <4> QED BY <4>1, <4>3
      <3>2. reply' = [reply EXCEPT ![r] = x]
        BY <2>2 DEF DeleteReply
      <3> HIDE DEF x
      <3> QED BY <3>1, <3>2
    <2> QED BY <2>1, <2>2
  <1>4. /\ reply' \in [Requests -> ReplyType] /\ reply'[r] = x
        /\ \A s \in Requests \ {r} : reply'[s] = reply[s]
    BY <1>1, <1>3
  <1>5. ReplyOk(x) /\ ~Working(x) /\ ~Working(reply[r])
    BY <1>2, <1>3 DEF ReplyOk, Working
  <1>6. queue' = queue /\ current' = current /\ current \in Requests \cup {NoReply}
    BY DEF FactoryLate, DeleteReply, TypeOK
  <1>7. \A i \in 1..Len(queue) : queue[i] \in Requests
    BY ElementOfSeq DEF TypeOK
  <1>8. \A s \in Requests : /\ reply'[s].st = reply[s].st /\ reply'[s].viaQueue = reply[s].viaQueue
                            /\ Working(reply'[s]) <=> Working(reply[s])
    BY <1>3, <1>4, <1>5
  <1>9. QueueOk(reply', queue')
    BY <1>6, <1>7, <1>8 DEF QueueOk, FlightInv, FlightOk
  <1>10. CurrentOk(reply', queue', current')
    BY <1>6, <1>8 DEF CurrentOk, FlightInv, FlightOk
  <1> QED BY <1>2, <1>3, <1>4, <1>5, <1>9, <1>10 DEF FlightOk, FlightInv

\* The slots of reply r that run on its transport.
TransportSlot(r) ==
    \/ Connected(r) \/ FactoryDone(r) \/ TlsResult(r) \/ QueuedWrite(r)
    \/ SocketError(r) \/ DeviceAnswers(r) \/ ReadHeaders(r)
    \/ ReadBody(r) \/ Timeout(r) \/ Abort(r)

\* The setters and the world.
Around ==
    \/ TrustPendingPeerCert \/ SetCredentials \/ SetTrustedFingerprints
    \/ SetSerializeRequests \/ SetSocketFactory
    \/ RotateNonce \/ RotateCert \/ SshDrops

LEMMA AroundStep ==
    ASSUME Around
    PROVE  UNCHANGED <<profile, reply, queue, current, nc, nonce, counted, rewound, used, reused>>
  BY DEF Around, TrustPendingPeerCert, SetCredentials, SetTrustedFingerprints,
         SetSerializeRequests, SetSocketFactory, RotateNonce, RotateCert, SshDrops, Setting,
         config, trust, digest, device, log

LEMMA NextIs ==
    ASSUME [Next]_vars
    PROVE  \/ \E r \in Requests :
                 Send(r) \/ TransportSlot(r) \/ FactoryLate(r) \/ DeleteReply(r)
           \/ Around \/ UNCHANGED vars
  BY DEF Next, TransportSlot, Around

LEMMA SlotStep ==
    ASSUME TypeOK, FlightInv, NEW r \in Requests, TransportSlot(r)
    PROVE  Moved(r) /\ Went(r)
  BY TransportStep, ResponseStep DEF TransportSlot

\* What every step does to every reply: only sendEnvelope() decides whether a reply
\* goes through the queue, and a reply that has finished keeps its outcome.
LEMMA EveryReply ==
    ASSUME TypeOK, FlightInv, [Next]_vars
    PROVE  \A s \in Requests :
             /\ \/ reply'[s].viaQueue = reply[s].viaQueue
                \/ reply'[s].viaQueue = serialize
             /\ reply[s].finished =>
                  /\ reply'[s].finished
                  /\ reply'[s].st = reply[s].st /\ reply'[s].err = reply[s].err
  <1>1. QueuedReply.viaQueue = TRUE /\ ~QueuedReply.finished
    BY DEF QueuedReply, NewReply
  <1>2. ASSUME NEW r \in Requests, Send(r)
        PROVE  \A s \in Requests :
             /\ \/ reply'[s].viaQueue = reply[s].viaQueue
                \/ reply'[s].viaQueue = serialize
             /\ reply[s].finished =>
                  /\ reply'[s].finished
                  /\ reply'[s].st = reply[s].st /\ reply'[s].err = reply[s].err
    <2>1. /\ reply[r].st = "Unsent" /\ reply'[r].viaQueue = serialize
          /\ \A s \in Requests \ {r} : reply'[s] = reply[s]
      BY <1>2, Sends
    <2>2. ~reply[r].finished
      BY <2>1 DEF FlightInv, FlightOk, ReplyOk, NewReply
    <2> QED BY <2>1, <2>2
  <1>3. ASSUME NEW r \in Requests, TransportSlot(r)
        PROVE  \A s \in Requests :
             /\ reply'[s].viaQueue = reply[s].viaQueue
             /\ reply[s].finished =>
                  /\ reply'[s].finished
                  /\ reply'[s].st = reply[s].st /\ reply'[s].err = reply[s].err
    <2>1. Moved(r)
      BY <1>3, SlotStep
    <2>2. PICK base \in Nat : Outcome(r, reply'[r], Cached(haveDigest', nonce'), base)
      BY <2>1 DEF Moved
    <2>3. reply'[r].viaQueue = reply[r].viaQueue /\ ~reply[r].finished
      BY <2>1 DEF Moved, Working
    <2>4. reply' \in [Requests -> ReplyType] /\ reply \in [Requests -> ReplyType]
      BY <2>2 DEF Outcome, TypeOK
    <2>5. ASSUME NEW s \in Requests \ {r}, reply'[s] # reply[s]
          PROVE  reply'[s].viaQueue = reply[s].viaQueue /\ ~reply[s].finished
      <3>1. reply[s] = QueuedReply /\ reply'[s].viaQueue
        BY <2>2, <2>5 DEF Outcome, Dequeued
      <3>2. reply'[s] \in ReplyType
        BY <2>4
      <3>3. reply'[s].viaQueue = TRUE
        BY <3>1, <3>2 DEF ReplyType
      <3> QED BY <1>1, <3>1, <3>3
    <2> QED BY <2>3, <2>5
  <1>4. ASSUME NEW r \in Requests, FactoryLate(r) \/ DeleteReply(r)
        PROVE  \A s \in Requests :
             /\ reply'[s].viaQueue = reply[s].viaQueue
             /\ reply[s].finished =>
                  /\ reply'[s].finished
                  /\ reply'[s].st = reply[s].st /\ reply'[s].err = reply[s].err
    BY <1>4, LateStep
  <1>5. ASSUME Around \/ UNCHANGED vars
        PROVE  reply' = reply
    BY <1>5, AroundStep DEF vars
  <1> QED BY <1>2, <1>3, <1>4, <1>5, NextIs

-----------------------------------------------------------------------------
(* Every step keeps the types and the invariant of the queue.              *)

QueueTypes ==
    /\ current \in Requests \cup {NoReply} /\ queue \in Seq(Requests)
    /\ reply \in [Requests -> ReplyType] /\ nc \in Nat

ConfigTypes ==
    /\ profile \in Profiles
    /\ user \in BOOLEAN /\ factory \in BOOLEAN /\ serialize \in BOOLEAN
    /\ settings \in Nat
    /\ trusted \subseteq Certs /\ pendingCert \in Certs \cup {NoCert}
    /\ awaitingTrust \in BOOLEAN
    /\ devNonce \in Nat /\ devCert \in Certs /\ sshUp \in BOOLEAN

DigestTypes ==
    /\ haveDigest \in BOOLEAN /\ nonce \in Nat
    /\ counted \subseteq Nat /\ rewound \in BOOLEAN
    /\ used \subseteq Nat \X Nat /\ reused \in BOOLEAN

LEMMA TypeParts == TypeOK <=> QueueTypes /\ ConfigTypes /\ DigestTypes
  BY Zenon DEF TypeOK, QueueTypes, ConfigTypes, DigestTypes

\* The queue, the replies and the current request.
LEMMA QueueStep ==
    ASSUME TypeOK, FlightInv, [Next]_vars
    PROVE  QueueTypes' /\ FlightOk(reply', queue', current')
  <1>1. CASE \E r \in Requests : Send(r)
    BY <1>1, Sends DEF Outcome, QueueTypes
  <1>2. CASE \E r \in Requests : TransportSlot(r)
    <2>1. PICK r \in Requests : TransportSlot(r)
      BY <1>2
    <2>2. PICK base \in Nat : Outcome(r, reply'[r], Cached(haveDigest', nonce'), base)
      BY <2>1, SlotStep DEF Moved
    <2> QED BY <2>2 DEF Outcome, QueueTypes
  <1>3. CASE \E r \in Requests : FactoryLate(r) \/ DeleteReply(r)
    <2>1. PICK r \in Requests : FactoryLate(r) \/ DeleteReply(r)
      BY <1>3
    <2>2. UNCHANGED <<queue, current, nc>>
      BY <2>1 DEF FactoryLate, DeleteReply
    <2> QED BY <2>1, <2>2, LateStep DEF QueueTypes, TypeOK
  <1>4. CASE Around \/ UNCHANGED vars
    <2>1. UNCHANGED <<reply, queue, current, nc>>
      BY <1>4, AroundStep DEF vars
    <2> QED BY <2>1 DEF QueueTypes, TypeOK, FlightInv
  <1> QED BY <1>1, <1>2, <1>3, <1>4, NextIs

\* The settings, the trust and the device.
LEMMA ConfigStep ==
    ASSUME TypeOK, [Next]_vars
    PROVE  ConfigTypes'
  <1>0. ConfigTypes
    BY TypeParts
  <1>1. ASSUME NEW r \in Requests,
               Send(r) \/ TransportSlot(r) \/ FactoryLate(r) \/ DeleteReply(r)
        PROVE  ConfigTypes'
    <2>1. CASE TlsResult(r)
      <3>1. UNCHANGED <<config, device>>
        BY <2>1 DEF TlsResult
      <3>2. CASE UNCHANGED trust
        BY <1>0, <3>1, <3>2 DEF config, device, trust, ConfigTypes
      <3>3. CASE /\ pendingCert' = IF reply[r].prompts THEN devCert ELSE pendingCert
                 /\ awaitingTrust' = (awaitingTrust \/ reply[r].prompts)
                 /\ UNCHANGED trusted
        <4>1. pendingCert' \in Certs \cup {NoCert} /\ trusted' \subseteq Certs
          BY <1>0, <3>3 DEF ConfigTypes
        <4>2. awaitingTrust' \in BOOLEAN
          BY <3>3, Zenon
        <4> QED BY <1>0, <3>1, <4>1, <4>2 DEF config, device, ConfigTypes
      <3> QED BY <2>1, <3>2, <3>3 DEF TlsResult
    <2>2. CASE ~TlsResult(r)
      <3>1. UNCHANGED <<config, device, trust>>
        BY <1>1, <2>2 DEF TransportSlot, Send, FactoryLate, DeleteReply, Connected, FactoryDone,
           QueuedWrite, SocketError, DeviceAnswers, ReadHeaders, ReadBody, Timeout, Abort
      <3> QED BY <1>0, <3>1 DEF config, device, trust, ConfigTypes
    <2> QED BY <2>1, <2>2
  <1>2. CASE TrustPendingPeerCert
    BY <1>0, <1>2 DEF TrustPendingPeerCert, ConfigTypes, config, device
  <1>3. CASE SetCredentials
    BY <1>0, <1>3 DEF SetCredentials, Setting, ConfigTypes, device
  <1>4. CASE SetTrustedFingerprints
    BY <1>0, <1>4 DEF SetTrustedFingerprints, Setting, ConfigTypes, device
  <1>5. CASE SetSerializeRequests
    <2>1. serialize' \in BOOLEAN
      BY <1>5, Zenon DEF SetSerializeRequests
    <2> QED BY <1>0, <1>5, <2>1 DEF SetSerializeRequests, Setting, ConfigTypes, device
  <1>6. CASE SetSocketFactory
    <2>1. factory' \in BOOLEAN
      BY <1>6, Zenon DEF SetSocketFactory
    <2> QED BY <1>0, <1>6, <2>1 DEF SetSocketFactory, Setting, ConfigTypes, device
  <1>7. CASE RotateNonce \/ RotateCert \/ SshDrops
    <2>1. CASE RotateNonce
      BY <1>0, <2>1 DEF RotateNonce, ConfigTypes, config, trust
    <2>2. CASE RotateCert
      BY <1>0, <2>2 DEF RotateCert, ConfigTypes, config, trust
    <2>3. CASE SshDrops
      BY <1>0, <2>3 DEF SshDrops, ConfigTypes, config, trust
    <2> QED BY <1>7, <2>1, <2>2, <2>3
  <1>8. CASE UNCHANGED vars
    BY <1>0, <1>8 DEF vars, config, trust, device, ConfigTypes
  <1> QED BY <1>1, <1>2, <1>3, <1>4, <1>5, <1>6, <1>7, <1>8, NextIs DEF Around

\* The challenge and the log.
LEMMA DigestStep ==
    ASSUME TypeOK, FlightInv, [Next]_vars
    PROVE  DigestTypes'
  <1>0. DigestTypes
    BY TypeParts
  <1>1. ASSUME NEW r \in Requests, TransportSlot(r)
        PROVE  DigestTypes'
    <2>1. Went(r) /\ reply[r] \in ReplyType
      BY <1>1, SlotStep DEF TypeOK
    <2>2. CASE Waits(r) \/ Ended(r) \/ Heard(r)
      BY <1>0, <2>2 DEF Waits, Ended, Heard, DigestTypes, digest, log
    <2>3. CASE Wrote(r)
      <3>1. <<reply[r].auth.nonce, reply[r].auth.nc>> \in Nat \X Nat
        BY <2>1 DEF ReplyType
      <3>2. used' \subseteq Nat \X Nat
        BY <1>0, <2>3, <3>1 DEF Wrote, DigestTypes
      <3>3. reused' \in BOOLEAN
        BY <2>3, Zenon DEF Wrote
      <3> QED BY <1>0, <2>3, <3>2, <3>3 DEF Wrote, DigestTypes, digest
    <2>4. CASE Challenged(r)
      <3>1. nonce' \in Nat /\ UNCHANGED <<used, reused>>
        BY <2>1, <2>4 DEF Challenged, ReplyType, log
      <3>3. counted' \subseteq Nat
        BY <1>0, <2>4, <3>1 DEF Challenged, DigestTypes
      <3>4. rewound' \in BOOLEAN
        BY <2>4, Zenon DEF Challenged
      <3>2. haveDigest' \in BOOLEAN
        BY <1>1, <1>0 DEF TransportSlot, Connected, FactoryDone, TlsResult, QueuedWrite, SocketError,
           DeviceAnswers, ReadHeaders, ReadBody, Timeout, Abort, digest, DigestTypes,
           ReadChallenge, ReadUnsupported, ReadMalformed, ReadOk
      <3> QED BY <1>0, <3>1, <3>2, <3>3, <3>4 DEF DigestTypes
    <2>5. CASE Refused(r)
      BY <1>0, <2>5 DEF Refused, DigestTypes, log
    <2> QED BY <2>1, <2>2, <2>3, <2>4, <2>5 DEF Went
  <1>2. ASSUME NEW r \in Requests, Send(r) \/ FactoryLate(r) \/ DeleteReply(r)
        PROVE  DigestTypes'
    BY <1>0, <1>2 DEF Send, FactoryLate, DeleteReply, DigestTypes, digest, log
  <1>3. CASE Around
    <2>1. UNCHANGED <<nonce, counted, rewound, used, reused>>
      BY <1>3, AroundStep
    <2>2. haveDigest' = haveDigest \/ haveDigest' = FALSE
      BY <1>3 DEF Around, TrustPendingPeerCert, SetCredentials, SetTrustedFingerprints,
         SetSerializeRequests, SetSocketFactory, RotateNonce, RotateCert, SshDrops, digest
    <2> QED BY <1>0, <2>1, <2>2 DEF DigestTypes
  <1>4. CASE UNCHANGED vars
    BY <1>0, <1>4 DEF vars, digest, log, DigestTypes
  <1> QED BY <1>1, <1>2, <1>3, <1>4, NextIs

LEMMA TypeStep ==
    ASSUME TypeOK, FlightInv, [Next]_vars
    PROVE  TypeOK'
  <1>1. QueueTypes' /\ ConfigTypes' /\ DigestTypes'
    BY QueueStep, ConfigStep, DigestStep
  <1> QED BY <1>1, Zenon DEF TypeOK, QueueTypes, ConfigTypes, DigestTypes

LEMMA FlightStep ==
    ASSUME TypeOK, FlightInv, [Next]_vars
    PROVE  FlightInv'
  <1>1. FlightOk(reply', queue', current')
    BY QueueStep
  <1>2. profile' = profile
    BY DEF Next, Send, Connected, FactoryDone, FactoryLate, TlsResult, QueuedWrite, SocketError,
       DeviceAnswers, ReadHeaders, ReadBody, Timeout, Abort, DeleteReply, TrustPendingPeerCert,
       SetCredentials, SetTrustedFingerprints, SetSerializeRequests, SetSocketFactory, Setting,
       RotateNonce, RotateCert, SshDrops, vars, config
  <1>3. "Abort" \in profile.events => ~serialize'
    <2>1. CASE SetSerializeRequests
      BY <2>1, AbortAssumption DEF SetSerializeRequests, Setting, TypeOK
    <2>2. CASE ~SetSerializeRequests
      <3>1. serialize' = serialize
        BY <2>2 DEF Next, Send, Connected, FactoryDone, FactoryLate, TlsResult, QueuedWrite,
           SocketError, DeviceAnswers, ReadHeaders, ReadBody, Timeout, Abort, DeleteReply,
           TrustPendingPeerCert, SetCredentials, SetTrustedFingerprints, SetSocketFactory,
           RotateNonce, RotateCert, SshDrops, vars, config
      <3> QED BY <3>1 DEF FlightInv, AbortOk
    <2> QED BY <2>1, <2>2
  <1>4. "Abort" \in profile.events => \A s \in Requests : ~reply'[s].viaQueue
    BY EveryReply DEF FlightInv, AbortOk
  <1> QED BY <1>1, <1>2, <1>3, <1>4 DEF FlightInv, AbortOk

-----------------------------------------------------------------------------
(* Every step keeps the invariant of the nonce counts.                     *)

\* When the count goes on, or restarts under a nonce never taken before, a pair stays
\* behind it; and it is not the pair that comes next.
LEMMA CountedLater ==
    ASSUME NEW p, p[1] \in Nat, p[2] \in Nat, NEW cs, NEW ds, cs \subseteq ds,
           NEW n \in Nat, NEW k \in Nat, NEW m \in Nat, NEW j \in Nat,
           Counted(p, cs, n, k), m = n => k <= j, m # n => m = 0 \/ m \notin cs
    PROVE  /\ Counted(p, ds, m, j)
           /\ m # 0 /\ (m = n => k < j) => p # <<m, j>>
  <1>1. p[1] \in cs /\ p[1] # 0 /\ (p[1] = n => p[2] <= k)
    BY DEF Counted
  <1>2. p[1] = m => m = n
    BY <1>1
  <1>3. Counted(p, ds, m, j)
    BY <1>1, <1>2 DEF Counted
  <1>4. ASSUME m # 0, m = n => k < j, p = <<m, j>>
        PROVE  FALSE
    BY <1>1, <1>2, <1>4
  <1> QED BY <1>3, <1>4

\* Reply s still has the pair it took, or takes the next one.
Kept(s)  == Pending(reply[s]) /\ PairOf(reply'[s]) = PairOf(reply[s])
Fresh(s) ==
    /\ PairOf(reply'[s]) = <<nonce', nc'>>
    /\ nonce' # 0 /\ (nonce' = nonce => nc < nc')

\* A step that hands out at most one pair, the next one, keeps all pairs different.
LEMMA PairsStep ==
    ASSUME TypeOK, CountOk, nonce' \in Nat, nc' \in Nat, counted \subseteq counted',
           reply' \in [Requests -> ReplyType],
           nonce' = nonce => nc <= nc',
           nonce' # nonce => nonce' = 0 \/ nonce' \notin counted,
           nonce' # 0 => nonce' \in counted',
           \A s \in Requests : Pending(reply'[s]) => Kept(s) \/ Fresh(s),
           \A s, t \in Requests :
              Pending(reply'[s]) /\ ~Kept(s) /\ Pending(reply'[t]) /\ ~Kept(t) => s = t,
           \/ UNCHANGED <<used, reused>>
           \/ \E r \in Requests : Wrote(r) /\ Working(reply[r])
    PROVE  CountOk'
  <1>1. /\ nonce \in Nat /\ nc \in Nat /\ used \subseteq Nat \X Nat
        /\ \A r \in Requests : reply[r] \in ReplyType /\ reply'[r] \in ReplyType
    BY DEF TypeOK
  <1>2. \A r \in Requests : /\ PairOf(reply[r])[1] \in Nat /\ PairOf(reply[r])[2] \in Nat
                            /\ PairOf(reply'[r])[1] \in Nat /\ PairOf(reply'[r])[2] \in Nat
    BY <1>1 DEF PairOf, ReplyType
  <1>3. \A p \in used : p[1] \in Nat /\ p[2] \in Nat
    BY <1>1
  <1>4. ASSUME NEW p \in used
        PROVE  /\ Counted(p, counted', nonce', nc')
               /\ nonce' # 0 /\ (nonce' = nonce => nc < nc') => p # <<nonce', nc'>>
    <2>1. Counted(p, counted, nonce, nc)
      BY DEF CountOk
    <2> QED BY <1>1, <1>3, <2>1, CountedLater
  <1>5. ASSUME NEW r \in Requests, Pending(reply[r])
        PROVE  /\ Counted(PairOf(reply[r]), counted', nonce', nc')
               /\ nonce' # 0 /\ (nonce' = nonce => nc < nc') => PairOf(reply[r]) # <<nonce', nc'>>
    <2>1. Counted(PairOf(reply[r]), counted, nonce, nc)
      BY <1>5 DEF CountOk
    <2> QED BY <1>1, <1>2, <2>1, CountedLater
  <1>6. /\ \A p \in used' : Counted(p, counted', nonce', nc')
        /\ ~reused'
        /\ \A s \in Requests : Pending(reply'[s]) /\ Kept(s) => PairOf(reply'[s]) \notin used'
    <2>1. CASE UNCHANGED <<used, reused>>
      BY <1>4, <2>1 DEF CountOk, Kept
    <2>2. CASE \E r \in Requests : Wrote(r) /\ Working(reply[r])
      <3>1. PICK r \in Requests : Wrote(r) /\ Working(reply[r])
        BY <2>2
      <3> DEFINE pair == PairOf(reply[r])
      <3>2. /\ used' = IF reply[r].auth = NoAuth THEN used ELSE used \cup {pair}
            /\ reused' = (reused \/ pair \in used)
            /\ ~Pending(reply'[r])
        BY <3>1 DEF Wrote, PairOf, Pending, BeforeWrite
      <3>3. CASE reply[r].auth = NoAuth
        <4>1. pair[1] = 0
          BY <3>3 DEF NoAuth, PairOf
        <4>2. pair \notin used
          BY <4>1 DEF CountOk, Counted
        <4> QED BY <1>4, <3>2, <3>3, <4>2 DEF CountOk, Kept
      <3>4. CASE reply[r].auth # NoAuth
        <4>1. Pending(reply[r])
          BY <3>1, <3>4 DEF Wrote, Pending, BeforeWrite
        <4>2. pair \notin used /\ Counted(pair, counted', nonce', nc')
          BY <1>5, <4>1 DEF CountOk
        <4>3. ASSUME NEW s \in Requests, Pending(reply'[s]), Kept(s)
              PROVE  PairOf(reply'[s]) \notin used'
          <5>1. s # r /\ PairOf(reply[s]) # pair /\ PairOf(reply[s]) \notin used
            BY <3>2, <4>1, <4>3 DEF CountOk, Kept
          <5> QED BY <3>2, <3>4, <4>3, <5>1 DEF Kept
        <4> HIDE DEF pair
        <4>4. \A p \in used' : Counted(p, counted', nonce', nc')
          BY <1>4, <3>2, <3>4, <4>2
        <4>5. ~reused'
          BY <3>2, <4>2 DEF CountOk
        <4> QED BY <4>3, <4>4, <4>5
      <3> QED BY <3>3, <3>4
    <2> QED BY <2>1, <2>2
  <1>7. ASSUME NEW s \in Requests, Pending(reply'[s]), ~Kept(s)
        PROVE  /\ Counted(PairOf(reply'[s]), counted', nonce', nc')
               /\ PairOf(reply'[s]) \notin used'
               /\ \A t \in Requests : Pending(reply'[t]) /\ Kept(t)
                                        => PairOf(reply'[t]) # PairOf(reply'[s])
    <2>1. Fresh(s)
      BY <1>7
    <2>2. used' = used
      <3>1. ASSUME NEW r \in Requests, Wrote(r)
            PROVE  FALSE
        <4>1. nonce' = nonce /\ nc' = nc
          BY <3>1 DEF Wrote, digest
        <4> QED BY <1>1, <2>1, <4>1 DEF Fresh
      <3> QED BY <3>1
    <2>3. Counted(PairOf(reply'[s]), counted', nonce', nc')
      BY <2>1 DEF Fresh, Counted
    <2>4. PairOf(reply'[s]) \notin used'
      BY <1>4, <2>1, <2>2 DEF Fresh
    <2>5. ASSUME NEW t \in Requests, Pending(reply'[t]), Kept(t)
          PROVE  PairOf(reply'[t]) # PairOf(reply'[s])
      BY <1>5, <2>1, <2>5 DEF Fresh, Kept
    <2> QED BY <2>3, <2>4, <2>5
  <1>8. ASSUME NEW s \in Requests, Pending(reply'[s])
        PROVE  /\ Counted(PairOf(reply'[s]), counted', nonce', nc')
               /\ PairOf(reply'[s]) \notin used'
    BY <1>5, <1>6, <1>7, <1>8 DEF Kept
  <1>9. ASSUME NEW s \in Requests, NEW t \in Requests, Pending(reply'[s]), Pending(reply'[t]),
               PairOf(reply'[s]) = PairOf(reply'[t])
        PROVE  s = t
    <2>1. CASE Kept(s) /\ Kept(t)
      BY <1>9, <2>1 DEF CountOk, Kept
    <2>2. CASE ~Kept(s) \/ ~Kept(t)
      BY <1>7, <1>9, <2>2
    <2> QED BY <2>1, <2>2
  <1> QED BY <1>6, <1>8, <1>9 DEF CountOk

\* The slots of a reply at work: how the count goes on.
LEMMA CountForward ==
    ASSUME TypeOK, NonceInv, ~rewound', NEW r \in Requests, Moved(r), Went(r)
    PROVE  /\ CountOk /\ nonce' \in Nat /\ nc' \in Nat /\ counted \subseteq counted'
           /\ nonce' = nonce => nc <= nc'
           /\ nonce' # nonce => nonce' = 0 \/ nonce' \notin counted
           /\ nonce' # 0 => nonce' \in counted'
  <1>1. PICK base \in Nat : /\ Outcome(r, reply'[r], Cached(haveDigest', nonce'), base)
                            /\ nonce' = nonce => nc <= base
    BY DEF Moved
  <1>2. nc' \in Nat /\ base <= nc' /\ nc \in Nat
    BY <1>1 DEF Outcome, TypeOK
  <1>3. nonce' = nonce => nc <= nc'
    BY <1>1, <1>2
  <1>4. reply[r].wire.nonce \in Nat /\ nonce \in Nat
    BY DEF TypeOK, ReplyType
  <1>5. CASE Challenged(r)
    BY <1>2, <1>3, <1>4, <1>5 DEF Challenged, NonceInv
  <1>6. CASE Refused(r)
    BY <1>2, <1>3, <1>6 DEF Refused, NonceInv
  <1>7. CASE Waits(r) \/ Wrote(r) \/ Ended(r) \/ Heard(r)
    <2>1. nonce' = nonce /\ counted' = counted /\ rewound' = rewound
      BY <1>7 DEF Waits, Wrote, Ended, Heard, digest
    <2> QED BY <1>2, <1>3, <1>4, <2>1 DEF NonceInv, CountOk
  <1> QED BY <1>5, <1>6, <1>7 DEF Went

\* Only the reply whose slot runs, or the one it dequeues, takes a pair.
LEMMA SlotPairs ==
    ASSUME TypeOK, FlightInv, NonceInv, NEW r \in Requests, Moved(r), Went(r)
    PROVE  /\ \A s \in Requests : Pending(reply'[s]) => Kept(s) \/ Fresh(s)
           /\ \A s, t \in Requests :
                Pending(reply'[s]) /\ ~Kept(s) /\ Pending(reply'[t]) /\ ~Kept(t) => s = t
  <1>1. PICK base \in Nat : /\ Outcome(r, reply'[r], Cached(haveDigest', nonce'), base)
                            /\ nonce' = nonce => nc <= base
    BY DEF Moved
  <1>2. nc \in Nat /\ nonce \in Nat /\ Working(reply[r])
    BY DEF TypeOK, Moved
  <1>3. ASSUME Pending(reply'[r])
        PROVE  Kept(r) \/ Fresh(r)
    <2>1. ~reply'[r].finished /\ reply'[r].st \in BeforeWrite /\ reply'[r].auth # NoAuth
      BY <1>3 DEF Pending, Working
    <2>2. CASE Waits(r)
      BY <1>2, <2>1, <2>2 DEF Waits, Kept, Pending, PairOf, BeforeWrite
    <2>3. CASE Wrote(r) \/ Heard(r) \/ Ended(r) \/ Refused(r)
      BY <2>1, <2>3 DEF Wrote, Heard, Ended, Refused, BeforeWrite
    <2>4. CASE Challenged(r)
      <3>1. /\ reply'[r].auth = [nonce |-> nonce', nc |-> nc']
            /\ nc' = Rewound(nonce') + 1 /\ nonce' # 0
        BY <1>2, <2>1, <2>4 DEF Challenged, NonceInv, WireInv
      <3>2. nonce' = nonce => nc < nc'
        BY <1>2, <3>1 DEF Rewound
      <3> QED BY <3>1, <3>2 DEF Fresh, PairOf
    <2> QED BY <2>2, <2>3, <2>4 DEF Went
  <1>4. ASSUME NEW s \in Requests \ {r}, Pending(reply'[s]), ~Kept(s)
        PROVE  Fresh(s) /\ reply'[s].viaQueue /\ reply'[r].finished
    <2>1. reply'[s] # reply[s]
      BY <1>4 DEF Kept
    <2>2. /\ reply'[r].finished
          /\ Dequeued(reply[s], reply'[s], Cached(haveDigest', nonce'), base)
      BY <1>1, <2>1 DEF Outcome
    <2> DEFINE pre == Cached(haveDigest', nonce')
    <2>3. reply'[s].viaQueue /\ reply'[s].auth = PairFor(pre, base + 1) /\ nc' = base + Taken(pre, 1)
      BY <1>4, <2>2 DEF Dequeued, Pending
    <2>4. pre # 0 /\ pre = nonce'
      BY <1>4, <2>3 DEF PairFor, Cached, Pending
    <2>5. reply'[s].auth = [nonce |-> nonce', nc |-> base + 1] /\ nc' = base + 1
      BY <2>3, <2>4 DEF PairFor, Taken
    <2>6. nonce' = nonce => nc < nc'
      BY <1>1, <1>2, <2>5
    <2> QED BY <2>2, <2>3, <2>4, <2>5, <2>6 DEF Fresh, PairOf
  <1>5. ASSUME NEW s \in Requests, NEW t \in Requests,
               Pending(reply'[s]), ~Kept(s), Pending(reply'[t]), ~Kept(t)
        PROVE  s = t
    <2>1. CASE s = r \/ t = r
      BY <1>4, <1>5, <2>1 DEF Pending, Working
    <2>2. CASE s # r /\ t # r
      <3>1. reply'[s].viaQueue /\ reply'[t].viaQueue
        BY <1>4, <1>5, <2>2
      <3>2. CurrentOk(reply', queue', current')
        BY <1>1 DEF Outcome, FlightOk
      <3> QED BY <1>5, <3>1, <3>2 DEF CurrentOk, Pending
    <2> QED BY <2>1, <2>2
  <1>6. \A s \in Requests : Pending(reply'[s]) => Kept(s) \/ Fresh(s)
    BY <1>3, <1>4
  <1> QED BY <1>5, <1>6

LEMMA CountStep ==
    ASSUME TypeOK, FlightInv, NonceInv, [Next]_vars, ~rewound'
    PROVE  CountOk'
  <1>0. /\ nonce \in Nat /\ nc \in Nat /\ nc <= nc
        /\ reply' \in [Requests -> ReplyType]
    BY QueueStep DEF TypeOK, QueueTypes
  <1>1. ASSUME NEW r \in Requests, TransportSlot(r)
        PROVE  CountOk'
    <2>1. Moved(r) /\ Went(r) /\ Working(reply[r])
      BY <1>1, SlotStep DEF Moved
    <2>2. /\ CountOk /\ nonce' \in Nat /\ nc' \in Nat /\ counted \subseteq counted'
          /\ nonce' = nonce => nc <= nc'
          /\ nonce' # nonce => nonce' = 0 \/ nonce' \notin counted
          /\ nonce' # 0 => nonce' \in counted'
      BY <2>1, CountForward
    <2>3. /\ \A s \in Requests : Pending(reply'[s]) => Kept(s) \/ Fresh(s)
          /\ \A s, t \in Requests :
               Pending(reply'[s]) /\ ~Kept(s) /\ Pending(reply'[t]) /\ ~Kept(t) => s = t
      BY <2>1, SlotPairs
    <2>4. UNCHANGED <<used, reused>> \/ Wrote(r)
      BY <2>1 DEF Went, Waits, Ended, Heard, Challenged, Refused, log
    <2> QED BY <1>0, <2>1, <2>2, <2>3, <2>4, PairsStep
  <1>2. ASSUME NEW r \in Requests, Send(r)
        PROVE  CountOk'
    <2> DEFINE pre == Cached(haveDigest, nonce)
    <2>1. UNCHANGED <<haveDigest, nonce, counted, rewound, used, reused>>
      BY <1>2 DEF Send, digest, log
    <2>2. CountOk
      BY <2>1 DEF NonceInv
    <2>3. /\ Outcome(r, reply'[r], pre, nc)
          /\ \A s \in Requests \ {r} : reply'[s] = reply[s]
          /\ Working(reply'[r]) => /\ reply'[r].auth = PairFor(pre, nc + 1)
                                   /\ nc' = nc + Taken(pre, 1)
      BY <1>2, Sends
    <2>4. nc' \in Nat /\ nc <= nc'
      BY <2>3 DEF Outcome
    <2>5. ASSUME Pending(reply'[r])
          PROVE  Fresh(r)
      <3>1. pre # 0 /\ pre = nonce
        BY <2>3, <2>5 DEF PairFor, Cached, Pending
      <3>2. reply'[r].auth = [nonce |-> nonce, nc |-> nc + 1] /\ nc' = nc + 1
        BY <2>3, <2>5, <3>1 DEF PairFor, Taken, Pending
      <3> QED BY <1>0, <2>1, <3>1, <3>2 DEF Fresh, PairOf
    <2>6. \A s \in Requests \ {r} : Pending(reply'[s]) => Kept(s)
      BY <2>3 DEF Kept
    <2>7. nonce' \in Nat /\ nonce' = nonce /\ counted \subseteq counted'
          /\ (nonce' # 0 => nonce' \in counted')
      BY <1>0, <2>1, <2>2 DEF CountOk
    <2> HIDE DEF pre
    <2> QED BY <1>0, <2>1, <2>2, <2>4, <2>5, <2>6, <2>7, PairsStep
  <1>3. ASSUME NEW r \in Requests, FactoryLate(r) \/ DeleteReply(r)
        PROVE  CountOk'
    <2>1. UNCHANGED <<nonce, counted, rewound, used, reused, nc>>
      BY <1>3 DEF FactoryLate, DeleteReply, digest, log
    <2>2. /\ reply'[r].finished
          /\ \A s \in Requests \ {r} : reply'[s] = reply[s]
      BY <1>3, LateStep
    <2>3. \A s \in Requests : Pending(reply'[s]) => reply'[s] = reply[s]
      BY <2>2 DEF Pending, Working
    <2> QED BY <2>1, <2>3 DEF NonceInv, CountOk
  <1>4. ASSUME Around \/ UNCHANGED vars
        PROVE  CountOk'
    <2>1. UNCHANGED <<reply, nonce, counted, rewound, used, reused, nc>>
      BY <1>4, AroundStep DEF vars, digest, log
    <2> QED BY <2>1 DEF NonceInv, CountOk
  <1> QED BY <1>1, <1>2, <1>3, <1>4, NextIs

\* A reply that is started has no response; one that hears the device has its nonce.
LEMMA WireStep ==
    ASSUME TypeOK, FlightInv, WireInv, [Next]_vars
    PROVE  WireInv'
  <1>0. devNonce \in Nat
    BY DEF TypeOK
  <1>1. ASSUME NEW r \in Requests, TransportSlot(r)
        PROVE  WireInv'
    <2>1. Moved(r) /\ Went(r) /\ Working(reply[r])
      BY <1>1, SlotStep DEF Moved
    <2>2. devNonce' = devNonce
      BY <1>1 DEF TransportSlot, Connected, FactoryDone, TlsResult, QueuedWrite, SocketError,
         DeviceAnswers, ReadHeaders, ReadBody, Timeout, Abort, config, device
    <2>3. PICK base \in Nat : Outcome(r, reply'[r], Cached(haveDigest', nonce'), base)
      BY <2>1 DEF Moved
    <2>4. \A s \in Requests \ {r} : reply'[s] = reply[s] \/ reply'[s].wire = NoResponse
      BY <2>3 DEF Outcome, Dequeued
    <2>5. Working(reply'[r]) /\ reply'[r].wire # NoResponse => reply'[r].wire.nonce # 0
      BY <2>1 DEF Went, Waits, Wrote, Ended, Heard, Challenged, Refused, WireInv, Working
    <2>6. haveDigest' => nonce' # 0
      BY <2>1 DEF Went, Waits, Wrote, Ended, Heard, Challenged, Refused, WireInv, digest
    <2> QED BY <2>2, <2>4, <2>5, <2>6 DEF WireInv
  <1>2. ASSUME NEW r \in Requests, Send(r)
        PROVE  WireInv'
    <2>1. UNCHANGED <<devNonce, haveDigest, nonce>>
      BY <1>2 DEF Send, device, digest
    <2> QED BY <1>2, <2>1, Sends DEF WireInv
  <1>3. ASSUME NEW r \in Requests, FactoryLate(r) \/ DeleteReply(r)
        PROVE  WireInv'
    <2>1. UNCHANGED <<devNonce, haveDigest, nonce>>
      BY <1>3 DEF FactoryLate, DeleteReply, device, digest
    <2> QED BY <1>3, <2>1, LateStep DEF WireInv, Working
  <1>4. ASSUME Around
        PROVE  WireInv'
    <2>1. UNCHANGED <<reply, nonce>>
      BY <1>4, AroundStep
    <2>2. haveDigest' = haveDigest \/ haveDigest' = FALSE
      BY <1>4 DEF Around, TrustPendingPeerCert, SetCredentials, SetTrustedFingerprints,
         SetSerializeRequests, SetSocketFactory, RotateNonce, RotateCert, SshDrops, digest
    <2>3. devNonce' = devNonce \/ devNonce' = devNonce + 1
      BY <1>4 DEF Around, TrustPendingPeerCert, SetCredentials, SetTrustedFingerprints,
         SetSerializeRequests, Setting, SetSocketFactory, RotateNonce, RotateCert, SshDrops, device
    <2> QED BY <1>0, <2>1, <2>2, <2>3 DEF WireInv
  <1>5. ASSUME UNCHANGED vars
        PROVE  WireInv'
    BY <1>5 DEF vars, digest, device, WireInv
  <1> QED BY <1>1, <1>2, <1>3, <1>4, <1>5, NextIs

\* While requests are serialised the cached nonce never goes back.
LEMMA SteadySlot ==
    ASSUME TypeOK, FlightInv, NonceInv, Steady, NEW r \in Requests, Moved(r), Went(r)
    PROVE  /\ nonce <= nonce' /\ nonce' <= devNonce /\ ~rewound'
           /\ \A n \in counted' : n <= nonce'
           /\ \A s \in Requests :
                 /\ reply'[s].st # "Unsent" => reply'[s].viaQueue
                 /\ Working(reply'[s]) /\ reply'[s].wire # NoResponse
                      => /\ reply'[s].wire.kind \in profile.kinds
                         /\ nonce' <= reply'[s].wire.nonce /\ reply'[s].wire.nonce <= devNonce
  <1>1. PICK base \in Nat : Outcome(r, reply'[r], Cached(haveDigest', nonce'), base)
    BY DEF Moved
  <1>2. /\ nonce \in Nat /\ devNonce \in Nat /\ reply[r].wire.nonce \in Nat
        /\ counted \subseteq Nat
    BY DEF TypeOK, ReplyType
  <1>3. /\ nonce <= devNonce /\ ~rewound /\ \A n \in counted : n <= nonce
        /\ Working(reply[r]) /\ reply[r].viaQueue
        /\ reply[r].wire # NoResponse => /\ reply[r].wire.kind \in profile.kinds
                                         /\ nonce <= reply[r].wire.nonce
                                         /\ reply[r].wire.nonce <= devNonce
    BY DEF NonceInv, SteadyInv, Moved, Working
  <1>4. ~Refused(r)
    <2>1. "Unsupported" \notin profile.kinds /\ NoResponse.kind # "Unsupported"
      BY DEF Steady, NoResponse
    <2> QED BY <1>3, <2>1 DEF Refused
  <1>5. /\ nonce <= nonce' /\ nonce' <= devNonce /\ ~rewound'
        /\ \A n \in counted' : n <= nonce'
    <2>1. CASE Challenged(r)
      <3>1. /\ nonce' = reply[r].wire.nonce /\ counted' = counted \cup {nonce'}
            /\ rewound' = (rewound \/ nonce' \in counted \ {nonce})
            /\ nonce <= nonce' /\ nonce' <= devNonce /\ nonce' \in Nat
        BY <1>2, <1>3, <2>1 DEF Challenged
      <3>2. ~(nonce' \in counted \ {nonce})
        BY <1>2, <1>3, <3>1
      <3>3. \A n \in counted' : n <= nonce'
        BY <1>2, <1>3, <3>1
      <3> QED BY <1>3, <3>1, <3>2, <3>3
    <2>2. CASE ~Challenged(r)
      <3>1. nonce' = nonce /\ counted' = counted /\ rewound' = rewound
        BY <1>4, <2>2 DEF Went, Waits, Wrote, Ended, Heard, digest
      <3>2. nonce <= nonce' /\ nonce' <= devNonce
        BY <1>2, <1>3, <3>1
      <3>3. ~rewound'
        BY <1>3, <3>1, Zenon
      <3> QED BY <1>3, <3>1, <3>2, <3>3
    <2> QED BY <2>1, <2>2
  <1>6. \A s \in Requests : reply'[s].st # "Unsent" => reply'[s].viaQueue
    BY <1>1, <1>3 DEF Outcome, Dequeued, NonceInv, SteadyInv, Moved
  <1>7. Working(reply'[r]) /\ reply'[r].wire # NoResponse
           => /\ reply'[r].wire.kind \in profile.kinds
              /\ nonce' <= reply'[r].wire.nonce /\ reply'[r].wire.nonce <= devNonce
    <2>1. CASE Waits(r) \/ Wrote(r)
      BY <1>2, <1>3, <2>1 DEF Waits, Wrote, digest
    <2>2. CASE Heard(r)
      BY <1>2, <1>3, <2>2 DEF Heard, digest
    <2>3. CASE Ended(r) \/ Challenged(r)
      BY <2>3 DEF Ended, Challenged, Working
    <2> QED BY <1>4, <2>1, <2>2, <2>3 DEF Went
  <1>8. ASSUME NEW s \in Requests \ {r}, Working(reply'[s])
        PROVE  reply'[s].wire = NoResponse
    <2>1. reply'[s].viaQueue
      BY <1>6, <1>8 DEF Working
    <2>2. reply[s] # reply'[s]
      BY <1>3, <1>8, <2>1 DEF FlightInv, FlightOk, CurrentOk
    <2> QED BY <1>1, <2>2 DEF Outcome, Dequeued
  <1> QED BY <1>5, <1>6, <1>7, <1>8

LEMMA SteadyStep ==
    ASSUME TypeOK, FlightInv, NonceInv, [Next]_vars
    PROVE  SteadyInv'
  <1>1. profile' = profile
    BY DEF Next, Send, Connected, FactoryDone, FactoryLate, TlsResult, QueuedWrite, SocketError,
       DeviceAnswers, ReadHeaders, ReadBody, Timeout, Abort, DeleteReply, TrustPendingPeerCert,
       SetCredentials, SetTrustedFingerprints, SetSerializeRequests, SetSocketFactory, Setting,
       RotateNonce, RotateCert, SshDrops, vars, config
  <1>2. SUFFICES ASSUME Steady
                 PROVE  SteadyInv'
    BY <1>1 DEF SteadyInv, Steady
  <1>3. /\ serialize /\ nonce <= devNonce /\ ~rewound /\ \A n \in counted : n <= nonce
        /\ \A s \in Requests :
             /\ reply[s].st # "Unsent" => reply[s].viaQueue
             /\ Working(reply[s]) /\ reply[s].wire # NoResponse
                  => /\ reply[s].wire.kind \in profile.kinds
                     /\ nonce <= reply[s].wire.nonce /\ reply[s].wire.nonce <= devNonce
    BY <1>2 DEF NonceInv, SteadyInv
  <1>4. ASSUME NEW r \in Requests, TransportSlot(r)
        PROVE  SteadyInv'
    <2>1. UNCHANGED <<serialize, devNonce>>
      BY <1>4 DEF TransportSlot, Connected, FactoryDone, TlsResult, QueuedWrite, SocketError,
         DeviceAnswers, ReadHeaders, ReadBody, Timeout, Abort, config, device
    <2>2. Moved(r) /\ Went(r)
      BY <1>4, SlotStep
    <2> QED BY <1>1, <1>2, <1>3, <2>1, <2>2, SteadySlot DEF SteadyInv
  <1>5. ASSUME NEW r \in Requests, Send(r)
        PROVE  SteadyInv'
    <2>1. UNCHANGED <<serialize, devNonce, nonce, counted, rewound>>
      BY <1>5 DEF Send, config, device, digest
    <2>2. /\ \A s \in Requests \ {r} : reply'[s] = reply[s]
          /\ reply'[r].viaQueue = serialize /\ reply'[r].wire = NoResponse
      BY <1>5, Sends
    <2> QED BY <1>1, <1>3, <2>1, <2>2 DEF SteadyInv
  <1>6. ASSUME NEW r \in Requests, FactoryLate(r) \/ DeleteReply(r)
        PROVE  SteadyInv'
    <2>1. UNCHANGED <<serialize, devNonce, nonce, counted, rewound>>
      BY <1>6 DEF FactoryLate, DeleteReply, config, device, digest
    <2>2. /\ reply'[r].finished
          /\ reply'[r].viaQueue = reply[r].viaQueue /\ reply'[r].st = reply[r].st
          /\ \A s \in Requests \ {r} : reply'[s] = reply[s]
      BY <1>6, LateStep
    <2> QED BY <1>1, <1>3, <2>1, <2>2 DEF SteadyInv, Working
  <1>7. ASSUME Around
        PROVE  SteadyInv'
    <2>1. UNCHANGED <<reply, nonce, counted, rewound>>
      BY <1>7, AroundStep
    <2>2. serialize' = serialize
      BY <1>2, <1>7 DEF Around, TrustPendingPeerCert, SetCredentials, SetTrustedFingerprints,
         SetSerializeRequests, Setting, SetSocketFactory, RotateNonce, RotateCert, SshDrops,
         config, Steady
    <2>3. devNonce' \in Nat /\ devNonce <= devNonce' /\ devNonce \in Nat /\ nonce \in Nat
      BY <1>7 DEF Around, TrustPendingPeerCert, SetCredentials, SetTrustedFingerprints,
         SetSerializeRequests, Setting, SetSocketFactory, RotateNonce, RotateCert, SshDrops,
         device, TypeOK
    <2>4. \A s \in Requests : reply[s].wire.nonce \in Nat
      BY DEF TypeOK, ReplyType
    <2>5. nonce <= devNonce'
      BY <1>3, <2>3
    <2>6. \A s \in Requests : reply[s].wire.nonce <= devNonce => reply[s].wire.nonce <= devNonce'
      BY <2>3, <2>4
    <2> QED BY <1>1, <1>3, <2>1, <2>2, <2>5, <2>6 DEF SteadyInv
  <1>8. ASSUME UNCHANGED vars
        PROVE  SteadyInv'
    BY <1>1, <1>3, <1>8 DEF vars, config, digest, device, SteadyInv
  <1> QED BY <1>4, <1>5, <1>6, <1>7, <1>8, NextIs

LEMMA NonceStep ==
    ASSUME TypeOK, FlightInv, NonceInv, [Next]_vars
    PROVE  NonceInv'
  BY CountStep, WireStep, SteadyStep DEF NonceInv

-----------------------------------------------------------------------------
(* The theorems.                                                           *)

LEMMA Initially == Init => IndInv
  <1> SUFFICES ASSUME Init
               PROVE  IndInv
    OBVIOUS
  <1>1. profile \in Profiles /\ profile \in ProfileType
    BY WsmanAssumption DEF Init
  <1>2. factory \in BOOLEAN /\ serialize \in BOOLEAN
    BY <1>1 DEF Init, ProfileType
  <1>3. sshUp \in BOOLEAN
    BY DEF Init
  <1>4. queue \in Seq(Requests) /\ Len(queue) = 0
    BY DEF Init
  <1>5. reply \in [Requests -> ReplyType] /\ \A r \in Requests : reply[r] = NewReply
    BY BlankFields DEF Init
  <1>6. TypeOK
    <2>1. QueueTypes
      BY <1>4, <1>5 DEF Init, QueueTypes
    <2>2. ConfigTypes
      BY <1>1, <1>2, <1>3, WsmanAssumption DEF Init, ConfigTypes
    <2>3. DigestTypes
      BY DEF Init, DigestTypes
    <2> QED BY <2>1, <2>2, <2>3, TypeParts
  <1>7. /\ NewReply.st = "Unsent" /\ ~NewReply.finished /\ ~NewReply.heard
        /\ ~NewReply.deleted /\ ~NewReply.viaQueue
    BY DEF NewReply
  <1>8. FlightInv
    <2>1. \A r \in Requests : ReplyOk(reply[r])
      BY <1>5, <1>7 DEF ReplyOk, Working
    <2>2. QueueOk(reply, queue)
      BY <1>4, <1>5, <1>7 DEF QueueOk
    <2>3. CurrentOk(reply, queue, current)
      BY <1>5, <1>7 DEF CurrentOk, Init
    <2>4. AbortOk
      BY <1>1, <1>5, <1>7, AbortAssumption DEF AbortOk, Init
    <2> QED BY <2>1, <2>2, <2>3, <2>4 DEF FlightInv, FlightOk
  <1>9. NonceInv
    <2>1. \A r \in Requests : ~Working(reply[r])
      BY <1>5, <1>7 DEF Working
    <2>2. \A r \in Requests : reply[r].st = "Unsent"
      BY <1>5, <1>7
    <2> QED BY <2>1, <2>2 DEF NonceInv, WireInv, CountOk, SteadyInv, Steady, Pending, Init
  <1> QED BY <1>6, <1>8, <1>9 DEF IndInv

LEMMA Stepwise == IndInv /\ [Next]_vars => IndInv'
  BY TypeStep, FlightStep, NonceStep DEF IndInv

\* The invariant of the client is inductive: the queue holds exactly the replies that
\* wait, the current request is the one at work, and all pairs taken or written are different
\* while no nonce was taken again.
THEOREM ClientInductive == Spec => []IndInv
  BY Initially, Stepwise, PTL DEF Spec

\* The client's state stays in its types through sendEnvelope(), every socket slot,
\* callback and timer, and every setter.
THEOREM ClientTyped == Spec => []TypeOK
  <1>1. IndInv => TypeOK
    BY DEF IndInv
  <1> QED BY <1>1, ClientInductive, PTL

\* Serialised requests are single-flight, however sends, failures inside a start,
\* drains and changes of setSerializeRequests() interleave.
THEOREM OneAtATime == Spec => []SingleFlight
  <1>1. IndInv => SingleFlight
    BY DEF IndInv, FlightInv, FlightOk, CurrentOk, SingleFlight, InFlight, Working
  <1> QED BY <1>1, ClientInductive, PTL

\* A waiting reply always has a current request whose finished() slot will drain it.
THEOREM WaitingIsServed == Spec => []QueueServed
  <1>1. IndInv => QueueServed
    BY DEF IndInv, FlightInv, FlightOk, CurrentOk, QueueServed, InFlight, Working
  <1> QED BY <1>1, ClientInductive, PTL

\* An unfinished reply has its timeout armed or waits in the queue exactly once.
THEOREM NoneStranded == Spec => []NoReplyStranded
  <1>1. IndInv => NoReplyStranded
    <2> SUFFICES ASSUME IndInv, NEW r \in Requests, reply[r].st # "Unsent", ~reply[r].finished
                 PROVE  \/ InFlight(r) /\ reply[r].armed
                        \/ Cardinality({i \in 1..Len(queue) : queue[i] = r}) = 1
      BY DEF NoReplyStranded
    <2>1. ReplyOk(reply[r]) /\ QueueOk(reply, queue)
      BY DEF IndInv, FlightInv, FlightOk
    <2>2. CASE reply[r].st = "Idle"
      <3>1. PICK i \in 1..Len(queue) : queue[i] = r
        BY <2>1, <2>2 DEF QueueOk
      <3>2. {j \in 1..Len(queue) : queue[j] = r} = {i}
        BY <2>1, <3>1 DEF QueueOk
      <3> QED BY <3>2, FS_Singleton
    <2>3. CASE reply[r].st # "Idle"
      BY <2>1, <2>3 DEF ReplyOk, Working, InFlight
    <2> QED BY <2>2, <2>3
  <1> QED BY <1>1, ClientInductive, PTL

\* Through challenges, stale nonces, retries, drains, credentials and nonces the device
\* changes at any time, for replies in parallel and through the queue, no nonce count is
\* written twice under one nonce before a challenge has brought the client back to a
\* nonce it had already counted under and left; and never while requests are serialised
\* and every challenge has a nonce.
THEOREM CountsAreUnique == Spec => []NonceCountUnique
  <1>1. IndInv => NonceCountUnique
    BY DEF IndInv, NonceInv, CountOk, SteadyInv, NonceCountUnique
  <1> QED BY <1>1, ClientInductive, PTL

\* No late callback, timer, socket event or drain changes the outcome of a reply that
\* has finished.
THEOREM OutcomeStays == Spec => OutcomeIsFinal
  <1>1. IndInv /\ [Next]_vars =>
          [\A r \in Requests : reply[r].finished =>
             /\ reply'[r].finished
             /\ reply'[r].st = reply[r].st /\ reply'[r].err = reply[r].err]_vars
    BY EveryReply DEF IndInv
  <1> QED BY <1>1, ClientInductive, PTL DEF Spec, OutcomeIsFinal

-----------------------------------------------------------------------------
(***************************************************************************)
(* The parser of one response (WsmanResponse).  The invariant says where   *)
(* in the wire the parser is: p bytes of it are used up, the buffer and    *)
(* then the unread part follow.                                            *)
(***************************************************************************)

\* The wire behind its first p bytes is b and then r; the two header tokens are at
\* the places -1 and 0.
Flow(m, b, r, p) ==
    /\ b \in Seq(Token) /\ r \in Seq(Token) /\ p \in Int
    /\ p + Len(b) + Len(r) = Len(m.wire)
    /\ \A k \in 1..Len(b) : p + k > 0 => b[k] = m.wire[p + k]
    /\ \A k \in 1..Len(r) : p + Len(b) + k > 0 => r[k] = m.wire[p + Len(b) + k]

\* q is the start of the body the sender means.
Prefix(m, q) ==
    /\ q \in Seq(Token) /\ Len(q) <= Len(m.body)
    /\ \A k \in 1..Len(q) : q[k] = m.body[k]

\* The header block is not there yet.
HeadPlace(m, b, r, q, busy) ==
    /\ Flow(m, b, r, -2) /\ q = <<>>
    /\ ~busy => Len(b) < 2

\* Inside a body with a length.
LengthPlace(m, b, r, q, busy, expected) ==
    /\ m.mode = "Length" /\ expected = m.length /\ expected \in 0..MaxBody
    /\ Flow(m, b, r, Len(q))
    /\ ~busy => Len(q) < m.length /\ Len(b) = 0

\* Inside a body that goes on until the device closes.
ClosePlace(m, b, r, q, expected) ==
    m.mode = "ToClose" /\ expected = -2 /\ Flow(m, b, r, Len(q))

\* At the size line of chunk i.
SizePlace(m, b, r, q, busy, i) ==
    /\ m.mode = "Chunked" /\ i \in 1..Len(m.chunks)
    /\ Flow(m, b, r, m.chunks[i].at) /\ Len(q) = m.chunks[i].from
    /\ ~busy /\ m.valid => Len(b) < 3

\* Behind the size line of chunk i, with `left` bytes of its data to come, or at the
\* line end behind them.
DataPlace(m, b, r, q, busy, left, i) ==
    /\ m.mode = "Chunked" /\ i \in 1..(Len(m.chunks) - 1)
    /\ left \in 0..m.chunks[i].size
    /\ Len(q) = m.chunks[i].from + (m.chunks[i].size - left)
    /\ Flow(m, b, r, m.chunks[i].at + 3 + (m.chunks[i].size - left))
    /\ ~busy => Len(b) = 0 \/ (left = 0 /\ Len(b) < 2)

\* A response the parser must take.
Fair(m) == m.valid /\ m.mode # "ToClose" /\ Len(m.body) <= MaxBody

PlaceOk ==
    /\ st = "ReadingHeaders" => HeadPlace(msg, buffer, rest, body, parsing)
    /\ st = "BodyContentLength" =>
         \/ LengthPlace(msg, buffer, rest, body, parsing, expectedBody)
         \/ ClosePlace(msg, buffer, rest, body, expectedBody)
    /\ st = "BodyChunked" /\ readingSize =>
         \E i \in Nat : SizePlace(msg, buffer, rest, body, parsing, i)
    /\ st = "BodyChunked" /\ ~readingSize =>
         \E i \in Nat : DataPlace(msg, buffer, rest, body, parsing, remaining, i)

ResponseInv ==
    /\ msg \in MessageType /\ Fits(msg)
    /\ st \in {"ReadingHeaders", "BodyContentLength", "BodyChunked", "Done", "Failed"}
    /\ Prefix(msg, body) /\ Len(body) <= MaxBody
    /\ PlaceOk
    /\ st = "Done" => Len(body) = Len(msg.body)
    /\ st = "Failed" /\ Fair(msg) => Len(rest) > 0
    /\ ~Receiving => ~parsing
-----------------------------------------------------------------------------

(* Sequences.                                                              *)

LEMMA FromFields ==
    ASSUME NEW X, NEW s \in Seq(X), NEW d \in 0..Len(s)
    PROVE  /\ From(s, d + 1) \in Seq(X) /\ Len(From(s, d + 1)) = Len(s) - d
           /\ \A k \in 1..(Len(s) - d) : From(s, d + 1)[k] = s[d + k]
  <1> DEFINE u == SubSeq(s, d + 1, Len(s))
  <1>1. d + 1 \in 1..(Len(s) + 1) /\ Len(s) \in 0..Len(s) /\ Len(s) \in Nat /\ d \in Nat
    OBVIOUS
  <1>2. u \in Seq(X)
    <2>1. \A k \in (d + 1)..Len(s) : s[k] \in X
      OBVIOUS
    <2>2. /\ Len(u) = IF d + 1 <= Len(s) THEN Len(s) - (d + 1) + 1 ELSE 0
          /\ u \in Seq(X)
      BY <1>1, SubSeqProperties
    <2> QED BY <2>2
  <1>3. Len(u) = Len(s) - d
    BY <1>1, SubSeqProperties
  <1>4. \A k \in 1..(Len(s) - d) : u[k] = s[d + k]
    <2> SUFFICES ASSUME NEW k \in 1..(Len(s) - d)
                 PROVE  u[k] = s[d + k]
      OBVIOUS
    <2>1. k \in 1..Len(u) /\ (d + 1) + k - 1 = d + k
      BY <1>1, <1>3
    <2>2. u[k] = s[(d + 1) + k - 1]
      BY <1>1, <2>1, SubSeqProperties
    <2> QED BY <2>1, <2>2
  <1> QED BY <1>2, <1>3, <1>4 DEF From

LEMMA HeadFields ==
    ASSUME NEW X, NEW s \in Seq(X), NEW d \in 0..Len(s)
    PROVE  /\ SubSeq(s, 1, d) \in Seq(X) /\ Len(SubSeq(s, 1, d)) = d
           /\ \A k \in 1..d : SubSeq(s, 1, d)[k] = s[k]
  <1> DEFINE u == SubSeq(s, 1, d)
  <1>1. d \in Nat /\ 1 \in 1..(Len(s) + 1) /\ Len(s) \in Nat
    OBVIOUS
  <1>2. u \in Seq(X)
    BY <1>1, SubSeqProperties
  <1>3. Len(u) = d
    BY <1>1, SubSeqProperties
  <1>4. \A k \in 1..d : u[k] = s[k]
    <2> SUFFICES ASSUME NEW k \in 1..d
                 PROVE  u[k] = s[k]
      OBVIOUS
    <2>1. k \in 1..Len(u) /\ 1 + k - 1 = k
      BY <1>1, <1>3
    <2>2. u[k] = s[1 + k - 1]
      BY <1>1, <2>1, SubSeqProperties
    <2> QED BY <2>1, <2>2
  <1> QED BY <1>2, <1>3, <1>4

\* Reading from the socket moves bytes from the unread part to the buffer.
LEMMA FlowRead ==
    ASSUME NEW m \in MessageType, NEW b, NEW r, NEW p, Flow(m, b, r, p), NEW k \in 1..Len(r)
    PROVE  Flow(m, b \o SubSeq(r, 1, k), From(r, k + 1), p)
  <1> DEFINE h == SubSeq(r, 1, k)
             u == From(r, k + 1)
             c == b \o h
  <1>1. /\ b \in Seq(Token) /\ r \in Seq(Token) /\ p \in Int
        /\ p + Len(b) + Len(r) = Len(m.wire)
        /\ Len(b) \in Nat /\ Len(r) \in Nat /\ k \in Nat /\ k \in 0..Len(r) /\ k <= Len(r)
    BY DEF Flow
  <1>2. \A j \in 1..Len(b) : p + j > 0 => b[j] = m.wire[p + j]
    BY DEF Flow
  <1>3. \A j \in 1..Len(r) : p + Len(b) + j > 0 => r[j] = m.wire[p + Len(b) + j]
    BY DEF Flow
  <1>4. h \in Seq(Token) /\ Len(h) = k
    BY <1>1, HeadFields
  <1>5. \A j \in 1..k : h[j] = r[j]
    BY <1>1, HeadFields
  <1>6. u \in Seq(Token) /\ Len(u) = Len(r) - k
    BY <1>1, FromFields
  <1>7. \A j \in 1..(Len(r) - k) : u[j] = r[k + j]
    BY <1>1, FromFields
  <1> HIDE DEF h, u
  <1>8. c \in Seq(Token) /\ Len(c) = Len(b) + k
    <2>1. b \in Seq(Token) /\ h \in Seq(Token) /\ Len(h) = k
      BY <1>1, <1>4
    <2>2. c \in Seq(Token) /\ Len(c) = Len(b) + Len(h)
      BY <2>1, ConcatProperties
    <2> QED BY <2>1, <2>2
  <1>9. \A j \in 1..Len(c) : c[j] = IF j <= Len(b) THEN b[j] ELSE h[j - Len(b)]
    <2>1. \A j \in 1..(Len(b) + Len(h)) : c[j] = IF j <= Len(b) THEN b[j] ELSE h[j - Len(b)]
      BY <1>1, <1>4, ConcatProperties
    <2> QED BY <1>4, <1>8, <2>1
  <1> HIDE DEF c
  <1>10. p + Len(c) + Len(u) = Len(m.wire)
    <2> DEFINE lc == Len(c)
               lu == Len(u)
               lb == Len(b)
               lr == Len(r)
    <2>1. lc = lb + k /\ lu = lr - k /\ lb \in Nat /\ lr \in Nat /\ k \in Nat /\ p \in Int
      BY <1>1, <1>6, <1>8
    <2>2. p + lb + lr = Len(m.wire)
      BY <1>1
    <2> HIDE DEF lc, lu, lb, lr
    <2>3. p + lc + lu = p + lb + lr
      BY <2>1
    <2> QED BY <2>2, <2>3 DEF lc, lu
  <1>11. ASSUME NEW j \in 1..Len(c), p + j > 0
         PROVE  c[j] = m.wire[p + j]
    <2>1. CASE j <= Len(b)
      <3>1. j \in 1..Len(b)
        BY <1>1, <1>8, <2>1
      <3>2. c[j] = b[j]
        BY <1>9, <2>1
      <3> QED BY <1>2, <1>11, <3>1, <3>2
    <2>2. CASE ~(j <= Len(b))
      <3>1. j - Len(b) \in 1..k /\ j - Len(b) \in 1..Len(r) /\ p + Len(b) + (j - Len(b)) = p + j
        BY <1>1, <1>8, <1>11, <2>2
      <3>2. c[j] = r[j - Len(b)]
        BY <1>5, <1>9, <2>2, <3>1
      <3> QED BY <1>3, <1>11, <3>1, <3>2
    <2> QED BY <2>1, <2>2
  <1>12. ASSUME NEW j \in 1..Len(u), p + Len(c) + j > 0
         PROVE  u[j] = m.wire[p + Len(c) + j]
    <2>1. k + j \in 1..Len(r) /\ p + Len(b) + (k + j) = p + Len(c) + j /\ j \in 1..(Len(r) - k)
      BY <1>1, <1>6, <1>8
    <2>2. u[j] = r[k + j]
      BY <1>7, <2>1
    <2> QED BY <1>3, <1>12, <2>1, <2>2
  <1>13. Flow(m, c, u, p)
    BY <1>1, <1>6, <1>8, <1>10, <1>11, <1>12 DEF Flow
  <1> QED BY <1>13 DEF c, h, u

\* Dropping d bytes of the buffer uses them up.
LEMMA FlowSkip ==
    ASSUME NEW m \in MessageType, NEW b, NEW r, NEW p, Flow(m, b, r, p), NEW d \in 0..Len(b)
    PROVE  /\ Flow(m, From(b, d + 1), r, p + d)
           /\ Len(From(b, d + 1)) = Len(b) - d
  <1> DEFINE u == From(b, d + 1)
  <1>1. /\ b \in Seq(Token) /\ r \in Seq(Token) /\ p \in Int
        /\ p + Len(b) + Len(r) = Len(m.wire)
        /\ Len(b) \in Nat /\ Len(r) \in Nat /\ d \in Nat /\ d <= Len(b)
    BY DEF Flow
  <1>2. \A j \in 1..Len(b) : p + j > 0 => b[j] = m.wire[p + j]
    BY DEF Flow
  <1>3. \A j \in 1..Len(r) : p + Len(b) + j > 0 => r[j] = m.wire[p + Len(b) + j]
    BY DEF Flow
  <1>4. u \in Seq(Token) /\ Len(u) = Len(b) - d
    BY <1>1, FromFields
  <1>5. \A j \in 1..(Len(b) - d) : u[j] = b[d + j]
    BY <1>1, FromFields
  <1> HIDE DEF u
  <1>6. ASSUME NEW j \in 1..Len(u), p + d + j > 0
        PROVE  u[j] = m.wire[p + d + j]
    <2>1. d + j \in 1..Len(b) /\ p + (d + j) = p + d + j /\ j \in 1..(Len(b) - d)
      BY <1>1, <1>4
    <2> QED BY <1>2, <1>5, <1>6, <2>1
  <1>7. p + d + Len(u) + Len(r) = Len(m.wire) /\ p + d + Len(u) = p + Len(b) /\ p + d \in Int
    <2> DEFINE lu == Len(u)
               lb == Len(b)
    <2>1. lu = lb - d /\ lb \in Nat /\ d \in Nat /\ p \in Int
      BY <1>1, <1>4
    <2> HIDE DEF lu, lb
    <2>2. p + d + lu = p + lb /\ p + d \in Int
      BY <2>1
    <2> QED BY <1>1, <2>2 DEF lu, lb
  <1>8. Flow(m, u, r, p + d)
    BY <1>1, <1>3, <1>4, <1>6, <1>7 DEF Flow
  <1> QED BY <1>4, <1>8 DEF u

\* Taking t bytes of the buffer that are the next bytes of the body.
LEMMA BodyTake ==
    ASSUME NEW m \in MessageType, NEW q, Prefix(m, q), NEW b \in Seq(Token),
           NEW t \in 0..Len(b), Len(q) + t <= Len(m.body),
           \A k \in 1..t : b[k] = m.body[Len(q) + k]
    PROVE  /\ Prefix(m, q \o SubSeq(b, 1, t))
           /\ Len(q \o SubSeq(b, 1, t)) = Len(q) + t
  <1> DEFINE h == SubSeq(b, 1, t)
             c == q \o h
  <1>1. q \in Seq(Token) /\ Len(q) \in Nat /\ t \in Nat
    BY DEF Prefix
  <1>2. \A k \in 1..Len(q) : q[k] = m.body[k]
    BY DEF Prefix
  <1>3. h \in Seq(Token) /\ Len(h) = t
    BY HeadFields
  <1>4. \A k \in 1..t : h[k] = b[k]
    BY HeadFields
  <1> HIDE DEF h
  <1>5. c \in Seq(Token) /\ Len(c) = Len(q) + t
    BY <1>1, <1>3, ConcatProperties
  <1>6. \A k \in 1..Len(c) : c[k] = IF k <= Len(q) THEN q[k] ELSE h[k - Len(q)]
    BY <1>1, <1>3, ConcatProperties
  <1> HIDE DEF c
  <1>7. ASSUME NEW k \in 1..Len(c)
        PROVE  c[k] = m.body[k]
    <2>1. CASE k <= Len(q)
      BY <1>1, <1>2, <1>6, <2>1
    <2>2. CASE ~(k <= Len(q))
      <3>1. k - Len(q) \in 1..t /\ Len(q) + (k - Len(q)) = k
        BY <1>1, <1>5, <2>2
      <3> QED BY <1>4, <1>6, <2>2, <3>1
    <2> QED BY <2>1, <2>2
  <1>8. Prefix(m, c)
    BY <1>5, <1>7 DEF Prefix
  <1> QED BY <1>5, <1>8 DEF c, h
-----------------------------------------------------------------------------

(* What a place says of the next bytes.                                    *)

\* A chunk with data is not the last.
LEMMA ChunkOf ==
    ASSUME NEW m \in MessageType, Fits(m), m.mode = "Chunked", NEW i \in 1..(Len(m.chunks) - 1)
    PROVE  /\ m.chunks[i] \in ChunkType /\ m.chunks[i + 1] \in ChunkType
           /\ ChunkFits(m, m.chunks[i], m.chunks[i + 1])
           /\ m.chunks[i + 1].from <= Len(m.body)
  <1>1. m.chunks \in Seq(ChunkType) /\ Len(m.chunks) \in Nat
    BY DEF MessageType
  <1>2. i \in 1..Len(m.chunks) /\ i + 1 \in 1..Len(m.chunks)
    BY <1>1
  <1>3. m.chunks[i] \in ChunkType /\ m.chunks[i + 1] \in ChunkType
    BY <1>1, <1>2, ElementOfSeq
  <1>4. ChunksFit(m)
    BY DEF Fits
  <1> QED BY <1>2, <1>3, <1>4 DEF ChunksFit

LEMMA LastOf ==
    ASSUME NEW m \in MessageType, Fits(m), m.mode = "Chunked"
    PROVE  /\ Len(m.chunks) \in Nat /\ Len(m.chunks) > 0
           /\ m.chunks[Len(m.chunks)] \in ChunkType
           /\ LastFits(m, m.chunks[Len(m.chunks)])
           /\ m.chunks[1].at = 0 /\ m.chunks[1].from = 0
  <1>1. m.chunks \in Seq(ChunkType) /\ Len(m.chunks) \in Nat
    BY DEF MessageType
  <1>2. ChunksFit(m)
    BY DEF Fits
  <1>3. Len(m.chunks) > 0
    BY <1>2 DEF ChunksFit
  <1>4. m.chunks[Len(m.chunks)] \in ChunkType
    BY <1>1, <1>3, ElementOfSeq
  <1> QED BY <1>1, <1>2, <1>3, <1>4 DEF ChunksFit

\* A size line with a number.
GoodLine(m, c) == SizeLine(m, c) /\ c.size >= 0

\* Every size line is good, except the last of a message that is not valid.
LEMMA LineKinds ==
    ASSUME NEW m \in MessageType, Fits(m), m.mode = "Chunked", NEW i \in 1..Len(m.chunks)
    PROVE  /\ m.chunks[i] \in ChunkType
           /\ \/ GoodLine(m, m.chunks[i])
              \/ /\ ~m.valid
                 /\ m.chunks[i].at < Len(m.wire) =>
                      m.wire[m.chunks[i].at + 1].t # "size" \/ m.wire[m.chunks[i].at + 1].v < 0
           /\ i < Len(m.chunks) => m.chunks[i].size > 0 /\ GoodLine(m, m.chunks[i])
  <1>1. Len(m.chunks) \in Nat /\ m.chunks \in Seq(ChunkType)
    BY DEF MessageType
  <1>2. CASE i = Len(m.chunks)
    <2>1. m.chunks[i] \in ChunkType /\ LastFits(m, m.chunks[i])
      BY <1>2, LastOf
    <2>2. CASE SizeLine(m, m.chunks[i]) /\ m.chunks[i].size = 0
      BY <1>1, <1>2, <2>1, <2>2 DEF GoodLine
    <2>3. CASE /\ ~m.valid
               /\ m.chunks[i].at < Len(m.wire) =>
                    m.wire[m.chunks[i].at + 1].t # "size" \/ m.wire[m.chunks[i].at + 1].v < 0
      BY <1>1, <1>2, <2>1, <2>3
    <2> QED BY <2>1, <2>2, <2>3 DEF LastFits
  <1>3. CASE i # Len(m.chunks)
    <2>1. i \in 1..(Len(m.chunks) - 1)
      BY <1>1, <1>3
    <2>2. m.chunks[i] \in ChunkType /\ ChunkFits(m, m.chunks[i], m.chunks[i + 1])
      BY <2>1, ChunkOf
    <2>3. SizeLine(m, m.chunks[i]) /\ m.chunks[i].size > 0
      BY <2>2 DEF ChunkFits
    <2>4. m.chunks[i].size >= 0
      BY <2>2, <2>3 DEF ChunkType
    <2> QED BY <1>3, <2>2, <2>3, <2>4 DEF GoodLine
  <1> QED BY <1>2, <1>3

\* The parser waits for the end of a good size line, and reads the number once it has
\* the end.
LEMMA LineGood ==
    ASSUME msg \in MessageType, NEW c \in ChunkType, Flow(msg, buffer, rest, c.at), GoodLine(msg, c)
    PROVE  /\ Len(buffer) < 3 => LineEnds = {}
           /\ Len(buffer) >= 3 => LineEnds # {} /\ FirstEnd = 2 /\ LineSize = c.size
  <1>1. /\ buffer \in Seq(Token) /\ Len(buffer) \in Nat /\ c.at \in Nat /\ c.size \in Int
        /\ Size(c.size) # Cr /\ Size(c.size).t = "size" /\ Size(c.size).v = c.size
    BY DEF Flow, ChunkType, Size, Cr
  <1>2. \A k \in 1..Len(buffer) : buffer[k] = msg.wire[c.at + k]
    BY <1>1 DEF Flow
  <1>3. /\ msg.wire[c.at + 1] = Size(c.size) /\ msg.wire[c.at + 2] = Cr
        /\ msg.wire[c.at + 3] = Lf
    BY DEF GoodLine, SizeLine
  <1>4. 1 \notin LineEnds
    BY <1>1, <1>2, <1>3 DEF LineEnds
  <1>5. LineEnds \subseteq 1..(Len(buffer) - 1)
    BY DEF LineEnds
  <1>6. ASSUME Len(buffer) < 3 PROVE LineEnds = {}
    BY <1>1, <1>4, <1>5, <1>6
  <1>7. ASSUME Len(buffer) >= 3
        PROVE  LineEnds # {} /\ FirstEnd = 2 /\ LineSize = c.size
    <2>1. buffer[1] = Size(c.size) /\ buffer[2] = Cr /\ buffer[3] = Lf
      BY <1>1, <1>2, <1>3, <1>7
    <2>2. 2 \in LineEnds
      BY <1>1, <1>7, <2>1 DEF LineEnds
    <2>3. \A j \in LineEnds : 2 <= j
      BY <1>1, <1>4, <1>5
    <2>4. \A i \in LineEnds : (\A j \in LineEnds : i <= j) => i = 2
      BY <1>1, <1>5, <2>2, <2>3
    <2>5. FirstEnd = 2
      BY <2>2, <2>3, <2>4 DEF FirstEnd
    <2> QED BY <1>1, <2>1, <2>2, <2>5 DEF LineSize
  <1> QED BY <1>6, <1>7

\* A line without a number gives none, however it ends.
LEMMA LineBad ==
    ASSUME msg \in MessageType, NEW c \in ChunkType, Flow(msg, buffer, rest, c.at), LineEnds # {},
           c.at < Len(msg.wire) => msg.wire[c.at + 1].t # "size" \/ msg.wire[c.at + 1].v < 0
    PROVE  LineSize \in Int /\ LineSize < 0
  <1>1. buffer \in Seq(Token) /\ Len(buffer) \in Nat /\ rest \in Seq(Token) /\ Len(rest) \in Nat
        /\ c.at \in Nat
    BY DEF Flow, ChunkType
  <1>2. Len(buffer) >= 2
    BY <1>1 DEF LineEnds
  <1>3. c.at < Len(msg.wire)
    BY <1>1, <1>2 DEF Flow
  <1>4. buffer[1] = msg.wire[c.at + 1]
    BY <1>1, <1>2 DEF Flow
  <1>5. buffer[1].t = "size" => buffer[1].v < 0
    BY <1>3, <1>4
  <1>6. buffer[1].v \in Int
    <2>1. 1 \in 1..Len(buffer)
      BY <1>1, <1>2
    <2>2. buffer[1] \in Token
      BY <1>1, <2>1, ElementOfSeq
    <2> QED BY <2>2 DEF Token
  <1> QED BY <1>5, <1>6 DEF LineSize

\* A well-framed response is not over where the parser waits.
LEMMA MoreToCome ==
    ASSUME ResponseInv, Receiving, ~parsing, Fair(msg)
    PROVE  Len(rest) > 0
  <1>1. msg \in MessageType /\ Fits(msg) /\ PlaceOk /\ msg.valid /\ msg.mode # "ToClose"
    BY DEF ResponseInv, Fair
  <1>2. CASE st = "ReadingHeaders"
    <2>1. Flow(msg, buffer, rest, -2) /\ Len(buffer) < 2
      BY <1>1, <1>2 DEF PlaceOk, HeadPlace
    <2>2. msg.wire \in Seq(Token) /\ Len(msg.wire) \in Nat
      BY <1>1 DEF MessageType
    <2> QED BY <2>1, <2>2 DEF Flow
  <1>3. CASE st = "BodyContentLength"
    <2>1. LengthPlace(msg, buffer, rest, body, parsing, expectedBody)
      BY <1>1, <1>3 DEF PlaceOk, ClosePlace
    <2>2. /\ Flow(msg, buffer, rest, Len(body)) /\ Len(body) < msg.length /\ Len(buffer) = 0
          /\ LengthFits(msg)
      BY <1>1, <2>1 DEF LengthPlace, Fits
    <2>3. msg.length <= Len(msg.wire) /\ msg.length \in Int /\ Len(msg.wire) \in Nat
      BY <1>1, <2>2 DEF LengthFits, MessageType
    <2>4. Len(body) + Len(buffer) + Len(rest) = Len(msg.wire) /\ Len(rest) \in Nat /\ Len(body) \in Int
      BY <2>2 DEF Flow
    <2> QED BY <2>2, <2>3, <2>4
  <1>4. CASE st = "BodyChunked" /\ readingSize
    <2>1. PICK i \in Nat : SizePlace(msg, buffer, rest, body, parsing, i)
      BY <1>1, <1>4 DEF PlaceOk
    <2> DEFINE c == msg.chunks[i]
    <2>2. msg.mode = "Chunked" /\ i \in 1..Len(msg.chunks)
      BY <2>1 DEF SizePlace
    <2>3. Flow(msg, buffer, rest, c.at) /\ Len(buffer) < 3
      BY <1>1, <2>1 DEF SizePlace
    <2>4. c \in ChunkType /\ GoodLine(msg, c)
      BY <1>1, <2>2, LineKinds
    <2>5. c.at + 3 <= Len(msg.wire) /\ c.at \in Nat /\ Len(msg.wire) \in Nat
      BY <1>1, <2>4 DEF GoodLine, SizeLine, ChunkType, MessageType
    <2> HIDE DEF c
    <2>6. c.at + Len(buffer) + Len(rest) = Len(msg.wire) /\ Len(rest) \in Nat /\ Len(buffer) \in Nat
      BY <2>3 DEF Flow
    <2> QED BY <2>3, <2>5, <2>6
  <1>5. CASE st = "BodyChunked" /\ ~readingSize
    <2>1. PICK i \in Nat : DataPlace(msg, buffer, rest, body, parsing, remaining, i)
      BY <1>1, <1>5 DEF PlaceOk
    <2> DEFINE c == msg.chunks[i]
    <2>2. msg.mode = "Chunked" /\ i \in 1..(Len(msg.chunks) - 1)
      BY <2>1 DEF DataPlace
    <2>3. /\ Flow(msg, buffer, rest, c.at + 3 + (c.size - remaining)) /\ remaining \in 0..c.size
          /\ Len(buffer) = 0 \/ (remaining = 0 /\ Len(buffer) < 2)
      BY <2>1 DEF DataPlace
    <2>4. c \in ChunkType /\ ChunkFits(msg, c, msg.chunks[i + 1]) /\ msg.chunks[i + 1] \in ChunkType
      BY <1>1, <2>2, ChunkOf
    <2>5. c.at + c.size + 5 <= Len(msg.wire) /\ c.at \in Nat /\ c.size \in Int /\ Len(msg.wire) \in Nat
      BY <1>1, <2>4 DEF ChunkFits, ChunkType, MessageType
    <2> HIDE DEF c
    <2>6. /\ c.at + 3 + (c.size - remaining) + Len(buffer) + Len(rest) = Len(msg.wire)
          /\ Len(rest) \in Nat /\ Len(buffer) \in Nat
      BY <2>3 DEF Flow
    <2> DEFINE at == c.at
               size == c.size
               n == Len(buffer)
               more == Len(rest)
               all == Len(msg.wire)
    <2>7. /\ at + 3 + (size - remaining) + n + more = all /\ at + size + 5 <= all
          /\ at \in Nat /\ size \in Int /\ all \in Nat /\ more \in Nat /\ n \in Nat
          /\ remaining \in 0..size
      BY <2>3, <2>5, <2>6
    <2>8. n = 0 \/ (remaining = 0 /\ n < 2)
      BY <2>3
    <2> HIDE DEF at, size, n, more, all
    <2>9. more > 0
      BY <2>7, <2>8
    <2> QED BY <2>9 DEF more
  <1> QED BY <1>2, <1>3, <1>4, <1>5 DEF ResponseInv, Receiving

-----------------------------------------------------------------------------
(* The actions keep the invariant.                                         *)

LEMMA StartsInPlace == ResponseInit => ResponseInv
  <1> SUFFICES ASSUME ResponseInit
               PROVE  ResponseInv
    OBVIOUS
  <1>1. msg \in MessageType /\ Fits(msg) /\ MaxBody \in Nat
    BY ResponseAssumption DEF ResponseInit
  <1>2. st = "ReadingHeaders" /\ body = <<>> /\ buffer = <<>> /\ parsing = FALSE
    BY DEF ResponseInit
  <1>3. Prefix(msg, <<>>) /\ Len(<<>>) <= MaxBody
    <2>1. msg.body \in Seq(Token) /\ Len(msg.body) \in Nat
      BY <1>1 DEF MessageType
    <2> QED BY <1>1, <2>1 DEF Prefix
  <1>4. Flow(msg, buffer, rest, -2)
    <2> DEFINE h == <<Headers, Blank>>
               w == msg.wire
               u == h \o w
    <2>1. w \in Seq(Token) /\ Len(w) \in Nat
      BY <1>1 DEF MessageType
    <2>2. Headers \in Token /\ Blank \in Token
      BY DEF Headers, Blank, Token
    <2>3. h \in Seq(Token) /\ Len(h) = 2
      BY <2>2
    <2> HIDE DEF h, w
    <2>4. u \in Seq(Token) /\ Len(u) = Len(h) + Len(w)
      BY <2>1, <2>3, ConcatProperties
    <2>5. \A k \in 1..(Len(h) + Len(w)) : u[k] = IF k <= Len(h) THEN h[k] ELSE w[k - Len(h)]
      BY <2>1, <2>3, ConcatProperties
    <2>6. rest = u
      BY DEF ResponseInit, h, w
    <2> HIDE DEF u
    <2>7. ASSUME NEW k \in 1..Len(rest), -2 + Len(buffer) + k > 0
          PROVE  rest[k] = msg.wire[-2 + Len(buffer) + k]
      <3>1. Len(buffer) = 0 /\ k \in 1..(2 + Len(w)) /\ k > 2
        BY <1>2, <2>1, <2>3, <2>4, <2>6, <2>7
      <3>2. rest[k] = w[k - 2]
        BY <2>1, <2>3, <2>5, <2>6, <3>1
      <3>3. -2 + Len(buffer) + k = k - 2
        BY <3>1
      <3> QED BY <3>2, <3>3 DEF w
    <2>8. buffer \in Seq(Token) /\ Len(buffer) = 0 /\ rest \in Seq(Token)
      BY <1>2, <2>4, <2>6
    <2>9. -2 + Len(buffer) + Len(rest) = Len(msg.wire)
      <3>1. Len(rest) = 2 + Len(w)
        BY <2>1, <2>3, <2>4, <2>6
      <3> QED BY <2>1, <2>8, <3>1 DEF w
    <2> QED BY <2>7, <2>8, <2>9 DEF Flow
  <1>5. PlaceOk
    BY <1>2, <1>4 DEF PlaceOk, HeadPlace
  <1> QED BY <1>1, <1>2, <1>3, <1>5 DEF ResponseInv, Receiving

LEMMA ReadKeepsPlace == ResponseInv /\ ReadyRead => ResponseInv'
  <1> SUFFICES ASSUME ResponseInv, ReadyRead
               PROVE  ResponseInv'
    OBVIOUS
  <1>1. msg \in MessageType /\ PlaceOk
    BY DEF ResponseInv
  <1>2. PICK k \in 1..Len(rest) : buffer' = buffer \o SubSeq(rest, 1, k) /\ rest' = From(rest, k + 1)
    BY DEF ReadyRead
  <1>3. /\ parsing' = TRUE /\ msg' = msg /\ st' = st /\ body' = body /\ expectedBody' = expectedBody
        /\ remaining' = remaining /\ readingSize' = readingSize
    BY DEF ReadyRead
  <1>4. \A p : Flow(msg, buffer, rest, p) => Flow(msg, buffer', rest', p)
    BY <1>1, <1>2, FlowRead
  <1>5. st = "ReadingHeaders" => HeadPlace(msg, buffer', rest', body, TRUE)
    BY <1>1, <1>4 DEF PlaceOk, HeadPlace
  <1>6. st = "BodyContentLength" =>
          \/ LengthPlace(msg, buffer', rest', body, TRUE, expectedBody)
          \/ ClosePlace(msg, buffer', rest', body, expectedBody)
    BY <1>1, <1>4 DEF PlaceOk, LengthPlace, ClosePlace
  <1>7. ASSUME st = "BodyChunked", readingSize
        PROVE  \E i \in Nat : SizePlace(msg, buffer', rest', body, TRUE, i)
    <2>1. PICK i \in Nat : SizePlace(msg, buffer, rest, body, parsing, i)
      BY <1>1, <1>7 DEF PlaceOk
    <2>2. SizePlace(msg, buffer', rest', body, TRUE, i)
      BY <1>4, <2>1 DEF SizePlace
    <2> QED BY <2>2
  <1>8. ASSUME st = "BodyChunked", ~readingSize
        PROVE  \E i \in Nat : DataPlace(msg, buffer', rest', body, TRUE, remaining, i)
    <2>1. PICK i \in Nat : DataPlace(msg, buffer, rest, body, parsing, remaining, i)
      BY <1>1, <1>8 DEF PlaceOk
    <2>2. DataPlace(msg, buffer', rest', body, TRUE, remaining, i)
      BY <1>4, <2>1 DEF DataPlace
    <2> QED BY <2>2
  <1>9. PlaceOk'
    BY <1>3, <1>5, <1>6, <1>7, <1>8 DEF PlaceOk
  <1>10. Receiving /\ Receiving'
    BY <1>3 DEF ReadyRead, Receiving
  <1> QED BY <1>3, <1>9, <1>10 DEF ResponseInv, Receiving

LEMMA ClosedKeepsPlace == ResponseInv /\ RemoteClosed => ResponseInv'
  <1> SUFFICES ASSUME ResponseInv, RemoteClosed
               PROVE  ResponseInv'
    OBVIOUS
  <1>1. Receiving /\ ~parsing
    BY DEF RemoteClosed
  <1>2. /\ st' = "Failed" /\ msg' = msg /\ rest' = rest /\ body' = body /\ parsing' = parsing
    BY DEF RemoteClosed
  <1>3. Fair(msg) => Len(rest) > 0
    BY <1>1, MoreToCome
  <1>4. PlaceOk'
    BY <1>2 DEF PlaceOk
  <1> QED BY <1>1, <1>2, <1>3, <1>4 DEF ResponseInv, Receiving

LEMMA HeadersKeepPlace == ResponseInv /\ ParseHeaders => ResponseInv'
  <1> SUFFICES ASSUME ResponseInv, ParseHeaders
               PROVE  ResponseInv'
    OBVIOUS
  <1>1. msg \in MessageType /\ Fits(msg) /\ Prefix(msg, body) /\ Len(body) <= MaxBody
    BY DEF ResponseInv
  <1>2. /\ st = "ReadingHeaders" /\ parsing
        /\ msg' = msg /\ rest' = rest /\ body' = body
    BY DEF ParseHeaders
  <1>3. Flow(msg, buffer, rest, -2) /\ body = <<>> /\ Len(body) = 0
    BY <1>2 DEF ResponseInv, PlaceOk, HeadPlace
  <1>4. CASE Len(buffer) < 2 /\ parsing' = FALSE /\ st' = st /\ buffer' = buffer
    <2>1. PlaceOk'
      BY <1>2, <1>3, <1>4 DEF PlaceOk, HeadPlace
    <2> QED BY <1>1, <1>2, <1>4, <2>1 DEF ResponseInv, Receiving
  <1>5. ASSUME Len(buffer) >= 2, buffer' = From(buffer, 3)
        PROVE  Flow(msg, buffer', rest, 0)
    <2>1. Len(buffer) \in Nat /\ 2 \in 0..Len(buffer) /\ 2 + 1 = 3 /\ -2 + 2 = 0
      BY <1>3, <1>5 DEF Flow
    <2>2. Flow(msg, From(buffer, 2 + 1), rest, -2 + 2)
      BY <1>1, <1>3, <2>1, FlowSkip
    <2> QED BY <1>5, <2>1, <2>2
  <1>6. CASE /\ Len(buffer) >= 2 /\ buffer' = From(buffer, 3) /\ msg.mode = "Chunked"
             /\ st' = "BodyChunked" /\ readingSize' = TRUE /\ parsing' = parsing
    <2>1. /\ Len(msg.chunks) \in Nat /\ 1 \in 1..Len(msg.chunks)
          /\ msg.chunks[1].at = 0 /\ msg.chunks[1].from = 0
      BY <1>1, <1>6, LastOf
    <2>2. SizePlace(msg, buffer', rest, body, TRUE, 1)
      BY <1>3, <1>5, <1>6, <2>1 DEF SizePlace
    <2>3. PlaceOk'
      BY <1>2, <1>6, <2>2 DEF PlaceOk
    <2> QED BY <1>1, <1>2, <1>6, <2>3 DEF ResponseInv, Receiving
  <1>7. CASE /\ Len(buffer) >= 2 /\ buffer' = From(buffer, 3) /\ msg.mode = "Length"
             /\ expectedBody' = msg.length
             /\ IF msg.length < 0 \/ msg.length > MaxBody
                THEN EndReply("Failed")
                ELSE st' = "BodyContentLength" /\ parsing' = parsing
    <2>1. LengthFits(msg) /\ msg.length \in Int /\ MaxBody \in Nat
      BY <1>1, <1>7, ResponseAssumption DEF Fits, MessageType
    <2>2. CASE msg.length < 0 \/ msg.length > MaxBody
      <3>1. ~Fair(msg)
        BY <2>1, <2>2 DEF Fair, LengthFits
      <3>2. st' = "Failed" /\ parsing' = FALSE
        BY <1>7, <2>2 DEF EndReply
      <3>3. PlaceOk'
        BY <3>2 DEF PlaceOk
      <3> QED BY <1>1, <1>2, <3>1, <3>2, <3>3 DEF ResponseInv, Receiving
    <2>3. CASE ~(msg.length < 0 \/ msg.length > MaxBody)
      <3>1. st' = "BodyContentLength" /\ parsing' = parsing /\ msg.length \in 0..MaxBody
        BY <1>7, <2>1, <2>3
      <3>2. LengthPlace(msg, buffer', rest, body, TRUE, msg.length)
        BY <1>3, <1>5, <1>7, <3>1 DEF LengthPlace
      <3>3. PlaceOk'
        BY <1>2, <1>7, <3>1, <3>2 DEF PlaceOk
      <3> QED BY <1>1, <1>2, <3>1, <3>3 DEF ResponseInv, Receiving
    <2> QED BY <2>2, <2>3
  <1>8. CASE /\ Len(buffer) >= 2 /\ buffer' = From(buffer, 3) /\ msg.mode = "ToClose"
             /\ st' = "BodyContentLength" /\ expectedBody' = -2 /\ parsing' = parsing
    <2>1. ClosePlace(msg, buffer', rest, body, -2)
      BY <1>3, <1>5, <1>8 DEF ClosePlace
    <2>2. PlaceOk'
      BY <1>2, <1>8, <2>1 DEF PlaceOk
    <2> QED BY <1>1, <1>2, <1>8, <2>2 DEF ResponseInv, Receiving
  <1> QED BY <1>4, <1>6, <1>7, <1>8 DEF ParseHeaders

LEMMA LengthKeepsPlace == ResponseInv /\ ParseLength => ResponseInv'
  <1> SUFFICES ASSUME ResponseInv, ParseLength
               PROVE  ResponseInv'
    OBVIOUS
  <1> DEFINE need == expectedBody - Len(body)
             take == Smaller(need, Len(buffer))
  <1>1. msg \in MessageType /\ Fits(msg) /\ Prefix(msg, body) /\ Len(body) <= MaxBody
    BY DEF ResponseInv
  <1>2. /\ st = "BodyContentLength" /\ parsing /\ expectedBody # -2
        /\ msg' = msg /\ rest' = rest /\ expectedBody' = expectedBody
    BY DEF ParseLength
  <1>3. body' = body \o SubSeq(buffer, 1, take) /\ buffer' = From(buffer, take + 1)
    BY DEF ParseLength
  <1>4. IF need <= 0 \/ Len(body) + take >= expectedBody
        THEN st' = "Done" /\ parsing' = FALSE
        ELSE parsing' = FALSE /\ st' = st
    BY DEF ParseLength, EndReply
  <1>5. LengthPlace(msg, buffer, rest, body, parsing, expectedBody)
    BY <1>2 DEF ResponseInv, PlaceOk, ClosePlace
  <1>6. /\ msg.mode = "Length" /\ expectedBody = msg.length /\ msg.length \in 0..MaxBody
        /\ Flow(msg, buffer, rest, Len(body)) /\ MaxBody \in Nat
    BY <1>5, ResponseAssumption DEF LengthPlace
  <1>7. LengthFits(msg)
    BY <1>1, <1>6 DEF Fits
  <1>8. /\ Len(msg.body) = msg.length /\ Len(body) <= msg.length
        /\ Len(body) \in Nat /\ Len(buffer) \in Nat /\ Len(rest) \in Nat /\ msg.length \in Nat
        /\ buffer \in Seq(Token)
    BY <1>1, <1>6, <1>7 DEF LengthFits, Prefix, Flow
  <1>9. /\ take \in 0..Len(buffer) /\ take \in Nat /\ Len(body) + take <= msg.length
        /\ Len(body) + take < msg.length => take = Len(buffer)
        /\ need <= 0 => Len(body) + take >= msg.length
    BY <1>6, <1>8 DEF Smaller
  <1> HIDE DEF take
  <1>10. \A k \in 1..take : buffer[k] = msg.body[Len(body) + k]
    <2> SUFFICES ASSUME NEW k \in 1..take
                 PROVE  buffer[k] = msg.body[Len(body) + k]
      OBVIOUS
    <2>1. k \in 1..Len(buffer) /\ Len(body) + k > 0 /\ Len(body) + k \in 1..Len(msg.body)
      BY <1>8, <1>9
    <2>2. buffer[k] = msg.wire[Len(body) + k]
      BY <1>6, <2>1 DEF Flow
    <2>3. Len(body) + k <= Len(msg.wire)
      <3>1. Len(body) + Len(buffer) + Len(rest) = Len(msg.wire)
        BY <1>6 DEF Flow
      <3> QED BY <1>8, <2>1, <3>1
    <2> QED BY <1>7, <2>1, <2>2, <2>3 DEF LengthFits
  <1>11. Prefix(msg, body') /\ Len(body') = Len(body) + take
    BY <1>1, <1>3, <1>8, <1>9, <1>10, BodyTake
  <1>12. Flow(msg, buffer', rest, Len(body) + take) /\ Len(buffer') = Len(buffer) - take
    BY <1>1, <1>3, <1>6, <1>9, FlowSkip
  <1>13. Len(body') <= MaxBody
    BY <1>6, <1>8, <1>9, <1>11
  <1>14. CASE need <= 0 \/ Len(body) + take >= expectedBody
    <2>1. st' = "Done" /\ parsing' = FALSE
      BY <1>4, <1>14
    <2>2. Len(body') = Len(msg.body)
      BY <1>6, <1>8, <1>9, <1>11, <1>14
    <2>3. PlaceOk'
      BY <2>1 DEF PlaceOk
    <2> QED BY <1>1, <1>2, <1>11, <1>13, <2>1, <2>2, <2>3 DEF ResponseInv, Receiving
  <1>15. CASE ~(need <= 0 \/ Len(body) + take >= expectedBody)
    <2>1. st' = st /\ parsing' = FALSE
      BY <1>4, <1>15
    <2>2. Len(body') < msg.length /\ Len(buffer') = 0
      BY <1>6, <1>8, <1>9, <1>11, <1>12, <1>15
    <2>3. LengthPlace(msg, buffer', rest, body', FALSE, expectedBody)
      BY <1>6, <1>11, <1>12, <2>2 DEF LengthPlace
    <2>4. PlaceOk'
      BY <1>2, <2>1, <2>3 DEF PlaceOk
    <2> QED BY <1>1, <1>2, <1>11, <1>13, <2>1, <2>4 DEF ResponseInv, Receiving
  <1> QED BY <1>14, <1>15

LEMMA ToCloseKeepsPlace == ResponseInv /\ ParseToClose => ResponseInv'
  <1> SUFFICES ASSUME ResponseInv, ParseToClose
               PROVE  ResponseInv'
    OBVIOUS
  <1>1. msg \in MessageType /\ Fits(msg) /\ Prefix(msg, body) /\ Len(body) <= MaxBody
    BY DEF ResponseInv
  <1>2. /\ st = "BodyContentLength" /\ parsing /\ expectedBody = -2
        /\ msg' = msg /\ rest' = rest /\ expectedBody' = expectedBody
    BY DEF ParseToClose
  <1>3. MaxBody \in Nat
    BY ResponseAssumption
  <1>4. msg.mode = "ToClose" /\ Flow(msg, buffer, rest, Len(body))
    BY <1>2, <1>3 DEF ResponseInv, PlaceOk, ClosePlace, LengthPlace
  <1>5. CASE Len(body) + Len(buffer) > MaxBody
    <2>1. st' = "Failed" /\ parsing' = FALSE /\ body' = body
      BY <1>5 DEF ParseToClose, EndReply
    <2>2. PlaceOk'
      BY <2>1 DEF PlaceOk
    <2>3. ~Fair(msg)
      BY <1>4 DEF Fair
    <2> QED BY <1>1, <1>2, <2>1, <2>2, <2>3 DEF ResponseInv, Receiving
  <1>6. CASE ~(Len(body) + Len(buffer) > MaxBody)
    <2> DEFINE n == Len(buffer)
    <2>1. /\ body' = body \o buffer /\ buffer' = <<>> /\ parsing' = FALSE /\ st' = st
      BY <1>6 DEF ParseToClose
    <2>2. /\ buffer \in Seq(Token) /\ n \in Nat /\ n \in 0..Len(buffer) /\ Len(rest) \in Nat
          /\ Len(body) \in Nat /\ Len(body) + n + Len(rest) = Len(msg.wire)
          /\ msg.wire = msg.body
      BY <1>1, <1>4 DEF Flow, Prefix, Fits
    <2>3. \A k \in 1..n : buffer[k] = msg.body[Len(body) + k]
      BY <1>4, <2>2 DEF Flow
    <2>4. SubSeq(buffer, 1, n) = buffer
      <3>1. SubSeq(buffer, 1, n) \in Seq(Token) /\ Len(SubSeq(buffer, 1, n)) = n
        BY <2>2, HeadFields
      <3>2. \A k \in 1..n : SubSeq(buffer, 1, n)[k] = buffer[k]
        BY <2>2, HeadFields
      <3> QED BY <2>2, <3>1, <3>2, SeqEqual
    <2>5. Len(body) + n <= Len(msg.body)
      BY <2>2
    <2>6. Prefix(msg, body \o SubSeq(buffer, 1, n)) /\ Len(body \o SubSeq(buffer, 1, n)) = Len(body) + n
      BY <1>1, <2>2, <2>3, <2>5, BodyTake
    <2>7. Prefix(msg, body') /\ Len(body') = Len(body) + n
      BY <2>1, <2>4, <2>6
    <2>8. Flow(msg, From(buffer, n + 1), rest, Len(body) + n) /\ Len(From(buffer, n + 1)) = 0
      <3>1. n \in 0..Len(buffer) /\ Len(buffer) - n = 0
        BY <2>2
      <3>2. Flow(msg, buffer, rest, Len(body))
        BY <1>4
      <3> HIDE DEF n
      <3>3. Flow(msg, From(buffer, n + 1), rest, Len(body) + n)
        BY <1>1, <3>1, <3>2, FlowSkip
      <3>4. Len(From(buffer, n + 1)) = Len(buffer) - n
        BY <2>2, <3>1, FromFields
      <3> QED BY <3>1, <3>3, <3>4
    <2>9. From(buffer, n + 1) = <<>>
      <3>1. From(buffer, n + 1) \in Seq(Token) /\ Len(From(buffer, n + 1)) = 0
        BY <2>2, <2>8 DEF Flow
      <3> QED BY <3>1, EmptySeq
    <2>10. Flow(msg, buffer', rest, Len(body'))
      BY <2>1, <2>7, <2>8, <2>9
    <2>11. PlaceOk'
      BY <1>2, <1>4, <2>1, <2>10 DEF PlaceOk, ClosePlace
    <2>12. Len(body') <= MaxBody
      BY <1>3, <1>6, <2>2, <2>7
    <2> QED BY <1>1, <1>2, <2>1, <2>7, <2>11, <2>12 DEF ResponseInv, Receiving
  <1> QED BY <1>5, <1>6

LEMMA SizeKeepsPlace == ResponseInv /\ ParseChunkSize => ResponseInv'
  <1> SUFFICES ASSUME ResponseInv, ParseChunkSize
               PROVE  ResponseInv'
    OBVIOUS
  <1>1. msg \in MessageType /\ Fits(msg) /\ Prefix(msg, body) /\ Len(body) <= MaxBody
    BY DEF ResponseInv
  <1>2. /\ st = "BodyChunked" /\ parsing /\ readingSize
        /\ msg' = msg /\ rest' = rest /\ body' = body
    BY DEF ParseChunkSize
  <1>3. PICK i \in Nat : SizePlace(msg, buffer, rest, body, parsing, i)
    BY <1>2 DEF ResponseInv, PlaceOk
  <1> DEFINE c == msg.chunks[i]
  <1>4. /\ msg.mode = "Chunked" /\ i \in 1..Len(msg.chunks)
        /\ Flow(msg, buffer, rest, c.at) /\ Len(body) = c.from
    BY <1>3 DEF SizePlace
  <1>5. /\ c \in ChunkType /\ Len(msg.chunks) \in Nat
        /\ i < Len(msg.chunks) => c.size > 0 /\ GoodLine(msg, c)
    BY <1>1, <1>4, LineKinds, LastOf
  <1>6. i = Len(msg.chunks) => LastFits(msg, c)
    BY <1>1, <1>4, LastOf
  <1>7. \/ GoodLine(msg, c)
        \/ /\ ~msg.valid
           /\ c.at < Len(msg.wire) => msg.wire[c.at + 1].t # "size" \/ msg.wire[c.at + 1].v < 0
    BY <1>1, <1>4, LineKinds
  <1>8. Len(buffer) \in Nat /\ c.at \in Nat /\ c.from \in Nat /\ c.size \in Int
    BY <1>4, <1>5 DEF Flow, ChunkType
  <1> HIDE DEF c
  <1>9. CASE ~GoodLine(msg, c)
    <2>1. ~msg.valid
      BY <1>7, <1>9
    <2>2. ~Fair(msg)
      BY <2>1 DEF Fair
    <2>3. CASE LineEnds = {}
      <3>1. parsing' = FALSE /\ st' = st /\ buffer' = buffer /\ readingSize' = readingSize
        BY <2>3 DEF ParseChunkSize
      <3>2. SizePlace(msg, buffer, rest, body, FALSE, i)
        BY <1>4, <2>1 DEF SizePlace, c
      <3>3. PlaceOk'
        BY <1>2, <3>1, <3>2 DEF PlaceOk
      <3> QED BY <1>1, <1>2, <3>1, <3>3 DEF ResponseInv, Receiving
    <2>4. CASE LineEnds # {}
      <3>1. LineSize \in Int /\ LineSize < 0
        BY <1>1, <1>4, <1>5, <1>7, <1>9, <2>4, LineBad
      <3>2. st' = "Failed" /\ parsing' = FALSE
        <4>1. ~(LineSize = 0) /\ ~(LineSize > 0)
          BY <3>1
        <4> QED BY <2>4, <4>1 DEF ParseChunkSize, EndReply
      <3>3. PlaceOk'
        BY <3>2 DEF PlaceOk
      <3> QED BY <1>1, <1>2, <2>2, <3>2, <3>3 DEF ResponseInv, Receiving
    <2> QED BY <2>3, <2>4
  <1>10. CASE GoodLine(msg, c) /\ Len(buffer) < 3
    <2>1. LineEnds = {}
      BY <1>1, <1>4, <1>5, <1>10, LineGood
    <2>2. parsing' = FALSE /\ st' = st /\ buffer' = buffer /\ readingSize' = readingSize
      BY <2>1 DEF ParseChunkSize
    <2>3. SizePlace(msg, buffer, rest, body, FALSE, i)
      BY <1>4, <1>10 DEF SizePlace, c
    <2>4. PlaceOk'
      BY <1>2, <2>2, <2>3 DEF PlaceOk
    <2> QED BY <1>1, <1>2, <2>2, <2>4 DEF ResponseInv, Receiving
  <1>11. CASE GoodLine(msg, c) /\ Len(buffer) >= 3
    <2>1. LineEnds # {} /\ FirstEnd = 2 /\ LineSize = c.size /\ c.size >= 0
      BY <1>1, <1>4, <1>5, <1>11, LineGood DEF GoodLine
    <2>2. buffer' = From(buffer, FirstEnd + 2)
      BY <2>1 DEF ParseChunkSize
    <2>3. remaining' = c.size
      <3>1. remaining' = IF LineSize < 0 THEN remaining ELSE LineSize
        BY <2>1 DEF ParseChunkSize
      <3> QED BY <1>8, <2>1, <3>1
    <2>4. CASE c.size = 0
      <3>1. st' = "Done" /\ parsing' = FALSE
        <4>1. LineSize = 0 /\ ~(LineSize < 0) /\ ~(LineSize > 0)
          BY <1>8, <2>1, <2>4
        <4> QED BY <2>1, <4>1 DEF ParseChunkSize, EndReply
      <3>2. i = Len(msg.chunks)
        BY <1>4, <1>5, <2>4
      <3>3. c.from = Len(msg.body)
        <4>1. CASE SizeLine(msg, c) /\ c.size = 0 /\ c.from = Len(msg.body)
          BY <4>1
        <4>2. CASE c.at < Len(msg.wire) => msg.wire[c.at + 1].t # "size" \/ msg.wire[c.at + 1].v < 0
          <5>1. c.at + 3 <= Len(msg.wire) /\ msg.wire[c.at + 1] = Size(c.size) /\ Len(msg.wire) \in Nat
            BY <1>1, <1>11 DEF GoodLine, SizeLine, MessageType
          <5>2. Size(c.size).t = "size" /\ Size(c.size).v = 0
            BY <2>4 DEF Size
          <5> QED BY <1>8, <4>2, <5>1, <5>2
        <4> QED BY <1>6, <3>2, <4>1, <4>2 DEF LastFits
      <3>4. PlaceOk'
        BY <3>1 DEF PlaceOk
      <3> QED BY <1>1, <1>2, <1>4, <3>1, <3>3, <3>4 DEF ResponseInv, Receiving
    <2>5. CASE c.size > 0
      <3>1. st' = st /\ parsing' = parsing /\ readingSize' = FALSE
        <4>1. ~(LineSize = 0) /\ ~(LineSize < 0)
          BY <1>8, <2>1, <2>5
        <4> QED BY <2>1, <4>1 DEF ParseChunkSize
      <3>2. i # Len(msg.chunks)
        <4>1. SUFFICES ASSUME i = Len(msg.chunks)
                       PROVE  FALSE
          OBVIOUS
        <4>2. c.at < Len(msg.wire) => msg.wire[c.at + 1].t # "size" \/ msg.wire[c.at + 1].v < 0
          BY <1>6, <1>8, <2>5, <4>1 DEF LastFits
        <4>3. c.at + 3 <= Len(msg.wire) /\ msg.wire[c.at + 1] = Size(c.size) /\ Len(msg.wire) \in Nat
          BY <1>1, <1>11 DEF GoodLine, SizeLine, MessageType
        <4>4. Size(c.size).t = "size" /\ Size(c.size).v = c.size
          BY DEF Size
        <4> QED BY <1>8, <2>5, <4>2, <4>3, <4>4
      <3>3. i \in 1..(Len(msg.chunks) - 1)
        BY <1>4, <1>5, <3>2
      <3>4. 3 \in 0..Len(buffer) /\ 3 + 1 = FirstEnd + 2
        BY <1>8, <1>11, <2>1
      <3>5. Flow(msg, From(buffer, 3 + 1), rest, c.at + 3)
        BY <1>1, <1>4, <3>4, FlowSkip
      <3>6. Flow(msg, buffer', rest, c.at + 3)
        BY <2>2, <3>4, <3>5
      <3>7. /\ c.at + 3 + (c.size - c.size) = c.at + 3 /\ c.from + (c.size - c.size) = c.from
            /\ c.size \in 0..c.size
        BY <1>8, <2>5
      <3>8. DataPlace(msg, buffer', rest, body, TRUE, c.size, i)
        BY <1>4, <3>3, <3>6, <3>7 DEF DataPlace, c
      <3>9. PlaceOk'
        BY <1>2, <2>3, <3>1, <3>8 DEF PlaceOk
      <3> QED BY <1>1, <1>2, <3>1, <3>9 DEF ResponseInv, Receiving
    <2> QED BY <1>8, <2>1, <2>4, <2>5
  <1> QED BY <1>8, <1>9, <1>10, <1>11

LEMMA DataKeepsPlace == ResponseInv /\ ParseChunkData => ResponseInv'
  <1> SUFFICES ASSUME ResponseInv, ParseChunkData
               PROVE  ResponseInv'
    OBVIOUS
  <1>1. msg \in MessageType /\ Fits(msg) /\ Prefix(msg, body) /\ Len(body) <= MaxBody /\ MaxBody \in Nat
    BY ResponseAssumption DEF ResponseInv
  <1>2. /\ st = "BodyChunked" /\ parsing /\ ~readingSize
        /\ msg' = msg /\ rest' = rest
    BY DEF ParseChunkData
  <1>3. PICK i \in Nat : DataPlace(msg, buffer, rest, body, parsing, remaining, i)
    BY <1>2 DEF ResponseInv, PlaceOk
  <1> DEFINE c == msg.chunks[i]
             next == msg.chunks[i + 1]
  <1>4. /\ msg.mode = "Chunked" /\ i \in 1..(Len(msg.chunks) - 1)
        /\ remaining \in 0..c.size /\ Len(body) = c.from + (c.size - remaining)
        /\ Flow(msg, buffer, rest, c.at + 3 + (c.size - remaining))
    BY <1>3 DEF DataPlace
  <1>5. /\ c \in ChunkType /\ next \in ChunkType /\ ChunkFits(msg, c, next)
        /\ next.from <= Len(msg.body)
    BY <1>1, <1>4, ChunkOf
  <1> HIDE DEF c, next
  <1> DEFINE at == c.at
             from == c.from
             size == c.size
             p == at + 3 + (size - remaining)
             n == Len(buffer)
             have == Len(body)
             take == Take
  <1>6. /\ at \in Nat /\ from \in Nat /\ size \in Nat /\ size > 0
        /\ next.at = at + size + 5 /\ next.from = from + size
    <2>1. at \in Nat /\ from \in Nat /\ size \in Int
      BY <1>5 DEF ChunkType
    <2>2. size > 0 /\ next.at = at + size + 5 /\ next.from = from + size
      BY <1>5 DEF ChunkFits
    <2> QED BY <2>1, <2>2
  <1>7. \A k \in 1..size : msg.wire[at + 3 + k] = msg.body[from + k]
    BY <1>5 DEF ChunkFits
  <1>8. buffer \in Seq(Token) /\ n \in Nat /\ have \in Nat
    BY <1>1, <1>4 DEF Flow, Prefix
  <1>9. \A k \in 1..n : p + k > 0 => buffer[k] = msg.wire[p + k]
    BY <1>4 DEF Flow
  <1>10. remaining \in 0..size /\ have = from + (size - remaining) /\ Flow(msg, buffer, rest, p)
    BY <1>4
  <1>11. from + size <= Len(msg.body) /\ Len(msg.body) \in Nat
    BY <1>1, <1>5, <1>6 DEF MessageType
  <1> HIDE DEF at, from, size
  <1>12. take = IF remaining <= n THEN remaining ELSE n
    BY DEF Take, Smaller
  <1> HIDE DEF n, have, take
  <1>13. /\ take \in 0..n /\ take \in 0..remaining /\ take \in Nat /\ remaining \in Nat
         /\ take = remaining \/ take = n
    BY <1>6, <1>8, <1>10, <1>12
  <1>14. have + take <= from + size
    BY <1>6, <1>8, <1>10, <1>13
  <1>15. have + take <= Len(msg.body)
    BY <1>6, <1>8, <1>11, <1>13, <1>14
  <1>16. \A k \in 1..take : buffer[k] = msg.body[have + k]
    <2> SUFFICES ASSUME NEW k \in 1..take
                 PROVE  buffer[k] = msg.body[have + k]
      OBVIOUS
    <2> DEFINE o == (size - remaining) + k
    <2>1. /\ k \in 1..n /\ p + k > 0 /\ o \in 1..size
          /\ at + 3 + o = p + k /\ from + o = have + k
      BY <1>6, <1>8, <1>10, <1>13
    <2> HIDE DEF p, o
    <2> QED BY <1>7, <1>9, <2>1
  <1>17. CASE buffer = <<>>
    <2>1. parsing' = FALSE /\ st' = st /\ buffer' = buffer /\ body' = body
          /\ remaining' = remaining /\ readingSize' = readingSize
      BY <1>17 DEF ParseChunkData
    <2>2. Len(buffer) = 0
      BY <1>17
    <2>3. DataPlace(msg, buffer, rest, body, FALSE, remaining, i)
      BY <1>3, <2>2 DEF DataPlace
    <2>4. PlaceOk'
      BY <1>2, <2>1, <2>3 DEF PlaceOk
    <2> QED BY <1>1, <1>2, <2>1, <2>4 DEF ResponseInv, Receiving
  <1>18. CASE buffer # <<>> /\ have + take > MaxBody
    <2>1. st' = "Failed" /\ parsing' = FALSE /\ body' = body
      <3>1. buffer # <<>> /\ Len(body) + Take > MaxBody /\ ~(Len(body) + Take <= MaxBody)
        <4>1. ~(have + take <= MaxBody)
          BY <1>1, <1>8, <1>13, <1>18
        <4> QED BY <1>18, <4>1 DEF have, take
      <3> QED BY <3>1 DEF ParseChunkData, EndReply
    <2>2. ~Fair(msg)
      BY <1>1, <1>8, <1>11, <1>13, <1>15, <1>18 DEF Fair
    <2>3. PlaceOk'
      BY <2>1 DEF PlaceOk
    <2> QED BY <1>1, <1>2, <2>1, <2>2, <2>3 DEF ResponseInv, Receiving
  <1>19. CASE buffer # <<>> /\ have + take <= MaxBody
    <2>0. ~(have + take > MaxBody)
      BY <1>1, <1>8, <1>13, <1>19
    <2>1. /\ body' = body \o SubSeq(buffer, 1, take) /\ remaining' = remaining - take /\ st' = st
          /\ IF remaining = take /\ n >= take + 2
             THEN /\ buffer' = From(buffer, take + 3) /\ readingSize' = TRUE /\ parsing' = parsing
             ELSE /\ buffer' = From(buffer, take + 1) /\ parsing' = FALSE
                  /\ readingSize' = readingSize
      BY <1>19, <2>0 DEF ParseChunkData, take, have, n
    <2>2. Prefix(msg, body') /\ Len(body') = have + take
      <3>1. take \in 0..Len(buffer) /\ Len(body) + take <= Len(msg.body)
        BY <1>13, <1>15 DEF n, have
      <3>2. \A k \in 1..take : buffer[k] = msg.body[Len(body) + k]
        BY <1>16 DEF have
      <3> QED BY <1>1, <1>8, <2>1, <3>1, <3>2, BodyTake DEF have
    <2>3. Len(body') <= MaxBody
      BY <1>19, <2>2
    <2>4. CASE remaining = take /\ n >= take + 2
      <3>1. buffer' = From(buffer, take + 3) /\ readingSize' = TRUE /\ parsing' = parsing
        BY <2>1, <2>4
      <3>2. /\ take + 2 \in 0..n /\ (take + 2) + 1 = take + 3
            /\ p + (take + 2) = at + size + 5 /\ have + take = from + size
        BY <1>6, <1>8, <1>10, <1>13, <2>4
      <3> HIDE DEF p
      <3>3. Flow(msg, From(buffer, (take + 2) + 1), rest, p + (take + 2))
        BY <1>1, <1>10, <3>2, FlowSkip DEF n
      <3>4. Flow(msg, buffer', rest, next.at) /\ Len(body') = next.from
        BY <1>6, <2>2, <3>1, <3>2, <3>3
      <3>5. i + 1 \in Nat /\ i + 1 \in 1..Len(msg.chunks)
        <4>1. Len(msg.chunks) \in Nat
          BY <1>1, <1>4, LastOf
        <4> QED BY <1>4, <4>1
      <3>6. SizePlace(msg, buffer', rest, body', TRUE, i + 1)
        BY <1>4, <3>4, <3>5 DEF SizePlace, next
      <3>7. PlaceOk'
        BY <1>2, <2>1, <3>1, <3>5, <3>6 DEF PlaceOk
      <3> QED BY <1>1, <1>2, <2>1, <2>2, <2>3, <3>1, <3>7 DEF ResponseInv, Receiving
    <2>5. CASE ~(remaining = take /\ n >= take + 2)
      <3> DEFINE left == remaining - take
      <3>1. buffer' = From(buffer, take + 1) /\ readingSize' = readingSize /\ parsing' = FALSE
        BY <2>1, <2>5
      <3>2. /\ left \in 0..size /\ p + take = at + 3 + (size - left)
            /\ have + take = from + (size - left)
        BY <1>6, <1>8, <1>10, <1>13
      <3>3. n - take = 0 \/ (left = 0 /\ n - take < 2)
        BY <1>8, <1>13, <2>5
      <3> HIDE DEF p
      <3>4. Flow(msg, From(buffer, take + 1), rest, p + take)
        BY <1>1, <1>10, <1>13, FlowSkip DEF n
      <3>5. Len(From(buffer, take + 1)) = n - take
        BY <1>8, <1>13, FromFields DEF n
      <3>6. Flow(msg, buffer', rest, at + 3 + (size - left))
        BY <3>1, <3>2, <3>4
      <3>7. Len(body') = from + (size - left)
        BY <2>2, <3>2
      <3>8. Len(buffer') = 0 \/ (left = 0 /\ Len(buffer') < 2)
        BY <3>1, <3>3, <3>5
      <3>9. left \in 0..size
        BY <3>2
      <3> HIDE DEF left
      <3>10. DataPlace(msg, buffer', rest, body', FALSE, left, i)
        BY <1>4, <3>6, <3>7, <3>8, <3>9 DEF DataPlace, at, from, size, c
      <3>11. remaining' = left
        BY <2>1 DEF left
      <3>12. PlaceOk'
        BY <1>2, <2>1, <3>1, <3>10, <3>11 DEF PlaceOk
      <3> QED BY <1>1, <1>2, <2>1, <2>2, <2>3, <3>1, <3>12 DEF ResponseInv, Receiving
    <2> QED BY <2>4, <2>5
  <1>20. have + take > MaxBody \/ have + take <= MaxBody
    BY <1>1, <1>8, <1>13
  <1> QED BY <1>17, <1>18, <1>19, <1>20

-----------------------------------------------------------------------------
\* However the stream of a response is cut, the parser's body is the start of what the
\* sender means and within the cap, all of it when the reply is done; and once all of a
\* well-framed response has arrived, the reply is done.
THEOREM BodyIsExact == ResponseSpec => []BodyExact
  <1>1. ResponseInit => ResponseInv
    BY StartsInPlace
  <1>2. ResponseInv /\ [ResponseNext]_responseVars => ResponseInv'
    <2> SUFFICES ASSUME ResponseInv, [ResponseNext]_responseVars
                 PROVE  ResponseInv'
      OBVIOUS
    <2>1. CASE UNCHANGED responseVars
      BY <2>1 DEF responseVars, ResponseInv, Receiving, PlaceOk
    <2> QED
      BY <2>1, ReadKeepsPlace, HeadersKeepPlace, LengthKeepsPlace, ToCloseKeepsPlace,
         SizeKeepsPlace, DataKeepsPlace, ClosedKeepsPlace DEF ResponseNext
  <1>3. ResponseInv => BodyExact
    <2> SUFFICES ASSUME ResponseInv
                 PROVE  BodyExact
      OBVIOUS
    <2>1. Prefix(msg, body) /\ msg \in MessageType /\ Len(body) <= MaxBody
      BY DEF ResponseInv
    <2>2. /\ msg.body \in Seq(Token) /\ body \in Seq(Token) /\ Len(body) <= Len(msg.body)
          /\ Len(body) \in 0..Len(msg.body)
      BY <2>1 DEF MessageType, Prefix
    <2>3. body = SubSeq(msg.body, 1, Len(body))
      <3> DEFINE h == SubSeq(msg.body, 1, Len(body))
      <3>1. h \in Seq(Token) /\ Len(h) = Len(body)
        BY <2>2, HeadFields
      <3>2. \A k \in 1..Len(body) : h[k] = msg.body[k]
        BY <2>2, HeadFields
      <3> HIDE DEF h
      <3>3. \A k \in 1..Len(body) : body[k] = h[k]
        BY <2>1, <3>2 DEF Prefix
      <3>4. body = h
        BY <2>2, <3>1, <3>3, SeqEqual
      <3> QED BY <3>4 DEF h
    <2>4. ASSUME st = "Done" PROVE body = msg.body
      <3>1. Len(body) = Len(msg.body)
        BY <2>4 DEF ResponseInv
      <3>2. \A k \in 1..Len(body) : body[k] = msg.body[k]
        BY <2>1 DEF Prefix
      <3> QED BY <2>2, <3>1, <3>2, SeqEqual
    <2>5. ASSUME Fair(msg), rest = <<>>, ~parsing PROVE st = "Done"
      <3>1. ~(Len(rest) > 0)
        BY <2>5
      <3>2. ~Receiving
        BY <2>5, <3>1, MoreToCome
      <3> QED BY <2>5, <3>1, <3>2 DEF ResponseInv, Receiving
    <2> QED BY <2>1, <2>2, <2>3, <2>4, <2>5 DEF BodyExact, Fair
  <1> QED BY <1>1, <1>2, <1>3, PTL DEF ResponseSpec
=============================================================================
