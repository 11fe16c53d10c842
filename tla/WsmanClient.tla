---------------------------- MODULE WsmanClient ----------------------------
(***************************************************************************)
(* WsmanClient and its WsmanReply objects (src/wsman/src/wsman_client.cpp):*)
(* one HTTP request per reply over a fresh direct or tunnelled socket,     *)
(* digest authentication with one cached challenge and one nonce count     *)
(* shared by all replies, certificate pinning, a timeout per reply and a   *)
(* single-flight queue.                                                    *)
(*                                                                         *)
(* Everything runs on the event loop: an action is one slot, callback or   *)
(* public call with all it calls, the slot on finished() included.  What a *)
(* response contains is reduced to what readMore() tells apart; the        *)
(* framing of its body is module WsmanResponse.                            *)
(***************************************************************************)
EXTENDS Naturals, Sequences, FiniteSets

CONSTANTS
    Requests,      \* the sendEnvelope() calls of one behaviour
    NoReply,       \* a null QPointer<WsmanReply>
    Certs,         \* fingerprints the device may present, all self-signed
    Pinned,        \* fingerprints trusted before the first request
    Profiles,      \* surroundings of the client, one per behaviour
    MaxNonce,      \* bound on the nonces the device issues
    MaxSettings    \* bound on the setter calls after Init

Kinds  == {"Ok", "Challenge", "Stale", "NoHeader", "Unsupported", "Malformed"}
Events == {"Abort", "RotateNonce", "RotateCert", "SshDrops", "Credentials",
           "Fingerprints", "Serialize", "Factory"}

\* A profile: the scheme of the endpoint, the socket factory and serialisation at
\* the start, the number of requests, the responses the device may give, and what
\* else may happen.
ProfileType == [tls : BOOLEAN, factory : BOOLEAN, serialize : BOOLEAN, sends : Nat,
                kinds : SUBSET Kinds, events : SUBSET Events]

ASSUME WsmanAssumption ==
    /\ NoReply \notin Requests
    /\ IsFiniteSet(Requests)
    /\ Pinned \subseteq Certs
    /\ Profiles \subseteq ProfileType
    /\ MaxNonce \in Nat \ {0} /\ MaxSettings \in Nat

\* Nothing in the application calls abort(), and a queued reply that is aborted runs
\* the slot of the reply in flight: only clients that never serialise abort here.
ASSUME AbortAssumption ==
    \A p \in Profiles : "Abort" \in p.events => ~p.serialize /\ "Serialize" \notin p.events

VARIABLES
    profile,        \* the surroundings; profile.tls is the scheme of endpoint
    user,           \* ~user.isEmpty()
    factory,        \* socketFactory is set
    serialize,      \* serializeRequests
    trusted,        \* trustedFingerprints
    pendingCert,    \* fingerprint in pendingPeerCert, or NoCert
    awaitingTrust,
    haveDigest,     \* haveDigestChallenge
    nonce,          \* digestNonce; 0 is the empty one
    nc,             \* nonce count
    current,        \* currentRequest
    queue,          \* pendingQueue
    reply,          \* the WsmanReply of each request
    devNonce, devCert,      \* the device's nonce and certificate
    sshUp,                  \* SshSession::state() == Connected
    settings,               \* setter calls so far
    \* history
    counted, rewound,       \* nonces taken from challenges; one was taken again
    used, reused            \* digest pairs <<nonce, nc>> written; one was repeated

config == <<profile, user, factory, serialize, settings>>
trust  == <<trusted, pendingCert, awaitingTrust>>
digest == <<haveDigest, nonce, counted, rewound>>
device == <<devNonce, devCert, sshUp>>
log    == <<used, reused>>
vars   == <<config, trust, digest, nc, current, queue, reply, device, log>>

NoCert     == "NoCert"
NoAuth     == [nonce |-> 0, nc |-> 0]
NoResponse == [kind |-> "None", nonce |-> 0]
States     == {"Unsent", "Idle", "Connecting", "TlsHandshaking", "WritingRequest",
               "ReadingHeaders", "ReadingBody", "Done", "Failed"}
Errors     == {"", "Ssl", "Other"}      \* errorString: only a TLS failure is told apart

\* WsmanReply::Private.  `armed` is timeoutTimer /= nullptr, `opening` an
\* outstanding callback of the socket factory, `tunnel` a socket it supplied,
\* `prompts` the argument of wireSocketHandlers(), `auth` the digest pair of the
\* attempt, `wire` the response on its socket.  `heard` says that finished() was
\* emitted with the caller connected, `deleted` that the caller deleted the reply.
ReplyType ==
    [st : States, err : Errors, finished : BOOLEAN, heard : BOOLEAN, deleted : BOOLEAN,
     viaQueue : BOOLEAN, armed : BOOLEAN, opening : BOOLEAN, tunnel : BOOLEAN,
     prompts : BOOLEAN, retries : Nat, writes : Nat,
     auth : [nonce : Nat, nc : Nat], wire : [kind : Kinds \cup {"None"}, nonce : Nat]]

NewReply ==
    [st |-> "Unsent", err |-> "", finished |-> FALSE, heard |-> FALSE, deleted |-> FALSE,
     viaQueue |-> FALSE, armed |-> FALSE, opening |-> FALSE, tunnel |-> FALSE,
     prompts |-> FALSE, retries |-> 0, writes |-> 0, auth |-> NoAuth, wire |-> NoResponse]

TypeOK ==
    /\ profile \in Profiles
    /\ user \in BOOLEAN /\ factory \in BOOLEAN /\ serialize \in BOOLEAN
    /\ settings \in Nat
    /\ trusted \subseteq Certs /\ pendingCert \in Certs \cup {NoCert}
    /\ awaitingTrust \in BOOLEAN
    /\ haveDigest \in BOOLEAN /\ nonce \in Nat /\ nc \in Nat
    /\ counted \subseteq Nat /\ rewound \in BOOLEAN
    /\ current \in Requests \cup {NoReply}
    /\ queue \in Seq(Requests)
    /\ reply \in [Requests -> ReplyType]
    /\ devNonce \in Nat /\ devCert \in Certs /\ sshUp \in BOOLEAN
    /\ used \subseteq Nat \X Nat /\ reused \in BOOLEAN

Init ==
    /\ profile \in Profiles /\ user = TRUE
    /\ factory = profile.factory /\ serialize = profile.serialize
    /\ settings = 0
    /\ trusted = Pinned /\ pendingCert = NoCert /\ awaitingTrust = FALSE
    /\ haveDigest = FALSE /\ nonce = 0 /\ nc = 0
    /\ current = NoReply /\ queue = <<>>
    /\ reply = [r \in Requests |-> NewReply]
    /\ devNonce = 1 /\ devCert \in Certs
    /\ sshUp \in {TRUE} \cup (IF "SshDrops" \in profile.events THEN {FALSE} ELSE {})
    /\ counted = {} /\ rewound = FALSE /\ used = {} /\ reused = FALSE

-----------------------------------------------------------------------------
(***************************************************************************)
(* One attempt of a reply.                                                 *)
(***************************************************************************)

\* finishReply() and its copies: result, finished flag, finished().
Finished(rec, e) ==
    [rec EXCEPT !.st = IF e = "" THEN "Done" ELSE "Failed", !.err = e,
                !.finished = TRUE, !.heard = TRUE]

\* Only the first attempt of an unauthenticated reply prompts for a certificate.
StartTransport(rec, f, up) ==
    LET opened == [rec EXCEPT !.armed = TRUE, !.st = "Connecting", !.auth = NoAuth,
                              !.wire = NoResponse, !.prompts = TRUE,
                              !.tunnel = f, !.opening = f /\ up]
    IN  IF f /\ ~up /\ ~rec.finished THEN Finished(opened, "Other") ELSE opened

RetryWithDigestUntimed(rec, n, k, f, up) ==
    LET opened == [rec EXCEPT !.st = "Connecting", !.auth = [nonce |-> n, nc |-> k],
                              !.wire = NoResponse, !.prompts = FALSE,
                              !.tunnel = f, !.opening = f /\ up]
    IN  IF f /\ ~up /\ ~rec.finished THEN Finished(opened, "Other") ELSE opened

\* With the SSH session down the factory calls back at once, inside the call.
RetryWithDigest(rec, n, k, f, up) ==
    LET opened == [rec EXCEPT !.armed = TRUE, !.st = "Connecting",
                              !.auth = [nonce |-> n, nc |-> k],
                              !.wire = NoResponse, !.prompts = FALSE,
                              !.tunnel = f, !.opening = f /\ up]
    IN  IF f /\ ~up /\ ~rec.finished THEN Finished(opened, "Other") ELSE opened

\* The challenge startNow() and the drainer use: the cached nonce, or 0.
Cached(have, n) == IF have /\ user THEN n ELSE 0

\* startNow(): pre-authenticated when a challenge is cached.
Start(rec, pre, k) ==
    IF pre = 0 THEN StartTransport(rec, factory, sshUp)
               ELSE RetryWithDigest(rec, pre, k, factory, sshUp)

\* Nonce counts taken by k starts.
Taken(pre, k) == IF pre = 0 THEN 0 ELSE k

-----------------------------------------------------------------------------
(***************************************************************************)
(* The slot on finished() of a reply sent through the queue.  A reply that *)
(* fails inside its start runs the slot again from there, so with the SSH  *)
(* session down one completion works through the whole queue; it only      *)
(* stops at a reply that had finished while it waited.  A reply deleted    *)
(* while it waited is passed over.                                         *)
(***************************************************************************)
Left(rep, q, k) == Cardinality({i \in 1..k : ~rep[q[i]].deleted})

Stops(rep, q) ==
    {i \in 1..Len(q) : ~rep[q[i]].deleted /\ (rep[q[i]].finished \/ ~(factory /\ ~sshUp))}

Least(S) == CHOOSE i \in S : \A j \in S : i <= j

DrainNothing(rep, q, pre, base) ==
    /\ reply' = rep /\ queue' = q /\ nc' = base /\ current' = NoReply

Drain(rep, q, pre, base) ==
    LET stops   == Stops(rep, q)
        last    == IF stops = {} THEN Len(q) ELSE Least(stops)
        turn(r) == {i \in 1..last : q[i] = r}
    IN  /\ reply' = [r \in Requests |->
                        IF turn(r) # {} /\ ~rep[r].deleted
                        THEN Start(rep[r], pre, base + Left(rep, q, Least(turn(r))))
                        ELSE rep[r]]
        /\ queue' = SubSeq(q, last + 1, Len(q))
        /\ current' = IF stops = {} THEN NoReply ELSE q[last]
        /\ nc' = base + Taken(pre, Left(rep, q, last))

\* Reply r becomes rec; if that finishes it, finished() runs its slots.  q, cur,
\* pre and base are the queue, current request, cached nonce and nonce count.
Update(r, rec, q, cur, pre, base) ==
    LET rep == [reply EXCEPT ![r] = rec]
    IN  IF rec.viaQueue /\ rec.finished /\ ~reply[r].finished
        THEN Drain(rep, q, pre, base)
        ELSE reply' = rep /\ queue' = q /\ current' = cur /\ nc' = base

Finish(r, e) ==
    Update(r, Finished(reply[r], e), queue, current, Cached(haveDigest, nonce), nc)

CurrentIsNull == current \notin {r \in Requests : ~reply[r].deleted}

SendUnserialized(r) ==
    LET pre == Cached(haveDigest, nonce)
        rec == [Start([NewReply EXCEPT !.st = "Idle", !.viaQueue = serialize], pre, nc + 1)
                    EXCEPT !.heard = FALSE]
    IN  /\ reply[r].st = "Unsent"
        /\ Update(r, rec, queue, current, pre, nc + Taken(pre, 1))
        /\ UNCHANGED <<config, trust, digest, device, log>>

Unsent == {r \in Requests : reply[r].st = "Unsent"}

\* sendEnvelope().  The caller connects to finished() only after it returns, so
\* a reply that finishes inside the call is not heard.  When the queue is idle its
\* head becomes current, but the transport started is the new reply's.
Send(r) ==
    LET pre == Cached(haveDigest, nonce)
        new == [NewReply EXCEPT !.st = "Idle", !.viaQueue = serialize]
        rec == [Start(new, pre, nc + 1) EXCEPT !.heard = FALSE]
        q   == Append(queue, r)
    IN  /\ r \in Unsent /\ Cardinality(Requests \ Unsent) < profile.sends
        /\ \/ /\ ~serialize
              /\ Update(r, rec, queue, current, pre, nc + Taken(pre, 1))
           \/ /\ serialize /\ CurrentIsNull
              /\ Update(r, rec, Tail(q), Head(q), pre, nc + Taken(pre, 1))
           \/ /\ serialize /\ ~CurrentIsNull
              /\ Update(r, new, q, current, pre, nc)
        /\ UNCHANGED <<config, trust, digest, device, log>>

-----------------------------------------------------------------------------
(***************************************************************************)
(* The socket of an attempt.                                               *)
(***************************************************************************)
AliveUnlessDeleted(r) == ~reply[r].deleted

\* Every slot and callback of a reply returns at once when it has finished.
Alive(r) == ~reply[r].finished /\ ~reply[r].deleted

\* writeRequestBytes(): the request goes out, with its digest pair if it has one.
Write(r, rec) ==
    LET pair == <<rec.auth.nonce, rec.auth.nc>>
    IN  /\ reply' = [reply EXCEPT ![r] = [rec EXCEPT !.st = "ReadingHeaders", !.writes = @ + 1]]
        /\ used' = IF rec.auth = NoAuth THEN used ELSE used \cup {pair}
        /\ reused' = (reused \/ pair \in used)
        /\ UNCHANGED <<queue, current, nc>>

\* The transport is up: TLS first, or the request.
Reached(r, rec) ==
    \/ /\ profile.tls
       /\ reply' = [reply EXCEPT ![r] = [rec EXCEPT !.st = "TlsHandshaking"]]
       /\ UNCHANGED <<queue, current, nc, log>>
    \/ ~profile.tls /\ Write(r, rec)

Connected(r) ==
    /\ Alive(r) /\ reply[r].st = "Connecting" /\ ~reply[r].tunnel
    /\ Reached(r, reply[r])
    /\ UNCHANGED <<config, trust, digest, device>>

\* The callback of the socket factory, with a descriptor or with an error.
FactoryDone(r) ==
    /\ Alive(r) /\ reply[r].opening
    /\ LET rec == [reply[r] EXCEPT !.opening = FALSE]
       IN  \/ Reached(r, rec)
           \/ /\ Update(r, Finished(rec, "Other"), queue, current,
                        Cached(haveDigest, nonce), nc)
              /\ UNCHANGED log
    /\ UNCHANGED <<config, trust, digest, device>>

\* The reply is finished or gone: closeOrphanFd().
FactoryLate(r) ==
    /\ reply[r].opening /\ ~Alive(r)
    /\ reply' = [reply EXCEPT ![r].opening = FALSE]
    /\ UNCHANGED <<config, trust, digest, nc, current, queue, device, log>>

\* sslErrors() on a self-signed certificate, then encrypted() or errorOccurred().
\* startTransport() on a tunnel queues the write behind encrypted().
TlsResult(r) ==
    /\ Alive(r) /\ reply[r].st = "TlsHandshaking"
    /\ \/ /\ devCert \in trusted
          /\ IF reply[r].tunnel /\ reply[r].auth = NoAuth
             THEN /\ reply' = [reply EXCEPT ![r].st = "WritingRequest"]
                  /\ UNCHANGED <<queue, current, nc, log>>
             ELSE Write(r, reply[r])
          /\ UNCHANGED trust
       \/ /\ devCert \notin trusted
          /\ pendingCert' = IF reply[r].prompts THEN devCert ELSE pendingCert
          /\ awaitingTrust' = (awaitingTrust \/ reply[r].prompts)
          /\ Finish(r, "Ssl")
          /\ UNCHANGED <<trusted, log>>
    /\ UNCHANGED <<config, digest, device>>

QueuedWrite(r) ==
    /\ Alive(r) /\ reply[r].st = "WritingRequest"
    /\ Write(r, reply[r])
    /\ UNCHANGED <<config, trust, digest, device>>

\* errorOccurred(): refused, reset or closed before the response was complete.
SocketError(r) ==
    /\ Alive(r) /\ ~reply[r].opening
    /\ reply[r].st \in {"Connecting", "TlsHandshaking", "WritingRequest",
                        "ReadingHeaders", "ReadingBody"}
    /\ Finish(r, "Other")
    /\ UNCHANGED <<config, trust, digest, device, log>>

-----------------------------------------------------------------------------
(***************************************************************************)
(* The response.                                                           *)
(***************************************************************************)

\* The device answers with the nonce it holds at that time; it serves a request
\* only under that nonce, and may reject one under it (a wrong password).
DeviceAnswers(r) ==
    /\ Alive(r) /\ reply[r].st = "ReadingHeaders" /\ reply[r].wire = NoResponse
    /\ \E k \in profile.kinds :
         /\ k = "Ok" => reply[r].auth.nonce = devNonce
         /\ reply' = [reply EXCEPT ![r].wire = [kind |-> k, nonce |-> devNonce]]
    /\ UNCHANGED <<config, trust, digest, nc, current, queue, device, log>>

RewoundAlways(n) == 0

\* The counter restarts when the nonce is a different one.
Rewound(n) == IF n # nonce THEN 0 ELSE nc

\* Digest retries a reply may spend on such a 401.
Allowed(kind) == IF kind = "Stale" THEN 2 ELSE 1

\* readMore(), headers of a 401 with a usable challenge.
ReadChallenge(r) ==
    LET rec  == reply[r]
        n    == rec.wire.nonce
        base == Rewound(n)
    IN  /\ rec.wire.kind \in {"Challenge", "Stale"}
        /\ nonce' = n /\ haveDigest' = TRUE
        /\ counted' = counted \cup {n}
        /\ rewound' = (rewound \/ n \in counted \ {nonce})
        /\ IF rec.retries >= Allowed(rec.wire.kind)
           THEN Update(r, Finished(rec, "Other"), queue, current, Cached(TRUE, n), base)
           ELSE Update(r, RetryWithDigest([rec EXCEPT !.retries = @ + 1], n, base + 1,
                                          factory, sshUp),
                       queue, current, Cached(TRUE, n), base + 1)

\* A 401 without realm or nonce: the cached challenge is gone.
ReadUnsupported(r) ==
    /\ reply[r].wire.kind = "Unsupported"
    /\ nonce' = 0 /\ haveDigest' = FALSE /\ UNCHANGED <<counted, rewound>>
    /\ Update(r, Finished(reply[r], "Other"), queue, current, 0, Rewound(0))

ReadMalformed(r) ==
    /\ reply[r].wire.kind \in {"NoHeader", "Malformed"}
    /\ Finish(r, "Other")
    /\ UNCHANGED digest

ReadOk(r) ==
    /\ reply[r].wire.kind = "Ok"
    /\ reply' = [reply EXCEPT ![r].st = "ReadingBody"]
    /\ UNCHANGED <<digest, nc, current, queue>>

ReadHeaders(r) ==
    /\ Alive(r) /\ reply[r].st = "ReadingHeaders"
    /\ ReadChallenge(r) \/ ReadUnsupported(r) \/ ReadMalformed(r) \/ ReadOk(r)
    /\ UNCHANGED <<config, trust, device, log>>

\* The body is complete, or its framing is bad or over the cap.
ReadBody(r) ==
    /\ Alive(r) /\ reply[r].st = "ReadingBody"
    /\ \E e \in {"", "Other"} : Finish(r, e)
    /\ UNCHANGED <<config, trust, digest, device, log>>

Timeout(r) ==
    /\ Alive(r) /\ reply[r].armed
    /\ Finish(r, "Other")
    /\ UNCHANGED <<config, trust, digest, device, log>>

-----------------------------------------------------------------------------
(***************************************************************************)
(* The caller.                                                             *)
(***************************************************************************)
Abort(r) ==
    /\ "Abort" \in profile.events
    /\ reply[r].st # "Unsent" /\ Alive(r)
    /\ Finish(r, "Other")
    /\ UNCHANGED <<config, trust, digest, device, log>>

\* Every caller calls deleteLater() in its slot on finished(); the socket and
\* the timer are children of the reply.
DeleteReply(r) ==
    /\ reply[r].heard /\ ~reply[r].deleted
    /\ reply' = [reply EXCEPT ![r] =
                   [NewReply EXCEPT !.st = reply[r].st, !.err = reply[r].err,
                                    !.finished = TRUE, !.heard = TRUE, !.deleted = TRUE,
                                    !.viaQueue = reply[r].viaQueue,
                                    !.opening = reply[r].opening]]
    /\ UNCHANGED <<config, trust, digest, nc, current, queue, device, log>>

TrustPendingPeerCert ==
    /\ awaitingTrust /\ pendingCert # NoCert
    /\ trusted' = trusted \cup {pendingCert}
    /\ pendingCert' = NoCert /\ awaitingTrust' = FALSE
    /\ UNCHANGED <<config, digest, nc, current, queue, reply, device, log>>

Setting(e) ==
    /\ e \in profile.events /\ settings < MaxSettings /\ settings' = settings + 1
    /\ UNCHANGED <<profile, pendingCert, awaitingTrust, nonce, counted, rewound, nc, current, queue,
                   reply, device, log>>

SetCredentials ==
    /\ Setting("Credentials")
    /\ user' \in BOOLEAN /\ haveDigest' = FALSE
    /\ UNCHANGED <<factory, serialize, trusted>>

SetTrustedFingerprints ==
    /\ Setting("Fingerprints")
    /\ trusted' \in SUBSET Certs
    /\ UNCHANGED <<user, factory, serialize, haveDigest>>

SetSerializeRequests ==
    /\ Setting("Serialize")
    /\ serialize' = ~serialize
    /\ UNCHANGED <<user, factory, trusted, haveDigest>>

SetSocketFactory ==
    /\ Setting("Factory")
    /\ factory' = ~factory
    /\ UNCHANGED <<user, serialize, trusted, haveDigest>>

\* The world: the device takes a new nonce or certificate, the SSH session drops.
RotateNonce ==
    /\ "RotateNonce" \in profile.events /\ devNonce < MaxNonce
    /\ devNonce' = devNonce + 1
    /\ UNCHANGED <<config, trust, digest, nc, current, queue, reply, devCert, sshUp, log>>

RotateCert ==
    /\ "RotateCert" \in profile.events
    /\ devCert' \in Certs \ {devCert}
    /\ UNCHANGED <<config, trust, digest, nc, current, queue, reply, devNonce, sshUp, log>>

SshDrops ==
    /\ "SshDrops" \in profile.events /\ sshUp
    /\ sshUp' = FALSE
    /\ UNCHANGED <<config, trust, digest, nc, current, queue, reply, devNonce, devCert, log>>

Next ==
    \/ \E r \in Requests :
          \/ Send(r) \/ Connected(r) \/ FactoryDone(r) \/ FactoryLate(r) \/ TlsResult(r)
          \/ QueuedWrite(r) \/ SocketError(r) \/ DeviceAnswers(r) \/ ReadHeaders(r)
          \/ ReadBody(r) \/ Timeout(r) \/ Abort(r) \/ DeleteReply(r)
    \/ TrustPendingPeerCert \/ SetCredentials \/ SetTrustedFingerprints
    \/ SetSerializeRequests \/ SetSocketFactory
    \/ RotateNonce \/ RotateCert \/ SshDrops

Spec == Init /\ [][Next]_vars

-----------------------------------------------------------------------------
(***************************************************************************)
(* Properties.                                                             *)
(***************************************************************************)
InFlight(r) == reply[r].st \notin {"Unsent", "Idle"} /\ ~reply[r].finished

\* Serialised requests are single-flight: of the replies sent through the queue
\* at most one has a transport at work (setSerializeRequests()).
SingleFlight ==
    \A r, s \in Requests :
        InFlight(r) /\ reply[r].viaQueue /\ InFlight(s) /\ reply[s].viaQueue => r = s

\* Whenever a reply waits in the queue, somebody will run the drainer: the
\* current request is a reply in flight whose finished() slot is connected.
QueueServed ==
    queue # <<>> => /\ current # NoReply
                    /\ InFlight(current) /\ reply[current].viaQueue

\* No reply is stranded: an unfinished reply is in flight with its timeout
\* armed, or waits in the queue exactly once.
NoReplyStranded ==
    \A r \in Requests :
        reply[r].st # "Unsent" /\ ~reply[r].finished =>
            \/ InFlight(r) /\ reply[r].armed
            \/ Cardinality({i \in 1..Len(queue) : queue[i] = r}) = 1

\* Requests are serialised throughout, and every challenge has a nonce.
Steady ==
    /\ profile.serialize /\ "Serialize" \notin profile.events
    /\ "Unsupported" \notin profile.kinds

\* No nonce count is written twice under one nonce, whichever replies race for it, in
\* parallel or through the queue, over retries, new nonces and new credentials.  The
\* code's claim, "unique and strictly increasing for the lifetime of a given nonce"
\* (wsman_client.cpp:763), has one exception: the counter restarts whenever the cached
\* nonce changes, also back to an earlier one, when the late 401 of a parallel reply
\* still names that one or a challenge without a nonce came in between.
NonceCountUnique == /\ reused => rewound
                    /\ Steady => ~rewound

\* finished() is final: whatever a late callback, timer, socket or abort brings,
\* the outcome the caller read stays the same.
OutcomeIsFinal ==
    [][\A r \in Requests : reply[r].finished =>
          /\ reply'[r].finished
          /\ reply'[r].st = reply[r].st /\ reply'[r].err = reply[r].err]_vars

\* Every finished() reaches the slot its caller connects to the returned reply.
FinishedIsHeard == \A r \in Requests : reply[r].finished => reply[r].heard
=============================================================================
