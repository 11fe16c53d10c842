--------------------------- MODULE SshTunnelProofs ---------------------------
(***************************************************************************)
(* Proofs about the SSH session, its tunnels and their three kinds of      *)
(* threads, for any number of tunnels, keys and reconfigurations: what a   *)
(* tunnel reports, that no channel is lost, that only trusted keys are     *)
(* authenticated, and that nothing freed is used.                          *)
(***************************************************************************)
EXTENDS SshTunnel, SubsequencesProofs, TLAPS

(***************************************************************************)
(* Queues.  The invariants speak of what is in a queue, and of how often.  *)
(***************************************************************************)

Has(q, A) == \E i \in 1..Len(q) : q[i] \in A
Once(q, A) == \A i, j \in 1..Len(q) : q[i] \in A /\ q[j] \in A => i = j

\* After a member of A come only members of B.
Then(q, A, B) == \A i, j \in 1..Len(q) : q[i] \in A /\ i < j => q[j] \in B

(***************************************************************************)
(* Types.                                                                  *)
(***************************************************************************)

JobType == [op : {"open", "close", "trust"}, t : {NoTunnel}]
             \cup [op : {"channel"} \cup Calls, t : Tunnels]
EventType == [kind : {"state"}, val : States] \cup [kind : {"prompt"}, val : Keys]
             \cup [kind : {"delete"}, val : Tunnels \cup {NoTunnel}]
             \cup [kind : {"channel", "noChannel", "finished"}, val : Tunnels]
ClosingType == [t : Tunnels, del : BOOLEAN]
TunnelType == [obj : {"new", "alive", "gone"}, pending : BOOLEAN, abandoned : BOOLEAN,
               opened : BOOLEAN, fd : {"none", "open", "closed"},
               signals : Seq({"opened", "failed", "closed"})]
PumpType == [at : {"none", "top", "deliver", "exit", "done"} \cup Calls, stop : BOOLEAN]
WorkerType == [at : {"idle", "connect", "auth", "exited"}, t : {NoTunnel}]
                \cup [at : {"channel", "posting"}, t : Tunnels]

SessionTypes ==
    /\ profile \in Profiles
    /\ object \in {"alive", "disabled", "gone"} /\ state \in States
    /\ host \in [awaiting : BOOLEAN, key : Keys \cup {NoKey}]
    /\ host.awaiting => host.key \in Keys
    /\ accepted \subseteq Keys /\ opens \in Nat
    /\ session \in {"null", "fresh", "authed"} /\ key \in Keys \cup {NoKey}
    /\ awaiting \in BOOLEAN /\ pendingKey \in Keys \cup {NoKey}
    /\ stop \in BOOLEAN /\ quit \in BOOLEAN /\ overtaken \in BOOLEAN

ThreadTypes ==
    /\ ui \in [at : {"loop", "closing", "join", "wait"}, todo : Seq(ClosingType), dtor : BOOLEAN]
    /\ ui.at = "join" => ui.todo # <<>>
    /\ ui.at = "loop" => ui = InLoop
    /\ ui.at = "wait" => ui.dtor /\ ui.todo = <<>>
    /\ events \in Seq(EventType) /\ jobs \in Seq(JobType) /\ worker \in WorkerType
    /\ wired \in Seq(Tunnels)

ChannelStates == {"none", "live", "lost", "freed"}

TunnelTypes ==
    /\ channel \in [Tunnels -> ChannelStates]
    /\ tunnel \in [Tunnels -> TunnelType]
    /\ pump \in [Tunnels -> PumpType]

Types == SessionTypes /\ ThreadTypes /\ TunnelTypes

(***************************************************************************)
(* The way of a tunnel: its open is a job, then the worker's, then an      *)
(* event; then there is a pump, or a job that frees the channel.           *)
(***************************************************************************)

OpenOf(t) == {Job("channel", t)}
ResultsOf(t) == {Event("channel", t), Event("noChannel", t)}
CallsOn(t) == {Job(op, t) : op \in Calls}

AtWork(w, t) == w.at \in {"channel", "posting"} /\ w.t = t

\* The open of t is in flight: a job, the worker's, an event.
InFlight(q, w, e, t) == Has(q, OpenOf(t)) \/ AtWork(w, t) \/ Has(e, ResultsOf(t))

\* It is in one place, once; a pump and a call on the channel come after it.
OnePlace(q, w, e, p, t) ==
    /\ Once(q, OpenOf(t)) /\ Once(e, ResultsOf(t)) /\ Once(q, CallsOn(t))
    /\ Has(q, OpenOf(t)) => ~AtWork(w, t) /\ ~Has(e, ResultsOf(t))
    /\ AtWork(w, t) => ~Has(e, ResultsOf(t))
    /\ p.at # "none" \/ Has(q, CallsOn(t)) => ~InFlight(q, w, e, t)

\* What a tunnel object says of itself, and what it has reported.
RecordOk(rec, p) ==
    /\ rec.obj = "new" => rec.signals = <<>> /\ ~rec.pending /\ ~rec.abandoned
    /\ rec.pending => rec.obj = "alive" /\ ~rec.abandoned /\ rec.signals = <<>>
    /\ rec.opened <=> p.at # "none"
    /\ rec.opened => rec.obj = "alive" /\ rec.signals = <<"opened">> /\ ~rec.pending
    /\ rec.signals \in Signals

\* An open in flight is awaited, or abandoned; a tunnel that was not opened has nothing.
AwaitedOk(rec, flying, calls) ==
    /\ flying => rec.obj # "new" /\ (rec.pending \/ rec.abandoned)
    /\ calls => rec.obj # "new"

\* A call in the queue is the pump's, or the return of a channel nobody wants.
CallsOk(q, p, t) ==
    \A op \in Calls : Has(q, {Job(op, t)}) => p.at = op \/ (op = "free" /\ p.at = "none")

\* A live channel is on its way to its tunnel, in its pump, or on its way back.
ChannelOk(ch, rec, p, q, w, e, t) ==
    ch = "live" =>
        \/ w.at = "posting" /\ w.t = t
        \/ Has(e, {Event("channel", t)})
        \/ p.at \in {"top", "deliver"} \cup Calls
        \/ Has(q, {Job("free", t)})

TunnelFits(q, w, e, rec, p, ch, t) ==
    /\ OnePlace(q, w, e, p, t)
    /\ RecordOk(rec, p)
    /\ AwaitedOk(rec, InFlight(q, w, e, t), Has(q, CallsOn(t)))
    /\ CallsOk(q, p, t)
    /\ ChannelOk(ch, rec, p, q, w, e, t)
    /\ w.at = "exited" => ch # "live"

TunnelOk(t) == TunnelFits(jobs, worker, events, tunnel[t], pump[t], channel[t], t)

TunnelInv == \A t \in Tunnels : TunnelOk(t)

(***************************************************************************)
(* The session: one attempt to connect at a time, unless setConfig() is    *)
(* called again while one is under way.                                    *)
(***************************************************************************)

NoReopen == "Reopen" \notin profile.events

Tries == {Job("open", NoTunnel), Job("trust", NoTunnel)}
Trust == {Job("trust", NoTunnel)}
Open == {Job("open", NoTunnel)}
Close == {Job("close", NoTunnel)}
Prompts == {Event("prompt", k) : k \in Keys}
StateEvents == {Event("state", s) : s \in States}
Is(s) == {Event("state", s)}
Others == EventType \ StateEvents

Dialling(w) == w.at \in {"connect", "auth"}

\* The attempt is a job, the worker's, a prompt on its way, or a prompt shown.
OneAttempt(q, w, e, h) ==
    /\ Once(q, Tries) /\ Once(e, Prompts)
    /\ Has(q, Tries) => ~Dialling(w) /\ ~Has(e, Prompts) /\ ~h.awaiting
    /\ Dialling(w) => ~Has(e, Prompts) /\ ~h.awaiting
    /\ Has(e, Prompts) => ~h.awaiting

\* While the session exists, a prompt is on its way or shown only in NeedsHostKeyTrust.
PromptOk(e, h, s) ==
    /\ Has(e, Is("NeedsHostKeyTrust")) => Has(e, Prompts)
    /\ Then(e, Is("NeedsHostKeyTrust"), Others) /\ Then(e, Prompts, Others)
    /\ Has(e, Prompts) => \/ Has(e, Is("NeedsHostKeyTrust"))
                          \/ s = "NeedsHostKeyTrust" /\ ~Has(e, StateEvents)
    /\ h.awaiting => s = "NeedsHostKeyTrust" /\ ~Has(e, StateEvents)

Trusted(acc) == Pinned \cup acc

\* The key that is asked about is the key of the session.
KeyOk ==
    /\ worker.at = "auth" \/ session = "authed" => key \in Trusted(accepted)
    /\ worker.at = "connect" => session = "fresh"
    /\ awaiting => ~Dialling(worker) /\ ~Has(jobs, Open)
    /\ awaiting /\ worker.at # "exited" => session # "null"
    /\ awaiting /\ Has(jobs, Trust) => key \in accepted
    /\ object = "alive" /\ awaiting =>
         /\ Has(events, Prompts) \/ host.awaiting \/ Has(jobs, Trust)
         /\ host.awaiting => host.key = key
         /\ Has(events, Prompts) => Has(events, {Event("prompt", key)})

SessionOk ==
    /\ OneAttempt(jobs, worker, events, host)
    /\ object = "alive" => PromptOk(events, host, state)
    /\ KeyOk
    /\ Has(jobs, Close) \/ quit \/ ui.dtor => object # "alive"

SessionInv == NoReopen => SessionOk

(***************************************************************************)
(* The keys, also when setConfig() is called again at any time: what an    *)
(* accept answers, until an attempt begins under an unanswered prompt.     *)
(***************************************************************************)

\* What may follow the close of the session.
Rest == JobType \ Tries

\* The prompt on its way, or shown, or accepted, is about the key of the session.
AskedOk ==
    /\ Once(events, Prompts)
    /\ Has(jobs, Trust) => ~Has(events, Prompts) /\ ~host.awaiting
    /\ Has(events, Prompts) => /\ awaiting /\ ~host.awaiting
                              /\ Has(events, {Event("prompt", key)})
    /\ host.awaiting => awaiting /\ host.key = key

TrustOk ==
    /\ Once(jobs, Trust)
    /\ Has(jobs, Trust) => awaiting /\ key \in accepted
    /\ Then(jobs, Close, Rest)
    /\ awaiting => ~Dialling(worker)
    /\ worker.at = "auth" \/ session = "authed" => key \in Trusted(accepted)
    /\ worker.at = "connect" => session # "authed"
    /\ Has(jobs, Close) \/ quit \/ ui.dtor => object # "alive"
    /\ object = "alive" => AskedOk

TrustInv == ~overtaken => TrustOk

(***************************************************************************)
(* The surroundings in which nothing freed is used: the tunnel is switched *)
(* off only when it carries nothing (run ssh_switched_off shows the rest). *)
(***************************************************************************)

Calm ==
    /\ NoReopen /\ "Disable" \notin profile.events
    /\ "DisableSettled" \in profile.events => profile.tunnels = {}

ClosingOf(t) == {Closing(t, b) : b \in BOOLEAN}

\* Tunnels are opened on a connected session, which stays so while it exists.
WiredOk ==
    /\ wired # <<>> => ~Has(jobs, Tries) /\ ~Dialling(worker)
    /\ object = "alive" /\ wired # <<>> => state = "Connected"
    /\ object = "alive" /\ (state = "Connected" \/ Has(events, Is("Connected"))) =>
         /\ ~Has(jobs, Tries) /\ ~Dialling(worker)
         /\ ~Has(events, Prompts) /\ ~host.awaiting
    /\ object = "alive" /\ state = "Connected" => ~Has(events, StateEvents)
    /\ object = "alive" => Then(events, Is("Connected"), Others)

\* The session goes: close() of every tunnel first, then of the session.
GoingOk ==
    /\ ui.dtor => object = "disabled"
    /\ object = "disabled" /\ ui.at # "loop" => ui.dtor
    /\ object = "disabled" /\ ui.at = "loop" =>
         /\ profile.tunnels = {} /\ ~Has(jobs, Tries) /\ ~Dialling(worker)
         /\ ~Has(events, Is("Failed"))
    /\ quit => ui.at = "wait" \/ object = "gone"
    /\ worker.at = "exited" => quit /\ jobs = <<>>
    /\ object = "gone" => worker.at = "exited"
    /\ Has(jobs, Close) => ui.at = "wait" \/ profile.tunnels = {}
    /\ Then(jobs, Close, Close)

\* The deleteLater() of a session that was switched off.
Deletion == {Event("delete", NoTunnel)}

DeletionOk ==
    /\ Once(events, Deletion)
    /\ Has(events, Deletion) => object = "disabled" /\ ui.at = "loop"

\* A tunnel with something to lose is known to the session, and closed by it.
Busy(t) ==
    \/ tunnel[t].pending \/ pump[t].at # "none" \/ InFlight(jobs, worker, events, t)
    \/ Has(jobs, CallsOn(t)) \/ channel[t] = "live"

KnownOk(t) ==
    /\ Busy(t) => Has(wired, {t})
    /\ Has(wired, {t}) \/ tunnel[t].obj = "alive" => t \in profile.tunnels
    /\ tunnel[t].pending \/ pump[t].at # "none" =>
         /\ object # "gone"
         /\ ui.dtor => Has(ui.todo, ClosingOf(t))

\* Whoever will call libssh with a channel has a live one.
LiveOk(t) ==
    /\ Has(jobs, CallsOn(t)) \/ pump[t].at \in {"top", "deliver"} => channel[t] = "live"
    /\ worker.at = "posting" /\ worker.t = t => channel[t] = "live"
    /\ Has(events, {Event("channel", t)}) =>
         channel[t] = "live" \/ ui.at = "wait" \/ worker.at = "exited"

CalmOk ==
    /\ WiredOk /\ GoingOk /\ DeletionOk
    /\ \A t \in Tunnels : KnownOk(t) /\ LiveOk(t)
    /\ deadUse = {}

CalmInv == Calm => CalmOk

IndInv == Types /\ TunnelInv /\ SessionInv /\ CalmInv

-----------------------------------------------------------------------------
(* Queues.                                                                 *)

LEMMA Appending ==
    ASSUME NEW S, NEW q \in Seq(S), NEW x \in S
    PROVE  /\ Append(q, x) \in Seq(S) /\ Append(q, x) # <<>>
           /\ \A A : Has(Append(q, x), A) <=> Has(q, A) \/ x \in A
           /\ \A A : Once(Append(q, x), A) <=> Once(q, A) /\ ~(Has(q, A) /\ x \in A)
           /\ \A A, B : Then(Append(q, x), A, B) <=> Then(q, A, B) /\ (Has(q, A) => x \in B)
  <1> DEFINE r == Append(q, x)
  <1>1. /\ r \in Seq(S) /\ r # <<>> /\ Len(r) = Len(q) + 1 /\ Len(q) \in Nat
        /\ \A i \in 1..Len(q) : r[i] = q[i]
        /\ r[Len(q) + 1] = x
    OBVIOUS
  <1> HIDE DEF r
  <1>2. \A i \in 1..Len(r) : i \in 1..Len(q) \/ i = Len(q) + 1
    BY <1>1
  <1>3. \A i \in 1..Len(q) : i \in 1..Len(r) /\ i # Len(q) + 1 /\ i < Len(q) + 1
    BY <1>1
  <1>4. Len(q) + 1 \in 1..Len(r)
    BY <1>1
  <1>5. ASSUME NEW A
        PROVE  Has(r, A) <=> Has(q, A) \/ x \in A
    BY <1>1, <1>2, <1>3, <1>4 DEF Has
  <1>6. ASSUME NEW A
        PROVE  Once(r, A) <=> Once(q, A) /\ ~(Has(q, A) /\ x \in A)
    <2>1. Once(r, A) => Once(q, A) /\ ~(Has(q, A) /\ x \in A)
      BY <1>1, <1>3, <1>4 DEF Has, Once
    <2>2. Once(q, A) /\ ~(Has(q, A) /\ x \in A) => Once(r, A)
      BY <1>1, <1>2, <1>3 DEF Has, Once
    <2> QED BY <2>1, <2>2
  <1>7. ASSUME NEW A, NEW B
        PROVE  Then(r, A, B) <=> Then(q, A, B) /\ (Has(q, A) => x \in B)
    <2>1. Then(r, A, B) => Then(q, A, B) /\ (Has(q, A) => x \in B)
      BY <1>1, <1>3, <1>4 DEF Has, Then
    <2>2. ASSUME Then(q, A, B), Has(q, A) => x \in B,
                 NEW i \in 1..Len(r), NEW j \in 1..Len(r), r[i] \in A, i < j
          PROVE  r[j] \in B
      <3>1. i \in 1..Len(q)
        BY <1>1, <2>2
      <3>2. CASE j \in 1..Len(q)
        BY <1>1, <2>2, <3>1, <3>2 DEF Then
      <3>3. CASE j = Len(q) + 1
        BY <1>1, <2>2, <3>1, <3>3 DEF Has
      <3> QED BY <1>2, <3>2, <3>3
    <2> QED BY <2>1, <2>2 DEF Then
  <1> QED BY <1>1, <1>5, <1>6, <1>7 DEF r

LEMMA Taking ==
    ASSUME NEW S, NEW q \in Seq(S), q # <<>>
    PROVE  /\ Tail(q) \in Seq(S) /\ Head(q) \in S
           /\ \A A : Has(q, A) <=> Head(q) \in A \/ Has(Tail(q), A)
           /\ \A A : Once(q, A) => Once(Tail(q), A) /\ ~(Head(q) \in A /\ Has(Tail(q), A))
           /\ \A A, B : Then(q, A, B) =>
                /\ Then(Tail(q), A, B)
                /\ Head(q) \in A => \A C : B \cap C = {} => ~Has(Tail(q), C)
  <1> DEFINE r == Tail(q)
  <1>1. /\ r \in Seq(S) /\ Len(q) = Len(r) + 1 /\ Len(r) \in Nat /\ Head(q) = q[1] /\ q[1] \in S
        /\ \A i \in 1..Len(r) : r[i] = q[i + 1]
    OBVIOUS
  <1> HIDE DEF r
  <1>2. \A i \in 1..Len(r) : i + 1 \in 1..Len(q) /\ i + 1 # 1 /\ 1 < i + 1
    BY <1>1
  <1>3. \A i \in 1..Len(q) : i = 1 \/ (i - 1 \in 1..Len(r) /\ q[i] = r[i - 1])
    BY <1>1
  <1>4. 1 \in 1..Len(q)
    BY <1>1
  <1>5. ASSUME NEW A
        PROVE  Has(q, A) <=> q[1] \in A \/ Has(r, A)
    BY <1>1, <1>2, <1>3, <1>4 DEF Has
  <1>6. ASSUME NEW A, Once(q, A)
        PROVE  Once(r, A) /\ ~(q[1] \in A /\ Has(r, A))
    <2>1. \A i, j \in 1..Len(r) : i + 1 = j + 1 => i = j
      OBVIOUS
    <2> QED BY <1>1, <1>2, <1>4, <1>6, <2>1 DEF Has, Once
  <1>7. ASSUME NEW A, NEW B, Then(q, A, B)
        PROVE  Then(r, A, B) /\ (q[1] \in A => \A C : B \cap C = {} => ~Has(r, C))
    <2>1. \A i, j \in 1..Len(r) : i < j => i + 1 < j + 1
      OBVIOUS
    <2>2. Then(r, A, B)
      BY <1>1, <1>2, <1>7, <2>1 DEF Then
    <2>3. q[1] \in A => \A i \in 1..Len(r) : r[i] \in B
      BY <1>1, <1>2, <1>4, <1>7 DEF Then
    <2> QED BY <2>2, <2>3 DEF Has
  <1> QED BY <1>1, <1>5, <1>6, <1>7 DEF r

LEMMA TwoMore ==
    ASSUME NEW S, NEW q \in Seq(S), NEW x \in S, NEW y \in S
    PROVE  q \o <<x, y>> = Append(Append(q, x), y)
  <1> DEFINE a == q \o <<x, y>>
             b == Append(Append(q, x), y)
  <1>1. /\ Len(a) = Len(q) + 2 /\ Len(b) = Len(q) + 2 /\ Len(q) \in Nat
        /\ a \in Seq(S) /\ b \in Seq(S)
    OBVIOUS
  <1>2. ASSUME NEW i \in 1..(Len(q) + 2)
        PROVE  a[i] = b[i]
    <2>1. i \in 1..Len(q) \/ i = Len(q) + 1 \/ i = Len(q) + 2
      OBVIOUS
    <2> QED BY <2>1
  <1> HIDE DEF a, b
  <1>3. a = b
    BY <1>1, <1>2
  <1> QED BY <1>3 DEF a, b

LEMMA OneMore ==
    ASSUME NEW x, NEW y
    PROVE  Append(<<x>>, y) = <<x, y>>
  <1> DEFINE a == Append(<<x>>, y)
             b == <<x, y>>
  <1>0. <<x>> \in Seq({x, y}) /\ Len(<<x>>) = 1
    OBVIOUS
  <1>1. /\ Len(a) = 2 /\ Len(b) = 2 /\ a \in Seq({x, y}) /\ b \in Seq({x, y})
        /\ a[1] = x /\ a[2] = y /\ b[1] = x /\ b[2] = y
    BY <1>0
  <1>2. \A i \in 1..2 : i = 1 \/ i = 2
    OBVIOUS
  <1> HIDE DEF a, b
  <1>3. a = b
    BY <1>1, <1>2
  <1> QED BY <1>3 DEF a, b

LEMMA EmptyQueue ==
    \A A, B : ~Has(<<>>, A) /\ Once(<<>>, A) /\ Then(<<>>, A, B)
  BY DEF Has, Once, Then

LEMMA HasMore ==
    ASSUME NEW q, NEW A, NEW B, A \subseteq B, Has(q, A)
    PROVE  Has(q, B)
  BY DEF Has

-----------------------------------------------------------------------------
(* The records.                                                            *)

\* r is a tunnel with these fields.
Reads(r, obj, pending, abandoned, opened, signals) ==
    /\ r \in TunnelType
    /\ r.obj = obj /\ r.signals = signals
    /\ r.pending = pending /\ r.abandoned = abandoned /\ r.opened = opened

LEMMA NewReads == Reads(NewTunnel, "new", FALSE, FALSE, FALSE, <<>>)
  BY DEF NewTunnel, Reads, TunnelType

LEMMA EmitReads ==
    ASSUME NEW rec \in TunnelType, NEW s \in {"opened", "failed", "closed"}
    PROVE  Reads(Emit(rec, s), rec.obj, rec.pending, rec.abandoned, rec.opened,
                 Append(rec.signals, s))
  BY DEF Emit, Reads, TunnelType

\* open().
LEMMA OpenReads ==
    ASSUME NEW rec \in TunnelType
    PROVE  /\ Reads([[rec EXCEPT !.obj = "alive"] EXCEPT !.pending = TRUE],
                    "alive", TRUE, rec.abandoned, rec.opened, rec.signals)
           /\ Reads([rec EXCEPT !.obj = "alive"],
                    "alive", rec.pending, rec.abandoned, rec.opened, rec.signals)
  BY DEF Reads, TunnelType

\* closeInternal() without a pump.
Closed(rec, del) == [AbandonOpen(rec) EXCEPT !.obj = IF del THEN "gone" ELSE @]

LEMMA ClosedReads ==
    ASSUME NEW rec \in TunnelType, NEW del \in BOOLEAN
    PROVE  Reads(Closed(rec, del), IF del THEN "gone" ELSE rec.obj, FALSE,
                 rec.abandoned \/ rec.pending, rec.opened, rec.signals)
  <1>1. AbandonOpen(rec) \in TunnelType
    BY DEF AbandonOpen, TunnelType
  <1>2. Reads(AbandonOpen(rec), rec.obj, FALSE, rec.abandoned \/ rec.pending, rec.opened,
              rec.signals)
    BY <1>1 DEF AbandonOpen, TunnelType, Reads
  <1> DEFINE r == AbandonOpen(rec)
  <1> HIDE DEF r
  <1>3. ASSUME r \in TunnelType
        PROVE  Reads([r EXCEPT !.obj = IF del THEN "gone" ELSE @],
                     IF del THEN "gone" ELSE r.obj, r.pending, r.abandoned, r.opened, r.signals)
    BY <1>3 DEF Reads, TunnelType
  <1> QED BY <1>1, <1>2, <1>3 DEF Closed, r, Reads

\* The end of a pump.
Joined(rec, del) == [rec EXCEPT !.opened = FALSE, !.obj = IF del THEN "gone" ELSE @]

LEMMA JoinedReads ==
    ASSUME NEW rec \in TunnelType, NEW del \in BOOLEAN
    PROVE  Reads(Joined(rec, del), IF del THEN "gone" ELSE rec.obj, rec.pending,
                 rec.abandoned, FALSE, rec.signals)
  BY DEF Joined, Reads, TunnelType

\* onChannelOpened().
LEMMA ResultReads ==
    ASSUME NEW rec \in TunnelType
    PROVE  /\ Reads([rec EXCEPT !.pending = FALSE],
                    rec.obj, FALSE, rec.abandoned, rec.opened, rec.signals)
           /\ Reads([rec EXCEPT !.pending = FALSE, !.opened = TRUE, !.fd = "open"],
                    rec.obj, FALSE, rec.abandoned, TRUE, rec.signals)
           /\ Reads([rec EXCEPT !.fd = "closed"],
                    rec.obj, rec.pending, rec.abandoned, rec.opened, rec.signals)
  BY DEF Reads, TunnelType

-----------------------------------------------------------------------------
(* What a step leaves of a tunnel's way.                                   *)

\* No job or event for t comes or goes.
JobsSame(q, r, t) ==
    /\ Has(r, OpenOf(t)) <=> Has(q, OpenOf(t))
    /\ Has(r, CallsOn(t)) <=> Has(q, CallsOn(t))
    /\ \A op \in Calls : Has(r, {Job(op, t)}) <=> Has(q, {Job(op, t)})
    /\ Once(q, OpenOf(t)) => Once(r, OpenOf(t))
    /\ Once(q, CallsOn(t)) => Once(r, CallsOn(t))

EventsSame(e, f, t) ==
    /\ Has(f, ResultsOf(t)) <=> Has(e, ResultsOf(t))
    /\ Has(f, {Event("channel", t)}) <=> Has(e, {Event("channel", t)})
    /\ Once(e, ResultsOf(t)) => Once(f, ResultsOf(t))

WorkerSame(w, v, t) ==
    /\ AtWork(v, t) <=> AtWork(w, t)
    /\ (v.at = "posting" /\ v.t = t) <=> (w.at = "posting" /\ w.t = t)

Foreign(x, t) == x \notin OpenOf(t) \cup CallsOn(t)

LEMMA JobsStay ==
    ASSUME NEW q \in Seq(JobType), NEW t \in Tunnels
    PROVE  /\ JobsSame(q, q, t)
           /\ \A x \in JobType : Foreign(x, t) => JobsSame(q, Append(q, x), t)
           /\ q # <<>> /\ Foreign(Head(q), t) => JobsSame(q, Tail(q), t)
  <1>1. ASSUME NEW x, Foreign(x, t)
        PROVE  x \notin OpenOf(t) /\ x \notin CallsOn(t) /\ \A op \in Calls : x \notin {Job(op, t)}
    BY <1>1 DEF Foreign, CallsOn
  <1>2. ASSUME NEW x \in JobType, Foreign(x, t)
        PROVE  JobsSame(q, Append(q, x), t)
    BY <1>1, <1>2, Appending DEF JobsSame
  <1>3. ASSUME q # <<>>, Foreign(Head(q), t)
        PROVE  JobsSame(q, Tail(q), t)
    BY <1>1, <1>3, Taking DEF JobsSame
  <1> QED BY <1>2, <1>3 DEF JobsSame

LEMMA EventsStay ==
    ASSUME NEW e \in Seq(EventType), NEW t \in Tunnels
    PROVE  /\ EventsSame(e, e, t)
           /\ \A x \in EventType : x \notin ResultsOf(t) => EventsSame(e, Append(e, x), t)
           /\ e # <<>> /\ Head(e) \notin ResultsOf(t) => EventsSame(e, Tail(e), t)
  <1>1. ASSUME NEW x, x \notin ResultsOf(t)
        PROVE  x \notin {Event("channel", t)}
    BY <1>1 DEF ResultsOf
  <1>2. ASSUME NEW x \in EventType, x \notin ResultsOf(t)
        PROVE  EventsSame(e, Append(e, x), t)
    BY <1>1, <1>2, Appending DEF EventsSame
  <1>3. ASSUME e # <<>>, Head(e) \notin ResultsOf(t)
        PROVE  EventsSame(e, Tail(e), t)
    BY <1>1, <1>3, Taking DEF EventsSame
  <1> QED BY <1>2, <1>3 DEF EventsSame

LEMMA EventsChain ==
    ASSUME NEW e, NEW f, NEW g, NEW t, EventsSame(e, f, t), EventsSame(f, g, t)
    PROVE  EventsSame(e, g, t)
  BY DEF EventsSame

\* A tunnel whose way a step leaves alone stays in order; its channel may be freed.
LEMMA Untouched ==
    ASSUME NEW t \in Tunnels, NEW q, NEW w, NEW e, NEW rec, NEW p, NEW ch,
           NEW r, NEW v, NEW f, NEW c,
           TunnelFits(q, w, e, rec, p, ch, t),
           JobsSame(q, r, t), WorkerSame(w, v, t), EventsSame(e, f, t),
           c = ch \/ c # "live",
           v.at = "exited" => c # "live"
    PROVE  TunnelFits(r, v, f, rec, p, c, t)
  <1>1. InFlight(r, v, f, t) <=> InFlight(q, w, e, t)
    BY DEF InFlight, JobsSame, WorkerSame, EventsSame
  <1>2. OnePlace(r, v, f, p, t)
    BY <1>1 DEF TunnelFits, OnePlace, JobsSame, WorkerSame, EventsSame
  <1>3. AwaitedOk(rec, InFlight(r, v, f, t), Has(r, CallsOn(t)))
    BY <1>1 DEF TunnelFits, AwaitedOk, JobsSame
  <1>4. CallsOk(r, p, t)
    BY DEF TunnelFits, CallsOk, JobsSame
  <1>5. ChannelOk(c, rec, p, r, v, f, t)
    BY DEF TunnelFits, ChannelOk, JobsSame, WorkerSame, EventsSame, Calls
  <1> QED BY <1>2, <1>3, <1>4, <1>5 DEF TunnelFits

-----------------------------------------------------------------------------
(* Types.                                                                  *)

LEMMA Made ==
    /\ \A op \in {"open", "close", "trust"} : Job(op, NoTunnel) \in JobType
    /\ \A t \in Tunnels, op \in {"channel"} \cup Calls : Job(op, t) \in JobType
    /\ \A s \in States : Event("state", s) \in EventType
    /\ \A k \in Keys : Event("prompt", k) \in EventType
    /\ \A t \in Tunnels \cup {NoTunnel} : Event("delete", t) \in EventType
    /\ \A t \in Tunnels, k \in {"channel", "noChannel", "finished"} : Event(k, t) \in EventType
    /\ \A p \in {"idle", "connect", "auth", "exited"} : Doing(p, NoTunnel) \in WorkerType
    /\ \A t \in Tunnels, p \in {"channel", "posting"} : Doing(p, t) \in WorkerType
    /\ Idle \in WorkerType
  BY DEF Job, JobType, Event, EventType, Doing, WorkerType, Idle

LEMMA MadeJobs ==
    \A t \in Tunnels : Job("channel", t) \in JobType /\ \A op \in Calls : Job(op, t) \in JobType
  BY Made

LEMMA MadeStates ==
    /\ Event("state", "Failed") \in EventType /\ Event("state", "Connecting") \in EventType
    /\ Event("state", "Authenticating") \in EventType
    /\ Event("state", "NeedsHostKeyTrust") \in EventType
    /\ Event("state", "Connected") \in EventType /\ Event("state", "Disconnected") \in EventType
  BY Made DEF States

\* What the members of the queues are.
LEMMA JobIs ==
    ASSUME NEW x \in JobType
    PROVE  /\ x = Job(x.op, x.t)
           /\ x.op \in {"open", "close", "trust"} => x.t = NoTunnel
           /\ x.op \in {"channel"} \cup Calls => x.t \in Tunnels
           /\ x.op \in {"open", "close", "trust", "channel"} \cup Calls
  BY DEF JobType, Job, Calls

LEMMA EventIs ==
    ASSUME NEW x \in EventType
    PROVE  /\ x = Event(x.kind, x.val)
           /\ x.kind = "state" => x.val \in States
           /\ x.kind = "prompt" => x.val \in Keys
           /\ x.kind = "delete" => x.val \in Tunnels \cup {NoTunnel}
           /\ x.kind \in {"channel", "noChannel", "finished"} => x.val \in Tunnels
           /\ x.kind \in {"state", "prompt", "delete", "channel", "noChannel", "finished"}
  BY DEF EventType, Event

LEMMA WorkerIs ==
    ASSUME NEW w \in WorkerType
    PROVE  /\ w.at \in {"idle", "connect", "auth", "exited"} => w.t = NoTunnel
           /\ w.at \in {"channel", "posting"} => w.t \in Tunnels
           /\ w.at \in {"idle", "connect", "auth", "exited", "channel", "posting"}
           /\ w.at = "idle" => w = Idle
  BY DEF WorkerType, Idle, Doing

LEMMA PostDeleteTyped ==
    ASSUME NEW q \in Seq(EventType), NEW t \in Tunnels
    PROVE  /\ PostDelete(q, t) \in Seq(EventType)
           /\ PostDelete(q, t) = q \/ PostDelete(q, t) = Append(q, Event("delete", t))
  <1>1. Event("delete", t) \in EventType
    BY Made
  <1> QED BY <1>1 DEF PostDelete

SessionUi == SetConfigEnabled \/ SetConfigDisabled \/ TrustPendingHostKey \/ UiReacts
TunnelUi ==
    \/ \E t \in Tunnels : OpenTunnel(t) \/ CloseTunnel(t) \/ DeleteTunnel(t)
    \/ DestroySession \/ DeleteLater \/ CloseIdle \/ CloseStops \/ CloseJoins
    \/ HandleResult \/ HandleFinished
TunnelWork == WorkerChannel \/ ChannelEnds \/ PostResult \/ WorkerCalls
PumpWork == \E t \in Tunnels : PumpThread(t) \/ ConsumerCloses(t)

LEMMA NextIs ==
    Next => \/ (SessionUi \/ WorkerSession) /\ UNCHANGED tunnelVars
            \/ TunnelUi \/ TunnelWork \/ PumpWork
  BY DEF Next, User, UiThread, WorkerThread, SessionUi, TunnelUi, TunnelWork, PumpWork, UiSession

\* The first event, and what is left.
LEMMA FirstEvent ==
    ASSUME Types, NEW k, NextEvent(k)
    PROVE  /\ events # <<>> /\ Head(events) \in EventType /\ Tail(events) \in Seq(EventType)
           /\ Head(events).kind = k /\ Head(events) = Event(k, Head(events).val)
           /\ ui.at = "loop" /\ ui = InLoop
  <1>1. events \in Seq(EventType) /\ events # <<>>
    BY DEF Types, ThreadTypes, NextEvent
  <1> QED BY <1>1, Taking, EventIs DEF NextEvent, Types, ThreadTypes

LEMMA FirstJob ==
    ASSUME Types, jobs # <<>>
    PROVE  /\ Head(jobs) \in JobType /\ Tail(jobs) \in Seq(JobType)
           /\ Head(jobs) = Job(Head(jobs).op, Head(jobs).t)
  BY Taking, JobIs DEF Types, ThreadTypes

LEMMA SessionUiTypes ==
    ASSUME Types, SessionUi, UNCHANGED tunnelVars
    PROVE  Types'
  <1> USE DEF Types, SessionTypes, ThreadTypes
  <1>0. TunnelTypes' /\ wired' = wired
    BY DEF SessionUi, TunnelTypes, tunnelVars, libssh, SetConfigEnabled, SetConfigDisabled,
           TrustPendingHostKey, UiReacts, HandleState, HandlePrompt, StopWorker, Destroyed
  <1>1. CASE SetConfigEnabled
    <2>1. jobs' \in Seq(JobType)
      BY <1>1, Appending, Made DEF SetConfigEnabled
    <2> QED BY <1>0, <1>1, <2>1 DEF SetConfigEnabled, libssh
  <1>2. CASE SetConfigDisabled
    <2>1. jobs' \in Seq(JobType) /\ events' \in Seq(EventType)
      BY <1>2, Appending, Made DEF SetConfigDisabled
    <2>2. host' \in [awaiting : BOOLEAN, key : Keys \cup {NoKey}] /\ ~host'.awaiting
      BY <1>2 DEF SetConfigDisabled, NoPrompt
    <2> QED BY <1>0, <1>2, <2>1, <2>2 DEF SetConfigDisabled, libssh
  <1>3. CASE TrustPendingHostKey
    <2>1. jobs' \in Seq(JobType)
      BY <1>3, Appending, Made DEF TrustPendingHostKey
    <2>2. host' \in [awaiting : BOOLEAN, key : Keys \cup {NoKey}] /\ ~host'.awaiting
      BY <1>3 DEF TrustPendingHostKey, NoPrompt
    <2>3. accepted' \subseteq Keys
      BY <1>3 DEF TrustPendingHostKey
    <2> QED BY <1>0, <1>3, <2>1, <2>2, <2>3 DEF TrustPendingHostKey, libssh
  <1>4. CASE HandleState
    <2>1. NextEvent("state") /\ Head(events).val \in States /\ Tail(events) \in Seq(EventType)
      BY <1>4, FirstEvent, EventIs DEF HandleState
    <2> QED BY <1>0, <1>4, <2>1 DEF HandleState, libssh
  <1>5. CASE HandlePrompt
    <2>1. NextEvent("prompt") /\ Head(events).val \in Keys /\ Tail(events) \in Seq(EventType)
      BY <1>5, FirstEvent, EventIs DEF HandlePrompt
    <2>2. /\ host' \in [awaiting : BOOLEAN, key : Keys \cup {NoKey}]
          /\ host'.awaiting => host'.key \in Keys
      BY <1>5, <2>1 DEF HandlePrompt
    <2> QED BY <1>0, <1>5, <2>1, <2>2 DEF HandlePrompt, libssh
  <1>6. CASE StopWorker
    <2>1. jobs' \in Seq(JobType)
      BY <1>6, Appending, Made DEF StopWorker
    <2>2. /\ ui' \in [at : {"loop", "closing", "join", "wait"}, todo : Seq(ClosingType),
                      dtor : BOOLEAN]
          /\ ui'.at = "wait" /\ ui'.dtor /\ ui'.todo = <<>>
      BY <1>6 DEF StopWorker
    <2> QED BY <1>0, <1>6, <2>1, <2>2 DEF StopWorker, libssh
  <1>7. CASE Destroyed
    <2>1. /\ InLoop \in [at : {"loop", "closing", "join", "wait"}, todo : Seq(ClosingType),
                         dtor : BOOLEAN]
          /\ InLoop.at = "loop"
      BY DEF InLoop
    <2> QED BY <1>0, <1>7, <2>1 DEF Destroyed, libssh
  <1> QED BY <1>1, <1>2, <1>3, <1>4, <1>5, <1>6, <1>7 DEF SessionUi, UiReacts

-----------------------------------------------------------------------------
(* The tunnels that ~SshSession() closes.                                  *)

LEMMA AmongIs ==
    ASSUME NEW X, NEW q \in Seq(X), NEW S
    PROVE  /\ Among(q, S) \in Seq(X)
           /\ \A x \in S : Has(q, {x}) => Has(Among(q, S), {x})
  <1> DEFINE Good(p) == \A x \in S : Has(p, {x}) => Has(Among(p, S), {x})
             N == {k \in Nat : \A p \in Seq(X) : Len(p) = k => Good(p)}
  <1>1. 0 \in N
    <2>1. \A p \in Seq(X) : Len(p) = 0 => p = <<>>
      OBVIOUS
    <2>2. \A p \in Seq(X) : Len(p) = 0 => Good(p)
      BY <2>1, EmptyQueue
    <2> HIDE DEF Good
    <2> QED BY <2>2
  <1>2. ASSUME NEW k \in N
        PROVE  k + 1 \in N
    <2>1. k \in Nat /\ k + 1 \in Nat /\ \A p \in Seq(X) : Len(p) = k => Good(p)
      <3> HIDE DEF Good
      <3> QED OBVIOUS
    <2> HIDE DEF N
    <2>2. ASSUME NEW p \in Seq(X), Len(p) = k + 1
          PROVE  Good(p)
      <3>1. \E t \in Seq(X), y \in X : p = Append(t, y) /\ Len(t) = k
        BY <2>1, <2>2, LastOf
      <3>2. PICK t \in Seq(X), y \in X : p = Append(t, y) /\ Len(t) = k
        BY <3>1
      <3>3. Good(t) /\ Among(t, S) \in Seq(X)
        BY <2>1, <3>2, AmongTyped
      <3>4. ASSUME NEW x \in S, Has(p, {x})
            PROVE  Has(Among(p, S), {x})
        <4> DEFINE a == Among(t, S)
        <4>1. Has(t, {x}) \/ y \in {x}
          BY <3>2, <3>4, Appending
        <4>2. y \in S => Among(p, S) = Append(a, y)
          BY <3>2, AmongSteps
        <4>3. y \notin S => Among(p, S) = a
          BY <3>2, AmongSteps
        <4>4. Has(t, {x}) => Has(a, {x})
          BY <3>3, <3>4
        <4>5. a \in Seq(X)
          BY <3>3
        <4> HIDE DEF a
        <4>6. Has(Append(a, y), {x}) <=> Has(a, {x}) \/ y \in {x}
          BY <4>5, Appending
        <4> QED BY <4>1, <4>2, <4>3, <4>4, <4>6
      <3> QED BY <3>4
    <2> HIDE DEF Good
    <2> QED BY <2>1, <2>2 DEF N
  <1> HIDE DEF N, Good
  <1>3. N \in SUBSET Nat
    BY DEF N
  <1>4. Len(q) \in Nat
    OBVIOUS
  <1>5. Good(q)
    <2>1. Len(q) \in N
      BY <1>1, <1>2, <1>3, <1>4, Induct
    <2> QED BY <2>1 DEF N
  <1> QED BY <1>5, AmongTyped DEF Good

LEMMA SeqOf ==
    ASSUME NEW S, NEW n \in Nat, NEW f \in [1..n -> S]
    PROVE  f \in Seq(S) /\ Len(f) = n
  OBVIOUS

LEMMA DestroyCloses ==
    ASSUME Types
    PROVE  /\ AboutToDestroy \in Seq(ClosingType)
           /\ \A t \in Tunnels : tunnel[t].obj = "alive" /\ Has(wired, {t}) =>
                Has(AboutToDestroy, ClosingOf(t))
  <1> DEFINE S == {t \in Tunnels : tunnel[t].obj = "alive"}
             l == Among(wired, S)
  <1>1. wired \in Seq(Tunnels)
    BY DEF Types, ThreadTypes
  <1>2. l \in Seq(Tunnels) /\ \A x \in S : Has(wired, {x}) => Has(l, {x})
    BY <1>1, AmongIs
  <1>3. AboutToDestroy = [i \in DOMAIN l |-> Closing(l[i], FALSE)]
    BY DEF AboutToDestroy, Living
  <1> HIDE DEF l
  <1>4. DOMAIN l = 1..Len(l) /\ Len(l) \in Nat /\ \A i \in 1..Len(l) : l[i] \in Tunnels
    BY <1>2
  <1>5. \A i \in 1..Len(l) : Closing(l[i], FALSE) \in ClosingType
    BY <1>4 DEF Closing, ClosingType
  <1> DEFINE a == [i \in 1..Len(l) |-> Closing(l[i], FALSE)]
  <1>6. a \in Seq(ClosingType) /\ Len(a) = Len(l)
    <2>1. a \in [1..Len(l) -> ClosingType]
      BY <1>5
    <2> HIDE DEF a
    <2> QED BY <1>4, <2>1, SeqOf
  <1>7. \A i \in 1..Len(l) : a[i] = Closing(l[i], FALSE)
    OBVIOUS
  <1>8. AboutToDestroy = a
    BY <1>3, <1>4
  <1> HIDE DEF a
  <1>9. ASSUME NEW t \in Tunnels, tunnel[t].obj = "alive", Has(wired, {t})
        PROVE  Has(a, ClosingOf(t))
    <2>1. PICK i \in 1..Len(l) : l[i] = t
      BY <1>2, <1>9 DEF Has
    <2> QED BY <1>6, <1>7, <2>1 DEF Has, ClosingOf
  <1> QED BY <1>6, <1>8, <1>9

-----------------------------------------------------------------------------
(* Types, continued.                                                       *)

LEMMA FreedTyped ==
    ASSUME Types
    PROVE  /\ Freed \in [Tunnels -> ChannelStates]
           /\ \A t \in Tunnels : Freed[t] # "live"
  BY DEF Types, TunnelTypes, Freed, ChannelStates

LEMMA WorkerSessionTypes ==
    ASSUME Types, WorkerSession, UNCHANGED tunnelVars
    PROVE  Types'
  <1> USE DEF Types, SessionTypes, ThreadTypes
  <1>0. tunnel' = tunnel /\ pump' = pump /\ wired' = wired
    BY DEF tunnelVars
  <1>1. /\ channel' = channel \/ channel' = Freed => TunnelTypes'
        /\ \A x \in EventType : Append(events, x) \in Seq(EventType)
    BY <1>0, FreedTyped, Appending DEF TunnelTypes
  <1>2. CASE WorkerOpen
    <2>1. jobs' \in Seq(JobType)
      BY <1>2, FirstJob DEF WorkerOpen, Takes
    <2>2. worker' \in WorkerType /\ events' \in Seq(EventType) /\ TunnelTypes'
      BY <1>1, <1>2, Made, MadeStates DEF WorkerOpen
    <2> QED BY <1>0, <1>2, <2>1, <2>2 DEF WorkerOpen, uiVars
  <1>3. CASE ConnectAborted
    <2>1. worker' \in WorkerType /\ TunnelTypes'
      BY <1>1, <1>3, Made DEF ConnectAborted, libssh
    <2> QED BY <1>0, <1>3, <2>1 DEF ConnectAborted, uiVars, libssh
  <1>4. CASE ConnectFails
    <2>1. worker' \in WorkerType /\ events' \in Seq(EventType) /\ TunnelTypes'
      BY <1>1, <1>4, Made, MadeStates DEF ConnectFails, FailSession, FreeSession
    <2> QED BY <1>0, <1>4, <2>1 DEF ConnectFails, FailSession, FreeSession, uiVars
  <1>5. ASSUME NEW k \in Keys, Connected(k)
        PROVE  Types'
    <2>1. worker' \in WorkerType /\ TunnelTypes'
      BY <1>1, <1>5, Made DEF Connected
    <2>2. events' \in Seq(EventType)
      <3>1. Event("prompt", k) \in EventType /\ Event("state", "NeedsHostKeyTrust") \in EventType
        BY Made, MadeStates
      <3>2. events \o <<Event("state", "NeedsHostKeyTrust"), Event("prompt", k)>>
              = Append(Append(events, Event("state", "NeedsHostKeyTrust")), Event("prompt", k))
        BY <3>1, TwoMore
      <3>3. CASE VerifyPinned(k)
        BY <1>1, <1>5, <3>3, MadeStates DEF Connected
      <3>4. CASE ~VerifyPinned(k)
        <4>1. events' = Append(Append(events, Event("state", "NeedsHostKeyTrust")),
                               Event("prompt", k))
          BY <1>5, <3>2, <3>4 DEF Connected
        <4> QED BY <3>1, <4>1, Appending
      <3> QED BY <3>3, <3>4
    <2>3. awaiting' \in BOOLEAN /\ pendingKey' \in Keys \cup {NoKey}
      BY <1>5 DEF Connected
    <2> QED BY <1>0, <1>5, <2>1, <2>2, <2>3 DEF Connected, uiVars
  <1>6. CASE ResumeAfterHostKeyTrust
    <2>1. jobs' \in Seq(JobType)
      BY <1>6, FirstJob DEF ResumeAfterHostKeyTrust, ResumeUnguarded, ResumeNoop, Takes
    <2>2. worker' \in WorkerType /\ events' \in Seq(EventType) /\ TunnelTypes'
      BY <1>1, <1>6, Made, MadeStates
         DEF ResumeAfterHostKeyTrust, ResumeUnguarded, ResumeNoop, libssh
    <2> QED BY <1>0, <1>6, <2>1, <2>2, ZenonT(30)
            DEF ResumeAfterHostKeyTrust, ResumeUnguarded, ResumeNoop, libssh, uiVars
  <1>7. CASE Authenticated
    <2>1. worker' \in WorkerType /\ events' \in Seq(EventType) /\ TunnelTypes'
      BY <1>1, <1>7, Made, MadeStates DEF Authenticated
    <2> QED BY <1>0, <1>7, <2>1 DEF Authenticated, uiVars
  <1>8. CASE WorkerClose
    <2>1. jobs' \in Seq(JobType)
      BY <1>8, FirstJob DEF WorkerClose, Takes
    <2>2. events' \in Seq(EventType) /\ TunnelTypes'
      BY <1>1, <1>8, MadeStates DEF WorkerClose, FreeSession
    <2> QED BY <1>0, <1>8, <2>1, <2>2 DEF WorkerClose, FreeSession, uiVars
  <1>9. CASE WorkerExits
    <2>1. worker' \in WorkerType /\ TunnelTypes'
      BY <1>1, <1>9, Made DEF WorkerExits, FreeSession
    <2> QED BY <1>0, <1>9, <2>1 DEF WorkerExits, FreeSession, uiVars
  <1> QED BY <1>2, <1>3, <1>4, <1>5, <1>6, <1>7, <1>8, <1>9 DEF WorkerSession

UiType == [at : {"loop", "closing", "join", "wait"}, todo : Seq(ClosingType), dtor : BOOLEAN]

\* Entering close(), and going on after it.
LEMMA EnterTyped ==
    ASSUME NEW calls \in Seq(ClosingType), NEW d \in BOOLEAN, EnterClose(calls, d)
    PROVE  ui' \in UiType /\ ui'.at = "closing" /\ ui'.todo = calls /\ ui'.dtor = d
  BY DEF EnterClose, UiType

LEMMA OneCall ==
    ASSUME NEW t \in Tunnels, NEW b \in BOOLEAN
    PROVE  <<Closing(t, b)>> \in Seq(ClosingType)
  <1>1. Closing(t, b) \in ClosingType
    BY DEF Closing, ClosingType
  <1> QED BY <1>1

LEMMA NextTyped ==
    ASSUME Types, ui.todo # <<>>, NextClose
    PROVE  /\ ui' \in UiType /\ ui'.at \in {"loop", "closing"}
           /\ ui'.at = "loop" => ui' = InLoop
           /\ ~ui.dtor => ui' = InLoop
           /\ ui.dtor => ui'.at = "closing" /\ ui'.todo = Tail(ui.todo) /\ ui'.dtor
           /\ Head(ui.todo) \in ClosingType
  <1>1. ui \in UiType /\ ui.todo \in Seq(ClosingType)
    BY DEF Types, ThreadTypes, UiType
  <1>2. Tail(ui.todo) \in Seq(ClosingType) /\ Head(ui.todo) \in ClosingType
    BY <1>1, Taking
  <1>3. CASE ui.dtor
    <2>1. ui' = [[ui EXCEPT !.at = "closing"] EXCEPT !.todo = Tail(ui.todo)]
      BY <1>1, <1>3 DEF NextClose, UiType
    <2>2. ui' = [at |-> "closing", todo |-> Tail(ui.todo), dtor |-> TRUE]
      BY <1>1, <1>3, <2>1 DEF UiType
    <2> QED BY <1>2, <1>3, <2>2 DEF UiType
  <1>4. CASE ~ui.dtor
    <2>1. ui' = InLoop
      BY <1>4 DEF NextClose
    <2>2. InLoop \in UiType /\ InLoop.at = "loop"
      BY DEF InLoop, UiType
    <2> QED BY <1>2, <1>4, <2>1, <2>2
  <1> QED BY <1>3, <1>4

\* What the handlers of the UI thread never touch.
LEMMA TunnelUiFrame ==
    ASSUME Types, TunnelUi
    PROVE  /\ SessionTypes'
           /\ ~HandleResult => channel' = channel
           /\ HandleResult => \/ channel' = channel
                               \/ /\ Lose(Head(events).val) /\ tunnel[Head(events).val].obj = "gone"
                                  /\ NextEvent("channel")
           /\ worker' = worker /\ session' = session /\ key' = key
           /\ overtaken' = overtaken
           /\ awaiting' = awaiting /\ state' = state /\ host' = host /\ accepted' = accepted
           /\ stop' = stop /\ quit' = quit /\ deadUse' = deadUse /\ profile' = profile
           /\ object' = object \/ (object' = "disabled" /\ DestroySession)
  <1> USE DEF Types, SessionTypes, uiVars, libssh, tunnelVars, sessionVars
  <1>1. ASSUME NEW t \in Tunnels, OpenTunnel(t) \/ CloseTunnel(t) \/ DeleteTunnel(t)
        PROVE  <<profile, object, state, host, accepted, opens, worker, libssh, stop, quit,
                 deadUse>>' =
               <<profile, object, state, host, accepted, opens, worker, libssh, stop, quit, deadUse>>
    BY <1>1 DEF OpenTunnel, CloseTunnel, DeleteTunnel
  <1>2. DeleteLater \/ CloseIdle \/ CloseStops \/ CloseJoins \/ HandleFinished =>
          <<profile, object, state, host, accepted, opens, worker, libssh, stop, quit,
            deadUse>>' =
          <<profile, object, state, host, accepted, opens, worker, libssh, stop, quit, deadUse>>
    BY DEF DeleteLater, CloseIdle, CloseStops, CloseJoins, HandleFinished
  <1>4. HandleResult =>
          /\ <<profile, object, state, host, accepted, opens, worker, session, key, awaiting,
               pendingKey, overtaken, stop, quit, deadUse>>' =
             <<profile, object, state, host, accepted, opens, worker, session, key, awaiting,
               pendingKey, overtaken, stop, quit, deadUse>>
          /\ \/ channel' = channel
             \/ /\ Lose(Head(events).val) /\ tunnel[Head(events).val].obj = "gone"
                /\ NextEvent("channel")
    BY DEF HandleResult, ResultDropped, ResultAbandoned, OnChannelOpened, OnChannelFailed,
           NextEvent
  <1>3. DestroySession =>
          /\ <<profile, state, host, accepted, opens, worker, libssh, stop, quit, deadUse>>' =
             <<profile, state, host, accepted, opens, worker, libssh, stop, quit, deadUse>>
          /\ object' = "disabled"
    BY DEF DestroySession
  <1> QED BY <1>1, <1>2, <1>3, <1>4 DEF TunnelUi

LEMMA LoseTyped ==
    ASSUME Types, NEW t, Lose(t)
    PROVE  /\ channel' \in [Tunnels -> ChannelStates]
           /\ \A u \in Tunnels : u # t => channel'[u] = channel[u]
           /\ t \in Tunnels => channel'[t] # "live" /\ (channel[t] # "live" => channel'[t] = channel[t])
  BY DEF Types, TunnelTypes, ChannelStates, Lose

LEMMA TunnelUiTypes ==
    ASSUME Types, TunnelUi
    PROVE  Types'
  <1>0. /\ SessionTypes' /\ worker' = worker /\ channel' \in [Tunnels -> ChannelStates]
        /\ events \in Seq(EventType) /\ jobs \in Seq(JobType) /\ worker \in WorkerType
        /\ wired \in Seq(Tunnels) /\ tunnel \in [Tunnels -> TunnelType]
        /\ pump \in [Tunnels -> PumpType] /\ ui \in UiType
        /\ channel \in [Tunnels -> ChannelStates]
        /\ ui.at = "join" => ui.todo # <<>>
    BY TunnelUiFrame, LoseTyped DEF Types, ThreadTypes, TunnelTypes, UiType
  <1>1. SUFFICES /\ ui' \in UiType /\ (ui'.at = "join" => ui'.todo # <<>>)
                 /\ ui'.at = "loop" => ui' = InLoop
                 /\ ui'.at = "wait" => ui'.dtor /\ ui'.todo = <<>>
                 /\ events' \in Seq(EventType) /\ jobs' \in Seq(JobType)
                 /\ wired' \in Seq(Tunnels)
                 /\ tunnel' \in [Tunnels -> TunnelType] /\ pump' \in [Tunnels -> PumpType]
    BY <1>0 DEF Types, ThreadTypes, TunnelTypes, UiType
  <1>2. /\ ui.at = "loop" => ui = InLoop
        /\ ui.at = "wait" => ui.dtor /\ ui.todo = <<>>
    BY DEF Types, ThreadTypes
  <1>3. ASSUME NEW t \in Tunnels, OpenTunnel(t)
        PROVE  <1>1!1
    <2>1. tunnel[t] \in TunnelType
      BY <1>0
    <2>2. UNCHANGED <<ui, events, pump>>
      BY <1>3 DEF OpenTunnel, uiVars
    <2>3. CASE state = "Connected"
      <3>1. jobs' \in Seq(JobType) /\ wired' \in Seq(Tunnels)
        <4>1. Job("channel", t) \in JobType
          BY MadeJobs
        <4>2. jobs' = Append(jobs, Job("channel", t)) /\ wired' = Append(wired, t)
          BY <1>3, <2>3 DEF OpenTunnel
        <4> QED BY <1>0, <4>1, <4>2
      <3>2. tunnel' = [tunnel EXCEPT ![t] = [[tunnel[t] EXCEPT !.obj = "alive"]
                                                EXCEPT !.pending = TRUE]]
        BY <1>0, <1>3, <2>3 DEF OpenTunnel
      <3>3. tunnel' \in [Tunnels -> TunnelType]
        BY <1>0, <2>1, <3>2, OpenReads DEF Reads
      <3> QED BY <1>0, <1>2, <2>2, <3>1, <3>3
    <2>4. CASE state # "Connected"
      <3>1. jobs' = jobs /\ wired' = wired
        BY <1>3, <2>4 DEF OpenTunnel
      <3>2. tunnel' = [tunnel EXCEPT ![t] = Emit([tunnel[t] EXCEPT !.obj = "alive"], "failed")]
        BY <1>3, <2>4 DEF OpenTunnel
      <3>3. Emit([tunnel[t] EXCEPT !.obj = "alive"], "failed") \in TunnelType
        BY <2>1, OpenReads, EmitReads DEF Reads
      <3>4. tunnel' \in [Tunnels -> TunnelType]
        BY <1>0, <3>2, <3>3
      <3> QED BY <1>0, <1>2, <2>2, <3>1, <3>4
    <2> QED BY <2>3, <2>4
  <1>4. ASSUME NEW t \in Tunnels, CloseTunnel(t) \/ DeleteTunnel(t)
        PROVE  <1>1!1
    <2>1. UNCHANGED <<events, jobs, tunnel, pump, wired>>
      BY <1>4 DEF CloseTunnel, DeleteTunnel, tunnelVars
    <2>2. ui' \in UiType /\ ui'.at = "closing"
      BY <1>4, OneCall, EnterTyped DEF CloseTunnel, DeleteTunnel
    <2> QED BY <1>0, <2>1, <2>2
  <1>5. CASE DestroySession
    <2>1. UNCHANGED <<jobs, tunnel, pump, wired>>
      BY <1>5 DEF DestroySession, tunnelVars
    <2>2. ui' \in UiType /\ ui'.at = "closing"
      BY <1>5, DestroyCloses, EnterTyped DEF DestroySession
    <2>3. events' \in Seq(EventType)
      BY <1>0, <1>5, FirstEvent DEF DestroySession
    <2> QED BY <1>0, <2>1, <2>2, <2>3
  <1>6. CASE DeleteLater \/ HandleFinished
    <2>1. UNCHANGED <<jobs, tunnel, pump, wired>>
      BY <1>6 DEF DeleteLater, HandleFinished, tunnelVars
    <2>2. events' \in Seq(EventType) /\ Head(events).val \in Tunnels /\ ui = InLoop
      BY <1>6, FirstEvent, EventIs DEF DeleteLater, HandleFinished
    <2>3. CASE ui' = ui
      BY <1>0, <1>2, <2>1, <2>2, <2>3
    <2>4. CASE ui' # ui
      <3>1. ui' \in UiType /\ ui'.at = "closing"
        BY <1>6, <2>2, <2>4, OneCall, EnterTyped DEF DeleteLater, HandleFinished
      <3> QED BY <1>0, <2>1, <2>2, <3>1
    <2> QED BY <2>3, <2>4
  <1>7. CASE CloseIdle
    <2> DEFINE c == Head(ui.todo)
    <2>1. /\ ui'  \in UiType /\ ui'.at \in {"loop", "closing"} /\ (ui'.at = "loop" => ui' = InLoop)
          /\ c \in ClosingType
      BY <1>7, NextTyped DEF CloseIdle
    <2>2. c.t \in Tunnels /\ c.del \in BOOLEAN /\ tunnel[c.t] \in TunnelType
      BY <1>0, <2>1 DEF ClosingType
    <2>3. UNCHANGED <<jobs, pump, wired>>
      BY <1>7 DEF CloseIdle
    <2>4. events' \in Seq(EventType)
      BY <1>0, <1>7, <2>2, PostDeleteTyped DEF CloseIdle
    <2>5. \/ tunnel' = [tunnel EXCEPT ![c.t] = Emit(Closed(tunnel[c.t], c.del), "failed")]
          \/ tunnel' = [tunnel EXCEPT ![c.t] = Closed(tunnel[c.t], c.del)]
      BY <1>7 DEF CloseIdle, Closed
    <2>6. Closed(tunnel[c.t], c.del) \in TunnelType
      BY <2>2, ClosedReads DEF Reads
    <2>7. Emit(Closed(tunnel[c.t], c.del), "failed") \in TunnelType
      BY <2>6, EmitReads DEF Reads
    <2> HIDE DEF c
    <2>8. tunnel' \in [Tunnels -> TunnelType]
      BY <1>0, <2>2, <2>5, <2>6, <2>7
    <2> QED BY <1>0, <2>1, <2>3, <2>4, <2>8
  <1>8. CASE CloseStops
    <2>1. UNCHANGED <<events, jobs, tunnel, wired>>
      BY <1>8 DEF CloseStops
    <2>2. ui' \in UiType /\ ui'.at = "join" /\ ui'.todo = ui.todo /\ ui.todo # <<>>
      BY <1>0, <1>8 DEF CloseStops, UiType
    <2>3. Head(ui.todo) \in ClosingType
      BY <1>0, <2>2, Taking DEF UiType
    <2>4. pump' \in [Tunnels -> PumpType]
      BY <1>0, <1>8, <2>3 DEF CloseStops, StopPump, PumpType, ClosingType
    <2> QED BY <1>0, <2>1, <2>2, <2>4
  <1>9. CASE CloseJoins
    <2> DEFINE c == Head(ui.todo)
    <2>1. /\ ui'  \in UiType /\ ui'.at \in {"loop", "closing"} /\ (ui'.at = "loop" => ui' = InLoop)
          /\ c \in ClosingType
      BY <1>0, <1>9, NextTyped DEF CloseJoins
    <2>2. c.t \in Tunnels /\ c.del \in BOOLEAN /\ tunnel[c.t] \in TunnelType
      BY <1>0, <2>1 DEF ClosingType
    <2>3. UNCHANGED <<jobs, wired>> /\ pump' = [pump EXCEPT ![c.t] = NoPump]
      BY <1>9 DEF CloseJoins
    <2>4. events' \in Seq(EventType)
      BY <1>0, <1>9, <2>2, PostDeleteTyped DEF CloseJoins
    <2>5. \/ tunnel' = [tunnel EXCEPT ![c.t] = Emit(Joined(tunnel[c.t], c.del), "closed")]
          \/ tunnel' = [tunnel EXCEPT ![c.t] = Joined(tunnel[c.t], c.del)]
      BY <1>9 DEF CloseJoins, Joined
    <2>6. Joined(tunnel[c.t], c.del) \in TunnelType
      BY <2>2, JoinedReads DEF Reads
    <2>7. Emit(Joined(tunnel[c.t], c.del), "closed") \in TunnelType
      BY <2>6, EmitReads DEF Reads
    <2> HIDE DEF c
    <2>8. tunnel' \in [Tunnels -> TunnelType] /\ pump' \in [Tunnels -> PumpType]
      BY <1>0, <2>2, <2>3, <2>5, <2>6, <2>7 DEF NoPump, PumpType
    <2> QED BY <1>0, <2>1, <2>3, <2>4, <2>8
  <1>10. CASE HandleResult
    <2> DEFINE t == Head(events).val
               ch == Head(events).kind = "channel"
    <2>1. t \in Tunnels /\ Tail(events) \in Seq(EventType) /\ events # <<>>
      BY <1>10, FirstEvent, EventIs DEF HandleResult
    <2>2. UNCHANGED <<ui, wired>>
      BY <1>10 DEF HandleResult, uiVars
    <2>3. events' \in Seq(EventType)
      BY <1>10, <2>1, PostDeleteTyped DEF HandleResult
    <2>4. tunnel[t] \in TunnelType /\ pump[t] \in PumpType
      BY <1>0, <2>1
    <2>5. \/ ResultDropped(ch, t) \/ ResultAbandoned(ch, t)
          \/ OnChannelOpened(ch, t) \/ OnChannelFailed(ch, t)
      BY <1>10 DEF HandleResult
    <2> HIDE DEF t, ch
    <2>6. jobs' \in Seq(JobType)
      <3>1. Job("free", t) \in JobType
        BY <2>1, MadeJobs DEF Calls
      <3>2. jobs' = jobs \/ jobs' = Append(jobs, Job("free", t))
        BY <2>5 DEF ResultDropped, ResultAbandoned, OnChannelOpened, OnChannelFailed, ReturnChannel
      <3>3. jobs \in Seq(JobType)
        BY <1>0
      <3>4. Append(jobs, Job("free", t)) \in Seq(JobType)
        BY <3>1, <3>3
      <3> QED BY <3>2, <3>3, <3>4
    <2>7. /\ tunnel' \in [Tunnels -> TunnelType] /\ pump' \in [Tunnels -> PumpType]
      <3>1. CASE ResultDropped(ch, t) \/ ResultAbandoned(ch, t)
        BY <1>0, <3>1 DEF ResultDropped, ResultAbandoned
      <3>2. CASE OnChannelOpened(ch, t)
        <4> DEFINE r == [tunnel[t] EXCEPT !.pending = FALSE, !.opened = TRUE, !.fd = "open"]
        <4>1. tunnel' = [tunnel EXCEPT ![t] = Emit(r, "opened")]
          BY <3>2 DEF OnChannelOpened
        <4>2. r \in TunnelType
          BY <2>4, ResultReads DEF Reads
        <4>3. Emit(r, "opened") \in TunnelType
          BY <4>2, EmitReads DEF Reads
        <4>4. pump' \in [Tunnels -> PumpType]
          BY <1>0, <2>1, <3>2 DEF OnChannelOpened, PumpType
        <4> HIDE DEF r
        <4> QED BY <1>0, <2>1, <4>1, <4>3, <4>4
      <3>3. CASE OnChannelFailed(ch, t)
        <4> DEFINE r == [tunnel[t] EXCEPT !.pending = FALSE]
        <4>1. tunnel' = [tunnel EXCEPT ![t] = Emit(r, "failed")] /\ pump' = pump
          BY <3>3 DEF OnChannelFailed
        <4>2. r \in TunnelType
          BY <2>4, ResultReads DEF Reads
        <4>3. Emit(r, "failed") \in TunnelType
          BY <4>2, EmitReads DEF Reads
        <4> HIDE DEF r
        <4> QED BY <1>0, <2>1, <4>1, <4>3
      <3> QED BY <2>5, <3>1, <3>2, <3>3
    <2> QED BY <1>0, <1>2, <2>2, <2>3, <2>6, <2>7
  <1> QED BY <1>3, <1>4, <1>5, <1>6, <1>7, <1>8, <1>9, <1>10 DEF TunnelUi

\* What the worker's calls for tunnels, the pumps and the consumers never touch.
LEMMA WorkFrame ==
    ASSUME Types, TunnelWork \/ PumpWork
    PROVE  /\ SessionTypes' /\ ui' = ui /\ wired' = wired
           /\ session' = session /\ key' = key
           /\ awaiting' = awaiting /\ state' = state /\ host' = host /\ accepted' = accepted
           /\ stop' = stop /\ quit' = quit /\ profile' = profile /\ object' = object
           /\ overtaken' = overtaken
  <1> USE DEF Types, SessionTypes, uiVars, libssh, tunnelVars, sessionVars
  <1>1. TunnelWork =>
          <<profile, ui, object, state, host, accepted, opens, session, key, awaiting,
            pendingKey, overtaken, stop, quit, wired>>' =
          <<profile, ui, object, state, host, accepted, opens, session, key, awaiting,
            pendingKey, overtaken, stop, quit, wired>>
    BY DEF TunnelWork, WorkerChannel, ChannelEnds, PostResult, WorkerCalls
  <1>2. PumpWork =>
          <<profile, ui, object, state, host, accepted, opens, session, key, awaiting,
            pendingKey, overtaken, stop, quit, wired>>' =
          <<profile, ui, object, state, host, accepted, opens, session, key, awaiting,
            pendingKey, overtaken, stop, quit, wired>>
    BY DEF PumpWork, PumpThread, PumpTop, PumpDelivers, PumpExits, ConsumerCloses
  <1> QED BY <1>1, <1>2

\* The answers to a call are where a pump may go.
LEMMA AnswersAre ==
    ASSUME NEW t, NEW op \in Calls
    PROVE  /\ Answers(t, op) \subseteq {"top", "deliver", "exit"} \cup Calls
           /\ op = "free" => Answers(t, op) = {"exit"}
           /\ op # "free" => "exit" \notin Answers(t, op)
  BY DEF Answers, Calls

LEMMA CallMoves ==
    ASSUME Types, WorkerCalls
    PROVE  \E t \in Tunnels, op \in Calls :
             /\ jobs # <<>> /\ Head(jobs) = Job(op, t) /\ worker = Idle /\ worker' = worker
             /\ events' = events /\ tunnel' = tunnel
             /\ channel' = IF op = "free" THEN [channel EXCEPT ![t] = "freed"] ELSE channel
             /\ channel[t] = "live" => deadUse' = deadUse
             /\ \/ /\ pump[t].at = op
                   /\ \E next \in Answers(t, op) :
                        /\ pump' = [pump EXCEPT ![t].at = next]
                        /\ jobs' = Posted(Tail(jobs), next, t)
                \/ pump[t].at # op /\ pump' = pump /\ jobs' = Tail(jobs)
  <1> DEFINE t == Head(jobs).t
             op == Head(jobs).op
  <1>1. jobs # <<>> /\ op \in Calls
    BY DEF WorkerCalls
  <1>2. Head(jobs) \in JobType
    BY <1>1, FirstJob
  <1>3. t \in Tunnels /\ Head(jobs) = Job(op, t)
    BY <1>1, <1>2, JobIs
  <1>4. /\ worker = Idle /\ worker' = worker
        /\ events' = events /\ tunnel' = tunnel
        /\ channel' = IF op = "free" THEN [channel EXCEPT ![t] = "freed"] ELSE channel
    BY DEF WorkerCalls
  <1>5. channel[t] = "live" => deadUse' = deadUse
    BY DEF WorkerCalls
  <1>6. \/ /\ pump[t].at = op
           /\ \E next \in Answers(t, op) :
                /\ pump' = [pump EXCEPT ![t].at = next]
                /\ jobs' = Posted(Tail(jobs), next, t)
        \/ pump[t].at # op /\ pump' = pump /\ jobs' = Tail(jobs)
    BY DEF WorkerCalls
  <1> HIDE DEF t, op
  <1> QED BY <1>1, <1>3, <1>4, <1>5, <1>6

LEMMA PumpAt ==
    ASSUME pump \in [Tunnels -> PumpType], NEW t \in Tunnels,
           NEW at \in {"none", "top", "deliver", "exit", "done"} \cup Calls
    PROVE  /\ [pump EXCEPT ![t].at = at] \in [Tunnels -> PumpType]
           /\ [pump EXCEPT ![t].at = at][t].at = at
           /\ \A u \in Tunnels : u # t => [pump EXCEPT ![t].at = at][u] = pump[u]
  BY DEF PumpType

\* A pump posts a call.
LEMMA PumpMoves ==
    ASSUME Types, NEW t \in Tunnels, PumpTop(t) \/ PumpDelivers(t)
    PROVE  /\ pump[t].at \in {"top", "deliver"}
           /\ pump' \in [Tunnels -> PumpType]
           /\ \A u \in Tunnels : u # t => pump'[u] = pump[u]
           /\ UNCHANGED <<events, worker, channel, deadUse, tunnel>>
           /\ pump'[t].at \in Calls /\ jobs' = Append(jobs, Job(pump'[t].at, t))
  <1>0. pump \in [Tunnels -> PumpType]
    BY DEF Types, TunnelTypes
  <1>1. UNCHANGED <<events, worker, channel, deadUse, tunnel>>
    BY DEF PumpTop, PumpDelivers, libssh
  <1>2. CASE PumpTop(t)
    <2>1. PICK op \in {"free", "write", "poll"} :
            pump' = [pump EXCEPT ![t].at = op] /\ jobs' = Append(jobs, Job(op, t))
      BY <1>2 DEF PumpTop, PumpPosts
    <2> QED BY <1>0, <1>1, <1>2, <2>1, PumpAt DEF PumpTop, Calls
  <1>3. CASE PumpDelivers(t)
    <2>1. PICK stopped \in BOOLEAN : pump' = [pump EXCEPT ![t] = [at |-> "eof", stop |-> stopped]]
      BY <1>0, <1>3 DEF PumpDelivers, PumpType
    <2>2. jobs' = Append(jobs, Job("eof", t)) /\ pump[t].at = "deliver"
      BY <1>3 DEF PumpDelivers
    <2>3. [at |-> "eof", stop |-> stopped] \in PumpType
      BY DEF PumpType, Calls
    <2> QED BY <1>0, <1>1, <2>1, <2>2, <2>3 DEF Calls
  <1> QED BY <1>2, <1>3

LEMMA WorkTypes ==
    ASSUME Types, TunnelWork \/ PumpWork
    PROVE  Types'
  <1>0. /\ SessionTypes' /\ ui' = ui /\ wired' = wired
        /\ events \in Seq(EventType) /\ jobs \in Seq(JobType) /\ worker \in WorkerType
        /\ tunnel \in [Tunnels -> TunnelType] /\ pump \in [Tunnels -> PumpType]
        /\ channel \in [Tunnels -> ChannelStates]
    BY WorkFrame DEF Types, ThreadTypes, TunnelTypes
  <1>1. SUFFICES /\ events' \in Seq(EventType) /\ jobs' \in Seq(JobType) /\ worker' \in WorkerType
                 /\ tunnel' \in [Tunnels -> TunnelType] /\ pump' \in [Tunnels -> PumpType]
                 /\ channel' \in [Tunnels -> ChannelStates]
    BY <1>0 DEF Types, ThreadTypes, TunnelTypes
  <1>2. CASE WorkerChannel
    <2> DEFINE t == Head(jobs).t
    <2>1. jobs # <<>> /\ Head(jobs).op = "channel" /\ Head(jobs) \in JobType
          /\ Tail(jobs) \in Seq(JobType)
      BY <1>2, FirstJob DEF WorkerChannel, Takes
    <2>2. t \in Tunnels
      BY <2>1, JobIs
    <2>3. Event("noChannel", t) \in EventType /\ Doing("channel", t) \in WorkerType
      BY <2>2, Made
    <2>4. /\ UNCHANGED <<tunnel, pump, channel>> /\ jobs' = Tail(jobs)
          /\ events' = events \/ events' = Append(events, Event("noChannel", t))
          /\ worker' = worker \/ worker' = Doing("channel", t)
      BY <1>2 DEF WorkerChannel, libssh, tunnelVars
    <2> HIDE DEF t
    <2>5. Append(events, Event("noChannel", t)) \in Seq(EventType)
      BY <1>0, <2>3
    <2> QED BY <1>0, <2>1, <2>3, <2>4, <2>5
  <1>3. CASE ChannelEnds
    <2> DEFINE t == worker.t
    <2>1. t \in Tunnels
      BY <1>0, <1>3, WorkerIs DEF ChannelEnds
    <2>2. Event("noChannel", t) \in EventType /\ Doing("posting", t) \in WorkerType
          /\ Idle \in WorkerType
      BY <2>1, Made
    <2>3. /\ UNCHANGED <<tunnel, pump, jobs>>
          /\ events' = events \/ events' = Append(events, Event("noChannel", t))
          /\ worker' = Idle \/ worker' = Doing("posting", t)
          /\ \E c \in {"live", "freed"} : channel' = [channel EXCEPT ![t] = c]
      BY <1>3 DEF ChannelEnds, tunnelVars
    <2> HIDE DEF t
    <2> QED BY <1>0, <2>1, <2>2, <2>3, SMTT(30) DEF ChannelStates
  <1>4. CASE PostResult
    <2> DEFINE t == worker.t
    <2>1. t \in Tunnels
      BY <1>0, <1>4, WorkerIs DEF PostResult
    <2>2. Event("channel", t) \in EventType /\ Idle \in WorkerType
      BY <2>1, Made
    <2>3. /\ UNCHANGED <<tunnel, pump, jobs>> /\ worker' = Idle
          /\ events' = events \/ events' = Append(events, Event("channel", t))
          /\ channel' = channel \/ Lose(t)
      BY <1>4 DEF PostResult, tunnelVars
    <2> HIDE DEF t
    <2>4. channel' \in [Tunnels -> ChannelStates]
      BY <1>0, <2>3, LoseTyped
    <2> QED BY <1>0, <2>2, <2>3, <2>4, SMTT(30)
  <1>5. CASE WorkerCalls
    <2>1. PICK t \in Tunnels, op \in Calls :
             /\ jobs # <<>> /\ Head(jobs) = Job(op, t) /\ worker = Idle /\ worker' = worker
             /\ events' = events /\ tunnel' = tunnel
             /\ channel' = IF op = "free" THEN [channel EXCEPT ![t] = "freed"] ELSE channel
             /\ channel[t] = "live" => deadUse' = deadUse
             /\ \/ /\ pump[t].at = op
                   /\ \E next \in Answers(t, op) :
                        /\ pump' = [pump EXCEPT ![t].at = next]
                        /\ jobs' = Posted(Tail(jobs), next, t)
                \/ pump[t].at # op /\ pump' = pump /\ jobs' = Tail(jobs)
      BY <1>5, CallMoves
    <2>2. Tail(jobs) \in Seq(JobType)
      BY <2>1, FirstJob
    <2>3. ASSUME NEW next \in Answers(t, op), pump' = [pump EXCEPT ![t].at = next],
                 jobs' = Posted(Tail(jobs), next, t)
          PROVE  jobs' \in Seq(JobType) /\ pump' \in [Tunnels -> PumpType]
      <3>1. next \in {"top", "deliver", "exit"} \cup Calls
        BY AnswersAre
      <3>2. pump' \in [Tunnels -> PumpType]
        BY <1>0, <2>3, <3>1, PumpAt
      <3>3. next \in Calls => Job(next, t) \in JobType
        BY MadeJobs
      <3>4. jobs' \in Seq(JobType)
        BY <2>2, <2>3, <3>3 DEF Posted
      <3> QED BY <3>2, <3>4
    <2>4. channel' \in [Tunnels -> ChannelStates]
      BY <1>0, <2>1 DEF ChannelStates
    <2> QED BY <1>0, <2>1, <2>2, <2>3, <2>4
  <1>6. ASSUME NEW t \in Tunnels, PumpTop(t) \/ PumpDelivers(t)
        PROVE  <1>1!1
    <2>1. Job(pump'[t].at, t) \in JobType
      BY <1>6, PumpMoves, MadeJobs
    <2>2. Append(jobs, Job(pump'[t].at, t)) \in Seq(JobType)
      BY <1>0, <2>1
    <2>3. /\ pump' \in [Tunnels -> PumpType] /\ jobs' = Append(jobs, Job(pump'[t].at, t))
          /\ UNCHANGED <<events, worker, channel, tunnel>>
      BY <1>6, PumpMoves
    <2> QED BY <1>0, <2>2, <2>3
  <1>7. ASSUME NEW t \in Tunnels, PumpExits(t)
        PROVE  <1>1!1
    <2>1. Event("finished", t) \in EventType
      BY Made
    <2>2. Append(events, Event("finished", t)) \in Seq(EventType)
      BY <1>0, <2>1
    <2>3. pump' \in [Tunnels -> PumpType]
      BY <1>0, <1>7, PumpAt DEF PumpExits
    <2> QED BY <1>0, <1>7, <2>2, <2>3 DEF PumpExits, libssh
  <1>8. ASSUME NEW t \in Tunnels, ConsumerCloses(t)
        PROVE  <1>1!1
    <2>1. tunnel' = [tunnel EXCEPT ![t] = [tunnel[t] EXCEPT !.fd = "closed"]]
      BY <1>0, <1>8 DEF ConsumerCloses
    <2>2. [tunnel[t] EXCEPT !.fd = "closed"] \in TunnelType
      BY <1>0, ResultReads DEF Reads
    <2>3. UNCHANGED <<events, jobs, worker, pump, channel>>
      BY <1>8 DEF ConsumerCloses, sessionVars, libssh
    <2> QED BY <1>0, <2>1, <2>2, <2>3
  <1> QED BY <1>2, <1>3, <1>4, <1>5, <1>6, <1>7, <1>8 DEF TunnelWork, PumpWork, PumpThread

-----------------------------------------------------------------------------
(* The tunnels.                                                            *)

LEMMA ForeignJobs ==
    ASSUME NEW t \in Tunnels
    PROVE  /\ \A op \in {"open", "close", "trust"} : Foreign(Job(op, NoTunnel), t)
           /\ \A u \in Tunnels, op \in {"channel"} \cup Calls : u # t => Foreign(Job(op, u), t)
           /\ \A x \in JobType : x.op \in {"open", "close", "trust"} => Foreign(x, t)
  BY DEF Foreign, OpenOf, CallsOn, Job, Calls, JobType

LEMMA ForeignEvents ==
    ASSUME NEW t \in Tunnels
    PROVE  /\ \A k \in {"state", "prompt", "delete", "finished"} :
                \A v : Event(k, v) \notin ResultsOf(t)
           /\ \A u \in Tunnels, k \in {"channel", "noChannel"} :
                u # t => Event(k, u) \notin ResultsOf(t)
           /\ \A x : x.kind \in {"state", "prompt", "delete", "finished"} => x \notin ResultsOf(t)
  BY DEF ResultsOf, Event

\* The worker's loop ends: nothing is left in its queue, and no channel is live.
LEMMA Emptied ==
    ASSUME NEW t \in Tunnels, NEW q, NEW w, NEW e, NEW rec, NEW p, NEW ch, NEW v, NEW c,
           TunnelFits(q, w, e, rec, p, ch, t), WorkerSame(w, v, t), c # "live"
    PROVE  TunnelFits(<<>>, v, e, rec, p, c, t)
  <1>1. /\ ~Has(<<>>, OpenOf(t)) /\ ~Has(<<>>, CallsOn(t))
        /\ Once(<<>>, OpenOf(t)) /\ Once(<<>>, CallsOn(t))
        /\ \A op \in Calls : ~Has(<<>>, {Job(op, t)})
    BY EmptyQueue
  <1>2. InFlight(<<>>, v, e, t) => InFlight(q, w, e, t)
    BY <1>1 DEF InFlight, WorkerSame
  <1>3. OnePlace(<<>>, v, e, p, t)
    BY <1>1, <1>2 DEF TunnelFits, OnePlace, WorkerSame
  <1>4. AwaitedOk(rec, InFlight(<<>>, v, e, t), Has(<<>>, CallsOn(t)))
    BY <1>1, <1>2 DEF TunnelFits, AwaitedOk
  <1>5. CallsOk(<<>>, p, t) /\ ChannelOk(c, rec, p, <<>>, v, e, t)
    BY <1>1 DEF CallsOk, ChannelOk
  <1> QED BY <1>3, <1>4, <1>5 DEF TunnelFits

\* The worker moves between states that are not about tunnels.
LEMMA WorkerElsewhere ==
    ASSUME NEW t, NEW w, NEW v,
           w.at \notin {"channel", "posting"}, v.at \notin {"channel", "posting"}
    PROVE  WorkerSame(w, v, t)
  BY DEF WorkerSame, AtWork

LEMMA SessionUiTunnels ==
    ASSUME Types, TunnelInv, SessionUi, UNCHANGED tunnelVars
    PROVE  TunnelInv'
  <1> SUFFICES ASSUME NEW t \in Tunnels
               PROVE  TunnelOk(t)'
    BY DEF TunnelInv
  <1>0. /\ events \in Seq(EventType) /\ jobs \in Seq(JobType)
        /\ TunnelFits(jobs, worker, events, tunnel[t], pump[t], channel[t], t)
        /\ JobsSame(jobs, jobs, t) /\ EventsSame(events, events, t) /\ WorkerSame(worker, worker, t)
    BY JobsStay, EventsStay DEF Types, ThreadTypes, TunnelInv, TunnelOk, WorkerSame
  <1>1. tunnel' = tunnel /\ pump' = pump /\ channel' = channel /\ worker' = worker
    BY DEF tunnelVars, libssh, SessionUi, SetConfigEnabled, SetConfigDisabled,
           TrustPendingHostKey, UiReacts, HandleState, HandlePrompt, StopWorker, Destroyed
  <1>2. JobsSame(jobs, jobs', t)
    <2>1. \A op \in {"open", "close", "trust"} : JobsSame(jobs, Append(jobs, Job(op, NoTunnel)), t)
      BY <1>0, JobsStay, Made, ForeignJobs
    <2>2. jobs' = jobs \/ \E op \in {"open", "close", "trust"} :
                            jobs' = Append(jobs, Job(op, NoTunnel))
      BY DEF SessionUi, SetConfigEnabled, SetConfigDisabled,
             TrustPendingHostKey, UiReacts, HandleState, HandlePrompt, StopWorker, Destroyed
    <2> QED BY <1>0, <2>1, <2>2
  <1>3. EventsSame(events, events', t)
    <2>1. CASE SetConfigDisabled
      <3>1. Event("delete", NoTunnel) \in EventType
        BY Made
      <3> QED BY <1>0, <2>1, <3>1, EventsStay, ForeignEvents DEF SetConfigDisabled
    <2>2. CASE HandleState \/ HandlePrompt
      <3>1. /\ events # <<>> /\ Head(events).kind \in {"state", "prompt"}
            /\ events' = Tail(events)
        BY <2>2 DEF HandleState, HandlePrompt, NextEvent
      <3> QED BY <1>0, <3>1, EventsStay, ForeignEvents
    <2>3. CASE SetConfigEnabled \/ TrustPendingHostKey \/ StopWorker \/ Destroyed
      BY <1>0, <2>3 DEF SetConfigEnabled, TrustPendingHostKey, StopWorker, Destroyed
    <2> QED BY <2>1, <2>2, <2>3 DEF SessionUi, UiReacts
  <1>4. worker.at = "exited" => channel[t] # "live"
    BY <1>0 DEF TunnelFits
  <1>5. TunnelFits(jobs', worker, events', tunnel[t], pump[t], channel[t], t)
    BY <1>0, <1>2, <1>3, <1>4, Untouched
  <1> QED BY <1>1, <1>5 DEF TunnelOk

LEMMA WorkerSessionTunnels ==
    ASSUME Types, TunnelInv, WorkerSession, UNCHANGED tunnelVars
    PROVE  TunnelInv'
  <1> SUFFICES ASSUME NEW t \in Tunnels
               PROVE  TunnelOk(t)'
    BY DEF TunnelInv
  <1>0. /\ events \in Seq(EventType) /\ jobs \in Seq(JobType) /\ worker \in WorkerType
        /\ TunnelFits(jobs, worker, events, tunnel[t], pump[t], channel[t], t)
        /\ JobsSame(jobs, jobs, t) /\ EventsSame(events, events, t) /\ WorkerSame(worker, worker, t)
        /\ tunnel' = tunnel /\ pump' = pump /\ Freed[t] # "live"
    BY JobsStay, EventsStay, FreedTyped
       DEF Types, ThreadTypes, TunnelInv, TunnelOk, WorkerSame, tunnelVars
  <1>1. /\ channel' = channel \/ channel' = Freed
        /\ worker.at \notin {"channel", "posting"} /\ worker'.at \notin {"channel", "posting"}
    <2>1. channel' = channel \/ channel' = Freed
      BY DEF libssh, WorkerSession, WorkerOpen, ConnectAborted, ConnectFails, FailSession,
             FreeSession, Connected, ResumeAfterHostKeyTrust, ResumeUnguarded, ResumeNoop,
             Authenticated, WorkerClose, WorkerExits
    <2>2. worker.at \in {"idle", "connect", "auth"}
      <3>1. Idle.at = "idle"
        BY DEF Idle, Doing
      <3>2. worker = Idle \/ worker.at \in {"connect", "auth"}
        BY DEF WorkerSession, WorkerOpen, ConnectAborted, ConnectFails, Connected,
               ResumeAfterHostKeyTrust, ResumeUnguarded, ResumeNoop,
               Authenticated, WorkerClose, WorkerExits, Takes
      <3> QED BY <3>1, <3>2
    <2>3. worker' = worker \/ \E a \in {"idle", "connect", "auth", "exited"} : worker'.at = a
      <3>1. ASSUME NEW k \in Keys, Connected(k)
            PROVE  worker' = Idle \/ worker' = Doing("auth", NoTunnel)
        BY <3>1 DEF Connected
      <3> QED BY <3>1 DEF WorkerSession, WorkerOpen, ConnectAborted, ConnectFails, FailSession,
              ResumeAfterHostKeyTrust, ResumeUnguarded, ResumeNoop,
              Authenticated, WorkerClose, WorkerExits, Idle, Doing
    <2> QED BY <2>1, <2>2, <2>3
  <1>2. WorkerSame(worker, worker', t)
    BY <1>1, WorkerElsewhere
  <1>3. CASE WorkerExits
    <2>1. jobs' = <<>> /\ events' = events /\ channel'[t] # "live"
      BY <1>0, <1>3 DEF WorkerExits, FreeSession
    <2>2. TunnelFits(<<>>, worker', events, tunnel[t], pump[t], channel'[t], t)
      BY <1>0, <1>2, <2>1, Emptied
    <2> QED BY <1>0, <2>1, <2>2 DEF TunnelOk
  <1>4. CASE ~WorkerExits
    <2>1. JobsSame(jobs, jobs', t)
      <3>1. \/ jobs' = jobs
            \/ jobs # <<>> /\ jobs' = Tail(jobs) /\ Head(jobs).op \in {"open", "close", "trust"}
        BY <1>4 DEF WorkerSession, WorkerOpen, ConnectAborted, ConnectFails, FailSession,
           Connected, ResumeAfterHostKeyTrust, ResumeUnguarded, ResumeNoop,
           Authenticated, WorkerClose, Takes
      <3>2. jobs # <<>> => Head(jobs) \in JobType
        BY FirstJob
      <3> QED BY <1>0, <3>1, <3>2, JobsStay, ForeignJobs
    <2>2. EventsSame(events, events', t)
      <3>1. ASSUME NEW k \in Keys, Connected(k), ~VerifyPinned(k)
            PROVE  EventsSame(events, events', t)
        <4> DEFINE a == Event("state", "NeedsHostKeyTrust")
                   b == Event("prompt", k)
        <4>1. a \in EventType /\ b \in EventType /\ a \notin ResultsOf(t) /\ b \notin ResultsOf(t)
          BY Made, MadeStates, ForeignEvents
        <4>2. events' = events \o <<a, b>>
          BY <3>1 DEF Connected
        <4> HIDE DEF a, b
        <4>3. events' = Append(Append(events, a), b)
          BY <1>0, <4>1, <4>2, TwoMore
        <4> DEFINE m == Append(events, a)
        <4>4. m \in Seq(EventType) /\ EventsSame(events, m, t)
          BY <1>0, <4>1, EventsStay
        <4> HIDE DEF m
        <4>5. EventsSame(m, Append(m, b), t)
          BY <4>1, <4>4, EventsStay
        <4> QED BY <4>3, <4>4, <4>5, EventsChain DEF m
      <3>2. \A s \in {"Failed", "Connecting", "Authenticating", "Connected", "Disconnected"} :
              EventsSame(events, Append(events, Event("state", s)), t)
        BY <1>0, MadeStates, ForeignEvents, EventsStay
      <3>3. ASSUME NEW k \in Keys, Connected(k), VerifyPinned(k)
            PROVE  EventsSame(events, events', t)
        BY <3>2, <3>3 DEF Connected
      <3>4. ASSUME ~ \E k \in Keys : Connected(k)
            PROVE  EventsSame(events, events', t)
        <4>1. events' = events \/
              \E s \in {"Failed", "Connecting", "Authenticating", "Connected", "Disconnected"} :
                 events' = Append(events, Event("state", s))
          BY <1>4, <3>4 DEF WorkerSession, WorkerOpen, ConnectAborted, ConnectFails, FailSession,
             ResumeAfterHostKeyTrust, ResumeUnguarded, ResumeNoop, Authenticated, WorkerClose
        <4> QED BY <1>0, <3>2, <4>1
      <3> QED BY <3>1, <3>3, <3>4
    <2>3. worker'.at = "exited" => channel'[t] # "live"
      <3>0. ASSUME NEW k \in Keys, Connected(k)
            PROVE  worker' = Idle \/ worker' = Doing("auth", NoTunnel)
        BY <3>0 DEF Connected
      <3>1. worker'.at = "exited" => worker' = worker
        BY <1>4, <3>0 DEF WorkerSession, WorkerOpen, ConnectAborted, ConnectFails, FailSession,
           ResumeAfterHostKeyTrust, ResumeUnguarded, ResumeNoop,
           Authenticated, WorkerClose, Idle, Doing
      <3> QED BY <1>0, <1>1, <3>1 DEF TunnelFits
    <2>4. channel'[t] = channel[t] \/ channel'[t] # "live"
      BY <1>0, <1>1
    <2>5. TunnelFits(jobs', worker', events', tunnel[t], pump[t], channel'[t], t)
      BY <1>0, <1>2, <2>1, <2>2, <2>3, <2>4, Untouched
    <2> QED BY <1>0, <2>5 DEF TunnelOk
  <1> QED BY <1>3, <1>4

\* Members of a tunnel's queues.
LEMMA Narrower ==
    ASSUME NEW q, NEW e, NEW t
    PROVE  /\ Has(e, {Event("channel", t)}) => Has(e, ResultsOf(t))
           /\ Has(e, {Event("noChannel", t)}) => Has(e, ResultsOf(t))
           /\ \A op \in Calls : Has(q, {Job(op, t)}) => Has(q, CallsOn(t))
           /\ Has(q, CallsOn(t)) => \E op \in Calls : Has(q, {Job(op, t)})
  BY DEF Has, ResultsOf, CallsOn

\* open() of a tunnel on a connected session, and without one.
LEMMA Opens ==
    ASSUME NEW t \in Tunnels, NEW q \in Seq(JobType), NEW w, NEW e, NEW rec \in TunnelType,
           NEW p, NEW ch, NEW new,
           TunnelFits(q, w, e, rec, p, ch, t), rec.obj = "new",
           Reads(new, "alive", TRUE, rec.abandoned, rec.opened, rec.signals)
    PROVE  TunnelFits(Append(q, Job("channel", t)), w, e, new, p, ch, t)
  <1> DEFINE r == Append(q, Job("channel", t))
  <1>1. Job("channel", t) \in JobType
    BY MadeJobs
  <1>2. /\ ~InFlight(q, w, e, t) /\ ~Has(q, CallsOn(t)) /\ ~rec.opened /\ ~rec.abandoned
        /\ rec.signals = <<>>
    BY DEF TunnelFits, AwaitedOk, RecordOk
  <1>3. Job("channel", t) \notin CallsOn(t) /\ Job("channel", t) \in OpenOf(t)
        /\ \A op \in Calls : Job("channel", t) \notin {Job(op, t)}
    BY DEF CallsOn, OpenOf, Job, Calls
  <1>4. /\ Has(r, OpenOf(t)) /\ ~Has(r, CallsOn(t)) /\ Once(r, OpenOf(t)) /\ Once(r, CallsOn(t))
        /\ \A op \in Calls : Has(r, {Job(op, t)}) <=> Has(q, {Job(op, t)})
    BY <1>1, <1>2, <1>3, Appending DEF TunnelFits, OnePlace, InFlight
  <1> HIDE DEF r
  <1>5. p.at = "none"
    BY <1>2 DEF TunnelFits, RecordOk
  <1>6. OnePlace(r, w, e, p, t)
    BY <1>2, <1>4, <1>5 DEF OnePlace, InFlight, TunnelFits
  <1>7. RecordOk(new, p)
    BY <1>2, <1>5 DEF RecordOk, Reads, Signals
  <1>8. AwaitedOk(new, InFlight(r, w, e, t), Has(r, CallsOn(t))) /\ CallsOk(r, p, t)
    BY <1>4, <1>5 DEF AwaitedOk, CallsOk, Reads, TunnelFits
  <1>9. ChannelOk(ch, new, p, r, w, e, t)
    BY <1>4 DEF ChannelOk, TunnelFits, Reads, Calls
  <1> QED BY <1>6, <1>7, <1>8, <1>9 DEF TunnelFits, r

\* The record of a tunnel changes, and nothing on its way.
LEMMA Rewritten ==
    ASSUME NEW t \in Tunnels, NEW q, NEW w, NEW e, NEW rec, NEW p, NEW ch, NEW new, NEW pp,
           TunnelFits(q, w, e, rec, p, ch, t), RecordOk(new, pp),
           new.obj = rec.obj \/ new.obj = "gone" \/ (rec.obj = "new" /\ new.obj = "alive"),
           rec.pending \/ rec.abandoned => new.pending \/ new.abandoned,
           pp.at = p.at
    PROVE  TunnelFits(q, w, e, new, pp, ch, t)
  BY DEF TunnelFits, OnePlace, AwaitedOk, CallsOk, ChannelOk

\* closeInternal() without a pump.
LEMMA Closes ==
    ASSUME NEW t \in Tunnels, NEW q, NEW w, NEW e, NEW rec \in TunnelType,
           NEW p, NEW ch, NEW del \in BOOLEAN,
           TunnelFits(q, w, e, rec, p, ch, t), p.at = "none"
    PROVE  /\ TunnelFits(q, w, e, Closed(rec, del), p, ch, t)
           /\ rec.pending /\ ~del =>
                TunnelFits(q, w, e, Emit(Closed(rec, del), "failed"), p, ch, t)
  <1> DEFINE c == Closed(rec, del)
  <1>1. Reads(c, IF del THEN "gone" ELSE rec.obj, FALSE,
              rec.abandoned \/ rec.pending, rec.opened, rec.signals)
    BY ClosedReads
  <1> HIDE DEF c
  <1>2. /\ c.obj = (IF del THEN "gone" ELSE rec.obj) /\ ~c.pending /\ c.signals = rec.signals
        /\ c.abandoned <=> rec.abandoned \/ rec.pending
        /\ c.opened <=> rec.opened
        /\ c \in TunnelType
    BY <1>1 DEF Reads
  <1>3. RecordOk(rec, p)
    BY DEF TunnelFits
  <1>4. ~rec.opened
    BY <1>3 DEF RecordOk
  <1>5. RecordOk(c, p)
    BY <1>2, <1>3, <1>4 DEF RecordOk
  <1>6. TunnelFits(q, w, e, c, p, ch, t)
    <2>1. c.obj = rec.obj \/ c.obj = "gone"
      BY <1>2
    <2> QED BY <1>2, <1>5, <2>1, Rewritten
  <1>7. ASSUME rec.pending, ~del
        PROVE  TunnelFits(q, w, e, Emit(c, "failed"), p, ch, t)
    <2> DEFINE f == Emit(c, "failed")
    <2>1. Reads(f, c.obj, c.pending, c.abandoned, c.opened, Append(c.signals, "failed"))
      BY <1>2, EmitReads
    <2> HIDE DEF f
    <2>2. c.signals = <<>> /\ c.obj = "alive"
      BY <1>2, <1>3, <1>7 DEF RecordOk
    <2>3. f.signals = <<"failed">>
      BY <2>1, <2>2 DEF Reads
    <2>4. RecordOk(f, p)
      BY <1>2, <1>4, <2>1, <2>2, <2>3 DEF RecordOk, Reads, Signals
    <2>5. TunnelFits(q, w, e, f, p, ch, t)
      BY <1>2, <1>6, <2>1, <2>4, Rewritten DEF Reads
    <2> QED BY <2>5 DEF f
  <1> QED BY <1>6, <1>7 DEF c

\* The end of a pump.
LEMMA Joins ==
    ASSUME NEW t \in Tunnels, NEW q, NEW w, NEW e, NEW rec \in TunnelType,
           NEW p, NEW ch, NEW del \in BOOLEAN,
           TunnelFits(q, w, e, rec, p, ch, t), p.at = "done"
    PROVE  /\ rec.opened
           /\ del => TunnelFits(q, w, e, Joined(rec, del), NoPump, ch, t)
           /\ ~del => TunnelFits(q, w, e, Emit(Joined(rec, del), "closed"), NoPump, ch, t)
  <1> DEFINE c == Joined(rec, del)
             f == Emit(c, "closed")
  <1>1. /\ c.obj = (IF del THEN "gone" ELSE rec.obj) /\ c.pending = rec.pending
        /\ c.abandoned = rec.abandoned /\ ~c.opened /\ c.signals = rec.signals
        /\ c \in TunnelType
    BY JoinedReads DEF Reads
  <1> HIDE DEF c
  <1>2. /\ f.obj = c.obj /\ f.pending = c.pending /\ f.abandoned = c.abandoned /\ ~f.opened
        /\ f.signals = Append(c.signals, "closed")
    BY <1>1, EmitReads DEF Reads
  <1> HIDE DEF f
  <1>3. /\ rec.opened /\ rec.obj = "alive" /\ rec.signals = <<"opened">> /\ ~rec.pending
        /\ ~InFlight(q, w, e, t)
    BY DEF TunnelFits, RecordOk, OnePlace
  <1>4. ~Has(q, CallsOn(t)) /\ \A op \in Calls : ~Has(q, {Job(op, t)})
    BY Narrower DEF TunnelFits, CallsOk, Calls
  <1>5. NoPump.at = "none"
    BY DEF NoPump
  <1>6. f.signals = <<"opened", "closed">>
    <2>1. Append(<<"opened">>, "closed") = <<"opened", "closed">>
      BY OneMore
    <2>2. f.signals = Append(<<"opened">>, "closed")
      BY <1>1, <1>2, <1>3
    <2> QED BY <2>1, <2>2
  <1>7. (del => RecordOk(c, NoPump)) /\ (~del => RecordOk(f, NoPump))
    BY <1>1, <1>2, <1>3, <1>5, <1>6 DEF RecordOk, Signals
  <1>8. OnePlace(q, w, e, NoPump, t)
    BY <1>3, <1>4, <1>5 DEF TunnelFits, OnePlace
  <1>9. ch # "live"
    <2>1. ~(w.at = "posting" /\ w.t = t) /\ ~Has(e, {Event("channel", t)})
      BY <1>3, Narrower DEF InFlight, AtWork
    <2> QED BY <1>3, <1>4, <2>1 DEF TunnelFits, ChannelOk, Calls
  <1> QED BY <1>3, <1>4, <1>7, <1>8, <1>9 DEF TunnelFits, AwaitedOk, CallsOk, ChannelOk, c, f

\* The result of an open arrives: nothing else of the tunnel is on its way.
LEMMA Arrived ==
    ASSUME NEW t \in Tunnels, NEW q, NEW w, NEW e \in Seq(EventType), NEW rec,
           NEW p, NEW ch,
           TunnelFits(q, w, e, rec, p, ch, t), e # <<>>, Head(e) \in ResultsOf(t)
    PROVE  /\ ~InFlight(q, w, Tail(e), t) /\ p.at = "none" /\ ~Has(q, CallsOn(t))
           /\ rec.obj # "new" /\ ~rec.opened /\ (rec.pending \/ rec.abandoned)
           /\ ch = "live" => Head(e) = Event("channel", t)
  <1>1. Has(e, ResultsOf(t)) /\ ~Has(Tail(e), ResultsOf(t))
    BY Taking DEF TunnelFits, OnePlace
  <1>2. /\ InFlight(q, w, e, t) /\ ~InFlight(q, w, Tail(e), t)
        /\ ~AtWork(w, t) /\ ~Has(q, OpenOf(t))
    BY <1>1 DEF InFlight, TunnelFits, OnePlace
  <1>3. p.at = "none" /\ ~Has(q, CallsOn(t))
    BY <1>2 DEF TunnelFits, OnePlace
  <1>4. rec.obj # "new" /\ ~rec.opened /\ (rec.pending \/ rec.abandoned)
    BY <1>2, <1>3 DEF TunnelFits, AwaitedOk, RecordOk
  <1>5. ASSUME ch = "live"
        PROVE  Head(e) = Event("channel", t)
    <2>1. ~Has(q, {Job("free", t)})
      BY <1>3, Narrower DEF Calls
    <2>2. Has(e, {Event("channel", t)})
      BY <1>2, <1>3, <1>5, <2>1 DEF TunnelFits, ChannelOk, AtWork, Calls
    <2>3. Head(e) \in {Event("channel", t)} \/ Has(Tail(e), {Event("channel", t)})
      BY <2>2, Taking
    <2> QED BY <1>1, <2>3, Narrower
  <1> QED BY <1>2, <1>3, <1>4, <1>5

\* ... and the tunnel takes the channel, gives it back, or has none.
LEMMA Resulted ==
    ASSUME NEW t \in Tunnels, NEW q \in Seq(JobType), NEW w, NEW e \in Seq(EventType), NEW rec,
           NEW p, NEW ch, NEW r, NEW new, NEW pp,
           TunnelFits(q, w, e, rec, p, ch, t), e # <<>>, Head(e) \in ResultsOf(t),
           RecordOk(new, pp), new.obj = rec.obj, pp.at \in {"none", "top"},
           NEW c, c = ch \/ c # "live",
           \/ r = q /\ (c # "live" \/ pp.at = "top")
           \/ r = Append(q, Job("free", t)) /\ pp.at = "none"
    PROVE  TunnelFits(r, w, Tail(e), new, pp, c, t)
  <1> DEFINE f == Tail(e)
  <1>0. /\ ~InFlight(q, w, f, t) /\ p.at = "none" /\ ~Has(q, CallsOn(t)) /\ rec.obj # "new"
    BY Arrived
  <1>1. /\ ~InFlight(q, w, f, t) /\ p.at = "none" /\ ~Has(q, CallsOn(t)) /\ rec.obj # "new"
        /\ Once(f, ResultsOf(t)) /\ Once(q, OpenOf(t)) /\ Once(q, CallsOn(t))
        /\ w.at = "exited" => c # "live"
    BY <1>0, Taking DEF TunnelFits, OnePlace
  <1> HIDE DEF f
  <1>2. \A op \in Calls : ~Has(q, {Job(op, t)})
    BY <1>1, Narrower
  <1>3. ~Has(q, OpenOf(t)) /\ ~Has(f, ResultsOf(t)) /\ ~AtWork(w, t)
    BY <1>1 DEF InFlight
  <1>4. CASE r = q /\ (c # "live" \/ pp.at = "top")
    <2>1. OnePlace(r, w, f, pp, t)
      BY <1>1, <1>3, <1>4 DEF OnePlace
    <2> QED BY <1>1, <1>2, <1>4, <2>1 DEF TunnelFits, AwaitedOk, CallsOk, ChannelOk, f
  <1>5. CASE r = Append(q, Job("free", t)) /\ pp.at = "none"
    <2>1. /\ Job("free", t) \in JobType /\ Job("free", t) \in CallsOn(t)
          /\ Job("free", t) \notin OpenOf(t)
          /\ \A op \in Calls : op # "free" => Job("free", t) \notin {Job(op, t)}
      BY MadeJobs DEF Calls, CallsOn, OpenOf, Job
    <2>2. /\ Once(r, OpenOf(t)) /\ ~Has(r, OpenOf(t)) /\ Once(r, CallsOn(t))
          /\ \A op \in Calls : op # "free" => ~Has(r, {Job(op, t)})
          /\ Has(r, {Job("free", t)})
      BY <1>1, <1>2, <1>3, <1>5, <2>1, Appending
    <2>3. ~InFlight(r, w, f, t)
      BY <1>3, <2>2 DEF InFlight
    <2>4. OnePlace(r, w, f, pp, t)
      BY <1>1, <1>3, <2>2, <2>3 DEF OnePlace
    <2>5. CallsOk(r, pp, t)
      BY <1>5, <2>2 DEF CallsOk
    <2>6. AwaitedOk(new, InFlight(r, w, f, t), Has(r, CallsOn(t)))
      BY <1>1, <2>3 DEF AwaitedOk
    <2> QED BY <1>1, <2>2, <2>4, <2>5, <2>6 DEF TunnelFits, ChannelOk, f
  <1> QED BY <1>4, <1>5

\* The worker takes the open of a tunnel: nothing else of the tunnel is on its way.
LEMMA Taken ==
    ASSUME NEW t \in Tunnels, NEW q \in Seq(JobType), NEW w, NEW e, NEW rec, NEW p, NEW ch,
           TunnelFits(q, w, e, rec, p, ch, t), q # <<>>, Head(q) = Job("channel", t)
    PROVE  /\ JobsSame(<<>>, Tail(q), t)
           /\ ~AtWork(w, t) /\ ~Has(e, ResultsOf(t)) /\ p.at = "none"
           /\ rec.obj # "new" /\ (rec.pending \/ rec.abandoned)
           /\ ch # "live"
  <1>1. Head(q) \in OpenOf(t)
    BY DEF OpenOf
  <1>2. Has(q, OpenOf(t)) /\ ~Has(Tail(q), OpenOf(t)) /\ InFlight(q, w, e, t)
    BY <1>1, Taking DEF TunnelFits, OnePlace, InFlight
  <1>3. ~AtWork(w, t) /\ ~Has(e, ResultsOf(t)) /\ p.at = "none" /\ ~Has(q, CallsOn(t))
    BY <1>2 DEF TunnelFits, OnePlace
  <1>4. \A op \in Calls : ~Has(q, {Job(op, t)})
    BY <1>3, Narrower
  <1>5. ~Has(Tail(q), CallsOn(t)) /\ \A op \in Calls : ~Has(Tail(q), {Job(op, t)})
    BY <1>3, <1>4, Taking
  <1>6. Once(Tail(q), OpenOf(t)) /\ Once(Tail(q), CallsOn(t))
    BY Taking DEF TunnelFits, OnePlace
  <1>7. JobsSame(<<>>, Tail(q), t)
    BY <1>2, <1>5, <1>6, EmptyQueue DEF JobsSame
  <1>8. rec.obj # "new" /\ (rec.pending \/ rec.abandoned)
    BY <1>2 DEF TunnelFits, AwaitedOk
  <1>9. ~Has(e, {Event("channel", t)}) /\ ~(w.at = "posting" /\ w.t = t)
    BY <1>3, Narrower DEF AtWork
  <1>10. ch # "live"
    BY <1>3, <1>4, <1>9 DEF TunnelFits, ChannelOk, Calls
  <1> QED BY <1>3, <1>7, <1>8, <1>10

\* A tunnel with nothing but its open, or its result, on its way.
LEMMA Alone ==
    ASSUME NEW t \in Tunnels, NEW q, NEW w, NEW e, NEW rec, NEW p, NEW ch,
           JobsSame(<<>>, q, t), Once(e, ResultsOf(t)),
           AtWork(w, t) => ~Has(e, ResultsOf(t)),
           RecordOk(rec, p), p.at = "none",
           rec.obj # "new", rec.pending \/ rec.abandoned,
           \/ ch # "live"
           \/ (w.at = "posting" /\ w.t = t) \/ Has(e, {Event("channel", t)}),
           w.at = "exited" => ch # "live"
    PROVE  TunnelFits(q, w, e, rec, p, ch, t)
  <1>1. /\ ~Has(q, OpenOf(t)) /\ ~Has(q, CallsOn(t)) /\ Once(q, OpenOf(t)) /\ Once(q, CallsOn(t))
        /\ \A op \in Calls : ~Has(q, {Job(op, t)})
    BY EmptyQueue DEF JobsSame
  <1>2. OnePlace(q, w, e, p, t)
    BY <1>1 DEF OnePlace
  <1>3. AwaitedOk(rec, InFlight(q, w, e, t), Has(q, CallsOn(t))) /\ CallsOk(q, p, t)
    BY <1>1 DEF AwaitedOk, CallsOk
  <1>4. ChannelOk(ch, rec, p, q, w, e, t)
    BY DEF ChannelOk
  <1> QED BY <1>2, <1>3, <1>4 DEF TunnelFits

\* The worker is at the open of a tunnel.
LEMMA Working ==
    ASSUME NEW t \in Tunnels, NEW q, NEW w, NEW e, NEW rec, NEW p, NEW ch,
           TunnelFits(q, w, e, rec, p, ch, t), AtWork(w, t)
    PROVE  /\ JobsSame(<<>>, q, t) /\ p.at = "none"
           /\ Once(e, ResultsOf(t)) /\ ~Has(e, ResultsOf(t))
           /\ rec.obj # "new" /\ (rec.pending \/ rec.abandoned)
  <1>1. /\ InFlight(q, w, e, t) /\ ~Has(e, ResultsOf(t)) /\ ~Has(q, OpenOf(t))
        /\ Once(q, OpenOf(t)) /\ Once(q, CallsOn(t)) /\ Once(e, ResultsOf(t))
    BY DEF TunnelFits, OnePlace, InFlight
  <1>2. p.at = "none" /\ ~Has(q, CallsOn(t))
    BY <1>1 DEF TunnelFits, OnePlace
  <1>3. \A op \in Calls : ~Has(q, {Job(op, t)})
    BY <1>2, Narrower
  <1>4. JobsSame(<<>>, q, t)
    BY <1>1, <1>2, <1>3, EmptyQueue DEF JobsSame
  <1> QED BY <1>1, <1>2, <1>4 DEF TunnelFits, AwaitedOk

\* A result is posted where there was none.
LEMMA PostedOnce ==
    ASSUME NEW t \in Tunnels, NEW e \in Seq(EventType), Once(e, ResultsOf(t)),
           ~Has(e, ResultsOf(t)), NEW x \in ResultsOf(t)
    PROVE  /\ Once(Append(e, x), ResultsOf(t))
           /\ x = Event("channel", t) => Has(Append(e, x), {Event("channel", t)})
  <1>1. x \in EventType
    BY Made DEF ResultsOf
  <1> QED BY <1>1, Appending

\* A call of a pump, or of nobody, is taken from the queue.
LEMMA CallTaken ==
    ASSUME NEW t \in Tunnels, NEW q \in Seq(JobType), NEW w, NEW e, NEW rec, NEW p, NEW ch,
           NEW op \in Calls,
           TunnelFits(q, w, e, rec, p, ch, t), q # <<>>, Head(q) = Job(op, t)
    PROVE  /\ JobsSame(<<>>, Tail(q), t) /\ ~InFlight(q, w, e, t)
           /\ rec.obj # "new"
           /\ p.at = op \/ (op = "free" /\ p.at = "none")
  <1>1. Head(q) \in CallsOn(t) /\ Head(q) \in {Job(op, t)} /\ Head(q) \notin OpenOf(t)
    BY DEF CallsOn, OpenOf, Job, Calls
  <1>2. Has(q, CallsOn(t)) /\ ~Has(Tail(q), CallsOn(t)) /\ Has(q, {Job(op, t)})
    BY <1>1, Taking DEF TunnelFits, OnePlace
  <1>3. ~InFlight(q, w, e, t) /\ ~Has(q, OpenOf(t))
    BY <1>2 DEF TunnelFits, OnePlace, InFlight
  <1>4. ~Has(Tail(q), OpenOf(t)) /\ \A o \in Calls : ~Has(Tail(q), {Job(o, t)})
    BY <1>2, <1>3, Taking, Narrower
  <1>5. Once(Tail(q), OpenOf(t)) /\ Once(Tail(q), CallsOn(t))
    BY Taking DEF TunnelFits, OnePlace
  <1>6. JobsSame(<<>>, Tail(q), t)
    BY <1>2, <1>4, <1>5, EmptyQueue DEF JobsSame
  <1> QED BY <1>2, <1>3, <1>6 DEF TunnelFits, AwaitedOk, CallsOk

\* A tunnel whose open is over: the pump goes on by itself, or with a call.
LEMMA GoesOn ==
    ASSUME NEW t \in Tunnels, NEW q \in Seq(JobType), NEW w, NEW e, NEW rec, NEW p, NEW ch,
           JobsSame(<<>>, q, t), Once(e, ResultsOf(t)), ~InFlight(q, w, e, t),
           RecordOk(rec, p), w.at = "exited" => ch # "live"
    PROVE  /\ p.at \notin Calls /\ (p.at \in {"top", "deliver"} \/ ch # "live") =>
                TunnelFits(q, w, e, rec, p, ch, t)
           /\ p.at \in Calls /\ rec.obj # "new" =>
                TunnelFits(Append(q, Job(p.at, t)), w, e, rec, p, ch, t)
  <1>1. /\ ~Has(q, OpenOf(t)) /\ ~Has(q, CallsOn(t)) /\ Once(q, OpenOf(t)) /\ Once(q, CallsOn(t))
        /\ \A op \in Calls : ~Has(q, {Job(op, t)})
    BY EmptyQueue DEF JobsSame
  <1>2. ~AtWork(w, t) /\ ~Has(e, ResultsOf(t))
    BY DEF InFlight
  <1>3. ASSUME p.at \notin Calls, p.at \in {"top", "deliver"} \/ ch # "live"
        PROVE  TunnelFits(q, w, e, rec, p, ch, t)
    <2>1. OnePlace(q, w, e, p, t)
      BY <1>1, <1>2 DEF OnePlace
    <2>2. AwaitedOk(rec, InFlight(q, w, e, t), Has(q, CallsOn(t))) /\ CallsOk(q, p, t)
      BY <1>1 DEF AwaitedOk, CallsOk
    <2>3. ChannelOk(ch, rec, p, q, w, e, t)
      BY <1>3 DEF ChannelOk
    <2> QED BY <2>1, <2>2, <2>3 DEF TunnelFits
  <1>4. ASSUME p.at \in Calls, rec.obj # "new"
        PROVE  TunnelFits(Append(q, Job(p.at, t)), w, e, rec, p, ch, t)
    <2> DEFINE x == Job(p.at, t)
               r == Append(q, x)
    <2>1. /\ x \in JobType /\ x \in CallsOn(t) /\ x \notin OpenOf(t)
          /\ \A op \in Calls : op # p.at => x \notin {Job(op, t)}
      BY <1>4, MadeJobs DEF Calls, CallsOn, OpenOf, Job
    <2> HIDE DEF x
    <2>2. /\ Once(r, OpenOf(t)) /\ ~Has(r, OpenOf(t)) /\ Once(r, CallsOn(t))
          /\ \A op \in Calls : op # p.at => ~Has(r, {Job(op, t)})
      BY <1>1, <2>1, Appending
    <2> HIDE DEF r
    <2>3. ~InFlight(r, w, e, t)
      BY <1>2, <2>2 DEF InFlight
    <2>4. OnePlace(r, w, e, p, t)
      BY <1>2, <2>2, <2>3 DEF OnePlace
    <2>5. AwaitedOk(rec, InFlight(r, w, e, t), Has(r, CallsOn(t))) /\ CallsOk(r, p, t)
      BY <1>4, <2>2, <2>3 DEF AwaitedOk, CallsOk
    <2>6. ChannelOk(ch, rec, p, r, w, e, t)
      BY <1>4 DEF ChannelOk
    <2> QED BY <2>4, <2>5, <2>6 DEF TunnelFits, r, x
  <1> QED BY <1>3, <1>4

\* A pump at work has a record, and no open; where it is changes nothing of that.
LEMMA PumpRecord ==
    ASSUME NEW rec, NEW p, NEW pp, RecordOk(rec, p), p.at # "none", pp.at # "none"
    PROVE  RecordOk(rec, pp) /\ rec.obj = "alive"
  BY DEF RecordOk

\* A pump that is by itself has no call in the queue.
LEMMA ByItself ==
    ASSUME NEW t \in Tunnels, NEW q, NEW w, NEW e, NEW rec, NEW p, NEW ch,
           TunnelFits(q, w, e, rec, p, ch, t), p.at \in {"top", "deliver", "exit", "done"}
    PROVE  /\ JobsSame(<<>>, q, t) /\ ~InFlight(q, w, e, t) /\ Once(e, ResultsOf(t))
           /\ p.at \in {"exit", "done"} => ch # "live"
  <1>1. \A op \in Calls : ~Has(q, {Job(op, t)})
    BY DEF TunnelFits, CallsOk, Calls
  <1>2. ~InFlight(q, w, e, t) /\ Once(e, ResultsOf(t)) /\ Once(q, OpenOf(t)) /\ Once(q, CallsOn(t))
    BY DEF TunnelFits, OnePlace
  <1>3. JobsSame(<<>>, q, t)
    BY <1>1, <1>2, Narrower, EmptyQueue DEF JobsSame, InFlight
  <1>4. ~Has(e, {Event("channel", t)}) /\ ~(w.at = "posting" /\ w.t = t)
    BY <1>2, Narrower DEF InFlight, AtWork
  <1>5. p.at \in {"exit", "done"} => ch # "live"
    BY <1>1, <1>4 DEF TunnelFits, ChannelOk, RecordOk, Calls
  <1> QED BY <1>2, <1>3, <1>5

LEMMA TunnelUiTunnels ==
    ASSUME Types, TunnelInv, TunnelUi
    PROVE  TunnelInv'
  <1> SUFFICES ASSUME NEW u \in Tunnels
               PROVE  TunnelOk(u)'
    BY DEF TunnelInv
  <1>0. /\ events \in Seq(EventType) /\ jobs \in Seq(JobType)
        /\ tunnel \in [Tunnels -> TunnelType] /\ tunnel[u] \in TunnelType
        /\ pump \in [Tunnels -> PumpType]
        /\ JobsSame(jobs, jobs, u) /\ EventsSame(events, events, u) /\ WorkerSame(worker, worker, u)
        /\ worker' = worker
    BY JobsStay, EventsStay, TunnelUiFrame DEF Types, ThreadTypes, TunnelTypes, WorkerSame
  <1>f. TunnelFits(jobs, worker, events, tunnel[u], pump[u], channel[u], u)
    BY DEF TunnelInv, TunnelOk
  <1>x. worker.at = "exited" => channel[u] # "live"
    BY <1>f DEF TunnelFits
  <1>s. ASSUME JobsSame(jobs, jobs', u), EventsSame(events, events', u),
               tunnel'[u] = tunnel[u], pump'[u] = pump[u], channel'[u] = channel[u]
        PROVE  TunnelOk(u)'
    <2>1. TunnelFits(jobs', worker, events', tunnel[u], pump[u], channel[u], u)
      BY <1>0, <1>f, <1>x, <1>s, Untouched
    <2> QED BY <1>0, <1>s, <2>1 DEF TunnelOk
  <1>d. ASSUME NEW e \in Seq(EventType), NEW f, NEW t \in Tunnels,
               f = e \/ f = PostDelete(e, t)
        PROVE  EventsSame(e, f, u)
    <2>1. f = e \/ f = Append(e, Event("delete", t))
      BY <1>d, PostDeleteTyped
    <2>2. Event("delete", t) \in EventType /\ Event("delete", t) \notin ResultsOf(u)
      BY Made, ForeignEvents
    <2> QED BY <2>1, <2>2, EventsStay
  <1>7. CASE HandleResult
    <2> DEFINE t == Head(events).val
               ch == Head(events).kind = "channel"
               f == Tail(events)
    <2>1. /\ t \in Tunnels /\ f \in Seq(EventType) /\ events # <<>>
          /\ Head(events) = Event("channel", t) \/ Head(events) = Event("noChannel", t)
          /\ ch <=> Head(events) = Event("channel", t)
      BY <1>7, FirstEvent, EventIs DEF HandleResult, Event
    <2>2. \/ (ResultDropped(ch, t) \/ ResultAbandoned(ch, t) \/ OnChannelOpened(ch, t)) /\ events' = f
          \/ OnChannelFailed(ch, t) /\ events' = PostDelete(f, t)
      BY <1>7 DEF HandleResult
    <2> HIDE DEF t, ch
    <2>3. EventsSame(f, events', u)
      BY <1>d, <2>1, <2>2
    <2>4. CASE u # t
      <3>1. EventsSame(events, f, u)
        BY <1>0, <2>1, <2>4, EventsStay, ForeignEvents
      <3>2. EventsSame(events, events', u)
        BY <2>3, <3>1, EventsChain
      <3>3. jobs' = jobs \/ jobs' = Append(jobs, Job("free", t))
        BY <2>2 DEF ResultDropped, ResultAbandoned, OnChannelOpened, OnChannelFailed, ReturnChannel
      <3>4. Job("free", t) \in JobType /\ Foreign(Job("free", t), u)
        BY <2>1, <2>4, MadeJobs, ForeignJobs DEF Calls
      <3>5. JobsSame(jobs, jobs', u)
        BY <1>0, <3>3, <3>4, JobsStay
      <3>6. tunnel'[u] = tunnel[u] /\ pump'[u] = pump[u]
        BY <1>0, <2>2, <2>4 DEF ResultDropped, ResultAbandoned, OnChannelOpened, OnChannelFailed
      <3>7. channel'[u] = channel[u]
        BY <2>2, <2>4, LoseTyped DEF ResultDropped, ResultAbandoned, OnChannelOpened,
           OnChannelFailed
      <3> QED BY <1>s, <3>2, <3>5, <3>6, <3>7
    <2>5. CASE u = t
      <3>1. Head(events) \in ResultsOf(u)
        BY <2>1, <2>5 DEF ResultsOf
      <3>2. /\ pump[u].at = "none" /\ ~tunnel[u].opened
            /\ tunnel[u].pending \/ tunnel[u].abandoned
            /\ channel[u] = "live" => ch
        BY <1>0, <1>f, <2>1, <2>5, <3>1, Arrived, ZenonT(30)
      <3>r. RecordOk(tunnel[u], pump[u])
        BY <1>f DEF TunnelFits
      <3>f. f \in Seq(EventType)
        BY <2>1
      <3>c. channel'[u] = channel[u] \/ channel'[u] # "live"
        BY <2>2, <2>5, LoseTyped DEF ResultDropped, ResultAbandoned, OnChannelOpened,
           OnChannelFailed
      <3>3. SUFFICES TunnelFits(jobs', worker, f, tunnel'[u], pump'[u], channel'[u], u)
        <4>0. JobsSame(jobs', jobs', u)
          BY DEF JobsSame
        <4>x. worker.at = "exited" => channel'[u] # "live"
          BY <1>x, <3>c
        <4> HIDE DEF f
        <4>1. TunnelFits(jobs', worker, events', tunnel'[u], pump'[u], channel'[u], u)
          BY <1>0, <4>x, <2>3, <3>3, <4>0, Untouched
        <4> QED BY <1>0, <4>1 DEF TunnelOk
      <3>4. CASE ResultDropped(ch, t)
        <4>1. jobs' = jobs /\ tunnel' = tunnel /\ pump' = pump
          BY <3>4 DEF ResultDropped
        <4>2. channel'[u] # "live"
          BY <2>5, <3>2, <3>4, LoseTyped DEF ResultDropped
        <4>3. TunnelFits(jobs, worker, f, tunnel[u], pump[u], channel'[u], u)
          BY <1>0, <1>f, <2>1, <3>1, <3>2, <3>r, <4>2, Resulted
        <4> QED BY <4>1, <4>3
      <3>5. ASSUME ReturnChannel(ch, t), NEW new, RecordOk(new, pump[u]), new.obj = tunnel[u].obj
            PROVE  TunnelFits(jobs', worker, f, new, pump[u], channel[u], u)
        <4>1. CASE jobs' = Append(jobs, Job("free", t))
          BY <1>0, <1>f, <2>1, <2>5, <3>1, <3>2, <3>5, <4>1, Resulted
        <4>2. CASE jobs' = jobs /\ (~ch \/ worker.at = "exited")
          <5>1. channel[u] # "live"
            BY <1>x, <3>2, <4>2
          <5>2. TunnelFits(jobs, worker, f, new, pump[u], channel[u], u)
            BY <1>0, <1>f, <2>1, <3>1, <3>2, <3>5, <5>1, Resulted
          <5> QED BY <4>2, <5>2
        <4> QED BY <3>5, <4>1, <4>2 DEF ReturnChannel
      <3>6. CASE ResultAbandoned(ch, t)
        BY <3>5, <3>6, <3>r DEF ResultAbandoned
      <3>7. CASE OnChannelFailed(ch, t)
        <4> DEFINE a == [tunnel[u] EXCEPT !.pending = FALSE]
                   new == Emit(a, "failed")
        <4>1. /\ tunnel' = [tunnel EXCEPT ![u] = new] /\ pump' = pump /\ ReturnChannel(ch, t)
              /\ tunnel[u].obj = "alive" /\ ~tunnel[u].abandoned
          BY <2>5, <3>7 DEF OnChannelFailed
        <4>2. Reads(a, tunnel[u].obj, FALSE, tunnel[u].abandoned, tunnel[u].opened, tunnel[u].signals)
          BY <1>0, ResultReads
        <4> HIDE DEF a
        <4>3. Reads(new, a.obj, a.pending, a.abandoned, a.opened, Append(a.signals, "failed"))
          BY <4>2, EmitReads DEF Reads
        <4> HIDE DEF new
        <4>4. tunnel[u].signals = <<>>
          BY <3>2, <3>r, <4>1 DEF RecordOk
        <4>5. new.signals = <<"failed">>
          BY <4>2, <4>3, <4>4 DEF Reads
        <4>6. RecordOk(new, pump[u]) /\ new.obj = tunnel[u].obj
          BY <3>2, <4>1, <4>2, <4>3, <4>5 DEF RecordOk, Reads, Signals
        <4>7. tunnel'[u] = new /\ pump'[u] = pump[u]
          BY <1>0, <4>1
        <4>8. channel' = channel
          BY <3>7 DEF OnChannelFailed
        <4> QED BY <3>5, <4>1, <4>6, <4>7, <4>8
      <3>8. CASE OnChannelOpened(ch, t)
        <4> DEFINE a == [tunnel[u] EXCEPT !.pending = FALSE, !.opened = TRUE, !.fd = "open"]
                   new == Emit(a, "opened")
        <4>1. /\ tunnel' = [tunnel EXCEPT ![u] = new] /\ pump' = [pump EXCEPT ![u].at = "top"]
              /\ jobs' = jobs /\ tunnel[u].obj = "alive" /\ ~tunnel[u].abandoned
          BY <2>5, <3>8 DEF OnChannelOpened
        <4>2. Reads(a, tunnel[u].obj, FALSE, tunnel[u].abandoned, TRUE, tunnel[u].signals)
          BY <1>0, ResultReads
        <4> HIDE DEF a
        <4>3. Reads(new, a.obj, a.pending, a.abandoned, a.opened, Append(a.signals, "opened"))
          BY <4>2, EmitReads DEF Reads
        <4> HIDE DEF new
        <4>4. tunnel[u].signals = <<>>
          BY <3>2, <3>r, <4>1 DEF RecordOk
        <4>5. new.signals = <<"opened">>
          BY <4>2, <4>3, <4>4 DEF Reads
        <4>6. pump'[u].at = "top" /\ tunnel'[u] = new
          BY <1>0, <4>1, PumpAt
        <4>7. RecordOk(new, pump'[u]) /\ new.obj = tunnel[u].obj
          BY <4>1, <4>2, <4>3, <4>5, <4>6 DEF RecordOk, Reads, Signals
        <4>8. TunnelFits(jobs, worker, f, new, pump'[u], channel[u], u)
          BY <1>0, <1>f, <2>1, <3>1, <4>6, <4>7, Resulted
        <4>9. channel' = channel
          BY <3>8 DEF OnChannelOpened
        <4> QED BY <4>1, <4>6, <4>8, <4>9
      <3> QED BY <2>2, <3>4, <3>6, <3>7, <3>8
    <2> QED BY <2>4, <2>5
  <1>n. SUFFICES ASSUME ~HandleResult
                 PROVE  TunnelOk(u)'
    BY <1>7
  <1>c. channel' = channel
    BY <1>n, TunnelUiFrame
  <1> USE <1>c
  <1>1. ASSUME NEW t \in Tunnels, OpenTunnel(t)
        PROVE  TunnelOk(u)'
    <2>1. events' = events /\ pump' = pump /\ tunnel[t].obj = "new"
      BY <1>1 DEF OpenTunnel
    <2>2. CASE state = "Connected"
      <3> DEFINE new == [[tunnel[t] EXCEPT !.obj = "alive"] EXCEPT !.pending = TRUE]
      <3>1. jobs' = Append(jobs, Job("channel", t)) /\ tunnel' = [tunnel EXCEPT ![t] = new]
        BY <1>0, <1>1, <2>2 DEF OpenTunnel
      <3>2. CASE u = t
        <4>1. Reads(new, "alive", TRUE, tunnel[u].abandoned, tunnel[u].opened, tunnel[u].signals)
          BY <1>0, <3>2, OpenReads
        <4> HIDE DEF new
        <4>2. TunnelFits(Append(jobs, Job("channel", u)), worker, events, new, pump[u],
                         channel[u], u)
          BY <1>0, <1>f, <2>1, <3>2, <4>1, Opens
        <4> QED BY <1>0, <2>1, <3>1, <3>2, <4>2 DEF TunnelOk
      <3>3. CASE u # t
        <4>1. Job("channel", t) \in JobType /\ Foreign(Job("channel", t), u)
          BY <3>3, MadeJobs, ForeignJobs
        <4>2. JobsSame(jobs, jobs', u)
          BY <1>0, <3>1, <4>1, JobsStay
        <4>3. tunnel'[u] = tunnel[u]
          BY <1>0, <3>1, <3>3
        <4> QED BY <1>0, <1>s, <2>1, <4>2, <4>3
      <3> QED BY <3>2, <3>3
    <2>3. CASE state # "Connected"
      <3> DEFINE new == Emit([tunnel[t] EXCEPT !.obj = "alive"], "failed")
      <3>1. jobs' = jobs /\ tunnel' = [tunnel EXCEPT ![t] = new]
        BY <1>1, <2>3 DEF OpenTunnel
      <3>2. CASE u = t
        <4>1. RecordOk(tunnel[u], pump[u])
          BY <1>f DEF TunnelFits
        <4>2. tunnel[u].signals = <<>> /\ ~tunnel[u].pending /\ ~tunnel[u].abandoned
              /\ ~tunnel[u].opened
          BY <2>1, <3>2, <4>1 DEF RecordOk
        <4> DEFINE a == [tunnel[t] EXCEPT !.obj = "alive"]
        <4>3. Reads(a, "alive", tunnel[u].pending, tunnel[u].abandoned, tunnel[u].opened,
                    tunnel[u].signals)
          BY <1>0, <3>2, OpenReads
        <4> HIDE DEF a
        <4>4. Reads(new, a.obj, a.pending, a.abandoned, a.opened, Append(a.signals, "failed"))
          BY <4>3, EmitReads DEF Reads, a
        <4> HIDE DEF new
        <4>5. new.signals = <<"failed">>
          BY <4>2, <4>3, <4>4 DEF Reads
        <4>6. RecordOk(new, pump[u])
          BY <4>1, <4>2, <4>3, <4>4, <4>5 DEF RecordOk, Reads, Signals
        <4>7. new.obj = "alive"
          BY <4>3, <4>4 DEF Reads
        <4>8. TunnelFits(jobs, worker, events, new, pump[u], channel[u], u)
          BY <1>f, <2>1, <3>2, <4>2, <4>6, <4>7, Rewritten
        <4> QED BY <1>0, <2>1, <3>1, <3>2, <4>8 DEF TunnelOk
      <3>3. CASE u # t
        BY <1>0, <1>s, <2>1, <3>1, <3>3
      <3> QED BY <3>2, <3>3
    <2> QED BY <2>2, <2>3
  <1>2. ASSUME NEW t \in Tunnels, CloseTunnel(t) \/ DeleteTunnel(t)
        PROVE  TunnelOk(u)'
    BY <1>0, <1>2, <1>s DEF CloseTunnel, DeleteTunnel, tunnelVars
  <1>3. CASE DestroySession \/ DeleteLater \/ HandleFinished
    <2>1. jobs' = jobs /\ tunnel' = tunnel /\ pump' = pump
      BY <1>3 DEF DestroySession, DeleteLater, HandleFinished, tunnelVars
    <2>2. \/ events' = events
          \/ events # <<>> /\ Head(events).kind \in {"delete", "finished"} /\ events' = Tail(events)
      BY <1>3 DEF DestroySession, DeleteLater, HandleFinished, NextEvent
    <2>3. EventsSame(events, events', u)
      <3>1. CASE events' = events
        BY <1>0, <3>1
      <3>2. CASE events' # events
        <4>1. events # <<>> /\ Head(events) \notin ResultsOf(u) /\ events' = Tail(events)
          BY <2>2, <3>2, ForeignEvents
        <4> QED BY <1>0, <4>1, EventsStay
      <3> QED BY <3>1, <3>2
    <2> QED BY <1>0, <1>s, <2>1, <2>3
  <1>4. CASE CloseIdle
    <2> DEFINE c == Head(ui.todo)
    <2>1. c.t \in Tunnels /\ c.del \in BOOLEAN
      BY <1>4, NextTyped DEF CloseIdle, ClosingType
    <2>2. /\ jobs' = jobs /\ pump' = pump /\ pump[c.t].at = "none"
          /\ events' = events \/ events' = PostDelete(events, c.t)
      BY <1>4 DEF CloseIdle
    <2>3. \/ tunnel' = [tunnel EXCEPT ![c.t] = Closed(tunnel[c.t], c.del)]
          \/ /\ tunnel' = [tunnel EXCEPT ![c.t] = Emit(Closed(tunnel[c.t], c.del), "failed")]
             /\ tunnel[c.t].pending /\ ~c.del
      BY <1>4 DEF CloseIdle, Closed, Reports
    <2> HIDE DEF c
    <2>4. EventsSame(events, events', u)
      BY <1>0, <1>d, <2>1, <2>2
    <2>5. CASE u # c.t
      BY <1>0, <1>s, <2>2, <2>3, <2>4, <2>5
    <2>6. CASE u = c.t
      <3>1. TunnelFits(jobs, worker, events, tunnel'[u], pump[u], channel[u], u)
        BY <1>0, <1>f, <2>1, <2>2, <2>3, <2>6, Closes
      <3>2. TunnelFits(jobs, worker, events', tunnel'[u], pump[u], channel[u], u)
        BY <1>0, <1>x, <2>4, <3>1, Untouched
      <3> QED BY <1>0, <2>2, <3>2 DEF TunnelOk
    <2> QED BY <2>5, <2>6
  <1>5. CASE CloseStops
    <2> DEFINE t == Head(ui.todo).t
    <2>1. /\ events' = events /\ jobs' = jobs /\ tunnel' = tunnel
          /\ pump' = [pump EXCEPT ![t].stop = TRUE]
      BY <1>5 DEF CloseStops, StopPump
    <2> HIDE DEF t
    <2>2. pump'[u].at = pump[u].at
      BY <1>0, <2>1 DEF PumpType
    <2>3. RecordOk(tunnel[u], pump'[u])
      BY <1>f, <2>2 DEF TunnelFits, RecordOk
    <2>4. TunnelFits(jobs, worker, events, tunnel[u], pump'[u], channel[u], u)
      BY <1>f, <2>2, <2>3, Rewritten
    <2> QED BY <1>0, <2>1, <2>4 DEF TunnelOk
  <1>6. CASE CloseJoins
    <2> DEFINE c == Head(ui.todo)
    <2>0. ui.todo # <<>>
      BY <1>6 DEF CloseJoins, Types, ThreadTypes
    <2>1. c.t \in Tunnels /\ c.del \in BOOLEAN
      BY <1>6, <2>0, NextTyped DEF CloseJoins, ClosingType
    <2>2. /\ jobs' = jobs /\ pump' = [pump EXCEPT ![c.t] = NoPump] /\ pump[c.t].at = "done"
          /\ events' = events \/ events' = PostDelete(events, c.t)
      BY <1>6 DEF CloseJoins
    <2>3. IF tunnel[c.t].opened /\ ~c.del
          THEN tunnel' = [tunnel EXCEPT ![c.t] = Emit(Joined(tunnel[c.t], c.del), "closed")]
          ELSE tunnel' = [tunnel EXCEPT ![c.t] = Joined(tunnel[c.t], c.del)]
      BY <1>6 DEF CloseJoins, Joined
    <2> HIDE DEF c
    <2>4. EventsSame(events, events', u)
      BY <1>0, <1>d, <2>1, <2>2
    <2>5. CASE u # c.t
      <3>1. tunnel'[u] = tunnel[u] /\ pump'[u] = pump[u]
        BY <1>0, <2>2, <2>3, <2>5
      <3> QED BY <1>0, <1>s, <2>2, <2>4, <3>1
    <2>6. CASE u = c.t
      <3>0. pump'[u] = NoPump
        BY <1>0, <2>2, <2>6
      <3>1. /\ tunnel[u].opened
            /\ c.del => TunnelFits(jobs, worker, events, Joined(tunnel[u], c.del), NoPump, channel[u], u)
            /\ ~c.del => TunnelFits(jobs, worker, events, Emit(Joined(tunnel[u], c.del), "closed"),
                                    NoPump, channel[u], u)
        BY <1>0, <1>f, <2>1, <2>2, <2>6, Joins
      <3>2. TunnelFits(jobs, worker, events, tunnel'[u], NoPump, channel[u], u)
        BY <1>0, <2>1, <2>3, <2>6, <3>1
      <3>3. TunnelFits(jobs, worker, events', tunnel'[u], NoPump, channel[u], u)
        BY <1>0, <1>x, <2>4, <3>2, Untouched
      <3> QED BY <1>0, <2>2, <3>0, <3>3 DEF TunnelOk
    <2> QED BY <2>5, <2>6
  <1> QED BY <1>1, <1>2, <1>3, <1>4, <1>5, <1>6, <1>7 DEF TunnelUi

LEMMA WorkTunnels ==
    ASSUME Types, TunnelInv, TunnelWork \/ PumpWork
    PROVE  TunnelInv'
  <1> SUFFICES ASSUME NEW u \in Tunnels
               PROVE  TunnelOk(u)'
    BY DEF TunnelInv
  <1>0. /\ events \in Seq(EventType) /\ jobs \in Seq(JobType) /\ worker \in WorkerType
        /\ tunnel \in [Tunnels -> TunnelType] /\ tunnel[u] \in TunnelType
        /\ pump \in [Tunnels -> PumpType] /\ channel \in [Tunnels -> ChannelStates]
        /\ JobsSame(jobs, jobs, u) /\ EventsSame(events, events, u) /\ WorkerSame(worker, worker, u)
    BY JobsStay, EventsStay DEF Types, ThreadTypes, TunnelTypes, WorkerSame
  <1>f. TunnelFits(jobs, worker, events, tunnel[u], pump[u], channel[u], u)
    BY DEF TunnelInv, TunnelOk
  <1>x. worker.at = "exited" => channel[u] # "live"
    BY <1>f DEF TunnelFits
  <1>r. RecordOk(tunnel[u], pump[u]) /\ Once(events, ResultsOf(u))
    BY <1>f DEF TunnelFits, OnePlace
  <1>i. Idle.at = "idle" /\ \A p, t : Doing(p, t).at = p /\ Doing(p, t).t = t
    BY DEF Idle, Doing
  <1>s. ASSUME JobsSame(jobs, jobs', u), EventsSame(events, events', u),
               WorkerSame(worker, worker', u), worker'.at = "exited" => worker.at = "exited",
               tunnel'[u] = tunnel[u], pump'[u] = pump[u], channel'[u] = channel[u]
        PROVE  TunnelOk(u)'
    <2>1. TunnelFits(jobs', worker', events', tunnel[u], pump[u], channel[u], u)
      BY <1>f, <1>x, <1>s, Untouched
    <2> QED BY <1>s, <2>1 DEF TunnelOk
  <1>1. CASE WorkerChannel
    <2> DEFINE t == Head(jobs).t
    <2>1. /\ jobs # <<>> /\ Tail(jobs) \in Seq(JobType) /\ Head(jobs) = Job("channel", t)
          /\ Head(jobs) \in JobType /\ Head(jobs).op = "channel" /\ worker = Idle
      BY <1>1, FirstJob DEF WorkerChannel, Takes
    <2>2. t \in Tunnels
      BY <2>1, JobIs
    <2>3. UNCHANGED <<tunnel, pump, channel>> /\ jobs' = Tail(jobs)
      BY <1>1 DEF WorkerChannel, tunnelVars, libssh
    <2>4. \/ events' = events /\ worker' = worker
          \/ events' = Append(events, Event("noChannel", t)) /\ worker' = worker
          \/ events' = events /\ worker' = Doing("channel", t)
      BY <1>1 DEF WorkerChannel
    <2> HIDE DEF t
    <2>5. CASE u # t
      <3>1. JobsSame(jobs, jobs', u)
        BY <1>0, <2>1, <2>2, <2>3, <2>5, JobsStay, ForeignJobs
      <3>2. EventsSame(events, events', u)
        <4>1. Event("noChannel", t) \in EventType /\ Event("noChannel", t) \notin ResultsOf(u)
          BY <2>2, <2>5, Made, ForeignEvents
        <4> QED BY <1>0, <2>4, <4>1, EventsStay
      <3>3. WorkerSame(worker, worker', u) /\ (worker'.at = "exited" => worker.at = "exited")
        BY <1>0, <1>i, <2>1, <2>4, <2>5 DEF WorkerSame, AtWork
      <3> QED BY <1>s, <2>3, <3>1, <3>2, <3>3
    <2>6. CASE u = t
      <3>1. /\ JobsSame(<<>>, jobs', u)
            /\ ~AtWork(worker, u) /\ ~Has(events, ResultsOf(u)) /\ pump[u].at = "none"
            /\ tunnel[u].obj # "new" /\ (tunnel[u].pending \/ tunnel[u].abandoned)
            /\ channel[u] # "live"
        BY <1>0, <1>f, <2>1, <2>3, <2>6, Taken
      <3>2. CASE events' = events /\ worker' = worker
        <4>1. TunnelFits(jobs', worker, events, tunnel[u], pump[u], channel[u], u)
          BY <1>x, <1>r, <3>1, Alone
        <4> QED BY <2>3, <3>2, <4>1 DEF TunnelOk
      <3>3. CASE events' = Append(events, Event("noChannel", t)) /\ worker' = worker
        <4>1. Once(events', ResultsOf(u))
          BY <1>0, <1>r, <2>6, <3>1, <3>3, PostedOnce DEF ResultsOf
        <4>2. TunnelFits(jobs', worker, events', tunnel[u], pump[u], channel[u], u)
          BY <1>x, <1>r, <3>1, <4>1, Alone
        <4> QED BY <2>3, <3>3, <4>2 DEF TunnelOk
      <3>4. CASE events' = events /\ worker' = Doing("channel", t)
        <4>1. worker'.at = "channel"
          BY <1>i, <3>4
        <4>2. TunnelFits(jobs', worker', events, tunnel[u], pump[u], channel[u], u)
          BY <1>r, <3>1, <4>1, Alone
        <4> QED BY <2>3, <3>4, <4>2 DEF TunnelOk
      <3> QED BY <2>4, <3>2, <3>3, <3>4
    <2> QED BY <2>5, <2>6
  <1>2. CASE ChannelEnds
    <2> DEFINE t == worker.t
    <2>1. t \in Tunnels /\ worker.at = "channel"
      BY <1>0, <1>2, WorkerIs DEF ChannelEnds
    <2>2. UNCHANGED <<tunnel, pump, jobs>>
      BY <1>2 DEF ChannelEnds, tunnelVars
    <2>3. \/ events' = events /\ worker' = Idle /\ channel' = [channel EXCEPT ![t] = "freed"]
          \/ /\ events' = events /\ worker' = Doing("posting", t)
             /\ channel' = [channel EXCEPT ![t] = "live"]
          \/ /\ events' = Append(events, Event("noChannel", t)) /\ worker' = Idle
             /\ channel' = [channel EXCEPT ![t] = "freed"]
      BY <1>2 DEF ChannelEnds
    <2>t. worker.t = t
      OBVIOUS
    <2> HIDE DEF t
    <2>4. CASE u # t
      <3>1. EventsSame(events, events', u)
        <4>1. Event("noChannel", t) \in EventType /\ Event("noChannel", t) \notin ResultsOf(u)
          BY <2>1, <2>4, Made, ForeignEvents
        <4> QED BY <1>0, <2>3, <4>1, EventsStay, ZenonT(30)
      <3>2. WorkerSame(worker, worker', u) /\ worker'.at # "exited"
        BY <1>i, <2>1, <2>t, <2>3, <2>4 DEF WorkerSame, AtWork
      <3>3. channel'[u] = channel[u]
        BY <1>0, <2>3, <2>4
      <3> QED BY <1>0, <1>s, <2>2, <3>1, <3>2, <3>3
    <2>5. CASE u = t
      <3>1. AtWork(worker, u)
        BY <2>1, <2>t, <2>5 DEF AtWork
      <3>2. /\ JobsSame(<<>>, jobs, u) /\ pump[u].at = "none"
            /\ ~Has(events, ResultsOf(u))
            /\ tunnel[u].obj # "new" /\ (tunnel[u].pending \/ tunnel[u].abandoned)
        BY <1>f, <3>1, Working
      <3>3. CASE events' = events /\ worker' = Idle /\ channel' = [channel EXCEPT ![t] = "freed"]
        <4>1. channel'[u] # "live" /\ worker'.at = "idle"
          BY <1>0, <1>i, <2>5, <3>3
        <4>2. TunnelFits(jobs, worker', events, tunnel[u], pump[u], channel'[u], u)
          BY <1>r, <3>2, <4>1, Alone
        <4> QED BY <2>2, <3>3, <4>2 DEF TunnelOk
      <3>4. CASE /\ events' = events /\ worker' = Doing("posting", t)
                 /\ channel' = [channel EXCEPT ![t] = "live"]
        <4>1. worker'.at = "posting" /\ worker'.t = u
          BY <1>i, <2>5, <3>4
        <4>2. TunnelFits(jobs, worker', events, tunnel[u], pump[u], channel'[u], u)
          BY <1>r, <3>2, <4>1, Alone
        <4> QED BY <2>2, <3>4, <4>2 DEF TunnelOk
      <3>5. CASE /\ events' = Append(events, Event("noChannel", t)) /\ worker' = Idle
                 /\ channel' = [channel EXCEPT ![t] = "freed"]
        <4>1. channel'[u] # "live" /\ worker'.at = "idle"
          BY <1>0, <1>i, <2>5, <3>5
        <4>2. Once(events', ResultsOf(u)) /\ ~AtWork(worker', u)
          BY <1>0, <1>r, <2>5, <3>2, <3>5, <4>1, PostedOnce DEF ResultsOf, AtWork
        <4>3. TunnelFits(jobs, worker', events', tunnel[u], pump[u], channel'[u], u)
          BY <3>2, <1>r, <4>1, <4>2, Alone
        <4> QED BY <2>2, <4>3 DEF TunnelOk
      <3> QED BY <2>3, <3>3, <3>4, <3>5
    <2> QED BY <2>4, <2>5
  <1>3. CASE PostResult
    <2> DEFINE t == worker.t
    <2>1. t \in Tunnels /\ worker.at = "posting"
      BY <1>0, <1>3, WorkerIs DEF PostResult
    <2>2. UNCHANGED <<tunnel, pump, jobs>> /\ worker' = Idle
      BY <1>3 DEF PostResult, tunnelVars
    <2>3. \/ events' = events /\ Lose(t)
          \/ events' = Append(events, Event("channel", t)) /\ channel' = channel
      BY <1>3 DEF PostResult
    <2>t. worker.t = t /\ worker'.at = "idle"
      BY <1>i, <2>2
    <2> HIDE DEF t
    <2>4. CASE u # t
      <3>1. EventsSame(events, events', u)
        <4>1. Event("channel", t) \in EventType /\ Event("channel", t) \notin ResultsOf(u)
          BY <2>1, <2>4, Made, ForeignEvents
        <4> QED BY <1>0, <2>3, <4>1, EventsStay
      <3>2. WorkerSame(worker, worker', u)
        BY <2>1, <2>t, <2>4 DEF WorkerSame, AtWork
      <3>3. channel'[u] = channel[u]
        BY <2>3, <2>4, LoseTyped
      <3> QED BY <1>0, <1>s, <2>2, <2>t, <3>1, <3>2, <3>3
    <2>5. CASE u = t
      <3>1. AtWork(worker, u)
        BY <2>1, <2>t, <2>5 DEF AtWork
      <3>2. /\ JobsSame(<<>>, jobs, u) /\ pump[u].at = "none"
            /\ ~Has(events, ResultsOf(u))
            /\ tunnel[u].obj # "new" /\ (tunnel[u].pending \/ tunnel[u].abandoned)
        BY <1>f, <3>1, Working
      <3>3. ~AtWork(worker', u)
        BY <2>t DEF AtWork
      <3>4. CASE events' = events /\ Lose(t)
        <4>1. channel'[u] # "live"
          BY <2>5, <3>4, LoseTyped
        <4>2. TunnelFits(jobs, worker', events, tunnel[u], pump[u], channel'[u], u)
          BY <1>r, <2>t, <3>2, <3>3, <4>1, Alone
        <4> QED BY <2>2, <3>4, <4>2 DEF TunnelOk
      <3>5. CASE events' = Append(events, Event("channel", t)) /\ channel' = channel
        <4>1. Once(events', ResultsOf(u)) /\ Has(events', {Event("channel", u)})
          BY <1>0, <1>r, <2>5, <3>2, <3>5, PostedOnce DEF ResultsOf
        <4>2. TunnelFits(jobs, worker', events', tunnel[u], pump[u], channel[u], u)
          BY <1>r, <2>t, <3>2, <3>3, <4>1, Alone
        <4> QED BY <2>2, <3>5, <4>2 DEF TunnelOk
      <3> QED BY <2>3, <3>4, <3>5
    <2> QED BY <2>4, <2>5
  <1>4. CASE WorkerCalls
    <2>1. PICK t \in Tunnels, op \in Calls :
             /\ jobs # <<>> /\ Head(jobs) = Job(op, t) /\ worker = Idle /\ worker' = worker
             /\ events' = events /\ tunnel' = tunnel
             /\ channel' = IF op = "free" THEN [channel EXCEPT ![t] = "freed"] ELSE channel
             /\ channel[t] = "live" => deadUse' = deadUse
             /\ \/ /\ pump[t].at = op
                   /\ \E next \in Answers(t, op) :
                        /\ pump' = [pump EXCEPT ![t].at = next]
                        /\ jobs' = Posted(Tail(jobs), next, t)
                \/ pump[t].at # op /\ pump' = pump /\ jobs' = Tail(jobs)
      BY <1>4, CallMoves
    <2>2. Tail(jobs) \in Seq(JobType)
      BY <2>1, FirstJob
    <2>3. CASE u # t
      <3>1. Job(op, t) \in JobType /\ Foreign(Job(op, t), u)
        BY <2>3, MadeJobs, ForeignJobs
      <3>2. JobsSame(jobs, Tail(jobs), u)
        BY <1>0, <2>1, <3>1, JobsStay
      <3>3. channel'[u] = channel[u]
        BY <1>0, <2>1, <2>3
      <3>4. ASSUME NEW next \in Answers(t, op), pump' = [pump EXCEPT ![t].at = next],
                   jobs' = Posted(Tail(jobs), next, t)
            PROVE  JobsSame(jobs, jobs', u) /\ pump'[u] = pump[u]
        <4>1. next \in Calls => Job(next, t) \in JobType /\ Foreign(Job(next, t), u)
          BY <2>3, MadeJobs, ForeignJobs
        <4>2. JobsSame(Tail(jobs), jobs', u)
          BY <2>2, <3>4, <4>1, JobsStay DEF Posted
        <4>3. JobsSame(jobs, jobs', u)
          BY <3>2, <4>2 DEF JobsSame
        <4> QED BY <1>0, <2>3, <3>4, <4>3
      <3>5. JobsSame(jobs, jobs', u) /\ pump'[u] = pump[u]
        BY <2>1, <3>2, <3>4
      <3> QED BY <1>0, <1>s, <2>1, <3>3, <3>5
    <2>4. CASE u = t
      <3>1. /\ JobsSame(<<>>, Tail(jobs), u) /\ ~InFlight(jobs, worker, events, u)
            /\ tunnel[u].obj # "new"
            /\ pump[u].at = op \/ (op = "free" /\ pump[u].at = "none")
        BY <1>0, <1>f, <2>1, <2>4, CallTaken
      <3>2. ~InFlight(Tail(jobs), worker, events, u)
        <4>1. ~Has(Tail(jobs), OpenOf(u))
          BY <3>1, EmptyQueue DEF JobsSame
        <4> QED BY <3>1, <4>1 DEF InFlight
      <3>3. worker.at = "idle"
        BY <1>i, <2>1
      <3>4. op = "free" => channel'[u] # "live"
        BY <1>0, <2>1, <2>4
      <3>5. CASE pump[u].at # op
        <4>1. pump' = pump /\ jobs' = Tail(jobs) /\ op = "free" /\ pump[u].at = "none"
          BY <2>1, <2>4, <3>1, <3>5
        <4>2. TunnelFits(Tail(jobs), worker, events, tunnel[u], pump[u], channel'[u], u)
          BY <1>r, <2>2, <3>1, <3>2, <3>3, <3>4, <4>1, GoesOn DEF Calls
        <4> QED BY <2>1, <4>1, <4>2 DEF TunnelOk
      <3>6. ASSUME pump[u].at = op, NEW next \in Answers(t, op),
                   pump' = [pump EXCEPT ![t].at = next], jobs' = Posted(Tail(jobs), next, t)
            PROVE  TunnelOk(u)'
        <4>1. /\ next \in {"top", "deliver", "exit"} \cup Calls
              /\ next = "exit" => op = "free"
          BY AnswersAre
        <4>2. pump'[u].at = next
          BY <1>0, <2>4, <3>6, <4>1, PumpAt
        <4>3. RecordOk(tunnel[u], pump'[u])
          <5>1. op # "none" /\ next # "none"
            BY <4>1 DEF Calls
          <5> QED BY <1>r, <3>6, <4>2, <5>1, PumpRecord
        <4>4. CASE next \in Calls
          <5>1. jobs' = Append(Tail(jobs), Job(pump'[u].at, u))
            BY <2>4, <3>6, <4>2, <4>4 DEF Posted
          <5>2. TunnelFits(jobs', worker, events, tunnel[u], pump'[u], channel'[u], u)
            BY <1>r, <2>2, <3>1, <3>2, <3>3, <4>2, <4>3, <4>4, <5>1, GoesOn
          <5> QED BY <2>1, <5>2 DEF TunnelOk
        <4>5. CASE next \notin Calls
          <5>1. jobs' = Tail(jobs)
            BY <3>6, <4>5 DEF Posted
          <5>2. next \in {"top", "deliver"} \/ channel'[u] # "live"
            BY <3>4, <4>1, <4>5
          <5>3. TunnelFits(Tail(jobs), worker, events, tunnel[u], pump'[u], channel'[u], u)
            BY <1>r, <2>2, <3>1, <3>2, <3>3, <4>2, <4>3, <4>5, <5>2, GoesOn
          <5> QED BY <2>1, <5>1, <5>3 DEF TunnelOk
        <4> QED BY <4>4, <4>5
      <3> QED BY <2>1, <2>4, <3>5, <3>6
    <2> QED BY <2>3, <2>4
  <1>5. ASSUME NEW t \in Tunnels, PumpTop(t) \/ PumpDelivers(t)
        PROVE  TunnelOk(u)'
    <2>1. /\ pump[t].at \in {"top", "deliver"} /\ pump'[t].at \in Calls
          /\ \A v \in Tunnels : v # t => pump'[v] = pump[v]
          /\ UNCHANGED <<events, worker, channel, tunnel>>
          /\ jobs' = Append(jobs, Job(pump'[t].at, t))
      BY <1>5, PumpMoves
    <2>2. CASE u # t
      <3>1. Job(pump'[t].at, t) \in JobType /\ Foreign(Job(pump'[t].at, t), u)
        BY <2>1, <2>2, MadeJobs, ForeignJobs
      <3>2. JobsSame(jobs, jobs', u)
        BY <1>0, <2>1, <3>1, JobsStay
      <3> QED BY <1>0, <1>s, <2>1, <2>2, <3>2
    <2>3. CASE u = t
      <3>1. JobsSame(<<>>, jobs, u) /\ ~InFlight(jobs, worker, events, u)
        BY <1>f, <2>1, <2>3, ByItself
      <3>2. RecordOk(tunnel[u], pump'[u]) /\ tunnel[u].obj = "alive"
        <4>1. pump[u].at # "none" /\ pump'[u].at # "none"
          BY <2>1, <2>3 DEF Calls
        <4> QED BY <1>r, <4>1, PumpRecord
      <3>3. TunnelFits(Append(jobs, Job(pump'[u].at, u)), worker, events, tunnel[u], pump'[u],
                       channel[u], u)
        BY <1>0, <1>r, <1>x, <2>1, <2>3, <3>1, <3>2, GoesOn
      <3> QED BY <2>1, <2>3, <3>3 DEF TunnelOk
    <2> QED BY <2>2, <2>3
  <1>6. ASSUME NEW t \in Tunnels, PumpExits(t)
        PROVE  TunnelOk(u)'
    <2>1. /\ pump[t].at = "exit" /\ pump' = [pump EXCEPT ![t].at = "done"]
          /\ events' = Append(events, Event("finished", t))
          /\ UNCHANGED <<jobs, worker, channel, tunnel>>
      BY <1>6 DEF PumpExits, libssh
    <2>2. EventsSame(events, events', u)
      <3>1. Event("finished", t) \in EventType /\ Event("finished", t) \notin ResultsOf(u)
        BY Made, ForeignEvents
      <3> QED BY <1>0, <2>1, <3>1, EventsStay
    <2>3. CASE u # t
      <3>1. pump'[u] = pump[u]
        BY <1>0, <2>1, <2>3
      <3> QED BY <1>0, <1>s, <2>1, <2>2, <3>1
    <2>4. CASE u = t
      <3>1. /\ JobsSame(<<>>, jobs, u) /\ ~InFlight(jobs, worker, events, u)
            /\ channel[u] # "live"
        BY <1>f, <2>1, <2>4, ByItself
      <3>2. pump'[u].at = "done"
        BY <1>0, <2>1, <2>4, PumpAt
      <3>3. RecordOk(tunnel[u], pump'[u])
        BY <1>r, <2>1, <2>4, <3>2, PumpRecord
      <3>4. TunnelFits(jobs, worker, events, tunnel[u], pump'[u], channel[u], u)
        BY <1>0, <1>r, <3>1, <3>2, <3>3, GoesOn DEF Calls
      <3>5. TunnelFits(jobs, worker, events', tunnel[u], pump'[u], channel[u], u)
        BY <1>0, <1>x, <2>2, <3>4, Untouched
      <3> QED BY <2>1, <3>5 DEF TunnelOk
    <2> QED BY <2>3, <2>4
  <1>7. ASSUME NEW t \in Tunnels, ConsumerCloses(t)
        PROVE  TunnelOk(u)'
    <2>1. /\ tunnel' = [tunnel EXCEPT ![t] = [tunnel[t] EXCEPT !.fd = "closed"]]
          /\ UNCHANGED <<events, jobs, worker, pump, channel>>
      BY <1>0, <1>7 DEF ConsumerCloses, sessionVars, libssh
    <2>2. CASE u # t
      BY <1>0, <1>s, <2>1, <2>2
    <2>3. CASE u = t
      <3> DEFINE new == [tunnel[u] EXCEPT !.fd = "closed"]
      <3>1. Reads(new, tunnel[u].obj, tunnel[u].pending, tunnel[u].abandoned, tunnel[u].opened,
                  tunnel[u].signals)
        BY <1>0, ResultReads
      <3>2. tunnel'[u] = new
        BY <1>0, <2>1, <2>3
      <3> HIDE DEF new
      <3>3. RecordOk(new, pump[u])
        BY <1>r, <3>1 DEF RecordOk, Reads
      <3>4. TunnelFits(jobs, worker, events, new, pump[u], channel[u], u)
        BY <1>f, <3>1, <3>3, Rewritten DEF Reads
      <3> QED BY <2>1, <3>2, <3>4 DEF TunnelOk
    <2> QED BY <2>2, <2>3
  <1> QED BY <1>1, <1>2, <1>3, <1>4, <1>5, <1>6, <1>7 DEF TunnelWork, PumpWork, PumpThread

-----------------------------------------------------------------------------
(* The session.                                                            *)

\* What the jobs are to the session, and what the events are.
LEMMA JobSets ==
    /\ Job("open", NoTunnel) \in Tries /\ Job("open", NoTunnel) \in Open
    /\ Job("open", NoTunnel) \notin Trust /\ Job("open", NoTunnel) \notin Close
    /\ Job("trust", NoTunnel) \in Tries /\ Job("trust", NoTunnel) \notin Open
    /\ Job("trust", NoTunnel) \in Trust /\ Job("trust", NoTunnel) \notin Close
    /\ Job("close", NoTunnel) \notin Tries /\ Job("close", NoTunnel) \notin Open
    /\ Job("close", NoTunnel) \notin Trust /\ Job("close", NoTunnel) \in Close
    /\ \A op \in {"channel"} \cup Calls : \A t :
         Job(op, t) \notin Tries /\ Job(op, t) \notin Open /\ Job(op, t) \notin Trust
         /\ Job(op, t) \notin Close
  BY DEF Job, Tries, Open, Trust, Close, Calls

LEMMA EventSets ==
    /\ \A s \in States : /\ Event("state", s) \in StateEvents /\ Event("state", s) \notin Others
                         /\ Event("state", s) \notin Prompts
                         /\ \A k : Event("state", s) \notin {Event("prompt", k)}
                         /\ \A z : Event("state", s) \in Is(z) => s = z
    /\ \A k \in Keys : /\ Event("prompt", k) \in Prompts /\ Event("prompt", k) \in Others
                       /\ Event("prompt", k) \notin StateEvents
                       /\ \A z : Event("prompt", k) \notin Is(z)
                       /\ \A j : Event("prompt", k) \in {Event("prompt", j)} => j = k
    /\ \A z : Event("state", z) \in Is(z)
    /\ Others \cap StateEvents = {} /\ \A s \in States : Is(s) \subseteq StateEvents
    /\ \A k \in Keys : {Event("prompt", k)} \subseteq Prompts
    /\ \A j, z : Event("prompt", j) \notin Is(z) /\ Event("prompt", j) \notin StateEvents
  BY DEF Event, StateEvents, Prompts, Others, Is, EventType

OfTunnels == {"delete", "channel", "noChannel", "finished"}

LEMMA OtherEvents ==
    ASSUME NEW x \in EventType, x.kind \in OfTunnels
    PROVE  /\ x \in Others /\ x \notin Prompts /\ x \notin StateEvents
           /\ \A z : x \notin Is(z) /\ x \notin {Event("prompt", z)}
  BY DEF Event, StateEvents, Prompts, Others, Is, OfTunnels

\* A step that is not about the session.
JobsQuiet(q, r) ==
    /\ Has(r, Tries) <=> Has(q, Tries)
    /\ Has(r, Trust) <=> Has(q, Trust)
    /\ Has(r, Open) <=> Has(q, Open)
    /\ Has(r, Close) <=> Has(q, Close)
    /\ Once(q, Tries) => Once(r, Tries)
    /\ Once(q, Trust) => Once(r, Trust)
    /\ Then(q, Close, Rest) => Then(r, Close, Rest)

EventsQuiet(e, f) ==
    /\ Has(f, Prompts) <=> Has(e, Prompts)
    /\ Has(f, StateEvents) <=> Has(e, StateEvents)
    /\ \A z : Has(f, Is(z)) <=> Has(e, Is(z))
    /\ \A k : Has(f, {Event("prompt", k)}) <=> Has(e, {Event("prompt", k)})
    /\ Once(e, Prompts) => Once(f, Prompts)
    /\ Then(e, Prompts, Others) => Then(f, Prompts, Others)
    /\ \A z : Then(e, Is(z), Others) => Then(f, Is(z), Others)

WorkerQuiet(w, v) ==
    \A p \in {"connect", "auth", "exited"} : v.at = p <=> w.at = p

LEMMA QuietJobs ==
    ASSUME NEW q \in Seq(JobType)
    PROVE  /\ JobsQuiet(q, q)
           /\ \A op \in {"channel"} \cup Calls : \A t \in Tunnels : JobsQuiet(q, Append(q, Job(op, t)))
           /\ \A op \in {"channel"} \cup Calls : \A t :
                q # <<>> /\ Head(q) = Job(op, t) => JobsQuiet(q, Tail(q))
           /\ \A r, z : JobsQuiet(q, r) /\ JobsQuiet(r, z) => JobsQuiet(q, z)
  <1>1. ASSUME NEW op \in {"channel"} \cup Calls, NEW t \in Tunnels
        PROVE  JobsQuiet(q, Append(q, Job(op, t)))
    <2> DEFINE x == Job(op, t)
    <2>1. /\ x \in JobType
          /\ x \notin Tries /\ x \notin Open /\ x \notin Trust /\ x \notin Close
          /\ x \in Rest
      BY JobSets, Made DEF Rest
    <2> HIDE DEF x
    <2>2. JobsQuiet(q, Append(q, x))
      BY <2>1, Appending DEF JobsQuiet
    <2> QED BY <2>2 DEF x
  <1>2. ASSUME NEW op \in {"channel"} \cup Calls, NEW t, q # <<>>, Head(q) = Job(op, t)
        PROVE  JobsQuiet(q, Tail(q))
    <2>1. Head(q) \notin Tries /\ Head(q) \notin Open /\ Head(q) \notin Trust
          /\ Head(q) \notin Close
      BY <1>2, JobSets
    <2> QED BY <1>2, <2>1, Taking DEF JobsQuiet
  <1> QED BY <1>1, <1>2 DEF JobsQuiet

LEMMA QuietEvents ==
    ASSUME NEW e \in Seq(EventType)
    PROVE  /\ EventsQuiet(e, e)
           /\ \A x \in EventType : x.kind \in OfTunnels => EventsQuiet(e, Append(e, x))
           /\ e # <<>> /\ Head(e).kind \in OfTunnels => EventsQuiet(e, Tail(e))
           /\ \A f, g : EventsQuiet(e, f) /\ EventsQuiet(f, g) => EventsQuiet(e, g)
  <1>1. ASSUME NEW x \in EventType, x.kind \in OfTunnels
        PROVE  EventsQuiet(e, Append(e, x))
    BY <1>1, OtherEvents, Appending DEF EventsQuiet
  <1>2. ASSUME e # <<>>, Head(e).kind \in OfTunnels
        PROVE  EventsQuiet(e, Tail(e))
    <2>1. Head(e) \in EventType
      BY <1>2, Taking
    <2> QED BY <1>2, <2>1, OtherEvents, Taking DEF EventsQuiet
  <1> QED BY <1>1, <1>2 DEF EventsQuiet

LEMMA QuietStep ==
    ASSUME Types, TunnelUi \/ TunnelWork \/ PumpWork
    PROVE  /\ JobsQuiet(jobs, jobs') /\ EventsQuiet(events, events') /\ WorkerQuiet(worker, worker')
           /\ UNCHANGED <<profile, state, host, accepted, session, key, awaiting, stop, quit>>
           /\ object' = object \/ (object' = "disabled" /\ DestroySession)
  <1>0. /\ events \in Seq(EventType) /\ jobs \in Seq(JobType) /\ worker \in WorkerType
        /\ JobsQuiet(jobs, jobs) /\ EventsQuiet(events, events) /\ WorkerQuiet(worker, worker)
    BY QuietJobs, QuietEvents DEF Types, ThreadTypes, WorkerQuiet
  <1>1. /\ UNCHANGED <<profile, state, host, accepted, session, key, awaiting, stop, quit>>
        /\ object' = object \/ (object' = "disabled" /\ DestroySession)
    <2>1. CASE TunnelUi
      BY <2>1, TunnelUiFrame
    <2>2. CASE TunnelWork \/ PumpWork
      BY <2>2, WorkFrame
    <2> QED BY <2>1, <2>2
  <1> SUFFICES JobsQuiet(jobs, jobs') /\ EventsQuiet(events, events') /\ WorkerQuiet(worker, worker')
    BY <1>1
  <1>i. Idle.at = "idle" /\ \A p, t : Doing(p, t).at = p
    BY DEF Idle, Doing
  <1>k. ASSUME NEW k \in OfTunnels, NEW t \in Tunnels
        PROVE  Event(k, t) \in EventType /\ Event(k, t).kind \in OfTunnels
    <2>1. Event(k, t) \in EventType
      BY Made DEF OfTunnels
    <2>2. Event(k, t).kind = k
      BY DEF Event
    <2> QED BY <2>1, <2>2
  <1>a. ASSUME NEW e \in Seq(EventType), NEW k \in OfTunnels, NEW t \in Tunnels
        PROVE  EventsQuiet(e, Append(e, Event(k, t)))
    <2> DEFINE x == Event(k, t)
    <2>1. x \in EventType /\ x.kind \in OfTunnels
      BY <1>k
    <2> HIDE DEF x
    <2>2. EventsQuiet(e, Append(e, x))
      BY <2>1, QuietEvents
    <2> QED BY <2>2 DEF x
  <1>d. ASSUME NEW e \in Seq(EventType), NEW t \in Tunnels
        PROVE  EventsQuiet(e, PostDelete(e, t))
    <2>1. PostDelete(e, t) = e \/ PostDelete(e, t) = Append(e, Event("delete", t))
      BY PostDeleteTyped
    <2> QED BY <1>a, <2>1, QuietEvents DEF OfTunnels
  <1>2. CASE TunnelUi
    <2>w. worker' = worker
      BY <1>2, TunnelUiFrame
    <2>1. ASSUME NEW t \in Tunnels, OpenTunnel(t) \/ CloseTunnel(t) \/ DeleteTunnel(t)
          PROVE  JobsQuiet(jobs, jobs') /\ EventsQuiet(events, events')
      <3>1. events' = events /\ (jobs' = jobs \/ jobs' = Append(jobs, Job("channel", t)))
        BY <2>1 DEF OpenTunnel, CloseTunnel, DeleteTunnel
      <3> QED BY <1>0, <3>1, QuietJobs
    <2>2. CASE DestroySession \/ DeleteLater \/ HandleFinished
      <3>1. jobs' = jobs
        BY <2>2 DEF DestroySession, DeleteLater, HandleFinished
      <3>2. \/ events' = events
            \/ events # <<>> /\ Head(events).kind \in OfTunnels /\ events' = Tail(events)
        BY <2>2 DEF DestroySession, DeleteLater, HandleFinished, NextEvent, OfTunnels
      <3> QED BY <1>0, <2>w, <3>1, <3>2, QuietEvents
    <2>3. CASE CloseIdle \/ CloseJoins
      <3> DEFINE t == Head(ui.todo).t
      <3>0. ui.todo # <<>> /\ NextClose
        BY <2>3 DEF CloseIdle, CloseJoins, Types, ThreadTypes
      <3>1. t \in Tunnels
        BY <3>0, NextTyped DEF ClosingType
      <3>2. jobs' = jobs /\ (events' = events \/ events' = PostDelete(events, t))
        BY <2>3 DEF CloseIdle, CloseJoins
      <3> HIDE DEF t
      <3> QED BY <1>0, <1>d, <2>w, <3>1, <3>2
    <2>4. CASE CloseStops
      BY <1>0, <2>4 DEF CloseStops
    <2>5. CASE HandleResult
      <3> DEFINE t == Head(events).val
      <3>1. /\ t \in Tunnels /\ Tail(events) \in Seq(EventType) /\ events # <<>>
            /\ Head(events).kind \in OfTunnels
        BY <2>5, FirstEvent, EventIs DEF HandleResult, OfTunnels
      <3>2. /\ events' = Tail(events) \/ events' = PostDelete(Tail(events), t)
            /\ jobs' = jobs \/ jobs' = Append(jobs, Job("free", t))
        BY <2>5 DEF HandleResult, ResultDropped, ResultAbandoned, OnChannelOpened,
           OnChannelFailed, ReturnChannel
      <3> HIDE DEF t
      <3>3. EventsQuiet(events, Tail(events)) /\ EventsQuiet(Tail(events), PostDelete(Tail(events), t))
        BY <1>0, <1>d, <3>1, QuietEvents
      <3>4. EventsQuiet(events, events')
        BY <1>0, <3>2, <3>3, QuietEvents
      <3>5. JobsQuiet(jobs, jobs')
        BY <1>0, <3>1, <3>2, QuietJobs DEF Calls
      <3> QED BY <1>0, <2>w, <3>4, <3>5
    <2> QED BY <1>0, <1>2, <2>w, <2>1, <2>2, <2>3, <2>4, <2>5 DEF TunnelUi
  <1>3. CASE WorkerChannel
    <2> DEFINE t == Head(jobs).t
    <2>1. jobs # <<>> /\ Head(jobs) = Job("channel", t) /\ Head(jobs) \in JobType
          /\ Head(jobs).op = "channel" /\ worker = Idle
      BY <1>3, FirstJob DEF WorkerChannel, Takes
    <2>2. t \in Tunnels
      BY <2>1, JobIs
    <2>3. /\ jobs' = Tail(jobs)
          /\ events' = events \/ events' = Append(events, Event("noChannel", t))
          /\ worker' = worker \/ worker' = Doing("channel", t)
      BY <1>3 DEF WorkerChannel
    <2> HIDE DEF t
    <2>4. WorkerQuiet(worker, worker')
      BY <1>0, <1>i, <2>1, <2>3 DEF WorkerQuiet
    <2>5. JobsQuiet(jobs, jobs')
      BY <1>0, <2>1, <2>3, QuietJobs
    <2>6. EventsQuiet(events, events')
      BY <1>0, <1>a, <2>2, <2>3 DEF OfTunnels
    <2> QED BY <2>4, <2>5, <2>6
  <1>4. CASE ChannelEnds \/ PostResult
    <2> DEFINE t == worker.t
    <2>1. t \in Tunnels /\ worker.at \in {"channel", "posting"}
      BY <1>0, <1>4, WorkerIs DEF ChannelEnds, PostResult
    <2>2. /\ jobs' = jobs
          /\ \/ events' = events \/ events' = Append(events, Event("noChannel", t))
             \/ events' = Append(events, Event("channel", t))
          /\ worker' = Idle \/ worker' = Doing("posting", t)
      BY <1>4 DEF ChannelEnds, PostResult
    <2> HIDE DEF t
    <2>3. WorkerQuiet(worker, worker')
      BY <1>i, <2>1, <2>2 DEF WorkerQuiet
    <2> QED BY <1>0, <1>a, <2>1, <2>2, <2>3 DEF OfTunnels
  <1>5. CASE WorkerCalls
    <2>1. PICK t \in Tunnels, op \in Calls :
             /\ jobs # <<>> /\ Head(jobs) = Job(op, t) /\ worker = Idle /\ worker' = worker
             /\ events' = events /\ tunnel' = tunnel
             /\ channel' = IF op = "free" THEN [channel EXCEPT ![t] = "freed"] ELSE channel
             /\ channel[t] = "live" => deadUse' = deadUse
             /\ \/ /\ pump[t].at = op
                   /\ \E next \in Answers(t, op) :
                        /\ pump' = [pump EXCEPT ![t].at = next]
                        /\ jobs' = Posted(Tail(jobs), next, t)
                \/ pump[t].at # op /\ pump' = pump /\ jobs' = Tail(jobs)
      BY <1>5, CallMoves
    <2>2. Tail(jobs) \in Seq(JobType) /\ JobsQuiet(jobs, Tail(jobs))
      BY <1>0, <2>1, FirstJob, QuietJobs
    <2>3. \/ jobs' = Tail(jobs)
          \/ \E next \in Calls : jobs' = Append(Tail(jobs), Job(next, t))
      BY <2>1 DEF Posted
    <2>4. ASSUME NEW next \in Calls
          PROVE  JobsQuiet(jobs, Append(Tail(jobs), Job(next, t)))
      <3>1. JobsQuiet(Tail(jobs), Append(Tail(jobs), Job(next, t)))
        BY <2>2, QuietJobs
      <3> QED BY <1>0, <2>2, <3>1, QuietJobs
    <2> QED BY <1>0, <2>1, <2>2, <2>3, <2>4
  <1>6. ASSUME NEW t \in Tunnels, PumpTop(t) \/ PumpDelivers(t)
        PROVE  JobsQuiet(jobs, jobs') /\ events' = events /\ worker' = worker
    <2>1. /\ pump'[t].at \in Calls /\ jobs' = Append(jobs, Job(pump'[t].at, t))
          /\ events' = events /\ worker' = worker
      BY <1>6, PumpMoves
    <2> QED BY <1>0, <2>1, QuietJobs
  <1>7. ASSUME NEW t \in Tunnels, PumpExits(t) \/ ConsumerCloses(t)
        PROVE  JobsQuiet(jobs, jobs') /\ EventsQuiet(events, events') /\ worker' = worker
    <2>1. /\ events' = events \/ events' = Append(events, Event("finished", t))
          /\ jobs' = jobs /\ worker' = worker
      BY <1>7 DEF PumpExits, ConsumerCloses, sessionVars
    <2> QED BY <1>0, <1>a, <2>1 DEF OfTunnels
  <1> QED BY <1>0, <1>2, <1>3, <1>4, <1>5, <1>6, <1>7 DEF TunnelWork, PumpWork, PumpThread

\* ui.dtor is set only by ~SshSession().
LEMMA DtorStep ==
    ASSUME Types, TunnelUi \/ TunnelWork \/ PumpWork
    PROVE  ui'.dtor => ui.dtor \/ DestroySession
  <1>e. \A calls : EnterClose(calls, FALSE) => ui'.dtor = FALSE
    BY DEF EnterClose
  <1>1. CASE TunnelWork \/ PumpWork
    BY <1>1, WorkFrame
  <1>2. ASSUME NEW t \in Tunnels, OpenTunnel(t) \/ CloseTunnel(t) \/ DeleteTunnel(t)
        PROVE  ui' = ui \/ ~ui'.dtor
    BY <1>2, <1>e DEF OpenTunnel, CloseTunnel, DeleteTunnel, uiVars
  <1>3. CASE DeleteLater \/ HandleFinished \/ HandleResult
    BY <1>3, <1>e DEF DeleteLater, HandleFinished, HandleResult, uiVars
  <1>4. CASE CloseIdle \/ CloseJoins
    <2>1. ui.todo # <<>> /\ NextClose
      BY <1>4 DEF CloseIdle, CloseJoins, Types, ThreadTypes
    <2>2. ~ui.dtor => ui' = InLoop
      BY <2>1, NextTyped
    <2> QED BY <2>2 DEF InLoop
  <1>5. CASE CloseStops
    BY <1>5 DEF CloseStops, Types, ThreadTypes
  <1> QED BY <1>1, <1>2, <1>3, <1>4, <1>5 DEF TunnelUi

LEMMA QuietSession ==
    ASSUME Types, SessionInv, TunnelUi \/ TunnelWork \/ PumpWork
    PROVE  SessionInv'
  <1>1. /\ JobsQuiet(jobs, jobs') /\ EventsQuiet(events, events') /\ WorkerQuiet(worker, worker')
        /\ UNCHANGED <<profile, state, host, accepted, session, key, awaiting, stop, quit>>
        /\ object' = object \/ object' = "disabled"
        /\ ui'.dtor => ui.dtor \/ object' = "disabled"
    BY QuietStep, DtorStep DEF DestroySession
  <1> SUFFICES ASSUME SessionOk
               PROVE  SessionOk'
    BY <1>1 DEF SessionInv, NoReopen
  <1>2. OneAttempt(jobs', worker', events', host)
    BY <1>1 DEF SessionOk, OneAttempt, JobsQuiet, EventsQuiet, WorkerQuiet, Dialling
  <1>3. object' = "alive" => PromptOk(events', host, state)
    BY <1>1 DEF SessionOk, PromptOk, EventsQuiet
  <1>4. KeyOk'
    <2>1. /\ Dialling(worker') <=> Dialling(worker)
          /\ worker'.at = "auth" <=> worker.at = "auth"
          /\ worker'.at = "connect" <=> worker.at = "connect"
          /\ worker'.at = "exited" <=> worker.at = "exited"
      BY <1>1 DEF WorkerQuiet, Dialling
    <2>2. /\ Has(events', Prompts) <=> Has(events, Prompts)
          /\ Has(events', {Event("prompt", key)}) <=> Has(events, {Event("prompt", key)})
          /\ Has(jobs', Open) <=> Has(jobs, Open)
          /\ Has(jobs', Trust) <=> Has(jobs, Trust)
      BY <1>1 DEF EventsQuiet, JobsQuiet
    <2> QED BY <1>1, <2>1, <2>2 DEF SessionOk, KeyOk
  <1>5. Has(jobs', Close) \/ quit' \/ ui'.dtor => object' # "alive"
    BY <1>1 DEF SessionOk, JobsQuiet
  <1> QED BY <1>1, <1>2, <1>3, <1>4, <1>5 DEF SessionOk

\* A state is reported; no prompt is open, so none is overtaken.
LEMMA StateAdded ==
    ASSUME NEW e \in Seq(EventType), NEW s \in States
    PROVE  LET f == Append(e, Event("state", s)) IN
           /\ Has(f, Prompts) <=> Has(e, Prompts)
           /\ Once(e, Prompts) => Once(f, Prompts)
           /\ \A k : Has(f, {Event("prompt", k)}) <=> Has(e, {Event("prompt", k)})
           /\ \A h, st : PromptOk(e, h, st) /\ ~Has(e, Prompts) /\ ~h.awaiting
                         /\ s # "NeedsHostKeyTrust" => PromptOk(f, h, st)
  <1> DEFINE x == Event("state", s)
             f == Append(e, x)
  <1>1. /\ x \in EventType /\ x \notin Prompts
        /\ \A k : x \notin {Event("prompt", k)}
        /\ s # "NeedsHostKeyTrust" => x \notin Is("NeedsHostKeyTrust")
    BY Made, EventSets
  <1> HIDE DEF x
  <1>2. /\ Has(f, Prompts) <=> Has(e, Prompts)
        /\ Once(e, Prompts) => Once(f, Prompts)
        /\ \A k : Has(f, {Event("prompt", k)}) <=> Has(e, {Event("prompt", k)})
        /\ s # "NeedsHostKeyTrust" =>
             (Has(f, Is("NeedsHostKeyTrust")) <=> Has(e, Is("NeedsHostKeyTrust")))
        /\ ~Has(e, Prompts) /\ Then(e, Prompts, Others) => Then(f, Prompts, Others)
        /\ ~Has(e, Is("NeedsHostKeyTrust")) /\ Then(e, Is("NeedsHostKeyTrust"), Others) =>
             Then(f, Is("NeedsHostKeyTrust"), Others)
    BY <1>1, Appending
  <1> HIDE DEF f
  <1>3. \A h, st : PromptOk(e, h, st) /\ ~Has(e, Prompts) /\ ~h.awaiting
                     /\ s # "NeedsHostKeyTrust" => PromptOk(f, h, st)
    BY <1>2 DEF PromptOk
  <1> QED BY <1>2, <1>3 DEF f, x

\* The server's key is not pinned: the state, and the prompt after it.
LEMMA PromptAdded ==
    ASSUME NEW e \in Seq(EventType), NEW k \in Keys, NEW h, NEW st,
           ~Has(e, Prompts), ~h.awaiting
    PROVE  LET f == e \o <<Event("state", "NeedsHostKeyTrust"), Event("prompt", k)>> IN
           /\ Once(f, Prompts) /\ Has(f, Prompts) /\ Has(f, {Event("prompt", k)})
           /\ PromptOk(e, h, st) => PromptOk(f, h, st)
  <1> DEFINE x == Event("state", "NeedsHostKeyTrust")
             y == Event("prompt", k)
             m == Append(e, x)
             f == Append(m, y)
             N == Is("NeedsHostKeyTrust")
  <1>1. /\ x \in EventType /\ y \in EventType /\ x \notin Prompts /\ y \in Prompts
        /\ x \in N /\ y \in Others /\ y \notin N
    BY MadeStates, Made, EventSets DEF States
  <1>2. e \o <<x, y>> = f
    BY <1>1, TwoMore
  <1>y. y \in {Event("prompt", k)}
    OBVIOUS
  <1> HIDE DEF x, y, N
  <1>3. /\ m \in Seq(EventType) /\ ~Has(m, Prompts) /\ Has(m, N)
        /\ Then(e, Prompts, Others) => Then(m, Prompts, Others)
        /\ ~Has(e, N) /\ Then(e, N, Others) => Then(m, N, Others)
    BY <1>1, Appending
  <1>4. Once(m, Prompts)
    BY <1>3 DEF Has, Once
  <1> HIDE DEF m
  <1>5. /\ Once(f, Prompts) /\ Has(f, Prompts) /\ Has(f, N)
        /\ Then(m, Prompts, Others) => Then(f, Prompts, Others)
        /\ Then(m, N, Others) => Then(f, N, Others)
    BY <1>1, <1>3, <1>4, Appending
  <1>6. Has(f, {Event("prompt", k)})
    BY <1>1, <1>3, <1>y, Appending
  <1> HIDE DEF f
  <1>7. PromptOk(e, h, st) => PromptOk(f, h, st)
    BY <1>3, <1>5 DEF PromptOk, N
  <1> QED BY <1>2, <1>5, <1>6, <1>7 DEF x, y

\* A state arrives.
LEMMA StateHandled ==
    ASSUME NEW e \in Seq(EventType), NEW s \in States, e # <<>>, Head(e) = Event("state", s)
    PROVE  LET f == Tail(e) IN
           /\ Has(f, Prompts) <=> Has(e, Prompts)
           /\ Once(e, Prompts) => Once(f, Prompts)
           /\ \A k : Has(f, {Event("prompt", k)}) <=> Has(e, {Event("prompt", k)})
           /\ \A h, st : PromptOk(e, h, st) => PromptOk(f, h, s)
  <1> DEFINE f == Tail(e)
             x == Head(e)
             N == Is("NeedsHostKeyTrust")
  <1>1. /\ x \notin Prompts /\ x \in StateEvents
        /\ \A k : x \notin {Event("prompt", k)}
        /\ x \in N => s = "NeedsHostKeyTrust"
        /\ Others \cap StateEvents = {}
    BY EventSets
  <1>2. /\ Has(f, Prompts) <=> Has(e, Prompts)
        /\ Once(e, Prompts) => Once(f, Prompts)
        /\ \A k : Has(f, {Event("prompt", k)}) <=> Has(e, {Event("prompt", k)})
        /\ Has(e, StateEvents)
        /\ Has(e, N) <=> x \in N \/ Has(f, N)
        /\ Then(e, Prompts, Others) => Then(f, Prompts, Others)
        /\ Then(e, N, Others) => Then(f, N, Others)
    BY <1>1, Taking
  <1>3. Then(e, N, Others) /\ x \in N => ~Has(f, StateEvents)
    BY <1>1, Taking
  <1> HIDE DEF f, x
  <1>4. \A h, st : PromptOk(e, h, st) => PromptOk(f, h, s)
    BY <1>1, <1>2, <1>3 DEF PromptOk
  <1> QED BY <1>2, <1>4 DEF f

\* A prompt arrives: the state has, and nothing of the session follows.
LEMMA PromptHandled ==
    ASSUME NEW e \in Seq(EventType), NEW k \in Keys, e # <<>>, Head(e) = Event("prompt", k),
           Once(e, Prompts)
    PROVE  LET f == Tail(e) IN
           /\ ~Has(f, Prompts) /\ Once(f, Prompts) /\ Has(e, Prompts)
           /\ \A j \in Keys : Has(e, {Event("prompt", j)}) => j = k
           /\ \A h, g, st : PromptOk(e, h, st) => PromptOk(f, g, st)
  <1> DEFINE f == Tail(e)
             x == Head(e)
             N == Is("NeedsHostKeyTrust")
  <1>1. /\ x \in Prompts /\ x \notin StateEvents /\ x \notin N
        /\ Others \cap StateEvents = {} /\ N \subseteq StateEvents
        /\ \A j \in Keys : {Event("prompt", j)} \subseteq Prompts
    BY EventSets DEF States
  <1>2. /\ ~Has(f, Prompts) /\ Once(f, Prompts) /\ Has(e, Prompts)
        /\ Has(e, N) <=> Has(f, N)
        /\ Then(e, Prompts, Others) => Then(f, Prompts, Others)
        /\ Then(e, N, Others) => Then(f, N, Others)
    BY <1>1, Taking
  <1>3. Then(e, Prompts, Others) => ~Has(f, StateEvents)
    BY <1>1, Taking
  <1>4. ASSUME NEW j \in Keys, Has(e, {Event("prompt", j)})
        PROVE  j = k
    <2>1. x \in {Event("prompt", j)} \/ Has(f, {Event("prompt", j)})
      BY <1>4, Taking
    <2>2. ~Has(f, {Event("prompt", j)})
      BY <1>1, <1>2, HasMore
    <2> QED BY <2>1, <2>2, EventSets
  <1> HIDE DEF f, x
  <1>5. Has(f, N) => Has(f, StateEvents)
    BY <1>1, HasMore
  <1>6. \A h, g, st : PromptOk(e, h, st) => PromptOk(f, g, st)
    BY <1>1, <1>2, <1>3, <1>5 DEF PromptOk, N
  <1> QED BY <1>2, <1>4, <1>6 DEF f

\* A job is queued, or taken.
LEMMA JobAdded ==
    ASSUME NEW q \in Seq(JobType), NEW op \in {"open", "close", "trust"}
    PROVE  LET r == Append(q, Job(op, NoTunnel)) IN
           /\ Has(r, Tries) <=> Has(q, Tries) \/ op # "close"
           /\ Has(r, Open) <=> Has(q, Open) \/ op = "open"
           /\ Has(r, Trust) <=> Has(q, Trust) \/ op = "trust"
           /\ Has(r, Close) <=> Has(q, Close) \/ op = "close"
           /\ Once(q, Tries) /\ (Has(q, Tries) => op = "close") => Once(r, Tries)
  <1> DEFINE x == Job(op, NoTunnel)
  <1>1. /\ x \in JobType /\ (x \in Tries <=> op # "close") /\ (x \in Open <=> op = "open")
        /\ x \in Trust <=> op = "trust"
        /\ x \in Close <=> op = "close"
    BY JobSets, Made
  <1> HIDE DEF x
  <1>2. /\ Has(Append(q, x), Tries) <=> Has(q, Tries) \/ op # "close"
        /\ Has(Append(q, x), Open) <=> Has(q, Open) \/ op = "open"
        /\ Has(Append(q, x), Trust) <=> Has(q, Trust) \/ op = "trust"
        /\ Has(Append(q, x), Close) <=> Has(q, Close) \/ op = "close"
        /\ Once(q, Tries) /\ (Has(q, Tries) => op = "close") => Once(Append(q, x), Tries)
    BY <1>1, Appending
  <1> QED BY <1>2 DEF x

LEMMA JobTaken ==
    ASSUME NEW q \in Seq(JobType), NEW op \in {"open", "close", "trust"},
           q # <<>>, Head(q).op = op, Once(q, Tries)
    PROVE  LET r == Tail(q) IN
           /\ Has(r, Tries) <=> Has(q, Tries) /\ op = "close"
           /\ Has(r, Open) <=> Has(q, Open) /\ op # "open"
           /\ Has(r, Trust) <=> Has(q, Trust) /\ op # "trust"
           /\ Has(r, Close) => Has(q, Close)
           /\ Once(r, Tries)
           /\ op = "close" => Has(q, Close)
           /\ op = "open" => Has(q, Open) /\ Has(q, Tries)
           /\ op = "trust" => Has(q, Trust) /\ Has(q, Tries)
  <1> DEFINE x == Head(q)
             r == Tail(q)
  <1>1. x \in JobType
    BY Taking
  <1>2. x = Job(op, NoTunnel)
    BY <1>1, JobIs
  <1>3. /\ (x \in Tries <=> op # "close") /\ (x \in Open <=> op = "open")
        /\ x \in Trust <=> op = "trust"
        /\ x \in Close <=> op = "close"
        /\ Open \subseteq Tries /\ Trust \subseteq Tries
    BY <1>2, JobSets DEF Tries, Open, Trust
  <1>4. /\ Has(q, Tries) <=> x \in Tries \/ Has(r, Tries)
        /\ Has(q, Open) <=> x \in Open \/ Has(r, Open)
        /\ Has(q, Trust) <=> x \in Trust \/ Has(r, Trust)
        /\ Has(q, Close) <=> x \in Close \/ Has(r, Close)
        /\ Once(r, Tries) /\ ~(x \in Tries /\ Has(r, Tries))
    BY Taking
  <1> HIDE DEF x, r
  <1>5. (Has(r, Open) => Has(r, Tries)) /\ (Has(r, Trust) => Has(r, Tries))
    BY <1>3, HasMore
  <1> QED BY <1>3, <1>4, <1>5 DEF r

LEMMA SessionUiSession ==
    ASSUME Types, SessionInv, SessionUi, UNCHANGED tunnelVars
    PROVE  SessionInv'
  <1>0. /\ events \in Seq(EventType) /\ jobs \in Seq(JobType) /\ key \in Keys \cup {NoKey}
        /\ host.awaiting \in BOOLEAN /\ awaiting \in BOOLEAN
        /\ host.awaiting => host.key \in Keys
    BY DEF Types, ThreadTypes, SessionTypes
  <1>p. profile' = profile
    BY DEF SessionUi, SetConfigEnabled, SetConfigDisabled, TrustPendingHostKey, UiReacts,
           HandleState, HandlePrompt, StopWorker, Destroyed
  <1> SUFFICES ASSUME NoReopen, SessionOk
               PROVE  SessionOk'
    BY <1>p DEF SessionInv, NoReopen
  <1>h. ~NoPrompt.awaiting
    BY DEF NoPrompt
  <1>s. /\ OneAttempt(jobs, worker, events, host) /\ KeyOk
        /\ object = "alive" => PromptOk(events, host, state)
        /\ Has(jobs, Close) \/ quit \/ ui.dtor => object # "alive"
    BY DEF SessionOk
  <1>1. CASE SetConfigEnabled
    <2>1. /\ object = "alive" /\ jobs = <<>> /\ events = <<>> /\ worker = Idle
          /\ state # "NeedsHostKeyTrust"
          /\ jobs' = Append(jobs, Job("open", NoTunnel))
          /\ UNCHANGED <<object, state, host, accepted, events, worker, session, key, awaiting,
                         quit, ui>>
      BY <1>1 DEF SetConfigEnabled, Settled, NoReopen, libssh
    <2>2. /\ ~Has(jobs, Tries) /\ ~Has(events, Prompts) /\ ~Has(jobs, Trust) /\ ~Has(jobs, Close)
          /\ Once(events, Prompts)
      BY <2>1, EmptyQueue
    <2>3. ~host.awaiting
      BY <1>s, <2>1 DEF PromptOk
    <2>4. ~awaiting
      BY <1>s, <2>1, <2>2, <2>3 DEF KeyOk
    <2>5. /\ Once(jobs', Tries) /\ ~Has(jobs', Trust) /\ ~Has(jobs', Close)
      BY <1>0, <1>s, <2>1, <2>2, JobAdded DEF OneAttempt
    <2>6. ~Dialling(worker)
      BY <2>1 DEF Dialling, Idle, Doing
    <2>7. OneAttempt(jobs', worker, events, host)
      BY <2>2, <2>3, <2>5, <2>6 DEF OneAttempt
    <2>8. KeyOk'
      BY <1>s, <2>1, <2>4 DEF KeyOk
    <2> QED BY <1>s, <2>1, <2>5, <2>7, <2>8 DEF SessionOk
  <1>2. CASE SetConfigDisabled
    <2>1. /\ object' = "disabled" /\ host' = NoPrompt
          /\ jobs' = Append(jobs, Job("close", NoTunnel))
          /\ events' = Append(events, Event("delete", NoTunnel))
          /\ UNCHANGED <<state, accepted, worker, session, key, awaiting, quit, ui>>
      BY <1>2 DEF SetConfigDisabled, libssh
    <2>2. EventsQuiet(events, events')
      <3> DEFINE x == Event("delete", NoTunnel)
      <3>1. x \in EventType /\ x.kind \in OfTunnels
        BY Made DEF OfTunnels, Event
      <3> HIDE DEF x
      <3>2. EventsQuiet(events, Append(events, x))
        BY <1>0, <3>1, QuietEvents
      <3> QED BY <2>1, <3>2 DEF x
    <2>3. /\ Has(jobs', Tries) <=> Has(jobs, Tries)
          /\ Has(jobs', Open) <=> Has(jobs, Open)
          /\ Has(jobs', Trust) <=> Has(jobs, Trust)
          /\ Once(jobs', Tries)
      BY <1>0, <1>s, <2>1, JobAdded DEF OneAttempt
    <2>4. OneAttempt(jobs', worker, events', NoPrompt)
      BY <1>h, <1>s, <2>2, <2>3 DEF OneAttempt, EventsQuiet
    <2>5. KeyOk'
      BY <1>s, <2>1, <2>3 DEF KeyOk
    <2> QED BY <2>1, <2>4, <2>5 DEF SessionOk
  <1>3. CASE TrustPendingHostKey
    <2>1. /\ object = "alive" /\ host.awaiting /\ accepted' = accepted \cup {host.key}
          /\ host' = NoPrompt /\ jobs' = Append(jobs, Job("trust", NoTunnel))
          /\ UNCHANGED <<object, state, events, worker, session, key, awaiting, quit, ui>>
      BY <1>3 DEF TrustPendingHostKey, libssh
    <2>2. ~Has(jobs, Tries) /\ ~Dialling(worker) /\ ~Has(events, Prompts)
      BY <1>s, <2>1 DEF OneAttempt
    <2>3. /\ Has(jobs', Tries) /\ Has(jobs', Trust) /\ (Has(jobs', Open) <=> Has(jobs, Open))
          /\ Has(jobs', Close) <=> Has(jobs, Close)
          /\ Once(jobs', Tries)
      BY <1>0, <1>s, <2>1, <2>2, JobAdded DEF OneAttempt
    <2>4. OneAttempt(jobs', worker, events, NoPrompt)
      BY <1>h, <1>s, <2>2, <2>3 DEF OneAttempt
    <2>5. PromptOk(events, NoPrompt, state)
      BY <1>h, <1>s, <2>1, <2>2 DEF PromptOk
    <2>6. KeyOk'
      BY <1>h, <1>s, <2>1, <2>2, <2>3 DEF KeyOk, Trusted
    <2> QED BY <1>s, <2>1, <2>3, <2>4, <2>5, <2>6 DEF SessionOk
  <1>4. CASE HandleState
    <2> DEFINE s == Head(events).val
    <2>1. /\ events # <<>> /\ Head(events) = Event("state", s) /\ events' = Tail(events)
          /\ s \in States
          /\ object # "gone" => state' = s
          /\ UNCHANGED <<object, host, accepted, jobs, worker, session, key, awaiting, quit, ui>>
      BY <1>4, FirstEvent, EventIs DEF HandleState, libssh
    <2> HIDE DEF s
    <2>2. /\ Has(events', Prompts) <=> Has(events, Prompts)
          /\ Once(events, Prompts) => Once(events', Prompts)
          /\ \A k : Has(events', {Event("prompt", k)}) <=> Has(events, {Event("prompt", k)})
          /\ \A h, st : PromptOk(events, h, st) => PromptOk(events', h, s)
      BY <1>0, <2>1, StateHandled
    <2>3. OneAttempt(jobs, worker, events', host)
      BY <1>s, <2>2 DEF OneAttempt
    <2>4. object = "alive" => PromptOk(events', host, state')
      BY <1>s, <2>1, <2>2
    <2>5. KeyOk'
      BY <1>s, <2>1, <2>2 DEF KeyOk
    <2> QED BY <1>s, <2>1, <2>3, <2>4, <2>5 DEF SessionOk
  <1>5. CASE HandlePrompt
    <2> DEFINE k == Head(events).val
    <2>1. /\ events # <<>> /\ Head(events) = Event("prompt", k) /\ events' = Tail(events)
          /\ k \in Keys
          /\ UNCHANGED <<object, state, accepted, jobs, worker, session, key, awaiting, quit, ui>>
      BY <1>5, FirstEvent, EventIs DEF HandlePrompt, libssh
    <2>h. \/ object = "gone" /\ host' = host
          \/ object # "gone" /\ host' = [awaiting |-> TRUE, key |-> k]
      BY <1>5 DEF HandlePrompt
    <2> HIDE DEF k
    <2>k. object # "gone" => host'.awaiting /\ host'.key = k
      BY <2>h
    <2>2. /\ ~Has(events', Prompts) /\ Once(events', Prompts) /\ Has(events, Prompts)
          /\ \A j \in Keys : Has(events, {Event("prompt", j)}) => j = k
          /\ \A h, g, st : PromptOk(events, h, st) => PromptOk(events', g, st)
      BY <1>0, <1>s, <2>1, PromptHandled DEF OneAttempt
    <2>3. OneAttempt(jobs, worker, events', host')
      BY <1>s, <2>h, <2>2 DEF OneAttempt
    <2>4. object = "alive" => PromptOk(events', host', state)
      BY <1>s, <2>2
    <2>5. object = "alive" /\ awaiting => key = k
      <3>1. object = "alive" /\ awaiting => Has(events, {Event("prompt", key)})
        BY <1>s, <2>2 DEF KeyOk
      <3>2. object = "alive" /\ awaiting /\ key \notin Keys => FALSE
        <4>1. Has(events, {Event("prompt", key)}) => Event("prompt", key) \in EventType
          BY <1>0 DEF Has
        <4>2. Event("prompt", key) \in EventType => key \in Keys
          <5>1. Event("prompt", key).kind = "prompt" /\ Event("prompt", key).val = key
            BY DEF Event
          <5> QED BY <5>1, EventIs
        <4> QED BY <3>1, <4>1, <4>2
      <3> QED BY <2>2, <3>1, <3>2
    <2>6. KeyOk'
      BY <1>s, <2>1, <2>k, <2>2, <2>5 DEF KeyOk
    <2> QED BY <1>s, <2>1, <2>3, <2>4, <2>6 DEF SessionOk
  <1>6. CASE StopWorker
    <2>1. /\ object # "alive" /\ jobs' = Append(jobs, Job("close", NoTunnel))
          /\ UNCHANGED <<object, state, host, events, accepted, worker, session, key, awaiting>>
      BY <1>6, <1>s DEF StopWorker, libssh
    <2>3. /\ Has(jobs', Tries) <=> Has(jobs, Tries)
          /\ Has(jobs', Open) <=> Has(jobs, Open)
          /\ Has(jobs', Trust) <=> Has(jobs, Trust)
          /\ Once(jobs', Tries)
      BY <1>0, <1>s, <2>1, JobAdded DEF OneAttempt
    <2>4. OneAttempt(jobs', worker, events, host)
      BY <1>s, <2>3 DEF OneAttempt
    <2>5. KeyOk'
      BY <1>s, <2>1, <2>3 DEF KeyOk
    <2> QED BY <2>1, <2>4, <2>5 DEF SessionOk
  <1>7. CASE Destroyed
    <2>1. /\ object' = "gone"
          /\ UNCHANGED <<state, host, accepted, events, jobs, worker, session, key, awaiting>>
      BY <1>7 DEF Destroyed, libssh
    <2>2. KeyOk'
      BY <1>s, <2>1 DEF KeyOk
    <2> QED BY <1>s, <2>1, <2>2 DEF SessionOk
  <1> QED BY <1>1, <1>2, <1>3, <1>4, <1>5, <1>6, <1>7 DEF SessionUi, UiReacts

LEMMA WorkerSessionSession ==
    ASSUME Types, SessionInv, WorkerSession, UNCHANGED tunnelVars
    PROVE  SessionInv'
  <1>0. /\ events \in Seq(EventType) /\ jobs \in Seq(JobType)
        /\ host.awaiting \in BOOLEAN /\ awaiting \in BOOLEAN
    BY DEF Types, ThreadTypes, SessionTypes
  <1>c. ASSUME NEW k \in Keys, Connected(k)
        PROVE  UNCHANGED <<profile, object, state, host, accepted, ui, quit>>
    BY <1>c DEF Connected, uiVars
  <1>p. UNCHANGED <<profile, object, state, host, accepted, ui, quit>>
    BY <1>c DEF WorkerSession, WorkerOpen, ConnectAborted, ConnectFails, FailSession,
           ResumeAfterHostKeyTrust, ResumeUnguarded, ResumeNoop, Authenticated, WorkerClose,
           WorkerExits, uiVars
  <1> SUFFICES ASSUME NoReopen, SessionOk
               PROVE  SessionOk'
    BY <1>p DEF SessionInv, NoReopen
  <1>i. Idle.at = "idle" /\ \A p, t : Doing(p, t).at = p
    BY DEF Idle, Doing
  <1>s. /\ OneAttempt(jobs, worker, events, host) /\ KeyOk /\ Once(jobs, Tries)
        /\ object = "alive" => PromptOk(events, host, state)
        /\ Has(jobs, Close) \/ quit \/ ui.dtor => object # "alive"
    BY DEF SessionOk, OneAttempt
  <1>a. ASSUME NEW s \in States, s # "NeedsHostKeyTrust", events' = Append(events, Event("state", s)),
               ~Has(events, Prompts), ~host.awaiting
        PROVE  /\ Once(events', Prompts) /\ ~Has(events', Prompts)
               /\ object' = "alive" => PromptOk(events', host', state')
    BY <1>0, <1>a, <1>p, <1>s, StateAdded DEF OneAttempt
  <1>1. CASE WorkerOpen
    <2>1. /\ jobs # <<>> /\ Head(jobs).op = "open" /\ jobs' = Tail(jobs)
          /\ events' = Append(events, Event("state", "Connecting"))
          /\ session' = "fresh" /\ worker'.at = "connect" /\ awaiting' = awaiting
      BY <1>1, <1>i DEF WorkerOpen, Takes
    <2>2. /\ ~Has(jobs', Tries) /\ Once(jobs', Tries) /\ (Has(jobs', Close) => Has(jobs, Close))
          /\ Has(jobs, Open) /\ Has(jobs, Tries)
      BY <1>0, <1>s, <2>1, JobTaken
    <2>3. ~Has(events, Prompts) /\ ~host.awaiting /\ ~awaiting
      BY <1>s, <2>2 DEF OneAttempt, KeyOk
    <2>4. /\ Once(events', Prompts) /\ ~Has(events', Prompts)
          /\ object' = "alive" => PromptOk(events', host', state')
      BY <1>a, <2>1, <2>3 DEF States
    <2>5. OneAttempt(jobs', worker', events', host')
      BY <1>p, <2>2, <2>3, <2>4 DEF OneAttempt
    <2>6. KeyOk'
      BY <2>1, <2>3 DEF KeyOk
    <2> QED BY <1>p, <1>s, <2>2, <2>4, <2>5, <2>6 DEF SessionOk
  <1>2. CASE ConnectAborted
    <2>1. /\ Dialling(worker) /\ worker'.at = "idle"
          /\ UNCHANGED <<events, jobs, session, key, awaiting>>
      BY <1>2, <1>i DEF ConnectAborted, libssh, Dialling
    <2>2. OneAttempt(jobs', worker', events', host')
      BY <1>p, <1>s, <2>1 DEF OneAttempt, Dialling
    <2>3. KeyOk'
      BY <1>p, <1>s, <2>1 DEF KeyOk
    <2> QED BY <1>p, <1>s, <2>1, <2>2, <2>3 DEF SessionOk
  <1>3. CASE ConnectFails
    <2>1. /\ Dialling(worker) /\ worker'.at = "idle" /\ session' = "null"
          /\ events' = Append(events, Event("state", "Failed"))
          /\ UNCHANGED <<jobs, awaiting>>
      BY <1>3, <1>i DEF ConnectFails, FailSession, FreeSession, Dialling
    <2>2. ~Has(events, Prompts) /\ ~host.awaiting /\ ~awaiting /\ ~Has(jobs, Tries)
      BY <1>s, <2>1 DEF OneAttempt, KeyOk
    <2>3. /\ Once(events', Prompts) /\ ~Has(events', Prompts)
          /\ object' = "alive" => PromptOk(events', host', state')
      BY <1>a, <2>1, <2>2 DEF States
    <2>4. OneAttempt(jobs', worker', events', host')
      BY <1>p, <1>s, <2>1, <2>2, <2>3 DEF OneAttempt
    <2>5. KeyOk'
      BY <2>1, <2>2 DEF KeyOk
    <2> QED BY <1>p, <1>s, <2>1, <2>3, <2>4, <2>5 DEF SessionOk
  <1>4. ASSUME NEW k \in Keys, Connected(k)
        PROVE  SessionOk'
    <2>1. Dialling(worker) /\ session = "fresh" /\ key' = k /\ UNCHANGED <<jobs, session>>
      BY <1>4, <1>s DEF Connected, Dialling, KeyOk
    <2>2. ~Has(events, Prompts) /\ ~host.awaiting /\ ~awaiting /\ ~Has(jobs, Tries)
      BY <1>s, <2>1 DEF OneAttempt, KeyOk
    <2>n. ~Has(jobs, Open) /\ ~Has(jobs, Trust)
      BY <2>2, HasMore DEF Tries, Open, Trust
    <2>3. CASE VerifyPinned(k)
      <3>1. /\ events' = Append(events, Event("state", "Authenticating"))
            /\ worker'.at = "auth" /\ awaiting' = awaiting
        BY <1>4, <1>i, <2>3 DEF Connected
      <3>2. /\ Once(events', Prompts) /\ ~Has(events', Prompts)
            /\ object' = "alive" => PromptOk(events', host', state')
        BY <1>a, <2>2, <3>1 DEF States
      <3>3. OneAttempt(jobs', worker', events', host')
        BY <1>p, <1>s, <2>1, <2>2, <3>2 DEF OneAttempt
      <3>4. KeyOk'
        BY <2>1, <2>2, <2>3, <3>1 DEF KeyOk, VerifyPinned, Trusted
      <3> QED BY <1>p, <1>s, <2>1, <3>2, <3>3, <3>4 DEF SessionOk
    <2>4. CASE ~VerifyPinned(k)
      <3>1. /\ events' = events \o <<Event("state", "NeedsHostKeyTrust"), Event("prompt", k)>>
            /\ worker'.at = "idle" /\ awaiting'
        BY <1>4, <1>i, <2>4 DEF Connected
      <3>2. /\ Once(events', Prompts) /\ Has(events', Prompts) /\ Has(events', {Event("prompt", k)})
            /\ PromptOk(events, host, state) => PromptOk(events', host, state)
        BY <1>0, <2>2, <3>1, PromptAdded
      <3>3. OneAttempt(jobs', worker', events', host')
        BY <1>p, <1>s, <2>1, <2>2, <3>1, <3>2 DEF OneAttempt, Dialling
      <3>4. KeyOk'
        BY <1>p, <2>1, <2>2, <2>n, <3>1, <3>2 DEF KeyOk, Dialling
      <3> QED BY <1>p, <1>s, <2>1, <3>2, <3>3, <3>4 DEF SessionOk
    <2> QED BY <2>3, <2>4
  <1>5. CASE awaiting /\ ResumeUnguarded
    <2>1. /\ jobs # <<>> /\ Head(jobs).op = "trust" /\ jobs' = Tail(jobs)
          /\ events' = Append(events, Event("state", "Authenticating"))
          /\ worker'.at = "auth" /\ ~awaiting' /\ UNCHANGED <<session, key>>
      BY <1>5, <1>i DEF ResumeUnguarded, Takes
    <2>2. /\ ~Has(jobs', Tries) /\ Once(jobs', Tries) /\ (Has(jobs', Close) => Has(jobs, Close))
          /\ Has(jobs, Trust) /\ Has(jobs, Tries)
      BY <1>0, <1>s, <2>1, JobTaken
    <2>3. ~Has(events, Prompts) /\ ~host.awaiting /\ key \in accepted
      BY <1>5, <1>s, <2>2 DEF OneAttempt, KeyOk
    <2>4. /\ Once(events', Prompts) /\ ~Has(events', Prompts)
          /\ object' = "alive" => PromptOk(events', host', state')
      BY <1>a, <2>1, <2>3 DEF States
    <2>5. OneAttempt(jobs', worker', events', host')
      BY <1>p, <2>2, <2>3, <2>4 DEF OneAttempt
    <2>6. KeyOk'
      BY <1>p, <2>1, <2>3 DEF KeyOk, Trusted
    <2> QED BY <1>p, <1>s, <2>2, <2>4, <2>5, <2>6 DEF SessionOk
  <1>6. CASE ResumeNoop
    <2>1. /\ jobs # <<>> /\ Head(jobs).op = "trust" /\ jobs' = Tail(jobs) /\ ~awaiting
          /\ UNCHANGED <<events, worker, session, key, awaiting>>
      BY <1>6 DEF ResumeNoop, Takes, libssh
    <2>2. ~Has(jobs', Tries) /\ Once(jobs', Tries) /\ (Has(jobs', Close) => Has(jobs, Close))
      BY <1>0, <1>s, <2>1, JobTaken
    <2>3. OneAttempt(jobs', worker', events', host')
      BY <1>p, <1>s, <2>1, <2>2 DEF OneAttempt
    <2>4. KeyOk'
      BY <1>p, <1>s, <2>1 DEF KeyOk
    <2> QED BY <1>p, <1>s, <2>1, <2>2, <2>3, <2>4 DEF SessionOk
  <1>7. CASE Authenticated
    <2>1. /\ Dialling(worker) /\ worker.at = "auth" /\ worker'.at = "idle"
          /\ events' = Append(events, Event("state", "Connected"))
          /\ UNCHANGED <<jobs, key, awaiting>>
      BY <1>7, <1>i DEF Authenticated, Dialling
    <2>2. ~Has(events, Prompts) /\ ~host.awaiting /\ ~awaiting /\ ~Has(jobs, Tries)
      BY <1>s, <2>1 DEF OneAttempt, KeyOk
    <2>3. /\ Once(events', Prompts) /\ ~Has(events', Prompts)
          /\ object' = "alive" => PromptOk(events', host', state')
      BY <1>a, <2>1, <2>2 DEF States
    <2>4. OneAttempt(jobs', worker', events', host')
      BY <1>p, <1>s, <2>1, <2>2, <2>3 DEF OneAttempt
    <2>5. KeyOk'
      BY <1>p, <1>s, <2>1, <2>2 DEF KeyOk
    <2> QED BY <1>p, <1>s, <2>1, <2>3, <2>4, <2>5 DEF SessionOk
  <1>8. CASE WorkerClose
    <2>1. /\ jobs # <<>> /\ Head(jobs).op = "close" /\ jobs' = Tail(jobs) /\ worker = Idle
          /\ events' = Append(events, Event("state", "Disconnected"))
          /\ worker' = worker /\ ~awaiting' /\ session' = "null"
      BY <1>8 DEF WorkerClose, Takes, FreeSession
    <2>2. /\ Has(jobs', Tries) <=> Has(jobs, Tries)
          /\ Once(jobs', Tries) /\ Has(jobs, Close)
      BY <1>0, <1>s, <2>1, JobTaken
    <2>3. /\ Has(events', Prompts) <=> Has(events, Prompts)
          /\ Once(events, Prompts) => Once(events', Prompts)
      BY <1>0, <2>1, StateAdded DEF States
    <2>4. OneAttempt(jobs', worker', events', host')
      BY <1>p, <1>s, <2>1, <2>2, <2>3 DEF OneAttempt
    <2>5. KeyOk'
      BY <1>i, <2>1 DEF KeyOk
    <2> QED BY <1>p, <1>s, <2>2, <2>4, <2>5 DEF SessionOk
  <1>9. CASE WorkerExits
    <2>1. /\ jobs' = <<>> /\ quit /\ worker'.at = "exited" /\ session' = "null"
          /\ UNCHANGED <<events, awaiting>>
      BY <1>9, <1>i DEF WorkerExits, FreeSession
    <2>2. ~Has(jobs', Tries) /\ Once(jobs', Tries) /\ ~Has(jobs', Open) /\ ~Has(jobs', Trust)
      BY <2>1, EmptyQueue
    <2>3. OneAttempt(jobs', worker', events', host')
      BY <1>p, <1>s, <2>1, <2>2 DEF OneAttempt, Dialling
    <2>4. KeyOk'
      BY <1>p, <1>s, <2>1, <2>2 DEF KeyOk, Dialling
    <2> QED BY <1>p, <1>s, <2>1, <2>3, <2>4 DEF SessionOk
  <1> QED BY <1>1, <1>2, <1>3, <1>4, <1>5, <1>6, <1>7, <1>8, <1>9
          DEF WorkerSession, ResumeAfterHostKeyTrust

-----------------------------------------------------------------------------
(* Nothing freed is used.                                                  *)

\* Where a step of the tunnels' handlers takes the UI thread.
UiGoes ==
    \/ DestroySession
    \/ ui' = ui /\ ui.at = "loop"
    \/ /\ ui.at = "loop" /\ ui'.at = "closing" /\ ~ui'.dtor
       /\ \E t \in Tunnels : tunnel[t].obj = "alive"
    \/ ui.at = "closing" /\ ui'.at = "join" /\ ui'.todo = ui.todo /\ ui'.dtor = ui.dtor
    \/ ui.at \in {"closing", "join"} /\ ui.todo # <<>> /\ NextClose /\ (CloseIdle \/ CloseJoins)

LEMMA UiMoves ==
    ASSUME Types, TunnelUi
    PROVE  UiGoes
  <1>e. \A calls : EnterClose(calls, FALSE) => ui'.at = "closing" /\ ui'.dtor = FALSE
    BY DEF EnterClose
  <1>1. ASSUME NEW t \in Tunnels, OpenTunnel(t) \/ CloseTunnel(t) \/ DeleteTunnel(t)
        PROVE  UiGoes
    <2>1. CASE OpenTunnel(t)
      BY <2>1 DEF OpenTunnel, uiVars, UiGoes
    <2>2. CASE CloseTunnel(t) \/ DeleteTunnel(t)
      <3>1. ui.at = "loop" /\ ui'.at = "closing" /\ ~ui'.dtor /\ tunnel[t].obj = "alive"
        BY <1>e, <2>2 DEF CloseTunnel, DeleteTunnel
      <3> QED BY <3>1 DEF UiGoes
    <2> QED BY <1>1, <2>1, <2>2
  <1>2. CASE DeleteLater \/ HandleFinished
    <2>1. ui.at = "loop" /\ Head(events).val \in Tunnels
      BY <1>2, FirstEvent, EventIs DEF DeleteLater, HandleFinished
    <2>2. CASE tunnel[Head(events).val].obj = "alive"
      <3>1. ui'.at = "closing" /\ ~ui'.dtor
        BY <1>2, <1>e, <2>2 DEF DeleteLater, HandleFinished
      <3> QED BY <2>1, <2>2, <3>1 DEF UiGoes
    <2>3. CASE tunnel[Head(events).val].obj # "alive"
      BY <1>2, <2>1, <2>3 DEF DeleteLater, HandleFinished, UiGoes
    <2> QED BY <2>2, <2>3
  <1>3. CASE CloseIdle \/ CloseJoins
    BY <1>3 DEF CloseIdle, CloseJoins, Types, ThreadTypes, UiGoes
  <1>4. CASE CloseStops
    <2>1. ui \in UiType /\ ui' = [ui EXCEPT !.at = "join"] /\ ui.at = "closing"
      BY <1>4 DEF CloseStops, Types, ThreadTypes, UiType
    <2>2. ui'.at = "join" /\ ui'.todo = ui.todo /\ ui'.dtor = ui.dtor
      BY <2>1 DEF UiType
    <2> QED BY <2>1, <2>2 DEF UiGoes
  <1>5. CASE HandleResult
    BY <1>5 DEF HandleResult, NextEvent, uiVars, UiGoes
  <1> QED BY <1>1, <1>2, <1>3, <1>4, <1>5 DEF TunnelUi, UiGoes

\* No close() of the session is queued behind which a call could wait.
LEMMA NoneBehind ==
    ASSUME Types, CalmOk, NEW t \in Tunnels, Busy(t), ui.at = "loop" \/ pump[t].at # "none"
    PROVE  /\ ~Has(jobs, Close)
           /\ pump[t].at # "none" => worker.at # "exited"
  <1>1. Has(wired, {t}) /\ t \in profile.tunnels
    BY DEF CalmOk, KnownOk
  <1>2. ASSUME ui.at = "wait", pump[t].at # "none"
        PROVE  FALSE
    <2>1. ui.dtor /\ ui.todo = <<>>
      BY <1>2 DEF Types, ThreadTypes
    <2>2. Has(ui.todo, ClosingOf(t))
      BY <1>2, <2>1 DEF CalmOk, KnownOk
    <2> QED BY <2>1, <2>2, EmptyQueue
  <1>3. ~Has(jobs, Close)
    BY <1>1, <1>2 DEF CalmOk, GoingOk
  <1>4. pump[t].at # "none" => worker.at # "exited"
    BY <1>2 DEF CalmOk, GoingOk, KnownOk
  <1> QED BY <1>3, <1>4

\* A session that exists, or a tunnel that waits for its channel, has its worker.
LEMMA StillThere ==
    ASSUME Types, CalmOk, ui.at # "wait", object # "gone"
    PROVE  worker.at # "exited" /\ ~quit
  BY DEF CalmOk, GoingOk

LEMMA QueueAppends ==
    ASSUME NEW q \in Seq(JobType), NEW x \in JobType, ~Has(q, Close), Then(q, Close, Close)
    PROVE  Then(Append(q, x), Close, Close)
  BY Appending

\* The queue of the worker, in the steps of tunnels and pumps.
LEMMA QueueSteps ==
    ASSUME Types, TunnelInv, SessionOk, CalmOk, TunnelUi \/ TunnelWork \/ PumpWork
    PROVE  /\ Then(jobs', Close, Close)
           /\ worker'.at = "exited" => worker.at = "exited" /\ jobs' = jobs
  <1>0. jobs \in Seq(JobType) /\ Then(jobs, Close, Close) /\ worker \in WorkerType
    BY DEF Types, ThreadTypes, CalmOk, GoingOk
  <1>q. WorkerQuiet(worker, worker')
    BY QuietStep
  <1>x. worker'.at = "exited" => worker.at = "exited"
    BY <1>q DEF WorkerQuiet
  <1>i. Idle.at = "idle"
    BY DEF Idle, Doing
  <1>t. ASSUME jobs # <<>>
        PROVE  Tail(jobs) \in Seq(JobType) /\ Then(Tail(jobs), Close, Close)
               /\ (Has(Tail(jobs), Close) => Has(jobs, Close))
    BY <1>0, <1>t, Taking
  <1>a. ASSUME NEW op \in {"channel"} \cup Calls, NEW t \in Tunnels, ~Has(jobs, Close),
               jobs' = Append(jobs, Job(op, t))
        PROVE  Then(jobs', Close, Close)
    <2>1. Job(op, t) \in JobType
      BY Made
    <2> QED BY <1>0, <1>a, <2>1, QueueAppends
  <1>1. ASSUME NEW t \in Tunnels, OpenTunnel(t) \/ CloseTunnel(t) \/ DeleteTunnel(t)
        PROVE  Then(jobs', Close, Close) /\ (worker.at = "exited" => jobs' = jobs)
    <2>1. \/ jobs' = jobs
          \/ jobs' = Append(jobs, Job("channel", t)) /\ object = "alive" /\ ui.at = "loop"
      BY <1>1 DEF OpenTunnel, CloseTunnel, DeleteTunnel
    <2>2. CASE jobs' = Append(jobs, Job("channel", t)) /\ object = "alive" /\ ui.at = "loop"
      <3>1. ~Has(jobs, Close)
        BY <2>2 DEF SessionOk
      <3>2. worker.at # "exited"
        BY <2>2, StillThere
      <3> QED BY <1>a, <2>2, <3>1, <3>2
    <2> QED BY <1>0, <2>1, <2>2
  <1>2. CASE HandleResult
    <2> DEFINE t == Head(events).val
    <2>1. /\ t \in Tunnels /\ events # <<>> /\ events \in Seq(EventType) /\ ui.at = "loop"
          /\ Head(events) = Event("channel", t) \/ Head(events) = Event("noChannel", t)
      BY <1>2, FirstEvent, EventIs DEF HandleResult, Types, ThreadTypes
    <2>2. jobs' = jobs \/ (jobs' = Append(jobs, Job("free", t)) /\ worker.at # "exited")
      BY <1>2 DEF HandleResult, ResultDropped, ResultAbandoned, OnChannelOpened,
         OnChannelFailed, ReturnChannel
    <2> HIDE DEF t
    <2>3. Has(events, ResultsOf(t))
      BY <2>1, Taking DEF ResultsOf
    <2>4. ~Has(jobs, Close)
      BY <2>1, <2>3, NoneBehind DEF Busy, InFlight
    <2> QED BY <1>0, <1>a, <1>x, <2>1, <2>2, <2>4 DEF Calls
  <1>3. CASE DestroySession \/ DeleteLater \/ CloseIdle \/ CloseStops \/ CloseJoins \/ HandleFinished
    BY <1>0, <1>x, <1>3 DEF DestroySession, DeleteLater, CloseIdle, CloseStops, CloseJoins,
       HandleFinished
  <1>4. CASE WorkerChannel
    BY <1>i, <1>t, <1>x, <1>4 DEF WorkerChannel, Takes
  <1>5. CASE ChannelEnds \/ PostResult
    BY <1>0, <1>x, <1>5 DEF ChannelEnds, PostResult
  <1>6. CASE WorkerCalls
    <2>1. PICK t \in Tunnels, op \in Calls :
             /\ jobs # <<>> /\ Head(jobs) = Job(op, t) /\ worker = Idle /\ worker' = worker
             /\ events' = events /\ tunnel' = tunnel
             /\ channel' = IF op = "free" THEN [channel EXCEPT ![t] = "freed"] ELSE channel
             /\ channel[t] = "live" => deadUse' = deadUse
             /\ \/ /\ pump[t].at = op
                   /\ \E next \in Answers(t, op) :
                        /\ pump' = [pump EXCEPT ![t].at = next]
                        /\ jobs' = Posted(Tail(jobs), next, t)
                \/ pump[t].at # op /\ pump' = pump /\ jobs' = Tail(jobs)
      BY <1>6, CallMoves
    <2>2. \/ jobs' = Tail(jobs)
          \/ /\ pump[t].at # "none"
             /\ \E next \in Calls : jobs' = Append(Tail(jobs), Job(next, t))
      BY <2>1 DEF Posted, Calls
    <2>3. ASSUME pump[t].at # "none", NEW next \in Calls, jobs' = Append(Tail(jobs), Job(next, t))
          PROVE  Then(jobs', Close, Close)
      <3>1. ~Has(Tail(jobs), Close)
        BY <1>t, <2>1, <2>3, NoneBehind DEF Busy
      <3>2. Job(next, t) \in JobType
        BY Made
      <3> QED BY <1>t, <2>1, <2>3, <3>1, <3>2, QueueAppends
    <2> QED BY <1>i, <1>t, <2>1, <2>2, <2>3
  <1>7. ASSUME NEW t \in Tunnels, PumpTop(t) \/ PumpDelivers(t)
        PROVE  Then(jobs', Close, Close) /\ worker.at # "exited"
    <2>1. /\ pump[t].at \in {"top", "deliver"}
          /\ pump'[t].at \in Calls /\ jobs' = Append(jobs, Job(pump'[t].at, t))
      BY <1>7, PumpMoves
    <2>2. ~Has(jobs, Close) /\ worker.at # "exited"
      BY <2>1, NoneBehind DEF Busy
    <2> QED BY <1>a, <2>1, <2>2
  <1>8. ASSUME NEW t \in Tunnels, PumpExits(t) \/ ConsumerCloses(t)
        PROVE  jobs' = jobs
    BY <1>8 DEF PumpExits, ConsumerCloses, sessionVars
  <1> QED BY <1>0, <1>x, <1>1, <1>2, <1>3, <1>4, <1>5, <1>6, <1>7, <1>8
          DEF TunnelUi, TunnelWork, PumpWork, PumpThread

\* The events of tunnels are not the deletion of the session.
LEMMA NotDeletion ==
    /\ \A k, t : t # NoTunnel => Event(k, t) \notin Deletion
    /\ \A k, v : k # "delete" => Event(k, v) \notin Deletion
    /\ \A x : x.kind # "delete" \/ x.val # NoTunnel => x \notin Deletion
    /\ Event("delete", NoTunnel) \in Deletion
  BY DEF Deletion, Event

LEMMA DeletionSteps ==
    ASSUME Types, DeletionOk, TunnelUi \/ TunnelWork \/ PumpWork
    PROVE  /\ Once(events', Deletion) /\ (Has(events', Deletion) => Has(events, Deletion))
           /\ DestroySession /\ object # "alive" =>
                Has(events, Deletion) /\ ~Has(events', Deletion)
  <1>0. events \in Seq(EventType) /\ Once(events, Deletion) /\ worker \in WorkerType
    BY DEF Types, ThreadTypes, DeletionOk
  <1>1. ASSUME NEW k, NEW t \in Tunnels, Event(k, t) \in EventType, NEW e \in Seq(EventType),
               Once(e, Deletion)
        PROVE  /\ Once(Append(e, Event(k, t)), Deletion)
               /\ Has(Append(e, Event(k, t)), Deletion) => Has(e, Deletion)
    <2> DEFINE x == Event(k, t)
    <2>1. x \in EventType /\ x \notin Deletion
      BY <1>1, NotDeletion, SshAssumption
    <2> HIDE DEF x
    <2>2. Once(Append(e, x), Deletion) /\ (Has(Append(e, x), Deletion) => Has(e, Deletion))
      BY <1>1, <2>1, Appending
    <2> QED BY <2>2 DEF x
  <1>2. events # <<>> => /\ Tail(events) \in Seq(EventType) /\ Once(Tail(events), Deletion)
                         /\ Has(Tail(events), Deletion) => Has(events, Deletion)
    BY <1>0, Taking
  <1>d. ASSUME NEW e \in Seq(EventType), NEW t \in Tunnels, Once(e, Deletion)
        PROVE  /\ Once(PostDelete(e, t), Deletion)
               /\ Has(PostDelete(e, t), Deletion) => Has(e, Deletion)
    <2>1. Event("delete", t) \in EventType
      BY Made
    <2>2. CASE PostDelete(e, t) = e
      BY <1>d, <2>2
    <2>3. CASE PostDelete(e, t) = Append(e, Event("delete", t))
      <3>1. /\ Once(Append(e, Event("delete", t)), Deletion)
            /\ Has(Append(e, Event("delete", t)), Deletion) => Has(e, Deletion)
        BY <1>1, <1>d, <2>1
      <3> QED BY <2>3, <3>1
    <2> QED BY <1>d, <2>2, <2>3, PostDeleteTyped
  <1>3. CASE DestroySession
    <2>1. CASE events' = events /\ object = "alive"
      BY <1>0, <2>1
    <2>2. CASE NextEvent("delete") /\ Head(events).val = NoTunnel /\ events' = Tail(events)
      <3>1. events # <<>> /\ Head(events) = Event("delete", NoTunnel)
        BY <2>2, FirstEvent
      <3>2. Head(events) \in Deletion
        BY <3>1, NotDeletion
      <3>3. Has(events, Deletion) /\ ~Has(Tail(events), Deletion)
        BY <1>0, <3>1, <3>2, Taking
      <3>4. Once(Tail(events), Deletion)
        BY <1>2, <3>1
      <3> QED BY <2>2, <3>3, <3>4
    <2> QED BY <1>3, <2>1, <2>2 DEF DestroySession
  <1>s. SUFFICES ASSUME ~DestroySession
                 PROVE  Once(events', Deletion) /\ (Has(events', Deletion) => Has(events, Deletion))
    BY <1>3
  <1>4. ASSUME NEW t \in Tunnels, OpenTunnel(t) \/ CloseTunnel(t) \/ DeleteTunnel(t)
        PROVE  events' = events
    BY <1>4 DEF OpenTunnel, CloseTunnel, DeleteTunnel
  <1>5. CASE DeleteLater \/ HandleFinished
    BY <1>2, <1>5 DEF DeleteLater, HandleFinished, NextEvent
  <1>6. CASE CloseIdle \/ CloseJoins
    <2> DEFINE t == Head(ui.todo).t
    <2>0. ui.todo # <<>> /\ NextClose
      BY <1>6 DEF CloseIdle, CloseJoins, Types, ThreadTypes
    <2>1. t \in Tunnels
      BY <2>0, NextTyped DEF ClosingType
    <2>2. events' = events \/ events' = PostDelete(events, t)
      BY <1>6 DEF CloseIdle, CloseJoins
    <2> HIDE DEF t
    <2> QED BY <1>0, <1>d, <2>1, <2>2
  <1>7. CASE CloseStops \/ WorkerCalls
    BY <1>0, <1>7 DEF CloseStops, WorkerCalls
  <1>8. CASE HandleResult
    <2> DEFINE t == Head(events).val
    <2>1. t \in Tunnels /\ events # <<>>
      BY <1>8, FirstEvent, EventIs DEF HandleResult
    <2>2. events' = Tail(events) \/ events' = PostDelete(Tail(events), t)
      BY <1>8 DEF HandleResult
    <2> HIDE DEF t
    <2> QED BY <1>2, <1>d, <2>1, <2>2
  <1>9. CASE WorkerChannel
    <2> DEFINE t == Head(jobs).t
    <2>1. jobs # <<>> /\ Head(jobs) \in JobType /\ Head(jobs).op = "channel"
      BY <1>9, FirstJob DEF WorkerChannel, Takes
    <2>2. t \in Tunnels
      BY <2>1, JobIs
    <2>3. events' = events \/ events' = Append(events, Event("noChannel", t))
      BY <1>9 DEF WorkerChannel
    <2> HIDE DEF t
    <2>4. Event("noChannel", t) \in EventType
      BY <2>2, Made
    <2> QED BY <1>0, <1>1, <2>2, <2>3, <2>4
  <1>10. CASE ChannelEnds \/ PostResult
    <2> DEFINE t == worker.t
    <2>1. t \in Tunnels
      BY <1>0, <1>10, WorkerIs DEF ChannelEnds, PostResult
    <2>2. \/ events' = events \/ events' = Append(events, Event("noChannel", t))
          \/ events' = Append(events, Event("channel", t))
      BY <1>10 DEF ChannelEnds, PostResult
    <2> HIDE DEF t
    <2>3. Event("noChannel", t) \in EventType /\ Event("channel", t) \in EventType
      BY <2>1, Made
    <2> QED BY <1>0, <1>1, <2>1, <2>2, <2>3
  <1>11. ASSUME NEW t \in Tunnels, PumpThread(t) \/ ConsumerCloses(t)
         PROVE  events' = events \/ events' = Append(events, Event("finished", t))
    BY <1>11 DEF PumpThread, PumpTop, PumpDelivers, PumpExits, ConsumerCloses, sessionVars
  <1>12. \A t \in Tunnels : Event("finished", t) \in EventType
    BY Made
  <1> QED BY <1>0, <1>s, <1>1, <1>4, <1>5, <1>6, <1>7, <1>8, <1>9, <1>10, <1>11, <1>12
          DEF TunnelUi, TunnelWork, PumpWork

LEMMA QuietGoing ==
    ASSUME Types, TunnelInv, SessionOk, CalmOk, TunnelUi \/ TunnelWork \/ PumpWork
    PROVE  WiredOk' /\ GoingOk' /\ DeletionOk'
  <1>1. /\ JobsQuiet(jobs, jobs') /\ EventsQuiet(events, events') /\ WorkerQuiet(worker, worker')
        /\ UNCHANGED <<profile, state, host, quit>>
        /\ object' = object \/ (object' = "disabled" /\ DestroySession)
    BY QuietStep
  <1>2. /\ Then(jobs', Close, Close)
        /\ worker'.at = "exited" => worker.at = "exited" /\ jobs' = jobs
    BY QueueSteps
  <1>3. /\ Once(events', Deletion) /\ (Has(events', Deletion) => Has(events, Deletion))
        /\ DestroySession /\ object # "alive" => Has(events, Deletion) /\ ~Has(events', Deletion)
    BY DeletionSteps DEF CalmOk
  <1>4. /\ Dialling(worker') <=> Dialling(worker)
        /\ worker'.at = "exited" <=> worker.at = "exited"
    BY <1>1 DEF WorkerQuiet, Dialling
  <1>5. wired' = wired \/ (object = "alive" /\ object' = "alive" /\ state = "Connected")
    <2>1. ASSUME NEW t \in Tunnels, OpenTunnel(t) \/ CloseTunnel(t) \/ DeleteTunnel(t)
          PROVE  wired' = wired \/ (object = "alive" /\ object' = "alive" /\ state = "Connected")
      BY <2>1 DEF OpenTunnel, CloseTunnel, DeleteTunnel, tunnelVars, uiVars
    <2>2. CASE DestroySession \/ DeleteLater \/ CloseIdle \/ CloseStops \/ CloseJoins
               \/ HandleResult \/ HandleFinished
      BY <2>2 DEF DestroySession, DeleteLater, CloseIdle, CloseStops, CloseJoins,
         HandleResult, HandleFinished, tunnelVars
    <2>3. CASE TunnelWork \/ PumpWork
      BY <2>3, WorkFrame
    <2> QED BY <2>1, <2>2, <2>3 DEF TunnelUi
  <1>6. WiredOk'
    BY <1>1, <1>4, <1>5 DEF CalmOk, WiredOk, JobsQuiet, EventsQuiet
  <1>7. CASE TunnelWork \/ PumpWork
    <2>1. ui' = ui /\ object' = object
      BY <1>7, WorkFrame
    <2>2. GoingOk'
      BY <1>1, <1>2, <1>4, <2>1 DEF CalmOk, GoingOk, JobsQuiet, EventsQuiet
    <2> QED BY <1>3, <1>6, <2>1, <2>2 DEF CalmOk, DeletionOk
  <1>8. CASE TunnelUi /\ DestroySession
    <2>1. object' = "disabled" /\ ui'.at = "closing" /\ ui'.dtor /\ ui.at = "loop"
      BY <1>8 DEF DestroySession, EnterClose, NextEvent
    <2>2. object = "alive" \/ object = "disabled"
      BY <1>3, <1>8 DEF CalmOk, DeletionOk
    <2>3. ~Has(events', Deletion)
      BY <1>3, <1>8, <2>1 DEF CalmOk, DeletionOk
    <2>4. worker.at # "exited" /\ ~quit
      BY <2>1, <2>2, StillThere
    <2>5. GoingOk'
      BY <1>1, <1>2, <1>4, <2>1, <2>4 DEF CalmOk, GoingOk, JobsQuiet
    <2> QED BY <1>3, <1>6, <2>3, <2>5 DEF DeletionOk
  <1>9. CASE TunnelUi /\ ~DestroySession
    <2>0. UiGoes /\ object' = object
      BY <1>1, <1>9, UiMoves
    <2>g. GoingOk /\ DeletionOk
      BY DEF CalmOk
    <2>q. /\ Has(jobs', Close) <=> Has(jobs, Close)
          /\ Has(jobs', Tries) <=> Has(jobs, Tries)
          /\ Has(events', Is("Failed")) <=> Has(events, Is("Failed"))
      BY <1>1 DEF JobsQuiet, EventsQuiet
    <2>1. CASE ui' = ui
      <3>1. GoingOk'
        BY <1>1, <1>2, <1>4, <2>0, <2>g, <2>q, <2>1 DEF GoingOk
      <3> QED BY <1>3, <1>6, <2>0, <2>g, <2>1, <3>1 DEF DeletionOk
    <2>2. CASE /\ ui.at = "loop" /\ ui'.at = "closing" /\ ~ui'.dtor
               /\ \E t \in Tunnels : tunnel[t].obj = "alive"
      <3>1. profile.tunnels # {}
        BY <2>2 DEF CalmOk, KnownOk
      <3>2. object # "disabled"
        BY <2>g, <2>2, <3>1 DEF GoingOk
      <3>3. GoingOk'
        BY <1>1, <1>2, <1>4, <2>0, <2>g, <2>q, <2>2, <3>2 DEF GoingOk
      <3> QED BY <1>3, <1>6, <2>0, <2>g, <3>2, <3>3 DEF DeletionOk
    <2>3. CASE ui.at = "closing" /\ ui'.at = "join" /\ ui'.todo = ui.todo /\ ui'.dtor = ui.dtor
      <3>1. GoingOk'
        BY <1>1, <1>2, <1>4, <2>0, <2>g, <2>q, <2>3 DEF GoingOk
      <3> QED BY <1>3, <1>6, <2>0, <2>g, <2>3, <3>1 DEF DeletionOk
    <2>4. CASE ui.at \in {"closing", "join"} /\ ui.todo # <<>> /\ NextClose
      <3>1. /\ ui'.at \in {"loop", "closing"}
            /\ ~ui.dtor => ui' = InLoop
            /\ ui.dtor => ui'.at = "closing" /\ ui'.dtor
        BY <2>4, NextTyped
      <3>2. InLoop.at = "loop" /\ ~InLoop.dtor
        BY DEF InLoop
      <3>3. GoingOk'
        BY <1>1, <1>2, <1>4, <2>0, <2>g, <2>q, <2>4, <3>1, <3>2 DEF GoingOk
      <3> QED BY <1>3, <1>6, <2>0, <2>g, <2>4, <3>3 DEF DeletionOk
    <2> QED BY <1>9, <2>0, <2>1, <2>2, <2>3, <2>4 DEF UiGoes
  <1> QED BY <1>7, <1>8, <1>9

\* A step leaves the tunnel as it is, or closes it.
Still(u) ==
    /\ JobsSame(jobs, jobs', u) /\ EventsSame(events, events', u)
    /\ WorkerSame(worker, worker', u)
    /\ tunnel'[u].obj = "alive" => tunnel[u].obj = "alive"
    /\ tunnel'[u].pending => tunnel[u].pending
    /\ pump'[u].at # "none" => pump[u].at # "none"
    /\ pump'[u].at \in {"top", "deliver"} => pump[u].at = pump'[u].at
    /\ channel'[u] = channel[u] \/ (channel'[u] # "live" /\ ~Busy(u))

\* What the UI thread does to a tunnel that is not opened and whose channel does not come.
LEMMA UiStill ==
    ASSUME Types, TunnelInv, TunnelUi, NEW u \in Tunnels, ~OpenTunnel(u),
           HandleResult => Head(events).val # u
    PROVE  /\ Still(u)
           /\ Has(wired', {u}) <=> Has(wired, {u})
           /\ (CloseIdle \/ CloseJoins) /\ Head(ui.todo).t = u =>
                ~tunnel'[u].pending /\ pump'[u].at = "none"
  <1>0. /\ events \in Seq(EventType) /\ jobs \in Seq(JobType) /\ wired \in Seq(Tunnels)
        /\ tunnel \in [Tunnels -> TunnelType] /\ tunnel[u] \in TunnelType
        /\ pump \in [Tunnels -> PumpType]
        /\ JobsSame(jobs, jobs, u) /\ EventsSame(events, events, u) /\ WorkerSame(worker, worker, u)
        /\ channel'[u] = channel[u] /\ worker' = worker
    BY JobsStay, EventsStay, TunnelUiFrame, LoseTyped DEF Types, ThreadTypes, TunnelTypes, WorkerSame
  <1>f. RecordOk(tunnel[u], pump[u])
    BY DEF TunnelInv, TunnelOk, TunnelFits
  <1>d. ASSUME NEW e \in Seq(EventType), NEW f, NEW t \in Tunnels,
               f = e \/ f = PostDelete(e, t)
        PROVE  EventsSame(e, f, u)
    <2>1. f = e \/ f = Append(e, Event("delete", t))
      BY <1>d, PostDeleteTyped
    <2>2. Event("delete", t) \in EventType /\ Event("delete", t) \notin ResultsOf(u)
      BY Made, ForeignEvents
    <2> QED BY <2>1, <2>2, EventsStay
  <1>1. CASE CloseIdle
    <2> DEFINE c == Head(ui.todo)
    <2>1. c.t \in Tunnels /\ c.del \in BOOLEAN
      BY <1>1, NextTyped DEF CloseIdle, ClosingType
    <2>2. /\ jobs' = jobs /\ pump' = pump /\ pump[c.t].at = "none" /\ wired' = wired
          /\ events' = events \/ events' = PostDelete(events, c.t)
      BY <1>1 DEF CloseIdle
    <2>3. \/ tunnel' = [tunnel EXCEPT ![c.t] = Closed(tunnel[c.t], c.del)]
          \/ tunnel' = [tunnel EXCEPT ![c.t] = Emit(Closed(tunnel[c.t], c.del), "failed")]
      BY <1>1 DEF CloseIdle, Closed, Reports
    <2>4. EventsSame(events, events', u)
      BY <1>0, <1>d, <2>1, <2>2
    <2>5. CASE u # c.t
      <3>1. tunnel'[u] = tunnel[u]
        BY <1>0, <2>3, <2>5
      <3>2. Still(u)
        BY <1>0, <2>2, <2>4, <3>1 DEF Still
      <3>3. CloseJoins /\ c.t = u => FALSE
        BY <2>5
      <3> QED BY <2>2, <2>5, <3>2
    <2>6. CASE u = c.t
      <3> DEFINE a == Closed(tunnel[u], c.del)
                 b == Emit(a, "failed")
      <3>0. tunnel[u] \in TunnelType /\ c.del \in BOOLEAN
        BY <1>0, <2>1
      <3> HIDE DEF c
      <3>1. Reads(a, IF c.del THEN "gone" ELSE tunnel[u].obj, FALSE,
                  tunnel[u].abandoned \/ tunnel[u].pending, tunnel[u].opened, tunnel[u].signals)
        BY <3>0, ClosedReads
      <3>2. tunnel'[u] = a \/ tunnel'[u] = b
        BY <1>0, <2>3, <2>6
      <3> HIDE DEF a
      <3>3. Reads(b, a.obj, a.pending, a.abandoned, a.opened, Append(a.signals, "failed"))
        BY <3>1, EmitReads DEF Reads
      <3> HIDE DEF b
      <3>4. ~tunnel'[u].pending /\ (tunnel'[u].obj = "alive" => tunnel[u].obj = "alive")
        BY <3>1, <3>2, <3>3 DEF Reads
      <3>5. Still(u)
        BY <1>0, <2>2, <2>4, <2>6, <3>4 DEF Still
      <3> QED BY <2>2, <2>6, <3>4, <3>5
    <2> QED BY <2>5, <2>6
  <1>2. CASE CloseJoins
    <2> DEFINE c == Head(ui.todo)
    <2>0. ui.todo # <<>>
      BY <1>2 DEF CloseJoins, Types, ThreadTypes
    <2>1. c.t \in Tunnels /\ c.del \in BOOLEAN
      BY <1>2, <2>0, NextTyped DEF CloseJoins, ClosingType
    <2>2. /\ jobs' = jobs /\ pump' = [pump EXCEPT ![c.t] = NoPump] /\ pump[c.t].at = "done"
          /\ wired' = wired
          /\ events' = events \/ events' = PostDelete(events, c.t)
      BY <1>2 DEF CloseJoins
    <2>3. \/ tunnel' = [tunnel EXCEPT ![c.t] = Emit(Joined(tunnel[c.t], c.del), "closed")]
          \/ tunnel' = [tunnel EXCEPT ![c.t] = Joined(tunnel[c.t], c.del)]
      BY <1>2 DEF CloseJoins, Joined
    <2>4. EventsSame(events, events', u)
      BY <1>0, <1>d, <2>1, <2>2
    <2>5. CASE u # c.t
      <3>1. tunnel'[u] = tunnel[u] /\ pump'[u] = pump[u]
        BY <1>0, <2>2, <2>3, <2>5
      <3>2. Still(u)
        BY <1>0, <2>2, <2>4, <3>1 DEF Still
      <3> QED BY <2>2, <2>5, <3>2
    <2>6. CASE u = c.t
      <3> DEFINE a == Joined(tunnel[u], c.del)
                 b == Emit(a, "closed")
      <3>0. tunnel[u] \in TunnelType /\ c.del \in BOOLEAN
        BY <1>0, <2>1
      <3> HIDE DEF c
      <3>1. Reads(a, IF c.del THEN "gone" ELSE tunnel[u].obj, tunnel[u].pending,
                  tunnel[u].abandoned, FALSE, tunnel[u].signals)
        BY <3>0, JoinedReads
      <3>2. tunnel'[u] = a \/ tunnel'[u] = b
        BY <1>0, <2>3, <2>6
      <3> HIDE DEF a
      <3>3. Reads(b, a.obj, a.pending, a.abandoned, a.opened, Append(a.signals, "closed"))
        BY <3>1, EmitReads DEF Reads
      <3> HIDE DEF b
      <3>4. ~tunnel[u].pending
        BY <1>f, <2>2, <2>6 DEF RecordOk
      <3>5. ~tunnel'[u].pending /\ (tunnel'[u].obj = "alive" => tunnel[u].obj = "alive")
        BY <3>1, <3>2, <3>3, <3>4 DEF Reads
      <3>6. pump'[u].at = "none"
        BY <1>0, <2>2, <2>6 DEF NoPump
      <3>7. Still(u)
        BY <1>0, <2>2, <2>4, <3>5, <3>6 DEF Still
      <3> QED BY <2>2, <3>5, <3>6, <3>7
    <2> QED BY <2>5, <2>6
  <1>s. SUFFICES ASSUME ~CloseIdle, ~CloseJoins
                 PROVE  Still(u) /\ (Has(wired', {u}) <=> Has(wired, {u}))
    BY <1>1, <1>2
  <1>3. ASSUME NEW t \in Tunnels, OpenTunnel(t)
        PROVE  Still(u) /\ (Has(wired', {u}) <=> Has(wired, {u}))
    <2>0. u # t /\ events' = events /\ pump' = pump
      BY <1>3 DEF OpenTunnel
    <2>1. tunnel'[u] = tunnel[u]
      BY <1>0, <1>3, <2>0 DEF OpenTunnel
    <2>2. \/ jobs' = jobs /\ wired' = wired
          \/ jobs' = Append(jobs, Job("channel", t)) /\ wired' = Append(wired, t)
      BY <1>3 DEF OpenTunnel
    <2>3. Job("channel", t) \in JobType /\ Foreign(Job("channel", t), u)
      BY <2>0, MadeJobs, ForeignJobs
    <2>4. JobsSame(jobs, jobs', u)
      BY <1>0, <2>2, <2>3, JobsStay
    <2>5. Has(wired', {u}) <=> Has(wired, {u})
      <3>1. t \notin {u}
        BY <2>0
      <3>2. Has(Append(wired, t), {u}) <=> Has(wired, {u})
        BY <1>0, <3>1, Appending
      <3> QED BY <2>2, <3>2
    <2> QED BY <1>0, <2>0, <2>1, <2>4, <2>5 DEF Still
  <1>4. ASSUME NEW t \in Tunnels, CloseTunnel(t) \/ DeleteTunnel(t)
        PROVE  Still(u) /\ (Has(wired', {u}) <=> Has(wired, {u}))
    BY <1>0, <1>4 DEF CloseTunnel, DeleteTunnel, tunnelVars, Still
  <1>5. CASE DestroySession \/ DeleteLater \/ HandleFinished
    <2>1. jobs' = jobs /\ tunnel' = tunnel /\ pump' = pump /\ wired' = wired
      BY <1>5 DEF DestroySession, DeleteLater, HandleFinished, tunnelVars
    <2>2. \/ events' = events
          \/ events # <<>> /\ Head(events).kind \in {"delete", "finished"} /\ events' = Tail(events)
      BY <1>5 DEF DestroySession, DeleteLater, HandleFinished, NextEvent
    <2>3. EventsSame(events, events', u)
      <3>1. CASE events' = events
        BY <1>0, <3>1
      <3>2. CASE events' # events
        <4>1. events # <<>> /\ Head(events) \notin ResultsOf(u) /\ events' = Tail(events)
          BY <2>2, <3>2, ForeignEvents
        <4> QED BY <1>0, <4>1, EventsStay
      <3> QED BY <3>1, <3>2
    <2> QED BY <1>0, <2>1, <2>3 DEF Still
  <1>6. CASE CloseStops
    <2> DEFINE t == Head(ui.todo).t
    <2>1. /\ events' = events /\ jobs' = jobs /\ tunnel' = tunnel /\ wired' = wired
          /\ pump' = [pump EXCEPT ![t].stop = TRUE]
      BY <1>6 DEF CloseStops, StopPump
    <2> HIDE DEF t
    <2>2. pump'[u].at = pump[u].at
      BY <1>0, <2>1 DEF PumpType
    <2> QED BY <1>0, <2>1, <2>2 DEF Still
  <1>7. CASE HandleResult
    <2> DEFINE t == Head(events).val
               ch == Head(events).kind = "channel"
               f == Tail(events)
    <2>1. /\ t \in Tunnels /\ f \in Seq(EventType) /\ events # <<>> /\ t # u
          /\ Head(events) = Event("channel", t) \/ Head(events) = Event("noChannel", t)
      BY <1>7, FirstEvent, EventIs DEF HandleResult, Event
    <2>2. \/ (ResultDropped(ch, t) \/ ResultAbandoned(ch, t) \/ OnChannelOpened(ch, t)) /\ events' = f
          \/ OnChannelFailed(ch, t) /\ events' = PostDelete(f, t)
      BY <1>7 DEF HandleResult
    <2>w. wired' = wired
      BY <1>7 DEF HandleResult
    <2> HIDE DEF t, ch
    <2>3. EventsSame(f, events', u)
      BY <1>d, <2>1, <2>2
    <2>4. EventsSame(events, f, u)
      BY <1>0, <2>1, EventsStay, ForeignEvents
    <2>5. EventsSame(events, events', u)
      BY <2>3, <2>4, EventsChain
    <2>6. jobs' = jobs \/ jobs' = Append(jobs, Job("free", t))
      BY <2>2 DEF ResultDropped, ResultAbandoned, OnChannelOpened, OnChannelFailed, ReturnChannel
    <2>7. Job("free", t) \in JobType /\ Foreign(Job("free", t), u)
      BY <2>1, MadeJobs, ForeignJobs DEF Calls
    <2>8. JobsSame(jobs, jobs', u)
      BY <1>0, <2>6, <2>7, JobsStay
    <2>9. tunnel'[u] = tunnel[u] /\ pump'[u] = pump[u]
      BY <1>0, <2>1, <2>2 DEF ResultDropped, ResultAbandoned, OnChannelOpened, OnChannelFailed
    <2> QED BY <1>0, <2>w, <2>5, <2>8, <2>9 DEF Still
  <1> QED BY <1>s, <1>3, <1>4, <1>5, <1>6, <1>7 DEF TunnelUi

LEMMA StillKept ==
    ASSUME NEW u \in Tunnels, Still(u), KnownOk(u), LiveOk(u), profile' = profile,
           Has(wired', {u}) <=> Has(wired, {u}),
           tunnel'[u].pending \/ pump'[u].at # "none" =>
             object' # "gone" /\ (ui'.dtor => Has(ui'.todo, ClosingOf(u))),
           ui.at = "wait" => ui'.at = "wait" \/ worker'.at = "exited",
           worker.at = "exited" => worker'.at = "exited"
    PROVE  KnownOk(u)' /\ LiveOk(u)'
  <1>1. Busy(u)' => Busy(u)
    BY DEF Still, Busy, InFlight, JobsSame, EventsSame, WorkerSame
  <1>2. KnownOk(u)'
    BY <1>1 DEF KnownOk, Still
  <1>3. CASE channel'[u] = channel[u]
    <2>1. LiveOk(u)'
      BY <1>3 DEF LiveOk, Still, JobsSame, EventsSame, WorkerSame
    <2> QED BY <1>2, <2>1
  <1>4. CASE ~Busy(u)
    <2>1. /\ ~Has(jobs, CallsOn(u)) /\ pump[u].at = "none" /\ ~AtWork(worker, u)
          /\ ~Has(events, {Event("channel", u)})
      BY <1>4, Narrower DEF Busy, InFlight
    <2>2. LiveOk(u)'
      BY <2>1 DEF LiveOk, Still, JobsSame, EventsSame, WorkerSame, AtWork
    <2> QED BY <1>2, <2>2
  <1> QED BY <1>3, <1>4 DEF Still

\* The handlers of the UI thread keep tunnels known and their channels live.
LEMMA UiCalm ==
    ASSUME Types, TunnelInv, SessionOk, CalmOk, TunnelUi, NEW u \in Tunnels
    PROVE  KnownOk(u)' /\ LiveOk(u)'
  <1>0. /\ events \in Seq(EventType) /\ jobs \in Seq(JobType) /\ wired \in Seq(Tunnels)
        /\ tunnel \in [Tunnels -> TunnelType] /\ tunnel[u] \in TunnelType
        /\ pump \in [Tunnels -> PumpType]
        /\ worker' = worker /\ profile' = profile /\ (~HandleResult => channel' = channel)
    BY TunnelUiFrame DEF Types, ThreadTypes, TunnelTypes
  <1>f. TunnelFits(jobs, worker, events, tunnel[u], pump[u], channel[u], u)
    BY DEF TunnelInv, TunnelOk
  <1>r. RecordOk(tunnel[u], pump[u])
    BY <1>f DEF TunnelFits
  <1>k. KnownOk(u) /\ LiveOk(u)
    BY DEF CalmOk
  <1>1. CASE OpenTunnel(u)
    <2>1. /\ events' = events /\ pump' = pump /\ tunnel[u].obj = "new" /\ object = "alive"
          /\ ui.at = "loop" /\ ui' = ui /\ object' = object /\ u \in profile.tunnels
          /\ channel' = channel
      BY <1>1 DEF OpenTunnel, uiVars, libssh
    <2>2. /\ ~tunnel[u].pending /\ pump[u].at = "none"
          /\ ~InFlight(jobs, worker, events, u) /\ ~Has(jobs, CallsOn(u))
      BY <1>f, <1>r, <2>1 DEF TunnelFits, RecordOk, AwaitedOk
    <2>3. ~ui.dtor
      BY <2>1 DEF Types, ThreadTypes, InLoop
    <2>4. CASE state = "Connected"
      <3>1. jobs' = Append(jobs, Job("channel", u)) /\ wired' = Append(wired, u)
        BY <1>1, <2>4 DEF OpenTunnel
      <3>2. Has(wired', {u})
        BY <1>0, <3>1, Appending
      <3>3. Job("channel", u) \in JobType /\ Job("channel", u) \notin CallsOn(u)
        BY MadeJobs DEF CallsOn, Job, Calls
      <3>4. ~Has(jobs', CallsOn(u))
        BY <1>0, <2>2, <3>1, <3>3, Appending
      <3>5. KnownOk(u)'
        BY <1>0, <2>1, <2>3, <3>2 DEF KnownOk
      <3>6. LiveOk(u)'
        BY <1>0, <1>k, <2>1, <2>2, <3>4 DEF LiveOk
      <3> QED BY <3>5, <3>6
    <2>5. CASE state # "Connected"
      <3> DEFINE a == [tunnel[u] EXCEPT !.obj = "alive"]
                 new == Emit(a, "failed")
      <3>1. jobs' = jobs /\ wired' = wired /\ tunnel' = [tunnel EXCEPT ![u] = new]
        BY <1>1, <2>5 DEF OpenTunnel
      <3>2. Reads(a, "alive", tunnel[u].pending, tunnel[u].abandoned, tunnel[u].opened,
                  tunnel[u].signals)
        BY <1>0, OpenReads
      <3> HIDE DEF a
      <3>3. Reads(new, a.obj, a.pending, a.abandoned, a.opened, Append(a.signals, "failed"))
        BY <3>2, EmitReads DEF Reads
      <3> HIDE DEF new
      <3>4. ~tunnel'[u].pending
        BY <1>0, <2>2, <3>1, <3>2, <3>3 DEF Reads
      <3>5. Busy(u)' => Busy(u)
        BY <1>0, <2>1, <3>1, <3>4 DEF Busy
      <3>6. KnownOk(u)'
        BY <1>0, <1>k, <2>1, <2>2, <3>1, <3>4, <3>5 DEF KnownOk
      <3>7. LiveOk(u)'
        BY <1>0, <1>k, <2>1, <3>1 DEF LiveOk
      <3> QED BY <3>6, <3>7
    <2> QED BY <2>4, <2>5
  <1>2. CASE HandleResult /\ Head(events).val = u
    <2> DEFINE ch == Head(events).kind = "channel"
               f == Tail(events)
    <2>1. /\ f \in Seq(EventType) /\ events # <<>> /\ ui.at = "loop" /\ ui = InLoop
          /\ Head(events) = Event("channel", u) \/ Head(events) = Event("noChannel", u)
          /\ ch <=> Head(events) = Event("channel", u)
      BY <1>2, FirstEvent DEF HandleResult, Event
    <2>2. \/ (ResultDropped(ch, u) \/ ResultAbandoned(ch, u) \/ OnChannelOpened(ch, u)) /\ events' = f
          \/ OnChannelFailed(ch, u) /\ events' = PostDelete(f, u)
      BY <1>2 DEF HandleResult
    <2>w. wired' = wired /\ ui' = ui /\ object' = object
      BY <1>2 DEF HandleResult, uiVars
    <2> HIDE DEF ch
    <2>3. Head(events) \in ResultsOf(u)
      BY <2>1 DEF ResultsOf
    <2>4. /\ ~InFlight(jobs, worker, f, u) /\ pump[u].at = "none" /\ ~Has(jobs, CallsOn(u))
          /\ tunnel[u].pending \/ tunnel[u].abandoned
      BY <1>0, <1>f, <2>1, <2>3, Arrived
    <2>5. Has(events, ResultsOf(u)) /\ (ch => Has(events, {Event("channel", u)}))
      BY <1>0, <2>1, <2>3, Taking
    <2>6. Has(wired, {u}) /\ u \in profile.tunnels
      BY <1>k, <2>5 DEF KnownOk, Busy, InFlight
    <2> HIDE DEF f
    <2>7. ~Has(events', {Event("channel", u)})
      <3>1. ~Has(f, ResultsOf(u))
        BY <2>4 DEF InFlight
      <3>2. ~Has(f, {Event("channel", u)})
        BY <3>1, Narrower
      <3>3. Event("delete", u) \in EventType /\ Event("delete", u) \notin {Event("channel", u)}
        BY Made DEF Event
      <3>4. events' = f \/ events' = Append(f, Event("delete", u))
        BY <2>1, <2>2, PostDeleteTyped
      <3>5. ~Has(Append(f, Event("delete", u)), {Event("channel", u)})
        BY <2>1, <3>2, <3>3, Appending
      <3> QED BY <3>2, <3>4, <3>5
    <2>8. /\ jobs' = jobs \/ (jobs' = Append(jobs, Job("free", u)) /\ ch /\ worker.at # "exited")
          /\ pump' = pump \/ (pump' = [pump EXCEPT ![u].at = "top"] /\ ch /\ ~tunnel[u].abandoned)
      BY <2>2 DEF ResultDropped, ResultAbandoned, OnChannelOpened, OnChannelFailed, ReturnChannel
    <2>9. tunnel'[u].pending => tunnel[u].pending
      <3>1. CASE ResultDropped(ch, u)
        BY <3>1 DEF ResultDropped
      <3>2. CASE ResultAbandoned(ch, u)
        BY <1>0, <3>2 DEF ResultAbandoned, TunnelType
      <3>3. CASE OnChannelOpened(ch, u)
        BY <1>0, <3>3 DEF OnChannelOpened, Emit, TunnelType
      <3>4. CASE OnChannelFailed(ch, u)
        BY <1>0, <3>4 DEF OnChannelFailed, Emit, TunnelType
      <3> QED BY <2>2, <3>1, <3>2, <3>3, <3>4
    <2>10. pump'[u].at # "none" => ch /\ tunnel[u].pending
      BY <1>0, <2>4, <2>8
    <2>11. InLoop.at = "loop" /\ ~InLoop.dtor
      BY DEF InLoop
    <2>12. KnownOk(u)'
      BY <1>0, <1>k, <2>1, <2>w, <2>6, <2>9, <2>10, <2>11 DEF KnownOk
    <2>c. channel' = channel \/ (jobs' = jobs /\ pump' = pump)
      BY <2>2 DEF ResultDropped, ResultAbandoned, OnChannelOpened, OnChannelFailed
    <2>13. ch /\ worker.at # "exited" => channel[u] = "live"
      BY <1>k, <2>1, <2>5 DEF LiveOk
    <2>14. Has(jobs', CallsOn(u)) => ch /\ worker.at # "exited" /\ channel' = channel
      BY <2>4, <2>8, <2>c
    <2>p. pump'[u].at # "none" => channel' = channel
      BY <2>4, <2>c
    <2>a. ~(worker'.at = "posting" /\ worker'.t = u)
      BY <1>0, <2>4 DEF InFlight, AtWork
    <2>15. pump'[u].at # "none" => worker.at # "exited"
      <3>1. tunnel[u].pending => object # "gone"
        BY <1>k DEF KnownOk
      <3> QED BY <2>1, <2>10, <3>1, StillThere
    <2>16. LiveOk(u)'
      BY <2>7, <2>10, <2>13, <2>14, <2>15, <2>p, <2>a DEF LiveOk
    <2> QED BY <2>12, <2>16
  <1>3. CASE ~OpenTunnel(u) /\ (HandleResult => Head(events).val # u)
    <2>1. /\ Still(u) /\ (Has(wired', {u}) <=> Has(wired, {u}))
          /\ (CloseIdle \/ CloseJoins) /\ Head(ui.todo).t = u =>
               ~tunnel'[u].pending /\ pump'[u].at = "none"
      BY <1>3, UiStill
    <2>2. UiGoes
      BY UiMoves
    <2>3. object' = object \/ (object' = "disabled" /\ DestroySession)
      BY TunnelUiFrame
    <2>4. ASSUME tunnel'[u].pending \/ pump'[u].at # "none"
          PROVE  object' # "gone" /\ (ui'.dtor => Has(ui'.todo, ClosingOf(u)))
      <3>1. tunnel[u].pending \/ pump[u].at # "none"
        BY <2>1, <2>4 DEF Still
      <3>2. object # "gone" /\ (ui.dtor => Has(ui.todo, ClosingOf(u))) /\ object' # "gone"
        BY <1>k, <2>3, <3>1 DEF KnownOk
      <3>3. CASE DestroySession
        <4>1. tunnel[u].obj = "alive" /\ Has(wired, {u})
          BY <1>k, <1>r, <3>1 DEF RecordOk, KnownOk, Busy
        <4>2. ui'.todo = AboutToDestroy
          BY <3>3 DEF DestroySession, EnterClose
        <4> QED BY <3>2, <4>1, <4>2, DestroyCloses
      <3>4. CASE ui' = ui \/ ~ui'.dtor \/ (ui'.todo = ui.todo /\ ui'.dtor = ui.dtor)
        BY <3>2, <3>4
      <3>5. CASE ui.todo # <<>> /\ NextClose /\ (CloseIdle \/ CloseJoins)
        <4>1. /\ ~ui.dtor => ui' = InLoop
              /\ ui.dtor => ui'.todo = Tail(ui.todo)
          BY <3>5, NextTyped
        <4>2. ~InLoop.dtor
          BY DEF InLoop
        <4>3. Head(ui.todo) \notin ClosingOf(u)
          BY <2>1, <2>4, <3>5 DEF ClosingOf, Closing
        <4>4. ui.todo \in Seq(ClosingType)
          BY DEF Types, ThreadTypes
        <4>5. Has(ui.todo, ClosingOf(u)) => Has(Tail(ui.todo), ClosingOf(u))
          BY <3>5, <4>3, <4>4, Taking
        <4> QED BY <3>2, <4>1, <4>2, <4>5
      <3> QED BY <2>2, <3>3, <3>4, <3>5 DEF UiGoes
    <2>5. ui.at # "wait"
      BY <2>2 DEF UiGoes, DestroySession, NextEvent
    <2> QED BY <1>0, <1>k, <2>1, <2>4, <2>5, StillKept
  <1> QED BY <1>1, <1>2, <1>3

\* What the worker's calls and the pumps do to a tunnel that they are not about.
LEMMA WorkStill ==
    ASSUME Types, TunnelInv, TunnelWork \/ PumpWork, NEW u \in Tunnels,
           WorkerChannel \/ WorkerCalls => Head(jobs).t # u,
           ChannelEnds \/ PostResult => worker.t # u,
           ~PumpTop(u), ~PumpDelivers(u)
    PROVE  Still(u)
  <1>0. /\ events \in Seq(EventType) /\ jobs \in Seq(JobType) /\ worker \in WorkerType
        /\ tunnel \in [Tunnels -> TunnelType] /\ tunnel[u] \in TunnelType
        /\ pump \in [Tunnels -> PumpType] /\ channel \in [Tunnels -> ChannelStates]
        /\ JobsSame(jobs, jobs, u) /\ EventsSame(events, events, u) /\ WorkerSame(worker, worker, u)
    BY JobsStay, EventsStay DEF Types, ThreadTypes, TunnelTypes, WorkerSame
  <1>i. Idle.at = "idle" /\ \A p, t : Doing(p, t).at = p /\ Doing(p, t).t = t
    BY DEF Idle, Doing
  <1>1. CASE WorkerChannel
    <2> DEFINE t == Head(jobs).t
    <2>1. /\ jobs # <<>> /\ Head(jobs) = Job("channel", t)
          /\ Head(jobs) \in JobType /\ Head(jobs).op = "channel" /\ worker = Idle
      BY <1>1, FirstJob DEF WorkerChannel, Takes
    <2>2. t \in Tunnels /\ u # t
      BY <1>1, <2>1, JobIs
    <2>3. UNCHANGED <<tunnel, pump, channel>> /\ jobs' = Tail(jobs)
      BY <1>1 DEF WorkerChannel, tunnelVars, libssh
    <2>4. \/ events' = events /\ worker' = worker
          \/ events' = Append(events, Event("noChannel", t)) /\ worker' = worker
          \/ events' = events /\ worker' = Doing("channel", t)
      BY <1>1 DEF WorkerChannel
    <2> HIDE DEF t
    <2>5. JobsSame(jobs, jobs', u)
      BY <1>0, <2>1, <2>2, <2>3, JobsStay, ForeignJobs
    <2>6. EventsSame(events, events', u)
      <3>1. Event("noChannel", t) \in EventType /\ Event("noChannel", t) \notin ResultsOf(u)
        BY <2>2, Made, ForeignEvents
      <3> QED BY <1>0, <2>4, <3>1, EventsStay
    <2>7. WorkerSame(worker, worker', u)
      BY <1>0, <1>i, <2>1, <2>2, <2>4 DEF WorkerSame, AtWork
    <2> QED BY <2>3, <2>5, <2>6, <2>7 DEF Still
  <1>2. CASE ChannelEnds
    <2> DEFINE t == worker.t
    <2>1. t \in Tunnels /\ worker.at = "channel" /\ u # t
      BY <1>0, <1>2, WorkerIs DEF ChannelEnds
    <2>2. UNCHANGED <<tunnel, pump, jobs>>
      BY <1>2 DEF ChannelEnds, tunnelVars
    <2>3. /\ events' = events \/ events' = Append(events, Event("noChannel", t))
          /\ worker' = Idle \/ worker' = Doing("posting", t)
          /\ \/ channel' = [channel EXCEPT ![t] = "freed"]
             \/ channel' = [channel EXCEPT ![t] = "live"]
      BY <1>2 DEF ChannelEnds
    <2>t. worker.t = t
      OBVIOUS
    <2> HIDE DEF t
    <2>4. EventsSame(events, events', u)
      <3> DEFINE x == Event("noChannel", t)
      <3>1. x \in EventType /\ x \notin ResultsOf(u)
        BY <2>1, Made, ForeignEvents
      <3>2. events' = events \/ events' = Append(events, x)
        BY <2>3
      <3> HIDE DEF x
      <3> QED BY <1>0, <3>1, <3>2, EventsStay
    <2>5. WorkerSame(worker, worker', u)
      BY <1>i, <2>1, <2>t, <2>3 DEF WorkerSame, AtWork
    <2>6. channel'[u] = channel[u]
      BY <1>0, <2>1, <2>3
    <2> QED BY <1>0, <2>2, <2>4, <2>5, <2>6 DEF Still
  <1>3. CASE PostResult
    <2> DEFINE t == worker.t
    <2>1. t \in Tunnels /\ worker.at = "posting" /\ u # t
      BY <1>0, <1>3, WorkerIs DEF PostResult
    <2>2. UNCHANGED <<tunnel, pump, jobs>> /\ worker' = Idle
      BY <1>3 DEF PostResult, tunnelVars
    <2>3. /\ events' = events \/ events' = Append(events, Event("channel", t))
          /\ channel' = channel \/ Lose(t)
      BY <1>3 DEF PostResult
    <2>t. worker.t = t /\ worker'.at = "idle"
      BY <1>i, <2>2
    <2> HIDE DEF t
    <2>4. EventsSame(events, events', u)
      <3> DEFINE x == Event("channel", t)
      <3>1. x \in EventType /\ x \notin ResultsOf(u)
        BY <2>1, Made, ForeignEvents
      <3>2. events' = events \/ events' = Append(events, x)
        BY <2>3
      <3> HIDE DEF x
      <3> QED BY <1>0, <3>1, <3>2, EventsStay
    <2>5. WorkerSame(worker, worker', u)
      BY <2>1, <2>t DEF WorkerSame, AtWork
    <2>6. channel'[u] = channel[u]
      BY <2>1, <2>3, LoseTyped
    <2> QED BY <1>0, <2>2, <2>4, <2>5, <2>6 DEF Still
  <1>4. CASE WorkerCalls
    <2>1. PICK t \in Tunnels, op \in Calls :
             /\ jobs # <<>> /\ Head(jobs) = Job(op, t) /\ worker = Idle /\ worker' = worker
             /\ events' = events /\ tunnel' = tunnel
             /\ channel' = IF op = "free" THEN [channel EXCEPT ![t] = "freed"] ELSE channel
             /\ channel[t] = "live" => deadUse' = deadUse
             /\ \/ /\ pump[t].at = op
                   /\ \E next \in Answers(t, op) :
                        /\ pump' = [pump EXCEPT ![t].at = next]
                        /\ jobs' = Posted(Tail(jobs), next, t)
                \/ pump[t].at # op /\ pump' = pump /\ jobs' = Tail(jobs)
      BY <1>4, CallMoves
    <2>2. Tail(jobs) \in Seq(JobType) /\ u # t
      BY <1>4, <2>1, FirstJob DEF Job
    <2>3. Job(op, t) \in JobType /\ Foreign(Job(op, t), u)
      BY <2>2, MadeJobs, ForeignJobs
    <2>4. JobsSame(jobs, Tail(jobs), u)
      BY <1>0, <2>1, <2>3, JobsStay
    <2>5. channel'[u] = channel[u]
      BY <1>0, <2>1, <2>2
    <2>6. ASSUME NEW next \in Answers(t, op), pump' = [pump EXCEPT ![t].at = next],
                 jobs' = Posted(Tail(jobs), next, t)
          PROVE  JobsSame(jobs, jobs', u) /\ pump'[u] = pump[u]
      <3>1. next \in Calls => Job(next, t) \in JobType /\ Foreign(Job(next, t), u)
        BY <2>2, MadeJobs, ForeignJobs
      <3>2. JobsSame(Tail(jobs), jobs', u)
        BY <2>2, <2>6, <3>1, JobsStay DEF Posted
      <3>3. JobsSame(jobs, jobs', u)
        BY <2>4, <3>2 DEF JobsSame
      <3> QED BY <1>0, <2>2, <2>6, <3>3
    <2>7. JobsSame(jobs, jobs', u) /\ pump'[u] = pump[u]
      BY <2>1, <2>4, <2>6
    <2> QED BY <1>0, <2>1, <2>5, <2>7 DEF Still
  <1>5. ASSUME NEW t \in Tunnels, PumpTop(t) \/ PumpDelivers(t)
        PROVE  Still(u)
    <2>1. /\ pump'[t].at \in Calls
          /\ \A v \in Tunnels : v # t => pump'[v] = pump[v]
          /\ UNCHANGED <<events, worker, channel, tunnel>>
          /\ jobs' = Append(jobs, Job(pump'[t].at, t)) /\ u # t
      BY <1>5, PumpMoves
    <2>2. Job(pump'[t].at, t) \in JobType /\ Foreign(Job(pump'[t].at, t), u)
      BY <2>1, MadeJobs, ForeignJobs
    <2>3. JobsSame(jobs, jobs', u)
      BY <1>0, <2>1, <2>2, JobsStay
    <2> QED BY <1>0, <2>1, <2>3 DEF Still
  <1>6. ASSUME NEW t \in Tunnels, PumpExits(t)
        PROVE  Still(u)
    <2>1. /\ pump[t].at = "exit" /\ pump' = [pump EXCEPT ![t].at = "done"]
          /\ events' = Append(events, Event("finished", t))
          /\ UNCHANGED <<jobs, worker, channel, tunnel>>
      BY <1>6 DEF PumpExits, libssh
    <2>2. EventsSame(events, events', u)
      <3>1. Event("finished", t) \in EventType /\ Event("finished", t) \notin ResultsOf(u)
        BY Made, ForeignEvents
      <3> QED BY <1>0, <2>1, <3>1, EventsStay
    <2>3. /\ pump'[u].at # "none" => pump[u].at # "none"
          /\ pump'[u].at \in {"top", "deliver"} => pump[u].at = pump'[u].at
      BY <1>0, <2>1, PumpAt
    <2> QED BY <1>0, <2>1, <2>2, <2>3 DEF Still
  <1>7. ASSUME NEW t \in Tunnels, ConsumerCloses(t)
        PROVE  Still(u)
    <2>1. /\ tunnel' = [tunnel EXCEPT ![t] = [tunnel[t] EXCEPT !.fd = "closed"]]
          /\ UNCHANGED <<events, jobs, worker, pump, channel>>
      BY <1>0, <1>7 DEF ConsumerCloses, sessionVars, libssh
    <2>2. tunnel'[u].obj = tunnel[u].obj /\ tunnel'[u].pending = tunnel[u].pending
      BY <1>0, <2>1 DEF TunnelType
    <2> QED BY <1>0, <2>1, <2>2 DEF Still
  <1> QED BY <1>1, <1>2, <1>3, <1>4, <1>5, <1>6, <1>7 DEF TunnelWork, PumpWork, PumpThread

\* The worker's calls for tunnels, and the pumps, use live channels.
LEMMA WorkCalm ==
    ASSUME Types, TunnelInv, SessionOk, CalmOk, TunnelWork \/ PumpWork, NEW u \in Tunnels
    PROVE  KnownOk(u)' /\ LiveOk(u)'
  <1>0. /\ events \in Seq(EventType) /\ jobs \in Seq(JobType) /\ worker \in WorkerType
        /\ tunnel \in [Tunnels -> TunnelType] /\ tunnel[u] \in TunnelType
        /\ pump \in [Tunnels -> PumpType] /\ channel \in [Tunnels -> ChannelStates]
        /\ ui' = ui /\ wired' = wired /\ profile' = profile /\ object' = object
    BY WorkFrame DEF Types, ThreadTypes, TunnelTypes
  <1>i. Idle.at = "idle" /\ \A p, t : Doing(p, t).at = p /\ Doing(p, t).t = t
    BY DEF Idle, Doing
  <1>f. TunnelFits(jobs, worker, events, tunnel[u], pump[u], channel[u], u)
    BY DEF TunnelInv, TunnelOk
  <1>k. KnownOk(u) /\ LiveOk(u)
    BY DEF CalmOk
  <1>x. worker.at = "exited" => worker'.at = "exited"
    BY QuietStep DEF WorkerQuiet
  <1>b. ASSUME Busy(u), tunnel' = tunnel, pump'[u].at # "none" => pump[u].at # "none"
        PROVE  KnownOk(u)'
    BY <1>0, <1>k, <1>b DEF KnownOk
  <1>1. CASE WorkerChannel /\ Head(jobs).t = u
    <2>1. /\ jobs # <<>> /\ Head(jobs) = Job("channel", u) /\ worker = Idle
      BY <1>1, FirstJob DEF WorkerChannel, Takes
    <2>2. /\ UNCHANGED <<tunnel, pump, channel>> /\ jobs' = Tail(jobs)
          /\ worker' = worker \/ worker' = Doing("channel", u)
          /\ events' = events \/ events' = Append(events, Event("noChannel", u))
      BY <1>1 DEF WorkerChannel, tunnelVars, libssh
    <2>3. JobsSame(<<>>, jobs', u) /\ ~Has(events, ResultsOf(u)) /\ pump[u].at = "none"
      BY <1>0, <1>f, <2>1, <2>2, Taken
    <2>4. ~Has(jobs', CallsOn(u))
      BY <2>3, EmptyQueue DEF JobsSame
    <2>5. ~Has(events', {Event("channel", u)})
      <3>1. Event("noChannel", u) \in EventType /\ Event("noChannel", u) \notin {Event("channel", u)}
        BY Made DEF Event
      <3>2. ~Has(events, {Event("channel", u)})
        BY <2>3, Narrower
      <3>3. ~Has(Append(events, Event("noChannel", u)), {Event("channel", u)})
        BY <1>0, <3>1, <3>2, Appending
      <3> QED BY <2>2, <3>2, <3>3
    <2>6. worker'.at # "posting"
      BY <1>i, <2>1, <2>2
    <2>7. Busy(u)
      <3>1. Job("channel", u) \in OpenOf(u)
        BY DEF OpenOf
      <3>2. Has(jobs, OpenOf(u))
        BY <1>0, <2>1, <3>1, Taking
      <3> QED BY <3>2 DEF Busy, InFlight
    <2>8. LiveOk(u)'
      BY <2>2, <2>3, <2>4, <2>5, <2>6 DEF LiveOk
    <2> QED BY <1>b, <2>2, <2>7, <2>8
  <1>2. CASE (ChannelEnds \/ PostResult) /\ worker.t = u
    <2>1. AtWork(worker, u)
      BY <1>2 DEF ChannelEnds, PostResult, AtWork
    <2>2. JobsSame(<<>>, jobs, u) /\ pump[u].at = "none" /\ ~Has(events, ResultsOf(u))
      BY <1>f, <2>1, Working
    <2>3. UNCHANGED <<tunnel, pump, jobs>>
      BY <1>2 DEF ChannelEnds, PostResult, tunnelVars
    <2>4. KnownOk(u)'
      BY <1>b, <2>1, <2>3 DEF Busy, InFlight
    <2>5. ~Has(jobs', CallsOn(u))
      BY <2>2, <2>3, EmptyQueue DEF JobsSame
    <2>6. CASE ChannelEnds
      <3>1. /\ events' = events \/ events' = Append(events, Event("noChannel", u))
            /\ worker' = Idle \/ (worker' = Doing("posting", u)
                                  /\ channel' = [channel EXCEPT ![u] = "live"])
        BY <1>2, <2>6 DEF ChannelEnds
      <3>2. ~Has(events', {Event("channel", u)})
        <4>1. /\ Event("noChannel", u) \in EventType
              /\ Event("noChannel", u) \notin {Event("channel", u)}
          BY Made DEF Event
        <4>2. ~Has(events, {Event("channel", u)})
          BY <2>2, Narrower
        <4>3. ~Has(Append(events, Event("noChannel", u)), {Event("channel", u)})
          BY <1>0, <4>1, <4>2, Appending
        <4> QED BY <3>1, <4>2, <4>3
      <3>3. worker'.at = "posting" => channel'[u] = "live"
        BY <1>0, <1>i, <3>1
      <3>4. LiveOk(u)'
        BY <2>2, <2>3, <2>5, <3>2, <3>3 DEF LiveOk
      <3> QED BY <2>4, <3>4
    <2>7. CASE PostResult
      <3>1. \/ events' = events
            \/ channel' = channel
        BY <2>7 DEF PostResult
      <3>2. channel[u] = "live" /\ worker'.at # "posting"
        BY <1>2, <1>i, <1>k, <2>7 DEF LiveOk, PostResult
      <3>3. ~Has(events, {Event("channel", u)})
        BY <2>2, Narrower
      <3>4. LiveOk(u)'
        BY <2>2, <2>3, <2>5, <3>1, <3>2, <3>3 DEF LiveOk
      <3> QED BY <2>4, <3>4
    <2> QED BY <1>2, <2>6, <2>7
  <1>3. CASE WorkerCalls /\ Head(jobs).t = u
    <2>1. PICK t \in Tunnels, op \in Calls :
             /\ jobs # <<>> /\ Head(jobs) = Job(op, t) /\ worker = Idle /\ worker' = worker
             /\ events' = events /\ tunnel' = tunnel
             /\ channel' = IF op = "free" THEN [channel EXCEPT ![t] = "freed"] ELSE channel
             /\ channel[t] = "live" => deadUse' = deadUse
             /\ \/ /\ pump[t].at = op
                   /\ \E next \in Answers(t, op) :
                        /\ pump' = [pump EXCEPT ![t].at = next]
                        /\ jobs' = Posted(Tail(jobs), next, t)
                \/ pump[t].at # op /\ pump' = pump /\ jobs' = Tail(jobs)
      BY <1>3, CallMoves
    <2>2. t = u
      BY <1>3, <2>1 DEF Job
    <2>3. /\ JobsSame(<<>>, Tail(jobs), u) /\ ~InFlight(jobs, worker, events, u)
          /\ pump[u].at = op \/ (op = "free" /\ pump[u].at = "none")
      BY <1>0, <1>f, <2>1, <2>2, CallTaken
    <2>4. Has(jobs, CallsOn(u))
      <3>1. Job(op, u) \in CallsOn(u)
        BY DEF CallsOn
      <3> QED BY <1>0, <2>1, <2>2, <3>1, Taking
    <2>5. channel[u] = "live" /\ Busy(u)
      BY <1>k, <2>4 DEF LiveOk, Busy
    <2>6. pump'[u].at # "none" => pump[u].at # "none"
      BY <2>1, <2>2 DEF Calls
    <2>7. KnownOk(u)'
      BY <1>b, <2>1, <2>5, <2>6
    <2>8. CASE op # "free"
      <3>1. channel'[u] = "live"
        BY <2>1, <2>5, <2>8
      <3> QED BY <2>7, <3>1 DEF LiveOk
    <2>9. CASE op = "free"
      <3>1. jobs' = Tail(jobs) /\ pump'[u].at \notin {"top", "deliver"}
        <4>1. Answers(t, op) = {"exit"}
          BY <2>9, AnswersAre
        <4>2. CASE pump[t].at = op
          <5>1. pump' = [pump EXCEPT ![t].at = "exit"] /\ jobs' = Posted(Tail(jobs), "exit", t)
            BY <2>1, <4>1, <4>2
          <5>2. pump'[u].at = "exit"
            BY <1>0, <2>2, <5>1, PumpAt
          <5> QED BY <5>1, <5>2 DEF Posted, Calls
        <4>3. CASE pump[t].at # op
          BY <2>1, <2>2, <2>3, <4>3
        <4> QED BY <4>2, <4>3
      <3>2. ~Has(jobs', CallsOn(u))
        BY <2>3, <3>1, EmptyQueue DEF JobsSame
      <3>3. ~Has(events', {Event("channel", u)}) /\ worker'.at # "posting"
        BY <1>i, <2>1, <2>3, Narrower DEF InFlight
      <3>4. LiveOk(u)'
        BY <3>1, <3>2, <3>3 DEF LiveOk
      <3> QED BY <2>7, <3>4
    <2> QED BY <2>8, <2>9
  <1>4. CASE PumpTop(u) \/ PumpDelivers(u)
    <2>1. pump[u].at \in {"top", "deliver"} /\ UNCHANGED <<channel, tunnel>>
      BY <1>4, PumpMoves
    <2>2. channel'[u] = "live" /\ Busy(u)
      BY <1>k, <2>1 DEF LiveOk, Busy
    <2>3. KnownOk(u)'
      BY <1>b, <2>1, <2>2
    <2> QED BY <2>2, <2>3 DEF LiveOk
  <1>5. CASE /\ WorkerChannel \/ WorkerCalls => Head(jobs).t # u
             /\ ChannelEnds \/ PostResult => worker.t # u
             /\ ~PumpTop(u) /\ ~PumpDelivers(u)
    <2>1. Still(u)
      BY <1>5, WorkStill
    <2>2. tunnel'[u].pending \/ pump'[u].at # "none" =>
             object' # "gone" /\ (ui'.dtor => Has(ui'.todo, ClosingOf(u)))
      BY <1>0, <1>k, <2>1 DEF Still, KnownOk
    <2> QED BY <1>0, <1>k, <1>x, <2>1, <2>2, StillKept
  <1> QED BY <1>1, <1>2, <1>3, <1>4, <1>5

\* The steps of tunnels, of the worker for them, and of pumps.
LEMMA QuietCalm ==
    ASSUME Types, TunnelInv, SessionOk, CalmOk, TunnelUi \/ TunnelWork \/ PumpWork
    PROVE  CalmOk'
  <1>1. WiredOk' /\ GoingOk' /\ DeletionOk'
    BY QuietGoing
  <1>2. \A u \in Tunnels : KnownOk(u)' /\ LiveOk(u)'
    BY UiCalm, WorkCalm
  <1>3. deadUse' = deadUse
    <2>1. CASE TunnelUi
      BY <2>1, TunnelUiFrame
    <2>2. CASE WorkerChannel \/ ChannelEnds \/ PostResult
      BY <2>2 DEF WorkerChannel, ChannelEnds, PostResult
    <2>3. CASE WorkerCalls
      <3>1. PICK t \in Tunnels, op \in Calls :
              /\ jobs # <<>> /\ Head(jobs) = Job(op, t)
              /\ channel[t] = "live" => deadUse' = deadUse
        BY <2>3, CallMoves
      <3>2. Job(op, t) \in CallsOn(t) /\ jobs \in Seq(JobType)
        BY DEF CallsOn, Types, ThreadTypes
      <3>3. Has(jobs, CallsOn(t))
        BY <3>1, <3>2, Taking
      <3> QED BY <3>1, <3>3 DEF CalmOk, LiveOk
    <2>4. CASE PumpWork
      BY <2>4 DEF PumpWork, PumpThread, PumpTop, PumpDelivers, PumpExits, ConsumerCloses, sessionVars
    <2> QED BY <2>1, <2>2, <2>3, <2>4 DEF TunnelWork
  <1> QED BY <1>1, <1>2, <1>3 DEF CalmOk

\* A state is reported, or asked about.
LEMMA StateAppended ==
    ASSUME NEW e \in Seq(EventType), NEW s \in States
    PROVE  LET f == Append(e, Event("state", s)) IN
           /\ \A z \in {"Connected", "Failed"} : Has(f, Is(z)) <=> Has(e, Is(z)) \/ s = z
           /\ Has(f, Deletion) <=> Has(e, Deletion)
           /\ Once(e, Deletion) => Once(f, Deletion)
           /\ Then(e, Is("Connected"), Others) /\ ~Has(e, Is("Connected")) =>
                Then(f, Is("Connected"), Others)
  <1> DEFINE x == Event("state", s)
             f == Append(e, x)
  <1>1. /\ x \in EventType /\ x \notin Deletion
        /\ \A z \in {"Connected", "Failed"} : x \in Is(z) <=> s = z
    BY Made, EventSets DEF Deletion, Event
  <1> HIDE DEF x
  <1>2. /\ \A z \in {"Connected", "Failed"} : Has(f, Is(z)) <=> Has(e, Is(z)) \/ s = z
        /\ Has(f, Deletion) <=> Has(e, Deletion)
        /\ Once(e, Deletion) => Once(f, Deletion)
        /\ Then(e, Is("Connected"), Others) /\ ~Has(e, Is("Connected")) =>
             Then(f, Is("Connected"), Others)
    BY <1>1, Appending
  <1> QED BY <1>2 DEF x

LEMMA PromptAppended ==
    ASSUME NEW e \in Seq(EventType), NEW k \in Keys
    PROVE  LET f == e \o <<Event("state", "NeedsHostKeyTrust"), Event("prompt", k)>> IN
           /\ Has(f, Is("Connected")) <=> Has(e, Is("Connected"))
           /\ Has(f, Deletion) <=> Has(e, Deletion)
           /\ Once(e, Deletion) => Once(f, Deletion)
           /\ Then(e, Is("Connected"), Others) /\ ~Has(e, Is("Connected")) =>
                Then(f, Is("Connected"), Others)
  <1> DEFINE x == Event("state", "NeedsHostKeyTrust")
             y == Event("prompt", k)
             m == Append(e, x)
             f == Append(m, y)
             C == Is("Connected")
  <1>1. /\ x \in EventType /\ y \in EventType /\ y \notin Deletion /\ y \notin C
    BY Made, MadeStates, EventSets DEF Deletion, Event
  <1>2. e \o <<x, y>> = f
    BY <1>1, TwoMore
  <1>3. /\ Has(m, C) <=> Has(e, C)
        /\ Has(m, Deletion) <=> Has(e, Deletion)
        /\ Once(e, Deletion) => Once(m, Deletion)
        /\ Then(e, C, Others) /\ ~Has(e, C) => Then(m, C, Others)
    BY StateAppended DEF States
  <1>m. m \in Seq(EventType)
    BY <1>1
  <1> HIDE DEF x, y, m, C
  <1>4. /\ Has(f, C) <=> Has(m, C)
        /\ Has(f, Deletion) <=> Has(m, Deletion)
        /\ Once(m, Deletion) => Once(f, Deletion)
        /\ Then(m, C, Others) /\ ~Has(m, C) => Then(f, C, Others)
    BY <1>1, <1>m, Appending
  <1> HIDE DEF f
  <1>5. /\ Has(f, C) <=> Has(e, C)
        /\ Has(f, Deletion) <=> Has(e, Deletion)
        /\ Once(e, Deletion) => Once(f, Deletion)
        /\ Then(e, C, Others) /\ ~Has(e, C) => Then(f, C, Others)
    BY <1>3, <1>4
  <1> QED BY <1>2, <1>5 DEF x, y, C

\* The session's own steps leave tunnels alone, but for their channels.
LEMMA SessionUiStill ==
    ASSUME Types, SessionUi, UNCHANGED tunnelVars, NEW u \in Tunnels
    PROVE  Still(u) /\ profile' = profile /\ worker' = worker
  <1>0. /\ events \in Seq(EventType) /\ jobs \in Seq(JobType)
        /\ JobsSame(jobs, jobs, u) /\ EventsSame(events, events, u) /\ WorkerSame(worker, worker, u)
    BY JobsStay, EventsStay DEF Types, ThreadTypes, WorkerSame
  <1>1. /\ tunnel' = tunnel /\ pump' = pump /\ channel' = channel /\ worker' = worker
        /\ profile' = profile
    BY DEF tunnelVars, libssh, SessionUi, SetConfigEnabled, SetConfigDisabled,
           TrustPendingHostKey, UiReacts, HandleState, HandlePrompt, StopWorker, Destroyed
  <1>2. JobsSame(jobs, jobs', u)
    <2>1. \A op \in {"open", "close", "trust"} : JobsSame(jobs, Append(jobs, Job(op, NoTunnel)), u)
      BY <1>0, JobsStay, Made, ForeignJobs
    <2>2. jobs' = jobs \/ \E op \in {"open", "close", "trust"} :
                            jobs' = Append(jobs, Job(op, NoTunnel))
      BY DEF SessionUi, SetConfigEnabled, SetConfigDisabled,
             TrustPendingHostKey, UiReacts, HandleState, HandlePrompt, StopWorker, Destroyed
    <2> QED BY <1>0, <2>1, <2>2
  <1>3. EventsSame(events, events', u)
    <2>1. CASE SetConfigDisabled
      <3>1. Event("delete", NoTunnel) \in EventType
        BY Made
      <3> QED BY <1>0, <2>1, <3>1, EventsStay, ForeignEvents DEF SetConfigDisabled
    <2>2. CASE HandleState \/ HandlePrompt
      <3>1. /\ events # <<>> /\ Head(events).kind \in {"state", "prompt"}
            /\ events' = Tail(events)
        BY <2>2 DEF HandleState, HandlePrompt, NextEvent
      <3> QED BY <1>0, <3>1, EventsStay, ForeignEvents
    <2>3. CASE SetConfigEnabled \/ TrustPendingHostKey \/ StopWorker \/ Destroyed
      BY <1>0, <2>3 DEF SetConfigEnabled, TrustPendingHostKey, StopWorker, Destroyed
    <2> QED BY <2>1, <2>2, <2>3 DEF SessionUi, UiReacts
  <1> QED BY <1>0, <1>1, <1>2, <1>3 DEF Still

\* The jobs of the session's own steps.
LEMMA CloseQueued ==
    ASSUME NEW q \in Seq(JobType), NEW op \in {"open", "close", "trust"},
           Then(q, Close, Close), Has(q, Close) => op = "close"
    PROVE  Then(Append(q, Job(op, NoTunnel)), Close, Close)
  <1> DEFINE x == Job(op, NoTunnel)
  <1>1. x \in JobType /\ (op = "close" => x \in Close)
    BY JobSets, Made
  <1> HIDE DEF x
  <1>2. Then(Append(q, x), Close, Close)
    BY <1>1, Appending
  <1> QED BY <1>2 DEF x

LEMMA SessionUiCalm ==
    ASSUME Types, SessionOk, Calm, CalmOk, SessionUi, UNCHANGED tunnelVars
    PROVE  CalmOk'
  <1>0. /\ events \in Seq(EventType) /\ jobs \in Seq(JobType) /\ worker \in WorkerType
        /\ wired' = wired
        /\ ui.at = "loop" => ui = InLoop
        /\ ui.at = "wait" => ui.dtor /\ ui.todo = <<>>
    BY DEF Types, ThreadTypes, tunnelVars
  <1>l. InLoop.at = "loop" /\ ~InLoop.dtor
    BY DEF InLoop
  <1>i. Idle.at = "idle"
    BY DEF Idle, Doing
  <1>s. /\ OneAttempt(jobs, worker, events, host) /\ KeyOk
        /\ Has(jobs, Close) \/ quit \/ ui.dtor => object # "alive"
    BY DEF SessionOk
  <1>c. WiredOk /\ GoingOk /\ DeletionOk /\ deadUse = {}
    BY DEF CalmOk
  <1>n. NoReopen /\ "Disable" \notin profile.events
        /\ ("DisableSettled" \in profile.events => profile.tunnels = {})
    BY DEF Calm
  <1>w. worker' = worker /\ profile' = profile
    BY DEF libssh, SessionUi, SetConfigEnabled, SetConfigDisabled,
           TrustPendingHostKey, UiReacts, HandleState, HandlePrompt, StopWorker, Destroyed
  <1>t. ASSUME \A u \in Tunnels : tunnel[u].pending \/ pump[u].at # "none" =>
                 object' # "gone" /\ (ui'.dtor => Has(ui'.todo, ClosingOf(u))),
               ui.at = "wait" => ui'.at = "wait" \/ worker'.at = "exited"
        PROVE  \A u \in Tunnels : KnownOk(u)' /\ LiveOk(u)'
    <2> SUFFICES ASSUME NEW u \in Tunnels
                 PROVE  KnownOk(u)' /\ LiveOk(u)'
      OBVIOUS
    <2>1. Still(u) /\ KnownOk(u) /\ LiveOk(u)
      BY SessionUiStill DEF CalmOk
    <2>2. tunnel'[u].pending \/ pump'[u].at # "none" =>
             object' # "gone" /\ (ui'.dtor => Has(ui'.todo, ClosingOf(u)))
      BY <1>t, <2>1 DEF Still
    <2> QED BY <1>0, <1>t, <1>w, <2>1, <2>2, StillKept
  <1>u. ASSUME ui' = ui, object' # "gone" \/ object' = object
        PROVE  \A u \in Tunnels : KnownOk(u)' /\ LiveOk(u)'
    BY <1>t, <1>u DEF CalmOk, KnownOk
  <1>1. CASE SetConfigEnabled
    <2>1. /\ object = "alive" /\ jobs = <<>> /\ events = <<>> /\ worker = Idle
          /\ state # "Connected" /\ ui.at = "loop"
          /\ jobs' = Append(jobs, Job("open", NoTunnel))
          /\ UNCHANGED <<object, state, host, events, quit, ui, deadUse>>
      BY <1>1, <1>n DEF SetConfigEnabled, Settled, NoReopen
    <2>2. /\ ~Has(jobs, Close) /\ ~quit /\ ~ui.dtor /\ wired = <<>>
          /\ ~Has(events, Is("Connected"))
      BY <1>c, <1>s, <2>1, EmptyQueue DEF WiredOk
    <2>3. ~Has(jobs', Close) /\ Then(jobs', Close, Close)
      BY <1>0, <1>c, <2>1, <2>2, JobAdded, CloseQueued DEF GoingOk
    <2>4. WiredOk'
      BY <1>0, <1>c, <2>1, <2>2 DEF WiredOk
    <2>5. GoingOk'
      BY <1>i, <1>w, <2>1, <2>2, <2>3 DEF GoingOk
    <2>6. DeletionOk'
      BY <1>c, <2>1 DEF DeletionOk
    <2> QED BY <1>c, <1>u, <2>1, <2>4, <2>5, <2>6 DEF CalmOk
  <1>2. CASE SetConfigDisabled
    <2>1. /\ jobs = <<>> /\ events = <<>> /\ worker = Idle /\ profile.tunnels = {}
          /\ object = "alive" /\ object' = "disabled" /\ ui.at = "loop"
          /\ jobs' = Append(jobs, Job("close", NoTunnel))
          /\ events' = Append(events, Event("delete", NoTunnel))
          /\ UNCHANGED <<quit, ui, deadUse>>
      BY <1>2, <1>n DEF SetConfigDisabled, Settled
    <2>2. ~Has(jobs, Tries) /\ ~quit /\ ~ui.dtor /\ ~Has(events, Is("Failed"))
      BY <1>s, <2>1, EmptyQueue
    <2>3. ~Has(jobs', Tries) /\ Then(jobs', Close, Close)
      BY <1>0, <1>c, <2>1, <2>2, JobAdded, CloseQueued DEF GoingOk
    <2>4. ~Has(events', Is("Failed")) /\ Once(events', Deletion)
      <3> DEFINE x == Event("delete", NoTunnel)
      <3>1. x \in EventType /\ x \notin Is("Failed")
        BY Made DEF Is, Event
      <3>2. events' = Append(events, x)
        BY <2>1
      <3> HIDE DEF x
      <3>3. ~Has(events, Deletion) /\ Once(events, Deletion)
        BY <2>1, EmptyQueue
      <3> QED BY <1>0, <2>2, <3>1, <3>2, <3>3, Appending
    <2>5. WiredOk'
      BY <1>i, <1>w, <2>1, <2>3 DEF WiredOk, Dialling
    <2>6. GoingOk'
      BY <1>i, <1>w, <2>1, <2>2, <2>3, <2>4 DEF GoingOk, Dialling
    <2>7. DeletionOk'
      BY <2>1, <2>4 DEF DeletionOk
    <2> QED BY <1>c, <1>u, <2>1, <2>5, <2>6, <2>7 DEF CalmOk
  <1>3. CASE TrustPendingHostKey
    <2>1. /\ object = "alive" /\ host.awaiting /\ ui.at = "loop"
          /\ jobs' = Append(jobs, Job("trust", NoTunnel))
          /\ UNCHANGED <<object, state, events, quit, ui, deadUse>>
      BY <1>3 DEF TrustPendingHostKey
    <2>2. /\ ~Has(jobs, Close) /\ ~quit /\ ~ui.dtor /\ wired = <<>>
          /\ ~Has(events, Is("Connected")) /\ state # "Connected"
      BY <1>c, <1>s, <2>1 DEF WiredOk
    <2>3. ~Has(jobs', Close) /\ Then(jobs', Close, Close)
      BY <1>0, <1>c, <2>1, <2>2, JobAdded, CloseQueued DEF GoingOk
    <2>4. WiredOk'
      BY <1>0, <1>c, <2>1, <2>2 DEF WiredOk
    <2>5. GoingOk'
      BY <1>c, <1>w, <2>1, <2>2, <2>3 DEF GoingOk
    <2>6. DeletionOk'
      BY <1>c, <2>1 DEF DeletionOk
    <2> QED BY <1>c, <1>u, <2>1, <2>4, <2>5, <2>6 DEF CalmOk
  <1>4. CASE HandleState
    <2> DEFINE s == Head(events).val
    <2>1. /\ events # <<>> /\ Head(events) = Event("state", s) /\ events' = Tail(events)
          /\ s \in States /\ ui.at = "loop"
          /\ object # "gone" => state' = s
          /\ object = "gone" => state' = state /\ deadUse' = deadUse
          /\ s # "Failed" \/ object # "disabled" => deadUse' = deadUse
          /\ UNCHANGED <<object, host, jobs, quit, ui>>
      BY <1>4, FirstEvent, EventIs DEF HandleState
    <2> HIDE DEF s
    <2>2. /\ Has(events', Prompts) <=> Has(events, Prompts)
          /\ Once(events, Prompts) => Once(events', Prompts)
      BY <1>0, <2>1, StateHandled
    <2>3. /\ Head(events) \in StateEvents /\ (s = "Connected" => Head(events) \in Is("Connected"))
          /\ s = "Failed" => Head(events) \in Is("Failed")
          /\ Others \cap StateEvents = {}
      BY <2>1, EventSets
    <2>4. /\ Has(events, StateEvents)
          /\ s = "Connected" => Has(events, Is("Connected"))
          /\ s = "Failed" => Has(events, Is("Failed"))
          /\ \A A : Has(events', A) => Has(events, A)
          /\ Once(events', Deletion)
      BY <1>0, <1>c, <2>1, <2>3, Taking DEF DeletionOk
    <2>5. ASSUME Then(events, Is("Connected"), Others)
          PROVE  /\ Then(events', Is("Connected"), Others)
                 /\ s = "Connected" => ~Has(events', StateEvents)
      BY <1>0, <2>1, <2>3, <2>5, Taking
    <2>6. deadUse' = deadUse
      BY <1>c, <2>1, <2>4 DEF GoingOk
    <2>7. object = "alive" => state # "Connected" /\ wired = <<>>
      BY <1>c, <2>4 DEF WiredOk
    <2>8. WiredOk'
      <3>1. CASE object # "alive"
        BY <1>0, <1>c, <1>w, <2>1, <3>1 DEF WiredOk
      <3>2. CASE object = "alive"
        <4>1. state' = s /\ object' = "alive" /\ wired' = <<>>
          BY <1>0, <2>1, <2>7, <3>2
        <4>2. state' = "Connected" \/ Has(events', Is("Connected")) => Has(events, Is("Connected"))
          BY <2>4, <4>1
        <4>3. state' = "Connected" \/ Has(events', Is("Connected")) =>
                /\ ~Has(jobs', Tries) /\ ~Dialling(worker')
                /\ ~Has(events', Prompts) /\ ~host'.awaiting
          BY <1>c, <1>w, <2>1, <2>2, <3>2, <4>2 DEF WiredOk
        <4>4. Then(events, Is("Connected"), Others)
          BY <1>c, <3>2 DEF WiredOk
        <4>5. /\ Then(events', Is("Connected"), Others)
              /\ state' = "Connected" => ~Has(events', StateEvents)
          BY <2>5, <4>1, <4>4
        <4> QED BY <4>1, <4>3, <4>5 DEF WiredOk
      <3> QED BY <3>1, <3>2
    <2>9. GoingOk'
      BY <1>c, <1>w, <2>1, <2>4 DEF GoingOk
    <2>10. DeletionOk'
      BY <1>c, <2>1, <2>4 DEF DeletionOk
    <2> QED BY <1>c, <1>u, <2>1, <2>6, <2>8, <2>9, <2>10 DEF CalmOk
  <1>5. CASE HandlePrompt
    <2> DEFINE k == Head(events).val
    <2>1. /\ events # <<>> /\ Head(events) = Event("prompt", k) /\ events' = Tail(events)
          /\ k \in Keys /\ ui.at = "loop"
          /\ UNCHANGED <<object, state, jobs, quit, ui, deadUse>>
      BY <1>5, FirstEvent, EventIs DEF HandlePrompt
    <2> HIDE DEF k
    <2>2. Head(events) \in Prompts
      BY <2>1, EventSets
    <2>3. /\ Has(events, Prompts)
          /\ \A A : Has(events', A) => Has(events, A)
          /\ Once(events', Deletion)
          /\ Then(events, Is("Connected"), Others) => Then(events', Is("Connected"), Others)
      BY <1>0, <1>c, <2>1, <2>2, Taking DEF DeletionOk
    <2>4. object = "alive" => state # "Connected" /\ ~Has(events', Is("Connected"))
      BY <1>c, <2>3 DEF WiredOk
    <2>5. WiredOk'
      BY <1>0, <1>c, <1>w, <2>1, <2>3, <2>4 DEF WiredOk
    <2>6. GoingOk'
      BY <1>c, <1>w, <2>1, <2>3 DEF GoingOk
    <2>7. DeletionOk'
      BY <1>c, <2>1, <2>3 DEF DeletionOk
    <2> QED BY <1>c, <1>u, <2>1, <2>5, <2>6, <2>7 DEF CalmOk
  <1>6. CASE StopWorker
    <2>1. /\ ui.at = "closing" /\ ui.dtor /\ quit'
          /\ jobs' = Append(jobs, Job("close", NoTunnel))
          /\ ui' = [ui EXCEPT !.at = "wait"]
          /\ UNCHANGED <<object, state, host, events, deadUse>>
      BY <1>6 DEF StopWorker
    <2>2. ui'.at = "wait" /\ ui'.todo = ui.todo /\ ui'.dtor = ui.dtor
      BY <2>1 DEF Types, ThreadTypes
    <2>3. object = "disabled"
      BY <1>c, <2>1 DEF GoingOk
    <2>4. worker.at # "exited"
      BY <2>1, <2>3, StillThere
    <2>5. (Has(jobs', Tries) <=> Has(jobs, Tries)) /\ Then(jobs', Close, Close)
      BY <1>0, <1>c, <2>1, JobAdded, CloseQueued DEF GoingOk
    <2>6. WiredOk'
      BY <1>0, <1>c, <1>w, <2>1, <2>3, <2>5 DEF WiredOk
    <2>7. GoingOk'
      BY <1>w, <2>1, <2>2, <2>3, <2>4, <2>5 DEF GoingOk
    <2>8. DeletionOk'
      BY <1>c, <2>1 DEF DeletionOk
    <2>9. \A u \in Tunnels : KnownOk(u)' /\ LiveOk(u)'
      BY <1>t, <2>1, <2>2, <2>3 DEF CalmOk, KnownOk
    <2> QED BY <1>c, <2>1, <2>6, <2>7, <2>8, <2>9 DEF CalmOk
  <1>7. CASE Destroyed
    <2>1. /\ ui.at = "wait" /\ worker.at = "exited" /\ ui' = InLoop /\ object' = "gone"
          /\ UNCHANGED <<state, host, events, jobs, quit, deadUse>>
      BY <1>7 DEF Destroyed
    <2>2. \A u \in Tunnels : ~tunnel[u].pending /\ pump[u].at = "none"
      <3>1. \A u \in Tunnels : ~Has(ui.todo, ClosingOf(u))
        BY <1>0, <2>1, EmptyQueue
      <3> QED BY <1>0, <2>1, <3>1 DEF CalmOk, KnownOk
    <2>3. \A u \in Tunnels : KnownOk(u)' /\ LiveOk(u)'
      BY <1>t, <1>w, <2>1, <2>2
    <2>4. quit /\ jobs = <<>> /\ ~Has(jobs, Close) /\ Then(jobs, Close, Close)
      BY <1>c, <2>1, EmptyQueue DEF GoingOk
    <2>5. WiredOk'
      BY <1>0, <1>c, <1>w, <2>1 DEF WiredOk
    <2>6. GoingOk'
      BY <1>l, <1>w, <2>1, <2>4 DEF GoingOk
    <2>7. DeletionOk'
      BY <1>c, <2>1 DEF DeletionOk
    <2> QED BY <1>c, <2>1, <2>3, <2>5, <2>6, <2>7 DEF CalmOk
  <1> QED BY <1>1, <1>2, <1>3, <1>4, <1>5, <1>6, <1>7 DEF SessionUi, UiReacts

\* The attempts of the worker to connect leave tunnels alone: there are none yet.
LEMMA DialStill ==
    ASSUME Types, CalmOk, WorkerSession, ~WorkerClose, ~WorkerExits, UNCHANGED tunnelVars,
           wired = <<>>, NEW u \in Tunnels
    PROVE  Still(u)
  <1>0. /\ events \in Seq(EventType) /\ jobs \in Seq(JobType)
        /\ JobsSame(jobs, jobs, u) /\ EventsSame(events, events, u)
        /\ tunnel' = tunnel /\ pump' = pump /\ Freed[u] # "live"
    BY JobsStay, EventsStay, FreedTyped DEF Types, ThreadTypes, tunnelVars
  <1>1. channel' = channel \/ channel' = Freed
    <2>1. ASSUME NEW k \in Keys, Connected(k)
          PROVE  channel' = channel
      BY <2>1 DEF Connected
    <2> QED BY <2>1 DEF libssh, WorkerSession, WorkerOpen, ConnectAborted, ConnectFails,
            FailSession, FreeSession, ResumeAfterHostKeyTrust, ResumeUnguarded, ResumeNoop,
            Authenticated
  <1>2. ~Busy(u)
    BY EmptyQueue DEF CalmOk, KnownOk
  <1>3. worker.at \notin {"channel", "posting"} /\ worker'.at \notin {"channel", "posting"}
    <2>1. Idle.at = "idle" /\ \A p, t : Doing(p, t).at = p
      BY DEF Idle, Doing
    <2>2. ASSUME NEW k \in Keys, Connected(k)
          PROVE  worker.at = "connect" /\ (worker' = Idle \/ worker' = Doing("auth", NoTunnel))
      BY <2>2 DEF Connected
    <2>3. worker = Idle \/ worker.at \in {"connect", "auth"}
      BY <2>2 DEF WorkerSession, WorkerOpen, ConnectAborted, ConnectFails,
             ResumeAfterHostKeyTrust, ResumeUnguarded, ResumeNoop, Authenticated, Takes
    <2>4. worker' = worker \/ worker' = Idle \/ worker' = Doing("auth", NoTunnel)
          \/ worker' = Doing("connect", NoTunnel)
      BY <2>2 DEF WorkerSession, WorkerOpen, ConnectAborted, ConnectFails, FailSession,
             ResumeAfterHostKeyTrust, ResumeUnguarded, ResumeNoop, Authenticated
    <2> QED BY <2>1, <2>3, <2>4
  <1>4. WorkerSame(worker, worker', u)
    BY <1>3, WorkerElsewhere
  <1>5. JobsSame(jobs, jobs', u)
    <2>1. \/ jobs' = jobs
          \/ jobs # <<>> /\ jobs' = Tail(jobs) /\ Head(jobs).op \in {"open", "close", "trust"}
      BY DEF WorkerSession, WorkerOpen, ConnectAborted, ConnectFails, FailSession,
         Connected, ResumeAfterHostKeyTrust, ResumeUnguarded, ResumeNoop, Authenticated, Takes
    <2>2. jobs # <<>> => Head(jobs) \in JobType
      BY FirstJob
    <2> QED BY <1>0, <2>1, <2>2, JobsStay, ForeignJobs
  <1>6. EventsSame(events, events', u)
    <2>1. ASSUME NEW k \in Keys, Connected(k), ~VerifyPinned(k)
          PROVE  EventsSame(events, events', u)
      <3> DEFINE a == Event("state", "NeedsHostKeyTrust")
                 b == Event("prompt", k)
      <3>1. a \in EventType /\ b \in EventType /\ a \notin ResultsOf(u) /\ b \notin ResultsOf(u)
        BY Made, MadeStates, ForeignEvents
      <3>2. events' = events \o <<a, b>>
        BY <2>1 DEF Connected
      <3> HIDE DEF a, b
      <3>3. events' = Append(Append(events, a), b)
        BY <1>0, <3>1, <3>2, TwoMore
      <3> DEFINE m == Append(events, a)
      <3>4. m \in Seq(EventType) /\ EventsSame(events, m, u)
        BY <1>0, <3>1, EventsStay
      <3> HIDE DEF m
      <3>5. EventsSame(m, Append(m, b), u)
        BY <3>1, <3>4, EventsStay
      <3> QED BY <3>3, <3>4, <3>5, EventsChain DEF m
    <2>2. \A s \in {"Failed", "Connecting", "Authenticating", "Connected"} :
            EventsSame(events, Append(events, Event("state", s)), u)
      BY <1>0, MadeStates, ForeignEvents, EventsStay
    <2>3. ASSUME NEW k \in Keys, Connected(k), VerifyPinned(k)
          PROVE  EventsSame(events, events', u)
      BY <2>2, <2>3 DEF Connected
    <2>4. ASSUME ~ \E k \in Keys : Connected(k)
          PROVE  EventsSame(events, events', u)
      <3>1. events' = events \/
            \E s \in {"Failed", "Connecting", "Authenticating", "Connected"} :
               events' = Append(events, Event("state", s))
        BY <2>4 DEF WorkerSession, WorkerOpen, ConnectAborted, ConnectFails, FailSession,
           ResumeAfterHostKeyTrust, ResumeUnguarded, ResumeNoop, Authenticated
      <3> QED BY <1>0, <2>2, <3>1
    <2> QED BY <2>1, <2>3, <2>4
  <1>7. channel'[u] = channel[u] \/ (channel'[u] # "live" /\ ~Busy(u))
    BY <1>0, <1>1, <1>2
  <1> QED BY <1>0, <1>4, <1>5, <1>6, <1>7 DEF Still

LEMMA DialCalm ==
    ASSUME Types, SessionOk, CalmOk, WorkerSession, ~WorkerClose, ~WorkerExits,
           UNCHANGED tunnelVars
    PROVE  CalmOk'
  <1>0. events \in Seq(EventType) /\ jobs \in Seq(JobType) /\ wired' = wired
    BY DEF Types, ThreadTypes, tunnelVars
  <1>i. Idle.at = "idle" /\ \A p, t : Doing(p, t).at = p
    BY DEF Idle, Doing
  <1>s. OneAttempt(jobs, worker, events, host) /\ KeyOk /\ Once(jobs, Tries)
    BY DEF SessionOk, OneAttempt
  <1>c. WiredOk /\ GoingOk /\ DeletionOk /\ deadUse = {}
    BY DEF CalmOk
  <1>k. ASSUME NEW k \in Keys, Connected(k)
        PROVE  /\ UNCHANGED <<profile, object, state, host, ui, quit, jobs, deadUse>>
               /\ worker.at = "connect" /\ (worker' = Idle \/ worker' = Doing("auth", NoTunnel))
    BY <1>k DEF Connected, uiVars
  <1>p. UNCHANGED <<profile, object, state, host, ui, quit>>
    BY <1>k DEF WorkerSession, WorkerOpen, ConnectAborted, ConnectFails, FailSession,
           ResumeAfterHostKeyTrust, ResumeUnguarded, ResumeNoop, Authenticated, uiVars
  <1>w. worker.at # "exited" /\ worker'.at # "exited"
    <2>1. worker = Idle \/ worker.at \in {"connect", "auth"}
      BY <1>k DEF WorkerSession, WorkerOpen, ConnectAborted, ConnectFails,
             ResumeAfterHostKeyTrust, ResumeUnguarded, ResumeNoop, Authenticated, Takes
    <2>2. worker' = worker \/ worker' = Idle \/ worker' = Doing("auth", NoTunnel)
          \/ worker' = Doing("connect", NoTunnel)
      BY <1>k DEF WorkerSession, WorkerOpen, ConnectAborted, ConnectFails, FailSession,
             ResumeAfterHostKeyTrust, ResumeUnguarded, ResumeNoop, Authenticated
    <2> QED BY <1>i, <2>1, <2>2
  <1>j. \/ Dialling(worker) /\ jobs' = jobs
        \/ /\ Has(jobs, Tries) /\ (Has(jobs', Close) => Has(jobs, Close))
           /\ Then(jobs', Close, Close)
    <2>1. ASSUME jobs # <<>>, Head(jobs).op \in {"open", "trust"}, jobs' = Tail(jobs)
          PROVE  /\ Has(jobs, Tries) /\ (Has(jobs', Close) => Has(jobs, Close))
                 /\ Then(jobs', Close, Close)
      <3>1. Has(jobs, Tries) /\ (Has(jobs', Close) => Has(jobs, Close))
        BY <1>0, <1>s, <2>1, JobTaken
      <3>2. Then(jobs', Close, Close)
        BY <1>0, <1>c, <2>1, Taking DEF GoingOk
      <3> QED BY <3>1, <3>2
    <2>2. \/ Dialling(worker) /\ jobs' = jobs
          \/ jobs # <<>> /\ Head(jobs).op \in {"open", "trust"} /\ jobs' = Tail(jobs)
      BY <1>k DEF WorkerSession, WorkerOpen, ConnectAborted, ConnectFails, FailSession,
             ResumeAfterHostKeyTrust, ResumeUnguarded, ResumeNoop, Authenticated, Takes, Dialling
    <2> QED BY <2>1, <2>2
  <1>d. Dialling(worker) \/ Has(jobs, Tries)
    BY <1>j
  <1>1. /\ wired = <<>> /\ object # "gone" /\ ~(object = "disabled" /\ ui.at = "loop")
        /\ object = "alive" => state # "Connected" /\ ~Has(events, Is("Connected"))
                               /\ Then(events, Is("Connected"), Others)
    BY <1>c, <1>d, <1>w DEF WiredOk, GoingOk
  <1>2. \A u \in Tunnels : KnownOk(u)' /\ LiveOk(u)'
    <2> SUFFICES ASSUME NEW u \in Tunnels
                 PROVE  KnownOk(u)' /\ LiveOk(u)'
      OBVIOUS
    <2>1. Still(u) /\ KnownOk(u) /\ LiveOk(u)
      BY <1>1, DialStill DEF CalmOk
    <2>2. tunnel'[u].pending \/ pump'[u].at # "none" =>
             object' # "gone" /\ (ui'.dtor => Has(ui'.todo, ClosingOf(u)))
      BY <1>p, <2>1 DEF KnownOk, Still
    <2> QED BY <1>0, <1>p, <1>w, <2>1, <2>2, StillKept
  <1>3. deadUse' = deadUse
    <2>1. CASE awaiting /\ ResumeUnguarded
      <3>1. session # "null"
        BY <1>s, <1>w, <2>1 DEF KeyOk
      <3> QED BY <2>1, <3>1 DEF ResumeUnguarded
    <2>2. CASE ~(awaiting /\ ResumeUnguarded)
      BY <1>k, <2>2 DEF WorkerSession, WorkerOpen, ConnectAborted, ConnectFails, FailSession,
         ResumeAfterHostKeyTrust, ResumeNoop, Authenticated
    <2> QED BY <2>1, <2>2
  <1>4. GoingOk'
    BY <1>c, <1>j, <1>p, <1>w, <1>1 DEF GoingOk
  <1>5. ASSUME Has(events', Deletion) <=> Has(events, Deletion),
               Once(events, Deletion) => Once(events', Deletion),
               object = "alive" => Then(events', Is("Connected"), Others),
               object = "alive" /\ Has(events', Is("Connected")) =>
                 /\ ~Has(jobs', Tries) /\ ~Dialling(worker')
                 /\ ~Has(events', Prompts) /\ ~host.awaiting
        PROVE  CalmOk'
    <2>1. DeletionOk'
      BY <1>c, <1>p, <1>5 DEF DeletionOk
    <2>2. WiredOk'
      BY <1>0, <1>p, <1>1, <1>5 DEF WiredOk
    <2> QED BY <1>c, <1>2, <1>3, <1>4, <2>1, <2>2 DEF CalmOk
  <1>6. ASSUME NEW s \in States, events' = Append(events, Event("state", s)), s # "Connected"
        PROVE  CalmOk'
    <2>1. /\ Has(events', Is("Connected")) => Has(events, Is("Connected"))
          /\ Has(events', Deletion) <=> Has(events, Deletion)
          /\ Once(events, Deletion) => Once(events', Deletion)
          /\ Then(events, Is("Connected"), Others) /\ ~Has(events, Is("Connected")) =>
               Then(events', Is("Connected"), Others)
      BY <1>0, <1>6, StateAppended
    <2> QED BY <1>1, <1>5, <2>1
  <1>7. CASE events' = events
    BY <1>1, <1>5, <1>7
  <1>8. ASSUME NEW k \in Keys, Connected(k), ~VerifyPinned(k)
        PROVE  CalmOk'
    <2>0. events' = events \o <<Event("state", "NeedsHostKeyTrust"), Event("prompt", k)>>
      BY <1>8 DEF Connected
    <2>1. /\ Has(events', Is("Connected")) <=> Has(events, Is("Connected"))
          /\ Has(events', Deletion) <=> Has(events, Deletion)
          /\ Once(events, Deletion) => Once(events', Deletion)
          /\ Then(events, Is("Connected"), Others) /\ ~Has(events, Is("Connected")) =>
               Then(events', Is("Connected"), Others)
      BY <1>0, <2>0, PromptAppended
    <2> QED BY <1>1, <1>5, <2>1
  <1>9. CASE Authenticated
    <2>1. /\ Dialling(worker) /\ worker'.at = "idle" /\ jobs' = jobs
          /\ events' = Append(events, Event("state", "Connected"))
      BY <1>9, <1>i DEF Authenticated, Dialling
    <2>2. ~Has(events, Prompts) /\ ~host.awaiting /\ ~Has(jobs, Tries)
      BY <1>s, <2>1 DEF OneAttempt
    <2>3. ~Has(events', Prompts)
      BY <1>0, <2>1, <2>2, StateAdded DEF States
    <2>4. /\ Has(events', Deletion) <=> Has(events, Deletion)
          /\ Once(events, Deletion) => Once(events', Deletion)
          /\ Then(events, Is("Connected"), Others) /\ ~Has(events, Is("Connected")) =>
               Then(events', Is("Connected"), Others)
      BY <1>0, <2>1, StateAppended DEF States
    <2> QED BY <1>1, <1>5, <2>1, <2>2, <2>3, <2>4 DEF Dialling
  <1>10. ASSUME ~Authenticated, ~ \E k \in Keys : Connected(k) /\ ~VerifyPinned(k)
         PROVE  \/ events' = events
                \/ \E s \in {"Failed", "Connecting", "Authenticating"} :
                     events' = Append(events, Event("state", s))
    <2>1. ASSUME NEW k \in Keys, Connected(k)
          PROVE  events' = Append(events, Event("state", "Authenticating"))
      BY <1>10, <2>1 DEF Connected
    <2> QED BY <1>10, <2>1 DEF WorkerSession, WorkerOpen, ConnectAborted, ConnectFails,
            FailSession, ResumeAfterHostKeyTrust, ResumeUnguarded, ResumeNoop
  <1>11. \A s \in {"Failed", "Connecting", "Authenticating"} : s \in States /\ s # "Connected"
    BY DEF States
  <1> QED BY <1>6, <1>7, <1>8, <1>9, <1>10, <1>11

\* close() of the session, and the end of its worker: no tunnel has anything to lose.
LEMMA EndCalm ==
    ASSUME Types, TunnelInv, SessionOk, CalmOk, WorkerClose \/ WorkerExits, UNCHANGED tunnelVars
    PROVE  CalmOk'
  <1>0. /\ events \in Seq(EventType) /\ jobs \in Seq(JobType)
        /\ ui.at = "wait" => ui.dtor /\ ui.todo = <<>>
        /\ tunnel' = tunnel /\ pump' = pump /\ wired' = wired
        /\ \A u \in Tunnels : Freed[u] # "live"
    BY FreedTyped DEF Types, ThreadTypes, tunnelVars
  <1>i. Idle.at = "idle" /\ Doing("exited", NoTunnel).at = "exited"
    BY DEF Idle, Doing
  <1>s. /\ Once(jobs, Tries) /\ (Has(jobs, Close) \/ quit \/ ui.dtor => object # "alive")
    BY DEF SessionOk, OneAttempt
  <1>c. WiredOk /\ GoingOk /\ DeletionOk /\ deadUse = {}
    BY DEF CalmOk
  <1>1. /\ worker.at = "idle" /\ channel' = Freed /\ deadUse' = deadUse
        /\ UNCHANGED <<profile, object, state, host, ui, quit>>
    BY <1>i DEF WorkerClose, WorkerExits, FreeSession, Takes, uiVars
  <1>2. WorkerClose =>
          /\ jobs # <<>> /\ Head(jobs).op = "close" /\ jobs' = Tail(jobs) /\ worker' = worker
          /\ events' = Append(events, Event("state", "Disconnected"))
    BY DEF WorkerClose, Takes
  <1>3. WorkerExits => quit /\ jobs' = <<>> /\ worker'.at = "exited" /\ events' = events
    BY <1>i DEF WorkerExits
  <1>4. WorkerClose => Head(jobs) \in Close /\ Has(jobs, Close)
    <2>1. WorkerClose => Head(jobs) = Job("close", NoTunnel)
      BY <1>2, FirstJob, JobIs
    <2> QED BY <1>0, <1>2, <2>1, JobSets, Taking
  <1>5. object # "alive" /\ (ui.at = "wait" \/ profile.tunnels = {})
    BY <1>c, <1>s, <1>1, <1>3, <1>4 DEF GoingOk
  <1>6. /\ Has(jobs', Tries) => Has(jobs, Tries)
        /\ Has(jobs', Close) => Has(jobs, Close)
        /\ Then(jobs', Close, Close)
        /\ \A u \in Tunnels : ~Has(jobs', CallsOn(u)) /\ ~Has(jobs', OpenOf(u))
    <2>1. CASE WorkerExits
      BY <1>3, <2>1, EmptyQueue
    <2>2. CASE WorkerClose
      <3>1. /\ Has(jobs', Tries) => Has(jobs, Tries)
            /\ Has(jobs', Close) => Has(jobs, Close)
            /\ Then(jobs', Close, Close)
        <4> DEFINE r == Tail(jobs)
        <4>1. Then(jobs, Close, Close)
          BY <1>c DEF GoingOk
        <4>2. /\ Has(r, Tries) => Has(jobs, Tries)
              /\ Has(r, Close) => Has(jobs, Close)
              /\ Then(r, Close, Close)
          BY <1>0, <1>2, <2>2, <4>1, Taking
        <4>3. jobs' = r
          BY <1>2, <2>2
        <4> HIDE DEF r
        <4> QED BY <4>2, <4>3
      <3>2. \A u \in Tunnels : Close \cap CallsOn(u) = {} /\ Close \cap OpenOf(u) = {}
        BY DEF Close, CallsOn, OpenOf, Job, Calls
      <3>3. \A C : Close \cap C = {} => ~Has(Tail(jobs), C)
        BY <1>0, <1>2, <1>4, <1>c, <2>2, Taking DEF GoingOk
      <3> QED BY <1>2, <2>2, <3>1, <3>2, <3>3
    <2> QED BY <2>1, <2>2
  <1>7. /\ Has(events', Deletion) <=> Has(events, Deletion)
        /\ Once(events, Deletion) => Once(events', Deletion)
        /\ Has(events', Is("Failed")) <=> Has(events, Is("Failed"))
    <2>1. CASE WorkerExits
      BY <1>3, <2>1
    <2>2. CASE WorkerClose
      <3> DEFINE r == Append(events, Event("state", "Disconnected"))
      <3>1. /\ \A z \in {"Connected", "Failed"} : Has(r, Is(z)) <=> Has(events, Is(z)) \/ "Disconnected" = z
            /\ Has(r, Deletion) <=> Has(events, Deletion)
            /\ Once(events, Deletion) => Once(r, Deletion)
        <4>1. "Disconnected" \in States
          BY DEF States
        <4> QED BY <1>0, <4>1, StateAppended
      <3>2. events' = r
        BY <1>2, <2>2
      <3> HIDE DEF r
      <3> QED BY <3>1, <3>2
    <2> QED BY <2>1, <2>2
  <1>8. worker'.at \in {"idle", "exited"} /\ ~Dialling(worker')
    BY <1>1, <1>2, <1>3 DEF Dialling
  <1>9. WiredOk'
    BY <1>0, <1>c, <1>1, <1>5, <1>6, <1>8 DEF WiredOk
  <1>10. GoingOk'
    <2>1. worker'.at = "exited" => quit /\ jobs' = <<>>
      BY <1>1, <1>2, <1>3
    <2> QED BY <1>c, <1>1, <1>6, <1>7, <1>8, <2>1 DEF GoingOk
  <1>11. DeletionOk'
    BY <1>c, <1>1, <1>7 DEF DeletionOk
  <1>12. ASSUME NEW u \in Tunnels
         PROVE  KnownOk(u)' /\ LiveOk(u)'
    <2>k. KnownOk(u) /\ LiveOk(u)
      BY DEF CalmOk
    <2>1. EventsSame(events, events', u)
      <3>1. Event("state", "Disconnected") \in EventType
            /\ Event("state", "Disconnected") \notin ResultsOf(u)
        BY MadeStates, ForeignEvents
      <3> QED BY <1>0, <1>2, <1>3, <3>1, EventsStay
    <2>2. ~AtWork(worker', u) /\ channel'[u] # "live"
      BY <1>0, <1>1, <1>8 DEF AtWork
    <2>3. Busy(u)' => Busy(u)
      BY <1>0, <1>6, <2>1, <2>2 DEF Busy, InFlight, EventsSame
    <2>4. KnownOk(u)'
      BY <1>0, <1>1, <2>k, <2>3 DEF KnownOk
    <2>5. pump[u].at = "none"
      <3>1. CASE ui.at = "wait"
        BY <1>0, <2>k, <3>1, EmptyQueue DEF KnownOk
      <3>2. CASE profile.tunnels = {}
        BY <2>k, <3>2 DEF KnownOk, Busy
      <3> QED BY <1>5, <3>1, <3>2
    <2>6. Has(events', {Event("channel", u)}) => ui'.at = "wait"
      <3>1. CASE profile.tunnels = {}
        <4>1. ~Busy(u)
          BY <2>k, <3>1 DEF KnownOk
        <4>2. ~Has(events', {Event("channel", u)})
          BY <2>1, <4>1, Narrower DEF Busy, InFlight, EventsSame
        <4> QED BY <4>2
      <3> QED BY <1>1, <1>5, <3>1
    <2>7. LiveOk(u)'
      BY <1>0, <1>6, <1>8, <2>5, <2>6 DEF LiveOk
    <2> QED BY <2>4, <2>7
  <1> QED BY <1>c, <1>1, <1>9, <1>10, <1>11, <1>12 DEF CalmOk

-----------------------------------------------------------------------------
(* The invariant holds, and what follows from it.                          *)

\* The surroundings of a behaviour are chosen once.
LEMMA SameProfile ==
    ASSUME SessionUi \/ WorkerSession
    PROVE  profile' = profile
  <1>1. CASE SessionUi
    BY <1>1 DEF SessionUi, SetConfigEnabled, SetConfigDisabled, TrustPendingHostKey, UiReacts,
                HandleState, HandlePrompt, StopWorker, Destroyed
  <1>2. CASE WorkerSession
    <2>1. ASSUME NEW k \in Keys, Connected(k)
          PROVE  profile' = profile
      BY <2>1 DEF Connected
    <2> QED BY <1>2, <2>1 DEF WorkerSession, WorkerOpen, ConnectAborted, ConnectFails,
                 FailSession, ResumeAfterHostKeyTrust, ResumeUnguarded, ResumeNoop,
                 Authenticated, WorkerClose, WorkerExits
  <1> QED BY <1>1, <1>2

LEMMA Initially ==
    ASSUME Init
    PROVE  IndInv
  <1>0. /\ profile \in Profiles /\ ui = InLoop /\ object = "alive" /\ state = "Disconnected"
        /\ host = NoPrompt /\ accepted = {} /\ opens = 0
        /\ events = <<>> /\ jobs = <<>> /\ worker = Idle /\ wired = <<>>
        /\ session = "null" /\ key = NoKey /\ awaiting = FALSE /\ pendingKey = NoKey
        /\ stop = FALSE /\ quit = FALSE /\ deadUse = {} /\ overtaken = FALSE
        /\ channel = [t \in Tunnels |-> "none"] /\ tunnel = [t \in Tunnels |-> NewTunnel]
        /\ pump = [t \in Tunnels |-> NoPump]
    BY DEF Init, SessionInit
  <1>1. /\ Idle.at = "idle" /\ Idle \in WorkerType
        /\ NoPump.at = "none" /\ NoPump \in PumpType /\ NoPump.stop = FALSE
        /\ InLoop.at = "loop" /\ InLoop.dtor = FALSE /\ InLoop.todo = <<>>
        /\ NoPrompt.awaiting = FALSE /\ NoPrompt.key = NoKey
        /\ NoPrompt \in [awaiting : BOOLEAN, key : Keys \cup {NoKey}]
    BY DEF Idle, Doing, WorkerType, NoPump, PumpType, Calls, InLoop, NoPrompt
  <1>2. /\ NewTunnel.obj = "new" /\ NewTunnel.pending = FALSE /\ NewTunnel.abandoned = FALSE
        /\ NewTunnel.opened = FALSE /\ NewTunnel.signals = <<>> /\ NewTunnel \in TunnelType
    BY DEF NewTunnel, TunnelType
  <1>3. InLoop \in [at : {"loop", "closing", "join", "wait"}, todo : Seq(ClosingType), dtor : BOOLEAN]
    BY DEF InLoop
  <1>4. Types
    <2>1. SessionTypes
      BY <1>0, <1>1 DEF SessionTypes, States
    <2>2. ThreadTypes
      BY <1>0, <1>1, <1>3 DEF ThreadTypes
    <2>3. TunnelTypes
      BY <1>0, <1>1, <1>2 DEF TunnelTypes, ChannelStates
    <2> QED BY <2>1, <2>2, <2>3 DEF Types
  <1>5. ASSUME NEW t \in Tunnels
        PROVE  TunnelOk(t) /\ KnownOk(t) /\ LiveOk(t)
    <2>1. /\ tunnel[t] = NewTunnel /\ pump[t] = NoPump /\ channel[t] = "none"
          /\ ~AtWork(worker, t) /\ ~InFlight(jobs, worker, events, t)
          /\ \A A : ~Has(jobs, A) /\ ~Has(events, A) /\ ~Has(wired, A)
          /\ \A A : Once(jobs, A) /\ Once(events, A)
      BY <1>0, <1>1, EmptyQueue DEF AtWork, InFlight
    <2>2. OnePlace(jobs, worker, events, pump[t], t)
      BY <1>1, <2>1 DEF OnePlace
    <2>3. RecordOk(tunnel[t], pump[t])
      BY <1>1, <1>2, <2>1 DEF RecordOk, Signals
    <2>4. TunnelOk(t)
      BY <1>0, <1>1, <2>1, <2>2, <2>3
      DEF TunnelOk, TunnelFits, AwaitedOk, CallsOk, ChannelOk
    <2>5. ~Busy(t)
      BY <1>1, <1>2, <2>1 DEF Busy
    <2>6. KnownOk(t) /\ LiveOk(t)
      BY <1>0, <1>1, <1>2, <2>1, <2>5 DEF KnownOk, LiveOk
    <2> QED BY <2>4, <2>6
  <1>6. /\ \A A : ~Has(jobs, A) /\ ~Has(events, A) /\ Once(jobs, A) /\ Once(events, A)
        /\ \A A, B : Then(jobs, A, B) /\ Then(events, A, B)
    BY <1>0, EmptyQueue
  <1>7. SessionOk
    BY <1>0, <1>1, <1>6 DEF SessionOk, OneAttempt, PromptOk, KeyOk, Dialling
  <1>8. WiredOk /\ GoingOk /\ DeletionOk
    BY <1>0, <1>1, <1>6 DEF WiredOk, GoingOk, DeletionOk, Dialling
  <1> QED BY <1>0, <1>4, <1>5, <1>7, <1>8 DEF IndInv, TunnelInv, SessionInv, CalmInv, CalmOk

LEMMA Stepwise ==
    ASSUME IndInv, [Next]_vars
    PROVE  IndInv'
  <1>0. Types /\ TunnelInv /\ SessionInv /\ CalmInv
    BY DEF IndInv
  <1>1. CASE UNCHANGED vars
    <2>1. UNCHANGED <<profile, ui, object, state, host, accepted, opens, events, jobs, worker,
                      session, key, awaiting, pendingKey, channel, overtaken, stop, quit, deadUse,
                      tunnel, pump, wired>>
      BY <1>1 DEF vars, sessionVars, tunnelVars, uiVars, libssh
    <2>2. Types'
      BY <1>0, <2>1 DEF Types, SessionTypes, ThreadTypes, TunnelTypes
    <2>3. TunnelInv'
      BY <1>0, <2>1 DEF TunnelInv, TunnelOk
    <2>4. SessionInv'
      BY <1>0, <2>1 DEF SessionInv, NoReopen, SessionOk, KeyOk
    <2>5. CalmInv'
      <3>1. CalmOk => CalmOk'
        <4>1. WiredOk => WiredOk'
          BY <2>1 DEF WiredOk
        <4>2. GoingOk => GoingOk'
          BY <2>1 DEF GoingOk
        <4>3. DeletionOk => DeletionOk'
          BY <2>1 DEF DeletionOk
        <4>4. ASSUME NEW t \in Tunnels
              PROVE  (KnownOk(t) => KnownOk(t)') /\ (LiveOk(t) => LiveOk(t)')
          BY <2>1 DEF KnownOk, LiveOk, Busy
        <4> QED BY <2>1, <4>1, <4>2, <4>3, <4>4 DEF CalmOk
      <3> QED BY <1>0, <2>1, <3>1 DEF CalmInv, Calm, NoReopen
    <2> QED BY <2>2, <2>3, <2>4, <2>5 DEF IndInv
  <1>2. CASE SessionUi /\ UNCHANGED tunnelVars
    <2>1. Types' /\ TunnelInv' /\ SessionInv'
      BY <1>0, <1>2, SessionUiTypes, SessionUiTunnels, SessionUiSession
    <2>2. Calm' => Calm /\ SessionOk /\ CalmOk
      BY <1>0, <1>2, SameProfile DEF Calm, NoReopen, CalmInv, SessionInv
    <2>3. CalmInv'
      BY <1>0, <1>2, <2>2, SessionUiCalm DEF CalmInv
    <2> QED BY <2>1, <2>3 DEF IndInv
  <1>3. CASE WorkerSession /\ UNCHANGED tunnelVars
    <2>1. Types' /\ TunnelInv' /\ SessionInv'
      BY <1>0, <1>3, WorkerSessionTypes, WorkerSessionTunnels, WorkerSessionSession
    <2>2. Calm' => SessionOk /\ CalmOk
      BY <1>0, <1>3, SameProfile DEF Calm, NoReopen, CalmInv, SessionInv
    <2>3. CASE WorkerClose \/ WorkerExits
      BY <1>0, <1>3, <2>1, <2>2, <2>3, EndCalm DEF CalmInv, IndInv
    <2>4. CASE ~WorkerClose /\ ~WorkerExits
      BY <1>0, <1>3, <2>1, <2>2, <2>4, DialCalm DEF CalmInv, IndInv
    <2> QED BY <2>3, <2>4
  <1>4. CASE TunnelUi \/ TunnelWork \/ PumpWork
    <2>1. Types'
      BY <1>0, <1>4, TunnelUiTypes, WorkTypes
    <2>2. TunnelInv'
      BY <1>0, <1>4, TunnelUiTunnels, WorkTunnels
    <2>3. SessionInv' /\ profile' = profile
      BY <1>0, <1>4, QuietSession, QuietStep
    <2>4. Calm' => SessionOk /\ CalmOk
      BY <1>0, <2>3 DEF Calm, NoReopen, CalmInv, SessionInv
    <2>5. CalmInv'
      BY <1>0, <1>4, <2>4, QuietCalm DEF CalmInv
    <2> QED BY <2>1, <2>2, <2>3, <2>5 DEF IndInv
  <1> QED BY <1>1, <1>2, <1>3, <1>4, NextIs

LEMMA Always == Spec => []IndInv
  <1>1. Init => IndInv
    BY Initially
  <1>2. IndInv /\ [Next]_vars => IndInv'
    BY Stepwise
  <1> QED BY <1>1, <1>2, PTL DEF Spec

-----------------------------------------------------------------------------
(* Whose key is trusted.                                                   *)

\* A job of the session is queued, or taken.
LEMMA TrustAdded ==
    ASSUME NEW q \in Seq(JobType), NEW op \in {"open", "close", "trust"}
    PROVE  LET r == Append(q, Job(op, NoTunnel)) IN
           /\ Has(r, Trust) <=> Has(q, Trust) \/ op = "trust"
           /\ Has(r, Close) <=> Has(q, Close) \/ op = "close"
           /\ Once(q, Trust) /\ (Has(q, Trust) => op # "trust") => Once(r, Trust)
           /\ Then(q, Close, Rest) /\ (Has(q, Close) => op = "close") => Then(r, Close, Rest)
  <1> DEFINE x == Job(op, NoTunnel)
  <1>1. /\ x \in JobType
        /\ x \in Trust <=> op = "trust"
        /\ x \in Close <=> op = "close"
        /\ op = "close" => x \in Rest
    BY JobSets, Made DEF Rest
  <1> HIDE DEF x
  <1>2. /\ Has(Append(q, x), Trust) <=> Has(q, Trust) \/ op = "trust"
        /\ Has(Append(q, x), Close) <=> Has(q, Close) \/ op = "close"
        /\ Once(q, Trust) /\ (Has(q, Trust) => op # "trust") => Once(Append(q, x), Trust)
        /\ Then(q, Close, Rest) /\ (Has(q, Close) => op = "close") =>
             Then(Append(q, x), Close, Rest)
    BY <1>1, Appending
  <1> QED BY <1>2 DEF x

LEMMA TrustTaken ==
    ASSUME NEW q \in Seq(JobType), NEW op \in {"open", "close", "trust"},
           q # <<>>, Head(q).op = op, Once(q, Trust), Then(q, Close, Rest)
    PROVE  LET r == Tail(q) IN
           /\ Has(r, Trust) => Has(q, Trust) /\ op = "open"
           /\ Has(r, Close) => Has(q, Close)
           /\ Once(r, Trust) /\ Then(r, Close, Rest)
           /\ op = "close" => Has(q, Close)
           /\ op = "trust" => Has(q, Trust)
  <1> DEFINE x == Head(q)
             r == Tail(q)
  <1>1. x \in JobType
    BY Taking
  <1>2. x = Job(op, NoTunnel)
    BY <1>1, JobIs
  <1>3. /\ x \in Trust <=> op = "trust"
        /\ x \in Close <=> op = "close"
        /\ Rest \cap Trust = {}
    BY <1>2, JobSets DEF Rest, Tries, Trust
  <1>4. /\ Has(q, Trust) <=> x \in Trust \/ Has(r, Trust)
        /\ Has(q, Close) <=> x \in Close \/ Has(r, Close)
        /\ Once(r, Trust) /\ ~(x \in Trust /\ Has(r, Trust))
        /\ Then(r, Close, Rest)
    BY Taking
  <1>5. x \in Close => ~Has(r, Trust)
    BY <1>3, Taking
  <1> HIDE DEF x, r
  <1> QED BY <1>3, <1>4, <1>5 DEF r

LEMMA QuietTrust ==
    ASSUME Types, TrustInv, TunnelUi \/ TunnelWork \/ PumpWork
    PROVE  TrustInv'
  <1>1. /\ JobsQuiet(jobs, jobs') /\ EventsQuiet(events, events') /\ WorkerQuiet(worker, worker')
        /\ UNCHANGED <<host, accepted, session, key, awaiting, quit>>
        /\ object' = object \/ object' = "disabled"
        /\ ui'.dtor => ui.dtor \/ object' = "disabled"
    BY QuietStep, DtorStep DEF DestroySession
  <1>2. overtaken' = overtaken
    BY TunnelUiFrame, WorkFrame
  <1> SUFFICES ASSUME TrustOk
               PROVE  TrustOk'
    BY <1>2 DEF TrustInv
  <1>3. /\ Dialling(worker') <=> Dialling(worker)
        /\ worker'.at = "auth" <=> worker.at = "auth"
        /\ worker'.at = "connect" <=> worker.at = "connect"
    BY <1>1 DEF WorkerQuiet, Dialling
  <1>4. object' = "alive" => AskedOk'
    <2>1. /\ Has(events', Prompts) <=> Has(events, Prompts)
          /\ Has(events', {Event("prompt", key)}) <=> Has(events, {Event("prompt", key)})
          /\ Once(events, Prompts) => Once(events', Prompts)
          /\ Has(jobs', Trust) <=> Has(jobs, Trust)
      BY <1>1 DEF EventsQuiet, JobsQuiet
    <2> QED BY <1>1, <2>1 DEF TrustOk, AskedOk
  <1>5. /\ Once(jobs', Trust) /\ Then(jobs', Close, Rest)
        /\ Has(jobs', Trust) <=> Has(jobs, Trust)
        /\ Has(jobs', Close) <=> Has(jobs, Close)
    BY <1>1 DEF JobsQuiet, TrustOk
  <1> QED BY <1>1, <1>3, <1>4, <1>5 DEF TrustOk

LEMMA SessionUiTrust ==
    ASSUME Types, TrustInv, SessionUi
    PROVE  TrustInv'
  <1>0. /\ events \in Seq(EventType) /\ jobs \in Seq(JobType)
        /\ host.awaiting \in BOOLEAN /\ awaiting \in BOOLEAN
    BY DEF Types, ThreadTypes, SessionTypes
  <1>u. UNCHANGED <<worker, libssh>>
    BY DEF SessionUi, SetConfigEnabled, SetConfigDisabled, TrustPendingHostKey, UiReacts,
           HandleState, HandlePrompt, StopWorker, Destroyed
  <1>l. UNCHANGED <<worker, session, key, awaiting, overtaken>>
    BY <1>u DEF libssh
  <1> SUFFICES ASSUME TrustOk
               PROVE  TrustOk'
    BY <1>l DEF TrustInv
  <1>h. ~NoPrompt.awaiting
    BY DEF NoPrompt
  <1>s. /\ Once(jobs, Trust) /\ Then(jobs, Close, Rest)
        /\ Has(jobs, Trust) => awaiting /\ key \in accepted
        /\ Has(jobs, Close) \/ quit \/ ui.dtor => object # "alive"
        /\ object = "alive" => AskedOk
    BY DEF TrustOk
  <1>w. ASSUME accepted \subseteq accepted', Once(jobs', Trust), Then(jobs', Close, Rest),
               Has(jobs', Trust) => awaiting /\ key \in accepted',
               Has(jobs', Close) \/ quit' \/ ui'.dtor => object' # "alive",
               object' = "alive" => AskedOk'
        PROVE  TrustOk'
    BY <1>l, <1>w DEF TrustOk, Trusted
  <1>1. CASE SetConfigEnabled
    <2>1. /\ object = "alive" /\ jobs' = Append(jobs, Job("open", NoTunnel))
          /\ UNCHANGED <<object, host, accepted, events, quit, ui>>
      BY <1>1 DEF SetConfigEnabled
    <2>2. /\ Has(jobs', Trust) <=> Has(jobs, Trust)
          /\ Once(jobs', Trust) /\ ~Has(jobs', Close) /\ Then(jobs', Close, Rest)
      BY <1>0, <1>s, <2>1, TrustAdded
    <2>3. AskedOk'
      BY <1>l, <1>s, <2>1, <2>2 DEF AskedOk
    <2> QED BY <1>s, <1>w, <2>1, <2>2, <2>3
  <1>2. CASE SetConfigDisabled
    <2>1. /\ object' = "disabled" /\ jobs' = Append(jobs, Job("close", NoTunnel))
          /\ accepted' = accepted
      BY <1>2 DEF SetConfigDisabled
    <2>2. /\ Has(jobs', Trust) <=> Has(jobs, Trust)
          /\ Once(jobs', Trust) /\ Then(jobs', Close, Rest)
      BY <1>0, <1>s, <2>1, TrustAdded
    <2> QED BY <1>s, <1>w, <2>1, <2>2
  <1>3. CASE TrustPendingHostKey
    <2>1. /\ object = "alive" /\ host.awaiting /\ accepted' = accepted \cup {host.key}
          /\ host' = NoPrompt /\ jobs' = Append(jobs, Job("trust", NoTunnel))
          /\ UNCHANGED <<object, events, quit, ui>>
      BY <1>3 DEF TrustPendingHostKey
    <2>2. ~Has(jobs, Trust) /\ ~Has(events, Prompts) /\ awaiting /\ host.key = key
          /\ Once(events, Prompts)
      BY <1>s, <2>1 DEF AskedOk
    <2>3. /\ Once(jobs', Trust) /\ ~Has(jobs', Close) /\ Then(jobs', Close, Rest)
      BY <1>0, <1>s, <2>1, <2>2, TrustAdded
    <2>4. AskedOk'
      BY <1>h, <2>1, <2>2 DEF AskedOk
    <2> QED BY <1>s, <1>w, <2>1, <2>2, <2>3, <2>4
  <1>4. CASE HandleState
    <2> DEFINE s == Head(events).val
    <2>1. /\ events # <<>> /\ Head(events) = Event("state", s) /\ events' = Tail(events)
          /\ s \in States
          /\ UNCHANGED <<object, host, accepted, jobs, quit, ui>>
      BY <1>4, FirstEvent, EventIs DEF HandleState
    <2> HIDE DEF s
    <2>2. /\ Has(events', Prompts) <=> Has(events, Prompts)
          /\ Once(events, Prompts) => Once(events', Prompts)
          /\ \A k : Has(events', {Event("prompt", k)}) <=> Has(events, {Event("prompt", k)})
      BY <1>0, <2>1, StateHandled
    <2>3. object = "alive" => AskedOk'
      BY <1>l, <1>s, <2>1, <2>2 DEF AskedOk
    <2> QED BY <1>s, <1>w, <2>1, <2>3
  <1>5. CASE HandlePrompt
    <2> DEFINE k == Head(events).val
    <2>1. /\ events # <<>> /\ Head(events) = Event("prompt", k) /\ events' = Tail(events)
          /\ k \in Keys
          /\ UNCHANGED <<object, accepted, jobs, quit, ui>>
      BY <1>5, FirstEvent, EventIs DEF HandlePrompt
    <2>h. object # "gone" => host' = [awaiting |-> TRUE, key |-> k]
      BY <1>5 DEF HandlePrompt
    <2> HIDE DEF k
    <2>2. ASSUME object = "alive"
          PROVE  AskedOk'
      <3>1. Once(events, Prompts)
        BY <1>s, <2>2 DEF AskedOk
      <3>2. /\ ~Has(events', Prompts) /\ Once(events', Prompts) /\ Has(events, Prompts)
            /\ \A j \in Keys : Has(events, {Event("prompt", j)}) => j = k
        BY <1>0, <2>1, <3>1, PromptHandled
      <3>3. awaiting /\ ~Has(jobs, Trust) /\ Has(events, {Event("prompt", key)})
        BY <1>s, <2>2, <3>2 DEF AskedOk
      <3>4. key \in Keys
        <4>1. Event("prompt", key) \in EventType
          BY <1>0, <3>3 DEF Has
        <4>2. Event("prompt", key).kind = "prompt" /\ Event("prompt", key).val = key
          BY DEF Event
        <4> QED BY <4>1, <4>2, EventIs
      <3>5. host'.awaiting /\ host'.key = key
        BY <2>2, <2>h, <3>2, <3>3, <3>4
      <3> QED BY <1>l, <2>1, <3>2, <3>3, <3>5 DEF AskedOk
    <2> QED BY <1>s, <1>w, <2>1, <2>2
  <1>6. CASE StopWorker
    <2>1. /\ object' # "alive" /\ jobs' = Append(jobs, Job("close", NoTunnel))
          /\ accepted' = accepted
      BY <1>6, <1>s DEF StopWorker
    <2>2. /\ Has(jobs', Trust) <=> Has(jobs, Trust)
          /\ Once(jobs', Trust) /\ Then(jobs', Close, Rest)
      BY <1>0, <1>s, <2>1, TrustAdded
    <2> QED BY <1>s, <1>w, <2>1, <2>2
  <1>7. CASE Destroyed
    <2>1. object' = "gone" /\ UNCHANGED <<accepted, jobs>>
      BY <1>7 DEF Destroyed
    <2> QED BY <1>s, <1>w, <2>1
  <1> QED BY <1>1, <1>2, <1>3, <1>4, <1>5, <1>6, <1>7 DEF SessionUi, UiReacts

LEMMA WorkerSessionTrust ==
    ASSUME Types, TrustInv, WorkerSession
    PROVE  TrustInv'
  <1>0. /\ events \in Seq(EventType) /\ jobs \in Seq(JobType)
        /\ host.awaiting \in BOOLEAN /\ awaiting \in BOOLEAN /\ overtaken \in BOOLEAN
    BY DEF Types, ThreadTypes, SessionTypes
  <1>c. ASSUME NEW k \in Keys, Connected(k)
        PROVE  UNCHANGED <<object, host, accepted, ui, quit, overtaken>>
    BY <1>c DEF Connected, uiVars
  <1>p. /\ UNCHANGED <<object, host, accepted, ui, quit>>
        /\ ~overtaken' => ~overtaken
    BY <1>0, <1>c DEF WorkerSession, WorkerOpen, ConnectAborted, ConnectFails, FailSession,
           ResumeAfterHostKeyTrust, ResumeUnguarded, ResumeNoop, Authenticated, WorkerClose,
           WorkerExits, uiVars, libssh
  <1> SUFFICES ASSUME TrustOk, ~overtaken'
               PROVE  TrustOk'
    BY <1>p DEF TrustInv
  <1>i. Idle.at = "idle" /\ \A p, t : Doing(p, t).at = p
    BY DEF Idle, Doing
  <1>s. /\ Once(jobs, Trust) /\ Then(jobs, Close, Rest)
        /\ Has(jobs, Trust) => awaiting /\ key \in accepted
        /\ awaiting => ~Dialling(worker)
        /\ Has(jobs, Close) \/ quit \/ ui.dtor => object # "alive"
        /\ object = "alive" => AskedOk
    BY DEF TrustOk
  \* A state is reported, and nothing else of a prompt changes.
  <1>a. ASSUME NEW s \in States, events' = Append(events, Event("state", s)),
               awaiting' = awaiting, Has(jobs', Trust) => Has(jobs, Trust),
               key' = key \/ ~awaiting, object = "alive"
        PROVE  AskedOk'
    <2>1. /\ Has(events', Prompts) <=> Has(events, Prompts)
          /\ Once(events, Prompts) => Once(events', Prompts)
          /\ \A k : Has(events', {Event("prompt", k)}) <=> Has(events, {Event("prompt", k)})
      BY <1>0, <1>a, StateAdded
    <2> QED BY <1>a, <1>p, <1>s, <2>1 DEF AskedOk
  <1>1. CASE WorkerOpen
    <2>1. /\ jobs # <<>> /\ Head(jobs).op = "open" /\ jobs' = Tail(jobs)
          /\ events' = Append(events, Event("state", "Connecting"))
          /\ session' = "fresh" /\ worker'.at = "connect" /\ awaiting' = awaiting /\ ~awaiting
      BY <1>1, <1>i DEF WorkerOpen, Takes
    <2>2. /\ ~Has(jobs', Trust) /\ (Has(jobs', Close) => Has(jobs, Close))
          /\ Once(jobs', Trust) /\ Then(jobs', Close, Rest)
      BY <1>0, <1>s, <2>1, TrustTaken
    <2>3. object = "alive" => AskedOk'
      BY <1>a, <2>1, <2>2 DEF States
    <2> QED BY <1>p, <1>s, <2>1, <2>2, <2>3 DEF TrustOk
  <1>2. CASE ConnectAborted
    <2>1. worker'.at = "idle" /\ UNCHANGED <<events, jobs, session, key, awaiting>>
      BY <1>2, <1>i DEF ConnectAborted, libssh
    <2>2. ~Dialling(worker')
      BY <2>1 DEF Dialling
    <2>3. object = "alive" => AskedOk'
      BY <1>p, <1>s, <2>1 DEF AskedOk
    <2> QED BY <1>p, <2>1, <2>2, <2>3 DEF TrustOk
  <1>3. CASE ConnectFails
    <2>1. /\ Dialling(worker) /\ worker'.at = "idle" /\ session' = "null"
          /\ events' = Append(events, Event("state", "Failed"))
          /\ UNCHANGED <<jobs, awaiting>>
      BY <1>3, <1>i DEF ConnectFails, FailSession, FreeSession, Dialling
    <2>2. ~awaiting
      BY <1>s, <2>1
    <2>3. object = "alive" => AskedOk'
      BY <1>a, <2>1, <2>2 DEF States
    <2> QED BY <1>p, <1>s, <2>1, <2>2, <2>3 DEF TrustOk
  <1>4. ASSUME NEW k \in Keys, Connected(k)
        PROVE  TrustOk'
    <2>1. /\ Dialling(worker) /\ worker.at = "connect" /\ key' = k /\ UNCHANGED <<jobs, session>>
      BY <1>4 DEF Connected, Dialling
    <2>2. ~awaiting /\ ~Has(jobs, Trust) /\ session # "authed"
      BY <1>s, <2>1 DEF TrustOk
    <2>3. CASE VerifyPinned(k)
      <3>1. /\ events' = Append(events, Event("state", "Authenticating"))
            /\ worker'.at = "auth" /\ awaiting' = awaiting
        BY <1>4, <1>i, <2>3 DEF Connected
      <3>2. object = "alive" => AskedOk'
        BY <1>a, <2>1, <2>2, <3>1 DEF States
      <3>3. key' \in Trusted(accepted')
        BY <2>1, <2>3 DEF VerifyPinned, Trusted
      <3> QED BY <1>p, <1>s, <2>1, <2>2, <3>1, <3>2, <3>3 DEF TrustOk
    <2>4. CASE ~VerifyPinned(k)
      <3>1. /\ events' = events \o <<Event("state", "NeedsHostKeyTrust"), Event("prompt", k)>>
            /\ worker'.at = "idle" /\ awaiting'
        BY <1>4, <1>i, <2>4 DEF Connected
      <3>2. ASSUME object = "alive"
            PROVE  AskedOk'
        <4>1. ~Has(events, Prompts) /\ ~host.awaiting
          BY <1>s, <2>2, <3>2 DEF AskedOk
        <4>2. Once(events', Prompts) /\ Has(events', {Event("prompt", k)})
          BY <1>0, <3>1, <4>1, PromptAdded
        <4> QED BY <1>p, <2>1, <2>2, <3>1, <4>1, <4>2 DEF AskedOk
      <3>3. ~Dialling(worker')
        BY <3>1 DEF Dialling
      <3> QED BY <1>p, <1>s, <2>1, <2>2, <3>1, <3>2, <3>3 DEF TrustOk
    <2> QED BY <2>3, <2>4
  <1>5. CASE awaiting /\ ResumeUnguarded
    <2>1. /\ jobs # <<>> /\ Head(jobs).op = "trust" /\ jobs' = Tail(jobs)
          /\ events' = Append(events, Event("state", "Authenticating"))
          /\ worker'.at = "auth" /\ ~awaiting' /\ UNCHANGED <<session, key>>
      BY <1>5, <1>i DEF ResumeUnguarded, Takes
    <2>2. /\ ~Has(jobs', Trust) /\ (Has(jobs', Close) => Has(jobs, Close))
          /\ Once(jobs', Trust) /\ Then(jobs', Close, Rest) /\ Has(jobs, Trust)
      BY <1>0, <1>s, <2>1, TrustTaken
    <2>3. key \in accepted
      BY <1>s, <2>2
    <2>4. ASSUME object = "alive"
          PROVE  AskedOk'
      <3>1. ~Has(events, Prompts) /\ ~host.awaiting /\ Once(events, Prompts)
        BY <1>s, <2>2, <2>4 DEF AskedOk
      <3>2. ~Has(events', Prompts) /\ Once(events', Prompts)
        BY <1>0, <2>1, <3>1, StateAdded DEF States
      <3> QED BY <1>p, <2>2, <3>1, <3>2 DEF AskedOk
    <2> QED BY <1>p, <1>s, <2>1, <2>2, <2>3, <2>4 DEF TrustOk, Trusted
  <1>6. CASE ResumeNoop
    <2>1. /\ jobs # <<>> /\ Head(jobs).op = "trust" /\ ~awaiting
      BY <1>6 DEF ResumeNoop, Takes
    <2>2. Has(jobs, Trust)
      BY <1>0, <1>s, <2>1, TrustTaken
    <2> QED BY <1>s, <2>1, <2>2
  <1>7. CASE Authenticated
    <2>1. /\ worker.at = "auth" /\ worker'.at = "idle"
          /\ events' = Append(events, Event("state", "Connected"))
          /\ UNCHANGED <<jobs, key, awaiting>>
      BY <1>7, <1>i DEF Authenticated
    <2>2. ~Dialling(worker') /\ key \in Trusted(accepted)
      BY <2>1 DEF TrustOk, Dialling
    <2>3. object = "alive" => AskedOk'
      BY <1>a, <2>1 DEF States
    <2> QED BY <1>p, <1>s, <2>1, <2>2, <2>3 DEF TrustOk
  <1>8. CASE WorkerClose
    <2>1. /\ jobs # <<>> /\ Head(jobs).op = "close" /\ jobs' = Tail(jobs) /\ worker = Idle
          /\ worker' = worker /\ ~awaiting' /\ session' = "null"
      BY <1>8 DEF WorkerClose, Takes, FreeSession
    <2>2. /\ ~Has(jobs', Trust) /\ Once(jobs', Trust) /\ Then(jobs', Close, Rest)
          /\ Has(jobs, Close)
      BY <1>0, <1>s, <2>1, TrustTaken
    <2>3. object' # "alive"
      BY <1>p, <1>s, <2>2
    <2> QED BY <1>i, <1>p, <1>s, <2>1, <2>2, <2>3 DEF TrustOk
  <1>9. CASE WorkerExits
    <2>1. /\ jobs' = <<>> /\ quit /\ worker'.at = "exited" /\ session' = "null"
          /\ awaiting' = awaiting
      BY <1>9, <1>i DEF WorkerExits, FreeSession
    <2>2. ~Has(jobs', Trust) /\ Once(jobs', Trust) /\ Then(jobs', Close, Rest)
      BY <2>1, EmptyQueue
    <2>3. object' # "alive" /\ ~Dialling(worker')
      BY <1>p, <1>s, <2>1 DEF Dialling
    <2> QED BY <1>p, <1>s, <2>1, <2>2, <2>3 DEF TrustOk
  <1> QED BY <1>1, <1>2, <1>3, <1>4, <1>5, <1>6, <1>7, <1>8, <1>9
          DEF WorkerSession, ResumeAfterHostKeyTrust

LEMMA TrustAlways == Spec => []TrustInv
  <1>1. Init => TrustInv
    <2>1. ASSUME Init
          PROVE  TrustOk
      <3>1. /\ ui = InLoop /\ object = "alive" /\ host = NoPrompt /\ quit = FALSE
            /\ events = <<>> /\ jobs = <<>> /\ worker = Idle /\ session = "null" /\ ~awaiting
        BY <2>1 DEF Init, SessionInit
      <3>2. Idle.at = "idle" /\ InLoop.dtor = FALSE /\ NoPrompt.awaiting = FALSE
        BY DEF Idle, Doing, InLoop, NoPrompt
      <3>3. AskedOk
        BY <3>1, <3>2, EmptyQueue DEF AskedOk
      <3> QED BY <3>1, <3>2, <3>3, EmptyQueue DEF TrustOk, Dialling
    <2> QED BY <2>1 DEF TrustInv
  <1>2. IndInv /\ TrustInv /\ [Next]_vars => TrustInv'
    <2> SUFFICES ASSUME Types, TrustInv, [Next]_vars
                 PROVE  TrustInv'
      BY DEF IndInv
    <2>1. CASE UNCHANGED vars
      BY <2>1 DEF vars, sessionVars, tunnelVars, uiVars, libssh, TrustInv, TrustOk, AskedOk
    <2>2. CASE SessionUi
      BY <2>2, SessionUiTrust
    <2>3. CASE WorkerSession
      BY <2>3, WorkerSessionTrust
    <2>4. CASE TunnelUi \/ TunnelWork \/ PumpWork
      BY <2>4, QuietTrust
    <2> QED BY <2>1, <2>2, <2>3, <2>4, NextIs
  <1> QED BY <1>1, <1>2, Always, PTL DEF Spec

-----------------------------------------------------------------------------
(* The theorems.                                                           *)

\* Every queue, object and thread of the SSH session holds what its code can handle, for
\* any number of tunnels, keys and reconfigurations.
THEOREM SshTyped == Spec => []TypeOK
  <1>1. IndInv => TypeOK
    <2> SUFFICES ASSUME Types
                 PROVE  TypeOK
      BY DEF IndInv
    <2>1. /\ ui.at \in {"loop", "closing", "join", "wait"} /\ ui.dtor \in BOOLEAN
          /\ \A i \in DOMAIN ui.todo : ui.todo[i].t \in Tunnels
      <3>1. /\ ui.at \in {"loop", "closing", "join", "wait"} /\ ui.dtor \in BOOLEAN
            /\ ui.todo \in Seq(ClosingType)
        BY DEF Types, ThreadTypes
      <3>2. \A c \in ClosingType : c.t \in Tunnels
        BY DEF ClosingType
      <3>3. \A i \in DOMAIN ui.todo : ui.todo[i] \in ClosingType
        BY <3>1
      <3> QED BY <3>1, <3>2, <3>3
    <2>2. \A i \in DOMAIN jobs : /\ jobs[i].op \in {"open", "close", "trust", "channel"} \cup Calls
                                 /\ jobs[i].t \in Tunnels \cup {NoTunnel}
      <3>1. jobs \in Seq(JobType)
        BY DEF Types, ThreadTypes
      <3>2. \A i \in DOMAIN jobs : jobs[i] \in JobType
        BY <3>1
      <3>3. \A j \in JobType : /\ j.op \in {"open", "close", "trust", "channel"} \cup Calls
                               /\ j.t \in Tunnels \cup {NoTunnel}
        BY DEF JobType
      <3> QED BY <3>2, <3>3
    <2>3. worker \in [at : {"idle", "connect", "auth", "channel", "posting", "exited"},
                      t : Tunnels \cup {NoTunnel}]
      BY DEF Types, ThreadTypes, WorkerType
    <2>4. /\ channel \in [Tunnels -> ChannelStates]
          /\ tunnel \in [Tunnels ->
               [obj : {"new", "alive", "gone"}, pending : BOOLEAN, abandoned : BOOLEAN,
                opened : BOOLEAN, fd : {"none", "open", "closed"},
                signals : Seq({"opened", "failed", "closed"})]]
          /\ pump \in [Tunnels -> [at : {"none", "top", "deliver", "exit", "done"} \cup Calls,
                                   stop : BOOLEAN]]
      BY DEF Types, TunnelTypes, TunnelType, PumpType
    <2>5. /\ profile \in Profiles
          /\ object \in {"alive", "disabled", "gone"} /\ state \in States
          /\ host \in [awaiting : BOOLEAN, key : Keys \cup {NoKey}] /\ accepted \subseteq Keys
          /\ session \in {"null", "fresh", "authed"} /\ key \in Keys \cup {NoKey}
          /\ awaiting \in BOOLEAN /\ pendingKey \in Keys \cup {NoKey} /\ overtaken \in BOOLEAN
      BY DEF Types, SessionTypes
    <2> QED BY <2>1, <2>2, <2>3, <2>4, <2>5 DEF TypeOK, ChannelStates
  <1> QED BY <1>1, Always, PTL

\* A tunnel reports one of opened() and failed(), then closed() at most once and only after
\* opened(), whatever open(), close(), the worker, the pump, the deleteLater() of the opener
\* and the destructor of the session do to it, in every order and in every surroundings.
THEOREM TunnelsReportOnce == Spec => []OneOutcome
  <1>1. IndInv => OneOutcome
    BY DEF IndInv, TunnelInv, TunnelOk, TunnelFits, RecordOk, OneOutcome
  <1> QED BY <1>1, Always, PTL

\* An open channel is on its way to its tunnel, in the hands of its pump, or on its way back
\* to the worker, also when its tunnel has been deleted; the one that is left without an
\* owner is "lost": its result came to a deleted tunnel (onChannelOpened, openChannel).
THEOREM NoChannelLost == Spec => []NoOrphanChannel
  <1>1. IndInv => NoOrphanChannel
    <2> SUFFICES ASSUME TunnelInv, Settled, NEW t \in Tunnels,
                        channel[t] = "live"
                 PROVE  pump[t].at # "none"
      BY DEF IndInv, NoOrphanChannel
    <2>1. ChannelOk(channel[t], tunnel[t], pump[t], jobs, worker, events, t)
      BY DEF TunnelInv, TunnelOk, TunnelFits
    <2>2. worker.at = "idle" /\ \A A : ~Has(jobs, A) /\ ~Has(events, A)
      BY EmptyQueue DEF Settled, Idle, Doing
    <2> QED BY <2>1, <2>2 DEF ChannelOk, Calls
  <1> QED BY <1>1, Always, PTL

\* A session authenticates only with a host key that was pinned or that the user was shown
\* and accepted, also when setConfig() starts a new attempt at any time, until one of them
\* begins under a prompt nobody has answered: from then on resumeAfterHostKeyTrust() may
\* take an accept of the old prompt for the new attempt (m_awaitingHostKeyTrust stays set).
THEOREM OnlyTrustedKeys == Spec => []TrustedKeyOnly
  <1>1. TrustInv => TrustedKeyOnly
    BY DEF TrustInv, TrustOk, Trusted, TrustedKeyOnly
  <1> QED BY <1>1, TrustAlways, PTL

\* No thread enters libssh with a channel or a session that is null or freed, as long as the
\* session is switched off only while it carries no tunnel: the pumps are joined before the
\* worker frees the session, and each channel is freed once (closeInternal, ~SshSession).
THEOREM NothingDeadUsed == Spec => [](Calm => NoDeadUse)
  <1>1. IndInv => (Calm => NoDeadUse)
    BY DEF IndInv, CalmInv, CalmOk, NoDeadUse
  <1> QED BY <1>1, Always, PTL
=============================================================================
