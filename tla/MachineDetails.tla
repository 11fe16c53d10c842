--------------------------- MODULE MachineDetails ---------------------------
(***************************************************************************)
(* MachineDetailsController (app/src/machinedetailscontroller.cpp) and the *)
(* windows that own one: reads and changes of the device, the gate that    *)
(* holds reads back while the SSH tunnel connects, the certificate prompt  *)
(* with its resumption, and user consent in front of a redirection         *)
(* session.                                                                *)
(*                                                                         *)
(* A request (an operation of WsmanOperations) is two steps: the device    *)
(* serves it, then its callback runs; one that fails may or may not have   *)
(* been served (of a read that makes no difference).  A call without a     *)
(* host, or refused by a check of its arguments, sets m_lastError and      *)
(* nothing else; m_lastError is left out.                                  *)
(***************************************************************************)
EXTENDS DetailsCatalogue, OptInConsent, FiniteSets, SequencesExt

CONSTANT
    Menus      \* what the user may do, one menu per behaviour

MenuType ==
    [asks : Nat,                     \* bound on the user's reads, changes, connects and codes
     reads : SUBSET DOMAIN Reads, changes : SUBSET DOMAIN Changes, tabs : SUBSET Tabs,
     up : BOOLEAN,                   \* a tunnel is connected from the start
     ssh : Nat,                      \* how often one may be configured
     off : BOOLEAN,                  \* and switched off again
     pinned : BOOLEAN,               \* the certificate is trusted already
     raw : {"none", "kvm", "all"},   \* the device's OptInRequired
     round : {NotStarted, Displayed}]  \* and OptInState: another console's code is up

ASSUME DetailsAssumption == Menus \subseteq MenuType

VARIABLES
    menu,
    app,       \* the controller, see AppType
    consent,   \* the opt-in round and the window driving it
    trust,     \* [pinned, awaiting, trigger]: m_awaitingTrust; what raised the prompt
    late,      \* the state of a session switched off that may still report, or "none"
    opened,    \* the panels that were started
    fw,        \* the firmware's OptInState
    granted,   \* history: the target's user has consented at least once
    behind,    \* history: sections written on the device since they were read
    excuse,    \* history: sections that the code may leave so, see LatestShown
    asks, opens

vars == <<menu, app, consent, trust, late, opened, fw, granted, behind, excuse, asks, opens>>

Ops == {"fetch", "status", "startOptIn", "sendOptInCode", "cancelOptIn"} \cup ChangeOps

Request ==
    [op : Ops, section : Sections, step : Nat,
     got : BOOLEAN,     \* served
     old : BOOLEAN,     \* a read whose section was written since
     seen : NotStarted..InSession,   \* the OptInState that was read
     heard : BOOLEAN,   \* the callback is connected before the reply finishes
     direct : BOOLEAN]  \* sent while requests were not serialised

AppType ==
    [ssh : {"off", "opening", "prompt", "auth", "connected", "failed"},
     connecting : BOOLEAN,          \* m_sshConnecting
     pending : SUBSET Bits,         \* m_pendingRefreshes
     resume : DOMAIN Reads \cup {"none"},   \* m_pendingTrustResume
     statusBusy : BOOLEAN,          \* m_optInStatusInFlight
     calls : Seq(Request)]          \* m_inflight counts these

Init ==
    /\ menu \in Menus
    /\ app = [ssh |-> IF menu.up THEN "connected" ELSE "off", connecting |-> FALSE,
              pending |-> {}, resume |-> "none", statusBusy |-> FALSE, calls |-> <<>>]
    /\ consent = ConsentInit
    /\ trust = [pinned |-> menu.pinned, awaiting |-> FALSE, trigger |-> "none"]
    /\ late = "none" /\ opened = {}
    /\ fw = menu.round
    /\ granted = FALSE /\ behind = {} /\ excuse = {} /\ asks = 0 /\ opens = 0

-----------------------------------------------------------------------------
(***************************************************************************)
(* Sending.                                                                *)
(***************************************************************************)
Live(a) == {i \in DOMAIN a.calls : a.calls[i].heard}

\* sendEnvelope(): with a tunnel that is not up the reply fails before its caller can
\* listen (run wsman_unheard), unless it is queued behind another.
NewRequest(a, op, section, step) ==
    [op |-> op, section |-> section, step |-> step, got |-> FALSE, old |-> FALSE,
     seen |-> 0, direct |-> a.ssh = "off",
     heard |-> a.ssh \in {"off", "connected"} \/ Live(a) # {}]

Send(a, op, section, step) ==
    [a EXCEPT !.calls = Append(@, NewRequest(a, op, section, step))]

\* Requests made one after the other: all of them are heard, or none is.
SendAll(a, ops) ==
    [a EXCEPT !.calls = @ \o [i \in 1..Len(ops) |-> NewRequest(a, ops[i], "optIn", 1)]]
FetchAll(a, sections) ==
    [a EXCEPT !.calls =
        @ \o [i \in 1..Len(sections) |-> NewRequest(a, "fetch", sections[i], 1)]]

(***************************************************************************)
(* A read.  deferIfSshConnecting() comes before everything; the refresh    *)
(* that it ends with replaces the resumption it has just left.             *)
(***************************************************************************)
Defer(a, bit) == [a EXCEPT !.pending = @ \cup {bit}]

\* Mutant: the poll does not wait for the read before it.
StacksReads(a) ==
    IF a.connecting THEN Defer(a, refreshOptInStatus.bit)
    ELSE Send([a EXCEPT !.statusBusy = TRUE, !.resume = "refreshOptInStatus"],
              "status", "optIn", 1)

StatusRefresh(a) ==
    IF a.connecting THEN Defer(a, refreshOptInStatus.bit)
    ELSE IF a.statusBusy THEN a
    ELSE Send([a EXCEPT !.statusBusy = TRUE, !.resume = "refreshOptInStatus"],
              "status", "optIn", 1)

PlainRefresh(a, r) ==
    IF a.connecting THEN Defer(a, Reads[r].bit)
    ELSE FetchAll([a EXCEPT !.resume = r], Reads[r].sections)

Refresh(a, r) ==
    IF r = "none" THEN a
    ELSE IF r = "refreshOptInStatus" THEN StatusRefresh(a)
    ELSE LET b == PlainRefresh(a, r)
             also == Reads[r].also
         IN  IF also = "none" THEN b
             ELSE IF also = "refreshOptInStatus" THEN StatusRefresh(b)
             ELSE PlainRefresh(b, also)

\* runPendingRefreshes()
RunPending(a) ==
    LET ran[k \in 0..Len(PendingOrder)] ==
          IF k = 0 THEN [a EXCEPT !.pending = {}]
          ELSE IF Reads[PendingOrder[k]].bit \in a.pending
               THEN Refresh(ran[k - 1], PendingOrder[k])
               ELSE ran[k - 1]
    IN  ran[Len(PendingOrder)]

\* The bits are taken, the requests of a consent step are sent, the panels started.
Apply(x, a) ==
    /\ consent' = x.c
    /\ app' = SendAll(a, x.send)
    /\ opened' = opened \cup x.dial

Ask == asks < menu.asks /\ asks' = asks + 1

\* The user opens a section, or asks for it again.
AskRead(r) ==
    /\ r \in menu.reads /\ Ask
    /\ app' = Refresh(app, r)
    /\ UNCHANGED <<menu, consent, trust, late, opened, fw, granted, behind, excuse, opens>>

\* The user changes something; two of the changes are held back like a read, and what
\* the tunnel replays is the read.
AskChange(w) ==
    /\ w \in menu.changes /\ Ask
    /\ app' = IF Changes[w].gate # "none" /\ app.connecting THEN Defer(app, Changes[w].gate)
              ELSE Send(app, w, Changes[w].section, 1)
    /\ UNCHANGED <<menu, consent, trust, late, opened, fw, granted, behind, excuse, opens>>

-----------------------------------------------------------------------------
(***************************************************************************)
(* The device serves a request.                                            *)
(***************************************************************************)
\* Serialised requests are on the wire one at a time.
OnWire(i) ==
    /\ i \in Live(app)
    /\ \/ app.ssh = "off" \/ app.calls[i].direct
       \/ \A j \in Live(app) : j < i => app.calls[j].direct

StepKind(call) ==
    IF call.op \in ChangeOps THEN Changes[call.op].steps[call.step] ELSE call.op

OnlyReads(call) == StepKind(call) \in {"fetch", "show", "status"}

\* Of a status read, the second request holds the KVM settings that the changes write.
Shows(call) == OnlyReads(call) /\ (call.op = "status" => call.step # 1)

\* A write of this change was served.
Performed(call) ==
    /\ call.op \in ChangeOps
    /\ \E k \in 1..call.step : /\ Changes[call.op].steps[k] = "write"
                               /\ k < call.step \/ call.got

\* What a consent request does to the firmware's round; a request it refuses is one that
\* fails without having been served.
FirmwareTakes(op) ==
    \/ op = "startOptIn" /\ fw # Displayed /\ fw' \in {Requested, Displayed}
    \/ op = "sendOptInCode" /\ fw = Displayed /\ fw' = Received
    \/ op = "cancelOptIn" /\ fw' = NotStarted
    \/ op \notin {"startOptIn", "sendOptInCode", "cancelOptIn"} /\ fw' = fw

Serve(i) ==
    LET call == app.calls[i]
        writes == StepKind(call) = "write"
        answered(c) == Shows(c) /\ c.got /\ c.section = call.section
        overlaps == \E j \in DOMAIN app.calls : answered(app.calls[j])
        one == {call.section}
    IN  /\ OnWire(i) /\ ~call.got /\ trust.pinned
        /\ app.ssh \in {"off", "connected"} \/ call.direct
        /\ FirmwareTakes(call.op)
        /\ app' = [app EXCEPT !.calls = [j \in DOMAIN @ |->
                      IF j = i THEN [call EXCEPT !.got = TRUE,
                                        !.seen = IF call.op # "status" THEN 0
                                                 ELSE IF call.step = 1 THEN fw ELSE call.seen]
                      ELSE IF writes /\ answered(@[j]) THEN [@[j] EXCEPT !.old = TRUE]
                      ELSE @[j]]]
        /\ behind' = IF writes THEN behind \cup one ELSE behind
        /\ excuse' = IF ~writes THEN excuse
                     ELSE IF overlaps \/ call.op = "generateKeyPairAndCsr" THEN excuse \cup one
                     ELSE excuse \ one
        /\ granted' = (granted \/ fw' = Received)
        /\ UNCHANGED <<menu, consent, trust, late, opened, asks, opens>>

(***************************************************************************)
(* Its callback runs.                                                      *)
(***************************************************************************)
Without(a, i) == [a EXCEPT !.calls = RemoveAt(@, i)]
Again(a, call) ==
    LET b == Send(a, call.op, call.section, call.step + 1)
    IN  [b EXCEPT !.calls[Len(b.calls)].seen = call.seen]

\* A change whose last request is answered, or one of whose requests failed.
Rereads(change, last, ok) ==
    \/ change.reread = "always"
    \/ change.reread = "last" /\ last
    \/ change.reread = "success" /\ last /\ ok

ChangeReply(call, a, ok) ==
    LET change == Changes[call.op]
        last == call.step = Len(change.steps)
        x == IF call.op = "setKvmOptInPolicyEnabled" /\ ok THEN driveConsent(Quiet(consent))
             ELSE Quiet(consent)
    IN  IF ok /\ ~last THEN Apply(Quiet(consent), Again(a, call))
        ELSE /\ consent' = x.c
             /\ opened' = opened \cup x.dial
             /\ app' = LET b == SendAll(a, x.send)
                       IN  IF Rereads(change, last, ok) THEN Refresh(b, change.read) ELSE b

\* Mutant: a status that cannot be read is asked for again at once.
RetriesAtOnce(call, a, ok) ==
    IF call.step = 1 /\ ok THEN Apply(Quiet(consent), Again(a, call))
    ELSE Apply(Quiet(consent), StatusRefresh([a EXCEPT !.statusBusy = FALSE]))

\* The second of the two requests of getOptInStatus may fail without harm.
StatusReply(call, a, ok) ==
    LET b == [a EXCEPT !.statusBusy = FALSE]
    IN  \/ call.step = 1 /\ ok /\ Apply(Quiet(consent), Again(a, call))
        \/ call.step = 1 /\ ~ok /\ Apply(StatusUnreadable(consent), b)
        \/ call.step # 1 /\ Apply(StatusRead(consent, menu.raw, call.seen), b)

Reply(call, a, ok) ==
    \/ call.op = "status" /\ StatusReply(call, a, ok)
    \/ call.op = "startOptIn" /\ Apply(StartReply(consent, ok), a)
    \/ call.op = "sendOptInCode" /\ Apply(SendReply(consent, ok), a)
    \/ call.op = "cancelOptIn" /\ Apply(CancelReply(consent), a)
    \/ call.op \in ChangeOps /\ ChangeReply(call, a, ok)
    \/ call.op = "fetch" /\ Apply(Quiet(consent), a)

\* What the section shows after the reply, and whether the code will leave it behind the
\* device: a read that failed, or a change performed and yet failed with nothing after it.
Account(call, ok) ==
    LET one == {call.section}
        change == Changes[call.op]
        unread == OnlyReads(call) /\ ~ok
        left == /\ Performed(call) /\ ~ok
                /\ ~Rereads(change, call.step = Len(change.steps), ok)
    IN  /\ behind' = IF ~(Shows(call) /\ ok) THEN behind
                     ELSE IF call.old THEN behind \cup one
                     ELSE behind \ one
        /\ excuse' = IF unread \/ left THEN excuse \cup one ELSE excuse

\* A certificate that is not pinned fails the handshake and raises the prompt, before
\* the callback of the request runs.
Deliver(i, ok) ==
    LET call == app.calls[i]
        a == Without(app, i)
    IN  /\ OnWire(i) /\ (ok => call.got) /\ (OnlyReads(call) => ok = call.got)
        /\ trust' = IF trust.pinned \/ trust.awaiting THEN trust
                    ELSE [trust EXCEPT !.awaiting = TRUE, !.trigger = call.section]
        /\ Reply(call, a, ok)
        /\ Account(call, ok)
        /\ UNCHANGED <<menu, late, fw, granted, asks, opens>>

\* Each request ends, by its timeout if by nothing else; the oldest first in line.
DeliverOldest ==
    /\ Live(app) # {}
    /\ \E ok \in BOOLEAN : Deliver(Min(Live(app)), ok)

(***************************************************************************)
(* The certificate prompt.                                                 *)
(***************************************************************************)
TrustPendingCert ==
    LET r == IF app.resume = "none" THEN "refreshOverview" ELSE app.resume
    IN  /\ trust.awaiting
        /\ trust' = [trust EXCEPT !.pinned = TRUE, !.awaiting = FALSE]
        /\ app' = Refresh([app EXCEPT !.resume = "none"], r)
        /\ UNCHANGED <<menu, consent, late, opened, fw, granted, behind, excuse, asks, opens>>

\* close(), from the prompt's reject button.
Close ==
    /\ trust.awaiting
    /\ trust' = [trust EXCEPT !.awaiting = FALSE, !.trigger = "none"]
    /\ app' = [app EXCEPT !.resume = "none"]
    /\ UNCHANGED <<menu, consent, late, opened, fw, granted, behind, excuse, asks, opens>>

(***************************************************************************)
(* The tunnel, as the controller sees it (module SshTunnel has the rest).  *)
(***************************************************************************)
SshUnchanged == <<menu, consent, trust, opened, fw, granted, behind, asks>>

\* setSshConfig(enabled); a session that is connecting is left alone here.
SshOn ==
    /\ opens < menu.ssh
    /\ app.ssh \in {"off", "failed", "connected"}
    /\ opens' = opens + 1
    /\ app' = [app EXCEPT !.ssh = "opening", !.connecting = TRUE]
    /\ UNCHANGED <<SshUnchanged, late, excuse>>

\* setSshConfig(disabled): the prompt withdrawn; m_sshConnecting is not touched.
SshOff ==
    /\ menu.off /\ app.ssh # "off"
    /\ late' = app.ssh
    /\ app' = [app EXCEPT !.ssh = "off"]
    /\ UNCHANGED <<SshUnchanged, excuse, opens>>

SshPrompt ==
    /\ app.ssh = "opening"
    /\ app' = [app EXCEPT !.ssh = "prompt"]
    /\ UNCHANGED <<SshUnchanged, late, excuse, opens>>

TrustPendingSshHostKey ==
    /\ app.ssh = "prompt"
    /\ app' = [app EXCEPT !.ssh = "auth"]
    /\ UNCHANGED <<SshUnchanged, late, excuse, opens>>

\* Mutant: the session that failed leaves the gate shut.
LeavesGateShut(a) == a

Connected(a) == RunPending([a EXCEPT !.connecting = FALSE])
Dropped(a) == [a EXCEPT !.connecting = FALSE, !.pending = {}]

SshConnected ==
    /\ app.ssh \in {"opening", "auth"}
    /\ app' = Connected([app EXCEPT !.ssh = "connected"])
    /\ UNCHANGED <<SshUnchanged, late, excuse, opens>>

\* The sections whose reads are dropped with the tunnel.
DroppedSections ==
    {s \in Sections : \E r \in DOMAIN Reads : /\ Reads[r].bit \in app.pending
                                              /\ s \in Range(Reads[r].sections)}

SshFailed ==
    /\ app.ssh \in {"opening", "auth"}
    /\ app' = Dropped([app EXCEPT !.ssh = "failed"])
    /\ excuse' = excuse \cup DroppedSections
    /\ UNCHANGED <<SshUnchanged, late, opens>>

\* A session that was switched off still reports that it connected or has closed, or is
\* deleted before it does.  (A late Failed would dereference the session that is gone.)
SshLate ==
    /\ late # "none" /\ late' = "none"
    /\ \/ late \in {"opening", "auth"} /\ app' = Connected(app) /\ excuse' = excuse
       \/ app' = Dropped(app) /\ excuse' = excuse \cup DroppedSections
       \/ UNCHANGED <<app, excuse>>
    /\ UNCHANGED <<SshUnchanged, opens>>

(***************************************************************************)
(* User consent.                                                           *)
(***************************************************************************)
\* requestConnect(): with the status unknown it is read and the tab waits.
Connect(tab) ==
    /\ tab \in menu.tabs /\ Ask
    /\ Apply(RequestConnect(consent, tab),
             IF consent.known THEN app ELSE StatusRefresh(app))
    /\ UNCHANGED <<menu, trust, late, fw, granted, behind, excuse, opens>>

\* The user types a code into the prompt, right or wrong.
SubmitCode ==
    /\ consent.prompt /\ Ask
    /\ app' = Send(app, "sendOptInCode", "optIn", 1)
    /\ UNCHANGED <<menu, consent, trust, late, opened, fw, granted, behind, excuse, opens>>

\* Cancel or the countdown; Escape closes the prompt and says nothing to anyone.
EndPrompt ==
    /\ consent.prompt
    /\ \/ Apply(CancelPrompt(consent), app)
       \/ Apply(Quiet([consent EXCEPT !.prompt = FALSE]), app)
    /\ UNCHANGED <<menu, trust, late, fw, granted, behind, excuse, asks, opens>>

\* The 500 ms timer.
PollTick ==
    /\ consent.polling
    /\ app' = StatusRefresh(app) /\ app' # app
    /\ UNCHANGED <<menu, consent, trust, late, opened, fw, granted, behind, excuse, asks, opens>>

\* The firmware by itself: the code comes up, the user at the target denies, lets it expire
\* or approves; a session that was started takes the consent and ends.
Firmware ==
    /\ \/ fw = Requested /\ fw' = Displayed
       \/ fw = Displayed /\ fw' \in {NotStarted, Received}
       \/ fw = Received /\ opened # {} /\ fw' = InSession
       \/ fw = InSession /\ fw' = NotStarted
    /\ granted' = (granted \/ fw' = Received)
    /\ UNCHANGED <<menu, app, consent, trust, late, opened, behind, excuse, asks, opens>>

-----------------------------------------------------------------------------
Next ==
    \/ \E r \in menu.reads : AskRead(r)
    \/ \E w \in menu.changes : AskChange(w)
    \/ \E i \in DOMAIN app.calls : Serve(i) \/ \E ok \in BOOLEAN : Deliver(i, ok)
    \/ TrustPendingCert \/ Close
    \/ SshOn \/ SshOff \/ SshPrompt \/ TrustPendingSshHostKey
    \/ SshConnected \/ SshFailed \/ SshLate
    \/ \E tab \in menu.tabs : Connect(tab)
    \/ SubmitCode \/ EndPrompt \/ PollTick \/ Firmware

Spec == Init /\ [][Next]_vars

\* A request times out and a connection attempt does too: both end.
FairSpec ==
    /\ Spec
    /\ WF_vars(DeliverOldest)
    /\ WF_vars(SshConnected \/ SshFailed)

-----------------------------------------------------------------------------
\* No panel is started against a device known to want consent for its protocol before
\* the user at the target has given it; whether that is still so, or was said in an earlier
\* round, a reply that was on its way cannot tell.
ConsentFirst ==
    [][\A tab \in opened' \ opened :
          consent'.raw = "all" \/ (consent'.raw = "kvm" /\ tab = "kvm") => granted']_vars

\* m_optInStatusInFlight is set exactly while one status read is under way, however
\* polls, refreshes, replays and the window ask for it (#433).
OneStatusRead ==
    LET reads == {i \in DOMAIN app.calls : app.calls[i].op = "status"}
    IN  Cardinality(reads) = IF app.statusBusy THEN 1 ELSE 0

\* When everything has come back, each section shows what the device holds since it was
\* last written.  What the code leaves behind, and nothing else, is in excuse: a section
\*   whose read failed, or was dropped with the tunnel, since;
\*   written while a read of it, served already, was on its way back: that one may arrive
\*     after the read that follows the change, or, a status read, swallow it (:594);
\*   changed by a call that failed after the device had performed a write of it, its reply
\*     lost or a later request refused: most changes read again only on success;
\*   written by generateKeyPairAndCsr(), which never reads the certificates again.
LatestShown == app.calls = <<>> /\ app.pending = {} => behind \subseteq excuse

\* The busy indicator goes out, unless a request was never heard of (run wsman_unheard).
BusyEnds ==
    app.calls # <<>>
        ~> (app.calls = <<>> \/ \E i \in DOMAIN app.calls : ~app.calls[i].heard)

\* A read held back for the tunnel is run or dropped, unless the user leaves the host-key
\* prompt unanswered or switches the tunnel off, as Cancel does there: m_sshConnecting stays
\* set then, and what waits stays.
DeferredEnds == app.pending # {} ~> (app.pending = {} \/ app.ssh \in {"prompt", "off"})

\* "On accept, [...] the operation that triggered the prompt is retried": accepting the
\* certificate fetches the section whose request raised the prompt, at once or deferred.
TrustRetries ==
    [][TrustPendingCert =>
          \/ app'.pending # app.pending
          \/ \E i \in DOMAIN app'.calls : /\ i > Len(app.calls)
                                          /\ app'.calls[i].section = trust.trigger]_vars
=============================================================================
