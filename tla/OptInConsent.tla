---------------------------- MODULE OptInConsent ----------------------------
(***************************************************************************)
(* User consent: the opt-in round of MachineDetailsController              *)
(* (app/src/machinedetailscontroller.cpp) and the session window that      *)
(* drives it (app/qml/SessionWindow.qml, OptInPrompt.qml), as functions    *)
(* from one state to the next; MachineDetails applies them.                *)
(*                                                                         *)
(* The signals are direct calls, so a slot of the window runs inside the   *)
(* controller's callback.  Each function therefore maps an x: the state c, *)
(* the requests `send` it makes and the tabs `dial` whose panel it starts. *)
(***************************************************************************)
EXTENDS Naturals, Sequences

\* OptInState as the firmware reports it.
NotStarted == 0
Requested  == 1
Displayed  == 2
Received   == 3
InSession  == 4

kMaxOptInFailures == 3

Tabs == {"sol", "kvm", "ider"}
NoTab == "none"

ConsentState ==
    [known : BOOLEAN,               \* m_optInStatusKnown
     state : NotStarted..InSession, \* m_optInState
     raw : {"none", "kvm", "all"},  \* m_optInRequiredRaw
     polling : BOOLEAN,             \* m_optInPolling
     round : BOOLEAN,               \* m_optInRoundActive
     failures : Nat,                \* m_optInFailures
     tab : Tabs \cup {NoTab},       \* pendingConnectTab
     prompt : BOOLEAN]              \* optInPrompt.opened

ConsentInit ==
    [known |-> FALSE, state |-> NotStarted, raw |-> "none", polling |-> FALSE,
     round |-> FALSE, failures |-> 0, tab |-> NoTab, prompt |-> FALSE]

Quiet(c) == [c |-> c, send |-> <<>>, dial |-> {}]

-----------------------------------------------------------------------------
\* Mutant: the policy is not looked at per protocol, and "all" not at all.
AsksForKvmOnly(c, tab) == c.raw # "none" /\ tab = "kvm"

consentRequiredFor(c, tab) == c.raw = "all" \/ (c.raw = "kvm" /\ tab = "kvm")

consentSatisfiedFor(c, tab) ==
    ~consentRequiredFor(c, tab) \/ c.state \in {Received, InSession}

startOptIn(x) ==
    IF x.c.round \/ x.c.failures >= kMaxOptInFailures THEN x
    ELSE [x EXCEPT !.c.round = TRUE, !.send = Append(@, "startOptIn")]

cancelOptIn(x) ==
    [x EXCEPT !.c.polling = FALSE, !.c.round = FALSE, !.send = Append(@, "cancelOptIn")]

consentResolved(x) ==
    [x EXCEPT !.dial = @ \cup ({x.c.tab} \ {NoTab}), !.c.tab = NoTab]

\* A stale round still on screen is torn down before a fresh code is asked for.
driveConsent(x) ==
    IF x.c.tab = NoTab \/ ~x.c.known THEN x
    ELSE IF consentSatisfiedFor(x.c, x.c.tab) THEN consentResolved(x)
    ELSE IF x.c.prompt \/ x.c.round THEN x
    ELSE startOptIn(IF x.c.state = Displayed THEN cancelOptIn(x) ELSE x)

\* stopOptInPolling(), setOptInRoundActive(false) and the prompt closed by the signal.
EndRound(x) == [x EXCEPT !.c.polling = FALSE, !.c.round = FALSE, !.c.prompt = FALSE]

(***************************************************************************)
(* The callbacks.                                                          *)
(***************************************************************************)
\* getOptInStatus: optInStatusChanged() first, then the polling state machine.
StatusRead(c, raw, state) ==
    LET x == driveConsent(Quiet([c EXCEPT !.known = TRUE, !.raw = raw, !.state = state]))
    IN  IF ~x.c.polling THEN x
        ELSE IF state \in {Received, InSession} THEN consentResolved(EndRound(x))
        ELSE IF c.state >= Displayed /\ state <= Requested THEN EndRound(x)
        ELSE x

\* The first read failed: known, and no consent required.
StatusUnreadable(c) ==
    IF c.known THEN Quiet(c) ELSE driveConsent(Quiet([c EXCEPT !.known = TRUE]))

StartReply(c, ok) ==
    LET failures == c.failures + 1
    IN  Quiet(IF ok
              THEN [c EXCEPT !.failures = 0, !.prompt = TRUE, !.polling = TRUE]
              ELSE [c EXCEPT !.round = FALSE, !.failures = failures,
                             !.prompt = @ /\ failures < kMaxOptInFailures])

\* A rejected code opens the prompt again if it was closed meanwhile.
SendReply(c, ok) ==
    IF ~ok THEN Quiet([c EXCEPT !.prompt = TRUE])
    ELSE LET x == driveConsent(Quiet([c EXCEPT !.polling = FALSE, !.failures = 0,
                                               !.round = FALSE, !.state = Received]))
         IN  consentResolved([x EXCEPT !.c.prompt = FALSE])

CancelReply(c) == driveConsent(Quiet([c EXCEPT !.state = NotStarted]))

(***************************************************************************)
(* The window.                                                             *)
(***************************************************************************)
\* requestConnect(idx); an unknown status is read first (by the caller).
RequestConnect(c, tab) == driveConsent(Quiet([c EXCEPT !.tab = tab, !.failures = 0]))

\* Cancel, or the countdown at zero.
CancelPrompt(c) ==
    cancelOptIn(Quiet([c EXCEPT !.tab = NoTab, !.prompt = FALSE]))
=============================================================================
