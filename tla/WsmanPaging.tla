----------------------------- MODULE WsmanPaging -----------------------------
(***************************************************************************)
(* The three reads of wsman/src/operations.cpp that page through a list    *)
(* with an index of their own: enumerateEventLog (an iterator),            *)
(* enumerateAuditLog (an index computed from the entries kept so far) and  *)
(* enumerateUserAccounts (an index, and two more requests for every handle *)
(* on a page, joined by a counter).  They stand beside the operations of   *)
(* the catalogue: a behaviour is one call, of an operation of the          *)
(* catalogue or of one of these, whose replies come in any order.          *)
(*                                                                         *)
(* The device is external: it has a list of records, some of which its     *)
(* reader cannot decode, and serves PageSize of them at a time.            *)
(***************************************************************************)
EXTENDS WsmanOperations, Integers, FiniteSets

CONSTANTS
    MaxRecords,     \* bound: records on the device
    PageSize,       \* records of a full page (390, or 50 handles)
    MaxEntries      \* kMaxRecords: entries after which the event log stops

ASSUME PagingAssumption == PageSize \in Nat \ {0} /\ MaxRecords \in Nat /\ MaxEntries \in Nat

VARIABLES
    log,        \* the device's records: can the reader decode them?
    iterator,   \* the last IterationIdentifier of the event log: 0 or 1, never the same twice
    cut,        \* history: it gave none, though it has more records
    total,      \* TotalRecordCount as the device reports it; -1 when it does not
    ask,        \* what the loop waits for, and from which record on
    entries,    \* acc->items, acc->entries or the handles stubbed in byHandle
    details,    \* the outstanding requests for single handles
    pending,    \* acc->pendingPerHandle
    adminOut,   \* GetAdminAclEntry is outstanding
    adminDone, enumDone, error      \* flags of the shared structure

readVars == <<log, iterator, cut, total, ask, entries, details, pending, adminOut, adminDone, enumDone, error>>
callVars == <<vars, readVars>>

\* What a paged read leaves alone: the device's list, and the state of the
\* operations of the catalogue.
list == <<log, total, world, called, client, at, line, done, err, got, applied>>
events == <<iterator, cut>>
accounts == <<details, pending, adminOut, adminDone, enumDone>>

Nothing == [what |-> "nothing", from |-> 0]
Position == [what |-> "position", from |-> 0]
Page(i) == [what |-> "page", from |-> i]
Bool(S) == UNION {[1..n -> BOOLEAN] : n \in S}

Readers == {"enumerateEventLog", "enumerateAuditLog", "enumerateUserAccounts"}

\* The paged reads have no entry in the catalogue.
NoPlan == [branches |-> <<>>, ok |-> {}, checked |-> FALSE]

ReadInit ==
    /\ op \in Readers /\ plan = NoPlan
    /\ serial \in BOOLEAN /\ client = "live" /\ called = TRUE
    /\ at = <<>> /\ line = <<>> /\ done = <<>> /\ err = <<>> /\ got = <<>> /\ applied = <<>>
    /\ calls = 0 /\ ok = FALSE
    /\ log \in Bool(0..MaxRecords)
    /\ op = "enumerateUserAccounts" => \A i \in DOMAIN log : log[i]
    /\ total \in IF op = "enumerateAuditLog" THEN {-1, Len(log), Len(log) + 1} ELSE {-1}
    /\ \/ /\ ask = IF op = "enumerateEventLog" THEN Position ELSE Page(1)
          /\ adminOut = (op = "enumerateUserAccounts") /\ missed = FALSE
       \/ ask = Nothing /\ adminOut = FALSE /\ serial /\ missed = TRUE
    /\ iterator = 0 /\ cut = FALSE
    /\ entries = <<>> /\ details = {} /\ pending = 0
    /\ adminDone = FALSE /\ enumDone = FALSE /\ error = FALSE

\* No paged read: the call is one of an operation of the catalogue.
NoRead ==
    /\ log = <<>> /\ total = -1 /\ ask = Nothing /\ adminOut = FALSE
    /\ iterator = 0 /\ cut = FALSE
    /\ entries = <<>> /\ details = {} /\ pending = 0
    /\ adminDone = FALSE /\ enumDone = FALSE /\ error = FALSE

\* The records of the page that starts at record i, in order.
OnPage(i) == [k \in 1..(IF i > Len(log) THEN 0
                        ELSE IF Len(log) - i + 1 < PageSize THEN Len(log) - i + 1
                        ELSE PageSize) |-> i + k - 1]

\* Records that cannot be decoded are skipped (parseAuditRecord, decodeEventRecord).
Decoded(page) == Among(page, {r \in DOMAIN log : log[r]})

Outstanding == ask # Nothing \/ details # {} \/ adminOut

Done(verdict) == CallBack(verdict) /\ ask' = Nothing /\ UNCHANGED missed

\* The request for the next page, the only one that is out: over a tunnel that is down
\* it ends unheard.
AskNext(page) ==
    /\ \/ ask' = page /\ UNCHANGED missed
       \/ serial /\ ask' = Nothing /\ missed' = TRUE
    /\ UNCHANGED <<calls, ok>>

(***************************************************************************)
(* enumerateEventLog.                                                      *)
(***************************************************************************)
\* A lost reply, a fault, a ReturnValue that is not 0, a position without iterator:
\* the entries read so far go with the error.
LoopFails ==
    /\ op \in {"enumerateEventLog", "enumerateAuditLog"} /\ ask # Nothing
    /\ Done(FALSE)
    /\ UNCHANGED <<list, events, entries, accounts, error>>

PositionToFirstRecord ==
    /\ ask = Position
    /\ AskNext(Page(1))
    /\ UNCHANGED <<list, events, entries, accounts, error>>

\* GetRecords: a page of records or an empty one, with NoMoreRecords (the device has no
\* more), with an IterationIdentifier, or with neither, which ends the read as well.
GetRecords(page, says) ==
    LET end == ask.from + Len(page)
        all == entries \o Decoded(page)
    IN  /\ op = "enumerateEventLog" /\ ask.what = "page"
        /\ says = "noMore" => end > Len(log)
        /\ IF Len(all) >= MaxEntries /\ Decoded(page) # <<>>
           THEN entries' = SubSeq(all, 1, MaxEntries) /\ Done(TRUE) /\ UNCHANGED events
           ELSE /\ entries' = all
                /\ IF says = "more" THEN AskNext(Page(end)) ELSE Done(TRUE)
                /\ iterator' = IF says = "more" THEN 1 - iterator ELSE iterator
                /\ cut' = (says = "neither" /\ end <= Len(log))
        /\ UNCHANGED <<list, accounts, error>>

RecordPage ==
    \E page \in {OnPage(ask.from), <<>>}, says \in {"noMore", "more", "neither"} :
        GetRecords(page, says)

(***************************************************************************)
(* enumerateAuditLog.                                                      *)
(***************************************************************************)
AuditMore(n, start) == total >= n /\ total > 0 /\ n < total /\ n + 1 > start

ReadRecords ==
    LET all == entries \o Decoded(OnPage(ask.from)) IN
    /\ op = "enumerateAuditLog" /\ ask.what = "page"
    /\ entries' = all
    /\ IF AuditMore(Len(all), ask.from)
       THEN AskNext(Page(Len(all) + 1))
       ELSE Done(TRUE)
    /\ UNCHANGED <<list, events, accounts, error>>

(***************************************************************************)
(* enumerateUserAccounts.                                                  *)
(***************************************************************************)
\* Mutant: the join without its counter.
MayFireUncounted(a, e, p) == a /\ e

MayFire(a, e, p) == a /\ e /\ p <= 0

FireAccounts ==
    IF calls = 0 /\ MayFire(adminDone', enumDone', pending')
    THEN CallBack(~error')
    ELSE UNCHANGED <<calls, ok>>

\* The reply to GetAdminAclEntry, whatever it brings: the entry is optional.
AdminReply ==
    /\ adminOut
    /\ adminOut' = FALSE /\ adminDone' = TRUE
    /\ UNCHANGED <<ask, entries, details, pending, enumDone, error>>
    /\ FireAccounts
    /\ UNCHANGED <<list, events, missed>>

\* Mutant: a full page is taken for the last.
LastPageWhenFull(n) == n <= PageSize

LastPage(n) == n < PageSize

\* Nothing else is out: over a tunnel that is down every request of the page, and the
\* one for the next page, ends unheard.
PageMissed(n) ==
    /\ serial /\ details = {} /\ ~adminOut /\ n > 0
    /\ ask' = Nothing /\ missed' = TRUE
    /\ UNCHANGED details

PageSent(page) ==
    /\ details' = details \cup ({page[k] : k \in DOMAIN page} \X {"entry", "state"})
    /\ ask' = IF LastPage(Len(page)) THEN Nothing ELSE Page(ask.from + Len(page))
    /\ UNCHANGED missed

\* A page of handles: two requests for each, then the next page or the end.
UserAclPage ==
    LET page == OnPage(ask.from) IN
    /\ op = "enumerateUserAccounts" /\ ask.what = "page"
    /\ entries' = entries \o page
    /\ PageSent(page) \/ PageMissed(Len(page))
    /\ pending' = pending + 2 * Len(page)
    /\ enumDone' = LastPage(Len(page))
    /\ UNCHANGED <<adminOut, adminDone, error>>
    /\ IF LastPage(Len(page)) THEN FireAccounts ELSE UNCHANGED <<calls, ok>>
    /\ UNCHANGED <<list, events>>

UserAclFails ==
    /\ op = "enumerateUserAccounts" /\ ask.what = "page"
    /\ ask' = Nothing /\ enumDone' = TRUE /\ error' = TRUE
    /\ UNCHANGED <<entries, details, pending, adminOut, adminDone>>
    /\ FireAccounts
    /\ UNCHANGED <<list, events, missed>>

\* A reply for one handle; a failed one leaves the stub as it is.
DetailReply(d) ==
    /\ d \in details
    /\ details' = details \ {d} /\ pending' = pending - 1
    /\ UNCHANGED <<ask, entries, adminOut, adminDone, enumDone, error>>
    /\ FireAccounts
    /\ UNCHANGED <<list, events, missed>>

ReadReply ==
    \/ LoopFails \/ PositionToFirstRecord \/ RecordPage
    \/ ReadRecords
    \/ AdminReply \/ UserAclPage \/ UserAclFails
    \/ \E d \in details : DetailReply(d)

\* The client is destroyed, with its replies: the handlers are disconnected.
ReaderDestroyed ==
    /\ op \in Readers /\ client = "live" /\ Outstanding
    /\ client' = "gone"
    /\ ask' = Nothing /\ details' = {} /\ adminOut' = FALSE
    /\ UNCHANGED <<world, called, at, line, done, err, got, applied, calls, ok, missed, events,
                   log, total, entries, pending, adminDone, enumDone, error>>

CallInit == (Init /\ NoRead) \/ ReadInit

CallNext ==
    \/ Next /\ UNCHANGED readVars
    \/ ReadReply
    \/ ReaderDestroyed

\* Every request that is heard is answered or times out: WsmanClient arms a timer for
\* each attempt.
CallSpec ==
    /\ CallInit /\ [][CallNext]_callVars
    /\ WF_callVars((Answer /\ UNCHANGED readVars) \/ ReadReply)

(***************************************************************************)
(* Properties.                                                             *)
(***************************************************************************)

\* The callback of an operation is called at most once, and only when none of
\* its requests is still out: the fan-outs without a `fired` flag
\* (getPowerSchemes, getAgentPresence, getEventSubscriptions, getSystemDefense,
\* getActiveSessions) do not need one, and the counter of enumerateUserAccounts and
\* its two flags are together as good as a list of its requests, across pages.
OneCallback ==
    /\ calls <= 1
    /\ calls = 1 => ~Outstanding /\ \A b \in Branches : ~Waiting(b)

\* The audit log is read by its reported length.  "Continue paging until we've collected
\* every record" (operations.cpp:5818) does not hold without one, when the first page is
\* taken for all, nor with a record that cannot be decoded: the next index is counted
\* from the entries kept, so the reader fetches records twice, and stops at a page that
\* brings nothing, each time with success.
AuditIsRegular == total # -1 /\ \A i \in DOMAIN log : log[i]

\* A successful read has every record that can be decoded, each once and in the device's
\* order, up to the cap of the event log, also when the last page is full, when the
\* device has fewer records than it says, and when pages are empty.  Two exceptions: an
\* irregular audit log, and an event log whose device leaves out the IterationIdentifier
\* while it has more (`cut`, operations.cpp:4489), of which the caller gets a beginning
\* as a success.
CompleteWhenOk ==
    calls = 1 /\ ok =>
        LET all == Decoded([i \in DOMAIN log |-> i])
        IN  /\ op = "enumerateEventLog" =>
                  /\ IsPrefix(entries, all) /\ Len(entries) <= MaxEntries
                  /\ ~cut => Len(entries) = Len(all) \/ Len(entries) = MaxEntries
            /\ op = "enumerateUserAccounts" => entries = all
            /\ op = "enumerateAuditLog" /\ AuditIsRegular => entries = all
            /\ op = "enumerateAuditLog" /\ total = -1 => entries = Decoded(OnPage(1))

\* The event log is paged for ever.  kMaxRecords, the "guard against a misbehaving box
\* that never sets NoMoreRecords" (operations.cpp:4428), counts entries: it does not
\* stop a device that answers with empty pages and one IterationIdentifier after another.
PagesForEver == []<>(iterator = 0) /\ []<>(iterator = 1)

\* Once called, an operation calls back, unless its client is destroyed first, a request
\* of it ended before it could listen (`missed`, see FinishedIsHeard of WsmanClient), or
\* the device never ends its event log.
Settles == PagesForEver \/ (called ~> (calls > 0 \/ client = "gone" \/ missed))
=============================================================================
