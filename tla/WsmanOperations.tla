--------------------------- MODULE WsmanOperations ---------------------------
(***************************************************************************)
(* One call of an operation of wsman/src/operations.cpp, from the call to  *)
(* its callback: the first request of every branch is sent at once, each   *)
(* reply ends its branch or sends the next request, and the handler that   *)
(* finds all branches done calls back.  The operation keeps its state in a *)
(* structure shared by the handlers; replies come in any order, or one by  *)
(* one when the client serialises (an SSH tunnel is in use).               *)
(*                                                                         *)
(* WsmanClient is below: a reply finishes exactly once (see that module),  *)
(* but over a tunnel that is down it does so inside sendEnvelope(), before *)
(* the operation listens to it.  The device is external.                   *)
(***************************************************************************)
EXTENDS WsmanCatalogue, Naturals, FiniteSets, SequencesExt, Subsequences

CONSTANTS
    Operations,     \* the operations called, names of the catalogue
    MaxPulls        \* bound: Pull replies of one call that announce another

ASSUME OperationsAreListed == Operations \subseteq DOMAIN Catalogue

VARIABLES
    op,         \* the operation called
    plan,       \* its entry in the catalogue
    serial,     \* WsmanClient::m_serialize, set over an SSH tunnel
    client,     \* the WsmanClient pointer: "null", "live" or "gone" (destroyed)
    called,     \* the operation has been called
    at,         \* the request each branch waits for: its index and stage
    line,       \* the branches in the order in which a serialising client serves them
    done,       \* the done flags of the shared structure
    err,        \* the branches' error strings: empty, or the class of the failure
    got,        \* the pages each enumeration has collected
    applied,    \* the writes the device has performed, in order
    calls,      \* how often the callback was called
    ok,         \* what it was called with
    missed      \* history: a request finished inside sendEnvelope(), unheard

vars == <<op, plan, serial, client, called, at, line, done, err, got, applied, calls, ok, missed>>
world == <<op, plan, serial>>

Branches == DOMAIN plan.branches
Steps(b) == plan.branches[b]
Pending(b) == Steps(b)[at[b].step]

Idle == [step |-> 0, stage |-> "none"]
Ask(i) == [step |-> i, stage |-> "ask"]
Pull(i) == [step |-> i, stage |-> "pull"]
Waiting(b) == at[b] # Idle

NoError == "none"      \* an empty string

\* A page of a Pull: rows with the key the parser looks for, rows without it,
\* or no rows; and whether it announces another, with a context and no EndOfSequence.
Pages == [rows : {"key", "plain", "none"}, more : BOOLEAN]

Init ==
    /\ op \in Operations /\ plan = Catalogue[op]
    /\ serial \in BOOLEAN /\ client \in {"null", "live"} /\ called = FALSE
    /\ at = [b \in Branches |-> Idle] /\ line = <<>>
    /\ done = [b \in Branches |-> FALSE] /\ err = [b \in Branches |-> NoError]
    /\ got = [b \in Branches |-> <<>>]
    /\ applied = <<>> /\ calls = 0 /\ ok = FALSE /\ missed = FALSE

(***************************************************************************)
(* The verdict.                                                            *)
(***************************************************************************)
Rows(pages, kinds) == \E i \in DOMAIN pages : pages[i].rows \in kinds

\* The first page that has rows has the key in them.
FirstRowKeyed(pages) ==
    \E i \in DOMAIN pages : /\ pages[i].rows = "key"
                            /\ \A j \in 1..(i - 1) : pages[j].rows = "none"

Holds(c, e, g) ==
    \/ c.what = "sound" /\ e[c.of] = NoError
    \/ c.what = "has" /\ Rows(g[c.of], {"key"})
    \/ c.what = "some" /\ Rows(g[c.of], {"key", "plain"})
    \/ c.what = "first" /\ FirstRowKeyed(g[c.of])
    \/ c.what = "unlike" /\ e[c.of] # e[c.and]

Verdict(e, g) == \E conj \in plan.ok : \A c \in conj : Holds(c, e, g)

(***************************************************************************)
(* The join: the handler that completes the last branch calls back.        *)
(***************************************************************************)
AllDone(d) == \A b \in DOMAIN d : d[b]

CallBack(verdict) ==
    /\ calls' = calls + 1
    /\ ok' = verdict

MaybeFire ==
    IF AllDone(done') THEN CallBack(Verdict(err', got')) ELSE UNCHANGED <<calls, ok>>

\* The serialising client drops the branch it has just served and puts the new
\* request at the end.
Served(b) == IF serial THEN Remove(line, b) ELSE line
Queued(b) == IF serial THEN Append(Served(b), b) ELSE line

\* Mutant: a handler that leaves its done flag alone when its request failed.
EndBranchUnmarked(b, e, pages) ==
    /\ done' = [done EXCEPT ![b] = (e = NoError)]
    /\ err' = [err EXCEPT ![b] = e]
    /\ got' = [got EXCEPT ![b] = pages]
    /\ at' = [at EXCEPT ![b] = Idle]
    /\ line' = Served(b)
    /\ MaybeFire
    /\ UNCHANGED missed

EndBranch(b, e, pages) ==
    /\ done' = [done EXCEPT ![b] = TRUE]
    /\ err' = [err EXCEPT ![b] = e]
    /\ got' = [got EXCEPT ![b] = pages]
    /\ at' = [at EXCEPT ![b] = Idle]
    /\ line' = Served(b)
    /\ MaybeFire
    /\ UNCHANGED missed

Sent(b, where) ==
    /\ at' = [at EXCEPT ![b] = where] /\ line' = Queued(b)
    /\ UNCHANGED missed

\* With nothing before it in the queue a request starts inside sendEnvelope(), and ends
\* there when the SSH session is down: finished() comes before the operation's connect().
Missed(b) ==
    /\ serial /\ Served(b) = <<>>
    /\ at' = [at EXCEPT ![b] = Idle] /\ line' = <<>>
    /\ missed' = TRUE

SendNext(b, where, pages) ==
    /\ Sent(b, where) \/ Missed(b)
    /\ got' = [got EXCEPT ![b] = pages]
    /\ UNCHANGED <<done, err, calls, ok>>

(***************************************************************************)
(* The call.  Rejected input and a null client are reported at once.       *)
(***************************************************************************)
\* These dereference the client without a check: their callers never pass null.
Unguarded == {"getOptInStatus", "setKvmOptInPolicy", "setKvmSettings"}

CallRejected ==
    /\ ~called
    /\ plan.checked \/ (client = "null" /\ op \notin Unguarded)
    /\ called' = TRUE
    /\ CallBack(FALSE)
    /\ UNCHANGED <<world, client, at, line, done, err, got, applied, missed>>

Call ==
    /\ ~called /\ client = "live"
    /\ called' = TRUE
    /\ \/ /\ at' = [b \in Branches |-> Ask(1)]
          /\ line' = IF serial THEN SetToSeq(Branches) ELSE <<>>
          /\ UNCHANGED missed
       \/ serial /\ missed' = TRUE /\ UNCHANGED <<at, line>>    \* all of them, unheard
    /\ UNCHANGED <<world, client, done, err, got, applied, calls, ok>>

(***************************************************************************)
(* The device.  A write of which the reply is lost, or an Invoke whose     *)
(* reply does not say, may have been performed or not.                     *)
(***************************************************************************)
Performs(request, reply) ==
    IF request.name = NoName \/ request.kind = "Read" \/ reply \in {"fault", "refused"}
    THEN {FALSE}
    ELSE IF reply = "lost" \/ (reply = "bare" /\ request.kind = "Invoke") THEN BOOLEAN ELSE {TRUE}

DeviceDoes(request, reply) ==
    \E performed \in Performs(request, reply) :
        applied' = IF performed THEN Append(applied, request.name) ELSE applied

(***************************************************************************)
(* Replies.                                                                *)
(***************************************************************************)
\* A serialising client answers in the order of its queue.  Only a request that fails as
\* it is started is heard before the reply ahead of it: it is started in the slot of that
\* reply that sendEnvelope() connected, which precedes the operation's.
MayAnswer(b, reply) ==
    client = "live" /\ Waiting(b) /\ (serial => Head(line) = b \/ reply = "lost")

ErrorOf(reply) == IF reply \in Broken THEN reply ELSE "unmet"

\* Mutant: a chain that goes on after a step that failed.
ContinuesAnyway(request, reply) == TRUE

\* runChainStep() calls next() only for an accepted reply; a request that is not
\* needed is followed whatever it brought.
Continues(request, reply) == reply \in request.accept \/ ~request.needed

\* The reply to a Get, a Put, a Create, a Delete or an Invoke.
Reply(b, reply) ==
    LET request == Pending(b) IN
    /\ MayAnswer(b, reply) /\ request.kind # "Enum" /\ reply \in Replies(request.kind)
    /\ DeviceDoes(request, reply)
    /\ IF Continues(request, reply)
       THEN IF at[b].step < Len(Steps(b))
            THEN SendNext(b, Ask(at[b].step + 1), <<>>)
            ELSE EndBranch(b, NoError, <<>>)
       ELSE EndBranch(b, ErrorOf(reply), <<>>)
    /\ UNCHANGED <<world, client, called>>

(***************************************************************************)
(* enumerateAll: Enumerate, then Pull until the sequence ends.             *)
(***************************************************************************)
EnumFails(b, reply) ==
    /\ MayAnswer(b, reply) /\ Pending(b).kind = "Enum" /\ reply \in Broken
    /\ EndBranch(b, reply, <<>>)
    /\ UNCHANGED <<world, client, called, applied>>

\* A reply to Enumerate without a context is an empty class.
EnumerateReply(b) ==
    /\ MayAnswer(b, "data") /\ Pending(b).kind = "Enum" /\ at[b].stage = "ask"
    /\ \/ EndBranch(b, NoError, <<>>)
       \/ SendNext(b, Pull(at[b].step), <<>>)
    /\ UNCHANGED <<world, client, called, applied>>

\* Mutant: the loop also stops at a page without rows.
StopsAtEmptyPage(page) == ~page.more \/ page.rows = "none"

PullEnds(page) == ~page.more

\* The pages so far that announced another.
Announced == {p \in Branches \X (1..MaxPulls) : p[2] \in DOMAIN got[p[1]] /\ got[p[1]][p[2]].more}

PullReply(b, page) ==
    /\ MayAnswer(b, "data") /\ Pending(b).kind = "Enum" /\ at[b].stage = "pull"
    /\ page.more => Cardinality(Announced) < MaxPulls
    /\ IF PullEnds(page)
       THEN EndBranch(b, NoError, Append(got[b], page))
       ELSE SendNext(b, Pull(at[b].step), Append(got[b], page))
    /\ UNCHANGED <<world, client, called, applied>>

\* The client is destroyed, with its replies: the handlers are disconnected.
ClientDestroyed ==
    /\ called /\ client = "live" /\ \E b \in Branches : Waiting(b)
    /\ client' = "gone"
    /\ at' = [b \in Branches |-> Idle] /\ line' = <<>>
    /\ UNCHANGED <<world, called, done, err, got, applied, calls, ok, missed>>

Answer ==
    \E b \in Branches :
        \/ \E reply \in Broken \cup Bodies : Reply(b, reply) \/ EnumFails(b, reply)
        \/ EnumerateReply(b)
        \/ \E page \in Pages : PullReply(b, page)

Next == CallRejected \/ Call \/ Answer \/ ClientDestroyed

(***************************************************************************)
(* Properties.                                                             *)
(***************************************************************************)

Changes(request) == request.kind \notin {"Get", "Enum", "Read"}
NameOf(request) == IF Changes(request) THEN request.name ELSE NoName

\* The names of the writes among some requests, in their order.
WritesOf(steps) ==
    LET names == [i \in 1..Len(steps) |-> NameOf(steps[i])]
    IN  Among(names, Range(names) \ {NoName})

WriteNames == WritesOf(Steps("main"))

\* The device performs the writes of a chain in order, each only after all those
\* before it: the machine is never reset with half of its boot configuration, and
\* the KVM settings are never put without having been read (runChainStep).
WritesInOrder == "main" \in Branches => IsPrefix(applied, WriteNames)

\* Success is reported only for an operation whose every write was performed by
\* the device.  Nothing is claimed of the operations that take their ReturnValue with
\* an unchecked toInt() (aclReturnValueExtractor, operations.cpp:4820, and the callers
\* listed with ReturnZeroLoose): they report success for a reply without ReturnValue,
\* which does not say whether the device has done anything.
OkMeansPerformed ==
    calls = 1 /\ ok /\ "main" \in Branches =>
        \/ applied = WriteNames
        \/ \E i \in 1..Len(Steps("main")) :
              Changes(Steps("main")[i]) /\ Steps("main")[i].accept = ReturnZeroLoose

\* An enumeration that ends without error has every page that the device announced, in
\* particular pages that follow an empty one; one that fails has none: a caller is
\* never given a partial list (enumerateAll).
NoPartialList ==
    \A b \in Branches :
        done[b] => IF err[b] = NoError /\ got[b] # <<>>
                   THEN /\ ~Last(got[b]).more
                        /\ \A i \in 1..(Len(got[b]) - 1) : got[b][i].more
                   ELSE got[b] = <<>>
=============================================================================
