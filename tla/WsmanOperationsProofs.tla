------------------------ MODULE WsmanOperationsProofs ------------------------
(***************************************************************************)
(* Proofs about the operations of wsman/src/operations.cpp: one callback   *)
(* per call, whole lists, chains of writes in order and success only when  *)
(* the device has done its part; for every choice of operations, every     *)
(* length of the device's lists and every size of a page.                  *)
(***************************************************************************)
EXTENDS WsmanPaging, SubsequencesProofs, SequenceTheorems, FiniteSetTheorems, TLAPS

Places == [step : Nat, stage : {"none", "ask", "pull"}]
Errors == Broken \cup {NoError, "unmet"}

(***************************************************************************)
(* The operations of the catalogue.                                        *)
(***************************************************************************)

CallTypes ==
    /\ called \in BOOLEAN /\ calls \in {0, 1} /\ ok \in BOOLEAN
    /\ client \in {"null", "live", "gone"}
    /\ at \in [Branches -> Places] /\ done \in [Branches -> BOOLEAN]
    /\ err \in [Branches -> Errors] /\ got \in [Branches -> Seq(Pages)]

\* A branch that waits has not ended; the callback comes when no branch waits.
JoinOk ==
    /\ called \/ (calls = 0 /\ \A b \in Branches : ~done[b])
    /\ \A b \in Branches : Waiting(b) => called /\ ~done[b] /\ calls = 0

\* While an enumeration pulls it has only pages that are followed by another.
Whole(pages) ==
    pages # <<>> => ~pages[Len(pages)].more /\ \A i \in 1..(Len(pages) - 1) : pages[i].more
Partial(pages) == \A i \in 1..Len(pages) : pages[i].more

PagesOk ==
    \A b \in Branches :
        /\ at[b].stage = "ask" \/ ~called => got[b] = <<>>
        /\ at[b].stage = "pull" => Partial(got[b])
        /\ done[b] => Whole(got[b]) /\ (err[b] # NoError => got[b] = <<>>)

(***************************************************************************)
(* Chains.                                                                 *)
(***************************************************************************)

\* A write is followed by others only if the device has performed it.
StepFine(r, last) ==
    /\ r.kind = "Enum" => last
    /\ NameOf(r) = NoName => r.name = NoName \/ r.kind = "Read"
    /\ NameOf(r) # NoName =>
         /\ r.needed
         /\ \A reply \in Replies(r.kind) \cap r.accept :
              Performs(r, reply) = {TRUE} \/ (last /\ r.accept = ReturnZeroLoose)

ChainFine(steps) ==
    /\ Len(steps) \in Nat \ {0}
    /\ \A i \in 1..Len(steps) : StepFine(steps[i], i = Len(steps))

PlanFine(p) ==
    "main" \in DOMAIN p.branches =>
        /\ DOMAIN p.branches = {"main"} /\ ChainFine(p.branches["main"])
        /\ \A conj \in p.ok : Sound("main") \in conj

Loose(steps) == \E i \in 1..Len(steps) : Changes(steps[i]) /\ steps[i].accept = ReturnZeroLoose

NamesOf(steps) == [i \in 1..Len(steps) |-> NameOf(steps[i])]
Written(steps) == Range(NamesOf(steps)) \ {NoName}
Before(steps, n) == Among(SubSeq(NamesOf(steps), 1, n), Written(steps))

ChainOk ==
    LET steps == Steps("main") IN
    "main" \in Branches =>
        /\ \E n \in 0..Len(steps) : applied = Before(steps, n)
        /\ ~called => applied = <<>>
        /\ Waiting("main") => /\ at["main"].step \in 1..Len(steps)
                              /\ applied = Before(steps, at["main"].step - 1)
        /\ done["main"] /\ err["main"] = NoError => applied = WritesOf(steps) \/ Loose(steps)
        /\ ok => done["main"] /\ err["main"] = NoError

(***************************************************************************)
(* Paged reads.                                                            *)
(***************************************************************************)

\* The records that can be decoded among the first n of the list, and what the event
\* log makes of them.
UpTo(n) == [i \in 1..n |-> i]
ReadOf(l, n) == Among(UpTo(n), {r \in DOMAIN l : l[r]})
Capped(q) == IF Len(q) > MaxEntries THEN SubSeq(q, 1, MaxEntries) ELSE q

PageAsks == [what : {"page"}, from : Nat \ {0}]
Regular == \A i \in DOMAIN log : log[i]

\* The loop has every record before the one it asks for next.
EventOk ==
    /\ details = {} /\ adminOut = FALSE
    /\ ask \in {Nothing, Position} \cup PageAsks
    /\ ask = Position => entries = <<>>
    /\ ask.what = "page" => /\ ask.from <= Len(log) + 1
                            /\ entries = ReadOf(log, ask.from - 1)
                            /\ Len(entries) < MaxEntries \/ entries = <<>>
    /\ ask # Nothing => calls = 0
    /\ calls = 1 /\ ok =>
         \E n \in 0..Len(log) : entries = Capped(ReadOf(log, n)) /\ (~cut => n = Len(log))

AuditOk ==
    /\ details = {} /\ adminOut = FALSE
    /\ ask \in {Nothing} \cup PageAsks
    /\ total \in {-1, Len(log), Len(log) + 1}
    /\ ask # Nothing /\ AuditIsRegular =>
         ask.from <= Len(log) + 1 /\ entries = ReadOf(log, ask.from - 1)
    /\ ask # Nothing /\ total = -1 => ask.from = 1 /\ entries = <<>>
    /\ ask # Nothing => calls = 0
    /\ calls = 1 /\ ok /\ AuditIsRegular => entries = ReadOf(log, Len(log))
    /\ calls = 1 /\ ok /\ total = -1 => entries = Decoded(OnPage(1))

\* What is outstanding is known by two flags and a counter.
Counted ==
    /\ Regular
    /\ ask \in {Nothing} \cup PageAsks
    /\ details \subseteq Nat \X {"entry", "state"} /\ IsFiniteSet(details)
    /\ adminOut => ~adminDone
    /\ ask # Nothing => /\ ~enumDone /\ ~error
                        /\ ask.from <= Len(log) + 1 /\ entries = ReadOf(log, ask.from - 1)
                        /\ \A d \in details : d[1] < ask.from
    /\ client = "live" /\ ~missed => pending = Cardinality(details)
    /\ client # "live" \/ missed => details = {} /\ ask = Nothing /\ adminOut = FALSE
    /\ enumDone /\ ~error => entries = ReadOf(log, Len(log))

AccountsOk ==
    /\ Counted
    /\ calls = 1 => adminDone /\ enumDone /\ details = {} /\ (ok => ~error)

ReaderTypes ==
    /\ plan = NoPlan /\ called
    /\ log \in Seq(BOOLEAN) /\ entries \in Seq(Nat)
    /\ adminOut \in BOOLEAN /\ adminDone \in BOOLEAN /\ enumDone \in BOOLEAN /\ error \in BOOLEAN
    /\ pending \in Int

ReaderOk ==
    /\ ReaderTypes
    /\ op = "enumerateEventLog" => EventOk
    /\ op = "enumerateAuditLog" => AuditOk
    /\ op = "enumerateUserAccounts" => AccountsOk

NoReader == ask = Nothing /\ details = {} /\ adminOut = FALSE

IndInv ==
    /\ CallTypes /\ JoinOk /\ PagesOk
    /\ PlanFine(plan) /\ ChainOk
    /\ IF op \in Readers THEN ReaderOk ELSE NoReader

-----------------------------------------------------------------------------
(* The join of the branches, and their pages.                              *)

BranchInv == CallTypes /\ JoinOk /\ PagesOk

LEMMA PlacesAre ==
    /\ Idle \in Places /\ Idle.stage = "none" /\ Idle.step = 0
    /\ \A i \in Nat : /\ Ask(i) \in Places /\ Ask(i) # Idle /\ Ask(i).stage = "ask" /\ Ask(i).step = i
                      /\ Pull(i) \in Places /\ Pull(i) # Idle /\ Pull(i).stage = "pull"
                      /\ Pull(i).step = i
  BY DEF Places, Idle, Ask, Pull

LEMMA VerdictIs ==
    \A e, g : Verdict(e, g) \in BOOLEAN
  BY DEF Verdict

\* A page more: the enumeration ends with it, or goes on.
LEMMA PagesGrow ==
    ASSUME NEW s \in Seq(Pages), Partial(s), NEW page \in Pages
    PROVE  /\ Append(s, page) \in Seq(Pages)
           /\ page.more => Partial(Append(s, page))
           /\ ~page.more => Whole(Append(s, page))
  <1> DEFINE r == Append(s, page)
  <1>1. /\ r \in Seq(Pages) /\ Len(r) = Len(s) + 1 /\ r[Len(r)] = page /\ Len(s) \in Nat
        /\ \A i \in 1..Len(s) : r[i] = s[i]
    OBVIOUS
  <1> HIDE DEF r
  <1>2. \A i \in 1..Len(r) : i \in 1..Len(s) \/ i = Len(r)
    BY <1>1
  <1>3. 1..(Len(r) - 1) = 1..Len(s)
    BY <1>1
  <1>4. page.more => Partial(r)
    BY <1>1, <1>2 DEF Partial
  <1>5. ~page.more => Whole(r)
    BY <1>1, <1>3 DEF Partial, Whole
  <1> QED BY <1>1, <1>4, <1>5 DEF r

LEMMA NoPages ==
    <<>> \in Seq(Pages) /\ Partial(<<>>) /\ Whole(<<>>)
  BY DEF Partial, Whole

\* The last branch to end calls back; the others wait no longer.
LEMMA BranchEnds ==
    ASSUME BranchInv, NEW b \in Branches, Waiting(b), NEW e \in Errors, NEW pages \in Seq(Pages),
           Whole(pages), e # NoError => pages = <<>>,
           EndBranch(b, e, pages), UNCHANGED <<world, client, called>>
    PROVE  BranchInv'
  <1>0. /\ calls = 0 /\ called /\ called \in BOOLEAN /\ ok \in BOOLEAN
        /\ client \in {"null", "live", "gone"}
        /\ at \in [Branches -> Places] /\ done \in [Branches -> BOOLEAN]
        /\ err \in [Branches -> Errors] /\ got \in [Branches -> Seq(Pages)]
    BY DEF BranchInv, CallTypes, JoinOk
  <1>1. /\ done' = [done EXCEPT ![b] = TRUE] /\ err' = [err EXCEPT ![b] = e]
        /\ got' = [got EXCEPT ![b] = pages] /\ at' = [at EXCEPT ![b] = Idle] /\ MaybeFire
        /\ plan' = plan /\ client' = client /\ called' = called
    BY DEF EndBranch, world
  <1>2. Branches' = Branches
    BY <1>1 DEF Branches
  <1>3. /\ at' \in [Branches -> Places] /\ done' \in [Branches -> BOOLEAN]
        /\ err' \in [Branches -> Errors] /\ got' \in [Branches -> Seq(Pages)]
    BY <1>0, <1>1, PlacesAre
  <1>4. \/ calls' = 1 /\ AllDone(done') /\ ok' \in BOOLEAN
        \/ calls' = 0 /\ ok' = ok
    <2>1. CASE AllDone(done')
      BY <1>0, <1>1, <2>1, VerdictIs DEF MaybeFire, CallBack
    <2>2. CASE ~AllDone(done')
      BY <1>0, <1>1, <2>2 DEF MaybeFire
    <2> QED BY <2>1, <2>2
  <1>5. CallTypes'
    BY <1>0, <1>1, <1>2, <1>3, <1>4 DEF CallTypes
  <1>6. ASSUME NEW c \in Branches
        PROVE  /\ c # b => at'[c] = at[c] /\ done'[c] = done[c] /\ got'[c] = got[c] /\ err'[c] = err[c]
               /\ c = b => at'[c] = Idle /\ done'[c] /\ got'[c] = pages /\ err'[c] = e
    BY <1>0, <1>1
  <1>7. JoinOk'
    <2> SUFFICES ASSUME NEW c \in Branches, at'[c] # Idle
                 PROVE  ~done'[c] /\ calls' = 0
      BY <1>0, <1>1, <1>2 DEF JoinOk, Waiting
    <2>1. c # b /\ Waiting(c)
      BY <1>6 DEF Waiting
    <2>2. ~done'[c]
      BY <1>6, <2>1 DEF BranchInv, JoinOk
    <2>3. ~AllDone(done')
      BY <1>3, <2>2 DEF AllDone
    <2> QED BY <1>4, <2>2, <2>3
  <1>8. PagesOk'
    <2> SUFFICES ASSUME NEW c \in Branches
                 PROVE  /\ at'[c].stage = "ask" \/ ~called' => got'[c] = <<>>
                        /\ at'[c].stage = "pull" => Partial(got'[c])
                        /\ done'[c] => Whole(got'[c]) /\ (err'[c] # NoError => got'[c] = <<>>)
      BY <1>2 DEF PagesOk
    <2>1. CASE c = b
      BY <1>0, <1>1, <1>6, <2>1, PlacesAre
    <2>2. CASE c # b
      BY <1>1, <1>6, <2>2 DEF BranchInv, PagesOk
    <2> QED BY <2>1, <2>2
  <1> QED BY <1>5, <1>7, <1>8 DEF BranchInv

LEMMA BranchGoesOn ==
    ASSUME BranchInv, NEW b \in Branches, Waiting(b), NEW where \in Places, where # Idle,
           NEW pages \in Seq(Pages), where.stage = "ask" => pages = <<>>, Partial(pages),
           SendNext(b, where, pages), UNCHANGED <<world, client, called>>
    PROVE  BranchInv'
  <1>0. /\ calls = 0 /\ called /\ called \in BOOLEAN /\ ok \in BOOLEAN /\ ~done[b]
        /\ client \in {"null", "live", "gone"}
        /\ at \in [Branches -> Places] /\ done \in [Branches -> BOOLEAN]
        /\ err \in [Branches -> Errors] /\ got \in [Branches -> Seq(Pages)]
    BY DEF BranchInv, CallTypes, JoinOk
  <1>1. /\ got' = [got EXCEPT ![b] = pages]
        /\ UNCHANGED <<done, err, calls, ok, plan, client, called>>
    BY DEF SendNext, world
  <1>10. PICK place \in {where, Idle} : at' = [at EXCEPT ![b] = place]
    BY DEF SendNext, Sent, Missed
  <1>2. Branches' = Branches
    BY <1>1 DEF Branches
  <1>3. at' \in [Branches -> Places] /\ got' \in [Branches -> Seq(Pages)]
    BY <1>0, <1>1, <1>10, PlacesAre
  <1>5. CallTypes'
    BY <1>0, <1>1, <1>2, <1>3 DEF CallTypes
  <1>6. ASSUME NEW c \in Branches
        PROVE  /\ c # b => at'[c] = at[c] /\ got'[c] = got[c]
               /\ c = b => at'[c] \in {where, Idle} /\ got'[c] = pages
    BY <1>0, <1>1, <1>10
  <1>7. JoinOk'
    <2> SUFFICES ASSUME NEW c \in Branches, at'[c] # Idle
                 PROVE  ~done[c]
      BY <1>0, <1>1, <1>2 DEF JoinOk, Waiting
    <2> QED BY <1>0, <1>6 DEF BranchInv, JoinOk, Waiting
  <1>8. PagesOk'
    <2> SUFFICES ASSUME NEW c \in Branches
                 PROVE  /\ at'[c].stage = "ask" \/ ~called' => got'[c] = <<>>
                        /\ at'[c].stage = "pull" => Partial(got'[c])
                        /\ done[c] => Whole(got'[c]) /\ (err[c] # NoError => got'[c] = <<>>)
      BY <1>1, <1>2 DEF PagesOk
    <2>1. CASE c = b
      <3>1. got'[c] = pages /\ ~done[c] /\ called'
        BY <1>0, <1>1, <1>6, <2>1
      <3>2. CASE at'[c] = where
        BY <3>1, <3>2
      <3>3. CASE at'[c] = Idle
        BY <3>1, <3>3, PlacesAre
      <3> QED BY <1>6, <2>1, <3>2, <3>3
    <2>2. CASE c # b
      BY <1>1, <1>6, <2>2 DEF BranchInv, PagesOk
    <2> QED BY <2>1, <2>2
  <1> QED BY <1>5, <1>7, <1>8 DEF BranchInv

LEMMA ErrorsAre ==
    /\ NoError \in Errors /\ \A reply \in Broken \cup Bodies : ErrorOf(reply) \in Errors
    /\ \A reply \in Broken : reply \in Errors
    /\ \A reply : ErrorOf(reply) # NoError
    /\ NoError \notin Broken
  BY DEF NoError, Errors, ErrorOf, Broken, Bodies

LEMMA WaitingAt ==
    ASSUME BranchInv, NEW b \in Branches
    PROVE  /\ at[b] \in Places /\ at[b].step \in Nat /\ got[b] \in Seq(Pages)
           /\ \A reply : MayAnswer(b, reply) => Waiting(b) /\ client = "live"
           /\ at[b].stage = "pull" => Partial(got[b])
  BY DEF BranchInv, CallTypes, PagesOk, Places, MayAnswer

\* A reply to a request that is not an enumeration.
LEMMA ReplyBranch ==
    ASSUME BranchInv, NEW b \in Branches, NEW reply \in Broken \cup Bodies, Reply(b, reply)
    PROVE  BranchInv'
  <1>1. /\ Waiting(b) /\ at[b].step \in Nat /\ at[b].step + 1 \in Nat
        /\ UNCHANGED <<world, client, called>>
    BY WaitingAt DEF Reply
  <1>2. \/ SendNext(b, Ask(at[b].step + 1), <<>>)
        \/ EndBranch(b, NoError, <<>>)
        \/ EndBranch(b, ErrorOf(reply), <<>>)
    BY DEF Reply
  <1>3. CASE SendNext(b, Ask(at[b].step + 1), <<>>)
    <2> DEFINE w == Ask(at[b].step + 1)
    <2>1. w \in Places /\ w # Idle
      BY <1>1, PlacesAre
    <2>2. SendNext(b, w, <<>>)
      BY <1>3
    <2> HIDE DEF w
    <2> QED BY <1>1, <2>1, <2>2, NoPages, BranchGoesOn
  <1>4. CASE EndBranch(b, NoError, <<>>)
    BY <1>1, <1>4, NoPages, ErrorsAre, BranchEnds
  <1>5. CASE EndBranch(b, ErrorOf(reply), <<>>)
    <2> DEFINE e == ErrorOf(reply)
    <2>1. e \in Errors /\ EndBranch(b, e, <<>>)
      BY <1>5, ErrorsAre
    <2> HIDE DEF e
    <2> QED BY <1>1, <2>1, NoPages, BranchEnds
  <1> QED BY <1>2, <1>3, <1>4, <1>5

\* A reply to Enumerate or to Pull.
LEMMA EnumBranch ==
    ASSUME BranchInv, NEW b \in Branches,
           \/ \E reply \in Broken \cup Bodies : EnumFails(b, reply)
           \/ EnumerateReply(b)
           \/ \E page \in Pages : PullReply(b, page)
    PROVE  BranchInv'
  <1>1. ASSUME NEW reply \in Broken \cup Bodies, EnumFails(b, reply)
        PROVE  BranchInv'
    <2>1. Waiting(b) /\ reply \in Errors /\ EndBranch(b, reply, <<>>)
          /\ UNCHANGED <<world, client, called>>
      BY <1>1, WaitingAt, ErrorsAre DEF EnumFails
    <2> QED BY <2>1, NoPages, BranchEnds
  <1>2. CASE EnumerateReply(b)
    <2>1. /\ Waiting(b) /\ at[b].step \in Nat /\ UNCHANGED <<world, client, called>>
          /\ EndBranch(b, NoError, <<>>) \/ SendNext(b, Pull(at[b].step), <<>>)
      BY <1>2, WaitingAt DEF EnumerateReply
    <2>2. CASE EndBranch(b, NoError, <<>>)
      BY <2>1, <2>2, NoPages, ErrorsAre, BranchEnds
    <2>3. CASE SendNext(b, Pull(at[b].step), <<>>)
      <3> DEFINE w == Pull(at[b].step)
      <3>1. w \in Places /\ w # Idle /\ SendNext(b, w, <<>>)
        BY <2>1, <2>3, PlacesAre
      <3> HIDE DEF w
      <3> QED BY <2>1, <3>1, NoPages, BranchGoesOn
    <2> QED BY <2>1, <2>2, <2>3
  <1>3. ASSUME NEW page \in Pages, PullReply(b, page)
        PROVE  BranchInv'
    <2> DEFINE s == Append(got[b], page)
               w == Pull(at[b].step)
    <2>1. /\ Waiting(b) /\ at[b].step \in Nat /\ UNCHANGED <<world, client, called>>
          /\ got[b] \in Seq(Pages) /\ Partial(got[b])
      BY <1>3, WaitingAt DEF PullReply
    <2>2. \/ ~page.more /\ EndBranch(b, NoError, s)
          \/ page.more /\ SendNext(b, w, s)
      BY <1>3 DEF PullReply, PullEnds, Pages
    <2>3. s \in Seq(Pages) /\ (page.more => Partial(s)) /\ (~page.more => Whole(s))
      BY <2>1, PagesGrow
    <2>4. w \in Places /\ w # Idle /\ w.stage = "pull"
      BY <2>1, PlacesAre
    <2> HIDE DEF s, w
    <2>5. CASE ~page.more /\ EndBranch(b, NoError, s)
      BY <2>1, <2>3, <2>5, ErrorsAre, BranchEnds
    <2>6. CASE page.more /\ SendNext(b, w, s)
      BY <2>1, <2>3, <2>4, <2>6, BranchGoesOn
    <2> QED BY <2>2, <2>5, <2>6
  <1> QED BY <1>1, <1>2, <1>3

\* The call itself, and the end of the client.
LEMMA CallBranch ==
    ASSUME BranchInv, CallRejected \/ Call \/ ClientDestroyed
    PROVE  BranchInv'
  <1>0. /\ called \in BOOLEAN /\ calls \in {0, 1} /\ ok \in BOOLEAN
        /\ client \in {"null", "live", "gone"}
        /\ at \in [Branches -> Places] /\ done \in [Branches -> BOOLEAN]
        /\ err \in [Branches -> Errors] /\ got \in [Branches -> Seq(Pages)]
        /\ JoinOk /\ PagesOk
    BY DEF BranchInv, CallTypes
  <1>1. CASE CallRejected
    <2>1. /\ ~called /\ called' = TRUE /\ calls' = calls + 1 /\ ok' = FALSE
          /\ UNCHANGED <<plan, client, at, done, err, got>> /\ Branches' = Branches
      BY <1>1 DEF CallRejected, CallBack, world, Branches
    <2>2. calls' = 1 /\ \A b \in Branches : at[b] = Idle /\ got[b] = <<>>
      BY <1>0, <2>1 DEF JoinOk, Waiting, PagesOk
    <2>3. CallTypes' /\ JoinOk'
      BY <1>0, <2>1, <2>2 DEF CallTypes, JoinOk, Waiting
    <2>4. PagesOk'
      BY <1>0, <2>1, <2>2 DEF PagesOk
    <2> QED BY <2>3, <2>4 DEF BranchInv
  <1>2. CASE Call
    <2>1. /\ ~called /\ called' = TRUE
          /\ at' = [b \in Branches |-> Ask(1)] \/ at' = at
          /\ UNCHANGED <<plan, client, done, err, got, calls, ok>> /\ Branches' = Branches
      BY <1>2 DEF Call, world, Branches
    <2>2. /\ calls = 0 /\ \A b \in Branches : got[b] = <<>>
          /\ Ask(1) \in Places /\ Ask(1).stage = "ask"
      BY <1>0, <2>1, PlacesAre DEF JoinOk, PagesOk
    <2>8. \A b \in Branches : at'[b] \in {Idle, Ask(1)}
      BY <1>0, <2>1 DEF JoinOk, Waiting
    <2>3. at' \in [Branches -> Places]
      BY <1>0, <2>1, <2>2
    <2>4. CallTypes'
      BY <1>0, <2>1, <2>3 DEF CallTypes
    <2>5. JoinOk'
      BY <1>0, <2>1, <2>2 DEF JoinOk
    <2>6. PagesOk'
      <3>1. \A b \in Branches : ~done[b]
        BY <1>0, <2>1 DEF JoinOk
      <3> QED BY <2>1, <2>2, <2>8, <3>1, PlacesAre DEF PagesOk
    <2> QED BY <2>4, <2>5, <2>6 DEF BranchInv
  <1>3. CASE ClientDestroyed
    <2>1. /\ client' = "gone" /\ at' = [b \in Branches |-> Idle] /\ called
          /\ UNCHANGED <<plan, called, done, err, got, calls, ok>> /\ Branches' = Branches
      BY <1>3 DEF ClientDestroyed, world, Branches
    <2>2. at' \in [Branches -> Places] /\ \A b \in Branches : at'[b] = Idle
      BY <2>1, PlacesAre
    <2>3. CallTypes'
      BY <1>0, <2>1, <2>2 DEF CallTypes
    <2>4. JoinOk'
      BY <1>0, <2>1, <2>2 DEF JoinOk, Waiting
    <2>5. PagesOk'
      BY <1>0, <2>1, <2>2, PlacesAre DEF PagesOk
    <2> QED BY <2>3, <2>4, <2>5 DEF BranchInv
  <1> QED BY <1>1, <1>2, <1>3

LEMMA NextBranch ==
    ASSUME BranchInv, Next
    PROVE  BranchInv'
  <1>1. CASE CallRejected \/ Call \/ ClientDestroyed
    BY <1>1, CallBranch
  <1>2. CASE Answer
    <2>1. PICK b \in Branches :
            \/ \E reply \in Broken \cup Bodies : Reply(b, reply) \/ EnumFails(b, reply)
            \/ EnumerateReply(b)
            \/ \E page \in Pages : PullReply(b, page)
      BY <1>2 DEF Answer
    <2>2. CASE \E reply \in Broken \cup Bodies : Reply(b, reply)
      BY <2>2, ReplyBranch
    <2>3. CASE ~(\E reply \in Broken \cup Bodies : Reply(b, reply))
      BY <2>1, <2>3, EnumBranch
    <2> QED BY <2>2, <2>3
  <1> QED BY <1>1, <1>2 DEF Next

-----------------------------------------------------------------------------
(* Chains: what the device has performed.                                  *)

LEMMA Writing ==
    \A steps : WritesOf(steps) = Among(NamesOf(steps), Written(steps))
  BY DEF WritesOf, NamesOf, Written

LEMMA NamesTyped ==
    ASSUME NEW steps, Len(steps) \in Nat
    PROVE  /\ NamesOf(steps) \in Seq(Range(NamesOf(steps))) /\ Len(NamesOf(steps)) = Len(steps)
           /\ \A i \in 1..Len(steps) : NamesOf(steps)[i] = NameOf(steps[i])
  <1> DEFINE f == NamesOf(steps)
  <1>1. f \in [1..Len(steps) -> Range(f)]
    BY DEF NamesOf, Range
  <1>2. \A i \in 1..Len(steps) : f[i] = NameOf(steps[i])
    BY DEF NamesOf
  <1> HIDE DEF f
  <1>3. f \in Seq(Range(f)) /\ Len(f) = Len(steps)
    BY <1>1
  <1> QED BY <1>2, <1>3 DEF f

\* The writes of one step more.
LEMMA OneStepMore ==
    ASSUME NEW steps, Len(steps) \in Nat, NEW n \in Nat, n < Len(steps)
    PROVE  /\ n + 1 \in 1..Len(steps)
           /\ NameOf(steps[n + 1]) # NoName =>
                Before(steps, n + 1) = Append(Before(steps, n), NameOf(steps[n + 1]))
           /\ NameOf(steps[n + 1]) = NoName => Before(steps, n + 1) = Before(steps, n)
  <1> DEFINE all == NamesOf(steps)
             X == Range(all)
             S == Written(steps)
             a == SubSeq(all, 1, n)
             b == SubSeq(all, 1, n + 1)
             x == NameOf(steps[n + 1])
  <1>1. n + 1 \in 1..Len(steps)
    OBVIOUS
  <1>2. all \in Seq(X) /\ Len(all) = Len(steps) /\ all[n + 1] = x
    BY <1>1, NamesTyped
  <1>3. x # NoName => x \in S
    <2> HIDE DEF x
    <2> QED BY <1>1, <1>2 DEF Written, Range
  <1>4. x = NoName => x \notin S
    <2> HIDE DEF x
    <2> QED BY DEF Written
  <1> HIDE DEF all, X, S, x
  <1>5. x \in X /\ a \in Seq(X) /\ b = Append(a, x)
    BY <1>1, <1>2
  <1> HIDE DEF a, b
  <1>6. x \in S => Among(b, S) = Append(Among(a, S), x)
    BY <1>5, AmongSteps
  <1>7. x \notin S => Among(b, S) = Among(a, S)
    BY <1>5, AmongSteps
  <1>8. Before(steps, n) = Among(a, S) /\ Before(steps, n + 1) = Among(b, S)
    BY DEF Before, a, b, all, S
  <1> QED BY <1>1, <1>3, <1>4, <1>6, <1>7, <1>8 DEF x

LEMMA BeforeEnds ==
    ASSUME NEW steps, Len(steps) \in Nat
    PROVE  Before(steps, 0) = <<>> /\ Before(steps, Len(steps)) = WritesOf(steps)
  <1> DEFINE all == NamesOf(steps)
             X == Range(all)
  <1>1. all \in Seq(X) /\ Len(all) = Len(steps)
    BY NamesTyped
  <1> HIDE DEF all, X
  <1>2. SubSeq(all, 1, Len(all)) = all /\ SubSeq(all, 1, 0) = <<>>
    BY <1>1
  <1> QED BY <1>1, <1>2, Writing, AmongNone DEF Before, all

\* What was written before some step is a beginning of what is to be written.
LEMMA BeforeIsPrefix ==
    ASSUME NEW steps, Len(steps) \in Nat, NEW n \in 0..Len(steps)
    PROVE  IsPrefix(Before(steps, n), WritesOf(steps))
  <1> DEFINE all == NamesOf(steps)
             X == Range(all)
             S == Written(steps)
             a == SubSeq(all, 1, n)
             b == SubSeq(all, n + 1, Len(all))
             c == Among(a, S)
             d == Among(b, S)
  <1>1. all \in Seq(X) /\ Len(all) = Len(steps)
    BY NamesTyped
  <1> HIDE DEF all, X, S
  <1>2. a \in Seq(X) /\ b \in Seq(X)
    BY <1>1
  <1>3. all = a \o b
    <2> DEFINE c0 == a \o b
    <2>1. /\ Len(a) = n /\ Len(b) = Len(all) - n /\ n \in Nat /\ Len(all) \in Nat /\ n <= Len(all)
          /\ \A i \in 1..n : a[i] = all[i]
          /\ \A i \in 1..Len(b) : b[i] = all[n + i]
      <3>1. n \in Nat /\ Len(all) \in Nat /\ n <= Len(all)
        BY <1>1
      <3>2. Len(a) = n /\ Len(b) = Len(all) - n
        BY <1>1, <3>1
      <3>3. \A i \in 1..n : a[i] = all[i]
        BY <1>1, <3>1
      <3>4. \A i \in 1..Len(b) : b[i] = all[n + i]
        BY <1>1, <3>1
      <3> QED BY <3>1, <3>2, <3>3, <3>4
    <2> HIDE DEF a, b
    <2>2. /\ c0 \in Seq(X) /\ Len(c0) = Len(all)
          /\ \A i \in 1..Len(all) : c0[i] = IF i <= n THEN a[i] ELSE b[i - n]
      BY <1>2, <2>1
    <2>3. ASSUME NEW i \in 1..Len(all)
          PROVE  c0[i] = all[i]
      <3> HIDE DEF c0
      <3>1. CASE i <= n
        BY <2>1, <2>2, <3>1
      <3>2. CASE ~(i <= n)
        <4>1. i - n \in 1..Len(b) /\ n + (i - n) = i
          BY <2>1, <3>2
        <4> QED BY <2>1, <2>2, <3>2, <4>1
      <3> QED BY <3>1, <3>2
    <2> HIDE DEF c0
    <2>4. all = c0
      BY <1>1, <2>2, <2>3
    <2> QED BY <2>4 DEF c0
  <1>4. Before(steps, n) = c /\ WritesOf(steps) = Among(all, S)
    BY Writing DEF Before, all, S
  <1> HIDE DEF a, b
  <1>5. c \in Seq(X) /\ d \in Seq(X)
    BY <1>2, AmongTyped
  <1>6. Among(all, S) = c \o d
    BY <1>2, <1>3, AmongJoins
  <1> HIDE DEF c, d
  <1>7. IsPrefix(c, c \o d)
    BY <1>5 DEF IsPrefix
  <1> QED BY <1>4, <1>6, <1>7

\* While a chain waits it has not succeeded, and it is a chain of the catalogue.
LEMMA MainIs ==
    ASSUME BranchInv, PlanFine(plan), ChainOk, "main" \in Branches
    PROVE  /\ Branches = {"main"} /\ Len(Steps("main")) \in Nat \ {0}
           /\ \A i \in 1..Len(Steps("main")) :
                StepFine(Steps("main")[i], i = Len(Steps("main")))
           /\ \A conj \in plan.ok : Sound("main") \in conj
           /\ Waiting("main") => ~ok /\ ~done["main"] /\ called
  <1>1. /\ Branches = {"main"} /\ ChainFine(Steps("main"))
        /\ \A conj \in plan.ok : Sound("main") \in conj
    BY DEF PlanFine, Branches, Steps
  <1>2. Waiting("main") => ~done["main"] /\ called
    BY DEF BranchInv, JoinOk
  <1>3. ok => done["main"]
    BY DEF ChainOk
  <1>4. Len(Steps("main")) \in Nat \ {0}
        /\ \A i \in 1..Len(Steps("main")) : StepFine(Steps("main")[i], i = Len(Steps("main")))
    BY <1>1 DEF ChainFine
  <1> QED BY <1>1, <1>2, <1>3, <1>4

\* Success is the success of the chain.
LEMMA VerdictOfMain ==
    ASSUME NEW e, NEW g, \A conj \in plan.ok : Sound("main") \in conj, Verdict(e, g)
    PROVE  e["main"] = NoError
  <1>1. PICK conj \in plan.ok : \A c \in conj : Holds(c, e, g)
    BY DEF Verdict
  <1>2. Holds(Sound("main"), e, g)
    BY <1>1
  <1> QED BY <1>2 DEF Holds, Sound, Condition

LEMMA MainEnds ==
    ASSUME BranchInv, PlanFine(plan), ChainOk, "main" \in Branches, Waiting("main"),
           NEW e \in Errors, NEW pages, EndBranch("main", e, pages),
           UNCHANGED <<world, client, called>>,
           \E n \in 0..Len(Steps("main")) : applied' = Before(Steps("main"), n),
           e = NoError => applied' = WritesOf(Steps("main")) \/ Loose(Steps("main"))
    PROVE  ChainOk'
  <1>1. /\ Branches' = Branches /\ Steps("main")' = Steps("main") /\ called' = called
        /\ plan' = plan
    BY DEF world, Branches, Steps
  <1>2. /\ Branches = {"main"} /\ \A conj \in plan.ok : Sound("main") \in conj
        /\ ~ok /\ called
    BY MainIs
  <1>3. /\ at \in [Branches -> Places] /\ done \in [Branches -> BOOLEAN]
        /\ err \in [Branches -> Errors] /\ called \in BOOLEAN
    BY DEF BranchInv, CallTypes
  <1>4. at'["main"] = Idle /\ done'["main"] /\ err'["main"] = e
    BY <1>3 DEF EndBranch
  <1>5. ok' => err'["main"] = NoError
    <2>1. CASE AllDone(done')
      <3>1. ok' = Verdict(err', got')
        BY <2>1 DEF EndBranch, MaybeFire, CallBack
      <3> QED BY <1>2, <3>1, VerdictOfMain
    <2>2. CASE ~AllDone(done')
      BY <1>2, <2>2 DEF EndBranch, MaybeFire
    <2> QED BY <2>1, <2>2
  <1>6. called'
    BY <1>1, <1>2
  <1> QED BY <1>1, <1>4, <1>5, <1>6 DEF ChainOk, Waiting

LEMMA MainGoesOn ==
    ASSUME BranchInv, PlanFine(plan), ChainOk, "main" \in Branches, Waiting("main"),
           NEW where, NEW pages, SendNext("main", where, pages),
           UNCHANGED <<world, client, called>>,
           where.step \in 1..Len(Steps("main")),
           applied' = Before(Steps("main"), where.step - 1)
    PROVE  ChainOk'
  <1>1. /\ Branches' = Branches /\ Steps("main")' = Steps("main") /\ called' = called
        /\ plan' = plan
    BY DEF world, Branches, Steps
  <1>2. ~ok /\ called /\ ~done["main"] /\ Len(Steps("main")) \in Nat
    BY MainIs
  <1>3. /\ at \in [Branches -> Places] /\ called \in BOOLEAN
    BY DEF BranchInv, CallTypes
  <1>4. at'["main"] \in {where, Idle} /\ UNCHANGED <<done, err, calls, ok>>
    BY <1>3 DEF SendNext, Sent, Missed
  <1>5. where.step - 1 \in 0..Len(Steps("main"))
    BY <1>2
  <1> QED BY <1>1, <1>2, <1>4, <1>5 DEF ChainOk, Waiting

\* What the device does with the request of a step.
LEMMA StepDone ==
    ASSUME BranchInv, PlanFine(plan), ChainOk, "main" \in Branches, Waiting("main"),
           NEW reply \in Replies(Pending("main").kind), DeviceDoes(Pending("main"), reply)
    PROVE  LET steps == Steps("main")
               k == at["main"].step
           IN  /\ applied' = Before(steps, k - 1) \/ applied' = Before(steps, k)
               /\ Continues(Pending("main"), reply) =>
                    applied' = Before(steps, k) \/ (k = Len(steps) /\ Loose(steps))
  <1> DEFINE steps == Steps("main")
             k == at["main"].step
             r == steps[k]
             old == Before(steps, k - 1)
             new == Before(steps, k)
  <1>1. /\ Len(steps) \in Nat
        /\ \A i \in 1..Len(steps) : StepFine(steps[i], i = Len(steps))
    BY MainIs
  <1>2. k \in 1..Len(steps) /\ applied = old
    BY DEF ChainOk
  <1>3. Pending("main") = r
    BY DEF Pending
  <1> HIDE DEF steps, k
  <1>4. k - 1 \in Nat /\ k - 1 < Len(steps) /\ (k - 1) + 1 = k
    BY <1>1, <1>2
  <1>5. /\ NameOf(r) # NoName => new = Append(old, NameOf(r))
        /\ NameOf(r) = NoName => new = old
    <2> DEFINE n == k - 1
    <2>1. n \in Nat /\ n < Len(steps) /\ n + 1 = k
      BY <1>4
    <2> HIDE DEF n
    <2>2. /\ NameOf(steps[n + 1]) # NoName =>
                Before(steps, n + 1) = Append(Before(steps, n), NameOf(steps[n + 1]))
          /\ NameOf(steps[n + 1]) = NoName => Before(steps, n + 1) = Before(steps, n)
      BY <1>1, <2>1, OneStepMore
    <2> QED BY <2>1, <2>2 DEF n
  <1>6. StepFine(r, k = Len(steps))
    BY <1>1, <1>2
  <1>7. PICK performed \in Performs(r, reply) :
           applied' = IF performed THEN Append(applied, r.name) ELSE applied
    BY <1>3 DEF DeviceDoes
  <1>8. reply \in Replies(r.kind)
    BY <1>3
  <1>9. NameOf(r) # NoName => Changes(r) /\ NameOf(r) = r.name
    BY DEF NameOf
  <1> HIDE DEF old, new, r
  <1>10. CASE NameOf(r) = NoName
    <2>1. Performs(r, reply) = {FALSE}
      BY <1>6, <1>10 DEF StepFine, Performs
    <2> QED BY <1>2, <1>5, <1>7, <1>10, <2>1 DEF steps, k, old, new
  <1>11. CASE NameOf(r) # NoName
    <2>1. applied' = old \/ applied' = new
      BY <1>2, <1>5, <1>7, <1>9, <1>11
    <2>2. ASSUME Continues(r, reply)
          PROVE  applied' = new \/ (k = Len(steps) /\ Loose(steps))
      <3>1. r.needed /\ reply \in Replies(r.kind) \cap r.accept
        BY <1>6, <1>8, <1>11, <2>2 DEF StepFine, Continues
      <3>2. Performs(r, reply) = {TRUE} \/ (k = Len(steps) /\ r.accept = ReturnZeroLoose)
        BY <1>6, <1>11, <3>1 DEF StepFine
      <3>3. CASE Performs(r, reply) = {TRUE}
        BY <1>2, <1>5, <1>7, <1>9, <1>11, <3>3
      <3>4. CASE k = Len(steps) /\ r.accept = ReturnZeroLoose
        BY <1>2, <1>9, <1>11, <3>4 DEF Loose, r
      <3> QED BY <3>2, <3>3, <3>4
    <2> QED BY <1>3, <2>1, <2>2 DEF steps, k, old, new
  <1> QED BY <1>10, <1>11

LEMMA ChainReply ==
    ASSUME BranchInv, PlanFine(plan), ChainOk, "main" \in Branches,
           NEW reply \in Broken \cup Bodies, Reply("main", reply)
    PROVE  ChainOk'
  <1> DEFINE steps == Steps("main")
             k == at["main"].step
             request == Pending("main")
  <1>0. Len(steps) \in Nat \ {0}
    BY MainIs
  <1>1. /\ Waiting("main") /\ reply \in Replies(request.kind) /\ DeviceDoes(request, reply)
        /\ UNCHANGED <<world, client, called>>
    BY DEF Reply, MayAnswer
  <1>2. k \in 1..Len(steps)
    BY <1>1 DEF ChainOk
  <1>3. applied' = Before(steps, k - 1) \/ applied' = Before(steps, k)
    BY <1>1, StepDone
  <1>4. Continues(request, reply) =>
          applied' = Before(steps, k) \/ (k = Len(steps) /\ Loose(steps))
    BY <1>1, StepDone
  <1>5. \/ Continues(request, reply) /\ k < Len(steps) /\ SendNext("main", Ask(k + 1), <<>>)
        \/ Continues(request, reply) /\ ~(k < Len(steps)) /\ EndBranch("main", NoError, <<>>)
        \/ EndBranch("main", ErrorOf(reply), <<>>)
    BY DEF Reply
  <1>6. \E n \in 0..Len(steps) : applied' = Before(steps, n)
    <2>1. k - 1 \in 0..Len(steps) /\ k \in 0..Len(steps)
      BY <1>0, <1>2
    <2> HIDE DEF k, steps
    <2> QED BY <1>3, <2>1
  <1>7. CASE Continues(request, reply) /\ k < Len(steps) /\ SendNext("main", Ask(k + 1), <<>>)
    <2> DEFINE w == Ask(k + 1)
    <2>1. w.step = k + 1 /\ k + 1 \in 1..Len(steps) /\ (k + 1) - 1 = k
      BY <1>0, <1>2, <1>7, PlacesAre
    <2>2. applied' = Before(steps, w.step - 1)
      <3>1. applied' = Before(steps, k)
        BY <1>0, <1>2, <1>4, <1>7
      <3> HIDE DEF w, k, steps
      <3> QED BY <2>1, <3>1
    <2>3. SendNext("main", w, <<>>) /\ w.step \in 1..Len(steps)
      BY <1>7, <2>1
    <2> HIDE DEF w
    <2> QED BY <1>1, <2>2, <2>3, MainGoesOn
  <1>8. CASE Continues(request, reply) /\ ~(k < Len(steps)) /\ EndBranch("main", NoError, <<>>)
    <2>1. k = Len(steps)
      BY <1>0, <1>2, <1>8
    <2>2. applied' = WritesOf(steps) \/ Loose(steps)
      <3>1. Before(steps, Len(steps)) = WritesOf(steps)
        BY <1>0, BeforeEnds
      <3> HIDE DEF k, steps
      <3> QED BY <1>4, <1>8, <2>1, <3>1
    <2> QED BY <1>1, <1>6, <1>8, <2>2, MainEnds, ErrorsAre
  <1>9. CASE EndBranch("main", ErrorOf(reply), <<>>)
    <2> DEFINE e == ErrorOf(reply)
    <2>1. e \in Errors /\ e # NoError /\ EndBranch("main", e, <<>>)
      BY <1>9, ErrorsAre
    <2> HIDE DEF e
    <2> QED BY <1>1, <1>6, <2>1, MainEnds
  <1> QED BY <1>5, <1>7, <1>8, <1>9

\* An enumeration is the last step of its chain and writes nothing.
LEMMA ChainEnum ==
    ASSUME BranchInv, PlanFine(plan), ChainOk, "main" \in Branches,
           \/ \E reply \in Broken \cup Bodies : EnumFails("main", reply)
           \/ EnumerateReply("main")
           \/ \E page \in Pages : PullReply("main", page)
    PROVE  ChainOk'
  <1> DEFINE steps == Steps("main")
             k == at["main"].step
             request == Pending("main")
  <1>0. /\ Len(steps) \in Nat \ {0}
        /\ \A i \in 1..Len(steps) : StepFine(steps[i], i = Len(steps))
    BY MainIs
  <1>1. /\ Waiting("main") /\ request.kind = "Enum" /\ applied' = applied
        /\ UNCHANGED <<world, client, called>>
    BY DEF EnumFails, EnumerateReply, PullReply, MayAnswer
  <1>2. k \in 1..Len(steps) /\ applied = Before(steps, k - 1) /\ k \in Nat
    BY <1>0, <1>1 DEF ChainOk
  <1>3. k = Len(steps) /\ NameOf(steps[k]) = NoName
    <2>1. StepFine(steps[k], k = Len(steps)) /\ steps[k].kind = "Enum"
      BY <1>0, <1>1, <1>2 DEF Pending
    <2> QED BY <2>1 DEF StepFine, NameOf, Changes
  <1>4. applied = WritesOf(steps)
    <2> DEFINE n == k - 1
    <2>1. n \in Nat /\ n < Len(steps) /\ n + 1 = k
      BY <1>0, <1>2
    <2>2. applied = Before(steps, n) /\ k = Len(steps) /\ NameOf(steps[k]) = NoName
      BY <1>2, <1>3
    <2> HIDE DEF n, k, steps
    <2>3. Before(steps, k) = Before(steps, n)
      <3>1. NameOf(steps[n + 1]) = NoName => Before(steps, n + 1) = Before(steps, n)
        BY <1>0, <2>1, OneStepMore
      <3> QED BY <2>1, <2>2, <3>1
    <2> QED BY <1>0, <2>2, <2>3, BeforeEnds
  <1>5. \E n \in 0..Len(steps) : applied' = Before(steps, n)
    <2>1. k - 1 \in 0..Len(steps)
      BY <1>0, <1>2
    <2> HIDE DEF k, steps
    <2> QED BY <1>1, <1>2, <2>1
  <1>6. ASSUME NEW e \in Errors, NEW pages, EndBranch("main", e, pages)
        PROVE  ChainOk'
    BY <1>1, <1>4, <1>5, <1>6, MainEnds
  <1>7. ASSUME NEW pages, SendNext("main", Pull(k), pages)
        PROVE  ChainOk'
    <2> DEFINE w == Pull(k)
    <2>1. w.step = k
      BY <1>2, PlacesAre
    <2>2. SendNext("main", w, pages)
      BY <1>7
    <2> HIDE DEF w
    <2>3. w.step \in 1..Len(steps) /\ applied' = Before(steps, w.step - 1)
      <3> HIDE DEF k, steps
      <3> QED BY <1>1, <1>2, <2>1
    <2> QED BY <1>1, <2>2, <2>3, MainGoesOn
  <1>8. ASSUME NEW reply \in Broken \cup Bodies, EnumFails("main", reply)
        PROVE  ChainOk'
    <2>1. reply \in Errors /\ EndBranch("main", reply, <<>>)
      BY <1>8, ErrorsAre DEF EnumFails
    <2> QED BY <1>6, <2>1
  <1>9. CASE EnumerateReply("main")
    <2>1. EndBranch("main", NoError, <<>>) \/ SendNext("main", Pull(k), <<>>)
      BY <1>9 DEF EnumerateReply
    <2> QED BY <1>6, <1>7, <2>1, ErrorsAre
  <1>10. ASSUME NEW page \in Pages, PullReply("main", page)
         PROVE  ChainOk'
    <2> DEFINE s == Append(got["main"], page)
    <2>1. EndBranch("main", NoError, s) \/ SendNext("main", Pull(k), s)
      BY <1>10 DEF PullReply
    <2> HIDE DEF s
    <2> QED BY <1>6, <1>7, <2>1, ErrorsAre
  <1> QED BY <1>8, <1>9, <1>10

LEMMA ChainCall ==
    ASSUME BranchInv, PlanFine(plan), ChainOk, "main" \in Branches,
           CallRejected \/ Call \/ ClientDestroyed
    PROVE  ChainOk'
  <1> DEFINE steps == Steps("main")
  <1>1. /\ Branches' = Branches /\ steps' = steps /\ applied' = applied
        /\ UNCHANGED <<done, err>>
    BY DEF CallRejected, Call, ClientDestroyed, world, Branches, Steps
  <1>2. Len(steps) \in Nat \ {0} /\ Branches = {"main"}
    BY MainIs
  <1>3. at \in [Branches -> Places] /\ called \in BOOLEAN /\ JoinOk
    BY DEF BranchInv, CallTypes
  <1> HIDE DEF steps
  <1>4. CASE CallRejected
    <2>1. called' /\ ok' = FALSE /\ at' = at /\ ~called
      BY <1>4 DEF CallRejected, CallBack
    <2>2. at["main"] = Idle
      BY <1>3, <2>1 DEF JoinOk, Waiting
    <2> QED BY <1>1, <2>1, <2>2 DEF ChainOk, Waiting, steps
  <1>5. CASE Call
    <2>1. called' /\ ok' = ok /\ ~called
      BY <1>5 DEF Call
    <2>5. at'["main"] \in {Ask(1), Idle}
      <3>1. at["main"] = Idle
        BY <1>3, <2>1 DEF JoinOk, Waiting
      <3> QED BY <1>5, <3>1 DEF Call
    <2>2. Ask(1).step = 1 /\ 1 - 1 = 0 /\ 1 \in 1..Len(steps)
      BY <1>2, PlacesAre
    <2>3. applied = Before(steps, 0)
      BY <1>2, <2>1, BeforeEnds DEF ChainOk, steps
    <2>4. at'["main"] # Idle =>
            at'["main"].step = 1 /\ applied = Before(steps, at'["main"].step - 1)
      BY <2>2, <2>3, <2>5
    <2> QED BY <1>1, <2>1, <2>2, <2>4 DEF ChainOk, Waiting, steps
  <1>6. CASE ClientDestroyed
    <2>1. UNCHANGED <<called, ok>> /\ at'["main"] = Idle
      BY <1>6 DEF ClientDestroyed
    <2> QED BY <1>1, <2>1 DEF ChainOk, Waiting, steps
  <1> QED BY <1>4, <1>5, <1>6

LEMMA NextChain ==
    ASSUME BranchInv, PlanFine(plan), ChainOk, Next
    PROVE  ChainOk' /\ plan' = plan /\ op' = op
  <1>1. plan' = plan /\ op' = op /\ Branches' = Branches
    BY DEF Next, CallRejected, Call, ClientDestroyed, Answer, Reply, EnumFails, EnumerateReply,
           PullReply, world, Branches
  <1>2. CASE "main" \notin Branches
    BY <1>1, <1>2 DEF ChainOk
  <1>3. CASE "main" \in Branches
    <2>1. Branches = {"main"}
      BY <1>3, MainIs
    <2>2. CASE CallRejected \/ Call \/ ClientDestroyed
      BY <1>1, <1>3, <2>2, ChainCall
    <2>3. CASE Answer
      <3>1. \/ \E reply \in Broken \cup Bodies : Reply("main", reply) \/ EnumFails("main", reply)
            \/ EnumerateReply("main")
            \/ \E page \in Pages : PullReply("main", page)
        BY <2>1, <2>3 DEF Answer
      <3>2. CASE \E reply \in Broken \cup Bodies : Reply("main", reply)
        BY <1>1, <1>3, <3>2, ChainReply
      <3>3. CASE ~(\E reply \in Broken \cup Bodies : Reply("main", reply))
        BY <1>1, <1>3, <3>1, <3>3, ChainEnum
      <3> QED BY <3>2, <3>3
    <2> QED BY <2>2, <2>3 DEF Next
  <1> QED BY <1>1, <1>2, <1>3

-----------------------------------------------------------------------------
(* The catalogue: every chain in it is fine.                               *)

\* What an Invoke may accept without doubt about what the device did, and what it
\* may accept at the end of a chain.
Certain == {ReturnZero, ReturnJob, ReturnOrOutput, ReturnData}

LEMMA RequestsFine ==
    /\ \A name, accept : \A last \in BOOLEAN : accept \in Certain /\ name # NoName =>
         StepFine(Write("Invoke", name, accept), last)
    /\ \A name : name # NoName => StepFine(Write("Invoke", name, ReturnZeroLoose), TRUE)
    /\ \A name : \A last \in BOOLEAN : name # NoName =>
         /\ StepFine(Write("Put", name, NoFault), last)
         /\ StepFine(Write("Delete", name, NoFault), last)
         /\ StepFine(Write("Create", name, Content), last)
    /\ \A name, accept : \A last \in BOOLEAN : StepFine(Read(name, accept), last)
    /\ \A accept, needed : \A last \in BOOLEAN : StepFine(Request("Get", NoName, accept, needed), last)
    /\ StepFine(Request("Enum", NoName, NoFault, TRUE), TRUE)
  <1>1. ASSUME NEW name, NEW accept \in Certain, NEW last \in BOOLEAN, name # NoName
        PROVE  StepFine(Write("Invoke", name, accept), last)
    <2> DEFINE r == Write("Invoke", name, accept)
    <2>1. r.kind = "Invoke" /\ r.name = name /\ r.accept = accept /\ r.needed
      BY DEF Write, Request
    <2> HIDE DEF r
    <2>2. NameOf(r) = name
      BY <2>1 DEF NameOf, Changes
    <2>3. ASSUME NEW reply \in accept
          PROVE  Performs(r, reply) = {TRUE}
      <3>1. reply \in {"data", "zero", "job", "output"}
        BY DEF Certain, ReturnZero, ReturnJob, ReturnOrOutput, ReturnData
      <3> QED BY <1>1, <2>1, <3>1 DEF Performs
    <2> QED BY <1>1, <2>1, <2>2, <2>3 DEF StepFine, r
  <1>2. ASSUME NEW name, name # NoName
        PROVE  StepFine(Write("Invoke", name, ReturnZeroLoose), TRUE)
    <2> DEFINE r == Write("Invoke", name, ReturnZeroLoose)
    <2>1. r.kind = "Invoke" /\ r.name = name /\ r.accept = ReturnZeroLoose /\ r.needed
      BY DEF Write, Request
    <2> HIDE DEF r
    <2>2. NameOf(r) = name
      BY <2>1 DEF NameOf, Changes
    <2> QED BY <1>2, <2>1, <2>2 DEF StepFine, r
  <1>3. ASSUME NEW name, NEW last \in BOOLEAN, name # NoName, NEW kind \in {"Put", "Delete", "Create"},
               NEW accept, accept = NoFault \/ accept = Content
        PROVE  StepFine(Write(kind, name, accept), last)
    <2> DEFINE r == Write(kind, name, accept)
    <2>1. r.kind = kind /\ r.name = name /\ r.accept = accept /\ r.needed
      BY DEF Write, Request
    <2> HIDE DEF r
    <2>2. NameOf(r) = name /\ r.kind # "Enum" /\ r.kind # "Invoke" /\ r.kind # "Read"
      BY <2>1 DEF NameOf, Changes
    <2>3. ASSUME NEW reply \in Replies(kind) \cap accept
          PROVE  Performs(r, reply) = {TRUE}
      <3>1. reply \in {"data", "bare"}
        BY <1>3, <2>1, <2>2 DEF Replies, NoFault, Content, Broken, Bodies
      <3> QED BY <1>3, <2>1, <2>2, <3>1 DEF Performs
    <2> QED BY <1>3, <2>1, <2>2, <2>3 DEF StepFine, r
  <1>4. \A name, accept : \A last \in BOOLEAN : StepFine(Read(name, accept), last)
    BY DEF Read, Request, StepFine, NameOf, Changes
  <1>5. \A accept, needed : \A last \in BOOLEAN : StepFine(Request("Get", NoName, accept, needed), last)
    BY DEF Request, StepFine, NameOf, Changes
  <1>6. StepFine(Request("Enum", NoName, NoFault, TRUE), TRUE)
    BY DEF Request, StepFine, NameOf, Changes
  <1> QED BY <1>1, <1>2, <1>3, <1>4, <1>5, <1>6

LEMMA ShapesFine ==
    /\ \A steps, checked : ChainFine(steps) => PlanFine(Only(steps, checked))
    /\ \A condition : Sound("main") \in condition => PlanFine(Listing(condition))
    /\ \A branches, when : "main" \notin DOMAIN branches => PlanFine(Fan(branches, when))
    /\ \A r : StepFine(r, TRUE) => ChainFine(<<r>>)
    /\ \A r, s : StepFine(r, FALSE) /\ StepFine(s, TRUE) => ChainFine(<<r, s>>)
  <1>1. ASSUME NEW r, StepFine(r, TRUE)
        PROVE  ChainFine(<<r>>)
    <2> DEFINE q == <<r>>
    <2>1. Len(q) = 1 /\ q[1] = r
      OBVIOUS
    <2> HIDE DEF q
    <2>2. \A i \in 1..Len(q) : i = 1 /\ (i = Len(q)) = TRUE
      BY <2>1
    <2>3. Len(q) \in Nat \ {0}
      BY <2>1
    <2>4. \A i \in 1..Len(q) : StepFine(q[i], i = Len(q))
      BY <1>1, <2>1, <2>2
    <2> QED BY <2>3, <2>4 DEF ChainFine, q
  <1>2. ASSUME NEW r, NEW s, StepFine(r, FALSE), StepFine(s, TRUE)
        PROVE  ChainFine(<<r, s>>)
    <2> DEFINE q == <<r, s>>
    <2>1. Len(q) = 2 /\ q[1] = r /\ q[2] = s
      OBVIOUS
    <2> HIDE DEF q
    <2>2. Len(q) \in Nat \ {0} /\ \A i \in 1..Len(q) : i = 1 \/ i = 2
      BY <2>1
    <2>3. (1 = Len(q)) = FALSE /\ (2 = Len(q)) = TRUE
      BY <2>1
    <2>4. StepFine(q[1], 1 = Len(q)) /\ StepFine(q[2], 2 = Len(q))
      BY <1>2, <2>1, <2>3
    <2>5. \A i \in 1..Len(q) : StepFine(q[i], i = Len(q))
      BY <2>2, <2>4
    <2> QED BY <2>2, <2>5 DEF ChainFine, q
  <1>3. ASSUME NEW steps, NEW when, NEW checked, ChainFine(steps),
               \A conj \in when : Sound("main") \in conj
        PROVE  PlanFine([branches |-> [main |-> steps], ok |-> when, checked |-> checked])
    <2> DEFINE p == [branches |-> [main |-> steps], ok |-> when, checked |-> checked]
               m == [main |-> steps]
    <2>1. DOMAIN m = {"main"} /\ m["main"] = steps
      OBVIOUS
    <2> HIDE DEF m
    <2>2. p.branches = m /\ p.ok = when
      BY DEF m
    <2> HIDE DEF p
    <2> QED BY <1>3, <2>1, <2>2 DEF PlanFine, p
  <1>4. ASSUME NEW steps, NEW checked, ChainFine(steps)
        PROVE  PlanFine(Only(steps, checked))
    <2>1. \A conj \in {{Sound("main")}} : Sound("main") \in conj
      OBVIOUS
    <2> QED BY <1>3, <1>4, <2>1 DEF Only
  <1>5. ASSUME NEW condition, Sound("main") \in condition
        PROVE  PlanFine(Listing(condition))
    <2>1. ChainFine(Enum)
      BY <1>1, RequestsFine DEF Enum
    <2>2. \A conj \in {condition} : Sound("main") \in conj
      BY <1>5
    <2> QED BY <1>3, <2>1, <2>2 DEF Listing
  <1>6. ASSUME NEW branches, NEW when, "main" \notin DOMAIN branches
        PROVE  PlanFine(Fan(branches, when))
    <2>1. DOMAIN Fan(branches, when).branches \subseteq DOMAIN branches
      BY DEF Fan
    <2> QED BY <1>6, <2>1 DEF PlanFine
  <1> QED BY <1>1, <1>2, <1>4, <1>5, <1>6

LEMMA WritesFine ==
    /\ \A name, accept : accept \in Certain \cup {ReturnZeroLoose} /\ name # NoName =>
         /\ PlanFine(Invoke(name, accept)) /\ PlanFine(CheckedInvoke(name, accept))
         /\ PlanFine(One(<<Write("Invoke", name, accept)>>))
    /\ \A name : name # NoName =>
         /\ PlanFine(Put(name)) /\ PlanFine(Delete(name))
         /\ PlanFine(CheckedDelete(name)) /\ PlanFine(CheckedCreate(name))
  <1>1. ASSUME NEW name, NEW accept \in Certain \cup {ReturnZeroLoose}, name # NoName, NEW checked
        PROVE  PlanFine(Only(<<Write("Invoke", name, accept)>>, checked))
    <2> DEFINE r == Write("Invoke", name, accept)
    <2>1. StepFine(r, TRUE)
      BY <1>1, RequestsFine
    <2> HIDE DEF r
    <2> QED BY <2>1, ShapesFine DEF r
  <1>2. ASSUME NEW name, name # NoName, NEW checked
        PROVE  /\ PlanFine(Only(<<Write("Put", name, NoFault)>>, checked))
               /\ PlanFine(Only(<<Write("Delete", name, NoFault)>>, checked))
               /\ PlanFine(Only(<<Write("Create", name, Content)>>, checked))
    <2> DEFINE r == Write("Put", name, NoFault)
               s == Write("Delete", name, NoFault)
               t == Write("Create", name, Content)
    <2>1. StepFine(r, TRUE) /\ StepFine(s, TRUE) /\ StepFine(t, TRUE)
      BY <1>2, RequestsFine
    <2> HIDE DEF r, s, t
    <2> QED BY <2>1, ShapesFine DEF r, s, t
  <1> QED BY <1>1, <1>2 DEF Invoke, CheckedInvoke, One, Put, Delete, CheckedDelete, CheckedCreate

LEMMA ChainsFine ==
    /\ PlanFine(performBootAction) /\ PlanFine(performBootActionFrom)
    /\ PlanFine(getOptInStatus) /\ PlanFine(setKvmOptInPolicy) /\ PlanFine(setKvmSettings)
    /\ PlanFine(requestPowerStateChange)
  <1> DEFINE a == Write("Invoke", "ChangeBootOrder(clear)", ReturnZero)
             b == Write("Put", "AMT_BootSettingData", NoFault)
             c == Write("Invoke", "SetBootConfigRole", ReturnZero)
             d == Write("Invoke", "ChangeBootOrder(source)", ReturnZero)
             e == Write("Invoke", "RequestPowerStateChange", ReturnZero)
             boot == <<a, b, c>> \o <<>> \o <<e>>
             bootFrom == <<a, b, c>> \o <<d>> \o <<e>>
  <1>1. /\ "ChangeBootOrder(clear)" # NoName /\ "AMT_BootSettingData" # NoName
        /\ "SetBootConfigRole" # NoName /\ "ChangeBootOrder(source)" # NoName
        /\ "RequestPowerStateChange" # NoName /\ "kvm settings" # NoName
        /\ ReturnZero \in Certain
    BY DEF NoName, Certain
  <1>2. \A last \in BOOLEAN : /\ StepFine(a, last) /\ StepFine(b, last) /\ StepFine(c, last)
                              /\ StepFine(d, last) /\ StepFine(e, last)
    BY <1>1, RequestsFine
  <1>3. requestPowerStateChange.branches.main = <<e>>
    BY DEF requestPowerStateChange, Invoke, One, Only
  <1> HIDE DEF a, b, c, d, e
  <1>4. /\ performBootAction = One(boot) /\ performBootActionFrom = One(bootFrom)
    BY <1>3 DEF performBootAction, performBootActionFrom, BootAction, a, b, c, d, e
  <1>5. ChainFine(boot)
    <2>1. /\ Len(boot) = 4 /\ boot[1] = a /\ boot[2] = b /\ boot[3] = c /\ boot[4] = e
      OBVIOUS
    <2> HIDE DEF boot
    <2>2. /\ Len(boot) \in Nat \ {0}
          /\ \A i \in 1..Len(boot) : i = 1 \/ i = 2 \/ i = 3 \/ i = 4
          /\ \A i \in 1..Len(boot) : (i = Len(boot)) \in BOOLEAN
      BY <2>1
    <2>3. \A i \in 1..Len(boot) : StepFine(boot[i], i = Len(boot))
      BY <1>2, <2>1, <2>2
    <2> QED BY <2>2, <2>3 DEF ChainFine
  <1>6. ChainFine(bootFrom)
    <2>1. /\ Len(bootFrom) = 5 /\ bootFrom[1] = a /\ bootFrom[2] = b /\ bootFrom[3] = c
          /\ bootFrom[4] = d /\ bootFrom[5] = e
      OBVIOUS
    <2> HIDE DEF bootFrom
    <2>2. /\ Len(bootFrom) \in Nat \ {0}
          /\ \A i \in 1..Len(bootFrom) : i = 1 \/ i = 2 \/ i = 3 \/ i = 4 \/ i = 5
          /\ \A i \in 1..Len(bootFrom) : (i = Len(bootFrom)) \in BOOLEAN
      BY <2>1
    <2>3. \A i \in 1..Len(bootFrom) : StepFine(bootFrom[i], i = Len(bootFrom))
      BY <1>2, <2>1, <2>2
    <2> QED BY <2>2, <2>3 DEF ChainFine
  <1> HIDE DEF boot, bootFrom
  <1>7. PlanFine(performBootAction) /\ PlanFine(performBootActionFrom)
    BY <1>4, <1>5, <1>6, ShapesFine DEF One
  <1>8. PlanFine(getOptInStatus)
    <2> DEFINE r == Request("Get", NoName, NoFault, TRUE)
               s == Request("Get", NoName, NoFault, FALSE)
    <2>1. StepFine(r, FALSE) /\ StepFine(s, TRUE)
      BY RequestsFine
    <2> HIDE DEF r, s
    <2> QED BY <2>1, ShapesFine DEF getOptInStatus, One, r, s
  <1>9. PlanFine(setKvmOptInPolicy) /\ PlanFine(setKvmSettings)
    <2> DEFINE r == Read("kvm settings", NoFault)
               s == Write("Put", "kvm settings", NoFault)
    <2>1. StepFine(r, FALSE) /\ StepFine(s, TRUE)
      BY <1>1, RequestsFine
    <2> HIDE DEF r, s
    <2> QED BY <2>1, ShapesFine DEF setKvmSettings, setKvmOptInPolicy, One, r, s
  <1>10. PlanFine(requestPowerStateChange)
    BY <1>1, WritesFine DEF requestPowerStateChange
  <1> QED BY <1>7, <1>8, <1>9, <1>10

LEMMA ReadsFine ==
    /\ PlanFine(identify) /\ PlanFine(getPowerState) /\ PlanFine(getGeneralSettings)
    /\ PlanFine(getComputerSystem) /\ PlanFine(getBootCapabilities)
    /\ PlanFine(getSetupAndConfiguration) /\ PlanFine(getTimeSettings)
    /\ PlanFine(getAuditLogState) /\ PlanFine(getPublicPrivateKeyPair)
    /\ PlanFine(enumerateBootSourceSettings) /\ PlanFine(getMeVersion)
    /\ PlanFine(getWakeAlarms) /\ PlanFine(getActiveFilterStatistics)
    /\ PlanFine(executeBrowseGet) /\ PlanFine(executeBrowseEnumerate)
  <1>1. \A accept : PlanFine(One(Get(accept))) /\ PlanFine(One(<<Read(NoName, accept)>>))
    <2> SUFFICES ASSUME NEW accept
                 PROVE  PlanFine(One(Get(accept))) /\ PlanFine(One(<<Read(NoName, accept)>>))
      OBVIOUS
    <2> DEFINE r == Request("Get", NoName, accept, TRUE)
               s == Read(NoName, accept)
    <2>1. StepFine(r, TRUE) /\ StepFine(s, TRUE)
      BY RequestsFine
    <2> HIDE DEF r, s
    <2> QED BY <2>1, ShapesFine DEF Get, One, r, s
  <1>2. PlanFine(Listing({Sound("main")})) /\ PlanFine(Listing({Sound("main"), HasRow("main")}))
    BY ShapesFine
  <1> QED
    BY <1>1, <1>2 DEF identify, getPowerState, getGeneralSettings, getComputerSystem,
    getBootCapabilities, getSetupAndConfiguration, getTimeSettings, getAuditLogState,
    getPublicPrivateKeyPair, enumerateBootSourceSettings, getMeVersion, getWakeAlarms,
    getActiveFilterStatistics, executeBrowseGet, executeBrowseEnumerate

LEMMA JoinsFine ==
    /\ PlanFine(getEthernetSettings) /\ PlanFine(getRedirectionStatus)
    /\ PlanFine(getPowerSchemes) /\ PlanFine(getAgentPresence)
    /\ PlanFine(getEventSubscriptions) /\ PlanFine(getSystemDefense)
    /\ PlanFine(getHardwareInventory) /\ PlanFine(getDeviceCertStore)
    /\ PlanFine(getRemoteAccess) /\ PlanFine(getWireless) /\ PlanFine(getActiveSessions)
  <1>1. PlanFine(getEthernetSettings)
    BY ShapesFine DEF getEthernetSettings
  <1>2. PlanFine(getRedirectionStatus)
    BY ShapesFine DEF getRedirectionStatus
  <1>3. PlanFine(getPowerSchemes)
    BY ShapesFine DEF getPowerSchemes
  <1>4. PlanFine(getAgentPresence)
    BY ShapesFine DEF getAgentPresence
  <1>5. PlanFine(getEventSubscriptions)
    BY ShapesFine DEF getEventSubscriptions
  <1>6. PlanFine(getSystemDefense)
    BY ShapesFine DEF getSystemDefense
  <1>7. PlanFine(getHardwareInventory)
    BY ShapesFine DEF getHardwareInventory
  <1>8. PlanFine(getDeviceCertStore)
    BY ShapesFine DEF getDeviceCertStore
  <1>9. PlanFine(getRemoteAccess)
    BY ShapesFine DEF getRemoteAccess
  <1>10. PlanFine(getWireless)
    BY ShapesFine DEF getWireless
  <1>11. PlanFine(getActiveSessions)
    BY ShapesFine DEF getActiveSessions
  <1> QED BY <1>1, <1>2, <1>3, <1>4, <1>5, <1>6, <1>7, <1>8, <1>9, <1>10, <1>11

LEMMA PolicyWritesFine ==
    /\ PlanFine(registerWatchdogAgent) /\ PlanFine(deleteAgentPresenceWatchdog)
    /\ PlanFine(addAgentPresenceWatchdogAction) /\ PlanFine(deleteAgentPresenceWatchdogAction)
    /\ PlanFine(subscribeToEventFilter) /\ PlanFine(unsubscribeFromEventFilter)
    /\ PlanFine(addWakeAlarm) /\ PlanFine(deleteWakeAlarm) /\ PlanFine(deleteByInstanceId)
    /\ PlanFine(addHdr8021Filter) /\ PlanFine(addIpHeadersFilter)
    /\ PlanFine(addSystemDefensePolicy) /\ PlanFine(bindSystemDefensePolicyToPort)
    /\ PlanFine(unbindSystemDefensePolicyFromPort) /\ PlanFine(setPowerScheme)
    /\ PlanFine(setHighAccuracyTimeSync) /\ PlanFine(requestOsPowerStateChange)
    /\ PlanFine(addUserAclEntryEx)
  <1>1. /\ "RegisterAgent" # NoName /\ "watchdog" # NoName /\ "AddAction" # NoName
        /\ "watchdog action" # NoName /\ "subscription" # NoName /\ "AddAlarm" # NoName
        /\ "alarm" # NoName /\ "instance" # NoName /\ "802.1 filter" # NoName
        /\ "IP filter" # NoName /\ "policy" # NoName /\ "binding" # NoName
        /\ "SetPowerScheme" # NoName /\ "SetHighAccuracyTimeSynch" # NoName
        /\ "RequestOSPowerSavingStateChange" # NoName /\ "AddUserAclEntryEx" # NoName
    BY DEF NoName
  <1> QED
    BY <1>1, WritesFine DEF registerWatchdogAgent, deleteAgentPresenceWatchdog,
    addAgentPresenceWatchdogAction, deleteAgentPresenceWatchdogAction, subscribeToEventFilter,
    SubscribeRequest, CheckedCreate, CheckedDelete, unsubscribeFromEventFilter,
    UnsubscribeRequest, addWakeAlarm, deleteWakeAlarm, deleteByInstanceId, addHdr8021Filter,
    addIpHeadersFilter, addSystemDefensePolicy, bindSystemDefensePolicyToPort, BindRequest,
    unbindSystemDefensePolicyFromPort, UnbindRequest, setPowerScheme, setHighAccuracyTimeSync,
    requestOsPowerStateChange, addUserAclEntryEx, Certain

LEMMA AccountWritesFine ==
    /\ PlanFine(updateUserAclEntryEx) /\ PlanFine(removeUserAclEntry)
    /\ PlanFine(setAclEnabledState) /\ PlanFine(setAdminAclEntryEx) /\ PlanFine(startOptIn)
    /\ PlanFine(sendOptInCode) /\ PlanFine(cancelOptIn) /\ PlanFine(setKvmRedirectionEnabled)
    /\ PlanFine(addTrustedRootCertificate) /\ PlanFine(addCertificate)
    /\ PlanFine(deleteDeviceCertificate) /\ PlanFine(deleteDeviceKeyPair)
    /\ PlanFine(setTlsSettings) /\ PlanFine(generateKeyPair) /\ PlanFine(generatePkcs10Request)
    /\ PlanFine(bindCertToTlsEndpoint) /\ PlanFine(addHttpProxy) /\ PlanFine(deleteHttpProxy)
  <1>1. /\ "UpdateUserAclEntryEx" # NoName /\ "RemoveUserAclEntry" # NoName
        /\ "SetAclEnabledState" # NoName /\ "SetAdminAclEntryEx" # NoName
        /\ "StartOptIn" # NoName /\ "SendOptInCode" # NoName /\ "CancelOptIn" # NoName
        /\ "RequestStateChange" # NoName /\ "AddTrustedRootCertificate" # NoName
        /\ "AddCertificate" # NoName /\ "certificate" # NoName /\ "key pair" # NoName
        /\ "TLS settings" # NoName /\ "GenerateKeyPair" # NoName
        /\ "GeneratePKCS10RequestEx" # NoName /\ "TLS credential context" # NoName
        /\ "AddProxyAccessPoint" # NoName /\ "proxy" # NoName
    BY DEF NoName
  <1> QED
    BY <1>1, WritesFine DEF updateUserAclEntryEx, removeUserAclEntry, setAclEnabledState,
    setAdminAclEntryEx, startOptIn, sendOptInCode, cancelOptIn, setKvmRedirectionEnabled,
    addTrustedRootCertificate, addCertificate, deleteDeviceCertificate, deleteDeviceKeyPair,
    setTlsSettings, generateKeyPair, generatePkcs10Request, Pkcs10Request,
    bindCertToTlsEndpoint, CredentialContextPut, addHttpProxy, deleteHttpProxy, Put, Certain

LEMMA NetworkWritesFine ==
    /\ PlanFine(addWiFiSettingsPsk) /\ PlanFine(updateWiFiSettingsPsk)
    /\ PlanFine(deleteWiFiProfile) /\ PlanFine(deleteAllITWiFiProfiles)
    /\ PlanFine(deleteAllUserWiFiProfiles) /\ PlanFine(setWiFiPortState)
    /\ PlanFine(setWiFiSyncSettings) /\ PlanFine(setWired8021xProfile)
    /\ PlanFine(setEnvironmentDetection) /\ PlanFine(setUserInitiatedConnectionState)
    /\ PlanFine(addMpServer) /\ PlanFine(updateMpServer) /\ PlanFine(removeMpServer)
    /\ PlanFine(addRemoteAccessPolicyRule) /\ PlanFine(removeRemoteAccessPolicyRule)
    /\ PlanFine(clearAuditLog) /\ PlanFine(clearEventLog)
  <1>1. /\ "AddWiFiSettings" # NoName /\ "UpdateWiFiSettings" # NoName
        /\ "wifi profile" # NoName /\ "DeleteAllITProfiles" # NoName
        /\ "DeleteAllUserProfiles" # NoName /\ "RequestStateChange" # NoName
        /\ "wifi sync settings" # NoName /\ "802.1x profile" # NoName
        /\ "environment detection" # NoName /\ "AddMpServer" # NoName /\ "MPS" # NoName
        /\ "AddRemoteAccessPolicyRule" # NoName /\ "policy rule" # NoName /\ "ClearLog" # NoName
    BY DEF NoName
  <1> QED
    BY <1>1, WritesFine DEF addWiFiSettingsPsk, WiFiRequest, updateWiFiSettingsPsk,
    deleteWiFiProfile, deleteAllITWiFiProfiles, deleteAllUserWiFiProfiles, setWiFiPortState,
    setWiFiSyncSettings, setWired8021xProfile, setEnvironmentDetection,
    setUserInitiatedConnectionState, addMpServer, updateMpServer, removeMpServer,
    addRemoteAccessPolicyRule, removeRemoteAccessPolicyRule, clearAuditLog, clearEventLog,
    Certain

\* Every operation of the catalogue is fine, and none is one of the paged reads.
LEMMA CatalogueFine ==
    \A o \in DOMAIN Catalogue : PlanFine(Catalogue[o]) /\ o \notin Readers
  <1>1. \A o \in DOMAIN Catalogue : o \notin Readers
    BY DEF Catalogue, Readers
  <1> DEFINE Reads ==
                 {"identify", "getPowerState", "getGeneralSettings", "getComputerSystem",
                  "getBootCapabilities", "getSetupAndConfiguration", "getTimeSettings",
                  "getAuditLogState", "getPublicPrivateKeyPair", "enumerateBootSourceSettings",
                  "getMeVersion", "getWakeAlarms", "getActiveFilterStatistics",
                  "executeBrowseGet", "executeBrowseEnumerate"}
             Joins ==
                 {"getEthernetSettings", "getRedirectionStatus", "getPowerSchemes",
                  "getAgentPresence", "getEventSubscriptions", "getSystemDefense",
                  "getHardwareInventory", "getDeviceCertStore", "getRemoteAccess", "getWireless",
                  "getActiveSessions"}
             Chains ==
                 {"requestPowerStateChange", "performBootAction", "performBootActionFrom",
                  "getOptInStatus", "setKvmOptInPolicy", "setKvmSettings"}
             PolicyWrites ==
                 {"registerWatchdogAgent", "deleteAgentPresenceWatchdog",
                  "addAgentPresenceWatchdogAction", "deleteAgentPresenceWatchdogAction",
                  "subscribeToEventFilter", "unsubscribeFromEventFilter", "addWakeAlarm",
                  "deleteWakeAlarm", "deleteByInstanceId", "addHdr8021Filter",
                  "addIpHeadersFilter", "addSystemDefensePolicy",
                  "bindSystemDefensePolicyToPort", "unbindSystemDefensePolicyFromPort",
                  "setPowerScheme", "setHighAccuracyTimeSync", "requestOsPowerStateChange",
                  "addUserAclEntryEx"}
             AccountWrites ==
                 {"updateUserAclEntryEx", "removeUserAclEntry", "setAclEnabledState",
                  "setAdminAclEntryEx", "startOptIn", "sendOptInCode", "cancelOptIn",
                  "setKvmRedirectionEnabled", "addTrustedRootCertificate", "addCertificate",
                  "deleteDeviceCertificate", "deleteDeviceKeyPair", "setTlsSettings",
                  "generateKeyPair", "generatePkcs10Request", "bindCertToTlsEndpoint",
                  "addHttpProxy", "deleteHttpProxy"}
             NetworkWrites ==
                 {"addWiFiSettingsPsk", "updateWiFiSettingsPsk", "deleteWiFiProfile",
                  "deleteAllITWiFiProfiles", "deleteAllUserWiFiProfiles", "setWiFiPortState",
                  "setWiFiSyncSettings", "setWired8021xProfile", "setEnvironmentDetection",
                  "setUserInitiatedConnectionState", "addMpServer", "updateMpServer",
                  "removeMpServer", "addRemoteAccessPolicyRule", "removeRemoteAccessPolicyRule",
                  "clearAuditLog", "clearEventLog"}
  <1>2. \A o \in Reads : PlanFine(Catalogue[o])
    <2>1. /\ Catalogue["identify"] = identify /\ Catalogue["getPowerState"] = getPowerState
          /\ Catalogue["getGeneralSettings"] = getGeneralSettings
          /\ Catalogue["getComputerSystem"] = getComputerSystem
          /\ Catalogue["getBootCapabilities"] = getBootCapabilities
          /\ Catalogue["getSetupAndConfiguration"] = getSetupAndConfiguration
          /\ Catalogue["getTimeSettings"] = getTimeSettings
          /\ Catalogue["getAuditLogState"] = getAuditLogState
          /\ Catalogue["getPublicPrivateKeyPair"] = getPublicPrivateKeyPair
          /\ Catalogue["enumerateBootSourceSettings"] = enumerateBootSourceSettings
          /\ Catalogue["getMeVersion"] = getMeVersion
          /\ Catalogue["getWakeAlarms"] = getWakeAlarms
          /\ Catalogue["getActiveFilterStatistics"] = getActiveFilterStatistics
          /\ Catalogue["executeBrowseGet"] = executeBrowseGet
          /\ Catalogue["executeBrowseEnumerate"] = executeBrowseEnumerate
      BY DEF Catalogue
    <2> QED BY <2>1, ReadsFine
  <1>3. \A o \in Joins : PlanFine(Catalogue[o])
    <2>1. /\ Catalogue["getEthernetSettings"] = getEthernetSettings
          /\ Catalogue["getRedirectionStatus"] = getRedirectionStatus
          /\ Catalogue["getPowerSchemes"] = getPowerSchemes
          /\ Catalogue["getAgentPresence"] = getAgentPresence
          /\ Catalogue["getEventSubscriptions"] = getEventSubscriptions
          /\ Catalogue["getSystemDefense"] = getSystemDefense
          /\ Catalogue["getHardwareInventory"] = getHardwareInventory
          /\ Catalogue["getDeviceCertStore"] = getDeviceCertStore
          /\ Catalogue["getRemoteAccess"] = getRemoteAccess
          /\ Catalogue["getWireless"] = getWireless
          /\ Catalogue["getActiveSessions"] = getActiveSessions
      BY DEF Catalogue
    <2> QED BY <2>1, JoinsFine
  <1>4. \A o \in Chains : PlanFine(Catalogue[o])
    <2>1. /\ Catalogue["requestPowerStateChange"] = requestPowerStateChange
          /\ Catalogue["performBootAction"] = performBootAction
          /\ Catalogue["performBootActionFrom"] = performBootActionFrom
          /\ Catalogue["getOptInStatus"] = getOptInStatus
          /\ Catalogue["setKvmOptInPolicy"] = setKvmOptInPolicy
          /\ Catalogue["setKvmSettings"] = setKvmSettings
      BY DEF Catalogue
    <2> QED BY <2>1, ChainsFine
  <1>5. \A o \in PolicyWrites : PlanFine(Catalogue[o])
    <2>1. /\ Catalogue["registerWatchdogAgent"] = registerWatchdogAgent
          /\ Catalogue["deleteAgentPresenceWatchdog"] = deleteAgentPresenceWatchdog
          /\ Catalogue["addAgentPresenceWatchdogAction"] = addAgentPresenceWatchdogAction
          /\ Catalogue["deleteAgentPresenceWatchdogAction"] = deleteAgentPresenceWatchdogAction
          /\ Catalogue["subscribeToEventFilter"] = subscribeToEventFilter
          /\ Catalogue["unsubscribeFromEventFilter"] = unsubscribeFromEventFilter
          /\ Catalogue["addWakeAlarm"] = addWakeAlarm
          /\ Catalogue["deleteWakeAlarm"] = deleteWakeAlarm
          /\ Catalogue["deleteByInstanceId"] = deleteByInstanceId
          /\ Catalogue["addHdr8021Filter"] = addHdr8021Filter
          /\ Catalogue["addIpHeadersFilter"] = addIpHeadersFilter
          /\ Catalogue["addSystemDefensePolicy"] = addSystemDefensePolicy
          /\ Catalogue["bindSystemDefensePolicyToPort"] = bindSystemDefensePolicyToPort
          /\ Catalogue["unbindSystemDefensePolicyFromPort"] = unbindSystemDefensePolicyFromPort
          /\ Catalogue["setPowerScheme"] = setPowerScheme
          /\ Catalogue["setHighAccuracyTimeSync"] = setHighAccuracyTimeSync
          /\ Catalogue["requestOsPowerStateChange"] = requestOsPowerStateChange
          /\ Catalogue["addUserAclEntryEx"] = addUserAclEntryEx
      BY DEF Catalogue
    <2> QED BY <2>1, PolicyWritesFine
  <1>6. \A o \in AccountWrites : PlanFine(Catalogue[o])
    <2>1. /\ Catalogue["updateUserAclEntryEx"] = updateUserAclEntryEx
          /\ Catalogue["removeUserAclEntry"] = removeUserAclEntry
          /\ Catalogue["setAclEnabledState"] = setAclEnabledState
          /\ Catalogue["setAdminAclEntryEx"] = setAdminAclEntryEx
          /\ Catalogue["startOptIn"] = startOptIn /\ Catalogue["sendOptInCode"] = sendOptInCode
          /\ Catalogue["cancelOptIn"] = cancelOptIn
          /\ Catalogue["setKvmRedirectionEnabled"] = setKvmRedirectionEnabled
          /\ Catalogue["addTrustedRootCertificate"] = addTrustedRootCertificate
          /\ Catalogue["addCertificate"] = addCertificate
          /\ Catalogue["deleteDeviceCertificate"] = deleteDeviceCertificate
          /\ Catalogue["deleteDeviceKeyPair"] = deleteDeviceKeyPair
          /\ Catalogue["setTlsSettings"] = setTlsSettings
          /\ Catalogue["generateKeyPair"] = generateKeyPair
          /\ Catalogue["generatePkcs10Request"] = generatePkcs10Request
          /\ Catalogue["bindCertToTlsEndpoint"] = bindCertToTlsEndpoint
          /\ Catalogue["addHttpProxy"] = addHttpProxy
          /\ Catalogue["deleteHttpProxy"] = deleteHttpProxy
      BY DEF Catalogue
    <2> QED BY <2>1, AccountWritesFine
  <1>7. \A o \in NetworkWrites : PlanFine(Catalogue[o])
    <2>1. /\ Catalogue["addWiFiSettingsPsk"] = addWiFiSettingsPsk
          /\ Catalogue["updateWiFiSettingsPsk"] = updateWiFiSettingsPsk
          /\ Catalogue["deleteWiFiProfile"] = deleteWiFiProfile
          /\ Catalogue["deleteAllITWiFiProfiles"] = deleteAllITWiFiProfiles
          /\ Catalogue["deleteAllUserWiFiProfiles"] = deleteAllUserWiFiProfiles
          /\ Catalogue["setWiFiPortState"] = setWiFiPortState
          /\ Catalogue["setWiFiSyncSettings"] = setWiFiSyncSettings
          /\ Catalogue["setWired8021xProfile"] = setWired8021xProfile
          /\ Catalogue["setEnvironmentDetection"] = setEnvironmentDetection
          /\ Catalogue["setUserInitiatedConnectionState"] = setUserInitiatedConnectionState
          /\ Catalogue["addMpServer"] = addMpServer
          /\ Catalogue["updateMpServer"] = updateMpServer
          /\ Catalogue["removeMpServer"] = removeMpServer
          /\ Catalogue["addRemoteAccessPolicyRule"] = addRemoteAccessPolicyRule
          /\ Catalogue["removeRemoteAccessPolicyRule"] = removeRemoteAccessPolicyRule
          /\ Catalogue["clearAuditLog"] = clearAuditLog
          /\ Catalogue["clearEventLog"] = clearEventLog
      BY DEF Catalogue
    <2> QED BY <2>1, NetworkWritesFine
  <1>8. DOMAIN Catalogue = Reads \cup Joins \cup Chains
                           \cup PolicyWrites \cup AccountWrites \cup NetworkWrites
    BY DEF Catalogue
  <1> HIDE DEF Reads, Joins, Chains, PolicyWrites, AccountWrites, NetworkWrites
  <1> QED BY <1>1, <1>2, <1>3, <1>4, <1>5, <1>6, <1>7, <1>8

-----------------------------------------------------------------------------
(* Pages of a list.                                                        *)

LEMMA PageSizes == PageSize \in Nat \ {0} /\ MaxEntries \in Nat
  BY PagingAssumption

LEMMA PageIs ==
    ASSUME log \in Seq(BOOLEAN), NEW f \in Nat \ {0}
    PROVE  LET page == OnPage(f)
           IN  /\ page \in Seq(Nat) /\ Len(page) \in Nat
               /\ \A k \in 1..Len(page) : page[k] = f + k - 1
               /\ f <= Len(log) + 1 =>
                    /\ f + Len(page) <= Len(log) + 1
                    /\ Len(page) = 0 => f = Len(log) + 1
                    /\ Len(page) < PageSize => f + Len(page) = Len(log) + 1
  <1> DEFINE page == OnPage(f)
             m == IF f > Len(log) THEN 0
                  ELSE IF Len(log) - f + 1 < PageSize THEN Len(log) - f + 1 ELSE PageSize
  <1>1. PageSize \in Nat \ {0} /\ Len(log) \in Nat
    BY PageSizes
  <1>2. m \in Nat
    BY <1>1
  <1>3. f <= Len(log) + 1 =>
                    /\ f + m <= Len(log) + 1
                    /\ m = 0 => f = Len(log) + 1
                    /\ m < PageSize => f + m = Len(log) + 1
    BY <1>1
  <1>4. page = [k \in 1..m |-> f + k - 1]
    BY DEF OnPage
  <1> HIDE DEF m, page
  <1>5. \A k \in 1..m : f + k - 1 \in Nat
    BY <1>2
  <1>6. page \in Seq(Nat) /\ Len(page) = m /\ \A k \in 1..m : page[k] = f + k - 1
    BY <1>2, <1>4, <1>5
  <1>7. f <= Len(log) + 1 =>
                    /\ f + Len(page) <= Len(log) + 1
                    /\ Len(page) = 0 => f = Len(log) + 1
                    /\ Len(page) < PageSize => f + Len(page) = Len(log) + 1
    BY <1>3, <1>6
  <1> QED BY <1>2, <1>6, <1>7 DEF page

LEMMA UpToIs ==
    ASSUME NEW n \in Nat
    PROVE  UpTo(n) \in Seq(Nat) /\ Len(UpTo(n)) = n /\ \A i \in 1..n : UpTo(n)[i] = i
  BY DEF UpTo

LEMMA ReadTyped ==
    /\ \A n \in Nat : ReadOf(log, n) \in Seq(Nat)
    /\ \A q \in Seq(Nat) : Decoded(q) \in Seq(Nat)
    /\ ReadOf(log, 0) = <<>>
  <1>1. \A q \in Seq(Nat) : Decoded(q) \in Seq(Nat)
    BY AmongTyped DEF Decoded
  <1>2. UpTo(0) = <<>>
    BY DEF UpTo
  <1>3. Decoded(<<>>) = <<>>
    BY AmongNone DEF Decoded
  <1> QED BY <1>1, <1>2, <1>3, UpToIs DEF ReadOf, Decoded

\* A page more.
LEMMA ReadOn ==
    ASSUME NEW f \in Nat \ {0}, NEW page \in Seq(Nat), NEW m \in Nat, Len(page) = m,
           \A k \in 1..m : page[k] = f + k - 1
    PROVE  ReadOf(log, f + m - 1) = ReadOf(log, f - 1) \o Decoded(page)
  <1> DEFINE n == f - 1
             a == UpTo(n)
             b == UpTo(f + m - 1)
             c == a \o page
             S == {r \in DOMAIN log : log[r]}
  <1>1. n \in Nat /\ f + m - 1 \in Nat /\ f + m - 1 = n + m
    OBVIOUS
  <1>2. /\ a \in Seq(Nat) /\ Len(a) = n /\ \A i \in 1..n : a[i] = i
        /\ b \in Seq(Nat) /\ Len(b) = n + m /\ \A i \in 1..(n + m) : b[i] = i
    BY <1>1, UpToIs
  <1>3. \A k \in 1..m : page[k] = n + k
    OBVIOUS
  <1> HIDE DEF n, a, b
  <1>4. /\ c \in Seq(Nat) /\ Len(c) = n + m
        /\ \A i \in 1..(n + m) : c[i] = IF i <= n THEN a[i] ELSE page[i - n]
    <2>1. a \in Seq(Nat) /\ Len(a) = n
      BY <1>2
    <2> HIDE DEF c
    <2>2. c \in Seq(Nat) /\ Len(c) = Len(a) + Len(page)
      BY <2>1 DEF c
    <2>3. \A i \in 1..(Len(a) + Len(page)) : c[i] = IF i <= Len(a) THEN a[i] ELSE page[i - Len(a)]
      BY <2>1, SMTT(30) DEF c
    <2> QED BY <2>1, <2>2, <2>3
  <1>5. ASSUME NEW i \in 1..(n + m)
        PROVE  b[i] = c[i]
    <2> HIDE DEF c
    <2>1. CASE i <= n
      BY <1>1, <1>2, <1>4, <2>1
    <2>2. CASE ~(i <= n)
      <3>1. i - n \in 1..m /\ n + (i - n) = i
        BY <1>1, <2>2
      <3> QED BY <1>1, <1>2, <1>3, <1>4, <2>2, <3>1
    <2> QED BY <2>1, <2>2
  <1>6. Among(c, S) = Among(a, S) \o Among(page, S)
    <2> HIDE DEF S
    <2> QED BY <1>2, AmongJoins
  <1> HIDE DEF c
  <1>7. b = c
    BY <1>1, <1>2, <1>4, <1>5
  <1> QED BY <1>6, <1>7 DEF ReadOf, Decoded, a, b, n

\* Nothing is left out where everything can be decoded.
LEMMA ReadAll ==
    ASSUME log \in Seq(BOOLEAN), Regular
    PROVE  /\ \A q \in Seq(Nat) :
                (\A i \in 1..Len(q) : q[i] \in 1..Len(log)) => Decoded(q) = q
           /\ \A n \in 0..Len(log) : ReadOf(log, n) = UpTo(n)
  <1> DEFINE S == {r \in DOMAIN log : log[r]}
  <1>1. \A i \in 1..Len(log) : i \in S
    BY DEF Regular
  <1> HIDE DEF S
  <1>2. ASSUME NEW q \in Seq(Nat), \A i \in 1..Len(q) : q[i] \in 1..Len(log)
        PROVE  Decoded(q) = q
    <2>1. Among(q, S) = q
      BY <1>1, <1>2, AmongAll
    <2> QED BY <2>1 DEF Decoded, S
  <1>3. ASSUME NEW n \in 0..Len(log)
        PROVE  ReadOf(log, n) = UpTo(n)
    <2>1. n \in Nat /\ \A i \in 1..n : i \in 1..Len(log)
      OBVIOUS
    <2> DEFINE q == UpTo(n)
    <2>2. q \in Seq(Nat) /\ \A i \in 1..Len(q) : q[i] \in 1..Len(log)
      BY <2>1, UpToIs
    <2> HIDE DEF q
    <2> QED BY <1>2, <2>2 DEF ReadOf, Decoded, q
  <1> QED BY <1>2, <1>3

LEMMA AsksAre ==
    /\ Nothing.what # "page" /\ Position.what # "page" /\ Position # Nothing
    /\ \A i \in Nat \ {0} : Page(i) \in PageAsks /\ Page(i).what = "page" /\ Page(i).from = i
    /\ \A a \in PageAsks : /\ a.what = "page" /\ a.from \in Nat \ {0}
                           /\ a # Nothing /\ a # Position
  BY DEF Nothing, Position, Page, PageAsks

\* The page that starts at record f: what the loop has when it has read it.
LEMMA PageRead ==
    ASSUME log \in Seq(BOOLEAN), NEW f \in Nat \ {0}, f <= Len(log) + 1,
           entries = ReadOf(log, f - 1)
    PROVE  LET page == OnPage(f)
               end == f + Len(page)
           IN  /\ end \in Nat \ {0} /\ end <= Len(log) + 1
               /\ entries \o Decoded(page) = ReadOf(log, end - 1)
  <1> DEFINE page == OnPage(f)
             m == Len(page)
  <1>1. /\ page \in Seq(Nat) /\ m \in Nat /\ \A k \in 1..m : page[k] = f + k - 1
        /\ f + m <= Len(log) + 1
    BY PageIs
  <1> HIDE DEF page
  <1>2. ReadOf(log, f + m - 1) = ReadOf(log, f - 1) \o Decoded(page)
    BY <1>1, ReadOn
  <1>3. f + m \in Nat \ {0}
    BY <1>1
  <1> QED BY <1>1, <1>2, <1>3 DEF page

\* What has been read is the beginning of what there is.
LEMMA ReadIsPrefix ==
    ASSUME log \in Seq(BOOLEAN), NEW n \in 0..Len(log)
    PROVE  \E d \in Seq(Nat) : ReadOf(log, Len(log)) = ReadOf(log, n) \o d
  <1> DEFINE m == Len(log) - n
             f == n + 1
             page == [k \in 1..m |-> f + k - 1]
  <1>1. m \in Nat /\ f \in Nat \ {0} /\ f + m - 1 = Len(log) /\ f - 1 = n
    OBVIOUS
  <1> HIDE DEF m, f
  <1>2. \A k \in 1..m : f + k - 1 \in Nat
    BY <1>1
  <1>3. page \in Seq(Nat) /\ Len(page) = m /\ \A k \in 1..m : page[k] = f + k - 1
    BY <1>1, <1>2
  <1> HIDE DEF page
  <1>4. ReadOf(log, f + m - 1) = ReadOf(log, f - 1) \o Decoded(page)
    BY <1>1, <1>3, ReadOn
  <1>5. Decoded(page) \in Seq(Nat)
    BY <1>3, ReadTyped
  <1> QED BY <1>1, <1>4, <1>5

LEMMA CapOf ==
    ASSUME NEW q \in Seq(Nat), NEW d \in Seq(Nat), Len(q) >= MaxEntries
    PROVE  Capped(q \o d) = SubSeq(q, 1, MaxEntries)
  <1> DEFINE r == q \o d
             a == SubSeq(r, 1, MaxEntries)
             b == SubSeq(q, 1, MaxEntries)
  <1>1. /\ MaxEntries \in Nat /\ Len(q) \in Nat /\ r \in Seq(Nat) /\ Len(r) >= Len(q)
        /\ Len(r) \in Nat
    BY PageSizes
  <1>2. \A i \in 1..Len(q) : r[i] = q[i]
    OBVIOUS
  <1> HIDE DEF r
  <1>3. /\ a \in Seq(Nat) /\ Len(a) = MaxEntries /\ \A i \in 1..MaxEntries : a[i] = r[i]
        /\ b \in Seq(Nat) /\ Len(b) = MaxEntries /\ \A i \in 1..MaxEntries : b[i] = q[i]
    BY <1>1, SMTT(30)
  <1>4. \A i \in 1..MaxEntries : i \in 1..Len(q)
    BY <1>1
  <1> HIDE DEF a, b
  <1>5. a = b
    <2>1. \A i \in 1..MaxEntries : a[i] = b[i]
      BY <1>2, <1>3, <1>4
    <2> QED BY <1>1, <1>3, <2>1, SeqEqual
  <1>6. CASE Len(r) > MaxEntries
    <2>1. Capped(r) = a
      BY <1>6 DEF Capped, a
    <2>2. Capped(r) = b
      BY <1>5, <2>1
    <2> QED BY <2>2 DEF b, r
  <1>7. CASE ~(Len(r) > MaxEntries)
    <2>1. Len(r) = MaxEntries
      BY <1>1, <1>7
    <2>2. a = r
      <3>1. a \in Seq(Nat) /\ r \in Seq(Nat) /\ Len(a) = Len(r)
        BY <1>1, <1>3, <2>1
      <3>2. \A i \in 1..Len(r) : a[i] = r[i]
        BY <1>3, <2>1
      <3> QED BY <3>1, <3>2, SeqEqual
    <2>3. Capped(r) = b
      BY <1>5, <1>7, <2>2 DEF Capped
    <2> QED BY <2>3 DEF b, r
  <1> QED BY <1>6, <1>7

\* What the cap leaves is a beginning, and all of it if it is short enough.
LEMMA CappedIs ==
    ASSUME NEW q \in Seq(Nat)
    PROVE  /\ Len(Capped(q)) <= MaxEntries
           /\ Len(Capped(q)) = Len(q) \/ Len(Capped(q)) = MaxEntries
           /\ \A d \in Seq(Nat) : IsPrefix(Capped(q), q \o d)
  <1> DEFINE c == Capped(q)
  <1>0. MaxEntries \in Nat /\ Len(q) \in Nat
    BY PageSizes
  <1>1. PICK n \in 0..Len(q) : /\ c = SubSeq(q, 1, n) /\ n <= MaxEntries
                               /\ n = Len(q) \/ n = MaxEntries
    <2>1. CASE Len(q) > MaxEntries
      <3>1. c = SubSeq(q, 1, MaxEntries) /\ MaxEntries \in 0..Len(q)
        BY <1>0, <2>1 DEF Capped
      <3> HIDE DEF c
      <3> QED BY <1>0, <3>1
    <2>2. CASE ~(Len(q) > MaxEntries)
      <3>1. c = q
        BY <2>2 DEF Capped
      <3>2. SubSeq(q, 1, Len(q)) = q
        OBVIOUS
      <3> HIDE DEF c
      <3>3. Len(q) \in 0..Len(q) /\ Len(q) <= MaxEntries
        BY <1>0, <2>2
      <3>4. c = SubSeq(q, 1, Len(q))
        BY <3>1, <3>2
      <3> QED BY <3>3, <3>4
    <2> QED BY <2>1, <2>2
  <1> HIDE DEF c
  <1>2. Len(c) = n /\ n \in Nat /\ c \in Seq(Nat) /\ \A i \in 1..n : c[i] = q[i]
    BY <1>0, <1>1
  <1>3. ASSUME NEW d \in Seq(Nat)
        PROVE  IsPrefix(c, q \o d)
    <2> DEFINE r == q \o d
               s == SubSeq(r, 1, n)
               t == SubSeq(c, 1, n)
    <2>1. r \in Seq(Nat) /\ Len(r) >= Len(q) /\ Len(r) \in Nat /\ \A i \in 1..Len(q) : r[i] = q[i]
      BY <1>0
    <2> HIDE DEF r
    <2>2. t \in Seq(Nat) /\ Len(t) = n /\ \A i \in 1..n : t[i] = c[i]
      BY <1>2
    <2>3. n <= Len(r)
      BY <1>0, <1>1, <2>1
    <2>4. s \in Seq(Nat) /\ Len(s) = n /\ \A i \in 1..n : s[i] = r[i]
      BY <1>2, <2>1, <2>3
    <2>5. \A i \in 1..n : i \in 1..Len(q)
      BY <1>0, <1>1
    <2> HIDE DEF s, t
    <2>6. s = t
      <3>1. \A i \in 1..n : s[i] = t[i]
        BY <1>2, <2>1, <2>2, <2>4, <2>5
      <3> QED BY <2>2, <2>4, <3>1, SeqEqual
    <2> QED BY <1>2, <2>3, <2>6 DEF IsPrefix, r, s, t
  <1> QED BY <1>0, <1>1, <1>2, <1>3 DEF c

-----------------------------------------------------------------------------
(* The event log and the audit log.                                        *)

LEMMA EventPage ==
    ASSUME ReaderTypes, EventOk, op = "enumerateEventLog", calls \in {0, 1}, ok \in BOOLEAN,
           NEW page \in {OnPage(ask.from), <<>>}, NEW says \in {"noMore", "more", "neither"},
           GetRecords(page, says)
    PROVE  EventOk' /\ entries' \in Seq(Nat) /\ calls' \in {0, 1} /\ ok' \in BOOLEAN
  <1> DEFINE f == ask.from
             end == f + Len(page)
             new == Decoded(page)
             all == entries \o new
  <1>1. /\ ask.what = "page" /\ UNCHANGED <<log, details, adminOut>>
        /\ \/ /\ Len(all) >= MaxEntries /\ new # <<>>
              /\ entries' = SubSeq(all, 1, MaxEntries)
              /\ calls' = calls + 1 /\ ok' = TRUE /\ ask' = Nothing
           \/ /\ ~(Len(all) >= MaxEntries /\ new # <<>>)
              /\ entries' = all /\ (end > Len(log) \/ cut' = TRUE)
              /\ calls' = calls + 1 /\ ok' = TRUE /\ ask' = Nothing
           \/ /\ ~(Len(all) >= MaxEntries /\ new # <<>>)
              /\ entries' = all
              /\ ask' \in {Page(end), Nothing} /\ UNCHANGED <<calls, ok>>
    <2>1. /\ ask.what = "page" /\ UNCHANGED <<log, details, adminOut>>
          /\ says = "noMore" => end > Len(log)
      BY DEF GetRecords, list, accounts
    <2>2. CASE Len(all) >= MaxEntries /\ new # <<>>
      BY <2>1, <2>2 DEF GetRecords, Done, CallBack
    <2>3. CASE ~(Len(all) >= MaxEntries /\ new # <<>>) /\ says = "more"
      BY <2>1, <2>3 DEF GetRecords, AskNext
    <2>4. CASE ~(Len(all) >= MaxEntries /\ new # <<>>) /\ says # "more"
      <3>1. /\ entries' = all /\ calls' = calls + 1 /\ ok' = TRUE /\ ask' = Nothing
            /\ cut' = (says = "neither" /\ end <= Len(log))
        BY <2>4 DEF GetRecords, Done, CallBack
      <3>2. Len(log) \in Nat /\ end \in Int
        <4>1. log \in Seq(BOOLEAN) /\ f \in Nat \ {0}
          BY <2>1, AsksAre DEF ReaderTypes, EventOk
        <4>2. Len(page) \in Nat
          <5>1. CASE page = OnPage(f)
            BY <4>1, <5>1, PageIs
          <5>2. CASE page = <<>>
            BY <5>2
          <5> QED BY <5>1, <5>2
        <4> HIDE DEF f
        <4> QED BY <4>1, <4>2
      <3> HIDE DEF end, all, new
      <3>3. end > Len(log) \/ cut' = TRUE
        <4>1. CASE end <= Len(log)
          <5>1. says = "neither"
            BY <2>1, <2>4, <3>2, <4>1
          <5> DEFINE P == says = "neither" /\ end <= Len(log)
          <5>2. cut' = P
            BY <3>1
          <5>3. P = TRUE
            BY <4>1, <5>1
          <5> HIDE DEF P
          <5>4. cut' = TRUE
            BY <5>2, <5>3
          <5> QED BY <5>4, Zenon
        <4>2. end <= Len(log) \/ end > Len(log)
          BY <3>2
        <4> QED BY <4>1, <4>2, Zenon
      <3> QED BY <2>1, <2>4, <3>1, <3>3
    <2> QED BY <2>2, <2>3, <2>4
  <1>2. /\ f \in Nat \ {0} /\ f <= Len(log) + 1 /\ entries = ReadOf(log, f - 1)
        /\ Len(entries) < MaxEntries \/ entries = <<>>
        /\ calls = 0 /\ details = {} /\ adminOut = FALSE
    BY <1>1, AsksAre DEF EventOk
  <1>3. log \in Seq(BOOLEAN) /\ Len(log) \in Nat /\ entries \in Seq(Nat) /\ MaxEntries \in Nat
    BY PageSizes DEF ReaderTypes
  <1>4. page \in Seq(Nat) /\ Len(page) \in Nat
    <2>1. CASE page = OnPage(f)
      BY <1>2, <1>3, <2>1, PageIs
    <2>2. CASE page = <<>>
      BY <2>2
    <2> QED BY <2>1, <2>2
  <1>5. /\ end \in Nat \ {0} /\ end <= Len(log) + 1
        /\ all = ReadOf(log, end - 1)
    <2>1. CASE page = OnPage(f)
      <3> HIDE DEF f
      <3> QED BY <1>2, <1>3, <2>1, PageRead
    <2>2. CASE page = <<>>
      <3>1. new = <<>>
        BY <2>2, AmongNone DEF Decoded
      <3>2. end = f
        <4>1. end = f + 0
          BY <2>2
        <4> HIDE DEF f, end
        <4> QED BY <1>2, <4>1
      <3>3. all = entries
        BY <1>3, <3>1
      <3> HIDE DEF f, end, all
      <3> QED BY <1>2, <3>2, <3>3
    <2> QED BY <2>1, <2>2
  <1> HIDE DEF f
  <1>6. new \in Seq(Nat)
    BY <1>4, ReadTyped
  <1> HIDE DEF end, new
  <1>7. all \in Seq(Nat) /\ Len(all) \in Nat
    BY <1>3, <1>6
  <1>8. new = <<>> => all = entries
    BY <1>3
  <1> HIDE DEF all
  <1>9. CASE /\ Len(all) >= MaxEntries /\ new # <<>>
             /\ entries' = SubSeq(all, 1, MaxEntries)
             /\ calls' = calls + 1 /\ ok' = TRUE /\ ask' = Nothing
    <2>1. entries' \in Seq(Nat)
      BY <1>3, <1>7, <1>9
    <2>2. entries' = Capped(ReadOf(log, Len(log)))
      <3>1. end - 1 \in 0..Len(log)
        BY <1>3, <1>5
      <3>2. PICK d \in Seq(Nat) : ReadOf(log, Len(log)) = ReadOf(log, end - 1) \o d
        BY <1>3, <3>1, ReadIsPrefix
      <3>3. Capped(all \o d) = SubSeq(all, 1, MaxEntries)
        BY <1>7, <1>9, CapOf
      <3> QED BY <1>5, <1>9, <3>2, <3>3
    <2>4. \E n \in 0..Len(log) : entries' = Capped(ReadOf(log, n)) /\ (~cut' => n = Len(log))
      BY <1>3, <2>2
    <2>3. Nothing \in {Nothing, Position} \cup PageAsks /\ Position # Nothing
      BY AsksAre
    <2> QED BY <1>1, <1>2, <1>9, <2>1, <2>3, <2>4, AsksAre DEF EventOk
  <1>10. CASE /\ ~(Len(all) >= MaxEntries /\ new # <<>>)
              /\ entries' = all /\ (end > Len(log) \/ cut' = TRUE)
              /\ calls' = calls + 1 /\ ok' = TRUE /\ ask' = Nothing
    <2>1. end - 1 \in 0..Len(log) /\ (~cut' => end - 1 = Len(log))
      BY <1>3, <1>5, <1>10
    <2>2. Len(all) <= MaxEntries
      <3>1. CASE new = <<>>
        BY <1>2, <1>3, <1>8, <3>1
      <3>2. CASE new # <<>>
        BY <1>3, <1>7, <1>10, <3>2
      <3> QED BY <3>1, <3>2
    <2>3. Capped(all) = all
      BY <1>3, <1>7, <2>2 DEF Capped
    <2>4. \E n \in 0..Len(log) : entries' = Capped(ReadOf(log, n)) /\ (~cut' => n = Len(log))
      <3>1. entries' = Capped(ReadOf(log, end - 1))
        BY <1>5, <1>10, <2>3
      <3> QED BY <2>1, <3>1
    <2>5. Nothing \in {Nothing, Position} \cup PageAsks /\ Position # Nothing
      BY AsksAre
    <2> QED BY <1>1, <1>2, <1>7, <1>10, <2>4, <2>5, AsksAre DEF EventOk
  <1>11. CASE /\ ~(Len(all) >= MaxEntries /\ new # <<>>)
              /\ entries' = all
              /\ ask' \in {Page(end), Nothing} /\ UNCHANGED <<calls, ok>>
    <2>1. Len(all) < MaxEntries \/ all = <<>>
      <3>1. CASE new = <<>>
        BY <1>2, <1>8, <3>1
      <3>2. CASE new # <<>>
        BY <1>3, <1>7, <1>11, <3>2
      <3> QED BY <3>1, <3>2
    <2>2. /\ ask' \in {Nothing, Position} \cup PageAsks /\ ask' # Position
          /\ ask'.what = "page" => ask'.from = end
      BY <1>5, <1>11, AsksAre
    <2>3. calls' = 0 /\ ok' = ok
      BY <1>2, <1>11
    <2>4. ask'.what = "page" => entries' = ReadOf(log, ask'.from - 1)
      BY <1>5, <1>11, <2>2
    <2> QED BY <1>1, <1>2, <1>5, <1>7, <1>11, <2>1, <2>2, <2>3, <2>4 DEF EventOk
  <1> QED BY <1>1, <1>9, <1>10, <1>11

LEMMA EventSteps ==
    ASSUME ReaderTypes, EventOk, op = "enumerateEventLog", calls \in {0, 1}, ok \in BOOLEAN,
           LoopFails \/ PositionToFirstRecord
    PROVE  EventOk' /\ entries' \in Seq(Nat) /\ calls' \in {0, 1} /\ ok' \in BOOLEAN
  <1>0. entries \in Seq(Nat) /\ Len(log) \in Nat /\ MaxEntries \in Nat
    BY PageSizes DEF ReaderTypes
  <1>1. CASE LoopFails
    <2>1. /\ ask # Nothing /\ calls' = calls + 1 /\ ok' = FALSE /\ ask' = Nothing
          /\ UNCHANGED <<log, entries, details, adminOut>>
      BY <1>1 DEF LoopFails, Done, CallBack, list, accounts
    <2>2. calls = 0 /\ details = {} /\ adminOut = FALSE
      BY <2>1 DEF EventOk
    <2>3. ask' \in {Nothing, Position} /\ ask' # Position /\ ask'.what # "page"
      BY <2>1, AsksAre
    <2>4. ok' = FALSE /\ calls' = 1
      BY <2>1, <2>2
    <2> QED BY <1>0, <2>1, <2>2, <2>3, <2>4 DEF EventOk
  <1>2. CASE PositionToFirstRecord
    <2>1. /\ ask = Position /\ ask' \in {Page(1), Nothing}
          /\ UNCHANGED <<log, entries, details, adminOut, calls, ok>>
      BY <1>2 DEF PositionToFirstRecord, AskNext, list, accounts
    <2>2. calls = 0 /\ details = {} /\ adminOut = FALSE /\ entries = <<>>
      BY <2>1, AsksAre DEF EventOk
    <2>3. /\ ask' \in {Nothing, Position} \cup PageAsks /\ ask' # Position
          /\ ask'.what = "page" => ask'.from = 1
      BY <2>1, AsksAre
    <2>4. ask'.what = "page" => entries' = ReadOf(log, ask'.from - 1)
      <3>1. ask'.what = "page" => ask'.from - 1 = 0
        BY <2>3
      <3> QED BY <2>1, <2>2, <3>1, ReadTyped
    <2> QED BY <1>0, <2>1, <2>2, <2>3, <2>4 DEF EventOk
  <1> QED BY <1>1, <1>2

LEMMA AuditSteps ==
    ASSUME ReaderTypes, AuditOk, op = "enumerateAuditLog", calls \in {0, 1}, ok \in BOOLEAN,
           LoopFails \/ ReadRecords
    PROVE  AuditOk' /\ entries' \in Seq(Nat) /\ calls' \in {0, 1} /\ ok' \in BOOLEAN
  <1>0. entries \in Seq(Nat) /\ log \in Seq(BOOLEAN) /\ Len(log) \in Nat
    BY DEF ReaderTypes
  <1>1. CASE LoopFails
    <2>1. /\ ask # Nothing /\ calls' = calls + 1 /\ ok' = FALSE /\ ask' = Nothing
          /\ UNCHANGED <<log, total, entries, details, adminOut>>
      BY <1>1 DEF LoopFails, Done, CallBack, list, accounts
    <2>2. calls = 0 /\ details = {} /\ adminOut = FALSE
      BY <2>1 DEF AuditOk
    <2>3. ok' = FALSE /\ calls' = 1 /\ total' \in {-1, Len(log'), Len(log') + 1}
      BY <2>1, <2>2 DEF AuditOk
    <2> QED BY <1>0, <2>1, <2>2, <2>3 DEF AuditOk
  <1>2. CASE ReadRecords
    <2> DEFINE f == ask.from
               page == OnPage(f)
               end == f + Len(page)
               new == Decoded(page)
               all == entries \o new
    <2>1. /\ ask.what = "page" /\ UNCHANGED <<log, total, details, adminOut>> /\ entries' = all
          /\ \/ /\ AuditMore(Len(all), f)
                /\ ask' \in {Page(Len(all) + 1), Nothing} /\ UNCHANGED <<calls, ok>>
             \/ /\ ~AuditMore(Len(all), f)
                /\ calls' = calls + 1 /\ ok' = TRUE /\ ask' = Nothing
      BY <1>2 DEF ReadRecords, AskNext, Done, CallBack, list, accounts
    <2>2. /\ f \in Nat \ {0} /\ calls = 0 /\ details = {} /\ adminOut = FALSE
          /\ total \in {-1, Len(log), Len(log) + 1}
          /\ AuditIsRegular => f <= Len(log) + 1 /\ entries = ReadOf(log, f - 1)
          /\ total = -1 => f = 1 /\ entries = <<>>
      BY <2>1, AsksAre DEF AuditOk
    <2>10. total = -1 => all = Decoded(OnPage(1)) /\ ~AuditMore(Len(all), f)
      <3>1. ASSUME total = -1
            PROVE  all = Decoded(OnPage(1))
        <4>1. page = OnPage(1) /\ entries = <<>>
          BY <2>2, <3>1
        <4>2. new \in Seq(Nat)
          BY <1>0, <2>2, PageIs, ReadTyped
        <4> HIDE DEF page
        <4>3. <<>> \o new = new
          <5> HIDE DEF new
          <5> QED BY <4>2
        <4> QED BY <4>1, <4>3
      <3>2. ASSUME total = -1, NEW a, NEW b
            PROVE  ~AuditMore(a, b)
        BY <3>2 DEF AuditMore
      <3> QED BY <3>1, <3>2
    <2>3. page \in Seq(Nat) /\ Len(page) \in Nat
      BY <1>0, <2>2, PageIs
    <2>4. new \in Seq(Nat)
      BY <2>3, ReadTyped
    <2>5. all \in Seq(Nat) /\ Len(all) \in Nat
      <3> HIDE DEF new
      <3> QED BY <1>0, <2>4
    <2>6. ASSUME AuditIsRegular
          PROVE  /\ end \in Nat \ {0} /\ end <= Len(log) + 1 /\ Len(all) = end - 1
                 /\ all = ReadOf(log, end - 1)
                 /\ Len(page) = 0 => end = Len(log) + 1
      <3>1. f \in Nat \ {0} /\ f <= Len(log) + 1 /\ entries = ReadOf(log, f - 1) /\ Regular
        BY <2>2, <2>6 DEF AuditIsRegular, Regular
      <3>2. /\ end \in Nat \ {0} /\ end <= Len(log) + 1 /\ all = ReadOf(log, end - 1)
        <4> HIDE DEF f
        <4> QED BY <1>0, <3>1, PageRead
      <3>3. Len(page) = 0 => f = Len(log) + 1
        <4> HIDE DEF f
        <4> QED BY <1>0, <3>1, PageIs
      <3>4. end = f + Len(page)
        OBVIOUS
      <3> HIDE DEF f, page, end, all, new
      <3>5. end - 1 \in 0..Len(log) /\ end - 1 \in Nat
        BY <1>0, <3>2
      <3>6. ReadOf(log, end - 1) = UpTo(end - 1) /\ Len(UpTo(end - 1)) = end - 1
        BY <1>0, <3>1, <3>5, ReadAll, UpToIs
      <3>7. Len(page) = 0 => end = Len(log) + 1
        BY <2>3, <3>1, <3>3, <3>4
      <3> QED BY <3>2, <3>6, <3>7
    <2>7. end = f + Len(page)
      OBVIOUS
    <2> HIDE DEF f, page, end, all, new
    <2>8. CASE /\ AuditMore(Len(all), f)
               /\ ask' \in {Page(Len(all) + 1), Nothing} /\ UNCHANGED <<calls, ok>>
      <3>1. /\ ask' \in {Nothing} \cup PageAsks
            /\ ask' # Nothing => ask'.from = Len(all) + 1
        BY <2>5, <2>8, AsksAre
      <3>4. total' # -1
        BY <2>1, <2>8, <2>10
      <3>2. calls' = 0 /\ ok' = ok
        BY <2>2, <2>8
      <3>3. ASSUME AuditIsRegular', ask' # Nothing
            PROVE  ask'.from <= Len(log) + 1 /\ entries' = ReadOf(log, ask'.from - 1)
        <4>1. AuditIsRegular
          BY <2>1, <3>3 DEF AuditIsRegular
        <4>2. ask'.from = end /\ entries' = all
          BY <2>1, <2>6, <3>1, <3>3, <4>1
        <4> QED BY <2>6, <4>1, <4>2
      <3> QED BY <2>1, <2>2, <2>5, <3>1, <3>2, <3>3, <3>4 DEF AuditOk
    <2>9. CASE /\ ~AuditMore(Len(all), f)
               /\ calls' = calls + 1 /\ ok' = TRUE /\ ask' = Nothing
      <3>1. calls' = 1 /\ ok'
        BY <2>2, <2>9
      <3>2. ASSUME AuditIsRegular'
            PROVE  entries' = ReadOf(log, Len(log))
        <4>1. AuditIsRegular /\ total # -1
          BY <2>1, <3>2 DEF AuditIsRegular
        <4>2. total \in {Len(log), Len(log) + 1}
          BY <2>2, <4>1
        <4>3. end - 1 = Len(log)
          <5>1. /\ end \in Nat \ {0} /\ end <= Len(log) + 1 /\ Len(all) = end - 1
                /\ Len(page) = 0 => end = Len(log) + 1
            BY <2>6, <4>1
          <5>2. ~(/\ total >= Len(all) /\ total > 0 /\ Len(all) < total
                  /\ Len(all) + 1 > f)
            BY <2>9 DEF AuditMore
          <5>3. CASE Len(page) = 0
            BY <1>0, <5>1, <5>3
          <5>4. CASE Len(page) # 0
            <6>1. Len(all) + 1 > f
              BY <2>2, <2>3, <2>7, <5>1, <5>4
            <6>2. ~(total >= Len(all) /\ total > 0 /\ Len(all) < total)
              BY <5>2, <6>1
            <6> HIDE DEF all
            <6> QED BY <1>0, <4>2, <5>1, <6>2
          <5> QED BY <5>3, <5>4
        <4> QED BY <2>1, <2>6, <4>1, <4>3
      <3>3. total' = -1 => entries' = Decoded(OnPage(1))'
        <4>1. Decoded(OnPage(1))' = Decoded(OnPage(1))
          BY <2>1 DEF Decoded, OnPage
        <4> QED BY <2>1, <2>10, <4>1
      <3> QED BY <2>1, <2>2, <2>5, <2>9, <3>1, <3>2, <3>3, AsksAre DEF AuditOk
    <2> QED BY <2>1, <2>8, <2>9
  <1> QED BY <1>1, <1>2

-----------------------------------------------------------------------------
(* The user accounts.                                                      *)

\* The join: both flags and an empty counter mean that nothing is outstanding.
LEMMA JoinFires ==
    ASSUME calls = 0, ok \in BOOLEAN, Counted', error' \in BOOLEAN, pending' \in Int, FireAccounts,
           client' = "live", ~missed'
    PROVE  AccountsOk' /\ calls' \in {0, 1} /\ ok' \in BOOLEAN
  <1>0. error' \in BOOLEAN /\ pending' \in Int
    OBVIOUS
  <1>1. pending' = Cardinality(details') /\ IsFiniteSet(details')
    BY DEF Counted
  <1>2. CASE MayFire(adminDone', enumDone', pending')
    <2>1. calls' = 1 /\ ok' = ~error' /\ ok' \in BOOLEAN
      BY <1>0, <1>2 DEF FireAccounts, CallBack
    <2>2. adminDone' /\ enumDone' /\ pending' <= 0
      BY <1>2 DEF MayFire
    <2>3. details' = {}
      <3> DEFINE D == details'
      <3>1. IsFiniteSet(D) /\ Cardinality(D) <= 0
        BY <1>1, <2>2
      <3> HIDE DEF D
      <3>2. Cardinality(D) = 0
        BY <3>1, FS_CardinalityType
      <3>3. D = {}
        BY <3>1, <3>2, FS_EmptySet
      <3> QED BY <3>3 DEF D
    <2> QED BY <2>1, <2>2, <2>3 DEF AccountsOk
  <1>3. CASE ~MayFire(adminDone', enumDone', pending')
    <2>1. calls' = 0 /\ ok' \in BOOLEAN
      BY <1>3 DEF FireAccounts
    <2> QED BY <2>1 DEF AccountsOk
  <1> QED BY <1>2, <1>3

LEMMA AdminSteps ==
    ASSUME ReaderTypes, AccountsOk, calls \in {0, 1}, ok \in BOOLEAN,
           client \in {"null", "live", "gone"},
           AdminReply \/ UserAclFails \/ \E d \in details : DetailReply(d)
    PROVE  /\ AccountsOk' /\ calls' \in {0, 1} /\ ok' \in BOOLEAN
           /\ entries' = entries /\ pending' \in Int
           /\ adminOut' \in BOOLEAN /\ adminDone' \in BOOLEAN /\ enumDone' \in BOOLEAN
           /\ error' \in BOOLEAN
  <1>0. /\ entries \in Seq(Nat) /\ pending \in Int /\ adminOut \in BOOLEAN
        /\ adminDone \in BOOLEAN /\ enumDone \in BOOLEAN /\ error \in BOOLEAN /\ Counted
    BY DEF ReaderTypes, AccountsOk
  <1>1. CASE AdminReply
    <2>1. /\ adminOut /\ adminOut' = FALSE /\ adminDone' = TRUE /\ FireAccounts
          /\ UNCHANGED <<ask, entries, details, pending, enumDone, error, log, client, missed>>
      BY <1>1 DEF AdminReply, list
    <2>2. client = "live" /\ calls = 0 /\ ~missed
      BY <1>0, <2>1 DEF Counted, AccountsOk
    <2>3. Counted'
      BY <1>0, <2>1, <2>2 DEF Counted, Regular
    <2>4. AccountsOk' /\ calls' \in {0, 1} /\ ok' \in BOOLEAN
      BY <1>0, <2>1, <2>2, <2>3, JoinFires
    <2> QED BY <1>0, <2>1, <2>4
  <1>2. CASE UserAclFails
    <2>1. /\ ask.what = "page" /\ ask' = Nothing /\ enumDone' = TRUE /\ error' = TRUE
          /\ FireAccounts
          /\ UNCHANGED <<entries, details, pending, adminOut, adminDone, log, client, missed>>
      BY <1>2 DEF UserAclFails, list
    <2>2. ask # Nothing /\ client = "live" /\ calls = 0 /\ ~missed
      BY <1>0, <2>1, AsksAre DEF Counted, AccountsOk
    <2>3. Counted'
      BY <1>0, <2>1, <2>2 DEF Counted, Regular
    <2>4. AccountsOk' /\ calls' \in {0, 1} /\ ok' \in BOOLEAN
      BY <1>0, <2>1, <2>2, <2>3, JoinFires
    <2> QED BY <1>0, <2>1, <2>4
  <1>3. ASSUME NEW d \in details, DetailReply(d)
        PROVE  /\ AccountsOk' /\ calls' \in {0, 1} /\ ok' \in BOOLEAN
               /\ entries' = entries /\ pending' \in Int
               /\ adminOut' \in BOOLEAN /\ adminDone' \in BOOLEAN /\ enumDone' \in BOOLEAN
               /\ error' \in BOOLEAN
    <2>1. /\ details' = details \ {d} /\ pending' = pending - 1 /\ FireAccounts
          /\ UNCHANGED <<ask, entries, adminOut, adminDone, enumDone, error, log, client, missed>>
      BY <1>3 DEF DetailReply, list
    <2>2. client = "live" /\ calls = 0 /\ ~missed /\ IsFiniteSet(details) /\ pending = Cardinality(details)
      BY <1>0, <1>3 DEF Counted, AccountsOk
    <2>3. /\ IsFiniteSet(details \ {d}) /\ Cardinality(details \ {d}) = Cardinality(details) - 1
          /\ details \ {d} \subseteq details
      BY <1>3, <2>2, FS_RemoveElement
    <2>4. IsFiniteSet(details') /\ pending' = Cardinality(details') /\ details' \subseteq details
      BY <2>1, <2>2, <2>3
    <2>5. Counted'
      BY <1>0, <2>1, <2>2, <2>4 DEF Counted, Regular
    <2>6. pending' \in Int
      BY <1>0, <2>1
    <2>7. AccountsOk' /\ calls' \in {0, 1} /\ ok' \in BOOLEAN
      BY <1>0, <2>1, <2>2, <2>5, <2>6, JoinFires
    <2> QED BY <1>0, <2>1, <2>6, <2>7
  <1> QED BY <1>1, <1>2, <1>3

\* The requests for the handles of a page are new, and there are two for each.
LEMMA NewDetails ==
    ASSUME NEW D, IsFiniteSet(D), NEW f \in Nat \ {0}, NEW m \in Nat,
           \A d \in D : d[1] \in Nat /\ d[1] < f
    PROVE  LET N == (f..(f + m - 1)) \X {"entry", "state"}
           IN  IsFiniteSet(D \cup N) /\ Cardinality(D \cup N) = Cardinality(D) + 2 * m
  <1> DEFINE I == f..(f + m - 1)
             K == {"entry", "state"}
             N == I \X K
  <1>1. IsFiniteSet(I) /\ Cardinality(I) = m
    <2>1. f \in Int /\ f + m - 1 \in Int
      OBVIOUS
    <2>2. /\ IsFiniteSet(f..(f + m - 1))
          /\ Cardinality(f..(f + m - 1)) = IF f > f + m - 1 THEN 0 ELSE (f + m - 1) - f + 1
      BY <2>1, FS_Interval
    <2> QED BY <2>2
  <1>2. IsFiniteSet(K) /\ Cardinality(K) = 2
    <2>1. IsFiniteSet({"entry"}) /\ Cardinality({"entry"}) = 1 /\ "state" \notin {"entry"}
      BY FS_Singleton
    <2>2. K = {"entry"} \cup {"state"}
      OBVIOUS
    <2> HIDE DEF K
    <2>3. /\ IsFiniteSet({"entry"} \cup {"state"})
          /\ Cardinality({"entry"} \cup {"state"}) = Cardinality({"entry"}) + 1
      BY <2>1, FS_AddElement
    <2> QED BY <2>1, <2>2, <2>3
  <1>3. \A x \in N : x[1] \in I
    OBVIOUS
  <1>4. \A i \in I : i \in Nat /\ i >= f
    OBVIOUS
  <1> HIDE DEF I, K
  <1>5. IsFiniteSet(N) /\ Cardinality(N) = Cardinality(I) * Cardinality(K)
    BY <1>1, <1>2, FS_Product
  <1>6. Cardinality(N) = 2 * m
    BY <1>1, <1>2, <1>5
  <1> HIDE DEF N
  <1>7. D \cap N = {}
    BY <1>3, <1>4
  <1>8. /\ IsFiniteSet(D \cup N)
        /\ Cardinality(D \cup N) = Cardinality(D) + Cardinality(N) - Cardinality(D \cap N)
    BY <1>5, FS_Union
  <1>9. Cardinality(D \cap N) = 0 /\ Cardinality(D) \in Nat
    BY <1>7, FS_EmptySet, FS_CardinalityType
  <1>10. Cardinality(D \cup N) = Cardinality(D) + 2 * m
    BY <1>6, <1>8, <1>9
  <1> QED BY <1>8, <1>10 DEF N, I, K

LEMMA UserPage ==
    ASSUME ReaderTypes, AccountsOk, calls \in {0, 1}, ok \in BOOLEAN,
           client \in {"null", "live", "gone"}, UserAclPage
    PROVE  /\ AccountsOk' /\ calls' \in {0, 1} /\ ok' \in BOOLEAN
           /\ entries' \in Seq(Nat) /\ pending' \in Int
           /\ adminOut' \in BOOLEAN /\ adminDone' \in BOOLEAN /\ enumDone' \in BOOLEAN
           /\ error' \in BOOLEAN
  <1> DEFINE f == ask.from
             page == OnPage(f)
             m == Len(page)
             end == f + m
             new == {page[k] : k \in DOMAIN page}
             fresh == new \X {"entry", "state"}
             all == entries \o page
  <1>0. /\ log \in Seq(BOOLEAN) /\ entries \in Seq(Nat) /\ pending \in Int /\ Len(log) \in Nat
        /\ adminOut \in BOOLEAN /\ adminDone \in BOOLEAN /\ enumDone \in BOOLEAN
        /\ error \in BOOLEAN /\ Counted
    BY DEF ReaderTypes, AccountsOk
  <1>1. /\ ask.what = "page" /\ entries' = all /\ pending' = pending + 2 * m
        /\ UNCHANGED <<adminOut, adminDone, error, log, client>>
        /\ PageSent(page) \/ PageMissed(m)
        /\ \/ LastPage(m) /\ enumDone' = TRUE /\ FireAccounts
           \/ ~LastPage(m) /\ enumDone' = FALSE /\ UNCHANGED <<calls, ok>>
    BY DEF UserAclPage, list
  <1>2. /\ ask # Nothing /\ f \in Nat \ {0} /\ f <= Len(log) + 1 /\ entries = ReadOf(log, f - 1)
        /\ \A d \in details : d[1] < f
        /\ Regular /\ details \subseteq Nat \X {"entry", "state"} /\ IsFiniteSet(details)
        /\ ~enumDone /\ ~error /\ (adminOut => ~adminDone)
    BY <1>0, <1>1, AsksAre DEF Counted
  <1>3. client = "live" /\ calls = 0 /\ ~missed /\ pending = Cardinality(details)
    BY <1>0, <1>2 DEF Counted, AccountsOk
  <1> HIDE DEF f
  <1>4. /\ page \in Seq(Nat) /\ m \in Nat /\ \A k \in 1..m : page[k] = f + k - 1
        /\ m < PageSize => end = Len(log) + 1
    BY <1>0, <1>2, PageIs
  <1>5. /\ end \in Nat \ {0} /\ end <= Len(log) + 1
        /\ entries \o Decoded(page) = ReadOf(log, end - 1)
    BY <1>0, <1>2, PageRead
  <1>6. all = ReadOf(log, end - 1)
    <2>1. \A k \in 1..m : page[k] \in 1..Len(log)
      <3> SUFFICES ASSUME NEW k \in 1..m
                   PROVE  page[k] \in 1..Len(log)
        OBVIOUS
      <3>1. page[k] = f + k - 1 /\ k \in Nat /\ k >= 1 /\ k <= m
        BY <1>4
      <3> HIDE DEF page
      <3>2. f + k - 1 \in 1..Len(log)
        BY <1>0, <1>2, <1>4, <1>5, <3>1
      <3> QED BY <3>1, <3>2
    <2> HIDE DEF page, end
    <2>2. Decoded(page) = page
      BY <1>0, <1>2, <1>4, <2>1, ReadAll
    <2> QED BY <1>5, <2>2
  <1>7. new = f..(end - 1)
    <2>1. DOMAIN page = 1..m
      BY <1>4
    <2>2. ASSUME NEW x \in f..(end - 1)
          PROVE  x \in new
      <3>1. x - f + 1 \in 1..m /\ f + (x - f + 1) - 1 = x
        BY <1>2, <1>4
      <3> QED BY <1>4, <2>1, <3>1
    <2>3. ASSUME NEW k \in 1..m
          PROVE  page[k] \in f..(end - 1)
      <3>1. page[k] = f + k - 1
        BY <1>4
      <3>2. f + k - 1 \in f..(end - 1)
        <4> HIDE DEF page
        <4> QED BY <1>2, <1>4
      <3> QED BY <3>1, <3>2
    <2> QED BY <2>1, <2>2, <2>3
  <1>8. all \in Seq(Nat)
    <2> HIDE DEF page
    <2> QED BY <1>0, <1>4
  <1> HIDE DEF page, new, all
  <1>13. LastPage(m) => entries' = ReadOf(log', Len(log'))
    <2>1. LastPage(m) => end - 1 = Len(log)
      BY <1>0, <1>4 DEF LastPage
    <2> HIDE DEF end
    <2> QED BY <1>1, <1>6, <2>1
  <1>14. CASE PageMissed(m)
    <2>1. /\ details = {} /\ ~adminOut /\ m > 0 /\ ask' = Nothing /\ missed' = TRUE
          /\ details' = {}
      BY <1>14 DEF PageMissed
    <2>2. pending' \in Int /\ pending' > 0
      <3>1. Cardinality(details) = 0
        BY <2>1, FS_EmptySet
      <3> HIDE DEF m
      <3> QED BY <1>0, <1>1, <1>3, <1>4, <2>1, <3>1
    <2> HIDE DEF m
    <2>3. calls' = 0 /\ ok' \in BOOLEAN
      <3>1. ~MayFire(adminDone', enumDone', pending')
        BY <2>2 DEF MayFire
      <3> QED BY <1>1, <1>3, <3>1 DEF FireAccounts
    <2>4. enumDone' \in BOOLEAN /\ (enumDone' => entries' = ReadOf(log', Len(log')))
      BY <1>1, <1>13
    <2>5. Counted'
      BY <1>0, <1>1, <1>2, <2>1, <2>4, FS_EmptySet DEF Counted, Regular
    <2>6. AccountsOk'
      BY <2>3, <2>5 DEF AccountsOk
    <2> QED BY <1>0, <1>1, <1>8, <2>2, <2>3, <2>4, <2>6
  <1>15. ASSUME PageSent(page)
         PROVE  /\ details' = details \cup fresh /\ ~missed'
                /\ ask' = IF LastPage(m) THEN Nothing ELSE Page(end)
    BY <1>3, <1>15 DEF PageSent, fresh, new, end, m, f
  <1>9. ASSUME PageSent(page)
        PROVE  /\ IsFiniteSet(details') /\ pending' = Cardinality(details')
               /\ details' \subseteq Nat \X {"entry", "state"} /\ \A d \in details' : d[1] < end
    <2> DEFINE N == (f..(f + m - 1)) \X {"entry", "state"}
    <2>1. \A d \in details : d[1] \in Nat /\ d[1] < f
      BY <1>2
    <2>2. IsFiniteSet(details \cup N) /\ Cardinality(details \cup N) = Cardinality(details) + 2 * m
      <3> HIDE DEF m
      <3> QED BY <1>2, <1>4, <2>1, NewDetails
    <2>3. details' = details \cup N
      <3>1. end - 1 = f + m - 1
        BY <1>2, <1>4
      <3>2. fresh = N
        <4> HIDE DEF end
        <4> QED BY <1>7, <3>1
      <3> HIDE DEF fresh, N
      <3> QED BY <1>9, <1>15, <3>2
    <2>4. \A x \in N : x \in Nat \X {"entry", "state"} /\ x[1] < end
      <3>1. \A i \in f..(f + m - 1) : i \in Nat /\ i < end
        BY <1>2, <1>4
      <3> QED BY <3>1
    <2>5. f <= end /\ end \in Nat
      BY <1>2, <1>4
    <2> HIDE DEF N, end
    <2>6. \A d \in details : d[1] < end
      BY <1>2, <2>1, <2>5
    <2> QED BY <1>1, <1>2, <1>3, <2>2, <2>3, <2>4, <2>6
  <1>10. pending' \in Int
    BY <1>0, <1>1, <1>4
  <1> HIDE DEF m, end, fresh
  <1>11. CASE PageSent(page) /\ LastPage(m) /\ enumDone' = TRUE /\ FireAccounts
    <2>1. ask' = Nothing /\ ~missed'
      BY <1>11, <1>15
    <2>2. entries' = ReadOf(log', Len(log'))
      BY <1>11, <1>13
    <2>3. Counted'
      BY <1>1, <1>2, <1>3, <1>9, <1>11, <2>1, <2>2 DEF Counted, Regular
    <2>4. AccountsOk' /\ calls' \in {0, 1} /\ ok' \in BOOLEAN
      BY <1>0, <1>1, <1>3, <1>10, <1>11, <2>1, <2>3, JoinFires
    <2> QED BY <1>0, <1>1, <1>8, <1>10, <1>11, <2>4
  <1>12. CASE PageSent(page) /\ ~LastPage(m) /\ enumDone' = FALSE /\ UNCHANGED <<calls, ok>>
    <2>0. ask' = Page(end) /\ ~missed'
      BY <1>12, <1>15
    <2>1. ask' \in PageAsks /\ ask'.from = end /\ ask' # Nothing
      BY <1>5, <2>0, AsksAre
    <2>2. ask'.from <= Len(log') + 1 /\ entries' = ReadOf(log', ask'.from - 1)
      BY <1>1, <1>5, <1>6, <2>1
    <2>3. \A d \in details' : d[1] < ask'.from
      BY <1>9, <1>12, <2>1
    <2>4. Counted'
      BY <1>1, <1>2, <1>3, <1>9, <1>12, <2>0, <2>1, <2>2, <2>3 DEF Counted, Regular
    <2>5. AccountsOk'
      BY <1>3, <1>12, <2>4 DEF AccountsOk
    <2> QED BY <1>0, <1>1, <1>3, <1>8, <1>10, <1>12, <2>5
  <1> QED BY <1>1, <1>11, <1>12, <1>14

-----------------------------------------------------------------------------
(* One step of a call.                                                     *)

LEMMA NoBranches ==
    ASSUME NEW p, p = NoPlan
    PROVE  DOMAIN p.branches = {} /\ PlanFine(p)
  BY DEF NoPlan, PlanFine

\* A paged read leaves the state of the operations of the catalogue alone.
LEMMA ReaderKeeps ==
    ASSUME IndInv, op \in Readers, UNCHANGED <<op, plan, called, at, done, err, got>>,
           client' \in {"null", "live", "gone"}, calls' \in {0, 1}, ok' \in BOOLEAN, ReaderOk'
    PROVE  IndInv'
  <1>1. plan = NoPlan /\ called
    BY DEF IndInv, ReaderOk, ReaderTypes
  <1>2. Branches = {} /\ PlanFine(plan) /\ Branches' = Branches
    BY <1>1, NoBranches DEF Branches
  <1>3. CallTypes'
    BY <1>1, <1>2 DEF IndInv, CallTypes
  <1>4. JoinOk' /\ PagesOk'
    BY <1>1, <1>2 DEF JoinOk, PagesOk
  <1>5. ChainOk'
    BY <1>2 DEF ChainOk
  <1>6. PlanFine(plan)'
    BY <1>2
  <1> QED BY <1>3, <1>4, <1>5, <1>6 DEF IndInv

LEMMA ReadSteps ==
    ASSUME IndInv, ReadReply
    PROVE  IndInv'
  <1>1. CASE op \notin Readers
    <2>1. ask = Nothing /\ details = {} /\ adminOut = FALSE
      BY <1>1 DEF IndInv, NoReader
    <2> QED BY <2>1, AsksAre DEF ReadReply, LoopFails, PositionToFirstRecord, RecordPage, GetRecords,
               ReadRecords, AdminReply, UserAclPage, UserAclFails
  <1>2. CASE op \in Readers
    <2>1. UNCHANGED list
      BY DEF ReadReply, LoopFails, PositionToFirstRecord, RecordPage, GetRecords, ReadRecords, AdminReply,
             UserAclPage, UserAclFails, DetailReply
    <2>2. UNCHANGED <<op, plan, called, at, done, err, got, client, log, total>>
      BY <2>1 DEF list, world
    <2>3. /\ ReaderOk /\ ReaderTypes /\ calls \in {0, 1} /\ ok \in BOOLEAN
          /\ client \in {"null", "live", "gone"}
      BY <1>2 DEF IndInv, ReaderOk, CallTypes
    <2>4. SUFFICES ReaderOk' /\ calls' \in {0, 1} /\ ok' \in BOOLEAN
      BY <1>2, <2>2, <2>3, ReaderKeeps
    <2>5. plan = NoPlan /\ called /\ log \in Seq(BOOLEAN)
          /\ adminOut \in BOOLEAN /\ adminDone \in BOOLEAN /\ enumDone \in BOOLEAN
          /\ error \in BOOLEAN /\ pending \in Int
      BY <2>3 DEF ReaderTypes
    <2>6. CASE op = "enumerateEventLog"
      <3>1. EventOk /\ op' = "enumerateEventLog"
        BY <2>2, <2>3, <2>6 DEF ReaderOk
      <3>2. LoopFails \/ PositionToFirstRecord \/ RecordPage
        <4>1. details = {} /\ adminOut = FALSE
          BY <3>1 DEF EventOk
        <4> QED BY <2>6, <4>1 DEF ReadReply, ReadRecords, AdminReply, UserAclPage, UserAclFails
      <3>3. EventOk' /\ entries' \in Seq(Nat) /\ calls' \in {0, 1} /\ ok' \in BOOLEAN
        BY <2>3, <2>6, <3>1, <3>2, EventPage, EventSteps DEF RecordPage
      <3>4. UNCHANGED <<accounts, error>>
        BY <3>2 DEF LoopFails, PositionToFirstRecord, RecordPage, GetRecords
      <3>5. ReaderTypes'
        BY <2>2, <2>5, <3>3, <3>4 DEF ReaderTypes, accounts
      <3> QED BY <3>1, <3>3, <3>5 DEF ReaderOk
    <2>7. CASE op = "enumerateAuditLog"
      <3>1. AuditOk /\ op' = "enumerateAuditLog"
        BY <2>2, <2>3, <2>7 DEF ReaderOk
      <3>2. LoopFails \/ ReadRecords
        <4>1. details = {} /\ adminOut = FALSE /\ ask # Position
          BY <3>1, AsksAre DEF AuditOk
        <4> QED BY <2>7, <4>1 DEF ReadReply, PositionToFirstRecord, RecordPage, GetRecords, AdminReply,
                   UserAclPage, UserAclFails
      <3>3. AuditOk' /\ entries' \in Seq(Nat) /\ calls' \in {0, 1} /\ ok' \in BOOLEAN
        BY <2>3, <2>7, <3>1, <3>2, AuditSteps
      <3>4. UNCHANGED <<accounts, error>>
        BY <3>2 DEF LoopFails, ReadRecords
      <3>5. ReaderTypes'
        BY <2>2, <2>5, <3>3, <3>4 DEF ReaderTypes, accounts
      <3> QED BY <3>1, <3>3, <3>5 DEF ReaderOk
    <2>8. CASE op = "enumerateUserAccounts"
      <3>1. AccountsOk /\ op' = "enumerateUserAccounts"
        BY <2>2, <2>3, <2>8 DEF ReaderOk
      <3>2. AdminReply \/ UserAclFails \/ (\E d \in details : DetailReply(d)) \/ UserAclPage
        <4>1. ask # Position
          BY <3>1, AsksAre DEF AccountsOk, Counted
        <4> QED BY <2>8, <4>1 DEF ReadReply, LoopFails, PositionToFirstRecord, RecordPage, GetRecords,
                   ReadRecords
      <3>3. /\ AccountsOk' /\ calls' \in {0, 1} /\ ok' \in BOOLEAN
            /\ entries' \in Seq(Nat) /\ pending' \in Int
            /\ adminOut' \in BOOLEAN /\ adminDone' \in BOOLEAN /\ enumDone' \in BOOLEAN
            /\ error' \in BOOLEAN
        <4>1. CASE UserAclPage
          BY <2>3, <3>1, <4>1, UserPage
        <4>2. CASE AdminReply \/ UserAclFails \/ \E d \in details : DetailReply(d)
          <5>1. entries \in Seq(Nat)
            BY <2>3 DEF ReaderTypes
          <5> QED BY <2>3, <3>1, <4>2, <5>1, AdminSteps
        <4> QED BY <3>2, <4>1, <4>2
      <3>4. ReaderTypes'
        BY <2>2, <2>5, <3>3 DEF ReaderTypes
      <3> QED BY <3>1, <3>3, <3>4 DEF ReaderOk
    <2> QED BY <1>2, <2>6, <2>7, <2>8 DEF Readers
  <1> QED BY <1>1, <1>2

LEMMA ReaderEnds ==
    ASSUME IndInv, ReaderDestroyed
    PROVE  IndInv'
  <1>1. /\ op \in Readers /\ client = "live" /\ client' = "gone" /\ Outstanding
        /\ ask' = Nothing /\ details' = {} /\ adminOut' = FALSE
        /\ UNCHANGED <<op, plan, called, at, done, err, got, calls, ok, missed, cut,
                       log, total, entries, pending, adminDone, enumDone, error>>
    BY DEF ReaderDestroyed, world, events
  <1>2. /\ ReaderOk /\ ReaderTypes /\ calls \in {0, 1} /\ ok \in BOOLEAN
    BY <1>1 DEF IndInv, ReaderOk, CallTypes
  <1>3. ReaderTypes'
    BY <1>1, <1>2 DEF ReaderTypes
  <1>4. CASE op = "enumerateEventLog"
    <2>1. EventOk /\ op' = op
      BY <1>1, <1>2, <1>4 DEF ReaderOk
    <2>2. EventOk'
      BY <1>1, <2>1, AsksAre DEF EventOk
    <2>3. ReaderOk'
      BY <1>3, <1>4, <2>1, <2>2 DEF ReaderOk
    <2> QED BY <1>1, <1>2, <2>3, ReaderKeeps
  <1>5. CASE op = "enumerateAuditLog"
    <2>1. AuditOk /\ op' = op
      BY <1>1, <1>2, <1>5 DEF ReaderOk
    <2>2. AuditOk'
      <3>1. Decoded(OnPage(1))' = Decoded(OnPage(1))
        BY <1>1 DEF Decoded, OnPage
      <3> QED BY <1>1, <2>1, <3>1 DEF AuditOk, AuditIsRegular
    <2>3. ReaderOk'
      BY <1>3, <1>5, <2>1, <2>2 DEF ReaderOk
    <2> QED BY <1>1, <1>2, <2>3, ReaderKeeps
  <1>6. CASE op = "enumerateUserAccounts"
    <2>1. AccountsOk /\ op' = op
      BY <1>1, <1>2, <1>6 DEF ReaderOk
    <2>2. AccountsOk'
      BY <1>1, <2>1, FS_EmptySet DEF AccountsOk, Counted, Regular
    <2>3. ReaderOk'
      BY <1>3, <1>6, <2>1, <2>2 DEF ReaderOk
    <2> QED BY <1>1, <1>2, <2>3, ReaderKeeps
  <1> QED BY <1>1, <1>4, <1>5, <1>6 DEF Readers

LEMMA CallSteps ==
    ASSUME IndInv, Next, UNCHANGED readVars
    PROVE  IndInv'
  <1>1. op \notin Readers
    <2> SUFFICES ASSUME op \in Readers PROVE FALSE
      OBVIOUS
    <2>1. plan = NoPlan /\ called
      BY DEF IndInv, ReaderOk, ReaderTypes
    <2>2. Branches = {}
      BY <2>1, NoBranches DEF Branches
    <2> QED BY <2>1, <2>2 DEF Next, CallRejected, Call, Answer, ClientDestroyed
  <1>2. BranchInv /\ PlanFine(plan) /\ ChainOk /\ NoReader
    BY <1>1 DEF IndInv, BranchInv
  <1>3. BranchInv'
    BY <1>2, NextBranch
  <1>4. ChainOk' /\ plan' = plan /\ op' = op
    BY <1>2, NextChain
  <1>5. PlanFine(plan)' /\ op' \notin Readers /\ NoReader'
    BY <1>1, <1>2, <1>4 DEF readVars, NoReader, Readers
  <1> QED BY <1>3, <1>4, <1>5 DEF IndInv, BranchInv, Readers

-----------------------------------------------------------------------------
(* The first state.                                                        *)

LEMMA CallStarts ==
    ASSUME Init, NoRead
    PROVE  IndInv
  <1>1. /\ op \in Operations /\ plan = Catalogue[op] /\ client \in {"null", "live"}
        /\ called = FALSE /\ at = [b \in Branches |-> Idle]
        /\ done = [b \in Branches |-> FALSE] /\ err = [b \in Branches |-> NoError]
        /\ got = [b \in Branches |-> <<>>] /\ applied = <<>> /\ calls = 0 /\ ok = FALSE
    BY DEF Init
  <1>2. op \notin Readers /\ PlanFine(plan)
    BY <1>1, OperationsAreListed, CatalogueFine
  <1>3. CallTypes
    BY <1>1, PlacesAre, ErrorsAre, NoPages DEF CallTypes
  <1>4. JoinOk
    BY <1>1 DEF JoinOk, Waiting
  <1>5. PagesOk
    BY <1>1, PlacesAre DEF PagesOk
  <1>6. ChainOk
    <2> SUFFICES ASSUME "main" \in Branches
                 PROVE  ChainOk
      BY DEF ChainOk
    <2>1. Len(Steps("main")) \in Nat \ {0}
      BY <1>2 DEF PlanFine, ChainFine, Branches, Steps
    <2>2. applied = Before(Steps("main"), 0) /\ 0 \in 0..Len(Steps("main"))
      BY <1>1, <2>1, BeforeEnds
    <2>3. at["main"] = Idle /\ ~done["main"]
      BY <1>1
    <2> QED BY <1>1, <2>2, <2>3 DEF ChainOk, Waiting
  <1>7. NoReader
    BY DEF NoRead, NoReader
  <1> QED BY <1>2, <1>3, <1>4, <1>5, <1>6, <1>7 DEF IndInv

LEMMA ReadStarts ==
    ASSUME ReadInit
    PROVE  IndInv
  <1>1. /\ op \in Readers /\ plan = NoPlan /\ client = "live" /\ called = TRUE
        /\ at = <<>> /\ done = <<>> /\ err = <<>> /\ got = <<>> /\ calls = 0 /\ ok = FALSE
        /\ log \in Bool(0..MaxRecords)
        /\ op = "enumerateUserAccounts" => \A i \in DOMAIN log : log[i]
        /\ total \in IF op = "enumerateAuditLog" THEN {-1, Len(log), Len(log) + 1} ELSE {-1}
        /\ \/ /\ ask = IF op = "enumerateEventLog" THEN Position ELSE Page(1)
              /\ adminOut = (op = "enumerateUserAccounts") /\ missed = FALSE
           \/ ask = Nothing /\ adminOut = FALSE /\ missed = TRUE
        /\ entries = <<>> /\ details = {} /\ pending = 0
        /\ adminDone = FALSE /\ enumDone = FALSE /\ error = FALSE
    BY DEF ReadInit
  <1>2. Branches = {} /\ PlanFine(plan)
    BY <1>1, NoBranches DEF Branches
  <1>3. CallTypes
    <2>1. \A S : <<>> \in [{} -> S]
      OBVIOUS
    <2> QED BY <1>1, <1>2, <2>1 DEF CallTypes
  <1>4. JoinOk /\ PagesOk /\ ChainOk
    BY <1>1, <1>2 DEF JoinOk, PagesOk, ChainOk
  <1>5. log \in Seq(BOOLEAN) /\ Len(log) \in Nat
    <2>1. PICK n \in 0..MaxRecords : log \in [1..n -> BOOLEAN]
      BY <1>1 DEF Bool
    <2>2. n \in Nat
      BY PagingAssumption
    <2> QED BY <2>1, <2>2
  <1>6. ReaderTypes
    <2>1. adminOut \in BOOLEAN
      BY <1>1
    <2>2. plan = NoPlan /\ called = TRUE /\ entries = <<>> /\ pending = 0
          /\ adminDone = FALSE /\ enumDone = FALSE /\ error = FALSE
      BY <1>1, Zenon
    <2>3. entries \in Seq(Nat) /\ pending \in Int
      BY <2>2
    <2>4. called /\ adminDone \in BOOLEAN /\ enumDone \in BOOLEAN /\ error \in BOOLEAN
      BY <2>2
    <2> QED BY <1>5, <2>1, <2>2, <2>3, <2>4 DEF ReaderTypes
  <1>7. /\ Page(1) \in PageAsks /\ Page(1).from = 1 /\ Page(1) # Nothing /\ 1 - 1 = 0
        /\ 1 <= Len(log) + 1
        /\ entries = ReadOf(log, Page(1).from - 1)
    BY <1>1, <1>5, AsksAre, ReadTyped
  <1>8. CASE op = "enumerateEventLog"
    <2>1. EventOk
      BY <1>1, <1>8, AsksAre DEF EventOk
    <2>2. ReaderOk
      BY <1>6, <1>8, <2>1 DEF ReaderOk
    <2> QED BY <1>1, <1>2, <1>3, <1>4, <2>2 DEF IndInv
  <1>9. CASE op = "enumerateAuditLog"
    <2>0. ask \in {Nothing, Page(1)} /\ total \in {-1, Len(log), Len(log) + 1} /\ adminOut = FALSE
      BY <1>1, <1>9
    <2>1. AuditOk
      BY <1>1, <1>7, <2>0 DEF AuditOk
    <2>2. ReaderOk
      BY <1>6, <1>9, <2>1 DEF ReaderOk
    <2> QED BY <1>1, <1>2, <1>3, <1>4, <2>2 DEF IndInv
  <1>10. CASE op = "enumerateUserAccounts"
    <2>0. /\ ask \in {Nothing, Page(1)} /\ Regular
          /\ missed => ask = Nothing /\ adminOut = FALSE
      BY <1>1, <1>10 DEF Regular
    <2>1. AccountsOk
      BY <1>1, <1>7, <2>0, FS_EmptySet DEF AccountsOk, Counted
    <2>2. ReaderOk
      BY <1>6, <1>10, <2>1 DEF ReaderOk
    <2> QED BY <1>1, <1>2, <1>3, <1>4, <2>2 DEF IndInv
  <1> QED BY <1>1, <1>8, <1>9, <1>10 DEF Readers

-----------------------------------------------------------------------------
(* Every state.                                                            *)

LEMMA Stays ==
    ASSUME IndInv, UNCHANGED callVars
    PROVE  IndInv'
  <1>1. /\ UNCHANGED <<op, plan, client, called, at, done, err, got, applied, calls, ok>>
        /\ UNCHANGED <<missed, cut, log, total, ask, entries, details, pending, adminOut, adminDone,
                       enumDone, error>>
    BY DEF callVars, vars, readVars
  <1>2. Branches' = Branches /\ Steps("main")' = Steps("main")
    BY <1>1 DEF Branches, Steps
  <1>3. CallTypes' /\ JoinOk'
    BY <1>1, <1>2 DEF IndInv, CallTypes, JoinOk, Waiting
  <1>4. PagesOk' /\ PlanFine(plan)'
    BY <1>1, <1>2 DEF IndInv, PagesOk
  <1>5. ChainOk'
    BY <1>1, <1>2 DEF IndInv, ChainOk, Waiting
  <1>6. NoReader => NoReader'
    BY <1>1 DEF NoReader
  <1>7. ReaderOk => ReaderOk'
    <2>1. ReaderTypes => ReaderTypes'
      BY <1>1 DEF ReaderTypes
    <2>2. EventOk => EventOk'
      BY <1>1 DEF EventOk
    <2>3. AuditOk => AuditOk'
      <3>1. Decoded(OnPage(1))' = Decoded(OnPage(1))
        BY <1>1 DEF Decoded, OnPage
      <3> QED BY <1>1, <3>1 DEF AuditOk, AuditIsRegular
    <2>4. AccountsOk => AccountsOk'
      BY <1>1 DEF AccountsOk, Counted, Regular
    <2> QED BY <1>1, <2>1, <2>2, <2>3, <2>4 DEF ReaderOk
  <1>8. IF op' \in Readers THEN ReaderOk' ELSE NoReader'
    BY <1>1, <1>6, <1>7 DEF IndInv
  <1> QED BY <1>3, <1>4, <1>5, <1>8 DEF IndInv, Readers

LEMMA Starts == CallInit => IndInv
  BY CallStarts, ReadStarts DEF CallInit

LEMMA Stepwise == IndInv /\ [CallNext]_callVars => IndInv'
  BY CallSteps, ReadSteps, ReaderEnds, Stays DEF CallNext

\* The inductive invariant holds in every state of every call: the pages and the error
\* of each branch, the place of a chain and what the device has performed, and the index,
\* the entries and the counter of a paged read agree (operations.cpp).
THEOREM CallsKeepInvariant == CallSpec => []IndInv
  BY Starts, Stepwise, PTL DEF CallSpec

\* Every operation calls back at most once, and only when none of its requests is out,
\* for any set of operations, any answers in any order and any list on the device: the
\* fan-outs need no `fired` flag, the counter of enumerateUserAccounts does not miss.
THEOREM EveryCallReportsOnce == CallSpec => []OneCallback
  <1>1. IndInv => OneCallback
    <2> SUFFICES ASSUME IndInv
                 PROVE  OneCallback
      OBVIOUS
    <2>1. calls \in {0, 1} /\ \A b \in Branches : Waiting(b) => calls = 0
      BY DEF IndInv, CallTypes, JoinOk
    <2>2. calls = 1 => ~Outstanding
      <3>1. CASE op \notin Readers
        BY <3>1 DEF IndInv, NoReader, Outstanding
      <3>2. CASE op = "enumerateEventLog"
        BY <3>2 DEF IndInv, Readers, ReaderOk, EventOk, Outstanding
      <3>3. CASE op = "enumerateAuditLog"
        BY <3>3 DEF IndInv, Readers, ReaderOk, AuditOk, Outstanding
      <3>4. CASE op = "enumerateUserAccounts"
        BY <3>4 DEF IndInv, Readers, ReaderOk, ReaderTypes, AccountsOk, Counted, Outstanding
      <3> QED BY <3>1, <3>2, <3>3, <3>4 DEF Readers
    <2> QED BY <2>1, <2>2 DEF OneCallback
  <1> QED BY <1>1, CallsKeepInvariant, PTL

\* enumerateAll hands out whole lists: for every number of pages, an enumeration that
\* ends well has them all, and one that fails has none.
THEOREM ListsAreWhole == CallSpec => []NoPartialList
  <1>1. IndInv => NoPartialList
    <2> SUFFICES ASSUME IndInv, NEW b \in Branches, done[b]
                 PROVE  IF err[b] = NoError /\ got[b] # <<>>
                        THEN /\ ~Last(got[b]).more
                             /\ \A i \in 1..(Len(got[b]) - 1) : got[b][i].more
                        ELSE got[b] = <<>>
      BY DEF NoPartialList
    <2>1. Whole(got[b]) /\ (err[b] # NoError => got[b] = <<>>)
      BY DEF IndInv, PagesOk
    <2> QED BY <2>1 DEF Whole, Last
  <1> QED BY <1>1, CallsKeepInvariant, PTL

\* A chain of writes, such as that of performBootAction, is performed in its order, each
\* write after all those before it, wherever a reply is lost or refused (runChainStep).
THEOREM ChainsWriteInOrder == CallSpec => []WritesInOrder
  <1>1. IndInv => WritesInOrder
    <2> SUFFICES ASSUME IndInv, "main" \in Branches
                 PROVE  IsPrefix(applied, WriteNames)
      BY DEF WritesInOrder
    <2> DEFINE steps == Steps("main")
    <2>1. Len(steps) \in Nat
      BY DEF IndInv, PlanFine, ChainFine, Branches, Steps
    <2>2. PICK n \in 0..Len(steps) : applied = Before(steps, n)
      BY DEF IndInv, ChainOk
    <2>3. IsPrefix(Before(steps, n), WritesOf(steps))
      <3> HIDE DEF steps
      <3> QED BY <2>1, BeforeIsPrefix
    <2> QED BY <2>2, <2>3 DEF WriteNames
  <1> QED BY <1>1, CallsKeepInvariant, PTL

\* Success is reported only when the device has performed every write of the chain, but
\* for the operations that take a reply without ReturnValue for success.
THEOREM SuccessIsPerformed == CallSpec => []OkMeansPerformed
  <1>1. IndInv => OkMeansPerformed
    BY DEF IndInv, ChainOk, OkMeansPerformed, WriteNames, Loose
  <1> QED BY <1>1, CallsKeepInvariant, PTL

\* A paged read that succeeds has the records that can be decoded, each once and in order,
\* whatever the size of a page, the length of the list and the cap: the user accounts all
\* of them; the event log all of them up to the cap, or a beginning when the device leaves
\* out an IterationIdentifier (operations.cpp:4489); the audit log all of a regular log,
\* and its first page where no length is reported (:5818).
THEOREM ReadsAreComplete == CallSpec => []CompleteWhenOk
  <1>1. IndInv => CompleteWhenOk
    <2> SUFFICES ASSUME IndInv, calls = 1, ok, op \in Readers
                 PROVE  CompleteWhenOk
      BY DEF CompleteWhenOk, Readers
    <2> DEFINE all == Decoded([i \in DOMAIN log |-> i])
    <2>1. ReaderOk
      BY DEF IndInv
    <2>2. all = ReadOf(log, Len(log))
      <3>1. DOMAIN log = 1..Len(log)
        BY <2>1 DEF ReaderOk, ReaderTypes
      <3> QED BY <3>1 DEF Decoded, ReadOf, UpTo
    <2> HIDE DEF all
    <2>3. ASSUME op = "enumerateEventLog"
          PROVE  /\ IsPrefix(entries, all) /\ Len(entries) <= MaxEntries
                 /\ ~cut => Len(entries) = Len(all) \/ Len(entries) = MaxEntries
      <3>1. log \in Seq(BOOLEAN)
        BY <2>1 DEF ReaderOk, ReaderTypes
      <3>2. PICK n \in 0..Len(log) : entries = Capped(ReadOf(log, n)) /\ (~cut => n = Len(log))
        <4>1. EventOk
          BY <2>1, <2>3 DEF ReaderOk
        <4>2. calls = 1 /\ ok
          OBVIOUS
        <4> QED BY <4>1, <4>2 DEF EventOk
      <3>3. PICK d \in Seq(Nat) : all = ReadOf(log, n) \o d
        BY <2>2, <3>1, ReadIsPrefix
      <3>4. ReadOf(log, n) \in Seq(Nat)
        BY <3>1, ReadTyped
      <3>5. IsPrefix(entries, all) /\ Len(entries) <= MaxEntries
        BY <3>2, <3>3, <3>4, CappedIs
      <3>6. ~cut => Len(entries) = Len(all) \/ Len(entries) = MaxEntries
        BY <2>2, <3>2, <3>4, CappedIs
      <3> QED BY <3>5, <3>6
    <2>4. op = "enumerateUserAccounts" => entries = all
      BY <2>1, <2>2 DEF ReaderOk, AccountsOk, Counted
    <2>5. op = "enumerateAuditLog" /\ AuditIsRegular => entries = all
      BY <2>1, <2>2 DEF ReaderOk, AuditOk
    <2>6. op = "enumerateAuditLog" /\ total = -1 => entries = Decoded(OnPage(1))
      BY <2>1 DEF ReaderOk, AuditOk
    <2> QED BY <2>3, <2>4, <2>5, <2>6 DEF CompleteWhenOk, all
  <1> QED BY <1>1, CallsKeepInvariant, PTL
=============================================================================
