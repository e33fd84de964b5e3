---------------------------- MODULE IngestProofs ----------------------------
(***************************************************************************)
(* Proofs about the pollers.  No poller drops a release of its feed: each  *)
(* part is about the specification of one ecosystem's poller, and its      *)
(* invariant says what is settled behind the saved cursor, and what every  *)
(* poll under way still owes to the changes it is about to move the cursor *)
(* past.  The last parts bound what those invariants leave open and put    *)
(* the pollers side by side: the state of all of them keeps its type.      *)
(***************************************************************************)
EXTENDS Pollers, DataLemmas

-----------------------------------------------------------------------------
(* The changelog of PyPI                                                   *)

PullRec == [pc : {"idle", "bootstrap", "fetch", "gate", "save"}, start : Nat, to : Nat]

PypiFrame ==
    /\ changelog \in Seq(Event) /\ cursor \in Nat \union {NoCursor} /\ cursor <= Len(changelog)
    /\ pull \in [Polls -> PullRec]
    /\ pypiBoot \in Nat /\ pypiBoot <= Len(changelog)
    /\ \A p \in Polls : pull[p].start <= Len(changelog) /\ pull[p].to <= Len(changelog)

\* Behind serial k, every release since the bootstrap is in the scan queue or was visibly passed
\* over: done are those serials.
SettledTo(k, log, base, done) ==
    \A s \in Nat : s \in DOMAIN log /\ log[s].act = "release" /\ base < s /\ s <= k => s \in done

\* That holds of the serial each pull began at; a pull that saves has settled its own batch too.
PullSound(q, log, base, done) ==
    SettledTo(q.start, log, base, done) /\ (q.pc = "save" => SettledTo(q.to, log, base, done))

PypiInv ==
    /\ PypiFrame
    /\ SettledTo(cursor, changelog, pypiBoot, released \union forgone)
    /\ \A p \in Polls : PullSound(pull[p], changelog, pypiBoot, released \union forgone)

LEMMA IdlePullIs == IdlePull \in PullRec /\ IdlePull.start = 0 /\ IdlePull.to = 0 /\ IdlePull.pc = "idle"
BY DEF IdlePull, PullRec

LEMMA SettledToZero ==
    ASSUME NEW log \in Seq(Event), NEW base \in Nat, NEW done
    PROVE  /\ SettledTo(0, log, base, done) /\ SettledTo(NoCursor, log, base, done)
           /\ PullSound(IdlePull, log, base, done)
BY DEF SettledTo, NoCursor, PullSound, IdlePull

\* What is settled stays settled, and the bootstrap only moves forward.
LEMMA SettledStays ==
    ASSUME NEW k, NEW log, NEW base \in Nat, NEW later \in Nat, base <= later, NEW done, NEW more, done \subseteq more,
           SettledTo(k, log, base, done)
    PROVE  SettledTo(k, log, later, more)
BY DEF SettledTo

LEMMA PullStays ==
    ASSUME NEW q, NEW log, NEW base \in Nat, NEW later \in Nat, base <= later, NEW done, NEW more, done \subseteq more,
           PullSound(q, log, base, done)
    PROVE  PullSound(q, log, later, more)
BY SettledStays DEF PullSound

\* A pull moves on to q and saves, or leaves, the cursor.
LEMMA PullMoves ==
    ASSUME PypiInv, NEW p \in Polls, NEW q \in PullRec, pull' = [pull EXCEPT ![p] = q],
           changelog' = changelog, q.start <= Len(changelog), q.to <= Len(changelog),
           cursor' \in Nat \union {NoCursor}, cursor' <= Len(changelog),
           pypiBoot' \in Nat, pypiBoot <= pypiBoot', pypiBoot' <= Len(changelog),
           released \union forgone \subseteq released' \union forgone',
           PullSound(q, changelog, pypiBoot', released' \union forgone'),
           SettledTo(cursor', changelog, pypiBoot', released' \union forgone')
    PROVE  PypiInv'
<1>1. pull' \in [Polls -> PullRec] /\ \A o \in Polls : pull'[o] = IF o = p THEN q ELSE pull[o]
    BY DEF PypiInv, PypiFrame
<1>2. PypiFrame'
    BY <1>1 DEF PypiInv, PypiFrame
<1>3. ASSUME NEW o \in Polls PROVE PullSound(pull'[o], changelog', pypiBoot', released' \union forgone')
    <2>1. CASE o = p
        BY <1>1, <2>1
    <2>2. CASE o # p
        <3>1. pull'[o] = pull[o] /\ PullSound(pull[o], changelog, pypiBoot, released \union forgone) /\ pypiBoot \in Nat
            BY <1>1, <2>2 DEF PypiInv, PypiFrame
        <3>2. QED
            BY <3>1, PullStays
    <2>3. QED
        BY <2>1, <2>2
<1>4. QED
    BY <1>2, <1>3 DEF PypiInv

\* Steps that leave the changelog, the cursor and the pulls alone.
LEMMA PullsUntouched ==
    ASSUME PypiInv, UNCHANGED <<changelog, cursor, pypiBoot, pull>>,
           released \union forgone \subseteq released' \union forgone'
    PROVE  PypiInv'
<1>1. PypiFrame' /\ pypiBoot \in Nat
    BY DEF PypiInv, PypiFrame
<1>2. SettledTo(cursor, changelog, pypiBoot, released' \union forgone')
    BY <1>1, SettledStays DEF PypiInv
<1>3. \A p \in Polls : PullSound(pull[p], changelog, pypiBoot, released' \union forgone')
    BY <1>1, PullStays DEF PypiInv
<1>4. QED
    BY <1>1, <1>2, <1>3 DEF PypiInv

LEMMA EnqueueGrows ==
    ASSUME NEW S, NEW skipped, EnqueueReleases(S, skipped)
    PROVE  /\ released \union forgone \subseteq released' \union forgone'
           /\ S \union skipped \subseteq released' \union forgone'
BY DEF EnqueueReleases

LEMMA PypiStarts == PypiInit => PypiInv
<1> SUFFICES ASSUME PypiInit PROVE PypiInv
    OBVIOUS
<1>1. /\ changelog \in Seq(Event) /\ cursor \in {NoCursor, 0} /\ pypiBoot = 0
      /\ pull = [p \in Polls |-> IdlePull]
    BY DEF PypiInit, IngestInit
<1>2. PypiFrame
    BY <1>1, IdlePullIs DEF PypiFrame, NoCursor
<1>3. \A done : SettledTo(cursor, changelog, pypiBoot, done) /\ PullSound(IdlePull, changelog, pypiBoot, done)
    BY <1>1, SettledToZero
<1>4. QED
    BY <1>1, <1>2, <1>3 DEF PypiInv

LEMMA PypiSteps == PypiInv /\ [PypiNext]_pypiVars => PypiInv'
<1> SUFFICES ASSUME PypiInv, [PypiNext]_pypiVars PROVE PypiInv'
    OBVIOUS
<1>0. /\ changelog \in Seq(Event) /\ Len(changelog) \in Nat /\ DOMAIN changelog = 1 .. Len(changelog)
      /\ cursor \in Nat \union {NoCursor} /\ cursor <= Len(changelog)
      /\ pypiBoot \in Nat /\ pypiBoot <= Len(changelog)
      /\ SettledTo(cursor, changelog, pypiBoot, released \union forgone)
    BY DEF PypiInv, PypiFrame
<1>a. \A done : \A base \in Nat : PullSound(IdlePull, changelog, base, done)
    BY <1>0, SettledToZero
<1>b. /\ IdlePull \in PullRec /\ IdlePull.start <= Len(changelog) /\ IdlePull.to <= Len(changelog)
      /\ pypiBoot <= pypiBoot
    BY <1>0, IdlePullIs
<1>1. ASSUME NEW e \in Event, RegistryEvent(e) PROVE PypiInv'
    <2>1. /\ changelog' = Append(changelog, e)
          /\ UNCHANGED <<cursor, pypiBoot, pull, released, forgone>>
        BY <1>1 DEF RegistryEvent, sharedVars
    <2>2. PICK n \in Nat : n = Len(changelog)
        BY <1>0
    <2>3. /\ changelog' \in Seq(Event) /\ Len(changelog') = n + 1 /\ DOMAIN changelog' = 1 .. (n + 1)
          /\ \A s \in 1 .. n : changelog'[s] = changelog[s]
        BY <1>0, <2>1, <2>2
    <2>4. ASSUME NEW k \in Nat \union {NoCursor}, k <= n, SettledTo(k, changelog, pypiBoot, released \union forgone)
          PROVE  SettledTo(k, changelog', pypiBoot', released' \union forgone')
        <3>1. \A s \in Nat : s \in DOMAIN changelog' /\ s <= k => s \in 1 .. n
            BY <2>2, <2>3, <2>4 DEF NoCursor
        <3>2. QED
            BY <1>0, <2>1, <2>2, <2>3, <2>4, <3>1 DEF SettledTo
    <2>5. PypiFrame'
        <3>1. \A p \in Polls : pull[p].start \in Nat /\ pull[p].to \in Nat
            BY DEF PypiInv, PypiFrame, PullRec
        <3>2. QED
            BY <2>1, <2>2, <2>3, <3>1 DEF PypiInv, PypiFrame, NoCursor
    <2>6. SettledTo(cursor, changelog', pypiBoot', released' \union forgone')
        BY <1>0, <2>2, <2>4
    <2>7. ASSUME NEW p \in Polls PROVE PullSound(pull[p], changelog', pypiBoot', released' \union forgone')
        <3>1. PICK q \in PullRec : /\ q = pull[p] /\ q.start <= n /\ q.to <= n
                                   /\ PullSound(q, changelog, pypiBoot, released \union forgone)
            BY <2>2 DEF PypiInv, PypiFrame
        <3>2. q.start \in Nat /\ q.to \in Nat
            BY DEF PullRec
        <3>3. QED
            BY <2>4, <3>1, <3>2 DEF PullSound
    <2>8. QED
        BY <2>1, <2>5, <2>6, <2>7 DEF PypiInv
<1>2. ASSUME NEW p \in Polls, BeginPull(p) PROVE PypiInv'
    <2>1. PICK q \in PullRec : /\ pull' = [pull EXCEPT ![p] = q] /\ q.pc # "save" /\ q.to = 0
                               /\ q.start = IF cursor = NoCursor THEN 0 ELSE cursor
        <3> DEFINE a == [IdlePull EXCEPT !.pc = "bootstrap"]
                   b == [IdlePull EXCEPT !.pc = "fetch", !.start = cursor]
        <3>1. a \in PullRec /\ a.pc = "bootstrap" /\ a.to = 0 /\ a.start = 0
            BY DEF IdlePull, PullRec
        <3>2. cursor # NoCursor => b \in PullRec /\ b.pc = "fetch" /\ b.to = 0 /\ b.start = cursor
            BY <1>0 DEF IdlePull, PullRec
        <3>3. pull' = [pull EXCEPT ![p] = IF cursor = NoCursor THEN a ELSE b]
            BY <1>2 DEF BeginPull
        <3> HIDE DEF a, b
        <3>4. QED
            BY <3>1, <3>2, <3>3
    <2>2. UNCHANGED <<changelog, cursor, pypiBoot, released, forgone>>
        BY <1>2 DEF BeginPull
    <2>3. PullSound(q, changelog, pypiBoot, released \union forgone)
        BY <1>0, <2>1, SettledToZero DEF PullSound
    <2>4. q.start <= Len(changelog) /\ q.to <= Len(changelog)
        BY <1>0, <2>1
    <2>5. QED
        BY <1>0, <1>b, <2>1, <2>2, <2>3, <2>4, PullMoves
<1>3. ASSUME NEW p \in Polls, BootstrapSerial(p) PROVE PypiInv'
    <2>1. PICK r \in PullRec : /\ r = pull[p] /\ r.pc = "bootstrap" /\ r.start <= Len(changelog) /\ r.to <= Len(changelog)
                               /\ PullSound(r, changelog, pypiBoot, released \union forgone)
        BY <1>3 DEF BootstrapSerial, PypiInv, PypiFrame
    <2>2. UNCHANGED <<changelog, released, forgone>>
        BY <1>3 DEF BootstrapSerial
    <2>3. CASE /\ cursor = NoCursor /\ cursor' = Len(changelog) /\ pypiBoot' = Len(changelog)
               /\ pull' = [pull EXCEPT ![p].pc = "fetch", ![p].start = Len(changelog)]
        <3> DEFINE q == [r EXCEPT !.pc = "fetch", !.start = Len(changelog)]
        <3>1. q \in PullRec /\ q.pc = "fetch" /\ q.start = Len(changelog) /\ q.to = r.to
            BY <1>0 DEF PullRec
        <3>2. pull' = [pull EXCEPT ![p] = q]
            BY <2>1, <2>3
        <3> HIDE DEF q
        <3>3. \A k, done : SettledTo(k, changelog, Len(changelog), done)
            BY <1>0 DEF SettledTo
        <3>4. PullSound(q, changelog, pypiBoot', released' \union forgone')
            BY <2>3, <3>3 DEF PullSound
        <3>5. SettledTo(cursor', changelog, pypiBoot', released' \union forgone')
            BY <2>3, <3>3
        <3>6. q.start <= Len(changelog) /\ q.to <= Len(changelog) /\ Len(changelog) <= Len(changelog)
            BY <1>0, <2>1, <3>1
        <3>7. QED
            BY <1>0, <2>2, <2>3, <3>1, <3>2, <3>4, <3>5, <3>6, PullMoves
    <2>4. CASE UNCHANGED <<cursor, pypiBoot>> /\ pull' = [pull EXCEPT ![p] = IdlePull]
        BY <1>0, <1>a, <1>b, <2>2, <2>4, PullMoves
    <2>5. CASE UNCHANGED <<cursor, pypiBoot>> /\ pull' = [pull EXCEPT ![p].pc = "fetch"]
        <3> DEFINE q == [r EXCEPT !.pc = "fetch"]
        <3>1. q \in PullRec /\ q.pc = "fetch" /\ q.start = r.start /\ q.to = r.to
            BY DEF PullRec
        <3>2. pull' = [pull EXCEPT ![p] = q]
            BY <2>1, <2>5
        <3> HIDE DEF q
        <3>3. PullSound(q, changelog, pypiBoot, released \union forgone)
            BY <2>1, <3>1 DEF PullSound
        <3>4. QED
            BY <1>0, <1>b, <2>1, <2>2, <2>5, <3>1, <3>2, <3>3, PullMoves
    <2>6. QED
        BY <1>3, <2>3, <2>4, <2>5 DEF BootstrapSerial
<1>4. ASSUME NEW p \in Polls, FetchEntries(p) PROVE PypiInv'
    <2>1. PICK r \in PullRec : /\ r = pull[p] /\ r.pc = "fetch" /\ r.start <= Len(changelog)
                               /\ PullSound(r, changelog, pypiBoot, released \union forgone)
        BY <1>4 DEF FetchEntries, PypiInv, PypiFrame
    <2>2. UNCHANGED <<changelog, cursor, pypiBoot, released, forgone>>
        BY <1>4 DEF FetchEntries, sharedVars
    <2>3. PICK to \in Nat : to = Min({Len(changelog), r.start + MaxItems}) /\ to <= Len(changelog)
        <3>1. r.start \in Nat /\ MaxItems \in Nat
            BY PypiBoundAssumption DEF PullRec
        <3>2. {Len(changelog), r.start + MaxItems} \in SUBSET Nat
            BY <1>0, <3>1
        <3>3. QED
            BY <3>2, MinOfNaturals
    <2> DEFINE q == [r EXCEPT !.pc = "gate", !.to = to]
    <2>4. q \in PullRec /\ q.pc = "gate" /\ q.start = r.start /\ q.to = to
        BY DEF PullRec
    <2>5. pull' = [pull EXCEPT ![p] = IF to = r.start THEN IdlePull ELSE q]
        BY <1>4, <2>1, <2>3 DEF FetchEntries
    <2> HIDE DEF q
    <2>6. PullSound(q, changelog, pypiBoot, released \union forgone)
        BY <2>1, <2>4 DEF PullSound
    <2>7. CASE to = r.start
        BY <1>0, <1>a, <1>b, <2>2, <2>5, <2>7, PullMoves
    <2>8. CASE to # r.start
        BY <1>0, <1>b, <2>1, <2>2, <2>3, <2>4, <2>5, <2>6, <2>8, PullMoves
    <2>9. QED
        BY <2>7, <2>8
<1>5. ASSUME NEW p \in Polls, GatePull(p) PROVE PypiInv'
    <2>1. PICK r \in PullRec : /\ r = pull[p] /\ r.pc = "gate" /\ r.start <= Len(changelog) /\ r.to <= Len(changelog)
                               /\ PullSound(r, changelog, pypiBoot, released \union forgone)
        BY <1>5 DEF GatePull, PypiInv, PypiFrame
    <2>2. UNCHANGED <<changelog, cursor, pypiBoot>>
        BY <1>5 DEF GatePull
    <2> DEFINE batch == Releases(r.start + 1 .. r.to)
               admitted == {s \in batch : Listed(NameOf(s)) \/ (~exclusive /\ NewInBatch(s, r.start))}
               skipped == {s \in batch \ admitted : ~Listed(NameOf(s))}
    <2>3. EnqueueReleases(admitted, skipped)
        BY <1>5, <2>1 DEF GatePull
    <2>4. batch = admitted \union skipped
        OBVIOUS
    <2>5. \A s \in r.start + 1 .. r.to : changelog[s].act = "release" => s \in batch
        BY DEF Releases
    <2> HIDE DEF admitted, skipped, batch
    <2>6. /\ released \union forgone \subseteq released' \union forgone'
          /\ batch \subseteq released' \union forgone'
        BY <2>3, <2>4, EnqueueGrows
    <2> DEFINE q == [r EXCEPT !.pc = "save"]
    <2>7. q \in PullRec /\ q.pc = "save" /\ q.start = r.start /\ q.to = r.to
        BY DEF PullRec
    <2>8. pull' = [pull EXCEPT ![p] = q]
        BY <1>5, <2>1 DEF GatePull
    <2> HIDE DEF q
    <2>9. /\ SettledTo(cursor, changelog, pypiBoot, released' \union forgone')
          /\ SettledTo(r.start, changelog, pypiBoot, released' \union forgone')
        BY <1>0, <1>b, <2>1, <2>6, SettledStays DEF PullSound
    <2>10. SettledTo(r.to, changelog, pypiBoot, released' \union forgone')
        <3>1. r.start \in Nat /\ r.to \in Nat
            BY DEF PullRec
        <3>2. \A s \in Nat : s <= r.to => s <= r.start \/ s \in r.start + 1 .. r.to
            BY <3>1
        <3>3. QED
            BY <2>5, <2>6, <2>9, <3>2 DEF SettledTo
    <2>11. PullSound(q, changelog, pypiBoot, released' \union forgone')
        BY <2>7, <2>9, <2>10 DEF PullSound
    <2>12. QED
        BY <1>0, <1>b, <2>1, <2>2, <2>6, <2>7, <2>8, <2>9, <2>11, PullMoves
<1>6. ASSUME NEW p \in Polls, SaveSerial(p) PROVE PypiInv'
    <2>1. PICK r \in PullRec : /\ r = pull[p] /\ r.pc = "save" /\ r.to <= Len(changelog)
                               /\ PullSound(r, changelog, pypiBoot, released \union forgone)
        BY <1>6 DEF SaveSerial, PypiInv, PypiFrame
    <2>2. /\ UNCHANGED <<changelog, pypiBoot, released, forgone>> /\ cursor' = r.to
          /\ pull' = [pull EXCEPT ![p] = IdlePull]
        BY <1>6, <2>1 DEF SaveSerial, SavedSerial
    <2>3. r.to \in Nat /\ SettledTo(r.to, changelog, pypiBoot, released \union forgone)
        BY <2>1 DEF PullRec, PullSound
    <2>4. QED
        BY <1>0, <1>a, <1>b, <2>1, <2>2, <2>3, PullMoves
<1>7. ASSUME NEW p \in Polls, PullAborts(p) PROVE PypiInv'
    <2>1. UNCHANGED <<changelog, cursor, pypiBoot, released, forgone>> /\ pull' = [pull EXCEPT ![p] = IdlePull]
        BY <1>7 DEF PullAborts
    <2>2. QED
        BY <1>0, <1>a, <1>b, <2>1, PullMoves
<1>8. ASSUME NEW p \in Polls, ReadUpdates(p) \/ GateFeed(p) \/ FeedAnomalies(p) \/ FeedAborts(p) PROVE PypiInv'
    <2>1. UNCHANGED <<changelog, cursor, pypiBoot, pull>>
        BY <1>8 DEF ReadUpdates, GateFeed, FeedAnomalies, FeedAborts, sharedVars
    <2>2. UNCHANGED <<released, forgone>> \/ \E S, skipped : EnqueueReleases(S, skipped)
        BY <1>8 DEF ReadUpdates, GateFeed, FeedAnomalies, FeedAborts
    <2>3. QED
        BY <2>1, <2>2, EnqueueGrows, PullsUntouched
<1>9. CASE PypiRestart
    <2>1. UNCHANGED <<changelog, cursor, pypiBoot, released, forgone>> /\ pull' = [p \in Polls |-> IdlePull]
        BY <1>9 DEF PypiRestart
    <2>2. PypiFrame'
        BY <1>0, <1>b, <2>1 DEF PypiFrame
    <2>3. QED
        BY <1>0, <1>a, <2>1, <2>2 DEF PypiInv
<1>10. CASE PypiOthers \/ UNCHANGED pypiVars
    <2>1. UNCHANGED <<changelog, cursor, pypiBoot, pull, released, forgone>>
        BY <1>10 DEF PypiOthers, OthersEnqueue, pypiVars, pypiOwn, sharedVars
    <2>2. QED
        BY <2>1, PullsUntouched
<1>11. QED
    BY <1>1, <1>2, <1>3, <1>4, <1>5, <1>6, <1>7, <1>8, <1>9, <1>10 DEF PypiNext

\* However pulls and feed polls overlap, fail and restart, and however long the changelog, no
\* release is lost behind the serial that pull_since saves.
THEOREM PypiLosesNothing == PypiSpec => []PypiNothingLost
<1>1. PypiInv => PypiNothingLost
    BY DEF PypiInv, PypiFrame, SettledTo, PypiNothingLost, Releases
<1>2. QED
    BY <1>1, PypiStarts, PypiSteps, PTL DEF PypiSpec

-----------------------------------------------------------------------------
(* The index of Go modules                                                 *)

GoRec == [pc : {"idle", "page", "save"}, start : Nat, since : Nat, max : Nat, held : Nat \union {NoHold}]
IndexRow == [path : Paths, ts : Nat, kind : {"tagged", "pseudo", "bad"}]

\* The index is in the order of its timestamps, none of which is in the future.
InOrder(log, now) ==
    /\ \A i \in DOMAIN log : log[i].ts <= now
    /\ \A i, j \in DOMAIN log : i <= j => log[i].ts <= log[j].ts

GoFrame ==
    /\ index \in Seq(IndexRow) /\ clock \in Nat /\ InOrder(index, clock)
    /\ goBoot \in Nat /\ goBoot <= clock
    /\ cursor \in Nat \union {NoCursor}
    /\ goPoll \in [Polls -> GoRec]

\* The entries nothing more is owed to.
GoDone == {i \in DOMAIN index : IF Listed(Path(i)) THEN i \in queued \union gaveUp
                                ELSE exclusive \/ Path(i) \in known}

\* A timestamp is passed before the clock has left it only by stepping past a stall.
Reached(k, now, past) == k <= now + 1 /\ (k > now => now \in past)

\* The tagged entries before timestamp k, since the bootstrap and not stalled, are done with, or
\* the poll holds the cursor before them.
Covered(k, held, log, base, past, done) ==
    \A i \in DOMAIN log :
        log[i].kind = "tagged" /\ base <= log[i].ts /\ log[i].ts < k /\ log[i].ts \notin past
        => (i \in done \/ (held # NoHold /\ held <= log[i].ts))

PollSound(q, now, log, base, past, done) ==
    /\ Reached(q.max, now, past) /\ (q.pc = "page" => q.since = q.max)
    /\ Covered(q.max, q.held, log, base, past, done)

GoInv ==
    /\ GoFrame
    /\ Reached(cursor, clock, stalled) /\ Covered(cursor, NoHold, index, goBoot, stalled, GoDone)
    /\ \A p \in Polls : PollSound(goPoll[p], clock, index, goBoot, stalled, GoDone)

LEMMA IdleGoPollIs ==
    /\ IdleGoPoll \in GoRec /\ IdleGoPoll.max = 0 /\ IdleGoPoll.held = NoHold /\ IdleGoPoll.pc = "idle"
BY DEF IdleGoPoll, GoRec, NoHold

LEMMA MinOfPair ==
    ASSUME NEW a \in Int, NEW b \in Int
    PROVE  Min({a, b}) = IF a <= b THEN a ELSE b
BY DEF Min

LEMMA IndexTyped ==
    ASSUME NEW log \in Seq(IndexRow)
    PROVE  /\ Len(log) \in Nat /\ DOMAIN log = 1 .. Len(log)
           /\ \A i \in DOMAIN log : log[i] \in IndexRow /\ log[i].ts \in Nat
<1>1. Len(log) \in Nat /\ DOMAIN log = 1 .. Len(log)
    OBVIOUS
<1>2. \A i \in 1 .. Len(log) : log[i] \in IndexRow
    OBVIOUS
<1>3. \A r \in IndexRow : r.ts \in Nat
    BY DEF IndexRow
<1>4. QED
    BY <1>1, <1>2, <1>3

LEMMA IdleGoSound ==
    ASSUME NEW now \in Nat, NEW log \in Seq(IndexRow), NEW base \in Nat, NEW past, NEW done
    PROVE  PollSound(IdleGoPoll, now, log, base, past, done)
<1>1. \A i \in DOMAIN log : ~(log[i].ts < 0)
    BY IndexTyped
<1>2. QED
    BY <1>1, IdleGoPollIs DEF PollSound, Reached, Covered

\* What is covered stays covered: the bootstrap moves forward, stalls and done entries are kept.
LEMMA CoveredStays ==
    ASSUME NEW k, NEW held, NEW log \in Seq(IndexRow), NEW base \in Nat, NEW later \in Nat, base <= later,
           NEW past, NEW beyond, past \subseteq beyond, NEW done, NEW more, done \subseteq more,
           Covered(k, held, log, base, past, done)
    PROVE  Covered(k, held, log, later, beyond, more)
<1>1. \A i \in DOMAIN log : log[i].ts \in Nat
    BY IndexTyped
<1>2. QED
    BY <1>1 DEF Covered

LEMMA PollStays ==
    ASSUME NEW q, NEW now, NEW log \in Seq(IndexRow), NEW base \in Nat, NEW later \in Nat, base <= later,
           NEW past, NEW beyond, past \subseteq beyond, NEW done, NEW more, done \subseteq more,
           PollSound(q, now, log, base, past, done)
    PROVE  PollSound(q, now, log, later, beyond, more)
<1>1. Covered(q.max, q.held, log, later, beyond, more)
    BY CoveredStays DEF PollSound
<1>2. QED
    BY <1>1 DEF PollSound, Reached

\* Entries done with stay so.
LEMMA DoneStays ==
    ASSUME UNCHANGED listVars, DOMAIN index \subseteq DOMAIN index', \A i \in DOMAIN index : index'[i] = index[i],
           queued \subseteq queued', gaveUp \subseteq gaveUp', known \subseteq known'
    PROVE  GoDone \subseteq GoDone'
BY DEF GoDone, Listed, Path, listVars

\* A poll moves on to q and saves, makes or leaves the cursor.
LEMMA GoPollMoves ==
    ASSUME GoInv, NEW p \in Polls, NEW q \in GoRec, goPoll' = [goPoll EXCEPT ![p] = q],
           index' = index, clock' = clock, UNCHANGED listVars,
           queued \subseteq queued', gaveUp \subseteq gaveUp', known \subseteq known',
           goBoot' \in Nat, goBoot <= goBoot', goBoot' <= clock, stalled \subseteq stalled',
           cursor' \in Nat \union {NoCursor}, Reached(cursor', clock, stalled'),
           Covered(cursor', NoHold, index, goBoot', stalled', GoDone'),
           PollSound(q, clock, index, goBoot', stalled', GoDone')
    PROVE  GoInv'
<1>0. index \in Seq(IndexRow) /\ goBoot \in Nat /\ GoDone \subseteq GoDone'
    BY DoneStays DEF GoInv, GoFrame
<1>1. goPoll' \in [Polls -> GoRec] /\ \A o \in Polls : goPoll'[o] = IF o = p THEN q ELSE goPoll[o]
    BY DEF GoInv, GoFrame
<1>2. GoFrame'
    BY <1>1 DEF GoInv, GoFrame
<1>3. ASSUME NEW o \in Polls PROVE PollSound(goPoll'[o], clock', index', goBoot', stalled', GoDone')
    <2>1. CASE o = p
        BY <1>1, <2>1
    <2>2. CASE o # p
        <3>1. goPoll'[o] = goPoll[o] /\ PollSound(goPoll[o], clock, index, goBoot, stalled, GoDone)
            BY <1>1, <2>2 DEF GoInv
        <3>2. QED
            BY <1>0, <3>1, PollStays
    <2>3. QED
        BY <2>1, <2>2
<1>4. QED
    BY <1>2, <1>3 DEF GoInv

LEMMA GoStarts == GoInit => GoInv
<1> SUFFICES ASSUME GoInit PROVE GoInv
    OBVIOUS
<1>1. /\ cursor \in {NoCursor, 0} /\ goBoot = 0 /\ clock = 0 /\ goPoll = [p \in Polls |-> IdleGoPoll]
    BY DEF GoInit, IngestInit
<1>2. index \in Seq(IndexRow) /\ InOrder(index, clock)
    <2>1. PICK old \in [path : Paths, ts : {0}, kind : {"tagged"}] : index = <<>> \/ index = <<old>>
        BY DEF GoInit
    <2>2. old \in IndexRow /\ old.ts = 0
        BY DEF IndexRow
    <2>3. CASE index = <<>>
        BY <2>3 DEF InOrder
    <2>4. CASE index = <<old>>
        <3>1. index \in Seq(IndexRow) /\ DOMAIN index = {1} /\ index[1].ts = 0
            BY <2>2, <2>4
        <3>2. QED
            BY <1>1, <3>1 DEF InOrder
    <2>5. QED
        BY <2>1, <2>3, <2>4
<1>3. GoFrame
    BY <1>1, <1>2, IdleGoPollIs DEF GoFrame
<1>4. Reached(cursor, clock, stalled) /\ Covered(cursor, NoHold, index, goBoot, stalled, GoDone)
    <2>1. \A i \in DOMAIN index : ~(index[i].ts < cursor)
        BY <1>1, <1>2, IndexTyped DEF NoCursor
    <2>2. QED
        BY <1>1, <2>1 DEF Reached, Covered, NoCursor
<1>5. PollSound(IdleGoPoll, clock, index, goBoot, stalled, GoDone)
    BY <1>1, <1>2, IdleGoSound
<1>6. QED
    BY <1>1, <1>3, <1>4, <1>5 DEF GoInv

\* The index grows by an entry of the present time.
LEMMA IndexGrows == GoInv /\ AddEntry => GoInv'
<1> SUFFICES ASSUME GoInv, AddEntry PROVE GoInv'
    OBVIOUS
<1>1. PICK n \in Paths, k \in {"tagged", "pseudo", "bad"} : index' = Append(index, [path |-> n, ts |-> clock, kind |-> k])
    BY DEF AddEntry
<1> DEFINE e == [path |-> n, ts |-> clock, kind |-> k]
<1>2. /\ UNCHANGED <<cursor, known, listVars, clock, goBoot, goPoll, queued, gaveUp, stalled>>
      /\ clock \in Nat /\ index \in Seq(IndexRow) /\ InOrder(index, clock)
    BY DEF AddEntry, sharedVars, GoInv, GoFrame
<1>3. e \in IndexRow /\ e.ts = clock
    BY <1>2 DEF IndexRow
<1> HIDE DEF e
<1>4. PICK m \in Nat : m = Len(index)
    BY <1>2
<1>5. /\ index' \in Seq(IndexRow) /\ DOMAIN index' = 1 .. (m + 1) /\ DOMAIN index = 1 .. m /\ index'[m + 1] = e
      /\ \A i \in 1 .. m : index'[i] = index[i]
    BY <1>1, <1>2, <1>3, <1>4 DEF e
<1>6. \A i \in 1 .. m : index[i].ts \in Nat
    BY <1>2, <1>4, IndexTyped
<1>7. \A i \in 1 .. (m + 1) : (i \in 1 .. m) \/ i = m + 1
    OBVIOUS
<1>8. InOrder(index', clock)
    BY <1>2, <1>3, <1>4, <1>5, <1>6, <1>7 DEF InOrder
<1>9. GoFrame'
    BY <1>2, <1>5, <1>8 DEF GoInv, GoFrame
<1>10. GoDone \subseteq GoDone'
    <2>1. DOMAIN index \subseteq DOMAIN index' /\ \A i \in DOMAIN index : index'[i] = index[i]
        BY <1>4, <1>5
    <2>2. QED
        BY <1>2, <2>1, DoneStays
<1>11. ASSUME NEW x \in Nat \union {NoCursor}, NEW held, Reached(x, clock, stalled),
              Covered(x, held, index, goBoot, stalled, GoDone)
       PROVE  Covered(x, held, index', goBoot, stalled, GoDone')
    <2>1. ~(index'[m + 1].ts < x) \/ index'[m + 1].ts \in stalled
        BY <1>2, <1>3, <1>5, <1>11 DEF Reached, NoCursor
    <2>2. QED
        BY <1>5, <1>7, <1>10, <1>11, <2>1 DEF Covered
<1>12. Covered(cursor, NoHold, index', goBoot, stalled, GoDone')
    BY <1>11 DEF GoInv, GoFrame
<1>13. ASSUME NEW p \in Polls PROVE PollSound(goPoll[p], clock, index', goBoot, stalled, GoDone')
    <2>1. PICK q \in GoRec : q = goPoll[p] /\ PollSound(q, clock, index, goBoot, stalled, GoDone)
        BY DEF GoInv, GoFrame
    <2>2. q.max \in Nat
        BY DEF GoRec
    <2>3. Covered(q.max, q.held, index', goBoot, stalled, GoDone')
        BY <1>11, <2>1, <2>2 DEF PollSound
    <2>4. QED
        BY <2>1, <2>3 DEF PollSound
<1>14. QED
    BY <1>2, <1>9, <1>12, <1>13 DEF GoInv

LEMMA ClockTicks == GoInv /\ Tick => GoInv'
<1> SUFFICES ASSUME GoInv, Tick PROVE GoInv'
    OBVIOUS
<1>1. /\ UNCHANGED <<cursor, known, listVars, index, goBoot, goPoll, queued, gaveUp, stalled>>
      /\ clock' = clock + 1 /\ clock \in Nat /\ index \in Seq(IndexRow) /\ GoDone' = GoDone
    BY DEF Tick, sharedVars, listVars, GoInv, GoFrame, GoDone, Listed, Path
<1>2. InOrder(index, clock')
    BY <1>1, IndexTyped DEF InOrder, GoInv, GoFrame
<1>3. GoFrame'
    BY <1>1, <1>2 DEF GoInv, GoFrame
<1>4. ASSUME NEW x \in Nat \union {NoCursor}, Reached(x, clock, stalled) PROVE Reached(x, clock', stalled)
    BY <1>1, <1>4 DEF Reached, NoCursor
<1>5. Reached(cursor, clock', stalled)
    BY <1>4 DEF GoInv, GoFrame
<1>6. ASSUME NEW p \in Polls PROVE PollSound(goPoll[p], clock', index, goBoot, stalled, GoDone)
    <2>1. PICK q \in GoRec : q = goPoll[p] /\ PollSound(q, clock, index, goBoot, stalled, GoDone)
        BY DEF GoInv, GoFrame
    <2>2. q.max \in Nat
        BY DEF GoRec
    <2>3. QED
        BY <1>4, <2>1, <2>2 DEF PollSound
<1>7. QED
    BY <1>1, <1>3, <1>5, <1>6 DEF GoInv

-----------------------------------------------------------------------------
(* A page                                                                  *)

\* What a page of the index is: the entries before any of its own are on it as well.
LEMMA PageIsPrefix ==
    ASSUME GoFrame, NEW since \in Nat
    PROVE  /\ IndexPage(since) \subseteq DOMAIN index
           /\ \A i \in IndexPage(since) : index[i].ts >= since
           /\ \A m \in IndexPage(since) : \A i \in DOMAIN index :
                index[i].ts >= since /\ index[i].ts < index[m].ts => i \in IndexPage(since)
<1> DEFINE from == {i \in DOMAIN index : index[i].ts >= since}
           before(i) == {j \in from : j < i}
<1>1. IndexPage(since) = {i \in from : Cardinality(before(i)) < GoPage}
    BY DEF IndexPage
<1>2. /\ index \in Seq(IndexRow) /\ Len(index) \in Nat /\ DOMAIN index = 1 .. Len(index)
      /\ InOrder(index, clock) /\ \A i \in DOMAIN index : index[i].ts \in Nat
    BY IndexTyped DEF GoFrame
<1>3. \A i : IsFiniteSet(before(i))
    <2>1. IsFiniteSet(1 .. Len(index))
        BY <1>2, FS_Interval
    <2>2. \A i : before(i) \subseteq 1 .. Len(index)
        BY <1>2
    <2>3. QED
        BY <2>1, <2>2, FS_Subset
<1>4. ASSUME NEW m \in from, Cardinality(before(m)) < GoPage, NEW i \in from, index[i].ts < index[m].ts
      PROVE  Cardinality(before(i)) < GoPage
    <2>1. i < m
        BY <1>2, <1>4 DEF InOrder
    <2>2. before(i) \subseteq before(m)
        BY <1>2, <2>1
    <2> HIDE DEF before
    <2>3. Cardinality(before(i)) <= Cardinality(before(m))
        BY <1>3, <2>2, FS_Subset
    <2>4. Cardinality(before(i)) \in Nat /\ Cardinality(before(m)) \in Nat
        BY <1>3, FS_CardinalityType
    <2>5. GoPage \in Nat
        BY GoBoundAssumption
    <2>6. QED
        BY <1>4, <2>3, <2>4, <2>5
<1> HIDE DEF before
<1>5. QED
    BY <1>1, <1>4

\* MaxCursor: of the poll so far and of the page.
LEMMA MaxCursorIs ==
    ASSUME GoFrame, NEW q \in GoRec, NEW page \in SUBSET DOMAIN index
    PROVE  LET M == MaxCursor(q, page) IN
           /\ M \in Nat /\ q.max <= M
           /\ M = q.max \/ \E i \in page : M = index[i].ts
<1>1. /\ clock \in Nat /\ \A i \in DOMAIN index : index[i].ts \in Nat /\ index[i].ts <= clock
    BY IndexTyped DEF GoFrame, InOrder
<1>2. q.max \in Nat
    BY DEF GoRec
<1>3. PICK k \in Nat : k = clock + q.max
    BY <1>1, <1>2
<1> DEFINE S == {q.max} \union {index[i].ts : i \in {j \in page : index[j].kind # "bad"}}
<1>4. S \in SUBSET (0 .. k) /\ S # {}
    BY <1>1, <1>2, <1>3
<1>5. S \in SUBSET Nat /\ q.max \in S
    BY <1>1, <1>2
<1>6. Max(S) \in S /\ \A n \in S : n <= Max(S)
    <2> HIDE DEF S
    <2>1. QED
        BY <1>3, <1>4, MaxOfNaturals
<1>7. MaxCursor(q, page) = Max(S)
    BY DEF MaxCursor
<1>8. Max(S) \in Nat /\ q.max <= Max(S)
    BY <1>5, <1>6
<1>9. Max(S) = q.max \/ \E i \in page : Max(S) = index[i].ts
    BY <1>6
<1> HIDE DEF S
<1>10. QED
    BY <1>7, <1>8, <1>9

\* Hold: never after the hold so far, nor after an entry enqueue gave up on.
LEMMA HoldIs ==
    ASSUME GoFrame, NEW q \in GoRec, NEW S \in SUBSET DOMAIN index
    PROVE  LET h == Hold(q, S) IN
           /\ h \in Nat \union {NoHold}
           /\ q.held # NoHold => h # NoHold /\ h <= q.held
           /\ \A i \in S : h # NoHold /\ h <= index[i].ts
<1>1. \A i \in DOMAIN index : index[i].ts \in Nat
    BY IndexTyped DEF GoFrame
<1>2. q.held \in Nat \union {NoHold}
    BY DEF GoRec
<1>3. CASE S = {}
    BY <1>2, <1>3 DEF Hold, NoHold
<1>4. CASE S # {}
    <2> DEFINE T == {index[i].ts : i \in S}
    <2>1. T \in SUBSET Nat /\ T # {}
        BY <1>1, <1>4
    <2>2. Min(T) \in T /\ \A n \in T : Min(T) <= n
        <3> HIDE DEF T
        <3>1. QED
            BY <2>1, MinOfNaturals
    <2>3. \A i \in S : Min(T) <= index[i].ts /\ index[i].ts \in Nat
        BY <1>1, <2>2
    <2>4. Hold(q, S) = IF q.held = NoHold \/ Min(T) < q.held THEN Min(T) ELSE q.held
        BY <1>4 DEF Hold
    <2>5. PICK first \in Nat : first = Min(T)
        BY <2>1, <2>2
    <2> HIDE DEF T
    <2>6. QED
        BY <1>2, <2>3, <2>4, <2>5 DEF NoHold
<1>5. QED
    BY <1>3, <1>4

\* The first of the entries of a path is in FirstOnes.
LEMMA FirstOnesHaveAll ==
    ASSUME GoFrame, NEW S \in SUBSET DOMAIN index, NEW i \in S
    PROVE  \E j \in FirstOnes(S) : Path(j) = Path(i)
<1> DEFINE same == {j \in S : Path(j) = Path(i)}
<1>1. same \in SUBSET Nat /\ same # {}
    BY IndexTyped DEF GoFrame
<1>2. PICK j \in same : \A k \in same : j <= k
    <2> HIDE DEF same
    <2>1. QED
        BY <1>1, LeastNat
<1>3. Earlier(j, S) = {}
    BY <1>1, <1>2 DEF Earlier
<1>4. QED
    BY <1>2, <1>3 DEF FirstOnes

\* What one page does for its tagged entries: each is done with or holds the cursor.
LEMMA PageSettles ==
    ASSUME GoFrame, NEW page \in SUBSET DOMAIN index, NEW dropped,
           index' = index, UNCHANGED listVars, known \subseteq known',
           Monitored(page) \subseteq queued' \union gaveUp',
           \A j \in FirstOnes(BrandNew(page) \ dropped) : Path(j) \in known',
           NEW i \in page, index[i].kind = "tagged"
    PROVE  \/ i \in GoDone'
           \/ i \in BrandNew(page) /\ i \in dropped /\ Earlier(i, FirstOnes(BrandNew(page) \ dropped)) = {}
<1> DEFINE new == BrandNew(page)
           taken == FirstOnes(new \ dropped)
<1>0. new \subseteq DOMAIN index
    BY DEF BrandNew, Taggeds
<1>2. Listed(Path(i))' = Listed(Path(i)) /\ Path(i)' = Path(i) /\ i \in DOMAIN index'
    BY DEF Listed, Path, listVars
<1>3. CASE Listed(Path(i))
    <2>1. i \in Monitored(page)
        BY <1>3 DEF Monitored, Taggeds
    <2>2. i \in queued' \union gaveUp'
        BY <2>1
    <2>3. QED
        BY <1>2, <1>3, <2>2 DEF GoDone
<1>4. CASE ~Listed(Path(i)) /\ (exclusive \/ Path(i) \in known)
    BY <1>2, <1>4 DEF GoDone, listVars
<1>5. CASE ~Listed(Path(i)) /\ ~exclusive /\ Path(i) \notin known
    <2>1. i \in new
        BY <1>5 DEF BrandNew, Taggeds, Admitted
    <2>2. ASSUME NEW j \in taken, Path(j) = Path(i) PROVE i \in GoDone'
        <3>1. Path(i) \in known'
            BY <2>2
        <3>2. QED
            BY <1>2, <1>5, <3>1 DEF GoDone
    <2>3. CASE i \notin dropped
        <3>1. i \in new \ dropped /\ new \ dropped \in SUBSET DOMAIN index
            BY <1>0, <2>1, <2>3
        <3> HIDE DEF new
        <3>2. \E j \in taken : Path(j) = Path(i)
            BY <3>1, FirstOnesHaveAll
        <3>3. QED
            BY <2>2, <3>2
    <2>4. CASE i \in dropped
        <3>1. CASE Earlier(i, taken) = {}
            BY <2>1, <2>4, <3>1
        <3>2. CASE Earlier(i, taken) # {}
            <4>1. PICK j \in taken : Path(j) = Path(i)
                BY <3>2 DEF Earlier
            <4>2. QED
                BY <2>2, <4>1
        <3>3. QED
            BY <3>1, <3>2
    <2>5. QED
        BY <2>3, <2>4
<1>6. QED
    BY <1>3, <1>4, <1>5

LEMMA GoGates == \A p \in Polls : GoInv /\ GoGatePage(p) => GoInv'
<1> SUFFICES ASSUME GoInv, NEW p \in Polls, GoGatePage(p) PROVE GoInv'
    OBVIOUS
<1> DEFINE r == goPoll[p]
<1>1. r \in GoRec /\ r.pc = "page" /\ r.since = r.max /\ PollSound(r, clock, index, goBoot, stalled, GoDone)
    BY DEF GoGatePage, GoInv, GoFrame, PollSound
<1>2. /\ GoFrame /\ clock \in Nat /\ index \in Seq(IndexRow) /\ goBoot \in Nat /\ goBoot <= clock
      /\ \A i \in DOMAIN index : index[i].ts \in Nat /\ index[i].ts <= clock
      /\ cursor \in Nat \union {NoCursor} /\ Reached(cursor, clock, stalled)
      /\ Covered(cursor, NoHold, index, goBoot, stalled, GoDone)
    BY IndexTyped DEF GoInv, GoFrame, InOrder
<1>3. r.since \in Nat /\ r.max \in Nat /\ r.held \in Nat \union {NoHold}
    BY <1>1 DEF GoRec
<1> DEFINE page == IndexPage(r.since)
           new == BrandNew(page)
           full == Cardinality(page) = GoPage
           M == MaxCursor(r, page)
           next == M + (IF Stalls(r, page) THEN 1 ELSE 0)
<1>4. page # {} /\ stalled' = (IF Stalls(r, page) THEN stalled \union {r.since} ELSE stalled)
    BY <1>1 DEF GoGatePage
<1>5. UNCHANGED <<cursor, listVars, index, clock, goBoot>>
    BY DEF GoGatePage
<1>6. PICK dropped \in SUBSET ((Monitored(page) \ queued) \union new) :
         LET taken == FirstOnes(new \ dropped)
             put == (Monitored(page) \ dropped) \union taken
             held == {i \in new \intersect dropped : Earlier(i, taken) = {}}
         IN /\ Learn({Path(i) : i \in put})
            /\ queued' = queued \union put
            /\ gaveUp' = gaveUp \union dropped
            /\ goPoll' = [goPoll EXCEPT ![p] = [r EXCEPT
                  !.pc = IF full THEN "page" ELSE "save",
                  !.since = IF full THEN next ELSE r.since,
                  !.max = next, !.held = Hold(r, held)]]
    BY DEF GoGatePage
<1> DEFINE put == (Monitored(page) \ dropped) \union FirstOnes(new \ dropped)
           held == {i \in new \intersect dropped : Earlier(i, FirstOnes(new \ dropped)) = {}}
           h == Hold(r, held)
           q == [r EXCEPT !.pc = IF full THEN "page" ELSE "save", !.since = IF full THEN next ELSE r.since,
                          !.max = next, !.held = h]
<1>7. Learn({Path(i) : i \in put}) /\ queued' = queued \union put /\ gaveUp' = gaveUp \union dropped
    BY <1>6
<1>8. goPoll' = [goPoll EXCEPT ![p] = q]
    BY <1>6
<1> HIDE DEF r
<1>9. /\ page \subseteq DOMAIN index /\ \A i \in page : index[i].ts >= r.since
      /\ \A m \in page : \A i \in DOMAIN index :
            index[i].ts >= r.since /\ index[i].ts < index[m].ts => i \in page
    <2> HIDE DEF page
    <2>1. QED
        BY <1>2, <1>3, PageIsPrefix DEF page
<1>10. held \in SUBSET DOMAIN index
    BY <1>9 DEF BrandNew, Taggeds
<1>11. \A i \in page : index[i].kind = "tagged" => i \in GoDone' \/ i \in held
    <2> HIDE DEF page, put
    <2> SUFFICES ASSUME NEW i \in page, index[i].kind = "tagged" PROVE i \in GoDone' \/ i \in held
        OBVIOUS
    <2>1. Monitored(page) \subseteq queued' \union gaveUp'
        BY <1>7 DEF put
    <2>2. known \subseteq known' /\ \A j \in FirstOnes(BrandNew(page) \ dropped) : Path(j) \in known'
        BY <1>7 DEF Learn, put
    <2>3. \/ i \in GoDone'
          \/ i \in BrandNew(page) /\ i \in dropped /\ Earlier(i, FirstOnes(BrandNew(page) \ dropped)) = {}
        <3> HIDE DEF new, held
        <3>1. QED
            BY <1>2, <1>5, <1>9, <2>1, <2>2, PageSettles
    <2>4. QED
        BY <2>3
<1> HIDE DEF page, new, held, put
<1>12. /\ h \in Nat \union {NoHold}
       /\ r.held # NoHold => h # NoHold /\ h <= r.held
       /\ \A i \in held : h # NoHold /\ h <= index[i].ts
    BY <1>1, <1>2, <1>10, HoldIs
<1>13. /\ M \in Nat /\ r.max <= M /\ (M = r.max \/ \E i \in page : M = index[i].ts)
    BY <1>1, <1>2, <1>9, MaxCursorIs
<1>14. Stalls(r, page) => M = r.since
    BY DEF Stalls
<1>15. next \in Nat /\ (next = M \/ (Stalls(r, page) /\ M = r.since /\ next = M + 1))
    BY <1>13, <1>14
<1> HIDE DEF M, h
<1>16. Reached(next, clock, stalled')
    <2>1. CASE Stalls(r, page)
        <3>1. PICK i \in page : TRUE
            BY <1>4
        <3>2. r.since <= clock
            BY <1>2, <1>3, <1>9, <3>1
        <3>3. next = r.since + 1 /\ r.since \in stalled'
            BY <1>4, <1>14, <2>1
        <3>4. QED
            BY <1>2, <1>3, <3>2, <3>3 DEF Reached
    <2>2. CASE ~Stalls(r, page)
        <3>1. next = M /\ stalled' = stalled
            BY <1>4, <1>13, <2>2
        <3>2. M <= clock \/ M = r.max
            BY <1>2, <1>9, <1>13
        <3>3. Reached(r.max, clock, stalled)
            BY <1>1 DEF PollSound
        <3>4. QED
            BY <1>2, <1>13, <3>1, <3>2, <3>3 DEF Reached
    <2>3. QED
        BY <2>1, <2>2
<1>17. GoDone \subseteq GoDone' /\ stalled \subseteq stalled' /\ known \subseteq known'
    <2>1. known \subseteq known' /\ queued \subseteq queued' /\ gaveUp \subseteq gaveUp'
        BY <1>7 DEF Learn
    <2>2. QED
        BY <1>4, <1>5, <2>1, DoneStays
<1>18. Covered(next, h, index, goBoot, stalled', GoDone')
    <2> SUFFICES ASSUME NEW i \in DOMAIN index, index[i].kind = "tagged", goBoot <= index[i].ts,
                        index[i].ts < next, index[i].ts \notin stalled'
                 PROVE  i \in GoDone' \/ (h # NoHold /\ h <= index[i].ts)
        BY DEF Covered
    <2>0. PICK t \in Nat : t = index[i].ts
        BY <1>2
    <2>1. CASE t < r.max
        <3>1. i \in GoDone \/ (r.held # NoHold /\ r.held <= t)
            BY <1>1, <1>17, <2>0, <2>1 DEF PollSound, Covered
        <3>2. QED
            BY <1>3, <1>12, <1>17, <2>0, <3>1 DEF NoHold
    <2>2. CASE t >= r.max
        <3>1. next = M /\ M > t
            BY <1>1, <1>3, <1>4, <1>13, <1>15, <2>0, <2>2
        <3>2. PICK m \in page : M = index[m].ts
            BY <1>3, <1>13, <2>0, <2>2, <3>1
        <3>3. i \in page
            BY <1>1, <1>3, <1>9, <2>0, <2>2, <3>1, <3>2
        <3>4. i \in GoDone' \/ i \in held
            BY <1>11, <3>3
        <3>5. QED
            BY <1>12, <3>4
    <2>3. QED
        BY <1>3, <2>0, <2>1, <2>2
<1> HIDE DEF next, full
<1>19. q \in GoRec /\ q.max = next /\ q.held = h /\ (q.pc = "page" => q.since = next)
    BY <1>1, <1>3, <1>12, <1>15 DEF GoRec
<1> HIDE DEF q
<1>20. PollSound(q, clock, index, goBoot, stalled', GoDone')
    BY <1>16, <1>18, <1>19 DEF PollSound
<1>21. Reached(cursor, clock, stalled')
    BY <1>2, <1>17 DEF Reached
<1>22. Covered(cursor, NoHold, index, goBoot, stalled', GoDone')
    BY <1>2, <1>17, CoveredStays
<1>23. queued \subseteq queued' /\ gaveUp \subseteq gaveUp' /\ goBoot <= goBoot
    BY <1>2, <1>7
<1>24. QED
    BY <1>2, <1>5, <1>8, <1>17, <1>19, <1>20, <1>21, <1>22, <1>23, GoPollMoves

LEMMA GoSaves == \A p \in Polls : GoInv /\ SaveCursor(p) => GoInv'
<1> SUFFICES ASSUME GoInv, NEW p \in Polls, SaveCursor(p) PROVE GoInv'
    OBVIOUS
<1>1. PICK r \in GoRec : r = goPoll[p] /\ PollSound(r, clock, index, goBoot, stalled, GoDone)
    BY DEF GoInv, GoFrame
<1>2. /\ clock \in Nat /\ index \in Seq(IndexRow) /\ goBoot \in Nat /\ goBoot <= clock /\ goBoot <= goBoot
      /\ \A i \in DOMAIN index : index[i].ts \in Nat
      /\ cursor \in Nat \union {NoCursor} /\ Reached(cursor, clock, stalled)
      /\ Covered(cursor, NoHold, index, goBoot, stalled, GoDone)
    BY IndexTyped DEF GoInv, GoFrame
<1>3. r.start \in Nat /\ r.max \in Nat /\ r.held \in Nat \union {NoHold}
    BY DEF GoRec
<1>4. /\ UNCHANGED <<known, listVars, index, clock, goBoot, queued, gaveUp, stalled>>
      /\ cursor' = (IF FinalCursor(r) > r.start THEN FinalCursor(r) ELSE cursor)
      /\ goPoll' = [goPoll EXCEPT ![p] = IdleGoPoll]
    BY <1>1 DEF SaveCursor
<1>5. GoDone' = GoDone
    BY <1>4 DEF GoDone, Listed, Path, listVars
<1>6. PICK f \in Int : f = FinalCursor(r) /\ f <= r.max /\ (r.held # NoHold => f < r.held)
    <2>1. CASE r.held = NoHold
        BY <1>3, <2>1 DEF FinalCursor
    <2>2. CASE r.held # NoHold
        <3>1. r.held - 1 \in Int
            BY <1>3, <2>2
        <3>2. FinalCursor(r) = IF r.max <= r.held - 1 THEN r.max ELSE r.held - 1
            BY <1>3, <2>2, <3>1, MinOfPair DEF FinalCursor
        <3>3. QED
            BY <1>3, <2>2, <3>2
    <2>3. QED
        BY <2>1, <2>2
<1>7. cursor' \in Nat \union {NoCursor} /\ Reached(cursor', clock, stalled)
    BY <1>1, <1>2, <1>3, <1>4, <1>6 DEF PollSound, Reached
<1>8. Covered(f, NoHold, index, goBoot, stalled, GoDone)
    BY <1>1, <1>2, <1>3, <1>6 DEF PollSound, Covered, NoHold
<1>9. Covered(cursor', NoHold, index, goBoot, stalled, GoDone)
    BY <1>2, <1>4, <1>6, <1>8
<1>10. PollSound(IdleGoPoll, clock, index, goBoot, stalled, GoDone)
    BY <1>2, IdleGoSound
<1>11. QED
    BY <1>2, <1>4, <1>5, <1>7, <1>9, <1>10, IdleGoPollIs, GoPollMoves

LEMMA GoBegins == \A p \in Polls : GoInv /\ GoBegin(p) => GoInv'
<1> SUFFICES ASSUME GoInv, NEW p \in Polls, GoBegin(p) PROVE GoInv'
    OBVIOUS
<1>2. /\ clock \in Nat /\ index \in Seq(IndexRow) /\ goBoot \in Nat /\ goBoot <= clock
      /\ cursor \in Nat \union {NoCursor}
      /\ \A i \in DOMAIN index : index[i].ts \in Nat
      /\ Reached(cursor, clock, stalled)
      /\ Covered(cursor, NoHold, index, goBoot, stalled, GoDone)
    <2>1. \A i \in DOMAIN index : index[i].ts \in Nat
        BY IndexTyped DEF GoInv, GoFrame
    <2>2. QED
        BY <2>1 DEF GoInv, GoFrame
<1>3. PICK c \in Nat : c = cursor' /\ c = IF cursor = NoCursor THEN clock ELSE cursor
    BY <1>2 DEF GoBegin
<1>4. PICK b \in Nat : b = goBoot' /\ b = IF cursor = NoCursor THEN clock ELSE goBoot
    BY <1>2 DEF GoBegin
<1>5. UNCHANGED <<known, listVars, index, clock, queued, gaveUp, stalled>> /\ GoDone' = GoDone
    BY DEF GoBegin, GoDone, Listed, Path, listVars
<1> DEFINE q == [pc |-> "page", start |-> c, since |-> c, max |-> c, held |-> NoHold]
<1>6. q \in GoRec /\ q.max = c /\ q.since = c /\ q.held = NoHold
    BY DEF GoRec
<1>7. goPoll' = [goPoll EXCEPT ![p] = q]
    BY <1>3 DEF GoBegin
<1> HIDE DEF q
<1>8. Reached(c, clock, stalled)
    BY <1>2, <1>3 DEF Reached
<1>9. Covered(c, NoHold, index, b, stalled, GoDone)
    <2>1. CASE cursor = NoCursor
        BY <1>2, <1>3, <1>4, <2>1 DEF Covered
    <2>2. CASE cursor # NoCursor
        BY <1>2, <1>3, <1>4, <2>2
    <2>3. QED
        BY <2>1, <2>2
<1>10. PollSound(q, clock, index, b, stalled, GoDone)
    BY <1>6, <1>8, <1>9 DEF PollSound
<1>11. goBoot <= b /\ b <= clock
    BY <1>2, <1>4
<1>12. QED
    BY <1>2, <1>3, <1>4, <1>5, <1>6, <1>7, <1>8, <1>9, <1>10, <1>11, GoPollMoves

LEMMA GoSteps == GoInv /\ [GoNext]_goVars => GoInv'
<1> SUFFICES ASSUME GoInv, [GoNext]_goVars PROVE GoInv'
    OBVIOUS
<1>0. /\ clock \in Nat /\ index \in Seq(IndexRow) /\ goBoot \in Nat /\ goBoot <= clock /\ goBoot <= goBoot
      /\ cursor \in Nat \union {NoCursor} /\ Reached(cursor, clock, stalled)
      /\ Covered(cursor, NoHold, index, goBoot, stalled, GoDone)
      /\ PollSound(IdleGoPoll, clock, index, goBoot, stalled, GoDone)
    BY IdleGoSound DEF GoInv, GoFrame
<1>1. CASE AddEntry \/ Tick
    BY <1>1, IndexGrows, ClockTicks
<1>2. ASSUME NEW p \in Polls, GoBegin(p) \/ GoGatePage(p) \/ SaveCursor(p) PROVE GoInv'
    BY <1>2, GoBegins, GoGates, GoSaves
<1>3. ASSUME NEW p \in Polls, NoEntries(p) PROVE GoInv'
    <2>1. PICK r \in GoRec : r = goPoll[p] /\ PollSound(r, clock, index, goBoot, stalled, GoDone)
        BY DEF GoInv, GoFrame
    <2> DEFINE q == [r EXCEPT !.pc = "save"]
    <2>2. q \in GoRec /\ q.pc = "save" /\ q.max = r.max /\ q.held = r.held
        BY DEF GoRec
    <2>3. /\ UNCHANGED <<cursor, known, listVars, index, clock, goBoot, queued, gaveUp, stalled>>
          /\ goPoll' = [goPoll EXCEPT ![p] = q]
        BY <1>3, <2>1 DEF NoEntries
    <2> HIDE DEF q
    <2>4. PollSound(q, clock, index, goBoot, stalled, GoDone)
        BY <2>1, <2>2 DEF PollSound
    <2>5. GoDone' = GoDone
        BY <2>3 DEF GoDone, Listed, Path, listVars
    <2>6. QED
        BY <1>0, <2>2, <2>3, <2>4, <2>5, GoPollMoves
<1>4. ASSUME NEW p \in Polls, GoAbort(p) PROVE GoInv'
    <2>1. /\ UNCHANGED <<cursor, known, listVars, index, clock, goBoot, queued, gaveUp, stalled>>
          /\ goPoll' = [goPoll EXCEPT ![p] = IdleGoPoll]
        BY <1>4 DEF GoAbort
    <2>2. GoDone' = GoDone
        BY <2>1 DEF GoDone, Listed, Path, listVars
    <2>3. QED
        BY <1>0, <2>1, <2>2, IdleGoPollIs, GoPollMoves
<1>5. CASE GoRestart
    <2>1. /\ UNCHANGED <<cursor, known, listVars, index, clock, goBoot, queued, gaveUp, stalled>>
          /\ goPoll' = [p \in Polls |-> IdleGoPoll]
        BY <1>5 DEF GoRestart
    <2>2. GoDone' = GoDone
        BY <2>1 DEF GoDone, Listed, Path, listVars
    <2>3. GoFrame'
        BY <2>1, IdleGoPollIs DEF GoInv, GoFrame
    <2>4. QED
        BY <1>0, <2>1, <2>2, <2>3 DEF GoInv
<1>6. CASE GoOthers \/ UNCHANGED goVars
    <2>1. UNCHANGED <<cursor, listVars, index, clock, goBoot, goPoll, queued, gaveUp, stalled>> /\ known \subseteq known'
        BY <1>6 DEF GoOthers, OthersEnqueue, Learn, goVars, goOwn, sharedVars, listVars
    <2>2. GoDone \subseteq GoDone'
        BY <2>1, DoneStays
    <2>3. GoFrame'
        BY <2>1 DEF GoInv, GoFrame
    <2>4. Covered(cursor, NoHold, index, goBoot, stalled, GoDone')
        BY <1>0, <2>2, CoveredStays
    <2>5. \A p \in Polls : PollSound(goPoll[p], clock, index, goBoot, stalled, GoDone')
        BY <1>0, <2>2, PollStays DEF GoInv
    <2>6. QED
        BY <1>0, <2>1, <2>3, <2>4, <2>5 DEF GoInv
<1>7. QED
    BY <1>1, <1>2, <1>3, <1>4, <1>5, <1>6 DEF GoNext, GoStep

\* However polls overlap, fail half-way and restart, and whatever enqueue gives up on, nothing
\* published since the bootstrap is lost behind the cursor poll_index_once saves, at any page size.
THEOREM GoLosesNothing == GoSpec => []GoNothingLost
<1>1. GoInv => GoNothingLost
    <2> SUFFICES ASSUME GoInv, NEW i \in DOMAIN index, Passed(i)
                 PROVE  i \in GoDone
        BY DEF GoNothingLost, GoDone
    <2>1. index[i].ts \in Nat /\ cursor \in Nat \union {NoCursor} /\ goBoot \in Nat
        BY IndexTyped DEF GoInv, GoFrame
    <2>2. goBoot <= index[i].ts /\ index[i].ts < cursor
        BY <2>1 DEF Passed, NoCursor
    <2>3. QED
        BY <2>2 DEF GoInv, Covered, Passed
<1>2. QED
    BY <1>1, GoStarts, GoSteps, PTL DEF GoSpec

-----------------------------------------------------------------------------
(* The change feed of npm                                                  *)

PollRec == [pc : Steps, start : Nat, since : Nat, max : Nat, pages : Nat,
            gated : [Names -> Nat], cand : SUBSET Names, todo : SUBSET Names, taken : SUBSET Names,
            resolved : [Names -> Nat], hits : [Names -> Nat]]

NpmFrame ==
    /\ change \in [Names -> [seq : Nat, deleted : BOOLEAN]] /\ \A n \in Names : change[n].seq <= MaxSeq
    /\ cursor \in Nat \union {NoCursor} /\ boot \in Nat
    /\ carry \in Seq(Names)
    /\ scanned \in [Names -> Nat] /\ checked \in [Names -> Nat] /\ excused \in [Names -> Nat]
    /\ poll \in [Polls -> PollRec]

\* What a poll holds at each of its steps.
Shape(q) ==
    /\ q.pc \notin {"page", "split"} => q.cand = {}
    /\ q.pc # "check" => q.todo = {}
    /\ q.pc = "check" => q.taken \subseteq q.todo
    /\ q.pc \notin {"check", "resolve", "enqueue", "hits"} => q.taken = {}
    /\ q.pc \notin {"resolve", "enqueue", "hits"} => q.hits = Zero
    /\ q.pc \in {"page", "split", "check", "resolve"} => q.resolved = Zero
    /\ q.pc = "page" => q.since = q.max

\* A name taken out of the carry-over is still to be checked, or its change at seq was a hit.
Flight(q, n, seq) == n \in q.taken /\ (q.pc = "check" \/ q.hits[n] >= seq)

\* Updates of packages the gate skips: known, and not listed.
Plain == {n \in Names : ~Listed(n) /\ n \in known}

\* Names whose last change is not, or no longer, owed to the scan queue.
Safe == {n \in Names :
    \/ change[n].seq <= boot \/ change[n].deleted \/ change[n].seq <= excused[n]
    \/ exclusive /\ n \notin focus
    \/ change[n].seq <= scanned[n]
    \/ n \in Plain /\ (change[n].seq <= checked[n] \/ n \in ToSet(carry)
                       \/ \E p \in Polls : Flight(poll[p], n, change[n].seq))}

\* A gated name of the poll has not resolved, or is about to be enqueued.
Gated(q, n, seq) ==
    /\ q.gated[n] > 0 /\ q.gated[n] <= seq
    /\ q.resolved[n] = 0 \/ (q.pc = "enqueue" /\ q.resolved[n] >= seq)
\* What the poll has still to do for the change of n at seq.
Pending(q, n, seq, plain) ==
    Gated(q, n, seq) \/ (n \in plain /\ n \in q.cand \union q.todo) \/ q.hits[n] >= seq

SafeTo(k, last, safe) == \A n \in Names : last[n] <= k => n \in safe
NpmSound(q, last, safe, plain) ==
    /\ Shape(q) /\ \A n \in Names : q.gated[n] <= last[n]
    /\ \A n \in Names : last[n] <= q.max => n \in safe \/ Pending(q, n, last[n], plain)

NpmInv ==
    /\ NpmFrame
    /\ cursor <= UpdateSeq /\ SafeTo(cursor, LastChange, Safe)
    /\ \A p \in Polls : poll[p].max <= UpdateSeq /\ NpmSound(poll[p], LastChange, Safe, Plain)

-----------------------------------------------------------------------------
(* Its operators                                                           *)

LEMMA MaxOfPair ==
    ASSUME NEW a \in Int, NEW b \in Int
    PROVE  Max({a, b}) = IF a >= b THEN a ELSE b
BY DEF Max

LEMMA RaiseIs ==
    ASSUME NEW f \in [Names -> Nat], NEW g \in [Names -> Nat], NEW S
    PROVE  /\ Raise(f, S, g) \in [Names -> Nat]
           /\ \A n \in Names : f[n] <= Raise(f, S, g)[n] /\ (n \in S => g[n] <= Raise(f, S, g)[n])
<1>1. \A n \in Names : Max({f[n], g[n]}) = IF f[n] >= g[n] THEN f[n] ELSE g[n]
    BY MaxOfPair
<1>2. \A n \in Names : Raise(f, S, g)[n] = IF n \in S THEN (IF f[n] >= g[n] THEN f[n] ELSE g[n]) ELSE f[n]
    BY <1>1 DEF Raise
<1>3. Raise(f, S, g) = [n \in Names |-> Raise(f, S, g)[n]]
    BY DEF Raise
<1>4. \A n \in Names : Raise(f, S, g)[n] \in Nat
    BY <1>2
<1>5. Raise(f, S, g) \in [Names -> Nat]
    BY <1>3, <1>4
<1>6. QED
    BY <1>2, <1>5

LEMMA ZeroIs == Zero \in [Names -> Nat] /\ \A n \in Names : Zero[n] = 0
BY DEF Zero

LEMMA LastChangeIs ==
    ASSUME NpmFrame
    PROVE  /\ LastChange \in [Names -> Nat] /\ \A n \in Names : LastChange[n] = change[n].seq
           /\ \A n \in Names : change[n] \in [seq : Nat, deleted : BOOLEAN]
           /\ \A n \in Names : change[n].seq \in Nat /\ change[n].seq <= MaxSeq
BY DEF NpmFrame, LastChange

\* The feed ends with the last change of some package.
LEMMA FeedEnds ==
    ASSUME NEW c \in [Names -> [seq : Nat, deleted : BOOLEAN]], \A n \in Names : c[n].seq <= MaxSeq,
           NEW u, u = Max({c[n].seq : n \in Names})
    PROVE  u \in Nat /\ \A n \in Names : c[n].seq <= u
<1> DEFINE S == {c[n].seq : n \in Names}
<1>1. MaxSeq \in Nat
    BY NpmBoundAssumption
<1>2. S \in SUBSET (0 .. MaxSeq) /\ S # {}
    BY <1>1, NamesAssumption
<1>3. \A n \in Names : c[n].seq \in S
    OBVIOUS
<1>4. u = Max(S)
    OBVIOUS
<1> HIDE DEF S
<1>5. u \in S /\ \A k \in S : k <= u
    BY <1>1, <1>2, <1>4, MaxOfNaturals
<1>6. u \in 0 .. MaxSeq
    BY <1>2, <1>5
<1>7. QED
    BY <1>1, <1>3, <1>5, <1>6

LEMMA UpdateSeqIs ==
    ASSUME NpmFrame
    PROVE  UpdateSeq \in Nat /\ \A n \in Names : change[n].seq <= UpdateSeq
BY FeedEnds DEF NpmFrame, UpdateSeq

LEMMA IdlePollIs ==
    /\ IdlePoll \in PollRec /\ Shape(IdlePoll) /\ IdlePoll.max = 0 /\ IdlePoll.taken = {}
    /\ IdlePoll.pc = "idle" /\ IdlePoll.hits = Zero /\ IdlePoll.resolved = Zero /\ IdlePoll.gated = Zero
    /\ IdlePoll.cand = {} /\ IdlePoll.todo = {} /\ IdlePoll.start = 0 /\ IdlePoll.since = 0
BY ZeroIs DEF IdlePoll, PollRec, Steps, Shape

-----------------------------------------------------------------------------
(* The steps a poll skips                                                  *)

\* What the rest of a poll owes to n is kept from q to r, and so is what is in flight.
Kept(q, r) == r.max = q.max /\ r.start = q.start /\ r.gated = q.gated

LEMMA AfterEnqueueKeeps ==
    ASSUME NEW q \in PollRec, q.cand = {}, q.todo = {}
    PROVE  LET r == AfterEnqueue(q) IN
           /\ r \in PollRec /\ Kept(q, r) /\ Shape(r)
           /\ r.resolved = q.resolved /\ r.hits = q.hits /\ r.pc \in {"advance", "hits"}
           /\ r.taken = q.taken \/ q.hits = Zero
<1> DEFINE a == [q EXCEPT !.pc = "advance", !.hits = Zero, !.taken = {}]
           b == [q EXCEPT !.pc = "hits"]
<1>1. /\ a \in PollRec /\ a.pc = "advance" /\ a.hits = Zero /\ a.taken = {} /\ a.cand = {} /\ a.todo = {}
      /\ a.resolved = q.resolved /\ a.max = q.max /\ a.start = q.start /\ a.gated = q.gated
    BY ZeroIs DEF PollRec, Steps
<1>2. /\ b \in PollRec /\ b.pc = "hits" /\ b.hits = q.hits /\ b.taken = q.taken /\ b.cand = {} /\ b.todo = {}
      /\ b.resolved = q.resolved /\ b.max = q.max /\ b.start = q.start /\ b.gated = q.gated
    BY DEF PollRec, Steps
<1>3. AfterEnqueue(q) = IF q.hits = Zero THEN a ELSE b
    BY DEF AfterEnqueue, AfterHits
<1> HIDE DEF a, b
<1>4. Shape(a) /\ Shape(b)
    BY <1>1, <1>2 DEF Shape
<1>5. QED
    BY <1>1, <1>2, <1>3, <1>4 DEF Kept

LEMMA AfterResolveKeeps ==
    ASSUME NEW q \in PollRec, q.cand = {}, q.todo = {}
    PROVE  LET r == AfterResolve(q) IN
           /\ r \in PollRec /\ Kept(q, r) /\ Shape(r)
           /\ r.resolved = q.resolved /\ r.hits = q.hits /\ r.pc \in {"advance", "hits", "enqueue"}
           /\ r.taken = q.taken \/ q.hits = Zero
           /\ r.pc = "enqueue" \/ q.resolved = Zero
<1> DEFINE b == [q EXCEPT !.pc = "enqueue"]
<1>1. /\ b \in PollRec /\ b.pc = "enqueue" /\ b.hits = q.hits /\ b.taken = q.taken /\ b.cand = {} /\ b.todo = {}
      /\ b.resolved = q.resolved /\ b.max = q.max /\ b.start = q.start /\ b.gated = q.gated
    BY DEF PollRec, Steps
<1>2. AfterResolve(q) = IF q.resolved = Zero THEN AfterEnqueue(q) ELSE b
    BY DEF AfterResolve
<1> HIDE DEF b
<1>3. Shape(b)
    BY <1>1 DEF Shape
<1>4. QED
    BY <1>1, <1>2, <1>3, AfterEnqueueKeeps DEF Kept

LEMMA AfterChecksKeeps ==
    ASSUME NEW q \in PollRec, q.cand = {}, q.todo = {}, q.resolved = Zero
    PROVE  LET r == AfterChecks(q) IN
           /\ r \in PollRec /\ Kept(q, r) /\ Shape(r)
           /\ r.resolved = q.resolved /\ r.hits = q.hits
           /\ r.taken = q.taken \/ q.hits = Zero
<1> DEFINE b == [q EXCEPT !.pc = "resolve"]
<1>1. /\ b \in PollRec /\ b.pc = "resolve" /\ b.hits = q.hits /\ b.taken = q.taken /\ b.cand = {} /\ b.todo = {}
      /\ b.resolved = q.resolved /\ b.max = q.max /\ b.start = q.start /\ b.gated = q.gated
    BY DEF PollRec, Steps
<1>2. AfterChecks(q) = IF q.gated = Zero THEN AfterResolve(q) ELSE b
    BY DEF AfterChecks
<1> HIDE DEF b
<1>3. Shape(b)
    BY <1>1 DEF Shape
<1>4. QED
    BY <1>1, <1>2, <1>3, AfterResolveKeeps DEF Kept

LEMMA AfterPagesKeeps ==
    ASSUME NEW q \in PollRec, q.todo = {}, q.resolved = Zero, q.hits = Zero, q.taken = {}
    PROVE  LET r == AfterPages(q) IN
           /\ r \in PollRec /\ Kept(q, r) /\ Shape(r)
           /\ r.resolved = Zero /\ r.hits = Zero /\ r.cand = q.cand
<1> DEFINE a == [q EXCEPT !.since = 0, !.pages = 0]
           b == [a EXCEPT !.pc = "split"]
<1>1. /\ a \in PollRec /\ a.hits = Zero /\ a.taken = {} /\ a.cand = q.cand /\ a.todo = {}
      /\ a.resolved = Zero /\ a.max = q.max /\ a.start = q.start /\ a.gated = q.gated
    BY DEF PollRec
<1>2. AfterPages(q) = IF q.cand = {} THEN AfterChecks(a) ELSE b
    BY DEF AfterPages
<1> HIDE DEF a
<1>3. /\ b \in PollRec /\ b.pc = "split" /\ b.hits = Zero /\ b.taken = {} /\ b.cand = q.cand /\ b.todo = {}
      /\ b.resolved = Zero /\ b.max = q.max /\ b.start = q.start /\ b.gated = q.gated
    BY <1>1 DEF PollRec, Steps
<1> HIDE DEF b
<1>4. Shape(b)
    BY <1>3 DEF Shape
<1>5. CASE q.cand = {}
    <2>1. AfterPages(q) = AfterChecks(a)
        BY <1>2, <1>5
    <2>2. PICK r \in PollRec : r = AfterChecks(a) /\ Kept(a, r) /\ Shape(r) /\ r.resolved = Zero /\ r.hits = Zero
        BY <1>1, <1>5, AfterChecksKeeps
    <2>3. r.cand = {}
        BY <2>2, <1>1, <1>5 DEF AfterChecks, AfterResolve, AfterEnqueue, AfterHits, PollRec
    <2>4. QED
        BY <1>1, <1>5, <2>1, <2>2, <2>3 DEF Kept
<1>6. CASE q.cand # {}
    BY <1>2, <1>3, <1>4, <1>6 DEF Kept
<1>7. QED
    BY <1>5, <1>6

-----------------------------------------------------------------------------
(* Steps that leave the feed alone                                         *)

LEMMA PlainStays ==
    ASSUME UNCHANGED listVars, known \subseteq known'
    PROVE  Plain \subseteq Plain'
BY DEF Plain, Listed, listVars

\* A name stays safe when a poll moves on to q, if what was in its carry-over or in its flight is
\* carried, in flight, checked, scanned or given up.
LEMMA SafeStays ==
    ASSUME NpmFrame, NpmFrame', change' = change, UNCHANGED listVars, known \subseteq known', boot <= boot',
           \A n \in Names : scanned[n] <= scanned'[n] /\ checked[n] <= checked'[n] /\ excused[n] <= excused'[n],
           NEW p \in Polls, NEW q, poll' = [poll EXCEPT ![p] = q],
           \A n \in Names : change[n].seq > 0 /\ (n \in ToSet(carry) \/ Flight(poll[p], n, change[n].seq)) =>
               \/ n \in ToSet(carry') \/ Flight(q, n, change[n].seq) \/ change[n].deleted
               \/ change[n].seq <= excused'[n] \/ change[n].seq <= checked'[n] \/ change[n].seq <= scanned'[n]
    PROVE  Safe \subseteq Safe'
<1> SUFFICES ASSUME NEW n \in Names, n \in Safe PROVE n \in Safe'
    BY DEF Safe
<1>1. PICK s \in Nat : s = change[n].seq /\ s = change'[n].seq /\ change'[n].deleted = change[n].deleted
    BY LastChangeIs
<1>2. /\ boot \in Nat /\ boot' \in Nat /\ excused[n] \in Nat /\ excused'[n] \in Nat /\ scanned[n] \in Nat
      /\ scanned'[n] \in Nat /\ checked[n] \in Nat /\ checked'[n] \in Nat
    BY DEF NpmFrame
<1>3. CASE \/ s <= boot \/ change[n].deleted \/ s <= excused[n] \/ s <= scanned[n] \/ (exclusive /\ n \notin focus)
    <2>1. s <= boot' \/ change[n].deleted \/ s <= excused'[n] \/ s <= scanned'[n] \/ (exclusive' /\ n \notin focus')
        BY <1>2, <1>3 DEF listVars
    <2>2. QED
        BY <1>1, <2>1 DEF Safe
<1>4. CASE n \in Plain /\ s <= checked[n]
    <2>1. n \in Plain' /\ s <= checked'[n]
        BY <1>2, <1>4, PlainStays
    <2>2. QED
        BY <1>1, <2>1 DEF Safe
<1>5. CASE n \in Plain /\ s > 0 /\ (n \in ToSet(carry) \/ \E o \in Polls : Flight(poll[o], n, s))
    <2>0. n \in Plain'
        BY <1>5, PlainStays
    <2>1. poll'[p] = q /\ \A o \in Polls : o # p => poll'[o] = poll[o]
        BY DEF NpmFrame
    <2>2. \/ n \in ToSet(carry') \/ (\E o \in Polls : Flight(poll'[o], n, s)) \/ change[n].deleted
          \/ s <= excused'[n] \/ s <= checked'[n] \/ s <= scanned'[n]
        BY <1>1, <1>5, <2>1
    <2>3. QED
        BY <1>1, <2>0, <2>2 DEF Safe
<1>6. QED
    <2>1. s <= boot \/ s > 0
        BY <1>2
    <2>2. QED
        BY <1>1, <1>3, <1>4, <1>5, <2>1 DEF Safe

LEMMA ZeroSafe ==
    ASSUME NpmFrame, NEW n \in Names, LastChange[n] <= 0
    PROVE  n \in Safe
BY LastChangeIs DEF Safe, NpmFrame

\* What stays true of a poll when more is safe.
LEMMA NpmSoundStays ==
    ASSUME NEW q, NEW last, NEW safe, NEW more, safe \subseteq more, NEW plain, NEW wider, plain \subseteq wider,
           NpmSound(q, last, safe, plain)
    PROVE  NpmSound(q, last, more, wider)
BY DEF NpmSound, Pending

\* A poll moves on to q, saves or leaves the cursor.
LEMMA NpmPollMoves ==
    ASSUME NpmInv, NpmFrame', NEW p \in Polls, NEW q \in PollRec, poll' = [poll EXCEPT ![p] = q],
           change' = change, UNCHANGED listVars, known \subseteq known', Safe \subseteq Safe',
           cursor' <= UpdateSeq, SafeTo(cursor', LastChange, Safe'),
           q.max <= UpdateSeq, NpmSound(q, LastChange, Safe', Plain')
    PROVE  NpmInv'
<1>1. \A o \in Polls : poll'[o] = IF o = p THEN q ELSE poll[o]
    BY DEF NpmInv, NpmFrame
<1>2. UpdateSeq' = UpdateSeq /\ LastChange' = LastChange
    BY DEF UpdateSeq, LastChange
<1>3. ASSUME NEW o \in Polls PROVE poll'[o].max <= UpdateSeq /\ NpmSound(poll'[o], LastChange, Safe', Plain')
    <2>1. CASE o = p
        BY <1>1, <2>1
    <2>2. CASE o # p
        <3>1. poll'[o] = poll[o] /\ poll[o].max <= UpdateSeq /\ NpmSound(poll[o], LastChange, Safe, Plain)
            BY <1>1, <2>2 DEF NpmInv
        <3>2. QED
            BY <3>1, PlainStays, NpmSoundStays
    <2>3. QED
        BY <2>1, <2>2
<1>4. QED
    BY <1>2, <1>3 DEF NpmInv

\* A poll that begins or ends owes nothing.
LEMMA IdleNpmSound ==
    ASSUME NpmFrame, NEW more, Safe \subseteq more, NEW plain
    PROVE  NpmSound(IdlePoll, LastChange, more, plain)
<1>1. \A n \in Names : LastChange[n] <= 0 => n \in more
    BY LastChangeIs DEF Safe, NpmFrame
<1>2. QED
    BY <1>1, IdlePollIs, ZeroIs, LastChangeIs DEF NpmSound

-----------------------------------------------------------------------------
(* The registry publishes                                                  *)

LEMMA ChangeGrows ==
    ASSUME NpmInv, NEW m \in Names, NEW gone \in BOOLEAN, UpdateSeq < MaxSeq,
           change' = [change EXCEPT ![m] = [seq |-> UpdateSeq + 1, deleted |-> gone]],
           UNCHANGED <<sharedVars, boot, poll, carry, histories>>
    PROVE  NpmInv'
<1>1. /\ NpmFrame /\ UpdateSeq \in Nat /\ MaxSeq \in Nat /\ \A n \in Names : change[n].seq <= UpdateSeq
    BY UpdateSeqIs, NpmBoundAssumption DEF NpmInv
<1>2. PICK u \in Nat : u = UpdateSeq
    BY <1>1
<1>3. /\ change' \in [Names -> [seq : Nat, deleted : BOOLEAN]] /\ change'[m].seq = u + 1
      /\ \A n \in Names : n # m => change'[n] = change[n]
    <2>1. [seq |-> u + 1, deleted |-> gone] \in [seq : Nat, deleted : BOOLEAN]
        OBVIOUS
    <2>2. QED
        BY <1>1, <1>2, <2>1 DEF NpmFrame
<1>4. UNCHANGED <<cursor, known, listVars, boot, poll, carry, scanned, checked, excused>>
    BY DEF sharedVars, histories
<1>5. NpmFrame'
    <2>1. \A n \in Names : change'[n].seq <= MaxSeq
        BY <1>1, <1>2, <1>3 DEF NpmFrame
    <2>2. QED
        BY <1>1, <1>3, <1>4, <2>1 DEF NpmFrame
<1>6. PICK v \in Nat : v = UpdateSeq' /\ u < v
    <2>1. UpdateSeq' \in Nat /\ change'[m].seq <= UpdateSeq'
        <3>1. /\ change' \in [Names -> [seq : Nat, deleted : BOOLEAN]] /\ \A n \in Names : change'[n].seq <= MaxSeq
              /\ UpdateSeq' = Max({change'[n].seq : n \in Names})
            BY <1>5 DEF NpmFrame, UpdateSeq
        <3>2. QED
            BY <3>1, FeedEnds
    <2>2. QED
        BY <1>3, <2>1
<1>7. Plain' = Plain
    BY <1>4 DEF Plain, Listed, listVars
<1>8. \A n \in Names : n # m /\ n \in Safe => n \in Safe'
    BY <1>3, <1>4, <1>7 DEF Safe, listVars
<1>9. LastChange'[m] = u + 1 /\ \A n \in Names : n # m => LastChange'[n] = LastChange[n]
    BY <1>3 DEF LastChange
<1>10. cursor \in Nat \union {NoCursor} /\ cursor <= u
    BY <1>1, <1>2 DEF NpmInv, NpmFrame
<1>11. cursor <= v /\ SafeTo(cursor, LastChange', Safe')
    BY <1>6, <1>8, <1>9, <1>10 DEF SafeTo, NpmInv, NoCursor
<1>12. ASSUME NEW p \in Polls PROVE poll[p].max <= v /\ NpmSound(poll[p], LastChange', Safe', Plain')
    <2>1. PICK q \in PollRec : q = poll[p] /\ NpmSound(q, LastChange, Safe, Plain) /\ q.max <= u
        BY <1>1, <1>2 DEF NpmInv, NpmFrame
    <2>2. q.max \in Nat
        BY DEF PollRec
    <2>3. ~(LastChange'[m] <= q.max)
        BY <1>9, <2>1, <2>2
    <2>4. \A n \in Names : q.gated[n] <= LastChange'[n]
        <3>1. q.gated[m] \in Nat /\ LastChange[m] \in Nat /\ LastChange[m] <= u /\ q.gated[m] <= LastChange[m]
            BY <1>1, <1>2, <2>1, LastChangeIs DEF PollRec, NpmSound
        <3>2. q.gated[m] <= u + 1
            BY <3>1
        <3>3. QED
            BY <1>9, <2>1, <3>2 DEF NpmSound
    <2>5. NpmSound(q, LastChange', Safe', Plain)
        BY <1>8, <1>9, <2>1, <2>3, <2>4 DEF NpmSound
    <2>6. QED
        BY <1>6, <1>7, <2>1, <2>2, <2>5
<1>13. QED
    BY <1>4, <1>5, <1>6, <1>11, <1>12 DEF NpmInv

-----------------------------------------------------------------------------
(* The steps of a poll                                                     *)

LEMMA NpmPollIs ==
    ASSUME NpmInv, NEW p \in Polls
    PROVE  /\ poll[p] \in PollRec /\ Shape(poll[p]) /\ poll[p].max \in Nat /\ poll[p].max <= UpdateSeq
           /\ NpmSound(poll[p], LastChange, Safe, Plain)
BY DEF NpmInv, NpmFrame, NpmSound, PollRec

\* Only the poll itself moves on, and what it has in flight stays in flight.
LEMMA OnlyPollMoves ==
    ASSUME NpmInv, NEW p \in Polls, NEW q \in PollRec, poll' = [poll EXCEPT ![p] = q],
           UNCHANGED <<cursor, known, listVars, change, boot, carry, histories>>,
           \A n \in Names : change[n].seq > 0 /\ Flight(poll[p], n, change[n].seq) => Flight(q, n, change[n].seq),
           q.max <= UpdateSeq, NpmSound(q, LastChange, Safe, Plain)
    PROVE  NpmInv'
<1>1. UNCHANGED <<scanned, checked, excused>>
    BY DEF histories
<1>2. NpmFrame /\ NpmFrame'
    BY <1>1 DEF NpmInv, NpmFrame
<1>3. \A n \in Names : scanned[n] <= scanned'[n] /\ checked[n] <= checked'[n] /\ excused[n] <= excused'[n]
    BY <1>1, <1>2 DEF NpmFrame
<1>4. boot <= boot'
    BY <1>2 DEF NpmFrame
<1>5. Safe \subseteq Safe'
    BY <1>2, <1>3, <1>4, SafeStays
<1>6. NpmSound(q, LastChange, Safe', Plain')
    BY <1>5, PlainStays, NpmSoundStays
<1>7. cursor' <= UpdateSeq /\ SafeTo(cursor', LastChange, Safe')
    BY <1>5 DEF NpmInv, SafeTo
<1>8. QED
    BY <1>2, <1>5, <1>6, <1>7, NpmPollMoves

LEMMA NpmBegins == \A p \in Polls : NpmInv /\ Begin(p) => NpmInv'
<1> SUFFICES ASSUME NpmInv, NEW p \in Polls, Begin(p) PROVE NpmInv'
    OBVIOUS
<1>1. NpmFrame /\ UpdateSeq \in Nat /\ cursor <= UpdateSeq /\ SafeTo(cursor, LastChange, Safe)
      /\ cursor \in Nat \union {NoCursor}
    BY UpdateSeqIs DEF NpmInv, NpmFrame
<1> DEFINE a == [IdlePoll EXCEPT !.pc = "bootstrap"]
           b == [IdlePoll EXCEPT !.pc = "page", !.start = cursor, !.since = cursor, !.max = cursor]
<1>2. /\ poll' = [poll EXCEPT ![p] = IF cursor = NoCursor THEN a ELSE b] /\ poll[p].pc = "idle"
      /\ UNCHANGED <<cursor, known, listVars, change, boot, carry, histories>>
    BY DEF Begin
<1>3. \A n \in Names : ~Flight(poll[p], n, change[n].seq)
    BY <1>2, NpmPollIs DEF Shape, Flight
<1>4. /\ a \in PollRec /\ a.pc = "bootstrap" /\ a.max = 0 /\ a.taken = {} /\ a.hits = Zero /\ a.resolved = Zero
      /\ a.cand = {} /\ a.todo = {} /\ a.gated = Zero
    BY IdlePollIs DEF PollRec, Steps
<1>5. cursor # NoCursor => /\ b \in PollRec /\ b.pc = "page" /\ b.max = cursor /\ b.since = cursor /\ b.taken = {}
                          /\ b.hits = Zero /\ b.resolved = Zero /\ b.cand = {} /\ b.todo = {} /\ b.gated = Zero
    BY <1>1, IdlePollIs DEF PollRec, Steps
<1> HIDE DEF a, b
<1>6. CASE cursor = NoCursor
    <2>1. Shape(a)
        BY <1>4 DEF Shape
    <2>2. \A n \in Names : LastChange[n] <= 0 => n \in Safe
        BY <1>1, LastChangeIs DEF Safe, NpmFrame
    <2>3. NpmSound(a, LastChange, Safe, Plain) /\ a.max <= UpdateSeq
        BY <1>1, <1>4, <2>1, <2>2, ZeroIs, LastChangeIs DEF NpmSound
    <2>4. QED
        BY <1>2, <1>3, <1>4, <1>6, <2>3, OnlyPollMoves
<1>7. CASE cursor # NoCursor
    <2>1. Shape(b)
        BY <1>5, <1>7 DEF Shape
    <2>2. NpmSound(b, LastChange, Safe, Plain) /\ b.max <= UpdateSeq
        BY <1>1, <1>5, <1>7, <2>1, ZeroIs, LastChangeIs DEF NpmSound, SafeTo
    <2>3. QED
        BY <1>2, <1>3, <1>5, <1>7, <2>2, OnlyPollMoves
<1>8. QED
    BY <1>6, <1>7

LEMMA NpmBootstraps == \A p \in Polls : NpmInv /\ Bootstrap(p) => NpmInv'
<1> SUFFICES ASSUME NpmInv, NEW p \in Polls, Bootstrap(p) PROVE NpmInv'
    OBVIOUS
<1>1. NpmFrame /\ UpdateSeq \in Nat /\ \A n \in Names : change[n].seq <= UpdateSeq
    BY UpdateSeqIs DEF NpmInv
<1>2. /\ poll[p].pc = "bootstrap" /\ poll' = [poll EXCEPT ![p] = IdlePoll]
      /\ UNCHANGED <<known, listVars, change, carry, histories>>
      /\ (cursor' = UpdateSeq /\ boot' = UpdateSeq) \/ UNCHANGED <<cursor, boot>>
    BY DEF Bootstrap
<1>3. \A n \in Names : ~Flight(poll[p], n, change[n].seq)
    BY <1>2, NpmPollIs DEF Shape, Flight
<1>4. IdlePoll.max <= UpdateSeq
    BY <1>1, IdlePollIs
<1>5. CASE UNCHANGED <<cursor, boot>>
    <2>1. NpmSound(IdlePoll, LastChange, Safe, Plain)
        BY <1>1, IdleNpmSound
    <2>2. QED
        BY <1>2, <1>3, <1>4, <1>5, <2>1, IdlePollIs, OnlyPollMoves
<1>6. CASE cursor' = UpdateSeq /\ boot' = UpdateSeq
    <2>1. UNCHANGED <<scanned, checked, excused>>
        BY <1>2 DEF histories
    <2>2. NpmFrame'
        BY <1>1, <1>2, <1>6, <2>1, IdlePollIs DEF NpmFrame
    <2>3. Safe' = Names
        BY <1>1, <1>2, <1>6 DEF Safe
    <2>4. Safe \subseteq Safe'
        BY <2>3 DEF Safe
    <2>5. NpmSound(IdlePoll, LastChange, Safe', Plain')
        BY <1>1, <2>3, IdlePollIs, ZeroIs, LastChangeIs DEF NpmSound
    <2>6. cursor' <= UpdateSeq /\ SafeTo(cursor', LastChange, Safe')
        BY <1>1, <1>6, <2>3 DEF SafeTo
    <2>7. QED
        BY <1>2, <1>4, <2>2, <2>4, <2>5, <2>6, IdlePollIs, NpmPollMoves
<1>7. QED
    BY <1>2, <1>5, <1>6

\* The pages are over: what the poll owes is what it owed.
LEMMA NpmPagesEnd ==
    ASSUME NEW r \in PollRec, r.todo = {}, r.resolved = Zero, r.hits = Zero, r.taken = {},
           NEW last \in [Names -> Nat], NEW safe, NEW plain, \A n \in Names : r.gated[n] <= last[n],
           \A n \in Names : last[n] <= r.max =>
              (n \in safe \/ (r.gated[n] > 0 /\ r.gated[n] <= last[n]) \/ (n \in plain /\ n \in r.cand))
    PROVE  NpmSound(AfterPages(r), last, safe, plain)
<1>1. PICK q \in PollRec : q = AfterPages(r) /\ Kept(r, q) /\ Shape(q) /\ q.resolved = Zero /\ q.hits = Zero /\ q.cand = r.cand
    BY AfterPagesKeeps
<1>2. \A n \in Names : q.resolved[n] = 0
    BY <1>1, ZeroIs
<1>3. QED
    BY <1>1, <1>2 DEF NpmSound, Pending, Gated, Kept

LEMMA NpmPagesOver == \A p \in Polls : NpmInv /\ NoPage(p) => NpmInv'
<1> SUFFICES ASSUME NpmInv, NEW p \in Polls, NoPage(p) PROVE NpmInv'
    OBVIOUS
<1>1. PICK r \in PollRec : r = poll[p] /\ r.pc = "page" /\ Shape(r) /\ r.max <= UpdateSeq /\ NpmSound(r, LastChange, Safe, Plain)
    BY NpmPollIs DEF NoPage
<1>2. /\ poll' = [poll EXCEPT ![p] = AfterPages(r)]
      /\ UNCHANGED <<cursor, known, listVars, change, boot, carry, histories>>
    BY <1>1 DEF NoPage
<1>3. r.todo = {} /\ r.resolved = Zero /\ r.hits = Zero /\ r.taken = {} /\ \A n \in Names : r.gated[n] <= LastChange[n]
    BY <1>1 DEF Shape, NpmSound
<1>4. LastChange \in [Names -> Nat]
    BY LastChangeIs DEF NpmInv
<1>5. NpmSound(AfterPages(r), LastChange, Safe, Plain)
    <2>1. \A n \in Names : LastChange[n] <= r.max =>
            n \in Safe \/ (r.gated[n] > 0 /\ r.gated[n] <= LastChange[n]) \/ (n \in Plain /\ n \in r.cand)
        <3>1. \A n \in Names : LastChange[n] <= 0 => n \in Safe
            BY LastChangeIs DEF Safe, NpmFrame, NpmInv
        <3>2. QED
            BY <1>1, <1>3, <1>4, <3>1, ZeroIs DEF NpmSound, Pending, Gated
    <2>2. QED
        BY <1>3, <1>4, <2>1, NpmPagesEnd
<1>6. AfterPages(r) \in PollRec /\ AfterPages(r).max = r.max
    BY <1>3, AfterPagesKeeps DEF Kept
<1>7. \A n \in Names : ~Flight(poll[p], n, change[n].seq)
    BY <1>1, <1>3 DEF Flight
<1>8. QED
    BY <1>1, <1>2, <1>5, <1>6, <1>7, OnlyPollMoves

\* The page has every row after since up to its last one.
LEMMA NpmPageIsPrefix ==
    ASSUME NpmFrame, NEW since \in Nat
    PROVE  /\ Page(since) \subseteq Names
           /\ \A n \in Page(since) : change[n].seq > since
           /\ \A m \in Page(since) : \A n \in Names :
                change[n].seq > since /\ change[n].seq <= change[m].seq => n \in Page(since)
<1> DEFINE after == {n \in Names : change[n].seq > since}
           before(n) == {m \in after : change[m].seq < change[n].seq}
<1>1. Page(since) = {n \in after : Cardinality(before(n)) < NpmPage}
    BY DEF Page
<1>2. \A n \in Names : change[n].seq \in Nat
    BY LastChangeIs
<1>3. \A n : IsFiniteSet(before(n))
    <2>1. \A n : before(n) \subseteq Names
        OBVIOUS
    <2>2. QED
        BY <2>1, NamesAssumption, FS_Subset
<1>4. ASSUME NEW m \in after, Cardinality(before(m)) < NpmPage, NEW n \in after, change[n].seq <= change[m].seq
      PROVE  Cardinality(before(n)) < NpmPage
    <2>1. before(n) \subseteq before(m)
        BY <1>2, <1>4
    <2> HIDE DEF before
    <2>2. Cardinality(before(n)) <= Cardinality(before(m))
        BY <1>3, <2>1, FS_Subset
    <2>3. Cardinality(before(n)) \in Nat /\ Cardinality(before(m)) \in Nat
        BY <1>3, FS_CardinalityType
    <2>4. NpmPage \in Nat
        BY NpmBoundAssumption
    <2>5. QED
        BY <1>4, <2>2, <2>3, <2>4
<1> HIDE DEF before
<1>5. QED
    BY <1>1, <1>4

\* The last row of a page.
LEMMA LastRow ==
    ASSUME NpmFrame, NEW page \in SUBSET Names, page # {}, NEW x, x = Max({change[n].seq : n \in page})
    PROVE  x \in Nat /\ x <= UpdateSeq /\ (\E m \in page : x = change[m].seq) /\ \A n \in page : change[n].seq <= x
<1> DEFINE S == {change[n].seq : n \in page}
<1>1. MaxSeq \in Nat
    BY NpmBoundAssumption
<1>2. S \in SUBSET (0 .. MaxSeq) /\ S # {}
    BY <1>1, LastChangeIs
<1>3. (\A n \in page : change[n].seq \in S) /\ x = Max(S)
    OBVIOUS
<1>4. \A k \in S : \E m \in page : k = change[m].seq
    OBVIOUS
<1> HIDE DEF S
<1>5. x \in S /\ \A k \in S : k <= x
    BY <1>1, <1>2, <1>3, MaxOfNaturals
<1>6. PICK m \in page : x = change[m].seq
    BY <1>4, <1>5
<1>7. x \in Nat /\ x <= UpdateSeq
    BY <1>6, LastChangeIs, UpdateSeqIs
<1>8. QED
    BY <1>3, <1>5, <1>6, <1>7

LEMMA NpmGates == \A p \in Polls : NpmInv /\ GatePage(p) => NpmInv'
<1> SUFFICES ASSUME NpmInv, NEW p \in Polls, GatePage(p) PROVE NpmInv'
    OBVIOUS
<1> DEFINE q == poll[p]
           page == Page(q.since)
           last == Max({change[n].seq : n \in page})
           fresh == {n \in page : ~change[n].deleted /\ q.gated[n] = 0}
           admitted == {n \in fresh : Admitted(n)}
           top == Max({q.max, last})
           gates == [n \in Names |-> IF n \in admitted THEN change[n].seq ELSE q.gated[n]]
           cands == q.cand \union (IF exclusive THEN {} ELSE fresh \ admitted)
           r == [q EXCEPT !.since = last, !.max = top, !.pages = q.pages + 1, !.gated = gates, !.cand = cands]
           more == Cardinality(page) = NpmPage /\ r.pages < MaxPages
<1>1. /\ q.pc = "page" /\ page # {} /\ poll' = [poll EXCEPT ![p] = IF more THEN r ELSE AfterPages(r)]
      /\ UNCHANGED <<sharedVars, change, boot, attempts, carry, histories>>
    BY DEF GatePage
<1>2. /\ q \in PollRec /\ Shape(q) /\ q.max \in Nat /\ q.max <= UpdateSeq /\ NpmSound(q, LastChange, Safe, Plain)
    BY NpmPollIs
<1>3. /\ NpmFrame /\ UpdateSeq \in Nat /\ LastChange \in [Names -> Nat]
      /\ \A n \in Names : LastChange[n] = change[n].seq /\ change[n].seq \in Nat
    BY UpdateSeqIs, LastChangeIs DEF NpmInv
<1>4. /\ q.since = q.max /\ q.todo = {} /\ q.resolved = Zero /\ q.hits = Zero /\ q.taken = {}
    BY <1>1, <1>2 DEF Shape
<1>5. /\ page \subseteq Names /\ \A n \in page : change[n].seq > q.max
      /\ \A m \in page : \A n \in Names : change[n].seq > q.max /\ change[n].seq <= change[m].seq => n \in page
    <2> HIDE DEF page, q
    <2>1. QED
        BY <1>2, <1>3, <1>4, NpmPageIsPrefix DEF page
<1>6. fresh \subseteq Names /\ admitted \subseteq Names
    BY <1>5
<1>7. /\ last \in Nat /\ last <= UpdateSeq /\ \A n \in page : change[n].seq <= last
      /\ \E m \in page : last = change[m].seq
    <2> HIDE DEF page
    <2>1. QED
        BY <1>1, <1>3, <1>5, LastRow
<1>8. last > q.max
    BY <1>5, <1>7
<1>9. top = last
    BY <1>2, <1>7, <1>8, MaxOfPair
<1>10. gates \in [Names -> Nat] /\ \A n \in Names : gates[n] = IF n \in admitted THEN change[n].seq ELSE q.gated[n]
    BY <1>2, <1>3 DEF PollRec
<1>11. cands \in SUBSET Names
    BY <1>2, <1>6 DEF PollRec
<1>12. /\ UNCHANGED <<cursor, known, listVars, change, boot, carry, histories>>
    BY <1>1 DEF sharedVars
<1>13. /\ \A n \in page : change[n].deleted \/ q.gated[n] # 0 \/ n \in fresh
       /\ \A n \in fresh : n \in page /\ q.gated[n] = 0
       /\ \A n \in fresh : n \notin admitted => ~Admitted(n)
       /\ \A n \in admitted : n \in fresh
       /\ \A n \in fresh : ~exclusive /\ n \notin admitted => n \in cands
       /\ q.cand \subseteq cands
    OBVIOUS
<1> HIDE DEF page, last, fresh, admitted, top, gates, cands, q
<1>14. /\ r \in PollRec /\ r.pc = "page" /\ r.since = last /\ r.max = last /\ r.gated = gates /\ r.cand = cands
       /\ r.todo = {} /\ r.resolved = Zero /\ r.hits = Zero /\ r.taken = {}
    <2>1. q.pages + 1 \in Nat
        BY <1>2 DEF PollRec
    <2>2. QED
        BY <1>1, <1>2, <1>4, <1>7, <1>9, <1>10, <1>11, <2>1 DEF PollRec
<1> HIDE DEF r
<1>15. ASSUME NEW n \in Names, LastChange[n] <= last
       PROVE  n \in Safe \/ (gates[n] > 0 /\ gates[n] <= LastChange[n]) \/ (n \in Plain /\ n \in cands)
    <2>0. PICK s \in Nat : s = change[n].seq /\ s = LastChange[n]
        BY <1>3
    <2>1. q.gated[n] \in Nat
        BY <1>2 DEF PollRec
    <2>2. CASE s <= q.max
        <3>1. n \in Safe \/ Pending(q, n, s, Plain)
            BY <1>2, <2>0, <2>2 DEF NpmSound
        <3>2. s = 0 => n \in Safe
            <4>1. ASSUME s = 0 PROVE n \in Safe
                <5>1. LastChange[n] <= 0
                    BY <2>0, <4>1
                <5>2. QED
                    BY <1>3, <5>1, ZeroSafe
            <4>2. QED
                BY <4>1
        <3>3. n \notin admitted
            <4>1. ~(change[n].seq > q.max)
                BY <1>2, <2>0, <2>2
            <4>2. n \notin page
                BY <1>5, <4>1
            <4>3. QED
                BY <1>13, <4>2
        <3>4. QED
            BY <1>4, <1>10, <1>13, <2>0, <3>1, <3>2, <3>3, ZeroIs DEF Pending, Gated
    <2>3. CASE s > q.max
        <3>1. n \in page
            BY <1>5, <1>7, <1>15, <2>0, <2>3
        <3>2. CASE change[n].deleted
            BY <3>2 DEF Safe
        <3>3. CASE q.gated[n] # 0
            <4>1. q.gated[n] <= LastChange[n] /\ n \notin admitted
                BY <1>2, <1>13, <3>3 DEF NpmSound
            <4>2. QED
                BY <1>10, <2>1, <3>3, <4>1
        <3>4. CASE n \in admitted
            <4>1. gates[n] = s
                BY <1>10, <2>0, <3>4
            <4>2. s > 0
                BY <1>2, <2>3
            <4>3. QED
                BY <2>0, <4>1, <4>2
        <3>5. CASE n \in fresh /\ n \notin admitted
            <4>1. ~Admitted(n)
                BY <1>13, <3>5
            <4>2. QED
                BY <1>13, <3>5, <4>1 DEF Admitted, Listed, Plain, Safe
        <3>6. QED
            BY <1>13, <3>1, <3>2, <3>3, <3>4, <3>5
    <2>4. QED
        BY <1>2, <2>0, <2>2, <2>3
<1>16. \A n \in Names : gates[n] <= LastChange[n]
    <2>1. \A n \in Names : q.gated[n] <= LastChange[n]
        BY <1>2 DEF NpmSound
    <2>2. \A n \in Names : change[n].seq <= LastChange[n]
        BY <1>3
    <2>3. QED
        BY <1>10, <2>1, <2>2
<1>17. \A n \in Names : ~Flight(poll[p], n, change[n].seq)
    BY <1>4 DEF Flight, q
<1>18. CASE more
    <2>1. poll' = [poll EXCEPT ![p] = r]
        BY <1>1, <1>18
    <2>2. Shape(r)
        BY <1>14 DEF Shape
    <2>3. \A n \in Names : r.resolved[n] = 0
        BY <1>14, ZeroIs
    <2>4. NpmSound(r, LastChange, Safe, Plain)
        BY <1>14, <1>15, <1>16, <2>2, <2>3 DEF NpmSound, Pending, Gated
    <2>5. r.max <= UpdateSeq
        BY <1>7, <1>14
    <2>6. QED
        BY <1>12, <1>14, <1>17, <2>1, <2>4, <2>5, OnlyPollMoves
<1>19. CASE ~more
    <2>1. poll' = [poll EXCEPT ![p] = AfterPages(r)]
        BY <1>1, <1>19
    <2>2. NpmSound(AfterPages(r), LastChange, Safe, Plain)
        BY <1>3, <1>14, <1>15, <1>16, NpmPagesEnd
    <2>3. AfterPages(r) \in PollRec /\ AfterPages(r).max = r.max
        BY <1>14, AfterPagesKeeps DEF Kept
    <2>4. AfterPages(r).max <= UpdateSeq
        BY <1>7, <1>14, <2>3
    <2>5. QED
        BY <1>12, <1>17, <2>1, <2>2, <2>3, <2>4, OnlyPollMoves
<1>20. QED
    BY <1>18, <1>19

LEMMA NpmResolves == \A p \in Polls : NpmInv /\ Resolve(p) => NpmInv'
<1> SUFFICES ASSUME NpmInv, NEW p \in Polls, Resolve(p) PROVE NpmInv'
    OBVIOUS
<1>1. PICK q \in PollRec : /\ q = poll[p] /\ q.pc = "resolve" /\ Shape(q) /\ q.max <= UpdateSeq
                           /\ NpmSound(q, LastChange, Safe, Plain)
    BY NpmPollIs DEF Resolve
<1>2. PICK got \in SUBSET Support(q.gated) : poll' = [poll EXCEPT ![p] = AfterResolve([q EXCEPT
             !.resolved = [n \in Names |-> IF n \in got THEN Latest(n) ELSE 0]])]
    BY <1>1 DEF Resolve
<1>3. UNCHANGED <<cursor, known, listVars, change, boot, carry, histories>>
    BY DEF Resolve, sharedVars
<1>4. /\ NpmFrame /\ \A n \in Names : LastChange[n] = change[n].seq /\ change[n].seq \in Nat
    BY LastChangeIs DEF NpmInv
<1> DEFINE v == [n \in Names |-> IF n \in got THEN Latest(n) ELSE 0]
           a == [q EXCEPT !.resolved = v]
           r == AfterResolve(a)
<1>5. v \in [Names -> Nat] /\ \A n \in Names : v[n] = 0 \/ v[n] = change[n].seq
    BY <1>4 DEF Latest
<1> HIDE DEF v
<1>6. /\ a \in PollRec /\ a.resolved = v /\ a.hits = q.hits /\ a.taken = q.taken /\ a.gated = q.gated
      /\ a.max = q.max /\ a.cand = {} /\ a.todo = {}
    BY <1>1, <1>5 DEF PollRec, Shape
<1>7. poll' = [poll EXCEPT ![p] = r]
    BY <1>2 DEF v
<1> HIDE DEF a
<1>8. /\ r \in PollRec /\ r.max = q.max /\ r.gated = q.gated /\ Shape(r)
      /\ r.resolved = v /\ r.hits = q.hits /\ (r.taken = q.taken \/ q.hits = Zero)
      /\ (r.pc = "enqueue" \/ v = Zero)
    BY <1>6, AfterResolveKeeps DEF Kept
<1> HIDE DEF r
<1>9. \A n \in Names : change[n].seq > 0 /\ Flight(poll[p], n, change[n].seq) => Flight(r, n, change[n].seq)
    BY <1>1, <1>4, <1>8, ZeroIs DEF Flight
<1>10. ASSUME NEW n \in Names, LastChange[n] <= r.max PROVE n \in Safe \/ Pending(r, n, LastChange[n], Plain)
    <2>1. n \in Safe \/ (q.gated[n] > 0 /\ q.gated[n] <= LastChange[n]) \/ q.hits[n] >= LastChange[n]
        BY <1>1, <1>8, <1>10 DEF NpmSound, Pending, Gated, Shape
    <2>2. v[n] = 0 \/ (r.pc = "enqueue" /\ v[n] >= LastChange[n])
        BY <1>4, <1>5, <1>8, ZeroIs
    <2>3. QED
        BY <1>8, <2>1, <2>2 DEF Pending, Gated
<1>11. NpmSound(r, LastChange, Safe, Plain) /\ r.max <= UpdateSeq
    BY <1>1, <1>8, <1>10 DEF NpmSound
<1>12. QED
    BY <1>3, <1>7, <1>8, <1>9, <1>11, OnlyPollMoves

\* A transaction of enqueues: what is put in is scanned, the rest is visibly given up.
LEMMA EnqueueAllIs ==
    ASSUME NpmFrame, NEW versions \in [Names -> Nat], NEW max \in Nat, EnqueueAll(versions, max)
    PROVE  /\ scanned' \in [Names -> Nat] /\ excused' \in [Names -> Nat] /\ known \subseteq known'
           /\ \A n \in Names : scanned[n] <= scanned'[n] /\ excused[n] <= excused'[n]
           /\ \A n \in Names : versions[n] > 0 => versions[n] <= scanned'[n] \/ max <= excused'[n]
<1>1. PICK dropped \in SUBSET Support(versions) :
         /\ Learn(Support(versions) \ dropped)
         /\ scanned' = Raise(scanned, Support(versions) \ dropped, versions)
         /\ excused' = Raise(excused, dropped, UpTo(max))
    BY DEF EnqueueAll
<1>2. UpTo(max) \in [Names -> Nat] /\ \A n \in Names : UpTo(max)[n] = max
    BY DEF UpTo
<1>3. scanned \in [Names -> Nat] /\ excused \in [Names -> Nat]
    BY DEF NpmFrame
<1>4. /\ scanned' \in [Names -> Nat]
      /\ \A n \in Names : scanned[n] <= scanned'[n] /\ (n \in Support(versions) \ dropped => versions[n] <= scanned'[n])
    BY <1>1, <1>3, RaiseIs
<1>5. /\ excused' \in [Names -> Nat]
      /\ \A n \in Names : excused[n] <= excused'[n] /\ (n \in dropped => max <= excused'[n])
    BY <1>1, <1>2, <1>3, RaiseIs
<1>6. \A n \in Names : versions[n] > 0 => n \in Support(versions)
    BY DEF Support
<1>7. known \subseteq known'
    BY <1>1 DEF Learn
<1>8. QED
    BY <1>4, <1>5, <1>6, <1>7

\* Steps that enqueue: the rest of what the poll owes is kept.
LEMMA EnqueueMoves ==
    ASSUME NpmInv, NEW p \in Polls, NEW q \in PollRec, q = poll[p], NEW r \in PollRec, poll' = [poll EXCEPT ![p] = r],
           NEW versions \in [Names -> Nat], NEW max \in Nat, EnqueueAll(versions, max), q.max <= max,
           UNCHANGED <<cursor, listVars, change, boot, carry, checked>>,
           Shape(r), r.max = q.max, r.gated = q.gated,
           \A n \in Names : change[n].seq > 0 /\ Flight(q, n, change[n].seq) =>
               Flight(r, n, change[n].seq) \/ (versions[n] >= change[n].seq /\ change[n].seq <= max),
           \A n \in Names : LastChange[n] <= q.max =>
               n \in Safe \/ Pending(r, n, LastChange[n], Plain) \/ versions[n] >= LastChange[n]
    PROVE  NpmInv'
<1>1. /\ NpmFrame /\ q.max <= UpdateSeq /\ q.max \in Nat /\ NpmSound(q, LastChange, Safe, Plain)
      /\ \A n \in Names : LastChange[n] = change[n].seq /\ change[n].seq \in Nat
    BY NpmPollIs, LastChangeIs DEF NpmInv
<1>2. /\ scanned' \in [Names -> Nat] /\ excused' \in [Names -> Nat] /\ known \subseteq known'
      /\ \A n \in Names : scanned[n] <= scanned'[n] /\ excused[n] <= excused'[n]
      /\ \A n \in Names : versions[n] > 0 => versions[n] <= scanned'[n] \/ max <= excused'[n]
    BY <1>1, EnqueueAllIs
<1>3. NpmFrame'
    BY <1>1, <1>2 DEF NpmFrame
<1>4. \A n \in Names : checked[n] <= checked'[n] /\ scanned'[n] \in Nat /\ excused'[n] \in Nat /\ versions[n] \in Nat
    BY <1>1, <1>3 DEF NpmFrame
<1>5. \A n \in Names : change[n].seq > 0 /\ versions[n] >= change[n].seq /\ change[n].seq <= max =>
         change[n].seq <= excused'[n] \/ change[n].seq <= scanned'[n]
    BY <1>1, <1>2, <1>4
<1>6. boot <= boot'
    BY <1>1 DEF NpmFrame
<1>7. Safe \subseteq Safe'
    BY <1>1, <1>2, <1>3, <1>4, <1>5, <1>6, SafeStays
<1>8. \A n \in Names : change[n].seq <= excused'[n] \/ change[n].seq <= scanned'[n] => n \in Safe'
    BY DEF Safe
<1>9. Plain \subseteq Plain'
    BY <1>2, PlainStays
<1>10. ASSUME NEW n \in Names, LastChange[n] <= r.max PROVE n \in Safe' \/ Pending(r, n, LastChange[n], Plain')
    <2>1. CASE n \in Safe
        BY <1>7, <2>1
    <2>2. CASE Pending(r, n, LastChange[n], Plain)
        BY <1>9, <2>2 DEF Pending
    <2>3. CASE versions[n] >= LastChange[n] /\ n \notin Safe
        <3>1. LastChange[n] > 0
            BY <1>1, <2>3, ZeroSafe
        <3>2. change[n].seq <= max
            BY <1>1, <1>10
        <3>3. QED
            BY <1>1, <1>5, <1>8, <2>3, <3>1, <3>2
    <2>4. QED
        BY <1>10, <2>1, <2>2, <2>3
<1>11. NpmSound(r, LastChange, Safe', Plain')
    BY <1>1, <1>10 DEF NpmSound
<1>12. cursor' <= UpdateSeq /\ SafeTo(cursor', LastChange, Safe')
    BY <1>7 DEF NpmInv, SafeTo
<1>13. QED
    BY <1>1, <1>2, <1>3, <1>7, <1>11, <1>12, NpmPollMoves

LEMMA NpmEnqueues == \A p \in Polls : NpmInv /\ EnqueueResolved(p) => NpmInv'
<1> SUFFICES ASSUME NpmInv, NEW p \in Polls, EnqueueResolved(p) PROVE NpmInv'
    OBVIOUS
<1>1. PICK q \in PollRec : /\ q = poll[p] /\ q.pc = "enqueue" /\ Shape(q) /\ q.max \in Nat
                           /\ NpmSound(q, LastChange, Safe, Plain)
    BY NpmPollIs DEF EnqueueResolved
<1>2. /\ EnqueueAll(q.resolved, q.max) /\ poll' = [poll EXCEPT ![p] = AfterEnqueue(q)]
      /\ UNCHANGED <<cursor, listVars, change, boot, carry, checked>>
    BY <1>1 DEF EnqueueResolved
<1>3. q.cand = {} /\ q.todo = {} /\ q.resolved \in [Names -> Nat]
    BY <1>1 DEF Shape, PollRec
<1>4. PICK r \in PollRec : /\ r = AfterEnqueue(q) /\ Shape(r) /\ r.max = q.max /\ r.gated = q.gated
                           /\ r.resolved = q.resolved /\ r.hits = q.hits /\ (r.taken = q.taken \/ q.hits = Zero)
    BY <1>3, AfterEnqueueKeeps DEF Kept
<1>5. \A n \in Names : change[n].seq > 0 /\ Flight(q, n, change[n].seq) => Flight(r, n, change[n].seq)
    <2>1. \A n \in Names : change[n].seq \in Nat
        BY LastChangeIs DEF NpmInv
    <2>2. QED
        BY <1>1, <1>4, <2>1, ZeroIs DEF Flight
<1>6. \A n \in Names : LastChange[n] <= q.max =>
         n \in Safe \/ Pending(r, n, LastChange[n], Plain) \/ q.resolved[n] >= LastChange[n]
    BY <1>1, <1>3, <1>4 DEF NpmSound, Pending, Gated
<1>7. q.max <= q.max
    BY <1>1
<1>8. QED
    BY <1>1, <1>2, <1>3, <1>4, <1>5, <1>6, <1>7, EnqueueMoves

LEMMA NpmHits == \A p \in Polls : NpmInv /\ EnqueueHits(p) => NpmInv'
<1> SUFFICES ASSUME NpmInv, NEW p \in Polls, EnqueueHits(p) PROVE NpmInv'
    OBVIOUS
<1>1. PICK q \in PollRec : /\ q = poll[p] /\ q.pc = "hits" /\ Shape(q) /\ q.max \in Nat /\ q.max <= UpdateSeq
                           /\ NpmSound(q, LastChange, Safe, Plain)
    BY NpmPollIs DEF EnqueueHits
<1>2. /\ EnqueueAll(q.hits, UpdateSeq) /\ poll' = [poll EXCEPT ![p] = AfterHits(q)]
      /\ UNCHANGED <<cursor, listVars, change, boot, carry, checked>>
    BY <1>1 DEF EnqueueHits
<1>3. q.cand = {} /\ q.todo = {} /\ q.hits \in [Names -> Nat]
    BY <1>1 DEF Shape, PollRec
<1>4. PICK r \in PollRec : /\ r = AfterHits(q) /\ r.pc = "advance" /\ r.max = q.max /\ r.gated = q.gated
                           /\ r.resolved = q.resolved /\ r.hits = Zero /\ r.taken = {} /\ r.cand = {} /\ r.todo = {}
    <2> DEFINE a == [q EXCEPT !.pc = "advance", !.hits = Zero, !.taken = {}]
    <2>1. /\ a \in PollRec /\ a.pc = "advance" /\ a.max = q.max /\ a.gated = q.gated
          /\ a.resolved = q.resolved /\ a.hits = Zero /\ a.taken = {} /\ a.cand = {} /\ a.todo = {}
        BY <1>3, ZeroIs DEF PollRec, Steps
    <2>2. AfterHits(q) = a
        BY DEF AfterHits
    <2> HIDE DEF a
    <2>3. QED
        BY <2>1, <2>2
<1>5. Shape(r)
    BY <1>4 DEF Shape
<1>6. UpdateSeq \in Nat /\ \A n \in Names : change[n].seq <= UpdateSeq
    BY UpdateSeqIs DEF NpmInv
<1>7. \A n \in Names : change[n].seq > 0 /\ Flight(q, n, change[n].seq) =>
         q.hits[n] >= change[n].seq /\ change[n].seq <= UpdateSeq
    BY <1>1, <1>6 DEF Flight
<1>8. \A n \in Names : LastChange[n] <= q.max =>
         n \in Safe \/ Pending(r, n, LastChange[n], Plain) \/ q.hits[n] >= LastChange[n]
    BY <1>1, <1>3, <1>4 DEF NpmSound, Pending, Gated
<1>9. QED
    BY <1>1, <1>2, <1>3, <1>4, <1>5, <1>6, <1>7, <1>8, EnqueueMoves

LEMMA SafeSeqIs ==
    ASSUME NEW q \in PollRec
    PROVE  /\ SafeSeq(q) \in Nat /\ SafeSeq(q) <= q.max
           /\ \A n \in Unresolved(q) \ GivenUp(q) : SafeSeq(q) < q.gated[n]
<1> DEFINE B == {b - 1 : b \in Blockers(q)}
<1>1. q.max \in Nat /\ \A n \in Names : q.gated[n] \in Nat
    BY DEF PollRec
<1>2. \A b \in Blockers(q) : b \in Nat /\ b > 0
    BY <1>1 DEF Blockers, Unresolved, Support
<1>3. {q.max} \union B \in SUBSET Nat /\ {q.max} \union B # {}
    BY <1>1, <1>2
<1>4. \A n \in Unresolved(q) \ GivenUp(q) : q.gated[n] - 1 \in B /\ q.gated[n] \in Nat
    BY <1>1 DEF Blockers, Unresolved, Support
<1>5. SafeSeq(q) = Min({q.max} \union B)
    BY DEF SafeSeq
<1> HIDE DEF B
<1>6. SafeSeq(q) \in {q.max} \union B /\ \A k \in {q.max} \union B : SafeSeq(q) <= k
    BY <1>3, <1>5, MinOfNaturals
<1>7. SafeSeq(q) \in Nat
    BY <1>3, <1>6
<1>8. QED
    BY <1>1, <1>4, <1>6, <1>7

\* Steps that give up on names: more is excused, and what the poll had in flight is excused too.
LEMMA GivingUpIs ==
    ASSUME NpmFrame, NEW S, NEW g \in [Names -> Nat], excused' = Raise(excused, S, g),
           UNCHANGED <<change, boot, scanned, checked>>
    PROVE  /\ excused' \in [Names -> Nat] /\ boot <= boot'
           /\ \A n \in Names : scanned[n] <= scanned'[n] /\ checked[n] <= checked'[n] /\ excused[n] <= excused'[n]
           /\ \A n \in Names : n \in S => g[n] <= excused'[n]
<1>1. excused \in [Names -> Nat] /\ boot \in Nat /\ scanned \in [Names -> Nat] /\ checked \in [Names -> Nat]
    BY DEF NpmFrame
<1>2. QED
    BY <1>1, RaiseIs

LEMMA NpmAdvances == \A p \in Polls : NpmInv /\ Advance(p) => NpmInv'
<1> SUFFICES ASSUME NpmInv, NEW p \in Polls, Advance(p) PROVE NpmInv'
    OBVIOUS
<1>1. PICK q \in PollRec : /\ q = poll[p] /\ q.pc = "advance" /\ Shape(q) /\ q.max \in Nat /\ q.max <= UpdateSeq
                           /\ NpmSound(q, LastChange, Safe, Plain)
    BY NpmPollIs DEF Advance
<1>2. /\ cursor' = (IF SafeSeq(q) > q.start THEN SafeSeq(q) ELSE cursor)
      /\ excused' = Raise(excused, GivenUp(q), UpTo(q.max))
      /\ poll' = [poll EXCEPT ![p] = IdlePoll]
      /\ UNCHANGED <<known, listVars, change, boot, carry, scanned, checked>>
    BY <1>1 DEF Advance
<1>3. /\ NpmFrame /\ UpdateSeq \in Nat /\ cursor \in Nat \union {NoCursor} /\ cursor <= UpdateSeq
      /\ SafeTo(cursor, LastChange, Safe)
      /\ \A n \in Names : LastChange[n] = change[n].seq /\ change[n].seq \in Nat
    BY UpdateSeqIs, LastChangeIs DEF NpmInv, NpmFrame
<1>4. UpTo(q.max) \in [Names -> Nat] /\ \A n \in Names : UpTo(q.max)[n] = q.max
    BY <1>1 DEF UpTo
<1>5. /\ excused' \in [Names -> Nat] /\ boot <= boot'
      /\ \A n \in Names : scanned[n] <= scanned'[n] /\ checked[n] <= checked'[n] /\ excused[n] <= excused'[n]
      /\ \A n \in Names : n \in GivenUp(q) => q.max <= excused'[n]
    BY <1>2, <1>3, <1>4, GivingUpIs
<1>6. /\ SafeSeq(q) \in Nat /\ SafeSeq(q) <= q.max
      /\ \A n \in Unresolved(q) \ GivenUp(q) : SafeSeq(q) < q.gated[n]
    BY SafeSeqIs
<1>7. NpmFrame'
    BY <1>2, <1>3, <1>5, <1>6, IdlePollIs DEF NpmFrame
<1>8. \A n \in Names : ~Flight(q, n, change[n].seq)
    BY <1>1 DEF Shape, Flight
<1>9. Safe \subseteq Safe'
    BY <1>1, <1>2, <1>3, <1>5, <1>7, <1>8, SafeStays
<1>10. ASSUME NEW n \in Names, LastChange[n] <= SafeSeq(q) PROVE n \in Safe'
    <2>1. PICK s \in Nat : s = LastChange[n] /\ s = change[n].seq
        BY <1>3
    <2>2. q.gated[n] \in Nat /\ q.resolved[n] \in Nat /\ q.hits[n] = 0
        BY <1>1, ZeroIs DEF PollRec, Shape
    <2>3. CASE s = 0
        <3>1. LastChange[n] <= 0
            BY <2>1, <2>3
        <3>2. QED
            BY <1>3, <1>9, <3>1, ZeroSafe
    <2>4. CASE s > 0 /\ n \notin Safe
        <3>1. s <= q.max
            BY <1>1, <1>6, <1>10, <2>1
        <3>2. Pending(q, n, s, Plain)
            BY <1>1, <2>1, <2>4, <3>1 DEF NpmSound
        <3>3. q.gated[n] > 0 /\ q.gated[n] <= s /\ q.resolved[n] = 0
            BY <1>1, <2>1, <2>2, <2>4, <3>2 DEF Pending, Gated, Shape
        <3>4. n \in Unresolved(q)
            BY <3>3 DEF Unresolved, Support
        <3>5. n \in GivenUp(q)
            BY <1>6, <1>10, <2>1, <2>2, <3>3, <3>4
        <3>6. s <= excused'[n]
            BY <1>1, <1>5, <3>1, <3>5
        <3>7. QED
            BY <1>2, <2>1, <3>6 DEF Safe
    <2>5. QED
        BY <1>9, <2>1, <2>3, <2>4
<1>11. cursor' <= UpdateSeq
    BY <1>1, <1>2, <1>3, <1>6
<1>12. SafeTo(cursor', LastChange, Safe')
    BY <1>2, <1>3, <1>9, <1>10 DEF SafeTo
<1>13. NpmSound(IdlePoll, LastChange, Safe', Plain') /\ IdlePoll.max <= UpdateSeq
    BY <1>3, <1>9, IdleNpmSound, IdlePollIs
<1>14. QED
    BY <1>2, <1>7, <1>9, <1>11, <1>12, <1>13, IdlePollIs, NpmPollMoves

LEMMA NpmAborts == \A p \in Polls : NpmInv /\ Abort(p) => NpmInv'
<1> SUFFICES ASSUME NpmInv, NEW p \in Polls, Abort(p) PROVE NpmInv'
    OBVIOUS
<1>2. /\ excused' = Raise(excused, poll[p].taken, LastChange)
      /\ poll' = [poll EXCEPT ![p] = IdlePoll]
      /\ UNCHANGED <<cursor, known, listVars, change, boot, carry, scanned, checked>>
    BY DEF Abort
<1>3. /\ NpmFrame /\ UpdateSeq \in Nat /\ cursor <= UpdateSeq /\ SafeTo(cursor, LastChange, Safe)
      /\ LastChange \in [Names -> Nat] /\ \A n \in Names : LastChange[n] = change[n].seq /\ change[n].seq \in Nat
    BY UpdateSeqIs, LastChangeIs DEF NpmInv, NpmFrame
<1>5. /\ excused' \in [Names -> Nat] /\ boot <= boot'
      /\ \A n \in Names : scanned[n] <= scanned'[n] /\ checked[n] <= checked'[n] /\ excused[n] <= excused'[n]
      /\ \A n \in Names : n \in poll[p].taken => LastChange[n] <= excused'[n]
    BY <1>2, <1>3, GivingUpIs
<1>7. NpmFrame'
    BY <1>2, <1>3, <1>5, IdlePollIs DEF NpmFrame
<1>8. \A n \in Names : Flight(poll[p], n, change[n].seq) => change[n].seq <= excused'[n]
    BY <1>3, <1>5 DEF Flight
<1>9. Safe \subseteq Safe'
    BY <1>2, <1>3, <1>5, <1>7, <1>8, SafeStays
<1>12. SafeTo(cursor', LastChange, Safe') /\ cursor' <= UpdateSeq
    BY <1>2, <1>3, <1>9 DEF SafeTo
<1>13. NpmSound(IdlePoll, LastChange, Safe', Plain') /\ IdlePoll.max <= UpdateSeq
    BY <1>3, <1>9, IdleNpmSound, IdlePollIs
<1>14. QED
    BY <1>2, <1>7, <1>9, <1>12, <1>13, IdlePollIs, NpmPollMoves

\* The process dies with its counters, its carry-over and its polls.
LEMMA NpmRestarts == NpmInv /\ Restart => NpmInv'
<1> SUFFICES ASSUME NpmInv, Restart PROVE NpmInv'
    OBVIOUS
<1> DEFINE S == ToSet(carry) \union UNION {poll[p].taken : p \in Polls}
<1>2. /\ excused' = Raise(excused, S, LastChange)
      /\ poll' = [p \in Polls |-> IdlePoll] /\ carry' = <<>>
      /\ UNCHANGED <<cursor, known, listVars, change, boot, scanned, checked>>
    BY DEF Restart
<1>3. /\ NpmFrame /\ UpdateSeq \in Nat /\ cursor <= UpdateSeq /\ SafeTo(cursor, LastChange, Safe)
      /\ LastChange \in [Names -> Nat] /\ \A n \in Names : LastChange[n] = change[n].seq /\ change[n].seq \in Nat
    BY UpdateSeqIs, LastChangeIs DEF NpmInv, NpmFrame
<1>4. \A n \in Names : n \in ToSet(carry) \/ (\E p \in Polls : Flight(poll[p], n, change[n].seq)) => n \in S
    BY DEF Flight
<1> HIDE DEF S
<1>5. /\ excused' \in [Names -> Nat] /\ boot <= boot'
      /\ \A n \in Names : scanned[n] <= scanned'[n] /\ checked[n] <= checked'[n] /\ excused[n] <= excused'[n]
      /\ \A n \in Names : n \in S => LastChange[n] <= excused'[n]
    BY <1>2, <1>3, GivingUpIs
<1>6. NpmFrame'
    BY <1>2, <1>3, <1>5, IdlePollIs DEF NpmFrame
<1>7. \A n \in Names : n \in S => n \in Safe'
    BY <1>2, <1>3, <1>5 DEF Safe
<1>8. Plain' = Plain
    BY <1>2 DEF Plain, Listed, listVars
<1>9. Safe \subseteq Safe'
    <2> SUFFICES ASSUME NEW n \in Names, n \in Safe, n \notin S PROVE n \in Safe'
        BY <1>7 DEF Safe
    <2>1. excused[n] \in Nat /\ excused'[n] \in Nat /\ change[n].seq \in Nat
        BY <1>3, <1>6 DEF NpmFrame
    <2>2. \/ change[n].seq <= boot \/ change[n].deleted \/ change[n].seq <= excused[n]
          \/ exclusive /\ n \notin focus
          \/ change[n].seq <= scanned[n]
          \/ n \in Plain /\ change[n].seq <= checked[n]
        BY <1>4 DEF Safe
    <2>3. change[n].seq <= excused[n] => change[n].seq <= excused'[n]
        BY <1>5, <2>1
    <2>4. QED
        BY <1>2, <1>8, <2>2, <2>3 DEF Safe, listVars
<1>10. LastChange' = LastChange /\ UpdateSeq' = UpdateSeq
    BY <1>2 DEF LastChange, UpdateSeq
<1>11. NpmSound(IdlePoll, LastChange, Safe', Plain') /\ IdlePoll.max <= UpdateSeq
    BY <1>3, <1>9, IdleNpmSound, IdlePollIs
<1>12. cursor' <= UpdateSeq /\ SafeTo(cursor', LastChange, Safe')
    BY <1>2, <1>3, <1>9 DEF SafeTo
<1>13. QED
    BY <1>2, <1>6, <1>10, <1>11, <1>12 DEF NpmInv

LEMMA NpmChecks == \A p \in Polls : NpmInv /\ CheckAnomalies(p) => NpmInv'
<1> SUFFICES ASSUME NpmInv, NEW p \in Polls, CheckAnomalies(p) PROVE NpmInv'
    OBVIOUS
<1>1. PICK q \in PollRec : /\ q = poll[p] /\ q.pc = "check" /\ Shape(q) /\ q.max \in Nat /\ q.max <= UpdateSeq
                           /\ NpmSound(q, LastChange, Safe, Plain)
    BY NpmPollIs DEF CheckAnomalies
<1>2. PICK got \in SUBSET {n \in q.todo : Latest(n) > 0} : \E hit \in SUBSET got :
             /\ checked' = Raise(checked, got \ hit, LastChange)
             /\ excused' = Raise(excused, q.todo \ got, LastChange)
             /\ poll' = [poll EXCEPT ![p] = AfterChecks([q EXCEPT !.todo = {},
                   !.hits = [n \in Names |-> IF n \in hit THEN Latest(n) ELSE 0]])]
    BY <1>1 DEF CheckAnomalies
<1>a. PICK hit \in SUBSET got :
             /\ checked' = Raise(checked, got \ hit, LastChange)
             /\ excused' = Raise(excused, q.todo \ got, LastChange)
             /\ poll' = [poll EXCEPT ![p] = AfterChecks([q EXCEPT !.todo = {},
                   !.hits = [n \in Names |-> IF n \in hit THEN Latest(n) ELSE 0]])]
    BY <1>2
<1>3. UNCHANGED <<cursor, known, listVars, change, boot, carry, scanned>>
    BY DEF CheckAnomalies, sharedVars
<1>4. /\ NpmFrame /\ UpdateSeq \in Nat /\ cursor <= UpdateSeq /\ SafeTo(cursor, LastChange, Safe)
      /\ LastChange \in [Names -> Nat] /\ \A n \in Names : LastChange[n] = change[n].seq /\ change[n].seq \in Nat
    BY UpdateSeqIs, LastChangeIs DEF NpmInv, NpmFrame
<1> DEFINE v == [n \in Names |-> IF n \in hit THEN Latest(n) ELSE 0]
           a == [q EXCEPT !.todo = {}, !.hits = v]
           r == AfterChecks(a)
<1>5. v \in [Names -> Nat] /\ \A n \in Names : n \in hit => v[n] = change[n].seq /\ change[n].seq > 0
    BY <1>a, <1>2, <1>4 DEF Latest
<1> HIDE DEF v
<1>6. /\ a \in PollRec /\ a.resolved = Zero /\ a.hits = v /\ a.taken = q.taken /\ a.gated = q.gated
      /\ a.max = q.max /\ a.cand = {} /\ a.todo = {}
    BY <1>1, <1>5 DEF PollRec, Shape
<1>7. poll' = [poll EXCEPT ![p] = r]
    BY <1>a DEF v
<1> HIDE DEF a
<1>8. /\ r \in PollRec /\ r.max = q.max /\ r.gated = q.gated /\ Shape(r)
      /\ r.resolved = Zero /\ r.hits = v /\ (r.taken = q.taken \/ v = Zero)
    BY <1>6, AfterChecksKeeps DEF Kept
<1> HIDE DEF r
<1>9. /\ checked' \in [Names -> Nat] /\ excused' \in [Names -> Nat]
      /\ \A n \in Names : checked[n] <= checked'[n] /\ (n \in got \ hit => LastChange[n] <= checked'[n])
      /\ \A n \in Names : excused[n] <= excused'[n] /\ (n \in q.todo \ got => LastChange[n] <= excused'[n])
    <2>1. checked \in [Names -> Nat] /\ excused \in [Names -> Nat]
        BY <1>4 DEF NpmFrame
    <2>2. /\ checked' \in [Names -> Nat]
          /\ \A n \in Names : checked[n] <= checked'[n] /\ (n \in got \ hit => LastChange[n] <= checked'[n])
        BY <1>a, <1>4, <2>1, RaiseIs
    <2>3. /\ excused' \in [Names -> Nat]
          /\ \A n \in Names : excused[n] <= excused'[n] /\ (n \in q.todo \ got => LastChange[n] <= excused'[n])
        BY <1>a, <1>4, <2>1, RaiseIs
    <2>4. QED
        BY <2>2, <2>3
<1>10. NpmFrame'
    BY <1>3, <1>4, <1>7, <1>8, <1>9 DEF NpmFrame
\* Every name to check is checked, given up on or a hit.
<1>11. \A n \in Names : n \in q.todo =>
          \/ change[n].seq <= checked'[n] \/ change[n].seq <= excused'[n]
          \/ (v[n] >= change[n].seq /\ v # Zero)
    <2>1. \A n \in Names : n \in hit => v[n] >= change[n].seq /\ v # Zero
        BY <1>4, <1>5, ZeroIs
    <2>2. QED
        BY <1>4, <1>9, <2>1
<1>12. \A n \in Names : Flight(q, n, change[n].seq) =>
          Flight(r, n, change[n].seq) \/ change[n].seq <= checked'[n] \/ change[n].seq <= excused'[n]
    <2>1. q.taken \subseteq q.todo
        BY <1>1 DEF Shape
    <2>2. QED
        BY <1>8, <1>11, <2>1 DEF Flight
<1>13. Safe \subseteq Safe'
    <2>1. \A n \in Names : scanned[n] <= scanned'[n] /\ checked[n] <= checked'[n] /\ excused[n] <= excused'[n]
        BY <1>3, <1>4, <1>9 DEF NpmFrame
    <2>2. boot <= boot'
        BY <1>3, <1>4 DEF NpmFrame
    <2>3. QED
        BY <1>1, <1>3, <1>4, <1>7, <1>10, <1>12, <2>1, <2>2, SafeStays
<1>14. Plain' = Plain
    BY <1>3 DEF Plain, Listed, listVars
<1>15. ASSUME NEW n \in Names, LastChange[n] <= r.max PROVE n \in Safe' \/ Pending(r, n, LastChange[n], Plain')
    <2>1. \/ n \in Safe \/ (q.gated[n] > 0 /\ q.gated[n] <= LastChange[n]) \/ (n \in Plain /\ n \in q.todo)
          \/ 0 >= LastChange[n]
        BY <1>1, <1>8, <1>15, ZeroIs DEF NpmSound, Pending, Gated, Shape
    <2>2. CASE n \in Safe \/ 0 >= LastChange[n]
        <3>1. n \in Safe
            BY <1>4, <2>2, ZeroSafe
        <3>2. QED
            BY <1>13, <3>1
    <2>3. CASE q.gated[n] > 0 /\ q.gated[n] <= LastChange[n]
        BY <1>8, <2>3, ZeroIs DEF Pending, Gated
    <2>4. CASE n \in Plain /\ n \in q.todo
        <3>1. CASE v[n] >= change[n].seq
            BY <1>4, <1>8, <3>1 DEF Pending
        <3>2. CASE change[n].seq <= checked'[n] \/ change[n].seq <= excused'[n]
            BY <1>3, <1>14, <2>4, <3>2 DEF Safe
        <3>3. QED
            BY <1>11, <2>4, <3>1, <3>2
    <2>5. QED
        BY <2>1, <2>2, <2>3, <2>4
<1>16. NpmSound(r, LastChange, Safe', Plain') /\ r.max <= UpdateSeq
    BY <1>1, <1>8, <1>15 DEF NpmSound
<1>17. cursor' <= UpdateSeq /\ SafeTo(cursor', LastChange, Safe')
    BY <1>3, <1>4, <1>13 DEF SafeTo
<1>18. QED
    BY <1>3, <1>7, <1>8, <1>10, <1>13, <1>16, <1>17, NpmPollMoves

\* A sequence cut in two keeps its elements.
LEMMA CutKeeps ==
    ASSUME NEW T, NEW c \in Seq(T), NEW k \in 0 .. Len(c)
    PROVE  /\ SubSeq(c, 1, k) \in Seq(T) /\ SubSeq(c, k + 1, Len(c)) \in Seq(T)
           /\ ToSet(c) \subseteq ToSet(SubSeq(c, 1, k)) \union ToSet(SubSeq(c, k + 1, Len(c)))
           /\ ToSet(SubSeq(c, 1, k)) \subseteq T
<1>1. PICK m \in Nat : m = Len(c) /\ DOMAIN c = 1 .. m /\ k \in 0 .. m
    OBVIOUS
<1> DEFINE d == SubSeq(c, 1, k)
           e == SubSeq(c, k + 1, Len(c))
<1>2. d \in Seq(T) /\ DOMAIN d = 1 .. k /\ \A i \in 1 .. k : d[i] = c[i]
    BY <1>1
<1>3. e \in Seq(T) /\ DOMAIN e = 1 .. (m - k) /\ \A i \in 1 .. (m - k) : e[i] = c[k + i]
    BY <1>1
<1> HIDE DEF d, e
<1>4. ASSUME NEW i \in 1 .. m PROVE c[i] \in ToSet(d) \union ToSet(e)
    <2>1. CASE i <= k
        BY <1>1, <1>2, <2>1 DEF ToSet
    <2>2. CASE i > k
        <3>1. i - k \in 1 .. (m - k) /\ k + (i - k) = i
            BY <1>1, <2>2
        <3>2. QED
            BY <1>3, <3>1 DEF ToSet
    <2>3. QED
        BY <1>1, <2>1, <2>2
<1>5. ToSet(c) \subseteq ToSet(d) \union ToSet(e)
    BY <1>1, <1>4 DEF ToSet
<1>6. ToSet(d) \subseteq T
    BY <1>2 DEF ToSet
<1>7. QED
    BY <1>2, <1>3, <1>5, <1>6 DEF d, e

LEMMA JoinKeeps ==
    ASSUME NEW T, NEW c \in Seq(T), NEW d \in Seq(T)
    PROVE  c \o d \in Seq(T) /\ ToSet(c) \union ToSet(d) \subseteq ToSet(c \o d)
<1>1. PICK k \in Nat : k = Len(c) /\ DOMAIN c = 1 .. k
    OBVIOUS
<1>2. PICK m \in Nat : m = Len(d) /\ DOMAIN d = 1 .. m
    OBVIOUS
<1> DEFINE e == c \o d
<1>3. /\ e \in Seq(T) /\ DOMAIN e = 1 .. (k + m) /\ \A i \in 1 .. k : e[i] = c[i]
    BY <1>1, <1>2
<1>4. \A i \in 1 .. m : e[k + i] = d[i]
    BY <1>1, <1>2
<1>5. \A i \in 1 .. k : i \in 1 .. (k + m)
    BY <1>1, <1>2
<1>6. \A i \in 1 .. m : k + i \in 1 .. (k + m)
    BY <1>1, <1>2
<1> HIDE DEF e
<1>7. ToSet(c) \subseteq ToSet(e)
    BY <1>1, <1>3, <1>5 DEF ToSet
<1>8. ToSet(d) \subseteq ToSet(e)
    BY <1>2, <1>3, <1>4, <1>6 DEF ToSet
<1>9. QED
    BY <1>3, <1>7, <1>8 DEF e

\* A sequence of a finite set, each element once, has all of them.
LEMMA ListingIs ==
    ASSUME NEW S, IsFiniteSet(S), NEW f \in SetToSeqs(S)
    PROVE  f \in Seq(S) /\ Len(f) = Cardinality(S) /\ Cardinality(S) \in Nat /\ S \subseteq ToSet(f)
<1>1. PICK k \in Nat : k = Cardinality(S)
    BY FS_CardinalityType
<1>2. f \in [1 .. k -> S] /\ \A i, j \in 1 .. k : i # j => f[i] # f[j]
    BY <1>1 DEF SetToSeqs
<1>3. f \in Injection(1 .. k, S)
    BY <1>2 DEF Injection, IsInjective
<1>4. Cardinality(1 .. k) = k
    <2>1. Cardinality(1 .. k) = IF 1 > k THEN 0 ELSE k - 1 + 1
        <3>1. 1 \in Int /\ k \in Int
            BY <1>1
        <3>2. QED
            BY <3>1, FS_Interval
    <2>2. QED
        BY <1>1, <2>1
<1>5. f \in Surjection(1 .. k, S)
    BY <1>1, <1>3, <1>4, FS_Injection
<1>6. f \in Seq(S) /\ Len(f) = k /\ DOMAIN f = 1 .. k
    BY <1>1, <1>2
<1>7. S \subseteq ToSet(f)
    BY <1>5, <1>6 DEF Surjection, ToSet
<1>8. QED
    BY <1>1, <1>6, <1>7

\* The shares of the carry-over and of fresh names in the checks.
LEMMA SharesAre ==
    ASSUME NEW k \in Nat, NEW m \in Nat, NEW nc, nc = Min({k, MaxChecks \div 2}), NEW nf, nf = Min({m, MaxChecks - nc})
    PROVE  nc \in 0 .. k /\ nf \in 0 .. m
<1>1. PICK h \in Nat : h = MaxChecks \div 2 /\ h <= MaxChecks
    BY NpmBoundAssumption
<1>2. nc = IF k <= h THEN k ELSE h
    BY <1>1, MinOfPair
<1>3. PICK g \in Nat : g = MaxChecks - nc
    BY <1>1, <1>2, NpmBoundAssumption
<1>4. nf = IF m <= g THEN m ELSE g
    BY <1>3, MinOfPair
<1>5. nc \in 0 .. k
    BY <1>2
<1>6. nf \in 0 .. m
    BY <1>4
<1>7. QED
    BY <1>5, <1>6

\* What SplitChecks carries over.
LEMMA DeferredIs ==
    ASSUME carry \in Seq(Names), NEW fresh \in SUBSET Names, NEW f \in SetToSeqs(fresh),
           NEW nc, nc = Min({Len(carry), MaxChecks \div 2}),
           NEW nf, nf = Min({Cardinality(fresh), MaxChecks - nc})
    PROVE  /\ SubSeq(carry, nc + 1, Len(carry)) \o SubSeq(f, nf + 1, Len(f)) \in Seq(Names)
           /\ ToSet(SubSeq(carry, 1, nc)) \union ToSet(SubSeq(f, 1, nf)) \in SUBSET Names
           /\ ToSet(SubSeq(carry, 1, nc)) \in SUBSET Names
<1>1. f \in Seq(fresh) /\ Len(f) = Cardinality(fresh) /\ Cardinality(fresh) \in Nat
    BY NamesAssumption, FS_Subset, ListingIs
<1>2. Len(carry) \in Nat
    OBVIOUS
<1>3. nc \in 0 .. Len(carry) /\ nf \in 0 .. Cardinality(fresh)
    BY <1>1, <1>2, SharesAre
<1>4. SubSeq(carry, nc + 1, Len(carry)) \in Seq(Names) /\ ToSet(SubSeq(carry, 1, nc)) \subseteq Names
    BY <1>3, CutKeeps
<1>5. SubSeq(f, nf + 1, Len(f)) \in Seq(fresh) /\ ToSet(SubSeq(f, 1, nf)) \subseteq fresh
    BY <1>1, <1>3, CutKeeps
<1>6. SubSeq(f, nf + 1, Len(f)) \in Seq(Names)
    <2>1. \A d \in Seq(fresh) : d \in Seq(Names)
        OBVIOUS
    <2>2. QED
        BY <1>5, <2>1
<1>7. QED
    BY <1>4, <1>5, <1>6, JoinKeeps

LEMMA NpmSplits == \A p \in Polls : NpmInv /\ SplitChecks(p) => NpmInv'
<1> SUFFICES ASSUME NpmInv, NEW p \in Polls, SplitChecks(p) PROVE NpmInv'
    OBVIOUS
<1> DEFINE q == poll[p]
           nc == Min({Len(carry), MaxChecks \div 2})
           fresh == (q.cand \ Support(q.gated)) \ ToSet(carry)
           nf == Min({Cardinality(fresh), MaxChecks - nc})
           taken == ToSet(SubSeq(carry, 1, nc))
<1>1. /\ q \in PollRec /\ q.pc = "split" /\ Shape(q) /\ q.max \in Nat /\ q.max <= UpdateSeq
      /\ NpmSound(q, LastChange, Safe, Plain)
    BY NpmPollIs DEF SplitChecks
<1>2. PICK f \in SetToSeqs(fresh) :
        LET names == taken \union ToSet(SubSeq(f, 1, nf))
            deferred == SubSeq(carry, nc + 1, Len(carry)) \o SubSeq(f, nf + 1, Len(f))
            r == [q EXCEPT !.cand = {}, !.todo = names, !.taken = taken]
        IN  /\ carry' = Bounded(deferred)
            /\ excused' = Raise(excused, ToSet(deferred) \ ToSet(carry'), LastChange)
            /\ poll' = [poll EXCEPT ![p] = IF names = {} THEN AfterChecks(r) ELSE [r EXCEPT !.pc = "check"]]
    BY DEF SplitChecks
<1>3. UNCHANGED <<cursor, known, listVars, change, boot, scanned, checked>>
    BY DEF SplitChecks, sharedVars
<1>4. /\ NpmFrame /\ UpdateSeq \in Nat /\ cursor <= UpdateSeq /\ SafeTo(cursor, LastChange, Safe)
      /\ carry \in Seq(Names)
      /\ LastChange \in [Names -> Nat] /\ \A n \in Names : LastChange[n] = change[n].seq /\ change[n].seq \in Nat
    BY UpdateSeqIs, LastChangeIs DEF NpmInv, NpmFrame
<1> DEFINE names == taken \union ToSet(SubSeq(f, 1, nf))
           deferred == SubSeq(carry, nc + 1, Len(carry)) \o SubSeq(f, nf + 1, Len(f))
           r == [q EXCEPT !.cand = {}, !.todo = names, !.taken = taken]
           z == IF names = {} THEN AfterChecks(r) ELSE [r EXCEPT !.pc = "check"]
<1>5. /\ carry' = Bounded(deferred)
      /\ excused' = Raise(excused, ToSet(deferred) \ ToSet(carry'), LastChange)
      /\ poll' = [poll EXCEPT ![p] = z]
    BY <1>2
<1>6. fresh \in SUBSET Names /\ IsFiniteSet(fresh)
    <2>1. fresh \in SUBSET Names
        BY <1>1 DEF PollRec
    <2> HIDE DEF fresh
    <2>2. QED
        BY <2>1, NamesAssumption, FS_Subset
<1>7. \A n \in Names : n \in q.cand /\ ~(q.gated[n] > 0) /\ n \notin ToSet(carry) => n \in fresh
    BY DEF Support
<1> HIDE DEF q, fresh
<1>8. f \in Seq(fresh) /\ Len(f) = Cardinality(fresh) /\ Cardinality(fresh) \in Nat /\ fresh \subseteq ToSet(f)
    BY <1>6, ListingIs
<1>9. Len(carry) \in Nat
    BY <1>4
<1>10. nc \in 0 .. Len(carry) /\ nf \in 0 .. Len(f)
    <2>1. nc = Min({Len(carry), MaxChecks \div 2}) /\ nf = Min({Cardinality(fresh), MaxChecks - nc})
        OBVIOUS
    <2> HIDE DEF nc, nf
    <2>2. QED
        BY <1>8, <1>9, <2>1, SharesAre
<1> HIDE DEF nc, nf
<1>11. /\ SubSeq(carry, 1, nc) \in Seq(Names) /\ SubSeq(carry, nc + 1, Len(carry)) \in Seq(Names)
       /\ ToSet(carry) \subseteq taken \union ToSet(SubSeq(carry, nc + 1, Len(carry)))
       /\ taken \subseteq Names
    BY <1>4, <1>10, CutKeeps
<1>12. /\ SubSeq(f, nf + 1, Len(f)) \in Seq(fresh) /\ ToSet(SubSeq(f, 1, nf)) \subseteq fresh
       /\ ToSet(f) \subseteq ToSet(SubSeq(f, 1, nf)) \union ToSet(SubSeq(f, nf + 1, Len(f)))
    BY <1>8, <1>10, CutKeeps
<1>13. SubSeq(f, nf + 1, Len(f)) \in Seq(Names)
    BY <1>6, <1>12
<1>14. /\ deferred \in Seq(Names) /\ ToSet(SubSeq(carry, nc + 1, Len(carry))) \subseteq ToSet(deferred)
       /\ ToSet(SubSeq(f, nf + 1, Len(f))) \subseteq ToSet(deferred)
    BY <1>11, <1>13, JoinKeeps
<1>15. names \in SUBSET Names /\ taken \subseteq names /\ taken \in SUBSET Names
    BY <1>6, <1>11, <1>12
<1>16. fresh \subseteq names \union ToSet(deferred) /\ ToSet(carry) \subseteq taken \union ToSet(deferred)
    BY <1>8, <1>11, <1>12, <1>14
<1> HIDE DEF names, deferred, taken
<1>17. carry' \in Seq(Names)
    <2>1. PICK k \in Nat : k = Len(deferred)
        BY <1>14
    <2>2. PICK d \in Int : d = k - CarryMax + 1
        BY <2>1, NpmBoundAssumption
    <2>3. PICK m \in Nat : m = Max({1, d}) /\ m >= 1
        BY <2>2, MaxOfPair
    <2>4. Bounded(deferred) = SubSeq(deferred, m, k)
        BY <2>1, <2>2, <2>3 DEF Bounded
    <2>5. SubSeq(deferred, m, k) \in Seq(Names)
        <3>1. PICK j \in Nat : m = j + 1
            BY <2>3
        <3>2. CarryMax \in Nat
            BY NpmBoundAssumption
        <3>3. m = 1 \/ m = d
            BY <2>2, <2>3, MaxOfPair
        <3>4. j \in 0 .. k
            BY <2>1, <2>2, <3>1, <3>2, <3>3
        <3>5. SubSeq(deferred, j + 1, Len(deferred)) \in Seq(Names)
            <4>1. j \in 0 .. Len(deferred)
                BY <2>1, <3>4
            <4>2. QED
                BY <1>14, <4>1, CutKeeps
        <3>6. QED
            BY <2>1, <3>1, <3>5
    <2>6. QED
        BY <1>5, <2>4, <2>5
<1>18. /\ excused' \in [Names -> Nat] /\ boot <= boot'
       /\ \A n \in Names : scanned[n] <= scanned'[n] /\ checked[n] <= checked'[n] /\ excused[n] <= excused'[n]
       /\ \A n \in Names : n \in ToSet(deferred) \ ToSet(carry') => LastChange[n] <= excused'[n]
    BY <1>3, <1>4, <1>5, GivingUpIs
<1>19. /\ q.todo = {} /\ q.taken = {} /\ q.hits = Zero /\ q.resolved = Zero
    BY <1>1 DEF Shape
<1>20. /\ r \in PollRec /\ r.cand = {} /\ r.todo = names /\ r.taken = taken /\ r.hits = Zero /\ r.resolved = Zero
       /\ r.gated = q.gated /\ r.max = q.max
    BY <1>1, <1>15, <1>19 DEF PollRec
<1> HIDE DEF r
<1>21. /\ z \in PollRec /\ Shape(z) /\ z.gated = q.gated /\ z.max = q.max /\ z.resolved = Zero
       /\ (names # {} => z.pc = "check" /\ z.todo = names /\ z.taken = taken)
    <2>1. CASE names = {}
        <3>1. r.todo = {}
            BY <1>20, <2>1
        <3>2. AfterChecks(r) \in PollRec /\ Kept(r, AfterChecks(r)) /\ Shape(AfterChecks(r)) /\ AfterChecks(r).resolved = Zero
            BY <1>20, <3>1, AfterChecksKeeps
        <3>3. QED
            BY <1>20, <2>1, <3>2 DEF Kept
    <2>2. CASE names # {}
        <3> DEFINE y == [r EXCEPT !.pc = "check"]
        <3>1. /\ y \in PollRec /\ y.pc = "check" /\ y.todo = names /\ y.taken = taken /\ y.cand = {} /\ y.hits = Zero
              /\ y.resolved = Zero /\ y.gated = q.gated /\ y.max = q.max
            BY <1>20 DEF PollRec, Steps
        <3>2. z = y
            BY <2>2
        <3> HIDE DEF y, z
        <3>3. Shape(y)
            BY <1>15, <3>1 DEF Shape
        <3>4. QED
            BY <3>1, <3>2, <3>3
    <2>3. QED
        BY <2>1, <2>2
<1> HIDE DEF z
<1>22. NpmFrame'
    BY <1>3, <1>4, <1>5, <1>17, <1>18, <1>21 DEF NpmFrame
<1>23. \A n \in Names : n \in ToSet(deferred) => n \in ToSet(carry') \/ change[n].seq <= excused'[n]
    BY <1>4, <1>18
<1>24. \A n \in Names : n \in taken => Flight(z, n, change[n].seq)
    BY <1>15, <1>21 DEF Flight
<1>25. Safe \subseteq Safe'
    <2>1. \A n \in Names : ~Flight(poll[p], n, change[n].seq)
        BY <1>19 DEF Flight, q
    <2>2. \A n \in Names : n \in ToSet(carry) =>
             n \in ToSet(carry') \/ Flight(z, n, change[n].seq) \/ change[n].seq <= excused'[n]
        BY <1>16, <1>23, <1>24
    <2>3. QED
        BY <1>3, <1>4, <1>5, <1>18, <1>22, <2>1, <2>2, SafeStays
<1>26. Plain' = Plain
    BY <1>3 DEF Plain, Listed, listVars
<1>27. ASSUME NEW n \in Names, LastChange[n] <= z.max PROVE n \in Safe' \/ Pending(z, n, LastChange[n], Plain')
    <2>0. z.resolved[n] = 0 /\ q.gated[n] <= LastChange[n]
        BY <1>1, <1>21, ZeroIs DEF NpmSound
    <2>1. \/ n \in Safe \/ (q.gated[n] > 0 /\ q.gated[n] <= LastChange[n]) \/ (n \in Plain /\ n \in q.cand)
          \/ 0 >= LastChange[n]
        BY <1>1, <1>19, <1>21, <1>27, ZeroIs DEF NpmSound, Pending, Gated
    <2>2. CASE n \in Safe \/ 0 >= LastChange[n]
        <3>1. n \in Safe
            BY <1>4, <2>2, ZeroSafe
        <3>2. QED
            BY <1>25, <3>1
    <2>3. CASE q.gated[n] > 0
        BY <1>21, <2>0, <2>3 DEF Pending, Gated
    <2>4. CASE n \in Plain /\ n \in q.cand /\ ~(q.gated[n] > 0)
        <3>1. CASE n \in ToSet(carry)
            <4>1. n \in Safe
                BY <2>4, <3>1 DEF Safe
            <4>2. QED
                BY <1>25, <4>1
        <3>2. CASE n \notin ToSet(carry)
            <4>1. n \in names \/ n \in ToSet(deferred)
                BY <1>7, <1>16, <2>4, <3>2
            <4>2. CASE n \in names
                BY <1>21, <1>26, <2>4, <4>2 DEF Pending
            <4>3. CASE n \in ToSet(deferred)
                BY <1>3, <1>23, <1>26, <2>4, <4>3 DEF Safe
            <4>4. QED
                BY <4>1, <4>2, <4>3
        <3>3. QED
            BY <3>1, <3>2
    <2>5. QED
        BY <2>1, <2>2, <2>3, <2>4
<1>28. NpmSound(z, LastChange, Safe', Plain') /\ z.max <= UpdateSeq
    BY <1>1, <1>21, <1>27 DEF NpmSound
<1>29. cursor' <= UpdateSeq /\ SafeTo(cursor', LastChange, Safe')
    BY <1>3, <1>4, <1>25 DEF SafeTo
<1>30. known \subseteq known'
    BY <1>3
<1>31. QED
    BY <1>3, <1>5, <1>21, <1>22, <1>25, <1>28, <1>29, <1>30, NpmPollMoves

\* Another writer learns of a name, or nothing happens.
LEMMA NpmUntouched ==
    ASSUME NpmInv, UNCHANGED <<cursor, listVars, npmOwn>>, known \subseteq known'
    PROVE  NpmInv'
<1>1. UNCHANGED <<change, boot, poll, carry, scanned, checked, excused>>
    BY DEF npmOwn
<1>2. NpmFrame' /\ LastChange' = LastChange /\ UpdateSeq' = UpdateSeq
    BY <1>1 DEF NpmInv, NpmFrame, LastChange, UpdateSeq
<1>3. Plain \subseteq Plain'
    BY PlainStays
<1>4. Safe \subseteq Safe'
    BY <1>1, <1>3 DEF Safe, listVars
<1>5. SafeTo(cursor', LastChange', Safe') /\ cursor' <= UpdateSeq'
    BY <1>2, <1>4 DEF NpmInv, SafeTo
<1>6. ASSUME NEW p \in Polls PROVE poll'[p].max <= UpdateSeq' /\ NpmSound(poll'[p], LastChange', Safe', Plain')
    <2>1. poll[p].max <= UpdateSeq /\ NpmSound(poll[p], LastChange, Safe, Plain)
        BY DEF NpmInv
    <2>2. NpmSound(poll[p], LastChange, Safe', Plain')
        BY <1>3, <1>4, <2>1, NpmSoundStays
    <2>3. QED
        BY <1>1, <1>2, <2>1, <2>2
<1>7. QED
    BY <1>2, <1>5, <1>6 DEF NpmInv

LEMMA NpmStarts == NpmInit => NpmInv
<1> SUFFICES ASSUME NpmInit PROVE NpmInv
    OBVIOUS
<1>1. /\ cursor \in {NoCursor, 0} /\ boot = 0 /\ carry = <<>> /\ poll = [p \in Polls |-> IdlePoll]
      /\ scanned = Zero /\ checked = Zero /\ excused = Zero
      /\ change \in [Names -> [seq : Seqs, deleted : {FALSE}]]
    BY DEF NpmInit, IngestInit
<1>2. change \in [Names -> [seq : Nat, deleted : BOOLEAN]] /\ \A n \in Names : change[n].seq <= MaxSeq
    <2>1. MaxSeq \in Nat
        BY NpmBoundAssumption
    <2>2. \A x \in [seq : Seqs, deleted : {FALSE}] : x \in [seq : Nat, deleted : BOOLEAN] /\ x.seq <= MaxSeq
        <3>1. \A k \in Seqs : k \in Nat /\ k <= MaxSeq
            BY <2>1 DEF Seqs
        <3>2. {FALSE} \subseteq BOOLEAN
            BY Zenon
        <3>3. ASSUME NEW x \in [seq : Seqs, deleted : {FALSE}] PROVE x \in [seq : Nat, deleted : BOOLEAN] /\ x.seq <= MaxSeq
            <4>1. x.seq \in Seqs /\ x.deleted \in {FALSE} /\ x = [seq |-> x.seq, deleted |-> x.deleted]
                OBVIOUS
            <4>2. x.seq \in Nat /\ x.seq <= MaxSeq
                BY <3>1, <4>1
            <4>3. x.deleted \in BOOLEAN
                BY <3>2, <4>1
            <4>4. QED
                BY <4>1, <4>2, <4>3
        <3>4. QED
            BY <3>3
    <2>3. QED
        BY <1>1, <2>2
<1>3. NpmFrame
    BY <1>1, <1>2, ZeroIs, IdlePollIs DEF NpmFrame
<1>4. UpdateSeq \in Nat
    BY <1>3, UpdateSeqIs
<1>5. NpmSound(IdlePoll, LastChange, Safe, Plain) /\ IdlePoll.max <= UpdateSeq
    BY <1>3, <1>4, IdleNpmSound, IdlePollIs
<1>6. cursor <= UpdateSeq
    BY <1>1, <1>4 DEF NoCursor
<1>7. SafeTo(cursor, LastChange, Safe)
    <2>1. \A n \in Names : LastChange[n] \in Nat
        BY <1>3, LastChangeIs
    <2>2. \A n \in Names : LastChange[n] <= cursor => LastChange[n] <= 0
        BY <1>1, <2>1 DEF NoCursor
    <2>3. QED
        BY <1>3, <2>2, ZeroSafe DEF SafeTo
<1>8. QED
    BY <1>1, <1>3, <1>5, <1>6, <1>7 DEF NpmInv

LEMMA NpmSteps == NpmInv /\ [NpmNext]_npmVars => NpmInv'
<1> SUFFICES ASSUME NpmInv, [NpmNext]_npmVars PROVE NpmInv'
    OBVIOUS
<1>1. ASSUME NEW n \in Names, Publish(n) PROVE NpmInv'
    BY <1>1, ChangeGrows DEF Publish
<1>2. ASSUME NEW n \in Names, Unpublish(n) PROVE NpmInv'
    BY <1>2, ChangeGrows DEF Unpublish
<1>3. ASSUME NEW p \in Polls, NpmStep(p) PROVE NpmInv'
    BY <1>3, NpmBegins, NpmBootstraps, NpmPagesOver, NpmGates, NpmSplits, NpmChecks, NpmResolves, NpmEnqueues,
       NpmHits, NpmAdvances DEF NpmStep
<1>4. CASE NpmOthers \/ UNCHANGED npmVars
    <2>1. UNCHANGED <<cursor, listVars, npmOwn>> /\ known \subseteq known'
        BY <1>4 DEF NpmOthers, OthersEnqueue, Learn, npmVars, sharedVars
    <2>2. QED
        BY <2>1, NpmUntouched
<1>5. QED
    BY <1>1, <1>2, <1>3, <1>4, NpmAborts, NpmRestarts DEF NpmNext

\* However polls overlap, fail and restart, and whatever resolves or not, no change is lost behind
\* the cursor poll_changes_once saves, at any page size, check budget and carry-over.
THEOREM NpmLosesNothing == NpmSpec => []NpmNothingLost
<1>1. NpmInv => NpmNothingLost
    <2> SUFFICES ASSUME NpmInv, NEW n \in Names, change[n].seq > boot, change[n].seq <= cursor,
                        change[n].seq > excused[n], ~change[n].deleted, exclusive => n \in focus
                 PROVE  \/ scanned[n] >= change[n].seq
                        \/ /\ ~Listed(n) /\ n \in known
                           /\ checked[n] >= change[n].seq \/ n \in ToSet(carry) \/ InFlight(n)
        BY DEF NpmNothingLost
    <2>1. /\ change[n].seq \in Nat /\ boot \in Nat /\ excused[n] \in Nat /\ scanned[n] \in Nat
          /\ checked[n] \in Nat /\ LastChange[n] = change[n].seq
        BY LastChangeIs DEF NpmInv, NpmFrame
    <2>2. n \in Safe
        BY <2>1 DEF NpmInv, SafeTo
    <2>3. QED
        BY <2>1, <2>2 DEF Safe, Plain, InFlight, Flight
<1>2. QED
    BY <1>1, NpmStarts, NpmSteps, PTL DEF NpmSpec

-----------------------------------------------------------------------------
(* The types of what the pollers share                                     *)

\* The fault budget, however a step draws on it.
Budgeted == errors \in 0 .. MaxErrors
SharedFits ==
    /\ known \subseteq Names /\ focus \subseteq Names /\ watchlist \subseteq Names /\ exclusive \in BOOLEAN
    /\ booted \in BOOLEAN /\ Budgeted /\ restarts \in 0 .. MaxRestarts

LEMMA SharedTyped == IngestTypeOK <=> cursor \in Nat \union {NoCursor} /\ SharedFits
BY DEF IngestTypeOK, SharedFits, Budgeted

LEMMA FaultBudgeted == Budgeted /\ Fault => Budgeted'
<1>1. MaxErrors \in Nat
    BY IngestBoundAssumption
<1>2. QED
    BY <1>1 DEF Budgeted, Fault

LEMMA DropsBudgeted ==
    ASSUME NEW dropped, IsFiniteSet(dropped), Budgeted, errors + Cardinality(dropped) <= MaxErrors,
           errors' = errors + Cardinality(dropped)
    PROVE  Budgeted'
<1>1. MaxErrors \in Nat
    BY IngestBoundAssumption
<1>2. Cardinality(dropped) \in Nat
    BY FS_CardinalityType
<1>3. QED
    BY <1>1, <1>2 DEF Budgeted

LEMMA NamesFinite == \A S \in SUBSET Names : IsFiniteSet(S)
BY NamesAssumption, FS_Subset

LEMMA BeginTyped == \A p \in Polls : booted \in BOOLEAN /\ MayBegin(p) => booted' \in BOOLEAN
BY DEF MayBegin

LEMMA LearnTyped == \A S \in SUBSET Names : known \subseteq Names /\ Learn(S) => known' \subseteq Names
BY DEF Learn

LEMMA DeathTyped == restarts \in 0 .. MaxRestarts /\ ProcessDies => restarts' \in 0 .. MaxRestarts /\ booted' \in BOOLEAN
<1>1. MaxRestarts \in Nat
    BY IngestBoundAssumption
<1>2. restarts \in 0 .. MaxRestarts /\ restarts < MaxRestarts => restarts + 1 \in 0 .. MaxRestarts
    BY <1>1
<1>3. QED
    BY <1>2 DEF ProcessDies

LEMMA OthersTyped == \A n \in Names : SharedFits /\ OthersEnqueue(n) => SharedFits'
BY LearnTyped DEF OthersEnqueue, SharedFits, Budgeted, listVars

\* Steps that leave the lists and the restarts alone.
LEMMA PollTyped ==
    ASSUME SharedFits, UNCHANGED <<listVars, restarts>>, known' \subseteq Names, booted' \in BOOLEAN, Budgeted'
    PROVE  SharedFits'
BY DEF SharedFits, listVars

-----------------------------------------------------------------------------
(* The feeds of crates.io                                                  *)

RssRec == [pc : {"idle", "updates", "resolve", "gate", "anomaly"}, new : SUBSET Crates, resolved : SUBSET Crates,
           bumped : SUBSET Crates, suspects : SUBSET Crates]
ReconcileRec == [pc : {"idle", "enqueue"}, items : SUBSET Crates]
RssFits(r) == r.resolved \subseteq r.new /\ (r.pc \in {"updates", "resolve"} => r.resolved = {})

CratesInv ==
    /\ SharedFits
    /\ crates \in Seq(Crates) /\ updates \in Seq(Crates)
    /\ rss \in [Polls -> RssRec] /\ reconcile \in ReconcileRec
    /\ \A p \in Polls : RssFits(rss[p])
    /\ crateQueue \subseteq Crates \X {"latest", "concrete"}

LEMMA SeqElements == \A T : \A s \in Seq(T) : ToSet(s) \subseteq T
<1> SUFFICES ASSUME NEW T, NEW s \in Seq(T) PROVE ToSet(s) \subseteq T
    OBVIOUS
<1>1. \A i \in DOMAIN s : s[i] \in T
    OBVIOUS
<1>2. QED
    BY <1>1 DEF ToSet

LEMMA CratesTyped == cursor \in Nat \union {NoCursor} /\ CratesInv => CratesTypeOK
<1> SUFFICES ASSUME cursor \in Nat \union {NoCursor}, CratesInv PROVE CratesTypeOK
    OBVIOUS
<1>1. IngestTypeOK
    BY SharedTyped DEF CratesInv
<1>2. ToSet(crates) \subseteq Crates /\ ToSet(updates) \subseteq Crates
    BY SeqElements DEF CratesInv
<1>3. ASSUME NEW p \in Polls
      PROVE  /\ rss[p].pc \in {"idle", "updates", "resolve", "gate", "anomaly"}
             /\ rss[p].resolved \subseteq rss[p].new /\ rss[p].new \union rss[p].bumped \subseteq Crates
    <2>1. rss[p] \in RssRec /\ RssFits(rss[p])
        BY DEF CratesInv
    <2>2. QED
        BY <2>1 DEF RssRec, RssFits
<1>4. reconcile.pc \in {"idle", "enqueue"} /\ reconcile.items \subseteq Crates
    BY DEF CratesInv, ReconcileRec
<1>5. QED
    BY <1>1, <1>2, <1>3, <1>4 DEF CratesTypeOK, CratesInv

LEMMA IdleRssIs == IdleRss \in RssRec /\ RssFits(IdleRss) /\ IdleReconcile \in ReconcileRec
BY DEF IdleRss, RssRec, RssFits, IdleReconcile, ReconcileRec

LEMMA CratesStart == CratesInit => CratesInv
<1> SUFFICES ASSUME CratesInit PROVE CratesInv
    OBVIOUS
<1>1. SharedFits
    BY DEF CratesInit, IngestInit, SharedFits, Budgeted
<1>2. /\ crates = <<>> /\ updates = <<>> /\ rss = [p \in Polls |-> IdleRss] /\ reconcile = IdleReconcile
      /\ crateQueue = {}
    BY DEF CratesInit
<1>3. crates \in Seq(Crates) /\ updates \in Seq(Crates)
    BY <1>2
<1>4. QED
    BY <1>1, <1>2, <1>3, IdleRssIs DEF CratesInv

\* The newest of a feed are of the feed.
LEMMA NewerIs ==
    ASSUME NEW s \in Seq(Crates), NEW k \in Nat
    PROVE  Newer(s, k) \in SUBSET Crates
<1>1. PICK m \in Nat : m = Len(s)
    OBVIOUS
<1>2. PICK a \in Nat : a = Max({1, m - k + 1}) /\ a - 1 \in 0 .. m
    BY <1>1, MaxOfPair
<1>3. SubSeq(s, a, m) \in Seq(Crates)
    <2>1. SubSeq(s, (a - 1) + 1, m) \in Seq(Crates)
        BY <1>1, <1>2, CutKeeps
    <2>2. (a - 1) + 1 = a
        BY <1>2
    <2>3. QED
        BY <2>1, <2>2
<1>4. ToSet(SubSeq(s, a, m)) \subseteq Crates
    BY <1>3, SeqElements
<1>5. QED
    BY <1>1, <1>2, <1>4 DEF Newer

LEMMA CratesFinite == \A S \in SUBSET (Crates \X {"latest", "concrete"}) : IsFiniteSet(S)
<1>1. IsFiniteSet(Crates)
    BY CratesAssumption, NamesFinite
<1>2. ASSUME NEW v PROVE IsFiniteSet(Crates \X {v})
    <2> DEFINE f == [n \in Crates |-> <<n, v>>]
    <2>1. f \in Surjection(Crates, Crates \X {v})
        BY DEF Surjection
    <2> HIDE DEF f
    <2>2. QED
        BY <1>1, <2>1, FS_Surjection
<1>3. IsFiniteSet((Crates \X {"latest"}) \union (Crates \X {"concrete"}))
    BY <1>2, FS_Union
<1>4. Crates \X {"latest", "concrete"} = (Crates \X {"latest"}) \union (Crates \X {"concrete"})
    OBVIOUS
<1>5. QED
    BY <1>3, <1>4, FS_Subset

LEMMA EnqueueCratesTyped ==
    ASSUME NEW S \in SUBSET (Crates \X {"latest", "concrete"}), EnqueueCrates(S), CratesInv
    PROVE  /\ Budgeted' /\ known' \subseteq Names
           /\ crateQueue' \subseteq Crates \X {"latest", "concrete"}
<1>1. PICK dropped \in SUBSET S :
        /\ errors + Cardinality(dropped) <= MaxErrors
        /\ errors' = errors + Cardinality(dropped)
        /\ crateQueue' = crateQueue \union (S \ dropped)
        /\ Learn({e[1] : e \in S \ dropped})
    BY DEF EnqueueCrates
<1>2. IsFiniteSet(dropped)
    BY CratesFinite
<1>3. Budgeted'
    BY <1>1, <1>2, DropsBudgeted DEF CratesInv, SharedFits
<1>4. {e[1] : e \in S \ dropped} \in SUBSET Names
    BY CratesAssumption
<1>5. known' \subseteq Names
    BY <1>1, <1>4, LearnTyped DEF CratesInv, SharedFits
<1>6. crateQueue' \subseteq Crates \X {"latest", "concrete"}
    BY <1>1 DEF CratesInv
<1>7. QED
    BY <1>3, <1>5, <1>6

\* A poll of the feeds moves on to r.
LEMMA RssMoves ==
    ASSUME CratesInv, NEW p \in Polls, NEW r \in RssRec, RssFits(r), rss' = [rss EXCEPT ![p] = r],
           SharedFits', UNCHANGED <<crates, updates, reconcile>>,
           crateQueue' \subseteq Crates \X {"latest", "concrete"}
    PROVE  CratesInv'
<1>1. rss' \in [Polls -> RssRec] /\ \A o \in Polls : rss'[o] = IF o = p THEN r ELSE rss[o]
    BY DEF CratesInv
<1>2. \A o \in Polls : RssFits(rss'[o])
    BY <1>1 DEF CratesInv
<1>3. QED
    BY <1>1, <1>2 DEF CratesInv

LEMMA CratesSteps == CratesInv /\ CratesNext => CratesInv' /\ cursor' = cursor
<1> SUFFICES ASSUME CratesInv, CratesNext PROVE CratesInv' /\ cursor' = cursor
    OBVIOUS
<1>0. /\ SharedFits /\ Budgeted /\ known \subseteq Names /\ booted \in BOOLEAN
      /\ crates \in Seq(Crates) /\ updates \in Seq(Crates)
      /\ {RssWindow, ApiWindow} \subseteq Nat /\ crateQueue \subseteq Crates \X {"latest", "concrete"}
    BY CratesBoundAssumption DEF CratesInv, SharedFits
<1>a. \A p \in Polls : rss[p] \in RssRec /\ RssFits(rss[p])
    BY DEF CratesInv
<1>1. ASSUME NEW n \in Crates, NewCrate(n) \/ NewVersion(n) PROVE CratesInv' /\ cursor' = cursor
    <2>1. crates' \in Seq(Crates) /\ updates' \in Seq(Crates)
        <3>1. Append(crates, n) \in Seq(Crates) /\ Append(updates, n) \in Seq(Crates)
            BY <1>0
        <3>2. QED
            BY <1>0, <1>1, <3>1, Zenon DEF NewCrate, NewVersion
    <2>2. UNCHANGED <<sharedVars, rss, reconcile, crateQueue>>
        BY <1>1 DEF NewCrate, NewVersion
    <2>3. SharedFits'
        BY <1>0, <2>2 DEF sharedVars, listVars, SharedFits, Budgeted
    <2>4. QED
        BY <2>1, <2>2, <2>3 DEF CratesInv, sharedVars
<1>2. ASSUME NEW p \in Polls, ReadNewCrates(p) PROVE CratesInv' /\ cursor' = cursor
    <2>1. PICK got \in {Newer(crates, RssWindow), {}} :
             /\ ReadFeed(Newer(crates, RssWindow), got)
             /\ rss' = [rss EXCEPT ![p] = [IdleRss EXCEPT !.pc = "updates", !.new = got]]
        BY <1>2 DEF ReadNewCrates
    <2>2. got \in SUBSET Crates
        BY <1>0, <2>1, NewerIs
    <2> DEFINE r == [IdleRss EXCEPT !.pc = "updates", !.new = got]
    <2>3. r \in RssRec /\ RssFits(r)
        BY <2>2 DEF IdleRss, RssRec, RssFits
    <2>4. rss' = [rss EXCEPT ![p] = r]
        BY <2>1
    <2> HIDE DEF r
    <2>5. Budgeted'
        BY <1>0, <2>1, FaultBudgeted DEF ReadFeed, Budgeted
    <2>6. UNCHANGED <<cursor, known, listVars, restarts, crates, updates, reconcile, crateQueue>> /\ booted' \in BOOLEAN
        BY <1>0, <1>2, BeginTyped DEF ReadNewCrates
    <2>7. SharedFits'
        BY <1>0, <2>5, <2>6, PollTyped
    <2>8. QED
        BY <1>0, <2>3, <2>4, <2>6, <2>7, RssMoves
<1>3. ASSUME NEW p \in Polls, ReadVersions(p) PROVE CratesInv' /\ cursor' = cursor
    <2>1. PICK got \in {Newer(updates, RssWindow), {}} :
             /\ ReadFeed(Newer(updates, RssWindow), got)
             /\ rss' = [rss EXCEPT ![p].bumped = got, ![p].new = @ \ Queued,
                              ![p].pc = IF rss[p].new \subseteq Queued THEN "gate" ELSE "resolve"]
        BY <1>3 DEF ReadVersions
    <2>2. got \in SUBSET Crates
        BY <1>0, <2>1, NewerIs
    <2>3. PICK q \in RssRec : q = rss[p] /\ q.pc = "updates" /\ q.resolved = {}
        BY <1>3, <1>a DEF ReadVersions, RssFits
    <2> DEFINE next == IF q.new \subseteq Queued THEN "gate" ELSE "resolve"
               r == [q EXCEPT !.bumped = got, !.new = @ \ Queued, !.pc = next]
    <2>4. r \in RssRec /\ RssFits(r)
        BY <2>2, <2>3 DEF RssRec, RssFits
    <2>5. rss' = [rss EXCEPT ![p] = r]
        BY <2>1, <2>3 DEF CratesInv
    <2> HIDE DEF r
    <2>6. Budgeted'
        BY <1>0, <2>1, FaultBudgeted DEF ReadFeed, Budgeted
    <2>7. UNCHANGED <<cursor, known, listVars, booted, restarts, crates, updates, reconcile, crateQueue>>
        BY <1>3 DEF ReadVersions
    <2>8. SharedFits'
        BY <1>0, <2>6, <2>7, PollTyped
    <2>9. QED
        BY <1>0, <2>4, <2>5, <2>7, <2>8, RssMoves
<1>4. ASSUME NEW p \in Polls, ResolveNew(p) PROVE CratesInv' /\ cursor' = cursor
    <2>1. PICK q \in RssRec : q = rss[p]
        BY <1>a
    <2>2. PICK got \in SUBSET q.new : rss' = [rss EXCEPT ![p].resolved = got, ![p].pc = "gate"]
        BY <1>4, <2>1 DEF ResolveNew
    <2> DEFINE r == [q EXCEPT !.resolved = got, !.pc = "gate"]
    <2>3. r \in RssRec /\ RssFits(r)
        BY DEF RssRec, RssFits
    <2>4. rss' = [rss EXCEPT ![p] = r]
        BY <2>1, <2>2
    <2> HIDE DEF r
    <2>5. UNCHANGED <<cursor, sharedVars, crates, updates, reconcile, crateQueue>>
        BY <1>4 DEF ResolveNew, sharedVars
    <2>6. SharedFits'
        BY <1>0, <2>5 DEF sharedVars, listVars, SharedFits, Budgeted
    <2>7. QED
        BY <1>0, <2>3, <2>4, <2>5, <2>6, RssMoves
<1>5. ASSUME NEW p \in Polls, GateRss(p) PROVE CratesInv' /\ cursor' = cursor
    <2>1. PICK q \in RssRec : q = rss[p]
        BY <1>a
    <2> DEFINE new == {n \in q.new : AdmittedNew(n)}
               bumped == {n \in q.bumped : Listed(n)}
               rest == IF exclusive THEN {} ELSE q.bumped \ bumped
               S == (bumped \union (new \intersect q.resolved)) \X {"concrete"}
                        \union (new \ q.resolved) \X {"latest"}
               b == [IdleRss EXCEPT !.pc = "anomaly", !.suspects = rest]
    <2>2. EnqueueCrates(S) /\ rss' = [rss EXCEPT ![p] = IF rest = {} THEN IdleRss ELSE b]
        BY <1>5, <2>1 DEF GateRss
    <2>3. new \subseteq Crates /\ bumped \subseteq Crates /\ rest \subseteq Crates
        BY DEF RssRec
    <2>4. b \in RssRec /\ RssFits(b)
        <3> HIDE DEF rest
        <3>1. QED
            BY <2>3 DEF IdleRss, RssRec, RssFits
    <2>5. S \in SUBSET (Crates \X {"latest", "concrete"})
        <3> HIDE DEF new, bumped
        <3>1. QED
            BY <2>3
    <2> HIDE DEF S, b, rest
    <2>6. Budgeted' /\ known' \subseteq Names /\ crateQueue' \subseteq Crates \X {"latest", "concrete"}
        BY <2>2, <2>5, EnqueueCratesTyped
    <2>7. PICK r \in RssRec : RssFits(r) /\ rss' = [rss EXCEPT ![p] = r]
        BY <2>2, <2>4, IdleRssIs
    <2>8. UNCHANGED <<cursor, listVars, booted, restarts, crates, updates, reconcile>>
        BY <1>5 DEF GateRss
    <2>9. SharedFits'
        BY <1>0, <2>6, <2>8, PollTyped
    <2>10. QED
        BY <2>6, <2>7, <2>8, <2>9, RssMoves
<1>6. ASSUME NEW p \in Polls, RssAnomalies(p) PROVE CratesInv' /\ cursor' = cursor
    <2>1. PICK q \in RssRec : q = rss[p]
        BY <1>a
    <2>2. PICK hits \in SUBSET q.suspects : EnqueueCrates(hits \X {"concrete"})
        BY <1>6, <2>1 DEF RssAnomalies
    <2>3. hits \X {"concrete"} \in SUBSET (Crates \X {"latest", "concrete"})
        BY DEF RssRec
    <2>4. Budgeted' /\ known' \subseteq Names /\ crateQueue' \subseteq Crates \X {"latest", "concrete"}
        BY <2>2, <2>3, EnqueueCratesTyped
    <2>5. rss' = [rss EXCEPT ![p] = IdleRss] /\ UNCHANGED <<cursor, listVars, booted, restarts, crates, updates, reconcile>>
        BY <1>6 DEF RssAnomalies
    <2>6. SharedFits'
        BY <1>0, <2>4, <2>5, PollTyped
    <2>7. QED
        BY <2>4, <2>5, <2>6, IdleRssIs, RssMoves
<1>7. ASSUME NEW p \in Polls, RssAborts(p) PROVE CratesInv' /\ cursor' = cursor
    <2>1. /\ rss' = [rss EXCEPT ![p] = IdleRss]
          /\ UNCHANGED <<cursor, known, listVars, booted, restarts, crates, updates, reconcile, crateQueue>>
        BY <1>7 DEF RssAborts
    <2>2. Budgeted'
        BY <1>0, <1>7, FaultBudgeted DEF RssAborts
    <2>3. SharedFits'
        BY <1>0, <2>1, <2>2, PollTyped
    <2>4. QED
        BY <1>0, <2>1, <2>3, IdleRssIs, RssMoves
<1>8. ASSUME ReconcileStep \/ ReconcileAborts PROVE CratesInv' /\ cursor' = cursor
    <2>1. reconcile' \in ReconcileRec
        <3>1. CASE FetchNewCrates
            <4>1. PICK k \in 0 .. Min({ApiWindow, Len(crates)}) :
                     reconcile' = IF k = 0 THEN IdleReconcile ELSE [pc |-> "enqueue", items |-> Newer(crates, k)]
                BY <3>1 DEF FetchNewCrates
            <4>2. Newer(crates, k) \in SUBSET Crates
                BY <1>0, NewerIs
            <4>3. QED
                BY <4>1, <4>2, IdleRssIs DEF ReconcileRec
        <3>2. CASE EnqueueMissed \/ ReconcileAborts
            BY <3>2, IdleRssIs DEF EnqueueMissed, ReconcileAborts
        <3>3. QED
            BY <1>8, <3>1, <3>2 DEF ReconcileStep
    <2>2. Budgeted' /\ known' \subseteq Names /\ crateQueue' \subseteq Crates \X {"latest", "concrete"}
        <3>1. CASE EnqueueMissed
            <4>1. {n \in Missed(reconcile.items) : AdmittedNew(n)} \X {"concrete"} \in SUBSET (Crates \X {"latest", "concrete"})
                BY DEF Missed, CratesInv, ReconcileRec
            <4>2. EnqueueCrates({n \in Missed(reconcile.items) : AdmittedNew(n)} \X {"concrete"})
                BY <3>1 DEF EnqueueMissed
            <4>3. QED
                BY <4>1, <4>2, EnqueueCratesTyped
        <3>2. CASE FetchNewCrates
            <4>1. errors' = errors \/ Fault
                BY <3>2 DEF FetchNewCrates
            <4>2. QED
                BY <1>0, <3>2, <4>1, FaultBudgeted DEF FetchNewCrates, Budgeted
        <3>3. CASE ReconcileAborts
            BY <1>0, <3>3, FaultBudgeted DEF ReconcileAborts
        <3>4. QED
            BY <1>8, <3>1, <3>2, <3>3 DEF ReconcileStep
    <2>3. UNCHANGED <<cursor, listVars, booted, restarts, crates, updates, rss>>
        BY <1>8 DEF ReconcileStep, FetchNewCrates, EnqueueMissed, ReconcileAborts
    <2>4. SharedFits'
        BY <1>0, <2>2, <2>3, PollTyped
    <2>5. QED
        BY <2>1, <2>2, <2>3, <2>4 DEF CratesInv
<1>9. ASSUME CratesRestart PROVE CratesInv' /\ cursor' = cursor
    <2>1. /\ rss' = [p \in Polls |-> IdleRss] /\ reconcile' = IdleReconcile /\ ProcessDies
          /\ UNCHANGED <<cursor, known, listVars, errors, crates, updates, crateQueue>>
        BY <1>9 DEF CratesRestart
    <2>2. SharedFits'
        BY <1>0, <2>1, DeathTyped DEF SharedFits, Budgeted, listVars
    <2>3. QED
        BY <2>1, <2>2, IdleRssIs DEF CratesInv
<1>10. QED
    BY <1>1, <1>2, <1>3, <1>4, <1>5, <1>6, <1>7, <1>8, <1>9 DEF CratesNext, RssStep

-----------------------------------------------------------------------------
(* The types of the PyPI poller                                            *)

FeedRec == [pc : {"idle", "packages", "anomaly"}, updates : SUBSET Nat, suspects : SUBSET Nat]
\* What a feed shows are releases of the changelog.
FeedFits(f, log) == \A s \in f.updates \union f.suspects : s \in DOMAIN log /\ log[s].act = "release"

PypiFits ==
    /\ SharedFits /\ Len(changelog) <= MaxLog
    /\ feed \in [Polls -> FeedRec] /\ \A p \in Polls : FeedFits(feed[p], changelog)
    /\ released \subseteq DOMAIN changelog /\ forgone \subseteq DOMAIN changelog

LEMMA ChangelogIs ==
    ASSUME PypiInv
    PROVE  /\ changelog \in Seq(Event) /\ Len(changelog) \in Nat /\ DOMAIN changelog = 1 .. Len(changelog)
           /\ \A s \in DOMAIN changelog : changelog[s] \in Event /\ NameOf(s) \in Names
           /\ \A S \in SUBSET DOMAIN changelog : IsFiniteSet(S)
<1>1. changelog \in Seq(Event) /\ Len(changelog) \in Nat /\ DOMAIN changelog = 1 .. Len(changelog)
    BY DEF PypiInv, PypiFrame
<1>2. \A s \in DOMAIN changelog : changelog[s] \in Event
    BY <1>1
<1>3. \A e \in Event : e.name \in Names
    BY ProjectsAssumption DEF Event
<1>4. IsFiniteSet(1 .. Len(changelog))
    BY <1>1, FS_Interval
<1>5. QED
    BY <1>1, <1>2, <1>3, <1>4, FS_Subset DEF NameOf

LEMMA PypiTyped == PypiInv /\ PypiFits => PypiTypeOK
<1> SUFFICES ASSUME PypiInv, PypiFits PROVE PypiTypeOK
    OBVIOUS
<1>1. PICK k \in Nat : k = Len(changelog) /\ DOMAIN changelog = 1 .. k /\ k <= MaxLog
    BY ChangelogIs DEF PypiFits
<1>2. /\ pypiBoot \in Nat /\ pypiBoot <= k /\ pull \in [Polls -> PullRec]
      /\ \A p \in Polls : pull[p].start <= k /\ pull[p].to <= k
    BY <1>1 DEF PypiInv, PypiFrame
<1>3. MaxLog \in Nat
    BY PypiBoundAssumption
<1>4. IngestTypeOK
    BY SharedTyped DEF PypiInv, PypiFrame, PypiFits
<1>5. pypiBoot \in Serials
    BY <1>1, <1>2, <1>3 DEF Serials
<1>6. ASSUME NEW p \in Polls
      PROVE  pull[p] \in [pc : {"idle", "bootstrap", "fetch", "gate", "save"}, start : Serials, to : Serials]
    <2>1. PICK q \in PullRec : q = pull[p] /\ q.start <= k /\ q.to <= k
        BY <1>2
    <2>2. q.start \in Serials /\ q.to \in Serials
        BY <1>1, <1>3, <2>1 DEF PullRec, Serials
    <2>3. QED
        BY <2>1, <2>2 DEF PullRec
<1>7. pull \in [Polls -> [pc : {"idle", "bootstrap", "fetch", "gate", "save"}, start : Serials, to : Serials]]
    BY <1>2, <1>6
<1>8. DOMAIN changelog \subseteq Serials
    BY <1>1, <1>3 DEF Serials
<1>9. ASSUME NEW p \in Polls
      PROVE  feed[p].pc \in {"idle", "packages", "anomaly"} /\ {feed[p].updates, feed[p].suspects} \subseteq SUBSET Serials
    <2>1. feed[p] \in FeedRec /\ FeedFits(feed[p], changelog)
        BY DEF PypiFits
    <2>2. QED
        BY <1>8, <2>1 DEF FeedRec, FeedFits
<1>10. released \subseteq Serials /\ forgone \subseteq Serials
    BY <1>8 DEF PypiFits
<1>11. QED
    BY <1>1, <1>4, <1>5, <1>7, <1>9, <1>10, ChangelogIs DEF PypiTypeOK

LEMMA IdleFeedIs == IdleFeed \in FeedRec /\ \A log : FeedFits(IdleFeed, log)
BY DEF IdleFeed, FeedRec, FeedFits

LEMMA PypiFitsStart == PypiInit => PypiFits
<1> SUFFICES ASSUME PypiInit PROVE PypiFits
    OBVIOUS
<1>1. SharedFits
    BY DEF PypiInit, IngestInit, SharedFits, Budgeted
<1>2. Len(changelog) <= MaxLog /\ feed = [p \in Polls |-> IdleFeed] /\ released = {} /\ forgone = {}
    BY DEF PypiInit
<1>3. QED
    BY <1>1, <1>2, IdleFeedIs DEF PypiFits

LEMMA EnqueueReleasesTyped ==
    ASSUME PypiInv, PypiFits, NEW S \in SUBSET DOMAIN changelog, NEW skipped \in SUBSET DOMAIN changelog,
           EnqueueReleases(S, skipped)
    PROVE  /\ Budgeted' /\ known' \subseteq Names
           /\ released' \subseteq DOMAIN changelog /\ forgone' \subseteq DOMAIN changelog
<1>1. PICK dropped \in SUBSET S :
        /\ errors + Cardinality(dropped) <= MaxErrors
        /\ errors' = errors + Cardinality(dropped)
        /\ released' = released \union (S \ dropped)
        /\ Learn({NameOf(s) : s \in S \ dropped})
        /\ forgone' = forgone \union dropped \union skipped
    BY DEF EnqueueReleases
<1>2. Budgeted'
    BY <1>1, ChangelogIs, DropsBudgeted DEF PypiFits, SharedFits
<1>3. {NameOf(s) : s \in S \ dropped} \in SUBSET Names
    BY ChangelogIs
<1>4. known' \subseteq Names
    BY <1>1, <1>3, LearnTyped DEF PypiFits, SharedFits
<1>5. QED
    BY <1>1, <1>2, <1>4 DEF PypiFits

\* Steps that leave the changelog alone, with the feed poll p moved on to f.
LEMMA FeedMoves ==
    ASSUME PypiFits, NEW p \in Polls, NEW f \in FeedRec, FeedFits(f, changelog), feed' = [feed EXCEPT ![p] = f],
           changelog' = changelog, SharedFits',
           released' \subseteq DOMAIN changelog, forgone' \subseteq DOMAIN changelog
    PROVE  PypiFits'
<1>1. feed' \in [Polls -> FeedRec] /\ \A o \in Polls : feed'[o] = IF o = p THEN f ELSE feed[o]
    BY DEF PypiFits
<1>2. \A o \in Polls : FeedFits(feed'[o], changelog)
    BY <1>1 DEF PypiFits
<1>3. QED
    BY <1>1, <1>2 DEF PypiFits

LEMMA PypiFitSteps == PypiInv /\ PypiFits /\ PypiNext => PypiFits'
<1> SUFFICES ASSUME PypiInv, PypiFits, PypiNext PROVE PypiFits'
    OBVIOUS
<1>0. /\ SharedFits /\ Budgeted /\ known \subseteq Names /\ booted \in BOOLEAN
      /\ Len(changelog) <= MaxLog /\ released \subseteq DOMAIN changelog /\ forgone \subseteq DOMAIN changelog
    BY DEF PypiFits, SharedFits
<1>a. \A p \in Polls : feed[p] \in FeedRec /\ FeedFits(feed[p], changelog)
    BY DEF PypiFits
<1>1. ASSUME NEW e \in Event, RegistryEvent(e) PROVE PypiFits'
    <2>1. /\ changelog' = Append(changelog, e) /\ Len(changelog) < MaxLog
          /\ UNCHANGED <<sharedVars, feed, released, forgone>>
        BY <1>1 DEF RegistryEvent
    <2>2. PICK k \in Nat : k = Len(changelog) /\ DOMAIN changelog = 1 .. k /\ changelog \in Seq(Event)
        BY ChangelogIs
    <2>3. /\ Len(changelog') = k + 1 /\ DOMAIN changelog' = 1 .. (k + 1)
          /\ \A s \in 1 .. k : s \in 1 .. (k + 1) /\ changelog'[s] = changelog[s]
        BY <2>1, <2>2
    <2>4. Len(changelog') <= MaxLog
        BY <2>1, <2>2, <2>3, PypiBoundAssumption
    <2>5. SharedFits'
        BY <1>0, <2>1 DEF sharedVars, listVars, SharedFits, Budgeted
    <2>6. \A p \in Polls : FeedFits(feed[p], changelog')
        BY <1>a, <2>2, <2>3 DEF FeedFits
    <2>7. released \subseteq DOMAIN changelog' /\ forgone \subseteq DOMAIN changelog'
        BY <1>0, <2>2, <2>3
    <2>8. QED
        BY <2>1, <2>4, <2>5, <2>6, <2>7 DEF PypiFits
<1>2. ASSUME NEW p \in Polls, BeginPull(p) PROVE PypiFits'
    <2>1. UNCHANGED <<known, listVars, errors, restarts, changelog, feed, released, forgone>> /\ booted' \in BOOLEAN
        BY <1>0, <1>2, BeginTyped DEF BeginPull
    <2>2. SharedFits'
        BY <1>0, <2>1, PollTyped DEF Budgeted
    <2>3. QED
        BY <2>1, <2>2 DEF PypiFits
<1>3. ASSUME NEW p \in Polls, BootstrapSerial(p) \/ FetchEntries(p) \/ SaveSerial(p) \/ PullAborts(p) PROVE PypiFits'
    <2>1. UNCHANGED <<known, listVars, booted, restarts, changelog, feed, released, forgone>>
        BY <1>3 DEF BootstrapSerial, FetchEntries, SaveSerial, PullAborts, sharedVars
    <2>2. errors' = errors \/ Fault
        BY <1>3 DEF BootstrapSerial, FetchEntries, SaveSerial, PullAborts, sharedVars
    <2>3. Budgeted'
        BY <1>0, <2>2, FaultBudgeted DEF Budgeted
    <2>4. SharedFits'
        BY <1>0, <2>1, <2>3, PollTyped
    <2>5. QED
        BY <2>1, <2>4 DEF PypiFits
<1>4. ASSUME NEW p \in Polls, GatePull(p) PROVE PypiFits'
    <2>1. PICK r \in PullRec : r = pull[p] /\ r.to <= Len(changelog)
        BY DEF PypiInv, PypiFrame
    <2> DEFINE batch == Releases(r.start + 1 .. r.to)
               admitted == {s \in batch : Listed(NameOf(s)) \/ (~exclusive /\ NewInBatch(s, r.start))}
               skipped == {s \in batch \ admitted : ~Listed(NameOf(s))}
    <2>2. EnqueueReleases(admitted, skipped) /\ UNCHANGED <<listVars, booted, restarts, changelog, feed>>
        BY <1>4, <2>1 DEF GatePull
    <2>3. batch \subseteq DOMAIN changelog
        BY <2>1, ChangelogIs DEF Releases, PullRec
    <2>4. admitted \in SUBSET DOMAIN changelog /\ skipped \in SUBSET DOMAIN changelog
        BY <2>3
    <2> HIDE DEF admitted, skipped
    <2>5. /\ Budgeted' /\ known' \subseteq Names
          /\ released' \subseteq DOMAIN changelog /\ forgone' \subseteq DOMAIN changelog
        BY <2>2, <2>4, EnqueueReleasesTyped
    <2>6. SharedFits'
        BY <1>0, <2>2, <2>5, PollTyped
    <2>7. QED
        BY <2>2, <2>5, <2>6 DEF PypiFits
<1>5. ASSUME NEW p \in Polls, ReadUpdates(p) PROVE PypiFits'
    <2> DEFINE new == Newest(Releases(DOMAIN changelog))
               f == [IdleFeed EXCEPT !.pc = "packages", !.updates = new]
    <2>1. feed' = [feed EXCEPT ![p] = f] /\ UNCHANGED <<sharedVars, changelog, released, forgone>>
        BY <1>5 DEF ReadUpdates
    <2>2. \A s \in new : s \in DOMAIN changelog /\ s \in Nat /\ changelog[s].act = "release"
        BY ChangelogIs DEF Newest, Releases
    <2>3. f \in FeedRec /\ FeedFits(f, changelog)
        <3> HIDE DEF new
        <3>1. QED
            BY <2>2 DEF IdleFeed, FeedRec, FeedFits
    <2> HIDE DEF f
    <2>4. SharedFits'
        BY <1>0, <2>1 DEF sharedVars, listVars, SharedFits, Budgeted
    <2>5. QED
        BY <1>0, <2>1, <2>3, <2>4, FeedMoves
<1>6. ASSUME NEW p \in Polls, GateFeed(p) PROVE PypiFits'
    <2>1. PICK q \in FeedRec : q = feed[p] /\ FeedFits(q, changelog)
        BY <1>a
    <2> DEFINE creations == Newest({s \in DOMAIN changelog : changelog[s].act = "create"})
               admitted == {s \in q.updates : Listed(NameOf(s)) \/ (~exclusive /\ Created(NameOf(s), creations))}
               rest == IF exclusive THEN {} ELSE q.updates \ admitted
               f == [IdleFeed EXCEPT !.pc = "anomaly", !.suspects = rest]
    <2>2. /\ EnqueueReleases(admitted, {}) /\ UNCHANGED <<listVars, booted, restarts, changelog>>
          /\ feed' = [feed EXCEPT ![p] = IF rest = {} THEN IdleFeed ELSE f]
        BY <1>6, <2>1 DEF GateFeed
    <2>3. admitted \in SUBSET DOMAIN changelog /\ rest \subseteq q.updates /\ rest \in SUBSET Nat
        BY <2>1 DEF FeedFits, FeedRec
    <2> HIDE DEF admitted, rest
    <2>4. f \in FeedRec /\ FeedFits(f, changelog)
        BY <2>1, <2>3 DEF IdleFeed, FeedRec, FeedFits
    <2> HIDE DEF f
    <2>5. /\ Budgeted' /\ known' \subseteq Names
          /\ released' \subseteq DOMAIN changelog /\ forgone' \subseteq DOMAIN changelog
        BY <2>2, <2>3, EnqueueReleasesTyped
    <2>6. PICK g \in FeedRec : FeedFits(g, changelog) /\ feed' = [feed EXCEPT ![p] = g]
        BY <2>2, <2>4, IdleFeedIs
    <2>7. SharedFits'
        BY <1>0, <2>2, <2>5, PollTyped
    <2>8. QED
        BY <2>2, <2>5, <2>6, <2>7, FeedMoves
<1>7. ASSUME NEW p \in Polls, FeedAnomalies(p) PROVE PypiFits'
    <2>1. PICK q \in FeedRec : q = feed[p] /\ FeedFits(q, changelog)
        BY <1>a
    <2> DEFINE of(n) == {s \in Releases(DOMAIN changelog) : NameOf(s) = n}
    <2>2. PICK hits \in SUBSET {NameOf(s) : s \in q.suspects} : EnqueueReleases({Max(of(n)) : n \in hits}, {})
        BY <1>7, <2>1 DEF FeedAnomalies
    <2>3. ASSUME NEW n \in hits PROVE Max(of(n)) \in DOMAIN changelog
        <3>1. PICK s \in q.suspects : NameOf(s) = n
            BY <2>2
        <3>2. s \in of(n)
            BY <2>1, <3>1 DEF FeedFits, Releases
        <3>3. PICK k \in Nat : k = Len(changelog) /\ DOMAIN changelog = 1 .. k
            BY ChangelogIs
        <3>4. of(n) \in SUBSET (0 .. k) /\ of(n) \subseteq DOMAIN changelog
            BY <3>3 DEF Releases
        <3> HIDE DEF of
        <3>5. Max(of(n)) \in of(n)
            BY <3>2, <3>4, MaxOfNaturals
        <3>6. QED
            BY <3>4, <3>5
    <2>4. {Max(of(n)) : n \in hits} \in SUBSET DOMAIN changelog
        BY <2>3
    <2> HIDE DEF of
    <2>5. /\ Budgeted' /\ known' \subseteq Names
          /\ released' \subseteq DOMAIN changelog /\ forgone' \subseteq DOMAIN changelog
        BY <2>2, <2>4, EnqueueReleasesTyped
    <2>6. feed' = [feed EXCEPT ![p] = IdleFeed] /\ UNCHANGED <<listVars, booted, restarts, changelog>>
        BY <1>7 DEF FeedAnomalies
    <2>7. SharedFits'
        BY <1>0, <2>5, <2>6, PollTyped
    <2>8. QED
        BY <2>5, <2>6, <2>7, IdleFeedIs, FeedMoves
<1>8. ASSUME NEW p \in Polls, FeedAborts(p) PROVE PypiFits'
    <2>1. /\ feed' = [feed EXCEPT ![p] = IdleFeed] /\ Fault
          /\ UNCHANGED <<known, listVars, booted, restarts, changelog, released, forgone>>
        BY <1>8 DEF FeedAborts
    <2>2. SharedFits'
        BY <1>0, <2>1, FaultBudgeted, PollTyped
    <2>3. QED
        BY <1>0, <2>1, <2>2, IdleFeedIs, FeedMoves
<1>9. ASSUME PypiRestart PROVE PypiFits'
    <2>1. /\ feed' = [p \in Polls |-> IdleFeed] /\ ProcessDies
          /\ UNCHANGED <<known, listVars, errors, changelog, released, forgone>>
        BY <1>9 DEF PypiRestart
    <2>2. SharedFits'
        BY <1>0, <2>1, DeathTyped DEF SharedFits, Budgeted, listVars
    <2>3. QED
        BY <1>0, <2>1, <2>2, IdleFeedIs DEF PypiFits
<1>10. ASSUME PypiOthers PROVE PypiFits'
    <2>1. PICK n \in Names : OthersEnqueue(n) /\ UNCHANGED <<changelog, feed, released, forgone>>
        BY <1>10, ProjectsAssumption DEF PypiOthers, pypiOwn
    <2>2. SharedFits'
        BY <1>0, <2>1, OthersTyped
    <2>3. QED
        BY <2>1, <2>2 DEF PypiFits
<1>11. QED
    BY <1>1, <1>2, <1>3, <1>4, <1>5, <1>6, <1>7, <1>8, <1>9, <1>10 DEF PypiNext

-----------------------------------------------------------------------------
(* The types of the Go poller                                              *)

\* No poll is ahead of the clock by more than the step past a stall; a hold is of an entry.
GoPollFits(q, now) == q.start <= now + 1 /\ q.since <= now + 1 /\ q.held <= now

GoFits ==
    /\ SharedFits /\ Len(index) <= MaxIndex /\ clock <= MaxClock
    /\ \A p \in Polls : GoPollFits(goPoll[p], clock)
    /\ queued \subseteq DOMAIN index /\ gaveUp \subseteq DOMAIN index
    /\ stalled \subseteq 0 .. clock + 1

LEMMA IndexIs ==
    ASSUME GoFrame
    PROVE  /\ index \in Seq(IndexRow) /\ Len(index) \in Nat /\ DOMAIN index = 1 .. Len(index) /\ clock \in Nat
           /\ \A i \in DOMAIN index :
                /\ index[i] \in IndexRow /\ index[i].ts \in Nat /\ index[i].ts <= clock /\ Path(i) \in Names
           /\ \A S \in SUBSET DOMAIN index : IsFiniteSet(S)
<1>1. index \in Seq(IndexRow) /\ clock \in Nat /\ \A i \in DOMAIN index : index[i].ts <= clock
    BY DEF GoFrame, InOrder
<1>2. /\ Len(index) \in Nat /\ DOMAIN index = 1 .. Len(index)
      /\ \A i \in DOMAIN index : index[i] \in IndexRow /\ index[i].ts \in Nat
    BY <1>1, IndexTyped
<1>3. \A r \in IndexRow : r.path \in Names
    BY PathsAssumption DEF IndexRow
<1>4. IsFiniteSet(1 .. Len(index))
    BY <1>2, FS_Interval
<1>5. \A S \in SUBSET DOMAIN index : IsFiniteSet(S)
    BY <1>2, <1>4, FS_Subset
<1>6. QED
    BY <1>1, <1>2, <1>3, <1>5 DEF Path

LEMMA GoTyped == GoInv /\ GoFits => GoTypeOK
<1> SUFFICES ASSUME GoInv, GoFits PROVE GoTypeOK
    OBVIOUS
<1>1. /\ GoFrame /\ clock \in Nat /\ clock <= MaxClock /\ MaxClock \in Nat
      /\ cursor \in Nat \union {NoCursor} /\ goBoot \in Nat /\ goBoot <= clock
      /\ goPoll \in [Polls -> GoRec] /\ SharedFits
    BY GoBoundAssumption DEF GoInv, GoFrame, GoFits
<1>2. \A t \in Nat : t <= clock + 1 => t \in Times
    BY <1>1 DEF Times
<1>3. IngestTypeOK
    BY <1>1, SharedTyped
<1>4. index \in Seq(Entry)
    <2>1. PICK k \in Nat : k = Len(index) /\ DOMAIN index = 1 .. k /\ index \in Seq(IndexRow)
        BY <1>1, IndexIs
    <2>2. ASSUME NEW i \in 1 .. k PROVE index[i] \in Entry
        <3>1. index[i] \in IndexRow /\ index[i].ts \in Nat /\ index[i].ts <= clock
            BY <1>1, <2>1, IndexIs
        <3>2. index[i].ts \in Times
            BY <1>1, <1>2, <3>1
        <3>3. QED
            BY <3>1, <3>2 DEF IndexRow, Entry
    <2>3. index \in [1 .. k -> Entry]
        BY <2>1, <2>2
    <2>4. QED
        BY <2>3
<1>5. ASSUME NEW p \in Polls PROVE goPoll[p] \in GoPoll
    <2>1. PICK q \in GoRec : q = goPoll[p] /\ GoPollFits(q, clock) /\ Reached(q.max, clock, stalled)
        BY <1>1 DEF GoFits, GoInv, PollSound
    <2>2. q.start \in Times /\ q.since \in Times /\ q.max \in Times
        BY <1>2, <2>1 DEF GoRec, GoPollFits, Reached
    <2>3. q.held \in Times \union {NoHold}
        <3>1. q.held \in Nat \union {NoHold} /\ q.held <= clock
            BY <2>1 DEF GoRec, GoPollFits
        <3>2. q.held \in Nat => q.held <= clock + 1
            BY <1>1, <3>1
        <3>3. QED
            BY <1>2, <3>1, <3>2
    <2>4. QED
        BY <2>1, <2>2, <2>3 DEF GoRec, GoPoll
<1>6. goPoll \in [Polls -> GoPoll]
    BY <1>1, <1>5
<1>7. goBoot \in Times /\ clock \in 0 .. MaxClock /\ stalled \subseteq Times
    BY <1>1, <1>2 DEF GoFits
<1>8. Len(index) <= MaxIndex /\ queued \subseteq DOMAIN index /\ gaveUp \subseteq DOMAIN index
    BY DEF GoFits
<1>9. QED
    BY <1>3, <1>4, <1>6, <1>7, <1>8 DEF GoTypeOK

LEMMA IdleGoFits == \A now \in Nat : GoPollFits(IdleGoPoll, now)
BY DEF GoPollFits, IdleGoPoll, NoHold

LEMMA GoFitsStart == GoInit => GoFits
<1> SUFFICES ASSUME GoInit PROVE GoFits
    OBVIOUS
<1>1. SharedFits
    BY DEF GoInit, IngestInit, SharedFits, Budgeted
<1>2. /\ Len(index) <= MaxIndex /\ clock = 0 /\ goPoll = [p \in Polls |-> IdleGoPoll]
      /\ queued = {} /\ gaveUp = {} /\ stalled = {}
    BY DEF GoInit
<1>3. clock <= MaxClock
    BY <1>2, GoBoundAssumption
<1>4. QED
    BY <1>1, <1>2, <1>3, IdleGoFits DEF GoFits

\* A hold is the one before or the timestamp of an entry.
LEMMA HoldFits ==
    ASSUME GoFrame, NEW q \in GoRec, q.held <= clock, NEW S \in SUBSET DOMAIN index
    PROVE  Hold(q, S) <= clock
<1>1. \A i \in DOMAIN index : index[i].ts \in Nat /\ index[i].ts <= clock
    BY IndexIs
<1>2. CASE S = {}
    BY <1>2 DEF Hold
<1>3. CASE S # {}
    <2> DEFINE T == {index[i].ts : i \in S}
    <2>1. T \in SUBSET Nat /\ T # {} /\ \A t \in T : t <= clock
        BY <1>1, <1>3
    <2>2. Hold(q, S) = IF q.held = NoHold \/ Min(T) < q.held THEN Min(T) ELSE q.held
        BY <1>3 DEF Hold
    <2> HIDE DEF T
    <2>3. Min(T) <= clock
        BY <2>1, MinOfNaturals
    <2>4. QED
        BY <2>2, <2>3
<1>4. QED
    BY <1>2, <1>3

\* The poll p moves on to q, the index and the clock stay.
LEMMA GoFitsMove ==
    ASSUME GoInv, GoFits, NEW p \in Polls, NEW q, GoPollFits(q, clock), goPoll' = [goPoll EXCEPT ![p] = q],
           SharedFits', UNCHANGED <<index, clock>>, queued' \subseteq DOMAIN index, gaveUp' \subseteq DOMAIN index,
           stalled' \subseteq 0 .. clock + 1
    PROVE  GoFits'
<1>1. \A o \in Polls : goPoll'[o] = IF o = p THEN q ELSE goPoll[o]
    BY DEF GoInv, GoFrame
<1>2. \A o \in Polls : GoPollFits(goPoll'[o], clock)
    BY <1>1 DEF GoFits
<1>3. QED
    BY <1>2 DEF GoFits

LEMMA GoGateFits ==
    ASSUME GoInv, GoInv', GoFits, NEW p \in Polls, GoGatePage(p)
    PROVE  GoFits'
<1> DEFINE r == goPoll[p]
           page == IndexPage(r.since)
           new == BrandNew(page)
           full == Cardinality(page) = GoPage
           M == MaxCursor(r, page)
           next == M + (IF Stalls(r, page) THEN 1 ELSE 0)
<1>1. /\ GoFrame /\ r \in GoRec /\ r.since \in Nat /\ clock \in Nat /\ GoPollFits(r, clock)
      /\ SharedFits /\ Budgeted /\ known \subseteq Names /\ booted \in BOOLEAN
    BY DEF GoInv, GoFrame, GoRec, GoFits, SharedFits
<1>2. PICK dropped \in SUBSET ((Monitored(page) \ queued) \union new) :
         LET taken == FirstOnes(new \ dropped)
             put == (Monitored(page) \ dropped) \union taken
             held == {i \in new \intersect dropped : Earlier(i, taken) = {}}
         IN /\ errors + Cardinality(dropped) <= MaxErrors
            /\ errors' = errors + Cardinality(dropped)
            /\ Learn({Path(i) : i \in put})
            /\ queued' = queued \union put
            /\ gaveUp' = gaveUp \union dropped
            /\ goPoll' = [goPoll EXCEPT ![p] = [r EXCEPT
                  !.pc = IF full THEN "page" ELSE "save",
                  !.since = IF full THEN next ELSE r.since,
                  !.max = next, !.held = Hold(r, held)]]
    BY DEF GoGatePage
<1> DEFINE put == (Monitored(page) \ dropped) \union FirstOnes(new \ dropped)
           held == {i \in new \intersect dropped : Earlier(i, FirstOnes(new \ dropped)) = {}}
           h == Hold(r, held)
           q == [r EXCEPT !.pc = IF full THEN "page" ELSE "save", !.since = IF full THEN next ELSE r.since,
                          !.max = next, !.held = h]
<1>3. /\ errors + Cardinality(dropped) <= MaxErrors /\ errors' = errors + Cardinality(dropped)
      /\ Learn({Path(i) : i \in put}) /\ queued' = queued \union put /\ gaveUp' = gaveUp \union dropped
      /\ goPoll' = [goPoll EXCEPT ![p] = q]
    BY <1>2
<1>4. /\ UNCHANGED <<cursor, listVars, booted, restarts, index, clock, goBoot>>
      /\ stalled' = IF Stalls(r, page) THEN stalled \union {r.since} ELSE stalled
    BY DEF GoGatePage
<1>5. page \subseteq DOMAIN index
    <2> HIDE DEF r
    <2>1. QED
        BY <1>1, PageIsPrefix
<1>6. dropped \in SUBSET DOMAIN index /\ put \subseteq DOMAIN index /\ held \in SUBSET DOMAIN index
    <2> HIDE DEF page
    <2>1. QED
        BY <1>2, <1>5 DEF Monitored, BrandNew, Taggeds, FirstOnes
<1> HIDE DEF put, held
<1>7. Budgeted'
    BY <1>1, <1>3, <1>6, IndexIs, DropsBudgeted
<1>8. known' \subseteq Names
    <2>1. {Path(i) : i \in put} \in SUBSET Names
        BY <1>1, <1>6, IndexIs
    <2>2. QED
        BY <1>1, <1>3, <2>1, LearnTyped
<1>9. SharedFits'
    BY <1>1, <1>4, <1>7, <1>8, PollTyped
<1>10. h <= clock
    <2> HIDE DEF r
    <2>1. QED
        BY <1>1, <1>6, HoldFits DEF GoPollFits
<1>11. next <= clock + 1
    <2>1. goPoll'[p].max = next
        <3> HIDE DEF next, full, h
        <3>1. q.max = next
            BY <1>1 DEF GoRec
        <3>2. goPoll'[p] = q
            <4> HIDE DEF q
            <4>1. QED
                BY <1>3 DEF GoInv, GoFrame
        <3>3. QED
            BY <3>1, <3>2
    <2>2. Reached(goPoll'[p].max, clock, stalled')
        BY <1>4 DEF GoInv, PollSound
    <2> HIDE DEF next
    <2>3. QED
        BY <2>1, <2>2 DEF Reached
<1>12. GoPollFits(q, clock)
    <2> HIDE DEF next, full, h, r
    <2>1. q.start = r.start /\ q.held = h /\ q.since = IF full THEN next ELSE r.since
        BY <1>1 DEF GoRec
    <2> HIDE DEF q
    <2>2. QED
        BY <1>1, <1>10, <1>11, <2>1 DEF GoPollFits
<1>13. stalled' \subseteq 0 .. clock + 1
    <2> HIDE DEF page, r
    <2>1. r.since \in 0 .. clock + 1
        BY <1>1 DEF GoPollFits
    <2>2. QED
        BY <1>4, <2>1 DEF GoFits
<1>14. queued' \subseteq DOMAIN index /\ gaveUp' \subseteq DOMAIN index
    BY <1>3, <1>6 DEF GoFits
<1> HIDE DEF q
<1>15. QED
    BY <1>3, <1>4, <1>9, <1>12, <1>13, <1>14, GoFitsMove

LEMMA GoFitSteps == GoInv /\ GoInv' /\ GoFits /\ GoNext => GoFits'
<1> SUFFICES ASSUME GoInv, GoInv', GoFits, GoNext PROVE GoFits'
    OBVIOUS
<1>0. /\ GoFrame /\ SharedFits /\ Budgeted /\ known \subseteq Names /\ booted \in BOOLEAN /\ clock \in Nat
      /\ Len(index) <= MaxIndex /\ clock <= MaxClock /\ stalled \subseteq 0 .. clock + 1
      /\ queued \subseteq DOMAIN index /\ gaveUp \subseteq DOMAIN index
    BY DEF GoFits, SharedFits, GoInv, GoFrame
<1>a. \A p \in Polls : goPoll[p] \in GoRec /\ GoPollFits(goPoll[p], clock)
    BY DEF GoFits, GoInv, GoFrame
<1>1. ASSUME AddEntry PROVE GoFits'
    <2>1. PICK e : index' = Append(index, e)
        BY <1>1 DEF AddEntry
    <2>2. Len(index) < MaxIndex /\ UNCHANGED <<sharedVars, clock, goPoll, queued, gaveUp, stalled>>
        BY <1>1 DEF AddEntry
    <2>3. PICK k \in Nat : k = Len(index) /\ DOMAIN index = 1 .. k
        BY <1>0, IndexIs
    <2>4. Len(index') = k + 1 /\ DOMAIN index' = 1 .. (k + 1)
        BY <1>0, <2>1, <2>3, IndexIs
    <2>5. Len(index') <= MaxIndex /\ DOMAIN index \subseteq DOMAIN index'
        BY <2>2, <2>3, <2>4, GoBoundAssumption
    <2>6. SharedFits'
        BY <1>0, <2>2 DEF sharedVars, listVars, SharedFits, Budgeted
    <2>7. QED
        BY <1>0, <2>2, <2>5, <2>6 DEF GoFits
<1>2. ASSUME Tick PROVE GoFits'
    <2>1. clock' = clock + 1 /\ clock < MaxClock /\ UNCHANGED <<sharedVars, index, goPoll, queued, gaveUp, stalled>>
        BY <1>2 DEF Tick
    <2>2. clock' <= MaxClock /\ stalled \subseteq 0 .. clock' + 1
        BY <1>0, <2>1, GoBoundAssumption
    <2>3. ASSUME NEW p \in Polls PROVE GoPollFits(goPoll[p], clock')
        <3>1. PICK q \in GoRec : q = goPoll[p] /\ GoPollFits(q, clock)
            BY <1>a
        <3>2. q.start \in Nat /\ q.since \in Nat /\ q.held \in Nat \union {NoHold}
            BY DEF GoRec
        <3>3. QED
            BY <1>0, <2>1, <3>1, <3>2 DEF GoPollFits, NoHold
    <2>4. SharedFits'
        BY <1>0, <2>1 DEF sharedVars, listVars, SharedFits, Budgeted
    <2>5. QED
        BY <1>0, <2>1, <2>2, <2>3, <2>4 DEF GoFits
<1>3. ASSUME NEW p \in Polls, GoBegin(p) PROVE GoFits'
    <2>1. PICK c : c = cursor' /\ c <= clock + 1
        BY <1>3 DEF GoBegin, GoInv, Reached
    <2> DEFINE q == [pc |-> "page", start |-> c, since |-> c, max |-> c, held |-> NoHold]
    <2>2. goPoll' = [goPoll EXCEPT ![p] = q] /\ UNCHANGED <<known, listVars, errors, restarts, index, clock, queued, gaveUp, stalled>>
        BY <1>3, <2>1 DEF GoBegin
    <2>3. GoPollFits(q, clock)
        BY <1>0, <2>1 DEF GoPollFits, NoHold
    <2> HIDE DEF q
    <2>4. SharedFits'
        <3>1. booted' \in BOOLEAN
            BY <1>0, <1>3, BeginTyped DEF GoBegin
        <3>2. QED
            BY <1>0, <2>2, <3>1, PollTyped DEF Budgeted
    <2>5. QED
        BY <1>0, <2>2, <2>3, <2>4, GoFitsMove
<1>4. ASSUME NEW p \in Polls, NoEntries(p) PROVE GoFits'
    <2>1. PICK r \in GoRec : r = goPoll[p] /\ GoPollFits(r, clock)
        BY <1>a
    <2> DEFINE q == [r EXCEPT !.pc = "save"]
    <2>2. /\ goPoll' = [goPoll EXCEPT ![p] = q] /\ (errors' = errors \/ Fault)
          /\ UNCHANGED <<known, listVars, booted, restarts, index, clock, queued, gaveUp, stalled>>
        BY <1>4, <2>1 DEF NoEntries
    <2>3. GoPollFits(q, clock)
        BY <2>1 DEF GoPollFits, GoRec
    <2> HIDE DEF q
    <2>4. Budgeted'
        BY <1>0, <2>2, FaultBudgeted DEF Budgeted
    <2>5. SharedFits'
        BY <1>0, <2>2, <2>4, PollTyped
    <2>6. QED
        BY <1>0, <2>2, <2>3, <2>5, GoFitsMove
<1>5. ASSUME NEW p \in Polls, SaveCursor(p) \/ GoAbort(p) PROVE GoFits'
    <2>1. /\ goPoll' = [goPoll EXCEPT ![p] = IdleGoPoll] /\ (errors' = errors \/ Fault)
          /\ UNCHANGED <<known, listVars, booted, restarts, index, clock, queued, gaveUp, stalled>>
        BY <1>5 DEF SaveCursor, GoAbort
    <2>2. Budgeted'
        BY <1>0, <2>1, FaultBudgeted DEF Budgeted
    <2>3. SharedFits'
        BY <1>0, <2>1, <2>2, PollTyped
    <2>4. QED
        BY <1>0, <2>1, <2>3, IdleGoFits, GoFitsMove
<1>6. ASSUME GoRestart PROVE GoFits'
    <2>1. /\ goPoll' = [p \in Polls |-> IdleGoPoll] /\ ProcessDies
          /\ UNCHANGED <<known, listVars, errors, index, clock, queued, gaveUp, stalled>>
        BY <1>6 DEF GoRestart
    <2>2. SharedFits'
        BY <1>0, <2>1, DeathTyped DEF SharedFits, Budgeted, listVars
    <2>3. QED
        BY <1>0, <2>1, <2>2, IdleGoFits DEF GoFits
<1>7. ASSUME GoOthers PROVE GoFits'
    <2>1. PICK n \in Names : OthersEnqueue(n) /\ UNCHANGED <<index, clock, goPoll, queued, gaveUp, stalled>>
        BY <1>7, PathsAssumption DEF GoOthers, goOwn
    <2>2. SharedFits'
        BY <1>0, <2>1, OthersTyped
    <2>3. QED
        BY <2>1, <2>2 DEF GoFits
<1>8. QED
    BY <1>1, <1>2, <1>3, <1>4, <1>5, <1>6, <1>7, GoGateFits DEF GoNext, GoStep

-----------------------------------------------------------------------------
(* The types of the npm poller                                             *)

Positions == [Names -> Seqs]
\* Only a poll that reads pages has a place in the feed, and below the limit of pages.
PollFits(q) ==
    /\ q.start <= MaxSeq /\ q.resolved \in Positions /\ q.hits \in Positions
    /\ IF q.pc = "page" THEN q.pages < MaxPages ELSE q.since = 0 /\ q.pages = 0

NpmFits ==
    /\ SharedFits /\ boot <= MaxSeq
    /\ \A p \in Polls : PollFits(poll[p])
    /\ attempts \in [Names -> 0 .. MaxResolve - 1]
    /\ Len(carry) <= CarryMax
    /\ scanned \in Positions /\ checked \in Positions /\ excused \in Positions

LEMMA SeqsAre == MaxSeq \in Nat /\ 0 \in Seqs /\ \A k : k \in Seqs <=> k \in Nat /\ k <= MaxSeq
BY NpmBoundAssumption DEF Seqs

LEMMA PositionsAre ==
    /\ Zero \in Positions
    /\ \A f \in Positions : f \in [Names -> Nat]
    /\ \A k \in Seqs : UpTo(k) \in Positions
BY SeqsAre DEF Zero, Positions, UpTo

LEMMA ChangesFit ==
    ASSUME NpmFrame
    PROVE  /\ UpdateSeq \in Seqs /\ LastChange \in Positions
           /\ \A n \in Names : Latest(n) \in Seqs
<1>1. \A n \in Names : change[n].seq \in Seqs
    BY LastChangeIs, SeqsAre
<1>2. LastChange \in Positions
    BY <1>1 DEF LastChange, Positions
<1>3. \A n \in Names : Latest(n) \in Seqs
    BY <1>1, SeqsAre DEF Latest
<1>4. UpdateSeq \in Seqs
    <2> DEFINE S == {change[n].seq : n \in Names}
    <2>1. S \in SUBSET (0 .. MaxSeq) /\ S # {}
        BY <1>1, NamesAssumption DEF Seqs
    <2>2. UpdateSeq = Max(S)
        BY DEF UpdateSeq
    <2> HIDE DEF S
    <2>3. QED
        BY <2>1, <2>2, SeqsAre, MaxOfNaturals DEF Seqs
<1>5. QED
    BY <1>2, <1>3, <1>4

LEMMA RaiseFits ==
    ASSUME NEW f \in Positions, NEW g \in Positions, NEW S
    PROVE  Raise(f, S, g) \in Positions
<1>1. \A n \in Names : f[n] \in Seqs /\ g[n] \in Seqs /\ f[n] \in Int /\ g[n] \in Int
    BY SeqsAre DEF Positions
<1>2. \A n \in Names : Max({f[n], g[n]}) \in Seqs
    BY <1>1, MaxOfPair
<1>3. QED
    BY <1>1, <1>2 DEF Raise, Positions

\* The deque never outgrows its bound.
LEMMA BoundedFits ==
    ASSUME NEW s \in Seq(Names)
    PROVE  Len(Bounded(s)) <= CarryMax
<1>1. PICK k \in Nat : k = Len(s)
    OBVIOUS
<1>2. CarryMax \in Nat
    BY NpmBoundAssumption
<1>3. PICK d \in Int : d = k - CarryMax + 1
    BY <1>1, <1>2
<1>4. PICK m \in Nat : m = Max({1, d}) /\ m >= 1 /\ m >= d
    BY <1>3, MaxOfPair
<1>5. Bounded(s) = SubSeq(s, m, k)
    BY <1>1, <1>3, <1>4 DEF Bounded
<1>6. Len(SubSeq(s, m, k)) = IF m <= k THEN k - m + 1 ELSE 0
    BY <1>1, <1>4
<1>7. QED
    BY <1>1, <1>2, <1>3, <1>4, <1>5, <1>6

LEMMA IdlePollFits == PollFits(IdlePoll)
BY SeqsAre, PositionsAre DEF PollFits, IdlePoll

\* The pages of a poll are over.
Paged(q) == q.since = 0 /\ q.pages = 0 /\ q.start <= MaxSeq /\ q.resolved \in Positions /\ q.hits \in Positions

LEMMA SkipsFit ==
    ASSUME NEW q \in PollRec, Paged(q)
    PROVE  /\ PollFits(AfterHits(q)) /\ PollFits(AfterEnqueue(q))
           /\ PollFits(AfterResolve(q)) /\ PollFits(AfterChecks(q))
<1> DEFINE a == [q EXCEPT !.pc = "advance", !.hits = Zero, !.taken = {}]
           b == [q EXCEPT !.pc = "hits"]
           c == [q EXCEPT !.pc = "enqueue"]
           d == [q EXCEPT !.pc = "resolve"]
<1>1. PollFits(a)
    BY PositionsAre DEF PollFits, Paged, PollRec
<1>2. PollFits(b) /\ PollFits(c) /\ PollFits(d)
    BY DEF PollFits, Paged, PollRec
<1>3. /\ AfterHits(q) = a
      /\ AfterEnqueue(q) = IF q.hits = Zero THEN AfterHits(q) ELSE b
      /\ AfterResolve(q) = IF q.resolved = Zero THEN AfterEnqueue(q) ELSE c
      /\ AfterChecks(q) = IF q.gated = Zero THEN AfterResolve(q) ELSE d
    BY DEF AfterHits, AfterEnqueue, AfterResolve, AfterChecks
<1> HIDE DEF a, b, c, d
<1>4. QED
    BY <1>1, <1>2, <1>3

LEMMA PagesFit ==
    ASSUME NEW q \in PollRec, q.start <= MaxSeq, q.resolved \in Positions, q.hits \in Positions
    PROVE  PollFits(AfterPages(q))
<1> DEFINE a == [q EXCEPT !.since = 0, !.pages = 0]
           b == [a EXCEPT !.pc = "split"]
<1>1. a \in PollRec /\ Paged(a)
    BY DEF Paged, PollRec
<1>2. AfterPages(q) = IF q.cand = {} THEN AfterChecks(a) ELSE b
    BY DEF AfterPages
<1> HIDE DEF a
<1>3. PollFits(b)
    BY <1>1 DEF PollFits, Paged, PollRec
<1> HIDE DEF b
<1>4. QED
    BY <1>1, <1>2, <1>3, SkipsFit

LEMMA NpmTyped == NpmInv /\ NpmFits => NpmTypeOK
<1> SUFFICES ASSUME NpmInv, NpmFits PROVE NpmTypeOK
    OBVIOUS
<1>1. /\ NpmFrame /\ UpdateSeq \in Seqs /\ cursor \in Nat \union {NoCursor} /\ boot \in Nat /\ boot <= MaxSeq
      /\ carry \in Seq(Names) /\ poll \in [Polls -> PollRec]
    BY ChangesFit DEF NpmInv, NpmFrame, NpmFits
<1>2. IngestTypeOK
    BY <1>1, SharedTyped DEF NpmFits
<1>3. change \in [Names -> [seq : Seqs, deleted : BOOLEAN]]
    <2>1. change \in [Names -> [seq : Nat, deleted : BOOLEAN]] /\ \A n \in Names : change[n].seq <= MaxSeq
        BY <1>1 DEF NpmFrame
    <2>2. ASSUME NEW n \in Names PROVE change[n] \in [seq : Seqs, deleted : BOOLEAN]
        <3>1. PICK c \in [seq : Nat, deleted : BOOLEAN] : c = change[n] /\ c.seq <= MaxSeq
            BY <2>1
        <3>2. c.seq \in Seqs
            BY <3>1, SeqsAre
        <3>3. QED
            BY <3>1, <3>2
    <2>3. QED
        BY <2>1, <2>2
<1>4. boot \in Seqs
    BY <1>1, SeqsAre
<1>5. ASSUME NEW p \in Polls PROVE poll[p] \in Poll
    <2>1. PICK q \in PollRec : /\ q = poll[p] /\ PollFits(q) /\ Shape(q) /\ q.max <= UpdateSeq
                               /\ \A n \in Names : q.gated[n] <= LastChange[n]
        BY NpmPollIs DEF NpmFits, NpmSound
    <2>2. q.max \in Seqs /\ q.start \in Seqs
        BY <1>1, <2>1, SeqsAre DEF PollRec, PollFits
    <2>3. q.since \in Seqs /\ q.pages \in 0 .. MaxPages
        <3>1. MaxPages \in Nat /\ q.pages \in Nat
            BY NpmBoundAssumption DEF PollRec
        <3>2. QED
            BY <2>1, <2>2, <3>1, SeqsAre DEF PollFits, Shape
    <2>4. q.gated \in [Names -> Seqs]
        <3>1. \A n \in Names : LastChange[n] \in Seqs
            BY <1>1, ChangesFit DEF Positions
        <3>2. q.gated \in [Names -> Nat]
            BY DEF PollRec
        <3>3. \A n \in Names : q.gated[n] \in Seqs
            BY <2>1, <3>1, <3>2, SeqsAre
        <3>4. QED
            BY <3>2, <3>3
    <2>5. QED
        BY <2>1, <2>2, <2>3, <2>4 DEF PollRec, Poll, PollFits, Positions
<1>6. poll \in [Polls -> Poll]
    BY <1>1, <1>5
<1>7. QED
    BY <1>1, <1>2, <1>3, <1>4, <1>6 DEF NpmTypeOK, NpmFits, Positions

LEMMA NpmFitsStart == NpmInit => NpmFits
<1> SUFFICES ASSUME NpmInit PROVE NpmFits
    OBVIOUS
<1>1. SharedFits
    BY DEF NpmInit, IngestInit, SharedFits, Budgeted
<1>2. /\ boot = 0 /\ poll = [p \in Polls |-> IdlePoll] /\ attempts = Zero /\ carry = <<>>
      /\ scanned = Zero /\ checked = Zero /\ excused = Zero
    BY DEF NpmInit
<1>3. Zero \in [Names -> 0 .. MaxResolve - 1]
    BY NpmBoundAssumption, NpmLimitAssumption DEF Zero
<1>4. boot <= MaxSeq /\ Len(carry) <= CarryMax
    BY <1>2, NpmBoundAssumption
<1>5. QED
    BY <1>1, <1>2, <1>3, <1>4, IdlePollFits, PositionsAre DEF NpmFits

\* The poll p moves on to q.
LEMMA NpmFitsMove ==
    ASSUME NpmFrame, NpmFits, NEW p \in Polls, NEW q, PollFits(q), poll' = [poll EXCEPT ![p] = q], SharedFits',
           boot' <= MaxSeq, attempts' \in [Names -> 0 .. MaxResolve - 1], Len(carry') <= CarryMax,
           scanned' \in Positions, checked' \in Positions, excused' \in Positions
    PROVE  NpmFits'
<1>1. \A o \in Polls : poll'[o] = IF o = p THEN q ELSE poll[o]
    BY DEF NpmFrame
<1>2. \A o \in Polls : PollFits(poll'[o])
    BY <1>1 DEF NpmFits
<1>3. QED
    BY <1>2 DEF NpmFits

LEMMA NpmFitsAre ==
    ASSUME NpmInv, NpmFits
    PROVE  /\ NpmFrame /\ SharedFits /\ Budgeted /\ known \subseteq Names /\ booted \in BOOLEAN
           /\ boot <= MaxSeq /\ Len(carry) <= CarryMax /\ attempts \in [Names -> 0 .. MaxResolve - 1]
           /\ scanned \in Positions /\ checked \in Positions /\ excused \in Positions
           /\ \A p \in Polls : poll[p] \in PollRec /\ PollFits(poll[p]) /\ Shape(poll[p])
BY NpmPollIs DEF NpmInv, NpmFits, SharedFits

LEMMA EnqueueAllFits ==
    ASSUME NpmInv, NpmFits, NEW versions \in Positions, NEW max \in Seqs, EnqueueAll(versions, max),
           UNCHANGED <<listVars, restarts, booted>>
    PROVE  SharedFits' /\ scanned' \in Positions /\ excused' \in Positions
<1>1. PICK dropped \in SUBSET Support(versions) :
         /\ errors + Cardinality(dropped) <= MaxErrors /\ errors' = errors + Cardinality(dropped)
         /\ Learn(Support(versions) \ dropped)
         /\ scanned' = Raise(scanned, Support(versions) \ dropped, versions)
         /\ excused' = Raise(excused, dropped, UpTo(max))
    BY DEF EnqueueAll
<1>2. Support(versions) \in SUBSET Names /\ dropped \in SUBSET Names /\ Support(versions) \ dropped \in SUBSET Names
    BY <1>1 DEF Support
<1>3. Budgeted'
    BY <1>1, <1>2, NpmFitsAre, NamesFinite, DropsBudgeted
<1>4. known' \subseteq Names
    BY <1>1, <1>2, NpmFitsAre, LearnTyped
<1>5. SharedFits'
    BY <1>3, <1>4, NpmFitsAre, PollTyped
<1>6. QED
    BY <1>1, <1>5, NpmFitsAre, PositionsAre, RaiseFits

LEMMA BeginFits == \A p \in Polls : NpmInv /\ NpmFits /\ Begin(p) => NpmFits'
<1> SUFFICES ASSUME NpmInv, NpmFits, NEW p \in Polls, Begin(p) PROVE NpmFits'
    OBVIOUS
<1> DEFINE a == [IdlePoll EXCEPT !.pc = "bootstrap"]
           b == [IdlePoll EXCEPT !.pc = "page", !.start = cursor, !.since = cursor, !.max = cursor]
           q == IF cursor = NoCursor THEN a ELSE b
<1>1. /\ poll' = [poll EXCEPT ![p] = q]
      /\ UNCHANGED <<known, listVars, errors, restarts, boot, attempts, carry, histories>>
    BY DEF Begin
<1>2. cursor <= MaxSeq
    <2>1. cursor \in Nat \union {NoCursor} /\ cursor <= UpdateSeq /\ UpdateSeq \in Seqs
        BY ChangesFit DEF NpmInv, NpmFrame
    <2>2. QED
        BY <2>1, SeqsAre DEF NoCursor
<1>3. PollFits(a)
    BY IdlePollFits DEF PollFits, IdlePoll
<1>4. PollFits(b)
    BY <1>2, PositionsAre, NpmBoundAssumption, NpmLimitAssumption DEF PollFits, IdlePoll
<1> HIDE DEF a, b
<1>5. PollFits(q)
    BY <1>3, <1>4
<1> HIDE DEF q
<1>6. booted' \in BOOLEAN
    BY NpmFitsAre, BeginTyped DEF Begin
<1>7. SharedFits'
    BY <1>1, <1>6, NpmFitsAre, PollTyped DEF Budgeted
<1>8. QED
    BY <1>1, <1>5, <1>7, NpmFitsAre, NpmFitsMove DEF histories

\* Steps of a poll that touch only it and the fault budget.
LEMMA PollStepFits ==
    ASSUME NpmInv, NpmFits, NEW p \in Polls, NEW q, PollFits(q), poll' = [poll EXCEPT ![p] = q],
           errors' = errors \/ Fault,
           UNCHANGED <<known, listVars, booted, restarts, attempts>>, boot' <= MaxSeq, Len(carry') <= CarryMax,
           scanned' \in Positions, checked' \in Positions, excused' \in Positions
    PROVE  NpmFits'
<1>1. Budgeted'
    BY NpmFitsAre, FaultBudgeted DEF Budgeted
<1>2. SharedFits'
    BY <1>1, NpmFitsAre, PollTyped
<1>3. attempts' \in [Names -> 0 .. MaxResolve - 1]
    BY NpmFitsAre
<1>4. QED
    BY <1>2, <1>3, NpmFitsAre, NpmFitsMove

LEMMA BootstrapFits == \A p \in Polls : NpmInv /\ NpmFits /\ Bootstrap(p) => NpmFits'
<1> SUFFICES ASSUME NpmInv, NpmFits, NEW p \in Polls, Bootstrap(p) PROVE NpmFits'
    OBVIOUS
<1>1. /\ poll' = [poll EXCEPT ![p] = IdlePoll] /\ (errors' = errors \/ Fault) /\ (boot' = UpdateSeq \/ boot' = boot)
      /\ UNCHANGED <<known, listVars, booted, restarts, attempts, carry, scanned, checked, excused>>
    BY DEF Bootstrap, histories
<1>2. boot' <= MaxSeq
    BY <1>1, NpmFitsAre, ChangesFit, SeqsAre
<1>3. QED
    BY <1>1, <1>2, NpmFitsAre, IdlePollFits, PollStepFits

LEMMA NoPageFits == \A p \in Polls : NpmInv /\ NpmFits /\ NoPage(p) => NpmFits'
<1> SUFFICES ASSUME NpmInv, NpmFits, NEW p \in Polls, NoPage(p) PROVE NpmFits'
    OBVIOUS
<1>1. PICK q \in PollRec : q = poll[p] /\ PollFits(q)
    BY NpmFitsAre
<1>2. /\ poll' = [poll EXCEPT ![p] = AfterPages(q)] /\ (errors' = errors \/ Fault)
      /\ UNCHANGED <<known, listVars, booted, restarts, boot, attempts, carry, scanned, checked, excused>>
    BY <1>1 DEF NoPage, histories
<1>3. PollFits(AfterPages(q))
    BY <1>1, PagesFit DEF PollFits
<1>4. QED
    BY <1>2, <1>3, NpmFitsAre, PollStepFits

\* A poll goes on to another page only below the limit of pages.
LEMMA GateFits == \A p \in Polls : NpmInv /\ NpmFits /\ GatePage(p) => NpmFits'
<1> SUFFICES ASSUME NpmInv, NpmFits, NEW p \in Polls, GatePage(p) PROVE NpmFits'
    OBVIOUS
<1> DEFINE q == poll[p]
           page == Page(q.since)
           last == Max({change[n].seq : n \in page})
           fresh == {n \in page : ~change[n].deleted /\ q.gated[n] = 0}
           admitted == {n \in fresh : Admitted(n)}
           top == Max({q.max, last})
           gates == [n \in Names |-> IF n \in admitted THEN change[n].seq ELSE q.gated[n]]
           cands == q.cand \union (IF exclusive THEN {} ELSE fresh \ admitted)
           r == [q EXCEPT !.since = last, !.max = top, !.pages = q.pages + 1, !.gated = gates, !.cand = cands]
           full == Cardinality(page) = NpmPage
<1>1. /\ q.pc = "page" /\ page # {}
      /\ poll' = [poll EXCEPT ![p] = IF full /\ r.pages < MaxPages THEN r ELSE AfterPages(r)]
      /\ UNCHANGED <<sharedVars, change, boot, attempts, carry, histories>>
    BY DEF GatePage
<1>2. q \in PollRec /\ PollFits(q) /\ NpmFrame /\ q.max \in Nat /\ q.since \in Nat
    BY NpmFitsAre DEF PollRec
<1>3. page \subseteq Names
    <2> HIDE DEF q
    <2>1. QED
        BY <1>2, NpmPageIsPrefix
<1>4. last \in Nat
    <2> HIDE DEF page
    <2>1. QED
        BY <1>1, <1>2, <1>3, LastRow
<1>5. top \in Nat
    <2> HIDE DEF last, q
    <2>1. top = q.max \/ top = last
        BY <1>2, <1>4, MaxOfPair
    <2>2. QED
        BY <1>2, <1>4, <2>1
<1>6. gates \in [Names -> Nat]
    BY <1>2, LastChangeIs DEF PollRec
<1>7. cands \in SUBSET Names
    BY <1>2, <1>3 DEF PollRec
<1> HIDE DEF page, last, fresh, admitted, top, gates, cands, q, full
<1>8. /\ r \in PollRec /\ r.pc = q.pc /\ r.start = q.start /\ r.resolved = q.resolved /\ r.hits = q.hits
    <2>1. q.pages + 1 \in Nat
        BY <1>2 DEF PollRec
    <2>2. QED
        BY <1>2, <1>4, <1>5, <1>6, <1>7, <2>1 DEF PollRec
<1> HIDE DEF r
<1>9. r.start <= MaxSeq /\ r.resolved \in Positions /\ r.hits \in Positions
    BY <1>2, <1>8 DEF PollFits
<1>10. PollFits(AfterPages(r))
    BY <1>8, <1>9, PagesFit
<1>11. r.pages < MaxPages => PollFits(r)
    BY <1>1, <1>8, <1>9 DEF PollFits
<1> DEFINE z == IF full /\ r.pages < MaxPages THEN r ELSE AfterPages(r)
<1>12. PollFits(z) /\ poll' = [poll EXCEPT ![p] = z]
    BY <1>1, <1>10, <1>11
<1> HIDE DEF z
<1>13. UNCHANGED <<known, listVars, errors, booted, restarts, boot, attempts, carry, scanned, checked, excused>>
    BY <1>1 DEF sharedVars, histories
<1>14. QED
    BY <1>12, <1>13, NpmFitsAre, PollStepFits

LEMMA SplitFits == \A p \in Polls : NpmInv /\ NpmFits /\ SplitChecks(p) => NpmFits'
<1> SUFFICES ASSUME NpmInv, NpmFits, NEW p \in Polls, SplitChecks(p) PROVE NpmFits'
    OBVIOUS
<1> DEFINE nc == Min({Len(carry), MaxChecks \div 2})
           fresh == (poll[p].cand \ Support(poll[p].gated)) \ ToSet(carry)
           nf == Min({Cardinality(fresh), MaxChecks - nc})
           taken == ToSet(SubSeq(carry, 1, nc))
<1>1. PICK q \in PollRec : q = poll[p] /\ q.pc = "split" /\ PollFits(q)
    BY NpmFitsAre DEF SplitChecks
<1>2. PICK f \in SetToSeqs(fresh) :
        LET names == taken \union ToSet(SubSeq(f, 1, nf))
            deferred == SubSeq(carry, nc + 1, Len(carry)) \o SubSeq(f, nf + 1, Len(f))
            r == [q EXCEPT !.cand = {}, !.todo = names, !.taken = taken]
        IN  /\ carry' = Bounded(deferred)
            /\ excused' = Raise(excused, ToSet(deferred) \ ToSet(carry'), LastChange)
            /\ poll' = [poll EXCEPT ![p] = IF names = {} THEN AfterChecks(r) ELSE [r EXCEPT !.pc = "check"]]
    BY <1>1 DEF SplitChecks
<1>3. UNCHANGED <<known, listVars, errors, booted, restarts, boot, attempts, scanned, checked>>
    BY DEF SplitChecks, sharedVars
<1> DEFINE names == taken \union ToSet(SubSeq(f, 1, nf))
           deferred == SubSeq(carry, nc + 1, Len(carry)) \o SubSeq(f, nf + 1, Len(f))
           r == [q EXCEPT !.cand = {}, !.todo = names, !.taken = taken]
           z == IF names = {} THEN AfterChecks(r) ELSE [r EXCEPT !.pc = "check"]
<1>4. /\ carry' = Bounded(deferred) /\ poll' = [poll EXCEPT ![p] = z]
      /\ excused' = Raise(excused, ToSet(deferred) \ ToSet(carry'), LastChange)
    BY <1>2
<1>5. deferred \in Seq(Names) /\ names \in SUBSET Names /\ taken \in SUBSET Names
    <2>1. carry \in Seq(Names) /\ fresh \in SUBSET Names
        BY <1>1, NpmFitsAre DEF NpmFrame, PollRec
    <2> HIDE DEF nc, nf, fresh
    <2>2. nc = Min({Len(carry), MaxChecks \div 2}) /\ nf = Min({Cardinality(fresh), MaxChecks - nc})
        BY DEF nc, nf
    <2>3. QED
        BY <2>1, <2>2, DeferredIs
<1> HIDE DEF names, deferred, taken
<1>6. r \in PollRec /\ Paged(r) /\ r.pc = "split"
    BY <1>1, <1>5 DEF PollRec, PollFits, Paged
<1> HIDE DEF r
<1>7. PollFits(z)
    <2>1. PollFits([r EXCEPT !.pc = "check"])
        BY <1>6 DEF PollFits, Paged, PollRec
    <2>2. QED
        BY <1>6, <2>1, SkipsFit
<1> HIDE DEF z
<1>8. Len(carry') <= CarryMax
    BY <1>4, <1>5, BoundedFits
<1>9. excused' \in Positions
    BY <1>4, NpmFitsAre, ChangesFit, RaiseFits
<1>10. QED
    BY <1>3, <1>4, <1>7, <1>8, <1>9, NpmFitsAre, PollStepFits

LEMMA CheckFits == \A p \in Polls : NpmInv /\ NpmFits /\ CheckAnomalies(p) => NpmFits'
<1> SUFFICES ASSUME NpmInv, NpmFits, NEW p \in Polls, CheckAnomalies(p) PROVE NpmFits'
    OBVIOUS
<1>1. PICK q \in PollRec : q = poll[p] /\ q.pc = "check" /\ PollFits(q)
    BY NpmFitsAre DEF CheckAnomalies
<1>2. PICK got \in SUBSET {n \in q.todo : Latest(n) > 0}, hit \in SUBSET Names :
             /\ checked' = Raise(checked, got \ hit, LastChange)
             /\ excused' = Raise(excused, q.todo \ got, LastChange)
             /\ poll' = [poll EXCEPT ![p] = AfterChecks([q EXCEPT !.todo = {},
                   !.hits = [n \in Names |-> IF n \in hit THEN Latest(n) ELSE 0]])]
    <2>1. q.todo \in SUBSET Names
        BY DEF PollRec
    <2>2. QED
        BY <1>1, <2>1 DEF CheckAnomalies
<1>3. UNCHANGED <<known, listVars, errors, booted, restarts, boot, attempts, carry, scanned>>
    BY DEF CheckAnomalies, sharedVars
<1> DEFINE v == [n \in Names |-> IF n \in hit THEN Latest(n) ELSE 0]
           a == [q EXCEPT !.todo = {}, !.hits = v]
<1>4. v \in Positions
    BY NpmFitsAre, ChangesFit, SeqsAre DEF Positions
<1> HIDE DEF v
<1>5. a \in PollRec /\ Paged(a)
    BY <1>1, <1>4, PositionsAre DEF PollRec, PollFits, Paged
<1>6. poll' = [poll EXCEPT ![p] = AfterChecks(a)]
    BY <1>2 DEF v
<1> HIDE DEF a
<1>7. PollFits(AfterChecks(a))
    BY <1>5, SkipsFit
<1>8. checked' \in Positions /\ excused' \in Positions
    BY <1>2, NpmFitsAre, ChangesFit, RaiseFits
<1>9. QED
    BY <1>3, <1>6, <1>7, <1>8, NpmFitsAre, PollStepFits

LEMMA ResolveFits == \A p \in Polls : NpmInv /\ NpmFits /\ Resolve(p) => NpmFits'
<1> SUFFICES ASSUME NpmInv, NpmFits, NEW p \in Polls, Resolve(p) PROVE NpmFits'
    OBVIOUS
<1>1. PICK q \in PollRec : q = poll[p] /\ q.pc = "resolve" /\ PollFits(q)
    BY NpmFitsAre DEF Resolve
<1>2. PICK got \in SUBSET Support(q.gated) : poll' = [poll EXCEPT ![p] = AfterResolve([q EXCEPT
             !.resolved = [n \in Names |-> IF n \in got THEN Latest(n) ELSE 0]])]
    BY <1>1 DEF Resolve
<1>3. UNCHANGED <<known, listVars, errors, booted, restarts, boot, attempts, carry, scanned, checked, excused>>
    BY DEF Resolve, sharedVars, histories
<1> DEFINE v == [n \in Names |-> IF n \in got THEN Latest(n) ELSE 0]
           a == [q EXCEPT !.resolved = v]
<1>4. v \in Positions
    BY NpmFitsAre, ChangesFit, SeqsAre DEF Positions
<1> HIDE DEF v
<1>5. a \in PollRec /\ Paged(a)
    BY <1>1, <1>4, PositionsAre DEF PollRec, PollFits, Paged
<1>6. poll' = [poll EXCEPT ![p] = AfterResolve(a)]
    BY <1>2 DEF v
<1> HIDE DEF a
<1>7. PollFits(AfterResolve(a))
    BY <1>5, SkipsFit
<1>8. QED
    BY <1>3, <1>6, <1>7, NpmFitsAre, PollStepFits

LEMMA EnqueuesFit == \A p \in Polls : NpmInv /\ NpmFits /\ (EnqueueResolved(p) \/ EnqueueHits(p)) => NpmFits'
<1> SUFFICES ASSUME NpmInv, NpmFits, NEW p \in Polls, EnqueueResolved(p) \/ EnqueueHits(p) PROVE NpmFits'
    OBVIOUS
<1>1. PICK q \in PollRec : q = poll[p] /\ q.pc \in {"enqueue", "hits"} /\ PollFits(q) /\ q.max \in Nat /\ q.max <= UpdateSeq
    BY NpmFitsAre, NpmPollIs DEF EnqueueResolved, EnqueueHits
<1>2. Paged(q)
    BY <1>1 DEF PollFits, Paged
<1>3. UpdateSeq \in Seqs /\ q.max \in Seqs
    BY <1>1, NpmFitsAre, ChangesFit, SeqsAre
<1>4. PICK z \in {AfterEnqueue(q), AfterHits(q)}, versions \in {q.resolved, q.hits}, max \in {q.max, UpdateSeq} :
         poll' = [poll EXCEPT ![p] = z] /\ EnqueueAll(versions, max)
    BY <1>1 DEF EnqueueResolved, EnqueueHits
<1>5. UNCHANGED <<listVars, booted, restarts, boot, attempts, carry, checked>>
    BY DEF EnqueueResolved, EnqueueHits
<1>6. PollFits(z)
    BY <1>2, <1>4, SkipsFit
<1>7. versions \in Positions /\ max \in Seqs
    BY <1>1, <1>3, <1>4 DEF PollFits
<1>8. SharedFits' /\ scanned' \in Positions /\ excused' \in Positions
    BY <1>4, <1>5, <1>7, EnqueueAllFits
<1>9. QED
    BY <1>4, <1>5, <1>6, <1>8, NpmFitsAre, NpmFitsMove

\* A counter that reaches the limit is reset, for the name is given up on.
LEMMA AdvanceFits == \A p \in Polls : NpmInv /\ NpmFits /\ Advance(p) => NpmFits'
<1> SUFFICES ASSUME NpmInv, NpmFits, NEW p \in Polls, Advance(p) PROVE NpmFits'
    OBVIOUS
<1>1. PICK q \in PollRec : q = poll[p] /\ q.max \in Nat /\ q.max <= UpdateSeq
    BY NpmPollIs DEF Advance
<1>2. /\ attempts' = [n \in Names |->
              IF n \in GivenUp(q) \/ q.resolved[n] > 0 THEN 0
              ELSE IF n \in Unresolved(q) THEN attempts[n] + 1 ELSE attempts[n]]
      /\ excused' = Raise(excused, GivenUp(q), UpTo(q.max))
      /\ poll' = [poll EXCEPT ![p] = IdlePoll]
      /\ UNCHANGED <<known, listVars, booted, errors, restarts, boot, carry, scanned, checked>>
    BY <1>1 DEF Advance
<1>3. attempts' \in [Names -> 0 .. MaxResolve - 1]
    <2>1. MaxResolve \in Nat /\ 0 \in 0 .. MaxResolve - 1
        BY NpmBoundAssumption, NpmLimitAssumption
    <2>2. \A n \in Names : attempts[n] \in 0 .. MaxResolve - 1
        BY NpmFitsAre
    <2>3. \A n \in Unresolved(q) : n \notin GivenUp(q) => ~(attempts[n] + 1 >= MaxResolve)
        BY DEF GivenUp
    <2>4. \A n \in Names : attempts[n] \in 0 .. MaxResolve - 1 /\ ~(attempts[n] + 1 >= MaxResolve) =>
             attempts[n] + 1 \in 0 .. MaxResolve - 1
        BY <2>1
    <2>5. QED
        BY <1>2, <2>1, <2>2, <2>3, <2>4
<1>4. excused' \in Positions
    <2>1. q.max \in Seqs
        BY <1>1, NpmFitsAre, ChangesFit, SeqsAre
    <2>2. QED
        BY <1>2, <2>1, NpmFitsAre, PositionsAre, RaiseFits
<1>5. SharedFits'
    BY <1>2, NpmFitsAre, PollTyped DEF Budgeted
<1>6. QED
    BY <1>2, <1>3, <1>4, <1>5, NpmFitsAre, IdlePollFits, NpmFitsMove

LEMMA AbortFits == \A p \in Polls : NpmInv /\ NpmFits /\ Abort(p) => NpmFits'
<1> SUFFICES ASSUME NpmInv, NpmFits, NEW p \in Polls, Abort(p) PROVE NpmFits'
    OBVIOUS
<1>1. /\ Fault /\ excused' = Raise(excused, poll[p].taken, LastChange) /\ poll' = [poll EXCEPT ![p] = IdlePoll]
      /\ UNCHANGED <<known, listVars, booted, restarts, boot, attempts, carry, scanned, checked>>
    BY DEF Abort
<1>2. excused' \in Positions
    BY <1>1, NpmFitsAre, ChangesFit, RaiseFits
<1>3. QED
    BY <1>1, <1>2, NpmFitsAre, IdlePollFits, PollStepFits

LEMMA RestartFits == NpmInv /\ NpmFits /\ Restart => NpmFits'
<1> SUFFICES ASSUME NpmInv, NpmFits, Restart PROVE NpmFits'
    OBVIOUS
<1> DEFINE S == ToSet(carry) \union UNION {poll[p].taken : p \in Polls}
<1>1. /\ ProcessDies /\ excused' = Raise(excused, S, LastChange)
      /\ poll' = [p \in Polls |-> IdlePoll] /\ attempts' = Zero /\ carry' = <<>>
      /\ UNCHANGED <<known, listVars, errors, boot, scanned, checked>>
    BY DEF Restart
<1> HIDE DEF S
<1>2. excused' \in Positions
    BY <1>1, NpmFitsAre, ChangesFit, RaiseFits
<1>3. attempts' \in [Names -> 0 .. MaxResolve - 1]
    BY <1>1, NpmBoundAssumption, NpmLimitAssumption DEF Zero
<1>4. SharedFits'
    BY <1>1, NpmFitsAre, DeathTyped DEF SharedFits, Budgeted, listVars
<1>5. Len(carry') <= CarryMax
    BY <1>1, NpmBoundAssumption
<1>6. QED
    BY <1>1, <1>2, <1>3, <1>4, <1>5, NpmFitsAre, IdlePollFits DEF NpmFits

LEMMA NpmFitSteps == NpmInv /\ NpmFits /\ NpmNext => NpmFits'
<1> SUFFICES ASSUME NpmInv, NpmFits, NpmNext PROVE NpmFits'
    OBVIOUS
<1>1. ASSUME NEW n \in Names, Publish(n) \/ Unpublish(n) PROVE NpmFits'
    <2>1. UNCHANGED <<sharedVars, boot, poll, attempts, carry, histories>>
        BY <1>1 DEF Publish, Unpublish
    <2>2. QED
        BY <2>1 DEF NpmFits, SharedFits, Budgeted, sharedVars, listVars, histories
<1>2. ASSUME NEW n \in Names, OthersEnqueue(n), UNCHANGED npmOwn PROVE NpmFits'
    <2>1. SharedFits'
        BY <1>2, NpmFitsAre, OthersTyped
    <2>2. QED
        BY <1>2, <2>1 DEF NpmFits, npmOwn
<1>3. QED
    BY <1>1, <1>2, BeginFits, BootstrapFits, NoPageFits, GateFits, SplitFits, CheckFits, ResolveFits, EnqueuesFit,
       AdvanceFits, AbortFits, RestartFits DEF NpmNext, NpmStep, NpmOthers

-----------------------------------------------------------------------------
(* The pollers side by side                                                *)

\* The poller that runs keeps its invariant, the others their last state.
PollersInv ==
    /\ eco \in {"npm", "gomod", "pypi", "crates"} /\ PollersTypeOK
    /\ eco = "npm" => NpmInv /\ NpmFits
    /\ eco = "gomod" => GoInv /\ GoFits
    /\ eco = "pypi" => PypiInv /\ PypiFits
    /\ eco = "crates" => CratesInv

LEMMA NpmRests == NpmTypeOK /\ UNCHANGED npmOwn /\ IngestTypeOK' => NpmTypeOK'
BY DEF NpmTypeOK, npmOwn

LEMMA GoRests == GoTypeOK /\ UNCHANGED goOwn /\ IngestTypeOK' => GoTypeOK'
BY DEF GoTypeOK, goOwn, Entry, Times

LEMMA PypiRests == PypiTypeOK /\ UNCHANGED pypiOwn /\ IngestTypeOK' => PypiTypeOK'
BY DEF PypiTypeOK, pypiOwn

LEMMA CratesRests == CratesTypeOK /\ UNCHANGED cratesOwn /\ IngestTypeOK' => CratesTypeOK'
BY DEF CratesTypeOK, cratesOwn

\* What the invariants say of the next state.
LEMMA TypedNext ==
    /\ NpmInv' /\ NpmFits' => NpmTypeOK'
    /\ GoInv' /\ GoFits' => GoTypeOK'
    /\ PypiInv' /\ PypiFits' => PypiTypeOK'
    /\ (cursor \in Nat \union {NoCursor})' /\ CratesInv' => CratesTypeOK'
BY NpmTyped, GoTyped, PypiTyped, CratesTyped, PTL

LEMMA PollersStart == PollersInit => PollersInv
<1> SUFFICES ASSUME PollersInit PROVE PollersInv
    OBVIOUS
<1>1. eco \in {"npm", "gomod", "pypi", "crates"} /\ NpmInit /\ GoInit /\ PypiInit /\ CratesInit
    BY DEF PollersInit
<1>2. NpmInv /\ NpmFits /\ GoInv /\ GoFits /\ PypiInv /\ PypiFits /\ CratesInv
    BY <1>1, NpmStarts, NpmFitsStart, GoStarts, GoFitsStart, PypiStarts, PypiFitsStart, CratesStart
<1>3. cursor \in Nat \union {NoCursor}
    BY <1>1 DEF CratesInit, IngestInit
<1>4. PollersTypeOK
    BY <1>2, <1>3, NpmTyped, GoTyped, PypiTyped, CratesTyped DEF PollersTypeOK
<1>5. QED
    BY <1>1, <1>2, <1>4 DEF PollersInv

LEMMA PollersStutter == PollersInv /\ UNCHANGED pollersVars => PollersInv'
<1> SUFFICES ASSUME PollersInv, UNCHANGED pollersVars PROVE PollersInv'
    OBVIOUS
<1>1. /\ UNCHANGED npmVars /\ UNCHANGED goVars /\ UNCHANGED pypiVars /\ UNCHANGED cratesVars /\ eco' = eco
      /\ UNCHANGED sharedVars /\ UNCHANGED npmOwn /\ UNCHANGED goOwn /\ UNCHANGED pypiOwn /\ UNCHANGED cratesOwn
    BY DEF pollersVars, npmVars, goVars, pypiVars, cratesVars
<1>2. SharedFits => SharedFits'
    BY <1>1 DEF SharedFits, Budgeted, sharedVars, listVars
<1>3. PollersTypeOK'
    <2>1. IngestTypeOK'
        BY <1>1 DEF PollersInv, PollersTypeOK, NpmTypeOK, IngestTypeOK, sharedVars, listVars
    <2>2. QED
        BY <1>1, <2>1, NpmRests, GoRests, PypiRests, CratesRests DEF PollersInv, PollersTypeOK
<1>4. NpmInv /\ NpmFits => NpmInv' /\ NpmFits'
    BY <1>1, <1>2, NpmSteps DEF NpmFits, npmOwn
<1>5. GoInv /\ GoFits => GoInv' /\ GoFits'
    BY <1>1, <1>2, GoSteps DEF GoFits, goOwn
<1>6. PypiInv /\ PypiFits => PypiInv' /\ PypiFits'
    BY <1>1, <1>2, PypiSteps DEF PypiFits, pypiOwn
<1>7. CratesInv => CratesInv'
    BY <1>1, <1>2 DEF CratesInv, cratesOwn
<1>8. QED
    BY <1>1, <1>3, <1>4, <1>5, <1>6, <1>7 DEF PollersInv

LEMMA PollersStep == PollersInv /\ PollersNext => PollersInv'
<1> SUFFICES ASSUME PollersInv, PollersNext PROVE PollersInv'
    OBVIOUS
<1>0. NpmTypeOK /\ GoTypeOK /\ PypiTypeOK /\ CratesTypeOK /\ cursor \in Nat \union {NoCursor}
    BY DEF PollersInv, PollersTypeOK, NpmTypeOK, IngestTypeOK
<1>1. CASE eco = "npm" /\ NpmNext /\ UNCHANGED <<eco, goOwn, pypiOwn, cratesOwn>>
    <2>1. NpmInv' /\ NpmFits'
        BY <1>1, NpmSteps, NpmFitSteps DEF PollersInv
    <2>2. NpmTypeOK'
        BY <2>1, TypedNext
    <2>3. IngestTypeOK'
        BY <2>2 DEF NpmTypeOK
    <2>4. PollersTypeOK'
        BY <1>0, <1>1, <2>2, <2>3, GoRests, PypiRests, CratesRests DEF PollersTypeOK
    <2>5. QED
        BY <1>1, <2>1, <2>4 DEF PollersInv
<1>2. CASE eco = "gomod" /\ GoNext /\ UNCHANGED <<eco, npmOwn, pypiOwn, cratesOwn>>
    <2>1. GoInv' /\ GoFits'
        BY <1>2, GoSteps, GoFitSteps DEF PollersInv
    <2>2. GoTypeOK'
        BY <2>1, TypedNext
    <2>3. IngestTypeOK'
        BY <2>2 DEF GoTypeOK
    <2>4. PollersTypeOK'
        BY <1>0, <1>2, <2>2, <2>3, NpmRests, PypiRests, CratesRests DEF PollersTypeOK
    <2>5. QED
        BY <1>2, <2>1, <2>4 DEF PollersInv
<1>3. CASE eco = "pypi" /\ PypiNext /\ UNCHANGED <<eco, npmOwn, goOwn, cratesOwn>>
    <2>1. PypiInv' /\ PypiFits'
        BY <1>3, PypiSteps, PypiFitSteps DEF PollersInv
    <2>2. PypiTypeOK'
        BY <2>1, TypedNext
    <2>3. IngestTypeOK'
        BY <2>2 DEF PypiTypeOK
    <2>4. PollersTypeOK'
        BY <1>0, <1>3, <2>2, <2>3, NpmRests, GoRests, CratesRests DEF PollersTypeOK
    <2>5. QED
        BY <1>3, <2>1, <2>4 DEF PollersInv
<1>4. CASE eco = "crates" /\ CratesNext /\ UNCHANGED <<eco, npmOwn, goOwn, pypiOwn>>
    <2>1. CratesInv' /\ cursor' = cursor
        BY <1>4, CratesSteps DEF PollersInv
    <2>2. CratesTypeOK'
        BY <1>0, <2>1, TypedNext
    <2>3. IngestTypeOK'
        BY <2>2 DEF CratesTypeOK
    <2>4. PollersTypeOK'
        BY <1>0, <1>4, <2>2, <2>3, NpmRests, GoRests, PypiRests DEF PollersTypeOK
    <2>5. QED
        BY <1>4, <2>1, <2>4 DEF PollersInv
<1>5. QED
    BY <1>1, <1>2, <1>3, <1>4 DEF PollersNext

\* The state of every poller keeps its type: positions stay within the feeds and, of Go, within the
\* step the cursor skips past a stalled page; retry counters stay below the limit at which
\* poll_changes_once gives up, the carry-over within its bound, and the fault budget is never overdrawn.
THEOREM PollersTypeCorrect == PollersSpec => []PollersTypeOK
<1>1. PollersInv => PollersTypeOK
    BY DEF PollersInv
<1>2. QED
    BY <1>1, PollersStart, PollersStutter, PollersStep, PTL DEF PollersSpec

=============================================================================
