------------------------------ MODULE IngestNpm ------------------------------
(***************************************************************************)
(* The npm change-feed poller: poll_changes_once, its gate, the anomaly    *)
(* check of updates the gate skips, and the holdback of the cursor.        *)
(*                                                                         *)
(* The scheduled poll and the boot poll share the cursor, the retry        *)
(* counters and the carry-over; they interleave wherever poll_changes_once *)
(* awaits or commits.                                                      *)
(*                                                                         *)
(* A change-feed seq also names the version it published.                  *)
(***************************************************************************)
EXTENDS Ingest, SequencesExt

CONSTANTS
    MaxSeq,        \* bound: changes in the feed
    NpmPage,       \* DEFAULT_LIMIT, the rows of a page
    MaxPages,      \* MAX_PAGES_PER_POLL
    MaxResolve,    \* NPM_RESOLVE_MAX_ATTEMPTS
    MaxChecks,     \* NPM_ANOMALY_MAX_CHECKS
    CarryMax       \* NPM_ANOMALY_CARRYOVER_MAX

ASSUME NpmBoundAssumption == {MaxSeq, NpmPage, MaxPages, MaxResolve, MaxChecks, CarryMax} \subseteq Nat
ASSUME NpmLimitAssumption == 0 \notin {NpmPage, MaxPages, MaxResolve}

VARIABLES
    change,      \* the feed: the last change of each package
    boot,        \* the seq the cursor was bootstrapped to
    poll,        \* the polls under way
    attempts,    \* _resolve_attempts
    carry,       \* _anomaly_carryover
    scanned,     \* newest version ever put into the scan queue, 0 if none
    checked,     \* newest version the anomaly gate found harmless, 0 if none
    excused      \* changes up to this seq were visibly given up

npmOwn == <<change, boot, poll, attempts, carry, scanned, checked, excused>>
npmVars == <<sharedVars, npmOwn>>
histories == <<scanned, checked, excused>>

-----------------------------------------------------------------------------
(* State                                                                   *)

Seqs == 0 .. MaxSeq
Steps == {"idle", "bootstrap", "page", "split", "check", "resolve", "enqueue", "hits", "advance"}

\* start: the cursor the poll read; gated: gated_seq, 0 for a name not gated;
\* todo: names the anomaly gate checks; taken: names this poll took out of
\* the carry-over; resolved, hits: versions to enqueue.
Poll == [pc : Steps, start : Seqs, since : Seqs, max : Seqs, pages : 0 .. MaxPages,
         gated : [Names -> Seqs], cand : SUBSET Names, todo : SUBSET Names, taken : SUBSET Names,
         resolved : [Names -> Seqs], hits : [Names -> Seqs]]
Zero == [n \in Names |-> 0]
IdlePoll == [pc |-> "idle", start |-> 0, since |-> 0, max |-> 0, pages |-> 0,
             gated |-> Zero, cand |-> {}, todo |-> {}, taken |-> {}, resolved |-> Zero, hits |-> Zero]

NpmTypeOK ==
    /\ IngestTypeOK
    /\ change \in [Names -> [seq : Seqs, deleted : BOOLEAN]]
    /\ boot \in Seqs
    /\ poll \in [Polls -> Poll]
    /\ attempts \in [Names -> 0 .. MaxResolve - 1]
    /\ carry \in Seq(Names) /\ Len(carry) <= CarryMax
    /\ \A h \in {scanned, checked, excused} : h \in [Names -> Seqs]

NpmInit ==
    /\ IngestInit
    /\ change \in [Names -> [seq : Seqs, deleted : {FALSE}]]
    /\ \A m, n \in Names : change[m].seq = change[n].seq => m = n \/ change[n].seq = 0
    /\ boot = 0
    /\ poll = [p \in Polls |-> IdlePoll]
    /\ attempts = Zero /\ carry = <<>>
    /\ scanned = Zero /\ checked = Zero /\ excused = Zero

UpdateSeq == Max({change[n].seq : n \in Names})
\* What /{pkg}/latest answers, 0 for a package that is not there.
Latest(n) == IF change[n].deleted THEN 0 ELSE change[n].seq
Support(f) == {n \in Names : f[n] > 0}
\* f raised to at least g on S.
Raise(f, S, g) == [n \in Names |-> IF n \in S THEN Max({f[n], g[n]}) ELSE f[n]]
UpTo(seq) == [n \in Names |-> seq]
LastChange == [n \in Names |-> change[n].seq]

-----------------------------------------------------------------------------
(* The registry                                                            *)

Publish(n) ==
    /\ UpdateSeq < MaxSeq
    /\ change' = [change EXCEPT ![n] = [seq |-> UpdateSeq + 1, deleted |-> FALSE]]
    /\ UNCHANGED <<sharedVars, boot, poll, attempts, carry, histories>>

Unpublish(n) ==
    /\ UpdateSeq < MaxSeq
    /\ Latest(n) > 0
    /\ change' = [change EXCEPT ![n] = [seq |-> UpdateSeq + 1, deleted |-> TRUE]]
    /\ UNCHANGED <<sharedVars, boot, poll, attempts, carry, histories>>

-----------------------------------------------------------------------------
(* poll_changes_once                                                       *)

Begin(p) ==
    /\ poll[p].pc = "idle"
    /\ MayBegin(p)
    /\ poll' = [poll EXCEPT ![p] =
          IF cursor = NoCursor THEN [IdlePoll EXCEPT !.pc = "bootstrap"]
          ELSE [IdlePoll EXCEPT !.pc = "page", !.start = cursor, !.since = cursor, !.max = cursor]]
    /\ UNCHANGED <<cursor, known, listVars, errors, restarts, change, boot, attempts, carry, histories>>

Bootstrap(p) ==
    /\ poll[p].pc = "bootstrap"
    /\ poll' = [poll EXCEPT ![p] = IdlePoll]
    /\ \/ cursor' = UpdateSeq /\ boot' = UpdateSeq /\ UNCHANGED errors
       \/ Fault /\ UNCHANGED <<cursor, boot>>
    /\ UNCHANGED <<known, listVars, booted, restarts, change, attempts, carry, histories>>

\* The rows after since, oldest first, at most a page of them.
Page(since) ==
    LET after == {n \in Names : change[n].seq > since}
    IN {n \in after : Cardinality({m \in after : change[m].seq < change[n].seq}) < NpmPage}

\* The steps poll_changes_once skips when they have nothing to do.
AfterHits(q) == [q EXCEPT !.pc = "advance", !.hits = Zero, !.taken = {}]
AfterEnqueue(q) == IF q.hits = Zero THEN AfterHits(q) ELSE [q EXCEPT !.pc = "hits"]
AfterResolve(q) == IF q.resolved = Zero THEN AfterEnqueue(q) ELSE [q EXCEPT !.pc = "enqueue"]
AfterChecks(q) == IF q.gated = Zero THEN AfterResolve(q) ELSE [q EXCEPT !.pc = "resolve"]
AfterPages(q) ==
    LET r == [q EXCEPT !.since = 0, !.pages = 0]
    IN IF q.cand = {} THEN AfterChecks(r) ELSE [r EXCEPT !.pc = "split"]

\* The feed has nothing more, or could not be read: _fetch_changes gives {}.
NoPage(p) ==
    /\ poll[p].pc = "page"
    /\ \/ Page(poll[p].since) = {} /\ UNCHANGED errors
       \/ Fault
    /\ poll' = [poll EXCEPT ![p] = AfterPages(@)]
    /\ UNCHANGED <<cursor, known, listVars, booted, restarts,
                   change, boot, attempts, carry, histories>>

\* _gate_page on one page; a name that is gated already keeps its first seq.
GatePage(p) ==
    LET q == poll[p]
        page == Page(q.since)
        last == Max({change[n].seq : n \in page})
        fresh == {n \in page : ~change[n].deleted /\ q.gated[n] = 0}
        admitted == {n \in fresh : Admitted(n)}
        r == [q EXCEPT
              !.since = last, !.max = Max({q.max, last}), !.pages = q.pages + 1,
              !.gated = [n \in Names |-> IF n \in admitted THEN change[n].seq ELSE q.gated[n]],
              !.cand = q.cand \union (IF exclusive THEN {} ELSE fresh \ admitted)]
        more == Cardinality(page) = NpmPage /\ r.pages < MaxPages
    IN  /\ q.pc = "page"
        /\ page # {}
        /\ poll' = [poll EXCEPT ![p] = IF more THEN r ELSE AfterPages(r)]
        /\ UNCHANGED <<sharedVars, change, boot, attempts, carry, histories>>

\* The deque keeps its newest CarryMax names.
Bounded(s) == SubSeq(s, Max({1, Len(s) - CarryMax + 1}), Len(s))

\* _check_anomalies shares the checks between the carry-over and this poll's
\* candidates, a set in no particular order, and carries the rest forward.
SplitChecks(p) ==
    LET q == poll[p]
        nc == Min({Len(carry), MaxChecks \div 2})
        fresh == (q.cand \ Support(q.gated)) \ ToSet(carry)
        nf == Min({Cardinality(fresh), MaxChecks - nc})
    IN  /\ q.pc = "split"
        /\ \E f \in SetToSeqs(fresh) :
             LET taken == ToSet(SubSeq(carry, 1, nc))
                 names == taken \union ToSet(SubSeq(f, 1, nf))
                 deferred == SubSeq(carry, nc + 1, Len(carry)) \o SubSeq(f, nf + 1, Len(f))
                 r == [q EXCEPT !.cand = {}, !.todo = names, !.taken = taken]
             IN /\ carry' = Bounded(deferred)
                /\ excused' = Raise(excused, ToSet(deferred) \ ToSet(carry'), LastChange)
                /\ poll' = [poll EXCEPT ![p] =
                      IF names = {} THEN AfterChecks(r) ELSE [r EXCEPT !.pc = "check"]]
        /\ UNCHANGED <<sharedVars, change, boot, attempts, scanned, checked>>

\* _check_anomalies._one for each name: no packument, nothing new in it, or a hit.
CheckAnomalies(p) ==
    LET q == poll[p]
    IN  /\ q.pc = "check"
        /\ \E got \in SUBSET {n \in q.todo : Latest(n) > 0} : \E hit \in SUBSET got :
             /\ checked' = Raise(checked, got \ hit, LastChange)
             /\ excused' = Raise(excused, q.todo \ got, LastChange)
             /\ poll' = [poll EXCEPT ![p] = AfterChecks([q EXCEPT !.todo = {},
                   !.hits = [n \in Names |-> IF n \in hit THEN Latest(n) ELSE 0]])]
        /\ UNCHANGED <<sharedVars, change, boot, attempts, carry, scanned>>

\* _resolve_latest of each gated name.
Resolve(p) ==
    LET q == poll[p]
    IN  /\ q.pc = "resolve"
        /\ \E got \in SUBSET Support(q.gated) :
             poll' = [poll EXCEPT ![p] = AfterResolve([q EXCEPT
                !.resolved = [n \in Names |-> IF n \in got THEN Latest(n) ELSE 0]])]
        /\ UNCHANGED <<sharedVars, change, boot, attempts, carry, histories>>

\* A transaction that enqueues the versions; enqueue gives up on some (None).
EnqueueAll(versions, max) ==
    \E dropped \in SUBSET Support(versions) :
        LET put == Support(versions) \ dropped
        IN /\ errors + Cardinality(dropped) <= MaxErrors
           /\ errors' = errors + Cardinality(dropped)
           /\ Learn(put)
           /\ scanned' = Raise(scanned, put, versions)
           /\ excused' = Raise(excused, dropped, UpTo(max))

EnqueueResolved(p) ==
    /\ poll[p].pc = "enqueue"
    /\ EnqueueAll(poll[p].resolved, poll[p].max)
    /\ poll' = [poll EXCEPT ![p] = AfterEnqueue(@)]
    /\ UNCHANGED <<cursor, listVars, booted, restarts, change, boot, attempts, carry, checked>>

EnqueueHits(p) ==
    /\ poll[p].pc = "hits"
    /\ EnqueueAll(poll[p].hits, UpdateSeq)
    /\ poll' = [poll EXCEPT ![p] = AfterHits(@)]
    /\ UNCHANGED <<cursor, listVars, booted, restarts, change, boot, attempts, carry, checked>>

Unresolved(q) == {n \in Support(q.gated) : q.resolved[n] = 0}
GivenUp(q) == {n \in Unresolved(q) : attempts[n] + 1 >= MaxResolve}
\* Mutant: a name given up on still holds the cursor.
BlockersAll(q) == {q.gated[n] : n \in Unresolved(q)}
Blockers(q) == {q.gated[n] : n \in Unresolved(q) \ GivenUp(q)}
\* Mutant: the cursor moves onto the first unresolved name, not before it.
SafeSeqOn(q) == Min({q.max} \union Blockers(q))
SafeSeq(q) == Min({q.max} \union {b - 1 : b \in Blockers(q)})

\* The retry counters and the cursor, held before the first unresolved name.
Advance(p) ==
    LET q == poll[p]
    IN  /\ q.pc = "advance"
        /\ attempts' = [n \in Names |->
              IF n \in GivenUp(q) \/ q.resolved[n] > 0 THEN 0
              ELSE IF n \in Unresolved(q) THEN attempts[n] + 1 ELSE attempts[n]]
        /\ cursor' = IF SafeSeq(q) > q.start THEN SafeSeq(q) ELSE cursor
        /\ excused' = Raise(excused, GivenUp(q), UpTo(q.max))
        /\ poll' = [poll EXCEPT ![p] = IdlePoll]
        /\ UNCHANGED <<known, listVars, booted, errors, restarts,
                       change, boot, carry, scanned, checked>>

\* An exception leaves the poll: its transaction rolls back, the names it took
\* out of the carry-over are gone.
Abort(p) ==
    /\ poll[p].pc \notin {"idle", "bootstrap"}
    /\ Fault
    /\ excused' = Raise(excused, poll[p].taken, LastChange)
    /\ poll' = [poll EXCEPT ![p] = IdlePoll]
    /\ UNCHANGED <<cursor, known, listVars, booted, restarts,
                   change, boot, attempts, carry, scanned, checked>>

\* Counters and carry-over live in the process.
Restart ==
    /\ ProcessDies
    /\ excused' = Raise(excused, ToSet(carry) \union UNION {poll[p].taken : p \in Polls}, LastChange)
    /\ poll' = [p \in Polls |-> IdlePoll]
    /\ attempts' = Zero /\ carry' = <<>>
    /\ UNCHANGED <<cursor, known, listVars, errors, change, boot, scanned, checked>>

-----------------------------------------------------------------------------

NpmStep(p) ==
    \/ Begin(p) \/ Bootstrap(p) \/ NoPage(p) \/ GatePage(p) \/ SplitChecks(p) \/ CheckAnomalies(p)
    \/ Resolve(p) \/ EnqueueResolved(p) \/ EnqueueHits(p) \/ Advance(p)

NpmOthers == \E n \in Names : OthersEnqueue(n) /\ UNCHANGED npmOwn

NpmNext ==
    \/ \E n \in Names : Publish(n) \/ Unpublish(n)
    \/ \E p \in Polls : NpmStep(p) \/ Abort(p)
    \/ Restart
    \/ NpmOthers

\* The scheduler calls the job again, and every await of a poll ends: the
\* requests have timeouts.
NpmFairness == \A p \in Polls : WF_npmVars(NpmStep(p))
NpmSpec == NpmInit /\ [][NpmNext]_npmVars /\ NpmFairness

-----------------------------------------------------------------------------
(* Properties                                                              *)

InFlight(n) == \E p \in Polls : n \in poll[p].taken

\* Behind the forward-only cursor no change is lost: the version of a listed
\* package, or of one never seen before, is in the scan queue; an update of a
\* known package was checked against its predecessor or waits for the check.
\* Excepted is only what the code gives up on in the log: a name that did not
\* resolve MaxResolve times, a lock give-up of enqueue, an overflow of the
\* carry-over or a failed poll that had taken names out of it.
NpmNothingLost ==
    \A n \in Names :
        LET seq == change[n].seq
        IN  /\ seq > boot /\ seq <= cursor /\ seq > excused[n]
            /\ ~change[n].deleted
            /\ exclusive => n \in focus
            => \/ scanned[n] >= seq
               \/ /\ ~Listed(n) /\ n \in known
                  /\ checked[n] >= seq \/ n \in ToSet(carry) \/ InFlight(n)

\* The feed never wedges: the cursor gets past every change, although names may
\* fail to resolve for ever, polls may fail and the process may restart.
NpmCatchesUp ==
    \A k \in 1 .. MaxSeq : (cursor # NoCursor /\ UpdateSeq >= k) ~> (cursor >= k)
=============================================================================
