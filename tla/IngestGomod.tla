----------------------------- MODULE IngestGomod -----------------------------
(***************************************************************************)
(* The Go module index poller: poll_index_once.  The index is read from a  *)
(* timestamp on, inclusively, and several entries may share one; a page is *)
(* gated and enqueued in one transaction; the cursor is saved after the    *)
(* last page, held before the first brand-new module enqueue gave up on.   *)
(***************************************************************************)
EXTENDS Ingest

CONSTANTS
    Paths,         \* the names that are module paths
    MaxIndex,      \* bound: entries of the index
    MaxClock,      \* bound: timestamps
    GoPage         \* DEFAULT_LIMIT, the entries of a page

ASSUME GoBoundAssumption == {MaxIndex, MaxClock, GoPage} \subseteq Nat /\ GoPage > 0
ASSUME PathsAssumption == Paths \subseteq Names

VARIABLES
    index,       \* the index, in the order of its timestamps
    clock,
    goBoot,      \* the time the cursor was bootstrapped to
    goPoll,      \* the polls under way
    queued,      \* entries put into the scan queue
    gaveUp,      \* entries enqueue gave up on
    stalled      \* timestamps the poll stepped past

goOwn == <<index, clock, goBoot, goPoll, queued, gaveUp, stalled>>
goVars == <<sharedVars, goOwn>>

-----------------------------------------------------------------------------
(* State                                                                   *)

Times == 0 .. MaxClock + 2
\* An entry with a tagged version, a pseudo-version, or a malformed timestamp.
Entry == [path : Paths, ts : Times, kind : {"tagged", "pseudo", "bad"}]

NoHold == -1
\* start, max, held: cursor, max_cursor and held_cursor of the poll.
GoPoll == [pc : {"idle", "page", "save"}, start : Times, since : Times, max : Times,
           held : Times \union {NoHold}]
IdleGoPoll == [pc |-> "idle", start |-> 0, since |-> 0, max |-> 0, held |-> NoHold]

GoTypeOK ==
    /\ IngestTypeOK
    /\ index \in Seq(Entry) /\ Len(index) <= MaxIndex
    /\ clock \in 0 .. MaxClock
    /\ goBoot \in Times
    /\ goPoll \in [Polls -> GoPoll]
    /\ queued \subseteq DOMAIN index /\ gaveUp \subseteq DOMAIN index
    /\ stalled \subseteq Times

GoInit ==
    /\ IngestInit
    /\ \E old \in [path : Paths, ts : {0}, kind : {"tagged"}] : index \in {<<>>, <<old>>}
    /\ Len(index) <= MaxIndex
    /\ clock = 0 /\ goBoot = 0
    /\ goPoll = [p \in Polls |-> IdleGoPoll]
    /\ queued = {} /\ gaveUp = {} /\ stalled = {}

-----------------------------------------------------------------------------
(* The index                                                               *)

AddEntry ==
    /\ Len(index) < MaxIndex
    /\ \E n \in Paths, k \in {"tagged", "pseudo", "bad"} :
         index' = Append(index, [path |-> n, ts |-> clock, kind |-> k])
    /\ UNCHANGED <<sharedVars, clock, goBoot, goPoll, queued, gaveUp, stalled>>

Tick ==
    /\ clock < MaxClock
    /\ clock' = clock + 1
    /\ UNCHANGED <<sharedVars, index, goBoot, goPoll, queued, gaveUp, stalled>>

-----------------------------------------------------------------------------
(* poll_index_once                                                         *)

\* Mutant: the poll starts from the value read before the row was made.
GoBeginUnset(p) ==
    /\ goPoll[p].pc = "idle"
    /\ MayBegin(p)
    /\ cursor' = IF cursor = NoCursor THEN clock ELSE cursor
    /\ goBoot' = IF cursor = NoCursor THEN clock ELSE goBoot
    /\ goPoll' = [goPoll EXCEPT ![p] = [pc |-> "page", start |-> cursor, since |-> cursor,
                                        max |-> cursor, held |-> NoHold]]
    /\ UNCHANGED <<known, listVars, errors, restarts, index, clock, queued, gaveUp, stalled>>
\* get_last_cursor makes the row, at the present time, when there is none.
GoBegin(p) ==
    /\ goPoll[p].pc = "idle"
    /\ MayBegin(p)
    /\ cursor' = IF cursor = NoCursor THEN clock ELSE cursor
    /\ goBoot' = IF cursor = NoCursor THEN clock ELSE goBoot
    /\ goPoll' = [goPoll EXCEPT ![p] = [pc |-> "page", start |-> cursor', since |-> cursor',
                                        max |-> cursor', held |-> NoHold]]
    /\ UNCHANGED <<known, listVars, errors, restarts, index, clock, queued, gaveUp, stalled>>

\* The first entries from since on, at most a page of them.
IndexPage(since) ==
    LET from == {i \in DOMAIN index : index[i].ts >= since}
    IN {i \in from : Cardinality({j \in from : j < i}) < GoPage}

\* The index has nothing more, or could not be read: _fetch_page gives [].
NoEntries(p) ==
    /\ goPoll[p].pc = "page"
    /\ \/ IndexPage(goPoll[p].since) = {} /\ UNCHANGED errors
       \/ Fault
    /\ goPoll' = [goPoll EXCEPT ![p].pc = "save"]
    /\ UNCHANGED <<cursor, known, listVars, booted, restarts, index, clock, goBoot,
                   queued, gaveUp, stalled>>

Path(i) == index[i].path
Earlier(i, S) == {j \in S : j < i /\ Path(j) = Path(i)}
Taggeds(page) == {i \in page : index[i].kind = "tagged"}
\* Entries that go through enqueue whatever else is on the page.
Monitored(page) == {i \in Taggeds(page) : Listed(Path(i))}
\* Entries of modules the probe has never seen when the page begins.
BrandNew(page) == {i \in Taggeds(page) : ~Listed(Path(i)) /\ Admitted(Path(i))}
\* Once an entry is in the session, the probe knows its path.
FirstOnes(S) == {i \in S : Earlier(i, S) = {}}
MaxCursor(q, page) == Max({q.max} \union {index[i].ts : i \in {j \in page : index[j].kind # "bad"}})
\* Mutant: a module enqueue gave up on does not hold the cursor.
HoldNothing(q, S) == q.held
Hold(q, S) == IF S = {} THEN q.held
              ELSE LET first == Min({index[i].ts : i \in S})
                   IN IF q.held = NoHold \/ first < q.held THEN first ELSE q.held

\* Mutant: a full page of one timestamp is read again and again.
NeverStalls(q, page) == FALSE
\* A full page of one timestamp would be read again: the poll steps past it.
Stalls(q, page) == Cardinality(page) = GoPage /\ MaxCursor(q, page) = q.since

\* One page; enqueue gives up on the entries in dropped.
GoGatePage(p) ==
    LET q == goPoll[p]
        page == IndexPage(q.since)
        new == BrandNew(page)
        full == Cardinality(page) = GoPage
        next == MaxCursor(q, page) + (IF Stalls(q, page) THEN 1 ELSE 0)
    IN  /\ q.pc = "page"
        /\ page # {}
        /\ \E dropped \in SUBSET ((Monitored(page) \ queued) \union new) :
             LET taken == FirstOnes(new \ dropped)
                 put == (Monitored(page) \ dropped) \union taken
                 held == {i \in new \intersect dropped : Earlier(i, taken) = {}}
             IN /\ errors + Cardinality(dropped) <= MaxErrors
                /\ errors' = errors + Cardinality(dropped)
                /\ Learn({Path(i) : i \in put})
                /\ queued' = queued \union put
                /\ gaveUp' = gaveUp \union dropped
                /\ goPoll' = [goPoll EXCEPT ![p] = [q EXCEPT
                      !.pc = IF full THEN "page" ELSE "save",
                      !.since = IF full THEN next ELSE q.since,
                      !.max = next, !.held = Hold(q, held)]]
        /\ stalled' = IF Stalls(q, page) THEN stalled \union {q.since} ELSE stalled
        /\ UNCHANGED <<cursor, listVars, booted, restarts, index, clock, goBoot>>

FinalCursor(q) == IF q.held = NoHold THEN q.max ELSE Min({q.max, q.held - 1})

SaveCursor(p) ==
    LET q == goPoll[p]
    IN  /\ q.pc = "save"
        /\ cursor' = IF FinalCursor(q) > q.start THEN FinalCursor(q) ELSE cursor
        /\ goPoll' = [goPoll EXCEPT ![p] = IdleGoPoll]
        /\ UNCHANGED <<known, listVars, booted, errors, restarts, index, clock, goBoot,
                       queued, gaveUp, stalled>>

\* An exception leaves the poll; the pages before are committed.
GoAbort(p) ==
    /\ goPoll[p].pc # "idle"
    /\ Fault
    /\ goPoll' = [goPoll EXCEPT ![p] = IdleGoPoll]
    /\ UNCHANGED <<cursor, known, listVars, booted, restarts, index, clock, goBoot,
                   queued, gaveUp, stalled>>

GoRestart ==
    /\ ProcessDies
    /\ goPoll' = [p \in Polls |-> IdleGoPoll]
    /\ UNCHANGED <<cursor, known, listVars, errors, index, clock, goBoot, queued, gaveUp, stalled>>

-----------------------------------------------------------------------------

GoStep(p) == GoBegin(p) \/ NoEntries(p) \/ GoGatePage(p) \/ SaveCursor(p)

GoOthers == \E n \in Paths : OthersEnqueue(n) /\ UNCHANGED goOwn

GoNext ==
    \/ AddEntry \/ Tick
    \/ \E p \in Polls : GoStep(p) \/ GoAbort(p)
    \/ GoRestart
    \/ GoOthers

\* The scheduler calls the job again, and every await of a poll ends.
GoFairness == \A p \in Polls : WF_goVars(GoStep(p))
GoSpec == GoInit /\ [][GoNext]_goVars /\ GoFairness

-----------------------------------------------------------------------------
(* Properties                                                              *)

\* Published since the cursor exists, and now behind it for good: the next poll
\* reads from the cursor on.  A stalled timestamp is a loss the code logs.
Passed(i) ==
    /\ index[i].kind = "tagged"
    /\ index[i].ts \in goBoot .. cursor - 1
    /\ index[i].ts \notin stalled

\* Behind the forward-only cursor every module that was brand-new is known to
\* the scanner, whatever enqueue gave up on, polls that failed half-way and polls
\* that overlapped; a version of a listed module is queued or was given up on.
GoNothingLost ==
    \A i \in DOMAIN index : Passed(i) =>
        IF Listed(Path(i)) THEN i \in queued \union gaveUp
        ELSE exclusive \/ Path(i) \in known

\* queue.py says of a lock give-up that the item is listed again by the next
\* poll: no version the gate admits is left behind the cursor out of the queue.
GiveUpRelisted ==
    \A i \in DOMAIN index : Passed(i) /\ Listed(Path(i)) => i \in queued

\* An entry the poller is to find, and one it is done with.
Listable(k) ==
    /\ k \in DOMAIN index /\ cursor # NoCursor
    /\ index[k].kind = "tagged" /\ index[k].ts >= goBoot
    /\ exclusive => Path(k) \in focus
Handled(k) ==
    /\ k \in DOMAIN index
    /\ \/ k \in queued
       \/ IF Listed(Path(k)) THEN k \in gaveUp ELSE Path(k) \in known
       \/ index[k].ts \in stalled

\* The feed never wedges: every version of a listed module and every brand-new
\* module published once the cursor exists is eventually enqueued, although polls
\* may fail, the process may restart and enqueue may give up now and then.
GoCatchesUp == \A k \in 1 .. MaxIndex : Listable(k) ~> Handled(k)
=============================================================================
