-------------------------------- MODULE Ingest --------------------------------
(***************************************************************************)
(* What the feed pollers of the ecosystems share: the persisted cursor     *)
(* (ScanCursor.last_serial), the names the brand-new probe knows, the      *)
(* focus list and the watchlist, and the gate of focus.py.  A poller reads *)
(* a feed from the cursor on, puts into the scan queue what the gate       *)
(* admits, and saves a new cursor in a later transaction of its own.       *)
(***************************************************************************)
EXTENDS Integers, FiniteSets, FiniteSetsExt, Sequences

CONSTANTS
    Names,         \* package names, up to the case-folding of the brand-new probe
    FeedChecks,    \* PYPI_ANOMALY_MAX_CHECKS, CRATES_ANOMALY_MAX_CHECKS
    MaxErrors,     \* bound: failed fetches, database errors and lock give-ups
    MaxRestarts    \* bound: process restarts

ASSUME IngestBoundAssumption == {FeedChecks, MaxErrors, MaxRestarts} \subseteq Nat
ASSUME NamesAssumption == IsFiniteSet(Names) /\ Names # {}

VARIABLES
    cursor,      \* ScanCursor.last_serial, NoCursor while there is no row
    known,       \* names with a Package or a ScanQueue row; assumed never to lose both
    focus, watchlist, exclusive,
    booted,      \* has the boot poll of this process begun?
    errors, restarts

listVars == <<focus, watchlist, exclusive>>
sharedVars == <<cursor, known, listVars, booted, errors, restarts>>

NoCursor == -1
\* The scheduled job and the poll of the adapter's boot, which starts after the
\* scheduler and may overlap the job.
Polls == {"boot", "job"}

IngestTypeOK ==
    /\ cursor \in Nat \union {NoCursor}
    /\ known \subseteq Names
    /\ focus \subseteq Names /\ watchlist \subseteq Names /\ exclusive \in BOOLEAN
    /\ booted \in BOOLEAN
    /\ errors \in 0 .. MaxErrors /\ restarts \in 0 .. MaxRestarts

\* A deployment without a cursor, or with one at the origin: packages may have
\* been scanned before, and a part of the fault budget may be gone.
IngestInit ==
    /\ cursor \in {NoCursor, 0}
    /\ known \in SUBSET Names
    /\ focus \in SUBSET Names /\ watchlist \in SUBSET Names /\ exclusive \in BOOLEAN
    /\ booted \in BOOLEAN
    /\ errors \in 0 .. MaxErrors /\ restarts \in 0 .. MaxRestarts

-----------------------------------------------------------------------------

\* gate_decision, high: scanned at every version.
Listed(n) == n \in focus \/ (~exclusive /\ n \in watchlist)
\* gate_decision, high or normal.
Admitted(n) == Listed(n) \/ (~exclusive /\ n \notin known)

Learn(S) == known' = known \union S

Fault ==
    /\ errors < MaxErrors
    /\ errors' = errors + 1

\* poll is not run twice at once by the scheduler, and once per process by boot.
MayBegin(p) ==
    /\ p = "boot" => ~booted
    /\ booted' = (booted \/ p = "boot")

ProcessDies ==
    /\ restarts < MaxRestarts
    /\ restarts' = restarts + 1
    /\ booted' = FALSE

\* Focus seeding, a watchlist refresh or an operator enqueues a version of n.
OthersEnqueue(n) ==
    /\ n \notin known
    /\ Learn({n})
    /\ UNCHANGED <<cursor, listVars, booted, errors, restarts>>
=============================================================================
