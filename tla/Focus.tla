-------------------------------- MODULE Focus --------------------------------
(***************************************************************************)
(* The focus list: the packages an operator depends on, per ecosystem.  A  *)
(* file is loaded into it by the command line or by `run -f`, replacing    *)
(* the list (a file with sections) or adding to it (a flat file), and the  *)
(* versions it pins are scanned once.  The pollers enqueue the newest      *)
(* release of every name of the list, and the feeds ask the gate about     *)
(* each release; in exclusive mode nothing else is ingested.               *)
(***************************************************************************)
EXTENDS Integers, Sequences, SequencesExt, FiniteSets, FiniteSetsExt

CONSTANTS
    FocusEcos,       \* _VALID_ECOSYSTEMS
    FocusNames,      \* names as they are written
    CaseInsensitive, \* _CASE_INSENSITIVE
    Lower(_),        \* str.lower
    ProxyPath(_, _), \* the path under which a name of an ecosystem is served
    FocusFiles,      \* the files the operator loads
    Newest,          \* the newest version; versions are numbered from 1
    MaxLoads,        \* bound: loads
    MaxFRestarts     \* bound: process restarts

Wildcard == -1
\* However a name is written, it is a name; a pin names a version there is.
ASSUME FocusAssumption ==
    /\ CaseInsensitive \subseteq FocusEcos /\ Newest \in Nat \ {0} /\ MaxLoads \in Nat /\ MaxFRestarts \in Nat
    /\ \A n \in FocusNames : Lower(n) \in FocusNames /\ \A e \in FocusEcos : ProxyPath(e, n) \in FocusNames
    /\ \A f \in FocusFiles :
        /\ f.flat \in FocusEcos \union {""} /\ Len(f.lines) \in Nat /\ DOMAIN f.lines = 1 .. Len(f.lines)
        /\ \A i \in DOMAIN f.lines : f.lines[i].head = "" =>
            f.lines[i].name \in FocusNames /\ f.lines[i].bounds \in Seq({Wildcard} \union 1 .. Newest)

VARIABLES
    fexclusive,  \* PKGWARD_FOCUS_EXCLUSIVE
    flist,       \* focus_list: per ecosystem and name, the pin of its row
    loading,     \* per loading process: the file of its transaction, and whether pins are enqueued
    fqueue,      \* <<ecosystem, name, version>> in the scan queue
    excused,     \* pins that the operator or a lock kept from the queue
    listedEver,  \* <<ecosystem, name>> that have been on the list
    polled,      \* per ecosystem: the names its poller still has to enqueue
    focusNames,  \* per ecosystem: the names a feed has preloaded
    loads, frestarts

focusVars == <<fexclusive, flist, loading, fqueue, excused, listedEver, polled, focusNames, loads, frestarts>>

NoPin == 0
Unlisted == -1
NoFile == [flat |-> "", lines |-> <<>>]
IdleLoad == [busy |-> FALSE, file |-> NoFile, enqueuePinned |-> FALSE]
FLoaders == {"boot", "cli"}
Emptied == [n \in FocusNames |-> Unlisted]
NamesOf(e) == {n \in FocusNames : flist[e][n] # Unlisted}

FocusTypeOK ==
    /\ fexclusive \in BOOLEAN
    /\ flist \in [FocusEcos -> [FocusNames -> {Unlisted} \union 0 .. Newest]]
    /\ \A l \in FLoaders : loading[l].file \in FocusFiles \union {NoFile} /\ loading[l].busy \in BOOLEAN
    /\ fqueue \union excused \subseteq FocusEcos \X FocusNames \X (1 .. Newest)
    /\ listedEver \subseteq FocusEcos \X FocusNames
    /\ polled \in [FocusEcos -> SUBSET FocusNames] /\ focusNames \in [FocusEcos -> SUBSET FocusNames]
    /\ loads \in 0 .. MaxLoads /\ frestarts \in 0 .. MaxFRestarts

FocusInit ==
    /\ fexclusive \in BOOLEAN
    /\ flist = [e \in FocusEcos |-> Emptied]
    /\ loading = [l \in FLoaders |-> IdleLoad]
    /\ fqueue = {} /\ excused = {} /\ listedEver = {}
    /\ polled = [e \in FocusEcos |-> {}] /\ focusNames = [e \in FocusEcos |-> {}]
    /\ loads = 0 /\ frestarts = 0

-----------------------------------------------------------------------------
(* A file is a sequence of lines: a section header [head |-> eco], or a      *)
(* name with the bounds of its version expression.                             *)

IsHeader(line) == line.head # ""

\* _floor_version: the lower bound of a range, if it is a version.
FloorVersion(bounds) == IF bounds = <<>> \/ Head(bounds) = Wildcard THEN NoPin ELSE Head(bounds)

\* The header above a line, "" before the first; a flat file is one section.
SectionOf(f, i) ==
    LET above == {j \in 1 .. i : IsHeader(f.lines[j])} IN
    IF f.flat # "" THEN f.flat ELSE IF above = {} THEN "" ELSE f.lines[Max(above)].head

\* parse_combined_focus_file raises ValueError.
Malformed(f) ==
    \E i \in DOMAIN f.lines : SectionOf(f, i) \notin FocusEcos

\* The sections of a file, the empty ones too.
Sections(f) ==
    ({f.flat} \intersect FocusEcos) \union {f.lines[i].head : i \in {j \in DOMAIN f.lines : IsHeader(f.lines[j])}}

\* parse_focus_file: the entries of a section, in the order of their lines.
EntryLines(f, e) == {i \in DOMAIN f.lines : SectionOf(f, i) = e /\ ~IsHeader(f.lines[i])}
PinAt(f, i) == FloorVersion(f.lines[i].bounds)

\* upsert_focus: the last line of a name decides.
UpsertFocus(list, f, e) ==
    [n \in FocusNames |->
        LET lines == {i \in EntryLines(f, e) : f.lines[i].name = n} IN
        IF lines = {} THEN list[n] ELSE PinAt(f, Max(lines))]

\* sync_focus: clear_focus and upsert_focus.
SyncFocus(f, e) == UpsertFocus(Emptied, f, e)

\* apply_focus_file, and the flat load of the command line: a list without a section stays.
Applied(f) ==
    [e \in FocusEcos |->
        IF e \notin Sections(f) THEN flist[e]
        ELSE IF f.flat = "" THEN SyncFocus(f, e) ELSE UpsertFocus(flist[e], f, e)]

\* Every pin of the file, of the lines that a later one overrides too.
PinsOf(f) ==
    UNION {{<<e, f.lines[i].name, PinAt(f, i)>> : i \in {j \in EntryLines(f, e) : PinAt(f, j) # NoPin}} : e \in Sections(f)}

-----------------------------------------------------------------------------
(* Loading: focus_load_cmd and sync_focus_file                             *)

Remember(list) == listedEver' = listedEver \union {p \in FocusEcos \X FocusNames : list[p[1]][p[2]] # Unlisted}

\* The file is read and parsed; a file that does not parse, or is not there, changes
\* nothing.  `run -f` takes a file with sections and means exclusive mode.
BeginLoad(l, f, enqueuePinned) ==
    /\ ~loading[l].busy /\ loads < MaxLoads /\ loads' = loads + 1
    /\ l = "boot" => f.flat = "" /\ fexclusive /\ enqueuePinned
    /\ loading' = IF Malformed(f) THEN loading
                  ELSE [loading EXCEPT ![l] = [busy |-> TRUE, file |-> f, enqueuePinned |-> enqueuePinned]]
    /\ UNCHANGED <<fexclusive, flist, fqueue, excused, listedEver, polled, focusNames, frestarts>>

\* Mutant: the list is committed before the pins are enqueued.
CommitLoadTwice(l) ==
    LET k == loading[l] IN
    /\ k.busy
    /\ IF flist # Applied(k.file)
       THEN /\ flist' = Applied(k.file) /\ Remember(flist')
            /\ excused' = IF k.enqueuePinned THEN excused ELSE excused \union PinsOf(k.file)
            /\ UNCHANGED <<loading, fqueue>>
       ELSE /\ loading' = [loading EXCEPT ![l] = IdleLoad]
            /\ fqueue' = IF k.enqueuePinned THEN fqueue \union PinsOf(k.file) ELSE fqueue
            /\ UNCHANGED <<flist, excused, listedEver>>
    /\ UNCHANGED <<fexclusive, polled, focusNames, loads, frestarts>>

\* The list is replaced and the pins enqueued in one transaction; enqueue may give up on
\* one of them.
CommitLoad(l) ==
    LET k == loading[l]
        pins == PinsOf(k.file) IN
    /\ k.busy
    /\ flist' = Applied(k.file) /\ Remember(flist')
    /\ \E dropped \in SUBSET pins :
        /\ IF k.enqueuePinned THEN Cardinality(dropped) <= 1 ELSE dropped = pins
        /\ fqueue' = fqueue \union (pins \ dropped)
        /\ excused' = excused \union dropped
    /\ loading' = [loading EXCEPT ![l] = IdleLoad]
    /\ UNCHANGED <<fexclusive, polled, focusNames, loads, frestarts>>

\* Another load got there first (the unique key, a lock): rolled back and logged.
LoadFails(l) ==
    /\ loading[l].busy
    /\ loading' = [loading EXCEPT ![l] = IdleLoad]
    /\ UNCHANGED <<fexclusive, flist, fqueue, excused, listedEver, polled, focusNames, loads, frestarts>>

\* focus clear, of one ecosystem or of all
ClearFocus(ecos) ==
    /\ loads < MaxLoads /\ loads' = loads + 1
    /\ flist' = [e \in FocusEcos |-> IF e \in ecos THEN Emptied ELSE flist[e]]
    /\ UNCHANGED <<fexclusive, loading, fqueue, excused, listedEver, polled, focusNames, frestarts>>

-----------------------------------------------------------------------------
(* poll_focus_releases of the four ecosystems, at boot and by schedule     *)

ReadFocusNames(e) ==
    /\ polled[e] = {} /\ NamesOf(e) # {}
    /\ polled' = [polled EXCEPT ![e] = NamesOf(e)]
    /\ UNCHANGED <<fexclusive, flist, loading, fqueue, excused, listedEver, focusNames, loads, frestarts>>

\* A name that resolved is enqueued with the newest version, for Go at the path the proxy
\* serves; one that did not, or that enqueue gave up on, waits for the next poll.
EnqueueLatest(e, n, resolved) ==
    /\ n \in polled[e]
    /\ fqueue' = IF resolved THEN fqueue \union {<<e, ProxyPath(e, n), Newest>>} ELSE fqueue
    /\ polled' = [polled EXCEPT ![e] = @ \ {n}]
    /\ UNCHANGED <<fexclusive, flist, loading, excused, listedEver, focusNames, loads, frestarts>>

-----------------------------------------------------------------------------
(* The gate of the feeds                                                   *)

\* _key
Key(e, n) == IF e \in CaseInsensitive THEN Lower(n) ELSE n

\* load_focus_names, once per poll
LoadFocusNames(e) ==
    /\ focusNames' = [focusNames EXCEPT ![e] = {Key(e, n) : n \in NamesOf(e)}]
    /\ UNCHANGED <<fexclusive, flist, loading, fqueue, excused, listedEver, polled, loads, frestarts>>

\* gate_decision on a release of the feed, with on_focus against the preloaded names: the
\* additive gate may admit any name, for the watchlist or as a new package.
Admits(e, n) == Key(e, n) \in focusNames[e] \/ ~fexclusive

GateRelease(e, n) ==
    /\ Admits(e, n)
    /\ fqueue' = fqueue \union {<<e, n, Newest>>}
    /\ UNCHANGED <<fexclusive, flist, loading, excused, listedEver, polled, focusNames, loads, frestarts>>

\* The scanner is killed and started again in the same mode; a command line goes on.
FocusRestart ==
    /\ frestarts < MaxFRestarts /\ frestarts' = frestarts + 1
    /\ loading' = [loading EXCEPT !["boot"] = IdleLoad]
    /\ polled' = [e \in FocusEcos |-> {}] /\ focusNames' = [e \in FocusEcos |-> {}]
    /\ UNCHANGED <<fexclusive, flist, fqueue, excused, listedEver, loads>>

FocusNext ==
    \/ \E l \in FLoaders :
        \/ \E f \in FocusFiles, enqueuePinned \in BOOLEAN : BeginLoad(l, f, enqueuePinned)
        \/ CommitLoad(l) \/ LoadFails(l)
    \/ \E e \in FocusEcos : ClearFocus({e})
    \/ ClearFocus(FocusEcos)
    \/ \E e \in FocusEcos :
        \/ ReadFocusNames(e)
        \/ \E n \in FocusNames, resolved \in BOOLEAN : EnqueueLatest(e, n, resolved)
        \/ LoadFocusNames(e)
        \/ \E n \in FocusNames : GateRelease(e, n)
    \/ FocusRestart

FocusSpec == FocusInit /\ [][FocusNext]_focusVars

-----------------------------------------------------------------------------
(* Properties                                                              *)

PinsQueued ==
    \A e \in FocusEcos, n \in FocusNames :
        flist[e][n] \in 1 .. Newest => <<e, n, flist[e][n]>> \in fqueue \union excused

ExclusiveKept ==
    fexclusive => \A q \in fqueue : \E n \in FocusNames :
        <<q[1], n>> \in listedEver /\ (Key(q[1], n) = Key(q[1], q[2]) \/ ProxyPath(q[1], n) = q[2])

\* The list is honoured whatever loads overlap, fail or are cut off, and whatever list a poll has
\* read: a version that the operator pins is in the scan queue as soon as its row is listed
\* (unless a lock or the operator kept it out), and in exclusive mode the queue takes nothing
\* that was never listed.
FocusHonoured == PinsQueued /\ ExclusiveKept
=============================================================================
