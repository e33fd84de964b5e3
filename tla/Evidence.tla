------------------------------- MODULE Evidence -------------------------------
(***************************************************************************)
(* What the LLM is shown of a package: _gather_source of llm/triage.py.    *)
(* Three passes share one budget of MaxCode bytes.  The install-entry      *)
(* files come first, within a reserve; then, for PyPI, the .pth files and  *)
(* the modules they import; then the flagged files, worst finding first.   *)
(* One action per file a pass looks at.  The tree may be torn down by the  *)
(* cleanup of a cancelled scan meanwhile: a file that is gone cannot be    *)
(* read, and the walk passes it over (_safe_rglob).                        *)
(***************************************************************************)
EXTENDS Integers, FiniteSets, FiniteSetsExt

CONSTANTS
    Files,
    FileKinds,     \* what a file of the package may be, see tree below
    MaxCode,       \* MAX_CODE_BYTES
    Reserve,       \* RESERVED_ENTRY_BYTES
    EntryCap,      \* ENTRY_FILE_CAP
    FileCap,       \* PER_FILE_CAP
    Excerpt,       \* bytes of the regions around findings, or of a binary's stub
    Marker,        \* length of a truncation marker, written after the cut
    MinTail,       \* a remainder this small is not worth a truncated file
    MaxGone        \* bound: files that vanish under the walk

ASSUME EvidenceBoundAssumption ==
    {MaxCode, Reserve, EntryCap, FileCap, Excerpt, Marker, MinTail, MaxGone} \subseteq Nat
\* 16K + 12K of 48K: after the reserve there is room for a flagged file.
ASSUME ReserveAssumption ==
    /\ EntryCap + Marker <= Reserve
    /\ Reserve + FileCap + Marker <= MaxCode /\ Excerpt <= FileCap /\ FileCap > 0

VARIABLES
    tree,      \* per file: its role, size, worst severity, and how a finding shows it
    gecosystem,
    gpass,     \* the pass that runs
    gtodo,     \* the files it has not looked at
    total,     \* bytes gathered
    seen, shown,
    gone       \* files that can no longer be read

evidenceVars == <<tree, gecosystem, gpass, gtodo, total, seen, shown, gone>>

Passes == {"entry", "pth", "convict", "done"}
Roles == {"manifest", "script", "source", "pth", "other"}
\* _SEV_ORDER; no finding names the file.
Severities == 0 .. 3
NoFinding == 9
Shapes == {"lines", "text", "binary"}
FileKind == [role : Roles, size : Nat, sev : Severities \union {NoFinding}, shape : Shapes]
ASSUME FileKindsAssumption == FileKinds \subseteq FileKind

Flagged == {f \in Files : tree[f].sev # NoFinding}

\* The caps are tested before the marker of a cut is added: the prompt holds one more
\* marker than its limit at most.
EvidenceTypeOK ==
    /\ tree \in [Files -> FileKind]
    /\ gecosystem \in {"pypi", "crates", "gomod", "npm"}
    /\ gpass \in Passes /\ total \in 0 .. MaxCode + Marker
    /\ {gtodo, seen, shown, gone} \subseteq SUBSET Files

-----------------------------------------------------------------------------
(* The entry pass                                                          *)

\* _entry_files: the manifests; for npm the scripts of the install hooks and main;
\* for npm and Go the sources without a finding.
EntryFiles ==
    {f \in Files :
        \/ tree[f].role = "manifest" /\ gecosystem # "gomod"
        \/ tree[f].role = "script" /\ gecosystem = "npm"
        \/ tree[f].role = "source" /\ gecosystem \in {"npm", "gomod"} /\ f \notin Flagged}
EntryOrder(f) == CASE tree[f].role = "manifest" -> 1 [] tree[f].role = "script" -> 2 [] OTHER -> 3
EntryFirst(f) == f \in gtodo /\ \A g \in gtodo : EntryOrder(f) <= EntryOrder(g)

\* The module a .pth imports counts as a companion like the .pth itself.
Companions == {f \in Files : tree[f].role = "pth"}

EvidenceInit ==
    /\ tree \in [Files -> FileKinds]
    /\ gecosystem \in {"pypi", "crates", "gomod", "npm"}
    /\ gpass = "entry"
    /\ gtodo = EntryFiles
    /\ total = 0 /\ seen = {} /\ shown = {} /\ gone = {}

Show(f, bytes) == shown' = shown \union {f} /\ total' = total + bytes
Skip == UNCHANGED <<shown, total>>
LookedAt(f) == gtodo' = gtodo \ {f}

\* The size of a block cut at a cap: the marker comes on top of it.
Cut(bytes, cap) == IF bytes > cap THEN cap + Marker ELSE bytes

EntryOver == total >= Reserve \/ gtodo = {}
\* Mutant: the entry pass is bounded by the whole budget.
EntryStepUnreserved(f) ==
    LET bytes == tree[f].size IN
    /\ gpass = "entry" /\ total < MaxCode /\ EntryFirst(f)
    /\ LookedAt(f)
    /\ seen' = seen \union {f}
    /\ IF total + bytes > MaxCode THEN Skip ELSE Show(f, bytes)
    /\ UNCHANGED <<tree, gecosystem, gpass, gone>>

\* A file is marked as seen before it is known to fit.
EntryStep(f) ==
    LET bytes == Cut(tree[f].size, EntryCap) IN
    /\ gpass = "entry" /\ ~EntryOver /\ EntryFirst(f)
    /\ LookedAt(f)
    /\ IF f \in gone
       THEN Skip /\ UNCHANGED seen
       ELSE /\ seen' = seen \union {f}
            /\ IF total + bytes > Reserve THEN Skip ELSE Show(f, bytes)
    /\ UNCHANGED <<tree, gecosystem, gpass, gone>>

EntryEnds ==
    /\ gpass = "entry" /\ EntryOver
    /\ IF gecosystem = "pypi"
       THEN gpass' = "pth" /\ gtodo' = Companions
       ELSE gpass' = "convict" /\ gtodo' = Flagged
    /\ UNCHANGED <<tree, gecosystem, total, seen, shown, gone>>

-----------------------------------------------------------------------------
(* The companions of .pth files                                            *)

ToConvict == gpass' = "convict" /\ gtodo' = Flagged

\* _include: cuts the file that does not fit, unless hardly anything is left.
Include(f) ==
    LET remaining == MaxCode - total IN
    /\ gpass = "pth" /\ f \in gtodo
    /\ seen' = seen \union {f}
    /\ \/ /\ f \in seen \union gone
          /\ LookedAt(f) /\ Skip /\ UNCHANGED gpass
       \/ /\ f \notin seen \union gone
          /\ total + tree[f].size <= MaxCode
          /\ Show(f, tree[f].size)
          /\ IF total' < MaxCode THEN LookedAt(f) /\ UNCHANGED gpass ELSE ToConvict
       \/ /\ f \notin seen \union gone
          /\ total + tree[f].size > MaxCode
          /\ IF remaining > MinTail THEN Show(f, remaining + Marker) ELSE Skip
          /\ ToConvict
    /\ UNCHANGED <<tree, gecosystem, gone>>

CompanionsEnd ==
    /\ gpass = "pth" /\ gtodo = {}
    /\ ToConvict
    /\ UNCHANGED <<tree, gecosystem, total, seen, shown, gone>>

-----------------------------------------------------------------------------
(* The convicting pass                                                     *)

WorstFirst(f) == f \in gtodo /\ \A g \in gtodo : tree[f].sev <= tree[g].sev

\* Regions around the lines of the findings, the stub of a binary, or the file.
BlockOf(f) == Cut(IF tree[f].shape = "text" THEN tree[f].size ELSE Min({Excerpt, tree[f].size}), FileCap)

\* Mutant: the budget is looked at before a block is added, not with it.
ConvictStepLate(f) ==
    /\ gpass = "convict" /\ total < MaxCode /\ WorstFirst(f)
    /\ seen' = seen \union {f}
    /\ LookedAt(f)
    /\ IF f \in seen \union gone THEN Skip ELSE Show(f, BlockOf(f))
    /\ UNCHANGED <<tree, gecosystem, gpass, gone>>

ConvictStep(f) ==
    /\ gpass = "convict" /\ total < MaxCode /\ WorstFirst(f)
    /\ UNCHANGED <<tree, gecosystem, gone>>
    /\ \/ /\ f \in seen \union gone
          /\ seen' = seen \union {f}
          /\ LookedAt(f) /\ Skip /\ UNCHANGED gpass
       \/ /\ f \notin seen \union gone
          /\ seen' = seen \union {f}
          /\ IF total + BlockOf(f) > MaxCode
             THEN gpass' = "done" /\ gtodo' = {} /\ Skip
             ELSE LookedAt(f) /\ Show(f, BlockOf(f)) /\ UNCHANGED gpass

ConvictEnds ==
    /\ gpass = "convict" /\ (total >= MaxCode \/ gtodo = {})
    /\ gpass' = "done" /\ gtodo' = {}
    /\ UNCHANGED <<tree, gecosystem, total, seen, shown, gone>>

\* A file can no longer be read (OSError): a sweep removed it, or its mode forbids it.
Vanish(f) ==
    /\ gpass # "done" /\ f \notin gone /\ Cardinality(gone) < MaxGone
    /\ gone' = gone \union {f}
    /\ UNCHANGED <<tree, gecosystem, gpass, gtodo, total, seen, shown>>

EvidenceNext ==
    \/ \E f \in Files : EntryStep(f) \/ Include(f) \/ ConvictStep(f) \/ Vanish(f)
    \/ EntryEnds \/ CompanionsEnd \/ ConvictEnds

EvidenceSpec == EvidenceInit /\ [][EvidenceNext]_evidenceVars

-----------------------------------------------------------------------------
(* Properties                                                              *)

\* The only file with the worst finding, still there to be read.
Worst(f) == f \in Flagged \ gone /\ \A g \in Flagged \ {f} : tree[f].sev < tree[g].sev

\* The reserve cannot starve the convicting pass: a flagged file that is no entry
\* file is shown if its finding is the worst, however many entry files there are.
\* (For PyPI the companions of a .pth may use up the budget before.)
WorstFileShown ==
    gpass = "done" /\ gecosystem # "pypi" =>
        \A f \in Files \ EntryFiles : Worst(f) => f \in shown
=============================================================================
