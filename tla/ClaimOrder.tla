------------------------------ MODULE ClaimOrder ------------------------------
(***************************************************************************)
(* Which row a worker claims: claim_next of queue.py, statement by         *)
(* statement, against other workers and against enqueue, which inserts     *)
(* rows and upgrades priorities it read earlier.  A priority tier is       *)
(* counted per ecosystem, an ecosystem is sampled, its oldest pending row  *)
(* is selected and then claimed by a compare-and-set on its status, which  *)
(* is retried on the next row a bounded number of times.  Stale claims,    *)
(* failures and attempts are the subject of ScanQueue.                     *)
(***************************************************************************)
EXTENDS Integers, FiniteSets, Sequences, SequencesExt

CONSTANTS
    Rows,         \* (ecosystem, name, version)
    EcoOf(_),     \* the ecosystem of a row
    Backlog,      \* the rows that are pending when the workers start, oldest first
    Priorities,   \* the priorities rows are enqueued with, see Tiers
    Takers,       \* workers
    Upgraders,    \* transactions that enqueue
    NoTaker,
    CasRetries,   \* _CLAIM_CAS_RETRIES
    MaxInserts,   \* bound: times a row becomes pending
    MaxUpgrades   \* bound: priority upgrades

\* A row is in the queue once: (ecosystem, name, version) is unique.
ASSUME ClaimOrderAssumption ==
    /\ Priorities \subseteq 0 .. 2 /\ NoTaker \notin Takers
    /\ Backlog \in Seq(Rows)
    /\ \A i, j \in DOMAIN Backlog : Backlog[i] = Backlog[j] => i = j
    /\ CasRetries \in Nat \ {0} /\ MaxInserts \in Nat /\ MaxUpgrades \in Nat

VARIABLES
    qrow,      \* the row's status, priority and holder of its claim token
    arrived,   \* the rows in the order of enqueued_at
    taker,     \* per worker: where claim_next is
    upgrader,  \* per enqueueing transaction: the copy it decides on
    inserts, upgrades

claimVars == <<qrow, arrived, taker, upgrader, inserts, upgrades>>

\* _PRIORITY_ORDER: high, normal, low
Tiers == 0 .. 2
NoTier == 3
NoRowYet == [st |-> "absent", prio |-> 1, by |-> NoTaker]
QRow == [st : {"absent", "pending", "claimed", "done"}, prio : Tiers, by : Takers \union {NoTaker}]
Ecos == {EcoOf(r) : r \in Rows}
NoEco == "none"

\* steady: the rows that have been pending with their priority since the claim began;
\* spent: the tiers and ecosystems in which every retry was lost.
IdleTaker ==
    [at |-> "idle", tier |-> 0, todo |-> {}, eco |-> NoEco, pick |-> {}, lost |-> {},
     tries |-> 0, steady |-> {}, spent |-> {}]
IdleUpgrader == [row |-> {}, want |-> 1]

ClaimTypeOK ==
    /\ qrow \in [Rows -> QRow]
    /\ ToSet(arrived) \subseteq Rows
    /\ \A t \in Takers :
        /\ taker[t].at \in {"idle", "tier", "select", "cas", "won"}
        /\ taker[t].tier \in 0 .. NoTier /\ taker[t].tries \in 0 .. CasRetries
        /\ taker[t].todo \subseteq Ecos /\ taker[t].eco \in Ecos \union {NoEco}
        /\ {taker[t].pick, taker[t].lost, taker[t].steady} \subseteq SUBSET Rows
        /\ taker[t].spent \subseteq Tiers \X Ecos
    /\ \A u \in Upgraders : upgrader[u].row \subseteq Rows /\ upgrader[u].want \in Tiers
    /\ inserts \in 0 .. MaxInserts /\ upgrades \in 0 .. MaxUpgrades

ClaimInit ==
    /\ arrived = Backlog
    /\ \E prio \in [Rows -> Priorities] :
        qrow = [r \in Rows |-> IF r \in ToSet(Backlog)
                               THEN [NoRowYet EXCEPT !.st = "pending", !.prio = prio[r]] ELSE NoRowYet]
    /\ taker = [t \in Takers |-> IdleTaker]
    /\ upgrader = [u \in Upgraders |-> IdleUpgrader]
    /\ inserts = 0 /\ upgrades = 0

Pending(tier, eco) == {r \in Rows : qrow[r].st = "pending" /\ qrow[r].prio = tier /\ EcoOf(r) = eco}
Position(r) == CHOOSE i \in DOMAIN arrived : arrived[i] = r

-----------------------------------------------------------------------------
(* claim_next                                                              *)

PutTaker(t, k) == taker' = [taker EXCEPT ![t] = k]

BeginClaim(t) ==
    /\ taker[t].at = "idle"
    /\ PutTaker(t, [IdleTaker EXCEPT !.at = "tier", !.steady = {r \in Rows : qrow[r].st = "pending"}])
    /\ UNCHANGED <<qrow, arrived, upgrader, inserts, upgrades>>

\* The pending rows of the tier are counted; the ecosystems that have any are tried
\* in a sampled order.
ReadTier(t) ==
    LET k == taker[t]
        ecos == {e \in Ecos : Pending(k.tier, e) # {}} IN
    /\ k.at = "tier"
    /\ PutTaker(t, IF k.tier = NoTier THEN IdleTaker
                   ELSE IF ecos = {} THEN [k EXCEPT !.tier = @ + 1]
                   ELSE [k EXCEPT !.at = "select", !.todo = ecos])
    /\ UNCHANGED <<qrow, arrived, upgrader, inserts, upgrades>>

\* The next ecosystem of the sample, or the next tier.
LeaveEco(k, gaveUp) ==
    LET rest == k.todo \ {k.eco} IN
    [k EXCEPT !.eco = NoEco, !.todo = rest, !.lost = {}, !.tries = 0,
        !.at = IF rest = {} THEN "tier" ELSE "select",
        !.tier = IF rest = {} THEN @ + 1 ELSE @,
        !.spent = IF gaveUp THEN @ \union {<<k.tier, k.eco>>} ELSE @]

\* An ecosystem is sampled, or the one whose race was lost is tried again.
SelectOldest(t, e) ==
    LET k == [taker[t] EXCEPT !.eco = e]
        open == Pending(k.tier, e) \ k.lost IN
    /\ k.at = "select" /\ e \in (IF taker[t].eco = NoEco THEN k.todo ELSE {taker[t].eco})
    /\ PutTaker(t, IF k.tries = CasRetries THEN LeaveEco(k, TRUE)
                   ELSE IF open = {} THEN LeaveEco(k, FALSE)
                   ELSE [k EXCEPT !.at = "cas",
                            !.pick = {CHOOSE r \in open : \A o \in open : Position(r) <= Position(o)}])
    /\ UNCHANGED <<qrow, arrived, upgrader, inserts, upgrades>>

\* Mutant: the UPDATE goes by the id alone.
ClaimableById(r) == qrow[r].st # "done"

\* UPDATE ... WHERE id = row.id AND status = 'pending'
Claimable(r) == qrow[r].st = "pending"

\* Mutant: a lost race moves on to the next ecosystem.
LoseRaceMoveOn(k) == [LeaveEco(k, FALSE) EXCEPT !.pick = {}]

LoseRace(k) ==
    [k EXCEPT !.at = "select", !.lost = @ \union k.pick, !.pick = {}, !.tries = @ + 1]

Cas(t) ==
    /\ taker[t].at = "cas"
    /\ \E r \in taker[t].pick :
        IF Claimable(r)
        THEN /\ qrow' = [qrow EXCEPT ![r].st = "claimed", ![r].by = t]
             /\ taker' = [o \in Takers |->
                   IF o = t THEN [taker[t] EXCEPT !.at = "won"]
                   ELSE [taker[o] EXCEPT !.steady = @ \ {r}]]
        ELSE PutTaker(t, LoseRace(taker[t])) /\ UNCHANGED qrow
    /\ UNCHANGED <<arrived, upgrader, inserts, upgrades>>

\* The worker has processed its row.
FinishRow(t) ==
    /\ taker[t].at = "won"
    /\ \E r \in taker[t].pick : qrow' = [qrow EXCEPT ![r].st = "done", ![r].by = NoTaker]
    /\ PutTaker(t, IdleTaker)
    /\ UNCHANGED <<arrived, upgrader, inserts, upgrades>>

-----------------------------------------------------------------------------
(* enqueue                                                                 *)

\* A new row; or the reset of a done row for a rescan, which keeps enqueued_at.
EnqueueRow(r, prio) ==
    /\ qrow[r].st \in {"absent", "done"} /\ inserts < MaxInserts
    /\ qrow' = [qrow EXCEPT ![r].st = "pending", ![r].prio = prio]
    /\ arrived' = IF qrow[r].st = "absent" THEN Append(arrived, r) ELSE arrived
    /\ inserts' = inserts + 1
    /\ UNCHANGED <<taker, upgrader, upgrades>>

\* The row is read; a better priority is written by the flush, over whatever the
\* row has become.
ReadPriority(u, r, want) ==
    /\ upgrader[u] = IdleUpgrader /\ upgrades < MaxUpgrades
    /\ qrow[r].st \in {"pending", "claimed"} /\ want < qrow[r].prio
    /\ upgrader' = [upgrader EXCEPT ![u] = [row |-> {r}, want |-> want]]
    /\ upgrades' = upgrades + 1
    /\ UNCHANGED <<qrow, arrived, taker, inserts>>

FlushPriority(u) ==
    /\ \E r \in upgrader[u].row :
        /\ qrow' = [qrow EXCEPT ![r].prio = upgrader[u].want]
        /\ taker' = [t \in Takers |-> [taker[t] EXCEPT !.steady = @ \ {r}]]
    /\ upgrader' = [upgrader EXCEPT ![u] = IdleUpgrader]
    /\ UNCHANGED <<arrived, inserts, upgrades>>

ClaimNextStep ==
    \/ \E t \in Takers :
        \/ BeginClaim(t) \/ ReadTier(t) \/ Cas(t) \/ FinishRow(t)
        \/ \E e \in Ecos : SelectOldest(t, e)
    \/ \E r \in Rows, prio \in Priorities :
        EnqueueRow(r, prio) \/ \E u \in Upgraders : ReadPriority(u, r, prio)
    \/ \E u \in Upgraders : FlushPriority(u)

ClaimSpec == ClaimInit /\ [][ClaimNextStep]_claimVars

-----------------------------------------------------------------------------
(* Properties                                                              *)

\* A worker leaves a row of a better tier behind, or comes back with nothing, only if the row
\* was not there in its present tier when the claim began, or every retry in its
\* tier and ecosystem was lost to other workers; and it takes no row over an older one
\* of the same tier and ecosystem.
TiersRespected ==
    \A t \in Takers : \A r \in taker[t].steady :
        LET k == taker[t] IN
        /\ qrow[r].prio < k.tier => <<qrow[r].prio, EcoOf(r)>> \in k.spent
        /\ k.at = "won" => \A p \in k.pick :
            qrow[r].prio = k.tier /\ EcoOf(r) = EcoOf(p) => Position(p) <= Position(r)

\* A row is an item, and the worker it is claimed by holds it.
WQ == INSTANCE WorkQueue WITH
        Items <- Rows, Workers <- Takers, Nobody <- NoTaker,
        work <- [r \in Rows |-> CASE qrow[r].st = "absent" -> "absent"
                                  [] qrow[r].st = "done" -> "closed"
                                  [] OTHER -> "open"],
        holder <- [r \in Rows |-> qrow[r].by]

\* The queue keeps the promise of WorkQueue: of all workers that select a row one is
\* handed it, and it is closed by that worker before it can be submitted again.
ImplementsWorkQueue == WQ!WorkSpec
=============================================================================
