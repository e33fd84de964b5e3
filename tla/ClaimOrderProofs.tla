-------------------------- MODULE ClaimOrderProofs --------------------------
(***************************************************************************)
(* claim_next for every number of workers, rows, ecosystems and enqueueing *)
(* transactions: it implements WorkQueue, and it honours the priorities    *)
(* and the age of the rows.                                                *)
(***************************************************************************)
EXTENDS ClaimOrder, DataLemmas

-----------------------------------------------------------------------------
(* Types                                                                   *)

Phases == {"idle", "tier", "select", "cas", "won"}
TakerRec ==
    [at : Phases, tier : 0 .. NoTier, todo : SUBSET Ecos, eco : Ecos \union {NoEco},
     pick : SUBSET Rows, lost : SUBSET Rows, tries : 0 .. CasRetries, steady : SUBSET Rows,
     spent : SUBSET (Tiers \X Ecos)]
UpgraderRec == [row : SUBSET Rows, want : Tiers]

\* A worker looks for a row only in the three tiers, and it still has a retry when it
\* has picked one; a row has a place in the order of arrival once it is there.
TakerSound(k) ==
    /\ k \in TakerRec
    /\ k.at \in {"select", "cas"} => k.tier \in Tiers
    /\ k.at \in {"cas", "won"} => \E r \in Rows : k.pick = {r} /\ EcoOf(r) = k.eco
    /\ k.at = "cas" => k.tries < CasRetries
    /\ k.at = "idle" => k.steady = {}

Arrivals ==
    /\ arrived \in Seq(Rows)
    /\ \A i, j \in DOMAIN arrived : arrived[i] = arrived[j] => i = j
    /\ \A r \in Rows : qrow[r].st = "absent" <=> r \notin ToSet(arrived)

CTInv ==
    /\ qrow \in [Rows -> QRow]
    /\ taker \in [Takers -> TakerRec] /\ \A t \in Takers : TakerSound(taker[t])
    /\ upgrader \in [Upgraders -> UpgraderRec]
    /\ inserts \in 0 .. MaxInserts /\ upgrades \in 0 .. MaxUpgrades
    /\ Arrivals

\* What leaving an ecosystem makes of a worker's record.
LEMMA LeaveEcoFields ==
    ASSUME NEW k \in TakerRec, k.tier \in Tiers, k.eco \in Ecos, NEW g \in BOOLEAN
    PROVE  LET rest == k.todo \ {k.eco} IN
           /\ LeaveEco(k, g) \in TakerRec /\ LeaveEco(k, g).todo = rest
           /\ LeaveEco(k, g).lost = {} /\ LeaveEco(k, g).steady = k.steady
           /\ LeaveEco(k, g).at = (IF rest = {} THEN "tier" ELSE "select")
           /\ LeaveEco(k, g).tier = (IF rest = {} THEN k.tier + 1 ELSE k.tier)
           /\ LeaveEco(k, g).spent = (IF g THEN k.spent \union {<<k.tier, k.eco>>} ELSE k.spent)
  <1> DEFINE rest == k.todo \ {k.eco}
             a == IF rest = {} THEN "tier" ELSE "select"
             n == IF rest = {} THEN k.tier + 1 ELSE k.tier
             sp == IF g THEN k.spent \union {<<k.tier, k.eco>>} ELSE k.spent
             q == [k EXCEPT !.eco = NoEco, !.todo = rest, !.lost = {}, !.tries = 0,
                            !.at = a, !.tier = n, !.spent = sp]
  <1>1. CasRetries \in Nat /\ 0 \in 0 .. CasRetries
    BY ClaimOrderAssumption
  <1>2. rest \in SUBSET Ecos /\ a \in Phases
    BY DEF TakerRec, Phases
  <1>3. n \in 0 .. NoTier
    BY DEF Tiers, NoTier
  <1>4. sp \in SUBSET (Tiers \X Ecos)
    BY DEF TakerRec
  <1>5. NoEco \in Ecos \union {NoEco}
    OBVIOUS
  <1>6. LeaveEco(k, g) = q
    BY DEF LeaveEco
  <1> HIDE DEF rest, a, n, sp
  <1>7. /\ q \in TakerRec /\ q.todo = rest /\ q.lost = {} /\ q.steady = k.steady
        /\ q.at = a /\ q.tier = n /\ q.spent = sp
    BY <1>1, <1>2, <1>3, <1>4, <1>5 DEF TakerRec
  <1> QED
    BY <1>6, <1>7 DEF rest, a, n, sp

\* What a lost race makes of it.
LEMMA LoseRaceFields ==
    ASSUME NEW k \in TakerRec, k.tries < CasRetries
    PROVE  /\ LoseRace(k) \in TakerRec /\ LoseRace(k).at = "select"
           /\ LoseRace(k).lost = k.lost \union k.pick /\ LoseRace(k).eco = k.eco
           /\ LoseRace(k).tier = k.tier /\ LoseRace(k).todo = k.todo
           /\ LoseRace(k).steady = k.steady /\ LoseRace(k).spent = k.spent
  <1>1. k.tries + 1 \in 0 .. CasRetries
    BY ClaimOrderAssumption DEF TakerRec
  <1>2. k.lost \union k.pick \in SUBSET Rows /\ {} \in SUBSET Rows /\ "select" \in Phases
    BY DEF TakerRec, Phases
  <1> QED
    BY <1>1, <1>2 DEF LoseRace, TakerRec

\* A worker between two claims is sound.
LEMMA IdleTakerSound ==
    IdleTaker \in TakerRec /\ IdleTaker.at = "idle" /\ IdleTaker.steady = {} /\ TakerSound(IdleTaker)
  <1>1. 0 \in 0 .. CasRetries /\ CasRetries \in Nat
    BY ClaimOrderAssumption
  <1>2. IdleTaker \in TakerRec /\ IdleTaker.at = "idle" /\ IdleTaker.steady = {}
    BY <1>1 DEF IdleTaker, TakerRec, Phases, NoTier
  <1> QED
    BY <1>2 DEF TakerSound

-----------------------------------------------------------------------------
(* The order of arrival                                                    *)

\* A row that has arrived has one place in the order of arrival.
LEMMA PositionOf ==
    ASSUME Arrivals, NEW r \in ToSet(arrived)
    PROVE  Position(r) \in DOMAIN arrived /\ arrived[Position(r)] = r /\ Position(r) \in Nat
  <1>1. \E i \in DOMAIN arrived : arrived[i] = r
    BY DEF ToSet
  <1>2. Position(r) \in DOMAIN arrived /\ arrived[Position(r)] = r
    BY <1>1 DEF Position
  <1> QED
    BY <1>2 DEF Arrivals

\* It keeps the place when a row arrives that was not there.
LEMMA PositionStable ==
    ASSUME Arrivals, NEW q \in Rows, q \notin ToSet(arrived), arrived' = Append(arrived, q)
    PROVE  /\ arrived' \in Seq(Rows) /\ ToSet(arrived') = ToSet(arrived) \union {q}
           /\ \A i, j \in DOMAIN arrived' : arrived'[i] = arrived'[j] => i = j
           /\ \A r \in ToSet(arrived) : Position(r)' = Position(r)
  <1>1. /\ arrived \in Seq(Rows) /\ Len(arrived) \in Nat /\ DOMAIN arrived = 1 .. Len(arrived)
        /\ arrived' \in Seq(Rows) /\ DOMAIN arrived' = 1 .. Len(arrived) + 1
        /\ \A i \in DOMAIN arrived : arrived'[i] = arrived[i]
        /\ arrived'[Len(arrived) + 1] = q
    BY DEF Arrivals
  <1>2. \A i \in DOMAIN arrived' : i \in DOMAIN arrived \/ i = Len(arrived) + 1
    BY <1>1
  <1>3. \A i \in DOMAIN arrived : arrived[i] # q
    BY DEF ToSet
  <1>4. ToSet(arrived') = ToSet(arrived) \union {q}
    <2>1. \A i \in DOMAIN arrived : i \in DOMAIN arrived'
      BY <1>1
    <2>2. Len(arrived) + 1 \in DOMAIN arrived'
      BY <1>1
    <2> QED
      BY <1>1, <1>2, <2>1, <2>2 DEF ToSet
  <1>5. \A i, j \in DOMAIN arrived' : arrived'[i] = arrived'[j] => i = j
    BY <1>1, <1>2, <1>3 DEF Arrivals
  <1>6. ASSUME NEW r \in ToSet(arrived)
        PROVE  Position(r)' = Position(r)
    <2>1. Position(r) \in DOMAIN arrived /\ arrived[Position(r)] = r
      BY PositionOf
    <2>2. Position(r) \in DOMAIN arrived' /\ arrived'[Position(r)] = r
      BY <1>1, <2>1
    <2>3. \A i \in DOMAIN arrived' : arrived'[i] = r => i = Position(r)
      BY <1>5, <2>2
    <2>4. Position(r)' \in DOMAIN arrived' /\ arrived'[Position(r)'] = r
      BY <2>2 DEF Position
    <2> QED
      BY <2>3, <2>4
  <1> QED
    BY <1>1, <1>4, <1>5, <1>6

\* Some row of a set of arrived rows is the oldest one.
LEMMA OldestExists ==
    ASSUME Arrivals, NEW S \in SUBSET ToSet(arrived), S # {}
    PROVE  \E r \in S : \A o \in S : Position(r) <= Position(o)
  <1> DEFINE P == {Position(r) : r \in S}
  <1>1. P \in SUBSET Nat /\ P # {}
    BY PositionOf
  <1> HIDE DEF P
  <1>2. PICK m \in P : \A n \in P : m <= n
    BY <1>1, LeastNat
  <1> QED
    BY <1>2 DEF P

-----------------------------------------------------------------------------
(* Who holds a row.                                                        *)

\* A row that is claimed is the pick of the worker whose token it has, and what a
\* worker has won is claimed by it.
HoldInv ==
    \A r \in Rows :
        /\ qrow[r].st # "claimed" => qrow[r].by = NoTaker
        /\ \A t \in Takers : qrow[r].by = t => taker[t].at = "won" /\ taker[t].pick = {r}
        /\ \A t \in Takers :
            taker[t].at = "won" /\ r \in taker[t].pick => qrow[r].st = "claimed" /\ qrow[r].by = t

-----------------------------------------------------------------------------
(* What a claim has to show for the steady rows.                           *)

OrderOf(k) ==
    /\ k.at \in {"cas", "won"} => \A p \in k.pick : qrow[p].st # "absent"
    /\ \A r \in k.steady :
        /\ qrow[r].st = "pending" \/ (k.at = "won" /\ r \in k.pick)
        /\ r \notin k.lost
        /\ qrow[r].prio < k.tier => <<qrow[r].prio, EcoOf(r)>> \in k.spent
        /\ k.at \in {"select", "cas"} /\ qrow[r].prio = k.tier =>
            EcoOf(r) \in k.todo \/ <<k.tier, EcoOf(r)>> \in k.spent
        /\ k.at \in {"cas", "won"} /\ qrow[r].prio = k.tier /\ EcoOf(r) = k.eco =>
            \A p \in k.pick : Position(p) <= Position(r)

OrderInv == \A t \in Takers : OrderOf(taker[t])

CInv == CTInv /\ HoldInv /\ OrderInv

-----------------------------------------------------------------------------
(* The steps                                                               *)

\* What the invariants say of one worker, and the place of the rows it names.
LEMMA TakerFacts ==
    ASSUME CInv, NEW t \in Takers
    PROVE  /\ taker[t] \in TakerRec /\ TakerSound(taker[t]) /\ OrderOf(taker[t])
           /\ taker \in [Takers -> TakerRec] /\ qrow \in [Rows -> QRow]
           /\ \A r \in Rows : qrow[r].prio \in Tiers /\ qrow[r] \in QRow
           /\ \A r \in Rows : qrow[r].st # "absent" => r \in ToSet(arrived)
  BY DEF CInv, CTInv, OrderInv, Arrivals, QRow

\* A worker that has not won anything, and does not by this step, changes its own
\* record only.
LEMMA TakerStep ==
    ASSUME CInv, NEW t \in Takers, NEW q, TakerSound(q), OrderOf(q),
           taker[t].at # "won", q.at # "won", PutTaker(t, q),
           UNCHANGED <<qrow, arrived, upgrader, inserts, upgrades>>
    PROVE  CInv'
  <1>1. taker \in [Takers -> TakerRec] /\ q \in TakerRec /\ taker' = [taker EXCEPT ![t] = q]
    BY DEF CInv, CTInv, TakerSound, PutTaker
  <1>2. taker'[t] = q /\ \A u \in Takers : u # t => taker'[u] = taker[u]
    BY <1>1
  <1>3. CTInv'
    <2>1. taker' \in [Takers -> TakerRec] /\ \A u \in Takers : TakerSound(taker'[u])
      BY <1>1, <1>2 DEF CInv, CTInv
    <2> QED
      BY <2>1 DEF CInv, CTInv, Arrivals, TakerSound
  <1>4. HoldInv'
    BY <1>2 DEF CInv, HoldInv
  <1>5. OrderInv'
    <2>1. OrderOf(taker[t])'
      BY <1>2 DEF OrderOf, Position
    <2>2. ASSUME NEW u \in Takers, u # t
          PROVE  OrderOf(taker[u])'
      <3>1. OrderOf(taker[u]) /\ taker'[u] = taker[u]
        BY <1>2, <2>2 DEF CInv, OrderInv
      <3> QED
        BY <3>1 DEF OrderOf, Position
    <2> QED
      BY <2>1, <2>2 DEF OrderInv
  <1> QED
    BY <1>3, <1>4, <1>5 DEF CInv

\* claim_next begins, counts a tier and selects the oldest row of an ecosystem.
LEMMA LookSteps ==
    ASSUME CInv, NEW t \in Takers,
           BeginClaim(t) \/ ReadTier(t) \/ \E e \in Ecos : SelectOldest(t, e)
    PROVE  CInv'
  <1> DEFINE k == taker[t]
  <1>1. /\ k \in TakerRec /\ TakerSound(k) /\ OrderOf(k)
        /\ \A r \in Rows : qrow[r].prio \in Tiers /\ (qrow[r].st # "absent" => r \in ToSet(arrived))
    BY TakerFacts
  <1>2. 0 \in 0 .. CasRetries /\ CasRetries \in Nat
    BY ClaimOrderAssumption
  <1>3. TakerSound(IdleTaker) /\ OrderOf(IdleTaker) /\ IdleTaker.at # "won"
    BY IdleTakerSound DEF OrderOf
  <1>4. CASE BeginClaim(t)
    <2> DEFINE S == {r \in Rows : qrow[r].st = "pending"}
               q == [IdleTaker EXCEPT !.at = "tier", !.steady = S]
    <2>1. S \in SUBSET Rows
      OBVIOUS
    <2> HIDE DEF S
    <2>2. /\ q \in TakerRec /\ q.at = "tier" /\ q.steady = S /\ q.lost = {} /\ q.tier = 0
      <3>1. IdleTaker \in TakerRec /\ IdleTaker.lost = {} /\ IdleTaker.tier = 0 /\ "tier" \in Phases
        BY IdleTakerSound DEF IdleTaker, Phases
      <3> QED
        BY <2>1, <3>1 DEF TakerRec
    <2> HIDE DEF q
    <2>3. TakerSound(q)
      BY <2>2 DEF TakerSound
    <2>4. OrderOf(q)
      BY <1>1, <2>2 DEF OrderOf, S, Tiers
    <2>5. PutTaker(t, q) /\ k.at = "idle"
      BY <1>4 DEF BeginClaim, S, q
    <2> QED
      BY <1>4, <2>2, <2>3, <2>4, <2>5, TakerStep DEF BeginClaim
  <1>5. CASE ReadTier(t)
    <2> DEFINE ecos == {e \in Ecos : Pending(k.tier, e) # {}}
    <2>1. k.at = "tier" /\ UNCHANGED <<qrow, arrived, upgrader, inserts, upgrades>>
      BY <1>5 DEF ReadTier
    <2>2. \A r \in k.steady : r \in Rows /\ qrow[r].st = "pending" /\ r \notin k.lost
      BY <1>1, <2>1 DEF OrderOf, TakerRec
    <2>3. \A r \in k.steady : qrow[r].prio = k.tier => EcoOf(r) \in ecos
      BY <2>2 DEF Pending, Ecos
    <2>4. k.tier \in 0 .. NoTier
      BY <1>1 DEF TakerRec
    <2>5. CASE k.tier = NoTier
      <3>1. PutTaker(t, IdleTaker)
        BY <1>5, <2>5 DEF ReadTier
      <3> QED
        BY <1>3, <2>1, <3>1, TakerStep
    <2>6. CASE k.tier # NoTier /\ ecos = {}
      <3> DEFINE q == [k EXCEPT !.tier = @ + 1]
      <3>1. k.tier + 1 \in 0 .. NoTier
        BY <2>4, <2>6 DEF NoTier
      <3>2. /\ q \in TakerRec /\ q.at = "tier" /\ q.steady = k.steady /\ q.lost = k.lost
            /\ q.tier = k.tier + 1 /\ q.spent = k.spent
        BY <1>1, <2>1, <3>1 DEF TakerRec
      <3>3. PutTaker(t, q)
        BY <1>5, <2>6 DEF ReadTier
      <3> HIDE DEF q
      <3>4. TakerSound(q)
        BY <3>2 DEF TakerSound
      <3>5. OrderOf(q)
        <4> SUFFICES ASSUME NEW r \in k.steady, qrow[r].prio < k.tier + 1
                     PROVE  <<qrow[r].prio, EcoOf(r)>> \in k.spent
          BY <2>2, <3>2 DEF OrderOf
        <4>1. qrow[r].prio < k.tier
          BY <1>1, <2>2, <2>3, <2>4, <2>6 DEF Tiers, NoTier
        <4> QED
          BY <1>1, <4>1 DEF OrderOf
      <3> QED
        BY <2>1, <3>2, <3>3, <3>4, <3>5, TakerStep
    <2>7. CASE k.tier # NoTier /\ ecos # {}
      <3> DEFINE q == [k EXCEPT !.at = "select", !.todo = ecos]
      <3>1. ecos \in SUBSET Ecos /\ k.tier \in Tiers
        BY <2>4, <2>7 DEF NoTier, Tiers
      <3>2. PutTaker(t, q)
        BY <1>5, <2>7 DEF ReadTier
      <3> HIDE DEF ecos
      <3>3. /\ q \in TakerRec /\ q.at = "select" /\ q.steady = k.steady /\ q.lost = k.lost
            /\ q.tier = k.tier /\ q.spent = k.spent /\ q.todo = ecos
        BY <1>1, <2>1, <3>1 DEF TakerRec, Phases
      <3> HIDE DEF q
      <3>4. TakerSound(q)
        BY <3>1, <3>3 DEF TakerSound
      <3>5. OrderOf(q)
        BY <1>1, <2>2, <2>3, <3>3 DEF OrderOf
      <3> QED
        BY <2>1, <3>2, <3>3, <3>4, <3>5, TakerStep
    <2> QED
      BY <2>5, <2>6, <2>7
  <1>6. ASSUME NEW e \in Ecos, SelectOldest(t, e)
        PROVE  CInv'
    <2> DEFINE c == [k EXCEPT !.eco = e]
               open == Pending(c.tier, e) \ c.lost
    <2>1. k.at = "select" /\ UNCHANGED <<qrow, arrived, upgrader, inserts, upgrades>>
      BY <1>1, <1>6 DEF SelectOldest, TakerRec
    <2>2. k.tier \in Tiers
      BY <1>1, <2>1 DEF TakerSound
    <2>3. /\ c \in TakerRec /\ c.eco = e /\ c.at = k.at /\ c.tier = k.tier /\ c.todo = k.todo
          /\ c.lost = k.lost /\ c.tries = k.tries /\ c.steady = k.steady /\ c.spent = k.spent
      BY <1>1 DEF TakerRec
    <2>4. PutTaker(t, IF c.tries = CasRetries THEN LeaveEco(c, TRUE)
                      ELSE IF open = {} THEN LeaveEco(c, FALSE)
                      ELSE [c EXCEPT !.at = "cas",
                               !.pick = {CHOOSE r \in open : \A o \in open : Position(r) <= Position(o)}])
      BY <1>6 DEF SelectOldest
    <2>5. \A r \in k.steady : r \in Rows /\ qrow[r].st = "pending" /\ r \notin k.lost
      BY <1>1, <2>1 DEF OrderOf, TakerRec
    <2>6. \A r \in k.steady : qrow[r].prio = k.tier /\ EcoOf(r) = e => r \in open
      BY <2>3, <2>5 DEF Pending
    <2> HIDE DEF c, open
    <2>7. ASSUME NEW g \in BOOLEAN, PutTaker(t, LeaveEco(c, g)), g \/ open = {}
          PROVE  CInv'
      <3> DEFINE q == LeaveEco(c, g)
                 rest == c.todo \ {e}
      <3>1. /\ q \in TakerRec /\ q.todo = rest /\ q.lost = {} /\ q.steady = k.steady
            /\ q.at = (IF rest = {} THEN "tier" ELSE "select")
            /\ q.tier = (IF rest = {} THEN k.tier + 1 ELSE k.tier)
            /\ q.spent = (IF g THEN k.spent \union {<<k.tier, e>>} ELSE k.spent)
        <4>1. c.eco \in Ecos /\ c.tier \in Tiers /\ c \in TakerRec
          BY <1>6, <2>2, <2>3
        <4> QED
          BY <2>3, <4>1, LeaveEcoFields
      <3> HIDE DEF q, rest
      <3>2. TakerSound(q)
        BY <2>2, <3>1 DEF TakerSound
      <3>3. ASSUME NEW r \in k.steady, qrow[r].prio = k.tier
            PROVE  EcoOf(r) \in rest \/ <<k.tier, EcoOf(r)>> \in q.spent
        <4>1. EcoOf(r) \in k.todo \/ <<k.tier, EcoOf(r)>> \in k.spent
          BY <1>1, <2>1, <3>3 DEF OrderOf
        <4>2. EcoOf(r) = e => g
          BY <2>6, <2>7, <3>3
        <4> QED
          BY <2>3, <3>1, <4>1, <4>2 DEF rest
      <3>4. OrderOf(q)
        <4>1. ASSUME NEW r \in k.steady, qrow[r].prio < q.tier
              PROVE  <<qrow[r].prio, EcoOf(r)>> \in q.spent
          <5>1. CASE qrow[r].prio = k.tier
            <6>1. rest = {}
              BY <2>2, <3>1, <4>1, <5>1 DEF Tiers
            <6> QED
              BY <3>3, <5>1, <6>1
          <5>2. CASE qrow[r].prio # k.tier
            <6>1. qrow[r].prio < k.tier
              BY <1>1, <2>2, <2>5, <3>1, <4>1, <5>2 DEF Tiers
            <6> QED
              BY <1>1, <3>1, <6>1 DEF OrderOf
          <5> QED
            BY <5>1, <5>2
        <4>2. ASSUME NEW r \in k.steady, q.at = "select", qrow[r].prio = q.tier
              PROVE  EcoOf(r) \in q.todo \/ <<q.tier, EcoOf(r)>> \in q.spent
          BY <3>1, <3>3, <4>2
        <4> QED
          BY <2>5, <3>1, <4>1, <4>2 DEF OrderOf
      <3>5. q.at # "won"
        BY <3>1
      <3> QED
        BY <2>1, <2>7, <3>2, <3>4, <3>5, TakerStep DEF q
    <2>8. CASE c.tries = CasRetries
      BY <2>4, <2>7, <2>8
    <2>9. CASE c.tries # CasRetries /\ open = {}
      BY <2>4, <2>7, <2>9
    <2>10. CASE c.tries # CasRetries /\ open # {}
      <3> DEFINE p == CHOOSE r \in open : \A o \in open : Position(r) <= Position(o)
                 q == [c EXCEPT !.at = "cas", !.pick = {p}]
      <3>1. open \in SUBSET ToSet(arrived) /\ \A r \in open : r \in Rows /\ EcoOf(r) = e
        BY <1>1 DEF open, Pending
      <3>2. Arrivals
        BY DEF CInv, CTInv
      <3>3. p \in open /\ \A o \in open : Position(p) <= Position(o)
        BY <2>10, <3>1, <3>2, OldestExists
      <3>4. PutTaker(t, q)
        BY <2>4, <2>10
      <3> HIDE DEF p
      <3>5. /\ q \in TakerRec /\ q.at = "cas" /\ q.pick = {p} /\ q.eco = e /\ q.tier = k.tier
            /\ q.todo = k.todo /\ q.lost = k.lost /\ q.tries = k.tries /\ q.steady = k.steady
            /\ q.spent = k.spent
        BY <2>3, <3>1, <3>3 DEF TakerRec, Phases
      <3> HIDE DEF q
      <3>6. TakerSound(q)
        <4>1. k.tries < CasRetries
          BY <1>1, <1>2, <2>3, <2>10 DEF TakerRec
        <4> QED
          BY <2>2, <3>1, <3>3, <3>5, <4>1 DEF TakerSound
      <3>7. OrderOf(q)
        <4>1. qrow[p].st # "absent"
          BY <3>3 DEF open, Pending
        <4>2. ASSUME NEW r \in k.steady
              PROVE  /\ qrow[r].prio < k.tier => <<qrow[r].prio, EcoOf(r)>> \in k.spent
                     /\ qrow[r].prio = k.tier => EcoOf(r) \in k.todo \/ <<k.tier, EcoOf(r)>> \in k.spent
          BY <1>1, <2>1 DEF OrderOf
        <4> QED
          BY <2>5, <2>6, <3>3, <3>5, <4>1, <4>2 DEF OrderOf
      <3> QED
        BY <2>1, <3>4, <3>5, <3>6, <3>7, TakerStep
    <2> QED
      BY <2>8, <2>9, <2>10
  <1> QED
    BY <1>4, <1>5, <1>6

\* A row that leaves the steady rows of a worker.
LEMMA ShrinkFields ==
    ASSUME NEW k \in TakerRec, NEW r, TakerSound(k)
    PROVE  LET q == [k EXCEPT !.steady = @ \ {r}] IN
           /\ q \in TakerRec /\ TakerSound(q) /\ q.at = k.at /\ q.tier = k.tier /\ q.todo = k.todo
           /\ q.eco = k.eco /\ q.pick = k.pick /\ q.lost = k.lost /\ q.steady = k.steady \ {r}
           /\ q.spent = k.spent
  <1> DEFINE q == [k EXCEPT !.steady = @ \ {r}]
  <1>1. /\ q \in TakerRec /\ q.at = k.at /\ q.tier = k.tier /\ q.todo = k.todo
        /\ q.eco = k.eco /\ q.pick = k.pick /\ q.lost = k.lost /\ q.steady = k.steady \ {r}
        /\ q.spent = k.spent /\ q.tries = k.tries
    BY DEF TakerRec
  <1> HIDE DEF q
  <1>2. TakerSound(q)
    BY <1>1 DEF TakerSound
  <1> QED
    BY <1>1, <1>2 DEF q

\* A step that writes one row, which is no longer a steady row of any worker but
\* possibly its new holder, keeps the order for everyone else.
LEMMA OrderFrame ==
    ASSUME CInv, NEW u \in Takers, NEW r \in Rows,
           \A x \in Rows : x # r => qrow'[x] = qrow[x],
           qrow'[r].st # "absent",
           taker'[u].steady \subseteq taker[u].steady \ {r},
           taker'[u].at = taker[u].at, taker'[u].tier = taker[u].tier, taker'[u].todo = taker[u].todo,
           taker'[u].eco = taker[u].eco, taker'[u].pick = taker[u].pick, taker'[u].lost = taker[u].lost,
           taker'[u].spent = taker[u].spent,
           \A x \in ToSet(arrived) : Position(x)' = Position(x)
    PROVE  OrderOf(taker[u])'
  <1>1. /\ taker[u] \in TakerRec /\ OrderOf(taker[u])
        /\ \A x \in Rows : qrow[x].st # "absent" => x \in ToSet(arrived)
    BY TakerFacts
  <1>2. ASSUME NEW x \in taker'[u].steady
        PROVE  x \in taker[u].steady /\ qrow'[x] = qrow[x] /\ x \in Rows
    BY <1>1, <1>2 DEF TakerRec
  <1>3. ASSUME taker[u].at \in {"cas", "won"}, NEW p \in taker[u].pick
        PROVE  p \in ToSet(arrived) /\ qrow'[p].st # "absent"
    <2>1. p \in Rows /\ qrow[p].st # "absent"
      BY <1>1, <1>3 DEF OrderOf, TakerRec
    <2> QED
      BY <1>1, <2>1
  <1>4. ASSUME NEW x \in taker[u].steady
        PROVE  x \in ToSet(arrived)
    <2>1. x \in Rows /\ (qrow[x].st = "pending" \/ (taker[u].at = "won" /\ x \in taker[u].pick))
      BY <1>1, <1>4 DEF OrderOf, TakerRec
    <2> QED
      BY <1>1, <1>3, <2>1
  <1> QED
    BY <1>1, <1>2, <1>3, <1>4 DEF OrderOf

\* The compare-and-set of claim_next and the end of the work on a row.
LEMMA HoldSteps ==
    ASSUME CInv, NEW t \in Takers, Cas(t) \/ FinishRow(t)
    PROVE  CInv'
  <1> DEFINE k == taker[t]
  <1>1. /\ k \in TakerRec /\ TakerSound(k) /\ OrderOf(k)
        /\ taker \in [Takers -> TakerRec] /\ qrow \in [Rows -> QRow]
        /\ \A r \in Rows : qrow[r].prio \in Tiers /\ qrow[r] \in QRow
        /\ \A u \in Takers : taker[u] \in TakerRec /\ TakerSound(taker[u]) /\ OrderOf(taker[u])
    BY TakerFacts
  <1>2. PICK r \in Rows : k.pick = {r} /\ EcoOf(r) = k.eco
    BY <1>1 DEF Cas, FinishRow, TakerSound
  <1>3. HoldInv /\ Arrivals /\ CTInv
    BY DEF CInv, CTInv
  <1>4. UNCHANGED <<arrived, upgrader, inserts, upgrades>>
    BY DEF Cas, FinishRow
  <1>5. CASE Cas(t) /\ ~Claimable(r)
    <2> DEFINE q == LoseRace(k)
    <2>1. k.at = "cas" /\ PutTaker(t, q) /\ qrow' = qrow
      BY <1>2, <1>5 DEF Cas
    <2>2. k.tries < CasRetries /\ k.tier \in Tiers
      BY <1>1, <2>1 DEF TakerSound
    <2>3. /\ q \in TakerRec /\ q.at = "select" /\ q.lost = k.lost \union k.pick /\ q.eco = k.eco
          /\ q.tier = k.tier /\ q.todo = k.todo /\ q.steady = k.steady /\ q.spent = k.spent
      BY <1>1, <2>2, LoseRaceFields
    <2> HIDE DEF q
    <2>4. TakerSound(q)
      BY <2>2, <2>3 DEF TakerSound
    <2>5. \A x \in k.steady : qrow[x].st = "pending" /\ x # r
      BY <1>1, <1>5, <2>1 DEF OrderOf, Claimable
    <2>6. OrderOf(q)
      BY <1>1, <1>2, <2>1, <2>3, <2>5 DEF OrderOf
    <2> QED
      BY <1>4, <2>1, <2>3, <2>4, <2>6, TakerStep
  <1>6. CASE Cas(t) /\ Claimable(r)
    <2>1. /\ k.at = "cas" /\ qrow[r].st = "pending"
          /\ qrow' = [qrow EXCEPT ![r] = [qrow[r] EXCEPT !.st = "claimed", !.by = t]]
          /\ taker' = [o \in Takers |-> IF o = t THEN [taker[t] EXCEPT !.at = "won"]
                                        ELSE [taker[o] EXCEPT !.steady = @ \ {r}]]
      BY <1>1, <1>2, <1>6 DEF Cas, Claimable
    <2>2. /\ qrow' \in [Rows -> QRow] /\ qrow'[r].st = "claimed" /\ qrow'[r].by = t
          /\ qrow'[r].prio = qrow[r].prio /\ \A x \in Rows : x # r => qrow'[x] = qrow[x]
      BY <1>1, <2>1 DEF QRow
    <2>3. /\ taker'[t] \in TakerRec /\ taker'[t].at = "won" /\ taker'[t].pick = {r}
          /\ taker'[t].eco = k.eco /\ taker'[t].tier = k.tier /\ taker'[t].todo = k.todo
          /\ taker'[t].lost = k.lost /\ taker'[t].steady = k.steady /\ taker'[t].spent = k.spent
      BY <1>1, <1>2, <2>1 DEF TakerRec, Phases
    <2>4. TakerSound(taker'[t])
      BY <1>2, <2>3 DEF TakerSound
    <2>5. ASSUME NEW o \in Takers, o # t
          PROVE  /\ taker'[o] \in TakerRec /\ TakerSound(taker'[o]) /\ taker'[o].at = taker[o].at
                 /\ taker'[o].tier = taker[o].tier /\ taker'[o].todo = taker[o].todo
                 /\ taker'[o].eco = taker[o].eco /\ taker'[o].pick = taker[o].pick
                 /\ taker'[o].lost = taker[o].lost /\ taker'[o].steady = taker[o].steady \ {r}
                 /\ taker'[o].spent = taker[o].spent
      <3>1. taker'[o] = [taker[o] EXCEPT !.steady = @ \ {r}]
        BY <2>1, <2>5
      <3> QED
        BY <1>1, <3>1, ShrinkFields
    <2>6. CTInv'
      <3>1. taker' \in [Takers -> TakerRec]
        BY <2>1, <2>3, <2>5
      <3>2. \A o \in Takers : TakerSound(taker[o])'
        BY <2>4, <2>5 DEF TakerSound
      <3>3. Arrivals'
        BY <1>3, <1>4, <2>1, <2>2 DEF Arrivals
      <3> QED
        BY <1>3, <1>4, <2>2, <3>1, <3>2, <3>3 DEF CTInv
    <2>7. HoldInv'
      <3>1. \A x \in Rows : qrow'[x].st # "claimed" => qrow'[x].by = NoTaker
        BY <1>3, <2>2 DEF HoldInv
      <3>2. ASSUME NEW x \in Rows, NEW o \in Takers, qrow'[x].by = o
            PROVE  taker'[o].at = "won" /\ taker'[o].pick = {x}
        <4>1. CASE x = r
          BY <2>2, <2>3, <3>2, <4>1
        <4>2. CASE x # r
          <5>1. taker[o].at = "won" /\ taker[o].pick = {x}
            BY <1>3, <2>2, <3>2, <4>2 DEF HoldInv
          <5> QED
            BY <2>1, <2>5, <5>1
        <4> QED
          BY <4>1, <4>2
      <3>3. ASSUME NEW o \in Takers, NEW x \in Rows, taker'[o].at = "won", x \in taker'[o].pick
            PROVE  qrow'[x].st = "claimed" /\ qrow'[x].by = o
        <4>1. CASE o = t
          BY <2>2, <2>3, <3>3, <4>1
        <4>2. CASE o # t
          <5>1. taker[o].at = "won" /\ x \in taker[o].pick
            BY <2>5, <3>3, <4>2
          <5>2. qrow[x].st = "claimed" /\ qrow[x].by = o
            BY <1>3, <5>1 DEF HoldInv
          <5> QED
            BY <2>1, <2>2, <5>2
        <4> QED
          BY <4>1, <4>2
      <3> QED
        BY <3>1, <3>2, <3>3 DEF HoldInv
    <2>8. OrderInv'
      <3>1. OrderOf(taker[t])'
        <4>1. \A x \in k.steady : x \in Rows /\ qrow[x].st = "pending" /\ qrow'[x].prio = qrow[x].prio
          BY <1>1, <2>1, <2>2 DEF OrderOf, TakerRec
        <4>2. \A x \in k.steady : qrow'[x].st = "pending" \/ x = r
          BY <2>2, <4>1
        <4>3. \A x : Position(x)' = Position(x)
          BY <1>4 DEF Position
        <4> QED
          BY <1>1, <1>2, <2>1, <2>2, <2>3, <4>1, <4>2, <4>3 DEF OrderOf
      <3>2. ASSUME NEW o \in Takers, o # t
            PROVE  OrderOf(taker[o])'
        BY <1>4, <2>2, <2>5, <3>2, OrderFrame DEF Position
      <3> QED
        BY <3>1, <3>2 DEF OrderInv
    <2> QED
      BY <2>6, <2>7, <2>8 DEF CInv
  <1>7. CASE FinishRow(t)
    <2>1. /\ k.at = "won" /\ taker' = [taker EXCEPT ![t] = IdleTaker]
          /\ qrow' = [qrow EXCEPT ![r] = [qrow[r] EXCEPT !.st = "done", !.by = NoTaker]]
      BY <1>1, <1>2, <1>7 DEF FinishRow, PutTaker
    <2>2. /\ qrow' \in [Rows -> QRow] /\ qrow'[r].st = "done" /\ qrow'[r].by = NoTaker
          /\ \A x \in Rows : x # r => qrow'[x] = qrow[x]
      BY <1>1, <2>1 DEF QRow
    <2>3. taker'[t] = IdleTaker /\ \A o \in Takers : o # t => taker'[o] = taker[o]
      BY <1>1, <2>1
    <2>4. qrow[r].st = "claimed" /\ qrow[r].by = t
      BY <1>2, <1>3, <2>1 DEF HoldInv
    <2>5. CTInv'
      <3>1. taker' \in [Takers -> TakerRec]
        BY <1>1, <2>1, IdleTakerSound
      <3>2. \A o \in Takers : TakerSound(taker[o])'
        BY <1>1, <2>3, IdleTakerSound DEF TakerSound
      <3>3. Arrivals'
        BY <1>3, <1>4, <2>2, <2>4 DEF Arrivals
      <3> QED
        BY <1>3, <1>4, <2>2, <3>1, <3>2, <3>3 DEF CTInv
    <2>6. HoldInv'
      <3>1. \A o \in Takers : (o # t /\ taker[o].at = "won") => r \notin taker[o].pick
        BY <1>3, <2>4 DEF HoldInv
      <3>2. \A x \in Rows : x # r => qrow[x].by # t
        BY <1>2, <1>3 DEF HoldInv
      <3>3. \A o \in Takers : qrow'[r].by # o
        BY <2>2, ClaimOrderAssumption
      <3>4. IdleTaker.at # "won"
        BY IdleTakerSound
      <3>5. ASSUME NEW x \in Rows, NEW o \in Takers
            PROVE  /\ qrow'[x].st # "claimed" => qrow'[x].by = NoTaker
                   /\ qrow'[x].by = o => taker'[o].at = "won" /\ taker'[o].pick = {x}
                   /\ taker'[o].at = "won" /\ x \in taker'[o].pick =>
                        qrow'[x].st = "claimed" /\ qrow'[x].by = o
        BY <1>3, <2>2, <2>3, <3>1, <3>2, <3>3, <3>4 DEF HoldInv
      <3>6. \A x \in Rows : qrow'[x].st # "claimed" => qrow'[x].by = NoTaker
        BY <1>3, <2>2 DEF HoldInv
      <3> QED
        BY <3>5, <3>6 DEF HoldInv
    <2>7. OrderInv'
      <3>1. OrderOf(taker[t])'
        BY <2>3, IdleTakerSound DEF OrderOf
      <3>2. ASSUME NEW o \in Takers, o # t
            PROVE  OrderOf(taker[o])'
        <4>1. r \notin taker[o].steady
          BY <1>1, <1>3, <2>4, <3>2 DEF OrderOf, HoldInv
        <4> QED
          BY <1>4, <2>2, <2>3, <3>2, <4>1, OrderFrame DEF Position
      <3> QED
        BY <3>1, <3>2 DEF OrderInv
    <2> QED
      BY <2>5, <2>6, <2>7 DEF CInv
  <1> QED
    BY <1>5, <1>6, <1>7

\* enqueue: a row is inserted or reset, and a priority is read and written.
LEMMA EnqueueSteps ==
    ASSUME CInv,
           \/ \E r \in Rows, p \in Priorities :
                EnqueueRow(r, p) \/ \E u \in Upgraders : ReadPriority(u, r, p)
           \/ \E u \in Upgraders : FlushPriority(u)
    PROVE  CInv'
  <1>1. /\ taker \in [Takers -> TakerRec] /\ qrow \in [Rows -> QRow]
        /\ \A r \in Rows : qrow[r] \in QRow
        /\ \A u \in Takers : taker[u] \in TakerRec /\ TakerSound(taker[u]) /\ OrderOf(taker[u])
        /\ HoldInv /\ Arrivals /\ CTInv
    BY TakerFacts DEF CInv, CTInv
  <1>2. Priorities \subseteq Tiers
    BY ClaimOrderAssumption DEF Tiers
  <1>3. ASSUME NEW r \in Rows, NEW p \in Priorities, EnqueueRow(r, p)
        PROVE  CInv'
    <2>1. /\ qrow[r].st \in {"absent", "done"} /\ UNCHANGED <<taker, upgrader, upgrades>>
          /\ qrow' = [qrow EXCEPT ![r] = [qrow[r] EXCEPT !.st = "pending", !.prio = p]]
          /\ arrived' = IF qrow[r].st = "absent" THEN Append(arrived, r) ELSE arrived
      BY <1>3 DEF EnqueueRow
    <2>2. /\ qrow' \in [Rows -> QRow] /\ qrow'[r].st = "pending" /\ qrow'[r].by = qrow[r].by
          /\ \A x \in Rows : x # r => qrow'[x] = qrow[x]
      BY <1>1, <1>2, <2>1 DEF QRow
    <2>3. Arrivals' /\ \A x \in ToSet(arrived) : Position(x)' = Position(x)
      <3>1. CASE qrow[r].st = "absent"
        <4>1. r \notin ToSet(arrived) /\ arrived' = Append(arrived, r)
          BY <1>1, <2>1, <3>1 DEF Arrivals
        <4>2. /\ arrived' \in Seq(Rows) /\ ToSet(arrived') = ToSet(arrived) \union {r}
              /\ \A i, j \in DOMAIN arrived' : arrived'[i] = arrived'[j] => i = j
              /\ \A x \in ToSet(arrived) : Position(x)' = Position(x)
          BY <1>1, <4>1, PositionStable
        <4>3. \A x \in Rows : qrow'[x].st = "absent" <=> x \notin ToSet(arrived')
          BY <1>1, <2>2, <4>2 DEF Arrivals
        <4> QED
          BY <4>2, <4>3 DEF Arrivals
      <3>2. CASE qrow[r].st # "absent"
        BY <1>1, <2>1, <2>2, <3>2 DEF Arrivals, Position
      <3> QED
        BY <3>1, <3>2
    <2>4. CTInv'
      <3>1. inserts' \in 0 .. MaxInserts
        BY <1>1, <1>3, ClaimOrderAssumption DEF CTInv, EnqueueRow
      <3> QED
        BY <1>1, <2>1, <2>2, <2>3, <3>1 DEF CTInv, TakerSound
    <2>5. HoldInv'
      <3>1. qrow'[r].by = NoTaker /\ \A o \in Takers : taker[o].at = "won" => r \notin taker[o].pick
        BY <1>1, <2>1, <2>2 DEF HoldInv
      <3>2. \A o \in Takers : o # NoTaker
        BY ClaimOrderAssumption
      <3>3. \A x \in Rows : (x # r /\ qrow'[x].st # "claimed") => qrow'[x].by = NoTaker
        BY <1>1, <2>2 DEF HoldInv
      <3>4. ASSUME NEW x \in Rows, NEW o \in Takers
            PROVE  /\ qrow'[x].by = o => taker[o].at = "won" /\ taker[o].pick = {x}
                   /\ taker[o].at = "won" /\ x \in taker[o].pick =>
                        qrow'[x].st = "claimed" /\ qrow'[x].by = o
        <4>1. /\ qrow[x].by = o => taker[o].at = "won" /\ taker[o].pick = {x}
              /\ taker[o].at = "won" /\ x \in taker[o].pick => qrow[x].st = "claimed" /\ qrow[x].by = o
          BY <1>1 DEF HoldInv
        <4>2. x # r => qrow'[x] = qrow[x]
          BY <2>2
        <4> QED
          BY <3>1, <3>2, <4>1, <4>2
      <3> QED
        BY <2>1, <3>1, <3>3, <3>4 DEF HoldInv
    <2>6. ASSUME NEW o \in Takers
          PROVE  OrderOf(taker[o])'
      <3>1. r \notin taker[o].steady
        BY <1>1, <2>1 DEF OrderOf, HoldInv
      <3> QED
        BY <2>1, <2>2, <2>3, <3>1, OrderFrame
    <2> QED
      BY <2>4, <2>5, <2>6 DEF CInv, OrderInv
  <1>4. ASSUME NEW r \in Rows, NEW p \in Priorities, NEW u \in Upgraders, ReadPriority(u, r, p)
        PROVE  CInv'
    <2>1. UNCHANGED <<qrow, arrived, taker, inserts>>
      BY <1>4 DEF ReadPriority
    <2>2. upgrader' \in [Upgraders -> UpgraderRec] /\ upgrades' \in 0 .. MaxUpgrades
      BY <1>1, <1>2, <1>4, ClaimOrderAssumption DEF ReadPriority, CTInv, UpgraderRec
    <2>3. CTInv'
      BY <1>1, <2>1, <2>2 DEF CTInv, TakerSound, Arrivals
    <2>4. HoldInv'
      BY <2>1 DEF CInv, HoldInv
    <2>5. OrderInv'
      BY <2>1 DEF CInv, OrderInv, OrderOf, Position
    <2> QED
      BY <2>3, <2>4, <2>5 DEF CInv
  <1>5. ASSUME NEW u \in Upgraders, FlushPriority(u)
        PROVE  CInv'
    <2>1. upgrader[u] \in UpgraderRec /\ upgrader \in [Upgraders -> UpgraderRec]
      BY <1>1 DEF CTInv
    <2>2. PICK r \in upgrader[u].row :
            /\ qrow' = [qrow EXCEPT ![r] = [qrow[r] EXCEPT !.prio = upgrader[u].want]]
            /\ taker' = [t \in Takers |-> [taker[t] EXCEPT !.steady = @ \ {r}]]
      BY <1>5 DEF FlushPriority
    <2>3. r \in Rows /\ upgrader[u].want \in Tiers
      BY <2>1 DEF UpgraderRec
    <2>4. /\ qrow' \in [Rows -> QRow] /\ qrow'[r].st = qrow[r].st /\ qrow'[r].by = qrow[r].by
          /\ \A x \in Rows : x # r => qrow'[x] = qrow[x]
      BY <1>1, <2>2, <2>3 DEF QRow
    <2>5. UNCHANGED <<arrived, inserts, upgrades>>
      BY <1>5 DEF FlushPriority
    <2>6. ASSUME NEW o \in Takers
          PROVE  /\ taker'[o] \in TakerRec /\ TakerSound(taker'[o]) /\ taker'[o].at = taker[o].at
                 /\ taker'[o].tier = taker[o].tier /\ taker'[o].todo = taker[o].todo
                 /\ taker'[o].eco = taker[o].eco /\ taker'[o].pick = taker[o].pick
                 /\ taker'[o].lost = taker[o].lost /\ taker'[o].steady = taker[o].steady \ {r}
                 /\ taker'[o].spent = taker[o].spent
      <3>1. taker'[o] = [taker[o] EXCEPT !.steady = @ \ {r}]
        BY <2>2
      <3> QED
        BY <1>1, <3>1, ShrinkFields
    <2>7. CTInv'
      <3>1. taker' \in [Takers -> TakerRec]
        BY <2>2, <2>6
      <3>2. \A o \in Takers : TakerSound(taker[o])'
        BY <2>6 DEF TakerSound
      <3>3. Arrivals'
        BY <1>1, <2>4, <2>5 DEF Arrivals
      <3>4. upgrader' \in [Upgraders -> UpgraderRec]
        BY <1>5, <2>1 DEF FlushPriority, IdleUpgrader, UpgraderRec, Tiers
      <3> QED
        BY <1>1, <2>4, <2>5, <3>1, <3>2, <3>3, <3>4 DEF CTInv
    <2>8. HoldInv'
      <3>1. \A x \in Rows : qrow'[x].st = qrow[x].st /\ qrow'[x].by = qrow[x].by
        BY <2>4
      <3>2. ASSUME NEW x \in Rows, NEW o \in Takers
            PROVE  /\ qrow'[x].by = o => taker'[o].at = "won" /\ taker'[o].pick = {x}
                   /\ taker'[o].at = "won" /\ x \in taker'[o].pick =>
                        qrow'[x].st = "claimed" /\ qrow'[x].by = o
        <4>1. /\ qrow[x].by = o => taker[o].at = "won" /\ taker[o].pick = {x}
              /\ taker[o].at = "won" /\ x \in taker[o].pick => qrow[x].st = "claimed" /\ qrow[x].by = o
          BY <1>1 DEF HoldInv
        <4>2. /\ taker'[o].at = taker[o].at /\ taker'[o].pick = taker[o].pick
              /\ qrow'[x].st = qrow[x].st /\ qrow'[x].by = qrow[x].by
          BY <2>6, <3>1
        <4> QED
          BY <4>1, <4>2
      <3>3. \A x \in Rows : qrow'[x].st # "claimed" => qrow'[x].by = NoTaker
        BY <1>1, <3>1 DEF HoldInv
      <3> QED
        BY <3>2, <3>3 DEF HoldInv
    <2>9. ASSUME NEW o \in Takers
          PROVE  OrderOf(taker[o])'
      <3>1. CASE qrow[r].st # "absent"
        BY <2>3, <2>4, <2>5, <2>6, <3>1, OrderFrame DEF Position
      <3>2. CASE qrow[r].st = "absent"
        <4>1. r \notin taker[o].steady
          BY <1>1, <3>2 DEF OrderOf
        <4>2. \A x \in taker[o].steady : x \in Rows /\ qrow'[x] = qrow[x]
          BY <1>1, <2>4, <4>1 DEF TakerRec
        <4>3. \A x \in Rows : qrow'[x].st = qrow[x].st
          BY <2>4
        <4> QED
          BY <1>1, <2>5, <2>6, <4>2, <4>3 DEF OrderOf, Position, TakerRec
      <3> QED
        BY <3>1, <3>2
    <2> QED
      BY <2>7, <2>8, <2>9 DEF CInv, OrderInv
  <1> QED
    BY <1>3, <1>4, <1>5

\* The initial state has every worker idle and no row claimed.
LEMMA ClaimInitInv ==
    ASSUME ClaimInit
    PROVE  CInv
  <1>1. PICK prio \in [Rows -> Priorities] :
          qrow = [r \in Rows |-> IF r \in ToSet(Backlog)
                                 THEN [NoRowYet EXCEPT !.st = "pending", !.prio = prio[r]] ELSE NoRowYet]
    BY DEF ClaimInit
  <1>2. \A r \in Rows : /\ qrow[r] \in QRow /\ qrow[r].by = NoTaker
                        /\ qrow[r].st = IF r \in ToSet(Backlog) THEN "pending" ELSE "absent"
    <2>1. ASSUME NEW r \in Rows, r \in ToSet(Backlog)
          PROVE  qrow[r] \in QRow /\ qrow[r].by = NoTaker /\ qrow[r].st = "pending"
      <3>1. prio[r] \in 0 .. 2
        BY ClaimOrderAssumption
      <3> QED
        BY <1>1, <2>1, <3>1 DEF NoRowYet, QRow, Tiers
    <2>2. ASSUME NEW r \in Rows, r \notin ToSet(Backlog)
          PROVE  qrow[r] \in QRow /\ qrow[r].by = NoTaker /\ qrow[r].st = "absent"
      <3>1. qrow[r] = NoRowYet
        BY <1>1, <2>2
      <3>2. NoRowYet \in QRow
        BY DEF NoRowYet, QRow, Tiers
      <3> QED
        BY <3>1, <3>2 DEF NoRowYet
    <2> QED
      BY <2>1, <2>2
  <1>3. \A t \in Takers : taker[t] = IdleTaker
    BY DEF ClaimInit
  <1>4. taker \in [Takers -> TakerRec] /\ \A t \in Takers : TakerSound(taker[t])
    BY <1>3, IdleTakerSound DEF ClaimInit
  <1>5. upgrader \in [Upgraders -> UpgraderRec]
    <2>1. IdleUpgrader \in UpgraderRec
      BY DEF IdleUpgrader, UpgraderRec, Tiers
    <2> QED
      BY <2>1 DEF ClaimInit
  <1>6. Arrivals
    BY <1>2, ClaimOrderAssumption DEF ClaimInit, Arrivals
  <1>7. CTInv
    <2>1. qrow \in [Rows -> QRow]
      BY <1>1, <1>2
    <2>2. inserts = 0 /\ upgrades = 0
      BY DEF ClaimInit
    <2>3. inserts \in 0 .. MaxInserts /\ upgrades \in 0 .. MaxUpgrades
      BY <2>2, ClaimOrderAssumption
    <2> QED
      BY <1>4, <1>5, <1>6, <2>1, <2>3 DEF CTInv
  <1>8. HoldInv
    BY <1>2, <1>3, IdleTakerSound, ClaimOrderAssumption DEF HoldInv
  <1>9. OrderInv
    BY <1>3, IdleTakerSound DEF OrderInv, OrderOf
  <1> QED
    BY <1>7, <1>8, <1>9 DEF CInv

\* The invariant holds throughout.
LEMMA ClaimInvariant == ClaimSpec => []CInv
  <1>1. CInv /\ ClaimNextStep => CInv'
    BY LookSteps, HoldSteps, EnqueueSteps DEF ClaimNextStep
  <1>2. CInv /\ UNCHANGED claimVars => CInv'
    <2> SUFFICES ASSUME CInv, UNCHANGED claimVars PROVE CInv'
      OBVIOUS
    <2>1. CTInv'
      BY DEF CInv, CTInv, TakerSound, Arrivals, claimVars
    <2>2. HoldInv'
      BY DEF CInv, HoldInv, claimVars
    <2>3. OrderInv'
      BY DEF CInv, OrderInv, OrderOf, Position, claimVars
    <2> QED
      BY <2>1, <2>2, <2>3 DEF CInv
  <1> QED
    BY <1>1, <1>2, ClaimInitInv, PTL DEF ClaimSpec

\* Type correctness of the rows, the workers and the enqueueing transactions.
THEOREM ClaimTypeCorrect == ClaimSpec => []ClaimTypeOK
  <1>1. CInv => ClaimTypeOK
    <2> SUFFICES ASSUME CInv PROVE ClaimTypeOK
      OBVIOUS
    <2>1. ToSet(arrived) \subseteq Rows
      BY DEF CInv, CTInv, Arrivals, ToSet
    <2> QED
      BY <2>1 DEF CInv, CTInv, ClaimTypeOK, TakerRec, Phases, UpgraderRec
  <1> QED
    BY <1>1, ClaimInvariant, PTL

\* No worker, whatever the others win, insert and upgrade meanwhile, passes over a
\* row that was pending in its tier all the time, except where it has lost every
\* retry, and none takes a row over an older one of its tier and ecosystem.
THEOREM TiersHonoured == ClaimSpec => []TiersRespected
  <1>1. CInv => TiersRespected
    <2> SUFFICES ASSUME CInv, NEW t \in Takers, NEW r \in taker[t].steady
                 PROVE  /\ qrow[r].prio < taker[t].tier => <<qrow[r].prio, EcoOf(r)>> \in taker[t].spent
                        /\ taker[t].at = "won" => \A p \in taker[t].pick :
                             qrow[r].prio = taker[t].tier /\ EcoOf(r) = EcoOf(p) =>
                               Position(p) <= Position(r)
      BY DEF TiersRespected
    <2>1. OrderOf(taker[t]) /\ TakerSound(taker[t])
      BY TakerFacts
    <2> QED
      BY <2>1 DEF OrderOf, TakerSound
  <1> QED
    BY <1>1, ClaimInvariant, PTL

-----------------------------------------------------------------------------
(* The refinement                                                          *)

\* claim_next and enqueue implement the queue they promise: every step hands one
\* open row to one worker that holds none, closes the row of its holder, submits a
\* row that is not open, or changes nothing a client of the queue can see.
THEOREM QueueRefined == ClaimSpec => ImplementsWorkQueue
  <1> DEFINE work == [r \in Rows |-> CASE qrow[r].st = "absent" -> "absent"
                                       [] qrow[r].st = "done" -> "closed"
                                       [] OTHER -> "open"]
             holder == [r \in Rows |-> qrow[r].by]
  <1>1. ClaimInit => WQ!WorkInit
    <2> SUFFICES ASSUME ClaimInit PROVE WQ!WorkInit
      OBVIOUS
    <2>1. \A r \in Rows : qrow[r].by = NoTaker /\ qrow[r].st \in {"absent", "pending"}
      <3>1. PICK prio \in [Rows -> Priorities] :
              qrow = [r \in Rows |-> IF r \in ToSet(Backlog)
                                     THEN [NoRowYet EXCEPT !.st = "pending", !.prio = prio[r]] ELSE NoRowYet]
        BY DEF ClaimInit
      <3> QED
        BY <3>1 DEF NoRowYet
    <2> QED
      BY <2>1 DEF WQ!WorkInit
  <1>2. CInv /\ ClaimNextStep => WQ!WorkNext \/ UNCHANGED WQ!workVars
    <2> SUFFICES ASSUME CInv, ClaimNextStep
                 PROVE  WQ!WorkNext \/ UNCHANGED WQ!workVars
      OBVIOUS
    <2>1. qrow \in [Rows -> QRow] /\ HoldInv
      BY DEF CInv, CTInv
    <2>2. ASSUME UNCHANGED qrow PROVE UNCHANGED WQ!workVars
      BY <2>2 DEF WQ!workVars
    <2>3. ASSUME NEW t \in Takers, Cas(t), qrow' # qrow
          PROVE  WQ!WorkNext
      <3>1. PICK r \in taker[t].pick :
              /\ qrow[r].st = "pending" /\ taker[t].at = "cas"
              /\ qrow' = [qrow EXCEPT ![r] = [qrow[r] EXCEPT !.st = "claimed", !.by = t]]
        BY <2>3 DEF Cas, Claimable
      <3>2. r \in Rows
        BY TakerFacts DEF TakerRec
      <3>3. /\ qrow'[r].st = "claimed" /\ qrow'[r].by = t /\ qrow'[r].prio = qrow[r].prio
            /\ \A x \in Rows : x # r => qrow'[x] = qrow[x]
        BY <2>1, <3>1, <3>2 DEF QRow
      <3>4. qrow[r].by = NoTaker /\ \A x \in Rows : qrow[x].by # t
        BY <2>1, <3>1, <3>2 DEF HoldInv
      <3>5. work' = work /\ holder' = [holder EXCEPT ![r] = t]
        <4>1. \A x \in Rows : work'[x] = work[x]
          BY <3>1, <3>3
        <4>2. \A x \in Rows : holder'[x] = [holder EXCEPT ![r] = t][x]
          BY <3>3
        <4> QED
          BY <4>1, <4>2
      <3>6. work[r] = "open" /\ holder[r] = NoTaker /\ \A x \in Rows : holder[x] # t
        BY <3>1, <3>2, <3>4
      <3>7. WQ!HandOut(t, r)
        BY <3>5, <3>6 DEF WQ!HandOut
      <3> QED
        BY <3>2, <3>7 DEF WQ!WorkNext
    <2>4. ASSUME NEW t \in Takers, FinishRow(t)
          PROVE  WQ!WorkNext
      <3>1. PICK r \in taker[t].pick :
              /\ taker[t].at = "won"
              /\ qrow' = [qrow EXCEPT ![r] = [qrow[r] EXCEPT !.st = "done", !.by = NoTaker]]
        BY <2>4 DEF FinishRow
      <3>2. r \in Rows
        BY TakerFacts DEF TakerRec
      <3>3. /\ qrow'[r].st = "done" /\ qrow'[r].by = NoTaker
            /\ \A x \in Rows : x # r => qrow'[x] = qrow[x]
        BY <2>1, <3>1, <3>2 DEF QRow
      <3>4. qrow[r].by = t
        BY <2>1, <3>1, <3>2 DEF HoldInv
      <3>5. work' = [work EXCEPT ![r] = "closed"] /\ holder' = [holder EXCEPT ![r] = NoTaker]
        BY <3>2, <3>3
      <3>6. WQ!Close(t, r)
        BY <3>2, <3>4, <3>5 DEF WQ!Close
      <3> QED
        BY <3>2, <3>6 DEF WQ!WorkNext
    <2>5. ASSUME NEW r \in Rows, NEW p \in Priorities, EnqueueRow(r, p)
          PROVE  WQ!WorkNext
      <3>1. /\ qrow[r].st \in {"absent", "done"}
            /\ qrow' = [qrow EXCEPT ![r] = [qrow[r] EXCEPT !.st = "pending", !.prio = p]]
        BY <2>5 DEF EnqueueRow
      <3>2. /\ qrow'[r].st = "pending" /\ qrow'[r].by = qrow[r].by
            /\ \A x \in Rows : x # r => qrow'[x] = qrow[x]
        BY <2>1, <3>1 DEF QRow
      <3>3. work' = [work EXCEPT ![r] = "open"] /\ holder' = holder /\ work[r] # "open"
        <4>1. \A x \in Rows : work'[x] = [work EXCEPT ![r] = "open"][x]
          BY <3>1, <3>2
        <4>2. \A x \in Rows : holder'[x] = holder[x]
          BY <3>2
        <4> QED
          BY <3>1, <4>1, <4>2
      <3>4. WQ!Submit(r)
        BY <3>3 DEF WQ!Submit
      <3> QED
        BY <3>4 DEF WQ!WorkNext
    <2>6. ASSUME NEW u \in Upgraders, FlushPriority(u)
          PROVE  UNCHANGED WQ!workVars
      <3>1. PICK r \in upgrader[u].row : qrow' = [qrow EXCEPT ![r] = [qrow[r] EXCEPT !.prio = upgrader[u].want]]
        BY <2>6 DEF FlushPriority
      <3>2. r \in Rows
        BY DEF CInv, CTInv, UpgraderRec
      <3>3. \A x \in Rows : qrow'[x].st = qrow[x].st /\ qrow'[x].by = qrow[x].by
        BY <2>1, <3>1, <3>2 DEF QRow
      <3>4. work' = work /\ holder' = holder
        BY <3>3
      <3> QED
        BY <3>4 DEF WQ!workVars
    <2>7. ASSUME NEW t \in Takers, BeginClaim(t) \/ ReadTier(t) \/ \E e \in Ecos : SelectOldest(t, e)
          PROVE  UNCHANGED qrow
      BY <2>7 DEF BeginClaim, ReadTier, SelectOldest
    <2>8. ASSUME NEW r \in Rows, NEW p \in Priorities, NEW u \in Upgraders, ReadPriority(u, r, p)
          PROVE  UNCHANGED qrow
      BY <2>8 DEF ReadPriority
    <2> QED
      BY <2>2, <2>3, <2>4, <2>5, <2>6, <2>7, <2>8 DEF ClaimNextStep
  <1>3. UNCHANGED claimVars => UNCHANGED WQ!workVars
    BY DEF claimVars, WQ!workVars
  <1> QED
    BY <1>1, <1>2, <1>3, ClaimInvariant, PTL DEF ClaimSpec, ImplementsWorkQueue, WQ!WorkSpec
=============================================================================
