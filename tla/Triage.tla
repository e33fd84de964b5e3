-------------------------------- MODULE Triage --------------------------------
(***************************************************************************)
(* LLM triage: triage() of llm/triage.py, run by the worker threads of one *)
(* process against one in-process budget of dollars and of calls per hour. *)
(* The budget is checked under a lock and charged under it again after the *)
(* reply: a paid call is in flight between the two.                        *)
(***************************************************************************)
EXTENDS Integers, FiniteSets, FiniteSetsExt, Sequences, SequencesExt

CONSTANTS
    Triagers,       \* worker threads
    MaxRetries,     \* MAX_RETRIES
    MaxUsd,         \* MAX_USD, in units of cost
    MaxCalls,       \* MAX_CALLS_PER_HOUR
    TriageCases,    \* pairs of a rule verdict and the evidence behind it, see Evidences
    CallCosts,      \* what a reply may cost; the estimate when the provider reports none
    Tokens0,        \* MAX_RESPONSE_TOKENS
    TokenCeiling,   \* MAX_RESPONSE_TOKENS_CEILING
    Hour,           \* 3600 s, in ticks
    MaxTriages      \* bound: triages started

ASSUME TriageBoundAssumption ==
    /\ {MaxRetries, MaxUsd, MaxCalls, Tokens0, TokenCeiling, Hour, MaxTriages} \subseteq Nat
    /\ CallCosts \subseteq Nat /\ Tokens0 <= TokenCeiling
    /\ IsFiniteSet(Triagers) /\ Triagers # {}
    /\ \E c \in CallCosts : \A d \in CallCosts : d <= c

VARIABLES
    thread,      \* per worker thread: its triage
    spent,       \* _spent_usd
    callTimes,   \* _call_times, as the age of each recorded call, oldest first
    started      \* triages started

triageVars == <<thread, spent, callTimes, started>>

RuleVerdictsAsked == {"suspicious", "malicious"}
LlmVerdicts == {"malicious", "suspicious", "benign", "inconclusive"}
Confidences == {"low", "high"}    \* below 0.80 or not
\* What decides in _enforce_no_downgrade: a prompt-injection finding, an exact
\* SHA-256 match, a behavioral-chain rule.
Evidences == SUBSET {"injection", "exact", "chain"}

ASSUME TriageCasesAssumption == TriageCases \subseteq RuleVerdictsAsked \X Evidences

NoReply == [verdict |-> "none", conf |-> "low", cut |-> FALSE]
Replies ==
    [verdict : LlmVerdicts, conf : Confidences, cut : BOOLEAN]
        \union [verdict : {"garbled", "unknown", "noobject"}, conf : {"low"}, cut : BOOLEAN]

Thread ==
    [at : {"idle", "check", "call", "over"}, rule : RuleVerdictsAsked, has : Evidences,
     attempt : 0 .. MaxRetries + 1, tokens : Nat, reply : Replies \union {NoReply},
     result : LlmVerdicts \union {"none", "error", "skipped"}]
IdleThread ==
    [at |-> "idle", rule |-> "suspicious", has |-> {}, attempt |-> 0, tokens |-> Tokens0,
     reply |-> NoReply, result |-> "none"]

TriageTypeOK ==
    /\ thread \in [Triagers -> Thread]
    /\ spent \in Nat /\ callTimes \in Seq(0 .. Hour + 1) /\ started \in 0 .. MaxTriages

TriageInit ==
    /\ thread = [t \in Triagers |-> IdleThread]
    /\ spent = 0 /\ callTimes = <<>> /\ started = 0

-----------------------------------------------------------------------------
(* The budget                                                              *)

\* Calls older than an hour leave the front of the deque when the budget is next checked.
WithinHour(calls) ==
    LET young == {i \in DOMAIN calls : calls[i] <= Hour} IN
    IF young = {} THEN <<>> ELSE SubSeq(calls, Min(young), Len(calls))

\* _check_budget; the dollars are looked at before the old calls are dropped.
BudgetBlocked == spent >= MaxUsd \/ Len(WithinHour(callTimes)) >= MaxCalls
CheckBudget == callTimes' = IF spent >= MaxUsd THEN callTimes ELSE WithinHour(callTimes)

\* _record_call
RecordCall(cost) == spent' = spent + cost /\ callTimes' = Append(callTimes, 0)

-----------------------------------------------------------------------------
(* The verdict                                                             *)

\* Mutant: the confident override of a chain comes before the exact match.
EnforceNoDowngradeReordered(llm, conf, rule, has) ==
    IF "injection" \in has /\ llm = "benign" THEN rule
    ELSE IF rule = "malicious" /\ "chain" \in has /\ llm \in {"benign", "suspicious"} /\ conf = "high"
    THEN llm
    ELSE IF rule = "malicious" /\ has \intersect {"exact", "chain"} # {} THEN "malicious"
    ELSE llm

\* _enforce_no_downgrade
EnforceNoDowngrade(llm, conf, rule, has) ==
    IF "injection" \in has /\ llm = "benign" THEN rule
    ELSE IF rule = "malicious" /\ "exact" \in has THEN "malicious"
    ELSE IF rule = "malicious" /\ "chain" \in has /\ ~(llm \in {"benign", "suspicious"} /\ conf = "high")
    THEN "malicious"
    ELSE llm

\* On a reply cut off by the length limit the next attempt may be longer.
Escalated(tokens) ==
    IF tokens < TokenCeiling
    THEN LET more == (tokens * 3) \div 2 IN IF more < TokenCeiling THEN more ELSE TokenCeiling
    ELSE tokens

-----------------------------------------------------------------------------
(* triage()                                                                *)

Put(t, r) == thread' = [thread EXCEPT ![t] = r]
Ended(t, reply, verdict) == [thread[t] EXCEPT !.at = "over", !.reply = reply, !.result = verdict]
\* The next attempt, or an error once there is none.
Again(t, tokens) ==
    LET n == thread[t].attempt + 1 IN
    [thread[t] EXCEPT !.attempt = n, !.tokens = tokens,
        !.at = IF n > MaxRetries THEN "over" ELSE "check",
        !.result = IF n > MaxRetries THEN "error" ELSE "none"]

\* A scan with a verdict worth triage reaches its LLM step; the thread has returned
\* the result of the one before.
Begin(t, rule, has) ==
    /\ thread[t].at \in {"idle", "over"} /\ started < MaxTriages
    /\ started' = started + 1
    /\ CheckBudget
    /\ LET fresh == [IdleThread EXCEPT !.rule = rule, !.has = has] IN
       Put(t, IF BudgetBlocked THEN [fresh EXCEPT !.at = "over", !.result = "skipped"]
              ELSE [fresh EXCEPT !.at = "check"])
    /\ UNCHANGED spent

\* Mutant: the budget is checked before the loop only.
CheckOnceBeforeLoop(t) ==
    /\ thread[t].at = "check"
    /\ Put(t, [thread[t] EXCEPT !.at = "call"])
    /\ UNCHANGED <<spent, callTimes, started>>

\* The check before each paid call; a blocked one ends the loop.
CheckBeforeCall(t) ==
    /\ thread[t].at = "check"
    /\ CheckBudget
    /\ Put(t, IF BudgetBlocked THEN Ended(t, NoReply, "error") ELSE [thread[t] EXCEPT !.at = "call"])
    /\ UNCHANGED <<spent, started>>

CallFails(t) ==
    /\ thread[t].at = "call"
    /\ RecordCall(0)
    /\ Put(t, Again(t, thread[t].tokens))
    /\ UNCHANGED started

\* A reply that parses and says something, and does not clear what it was cut off from.
Trusted(reply) == reply.verdict \in LlmVerdicts /\ ~(reply.cut /\ reply.verdict \in {"benign", "suspicious"})

\* JSON that is no object raises out of triage(): the pipeline goes on without a result.
Reply(t, reply, cost) ==
    LET r == thread[t] IN
    /\ r.at = "call"
    /\ RecordCall(cost)
    /\ Put(t, IF reply.verdict = "noobject" THEN Ended(t, NoReply, "none")
              ELSE IF Trusted(reply)
              THEN Ended(t, reply, EnforceNoDowngrade(reply.verdict, reply.conf, r.rule, r.has))
              ELSE Again(t, IF reply.cut /\ reply.verdict # "unknown" THEN Escalated(r.tokens) ELSE r.tokens))
    /\ UNCHANGED started

HourPasses ==
    /\ callTimes # <<>> /\ \E i \in DOMAIN callTimes : callTimes[i] <= Hour
    /\ callTimes' = [i \in DOMAIN callTimes |-> IF callTimes[i] <= Hour THEN callTimes[i] + 1 ELSE callTimes[i]]
    /\ UNCHANGED <<thread, spent, started>>

TriageNext ==
    \/ HourPasses
    \/ \E t \in Triagers :
        \/ \E case \in TriageCases : Begin(t, case[1], case[2])
        \/ CheckBeforeCall(t) \/ CallFails(t)
        \/ \E reply \in Replies, cost \in CallCosts : Reply(t, reply, cost)

TriageSpec == TriageInit /\ [][TriageNext]_triageVars

-----------------------------------------------------------------------------
(* Properties                                                              *)

\* The budget may be overrun by the calls that are in flight, one per thread, and
\* by no more: neither the retries of a triage nor failing calls escape it.
BudgetHolds ==
    LET flying == {t \in Triagers : thread[t].at = "call"}
        dearest == CHOOSE c \in CallCosts : \A d \in CallCosts : d <= c IN
    /\ Len(WithinHour(callTimes)) + Cardinality(flying) <= MaxCalls + Cardinality(Triagers) - 1
    /\ MaxUsd > 0 => spent + dearest * Cardinality(flying) <= MaxUsd - 1 + dearest * Cardinality(Triagers)

\* A package the rules convicted is cleared only by a complete reply, never against an
\* exact match, against a chain only with confidence, and never to benign
\* when it carries text that addresses the model.
ClearedOnEvidence ==
    \A t \in Triagers :
        LET r == thread[t] IN
        r.rule = "malicious" /\ r.result \in {"benign", "suspicious"} =>
            /\ ~r.reply.cut
            /\ "exact" \notin r.has
            /\ "chain" \in r.has => r.reply.conf = "high"
            /\ "injection" \in r.has => r.result # "benign"
=============================================================================
