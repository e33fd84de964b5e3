-------------------------------- MODULE Alerts --------------------------------
(***************************************************************************)
(* The Discord webhook: notify/discord.py, called by the scan workers and  *)
(* by the detonation pool of one process.  A sender reserves a slot under  *)
(* a lock and sleeps until it without the lock; a failed POST is tried     *)
(* again, each time in a new slot.  Time is counted in ticks from now: a   *)
(* sleep may last longer than it was asked to, never shorter.              *)
(***************************************************************************)
EXTENDS Integers, FiniteSets, FiniteSetsExt, Sequences, SequencesExt

CONSTANTS
    Senders,       \* threads that send alerts
    Interval,      \* MIN_INTERVAL
    MaxPosts,      \* _ALERT_MAX_ATTEMPTS
    RetryCap,      \* the longest wait for a 429; the backoff after an error is a tick
    Embeds,        \* what an alert may hold: the length of head, fields and footer
    EmbedCap, FieldMax, FieldsMax,   \* limits on an embed: overall, per field, number of fields
    MaxAlerts      \* bound: alerts sent

ASSUME AlertsAssumption ==
    /\ {Interval, MaxPosts, RetryCap, EmbedCap, FieldMax, FieldsMax, MaxAlerts} \subseteq Nat
    /\ Interval > 0 /\ MaxPosts > 0 /\ IsFiniteSet(Senders)
    /\ Embeds \subseteq [head : Nat, fields : Seq(Nat), foot : Nat]

VARIABLES
    sender,    \* per thread: its alert
    slot,      \* ticks until _last_send + MIN_INTERVAL; 0 if that has passed
    hookOk,    \* does the webhook exist?
    alerts     \* alerts sent so far

alertsVars == <<sender, slot, hookOk, alerts>>

NoEmbed == [head |-> 0, fields |-> <<>>, foot |-> 0]
IdleSender == [at |-> "idle", attempt |-> 0, wait |-> 0, faults |-> 0, embed |-> NoEmbed]

AlertsTypeOK ==
    /\ \A t \in Senders :
        /\ sender[t].at \in {"idle", "throttle", "sleep", "backoff", "sent", "dropped"}
        /\ sender[t].attempt \in 0 .. MaxPosts - 1 /\ sender[t].faults \in 0 .. MaxPosts
        /\ sender[t].wait \in Nat
    /\ slot \in Nat /\ hookOk \in BOOLEAN /\ alerts \in 0 .. MaxAlerts

AlertsInit ==
    /\ sender = [t \in Senders |-> IdleSender]
    /\ slot = 0 /\ hookOk \in BOOLEAN /\ alerts = 0

-----------------------------------------------------------------------------
(* The embed                                                               *)

Total(sizes) == FoldLeft(+, 0, sizes)
Clamped(fields) ==
    [i \in 1 .. Min({Len(fields), FieldsMax}) |-> Min({fields[i], FieldMax})]

\* Title and description have limits of their own, which together are below the overall one.
ASSUME HeadAssumption == \A e \in Embeds : e.head <= EmbedCap

\* _sanitize_embed: fields are added until one would exceed the overall limit; the
\* footer is not counted.
SanitizeEmbed(e) ==
    LET cut == Clamped(e.fields)
        fit == {k \in 0 .. Len(cut) : e.head + Total(SubSeq(cut, 1, k)) <= EmbedCap}
    IN  [e EXCEPT !.fields = SubSeq(cut, 1, Max(fit \union {0}))]

\* What the service accepts.
TooLong(e) == e.head + Total(e.fields) + e.foot > EmbedCap
FooterTips(e) == TooLong(e) /\ e.head + Total(e.fields) <= EmbedCap

-----------------------------------------------------------------------------
(* Sending                                                                 *)

PutSender(t, r) == sender' = [sender EXCEPT ![t] = r]

\* send_alert, send_dynamic_alert or send_review_alert has built its embed.
BeginAlert(t, e) ==
    /\ sender[t].at = "idle" /\ alerts < MaxAlerts
    /\ alerts' = alerts + 1
    /\ PutSender(t, [IdleSender EXCEPT !.at = "throttle", !.embed = SanitizeEmbed(e)])
    /\ UNCHANGED <<slot, hookOk>>

\* Mutant: the time of the call is stored, not that of the slot.
ThrottleUnreserved(t) ==
    /\ sender[t].at = "throttle"
    /\ PutSender(t, [sender[t] EXCEPT !.at = "sleep", !.wait = slot])
    /\ slot' = Interval
    /\ UNCHANGED <<hookOk, alerts>>

\* _throttle
Throttle(t) ==
    /\ sender[t].at = "throttle"
    /\ PutSender(t, [sender[t] EXCEPT !.at = "sleep", !.wait = slot])
    /\ slot' = slot + Interval
    /\ UNCHANGED <<hookOk, alerts>>

PostOk(t) ==
    /\ sender[t].at = "sleep" /\ sender[t].wait = 0
    /\ hookOk /\ ~TooLong(sender[t].embed)
    /\ PutSender(t, [sender[t] EXCEPT !.at = "sent"])
    /\ UNCHANGED <<slot, hookOk, alerts>>

\* Mutant: a rate limit is not tried again on the attempt before the last.
AfterFaultEarly(r, wait) ==
    IF r.attempt + 1 < MaxPosts - 1
    THEN [r EXCEPT !.at = "backoff", !.attempt = @ + 1, !.faults = @ + 1, !.wait = wait]
    ELSE [r EXCEPT !.at = "dropped", !.faults = @ + 1]

\* The attempts left decide between another one and giving up.
AfterFault(r, wait) ==
    IF r.attempt < MaxPosts - 1
    THEN [r EXCEPT !.at = "backoff", !.attempt = @ + 1, !.faults = @ + 1, !.wait = wait]
    ELSE [r EXCEPT !.at = "dropped", !.faults = @ + 1]

\* A timeout, a connection error, a 5xx, or a 429 with its retry_after.
PostFails(t, wait) ==
    /\ sender[t].at = "sleep" /\ sender[t].wait = 0
    /\ PutSender(t, AfterFault(sender[t], wait))
    /\ UNCHANGED <<slot, hookOk, alerts>>

\* Another 4xx: the webhook is gone, or the embed is too long.
PostRejected(t) ==
    /\ sender[t].at = "sleep" /\ sender[t].wait = 0
    /\ ~hookOk \/ TooLong(sender[t].embed)
    /\ PutSender(t, [sender[t] EXCEPT !.at = "dropped"])
    /\ UNCHANGED <<slot, hookOk, alerts>>

BackoffOver(t) ==
    /\ sender[t].at = "backoff" /\ sender[t].wait = 0
    /\ PutSender(t, [sender[t] EXCEPT !.at = "throttle"])
    /\ UNCHANGED <<slot, hookOk, alerts>>

\* The caller ignores the result.
AlertReturns(t) ==
    /\ sender[t].at \in {"sent", "dropped"}
    /\ PutSender(t, IdleSender)
    /\ UNCHANGED <<slot, hookOk, alerts>>

Less(n) == IF n = 0 THEN 0 ELSE n - 1
AlertTick ==
    /\ slot > 0 \/ \E t \in Senders : sender[t].wait > 0
    /\ slot' = Less(slot)
    /\ sender' = [t \in Senders |-> [sender[t] EXCEPT !.wait = Less(@)]]
    /\ UNCHANGED <<hookOk, alerts>>

AlertsNext ==
    \/ AlertTick
    \/ \E t \in Senders :
        \/ \E e \in Embeds : BeginAlert(t, e)
        \/ Throttle(t) \/ PostOk(t) \/ PostRejected(t) \/ BackoffOver(t) \/ AlertReturns(t)
        \/ \E wait \in 0 .. RetryCap : PostFails(t, wait)

AlertsSpec == AlertsInit /\ [][AlertsNext]_alertsVars

-----------------------------------------------------------------------------
(* Properties                                                              *)

Sleeping == {t \in Senders : sender[t].at = "sleep" /\ sender[t].wait > 0}

\* Concurrent senders keep the rate and do not pile up: two slots still to come are an
\* interval apart and before _last_send, and no sender sleeps for more than one
\* interval per sender.
SlotsApart ==
    \A t \in Sleeping :
        /\ sender[t].wait + Interval <= slot
        /\ sender[t].wait <= Interval * Cardinality(Senders)
        /\ \A u \in Sleeping \ {t} :
            \/ sender[t].wait >= sender[u].wait + Interval
            \/ sender[u].wait >= sender[t].wait + Interval

\* An alert is not given up early: only when every attempt has met a transient fault, when the
\* webhook does not exist, or when the footer takes an embed at the limit over it.
AlertsPersist ==
    \A t \in Senders : sender[t].at = "dropped" =>
        sender[t].faults = MaxPosts \/ ~hookOk \/ FooterTips(sender[t].embed)
=============================================================================
