------------------------------- MODULE Usage -------------------------------
(***************************************************************************)
(* One user's access policy and recorded usage: PolicyStatus and           *)
(* SessionEvent of controller/internal/app/store.go, with the sessions     *)
(* they are about and the events that may be late, lost or out of order.   *)
(*                                                                         *)
(* Time is counted in ticks, fractions of a second, because usage is       *)
(* truncated to seconds and compared as text: stamp() formats RFC3339Nano, *)
(* which leaves out a fraction that is zero, so that within one second the *)
(* whole second sorts after its fractions ("Z" > ".").  Days all have the  *)
(* same length.                                                            *)
(***************************************************************************)
EXTENDS Integers, FiniteSets, FiniteSetsExt

CONSTANTS
    Ticket,            \* launch tickets, one session each
    TicksPerSecond, SecondsPerMinute, MinutesPerDay,
    Policies,          \* the policies of this instance
    Horizon,           \* last tick: bounds the instance
    MaxFaults,         \* kinds of fault in one behaviour: bounds the instance
    None

Ticks == TicksPerSecond * SecondsPerMinute * MinutesPerDay

\* What adminUpdate accepts for a policy; days are numbered from the first.
ASSUME UsageAssumption ==
    /\ {TicksPerSecond, SecondsPerMinute, MinutesPerDay} \subseteq Nat \ {0}
    /\ Policies \subseteq [days: SUBSET Nat, start: 0..MinutesPerDay - 1,
                           end: 1..MinutesPerDay, limit: 0..MinutesPerDay,
                           max: 0..MinutesPerDay]
    /\ {Horizon, MaxFaults} \subseteq Nat
    /\ IsFiniteSet(Ticket)   \* those issued by then
    /\ None \notin Nat

VARIABLES
    now,
    policy,   \* the user's row of user_policies
    session,  \* the session of each ticket, as the agent runs it
    usage,    \* session_usage
    events,   \* session events on the wire
    faults    \* observed: what went wrong so far

vars == <<now, policy, session, usage, events, faults>>

Sessions == [state: {"none", "issued", "running", "over"}, cap: Nat,
             begun: Nat \cup {None}, done: Nat \cup {None}]

NoRow == [started |-> None, ended |-> None]

Faults == {"overlap", "late", "lost", "reordered", "crash", "first second"}

TypeOK ==
    /\ now \in 0..Horizon
    /\ policy \in Policies
    /\ session \in [Ticket -> Sessions]
    /\ usage \in [Ticket -> {NoRow} \cup [started: Nat, ended: Nat \cup {None}]]
    /\ events \subseteq Ticket \X {"session_started", "session_exited"}
    /\ faults \subseteq Faults

Init ==
    /\ now = 0
    /\ policy \in Policies
    /\ session = [t \in Ticket |-> [state |-> "none", cap |-> 0, begun |-> None,
                                    done |-> None]]
    /\ usage = [t \in Ticket |-> NoRow]
    /\ events = {}
    /\ faults = {}

-----------------------------------------------------------------------------
(* PolicyStatus. *)

Day(n) == n \div Ticks
Minute(n) == (n % Ticks) \div (TicksPerSecond * SecondsPerMinute)
StartOfDay(n) == n - (n % Ticks)

\* Mutant: a window that goes past midnight is not wrapped.
InWindowUnwrapped(p, minute) ==
    \/ p.start = 0 /\ p.end = MinutesPerDay
    \/ minute >= p.start /\ minute < p.end

\* The access window, which may go past midnight.
InWindow(p, minute) ==
    \/ p.start = 0 /\ p.end = MinutesPerDay
    \/ p.start < p.end /\ minute >= p.start /\ minute < p.end
    \/ p.start > p.end /\ (minute >= p.start \/ minute < p.end)

\* stamp(n) >= stamp(m) as text, for a whole second m.
StampFrom(n, m) ==
    IF n \div TicksPerSecond = m \div TicksPerSecond THEN n % TicksPerSecond = 0
    ELSE n > m

\* SELECT ... WHERE started_at>=?
Counted == {t \in Ticket : /\ usage[t].started # None
                           /\ StampFrom(usage[t].started, StartOfDay(now))}

\* A row without an end counts up to now.
RowSeconds(t) ==
    LET ended == IF usage[t].ended = None THEN now ELSE usage[t].ended IN
    IF ended > usage[t].started THEN (ended - usage[t].started) \div TicksPerSecond ELSE 0

UsedSeconds == MapThenSumSet(RowSeconds, Counted)

RemainingSeconds == policy.limit * SecondsPerMinute - UsedSeconds

\* Mutant: an allowance that is used up exactly still admits a launch.
AllowedAtLimit ==
    /\ Day(now) \in policy.days
    /\ InWindow(policy, Minute(now))
    /\ policy.limit > 0 => RemainingSeconds >= 0

Allowed ==
    /\ Day(now) \in policy.days
    /\ InWindow(policy, Minute(now))
    /\ policy.limit > 0 => RemainingSeconds > 0

\* Mutant: the longest session is not cut to what is left.
CapIgnoresAllowance == policy.max * SecondsPerMinute

\* EffectiveMaxSeconds; 0 is no limit.
EffectiveMaxSeconds ==
    LET max == policy.max * SecondsPerMinute
        remaining == IF policy.limit > 0 THEN RemainingSeconds ELSE 0
    IN  IF remaining > 0 /\ (max = 0 \/ remaining < max) THEN remaining ELSE max

-----------------------------------------------------------------------------
\* The step meets the faults f.
Fault(f) ==
    /\ faults' = faults \cup f
    /\ Cardinality(faults') <= MaxFaults

\* CreateLaunchTicket, when the policy allows it; the ticket takes the limit.
Launch(t) ==
    /\ session[t].state = "none"
    /\ Allowed
    /\ session' = [session EXCEPT ![t].state = "issued", ![t].cap = EffectiveMaxSeconds]
    /\ Fault(IF \E s \in Ticket : session[s].state \in {"issued", "running"}
             THEN {"overlap"} ELSE {})
    /\ UNCHANGED <<now, policy, usage, events>>

\* The ticket is not redeemed in time, or its session does not get to a client.
Abandon(t) ==
    /\ session[t].state = "issued"
    /\ session' = [session EXCEPT ![t].state = "over"]
    /\ UNCHANGED <<now, policy, usage, events, faults>>

\* run: the start is reported and the client runs, with the ticket's limit.
Begin(t) ==
    /\ session[t].state = "issued"
    /\ session' = [session EXCEPT ![t].state = "running", ![t].begun = now]
    /\ events' = events \cup {<<t, "session_started">>}
    /\ UNCHANGED <<now, policy, usage, faults>>

\* The client ends, by itself or because its time is over.
Finish(t) ==
    /\ session[t].state = "running"
    /\ session' = [session EXCEPT ![t].state = "over", ![t].done = now]
    /\ events' = events \cup {<<t, "session_exited">>}
    /\ UNCHANGED <<now, policy, usage, faults>>

\* The agent is gone, with every client it runs; nobody reports their end.
Crash ==
    /\ \E t \in Ticket : session[t].state = "running"
    /\ session' = [t \in Ticket |->
           IF session[t].state = "running"
           THEN [session[t] EXCEPT !.state = "over", !.done = now] ELSE session[t]]
    /\ Fault({"crash"})
    /\ UNCHANGED <<now, policy, usage, events>>

\* The deadline of run's context: a session does not outlast its limit.
InTime(t) ==
    session[t].state = "running" /\ session[t].cap > 0 =>
        now < session[t].begun + session[t].cap * TicksPerSecond

Tick ==
    /\ now < Horizon
    /\ \A t \in Ticket : InTime(t)
    /\ now' = now + 1
    /\ Fault(IF events = {} THEN {} ELSE {"late"})
    /\ UNCHANGED <<policy, session, usage, events>>

Lose(t, e) ==
    /\ <<t, e>> \in events
    /\ events' = events \ {<<t, e>>}
    /\ Fault({"lost"})
    /\ UNCHANGED <<now, policy, session, usage>>

\* SessionEvent: INSERT ... ON CONFLICT(ticket_id) DO NOTHING.
SessionStarted(t) ==
    /\ <<t, "session_started">> \in events
    /\ events' = events \ {<<t, "session_started">>}
    /\ usage' = [usage EXCEPT ![t].started = IF @ = None THEN now ELSE @]
    /\ Fault(IF StampFrom(now, StartOfDay(now)) THEN {} ELSE {"first second"})
    /\ UNCHANGED <<now, policy, session>>

\* Mutant: the end is not written.
SessionExitedForgotten(t) ==
    /\ <<t, "session_exited">> \in events
    /\ events' = events \ {<<t, "session_exited">>}
    /\ Fault(IF <<t, "session_started">> \in events THEN {"reordered"} ELSE {})
    /\ UNCHANGED <<now, policy, session, usage>>

\* SessionEvent: UPDATE ... WHERE ended_at IS NULL, if there is a row.
SessionExited(t) ==
    /\ <<t, "session_exited">> \in events
    /\ events' = events \ {<<t, "session_exited">>}
    /\ usage' = [usage EXCEPT ![t].ended =
                    IF usage[t].started # None /\ @ = None THEN now ELSE @]
    /\ Fault(IF <<t, "session_started">> \in events THEN {"reordered"} ELSE {})
    /\ UNCHANGED <<now, policy, session>>

Next ==
    \/ Tick
    \/ Crash
    \/ \E t \in Ticket :
          \/ Launch(t) \/ Abandon(t) \/ Begin(t) \/ Finish(t)
          \/ SessionStarted(t) \/ SessionExited(t)
          \/ \E e \in {"session_started", "session_exited"} : Lose(t, e)

Spec == Init /\ [][Next]_vars

-----------------------------------------------------------------------------
(* Properties. *)

\* A launch is admitted at the minutes of a cyclic interval of the day: from
\* access_start_minute, for the time to access_end_minute (PolicyStatus).
WindowIsCyclic ==
    LET width == IF policy.start = 0 /\ policy.end = MinutesPerDay THEN MinutesPerDay
                 ELSE (policy.end - policy.start) % MinutesPerDay
    IN  InWindow(policy, Minute(now)) <=>
            (Minute(now) - policy.start) % MinutesPerDay < width

\* With an allowance, an admitted session is given a limit, at least a second
\* long, that neither the allowance nor the longest session is exceeded by: it
\* never comes out as 0, which would mean no limit (PolicyStatus).
LimitIsReal ==
    Allowed /\ policy.limit > 0 =>
        /\ EffectiveMaxSeconds \in 1..RemainingSeconds
        /\ policy.max > 0 => EffectiveMaxSeconds <= policy.max * SecondsPerMinute

\* How long the session of a ticket has run.
Ran(t) == (IF session[t].state = "over" THEN session[t].done ELSE now) - session[t].begun

BegunOn(d) == {t \in Ticket : session[t].begun # None /\ Day(session[t].begun) = d}

\* docs/hardware-validation.md: "exhausted allowance denies new launch".  The
\* sessions begun on one day do not run longer than the allowance, up to the
\* fraction of a second lost for each; provided they come one after another,
\* their events arrive at once and in order, no agent dies, and none begins in
\* a fraction of the first second of a day, which is not counted (PolicyStatus, SessionEvent,
\* run).
AllowanceKept ==
    faults = {} /\ policy.limit > 0 =>
        \A d \in 0..Day(now) :
            MapThenSumSet(Ran, BegunOn(d)) <=
                TicksPerSecond * policy.limit * SecondsPerMinute
                    + Cardinality(BegunOn(d)) * (TicksPerSecond - 1)

\* A session that is over and has nothing on the wire is no longer charged,
\* unless its end was lost, came before its start, or never was reported.
EndedIsClosed ==
    \A t \in Ticket :
        /\ session[t].state = "over" /\ usage[t].started # None
        /\ \A e \in events : e[1] # t
        /\ faults \cap {"lost", "reordered", "crash"} = {}
        => usage[t].ended # None

\* Types, and no session charged after its end: SessionEvent leaves a closed row
\* behind every session whose events arrive.
UsageInv ==
    /\ TypeOK
    /\ EndedIsClosed
=============================================================================
