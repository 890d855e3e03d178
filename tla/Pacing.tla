------------------------------- MODULE Pacing -------------------------------
(***************************************************************************)
(* When the delivery worker may send (the last part of evaluate_delivery   *)
(* in app/services/safety.py): publishing blackouts                        *)
(* (app/services/blackouts.py, app/api/blackouts.py), the local windows of *)
(* destinations (app/services/destination_windows.py), the guard against   *)
(* repeating a text (app/services/content_guard.py), the cooldown of a     *)
(* destination, the interval between messages and the daily cap of the     *)
(* connection.  One connection and one worker: the lease of module         *)
(* Delivery lets one at a time through.                                    *)
(*                                                                         *)
(* Time is counted in hours.  Days and weeks have the lengths given, and   *)
(* zones a fixed distance from UTC: the hour that summer time skips or     *)
(* repeats is left out.                                                    *)
(***************************************************************************)
EXTENDS Integers, FiniteSets, FiniteSetsExt

CONSTANTS
    HoursPerDay, DaysPerWeek,
    Groups,          \* destinations
    Messages,        \* delivery jobs
    GroupOf,         \* the destination of each
    TextOf,          \* content_fingerprint of each
    MinInterval,     \* hours between messages of the connection
    Cooldown,        \* hours between messages to one destination
    DailyCap,        \* the lesser of daily_cap and global_hard_daily_cap
    GuardHours,      \* duplicate_guard_minutes
    WindowChoices,   \* windows that destinations may have
    BlackoutChoices, \* blackouts that operators declare
    Delays,          \* how long Telegram, or the retry policy, makes a message wait
    FirstHour, LastHour,    \* bounds of the clock
    MaxBlackouts     \* bound: blackouts at one time

Hours == 0 .. HoursPerDay - 1
WeekDays == 0 .. DaysPerWeek - 1
AnyTime == -1

\* Both hours are AnyTime, or neither is; no days means every day.  zone: hours ahead of
\* UTC.
Window == [days: SUBSET WeekDays, from: Hours \cup {AnyTime}, to: Hours \cup {AnyTime},
           zone: Hours]

\* A one-time blackout lasts from one hour of the clock to another, a weekly one from one
\* hour of the day to another.  at: the destinations in its scope.
Blackout == [kind: {"ONE_TIME", "WEEKLY"}, days: SUBSET WeekDays, from: Nat, to: Nat,
             zone: Hours, at: SUBSET Groups]

ASSUME PacingAssumption ==
    /\ HoursPerDay \in Nat \ {0} /\ DaysPerWeek \in Nat \ {0}
    /\ WindowChoices \subseteq Window
    /\ \A w \in WindowChoices : (w.from = AnyTime) = (w.to = AnyTime)
    /\ \A b \in BlackoutChoices :
          /\ b.from # b.to
          /\ IF b.kind = "ONE_TIME" THEN b.from < b.to
             ELSE b.days # {} /\ b.from \in Hours /\ b.to \in Hours
    /\ FirstHour \in Nat /\ FirstHour >= HoursPerDay
    /\ \A d \in Delays : d \in Nat \ {0}
    /\ {MinInterval, Cooldown, DailyCap, GuardHours} \subseteq Nat
    /\ IsFiniteSet(Messages) /\ GroupOf \in [Messages -> Groups]

VARIABLES
    clock,
    window,      \* the window of each destination
    blackouts,   \* enabled publishing_blackouts
    message,     \* status, due_at while it is pending, finished_at if it is sent, and
                 \* whether the worker has seen it sent
    restUntil,   \* next_allowed_at of each destination
    lastSend,    \* last_delivery_at of the connection, or 0
    active,      \* whether the connection is ACTIVE
    floodUntil   \* flood_blocked_until

pacingVars == <<clock, window, blackouts, message, restUntil, lastSend, active, floodUntil>>

DayOf(t) == t \div HoursPerDay
WeekDay(day) == day % DaysPerWeek
Hour(t) == t % HoursPerDay

PacingInit ==
    /\ clock = FirstHour
    /\ window \in [Groups -> WindowChoices]
    /\ blackouts = {}
    /\ message = [m \in Messages |->
                    [status |-> "PENDING", due |-> FirstHour, at |-> 0, seen |-> FALSE]]
    /\ restUntil = [g \in Groups |-> 0]
    /\ lastSend = 0 /\ active = TRUE /\ floodUntil = 0

-----------------------------------------------------------------------------
(***************************************************************************)
(* Windows and blackouts, as the code computes them.                       *)
(***************************************************************************)

\* _window_for_date: the hours, local time, of the window that starts on a day.  One that
\* ends before it starts ends on the next day.
Opens(w, day) == day * HoursPerDay + (IF w.from = AnyTime THEN 0 ELSE w.from)
Closes(w, day) ==
    IF w.from = AnyTime THEN (day + 1) * HoursPerDay
    ELSE (IF w.to <= w.from THEN day + 1 ELSE day) * HoursPerDay + w.to

OnDay(w, day) == w.days = {} \/ WeekDay(day) \in w.days

InWindow(w, t) ==
    LET local == t + w.zone IN
    \E day \in {DayOf(local) - 1, DayOf(local)} :
        OnDay(w, day) /\ Opens(w, day) <= local /\ local < Closes(w, day)

\* Mutant: the search starts with the next day.
NextOpeningFromTomorrow(w, t) ==
    LET local == t + w.zone
        days == {day \in DayOf(local) + 1 .. DayOf(local) + DaysPerWeek + 1 : OnDay(w, day)}
    IN Min({Opens(w, day) : day \in days}) - w.zone

\* The first opening within a week and two days, or else a week from now.
NextOpening(w, t) ==
    LET local == t + w.zone
        days == {day \in DayOf(local) .. DayOf(local) + DaysPerWeek + 1 : OnDay(w, day)}
        openings == {Opens(w, day) : day \in days}
        later == {o \in openings : o > local}
    IN IF later = {} THEN t + DaysPerWeek * HoursPerDay ELSE Min(later) - w.zone

\* blackout_active_until: when the blackout that holds at t ends, or t.
WeeklyUntil(b, t) ==
    LET local == t + b.zone
        today == DayOf(local) * HoursPerDay
        on(day) == WeekDay(day) \in b.days
    IN CASE b.from < b.to /\ on(DayOf(local)) /\ Hour(local) \in b.from .. b.to - 1 ->
                today + b.to - b.zone
         [] b.from > b.to /\ on(DayOf(local)) /\ Hour(local) >= b.from ->
                today + HoursPerDay + b.to - b.zone
         [] b.from > b.to /\ on(DayOf(local) - 1) /\ Hour(local) < b.to ->
                today + b.to - b.zone
         [] OTHER -> t

ActiveUntil(b, t) ==
    IF b.kind = "WEEKLY" THEN WeeklyUntil(b, t)
    ELSE IF b.from <= t /\ t < b.to THEN b.to ELSE t

\* evaluate_blackouts: the end of the longest that holds, or t.
BlackoutUntil(g, t) == Max({t} \cup {ActiveUntil(b, t) : b \in {b \in blackouts : g \in b.at}})
InBlackout(g, t) == BlackoutUntil(g, t) > t

-----------------------------------------------------------------------------
(***************************************************************************)
(* The worker's decision about a message.                                  *)
(***************************************************************************)

Sent == {m \in Messages : message[m].status = "SENT"}
SentToday == {m \in Sent : DayOf(message[m].at) >= DayOf(clock)}
MayResume == floodUntil <= clock

\* find_recent_duplicate
Repeats(m) == \E x \in Sent \ {m} :
    /\ GroupOf[x] = GroupOf[m] /\ TextOf[x] = TextOf[m]
    /\ GuardHours > 0 /\ message[x].at >= clock - GuardHours

\* When the message may be tried: the first rule that stands in its way says.
TryAt(m) ==
    LET g == GroupOf[m] IN
    IF InBlackout(g, clock) THEN BlackoutUntil(g, clock)
    ELSE IF ~InWindow(window[g], clock) THEN NextOpening(window[g], clock)
    ELSE IF restUntil[g] > clock THEN restUntil[g]
    ELSE IF lastSend # 0 /\ lastSend + MinInterval > clock THEN lastSend + MinInterval
    ELSE IF Cardinality(SentToday) >= DailyCap THEN (DayOf(clock) + 1) * HoursPerDay
    ELSE clock

Ready(m) == message[m].status = "PENDING" /\ message[m].due <= clock
InFlightNow == {m \in Messages : message[m].status = "TAKEN"}

\* One pass of the worker over the message that is due first.
Consider(m) ==
    /\ active /\ InFlightNow = {}
    /\ Ready(m) /\ \A x \in Messages : Ready(x) => message[m].due <= message[x].due
    /\ message' = [message EXCEPT ![m] =
            IF ~InBlackout(GroupOf[m], clock) /\ Repeats(m)
            THEN [@ EXCEPT !.status = "SKIPPED", !.due = 0]
            ELSE IF TryAt(m) > clock THEN [@ EXCEPT !.due = TryAt(m)]
            ELSE [@ EXCEPT !.status = "TAKEN", !.due = 0]]
    /\ UNCHANGED <<clock, window, blackouts, restUntil, lastSend, active, floodUntil>>

\* Mutant: the cooldown of the destination is not started.
RestedOnlyConnection(m) == lastSend' = clock /\ UNCHANGED restUntil

Rested(m) ==
    /\ lastSend' = clock
    /\ restUntil' = [restUntil EXCEPT ![GroupOf[m]] = clock + Cooldown]

\* Telegram has taken the message, and says so.
Acknowledge(m) ==
    /\ m \in InFlightNow
    /\ message' = [message EXCEPT ![m] = [@ EXCEPT !.status = "SENT", !.at = clock, !.seen = TRUE]]
    /\ Rested(m)
    /\ UNCHANGED <<clock, window, blackouts, active, floodUntil>>

\* Slow mode and transient errors put the message off.
PutOff(m, delay) ==
    /\ m \in InFlightNow
    /\ message' = [message EXCEPT ![m] = [@ EXCEPT !.status = "PENDING", !.due = clock + delay]]
    /\ UNCHANGED <<clock, window, blackouts, restUntil, lastSend, active, floodUntil>>

\* A flood wait stops the connection, and so does a result that is not known; the message
\* waits for an operator.
Stop(m, delay) ==
    /\ m \in InFlightNow /\ active' = FALSE
    /\ \/ floodUntil' = clock + delay /\ message' = [message EXCEPT ![m].status = "REVIEW"]
       \/ floodUntil' = floodUntil /\ message' = [message EXCEPT ![m].status = "UNCERTAIN"]
    /\ UNCHANGED <<clock, window, blackouts, restUntil, lastSend>>

GiveUp(m) ==
    /\ m \in InFlightNow
    /\ message' = [message EXCEPT ![m].status = "FAILED"]
    /\ UNCHANGED <<clock, window, blackouts, restUntil, lastSend, active, floodUntil>>

-----------------------------------------------------------------------------
(***************************************************************************)
(* Operators, and time.                                                    *)
(***************************************************************************)

\* resume_connection
ResumeSending ==
    /\ ~active /\ MayResume
    /\ active' = TRUE /\ floodUntil' = 0
    /\ message' = [m \in Messages |-> IF message[m].status = "REVIEW"
                                      THEN [message[m] EXCEPT !.status = "PENDING", !.due = clock]
                                      ELSE message[m]]
    /\ UNCHANGED <<clock, window, blackouts, restUntil, lastSend>>

\* resolve_uncertain_delivery: sent, not sent, or not to be sent.
Reconcile(m) ==
    /\ message[m].status = "UNCERTAIN"
    /\ \/ /\ message' = [message EXCEPT ![m] = [@ EXCEPT !.status = "SENT", !.at = clock]]
          /\ Rested(m)
       \/ /\ active
          /\ message' = [message EXCEPT ![m] = [@ EXCEPT !.status = "PENDING", !.due = clock]]
          /\ UNCHANGED <<restUntil, lastSend>>
       \/ /\ message' = [message EXCEPT ![m].status = "SKIPPED"]
          /\ UNCHANGED <<restUntil, lastSend>>
    /\ UNCHANGED <<clock, window, blackouts, active, floodUntil>>

\* create_blackout, update_blackout and delete_blackout
Declare(b) ==
    /\ b \notin blackouts /\ Cardinality(blackouts) < MaxBlackouts
    /\ blackouts' = blackouts \cup {b}
    /\ UNCHANGED <<clock, window, message, restUntil, lastSend, active, floodUntil>>

Replace(b, c) ==
    /\ b \in blackouts /\ c \notin blackouts
    /\ blackouts' = (blackouts \ {b}) \cup {c}
    /\ UNCHANGED <<clock, window, message, restUntil, lastSend, active, floodUntil>>

Lift(b) ==
    /\ b \in blackouts
    /\ blackouts' = blackouts \ {b}
    /\ UNCHANGED <<clock, window, message, restUntil, lastSend, active, floodUntil>>

Tick ==
    /\ clock < LastHour
    /\ clock' = clock + 1
    /\ UNCHANGED <<window, blackouts, message, restUntil, lastSend, active, floodUntil>>

PacingNext ==
    \/ \E m \in Messages :
        \/ Consider(m) \/ Acknowledge(m) \/ GiveUp(m) \/ Reconcile(m)
        \/ \E d \in Delays : PutOff(m, d) \/ Stop(m, d)
    \/ \E b \in BlackoutChoices :
        \/ Declare(b) \/ Lift(b)
        \/ \E c \in BlackoutChoices : Replace(b, c)
    \/ ResumeSending \/ Tick

PacingSpec == PacingInit /\ [][PacingNext]_pacingVars

-----------------------------------------------------------------------------
(***************************************************************************)
(* What the rules declare, hour by hour.                                   *)
(***************************************************************************)

\* The days whose window or blackout can hold at t.
DaysNear(t) == DayOf(t) - 1 .. DayOf(t) + 1

Declared(b, t) ==
    IF b.kind = "ONE_TIME" THEN t \in b.from .. b.to - 1
    ELSE \E day \in DaysNear(t) :
            /\ WeekDay(day) \in b.days
            /\ LET start == day * HoursPerDay + b.from
                   length == (b.to - b.from) % HoursPerDay
               IN t + b.zone \in start .. start + length - 1

Permitted(w, t) ==
    \E day \in DaysNear(t) :
        /\ w.days = {} \/ WeekDay(day) \in w.days
        /\ w.from = AnyTime => DayOf(t + w.zone) = day
        /\ w.from # AnyTime =>
              LET start == day * HoursPerDay + w.from
                  length == IF w.from = w.to THEN HoursPerDay ELSE (w.to - w.from) % HoursPerDay
              IN t + w.zone \in start .. start + length - 1

Forbidden(m, t) ==
    LET g == GroupOf[m] IN
    \/ \E b \in blackouts : g \in b.at /\ Declared(b, t)
    \/ ~Permitted(window[g], t)
    \/ t < restUntil[g]
    \/ lastSend # 0 /\ t < lastSend + MinInterval
    \/ DayOf(t) = DayOf(clock) /\ Cardinality(SentToday) >= DailyCap

-----------------------------------------------------------------------------
(***************************************************************************)
(* Properties.                                                             *)
(***************************************************************************)

\* The worker takes a message only in an hour in which every rule lets it, and puts one
\* off by some time, over hours in each of which a rule forbids it: whichever rule is
\* asked first, no opening is missed (app/services/safety.py:297).
DeferralSkipsNoOpening ==
    [][\A m \in Messages :
        Consider(m) =>
            /\ message'[m].status = "TAKEN" => ~Forbidden(m, clock)
            /\ message'[m].status = "PENDING" =>
                  /\ message'[m].due > clock
                  /\ \A t \in clock .. message'[m].due - 1 : Forbidden(m, t)]_pacingVars

Acknowledged == {m \in Sent : message[m].seen}

\* The messages that the worker has seen sent keep the interval of the connection, the
\* cooldown of the destination and the daily cap, and a text does not return to a
\* destination within the guard, through retries, stops and reconciliations
\* (app/services/safety.py:317).
AcknowledgedAreSpread ==
    /\ \A day \in {DayOf(message[m].at) : m \in Acknowledged} :
          Cardinality({m \in Acknowledged : DayOf(message[m].at) = day}) <= DailyCap
    /\ \A x \in Acknowledged : \A y \in Acknowledged \ {x} :
          message[x].at <= message[y].at =>
              /\ message[y].at >= message[x].at + MinInterval
              /\ GroupOf[x] = GroupOf[y] => message[y].at >= message[x].at + Cooldown
              /\ (GroupOf[x] = GroupOf[y] /\ TextOf[x] = TextOf[y] /\ GuardHours > 0) =>
                    message[y].at > message[x].at + GuardHours
=============================================================================
