---------------------- MODULE UpdateScheduleProperties ----------------------
(***************************************************************************)
(* What the update schedule must guarantee.                                *)
(***************************************************************************)
EXTENDS UpdateSchedule

\* Only valid policies come into force: no window passes midnight, where
\* checkSchedule would lose its rest. Validate is called in three places.
TypeOK ==
    /\ now \in 0 .. MaxNow
    /\ stored \in Policy
    /\ pending \in [Handlers -> Policy \union {None}]
    /\ notice \in Answers \union {None}
    /\ up \in BOOLEAN
    /\ helper \in HelperState
    /\ looked \in {"no", "busy", "idle", "stale"}
    /\ tick \in Keys \union {None}
    /\ \A p \in {stored, helper.policy} : WindowEnd(p) <= DayLength

-----------------------------------------------------------------------------
(* The calendar *)

\* Three pieces of code compute the window, and two the minute of the feed: the
\* times Status shows are those at which checkSchedule begins to trigger
\* (nextStackTime, nextFeedTime), and scheduledWindowExpired defers an upgrade of
\* such a time exactly when its window is over, until its weekday comes again.
SchedulesAgree ==
    \A p \in {q \in Forms : Valid(q)} :
        /\ WindowOpen(p, now) <=>
             \E t \in now - p.window + 1 .. now : NextStackTime(p, t - 1) = t
        /\ \A t \in now - Week * DayLength + p.start + 1 .. now :
               NextStackTime(p, t - 1) = t => (WindowExpired(p, now) <=> now >= t + p.window)
        /\ Minute(p, now) >= p.feedMinute <=>
             \E t \in At(p, Date(p, now), 0) .. now : NextFeedTime(p, t - 1) = t

-----------------------------------------------------------------------------
(* What is triggered *)

Accepted == ~Busy /\ Busy'

\* The schedule begins an operation of a kind at most once for a date, through
\* failures, restarts and changes of policy and zone.
OncePerDate ==
    [][Accepted /\ helper'.active.trigger = "scheduled" =>
         [kind |-> tick[1], date |-> tick[2], trigger |-> "scheduled"] \notin begun]_vars

\* The clock leaves a slot in which the helper was idle when it looked.
IdleSlotEnds == now' # now /\ up /\ looked = "idle"

Today == Date(helper.policy, now)
DayEnds == Minute(helper.policy, now) = DayLength - 1
WindowCloses ==
    WindowOpen(helper.policy, now) /\ Minute(helper.policy, now) = WindowEnd(helper.policy) - 1

\* A day of an idle helper does not end before its feed refresh was begun, even
\* if other operations were active at the minute of the policy, or another
\* refresh was completed on that day.
FeedsAreNotSkipped ==
    [][IdleSlotEnds /\ helper.policy.feedEnabled /\ DayEnds =>
         \/ <<"feed", Today>> \in helper.keys
         \/ helper.feedDate = Today]_vars

\* A window does not close over an idle and armed helper without its upgrade,
\* unless the refresh of that date was begun and has not been completed.
WindowsAreUsed ==
    [][IdleSlotEnds /\ helper.policy.stackEnabled /\ ~helper.paused /\ WindowCloses =>
         \/ <<"stack", Today>> \in helper.keys
         \/ helper.stackDate = Today
         \/ <<"feed", Today>> \in helper.keys /\ helper.feedDate # Today]_vars

=============================================================================
