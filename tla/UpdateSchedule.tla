--------------------------- MODULE UpdateSchedule ---------------------------
(***************************************************************************)
(* The update policy and the schedule it makes: the copy that the web      *)
(* application stores (internal/web/updates.go, internal/store/updater.go),*)
(* the copy in the helper, and checkSchedule, which looks at a clock       *)
(* (internal/updater/controller.go).                                       *)
(*                                                                         *)
(* Time passes in slots, longer than the intervals of the schedule loop    *)
(* and of polling for scans: in every slot the helper looks at least once. *)
(* A zone is an offset to the clock. What an operation does, and the saves *)
(* between its steps, are in Updater: here the helper's state is durable.  *)
(***************************************************************************)
EXTENDS Integers

CONSTANTS
    DayLength,     \* slots of a day
    Week,          \* days of a week
    Forms,         \* policies that administrators send
    DefaultPolicy, \* the policy of the first start
    None,          \* no policy, no decision, no answer
    Handlers,      \* requests that may save a policy at the same time
    MaxNow,        \* bound: slots the clock reaches
    MaxEdits,      \* bound: policies saved
    MaxRequests,   \* bound: operations that administrators start, and acknowledgements
    MaxFaults      \* bound: crashes of the helper and restarts of the application

Policy ==
    [feedEnabled : BOOLEAN, feedMinute : Int, stackEnabled : BOOLEAN, weekday : Int,
     start : Int, window : Int, zone : Nat, timeout : Int]

\* Policy.Validate. Windows and timeouts have no upper bound of their own here.
Valid(p) ==
    /\ p.feedMinute \in 0 .. DayLength - 1
    /\ p.weekday \in 1 .. Week
    /\ p.start \in 0 .. DayLength - 1
    /\ p.window > 0
    /\ p.start + p.window <= DayLength
    /\ p.timeout > 0

ASSUME ClockAssumption ==
    /\ DayLength \in Nat \ {0}
    /\ Week \in Nat \ {0}
    /\ MaxNow \in Nat
    /\ MaxEdits \in Nat
    /\ MaxRequests \in Nat
    /\ MaxFaults \in Nat

ASSUME PolicyAssumption ==
    /\ Forms \subseteq Policy
    /\ DefaultPolicy \in Policy
    /\ Valid(DefaultPolicy)

-----------------------------------------------------------------------------
(* The calendar of a policy *)

Date(p, t) == (t + p.zone) \div DayLength
Minute(p, t) == (t + p.zone) % DayLength

\* Time of a minute of a date.
At(p, date, minute) == date * DayLength + minute - p.zone

\* Time.Weekday counts from Sunday, 0; a policy counts from Monday, 1.
Weekday(p, t) == Date(p, t) % Week

PolicyWeekday(p) == p.weekday % Week

WindowEnd(p) == p.start + p.window

WindowOpen(p, t) ==
    /\ Weekday(p, t) = PolicyWeekday(p)
    /\ Minute(p, t) >= p.start
    /\ Minute(p, t) < WindowEnd(p)

\* Mutant: the weekday is not looked at.
WindowExpiredByMinute(p, t) == Minute(p, t) >= WindowEnd(p)

\* scheduledWindowExpired.
WindowExpired(p, t) ==
    \/ Weekday(p, t) # PolicyWeekday(p)
    \/ Minute(p, t) >= WindowEnd(p)

\* nextFeedTime and nextStackTime, which Status shows.
NextFeedTime(p, t) ==
    LET next == At(p, Date(p, t), p.feedMinute) IN
    IF next > t THEN next ELSE next + DayLength

NextStackTime(p, t) ==
    LET days == (PolicyWeekday(p) - Weekday(p, t) + Week) % Week
        next == At(p, Date(p, t) + days, p.start) IN
    IF next > t THEN next ELSE next + Week * DayLength

-----------------------------------------------------------------------------
VARIABLES
    now,      \* the clock
    stored,   \* update_settings in SQLite
    pending,  \* per request: the policy it has stored and not yet sent to the helper
    notice,   \* what the last request answered
    up,       \* whether the helper runs
    helper,   \* persistentState
    looked,   \* what the helper was when checkSchedule looked last in this slot
    tick,     \* what checkSchedule has decided to trigger, if anything
    edits, requests, faults,
    begun     \* history: operations accepted, with the date they were meant for

web == <<stored, pending, notice>>
counters == <<edits, requests, faults>>
vars == <<now, stored, pending, notice, up, helper, looked, tick, edits, requests,
          faults, begun>>

Kinds == {"feed", "stack"}
Keys == Kinds \X Int
Answers == {"saved", "saved-offline"}

ASSUME NoneAssumption == None \notin Policy /\ None \notin Keys /\ None \notin Answers

ActivePhases == {"queued", "scans", "waiting", "working"}
Outcomes == {"succeeded", "cancelled", "failed"}

\* polled is the slot of the last poll for scans; policy and deadline are fixed
\* when the goroutine of the operation begins.
Operation ==
    [kind : Kinds, trigger : {"admin", "scheduled"}, phase : ActivePhases \union Outcomes,
     policy : Policy, deadline : Int, polled : Int]

NoOperation ==
    [kind |-> "feed", trigger |-> "admin", phase |-> "cancelled", policy |-> DefaultPolicy,
     deadline |-> 0, polled |-> 0]

\* Keys of forgotten operations stay here: no date sees a hundred operations.
\* NoDate stands for the empty LastFeedDate and LastStackDate: dates count from 0.
NoDate == -1
HelperState ==
    [policy : Policy, active : Operation, keys : SUBSET Keys, feedDate : Int,
     stackDate : Int, paused : BOOLEAN]

Init ==
    /\ now = 0
    /\ stored = DefaultPolicy
    /\ pending = [h \in Handlers |-> None]
    /\ notice = None
    /\ up = TRUE
    /\ helper = [policy |-> DefaultPolicy, active |-> NoOperation, keys |-> {},
                 feedDate |-> NoDate, stackDate |-> NoDate, paused |-> FALSE]
    /\ looked = "no"
    /\ tick = None
    /\ edits = 0
    /\ requests = 0
    /\ faults = 0
    /\ begun = {}

Busy == helper.active.phase \in ActivePhases

-----------------------------------------------------------------------------
(* Saving a policy *)

\* updatesSettings: the form is validated and stored, in one statement.
SavePolicy(h, p) ==
    /\ pending[h] = None
    /\ edits < MaxEdits
    /\ Valid(p)
    /\ edits' = edits + 1
    /\ stored' = p
    /\ pending' = [pending EXCEPT ![h] = p]
    /\ notice' = None
    /\ UNCHANGED <<now, up, helper, looked, tick, requests, faults, begun>>

\* Configure. The look of this slot was at another policy.
Configured(p) ==
    /\ up
    /\ helper' = [helper EXCEPT !.policy = p]
    /\ looked' = IF looked = "no" THEN "no" ELSE "stale"

NotConfigured == UNCHANGED <<helper, looked>>

\* The helper is told with a timeout: it is down, or its answer may be lost.
Applied(p) ==
    \/ Configured(p) /\ notice' \in Answers
    \/ NotConfigured /\ notice' = "saved-offline"

ApplyPolicy(h) ==
    /\ pending[h] # None
    /\ Applied(pending[h])
    /\ pending' = [pending EXCEPT ![h] = None]
    /\ UNCHANGED <<now, stored, up, tick, counters, begun>>

\* A restart of the application drops its requests and sends the stored policy.
AppStarts ==
    /\ faults < MaxFaults
    /\ faults' = faults + 1
    /\ pending' = [h \in Handlers |-> None]
    /\ notice' = None
    /\ Configured(stored) \/ NotConfigured
    /\ UNCHANGED <<now, stored, up, tick, edits, requests, begun>>

-----------------------------------------------------------------------------
(* The schedule loop and triggers *)

\* Mutant: the feed is due at its minute only.
FeedDueAtMinute(p) ==
    /\ p.feedEnabled
    /\ Minute(p, now) = p.feedMinute
    /\ helper.feedDate # Date(p, now)

\* Mutant: whether the feed was refreshed today is left to the key.
FeedDueAllDay(p) ==
    /\ p.feedEnabled
    /\ Minute(p, now) >= p.feedMinute

FeedDue(p) ==
    /\ p.feedEnabled
    /\ Minute(p, now) >= p.feedMinute
    /\ helper.feedDate # Date(p, now)

StackDue(p) ==
    /\ p.stackEnabled
    /\ ~helper.paused
    /\ WindowOpen(p, now)
    /\ helper.stackDate # Date(p, now)

\* A feed that is due comes first, and then nothing else is looked at.
Decision ==
    LET p == helper.policy IN
    IF Busy THEN None
    ELSE IF FeedDue(p) THEN <<"feed", Date(p, now)>>
    ELSE IF StackDue(p) THEN <<"stack", Date(p, now)>>
    ELSE None

\* checkSchedule decides on a copy of the state, the trigger follows.
CheckSchedule ==
    /\ up
    /\ tick = None
    /\ looked' = IF Busy THEN "busy" ELSE "idle"
    /\ tick' = Decision
    /\ UNCHANGED <<now, web, up, helper, counters, begun>>

\* Trigger: a goroutine follows without delay.
Acceptable(kind) == ~Busy /\ (kind = "stack" => ~helper.paused)

Accept(kind, trigger, date, keys) ==
    /\ helper' = [helper EXCEPT
                    !.active = [NoOperation EXCEPT !.kind = kind, !.trigger = trigger,
                                                   !.phase = "queued"],
                    !.keys = keys]
    /\ begun' = begun \union {[kind |-> kind, date |-> date, trigger |-> trigger]}
    /\ looked' = IF looked = "no" THEN "no" ELSE "busy"

\* Mutant: a key that was used is used again.
KeyAlwaysFree(key) == TRUE

KeyFree(key) == key \notin helper.keys

\* A key that was used answers with the operation it began, a busy helper with
\* an error: the loop drops both answers.
TriggerScheduled ==
    /\ tick # None
    /\ tick' = None
    /\ IF KeyFree(tick) /\ Acceptable(tick[1])
       THEN Accept(tick[1], "scheduled", tick[2], helper.keys \union {tick})
       ELSE looked' = (IF Busy THEN "busy" ELSE looked) /\ UNCHANGED <<helper, begun>>
    /\ UNCHANGED <<now, web, up, counters>>

\* Keys of administrators are fresh.
TriggerAdmin(kind) ==
    /\ up
    /\ requests < MaxRequests
    /\ Acceptable(kind)
    /\ Accept(kind, "admin", Date(helper.policy, now), helper.keys)
    /\ requests' = requests + 1
    /\ UNCHANGED <<now, web, up, tick, edits, faults>>

\* The look of this slot was at a paused automation.
Acknowledge ==
    /\ up
    /\ requests < MaxRequests
    /\ helper.paused
    /\ helper' = [helper EXCEPT !.paused = FALSE]
    /\ looked' = IF looked = "no" THEN "no" ELSE "stale"
    /\ requests' = requests + 1
    /\ UNCHANGED <<now, web, up, tick, edits, faults, begun>>

-----------------------------------------------------------------------------
(* The goroutine of an operation *)

\* execute reads the policy for the operation.
Begin ==
    /\ up
    /\ helper.active.phase = "queued"
    /\ helper' = [helper EXCEPT
         !.active.phase = IF helper.active.kind = "feed" THEN "working" ELSE "scans",
         !.active.policy = helper.policy,
         !.active.deadline = now + helper.policy.timeout]
    /\ UNCHANGED <<now, web, up, looked, tick, counters, begun>>

Ended(s, outcome) ==
    [s EXCEPT !.active = [NoOperation EXCEPT !.phase = outcome]]

\* recordScheduleCompletion: policy and date of the moment of completion.
Recorded(s) ==
    IF s.active.kind = "feed" THEN [s EXCEPT !.feedDate = Date(s.policy, now)]
    ELSE [s EXCEPT !.stackDate = Date(s.policy, now)]

\* waitForScans: the end of the window is looked at while scans are active. The
\* scanner may not answer.
PollScans ==
    /\ up
    /\ helper.active.phase \in {"scans", "waiting"}
    /\ \/ helper' = [helper EXCEPT !.active.phase = "working"]
       \/ IF helper.active.trigger = "scheduled" /\ WindowExpired(helper.active.policy, now)
          THEN helper' = Ended(Recorded(helper), "cancelled")
          ELSE helper' = [helper EXCEPT !.active.phase = "waiting", !.active.polled = now]
       \/ helper' = Ended(helper, "failed")
    /\ UNCHANGED <<now, web, up, looked, tick, counters, begun>>

\* The deadline of the operation, which bounds the wait too.
TimeOut ==
    /\ up
    /\ helper.active.phase = "waiting"
    /\ now >= helper.active.deadline
    /\ helper' = Ended(helper, "failed")
    /\ UNCHANGED <<now, web, up, looked, tick, counters, begun>>

\* Completions are recorded, failures are not: also a feed whose import is late
\* leaves its date open. A rollback, "failed" here, pauses the automation.
Conclude ==
    /\ up
    /\ helper.active.phase = "working"
    /\ \/ helper' = Ended(Recorded(helper), "succeeded")
       \/ helper' = Ended(helper, "failed")
       \/ /\ helper.active.kind = "stack"
          /\ helper' = Ended([helper EXCEPT !.paused = TRUE], "failed")
    /\ UNCHANGED <<now, web, up, looked, tick, counters, begun>>

-----------------------------------------------------------------------------
(* The helper's process and the clock *)

Crash ==
    /\ up
    /\ faults < MaxFaults
    /\ faults' = faults + 1
    /\ up' = FALSE
    /\ looked' = "no"
    /\ tick' = None
    /\ UNCHANGED <<now, web, helper, edits, requests, begun>>

\* Start with recoverInterrupted: an upgrade that was changing the services is
\* rolled back, anything else stopped; the loop then looks at once.
Start ==
    /\ ~up
    /\ up' = TRUE
    /\ \/ ~Busy /\ UNCHANGED helper
       \/ Busy /\ helper' = Ended(helper, "failed")
       \/ /\ Busy
          /\ helper.active.kind = "stack"
          /\ helper.active.phase = "working"
          /\ helper' = Ended([helper EXCEPT !.paused = TRUE], "failed")
    /\ UNCHANGED <<now, web, looked, tick, counters, begun>>

\* What takes less than a slot is done before the slot ends: a look, a trigger
\* and its goroutine, a poll for scans; and no operation outlives its deadline.
SlotDone ==
    up =>
      /\ looked # "no"
      /\ tick = None
      /\ helper.active.phase \notin {"queued", "scans"}
      /\ helper.active.phase = "waiting" => helper.active.polled = now
      /\ Busy => now < helper.active.deadline

Pass ==
    /\ now < MaxNow
    /\ SlotDone
    /\ now' = now + 1
    /\ looked' = "no"
    /\ UNCHANGED <<web, up, helper, tick, counters, begun>>

-----------------------------------------------------------------------------
Next ==
    \/ \E h \in Handlers, p \in Forms : SavePolicy(h, p)
    \/ \E h \in Handlers : ApplyPolicy(h)
    \/ AppStarts
    \/ CheckSchedule
    \/ TriggerScheduled
    \/ \E kind \in Kinds : TriggerAdmin(kind)
    \/ Acknowledge
    \/ Begin
    \/ PollScans
    \/ TimeOut
    \/ Conclude
    \/ Crash
    \/ Start
    \/ Pass

Spec == Init /\ [][Next]_vars
=============================================================================
