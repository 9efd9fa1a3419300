------------------------ MODULE UpdateScheduleProofs ------------------------
(***************************************************************************)
(* Proofs of the properties of the update schedule, for every calendar,    *)
(* every set of policies and any number of edits, requests and faults.     *)
(***************************************************************************)
EXTENDS UpdateScheduleProperties, TLAPS

\* What is stored, under way or in force has passed Validate.
PoliciesInv ==
    /\ stored \in Policy /\ Valid(stored)
    /\ pending \in [Handlers -> Policy \union {None}]
    /\ \A h \in Handlers : pending[h] # None => Valid(pending[h])
    /\ helper.policy \in Policy /\ Valid(helper.policy)

Typed ==
    /\ now \in 0 .. MaxNow
    /\ notice \in Answers \union {None}
    /\ up \in BOOLEAN
    /\ helper \in HelperState
    /\ looked \in {"no", "busy", "idle", "stale"}
    /\ tick \in Keys \union {None}

\* What the schedule began is a key of the helper.
BegunInv ==
    \A kind \in Kinds, date \in Int :
        [kind |-> kind, date |-> date, trigger |-> "scheduled"] \in begun
            => <<kind, date>> \in helper.keys

\* While the helper is idle since it looked, nothing has moved: what it would
\* decide again is what it has decided, or has been triggered before.
LookInv ==
    looked = "idle" =>
        /\ ~Busy
        /\ \/ tick = Decision
           \/ tick = None /\ Decision \in helper.keys

IInv == Typed /\ PoliciesInv /\ BegunInv /\ LookInv

\* The parts of a policy, as numbers.
LEMMA PolicyParts ==
    ASSUME NEW p \in Policy, Valid(p)
    PROVE  /\ p.feedMinute \in Int /\ p.zone \in Int /\ p.timeout \in Int
           /\ p.feedMinute <= DayLength - 1
           /\ WindowEnd(p) <= DayLength
  BY ClockAssumption DEF Policy, Valid, WindowEnd

LEMMA DatesAreNumbers ==
    ASSUME NEW p \in Policy, NEW t \in Int
    PROVE  Date(p, t) \in Int /\ Minute(p, t) \in Int
<1>1. p.zone \in Int
  BY DEF Policy
<1>2. t + p.zone \in Int /\ DayLength \in Nat /\ DayLength > 0
  BY <1>1, ClockAssumption
<1>. QED
  BY <1>2 DEF Date, Minute

LEMMA NothingActive == NoOperation \in Operation /\ NoOperation.phase \notin ActivePhases
  BY PolicyAssumption DEF NoOperation, Operation, Kinds, ActivePhases, Outcomes

-----------------------------------------------------------------------------
(* Types *)

\* Completions change the dates only, outcomes the operation only.
LEMMA EndedIsState ==
    ASSUME NEW s \in HelperState, NEW outcome \in Outcomes
    PROVE  /\ Ended(s, outcome) \in HelperState
           /\ Ended(s, outcome).policy = s.policy
           /\ Ended(s, outcome).keys = s.keys
           /\ Ended(s, outcome).active.phase = outcome
<1>1. [NoOperation EXCEPT !.phase = outcome] \in Operation
  BY NothingActive DEF Operation
<1>2. [NoOperation EXCEPT !.phase = outcome].phase = outcome
  BY DEF NoOperation
<1>. QED
  BY <1>1, <1>2 DEF Ended, HelperState

LEMMA RecordedIsState ==
    ASSUME NEW s \in HelperState, now \in Int
    PROVE  /\ Recorded(s) \in HelperState
           /\ Recorded(s).policy = s.policy
           /\ Recorded(s).keys = s.keys
<1>1. Date(s.policy, now) \in Int
  BY DatesAreNumbers DEF HelperState
<1>. QED
  BY <1>1 DEF Recorded, HelperState

LEMMA PausedIsState ==
    ASSUME NEW s \in HelperState
    PROVE  LET t == Ended([s EXCEPT !.paused = TRUE], "failed") IN
           t \in HelperState /\ t.policy = s.policy /\ t.keys = s.keys
<1>. DEFINE r == [s EXCEPT !.paused = TRUE]
<1>1. r \in HelperState /\ r.policy = s.policy /\ r.keys = s.keys
  BY DEF HelperState
<1>. HIDE DEF r
<1>2. Ended(r, "failed") \in HelperState
      /\ Ended(r, "failed").policy = r.policy /\ Ended(r, "failed").keys = r.keys
  BY <1>1, EndedIsState DEF Outcomes
<1>. QED
  BY <1>1, <1>2 DEF r

\* Accepting an operation.
LEMMA AcceptIsTyped ==
    ASSUME Typed, NEW kind \in Kinds, NEW trigger \in {"admin", "scheduled"}, NEW date,
           NEW keys \in SUBSET Keys, Accept(kind, trigger, date, keys)
    PROVE  /\ helper' \in HelperState
           /\ helper'.policy = helper.policy
           /\ helper'.keys = keys
           /\ helper'.active.trigger = trigger
           /\ looked' \in {"no", "busy"}
<1>. DEFINE op == [NoOperation EXCEPT !.kind = kind, !.trigger = trigger, !.phase = "queued"]
<1>1. op \in Operation /\ op.trigger = trigger
  BY NothingActive DEF Operation, ActivePhases
<1>2. helper' = [helper EXCEPT !.active = op, !.keys = keys]
  BY DEF Accept
<1>. HIDE DEF op
<1>. QED
  BY <1>1, <1>2 DEF Accept, Typed, HelperState

\* The steps of an operation change neither policy nor keys.
LEMMA OperationSteps ==
    ASSUME Typed, Begin \/ PollScans \/ TimeOut \/ Conclude
    PROVE  /\ helper' \in HelperState
           /\ helper'.policy = helper.policy
           /\ helper'.keys = helper.keys
<1>. now \in Int /\ helper \in HelperState
  BY ClockAssumption DEF Typed
<1>1. helper.active \in Operation /\ helper.policy \in Policy
  BY DEF HelperState
<1>2. CASE Begin
  <2>. DEFINE phase == IF helper.active.kind = "feed" THEN "working" ELSE "scans"
              op == [helper.active EXCEPT !.phase = phase, !.policy = helper.policy,
                                          !.deadline = now + helper.policy.timeout]
  <2>1. now + helper.policy.timeout \in Int
    BY <1>1 DEF Policy
  <2>2. op \in Operation
    BY <1>1, <2>1 DEF Operation, ActivePhases
  <2>3. helper' = [helper EXCEPT !.active = op]
    BY <1>2, <1>1 DEF Begin, HelperState, Operation
  <2>. HIDE DEF op
  <2>. QED
    BY <2>2, <2>3 DEF HelperState
<1>3. CASE PollScans
  <2>1. CASE helper' = [helper EXCEPT !.active.phase = "working"]
    BY <2>1, <1>1 DEF HelperState, Operation, ActivePhases
  <2>2. CASE helper' = Ended(Recorded(helper), "cancelled")
    BY <2>2, RecordedIsState, EndedIsState DEF Outcomes
  <2>3. CASE helper' = [helper EXCEPT !.active.phase = "waiting", !.active.polled = now]
    BY <2>3, <1>1 DEF HelperState, Operation, ActivePhases
  <2>4. CASE helper' = Ended(helper, "failed")
    BY <2>4, EndedIsState DEF Outcomes
  <2>. QED
    BY <1>3, <2>1, <2>2, <2>3, <2>4 DEF PollScans
<1>4. CASE TimeOut
  BY <1>4, EndedIsState DEF TimeOut, Outcomes
<1>5. CASE Conclude
  <2>1. CASE helper' = Ended(Recorded(helper), "succeeded")
    BY <2>1, RecordedIsState, EndedIsState DEF Outcomes
  <2>2. CASE helper' = Ended(helper, "failed")
    BY <2>2, EndedIsState DEF Outcomes
  <2>3. CASE helper' = Ended([helper EXCEPT !.paused = TRUE], "failed")
    BY <2>3, PausedIsState
  <2>. QED
    BY <1>5, <2>1, <2>2, <2>3 DEF Conclude
<1>. QED
  BY <1>2, <1>3, <1>4, <1>5

LEMMA StartIsTyped ==
    ASSUME Typed, Start
    PROVE  /\ helper' \in HelperState
           /\ helper'.policy = helper.policy
           /\ helper'.keys = helper.keys
<1>1. CASE UNCHANGED helper
  BY <1>1 DEF Typed
<1>2. CASE helper' = Ended(helper, "failed")
  BY <1>2, EndedIsState DEF Outcomes, Typed
<1>3. CASE helper' = Ended([helper EXCEPT !.paused = TRUE], "failed")
  BY <1>3, PausedIsState DEF Typed
<1>. QED
  BY <1>1, <1>2, <1>3 DEF Start

\* Whatever the schedule decides is a key.
LEMMA DecisionIsKey ==
    ASSUME Typed
    PROVE  Decision \in Keys \union {None}
<1>1. Date(helper.policy, now) \in Int
  BY DatesAreNumbers, ClockAssumption DEF Typed, HelperState
<1>. QED
  BY <1>1 DEF Decision, Keys, Kinds

\* A policy that comes into force has passed Validate.
LEMMA ConfiguredIsValid ==
    ASSUME Typed, NEW p \in Policy, Valid(p), Configured(p)
    PROVE  /\ helper' \in HelperState
           /\ helper'.policy = p
           /\ looked' \in {"no", "stale"}
           /\ helper'.keys = helper.keys
  BY DEF Configured, Typed, HelperState

LEMMA InitTyped == Init => Typed /\ PoliciesInv
<1>1. NoOperation \in Operation
  BY NothingActive
<1>2. 0 \in 0 .. MaxNow
  BY ClockAssumption
<1>. QED
  BY <1>1, <1>2, PolicyAssumption DEF Init, Typed, PoliciesInv, HelperState, NoDate

\* Steps that change no policy.
LEMMA SamePolicies ==
    ASSUME PoliciesInv, stored' = stored, pending' = pending, helper'.policy = helper.policy
    PROVE  PoliciesInv'
  BY DEF PoliciesInv

LEMMA NextTyped ==
    ASSUME Typed, PoliciesInv, [Next]_vars
    PROVE  Typed' /\ PoliciesInv'
<1>1. CASE UNCHANGED vars
  BY <1>1 DEF vars, Typed, PoliciesInv
<1>2. ASSUME NEW h \in Handlers, NEW p \in Forms, SavePolicy(h, p) PROVE Typed' /\ PoliciesInv'
  <2>1. p \in Policy /\ Valid(p)
    BY <1>2, PolicyAssumption DEF SavePolicy
  <2>2. pending' \in [Handlers -> Policy \union {None}]
    BY <1>2, <2>1 DEF SavePolicy, PoliciesInv
  <2>3. \A g \in Handlers : pending'[g] # None => Valid(pending'[g])
    BY <1>2, <2>1 DEF SavePolicy, PoliciesInv
  <2>. QED
    BY <1>2, <2>1, <2>2, <2>3 DEF SavePolicy, Typed, PoliciesInv
<1>3. ASSUME NEW h \in Handlers, ApplyPolicy(h) PROVE Typed' /\ PoliciesInv'
  <2>1. pending[h] \in Policy /\ Valid(pending[h])
    BY <1>3 DEF ApplyPolicy, PoliciesInv
  <2>2. /\ pending' \in [Handlers -> Policy \union {None}]
        /\ \A g \in Handlers : pending'[g] # None => Valid(pending'[g])
    BY <1>3 DEF ApplyPolicy, PoliciesInv
  <2>3. CASE Configured(pending[h])
    BY <1>3, <2>1, <2>2, <2>3, ConfiguredIsValid
       DEF ApplyPolicy, Applied, Answers, Typed, PoliciesInv
  <2>4. CASE NotConfigured
    BY <1>3, <2>2, <2>4 DEF ApplyPolicy, Applied, Answers, NotConfigured, Typed, PoliciesInv
  <2>. QED
    BY <1>3, <2>3, <2>4 DEF ApplyPolicy, Applied
<1>4. CASE AppStarts
  <2>1. CASE Configured(stored)
    BY <1>4, <2>1, ConfiguredIsValid DEF AppStarts, Typed, PoliciesInv
  <2>2. CASE NotConfigured
    BY <1>4, <2>2 DEF AppStarts, NotConfigured, Typed, PoliciesInv
  <2>. QED
    BY <1>4, <2>1, <2>2 DEF AppStarts
<1>5. CASE CheckSchedule
  <2>1. Typed'
    BY <1>5, DecisionIsKey DEF CheckSchedule, Typed, web
  <2>. QED
    BY <1>5, <2>1, SamePolicies DEF CheckSchedule, web
<1>6. CASE TriggerScheduled
  <2>1. CASE KeyFree(tick) /\ Acceptable(tick[1])
    <3>1. tick[1] \in Kinds /\ helper.keys \union {tick} \in SUBSET Keys
      BY <1>6 DEF TriggerScheduled, Typed, Keys, HelperState
    <3>2. helper' \in HelperState /\ helper'.policy = helper.policy /\ looked' \in {"no", "busy"}
      BY <1>6, <2>1, <3>1, AcceptIsTyped DEF TriggerScheduled
    <3>. QED
      BY <1>6, <3>2, SamePolicies DEF TriggerScheduled, Typed, web
  <2>2. CASE ~(KeyFree(tick) /\ Acceptable(tick[1]))
    BY <1>6, <2>2, SamePolicies DEF TriggerScheduled, Typed, web
  <2>. QED
    BY <2>1, <2>2
<1>7. ASSUME NEW kind \in Kinds, TriggerAdmin(kind) PROVE Typed' /\ PoliciesInv'
  <2>1. helper.keys \in SUBSET Keys
    BY DEF Typed, HelperState
  <2>2. helper' \in HelperState /\ helper'.policy = helper.policy /\ looked' \in {"no", "busy"}
    BY <1>7, <2>1, AcceptIsTyped DEF TriggerAdmin
  <2>. QED
    BY <1>7, <2>2, SamePolicies DEF TriggerAdmin, Typed, web
<1>8. CASE Acknowledge
  <2>1. helper' \in HelperState /\ helper'.policy = helper.policy
    BY <1>8 DEF Acknowledge, Typed, HelperState
  <2>. QED
    BY <1>8, <2>1, SamePolicies DEF Acknowledge, Typed, web
<1>9. CASE Begin \/ PollScans \/ TimeOut \/ Conclude
  <2>1. helper' \in HelperState /\ helper'.policy = helper.policy
    BY <1>9, OperationSteps
  <2>2. UNCHANGED <<now, stored, pending, notice, up, looked, tick>>
    BY <1>9 DEF Begin, PollScans, TimeOut, Conclude, web
  <2>. QED
    BY <2>1, <2>2, SamePolicies DEF Typed
<1>10. CASE Crash
  BY <1>10, SamePolicies DEF Crash, Typed, web
<1>11. CASE Start
  <2>1. helper' \in HelperState /\ helper'.policy = helper.policy
    BY <1>11, StartIsTyped
  <2>. QED
    BY <1>11, <2>1, SamePolicies DEF Start, Typed, web
<1>12. CASE Pass
  <2>1. now' \in 0 .. MaxNow
    BY <1>12, ClockAssumption DEF Pass, Typed
  <2>. QED
    BY <1>12, <2>1, SamePolicies DEF Pass, Typed, web
<1>. QED
  BY <1>1, <1>2, <1>3, <1>4, <1>5, <1>6, <1>7, <1>8, <1>9, <1>10, <1>11, <1>12 DEF Next

\* Every reachable state is well typed, and no window in force passes midnight.
THEOREM TypeCorrect == Spec => []TypeOK
<1>1. Typed /\ PoliciesInv /\ [Next]_vars => (Typed /\ PoliciesInv)'
  BY NextTyped
<1>2. Typed /\ PoliciesInv => TypeOK
  <2>1. PoliciesInv => WindowEnd(stored) <= DayLength /\ WindowEnd(helper.policy) <= DayLength
    BY PolicyParts DEF PoliciesInv
  <2>. QED
    BY <2>1 DEF Typed, PoliciesInv, TypeOK
<1>. QED
  BY <1>1, <1>2, InitTyped, PTL DEF Spec

-----------------------------------------------------------------------------
(* What is triggered *)

\* An operation is active while its goroutine has something to do.
LEMMA WorkersAreBusy == Begin \/ PollScans \/ TimeOut \/ Conclude => Busy
  BY DEF Begin, PollScans, TimeOut, Conclude, Busy, ActivePhases

LEMMA AcceptIsBusy ==
    ASSUME NEW kind, NEW trigger, NEW date, NEW keys, helper \in HelperState,
           Accept(kind, trigger, date, keys)
    PROVE  Busy'
<1>1. [NoOperation EXCEPT !.kind = kind, !.trigger = trigger, !.phase = "queued"].phase = "queued"
  BY DEF NoOperation
<1>. QED
  BY <1>1 DEF Accept, Busy, ActivePhases, HelperState

\* Nothing begins but by a trigger.
LEMMA OnlyTriggersAccept ==
    ASSUME Typed, [Next]_vars, ~Busy, Busy'
    PROVE  TriggerScheduled \/ \E kind \in Kinds : TriggerAdmin(kind)
<1>1. helper' # helper /\ helper'.active # helper.active
  BY DEF Busy
<1>2. ASSUME NEW h \in Handlers, NEW p \in Forms, SavePolicy(h, p) PROVE FALSE
  BY <1>1, <1>2 DEF SavePolicy
<1>3. ASSUME NEW p, Configured(p) \/ NotConfigured PROVE FALSE
  BY <1>1, <1>3 DEF Configured, NotConfigured, Typed, HelperState
<1>4. ASSUME NEW h \in Handlers, ApplyPolicy(h) PROVE FALSE
  BY <1>3, <1>4 DEF ApplyPolicy, Applied
<1>5. CASE AppStarts
  BY <1>3, <1>5 DEF AppStarts
<1>6. CASE Acknowledge
  BY <1>1, <1>6 DEF Acknowledge, Typed, HelperState
<1>7. CASE Start
  BY <1>1, <1>7 DEF Start
<1>8. CASE CheckSchedule \/ Crash \/ Pass \/ UNCHANGED vars
  BY <1>1, <1>8 DEF CheckSchedule, Crash, Pass, vars
<1>. QED
  BY <1>2, <1>4, <1>5, <1>6, <1>7, <1>8, WorkersAreBusy DEF Next

LEMMA NextBegun ==
    ASSUME Typed, PoliciesInv, BegunInv, [Next]_vars
    PROVE  BegunInv'
<1>1. ASSUME helper'.keys = helper.keys, begun' = begun PROVE BegunInv'
  BY <1>1 DEF BegunInv
<1>2. ASSUME NEW h \in Handlers, NEW p \in Forms, SavePolicy(h, p) PROVE BegunInv'
  BY <1>1, <1>2 DEF SavePolicy
<1>3. ASSUME NEW p, Configured(p) \/ NotConfigured PROVE helper'.keys = helper.keys
  BY <1>3 DEF Configured, NotConfigured, Typed, HelperState
<1>4. ASSUME NEW h \in Handlers, ApplyPolicy(h) PROVE BegunInv'
  BY <1>1, <1>3, <1>4 DEF ApplyPolicy, Applied
<1>5. CASE AppStarts
  BY <1>1, <1>3, <1>5 DEF AppStarts
<1>6. CASE TriggerScheduled
  <2>1. CASE KeyFree(tick) /\ Acceptable(tick[1])
    <3>. DEFINE keys == helper.keys \union {tick}
    <3>1. tick \in Keys /\ tick[1] \in Kinds /\ tick = <<tick[1], tick[2]>> /\ keys \in SUBSET Keys
      BY <1>6 DEF TriggerScheduled, Typed, Keys, HelperState
    <3>2. Accept(tick[1], "scheduled", tick[2], keys)
      BY <1>6, <2>1 DEF TriggerScheduled
    <3>3. helper'.keys = keys
      BY <3>1, <3>2, AcceptIsTyped
    <3>4. begun' = begun \union {[kind |-> tick[1], date |-> tick[2], trigger |-> "scheduled"]}
      BY <3>2 DEF Accept
    <3>. QED
      BY <3>1, <3>3, <3>4 DEF BegunInv
  <2>2. CASE ~(KeyFree(tick) /\ Acceptable(tick[1]))
    BY <1>1, <1>6, <2>2 DEF TriggerScheduled
  <2>. QED
    BY <2>1, <2>2
<1>7. ASSUME NEW kind \in Kinds, TriggerAdmin(kind) PROVE BegunInv'
  <2>. DEFINE date == Date(helper.policy, now)
  <2>1. Accept(kind, "admin", date, helper.keys) /\ helper.keys \in SUBSET Keys
    BY <1>7 DEF TriggerAdmin, Typed, HelperState
  <2>2. helper'.keys = helper.keys
    BY <2>1, AcceptIsTyped
  <2>3. begun' = begun \union {[kind |-> kind, date |-> date, trigger |-> "admin"]}
    BY <2>1 DEF Accept
  <2>. HIDE DEF date
  <2>. QED
    BY <2>2, <2>3 DEF BegunInv
<1>8. CASE Acknowledge
  BY <1>1, <1>8 DEF Acknowledge, Typed, HelperState
<1>9. CASE Begin \/ PollScans \/ TimeOut \/ Conclude
  BY <1>1, <1>9, OperationSteps DEF Begin, PollScans, TimeOut, Conclude
<1>10. CASE Start
  BY <1>1, <1>10, StartIsTyped DEF Start
<1>11. CASE CheckSchedule \/ Crash \/ Pass \/ UNCHANGED vars
  BY <1>1, <1>11 DEF CheckSchedule, Crash, Pass, vars
<1>. QED
  BY <1>2, <1>4, <1>5, <1>6, <1>7, <1>8, <1>9, <1>10, <1>11 DEF Next

LEMMA NextLook ==
    ASSUME Typed, PoliciesInv, LookInv, [Next]_vars
    PROVE  LookInv'
<1>1. ASSUME now' = now, helper' = helper, looked' = looked, tick' = tick PROVE LookInv'
  BY <1>1 DEF LookInv, Busy, Decision, FeedDue, StackDue
<1>2. ASSUME looked' # "idle" PROVE LookInv'
  BY <1>2 DEF LookInv
<1>3. ASSUME NEW h \in Handlers, NEW p \in Forms, SavePolicy(h, p) PROVE LookInv'
  BY <1>1, <1>3 DEF SavePolicy
<1>4. ASSUME NEW p, Configured(p) PROVE LookInv'
  BY <1>2, <1>4 DEF Configured
<1>5. ASSUME NEW h \in Handlers, ApplyPolicy(h) PROVE LookInv'
  BY <1>1, <1>4, <1>5 DEF ApplyPolicy, Applied, NotConfigured
<1>6. CASE AppStarts
  BY <1>1, <1>4, <1>6 DEF AppStarts, NotConfigured
<1>7. CASE CheckSchedule
  <2>1. now' = now /\ helper' = helper /\ tick' = Decision
    BY <1>7 DEF CheckSchedule
  <2>2. Decision' = Decision /\ Busy' = Busy
    BY <2>1 DEF Decision, Busy, FeedDue, StackDue
  <2>3. looked' = "idle" => ~Busy
    BY <1>7 DEF CheckSchedule
  <2>. QED
    BY <2>1, <2>2, <2>3 DEF LookInv
<1>8. CASE TriggerScheduled
  <2>1. CASE KeyFree(tick) /\ Acceptable(tick[1])
    BY <1>2, <1>8, <2>1 DEF TriggerScheduled, Accept
  <2>2. CASE ~(KeyFree(tick) /\ Acceptable(tick[1])) /\ looked' = "idle"
    <3>1. /\ now' = now /\ helper' = helper /\ tick' = None /\ tick # None
          /\ looked = "idle" /\ ~Busy
      BY <1>8, <2>2 DEF TriggerScheduled
    <3>2. tick = Decision
      BY <3>1 DEF LookInv
    <3>3. tick[1] = "stack" => ~helper.paused
      BY <3>1, <3>2 DEF Decision, StackDue
    <3>4. Decision \in helper.keys
      BY <2>2, <3>1, <3>2, <3>3 DEF KeyFree, Acceptable
    <3>5. Decision' = Decision /\ Busy' = Busy
      BY <3>1 DEF Decision, Busy, FeedDue, StackDue
    <3>. QED
      BY <3>1, <3>4, <3>5 DEF LookInv
  <2>. QED
    BY <1>2, <2>1, <2>2
<1>9. ASSUME NEW kind \in Kinds, TriggerAdmin(kind) PROVE LookInv'
  BY <1>2, <1>9 DEF TriggerAdmin, Accept
<1>10. CASE Acknowledge
  BY <1>2, <1>10 DEF Acknowledge
<1>11. CASE Begin \/ PollScans \/ TimeOut \/ Conclude
  <2>1. looked # "idle"
    BY <1>11, WorkersAreBusy DEF LookInv
  <2>. QED
    BY <1>2, <1>11, <2>1 DEF Begin, PollScans, TimeOut, Conclude
<1>12. CASE Start
  <2>1. CASE Busy
    BY <1>2, <1>12, <2>1 DEF Start, LookInv
  <2>2. CASE ~Busy
    BY <1>1, <1>12, <2>2 DEF Start
  <2>. QED
    BY <2>1, <2>2
<1>13. CASE Crash \/ Pass
  BY <1>2, <1>13 DEF Crash, Pass
<1>14. CASE UNCHANGED vars
  BY <1>1, <1>14 DEF vars
<1>. QED
  BY <1>3, <1>5, <1>6, <1>7, <1>8, <1>9, <1>10, <1>11, <1>12, <1>13, <1>14 DEF Next

\* The inductive invariant of the theorems that follow.
THEOREM Invariance == Spec => []IInv
<1>1. Init => IInv
  BY InitTyped DEF Init, IInv, BegunInv, LookInv
<1>2. IInv /\ [Next]_vars => IInv'
  BY NextTyped, NextBegun, NextLook DEF IInv
<1>. QED
  BY <1>1, <1>2, PTL DEF Spec

\* The step of OncePerDate: a key the schedule begins with was not used.
LEMMA FirstOfDate ==
    ASSUME IInv, [Next]_vars, Accepted, helper'.active.trigger = "scheduled"
    PROVE  [kind |-> tick[1], date |-> tick[2], trigger |-> "scheduled"] \notin begun
<1>1. Typed /\ helper \in HelperState
  BY DEF IInv, Typed
<1>2. ASSUME NEW kind \in Kinds, TriggerAdmin(kind) PROVE FALSE
  <2>1. Accept(kind, "admin", Date(helper.policy, now), helper.keys) /\ helper.keys \in SUBSET Keys
    BY <1>1, <1>2 DEF TriggerAdmin, HelperState
  <2>2. helper'.active.trigger = "admin"
    BY <1>1, <2>1, AcceptIsTyped
  <2>. QED
    BY <2>2
<1>3. TriggerScheduled
  BY <1>1, <1>2, OnlyTriggersAccept DEF Accepted
<1>4. tick \in Keys /\ tick[1] \in Kinds /\ tick[2] \in Int /\ tick = <<tick[1], tick[2]>>
  BY <1>1, <1>3 DEF TriggerScheduled, Typed, Keys
<1>5. KeyFree(tick)
  BY <1>3 DEF TriggerScheduled, Accepted, Busy
<1>. QED
  BY <1>4, <1>5 DEF IInv, BegunInv, KeyFree, Kinds

\* The schedule begins an operation of a kind at most once for a date.
THEOREM OnceForADate == Spec => OncePerDate
<1>1. IInv /\ [Next]_vars =>
        [Accepted /\ helper'.active.trigger = "scheduled" =>
          [kind |-> tick[1], date |-> tick[2], trigger |-> "scheduled"] \notin begun]_vars
  BY FirstOfDate
<1>. QED
  BY <1>1, Invariance, PTL DEF Spec, OncePerDate

-----------------------------------------------------------------------------
(* What is not missed *)

\* When the clock leaves a slot in which the helper was idle, it had nothing
\* to decide or had begun that already.
LEMMA NothingLeft ==
    ASSUME IInv, [Next]_vars, IdleSlotEnds
    PROVE  ~Busy /\ (Decision = None \/ Decision \in helper.keys)
<1>1. Pass
  BY DEF IdleSlotEnds, Next, vars, SavePolicy, ApplyPolicy, AppStarts, CheckSchedule,
         TriggerScheduled, TriggerAdmin, Acknowledge, Begin, PollScans, TimeOut, Conclude,
         Crash, Start
<1>2. tick = None
  BY <1>1 DEF Pass, SlotDone, IdleSlotEnds
<1>. QED
  BY <1>2 DEF IInv, LookInv, IdleSlotEnds

LEMMA KeysAreNotNone ==
    ASSUME IInv
    PROVE  <<"feed", Today>> # None /\ <<"stack", Today>> # None
<1>1. Today \in Int
  BY DatesAreNumbers, ClockAssumption DEF Today, IInv, Typed, HelperState
<1>. QED
  BY <1>1, NoneAssumption DEF Keys, Kinds

LEMMA DueIsDecided ==
    ASSUME ~Busy, NEW p, p = helper.policy
    PROVE  /\ FeedDue(p) => Decision = <<"feed", Date(p, now)>>
           /\ ~FeedDue(p) /\ StackDue(p) => Decision = <<"stack", Date(p, now)>>
  BY DEF Decision

\* A day of an idle helper does not end before its feed refresh was begun.
THEOREM NoFeedIsSkipped == Spec => FeedsAreNotSkipped
<1>1. ASSUME IInv, [Next]_vars, IdleSlotEnds, helper.policy.feedEnabled, DayEnds,
             helper.feedDate # Today
      PROVE  <<"feed", Today>> \in helper.keys
  <2>. DEFINE p == helper.policy
  <2>1. FeedDue(p)
    <3>1. p \in Policy /\ Valid(p) /\ p.feedMinute <= DayLength - 1
      BY <1>1, PolicyParts DEF IInv, PoliciesInv
    <3>2. Minute(p, now) >= p.feedMinute
      BY <1>1, <3>1 DEF DayEnds
    <3>. QED
      BY <1>1, <3>2 DEF FeedDue, Today
  <2>2. Decision = <<"feed", Today>>
    BY <1>1, <2>1, NothingLeft, DueIsDecided DEF Today
  <2>. QED
    BY <1>1, <2>2, NothingLeft, KeysAreNotNone
<1>2. IInv /\ [Next]_vars =>
        [IdleSlotEnds /\ helper.policy.feedEnabled /\ DayEnds =>
           \/ <<"feed", Today>> \in helper.keys
           \/ helper.feedDate = Today]_vars
  BY <1>1
<1>. QED
  BY <1>2, Invariance, PTL DEF Spec, FeedsAreNotSkipped

\* A window does not close over an idle and armed helper without its upgrade,
\* unless a refresh of that date was begun and has not been completed.
THEOREM NoWindowIsMissed == Spec => WindowsAreUsed
<1>1. ASSUME IInv, [Next]_vars, IdleSlotEnds, helper.policy.stackEnabled, ~helper.paused,
             WindowCloses, helper.stackDate # Today
      PROVE  \/ <<"stack", Today>> \in helper.keys
             \/ <<"feed", Today>> \in helper.keys /\ helper.feedDate # Today
  <2>. DEFINE p == helper.policy
  <2>1. StackDue(p)
    BY <1>1 DEF StackDue, WindowCloses, Today
  <2>2. CASE FeedDue(p)
    <3>1. Decision = <<"feed", Today>>
      BY <1>1, <2>2, NothingLeft, DueIsDecided DEF Today
    <3>. QED
      BY <1>1, <2>2, <3>1, NothingLeft, KeysAreNotNone DEF FeedDue, Today
  <2>3. CASE ~FeedDue(p)
    <3>1. Decision = <<"stack", Today>>
      BY <1>1, <2>1, <2>3, NothingLeft, DueIsDecided DEF Today
    <3>. QED
      BY <1>1, <3>1, NothingLeft, KeysAreNotNone
  <2>. QED
    BY <2>2, <2>3
<1>2. IInv /\ [Next]_vars =>
        [IdleSlotEnds /\ helper.policy.stackEnabled /\ ~helper.paused /\ WindowCloses =>
           \/ <<"stack", Today>> \in helper.keys
           \/ helper.stackDate = Today
           \/ <<"feed", Today>> \in helper.keys /\ helper.feedDate # Today]_vars
  BY <1>1
<1>. QED
  BY <1>2, Invariance, PTL DEF Spec, WindowsAreUsed

-----------------------------------------------------------------------------
(* The calendar                                                             *)
(*                                                                          *)
(* A quotient and a remainder are the only ones, so that a time is known by *)
(* its date and minute, and a date by its week and weekday.                 *)

LEMMA QuotientAndRemainder ==
    ASSUME NEW a \in Int, NEW n \in Nat \ {0}
    PROVE  /\ a \div n \in Int /\ a % n \in 0 .. n - 1
           /\ a = (a \div n) * n + (a % n)
<1>1. a \div n \in Int
  OBVIOUS
<1>2. a % n \in 0 .. n - 1
  OBVIOUS
<1>3. n \in Int /\ n > 0
  OBVIOUS
<1>4. a = n * (a \div n) + (a % n)
  BY <1>3, Z3
<1>5. n * (a \div n) = (a \div n) * n
  BY <1>1
<1>. QED
  BY <1>1, <1>2, <1>4, <1>5

\* A multiple that is not 0 is no difference of two remainders.
LEMMA OnlyMultiple ==
  ASSUME NEW n \in Nat \ {0}, NEW d \in Int, -n < d * n, d * n < n
  PROVE  d = 0
<1>1. CASE d >= 1
  <2>1. PICK e \in Nat : d = e + 1
    BY <1>1
  <2>2. d * n = e * n + n /\ e * n >= 0
    BY <2>1
  <2> QED
    BY <2>2
<1>2. CASE d <= -1
  <2>1. PICK e \in Nat : d = -(e + 1)
    <3>1. -d - 1 \in Nat /\ d = -((-d - 1) + 1)
      BY <1>2
    <3> QED
      BY <3>1
  <2>2. d * n = -(e * n) - n /\ e * n >= 0
    BY <2>1
  <2> QED
    BY <2>2
<1> QED
  BY <1>1, <1>2

LEMMA OnlyQuotient ==
  ASSUME NEW n \in Nat \ {0}, NEW q \in Int, NEW r \in 0 .. n - 1
  PROVE  (q * n + r) \div n = q /\ (q * n + r) % n = r
<1> DEFINE a == q * n + r
           p == a \div n
           s == a % n
<1>1. q * n \in Int /\ a \in Int
  OBVIOUS
<1>2. p \in Int /\ s \in 0 .. n - 1 /\ a = p * n + s
  BY <1>1, QuotientAndRemainder
<1>3. (p - q) * n = p * n - q * n
  BY <1>2
<1>4. p * n \in Int /\ p * n - q * n = r - s
  BY <1>1, <1>2
<1> HIDE DEF a, p, s
<1>5. p - q = 0
  BY <1>2, <1>3, <1>4, OnlyMultiple
<1>6. p = q
  BY <1>2, <1>5
<1>7. s = r
  BY <1>1, <1>2, <1>4, <1>6
<1> QED
  BY <1>6, <1>7 DEF p, s, a

\* The time of a date and a minute.
LEMMA AtIsTheTime ==
    ASSUME NEW p \in Policy, NEW date \in Int, NEW minute \in 0 .. DayLength - 1
    PROVE  /\ At(p, date, minute) \in Int
           /\ Date(p, At(p, date, minute)) = date
           /\ Minute(p, At(p, date, minute)) = minute
<1>1. p.zone \in Int /\ DayLength \in Nat \ {0} /\ date * DayLength \in Int
  BY ClockAssumption DEF Policy
<1>2. At(p, date, minute) + p.zone = date * DayLength + minute
  BY <1>1 DEF At
<1>. QED
  BY <1>1, <1>2, OnlyQuotient DEF At, Date, Minute

LEMMA TimeIsKnown ==
    ASSUME NEW p \in Policy, NEW t \in Int
    PROVE  /\ Date(p, t) \in Int /\ Minute(p, t) \in 0 .. DayLength - 1
           /\ t = At(p, Date(p, t), Minute(p, t))
<1>1. p.zone \in Int /\ DayLength \in Nat \ {0} /\ t + p.zone \in Int
  BY ClockAssumption DEF Policy
<1>2. /\ Date(p, t) \in Int /\ Minute(p, t) \in 0 .. DayLength - 1
      /\ t + p.zone = Date(p, t) * DayLength + Minute(p, t)
  BY <1>1, QuotientAndRemainder DEF Date, Minute
<1>3. Date(p, t) * DayLength \in Int
  BY <1>1, <1>2
<1>. QED
  BY <1>1, <1>2, <1>3 DEF At

\* Moving a time by slots, and by days.
LEMMA AtMoves ==
    ASSUME NEW p \in Policy, NEW date \in Int, NEW minute \in Int, NEW k \in Int
    PROVE  /\ At(p, date, minute) \in Int
           /\ At(p, date, minute + k) = At(p, date, minute) + k
           /\ At(p, date + k, minute) = At(p, date, minute) + k * DayLength
<1>1. p.zone \in Int /\ DayLength \in Int
  BY ClockAssumption DEF Policy
<1>2. (date + k) * DayLength = date * DayLength + k * DayLength
  BY <1>1
<1>3. date * DayLength \in Int /\ k * DayLength \in Int
  BY <1>1
<1>. QED
  BY <1>1, <1>2, <1>3 DEF At

\* The slot before is of the same date, or the last one of the date before.
LEMMA SlotBefore ==
    ASSUME NEW p \in Policy, NEW t \in Int
    PROVE  Date(p, t - 1) = IF Minute(p, t) = 0 THEN Date(p, t) - 1 ELSE Date(p, t)
<1>. DEFINE D == Date(p, t)
            m == Minute(p, t)
<1>1. D \in Int /\ m \in 0 .. DayLength - 1 /\ t = At(p, D, m) /\ DayLength \in Nat \ {0}
  BY TimeIsKnown, ClockAssumption
<1>. HIDE DEF D, m
<1>2. CASE m = 0
  <2>1. At(p, D - 1, 0) = At(p, D, 0) - DayLength
    <3>. DEFINE E == D - 1
    <3>1. E \in Int /\ E + 1 = D /\ 1 * DayLength = DayLength
      BY <1>1
    <3>. HIDE DEF E
    <3>2. At(p, E + 1, 0) = At(p, E, 0) + 1 * DayLength /\ At(p, E, 0) \in Int
      BY <3>1, AtMoves
    <3>. QED
      BY <1>1, <3>1, <3>2 DEF E
  <2>2. At(p, D - 1, 0 + (DayLength - 1)) = At(p, D - 1, 0) + (DayLength - 1)
    BY <1>1, AtMoves
  <2>3. At(p, D, 0) \in Int /\ At(p, D - 1, 0) \in Int
    <3>1. D - 1 \in Int /\ 0 \in 0 .. DayLength - 1
      BY <1>1
    <3>. QED
      BY <1>1, <3>1, AtIsTheTime
  <2>4. t - 1 = At(p, D - 1, DayLength - 1)
    BY <1>1, <1>2, <2>1, <2>2, <2>3
  <2>5. Date(p, t - 1) = D - 1
    BY <1>1, <2>4, AtIsTheTime
  <2>. QED
    BY <1>2, <2>5 DEF D, m
<1>3. CASE m # 0
  <2>1. At(p, D, m + (-1)) = At(p, D, m) + (-1) /\ At(p, D, m) \in Int
    BY <1>1, AtMoves
  <2>2. t - 1 = At(p, D, m - 1)
    BY <1>1, <2>1
  <2>3. m - 1 \in 0 .. DayLength - 1
    BY <1>1, <1>3
  <2>4. Date(p, t - 1) = D
    BY <1>1, <2>2, <2>3, AtIsTheTime
  <2>. QED
    BY <1>3, <2>4 DEF D, m
<1>. QED
  BY <1>2, <1>3

\* The days to the next weekday of a kind, as nextStackTime counts them.
LEMMA DaysAhead ==
    ASSUME NEW D \in Int, NEW w \in 0 .. Week - 1,
           NEW days, days = (w - (D % Week) + Week) % Week
    PROVE  /\ days \in 0 .. Week - 1
           /\ (D + days) % Week = w
           /\ (D + days + Week) % Week = w
           /\ \A k \in 0 .. Week - 1 : (D + k) % Week = w => days = k
<1>. DEFINE q == D \div Week
            r == D % Week
            a == w - r + Week
            g == a \div Week
<1>1. Week \in Nat \ {0} /\ q \in Int /\ r \in 0 .. Week - 1 /\ D = q * Week + r
  BY ClockAssumption, QuotientAndRemainder
<1>2. a \in Int
  BY <1>1
<1>3. g \in Int /\ days \in 0 .. Week - 1 /\ a = g * Week + days
  BY <1>1, <1>2, QuotientAndRemainder
<1>. HIDE DEF q, r, g
<1>4. q * Week \in Int /\ g * Week \in Int
  BY <1>1, <1>3
<1>5. /\ (q - g + 1) * Week = q * Week - g * Week + Week
      /\ (q - g + 2) * Week = q * Week - g * Week + Week + Week
  BY <1>1, <1>3
<1>6. /\ D + days = (q - g + 1) * Week + w
      /\ D + days + Week = (q - g + 2) * Week + w
  <2>1. days = w - r + Week - g * Week
    BY <1>1, <1>3, <1>4
  <2>2. D + days = q * Week - g * Week + Week + w
    BY <1>1, <1>4, <2>1
  <2>. QED
    BY <1>1, <1>4, <1>5, <2>2
<1>7. q - g + 1 \in Int /\ q - g + 2 \in Int
  BY <1>1, <1>3
<1>8. (D + days) % Week = w /\ (D + days + Week) % Week = w
  <2>1. \A k \in Int : (k * Week + w) % Week = w
    BY <1>1, OnlyQuotient
  <2>. QED
    BY <1>6, <1>7, <2>1
<1>9. ASSUME NEW k \in 0 .. Week - 1, (D + k) % Week = w PROVE days = k
  <2>. DEFINE h == (D + k) \div Week
  <2>1. h \in Int /\ D + k = h * Week + w
    BY <1>1, <1>9, QuotientAndRemainder
  <2>. HIDE DEF h
  <2>2. (h - q + g - 1) * Week = h * Week - q * Week + g * Week - Week
    BY <1>1, <1>3, <2>1
  <2>3. h * Week \in Int
    BY <1>1, <2>1
  <2>4. (h - q + g - 1) * Week = k - days
    BY <1>1, <1>3, <1>4, <2>1, <2>2, <2>3
  <2>5. h - q + g - 1 \in Int
    BY <1>1, <1>3, <2>1
  <2>6. -Week < k - days /\ k - days < Week
    BY <1>1, <1>3
  <2>7. h - q + g - 1 = 0
    BY <1>1, <2>4, <2>5, <2>6, OnlyMultiple
  <2>. QED
    BY <1>1, <1>3, <2>4, <2>7
<1>. QED
  BY <1>3, <1>8, <1>9

\* What Status shows as the next refresh, a slot ahead, is a time of that minute,
\* and every such time is shown.
LEMMA FeedTimes ==
    ASSUME NEW p \in Policy, Valid(p), NEW t \in Int
    PROVE  NextFeedTime(p, t - 1) = t <=> Minute(p, t) = p.feedMinute
<1>. DEFINE f == p.feedMinute
            D == Date(p, t - 1)
            next == At(p, D, f)
<1>1. f \in 0 .. DayLength - 1 /\ DayLength \in Nat \ {0}
  BY ClockAssumption DEF Valid
<1>2. D \in Int /\ D + 1 \in Int
  BY TimeIsKnown
<1>3. NextFeedTime(p, t - 1) = IF next > t - 1 THEN next ELSE next + DayLength
  BY DEF NextFeedTime
<1>. HIDE DEF f, D
<1>4. next \in Int /\ At(p, D + 1, f) = next + DayLength
  <2>1. f \in Int /\ 1 \in Int /\ 1 * DayLength = DayLength
    BY <1>1
  <2>2. next \in Int /\ At(p, D + 1, f) = next + 1 * DayLength
    BY <1>2, <2>1, AtMoves
  <2>. QED
    BY <2>1, <2>2
<1>5. Minute(p, next) = f /\ Minute(p, next + DayLength) = f
  BY <1>1, <1>2, <1>4, AtIsTheTime
<1>6. ASSUME Minute(p, t) = f PROVE NextFeedTime(p, t - 1) = t
  <2>1. t = At(p, Date(p, t), f) /\ Date(p, t) \in Int
    BY <1>6, TimeIsKnown
  <2>2. CASE f = 0
    <3>1. Date(p, t) = D + 1
      BY <1>2, <1>6, <2>1, <2>2, SlotBefore DEF D
    <3>. QED
      BY <1>1, <1>3, <1>4, <2>1, <3>1
  <2>3. CASE f # 0
    <3>1. Date(p, t) = D
      BY <1>6, <2>3, SlotBefore DEF D
    <3>. QED
      BY <1>3, <1>4, <2>1, <3>1
  <2>. QED
    BY <2>2, <2>3
<1>. QED
  BY <1>3, <1>5, <1>6 DEF f

LEMMA StackTimes ==
    ASSUME NEW p \in Policy, Valid(p), NEW t \in Int
    PROVE  NextStackTime(p, t - 1) = t
             <=> Weekday(p, t) = PolicyWeekday(p) /\ Minute(p, t) = p.start
<1>. DEFINE s == p.start
            w == PolicyWeekday(p)
            D == Date(p, t - 1)
            days == (w - (D % Week) + Week) % Week
            next == At(p, D + days, s)
<1>1. s \in 0 .. DayLength - 1 /\ DayLength \in Nat \ {0} /\ Week \in Nat \ {0}
  BY ClockAssumption DEF Valid
<1>2. w \in 0 .. Week - 1
  <2>1. p.weekday \in Int
    BY DEF Policy
  <2>. QED
    BY <1>1, <2>1, QuotientAndRemainder DEF PolicyWeekday
<1>3. D \in Int
  BY TimeIsKnown
<1>4. NextStackTime(p, t - 1) = IF next > t - 1 THEN next ELSE next + Week * DayLength
  BY DEF NextStackTime, Weekday
<1>. HIDE DEF s, w, D
<1>5. days = (w - (D % Week) + Week) % Week
  OBVIOUS
<1>. HIDE DEF days
<1>6. /\ days \in 0 .. Week - 1
      /\ (D + days) % Week = w
      /\ (D + days + Week) % Week = w
      /\ \A k \in 0 .. Week - 1 : (D + k) % Week = w => days = k
  BY <1>2, <1>3, <1>5, DaysAhead
<1>7. D + days \in Int /\ D + days + Week \in Int
  BY <1>1, <1>3, <1>6
<1>8. next \in Int /\ At(p, D + days + Week, s) = next + Week * DayLength
  BY <1>1, <1>7, AtMoves
<1>9. ASSUME NextStackTime(p, t - 1) = t
      PROVE  Date(p, t) % Week = w /\ Minute(p, t) = s
  <2>1. t = next \/ t = At(p, D + days + Week, s)
    BY <1>4, <1>8, <1>9
  <2>. QED
    BY <1>1, <1>6, <1>7, <2>1, AtIsTheTime
<1>10. ASSUME Date(p, t) % Week = w, Minute(p, t) = s PROVE NextStackTime(p, t - 1) = t
  <2>1. t = At(p, Date(p, t), s) /\ Date(p, t) \in Int
    BY <1>10, TimeIsKnown
  <2>2. CASE s # 0
    <3>1. Date(p, t) = D
      BY <1>10, <2>2, SlotBefore DEF D
    <3>2. D + 0 = D /\ 0 \in 0 .. Week - 1
      BY <1>1, <1>3
    <3>3. days = 0
      BY <1>6, <1>10, <3>1, <3>2
    <3>. QED
      BY <1>4, <1>8, <2>1, <3>1, <3>2, <3>3
  <2>3. CASE s = 0
    <3>1. Date(p, t) = D + 1
      BY <1>3, <1>10, <2>1, <2>3, SlotBefore DEF D
    <3>2. CASE Week > 1
      <4>1. 1 \in 0 .. Week - 1
        BY <1>1, <3>2
      <4>2. days = 1
        BY <1>6, <1>10, <3>1, <4>1
      <4>. QED
        BY <1>4, <1>8, <2>1, <3>1, <4>2
    <3>3. CASE Week = 1
      <4>1. days = 0
        BY <1>6, <3>3
      <4>2. D + days + Week = D + 1
        BY <1>3, <3>3, <4>1
      <4>3. t = next + DayLength
        BY <1>1, <1>8, <2>1, <3>1, <3>3, <4>2
      <4>. QED
        BY <1>1, <1>4, <1>8, <3>3, <4>3
    <3>. QED
      BY <1>1, <3>2, <3>3
  <2>. QED
    BY <2>2, <2>3
<1>. QED
  BY <1>9, <1>10 DEF Weekday, s, w

\* The window is open while its length has not passed since a time that was shown.
LEMMA WindowFollowsStart ==
    ASSUME NEW p \in Policy, Valid(p), NEW n \in Int
    PROVE  WindowOpen(p, n) <=> \E t \in n - p.window + 1 .. n : NextStackTime(p, t - 1) = t
<1>. DEFINE s == p.start
            D == Date(p, n)
            m == Minute(p, n)
<1>1. /\ s \in 0 .. DayLength - 1 /\ DayLength \in Nat \ {0}
      /\ p.window \in Int /\ p.window > 0 /\ s + p.window <= DayLength
  BY ClockAssumption DEF Valid, Policy
<1>2. D \in Int /\ m \in 0 .. DayLength - 1 /\ n = At(p, D, m)
  BY TimeIsKnown
<1>. HIDE DEF s, D, m
<1>3. ASSUME WindowOpen(p, n)
      PROVE  \E t \in n - p.window + 1 .. n : NextStackTime(p, t - 1) = t
  <2>1. D % Week = PolicyWeekday(p) /\ m >= s /\ m < s + p.window
    BY <1>3 DEF WindowOpen, WindowEnd, Weekday, s, D, m
  <2>. DEFINE t == At(p, D, s)
  <2>2. t \in Int /\ Date(p, t) = D /\ Minute(p, t) = s
    BY <1>1, <1>2, AtIsTheTime
  <2>3. m - s \in Int /\ s + (m - s) = m
    BY <1>1, <1>2
  <2>4. n = t + (m - s)
    BY <1>1, <1>2, <2>3, AtMoves
  <2>. HIDE DEF t
  <2>5. t \in n - p.window + 1 .. n
    BY <1>1, <1>2, <2>1, <2>2, <2>4
  <2>6. NextStackTime(p, t - 1) = t
    BY <2>1, <2>2, StackTimes DEF Weekday, s
  <2>. QED
    BY <2>5, <2>6
<1>4. ASSUME NEW t \in n - p.window + 1 .. n, NextStackTime(p, t - 1) = t
      PROVE  WindowOpen(p, n)
  <2>. DEFINE E == Date(p, t)
              d == n - t
  <2>1. t \in Int /\ d \in Int /\ d >= 0 /\ d < p.window
    BY <1>1
  <2>2. E \in Int /\ E % Week = PolicyWeekday(p) /\ t = At(p, E, s)
    BY <1>4, <2>1, StackTimes, TimeIsKnown DEF Weekday, s
  <2>. HIDE DEF E
  <2>3. n = At(p, E, s + d)
    BY <1>1, <2>1, <2>2, AtMoves
  <2>4. s + d \in 0 .. DayLength - 1
    BY <1>1, <2>1
  <2>5. Date(p, n) = E /\ Minute(p, n) = s + d
    BY <2>2, <2>3, <2>4, AtIsTheTime
  <2>. QED
    BY <1>1, <2>1, <2>2, <2>5 DEF WindowOpen, WindowEnd, Weekday, s
<1>. QED
  BY <1>3, <1>4

\* Fewer slots are fewer days.
LEMMA FewerDays ==
  ASSUME NEW n \in Nat \ {0}, NEW d \in Int, NEW e \in Int, d * n < e * n
  PROVE  d < e
<1>1. CASE d >= e
  <2>1. PICK k \in Nat : d = e + k
    <3>1. d - e \in Nat /\ d = e + (d - e)
      BY <1>1
    <3> QED
      BY <3>1
  <2>2. d * n = e * n + k * n /\ k * n >= 0 /\ e * n \in Int
    BY <2>1
  <2> QED
    BY <2>2
<1> QED
  BY <1>1

\* An upgrade of a time that was shown is deferred when the length of the window
\* has passed since, until the weekday of the policy comes again.
LEMMA ExpiryFollowsStart ==
    ASSUME NEW p \in Policy, Valid(p), NEW n \in Int,
           NEW t \in n - Week * DayLength + p.start + 1 .. n, NextStackTime(p, t - 1) = t
    PROVE  WindowExpired(p, n) <=> n >= t + p.window
<1>. DEFINE s == p.start
            w == PolicyWeekday(p)
            D == Date(p, n)
            m == Minute(p, n)
            E == Date(p, t)
            k == D - E
<1>1. /\ s \in 0 .. DayLength - 1 /\ DayLength \in Nat \ {0} /\ Week \in Nat \ {0}
      /\ p.window \in Int /\ p.window > 0 /\ s + p.window <= DayLength
      /\ Week * DayLength \in Int
  BY ClockAssumption DEF Valid, Policy
<1>2. t \in Int /\ t <= n /\ n - t <= Week * DayLength - s - 1
  BY <1>1
<1>3. D \in Int /\ m \in 0 .. DayLength - 1 /\ n = At(p, D, m)
  BY TimeIsKnown
<1>4. E \in Int /\ E % Week = w /\ t = At(p, E, s)
  BY <1>2, StackTimes, TimeIsKnown DEF Weekday
<1>5. WindowExpired(p, n) <=> D % Week # w \/ m >= s + p.window
  BY DEF WindowExpired, WindowEnd, Weekday
<1>. HIDE DEF s, w, D, m, E
<1>6. k \in Int /\ D = E + k /\ k * DayLength \in Int
  BY <1>1, <1>3, <1>4
<1>. HIDE DEF k
<1>7. n - t = k * DayLength + m - s
  <2>1. At(p, E + k, m) = At(p, E, m) + k * DayLength /\ At(p, E, m) \in Int
    <3>1. m \in Int
      BY <1>1, <1>3
    <3>. QED
      BY <1>4, <1>6, <3>1, AtMoves
  <2>2. m - s \in Int /\ s + (m - s) = m
    BY <1>1, <1>3
  <2>3. At(p, E, m) = At(p, E, s) + (m - s)
    BY <1>1, <1>4, <2>2, AtMoves
  <2>. QED
    BY <1>1, <1>2, <1>3, <1>4, <1>6, <2>1, <2>3
<1>8. 0 <= k /\ k < Week
  <2>1. k * DayLength < Week * DayLength
    BY <1>1, <1>2, <1>3, <1>6, <1>7
  <2>2. (-1) * DayLength < k * DayLength
    <3>1. (-1) * DayLength = -DayLength
      BY <1>1
    <3>. QED
      BY <1>1, <1>2, <1>3, <1>6, <1>7, <3>1
  <2>3. k < Week
    BY <1>1, <1>6, <2>1, FewerDays
  <2>4. -1 < k
    BY <1>1, <1>6, <2>2, FewerDays
  <2>. QED
    BY <1>6, <2>3, <2>4
<1>9. CASE k = 0
  <2>1. D = E /\ n - t = m - s
    BY <1>1, <1>3, <1>4, <1>6, <1>7, <1>9
  <2>. QED
    BY <1>1, <1>2, <1>3, <1>4, <1>5, <2>1 DEF s
<1>10. CASE k # 0
  <2>1. w \in 0 .. Week - 1
    <3>1. p.weekday \in Int
      BY DEF Policy
    <3>. QED
      BY <1>1, <3>1, QuotientAndRemainder DEF w, PolicyWeekday
  <2>2. (w - (E % Week) + Week) % Week = 0
    <3>1. w - (E % Week) + Week = 1 * Week + 0 /\ 0 \in 0 .. Week - 1
      BY <1>1, <1>4, <2>1
    <3>. QED
      BY <1>1, <3>1, OnlyQuotient
  <2>3. k \in 0 .. Week - 1
    BY <1>1, <1>6, <1>8
  <2>4. (E + k) % Week # w
    BY <1>4, <1>10, <2>1, <2>2, <2>3, DaysAhead
  <2>5. k * DayLength >= DayLength
    <3>1. PICK e \in Nat : k = e + 1
      <4>1. k - 1 \in Nat /\ k = (k - 1) + 1
        BY <1>6, <1>8, <1>10
      <4>. QED
        BY <4>1
    <3>2. k * DayLength = e * DayLength + DayLength /\ e * DayLength >= 0
      BY <1>1, <3>1
    <3>. QED
      BY <1>1, <3>2
  <2>6. n - t >= p.window
    BY <1>1, <1>3, <1>6, <1>7, <2>5 DEF s
  <2>. QED
    BY <1>1, <1>2, <1>3, <1>5, <1>6, <2>4, <2>6
<1>. QED
  BY <1>9, <1>10

\* The minute of the feed has come when a refresh of the date has been shown.
LEMMA FeedFollowsMinute ==
    ASSUME NEW p \in Policy, Valid(p), NEW n \in Int
    PROVE  Minute(p, n) >= p.feedMinute
             <=> \E t \in At(p, Date(p, n), 0) .. n : NextFeedTime(p, t - 1) = t
<1>. DEFINE f == p.feedMinute
            D == Date(p, n)
            m == Minute(p, n)
            first == At(p, D, 0)
<1>1. f \in 0 .. DayLength - 1 /\ DayLength \in Nat \ {0}
  BY ClockAssumption DEF Valid
<1>2. D \in Int /\ m \in 0 .. DayLength - 1 /\ n = At(p, D, m)
  BY TimeIsKnown
<1>. HIDE DEF f, D, m
<1>3. first \in Int /\ \A k \in Int : At(p, D, k) = first + k
  <2>1. \A k \in Int : At(p, D, 0 + k) = first + k
    BY <1>2, AtMoves
  <2>2. \A k \in Int : 0 + k = k
    OBVIOUS
  <2>. QED
    BY <1>2, <2>1, <2>2, AtMoves
<1>. HIDE DEF first
<1>4. n = first + m
  BY <1>2, <1>3
<1>5. ASSUME m >= f PROVE \E t \in first .. n : NextFeedTime(p, t - 1) = t
  <2>. DEFINE t == At(p, D, f)
  <2>1. t \in Int /\ Minute(p, t) = f
    BY <1>1, <1>2, AtIsTheTime
  <2>2. t = first + f
    BY <1>1, <1>3
  <2>. HIDE DEF t
  <2>3. t \in first .. n
    BY <1>1, <1>2, <1>3, <1>4, <1>5, <2>2
  <2>4. NextFeedTime(p, t - 1) = t
    BY <2>1, FeedTimes DEF f
  <2>. QED
    BY <2>3, <2>4
<1>6. ASSUME NEW t \in first .. n, NextFeedTime(p, t - 1) = t PROVE m >= f
  <2>. DEFINE k == t - first
  <2>1. t \in Int /\ k \in 0 .. DayLength - 1 /\ k <= m /\ t = first + k
    BY <1>1, <1>2, <1>3, <1>4
  <2>2. t = At(p, D, k)
    BY <1>3, <2>1
  <2>3. Minute(p, t) = k
    BY <1>2, <2>1, <2>2, AtIsTheTime
  <2>4. Minute(p, t) = f
    BY <1>6, <2>1, FeedTimes DEF f
  <2>. QED
    BY <2>1, <2>3, <2>4
<1>. QED
  BY <1>5, <1>6 DEF f, D, m, first

\* The loop triggers from the times that Status shows on and to the end of the
\* window, and an upgrade of such a time is deferred exactly when the window is
\* over, until its weekday comes again, for every valid policy, zone and calendar.
THEOREM CalendarsAgree == Spec => []SchedulesAgree
<1>1. ASSUME IInv PROVE SchedulesAgree
  <2>1. now \in Int
    BY <1>1, ClockAssumption DEF IInv, Typed
  <2>2. \A p \in Forms : p \in Policy
    BY PolicyAssumption
  <2>. QED
    BY <2>1, <2>2, WindowFollowsStart, ExpiryFollowsStart, FeedFollowsMinute DEF SchedulesAgree
<1>. QED
  BY <1>1, Invariance, PTL
=============================================================================
