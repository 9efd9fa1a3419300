-------------------------- MODULE MCUpdateSchedule --------------------------
(***************************************************************************)
(* Instances of the update schedule for TLC: days of three slots, weeks of *)
(* Monday and Sunday.                                                      *)
(***************************************************************************)
EXTENDS UpdateScheduleProperties

CONSTANTS h1, h2

\* A feed in the first slot, then a window to the end of Monday.
Early ==
    [feedEnabled |-> TRUE, feedMinute |-> 0, stackEnabled |-> TRUE, weekday |-> 1,
     start |-> 1, window |-> 2, zone |-> 0, timeout |-> 2]
\* A feed in the last slot, after a window on Sunday, a zone further east.
Late ==
    [feedEnabled |-> TRUE, feedMinute |-> 2, stackEnabled |-> TRUE, weekday |-> 2,
     start |-> 0, window |-> 2, zone |-> 1, timeout |-> 3]
\* A window that passes midnight.
Overnight == [Late EXCEPT !.start = 2]

AllForms == {Early, Late, Overnight}
=============================================================================
