------------------------------- MODULE MCCron -------------------------------
(* Small instances of the two halves of cron, one at a time: CronScheduler  *)
(* with a minute of two seconds of two ticks, one route with a five-field   *)
(* expression and one with six fields; and CronFields with the days of a    *)
(* week, and months.                                                        *)
EXTENDS CronScheduler, CronFields

CONSTANTS minutely, secondly
VARIABLE half

MCUnitOf == [r \in Routes |-> IF r = minutely THEN 4 ELSE 2]
MCSchedule == [r \in Routes |-> {t \in 0 .. MaxTime : t % MCUnitOf[r] = 0}]

MCFields == {[min |-> 0, max |-> 7, top |-> 6, days |-> TRUE],
             [min |-> 1, max |-> 12, top |-> 12, days |-> FALSE]}

MCTokens == [number : {0, 1, 3, 5, 6, 7, 8, 12, 13}, plain : {TRUE}]
            \cup [number : {7}, plain : {FALSE}]

MCInit ==
    /\ half \in {"scheduler", "fields"}
    /\ Init /\ FieldInit
    /\ half = "scheduler" => field.days
    /\ half = "fields" => enabled = {} /\ clock = 0 /\ savedTick = NoTick

MCNext ==
    \/ half = "scheduler" /\ Next /\ UNCHANGED <<half, fieldVars>>
    \/ half = "fields" /\ FieldNext /\ UNCHANGED <<half, vars>>

MCSpec == MCInit /\ [][MCNext]_<<half, vars, fieldVars>>

=============================================================================
