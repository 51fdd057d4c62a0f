----------------------------- MODULE CronProofs -----------------------------
(* Theorems about the two halves of cron: CronScheduler, for any routes,     *)
(* units, schedules and bounds; and CronFields, whose two readings of a      *)
(* field agree, for any fields, tokens, steps and numbers of parts.          *)
EXTENDS CronScheduler, CronFields, TLAPS

-----------------------------------------------------------------------------
(* Units of time.  A multiple of a unit is before a time if and only if it *)
(* is before that time cut to the unit.                                    *)

LEMMA DivMod ==
    ASSUME NEW x \in Nat, NEW u \in Nat \ {0}
    PROVE  x = u * (x \div u) + (x % u) /\ x % u \in 0 .. (u - 1) /\ x \div u \in Nat
  OBVIOUS

LEMMA TruncateBounds ==
    ASSUME NEW x \in Nat, NEW u \in Nat \ {0}
    PROVE  Truncate(x, u) \in Nat /\ Truncate(x, u) <= x
  BY DivMod DEF Truncate

LEMMA MultiplesStay ==
    ASSUME NEW x \in Nat, NEW t \in Nat, NEW u \in Nat \ {0}, t % u = 0, t <= x
    PROVE  t <= Truncate(x, u)
  <1> DEFINE a == t \div u
             b == x \div u
  <1>1. a \in Nat /\ b \in Nat /\ t = u * a /\ Truncate(x, u) = u * b /\ x < u * b + u
    BY DivMod DEF Truncate
  <1>2. SUFFICES ASSUME a > b PROVE FALSE
    <2>1. ASSUME a <= b PROVE u * a <= u * b
      BY <1>1, <2>1
    <2>2. QED
      BY <1>1, <2>1
  <1>3. u * a >= u * (b + 1)
    BY <1>1, <1>2
  <1>4. u * (b + 1) = u * b + u
    BY <1>1
  <1>5. QED
    BY <1>1, <1>3, <1>4

LEMMA MultiplesOfMultiples ==
    ASSUME NEW t \in Nat, NEW u \in Nat \ {0}, NEW v \in Nat \ {0}, t % u = 0, u % v = 0
    PROVE  t % v = 0
  <1> DEFINE a == t \div u
             c == u \div v
  <1>1. a \in Nat /\ c \in Nat /\ t = u * a /\ u = v * c
    BY DivMod
  <1>2. t = v * (c * a) /\ c * a \in Nat
    BY <1>1
  <1>3. \A q \in Nat : (v * q) % v = 0
    OBVIOUS
  <1>4. QED
    BY <1>2, <1>3

\* The times cronDueBetween returns are those after from, up to to.
LEMMA WindowIs ==
    ASSUME NEW r \in Routes, NEW from \in Times, NEW to \in Times, NEW t
    PROVE  t \in Window(r, from, to) <=> t \in Schedule[r] /\ from < t /\ t <= to
  <1>1. UnitOf[r] \in Nat \ {0} /\ from \in Nat /\ to \in Nat
    BY UnitTypes, BoundTypes DEF Times
  <1>2. ASSUME t \in Schedule[r]
        PROVE  /\ t \in Nat
               /\ Truncate(from, UnitOf[r]) < t <=> from < t
               /\ t <= Truncate(to, UnitOf[r]) <=> t <= to
    <2>1. t \in Nat /\ t % UnitOf[r] = 0
      BY <1>2, ScheduleTypes, BoundTypes DEF Times
    <2>2. Truncate(from, UnitOf[r]) \in Nat /\ Truncate(from, UnitOf[r]) <= from
      BY <1>1, TruncateBounds
    <2>3. Truncate(to, UnitOf[r]) \in Nat /\ Truncate(to, UnitOf[r]) <= to
      BY <1>1, TruncateBounds
    <2>4. t <= from => t <= Truncate(from, UnitOf[r])
      BY <1>1, <2>1, MultiplesStay
    <2>5. t <= to => t <= Truncate(to, UnitOf[r])
      BY <1>1, <2>1, MultiplesStay
    <2>6. QED
      BY <1>1, <2>1, <2>2, <2>3, <2>4, <2>5
  <1>3. QED
    BY <1>1, <1>2 DEF Window

\* The last tick loses its fraction of a second, but no due time with it.
LEMMA TickIs ==
    ASSUME NEW x \in Times
    PROVE  /\ Truncate(x, Second) \in Times
           /\ \A r \in Routes : \A t \in Schedule[r] : t <= Truncate(x, Second) <=> t <= x
  <1>1. x \in Nat /\ Second \in Nat \ {0}
    BY UnitTypes, BoundTypes DEF Times
  <1>2. Truncate(x, Second) \in Nat /\ Truncate(x, Second) <= x
    BY <1>1, TruncateBounds
  <1>3. ASSUME NEW r \in Routes, NEW t \in Schedule[r] PROVE t <= Truncate(x, Second) <=> t <= x
    <2>1. t \in Nat /\ t % UnitOf[r] = 0 /\ UnitOf[r] \in Nat \ {0} /\ UnitOf[r] % Second = 0
      BY UnitTypes, ScheduleTypes, BoundTypes DEF Times
    <2>2. t % Second = 0
      BY <1>1, <2>1, MultiplesOfMultiples
    <2>3. t <= x => t <= Truncate(x, Second)
      BY <1>1, <2>1, <2>2, MultiplesStay
    <2>4. QED
      BY <1>1, <1>2, <2>1, <2>3
  <1>4. QED
    BY <1>1, <1>2, <1>3, BoundTypes DEF Times

LEMMA ScheduleInTimes == \A r \in Routes : Schedule[r] \subseteq Times
  BY ScheduleTypes

LEMMA Defaults == 0 \in Times /\ NoTimes \in [Routes -> SUBSET Times]
  BY BoundTypes DEF Times, NoTimes

LEMMA WindowType ==
    ASSUME NEW r \in Routes, NEW from, NEW to PROVE Window(r, from, to) \subseteq Times
  BY ScheduleInTimes DEF Window

-----------------------------------------------------------------------------
(* Types *)

LEMMA TypeInit == Init => TypeOK
  <1> SUFFICES ASSUME Init PROVE TypeOK
    OBVIOUS
  <1>1. clock \in Times
    BY UnitTypes, BoundTypes DEF Init, Times
  <1>2. 0 \in 0 .. MaxFaults
    BY BoundTypes
  <1>3. handed \in [Routes -> [Times -> Nat]]
    BY DEF Init
  <1>4. QED
    BY <1>1, <1>2, <1>3, Defaults DEF Init, TypeOK, Ticks

LEMMA TypeNext == TypeOK /\ [Next]_vars => TypeOK'
  <1> SUFFICES ASSUME TypeOK, [Next]_vars PROVE TypeOK'
    OBVIOUS
  <1> USE BoundTypes DEF TypeOK, Ticks, tickVars, localVars, passedVars, historyVars
  <1>1. CASE Start
    <2>1. InitialTick \in Times
      BY TickIs DEF InitialTick
    <2>2. forgotten' \subseteq Times
      BY <1>1 DEF Start
    <2>3. QED
      BY <1>1, <2>1, <2>2 DEF Start, FirstTick
  <1>1a. CASE StartFails
    BY <1>1a DEF StartFails
  <1>2. CASE BeginCatchUp
    <2>1. excused' \in [Routes -> SUBSET Times]
      BY <1>2, WindowType DEF BeginCatchUp
    <2>2. QED
      BY <1>2, <2>1 DEF BeginCatchUp
  <1>3. CASE SetLastTick
    <2>1. NewTick \in Times
      BY TickIs DEF NewTick
    <2>2. QED
      BY <1>3, <2>1 DEF SetLastTick
  <1>4. CASE SaveState
    BY <1>4, Defaults DEF SaveState, ResetLocals
  <1>5. CASE ProcessEnds
    <2>1. replayable' \in [Routes -> SUBSET Times] /\ unsaved' \in [Routes -> SUBSET Times]
      BY <1>5, Defaults DEF ProcessEnds
    <2>2. faults' \in 0 .. MaxFaults
      BY <1>5 DEF ProcessEnds
    <2>3. QED
      BY <1>5, <2>1, <2>2, Defaults DEF ProcessEnds, ResetLocals
  <1>6. ASSUME NEW k \in Routes, RefreshWorkspace(k) PROVE TypeOK'
    <2>1. Window(k, since, now) \subseteq Times
      BY WindowType
    <2>2. /\ excused' \in [Routes -> SUBSET Times] /\ unrefreshed' \in [Routes -> SUBSET Times]
          /\ due' \subseteq Times /\ route' \subseteq Routes
      BY <1>6, <2>1 DEF RefreshWorkspace
    <2>3. QED
      BY <1>6, <2>2 DEF RefreshWorkspace
  <1>7. ASSUME NEW k \in Routes, EnqueueCron(k) PROVE TypeOK'
    <2>1. PICK t \in due : /\ due' = due \ {t}
                           /\ handed' = [handed EXCEPT ![k][t] = @ + 1]
                           /\ unsaved' = [unsaved EXCEPT ![k] = @ \cup {t}]
      BY <1>7 DEF EnqueueCron
    <2>2. handed' \in [Routes -> [Times -> Nat]] /\ unsaved' \in [Routes -> SUBSET Times]
      BY <2>1
    <2>3. QED
      BY <1>7, <2>1, <2>2 DEF EnqueueCron
  <1>8. ASSUME NEW k \in Routes, SetRouteEnabled(k) PROVE TypeOK'
    BY <1>8 DEF SetRouteEnabled
  <1>9. CASE Tick
    <2>1. clock' \in Times
      BY <1>9 DEF Tick, Times
    <2>2. QED
      BY <1>9, <2>1 DEF Tick
  <1>10. CASE ClockStepsBack
    <2>1. clock' \in Times /\ faults' \in 0 .. MaxFaults
      BY <1>10 DEF ClockStepsBack, Times
    <2>2. replayable' \in [Routes -> SUBSET Times]
      BY <1>10, ScheduleInTimes DEF ClockStepsBack
    <2>3. QED
      BY <1>10, <2>1, <2>2 DEF ClockStepsBack
  <1>11. CASE UNCHANGED vars
    BY <1>11 DEF vars
  <1>12. QED
    BY <1>1, <1>1a, <1>2, <1>3, <1>4, <1>5, <1>6, <1>7, <1>8, <1>9, <1>10, <1>11
       DEF Next

\* Every variable keeps its type; a running process has a last tick.
THEOREM TypeCorrect == Spec => []TypeOK
  BY TypeInit, TypeNext, PTL DEF Spec

-----------------------------------------------------------------------------
(* Where a catch-up is *)

PlaceInv ==
    /\ step \in {"down", "waiting"} => route = {} /\ due = {}
    /\ step = "routes" => since = lastTick /\ route \cap todo = {}
    /\ step = "save" => due = {}
    /\ due # {} => \E r \in Routes : route = {r} /\ due \subseteq Window(r, since, now)

LEMMA PlaceInit == Init => PlaceInv
  BY DEF Init, PlaceInv

LEMMA PlaceNext == TypeOK /\ PlaceInv /\ [Next]_vars => PlaceInv'
  <1> SUFFICES ASSUME TypeOK, PlaceInv, [Next]_vars PROVE PlaceInv'
    OBVIOUS
  <1> USE DEF TypeOK, PlaceInv, tickVars, localVars, passedVars, historyVars
  <1>1. CASE Start
    BY <1>1 DEF Start, InitialTick
  <1>1a. CASE StartFails
    BY <1>1a DEF StartFails
  <1>2. CASE BeginCatchUp
    BY <1>2 DEF BeginCatchUp
  <1>3. CASE SetLastTick
    BY <1>3 DEF SetLastTick, NewTick
  <1>4. CASE SaveState
    BY <1>4 DEF SaveState, ResetLocals, NoTimes
  <1>5. CASE ProcessEnds
    BY <1>5 DEF ProcessEnds, ResetLocals, NoTimes
  <1>6. ASSUME NEW k \in Routes, RefreshWorkspace(k) PROVE PlaceInv'
    BY <1>6 DEF RefreshWorkspace
  <1>7. ASSUME NEW k \in Routes, EnqueueCron(k) PROVE PlaceInv'
    BY <1>7 DEF EnqueueCron
  <1>8. ASSUME NEW k \in Routes, SetRouteEnabled(k) PROVE PlaceInv'
    BY <1>8 DEF SetRouteEnabled
  <1>9. CASE Tick
    BY <1>9 DEF Tick
  <1>10. CASE ClockStepsBack
    BY <1>10 DEF ClockStepsBack
  <1>11. CASE UNCHANGED vars
    BY <1>11 DEF vars
  <1>12. QED
    BY <1>1, <1>1a, <1>2, <1>3, <1>4, <1>5, <1>6, <1>7, <1>8, <1>9, <1>10, <1>11
       DEF Next

LEMMA PlaceInvariant == Spec => []PlaceInv
  BY PlaceInit, PlaceNext, TypeCorrect, PTL DEF Spec

-----------------------------------------------------------------------------
(* No double firing                                                        *)

\* The due times of r that were handed over and may not come again.
Fired(r) == {t \in Schedule[r] : handed[r][t] > 0 /\ t \notin replayable[r]}

FiredInv ==
    \A r \in Routes :
        /\ \A t \in Schedule[r] : handed[r][t] > 1 => t \in replayable[r]
        /\ \A t \in Fired(r) :
             /\ t <= clock
             /\ t \in unsaved[r] \/ t <= savedTick \/ savedTick = NoTick
             /\ step \in {"routes", "save"} => t <= now
             /\ step \in {"waiting", "save"} => t <= lastTick
             /\ (step = "routes" /\ r \in todo) => t <= since
             /\ (step = "routes" /\ r \in route) => t \notin due
        /\ step = "down" => unsaved[r] = {}
        /\ \A t \in Schedule[r] \ replayable[r] :
             step \in {"routes", "save"} /\ t <= now => t <= clock

LEMMA FiredInit == Init => FiredInv
  <1> SUFFICES ASSUME Init PROVE FiredInv
    OBVIOUS
  <1>1. \A r \in Routes : unsaved[r] = {} /\ \A t \in Schedule[r] : handed[r][t] = 0
    BY ScheduleInTimes DEF Init, NoTimes
  <1>2. step = "down"
    BY DEF Init
  <1>3. ~(0 > 0) /\ ~(0 > 1)
    OBVIOUS
  <1>4. \A r \in Routes : \A t \in Schedule[r] : ~(handed[r][t] > 0) /\ ~(handed[r][t] > 1)
    BY <1>1, <1>3, Zenon
  <1>5. \A r \in Routes : Fired(r) = {}
    BY <1>4 DEF Fired
  <1>6. QED
    BY <1>1, <1>2, <1>4, <1>5 DEF FiredInv

LEMMA FiredNext == TypeOK /\ PlaceInv /\ FiredInv /\ [Next]_vars => FiredInv'
  <1> SUFFICES ASSUME TypeOK, PlaceInv, FiredInv, [Next]_vars PROVE FiredInv'
    OBVIOUS
  <1> USE ScheduleInTimes, BoundTypes DEF TypeOK, PlaceInv, FiredInv, Fired, Ticks, Times, NoTick,
          tickVars, localVars, passedVars, historyVars
  <1>1. CASE Start
    <2>1. \A r \in Routes : \A t \in Schedule[r] : t <= Truncate(clock, Second) <=> t <= clock
      BY TickIs
    <2>2. QED
      BY <1>1, <2>1 DEF Start, InitialTick
  <1>1a. CASE StartFails
    BY <1>1a DEF StartFails
  <1>2. CASE BeginCatchUp
    BY <1>2 DEF BeginCatchUp
  <1>3. CASE SetLastTick
    <2>1. \A r \in Routes : \A t \in Schedule[r] : t <= NewTick <=> t <= now
      BY TickIs DEF NewTick
    <2>2. QED
      BY <1>3, <2>1 DEF SetLastTick
  <1>4. CASE SaveState
    BY <1>4 DEF SaveState, ResetLocals, NoTimes
  <1>5. CASE ProcessEnds
    BY <1>5 DEF ProcessEnds, ResetLocals, NoTimes
  <1>6. ASSUME NEW k \in Routes, RefreshWorkspace(k) PROVE FiredInv'
    <2>1. due' = {} \/ due' = Window(k, since, now)
      BY <1>6 DEF RefreshWorkspace
    <2>2. \A t \in due' : since < t
      BY <2>1, WindowIs
    <2>3. step = "routes" /\ k \in todo /\ todo' = todo \ {k} /\ due = {}
      BY <1>6 DEF RefreshWorkspace
    <2>4. (route' = {k} /\ due' = Window(k, since, now)) \/ due' = {}
      BY <1>6 DEF RefreshWorkspace
    <2>5. ASSUME NEW r \in Routes, NEW t \in Fired(r), r \in route' PROVE t \notin due'
      BY <2>2, <2>3, <2>4, <2>5
    <2>6. QED
      BY <1>6, <2>3, <2>5 DEF RefreshWorkspace
  <1>7. ASSUME NEW k \in Routes, EnqueueCron(k) PROVE FiredInv'
    <2>1. PICK t \in due : /\ due' = due \ {t}
                           /\ handed' = [handed EXCEPT ![k][t] = @ + 1]
                           /\ unsaved' = [unsaved EXCEPT ![k] = @ \cup {t}]
      BY <1>7 DEF EnqueueCron
    <2>2. t \in Schedule[k] /\ since < t /\ t <= now
      BY <1>7, <2>1, WindowIs DEF EnqueueCron
    <2>3. /\ step = "routes" /\ route = {k} /\ k \notin todo
          /\ UNCHANGED <<clock, step, lastTick, savedTick, now, since, todo, route, replayable>>
      BY <1>7 DEF EnqueueCron
    <2>4. t \in replayable[k] \/ handed[k][t] = 0
      <3>1. handed[k][t] \in Nat
        BY <2>2 DEF TypeOK
      <3>2. t \notin Fired(k)
        BY <2>1, <2>2, <2>3 DEF FiredInv
      <3>3. t \in replayable[k] \/ ~(handed[k][t] > 0)
        BY <2>2, <3>2 DEF Fired
      <3>4. QED
        BY <3>1, <3>3
    <2>5. handed'[k][t] = handed[k][t] + 1 /\ t \in unsaved'[k]
      BY <2>1
    <2>6. \A r \in Routes : \A u \in Schedule[r] :
             (r # k \/ u # t) => /\ handed'[r][u] = handed[r][u]
                                 /\ u \in unsaved'[r] <=> u \in unsaved[r]
      BY <2>1
    <2>7. ASSUME NEW r \in Routes, NEW u \in Schedule[r], r # k \/ u # t, u \in Fired(r)' PROVE u \in Fired(r)
      BY <2>3, <2>6, <2>7
    <2>8. \A r \in Routes : \A u \in Fired(r)' : (r # k \/ u # t) /\ r \in route' => u \notin due'
      BY <2>1, <2>3, <2>7
    <2>9. t \notin replayable[k] => t <= clock
      BY <2>2, <2>3
    <2>10. ASSUME NEW r \in Routes PROVE \A u \in Schedule[r] : handed'[r][u] > 1 => u \in replayable'[r]
      <3>1. t \in replayable'[k] \/ ~(handed'[k][t] > 1)
        BY <2>2, <2>3, <2>4, <2>5
      <3>2. \A u \in Schedule[r] : (r # k \/ u # t) /\ handed'[r][u] > 1 => u \in replayable'[r]
        BY <2>3, <2>6
      <3>3. QED
        BY <3>1, <3>2
    <2>11. ASSUME NEW r \in Routes, NEW u \in Fired(r)'
           PROVE  /\ u <= clock
                  /\ u \in unsaved'[r] \/ u <= savedTick \/ savedTick = NoTick
                  /\ u <= now
                  /\ r \in todo => u <= since
                  /\ r \in route => u \notin due'
      <3>1. CASE r = k /\ u = t
        BY <2>1, <2>2, <2>3, <2>5, <2>9, <3>1
      <3>2. CASE r # k \/ u # t
        <4>1. u \in Fired(r)
          BY <2>7, <3>2
        <4>2. QED
          BY <2>3, <2>6, <2>8, <3>2, <4>1
      <3>3. QED
        BY <3>1, <3>2
    <2>12. QED
      BY <2>3, <2>10, <2>11
  <1>8. ASSUME NEW k \in Routes, SetRouteEnabled(k) PROVE FiredInv'
    BY <1>8 DEF SetRouteEnabled
  <1>9. CASE Tick
    <2>1. /\ clock' = clock + 1
          /\ UNCHANGED <<enabled, step, tickVars, localVars, historyVars>>
      BY <1>9 DEF Tick
    <2>2. \A r \in Routes : Fired(r)' = Fired(r)
      BY <2>1
    <2>3. \A r \in Routes : \A t \in Schedule[r] : t <= clock => t <= clock'
      BY <2>1
    <2>4. QED
      BY <2>1, <2>2, <2>3
  <1>10. CASE ClockStepsBack
    BY <1>10 DEF ClockStepsBack
  <1>11. CASE UNCHANGED vars
    BY <1>11 DEF vars
  <1>12. QED
    BY <1>1, <1>1a, <1>2, <1>3, <1>4, <1>5, <1>6, <1>7, <1>8, <1>9, <1>10, <1>11
       DEF Next

\* A due time goes to enqueueCron once, unless a process ended with it handed
\* over and its tick not saved, or the clock was set back behind it.
THEOREM NoDoubles == Spec => []NoDoubleFiring
  <1>1. FiredInv => NoDoubleFiring
    BY DEF FiredInv, NoDoubleFiring
  <1>2. QED
    BY <1>1, FiredInit, FiredNext, TypeCorrect, PlaceInvariant, PTL DEF Spec

-----------------------------------------------------------------------------
(* No missed firing *)

\* The due times of r that some catch-up must hand over.
Owed(r) == {t \in Schedule[r] \ (excused[r] \cup unrefreshed[r] \cup forgotten) :
                firstTick # NoTick /\ firstTick < t /\ handed[r][t] = 0}

MissedInv ==
    /\ firstTick = NoTick => savedTick = NoTick
    /\ step # "down" => firstTick # NoTick
    /\ \A r \in Routes : \A t \in Owed(r) :
         /\ ~(t <= savedTick) /\ ~(t <= lastTick) /\ ~(t <= reached)
         /\ (step = "routes" /\ t \in Window(r, since, now)) => r \in todo \/ (route = {r} /\ t \in due)

LEMMA MissedInit == Init => MissedInv
  BY DEF Init, MissedInv, Owed

LEMMA MissedNext == TypeOK /\ PlaceInv /\ MissedInv /\ [Next]_vars => MissedInv'
  <1> SUFFICES ASSUME TypeOK, PlaceInv, MissedInv, [Next]_vars PROVE MissedInv'
    OBVIOUS
  <1> USE ScheduleInTimes, BoundTypes DEF TypeOK, PlaceInv, MissedInv, Owed, Ticks, Times, NoTick,
          tickVars, localVars, passedVars, historyVars
  <1>1. CASE Start
    <2>1. InitialTick \in Times /\ (savedTick # NoTick => InitialTick = savedTick)
      BY TickIs DEF InitialTick, Times
    <2>2. ASSUME NEW r \in Routes, NEW t \in Owed(r)' PROVE ~(t <= InitialTick)
      <3>1. CASE firstTick = NoTick
        BY <1>1, <2>1, <2>2, <3>1 DEF Start, FirstTick
      <3>2. CASE firstTick # NoTick
        <4>1. t \in Owed(r)
          BY <1>1, <2>2, <3>2 DEF Start, FirstTick
        <4>2. CASE savedTick = NoTick
          BY <1>1, <2>1, <2>2, <3>2, <4>1, <4>2 DEF Start
        <4>3. CASE savedTick # NoTick
          BY <2>1, <4>1, <4>3
        <4>4. QED
          BY <4>2, <4>3
      <3>3. QED
        BY <3>1, <3>2
    <2>3. QED
      BY <1>1, <2>1, <2>2 DEF Start, FirstTick
  <1>1a. CASE StartFails
    BY <1>1a DEF StartFails
  <1>2. CASE BeginCatchUp
    BY <1>2 DEF BeginCatchUp
  <1>3. CASE SetLastTick
    <2>1. \A r \in Routes : \A t \in Schedule[r] : t <= NewTick <=> t <= now
      BY TickIs DEF NewTick
    <2>2. \A r \in Routes : \A t \in Schedule[r] : t \in Window(r, since, now) <=> since < t /\ t <= now
      BY WindowIs
    <2>3. todo = {} /\ due = {} /\ step = "routes"
      BY <1>3 DEF SetLastTick
    <2>4. \A r \in Routes : \A t \in Owed(r) : ~(t <= NewTick)
      BY <2>1, <2>2, <2>3
    <2>5. QED
      BY <1>3, <2>4 DEF SetLastTick
  <1>4. CASE SaveState
    BY <1>4 DEF SaveState, ResetLocals, NoTimes
  <1>5. CASE ProcessEnds
    BY <1>5 DEF ProcessEnds, ResetLocals, NoTimes
  <1>6. ASSUME NEW k \in Routes, RefreshWorkspace(k) PROVE MissedInv'
    <2>1. /\ step = "routes" /\ due = {} /\ todo' = todo \ {k}
          /\ UNCHANGED <<step, tickVars, reached, now, since, handed, forgotten, firstTick>>
      BY <1>6 DEF RefreshWorkspace
    <2>2. \A r \in Routes : Window(r, since, now)' = Window(r, since, now)
      BY <2>1 DEF Window
    <2>3. \A r \in Routes : Owed(r)' \subseteq Owed(r)
      <3>1. excused' = excused \/ excused' = [excused EXCEPT ![k] = @ \cup Window(k, since, now)]
        BY <1>6 DEF RefreshWorkspace
      <3>2. unrefreshed' = unrefreshed
              \/ unrefreshed' = [unrefreshed EXCEPT ![k] = @ \cup Window(k, since, now)]
        BY <1>6 DEF RefreshWorkspace
      <3>3. \A r \in Routes : excused[r] \subseteq excused'[r]
        BY <3>1
      <3>4. \A r \in Routes : unrefreshed[r] \subseteq unrefreshed'[r]
        BY <3>2
      <3>5. QED
        BY <2>1, <3>3, <3>4
    <2>4. ASSUME NEW t \in Owed(k)', t \in Window(k, since, now) PROVE route' = {k} /\ t \in due'
      BY <1>6, <2>4 DEF RefreshWorkspace
    <2>5. ASSUME NEW r \in Routes, NEW t \in Owed(r)', t \in Window(r, since, now)
          PROVE  r \in todo' \/ (route' = {r} /\ t \in due')
      <3>1. CASE r = k
        BY <2>4, <2>5, <3>1
      <3>2. CASE r # k
        BY <2>1, <2>3, <2>5, <3>2
      <3>3. QED
        BY <3>1, <3>2
    <2>6. QED
      BY <2>1, <2>2, <2>3, <2>5
  <1>7. ASSUME NEW k \in Routes, EnqueueCron(k) PROVE MissedInv'
    <2>1. PICK t \in due : /\ due' = due \ {t}
                           /\ handed' = [handed EXCEPT ![k][t] = @ + 1]
      BY <1>7 DEF EnqueueCron
    <2>2. \A r \in Routes : \A u \in Times : handed'[r][u] = 0 => handed[r][u] = 0
      BY <2>1
    <2>3. handed'[k][t] > 0
      <3>1. t \in Times /\ handed[k] \in [Times -> Nat] /\ handed \in [Routes -> [Times -> Nat]]
        BY DEF TypeOK
      <3>2. handed'[k] = [handed[k] EXCEPT ![t] = @ + 1]
        BY <2>1, <3>1
      <3>3. handed'[k][t] = handed[k][t] + 1 /\ handed[k][t] \in Nat
        BY <3>1, <3>2
      <3>4. QED
        BY <3>3
    <2>4. /\ step = "routes" /\ route = {k}
          /\ UNCHANGED <<step, lastTick, savedTick, now, since, todo, route, passedVars, reached, firstTick>>
      BY <1>7 DEF EnqueueCron
    <2>5. \A r \in Routes : Owed(r)' \subseteq Owed(r)
      BY <2>2, <2>4
    <2>6. \A r \in Routes : \A u \in Owed(r)' : r = k => u # t
      BY <2>3
    <2>7. \A r \in Routes : Window(r, since, now)' = Window(r, since, now)
      BY <2>4 DEF Window
    <2>8. ASSUME NEW r \in Routes, NEW u \in Owed(r)'
          PROVE  /\ ~(u <= savedTick) /\ ~(u <= lastTick) /\ ~(u <= reached)
                 /\ u \in Window(r, since, now) => r \in todo \/ (route = {r} /\ u \in due')
      <3>1. u \in Owed(r) /\ (r = k => u # t)
        BY <2>5, <2>6
      <3>2. u \in Window(r, since, now) => r \in todo \/ (route = {r} /\ u \in due)
        BY <2>4, <3>1
      <3>3. route = {r} => r = k
        BY <2>4
      <3>4. ~(u <= savedTick) /\ ~(u <= lastTick) /\ ~(u <= reached)
        BY <3>1
      <3>5. QED
        BY <2>1, <3>1, <3>2, <3>3, <3>4
    <2>9. firstTick # NoTick /\ (firstTick = NoTick => savedTick = NoTick)
      BY <2>4
    <2>10. QED
      BY <2>4, <2>7, <2>8, <2>9
  <1>8. ASSUME NEW k \in Routes, SetRouteEnabled(k) PROVE MissedInv'
    BY <1>8 DEF SetRouteEnabled
  <1>9. CASE Tick
    BY <1>9 DEF Tick
  <1>10. CASE ClockStepsBack
    BY <1>10 DEF ClockStepsBack
  <1>11. CASE UNCHANGED vars
    BY <1>11 DEF vars
  <1>12. QED
    BY <1>1, <1>1a, <1>2, <1>3, <1>4, <1>5, <1>6, <1>7, <1>8, <1>9, <1>10, <1>11
       DEF Next

\* Once the last tick, or the saved one, has passed a due time, it was handed
\* over, or its route or workspace was off, workspaces.json could not be saved,
\* or a failed save lost the tick: the windows leave no other gap.
THEOREM NoneMissed == Spec => []NoMissedFiring
  <1>1. TypeOK /\ MissedInv => NoMissedFiring
    BY ScheduleInTimes DEF TypeOK, MissedInv, NoMissedFiring, Owed
  <1>2. QED
    BY <1>1, MissedInit, MissedNext, TypeCorrect, PlaceInvariant, PTL DEF Spec

-----------------------------------------------------------------------------
(* The fields of an expression.                                            *)

FieldInv == field \in Fields /\ parts \subseteq Parts

LEMMA FieldInvariance == FieldSpec => []FieldInv
  <1>1. FieldInit => FieldInv
    BY DEF FieldInit, FieldInv
  <1>2. FieldInv /\ [FieldNext]_fieldVars => FieldInv'
    BY DEF FieldInv, FieldNext, AddPart, Clear, fieldVars
  <1>3. QED
    BY <1>1, <1>2, PTL DEF FieldSpec

Spelt == [number : Nat, plain : BOOLEAN]

LEMMA PartCases ==
    ASSUME NEW p \in Parts
    PROVE  \/ p.base = "star"
           \/ p.base = "malformed"
           \/ p.base = "value" /\ p.lo \in Spelt
           \/ p.base = "range" /\ p.lo \in Spelt /\ p.hi \in Spelt
  BY TokenTypes DEF Parts, Spelt

\* What the validator rejects does not match.
LEMMA RejectedPart ==
    ASSUME NEW f \in Fields, NEW p \in Parts, NEW v \in Values(f),
           ~SevenMisread(f, p), CronPartMatches(f, p, v)
    PROVE  ValidatePart(f, p)
  <1> USE DEF Spelt, IsSeven, CronPartMatches, ValidatePart, ParseCronValue
  <1>0. /\ f.min \in Nat /\ f.max \in Nat /\ f.top \in Nat
        /\ f.days => f.min = 0 /\ f.max = 7
    BY FieldTypes
  <1>1. CASE p.base = "star"
    BY <1>1
  <1>2. CASE p.base = "value" /\ p.lo \in Spelt
    BY <1>0, <1>2
  <1>3. CASE p.base = "range" /\ p.lo \in Spelt /\ p.hi \in Spelt
    <2>1. ParseCronValue(f, p.lo) = p.lo.number /\ ParseCronValue(f, p.hi) = p.hi.number
      BY <1>3 DEF SevenMisread
    <2>2. p.step # BadStep /\ RangeChecked(f, p.lo.number, p.hi.number)
      BY <1>3, <2>1
    <2>3. p.lo.number \in Nat /\ p.hi.number \in Nat
      BY <1>3
    <2>4. QED
      BY <1>0, <1>3, <2>2, <2>3 DEF RangeChecked
  <1>4. CASE p.base = "malformed"
    BY <1>4
  <1>5. QED
    BY <1>1, <1>2, <1>3, <1>4, PartCases

\* What the validator accepts matches the values it names.
LEMMA AcceptedPart ==
    ASSUME NEW f \in Fields, NEW p \in Parts, NEW v \in Values(f),
           ~SevenMisread(f, p), ValidatePart(f, p)
    PROVE  CronPartMatches(f, p, v) <=> v \in Meaning(f, p)
  <1> USE DEF Spelt, IsSeven, ValidatePart, Values
  <1>0. /\ f.min \in Nat /\ f.max \in Nat /\ f.top \in Nat /\ v \in f.min .. f.top
        /\ f.top <= f.max
        /\ f.days => f.min = 0 /\ f.max = 7 /\ f.top = 6
        /\ ~f.days => f.top = f.max
    BY FieldTypes
  <1>1. CASE p.base = "star"
    <2>1. Named(f, p) = Stepped(f.min, f.top, p)
      BY <1>1 DEF Named
    <2>2. Meaning(f, p) = Stepped(f.min, f.top, p)
      BY <2>1, <1>0 DEF Meaning, Stepped
    <2>3. QED
      BY <1>0, <1>1, <2>2 DEF CronPartMatches, OnStep, Stepped
  <1>2. CASE p.base = "value" /\ p.lo \in Spelt
    <2>1. Meaning(f, p) = {IF f.days /\ p.lo.number = 7 THEN 0 ELSE p.lo.number}
      BY <1>2 DEF Meaning, Named
    <2>2. f.days /\ p.lo.number = 7 => IsSeven(p.lo)
      BY <1>2 DEF SevenMisread
    <2>3. Meaning(f, p) = {ParseCronValue(f, p.lo)}
      BY <2>1, <2>2 DEF ParseCronValue
    <2>4. QED
      BY <1>0, <1>2, <2>3 DEF CronPartMatches, ParseCronValue
  <1>3. CASE p.base = "range" /\ p.lo \in Spelt /\ p.hi \in Spelt
    <2> DEFINE lo == p.lo.number
               hi == p.hi.number
    <2>1. Named(f, p) = Stepped(lo, hi, p)
      BY <1>3 DEF Named
    <2>2. lo \in Nat /\ hi \in Nat /\ f.min <= lo /\ lo <= hi /\ hi <= f.max
      BY <1>0, <1>3
    <2>3. ParseCronValue(f, p.lo) = lo /\ ParseCronValue(f, p.hi) = hi
      BY <1>3 DEF ParseCronValue, SevenMisread
    <2>4. ~f.days \/ (lo # 7 /\ hi # 7)
      BY <1>3 DEF SevenMisread
    <2> HIDE DEF lo, hi
    <2>5. ~f.days \/ hi < 7
      BY <1>0, <2>2, <2>4
    <2>6. Meaning(f, p) = Stepped(lo, hi, p)
      BY <2>1, <2>2, <2>5 DEF Meaning, Stepped
    <2>7. CronPartMatches(f, p, v) <=> RangeChecked(f, lo, hi) /\ v \in lo .. hi /\ OnStep(v, lo, p)
      BY <1>3, <2>3 DEF CronPartMatches
    <2>8. QED
      BY <1>0, <2>2, <2>6, <2>7 DEF RangeChecked, OnStep, Stepped
  <1>4. CASE p.base = "malformed"
    BY <1>4
  <1>5. QED
    BY <1>1, <1>2, <1>3, <1>4, PartCases

\* A value that a valid field names is a value the field can have.
LEMMA MeaningInField ==
    ASSUME NEW f \in Fields, NEW p \in Parts, ValidatePart(f, p)
    PROVE  Meaning(f, p) \subseteq Values(f)
  <1> SUFFICES ASSUME NEW u \in Named(f, p)
               PROVE  (IF f.days /\ u = 7 THEN 0 ELSE u) \in Values(f)
    BY DEF Meaning
  <1> USE FieldTypes DEF Spelt, ValidatePart, Values, Named, Stepped
  <1>1. CASE p.base = "star"
    BY <1>1
  <1>2. CASE p.base = "value" /\ p.lo \in Spelt
    BY <1>2
  <1>3. CASE p.base = "range" /\ p.lo \in Spelt /\ p.hi \in Spelt
    BY <1>3
  <1>4. QED
    BY <1>1, <1>2, <1>3, PartCases

\* The multiples of a step among the days of a week.
LEMMA StepsOfWeek ==
    ASSUME NEW s \in Nat \ {0}
    PROVE  /\ s >= 7 => \A v \in 0 .. 6 : v % s = 0 <=> v = 0
           /\ s < 7 => s \in 1 .. 6 /\ s % s = 0
           /\ 0 % s = 0
  <1>1. ASSUME s >= 7, NEW v \in 0 .. 6 PROVE v % s = 0 <=> v = 0
    <2> DEFINE q == v \div s
    <2>1. q \in Nat /\ v = s * q + (v % s) /\ v % s \in Nat
      BY DivMod
    <2>2. s * q \in Nat
      BY <2>1
    <2> HIDE DEF q
    <2>3. q >= 1 => s * q >= s
      BY <2>1
    <2>4. q = 0
      BY <1>1, <2>1, <2>2, <2>3
    <2>5. v % s = v
      BY <2>1, <2>4
    <2>6. QED
      BY <2>5
  <1>2. ASSUME s < 7 PROVE s \in 1 .. 6 /\ s % s = 0
    BY <1>2
  <1>3. 0 % s = 0
    OBVIOUS
  <1>4. QED
    BY <1>1, <1>2, <1>3

\* Of the parts that ReadingsAgree excepts, those that epics cron validate accepts
\* are ranges that end with 7 and the day 07, and the daemon does misread them,
\* but for: Sunday alone, 7-7; a range from Sunday to Sunday, 0-7, 7-07, whose step
\* is 7 or more; and ranges up to 07 whose steps miss it, or that begin with 0 (the
\* plain 7 is 0 at both ends, 07 is 7 at both ends; ParseCronValue).
THEOREM SevensDisagree ==
    ASSUME NEW f \in Fields, NEW p \in Parts, SevenMisread(f, p), ValidatePart(f, p)
    PROVE  (\A v \in Values(f) : CronPartMatches(f, p, v) <=> v \in Meaning(f, p))
             <=> /\ p.base = "range"
                 /\ IF IsSeven(p.hi)
                    THEN IsSeven(p.lo) \/ (p.lo.number = 0 /\ Step(p) >= 7)
                    ELSE IF IsSeven(p.lo)
                    THEN Step(p) >= 7
                    ELSE p.lo.number = 0 \/ (7 - p.lo.number) % Step(p) # 0
  <1> DEFINE Agree == \A v \in Values(f) : CronPartMatches(f, p, v) <=> v \in Meaning(f, p)
  <1> HIDE DEF Agree
  <1>1. f.days /\ f.min = 0 /\ f.max = 7 /\ f.top = 6 /\ Values(f) = 0 .. 6
    BY FieldTypes DEF SevenMisread, Values
  <1>2. p.step # BadStep /\ p.lo \in Spelt
    BY PartCases DEF SevenMisread, ValidatePart
  <1>3. Step(p) \in Nat \ {0}
    <2>1. p.step \in Steps \cup {NoStep, BadStep}
      BY DEF Parts, StepTexts
    <2>2. CASE p.step = NoStep
      BY <2>2 DEF Step
    <2>3. CASE p.step # NoStep
      <3>1. Step(p) = p.step /\ p.step \in Steps
        BY <1>2, <2>1, <2>3 DEF Step
      <3>2. Steps \subseteq Nat \ {0}
        BY TokenTypes
      <3>3. QED
        BY <3>1, <3>2
    <2>4. QED
      BY <2>2, <2>3
  <1>4. CASE p.base = "value"
    <2>1. p.lo.number = 7 /\ ParseCronValue(f, p.lo) = 7
      BY <1>4 DEF SevenMisread, ParseCronValue, IsSeven
    <2>2. 0 \in Meaning(f, p)
      BY <1>1, <1>4, <2>1 DEF Meaning, Named
    <2>3. ~CronPartMatches(f, p, 0)
      BY <1>4, <2>1 DEF CronPartMatches
    <2>4. ~Agree
      BY <1>1, <2>2, <2>3 DEF Agree
    <2>5. QED
      BY <1>4, <2>4 DEF Agree
  <1>5. CASE p.base = "range"
    <2> DEFINE lo    == p.lo.number
               s     == Step(p)
               start == ParseCronValue(f, p.lo)
               end   == ParseCronValue(f, p.hi)
    <2>1. p.hi \in Spelt /\ lo \in 0 .. 7 /\ p.hi.number = 7
      BY <1>1, <1>2, <1>5, PartCases DEF Spelt, SevenMisread, ValidatePart
    <2>2. /\ start = IF IsSeven(p.lo) THEN 0 ELSE lo
          /\ end = IF IsSeven(p.hi) THEN 0 ELSE 7
          /\ IsSeven(p.lo) => lo = 7
      BY <1>1, <2>1 DEF ParseCronValue, IsSeven
    <2>3. \A v \in 0 .. 6 : CronPartMatches(f, p, v) <=>
              /\ 0 <= start /\ end <= 7 /\ start <= end
              /\ v \in start .. end /\ (v - start) % s = 0
      BY <1>1, <1>2, <1>5 DEF CronPartMatches, RangeChecked, OnStep
    <2>4. Named(f, p) = Stepped(lo, 7, p)
      BY <1>5, <2>1 DEF Named
    <2>5. \A v \in 0 .. 6 : v \in Meaning(f, p) <=>
              \/ lo <= v /\ (v - lo) % s = 0
              \/ v = 0 /\ (7 - lo) % s = 0
      <3>1. ASSUME NEW v \in 0 .. 6
            PROVE  v \in Meaning(f, p) <=>
                      v \in Stepped(lo, 7, p) \/ (v = 0 /\ 7 \in Stepped(lo, 7, p))
        BY <1>1, <2>4 DEF Meaning
      <3>2. \A v \in 0 .. 7 : v \in Stepped(lo, 7, p) <=> lo <= v /\ (v - lo) % s = 0
        BY <2>1 DEF Stepped
      <3>3. QED
        BY <2>1, <3>1, <3>2
    <2>6. Agree <=> \A v \in 0 .. 6 : CronPartMatches(f, p, v) <=> v \in Meaning(f, p)
      BY <1>1 DEF Agree
    <2>7. s \in Nat \ {0}
      BY <1>3
    <2> HIDE DEF lo, s, start, end
    <2>8. /\ s >= 7 => \A v \in 0 .. 6 : v % s = 0 <=> v = 0
          /\ s < 7 => s \in 1 .. 6 /\ s % s = 0
          /\ 0 % s = 0
      BY <2>7, StepsOfWeek
    <2>9. CASE IsSeven(p.hi) /\ IsSeven(p.lo)
      <3>1. \A v \in 0 .. 6 : CronPartMatches(f, p, v) <=> v = 0
        BY <2>2, <2>3, <2>8, <2>9
      <3>2. \A v \in 0 .. 6 : v \in Meaning(f, p) <=> v = 0
        BY <2>2, <2>5, <2>8, <2>9
      <3>3. QED
        BY <1>5, <2>6, <2>9, <3>1, <3>2 DEF Agree
    <2>10. CASE IsSeven(p.hi) /\ ~IsSeven(p.lo) /\ lo = 0
      <3>1. \A v \in 0 .. 6 : CronPartMatches(f, p, v) <=> v = 0
        BY <2>2, <2>3, <2>8, <2>10
      <3>2. \A v \in 0 .. 6 : v \in Meaning(f, p) <=> v % s = 0
        BY <2>5, <2>8, <2>10
      <3>3. Agree <=> s >= 7
        BY <2>6, <2>7, <2>8, <3>1, <3>2
      <3>4. QED
        BY <1>5, <2>10, <3>3 DEF Agree, lo, s
    <2>11. CASE IsSeven(p.hi) /\ ~IsSeven(p.lo) /\ lo # 0
      <3>1. \A v \in 0 .. 6 : ~CronPartMatches(f, p, v)
        BY <2>1, <2>2, <2>3, <2>11
      <3>2. \E v \in 0 .. 6 : v \in Meaning(f, p)
        <4>1. CASE lo = 7
          BY <2>5, <2>8, <4>1
        <4>2. CASE lo \in 1 .. 6
          BY <2>5, <2>8, <4>2
        <4>3. QED
          BY <2>1, <2>11, <4>1, <4>2
      <3>3. ~Agree
        BY <2>6, <3>1, <3>2
      <3>4. QED
        BY <1>5, <2>11, <3>3 DEF Agree, lo, s
    <2>12. CASE ~IsSeven(p.hi) /\ IsSeven(p.lo)
      <3>1. \A v \in 0 .. 6 : CronPartMatches(f, p, v) <=> v % s = 0
        BY <2>2, <2>3, <2>12
      <3>2. \A v \in 0 .. 6 : v \in Meaning(f, p) <=> v = 0
        BY <2>2, <2>5, <2>8, <2>12
      <3>3. Agree <=> s >= 7
        BY <2>6, <2>7, <2>8, <3>1, <3>2
      <3>4. QED
        BY <1>5, <2>12, <3>3 DEF Agree, s
    <2>13. CASE ~IsSeven(p.hi) /\ ~IsSeven(p.lo)
      <3>1. \A v \in 0 .. 6 : CronPartMatches(f, p, v) <=> lo <= v /\ (v - lo) % s = 0
        BY <2>1, <2>2, <2>3, <2>13
      <3>2. Agree <=> lo = 0 \/ (7 - lo) % s # 0
        <4>1. CASE lo = 0
          BY <2>5, <2>6, <2>8, <3>1, <4>1
        <4>2. CASE lo # 0
          <5>1. ~CronPartMatches(f, p, 0) /\ (0 \in Meaning(f, p) <=> (7 - lo) % s = 0)
            BY <2>1, <2>5, <3>1, <4>2
          <5>2. (7 - lo) % s # 0 => Agree
            BY <2>5, <2>6, <3>1
          <5>3. QED
            BY <2>6, <4>2, <5>1, <5>2
        <4>3. QED
          BY <4>1, <4>2
      <3>3. QED
        BY <1>5, <2>13, <3>2 DEF Agree, lo, s
    <2>14. QED
      BY <2>9, <2>10, <2>11, <2>12, <2>13
  <1>6. QED
    BY <1>4, <1>5 DEF SevenMisread

\* The daemon fires at exactly the values that the valid parts of a field name.
THEOREM FieldReadingsAgree == FieldSpec => []ReadingsAgree
  <1>1. FieldInv => ReadingsAgree
    <2> SUFFICES ASSUME FieldInv, Plain
                 PROVE  Matched = UNION {Meaning(field, p) :
                                    p \in {q \in parts : ValidatePart(field, q)}}
      BY DEF ReadingsAgree
    <2>1. ASSUME NEW p \in parts
          PROVE  field \in Fields /\ p \in Parts /\ ~SevenMisread(field, p)
      BY DEF FieldInv, Plain
    <2>2. ASSUME NEW p \in parts, ValidatePart(field, p)
          PROVE  /\ Meaning(field, p) \subseteq Values(field)
                 /\ \A v \in Values(field) :
                      CronPartMatches(field, p, v) <=> v \in Meaning(field, p)
      BY <2>1, <2>2, AcceptedPart, MeaningInField
    <2>3. ASSUME NEW p \in parts, NEW v \in Values(field), CronPartMatches(field, p, v)
          PROVE  ValidatePart(field, p)
      BY <2>1, <2>3, RejectedPart
    <2>4. QED
      BY <2>2, <2>3 DEF Matched, CronFieldMatches
  <1>2. QED
    BY <1>1, FieldInvariance, PTL

\* A field that is valid as a whole makes the daemon fire at what it names.
COROLLARY ValidFieldsMatch == FieldSpec => []ValidMeansMatched
  <1>1. ReadingsAgree => ValidMeansMatched
    <2> SUFFICES ASSUME ReadingsAgree, Plain, ValidateField(field, parts)
                 PROVE  Matched = UNION {Meaning(field, p) : p \in parts}
      BY DEF ValidMeansMatched
    <2>1. parts = {q \in parts : ValidatePart(field, q)}
      BY DEF ValidateField
    <2>2. QED
      BY <2>1 DEF ReadingsAgree
  <1>2. QED
    BY <1>1, FieldReadingsAgree, PTL
=============================================================================
