----------------------------- MODULE CronFields -----------------------------
(***************************************************************************)
(* One field of a cron expression, as two packages read it: epics cron     *)
(* validate (internal/cron/cron.go) says whether it is well formed, epicsd *)
(* (internal/daemon/cronexpr.go) whether a value of the time matches it.   *)
(* Each has a parser of its own.  A field is a list of parts, and since    *)
(* both quantify over the list, a set of them.                             *)
(*                                                                         *)
(* A token is a name or a number.  A name stands for its number, which     *)
(* both packages agree on; a number is plain, or written with zeros or a   *)
(* sign in front, which Atoi reads and a table of names does not hold: the *)
(* daemon's table of days holds the text "7".  All text that is no part,   *)
(* such as a range with two dashes, is one part, and so are all steps that *)
(* are no positive numbers: BadStep.                                       *)
(***************************************************************************)
EXTENDS Integers, FiniteSets

CONSTANTS
    Fields,     \* records: min and max of the syntax, top of the time, days
    Tokens,     \* tokens that occur in a part: their number, and if it is plain
    Steps,      \* positive steps
    MaxParts    \* bound on the parts of a field

NoStep  == -1
BadStep == 0

ASSUME FieldTypes ==
    \A f \in Fields :
        /\ f.min \in Nat /\ f.max \in Nat /\ f.top \in Nat
        /\ f.top <= f.max /\ f.days \in BOOLEAN
        /\ f.days => f.min = 0 /\ f.max = 7 /\ f.top = 6
        /\ ~f.days => f.top = f.max
ASSUME TokenTypes == Tokens \subseteq [number : Nat, plain : BOOLEAN] /\ Steps \subseteq Nat \ {0}

NoToken == [number |-> 0, plain |-> TRUE]
StepTexts == Steps \cup {NoStep, BadStep}
Parts == [base : {"star", "malformed"}, lo : {NoToken}, hi : {NoToken}, step : StepTexts]
         \cup [base : {"value"}, lo : Tokens, hi : {NoToken}, step : StepTexts]
         \cup [base : {"range"}, lo : Tokens, hi : Tokens, step : StepTexts]

Values(f) == f.min .. f.top     \* of a time

-----------------------------------------------------------------------------
(* The validator *)

ValidatePart(f, p) ==
    /\ p.step # BadStep
    /\ p.base # "malformed"
    /\ p.base = "value" => p.lo.number \in f.min .. f.max
    /\ p.base = "range" => /\ {p.lo.number, p.hi.number} \subseteq f.min .. f.max
                           /\ p.lo.number <= p.hi.number

ValidateField(f, parts) == \A p \in parts : ValidatePart(f, p)

-----------------------------------------------------------------------------
(* The matcher *)

IsSeven(token) == token.number = 7 /\ token.plain

\* parseCronValue, whose table of days has a name "7" for Sunday
ParseCronValue(f, token) == IF f.days /\ IsSeven(token) THEN 0 ELSE token.number

Step(p) == IF p.step = NoStep THEN 1 ELSE p.step

\* Mutant: steps are counted from zero, not from the start of the field.
OnStepFromZero(v, start, p) == v % Step(p) = 0

OnStep(v, start, p) == (v - start) % Step(p) = 0

\* Mutant: the bounds of a range are taken as they are.
RangeUnchecked(f, start, end) == start <= end

RangeChecked(f, start, end) == f.min <= start /\ end <= f.max /\ start <= end

CronPartMatches(f, p, v) ==
    /\ p.step # BadStep
    /\ \/ p.base = "star" /\ OnStep(v, f.min, p)
       \/ /\ p.base = "range"
          /\ LET start == ParseCronValue(f, p.lo)
                 end   == ParseCronValue(f, p.hi)
             IN RangeChecked(f, start, end) /\ v \in start .. end /\ OnStep(v, start, p)
       \/ /\ p.base = "value"
          /\ ParseCronValue(f, p.lo) \in f.min .. f.max
          /\ v = ParseCronValue(f, p.lo)

CronFieldMatches(f, parts, v) == \E p \in parts : CronPartMatches(f, p, v)

-----------------------------------------------------------------------------
(* What a part means: the values it names, with Sunday as 0 and as 7. *)

Stepped(lo, hi, p) == {v \in lo .. hi : (v - lo) % Step(p) = 0}
Named(f, p) ==
    CASE p.base = "star"  -> Stepped(f.min, f.top, p)
      [] p.base = "value" -> {p.lo.number}
      [] p.base = "range" -> Stepped(p.lo.number, p.hi.number, p)
Meaning(f, p) == {IF f.days /\ v = 7 THEN 0 ELSE v : v \in Named(f, p)}

\* The table of names puts a 7 at the wrong end of a range, and leaves a 7 that
\* is not plain, which is no day of the week.
SevenMisread(f, p) ==
    /\ f.days
    /\ \/ p.base = "range" /\ 7 \in {p.lo.number, p.hi.number}
       \/ p.base = "value" /\ p.lo.number = 7 /\ ~p.lo.plain

-----------------------------------------------------------------------------
VARIABLES field, parts
fieldVars == <<field, parts>>

FieldInit == field \in Fields /\ parts = {}

AddPart(p) ==
    /\ Cardinality(parts) < MaxParts
    /\ parts' = parts \cup {p}
    /\ UNCHANGED field

Clear == parts # {} /\ parts' = {} /\ UNCHANGED field

FieldNext == Clear \/ \E p \in Parts : AddPart(p)

FieldSpec == FieldInit /\ [][FieldNext]_fieldVars

-----------------------------------------------------------------------------
(* Properties *)

Matched == {v \in Values(field) : CronFieldMatches(field, parts, v)}
Plain   == \A p \in parts : ~SevenMisread(field, p)

\* epicsd fires at exactly the values that the valid parts of a field name:
\* what the validator accepts is read as it is meant, what it rejects never
\* fires.  Days written with a 7 are the exception: ranges that begin or end with
\* it (cronPartMatches reads 5-7 as 5-0, which is empty, and 0-7 as Sunday only),
\* and a 7 that is not plain, such as 07, which is valid and never fires.
ReadingsAgree ==
    Plain => Matched = UNION {Meaning(field, p) : p \in {q \in parts : ValidatePart(field, q)}}

\* A field that epics cron validate accepts fires at the values it names, days
\* written with a 7 as above.
ValidMeansMatched ==
    (Plain /\ ValidateField(field, parts)) =>
        Matched = UNION {Meaning(field, p) : p \in parts}
=============================================================================
