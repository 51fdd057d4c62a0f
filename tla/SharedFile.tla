----------------------------- MODULE SharedFile -----------------------------
(***************************************************************************)
(* What a JSON file that epics processes share promises, without its lock  *)
(* directory, its temporary files and its renames: a set to which every    *)
(* call adds its own value at one moment between its beginning and its     *)
(* end.  A call that succeeds has done so; one that ends with an error has *)
(* not; one that dies may have.  Where a file cannot be replaced at once   *)
(* it is rewritten in place, by one call at a time: meanwhile readers may  *)
(* find nothing, a rewriting cut short loses everything, and an error at   *)
(* its end leaves the change made.  LockedFileImplements shows that        *)
(* LockedFile keeps these promises.                                        *)
(***************************************************************************)
CONSTANTS Writers, Readers

VARIABLES status,   \* of each call, of writers and of readers
          value,    \* the writers whose value the file holds
          answer    \* what each reader was given

Init ==
    /\ status = [p \in Writers \cup Readers |-> "new"]
    /\ value = {}
    /\ answer = [r \in Readers |-> {}]

Move(p, from, to) == status[p] = from /\ status' = [status EXCEPT ![p] = to]
Rewritten         == \E w \in Writers : status[w] = "rewriting"

Call(p) == Move(p, "new", "called") /\ UNCHANGED <<value, answer>>

\* The one moment at which the file is replaced.
Apply(w) ==
    /\ status[w] = "called" /\ w \notin value /\ ~Rewritten
    /\ value' = value \cup {w}
    /\ UNCHANGED <<status, answer>>

Rewrite(w) ==
    /\ w \notin value /\ ~Rewritten
    /\ Move(w, "called", "rewriting")
    /\ UNCHANGED <<value, answer>>

Complete(w) ==
    /\ \E s \in {"called", "doubtful"} : Move(w, "rewriting", s)
    /\ value' = value \cup {w}
    /\ UNCHANGED answer

CutShort(w) ==
    /\ \E s \in {"called", "dead"} : Move(w, "rewriting", s)
    /\ value' = {}
    /\ UNCHANGED answer

Succeed(w) == w \in value /\ Move(w, "called", "done") /\ UNCHANGED <<value, answer>>

Fail(w) ==
    /\ (w \notin value /\ Move(w, "called", "failed")) \/ Move(w, "doubtful", "failed")
    /\ UNCHANGED <<value, answer>>

Die(w) ==
    /\ Move(w, "called", "dead") \/ Move(w, "doubtful", "dead")
    /\ UNCHANGED <<value, answer>>

Answer(r) ==
    /\ Move(r, "called", "done")
    /\ \E v \in {value} \cup (IF Rewritten THEN {{}} ELSE {}) :
           answer' = [answer EXCEPT ![r] = v]
    /\ UNCHANGED value

Write(w) ==
    \/ Apply(w) \/ Rewrite(w) \/ Complete(w) \/ CutShort(w)
    \/ Succeed(w) \/ Fail(w) \/ Die(w)
Next ==
    \/ \E p \in Writers \cup Readers : Call(p)
    \/ \E w \in Writers : Write(w)
    \/ \E r \in Readers : Answer(r)

Spec == Init /\ [][Next]_<<status, value, answer>>
=============================================================================
