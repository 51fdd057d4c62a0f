------------------------------- MODULE MCFiles -------------------------------
(* Small instances of the four parts of CommandFiles, one at a time.         *)
EXTENDS CommandFiles, Naturals, TLC

VARIABLE part

\* Of the author's own: a plan whose number is the last that fits, notes.md, a
\* plan whose number is not padded, and a text in the other layout.
MCByHand ==
    {[runtime |-> TRUE, no |-> Base ^ Width - 1, digits |-> Width, slug |-> 1, md |-> TRUE],
     [runtime |-> TRUE, no |-> 0, digits |-> 0, slug |-> 2, md |-> TRUE],
     [runtime |-> TRUE, no |-> 1, digits |-> 1, slug |-> 1, md |-> TRUE],
     [runtime |-> FALSE, no |-> 1, digits |-> Width, slug |-> 1, md |-> FALSE]}

ASSUME D!DirectoryTypes

Symmetry == Permutations(Installers) \cup Permutations(Creators) \cup Permutations(Setups)

packageVars == <<skill, spec, legacy, todo, was, last>>
directoryVars == <<runtime, plans, place, number, path, after, disturbed, logs, clock, reordered>>
setupVars == <<command, guide, step, left, current, held, words, theirs, overlap, cut>>

MCInit ==
    /\ part \in {"install", "package", "plans", "logs", "setup"}
    /\ Init /\ (part # "install" => dest = Old)
    /\ P!Init /\ (part # "package" => skill = P!NoFile /\ spec = "none" /\ ~legacy)
    /\ D!Init /\ runtime
    /\ H!Init /\ (part # "setup" => guide = {} /\ \A f \in Commands : command[f] = "absent")

\* Bound: no more than two installs run at the same time.
TwoAtOnce == Cardinality({i \in Installers : Active(i)}) <= 2

MCNext ==
    \/ part = "install" /\ Next /\ TwoAtOnce'
                        /\ UNCHANGED <<part, packageVars, directoryVars, setupVars>>
    \/ part = "package" /\ P!Next /\ UNCHANGED <<part, vars, directoryVars, setupVars>>
    \/ part = "plans" /\ (D!Author \/ \E c \in Creators : D!Create(c))
                      /\ UNCHANGED <<part, vars, packageVars, setupVars>>
    \/ part = "logs" /\ (\E n \in D!LogNames : D!CreateLog(n) \/ D!TouchLog(n))
                     /\ UNCHANGED <<part, vars, packageVars, setupVars>>
    \/ part = "setup" /\ H!Next /\ UNCHANGED <<part, vars, packageVars, directoryVars>>

allVars == <<part, vars, packageVars, directoryVars, setupVars>>
MCSpec == MCInit /\ [][MCNext]_allVars

=============================================================================
