------------------------ MODULE LockedFileImplements ------------------------
(* LockedFile implements SharedFile: the refinement mapping.               *)
EXTENDS LockedFile

Exposing == {w \in Writers : Exposed(w)}

\* A call that gives up with its change in the file copied all of it, and then
\* could not close the file.
statusOf(p) ==
    CASE pc[p] \in {"new"} \cup Ends             -> pc[p]
      [] p \in Exposing                           -> "rewriting"
      [] pc[p] = "giveup" /\ p \in file.content   -> "doubtful"
      [] OTHER                                    -> "called"

\* What a writer has taken from the path is still the value: it will put it back.
valueNow == file.content \cup UNION {seen[w] : w \in Exposing}

Shared == INSTANCE SharedFile WITH
    status <- [p \in Writers \cup Readers |-> statusOf(p)],
    value  <- valueNow,
    answer <- [r \in Readers |-> got[r].content]

\* Calls of Set and Get, or of SaveInstall and LoadInstalls, whatever their
\* interleaving, behave as if each changed or read the file at one moment; a call
\* that ends with an error has changed nothing, unless it had to rewrite the file
\* in place.
ImplementsSharedFile == Shared!Spec
=============================================================================
