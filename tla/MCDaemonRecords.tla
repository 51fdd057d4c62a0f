--------------------------- MODULE MCDaemonRecords ---------------------------
(* Small instances of the four parts of DaemonRecords, one at a time.       *)
EXTENDS DaemonRecords, TLC

CONSTANTS r1, r2, r3, r4
VARIABLE part

\* The first two runs were queued on one day, the others on the next.
MCDay == (r1 :> 1) @@ (r2 :> 1) @@ (r3 :> 2) @@ (r4 :> 2)
MCFinishedAt == (r1 :> 3) @@ (r2 :> 1) @@ (r3 :> 2) @@ (r4 :> 2)

ASSUME A!AdapterTypes /\ L!LedgerTypes /\ HomeTypes

Symmetry == Permutations(Daemons) \cup Permutations(Ports)

adapterVars == <<route, upsert, binaries, isDir, event>>
ledgerVars == <<runFile, days, tried, appended, damaged, reader>>

MCInit ==
    /\ part \in {"registry", "adapters", "ledger", "home"}
    /\ Init /\ A!Init /\ L!Init /\ HomeInit
    /\ part # "adapters" => binaries = {} /\ ~isDir
    /\ part # "home" => config = AnyPort /\ socket = Nobody
    /\ socket = Other => config = AnyPort

MCNext ==
    \/ part = "registry" /\ Next /\ UNCHANGED <<part, adapterVars, ledgerVars, homeVars>>
    \/ part = "adapters" /\ A!Next /\ UNCHANGED <<part, vars, ledgerVars, homeVars>>
    \/ part = "ledger" /\ L!Next /\ UNCHANGED <<part, vars, adapterVars, homeVars>>
    \/ part = "home" /\ HomeNext /\ UNCHANGED <<part, vars, adapterVars, ledgerVars>>

MCSpec == MCInit /\ [][MCNext]_<<part, vars, adapterVars, ledgerVars, homeVars>>
=============================================================================
