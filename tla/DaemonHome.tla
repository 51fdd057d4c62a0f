----------------------------- MODULE DaemonHome -----------------------------
(* The processes of epicsd that are started over one home directory, one    *)
(* after another or at the same time, and what they share there: the admin  *)
(* socket's path, the webhook port and its address in config.json, and the  *)
(* records of workspaces.json. Nothing locks the home. A registration is    *)
(* named by the client call that asks for it. A save whose rename fails     *)
(* removes the file before it renames again (writeFileAtomically); Ensure   *)
(* writes the default address, or no records, where it finds no file.       *)
EXTENDS Naturals, FiniteSets

CONSTANTS
    Daemons,        \* processes: each starts once
    Calls,          \* calls of epics workspace register
    Ports,          \* what port 0 may become
    AnyPort,        \* port 0
    Nobody,         \* no process, no port, nothing at the path
    Other           \* something at the socket's path that is no socket

\* The names differ, and port 0 becomes something.
HomeTypes == /\ AnyPort \notin Ports /\ Nobody \notin Ports \cup Daemons
             /\ Other \notin Daemons \cup {Nobody} /\ Ports # {}

VARIABLES
    pc,             \* the position of each process in New, Run and shutdown
    asked,          \* the webhook address it loaded
    config,         \* the address in config.json; Nobody: there is no such file
    socket,         \* whose socket is at the path
    listener,       \* processes whose admin listener is open
    opened,         \* processes with an s.adminLn, open or closed
    port,           \* the process that holds each port
    memory,         \* s.workspaces of each process
    file,           \* the records of workspaces.json; none without the file
    call,           \* each call: position, and the process that has it
    removed,        \* history: records of a workspaces.json that a save removed
    past            \* history: what the properties ask of the past

records == <<file, removed>>
shared == <<config, socket, port, records>>
own == <<asked, listener, opened, memory>>
homeVars == <<pc, shared, own, call, past>>

Starting == {"new", "loaded", "recovered", "removed", "listening", "bound"}
Running == {"serving", "stopping", "draining"}
Alive(d) == pc[d] \in Starting \cup Running \cup {"closing"}
Others(d) == {e \in Daemons \ {d} : Alive(e)}

\* alone: processes that never met another one. served, faulty: those of them
\* that served, and whose start met a failing disk. disturbed: those that listen and
\* did while another process had come to startAdminServer. raced: a process has
\* loaded port 0 while another one was starting, or the default address was
\* written over a saved one. overlapped: registrations that were answered while
\* another process held records.
HomeInit ==
    /\ pc = [d \in Daemons |-> "off"]
    /\ asked = [d \in Daemons |-> Nobody]
    /\ config \in {AnyPort} \cup Ports
    /\ socket \in {Nobody, Other}
    /\ listener = {} /\ opened = {}
    /\ port = [p \in Ports |-> Nobody]
    /\ memory = [d \in Daemons |-> {}] /\ file = {} /\ removed = {}
    /\ call = [c \in Calls |-> [at |-> "new", to |-> Nobody]]
    /\ past = [served |-> {}, alone |-> Daemons, faulty |-> {}, disturbed |-> {},
               raced |-> FALSE, overlapped |-> {}]

Goto(d, from, to) == pc[d] = from /\ pc' = [pc EXCEPT ![d] = to]

-----------------------------------------------------------------------------
(* New and Run, up to the listeners *)

\* What Ensure leaves in config.json.
Address == IF config = Nobody THEN AnyPort ELSE config

StillAlone(d) == IF Others(d) = {} THEN Daemons ELSE Daemons \ (Others(d) \cup {d})

New(d) ==
    /\ Goto(d, "off", "new")
    /\ config' = Address
    /\ asked' = [asked EXCEPT ![d] = Address]
    /\ past' = [past EXCEPT
         !.alone = @ \cap StillAlone(d),
         !.served = @ \cap StillAlone(d), !.faulty = @ \cap StillAlone(d),
         !.raced = @ \/ /\ Address = AnyPort
                        /\ \E e \in Daemons : pc[e] \in Starting]
    /\ UNCHANGED <<socket, port, records, listener, opened, memory, call>>

LoadRecords(d) ==
    /\ Goto(d, "new", "loaded")
    /\ memory' = [memory EXCEPT ![d] = file]
    /\ UNCHANGED <<shared, asked, listener, opened, call, past>>

\* writeFileAtomically: the first rename replaces the file, or it fails. Then the
\* file is removed, and whoever reads it before the second rename finds no
\* records; an Ensure that found no file may write the empty list last.
SaveRecords(m) ==
    \/ file' = m /\ UNCHANGED removed
    \/ file' \in {m, {}} /\ removed' = removed \cup file \cup m

\* An error before the first rename, or of the second; also a process that ends
\* between the two.
RecordsFail ==
    \/ UNCHANGED records
    \/ file' = {} /\ removed' = removed \cup file

\* Every refresh saves all workspaces; without a workspace there is none.
SaveAll(d) == IF memory[d] = {} THEN UNCHANGED records ELSE SaveRecords(memory[d])
SaveAllFails(d) == IF memory[d] = {} THEN UNCHANGED records ELSE RecordsFail

RecoverState(d) ==
    /\ Goto(d, "loaded", "recovered")
    /\ SaveAll(d)
    /\ UNCHANGED <<config, socket, port, own, call, past>>

\* Reading or writing the home fails.
StartFails(d) ==
    /\ \/ Goto(d, "new", "closing") /\ UNCHANGED records
       \/ Goto(d, "loaded", "closing") /\ SaveAllFails(d)
    /\ past' = [past EXCEPT !.faulty = @ \cup ({d} \cap past.alone)]
    /\ UNCHANGED <<config, socket, port, own, call>>

\* Mutant: the socket of a process that crashed is left to the listen call.
RemoveNothing(d) ==
    /\ socket # Other
    /\ Goto(d, "recovered", "removed")
    /\ past' = [past EXCEPT !.disturbed = @ \cup listener]
    /\ UNCHANGED <<shared, own, call>>

RemoveStaleSocket(d) ==
    /\ socket # Other
    /\ Goto(d, "recovered", "removed")
    /\ socket' = Nobody
    /\ past' = [past EXCEPT !.disturbed = @ \cup listener]
    /\ UNCHANGED <<config, port, records, own, call>>

SocketIsOther(d) ==
    /\ socket = Other
    /\ Goto(d, "recovered", "closing")
    /\ UNCHANGED <<shared, own, call, past>>

Past == {"removed", "listening", "bound", "closing"} \cup Running

Listen(d) ==
    /\ socket = Nobody
    /\ Goto(d, "removed", "listening")
    /\ socket' = d
    /\ listener' = listener \cup {d} /\ opened' = opened \cup {d}
    /\ past' = [past EXCEPT
         !.disturbed = IF \E e \in Daemons \ {d} : pc[e] \in Past THEN @ \cup listener \cup {d} ELSE @]
    /\ UNCHANGED <<config, port, records, asked, memory, call>>

\* Another socket is there again, or os.Chmod fails and the listener, closed
\* again, takes its socket away; s.adminLn stays empty.
ListenFails(d) ==
    /\ Goto(d, "removed", "closing")
    /\ \/ socket # Nobody /\ UNCHANGED past
       \/ socket = Nobody /\ past' = [past EXCEPT !.faulty = @ \cup ({d} \cap past.alone)]
    /\ UNCHANGED <<shared, own, call>>

\* The ports that net.Listen may take.
Free(d) == {p \in Ports : port[p] = Nobody /\ asked[d] \in {p, AnyPort}}

BindHTTP(d) ==
    /\ Goto(d, "listening", "bound")
    /\ \E p \in Free(d) : port' = [port EXCEPT ![p] = d] /\ asked' = [asked EXCEPT ![d] = p]
    /\ UNCHANGED <<config, socket, records, listener, opened, memory, call, past>>

\* The first rename of SaveConfig fails, and the file is removed.
RemoveConfig(d) ==
    /\ pc[d] = "bound"
    /\ config' = Nobody
    /\ UNCHANGED <<pc, socket, port, records, own, call, past>>

\* Mutant: the address is not saved.
SaveNoConfig(d) ==
    /\ Goto(d, "bound", "serving")
    /\ past' = [past EXCEPT !.served = @ \cup ({d} \cap past.alone)]
    /\ UNCHANGED <<shared, own, call>>

\* An Ensure that found no file may write the default last.
SaveConfig(d) ==
    /\ Goto(d, "bound", "serving")
    /\ config' = asked[d] \/ (config = Nobody /\ config' = AnyPort)
    /\ past' = [past EXCEPT !.served = @ \cup ({d} \cap past.alone),
                            !.raced = @ \/ config' = AnyPort]
    /\ UNCHANGED <<socket, port, records, own, call>>

\* A closed listener unlinks its path, whoever's socket is there now.
Unlinked == IF socket = Other THEN Other ELSE Nobody
CloseListener(d) == socket' = Unlinked /\ listener' = listener \ {d}
Undisturbed(d) == [past EXCEPT !.disturbed = @ \ {d}]

WithoutPort(d) == [p \in Ports |-> IF port[p] = d THEN Nobody ELSE port[p]]

\* The port is taken.
StartHTTPFails(d) ==
    /\ Goto(d, "listening", "closing")
    /\ Free(d) = {}
    /\ CloseListener(d)
    /\ past' = Undisturbed(d)
    /\ UNCHANGED <<config, port, records, asked, opened, memory, call>>

\* The address cannot be saved; config.json stays, or is gone by now.
SaveConfigFails(d) ==
    /\ Goto(d, "bound", "closing")
    /\ port' = WithoutPort(d)
    /\ CloseListener(d)
    /\ past' = [Undisturbed(d) EXCEPT !.faulty = @ \cup ({d} \cap past.alone)]
    /\ UNCHANGED <<config, records, asked, opened, memory, call>>

-----------------------------------------------------------------------------
(* shutdown, the end of Run, a crash *)

CloseAdmin(d) ==
    /\ Goto(d, "serving", "stopping")
    /\ CloseListener(d)
    /\ past' = Undisturbed(d)
    /\ UNCHANGED <<config, port, records, asked, opened, memory, call>>

CloseHTTP(d) ==
    /\ Goto(d, "stopping", "draining")
    /\ port' = WithoutPort(d)
    /\ UNCHANGED <<config, socket, records, own, call, past>>

\* The runs have ended, or the time is over.
Drained(d) ==
    /\ Goto(d, "draining", "closing")
    /\ UNCHANGED <<shared, own, call, past>>

\* The end of the process closes its connections, and its memory is gone.
Over(how) == [at |-> how, to |-> Nobody]
Hung(d) == [c \in Calls |->
    IF call[c].to = d /\ call[c].at \in {"sent", "admitted"} THEN Over("failed") ELSE call[c]]
Gone(d) ==
    /\ asked' = [asked EXCEPT ![d] = Nobody] /\ memory' = [memory EXCEPT ![d] = {}]
    /\ listener' = listener \ {d} /\ opened' = opened \ {d}
    /\ call' = Hung(d)

\* Mutant: the path is removed whether or not the process has listened.
CloseLoggerAlways(d) ==
    /\ Goto(d, "closing", "ended")
    /\ socket' = Unlinked
    /\ Gone(d)
    /\ UNCHANGED <<config, port, records, past>>

\* closeLogger removes the path once more.
CloseLogger(d) ==
    /\ Goto(d, "closing", "ended")
    /\ socket' = IF d \in opened THEN Unlinked ELSE socket
    /\ Gone(d)
    /\ UNCHANGED <<config, port, records, past>>

\* The socket stays at its path. A save may be cut short.
CrashProcess(d) ==
    /\ Alive(d)
    /\ pc' = [pc EXCEPT ![d] = "crashed"]
    /\ port' = WithoutPort(d)
    /\ Gone(d)
    /\ \/ UNCHANGED records
       \/ pc[d] \in {"loaded"} \cup Running /\ SaveAllFails(d)
    /\ past' = Undisturbed(d)
    /\ UNCHANGED <<config, socket>>

-----------------------------------------------------------------------------
(* Calls *)

Dial(c) ==
    /\ call[c].at = "new"
    /\ call' = [call EXCEPT ![c] =
         IF socket \in listener THEN [at |-> "sent", to |-> socket] ELSE Over("failed")]
    /\ UNCHANGED <<pc, shared, own, past>>

\* handleRequest: isShuttingDown comes before the registration. Only a process
\* that serves accepts connections.
Admit(c) ==
    /\ call[c].at = "sent" /\ pc[call[c].to] = "serving"
    /\ call' = [call EXCEPT ![c].at = "admitted"]
    /\ UNCHANGED <<pc, shared, own, past>>

\* A connection that was accepted meets the gate; one that was not is reset
\* with the listener.
Refuse(c) ==
    /\ call[c].at = "sent" /\ pc[call[c].to] \in {"stopping", "draining", "closing"}
    /\ call' = [call EXCEPT ![c] = Over("failed")]
    /\ UNCHANGED <<pc, shared, own, past>>

\* Mutant: the records are saved before the new one is among them.
RegisterAfterSave(c) ==
    LET d == call[c].to
    IN  /\ call[c].at = "admitted"
        /\ memory' = [memory EXCEPT ![d] = @ \cup {c}]
        /\ SaveRecords(memory[d])
        /\ call' = [call EXCEPT ![c] = Over("answered")]
        /\ past' = [past EXCEPT !.overlapped =
             IF \E e \in Daemons \ {d} : Alive(e) /\ pc[e] # "new" THEN @ \cup {c} ELSE @]
        /\ UNCHANGED <<pc, config, socket, port, asked, listener, opened>>

RegisterWorkspace(c) ==
    LET d == call[c].to
    IN  /\ call[c].at = "admitted"
        /\ memory' = [memory EXCEPT ![d] = @ \cup {c}]
        /\ SaveRecords(memory[d] \cup {c})
        /\ call' = [call EXCEPT ![c] = Over("answered")]
        /\ past' = [past EXCEPT !.overlapped =
             IF \E e \in Daemons \ {d} : Alive(e) /\ pc[e] # "new" THEN @ \cup {c} ELSE @]
        /\ UNCHANGED <<pc, config, socket, port, asked, listener, opened>>

\* The caller gets an error, the memory keeps the record.
RegistrationFails(c) ==
    /\ call[c].at = "admitted"
    /\ memory' = [memory EXCEPT ![call[c].to] = @ \cup {c}]
    /\ RecordsFail
    /\ call' = [call EXCEPT ![c] = Over("failed")]
    /\ UNCHANGED <<pc, config, socket, port, asked, listener, opened, past>>

\* A webhook, the scheduler or an executor refreshes a workspace and saves all.
RefreshWorkspace(d) ==
    /\ pc[d] \in Running
    /\ SaveAll(d) \/ SaveAllFails(d)
    /\ UNCHANGED <<pc, config, socket, port, own, call, past>>

Start(d) == New(d) \/ LoadRecords(d) \/ RecoverState(d) \/ RemoveStaleSocket(d) \/ Listen(d)
            \/ BindHTTP(d) \/ RemoveConfig(d) \/ SaveConfig(d)
Fails(d) == StartFails(d) \/ SocketIsOther(d) \/ ListenFails(d) \/ StartHTTPFails(d)
            \/ SaveConfigFails(d)
Ends(d) == CloseAdmin(d) \/ CloseHTTP(d) \/ Drained(d) \/ CloseLogger(d) \/ CrashProcess(d)
HomeNext ==
    \/ \E d \in Daemons : Start(d) \/ Fails(d) \/ Ends(d) \/ RefreshWorkspace(d)
    \/ \E c \in Calls : Dial(c) \/ Admit(c) \/ Refuse(c) \/ RegisterWorkspace(c) \/ RegistrationFails(c)

HomeSpec == HomeInit /\ [][HomeNext]_homeVars

-----------------------------------------------------------------------------
(* Properties *)

HomeTypeOK ==
    /\ pc \in [Daemons -> {"off", "closing", "ended", "crashed"} \cup Starting \cup Running]
    /\ asked \in [Daemons -> Ports \cup {AnyPort, Nobody}] /\ config \in Ports \cup {AnyPort, Nobody}
    /\ socket \in Daemons \cup {Nobody, Other}
    /\ listener \subseteq opened /\ opened \subseteq Daemons
    /\ port \in [Ports -> Daemons \cup {Nobody}]
    /\ memory \in [Daemons -> SUBSET Calls] /\ file \in SUBSET Calls /\ removed \in SUBSET Calls
    /\ call \in [Calls -> [at : {"new", "sent", "admitted", "answered", "failed"},
                           to : Daemons \cup {Nobody}]]
    /\ \A c \in Calls : call[c].at \in {"sent", "admitted"} => call[c].to \in Daemons
    /\ past \in [served : SUBSET Daemons, alone : SUBSET Daemons, faulty : SUBSET Daemons,
                    disturbed : SUBSET Daemons, raced : BOOLEAN, overlapped : SUBSET Calls]

Serving == {d \in Daemons : pc[d] = "serving"}

\* One shared daemon: two processes never serve at the same time, although
\* nothing locks the home, because the second cannot have the port; with port
\* 0 that holds because the first has saved the port it got, unless another
\* process loaded port 0 while one was starting: none had saved yet, or a failed
\* save had removed config.json and Ensure wrote the default address; or unless
\* an Ensure wrote that after the save (startHTTPServer, SaveConfig).
OneServes == past.raced \/ Cardinality(Serving) <= 1

\* The socket at the path is that of the process that serves, unless another
\* one has come as far as startAdminServer while it listened: such a process
\* removes the socket when it starts, when it fails and when it ends.
ServingIsReachable ==
    \A d \in Serving \ past.disturbed : socket = d /\ d \in listener

\* A start fails only over the disk, over something at the path that is not a
\* socket, or over another epicsd; the socket and the port of processes of it
\* that ended or crashed before are no obstacle (removeStaleSocket). What else
\* stops a start is outside the model: a foreign program at the port, a binary
\* that New does not find.
LoneStartServes ==
    \A d \in past.alone :
        (pc[d] \in {"closing", "ended"} /\ d \notin past.served)
            => d \in past.faulty \/ socket = Other

\* A registration that was answered stays in workspaces.json through any
\* sequence of ends, crashes and starts, failed ones too, with two exceptions:
\* another process had loaded the records before it was answered and writes its
\* own over them, or a save whose first rename failed removed the file that held
\* it or was to hold it (loadRecords, recoverState, saveWorkspaces).
RegistrationsSaved ==
    \A c \in Calls : call[c].at = "answered" =>
        c \in file \/ c \in past.overlapped \/ c \in removed
=============================================================================
