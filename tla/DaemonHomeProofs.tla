--------------------------- MODULE DaemonHomeProofs ---------------------------
(* Theorems about DaemonHome, for any processes, calls and ports.            *)
EXTENDS DaemonHome, FiniteSetTheorems, TLAPS

-----------------------------------------------------------------------------
(* Types *)

LEMMA TypeInit == HomeInit => HomeTypeOK
  BY DEF HomeInit, HomeTypeOK, Starting, Running

LEMMA TypeNext == HomeTypes /\ HomeTypeOK /\ [HomeNext]_homeVars => HomeTypeOK'
  <1> SUFFICES ASSUME HomeTypes, HomeTypeOK, [HomeNext]_homeVars PROVE HomeTypeOK'
    OBVIOUS
  <1> USE DEF HomeTypes, HomeTypeOK, Goto, Starting, Running, shared, records, own
  <1>1. ASSUME NEW x \in Daemons, New(x) PROVE HomeTypeOK'
    BY <1>1 DEF New, Address, StillAlone, Others, Alive
  <1>2. ASSUME NEW x \in Daemons, LoadRecords(x) PROVE HomeTypeOK'
    BY <1>2 DEF LoadRecords
  <1>3. ASSUME NEW x \in Daemons, RecoverState(x) PROVE HomeTypeOK'
    BY <1>3 DEF RecoverState, SaveAll, SaveRecords
  <1>4. ASSUME NEW x \in Daemons, StartFails(x) PROVE HomeTypeOK'
    BY <1>4 DEF StartFails, SaveAllFails, RecordsFail
  <1>5. ASSUME NEW x \in Daemons, RemoveStaleSocket(x) PROVE HomeTypeOK'
    BY <1>5 DEF RemoveStaleSocket
  <1>6. ASSUME NEW x \in Daemons, SocketIsOther(x) PROVE HomeTypeOK'
    BY <1>6 DEF SocketIsOther
  <1>7. ASSUME NEW x \in Daemons, Listen(x) PROVE HomeTypeOK'
    BY <1>7 DEF Listen
  <1>8. ASSUME NEW x \in Daemons, ListenFails(x) PROVE HomeTypeOK'
    BY <1>8 DEF ListenFails
  <1>9. ASSUME NEW x \in Daemons, BindHTTP(x) PROVE HomeTypeOK'
    BY <1>9 DEF BindHTTP, Free
  <1>9a. ASSUME NEW x \in Daemons, RemoveConfig(x) PROVE HomeTypeOK'
    BY <1>9a DEF RemoveConfig
  <1>9b. ASSUME NEW x \in Daemons, SaveConfig(x) PROVE HomeTypeOK'
    <2>1. past.raced \in BOOLEAN /\ past.served \cup ({x} \cap past.alone) \in SUBSET Daemons
      OBVIOUS
    <2>2. (past.raced \/ config' = AnyPort) \in BOOLEAN
      BY <2>1, Zenon
    <2> DEFINE raced == past.raced \/ config' = AnyPort
               served == past.served \cup ({x} \cap past.alone)
    <2>3. past' = [past EXCEPT !.served = served, !.raced = raced]
      BY <1>9b DEF SaveConfig
    <2>4. raced \in BOOLEAN /\ served \in SUBSET Daemons
      BY <2>1, <2>2
    <2> HIDE DEF raced, served
    <2>5. past' \in [served : SUBSET Daemons, alone : SUBSET Daemons, faulty : SUBSET Daemons,
                    disturbed : SUBSET Daemons, raced : BOOLEAN, overlapped : SUBSET Calls]
      BY <2>3, <2>4
    <2>6. QED
      BY <1>9b, <2>5 DEF SaveConfig
  <1>10. ASSUME NEW x \in Daemons, StartHTTPFails(x) PROVE HomeTypeOK'
    BY <1>10 DEF StartHTTPFails, CloseListener, Undisturbed, Unlinked
  <1>10a. ASSUME NEW x \in Daemons, SaveConfigFails(x) PROVE HomeTypeOK'
    BY <1>10a DEF SaveConfigFails, WithoutPort, CloseListener, Undisturbed, Unlinked
  <1>11. ASSUME NEW x \in Daemons, CloseAdmin(x) PROVE HomeTypeOK'
    BY <1>11 DEF CloseAdmin, CloseListener, Undisturbed, Unlinked
  <1>12. ASSUME NEW x \in Daemons, CloseHTTP(x) PROVE HomeTypeOK'
    BY <1>12 DEF CloseHTTP, WithoutPort
  <1>13. ASSUME NEW x \in Daemons, Drained(x) PROVE HomeTypeOK'
    BY <1>13 DEF Drained
  <1>14. ASSUME NEW x \in Daemons, CloseLogger(x) PROVE HomeTypeOK'
    BY <1>14 DEF CloseLogger, Unlinked, Gone, Hung, Over
  <1>15. ASSUME NEW x \in Daemons, CrashProcess(x) PROVE HomeTypeOK'
    BY <1>15 DEF CrashProcess, Undisturbed, SaveAllFails, RecordsFail, Gone, Hung, Over, WithoutPort, Alive
  <1>16. ASSUME NEW x \in Daemons, RefreshWorkspace(x) PROVE HomeTypeOK'
    BY <1>16 DEF RefreshWorkspace, SaveAll, SaveAllFails, SaveRecords, RecordsFail
  <1>17. ASSUME NEW c \in Calls, Dial(c) PROVE HomeTypeOK'
    BY <1>17 DEF Dial, Over
  <1>18. ASSUME NEW c \in Calls, Admit(c) PROVE HomeTypeOK'
    BY <1>18 DEF Admit
  <1>19. ASSUME NEW c \in Calls, Refuse(c) PROVE HomeTypeOK'
    BY <1>19 DEF Refuse, Over
  <1>20. ASSUME NEW c \in Calls, RegisterWorkspace(c) PROVE HomeTypeOK'
    BY <1>20 DEF RegisterWorkspace, SaveRecords, Over
  <1>20a. ASSUME NEW c \in Calls, RegistrationFails(c) PROVE HomeTypeOK'
    BY <1>20a DEF RegistrationFails, RecordsFail, Over
  <1>21. CASE UNCHANGED homeVars
    BY <1>21 DEF homeVars
  <1>22. QED
    BY <1>1, <1>2, <1>3, <1>4, <1>5, <1>6, <1>7, <1>8, <1>9, <1>9a, <1>9b,
       <1>10, <1>10a, <1>11, <1>12, <1>13, <1>14, <1>15, <1>16, <1>17,
       <1>18, <1>19, <1>20, <1>20a, <1>21
       DEF HomeNext, Start, Fails, Ends

\* The constants are not primed by a step; their assumption goes along with
\* the invariants so that PTL sees it in every state.
TypeInv == HomeTypes /\ HomeTypeOK

LEMMA TypeInvariance == HomeTypes /\ HomeSpec => []TypeInv
  <1>1. HomeTypes /\ HomeInit => TypeInv
    BY TypeInit DEF TypeInv
  <1>2. TypeInv /\ [HomeNext]_homeVars => TypeInv'
    BY TypeNext DEF TypeInv, HomeTypes
  <1>3. QED
    BY <1>1, <1>2, PTL DEF HomeSpec

\* Every variable keeps its type, and who was called is a process.
THEOREM TypeCorrect == HomeTypes /\ HomeSpec => []HomeTypeOK
  <1>1. TypeInv => HomeTypeOK
    BY DEF TypeInv
  <1>2. QED
    BY <1>1, TypeInvariance, PTL

-----------------------------------------------------------------------------
(* One process serves.  All processes that have yet to take a port ask for   *)
(* the same one, which is the saved one and the only one taken; port 0 is    *)
(* asked for by a process that starts alone, before any has a port.          *)

HasPort(d) == pc[d] \in {"bound", "serving", "stopping"}
Asks(d) == pc[d] \in Starting \ {"bound"}
Taken(p) == port[p] # Nobody

PortsHeld ==
    /\ \A p \in Ports : Taken(p) => HasPort(port[p]) /\ asked[port[p]] = p
    /\ \A d \in Daemons : HasPort(d) => \E p \in Ports : port[p] = d
    /\ \A d \in Daemons : Asks(d) => asked[d] \in Ports \cup {AnyPort}

OneAddress ==
    /\ \A d, e \in Daemons : Asks(d) /\ Asks(e) => asked[d] = asked[e]
    /\ \A d, e \in Daemons : Asks(d) /\ asked[d] = AnyPort /\ pc[e] \in Starting => d = e
    /\ \A d \in Daemons : \A p \in Ports : Asks(d) /\ Taken(p) => asked[d] = p
    /\ \A p, q \in Ports : Taken(p) /\ Taken(q) => p = q

SavedAddress ==
    /\ config \in Ports =>
         /\ \A d \in Daemons : Asks(d) => asked[d] = config
         /\ \A p \in Ports : Taken(p) => p = config
    /\ \A d \in Daemons : pc[d] \in {"serving", "stopping"} => config \in Ports

PortInv == PortsHeld /\ (past.raced \/ (OneAddress /\ SavedAddress))

LEMMA PortInit == HomeTypes /\ HomeInit => PortInv
  BY DEF HomeTypes, HomeInit, PortInv, PortsHeld, OneAddress, SavedAddress, HasPort, Asks, Taken, Starting

LEMMA PortNext == TypeInv /\ PortInv /\ [HomeNext]_homeVars => PortInv'
  <1> SUFFICES ASSUME TypeInv, PortInv, [HomeNext]_homeVars PROVE PortInv'
    OBVIOUS
  <1> USE DEF TypeInv, HomeTypes, HomeTypeOK, PortInv, PortsHeld, OneAddress, SavedAddress, HasPort, Asks, Taken, Goto,
          Starting, Running, shared, records, own
  <1>1. ASSUME NEW x \in Daemons, New(x) PROVE PortInv'
    <2>1. /\ pc' = [pc EXCEPT ![x] = "new"] /\ asked' = [asked EXCEPT ![x] = Address]
          /\ pc[x] = "off" /\ config' = Address /\ UNCHANGED port
      BY <1>1 DEF New
    <2>2. Address \in Ports \cup {AnyPort} /\ (Address \in Ports => config = Address)
            /\ (config \in Ports => Address = config)
      BY DEF Address
    <2>3. PortsHeld'
      BY <2>1, <2>2
    <2>4. past'.raced = (past.raced \/ (Address = AnyPort /\ \E e \in Daemons : pc[e] \in Starting))
      BY <1>1 DEF New
    <2>5. CASE ~past'.raced /\ Address = AnyPort
      <3>0. config \notin Ports
        BY <2>2, <2>5
      <3>1. ~past.raced /\ \A e \in Daemons : pc[e] \notin Starting
        <4>1. past'.raced <=> (past.raced \/ (Address = AnyPort /\ \E e \in Daemons : pc[e] \in Starting))
          BY <2>4, Zenon
        <4>2. QED
          BY <2>5, <4>1
      <3>2. \A e \in Daemons : ~HasPort(e)
        BY <3>0, <3>1
      <3>3. \A p \in Ports : port[p] = Nobody
        BY <3>2
      <3>4. \A e \in Daemons : pc'[e] \in Starting => e = x
        BY <2>1, <3>1
      <3>5. \A e \in Daemons : pc'[e] \notin {"serving", "stopping"}
        BY <2>1, <3>2
      <3>6. OneAddress'
        BY <2>1, <3>3, <3>4
      <3>7. SavedAddress'
        BY <2>1, <2>5, <3>5
      <3>8. QED
        BY <2>3, <3>6, <3>7
    <2>6. CASE ~past'.raced /\ Address \in Ports
      <3>1. ~past.raced /\ config = Address /\ config \in Ports /\ config' = config
        BY <2>1, <2>2, <2>4, <2>6
      <3>2. OneAddress /\ SavedAddress
        BY <3>1
      <3>3. \A e \in Daemons : Asks(e)' => asked'[e] = config
        BY <2>1, <3>1, <3>2
      <3>4. SavedAddress'
        BY <2>1, <3>1, <3>2, <3>3
      <3>5. OneAddress'
        BY <2>1, <3>1, <3>2, <3>3
      <3>6. QED
        BY <2>3, <3>4, <3>5
    <2>7. QED
      BY <2>2, <2>3, <2>5, <2>6
  <1>2. ASSUME NEW x \in Daemons, LoadRecords(x) PROVE PortInv'
    BY <1>2 DEF LoadRecords
  <1>3. ASSUME NEW x \in Daemons, RecoverState(x) PROVE PortInv'
    BY <1>3 DEF RecoverState, SaveAll, SaveRecords
  <1>4. ASSUME NEW x \in Daemons, StartFails(x) PROVE PortInv'
    BY <1>4 DEF StartFails, SaveAllFails, RecordsFail
  <1>5. ASSUME NEW x \in Daemons, RemoveStaleSocket(x) PROVE PortInv'
    BY <1>5 DEF RemoveStaleSocket
  <1>6. ASSUME NEW x \in Daemons, SocketIsOther(x) PROVE PortInv'
    BY <1>6 DEF SocketIsOther
  <1>7. ASSUME NEW x \in Daemons, Listen(x) PROVE PortInv'
    BY <1>7 DEF Listen
  <1>8. ASSUME NEW x \in Daemons, ListenFails(x) PROVE PortInv'
    BY <1>8 DEF ListenFails
  <1>9. ASSUME NEW x \in Daemons, BindHTTP(x) PROVE PortInv'
    BY <1>9 DEF BindHTTP, Free
  <1>9a. ASSUME NEW x \in Daemons, RemoveConfig(x) PROVE PortInv'
    BY <1>9a DEF RemoveConfig
  <1>9b. ASSUME NEW x \in Daemons, SaveConfig(x) PROVE PortInv'
    <2>1. /\ pc[x] = "bound" /\ pc' = [pc EXCEPT ![x] = "serving"]
          /\ config' = asked[x] \/ config' = AnyPort
          /\ UNCHANGED <<port, asked>>
      BY <1>9b DEF SaveConfig
    <2>2. PICK p \in Ports : port[p] = x /\ asked[x] = p
      BY <2>1
    <2>3. PortsHeld'
      BY <2>1
    <2>4. past'.raced = (past.raced \/ config' = AnyPort)
      BY <1>9b DEF SaveConfig
    <2>5. past'.raced <=> (past.raced \/ config' = AnyPort)
      BY <2>4, Zenon
    <2>6. CASE ~past'.raced
      <3>1. ~past.raced /\ config' = p /\ Taken(p)
        BY <2>1, <2>2, <2>5, <2>6
      <3>2. OneAddress'
        BY <2>1, <3>1
      <3>3. SavedAddress'
        BY <2>1, <2>2, <3>1
      <3>4. QED
        BY <2>3, <3>2, <3>3
    <2>7. QED
      BY <2>3, <2>6
  <1>10. ASSUME NEW x \in Daemons, StartHTTPFails(x) PROVE PortInv'
    BY <1>10 DEF StartHTTPFails, CloseListener, Undisturbed, Unlinked
  <1>10a. ASSUME NEW x \in Daemons, SaveConfigFails(x) PROVE PortInv'
    BY <1>10a DEF SaveConfigFails, WithoutPort, CloseListener, Undisturbed, Unlinked
  <1>11. ASSUME NEW x \in Daemons, CloseAdmin(x) PROVE PortInv'
    BY <1>11 DEF CloseAdmin, CloseListener, Undisturbed, Unlinked
  <1>12. ASSUME NEW x \in Daemons, CloseHTTP(x) PROVE PortInv'
    BY <1>12 DEF CloseHTTP, WithoutPort
  <1>13. ASSUME NEW x \in Daemons, Drained(x) PROVE PortInv'
    BY <1>13 DEF Drained
  <1>14. ASSUME NEW x \in Daemons, CloseLogger(x) PROVE PortInv'
    BY <1>14 DEF CloseLogger, Unlinked, Gone, Hung, Over
  <1>15. ASSUME NEW x \in Daemons, CrashProcess(x) PROVE PortInv'
    BY <1>15 DEF CrashProcess, Undisturbed, SaveAllFails, RecordsFail, Gone, Hung, Over, WithoutPort, Alive
  <1>16. ASSUME NEW x \in Daemons, RefreshWorkspace(x) PROVE PortInv'
    BY <1>16 DEF RefreshWorkspace, SaveAll, SaveAllFails, SaveRecords, RecordsFail
  <1>17. ASSUME NEW c \in Calls, Dial(c) PROVE PortInv'
    BY <1>17 DEF Dial, Over
  <1>18. ASSUME NEW c \in Calls, Admit(c) PROVE PortInv'
    BY <1>18 DEF Admit
  <1>19. ASSUME NEW c \in Calls, Refuse(c) PROVE PortInv'
    BY <1>19 DEF Refuse, Over
  <1>20. ASSUME NEW c \in Calls, RegisterWorkspace(c) PROVE PortInv'
    BY <1>20 DEF RegisterWorkspace, SaveRecords, Over
  <1>20a. ASSUME NEW c \in Calls, RegistrationFails(c) PROVE PortInv'
    BY <1>20a DEF RegistrationFails, RecordsFail, Over
  <1>21. CASE UNCHANGED homeVars
    BY <1>21 DEF homeVars
  <1>22. QED
    BY <1>1, <1>2, <1>3, <1>4, <1>5, <1>6, <1>7, <1>8, <1>9, <1>9a, <1>9b,
       <1>10, <1>10a, <1>11, <1>12, <1>13, <1>14, <1>15, <1>16, <1>17,
       <1>18, <1>19, <1>20, <1>20a, <1>21
       DEF HomeNext, Start, Fails, Ends

LEMMA PortInvariance == HomeTypes /\ HomeSpec => [](TypeInv /\ PortInv)
  <1>1. HomeTypes /\ HomeInit => PortInv
    BY PortInit
  <1>2. QED
    BY <1>1, PortNext, TypeInvariance, PTL DEF HomeSpec

\* One shared daemon: two processes never serve at the same time, although
\* nothing locks the home, unless one loaded port 0 while another was starting,
\* or the default address was written over a saved one (startHTTPServer,
\* SaveConfig).
THEOREM OneDaemonServes == HomeTypes /\ HomeSpec => []OneServes
  <1>1. TypeInv /\ PortInv => OneServes
    <2> SUFFICES ASSUME TypeInv, PortInv, ~past.raced
                 PROVE  Cardinality(Serving) <= 1
      BY DEF OneServes
    <2>1. \A d, e \in Serving : d = e
      BY DEF Serving, TypeInv, HomeTypeOK, HomeTypes, PortInv, PortsHeld, OneAddress, SavedAddress, HasPort, Asks, Taken
    <2>2. CASE Serving = {}
      BY <2>2, FS_EmptySet
    <2>3. CASE Serving # {}
      <3>1. PICK d \in Serving : TRUE
        BY <2>3
      <3>2. Serving = {d}
        BY <2>1, <3>1
      <3>3. QED
        BY <3>2, FS_Singleton
    <2>4. QED
      BY <2>2, <2>3
  <1>2. QED
    BY <1>1, PortInvariance, PTL

-----------------------------------------------------------------------------
(* The socket.  Only a process that has come to startAdminServer removes     *)
(* what is at the path; while a process listens undisturbed there is none    *)
(* besides it.                                                               *)

PlaceInv ==
    /\ \A d \in Daemons : d \in listener <=> pc[d] \in {"listening", "bound", "serving"}
    /\ \A d \in Daemons : pc[d] \in {"listening", "bound"} \cup Running => d \in opened
    /\ \A d \in opened : pc[d] \in {"listening", "bound", "closing"} \cup Running

LEMMA PlaceInit == HomeInit => PlaceInv
  BY DEF HomeInit, PlaceInv, Running

LEMMA PlaceNext == TypeInv /\ PlaceInv /\ [HomeNext]_homeVars => PlaceInv'
  <1> SUFFICES ASSUME TypeInv, PlaceInv, [HomeNext]_homeVars PROVE PlaceInv'
    OBVIOUS
  <1> USE DEF TypeInv, HomeTypeOK, PlaceInv, Goto, Starting, Running, shared, records, own
  <1>1. ASSUME NEW x \in Daemons, New(x) PROVE PlaceInv'
    BY <1>1 DEF New, Address, StillAlone, Others, Alive
  <1>2. ASSUME NEW x \in Daemons, LoadRecords(x) PROVE PlaceInv'
    BY <1>2 DEF LoadRecords
  <1>3. ASSUME NEW x \in Daemons, RecoverState(x) PROVE PlaceInv'
    BY <1>3 DEF RecoverState, SaveAll, SaveRecords
  <1>4. ASSUME NEW x \in Daemons, StartFails(x) PROVE PlaceInv'
    BY <1>4 DEF StartFails, SaveAllFails, RecordsFail
  <1>5. ASSUME NEW x \in Daemons, RemoveStaleSocket(x) PROVE PlaceInv'
    BY <1>5 DEF RemoveStaleSocket
  <1>6. ASSUME NEW x \in Daemons, SocketIsOther(x) PROVE PlaceInv'
    BY <1>6 DEF SocketIsOther
  <1>7. ASSUME NEW x \in Daemons, Listen(x) PROVE PlaceInv'
    BY <1>7 DEF Listen
  <1>8. ASSUME NEW x \in Daemons, ListenFails(x) PROVE PlaceInv'
    BY <1>8 DEF ListenFails
  <1>9. ASSUME NEW x \in Daemons, BindHTTP(x) PROVE PlaceInv'
    BY <1>9 DEF BindHTTP, Free
  <1>9a. ASSUME NEW x \in Daemons, RemoveConfig(x) PROVE PlaceInv'
    BY <1>9a DEF RemoveConfig
  <1>9b. ASSUME NEW x \in Daemons, SaveConfig(x) PROVE PlaceInv'
    BY <1>9b DEF SaveConfig
  <1>10. ASSUME NEW x \in Daemons, StartHTTPFails(x) PROVE PlaceInv'
    BY <1>10 DEF StartHTTPFails, CloseListener, Undisturbed, Unlinked
  <1>10a. ASSUME NEW x \in Daemons, SaveConfigFails(x) PROVE PlaceInv'
    BY <1>10a DEF SaveConfigFails, WithoutPort, CloseListener, Undisturbed, Unlinked
  <1>11. ASSUME NEW x \in Daemons, CloseAdmin(x) PROVE PlaceInv'
    BY <1>11 DEF CloseAdmin, CloseListener, Undisturbed, Unlinked
  <1>12. ASSUME NEW x \in Daemons, CloseHTTP(x) PROVE PlaceInv'
    BY <1>12 DEF CloseHTTP
  <1>13. ASSUME NEW x \in Daemons, Drained(x) PROVE PlaceInv'
    BY <1>13 DEF Drained
  <1>14. ASSUME NEW x \in Daemons, CloseLogger(x) PROVE PlaceInv'
    BY <1>14 DEF CloseLogger, Unlinked, Gone, Hung, Over
  <1>15. ASSUME NEW x \in Daemons, CrashProcess(x) PROVE PlaceInv'
    BY <1>15 DEF CrashProcess, Undisturbed, SaveAllFails, RecordsFail, Gone, Hung, Over, WithoutPort, Alive
  <1>16. ASSUME NEW x \in Daemons, RefreshWorkspace(x) PROVE PlaceInv'
    BY <1>16 DEF RefreshWorkspace, SaveAll, SaveAllFails, SaveRecords, RecordsFail
  <1>17. ASSUME NEW c \in Calls, Dial(c) PROVE PlaceInv'
    BY <1>17 DEF Dial, Over
  <1>18. ASSUME NEW c \in Calls, Admit(c) PROVE PlaceInv'
    BY <1>18 DEF Admit
  <1>19. ASSUME NEW c \in Calls, Refuse(c) PROVE PlaceInv'
    BY <1>19 DEF Refuse, Over
  <1>20. ASSUME NEW c \in Calls, RegisterWorkspace(c) PROVE PlaceInv'
    BY <1>20 DEF RegisterWorkspace, SaveRecords, Over
  <1>20a. ASSUME NEW c \in Calls, RegistrationFails(c) PROVE PlaceInv'
    BY <1>20a DEF RegistrationFails, RecordsFail, Over
  <1>21. CASE UNCHANGED homeVars
    BY <1>21 DEF homeVars
  <1>22. QED
    BY <1>1, <1>2, <1>3, <1>4, <1>5, <1>6, <1>7, <1>8, <1>9, <1>9a, <1>9b,
       <1>10, <1>10a, <1>11, <1>12, <1>13, <1>14, <1>15, <1>16, <1>17,
       <1>18, <1>19, <1>20, <1>20a, <1>21
       DEF HomeNext, Start, Fails, Ends

LEMMA PlaceInvariance == HomeTypes /\ HomeSpec => [](TypeInv /\ PlaceInv)
  BY PlaceInit, PlaceNext, TypeInvariance, PTL DEF HomeSpec

\* The processes that may still take a socket away.
Touches(d) == pc[d] \in {"removed", "listening", "bound"} \cup Running \/ (pc[d] = "closing" /\ d \in opened)

ReachInv == \A d \in listener \ past.disturbed :
                socket = d /\ \A e \in Daemons \ {d} : ~Touches(e)

LEMMA ReachInit == HomeInit => ReachInv
  BY DEF HomeInit, ReachInv

LEMMA ReachNext == TypeInv /\ PlaceInv /\ ReachInv /\ [HomeNext]_homeVars => ReachInv'
  <1> SUFFICES ASSUME TypeInv, PlaceInv, ReachInv, [HomeNext]_homeVars PROVE ReachInv'
    OBVIOUS
  <1> USE DEF TypeInv, HomeTypes, HomeTypeOK, PlaceInv, ReachInv, Touches, Goto, Starting, Running,
          shared, records, own
  <1>1. ASSUME NEW x \in Daemons, New(x) PROVE ReachInv'
    BY <1>1 DEF New, Address, StillAlone, Others, Alive
  <1>2. ASSUME NEW x \in Daemons, LoadRecords(x) PROVE ReachInv'
    BY <1>2 DEF LoadRecords
  <1>3. ASSUME NEW x \in Daemons, RecoverState(x) PROVE ReachInv'
    BY <1>3 DEF RecoverState, SaveAll, SaveRecords
  <1>4. ASSUME NEW x \in Daemons, StartFails(x) PROVE ReachInv'
    BY <1>4 DEF StartFails, SaveAllFails, RecordsFail
  <1>5. ASSUME NEW x \in Daemons, RemoveStaleSocket(x) PROVE ReachInv'
    BY <1>5 DEF RemoveStaleSocket
  <1>6. ASSUME NEW x \in Daemons, SocketIsOther(x) PROVE ReachInv'
    BY <1>6 DEF SocketIsOther
  <1>7. ASSUME NEW x \in Daemons, Listen(x) PROVE ReachInv'
    BY <1>7 DEF Listen, Past
  <1>8. ASSUME NEW x \in Daemons, ListenFails(x) PROVE ReachInv'
    BY <1>8 DEF ListenFails
  <1>9. ASSUME NEW x \in Daemons, BindHTTP(x) PROVE ReachInv'
    BY <1>9 DEF BindHTTP, Free
  <1>9a. ASSUME NEW x \in Daemons, RemoveConfig(x) PROVE ReachInv'
    BY <1>9a DEF RemoveConfig
  <1>9b. ASSUME NEW x \in Daemons, SaveConfig(x) PROVE ReachInv'
    BY <1>9b DEF SaveConfig
  <1>10. ASSUME NEW x \in Daemons, StartHTTPFails(x) PROVE ReachInv'
    BY <1>10 DEF StartHTTPFails, CloseListener, Undisturbed, Unlinked
  <1>10a. ASSUME NEW x \in Daemons, SaveConfigFails(x) PROVE ReachInv'
    BY <1>10a DEF SaveConfigFails, WithoutPort, CloseListener, Undisturbed, Unlinked
  <1>11. ASSUME NEW x \in Daemons, CloseAdmin(x) PROVE ReachInv'
    BY <1>11 DEF CloseAdmin, CloseListener, Undisturbed, Unlinked
  <1>12. ASSUME NEW x \in Daemons, CloseHTTP(x) PROVE ReachInv'
    BY <1>12 DEF CloseHTTP
  <1>13. ASSUME NEW x \in Daemons, Drained(x) PROVE ReachInv'
    BY <1>13 DEF Drained
  <1>14. ASSUME NEW x \in Daemons, CloseLogger(x) PROVE ReachInv'
    BY <1>14 DEF CloseLogger, Unlinked, Gone, Hung, Over
  <1>15. ASSUME NEW x \in Daemons, CrashProcess(x) PROVE ReachInv'
    BY <1>15 DEF CrashProcess, Undisturbed, SaveAllFails, RecordsFail, Gone, Hung, Over, WithoutPort, Alive
  <1>16. ASSUME NEW x \in Daemons, RefreshWorkspace(x) PROVE ReachInv'
    BY <1>16 DEF RefreshWorkspace, SaveAll, SaveAllFails, SaveRecords, RecordsFail
  <1>17. ASSUME NEW c \in Calls, Dial(c) PROVE ReachInv'
    BY <1>17 DEF Dial, Over
  <1>18. ASSUME NEW c \in Calls, Admit(c) PROVE ReachInv'
    BY <1>18 DEF Admit
  <1>19. ASSUME NEW c \in Calls, Refuse(c) PROVE ReachInv'
    BY <1>19 DEF Refuse, Over
  <1>20. ASSUME NEW c \in Calls, RegisterWorkspace(c) PROVE ReachInv'
    BY <1>20 DEF RegisterWorkspace, SaveRecords, Over
  <1>20a. ASSUME NEW c \in Calls, RegistrationFails(c) PROVE ReachInv'
    BY <1>20a DEF RegistrationFails, RecordsFail, Over
  <1>21. CASE UNCHANGED homeVars
    BY <1>21 DEF homeVars
  <1>22. QED
    BY <1>1, <1>2, <1>3, <1>4, <1>5, <1>6, <1>7, <1>8, <1>9, <1>9a, <1>9b,
       <1>10, <1>10a, <1>11, <1>12, <1>13, <1>14, <1>15, <1>16, <1>17,
       <1>18, <1>19, <1>20, <1>20a, <1>21
       DEF HomeNext, Start, Fails, Ends

\* The socket at the path is that of the process that serves, unless another
\* one has come as far as startAdminServer while it listened.
THEOREM TheOneThatServesIsReachable == HomeTypes /\ HomeSpec => []ServingIsReachable
  <1>1. TypeInv /\ PlaceInv /\ ReachInv => ServingIsReachable
    BY DEF TypeInv, HomeTypeOK, PlaceInv, ReachInv, ServingIsReachable, Serving
  <1>2. QED
    BY <1>1, ReachInit, ReachNext, PlaceInvariance, PTL DEF HomeSpec

-----------------------------------------------------------------------------
(* A lone start.  What ended or crashed before holds neither the socket,     *)
(* which removeStaleSocket takes away, nor a port.                           *)

AloneInv ==
    \A d \in past.alone :
        /\ Alive(d) => Others(d) = {}
        /\ pc[d] = "removed" => socket = Nobody
        /\ pc[d] \in Running => d \in past.served
        /\ pc[d] \in {"closing", "ended"} /\ d \notin past.served
             => d \in past.faulty \/ socket = Other

LEMMA AloneInit == HomeInit => AloneInv
  BY DEF HomeInit, AloneInv, Alive, Others, Starting, Running

LEMMA AloneNext == TypeInv /\ PortInv /\ AloneInv /\ [HomeNext]_homeVars => AloneInv'
  <1> SUFFICES ASSUME TypeInv, PortInv, AloneInv, [HomeNext]_homeVars PROVE AloneInv'
    OBVIOUS
  <1> USE DEF TypeInv, HomeTypes, HomeTypeOK, AloneInv, Alive, Others, Goto, Starting, Running,
          shared, records, own
  <1>1. ASSUME NEW x \in Daemons, New(x) PROVE AloneInv'
    BY <1>1 DEF New, Address, StillAlone, Others, Alive
  <1>2. ASSUME NEW x \in Daemons, LoadRecords(x) PROVE AloneInv'
    BY <1>2 DEF LoadRecords
  <1>3. ASSUME NEW x \in Daemons, RecoverState(x) PROVE AloneInv'
    BY <1>3 DEF RecoverState, SaveAll, SaveRecords
  <1>4. ASSUME NEW x \in Daemons, StartFails(x) PROVE AloneInv'
    BY <1>4 DEF StartFails, SaveAllFails, RecordsFail
  <1>5. ASSUME NEW x \in Daemons, RemoveStaleSocket(x) PROVE AloneInv'
    BY <1>5 DEF RemoveStaleSocket
  <1>6. ASSUME NEW x \in Daemons, SocketIsOther(x) PROVE AloneInv'
    BY <1>6 DEF SocketIsOther
  <1>7. ASSUME NEW x \in Daemons, Listen(x) PROVE AloneInv'
    BY <1>7 DEF Listen
  <1>8. ASSUME NEW x \in Daemons, ListenFails(x) PROVE AloneInv'
    BY <1>8 DEF ListenFails
  <1>9. ASSUME NEW x \in Daemons, BindHTTP(x) PROVE AloneInv'
    BY <1>9 DEF BindHTTP, Free
  <1>9a. ASSUME NEW x \in Daemons, RemoveConfig(x) PROVE AloneInv'
    BY <1>9a DEF RemoveConfig
  <1>9b. ASSUME NEW x \in Daemons, SaveConfig(x) PROVE AloneInv'
    BY <1>9b DEF SaveConfig
  <1>10. ASSUME NEW x \in Daemons, StartHTTPFails(x) PROVE AloneInv'
    BY <1>10 DEF StartHTTPFails, CloseListener, Undisturbed, Unlinked, Free, PortInv, PortsHeld, HasPort, Asks, Taken
  <1>10a. ASSUME NEW x \in Daemons, SaveConfigFails(x) PROVE AloneInv'
    BY <1>10a DEF SaveConfigFails, WithoutPort, CloseListener, Undisturbed, Unlinked
  <1>11. ASSUME NEW x \in Daemons, CloseAdmin(x) PROVE AloneInv'
    BY <1>11 DEF CloseAdmin, CloseListener, Undisturbed, Unlinked
  <1>12. ASSUME NEW x \in Daemons, CloseHTTP(x) PROVE AloneInv'
    BY <1>12 DEF CloseHTTP
  <1>13. ASSUME NEW x \in Daemons, Drained(x) PROVE AloneInv'
    BY <1>13 DEF Drained
  <1>14. ASSUME NEW x \in Daemons, CloseLogger(x) PROVE AloneInv'
    BY <1>14 DEF CloseLogger, Unlinked, Gone, Hung, Over
  <1>15. ASSUME NEW x \in Daemons, CrashProcess(x) PROVE AloneInv'
    BY <1>15 DEF CrashProcess, Undisturbed, SaveAllFails, RecordsFail, Gone, Hung, Over, WithoutPort, Alive
  <1>16. ASSUME NEW x \in Daemons, RefreshWorkspace(x) PROVE AloneInv'
    BY <1>16 DEF RefreshWorkspace, SaveAll, SaveAllFails, SaveRecords, RecordsFail
  <1>17. ASSUME NEW c \in Calls, Dial(c) PROVE AloneInv'
    BY <1>17 DEF Dial, Over
  <1>18. ASSUME NEW c \in Calls, Admit(c) PROVE AloneInv'
    BY <1>18 DEF Admit
  <1>19. ASSUME NEW c \in Calls, Refuse(c) PROVE AloneInv'
    BY <1>19 DEF Refuse, Over
  <1>20. ASSUME NEW c \in Calls, RegisterWorkspace(c) PROVE AloneInv'
    BY <1>20 DEF RegisterWorkspace, SaveRecords, Over
  <1>20a. ASSUME NEW c \in Calls, RegistrationFails(c) PROVE AloneInv'
    BY <1>20a DEF RegistrationFails, RecordsFail, Over
  <1>21. CASE UNCHANGED homeVars
    BY <1>21 DEF homeVars
  <1>22. QED
    BY <1>1, <1>2, <1>3, <1>4, <1>5, <1>6, <1>7, <1>8, <1>9, <1>9a, <1>9b,
       <1>10, <1>10a, <1>11, <1>12, <1>13, <1>14, <1>15, <1>16, <1>17,
       <1>18, <1>19, <1>20, <1>20a, <1>21
       DEF HomeNext, Start, Fails, Ends

\* A start fails only over the disk, over something at the path that is not
\* a socket, or over another epicsd; what ended or crashed before is no
\* obstacle (removeStaleSocket).
THEOREM ALoneStartServes == HomeTypes /\ HomeSpec => []LoneStartServes
  <1>1. AloneInv => LoneStartServes
    BY DEF AloneInv, LoneStartServes
  <1>2. QED
    BY <1>1, AloneInit, AloneNext, PortInvariance, PTL DEF HomeSpec

-----------------------------------------------------------------------------
(* Registrations.  The file and the memory of every process that has loaded  *)
(* the records both hold a registration that was answered.                   *)

Loaded(d) ==
    \/ pc[d] \in {"loaded", "recovered", "removed", "listening", "bound"} \cup Running
    \/ pc[d] = "closing" /\ d \in opened

SavedInv ==
    /\ \A c \in Calls : call[c].at = "admitted" =>
           call[c].to \in opened /\ pc[call[c].to] \in {"serving", "stopping", "draining", "closing"}
    /\ \A c \in Calls : call[c].at = "answered" /\ c \notin past.overlapped \cup removed =>
           c \in file /\ \A d \in Daemons : Loaded(d) => c \in memory[d]

LEMMA SavedInit == HomeInit => SavedInv
  BY DEF HomeInit, SavedInv

LEMMA SavedNext == TypeInv /\ PlaceInv /\ SavedInv /\ [HomeNext]_homeVars => SavedInv'
  <1> SUFFICES ASSUME TypeInv, PlaceInv, SavedInv, [HomeNext]_homeVars PROVE SavedInv'
    OBVIOUS
  <1> USE DEF TypeInv, HomeTypes, HomeTypeOK, PlaceInv, SavedInv, Loaded, Goto, Starting, Running,
          shared, records, own
  <1>1. ASSUME NEW x \in Daemons, New(x) PROVE SavedInv'
    BY <1>1 DEF New, Address, StillAlone, Others, Alive
  <1>2. ASSUME NEW x \in Daemons, LoadRecords(x) PROVE SavedInv'
    BY <1>2 DEF LoadRecords
  <1>3. ASSUME NEW x \in Daemons, RecoverState(x) PROVE SavedInv'
    BY <1>3 DEF RecoverState, SaveAll, SaveRecords
  <1>4. ASSUME NEW x \in Daemons, StartFails(x) PROVE SavedInv'
    BY <1>4 DEF StartFails, SaveAllFails, RecordsFail
  <1>5. ASSUME NEW x \in Daemons, RemoveStaleSocket(x) PROVE SavedInv'
    BY <1>5 DEF RemoveStaleSocket
  <1>6. ASSUME NEW x \in Daemons, SocketIsOther(x) PROVE SavedInv'
    BY <1>6 DEF SocketIsOther
  <1>7. ASSUME NEW x \in Daemons, Listen(x) PROVE SavedInv'
    BY <1>7 DEF Listen
  <1>8. ASSUME NEW x \in Daemons, ListenFails(x) PROVE SavedInv'
    BY <1>8 DEF ListenFails
  <1>9. ASSUME NEW x \in Daemons, BindHTTP(x) PROVE SavedInv'
    BY <1>9 DEF BindHTTP, Free
  <1>9a. ASSUME NEW x \in Daemons, RemoveConfig(x) PROVE SavedInv'
    BY <1>9a DEF RemoveConfig
  <1>9b. ASSUME NEW x \in Daemons, SaveConfig(x) PROVE SavedInv'
    BY <1>9b DEF SaveConfig
  <1>10. ASSUME NEW x \in Daemons, StartHTTPFails(x) PROVE SavedInv'
    BY <1>10 DEF StartHTTPFails, CloseListener, Undisturbed, Unlinked
  <1>10a. ASSUME NEW x \in Daemons, SaveConfigFails(x) PROVE SavedInv'
    BY <1>10a DEF SaveConfigFails, WithoutPort, CloseListener, Undisturbed, Unlinked
  <1>11. ASSUME NEW x \in Daemons, CloseAdmin(x) PROVE SavedInv'
    BY <1>11 DEF CloseAdmin, CloseListener, Undisturbed, Unlinked
  <1>12. ASSUME NEW x \in Daemons, CloseHTTP(x) PROVE SavedInv'
    BY <1>12 DEF CloseHTTP
  <1>13. ASSUME NEW x \in Daemons, Drained(x) PROVE SavedInv'
    BY <1>13 DEF Drained
  <1>14. ASSUME NEW x \in Daemons, CloseLogger(x) PROVE SavedInv'
    BY <1>14 DEF CloseLogger, Unlinked, Gone, Hung, Over
  <1>15. ASSUME NEW x \in Daemons, CrashProcess(x) PROVE SavedInv'
    BY <1>15 DEF CrashProcess, Undisturbed, SaveAllFails, RecordsFail, Gone, Hung, Over, WithoutPort, Alive
  <1>16. ASSUME NEW x \in Daemons, RefreshWorkspace(x) PROVE SavedInv'
    BY <1>16 DEF RefreshWorkspace, SaveAll, SaveAllFails, SaveRecords, RecordsFail
  <1>17. ASSUME NEW c \in Calls, Dial(c) PROVE SavedInv'
    BY <1>17 DEF Dial, Over
  <1>18. ASSUME NEW c \in Calls, Admit(c) PROVE SavedInv'
    BY <1>18 DEF Admit
  <1>19. ASSUME NEW c \in Calls, Refuse(c) PROVE SavedInv'
    BY <1>19 DEF Refuse, Over
  <1>20. ASSUME NEW c \in Calls, RegisterWorkspace(c) PROVE SavedInv'
    BY <1>20 DEF RegisterWorkspace, Alive, SaveRecords, Over
  <1>20a. ASSUME NEW c \in Calls, RegistrationFails(c) PROVE SavedInv'
    BY <1>20a DEF RegistrationFails, RecordsFail, Over
  <1>21. CASE UNCHANGED homeVars
    BY <1>21 DEF homeVars
  <1>22. QED
    BY <1>1, <1>2, <1>3, <1>4, <1>5, <1>6, <1>7, <1>8, <1>9, <1>9a, <1>9b,
       <1>10, <1>10a, <1>11, <1>12, <1>13, <1>14, <1>15, <1>16, <1>17,
       <1>18, <1>19, <1>20, <1>20a, <1>21
       DEF HomeNext, Start, Fails, Ends

\* A registration that was answered stays in workspaces.json through any
\* sequence of ends, crashes and starts, unless another process had loaded
\* the records before it was answered, or a save whose first rename failed
\* removed the file that held it (loadRecords, saveWorkspaces).
THEOREM AnsweredRegistrationsAreSaved == HomeTypes /\ HomeSpec => []RegistrationsSaved
  <1>1. SavedInv => RegistrationsSaved
    BY DEF SavedInv, RegistrationsSaved
  <1>2. QED
    BY <1>1, SavedInit, SavedNext, PlaceInvariance, PTL DEF HomeSpec
=============================================================================
