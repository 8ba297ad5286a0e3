---------------------- MODULE DatadogServerRegistryProofs ----------------------
(***************************************************************************)
(* What the registry guarantees for every number of sessions, URIs and     *)
(* servers and every choice of options, proved with TLAPS.                 *)
(***************************************************************************)
EXTENDS DatadogServerRegistry, TLAPS

\* One step of one session: every disjunct of Next that is not about the
\* database.
SessionStep(s) ==
    \/ \E u \in Uris : DatadogStop(s, u) \/ \E c \in Configs : DatadogServe(s, u, c)
    \/ LockRegistry(s) \/ StartStep(s) \/ Erase(s) \/ CloseStep(s)

\* The initial state satisfies the inductive invariant.
LEMMA InvInit == Init => IInv
BY NullAssumption
   DEF NullAssumption, Init, IInv, TypeOK, CallsInv, MineInv, BoundInv,
       RegisteredIsListening, Labels, Locked, Building, Closing

\* A call that returns from Start without a server changes only the mutex and
\* its own session.
LEMMA RefusedStep ==
  ASSUME NEW s \in Sessions, FindExisting(s) \/ RejectOptions(s)
  PROVE  /\ pc[s] = "find"
         /\ pc' = [pc EXCEPT ![s] = "idle"]
         /\ mine' = [mine EXCEPT ![s] = None]
         /\ target' = [target EXCEPT ![s] = None]
         /\ wanted' = [wanted EXCEPT ![s] = None]
         /\ \E value \in Results : result' = [result EXCEPT ![s] = value]
         /\ mutex' = None
         /\ UNCHANGED <<servers, phase, uri, config, bound, database>>
BY DEF Results, FindExisting, RejectOptions, Return, Goto, serverVars

\* Stop either finds nothing and returns, or takes the server out.
LEMMA EraseStep ==
  ASSUME NEW s \in Sessions, Erase(s)
  PROVE  /\ pc[s] = "stop" /\ mutex = None
         /\ UNCHANGED <<mutex, uri, config, bound, database>>
         /\ \/ /\ servers[target[s]] = None
               /\ pc' = [pc EXCEPT ![s] = "idle"]
               /\ mine' = [mine EXCEPT ![s] = None]
               /\ target' = [target EXCEPT ![s] = None]
               /\ wanted' = [wanted EXCEPT ![s] = None]
               /\ \E value \in Results : result' = [result EXCEPT ![s] = value]
               /\ UNCHANGED <<servers, phase>>
            \/ /\ servers[target[s]] # None
               /\ servers' = [servers EXCEPT ![target[s]] = None]
               /\ phase' = [phase EXCEPT ![servers[target[s]]] = "closing"]
               /\ mine' = [mine EXCEPT ![s] = servers[target[s]]]
               /\ pc' = [pc EXCEPT ![s] = "closing"]
               /\ UNCHANGED <<target, wanted, result>>
<1>1. CASE servers[target[s]] = None
  BY <1>1 DEF Results, Erase, Return, Goto
<1>2. CASE servers[target[s]] # None
  BY <1>2 DEF Erase, Return, Goto, argVars
<1>3. QED
  BY <1>1, <1>2

\* Every variable of a session's step keeps its range.
LEMMA TypeStep ==
  ASSUME IInv, NEW s \in Sessions, SessionStep(s)
  PROVE  TypeOK'
<1>0. /\ TypeOK
      /\ pc[s] \in Building \cup Closing => mine[s] \in Ids
      /\ pc[s] \in Locked \cup {"start", "stop"} => target[s] \in Uris
      /\ pc[s] \in Locked \cup {"start"} => wanted[s] \in Configs
  BY DEF IInv, CallsInv, TypeOK
<1>1. CASE \E u \in Uris : DatadogStop(s, u) \/ \E c \in Configs : DatadogServe(s, u, c)
  BY <1>0, <1>1 DEF TypeOK, DatadogStop, DatadogServe, Call, Goto, serverVars, Labels
<1>2. CASE LockRegistry(s)
  BY <1>0, <1>2 DEF TypeOK, LockRegistry, Goto, serverVars, argVars, Labels
<1>3. CASE FindExisting(s) \/ RejectOptions(s)
  BY <1>0, <1>3 DEF TypeOK, FindExisting, RejectOptions, Return, Goto, serverVars, Labels, Results
<1>4. CASE \E i \in Ids : Construct(s, i)
  BY <1>0, <1>4 DEF TypeOK, Construct, Goto, argVars, Labels, Locked
<1>5. CASE EnsureTables(s) \/ Bind(s)
  BY <1>0, <1>5 DEF TypeOK, EnsureTables, Bind, Goto, argVars, serverVars, Labels, Building
<1>6. CASE ConstructorThrows(s) \/ FinishClose(s)
  BY <1>0, <1>6 DEF TypeOK, ConstructorThrows, FinishClose, Free, Return, Goto, Labels, Results
<1>7. CASE Register(s)
  BY <1>0, <1>7 DEF TypeOK, Register, Return, Goto, Labels, Results, Building, Locked
<1>8. CASE Erase(s)
  BY <1>0, <1>8, EraseStep DEF TypeOK, Labels
<1>9. CASE StopListening(s)
  BY <1>0, <1>9 DEF TypeOK, StopListening, Goto, argVars, Labels
<1>10. QED
  BY <1>1, <1>2, <1>3, <1>4, <1>5, <1>6, <1>7, <1>8, <1>9
     DEF SessionStep, StartStep, CloseStep

\* A session's step keeps what every session holds.
LEMMA CallsStep ==
  ASSUME IInv, NEW s \in Sessions, SessionStep(s)
  PROVE  CallsInv'
<1>0. /\ TypeOK
      /\ CallsInv
      /\ \A t \in Sessions : mine[t] # None => phase[mine[t]] \in {"building", "closing"}
      /\ \A u \in Uris : servers[u] # None => phase[servers[u]] = "listening" /\ servers[u] \in Ids
      /\ pc[s] = "stop" => target[s] \in Uris
      /\ None \notin Sessions /\ None \notin Ids /\ None \notin Uris /\ None \notin Configs
  <2>1. TypeOK /\ CallsInv /\ MineInv /\ RegisteredIsListening
    BY DEF IInv
  <2>2. \A t \in Sessions : mine[t] # None => phase[mine[t]] \in {"building", "closing"}
    BY <2>1 DEF CallsInv, MineInv
  <2>3. QED
    BY <2>1, <2>2, NullAssumption DEF CallsInv, TypeOK, RegisteredIsListening, NullAssumption
<1>1. CASE \E u \in Uris : DatadogStop(s, u) \/ \E c \in Configs : DatadogServe(s, u, c)
  BY <1>0, <1>1 DEF TypeOK, CallsInv, DatadogStop, DatadogServe, Call, Goto, Locked, Building, Closing
<1>2. CASE LockRegistry(s)
  BY <1>0, <1>2 DEF TypeOK, CallsInv, LockRegistry, Goto, argVars, Locked, Building, Closing
<1>3. CASE FindExisting(s) \/ RejectOptions(s)
  <2>1. /\ pc[s] = "find" /\ mutex' = None /\ database' = database
        /\ pc' = [pc EXCEPT ![s] = "idle"]
        /\ mine' = [mine EXCEPT ![s] = None]
        /\ target' = [target EXCEPT ![s] = None]
        /\ wanted' = [wanted EXCEPT ![s] = None]
    BY <1>3, RefusedStep
  <2>2. \A t \in Sessions : t # s => result'[t] = result[t]
    BY <1>0, <1>3, RefusedStep DEF TypeOK
  <2>3. QED
    BY <1>0, <2>1, <2>2 DEF TypeOK, CallsInv, Locked, Building, Closing
<1>4. CASE \E i \in Ids : Construct(s, i)
  BY <1>0, <1>4 DEF TypeOK, CallsInv, Construct, Goto, argVars, Locked, Building, Closing
<1>5. CASE EnsureTables(s) \/ Bind(s) \/ StopListening(s)
  BY <1>0, <1>5 DEF TypeOK, CallsInv, EnsureTables, Bind, StopListening, Goto, argVars, Locked, Building, Closing
<1>6. CASE ConstructorThrows(s) \/ FinishClose(s)
  <2>1. CASE ConstructorThrows(s)
    BY <1>0, <2>1 DEF TypeOK, CallsInv, ConstructorThrows, Return, Goto, Locked, Building, Closing
  <2>2. CASE FinishClose(s)
    BY <1>0, <2>2 DEF TypeOK, CallsInv, FinishClose, Return, Goto, Locked, Building, Closing
  <2>3. QED
    BY <1>6, <2>1, <2>2
<1>7. CASE Register(s)
  BY <1>0, <1>7 DEF TypeOK, CallsInv, Register, Return, Goto, Locked, Building, Closing
<1>8. CASE Erase(s)
  <2>1. CASE servers[target[s]] = None
    BY <1>0, <1>8, <2>1, EraseStep DEF TypeOK, CallsInv, Locked, Building, Closing
  <2>2. CASE servers[target[s]] # None
    BY <1>0, <1>8, <2>2, EraseStep DEF TypeOK, CallsInv, Locked, Building, Closing
  <2>3. QED
    BY <2>1, <2>2
<1>9. QED
  BY <1>1, <1>2, <1>3, <1>4, <1>5, <1>6, <1>7, <1>8
     DEF SessionStep, StartStep, CloseStep

\* A session's step keeps the servers under construction and being closed.
LEMMA MineStep ==
  ASSUME IInv, NEW s \in Sessions, SessionStep(s)
  PROVE  MineInv'
<1>0. /\ TypeOK
      /\ MineInv
      /\ \A t \in Sessions : (pc[t] \in Locked) <=> (mutex = t)
      /\ \A t \in Sessions : mine[t] \in Ids <=> pc[t] \in Building \cup Closing
      /\ \A t \in Sessions : mine[t] # None /\ mine[t] = mine[s] => s = t
      /\ \A t \in Sessions, i \in Ids : mine[t] = i => phase[i] # "free"
      /\ pc[s] = "stop" /\ servers[target[s]] # None =>
            \A t \in Sessions : mine[t] # servers[target[s]]
      /\ pc[s] \in Locked \cup {"start", "stop"} => target[s] \in Uris
      /\ \A t \in Sessions : pc[t] \in Locked => target[t] \in Uris
      /\ None \notin Sessions /\ None \notin Ids /\ None \notin Uris
  <2>1. TypeOK /\ CallsInv /\ MineInv /\ RegisteredIsListening
    BY DEF IInv
  <2>2. \A t \in Sessions : mine[t] \in Ids <=> pc[t] \in Building \cup Closing
    BY <2>1, NullAssumption DEF CallsInv, TypeOK, NullAssumption
  <2>3. \A t \in Sessions, i \in Ids : mine[t] = i => phase[i] \in {"building", "closing"}
    BY <2>1, <2>2 DEF MineInv
  <2>4. \A u \in Uris : servers[u] # None => phase[servers[u]] = "listening" /\ servers[u] \in Ids
    BY <2>1 DEF RegisteredIsListening, TypeOK
  <2>5. \A t \in Sessions : pc[t] \in Locked \cup {"start", "stop"} => target[t] \in Uris
    BY <2>1 DEF CallsInv, TypeOK
  <2>6. QED
    BY <2>1, <2>2, <2>3, <2>4, <2>5, NullAssumption DEF CallsInv, NullAssumption
<1>1. CASE \E u \in Uris : DatadogStop(s, u) \/ \E c \in Configs : DatadogServe(s, u, c)
  BY <1>0, <1>1 DEF TypeOK, MineInv, DatadogStop, DatadogServe, Call, Goto, serverVars, Building, Closing
<1>2. CASE LockRegistry(s)
  BY <1>0, <1>2 DEF TypeOK, MineInv, LockRegistry, Goto, argVars, serverVars, Building, Closing
<1>3. CASE FindExisting(s) \/ RejectOptions(s)
  BY <1>0, <1>3, RefusedStep DEF TypeOK, MineInv, Building, Closing
<1>4. CASE \E i \in Ids : Construct(s, i)
  BY <1>0, <1>4 DEF TypeOK, MineInv, Construct, Goto, argVars, Locked, Building, Closing
<1>5. CASE EnsureTables(s) \/ Bind(s) \/ StopListening(s)
  BY <1>0, <1>5 DEF TypeOK, MineInv, EnsureTables, Bind, StopListening, Goto, argVars, serverVars, Locked, Building, Closing
<1>6. CASE ConstructorThrows(s) \/ FinishClose(s)
  BY <1>0, <1>6 DEF TypeOK, MineInv, ConstructorThrows, FinishClose, Free, Return, Goto, Locked, Building, Closing
<1>7. CASE Register(s)
  BY <1>0, <1>7 DEF TypeOK, MineInv, Register, Return, Goto, Locked, Building, Closing
<1>8. CASE Erase(s)
  BY <1>0, <1>8, EraseStep DEF TypeOK, MineInv, Locked, Building, Closing
<1>9. QED
  BY <1>1, <1>2, <1>3, <1>4, <1>5, <1>6, <1>7, <1>8
     DEF SessionStep, StartStep, CloseStep

\* A session's step leaves only listening servers in the map.
LEMMA RegisteredStep ==
  ASSUME IInv, NEW s \in Sessions, SessionStep(s)
  PROVE  RegisteredIsListening'
<1>0. /\ TypeOK
      /\ RegisteredIsListening
      /\ \A u \in Uris : servers[u] # None => servers[u] \in Ids
      /\ pc[s] \in Building \cup Closing =>
            mine[s] \in Ids /\ phase[mine[s]] \in {"building", "closing"}
      /\ pc[s] \in Locked \cup {"stop"} => target[s] \in Uris
      /\ pc[s] = "register" => mine[s] \in bound /\ uri[mine[s]] = target[s]
      /\ None \notin Ids
  BY NullAssumption
     DEF IInv, CallsInv, MineInv, RegisteredIsListening, TypeOK, Building, Closing, NullAssumption
<1>1. CASE UNCHANGED <<servers, phase, bound, uri>>
  BY <1>0, <1>1 DEF RegisteredIsListening
<1>2. CASE \E i \in Ids : Construct(s, i)
  BY <1>0, <1>2 DEF TypeOK, RegisteredIsListening, Construct
<1>3. CASE Bind(s) \/ StopListening(s)
  BY <1>0, <1>3 DEF TypeOK, RegisteredIsListening, Bind, StopListening, Building, Closing
<1>4. CASE ConstructorThrows(s) \/ FinishClose(s)
  BY <1>0, <1>4 DEF TypeOK, RegisteredIsListening, ConstructorThrows, FinishClose, Free, Building, Closing
<1>5. CASE Register(s)
  BY <1>0, <1>5 DEF TypeOK, RegisteredIsListening, Register, Building, Locked
<1>6. CASE Erase(s)
  <2>1. CASE servers[target[s]] = None
    BY <1>0, <1>6, <2>1, EraseStep DEF TypeOK, RegisteredIsListening
  <2>2. CASE servers[target[s]] # None
    BY <1>0, <1>6, <2>2, EraseStep DEF TypeOK, RegisteredIsListening
  <2>3. QED
    BY <2>1, <2>2
<1>7. QED
  BY <1>1, <1>2, <1>3, <1>4, <1>5, <1>6, RefusedStep
     DEF SessionStep, StartStep, CloseStep, DatadogServe, DatadogStop, Call,
         LockRegistry, EnsureTables, serverVars

\* A session's step leaves no socket without an owner.
LEMMA BoundStep ==
  ASSUME IInv, NEW s \in Sessions, SessionStep(s)
  PROVE  BoundInv'
<1>0. /\ TypeOK
      /\ BoundInv
      /\ \A i \in bound : i \in Ids /\ uri[i] \in Uris /\ phase[i] # "free"
      /\ \A u \in Uris : servers[u] # None =>
            servers[u] \in bound /\ uri[servers[u]] = u /\ phase[servers[u]] = "listening"
      /\ \A t \in Sessions : mine[t] # None /\ mine[t] = mine[s] => s = t
      /\ pc[s] \in Building \cup Closing =>
            mine[s] \in Ids /\ phase[mine[s]] \in {"building", "closing"}
      /\ pc[s] \in Building \cup {"find", "stop"} => target[s] \in Uris
      /\ pc[s] \in Building =>
            uri[mine[s]] = target[s] /\ servers[target[s]] = None
      /\ None \notin Ids /\ None \notin Uris
  <2>1. TypeOK /\ CallsInv /\ MineInv /\ RegisteredIsListening /\ BoundInv
    BY DEF IInv
  <2>2. \A u \in Uris : servers[u] # None =>
            servers[u] \in bound /\ uri[servers[u]] = u /\ phase[servers[u]] = "listening"
    BY <2>1 DEF RegisteredIsListening
  <2>3. /\ \A t \in Sessions : mine[t] # None /\ mine[t] = mine[s] => s = t
        /\ pc[s] \in Building \cup Closing =>
              mine[s] \in Ids /\ phase[mine[s]] \in {"building", "closing"}
        /\ pc[s] \in Building \cup {"find", "stop"} => target[s] \in Uris
        /\ pc[s] \in Building =>
              uri[mine[s]] = target[s] /\ servers[target[s]] = None
        /\ None \notin Ids /\ None \notin Uris
    BY <2>1, NullAssumption
       DEF CallsInv, MineInv, TypeOK, NullAssumption, Locked, Building, Closing
  <2>4. \A i \in bound : i \in Ids /\ uri[i] \in Uris
    BY <2>1 DEF TypeOK, BoundInv
  <2>5. \A i \in bound : phase[i] # "free"
    BY <2>1, <2>2, <2>3, <2>4 DEF BoundInv, MineInv, Building, Closing
  <2>6. QED
    BY <2>1, <2>2, <2>3, <2>4, <2>5
<1>1. CASE \E u \in Uris : DatadogStop(s, u) \/ \E c \in Configs : DatadogServe(s, u, c)
  BY <1>0, <1>1 DEF TypeOK, BoundInv, DatadogStop, DatadogServe, Call, Goto, serverVars
<1>2. CASE LockRegistry(s)
  BY <1>0, <1>2 DEF TypeOK, BoundInv, LockRegistry, Goto, serverVars
<1>3. CASE FindExisting(s) \/ RejectOptions(s)
  BY <1>0, <1>3, RefusedStep DEF TypeOK, BoundInv
<1>4. CASE \E i \in Ids : Construct(s, i)
  BY <1>0, <1>4 DEF TypeOK, BoundInv, Construct, Goto, Locked
<1>5. CASE EnsureTables(s)
  BY <1>0, <1>5 DEF TypeOK, BoundInv, EnsureTables, Goto, serverVars
<1>6. CASE Bind(s)
  BY <1>0, <1>6 DEF TypeOK, BoundInv, Bind, Goto, Building
<1>7. CASE ConstructorThrows(s) \/ FinishClose(s)
  <2>1. \A i \in bound : i # mine[s]
    <3>1. ASSUME NEW i \in bound, i = mine[s] PROVE FALSE
      BY <1>0, <1>7, <3>1 DEF BoundInv, ConstructorThrows, FinishClose, Building, Closing
    <3>2. QED
      BY <3>1
  <2>2. QED
    BY <1>0, <1>7, <2>1 DEF TypeOK, BoundInv, ConstructorThrows, FinishClose, Free, Return, Goto
<1>8. CASE Register(s)
  BY <1>0, <1>8 DEF TypeOK, BoundInv, Register, Return, Goto, Building
<1>9. CASE Erase(s)
  <2>1. CASE servers[target[s]] = None
    BY <1>0, <1>9, <2>1, EraseStep DEF TypeOK, BoundInv
  <2>2. CASE servers[target[s]] # None
    BY <1>0, <1>9, <2>2, EraseStep DEF TypeOK, BoundInv
  <2>3. QED
    BY <2>1, <2>2
<1>10. CASE StopListening(s)
  BY <1>0, <1>10 DEF TypeOK, BoundInv, StopListening, Goto, Closing
<1>11. QED
  BY <1>1, <1>2, <1>3, <1>4, <1>5, <1>6, <1>7, <1>8, <1>9, <1>10
     DEF SessionStep, StartStep, CloseStep

\* Closing and destroying the database keep the invariant: no session is in a
\* call any more, so every socket belongs to a registered server.
LEMMA DatabaseStep ==
  ASSUME IInv, CloseDatabase \/ DestroyDatabase
  PROVE  IInv'
<1>1. CASE CloseDatabase
  BY <1>1 DEF IInv, TypeOK, CallsInv, MineInv, BoundInv, RegisteredIsListening,
              CloseDatabase, serverVars, argVars
<1>2. CASE DestroyDatabase
  <2>1. /\ TypeOK
        /\ \A s \in Sessions : pc[s] = "idle"
        /\ \A i \in bound : uri[i] \in Uris /\ servers[uri[i]] = i
    <3>1. TypeOK /\ \A s \in Sessions : pc[s] = "idle"
      BY <1>2 DEF IInv, CallsInv, DestroyDatabase
    <3>2. QED
      BY <3>1 DEF IInv, BoundInv, TypeOK
  <2>2. bound' = {} /\ \A u \in Uris : servers'[u] = None
    BY <1>2, <2>1 DEF DestroyDatabase
  <2>3. TypeOK'
    BY <1>2, <2>1, <2>2 DEF TypeOK, DestroyDatabase, argVars
  <2>4. CallsInv'
    BY <1>2, <2>1 DEF IInv, CallsInv, DestroyDatabase, argVars
  <2>5. MineInv'
    BY <1>2, <2>1 DEF MineInv, DestroyDatabase, Building, Closing
  <2>6. RegisteredIsListening' /\ BoundInv'
    BY <2>2 DEF RegisteredIsListening, BoundInv
  <2>7. QED
    BY <2>3, <2>4, <2>5, <2>6 DEF IInv
<1>3. QED
  BY <1>1, <1>2

\* Every step keeps the inductive invariant.
LEMMA InvStep == IInv /\ [Next]_vars => IInv'
<1> SUFFICES ASSUME IInv, [Next]_vars PROVE IInv'
  OBVIOUS
<1>1. ASSUME NEW s \in Sessions, SessionStep(s) PROVE IInv'
  BY <1>1, TypeStep, CallsStep, MineStep, RegisteredStep, BoundStep DEF IInv
<1>2. CASE CloseDatabase \/ DestroyDatabase
  BY <1>2, DatabaseStep
<1>3. CASE UNCHANGED vars
  BY <1>3 DEF IInv, TypeOK, CallsInv, MineInv, BoundInv, RegisteredIsListening,
              vars, serverVars, argVars
<1>4. QED
  BY <1>1, <1>2, <1>3 DEF Next, SessionStep, Terminated

\* The inductive invariant holds in every reachable state of the registry.
THEOREM Invariance == Spec => []IInv
BY InvInit, InvStep, PTL DEF Spec

\* Every variable of the registry keeps its type.
THEOREM TypeCorrect == Spec => []TypeOK
<1>1. IInv => TypeOK
  BY DEF IInv
<1>2. QED
  BY <1>1, Invariance, PTL

\* datadog_serve and datadog_stop find a server in the map only while it
\* listens on the URI it is registered for.
THEOREM RegisteredServersListen == Spec => []RegisteredIsListening
<1>1. IInv => RegisteredIsListening
  BY DEF IInv
<1>2. QED
  BY <1>1, Invariance, PTL

\* No listening socket escapes datadog_stop and no two sessions close the same
\* server, in whatever order sessions start and stop.
THEOREM ListenersHaveOneOwner == Spec => []NoOrphanListener
<1>1. IInv => NoOrphanListener
  BY NullAssumption
     DEF IInv, CallsInv, BoundInv, TypeOK, NoOrphanListener, NullAssumption
<1>2. QED
  BY <1>1, Invariance, PTL

\* Two live listeners never share a URI.
THEOREM ListenersDoNotShareUris == Spec => []OneListenerPerUri
<1>1. ASSUME IInv, NEW i \in bound, NEW j \in bound,
             i # j, uri[i] = uri[j], phase[i] # "closing", phase[j] # "closing"
      PROVE  FALSE
  <2>1. /\ TypeOK /\ MineInv /\ BoundInv /\ uri[i] \in Uris /\ i # None /\ j # None
        /\ \A s \in Sessions : pc[s] = "register" => mutex = s
    BY <1>1, NullAssumption DEF IInv, TypeOK, BoundInv, CallsInv, Locked, NullAssumption
  <2>2. servers[uri[i]] = i \/ \E s \in Sessions : mine[s] = i /\ pc[s] = "register"
    BY <1>1, <2>1 DEF BoundInv, MineInv, Closing
  <2>3. servers[uri[j]] = j \/ \E s \in Sessions : mine[s] = j /\ pc[s] = "register"
    BY <1>1, <2>1 DEF BoundInv, MineInv, Closing
  <2>4. QED
    BY <1>1, <2>1, <2>2, <2>3 DEF MineInv, Building
<1>2. IInv => OneListenerPerUri
  BY <1>1 DEF OneListenerPerUri
<1>3. QED
  BY <1>2, Invariance, PTL

\* A URL is returned only while a server with the compared options is
\* registered for the URI.
THEOREM UrlsAreConfigured == Spec => ServeReturnsConfigured
<1> DEFINE Configured(s) ==
             pc[s] \in Locked /\ result'[s] = "url" =>
                LET i == servers'[target[s]] IN
                    i # None /\ config'[i].options = wanted[s].options
<1>1. ASSUME IInv, NEW s \in Sessions, NEW t \in Sessions, SessionStep(t)
      PROVE  Configured(s)
  <2>1. /\ TypeOK /\ result \in [Sessions -> Results \cup {None}]
        /\ \A x, y \in Sessions : pc[x] \in Locked /\ pc[y] \in Locked => x = y
        /\ pc[s] \in Locked => target[s] \in Uris
        /\ pc[s] \in Locked => result[s] = None
        /\ pc[s] = "register" => mine[s] \in Ids /\ config[mine[s]] = wanted[s]
        /\ None \notin Ids /\ None # "url"
    <3>1. TypeOK /\ CallsInv /\ MineInv
      BY <1>1 DEF IInv
    <3>2. pc[s] \in Locked => pc[s] # "idle"
      BY DEF Locked
    <3>3. None \notin Ids /\ None # "url" /\ None \notin Uris
      BY NullAssumption DEF NullAssumption, Results
    <3>4. pc[s] = "register" => mine[s] \in Ids /\ config[mine[s]] = wanted[s]
      BY <3>1 DEF CallsInv, MineInv, TypeOK, Building
    <3>5. QED
      BY <3>1, <3>2, <3>3, <3>4 DEF CallsInv, TypeOK
  <2>2. CASE t # s
    <3>1. result'[s] = result[s]
      BY <1>1, <2>1, <2>2
         DEF SessionStep, StartStep, CloseStep, DatadogStop, DatadogServe, Call,
             LockRegistry, FindExisting, RejectOptions, Construct, EnsureTables,
             Bind, ConstructorThrows, Register, Erase, StopListening,
             FinishClose, Return
    <3>2. QED
      BY <2>1, <3>1
  <2>3. CASE FindExisting(s)
    BY <2>1, <2>3 DEF FindExisting, Return, SameOptions, serverVars, TypeOK
  <2>4. CASE Register(s)
    BY <2>1, <2>4 DEF Register, TypeOK
  <2>5. CASE RejectOptions(s) \/ ConstructorThrows(s)
    BY <2>1, <2>5 DEF RejectOptions, ConstructorThrows, Return, Results
  <2>6. CASE \/ \E i \in Ids : Construct(s, i)
             \/ EnsureTables(s) \/ Bind(s)
    BY <2>1, <2>6 DEF Construct, EnsureTables, Bind, Locked
  <2>7. CASE pc[s] \notin Locked
    BY <2>7
  <2>8. QED
    BY <1>1, <2>2, <2>3, <2>4, <2>5, <2>6, <2>7
       DEF SessionStep, StartStep, CloseStep, DatadogStop, DatadogServe, Call,
           LockRegistry, Erase, StopListening, FinishClose, Locked
<1>2. ASSUME IInv, NEW s \in Sessions, UNCHANGED result PROVE Configured(s)
  BY <1>2, NullAssumption
     DEF IInv, CallsInv, Locked, Results, NullAssumption
<1>3. IInv /\ [Next]_vars => [\A s \in Sessions : Configured(s)]_vars
  BY <1>1, <1>2 DEF Next, SessionStep, CloseDatabase, DestroyDatabase, Terminated, vars
<1>4. QED
  BY <1>3, Invariance, PTL DEF Spec, ServeReturnsConfigured
================================================================================
