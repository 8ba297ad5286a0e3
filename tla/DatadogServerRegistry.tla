------------------------- MODULE DatadogServerRegistry -------------------------
(***************************************************************************)
(* DatadogServerExtensionInfo: the per-database map from listen URI to     *)
(* DatadogServer, the datadog_serve and datadog_stop calls of concurrent   *)
(* SQL sessions, the constructor steps that can fail, and the lifetime of  *)
(* the database the servers belong to.  Sockets and DuckDB's reference     *)
(* counting are external.  The inside of a listening server is             *)
(* DatadogServer.                                                          *)
(***************************************************************************)

CONSTANTS
    Sessions,       \* SQL threads that call datadog_serve and datadog_stop
    Uris,           \* canonical listen URIs
    Ids,            \* identities for live DatadogServer objects
    Options,        \* values of the options Start compares
    ValidOptions,   \* those the constructor accepts
    MetricsTables,  \* values of metrics_table_name
    None            \* no session, no server, no result

Configs == [options : Options, metrics_table_name : MetricsTables]

ASSUME OptionsAssumption == ValidOptions \subseteq Options

Results == {"url", "different options", "failed", "stopped", "not found"}

ASSUME NullAssumption ==
    /\ None \notin Results
    /\ None \notin Sessions
    /\ None \notin Ids
    /\ None \notin Uris
    /\ None \notin Configs

VARIABLES
    mutex,      \* the session inside Start, or None
    servers,    \* servers[u]: the server registered for u, or None
    phase,      \* phase[i]: "free", "building", "listening" or "closing"
    uri,        \* uri[i]: the URI server i was built for, or None
    config,     \* config[i]: the options server i was built with, or None
    bound,      \* the servers that hold a listening socket
    pc,         \* pc[s]: where session s is in its call
    target,     \* target[s]: the URI argument of the call, or None
    wanted,     \* wanted[s]: the options of a datadog_serve call, or None
    mine,       \* mine[s]: the server s is building or closing, or None
    result,     \* result[s]: what the last call of s returned
    database    \* "open", "closed" by its user, or "destroyed"

vars == <<mutex, servers, phase, uri, config, bound, pc, target, wanted, mine,
          result, database>>
argVars == <<target, wanted>>
serverVars == <<phase, uri, config, bound>>

Labels == {"idle", "start", "find", "tables", "bind", "register", "stop",
           "closing", "joining"}

\* Inside Start's critical section.
Locked == {"find", "tables", "bind", "register"}

Init ==
    /\ mutex = None
    /\ servers = [u \in Uris |-> None]
    /\ phase = [i \in Ids |-> "free"]
    /\ uri = [i \in Ids |-> None]
    /\ config = [i \in Ids |-> None]
    /\ bound = {}
    /\ pc = [s \in Sessions |-> "idle"]
    /\ target = [s \in Sessions |-> None]
    /\ wanted = [s \in Sessions |-> None]
    /\ mine = [s \in Sessions |-> None]
    /\ result = [s \in Sessions |-> None]
    /\ database = "open"

Goto(s, label) == pc' = [pc EXCEPT ![s] = label]

Return(s, value) ==
    /\ Goto(s, "idle")
    /\ result' = [result EXCEPT ![s] = value]
    /\ mine' = [mine EXCEPT ![s] = None]
    /\ target' = [target EXCEPT ![s] = None]
    /\ wanted' = [wanted EXCEPT ![s] = None]

\* The server object is destroyed, and with it its writer connection.
Free(i) ==
    /\ phase' = [phase EXCEPT ![i] = "free"]
    /\ uri' = [uri EXCEPT ![i] = None]
    /\ config' = [config EXCEPT ![i] = None]

--------------------------------------------------------------------------------
(* The calls.                                                              *)

Call(s, label) ==
    /\ pc[s] = "idle" /\ database = "open"
    /\ Goto(s, label)
    /\ result' = [result EXCEPT ![s] = None]
    /\ UNCHANGED <<mutex, servers, serverVars, mine, database>>

DatadogServe(s, u, c) ==
    /\ Call(s, "start")
    /\ target' = [target EXCEPT ![s] = u]
    /\ wanted' = [wanted EXCEPT ![s] = c]

DatadogStop(s, u) ==
    /\ Call(s, "stop")
    /\ target' = [target EXCEPT ![s] = u]
    /\ UNCHANGED wanted

--------------------------------------------------------------------------------
(* Start.                                                                  *)

\* Mutant: Start does not take the mutex.
LockRegistryUnguarded(s) ==
    /\ pc[s] = "start"
    /\ mutex' = s
    /\ Goto(s, "find")
    /\ UNCHANGED <<servers, serverVars, argVars, mine, result, database>>

LockRegistry(s) ==
    /\ pc[s] = "start"
    /\ mutex = None
    /\ mutex' = s
    /\ Goto(s, "find")
    /\ UNCHANGED <<servers, serverVars, argVars, mine, result, database>>

\* Mutant: any server for the URI will do.
OptionsIgnored(c, d) == {c, d} \subseteq Configs

\* The fields Start compares; metrics_table_name is not among them.
SameOptions(c, d) == c.options = d.options

\* A server for the URI exists: its URL, unless its options differ.
FindExisting(s) ==
    /\ pc[s] = "find"
    /\ LET i == servers[target[s]] IN
         /\ i # None
         /\ Return(s, IF SameOptions(config[i], wanted[s])
                      THEN "url" ELSE "different options")
    /\ mutex' = None
    /\ UNCHANGED <<servers, serverVars, database>>

\* The constructor validates its options and opens the writer connection.
Construct(s, i) ==
    /\ pc[s] = "find"
    /\ servers[target[s]] = None
    /\ wanted[s].options \in ValidOptions
    /\ phase[i] = "free"
    /\ phase' = [phase EXCEPT ![i] = "building"]
    /\ uri' = [uri EXCEPT ![i] = target[s]]
    /\ config' = [config EXCEPT ![i] = wanted[s]]
    /\ mine' = [mine EXCEPT ![s] = i]
    /\ Goto(s, "tables")
    /\ UNCHANGED <<mutex, servers, bound, argVars, result, database>>

RejectOptions(s) ==
    /\ pc[s] = "find"
    /\ servers[target[s]] = None
    /\ wanted[s].options \notin ValidOptions
    /\ Return(s, "failed")
    /\ mutex' = None
    /\ UNCHANGED <<servers, serverVars, database>>

\* EnsureTargetTable and EnsureMetricsTable succeed.
EnsureTables(s) ==
    /\ pc[s] = "tables"
    /\ Goto(s, "bind")
    /\ UNCHANGED <<mutex, servers, serverVars, argVars, mine, result, database>>

\* bind_to_port succeeds, the listen thread starts and is ready.  A server of
\* the same URI that is still closing does not exclude this (SO_REUSEPORT).
Bind(s) ==
    /\ pc[s] = "bind"
    /\ bound' = bound \cup {mine[s]}
    /\ Goto(s, "register")
    /\ UNCHANGED <<mutex, servers, phase, uri, config, argVars, mine, result,
                   database>>

\* Mutant: the exception leaves Start with the mutex still locked.
ConstructorThrowsLocked(s) ==
    /\ pc[s] \in {"tables", "bind"}
    /\ Free(mine[s])
    /\ Return(s, "failed")
    /\ UNCHANGED <<mutex, servers, bound, database>>

\* A table cannot be created or has another schema, or the port is taken: the
\* constructor throws and its members are destroyed.
ConstructorThrows(s) ==
    /\ pc[s] \in {"tables", "bind"}
    /\ Free(mine[s])
    /\ Return(s, "failed")
    /\ mutex' = None
    /\ UNCHANGED <<servers, bound, database>>

Register(s) ==
    /\ pc[s] = "register"
    /\ servers' = [servers EXCEPT ![target[s]] = mine[s]]
    /\ phase' = [phase EXCEPT ![mine[s]] = "listening"]
    /\ Return(s, "url")
    /\ mutex' = None
    /\ UNCHANGED <<uri, config, bound, database>>

--------------------------------------------------------------------------------
(* Stop.                                                                   *)

\* Mutant: the entry is erased but the server is not closed.
EraseOnly(s) ==
    /\ pc[s] = "stop"
    /\ mutex = None
    /\ servers' = [servers EXCEPT ![target[s]] = None]
    /\ Return(s, "stopped")
    /\ UNCHANGED <<mutex, serverVars, database>>

\* Mutant: the server is moved out but its entry stays in the map.
MoveWithoutErase(s) ==
    /\ pc[s] = "stop"
    /\ mutex = None
    /\ LET i == servers[target[s]] IN
         IF i = None
         THEN Return(s, "not found") /\ UNCHANGED phase
         ELSE /\ phase' = [phase EXCEPT ![i] = "closing"]
              /\ mine' = [mine EXCEPT ![s] = i]
              /\ Goto(s, "closing")
              /\ UNCHANGED <<result, argVars>>
    /\ UNCHANGED <<mutex, servers, uri, config, bound, database>>

\* Look up and erase in one critical section; the server is closed outside it.
Erase(s) ==
    /\ pc[s] = "stop"
    /\ mutex = None
    /\ LET i == servers[target[s]] IN
         IF i = None
         THEN Return(s, "not found") /\ UNCHANGED <<servers, phase>>
         ELSE /\ servers' = [servers EXCEPT ![target[s]] = None]
              /\ phase' = [phase EXCEPT ![i] = "closing"]
              /\ mine' = [mine EXCEPT ![s] = i]
              /\ Goto(s, "closing")
              /\ UNCHANGED <<result, argVars>>
    /\ UNCHANGED <<mutex, uri, config, bound, database>>

\* Close(): the socket is closed first ...
StopListening(s) ==
    /\ pc[s] = "closing"
    /\ bound' = bound \ {mine[s]}
    /\ Goto(s, "joining")
    /\ UNCHANGED <<mutex, servers, phase, uri, config, argVars, mine, result,
                   database>>

\* ... and after the joins the writer and the object are released.
FinishClose(s) ==
    /\ pc[s] = "joining"
    /\ Free(mine[s])
    /\ Return(s, "stopped")
    /\ UNCHANGED <<mutex, servers, bound, database>>

--------------------------------------------------------------------------------
(* The database.                                                           *)

\* The user's handle, and the writer connection of every server, hold a
\* reference to the DatabaseInstance.
DatabaseHeld ==
    \/ database = "open"
    \/ \E i \in Ids : phase[i] # "free"

CloseDatabase ==
    /\ database = "open"
    /\ \A s \in Sessions : pc[s] = "idle"
    /\ database' = "closed"
    /\ UNCHANGED <<mutex, servers, serverVars, pc, argVars, mine, result>>

\* The last reference is gone: ~DatadogServerExtensionInfo runs StopAll, which
\* closes every server still registered.
DestroyDatabase ==
    /\ database = "closed" /\ ~DatabaseHeld
    /\ database' = "destroyed"
    /\ servers' = [u \in Uris |-> None]
    /\ LET active == {servers[u] : u \in Uris} IN
         /\ phase' = [i \in Ids |-> IF i \in active THEN "free" ELSE phase[i]]
         /\ uri' = [i \in Ids |-> IF i \in active THEN None ELSE uri[i]]
         /\ config' = [i \in Ids |-> IF i \in active THEN None ELSE config[i]]
         /\ bound' = bound \ active
    /\ UNCHANGED <<mutex, pc, argVars, mine, result>>

--------------------------------------------------------------------------------
StartStep(s) ==
    \/ FindExisting(s) \/ RejectOptions(s) \/ \E i \in Ids : Construct(s, i)
    \/ EnsureTables(s) \/ Bind(s) \/ ConstructorThrows(s) \/ Register(s)

CloseStep(s) == StopListening(s) \/ FinishClose(s)

\* No call can follow the close of the database.
Terminated == database # "open" /\ UNCHANGED vars

Next ==
    \/ \E s \in Sessions :
         \/ \E u \in Uris : DatadogStop(s, u) \/ \E c \in Configs : DatadogServe(s, u, c)
         \/ LockRegistry(s) \/ StartStep(s) \/ Erase(s) \/ CloseStep(s)
    \/ CloseDatabase \/ DestroyDatabase
    \/ Terminated

Spec == Init /\ [][Next]_vars

\* A session that can run runs, whether or not it calls again; the last
\* reference to the database destroys it.
Fairness ==
    /\ \A s \in Sessions : WF_vars(StartStep(s)) /\ WF_vars(CloseStep(s))
    /\ WF_vars(DestroyDatabase)

FairSpec == Spec /\ Fairness

--------------------------------------------------------------------------------
TypeOK ==
    /\ mutex \in Sessions \cup {None}
    /\ servers \in [Uris -> Ids \cup {None}]
    /\ phase \in [Ids -> {"free", "building", "listening", "closing"}]
    /\ uri \in [Ids -> Uris \cup {None}]
    /\ config \in [Ids -> Configs \cup {None}]
    /\ bound \in SUBSET Ids
    /\ pc \in [Sessions -> Labels]
    /\ target \in [Sessions -> Uris \cup {None}]
    /\ wanted \in [Sessions -> Configs \cup {None}]
    /\ mine \in [Sessions -> Ids \cup {None}]
    /\ result \in [Sessions -> Results \cup {None}]
    /\ database \in {"open", "closed", "destroyed"}

(* Safety.                                                                 *)

\* datadog_serve and datadog_stop only ever find a server that listens on the
\* URI asked for: never one half built, failed, or being closed by another
\* session.
RegisteredIsListening ==
    \A u \in Uris : servers[u] # None =>
        /\ phase[servers[u]] = "listening"
        /\ servers[u] \in bound
        /\ uri[servers[u]] = u

\* No listener escapes datadog_stop: each is registered, about to be
\* registered by the session inside Start, or being closed by one session.
NoOrphanListener ==
    \A i \in bound :
        \/ servers[uri[i]] = i
        \/ \E s \in Sessions :
             /\ mine[s] = i
             /\ pc[s] \in {"register", "closing"}
             /\ \A t \in Sessions : mine[t] = i => t = s

\* Two live listeners never share a URI, even when it is started again while
\* its old server is still closing.
OneListenerPerUri ==
    \A i, j \in bound :
        i # j /\ uri[i] = uri[j] => "closing" \in {phase[i], phase[j]}

\* When datadog_serve returns a URL, a server with the options it compared is
\* registered for that URI, whoever else was starting or stopping it.
ServeReturnsConfigured ==
    [][\A s \in Sessions : pc[s] \in Locked /\ result'[s] = "url" =>
          LET i == servers'[target[s]] IN
              i # None /\ config'[i].options = wanted[s].options]_vars

\* "A Datadog server already exists for ... with different options": a URL is
\* returned only for a server with all the options of the call.
ServeHonoursAllOptions ==
    [][\A s \in Sessions : pc[s] \in Locked /\ result'[s] = "url" =>
          LET i == servers'[target[s]] IN
              i # None /\ config'[i] = wanted[s]]_vars

--------------------------------------------------------------------------------
(* The inductive invariant behind the safety properties.                   *)

Building == {"tables", "bind", "register"}
Closing == {"closing", "joining"}

\* Calls: what a session holds at each point of its call.
CallsInv ==
    /\ \A s \in Sessions : (pc[s] \in Locked) <=> (mutex = s)
    /\ \A s \in Sessions : pc[s] \in Locked \cup {"start", "stop"} => target[s] # None
    /\ \A s \in Sessions : pc[s] \in Locked \cup {"start"} => wanted[s] # None
    /\ \A s \in Sessions : (mine[s] # None) <=> (pc[s] \in Building \cup Closing)
    /\ \A s \in Sessions : pc[s] # "idle" => result[s] = None
    /\ \A s, t \in Sessions : mine[s] # None /\ mine[s] = mine[t] => s = t
    /\ database # "open" => \A s \in Sessions : pc[s] = "idle"

\* The server a session builds or closes.
MineInv ==
    \A s \in Sessions :
        /\ pc[s] \in Building =>
              /\ servers[target[s]] = None
              /\ phase[mine[s]] = "building"
              /\ uri[mine[s]] = target[s]
              /\ config[mine[s]] = wanted[s]
        /\ pc[s] \in Closing => phase[mine[s]] = "closing"
        /\ pc[s] = "register" => mine[s] \in bound

\* A socket belongs to a server that is registered or held by a session.
BoundInv ==
    \A i \in bound :
        /\ uri[i] # None
        /\ \/ servers[uri[i]] = i
           \/ \E s \in Sessions : mine[s] = i /\ pc[s] \in {"register", "closing"}

IInv == TypeOK /\ CallsInv /\ MineInv /\ RegisteredIsListening /\ BoundInv

--------------------------------------------------------------------------------
(* Liveness.                                                               *)

\* Start leaves its critical section and Close() returns, so no session keeps
\* the others from the registry.
CallsReturn ==
    \A s \in Sessions :
        /\ mutex = s ~> mutex # s
        /\ pc[s] = "closing" ~> pc[s] = "idle"

\* "The listener remains alive until datadog_stop(uri) is called or the owning
\* DuckDB database closes."
ClosingStopsListeners == database = "closed" ~> bound = {}
================================================================================
