----------------------------- MODULE McpServers -----------------------------
(***************************************************************************)
(* The life of one MCP server, an outside process that offers tools        *)
(* (service/mcp/server: manager/lifecycle.rs, manager/reconnect.rs,        *)
(* process.rs, registry.rs, connection.rs): the calls of clients that      *)
(* start, stop, restart, initialize and remove it, the monitor that        *)
(* reconnects it, and the health check each successful start spawns.       *)
(*                                                                         *)
(* The registry maps the server's id to an MCPServerProcess behind a lock  *)
(* of its own.  Registering twice makes two of them: `process` has them    *)
(* all, in the order they are made.  A call looks its process up and waits *)
(* for the lock; in between, the registry may be given another one.        *)
(***************************************************************************)
EXTENDS Integers, FiniteSets

CONSTANTS
    MaxRequests,   \* bound: how many calls clients make
    Kinds,         \* what clients ask for
    MaxAttempts,   \* ReconnectPolicy::max_attempts
    MaxRestarts,   \* MCPServerProcess::max_restarts
    MaxRegistered, \* bound: how many times the server is registered
    MaxSpawned,    \* bound: how many children are spawned
    MaxFaults      \* bound: how many children die, spawns, handshakes and pings fail

None      == 0
Requests  == 1 .. MaxRequests           \* the calls of clients, in the order they are made
Monitor   == MaxRequests + 1            \* the task of run_reconnect_monitor
Tasks     == Requests \cup {Monitor}
Processes == 1 .. MaxRegistered
Children  == 1 .. MaxSpawned

RequestKinds == {"start", "stop", "restart", "initialize", "reinitialize", "remove"}

ASSUME McpAssumption ==
    /\ Kinds \subseteq RequestKinds
    /\ MaxRequests \in Nat /\ MaxAttempts \in Nat /\ MaxRestarts \in Nat
    /\ MaxRegistered \in Nat /\ MaxSpawned \in Nat /\ MaxFaults \in Nat

VARIABLES
    config,     \* the server is in the configuration, enabled and started automatically
    registry,   \* MCPServerRegistry::servers: the process of the server's id
    writer,     \* who holds the registry's write lock while it waits for a process
    registered, \* how many processes have been made
    process,    \* MCPServerProcess: [status, child, restarts, lock]
    alive,      \* the children that the operating system runs
    spawned,    \* how many children have been spawned
    owner,      \* the process that spawned each, whose status its health check writes
    check,      \* start_health_check of each child
    pool,       \* MCPConnectionPool::connections: the child whose connection tools use
    attempts,   \* reconnect_states: attempts, 0 where there is no entry
    task,       \* the calls under way: [kind, op, step, process]
    faults,     \* how many faults there have been
    bare,       \* history: the children started by restart_server
    mixed,      \* history: a call published or withdrew the connection of a replaced process
    down        \* history: stopped or removed by a client with nothing else under way, not started since

registryVars == <<config, registry, writer, registered>>
childVars    == <<alive, spawned, owner, check>>
history      == <<bare, mixed, down>>
vars == <<registryVars, process, childVars, pool, attempts, task, faults, history>>

Running   == {"connected", "healthy"}
Retryable == {"reconnecting", "failed"}
Statuses  == Running \cup Retryable \cup {"uninitialized", "starting", "stopped"}
Ops       == {"none", "look", "start", "stop", "restart", "clear", "register", "remove"}
Steps     == {"idle", "done", "ensure", "register", "lookup", "read", "launch", "relaunch",
              "spawn", "handshake", "publish", "stop", "seize", "reap", "tidy"}
Checks    == {"none", "waits", "pings", "answered"}

New     == [status |-> "uninitialized", child |-> None, restarts |-> 0, lock |-> None]
Rest(t) == [kind |-> "none", op |-> "none", process |-> None,
            step |-> IF t = Monitor THEN "idle" ELSE "done"]

Init ==
    /\ config = TRUE /\ registry = None /\ writer = None /\ registered = 0
    /\ process = [p \in Processes |-> New]
    /\ alive = {} /\ spawned = 0
    /\ owner = [c \in Children |-> None] /\ check = [c \in Children |-> "none"]
    /\ pool = None /\ attempts = 0 /\ faults = 0
    /\ task = [t \in Tasks |-> [Rest(t) EXCEPT !.step = "idle"]]
    /\ bare = {} /\ mixed = FALSE /\ down = FALSE
-----------------------------------------------------------------------------
\* The operations each call is made of, and the step each begins with.
Opening(kind) ==
    CASE kind \in {"initialize", "reconnect"} -> "look"
      [] kind = "reinitialize" -> IF registry = None THEN "register" ELSE "stop"
      [] OTHER -> kind

Following(kind, op) ==
    CASE op = "look" /\ kind = "initialize"   -> "start"
      [] op = "look" /\ kind = "reconnect"    -> "stop"
      [] op = "stop" /\ kind = "reconnect"    -> "start"
      [] op = "stop" /\ kind = "reinitialize" -> "clear"
      [] op = "clear"    -> "register"
      [] op = "register" -> "start"
      [] OTHER -> "none"

FirstStep(op) ==
    CASE op \in {"look", "start", "restart"} -> "ensure"
      [] op = "stop"     -> "lookup"
      [] op = "register" -> "register"
      [] OTHER           -> "seize"

AfterLookup(op) ==
    CASE op = "look"    -> "read"
      [] op = "start"   -> "launch"
      [] op = "restart" -> "relaunch"
      [] OTHER          -> "stop"

Doing(kind, op) == [kind |-> kind, op |-> op, step |-> FirstStep(op), process |-> None]

Begin(t, kind) == task' = [task EXCEPT ![t] = Doing(kind, Opening(kind))]
Take(t, step, p) == task' = [task EXCEPT ![t] = [kind |-> task[t].kind, op |-> task[t].op,
                                                 step |-> step, process |-> p]]
Go(t, step)    == Take(t, step, task[t].process)
Finish(t)      == task' = [task EXCEPT ![t] = Rest(t)]

\* The operation is over, an error of it included, and the call goes on.
EndOp(t) ==
    LET then == Following(task[t].kind, task[t].op)
    IN  IF then = "none" THEN Finish(t)
        ELSE task' = [task EXCEPT ![t] = Doing(task[t].kind, then)]

At(t, step) == task[t].step = step
Mine(t)     == task[t].process
Status(p)   == process[p].status
Child(p)    == process[p].child
Restarts(p) == process[p].restarts
Lock(p)     == process[p].lock
Unlocked(p) == Lock(p) = None

\* Mutant: a process that is dropped leaves its child alone.
DropKeeping(reg, kids) == alive' = kids

\* MCPServerProcess::drop: a process that neither the registry (reg by then)
\* nor a call refers to any longer kills its child.
Drop(reg, kids) ==
    alive' = kids \ {Child(p) : p \in
                       {q \in Processes : q # reg /\ \A t \in Tasks : task'[t].process # q}}

\* The process p gets another status, child, count of restarts or holder of its lock.
Put(p, status, child, restarts, lock) ==
    process' = [process EXCEPT ![p] = [status |-> status, child |-> child,
                                       restarts |-> restarts, lock |-> lock]]
Mark(p, status) == Put(p, status, Child(p), Restarts(p), Lock(p))
-----------------------------------------------------------------------------
\* A client calls start_server, stop_server, restart_server,
\* initialize_non_destructive, initialize_all or remove_server.
Ask(r, kind) ==
    /\ At(r, "idle") /\ \A q \in 1 .. r - 1 : ~At(q, "idle")
    /\ kind = "reinitialize" => writer = None
    /\ Begin(r, kind)
    /\ down' = (down /\ kind \in {"stop", "remove"})
    /\ UNCHANGED <<registryVars, process, childVars, pool, attempts, faults, bare, mixed>>

\* reconnect_once
Poll ==
    /\ At(Monitor, "idle") /\ writer = None
    /\ registry # None \/ attempts > 0
    /\ config
    /\ Begin(Monitor, "reconnect")
    /\ UNCHANGED <<registryVars, process, childVars, pool, attempts, faults, history>>

\* A poll that finds nothing registered and nothing to reconnect.
PollIdle ==
    /\ At(Monitor, "idle") /\ writer = None
    /\ ~config \/ (registry = None /\ attempts = 0)
    /\ UNCHANGED vars

\* The instance ends where a bound is reached.
AtBound == registered = MaxRegistered \/ spawned = MaxSpawned
Ended   == AtBound /\ UNCHANGED vars

\* The monitor looks at the configuration it read as it was polled.
Polled(t) == task[t].kind = "reconnect" /\ task[t].op = "look"

\* start_server, get_server_status and ensure_registered ask for the
\* configuration and look whether the server is registered.
Ensure(t) ==
    /\ At(t, "ensure") /\ writer = None
    /\ \/ registry # None /\ (config \/ Polled(t)) /\ Go(t, "lookup")
       \/ registry = None /\ config /\ Go(t, "register")
       \/ ~config /\ (registry = None \/ ~Polled(t)) /\ Finish(t)
    /\ UNCHANGED <<registryVars, process, childVars, pool, attempts, faults, history>>

\* MCPServerRegistry::register puts a new process in the place of any old one.
Register(t) ==
    /\ At(t, "register") /\ writer = None
    /\ config \/ task[t].op # "register"
    /\ registered < MaxRegistered
    /\ registered' = registered + 1 /\ registry' = registered'
    /\ IF task[t].op = "register" THEN EndOp(t) ELSE Go(t, "lookup")
    /\ Drop(registered', alive)
    /\ UNCHANGED <<config, writer, process, spawned, owner, check, pool, attempts, faults, history>>

\* initialize_all finds no server in the configuration.
Unconfigured(t) ==
    /\ At(t, "register") /\ task[t].op = "register" /\ ~config
    /\ Finish(t)
    /\ UNCHANGED <<registryVars, process, childVars, pool, attempts, faults, history>>

\* MCPServerRegistry::get_process
Lookup(t) ==
    /\ At(t, "lookup") /\ writer = None
    /\ \/ /\ registry # None
          /\ Take(t, AfterLookup(task[t].op), registry)
       \/ /\ registry = None
          /\ IF task[t].op = "look" /\ t = Monitor THEN Finish(t) ELSE EndOp(t)
    /\ UNCHANGED <<registryVars, process, childVars, pool, attempts, faults, history>>
-----------------------------------------------------------------------------
\* initialize_non_destructive starts the server unless it is running.
ReadByClient(r) ==
    /\ At(r, "read") /\ Unlocked(Mine(r))
    /\ IF Status(Mine(r)) \in Running THEN Finish(r) ELSE EndOp(r)
    /\ Drop(registry, alive)
    /\ UNCHANGED <<registryVars, process, spawned, owner, check, pool, attempts, faults, history>>

\* Mutant: a server that was stopped is reconnected as well.
ReconnectAny ==
    /\ At(Monitor, "read") /\ Unlocked(Mine(Monitor))
    /\ Status(Mine(Monitor)) \notin Running /\ attempts < MaxAttempts
    /\ attempts' = attempts + 1
    /\ EndOp(Monitor)
    /\ Drop(registry, alive)
    /\ UNCHANGED <<registryVars, process, spawned, owner, check, pool, faults, history>>

\* Mutant: the limit of attempts is off by one.
ReconnectLate ==
    /\ At(Monitor, "read") /\ Unlocked(Mine(Monitor))
    /\ Status(Mine(Monitor)) \in Retryable /\ attempts <= MaxAttempts
    /\ attempts' = attempts + 1
    /\ EndOp(Monitor)
    /\ Drop(registry, alive)
    /\ UNCHANGED <<registryVars, process, spawned, owner, check, pool, faults, history>>

\* reconnect_once and try_reconnect_server act on the status they read.  The
\* polls that find the delay has not passed yet do nothing and are left out.
Reconnect ==
    /\ At(Monitor, "read") /\ Unlocked(Mine(Monitor))
    /\ Status(Mine(Monitor)) \in Retryable /\ attempts < MaxAttempts
    /\ attempts' = attempts + 1
    /\ EndOp(Monitor)
    /\ Drop(registry, alive)
    /\ UNCHANGED <<registryVars, process, spawned, owner, check, pool, faults, history>>

LeaveAsIs ==
    /\ At(Monitor, "read") /\ Unlocked(Mine(Monitor))
    /\ ~(Status(Mine(Monitor)) \in Retryable /\ attempts < MaxAttempts)
    /\ attempts' = IF Status(Mine(Monitor)) \in Running \cup {"starting"} THEN 0 ELSE attempts
    /\ Finish(Monitor)
    /\ Drop(registry, alive)
    /\ UNCHANGED <<registryVars, process, spawned, owner, check, pool, faults, history>>
-----------------------------------------------------------------------------
Fault == faults < MaxFaults /\ faults' = faults + 1

\* start_server with the lock of its process: the server runs already, which
\* the monitor takes for a success.
AlreadyRunning(t) ==
    /\ At(t, "launch") /\ Unlocked(Mine(t)) /\ Status(Mine(t)) \in Running
    /\ attempts' = IF t = Monitor THEN 0 ELSE attempts
    /\ EndOp(t)
    /\ Drop(registry, alive)
    /\ UNCHANGED <<registryVars, process, spawned, owner, check, pool, faults, history>>

\* The command is not found, and the status stays what it was.
CommandMissing(t) ==
    /\ At(t, "launch") /\ Unlocked(Mine(t)) /\ Status(Mine(t)) \notin Running
    /\ Fault
    /\ EndOp(t)
    /\ Drop(registry, alive)
    /\ UNCHANGED <<registryVars, process, spawned, owner, check, pool, attempts, history>>

\* MCPServerProcess::start, of start_server or restart_server
MaySpawn(t) == \/ At(t, "launch") /\ Unlocked(Mine(t)) /\ Status(Mine(t)) \notin Running
               \/ At(t, "spawn")

SpawnFails(t) ==
    /\ MaySpawn(t) /\ Fault
    /\ Put(Mine(t), "failed", Child(Mine(t)), Restarts(Mine(t)), None)
    /\ EndOp(t)
    /\ Drop(registry, alive)
    /\ UNCHANGED <<registryVars, spawned, owner, check, pool, attempts, history>>

Spawn(t) ==
    /\ MaySpawn(t) /\ spawned < MaxSpawned
    /\ spawned' = spawned + 1
    /\ Put(Mine(t), "starting", spawned', Restarts(Mine(t)), t)
    /\ owner' = [owner EXCEPT ![spawned'] = Mine(t)]
    /\ alive' = alive \cup {spawned'}
    /\ bare' = IF task[t].op = "restart" THEN bare \cup {spawned'} ELSE bare
    /\ Go(t, "handshake")
    /\ UNCHANGED <<registryVars, check, pool, attempts, faults, mixed, down>>

HandshakeFails(t) ==
    LET p == Mine(t)
        c == Child(p)
    IN  /\ At(t, "handshake")
        /\ IF c \in alive THEN Fault ELSE UNCHANGED faults
        /\ Put(p, "failed", None, Restarts(p), None)
        /\ EndOp(t)
        /\ Drop(registry, alive \ {c})
        /\ UNCHANGED <<registryVars, spawned, owner, check, pool, attempts, history>>

Handshake(t) ==
    LET p == Mine(t)
        c == Child(p)
    IN  /\ At(t, "handshake") /\ c \in alive
        /\ check' = [check EXCEPT ![c] = "waits"]
        /\ \/ /\ task[t].op = "start"
              /\ Put(p, "connected", c, 0, Lock(p))
              /\ Go(t, "publish") /\ UNCHANGED alive
           \/ /\ task[t].op = "restart"
              /\ Put(p, "connected", c, 0, None)
              /\ EndOp(t) /\ Drop(registry, alive)
        /\ UNCHANGED <<registryVars, spawned, owner, pool, attempts, faults, history>>

\* Mutant: a connection that is in the pool already stays there.
PublishOnce(t) ==
    LET p == Mine(t)
    IN  /\ At(t, "publish")
        /\ pool' = IF pool = None THEN Child(p) ELSE pool
        /\ mixed' = (mixed \/ p # registry)
        /\ attempts' = 0
        /\ Put(p, Status(p), Child(p), Restarts(p), None)
        /\ EndOp(t)
        /\ Drop(registry, alive)
        /\ UNCHANGED <<registryVars, spawned, owner, check, faults, bare, down>>

\* start_server adds the connection to the pool, registers the tools, and
\* clears the reconnect state, with the lock.
Publish(t) ==
    LET p == Mine(t)
    IN  /\ At(t, "publish")
        /\ pool' = Child(p)
        /\ mixed' = (mixed \/ p # registry)
        /\ attempts' = 0
        /\ Put(p, Status(p), Child(p), Restarts(p), None)
        /\ EndOp(t)
        /\ Drop(registry, alive)
        /\ UNCHANGED <<registryVars, spawned, owner, check, faults, bare, down>>

\* restart_server: MCPServerProcess::restart gives up after max_restarts
\* that failed, or stops the child and sleeps a second before it spawns.
GiveUpRestart(t) ==
    /\ At(t, "relaunch") /\ Unlocked(Mine(t)) /\ Restarts(Mine(t)) >= MaxRestarts
    /\ Mark(Mine(t), "failed")
    /\ EndOp(t)
    /\ Drop(registry, alive)
    /\ UNCHANGED <<registryVars, spawned, owner, check, pool, attempts, faults, history>>

Relaunch(t) ==
    LET p == Mine(t)
    IN  /\ At(t, "relaunch") /\ Unlocked(p) /\ Restarts(p) < MaxRestarts
        /\ Put(p, "stopped", None, Restarts(p) + 1, t)
        /\ alive' = alive \ {Child(p)}
        /\ Go(t, "spawn")
        /\ UNCHANGED <<registryVars, spawned, owner, check, pool, attempts, faults, history>>
-----------------------------------------------------------------------------
\* Nothing but stops is under way that could start the server p again, nor
\* does the monitor look at a process that p has replaced.
NothingUnderWay(t, p) ==
    /\ registry = p
    /\ \A c \in Children : check[c] \notin {"pings", "answered"}
    /\ \A r \in Requests \ {t} : task[r].kind \in {"none", "stop", "remove"}
    /\ task[Monitor].op \in {"none", "look"} /\ Mine(Monitor) \in {None, p}

\* stop_server with the lock of its process
Stop(t) ==
    LET p == Mine(t)
    IN  /\ At(t, "stop") /\ Unlocked(p)
        /\ Put(p, "stopped", None, Restarts(p), None)
        /\ pool' = None
        /\ mixed' = (mixed \/ p # registry)
        /\ down' = (down \/ (task[t].kind = "stop" /\ NothingUnderWay(t, p)))
        /\ EndOp(t)
        /\ Drop(registry, alive \ {Child(p)})
        /\ UNCHANGED <<registryVars, spawned, owner, check, attempts, faults, bare>>

\* MCPServerRegistry::unregister and clear hold the registry's write lock
\* while they wait for the process and stop it.
Seize(t) ==
    /\ At(t, "seize") /\ writer = None
    /\ \/ registry = None /\ Go(t, "tidy") /\ UNCHANGED writer
       \/ registry # None /\ Take(t, "reap", registry) /\ writer' = t
    /\ UNCHANGED <<config, registry, registered, process, childVars, pool, attempts, faults, history>>

Reap(t) ==
    LET p == Mine(t)
    IN  /\ At(t, "reap") /\ Unlocked(p)
        /\ Put(p, "stopped", None, Restarts(p), None)
        /\ registry' = None /\ writer' = None
        /\ Take(t, "tidy", None)
        /\ down' = (down \/ (task[t].kind = "remove" /\ NothingUnderWay(t, p)))
        /\ Drop(None, alive \ {Child(p)})
        /\ UNCHANGED <<config, registered, spawned, owner, check, pool, attempts, faults, bare, mixed>>

\* The rest of shutdown, or of remove_server, which deletes the configuration.
Tidy(t) ==
    /\ At(t, "tidy")
    /\ attempts' = 0
    /\ config' = (config /\ task[t].op # "remove")
    /\ EndOp(t)
    /\ UNCHANGED <<registry, writer, registered, process, childVars, pool, faults, history>>
-----------------------------------------------------------------------------
\* The health check of a child reads the status at each tick, sends a ping,
\* and writes the status of the process when the ping is over.
Beat(c) ==
    /\ check[c] = "waits"
    /\ check' = [check EXCEPT ![c] = IF Status(owner[c]) \in Running THEN "pings" ELSE "none"]
    /\ UNCHANGED <<registryVars, process, alive, spawned, owner, pool, attempts, task, faults, history>>

Answer(c) ==
    /\ check[c] = "pings" /\ c \in alive
    /\ check' = [check EXCEPT ![c] = "answered"]
    /\ UNCHANGED <<registryVars, process, alive, spawned, owner, pool, attempts, task, faults, history>>

Healthy(c) ==
    /\ check[c] = "answered"
    /\ check' = [check EXCEPT ![c] = "waits"]
    /\ Mark(owner[c], "healthy")
    /\ UNCHANGED <<registryVars, alive, spawned, owner, pool, attempts, task, faults, history>>

Unhealthy(c) ==
    /\ check[c] = "pings"
    /\ IF c \in alive THEN Fault ELSE UNCHANGED faults
    /\ check' = [check EXCEPT ![c] = "waits"]
    /\ Mark(owner[c], "reconnecting")
    /\ UNCHANGED <<registryVars, alive, spawned, owner, pool, attempts, task, history>>

\* The outside process ends by itself.
Die(c) ==
    /\ c \in alive /\ Fault
    /\ alive' = alive \ {c}
    /\ UNCHANGED <<registryVars, process, spawned, owner, check, pool, attempts, task, history>>
-----------------------------------------------------------------------------
Step(t) ==
    \/ Ensure(t) \/ Register(t) \/ Unconfigured(t) \/ Lookup(t)
    \/ AlreadyRunning(t) \/ CommandMissing(t) \/ SpawnFails(t) \/ Spawn(t)
    \/ HandshakeFails(t) \/ Handshake(t) \/ Publish(t) \/ GiveUpRestart(t) \/ Relaunch(t)
    \/ Stop(t) \/ Seize(t) \/ Reap(t) \/ Tidy(t)

Watch == Poll \/ Reconnect \/ LeaveAsIs \/ Step(Monitor)
Serve(r) == ReadByClient(r) \/ Step(r)
Check(c) == Beat(c) \/ Answer(c) \/ Healthy(c) \/ Unhealthy(c)

Next ==
    \/ \E r \in Requests : Serve(r) \/ \E kind \in Kinds : Ask(r, kind)
    \/ Watch \/ PollIdle \/ Ended
    \/ \E c \in Children : Check(c) \/ Die(c)

Spec == Init /\ [][Next]_vars
-----------------------------------------------------------------------------
TypeOK ==
    /\ config \in BOOLEAN /\ registry \in 0 .. registered /\ registered \in 0 .. MaxRegistered
    /\ writer \in Tasks \cup {None}
    /\ process \in [Processes -> [status : Statuses, child : 0 .. spawned,
                                  restarts : 0 .. MaxRestarts, lock : Tasks \cup {None}]]
    /\ spawned \in 0 .. MaxSpawned
    /\ alive \subseteq 1 .. spawned
    /\ owner \in [Children -> 0 .. registered] /\ check \in [Children -> Checks]
    /\ \A c \in Children : check[c] # "none" => c <= spawned /\ owner[c] # None
    /\ pool \in 0 .. spawned /\ bare \subseteq 1 .. spawned
    /\ attempts \in 0 .. MaxAttempts /\ faults \in 0 .. MaxFaults
    /\ task \in [Tasks -> [kind : RequestKinds \cup {"none", "reconnect"}, op : Ops,
                           step : Steps, process : 0 .. registered]]
    /\ mixed \in BOOLEAN /\ down \in BOOLEAN

\* Somebody can still stop a child that runs: it is that of a process which
\* the registry or a call refers to, or its process was started again over
\* it (as start_server does of a server that is reconnecting or failed).
Reachable(p) == registry = p \/ \E t \in Tasks : Mine(t) = p

ChildHasOwner ==
    \A c \in alive : \/ Child(owner[c]) = c /\ Reachable(owner[c])
                     \/ \E d \in Children : d > c /\ owner[d] = owner[c]

\* A server that a client stopped or removed, with no ping on its way, no reconnection
\* begun and no other call under way, stays stopped until a client wants it
\* again: neither the monitor nor a health check brings it back.
StoppedStaysDown ==
    (down /\ registry # None) => Status(registry) \in {"stopped", "uninitialized"}

\* When no call holds the process, the connection that tools use is that of
\* the running server, unless restart_server started it, which publishes
\* nothing, or a call has published or withdrawn one of a replaced process.
PoolIsCurrent ==
    (registry # None /\ Unlocked(registry) /\ Status(registry) \in Running) =>
        mixed \/ Child(registry) \in {None, pool} \cup bare
=============================================================================
