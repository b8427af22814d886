-------------------------- MODULE McpServersProofs --------------------------
(* What holds of McpServers for any number of calls, attempts, restarts,    *)
(* processes, children and faults.                                          *)
EXTENDS McpServers, TLAPS

USE DEF registryVars, childVars, history

CallRecord == [kind : RequestKinds \cup {"none", "reconnect"}, op : Ops, step : Steps,
               process : 0 .. registered]

ProcessRecord == [status : Statuses, child : 0 .. spawned, restarts : 0 .. MaxRestarts,
                  lock : Tasks \cup {None}]

\* The steps with a process, the steps of each operation and the operations of
\* each kind of call.
Holding == {"read", "launch", "relaunch", "spawn", "handshake", "publish", "stop", "reap"}

StepsOf(op) ==
    CASE op = "none"     -> {"idle", "done"}
      [] op = "look"     -> {"ensure", "register", "lookup", "read"}
      [] op = "start"    -> {"ensure", "register", "lookup", "launch", "handshake", "publish"}
      [] op = "restart"  -> {"ensure", "register", "lookup", "relaunch", "spawn", "handshake"}
      [] op = "stop"     -> {"lookup", "stop"}
      [] op = "register" -> {"register"}
      [] OTHER           -> {"seize", "reap", "tidy"}

OpsOf(kind) ==
    CASE kind = "none"         -> {"none"}
      [] kind = "initialize"   -> {"look", "start"}
      [] kind = "reconnect"    -> {"look", "stop", "start"}
      [] kind = "reinitialize" -> {"stop", "clear", "register", "start"}
      [] OTHER                 -> {kind}

\* A call has a process from the lookup on, and is at a step of its operation.
Fits(v, t) ==
    /\ v.step \in Holding => v.process \in 1 .. registered
    /\ v.step \notin Holding => v.process = None
    /\ v.op \in OpsOf(v.kind)
    /\ v.step \in StepsOf(v.op)
    /\ v.kind = "reconnect" => t = Monitor

CallsFit == \A t \in Tasks : Fits(task[t], t)

\* Children belong to the processes that spawned them.
ChildrenFit ==
    /\ \A c \in 1 .. spawned : owner[c] \in 1 .. registered
    /\ \A p \in Processes : process[p].child # None => owner[process[p].child] = p
    /\ \A p \in Processes : p > registered => process[p] = New

\* What every other invariant rests on.
Base == TypeOK /\ CallsFit /\ ChildrenFit
-----------------------------------------------------------------------------
(* The calls *)

LEMMA Members ==
    /\ None \notin Tasks /\ Monitor \in Tasks /\ Monitor \notin Requests
    /\ Requests \subseteq Tasks /\ None \notin Processes /\ None \notin Children
BY McpAssumption DEF None, Tasks, Monitor, Requests, Processes, Children

\* Where a call is when an operation of it is over.
AfterOp(t) ==
    LET then == Following(task[t].kind, task[t].op)
    IN  IF then = "none" THEN Rest(t) ELSE Doing(task[t].kind, then)

AtStep(t, step) ==
    [kind |-> task[t].kind, op |-> task[t].op, step |-> step, process |-> Mine(t)]

LEMMA CallTyped ==
    ASSUME Base, NEW t \in Tasks
    PROVE  /\ task[t] \in CallRecord /\ Fits(task[t], t)
           /\ task[t].kind \in RequestKinds \cup {"none", "reconnect"}
           /\ task[t].op \in Ops /\ task[t].step \in Steps
           /\ Mine(t) \in 0 .. registered
BY DEF Base, TypeOK, CallsFit, CallRecord, Mine

\* A call that rests, and one that begins an operation of its kind.
LEMMA RestFits ==
    ASSUME Base, NEW t \in Tasks
    PROVE  /\ Rest(t) \in CallRecord /\ Fits(Rest(t), t)
           /\ Rest(t).process = None /\ Rest(t).kind = "none" /\ Rest(t).op = "none"
           /\ Rest(t).step \in {"idle", "done"}
<1>1. registered \in Nat
  BY McpAssumption DEF Base, TypeOK
<1>2. CASE t = Monitor
  BY <1>1, <1>2 DEF Rest, CallRecord, Fits, Holding, StepsOf, OpsOf, None, Ops, Steps
<1>3. CASE t # Monitor
  BY <1>1, <1>3 DEF Rest, CallRecord, Fits, Holding, StepsOf, OpsOf, None, Ops, Steps
<1> QED
  BY <1>2, <1>3

LEMMA DoingFits ==
    ASSUME Base, NEW t \in Tasks, NEW kind \in RequestKinds \cup {"reconnect"},
           NEW op \in OpsOf(kind), kind = "reconnect" => t = Monitor
    PROVE  /\ Doing(kind, op) \in CallRecord /\ Fits(Doing(kind, op), t)
           /\ Doing(kind, op).process = None /\ Doing(kind, op).kind = kind
           /\ Doing(kind, op).op = op
           /\ Doing(kind, op).step \in {"ensure", "lookup", "register", "seize"}
<1>1. registered \in Nat
  BY McpAssumption DEF Base, TypeOK
<1>2. op \in {"look", "start", "stop", "restart", "clear", "register", "remove"}
  BY DEF OpsOf, RequestKinds
<1>3. /\ FirstStep(op) \in {"ensure", "lookup", "register", "seize"}
      /\ FirstStep(op) \in StepsOf(op)
  BY <1>2 DEF FirstStep, StepsOf
<1>4. FirstStep(op) \in Steps /\ FirstStep(op) \notin Holding /\ op \in Ops
  BY <1>2, <1>3 DEF Steps, Holding, Ops
<1> QED
  BY <1>1, <1>3, <1>4 DEF Doing, CallRecord, Fits, None

LEMMA OpeningFits ==
    ASSUME NEW kind \in RequestKinds \cup {"reconnect"}
    PROVE  Opening(kind) \in OpsOf(kind)
BY DEF Opening, OpsOf, RequestKinds

LEMMA FollowingFits ==
    ASSUME NEW kind, NEW op \in OpsOf(kind), kind \in RequestKinds \cup {"none", "reconnect"}
    PROVE  /\ Following(kind, op) = "none" \/ Following(kind, op) \in OpsOf(kind)
           /\ kind = "none" => Following(kind, op) = "none"
<1>1. op \in {"none", "look", "start", "stop", "restart", "clear", "register", "remove"}
  BY DEF OpsOf, RequestKinds
<1>2. CASE kind \in {"none", "start", "stop", "restart", "remove"}
  BY <1>2 DEF Following, OpsOf
<1>3. CASE kind \in {"initialize", "reconnect", "reinitialize"}
  BY <1>3 DEF Following, OpsOf
<1> QED
  BY <1>2, <1>3 DEF RequestKinds

LEMMA AfterOpFits ==
    ASSUME Base, NEW t \in Tasks
    PROVE  /\ AfterOp(t) \in CallRecord /\ Fits(AfterOp(t), t)
           /\ AfterOp(t).process = None
           /\ AfterOp(t).step \in {"idle", "done", "ensure", "lookup", "register", "seize"}
           /\ AfterOp(t).kind \in {"none", task[t].kind}
           /\ AfterOp(t).op \in {"none", Following(task[t].kind, task[t].op)}
<1> DEFINE kind == task[t].kind
           then == Following(kind, task[t].op)
<1>1. /\ kind \in RequestKinds \cup {"none", "reconnect"} /\ task[t].op \in OpsOf(kind)
      /\ kind = "reconnect" => t = Monitor
  BY CallTyped DEF Fits
<1>2. then = "none" \/ (then \in OpsOf(kind) /\ kind # "none")
  BY <1>1, FollowingFits
<1>3. CASE then = "none"
  BY <1>3, RestFits DEF AfterOp
<1>4. CASE then # "none"
  <2>1. kind \in RequestKinds \cup {"reconnect"} /\ then \in OpsOf(kind)
    BY <1>1, <1>2, <1>4
  <2>2. AfterOp(t) = Doing(kind, then)
    BY <1>4 DEF AfterOp
  <2> QED
    BY <1>1, <2>1, <2>2, DoingFits
<1> QED
  BY <1>3, <1>4

LEMMA EndOpIs ==
    ASSUME NEW t, EndOp(t)
    PROVE  task' = [task EXCEPT ![t] = AfterOp(t)]
BY DEF EndOp, AfterOp, Finish

LEMMA GoIs ==
    ASSUME Base, NEW t \in Tasks, NEW step \in Steps, Go(t, step),
           step \in Holding <=> task[t].step \in Holding, step \in StepsOf(task[t].op)
    PROVE  /\ task' = [task EXCEPT ![t] = AtStep(t, step)]
           /\ AtStep(t, step) \in CallRecord /\ Fits(AtStep(t, step), t)
<1>1. task[t] \in CallRecord /\ Fits(task[t], t)
  BY CallTyped
<1>3. task' = [task EXCEPT ![t] = AtStep(t, step)]
  BY DEF Go, Take, AtStep, Mine
<1> QED
  BY <1>1, <1>3 DEF AtStep, Mine, CallRecord, Fits

\* One call goes on, the others stay where they are.
LEMMA CallMoves ==
    ASSUME Base, NEW t \in Tasks, NEW v \in CallRecord, Fits(v, t),
           task' = [task EXCEPT ![t] = v]
    PROVE  /\ task' \in [Tasks -> CallRecord]
           /\ \A u \in Tasks : Fits(task'[u], u)
           /\ task'[t] = v
           /\ \A u \in Tasks : u # t => task'[u] = task[u]
BY DEF Base, TypeOK, CallsFit, CallRecord

\* What a call does at the end of an operation.
LEMMA EndOpMoves ==
    ASSUME Base, NEW t \in Tasks, EndOp(t)
    PROVE  /\ task' \in [Tasks -> CallRecord]
           /\ \A u \in Tasks : Fits(task'[u], u)
           /\ task'[t] = AfterOp(t)
           /\ \A u \in Tasks : u # t => task'[u] = task[u]
BY EndOpIs, AfterOpFits, CallMoves

LEMMA FinishMoves ==
    ASSUME Base, NEW t \in Tasks, Finish(t)
    PROVE  /\ task' \in [Tasks -> CallRecord]
           /\ \A u \in Tasks : Fits(task'[u], u)
           /\ task'[t] = Rest(t)
           /\ \A u \in Tasks : u # t => task'[u] = task[u]
BY RestFits, CallMoves DEF Finish

LEMMA BeginMoves ==
    ASSUME Base, NEW t \in Tasks, NEW kind \in RequestKinds \cup {"reconnect"},
           kind = "reconnect" => t = Monitor, Begin(t, kind)
    PROVE  /\ task' \in [Tasks -> CallRecord]
           /\ \A u \in Tasks : Fits(task'[u], u)
           /\ task'[t] = Doing(kind, Opening(kind))
           /\ \A u \in Tasks : u # t => task'[u] = task[u]
BY OpeningFits, DoingFits, CallMoves DEF Begin

LEMMA GoMoves ==
    ASSUME Base, NEW t \in Tasks, NEW step \in Steps, Go(t, step),
           step \in Holding <=> task[t].step \in Holding, step \in StepsOf(task[t].op)
    PROVE  /\ task' \in [Tasks -> CallRecord]
           /\ \A u \in Tasks : Fits(task'[u], u)
           /\ task'[t] = AtStep(t, step)
           /\ \A u \in Tasks : u # t => task'[u] = task[u]
BY GoIs, CallMoves
-----------------------------------------------------------------------------
(* Types *)

LEMMA ProcessTyped ==
    ASSUME Base, NEW p \in 1 .. registered
    PROVE  /\ p \in Processes /\ p # None /\ process[p] \in ProcessRecord
           /\ process[p].status \in Statuses /\ process[p].child \in 0 .. spawned
           /\ process[p].restarts \in 0 .. MaxRestarts /\ process[p].lock \in Tasks \cup {None}
BY McpAssumption DEF Base, TypeOK, Processes, ProcessRecord, None

\* One process changes, and may lose its child.
LEMMA PutMoves ==
    ASSUME Base, NEW p \in 1 .. registered, NEW status \in Statuses, NEW child,
           NEW restarts \in 0 .. MaxRestarts, NEW lock \in Tasks \cup {None},
           child \in {Child(p), None}, Put(p, status, child, restarts, lock)
    PROVE  /\ process' \in [Processes -> ProcessRecord]
           /\ process'[p] = [status |-> status, child |-> child, restarts |-> restarts,
                             lock |-> lock]
           /\ \A q \in Processes : q # p => process'[q] = process[q]
           /\ \A q \in Processes : process'[q].child \in {process[q].child, None}
           /\ \A q \in Processes : q > registered => process'[q] = process[q]
<1> DEFINE w == [status |-> status, child |-> child, restarts |-> restarts, lock |-> lock]
<1>1. p \in Processes /\ process \in [Processes -> ProcessRecord] /\ registered \in Nat
  BY ProcessTyped, McpAssumption DEF Base, TypeOK, ProcessRecord
<1>2. child \in 0 .. spawned
  BY ProcessTyped, McpAssumption DEF Child, Base, TypeOK, None
<1>3. w \in ProcessRecord
  BY <1>2 DEF ProcessRecord
<1>4. process' = [process EXCEPT ![p] = w]
  BY DEF Put
<1> QED
  BY <1>1, <1>3, <1>4 DEF Child

LEMMA SameProcesses ==
    ASSUME Base, process' = process
    PROVE  /\ process' \in [Processes -> ProcessRecord]
           /\ \A q \in Processes : process'[q].child \in {process[q].child, None}
           /\ \A q \in Processes : q > registered => process'[q] = process[q]
BY DEF Base, TypeOK, ProcessRecord

\* What a step keeps that neither registers a process nor spawns a child.
LEMMA BaseKept ==
    ASSUME Base,
           task' \in [Tasks -> CallRecord], \A u \in Tasks : Fits(task'[u], u),
           process' \in [Processes -> ProcessRecord],
           \A q \in Processes : process'[q].child \in {process[q].child, None},
           \A q \in Processes : q > registered => process'[q] = process[q],
           registry' \in {registry, None}, alive' \subseteq alive, pool' \in 0 .. spawned,
           check' \in [Children -> Checks],
           \A c \in Children : check'[c] # "none" => c <= spawned,
           config' \in BOOLEAN, writer' \in Tasks \cup {None}, attempts' \in 0 .. MaxAttempts,
           faults' \in 0 .. MaxFaults, mixed' \in BOOLEAN, down' \in BOOLEAN,
           UNCHANGED <<registered, spawned, owner, bare>>
    PROVE  Base'
<1>0. registered \in Nat /\ spawned \in Nat /\ spawned <= MaxSpawned /\ registered <= MaxRegistered
  BY McpAssumption DEF Base, TypeOK
<1>1. registry' \in 0 .. registered
  BY <1>0 DEF Base, TypeOK, None
<1>2. alive' \subseteq 1 .. spawned
  BY DEF Base, TypeOK
<1>3. \A c \in Children : check'[c] # "none" => c <= spawned /\ owner[c] # None
  <2>1. \A c \in Children : c <= spawned => c \in 1 .. spawned
    BY <1>0, McpAssumption DEF Children
  <2> QED
    BY <1>0, <2>1 DEF Base, ChildrenFit, None
<1>4. TypeOK'
  BY <1>0, <1>1, <1>2, <1>3 DEF Base, TypeOK, CallRecord, ProcessRecord
<1>5. CallsFit'
  BY DEF CallsFit, Fits
<1>6. ChildrenFit'
  <2>1. \A c \in 1 .. spawned : owner[c] \in 1 .. registered
    BY DEF Base, ChildrenFit
  <2>2. \A p \in Processes : process'[p].child # None => owner[process'[p].child] = p
    BY DEF Base, ChildrenFit
  <2>3. \A p \in Processes : p > registered => process'[p] = New
    BY DEF Base, ChildrenFit
  <2> QED
    BY <2>1, <2>2, <2>3 DEF ChildrenFit
<1> QED
  BY <1>4, <1>5, <1>6 DEF Base

\* The types of what a step leaves as it is.
LEMMA BaseTypes ==
    ASSUME Base
    PROVE  /\ config \in BOOLEAN /\ registry \in 0 .. registered /\ writer \in Tasks \cup {None}
           /\ registered \in Nat /\ spawned \in Nat /\ pool \in 0 .. spawned
           /\ None \in 0 .. spawned
           /\ check \in [Children -> Checks]
           /\ \A c \in Children : check[c] # "none" => c <= spawned /\ owner[c] \in 1 .. registered
           /\ attempts \in 0 .. MaxAttempts /\ 0 \in 0 .. MaxAttempts
           /\ faults \in 0 .. MaxFaults /\ (Fault => faults' \in 0 .. MaxFaults)
           /\ mixed \in BOOLEAN /\ down \in BOOLEAN
           /\ alive \subseteq 1 .. spawned /\ 1 .. spawned \subseteq Children
<1>1. registered \in Nat /\ spawned \in Nat /\ spawned <= MaxSpawned
  BY McpAssumption DEF Base, TypeOK
<1>2. \A c \in Children : check[c] # "none" => c <= spawned /\ owner[c] \in 1 .. registered
  <2>1. \A c \in Children : c <= spawned => c \in 1 .. spawned
    BY <1>1, McpAssumption DEF Children
  <2> QED
    BY <2>1 DEF Base, TypeOK, ChildrenFit
<1>3. Fault => faults' \in 0 .. MaxFaults
  BY McpAssumption DEF Base, TypeOK, Fault
<1>4. 1 .. spawned \subseteq Children
  BY <1>1, McpAssumption DEF Children
<1> QED
  BY <1>1, <1>2, <1>3, <1>4, McpAssumption DEF Base, TypeOK, None

LEMMA DropTakes ==
    ASSUME NEW reg, NEW kids, Drop(reg, kids)
    PROVE  alive' \subseteq kids
BY DEF Drop

\* The steps of calls that change no process.
LEMMA CallStepKeeps ==
    ASSUME Base,
           task' \in [Tasks -> CallRecord], \A u \in Tasks : Fits(task'[u], u),
           config' \in BOOLEAN, writer' \in Tasks \cup {None}, alive' \subseteq alive,
           attempts' \in 0 .. MaxAttempts, faults' \in 0 .. MaxFaults, down' \in BOOLEAN,
           UNCHANGED <<registry, registered, process, spawned, owner, check, pool, bare, mixed>>
    PROVE  Base'
BY BaseKept, BaseTypes, SameProcesses

\* The process of a call at one of the steps that have one.
LEMMA MineTyped ==
    ASSUME Base, NEW t \in Tasks, task[t].step \in Holding
    PROVE  Mine(t) \in 1 .. registered
BY CallTyped DEF Fits, Mine

\* Every process but one stays, and so do the children of all.
LEMMA WorkKeeps ==
    ASSUME Base, NEW t \in Tasks,
           NEW p \in 1 .. registered, NEW status \in Statuses, NEW child,
           NEW restarts \in 0 .. MaxRestarts, NEW lock \in Tasks \cup {None},
           child \in {Child(p), None}, Put(p, status, child, restarts, lock),
           task' \in [Tasks -> CallRecord], \A u \in Tasks : Fits(task'[u], u),
           registry' \in {registry, None}, writer' \in Tasks \cup {None},
           alive' \subseteq alive, pool' \in 0 .. spawned,
           check' \in [Children -> Checks],
           \A c \in Children : check'[c] # "none" => c <= spawned,
           attempts' \in 0 .. MaxAttempts, faults' \in 0 .. MaxFaults,
           mixed' \in BOOLEAN, down' \in BOOLEAN,
           UNCHANGED <<config, registered, spawned, owner, bare>>
    PROVE  Base'
<1>1. /\ process' \in [Processes -> ProcessRecord]
      /\ \A q \in Processes : process'[q].child \in {process[q].child, None}
      /\ \A q \in Processes : q > registered => process'[q] = process[q]
  BY PutMoves
<1> QED
  BY <1>1, BaseKept, BaseTypes

LEMMA AskBase ==
    ASSUME Base, NEW r \in Requests, NEW kind \in Kinds, Ask(r, kind)
    PROVE  Base'
<1>1. r \in Tasks /\ kind \in RequestKinds /\ kind # "reconnect"
  BY Members, McpAssumption DEF RequestKinds
<1>2. Begin(r, kind)
  BY DEF Ask
<1> QED
  BY <1>1, <1>2, BeginMoves, CallStepKeeps, BaseTypes DEF Ask

LEMMA PollBase ==
    ASSUME Base, Poll
    PROVE  Base'
<1>1. Begin(Monitor, "reconnect")
  BY DEF Poll
<1> QED
  BY <1>1, Members, BeginMoves, CallStepKeeps, BaseTypes DEF Poll

LEMMA EnsureBase ==
    ASSUME Base, NEW t \in Tasks, Ensure(t)
    PROVE  Base'
<1>1. task[t].step = "ensure" /\ task[t].op \in {"look", "start", "restart"}
  BY CallTyped DEF Ensure, At, Fits, StepsOf, Ops
<1>2. CASE Go(t, "lookup")
  BY <1>1, <1>2, GoMoves, CallStepKeeps, BaseTypes DEF Ensure, Steps, Holding, StepsOf
<1>3. CASE Go(t, "register")
  BY <1>1, <1>3, GoMoves, CallStepKeeps, BaseTypes DEF Ensure, Steps, Holding, StepsOf
<1>4. CASE Finish(t)
  BY <1>4, FinishMoves, CallStepKeeps, BaseTypes DEF Ensure
<1> QED
  BY <1>2, <1>3, <1>4 DEF Ensure

LEMMA UnconfiguredBase ==
    ASSUME Base, NEW t \in Tasks, Unconfigured(t)
    PROVE  Base'
BY FinishMoves, CallStepKeeps, BaseTypes DEF Unconfigured

\* A call that takes up the process of the registry.
LEMMA TakesProcess ==
    ASSUME Base, NEW t \in Tasks, NEW step \in Steps \cap Holding, registry # None,
           step \in StepsOf(task[t].op),
           Take(t, step, registry)
    PROVE  /\ task' \in [Tasks -> CallRecord]
           /\ \A u \in Tasks : Fits(task'[u], u)
           /\ task'[t] = [kind |-> task[t].kind, op |-> task[t].op, step |-> step,
                          process |-> registry]
           /\ \A u \in Tasks : u # t => task'[u] = task[u]
<1> DEFINE v == [kind |-> task[t].kind, op |-> task[t].op, step |-> step, process |-> registry]
<1>1. task[t] \in CallRecord /\ Fits(task[t], t)
  BY CallTyped
<1>2. task' = [task EXCEPT ![t] = v]
  BY DEF Take
<1>3. registry \in 1 .. registered
  BY BaseTypes DEF None
<1>4. v \in CallRecord /\ Fits(v, t)
  BY <1>1, <1>3, BaseTypes DEF CallRecord, Fits
<1> QED
  BY <1>2, <1>4, CallMoves

LEMMA LookupBase ==
    ASSUME Base, NEW t \in Tasks, Lookup(t)
    PROVE  Base'
<1>1. task[t].step = "lookup" /\ task[t].op \in {"look", "start", "restart", "stop"}
  BY CallTyped DEF Lookup, At, Fits, StepsOf, Ops
<1>2. CASE registry # None
  <2>1. /\ AfterLookup(task[t].op) \in Steps \cap Holding
        /\ AfterLookup(task[t].op) \in StepsOf(task[t].op)
    BY <1>1 DEF AfterLookup, Steps, Holding, StepsOf
  <2> QED
    BY <1>2, <2>1, TakesProcess, CallStepKeeps, BaseTypes DEF Lookup
<1>3. CASE registry = None
  BY <1>3, EndOpMoves, FinishMoves, CallStepKeeps, BaseTypes DEF Lookup
<1> QED
  BY <1>2, <1>3

LEMMA SeizeBase ==
    ASSUME Base, NEW t \in Tasks, Seize(t)
    PROVE  Base'
<1>1. task[t].step = "seize" /\ {"seize", "reap", "tidy"} = StepsOf(task[t].op)
  BY CallTyped DEF Seize, At, Fits, StepsOf, Ops
<1>2. CASE registry = None
  BY <1>1, <1>2, GoMoves, CallStepKeeps, BaseTypes DEF Seize, Steps, Holding
<1>3. CASE registry # None
  BY <1>1, <1>3, TakesProcess, CallStepKeeps, BaseTypes DEF Seize, Steps, Holding
<1> QED
  BY <1>2, <1>3

LEMMA TidyBase ==
    ASSUME Base, NEW t \in Tasks, Tidy(t)
    PROVE  Base'
BY EndOpMoves, CallStepKeeps, BaseTypes DEF Tidy

LEMMA ReadBase ==
    ASSUME Base, NEW t \in Tasks,
           ReadByClient(t) \/ (t = Monitor /\ (Reconnect \/ LeaveAsIs))
    PROVE  Base'
<1>1. CASE ReadByClient(t)
  BY <1>1, EndOpMoves, FinishMoves, CallStepKeeps, BaseTypes, DropTakes DEF ReadByClient
<1>2. CASE t = Monitor /\ Reconnect
  <2>1. attempts' \in 0 .. MaxAttempts
    BY <1>2, BaseTypes, McpAssumption DEF Reconnect
  <2> QED
    BY <1>2, <2>1, EndOpMoves, CallStepKeeps, BaseTypes, DropTakes DEF Reconnect
<1>3. CASE t = Monitor /\ LeaveAsIs
  BY <1>3, FinishMoves, CallStepKeeps, BaseTypes, DropTakes DEF LeaveAsIs
<1> QED
  BY <1>1, <1>2, <1>3

LEMMA NotLaunchedBase ==
    ASSUME Base, NEW t \in Tasks, AlreadyRunning(t) \/ CommandMissing(t)
    PROVE  Base'
<1>1. CASE AlreadyRunning(t)
  BY <1>1, EndOpMoves, CallStepKeeps, BaseTypes, DropTakes DEF AlreadyRunning
<1>2. CASE CommandMissing(t)
  BY <1>2, EndOpMoves, CallStepKeeps, BaseTypes, DropTakes DEF CommandMissing
<1> QED
  BY <1>1, <1>2

LEMMA SpawnFailsBase ==
    ASSUME Base, NEW t \in Tasks, SpawnFails(t)
    PROVE  Base'
<1> DEFINE p == Mine(t)
<1>1. p \in 1 .. registered
  BY MineTyped DEF SpawnFails, MaySpawn, At, Holding
<1>2. Restarts(p) \in 0 .. MaxRestarts /\ "failed" \in Statuses
  BY <1>1, ProcessTyped DEF Restarts, Statuses, Retryable
<1>3. /\ Put(p, "failed", Child(p), Restarts(p), None) /\ EndOp(t)
      /\ faults' \in 0 .. MaxFaults /\ alive' \subseteq alive
      /\ UNCHANGED <<registryVars, spawned, owner, check, pool, attempts, history>>
  BY DropTakes, BaseTypes DEF SpawnFails
<1> QED
  BY <1>1, <1>2, <1>3, EndOpMoves, WorkKeeps, BaseTypes

LEMMA HandshakeFailsBase ==
    ASSUME Base, NEW t \in Tasks, HandshakeFails(t)
    PROVE  Base'
<1> DEFINE p == Mine(t)
<1>1. p \in 1 .. registered
  BY MineTyped DEF HandshakeFails, At, Holding
<1>2. Restarts(p) \in 0 .. MaxRestarts /\ "failed" \in Statuses
  BY <1>1, ProcessTyped DEF Restarts, Statuses, Retryable
<1>3. /\ Put(p, "failed", None, Restarts(p), None) /\ EndOp(t)
      /\ alive' \subseteq alive /\ faults' \in 0 .. MaxFaults
      /\ UNCHANGED <<registryVars, spawned, owner, check, pool, attempts, history>>
  BY DropTakes, BaseTypes DEF HandshakeFails
<1> QED
  BY <1>1, <1>2, <1>3, EndOpMoves, WorkKeeps, BaseTypes

LEMMA HandshakeMoves ==
    ASSUME Base, NEW t \in Tasks, Handshake(t)
    PROVE  /\ task' \in [Tasks -> CallRecord] /\ \A u \in Tasks : Fits(task'[u], u)
           /\ task'[t] \in {AfterOp(t), AtStep(t, "publish")}
           /\ \A u \in Tasks : u # t => task'[u] = task[u]
<1>1. CASE Go(t, "publish") /\ task[t].op = "start"
  BY <1>1, GoMoves DEF Handshake, At, Steps, Holding, StepsOf
<1>2. CASE EndOp(t)
  BY <1>2, EndOpMoves
<1> QED
  BY <1>1, <1>2 DEF Handshake

LEMMA HandshakeBase ==
    ASSUME Base, NEW t \in Tasks, Handshake(t)
    PROVE  Base'
<1> DEFINE p == Mine(t)
<1>1. p \in 1 .. registered
  BY MineTyped DEF Handshake, At, Holding
<1>2. Lock(p) \in Tasks \cup {None} /\ 0 \in 0 .. MaxRestarts /\ "connected" \in Statuses
  BY <1>1, ProcessTyped, McpAssumption DEF Lock, Statuses, Running
<1>3. PICK lock \in {Lock(p), None} : Put(p, "connected", Child(p), 0, lock)
  BY DEF Handshake
<1>4. lock \in Tasks \cup {None}
  BY <1>2, <1>3
<1>5. /\ check' \in [Children -> Checks]
      /\ \A d \in Children : check'[d] # "none" => d <= spawned
  BY BaseTypes DEF Handshake, Checks
<1>6. /\ alive' \subseteq alive
      /\ UNCHANGED <<registryVars, spawned, owner, pool, attempts, faults, history>>
  BY DropTakes DEF Handshake
<1> QED
  BY <1>1, <1>2, <1>3, <1>4, <1>5, <1>6, HandshakeMoves, WorkKeeps, BaseTypes

LEMMA PublishBase ==
    ASSUME Base, NEW t \in Tasks, Publish(t)
    PROVE  Base'
<1> DEFINE p == Mine(t)
<1>1. p \in 1 .. registered
  BY MineTyped DEF Publish, At, Holding
<1>2. Restarts(p) \in 0 .. MaxRestarts /\ Status(p) \in Statuses /\ Child(p) \in 0 .. spawned
  BY <1>1, ProcessTyped DEF Restarts, Status, Child
<1>3. /\ Put(p, Status(p), Child(p), Restarts(p), None)
      /\ EndOp(t) /\ pool' = Child(p) /\ attempts' = 0
      /\ mixed' = (mixed \/ p # registry) /\ alive' \subseteq alive
      /\ UNCHANGED <<registryVars, spawned, owner, check, faults, bare, down>>
  BY DropTakes DEF Publish
<1> QED
  BY <1>1, <1>2, <1>3, EndOpMoves, WorkKeeps, BaseTypes

LEMMA GiveUpBase ==
    ASSUME Base, NEW t \in Tasks, GiveUpRestart(t)
    PROVE  Base'
<1> DEFINE p == Mine(t)
<1>1. p \in 1 .. registered
  BY MineTyped DEF GiveUpRestart, At, Holding
<1>2. Restarts(p) \in 0 .. MaxRestarts /\ "failed" \in Statuses /\ Lock(p) \in Tasks \cup {None}
  BY <1>1, ProcessTyped DEF Restarts, Statuses, Retryable, Lock
<1>3. /\ Put(p, "failed", Child(p), Restarts(p), Lock(p)) /\ EndOp(t) /\ alive' \subseteq alive
      /\ UNCHANGED <<registryVars, spawned, owner, check, pool, attempts, faults, history>>
  BY DropTakes DEF GiveUpRestart, Mark
<1> QED
  BY <1>1, <1>2, <1>3, EndOpMoves, WorkKeeps, BaseTypes

LEMMA RelaunchMoves ==
    ASSUME Base, NEW t \in Tasks, Relaunch(t)
    PROVE  /\ task' \in [Tasks -> CallRecord] /\ \A u \in Tasks : Fits(task'[u], u)
           /\ task'[t] = AtStep(t, "spawn")
           /\ \A u \in Tasks : u # t => task'[u] = task[u]
<1>1. Go(t, "spawn") /\ "spawn" \in StepsOf(task[t].op)
  BY CallTyped DEF Relaunch, At, Fits, StepsOf, Ops
<1> QED
  BY <1>1, GoMoves DEF Relaunch, At, Steps, Holding

LEMMA RelaunchBase ==
    ASSUME Base, NEW t \in Tasks, Relaunch(t)
    PROVE  Base'
<1> DEFINE p == Mine(t)
<1>1. p \in 1 .. registered
  BY MineTyped DEF Relaunch, At, Holding
<1>2. Restarts(p) + 1 \in 0 .. MaxRestarts /\ "stopped" \in Statuses
  BY <1>1, ProcessTyped, McpAssumption DEF Restarts, Statuses, Relaunch
<1>3. /\ Put(p, "stopped", None, Restarts(p) + 1, t) /\ alive' \subseteq alive
      /\ UNCHANGED <<registryVars, spawned, owner, check, pool, attempts, faults, history>>
  BY DEF Relaunch
<1> QED
  BY <1>1, <1>2, <1>3, RelaunchMoves, WorkKeeps, BaseTypes

LEMMA StopBase ==
    ASSUME Base, NEW t \in Tasks, Stop(t)
    PROVE  Base'
<1> DEFINE p == Mine(t)
<1>1. p \in 1 .. registered
  BY MineTyped DEF Stop, At, Holding
<1>2. Restarts(p) \in 0 .. MaxRestarts /\ "stopped" \in Statuses
  BY <1>1, ProcessTyped DEF Restarts, Statuses
<1>3. /\ Put(p, "stopped", None, Restarts(p), None)
      /\ EndOp(t) /\ pool' = None /\ alive' \subseteq alive
      /\ mixed' = (mixed \/ p # registry)
      /\ down' = (down \/ (task[t].kind = "stop" /\ NothingUnderWay(t, p)))
      /\ UNCHANGED <<registryVars, spawned, owner, check, attempts, faults, bare>>
  BY DropTakes DEF Stop
<1> QED
  BY <1>1, <1>2, <1>3, EndOpMoves, WorkKeeps, BaseTypes

LEMMA ReapMoves ==
    ASSUME Base, NEW t \in Tasks, Reap(t)
    PROVE  /\ task' \in [Tasks -> CallRecord]
           /\ \A u \in Tasks : Fits(task'[u], u)
           /\ task'[t] = [kind |-> task[t].kind, op |-> task[t].op, step |-> "tidy",
                          process |-> None]
           /\ \A u \in Tasks : u # t => task'[u] = task[u]
<1> DEFINE v == [kind |-> task[t].kind, op |-> task[t].op, step |-> "tidy", process |-> None]
<1>1. task[t] \in CallRecord /\ Fits(task[t], t) /\ task[t].step = "reap"
  BY CallTyped DEF Reap, At
<1>2. task' = [task EXCEPT ![t] = v]
  BY DEF Reap, Take
<1>3. "tidy" \in StepsOf(task[t].op)
  BY <1>1, CallTyped DEF Fits, StepsOf, Ops
<1>4. v \in CallRecord /\ Fits(v, t)
  BY <1>1, <1>3, BaseTypes DEF CallRecord, Fits, Steps, Holding, None
<1> QED
  BY <1>2, <1>4, CallMoves

LEMMA ReapBase ==
    ASSUME Base, NEW t \in Tasks, Reap(t)
    PROVE  Base'
<1> DEFINE p == Mine(t)
<1>1. p \in 1 .. registered
  BY MineTyped DEF Reap, At, Holding
<1>2. Restarts(p) \in 0 .. MaxRestarts /\ "stopped" \in Statuses
  BY <1>1, ProcessTyped DEF Restarts, Statuses
<1>3. /\ Put(p, "stopped", None, Restarts(p), None)
      /\ registry' = None /\ writer' = None /\ alive' \subseteq alive /\ down' \in BOOLEAN
      /\ UNCHANGED <<config, registered, spawned, owner, check, pool, attempts, faults, bare, mixed>>
  BY BaseTypes, DropTakes DEF Reap
<1> QED
  BY <1>1, <1>2, <1>3, ReapMoves, WorkKeeps, BaseTypes

\* A new process is made: nothing refers to it but the registry.
LEMMA RegisterMoves ==
    ASSUME Base, NEW t \in Tasks, Register(t)
    PROVE  /\ task' \in [Tasks -> CallRecord]
           /\ \A u \in Tasks : Fits(task'[u], u)
           /\ task'[t] \in {AfterOp(t), AtStep(t, "lookup")}
           /\ \A u \in Tasks : u # t => task'[u] = task[u]
<1>1. task[t].step = "register" /\ "register" \in StepsOf(task[t].op) /\ task[t].op \in Ops
  BY CallTyped DEF Register, At, Fits
<1>2. CASE EndOp(t)
  BY <1>2, EndOpMoves
<1>3. CASE task[t].op # "register" /\ Go(t, "lookup")
  <2>1. "lookup" \in StepsOf(task[t].op)
    BY <1>1, <1>3 DEF StepsOf, Ops
  <2> QED
    BY <1>1, <1>3, <2>1, GoMoves DEF Steps, Holding
<1> QED
  BY <1>2, <1>3 DEF Register

LEMMA RegisterBase ==
    ASSUME Base, NEW t \in Tasks, Register(t)
    PROVE  Base'
<1>1. /\ registered \in Nat /\ registered < MaxRegistered
      /\ registered' = registered + 1 /\ registry' = registered' /\ alive' \subseteq alive
      /\ UNCHANGED <<config, writer, process, spawned, owner, check, pool, attempts, faults, history>>
  BY BaseTypes, DropTakes DEF Register
<1>2. 0 .. registered \subseteq 0 .. registered' /\ 1 .. registered \subseteq 1 .. registered'
  BY <1>1
<1>3. /\ task' \in [Tasks -> [kind : RequestKinds \cup {"none", "reconnect"}, op : Ops,
                              step : Steps, process : 0 .. registered']]
      /\ \A u \in Tasks : Fits(task'[u], u)
  BY <1>2, RegisterMoves DEF CallRecord
<1>4. TypeOK'
  <2>1. /\ registry' \in 0 .. registered' /\ registered' \in 0 .. MaxRegistered
        /\ owner' \in [Children -> 0 .. registered']
    BY <1>1, <1>2, McpAssumption DEF Base, TypeOK
  <2> QED
    BY <1>1, <1>3, <2>1 DEF Base, TypeOK
<1>5. CallsFit'
  BY <1>2, <1>3 DEF CallsFit, Fits
<1>6. ChildrenFit'
  <2>1. \A c \in 1 .. spawned : owner[c] \in 1 .. registered'
    BY <1>2 DEF Base, ChildrenFit
  <2>2. \A p \in Processes : p > registered' => process[p] = New
    BY <1>1 DEF Base, ChildrenFit, Processes
  <2> QED
    BY <1>1, <2>1, <2>2 DEF Base, ChildrenFit
<1> QED
  BY <1>4, <1>5, <1>6 DEF Base

LEMMA SpawnMoves ==
    ASSUME Base, NEW t \in Tasks, Spawn(t)
    PROVE  /\ Mine(t) \in 1 .. registered
           /\ task[t].step \in {"launch", "spawn"}
           /\ task[t].step = "launch" => task[t].op = "start"
           /\ task[t].step = "spawn" => task[t].op = "restart"
           /\ task' \in [Tasks -> CallRecord]
           /\ \A u \in Tasks : Fits(task'[u], u)
           /\ task'[t] = AtStep(t, "handshake")
           /\ \A u \in Tasks : u # t => task'[u] = task[u]
<1>1. task[t].step \in {"launch", "spawn"}
  BY DEF Spawn, MaySpawn, At
<1>2. /\ task[t].step = "launch" => task[t].op = "start"
      /\ task[t].step = "spawn" => task[t].op = "restart"
  BY <1>1, CallTyped DEF Fits, StepsOf, Ops
<1>3. "handshake" \in StepsOf(task[t].op)
  BY <1>1, <1>2 DEF StepsOf
<1>4. Mine(t) \in 1 .. registered
  BY <1>1, MineTyped DEF Holding
<1> QED
  BY <1>1, <1>2, <1>3, <1>4, GoMoves DEF Spawn, Steps, Holding

LEMMA SpawnPuts ==
    ASSUME Base, NEW t \in Tasks, Spawn(t)
    PROVE  /\ process'[Mine(t)] = [status |-> "starting", child |-> spawned + 1,
                                   restarts |-> Restarts(Mine(t)), lock |-> t]
           /\ \A q \in Processes : q # Mine(t) => process'[q] = process[q]
           /\ process' \in [Processes -> [status : Statuses, child : 0 .. spawned',
                                          restarts : 0 .. MaxRestarts,
                                          lock : Tasks \cup {None}]]
<1> DEFINE p == Mine(t)
           w == [status |-> "starting", child |-> spawned + 1, restarts |-> Restarts(p), lock |-> t]
           R == [status : Statuses, child : 0 .. spawned', restarts : 0 .. MaxRestarts,
                 lock : Tasks \cup {None}]
<1>1. p \in 1 .. registered /\ p \in Processes /\ Restarts(p) \in 0 .. MaxRestarts
  BY SpawnMoves, ProcessTyped DEF Restarts
<1>2. spawned \in Nat /\ spawned' = spawned + 1
  BY BaseTypes DEF Spawn
<1>3. process' = [process EXCEPT ![p] = w]
  BY <1>2 DEF Spawn, Put
<1>4. w \in R
  BY <1>1, <1>2 DEF Statuses
<1>5. process \in [Processes -> R]
  <2>1. 0 .. spawned \subseteq 0 .. spawned'
    BY <1>2
  <2> QED
    BY <2>1 DEF Base, TypeOK
<1> QED
  BY <1>1, <1>3, <1>4, <1>5

LEMMA SpawnBase ==
    ASSUME Base, NEW t \in Tasks, Spawn(t)
    PROVE  Base'
<1> DEFINE p == Mine(t)
           c == spawned + 1
<1>1. /\ spawned \in Nat /\ spawned < MaxSpawned /\ spawned' = c /\ c \in Children
      /\ owner' = [owner EXCEPT ![c] = p] /\ alive' = alive \cup {c}
      /\ bare' \subseteq bare \cup {c}
      /\ UNCHANGED <<registryVars, check, pool, attempts, faults, mixed, down>>
  BY BaseTypes, McpAssumption DEF Spawn, Children
<1>2. 0 .. spawned \subseteq 0 .. spawned' /\ 1 .. spawned' = (1 .. spawned) \cup {c}
  BY <1>1
<1>3. p \in 1 .. registered /\ p \in Processes /\ p # None
  BY SpawnMoves, ProcessTyped
<1>4. owner \in [Children -> 0 .. registered] /\ registered \in Nat
  BY McpAssumption DEF Base, TypeOK
<1>5. /\ owner' \in [Children -> 0 .. registered] /\ owner'[c] = p
      /\ \A d \in Children : d # c => owner'[d] = owner[d]
  BY <1>1, <1>3, <1>4
<1>6. TypeOK'
  <2>1. \A d \in Children : check[d] # "none" => d <= spawned' /\ owner'[d] # None
    <3>1. \A d \in Children : d \in Int
      BY DEF Children
    <3>2. \A d \in Children : check[d] # "none" => d <= spawned /\ owner[d] # None
      BY DEF Base, TypeOK
    <3> QED
      BY <1>1, <1>3, <1>5, <3>1, <3>2
  <2>2. alive' \subseteq 1 .. spawned' /\ bare' \subseteq 1 .. spawned' /\ pool' \in 0 .. spawned'
    BY <1>1, <1>2 DEF Base, TypeOK
  <2>3. spawned' \in 0 .. MaxSpawned
    BY <1>1, McpAssumption
  <2>4. task' \in [Tasks -> CallRecord]
    BY SpawnMoves
  <2>5. /\ registry \in 0 .. registered /\ registered \in 0 .. MaxRegistered
        /\ config \in BOOLEAN /\ writer \in Tasks \cup {None}
        /\ check \in [Children -> Checks] /\ attempts \in 0 .. MaxAttempts
        /\ faults \in 0 .. MaxFaults /\ mixed \in BOOLEAN /\ down \in BOOLEAN
    BY DEF Base, TypeOK
  <2>6. UNCHANGED <<config, registry, writer, registered, check, attempts, faults, mixed, down>>
    BY <1>1
  <2> HIDE DEF c, p
  <2> QED
    BY <1>5, <2>1, <2>2, <2>3, <2>4, <2>5, <2>6, SpawnPuts DEF TypeOK, CallRecord
<1>7. CallsFit'
  BY <1>1, SpawnMoves DEF CallsFit, Fits
<1>8. ChildrenFit'
  <2>1. \A d \in 1 .. spawned' : owner'[d] \in 1 .. registered
    <3>1. \A d \in 1 .. spawned : d \in Children /\ d # c
      BY <1>1, BaseTypes
    <3> QED
      BY <1>2, <1>3, <1>5, <3>1 DEF Base, ChildrenFit
  <2>2. ASSUME NEW q \in Processes, process'[q].child # None
        PROVE  owner'[process'[q].child] = q
    <3>1. CASE q = p
      <4>1. process'[p] = [status |-> "starting", child |-> c, restarts |-> Restarts(p),
                           lock |-> t]
        BY SpawnPuts
      <4>2. process'[p].child = c
        BY <4>1
      <4> QED
        BY <1>5, <3>1, <4>2
    <3>2. CASE q # p
      <4>1. process'[q].child = process[q].child /\ process[q].child \in 0 .. spawned
        BY <3>2, SpawnPuts DEF Base, TypeOK
      <4>2. process[q].child \in Children /\ process[q].child # c
        BY <1>1, <2>2, <4>1, BaseTypes DEF None
      <4> QED
        BY <1>5, <2>2, <4>1, <4>2 DEF Base, ChildrenFit
    <3> QED
      BY <3>1, <3>2
  <2>3. \A q \in Processes : q > registered => q # p
    BY <1>3, <1>4
  <2> QED
    <3>1. \A q \in Processes : q > registered => process'[q] = New
      BY <2>3, SpawnPuts DEF Base, ChildrenFit
    <3> QED
      BY <1>1, <2>1, <2>2, <3>1 DEF ChildrenFit
<1> QED
  BY <1>6, <1>7, <1>8 DEF Base
-----------------------------------------------------------------------------
\* The health check of a child.
LEMMA CheckMoves ==
    ASSUME Base, NEW c \in Children, Check(c)
    PROVE  /\ owner[c] \in 1 .. registered
           /\ check[c] \in {"waits", "pings", "answered"}
           /\ check' \in [Children -> Checks]
           /\ \A d \in Children : d # c => check'[d] = check[d]
           /\ check'[c] = "pings" => check[c] = "waits" /\ Status(owner[c]) \in Running
           /\ check'[c] = "answered" => check[c] = "pings"
           /\ \/ process' = process
              \/ \E status \in {"healthy", "reconnecting"} :
                     check[c] \in {"pings", "answered"} /\ Mark(owner[c], status)
           /\ alive' = alive /\ faults' \in 0 .. MaxFaults
           /\ UNCHANGED <<registryVars, spawned, owner, pool, attempts, task, history>>
<1>1. check \in [Children -> Checks] /\ (Fault => faults' \in 0 .. MaxFaults) /\ faults \in 0 .. MaxFaults
  BY BaseTypes
<1>2. CASE Beat(c)
  BY <1>1, <1>2, BaseTypes DEF Beat, Checks
<1>3. CASE Answer(c)
  BY <1>1, <1>3, BaseTypes DEF Answer, Checks
<1>4. CASE Healthy(c)
  BY <1>1, <1>4, BaseTypes DEF Healthy, Checks
<1>5. CASE Unhealthy(c)
  BY <1>1, <1>5, BaseTypes DEF Unhealthy, Checks
<1> QED
  BY <1>2, <1>3, <1>4, <1>5 DEF Check

LEMMA CallsStay ==
    ASSUME Base, task' = task
    PROVE  task' \in [Tasks -> CallRecord] /\ \A u \in Tasks : Fits(task'[u], u)
BY DEF Base, TypeOK, CallsFit, CallRecord

LEMMA CheckBase ==
    ASSUME Base, NEW c \in Children, Check(c)
    PROVE  Base'
<1>1. \A d \in Children : check'[d] # "none" => d <= spawned
  BY CheckMoves, BaseTypes
<1>2. CASE process' = process
  BY <1>1, <1>2, CheckMoves, CallsStay, BaseKept, BaseTypes, SameProcesses
<1>3. ASSUME NEW status \in {"healthy", "reconnecting"}, Mark(owner[c], status)
      PROVE  Base'
  <2> DEFINE p == owner[c]
  <2>1. p \in 1 .. registered
    BY CheckMoves
  <2>2. /\ Restarts(p) \in 0 .. MaxRestarts /\ status \in Statuses
        /\ Lock(p) \in Tasks \cup {None}
    BY <2>1, ProcessTyped DEF Restarts, Statuses, Running, Retryable, Lock
  <2>3. Put(p, status, Child(p), Restarts(p), Lock(p))
    BY <1>3 DEF Mark
  <2>4. Monitor \in Tasks
    BY Members
  <2> HIDE DEF p
  <2> QED
    BY <1>1, <2>1, <2>2, <2>3, <2>4, CheckMoves, CallsStay, WorkKeeps, BaseTypes
<1> QED
  BY <1>2, <1>3, CheckMoves

LEMMA DieBase ==
    ASSUME Base, NEW c \in Children, Die(c)
    PROVE  Base'
BY CallsStay, BaseKept, BaseTypes, SameProcesses DEF Die

\* The actions with the calls they are steps of.
LEMMA NextIs ==
    ASSUME Next
    PROVE  \/ \E r \in Requests, kind \in Kinds : Ask(r, kind)
           \/ Poll
           \/ \E t \in Tasks : \/ ReadByClient(t) /\ t # Monitor
                               \/ t = Monitor /\ (Reconnect \/ LeaveAsIs)
                               \/ Step(t)
           \/ \E c \in Children : Check(c) \/ Die(c)
           \/ UNCHANGED vars
<1>2. CASE \E r \in Requests : ReadByClient(r)
  BY <1>2, Members
<1> QED
  BY <1>2, Members DEF Next, Serve, Watch, PollIdle, Ended

LEMMA InitBase ==
    ASSUME Init
    PROVE  Base
<1> USE McpAssumption DEF Init
<1>1. registered = 0 /\ spawned = 0 /\ 0 \in 0 .. registered /\ 0 \in 0 .. spawned
  OBVIOUS
<1>2. process \in [Processes -> ProcessRecord] /\ \A p \in Processes : process[p] = New
  BY <1>1 DEF ProcessRecord, New, None, Statuses
<1>3. task = [t \in Tasks |-> [kind |-> "none", op |-> "none", step |-> "idle", process |-> None]]
  BY DEF Rest
<1>4. task \in [Tasks -> CallRecord]
  BY <1>1, <1>3 DEF CallRecord, Ops, Steps, None
<1>5. CallsFit
  BY <1>3 DEF CallsFit, Fits, Holding, OpsOf, StepsOf
<1>6. TypeOK
  <2>1. owner \in [Children -> 0 .. registered] /\ check \in [Children -> Checks]
    BY <1>1 DEF None, Checks
  <2>2. \A c \in Children : check[c] # "none" => c <= spawned /\ owner[c] # None
    OBVIOUS
  <2>3. /\ registered \in 0 .. MaxRegistered /\ spawned \in 0 .. MaxSpawned
        /\ attempts \in 0 .. MaxAttempts /\ faults \in 0 .. MaxFaults
    OBVIOUS
  <2>4. /\ registry \in 0 .. registered /\ writer \in Tasks \cup {None} /\ pool \in 0 .. spawned
        /\ alive \subseteq 1 .. spawned /\ bare \subseteq 1 .. spawned
    BY <1>1 DEF None
  <2>5. config \in BOOLEAN /\ mixed \in BOOLEAN /\ down \in BOOLEAN
    OBVIOUS
  <2> QED
    BY <1>2, <1>4, <2>1, <2>2, <2>3, <2>4, <2>5 DEF TypeOK, CallRecord, ProcessRecord
<1>7. ChildrenFit
  BY <1>1, <1>2 DEF ChildrenFit, New
<1> QED
  BY <1>5, <1>6, <1>7 DEF Base

LEMMA StepBase ==
    ASSUME Base, NEW t \in Tasks, Step(t)
    PROVE  Base'
BY EnsureBase, RegisterBase, UnconfiguredBase, LookupBase, NotLaunchedBase, SpawnFailsBase,
   SpawnBase, HandshakeFailsBase, HandshakeBase, PublishBase, GiveUpBase, RelaunchBase,
   StopBase, SeizeBase, ReapBase, TidyBase DEF Step

LEMMA BaseStep ==
    ASSUME Base, [Next]_vars
    PROVE  Base'
<1>1. CASE UNCHANGED vars
  BY <1>1 DEF vars, Base, TypeOK, CallsFit, Fits, ChildrenFit, Mine
<1>2. CASE Next
  BY <1>1, <1>2, NextIs, AskBase, PollBase, ReadBase, StepBase, CheckBase, DieBase
<1> QED
  BY <1>1, <1>2

THEOREM BaseHolds == Spec => []Base
BY InitBase, BaseStep, PTL DEF Spec

\* Every variable has its type: above all, the monitor never tries to
\* reconnect a server more often than the policy allows, nor does a process
\* count more restarts.
THEOREM McpTypeCorrect == Spec => []TypeOK
<1>1. Base => TypeOK
  BY DEF Base
<1> QED
  BY <1>1, BaseHolds, PTL
-----------------------------------------------------------------------------
(* Children that can be stopped *)

\* A child that has not been spawned yet belongs to no process.
OwnedInv == ChildHasOwner /\ \A c \in Children : c > spawned => owner[c] = None

LEMMA AliveOwned ==
    ASSUME Base, NEW c \in alive
    PROVE  c \in Children /\ c \in 1 .. spawned /\ owner[c] \in 1 .. registered /\ owner[c] \in Processes
<1>1. c \in 1 .. spawned /\ c \in Children
  BY BaseTypes
<1> QED
  BY <1>1, ProcessTyped DEF Base, ChildrenFit

\* The child that its process still has stays with it, and so does the one
\* that was followed by another.
LEMMA OwnedKept ==
    ASSUME Base, OwnedInv, alive' \subseteq alive, UNCHANGED <<spawned, owner>>,
           \A c \in alive' : Child(owner[c]) = c /\ Reachable(owner[c]) =>
                                 process'[owner[c]].child = c /\ Reachable(owner[c])'
    PROVE  OwnedInv'
BY DEF OwnedInv, ChildHasOwner, Child

\* A step that lets a call or the registry drop its process.
LEMMA OwnedDrop ==
    ASSUME Base, OwnedInv, NEW kids, kids \subseteq alive, Drop(registry', kids),
           UNCHANGED <<spawned, owner>>,
           \A c \in kids : Child(owner[c]) = c => process'[owner[c]].child = c
    PROVE  OwnedInv'
<1>1. alive' \subseteq alive /\ alive' \subseteq kids
  BY DropTakes
<1>2. ASSUME NEW c \in alive', Child(owner[c]) = c
      PROVE  Reachable(owner[c])'
  <2>1. owner[c] \in Processes
    BY <1>1, AliveOwned
  <2>2. ~(owner[c] # registry' /\ \A t \in Tasks : task'[t].process # owner[c])
    BY <1>2, <2>1 DEF Drop
  <2>3. CASE registry' = owner[c]
    BY <2>3 DEF Reachable
  <2>4. CASE \E t \in Tasks : task'[t].process = owner[c]
    BY <2>4 DEF Reachable, Mine
  <2> QED
    BY <2>2, <2>3, <2>4
<1> QED
  BY <1>1, <1>2, OwnedKept

\* A step after which every call still has the process it had.
LEMMA OwnedStay ==
    ASSUME Base, OwnedInv, alive' \subseteq alive, UNCHANGED <<registry, spawned, owner>>,
           \A u \in Tasks : Mine(u) # None => task'[u].process = Mine(u),
           \A c \in alive' : Child(owner[c]) = c => process'[owner[c]].child = c
    PROVE  OwnedInv'
<1>1. ASSUME NEW c \in alive', Reachable(owner[c])
      PROVE  Reachable(owner[c])'
  <2>1. owner[c] # None
    BY AliveOwned, ProcessTyped
  <2> QED
    BY <1>1, <2>1 DEF Reachable, Mine
<1> QED
  BY <1>1, OwnedKept

\* A process that changes keeps its child, or the child is killed.
LEMMA OneChild ==
    ASSUME Base, NEW kids, kids \subseteq alive, NEW p \in 1 .. registered,
           NEW status \in Statuses, NEW child, NEW restarts \in 0 .. MaxRestarts,
           NEW lock \in Tasks \cup {None}, Put(p, status, child, restarts, lock),
           child = Child(p) \/ (child = None /\ Child(p) \notin kids)
    PROVE  \A c \in kids : Child(owner[c]) = c => process'[owner[c]].child = c
<1>1. /\ process'[p] = [status |-> status, child |-> child, restarts |-> restarts, lock |-> lock]
      /\ \A q \in Processes : q # p => process'[q] = process[q]
  BY PutMoves
<1>2. process'[p].child = child
  BY <1>1
<1> SUFFICES ASSUME NEW c \in kids, Child(owner[c]) = c
             PROVE  process'[owner[c]].child = c
  OBVIOUS
<1>3. owner[c] \in Processes
  BY AliveOwned
<1>4. CASE owner[c] = p
  BY <1>2, <1>4
<1>5. CASE owner[c] # p
  BY <1>1, <1>3, <1>5 DEF Child
<1> QED
  BY <1>4, <1>5

\* What a call does that has no process.
LEMMA OwnedUntaken ==
    ASSUME Base, OwnedInv, NEW t \in Tasks, task[t].step \notin Holding,
           \A u \in Tasks : u # t => task'[u] = task[u],
           UNCHANGED <<registry, spawned, owner, alive, process>>
    PROVE  OwnedInv'
<1>1. Mine(t) = None
  BY CallTyped DEF Fits, Mine
<1> QED
  BY <1>1, OwnedStay DEF Mine, Child

\* A step of one call leaves the others where they are.
LEMMA OthersStay ==
    ASSUME Base, NEW t \in Tasks,
           (\E v : task' = [task EXCEPT ![t] = v]) \/ Finish(t) \/ EndOp(t)
               \/ (\E kind : Begin(t, kind)) \/ (\E step, p : Take(t, step, p))
    PROVE  \A u \in Tasks : u # t => task'[u] = task[u]
<1>1. PICK v : task' = [task EXCEPT ![t] = v]
  <2>1. CASE Finish(t)
    BY <2>1 DEF Finish
  <2>2. CASE EndOp(t)
    BY <2>2, EndOpIs
  <2>3. CASE \E kind : Begin(t, kind)
    BY <2>3 DEF Begin
  <2>4. CASE \E step, p : Take(t, step, p)
    BY <2>4 DEF Take
  <2> QED
    BY <2>1, <2>2, <2>3, <2>4
<1> QED
  BY <1>1 DEF Base, TypeOK

LEMMA UntakenOwned ==
    ASSUME Base, OwnedInv, NEW t \in Tasks,
           \/ Ensure(t) \/ Unconfigured(t) \/ Lookup(t) \/ Seize(t) \/ Tidy(t)
           \/ \E kind \in Kinds : Ask(t, kind)
           \/ t = Monitor /\ Poll
    PROVE  OwnedInv'
<1>1. CASE Ensure(t)
  <2>1. \A u \in Tasks : u # t => task'[u] = task[u]
    BY <1>1, OthersStay DEF Ensure, Go
  <2> QED
    BY <1>1, <2>1, OwnedUntaken DEF Ensure, At, Holding
<1>2. CASE Unconfigured(t)
  <2>1. \A u \in Tasks : u # t => task'[u] = task[u]
    BY <1>2, OthersStay DEF Unconfigured
  <2> QED
    BY <1>2, <2>1, OwnedUntaken DEF Unconfigured, At, Holding
<1>3. CASE Lookup(t)
  <2>1. \A u \in Tasks : u # t => task'[u] = task[u]
    BY <1>3, OthersStay DEF Lookup
  <2> QED
    BY <1>3, <2>1, OwnedUntaken DEF Lookup, At, Holding
<1>4. CASE Seize(t)
  <2>1. \A u \in Tasks : u # t => task'[u] = task[u]
    BY <1>4, OthersStay DEF Seize, Go
  <2> QED
    BY <1>4, <2>1, OwnedUntaken DEF Seize, At, Holding
<1>5. CASE Tidy(t)
  <2>1. \A u \in Tasks : u # t => task'[u] = task[u]
    BY <1>5, OthersStay DEF Tidy
  <2> QED
    BY <1>5, <2>1, OwnedUntaken DEF Tidy, At, Holding
<1>6. CASE \E kind \in Kinds : Ask(t, kind)
  <2>1. \A u \in Tasks : u # t => task'[u] = task[u]
    BY <1>6, OthersStay DEF Ask
  <2> QED
    BY <1>6, <2>1, OwnedUntaken DEF Ask, At, Holding
<1>7. CASE t = Monitor /\ Poll
  <2>1. \A u \in Tasks : u # t => task'[u] = task[u]
    BY <1>7, OthersStay DEF Poll
  <2> QED
    BY <1>7, <2>1, OwnedUntaken DEF Poll, At, Holding
<1> QED
  BY <1>1, <1>2, <1>3, <1>4, <1>5, <1>6, <1>7

\* A call is over with its process, which did not change.
LEMMA LeaveOwned ==
    ASSUME Base, OwnedInv, NEW t \in Tasks,
           \/ ReadByClient(t) \/ AlreadyRunning(t) \/ CommandMissing(t) \/ Register(t)
           \/ t = Monitor /\ (Reconnect \/ LeaveAsIs)
    PROVE  OwnedInv'
<1>1. process' = process /\ Drop(registry', alive) /\ UNCHANGED <<spawned, owner>>
  <2>1. CASE Register(t)
    BY <2>1 DEF Register
  <2>2. CASE t = Monitor /\ (Reconnect \/ LeaveAsIs)
    BY <2>2 DEF Reconnect, LeaveAsIs
  <2>3. CASE ReadByClient(t) \/ AlreadyRunning(t) \/ CommandMissing(t)
    BY <2>3 DEF ReadByClient, AlreadyRunning, CommandMissing
  <2> QED
    BY <2>1, <2>2, <2>3
<1> QED
  BY <1>1, OwnedDrop DEF Child

LEMMA CheckOwned ==
    ASSUME Base, OwnedInv, NEW c \in Children, Check(c) \/ Die(c)
    PROVE  OwnedInv'
<1>1. CASE Die(c)
  BY <1>1, OwnedStay DEF Die, Mine, Child
<1>2. CASE Check(c)
  <2>1. CASE process' = process
    BY <1>2, <2>1, CheckMoves, OwnedStay DEF Mine, Child
  <2>2. ASSUME NEW status \in {"healthy", "reconnecting"}, Mark(owner[c], status)
        PROVE  OwnedInv'
    <3> DEFINE p == owner[c]
    <3>1. p \in 1 .. registered
      BY <1>2, CheckMoves
    <3>2. /\ Restarts(p) \in 0 .. MaxRestarts /\ status \in Statuses
          /\ Lock(p) \in Tasks \cup {None}
      BY <3>1, ProcessTyped DEF Restarts, Statuses, Running, Retryable, Lock
    <3>3. Put(p, status, Child(p), Restarts(p), Lock(p))
      BY <2>2 DEF Mark
    <3> HIDE DEF p
    <3>4. \A d \in alive : Child(owner[d]) = d => process'[owner[d]].child = d
      BY <3>1, <3>2, <3>3, OneChild
    <3> QED
      BY <1>2, <3>4, CheckMoves, OwnedStay DEF Mine
  <2> QED
    BY <1>2, <2>1, <2>2, CheckMoves
<1> QED
  BY <1>1, <1>2

\* A call changes its process, kills the child the process gives up, and
\* either keeps the process or is over with it.
LEMMA WorkOwned ==
    ASSUME Base, OwnedInv, NEW t \in Tasks, NEW kids, kids \subseteq alive,
           NEW p \in 1 .. registered, NEW status \in Statuses, NEW child,
           NEW restarts \in 0 .. MaxRestarts, NEW lock \in Tasks \cup {None},
           Put(p, status, child, restarts, lock),
           child = Child(p) \/ (child = None /\ Child(p) \notin kids),
           UNCHANGED <<spawned, owner>>,
           \/ Drop(registry', kids)
           \/ /\ alive' = kids /\ UNCHANGED registry
              /\ \A u \in Tasks : task'[u].process = task[u].process
    PROVE  OwnedInv'
<1>1. \A c \in kids : Child(owner[c]) = c => process'[owner[c]].child = c
  BY OneChild
<1>2. CASE Drop(registry', kids)
  BY <1>1, <1>2, OwnedDrop
<1>3. CASE /\ alive' = kids /\ UNCHANGED registry
           /\ \A u \in Tasks : task'[u].process = task[u].process
  BY <1>1, <1>3, OwnedStay DEF Mine
<1> QED
  BY <1>2, <1>3

\* The process of a call that changes it.
LEMMA WorkTyped ==
    ASSUME Base, NEW t \in Tasks, task[t].step \in Holding
    PROVE  /\ Mine(t) \in 1 .. registered /\ Mine(t) \in Processes
           /\ Status(Mine(t)) \in Statuses
           /\ Child(Mine(t)) \in 0 .. spawned
           /\ Restarts(Mine(t)) \in 0 .. MaxRestarts
           /\ Lock(Mine(t)) \in Tasks \cup {None}
           /\ None \in Tasks \cup {None} /\ 0 \in 0 .. MaxRestarts
           /\ {"failed", "connected", "starting", "stopped"} \subseteq Statuses
<1>1. Mine(t) \in 1 .. registered
  BY MineTyped
<1> QED
  BY <1>1, ProcessTyped, McpAssumption
     DEF Status, Child, Restarts, Lock, Statuses, Running, Retryable

LEMMA FailOwned ==
    ASSUME Base, OwnedInv, NEW t \in Tasks,
           SpawnFails(t) \/ HandshakeFails(t) \/ GiveUpRestart(t)
    PROVE  OwnedInv'
<1> DEFINE p == Mine(t)
<1>1. task[t].step \in Holding
  BY DEF SpawnFails, MaySpawn, HandshakeFails, GiveUpRestart, At, Holding
<1>2. CASE SpawnFails(t)
  <2>1. /\ Put(p, "failed", Child(p), Restarts(p), None) /\ Drop(registry', alive)
        /\ UNCHANGED <<spawned, owner>>
    BY <1>2 DEF SpawnFails
  <2> QED
    BY <1>1, <2>1, WorkTyped, WorkOwned
<1>3. CASE HandshakeFails(t)
  <2>1. /\ Put(p, "failed", None, Restarts(p), None) /\ Drop(registry', alive \ {Child(p)})
        /\ UNCHANGED <<spawned, owner>>
    BY <1>3 DEF HandshakeFails
  <2>2. alive \ {Child(p)} \subseteq alive /\ Child(p) \notin alive \ {Child(p)}
    OBVIOUS
  <2> QED
    BY <1>1, <2>1, <2>2, WorkTyped, WorkOwned
<1>4. CASE GiveUpRestart(t)
  <2>1. /\ Put(p, "failed", Child(p), Restarts(p), Lock(p)) /\ Drop(registry', alive)
        /\ UNCHANGED <<spawned, owner>>
    BY <1>4 DEF GiveUpRestart, Mark
  <2> QED
    BY <1>1, <2>1, WorkTyped, WorkOwned
<1> QED
  BY <1>2, <1>3, <1>4

LEMMA StartOwned ==
    ASSUME Base, OwnedInv, NEW t \in Tasks, Handshake(t) \/ Publish(t) \/ Relaunch(t)
    PROVE  OwnedInv'
<1> DEFINE p == Mine(t)
<1>1. task[t].step \in Holding
  BY DEF Handshake, Publish, Relaunch, At, Holding
<1>2. CASE Handshake(t)
  <2>1. \E lock \in {Lock(p), None} : Put(p, "connected", Child(p), 0, lock)
    BY <1>2 DEF Handshake
  <2>2. PICK lock \in {Lock(p), None} : Put(p, "connected", Child(p), 0, lock)
    BY <2>1
  <2>3. UNCHANGED <<registry, spawned, owner>>
    BY <1>2 DEF Handshake
  <2>4. CASE Drop(registry, alive)
    BY <1>1, <2>2, <2>3, <2>4, WorkTyped, WorkOwned
  <2>5. CASE Go(t, "publish") /\ UNCHANGED alive
    <3>1. task'[t] = AtStep(t, "publish") /\ \A u \in Tasks : u # t => task'[u] = task[u]
      <4>1. \A u \in Tasks : u # t => task'[u] = task[u]
        BY <2>5, OthersStay DEF Go
      <4>2. task' = [task EXCEPT ![t] = AtStep(t, "publish")]
        BY <2>5 DEF Go, Take, AtStep, Mine
      <4> QED
        BY <4>1, <4>2 DEF Base, TypeOK
    <3>2. \A u \in Tasks : task'[u].process = task[u].process
      BY <3>1 DEF AtStep, Mine
    <3> QED
      BY <1>1, <2>2, <2>3, <2>5, <3>2, WorkTyped, WorkOwned
  <2> QED
    BY <1>2, <2>4, <2>5 DEF Handshake
<1>3. CASE Publish(t)
  <2>1. /\ Put(p, Status(p), Child(p), Restarts(p), None) /\ Drop(registry', alive)
        /\ UNCHANGED <<spawned, owner>>
    BY <1>3 DEF Publish
  <2> QED
    BY <1>1, <2>1, WorkTyped, WorkOwned
<1>4. CASE Relaunch(t)
  <2>1. /\ Put(p, "stopped", None, Restarts(p) + 1, t) /\ alive' = alive \ {Child(p)}
        /\ UNCHANGED <<registry, spawned, owner>> /\ Restarts(p) + 1 \in 0 .. MaxRestarts
    BY <1>1, <1>4, WorkTyped, McpAssumption DEF Relaunch
  <2>2. \A u \in Tasks : task'[u].process = task[u].process
    <3>1. task'[t] = AtStep(t, "spawn") /\ \A u \in Tasks : u # t => task'[u] = task[u]
      BY <1>4, RelaunchMoves
    <3> QED
      BY <3>1 DEF AtStep, Mine
  <2>3. alive \ {Child(p)} \subseteq alive /\ Child(p) \notin alive \ {Child(p)}
    OBVIOUS
  <2> QED
    BY <1>1, <2>1, <2>2, <2>3, WorkTyped, WorkOwned
<1> QED
  BY <1>2, <1>3, <1>4

LEMMA StopOwned ==
    ASSUME Base, OwnedInv, NEW t \in Tasks, Stop(t) \/ Reap(t)
    PROVE  OwnedInv'
<1> DEFINE p == Mine(t)
           kids == alive \ {Child(p)}
<1>1. task[t].step \in Holding
  BY DEF Stop, Reap, At, Holding
<1>2. /\ Put(p, "stopped", None, Restarts(p), None) /\ Drop(registry', kids)
      /\ UNCHANGED <<spawned, owner>>
  <2>1. CASE Stop(t)
    BY <2>1 DEF Stop
  <2>2. CASE Reap(t)
    BY <2>2 DEF Reap
  <2> QED
    BY <2>1, <2>2
<1>3. kids \subseteq alive /\ Child(p) \notin kids
  OBVIOUS
<1> QED
  BY <1>1, <1>2, <1>3, WorkTyped, WorkOwned

\* A child that is spawned over another one comes later than that one.
LEMMA SpawnOwned ==
    ASSUME Base, OwnedInv, NEW t \in Tasks, Spawn(t)
    PROVE  OwnedInv'
<1> DEFINE p == Mine(t)
           d == spawned + 1
<1>1. /\ spawned \in Nat /\ spawned' = d /\ d \in Children
      /\ owner \in [Children -> 0 .. registered] /\ owner' = [owner EXCEPT ![d] = p]
      /\ alive' = alive \cup {d} /\ registry' = registry
  BY BaseTypes, McpAssumption DEF Spawn, Children, Base, TypeOK
<1>2. owner'[d] = p /\ \A c \in Children : c # d => owner'[c] = owner[c]
  BY <1>1
<1>3. ASSUME NEW c \in alive'
      PROVE  \/ Child(owner[c])' = c /\ Reachable(owner[c])'
             \/ \E e \in Children : e > c /\ owner'[e] = owner'[c]
  <2>1. CASE c = d
    <3>1. Child(owner[c])' = c
      <4>1. process'[p] = [status |-> "starting", child |-> d, restarts |-> Restarts(p),
                           lock |-> t]
        BY SpawnPuts
      <4>2. process'[p].child = d
        BY <4>1
      <4> QED
        BY <1>2, <2>1, <4>2 DEF Child
    <3>2. Reachable(owner[c])'
      <4>1. task'[t] = AtStep(t, "handshake")
        BY SpawnMoves
      <4>2. task'[t].process = p
        BY <4>1 DEF AtStep
      <4> QED
        BY <1>2, <2>1, <4>2 DEF Reachable, Mine
    <3> QED
      BY <3>1, <3>2
  <2>2. CASE c # d
    <3>1. /\ c \in alive /\ c \in Children /\ c \in 1 .. spawned
          /\ owner[c] \in Processes /\ owner'[c] = owner[c]
      BY <1>1, <1>2, <2>2, AliveOwned
    <3>2. ASSUME NEW e \in Children, e > c, owner[e] = owner[c]
          PROVE  \E f \in Children : f > c /\ owner'[f] = owner'[c]
      <4>1. e # d
        <5>1. owner[c] # None
          BY <3>1, Members
        <5>2. d > spawned
          BY <1>1
        <5> QED
          BY <1>1, <3>2, <5>1, <5>2 DEF OwnedInv
      <4> QED
        BY <1>2, <3>1, <3>2, <4>1
    <3>3. CASE owner[c] = p
      <4>1. d > c
        BY <1>1, <3>1
      <4> QED
        BY <1>1, <1>2, <3>1, <3>3, <4>1
    <3>4. CASE owner[c] # p /\ Child(owner[c]) = c /\ Reachable(owner[c])
      <4>1. Child(owner[c])' = c
        BY <3>1, <3>4, SpawnPuts DEF Child
      <4>2. Reachable(owner[c])'
        BY <1>1, <3>1, <3>4, SpawnMoves DEF Reachable, Mine
      <4> QED
        BY <4>1, <4>2
    <3> QED
      BY <3>1, <3>2, <3>3, <3>4 DEF OwnedInv, ChildHasOwner
  <2> QED
    BY <2>1, <2>2
<1>4. \A c \in Children : c > spawned' => owner'[c] = None
  <2>1. \A c \in Children : c > d => c > spawned /\ c # d
    BY <1>1 DEF Children
  <2> QED
    BY <1>1, <1>2, <2>1 DEF OwnedInv
<1> QED
  BY <1>3, <1>4 DEF OwnedInv, ChildHasOwner

LEMMA StepOwned ==
    ASSUME Base, OwnedInv, NEW t \in Tasks, Step(t)
    PROVE  OwnedInv'
BY UntakenOwned, LeaveOwned, FailOwned, StartOwned, StopOwned, SpawnOwned DEF Step

LEMMA OwnedStep ==
    ASSUME Base, OwnedInv, [Next]_vars
    PROVE  OwnedInv'
<1>1. CASE UNCHANGED vars
  BY <1>1 DEF vars, OwnedInv, ChildHasOwner, Child, Reachable, Mine
<1>2. CASE \E r \in Requests, kind \in Kinds : Ask(r, kind)
  BY <1>2, Members, UntakenOwned
<1>3. CASE Poll
  BY <1>3, Members, UntakenOwned
<1>4. CASE Next
  BY <1>1, <1>2, <1>3, <1>4, NextIs, LeaveOwned, StepOwned, CheckOwned
<1> QED
  BY <1>1, <1>4

\* Whatever order starts, restarts, stops and registrations of a server come
\* in, no child runs that nobody can stop any more, except those that the
\* server's own process started another one over.
THEOREM ChildrenOwned == Spec => []ChildHasOwner
<1>1. Init => OwnedInv
  BY DEF Init, OwnedInv, ChildHasOwner
<1>2. Base /\ OwnedInv /\ [Next]_vars => OwnedInv'
  BY OwnedStep
<1>3. OwnedInv => ChildHasOwner
  BY DEF OwnedInv
<1> QED
  BY <1>1, <1>2, <1>3, BaseHolds, PTL DEF Spec
-----------------------------------------------------------------------------
(* A server that was stopped *)

\* A process that stays as it is unless a call starts it.
Rests(p) ==
    /\ Status(p) \in {"stopped", "uninitialized"}
    /\ \A c \in Children : owner[c] = p => check[c] \notin {"pings", "answered"}

\* Nothing under way could start the server.
Quiet ==
    /\ \A r \in Requests : task[r].kind \in {"none", "stop", "remove"}
    /\ task[Monitor].op \in {"none", "look"}
    /\ Mine(Monitor) # None => Rests(Mine(Monitor))
    /\ registry # None => Rests(registry)

DownHolds == down => Quiet

LEMMA QuietSteps ==
    ASSUME Base, Quiet
    PROVE  /\ task[Monitor].step \in {"idle", "done", "ensure", "register", "lookup", "read"}
           /\ \A r \in Requests :
                  task[r].step \in {"idle", "done", "lookup", "stop", "seize", "reap", "tidy"}
<1>1. \A t \in Tasks : task[t].op \in OpsOf(task[t].kind) /\ task[t].step \in StepsOf(task[t].op)
  BY DEF Base, CallsFit, Fits
<1>2. task[Monitor].step \in {"idle", "done", "ensure", "register", "lookup", "read"}
  BY <1>1, Members DEF Quiet, StepsOf
<1>3. ASSUME NEW r \in Requests
      PROVE  task[r].step \in {"idle", "done", "lookup", "stop", "seize", "reap", "tidy"}
  <2>1. task[r].op \in {"none", "stop", "remove"}
    BY <1>1, Members DEF Quiet, OpsOf
  <2> QED
    BY <1>1, <2>1, Members DEF StepsOf
<1> QED
  BY <1>2, <1>3

\* One call goes on and the processes stay as they are.
LEMMA QuietCall ==
    ASSUME Base, Quiet, NEW t \in Tasks, \A u \in Tasks : u # t => task'[u] = task[u],
           t # Monitor => task'[t].kind \in {"none", "stop", "remove"},
           t = Monitor => /\ task'[t].op \in {"none", "look"}
                          /\ task'[t].process \in {None, Mine(t), registry},
           UNCHANGED <<registry, process, owner, check>>
    PROVE  Quiet'
<1>1. \A p : Rests(p)' <=> Rests(p)
  BY DEF Rests, Status
<1>2. \A r \in Requests : task'[r].kind \in {"none", "stop", "remove"}
  BY Members DEF Quiet
<1>3. CASE t = Monitor
  BY <1>1, <1>2, <1>3, Members DEF Quiet, Mine
<1>4. CASE t # Monitor
  BY <1>1, <1>2, <1>4, Members DEF Quiet, Mine
<1> QED
  BY <1>3, <1>4

\* A call is over with a process it stopped.
LEMMA QuietStopped ==
    ASSUME Base, NEW t \in Tasks, t # Monitor, NEW p \in 1 .. registered,
           NEW restarts \in 0 .. MaxRestarts, Put(p, "stopped", None, restarts, None),
           Quiet \/ NothingUnderWay(t, p),
           \A u \in Tasks : u # t => task'[u] = task[u],
           task'[t].kind \in {"none", "stop", "remove"},
           registry' \in {registry, None}, UNCHANGED <<owner, check>>
    PROVE  Quiet'
<1>1. /\ process'[p] = [status |-> "stopped", child |-> None, restarts |-> restarts, lock |-> None]
      /\ \A q \in Processes : q # p => process'[q] = process[q]
  BY PutMoves DEF Statuses
<1>2. Status(p)' = "stopped"
  BY <1>1 DEF Status
<1>3. Monitor \in Tasks /\ task'[Monitor] = task[Monitor]
  BY Members
<1>4. Mine(Monitor) \in 0 .. registered /\ registry \in 0 .. registered /\ registered \in Nat
  BY Members, CallTyped, BaseTypes
<1>5. \A q \in 0 .. registered : q # None => q \in Processes
  BY <1>4, ProcessTyped DEF None
<1>6. \A r \in Requests : task'[r].kind \in {"none", "stop", "remove"}
  BY Members DEF Quiet, NothingUnderWay
<1>7. task[Monitor].op \in {"none", "look"}
  BY DEF Quiet, NothingUnderWay
<1>8. CASE Quiet
  <2>1. ASSUME NEW q \in Processes, Rests(q)
        PROVE  Rests(q)'
    BY <1>1, <1>2, <2>1 DEF Rests, Status
  <2> QED
    BY <1>3, <1>4, <1>5, <1>6, <1>7, <1>8, <2>1 DEF Quiet, Mine
<1>9. CASE NothingUnderWay(t, p)
  <2>1. Rests(p)'
    BY <1>2, <1>9 DEF Rests, NothingUnderWay
  <2> QED
    BY <1>3, <1>6, <1>7, <1>9, <2>1 DEF Quiet, Mine, NothingUnderWay
<1> QED
  BY <1>8, <1>9

LEMMA StopQuiet ==
    ASSUME Base, DownHolds, NEW t \in Tasks, Stop(t) \/ Reap(t)
    PROVE  DownHolds'
<1> DEFINE p == Mine(t)
<1>1. task[t].step \in {"stop", "reap"} /\ task[t].op \notin {"none", "look"}
  BY CallTyped DEF Stop, Reap, At, Fits, StepsOf
<1>2. /\ Put(p, "stopped", None, Restarts(p), None) /\ registry' \in {registry, None}
      /\ UNCHANGED <<owner, check>>
      /\ down' => down \/ (task[t].kind \in {"stop", "remove"} /\ NothingUnderWay(t, p))
      /\ task[t].step \in Holding
  BY <1>1 DEF Stop, Reap, Holding
<1>3. /\ \A u \in Tasks : u # t => task'[u] = task[u]
      /\ task'[t].kind \in {"none", task[t].kind}
  <2>1. CASE Stop(t)
    BY <2>1, EndOpMoves, AfterOpFits DEF Stop
  <2>2. CASE Reap(t)
    <3>1. task'[t] = [kind |-> task[t].kind, op |-> task[t].op, step |-> "tidy", process |-> None]
      BY <2>2, ReapMoves
    <3>2. task'[t].kind = task[t].kind
      BY <3>1
    <3> QED
      BY <2>2, <3>2, ReapMoves
  <2> QED
    BY <2>1, <2>2
<1> SUFFICES ASSUME down'
             PROVE  Quiet'
  BY DEF DownHolds
<1>4. /\ Quiet \/ NothingUnderWay(t, p)
      /\ t # Monitor
  BY <1>1, <1>2 DEF DownHolds, Quiet, NothingUnderWay
<1>5. task[t].kind \in {"none", "stop", "remove"}
  <2>1. CASE Quiet
    BY <1>4, <2>1, Members DEF Quiet, Tasks
  <2>2. CASE ~Quiet
    BY <1>2, <2>2 DEF DownHolds
  <2> QED
    BY <2>1, <2>2
<1> QED
  BY <1>2, <1>3, <1>4, <1>5, WorkTyped, QuietStopped

\* The calls that neither stop the server nor could start it.
LEMMA ClientQuiet ==
    ASSUME Base, Quiet, NEW r \in Requests,
           Lookup(r) \/ Seize(r) \/ Tidy(r) \/ Unconfigured(r)
    PROVE  Quiet'
<1>1. r \in Tasks /\ r # Monitor /\ UNCHANGED <<registry, process, owner, check>>
  BY Members DEF Lookup, Seize, Tidy, Unconfigured
<1>2. \A u \in Tasks : u # r => task'[u] = task[u]
  BY <1>1, OthersStay DEF Lookup, Seize, Tidy, Unconfigured, Go
<1>3. task'[r].kind \in {"none", task[r].kind}
  <2>1. CASE Finish(r)
    BY <1>1, <2>1, FinishMoves, RestFits
  <2>2. CASE EndOp(r)
    BY <1>1, <2>2, EndOpMoves, AfterOpFits
  <2>3. ASSUME NEW step, NEW p, Take(r, step, p)
        PROVE  task'[r].kind \in {"none", task[r].kind}
    BY <1>1, <2>3 DEF Take, Base, TypeOK
  <2> QED
    BY <1>1, <2>1, <2>2, <2>3 DEF Lookup, Seize, Tidy, Unconfigured, Go
<1> QED
  BY <1>1, <1>2, <1>3, QuietCall DEF Quiet

LEMMA AskQuiet ==
    ASSUME Base, Quiet, NEW r \in Requests, NEW kind \in {"stop", "remove"}, Ask(r, kind)
    PROVE  Quiet'
<1>1. r \in Tasks /\ r # Monitor /\ UNCHANGED <<registry, process, owner, check>> /\ Begin(r, kind)
  BY Members DEF Ask
<1>2. kind \in RequestKinds /\ kind # "reconnect"
  BY DEF RequestKinds
<1>3. Opening(kind) \in OpsOf(kind)
  BY <1>2, OpeningFits
<1>4. task'[r].kind = kind /\ \A u \in Tasks : u # r => task'[u] = task[u]
  BY <1>1, <1>2, <1>3, BeginMoves, DoingFits
<1> QED
  BY <1>1, <1>4, QuietCall

\* The monitor looks at the server and leaves it as it is.
LEMMA MonitorQuiet ==
    ASSUME Base, Quiet, Poll \/ LeaveAsIs \/ Ensure(Monitor) \/ Lookup(Monitor)
    PROVE  Quiet'
<1> DEFINE t == Monitor
<1>1. t \in Tasks /\ UNCHANGED <<registry, process, owner, check>>
  BY Members DEF Poll, LeaveAsIs, Ensure, Lookup
<1>2. \A u \in Tasks : u # t => task'[u] = task[u]
  BY <1>1, OthersStay DEF Poll, LeaveAsIs, Ensure, Lookup, Go
<1>3. task'[t].op \in {"none", "look"} /\ task'[t].process \in {None, Mine(t), registry}
  <2>1. CASE Poll
    <3>1. task'[t] = Doing("reconnect", "look")
      BY <1>1, <2>1, BeginMoves DEF Poll, Opening
    <3> QED
      BY <3>1 DEF Doing
  <2>2. CASE Finish(t)
    BY <1>1, <2>2, FinishMoves, RestFits
  <2>3. ASSUME NEW step, NEW p \in {Mine(t), registry}, Take(t, step, p)
        PROVE  task'[t].op \in {"none", "look"} /\ task'[t].process \in {None, Mine(t), registry}
    <3>1. task'[t] = [kind |-> task[t].kind, op |-> task[t].op, step |-> step, process |-> p]
      BY <1>1, <2>3 DEF Take, Base, TypeOK
    <3> QED
      BY <3>1 DEF Quiet
  <2>4. CASE Lookup(t)
    <3>1. task[t].op = "look"
      BY <1>1, <2>4, CallTyped DEF Quiet, Lookup, At, Fits, StepsOf
    <3> QED
      BY <2>2, <2>3, <2>4, <3>1 DEF Lookup
  <2> QED
    BY <2>1, <2>2, <2>3, <2>4 DEF LeaveAsIs, Ensure, Go, Mine
<1> QED
  BY <1>1, <1>2, <1>3, QuietCall

LEMMA RegisterQuiet ==
    ASSUME Base, Quiet, NEW t \in Tasks, Register(t)
    PROVE  Quiet'
<1>1. t = Monitor /\ task[t].op = "look"
  <2>1. task[t].step = "register"
    BY DEF Register, At
  <2>2. t = Monitor
    BY <2>1, QuietSteps DEF Tasks
  <2> QED
    BY <2>1, <2>2, CallTyped DEF Fits, StepsOf, Quiet
<1>2. /\ task'[t] = AtStep(t, "lookup") /\ Mine(t) = None
      /\ \A u \in Tasks : u # t => task'[u] = task[u]
  <2>1. Go(t, "lookup") /\ task[t].step = "register"
    BY <1>1 DEF Register, At
  <2>2. "lookup" \in StepsOf(task[t].op)
    BY <1>1 DEF StepsOf
  <2>3. Mine(t) = None
    BY <2>1, CallTyped DEF Fits, Holding, Mine
  <2> QED
    BY <2>1, <2>2, <2>3, GoMoves DEF Steps, Holding
<1>3. task'[Monitor].op = "look" /\ Mine(Monitor)' = None
  BY <1>1, <1>2 DEF AtStep, Mine
<1>4. Rests(registry)'
  <2>1. /\ registered \in Nat /\ registry' = registered + 1 /\ registry' \in Processes
        /\ UNCHANGED <<process, owner, check>>
    BY BaseTypes, McpAssumption DEF Register, Processes
  <2>2. process[registry'] = New
    BY <2>1 DEF Base, ChildrenFit
  <2>3. \A c \in Children : owner[c] # registry'
    BY <2>1 DEF Base, TypeOK
  <2> QED
    BY <2>1, <2>2, <2>3 DEF Rests, Status, New
<1>5. \A r \in Requests : task'[r] = task[r]
  BY <1>1, <1>2, Members
<1> QED
  BY <1>3, <1>4, <1>5 DEF Quiet

\* The pings on their way are of processes that do not rest.
LEMMA CheckQuiet ==
    ASSUME Base, Quiet, NEW c \in Children, Check(c)
    PROVE  Quiet'
<1>1. ASSUME NEW q \in Processes, Rests(q)
      PROVE  Rests(q)'
  <2>1. Status(q)' = Status(q)
    <3>1. CASE process' = process
      BY <3>1 DEF Status
    <3>2. ASSUME NEW status \in {"healthy", "reconnecting"},
                 check[c] \in {"pings", "answered"}, Mark(owner[c], status)
          PROVE  Status(q)' = Status(q)
      <4>1. owner[c] # q
        BY <1>1, <3>2 DEF Rests
      <4> QED
        BY <3>2, <4>1 DEF Mark, Put, Status, Base, TypeOK
    <3> QED
      BY <3>1, <3>2, CheckMoves
  <2>2. ASSUME NEW d \in Children, owner[d] = q
        PROVE  check'[d] \notin {"pings", "answered"}
    <3>1. CASE d = c
      <4>1. check'[c] = "pings" => Status(owner[c]) \in Running
        BY CheckMoves
      <4>2. check'[c] = "answered" => check[c] = "pings"
        BY CheckMoves
      <4> QED
        BY <1>1, <2>2, <3>1, <4>1, <4>2 DEF Rests, Running
    <3>2. CASE d # c
      BY <1>1, <2>2, <3>2, CheckMoves DEF Rests
    <3> QED
      BY <3>1, <3>2
  <2>3. owner' = owner
    BY CheckMoves
  <2> QED
    BY <1>1, <2>1, <2>2, <2>3 DEF Rests
<1>2. Mine(Monitor) \in 0 .. registered /\ registry \in 0 .. registered
  BY Members, CallTyped, BaseTypes
<1>3. \A q \in 0 .. registered : q # None => q \in Processes
  BY BaseTypes, ProcessTyped DEF None
<1> QED
  BY <1>1, <1>2, <1>3, CheckMoves DEF Quiet, Mine

\* Nothing starts the server while it is quiet.
LEMMA QuietForbids ==
    ASSUME Base, Quiet, NEW t \in Tasks
    PROVE  /\ ~ReadByClient(t) \/ t = Monitor
           /\ ~Reconnect
           /\ ~AlreadyRunning(t) /\ ~CommandMissing(t) /\ ~SpawnFails(t) /\ ~Spawn(t)
           /\ ~HandshakeFails(t) /\ ~Handshake(t) /\ ~Publish(t)
           /\ ~GiveUpRestart(t) /\ ~Relaunch(t)
           /\ t \in Requests => ~Ensure(t)
           /\ t = Monitor => ~Seize(t) /\ ~Tidy(t) /\ ~Unconfigured(t)
<1>1. /\ t = Monitor => task[t].step \in {"idle", "done", "ensure", "register", "lookup", "read"}
      /\ t \in Requests =>
             task[t].step \in {"idle", "done", "lookup", "stop", "seize", "reap", "tidy"}
      /\ t = Monitor \/ t \in Requests
  BY QuietSteps DEF Tasks
<1>2. ~Reconnect
  <2>1. ASSUME Reconnect
        PROVE  FALSE
    <3>1. Mine(Monitor) # None
      BY <2>1, Members, WorkTyped DEF Reconnect, At, Holding
    <3> QED
      BY <2>1, <3>1 DEF Reconnect, Quiet, Rests, Retryable
  <2> QED
    BY <2>1
<1>3. t = Monitor => ~Unconfigured(t)
  BY DEF Unconfigured, Quiet
<1>4. /\ ~AlreadyRunning(t) /\ ~CommandMissing(t) /\ ~SpawnFails(t) /\ ~Spawn(t)
      /\ ~HandshakeFails(t) /\ ~Handshake(t) /\ ~Publish(t)
      /\ ~GiveUpRestart(t) /\ ~Relaunch(t)
  BY <1>1 DEF AlreadyRunning, CommandMissing, SpawnFails, Spawn, MaySpawn, HandshakeFails,
              Handshake, Publish, GiveUpRestart, Relaunch, At
<1> QED
  BY <1>1, <1>2, <1>3, <1>4 DEF ReadByClient, Ensure, Seize, Tidy, At

LEMMA DownStep ==
    ASSUME Base, DownHolds, [Next]_vars
    PROVE  DownHolds'
<1>1. CASE UNCHANGED vars
  BY <1>1 DEF vars, DownHolds, Quiet, Rests, Status, Mine
<1>2. CASE \E r \in Requests, kind \in Kinds : Ask(r, kind)
  <2>1. PICK r \in Requests, kind \in Kinds : Ask(r, kind)
    BY <1>2
  <2>2. down' => down /\ kind \in {"stop", "remove"}
    BY <2>1 DEF Ask
  <2> QED
    BY <2>1, <2>2, AskQuiet DEF DownHolds
<1>3. CASE \E t \in Tasks : Stop(t) \/ Reap(t)
  BY <1>3, StopQuiet
<1>4. CASE Poll
  BY <1>4, MonitorQuiet DEF DownHolds, Poll
<1>5. CASE \E c \in Children : Check(c)
  BY <1>5, CheckQuiet, CheckMoves DEF DownHolds
<1>6. CASE \E c \in Children : Die(c)
  BY <1>6 DEF Die, DownHolds, Quiet, Rests, Status, Mine
<1>7. ASSUME NEW t \in Tasks, ReadByClient(t), t # Monitor
      PROVE  DownHolds'
  BY <1>7, QuietForbids DEF DownHolds, ReadByClient
<1>7b. CASE Reconnect \/ LeaveAsIs
  BY <1>7b, QuietForbids, MonitorQuiet, Members DEF DownHolds, Reconnect, LeaveAsIs
<1>8. ASSUME NEW t \in Tasks, Step(t), ~Stop(t), ~Reap(t)
      PROVE  DownHolds'
  <2>1. down' = down
    BY <1>8 DEF Step, Ensure, Register, Unconfigured, Lookup, AlreadyRunning, CommandMissing,
                SpawnFails, Spawn, HandshakeFails, Handshake, Publish, GiveUpRestart, Relaunch,
                Seize, Tidy
  <2>2. CASE t = Monitor
    <3> SUFFICES ASSUME Quiet
                 PROVE  Quiet'
      BY <2>1 DEF DownHolds
    <3>1. Ensure(t) \/ Lookup(t) \/ Register(t)
      BY <1>8, <2>2, QuietForbids DEF Step
    <3> QED
      BY <2>2, <3>1, MonitorQuiet, RegisterQuiet
  <2>3. CASE t \in Requests
    <3> SUFFICES ASSUME Quiet
                 PROVE  Quiet'
      BY <2>1 DEF DownHolds
    <3>1. Lookup(t) \/ Seize(t) \/ Tidy(t) \/ Unconfigured(t) \/ Register(t)
      BY <1>8, <2>3, QuietForbids DEF Step
    <3> QED
      BY <2>3, <3>1, ClientQuiet, RegisterQuiet
  <2> QED
    BY <2>2, <2>3 DEF Tasks
<1>9. ASSUME NEW t \in Tasks, Step(t)
      PROVE  DownHolds'
  BY <1>3, <1>8, <1>9
<1>10. CASE \E t \in Tasks : \/ ReadByClient(t) /\ t # Monitor
                             \/ t = Monitor /\ (Reconnect \/ LeaveAsIs)
                             \/ Step(t)
  BY <1>7, <1>7b, <1>9, <1>10
<1>11. CASE \E c \in Children : Check(c) \/ Die(c)
  BY <1>5, <1>6, <1>11
<1>12. CASE Next
  BY <1>1, <1>2, <1>4, <1>10, <1>11, <1>12, NextIs
<1> QED
  BY <1>1, <1>12

\* A server that a client stopped stays stopped until a client wants it
\* again: neither the monitor nor a health check under way brings it back.
THEOREM StoppedIsDown == Spec => []StoppedStaysDown
<1>1. Init => DownHolds
  BY DEF Init, DownHolds
<1>2. Base /\ DownHolds /\ [Next]_vars => DownHolds'
  BY DownStep
<1>3. DownHolds => StoppedStaysDown
  BY DEF DownHolds, StoppedStaysDown, Quiet, Rests
<1> QED
  BY <1>1, <1>2, <1>3, BaseHolds, PTL DEF Spec
-----------------------------------------------------------------------------
(* The connection in the pool *)

\* A call that spawns a child, waits for its handshake or publishes its
\* connection holds the lock of the process.
HoldsLock(t) ==
    task[t].step \in {"spawn", "handshake", "publish"} =>
        /\ Lock(Mine(t)) = t
        /\ task[t].step = "spawn" => Child(Mine(t)) = None
        /\ task[t].step = "handshake" /\ task[t].op = "restart" => Child(Mine(t)) \in bare

LocksHeld == \A t \in Tasks : HoldsLock(t)

\* PoolIsCurrent holds whatever the status is.
PoolFits ==
    ~mixed /\ registry # None /\ Unlocked(registry) =>
        Child(registry) \in {None, pool} \cup bare

PoolInv == LocksHeld /\ PoolFits

\* A call goes on without a change to a process.
LEMMA PoolCall ==
    ASSUME Base, PoolInv, NEW t \in Tasks, \A u \in Tasks : u # t => task'[u] = task[u],
           task'[t].step \notin {"spawn", "handshake", "publish"},
           UNCHANGED <<registry, process, pool, bare, mixed>>
    PROVE  PoolInv'
<1>1. LocksHeld'
  BY DEF PoolInv, LocksHeld, HoldsLock, Lock, Child, Mine
<1>2. PoolFits'
  BY DEF PoolInv, PoolFits, Unlocked, Lock, Child
<1> QED
  BY <1>1, <1>2 DEF PoolInv

\* A call changes a process that no other call holds.
LEMMA LocksKept ==
    ASSUME Base, LocksHeld, NEW t \in Tasks, NEW p \in 1 .. registered, Lock(p) \in {None, t},
           \A q \in Processes : q # p => process'[q] = process[q],
           \A u \in Tasks : u # t => task'[u] = task[u],
           bare \subseteq bare', HoldsLock(t)'
    PROVE  LocksHeld'
<1> SUFFICES ASSUME NEW u \in Tasks, u # t, task[u].step \in {"spawn", "handshake", "publish"}
             PROVE  HoldsLock(u)'
  BY DEF LocksHeld, HoldsLock, Mine
<1>1. Mine(u) \in Processes
  BY WorkTyped DEF Holding
<1>2. Lock(Mine(u)) = u /\ u # None
  BY Members DEF LocksHeld, HoldsLock
<1>3. Mine(u) # p
  BY <1>2
<1>4. task'[u] = task[u] /\ process'[Mine(u)] = process[Mine(u)]
  BY <1>1, <1>3
<1> QED
  BY <1>4 DEF LocksHeld, HoldsLock, Lock, Child, Mine

LEMMA PutIs ==
    ASSUME Base, NEW p \in 1 .. registered, NEW status, NEW child, NEW restarts, NEW lock,
           Put(p, status, child, restarts, lock)
    PROVE  /\ process'[p].child = child /\ process'[p].lock = lock
           /\ \A q \in Processes : q # p => process'[q] = process[q]
<1> DEFINE w == [status |-> status, child |-> child, restarts |-> restarts, lock |-> lock]
<1>1. process'[p] = w /\ \A q \in Processes : q # p => process'[q] = process[q]
  BY ProcessTyped DEF Put, Base, TypeOK
<1>2. w.child = child /\ w.lock = lock
  OBVIOUS
<1> QED
  BY <1>1, <1>2

\* A call changes its process p, which then is free with a child that fits,
\* or held, or no longer that of the registry.
LEMMA PoolWork ==
    ASSUME Base, PoolInv, NEW t \in Tasks, NEW p \in 1 .. registered, Lock(p) \in {None, t},
           NEW status, NEW child, NEW restarts, NEW lock,
           Put(p, status, child, restarts, lock),
           \A u \in Tasks : u # t => task'[u] = task[u],
           bare \subseteq bare', HoldsLock(t)', registry' \in {registry, None},
           \/ mixed'
           \/ p = registry /\ (lock # None \/ child \in {None, pool'} \cup bare')
           \/ p # registry /\ UNCHANGED <<pool, mixed>>
           \/ registry' = None
    PROVE  PoolInv'
<1>1. /\ process'[p].child = child /\ process'[p].lock = lock
      /\ \A q \in Processes : q # p => process'[q] = process[q]
  BY PutIs
<1>2. LocksHeld'
  BY <1>1, LocksKept DEF PoolInv
<1>3. PoolFits'
  <2> SUFFICES ASSUME ~mixed', registry' # None, Unlocked(registry)'
               PROVE  Child(registry)' \in {None, pool'} \cup bare'
    BY DEF PoolFits
  <2>1. registry' = registry /\ registry \in Processes
    BY BaseTypes, ProcessTyped DEF None
  <2>2. CASE p = registry
    BY <1>1, <2>1, <2>2 DEF Unlocked, Child, Lock
  <2>3. CASE p # registry
    <3>1. process'[registry] = process[registry] /\ pool' = pool /\ ~mixed
      BY <1>1, <2>1, <2>3
    <3> QED
      BY <2>1, <3>1 DEF PoolInv, PoolFits, Unlocked, Child, Lock
  <2> QED
    BY <2>2, <2>3
<1> QED
  BY <1>2, <1>3 DEF PoolInv

\* A call that is at a step without the lock.
LEMMA FreeMoves ==
    ASSUME Base, NEW t \in Tasks,
           \/ Finish(t) \/ EndOp(t)
           \/ \E step \in Steps \ {"spawn", "handshake", "publish"} : \E p : Take(t, step, p)
    PROVE  /\ task'[t].step \notin {"spawn", "handshake", "publish"} /\ HoldsLock(t)'
           /\ \A u \in Tasks : u # t => task'[u] = task[u]
<1>1. \A u \in Tasks : u # t => task'[u] = task[u]
  BY OthersStay
<1>2. task'[t].step \notin {"spawn", "handshake", "publish"}
  <2>1. CASE Finish(t)
    BY <2>1, FinishMoves, RestFits
  <2>2. CASE EndOp(t)
    BY <2>2, EndOpMoves, AfterOpFits
  <2>3. ASSUME NEW step \in Steps \ {"spawn", "handshake", "publish"}, NEW p, Take(t, step, p)
        PROVE  task'[t].step \notin {"spawn", "handshake", "publish"}
    <3>1. task'[t] = [kind |-> task[t].kind, op |-> task[t].op, step |-> step, process |-> p]
      BY <2>3 DEF Take, Base, TypeOK
    <3>2. task'[t].step = step
      BY <3>1
    <3> QED
      BY <3>2
  <2> QED
    BY <2>1, <2>2, <2>3
<1> QED
  BY <1>1, <1>2 DEF HoldsLock

LEMMA CallPool ==
    ASSUME Base, PoolInv, NEW t \in Tasks,
           \/ Ensure(t) \/ Unconfigured(t) \/ Lookup(t) \/ Seize(t) \/ Tidy(t)
           \/ ReadByClient(t) \/ AlreadyRunning(t) \/ CommandMissing(t)
           \/ t = Monitor /\ (Reconnect \/ LeaveAsIs)
    PROVE  PoolInv'
<1>1. UNCHANGED <<registry, process, pool, bare, mixed>>
  <2>1. CASE Ensure(t) \/ Unconfigured(t) \/ Lookup(t)
    BY <2>1 DEF Ensure, Unconfigured, Lookup
  <2>2. CASE Seize(t) \/ Tidy(t)
    BY <2>2 DEF Seize, Tidy
  <2>3. CASE ReadByClient(t) \/ AlreadyRunning(t) \/ CommandMissing(t)
    BY <2>3 DEF ReadByClient, AlreadyRunning, CommandMissing
  <2>4. CASE t = Monitor /\ (Reconnect \/ LeaveAsIs)
    BY <2>4 DEF Reconnect, LeaveAsIs
  <2> QED
    BY <2>1, <2>2, <2>3, <2>4
<1>2. \/ Finish(t) \/ EndOp(t)
      \/ \E step \in Steps \ {"spawn", "handshake", "publish"} : \E p : Take(t, step, p)
  <2>1. CASE Ensure(t)
    BY <2>1 DEF Ensure, Go, Steps
  <2>2. CASE Lookup(t)
    BY <2>2 DEF Lookup, AfterLookup, Steps
  <2>3. CASE Seize(t)
    BY <2>3 DEF Seize, Go, Steps
  <2>4. CASE Tidy(t) \/ Unconfigured(t)
    BY <2>4 DEF Tidy, Unconfigured
  <2>5. CASE ReadByClient(t) \/ AlreadyRunning(t) \/ CommandMissing(t)
    BY <2>5 DEF ReadByClient, AlreadyRunning, CommandMissing
  <2>6. CASE t = Monitor /\ (Reconnect \/ LeaveAsIs)
    BY <2>6 DEF Reconnect, LeaveAsIs
  <2> QED
    BY <2>1, <2>2, <2>3, <2>4, <2>5, <2>6
<1> QED
  BY <1>1, <1>2, FreeMoves, PoolCall

LEMMA BeginPool ==
    ASSUME Base, PoolInv, NEW t \in Tasks,
           (\E kind \in Kinds : Ask(t, kind) /\ t # Monitor) \/ (t = Monitor /\ Poll)
    PROVE  PoolInv'
<1>1. PICK kind \in RequestKinds \cup {"reconnect"} :
          Begin(t, kind) /\ (kind = "reconnect" => t = Monitor)
  BY McpAssumption DEF Ask, Poll, RequestKinds
<1>2. /\ task'[t].step \in {"ensure", "lookup", "register", "seize"}
      /\ \A u \in Tasks : u # t => task'[u] = task[u]
  BY <1>1, OpeningFits, BeginMoves, DoingFits
<1>3. UNCHANGED <<registry, process, pool, bare, mixed>>
  BY DEF Ask, Poll
<1> QED
  BY <1>2, <1>3, PoolCall

LEMMA RegisterPool ==
    ASSUME Base, PoolInv, NEW t \in Tasks, Register(t)
    PROVE  PoolInv'
<1>1. \/ EndOp(t) \/ \E step \in Steps \ {"spawn", "handshake", "publish"} : \E p : Take(t, step, p)
  BY DEF Register, Go, Steps
<1>2. LocksHeld'
  BY <1>1, FreeMoves DEF Register, PoolInv, LocksHeld, HoldsLock, Lock, Child, Mine
<1>3. PoolFits'
  <2>1. /\ registered \in Nat /\ registry' = registered + 1 /\ registry' \in Processes
        /\ process' = process
    BY BaseTypes, McpAssumption DEF Register, Processes
  <2>2. process[registry'] = New
    BY <2>1 DEF Base, ChildrenFit
  <2> QED
    BY <2>1, <2>2 DEF PoolFits, Child, New
<1> QED
  BY <1>2, <1>3 DEF PoolInv

LEMMA FailPool ==
    ASSUME Base, PoolInv, NEW t \in Tasks,
           SpawnFails(t) \/ HandshakeFails(t) \/ GiveUpRestart(t)
    PROVE  PoolInv'
<1> DEFINE p == Mine(t)
<1>1. task[t].step \in Holding /\ p \in 1 .. registered
  BY WorkTyped DEF SpawnFails, MaySpawn, HandshakeFails, GiveUpRestart, At, Holding
<1>2. /\ HoldsLock(t)' /\ \A u \in Tasks : u # t => task'[u] = task[u]
      /\ UNCHANGED <<registry, pool, bare, mixed>>
  BY FreeMoves DEF SpawnFails, HandshakeFails, GiveUpRestart
<1>3. PICK child, lock :
          /\ Put(p, "failed", child, Restarts(p), lock)
          /\ child = None \/ (child = Child(p) /\ Unlocked(p))
          /\ Lock(p) \in {None, t}
  <2>1. HoldsLock(t)
    BY DEF PoolInv, LocksHeld
  <2>2. CASE SpawnFails(t)
    BY <2>1, <2>2 DEF SpawnFails, MaySpawn, At, Unlocked, HoldsLock
  <2>3. CASE HandshakeFails(t)
    BY <2>1, <2>3 DEF HandshakeFails, At, HoldsLock
  <2>4. CASE GiveUpRestart(t)
    BY <2>4 DEF GiveUpRestart, Mark, Unlocked
  <2> QED
    BY <2>2, <2>3, <2>4
<1>4. p = registry /\ ~mixed /\ Unlocked(p) => Child(p) \in {None, pool} \cup bare
  BY <1>1, ProcessTyped DEF PoolInv, PoolFits
<1> HIDE DEF p
<1>5. \/ mixed'
      \/ p = registry /\ (lock # None \/ child \in {None, pool'} \cup bare')
      \/ p # registry /\ UNCHANGED <<pool, mixed>>
  BY <1>2, <1>3, <1>4
<1> QED
  BY <1>1, <1>2, <1>3, <1>5, PoolWork

\* The lock that a call holds at its step.
LEMMA LockOf ==
    ASSUME Base, PoolInv, NEW t \in Tasks, task[t].step \in {"spawn", "handshake", "publish"}
    PROVE  /\ Lock(Mine(t)) = t /\ t # None
           /\ task[t].step = "spawn" => Child(Mine(t)) = None
           /\ task[t].step = "handshake" /\ task[t].op = "restart" => Child(Mine(t)) \in bare
BY Members DEF PoolInv, LocksHeld, HoldsLock

LEMMA HandshakePool ==
    ASSUME Base, PoolInv, NEW t \in Tasks, Handshake(t)
    PROVE  PoolInv'
<1> DEFINE p == Mine(t)
<1>1. /\ task[t].step = "handshake" /\ p \in 1 .. registered
      /\ Lock(p) = t /\ t # None
      /\ task[t].op = "restart" => Child(p) \in bare
  BY LockOf, WorkTyped DEF Handshake, At, Holding
<1>2. UNCHANGED <<registry, pool, bare, mixed>>
  BY DEF Handshake
<1>3. CASE task[t].op = "start" /\ Go(t, "publish") /\ Put(p, "connected", Child(p), 0, Lock(p))
  <2>1. \A u \in Tasks : u # t => task'[u] = task[u]
    BY <1>3, OthersStay DEF Go
  <2>2. task'[t] = AtStep(t, "publish")
    BY <1>3 DEF Go, Take, AtStep, Mine, Base, TypeOK
  <2>3. task'[t].step = "publish" /\ Mine(t)' = p
    BY <2>2 DEF AtStep, Mine
  <2>4. process'[p].lock = t
    BY <1>1, <1>3, PutIs
  <2>5. HoldsLock(t)'
    BY <2>3, <2>4 DEF HoldsLock, Lock
  <2> HIDE DEF p
  <2> QED
    BY <1>1, <1>2, <1>3, <2>1, <2>5, PoolWork
<1>4. CASE task[t].op = "restart" /\ EndOp(t) /\ Put(p, "connected", Child(p), 0, None)
  <2>1. HoldsLock(t)' /\ \A u \in Tasks : u # t => task'[u] = task[u]
    BY <1>4, FreeMoves
  <2> HIDE DEF p
  <2> QED
    BY <1>1, <1>2, <1>4, <2>1, PoolWork
<1> QED
  BY <1>3, <1>4 DEF Handshake

LEMMA PublishPool ==
    ASSUME Base, PoolInv, NEW t \in Tasks, Publish(t)
    PROVE  PoolInv'
<1> DEFINE p == Mine(t)
<1>1. p \in 1 .. registered /\ Lock(p) = t
  BY LockOf, WorkTyped DEF Publish, At, Holding
<1>2. HoldsLock(t)' /\ \A u \in Tasks : u # t => task'[u] = task[u]
  BY FreeMoves DEF Publish
<1>3. /\ Put(p, Status(p), Child(p), Restarts(p), None) /\ pool' = Child(p)
      /\ mixed' \/ p = registry
  BY DEF Publish
<1>4. UNCHANGED <<registry, bare>>
  BY DEF Publish
<1> HIDE DEF p
<1> QED
  BY <1>1, <1>2, <1>3, <1>4, PoolWork

LEMMA RelaunchPool ==
    ASSUME Base, PoolInv, NEW t \in Tasks, Relaunch(t)
    PROVE  PoolInv'
<1> DEFINE p == Mine(t)
<1>1. /\ p \in 1 .. registered /\ Lock(p) = None /\ t # None
      /\ Put(p, "stopped", None, Restarts(p) + 1, t)
      /\ UNCHANGED <<registry, pool, bare, mixed>>
  BY WorkTyped, Members DEF Relaunch, At, Holding, Unlocked
<1>2. task'[t] = AtStep(t, "spawn") /\ \A u \in Tasks : u # t => task'[u] = task[u]
  BY RelaunchMoves
<1>3. task'[t].step = "spawn" /\ Mine(t)' = p
  BY <1>2 DEF AtStep, Mine
<1>4. process'[p].child = None /\ process'[p].lock = t
  BY <1>1, PutIs
<1>5. HoldsLock(t)'
  BY <1>3, <1>4 DEF HoldsLock, Lock, Child
<1> HIDE DEF p
<1> QED
  BY <1>1, <1>2, <1>5, PoolWork

LEMMA SpawnPool ==
    ASSUME Base, PoolInv, NEW t \in Tasks, Spawn(t)
    PROVE  PoolInv'
<1> DEFINE p == Mine(t)
           d == spawned'
<1>1. /\ p \in 1 .. registered /\ t # None
      /\ Put(p, "starting", d, Restarts(p), t)
      /\ UNCHANGED <<registry, pool, mixed>>
      /\ bare' = IF task[t].op = "restart" THEN bare \cup {d} ELSE bare
  BY SpawnMoves, Members DEF Spawn
<1>2. Lock(p) \in {None, t}
  <2>1. CASE At(t, "launch")
    BY <2>1, SpawnMoves, CallTyped DEF Spawn, MaySpawn, At, Unlocked
  <2>2. CASE At(t, "spawn")
    BY <2>2, LockOf DEF At
  <2> QED
    BY <2>1, <2>2 DEF Spawn, MaySpawn
<1>3. task'[t] = AtStep(t, "handshake") /\ \A u \in Tasks : u # t => task'[u] = task[u]
  BY SpawnMoves
<1>4. task'[t].step = "handshake" /\ task'[t].op = task[t].op /\ Mine(t)' = p
  BY <1>3 DEF AtStep, Mine
<1>5. process'[p].child = d /\ process'[p].lock = t
  BY <1>1, PutIs
<1>6. HoldsLock(t)'
  BY <1>1, <1>4, <1>5 DEF HoldsLock, Lock, Child
<1> HIDE DEF p, d
<1> QED
  BY <1>1, <1>2, <1>3, <1>6, PoolWork

LEMMA StopPool ==
    ASSUME Base, PoolInv, NEW t \in Tasks, Stop(t) \/ Reap(t)
    PROVE  PoolInv'
<1> DEFINE p == Mine(t)
<1>1. p \in 1 .. registered
  BY WorkTyped DEF Stop, Reap, At, Holding
<1>2. /\ HoldsLock(t)' /\ \A u \in Tasks : u # t => task'[u] = task[u]
  BY FreeMoves DEF Stop, Reap, Steps
<1>3. /\ Lock(p) = None /\ Put(p, "stopped", None, Restarts(p), None)
      /\ UNCHANGED bare /\ registry' \in {registry, None}
  BY DEF Stop, Reap, Unlocked
<1>4. mixed' \/ p = registry \/ registry' = None
  BY DEF Stop, Reap
<1> HIDE DEF p
<1> QED
  BY <1>1, <1>2, <1>3, <1>4, PoolWork

LEMMA CheckPool ==
    ASSUME Base, PoolInv, NEW c \in Children, Check(c) \/ Die(c)
    PROVE  PoolInv'
<1>1. UNCHANGED <<registry, task, pool, bare, mixed>>
  BY CheckMoves DEF Die
<1>2. \A p \in Processes : process'[p].child = process[p].child /\ process'[p].lock = process[p].lock
  <2>1. CASE process' = process
    BY <2>1
  <2>2. ASSUME NEW q \in 1 .. registered, NEW status, Mark(q, status)
        PROVE  \A p \in Processes : /\ process'[p].child = process[p].child
                                    /\ process'[p].lock = process[p].lock
    <3>1. Put(q, status, Child(q), Restarts(q), Lock(q))
      BY <2>2 DEF Mark
    <3>2. /\ process'[q].child = Child(q) /\ process'[q].lock = Lock(q)
          /\ \A p \in Processes : p # q => process'[p] = process[p]
      BY <3>1, PutIs
    <3> QED
      BY <3>2 DEF Child, Lock
  <2>3. CASE Die(c)
    BY <2>1, <2>3 DEF Die
  <2>4. CASE Check(c)
    BY <2>1, <2>2, <2>4, CheckMoves
  <2> QED
    BY <2>3, <2>4
<1>3. LocksHeld'
  <2> SUFFICES ASSUME NEW t \in Tasks, task[t].step \in {"spawn", "handshake", "publish"}
               PROVE  HoldsLock(t)'
    BY <1>1 DEF LocksHeld, HoldsLock
  <2>1. Mine(t) \in Processes
    BY WorkTyped DEF Holding
  <2> QED
    BY <1>1, <1>2, <2>1 DEF PoolInv, LocksHeld, HoldsLock, Lock, Child, Mine
<1>4. PoolFits'
  <2>1. registry # None => registry \in Processes
    BY BaseTypes, ProcessTyped DEF None
  <2> QED
    BY <1>1, <1>2, <2>1 DEF PoolInv, PoolFits, Unlocked, Lock, Child
<1> QED
  BY <1>3, <1>4 DEF PoolInv

LEMMA PoolStep ==
    ASSUME Base, PoolInv, [Next]_vars
    PROVE  PoolInv'
<1>1. CASE UNCHANGED vars
  BY <1>1 DEF vars, PoolInv, LocksHeld, HoldsLock, PoolFits, Unlocked, Lock, Child, Mine
<1>2. CASE \E r \in Requests, kind \in Kinds : Ask(r, kind)
  BY <1>2, Members, BeginPool
<1>3. CASE Poll
  BY <1>3, Members, BeginPool
<1>4. ASSUME NEW t \in Tasks, Step(t)
      PROVE  PoolInv'
  BY <1>4, CallPool, RegisterPool, FailPool, SpawnPool, HandshakePool, PublishPool, RelaunchPool,
     StopPool DEF Step
<1>5. CASE \E t \in Tasks : \/ ReadByClient(t) /\ t # Monitor
                            \/ t = Monitor /\ (Reconnect \/ LeaveAsIs)
                            \/ Step(t)
  BY <1>4, <1>5, CallPool
<1>6. CASE \E c \in Children : Check(c) \/ Die(c)
  BY <1>6, CheckPool
<1>7. CASE Next
  BY <1>1, <1>2, <1>3, <1>5, <1>6, <1>7, NextIs
<1> QED
  BY <1>1, <1>7

\* When no call holds the process of a server that runs, tools use the
\* connection to its child.
THEOREM PoolCurrent == Spec => []PoolIsCurrent
<1>1. Init => PoolInv
  BY DEF Init, PoolInv, LocksHeld, HoldsLock, PoolFits, Rest
<1>2. Base /\ PoolInv /\ [Next]_vars => PoolInv'
  BY PoolStep
<1>3. PoolInv => PoolIsCurrent
  BY DEF PoolInv, PoolFits, PoolIsCurrent
<1> QED
  BY <1>1, <1>2, <1>3, BaseHolds, PTL DEF Spec
=============================================================================
