------------------------- MODULE DynamicChallenges --------------------------
(***************************************************************************)
(* The challenges that Kafka commands add at run time, kept in one map per *)
(* kind of key behind one mutex each: request threads look them up with    *)
(* try-locks, the Kafka consumer thread adds them and the scheduled task   *)
(* (expiry or status report) walks them, both with blocking locks.         *)
(*                                                                         *)
(* A map takes a key to a node [id, added]; a node keeps its identity when *)
(* its key is assigned again and loses it when it is erased, which is what *)
(* decides whether an iterator to it may still be followed.                *)
(***************************************************************************)
EXTENDS Naturals, Integers, FiniteSets

CONSTANTS Threads, Consumer, Task, Nobody, Hosts, IPs,
          DynamicExpirySeconds,
          MaxTime, MaxRequests, MaxMessages, MaxTasks

Actors == Threads \cup {Consumer, Task}
Kinds == {"host", "ip"}
Keys(kind) == IF kind = "host" THEN Hosts ELSE IPs

ASSUME DynamicAssumption ==
    /\ Consumer \notin Threads /\ Task \notin Threads /\ Consumer # Task
    /\ Nobody \notin Actors
    /\ Hosts # {} /\ IPs # {}
    /\ {DynamicExpirySeconds, MaxTime, MaxRequests, MaxMessages, MaxTasks} \subseteq Nat

VARIABLES
    clock,
    dynamic,  \* kind -> key -> node: host_/ip_to_challenge_dynamic
    mutex,    \* kind -> holder of the map's mutex
    pc,
    req,      \* per thread: host and ip of its request
    it,       \* per thread: dyn_challenges_it
    load,     \* the consumer's parsed challenge: kind, key, time_added
    task,     \* the task's kind and its current_timestamp
    nodes,    \* number of map nodes ever made
    budget    \* requests, messages and tasks left

vars == <<clock, dynamic, mutex, pc, req, it, load, task, nodes, budget>>

Node == [id : Nat, added : Nat]
NoIterator == [kind |-> "none"]
Iterators == [kind : Kinds, key : Hosts \cup IPs, id : Nat]
Pc == {"idle", "host_try", "host_find", "ip_try", "ip_find", "use", "lock", "insert",
       "lock_host", "walk_host", "lock_ip", "walk_ip"}

Init == /\ clock = 0
        /\ dynamic = [kind \in Kinds |-> [key \in {} |-> 0]]
        /\ mutex = [kind \in Kinds |-> Nobody]
        /\ pc = [a \in Actors |-> "idle"]
        /\ \E host \in Hosts, ip \in IPs :
              /\ req = [t \in Threads |-> [host |-> host, ip |-> ip]]
              /\ load = [kind |-> "host", key |-> host, added |-> 0]
        /\ it = [t \in Threads |-> NoIterator]
        /\ task = [op |-> "expire", now |-> 0]
        /\ nodes = 0
        /\ budget = [requests |-> MaxRequests, messages |-> MaxMessages, tasks |-> MaxTasks]

Goto(a, statement) == pc' = [pc EXCEPT ![a] = statement]
Take(a, kind) == mutex[kind] = Nobody /\ mutex' = [mutex EXCEPT ![kind] = a]
Release(kind) == mutex' = [mutex EXCEPT ![kind] = Nobody]

-----------------------------------------------------------------------------
\* on_http_request, for a host without challenges on disk.
Request(t, host, ip) ==
    /\ pc[t] = "idle" /\ budget.requests > 0
    /\ budget' = [budget EXCEPT !.requests = @ - 1]
    /\ req' = [req EXCEPT ![t] = [host |-> host, ip |-> ip]]
    /\ Goto(t, "host_try")
    /\ UNCHANGED <<clock, dynamic, mutex, it, load, task, nodes>>

\* A failed try of either mutex lets the request go ahead unchallenged.
HostTry(t) ==
    /\ pc[t] = "host_try"
    /\ \/ Take(t, "host") /\ Goto(t, "host_find")
       \/ mutex["host"] # Nobody /\ Goto(t, "idle") /\ UNCHANGED mutex
    /\ UNCHANGED <<clock, dynamic, req, it, load, task, nodes, budget>>

Iterator(kind, key) == [kind |-> kind, key |-> key, id |-> dynamic[kind][key].id]

\* The host mutex stays locked while the iterator is followed.
KeepHostUnlocked == Release("host")
KeepHost == UNCHANGED mutex

HostFind(t) ==
    /\ pc[t] = "host_find"
    /\ \/ /\ req[t].host \in DOMAIN dynamic["host"]
          /\ it' = [it EXCEPT ![t] = Iterator("host", req[t].host)]
          /\ Goto(t, "use")
       \/ /\ req[t].host \notin DOMAIN dynamic["host"]
          /\ Goto(t, "ip_try")
          /\ UNCHANGED it
    /\ KeepHost
    /\ UNCHANGED <<clock, dynamic, req, load, task, nodes, budget>>

UnlockHostForgotten == UNCHANGED mutex
UnlockHost == Release("host")

IpTry(t) ==
    /\ pc[t] = "ip_try"
    /\ \/ Take(t, "ip") /\ Goto(t, "ip_find")
       \/ mutex["ip"] # Nobody /\ UnlockHost /\ Goto(t, "idle")
    /\ UNCHANGED <<clock, dynamic, req, it, load, task, nodes, budget>>

\* The challenge of an ip is pushed here, with both mutexes held, and once
\* more in Use, after the ip mutex was released at the end of the scope.
IpFind(t) ==
    /\ pc[t] = "ip_find"
    /\ \/ /\ req[t].ip \in DOMAIN dynamic["ip"]
          /\ it' = [it EXCEPT ![t] = Iterator("ip", req[t].ip)]
          /\ Release("ip")
          /\ Goto(t, "use")
       \/ /\ req[t].ip \notin DOMAIN dynamic["ip"]
          /\ mutex' = [kind \in Kinds |-> Nobody]
          /\ Goto(t, "idle")
          /\ UNCHANGED it
    /\ UNCHANGED <<clock, dynamic, req, load, task, nodes, budget>>

\* challenges_to_run.push_front(dyn_challenges_it->second), end of scope.
Use(t) ==
    /\ pc[t] = "use"
    /\ Release("host")
    /\ it' = [it EXCEPT ![t] = NoIterator]
    /\ Goto(t, "idle")
    /\ UNCHANGED <<clock, dynamic, req, load, task, nodes, budget>>

-----------------------------------------------------------------------------
\* load_single_host_challenge, load_single_ip_challenge: time_added is set
\* when the challenge is parsed, before the mutex is taken.
Stamp == clock

Load(kind, key) ==
    /\ pc[Consumer] = "idle" /\ budget.messages > 0
    /\ budget' = [budget EXCEPT !.messages = @ - 1]
    /\ load' = [kind |-> kind, key |-> key, added |-> Stamp]
    /\ Goto(Consumer, "lock")
    /\ UNCHANGED <<clock, dynamic, mutex, req, it, task, nodes>>

LoadLock ==
    /\ pc[Consumer] = "lock"
    /\ Take(Consumer, load.kind)
    /\ Goto(Consumer, "insert")
    /\ UNCHANGED <<clock, dynamic, req, it, load, task, nodes, budget>>

Insert ==
    LET map == dynamic[load.kind]
        id == IF load.key \in DOMAIN map THEN map[load.key].id ELSE nodes + 1
    IN  /\ pc[Consumer] = "insert"
        /\ dynamic' = [dynamic EXCEPT ![load.kind] =
               [key \in DOMAIN map \cup {load.key} |->
                   IF key = load.key THEN [id |-> id, added |-> load.added] ELSE map[key]]]
        /\ nodes' = nodes + 1
        /\ Release(load.kind)
        /\ Goto(Consumer, "idle")
        /\ UNCHANGED <<clock, req, it, load, task, budget>>

-----------------------------------------------------------------------------
\* remove_expired_challenges and the two sizes that report_status sends: one
\* at a time, as both run under scheduled_continuation_mutex.
StartTask(op) ==
    /\ pc[Task] = "idle" /\ budget.tasks > 0
    /\ budget' = [budget EXCEPT !.tasks = @ - 1]
    /\ task' = [op |-> op, now |-> clock]
    /\ Goto(Task, "lock_host")
    /\ UNCHANGED <<clock, dynamic, mutex, req, it, load, nodes>>

TaskLock(kind) ==
    /\ pc[Task] = (IF kind = "host" THEN "lock_host" ELSE "lock_ip")
    /\ Take(Task, kind)
    /\ Goto(Task, IF kind = "host" THEN "walk_host" ELSE "walk_ip")
    /\ UNCHANGED <<clock, dynamic, req, it, load, task, nodes, budget>>

ExpiredEarly(node) == task.now - node.added >= DynamicExpirySeconds
Expired(node) == task.now - node.added > DynamicExpirySeconds

Unexpired(map) ==
    [key \in {k \in DOMAIN map : task.op = "expire" => ~Expired(map[k])} |-> map[key]]

TaskWalk(kind) ==
    /\ pc[Task] = (IF kind = "host" THEN "walk_host" ELSE "walk_ip")
    /\ dynamic' = [dynamic EXCEPT ![kind] = Unexpired(dynamic[kind])]
    /\ Release(kind)
    /\ Goto(Task, IF kind = "host" THEN "lock_ip" ELSE "idle")
    /\ UNCHANGED <<clock, req, it, load, task, nodes, budget>>

Tick == /\ clock < MaxTime
        /\ clock' = clock + 1
        /\ UNCHANGED <<dynamic, mutex, pc, req, it, load, task, nodes, budget>>

-----------------------------------------------------------------------------
RequestStep(t) == HostTry(t) \/ HostFind(t) \/ IpTry(t) \/ IpFind(t) \/ Use(t)
LoadStep == LoadLock \/ Insert
TaskStep == \E kind \in Kinds : TaskLock(kind) \/ TaskWalk(kind)

Next == \/ \E t \in Threads : RequestStep(t) \/ \E host \in Hosts, ip \in IPs : Request(t, host, ip)
        \/ \E kind \in Kinds : \E key \in Keys(kind) : Load(kind, key)
        \/ LoadStep
        \/ \E op \in {"expire", "report"} : StartTask(op)
        \/ TaskStep
        \/ Tick

Spec == Init /\ [][Next]_vars

\* Started calls go on: nothing in them waits but for a mutex.
FairSpec == /\ Spec
            /\ \A t \in Threads : WF_vars(RequestStep(t))
            /\ WF_vars(LoadStep)
            /\ WF_vars(TaskStep)

-----------------------------------------------------------------------------
\* The types; no time stamp lies in the future.
TypeOK ==
    /\ clock \in Nat /\ nodes \in Nat
    /\ \A kind \in Kinds :
           /\ DOMAIN dynamic[kind] \subseteq Keys(kind)
           /\ \A key \in DOMAIN dynamic[kind] :
                  /\ dynamic[kind][key] \in Node
                  /\ dynamic[kind][key].added <= clock
    /\ DOMAIN dynamic = Kinds
    /\ mutex \in [Kinds -> Actors \cup {Nobody}]
    /\ pc \in [Actors -> Pc]
    /\ req \in [Threads -> [host : Hosts, ip : IPs]]
    /\ it \in [Threads -> {NoIterator} \cup Iterators]
    /\ load.kind \in Kinds /\ load.key \in Keys(load.kind)
    /\ load.added \in Nat /\ load.added <= clock
    /\ task.op \in {"expire", "report"} /\ task.now \in Nat /\ task.now <= clock

\* Who holds which mutex, by the statement each actor is at: at most one
\* actor at a time reads or writes a map's nodes under its mutex.
Holds(a, kind) ==
    \/ a \in Threads /\ kind = "host" /\ pc[a] \in {"host_find", "ip_try", "ip_find", "use"}
    \/ a \in Threads /\ kind = "ip" /\ pc[a] = "ip_find"
    \/ a = Consumer /\ pc[a] = "insert" /\ load.kind = kind
    \/ a = Task /\ pc[a] = (IF kind = "host" THEN "walk_host" ELSE "walk_ip")

MutexesHeld == \A a \in Actors, kind \in Kinds : Holds(a, kind) <=> mutex[kind] = a

\* An iterator into a map refers to a node that is still in the map.
Valid(i) == /\ i.key \in DOMAIN dynamic[i.kind]
            /\ dynamic[i.kind][i.key].id = i.id

\* The challenge of a host that a request found is still in the map when the
\* request copies it, whatever the consumer and the expiry task do meanwhile.
HostIteratorValid ==
    \A t \in Threads : pc[t] = "use" /\ it[t].kind = "host" => Valid(it[t])

\* What "Got lock for ip_to_challenge_dynamic; checking inside" says: the same
\* for the challenge of an ip.
IpIteratorValid ==
    \A t \in Threads : pc[t] = "use" /\ it[t].kind = "ip" => Valid(it[t])

\* A challenge is taken out of its map only when it is older than
\* dynamic_expiry_seconds, although the task compares with a time it read
\* before it waited for the mutexes and challenges are renewed meanwhile.
NoEarlyExpiry ==
    [][\A kind \in Kinds : \A key \in DOMAIN dynamic[kind] :
          key \notin DOMAIN dynamic'[kind] =>
              clock - dynamic[kind][key].added > DynamicExpirySeconds]_vars

\* Nobody waits for ever: a Kafka command that arrived is stored, and a task
\* that started ends (and with it gives back reload_mutex).
CallsComplete ==
    /\ pc[Consumer] = "lock" ~> pc[Consumer] = "idle"
    /\ pc[Task] = "lock_host" ~> pc[Task] = "idle"
=============================================================================
