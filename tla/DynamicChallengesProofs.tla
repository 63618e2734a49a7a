---------------------- MODULE DynamicChallengesProofs ----------------------
(***************************************************************************)
(* Proofs about the dynamic challenges, for any number of request threads, *)
(* hosts and ips, any expiry time and any bound.                           *)
(***************************************************************************)
EXTENDS DynamicChallenges, TLAPS

\* A node found in a map, and the iterator to it, are typed.
LEMMA NodeTyping ==
    ASSUME TypeOK, NEW kind \in Kinds, NEW key \in DOMAIN dynamic[kind]
    PROVE  /\ dynamic[kind][key].id \in Nat /\ dynamic[kind][key].added \in Nat
           /\ dynamic[kind][key].added <= clock
           /\ Iterator(kind, key) \in Iterators
<1>1. dynamic[kind][key] \in Node /\ key \in Keys(kind) /\ dynamic[kind][key].added <= clock
  BY DEF TypeOK
<1>2. key \in Hosts \cup IPs
  BY <1>1 DEF Keys
<1> QED
  BY <1>1, <1>2 DEF Node, Iterator, Iterators

\* What the maps must be for TypeOK.
MapsTyped ==
    /\ DOMAIN dynamic = Kinds
    /\ \A kind \in Kinds :
           /\ DOMAIN dynamic[kind] \subseteq Keys(kind)
           /\ \A key \in DOMAIN dynamic[kind] :
                  /\ dynamic[kind][key] \in Node
                  /\ dynamic[kind][key].added <= clock

LEMMA TypeStep == TypeOK /\ [Next]_vars => TypeOK'
<1> SUFFICES ASSUME TypeOK, [Next]_vars PROVE TypeOK'
  OBVIOUS
<1> USE DynamicAssumption DEF Actors, Pc, Goto, Take, Release
<1>1. ASSUME NEW t \in Threads, NEW host \in Hosts, NEW ip \in IPs, Request(t, host, ip)
      PROVE  TypeOK'
  BY <1>1 DEF Request, TypeOK
<1>2. ASSUME NEW t \in Threads, HostTry(t) PROVE TypeOK'
  BY <1>2 DEF HostTry, TypeOK, Kinds
<1>3. ASSUME NEW t \in Threads, HostFind(t) PROVE TypeOK'
  <2>1. req[t].host \in DOMAIN dynamic["host"] => Iterator("host", req[t].host) \in Iterators
    BY NodeTyping DEF Kinds
  <2>2. it' \in [Threads -> {NoIterator} \cup Iterators]
    BY <1>3, <2>1 DEF HostFind, TypeOK
  <2> QED
    BY <1>3, <2>2 DEF HostFind, KeepHost, TypeOK
<1>4. ASSUME NEW t \in Threads, IpTry(t) PROVE TypeOK'
  BY <1>4 DEF IpTry, UnlockHost, TypeOK, Kinds
<1>5. ASSUME NEW t \in Threads, IpFind(t) PROVE TypeOK'
  <2>1. req[t].ip \in DOMAIN dynamic["ip"] => Iterator("ip", req[t].ip) \in Iterators
    BY NodeTyping DEF Kinds
  <2>2. it' \in [Threads -> {NoIterator} \cup Iterators]
    BY <1>5, <2>1 DEF IpFind, TypeOK
  <2>3. mutex' \in [Kinds -> Actors \cup {Nobody}]
    BY <1>5 DEF IpFind, TypeOK
  <2> QED
    BY <1>5, <2>2, <2>3 DEF IpFind, TypeOK
<1>6. ASSUME NEW t \in Threads, Use(t) PROVE TypeOK'
  BY <1>6 DEF Use, TypeOK, Kinds
<1>7. ASSUME NEW kind \in Kinds, NEW key \in Keys(kind), Load(kind, key) PROVE TypeOK'
  BY <1>7 DEF Load, Stamp, TypeOK
<1>8. ASSUME LoadLock PROVE TypeOK'
  BY <1>8 DEF LoadLock, TypeOK
<1>9. ASSUME Insert PROVE TypeOK'
  <2> DEFINE map == dynamic[load.kind]
             id == IF load.key \in DOMAIN map THEN map[load.key].id ELSE nodes + 1
             new == [id |-> id, added |-> load.added]
             map2 == [key \in DOMAIN map \cup {load.key} |->
                         IF key = load.key THEN new ELSE map[key]]
  <2>1. load.kind \in Kinds /\ load.key \in Keys(load.kind) /\ DOMAIN dynamic = Kinds
    BY DEF TypeOK
  <2>2. id \in Nat
    BY <2>1, NodeTyping DEF TypeOK
  <2>3. new \in Node /\ new.added <= clock
    BY <2>2 DEF Node, TypeOK
  <2>4. /\ DOMAIN map2 \subseteq Keys(load.kind)
        /\ \A key \in DOMAIN map2 : map2[key] \in Node /\ map2[key].added <= clock
    BY <2>1, <2>3 DEF TypeOK
  <2>5. dynamic' = [dynamic EXCEPT ![load.kind] = map2] /\ clock' = clock
    BY <1>9 DEF Insert
  <2> HIDE DEF map2
  <2>6. MapsTyped'
    BY <2>1, <2>4, <2>5 DEF TypeOK, MapsTyped
  <2>7. /\ nodes' = nodes + 1 /\ mutex' = [mutex EXCEPT ![load.kind] = Nobody]
        /\ pc' = [pc EXCEPT ![Consumer] = "idle"]
        /\ UNCHANGED <<clock, req, it, load, task>>
    BY <1>9 DEF Insert
  <2> QED
    BY <2>1, <2>6, <2>7 DEF TypeOK, MapsTyped
<1>10. ASSUME NEW op \in {"expire", "report"}, StartTask(op) PROVE TypeOK'
  BY <1>10 DEF StartTask, TypeOK
<1>11. ASSUME NEW kind \in Kinds, TaskLock(kind) PROVE TypeOK'
  BY <1>11 DEF TaskLock, TypeOK
<1>12. ASSUME NEW kind \in Kinds, TaskWalk(kind) PROVE TypeOK'
  <2> DEFINE map2 == Unexpired(dynamic[kind])
  <2>1. /\ DOMAIN map2 \subseteq Keys(kind)
        /\ \A key \in DOMAIN map2 : map2[key] \in Node /\ map2[key].added <= clock
    BY DEF Unexpired, TypeOK
  <2>2. dynamic' = [dynamic EXCEPT ![kind] = map2] /\ clock' = clock
    BY <1>12 DEF TaskWalk
  <2> HIDE DEF map2
  <2>3. MapsTyped'
    BY <2>1, <2>2 DEF TypeOK, MapsTyped
  <2> QED
    BY <1>12, <2>3 DEF TaskWalk, TypeOK, MapsTyped
<1>13. ASSUME Tick PROVE TypeOK'
  <2>1. clock \in Nat /\ clock' = clock + 1
    BY <1>13 DEF Tick, TypeOK
  <2>2. ASSUME NEW kind \in Kinds, NEW key \in DOMAIN dynamic[kind]
        PROVE  dynamic[kind][key].added <= clock'
    BY <2>1, <2>2, NodeTyping
  <2>3. load.added <= clock' /\ task.now <= clock'
    BY <2>1 DEF TypeOK
  <2> QED
    BY <1>13, <2>1, <2>2, <2>3 DEF Tick, TypeOK
<1>14. ASSUME UNCHANGED vars PROVE TypeOK'
  BY <1>14 DEF vars, TypeOK
<1> QED
  BY <1>1, <1>2, <1>3, <1>4, <1>5, <1>6, <1>7, <1>8, <1>9, <1>10, <1>11, <1>12, <1>13,
     <1>14 DEF Next, RequestStep, LoadStep, TaskStep

\* A step keeps the correspondence of statements and mutexes.
LEMMA MutexStep == TypeOK /\ MutexesHeld /\ [Next]_vars => MutexesHeld'
<1> SUFFICES ASSUME TypeOK, MutexesHeld, [Next]_vars PROVE MutexesHeld'
  OBVIOUS
<1> USE DynamicAssumption DEF Actors, Goto, Take, Release, Kinds
<1>0. /\ mutex \in [Kinds -> Actors \cup {Nobody}] /\ pc \in [Actors -> Pc]
      /\ load.kind \in Kinds
  BY DEF TypeOK
<1>1. ASSUME NEW t \in Threads, NEW host \in Hosts, NEW ip \in IPs, Request(t, host, ip)
      PROVE  MutexesHeld'
  BY <1>0, <1>1 DEF Request, MutexesHeld, Holds
<1>2. ASSUME NEW t \in Threads, HostTry(t) PROVE MutexesHeld'
  BY <1>0, <1>2 DEF HostTry, MutexesHeld, Holds
<1>3. ASSUME NEW t \in Threads, HostFind(t) PROVE MutexesHeld'
  BY <1>0, <1>3 DEF HostFind, KeepHost, MutexesHeld, Holds
<1>4. ASSUME NEW t \in Threads, IpTry(t) PROVE MutexesHeld'
  BY <1>0, <1>4 DEF IpTry, UnlockHost, MutexesHeld, Holds
<1>5. ASSUME NEW t \in Threads, IpFind(t) PROVE MutexesHeld'
  BY <1>0, <1>5 DEF IpFind, MutexesHeld, Holds
<1>6. ASSUME NEW t \in Threads, Use(t) PROVE MutexesHeld'
  BY <1>0, <1>6 DEF Use, MutexesHeld, Holds
<1>7. ASSUME NEW kind \in Kinds, NEW key \in Keys(kind), Load(kind, key) PROVE MutexesHeld'
  BY <1>0, <1>7 DEF Load, MutexesHeld, Holds
<1>8. ASSUME LoadLock PROVE MutexesHeld'
  BY <1>0, <1>8 DEF LoadLock, MutexesHeld, Holds
<1>9. ASSUME Insert PROVE MutexesHeld'
  <2>1. /\ pc[Consumer] = "insert" /\ mutex' = [mutex EXCEPT ![load.kind] = Nobody]
        /\ pc' = [pc EXCEPT ![Consumer] = "idle"] /\ load' = load
    BY <1>9 DEF Insert
  <2> QED
    BY <1>0, <2>1 DEF MutexesHeld, Holds
<1>10. ASSUME NEW op \in {"expire", "report"}, StartTask(op) PROVE MutexesHeld'
  BY <1>0, <1>10 DEF StartTask, MutexesHeld, Holds
<1>11. ASSUME NEW kind \in Kinds, TaskLock(kind) PROVE MutexesHeld'
  BY <1>0, <1>11 DEF TaskLock, MutexesHeld, Holds
<1>12. ASSUME NEW kind \in Kinds, TaskWalk(kind) PROVE MutexesHeld'
  BY <1>0, <1>12 DEF TaskWalk, MutexesHeld, Holds
<1>13. ASSUME Tick \/ UNCHANGED vars PROVE MutexesHeld'
  BY <1>13 DEF Tick, vars, MutexesHeld, Holds
<1> QED
  BY <1>1, <1>2, <1>3, <1>4, <1>5, <1>6, <1>7, <1>8, <1>9, <1>10, <1>11, <1>12, <1>13
     DEF Next, RequestStep, LoadStep, TaskStep

\* The maps change only in the consumer's insertion and the task's walk, each
\* under the mutex of the map it changes.
LEMMA MapChange ==
    ASSUME TypeOK, MutexesHeld, [Next]_vars
    PROVE  \/ dynamic' = dynamic
           \/ Insert
           \/ \E kind \in Kinds : TaskWalk(kind)
  BY DEF Next, RequestStep, LoadStep, TaskStep, Request, HostTry, HostFind, IpTry, IpFind,
     Use, Load, LoadLock, StartTask, TaskLock, Tick, vars

\* An insertion keeps every node where it is.
LEMMA InsertKeeps ==
    ASSUME TypeOK, Insert, NEW kind \in Kinds, NEW key \in DOMAIN dynamic[kind]
    PROVE  /\ key \in DOMAIN dynamic'[kind]
           /\ dynamic'[kind][key].id = dynamic[kind][key].id
<1> DEFINE map == dynamic[load.kind]
           new == [id |-> IF load.key \in DOMAIN map THEN map[load.key].id ELSE nodes + 1,
                   added |-> load.added]
           map2 == [k \in DOMAIN map \cup {load.key} |-> IF k = load.key THEN new ELSE map[k]]
<1>1. dynamic' = [dynamic EXCEPT ![load.kind] = map2] /\ DOMAIN dynamic = Kinds
  BY DEF Insert, TypeOK
<1>2. CASE kind = load.kind
  BY <1>1, <1>2
<1>3. CASE kind # load.kind
  BY <1>1, <1>3
<1> QED
  BY <1>2, <1>3

\* A node that a request holds an iterator to, with the host mutex, stays.
LEMMA HostStep ==
    ASSUME TypeOK, MutexesHeld, HostIteratorValid, [Next]_vars
    PROVE  HostIteratorValid'
<1> SUFFICES ASSUME NEW t \in Threads, pc'[t] = "use", it'[t].kind = "host"
             PROVE  /\ it'[t].key \in DOMAIN dynamic'["host"]
                    /\ dynamic'["host"][it'[t].key].id = it'[t].id
  BY DEF HostIteratorValid, Valid
<1>0. t \in Actors /\ "host" \in Kinds /\ DOMAIN dynamic = Kinds
  BY DEF Actors, Kinds, TypeOK
<1>1. CASE pc[t] = "use" /\ it'[t] = it[t]
  <2>1. /\ it[t].key \in DOMAIN dynamic["host"]
        /\ dynamic["host"][it[t].key].id = it[t].id
    BY <1>1 DEF HostIteratorValid, Valid
  <2>2. mutex["host"] = t
    BY <1>0, <1>1 DEF MutexesHeld, Holds
  <2>3. CASE dynamic' = dynamic
    BY <1>1, <2>1, <2>3
  <2>4. CASE Insert
    BY <1>0, <1>1, <2>1, <2>4, InsertKeeps
  <2>5. ASSUME NEW kind \in Kinds, TaskWalk(kind)
        PROVE  dynamic'["host"] = dynamic["host"]
    <3>1. kind # "host"
      BY <2>2, <2>5, DynamicAssumption DEF TaskWalk, MutexesHeld, Holds, Actors
    <3> QED
      BY <1>0, <2>5, <3>1 DEF TaskWalk
  <2> QED
    BY <1>1, <2>1, <2>3, <2>4, <2>5, MapChange
<1>2. CASE HostFind(t)
  BY <1>0, <1>2 DEF HostFind, Iterator, Goto, TypeOK
<1>3. CASE IpFind(t)
  BY <1>0, <1>3 DEF IpFind, Iterator, Goto, TypeOK
<1>4. (pc'[t] = pc[t] /\ it'[t] = it[t]) \/ HostFind(t) \/ IpFind(t)
      \/ pc'[t] # "use"
  <2> USE DynamicAssumption DEF Goto, TypeOK, Actors
  <2>1. ASSUME NEW u \in Threads, NEW host \in Hosts, NEW ip \in IPs, Request(u, host, ip)
        PROVE  (pc'[t] = pc[t] /\ it'[t] = it[t]) \/ pc'[t] # "use"
    BY <2>1 DEF Request
  <2>2. ASSUME NEW u \in Threads, HostTry(u) \/ IpTry(u) \/ Use(u)
        PROVE  (pc'[t] = pc[t] /\ it'[t] = it[t]) \/ pc'[t] # "use"
    BY <2>2 DEF HostTry, IpTry, Use
  <2>3. ASSUME NEW u \in Threads, u # t, HostFind(u) \/ IpFind(u)
        PROVE  pc'[t] = pc[t] /\ it'[t] = it[t]
    BY <2>3 DEF HostFind, IpFind
  <2>4. ASSUME \/ \E kind \in Kinds : \E key \in Keys(kind) : Load(kind, key)
               \/ LoadLock
               \/ Insert
        PROVE  pc'[t] = pc[t] /\ it'[t] = it[t]
    BY <2>4 DEF Load, LoadLock, Insert
  <2>5. ASSUME \/ \E op \in {"expire", "report"} : StartTask(op)
               \/ \E kind \in Kinds : TaskLock(kind) \/ TaskWalk(kind)
        PROVE  pc'[t] = pc[t] /\ it'[t] = it[t]
    BY <2>5 DEF StartTask, TaskLock, TaskWalk
  <2>6. ASSUME Tick \/ UNCHANGED vars
        PROVE  pc'[t] = pc[t] /\ it'[t] = it[t]
    BY <2>6 DEF Tick, vars
  <2> QED
    BY <2>1, <2>2, <2>3, <2>4, <2>5, <2>6 DEF Next, RequestStep, LoadStep, TaskStep
<1> QED
  BY <1>1, <1>2, <1>3, <1>4

\* The initial state satisfies the inductive invariant.
LEMMA InitInvariant == Init => TypeOK /\ MutexesHeld /\ HostIteratorValid
<1> SUFFICES ASSUME Init PROVE TypeOK /\ MutexesHeld /\ HostIteratorValid
  OBVIOUS
<1> USE DynamicAssumption DEF Actors, Kinds, Keys
<1>1. PICK host \in Hosts, ip \in IPs :
         /\ req = [t \in Threads |-> [host |-> host, ip |-> ip]]
         /\ load = [kind |-> "host", key |-> host, added |-> 0]
  BY DEF Init
<1>2. TypeOK
  BY <1>1 DEF Init, TypeOK, Pc
<1>3. MutexesHeld /\ HostIteratorValid
  BY DEF Init, MutexesHeld, Holds, HostIteratorValid
<1> QED
  BY <1>2, <1>3

\* At every moment each map's mutex is held by exactly the actor whose current
\* statement lies between its lock and its unlock, so the consumer, the task
\* and the requests never touch the nodes of a map at once; and the host
\* iterator of on_http_request is valid when the challenge is copied.
THEOREM LookupsSafe == Spec => [](TypeOK /\ MutexesHeld /\ HostIteratorValid)
<1>1. TypeOK /\ MutexesHeld /\ HostIteratorValid /\ [Next]_vars
        => (TypeOK /\ MutexesHeld /\ HostIteratorValid)'
  BY TypeStep, MutexStep, HostStep
<1> QED
  BY <1>1, InitInvariant, PTL DEF Spec

\* remove_expired_challenges erases nothing younger than
\* dynamic_expiry_seconds, for any number of threads and any expiry time.
THEOREM ExpiryNotEarly == Spec => NoEarlyExpiry
<1>1. ASSUME TypeOK, MutexesHeld, [Next]_vars,
             NEW kind \in Kinds, NEW key \in DOMAIN dynamic[kind],
             key \notin DOMAIN dynamic'[kind]
      PROVE  clock - dynamic[kind][key].added > DynamicExpirySeconds
  <2>1. ~Insert
    BY <1>1, InsertKeeps
  <2>2. dynamic' # dynamic
    BY <1>1
  <2>3. PICK walked \in Kinds : TaskWalk(walked)
    BY <1>1, <2>1, <2>2, MapChange
  <2>4. dynamic' = [dynamic EXCEPT ![walked] = Unexpired(dynamic[walked])]
        /\ DOMAIN dynamic = Kinds
    BY <1>1, <2>3 DEF TaskWalk, TypeOK
  <2>5. walked = kind
    BY <1>1, <2>4
  <2>6. key \notin DOMAIN Unexpired(dynamic[kind])
    BY <1>1, <2>4, <2>5
  <2>7. Expired(dynamic[kind][key])
    BY <1>1, <2>6 DEF Unexpired
  <2>8. task.now \in Nat /\ clock \in Nat /\ task.now <= clock
    BY <1>1 DEF TypeOK
  <2>9. dynamic[kind][key].added \in Nat /\ DynamicExpirySeconds \in Nat
    BY <1>1, DynamicAssumption DEF TypeOK, Node
  <2> QED
    BY <2>7, <2>8, <2>9 DEF Expired
<1>2. TypeOK /\ MutexesHeld /\ [Next]_vars
        => [\A kind \in Kinds : \A key \in DOMAIN dynamic[kind] :
               key \notin DOMAIN dynamic'[kind] =>
                   clock - dynamic[kind][key].added > DynamicExpirySeconds]_vars
  BY <1>1
<1> QED
  BY <1>2, LookupsSafe, PTL DEF Spec, NoEarlyExpiry
=============================================================================
