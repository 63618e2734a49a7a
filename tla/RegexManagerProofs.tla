------------------------- MODULE RegexManagerProofs -------------------------
(***************************************************************************)
(* Proofs about regex_banner, for every number of threads, every list of   *)
(* rules and every sequence of requests.                                   *)
(***************************************************************************)
EXTENDS RegexManager, TLAPS

\* A vector without elements is not a vector of states.
LEMMA EmptyIsNoState == Empty \notin [Ids -> RegexState]
  BY RegexAssumption DEF Empty, Ids

LEMMA ResizedTyping ==
    ASSUME NEW s \in [Ids -> RegexState] \cup {Empty}
    PROVE  /\ Resized(s) \in [Ids -> RegexState]
           /\ s # Empty => Resized(s) = s
           /\ s = Empty => \A id \in Ids : Resized(s)[id] = NoState
  BY DEF Resized, RegexState, NoState

\* The share that moves out of the window is not negative.
LEMMA ShareNat ==
    ASSUME NEW hits \in Nat, NEW movement \in Nat, NEW interval \in Nat \ {0}
    PROVE  (hits * movement) \div interval \in Nat
  <1>1. hits * movement \in Nat
    OBVIOUS
  <1> DEFINE product == hits * movement
  <1> HIDE DEF product
  <1>2. product \div interval \in Nat
    BY <1>1 DEF product
  <1> QED
    BY <1>2 DEF product

\* A judgement adds at most one hit, whether the window moves or not, and
\* leaves its begin in the past.
LEMMA UpdatedBounds ==
    ASSUME NEW id \in Ids, NEW s \in RegexState, NEW now \in Nat, NEW c \in Nat,
           s.begin <= c, now <= c
    PROVE  /\ Updated(id, s, now) \in RegexState
           /\ Updated(id, s, now).begin <= c
           /\ Updated(id, s, now).hits <= s.hits + Scale(id)
  <1> DEFINE b == Begun(s, now)
             m == Movement(id, b, now)
             interval == Rules[id].interval
             scale == Scale(id)
             share == (b.hits * m) \div interval
  <1>1. interval \in Nat \ {0} /\ scale \in Nat \ {0}
    BY RegexAssumption
  <1>2. b \in RegexState /\ b.begin <= c /\ b.hits = s.hits /\ b.begin \in Nat /\ b.hits \in Nat
    BY DEF Begun, RegexState
  <1>3. m = now - b.begin - interval /\ m \in Int
    BY <1>1, <1>2 DEF Movement
  <1>4. CASE m > 0
    <2>1. share \in Nat
      <3> HIDE DEF b, m, interval
      <3>1. m \in Nat
        BY <1>3, <1>4
      <3> QED
        BY <1>1, <1>2, <3>1, ShareNat
    <2> DEFINE hits == b.hits - share + scale
    <2>2. Updated(id, s, now) = [begin |-> b.begin + m, hits |-> IF hits < 0 THEN scale ELSE hits]
      BY <1>4 DEF Updated, Moved
    <2>3. b.begin + m \in Nat /\ b.begin + m <= c
      BY <1>1, <1>2, <1>3, <1>4
    <2> HIDE DEF share, scale, b, m, interval
    <2>4. (IF hits < 0 THEN scale ELSE hits) \in Nat /\ (IF hits < 0 THEN scale ELSE hits) <= b.hits + scale
      BY <1>1, <1>2, <2>1
    <2> HIDE DEF hits
    <2>5. Updated(id, s, now).hits = (IF hits < 0 THEN scale ELSE hits) /\ Updated(id, s, now).begin = b.begin + m
      BY <2>2
    <2>6. Updated(id, s, now) \in RegexState
      BY <2>2, <2>3, <2>4 DEF RegexState
    <2> QED
      BY <1>2, <2>3, <2>4, <2>5, <2>6 DEF scale
  <1>5. CASE ~(m > 0)
    <2>1. Updated(id, s, now) = [b EXCEPT !.hits = @ + scale]
      BY <1>5 DEF Updated, Counted
    <2> HIDE DEF scale, b
    <2> QED
      BY <1>1, <1>2, <2>1 DEF RegexState, scale
  <1> QED
    BY <1>4, <1>5

-----------------------------------------------------------------------------
LEMMA CallFields ==
    ASSUME NEW f \in [Threads -> Call], NEW t \in Threads
    PROVE  /\ f[t].ip \in IPs /\ f[t].host \in Hosts /\ f[t].rule \in Ids
           /\ f[t].now \in Nat /\ f[t].result \in Ids \cup {0}
           /\ f[t].state \in [Ids -> RegexState] \cup {Empty}
  BY DEF Call

\* The locals after an assignment to one of them.
LEMMA RuleAssigned ==
    ASSUME call \in [Threads -> Call], NEW t \in Threads, NEW v \in Ids,
           call' = [call EXCEPT ![t].rule = v]
    PROVE  /\ call' \in [Threads -> Call] /\ call'[t] \in Call
           /\ \A u \in Threads \ {t} : call'[u] = call[u]
           /\ call'[t].rule = v
           /\ call'[t].ip = call[t].ip /\ call'[t].now = call[t].now
           /\ call'[t].state = call[t].state /\ call'[t].result = call[t].result
  BY Zenon DEF Call

LEMMA ResultAssigned ==
    ASSUME call \in [Threads -> Call], NEW t \in Threads, NEW v \in Ids,
           call' = [call EXCEPT ![t].result = v]
    PROVE  /\ call' \in [Threads -> Call] /\ call'[t] \in Call
           /\ \A u \in Threads \ {t} : call'[u] = call[u]
           /\ call'[t].result = v
           /\ call'[t].ip = call[t].ip /\ call'[t].rule = call[t].rule
           /\ call'[t].now = call[t].now /\ call'[t].state = call[t].state
  BY DEF Call

LEMMA NowAssigned ==
    ASSUME call \in [Threads -> Call], NEW t \in Threads, NEW v \in Nat,
           call' = [call EXCEPT ![t].now = v]
    PROVE  /\ call' \in [Threads -> Call] /\ call'[t] \in Call
           /\ \A u \in Threads \ {t} : call'[u] = call[u]
           /\ call'[t].now = v
           /\ call'[t].ip = call[t].ip /\ call'[t].rule = call[t].rule
           /\ call'[t].state = call[t].state /\ call'[t].result = call[t].result
  BY DEF Call

LEMMA StateAssigned ==
    ASSUME call \in [Threads -> Call], NEW t \in Threads, NEW v \in [Ids -> RegexState],
           call' = [call EXCEPT ![t].state = v]
    PROVE  /\ call' \in [Threads -> Call] /\ call'[t] \in Call
           /\ \A u \in Threads \ {t} : call'[u] = call[u]
           /\ call'[t].state = v
           /\ call'[t].ip = call[t].ip /\ call'[t].rule = call[t].rule
           /\ call'[t].now = call[t].now /\ call'[t].result = call[t].result
  BY Zenon DEF Call

LEMMA FreshTyping ==
    ASSUME NEW ip \in IPs, NEW host \in Hosts, NEW matching \in SUBSET Ids
    PROVE  Fresh(ip, host, matching) \in Call
  BY RegexAssumption DEF Fresh, Call, Ids

LEMMA FollowingTyping ==
    ASSUME call \in [Threads -> Call], NEW t \in Threads
    PROVE  Following(t) \in Ids
  BY CallFields, RegexAssumption DEF Following, Ids

\* A thread that leaves its call forgets its locals, or keeps all of them.
LEMMA LeaveTyping ==
    ASSUME call \in [Threads -> Call], NEW t \in Threads, NEW statement, Leave(t, statement)
    PROVE  /\ call' \in [Threads -> Call]
           /\ \A u \in Threads \ {t} : call'[u] = call[u]
           /\ statement = "idle" => call'[t] = Fresh(call[t].ip, call[t].host, {})
           /\ statement # "idle" => call' = call
  BY CallFields, FreshTyping DEF Leave

LEMMA LeaveIdle ==
    ASSUME call \in [Threads -> Call], NEW t \in Threads, Leave(t, "idle")
    PROVE  /\ Goto(t, "idle")
           /\ call' \in [Threads -> Call] /\ call'[t] \in Call
           /\ \A u \in Threads \ {t} : call'[u] = call[u]
           /\ call'[t].now = 0 /\ call'[t].state = Empty /\ call'[t].result = 0
           /\ call'[t].ip = call[t].ip
  <1>1. /\ call' \in [Threads -> Call] /\ \A u \in Threads \ {t} : call'[u] = call[u]
        /\ call'[t] = Fresh(call[t].ip, call[t].host, {})
    BY LeaveTyping
  <1> QED
    BY <1>1 DEF Fresh, Leave

-----------------------------------------------------------------------------
LEMMA TypeInit == Init => TypeOK
  <1> SUFFICES ASSUME Init PROVE TypeOK
    OBVIOUS
  <1>1. PICK ip \in IPs, host \in Hosts : call = [t \in Threads |-> Fresh(ip, host, {})]
    BY DEF Init
  <1>2. Fresh(ip, host, {}) \in Call
    BY FreshTyping
  <1>3. /\ Fresh(ip, host, {}).now = 0
        /\ Fresh(ip, host, {}).state = Empty
    BY DEF Fresh
  <1> HIDE DEF Fresh
  <1> QED
    BY <1>1, <1>2, <1>3, RegexAssumption DEF Init, TypeOK, EmptyDb, Pc, Held

DbTyped ==
    /\ DOMAIN regex_manager_ip_db \subseteq IPs
    /\ \A ip \in DOMAIN regex_manager_ip_db :
           /\ regex_manager_ip_db[ip] \in [Ids -> RegexState]
           /\ \A id \in Ids : regex_manager_ip_db[ip][id].begin <= clock

\* The times among a thread's locals are in the past.
Past(c) ==
    /\ c.now <= clock
    /\ c.state # Empty => \A id \in Ids : c.state[id].begin <= clock

LEMMA PastKept ==
    ASSUME NEW c, NEW d, Past(c), d.now = c.now, d.state = c.state
    PROVE  Past(d)
  BY DEF Past

\* What a step by t does to the statement, the mutex and the locals of the
\* threads is enough for TypeOK, if it leaves the clock.
LEMMA ThreadStep ==
    ASSUME TypeOK, NEW t \in Threads, NEW c \in Call, NEW statement \in Pc,
           Goto(t, statement), call' \in [Threads -> Call], call'[t] = c,
           \A u \in Threads \ {t} : call'[u] = call[u],
           Past(c),
           statement \in {"judge", "set", "set_held"} => c.state # Empty,
           statement = "ban" => c.result # 0,
           \/ UNCHANGED db_mutex /\ (statement \in Held <=> pc[t] \in Held)
           \/ db_mutex = NoThread /\ db_mutex' = t /\ statement \in Held
           \/ db_mutex' = NoThread /\ pc[t] \in Held /\ statement \notin Held,
           UNCHANGED clock, DbTyped', requests' \in Nat, kept' \in BOOLEAN,
           banned' \subseteq [ip : IPs, rule : Ids]
    PROVE  TypeOK'
  <1>1. pc' \in [Threads -> Pc] /\ pc'[t] = statement /\ \A u \in Threads \ {t} : pc'[u] = pc[u]
    BY DEF Goto, TypeOK
  <1>2. \A u \in Threads :
           /\ db_mutex' = u <=> pc'[u] \in Held
           /\ call'[u].now <= clock'
           /\ call'[u].state # Empty => \A id \in Ids : call'[u].state[id].begin <= clock'
           /\ pc'[u] \in {"judge", "set", "set_held"} => call'[u].state # Empty
           /\ pc'[u] = "ban" => call'[u].result # 0
    <2> TAKE u \in Threads
    <2>1. CASE u = t
      BY <1>1, <2>1, RegexAssumption, Zenon DEF TypeOK, Past
    <2>2. CASE u # t
      BY <1>1, <2>2, RegexAssumption DEF TypeOK
    <2> QED
      BY <2>1, <2>2
  <1>3. db_mutex' \in Threads \cup {NoThread}
    BY DEF TypeOK
  <1>4. clock' \in Nat
    BY DEF TypeOK
  <1> QED
    BY <1>1, <1>2, <1>3, <1>4, Zenon DEF TypeOK, DbTyped

LEMMA DbKept == TypeOK /\ UNCHANGED <<clock, regex_manager_ip_db>> => DbTyped'
  BY DEF TypeOK, DbTyped

\* What a thread reads is a vector of states that are in the past.
LEMMA ReadTyping ==
    ASSUME TypeOK, NEW ip
    PROVE  /\ Resized(Read(regex_manager_ip_db, ip, Empty)) \in [Ids -> RegexState]
           /\ \A id \in Ids : Resized(Read(regex_manager_ip_db, ip, Empty))[id].begin <= clock
  <1>1. CASE ip \in DOMAIN regex_manager_ip_db
    <2>1. /\ regex_manager_ip_db[ip] \in [Ids -> RegexState]
          /\ \A id \in Ids : regex_manager_ip_db[ip][id].begin <= clock
      BY <1>1 DEF TypeOK
    <2>2. Read(regex_manager_ip_db, ip, Empty) = regex_manager_ip_db[ip]
      BY <1>1 DEF Read
    <2>3. Resized(regex_manager_ip_db[ip]) = regex_manager_ip_db[ip]
      BY <2>1, ResizedTyping, EmptyIsNoState
    <2> QED
      BY <2>1, <2>2, <2>3
  <1>2. CASE ip \notin DOMAIN regex_manager_ip_db
    <2>1. Read(regex_manager_ip_db, ip, Empty) = Empty /\ clock \in Nat
      BY <1>2 DEF Read, TypeOK
    <2>2. Resized(Empty) \in [Ids -> RegexState] /\ \A id \in Ids : Resized(Empty)[id] = NoState
      BY ResizedTyping
    <2>3. NoState.begin <= clock
      BY <2>1 DEF NoState
    <2> QED
      BY <2>1, <2>2, <2>3
  <1> QED
    BY <1>1, <1>2

\* A judgement replaces the state of one rule.
LEMMA JudgeLocals ==
    ASSUME TypeOK, NEW t \in Threads, Judge(t)
    PROVE  /\ call' \in [Threads -> Call] /\ call'[t] \in Call
           /\ \A u \in Threads \ {t} : call'[u] = call[u]
           /\ call'[t].now = call[t].now /\ call'[t].state # Empty
           /\ \A id \in Ids : call'[t].state[id].begin <= clock
           /\ call'[t].ip = call[t].ip
           /\ call[t].rule \in Ids /\ call[t].state \in [Ids -> RegexState]
           /\ call'[t].state = [call[t].state EXCEPT ![call[t].rule] =
                                   Updated(call[t].rule, call[t].state[call[t].rule], call[t].now)]
           /\ \/ call'[t].result = call[t].result
              \/ /\ call'[t].result = call[t].rule
                 /\ Excessive(call[t].rule, call'[t].state[call[t].rule])
  <1> DEFINE id == call[t].rule
             old == call[t].state[id]
             new == Updated(id, old, call[t].now)
             states == [call[t].state EXCEPT ![id] = new]
  <1>1. /\ call \in [Threads -> Call] /\ call[t].state # Empty /\ clock \in Nat
        /\ call[t].now <= clock /\ \A i \in Ids : call[t].state[i].begin <= clock
    BY DEF TypeOK, Judge
  <1>2. id \in Ids /\ call[t].state \in [Ids -> RegexState] /\ call[t].now \in Nat
    BY <1>1, CallFields
  <1>3. old \in RegexState /\ old.begin <= clock
    BY <1>1, <1>2, Zenon
  <1>4. new \in RegexState /\ new.begin <= clock
    BY <1>1, <1>2, <1>3, UpdatedBounds, Zenon
  <1>5. \/ Excessive(id, new) /\ call' = [call EXCEPT ![t].state[id] = new, ![t].result = id]
        \/ call' = [call EXCEPT ![t].state[id] = new, ![t].rule = Following(t)]
    BY DEF Judge
  <1> HIDE DEF new, old
  <1>6. states \in [Ids -> RegexState] /\ states[id] = new /\ \A i \in Ids : states[i].begin <= clock
    BY <1>1, <1>2, <1>4
  <1>7. states # Empty
    BY <1>6, EmptyIsNoState
  <1>8. Following(t) \in Ids
    BY <1>1, FollowingTyping
  <1>9. \/ Excessive(id, new) /\ call' = [call EXCEPT ![t] = [@ EXCEPT !.state = states, !.result = id]]
        \/ call' = [call EXCEPT ![t] = [@ EXCEPT !.state = states, !.rule = Following(t)]]
    BY <1>1, <1>2, <1>5, Zenon
  <1> HIDE DEF states, id
  <1>10. /\ call' \in [Threads -> Call] /\ call'[t] \in Call
         /\ \A u \in Threads \ {t} : call'[u] = call[u]
         /\ call'[t].now = call[t].now /\ call'[t].ip = call[t].ip
         /\ call'[t].state = states
    <2>1. CASE call' = [call EXCEPT ![t] = [@ EXCEPT !.state = states, !.result = id]]
      BY <1>1, <1>2, <1>6, <2>1, Zenon DEF Call
    <2>2. CASE call' = [call EXCEPT ![t] = [@ EXCEPT !.state = states, !.rule = Following(t)]]
      BY <1>1, <1>6, <1>8, <2>2, Zenon DEF Call
    <2> QED
      BY <1>9, <2>1, <2>2
  <1>11. \/ call'[t].result = call[t].result
         \/ call'[t].result = id /\ Excessive(id, new)
    BY <1>1, <1>9, Zenon DEF Call
  <1>12. /\ call[t].rule \in Ids
         /\ call'[t].state = [call[t].state EXCEPT ![call[t].rule] =
                                 Updated(call[t].rule, call[t].state[call[t].rule], call[t].now)]
    BY <1>2, <1>10 DEF states, id, new, old
  <1>13. \/ call'[t].result = call[t].result
         \/ /\ call'[t].result = call[t].rule
            /\ Excessive(call[t].rule, call'[t].state[call[t].rule])
    BY <1>6, <1>10, <1>11 DEF id
  <1> QED
    BY <1>2, <1>6, <1>7, <1>10, <1>12, <1>13, Zenon

LEMMA TypeStep == TypeOK /\ [Next]_vars => TypeOK'
  <1> SUFFICES ASSUME TypeOK, [Next]_vars PROVE TypeOK'
    OBVIOUS
  <1>0. /\ clock \in Nat /\ requests \in Nat /\ call \in [Threads -> Call]
        /\ pc \in [Threads -> Pc] /\ banned \subseteq [ip : IPs, rule : Ids]
        /\ NoThread \notin Threads
    BY RegexAssumption DEF TypeOK
  <1>k. kept' \in BOOLEAN
    BY Zenon DEF Next, Keep, vars, TypeOK
  <1> USE <1>k
  <1>1. ASSUME NEW t \in Threads, NEW ip \in IPs, NEW host \in Hosts, NEW matching \in Records,
               Request(t, ip, host, matching)
        PROVE  TypeOK'
    <2> DEFINE c == Fresh(ip, host, matching)
    <2>1. c \in Call
      BY RegexAssumption, FreshTyping
    <2>2. Past(c) /\ c.state = Empty
      BY <1>0 DEF Fresh, Past
    <2> HIDE DEF c
    <2>3. call' = [call EXCEPT ![t] = c]
      BY <1>1 DEF Request, c
    <2>4. call' \in [Threads -> Call] /\ call'[t] = c /\ \A u \in Threads \ {t} : call'[u] = call[u]
      BY <1>0, <2>1, <2>3
    <2>5. DbTyped'
      BY <1>1, DbKept, Zenon DEF Request
    <2> QED
      BY <1>0, <1>1, <2>1, <2>2, <2>4, <2>5, ThreadStep DEF Request, Pc, Held
  <1>a. \A u \in Threads : Past(call[u])
    BY DEF TypeOK, Past
  <1>b. \A u \in Threads : pc[u] \in {"judge", "set", "set_held"} => call[u].state # Empty
    BY DEF TypeOK
  <1>c. \A u \in Threads : pc[u] = "ban" => call[u].result # 0
    BY DEF TypeOK
  <1>2. ASSUME NEW t \in Threads, SkipHost(t) PROVE TypeOK'
    <2>1. pc[t] = "rule" /\ Leave(t, "idle")
          /\ UNCHANGED <<clock, regex_manager_ip_db, db_mutex, banned, requests>>
      BY <1>2 DEF SkipHost
    <2>2. DbTyped'
      BY <2>1, DbKept, Zenon
    <2>3. Past(call'[t])
      BY <1>0, <2>1, LeaveIdle DEF Past
    <2> QED
      BY <1>0, <2>1, <2>2, <2>3, LeaveIdle, ThreadStep DEF Pc, Held
  <1>3. ASSUME NEW t \in Threads, NoMatch(t) PROVE TypeOK'
    <2>1. /\ pc[t] = "rule" /\ Goto(t, Advance(t)) /\ call' = [call EXCEPT ![t].rule = Following(t)]
          /\ UNCHANGED <<clock, regex_manager_ip_db, db_mutex, banned, requests>>
      BY <1>3 DEF NoMatch
    <2>2. DbTyped' /\ Following(t) \in Ids
      BY <1>0, <2>1, DbKept, FollowingTyping
    <2>3. Past(call'[t])
      BY <1>0, <1>a, <2>1, <2>2, RuleAssigned, PastKept, Zenon
    <2>4. Advance(t) \in {"end", "rule"}
      BY DEF Advance
    <2> QED
      BY <1>0, <2>1, <2>2, <2>3, <2>4, RuleAssigned, ThreadStep, Zenon DEF Pc, Held
  <1>4. ASSUME NEW t \in Threads, Match(t) PROVE TypeOK'
    <2>1. /\ pc[t] = "rule" /\ UNCHANGED <<clock, regex_manager_ip_db, db_mutex, banned, requests>>
      BY <1>4 DEF Match
    <2>2. DbTyped' /\ call[t].rule \in Ids /\ call[t].rule # 0
      BY <1>0, <2>1, DbKept, CallFields DEF Ids
    <2>3. CASE call' = [call EXCEPT ![t].result = call[t].rule] /\ Goto(t, "ban")
      <3>1. Past(call'[t])
        BY <1>0, <1>a, <2>2, <2>3, ResultAssigned, PastKept, ZenonT(40)
      <3>2. /\ call' \in [Threads -> Call] /\ call'[t] \in Call /\ call'[t].result # 0
            /\ \A u \in Threads \ {t} : call'[u] = call[u]
        BY <1>0, <2>2, <2>3, ResultAssigned, Zenon
      <3>3. "ban" \in Pc /\ "ban" \notin Held /\ pc[t] \notin Held
        BY <2>1 DEF Pc, Held
      <3> QED
        BY <1>0, <2>1, <2>2, <2>3, <3>1, <3>2, <3>3, ThreadStep, Zenon
    <2>4. CASE /\ call' = [call EXCEPT ![t].now = clock]
               /\ Goto(t, IF call[t].state = Empty THEN "get" ELSE "judge")
      <3>1. Past(call'[t])
        <4>1. call'[t].now = clock /\ call'[t].state = call[t].state
          BY <1>0, <2>4, NowAssigned
        <4> QED
          BY <1>0, <1>a, <4>1 DEF Past
      <3> DEFINE statement == IF call[t].state = Empty THEN "get" ELSE "judge"
      <3>2. statement \in {"get", "judge"} /\ (statement = "judge" => call[t].state # Empty)
        OBVIOUS
      <3>3. Goto(t, statement)
        BY <2>4
      <3> HIDE DEF statement
      <3> QED
        BY <1>0, <2>1, <2>2, <2>4, <3>1, <3>2, <3>3, NowAssigned, ThreadStep, Zenon DEF Pc, Held
    <2> QED
      BY <1>4, <2>3, <2>4 DEF Match
  <1>5. ASSUME NEW t \in Threads, Get(t) PROVE TypeOK'
    <2>1. /\ pc[t] = "get" /\ UNCHANGED <<clock, regex_manager_ip_db, banned, requests>>
      BY <1>5 DEF Get
    <2>2. DbTyped' /\ Following(t) \in Ids
      BY <1>0, <2>1, DbKept, FollowingTyping
    <2>3. CASE db_mutex = NoThread /\ db_mutex' = t /\ Goto(t, "get_held") /\ UNCHANGED call
      <3>1. /\ call' \in [Threads -> Call] /\ call'[t] = call[t]
            /\ \A u \in Threads \ {t} : call'[u] = call[u]
        BY <1>0, <2>3
      <3>2. Past(call[t])
        BY <1>a
      <3>3. /\ call[t] \in Call /\ "get_held" \in Pc /\ "get_held" \in Held
            /\ "get_held" \in {"judge", "set", "set_held"} => call[t].state # Empty
        BY <1>0 DEF Pc, Held
      <3> QED
        BY <1>0, <2>1, <2>2, <2>3, <3>1, <3>2, <3>3, ThreadStep
    <2>4. CASE /\ UNCHANGED db_mutex /\ Goto(t, Advance(t))
               /\ call' = [call EXCEPT ![t].rule = Following(t)]
      <3>1. Past(call'[t])
        BY <1>0, <1>a, <2>2, <2>4, RuleAssigned, PastKept, Zenon
      <3>2. Advance(t) \in {"end", "rule"}
        BY DEF Advance
      <3> QED
        BY <1>0, <2>1, <2>2, <2>4, <3>1, <3>2, RuleAssigned, ThreadStep, Zenon DEF Pc, Held
    <2> QED
      BY <1>5, <2>3, <2>4 DEF Get
  <1>6. ASSUME NEW t \in Threads, GetHeld(t) PROVE TypeOK'
    <2> DEFINE s == Resized(Read(regex_manager_ip_db, call[t].ip, Empty))
    <2>1. /\ pc[t] = "get_held" /\ db_mutex' = NoThread /\ Goto(t, "judge")
          /\ call' = [call EXCEPT ![t].state = s]
          /\ UNCHANGED <<clock, regex_manager_ip_db, banned, requests>>
      BY <1>6 DEF GetHeld
    <2>2. DbTyped'
      BY <2>1, DbKept
    <2>3. s \in [Ids -> RegexState] /\ \A id \in Ids : s[id].begin <= clock
      BY ReadTyping
    <2> HIDE DEF s
    <2>4. Past(call'[t])
      <3>1. call'[t].now = call[t].now /\ call'[t].state = s
        BY <1>0, <2>1, <2>3, StateAssigned
      <3> QED
        BY <1>a, <2>3, <3>1 DEF Past
    <2>5. s # Empty
      BY <2>3, EmptyIsNoState, Zenon
    <2> QED
      BY <1>0, <2>1, <2>2, <2>3, <2>4, <2>5, StateAssigned, ThreadStep, Zenon DEF Pc, Held
  <1>7. ASSUME NEW t \in Threads, Judge(t) PROVE TypeOK'
    <2>1. /\ pc[t] = "judge" /\ UNCHANGED <<clock, regex_manager_ip_db, db_mutex, banned, requests>>
      BY <1>7 DEF Judge
    <2>2. DbTyped' /\ Following(t) \in Ids
      BY <1>0, <2>1, DbKept, FollowingTyping
    <2>3. /\ call' \in [Threads -> Call] /\ call'[t] \in Call
          /\ \A u \in Threads \ {t} : call'[u] = call[u]
          /\ call'[t].now = call[t].now /\ call'[t].state # Empty
          /\ \A id \in Ids : call'[t].state[id].begin <= clock
      BY <1>7, JudgeLocals, Zenon
    <2>4. Past(call'[t])
      <3>1. call[t].now <= clock
        BY <1>a, Zenon DEF Past
      <3> QED
        BY <2>3, <3>1 DEF Past
    <2>5. Goto(t, "set") \/ Goto(t, "end") \/ Goto(t, "rule")
      BY <1>7 DEF Judge, Advance
    <2> QED
      BY <1>0, <2>1, <2>2, <2>3, <2>4, <2>5, ThreadStep, Zenon DEF Pc, Held
  <1>8. ASSUME NEW t \in Threads, EndMatch(t) PROVE TypeOK'
    <2>1. /\ pc[t] = "end" /\ UNCHANGED <<clock, regex_manager_ip_db, db_mutex, banned, requests>>
      BY <1>8 DEF EndMatch
    <2>2. DbTyped'
      BY <2>1, DbKept
    <2>3. CASE Leave(t, "idle")
      <3>1. Past(call'[t])
        BY <1>0, <2>3, LeaveIdle DEF Past
      <3> QED
        BY <1>0, <2>1, <2>2, <2>3, <3>1, LeaveIdle, ThreadStep, Zenon DEF Pc, Held
    <2>4. CASE call[t].state # Empty /\ Leave(t, "set")
      <3>1. Goto(t, "set") /\ call' = call
        BY <2>4 DEF Leave
      <3>2. Past(call[t])
        BY <1>a
      <3>3. call[t] \in Call
        BY <1>0
      <3> QED
        BY <1>0, <2>1, <2>2, <2>4, <3>1, <3>2, <3>3, ThreadStep DEF Pc, Held
    <2> QED
      BY <1>8, <2>3, <2>4 DEF EndMatch
  <1>9. ASSUME NEW t \in Threads, Set(t) PROVE TypeOK'
    <2>1. /\ pc[t] = "set" /\ UNCHANGED <<clock, regex_manager_ip_db, banned, requests>>
      BY <1>9 DEF Set
    <2>2. DbTyped'
      BY <2>1, DbKept
    <2>3. Past(call[t])
      BY <1>a
    <2>4. call[t] \in Call /\ call[t].state # Empty
      BY <1>0, <1>b, <2>1
    <2>5. CASE db_mutex = NoThread /\ db_mutex' = t /\ Leave(t, "set_held")
      <3>1. Goto(t, "set_held") /\ call' = call
        BY <2>5 DEF Leave
      <3> QED
        BY <1>0, <2>1, <2>2, <2>3, <2>4, <2>5, <3>1, ThreadStep DEF Pc, Held
    <2>6. CASE UNCHANGED db_mutex /\ Leave(t, "ban") /\ call[t].result # 0
      <3>1. Goto(t, "ban") /\ call' = call
        BY <2>6, Zenon DEF Leave
      <3> QED
        BY <1>0, <2>1, <2>2, <2>3, <2>4, <2>6, <3>1, ThreadStep DEF Pc, Held
    <2>7. CASE UNCHANGED db_mutex /\ Leave(t, "idle")
      <3>1. Past(call'[t])
        BY <1>0, <2>7, LeaveIdle DEF Past
      <3> QED
        BY <1>0, <2>1, <2>2, <2>7, <3>1, LeaveIdle, ThreadStep, Zenon DEF Pc, Held
    <2> QED
      BY <1>9, <2>5, <2>6, <2>7 DEF Set, AfterSet
  <1>10. ASSUME NEW t \in Threads, SetHeld(t) PROVE TypeOK'
    <2>1. /\ pc[t] = "set_held" /\ UNCHANGED <<clock, banned, requests>> /\ db_mutex' = NoThread
      BY <1>10 DEF SetHeld
    <2>2. Past(call[t])
      BY <1>a
    <2>3. call[t] \in Call /\ call[t].state # Empty
      BY <1>0, <1>b, <2>1, Zenon
    <2>4. DbTyped'
      <3>1. /\ call[t].ip \in IPs /\ call[t].state \in [Ids -> RegexState]
            /\ \A id \in Ids : call[t].state[id].begin <= clock
        BY <1>0, <2>2, <2>3, CallFields, Zenon DEF Past
      <3> QED
        BY <1>10, <2>1, <3>1, Zenon DEF SetHeld, Write, DbTyped, TypeOK
    <2>5. CASE Leave(t, "ban") /\ call[t].result # 0
      <3>1. Goto(t, "ban") /\ call' = call
        BY <2>5, Zenon DEF Leave
      <3> QED
        BY <1>0, <2>1, <2>2, <2>3, <2>4, <2>5, <3>1, ThreadStep, Zenon DEF Pc, Held
    <2>6. CASE Leave(t, "idle")
      <3>1. Past(call'[t])
        BY <1>0, <2>6, LeaveIdle DEF Past
      <3> QED
        BY <1>0, <2>1, <2>4, <2>6, <3>1, LeaveIdle, ThreadStep, Zenon DEF Pc, Held
    <2> QED
      BY <1>10, <2>5, <2>6 DEF SetHeld, AfterSet
  <1>11. ASSUME NEW t \in Threads, Ban(t) PROVE TypeOK'
    <2>1. /\ pc[t] = "ban" /\ UNCHANGED <<clock, regex_manager_ip_db, db_mutex, requests>>
          /\ banned' = banned \cup {[ip |-> call[t].ip, rule |-> call[t].result]}
          /\ Leave(t, "idle")
      BY <1>11 DEF Ban
    <2>2. DbTyped'
      BY <2>1, DbKept, Zenon
    <2>3. Past(call'[t])
      BY <1>0, <2>1, LeaveIdle DEF Past
    <2>4. banned' \subseteq [ip : IPs, rule : Ids]
      <3>1. call[t].ip \in IPs /\ call[t].result \in Ids
        BY <1>0, <1>c, <2>1, CallFields, Zenon
      <3> QED
        BY <1>0, <2>1, <3>1
    <2> QED
      BY <1>0, <2>1, <2>2, <2>3, <2>4, LeaveIdle, ThreadStep, Zenon DEF Pc, Held
  <1>12. CASE Tick
    <2>1. clock' \in Nat /\ clock <= clock' /\ clock' = clock + 1
      BY <1>0, <1>12 DEF Tick
    <2>2. \A n \in Nat : n <= clock => n <= clock'
      BY <1>0, <2>1
    <2> QED
      BY <1>12, <2>1, <2>2 DEF Tick, TypeOK, Call, RegexState
  <1>13. CASE UNCHANGED vars
    BY <1>13 DEF vars, TypeOK
  <1> QED
    BY <1>1, <1>2, <1>3, <1>4, <1>5, <1>6, <1>7, <1>8, <1>9, <1>10, <1>11, <1>12, <1>13, Zenon
       DEF Next, ProgramStep, Step

-----------------------------------------------------------------------------
(* The states and statements of try_match stay within their types, no      *)
(* window begins in the future, and a thread is at a statement that needs  *)
(* the mutex, a state or a result only when it has it.                     *)
THEOREM TypeCorrect == Spec => []TypeOK
  BY TypeInit, TypeStep, PTL DEF Spec

-----------------------------------------------------------------------------
\* One hit more, and one judgement more.
LEMMA ScaleStep ==
    ASSUME NEW s \in Nat \ {0}, NEW h \in Nat, NEW j \in Nat, h <= s * j
    PROVE  h <= s * (j + 1) /\ h + s <= s * (j + 1)
  OBVIOUS

LEMMA ScaleGrows ==
    ASSUME NEW s \in Nat \ {0}, NEW h \in Nat, NEW j \in Nat, NEW k \in Nat, h <= s * j, j <= k
    PROVE  h <= s * k
  <1>1. s * j <= s * k
    OBVIOUS
  <1> QED
    BY <1>1

LEMMA ScaleDown ==
    ASSUME NEW s \in Nat \ {0}, NEW h \in Nat, NEW j \in Nat, NEW n \in Nat,
           h <= s * j, h >= n * s
    PROVE  j >= n
  <1> SUFFICES ASSUME j + 1 <= n PROVE FALSE
    OBVIOUS
  <1>1. s * (j + 1) <= s * n
    OBVIOUS
  <1> QED
    BY <1>1

Judged(ip, id) == history[ip][id].judged

\* history is kept for every ip and every rule.
HistoryTyped ==
    /\ history = [ip \in IPs |-> [id \in Ids |-> history[ip][id]]]
    /\ \A ip \in IPs, id \in Ids : Judged(ip, id) \in Nat

\* A vector of states of an ip counts no more hits than were judged.
EarnedBy(ip, states) == \A id \in Ids : states[id].hits <= Scale(id) * Judged(ip, id)

\* A result that is to ban an ip is a rule without a rate, or one that has
\* judged enough of its requests.
Deserved(ip, id) == Rated(id) => Judged(ip, id) >= Rules[id].hits_per_interval

(* Why BanNeedsHits is inductive only with more: a rate that is stored may *)
(* be read again much later, by another thread, after others wrote theirs. *)
HitsInvariant ==
    /\ HistoryTyped
    /\ \A ip \in DOMAIN regex_manager_ip_db : EarnedBy(ip, regex_manager_ip_db[ip])
    /\ \A t \in Threads : call[t].state # Empty => EarnedBy(call[t].ip, call[t].state)
    /\ \A t \in Threads : call[t].result # 0 => Deserved(call[t].ip, call[t].result)
    /\ \A b \in banned : Deserved(b.ip, b.rule)

LEMMA HitsInit == Init => HitsInvariant
  <1> SUFFICES ASSUME Init PROVE HitsInvariant
    OBVIOUS
  <1>1. HistoryTyped
    BY DEF Init, HistoryTyped, Judged, NothingJudged
  <1>2. \A t \in Threads : call[t].state = Empty /\ call[t].result = 0
    BY DEF Init, Fresh
  <1> QED
    BY <1>1, <1>2, Zenon DEF Init, HitsInvariant, EmptyDb

\* What is judged is not forgotten: a step that leaves history keeps what was
\* earned and deserved, and one that adds to it as well.
LEMMA JudgedGrows ==
    ASSUME TypeOK, HistoryTyped, NEW t \in Threads, Judge(t)
    PROVE  /\ HistoryTyped'
           /\ history'[call[t].ip][call[t].rule].judged = Judged(call[t].ip, call[t].rule) + 1
           /\ \A ip \in IPs, id \in Ids : Judged(ip, id)' >= Judged(ip, id)
  <1> DEFINE i == call[t].ip
             r == call[t].rule
             noted == Noted(r, history[i][r], call[t].now)
  <1>1. i \in IPs /\ r \in Ids
    BY CallFields, Zenon DEF TypeOK
  <1>2. history' = [history EXCEPT ![i][r] = noted]
    BY Zenon DEF Judge
  <1>3. noted.judged = Judged(i, r) + 1
    BY DEF Noted, Judged
  <1> HIDE DEF i, r, noted
  <1>4. \A ip \in IPs, id \in Ids :
           history'[ip][id] = IF ip = i /\ id = r THEN noted ELSE history[ip][id]
    BY <1>1, <1>2 DEF HistoryTyped
  <1>5. history' = [ip \in IPs |-> [id \in Ids |-> history'[ip][id]]]
    BY <1>1, <1>2, Zenon DEF HistoryTyped
  <1>6. history'[i][r].judged = history[i][r].judged + 1
    BY <1>1, <1>3, <1>4, Zenon DEF Judged
  <1>7. \A ip \in IPs, id \in Ids :
           /\ history[ip][id].judged \in Nat
           /\ history'[ip][id].judged = IF ip = i /\ id = r THEN history[ip][id].judged + 1
                                                            ELSE history[ip][id].judged
    BY <1>4, <1>6, Zenon DEF HistoryTyped, Judged
  <1>8. \A ip \in IPs, id \in Ids : Judged(ip, id)' \in Nat /\ Judged(ip, id)' >= Judged(ip, id)
    BY <1>7 DEF Judged
  <1>9. HistoryTyped'
    BY <1>5, <1>8, Zenon DEF HistoryTyped
  <1> QED
    BY <1>6, <1>8, <1>9, Zenon DEF Judged, i, r

\* Every other step leaves history, so only what t and the database hold
\* afterwards is to be looked at.
LEMMA HitsThread ==
    ASSUME HitsInvariant, NEW t \in Threads, UNCHANGED history,
           \A u \in Threads \ {t} : call'[u] = call[u],
           call'[t].state # Empty => EarnedBy(call'[t].ip, call'[t].state),
           call'[t].result # 0 => Deserved(call'[t].ip, call'[t].result),
           \A ip \in DOMAIN regex_manager_ip_db' : EarnedBy(ip, regex_manager_ip_db'[ip]),
           \A b \in banned' : Deserved(b.ip, b.rule)
    PROVE  HitsInvariant'
  <1>1. \A ip, id : Judged(ip, id)' = Judged(ip, id)
    BY Zenon DEF Judged
  <1>2. \A u \in Threads : call'[u].state # Empty => EarnedBy(call'[u].ip, call'[u].state)
    BY Zenon DEF HitsInvariant
  <1>3. \A u \in Threads : call'[u].result # 0 => Deserved(call'[u].ip, call'[u].result)
    BY Zenon DEF HitsInvariant
  <1>4. HistoryTyped'
    BY <1>1, Zenon DEF HitsInvariant, HistoryTyped
  <1>5. (\A u \in Threads : call[u].state # Empty => EarnedBy(call[u].ip, call[u].state))'
    BY <1>1, <1>2, Zenon DEF EarnedBy
  <1>6. (\A u \in Threads : call[u].result # 0 => Deserved(call[u].ip, call[u].result))'
    BY <1>1, <1>3, Zenon DEF Deserved
  <1>7. (\A ip \in DOMAIN regex_manager_ip_db : EarnedBy(ip, regex_manager_ip_db[ip]))'
    BY <1>1, Zenon DEF EarnedBy
  <1>8. (\A b \in banned : Deserved(b.ip, b.rule))'
    BY <1>1, Zenon DEF Deserved
  <1> QED
    BY <1>4, <1>5, <1>6, <1>7, <1>8, Zenon DEF HitsInvariant

\* With more judged, what was earned and deserved still is.
LEMMA EarnedGrows ==
    ASSUME HistoryTyped, HistoryTyped', NEW ip \in IPs, NEW states \in [Ids -> RegexState],
           \A i \in IPs, id \in Ids : Judged(i, id)' >= Judged(i, id),
           EarnedBy(ip, states)
    PROVE  \A id \in Ids : states[id].hits <= Scale(id) * history'[ip][id].judged
  <1> TAKE id \in Ids
  <1>1. /\ Judged(ip, id) \in Nat /\ history'[ip][id].judged \in Nat
        /\ Judged(ip, id) <= history'[ip][id].judged
    BY Zenon DEF HistoryTyped, Judged
  <1>2. states[id].hits \in Nat /\ Scale(id) \in Nat \ {0}
    BY RegexAssumption DEF RegexState
  <1>3. states[id].hits <= Scale(id) * Judged(ip, id)
    BY Zenon DEF EarnedBy
  <1> QED
    BY <1>1, <1>2, <1>3, ScaleGrows, Zenon

LEMMA DeservedGrows ==
    ASSUME HistoryTyped, HistoryTyped', NEW ip \in IPs, NEW id \in Ids,
           \A i \in IPs, r \in Ids : Judged(i, r)' >= Judged(i, r),
           Deserved(ip, id)
    PROVE  Rated(id) => history'[ip][id].judged >= Rules[id].hits_per_interval
  <1>1. /\ Judged(ip, id) \in Nat /\ history'[ip][id].judged \in Nat
        /\ Judged(ip, id) <= history'[ip][id].judged
    BY Zenon DEF HistoryTyped, Judged
  <1>2. Rules[id].hits_per_interval \in Nat
    BY RegexAssumption, Zenon
  <1> QED
    BY <1>1, <1>2 DEF Deserved

LEMMA HitsStep == TypeOK /\ HitsInvariant /\ [Next]_vars => HitsInvariant'
  <1> SUFFICES ASSUME TypeOK, HitsInvariant, [Next]_vars PROVE HitsInvariant'
    BY Zenon
  <1>0. call \in [Threads -> Call]
    BY Zenon DEF TypeOK
  <1>a. \A ip \in DOMAIN regex_manager_ip_db : EarnedBy(ip, regex_manager_ip_db[ip])
    BY DEF HitsInvariant
  <1>b. \A t \in Threads : call[t].state # Empty => EarnedBy(call[t].ip, call[t].state)
    BY DEF HitsInvariant
  <1>c. \A t \in Threads : call[t].result # 0 => Deserved(call[t].ip, call[t].result)
    BY DEF HitsInvariant
  <1>d. \A b \in banned : Deserved(b.ip, b.rule)
    BY Zenon DEF HitsInvariant
  <1>1. ASSUME NEW t \in Threads, UNCHANGED <<history, regex_manager_ip_db, banned>>,
               \A u \in Threads \ {t} : call'[u] = call[u],
               \/ call'[t].state = Empty /\ call'[t].result = 0
               \/ /\ call'[t].ip = call[t].ip /\ call'[t].state = call[t].state
                  /\ \/ call'[t].result = call[t].result
                     \/ ~Rated(call'[t].result)
        PROVE  HitsInvariant'
    <2>1. call'[t].state # Empty => EarnedBy(call'[t].ip, call'[t].state)
      BY <1>1, <1>b, Zenon
    <2>2. call'[t].result # 0 => Deserved(call'[t].ip, call'[t].result)
      BY <1>1, <1>c, Zenon DEF Deserved
    <2>3. \A ip \in DOMAIN regex_manager_ip_db' : EarnedBy(ip, regex_manager_ip_db'[ip])
      BY <1>1, <1>a, Zenon
    <2>4. \A b \in banned' : Deserved(b.ip, b.rule)
      BY <1>1, <1>d, Zenon
    <2> QED
      BY <1>1, <2>1, <2>2, <2>3, <2>4, HitsThread, Zenon
  <1>2. ASSUME NEW t \in Threads, NEW ip \in IPs, NEW host \in Hosts, NEW matching \in Records,
               Request(t, ip, host, matching)
        PROVE  HitsInvariant'
    <2>1. /\ UNCHANGED <<history, regex_manager_ip_db, banned>>
          /\ \A u \in Threads \ {t} : call'[u] = call[u]
          /\ call'[t].state = Empty /\ call'[t].result = 0
      BY <1>0, <1>2, Zenon DEF Request, Fresh
    <2> QED
      BY <1>1, <2>1, Zenon
  <1>3. ASSUME NEW t \in Threads, SkipHost(t) PROVE HitsInvariant'
    BY <1>0, <1>1, <1>3, LeaveIdle, Zenon DEF SkipHost
  <1>4. ASSUME NEW t \in Threads, NoMatch(t) PROVE HitsInvariant'
    BY <1>0, <1>1, <1>4, FollowingTyping, RuleAssigned, Zenon DEF NoMatch
  <1>5. ASSUME NEW t \in Threads, Match(t) PROVE HitsInvariant'
    <2>1. call[t].rule \in Ids /\ clock \in Nat
      BY <1>0, CallFields, Zenon DEF TypeOK
    <2>2. CASE ~Rated(call[t].rule) /\ call' = [call EXCEPT ![t].result = call[t].rule]
      BY <1>0, <1>1, <1>5, <2>1, <2>2, ResultAssigned, Zenon DEF Match
    <2>3. CASE call' = [call EXCEPT ![t].now = clock]
      BY <1>0, <1>1, <1>5, <2>1, <2>3, NowAssigned DEF Match
    <2> QED
      BY <1>5, <2>2, <2>3, Zenon DEF Match
  <1>6. ASSUME NEW t \in Threads, Get(t) PROVE HitsInvariant'
    <2>1. CASE call' = call
      BY <1>1, <1>6, <2>1 DEF Get
    <2>2. CASE call' = [call EXCEPT ![t].rule = Following(t)]
      BY <1>0, <1>1, <1>6, <2>2, FollowingTyping, RuleAssigned, Zenon DEF Get
    <2> QED
      BY <1>6, <2>1, <2>2 DEF Get
  <1>7. ASSUME NEW t \in Threads, GetHeld(t) PROVE HitsInvariant'
    <2> DEFINE ip == call[t].ip
               s == Resized(Read(regex_manager_ip_db, ip, Empty))
    <2>1. s \in [Ids -> RegexState] /\ ip \in IPs
      BY <1>0, ReadTyping, CallFields, Zenon
    <2>2. EarnedBy(ip, s)
      <3>1. CASE ip \in DOMAIN regex_manager_ip_db
        <4>1. s = regex_manager_ip_db[ip]
          BY <3>1, ResizedTyping, EmptyIsNoState DEF Read, TypeOK
        <4> QED
          BY <1>a, <3>1, <4>1, Zenon
      <3>2. CASE ip \notin DOMAIN regex_manager_ip_db
        <4>1. \A id \in Ids : s[id].hits = 0
          BY <3>2, ResizedTyping DEF Read, NoState
        <4>2. \A id \in Ids : Scale(id) \in Nat /\ Judged(ip, id) \in Nat
          BY <2>1, RegexAssumption DEF HitsInvariant, HistoryTyped
        <4>3. \A m, n \in Nat : 0 <= m * n
          OBVIOUS
        <4> HIDE DEF s, ip
        <4> QED
          BY <4>1, <4>2, <4>3, Zenon DEF EarnedBy
      <3> QED
        BY <3>1, <3>2, Zenon
    <2>3. call' = [call EXCEPT ![t].state = s] /\ UNCHANGED <<history, regex_manager_ip_db, banned>>
      BY <1>7 DEF GetHeld
    <2> HIDE DEF s
    <2>4. /\ \A u \in Threads \ {t} : call'[u] = call[u]
          /\ call'[t].ip = ip /\ call'[t].state = s /\ call'[t].result = call[t].result
      BY <1>0, <2>1, <2>3, StateAssigned, Zenon
    <2>5. call'[t].state # Empty => EarnedBy(call'[t].ip, call'[t].state)
      BY <2>2, <2>4, Zenon
    <2>6. call'[t].result # 0 => Deserved(call'[t].ip, call'[t].result)
      BY <1>c, <2>4
    <2>7. \A i \in DOMAIN regex_manager_ip_db' : EarnedBy(i, regex_manager_ip_db'[i])
      BY <1>a, <2>3
    <2>8. \A b \in banned' : Deserved(b.ip, b.rule)
      BY <1>d, <2>3
    <2> QED
      BY <2>3, <2>4, <2>5, <2>6, <2>7, <2>8, HitsThread, Zenon
  <1>8. ASSUME NEW t \in Threads, Judge(t) PROVE HitsInvariant'
    <2> DEFINE ip == call[t].ip
               r == call[t].rule
               new == Updated(r, call[t].state[r], call[t].now)
    <2>1. /\ HistoryTyped /\ HistoryTyped' /\ history'[ip][r].judged = Judged(ip, r) + 1
          /\ \A i \in IPs, id \in Ids : Judged(i, id)' >= Judged(i, id)
      BY <1>8, JudgedGrows DEF HitsInvariant
    <2>2. /\ ip \in IPs /\ r \in Ids /\ call[t].state \in [Ids -> RegexState]
          /\ \A u \in Threads \ {t} : call'[u] = call[u]
          /\ call'[t].ip = ip /\ call'[t].state = [call[t].state EXCEPT ![r] = new]
      BY <1>0, <1>8, JudgeLocals, CallFields, Zenon
    <2>3. UNCHANGED <<regex_manager_ip_db, banned>>
      BY <1>8, Zenon DEF Judge
    <2>4. call[t].state # Empty
      BY <2>2, EmptyIsNoState, Zenon
    <2>5. \A id \in Ids : call[t].state[id].hits <= Scale(id) * history'[ip][id].judged
      <3>1. EarnedBy(ip, call[t].state)
        BY <1>b, <2>4, Zenon
      <3> QED
        BY <2>1, <2>2, <3>1, EarnedGrows
    <2>6. new \in RegexState /\ new.hits <= Scale(r) * history'[ip][r].judged
      <3>1. call[t].state[r] \in RegexState /\ call[t].state[r].begin <= clock /\ clock \in Nat
            /\ call[t].now \in Nat /\ call[t].now <= clock
        BY <1>0, <2>2, <2>4, CallFields, Zenon DEF TypeOK
      <3>2. new \in RegexState /\ new.hits <= call[t].state[r].hits + Scale(r)
        BY <2>2, <3>1, UpdatedBounds, Zenon
      <3>3. call[t].state[r].hits <= Scale(r) * Judged(ip, r)
        BY <1>b, <2>2, <2>4, Zenon DEF EarnedBy
      <3>4. Judged(ip, r) \in Nat /\ Scale(r) \in Nat \ {0} /\ call[t].state[r].hits \in Nat
        BY <2>1, <2>2, <3>1, RegexAssumption, Zenon DEF HistoryTyped, RegexState
      <3>5. call[t].state[r].hits + Scale(r) <= Scale(r) * (Judged(ip, r) + 1)
        BY <3>3, <3>4, ScaleStep
      <3> HIDE DEF new, ip, r
      <3>6. new.hits \in Nat
        BY <3>2 DEF RegexState
      <3>7. Scale(r) * (Judged(ip, r) + 1) \in Nat
        BY <3>4
      <3> QED
        BY <2>1, <3>2, <3>4, <3>5, <3>6, <3>7
    <2> HIDE DEF new
    <2>7. \A id \in Ids : call'[t].state[id].hits <= Scale(id) * history'[ip][id].judged
      BY <2>2, <2>5, <2>6
    <2>8. call'[t].result # 0 =>
             (Rated(call'[t].result) =>
                 history'[ip][call'[t].result].judged >= Rules[call'[t].result].hits_per_interval)
      <3>1. CASE call'[t].result = call[t].result
        <4>1. CASE call[t].result # 0
          <5>1. call[t].result \in Ids /\ Deserved(ip, call[t].result)
            BY <1>0, <1>c, <4>1, CallFields, Zenon
          <5> QED
            BY <2>1, <2>2, <3>1, <5>1, DeservedGrows, Zenon
        <4> QED
          BY <3>1, <4>1, Zenon
      <3>2. CASE call'[t].result = r /\ Excessive(r, call'[t].state[r])
        <4>1. new.hits >= Rules[r].hits_per_interval * Scale(r)
          BY <2>2, <3>2 DEF Excessive
        <4>2. /\ Scale(r) \in Nat \ {0} /\ Rules[r].hits_per_interval \in Nat
              /\ new.hits \in Nat /\ history'[ip][r].judged \in Nat
          BY <2>1, <2>2, <2>6, RegexAssumption, Zenon DEF HistoryTyped, RegexState, Judged
        <4> QED
          BY <2>6, <3>2, <4>1, <4>2, ScaleDown, Zenon
      <3> QED
        BY <1>8, <3>1, <3>2, JudgeLocals, Zenon
    <2>9. \A u \in Threads : call'[u].state # Empty =>
             \A id \in Ids : call'[u].state[id].hits <= Scale(id) * history'[call'[u].ip][id].judged
      <3> TAKE u \in Threads
      <3>1. CASE u = t
        BY <2>2, <2>7, <3>1, Zenon
      <3>2. CASE u # t /\ call[u].state # Empty
        <4>1. /\ call[u].ip \in IPs /\ call[u].state \in [Ids -> RegexState]
              /\ EarnedBy(call[u].ip, call[u].state)
          BY <1>0, <1>b, <3>2, CallFields, Zenon
        <4>2. \A id \in Ids : call[u].state[id].hits <= Scale(id) * history'[call[u].ip][id].judged
          BY <2>1, <4>1, EarnedGrows, Zenon
        <4> QED
          BY <2>2, <3>2, <4>2, Zenon
      <3> QED
        BY <2>2, <3>1, <3>2, Zenon
    <2>10. \A u \in Threads : call'[u].result # 0 =>
              (Rated(call'[u].result) => history'[call'[u].ip][call'[u].result].judged
                                            >= Rules[call'[u].result].hits_per_interval)
      <3> TAKE u \in Threads
      <3>1. CASE u = t
        BY <2>2, <2>8, <3>1, Zenon
      <3>2. CASE u # t /\ call[u].result # 0
        <4>1. call[u].ip \in IPs /\ call[u].result \in Ids /\ Deserved(call[u].ip, call[u].result)
          BY <1>0, <1>c, <3>2, CallFields, Zenon
        <4>2. Rated(call[u].result) =>
                 history'[call[u].ip][call[u].result].judged >= Rules[call[u].result].hits_per_interval
          BY <2>1, <4>1, DeservedGrows, Zenon
        <4> QED
          BY <2>2, <3>2, <4>2, Zenon
      <3> QED
        BY <2>2, <3>1, <3>2, Zenon
    <2>11. \A i \in DOMAIN regex_manager_ip_db' :
              \A id \in Ids : regex_manager_ip_db'[i][id].hits <= Scale(id) * history'[i][id].judged
      <3> TAKE i \in DOMAIN regex_manager_ip_db'
      <3>1. /\ i \in IPs /\ regex_manager_ip_db[i] \in [Ids -> RegexState]
            /\ EarnedBy(i, regex_manager_ip_db[i])
        BY <1>a, <2>3, Zenon DEF TypeOK
      <3>2. \A id \in Ids : regex_manager_ip_db[i][id].hits <= Scale(id) * history'[i][id].judged
        BY <2>1, <3>1, EarnedGrows, Zenon
      <3> QED
        BY <2>3, <3>2, Zenon
    <2>12. \A b \in banned' : Rated(b.rule) =>
              history'[b.ip][b.rule].judged >= Rules[b.rule].hits_per_interval
      <3> TAKE b \in banned'
      <3>1. b.ip \in IPs /\ b.rule \in Ids /\ Deserved(b.ip, b.rule)
        BY <1>d, <2>3, Zenon DEF TypeOK
      <3> QED
        BY <2>1, <3>1, DeservedGrows, Zenon
    <2> QED
      BY <2>1, <2>9, <2>10, <2>11, <2>12, Zenon DEF HitsInvariant, EarnedBy, Deserved, Judged
  <1>9. ASSUME NEW t \in Threads, EndMatch(t) \/ Set(t) PROVE HitsInvariant'
    <2>1. UNCHANGED <<history, regex_manager_ip_db, banned>>
      BY <1>9, Zenon DEF EndMatch, Set
    <2>2. CASE Leave(t, "idle")
      BY <1>0, <1>1, <2>1, <2>2, LeaveIdle, Zenon
    <2>3. CASE call' = call
      BY <1>1, <2>1, <2>3, Zenon
    <2> QED
      BY <1>9, <2>2, <2>3, Zenon DEF EndMatch, Set, Leave
  <1>10. ASSUME NEW t \in Threads, SetHeld(t) PROVE HitsInvariant'
    <2>1. /\ UNCHANGED <<history, banned>>
          /\ regex_manager_ip_db' = Write(regex_manager_ip_db, call[t].ip, call[t].state)
      BY <1>10, Zenon DEF SetHeld
    <2>2. EarnedBy(call[t].ip, call[t].state)
      BY <1>10, <1>b, Zenon DEF SetHeld, TypeOK
    <2>3. \A i \in DOMAIN regex_manager_ip_db' : EarnedBy(i, regex_manager_ip_db'[i])
      BY <1>a, <2>1, <2>2, Zenon DEF Write
    <2>4. \A b \in banned' : Deserved(b.ip, b.rule)
      BY <1>d, <2>1, Zenon
    <2>5. CASE Leave(t, "idle")
      BY <1>0, <2>1, <2>3, <2>4, <2>5, LeaveIdle, HitsThread, Zenon
    <2>6. CASE call' = call
      <3>1. call'[t].state # Empty => EarnedBy(call'[t].ip, call'[t].state)
        BY <1>b, <2>6, Zenon
      <3>2. call'[t].result # 0 => Deserved(call'[t].ip, call'[t].result)
        BY <1>c, <2>6, Zenon
      <3> QED
        BY <2>1, <2>3, <2>4, <2>6, <3>1, <3>2, HitsThread, Zenon
    <2> QED
      BY <1>10, <2>5, <2>6, Zenon DEF SetHeld, Leave
  <1>11. ASSUME NEW t \in Threads, Ban(t) PROVE HitsInvariant'
    <2>1. /\ UNCHANGED <<history, regex_manager_ip_db>> /\ Leave(t, "idle")
          /\ banned' = banned \cup {[ip |-> call[t].ip, rule |-> call[t].result]}
      BY <1>11, Zenon DEF Ban
    <2>2. Deserved(call[t].ip, call[t].result)
      BY <1>11, <1>c, Zenon DEF Ban, TypeOK
    <2>3. \A b \in banned' : Deserved(b.ip, b.rule)
      BY <1>d, <2>1, <2>2
    <2>4. \A i \in DOMAIN regex_manager_ip_db' : EarnedBy(i, regex_manager_ip_db'[i])
      BY <1>a, <2>1, Zenon
    <2> QED
      BY <1>0, <2>1, <2>3, <2>4, LeaveIdle, HitsThread, Zenon
  <1>12. CASE UNCHANGED <<regex_manager_ip_db, call, history, banned>>
    <2>1. \A ip, id : Judged(ip, id)' = Judged(ip, id)
      BY <1>12 DEF Judged
    <2> QED
      BY <1>12, <2>1 DEF HitsInvariant, HistoryTyped, EarnedBy, Deserved
  <1> QED
    BY <1>2, <1>3, <1>4, <1>5, <1>6, <1>7, <1>8, <1>9, <1>10, <1>11, <1>12, Zenon
       DEF Next, ProgramStep, Step, Tick, vars

(* Two threads that judge requests of one ip may read the same state and   *)
(* overwrite each other's, miss the mutex, or store a state that is old:   *)
(* no order of steps lets a rule with a rate ban an ip before it has       *)
(* judged hits_per_interval of its requests (try_match).                   *)
THEOREM BansEarned == Spec => []BanNeedsHits
  <1>1. Spec => [](TypeOK /\ HitsInvariant)
    <2>1. Init => TypeOK /\ HitsInvariant
      BY TypeInit, HitsInit
    <2>2. TypeOK /\ HitsInvariant /\ [Next]_vars => TypeOK' /\ HitsInvariant'
      BY TypeStep, HitsStep, Zenon
    <2> QED
      BY <2>1, <2>2, PTL DEF Spec
  <1>2. HitsInvariant => BanNeedsHits
    BY DEF HitsInvariant, BanNeedsHits, Deserved, Judged
  <1> QED
    BY <1>1, <1>2, PTL
-----------------------------------------------------------------------------
(* The arithmetic of a window that moves. *)
\* What the quotient of a division is.
LEMMA Divided ==
    ASSUME NEW x \in Nat, NEW i \in Nat \ {0}
    PROVE  /\ x \div i \in Nat
           /\ i * (x \div i) <= x /\ x < i * (x \div i) + i
  OBVIOUS

\* n gaps, each longer than i / k, and one more.
LEMMA GapsAdd ==
    ASSUME NEW n \in Nat, NEW k \in Nat, NEW i \in Nat, NEW d \in Nat, NEW g \in Nat,
           n * (i + 1) <= k * d, g * k > i
    PROVE  (n + 1) * (i + 1) <= k * (d + g)
  <1>1. (n + 1) * (i + 1) = n * (i + 1) + (i + 1)
    OBVIOUS
  <1>2. k * (d + g) = k * d + g * k
    OBVIOUS
  <1>3. /\ n * (i + 1) \in Nat /\ k * d \in Nat /\ g * k \in Nat
    OBVIOUS
  <1> QED
    BY <1>1, <1>2, <1>3

\* Fewer than k such gaps fit into i.
LEMMA GapsFit ==
    ASSUME NEW n \in Nat, NEW k \in Nat \ {0}, NEW i \in Nat, NEW d \in Nat,
           n * (i + 1) <= k * d, d <= i
    PROVE  n < k
  <1> SUFFICES ASSUME k <= n PROVE FALSE
    OBVIOUS
  <1>1. k * d <= k * i
    OBVIOUS
  <1>2. k * (i + 1) <= n * (i + 1)
    OBVIOUS
  <1>3. k * (i + 1) = k * i + k
    OBVIOUS
  <1>4. k * i \in Nat /\ k * d \in Nat /\ n * (i + 1) \in Nat
    OBVIOUS
  <1> QED
    BY <1>1, <1>2, <1>3, <1>4

\* When the window moves for the first time, of at most k hits a share leaves
\* it that is at least 1: with the new hit there are fewer than k + 1.
LEMMA FirstMove ==
    ASSUME NEW n \in Nat \ {0}, NEW k \in Nat, NEW s \in Nat \ {0}, NEW i \in Nat \ {0}, NEW m \in Nat \ {0},
           n <= k, i <= s
    PROVE  s * n - (s * n * m) \div i + s < (k + 1) * s
  <1> DEFINE x == s * n * m
             q == x \div i
  <1>1. x \in Nat /\ s <= x
    <2>1. n * m \in Nat /\ n * m >= 1
      OBVIOUS
    <2>2. x = s * (n * m)
      OBVIOUS
    <2> QED
      BY <2>1, <2>2
  <1> HIDE DEF x
  <1>2. q \in Nat /\ x < i * q + i
    BY <1>1, Divided
  <1>3. q >= 1
    <2> SUFFICES ASSUME q = 0 PROVE FALSE
      BY <1>2
    <2> QED
      BY <1>1, <1>2
  <1>4. s * n + s <= (k + 1) * s /\ s * n + s \in Nat /\ (k + 1) * s \in Nat
    OBVIOUS
  <1> HIDE DEF q
  <1>5. s * n - q + s < (k + 1) * s
    BY <1>2, <1>3, <1>4
  <1> QED
    BY <1>5 DEF q, x

\* When it moves by more than i / k, a share of the hits leaves that makes room
\* for the new one.
LEMMA LaterMove ==
    ASSUME NEW h \in Nat, NEW k \in Nat \ {0}, NEW s \in Nat \ {0}, NEW i \in Nat \ {0}, NEW m \in Nat \ {0},
           h < (k + 1) * s, m * k > i
    PROVE  h - (h * m) \div i + s < (k + 1) * s
  <1> DEFINE q == (h * m) \div i
             d == (k + 1) * s - h
  <1>1. h * m \in Nat
    OBVIOUS
  <1>2. q \in Nat /\ h * m < i * q + i
    BY <1>1, Divided
  <1>3. (k + 1) * s \in Nat /\ d \in Nat \ {0} /\ h = (k + 1) * s - d
    OBVIOUS
  <1> HIDE DEF q, d
  <1> SUFFICES ASSUME d + q <= s PROVE FALSE
    <2>1. s < d + q => h - q + s < (k + 1) * s
      BY <1>2, <1>3
    <2> QED
      BY <1>2, <1>3, <2>1 DEF q
  <1>4. h * (m * k) >= h * (i + 1)
    OBVIOUS
  <1>5. h * m + 1 <= i * (q + 1)
    BY <1>1, <1>2
  <1>6. (h * m) * k + k <= i * (q + 1) * k
    <2>1. (h * m + 1) * k <= (i * (q + 1)) * k
      <3>1. i * (q + 1) \in Nat
        BY <1>2
      <3> HIDE DEF q
      <3> QED
        BY <1>1, <1>5, <3>1
    <2> QED
      BY <1>1, <2>1
  <1>7. h >= k * s /\ q + 1 <= s
    BY <1>2, <1>3
  <1>8. i * (q + 1) * k <= i * s * k
    <2>1. i * (q + 1) <= i * s /\ i * (q + 1) \in Nat /\ i * s \in Nat
      BY <1>2, <1>7
    <2> QED
      BY <2>1
  <1>9. h * (i + 1) >= (k * s) * (i + 1)
    BY <1>7
  <1>10. (k * s) * (i + 1) = i * s * k + k * s
    OBVIOUS
  <1>11. h * (m * k) = (h * m) * k
    OBVIOUS
  <1>12. /\ h * (m * k) \in Nat /\ (h * m) * k \in Nat /\ h * (i + 1) \in Nat
         /\ i * s * k \in Nat /\ k * s \in Nat /\ (k * s) * (i + 1) \in Nat
    OBVIOUS
  <1>13. i * (q + 1) * k \in Nat
    BY <1>2
  <1> QED
    BY <1>4, <1>6, <1>8, <1>9, <1>10, <1>11, <1>12, <1>13

-----------------------------------------------------------------------------
Judgements == [judged : Nat, first : Nat, last : Nat, inside : Nat, spaced : BOOLEAN]

\* Has the rule judged requests only within the interval that the first began?
InFirst(id, h) == h.last - h.first <= Rules[id].interval

\* A state that nothing was lost from agrees with what was judged: all hits are
\* counted until the window moves, and then it ends with the last one.
Reflects(id, s, h) ==
    /\ h.judged = 0 => s.begin = 0 /\ s.hits = 0 /\ h.inside = 0
    /\ h.judged > 0 =>
          /\ 0 < h.first /\ h.first <= h.last
          /\ InFirst(id, h) => /\ s.begin = h.first
                               /\ s.hits = Scale(id) * h.judged /\ h.inside = h.judged
          /\ ~InFirst(id, h) => s.begin = h.last - Rules[id].interval

\* Hits that are spaced are few in the first interval, and later the rate is
\* below that of the rule.
Sparse(id, s, h) ==
    h.spaced /\ h.judged > 0 =>
        /\ Rules[id].hits_per_interval > 1
        /\ InFirst(id, h) => (h.judged - 1) * (Rules[id].interval + 1)
                                <= (Rules[id].hits_per_interval - 1) * (h.last - h.first)
        /\ ~InFirst(id, h) => s.hits < Rules[id].hits_per_interval * Scale(id)

LEMMA RuleNumbers ==
    ASSUME NEW id \in Ids
    PROVE  /\ Rules[id].interval \in Nat \ {0} /\ Rules[id].hits_per_interval \in Nat
           /\ Scale(id) \in Nat \ {0}
           /\ MaxRequests > 0 => Scale(id) >= Rules[id].interval
  BY RegexAssumption, Zenon

LEMMA NotedFirst ==
    ASSUME NEW id \in Ids, NEW h \in Judgements, NEW now \in Nat, h.judged = 0
    PROVE  /\ Noted(id, h, now).judged = 1
           /\ Noted(id, h, now).first = now /\ Noted(id, h, now).last = now
           /\ Noted(id, h, now).inside = h.inside + 1
           /\ Noted(id, h, now).spaced => Rules[id].hits_per_interval > 1
  <1>1. now - now <= Rules[id].interval
    BY RuleNumbers
  <1> QED
    BY <1>1, SMTT(30) DEF Noted

\* What a later judgement makes of h.
Later(id, h, now, n) ==
    /\ n.judged = h.judged + 1 /\ n.first = h.first /\ n.last = now
    /\ now - h.first <= Rules[id].interval => n.inside = h.inside + 1
    /\ ~(now - h.first <= Rules[id].interval) => n.inside = h.inside
    /\ n.spaced => /\ h.spaced /\ Rules[id].hits_per_interval > 1
                   /\ (now - h.last) * (Rules[id].hits_per_interval - 1) > Rules[id].interval

LEMMA NotedLater ==
    ASSUME NEW id \in Ids, NEW h \in Judgements, NEW now \in Nat, h.judged > 0
    PROVE  Later(id, h, now, Noted(id, h, now))
  <1>1. h.judged # 0 /\ h.inside \in Nat
    BY DEF Judgements
  <1> QED
    BY <1>1, SMTT(30) DEF Noted, Later

LEMMA JudgementsRecord ==
    ASSUME NEW judged \in Nat, NEW first \in Nat, NEW last \in Nat, NEW inside \in Nat,
           NEW spaced \in BOOLEAN
    PROVE  [judged |-> judged, first |-> first, last |-> last, inside |-> inside,
            spaced |-> spaced] \in Judgements
  BY DEF Judgements

LEMMA NotedTyping ==
    ASSUME NEW id \in Ids, NEW h \in Judgements, NEW now \in Nat
    PROVE  Noted(id, h, now) \in Judgements
  <1> DEFINE first == IF h.judged = 0 THEN now ELSE h.first
             one == IF now - first <= Rules[id].interval THEN 1 ELSE 0
             spaced == /\ h.spaced /\ Rules[id].hits_per_interval > 1
                       /\ h.judged > 0 => (now - h.last) * (Rules[id].hits_per_interval - 1)
                                              > Rules[id].interval
  <1>1. first \in Nat /\ h.judged + 1 \in Nat
    BY DEF Judgements
  <1>2. one \in Nat
    OBVIOUS
  <1>3. spaced \in BOOLEAN
    BY Zenon
  <1>4. Noted(id, h, now) = [judged |-> h.judged + 1, first |-> first, last |-> now,
                             inside |-> h.inside + one, spaced |-> spaced]
    BY DEF Noted
  <1> HIDE DEF first, one, spaced
  <1>5. h.inside + one \in Nat
    BY <1>2 DEF Judgements
  <1>6. [judged |-> h.judged + 1, first |-> first, last |-> now,
         inside |-> h.inside + one, spaced |-> spaced] \in Judgements
    BY <1>1, <1>3, <1>5, JudgementsRecord, Zenon
  <1> QED
    BY <1>4, <1>6, Zenon

\* What try_match makes of a state.
LEMMA UpdatedCounted ==
    ASSUME NEW id \in Ids, NEW s \in RegexState, NEW now \in Nat, NEW b,
           b = IF s.begin = 0 THEN now ELSE s.begin,
           now - b - Rules[id].interval <= 0
    PROVE  /\ Updated(id, s, now).begin = b
           /\ Updated(id, s, now).hits = s.hits + Scale(id)
  <1>1. Begun(s, now) = [begin |-> b, hits |-> s.hits]
    BY DEF Begun, RegexState
  <1>2. b \in Nat
    BY Zenon DEF RegexState
  <1>3. Movement(id, Begun(s, now), now) = now - b - Rules[id].interval
    BY <1>1 DEF Movement
  <1>4. ~(Movement(id, Begun(s, now), now) > 0)
    BY <1>2, <1>3, RuleNumbers
  <1> HIDE DEF Scale
  <1> QED
    BY <1>1, <1>4 DEF Updated, Counted

LEMMA UpdatedMoved ==
    ASSUME NEW id \in Ids, NEW s \in RegexState, NEW now \in Nat, NEW m,
           s.begin # 0, m = now - s.begin - Rules[id].interval, m > 0
    PROVE  /\ Updated(id, s, now).begin = now - Rules[id].interval
           /\ \/ Updated(id, s, now).hits = Scale(id)
              \/ Updated(id, s, now).hits
                    = s.hits - (s.hits * m) \div Rules[id].interval + Scale(id)
  <1>1. Begun(s, now) = s
    BY Zenon DEF Begun
  <1>2. Movement(id, Begun(s, now), now) = m
    BY <1>1, Zenon DEF Movement
  <1>3. Updated(id, s, now) = Moved(id, s, m)
    BY <1>1, <1>2, Zenon DEF Updated
  <1>4. s.begin + m = now - Rules[id].interval
    BY RuleNumbers DEF RegexState
  <1> QED
    BY <1>3, <1>4, SMTT(30) DEF Moved

\* The next judgement: the state agrees with it again, an excessive rate means
\* that the hits were not spaced, and enough hits within the first interval are
\* an excessive rate.
LEMMA NextJudgement ==
    ASSUME NEW id \in Ids, NEW s \in RegexState, NEW h \in Judgements,
           NEW now \in Nat \ {0}, h.last <= now, MaxRequests > 0,
           Reflects(id, s, h), Sparse(id, s, h)
    PROVE  /\ Reflects(id, Updated(id, s, now), Noted(id, h, now))
           /\ Sparse(id, Updated(id, s, now), Noted(id, h, now))
           /\ Excessive(id, Updated(id, s, now)) => ~Noted(id, h, now).spaced
           /\ Noted(id, h, now).inside = h.inside
              \/ /\ Noted(id, h, now).inside = Noted(id, h, now).judged
                 /\ Updated(id, s, now).hits = Scale(id) * Noted(id, h, now).judged
  <1> DEFINE u == Updated(id, s, now)
             n == Noted(id, h, now)
             interval == Rules[id].interval
             most == Rules[id].hits_per_interval
             scale == Scale(id)
  <1>1. /\ interval \in Nat \ {0} /\ most \in Nat /\ scale \in Nat \ {0} /\ scale >= interval
        /\ h.judged \in Nat /\ h.first \in Nat /\ h.last \in Nat /\ h.inside \in Nat
        /\ s.begin \in Nat /\ s.hits \in Nat
    BY RuleNumbers, Zenon DEF Judgements, RegexState
  <1>2. CASE h.judged = 0
    <2>1. /\ n.judged = 1 /\ n.first = now /\ n.last = now /\ n.inside = h.inside + 1
          /\ n.spaced => most > 1
      BY <1>2, NotedFirst, Zenon
    <2>2. s.begin = 0 /\ s.hits = 0 /\ h.inside = 0
      BY <1>2, Zenon DEF Reflects
    <2>3. u.begin = now /\ u.hits = s.hits + scale
      <3>1. now = IF s.begin = 0 THEN now ELSE s.begin
        BY <2>2, Zenon
      <3>2. now - now - interval <= 0
        BY <1>1
      <3> QED
        BY <3>1, <3>2, UpdatedCounted, Zenon
    <2> HIDE DEF u, n, interval, most, scale
    <2>4. n.last - n.first <= interval /\ u.hits = scale * n.judged /\ n.inside = n.judged
      BY <1>1, <2>1, <2>2, <2>3
    <2>5. Reflects(id, u, n)
      BY <2>1, <2>3, <2>4 DEF Reflects, InFirst, interval, scale
    <2>6. (n.judged - 1) * (interval + 1) <= (most - 1) * (n.last - n.first)
      BY <1>1, <2>1
    <2>7. Sparse(id, u, n)
      BY <2>1, <2>4, <2>6, Zenon DEF Sparse, InFirst, interval, most
    <2>8. n.spaced => u.hits < most * scale
      BY <1>1, <2>1, <2>2, <2>3
    <2>9. Excessive(id, u) => ~n.spaced
      BY <1>1, <2>2, <2>3, <2>8 DEF Excessive, most, scale
    <2> QED
      BY <2>4, <2>5, <2>7, <2>9, Zenon DEF u, n, scale
  <1>3. CASE h.judged > 0
    <2>0. now \in Nat
      OBVIOUS
    <2>a. Later(id, h, now, n)
      BY <1>3, <2>0, NotedLater, Zenon
    <2>1. /\ n.judged = h.judged + 1 /\ n.first = h.first /\ n.last = now
          /\ now - h.first <= interval => n.inside = h.inside + 1
          /\ ~(now - h.first <= interval) => n.inside = h.inside
      BY <2>a, Zenon DEF Later
    <2>m. n.spaced => h.spaced /\ most > 1
      BY <2>a, Zenon DEF Later
    <2>g. n.spaced => (now - h.last) * (most - 1) > interval
      BY <2>a, Zenon DEF Later
    <2>2. 0 < h.first /\ h.first <= h.last /\ h.first <= now
      BY <1>1, <1>3 DEF Reflects
    <2>3. CASE now - h.first <= interval
      <3>1. InFirst(id, h)
        BY <1>1, <2>2, <2>3 DEF InFirst
      <3>2. s.begin = h.first /\ s.hits = scale * h.judged /\ h.inside = h.judged
        BY <1>3, <3>1, Zenon DEF Reflects
      <3>3. u.begin = h.first /\ u.hits = s.hits + scale
        <4>1. h.first = IF s.begin = 0 THEN now ELSE s.begin
          BY <1>1, <2>2, <3>2
        <4>2. now - h.first - interval <= 0
          BY <1>1, <2>3
        <4> QED
          BY <4>1, <4>2, UpdatedCounted, Zenon
      <3>4. n.spaced => /\ h.spaced /\ most > 1
                        /\ (h.judged - 1) * (interval + 1) <= (most - 1) * (h.last - h.first)
        BY <1>3, <2>m, <3>1, Zenon DEF Sparse
      <3> HIDE DEF u, n, interval, most, scale
      <3>5. /\ n.last - n.first <= interval /\ n.inside = n.judged
            /\ n.judged > 0 /\ 0 < n.first /\ n.first <= n.last /\ u.begin = n.first
        BY <1>1, <2>1, <2>2, <2>3, <3>2, <3>3
      <3>6. u.hits = scale * n.judged
        BY <1>1, <2>1, <3>2, <3>3
      <3>7. Reflects(id, u, n)
        BY <3>5, <3>6, SMTT(30) DEF Reflects, InFirst, interval, scale
      <3>8. n.spaced => /\ most > 1
                        /\ (n.judged - 1) * (interval + 1) <= (most - 1) * (n.last - n.first)
        <4> SUFFICES ASSUME n.spaced
                     PROVE  h.judged * (interval + 1) <= (most - 1) * (now - h.first)
          BY <1>1, <2>1, <2>m
        <4>1. PICK g : g = now - h.last
          BY Zenon
        <4>2. PICK d : d = h.last - h.first
          BY Zenon
        <4>3. PICK k : k = most - 1
          OBVIOUS
        <4>4. PICK j : j = h.judged - 1
          BY Zenon
        <4>5. g \in Nat /\ d \in Nat /\ k \in Nat /\ j \in Nat /\ d + g = now - h.first
              /\ h.judged = j + 1
          BY <1>1, <1>3, <2>m, <2>2, <4>1, <4>2, <4>3, <4>4
        <4>6. j * (interval + 1) <= k * d /\ g * k > interval
          BY <2>g, <3>4, <4>1, <4>2, <4>3, <4>4, Zenon
        <4>7. (j + 1) * (interval + 1) <= k * (d + g)
          BY <1>1, <4>5, <4>6, GapsAdd, Zenon
        <4> QED
          BY <4>3, <4>5, <4>7, Zenon
      <3>9. Sparse(id, u, n)
        BY <3>5, <3>8, Zenon DEF Sparse, InFirst, interval, most
      <3>10. n.spaced => u.hits < most * scale
        <4> SUFFICES ASSUME n.spaced PROVE u.hits < most * scale
          BY Zenon
        <4>1. PICK k : k = most - 1
          OBVIOUS
        <4>2. PICK d : d = now - h.first
          BY Zenon
        <4>3. k \in Nat \ {0} /\ d \in Nat /\ d <= interval
          BY <1>1, <2>m, <2>2, <2>3, <4>1, <4>2
        <4>4. h.judged * (interval + 1) <= k * d
          BY <1>1, <2>1, <3>8, <4>1, <4>2
        <4>5. h.judged < k
          BY <1>1, <4>3, <4>4, GapsFit, Zenon
        <4>6. n.judged < most
          BY <1>1, <2>1, <4>1, <4>5
        <4> QED
          BY <1>1, <2>1, <3>6, <4>6
      <3>11. Excessive(id, u) => ~n.spaced
        <4>1. u.hits \in Nat /\ most * scale \in Nat
          BY <1>1, <3>3
        <4> QED
          BY <3>10, <4>1 DEF Excessive, most, scale
      <3> QED
        BY <3>5, <3>6, <3>7, <3>9, <3>11, Zenon DEF u, n, scale
    <2>4. CASE ~(now - h.first <= interval)
      <3>1. /\ ~InFirst(id, n) /\ n.judged > 0 /\ 0 < n.first /\ n.first <= n.last
            /\ n.inside = h.inside
        <4> HIDE DEF n
        <4>1. n.judged > 0 /\ 0 < n.first /\ n.first <= n.last /\ n.inside = h.inside
          BY <1>1, <2>1, <2>2, <2>4
        <4>2. ~(n.last - n.first <= interval)
          BY <2>1, <2>4, Zenon
        <4> QED
          BY <4>1, <4>2, Zenon DEF InFirst
      <3>2. s.begin # 0 /\ s.begin <= now - interval
        <4>1. CASE InFirst(id, h)
          BY <1>1, <1>3, <2>2, <2>4, <4>1 DEF Reflects
        <4>2. CASE ~InFirst(id, h)
          <5>1. s.begin = h.last - interval
            BY <1>3, <4>2, Zenon DEF Reflects
          <5>2. ~(h.last - h.first <= interval)
            BY <4>2 DEF InFirst
          <5> QED
            BY <1>1, <2>2, <5>1, <5>2
        <4> QED
          BY <4>1, <4>2, Zenon
      <3> SUFFICES /\ u.begin = now - interval
                   /\ u.hits \in Nat
                   /\ n.spaced => u.hits < most * scale
        <4> HIDE DEF u, n
        <4>0. n.judged # 0 /\ u.begin = n.last - interval
          BY <2>1, <3>1
        <4>1. Reflects(id, u, n)
          BY <3>1, <4>0, Zenon DEF Reflects
        <4>2. Sparse(id, u, n)
          BY <2>m, <3>1, Zenon DEF Sparse
        <4>3. most * scale \in Nat
          BY <1>1
        <4>4. Excessive(id, u) => ~n.spaced
          BY <4>3 DEF Excessive
        <4> QED
          BY <3>1, <4>1, <4>2, <4>4, Zenon DEF u, n
      <3>a. u.hits \in Nat
        <4>1. PICK c : c = now + s.begin
          BY Zenon
        <4>2. c \in Nat /\ s.begin <= c /\ now <= c
          BY <1>1, <4>1
        <4>3. u \in RegexState
          BY <4>2, UpdatedBounds, Zenon
        <4> QED
          BY <4>3, Zenon DEF RegexState
      <3>3. CASE s.begin = now - interval
        <4>1. u.begin = s.begin /\ u.hits = s.hits + scale
          <5>1. s.begin = IF s.begin = 0 THEN now ELSE s.begin
            BY <3>2, Zenon
          <5>2. now - s.begin - interval <= 0
            BY <1>1, <3>3
          <5> QED
            BY <5>1, <5>2, UpdatedCounted, Zenon
        <4>2. ~n.spaced
          <5>1. CASE InFirst(id, h)
            <6>1. s.begin = h.first
              BY <1>3, <5>1, Zenon DEF Reflects
            <6> QED
              BY <1>1, <2>4, <3>3, <6>1
          <5>2. CASE ~InFirst(id, h)
            <6>1. s.begin = h.last - interval
              BY <1>3, <5>2 DEF Reflects
            <6>2. now - h.last = 0
              BY <1>1, <3>3, <6>1
            <6>3. ~(0 * (most - 1) > interval)
              BY <1>1
            <6> QED
              BY <2>g, <6>2, <6>3, Zenon
          <5> QED
            BY <5>1, <5>2, Zenon
        <4> QED
          BY <3>3, <3>a, <4>1, <4>2, Zenon
      <3>4. CASE s.begin # now - interval
        <4>1. PICK m : m = now - s.begin - interval
          BY Zenon
        <4>2. m \in Nat \ {0}
          BY <1>1, <3>2, <3>4, <4>1
        <4>3. /\ u.begin = now - interval
              /\ u.hits = scale \/ u.hits = s.hits - (s.hits * m) \div interval + scale
          <5>1. m > 0 /\ m = now - s.begin - Rules[id].interval
            BY <4>1, <4>2
          <5> QED
            BY <2>0, <3>2, <5>1, UpdatedMoved, Zenon
        <4>4. ASSUME n.spaced PROVE u.hits < most * scale
          <5>1. h.spaced /\ most > 1 /\ (now - h.last) * (most - 1) > interval
            BY <2>m, <2>g, <4>4, Zenon
          <5>2. PICK k : k = most - 1
            BY Zenon
          <5>3. k \in Nat \ {0} /\ most = k + 1
            BY <1>1, <2>m, <4>4, <5>2
          <5>4. scale < most * scale
            <6> HIDE DEF scale, most
            <6> QED
              BY <1>1, <5>3
          <5>5. CASE InFirst(id, h)
            <6>1. s.begin = h.first /\ s.hits = scale * h.judged
              BY <1>3, <5>5, Zenon DEF Reflects
            <6>2. (h.judged - 1) * (interval + 1) <= (most - 1) * (h.last - h.first)
              BY <1>3, <5>1, <5>5, Zenon DEF Sparse
            <6>3. PICK j : j = h.judged - 1
              BY Zenon
            <6>4. PICK d : d = h.last - h.first
              BY Zenon
            <6>5. j \in Nat /\ d \in Nat /\ d <= interval
              BY <1>1, <1>3, <2>2, <5>5, <6>3, <6>4 DEF InFirst
            <6>6. j < k
              <7>1. j * (interval + 1) <= k * d
                BY <5>2, <6>2, <6>3, <6>4, Zenon
              <7> HIDE DEF interval
              <7> QED
                BY <1>1, <5>3, <6>5, <7>1, GapsFit, Zenon
            <6>7. h.judged \in Nat \ {0} /\ h.judged <= k
              BY <1>1, <1>3, <5>3, <6>3, <6>5, <6>6
            <6> HIDE DEF scale, most, interval, u, n
            <6>8. scale * h.judged - (scale * h.judged * m) \div interval + scale < (k + 1) * scale
              BY <1>1, <4>2, <5>3, <6>7, FirstMove, Zenon
            <6> QED
              BY <4>3, <5>3, <5>4, <6>1, <6>8, Zenon
          <5>6. CASE ~InFirst(id, h)
            <6>1. s.begin = h.last - interval
              BY <1>3, <5>6, Zenon DEF Reflects
            <6>2. s.hits < most * scale
              BY <1>3, <5>1, <5>6, Zenon DEF Sparse
            <6>3. m = now - h.last
              BY <1>1, <4>1, <6>1
            <6>4. m * k > interval
              BY <5>1, <5>2, <6>3, Zenon
            <6> HIDE DEF scale, most, interval, u, n
            <6>5. s.hits - (s.hits * m) \div interval + scale < (k + 1) * scale
              BY <1>1, <4>2, <5>3, <6>2, <6>4, LaterMove, Zenon
            <6> QED
              BY <4>3, <5>3, <5>4, <6>5, Zenon
          <5> QED
            BY <5>5, <5>6, Zenon
        <4> QED
          BY <3>a, <4>3, <4>4, Zenon
      <3> QED
        BY <3>3, <3>4, Zenon
    <2> QED
      BY <2>3, <2>4, Zenon
  <1>4. h.judged = 0 \/ h.judged > 0
    BY <1>1
  <1> QED
    BY <1>2, <1>3, <1>4, Zenon

-----------------------------------------------------------------------------
\* A vector of states agrees with all that was judged of an ip.
Mirrors(ip, states) ==
    \A id \in Ids : /\ Reflects(id, states[id], history[ip][id])
                    /\ Sparse(id, states[id], history[ip][id])

\* What a request of the ip would read, and who holds the newer states of it.
Saved(ip) == Resized(Read(regex_manager_ip_db, ip, Empty))
Holds(t, ip) == call[t].ip = ip /\ call[t].state # Empty /\ pc[t] # "ban"
Pending(t, ip, id) == /\ call[t].ip = ip /\ call[t].result = id
                      /\ pc[t] \in {"set", "set_held", "ban"}

NotSpaced(ip, id) == Rated(id) => ~history[ip][id].spaced

\* The locals of a thread at a statement.
Local(c, statement) ==
    /\ c.state # Empty /\ statement # "ban" => Mirrors(c.ip, c.state)
    /\ statement \in {"get", "get_held", "judge"} =>
          c.now > 0 /\ \A id \in Ids : history[c.ip][id].last <= c.now
    /\ statement \in {"idle", "get", "get_held"} => c.state = Empty
    /\ c.result # 0 => NotSpaced(c.ip, c.result)

Timed ==
    /\ clock > 0
    /\ history \in [IPs -> [Ids -> Judgements]]
    /\ \A ip \in IPs, id \in Ids : history[ip][id].last <= clock
    /\ \A t \in Threads : pc[t] # "idle" => MaxRequests > 0

Alone == \A t, u \in Threads : pc[t] # "idle" /\ pc[u] # "idle" => t = u
Stored == \A ip \in IPs : (\A t \in Threads : ~Holds(t, ip)) => Mirrors(ip, Saved(ip))
Enough == \A ip \in IPs, id \in Ids :
              Rated(id) /\ history[ip][id].inside >= Rules[id].hits_per_interval =>
                  \/ [ip |-> ip, rule |-> id] \in banned
                  \/ \E t \in Threads : Pending(t, ip, id)

(* Why SpacedNotBanned and FirstIntervalBans are inductive only with more: *)
(* a rate agrees with what was judged wherever it is, in the database or   *)
(* among the locals of the one request that is under way.                  *)
Window ==
    /\ Alone /\ Stored /\ Enough
    /\ \A t \in Threads : Local(call[t], pc[t])
    /\ \A b \in banned : NotSpaced(b.ip, b.rule)

WindowInvariant == Timed /\ (kept => Window)

LEMMA NotedEarlier ==
    ASSUME NEW id \in Ids, NEW h \in Judgements, NEW now \in Nat, Noted(id, h, now).spaced
    PROVE  h.spaced
  BY Zenon DEF Noted

\* What a judgement does to history.
LEMMA JudgeHistory ==
    ASSUME TypeOK, Timed, NEW t \in Threads, Judge(t)
    PROVE  /\ call[t].ip \in IPs /\ call[t].rule \in Ids /\ call[t].now \in Nat
           /\ history' \in [IPs -> [Ids -> Judgements]]
           /\ history'[call[t].ip][call[t].rule]
                 = Noted(call[t].rule, history[call[t].ip][call[t].rule], call[t].now)
           /\ \A ip \in IPs, id \in Ids :
                 /\ ~(ip = call[t].ip /\ id = call[t].rule) => history'[ip][id] = history[ip][id]
                 /\ history'[ip][id].spaced => history[ip][id].spaced
                 /\ history'[ip][id].last <= clock
  <1> DEFINE i == call[t].ip
             r == call[t].rule
             now == call[t].now
             noted == Noted(r, history[i][r], now)
  <1>1. i \in IPs /\ r \in Ids /\ now \in Nat /\ now <= clock
    BY CallFields, Zenon DEF TypeOK
  <1>2. history' = [history EXCEPT ![i][r] = noted]
    BY Zenon DEF Judge
  <1>3. /\ history \in [IPs -> [Ids -> Judgements]]
        /\ \A ip \in IPs, id \in Ids : history[ip][id].last <= clock
    BY Zenon DEF Timed
  <1>4. noted \in Judgements /\ noted.last = now /\ (noted.spaced => history[i][r].spaced)
    <2>1. history[i][r] \in Judgements
      BY <1>1, <1>3, Zenon
    <2>2. noted.last = now
      BY Zenon DEF Noted
    <2> QED
      BY <1>1, <2>1, <2>2, NotedTyping, NotedEarlier, Zenon
  <1> HIDE DEF i, r, now, noted
  <1>5. history' \in [IPs -> [Ids -> Judgements]]
    BY <1>1, <1>2, <1>3, <1>4, Zenon
  <1>6. \A ip \in IPs, id \in Ids :
           history'[ip][id] = IF ip = i /\ id = r THEN noted ELSE history[ip][id]
    BY <1>1, <1>2, <1>3, Zenon
  <1>7. \A ip \in IPs, id \in Ids :
           /\ ~(ip = i /\ id = r) => history'[ip][id] = history[ip][id]
           /\ history'[ip][id].spaced => history[ip][id].spaced
           /\ history'[ip][id].last <= clock
    BY <1>1, <1>3, <1>4, <1>6, Zenon
  <1> QED
    BY <1>1, <1>5, <1>6, <1>7, Zenon DEF i, r, now, noted

LEMMA TimedInit == Init => Timed
  <1> SUFFICES ASSUME Init PROVE Timed
    OBVIOUS
  <1>1. NothingJudged \in Judgements /\ NothingJudged.last = 0
    BY Zenon DEF NothingJudged, Judgements
  <1> HIDE DEF NothingJudged
  <1> QED
    BY <1>1 DEF Init, Timed

LEMMA TimedStep == TypeOK /\ Timed /\ [Next]_vars => Timed'
  <1> SUFFICES ASSUME TypeOK, Timed, [Next]_vars PROVE Timed'
    OBVIOUS
  <1>0. clock \in Nat /\ requests \in Nat /\ MaxRequests \in Nat /\ pc \in [Threads -> Pc]
    BY RegexAssumption, Zenon DEF TypeOK
  <1>1. \A t \in Threads : pc'[t] # "idle" => MaxRequests > 0
    <2>1. CASE \E t \in Threads : Step(t)
      <3>1. PICK t \in Threads : Step(t)
        BY <2>1, Zenon
      <3>2. pc[t] # "idle" /\ \A u \in Threads \ {t} : pc'[u] = pc[u]
        BY <1>0, <3>1, Zenon DEF Step, SkipHost, NoMatch, Match, Get, GetHeld, Judge, EndMatch, Set,
                          SetHeld, Ban, Leave, Goto
      <3> QED
        BY <3>2, Zenon DEF Timed
    <2>2. CASE \E t \in Threads, ip \in IPs, host \in Hosts, matching \in Records :
                  Request(t, ip, host, matching)
      BY <1>0, <2>2 DEF Request
    <2>3. CASE UNCHANGED pc
      BY <2>3, Zenon DEF Timed
    <2> QED
      BY <2>1, <2>2, <2>3, Zenon DEF Next, ProgramStep, Tick, vars
  <1>2. CASE \E t \in Threads : Judge(t)
    <2>1. PICK t \in Threads : Judge(t)
      BY <1>2
    <2>2. clock' = clock
      BY <2>1, Zenon DEF Judge
    <2> QED
      BY <1>1, <2>1, <2>2, JudgeHistory, Zenon DEF Timed
  <1>3. CASE UNCHANGED history /\ clock <= clock' /\ clock' \in Nat
    <2>1. \A ip \in IPs, id \in Ids : history[ip][id].last \in Nat
      BY Zenon DEF Timed, Judgements
    <2>2. \A ip \in IPs, id \in Ids : history[ip][id].last <= clock'
      BY <1>0, <1>3, <2>1 DEF Timed
    <2>3. clock' > 0
      BY <1>0, <1>3 DEF Timed
    <2> QED
      BY <1>1, <1>3, <2>2, <2>3, Zenon DEF Timed
  <1>4. (\E t \in Threads : Judge(t)) \/ (UNCHANGED history /\ clock <= clock' /\ clock' \in Nat)
    <2>1. CASE \E t \in Threads : Step(t)
      BY <1>0, <2>1 DEF Step, SkipHost, NoMatch, Match, Get, GetHeld, EndMatch, Set, SetHeld, Ban
    <2>2. CASE \E t \in Threads, ip \in IPs, host \in Hosts, matching \in Records :
                  Request(t, ip, host, matching)
      BY <1>0, <2>2 DEF Request
    <2>3. CASE Tick \/ UNCHANGED vars
      BY <1>0, <2>3 DEF Tick, vars
    <2> QED
      BY <2>1, <2>2, <2>3, Zenon DEF Next, ProgramStep
  <1> QED
    BY <1>2, <1>3, <1>4, Zenon

LEMMA WindowInit == Init => Window
  <1> SUFFICES ASSUME Init PROVE Window
    OBVIOUS
  <1>1. \A t \in Threads : pc[t] = "idle" /\ call[t].state = Empty /\ call[t].result = 0
    BY DEF Init, Fresh
  <1>2. \A ip \in IPs, id \in Ids : history[ip][id] = NothingJudged
    BY Zenon DEF Init
  <1>3. NothingJudged.judged = 0 /\ NothingJudged.inside = 0
    BY Zenon DEF NothingJudged
  <1>4. Alone
    BY <1>1, Zenon DEF Alone
  <1>5. \A t \in Threads : Local(call[t], pc[t])
    BY <1>1, Zenon DEF Local
  <1>6. Stored
    <2> SUFFICES ASSUME NEW ip \in IPs PROVE Mirrors(ip, Saved(ip))
      BY Zenon DEF Stored
    <2>1. Saved(ip) = Resized(Empty)
      BY Zenon DEF Init, Saved, Read, EmptyDb
    <2>2. \A id \in Ids : Resized(Empty)[id] = NoState
      BY ResizedTyping, Zenon
    <2>3. \A id \in Ids : Reflects(id, NoState, NothingJudged) /\ Sparse(id, NoState, NothingJudged)
      BY <1>3 DEF Reflects, Sparse, NoState
    <2> HIDE DEF NoState, NothingJudged
    <2> QED
      BY <1>2, <2>1, <2>2, <2>3, Zenon DEF Mirrors
  <1>7. Enough
    <2>1. \A id \in Ids : Rated(id) => ~(0 >= Rules[id].hits_per_interval)
      BY RegexAssumption DEF Rated
    <2> HIDE DEF NothingJudged
    <2> QED
      BY <1>2, <1>3, <2>1, Zenon DEF Enough
  <1>8. banned = {}
    BY DEF Init
  <1> QED
    BY <1>4, <1>5, <1>6, <1>7, <1>8, Zenon DEF Window

\* A step by t that leaves history: what t and the database hold afterwards is
\* enough.
LEMMA WindowThread ==
    ASSUME Window, NEW t \in Threads, UNCHANGED history, Alone',
           \A u \in Threads \ {t} : call'[u] = call[u] /\ pc'[u] = pc[u],
           Local(call'[t], pc'[t]),
           \A ip \in IPs : ~Holds(t, ip)' =>
               (~Holds(t, ip) /\ Saved(ip)' = Saved(ip)) \/ Mirrors(ip, Saved(ip)'),
           \A ip \in IPs, id \in Ids : Pending(t, ip, id) =>
               Pending(t, ip, id)' \/ [ip |-> ip, rule |-> id] \in banned',
           banned \subseteq banned',
           \A b \in banned' : b \in banned \/ NotSpaced(b.ip, b.rule)
    PROVE  Window'
  <1>0. /\ \A ip, states : Mirrors(ip, states)' = Mirrors(ip, states)
        /\ \A ip, id : NotSpaced(ip, id)' = NotSpaced(ip, id)
    BY Zenon DEF Mirrors, NotSpaced
  <1>1. \A u \in Threads : Local(call'[u], pc'[u])
    BY Zenon DEF Window
  <1>2. (\A u \in Threads : Local(call[u], pc[u]))'
    BY <1>1, Zenon DEF Local, Mirrors, NotSpaced
  <1>3. \A u \in Threads \ {t} : \A ip : Holds(u, ip)' = Holds(u, ip)
    BY Zenon DEF Holds
  <1>4. \A u \in Threads \ {t} : \A ip, id : Pending(u, ip, id)' = Pending(u, ip, id)
    BY Zenon DEF Pending
  <1>5. Stored'
    <2> SUFFICES ASSUME NEW ip \in IPs, \A u \in Threads : ~Holds(u, ip)'
                 PROVE  Mirrors(ip, Saved(ip)')
      BY Zenon DEF Stored, Mirrors
    <2>1. CASE ~Holds(t, ip) /\ Saved(ip)' = Saved(ip)
      <3>1. \A u \in Threads : ~Holds(u, ip)
        BY <1>3, <2>1, Zenon
      <3>2. Mirrors(ip, Saved(ip))
        BY <3>1, Zenon DEF Window, Stored
      <3> QED
        BY <2>1, <3>2, Zenon
    <2> QED
      BY <2>1, Zenon
  <1>6. Enough'
    <2> SUFFICES ASSUME NEW ip \in IPs, NEW id \in Ids, Rated(id),
                        history[ip][id].inside >= Rules[id].hits_per_interval
                 PROVE  \/ [ip |-> ip, rule |-> id] \in banned'
                        \/ \E u \in Threads : Pending(u, ip, id)'
      BY Zenon DEF Enough
    <2>1. CASE [ip |-> ip, rule |-> id] \in banned
      BY <2>1, Zenon
    <2>2. ASSUME NEW u \in Threads, Pending(u, ip, id)
          PROVE  \/ [ip |-> ip, rule |-> id] \in banned'
                 \/ \E v \in Threads : Pending(v, ip, id)'
      BY <1>4, <2>2, Zenon
    <2> QED
      BY <2>1, <2>2, Zenon DEF Window, Enough
  <1>7. (\A b \in banned : NotSpaced(b.ip, b.rule))'
    BY Zenon DEF Window, NotSpaced
  <1> QED
    BY <1>2, <1>5, <1>6, <1>7, Zenon DEF Window

\* While a thread is at work, nobody else holds or awaits anything.
LEMMA OthersIdle ==
    ASSUME Window, NEW t \in Threads, pc[t] # "idle", NEW u \in Threads, u # t
    PROVE  /\ pc[u] = "idle" /\ call[u].state = Empty
           /\ \A ip : ~Holds(u, ip)
           /\ \A ip, id : ~Pending(u, ip, id)
  <1>1. pc[u] = "idle"
    BY Zenon DEF Window, Alone
  <1>2. call[u].state = Empty
    BY <1>1, Zenon DEF Window, Local
  <1> QED
    BY <1>1, <1>2, Zenon DEF Holds, Pending

LEMMA JudgeWindow ==
    ASSUME TypeOK, Timed, Window, NEW t \in Threads, Judge(t)
    PROVE  Window'
  <1>a. PICK ip : ip = call[t].ip
    OBVIOUS
  <1>b. PICK r : r = call[t].rule
    OBVIOUS
  <1>c. PICK now : now = call[t].now
    BY Zenon
  <1> DEFINE old == call[t].state[r]
             h == history[ip][r]
             new == Updated(r, old, now)
             noted == Noted(r, h, now)
  <1>0. call \in [Threads -> Call] /\ pc \in [Threads -> Pc] /\ pc[t] = "judge"
    BY Zenon DEF TypeOK, Judge
  <1>1. /\ ip \in IPs /\ r \in Ids /\ now \in Nat
        /\ history' \in [IPs -> [Ids -> Judgements]] /\ history'[ip][r] = noted
        /\ \A i \in IPs, id \in Ids :
              /\ ~(i = ip /\ id = r) => history'[i][id] = history[i][id]
              /\ history'[i][id].spaced => history[i][id].spaced
    BY <1>a, <1>b, <1>c, JudgeHistory, SMTT(30)
  <1>2. /\ call[t].state \in [Ids -> RegexState] /\ call[t].state # Empty /\ call'[t].state # Empty
        /\ \A u \in Threads \ {t} : call'[u] = call[u]
        /\ call'[t].ip = ip /\ call'[t].state = [call[t].state EXCEPT ![r] = new]
    BY <1>a, <1>b, <1>c, JudgeLocals, EmptyIsNoState, Zenon
  <1>3. /\ \/ Excessive(r, new) /\ call'[t].result = r /\ pc'[t] = "set"
           \/ ~Excessive(r, new) /\ call'[t].result = call[t].result /\ pc'[t] \in {"rule", "end"}
        /\ \A u \in Threads \ {t} : pc'[u] = pc[u]
        /\ UNCHANGED <<regex_manager_ip_db, banned>>
    <2>1. CASE /\ Excessive(r, new) /\ Goto(t, "set")
               /\ call' = [call EXCEPT ![t].state[r] = new, ![t].result = r]
      <3>1. call'[t].result = r
        BY <1>0, <2>1, Zenon DEF Call
      <3> QED
        BY <1>0, <2>1, <3>1, Zenon DEF Goto, Judge
    <2>2. CASE /\ ~Excessive(r, new) /\ Goto(t, Advance(t))
               /\ call' = [call EXCEPT ![t].state[r] = new, ![t].rule = Following(t)]
      <3>1. call'[t].result = call[t].result
        BY <1>0, <2>2, Zenon DEF Call
      <3> QED
        BY <1>0, <2>2, <3>1, Zenon DEF Goto, Judge, Advance
    <2> QED
      BY <1>b, <1>c, <2>1, <2>2, Zenon DEF Judge
  <1>4. /\ Reflects(r, old, h) /\ Sparse(r, old, h) /\ h.last <= now /\ now > 0
        /\ Mirrors(ip, call[t].state)
    <2>1. Local(call[t], "judge")
      BY <1>0, Zenon DEF Window
    <2> QED
      BY <1>1, <1>2, <1>a, <1>c, <2>1, Zenon DEF Local, Mirrors
  <1>5. old \in RegexState /\ h \in Judgements /\ MaxRequests > 0
    BY <1>0, <1>1, <1>2, SMTT(30) DEF Timed
  <1>6. /\ Reflects(r, new, noted) /\ Sparse(r, new, noted)
        /\ Excessive(r, new) => ~noted.spaced
        /\ \/ noted.inside = h.inside
           \/ noted.inside = noted.judged /\ new.hits = Scale(r) * noted.judged
    <2> HIDE DEF old, h, new, noted
    <2>1. now \in Nat \ {0}
      BY <1>1, <1>4
    <2> QED
      BY <1>1, <1>4, <1>5, <2>1, NextJudgement, Zenon DEF new, noted
  <1>7. noted \in Judgements
    BY <1>1, <1>5, NotedTyping, Zenon
  <1> HIDE DEF noted, new, old, h
  <1>8. Mirrors(call[t].ip, call[t].state)'
    <2> SUFFICES ASSUME NEW id \in Ids
                 PROVE  /\ Reflects(id, call'[t].state[id], history'[ip][id])
                        /\ Sparse(id, call'[t].state[id], history'[ip][id])
      BY <1>2, Zenon DEF Mirrors
    <2>1. CASE id = r
      BY <1>1, <1>2, <1>6, <2>1, Zenon
    <2>2. CASE id # r
      <3>1. call'[t].state[id] = call[t].state[id] /\ history'[ip][id] = history[ip][id]
        BY <1>1, <1>2, <2>2, Zenon
      <3>2. /\ Reflects(id, call[t].state[id], history[ip][id])
            /\ Sparse(id, call[t].state[id], history[ip][id])
        BY <1>4 DEF Mirrors
      <3> QED
        BY <3>1, <3>2, Zenon
    <2> QED
      BY <2>1, <2>2, Zenon
  <1>9. Alone'
    BY <1>0, <1>3, Zenon DEF Window, Alone
  <1>10. \A i \in IPs, id \in Ids : NotSpaced(i, id) => NotSpaced(i, id)'
    BY <1>1, Zenon DEF NotSpaced
  <1>11. (\A b \in banned : NotSpaced(b.ip, b.rule))'
    <2> SUFFICES ASSUME NEW b \in banned PROVE NotSpaced(b.ip, b.rule)'
      BY <1>3, Zenon
    <2>1. b.ip \in IPs /\ b.rule \in Ids /\ NotSpaced(b.ip, b.rule)
      BY Zenon DEF TypeOK, Window
    <2> QED
      BY <1>10, <2>1, Zenon
  <1>12. (\A u \in Threads : Local(call[u], pc[u]))'
    <2> SUFFICES ASSUME NEW u \in Threads PROVE Local(call[u], pc[u])'
      BY Zenon
    <2>1. CASE u = t
      <3>1. call'[t].result # 0 => NotSpaced(call[t].ip, call[t].result)'
        <4>1. CASE Excessive(r, new) /\ call'[t].result = r
          BY <1>1, <1>2, <1>6, <4>1, Zenon DEF NotSpaced
        <4>2. CASE call'[t].result = call[t].result /\ call[t].result # 0
          <5>1. call[t].result \in Ids /\ NotSpaced(ip, call[t].result)
            BY <1>0, <1>a, <4>2, CallFields, Zenon DEF Window, Local
          <5> QED
            BY <1>1, <1>2, <1>10, <4>2, <5>1, Zenon
        <4> QED
          BY <1>3, <4>1, <4>2, Zenon
      <3>2. pc'[t] \in {"set", "rule", "end"}
        BY <1>3
      <3> QED
        BY <1>2, <1>8, <2>1, <3>1, <3>2, Zenon DEF Local
    <2>2. CASE u # t
      <3>1. pc[u] = "idle" /\ call[u].state = Empty
        BY <1>0, <2>2, OthersIdle, Zenon
      <3>2. call[u].ip \in IPs /\ call[u].result \in Ids \cup {0}
        BY <1>0, CallFields, Zenon
      <3>3. call[u].result # 0 => NotSpaced(call[u].ip, call[u].result)
        BY Zenon DEF Window, Local
      <3>4. call[u].result # 0 => NotSpaced(call[u].ip, call[u].result)'
        BY <1>2, <1>10, <2>2, <3>2, <3>3, Zenon
      <3> QED
        BY <1>2, <1>3, <2>2, <3>1, <3>4, Zenon DEF Local
    <2> QED
      BY <2>1, <2>2, Zenon
  <1>13. Stored'
    <2> SUFFICES ASSUME NEW i \in IPs, \A u \in Threads : ~Holds(u, i)'
                 PROVE  Mirrors(i, Saved(i))'
      BY Zenon DEF Stored
    <2>1. i # ip
      BY <1>2, <1>3, Zenon DEF Holds
    <2>2. \A u \in Threads : ~Holds(u, i)
      <3> TAKE u \in Threads
      <3>1. CASE u = t
        BY <1>a, <2>1, <3>1, Zenon DEF Holds
      <3>2. CASE u # t
        BY <1>0, <3>2, OthersIdle, Zenon
      <3> QED
        BY <3>1, <3>2, Zenon
    <2>3. Mirrors(i, Saved(i)) /\ Saved(i)' = Saved(i)
      BY <1>3, <2>2, Zenon DEF Window, Stored, Saved
    <2>4. \A id \in Ids : history'[i][id] = history[i][id]
      BY <1>1, <2>1, Zenon
    <2> QED
      BY <2>3, <2>4, Zenon DEF Mirrors
  <1>14. Enough'
    <2> SUFFICES ASSUME NEW i \in IPs, NEW id \in Ids, Rated(id),
                        history'[i][id].inside >= Rules[id].hits_per_interval
                 PROVE  \/ [ip |-> i, rule |-> id] \in banned'
                        \/ \E u \in Threads : Pending(u, i, id)'
      BY Zenon DEF Enough
    <2>1. CASE history[i][id].inside >= Rules[id].hits_per_interval
      <3>1. \/ [ip |-> i, rule |-> id] \in banned
            \/ \E u \in Threads : Pending(u, i, id)
        BY <2>1, Zenon DEF Window, Enough
      <3>2. \A u \in Threads : ~Pending(u, i, id)
        <4> TAKE u \in Threads
        <4>1. CASE u = t
          BY <1>0, <4>1, Zenon DEF Pending
        <4>2. CASE u # t
          BY <1>0, <4>2, OthersIdle, Zenon
        <4> QED
          BY <4>1, <4>2, Zenon
      <3> QED
        BY <1>3, <3>1, <3>2, Zenon
    <2>2. CASE ~(history[i][id].inside >= Rules[id].hits_per_interval)
      <3>1. i = ip /\ id = r
        BY <1>1, <2>2, Zenon
      <3>2. noted.inside = noted.judged /\ new.hits = Scale(r) * noted.judged
        BY <1>1, <1>6, <2>2, <3>1, Zenon DEF h
      <3>3. noted.judged >= Rules[r].hits_per_interval
        BY <1>1, <3>1, <3>2, Zenon
      <3>4. Scale(r) * noted.judged >= Rules[r].hits_per_interval * Scale(r)
        <4>1. noted.judged \in Nat /\ Scale(r) \in Nat \ {0} /\ Rules[r].hits_per_interval \in Nat
          BY <1>1, <1>7, RuleNumbers, Zenon DEF Judgements
        <4>2. \A s, j, n \in Nat : j >= n => s * j >= n * s
          OBVIOUS
        <4> QED
          BY <3>3, <4>1, <4>2, Zenon
      <3>5. Excessive(r, new)
        BY <3>2, <3>4, Zenon DEF Excessive
      <3>6. Pending(t, i, id)'
        BY <1>2, <1>3, <3>1, <3>5, Zenon DEF Pending
      <3> QED
        BY <3>6, Zenon
    <2> QED
      BY <2>1, <2>2, Zenon
  <1> QED
    BY <1>9, <1>11, <1>12, <1>13, <1>14, Zenon DEF Window

\* A step of a request that leaves the database and what its thread holds.
LEMMA QuietStep ==
    ASSUME Window, NEW t \in Threads, Alone',
           UNCHANGED <<history, regex_manager_ip_db, banned>>,
           \A u \in Threads \ {t} : call'[u] = call[u] /\ pc'[u] = pc[u],
           Local(call'[t], pc'[t]),
           \/ call[t].state = Empty
           \/ call[t].ip = call'[t].ip /\ call'[t].state # Empty /\ pc'[t] # "ban",
           \A ip, id : Pending(t, ip, id) => Pending(t, ip, id)'
    PROVE  Window'
  <1>1. \A ip \in IPs : ~Holds(t, ip)' => ~Holds(t, ip) /\ Saved(ip)' = Saved(ip)
    BY Zenon DEF Holds, Saved
  <1> QED
    BY <1>1, WindowThread, Zenon

LEMMA WindowUnchanged ==
    ASSUME Window, UNCHANGED <<regex_manager_ip_db, pc, call, history, banned>>
    PROVE  Window'
  <1>1. \A ip, states : Mirrors(ip, states)' = Mirrors(ip, states)
    BY Zenon DEF Mirrors
  <1>2. \A ip, id : NotSpaced(ip, id)' = NotSpaced(ip, id)
    BY Zenon DEF NotSpaced
  <1>3. \A c, statement : Local(c, statement)' = Local(c, statement)
    BY <1>1, <1>2, Zenon DEF Local
  <1>4. \A t, ip : Holds(t, ip)' = Holds(t, ip)
    BY Zenon DEF Holds
  <1>5. \A t, ip, id : Pending(t, ip, id)' = Pending(t, ip, id)
    BY Zenon DEF Pending
  <1>6. \A ip : Saved(ip)' = Saved(ip)
    BY Zenon DEF Saved
  <1>7. Alone'
    BY Zenon DEF Window, Alone
  <1>8. Stored'
    BY <1>1, <1>4, <1>6, Zenon DEF Window, Stored
  <1>9. Enough'
    BY <1>5, Zenon DEF Window, Enough
  <1>10. (\A t \in Threads : Local(call[t], pc[t]))'
    BY <1>3, Zenon DEF Window
  <1>11. (\A b \in banned : NotSpaced(b.ip, b.rule))'
    BY <1>2, Zenon DEF Window
  <1> QED
    BY <1>7, <1>8, <1>9, <1>10, <1>11, Zenon DEF Window

LEMMA WindowStep ==
    ASSUME TypeOK, Timed, Window, kept', Next
    PROVE  Window'
  <1>0. /\ call \in [Threads -> Call] /\ pc \in [Threads -> Pc] /\ clock \in Nat /\ clock > 0
        /\ \A ip \in IPs, id \in Ids : history[ip][id].last <= clock
    BY DEF TypeOK, Timed
  <1>1. Alone' /\ ~Unstored
    BY Zenon DEF Next, Keep, Overlap, Alone
  <1>2. \A t \in Threads : \A statement : Goto(t, statement) =>
           pc'[t] = statement /\ \A u \in Threads \ {t} : pc'[u] = pc[u]
    BY <1>0, Zenon DEF Goto
  <1>3. \A t \in Threads : Local(call[t], pc[t])
    BY Zenon DEF Window
  <1>4. ASSUME NEW t \in Threads, pc[t] \in {"idle", "rule", "get", "end"}
        PROVE  \A ip, id : ~Pending(t, ip, id)
    BY <1>4 DEF Pending
  <1>5. ASSUME NEW t \in Threads, NEW ip \in IPs, NEW host \in Hosts, NEW matching \in Records,
               Request(t, ip, host, matching)
        PROVE  Window'
    <2>1. /\ UNCHANGED <<history, regex_manager_ip_db, banned>>
          /\ \A u \in Threads \ {t} : call'[u] = call[u]
          /\ call'[t].state = Empty /\ call'[t].result = 0 /\ pc[t] = "idle" /\ Goto(t, "rule")
      BY <1>0, <1>5, Zenon DEF Request, Fresh
    <2>2. Local(call'[t], pc'[t]) /\ call[t].state = Empty
      BY <1>2, <1>3, <2>1, ZenonT(40) DEF Local
    <2> QED
      BY <1>1, <1>2, <1>4, <2>1, <2>2, QuietStep, Zenon
  <1>6. ASSUME NEW t \in Threads, SkipHost(t) PROVE Window'
    <2>1. /\ UNCHANGED <<history, regex_manager_ip_db, banned>> /\ Leave(t, "idle") /\ pc[t] = "rule"
      BY <1>6 DEF SkipHost
    <2>2. /\ Goto(t, "idle") /\ \A u \in Threads \ {t} : call'[u] = call[u]
          /\ call'[t].state = Empty /\ call'[t].result = 0
      BY <1>0, <2>1, LeaveIdle, Zenon
    <2>3. call[t].state = Empty
      BY <1>1, <1>2, <2>1, <2>2, Zenon DEF Unstored
    <2>4. Local(call'[t], pc'[t])
      BY <1>2, <2>2 DEF Local
    <2> QED
      BY <1>1, <1>2, <1>4, <2>1, <2>2, <2>3, <2>4, QuietStep, Zenon
  <1>7. ASSUME NEW t \in Threads, pc[t] \in {"rule", "get"}, Goto(t, Advance(t)),
               call' = [call EXCEPT ![t].rule = Following(t)],
               UNCHANGED <<history, regex_manager_ip_db, banned>>
        PROVE  Window'
    <2>1. /\ \A u \in Threads \ {t} : call'[u] = call[u]
          /\ call'[t].state = call[t].state /\ call'[t].result = call[t].result
          /\ call'[t].ip = call[t].ip
      BY <1>0, <1>7, FollowingTyping, RuleAssigned, Zenon
    <2>2. pc'[t] \in {"rule", "end"} /\ \A u \in Threads \ {t} : pc'[u] = pc[u]
      BY <1>2, <1>7, Zenon DEF Advance
    <2>3. Local(call'[t], pc'[t])
      BY <1>3, <1>7, <2>1, <2>2, Zenon DEF Local
    <2>4. pc'[t] # "ban"
      BY <2>2, Zenon
    <2> QED
      BY <1>1, <1>4, <1>7, <2>1, <2>2, <2>3, <2>4, QuietStep, Zenon
  <1>8. ASSUME NEW t \in Threads, Match(t) PROVE Window'
    <2>1. /\ UNCHANGED <<history, regex_manager_ip_db, banned>> /\ pc[t] = "rule"
          /\ call[t].rule \in Ids /\ call[t].ip \in IPs
      BY <1>0, <1>8, CallFields, Zenon DEF Match
    <2>2. CASE /\ ~Rated(call[t].rule) /\ Goto(t, "ban")
               /\ call' = [call EXCEPT ![t].result = call[t].rule]
      <3>1. /\ \A u \in Threads \ {t} : call'[u] = call[u]
            /\ call'[t].result = call[t].rule /\ call'[t].state = call[t].state
        BY <1>0, <2>1, <2>2, ResultAssigned, Zenon
      <3>2. pc'[t] = "ban" /\ \A u \in Threads \ {t} : pc'[u] = pc[u]
        BY <1>2, <2>2, Zenon
      <3>3. call[t].state = Empty
        BY <1>1, <2>1, <3>2, Zenon DEF Unstored
      <3>4. Local(call'[t], pc'[t])
        BY <2>2, <3>1, <3>2, <3>3, Zenon DEF Local, NotSpaced
      <3> QED
        BY <1>1, <1>4, <2>1, <3>1, <3>2, <3>3, <3>4, QuietStep, Zenon
    <2>3. CASE /\ call' = [call EXCEPT ![t].now = clock]
               /\ Goto(t, IF call[t].state = Empty THEN "get" ELSE "judge")
      <3>1. /\ \A u \in Threads \ {t} : call'[u] = call[u]
            /\ call'[t].now = clock /\ call'[t].state = call[t].state
            /\ call'[t].result = call[t].result /\ call'[t].ip = call[t].ip
        BY <1>0, <2>3, NowAssigned, Zenon
      <3>2. /\ pc'[t] = IF call[t].state = Empty THEN "get" ELSE "judge"
            /\ \A u \in Threads \ {t} : pc'[u] = pc[u]
        BY <1>2, <2>3, Zenon
      <3>3. Local(call'[t], pc'[t])
        BY <1>0, <1>3, <2>1, <3>1, <3>2, Zenon DEF Local
      <3>4. pc'[t] # "ban"
        BY <3>2, Zenon
      <3> QED
        BY <1>1, <1>4, <2>1, <3>1, <3>2, <3>3, <3>4, QuietStep, Zenon
    <2> QED
      BY <1>8, <2>2, <2>3, Zenon DEF Match
  <1>9. ASSUME NEW t \in Threads, Get(t) PROVE Window'
    <2>1. UNCHANGED <<history, regex_manager_ip_db, banned>> /\ pc[t] = "get"
      BY <1>9, Zenon DEF Get
    <2>2. CASE Goto(t, "get_held") /\ UNCHANGED call
      <3>1. pc'[t] = "get_held" /\ \A u \in Threads \ {t} : pc'[u] = pc[u]
        BY <1>2, <2>2, Zenon
      <3>2. Local(call'[t], pc'[t]) /\ call[t].state = Empty
        BY <1>3, <2>1, <2>2, <3>1, Zenon DEF Local
      <3> QED
        BY <1>1, <1>4, <2>1, <2>2, <3>1, <3>2, QuietStep, Zenon
    <2> QED
      BY <1>7, <1>9, <2>1, <2>2, Zenon DEF Get
  <1>10. ASSUME NEW t \in Threads, GetHeld(t) PROVE Window'
    <2>1. PICK ip : ip = call[t].ip
      OBVIOUS
    <2>2. /\ UNCHANGED <<history, regex_manager_ip_db, banned>> /\ pc[t] = "get_held"
          /\ Goto(t, "judge") /\ call' = [call EXCEPT ![t].state = Saved(ip)]
          /\ ip \in IPs
      BY <1>0, <1>10, <2>1, CallFields, Zenon DEF GetHeld, Saved
    <2>3. Saved(ip) \in [Ids -> RegexState]
      BY ReadTyping, Zenon DEF Saved
    <2> HIDE DEF Saved
    <2>4. /\ \A u \in Threads \ {t} : call'[u] = call[u]
          /\ call'[t].state = Saved(ip) /\ call'[t].result = call[t].result
          /\ call'[t].ip = ip /\ call'[t].now = call[t].now
      BY <1>0, <2>1, <2>2, <2>3, StateAssigned, Zenon
    <2>5. pc'[t] = "judge" /\ \A u \in Threads \ {t} : pc'[u] = pc[u]
      BY <1>2, <2>2, Zenon
    <2>6. call[t].state = Empty
      BY <1>3, <2>2, Zenon DEF Local
    <2>7. Mirrors(ip, Saved(ip))
      <3>1. \A u \in Threads : ~Holds(u, ip)
        BY <2>2, <2>6, OthersIdle, Zenon DEF Holds
      <3> QED
        BY <2>2, <3>1, Zenon DEF Window, Stored
    <2>8. Local(call'[t], pc'[t])
      BY <1>3, <2>1, <2>2, <2>4, <2>5, <2>7, Zenon DEF Local
    <2>9. \A i, id : ~Pending(t, i, id)
      BY <2>2, Zenon DEF Pending
    <2> QED
      BY <1>1, <2>2, <2>4, <2>5, <2>6, <2>8, <2>9, QuietStep, Zenon
  <1>11. ASSUME NEW t \in Threads, EndMatch(t) PROVE Window'
    <2>1. UNCHANGED <<history, regex_manager_ip_db, banned>> /\ pc[t] = "end"
      BY <1>11 DEF EndMatch
    <2>2. CASE call[t].state = Empty /\ Leave(t, "idle")
      <3>1. /\ Goto(t, "idle") /\ \A u \in Threads \ {t} : call'[u] = call[u]
            /\ call'[t].state = Empty /\ call'[t].result = 0
        BY <1>0, <2>2, LeaveIdle, Zenon
      <3>2. Local(call'[t], pc'[t])
        BY <1>2, <3>1 DEF Local
      <3> QED
        BY <1>1, <1>2, <1>4, <2>1, <2>2, <3>1, <3>2, QuietStep, Zenon
    <2>3. CASE call[t].state # Empty /\ Leave(t, "set")
      <3>1. Goto(t, "set") /\ call' = call
        BY <2>3, Zenon DEF Leave
      <3>2. pc'[t] = "set" /\ \A u \in Threads \ {t} : pc'[u] = pc[u]
        BY <1>2, <3>1, Zenon
      <3>3. Local(call'[t], pc'[t])
        BY <1>3, <2>1, <3>1, <3>2, Zenon DEF Local
      <3>4. pc'[t] # "ban"
        BY <3>2
      <3> QED
        BY <1>1, <1>4, <2>1, <2>3, <3>1, <3>2, <3>3, <3>4, QuietStep, Zenon
    <2> QED
      BY <1>11, <2>2, <2>3, Zenon DEF EndMatch
  <1>12. ASSUME NEW t \in Threads, Set(t) PROVE Window'
    <2>1. UNCHANGED <<history, regex_manager_ip_db, banned>> /\ pc[t] = "set" /\ call[t].state # Empty
      BY <1>12, Zenon DEF Set, TypeOK
    <2>2. db_mutex = NoThread
      <3> SUFFICES ASSUME db_mutex \in Threads PROVE FALSE
        BY Zenon DEF TypeOK
      <3>1. pc[db_mutex] \in Held
        BY Zenon DEF TypeOK
      <3>2. db_mutex # t /\ pc[db_mutex] # "idle"
        BY <2>1, <3>1, Zenon DEF Held
      <3> QED
        BY <2>1, <3>2, Zenon DEF Window, Alone
    <2>3. Goto(t, "set_held") /\ call' = call
      BY <1>12, <2>2, Zenon DEF Set, Leave
    <2>4. pc'[t] = "set_held" /\ \A u \in Threads \ {t} : pc'[u] = pc[u]
      BY <1>2, <2>3, Zenon
    <2>5. Local(call'[t], pc'[t])
      BY <1>3, <2>1, <2>3, <2>4, Zenon DEF Local
    <2>6. pc'[t] # "ban" /\ \A ip, id : Pending(t, ip, id) => Pending(t, ip, id)'
      BY <2>3, <2>4, Zenon DEF Pending
    <2> QED
      BY <1>1, <2>1, <2>3, <2>4, <2>5, <2>6, QuietStep, ZenonT(40)
  <1>13. ASSUME NEW t \in Threads, SetHeld(t) PROVE Window'
    <2>1. PICK ip : ip = call[t].ip
      OBVIOUS
    <2>2. /\ UNCHANGED <<history, banned>> /\ pc[t] = "set_held"
          /\ regex_manager_ip_db' = Write(regex_manager_ip_db, ip, call[t].state)
          /\ call[t].state # Empty /\ call[t].state \in [Ids -> RegexState] /\ ip \in IPs
      BY <1>0, <1>13, <2>1, CallFields, Zenon DEF SetHeld, TypeOK
    <2>3. Mirrors(ip, call[t].state)
      BY <1>3, <2>1, <2>2, Zenon DEF Local
    <2>4. Mirrors(ip, Saved(ip)')
      <3>1. Saved(ip)' = Resized(call[t].state)
        BY <2>2, Zenon DEF Saved, Read, Write
      <3>2. Resized(call[t].state) = call[t].state
        BY <2>2, ResizedTyping, Zenon
      <3> QED
        BY <2>3, <3>1, <3>2, Zenon
    <2>5. \A i \in IPs : i # ip => ~Holds(t, i) /\ Saved(i)' = Saved(i)
      BY <2>1, <2>2, Zenon DEF Holds, Saved, Read, Write
    <2>6. \A i \in IPs : (~Holds(t, i) /\ Saved(i)' = Saved(i)) \/ Mirrors(i, Saved(i)')
      BY <2>4, <2>5, Zenon
    <2>7. CASE call[t].result = 0 /\ Leave(t, "idle")
      <3>1. /\ Goto(t, "idle") /\ \A u \in Threads \ {t} : call'[u] = call[u]
            /\ call'[t].state = Empty /\ call'[t].result = 0
        BY <1>0, <2>7, LeaveIdle, Zenon
      <3>2. Local(call'[t], pc'[t])
        BY <1>2, <3>1 DEF Local
      <3>3. \A i \in IPs, id \in Ids : ~Pending(t, i, id)
        BY <2>7 DEF Pending, Ids
      <3> QED
        BY <1>1, <1>2, <2>2, <2>6, <3>1, <3>2, <3>3, WindowThread, Zenon
    <2>8. CASE Leave(t, "ban")
      <3>1. Goto(t, "ban") /\ call' = call
        BY <2>8 DEF Leave
      <3>2. pc'[t] = "ban" /\ \A u \in Threads \ {t} : pc'[u] = pc[u]
        BY <1>2, <3>1, Zenon
      <3>3. Local(call'[t], pc'[t])
        BY <1>3, <3>1, <3>2, Zenon DEF Local
      <3>4. \A i, id : Pending(t, i, id) => Pending(t, i, id)'
        BY <3>1, <3>2, Zenon DEF Pending
      <3> QED
        BY <1>1, <2>2, <2>6, <3>1, <3>2, <3>3, <3>4, WindowThread, Zenon
    <2> QED
      BY <1>13, <2>7, <2>8, Zenon DEF SetHeld, AfterSet
  <1>14. ASSUME NEW t \in Threads, Ban(t) PROVE Window'
    <2>1. /\ UNCHANGED <<history, regex_manager_ip_db>> /\ pc[t] = "ban" /\ Leave(t, "idle")
          /\ banned' = banned \cup {[ip |-> call[t].ip, rule |-> call[t].result]}
          /\ call[t].result # 0
      BY <1>14, Zenon DEF Ban, TypeOK
    <2>2. /\ Goto(t, "idle") /\ \A u \in Threads \ {t} : call'[u] = call[u]
          /\ call'[t].state = Empty /\ call'[t].result = 0
      BY <1>0, <2>1, LeaveIdle, Zenon
    <2>3. Local(call'[t], pc'[t])
      BY <1>2, <2>2 DEF Local
    <2>4. \A i \in IPs : ~Holds(t, i) /\ Saved(i)' = Saved(i)
      BY <2>1, Zenon DEF Holds, Saved
    <2>5. \A i \in IPs, id \in Ids : Pending(t, i, id) => [ip |-> i, rule |-> id] \in banned'
      BY <2>1, Zenon DEF Pending
    <2>6. \A b \in banned' : b \in banned \/ NotSpaced(b.ip, b.rule)
      <3>1. NotSpaced(call[t].ip, call[t].result)
        BY <1>3, <2>1, Zenon DEF Local
      <3> QED
        BY <2>1, <3>1
    <2>7. banned \subseteq banned'
      BY <2>1, Zenon
    <2> QED
      BY <1>1, <1>2, <2>1, <2>2, <2>3, <2>4, <2>5, <2>6, <2>7, WindowThread, ZenonT(40)
  <1>15. CASE Tick
    BY <1>15, WindowUnchanged DEF Tick
  <1>16. ASSUME NEW t \in Threads, NoMatch(t) PROVE Window'
    BY <1>7, <1>16, Zenon DEF NoMatch
  <1> QED
    BY <1>5, <1>6, <1>8, <1>9, <1>10, <1>11, <1>12, <1>13, <1>14, <1>15, <1>16, JudgeWindow, Zenon
       DEF Next, ProgramStep, Step

LEMMA WindowInvariantStep == TypeOK /\ WindowInvariant /\ [Next]_vars => WindowInvariant'
  <1> SUFFICES ASSUME TypeOK, WindowInvariant, [Next]_vars PROVE WindowInvariant'
    OBVIOUS
  <1>1. Timed'
    BY TimedStep, Zenon DEF WindowInvariant
  <1>2. ASSUME kept', Next PROVE Window'
    <2>1. kept
      BY <1>2, Zenon DEF Next, Keep
    <2> QED
      BY <1>2, <2>1, WindowStep, Zenon DEF WindowInvariant
  <1>3. ASSUME kept', UNCHANGED vars PROVE Window'
    <2>1. kept
      BY <1>3, Zenon DEF vars
    <2> QED
      BY <1>3, <2>1, WindowUnchanged DEF vars, WindowInvariant
  <1> QED
    BY <1>1, <1>2, <1>3, Zenon DEF WindowInvariant

LEMMA WindowKept == Spec => [](TypeOK /\ WindowInvariant)
  <1>1. Init => TypeOK /\ WindowInvariant
    BY TypeInit, TimedInit, WindowInit, Zenon DEF WindowInvariant
  <1>2. TypeOK /\ WindowInvariant /\ [Next]_vars => TypeOK' /\ WindowInvariant'
    BY TypeStep, WindowInvariantStep
  <1> QED
    BY <1>1, <1>2, PTL DEF Spec

-----------------------------------------------------------------------------
(* However long an ip goes on, whatever the rules and whenever the window  *)
(* moves: while requests come one at a time and what is judged is stored,  *)
(* a rule never bans an ip whose requests are spaced wider than its rate   *)
(* (try_match).                                                            *)
THEOREM SpacedIsSafe == Spec => []SpacedNotBanned
  <1>1. WindowInvariant => SpacedNotBanned
    BY Zenon DEF WindowInvariant, Window, NotSpaced, SpacedNotBanned
  <1> QED
    BY <1>1, WindowKept, PTL

(* On the same condition, the request that is the hits_per_interval-th     *)
(* within the interval the first one began is banned before any other      *)
(* request is looked at (try_match, on_http_request).                      *)
THEOREM FirstIntervalCounts == Spec => []FirstIntervalBans
  <1>1. WindowInvariant => FirstIntervalBans
    BY DEF WindowInvariant, Window, Enough, Pending, FirstIntervalBans
  <1> QED
    BY <1>1, WindowKept, PTL
=============================================================================
