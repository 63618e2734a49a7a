------------------------ MODULE FailureCountProofs -------------------------
(***************************************************************************)
(* Proofs about the failure counts of Challenger, for every number of      *)
(* threads and ips, every set of thresholds and every bound.               *)
(***************************************************************************)
EXTENDS FailureCount, TLAPS

\* What report_failure reads is a number.
LEMMA ReadNat ==
    ASSUME TypeOK, NEW ip \in IPs
    PROVE  Read(challenger_ip_db, ip, 0) \in Nat
  BY DEF TypeOK, Read

\* The locals of a report, and what assigning the count does to them.
LEMMA CallFields ==
    ASSUME NEW f \in [Threads -> Call], NEW t \in Threads
    PROVE  /\ f[t].ip \in IPs /\ f[t].threshold \in Thresholds
           /\ f[t].count \in Nat /\ f[t].op \in {"failure", "success"}
  BY DEF Call

LEMMA CallCounted ==
    ASSUME NEW f \in [Threads -> Call], NEW t \in Threads, NEW n \in Nat
    PROVE  /\ [f EXCEPT ![t].count = n] \in [Threads -> Call]
           /\ [f EXCEPT ![t].count = n][t].count = n
           /\ [f EXCEPT ![t].count = n][t].ip = f[t].ip
           /\ [f EXCEPT ![t].count = n][t].threshold = f[t].threshold
           /\ [f EXCEPT ![t].count = n][t].op = f[t].op
  BY DEF Call

\* Types are preserved; a stored count is positive because CountsEarned says
\* that the count about to be written is.
LEMMA TypeStep == TypeOK /\ CountsEarned /\ [Next]_vars => TypeOK'
<1> SUFFICES ASSUME TypeOK, CountsEarned, [Next]_vars PROVE TypeOK'
  OBVIOUS
<1>0. overlapped' \in BOOLEAN
  BY Zenon DEF Next, Overlap, TypeOK, vars
<1> USE <1>0, FailureAssumption DEF TypeOK, Pc, Held, history, Goto
<1>1. ASSUME NEW t \in Threads, NEW ip \in IPs, ReportSuccess(t, ip) PROVE TypeOK'
  <2>1. [ip |-> ip, threshold |-> call[t].threshold, count |-> SuccessCount,
         op |-> "success"] \in Call
    BY CallFields DEF Call, SuccessCount
  <2>2. call' \in [Threads -> Call]
    BY <1>1, <2>1 DEF ReportSuccess, Start
  <2> QED
    BY <1>1, <2>2 DEF ReportSuccess, Start
<1>2. ASSUME NEW t \in Threads, NEW ip \in IPs, NEW h \in Thresholds,
             ReportFailure(t, ip, h)
      PROVE  TypeOK'
  <2>1. [ip |-> ip, threshold |-> h, count |-> 0, op |-> "failure"] \in Call
    BY DEF Call
  <2>2. call' \in [Threads -> Call]
    BY <1>2, <2>1 DEF ReportFailure, Start
  <2> QED
    BY <1>2, <2>2, SMTT(30) DEF ReportFailure, Start
<1>3. ASSUME NEW t \in Threads, Get(t) \/ Drop(t) \/ Set(t) PROVE TypeOK'
  BY <1>3, Zenon DEF Get, Drop, Set, TryDb
<1>4. ASSUME NEW t \in Threads, GetHeld(t) PROVE TypeOK'
  <2>1. call[t].ip \in IPs
    BY CallFields, Zenon
  <2>2. Increment(Read(challenger_ip_db, call[t].ip, 0)) \in Nat
    BY <2>1, ReadNat, SMTT(30) DEF Increment
  <2>3. call' \in [Threads -> Call]
    BY <1>4, <2>2, CallCounted, Zenon DEF GetHeld
  <2> QED
    BY <1>4, <2>1, <2>3, SMTT(30) DEF GetHeld
<1>5. ASSUME NEW t \in Threads, AskBan(t) PROVE TypeOK'
  <2>1. call[t].ip \in IPs /\ call[t].threshold \in Thresholds
    BY CallFields
  <2> DEFINE b == [ip |-> call[t].ip, threshold |-> call[t].threshold,
                   failures |-> failures[call[t].ip], solved |-> solved[call[t].ip]]
  <2>2. b \in Ban
    BY <2>1 DEF Ban
  <2>3. bans' = Append(bans, b)
    BY <1>5 DEF AskBan
  <2>4. bans' \in Seq(Ban)
    BY <2>2, <2>3
  <2> QED
    BY <1>5, <2>1, <2>4, SMTT(30) DEF AskBan
<1>6. ASSUME NEW t \in Threads, DropHeld(t) PROVE TypeOK'
  BY <1>6 DEF DropHeld, Erase
<1>7. ASSUME NEW t \in Threads, SetHeld(t) PROVE TypeOK'
  <2>1. call[t].ip \in IPs /\ call[t].count \in Nat
    BY CallFields
  <2>2. call[t].count > 0
    BY <1>7 DEF SetHeld, CountsEarned, CountEarned
  <2>3. /\ DOMAIN challenger_ip_db' \subseteq IPs
        /\ challenger_ip_db' \in [DOMAIN challenger_ip_db' -> Nat \ {0}]
    BY <1>7, <2>1, <2>2 DEF SetHeld, Write
  <2> QED
    BY <1>7, <2>1, <2>3, SMTT(30) DEF SetHeld
<1>8. ASSUME UNCHANGED vars PROVE TypeOK'
  BY <1>8 DEF vars
<1> QED
  BY <1>1, <1>2, <1>3, <1>4, <1>5, <1>6, <1>7, <1>8, Zenon DEF Next, ThreadStep, Step

\* No step takes back a failure that was counted, or a success.
LEMMA EarnedGrows ==
    ASSUME TypeOK, TypeOK', [Next]_vars, NEW ip \in IPs
    PROVE  /\ Earned(ip) \in Nat /\ Earned(ip)' \in Nat
           /\ Earned(ip) <= Earned(ip)'
<1>1. /\ failures[ip] \in Nat /\ failures'[ip] \in Nat
      /\ solved[ip] \in {0, 1} /\ solved'[ip] \in {0, 1}
  BY DEF TypeOK
<1>2. failures[ip] <= failures'[ip]
  <2>1. ASSUME NEW t \in Threads, GetHeld(t) PROVE failures[ip] <= failures'[ip]
    <3>1. failures' = [failures EXCEPT ![call[t].ip] = @ + 1]
      BY <2>1 DEF GetHeld
    <3> QED
      BY <1>1, <3>1 DEF TypeOK
  <2>2. ASSUME NEW t \in Threads, AskBan(t) \/ DropHeld(t) \/ SetHeld(t) PROVE failures' = failures
    BY <2>2 DEF AskBan, DropHeld, SetHeld, history
  <2>3. ASSUME NEW t \in Threads, Get(t) \/ Drop(t) \/ Set(t) PROVE failures' = failures
    BY <2>3 DEF Get, Drop, Set, TryDb, history
  <2>4. ASSUME NEW t \in Threads, NEW i \in IPs,
               \/ ReportSuccess(t, i)
               \/ \E h \in Thresholds : ReportFailure(t, i, h)
        PROVE  failures' = failures
    BY <2>4 DEF ReportSuccess, ReportFailure, Start, history
  <2>5. ASSUME UNCHANGED vars PROVE failures' = failures
    BY <2>5 DEF vars, history
  <2>6. failures' = failures \/ \E t \in Threads : GetHeld(t)
    BY <2>2, <2>3, <2>4, <2>5 DEF Next, ThreadStep, Step
  <2> QED
    BY <1>1, <2>1, <2>6
<1>3. solved[ip] <= solved'[ip]
  <2>1. ASSUME NEW t \in Threads, SetHeld(t) PROVE solved[ip] <= solved'[ip]
    <3>1. solved' = [solved EXCEPT ![call[t].ip] =
                        IF call[t].op = "success" THEN 1 ELSE @]
      BY <2>1 DEF SetHeld
    <3> QED
      BY <1>1, <3>1 DEF TypeOK
  <2>2. ASSUME NEW t \in Threads, AskBan(t) \/ DropHeld(t) \/ GetHeld(t) PROVE solved' = solved
    BY <2>2 DEF AskBan, DropHeld, GetHeld, history
  <2>3. ASSUME NEW t \in Threads, Get(t) \/ Drop(t) \/ Set(t) PROVE solved' = solved
    BY <2>3 DEF Get, Drop, Set, TryDb, history
  <2>4. ASSUME NEW t \in Threads, NEW i \in IPs,
               \/ ReportSuccess(t, i)
               \/ \E h \in Thresholds : ReportFailure(t, i, h)
        PROVE  solved' = solved
    BY <2>4 DEF ReportSuccess, ReportFailure, Start, history
  <2>5. ASSUME UNCHANGED vars PROVE solved' = solved
    BY <2>5 DEF vars, history
  <2>6. solved' = solved \/ \E t \in Threads : SetHeld(t)
    BY <2>2, <2>3, <2>4, <2>5 DEF Next, ThreadStep, Step
  <2> QED
    BY <1>1, <2>1, <2>6
<1> QED
  BY <1>1, <1>2, <1>3 DEF Earned

\* A thread that does not move keeps what CountEarned says of it.
LEMMA OthersEarned ==
    ASSUME TypeOK, TypeOK', CountsEarned, [Next]_vars,
           NEW u \in Threads, pc'[u] = pc[u], call'[u] = call[u]
    PROVE  CountEarned(u)'
<1>1. call[u].ip \in IPs /\ call[u].threshold \in Nat /\ call[u].count \in Nat
  BY CallFields, FailureAssumption DEF TypeOK
<1>2. Earned(call[u].ip) \in Nat /\ Earned(call[u].ip)' \in Nat
      /\ Earned(call[u].ip) <= Earned(call[u].ip)'
  <2>1. \A ip \in IPs : /\ Earned(ip) \in Nat /\ Earned(ip)' \in Nat
                        /\ Earned(ip) <= Earned(ip)'
    BY EarnedGrows
  <2>2. call'[u].ip = call[u].ip
    OBVIOUS
  <2> QED
    BY <1>1, <2>1, <2>2 DEF Earned
<1>3. CountEarned(u)
  BY DEF CountsEarned
<1> QED
  BY <1>1, <1>2, <1>3 DEF CountEarned, Earned

\* The record written or read, and the counts of all threads, stay earned.
LEMMA EarnedStep ==
    TypeOK /\ TypeOK' /\ CountsEarned /\ [Next]_vars => CountsEarned'
<1> SUFFICES ASSUME TypeOK, TypeOK', CountsEarned, [Next]_vars PROVE CountsEarned'
  OBVIOUS
<1>1. ASSUME NEW ip \in IPs PROVE (Read(challenger_ip_db, ip, 0) <= Earned(ip))'
  <2>1. /\ Read(challenger_ip_db, ip, 0) <= Earned(ip)
        /\ Earned(ip) \in Nat /\ Earned(ip)' \in Nat /\ Earned(ip) <= Earned(ip)'
        /\ Read(challenger_ip_db, ip, 0) \in Nat
    BY EarnedGrows, ReadNat DEF CountsEarned
  <2>2. CASE challenger_ip_db' = challenger_ip_db
    BY <2>1, <2>2 DEF Read
  <2>3. ASSUME NEW t \in Threads, DropHeld(t)
        PROVE  Read(challenger_ip_db', ip, 0) <= Earned(ip)'
    BY <2>1, <2>3 DEF DropHeld, Erase, Read
  <2>4. ASSUME NEW t \in Threads, SetHeld(t)
        PROVE  Read(challenger_ip_db', ip, 0) <= Earned(ip)'
    <3>1. CASE call[t].ip # ip
      BY <2>1, <2>4, <3>1 DEF SetHeld, Write, Read
    <3>2. CASE call[t].ip = ip
      <4>1. Read(challenger_ip_db', ip, 0) = call[t].count
        BY <2>4, <3>2 DEF SetHeld, Write, Read
      <4>2. CASE call[t].count <= Earned(ip)
        <5>1. call[t].count \in Nat
          BY CallFields, Zenon DEF TypeOK
        <5> QED
          BY <2>1, <4>1, <4>2, <5>1
      <4>3. CASE call[t].op = "success" /\ call[t].count = 1
        <5>1. solved' = [solved EXCEPT ![ip] = 1]
          BY <2>4, <3>2, <4>3 DEF SetHeld
        <5>2. solved'[ip] = 1 /\ failures'[ip] \in Nat
          BY <5>1 DEF TypeOK
        <5> QED
          BY <4>1, <4>3, <5>2 DEF Earned
      <4> QED
        BY <2>4, <3>2, <4>2, <4>3 DEF SetHeld, CountsEarned, CountEarned
    <3> QED
      BY <3>1, <3>2
  <2> QED
    BY <2>2, <2>3, <2>4, Zenon DEF Next, ThreadStep, Step, vars, history, ReportSuccess, ReportFailure,
       Start, Get, Drop, Set, TryDb, AskBan, GetHeld
<1>2. ASSUME NEW u \in Threads PROVE CountEarned(u)'
  <2>1. CASE pc'[u] = pc[u] /\ call'[u] = call[u]
    BY <2>1, OthersEarned
  <2>2. CASE pc'[u] \notin {"set", "set_held", "ban"}
    BY <2>2 DEF CountEarned
  <2>3. ASSUME NEW ip \in IPs, ReportSuccess(u, ip) PROVE CountEarned(u)'
    BY <2>3 DEF ReportSuccess, Start, Goto, SuccessCount, CountEarned, TypeOK
  <2>4. ASSUME Set(u) PROVE CountEarned(u)'
    <3>1. CountEarned(u)
      BY DEF CountsEarned
    <3> QED
      BY <2>4, <3>1 DEF Set, TryDb, Goto, CountEarned, Earned, TypeOK, history
  <2>5. ASSUME GetHeld(u) PROVE CountEarned(u)'
    <3> DEFINE ip == call[u].ip
               n == Increment(Read(challenger_ip_db, ip, 0))
    <3>1. ip \in IPs /\ call[u].threshold \in Nat
      BY CallFields, FailureAssumption, Zenon DEF TypeOK
    <3>2. Read(challenger_ip_db, ip, 0) \in Nat
      BY <3>1, ReadNat
    <3>3. n \in Nat /\ n > 0 /\ n = Read(challenger_ip_db, ip, 0) + 1
      BY <3>2 DEF Increment
    <3>4. failures'[ip] = failures[ip] + 1 /\ solved'[ip] = solved[ip]
      <4>1. failures' = [failures EXCEPT ![ip] = @ + 1] /\ solved' = solved
        BY <2>5 DEF GetHeld
      <4> QED
        BY <3>1, <4>1 DEF TypeOK
    <3>5. n <= failures'[ip] + solved'[ip]
      <4>1. Read(challenger_ip_db, ip, 0) <= failures[ip] + solved[ip]
        BY <3>1 DEF CountsEarned, Earned
      <4>2. failures[ip] \in Nat /\ solved[ip] \in {0, 1}
        BY <3>1 DEF TypeOK
      <4> QED
        BY <3>2, <3>3, <3>4, <4>1, <4>2
    <3>6. /\ call'[u].ip = ip /\ call'[u].threshold = call[u].threshold
          /\ call'[u].count = n
      BY <2>5, <3>3, CallCounted DEF GetHeld, TypeOK
    <3>7. pc'[u] = IF n >= call[u].threshold THEN "ban" ELSE "set"
      BY <2>5 DEF GetHeld, Goto, TooMany, TypeOK
    <3> QED
      BY <3>1, <3>3, <3>5, <3>6, <3>7 DEF CountEarned, Earned
  <2>6. ASSUME NEW t \in Threads, t # u, Step(t) PROVE CountEarned(u)'
    BY <2>6, <2>1 DEF Step, Get, GetHeld, AskBan, Drop, DropHeld, Set, SetHeld, TryDb,
       Goto, TypeOK
  <2>7. ASSUME NEW t \in Threads, t # u, NEW ip \in IPs, ReportSuccess(t, ip)
        PROVE  CountEarned(u)'
    BY <2>7, <2>1 DEF ReportSuccess, Start, Goto, TypeOK
  <2>8. ASSUME NEW t \in Threads, NEW ip \in IPs, NEW h \in Thresholds,
               ReportFailure(t, ip, h)
        PROVE  CountEarned(u)'
    BY <2>8, <2>1, <2>2 DEF ReportFailure, Start, Goto, TypeOK
  <2>9. ASSUME Get(u) \/ AskBan(u) \/ Drop(u) \/ DropHeld(u) \/ SetHeld(u)
        PROVE  CountEarned(u)'
    BY <2>9, <2>2 DEF Get, AskBan, Drop, DropHeld, SetHeld, TryDb, Goto, TypeOK
  <2> QED
    BY <2>1, <2>3, <2>4, <2>5, <2>6, <2>7, <2>8, <2>9 DEF Next, ThreadStep, Step, vars
<1> QED
  BY <1>1, <1>2 DEF CountsEarned

\* Only AskBan adds a ban, and the count it acts on is earned.
LEMMA BansStep ==
    ASSUME TypeOK, CountsEarned, BanNeedsFailures, [Next]_vars
    PROVE  BanNeedsFailures'
<1>1. ASSUME NEW t \in Threads, AskBan(t) PROVE BanNeedsFailures'
  <2> DEFINE ip == call[t].ip
             b == [ip |-> ip, threshold |-> call[t].threshold,
                   failures |-> failures[ip], solved |-> solved[ip]]
  <2>1. bans' = Append(bans, b) /\ bans \in Seq(Ban)
    BY <1>1 DEF AskBan, TypeOK
  <2>2. b.failures + b.solved >= b.threshold
    <3>1. ip \in IPs /\ call[t].threshold \in Nat /\ call[t].count \in Nat
      BY CallFields, FailureAssumption, Zenon DEF TypeOK
    <3>2. failures[ip] \in Nat /\ solved[ip] \in {0, 1}
      BY <3>1 DEF TypeOK
    <3>3. call[t].threshold <= call[t].count /\ call[t].count <= failures[ip] + solved[ip]
      BY <1>1 DEF AskBan, CountsEarned, CountEarned, Earned
    <3> QED
      BY <3>1, <3>2, <3>3
  <2>3. ASSUME NEW i \in DOMAIN bans'
        PROVE  bans'[i].failures + bans'[i].solved >= bans'[i].threshold
    <3>1. CASE i \in DOMAIN bans
      BY <2>1, <3>1 DEF BanNeedsFailures
    <3>2. CASE i = Len(bans) + 1
      BY <2>1, <2>2, <3>2
    <3> QED
      BY <2>1, <3>1, <3>2
  <2> QED
    BY <2>3 DEF BanNeedsFailures
<1>2. ASSUME NEW t \in Threads, GetHeld(t) \/ DropHeld(t) \/ SetHeld(t) PROVE bans' = bans
  BY <1>2 DEF GetHeld, DropHeld, SetHeld, history
<1>3. ASSUME NEW t \in Threads, Get(t) \/ Drop(t) \/ Set(t) PROVE bans' = bans
  BY <1>3 DEF Get, Drop, Set, TryDb, history
<1>4. ASSUME NEW t \in Threads, NEW i \in IPs,
             \/ ReportSuccess(t, i)
             \/ \E h \in Thresholds : ReportFailure(t, i, h)
      PROVE  bans' = bans
  BY <1>4 DEF ReportSuccess, ReportFailure, Start, history
<1>5. ASSUME UNCHANGED vars PROVE bans' = bans
  BY <1>5 DEF vars, history
<1>6. bans' = bans \/ \E t \in Threads : AskBan(t)
  BY <1>2, <1>3, <1>4, <1>5 DEF Next, ThreadStep, Step
<1>7. CASE bans' = bans
  BY <1>7 DEF BanNeedsFailures
<1> QED
  BY <1>1, <1>6, <1>7

\* A failure count is written only if it is below the threshold it was
\* compared with.
LEMMA RecordStep ==
    ASSUME TypeOK, CountsEarned, RecordBelowThreshold, [Next]_vars
    PROVE  RecordBelowThreshold'
<1> SUFFICES ASSUME NEW ip \in IPs
             PROVE  LET n == Read(challenger_ip_db', ip, 0)
                    IN  n <= 1 \/ \E h \in Thresholds : n < h
  BY DEF RecordBelowThreshold
<1>1. ASSUME NEW t \in Threads, SetHeld(t), call[t].ip = ip
      PROVE  LET n == Read(challenger_ip_db', ip, 0)
             IN  n <= 1 \/ \E h \in Thresholds : n < h
  <2>1. Read(challenger_ip_db', ip, 0) = call[t].count
    BY <1>1 DEF SetHeld, Write, Read
  <2>2. call[t].count = 1 \/ call[t].count < call[t].threshold
    BY <1>1 DEF SetHeld, CountsEarned, CountEarned
  <2>3. call[t].threshold \in Thresholds
    BY CallFields DEF TypeOK
  <2> QED
    BY <2>1, <2>2, <2>3
<1>2. ASSUME NEW t \in Threads, SetHeld(t), call[t].ip # ip
      PROVE  Read(challenger_ip_db', ip, 0) = Read(challenger_ip_db, ip, 0)
  BY <1>2 DEF SetHeld, Write, Read
<1>3. ASSUME NEW t \in Threads, DropHeld(t)
      PROVE  Read(challenger_ip_db', ip, 0) \in {0, Read(challenger_ip_db, ip, 0)}
  BY <1>3 DEF DropHeld, Erase, Read
<1>4. \/ challenger_ip_db' = challenger_ip_db
      \/ \E t \in Threads : DropHeld(t) \/ SetHeld(t)
  BY Zenon DEF Next, ThreadStep, Step, vars, history, ReportSuccess, ReportFailure, Start, Get, Drop, Set,
     TryDb, AskBan, GetHeld
<1> QED
  BY <1>1, <1>2, <1>3, <1>4 DEF RecordBelowThreshold

\* For any number of threads, ips and thresholds, and any interleaving of
\* report_failure and report_success: counts are typed, no count exceeds the
\* failures that earned it, and no stored record reaches every threshold.
THEOREM CountsAreEarned == Spec => [](TypeOK /\ CountsEarned /\ RecordBelowThreshold)
<1>1. Init => TypeOK /\ CountsEarned /\ RecordBelowThreshold
  <2> SUFFICES ASSUME Init PROVE TypeOK /\ CountsEarned /\ RecordBelowThreshold
    OBVIOUS
  <2>1. \A ip \in IPs : Read(challenger_ip_db, ip, 0) = 0
    BY DEF Init, EmptyDb, Read
  <2>2. call \in [Threads -> Call]
    BY DEF Init, Call
  <2>3. TypeOK
    <3>1. overlapped \in BOOLEAN
      BY Zenon DEF Init
    <3>2. /\ challenger_ip_db = EmptyDb /\ db_mutex = NoThread /\ pc = [t \in Threads |-> "idle"]
          /\ failures = [ip \in IPs |-> 0] /\ recent = [ip \in IPs |-> 0]
          /\ solved = [ip \in IPs |-> 0] /\ credit = [ip \in IPs |-> 0] /\ bans = << >> /\ calls = 0
      BY DEF Init
    <3> QED
      BY <2>2, <3>1, <3>2 DEF TypeOK, EmptyDb, Pc, Held
  <2>4. CountsEarned
    BY <2>1 DEF Init, CountsEarned, CountEarned, Earned
  <2> QED
    BY <2>1, <2>3, <2>4 DEF RecordBelowThreshold
<1>2. TypeOK /\ CountsEarned /\ RecordBelowThreshold /\ [Next]_vars
        => (TypeOK /\ CountsEarned /\ RecordBelowThreshold)'
  BY TypeStep, EarnedStep, RecordStep
<1> QED
  BY <1>1, <1>2, PTL DEF Spec

\* For any number of threads, ips and thresholds: report_failure asks for a
\* ban of an ip only after the ip failed threshold challenges, or one less if
\* it solved one, however the reports interleave.
THEOREM BansAreEarned == Spec => []BanNeedsFailures
<1>1. Init => BanNeedsFailures
  BY DEF Init, BanNeedsFailures
<1>2. TypeOK /\ CountsEarned /\ BanNeedsFailures /\ [Next]_vars => BanNeedsFailures'
  BY BansStep
<1> QED
  BY <1>1, <1>2, CountsAreEarned, PTL DEF Spec

-----------------------------------------------------------------------------
(* The count is exact while reports come one at a time *)

\* A report that has counted a failure and not yet stored it, or has asked for
\* a ban and not yet dropped the record.
Pending(t, ip) ==
    /\ call[t].ip = ip
    /\ \/ pc[t] \in {"ban", "drop", "drop_held"}
       \/ pc[t] \in {"set", "set_held"} /\ call[t].op = "failure"

ReportExact(t) ==
    LET ip == call[t].ip
    IN  /\ pc[t] \in {"get", "get_held"} => call[t].op = "failure"
        /\ pc[t] \in {"set", "set_held"} =>
              call[t].count = IF call[t].op = "success" THEN 1 ELSE recent[ip] + credit[ip]
        /\ pc[t] \in {"drop", "drop_held"} => recent[ip] = 0 /\ credit[ip] = 0

RecordExact(ip) ==
    (\A t \in Threads : ~Pending(t, ip)) =>
        Read(challenger_ip_db, ip, 0) = recent[ip] + credit[ip]

\* Without an overlap the mutex is never found taken, and every record is
\* exact but the one that the report in progress is about to change.
ExactInvariant ==
    /\ db_mutex # NoThread => db_mutex \in Threads /\ pc[db_mutex] \in Held
    /\ ~overlapped =>
          /\ ~Overlap
          /\ \A t \in Threads : ReportExact(t)
          /\ \A ip \in IPs : RecordExact(ip)

\* Of two reports one was already over.
LEMMA Alone ==
    ASSUME TypeOK, ExactInvariant, Next, ~overlapped', NEW t \in Threads,
           pc[t] # "idle" \/ pc'[t] # "idle", NEW u \in Threads, u # t, pc'[u] = pc[u]
    PROVE  pc[u] = "idle"
  BY Zenon DEF ExactInvariant, Next, Overlap

\* The step of a thread changes its own report only.
LEMMA OneReport ==
    ASSUME TypeOK, ThreadStep
    PROVE  \E t \in Threads :
              /\ \/ \E ip \in IPs : ReportSuccess(t, ip) \/ \E h \in Thresholds : ReportFailure(t, ip, h)
                 \/ Step(t)
              /\ pc[t] # "idle" \/ pc'[t] # "idle"
              /\ \A u \in Threads : u # t => pc'[u] = pc[u] /\ call'[u] = call[u]
<1>1. PICK t \in Threads :
          \/ \E ip \in IPs : ReportSuccess(t, ip) \/ \E h \in Thresholds : ReportFailure(t, ip, h)
          \/ Step(t)
  BY DEF ThreadStep
<1>2. CASE Step(t)
  BY <1>1, <1>2, Zenon DEF Step, Get, GetHeld, AskBan, Drop, DropHeld, Set, SetHeld, TryDb, Goto, TypeOK
<1>3. CASE \E ip \in IPs : ReportSuccess(t, ip) \/ \E h \in Thresholds : ReportFailure(t, ip, h)
  BY <1>1, <1>3, Zenon DEF ReportSuccess, ReportFailure, Start, Goto, TypeOK
<1> QED
  BY <1>1, <1>2, <1>3

LEMMA MutexStep ==
    ASSUME TypeOK, ExactInvariant, [Next]_vars
    PROVE  db_mutex' # NoThread => db_mutex' \in Threads /\ pc'[db_mutex'] \in Held
<1>1. CASE UNCHANGED vars
  BY <1>1 DEF vars, ExactInvariant
<1>2. CASE Next
  <2>1. PICK t \in Threads :
            /\ \/ \E ip \in IPs : ReportSuccess(t, ip) \/ \E h \in Thresholds : ReportFailure(t, ip, h)
               \/ Step(t)
            /\ \A u \in Threads : u # t => pc'[u] = pc[u]
    BY <1>2, OneReport DEF Next
  <2>2. CASE \E ip \in IPs : ReportSuccess(t, ip) \/ \E h \in Thresholds : ReportFailure(t, ip, h)
    BY <2>1, <2>2 DEF ReportSuccess, ReportFailure, Start, ExactInvariant, Held
  <2>3. CASE Get(t) \/ Drop(t) \/ Set(t)
    BY <2>1, <2>3 DEF Get, Drop, Set, TryDb, Goto, ExactInvariant, Held, TypeOK
  <2>4. CASE GetHeld(t) \/ DropHeld(t) \/ SetHeld(t)
    BY <2>4 DEF GetHeld, DropHeld, SetHeld
  <2>5. CASE AskBan(t)
    BY <2>1, <2>5 DEF AskBan, ExactInvariant, Held
  <2> QED
    BY <2>1, <2>2, <2>3, <2>4, <2>5 DEF Step
<1> QED
  BY <1>1, <1>2
\* What is to be shown of the only report in progress.
ExactBut(t) ==
    /\ ReportExact(t)
    /\ \A ip \in IPs : ~Pending(t, ip) => Read(challenger_ip_db, ip, 0) = recent[ip] + credit[ip]

LEMMA OnlyReport ==
    ASSUME NEW t \in Threads, \A u \in Threads : u # t => pc[u] = "idle"
    PROVE  ExactBut(t) <=> (\A u \in Threads : ReportExact(u)) /\ (\A ip \in IPs : RecordExact(ip))
<1>1. \A u \in Threads : u # t => ReportExact(u) /\ \A ip \in IPs : ~Pending(u, ip)
  BY DEF ReportExact, Pending
<1> QED
  BY <1>1 DEF ExactBut, RecordExact

LEMMA HistoryTypes ==
    ASSUME TypeOK, NEW ip \in IPs
    PROVE  recent[ip] \in Nat /\ credit[ip] \in Nat
  BY DEF TypeOK

LEMMA StartExact ==
    ASSUME TypeOK, NEW t \in Threads, NEW ip \in IPs, NEW h \in Thresholds, ExactBut(t),
           ReportSuccess(t, ip) \/ ReportFailure(t, ip, h)
    PROVE  ExactBut(t)'
<1>1. /\ pc[t] = "idle" /\ UNCHANGED <<challenger_ip_db, recent, credit>>
      /\ \/ pc'[t] = "set" /\ call'[t].op = "success" /\ call'[t].count = 1
         \/ pc'[t] = "get" /\ call'[t].op = "failure"
  BY DEF ReportSuccess, ReportFailure, Start, Goto, SuccessCount, TypeOK, history
<1>2. \A i \in IPs : Read(challenger_ip_db, i, 0) = recent[i] + credit[i]
  BY <1>1 DEF ExactBut, Pending
<1>3. ReportExact(t)'
  BY <1>1 DEF ReportExact
<1>4. \A i \in IPs : Read(challenger_ip_db', i, 0) = recent'[i] + credit'[i]
  BY <1>1, <1>2
<1> QED
  BY <1>3, <1>4 DEF ExactBut

LEMMA TryExact ==
    ASSUME TypeOK, NEW t \in Threads, ExactBut(t), db_mutex = NoThread, Get(t) \/ Drop(t) \/ Set(t)
    PROVE  ExactBut(t)'
<1>1. /\ UNCHANGED <<challenger_ip_db, recent, credit, call>>
      /\ \/ pc[t] = "get" /\ pc'[t] = "get_held"
         \/ pc[t] = "drop" /\ pc'[t] = "drop_held"
         \/ pc[t] = "set" /\ pc'[t] = "set_held"
  BY DEF Get, Drop, Set, TryDb, Goto, TypeOK, history
<1>2. ReportExact(t)'
  BY <1>1 DEF ExactBut, ReportExact
<1>3. \A ip \in IPs : Pending(t, ip)' = Pending(t, ip)
  BY <1>1 DEF Pending
<1> QED
  BY <1>1, <1>2, <1>3 DEF ExactBut

LEMMA GetExact ==
    ASSUME TypeOK, NEW t \in Threads, ExactBut(t), GetHeld(t)
    PROVE  ExactBut(t)'
<1>1. PICK ip : ip = call[t].ip
  OBVIOUS
<1>2. PICK n : n = Increment(Read(challenger_ip_db, ip, 0))
  OBVIOUS
<1>3. ip \in IPs /\ recent[ip] \in Nat /\ credit[ip] \in Nat
  BY <1>1, CallFields, HistoryTypes DEF TypeOK
<1>4. pc[t] = "get_held" /\ call[t].op = "failure"
  BY DEF GetHeld, ExactBut, ReportExact
<1>5. n = recent[ip] + credit[ip] + 1 /\ n \in Nat
  <2>1. Read(challenger_ip_db, ip, 0) = recent[ip] + credit[ip]
    BY <1>3, <1>4 DEF ExactBut, Pending
  <2> QED
    BY <1>2, <1>3, <2>1 DEF Increment
<1>6. call'[t].ip = ip /\ call'[t].count = n /\ call'[t].op = "failure"
  BY <1>1, <1>2, <1>4, <1>5, CallCounted DEF GetHeld, TypeOK
<1>7. /\ challenger_ip_db' = challenger_ip_db /\ credit' = credit
      /\ recent' = [recent EXCEPT ![ip] = @ + 1] /\ pc'[t] \in {"ban", "set"}
  BY <1>1 DEF GetHeld, Goto, TypeOK
<1>8. recent'[ip] = recent[ip] + 1 /\ \A i \in IPs : i # ip => recent'[i] = recent[i]
  BY <1>3, <1>7 DEF TypeOK
<1>9. call'[t].count = recent'[ip] + credit'[ip]
  BY <1>3, <1>5, <1>6, <1>7, <1>8
<1>10. ReportExact(t)'
  BY <1>6, <1>7, <1>9 DEF ReportExact
<1>11. ASSUME NEW i \in IPs, ~Pending(t, i)'
       PROVE  Read(challenger_ip_db', i, 0) = recent'[i] + credit'[i]
  <2>1. i # ip
    BY <1>6, <1>7, <1>11 DEF Pending
  <2>2. Read(challenger_ip_db, i, 0) = recent[i] + credit[i]
    BY <1>4, <1>11 DEF ExactBut, Pending
  <2> QED
    BY <1>7, <1>8, <2>1, <2>2
<1> QED
  BY <1>10, <1>11 DEF ExactBut

LEMMA AskExact ==
    ASSUME TypeOK, NEW t \in Threads, ExactBut(t), AskBan(t)
    PROVE  ExactBut(t)'
<1>1. PICK ip : ip = call[t].ip
  OBVIOUS
<1>2. /\ pc[t] = "ban" /\ pc'[t] = "drop" /\ UNCHANGED <<challenger_ip_db, call>>
      /\ recent' = [recent EXCEPT ![ip] = 0] /\ credit' = [credit EXCEPT ![ip] = 0] /\ ip \in IPs
  BY <1>1, CallFields, Zenon DEF AskBan, Goto, TypeOK
<1>3. /\ recent'[ip] = 0 /\ credit'[ip] = 0
      /\ \A i \in IPs : i # ip => recent'[i] = recent[i] /\ credit'[i] = credit[i]
  BY <1>2 DEF TypeOK
<1>4. ReportExact(t)'
  BY <1>1, <1>2, <1>3 DEF ReportExact
<1> QED
  BY <1>1, <1>2, <1>3, <1>4 DEF ExactBut, Pending

LEMMA DropExact ==
    ASSUME TypeOK, NEW t \in Threads, ExactBut(t), DropHeld(t)
    PROVE  ExactBut(t)'
<1>1. PICK ip : ip = call[t].ip
  OBVIOUS
<1>2. /\ pc[t] = "drop_held" /\ pc'[t] = "idle" /\ UNCHANGED <<recent, credit, call>>
      /\ challenger_ip_db' = Erase(challenger_ip_db, ip) /\ ip \in IPs
      /\ recent[ip] = 0 /\ credit[ip] = 0
  BY <1>1, CallFields, Zenon DEF DropHeld, Goto, TypeOK, history, ExactBut, ReportExact
<1>3. /\ Read(challenger_ip_db', ip, 0) = 0
      /\ \A i \in IPs : i # ip => Read(challenger_ip_db', i, 0) = Read(challenger_ip_db, i, 0)
  BY <1>2 DEF Erase, Read
<1>4. \A i \in IPs : i # ip => ~Pending(t, i)
  BY <1>1 DEF Pending
<1>5. ReportExact(t)'
  BY <1>2 DEF ReportExact
<1>6. \A i \in IPs : Read(challenger_ip_db', i, 0) = recent'[i] + credit'[i]
  BY <1>2, <1>3, <1>4 DEF ExactBut
<1> QED
  BY <1>5, <1>6 DEF ExactBut

LEMMA SetExact ==
    ASSUME TypeOK, NEW t \in Threads, ExactBut(t), SetHeld(t)
    PROVE  ExactBut(t)'
<1>1. PICK ip : ip = call[t].ip
  OBVIOUS
<1>2. /\ pc[t] = "set_held" /\ pc'[t] = "idle" /\ UNCHANGED call /\ ip \in IPs
      /\ challenger_ip_db' = Write(challenger_ip_db, ip, call[t].count)
      /\ recent' = [recent EXCEPT ![ip] = IF call[t].op = "success" THEN 0 ELSE @]
      /\ credit' = [credit EXCEPT ![ip] = IF call[t].op = "success" THEN 1 ELSE @]
  BY <1>1, CallFields, Zenon DEF SetHeld, Goto, TypeOK
<1>3. /\ Read(challenger_ip_db', ip, 0) = call[t].count
      /\ \A i \in IPs : i # ip => Read(challenger_ip_db', i, 0) = Read(challenger_ip_db, i, 0)
  BY <1>2 DEF Write, Read
<1>4. /\ recent'[ip] = IF call[t].op = "success" THEN 0 ELSE recent[ip]
      /\ credit'[ip] = IF call[t].op = "success" THEN 1 ELSE credit[ip]
      /\ \A i \in IPs : i # ip => recent'[i] = recent[i] /\ credit'[i] = credit[i]
  BY <1>2 DEF TypeOK
<1>5. call[t].count = IF call[t].op = "success" THEN 1 ELSE recent[ip] + credit[ip]
  BY <1>1, <1>2 DEF ExactBut, ReportExact
<1>6. \A i \in IPs : i # ip => ~Pending(t, i)
  BY <1>1 DEF Pending
<1>7. ReportExact(t)'
  BY <1>2 DEF ReportExact
<1>8. Read(challenger_ip_db', ip, 0) = recent'[ip] + credit'[ip]
  BY <1>3, <1>4, <1>5
<1>9. \A i \in IPs : Read(challenger_ip_db', i, 0) = recent'[i] + credit'[i]
  BY <1>3, <1>4, <1>6, <1>8 DEF ExactBut
<1> QED
  BY <1>7, <1>9 DEF ExactBut

LEMMA ExactStep == TypeOK /\ ExactInvariant /\ [Next]_vars => ExactInvariant'
<1> SUFFICES ASSUME TypeOK, ExactInvariant, [Next]_vars PROVE ExactInvariant'
  OBVIOUS
<1>1. CASE UNCHANGED vars
  BY <1>1 DEF vars, history, ExactInvariant, Overlap, ReportExact, RecordExact, Pending
<1>2. ASSUME Next, ~overlapped'
      PROVE  ~Overlap' /\ (\A t \in Threads : ReportExact(t)') /\ (\A ip \in IPs : RecordExact(ip)')
  <2>1. ~overlapped /\ ~Overlap' /\ ThreadStep
    BY <1>2 DEF Next
  <2>2. PICK t \in Threads :
            /\ \/ \E ip \in IPs : ReportSuccess(t, ip) \/ \E h \in Thresholds : ReportFailure(t, ip, h)
               \/ Step(t)
            /\ pc[t] # "idle" \/ pc'[t] # "idle"
            /\ \A u \in Threads : u # t => pc'[u] = pc[u]
    BY <2>1, OneReport
  <2>3. \A u \in Threads : u # t => pc[u] = "idle" /\ pc'[u] = "idle"
    BY <1>2, <2>2, Alone
  <2>4. ExactBut(t)
    BY <2>1, <2>3, OnlyReport DEF ExactInvariant
  <2>5. ASSUME Get(t) \/ Drop(t) \/ Set(t) PROVE db_mutex = NoThread
    BY <2>3, <2>5 DEF Get, Drop, Set, ExactInvariant, Held
  <2>6. ExactBut(t)'
    <3>1. CASE Step(t)
      BY <2>4, <2>5, <3>1, TryExact, GetExact, AskExact, DropExact, SetExact DEF Step
    <3>2. CASE \E ip \in IPs : ReportSuccess(t, ip) \/ \E h \in Thresholds : ReportFailure(t, ip, h)
      BY <2>4, <3>2, StartExact, FailureAssumption, Zenon
    <3> QED
      BY <2>2, <3>1, <3>2
  <2>7. (\A u \in Threads : ReportExact(u)') /\ (\A ip \in IPs : RecordExact(ip)')
    <3>1. \A u \in Threads : u # t => ReportExact(u)' /\ \A ip \in IPs : ~Pending(u, ip)'
      BY <2>3 DEF ReportExact, Pending
    <3> QED
      BY <2>6, <3>1 DEF ExactBut, RecordExact
  <2> QED
    BY <2>1, <2>7
<1> QED
  BY <1>1, <1>2, MutexStep DEF ExactInvariant

\* As long as reports come one at a time, the record of every address holds
\* the failures since its last ban or success, and one for the success: the
\* counter that report_failure and report_success are meant to keep.
THEOREM CountIsExact == Spec => []CountExact
<1>1. Init => ExactInvariant
  <2> SUFFICES ASSUME Init PROVE ExactInvariant
    OBVIOUS
  <2>1. \A ip \in IPs : Read(challenger_ip_db, ip, 0) = 0 /\ recent[ip] = 0 /\ credit[ip] = 0
    BY DEF Init, EmptyDb, Read
  <2>2. db_mutex = NoThread /\ \A t \in Threads : pc[t] = "idle"
    BY DEF Init
  <2> QED
    BY <2>1, <2>2 DEF ExactInvariant, Overlap, ReportExact, RecordExact
<1>2. ExactInvariant => CountExact
  BY DEF ExactInvariant, CountExact, RecordExact, Pending
<1> QED
  BY <1>1, <1>2, ExactStep, CountsAreEarned, PTL DEF Spec
=============================================================================
