---------------------------- MODULE FailureCount ----------------------------
(***************************************************************************)
(* How Challenger counts failed challenges per ip (report_failure) and     *)
(* resets the count (report_success), on event threads that run without    *)
(* synchronisation other than the try-lock of the database.  The call of   *)
(* Swabber::ban is the Ask of BanService.  One count per ip is shared by   *)
(* all challenges, each of which has its own threshold.                    *)
(***************************************************************************)
EXTENDS Naturals, Sequences, IpDb

CONSTANTS Threads, NoThread, IPs,
          Thresholds,  \* no_of_fails_to_ban of the challenges, 0 excluded
          MaxCalls     \* bound on the number of reports

ASSUME FailureAssumption ==
    /\ IPs # {} /\ NoThread \notin Threads
    /\ Thresholds \subseteq Nat \ {0} /\ Thresholds # {}
    /\ MaxCalls \in Nat

VARIABLES
    challenger_ip_db, \* ip -> number of failures
    db_mutex,         \* IpDb::_mutex of challenger_ip_db
    pc, call,         \* per thread: next statement, and the report's locals
    failures,         \* history: failures[ip] ever counted by report_failure
    recent,           \* history: the same since the last ban or success
    solved,           \* history: 1 if a success of the ip was ever recorded, else 0
    credit,           \* history: 1 if the last reset was a success, else 0
    bans,             \* history: the bans asked for, with failures and solved
    calls,            \* number of reports
    overlapped        \* history: were two reports ever in progress at once?

history == <<failures, recent, solved, credit, bans>>
vars == <<challenger_ip_db, db_mutex, pc, call, history, calls, overlapped>>

Held == {"get_held", "set_held", "drop_held"}
Pc == {"idle", "get", "ban", "set", "drop"} \cup Held
Ban == [ip : IPs, threshold : Thresholds, failures : Nat, solved : {0, 1}]
Call == [ip : IPs, threshold : Thresholds, count : Nat, op : {"failure", "success"}]

Init == /\ challenger_ip_db = EmptyDb
        /\ db_mutex = NoThread
        /\ pc = [t \in Threads |-> "idle"]
        /\ \E ip \in IPs, h \in Thresholds : call = [t \in Threads |->
               [ip |-> ip, threshold |-> h, count |-> 0, op |-> "failure"]]
        /\ failures = [ip \in IPs |-> 0]
        /\ recent = [ip \in IPs |-> 0]
        /\ solved = [ip \in IPs |-> 0]
        /\ credit = [ip \in IPs |-> 0]
        /\ bans = << >>
        /\ calls = 0
        /\ overlapped = FALSE

Goto(t, statement) == pc' = [pc EXCEPT ![t] = statement]

\* TSMutexLockTry on the database; a failed try ends the report.
TryDb(t, held) ==
    /\ \/ db_mutex = NoThread /\ db_mutex' = t /\ Goto(t, held)
       \/ db_mutex # NoThread /\ Goto(t, "idle") /\ UNCHANGED db_mutex
    /\ UNCHANGED <<challenger_ip_db, call, history, calls>>

Start(t, locals, statement) ==
    /\ pc[t] = "idle" /\ calls < MaxCalls
    /\ calls' = calls + 1
    /\ call' = [call EXCEPT ![t] = locals]
    /\ Goto(t, statement)
    /\ UNCHANGED <<challenger_ip_db, db_mutex, history>>

-----------------------------------------------------------------------------
\* A challenge with threshold h failed (the callers do not report failures of
\* a challenge whose threshold is 0).
ReportFailure(t, ip, h) ==
    Start(t, [ip |-> ip, threshold |-> h, count |-> 0, op |-> "failure"], "get")

Get(t) == pc[t] = "get" /\ TryDb(t, "get_held")

\* The failures after this one, and whether they are too many.
IncrementTwice(count) == count + 2
Increment(count) == count + 1
TooMany(count, h) == count >= h

GetHeld(t) ==
    LET ip == call[t].ip
        n == Increment(Read(challenger_ip_db, ip, 0))
    IN  /\ pc[t] = "get_held"
        /\ call' = [call EXCEPT ![t].count = n]
        /\ db_mutex' = NoThread
        /\ failures' = [failures EXCEPT ![ip] = @ + 1]
        /\ recent' = [recent EXCEPT ![ip] = @ + 1]
        /\ Goto(t, IF TooMany(n, call[t].threshold) THEN "ban" ELSE "set")
        /\ UNCHANGED <<challenger_ip_db, solved, credit, bans, calls>>

\* swabber->ban: whatever becomes of the request, the count is dropped next.
AskBan(t) ==
    LET ip == call[t].ip
    IN  /\ pc[t] = "ban"
        /\ bans' = Append(bans, [ip |-> ip, threshold |-> call[t].threshold,
                                 failures |-> failures[ip],
                                 solved |-> solved[ip]])
        /\ recent' = [recent EXCEPT ![ip] = 0]
        /\ credit' = [credit EXCEPT ![ip] = 0]
        /\ Goto(t, "drop")
        /\ UNCHANGED <<challenger_ip_db, db_mutex, call, failures, solved, calls>>

Drop(t) == pc[t] = "drop" /\ TryDb(t, "drop_held")

DropHeld(t) ==
    /\ pc[t] = "drop_held"
    /\ challenger_ip_db' = Erase(challenger_ip_db, call[t].ip)
    /\ db_mutex' = NoThread
    /\ Goto(t, "idle")
    /\ UNCHANGED <<call, history, calls>>

-----------------------------------------------------------------------------
\* report_success stores a count of 1.
SuccessCountTwo == 2
SuccessCount == 1

ReportSuccess(t, ip) ==
    Start(t, [ip |-> ip, threshold |-> call[t].threshold,
              count |-> SuccessCount, op |-> "success"], "set")

\* The result of set_ip_state is ignored by both callers.
Set(t) == pc[t] = "set" /\ TryDb(t, "set_held")

SetHeld(t) ==
    LET ip == call[t].ip
        success == call[t].op = "success"
    IN  /\ pc[t] = "set_held"
        /\ challenger_ip_db' = Write(challenger_ip_db, ip, call[t].count)
        /\ db_mutex' = NoThread
        /\ recent' = [recent EXCEPT ![ip] = IF success THEN 0 ELSE @]
        /\ credit' = [credit EXCEPT ![ip] = IF success THEN 1 ELSE @]
        /\ solved' = [solved EXCEPT ![ip] = IF success THEN 1 ELSE @]
        /\ Goto(t, "idle")
        /\ UNCHANGED <<call, failures, bans, calls>>

-----------------------------------------------------------------------------
Step(t) == \/ Get(t) \/ GetHeld(t) \/ AskBan(t) \/ Drop(t) \/ DropHeld(t)
           \/ Set(t) \/ SetHeld(t)

ThreadStep == \E t \in Threads :
                 \/ \E ip \in IPs : \/ ReportSuccess(t, ip)
                                    \/ \E h \in Thresholds : ReportFailure(t, ip, h)
                 \/ Step(t)

Overlap == \E t, u \in Threads : t # u /\ pc[t] # "idle" /\ pc[u] # "idle"

Next == ThreadStep /\ overlapped' = (overlapped \/ Overlap')

Spec == Init /\ [][Next]_vars

-----------------------------------------------------------------------------
\* The types of the database, the mutex, the locals and the history.
TypeOK ==
    /\ DOMAIN challenger_ip_db \subseteq IPs
    /\ challenger_ip_db \in [DOMAIN challenger_ip_db -> Nat \ {0}]
    /\ db_mutex \in Threads \cup {NoThread}
    /\ pc \in [Threads -> Pc]
    /\ call \in [Threads -> Call]
    /\ failures \in [IPs -> Nat] /\ recent \in [IPs -> Nat]
    /\ solved \in [IPs -> {0, 1}] /\ credit \in [IPs -> {0, 1}]
    /\ bans \in Seq(Ban)
    /\ calls \in Nat
    /\ overlapped \in BOOLEAN

\* No client is punished for nothing: however the reports of all threads
\* interleave (lost updates, stale writes, failed try-locks), an ip that
\* report_failure asks to ban failed a challenge at least threshold times in
\* all, or threshold - 1 times and solved one.
BanNeedsFailures ==
    \A i \in DOMAIN bans :
        bans[i].failures + bans[i].solved >= bans[i].threshold

\* What makes it so: neither a record nor a count that some thread is about to
\* write or to ban for exceeds the failures counted, plus one for a success.
Earned(ip) == failures[ip] + solved[ip]

CountEarned(t) ==
    /\ pc[t] \in {"set", "set_held"} =>
           /\ call[t].count > 0
           /\ \/ call[t].op = "success" /\ call[t].count = 1
              \/ /\ call[t].count < call[t].threshold
                 /\ call[t].count <= Earned(call[t].ip)
    /\ pc[t] = "ban" =>
           /\ call[t].threshold <= call[t].count
           /\ call[t].count <= Earned(call[t].ip)

CountsEarned ==
    /\ \A ip \in IPs : Read(challenger_ip_db, ip, 0) <= Earned(ip)
    /\ \A t \in Threads : CountEarned(t)

\* As long as reports come one at a time the database is the counter the code
\* wants: between two reports it holds the failures since the last ban or
\* success, plus the one that report_success leaves behind.
CountExact ==
    ~overlapped /\ (\A t \in Threads : pc[t] = "idle") =>
        \A ip \in IPs : Read(challenger_ip_db, ip, 0) = recent[ip] + credit[ip]

\* A record that reaches every threshold is never stored, so the ip's next
\* counted failure of the most tolerant challenge is still needed to ban it
\* (a success stores 1 even where 1 failure is too many).
RecordBelowThreshold ==
    \A ip \in IPs : LET n == Read(challenger_ip_db, ip, 0)
                    IN  n <= 1 \/ \E h \in Thresholds : n < h
=============================================================================
