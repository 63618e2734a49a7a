------------------------------ MODULE Swabber -------------------------------
(***************************************************************************)
(* Swabber::ban and Swabber::release_socket, with Denialator, the filter   *)
(* that reads and writes the same ip database.  Threads are Traffic Server *)
(* event threads, each in at most one handler.  A thread's pc names the    *)
(* next statement of its handler; one action is the code between two       *)
(* points where another thread can observe or change shared state, that    *)
(* is, an attempt on a mutex or the critical section behind it.            *)
(***************************************************************************)
EXTENDS Naturals, Sequences, IpDb

CONSTANTS Threads,      \* event threads that run the filters
          NoThread,     \* the owner of a free mutex
          Reloader,     \* the thread that reloads the configuration
          IPs,          \* client addresses
          WhiteListed,  \* the global white list
          GracePeriod,  \* grace_period of the configuration, in seconds
          MaxTime,      \* bound on the clock
          MaxCalls      \* bound on the number of handlers started

ASSUME SwabberAssumption ==
    /\ IPs # {} /\ WhiteListed \subseteq IPs
    /\ GracePeriod \in Nat
    /\ MaxTime \in Nat
    /\ MaxCalls \in Nat
    /\ NoThread \notin Threads \cup {Reloader}
    /\ Reloader \notin Threads

VARIABLES
    clock,         \* gettimeofday, in seconds
    asked,         \* history: asked[ip] is every call of ban(ip), with its time
    wire,          \* history: ips sent on the socket, in order
    ban_ip_list,   \* the log file: a sequence of [ip, line]
    swabber_ip_db, \* ip -> time of the request that flagged it
    db_mutex,      \* IpDb::_mutex of swabber_ip_db
    swabber_mutex, \* guards the socket
    socket,        \* "bound", "unbound", or "null" once released
    pc, call,      \* per thread: next statement, and the handler's locals
    reply,         \* per thread: what Denialator answered to its last request
    calls,         \* number of handlers started
    overlapped     \* history: were two handlers ever in progress at once?

shared == <<clock, asked, wire, ban_ip_list, swabber_ip_db, socket>>
mutexes == <<db_mutex, swabber_mutex>>
program == <<shared, mutexes, pc, call, reply, calls>>
vars == <<program, overlapped>>

Requester == {"filter", "denialator"}
Line == {"flagged", "banned"}

\* Statements of Swabber::ban, in order, and of Denialator::on_http_request.
BanPc == {"enter", "get", "get_held", "set", "set_held", "flag", "lock",
          "lock_held", "send", "drop", "drop_held"}
DenialatorPc == {"deny_get", "deny_get_held", "deny_check"}

\* Statements at which a thread owns a mutex.
DbHeld == {"get_held", "set_held", "drop_held", "deny_get_held"}
SocketHeld == {"lock_held", "send"}

-----------------------------------------------------------------------------
\* The constructor and load_config have run before the first request: the
\* database is empty, and binding the socket may have failed.
Init == /\ clock = 1
        /\ asked = [ip \in IPs |-> {}]
        /\ wire = << >>
        /\ ban_ip_list = << >>
        /\ swabber_ip_db = EmptyDb
        /\ db_mutex = NoThread
        /\ swabber_mutex = NoThread
        /\ socket \in {"bound", "unbound"}
        /\ pc = [t \in Threads \cup {Reloader} |-> "idle"]
        /\ \E ip \in IPs : call = [t \in Threads |->
               [ip |-> ip, who |-> "filter", now |-> 0, state |-> 0]]
        /\ reply = [t \in Threads |-> "none"]
        /\ calls = 0
        /\ overlapped = FALSE

Goto(t, statement) == pc' = [pc EXCEPT ![t] = statement]

\* TSMutexLockTry on the database: go on with the mutex, or take the failure
\* path that the caller chose.
TryDb(t, held, failed) ==
    /\ \/ /\ db_mutex = NoThread
          /\ db_mutex' = t
          /\ Goto(t, held)
          /\ UNCHANGED reply
       \/ /\ db_mutex # NoThread
          /\ UNCHANGED db_mutex
          /\ failed
    /\ UNCHANGED <<shared, swabber_mutex, call, calls>>

\* ban is void: its caller continues the same way whatever happened.  Here
\* Denialator denies; what the other filters answer is modelled with them.
Return(t) ==
    /\ Goto(t, "idle")
    /\ reply' = [reply EXCEPT ![t] = IF call[t].who = "denialator"
                                     THEN "deny" ELSE @]

-----------------------------------------------------------------------------
\* A handler starts on an idle thread.
Start(t, ip, who, statement, answer) ==
    /\ pc[t] = "idle" /\ calls < MaxCalls
    /\ calls' = calls + 1
    /\ call' = [call EXCEPT ![t] =
                   [ip |-> ip, who |-> who, now |-> 0, state |-> 0]]
    /\ reply' = [reply EXCEPT ![t] = answer]
    /\ Goto(t, statement)
    /\ UNCHANGED <<shared, mutexes>>

\* A filter (RegexManager or Challenger) decides to ban the client.
CallBan(t, ip) == Start(t, ip, "filter", "enter", "none")

\* Read the time, then skip the grace logic when there is no grace period.
Enter(t) ==
    /\ pc[t] = "enter"
    /\ call' = [call EXCEPT ![t].now = clock]
    /\ asked' = [asked EXCEPT ![call[t].ip] =
                    @ \cup {[at |-> clock, who |-> call[t].who]}]
    /\ Goto(t, IF GracePeriod > 0 THEN "get" ELSE "lock")
    /\ UNCHANGED <<clock, wire, ban_ip_list, swabber_ip_db, socket, mutexes,
                   reply, calls>>

\* No lock on the database: the request to ban is forgotten.
Get(t) == pc[t] = "get" /\ TryDb(t, "get_held", Return(t))

\* Nobody has asked to ban the ip since it was last forgiven.
FirstRequest(state) == state = 0

\* The time since the flag has reached the grace period.
GraceOverEarly(now, flag) == now + 1 >= flag + GracePeriod
GraceOver(now, flag) == now >= flag + GracePeriod

\* The first request records its time; a later one goes on only if the
\* grace period is over.
GetHeld(t) ==
    /\ pc[t] = "get_held"
    /\ db_mutex' = NoThread
    /\ LET s == Read(swabber_ip_db, call[t].ip, 0) IN
       \/ /\ FirstRequest(s)
          /\ call' = [call EXCEPT ![t].state = call[t].now]
          /\ Goto(t, "set")
          /\ UNCHANGED reply
       \/ /\ ~FirstRequest(s)
          /\ call' = [call EXCEPT ![t].state = s]
          /\ \/ ~GraceOver(call[t].now, s) /\ Return(t)
             \/ GraceOver(call[t].now, s) /\ Goto(t, "lock") /\ UNCHANGED reply
    /\ UNCHANGED <<shared, swabber_mutex, calls>>

\* The result of set_ip_state is ignored: the line is logged either way.
Set(t) ==
    pc[t] = "set" /\ TryDb(t, "set_held", Goto(t, "flag") /\ UNCHANGED reply)

SetHeld(t) ==
    /\ pc[t] = "set_held"
    /\ swabber_ip_db' = Write(swabber_ip_db, call[t].ip, call[t].state)
    /\ db_mutex' = NoThread
    /\ Goto(t, "flag")
    /\ UNCHANGED <<clock, asked, wire, ban_ip_list, socket, swabber_mutex,
                   call, reply, calls>>

\* Log the line; now - state is 0, less than the grace period, so return.
Flag(t) ==
    /\ pc[t] = "flag"
    /\ ban_ip_list' = Append(ban_ip_list, [ip |-> call[t].ip, line |-> "flagged"])
    /\ Return(t)
    /\ UNCHANGED <<clock, asked, wire, swabber_ip_db, socket, mutexes, call,
                   calls>>

-----------------------------------------------------------------------------
\* Try the socket's mutex; on failure the ban is not sent.
Lock(t) ==
    /\ pc[t] = "lock"
    /\ \/ /\ swabber_mutex = NoThread
          /\ swabber_mutex' = t
          /\ Goto(t, "lock_held")
          /\ UNCHANGED reply
       \/ /\ swabber_mutex # NoThread
          /\ Return(t)
          /\ UNCHANGED swabber_mutex
    /\ UNCHANGED <<shared, db_mutex, call, calls>>

\* The socket has been released, and this interface with it.
DeactivatedNever == FALSE
Deactivated == socket = "null"

\* The unlock at the end of the scope, on every path out of it.
UnlockSocketForgotten == UNCHANGED swabber_mutex
UnlockSocket == swabber_mutex' = NoThread

\* Bind the socket if it is not bound yet; a released socket, or one that
\* cannot be bound, ends the call.
LockHeld(t) ==
    /\ pc[t] = "lock_held"
    /\ \/ /\ ~Deactivated
          /\ socket' = "bound"
          /\ Goto(t, "send")
          /\ UNCHANGED <<swabber_mutex, reply>>
       \/ /\ Deactivated \/ socket = "unbound"
          /\ UnlockSocket
          /\ Return(t)
          /\ UNCHANGED socket
    /\ UNCHANGED <<clock, asked, wire, ban_ip_list, swabber_ip_db, db_mutex,
                   call, calls>>

\* The two-part message, the log line, and the unlock at the end of the scope.
Send(t) ==
    /\ pc[t] = "send"
    /\ wire' = Append(wire, call[t].ip)
    /\ ban_ip_list' = Append(ban_ip_list, [ip |-> call[t].ip, line |-> "banned"])
    /\ UnlockSocket
    /\ Goto(t, "drop")
    /\ UNCHANGED <<clock, asked, swabber_ip_db, socket, db_mutex, call, reply,
                   calls>>

\* Forgive the ip; without the lock the flag stays.
Drop(t) == pc[t] = "drop" /\ TryDb(t, "drop_held", Return(t))

DropHeld(t) ==
    /\ pc[t] = "drop_held"
    /\ swabber_ip_db' = Erase(swabber_ip_db, call[t].ip)
    /\ db_mutex' = NoThread
    /\ Return(t)
    /\ UNCHANGED <<clock, asked, wire, ban_ip_list, socket, swabber_mutex,
                   call, calls>>

-----------------------------------------------------------------------------
\* Denialator::on_http_request.  The global white list is let through before
\* the database is looked at.
RequestWhiteListed(t, ip) ==
    ip \in WhiteListed /\ Start(t, ip, "denialator", "idle", "go_ahead")

Request(t, ip) ==
    ip \notin WhiteListed /\ Start(t, ip, "denialator", "deny_get", "none")

GoAhead(t) == Goto(t, "idle") /\ reply' = [reply EXCEPT ![t] = "go_ahead"]

DenyGet(t) == pc[t] = "deny_get" /\ TryDb(t, "deny_get_held", GoAhead(t))

\* The ip has an entry in the database.
FlaggedAlways(state) == TRUE
Flagged(state) == state # 0

DenyGetHeld(t) ==
    /\ pc[t] = "deny_get_held"
    /\ db_mutex' = NoThread
    /\ LET s == Read(swabber_ip_db, call[t].ip, 0) IN
       /\ call' = [call EXCEPT ![t].state = s]
       /\ \/ ~Flagged(s) /\ GoAhead(t)
          \/ Flagged(s) /\ Goto(t, "deny_check") /\ UNCHANGED reply
    /\ UNCHANGED <<shared, swabber_mutex, calls>>

\* Read the time; after the grace period ask for the ban, and deny anyway.
DenyCheck(t) ==
    /\ pc[t] = "deny_check"
    /\ \/ GraceOver(clock, call[t].state) /\ Goto(t, "enter") /\ UNCHANGED reply
       \/ ~GraceOver(clock, call[t].state) /\ Return(t)
    /\ UNCHANGED <<shared, mutexes, call, calls>>

-----------------------------------------------------------------------------
\* The mutex that release_socket waits for.
SocketFree == swabber_mutex = NoThread

\* release_socket waits for the mutex, and moves the socket out.
ReleaseLock == /\ pc[Reloader] = "idle"
               /\ SocketFree
               /\ swabber_mutex' = Reloader
               /\ Goto(Reloader, "release")
               /\ UNCHANGED <<shared, db_mutex, call, reply, calls>>

ReleaseSocket == /\ pc[Reloader] = "release"
                 /\ socket' = "null"
                 /\ swabber_mutex' = NoThread
                 /\ Goto(Reloader, "released")
                 /\ UNCHANGED <<clock, asked, wire, ban_ip_list, swabber_ip_db,
                                db_mutex, call, reply, calls>>

Tick == /\ clock < MaxTime
        /\ clock' = clock + 1
        /\ UNCHANGED <<asked, wire, ban_ip_list, swabber_ip_db, socket, mutexes,
                       pc, call, reply, calls>>

-----------------------------------------------------------------------------
BanStep(t) ==
    \/ Enter(t) \/ Get(t) \/ GetHeld(t) \/ Set(t) \/ SetHeld(t) \/ Flag(t)
    \/ Lock(t) \/ LockHeld(t) \/ Send(t) \/ Drop(t) \/ DropHeld(t)

DenialatorStep(t) == DenyGet(t) \/ DenyGetHeld(t) \/ DenyCheck(t)

Release == ReleaseLock \/ ReleaseSocket

ProgramStep ==
    \/ \E t \in Threads : \/ \E ip \in IPs : \/ CallBan(t, ip) \/ Request(t, ip)
                                             \/ RequestWhiteListed(t, ip)
                          \/ BanStep(t)
                          \/ DenialatorStep(t)
    \/ Release
    \/ Tick

Overlap == \E t, u \in Threads : t # u /\ pc[t] # "idle" /\ pc[u] # "idle"

Next == ProgramStep /\ overlapped' = (overlapped \/ Overlap')

Spec == Init /\ [][Next]_vars

\* Traffic Server keeps running a handler that has started, and the reload
\* that releases the socket; nothing makes requests arrive or time pass.
Fairness == /\ \A t \in Threads : WF_program(BanStep(t) \/ DenialatorStep(t))
            /\ WF_program(Release)

-----------------------------------------------------------------------------
Call == [ip : IPs, who : Requester, now : Nat, state : Nat]

\* Every variable has its type: in particular a flag is never the 0 that
\* stands for "no entry".
TypeOK ==
    /\ clock \in Nat \ {0}
    /\ asked \in [IPs -> SUBSET [at : Nat \ {0}, who : Requester]]
    /\ wire \in Seq(IPs)
    /\ ban_ip_list \in Seq([ip : IPs, line : Line])
    /\ DOMAIN swabber_ip_db \subseteq IPs
    /\ swabber_ip_db \in [DOMAIN swabber_ip_db -> Nat \ {0}]
    /\ db_mutex \in Threads \cup {NoThread}
    /\ swabber_mutex \in Threads \cup {Reloader, NoThread}
    /\ socket \in {"bound", "unbound", "null"}
    /\ pc \in [Threads \cup {Reloader} ->
              BanPc \cup DenialatorPc \cup {"idle", "release", "released"}]
    /\ call \in [Threads -> Call]
    /\ reply \in [Threads -> {"none", "go_ahead", "deny"}]
    /\ calls \in Nat
    /\ overlapped \in BOOLEAN

\* Two requests to ban ip, the second at least the grace period later.
Justified(ip) == \E a, b \in asked[ip] : a.at + GracePeriod <= b.at

\* "It only bans if it gets another ban request (from any filter) after grace
\* period ends" (swabber.h): whatever the threads interleave, no ip is sent
\* to swabber without two requests that far apart.
DeliveredBansJustified == \A i \in DOMAIN wire : Justified(wire[i])

\* Some filter other than Denialator asked to ban ip.
FilterAsked(ip) == \E a \in asked[ip] : a.who = "filter"

\* Denialator repeats requests, it does not invent them: it denies an ip only
\* if some other filter once asked to ban it, even when its own ban() flags
\* the ip anew because another thread has just dropped the flag.
DenialNeedsFilter ==
    \A t \in Threads : reply[t] = "deny" => FilterAsked(call[t].ip)

\* ban_ip_list.log is as README.md has it: an ip is flagged once, its later
\* requests leave no line until it is banned, and between two bans it is
\* flagged again, because a ban forgives it (with a grace period).  It holds as
\* long as handlers run one at a time: ban() reads and writes the flag in two
\* critical sections.
Other(line) == IF line = "flagged" THEN "banned" ELSE "flagged"
LogAlternates ==
    ~overlapped =>
        \A i, j \in DOMAIN ban_ip_list :
            /\ i < j /\ ban_ip_list[i] = ban_ip_list[j]
            /\ GracePeriod > 0 \/ ban_ip_list[i].line = "flagged"
            => \E k \in i..j : ban_ip_list[k] = [ban_ip_list[i] EXCEPT !.line = Other(@)]

\* A mutex is owned exactly by the thread inside its critical section.
MutexesHeld ==
    /\ \A t \in Threads :
          /\ pc[t] \notin {"release", "released"}
          /\ (pc[t] \in DbHeld) <=> (db_mutex = t)
          /\ (pc[t] \in SocketHeld) <=> (swabber_mutex = t)
    /\ pc[Reloader] \in {"idle", "release", "released"}
    /\ (pc[Reloader] = "release") <=> (swabber_mutex = Reloader)

\* Every flag is the time of a request, and some filter asked for the ban.
FlagsAsked ==
    \A ip \in DOMAIN swabber_ip_db :
        /\ FilterAsked(ip)
        /\ \E a \in asked[ip] : a.at = swabber_ip_db[ip]

\* What ban() has established at each of its statements, whatever the other
\* threads did to the database and the socket meanwhile: its own request is
\* recorded, the flag it stores is the time of that request, past the grace
\* test the ban is justified, and at the send the socket is still there.
BanSound(t) ==
    /\ pc[t] \in BanPc \ {"enter"} =>
          /\ FilterAsked(call[t].ip)
          /\ \E b \in asked[call[t].ip] : b.at = call[t].now
    /\ pc[t] \in {"enter", "deny_check"} /\ call[t].who = "denialator" =>
          FilterAsked(call[t].ip)
    /\ pc[t] \in {"set", "set_held", "flag"} => call[t].state = call[t].now
    /\ pc[t] \in {"lock", "lock_held", "send"} => Justified(call[t].ip)
    /\ pc[t] = "send" => socket = "bound"

\* The inductive invariant: mutual exclusion, flags that stem from requests,
\* and threads whose locals still mean what they meant when they were read.
BanInvariant == MutexesHeld /\ FlagsAsked /\ \A t \in Threads : BanSound(t)

\* "any bans done from that point will not send anything" (swabber.h, on
\* release_socket), including bans already past every test of ban().
NoSendAfterRelease ==
    [][socket = "null" => wire' = wire /\ socket' = "null"]_vars

\* A reload never hangs on the old interface: every path of ban() that takes
\* the socket's mutex gives it back, so release_socket gets it.
ReleaseCompletes == <>(pc[Reloader] = "released")

\* The swabber interface implements the ban service.
Service == INSTANCE BanService WITH open <- socket # "null"
ImplementsBanService == Service!Spec
=============================================================================
