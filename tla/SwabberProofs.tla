--------------------------- MODULE SwabberProofs ----------------------------
(***************************************************************************)
(* Proofs about the swabber interface, for every number of threads, every  *)
(* set of ips, every grace period and every bound.                         *)
(***************************************************************************)
EXTENDS Swabber, TLAPS

\* What a thread reads from the database is 0 or the time of a flag.
LEMMA ReadTyping ==
    ASSUME TypeOK, NEW ip \in IPs
    PROVE  Read(swabber_ip_db, ip, 0) \in Nat
  BY DEF TypeOK, Read

\* The locals of a thread keep their type when one of them, or all of them,
\* are assigned.
LEMMA CallUpdate ==
    ASSUME NEW f \in [Threads -> Call], NEW t \in Threads, NEW n \in Nat
    PROVE  /\ [f EXCEPT ![t].now = n] \in [Threads -> Call]
           /\ [f EXCEPT ![t].state = n] \in [Threads -> Call]
  BY DEF Call

LEMMA CallFields ==
    ASSUME NEW f \in [Threads -> Call], NEW t \in Threads
    PROVE  /\ f[t].ip \in IPs
           /\ f[t].who \in Requester
           /\ f[t].now \in Nat
           /\ f[t].state \in Nat
  BY DEF Call

LEMMA CallAssigned ==
    ASSUME NEW f \in [Threads -> Call], NEW t \in Threads, NEW n
    PROVE  /\ [f EXCEPT ![t].now = n][t].ip = f[t].ip
           /\ [f EXCEPT ![t].now = n][t].now = n
           /\ [f EXCEPT ![t].state = n][t].ip = f[t].ip
           /\ [f EXCEPT ![t].state = n][t].who = f[t].who
           /\ [f EXCEPT ![t].state = n][t].now = f[t].now
           /\ [f EXCEPT ![t].state = n][t].state = n
  BY DEF Call

LEMMA NewCall ==
    ASSUME NEW ip \in IPs, NEW w \in Requester
    PROVE  [ip |-> ip, who |-> w, now |-> 0, state |-> 0] \in Call
  BY DEF Call

LEMMA TypeStep == TypeOK /\ BanInvariant /\ [Next]_vars => TypeOK'
<1> SUFFICES ASSUME TypeOK, BanInvariant, [Next]_vars PROVE TypeOK'
  OBVIOUS
<1>0. overlapped' \in BOOLEAN
  BY Zenon DEF Next, Overlap, TypeOK, vars
<1> USE <1>0, SwabberAssumption DEF TypeOK, Requester, Line, BanPc, DenialatorPc
<1> USE DEF shared, mutexes, Goto, UnlockSocket
<1>1. ASSUME NEW t \in Threads, NEW ip \in IPs, CallBan(t, ip) PROVE TypeOK'
  <2>1. [ip |-> ip, who |-> "filter", now |-> 0, state |-> 0] \in Call
    BY NewCall, Zenon
  <2>2. call' \in [Threads -> Call]
    BY <1>1, <2>1 DEF CallBan, Start
  <2> QED
    BY <1>1, <2>2 DEF CallBan, Start
<1>2. ASSUME NEW t \in Threads, Enter(t) PROVE TypeOK'
  <2> DEFINE Req == [at : Nat \ {0}, who : Requester]
             r == [at |-> clock, who |-> call[t].who]
  <2>1. r \in Req
    BY CallFields
  <2>2. asked' \in [IPs -> SUBSET Req]
    <3>1. asked \in [IPs -> SUBSET Req] /\ call[t].ip \in IPs
      BY CallFields, SMTT(30)
    <3>2. asked' = [asked EXCEPT ![call[t].ip] = @ \cup {r}]
      BY <1>2 DEF Enter
    <3> HIDE DEF Req, r, TypeOK
    <3> QED
      BY <2>1, <3>1, <3>2
  <2>3. call' \in [Threads -> Call]
    BY <1>2, CallUpdate, Zenon DEF Enter
  <2> QED
    BY <1>2, <2>2, <2>3 DEF Enter
<1>3. ASSUME NEW t \in Threads, Get(t) PROVE TypeOK'
  BY <1>3, Zenon DEF Get, TryDb, Return
<1>4. ASSUME NEW t \in Threads, GetHeld(t) PROVE TypeOK'
  <2> DEFINE s == Read(swabber_ip_db, call[t].ip, 0)
  <2>1. s \in Nat
    BY ReadTyping, CallFields
  <2> HIDE DEF s
  <2>2. call' \in [Threads -> Call]
    <3>1. call[t].now \in Nat
      BY CallFields, SMTT(30)
    <3>2. \/ call' = [call EXCEPT ![t].state = call[t].now]
          \/ call' = [call EXCEPT ![t].state = s]
      BY <1>4 DEF GetHeld, s
    <3>3. /\ [call EXCEPT ![t].state = call[t].now] \in [Threads -> Call]
          /\ [call EXCEPT ![t].state = s] \in [Threads -> Call]
      BY <2>1, <3>1, CallUpdate, Zenon
    <3> QED
      BY <3>2, <3>3, Zenon
  <2> QED
    BY <1>4, <2>2, Zenon DEF GetHeld, Return, s
<1>5. ASSUME NEW t \in Threads, Set(t) PROVE TypeOK'
  BY <1>5, Zenon DEF Set, TryDb
<1>6. ASSUME NEW t \in Threads, SetHeld(t) PROVE TypeOK'
  <2>1. /\ call[t].ip \in IPs
        /\ call[t].state = call[t].now
        /\ \E b \in asked[call[t].ip] : b.at = call[t].now
    BY <1>6, CallFields, Zenon DEF SetHeld, BanInvariant, BanSound
  <2>2. call[t].state \in Nat \ {0}
    BY <2>1
  <2> QED
    BY <1>6, <2>2, CallFields, Zenon DEF SetHeld, Write
<1>7. ASSUME NEW t \in Threads, Flag(t) PROVE TypeOK'
  <2>1. call[t].ip \in IPs
    BY CallFields
  <2>2. ban_ip_list' \in Seq([ip : IPs, line : Line])
    BY <1>7, <2>1 DEF Flag
  <2> QED
    BY <1>7, <2>2 DEF Flag, Return
<1>8. ASSUME NEW t \in Threads, Lock(t) PROVE TypeOK'
  BY <1>8, Zenon DEF Lock, Return
<1>9. ASSUME NEW t \in Threads, LockHeld(t) PROVE TypeOK'
  BY <1>9, Zenon DEF LockHeld, Return
<1>10. ASSUME NEW t \in Threads, Send(t) PROVE TypeOK'
  <2>1. call[t].ip \in IPs
    BY CallFields
  <2>2. /\ wire' \in Seq(IPs)
        /\ ban_ip_list' \in Seq([ip : IPs, line : Line])
    BY <1>10, <2>1 DEF Send
  <2> QED
    BY <1>10, <2>2 DEF Send
<1>11. ASSUME NEW t \in Threads, Drop(t) PROVE TypeOK'
  BY <1>11, Zenon DEF Drop, TryDb, Return
<1>12. ASSUME NEW t \in Threads, DropHeld(t) PROVE TypeOK'
  BY <1>12 DEF DropHeld, Erase, Return
<1>13. ASSUME NEW t \in Threads, NEW ip \in IPs, Request(t, ip) PROVE TypeOK'
  <2>1. [ip |-> ip, who |-> "denialator", now |-> 0, state |-> 0] \in Call
    BY NewCall, Zenon
  <2>2. call' \in [Threads -> Call]
    BY <1>13, <2>1 DEF Request, Start
  <2> QED
    BY <1>13, <2>2 DEF Request, Start
<1>14. ASSUME NEW t \in Threads, NEW ip \in IPs, RequestWhiteListed(t, ip)
       PROVE TypeOK'
  <2>1. [ip |-> ip, who |-> "denialator", now |-> 0, state |-> 0] \in Call
    BY NewCall, Zenon
  <2>2. call' \in [Threads -> Call]
    BY <1>14, <2>1 DEF RequestWhiteListed, Start
  <2> QED
    BY <1>14, <2>2 DEF RequestWhiteListed, Start
<1>15. ASSUME NEW t \in Threads, DenyGet(t) PROVE TypeOK'
  BY <1>15, Zenon DEF DenyGet, TryDb, GoAhead
<1>16. ASSUME NEW t \in Threads, DenyGetHeld(t) PROVE TypeOK'
  <2> DEFINE s == Read(swabber_ip_db, call[t].ip, 0)
  <2>1. s \in Nat
    BY ReadTyping, CallFields
  <2> HIDE DEF s
  <2>2. call' \in [Threads -> Call]
    BY <1>16, <2>1, CallUpdate, Zenon DEF DenyGetHeld, s
  <2> QED
    BY <1>16, <2>2, Zenon DEF DenyGetHeld, GoAhead, s
<1>17. ASSUME NEW t \in Threads, DenyCheck(t) PROVE TypeOK'
  BY <1>17, Zenon DEF DenyCheck, Return
<1>18. ASSUME ReleaseLock PROVE TypeOK'
  BY <1>18 DEF ReleaseLock
<1>19. ASSUME ReleaseSocket PROVE TypeOK'
  BY <1>19 DEF ReleaseSocket
<1>20. ASSUME Tick PROVE TypeOK'
  BY <1>20 DEF Tick
<1>21. ASSUME UNCHANGED vars PROVE TypeOK'
  BY <1>21 DEF vars, program
<1> QED
  BY <1>1, <1>2, <1>3, <1>4, <1>5, <1>6, <1>7, <1>8, <1>9, <1>10, <1>11,
     <1>12, <1>13, <1>14, <1>15, <1>16, <1>17, <1>18, <1>19, <1>20, <1>21
     DEF Next, ProgramStep, BanStep, DenialatorStep, Release

-----------------------------------------------------------------------------
\* Requests to ban are never forgotten, so what they justify stays justified.
LEMMA AskedGrows ==
    ASSUME TypeOK, [Next]_vars, NEW ip \in IPs
    PROVE  asked[ip] \subseteq asked'[ip]
<1>1. ASSUME NEW t \in Threads, Enter(t) PROVE asked[ip] \subseteq asked'[ip]
  BY <1>1 DEF Enter, TypeOK
<1>2. \/ \E t \in Threads : Enter(t)
      \/ asked' = asked
  BY Zenon DEF Next, ProgramStep, vars, program, shared, BanStep, DenialatorStep, Release, CallBan, Start, Request,
         RequestWhiteListed, Get, GetHeld, Set, SetHeld, Flag, Lock, LockHeld,
         Send, Drop, DropHeld, DenyGet, DenyGetHeld, DenyCheck, TryDb,
         ReleaseLock, ReleaseSocket, Tick
<1> QED
  BY <1>1, <1>2

LEMMA ClaimsStay ==
    ASSUME NEW ip, asked[ip] \subseteq asked'[ip]
    PROVE  /\ FilterAsked(ip) => FilterAsked(ip)'
           /\ Justified(ip) => Justified(ip)'
           /\ \A n : (\E a \in asked[ip] : a.at = n) => \E a \in asked'[ip] : a.at = n
  BY DEF FilterAsked, Justified

\* A thread that does not move keeps what it has established.
LEMMA OthersSound ==
    ASSUME NEW t \in Threads, BanSound(t),
           asked[call[t].ip] \subseteq asked'[call[t].ip],
           pc'[t] = pc[t], call'[t] = call[t],
           pc[t] = "send" => socket' = "bound"
    PROVE  BanSound(t)'
  BY ClaimsStay DEF BanSound, FilterAsked, Justified

\* Mutual exclusion on both mutexes.
LEMMA MutexStep == TypeOK /\ MutexesHeld /\ [Next]_vars => MutexesHeld'
<1> SUFFICES ASSUME TypeOK, MutexesHeld, [Next]_vars PROVE MutexesHeld'
  OBVIOUS
<1> USE SwabberAssumption DEF TypeOK, MutexesHeld, DbHeld, SocketHeld, shared, mutexes,
        Goto, SocketFree, UnlockSocket
<1>1. ASSUME NEW t \in Threads, NEW ip \in IPs, CallBan(t, ip) PROVE MutexesHeld'
  BY <1>1 DEF CallBan, Start
<1>2. ASSUME NEW t \in Threads, Enter(t) PROVE MutexesHeld'
  BY <1>2 DEF Enter
<1>3. ASSUME NEW t \in Threads, Get(t) PROVE MutexesHeld'
  BY <1>3 DEF Get, TryDb, Return
<1>4. ASSUME NEW t \in Threads, GetHeld(t) PROVE MutexesHeld'
  BY <1>4 DEF GetHeld, Return
<1>5. ASSUME NEW t \in Threads, Set(t) PROVE MutexesHeld'
  BY <1>5 DEF Set, TryDb
<1>6. ASSUME NEW t \in Threads, SetHeld(t) PROVE MutexesHeld'
  BY <1>6 DEF SetHeld
<1>7. ASSUME NEW t \in Threads, Flag(t) PROVE MutexesHeld'
  BY <1>7 DEF Flag, Return
<1>8. ASSUME NEW t \in Threads, Lock(t) PROVE MutexesHeld'
  BY <1>8 DEF Lock, Return
<1>9. ASSUME NEW t \in Threads, LockHeld(t) PROVE MutexesHeld'
  BY <1>9 DEF LockHeld, Return
<1>10. ASSUME NEW t \in Threads, Send(t) PROVE MutexesHeld'
  BY <1>10 DEF Send
<1>11. ASSUME NEW t \in Threads, Drop(t) PROVE MutexesHeld'
  BY <1>11 DEF Drop, TryDb, Return
<1>12. ASSUME NEW t \in Threads, DropHeld(t) PROVE MutexesHeld'
  BY <1>12 DEF DropHeld, Return
<1>13. ASSUME NEW t \in Threads, NEW ip \in IPs, Request(t, ip) PROVE MutexesHeld'
  BY <1>13 DEF Request, Start
<1>14. ASSUME NEW t \in Threads, NEW ip \in IPs, RequestWhiteListed(t, ip) PROVE MutexesHeld'
  BY <1>14 DEF RequestWhiteListed, Start
<1>15. ASSUME NEW t \in Threads, DenyGet(t) PROVE MutexesHeld'
  BY <1>15 DEF DenyGet, TryDb, GoAhead
<1>16. ASSUME NEW t \in Threads, DenyGetHeld(t) PROVE MutexesHeld'
  BY <1>16 DEF DenyGetHeld, GoAhead
<1>17. ASSUME NEW t \in Threads, DenyCheck(t) PROVE MutexesHeld'
  BY <1>17 DEF DenyCheck, Return
<1>18. ASSUME ReleaseLock PROVE MutexesHeld'
  BY <1>18 DEF ReleaseLock
<1>19. ASSUME ReleaseSocket PROVE MutexesHeld'
  BY <1>19 DEF ReleaseSocket
<1>20. ASSUME Tick PROVE MutexesHeld'
  BY <1>20 DEF Tick
<1>21. ASSUME UNCHANGED vars PROVE MutexesHeld'
  BY <1>21 DEF vars, program
<1> QED
  BY <1>1, <1>2, <1>3, <1>4, <1>5, <1>6, <1>7, <1>8, <1>9, <1>10, <1>11, <1>12, <1>13, <1>14, <1>15, <1>16, <1>17, <1>18, <1>19, <1>20, <1>21
     DEF Next, ProgramStep, BanStep, DenialatorStep, Release

\* A flag is only ever written by a thread whose own request is recorded.
LEMMA FlagsStep == TypeOK /\ BanInvariant /\ [Next]_vars => FlagsAsked'
<1> SUFFICES ASSUME TypeOK, BanInvariant, [Next]_vars,
                    NEW ip \in DOMAIN swabber_ip_db'
             PROVE  /\ FilterAsked(ip)'
                    /\ \E a \in asked'[ip] : a.at = swabber_ip_db'[ip]
  BY DEF FlagsAsked, FilterAsked
<1>1. \/ \E t \in Threads : SetHeld(t)
      \/ /\ ip \in DOMAIN swabber_ip_db
         /\ swabber_ip_db'[ip] = swabber_ip_db[ip]
  BY ZenonT(40) DEF Next, ProgramStep, vars, program, shared, BanStep, DenialatorStep, Release, CallBan, Start, Request,
         RequestWhiteListed, Enter, Get, GetHeld, Set, Flag, Lock, LockHeld,
         Send, Drop, DropHeld, Erase, DenyGet, DenyGetHeld, DenyCheck, TryDb,
         ReleaseLock, ReleaseSocket, Tick
<1>2. ASSUME ip \in DOMAIN swabber_ip_db,
             swabber_ip_db'[ip] = swabber_ip_db[ip]
      PROVE  /\ FilterAsked(ip)'
             /\ \E a \in asked'[ip] : a.at = swabber_ip_db'[ip]
  <2>1. ip \in IPs
    BY <1>2 DEF TypeOK
  <2>2. asked[ip] \subseteq asked'[ip]
    BY <2>1, AskedGrows
  <2> QED
    BY <1>2, <2>2 DEF BanInvariant, FlagsAsked, FilterAsked
<1>3. ASSUME NEW t \in Threads, SetHeld(t)
      PROVE  /\ FilterAsked(ip)'
             /\ \E a \in asked'[ip] : a.at = swabber_ip_db'[ip]
  <2>1. /\ asked' = asked
        /\ ip = call[t].ip \/ ip \in DOMAIN swabber_ip_db
        /\ swabber_ip_db'[ip] = IF ip = call[t].ip THEN call[t].state
                                ELSE swabber_ip_db[ip]
    BY <1>3 DEF SetHeld, Write
  <2>2. /\ FilterAsked(call[t].ip)
        /\ \E a \in asked[call[t].ip] : a.at = call[t].state
    BY <1>3 DEF SetHeld, BanInvariant, BanSound, BanPc
  <2> QED
    BY <2>1, <2>2 DEF BanInvariant, FlagsAsked, FilterAsked
<1> QED
  BY <1>1, <1>2, <1>3


\* The thread that moves establishes what its next statement relies on.
LEMMA MoverSound ==
    ASSUME TypeOK, BanInvariant, NEW t \in Threads,
           \/ \E ip \in IPs : CallBan(t, ip) \/ Request(t, ip) \/ RequestWhiteListed(t, ip)
           \/ BanStep(t)
           \/ DenialatorStep(t)
    PROVE  BanSound(t)'
<1>0. /\ BanSound(t)
      /\ call[t].ip \in IPs /\ call[t].now \in Nat /\ call[t].who \in Requester
      /\ t \in DOMAIN pc /\ t \in DOMAIN call
  BY CallFields DEF BanInvariant, TypeOK
<1> USE SwabberAssumption DEF BanSound, BanPc, shared, mutexes, Goto
<1>1. ASSUME NEW ip \in IPs, CallBan(t, ip) PROVE BanSound(t)'
  BY <1>0, <1>1 DEF CallBan, Start, FilterAsked, Justified
<1>2. ASSUME Get(t) PROVE BanSound(t)'
  BY <1>0, <1>2 DEF Get, TryDb, Return, FilterAsked, Justified
<1>3. ASSUME Set(t) PROVE BanSound(t)'
  BY <1>0, <1>3 DEF Set, TryDb, FilterAsked, Justified
<1>4. ASSUME SetHeld(t) PROVE BanSound(t)'
  BY <1>0, <1>4 DEF SetHeld, FilterAsked, Justified
<1>5. ASSUME Flag(t) PROVE BanSound(t)'
  BY <1>0, <1>5 DEF Flag, Return, FilterAsked, Justified
<1>6. ASSUME Lock(t) PROVE BanSound(t)'
  BY <1>0, <1>6 DEF Lock, Return, FilterAsked, Justified
<1>7. ASSUME LockHeld(t) PROVE BanSound(t)'
  BY <1>0, <1>7 DEF LockHeld, Return, FilterAsked, Justified
<1>8. ASSUME Send(t) PROVE BanSound(t)'
  BY <1>0, <1>8 DEF Send, FilterAsked, Justified
<1>9. ASSUME Drop(t) PROVE BanSound(t)'
  BY <1>0, <1>9 DEF Drop, TryDb, Return, FilterAsked, Justified
<1>10. ASSUME DropHeld(t) PROVE BanSound(t)'
  BY <1>0, <1>10 DEF DropHeld, Return, FilterAsked, Justified
<1>11. ASSUME NEW ip \in IPs, Request(t, ip) PROVE BanSound(t)'
  BY <1>0, <1>11 DEF Request, Start, FilterAsked, Justified
<1>12. ASSUME NEW ip \in IPs, RequestWhiteListed(t, ip) PROVE BanSound(t)'
  BY <1>0, <1>12 DEF RequestWhiteListed, Start, FilterAsked, Justified
<1>13. ASSUME DenyGet(t) PROVE BanSound(t)'
  BY <1>0, <1>13 DEF DenyGet, TryDb, GoAhead, FilterAsked, Justified
<1>14. ASSUME DenyCheck(t) PROVE BanSound(t)'
  BY <1>0, <1>14 DEF DenyCheck, Return, FilterAsked, Justified
<1>15. ASSUME Enter(t) PROVE BanSound(t)'
  <2> DEFINE r == [at |-> clock, who |-> call[t].who]
  <2>1. /\ r \in asked'[call[t].ip]
        /\ asked[call[t].ip] \subseteq asked'[call[t].ip]
        /\ call'[t].ip = call[t].ip
        /\ call'[t].now = clock
        /\ pc'[t] = IF GracePeriod > 0 THEN "get" ELSE "lock"
    <3>1. call' = [call EXCEPT ![t].now = clock]
      BY <1>15 DEF Enter
    <3>2. call'[t].ip = call[t].ip /\ call'[t].now = clock
      BY <3>1, CallAssigned DEF TypeOK
    <3> QED
      BY <1>0, <1>15, <3>2 DEF Enter, TypeOK
  <2>2. FilterAsked(call[t].ip)'
    BY <1>0, <1>15, <2>1 DEF Enter, FilterAsked, Requester
  <2>3. pc'[t] = "lock" => Justified(call[t].ip)'
    BY <2>1 DEF Justified, TypeOK
  <2> QED
    BY <2>1, <2>2, <2>3 DEF FilterAsked, Justified
<1>16. ASSUME GetHeld(t) PROVE BanSound(t)'
  <2> DEFINE s == Read(swabber_ip_db, call[t].ip, 0)
  <2>1. /\ asked' = asked
        /\ call'[t].ip = call[t].ip
        /\ call'[t].now = call[t].now
        /\ call'[t].state = IF s = 0 THEN call[t].now ELSE s
    <3>1. call' = [call EXCEPT ![t].state = IF s = 0 THEN call[t].now ELSE s]
      BY <1>16 DEF GetHeld, FirstRequest
    <3> HIDE DEF s
    <3>2. /\ call'[t].ip = call[t].ip
          /\ call'[t].now = call[t].now
          /\ call'[t].state = IF s = 0 THEN call[t].now ELSE s
      BY <3>1, CallAssigned DEF TypeOK
    <3> QED
      BY <1>16, <3>2 DEF GetHeld
  <2>2. CASE s = 0
    BY <1>0, <1>16, <2>1, <2>2 DEF GetHeld, FirstRequest, FilterAsked, Justified
  <2>3. CASE s # 0 /\ ~GraceOver(call[t].now, s)
    BY <1>0, <1>16, <2>3 DEF GetHeld, FirstRequest, Return
  <2>4. CASE s # 0 /\ GraceOver(call[t].now, s)
    <3>1. call[t].ip \in DOMAIN swabber_ip_db /\ s = swabber_ip_db[call[t].ip] /\ s \in Nat
      BY <1>0, <2>4, ReadTyping DEF Read
    <3>2. PICK a \in asked[call[t].ip] : a.at = s
      BY <3>1 DEF BanInvariant, FlagsAsked
    <3>3. PICK b \in asked[call[t].ip] : b.at = call[t].now
      BY <1>0, <1>16 DEF GetHeld
    <3>4. Justified(call[t].ip)
      BY <1>0, <2>4, <3>1, <3>2, <3>3, SwabberAssumption DEF Justified, GraceOver
    <3> QED
      BY <1>0, <1>16, <2>1, <2>4, <3>4 DEF GetHeld, FirstRequest, FilterAsked, Justified
  <2> QED
    BY <2>2, <2>3, <2>4
<1>17. ASSUME DenyGetHeld(t) PROVE BanSound(t)'
  <2>1. Read(swabber_ip_db, call[t].ip, 0) # 0 => FilterAsked(call[t].ip)
    BY <1>0 DEF BanInvariant, FlagsAsked, Read
  <2>2. call'[t].ip = call[t].ip /\ asked' = asked
    BY <1>17, CallAssigned DEF DenyGetHeld, TypeOK
  <2> QED
    BY <1>0, <1>17, <2>1, <2>2 DEF DenyGetHeld, Flagged, GoAhead, FilterAsked
<1> QED
  BY <1>1, <1>2, <1>3, <1>4, <1>5, <1>6, <1>7, <1>8, <1>9, <1>10, <1>11, <1>12, <1>13, <1>14, <1>15, <1>16, <1>17, Zenon
     DEF BanStep, DenialatorStep

\* A step of one thread leaves the locals of the others alone, and no step
\* takes the socket from a thread that is about to send.
LEMMA OthersStay ==
    ASSUME TypeOK, BanInvariant, NEW t \in Threads,
           \/ \E ip \in IPs : CallBan(t, ip) \/ Request(t, ip) \/ RequestWhiteListed(t, ip)
           \/ BanStep(t)
           \/ DenialatorStep(t)
    PROVE  \A u \in Threads \ {t} : /\ pc'[u] = pc[u]
                                    /\ call'[u] = call[u]
                                    /\ pc[u] = "send" => socket' = "bound"
<1> SUFFICES ASSUME NEW u \in Threads \ {t}
             PROVE  /\ pc'[u] = pc[u]
                    /\ call'[u] = call[u]
                    /\ pc[u] = "send" => socket' = "bound"
  OBVIOUS
<1>1. pc[u] = "send" => socket = "bound"
  BY DEF BanInvariant, BanSound
<1>2. socket' = socket \/ socket' = "bound"
  BY DEF BanStep, DenialatorStep, CallBan, Start, Request, RequestWhiteListed, Enter,
         Get, GetHeld, Set, SetHeld, Flag, Lock, LockHeld, Send, Drop, DropHeld,
         DenyGet, DenyGetHeld, DenyCheck, TryDb, shared
<1>3. pc'[u] = pc[u]
  BY DEF BanStep, DenialatorStep, CallBan, Start, Request, RequestWhiteListed, Enter,
         Get, GetHeld, Set, SetHeld, Flag, Lock, LockHeld, Send, Drop, DropHeld,
         DenyGet, DenyGetHeld, DenyCheck, TryDb, Return, GoAhead, Goto, TypeOK
<1>4. call'[u] = call[u]
  BY DEF BanStep, DenialatorStep, CallBan, Start, Request, RequestWhiteListed, Enter,
         Get, GetHeld, Set, SetHeld, Flag, Lock, LockHeld, Send, Drop, DropHeld,
         DenyGet, DenyGetHeld, DenyCheck, TryDb, TypeOK
<1> QED
  BY <1>1, <1>2, <1>3, <1>4

LEMMA SoundStep ==
    TypeOK /\ BanInvariant /\ [Next]_vars => \A u \in Threads : BanSound(u)'
<1> SUFFICES ASSUME TypeOK, BanInvariant, [Next]_vars, NEW u \in Threads
             PROVE  BanSound(u)'
  OBVIOUS
<1>1. /\ BanSound(u)
      /\ asked[call[u].ip] \subseteq asked'[call[u].ip]
  BY AskedGrows, CallFields DEF BanInvariant, TypeOK
<1>2. ASSUME NEW t \in Threads,
             \/ \E ip \in IPs : CallBan(t, ip) \/ Request(t, ip) \/ RequestWhiteListed(t, ip)
             \/ BanStep(t)
             \/ DenialatorStep(t)
      PROVE  BanSound(u)'
  <2>1. CASE u = t
    BY <1>2, <2>1, MoverSound
  <2>2. CASE u # t
    BY <1>1, <1>2, <2>2, OthersStay, OthersSound
  <2> QED
    BY <2>1, <2>2
<1>3. ASSUME Release \/ Tick \/ UNCHANGED vars PROVE BanSound(u)'
  <2>1. pc'[u] = pc[u] /\ call'[u] = call[u]
    BY <1>3, SwabberAssumption
       DEF Release, ReleaseLock, ReleaseSocket, Tick, vars, program, Goto, TypeOK
  <2>2. pc[u] = "send" => socket' = "bound"
    BY <1>1, <1>3, SwabberAssumption
       DEF Release, ReleaseLock, ReleaseSocket, Tick, vars, program, shared,
           BanInvariant, MutexesHeld, SocketHeld, BanSound
  <2> QED
    BY <1>1, <2>1, <2>2, OthersSound
<1> QED
  BY <1>2, <1>3 DEF Next, ProgramStep

-----------------------------------------------------------------------------
\* Type correctness and the inductive invariant of the ban protocol: mutual
\* exclusion, flags that stem from requests, and what every thread has
\* established, in every reachable state of every instance.
THEOREM BanInvariantHolds == Spec => [](TypeOK /\ BanInvariant)
<1>1. Init => TypeOK
  <2>1. Init => overlapped \in BOOLEAN
    BY Zenon DEF Init
  <2> QED
    BY <2>1, SwabberAssumption DEF Init, TypeOK, EmptyDb, Requester, Call, BanPc
<1>2. Init => BanInvariant
  BY SwabberAssumption DEF Init, BanInvariant, MutexesHeld, FlagsAsked, BanSound,
     EmptyDb, BanPc, DbHeld, SocketHeld
<1>3. TypeOK /\ BanInvariant /\ [Next]_vars => TypeOK' /\ BanInvariant'
  BY TypeStep, MutexStep, FlagsStep, SoundStep DEF BanInvariant
<1> QED
  BY <1>1, <1>2, <1>3, PTL DEF Spec

\* Only Send puts an ip on the wire, and it puts the ip of its own call.
LEMMA WireGrows ==
    ASSUME [Next]_vars
    PROVE  \/ wire' = wire
           \/ \E t \in Threads : Send(t)
  BY Zenon DEF Next, ProgramStep, vars, program, shared, BanStep, DenialatorStep, Release, CallBan, Start, Request,
         RequestWhiteListed, Enter, Get, GetHeld, Set, SetHeld, Flag, Lock, LockHeld,
         Drop, DropHeld, DenyGet, DenyGetHeld, DenyCheck, TryDb, ReleaseLock,
         ReleaseSocket, Tick

\* No ban reaches the swabber daemon without two requests to ban the ip, the
\* second at least the grace period after the first.
THEOREM BansJustified == Spec => []DeliveredBansJustified
<1>1. Init => DeliveredBansJustified
  BY DEF Init, DeliveredBansJustified
<1>2. TypeOK /\ BanInvariant /\ DeliveredBansJustified /\ [Next]_vars
        => DeliveredBansJustified'
  <2> SUFFICES ASSUME TypeOK, BanInvariant, DeliveredBansJustified, [Next]_vars,
                      NEW i \in DOMAIN wire'
               PROVE  Justified(wire[i])'
    BY DEF DeliveredBansJustified, Justified
  <2>1. ASSUME wire' = wire PROVE Justified(wire[i])'
    <3>1. wire[i] \in IPs /\ Justified(wire[i])
      BY <2>1 DEF TypeOK, DeliveredBansJustified
    <3> QED
      BY <2>1, <3>1, AskedGrows DEF Justified
  <2>2. ASSUME NEW t \in Threads, Send(t) PROVE Justified(wire[i])'
    <3>1. call[t].ip \in IPs
      BY CallFields DEF TypeOK
    <3>2. Justified(call[t].ip) /\ asked' = asked /\ wire' = Append(wire, call[t].ip)
      BY <2>2 DEF Send, BanInvariant, BanSound
    <3>3. wire'[i] = call[t].ip \/ (i \in DOMAIN wire /\ wire'[i] = wire[i])
      BY <3>1, <3>2 DEF TypeOK
    <3> QED
      BY <3>2, <3>3 DEF DeliveredBansJustified, Justified
  <2> QED
    BY <2>1, <2>2, WireGrows
<1> QED
  BY <1>1, <1>2, BanInvariantHolds, PTL DEF Spec

\* A handler keeps its ip until the thread starts the next one.
LEMMA IpStays ==
    ASSUME TypeOK, [Next]_vars, NEW u \in Threads, reply'[u] = "deny"
    PROVE  call'[u].ip = call[u].ip
<1>1. ASSUME NEW t \in Threads, NEW ip \in IPs,
             CallBan(t, ip) \/ Request(t, ip) \/ RequestWhiteListed(t, ip)
      PROVE  call'[u].ip = call[u].ip
  BY <1>1, Zenon DEF CallBan, Start, Request, RequestWhiteListed, TypeOK
<1>2. ASSUME NEW t \in Threads, Enter(t) PROVE call'[u].ip = call[u].ip
  BY <1>2, CallAssigned DEF Enter, TypeOK
<1>3. ASSUME NEW t \in Threads, GetHeld(t) PROVE call'[u].ip = call[u].ip
  <2>1. \E n : call' = [call EXCEPT ![t].state = n]
    BY <1>3 DEF GetHeld
  <2> QED
    BY <2>1, CallAssigned DEF TypeOK
<1>4. ASSUME NEW t \in Threads, DenyGetHeld(t) PROVE call'[u].ip = call[u].ip
  BY <1>4, CallAssigned DEF DenyGetHeld, TypeOK
<1>5. \/ \E t \in Threads : \/ \E ip \in IPs : \/ CallBan(t, ip) \/ Request(t, ip)
                                               \/ RequestWhiteListed(t, ip)
                            \/ Enter(t) \/ GetHeld(t) \/ DenyGetHeld(t)
      \/ call' = call
  BY Zenon DEF Next, ProgramStep, vars, program, BanStep, DenialatorStep, Release, Get, Set, SetHeld, Flag,
         Lock, LockHeld, Send, Drop, DropHeld, DenyGet, DenyCheck, TryDb,
         ReleaseLock, ReleaseSocket, Tick
<1> QED
  BY <1>1, <1>2, <1>3, <1>4, <1>5

\* Denialator denies an ip only after another filter asked to ban it.
THEOREM DenialsAskedFor == Spec => []DenialNeedsFilter
<1>1. Init => DenialNeedsFilter
  BY DEF Init, DenialNeedsFilter
<1>2. TypeOK /\ BanInvariant /\ DenialNeedsFilter /\ [Next]_vars => DenialNeedsFilter'
  <2> SUFFICES ASSUME TypeOK, BanInvariant, DenialNeedsFilter, [Next]_vars,
                      NEW u \in Threads, reply'[u] = "deny"
               PROVE  FilterAsked(call[u].ip)'
    BY DEF DenialNeedsFilter, FilterAsked
  <2>1. \/ reply[u] = "deny"
        \/ pc[u] \in BanPc \ {"enter"}
        \/ pc[u] = "deny_check" /\ call[u].who = "denialator"
    <3>1. ASSUME NEW t \in Threads, Return(t),
                 pc[t] \in (BanPc \ {"enter"}) \cup {"deny_check"}
          PROVE  reply[u] = "deny" \/ (u = t /\ call[t].who = "denialator")
      BY <3>1 DEF Return, TypeOK
    <3>2. \/ reply' = reply
          \/ \E t \in Threads : /\ Return(t)
                                /\ pc[t] \in (BanPc \ {"enter"}) \cup {"deny_check"}
          \/ \E t \in Threads : GoAhead(t)
          \/ \E t \in Threads, v \in {"none", "go_ahead"} :
                reply' = [reply EXCEPT ![t] = v]
      BY ZenonT(40) DEF Next, ProgramStep, vars, program, BanStep, DenialatorStep, Release, CallBan, Start, Request,
             RequestWhiteListed, Enter, Get, GetHeld, Set, SetHeld, Flag, Lock,
             LockHeld, Send, Drop, DropHeld, DenyGet, DenyGetHeld, DenyCheck, TryDb,
             ReleaseLock, ReleaseSocket, Tick, BanPc
    <3> QED
      BY <3>1, <3>2 DEF GoAhead, TypeOK
  <2>2. FilterAsked(call[u].ip)
    BY <2>1 DEF DenialNeedsFilter, BanInvariant, BanSound
  <2>3. asked[call[u].ip] \subseteq asked'[call[u].ip]
    BY AskedGrows, CallFields DEF TypeOK
  <2> QED
    BY <2>2, <2>3, IpStays DEF FilterAsked
<1> QED
  BY <1>1, <1>2, BanInvariantHolds, PTL DEF Spec

\* Once the socket is released, nothing is sent and the socket stays away.
THEOREM ReleasedIsSilent == Spec => NoSendAfterRelease
<1>1. TypeOK /\ BanInvariant /\ [Next]_vars
        => (socket = "null" => wire' = wire /\ socket' = "null")
  <2> SUFFICES ASSUME TypeOK, BanInvariant, [Next]_vars, socket = "null"
               PROVE  wire' = wire /\ socket' = "null"
    OBVIOUS
  <2>1. wire' = wire
    BY WireGrows, Zenon DEF Send, BanInvariant, BanSound
  <2>2. socket' = "null"
    BY Zenon DEF Next, ProgramStep, vars, program, shared, BanStep, DenialatorStep, Release, CallBan, Start, Request,
           RequestWhiteListed, Enter, Get, GetHeld, Set, SetHeld, Flag, Lock,
           LockHeld, Deactivated, Send, Drop, DropHeld, DenyGet, DenyGetHeld,
           DenyCheck, TryDb, ReleaseLock, ReleaseSocket, Tick
  <2> QED
    BY <2>1, <2>2
<1> QED
  BY <1>1, BanInvariantHolds, PTL DEF Spec, NoSendAfterRelease

-----------------------------------------------------------------------------
\* The swabber interface implements the ban service: every step of a thread
\* is a step of the service or invisible to it.
THEOREM Refinement == Spec => ImplementsBanService
<1>1. Init => Service!Init
  BY DEF Init, Service!Init
<1>2. TypeOK /\ BanInvariant /\ [Next]_vars => [Service!Next]_(Service!vars)
  <2> SUFFICES ASSUME TypeOK, BanInvariant, [Next]_vars
               PROVE  Service!Next \/ UNCHANGED Service!vars
    OBVIOUS
  <2>1. ASSUME NEW t \in Threads, Enter(t) PROVE Service!Next
    <3>1. call[t].ip \in IPs /\ call[t].who \in Service!Requester
      BY CallFields DEF TypeOK, Requester, Service!Requester
    <3>2. Service!Ask(call[t].ip)
      BY <2>1, <3>1, Zenon DEF Enter, Service!Ask
    <3> QED
      BY <3>1, <3>2 DEF Service!Next
  <2>2. ASSUME NEW t \in Threads, Send(t) PROVE Service!Next
    <3>1. call[t].ip \in IPs
      BY CallFields DEF TypeOK
    <3>2. Justified(call[t].ip) /\ socket = "bound"
      BY <2>2 DEF Send, BanInvariant, BanSound
    <3>3. Service!Deliver(call[t].ip)
      BY <2>2, <3>2 DEF Send, Service!Deliver, Service!Justified, Justified
    <3> QED
      BY <3>1, <3>3 DEF Service!Next
  <2>3. ASSUME ReleaseSocket PROVE Service!Next
    BY <2>3 DEF ReleaseSocket, Service!Next, Service!Close
  <2>4. ASSUME Tick PROVE Service!Next
    BY <2>4 DEF Tick, Service!Next, Service!Tick
  <2>5. \/ \E t \in Threads : Enter(t) \/ Send(t)
        \/ ReleaseSocket
        \/ Tick
        \/ UNCHANGED Service!vars
    BY ZenonT(40) DEF Next, ProgramStep, vars, program, shared, BanStep, DenialatorStep, Release, CallBan, Start, Request,
           RequestWhiteListed, Get, GetHeld, Set, SetHeld, Flag, Lock, LockHeld,
           Deactivated, Drop, DropHeld, DenyGet, DenyGetHeld, DenyCheck, TryDb, ReleaseLock,
           Service!vars
  <2> QED
    BY <2>1, <2>2, <2>3, <2>4, <2>5
<1> QED
  BY <1>1, <1>2, BanInvariantHolds, PTL DEF Spec, Service!Spec, ImplementsBanService

-----------------------------------------------------------------------------
(* The log while handlers run one at a time *)

Lines == [ip : IPs, line : Line]
FlagLine(ip) == [ip |-> ip, line |-> "flagged"]
BanLine(ip) == [ip |-> ip, line |-> "banned"]

\* The last line about ip says that it was flagged.
FlaggedLast(log, ip) ==
    \E i \in 1..Len(log) :
        /\ log[i] = FlagLine(ip)
        /\ \A k \in 1..Len(log) : log[k] = BanLine(ip) => k < i

\* Between two lines of a kind about ip there is one of the other kind.
Alternate(log) ==
    \A i, j \in 1..Len(log), ip \in IPs : i < j =>
        /\ log[i] = FlagLine(ip) /\ log[j] = FlagLine(ip) => \E k \in i..j : log[k] = BanLine(ip)
        /\ GracePeriod > 0 /\ log[i] = BanLine(ip) /\ log[j] = BanLine(ip) =>
              \E k \in i..j : log[k] = FlagLine(ip)

LEMMA LinesDiffer ==
    /\ \A x, y : FlagLine(x) # BanLine(y)
    /\ \A x, y : x # y => FlagLine(x) # FlagLine(y) /\ BanLine(x) # BanLine(y)
<1>1. \A x : FlagLine(x).line = "flagged" /\ BanLine(x).line = "banned" /\ FlagLine(x).ip = x /\ BanLine(x).ip = x
  BY DEF FlagLine, BanLine
<1> QED
  BY <1>1

LEMMA Logging ==
    ASSUME NEW log \in Seq(Lines), NEW line \in Lines
    PROVE  LET new == Append(log, line)
           IN  /\ Len(log) \in Nat /\ Len(new) = Len(log) + 1 /\ new[Len(log) + 1] = line
               /\ \A i \in 1..Len(log) : new[i] = log[i]
  OBVIOUS

LEMMA LogFlag ==
    ASSUME NEW log \in Seq(Lines), NEW ip \in IPs
    PROVE  LET new == Append(log, FlagLine(ip))
           IN  /\ FlaggedLast(new, ip)
               /\ \A x \in IPs : x # ip => (FlaggedLast(new, x) <=> FlaggedLast(log, x))
               /\ Alternate(log) /\ ~FlaggedLast(log, ip) => Alternate(new)
<1>0. PICK new : new = Append(log, FlagLine(ip))
  BY Zenon
<1>1. PICK n \in Nat : n = Len(log)
  OBVIOUS
<1>2. Len(new) = n + 1 /\ new[n + 1] = FlagLine(ip) /\ \A i \in 1..n : new[i] = log[i]
  <2>1. FlagLine(ip) \in Lines
    BY DEF FlagLine, Lines, Line
  <2> QED
    BY <1>0, <1>1, <2>1, Logging
<1>3. FlaggedLast(new, ip)
  <2>1. n + 1 \in 1..Len(new) /\ \A k \in 1..Len(new) : new[k] = BanLine(ip) => k < n + 1
    BY <1>2, LinesDiffer
  <2> QED
    BY <1>2, <2>1 DEF FlaggedLast
<1>4. ASSUME NEW x \in IPs, x # ip PROVE FlaggedLast(new, x) <=> FlaggedLast(log, x)
  <2>1. \A k \in 1..Len(new) : new[k] \in {FlagLine(x), BanLine(x)} => k \in 1..n /\ new[k] = log[k]
    BY <1>2, <1>4, LinesDiffer
  <2>2. \A k \in 1..n : k \in 1..Len(new) /\ new[k] = log[k]
    BY <1>2
  <2> QED
    BY <1>1, <2>1, <2>2 DEF FlaggedLast
<1>5. ASSUME Alternate(log), ~FlaggedLast(log, ip) PROVE Alternate(new)
  <2> SUFFICES ASSUME NEW i \in 1..Len(new), NEW j \in 1..Len(new), NEW x \in IPs, i < j
               PROVE  /\ new[i] = FlagLine(x) /\ new[j] = FlagLine(x) => \E k \in i..j : new[k] = BanLine(x)
                      /\ GracePeriod > 0 /\ new[i] = BanLine(x) /\ new[j] = BanLine(x) =>
                            \E k \in i..j : new[k] = FlagLine(x)
    BY DEF Alternate
  <2>1. CASE j \in 1..n
    <3>1. i \in 1..n /\ \A k \in i..j : k \in 1..n /\ new[k] = log[k]
      BY <1>2, <2>1
    <3>2. new[i] = log[i] /\ new[j] = log[j]
      BY <1>2, <2>1, <3>1
    <3> QED
      BY <1>1, <1>5, <2>1, <3>1, <3>2, SMTT(30) DEF Alternate
  <2>2. CASE j = n + 1
    <3>1. i \in 1..n /\ new[i] = log[i] /\ new[j] = FlagLine(ip)
      BY <1>2, <2>2
    <3>2. ASSUME new[i] = FlagLine(x), new[j] = FlagLine(x) PROVE \E k \in i..j : new[k] = BanLine(x)
      <4>1. x = ip /\ log[i] = FlagLine(ip)
        BY <3>1, <3>2, LinesDiffer, Zenon
      <4>2. PICK k \in 1..n : log[k] = BanLine(ip) /\ ~(k < i)
        BY <1>1, <1>5, <3>1, <4>1 DEF FlaggedLast
      <4>3. k \in i..j /\ new[k] = log[k]
        BY <1>2, <2>2, <3>1, <4>2
      <4> QED
        BY <4>1, <4>2, <4>3
    <3> QED
      BY <3>1, <3>2, LinesDiffer
  <2> QED
    BY <1>2, <2>1, <2>2
<1> QED
  BY <1>0, <1>3, <1>4, <1>5

LEMMA LogBan ==
    ASSUME NEW log \in Seq(Lines), NEW ip \in IPs
    PROVE  LET new == Append(log, BanLine(ip))
           IN  /\ ~FlaggedLast(new, ip)
               /\ \A x \in IPs : x # ip => (FlaggedLast(new, x) <=> FlaggedLast(log, x))
               /\ Alternate(log) /\ (GracePeriod > 0 => FlaggedLast(log, ip)) => Alternate(new)
<1>0. PICK new : new = Append(log, BanLine(ip))
  OBVIOUS
<1>1. PICK n \in Nat : n = Len(log)
  OBVIOUS
<1>2. Len(new) = n + 1 /\ new[n + 1] = BanLine(ip) /\ \A i \in 1..n : new[i] = log[i]
  <2>1. BanLine(ip) \in Lines
    BY DEF BanLine, Lines, Line
  <2> QED
    BY <1>0, <1>1, <2>1, Logging
<1>3. ~FlaggedLast(new, ip)
  <2>1. n + 1 \in 1..Len(new) /\ \A i \in 1..Len(new) : ~(n + 1 < i)
    BY <1>2
  <2> QED
    BY <1>2, <2>1 DEF FlaggedLast
<1>4. ASSUME NEW x \in IPs, x # ip PROVE FlaggedLast(new, x) <=> FlaggedLast(log, x)
  <2>1. \A k \in 1..Len(new) : new[k] \in {FlagLine(x), BanLine(x)} => k \in 1..n /\ new[k] = log[k]
    BY <1>2, <1>4, LinesDiffer
  <2>2. \A k \in 1..n : k \in 1..Len(new) /\ new[k] = log[k]
    BY <1>2
  <2> QED
    BY <1>1, <2>1, <2>2 DEF FlaggedLast
<1>5. ASSUME Alternate(log), GracePeriod > 0 => FlaggedLast(log, ip) PROVE Alternate(new)
  <2> SUFFICES ASSUME NEW i \in 1..Len(new), NEW j \in 1..Len(new), NEW x \in IPs, i < j
               PROVE  /\ new[i] = FlagLine(x) /\ new[j] = FlagLine(x) => \E k \in i..j : new[k] = BanLine(x)
                      /\ GracePeriod > 0 /\ new[i] = BanLine(x) /\ new[j] = BanLine(x) =>
                            \E k \in i..j : new[k] = FlagLine(x)
    BY DEF Alternate
  <2>1. CASE j \in 1..n
    <3>1. i \in 1..n /\ \A k \in i..j : k \in 1..n /\ new[k] = log[k]
      BY <1>2, <2>1
    <3>2. new[i] = log[i] /\ new[j] = log[j]
      BY <1>2, <2>1, <3>1
    <3> QED
      BY <1>1, <1>5, <2>1, <3>1, <3>2 DEF Alternate
  <2>2. CASE j = n + 1
    <3>1. i \in 1..n /\ new[i] = log[i] /\ new[j] = BanLine(ip)
      BY <1>2, <2>2
    <3>2. ASSUME GracePeriod > 0, new[i] = BanLine(x), new[j] = BanLine(x)
          PROVE  \E k \in i..j : new[k] = FlagLine(x)
      <4>1. x = ip /\ log[i] = BanLine(ip)
        BY <3>1, <3>2, LinesDiffer, Zenon
      <4>2. PICK k \in 1..n : log[k] = FlagLine(ip) /\ i < k
        BY <1>1, <1>5, <3>1, <3>2, <4>1 DEF FlaggedLast
      <4>3. k \in i..j /\ new[k] = log[k]
        BY <1>2, <2>2, <3>1, <4>2
      <4> QED
        BY <4>1, <4>2, <4>3
    <3> QED
      BY <3>1, <3>2, LinesDiffer
  <2> QED
    BY <1>2, <2>1, <2>2
<1> QED
  BY <1>0, <1>3, <1>4, <1>5
\* The log and the database agree on every ip, except within the call of ban()
\* that changes one before the other.
Agree(ip) == (ip \in DOMAIN swabber_ip_db) <=> FlaggedLast(ban_ip_list, ip)
Changing(t, ip) == call[t].ip = ip /\ pc[t] \in {"flag", "drop", "drop_held"}

CallLogged(t) ==
    LET ip == call[t].ip
    IN  /\ pc[t] \in {"set", "set_held"} => ip \notin DOMAIN swabber_ip_db
        /\ pc[t] = "flag" => ip \in DOMAIN swabber_ip_db /\ ~FlaggedLast(ban_ip_list, ip)
        /\ pc[t] \in {"lock", "lock_held", "send"} => (GracePeriod > 0 => ip \in DOMAIN swabber_ip_db)
        /\ pc[t] \in {"drop", "drop_held"} => ~FlaggedLast(ban_ip_list, ip)

LogInvariant ==
    ~overlapped =>
        /\ ~Overlap
        /\ Alternate(ban_ip_list)
        /\ \A t \in Threads : CallLogged(t)
        /\ \A ip \in IPs : (\A t \in Threads : ~Changing(t, ip)) => Agree(ip)

\* The same where t is the only thread with a handler in progress.
LoggedBut(t) ==
    Alternate(ban_ip_list) /\ CallLogged(t) /\ \A ip \in IPs : ~Changing(t, ip) => Agree(ip)

\* Steps after which nothing has happened to the log or to a handler.
Quiet == /\ UNCHANGED <<ban_ip_list, swabber_ip_db>>
         /\ \A u \in Threads : pc'[u] = pc[u] /\ (call'[u] = call[u] \/ pc[u] = "idle")

Handles(t) == \/ \E ip \in IPs : CallBan(t, ip) \/ Request(t, ip)
              \/ BanStep(t) \/ DenialatorStep(t)

LEMMA QuietStep ==
    ASSUME TypeOK,
           \/ Release \/ Tick \/ UNCHANGED vars
           \/ \E t \in Threads, ip \in IPs : RequestWhiteListed(t, ip)
    PROVE  Quiet
<1>1. CASE Release
  BY <1>1, SwabberAssumption DEF Release, ReleaseLock, ReleaseSocket, Goto, TypeOK, Quiet, shared
<1>2. CASE Tick \/ UNCHANGED vars
  BY <1>2 DEF Tick, vars, program, shared, Quiet
<1>3. ASSUME NEW t \in Threads, NEW ip \in IPs, RequestWhiteListed(t, ip) PROVE Quiet
  BY <1>3 DEF RequestWhiteListed, Start, Goto, TypeOK, Quiet, shared
<1> QED
  BY <1>1, <1>2, <1>3

LEMMA QuietLog ==
    ASSUME LogInvariant, Quiet, ~overlapped
    PROVE  /\ Alternate(ban_ip_list') /\ (\A t \in Threads : CallLogged(t)')
           /\ \A ip \in IPs : (\A t \in Threads : ~Changing(t, ip)') => Agree(ip)'
<1>1. \A t \in Threads : CallLogged(t)'
  BY DEF LogInvariant, Quiet, CallLogged
<1>2. \A ip \in IPs, t \in Threads : Changing(t, ip)' <=> Changing(t, ip)
  BY DEF Quiet, Changing
<1> QED
  BY <1>1, <1>2 DEF LogInvariant, Quiet, Agree

\* Of two handlers one was already over.
LEMMA OneHandler ==
    ASSUME TypeOK, LogInvariant, Next, ~overlapped', NEW t \in Threads, Handles(t)
    PROVE  \A u \in Threads : u # t => pc[u] = "idle" /\ pc'[u] = "idle"
<1>1. ~Overlap' /\ ~Overlap
  BY Zenon DEF Next, LogInvariant
<1>2. /\ pc[t] # "idle" \/ pc'[t] # "idle"
      /\ \A u \in Threads : u # t => pc'[u] = pc[u]
  <2>1. CASE BanStep(t)
    BY <2>1 DEF BanStep, Enter, Get, GetHeld, Set, SetHeld, Flag, Lock, LockHeld, Send, Drop,
                DropHeld, TryDb, Return, Goto, TypeOK
  <2>2. CASE DenialatorStep(t)
    BY <2>2 DEF DenialatorStep, DenyGet, DenyGetHeld, DenyCheck, TryDb, GoAhead, Return, Goto, TypeOK
  <2>3. CASE \E ip \in IPs : CallBan(t, ip) \/ Request(t, ip)
    BY <2>3 DEF CallBan, Request, Start, Goto, TypeOK
  <2> QED
    BY <2>1, <2>2, <2>3 DEF Handles
<1> QED
  BY <1>1, <1>2 DEF Overlap

\* An entry of the database is not 0.
LEMMA Entry ==
    ASSUME TypeOK, NEW ip \in IPs
    PROVE  Read(swabber_ip_db, ip, 0) = 0 <=> ip \notin DOMAIN swabber_ip_db
  BY DEF TypeOK, Read

\* The steps that leave the log and the database alone.
LEMMA PassiveStep ==
    ASSUME TypeOK, NEW t \in Threads, LoggedBut(t), db_mutex = NoThread \/ pc[t] \in DbHeld,
           \/ \E ip \in IPs : CallBan(t, ip) \/ Request(t, ip)
           \/ Enter(t) \/ Get(t) \/ GetHeld(t) \/ Set(t) \/ Lock(t) \/ LockHeld(t) \/ Drop(t)
           \/ DenialatorStep(t)
    PROVE  LoggedBut(t)'
<1>1. UNCHANGED <<ban_ip_list, swabber_ip_db>>
  BY DEF CallBan, Request, Start, Enter, Get, GetHeld, Set, Lock, LockHeld, Drop, TryDb, DenialatorStep,
         DenyGet, DenyGetHeld, DenyCheck, shared
<1>2. CASE \/ \E ip \in IPs : CallBan(t, ip) \/ Request(t, ip)
           \/ Enter(t) \/ DenialatorStep(t) \/ Get(t)
  <2>1. /\ pc[t] \notin {"flag", "drop", "drop_held"}
        /\ pc'[t] \notin {"set", "set_held", "flag", "lock_held", "send", "drop", "drop_held"}
        /\ pc'[t] = "lock" => ~(GracePeriod > 0)
    BY <1>2 DEF CallBan, Request, Start, Enter, Get, TryDb, DenialatorStep, DenyGet, DenyGetHeld, DenyCheck,
                GoAhead, Return, Goto, TypeOK
  <2> QED
    BY <1>1, <2>1, Zenon DEF LoggedBut, CallLogged, Changing, Agree
<1>3. CASE GetHeld(t)
  <2>1. PICK ip : ip = call[t].ip
    OBVIOUS
  <2>2. ip \in IPs /\ call'[t].ip = ip
    <3>1. PICK n : call' = [call EXCEPT ![t].state = n]
      BY <1>3 DEF GetHeld
    <3>2. call \in [Threads -> Call]
      BY DEF TypeOK
    <3> QED
      BY <2>1, <3>1, <3>2, CallFields, CallAssigned
  <2>3. /\ pc[t] = "get_held" /\ pc'[t] \in {"set", "lock", "idle"}
        /\ pc'[t] = "set" => Read(swabber_ip_db, ip, 0) = 0
        /\ pc'[t] = "lock" => Read(swabber_ip_db, ip, 0) # 0
    BY <1>3, <2>1 DEF GetHeld, FirstRequest, Return, Goto, TypeOK
  <2> QED
    BY <1>1, <2>2, <2>3, Entry, Zenon DEF LoggedBut, CallLogged, Changing, Agree
<1>4. CASE Set(t) \/ Lock(t) \/ LockHeld(t) \/ Drop(t)
  <2>1. /\ call' = call
        /\ \/ pc[t] = "set" /\ pc'[t] = "set_held"
           \/ pc[t] = "lock" /\ pc'[t] \in {"lock_held", "idle"}
           \/ pc[t] = "lock_held" /\ pc'[t] \in {"send", "idle"}
           \/ pc[t] = "drop" /\ pc'[t] = "drop_held"
    BY <1>4 DEF Set, Lock, LockHeld, Drop, TryDb, Return, Goto, TypeOK, DbHeld
  <2> QED
    BY <1>1, <2>1, Zenon DEF LoggedBut, CallLogged, Changing, Agree
<1> QED
  BY <1>2, <1>3, <1>4

LEMMA SetLogged ==
    ASSUME TypeOK, NEW t \in Threads, LoggedBut(t), SetHeld(t)
    PROVE  LoggedBut(t)'
<1>1. PICK ip : ip = call[t].ip
  OBVIOUS
<1>2. /\ pc[t] = "set_held" /\ pc'[t] = "flag" /\ call' = call /\ ban_ip_list' = ban_ip_list
      /\ DOMAIN swabber_ip_db' = DOMAIN swabber_ip_db \cup {ip} /\ ip \in IPs
  BY <1>1, CallFields DEF SetHeld, Write, Goto, TypeOK
<1>3. ~FlaggedLast(ban_ip_list, ip)
  BY <1>1, <1>2 DEF LoggedBut, CallLogged, Changing, Agree
<1>4. CallLogged(t)'
  BY <1>1, <1>2, <1>3 DEF CallLogged
<1> QED
  BY <1>1, <1>2, <1>4 DEF LoggedBut, Changing, Agree

LEMMA FlagLogged ==
    ASSUME TypeOK, NEW t \in Threads, LoggedBut(t), Flag(t)
    PROVE  LoggedBut(t)'
<1>1. PICK ip : ip = call[t].ip
  OBVIOUS
<1>2. /\ pc[t] = "flag" /\ pc'[t] = "idle" /\ call' = call /\ swabber_ip_db' = swabber_ip_db
      /\ ban_ip_list' = Append(ban_ip_list, FlagLine(ip)) /\ ip \in IPs
  BY <1>1, CallFields DEF Flag, Return, Goto, TypeOK, FlagLine
<1>3. ip \in DOMAIN swabber_ip_db /\ ~FlaggedLast(ban_ip_list, ip)
  BY <1>1, <1>2 DEF LoggedBut, CallLogged
<1>4. /\ FlaggedLast(ban_ip_list', ip) /\ Alternate(ban_ip_list')
      /\ \A x \in IPs : x # ip => (FlaggedLast(ban_ip_list', x) <=> FlaggedLast(ban_ip_list, x))
  BY <1>2, <1>3, LogFlag, Zenon DEF LoggedBut, TypeOK, Lines
<1>5. CallLogged(t)'
  BY <1>2 DEF CallLogged
<1>6. \A x \in IPs : Agree(x)'
  BY <1>1, <1>2, <1>3, <1>4 DEF LoggedBut, Changing, Agree
<1> QED
  BY <1>4, <1>5, <1>6 DEF LoggedBut

LEMMA SendLogged ==
    ASSUME TypeOK, NEW t \in Threads, LoggedBut(t), Send(t)
    PROVE  LoggedBut(t)'
<1>1. PICK ip : ip = call[t].ip
  OBVIOUS
<1>2. /\ pc[t] = "send" /\ pc'[t] = "drop" /\ call' = call /\ swabber_ip_db' = swabber_ip_db
      /\ ban_ip_list' = Append(ban_ip_list, BanLine(ip)) /\ ip \in IPs
  BY <1>1, CallFields, Zenon DEF Send, Goto, TypeOK, BanLine
<1>3. GracePeriod > 0 => FlaggedLast(ban_ip_list, ip)
  BY <1>1, <1>2 DEF LoggedBut, CallLogged, Changing, Agree
<1>4. /\ ~FlaggedLast(ban_ip_list', ip) /\ Alternate(ban_ip_list')
      /\ \A x \in IPs : x # ip => (FlaggedLast(ban_ip_list', x) <=> FlaggedLast(ban_ip_list, x))
  BY <1>2, <1>3, LogBan, Zenon DEF LoggedBut, TypeOK, Lines
<1>5. CallLogged(t)'
  BY <1>1, <1>2, <1>4 DEF CallLogged
<1> QED
  BY <1>1, <1>2, <1>4, <1>5 DEF LoggedBut, Changing, Agree

LEMMA DropLogged ==
    ASSUME TypeOK, NEW t \in Threads, LoggedBut(t), DropHeld(t)
    PROVE  LoggedBut(t)'
<1>1. PICK ip : ip = call[t].ip
  OBVIOUS
<1>2. /\ pc[t] = "drop_held" /\ pc'[t] = "idle" /\ call' = call /\ ban_ip_list' = ban_ip_list
      /\ DOMAIN swabber_ip_db' = DOMAIN swabber_ip_db \ {ip} /\ ip \in IPs
  BY <1>1, CallFields, Zenon DEF DropHeld, Erase, Return, Goto, TypeOK
<1>3. ~FlaggedLast(ban_ip_list, ip)
  BY <1>1, <1>2 DEF LoggedBut, CallLogged
<1>4. CallLogged(t)'
  BY <1>2 DEF CallLogged
<1> QED
  BY <1>1, <1>2, <1>3, <1>4 DEF LoggedBut, Changing, Agree
LEMMA LogStep == TypeOK /\ BanInvariant /\ LogInvariant /\ [Next]_vars => LogInvariant'
<1> SUFFICES ASSUME TypeOK, BanInvariant, LogInvariant, [Next]_vars, ~overlapped'
             PROVE  /\ ~Overlap' /\ Alternate(ban_ip_list') /\ \A t \in Threads : CallLogged(t)'
                    /\ \A ip \in IPs : (\A t \in Threads : ~Changing(t, ip)') => Agree(ip)'
  BY DEF LogInvariant
<1>1. ~overlapped
  BY DEF Next, vars
<1>2. ~Overlap'
  <2>1. CASE UNCHANGED vars
    BY <1>1, <2>1 DEF vars, program, Overlap, LogInvariant
  <2> QED
    BY <2>1 DEF Next
<1>3. CASE Quiet
  BY <1>1, <1>2, <1>3, QuietLog
<1>4. ASSUME Next, NEW t \in Threads, Handles(t)
      PROVE  /\ Alternate(ban_ip_list') /\ \A u \in Threads : CallLogged(u)'
             /\ \A ip \in IPs : (\A u \in Threads : ~Changing(u, ip)') => Agree(ip)'
  <2>1. \A u \in Threads : u # t => pc[u] = "idle" /\ pc'[u] = "idle"
    BY <1>4, OneHandler
  <2>2. LoggedBut(t)
    <3>1. \A u \in Threads, ip \in IPs : u # t => ~Changing(u, ip)
      BY <2>1 DEF Changing
    <3> QED
      BY <1>1, <3>1 DEF LogInvariant, LoggedBut
  <2>3. db_mutex = NoThread \/ pc[t] \in DbHeld
    <3>1. db_mutex \in Threads => pc[db_mutex] \in DbHeld
      BY DEF BanInvariant, MutexesHeld
    <3> QED
      BY <2>1, <3>1 DEF TypeOK, DbHeld
  <2>4. LoggedBut(t)'
    BY <1>4, <2>2, <2>3, PassiveStep, SetLogged, FlagLogged, SendLogged, DropLogged DEF Handles, BanStep
  <2>5. \A u \in Threads : u # t => CallLogged(u)' /\ \A ip \in IPs : ~Changing(u, ip)'
    BY <2>1 DEF CallLogged, Changing
  <2> QED
    BY <2>4, <2>5 DEF LoggedBut
<1> QED
  BY <1>2, <1>3, <1>4, QuietStep DEF Next, ProgramStep, Handles

\* While handlers run one at a time, ban_ip_list.log alternates for each ip: it
\* is flagged, then banned, then flagged again (Swabber::ban), for any number
\* of calls and any grace period.
THEOREM LogIsAlternating == Spec => []LogAlternates
<1>1. Init => LogInvariant
  <2> SUFFICES ASSUME Init PROVE LogInvariant
    OBVIOUS
  <2>1. /\ Len(ban_ip_list) = 0 /\ DOMAIN swabber_ip_db = {}
        /\ \A t \in Threads : pc[t] = "idle"
    BY DEF Init, EmptyDb
  <2>2. Alternate(ban_ip_list) /\ \A ip : ~FlaggedLast(ban_ip_list, ip)
    BY <2>1 DEF Alternate, FlaggedLast
  <2> QED
    BY <2>1, <2>2 DEF LogInvariant, Overlap, CallLogged, Agree
<1>2. TypeOK /\ LogInvariant => LogAlternates
  <2> SUFFICES ASSUME TypeOK, LogInvariant, ~overlapped, NEW i \in DOMAIN ban_ip_list,
                      NEW j \in DOMAIN ban_ip_list, i < j, ban_ip_list[i] = ban_ip_list[j],
                      GracePeriod > 0 \/ ban_ip_list[i].line = "flagged"
               PROVE  \E k \in i..j : ban_ip_list[k] = [ban_ip_list[i] EXCEPT !.line = Other(@)]
    BY DEF LogAlternates
  <2>1. PICK line : line = ban_ip_list[i]
    OBVIOUS
  <2>2. line \in [ip : IPs, line : Line] /\ i \in 1..Len(ban_ip_list) /\ j \in 1..Len(ban_ip_list)
    <3>1. PICK T : T = [ip : IPs, line : Line]
      BY Zenon
    <3>2. ban_ip_list \in Seq(T)
      BY <3>1 DEF TypeOK
    <3>3. line \in T /\ i \in 1..Len(ban_ip_list) /\ j \in 1..Len(ban_ip_list)
      BY <2>1, <3>2
    <3> QED
      BY <3>1, <3>3
  <2>3. PICK ip \in IPs : ip = line.ip
    BY <2>2
  <2>4. /\ ban_ip_list[i] = FlagLine(ip) /\ ban_ip_list[j] = FlagLine(ip) =>
              \E k \in i..j : ban_ip_list[k] = BanLine(ip)
        /\ GracePeriod > 0 /\ ban_ip_list[i] = BanLine(ip) /\ ban_ip_list[j] = BanLine(ip) =>
              \E k \in i..j : ban_ip_list[k] = FlagLine(ip)
    <3>1. Alternate(ban_ip_list)
      BY DEF LogInvariant
    <3> QED
      BY <2>2, <3>1, SMTT(30) DEF Alternate
  <2>5. CASE line.line = "flagged"
    <3>1. line = FlagLine(ip) /\ [line EXCEPT !.line = Other(@)] = BanLine(ip)
      BY <2>2, <2>3, <2>5 DEF FlagLine, BanLine, Other
    <3> QED
      BY <2>1, <2>2, <2>4, <3>1
  <2>6. CASE line.line = "banned"
    <3>1. line = BanLine(ip) /\ [line EXCEPT !.line = Other(@)] = FlagLine(ip)
      BY <2>2, <2>3, <2>6 DEF FlagLine, BanLine, Other
    <3> QED
      BY <2>1, <2>2, <2>4, <2>6, <3>1
  <2> QED
    BY <2>2, <2>5, <2>6 DEF Line
<1> QED
  BY <1>1, <1>2, LogStep, BanInvariantHolds, PTL DEF Spec
=============================================================================
