---------------------------- MODULE RegexManager ----------------------------
(***************************************************************************)
(* regex_banner: the rate of matching requests per ip and rule, estimated  *)
(* over a moving window, and the ban when it is excessive.  A request is a *)
(* host and the set of rules that its record matches.                      *)
(*                                                                         *)
(* A rate in hits per millisecond times the interval of its rule is a      *)
(* number of hits.  The model keeps that number, multiplied by Scale so    *)
(* that the divisions by the interval are exact for MaxRequests requests;  *)
(* the rounding of the code's floats is left out.  The unit of time is     *)
(* that of the intervals.                                                  *)
(***************************************************************************)
EXTENDS Naturals, Integers, Sequences, IpDb

CONSTANTS Threads, NoThread, IPs, Hosts,
          Records,      \* the sets of rules that a request's record may match
          Rules,        \* sequence of [interval, hits_per_interval, hosts_to_skip]
          MaxTime, MaxRequests

Ids == 1..Len(Rules)
Scale(id) == Rules[id].interval ^ MaxRequests

\* What is said of Scale, a power of a positive number, is for the provers.
ASSUME RegexAssumption ==
    /\ NoThread \notin Threads /\ IPs # {} /\ Hosts # {}
    /\ {MaxTime, MaxRequests} \subseteq Nat /\ Records \subseteq SUBSET Ids
    /\ Len(Rules) \in Nat \ {0}
    /\ \A id \in Ids : /\ Rules[id].interval \in Nat \ {0}
                       /\ Rules[id].hits_per_interval \in Nat
                       /\ Rules[id].hosts_to_skip \subseteq Hosts
                       /\ Scale(id) \in Nat \ {0}
                       /\ MaxRequests > 0 => Scale(id) >= Rules[id].interval

VARIABLES
    clock,
    regex_manager_ip_db, \* ip -> vector of RegexState
    db_mutex,
    pc, call,            \* per thread: next statement and try_match's locals
    history,             \* per ip and rule: matching requests that were judged
    banned,              \* the bans asked for
    requests,            \* number of requests
    kept                 \* history: did the requests come one at a time, and
                         \* was all that was judged stored?

vars == <<clock, regex_manager_ip_db, db_mutex, pc, call, history, banned, requests, kept>>

Rated(id) == Rules[id].hits_per_interval # 0

\* IpState{}: a vector without elements; resize makes every element zero.
Empty == << >>
NoState == [begin |-> 0, hits |-> 0]
Resized(state) == IF state = Empty THEN [id \in Ids |-> NoState] ELSE state

\* The locals of try_match end with the call.
Fresh(ip, host, matching) == [ip |-> ip, host |-> host, matching |-> matching, rule |-> 1,
                              now |-> 0, state |-> Empty, result |-> 0]

NothingJudged == [judged |-> 0, first |-> 0, last |-> 0, inside |-> 0, spaced |-> TRUE]

Held == {"get_held", "set_held"}
Pc == {"idle", "rule", "get", "judge", "end", "set", "ban"} \cup Held

Init == /\ clock = 1
        /\ regex_manager_ip_db = EmptyDb
        /\ db_mutex = NoThread
        /\ pc = [t \in Threads |-> "idle"]
        /\ \E ip \in IPs, host \in Hosts :
               call = [t \in Threads |-> Fresh(ip, host, {})]
        /\ history = [ip \in IPs |-> [id \in Ids |-> NothingJudged]]
        /\ banned = {}
        /\ requests = 0
        /\ kept = TRUE

Goto(t, statement) == pc' = [pc EXCEPT ![t] = statement]

Leave(t, statement) ==
    /\ Goto(t, statement)
    /\ call' = IF statement = "idle"
               THEN [call EXCEPT ![t] = Fresh(call[t].ip, call[t].host, {})]
               ELSE call

\* The rule the loop of try_match is at, and the step to the next one.
Rule(t) == Rules[call[t].rule]
Advance(t) == IF call[t].rule = Len(Rules) THEN "end" ELSE "rule"
Following(t) == IF call[t].rule = Len(Rules) THEN call[t].rule ELSE call[t].rule + 1

-----------------------------------------------------------------------------
\* on_http_request
Request(t, ip, host, matching) ==
    /\ pc[t] = "idle" /\ requests < MaxRequests
    /\ requests' = requests + 1
    /\ call' = [call EXCEPT ![t] = Fresh(ip, host, matching)]
    /\ Goto(t, "rule")
    /\ UNCHANGED <<clock, regex_manager_ip_db, db_mutex, history, banned>>

\* A rule that skips the host ends the matching: no later rule is looked at
\* and what earlier rules counted is not stored.
SkipHost(t) ==
    /\ pc[t] = "rule" /\ call[t].host \in Rule(t).hosts_to_skip
    /\ Leave(t, "idle")
    /\ UNCHANGED <<clock, regex_manager_ip_db, db_mutex, history, banned, requests>>

NoMatch(t) ==
    /\ pc[t] = "rule" /\ call[t].host \notin Rule(t).hosts_to_skip
    /\ call[t].rule \notin call[t].matching
    /\ call' = [call EXCEPT ![t].rule = Following(t)]
    /\ Goto(t, Advance(t))
    /\ UNCHANGED <<clock, regex_manager_ip_db, db_mutex, history, banned, requests>>

\* A match of a rule without a rate bans at once, one of a rule with a rate
\* reads the clock and, if the ip's state was not read yet, the database.
Match(t) ==
    /\ pc[t] = "rule" /\ call[t].host \notin Rule(t).hosts_to_skip
    /\ call[t].rule \in call[t].matching
    /\ \/ /\ ~Rated(call[t].rule)
          /\ call' = [call EXCEPT ![t].result = call[t].rule]
          /\ Goto(t, "ban")
       \/ /\ Rated(call[t].rule)
          /\ call' = [call EXCEPT ![t].now = clock]
          /\ Goto(t, IF call[t].state = Empty THEN "get" ELSE "judge")
    /\ UNCHANGED <<clock, regex_manager_ip_db, db_mutex, history, banned, requests>>

\* Without the mutex there is no judgement by this rule.
Get(t) ==
    /\ pc[t] = "get"
    /\ \/ /\ db_mutex = NoThread /\ db_mutex' = t
          /\ Goto(t, "get_held")
          /\ UNCHANGED call
       \/ /\ db_mutex # NoThread /\ UNCHANGED db_mutex
          /\ call' = [call EXCEPT ![t].rule = Following(t)]
          /\ Goto(t, Advance(t))
    /\ UNCHANGED <<clock, regex_manager_ip_db, history, banned, requests>>

GetHeld(t) ==
    /\ pc[t] = "get_held"
    /\ db_mutex' = NoThread
    /\ call' = [call EXCEPT ![t].state =
                    Resized(Read(regex_manager_ip_db, call[t].ip, Empty))]
    /\ Goto(t, "judge")
    /\ UNCHANGED <<clock, regex_manager_ip_db, history, banned, requests>>

\* The window moves to end now; the rate loses the share that moved out and
\* gains this hit, and is one hit per interval if that would be negative.
MovedForgets(id, state, movement) == [begin |-> state.begin + movement, hits |-> state.hits + Scale(id)]
Moved(id, state, movement) ==
    LET hits == state.hits - (state.hits * movement) \div Rules[id].interval + Scale(id)
    IN  [begin |-> state.begin + movement, hits |-> IF hits < 0 THEN Scale(id) ELSE hits]

CountedTwice(id, state) == [state EXCEPT !.hits = @ + 2 * Scale(id)]
Counted(id, state) == [state EXCEPT !.hits = @ + Scale(id)]

Begun(state, now) == IF state.begin = 0 THEN [state EXCEPT !.begin = now] ELSE state
Movement(id, state, now) == now - state.begin - Rules[id].interval

Updated(id, state, now) ==
    LET begun == Begun(state, now)
        movement == Movement(id, begun, now)
    IN  IF movement > 0 THEN Moved(id, begun, movement) ELSE Counted(id, begun)

ExcessiveLate(id, state) == state.hits > Rules[id].hits_per_interval * Scale(id)
Excessive(id, state) == state.hits >= Rules[id].hits_per_interval * Scale(id)

\* history: the hits that fall into the interval the first one began; a hit is
\* spaced if fewer than hits_per_interval hits at this distance fit into one.
Noted(id, h, now) ==
    LET interval == Rules[id].interval
        first == IF h.judged = 0 THEN now ELSE h.first
    IN  [judged |-> h.judged + 1, first |-> first, last |-> now,
         inside |-> h.inside + IF now - first <= interval THEN 1 ELSE 0,
         spaced |-> /\ h.spaced /\ Rules[id].hits_per_interval > 1
                    /\ h.judged > 0 =>
                         (now - h.last) * (Rules[id].hits_per_interval - 1) > interval]

Judge(t) ==
    LET id == call[t].rule
        state == Updated(id, call[t].state[id], call[t].now)
    IN  /\ pc[t] = "judge"
        /\ history' = [history EXCEPT ![call[t].ip][id] = Noted(id, @, call[t].now)]
        /\ \/ /\ Excessive(id, state)
              /\ call' = [call EXCEPT ![t].state[id] = state, ![t].result = id]
              /\ Goto(t, "set")
           \/ /\ ~Excessive(id, state)
              /\ call' = [call EXCEPT ![t].state[id] = state, ![t].rule = Following(t)]
              /\ Goto(t, Advance(t))
        /\ UNCHANGED <<clock, regex_manager_ip_db, db_mutex, banned, requests>>

\* After the last rule a state that was read or made is stored.
EndMatch(t) ==
    /\ pc[t] = "end"
    /\ Leave(t, IF call[t].state = Empty THEN "idle" ELSE "set")
    /\ UNCHANGED <<clock, regex_manager_ip_db, db_mutex, history, banned, requests>>

AfterSet(t) == IF call[t].result = 0 THEN "idle" ELSE "ban"

Set(t) ==
    /\ pc[t] = "set"
    /\ \/ db_mutex = NoThread /\ db_mutex' = t /\ Leave(t, "set_held")
       \/ db_mutex # NoThread /\ UNCHANGED db_mutex /\ Leave(t, AfterSet(t))
    /\ UNCHANGED <<clock, regex_manager_ip_db, history, banned, requests>>

SetHeld(t) ==
    /\ pc[t] = "set_held"
    /\ regex_manager_ip_db' = Write(regex_manager_ip_db, call[t].ip, call[t].state)
    /\ db_mutex' = NoThread
    /\ Leave(t, AfterSet(t))
    /\ UNCHANGED <<clock, history, banned, requests>>

\* swabber->ban and the forbidden message.
Ban(t) ==
    /\ pc[t] = "ban"
    /\ banned' = banned \cup {[ip |-> call[t].ip, rule |-> call[t].result]}
    /\ Leave(t, "idle")
    /\ UNCHANGED <<clock, regex_manager_ip_db, db_mutex, history, requests>>

Tick == /\ clock < MaxTime
        /\ clock' = clock + 1
        /\ UNCHANGED <<regex_manager_ip_db, db_mutex, pc, call, history, banned, requests>>

Step(t) == \/ SkipHost(t) \/ NoMatch(t) \/ Match(t) \/ Get(t) \/ GetHeld(t) \/ Judge(t)
           \/ EndMatch(t) \/ Set(t) \/ SetHeld(t) \/ Ban(t)

\* Two requests at once; a request that leaves the loop without storing the
\* state it has read or made (SkipHost, Match).
Overlap == \E t, u \in Threads : t # u /\ pc[t] # "idle" /\ pc[u] # "idle"
Unstored == \E t \in Threads :
                pc[t] = "rule" /\ call[t].state # Empty /\ pc'[t] \in {"idle", "ban"}
Keep == kept' = (kept /\ ~Overlap' /\ ~Unstored)

ProgramStep ==
    \/ \E t \in Threads : Step(t)
    \/ \E t \in Threads, ip \in IPs, host \in Hosts, matching \in Records :
           Request(t, ip, host, matching)
    \/ Tick

Next == ProgramStep /\ Keep

Spec == Init /\ [][Next]_vars

-----------------------------------------------------------------------------
RegexState == [begin : Nat, hits : Nat]
Call == [ip : IPs, host : Hosts, matching : SUBSET Ids, rule : Ids, now : Nat,
         state : [Ids -> RegexState] \cup {Empty}, result : Ids \cup {0}]

\* The types; no window begins in the future, and a thread that is to judge a
\* request or to store its state has read or made one, and one to ban a rule.
TypeOK ==
    /\ clock \in Nat /\ requests \in Nat
    /\ DOMAIN regex_manager_ip_db \subseteq IPs
    /\ \A ip \in DOMAIN regex_manager_ip_db :
           /\ regex_manager_ip_db[ip] \in [Ids -> RegexState]
           /\ \A id \in Ids : regex_manager_ip_db[ip][id].begin <= clock
    /\ db_mutex \in Threads \cup {NoThread}
    /\ pc \in [Threads -> Pc] /\ call \in [Threads -> Call]
    /\ \A t \in Threads :
           /\ db_mutex = t <=> pc[t] \in Held
           /\ call[t].now <= clock
           /\ call[t].state # Empty => \A id \in Ids : call[t].state[id].begin <= clock
           /\ pc[t] \in {"judge", "set", "set_held"} => call[t].state # Empty
           /\ pc[t] = "ban" => call[t].result # 0
    /\ banned \subseteq [ip : IPs, rule : Ids]
    /\ kept \in BOOLEAN

\* However requests of an ip interleave, overwrite each other's states or miss
\* the mutex: a rule with a rate bans an ip only after it has judged at least
\* hits_per_interval matching requests of that ip.
BanNeedsHits ==
    \A b \in banned : Rated(b.rule) =>
        history[b.ip][b.rule].judged >= Rules[b.rule].hits_per_interval

\* An ip whose matching requests are spaced so that fewer than
\* hits_per_interval of them fall into any interval is never banned by the
\* rule, whatever happened to the window before (try_match), as long as the
\* requests do not overlap and no judgement is lost.
SpacedNotBanned ==
    kept => \A b \in banned : Rated(b.rule) => ~history[b.ip][b.rule].spaced

\* hits_per_interval matching requests within the interval that the first one
\* of an ip begins do ban the ip (try_match), on the same condition.
FirstIntervalBans ==
    kept => \A ip \in IPs, id \in Ids :
        /\ Rated(id) /\ history[ip][id].inside >= Rules[id].hits_per_interval
        /\ \A t \in Threads : pc[t] = "idle"
        => [ip |-> ip, rule |-> id] \in banned
=============================================================================
