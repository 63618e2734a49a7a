--------------------------- MODULE MCRegexManager ---------------------------
(* Instances of RegexManager: either two threads at once over a short time, *)
(* or calls one after the other over several intervals.                     *)
EXTENDS RegexManager, TLC

VARIABLE apart   \* do the calls come one after the other?

Symmetry == Permutations(Threads)

OneIp == {"ip1"}
TwoHosts == {"host1", "host2"}

Rule1(interval, hits, skip) ==
    [interval |-> interval, hits_per_interval |-> hits, hosts_to_skip |-> skip]

\* Two rated rules, a host skipped by the second, and a rule without a rate.
Several == << Rule1(2, 2, {}), Rule1(4, 3, {"host2"}), Rule1(1, 0, {}) >>
MatchingSeveral == {{1}, {1, 2}, {2}, {1, 2, 3}}

\* The bounds of calls at once; the constants bound calls one by one, which
\* all match the second rule.
TogetherTime == 4
TogetherRequests == 3

MCInit == Init /\ apart \in BOOLEAN
MCNext ==
    /\ \/ \E t \in Threads : Step(t)
       \/ /\ ~apart /\ requests < TogetherRequests
          /\ \E t \in Threads, ip \in IPs, host \in Hosts, matching \in Records :
                 Request(t, ip, host, matching)
       \/ /\ apart /\ (\A t \in Threads : pc[t] = "idle")
          /\ \E t \in Threads, ip \in IPs : Request(t, ip, "host1", {2})
       \/ (apart \/ clock < TogetherTime) /\ Tick
    /\ Keep /\ UNCHANGED apart
MCSpec == MCInit /\ [][MCNext]_<<vars, apart>>
=============================================================================
