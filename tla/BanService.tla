----------------------------- MODULE BanService -----------------------------
(***************************************************************************)
(* What the swabber interface promises the filters: they ask for bans, and *)
(* the interface delivers to the swabber daemon only bans that were asked  *)
(* for twice, the second time at least GracePeriod seconds after the first *)
(* (swabber.h, comment on grace_period).  Once closed it delivers nothing. *)
(* Delivery is best effort: nothing here obliges the service to deliver.   *)
(***************************************************************************)
EXTENDS Naturals, Sequences

CONSTANTS IPs,          \* client addresses
          GracePeriod,  \* seconds between the first request and the ban
          MaxTime       \* bound on the clock

VARIABLES clock,   \* seconds; 0 is reserved, as in the code
          asked,   \* asked[ip]: every request to ban ip, with its time
          wire,    \* the ips sent to the swabber daemon, in order
          open     \* the service still owns its socket

vars == <<clock, asked, wire, open>>

Requester == {"filter", "denialator"}

Init == /\ clock = 1
        /\ asked = [ip \in IPs |-> {}]
        /\ wire = << >>
        /\ open = TRUE

Ask(ip) == /\ \E w \in Requester :
                asked' = [asked EXCEPT ![ip] = @ \cup {[at |-> clock, who |-> w]}]
           /\ UNCHANGED <<clock, wire, open>>

\* A ban of ip is justified by two requests far enough apart.
Justified(ip) == \E a, b \in asked[ip] : a.at + GracePeriod <= b.at

Deliver(ip) == /\ open
               /\ Justified(ip)
               /\ wire' = Append(wire, ip)
               /\ UNCHANGED <<clock, asked, open>>

Close == /\ open' = FALSE
         /\ UNCHANGED <<clock, asked, wire>>

Tick == /\ clock < MaxTime
        /\ clock' = clock + 1
        /\ UNCHANGED <<asked, wire, open>>

Next == \/ \E ip \in IPs : Ask(ip) \/ Deliver(ip)
        \/ Close
        \/ Tick

Spec == Init /\ [][Next]_vars
=============================================================================
