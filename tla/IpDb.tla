-------------------------------- MODULE IpDb --------------------------------
(***************************************************************************)
(* The per-filter database of ip states (src/src/ip_db.h): an unordered    *)
(* map from ip to state behind one mutex that is only ever tried.  Every   *)
(* operation is one critical section; a client module models it as a try   *)
(* of the mutex followed by one of the operators below, evaluated while    *)
(* the mutex is held.  Two operations of one client are therefore two      *)
(* critical sections, and nothing protects what was read in the first.     *)
(***************************************************************************)
EXTENDS Naturals, FiniteSets

\* The map with no entry (the constructor).
EmptyDb == [ip \in {} |-> 0]

\* get_ip_state with the mutex held: an ip without an entry reads as the
\* default-constructed state.
Read(db, ip, default) == IF ip \in DOMAIN db THEN db[ip] ELSE default

\* set_ip_state with the mutex held: insert the ip if it is new, assign.
Write(db, ip, state) ==
    [i \in DOMAIN db \cup {ip} |-> IF i = ip THEN state ELSE db[i]]

\* drop_ip with the mutex held: erase.
EraseNothing(db, ip) == db
Erase(db, ip) == [i \in DOMAIN db \ {ip} |-> db[i]]
=============================================================================
