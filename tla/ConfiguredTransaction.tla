----------------------- MODULE ConfiguredTransaction -----------------------
(***************************************************************************)
(* Configuration and Transaction composed: TSPluginInit reads the          *)
(* configuration before it registers the hook for transactions, which run  *)
(* the filters that build_filters queued.                                  *)
(***************************************************************************)
EXTENDS Transaction, Configuration

\* The hook is registered: the instance that was built is the current one.
Register ==
    /\ phase = "ready" /\ pc = "new"
    /\ phase' = "current"
    /\ filters' = [i \in DOMAIN built |-> built[i].name]
    /\ http_request_queue' = task_queue
    /\ UNCHANGED <<pc, event, reenabled, muncher, position, results, response_info,
                   cache_http, source, answer, logged, failed>>
    /\ UNCHANGED <<contents, reading, sections, priority_map, outcome, reason>>

ServerInit == ConfInit /\ filters = << >> /\ http_request_queue = << >> /\ Fresh
Configure == ConfNext /\ UNCHANGED vars
Serve == phase = "current" /\ Next /\ UNCHANGED ConfVars
ServerNext == Configure \/ Register \/ Serve

ServerVars == <<vars, ConfVars>>
ServerSpec ==
    ServerInit /\ [][ServerNext]_ServerVars /\ WF_ServerVars(Configure)

-----------------------------------------------------------------------------
(* The types of the whole: of the transaction (transaction_data.h and       *)
(* transaction_muncher.h) and of the instance that it runs on (banjax.h).   *)
ServerTypeOK == TypeOK /\ ConfTypeOK

(* "White listed IPs do not go through any other filter configured with     *)
(* lower priority than white_lister" (src/README.md:138): once the white    *)
(* lister has served a request, no filter with a greater number in the      *)
(* priority list has run, nor, when the white lister is in the list, one    *)
(* that is not in it.                                                       *)
WhiteListedSkips ==
    \A i, j \in DOMAIN results :
        LET f == http_request_queue[j]
        IN  /\ http_request_queue[i] = "white_lister"
            /\ results[i] = "SERVE_IMMIDIATELY_DONT_CACHE"
            /\ Ranked("white_lister")
            => Ranked(f) /\ priorities[f] <= priorities["white_lister"]
=============================================================================
