---------------------------- MODULE Transaction ----------------------------
(***************************************************************************)
(* One HTTP transaction: the events that Traffic Server (ATS) delivers to  *)
(* the plugin's continuation, the parts of the request that the muncher    *)
(* retrieves, the chain of filters, the answer of the filter that responds *)
(* and the log line of bot_sniffer.  What a filter decides is any result   *)
(* its code can return; why it decides so is in the filters' own modules.  *)
(***************************************************************************)
EXTENDS Naturals, Sequences

CONSTANT Unreliable   \* the ATS calls that may fail

Filters == {"regex_banner", "challenger", "bot_sniffer", "white_lister", "denialator"}
Calls == {"client_req", "url_host_set", "client_resp", "no_store_set", "config_int_set"}
Elements(s) == {s[i] : i \in DOMAIN s}

ASSUME TransactionAssumption == Unreliable \subseteq Calls

VARIABLES
    filters,         \* the filters of the current instance, in the order of priority
    http_request_queue, \* its task_queues[HTTP_REQUEST]
    pc,              \* what the plugin is doing for the transaction
    event,           \* the last event delivered
    reenabled,       \* the reenables of that event
    cur_trans_parts, \* the keys of the map of parts
    valid_parts,     \* the parts whose bit is set
    position,        \* of handle_request's loop
    results,         \* what the filters returned, in order
    response_info,   \* the filter that responds
    cache_http,      \* may ATS look the request up in its cache?
    source,          \* where the response comes from
    answer,          \* the filter whose body, status and headers were set
    logged,          \* what bot_sniffer sent
    failed           \* the ATS calls that have failed

chain == <<filters, http_request_queue>>
muncher == <<cur_trans_parts, valid_parts>>
vars == <<chain, pc, event, reenabled, muncher, position, results, response_info,
          cache_http, source, answer, logged, failed>>

Nothing == "nothing"
RequestParts == {"IP", "URL", "HOST", "UA", "COOKIE", "URL_WITH_HOST", "METHOD", "PROTOCOL"}
ResponseParts == {"STATUS", "CONTENT_LENGTH"}
Parts == RequestParts \cup ResponseParts \cup {"MISS"}

-----------------------------------------------------------------------------
(* What the filters ask for, as build_filters puts it together. *)

requested_info ==
    [regex_banner |-> {"IP", "METHOD", "URL", "HOST", "UA"},
     challenger |-> {"IP", "URL", "HOST", "UA", "URL_WITH_HOST", "COOKIE"},
     bot_sniffer |-> {"IP", "UA", "URL_WITH_HOST", "PROTOCOL"},
     white_lister |-> {"IP", "HOST"},
     denialator |-> {"IP"}]

all_filters_requested_last ==
    IF filters = << >> THEN {} ELSE requested_info[filters[Len(filters)]]
all_filters_requested_part == UNION {requested_info[f] : f \in Elements(filters)}

all_filters_response_part ==
    IF "bot_sniffer" \in Elements(filters) THEN ResponseParts ELSE {}

\* The parts a filter takes with at(), which throws when there is no such part.
\* The challenger looks at the url for captchas and protected pages only.
ReadOnRequest(f) ==
    CASE f = "white_lister" -> {{"IP", "HOST"}}
      [] f = "denialator"   -> {{"IP"}}
      [] f = "challenger"   -> {{"HOST", "IP", "COOKIE"},
                                {"HOST", "IP", "COOKIE", "URL_WITH_HOST"}}
      [] f = "regex_banner" -> {{}}

\* regex_banner uses operator[] on the shared map, which adds what is missing.
AddedOnRequest(f) == IF f = "regex_banner" THEN requested_info[f] ELSE {}

\* A banned client's page needs no part.
ReadOnResponse(f) ==
    IF f = "challenger" THEN {{}, {"IP", "URL_WITH_HOST", "HOST"}} ELSE {{}}

ReadOnClose ==
    valid_parts \cap {"IP", "URL_WITH_HOST", "PROTOCOL", "STATUS", "CONTENT_LENGTH", "UA"}

Results(f) ==
    CASE f = "white_lister" -> {"GO_AHEAD_NO_COMMENT", "SERVE_IMMIDIATELY_DONT_CACHE"}
      [] f = "challenger"   -> {"GO_AHEAD_NO_COMMENT", "SERVE_IMMIDIATELY_DONT_CACHE",
                                "SERVE_FRESH", "I_RESPOND"}
      [] OTHER              -> {"GO_AHEAD_NO_COMMENT", "I_RESPOND"}

Ok(call) == IF call \in Unreliable THEN BOOLEAN ELSE {TRUE}
Failing(call, ok) == IF ok THEN {} ELSE {call}

-----------------------------------------------------------------------------
(* TransactionMuncher: what a retrieval adds to the map and to the bits.  A *)
(* part that ATS cannot give is present and empty.  The url with the host   *)
(* is missing when ATS refuses to set the host, but its bit is set.         *)

ToRetrieve(requested) == requested \ valid_parts

Alongside(wanted) ==
    (IF wanted \cap {"URL", "PROTOCOL"} # {} THEN {"URL", "PROTOCOL"} ELSE {})
    \cup (IF "URL_WITH_HOST" \in wanted THEN {"HOST", "URL", "PROTOCOL"} ELSE {})

retrieve_parts(requested, hostSet) ==
    LET wanted == ToRetrieve(requested)
        without == IF hostSet THEN {} ELSE {"URL_WITH_HOST"}
    IN  /\ cur_trans_parts' = cur_trans_parts \cup ((wanted \cup Alongside(wanted)) \ without)
        /\ valid_parts' = valid_parts \cup requested
             \cup (IF "URL_WITH_HOST" \in wanted THEN {"HOST", "URL"} ELSE {})

RetrieveResponseMarksAll(requested) ==
    /\ cur_trans_parts' = cur_trans_parts \cup ToRetrieve(requested)
    /\ valid_parts' = valid_parts \cup cur_trans_parts'
retrieve_response_parts(requested) ==
    /\ cur_trans_parts' = cur_trans_parts \cup ToRetrieve(requested)
    /\ valid_parts' = valid_parts \cup requested

\* The header is needed only if some part is; without it the muncher throws.
\* Where a retrieval succeeds the handler goes on at the statement next.
Retrieve(next) ==
    \E header \in Ok("client_req"), hostSet \in Ok("url_host_set") :
        LET wanted == ToRetrieve(all_filters_requested_part)
            needsHost == "URL_WITH_HOST" \in wanted
        IN  IF wanted # {} /\ ~header
            THEN /\ pc' = "thrown" /\ failed' = failed \cup {"client_req"}
                 /\ UNCHANGED muncher
            ELSE /\ pc' = next
                 /\ failed' = failed \cup (IF needsHost THEN Failing("url_host_set", hostSet) ELSE {})
                 /\ retrieve_parts(all_filters_requested_part, hostSet)

-----------------------------------------------------------------------------
\* A transaction before its first event; ConfiguredTransaction configures the
\* instance that it runs on.
Fresh == /\ pc = "new" /\ event = "TXN_START" /\ reenabled = << >>
         /\ cur_trans_parts = {} /\ valid_parts = {}
         /\ position = 1 /\ results = << >>
         /\ response_info = Nothing
         /\ cache_http = TRUE /\ source = Nothing /\ answer = Nothing
         /\ logged = Nothing /\ failed = {}

Reenable(code) == reenabled' = Append(reenabled, code)

\* handle_transaction_start
Start == /\ pc = "new" /\ pc' = "waiting" /\ Reenable("CONTINUE")
         /\ UNCHANGED <<chain, event, muncher, position, results, response_info,
                        cache_http, source, answer, logged, failed>>

(* ATS, external: an event follows the reenable of the one before it.  A   *)
(* request may be malformed, answered from the cache or by the origin, and *)
(* its client may leave at any time.                                       *)
Following(e, code) ==
    CASE e = "TXN_START"         -> {"READ_REQUEST_HDR", "SEND_RESPONSE_HDR", "TXN_CLOSE"}
      [] e = "READ_REQUEST_HDR"  -> {"SEND_RESPONSE_HDR", "TXN_CLOSE"}
                                    \cup (IF code = "CONTINUE" THEN {"SEND_REQUEST_HDR"} ELSE {})
      [] e = "SEND_REQUEST_HDR"  -> {"SEND_RESPONSE_HDR", "TXN_CLOSE"}
      [] e = "SEND_RESPONSE_HDR" -> {"TXN_CLOSE"}
      [] e = "TXN_CLOSE"         -> {}

Sources(e) ==
    CASE e = "SEND_REQUEST_HDR" -> {"origin"}
      [] e = "SEND_RESPONSE_HDR" /\ source = Nothing ->
             {"ats"} \cup (IF event = "READ_REQUEST_HDR" /\ reenabled[1] = "CONTINUE" /\ cache_http
                           THEN {"cache"} ELSE {})
      [] OTHER -> {source}

Deliver(e) ==
    /\ pc = "waiting" /\ reenabled # << >> /\ e \in Following(event, reenabled[1])
    /\ event' = e /\ reenabled' = << >> /\ pc' = e
    /\ source' \in Sources(e)
    /\ UNCHANGED <<chain, muncher, position, results, response_info, cache_http,
                   answer, logged, failed>>

-----------------------------------------------------------------------------
\* handle_request, until its loop
HandleRequest ==
    /\ pc = "READ_REQUEST_HDR"
    /\ Retrieve("filtering")
    /\ UNCHANGED <<chain, event, reenabled, position, results, response_info,
                   cache_http, source, answer, logged>>

\* The statement after a result: on with the loop, out of it, or return.
AfterResultFallsThrough(result) ==
    IF result = "SERVE_IMMIDIATELY_DONT_CACHE" THEN "filtered" ELSE "filtering"
AfterResultKeepsFiltering(result) == IF result = "I_RESPOND" THEN "waiting" ELSE "filtering"
AfterResult(result) ==
    CASE result = "I_RESPOND"                    -> "waiting"
      [] result = "SERVE_IMMIDIATELY_DONT_CACHE" -> "filtered"
      [] OTHER                                   -> "filtering"

RespondCodeContinue == "CONTINUE"
RespondCode == "ERROR"

\* SERVE_FRESH turns the cache off if the response could be made uncachable.
ServeFreshStored == UNCHANGED <<cache_http, failed>>
ServeFresh ==
    \E noStore \in Ok("no_store_set"), config \in Ok("config_int_set") :
        /\ cache_http' = (cache_http /\ ~(noStore /\ config))
        /\ failed' = failed \cup (IF noStore THEN Failing("config_int_set", config)
                                             ELSE {"no_store_set"})

\* One turn of the loop, f being its filter.
RunFilter(f) ==
    /\ pc = "filtering" /\ position <= Len(http_request_queue) /\ f = http_request_queue[position]
    /\ \E read \in ReadOnRequest(f) :
         \/ /\ ~(read \subseteq cur_trans_parts) /\ pc' = "thrown"
            /\ UNCHANGED <<reenabled, cur_trans_parts, position, results, response_info,
                           cache_http, failed>>
         \/ /\ read \subseteq cur_trans_parts
            /\ cur_trans_parts' = cur_trans_parts \cup AddedOnRequest(f)
            /\ \E result \in Results(f) :
                 /\ results' = Append(results, result)
                 /\ position' = position + 1
                 /\ pc' = AfterResult(result)
                 /\ IF result = "SERVE_FRESH" THEN ServeFresh
                                              ELSE UNCHANGED <<cache_http, failed>>
                 /\ IF result = "I_RESPOND" THEN response_info' = f /\ Reenable(RespondCode)
                                            ELSE UNCHANGED <<response_info, reenabled>>
    /\ UNCHANGED <<chain, event, valid_parts, source, answer, logged>>

EndRequest ==
    /\ \/ pc = "filtered"
       \/ pc = "filtering" /\ position > Len(http_request_queue)
    /\ pc' = "waiting" /\ Reenable("CONTINUE")
    /\ UNCHANGED <<chain, event, muncher, position, results, response_info,
                   cache_http, source, answer, logged, failed>>

\* SEND_REQUEST_HDR: the cache was missed.
Miss == /\ pc = "SEND_REQUEST_HDR"
        /\ cur_trans_parts' = cur_trans_parts \cup {"MISS"}
        /\ pc' = "waiting" /\ Reenable("CONTINUE")
        /\ UNCHANGED <<chain, event, valid_parts, position, results, response_info,
                       cache_http, source, answer, logged, failed>>

\* handle_response: the filter's answer if there is one; otherwise only a
\* connection failure (status 110) is replaced by an error page.
Answer ==
    \E read \in ReadOnResponse(response_info) :
        \/ /\ ~(read \subseteq cur_trans_parts') /\ pc' = "thrown"
           /\ UNCHANGED <<answer, reenabled>>
        \/ /\ read \subseteq cur_trans_parts' /\ pc' = "waiting"
           /\ answer' = response_info /\ Reenable("CONTINUE")

HandleResponse ==
    /\ pc = "SEND_RESPONSE_HDR"
    /\ \/ /\ "client_resp" \in Unreliable /\ pc' = "thrown"
          /\ failed' = failed \cup {"client_resp"}
          /\ UNCHANGED <<muncher, answer, reenabled>>
       \/ /\ retrieve_response_parts(all_filters_response_part)
          /\ \/ response_info # Nothing /\ Answer
             \/ /\ response_info = Nothing /\ pc' = "waiting"
                /\ \/ answer' = "connection failure" /\ Reenable("ERROR")
                   \/ UNCHANGED answer /\ Reenable("CONTINUE")
          /\ UNCHANGED failed
    /\ UNCHANGED <<chain, event, position, results, response_info, cache_http, source, logged>>

\* TXN_CLOSE: handle_http_close, until its loop over the one possible task
HandleClose ==
    /\ pc = "TXN_CLOSE"
    /\ Retrieve("closing")
    /\ UNCHANGED <<chain, event, reenabled, position, results, response_info,
                   cache_http, source, answer, logged>>

HitOrMiss == IF "MISS" \in cur_trans_parts THEN "HIT" ELSE "MISS"

\* bot_sniffer's line is not sent if its mutex is taken or its socket unbound;
\* then the transaction's data are destroyed.
Close ==
    /\ pc = "closing"
    /\ \/ /\ "bot_sniffer" \in Elements(filters) /\ ~(ReadOnClose \subseteq cur_trans_parts)
          /\ pc' = "thrown"
          /\ UNCHANGED <<logged, reenabled>>
       \/ /\ "bot_sniffer" \in Elements(filters) /\ ReadOnClose \subseteq cur_trans_parts
          /\ logged' = HitOrMiss
          /\ pc' = "gone" /\ Reenable("CONTINUE")
       \/ /\ pc' = "gone" /\ Reenable("CONTINUE")
          /\ UNCHANGED logged
    /\ UNCHANGED <<chain, event, muncher, position, results, response_info,
                   cache_http, source, answer, failed>>

Events == {"READ_REQUEST_HDR", "SEND_REQUEST_HDR", "SEND_RESPONSE_HDR", "TXN_CLOSE"}

Next == \/ Start \/ HandleRequest \/ EndRequest \/ Miss
        \/ HandleResponse \/ HandleClose \/ Close
        \/ \E e \in Events : Deliver(e)
        \/ \E f \in Filters : RunFilter(f)

-----------------------------------------------------------------------------
(* The type of every variable (transaction_data.h, transaction_muncher.h). *)
TypeOK ==
    /\ filters \in Seq(Filters) /\ http_request_queue \in Seq(Filters)
    /\ pc \in {"new", "waiting", "filtering", "filtered", "closing", "gone", "thrown"} \cup Events
    /\ event \in Events \cup {"TXN_START"}
    /\ reenabled \in Seq({"CONTINUE", "ERROR"})
    /\ cur_trans_parts \subseteq Parts /\ valid_parts \subseteq Parts \ {"MISS"}
    /\ position \in 1..Len(http_request_queue) + 1
    /\ \A i \in DOMAIN results : results[i] \in Results(http_request_queue[i])
    /\ response_info \in Filters \cup {Nothing}
    /\ cache_http \in BOOLEAN
    /\ source \in {Nothing, "ats", "cache", "origin"}
    /\ answer \in Filters \cup {Nothing, "connection failure"}
    /\ logged \in {Nothing, "HIT", "MISS"}
    /\ failed \subseteq Unreliable

(* Every event is reenabled once: never twice (ATS would run the next state *)
(* of the transaction twice), and not left without a reenable by a handler  *)
(* that has returned.                                                       *)
ReenabledOnce == /\ Len(reenabled) <= 1
                 /\ pc \in {"waiting", "gone"} => Len(reenabled) = 1

(* The first filter with a verdict decides: after I_RESPOND or              *)
(* SERVE_IMMIDIATELY_DONT_CACHE no filter of lower priority runs, and the   *)
(* client gets the answer of the filter that responded, and only that.      *)
Verdicts == {"I_RESPOND", "SERVE_IMMIDIATELY_DONT_CACHE"}
FirstVerdictStands ==
    /\ \A i \in DOMAIN results : results[i] \in Verdicts => i = Len(results)
    /\ answer \in Filters =>
           /\ results # << >> /\ results[Len(results)] = "I_RESPOND"
           /\ answer = http_request_queue[Len(results)]

(* A request that a filter answers is never sent to the origin, and its     *)
(* answer is not taken from the cache.                                      *)
AnsweredNotForwarded == response_info # Nothing => source \in {Nothing, "ats"}

(* A page for which the challenger returned SERVE_FRESH does not come from  *)
(* the cache, unless ATS refused a setting.                                 *)
FreshNotFromCache ==
    /\ \E i \in DOMAIN results : results[i] = "SERVE_FRESH"
    /\ failed \cap {"no_store_set", "config_int_set"} = {}
    => source # "cache"

(* The union of the filters' requests is enough: no filter, response        *)
(* generator or log line looks up a part that is not there, in any order of *)
(* any set of filters, unless a call to ATS has failed.                     *)
ThrowsOnlyOnFailure == pc = "thrown" => failed # {}

(* The log line says MISS if the transaction missed the cache and HIT if it *)
(* was served from it (bot_sniffer.cpp:86, transaction_muncher.h:122).      *)
LoggedMiss ==
    logged # Nothing /\ source \in {"cache", "origin"} =>
        logged = IF source = "origin" THEN "MISS" ELSE "HIT"
=============================================================================
