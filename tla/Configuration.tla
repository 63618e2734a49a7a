--------------------------- MODULE Configuration ---------------------------
(***************************************************************************)
(* How an instance of Banjax reads its configuration: process_config walks *)
(* banjax.conf and the files it includes, read_configuration gives every   *)
(* filter its priority, build_filters constructs the filters in that order *)
(* and the Kafka client is set up.  A node of a file is its name and what  *)
(* the code looks at in its value; the stack is that of the recursive      *)
(* calls.  Any error ends Traffic Server (abort_traffic_server).           *)
(***************************************************************************)
EXTENDS Integers, Sequences, Functions

CONSTANTS
    Configurations,        \* functions from the readable files to their nodes
    Walk(_, _),            \* the nodes of a depth-first walk from some nodes on,
    WalkFiles(_, _)        \* and through some files

FilterNames == <<"bot_sniffer", "challenger", "denialator", "regex_banner", "white_lister">>
AllFilters == Range(FilterNames)
MainFile == "banjax.conf"
Unset == "unset"

\* A node: its name, the list in its section, its scalar settings (or Unset)
\* and the numbers of a priority list.
IsNode(n) ==
    /\ n \in [name : STRING, items : Seq(STRING), key : STRING, ranks : {n.ranks}]
    /\ \E S \in SUBSET AllFilters : n.ranks \in [S -> Int]

ASSUME ConfAssumption ==
    \A c \in Configurations :
        /\ MainFile \in DOMAIN c
        /\ \A file \in DOMAIN c :
              /\ c[file] \in Seq(Range(c[file]))
              /\ \A n \in Range(c[file]) : IsNode(n)

\* What is left to read, and to include.
Tails(s) == {SubSeq(s, i, Len(s)) : i \in 1..Len(s) + 1}
NodeTails(c) == UNION {Tails(c[file]) : file \in DOMAIN c}
ItemTails(c) == UNION {Tails(n.items) : n \in UNION {Range(c[file]) : file \in DOMAIN c}}
Included(c, n) == IF n.name = "include" THEN WalkFiles(c, n.items) ELSE << >>

\* The equations of the walk.  They have a solution unless a file includes
\* itself, and then process_config has no end either.
ASSUME WalkAssumption ==
    \A c \in Configurations :
        /\ Walk(c, << >>) = << >> /\ WalkFiles(c, << >>) = << >>
        /\ \A nodes \in NodeTails(c) :
              /\ Walk(c, nodes) \in Seq(UNION {Range(c[file]) : file \in DOMAIN c})
              /\ nodes # << >> => Walk(c, nodes) =
                    <<Head(nodes)>> \o (Included(c, Head(nodes)) \o Walk(c, Tail(nodes)))
        /\ \A items \in ItemTails(c) :
              /\ WalkFiles(c, items) \in Seq(UNION {Range(c[file]) : file \in DOMAIN c})
              /\ items # << >> /\ Head(items) \in DOMAIN c =>
                    WalkFiles(c, items) = Walk(c, c[Head(items)]) \o WalkFiles(c, Tail(items))

VARIABLES
    contents,            \* the files
    stack,               \* the calls of process_config, innermost first
    calls,               \* how many there have been
    read,                \* history: the nodes handled, each with its call
    filter_config_map,   \* the sections and the priority of each filter seen
    priorities,          \* the priority list: filter -> number
    kafka_conf,          \* the Kafka section, or Unset
    intervals,           \* the two intervals of the scheduled tasks
    priority_map,        \* number -> filter
    built,               \* the filters constructed, in order, with their settings
    task_queue,          \* task_queues[HTTP_REQUEST]: the filters asked on a request
    white_list,          \* the global white list
    consumer,            \* is there a Kafka consumer?
    phase,               \* what read_configuration is doing
    reason               \* why it was aborted

reading == <<stack, calls, read>>
sections == <<filter_config_map, priorities, kafka_conf, intervals>>
outcome == <<built, task_queue, white_list, consumer>>
ConfVars == <<contents, reading, sections, priority_map, outcome, phase, reason>>

NoIntervals == [report_status |-> Unset, remove_expired |-> Unset]
Empty == [x \in {} |-> 0]
Extend(f, x, y) == [z \in DOMAIN f \cup {x} |-> IF z = x THEN y ELSE f[z]]

Abort(why) == phase' = "aborted" /\ reason' = why
Continue == UNCHANGED <<phase, reason>>

-----------------------------------------------------------------------------
(* process_config *)

Frame(file, call) ==
    [nodes |-> contents[file], subs |-> << >>, sequential |-> 0, call |-> call]

\* What a call does first: it forgets the settings that may have gone away.
ResetSettings == kafka_conf' = Unset /\ intervals' = NoIntervals

ConfInit ==
    /\ contents \in Configurations
    /\ stack = <<Frame(MainFile, 1)>> /\ calls = 1 /\ read = << >>
    /\ filter_config_map = Empty /\ priorities = Empty
    /\ kafka_conf = Unset /\ intervals = NoIntervals
    /\ priority_map = Empty
    /\ built = << >> /\ task_queue = << >> /\ white_list = {} /\ consumer = FALSE
    /\ phase = "reading" /\ reason = Unset

Top == stack[1]
AtNode(names) ==
    /\ phase = "reading" /\ stack # << >>
    /\ Top.subs = << >> /\ Top.nodes # << >> /\ Head(Top.nodes).name \in names
Advance(frame) == <<[frame EXCEPT !.nodes = Tail(@)]>> \o Tail(stack)
Handled == /\ read' = Append(read, [call |-> Top.call, node |-> Head(Top.nodes)])
           /\ UNCHANGED calls

NewSection(f, frame) ==
    [priority |-> frame.sequential, config_node_list |-> << >>,
     call |-> frame.call, since |-> Len(read) + 1]
NextSequentialSame(frame) == frame
NextSequential(frame) == [frame EXCEPT !.sequential = @ + 1]
PushBackReplaces(section, node) == [section EXCEPT !.config_node_list = <<node>>]
PushBack(section, node) == [section EXCEPT !.config_node_list = Append(@, node)]

\* The section of a filter; the first one gives it a sequential priority.
FilterNode ==
    /\ AtNode(AllFilters)
    /\ LET node == Head(Top.nodes)
           known == node.name \in DOMAIN filter_config_map
           section == IF known THEN filter_config_map[node.name] ELSE NewSection(node.name, Top)
       IN  /\ filter_config_map' = Extend(filter_config_map, node.name, PushBack(section, node))
           /\ stack' = Advance(IF known THEN Top ELSE NextSequential(Top))
    /\ Handled /\ Continue
    /\ UNCHANGED <<contents, priorities, kafka_conf, intervals, priority_map, outcome>>

\* Only one priority list is allowed, unless the first is empty.
PriorityNode ==
    /\ AtNode({"priority"})
    /\ IF priorities # Empty
       THEN Abort("two priority lists") /\ UNCHANGED <<reading, priorities>>
       ELSE /\ priorities' = Head(Top.nodes).ranks
            /\ stack' = Advance(Top) /\ Handled /\ Continue
    /\ UNCHANGED <<contents, filter_config_map, kafka_conf, intervals, priority_map, outcome>>

\* Settings that replace what was read before.  The swabber section is kept
\* for Swabber::load_config (module Swabber) and changes nothing here.
SettingNode ==
    /\ AtNode({"kafka", "report_status_interval_seconds",
               "remove_expired_challenges_interval_seconds", "swabber"})
    /\ LET node == Head(Top.nodes)
       IN  /\ kafka_conf' = IF node.name = "kafka" THEN node.key ELSE kafka_conf
           /\ intervals' =
                CASE node.name = "report_status_interval_seconds" ->
                        [intervals EXCEPT !.report_status = node.key]
                  [] node.name = "remove_expired_challenges_interval_seconds" ->
                        [intervals EXCEPT !.remove_expired = node.key]
                  [] OTHER -> intervals
    /\ stack' = Advance(Top) /\ Handled /\ Continue
    /\ UNCHANGED <<contents, filter_config_map, priorities, priority_map, outcome>>

\* The list of files to include; the items are read one after the other.
IncludeNode ==
    /\ AtNode({"include"})
    /\ stack' = Advance([Top EXCEPT !.subs = Head(Top.nodes).items])
    /\ Handled /\ Continue
    /\ UNCHANGED <<contents, sections, priority_map, outcome>>

AfterInclude == <<[Top EXCEPT !.subs = Tail(@)]>> \o Tail(stack)

IncludeFile ==
    /\ phase = "reading" /\ stack # << >> /\ Top.subs # << >>
    /\ IF Head(Top.subs) \in DOMAIN contents
       THEN /\ stack' = <<Frame(Head(Top.subs), calls + 1)>> \o AfterInclude
            /\ calls' = calls + 1
            /\ ResetSettings /\ Continue
            /\ UNCHANGED <<read, filter_config_map, priorities>>
       ELSE Abort("unreadable file") /\ UNCHANGED <<reading, sections>>
    /\ UNCHANGED <<contents, priority_map, outcome>>

KnownNodes == AllFilters \cup {"priority", "include", "kafka", "swabber",
    "report_status_interval_seconds", "remove_expired_challenges_interval_seconds"}

UnknownNode ==
    /\ phase = "reading" /\ stack # << >> /\ Top.subs = << >> /\ Top.nodes # << >>
    /\ Head(Top.nodes).name \notin KnownNodes
    /\ Abort("unknown node")
    /\ UNCHANGED <<contents, reading, sections, priority_map, outcome>>

AfterFileWaits == phase
AfterFile == IF Tail(stack) = << >> THEN "prioritising" ELSE phase

EndOfFile ==
    /\ phase = "reading" /\ stack # << >> /\ Top.subs = << >> /\ Top.nodes = << >>
    /\ stack' = Tail(stack)
    /\ phase' = AfterFile
    /\ UNCHANGED <<contents, calls, read, sections, priority_map, outcome, reason>>

-----------------------------------------------------------------------------
(* read_configuration: priorities, filters, Kafka *)

MaxPriority(ranks) ==
    IF ranks = Empty THEN 0 ELSE CHOOSE m \in Range(ranks) : \A n \in Range(ranks) : n <= m

\* Replaced by the list's number, or put behind all of the list.
FinalPriorityBehindOnly(f) == filter_config_map[f].priority + MaxPriority(priorities) + 1
FinalPriority(f) ==
    IF f \in DOMAIN priorities THEN priorities[f]
    ELSE filter_config_map[f].priority + MaxPriority(priorities) + 1

Unassigned == DOMAIN filter_config_map \ Range(priority_map)

\* One turn of the loop over filter_config_map, which is sorted by name.
AssignPriority(i) ==
    /\ phase = "prioritising" /\ FilterNames[i] \in Unassigned
    /\ \A j \in 1..i-1 : FilterNames[j] \notin Unassigned
    /\ IF FinalPriority(FilterNames[i]) \in DOMAIN priority_map
       THEN Abort("doubly assigned") /\ UNCHANGED priority_map
       ELSE /\ priority_map' = Extend(priority_map, FinalPriority(FilterNames[i]), FilterNames[i])
            /\ Continue
    /\ UNCHANGED <<contents, reading, sections, outcome>>

EndAssign ==
    /\ phase = "prioritising" /\ Unassigned = {}
    /\ phase' = "building"
    /\ UNCHANGED <<contents, reading, sections, priority_map, outcome, reason>>

\* BanjaxFilter's constructor merges the sections: lists are joined, a scalar
\* is replaced by a later one.
merge_nodes(a, b) ==
    [items |-> a.items \o b.items, key |-> IF b.key = Unset THEN a.key ELSE b.key]
Merged(nodes) ==
    LET upto[n \in 0..Len(nodes)] ==
            IF n = 0 THEN [items |-> << >>, key |-> Unset]
                     ELSE merge_nodes(upto[n - 1], nodes[n])
    IN  upto[Len(nodes)]

\* The filters' load_config: the challenger and bot_sniffer need their key, and
\* an entry that does not parse throws.
Loads(f, cfg) ==
    /\ f \in {"challenger", "bot_sniffer"} => cfg.key # Unset
    /\ "malformed" \notin Range(cfg.items)

Names(s) == {s[i].name : i \in DOMAIN s}

\* queued_tasks: bot_sniffer has its task at the close, the others have theirs
\* on the request.
QueuedInFront(f) == IF f = "bot_sniffer" THEN task_queue ELSE <<f>> \o task_queue
Queued(f) == IF f = "bot_sniffer" THEN task_queue ELSE Append(task_queue, f)

\* One turn of the loop over priority_map, which is sorted by number.
BuildFilter(p) ==
    /\ phase = "building" /\ p \in DOMAIN priority_map
    /\ priority_map[p] \notin Names(built)
    /\ \A q \in DOMAIN priority_map : q < p => priority_map[q] \in Names(built)
    /\ LET f == priority_map[p]
           cfg == Merged(filter_config_map[f].config_node_list)
       IN  IF Loads(f, cfg)
           THEN /\ built' = Append(built, [name |-> f, cfg |-> cfg])
                /\ task_queue' = Queued(f)
                /\ white_list' = white_list \cup
                       (IF f = "white_lister" THEN Range(cfg.items) ELSE {})
                /\ Continue
           ELSE Abort("bad filter section") /\ UNCHANGED <<built, task_queue, white_list>>
    /\ UNCHANGED <<contents, reading, sections, priority_map, consumer>>

\* Kafka runs if its section names the brokers; the tasks are scheduled.
EndBuild ==
    /\ phase = "building" /\ Range(priority_map) \subseteq Names(built)
    /\ consumer' = (kafka_conf = "metadata.broker.list")
    /\ phase' = "ready"
    /\ UNCHANGED <<contents, reading, sections, priority_map, built, task_queue, white_list,
                   reason>>

ConfNext ==
    \/ FilterNode \/ PriorityNode \/ SettingNode \/ IncludeNode \/ IncludeFile
    \/ UnknownNode \/ EndOfFile
    \/ \E i \in DOMAIN FilterNames : AssignPriority(i)
    \/ EndAssign
    \/ \E p \in DOMAIN priority_map : BuildFilter(p)
    \/ EndBuild

ConfSpec == ConfInit /\ [][ConfNext]_ConfVars

(* Reading goes on: the calls are made by one thread that nothing blocks.   *)
ConfFairness == WF_ConfVars(ConfNext)

-----------------------------------------------------------------------------
\* An instance becomes current in ConfiguredTransaction.
Phases == {"reading", "prioritising", "building", "ready", "current", "aborted"}

(* The type of every variable of an instance that reads its configuration   *)
(* (banjax.h): what the sections, the numbers and the filters refer to.     *)
ConfTypeOK ==
    /\ contents \in Configurations
    /\ phase \in Phases
    /\ calls \in Nat /\ \A i \in DOMAIN stack : stack[i].call \in 1..calls
    /\ DOMAIN filter_config_map \subseteq AllFilters
    /\ \A f \in DOMAIN filter_config_map :
          /\ filter_config_map[f].priority \in Nat
          /\ filter_config_map[f].call \in 1..calls
          /\ filter_config_map[f].since \in 1..Len(read)
    /\ DOMAIN priorities \subseteq AllFilters /\ Range(priorities) \subseteq Int
    /\ DOMAIN priority_map \subseteq Int
    /\ Range(priority_map) \subseteq DOMAIN filter_config_map
    /\ Names(built) \subseteq Range(priority_map)
    /\ consumer \in BOOLEAN
    /\ (phase = "aborted") = (reason # Unset)

(* The filters run in the documented order: those of the priority list by   *)
(* its numbers, then the others, which follow the order of their sections   *)
(* when one file has them (src/README.md:133).  No filter is there twice.   *)
Ranked(f) == f \in DOMAIN priorities
OrderKept ==
    \A i, j \in DOMAIN built : i < j =>
        LET f == built[i].name
            g == built[j].name
        IN  /\ Ranked(g) => Ranked(f) /\ priorities[f] < priorities[g]
            /\ /\ ~Ranked(f) /\ ~Ranked(g)
               /\ filter_config_map[f].call = filter_config_map[g].call
               => filter_config_map[f].since < filter_config_map[g].since

(* The server is not aborted for a priority that is doubly assigned unless  *)
(* the list has a number twice, or two calls of process_config (two files)  *)
(* each met a filter that is not in the list: a filter of the list and one  *)
(* that is not in it never collide, whatever the numbers are.               *)
DoublyAssigned ==
    reason = "doubly assigned" =>
        \E f, g \in DOMAIN filter_config_map :
            /\ f # g
            /\ \/ Ranked(f) /\ Ranked(g) /\ priorities[f] = priorities[g]
               \/ /\ ~Ranked(f) /\ ~Ranked(g)
                  /\ filter_config_map[f].call # filter_config_map[g].call

(* process_config reads "the entire config structure including inside the   *)
(* included files" (banjax.cpp:520): every filter found there is built, from *)
(* all of its sections in whichever files they are.  It has each entry of   *)
(* their lists and the last of their scalars, and the white list that the   *)
(* challenger and the denialator share is whole, also when they were built  *)
(* before the white lister (merge_nodes, build_filters).                    *)
MergedWhole ==
    phase = "ready" =>
        \E walk \in {Walk(contents, contents[MainFile])} :
            LET Of(f) == {k \in DOMAIN walk : walk[k].name = f}
                Entries(f) == UNION {Range(walk[k].items) : k \in Of(f)}
                Set(f) == {k \in Of(f) : walk[k].key # Unset}
                IsLastKey(f, key) ==
                    \/ Set(f) = {} /\ key = Unset
                    \/ \E k \in Set(f) : key = walk[k].key /\ \A l \in Set(f) : l <= k
            IN  /\ Names(built) = {walk[k].name : k \in DOMAIN walk} \cap AllFilters
                /\ \A i \in DOMAIN built :
                      /\ Range(built[i].cfg.items) = Entries(built[i].name)
                      /\ IsLastKey(built[i].name, built[i].cfg.key)
                /\ white_list = Entries("white_lister")

(* Reading the files comes to an end (process_config recurses over files    *)
(* that do not include themselves).                                         *)
ReadingEnds == <>(phase \in {"ready", "current", "aborted"})

(* A Kafka section that is in the configuration is in force; it is dropped  *)
(* only if "this section of the config goes away" (banjax.cpp:529).         *)
KafkaSectionKept ==
    /\ phase = "ready"
    /\ \E k \in DOMAIN read :
          read[k].node.name = "kafka" /\ read[k].node.key = "metadata.broker.list"
    => consumer
=============================================================================
