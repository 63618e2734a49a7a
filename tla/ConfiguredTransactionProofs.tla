-------------------- MODULE ConfiguredTransactionProofs ---------------------
(***************************************************************************)
(* Proofs about an instance that reads its configuration and a transaction *)
(* that runs on it, for every set of files, whatever they have in them and *)
(* include, and any calls to ATS that fail.                                *)
(***************************************************************************)
EXTENDS ConfiguredTransaction, TLAPS

-----------------------------------------------------------------------------
(* The inductive invariant of the configuration *)

Rankings == UNION {[S -> Int] : S \in SUBSET AllFilters}
Node == [name : STRING, items : Seq(STRING), key : STRING, ranks : Rankings]
FrameType == [nodes : Seq(Node), subs : Seq(STRING), sequential : Nat, call : Nat \ {0}]
SectionType ==
    [priority : Nat, config_node_list : Seq(Node), call : Nat \ {0}, since : Nat \ {0}]

ReadingTyped ==
    /\ contents \in Configurations
    /\ stack \in Seq(FrameType) /\ calls \in Nat
    /\ read \in Seq([call : Nat, node : Node])
    /\ DOMAIN filter_config_map \subseteq AllFilters
    /\ \A f \in DOMAIN filter_config_map : filter_config_map[f] \in SectionType
    /\ priorities \in Rankings

\* The calls on the stack are different ones.
StackInvariant ==
    /\ \A i \in 1..Len(stack) : stack[i].call <= calls
    /\ \A i, j \in 1..Len(stack) : i # j => stack[i].call # stack[j].call

\* The numbers that one call gave are in the order in which it met the
\* filters, and the call, if it has not returned, goes on behind them.
SectionInvariant ==
    /\ \A f \in DOMAIN filter_config_map :
          /\ filter_config_map[f].call <= calls
          /\ filter_config_map[f].since <= Len(read)
          /\ \A i \in 1..Len(stack) : stack[i].call = filter_config_map[f].call =>
                filter_config_map[f].priority < stack[i].sequential
    /\ \A f, g \in DOMAIN filter_config_map : f # g =>
          /\ filter_config_map[f].since # filter_config_map[g].since
          /\ /\ filter_config_map[f].call = filter_config_map[g].call
             /\ filter_config_map[f].since < filter_config_map[g].since
             => filter_config_map[f].priority < filter_config_map[g].priority

ReadingInvariant == ReadingTyped /\ StackInvariant /\ SectionInvariant

\* What there is in each phase.
PhaseInvariant ==
    /\ phase \in Phases /\ consumer \in BOOLEAN
    /\ phase = "reading" => priority_map = Empty
    /\ phase \in {"reading", "prioritising"} => built = << >> /\ task_queue = << >>
    /\ reason # Unset <=> phase = "aborted"

\* The priority map has the filters under their final numbers.
Numbered ==
    /\ DOMAIN priority_map \subseteq Int
    /\ \A p \in DOMAIN priority_map : /\ priority_map[p] \in DOMAIN filter_config_map
                                      /\ p = FinalPriority(priority_map[p])

\* The queue has filters that are built, not bot_sniffer, by their numbers.
QueueInOrder ==
    /\ task_queue \in Seq(AllFilters \ {"bot_sniffer"})
    /\ \A j \in 1..Len(task_queue) : \E i \in 1..Len(built) : built[i].name = task_queue[j]
    /\ \A j, k \in 1..Len(task_queue) : j < k => FinalPriority(task_queue[j]) < FinalPriority(task_queue[k])

\* The filters are built by their numbers, and none is left out on the way.
BuiltInOrder ==
    /\ \E S : built \in Seq(S)
    /\ \A i \in 1..Len(built) :
          LET p == FinalPriority(built[i].name)
          IN  /\ p \in DOMAIN priority_map /\ priority_map[p] = built[i].name
              /\ \A q \in DOMAIN priority_map : q < p => priority_map[q] \in Names(built)
    /\ \A i, j \in 1..Len(built) : i < j => FinalPriority(built[i].name) < FinalPriority(built[j].name)
    /\ QueueInOrder

ConfigurationInvariant ==
    ReadingInvariant /\ PhaseInvariant /\ Numbered /\ BuiltInOrder /\ DoublyAssigned

-----------------------------------------------------------------------------
(* The stack of calls. *)

LEMMA RestOfNames == \A s \in Seq(STRING) : s # << >> => Tail(s) \in Seq(STRING)
  OBVIOUS

LEMMA Replaced ==
    ASSUME NEW s \in Seq(FrameType), s # << >>, NEW frame \in FrameType
    PROVE  /\ <<frame>> \o Tail(s) \in Seq(FrameType)
           /\ Len(<<frame>> \o Tail(s)) = Len(s)
           /\ (<<frame>> \o Tail(s))[1] = frame
           /\ \A i \in 2..Len(s) : (<<frame>> \o Tail(s))[i] = s[i]
  OBVIOUS

IsReplaced(t, s, frame) ==
    Len(t) = Len(s) /\ Len(s) \in Nat /\ t[1] = frame /\ \A i \in 2..Len(s) : t[i] = s[i]

LEMMA ReplacedTop ==
    ASSUME NEW s \in Seq(FrameType), s # << >>, NEW frame \in FrameType
    PROVE  IsReplaced(<<frame>> \o Tail(s), s, frame)
  <1>1. Len(s) \in Nat
    OBVIOUS
  <1>2. /\ Len(<<frame>> \o Tail(s)) = Len(s) /\ (<<frame>> \o Tail(s))[1] = frame
        /\ \A i \in 2..Len(s) : (<<frame>> \o Tail(s))[i] = s[i]
    OBVIOUS
  <1> QED
    BY <1>1, <1>2, Zenon DEF IsReplaced

LEMMA Pushed ==
    ASSUME NEW s \in Seq(FrameType), NEW frame \in FrameType
    PROVE  /\ <<frame>> \o s \in Seq(FrameType)
           /\ Len(<<frame>> \o s) = Len(s) + 1
           /\ (<<frame>> \o s)[1] = frame
           /\ \A i \in 2..Len(s) + 1 : (<<frame>> \o s)[i] = s[i - 1]
  OBVIOUS

IsPushed(t, s, frame) ==
    Len(t) = Len(s) + 1 /\ t[1] = frame /\ \A i \in 2..Len(s) + 1 : t[i] = s[i - 1]

LEMMA PushedTop ==
    ASSUME NEW s \in Seq(FrameType), NEW frame \in FrameType
    PROVE  IsPushed(<<frame>> \o s, s, frame)
  BY DEF IsPushed

LEMMA Popped ==
    ASSUME NEW s \in Seq(FrameType), s # << >>
    PROVE  /\ Tail(s) \in Seq(FrameType)
           /\ Len(Tail(s)) = Len(s) - 1
           /\ \A i \in 1..Len(s) - 1 : Tail(s)[i] = s[i + 1]
  OBVIOUS

\* The nodes of a file that is there.
LEMMA FrameContents ==
    ASSUME contents \in Configurations, NEW file \in DOMAIN contents
    PROVE  contents[file] \in Seq(Node)
  <1> DEFINE nodes == contents[file]
  <1>1. nodes \in Seq(Range(nodes)) /\ \A n \in Range(nodes) : IsNode(n)
    BY ConfAssumption
  <1>2. \A n \in Range(nodes) : n \in Node
    BY <1>1 DEF IsNode, Node, Rankings
  <1> HIDE DEF nodes
  <1>3. nodes \in Seq(Node)
    BY <1>1, <1>2
  <1> QED
    BY <1>3 DEF nodes

LEMMA FrameTyping ==
    ASSUME ReadingTyped, NEW file \in DOMAIN contents, NEW call \in Nat \ {0}
    PROVE  /\ Frame(file, call) \in FrameType
           /\ Frame(file, call).call = call /\ Frame(file, call).sequential = 0
  BY FrameContents DEF ReadingTyped, Frame, FrameType

\* The frame of the node that is handled.
LEMMA TopTyping ==
    ASSUME ReadingTyped, stack # << >>
    PROVE  /\ Top \in FrameType /\ Top.nodes \in Seq(Node) /\ Top.subs \in Seq(STRING)
           /\ Top.call \in Nat \ {0} /\ Top.sequential \in Nat /\ Len(stack) \in Nat /\ Len(stack) >= 1
  <1>1. stack \in Seq(FrameType)
    BY DEF ReadingTyped
  <1>2. stack[1] \in FrameType /\ Len(stack) \in Nat /\ Len(stack) >= 1
    BY <1>1
  <1> QED
    BY <1>2 DEF Top, FrameType

\* A step that keeps the sections and the calls of the frames.
LEMMA SameCalls ==
    ASSUME ReadingInvariant, UNCHANGED <<contents, calls, filter_config_map, priorities>>,
           read' \in Seq([call : Nat, node : Node]), Len(read') >= Len(read),
           stack' \in Seq(FrameType), Len(stack') = Len(stack),
           \A i \in 1..Len(stack) : /\ stack'[i].call = stack[i].call
                                    /\ stack'[i].sequential = stack[i].sequential
    PROVE  ReadingInvariant'
  <1>1. ReadingTyped'
    BY DEF ReadingInvariant, ReadingTyped
  <1>2. StackInvariant'
    BY Zenon DEF ReadingInvariant, StackInvariant
  <1>3. SectionInvariant'
    <2>1. Len(read) \in Nat /\ Len(read') \in Nat
      BY DEF ReadingInvariant, ReadingTyped
    <2>2. \A f \in DOMAIN filter_config_map : filter_config_map[f].since \in Nat
      BY DEF ReadingInvariant, ReadingTyped, SectionType
    <2> QED
      BY <2>1, <2>2 DEF ReadingInvariant, SectionInvariant
  <1> QED
    BY <1>1, <1>2, <1>3 DEF ReadingInvariant

-----------------------------------------------------------------------------
(* One step of process_config. *)

\* The node at the top has been handled; frame is what becomes of the top.
LEMMA NodeHandled ==
    ASSUME ReadingInvariant, stack # << >>, Top.nodes # << >>, NEW frame \in FrameType,
           stack' = Advance(frame), frame.nodes = Top.nodes, Handled
    PROVE  /\ stack' \in Seq(FrameType) /\ Len(stack') = Len(stack)
           /\ stack'[1].call = frame.call /\ stack'[1].sequential = frame.sequential
           /\ \A i \in 2..Len(stack) : stack'[i] = stack[i]
           /\ read' \in Seq([call : Nat, node : Node]) /\ Len(read') = Len(read) + 1
           /\ Len(read) \in Nat /\ UNCHANGED calls
  <1>1. stack \in Seq(FrameType) /\ read \in Seq([call : Nat, node : Node])
    BY DEF ReadingInvariant, ReadingTyped
  <1>2. Top.nodes \in Seq(Node) /\ Top.call \in Nat
    BY TopTyping DEF ReadingInvariant
  <1>3. Tail(Top.nodes) \in Seq(Node) /\ Head(Top.nodes) \in Node
    BY <1>2
  <1> DEFINE new == [frame EXCEPT !.nodes = Tail(@)]
             entry == [call |-> Top.call, node |-> Head(Top.nodes)]
  <1>4. new \in FrameType /\ new.call = frame.call /\ new.sequential = frame.sequential
    BY <1>3, Zenon DEF FrameType
  <1>5. stack' = <<new>> \o Tail(stack)
    BY DEF Advance
  <1>6. entry \in [call : Nat, node : Node]
    BY <1>2, <1>3
  <1>7. read' = Append(read, entry) /\ UNCHANGED calls
    BY DEF Handled
  <1> HIDE DEF new, entry
  <1>8. read' \in Seq([call : Nat, node : Node]) /\ Len(read') = Len(read) + 1 /\ Len(read) \in Nat
    BY <1>1, <1>6, <1>7
  <1> QED
    BY <1>1, <1>4, <1>5, <1>7, <1>8, Replaced

LEMMA OtherNodeStep ==
    ASSUME ReadingInvariant, SettingNode \/ IncludeNode
    PROVE  ReadingInvariant'
  <1>1. CASE SettingNode
    <2>1. /\ stack # << >> /\ Top.nodes # << >> /\ stack' = Advance(Top) /\ Handled
          /\ UNCHANGED <<contents, filter_config_map, priorities>>
      BY <1>1 DEF SettingNode, AtNode
    <2>2. Top \in FrameType
      BY <2>1, TopTyping, Zenon DEF ReadingInvariant
    <2> QED
      BY <2>1, <2>2, NodeHandled, SameCalls DEF Top
  <1>2. CASE IncludeNode
    <2> DEFINE frame == [Top EXCEPT !.subs = Head(Top.nodes).items]
    <2>1. /\ stack # << >> /\ Top.nodes # << >> /\ stack' = Advance(frame) /\ Handled
          /\ UNCHANGED <<contents, filter_config_map, priorities>>
      BY <1>2 DEF IncludeNode, AtNode, sections
    <2>2. Top \in FrameType /\ Top.nodes \in Seq(Node)
      BY <2>1, TopTyping DEF ReadingInvariant
    <2>3. Head(Top.nodes).items \in Seq(STRING)
      <3>1. Head(Top.nodes) \in Node
        BY <2>1, <2>2
      <3> QED
        BY <3>1 DEF Node
    <2>4. /\ frame \in FrameType /\ frame.nodes = Top.nodes /\ frame.call = Top.call
          /\ frame.sequential = Top.sequential
      BY <2>2, <2>3, Zenon DEF FrameType
    <2> HIDE DEF frame
    <2> QED
      BY <2>1, <2>4, NodeHandled, SameCalls DEF Top
  <1> QED
    BY <1>1, <1>2, Zenon

\* Only the list of sections grows.
LEMMA PushBackTyping ==
    ASSUME NEW section \in SectionType, NEW node \in Node
    PROVE  /\ PushBack(section, node) \in SectionType
           /\ PushBack(section, node).call = section.call
           /\ PushBack(section, node).since = section.since
           /\ PushBack(section, node).priority = section.priority
  <1> DEFINE nodes == Append(section.config_node_list, node)
  <1>1. nodes \in Seq(Node)
    BY DEF SectionType
  <1>2. PushBack(section, node) = [section EXCEPT !.config_node_list = nodes]
    BY DEF PushBack
  <1> HIDE DEF nodes
  <1> QED
    BY <1>1, <1>2, Zenon DEF SectionType

\* Another section of a filter that has one.
LEMMA KnownFilterStep ==
    ASSUME ReadingInvariant, FilterNode, Head(Top.nodes).name \in DOMAIN filter_config_map
    PROVE  ReadingInvariant'
  <1> DEFINE node == Head(Top.nodes)
             old == filter_config_map[node.name]
  <1>1. /\ stack # << >> /\ Top.nodes # << >> /\ stack' = Advance(Top) /\ Handled
        /\ UNCHANGED <<contents, priorities>>
        /\ filter_config_map' = Extend(filter_config_map, node.name, PushBack(old, node))
    BY DEF FilterNode, AtNode
  <1>2. Top \in FrameType /\ Top.nodes \in Seq(Node)
    BY <1>1, TopTyping DEF ReadingInvariant
  <1>3. node \in Node /\ old \in SectionType
    BY <1>1, <1>2 DEF ReadingInvariant, ReadingTyped
  <1>4. /\ PushBack(old, node) \in SectionType
        /\ PushBack(old, node).call = old.call /\ PushBack(old, node).since = old.since
        /\ PushBack(old, node).priority = old.priority
    BY <1>3, PushBackTyping, Zenon
  <1>5. /\ DOMAIN filter_config_map' = DOMAIN filter_config_map
        /\ \A f \in DOMAIN filter_config_map :
              filter_config_map'[f] = IF f = node.name THEN PushBack(old, node) ELSE filter_config_map[f]
    BY <1>1, Zenon DEF Extend
  <1> HIDE DEF node
  <1>6. \A f \in DOMAIN filter_config_map :
            /\ filter_config_map'[f] \in SectionType
            /\ filter_config_map'[f].call = filter_config_map[f].call
            /\ filter_config_map'[f].since = filter_config_map[f].since
            /\ filter_config_map'[f].priority = filter_config_map[f].priority
    BY <1>4, <1>5 DEF ReadingInvariant, ReadingTyped
  <1>7. /\ stack' \in Seq(FrameType) /\ Len(stack') = Len(stack)
        /\ \A i \in 1..Len(stack) : /\ stack'[i].call = stack[i].call
                                    /\ stack'[i].sequential = stack[i].sequential
        /\ read' \in Seq([call : Nat, node : Node]) /\ Len(read') = Len(read) + 1
        /\ Len(read) \in Nat /\ UNCHANGED calls
    <2>1. /\ stack' \in Seq(FrameType) /\ Len(stack') = Len(stack)
          /\ stack'[1].call = Top.call /\ stack'[1].sequential = Top.sequential
          /\ \A i \in 2..Len(stack) : stack'[i] = stack[i]
          /\ read' \in Seq([call : Nat, node : Node]) /\ Len(read') = Len(read) + 1
          /\ Len(read) \in Nat /\ UNCHANGED calls
      BY <1>1, <1>2, NodeHandled, Zenon
    <2> QED
      BY <2>1 DEF Top
  <1>8. ReadingTyped'
    BY <1>1, <1>5, <1>6, <1>7, Zenon DEF ReadingInvariant, ReadingTyped
  <1>9. StackInvariant'
    BY <1>7, Zenon DEF ReadingInvariant, StackInvariant
  <1>10. SectionInvariant'
    <2>1. \A f \in DOMAIN filter_config_map : filter_config_map[f].since \in Nat
      BY DEF ReadingInvariant, ReadingTyped, SectionType
    <2> QED
      BY <1>5, <1>6, <1>7, <2>1, SMTT(30) DEF ReadingInvariant, SectionInvariant
  <1> QED
    BY <1>8, <1>9, <1>10 DEF ReadingInvariant

\* The first section of a filter: it is numbered behind the ones of this call.
LEMMA NewFilterStep ==
    ASSUME ReadingInvariant, FilterNode, Head(Top.nodes).name \notin DOMAIN filter_config_map
    PROVE  ReadingInvariant'
  <1> DEFINE node == Head(Top.nodes)
             new == PushBack(NewSection(node.name, Top), node)
             frame == NextSequential(Top)
  <1>1. /\ stack # << >> /\ Top.nodes # << >> /\ stack' = Advance(frame) /\ Handled
        /\ UNCHANGED <<contents, priorities>> /\ node.name \in AllFilters
        /\ filter_config_map' = Extend(filter_config_map, node.name, new)
    BY DEF FilterNode, AtNode
  <1>2. Top \in FrameType /\ Top.nodes \in Seq(Node) /\ Top.call \in Nat \ {0} /\ Top.sequential \in Nat
    BY <1>1, TopTyping, Zenon DEF ReadingInvariant
  <1>3. node \in Node /\ Len(read) \in Nat /\ Len(read) + 1 \in Nat \ {0}
    BY <1>1, <1>2 DEF ReadingInvariant, ReadingTyped
  <1>4. /\ frame \in FrameType /\ frame.nodes = Top.nodes /\ frame.call = Top.call
        /\ frame.sequential = Top.sequential + 1
    BY <1>2 DEF NextSequential, FrameType
  <1>5. new \in SectionType /\ new.call = Top.call /\ new.since = Len(read) + 1
        /\ new.priority = Top.sequential
    <2> DEFINE section == NewSection(node.name, Top)
    <2>1. section \in SectionType /\ section.call = Top.call /\ section.since = Len(read) + 1
          /\ section.priority = Top.sequential
      BY <1>2, <1>3 DEF NewSection, SectionType
    <2> HIDE DEF section
    <2>2. new = PushBack(section, node)
      BY Zenon DEF section
    <2> QED
      BY <1>3, <2>1, <2>2, PushBackTyping
  <1>6. /\ DOMAIN filter_config_map' = DOMAIN filter_config_map \cup {node.name}
        /\ filter_config_map'[node.name] = new
        /\ \A f \in DOMAIN filter_config_map : filter_config_map'[f] = filter_config_map[f]
    BY <1>1 DEF Extend
  <1> HIDE DEF node, new, frame
  <1>7. /\ stack' \in Seq(FrameType) /\ Len(stack') = Len(stack) /\ Len(stack) \in Nat
        /\ stack'[1].call = Top.call /\ stack'[1].sequential = Top.sequential + 1
        /\ \A i \in 2..Len(stack) : stack'[i] = stack[i]
        /\ read' \in Seq([call : Nat, node : Node]) /\ Len(read') = Len(read) + 1
        /\ UNCHANGED calls
    <2>1. Len(stack) \in Nat
      BY DEF ReadingInvariant, ReadingTyped
    <2>2. /\ stack' \in Seq(FrameType) /\ Len(stack') = Len(stack)
          /\ stack'[1].call = frame.call /\ stack'[1].sequential = frame.sequential
          /\ \A i \in 2..Len(stack) : stack'[i] = stack[i]
          /\ read' \in Seq([call : Nat, node : Node]) /\ Len(read') = Len(read) + 1
          /\ UNCHANGED calls
      BY <1>1, <1>4, NodeHandled, Zenon
    <2> QED
      BY <1>4, <2>1, <2>2
  <1>8. ReadingTyped'
    BY <1>1, <1>5, <1>6, <1>7, Zenon DEF ReadingInvariant, ReadingTyped
  <1>9. StackInvariant'
    BY <1>7, SMTT(30) DEF ReadingInvariant, StackInvariant, Top
  <1>10. SectionInvariant'
    <2>1. /\ \A f \in DOMAIN filter_config_map :
                filter_config_map[f].since \in Nat /\ filter_config_map[f].priority \in Nat
          /\ Top.call <= calls /\ stack[1] = Top /\ 1 \in 1..Len(stack)
      <3>1. \A f \in DOMAIN filter_config_map :
                filter_config_map[f].since \in Nat /\ filter_config_map[f].priority \in Nat
        BY DEF ReadingInvariant, ReadingTyped, SectionType
      <3>2. stack[1] = Top /\ 1 \in 1..Len(stack)
        BY <1>1, <1>7, TopTyping DEF ReadingInvariant, Top
      <3> QED
        BY <3>1, <3>2 DEF ReadingInvariant, StackInvariant
    <2>2. \A f \in DOMAIN filter_config_map : filter_config_map[f].since < new.since
      BY <1>3, <1>5, <2>1 DEF ReadingInvariant, SectionInvariant
    <2>3. \A f \in DOMAIN filter_config_map :
              filter_config_map[f].call = new.call => filter_config_map[f].priority < new.priority
      BY <1>5, <2>1 DEF ReadingInvariant, SectionInvariant
    <2>4. \A f \in DOMAIN filter_config_map' :
              filter_config_map'[f].call <= calls' /\ filter_config_map'[f].since <= Len(read')
      BY <1>3, <1>5, <1>6, <1>7, <2>1 DEF ReadingInvariant, SectionInvariant
    <2>5. ASSUME NEW f \in DOMAIN filter_config_map', NEW i \in 1..Len(stack'),
                 stack'[i].call = filter_config_map'[f].call
          PROVE  filter_config_map'[f].priority < stack'[i].sequential
      <3>1. CASE f # node.name
        <4>1. /\ f \in DOMAIN filter_config_map /\ i \in 1..Len(stack)
              /\ filter_config_map'[f] = filter_config_map[f] /\ stack'[i].call = stack[i].call
          BY <1>6, <1>7, <2>1, <3>1
        <4>2. filter_config_map[f].priority < stack[i].sequential
          BY <2>5, <4>1, Zenon DEF ReadingInvariant, SectionInvariant
        <4>3. CASE i = 1
          BY <1>2, <1>7, <2>1, <4>1, <4>2, <4>3
        <4>4. CASE i # 1
          BY <1>7, <4>1, <4>2, <4>4
        <4> QED
          BY <4>3, <4>4, Zenon
      <3>2. CASE f = node.name /\ i = 1
        BY <1>2, <1>5, <1>6, <1>7, <3>2
      <3>3. CASE f = node.name /\ i # 1
        BY <1>5, <1>6, <1>7, <2>1, <2>5, <3>3 DEF ReadingInvariant, StackInvariant
      <3> QED
        BY <3>1, <3>2, <3>3, Zenon
    <2>6. ASSUME NEW f \in DOMAIN filter_config_map', NEW g \in DOMAIN filter_config_map', f # g
          PROVE  /\ filter_config_map'[f].since # filter_config_map'[g].since
                 /\ /\ filter_config_map'[f].call = filter_config_map'[g].call
                    /\ filter_config_map'[f].since < filter_config_map'[g].since
                    => filter_config_map'[f].priority < filter_config_map'[g].priority
      <3>1. CASE f # node.name /\ g # node.name
        BY <1>6, <2>6, <3>1, Zenon DEF ReadingInvariant, SectionInvariant
      <3>2. CASE f = node.name \/ g = node.name
        BY <1>3, <1>5, <1>6, <2>1, <2>2, <2>3, <2>6, <3>2
      <3> QED
        BY <3>1, <3>2, Zenon
    <2> QED
      BY <2>4, <2>5, <2>6 DEF SectionInvariant
  <1> QED
    BY <1>8, <1>9, <1>10 DEF ReadingInvariant

LEMMA FilterNodeStep ==
    ASSUME ReadingInvariant, FilterNode
    PROVE  ReadingInvariant'
  BY KnownFilterStep, NewFilterStep

LEMMA PriorityNodeStep ==
    ASSUME ReadingInvariant, PriorityNode
    PROVE  ReadingInvariant'
  <1>1. CASE priorities # Empty
    <2>1. UNCHANGED <<contents, stack, calls, read, filter_config_map, priorities>>
      BY <1>1 DEF PriorityNode, reading
    <2> QED
      BY <2>1 DEF ReadingInvariant, ReadingTyped, StackInvariant, SectionInvariant
  <1>2. CASE priorities = Empty
    <2>1. /\ stack # << >> /\ Top.nodes # << >> /\ stack' = Advance(Top) /\ Handled
          /\ UNCHANGED <<contents, filter_config_map>> /\ priorities' = Head(Top.nodes).ranks
      BY <1>2 DEF PriorityNode, AtNode
    <2>2. Top \in FrameType /\ Top.nodes \in Seq(Node)
      BY <2>1, TopTyping DEF ReadingInvariant
    <2>3. priorities' \in Rankings
      <3>1. Head(Top.nodes) \in Node
        BY <2>1, <2>2
      <3> QED
        BY <2>1, <3>1 DEF Node
    <2>4. /\ stack' \in Seq(FrameType) /\ Len(stack') = Len(stack)
          /\ stack'[1].call = Top.call /\ stack'[1].sequential = Top.sequential
          /\ \A i \in 2..Len(stack) : stack'[i] = stack[i]
          /\ read' \in Seq([call : Nat, node : Node]) /\ Len(read') = Len(read) + 1
          /\ UNCHANGED calls
      BY <2>1, <2>2, NodeHandled, Zenon
    <2>5. \A i \in 1..Len(stack) : /\ stack'[i].call = stack[i].call
                                   /\ stack'[i].sequential = stack[i].sequential
      BY <2>4 DEF Top
    <2>6. ReadingTyped'
      BY <2>1, <2>3, <2>4, Zenon DEF ReadingInvariant, ReadingTyped
    <2>7. StackInvariant'
      BY <2>4, <2>5 DEF ReadingInvariant, StackInvariant
    <2>8. SectionInvariant'
      <3>1. Len(read) \in Nat
        BY DEF ReadingInvariant, ReadingTyped
      <3>2. \A f \in DOMAIN filter_config_map : filter_config_map[f].since \in Nat
        BY DEF ReadingInvariant, ReadingTyped, SectionType
      <3> QED
        BY <2>1, <2>4, <2>5, <3>1, <3>2 DEF ReadingInvariant, SectionInvariant
    <2> QED
      BY <2>6, <2>7, <2>8, Zenon DEF ReadingInvariant
  <1> QED
    BY <1>1, <1>2

\* A call that begins has no number yet, and a number no call had.
LEMMA IncludeFileStep ==
    ASSUME ReadingInvariant, IncludeFile
    PROVE  ReadingInvariant'
  <1>1. CASE Head(Top.subs) \notin DOMAIN contents
    <2>1. UNCHANGED <<contents, stack, calls, read, filter_config_map, priorities>>
      BY <1>1 DEF IncludeFile, reading, sections
    <2> QED
      BY <2>1 DEF ReadingInvariant, ReadingTyped, StackInvariant, SectionInvariant
  <1>2. CASE Head(Top.subs) \in DOMAIN contents
    <2> DEFINE new == Frame(Head(Top.subs), calls + 1)
               rest == [Top EXCEPT !.subs = Tail(@)]
               below == <<rest>> \o Tail(stack)
    <2>1. /\ stack # << >> /\ Top.subs # << >> /\ stack' = <<new>> \o below
          /\ calls' = calls + 1 /\ UNCHANGED <<contents, read, filter_config_map, priorities>>
      BY <1>2, Zenon DEF IncludeFile, AfterInclude
    <2>2. Top \in FrameType /\ Top.subs \in Seq(STRING) /\ calls \in Nat
      BY <2>1, TopTyping DEF ReadingInvariant, ReadingTyped
    <2>3. Tail(Top.subs) \in Seq(STRING)
      BY <2>1, <2>2, RestOfNames, Zenon
    <2>4. rest \in FrameType /\ rest.call = Top.call /\ rest.sequential = Top.sequential
      BY <2>2, <2>3, Zenon DEF FrameType
    <2>5. new \in FrameType /\ new.call = calls + 1
      BY <1>2, <2>2, FrameTyping DEF ReadingInvariant
    <2> HIDE DEF new, rest
    <2>6. stack \in Seq(FrameType) /\ Len(stack) \in Nat /\ Len(stack) >= 1
      BY <2>1 DEF ReadingInvariant, ReadingTyped
    <2>7. /\ below \in Seq(FrameType) /\ Len(below) = Len(stack) /\ below[1] = rest
          /\ \A i \in 2..Len(stack) : below[i] = stack[i]
      BY <2>1, <2>4, <2>6, Replaced, Zenon
    <2> HIDE DEF below
    <2>8. /\ stack' \in Seq(FrameType) /\ Len(stack') = Len(stack) + 1 /\ stack'[1] = new
          /\ \A i \in 2..Len(stack) + 1 : stack'[i] = below[i - 1]
      BY <2>1, <2>5, <2>6, <2>7, Pushed
    <2>9. \A i \in 1..Len(stack) : below[i].call = stack[i].call /\ below[i].sequential = stack[i].sequential
      BY <2>4, <2>6, <2>7 DEF Top
    <2>10. \A i \in 2..Len(stack) + 1 : /\ i - 1 \in 1..Len(stack)
                                        /\ stack'[i].call = stack[i - 1].call
                                        /\ stack'[i].sequential = stack[i - 1].sequential
      BY <2>6, <2>8, <2>9
    <2>11. ReadingTyped'
      BY <2>1, <2>2, <2>8 DEF ReadingInvariant, ReadingTyped
    <2>12. \A i \in 1..Len(stack) : stack[i].call \in Nat /\ stack[i].call <= calls
      <3>1. \A i \in 1..Len(stack) : stack[i] \in FrameType
        BY <2>6
      <3>2. \A i \in 1..Len(stack) : stack[i].call \in Nat
        BY <3>1 DEF FrameType
      <3> QED
        BY <3>2 DEF ReadingInvariant, StackInvariant
    <2>13. StackInvariant'
      <3>0. /\ stack'[1].call = calls + 1
            /\ \A i \in 2..Len(stack) + 1 : stack'[i].call \in Nat /\ stack'[i].call <= calls
        BY <2>5, <2>8, <2>10, <2>12, Zenon
      <3>1. ASSUME NEW i \in 1..Len(stack') PROVE stack'[i].call <= calls'
        <4>1. calls' = calls + 1 /\ calls \in Nat
          BY <2>1, <2>2, Zenon
        <4>2. i = 1 \/ i \in 2..Len(stack) + 1
          BY <2>6, <2>8
        <4> QED
          BY <3>0, <4>1, <4>2
      <3>2. ASSUME NEW i \in 1..Len(stack'), NEW j \in 1..Len(stack'), i # j
            PROVE  stack'[i].call # stack'[j].call
        <4>1. CASE i = 1 \/ j = 1
          BY <2>2, <2>6, <2>8, <3>0, <3>2, <4>1
        <4>2. CASE i # 1 /\ j # 1
          <5>1. i \in 2..Len(stack) + 1 /\ j \in 2..Len(stack) + 1 /\ i - 1 # j - 1
            BY <2>6, <2>8, <3>2, <4>2
          <5> QED
            BY <2>10, <5>1, SMTT(30) DEF ReadingInvariant, StackInvariant
        <4> QED
          BY <4>1, <4>2, Zenon
      <3> QED
        BY <3>1, <3>2, Zenon DEF StackInvariant
    <2>14. SectionInvariant'
      <3>1. \A f \in DOMAIN filter_config_map :
                filter_config_map[f].call \in Nat /\ filter_config_map[f].call <= calls
        BY DEF ReadingInvariant, ReadingTyped, SectionInvariant, SectionType
      <3>2. \A f \in DOMAIN filter_config_map : filter_config_map[f].call <= calls'
        BY <2>1, <2>2, <3>1
      <3>3. ASSUME NEW f \in DOMAIN filter_config_map, NEW i \in 1..Len(stack'),
                   stack'[i].call = filter_config_map[f].call
            PROVE  filter_config_map[f].priority < stack'[i].sequential
        <4>1. i \in 2..Len(stack) + 1
          BY <2>2, <2>5, <2>6, <2>8, <3>1, <3>3
        <4> QED
          BY <2>10, <3>3, <4>1, Zenon DEF ReadingInvariant, SectionInvariant
      <3> QED
        BY <2>1, <3>2, <3>3 DEF ReadingInvariant, SectionInvariant
    <2> QED
      BY <2>11, <2>13, <2>14 DEF ReadingInvariant
  <1> QED
    BY <1>1, <1>2, Zenon

LEMMA EndOfFileStep ==
    ASSUME ReadingInvariant, EndOfFile
    PROVE  ReadingInvariant'
  <1>1. /\ stack # << >> /\ stack' = Tail(stack)
        /\ UNCHANGED <<contents, calls, read, filter_config_map, priorities>>
    BY DEF EndOfFile, sections
  <1>2. stack \in Seq(FrameType) /\ Len(stack) \in Nat
    BY DEF ReadingInvariant, ReadingTyped
  <1>3. /\ stack' \in Seq(FrameType) /\ Len(stack') = Len(stack) - 1
        /\ \A i \in 1..Len(stack') : i + 1 \in 1..Len(stack) /\ stack'[i] = stack[i + 1]
    BY <1>1, <1>2, Popped
  <1>4. ReadingTyped'
    BY <1>1, <1>3, Zenon DEF ReadingInvariant, ReadingTyped
  <1>5. StackInvariant'
    BY <1>1, <1>2, <1>3 DEF ReadingInvariant, StackInvariant
  <1>6. SectionInvariant'
    BY <1>1, <1>3 DEF ReadingInvariant, SectionInvariant
  <1> QED
    BY <1>4, <1>5, <1>6 DEF ReadingInvariant

LEMMA SameReading ==
    ASSUME ReadingInvariant, UNCHANGED <<contents, reading, filter_config_map, priorities>>
    PROVE  ReadingInvariant'
  BY DEF ReadingInvariant, ReadingTyped, StackInvariant, SectionInvariant, reading

LEMMA ReadingStep ==
    ASSUME ReadingInvariant, [ConfNext]_ConfVars
    PROVE  ReadingInvariant'
  <1>1. CASE UnknownNode
    BY <1>1, SameReading DEF UnknownNode, sections
  <1>2. CASE \E i \in DOMAIN FilterNames : AssignPriority(i)
    BY <1>2, SameReading DEF AssignPriority, sections
  <1>3. CASE EndAssign
    BY <1>3, SameReading, Zenon DEF EndAssign, sections
  <1>4. CASE \E p \in DOMAIN priority_map : BuildFilter(p)
    BY <1>4, SameReading DEF BuildFilter, sections
  <1>5. CASE EndBuild
    BY <1>5, SameReading, Zenon DEF EndBuild, sections
  <1>6. CASE UNCHANGED ConfVars
    BY <1>6, SameReading DEF ConfVars, sections
  <1> QED
    BY <1>1, <1>2, <1>3, <1>4, <1>5, <1>6, FilterNodeStep, PriorityNodeStep, OtherNodeStep,
       IncludeFileStep, EndOfFileStep, Zenon DEF ConfNext

-----------------------------------------------------------------------------
(* The final numbers. *)

HasMax(S) == \E m \in S : \A n \in S : n <= m

LEMMA MaxOfOneMore ==
    ASSUME NEW S \in SUBSET Int, S = {} \/ HasMax(S), NEW x \in Int
    PROVE  HasMax(S \cup {x})
  <1>1. CASE S = {}
    BY <1>1 DEF HasMax
  <1>2. CASE HasMax(S)
    <2>1. PICK m \in S : \A n \in S : n <= m
      BY <1>2 DEF HasMax
    <2>2. CASE x <= m
      BY <2>1, <2>2 DEF HasMax
    <2>3. CASE ~(x <= m)
      <3>1. \A n \in S \cup {x} : n <= x
        BY <2>1, <2>3
      <3> QED
        BY <3>1 DEF HasMax
    <2> QED
      BY <2>2, <2>3
  <1> QED
    BY <1>1, <1>2

\* There are five filters, so a priority list has a greatest number.
LEMMA MaxOfRanks ==
    ASSUME NEW ranks \in Rankings
    PROVE  /\ MaxPriority(ranks) \in Int
           /\ \A f \in DOMAIN ranks : ranks[f] \in Int /\ ranks[f] <= MaxPriority(ranks)
  <1>1. DOMAIN ranks \subseteq AllFilters /\ \A f \in DOMAIN ranks : ranks[f] \in Int
    BY Zenon DEF Rankings
  <1>2. AllFilters = {"bot_sniffer", "challenger", "denialator", "regex_banner", "white_lister"}
    BY DEF AllFilters, FilterNames, Range
  <1> DEFINE Of(f) == IF f \in DOMAIN ranks THEN {ranks[f]} ELSE {}
             S1 == Of("bot_sniffer")
             S2 == S1 \cup Of("challenger")
             S3 == S2 \cup Of("denialator")
             S4 == S3 \cup Of("regex_banner")
             S5 == S4 \cup Of("white_lister")
  <1>3. Range(ranks) = S5
    BY <1>1, <1>2, Zenon DEF Range
  <1>4. \A f : Of(f) = {} \/ \E x \in Int : Of(f) = {x}
    BY <1>1, Zenon
  <1>5. ASSUME NEW S \in SUBSET Int, S = {} \/ HasMax(S), NEW f
        PROVE  S \cup Of(f) \in SUBSET Int /\ (S \cup Of(f) = {} \/ HasMax(S \cup Of(f)))
    <2>1. CASE Of(f) = {}
      <3>1. S \cup Of(f) = S
        BY <2>1
      <3> QED
        BY <1>5, <3>1, Zenon
    <2>2. CASE \E x \in Int : Of(f) = {x}
      <3>1. PICK x \in Int : Of(f) = {x}
        BY <2>2
      <3>2. S \cup Of(f) = S \cup {x} /\ HasMax(S \cup {x})
        BY <1>5, <3>1, MaxOfOneMore, Zenon
      <3> HIDE DEF Of
      <3> QED
        BY <3>1, <3>2
    <2> QED
      BY <1>4, <2>1, <2>2
  <1> HIDE DEF Of
  <1>6. /\ {} \cup Of("bot_sniffer") \in SUBSET Int
        /\ {} \cup Of("bot_sniffer") = {} \/ HasMax({} \cup Of("bot_sniffer"))
    BY <1>5, Zenon
  <1>7. S1 \in SUBSET Int /\ (S1 = {} \/ HasMax(S1))
    <2>1. S1 = {} \cup Of("bot_sniffer")
      OBVIOUS
    <2> HIDE DEF S1
    <2> QED
      BY <1>6, <2>1
  <1> HIDE DEF S1
  <1>8. S2 \in SUBSET Int /\ (S2 = {} \/ HasMax(S2))
    BY <1>5, <1>7, Zenon
  <1> HIDE DEF S2
  <1>9. S3 \in SUBSET Int /\ (S3 = {} \/ HasMax(S3))
    BY <1>5, <1>8
  <1> HIDE DEF S3
  <1>10. S4 \in SUBSET Int /\ (S4 = {} \/ HasMax(S4))
    BY <1>5, <1>9
  <1> HIDE DEF S4
  <1>11. S5 \in SUBSET Int /\ (S5 = {} \/ HasMax(S5))
    BY <1>5, <1>10, Zenon
  <1> HIDE DEF S5
  <1>12. CASE ranks = Empty
    BY <1>12 DEF MaxPriority, Empty
  <1>13. CASE ranks # Empty
    <2>1. \E f \in AllFilters : f \in DOMAIN ranks
      BY <1>1, <1>13 DEF Rankings, Empty
    <2>2. HasMax(Range(ranks))
      BY <1>3, <1>11, <2>1, Zenon DEF Range
    <2>3. MaxPriority(ranks) \in Range(ranks) /\ \A n \in Range(ranks) : n <= MaxPriority(ranks)
      BY <1>13, <2>2, Zenon DEF MaxPriority, HasMax
    <2> QED
      BY <1>1, <2>3, Zenon DEF Range
  <1> QED
    BY <1>12, <1>13, Zenon

\* A number behind the list is greater than every number of the list.
LEMMA FinalPriorities ==
    ASSUME ReadingInvariant, NEW f \in DOMAIN filter_config_map
    PROVE  /\ FinalPriority(f) \in Int /\ filter_config_map[f].priority \in Nat
           /\ MaxPriority(priorities) \in Int
           /\ Ranked(f) => FinalPriority(f) = priorities[f] /\ FinalPriority(f) <= MaxPriority(priorities)
           /\ ~Ranked(f) => /\ FinalPriority(f) = filter_config_map[f].priority + MaxPriority(priorities) + 1
                            /\ FinalPriority(f) > MaxPriority(priorities)
  <1>1. filter_config_map[f].priority \in Nat /\ priorities \in Rankings
    BY Zenon DEF ReadingInvariant, ReadingTyped, SectionType
  <1>2. /\ MaxPriority(priorities) \in Int
        /\ \A g \in DOMAIN priorities : priorities[g] \in Int /\ priorities[g] <= MaxPriority(priorities)
    BY <1>1, MaxOfRanks, Zenon
  <1> QED
    BY <1>1, <1>2 DEF FinalPriority, Ranked

\* Two filters have the same number for one of two reasons only.
LEMMA EqualPriorities ==
    ASSUME ReadingInvariant, NEW f \in DOMAIN filter_config_map, NEW g \in DOMAIN filter_config_map,
           f # g, FinalPriority(f) = FinalPriority(g)
    PROVE  \/ Ranked(f) /\ Ranked(g) /\ priorities[f] = priorities[g]
           \/ /\ ~Ranked(f) /\ ~Ranked(g)
              /\ filter_config_map[f].call # filter_config_map[g].call
  <1>1. CASE Ranked(f) /\ Ranked(g)
    BY <1>1, FinalPriorities, Zenon
  <1>2. CASE Ranked(f) /\ ~Ranked(g)
    <2>1. FinalPriority(f) \in Int /\ FinalPriority(f) <= MaxPriority(priorities)
      BY <1>2, FinalPriorities, Zenon
    <2>2. MaxPriority(priorities) \in Int /\ FinalPriority(g) > MaxPriority(priorities)
      BY <1>2, FinalPriorities, Zenon
    <2> QED
      BY <2>1, <2>2
  <1>3. CASE ~Ranked(f) /\ Ranked(g)
    <2>1. FinalPriority(g) \in Int /\ FinalPriority(g) <= MaxPriority(priorities)
      BY <1>3, FinalPriorities, Zenon
    <2>2. MaxPriority(priorities) \in Int /\ FinalPriority(f) > MaxPriority(priorities)
      BY <1>3, FinalPriorities, Zenon
    <2> QED
      BY <2>1, <2>2
  <1>4. CASE ~Ranked(f) /\ ~Ranked(g)
    <2>1. filter_config_map[f].priority = filter_config_map[g].priority
      BY <1>4, FinalPriorities
    <2>2. /\ filter_config_map[f].since \in Nat /\ filter_config_map[g].since \in Nat
          /\ filter_config_map[f].priority \in Nat /\ filter_config_map[g].priority \in Nat
      BY Zenon DEF ReadingInvariant, ReadingTyped, SectionType
    <2> QED
      BY <1>4, <2>1, <2>2 DEF ReadingInvariant, SectionInvariant
  <1> QED
    BY <1>1, <1>2, <1>3, <1>4, Zenon

-----------------------------------------------------------------------------
(* The steps that number and build the filters. *)

\* While files are read there is no number and no filter.
LEMMA NothingBuilt ==
    ASSUME priority_map = Empty, built = << >>, task_queue = << >>
    PROVE  Numbered /\ BuiltInOrder
  <1>1. Numbered
    BY DEF Numbered, Empty
  <1>2. built \in Seq({}) /\ task_queue \in Seq(AllFilters \ {"bot_sniffer"})
    OBVIOUS
  <1> QED
    BY <1>1, <1>2 DEF BuiltInOrder, QueueInOrder

LEMMA StillNothingBuilt ==
    ASSUME priority_map' = Empty, built' = << >>, task_queue' = << >>
    PROVE  Numbered' /\ BuiltInOrder'
  <1>1. Numbered'
    BY DEF Numbered, Empty
  <1>2. built' \in Seq({}) /\ task_queue' \in Seq(AllFilters \ {"bot_sniffer"})
    OBVIOUS
  <1> QED
    BY <1>1, <1>2 DEF BuiltInOrder, QueueInOrder

LEMMA SameNumbers ==
    ASSUME UNCHANGED <<filter_config_map, priorities>>
    PROVE  /\ \A f : FinalPriority(f)' = FinalPriority(f)
           /\ \A f : Ranked(f)' <=> Ranked(f)
  BY Zenon DEF FinalPriority, Ranked

LEMMA SameOrder ==
    ASSUME Numbered, BuiltInOrder, DoublyAssigned,
           UNCHANGED <<filter_config_map, priorities, priority_map, built, task_queue>>
    PROVE  /\ Numbered' /\ BuiltInOrder'
           /\ reason' = reason => DoublyAssigned'
           /\ reason' # "doubly assigned" => DoublyAssigned'
  <1>1. \A f : FinalPriority(f)' = FinalPriority(f)
    BY SameNumbers
  <1>2. Numbered'
    BY <1>1 DEF Numbered
  <1>3. BuiltInOrder'
    <2>1. QueueInOrder'
      BY <1>1, Zenon DEF BuiltInOrder, QueueInOrder
    <2> QED
      BY <1>1, <2>1 DEF BuiltInOrder, Names
  <1> QED
    BY <1>2, <1>3 DEF DoublyAssigned, Ranked

LEMMA AssignStep ==
    ASSUME ConfigurationInvariant, NEW i \in DOMAIN FilterNames, AssignPriority(i)
    PROVE  PhaseInvariant' /\ Numbered' /\ BuiltInOrder' /\ DoublyAssigned'
  <1> DEFINE f == FilterNames[i]
             p == FinalPriority(f)
  <1>1. /\ phase = "prioritising" /\ f \in DOMAIN filter_config_map /\ f \notin Range(priority_map)
        /\ UNCHANGED <<filter_config_map, priorities, built, task_queue, consumer>>
        /\ built = << >> /\ task_queue = << >> /\ reason = Unset
    BY DEF AssignPriority, Unassigned, sections, outcome, ConfigurationInvariant, PhaseInvariant
  <1>2. ReadingInvariant /\ p \in Int
    BY <1>1, FinalPriorities, Zenon DEF ConfigurationInvariant
  <1>3. \A g : FinalPriority(g)' = FinalPriority(g)
    BY <1>1, SameNumbers, Zenon
  <1>4. BuiltInOrder'
    <2>1. built' = << >> /\ built' \in Seq({}) /\ task_queue' = << >>
      BY <1>1
    <2> QED
      BY <2>1 DEF BuiltInOrder, QueueInOrder
  <1>5. CASE p \in DOMAIN priority_map
    <2>1. phase' = "aborted" /\ reason' = "doubly assigned" /\ UNCHANGED priority_map
      BY <1>5 DEF AssignPriority, Abort
    <2>2. PhaseInvariant'
      BY <1>1, <2>1 DEF PhaseInvariant, ConfigurationInvariant, Phases, Unset
    <2>3. Numbered'
      BY <1>1, <1>3, <2>1 DEF ConfigurationInvariant, Numbered
    <2> DEFINE g == priority_map[p]
    <2>4. g \in DOMAIN filter_config_map /\ g # f /\ FinalPriority(g) = p
      BY <1>1, <1>5, Zenon DEF ConfigurationInvariant, Numbered, Range
    <2> HIDE DEF f, g
    <2>5. \/ Ranked(f) /\ Ranked(g) /\ priorities[f] = priorities[g]
          \/ /\ ~Ranked(f) /\ ~Ranked(g)
             /\ filter_config_map[f].call # filter_config_map[g].call
      BY <1>1, <1>2, <2>4, EqualPriorities, Zenon
    <2>6. DoublyAssigned'
      BY <1>1, <2>4, <2>5 DEF DoublyAssigned, Ranked
    <2> QED
      BY <1>4, <2>2, <2>3, <2>6, Zenon
  <1>6. CASE p \notin DOMAIN priority_map
    <2>1. /\ priority_map' = Extend(priority_map, p, f) /\ UNCHANGED <<phase, reason>>
      BY <1>6, Zenon DEF AssignPriority, Continue
    <2>2. PhaseInvariant'
      BY <1>1, <2>1, Zenon DEF PhaseInvariant, ConfigurationInvariant
    <2>3. DoublyAssigned'
      BY <1>1, <2>1 DEF DoublyAssigned, Unset
    <2>4. /\ DOMAIN priority_map' = DOMAIN priority_map \cup {p}
          /\ \A q \in DOMAIN priority_map' : priority_map'[q] = IF q = p THEN f ELSE priority_map[q]
      BY <2>1, Zenon DEF Extend
    <2> HIDE DEF f
    <2>5. Numbered'
      BY <1>1, <1>2, <1>3, <2>4, Zenon DEF ConfigurationInvariant, Numbered
    <2> QED
      BY <1>4, <2>2, <2>3, <2>5
  <1> QED
    BY <1>5, <1>6, Zenon

\* The filter with the least number of those that are left is the next.
LEMMA BuildStep ==
    ASSUME ConfigurationInvariant, NEW p \in DOMAIN priority_map, BuildFilter(p)
    PROVE  PhaseInvariant' /\ Numbered' /\ BuiltInOrder' /\ DoublyAssigned'
  <1> DEFINE f == priority_map[p]
             cfg == Merged(filter_config_map[f].config_node_list)
             entry == [name |-> f, cfg |-> cfg]
  <1>1. /\ phase = "building" /\ f \notin Names(built) /\ reason = Unset
        /\ \A q \in DOMAIN priority_map : q < p => priority_map[q] \in Names(built)
        /\ UNCHANGED <<filter_config_map, priorities, priority_map, consumer>>
    BY DEF BuildFilter, sections, ConfigurationInvariant, PhaseInvariant
  <1>2. CASE ~Loads(f, cfg)
    <2>1. phase' = "aborted" /\ reason' = "bad filter section" /\ UNCHANGED <<built, task_queue>>
      BY <1>2 DEF BuildFilter, Abort
    <2>2. PhaseInvariant'
      BY <1>1, <2>1 DEF ConfigurationInvariant, PhaseInvariant, Phases, Unset
    <2> QED
      BY <1>1, <2>1, <2>2, SameOrder DEF ConfigurationInvariant
  <1>3. CASE Loads(f, cfg)
    <2>1. built' = Append(built, entry) /\ task_queue' = Queued(f) /\ UNCHANGED <<phase, reason>>
      BY <1>3, Zenon DEF BuildFilter, Continue
    <2>2. entry.name = f
      BY Zenon
    <2> HIDE DEF entry
    <2>3. PhaseInvariant'
      BY <1>1, <2>1, Zenon DEF PhaseInvariant, ConfigurationInvariant
    <2>4. DoublyAssigned'
      BY <1>1, <2>1 DEF DoublyAssigned, Unset
    <2>5. \A g : FinalPriority(g)' = FinalPriority(g)
      BY <1>1, SameNumbers, Zenon
    <2>6. Numbered'
      BY <1>1, <2>5, Zenon DEF ConfigurationInvariant, Numbered
    <2>7. PICK S : built \in Seq(S)
      BY Zenon DEF ConfigurationInvariant, BuiltInOrder
    <2>8. /\ Len(built) \in Nat /\ Len(built') = Len(built) + 1 /\ built' \in Seq(S \cup {entry})
          /\ built'[Len(built) + 1] = entry /\ \A i \in 1..Len(built) : built'[i] = built[i]
      BY <2>1, <2>7
    <2>9. p \in Int /\ FinalPriority(f) = p
      BY Zenon DEF ConfigurationInvariant, Numbered
    <2>10. Names(built') = Names(built) \cup {f}
      BY <2>2, <2>7, <2>8 DEF Names
    <2>11. \A i \in 1..Len(built) : FinalPriority(built[i].name) \in Int /\ FinalPriority(built[i].name) < p
      <3> SUFFICES ASSUME NEW i \in 1..Len(built)
                   PROVE  FinalPriority(built[i].name) \in Int /\ FinalPriority(built[i].name) < p
        BY Zenon
      <3> DEFINE r == FinalPriority(built[i].name)
      <3>1. /\ r \in DOMAIN priority_map /\ priority_map[r] = built[i].name
            /\ \A q \in DOMAIN priority_map : q < r => priority_map[q] \in Names(built)
        BY Zenon DEF ConfigurationInvariant, BuiltInOrder
      <3>2. built[i].name \in Names(built)
        BY <2>7 DEF Names
      <3>3. r # p
        BY <1>1, <3>1, <3>2, Zenon
      <3>4. ~(p < r)
        BY <1>1, <3>1, Zenon
      <3>5. r \in Int
        BY <3>1, Zenon DEF ConfigurationInvariant, Numbered
      <3> QED
        BY <2>9, <3>3, <3>4, <3>5
    <2>12. BuiltInOrder'
      <3>1. \A i \in 1..Len(built') :
                LET r == FinalPriority(built'[i].name)
                IN  /\ r \in DOMAIN priority_map /\ priority_map[r] = built'[i].name
                    /\ \A q \in DOMAIN priority_map : q < r => priority_map[q] \in Names(built')
        <4> SUFFICES ASSUME NEW i \in 1..Len(built')
                     PROVE  LET r == FinalPriority(built'[i].name)
                            IN  /\ r \in DOMAIN priority_map /\ priority_map[r] = built'[i].name
                                /\ \A q \in DOMAIN priority_map : q < r => priority_map[q] \in Names(built')
          BY Zenon
        <4>1. CASE i = Len(built) + 1
          BY <1>1, <2>2, <2>8, <2>9, <2>10, <4>1, Zenon
        <4>2. CASE i \in 1..Len(built)
          BY <2>8, <2>10, <4>2, Zenon DEF ConfigurationInvariant, BuiltInOrder
        <4>3. i = Len(built) + 1 \/ i \in 1..Len(built)
          BY <2>8
        <4> QED
          BY <4>1, <4>2, <4>3, Zenon
      <3>2. \A i, j \in 1..Len(built') : i < j =>
                FinalPriority(built'[i].name) < FinalPriority(built'[j].name)
        <4> SUFFICES ASSUME NEW i \in 1..Len(built'), NEW j \in 1..Len(built'), i < j
                     PROVE  FinalPriority(built'[i].name) < FinalPriority(built'[j].name)
          BY Zenon
        <4>1. i \in 1..Len(built)
          BY <2>8
        <4>2. CASE j = Len(built) + 1
          BY <2>2, <2>8, <2>9, <2>11, <4>1, <4>2, Zenon
        <4>3. CASE j \in 1..Len(built)
          BY <2>8, <4>1, <4>3, Zenon DEF ConfigurationInvariant, BuiltInOrder
        <4>4. j = Len(built) + 1 \/ j \in 1..Len(built)
          BY <2>8
        <4> QED
          BY <4>2, <4>3, <4>4, Zenon
      <3>3. QueueInOrder'
        <4>1. f \in AllFilters
          BY Zenon DEF ConfigurationInvariant, Numbered, ReadingInvariant, ReadingTyped
        <4>2. QueueInOrder
          BY Zenon DEF ConfigurationInvariant, BuiltInOrder
        <4>3. \A j \in 1..Len(task_queue) : \E i \in 1..Len(built') : built'[i].name = task_queue[j]
          <5> TAKE j \in 1..Len(task_queue)
          <5>1. PICK i \in 1..Len(built) : built[i].name = task_queue[j]
            BY <4>2, Zenon DEF QueueInOrder
          <5>2. i \in 1..Len(built') /\ built'[i] = built[i]
            BY <2>8
          <5> QED
            BY <5>1, <5>2, Zenon
        <4>4. \A j \in 1..Len(task_queue) : FinalPriority(task_queue[j]) < p
          BY <2>11, <4>2, Zenon DEF QueueInOrder
        <4> HIDE DEF f
        <4>5. CASE f = "bot_sniffer"
          <5>1. task_queue' = task_queue
            BY <2>1, <4>5 DEF Queued
          <5> QED
            BY <2>5, <4>2, <4>3, <5>1, Zenon DEF QueueInOrder
        <4>6. CASE f # "bot_sniffer"
          <5>1. task_queue' = Append(task_queue, f) /\ task_queue \in Seq(AllFilters \ {"bot_sniffer"})
            BY <2>1, <4>2, <4>6 DEF Queued, QueueInOrder
          <5>2. /\ task_queue' \in Seq(AllFilters \ {"bot_sniffer"}) /\ Len(task_queue) \in Nat
                /\ Len(task_queue') = Len(task_queue) + 1 /\ task_queue'[Len(task_queue) + 1] = f
                /\ \A j \in 1..Len(task_queue) : task_queue'[j] = task_queue[j]
            BY <4>1, <4>6, <5>1
          <5>3. \A j \in 1..Len(task_queue') : j \in 1..Len(task_queue) \/ j = Len(task_queue) + 1
            BY <5>2
          <5>4. Len(built) + 1 \in 1..Len(built') /\ built'[Len(built) + 1].name = f
            BY <2>2, <2>8
          <5>5. \A j \in 1..Len(task_queue') : \E i \in 1..Len(built') : built'[i].name = task_queue'[j]
            BY <4>3, <5>2, <5>3, <5>4, Zenon
          <5>6. ASSUME NEW j \in 1..Len(task_queue'), NEW k \in 1..Len(task_queue'), j < k
                PROVE  FinalPriority(task_queue'[j]) < FinalPriority(task_queue'[k])
            <6>1. j \in 1..Len(task_queue)
              BY <5>2, <5>6
            <6>2. CASE k = Len(task_queue) + 1
              BY <2>9, <4>4, <5>2, <6>1, <6>2, Zenon
            <6>3. CASE k \in 1..Len(task_queue)
              BY <4>2, <5>2, <5>6, <6>1, <6>3, Zenon DEF QueueInOrder
            <6> QED
              BY <5>3, <6>2, <6>3, Zenon
          <5> QED
            BY <2>5, <5>2, <5>5, <5>6 DEF QueueInOrder
        <4> QED
          BY <4>5, <4>6, Zenon
      <3> QED
        BY <1>1, <2>5, <2>8, <3>1, <3>2, <3>3, Zenon DEF BuiltInOrder, Names
    <2> QED
      BY <2>3, <2>4, <2>6, <2>12, Zenon
  <1> QED
    BY <1>2, <1>3, Zenon

\* A step of process_config: it builds nothing and assigns no number.
LEMMA WhileReading ==
    ASSUME ConfigurationInvariant, phase = "reading", UNCHANGED <<priority_map, outcome>>,
           reason' # "doubly assigned", phase' \in {"reading", "prioritising", "aborted"},
           reason' # Unset <=> phase' = "aborted"
    PROVE  PhaseInvariant' /\ Numbered' /\ BuiltInOrder' /\ DoublyAssigned'
  <1>1. priority_map' = Empty
    BY DEF ConfigurationInvariant, PhaseInvariant
  <1>2. built' = << >> /\ task_queue' = << >> /\ consumer' = consumer
    BY DEF ConfigurationInvariant, PhaseInvariant, outcome
  <1>3. PhaseInvariant'
    BY <1>1, <1>2 DEF ConfigurationInvariant, PhaseInvariant, Phases
  <1>4. Numbered' /\ BuiltInOrder'
    BY <1>1, <1>2, StillNothingBuilt
  <1> QED
    BY <1>3, <1>4 DEF DoublyAssigned

LEMMA ConfigurationStep ==
    ASSUME ConfigurationInvariant, [ConfNext]_ConfVars
    PROVE  ConfigurationInvariant'
  <1>1. ReadingInvariant'
    BY ReadingStep DEF ConfigurationInvariant
  <1>2. phase = "reading" => reason = Unset
    BY Zenon DEF ConfigurationInvariant, PhaseInvariant
  <1>3. PhaseInvariant' /\ Numbered' /\ BuiltInOrder' /\ DoublyAssigned'
    <2>1. CASE FilterNode
      BY <1>2, <2>1, WhileReading, Zenon DEF FilterNode, AtNode, Continue, Unset
    <2>2. CASE PriorityNode
      BY <1>2, <2>2, WhileReading DEF PriorityNode, AtNode, Continue, Abort, Unset
    <2>3. CASE SettingNode
      BY <1>2, <2>3, WhileReading DEF SettingNode, AtNode, Continue, Unset
    <2>4. CASE IncludeNode
      BY <1>2, <2>4, WhileReading, Zenon DEF IncludeNode, AtNode, Continue, Unset
    <2>5. CASE IncludeFile
      BY <1>2, <2>5, WhileReading DEF IncludeFile, Continue, Abort, Unset
    <2>6. CASE UnknownNode
      BY <1>2, <2>6, WhileReading DEF UnknownNode, Abort, Unset
    <2>7. CASE EndOfFile
      BY <1>2, <2>7, WhileReading, Zenon DEF EndOfFile, AfterFile, Unset
    <2>8. CASE \E i \in DOMAIN FilterNames : AssignPriority(i)
      BY <2>8, AssignStep, Zenon
    <2>9. CASE EndAssign
      BY <2>9, SameOrder, Zenon DEF EndAssign, sections, outcome, ConfigurationInvariant, PhaseInvariant, Phases
    <2>10. CASE \E p \in DOMAIN priority_map : BuildFilter(p)
      BY <2>10, BuildStep, Zenon
    <2>11. CASE EndBuild
      BY <2>11, SameOrder, Zenon DEF EndBuild, sections, ConfigurationInvariant, PhaseInvariant, Phases
    <2>12. CASE UNCHANGED ConfVars
      BY <2>12, SameOrder DEF ConfVars, sections, outcome, ConfigurationInvariant, PhaseInvariant
    <2> QED
      BY <2>1, <2>2, <2>3, <2>4, <2>5, <2>6, <2>7, <2>8, <2>9, <2>10, <2>11, <2>12, Zenon DEF ConfNext
  <1> QED
    BY <1>1, <1>3, Zenon DEF ConfigurationInvariant

LEMMA ConfigurationInit ==
    ASSUME ConfInit
    PROVE  ConfigurationInvariant
  <1>1. contents \in Configurations /\ MainFile \in DOMAIN contents
    BY ConfAssumption, Zenon DEF ConfInit
  <1>2. Frame(MainFile, 1) \in FrameType /\ Frame(MainFile, 1).call = 1
    BY <1>1, FrameContents, SMTT(30) DEF Frame, FrameType
  <1>3. ReadingTyped
    <2>1. priorities \in Rankings
      BY DEF ConfInit, Empty, Rankings
    <2> QED
      BY <1>1, <1>2, <2>1 DEF ConfInit, ReadingTyped, Empty
  <1>4. StackInvariant /\ SectionInvariant
    BY <1>2 DEF ConfInit, StackInvariant, SectionInvariant, Empty
  <1>5. Numbered /\ BuiltInOrder
    BY NothingBuilt, Zenon DEF ConfInit
  <1> QED
    BY <1>3, <1>4, <1>5, Zenon DEF ConfInit, ConfigurationInvariant, ReadingInvariant, PhaseInvariant,
                            DoublyAssigned, Unset, Phases

\* The numbers say which filters come first.
LEMMA OrderFromNumbers ==
    ASSUME ConfigurationInvariant
    PROVE  OrderKept
  <1> SUFFICES ASSUME NEW i \in DOMAIN built, NEW j \in DOMAIN built, i < j
               PROVE  LET f == built[i].name
                          g == built[j].name
                      IN  /\ Ranked(g) => Ranked(f) /\ priorities[f] < priorities[g]
                          /\ /\ ~Ranked(f) /\ ~Ranked(g)
                             /\ filter_config_map[f].call = filter_config_map[g].call
                             => filter_config_map[f].since < filter_config_map[g].since
    BY DEF OrderKept
  <1> DEFINE f == built[i].name
             g == built[j].name
  <1>1. ReadingInvariant
    BY Zenon DEF ConfigurationInvariant
  <1>2. i \in 1..Len(built) /\ j \in 1..Len(built)
    BY DEF ConfigurationInvariant, BuiltInOrder
  <1>3. /\ FinalPriority(f) < FinalPriority(g)
        /\ FinalPriority(f) \in DOMAIN priority_map /\ priority_map[FinalPriority(f)] = f
        /\ FinalPriority(g) \in DOMAIN priority_map /\ priority_map[FinalPriority(g)] = g
    BY <1>2, Zenon DEF ConfigurationInvariant, BuiltInOrder
  <1>4. f \in DOMAIN filter_config_map /\ g \in DOMAIN filter_config_map
    BY <1>3, Zenon DEF ConfigurationInvariant, Numbered
  <1> HIDE DEF f, g
  <1>5. FinalPriority(f) \in Int /\ FinalPriority(g) \in Int /\ f # g
    <2>1. FinalPriority(f) \in Int /\ FinalPriority(g) \in Int
      BY <1>1, <1>4, FinalPriorities, Zenon
    <2> QED
      BY <1>3, <2>1
  <1>6. ASSUME Ranked(g) PROVE Ranked(f) /\ priorities[f] < priorities[g]
    <2>1. FinalPriority(g) = priorities[g] /\ FinalPriority(g) <= MaxPriority(priorities)
          /\ MaxPriority(priorities) \in Int
      BY <1>1, <1>4, <1>6, FinalPriorities, Zenon
    <2>2. ~(FinalPriority(f) > MaxPriority(priorities))
      BY <1>3, <1>5, <2>1
    <2>3. Ranked(f)
      BY <1>1, <1>4, <2>2, FinalPriorities, Zenon
    <2>4. FinalPriority(f) = priorities[f]
      BY <1>1, <1>4, <2>3, FinalPriorities, Zenon
    <2> QED
      BY <1>3, <2>1, <2>3, <2>4, Zenon
  <1>7. ASSUME ~Ranked(f), ~Ranked(g), filter_config_map[f].call = filter_config_map[g].call
        PROVE  filter_config_map[f].since < filter_config_map[g].since
    <2>1. FinalPriority(f) = filter_config_map[f].priority + MaxPriority(priorities) + 1
          /\ filter_config_map[f].priority \in Nat /\ MaxPriority(priorities) \in Int
      BY <1>1, <1>4, <1>7, FinalPriorities, Zenon
    <2>2. FinalPriority(g) = filter_config_map[g].priority + MaxPriority(priorities) + 1
          /\ filter_config_map[g].priority \in Nat
      BY <1>1, <1>4, <1>7, FinalPriorities, Zenon
    <2>3. filter_config_map[f].priority < filter_config_map[g].priority
      BY <1>3, <2>1, <2>2
    <2>4. filter_config_map[f].since \in Nat /\ filter_config_map[g].since \in Nat
      BY <1>1, <1>4, Zenon DEF ReadingInvariant, ReadingTyped, SectionType
    <2>5. /\ filter_config_map[f].since # filter_config_map[g].since
          /\ filter_config_map[g].since < filter_config_map[f].since =>
                filter_config_map[g].priority < filter_config_map[f].priority
      BY <1>1, <1>4, <1>5, <1>7, Zenon DEF ReadingInvariant, SectionInvariant
    <2> QED
      BY <2>1, <2>2, <2>3, <2>4, <2>5
  <1> QED
    BY <1>6, <1>7, Zenon DEF f, g

-----------------------------------------------------------------------------
(* The inductive invariant of the transaction *)

Codes == {"CONTINUE", "ERROR"}
AllResults == {"GO_AHEAD_NO_COMMENT", "SERVE_IMMIDIATELY_DONT_CACHE", "SERVE_FRESH", "I_RESPOND"}
Refusable == {"no_store_set", "config_int_set"}

\* Where the plugin is follows from the event that it handles, and whether the
\* event has been reenabled from where the plugin is.
EventOrder ==
    /\ pc \in {"new", "waiting", "filtering", "filtered", "closing", "gone", "thrown"} \cup Events
    /\ event \in Events \cup {"TXN_START"}
    /\ pc \in Events => event = pc
    /\ pc = "new" => event = "TXN_START"
    /\ pc \in {"filtering", "filtered"} => event = "READ_REQUEST_HDR"
    /\ pc \in {"closing", "gone"} => event = "TXN_CLOSE"

ReenableOrder ==
    /\ reenabled \in Seq(Codes)
    /\ Len(reenabled) = IF pc \in {"waiting", "gone"} THEN 1 ELSE 0

\* The results are those of the filters that ran; none is a verdict while the
\* loop goes on, and the filter that responds is the one with the last.
ResultOrder ==
    /\ results \in Seq(AllResults)
    /\ position = Len(results) + 1
    /\ event = "TXN_START" \/ pc = "READ_REQUEST_HDR" => results = << >>
    /\ \A i \in 1..Len(results) : results[i] \in Verdicts => i = Len(results)
    /\ pc = "filtering" => \A i \in 1..Len(results) : results[i] \notin Verdicts
    /\ response_info # Nothing =>
          /\ results # << >> /\ results[Len(results)] = "I_RESPOND"
          /\ response_info = http_request_queue[Len(results)]
    /\ answer \in Filters => answer = response_info

\* Where a response may come from, given the code that the request got.
SourceOrder ==
    /\ event \in {"TXN_START", "READ_REQUEST_HDR"} => source = Nothing
    /\ response_info # Nothing =>
          /\ event \notin {"TXN_START", "SEND_REQUEST_HDR"}
          /\ source \in {Nothing, "ats"}
          /\ event = "READ_REQUEST_HDR" /\ pc = "waiting" => reenabled[1] = "ERROR"
    /\ pc \in {"filtering", "filtered"} => response_info = Nothing

\* The cache is off once a page is to be fresh, if ATS did not refuse, and was
\* on if the response came from it.
CacheOrder ==
    /\ cache_http \in BOOLEAN
    /\ source = "cache" => cache_http = TRUE
    /\ (\E i \in 1..Len(results) : results[i] = "SERVE_FRESH") /\ failed \cap Refusable = {}
       => cache_http = FALSE

TransactionInvariant == EventOrder /\ ReenableOrder /\ ResultOrder /\ SourceOrder /\ CacheOrder

LEMMA TransactionInit == Fresh => TransactionInvariant
  <1> SUFFICES ASSUME Fresh PROVE TransactionInvariant
    BY Zenon
  <1>1. EventOrder
    BY Zenon DEF Fresh, EventOrder, Events
  <1>2. ReenableOrder
    BY DEF Fresh, ReenableOrder
  <1>3. ResultOrder
    BY DEF Fresh, ResultOrder, Nothing, Filters
  <1>4. SourceOrder
    BY Zenon DEF Fresh, SourceOrder, Nothing
  <1>5. CacheOrder
    BY DEF Fresh, CacheOrder, Nothing
  <1> QED
    BY <1>1, <1>2, <1>3, <1>4, <1>5 DEF TransactionInvariant

LEMMA EventStep == TransactionInvariant /\ [Next]_vars => EventOrder'
  <1> SUFFICES ASSUME TransactionInvariant, [Next]_vars PROVE EventOrder'
    BY Zenon
  <1> USE DEF TransactionInvariant, EventOrder, Events
  <1>1. CASE Start \/ Miss \/ EndRequest \/ HandleResponse
    BY <1>1 DEF Start, Miss, EndRequest, HandleResponse, Answer
  <1>2. CASE HandleRequest \/ HandleClose
    BY <1>2, Zenon DEF HandleRequest, HandleClose, Retrieve
  <1>3. CASE Close
    BY <1>3, Zenon DEF Close
  <1>4. ASSUME NEW e \in Events, Deliver(e) PROVE EventOrder'
    BY <1>4 DEF Deliver
  <1>5. ASSUME NEW f \in Filters, RunFilter(f) PROVE EventOrder'
    <2>1. pc' = "thrown" \/ \E result \in Results(f) : pc' = AfterResult(result)
      BY <1>5, Zenon DEF RunFilter
    <2> QED
      BY <1>5, <2>1, Zenon DEF RunFilter, AfterResult
  <1>6. CASE UNCHANGED vars
    BY <1>6, Zenon DEF vars
  <1> QED
    BY <1>1, <1>2, <1>3, <1>4, <1>5, <1>6, Zenon DEF Next

LEMMA ReenableStep == TransactionInvariant /\ [Next]_vars => ReenableOrder'
  <1> SUFFICES ASSUME TransactionInvariant, [Next]_vars PROVE ReenableOrder'
    OBVIOUS
  <1> USE DEF TransactionInvariant, ReenableOrder, Codes
  <1>0. pc \notin {"waiting", "gone"} => reenabled = << >>
    OBVIOUS
  <1>1. ASSUME NEW code \in Codes, pc \notin {"waiting", "gone"},
               Reenable(code), pc' \in {"waiting", "gone"}
        PROVE  ReenableOrder'
    BY <1>0, <1>1 DEF Reenable
  <1>2. ASSUME UNCHANGED reenabled, pc \notin {"waiting", "gone"}, pc' \notin {"waiting", "gone"}
        PROVE  ReenableOrder'
    BY <1>2, Zenon
  <1>3. CASE Start \/ Miss \/ EndRequest \/ Close
    BY <1>1, <1>2, <1>3, Zenon DEF Start, Miss, EndRequest, Close
  <1>4. CASE HandleRequest \/ HandleClose
    BY <1>2, <1>4, Zenon DEF HandleRequest, HandleClose, Retrieve
  <1>5. CASE HandleResponse
    BY <1>1, <1>2, <1>5 DEF HandleResponse, Answer
  <1>6. ASSUME NEW e \in Events, Deliver(e) PROVE ReenableOrder'
    BY <1>6 DEF Deliver, Events
  <1>7. ASSUME NEW f \in Filters, RunFilter(f) PROVE ReenableOrder'
    <2>1. pc = "filtering"
      BY <1>7, Zenon DEF RunFilter
    <2>2. CASE pc' = "thrown" /\ UNCHANGED reenabled
      BY <1>2, <2>1, <2>2, Zenon
    <2>3. ASSUME NEW result \in Results(f), pc' = AfterResult(result),
                 IF result = "I_RESPOND" THEN response_info' = f /\ Reenable(RespondCode)
                                         ELSE UNCHANGED <<response_info, reenabled>>
          PROVE  ReenableOrder'
      BY <1>1, <1>2, <2>1, <2>3, Zenon DEF AfterResult, RespondCode
    <2> QED
      BY <1>7, <2>2, <2>3, Zenon DEF RunFilter
  <1>8. CASE UNCHANGED vars
    BY <1>8, Zenon DEF vars
  <1> QED
    BY <1>3, <1>4, <1>5, <1>6, <1>7, <1>8, Zenon DEF Next

\* The filters of a transaction stay, and so does their queue.
LEMMA QueueKept == [Next]_vars => UNCHANGED chain
  BY DEF Next, vars, Start, Miss, EndRequest, HandleResponse, HandleRequest, HandleClose, Close,
         Deliver, RunFilter

\* What one turn of the loop does to the results.
LEMMA FilterRan ==
    ASSUME NEW f \in Filters, RunFilter(f)
    PROVE  /\ pc = "filtering" /\ f = http_request_queue[position]
           /\ UNCHANGED <<event, source, answer>>
           /\ \/ /\ pc' = "thrown"
                 /\ UNCHANGED <<position, results, response_info, cache_http, failed>>
              \/ \E result \in AllResults :
                    /\ results' = Append(results, result) /\ position' = position + 1
                    /\ pc' = AfterResult(result)
                    /\ IF result = "SERVE_FRESH" THEN ServeFresh ELSE UNCHANGED <<cache_http, failed>>
                    /\ IF result = "I_RESPOND" THEN response_info' = f /\ reenabled' = Append(reenabled, "ERROR")
                                               ELSE UNCHANGED response_info
  <1>1. \A result \in Results(f) : result \in AllResults
    BY Zenon DEF Results, AllResults
  <1> QED
    BY <1>1 DEF RunFilter, Reenable, RespondCode

LEMMA ResultStep == TransactionInvariant /\ [Next]_vars => ResultOrder'
  <1> SUFFICES ASSUME TransactionInvariant, [Next]_vars PROVE ResultOrder'
    OBVIOUS
  <1>0. http_request_queue' = http_request_queue
    BY QueueKept, Zenon DEF chain
  <1>1. results \in Seq(AllResults) /\ Len(results) \in Nat /\ ResultOrder /\ EventOrder
    BY DEF TransactionInvariant, ResultOrder
  <1>2. ASSUME UNCHANGED <<results, position, response_info>>,
               event' = "TXN_START" \/ pc' = "READ_REQUEST_HDR" => event = "TXN_START" \/ pc = "READ_REQUEST_HDR",
               pc' = "filtering" => pc \in {"filtering", "READ_REQUEST_HDR"},
               UNCHANGED answer \/ answer' = response_info \/ answer' \notin Filters
        PROVE  ResultOrder'
    BY <1>0, <1>1, <1>2 DEF ResultOrder
  <1>3. CASE Start \/ Miss \/ EndRequest \/ Close
    BY <1>1, <1>2, <1>3, Zenon DEF Start, Miss, EndRequest, Close, EventOrder
  <1>4. CASE HandleRequest \/ HandleClose
    BY <1>1, <1>2, <1>4, Zenon DEF HandleRequest, HandleClose, Retrieve, EventOrder
  <1>5. CASE HandleResponse
    <2>1. "connection failure" \notin Filters
      BY DEF Filters
    <2> QED
      BY <1>1, <1>2, <1>5, <2>1 DEF HandleResponse, Answer, EventOrder
  <1>6. ASSUME NEW e \in Events, Deliver(e) PROVE ResultOrder'
    BY <1>1, <1>2, <1>6, Zenon DEF Deliver, Events, Following, EventOrder
  <1>7. ASSUME NEW f \in Filters, RunFilter(f) PROVE ResultOrder'
    <2>1. pc = "filtering" /\ event = "READ_REQUEST_HDR" /\ UNCHANGED <<event, answer>>
      BY <1>1, <1>7, FilterRan, Zenon DEF EventOrder
    <2>2. CASE pc' = "thrown" /\ UNCHANGED <<position, results, response_info>>
      BY <1>2, <2>1, <2>2, Zenon
    <2>3. ASSUME NEW result \in AllResults, results' = Append(results, result),
                 position' = position + 1, pc' = AfterResult(result),
                 IF result = "I_RESPOND" THEN response_info' = f ELSE UNCHANGED response_info
          PROVE  ResultOrder'
      <3>1. /\ results' \in Seq(AllResults) /\ Len(results') = Len(results) + 1
            /\ results'[Len(results) + 1] = result /\ results' # << >>
            /\ \A i \in 1..Len(results) : results'[i] = results[i]
        BY <1>1, <2>3
      <3>2. \A i \in 1..Len(results) : results'[i] \notin Verdicts
        BY <1>1, <2>1, <3>1, Zenon DEF ResultOrder
      <3>3. position' = Len(results') + 1
        BY <1>1, <2>3, <3>1 DEF ResultOrder
      <3>4. pc' = "filtering" => result \notin Verdicts
        BY <2>3, Zenon DEF AfterResult, Verdicts
      <3>5. \A i \in 1..Len(results') : i \in 1..Len(results) \/ i = Len(results')
        BY <1>1, <3>1
      <3>6. response_info = Nothing
        BY <2>1, Zenon DEF TransactionInvariant, SourceOrder
      <3>7. response_info' # Nothing => /\ results'[Len(results')] = "I_RESPOND"
                                        /\ response_info' = http_request_queue[Len(results')]
        BY <1>1, <1>7, <2>3, <3>1, <3>6, FilterRan, Zenon DEF ResultOrder
      <3>8. answer' \in Filters => answer' = response_info'
        BY <1>1, <2>1, <3>6 DEF ResultOrder, Filters, Nothing
      <3>9. event' # "TXN_START" /\ pc' # "READ_REQUEST_HDR"
        BY <2>1, <2>3, Zenon DEF AfterResult
      <3> QED
        BY <1>0, <3>1, <3>2, <3>3, <3>4, <3>5, <3>7, <3>8, <3>9, Zenon DEF ResultOrder
    <2> QED
      BY <1>7, <2>2, <2>3, FilterRan, Zenon
  <1>8. CASE UNCHANGED vars
    BY <1>1, <1>2, <1>8, Zenon DEF vars
  <1> QED
    BY <1>3, <1>4, <1>5, <1>6, <1>7, <1>8, Zenon DEF Next

LEMMA SourceStep == TransactionInvariant /\ [Next]_vars => SourceOrder'
  <1> SUFFICES ASSUME TransactionInvariant, [Next]_vars PROVE SourceOrder'
    OBVIOUS
  <1>1. EventOrder /\ ReenableOrder /\ SourceOrder /\ ResultOrder
    BY Zenon DEF TransactionInvariant
  <1>2. ASSUME UNCHANGED <<event, source, response_info>>,
               pc' \in {"filtering", "filtered"} => pc = "READ_REQUEST_HDR",
               response_info # Nothing /\ event = "READ_REQUEST_HDR" => pc' # "waiting"
        PROVE  SourceOrder'
    <2>1. pc = "READ_REQUEST_HDR" => response_info = Nothing
      BY <1>1, Zenon DEF ResultOrder
    <2> QED
      BY <1>1, <1>2, <2>1, Zenon DEF SourceOrder
  <1>3. CASE Start \/ Miss \/ Close
    BY <1>1, <1>2, <1>3, Zenon DEF Start, Miss, Close, EventOrder
  <1>4. CASE HandleRequest \/ HandleClose
    BY <1>1, <1>2, <1>4, Zenon DEF HandleRequest, HandleClose, Retrieve, EventOrder
  <1>5. CASE HandleResponse
    BY <1>1, <1>2, <1>5 DEF HandleResponse, Answer, EventOrder
  <1>6. CASE EndRequest
    <2>1. response_info = Nothing
      BY <1>1, <1>6, Zenon DEF EndRequest, SourceOrder
    <2> QED
      BY <1>1, <1>2, <1>6, <2>1, Zenon DEF EndRequest, EventOrder
  <1>7. ASSUME NEW e \in Events, Deliver(e) PROVE SourceOrder'
    <2>1. /\ pc = "waiting" /\ e \in Following(event, reenabled[1]) /\ pc' = e /\ event' = e
          /\ source' \in Sources(e) /\ UNCHANGED response_info
      BY <1>7 DEF Deliver
    <2>2. event' # "TXN_START" /\ (event' = "READ_REQUEST_HDR" => event = "TXN_START")
      BY <1>1, <2>1 DEF Following, Events, EventOrder
    <2>3. event' = "READ_REQUEST_HDR" => source' = Nothing
      BY <1>1, <2>1, <2>2 DEF Sources, SourceOrder
    <2>4. response_info # Nothing => event' # "SEND_REQUEST_HDR" /\ source' \in {Nothing, "ats"}
      BY <1>1, <2>1, Zenon DEF Sources, SourceOrder, Following, EventOrder, Events
    <2> QED
      BY <2>1, <2>2, <2>3, <2>4, Zenon DEF SourceOrder, Events
  <1>8. ASSUME NEW f \in Filters, RunFilter(f) PROVE SourceOrder'
    <2>1. /\ pc = "filtering" /\ event = "READ_REQUEST_HDR" /\ UNCHANGED <<event, source>>
          /\ source = Nothing /\ response_info = Nothing /\ reenabled = << >>
      BY <1>1, <1>8, FilterRan DEF EventOrder, SourceOrder, ReenableOrder
    <2>2. CASE pc' = "thrown" /\ UNCHANGED response_info
      BY <2>1, <2>2, Zenon DEF SourceOrder
    <2>3. ASSUME NEW result \in AllResults, pc' = AfterResult(result),
                 IF result = "I_RESPOND" THEN response_info' = f /\ reenabled' = Append(reenabled, "ERROR")
                                         ELSE UNCHANGED response_info
          PROVE  SourceOrder'
      <3>1. CASE result = "I_RESPOND"
        <4>1. pc' = "waiting" /\ reenabled'[1] = "ERROR"
          BY <2>1, <2>3, <3>1 DEF AfterResult
        <4> QED
          BY <2>1, <4>1 DEF SourceOrder
      <3>2. CASE result # "I_RESPOND"
        BY <2>1, <2>3, <3>2, Zenon DEF SourceOrder
      <3> QED
        BY <3>1, <3>2, Zenon
    <2> QED
      BY <1>8, <2>2, <2>3, FilterRan, Zenon
  <1>9. CASE UNCHANGED vars
    BY <1>1, <1>9, Zenon DEF vars, SourceOrder
  <1> QED
    BY <1>3, <1>4, <1>5, <1>6, <1>7, <1>8, <1>9, Zenon DEF Next

LEMMA CacheStep == TransactionInvariant /\ [Next]_vars => CacheOrder'
  <1> SUFFICES ASSUME TransactionInvariant, [Next]_vars PROVE CacheOrder'
    OBVIOUS
  <1>1. EventOrder /\ SourceOrder /\ ResultOrder /\ CacheOrder
    BY Zenon DEF TransactionInvariant
  <1>2. ASSUME UNCHANGED <<results, cache_http>>, failed \subseteq failed',
               source' = "cache" => source = "cache" \/ cache_http = TRUE
        PROVE  CacheOrder'
    BY <1>1, <1>2 DEF CacheOrder
  <1>3. CASE Start \/ Miss \/ Close \/ EndRequest
    BY <1>2, <1>3, Zenon DEF Start, Miss, Close, EndRequest
  <1>4. CASE HandleRequest \/ HandleClose
    BY <1>2, <1>4, Zenon DEF HandleRequest, HandleClose, Retrieve
  <1>5. CASE HandleResponse
    BY <1>2, <1>5 DEF HandleResponse
  <1>6. ASSUME NEW e \in Events, Deliver(e) PROVE CacheOrder'
    <2>1. source' = "cache" => source = "cache" \/ cache_http = TRUE
      BY <1>1, <1>6, Zenon DEF Deliver, Sources, Events, CacheOrder
    <2> QED
      BY <1>2, <1>6, <2>1, Zenon DEF Deliver
  <1>7. ASSUME NEW f \in Filters, RunFilter(f) PROVE CacheOrder'
    <2>1. source' # "cache"
      BY <1>1, <1>7, FilterRan DEF EventOrder, SourceOrder, Nothing
    <2>2. CASE UNCHANGED <<results, cache_http, failed>>
      BY <1>2, <2>1, <2>2, Zenon
    <2>3. ASSUME NEW result \in AllResults, results' = Append(results, result),
                 IF result = "SERVE_FRESH" THEN ServeFresh ELSE UNCHANGED <<cache_http, failed>>
          PROVE  CacheOrder'
      <3>1. /\ Len(results') = Len(results) + 1 /\ results'[Len(results) + 1] = result
            /\ \A i \in 1..Len(results) : results'[i] = results[i] /\ Len(results) \in Nat
        BY <1>1, <2>3 DEF ResultOrder
      <3>2. CASE result = "SERVE_FRESH"
        <4>1. PICK noStore \in Ok("no_store_set"), config \in Ok("config_int_set") :
                 /\ cache_http' = (cache_http /\ ~(noStore /\ config))
                 /\ failed' = failed \cup (IF noStore THEN Failing("config_int_set", config)
                                                      ELSE {"no_store_set"})
          BY <2>3, <3>2 DEF ServeFresh
        <4>2. noStore \in BOOLEAN /\ config \in BOOLEAN
          BY Zenon DEF Ok
        <4>3. failed' \cap Refusable = {} => noStore /\ config
          BY <4>1, <4>2, Zenon DEF Failing, Refusable
        <4> QED
          BY <2>1, <4>1, <4>3, Zenon DEF CacheOrder
      <3>3. CASE result # "SERVE_FRESH"
        BY <1>1, <2>1, <2>3, <3>1, <3>3 DEF CacheOrder
      <3> QED
        BY <3>2, <3>3, Zenon
    <2> QED
      BY <1>7, <2>2, <2>3, FilterRan, Zenon
  <1>8. CASE UNCHANGED vars
    BY <1>2, <1>8, Zenon DEF vars
  <1> QED
    BY <1>3, <1>4, <1>5, <1>6, <1>7, <1>8, Zenon DEF Next


-----------------------------------------------------------------------------
(* The parts that the muncher has, and the types of the transaction *)

\* The filters that are asked on a request are among those configured.
ChainOrder ==
    /\ filters \in Seq(Filters) /\ http_request_queue \in Seq(Filters \ {"bot_sniffer"})
    /\ \A j \in 1..Len(http_request_queue) : http_request_queue[j] \in Elements(filters)

\* A bit that is set has its part, and what the filters asked for has its bit.
MuncherOrder ==
    /\ cur_trans_parts \subseteq Parts /\ valid_parts \subseteq Parts \ {"MISS"}
    /\ failed \subseteq Unreliable
    /\ failed = {} => valid_parts \subseteq cur_trans_parts
    /\ pc \in {"filtering", "filtered"} \/ results # << >> =>
          all_filters_requested_part \subseteq valid_parts
    /\ pc = "thrown" => failed # {}

\* The rest of the types.
ResultTypes ==
    /\ Len(results) <= Len(http_request_queue)
    /\ \A i \in 1..Len(results) : results[i] \in Results(http_request_queue[i])
    /\ response_info \in Filters \cup {Nothing}
    /\ source \in {Nothing, "ats", "cache", "origin"}
    /\ answer \in Filters \cup {Nothing, "connection failure"}
    /\ logged \in {Nothing, "HIT", "MISS"}

LEMMA Requested ==
    ASSUME NEW f \in Filters
    PROVE  /\ requested_info[f] \subseteq RequestParts
           /\ f # "bot_sniffer" => \A parts \in ReadOnRequest(f) : parts \subseteq requested_info[f]
           /\ \A parts \in ReadOnResponse(f) : parts \subseteq requested_info[f]
           /\ AddedOnRequest(f) \subseteq RequestParts
<1>1. CASE f = "regex_banner"
  BY <1>1 DEF requested_info, ReadOnRequest, ReadOnResponse, RequestParts, AddedOnRequest
<1>2. CASE f = "challenger"
  BY <1>2 DEF requested_info, ReadOnRequest, ReadOnResponse, RequestParts, AddedOnRequest
<1>3. CASE f = "bot_sniffer"
  BY <1>3 DEF requested_info, ReadOnRequest, ReadOnResponse, RequestParts, AddedOnRequest
<1>4. CASE f = "white_lister"
  BY <1>4 DEF requested_info, ReadOnRequest, ReadOnResponse, RequestParts, AddedOnRequest
<1>5. CASE f = "denialator"
  BY <1>5, Zenon DEF requested_info, ReadOnRequest, ReadOnResponse, RequestParts, AddedOnRequest
<1> QED
  BY <1>1, <1>2, <1>3, <1>4, <1>5 DEF Filters

LEMMA AllRequested ==
    ASSUME ChainOrder
    PROVE  /\ all_filters_requested_part \subseteq RequestParts
           /\ \A f \in Elements(filters) : f \in Filters /\ requested_info[f] \subseteq all_filters_requested_part
           /\ all_filters_response_part \subseteq ResponseParts
<1>1. \A f \in Elements(filters) : f \in Filters
  BY DEF ChainOrder, Elements
<1> QED
  BY <1>1, Requested, Zenon DEF all_filters_requested_part, all_filters_response_part

LEMMA PartSets == /\ RequestParts \subseteq Parts \ {"MISS"} /\ ResponseParts \subseteq Parts \ {"MISS"}
                  /\ "MISS" \in Parts
  BY Zenon DEF Parts, RequestParts, ResponseParts

\* What a retrieval of the request's parts leaves behind.
LEMMA Retrieved ==
    ASSUME ChainOrder, MuncherOrder, NEW next, Retrieve(next)
    PROVE  /\ cur_trans_parts' \subseteq Parts /\ valid_parts' \subseteq Parts \ {"MISS"}
           /\ valid_parts \subseteq valid_parts'
           /\ failed \subseteq failed' /\ failed' \subseteq Unreliable
           /\ failed' = {} => valid_parts' \subseteq cur_trans_parts'
           /\ \/ pc' = "thrown" /\ failed' # {}
              \/ pc' = next /\ all_filters_requested_part \subseteq valid_parts'
<1> DEFINE requested == all_filters_requested_part
           wanted == ToRetrieve(requested)
<1>0. requested \subseteq RequestParts
  BY AllRequested, Zenon
<1>1. PICK header \in Ok("client_req"), hostSet \in Ok("url_host_set") :
          IF wanted # {} /\ ~header
          THEN /\ pc' = "thrown" /\ failed' = failed \cup {"client_req"}
               /\ UNCHANGED muncher
          ELSE /\ pc' = next
               /\ failed' = failed \cup (IF "URL_WITH_HOST" \in wanted
                                         THEN Failing("url_host_set", hostSet) ELSE {})
               /\ retrieve_parts(requested, hostSet)
  BY Zenon DEF Retrieve
<1>2. CASE wanted # {} /\ ~header
  <2>1. "client_req" \in Unreliable
    BY <1>2, Zenon DEF Ok
  <2> QED
    BY <1>1, <1>2, <2>1 DEF MuncherOrder, muncher
<1>3. CASE ~(wanted # {} /\ ~header)
  <2> DEFINE without == IF hostSet THEN {} ELSE {"URL_WITH_HOST"}
  <2>1. /\ cur_trans_parts' = cur_trans_parts \cup ((wanted \cup Alongside(wanted)) \ without)
        /\ valid_parts' = valid_parts \cup requested
               \cup (IF "URL_WITH_HOST" \in wanted THEN {"HOST", "URL"} ELSE {})
        /\ pc' = next
        /\ failed' = failed \cup (IF "URL_WITH_HOST" \in wanted
                                  THEN Failing("url_host_set", hostSet) ELSE {})
    BY <1>1, <1>3, Zenon DEF retrieve_parts
  <2>2. /\ Alongside(wanted) \subseteq {"HOST", "URL", "PROTOCOL"}
        /\ "URL_WITH_HOST" \in wanted => {"HOST", "URL"} \subseteq Alongside(wanted)
    BY Zenon DEF Alongside
  <2>3. {"HOST", "URL", "PROTOCOL"} \subseteq RequestParts
    BY Zenon DEF RequestParts
  <2>4. wanted \subseteq requested /\ requested \subseteq valid_parts \cup wanted
    BY DEF ToRetrieve
  <2>5. ~hostSet => "url_host_set" \in Unreliable
    BY Zenon DEF Ok
  <2> HIDE DEF wanted, requested
  <2>6. cur_trans_parts' \subseteq Parts /\ valid_parts' \subseteq Parts \ {"MISS"}
    BY <1>0, <2>1, <2>2, <2>3, <2>4, PartSets, Zenon DEF MuncherOrder
  <2>7. failed \subseteq failed' /\ failed' \subseteq Unreliable
    BY <2>1, <2>5, Zenon DEF MuncherOrder, Failing
  <2>8. failed' = {} => failed = {} /\ ("URL_WITH_HOST" \in wanted => hostSet)
    BY <2>1, Zenon DEF Failing
  <2>9. failed' = {} => valid_parts' \subseteq cur_trans_parts'
    BY <2>1, <2>2, <2>4, <2>8, Zenon DEF MuncherOrder
  <2> QED
    BY <2>1, <2>6, <2>7, <2>9, Zenon DEF requested
<1> QED
  BY <1>2, <1>3, Zenon

\* What one turn of the loop does to the parts, and what it returns.
LEMMA FilterRead ==
    ASSUME NEW f \in Filters, RunFilter(f)
    PROVE  /\ pc = "filtering" /\ position <= Len(http_request_queue)
           /\ f = http_request_queue[position] /\ valid_parts' = valid_parts
           /\ UNCHANGED <<source, answer, logged>>
           /\ \/ /\ pc' = "thrown" /\ \E parts \in ReadOnRequest(f) : ~(parts \subseteq cur_trans_parts)
                 /\ UNCHANGED <<cur_trans_parts, position, results, response_info, failed>>
              \/ /\ cur_trans_parts' = cur_trans_parts \cup AddedOnRequest(f)
                 /\ pc' # "thrown" /\ failed \subseteq failed' /\ failed' \subseteq failed \cup Unreliable
                 /\ response_info' \in {f, response_info}
                 /\ \E result \in Results(f) : results' = Append(results, result)
<1>1. ServeFresh => failed \subseteq failed' /\ failed' \subseteq failed \cup Unreliable
  <2> SUFFICES ASSUME ServeFresh PROVE failed \subseteq failed' /\ failed' \subseteq failed \cup Unreliable
    BY Zenon
  <2>1. PICK noStore \in Ok("no_store_set"), config \in Ok("config_int_set") :
            failed' = failed \cup (IF noStore THEN Failing("config_int_set", config) ELSE {"no_store_set"})
    BY DEF ServeFresh
  <2>2. /\ ~noStore => "no_store_set" \in Unreliable
        /\ ~config => "config_int_set" \in Unreliable
    BY Zenon DEF Ok
  <2> QED
    BY <2>1, <2>2, Zenon DEF Failing
<1>2. \A result : AfterResult(result) # "thrown"
  BY Zenon DEF AfterResult
<1> QED
  BY <1>1, <1>2, Zenon DEF RunFilter

LEMMA MuncherStep ==
    ASSUME TransactionInvariant, ChainOrder, MuncherOrder, ResultTypes, [Next]_vars
    PROVE  MuncherOrder'
<1> DEFINE requested == all_filters_requested_part
<1>0. requested' = requested /\ http_request_queue' = http_request_queue /\ filters' = filters
  BY QueueKept, Zenon DEF chain, all_filters_requested_part
<1>1. ASSUME UNCHANGED <<valid_parts, failed, results>>, cur_trans_parts \subseteq cur_trans_parts',
             cur_trans_parts' \subseteq Parts, pc' \notin {"filtering", "filtered", "thrown"}
      PROVE  MuncherOrder'
  BY <1>0, <1>1, Zenon DEF MuncherOrder
<1>2. CASE Start \/ EndRequest
  BY <1>1, <1>2, Zenon DEF Start, EndRequest, muncher, MuncherOrder
<1>3. CASE Miss
  BY <1>1, <1>3, PartSets, Zenon DEF Miss, MuncherOrder
<1>4. CASE HandleRequest
  BY <1>0, <1>4, Retrieved DEF HandleRequest, MuncherOrder
<1>5. CASE HandleClose
  BY <1>0, <1>5, Retrieved, SMTT(30) DEF HandleClose, MuncherOrder
<1>6. CASE Close
  <2>1. pc' = "thrown" => ~(ReadOnClose \subseteq cur_trans_parts)
    BY <1>6, Zenon DEF Close
  <2>2. ReadOnClose \subseteq valid_parts
    BY Zenon DEF ReadOnClose
  <2>3. pc' = "thrown" => failed # {}
    BY <2>1, <2>2, Zenon DEF MuncherOrder
  <2> QED
    BY <1>0, <1>6, <2>3, Zenon DEF Close, MuncherOrder, muncher
<1>7. CASE HandleResponse
  <2>1. CASE "client_resp" \in Unreliable /\ pc' = "thrown" /\ failed' = failed \cup {"client_resp"}
             /\ UNCHANGED muncher
    BY <1>0, <1>7, <2>1, Zenon DEF HandleResponse, MuncherOrder, muncher
  <2>2. CASE /\ retrieve_response_parts(all_filters_response_part) /\ UNCHANGED failed
             /\ \/ response_info # Nothing /\ Answer
                \/ response_info = Nothing /\ pc' = "waiting"
    <3>1. /\ cur_trans_parts' = cur_trans_parts \cup (all_filters_response_part \ valid_parts)
          /\ valid_parts' = valid_parts \cup all_filters_response_part
      BY <2>2, Zenon DEF retrieve_response_parts, ToRetrieve
    <3>2. /\ cur_trans_parts' \subseteq Parts /\ valid_parts' \subseteq Parts \ {"MISS"}
          /\ valid_parts \subseteq valid_parts'
          /\ failed = {} => valid_parts' \subseteq cur_trans_parts'
      BY <3>1, AllRequested, PartSets, Zenon DEF MuncherOrder
    <3>3. \/ pc' = "waiting"
          \/ pc' = "thrown" /\ response_info # Nothing
             /\ \E parts \in ReadOnResponse(response_info) : ~(parts \subseteq cur_trans_parts')
      BY <2>2, Zenon DEF Answer
    <3>4. ASSUME pc' = "thrown" PROVE failed # {}
      <4>1. /\ response_info \in Filters /\ results # << >>
            /\ response_info = http_request_queue[Len(results)]
            /\ Len(results) \in 1..Len(http_request_queue)
        <5>1. /\ response_info \in Filters /\ results # << >> /\ results \in Seq(AllResults)
              /\ response_info = http_request_queue[Len(results)]
              /\ Len(results) <= Len(http_request_queue)
          BY <3>3, <3>4 DEF TransactionInvariant, ResultOrder, ResultTypes
        <5>2. Len(results) \in Nat \ {0} /\ Len(http_request_queue) \in Nat
          BY <5>1 DEF ChainOrder
        <5> QED
          BY <5>1, <5>2
      <4>2. requested_info[response_info] \subseteq requested
        BY <4>1, AllRequested, Zenon DEF ChainOrder
      <4>3. requested \subseteq valid_parts'
        BY <3>2, <4>1, Zenon DEF MuncherOrder
      <4> QED
        BY <3>2, <3>3, <3>4, <4>1, <4>2, <4>3, Requested, Zenon
    <3> QED
      BY <1>0, <1>7, <2>2, <3>2, <3>3, <3>4 DEF HandleResponse, MuncherOrder
  <2> QED
    BY <1>7, <2>1, <2>2 DEF HandleResponse
<1>8. ASSUME NEW e \in Events, Deliver(e) PROVE MuncherOrder'
  BY <1>1, <1>8, Zenon DEF Deliver, Events, muncher, MuncherOrder
<1>9. ASSUME NEW f \in Filters, RunFilter(f) PROVE MuncherOrder'
  <2>1. /\ pc = "filtering" /\ requested \subseteq valid_parts /\ valid_parts' = valid_parts
        /\ f = http_request_queue[position]
    BY <1>9, FilterRead, Zenon DEF MuncherOrder
  <2>2. requested_info[f] \subseteq requested /\ f # "bot_sniffer"
    <3>1. position \in 1..Len(http_request_queue)
      BY <1>9, FilterRead, SMTT(30) DEF TransactionInvariant, ResultOrder
    <3>2. f \in Elements(filters) /\ f # "bot_sniffer"
      BY <2>1, <3>1 DEF ChainOrder
    <3> QED
      BY <3>2, AllRequested, Zenon
  <2>3. CASE pc' = "thrown" /\ (\E parts \in ReadOnRequest(f) : ~(parts \subseteq cur_trans_parts))
             /\ UNCHANGED <<cur_trans_parts, failed, results>>
    <3>1. failed # {}
      BY <2>1, <2>2, <2>3, Requested, Zenon DEF MuncherOrder
    <3> QED
      BY <1>0, <2>1, <2>3, <3>1, Zenon DEF MuncherOrder
  <2>4. CASE /\ cur_trans_parts' = cur_trans_parts \cup AddedOnRequest(f)
             /\ pc' # "thrown" /\ failed \subseteq failed' /\ failed' \subseteq failed \cup Unreliable
    <3>1. cur_trans_parts' \subseteq Parts
      BY <2>4, Requested, PartSets, Zenon DEF MuncherOrder
    <3> QED
      BY <1>0, <2>1, <2>4, <3>1, Zenon DEF MuncherOrder
  <2> QED
    BY <1>9, <2>3, <2>4, FilterRead, Zenon
<1>10. CASE UNCHANGED vars
  BY <1>0, <1>10, Zenon DEF vars, muncher, MuncherOrder
<1> QED
  BY <1>2, <1>3, <1>4, <1>5, <1>6, <1>7, <1>8, <1>9, <1>10, Zenon DEF Next

LEMMA TypesStep ==
    ASSUME TransactionInvariant, ChainOrder, ResultTypes, [Next]_vars
    PROVE  ResultTypes'
<1>0. http_request_queue' = http_request_queue
  BY QueueKept, Zenon DEF chain
<1>1. ASSUME UNCHANGED <<results, response_info, source, logged>>,
             answer' \in {answer, response_info, "connection failure"}
      PROVE  ResultTypes'
  BY <1>0, <1>1 DEF ResultTypes
<1>2. CASE Start \/ EndRequest \/ Miss \/ HandleRequest \/ HandleClose \/ HandleResponse
  BY <1>1, <1>2 DEF Start, EndRequest, Miss, HandleRequest, HandleClose, HandleResponse, Answer
<1>3. CASE Close
  BY <1>0, <1>3 DEF Close, HitOrMiss, ResultTypes
<1>4. ASSUME NEW e \in Events, Deliver(e) PROVE ResultTypes'
  <2>1. source' \in {Nothing, "ats", "cache", "origin"}
    BY <1>4 DEF Deliver, Sources, Events, ResultTypes
  <2> QED
    BY <1>0, <1>4, <2>1 DEF Deliver, ResultTypes
<1>5. ASSUME NEW f \in Filters, RunFilter(f) PROVE ResultTypes'
  <2>1. /\ results \in Seq(AllResults) /\ position = Len(results) + 1
        /\ f = http_request_queue[position] /\ position <= Len(http_request_queue)
        /\ UNCHANGED <<source, answer, logged>>
    BY <1>5, FilterRead, Zenon DEF TransactionInvariant, ResultOrder
  <2>2. CASE UNCHANGED <<results, response_info>>
    BY <1>1, <2>1, <2>2, Zenon
  <2>3. ASSUME NEW result \in Results(f), results' = Append(results, result),
               response_info' \in {f, response_info}
        PROVE  ResultTypes'
    <3>1. /\ Len(results') = Len(results) + 1 /\ Len(results) \in Nat
          /\ \A i \in 1..Len(results') : i \in 1..Len(results) \/ i = Len(results) + 1
          /\ results'[Len(results) + 1] = result
          /\ \A i \in 1..Len(results) : results'[i] = results[i]
      BY <2>1, <2>3, SMTT(30)
    <3>2. Len(results') <= Len(http_request_queue)
      BY <2>1, <3>1, Zenon
    <3>3. \A i \in 1..Len(results') : results'[i] \in Results(http_request_queue[i])
      BY <2>1, <2>3, <3>1 DEF ResultTypes
    <3> QED
      BY <1>0, <2>1, <2>3, <3>2, <3>3 DEF ResultTypes
  <2> QED
    BY <1>5, <2>2, <2>3, FilterRead, Zenon
<1>6. CASE UNCHANGED vars
  BY <1>1, <1>6, Zenon DEF vars
<1> QED
  BY <1>2, <1>3, <1>4, <1>5, <1>6, Zenon DEF Next

-----------------------------------------------------------------------------
(* The instance and the transaction that runs on it *)

\* A transaction starts when the instance is current, and finds there the
\* filters and the queue that build_filters made.
Serving ==
    /\ phase # "current" => pc = "new"
    /\ phase = "current" => /\ filters = [i \in DOMAIN built |-> built[i].name]
                            /\ http_request_queue = task_queue

ServerInvariant ==
    /\ ConfigurationInvariant /\ Serving
    /\ TransactionInvariant /\ ChainOrder /\ MuncherOrder /\ ResultTypes

LEMMA FreshTransaction ==
    ASSUME Fresh
    PROVE  TransactionInvariant /\ MuncherOrder /\ ResultTypes
<1>1. MuncherOrder
  BY Zenon DEF Fresh, MuncherOrder
<1>2. Len(results) = 0 /\ (Len(http_request_queue) \in Nat => ResultTypes)
  BY SMTT(30) DEF Fresh, ResultTypes
<1> QED
  BY <1>1, <1>2, TransactionInit

LEMMA ServerStart ==
    ASSUME ServerInit
    PROVE  ServerInvariant
<1>1. ConfigurationInvariant /\ phase = "reading" /\ Fresh /\ filters = << >> /\ http_request_queue = << >>
  BY ConfigurationInit, Zenon DEF ServerInit, ConfInit
<1>2. ChainOrder
  BY <1>1 DEF ChainOrder
<1>3. Serving
  BY <1>1, Zenon DEF Serving, Fresh
<1> QED
  BY <1>1, <1>2, <1>3, FreshTransaction, Zenon DEF ServerInvariant

LEMMA ConfigureStep ==
    ASSUME ServerInvariant, Configure
    PROVE  ServerInvariant'
<1>1. ConfigurationInvariant'
  BY ConfigurationStep, Zenon DEF ServerInvariant, Configure
<1>2. UNCHANGED <<chain, pc, event, reenabled, cur_trans_parts, valid_parts, position, results,
                  response_info, cache_http, source, answer, logged, failed>>
  BY Zenon DEF Configure, vars, muncher
<1>3. phase # "current" /\ phase' # "current"
  BY DEF Configure, ServerInvariant, ConfNext, FilterNode, PriorityNode, SettingNode, IncludeNode,
         IncludeFile, UnknownNode, EndOfFile, AfterFile, AssignPriority, EndAssign, BuildFilter,
         EndBuild, AtNode, Continue, Abort
<1>4. Serving'
  BY <1>2, <1>3, Zenon DEF Serving, ServerInvariant
<1>5. UNCHANGED vars
  BY Zenon DEF Configure
<1>6. TransactionInvariant'
  BY <1>5, EventStep, ReenableStep, ResultStep, SourceStep, CacheStep, Zenon DEF ServerInvariant, TransactionInvariant
<1>7. ChainOrder'
  BY <1>2, Zenon DEF ServerInvariant, ChainOrder, chain
<1>8. MuncherOrder' /\ ResultTypes'
  BY <1>5, MuncherStep, TypesStep, Zenon DEF ServerInvariant
<1> QED
  BY <1>1, <1>4, <1>6, <1>7, <1>8, Zenon DEF ServerInvariant

LEMMA ServeStep ==
    ASSUME ServerInvariant, Serve
    PROVE  ServerInvariant'
<1>1. UNCHANGED ConfVars /\ Next /\ phase = "current" /\ UNCHANGED chain
  BY QueueKept, Zenon DEF Serve
<1>2. ConfigurationInvariant'
  BY <1>1, ConfigurationStep, Zenon DEF ServerInvariant
<1>3. Serving'
  BY <1>1, Zenon DEF ServerInvariant, Serving, ConfVars, outcome, chain
<1>4. TransactionInvariant'
  BY <1>1, EventStep, ReenableStep, ResultStep, SourceStep, CacheStep, Zenon DEF ServerInvariant, TransactionInvariant
<1>5. ChainOrder'
  BY <1>1, Zenon DEF ServerInvariant, ChainOrder, chain
<1>6. MuncherOrder' /\ ResultTypes'
  BY <1>1, MuncherStep, TypesStep, Zenon DEF ServerInvariant
<1> QED
  BY <1>2, <1>3, <1>4, <1>5, <1>6 DEF ServerInvariant

LEMMA SameFilters == Filters = AllFilters
  BY DEF Filters, AllFilters, FilterNames, Range

\* What build_filters made is a chain.
LEMMA RegisterStep ==
    ASSUME ServerInvariant, Register
    PROVE  ServerInvariant'
<1>0. /\ ConfigurationInvariant /\ TransactionInvariant /\ MuncherOrder /\ ResultTypes
      /\ QueueInOrder /\ BuiltInOrder
  BY Zenon DEF ServerInvariant, ConfigurationInvariant, BuiltInOrder
<1>1. /\ phase = "ready" /\ phase' = "current" /\ pc = "new"
      /\ UNCHANGED <<contents, stack, calls, read, filter_config_map, priorities, priority_map,
                     built, task_queue, consumer, reason>>
      /\ UNCHANGED <<pc, event, reenabled, cur_trans_parts, valid_parts, position, results,
                     response_info, cache_http, source, answer, logged, failed>>
      /\ filters' = [i \in DOMAIN built |-> built[i].name] /\ http_request_queue' = task_queue
  BY Zenon DEF Register, reading, sections, outcome, muncher
<1>2. results = << >> /\ response_info = Nothing
  BY <1>0, <1>1, Zenon DEF TransactionInvariant, EventOrder, ResultOrder
<1>3. ConfigurationInvariant'
  <2>1. ReadingInvariant'
    BY <1>0, <1>1, SameReading, Zenon DEF ConfigurationInvariant, reading
  <2>2. PhaseInvariant'
    BY <1>0, <1>1, Zenon DEF ConfigurationInvariant, PhaseInvariant, Phases
  <2> QED
    BY <1>0, <1>1, <2>1, <2>2, SameOrder, Zenon DEF ConfigurationInvariant
<1>4. Serving'
  BY <1>1, Zenon DEF Serving
<1>5. TransactionInvariant'
  <2>1. EventOrder' /\ ReenableOrder' /\ CacheOrder'
    BY <1>0, <1>1, Zenon DEF TransactionInvariant, EventOrder, ReenableOrder, CacheOrder
  <2>2. ResultOrder' /\ SourceOrder'
    BY <1>0, <1>1, <1>2, Zenon DEF TransactionInvariant, ResultOrder, SourceOrder
  <2> QED
    BY <2>1, <2>2, Zenon DEF TransactionInvariant
<1>6. ChainOrder'
  <2>1. PICK S : built \in Seq(S)
    BY <1>0, Zenon DEF BuiltInOrder
  <2>2. \A i \in 1..Len(built) : built[i].name \in AllFilters
    BY <1>0, Zenon DEF BuiltInOrder, ConfigurationInvariant, Numbered, ReadingInvariant, ReadingTyped
  <2>3. DOMAIN built = 1..Len(built) /\ Len(built) \in Nat
    BY <2>1
  <2>4. filters' \in Seq(Filters) /\ Len(filters') = Len(built)
    BY <1>1, <2>2, <2>3, SameFilters
  <2>5. http_request_queue' \in Seq(Filters \ {"bot_sniffer"})
    BY <1>0, <1>1, SameFilters, Zenon DEF QueueInOrder
  <2>6. \A j \in 1..Len(task_queue) : task_queue[j] \in Elements(filters')
    BY <1>0, <1>1, <2>3, Zenon DEF QueueInOrder, Elements
  <2> QED
    BY <1>1, <2>4, <2>5, <2>6, Zenon DEF ChainOrder
<1>7. MuncherOrder'
  BY <1>0, <1>1, <1>2, Zenon DEF MuncherOrder
<1>8. ResultTypes'
  <2>1. Len(task_queue) \in Nat
    BY <1>0 DEF QueueInOrder
  <2>2. results' = << >> /\ Len(results') = 0 /\ Len(results') <= Len(http_request_queue')
    BY <1>1, <1>2, <2>1
  <2>3. \A i \in 1..Len(results') : results'[i] \in Results(http_request_queue'[i])
    BY <2>2
  <2>4. UNCHANGED <<response_info, source, answer, logged>>
    BY <1>1
  <2> QED
    BY <1>0, <2>2, <2>3, <2>4 DEF ResultTypes
<1> QED
  BY <1>3, <1>4, <1>5, <1>6, <1>7, <1>8, Zenon DEF ServerInvariant

LEMMA ServerSafe == ServerSpec => []ServerInvariant
<1>1. ServerInvariant /\ UNCHANGED ServerVars => ServerInvariant'
  <2> SUFFICES ASSUME ServerInvariant, UNCHANGED ServerVars PROVE ServerInvariant'
    OBVIOUS
  <2>1. UNCHANGED vars /\ UNCHANGED ConfVars
    BY DEF ServerVars
  <2>2. ConfigurationInvariant'
    BY <2>1, ConfigurationStep, Zenon DEF ServerInvariant
  <2>3. TransactionInvariant'
    BY <2>1, EventStep, ReenableStep, ResultStep, SourceStep, CacheStep, Zenon DEF ServerInvariant, TransactionInvariant
  <2>4. MuncherOrder' /\ ResultTypes'
    BY <2>1, MuncherStep, TypesStep, Zenon DEF ServerInvariant
  <2>5. ChainOrder' /\ Serving'
    BY <2>1, Zenon DEF ServerInvariant, ChainOrder, Serving, vars, ConfVars, chain, outcome
  <2> QED
    BY <2>2, <2>3, <2>4, <2>5, Zenon DEF ServerInvariant
<1>2. ServerInvariant /\ [ServerNext]_ServerVars => ServerInvariant'
  BY <1>1, ConfigureStep, ServeStep, RegisterStep, Zenon DEF ServerNext
<1>3. ServerInit => ServerInvariant
  BY ServerStart
<1> QED
  BY <1>2, <1>3, PTL DEF ServerSpec

-----------------------------------------------------------------------------
(* For all files *)

(* The types of the instance and of the transaction (banjax.h,              *)
(* transaction_data.h): sections, numbers and filters refer to what is      *)
(* there, and the results are ones that their filters can return.           *)
THEOREM ServerTypes == ServerSpec => []ServerTypeOK
<1>1. ServerInvariant => TypeOK
  <2> SUFFICES ASSUME ServerInvariant PROVE TypeOK
    OBVIOUS
  <2>0. EventOrder /\ ReenableOrder /\ ResultOrder /\ CacheOrder /\ ChainOrder /\ MuncherOrder /\ ResultTypes
    BY Zenon DEF ServerInvariant, TransactionInvariant
  <2>1. DOMAIN results = 1..Len(results) /\ Len(results) \in Nat /\ Len(http_request_queue) \in Nat
    BY <2>0 DEF ResultOrder, ChainOrder
  <2>2. position \in 1..Len(http_request_queue) + 1
    <3>1. position = Len(results) + 1 /\ Len(results) <= Len(http_request_queue)
      BY <2>0 DEF ResultOrder, ResultTypes
    <3> QED
      BY <2>1, <3>1
  <2>3. http_request_queue \in Seq(Filters)
    BY <2>0 DEF ChainOrder
  <2> QED
    BY <2>0, <2>1, <2>2, <2>3 DEF TypeOK, EventOrder, ReenableOrder, Codes, CacheOrder, ChainOrder,
                                  MuncherOrder, ResultTypes
<1>2. ServerInvariant => ConfTypeOK
  <2> SUFFICES ASSUME ServerInvariant PROVE ConfTypeOK
    OBVIOUS
  <2>0. ReadingTyped /\ StackInvariant /\ SectionInvariant /\ PhaseInvariant /\ Numbered /\ BuiltInOrder
    BY Zenon DEF ServerInvariant, ConfigurationInvariant, ReadingInvariant
  <2>1. \A i \in DOMAIN stack : stack[i].call \in 1..calls
    <3>1. DOMAIN stack = 1..Len(stack) /\ \A i \in 1..Len(stack) : stack[i] \in FrameType
      BY <2>0 DEF ReadingTyped
    <3>2. calls \in Nat /\ \A i \in 1..Len(stack) : stack[i].call \in Nat \ {0} /\ stack[i].call <= calls
      BY <2>0, <3>1, Zenon DEF ReadingTyped, StackInvariant, FrameType
    <3> QED
      BY <3>1, <3>2
  <2>2. \A f \in DOMAIN filter_config_map :
            /\ filter_config_map[f].priority \in Nat
            /\ filter_config_map[f].call \in 1..calls
            /\ filter_config_map[f].since \in 1..Len(read)
    <3> SUFFICES ASSUME NEW f \in DOMAIN filter_config_map
                 PROVE  /\ filter_config_map[f].priority \in Nat
                        /\ filter_config_map[f].call \in 1..calls
                        /\ filter_config_map[f].since \in 1..Len(read)
      BY Zenon
    <3>1. filter_config_map[f] \in SectionType /\ calls \in Nat /\ Len(read) \in Nat
      BY <2>0 DEF ReadingTyped
    <3>2. /\ filter_config_map[f].priority \in Nat /\ filter_config_map[f].call \in Nat \ {0}
          /\ filter_config_map[f].since \in Nat \ {0}
      BY <3>1, Zenon DEF SectionType
    <3>3. filter_config_map[f].call <= calls /\ filter_config_map[f].since <= Len(read)
      BY <2>0, Zenon DEF SectionInvariant
    <3> QED
      BY <3>1, <3>2, <3>3
  <2>3. DOMAIN priorities \subseteq AllFilters /\ Range(priorities) \subseteq Int
    BY <2>0 DEF ReadingTyped, Rankings, Range
  <2>4. DOMAIN priority_map \subseteq Int /\ Range(priority_map) \subseteq DOMAIN filter_config_map
    BY <2>0, Zenon DEF Numbered, Range
  <2>5. Names(built) \subseteq Range(priority_map)
    <3>1. DOMAIN built = 1..Len(built)
      BY <2>0 DEF BuiltInOrder
    <3> QED
      BY <2>0, <3>1, Zenon DEF BuiltInOrder, Names, Range
  <2> QED
    BY <2>0, <2>1, <2>2, <2>3, <2>4, <2>5, Zenon DEF ConfTypeOK, ReadingTyped, PhaseInvariant
<1> QED
  BY <1>1, <1>2, ServerSafe, PTL DEF ServerTypeOK

(* The filters are built in the documented order: the ones of the priority  *)
(* list by its numbers, then the others as their file has them              *)
(* (read_configuration, build_filters).                                     *)
THEOREM FilterOrder == ServerSpec => []OrderKept
<1>1. ServerInvariant => OrderKept
  BY OrderFromNumbers, Zenon DEF ServerInvariant
<1> QED
  BY <1>1, ServerSafe, PTL

(* The server is aborted for a doubly assigned priority only if the list    *)
(* has a number twice or two files have unlisted filters                    *)
(* (read_configuration).                                                    *)
THEOREM AbortsExplained == ServerSpec => []DoublyAssigned
<1>1. ServerInvariant => DoublyAssigned
  BY Zenon DEF ServerInvariant, ConfigurationInvariant
<1> QED
  BY <1>1, ServerSafe, PTL

(* No handler reenables its event twice, and none that returns leaves it    *)
(* without a reenable, whatever the filters decide and whichever call to    *)
(* ATS fails (handle_request, handle_response, handle_http_close).          *)
THEOREM EventsReenabledOnce == ServerSpec => []ReenabledOnce
<1>1. ServerInvariant => ReenabledOnce
  BY DEF ServerInvariant, TransactionInvariant, ReenableOrder, ReenabledOnce
<1> QED
  BY <1>1, ServerSafe, PTL

(* The first verdict of the filters' queue stands, and the client gets the  *)
(* answer of the filter that gave it, or none (handle_request).             *)
THEOREM VerdictStands == ServerSpec => []FirstVerdictStands
<1>1. ServerInvariant => FirstVerdictStands
  <2> SUFFICES ASSUME ServerInvariant PROVE FirstVerdictStands
    OBVIOUS
  <2>1. DOMAIN results = 1..Len(results) /\ ResultOrder
    BY DEF ServerInvariant, TransactionInvariant, ResultOrder
  <2>2. Nothing \notin Filters
    BY Zenon DEF Nothing, Filters
  <2> QED
    BY <2>1, <2>2, Zenon DEF ResultOrder, FirstVerdictStands
<1> QED
  BY <1>1, ServerSafe, PTL

(* A request that a filter answers is neither sent to the origin nor        *)
(* answered from the cache (handle_request, handle_response).               *)
THEOREM AnswersStay == ServerSpec => []AnsweredNotForwarded
<1>1. ServerInvariant => AnsweredNotForwarded
  BY Zenon DEF ServerInvariant, TransactionInvariant, SourceOrder, AnsweredNotForwarded
<1> QED
  BY <1>1, ServerSafe, PTL

(* SERVE_FRESH keeps the cache out of the response unless ATS refuses one   *)
(* of the two settings (handle_request).                                    *)
THEOREM FreshIsFresh == ServerSpec => []FreshNotFromCache
<1>1. ServerInvariant => FreshNotFromCache
  <2> SUFFICES ASSUME ServerInvariant PROVE FreshNotFromCache
    OBVIOUS
  <2>1. DOMAIN results = 1..Len(results) /\ CacheOrder
    BY DEF ServerInvariant, TransactionInvariant, ResultOrder
  <2> QED
    BY <2>1, Zenon DEF CacheOrder, FreshNotFromCache, Refusable
<1> QED
  BY <1>1, ServerSafe, PTL

(* The parts that build_filters collects from the filters are enough for    *)
(* every look-up of a filter, of a response generator and of the log line:  *)
(* a handler throws only after a call to ATS has failed.                    *)
THEOREM PartsSuffice == ServerSpec => []ThrowsOnlyOnFailure
<1>1. ServerInvariant => ThrowsOnlyOnFailure
  BY DEF ServerInvariant, MuncherOrder, ThrowsOnlyOnFailure
<1> QED
  BY <1>1, ServerSafe, PTL

(* A request that the white lister serves has been to no filter that the    *)
(* priority list puts behind the white lister, whichever files the list and *)
(* the sections are in (read_configuration, build_filters, handle_request). *)
THEOREM WhiteListFirst == ServerSpec => []WhiteListedSkips
<1>1. ServerInvariant => WhiteListedSkips
  <2> SUFFICES ASSUME ServerInvariant, NEW i \in DOMAIN results, NEW j \in DOMAIN results,
                      http_request_queue[i] = "white_lister",
                      results[i] = "SERVE_IMMIDIATELY_DONT_CACHE", Ranked("white_lister")
               PROVE  /\ Ranked(http_request_queue[j])
                      /\ priorities[http_request_queue[j]] <= priorities["white_lister"]
    BY Zenon DEF WhiteListedSkips
  <2> DEFINE f == http_request_queue[j]
             g == http_request_queue[i]
  <2>0. ConfigurationInvariant /\ ReadingInvariant /\ QueueInOrder /\ Numbered /\ BuiltInOrder
    BY Zenon DEF ServerInvariant, ConfigurationInvariant, BuiltInOrder
  <2>1. /\ DOMAIN results = 1..Len(results) /\ Len(results) \in Nat /\ i = Len(results)
        /\ Len(results) <= Len(http_request_queue)
    <3>1. DOMAIN results = 1..Len(results) /\ Len(results) \in Nat
      BY DEF ServerInvariant, TransactionInvariant, ResultOrder
    <3>2. results[i] \in Verdicts
      BY Zenon DEF Verdicts
    <3> QED
      BY <3>1, <3>2, Zenon DEF ServerInvariant, TransactionInvariant, ResultOrder, ResultTypes
  <2>2. phase = "current" /\ http_request_queue = task_queue
    <3>1. results # << >>
      BY <2>1
    <3>2. pc # "new"
      BY <3>1, Zenon DEF ServerInvariant, TransactionInvariant, EventOrder, ResultOrder
    <3> QED
      BY <3>2, Zenon DEF ServerInvariant, Serving
  <2>3. j \in 1..Len(task_queue) /\ i \in 1..Len(task_queue) /\ (j = i \/ j < i)
    <3>1. Len(task_queue) \in Nat
      BY <2>0 DEF QueueInOrder
    <3>2. j \in 1..Len(results) /\ Len(results) <= Len(task_queue)
      BY <2>1, <2>2, Zenon
    <3> QED
      BY <2>1, <3>1, <3>2
  <2>4. f \in DOMAIN filter_config_map /\ g \in DOMAIN filter_config_map
    <3>1. \A k \in 1..Len(built) : built[k].name \in DOMAIN filter_config_map
      BY <2>0, Zenon DEF BuiltInOrder, Numbered
    <3> QED
      BY <2>0, <2>2, <2>3, <3>1, Zenon DEF QueueInOrder
  <2>5. j < i => FinalPriority(f) < FinalPriority(g)
    BY <2>0, <2>2, <2>3, Zenon DEF QueueInOrder
  <2>6. g = "white_lister" /\ Ranked(g)
    BY Zenon
  <2> HIDE DEF f, g
  <2>7. /\ FinalPriority(g) = priorities[g] /\ FinalPriority(g) <= MaxPriority(priorities)
        /\ MaxPriority(priorities) \in Int /\ FinalPriority(f) \in Int /\ FinalPriority(g) \in Int
    BY <2>0, <2>4, <2>6, FinalPriorities, Zenon
  <2>8. CASE j = i
    <3>1. f = g
      BY <2>8, Zenon DEF f, g
    <3>2. priorities["white_lister"] \in Int
      BY <2>6, <2>7, Zenon
    <3>3. f = "white_lister" /\ Ranked(f)
      BY <2>6, <3>1, Zenon
    <3> QED
      BY <3>2, <3>3 DEF f
  <2>9. CASE j < i
    <3>1. Ranked(f)
      <4>1. ~Ranked(f) => FinalPriority(f) > MaxPriority(priorities)
        BY <2>0, <2>4, FinalPriorities, Zenon
      <4> QED
        BY <2>5, <2>7, <2>9, <4>1
    <3>2. FinalPriority(f) = priorities[f]
      BY <2>0, <2>4, <3>1, FinalPriorities, Zenon
    <3>3. priorities[f] <= priorities[g]
      BY <2>5, <2>7, <2>9, <3>2
    <3> QED
      BY <2>6, <3>1, <3>3, Zenon DEF f
  <2> QED
    BY <2>3, <2>8, <2>9, Zenon
<1> QED
  BY <1>1, ServerSafe, PTL

-----------------------------------------------------------------------------
(* The walk: what has been read and what the calls on the stack have still   *)
(* to read are together the walk from the main file on.                      *)

LEMMA OneNode == \A n \in Node : <<n>> \in Seq(Node)
  OBVIOUS

LEMMA JoinedNodes == \A s, t \in Seq(Node) : s \o t \in Seq(Node)
  OBVIOUS

LEMMA EmptyNodes ==
    << >> \in Seq(Node) /\ \A s \in Seq(Node) : s \o << >> = s /\ << >> \o s = s
  OBVIOUS

LEMMA SameNodes ==
    ASSUME NEW s \in Seq(Node), NEW t \in Seq(Node), Len(s) = Len(t),
           \A i \in 1..Len(s) : s[i] = t[i]
    PROVE  s = t
  <1>1. /\ DOMAIN s = 1..Len(s) /\ DOMAIN t = 1..Len(s)
        /\ s = [i \in DOMAIN s |-> s[i]] /\ t = [i \in DOMAIN t |-> t[i]]
    OBVIOUS
  <1> QED
    BY <1>1, Zenon

Associated(s, t, u) == (s \o t) \o u = s \o (t \o u)
LEMMA NodesAssociated == \A s, t, u \in Seq(Node) : Associated(s, t, u)
  <1> TAKE s, t, u \in Seq(Node)
  <1>1. PICK a, b : a = (s \o t) \o u /\ b = s \o (t \o u)
    OBVIOUS
  <1>2. a \in Seq(Node) /\ b \in Seq(Node) /\ Len(a) = Len(b)
    BY <1>1
  <1>3. \A i \in 1..Len(a) : a[i] = b[i]
    BY <1>1
  <1> QED
    BY <1>1, <1>2, <1>3, SameNodes, Zenon DEF Associated

\* What the frame of a call, and what all of the calls, have still to read.
Ahead(c, frame) == WalkFiles(c, frame.subs) \o Walk(c, frame.nodes)
IsRest(c, s, R) ==
    /\ R \in [1..Len(s) + 1 -> Seq(Node)] /\ R[Len(s) + 1] = << >>
    /\ \A i \in 1..Len(s) : R[i] = Ahead(c, s[i]) \o R[i + 1]
HasRest(c, s, r) == \E R : IsRest(c, s, R) /\ R[1] = r

BehindTop(c, s, r) == \E q \in Seq(Node) : HasRest(c, Tail(s), q) /\ r = Ahead(c, s[1]) \o q

LEMMA RestPopped ==
    ASSUME NEW c, NEW s \in Seq(FrameType), NEW r, s # << >>, HasRest(c, s, r)
    PROVE  BehindTop(c, s, r)
  <1>1. PICK R : IsRest(c, s, R) /\ R[1] = r
    BY Zenon DEF HasRest
  <1> DEFINE t == Tail(s)
             Q == [i \in 1..Len(t) + 1 |-> R[i + 1]]
  <1>2. t \in Seq(FrameType) /\ Len(t) = Len(s) - 1 /\ \A i \in 1..Len(s) - 1 : t[i] = s[i + 1]
    BY Popped, Zenon
  <1>3. Len(s) \in Nat /\ Len(s) >= 1
    OBVIOUS
  <1> HIDE DEF t
  <1>4. /\ \A i \in 1..Len(t) + 1 : i + 1 \in 1..Len(s) + 1
        /\ \A i \in 1..Len(t) : i \in 1..Len(t) + 1 /\ i + 1 \in 1..Len(t) + 1 /\ i + 1 \in 1..Len(s) /\ i \in 1..Len(s) - 1
        /\ 1 \in 1..Len(t) + 1 /\ Len(t) + 1 \in 1..Len(t) + 1 /\ Len(t) + 1 + 1 = Len(s) + 1 /\ 1 \in 1..Len(s)
    BY <1>2, <1>3
  <1>5. /\ Q \in [1..Len(t) + 1 -> Seq(Node)] /\ Q[Len(t) + 1] = << >> /\ Q[1] = R[1 + 1]
    BY <1>1, <1>4, Zenon DEF IsRest
  <1>6. \A i \in 1..Len(t) : Q[i] = Ahead(c, t[i]) \o Q[i + 1]
    <2> SUFFICES ASSUME NEW i \in 1..Len(t) PROVE Q[i] = Ahead(c, t[i]) \o Q[i + 1]
      BY Zenon
    <2>1. Q[i] = R[i + 1] /\ Q[i + 1] = R[i + 1 + 1] /\ t[i] = s[i + 1]
      BY <1>2, <1>4, Zenon
    <2>2. R[i + 1] = Ahead(c, s[i + 1]) \o R[i + 1 + 1]
      BY <1>1, <1>4, Zenon DEF IsRest
    <2> QED
      BY <2>1, <2>2, Zenon
  <1>7. Q[1] \in Seq(Node) /\ r = Ahead(c, s[1]) \o Q[1]
    BY <1>1, <1>4, <1>5, Zenon DEF IsRest
  <1>8. HasRest(c, t, Q[1])
    BY <1>5, <1>6, Zenon DEF HasRest, IsRest
  <1> QED
    BY <1>7, <1>8, Zenon DEF t, BehindTop

LEMMA RestPushed ==
    ASSUME NEW c, NEW s \in Seq(FrameType), NEW r, HasRest(c, s, r),
           NEW frame \in FrameType, Ahead(c, frame) \o r \in Seq(Node)
    PROVE  HasRest(c, <<frame>> \o s, Ahead(c, frame) \o r)
  <1>1. PICK R : IsRest(c, s, R) /\ R[1] = r
    BY Zenon DEF HasRest
  <1> DEFINE t == <<frame>> \o s
             Q == [i \in 1..Len(t) + 1 |-> IF i = 1 THEN Ahead(c, frame) \o r ELSE R[i - 1]]
  <1>2. t \in Seq(FrameType) /\ Len(t) = Len(s) + 1 /\ t[1] = frame /\ \A i \in 2..Len(s) + 1 : t[i] = s[i - 1]
    BY Pushed, Zenon
  <1>3. Len(s) \in Nat
    OBVIOUS
  <1> HIDE DEF t
  <1>4. /\ \A i \in 1..Len(t) + 1 : i # 1 => i - 1 \in 1..Len(s) + 1
        /\ \A i \in 1..Len(t) : i \in 1..Len(t) + 1 /\ i + 1 \in 1..Len(t) + 1 /\ i + 1 # 1 /\ i + 1 - 1 = i
        /\ \A i \in 1..Len(t) : i # 1 => i - 1 \in 1..Len(s) /\ i \in 2..Len(s) + 1 /\ i - 1 + 1 = i
        /\ 1 \in 1..Len(t) + 1 /\ Len(t) + 1 \in 1..Len(t) + 1 /\ Len(t) + 1 - 1 = Len(s) + 1 /\ Len(t) + 1 # 1
    BY <1>2, <1>3
  <1>9. \A j \in 1..Len(t) + 1 : j # 1 => Q[j] = R[j - 1]
    BY Zenon
  <1>5. /\ Q \in [1..Len(t) + 1 -> Seq(Node)] /\ Q[Len(t) + 1] = << >> /\ Q[1] = Ahead(c, frame) \o r
    <2>1. \A i \in 1..Len(t) + 1 : i # 1 => R[i - 1] \in Seq(Node)
      BY <1>1, <1>4, Zenon DEF IsRest
    <2>2. R[Len(t) + 1 - 1] = << >>
      BY <1>1, <1>4, Zenon DEF IsRest
    <2>3. \A i \in 1..Len(t) + 1 : (IF i = 1 THEN Ahead(c, frame) \o r ELSE R[i - 1]) \in Seq(Node)
      BY <2>1, Zenon
    <2>4. Q \in [1..Len(t) + 1 -> Seq(Node)]
      BY <2>3, Zenon
    <2>5. Q[Len(t) + 1] = << >>
      BY <1>4, <1>9, <2>2
    <2>6. Q[1] = Ahead(c, frame) \o r
      BY <1>4, Zenon
    <2> QED
      BY <2>4, <2>5, <2>6, Zenon
  <1> HIDE DEF Q
  <1>6. \A i \in 1..Len(t) : Q[i] = Ahead(c, t[i]) \o Q[i + 1]
    <2> SUFFICES ASSUME NEW i \in 1..Len(t) PROVE Q[i] = Ahead(c, t[i]) \o Q[i + 1]
      BY Zenon
    <2>1. Q[i + 1] = R[i]
      <3>1. i + 1 \in 1..Len(t) + 1 /\ i + 1 # 1 /\ i + 1 - 1 = i
        BY <1>4, Zenon
      <3>2. Q[i + 1] = R[i + 1 - 1]
        BY <1>9, <3>1
      <3> QED
        BY <3>1, <3>2, Zenon
    <2>2. CASE i = 1
      BY <1>1, <1>2, <1>5, <2>1, <2>2, Zenon
    <2>3. CASE i # 1
      <3>1. Q[i] = R[i - 1] /\ t[i] = s[i - 1]
        BY <1>2, <1>4, <1>9, <2>3, Zenon
      <3>2. R[i - 1] = Ahead(c, s[i - 1]) \o R[i - 1 + 1]
        BY <1>1, <1>4, <2>3, Zenon DEF IsRest
      <3> QED
        BY <1>4, <2>1, <2>3, <3>1, <3>2, Zenon
    <2> QED
      BY <2>2, <2>3, Zenon
  <1>7. HasRest(c, t, Q[1])
    BY <1>5, <1>6, Zenon DEF HasRest, IsRest
  <1> QED
    BY <1>5, <1>7, Zenon DEF t

LEMMA NothingLeft ==
    ASSUME NEW c
    PROVE  /\ HasRest(c, << >>, << >>)
           /\ \A r : HasRest(c, << >>, r) => r = << >>
  <1>1. Len(<< >>) = 0 /\ Len(<< >>) + 1 = 1 /\ 1 \in 1..1 /\ \A i : i \notin 1..0
    OBVIOUS
  <1>2. << >> \in Seq(Node)
    BY SMT
  <1>3. \A r : HasRest(c, << >>, r) => r = << >>
    BY <1>1, Zenon DEF HasRest, IsRest
  <1> DEFINE R == [i \in 1..1 |-> << >>]
  <1>4. R \in [1..1 -> Seq(Node)] /\ R[1] = << >>
    BY <1>1, <1>2, Zenon
  <1> HIDE DEF R
  <1>5. IsRest(c, << >>, R)
    BY <1>1, <1>4 DEF IsRest
  <1> QED
    BY <1>3, <1>4, <1>5, Zenon DEF HasRest

LEMMA TailsTyping ==
    ASSUME NEW S, NEW s \in Seq(S), NEW t \in Tails(s)
    PROVE  /\ t \in Seq(S)
           /\ t # << >> => Tail(t) \in Tails(s) /\ \E i \in 1..Len(s) : Head(t) = s[i]
  <1>1. PICK i \in 1..Len(s) + 1 : t = SubSeq(s, i, Len(s))
    BY Zenon DEF Tails
  <1>2. Len(s) \in Nat /\ t \in Seq(S)
    BY <1>1
  <1>3. ASSUME t # << >> PROVE i \in 1..Len(s) /\ i + 1 \in 1..Len(s) + 1 /\ Tail(t) = SubSeq(s, i + 1, Len(s)) /\ Head(t) = s[i]
    BY <1>1, <1>2, <1>3
  <1>4. ASSUME t # << >> PROVE Tail(t) \in Tails(s)
    BY <1>3, <1>4, Zenon DEF Tails
  <1> QED
    BY <1>2, <1>3, <1>4, Zenon

LEMMA TailsAll ==
    ASSUME NEW S, NEW s \in Seq(S)
    PROVE  s \in Tails(s)
  <1>1. s = SubSeq(s, 1, Len(s)) /\ 1 \in 1..Len(s) + 1
    OBVIOUS
  <1> QED
    BY <1>1, Zenon DEF Tails

\* The nodes that are left of a file, and the walk from there on.
LEMMA NodesAhead ==
    ASSUME contents \in Configurations, NEW nodes \in NodeTails(contents)
    PROVE  /\ nodes \in Seq(Node) /\ Walk(contents, nodes) \in Seq(Node)
           /\ nodes # << >> => /\ Tail(nodes) \in NodeTails(contents)
                               /\ Head(nodes).items \in ItemTails(contents)
                               /\ Walk(contents, nodes) =
                                    <<Head(nodes)>> \o (Included(contents, Head(nodes)) \o Walk(contents, Tail(nodes)))
  <1>1. PICK file \in DOMAIN contents : nodes \in Tails(contents[file])
    BY Zenon DEF NodeTails
  <1>2. contents[file] \in Seq(Node)
    BY FrameContents, Zenon
  <1>3. nodes \in Seq(Node) /\ (nodes # << >> => Tail(nodes) \in Tails(contents[file]))
    BY <1>1, <1>2, TailsTyping, Zenon
  <1>4. ASSUME nodes # << >> PROVE Tail(nodes) \in NodeTails(contents)
    BY <1>3, <1>4, Zenon DEF NodeTails
  <1>5. ASSUME nodes # << >> PROVE Head(nodes).items \in ItemTails(contents)
    <2>1. PICK i \in 1..Len(contents[file]) : Head(nodes) = contents[file][i]
      BY <1>1, <1>2, <1>5, TailsTyping, Zenon
    <2>2. DOMAIN contents[file] = 1..Len(contents[file]) /\ contents[file][i] \in Node
      BY <1>2
    <2>3. Head(nodes) \in Range(contents[file]) /\ Head(nodes).items \in Seq(STRING)
      BY <2>1, <2>2, Zenon DEF Range, Node
    <2>4. Head(nodes) \in UNION {Range(contents[fn]) : fn \in DOMAIN contents}
      BY <2>3, Zenon
    <2>5. Head(nodes).items \in Tails(Head(nodes).items)
      BY <2>3, TailsAll, Zenon
    <2> QED
      BY <2>4, <2>5, Zenon DEF ItemTails
  <1>6. Walk(contents, nodes) \in Seq(UNION {Range(contents[fn]) : fn \in DOMAIN contents})
    BY WalkAssumption, Zenon
  <1>7. UNION {Range(contents[fn]) : fn \in DOMAIN contents} \subseteq Node
    BY ConfAssumption DEF IsNode, Node, Rankings
  <1>8. Walk(contents, nodes) \in Seq(Node)
    BY <1>6, <1>7
  <1>9. nodes # << >> => Walk(contents, nodes) =
            <<Head(nodes)>> \o (Included(contents, Head(nodes)) \o Walk(contents, Tail(nodes)))
    BY WalkAssumption, Zenon
  <1> QED
    BY <1>3, <1>4, <1>5, <1>8, <1>9, Zenon

LEMMA ItemsAhead ==
    ASSUME contents \in Configurations, NEW items \in ItemTails(contents)
    PROVE  /\ WalkFiles(contents, items) \in Seq(Node)
           /\ items # << >> => Tail(items) \in ItemTails(contents)
           /\ items # << >> /\ Head(items) \in DOMAIN contents =>
                  WalkFiles(contents, items) = Walk(contents, contents[Head(items)]) \o WalkFiles(contents, Tail(items))
  <1> DEFINE all == UNION {Range(contents[file]) : file \in DOMAIN contents}
  <1>1. all \subseteq Node
    BY ConfAssumption DEF IsNode, Node, Rankings
  <1>2. PICK n \in all : items \in Tails(n.items)
    BY Zenon DEF ItemTails
  <1>3. WalkFiles(contents, items) \in Seq(all)
    BY WalkAssumption, Zenon
  <1>4. items # << >> /\ Head(items) \in DOMAIN contents =>
            WalkFiles(contents, items) = Walk(contents, contents[Head(items)]) \o WalkFiles(contents, Tail(items))
    BY WalkAssumption, Zenon
  <1>5. n.items \in Seq(STRING)
    BY <1>1, <1>2, Zenon DEF Node
  <1>6. items # << >> => Tail(items) \in Tails(n.items)
    BY <1>2, <1>5, TailsTyping, Zenon
  <1>7. items # << >> => Tail(items) \in ItemTails(contents)
    BY <1>2, <1>6, Zenon DEF ItemTails
  <1> HIDE DEF all
  <1>8. WalkFiles(contents, items) \in Seq(Node)
    BY <1>1, <1>3
  <1> QED
    BY <1>4, <1>7, <1>8, Zenon

\* The nodes that were handled, and what the calls on the stack will handle,
\* are the whole walk.
ReadNodes == [k \in DOMAIN read |-> read[k].node]
FramesAhead ==
    \A i \in 1..Len(stack) : /\ stack[i].nodes \in NodeTails(contents)
                             /\ stack[i].subs \in ItemTails(contents) \cup {<< >>}
StillAhead ==
    \E r \in Seq(Node) : /\ HasRest(contents, stack, r)
                         /\ ReadNodes \o r = Walk(contents, contents[MainFile])
WalkInvariant ==
    /\ FramesAhead /\ StillAhead
    /\ phase \notin {"reading", "aborted"} => stack = << >>

LEMMA ReadNodesTyping ==
    ASSUME ReadingTyped
    PROVE  /\ ReadNodes \in Seq(Node) /\ Len(ReadNodes) = Len(read) /\ Len(read) \in Nat
           /\ DOMAIN read = 1..Len(read)
           /\ \A k \in 1..Len(read) : ReadNodes[k] = read[k].node
  <1> DEFINE S == [call : Nat, node : Node]
  <1>1. read \in Seq(S)
    BY Zenon DEF ReadingTyped
  <1>6. \A e \in S : e.node \in Node
    BY Zenon
  <1> HIDE DEF S
  <1>2. Len(read) \in Nat /\ DOMAIN read = 1..Len(read) /\ \A k \in 1..Len(read) : read[k] \in S
    BY <1>1
  <1>3. \A k \in 1..Len(read) : read[k].node \in Node
    BY <1>2, <1>6, Zenon
  <1>4. ReadNodes = [k \in 1..Len(read) |-> read[k].node]
    BY <1>2, Zenon DEF ReadNodes
  <1>5. ReadNodes \in Seq(Node) /\ Len(ReadNodes) = Len(read)
    BY <1>2, <1>3, <1>4
  <1> QED
    BY <1>2, <1>4, <1>5, Zenon

LEMMA ReadOneMore ==
    ASSUME ReadingTyped, ReadingTyped', stack # << >>, Top.nodes # << >>, Handled
    PROVE  ReadNodes' = Append(ReadNodes, Head(Top.nodes)) /\ Head(Top.nodes) \in Node
  <1> DEFINE node == Head(Top.nodes)
             entry == [call |-> Top.call, node |-> node]
  <1>1. Top.nodes \in Seq(Node)
    BY TopTyping, Zenon
  <1>2. node \in Node
    BY <1>1
  <1>3. entry.node = node
    BY Zenon
  <1>4. read' = Append(read, entry)
    BY Zenon DEF Handled
  <1> HIDE DEF node, entry
  <1>5. read \in Seq([call : Nat, node : Node])
    BY Zenon DEF ReadingTyped
  <1>6. /\ Len(read') = Len(read) + 1 /\ Len(read) \in Nat /\ read'[Len(read) + 1] = entry
        /\ \A k \in 1..Len(read) : read'[k] = read[k]
    BY <1>4, <1>5
  <1>7. /\ ReadNodes \in Seq(Node) /\ Len(ReadNodes) = Len(read)
        /\ \A k \in 1..Len(read) : ReadNodes[k] = read[k].node
    BY ReadNodesTyping, Zenon
  <1>8. /\ ReadNodes' \in Seq(Node) /\ Len(ReadNodes') = Len(read')
        /\ \A k \in 1..Len(read') : ReadNodes'[k] = read'[k].node
    <2>1. ReadingTyped' => /\ (ReadNodes \in Seq(Node))' /\ (Len(ReadNodes) = Len(read))'
                           /\ (\A k \in 1..Len(read) : ReadNodes[k] = read[k].node)'
      BY ReadNodesTyping, PTL
    <2> QED
      BY <2>1, Zenon
  <1> DEFINE more == Append(ReadNodes, node)
  <1>9. /\ more \in Seq(Node) /\ Len(more) = Len(read) + 1 /\ more[Len(read) + 1] = node
        /\ \A k \in 1..Len(read) : more[k] = ReadNodes[k]
    BY <1>2, <1>7
  <1> HIDE DEF more
  <1>10. \A k \in 1..Len(read) : k \in 1..Len(read')
    BY <1>6
  <1>11. \A k \in 1..Len(read) : ReadNodes'[k] = more[k]
    BY <1>6, <1>7, <1>8, <1>9, <1>10, Zenon
  <1>12. ReadNodes'[Len(read) + 1] = more[Len(read) + 1]
    BY <1>3, <1>6, <1>8, <1>9
  <1>13. \A k \in 1..Len(read) + 1 : k \in 1..Len(read) \/ k = Len(read) + 1
    BY <1>6
  <1>14. Len(ReadNodes') = Len(more) /\ \A k \in 1..Len(ReadNodes') : ReadNodes'[k] = more[k]
    BY <1>6, <1>8, <1>9, <1>11, <1>12, <1>13, Zenon
  <1>15. ReadNodes' = more
    BY <1>8, <1>9, <1>14, SameNodes, Zenon
  <1> QED
    BY <1>2, <1>15, Zenon DEF more, node

\* The node at the top is read; frame is what becomes of the top.
LEMMA AdvanceAhead ==
    ASSUME ReadingTyped, ReadingTyped', FramesAhead, StillAhead, UNCHANGED contents,
           stack # << >>, Top.nodes # << >>, Top.subs = << >>, Handled,
           NEW frame \in FrameType, frame.nodes = Top.nodes, stack' = Advance(frame),
           frame.subs \in ItemTails(contents) \cup {<< >>},
           WalkFiles(contents, frame.subs) = Included(contents, Head(Top.nodes))
    PROVE  FramesAhead' /\ StillAhead'
  <1> DEFINE node == Head(Top.nodes)
             new == [frame EXCEPT !.nodes = Tail(@)]
             inner == WalkFiles(contents, frame.subs)
             after == Walk(contents, Tail(Top.nodes))
  <1>1. stack \in Seq(FrameType) /\ contents \in Configurations
    BY Zenon DEF ReadingTyped
  <1>2. Top = stack[1] /\ 1 \in 1..Len(stack)
    BY <1>1 DEF Top
  <1>3. Top.nodes \in NodeTails(contents)
    BY <1>2, Zenon DEF FramesAhead
  <1>4. /\ Tail(Top.nodes) \in NodeTails(contents) /\ Tail(Top.nodes) \in Seq(Node) /\ after \in Seq(Node)
        /\ Walk(contents, Top.nodes) = <<node>> \o (inner \o after)
    BY <1>1, <1>3, NodesAhead, Zenon
  <1>5. ReadNodes' = Append(ReadNodes, node) /\ node \in Node
    BY ReadOneMore, Zenon
  <1>6. new \in FrameType /\ new.nodes = Tail(Top.nodes) /\ new.subs = frame.subs
    BY <1>4, Zenon DEF FrameType
  <1>7. stack' = <<new>> \o Tail(stack)
    BY Zenon DEF Advance
  <1>8. WalkFiles(contents, << >>) = << >> /\ << >> \in Seq(Node)
    BY <1>1, WalkAssumption, EmptyNodes, Zenon
  <1>9. inner \in Seq(Node)
    BY <1>1, <1>8, ItemsAhead, Zenon
  <1>10. Ahead(contents, new) = inner \o after
    BY <1>6, Zenon DEF Ahead
  <1> HIDE DEF new, node, inner, after
  <1>11. inner \o after \in Seq(Node)
    BY <1>4, <1>9, JoinedNodes, Zenon
  <1>12. <<node>> \in Seq(Node)
    BY <1>5, OneNode, Zenon
  <1>13. Ahead(contents, stack[1]) = <<node>> \o (inner \o after)
    <2>1. <<node>> \o (inner \o after) \in Seq(Node)
      BY <1>11, <1>12, JoinedNodes, Zenon
    <2>2. Ahead(contents, stack[1]) = << >> \o (<<node>> \o (inner \o after))
      BY <1>2, <1>4, <1>8, Zenon DEF Ahead
    <2> QED
      BY <2>1, <2>2, EmptyNodes, Zenon
  <1>14. PICK r \in Seq(Node) : /\ HasRest(contents, stack, r)
                                /\ ReadNodes \o r = Walk(contents, contents[MainFile])
    BY Zenon DEF StillAhead
  <1>15. PICK q \in Seq(Node) : HasRest(contents, Tail(stack), q) /\ r = Ahead(contents, stack[1]) \o q
    <2>1. stack # << >> /\ stack \in Seq(FrameType) /\ HasRest(contents, stack, r)
      BY <1>1, <1>14, Zenon
    <2>2. BehindTop(contents, stack, r)
      BY <2>1, RestPopped
    <2> QED
      BY <2>2, Zenon DEF BehindTop
  <1> DEFINE p == (inner \o after) \o q
  <1>16. p \in Seq(Node)
    BY <1>11, <1>15, JoinedNodes, Zenon
  <1>17. HasRest(contents, stack', p)
    <2>1. Tail(stack) \in Seq(FrameType)
      BY <1>1, Popped, Zenon
    <2> QED
      BY <1>6, <1>7, <1>10, <1>15, <1>16, <2>1, RestPushed, Zenon
  <1>18. r = <<node>> \o p
    <2>1. Associated(<<node>>, inner \o after, q)
      BY <1>11, <1>12, <1>15, NodesAssociated, Zenon
    <2> QED
      BY <1>13, <1>15, <2>1, Zenon DEF Associated
  <1> HIDE DEF p
  <1>19. ReadNodes' = ReadNodes \o <<node>> /\ ReadNodes \in Seq(Node)
    <2>1. ReadNodes \in Seq(Node)
      BY ReadNodesTyping, Zenon
    <2> QED
      BY <1>5, <2>1
  <1>20. ReadNodes' \o p = Walk(contents, contents[MainFile])
    <2>1. Associated(ReadNodes, <<node>>, p)
      BY <1>12, <1>16, <1>19, NodesAssociated, Zenon
    <2> QED
      BY <1>14, <1>18, <1>19, <2>1, Zenon DEF Associated
  <1>21. StillAhead'
    BY <1>16, <1>17, <1>20, Zenon DEF StillAhead
  <1>22. FramesAhead'
    <2>4. IsReplaced(stack', stack, new)
      BY <1>1, <1>6, <1>7, ReplacedTop, Zenon
    <2>1. /\ Len(stack') = Len(stack) /\ stack'[1] = new /\ \A i \in 2..Len(stack) : stack'[i] = stack[i]
      BY <2>4, Zenon DEF IsReplaced
    <2>2. Len(stack) \in Nat
      BY <2>4, Zenon DEF IsReplaced
    <2>3. \A i \in 1..Len(stack) : i = 1 \/ i \in 2..Len(stack)
      BY <2>2
    <2> QED
      BY <1>4, <1>6, <2>1, <2>3, Zenon DEF FramesAhead
  <1> QED
    BY <1>21, <1>22, Zenon

\* A file is entered: its call has what the list of files had there.
LEMMA IncludeAhead ==
    ASSUME ReadingTyped, FramesAhead, StillAhead, UNCHANGED <<contents, read>>,
           stack # << >>, Top.subs # << >>, Head(Top.subs) \in DOMAIN contents, calls \in Nat,
           stack' = <<Frame(Head(Top.subs), calls + 1)>> \o AfterInclude
    PROVE  FramesAhead' /\ StillAhead'
  <1> DEFINE file == Head(Top.subs)
             new == [Top EXCEPT !.subs = Tail(@)]
             entered == Frame(file, calls + 1)
             first == Walk(contents, contents[file])
             others == WalkFiles(contents, Tail(Top.subs))
             after == Walk(contents, Top.nodes)
  <1>1. stack \in Seq(FrameType) /\ contents \in Configurations
    BY Zenon DEF ReadingTyped
  <1>2. Top = stack[1] /\ 1 \in 1..Len(stack)
    BY <1>1 DEF Top
  <1>3. Top.nodes \in NodeTails(contents) /\ Top.subs \in ItemTails(contents)
    BY <1>2, Zenon DEF FramesAhead
  <1>4. contents[file] \in NodeTails(contents)
    <2>1. contents[file] \in Tails(contents[file])
      BY <1>1, FrameContents, TailsAll, Zenon
    <2> QED
      BY <2>1, Zenon DEF NodeTails
  <1>5. /\ Tail(Top.subs) \in ItemTails(contents) /\ WalkFiles(contents, Top.subs) = first \o others
    BY <1>1, <1>3, ItemsAhead, Zenon
  <1>6. first \in Seq(Node) /\ others \in Seq(Node) /\ after \in Seq(Node)
    BY <1>1, <1>3, <1>4, <1>5, NodesAhead, ItemsAhead, Zenon
  <1>7. /\ Top \in FrameType /\ Top.subs \in Seq(STRING) /\ Tail(Top.subs) \in Seq(STRING)
    <2>1. Top \in FrameType /\ Top.subs \in Seq(STRING)
      BY TopTyping, Zenon
    <2> QED
      BY <2>1, RestOfNames, Zenon
  <1>8. new \in FrameType /\ new.nodes = Top.nodes /\ new.subs = Tail(Top.subs)
    BY <1>7, Zenon DEF FrameType
  <1>9. entered \in FrameType /\ entered.nodes = contents[file] /\ entered.subs = << >>
    <2>1. calls + 1 \in Nat \ {0}
      OBVIOUS
    <2>2. entered \in FrameType
      BY <2>1, FrameTyping, Zenon
    <2> QED
      BY <2>2, Zenon DEF Frame
  <1>10. WalkFiles(contents, << >>) = << >>
    BY <1>1, WalkAssumption, Zenon
  <1>11. Ahead(contents, new) = others \o after /\ Ahead(contents, stack[1]) = (first \o others) \o after
    BY <1>2, <1>5, <1>8, Zenon DEF Ahead
  <1>12. Ahead(contents, entered) = first
    <2>1. Ahead(contents, entered) = << >> \o first
      BY <1>9, <1>10, Zenon DEF Ahead
    <2> QED
      BY <1>6, <2>1, EmptyNodes, Zenon
  <1>13. stack' = <<entered>> \o (<<new>> \o Tail(stack))
    BY Zenon DEF AfterInclude
  <1> HIDE DEF file, new, entered, first, others, after
  <1>14. PICK r \in Seq(Node) : /\ HasRest(contents, stack, r)
                                /\ ReadNodes \o r = Walk(contents, contents[MainFile])
    BY Zenon DEF StillAhead
  <1>15. PICK q \in Seq(Node) : HasRest(contents, Tail(stack), q) /\ r = Ahead(contents, stack[1]) \o q
    <2>1. BehindTop(contents, stack, r)
      BY <1>1, <1>14, RestPopped
    <2> QED
      BY <2>1, Zenon DEF BehindTop
  <1>16. /\ others \o after \in Seq(Node) /\ (others \o after) \o q \in Seq(Node)
         /\ first \o ((others \o after) \o q) \in Seq(Node)
    BY <1>6, <1>15, JoinedNodes
  <1>17. r = first \o ((others \o after) \o q)
    <2>1. Associated(first, others, after) /\ Associated(first, others \o after, q)
      BY <1>6, <1>15, <1>16, NodesAssociated, Zenon
    <2> QED
      BY <1>11, <1>15, <2>1, Zenon DEF Associated
  <1> DEFINE below == <<new>> \o Tail(stack)
  <1>18. Tail(stack) \in Seq(FrameType)
    BY <1>1, Popped, Zenon
  <1>19. HasRest(contents, below, (others \o after) \o q)
    BY <1>8, <1>11, <1>15, <1>16, <1>18, RestPushed, Zenon
  <1>20. /\ below \in Seq(FrameType) /\ Len(below) = Len(stack) /\ below[1] = new
         /\ \A i \in 2..Len(stack) : below[i] = stack[i]
    BY <1>1, <1>8, Replaced
  <1> HIDE DEF below
  <1>21. stack' = <<entered>> \o below
    BY <1>13, Zenon DEF below
  <1>22. HasRest(contents, stack', r)
    <2>1. Ahead(contents, entered) \o ((others \o after) \o q) \in Seq(Node)
      BY <1>12, <1>16, Zenon
    <2>2. HasRest(contents, <<entered>> \o below, Ahead(contents, entered) \o ((others \o after) \o q))
      BY <1>9, <1>19, <1>20, <2>1, RestPushed
    <2> QED
      BY <1>12, <1>17, <1>21, <2>2, Zenon
  <1>23. StillAhead'
    BY <1>14, <1>22, Zenon DEF StillAhead, ReadNodes
  <1>24. FramesAhead'
    <2>1. /\ Len(stack') = Len(stack) + 1 /\ stack'[1] = entered
          /\ \A i \in 2..Len(stack) + 1 : stack'[i] = below[i - 1]
      <3>1. IsPushed(stack', below, entered)
        BY <1>9, <1>20, <1>21, PushedTop, Zenon
      <3> QED
        BY <1>20, <3>1, Zenon DEF IsPushed
    <2>2. Len(stack) \in Nat
      BY <1>1
    <2>3. \A i \in 1..Len(stack) : i = 1 \/ i \in 2..Len(stack)
      BY <2>2
    <2>4. \A i \in 1..Len(stack) : /\ below[i].nodes \in NodeTails(contents)
                                   /\ below[i].subs \in ItemTails(contents) \cup {<< >>}
      BY <1>3, <1>5, <1>8, <1>20, <2>3, Zenon DEF FramesAhead
    <2>5. \A i \in 1..Len(stack) + 1 : i = 1 \/ (i \in 2..Len(stack) + 1 /\ i - 1 \in 1..Len(stack))
      BY <2>2
    <2>6. ASSUME NEW i \in 1..Len(stack')
          PROVE  stack'[i].nodes \in NodeTails(contents) /\ stack'[i].subs \in ItemTails(contents) \cup {<< >>}
      <3>1. CASE i = 1
        BY <1>4, <1>9, <2>1, <3>1, Zenon
      <3>2. CASE i \in 2..Len(stack) + 1 /\ i - 1 \in 1..Len(stack)
        BY <2>1, <2>4, <3>2, Zenon
      <3> QED
        BY <2>1, <2>5, <3>1, <3>2, Zenon
    <2> QED
      BY <2>6, Zenon DEF FramesAhead
  <1> QED
    BY <1>23, <1>24, Zenon

LEMMA ReturnAhead ==
    ASSUME ReadingTyped, FramesAhead, StillAhead, UNCHANGED <<contents, read>>,
           stack # << >>, Top.subs = << >>, Top.nodes = << >>, stack' = Tail(stack)
    PROVE  FramesAhead' /\ StillAhead'
  <1>1. stack \in Seq(FrameType) /\ contents \in Configurations
    BY Zenon DEF ReadingTyped
  <1>2. Top = stack[1]
    BY Zenon DEF Top
  <1>3. Ahead(contents, stack[1]) = << >>
    <2>1. WalkFiles(contents, << >>) = << >> /\ Walk(contents, << >>) = << >>
      BY <1>1, WalkAssumption, Zenon
    <2>2. Ahead(contents, stack[1]) = << >> \o << >>
      BY <1>2, <2>1, Zenon DEF Ahead
    <2> QED
      BY <2>2
  <1>4. PICK r \in Seq(Node) : /\ HasRest(contents, stack, r)
                               /\ ReadNodes \o r = Walk(contents, contents[MainFile])
    BY Zenon DEF StillAhead
  <1>5. PICK q \in Seq(Node) : HasRest(contents, Tail(stack), q) /\ r = Ahead(contents, stack[1]) \o q
    <2>1. BehindTop(contents, stack, r)
      BY <1>1, <1>4, RestPopped
    <2> QED
      BY <2>1, Zenon DEF BehindTop
  <1>6. r = q
    <2>1. << >> \o q = q
      BY <1>5, EmptyNodes, Zenon
    <2> QED
      BY <1>3, <1>5, <2>1, Zenon
  <1>7. StillAhead'
    BY <1>4, <1>5, <1>6, Zenon DEF StillAhead, ReadNodes
  <1>8. FramesAhead'
    <2>1. Len(stack') = Len(stack) - 1 /\ \A i \in 1..Len(stack) - 1 : stack'[i] = stack[i + 1]
      BY <1>1, Popped
    <2>2. \A i \in 1..Len(stack) - 1 : i + 1 \in 1..Len(stack)
      BY <1>1
    <2> QED
      BY <2>1, <2>2, Zenon DEF FramesAhead
  <1> QED
    BY <1>7, <1>8, Zenon

LEMMA WalkInit ==
    ASSUME ConfInit, ReadingTyped
    PROVE  WalkInvariant
  <1> DEFINE main == Frame(MainFile, 1)
             all == Walk(contents, contents[MainFile])
  <1>1. contents \in Configurations /\ MainFile \in DOMAIN contents
    BY ConfAssumption, Zenon DEF ConfInit
  <1>2. contents[MainFile] \in NodeTails(contents)
    <2>1. contents[MainFile] \in Tails(contents[MainFile])
      BY <1>1, FrameContents, TailsAll, Zenon
    <2> QED
      BY <1>1, <2>1, Zenon DEF NodeTails
  <1>3. all \in Seq(Node)
    BY <1>1, <1>2, NodesAhead, Zenon
  <1>4. main \in FrameType /\ main.nodes = contents[MainFile] /\ main.subs = << >>
    <2>1. 1 \in Nat \ {0}
      OBVIOUS
    <2>2. main \in FrameType
      BY <1>1, <2>1, FrameTyping, Zenon
    <2> QED
      BY <2>2, Zenon DEF Frame
  <1>5. Ahead(contents, main) = all
    <2>1. Ahead(contents, main) = << >> \o all
      BY <1>1, <1>4, WalkAssumption, Zenon DEF Ahead
    <2> QED
      BY <1>3, <2>1, EmptyNodes, Zenon
  <1>6. stack = <<main>> /\ read = << >> /\ phase = "reading"
    BY Zenon DEF ConfInit
  <1> HIDE DEF main, all
  <1>7. /\ << >> \in Seq(FrameType) /\ <<main>> \o << >> = <<main>> /\ Len(<<main>>) = 1 /\ <<main>>[1] = main
        /\ \A i \in 1..1 : i = 1
    BY <1>4
  <1>8. all \o << >> = all
    BY <1>3, EmptyNodes, Zenon
  <1>9. HasRest(contents, stack, all)
    <2>1. HasRest(contents, << >>, << >>)
      BY NothingLeft, Zenon
    <2>2. HasRest(contents, <<main>> \o << >>, Ahead(contents, main) \o << >>)
      BY <1>3, <1>4, <1>5, <1>7, <1>8, <2>1, RestPushed
    <2> QED
      BY <1>5, <1>6, <1>7, <1>8, <2>2, Zenon
  <1>10. ReadNodes = << >>
    BY <1>6 DEF ReadNodes
  <1>11. ReadNodes \o all = all
    BY <1>3, <1>10, EmptyNodes, Zenon
  <1>12. StillAhead
    BY <1>3, <1>9, <1>11, Zenon DEF StillAhead, all
  <1>13. FramesAhead
    BY <1>2, <1>4, <1>6, <1>7, Zenon DEF FramesAhead
  <1> QED
    BY <1>6, <1>12, <1>13, Zenon DEF WalkInvariant

LEMMA NotFilters ==
    /\ "include" \notin AllFilters /\ "priority" \notin AllFilters /\ "kafka" \notin AllFilters
    /\ "swabber" \notin AllFilters /\ "report_status_interval_seconds" \notin AllFilters
    /\ "remove_expired_challenges_interval_seconds" \notin AllFilters
  BY SMTT(30) DEF AllFilters, FilterNames, Range

SettingNames == {"kafka", "report_status_interval_seconds",
                 "remove_expired_challenges_interval_seconds", "swabber"}

LEMMA NotIncluded ==
    ASSUME contents \in Configurations, NEW n, n.name \in AllFilters \cup {"priority"} \cup SettingNames
    PROVE  WalkFiles(contents, << >>) = Included(contents, n)
  <1>1. n.name # "include"
    BY NotFilters DEF SettingNames
  <1> QED
    BY <1>1, WalkAssumption, Zenon DEF Included

\* A node that is no list of files.
LEMMA PlainNodeAhead ==
    ASSUME ReadingTyped, ReadingTyped', FramesAhead, StillAhead, UNCHANGED contents,
           AtNode(AllFilters) \/ AtNode({"priority"}) \/ AtNode(SettingNames), Handled,
           NEW frame \in FrameType, frame.nodes = Top.nodes, frame.subs = << >>, stack' = Advance(frame)
    PROVE  FramesAhead' /\ StillAhead'
  <1>1. stack # << >> /\ Top.subs = << >> /\ Top.nodes # << >>
    BY Zenon DEF AtNode
  <1>2. Head(Top.nodes).name \in AllFilters \cup {"priority"} \cup SettingNames
    BY Zenon DEF AtNode
  <1>3. contents \in Configurations
    BY Zenon DEF ReadingTyped
  <1>4. WalkFiles(contents, frame.subs) = Included(contents, Head(Top.nodes))
    BY <1>2, <1>3, NotIncluded, Zenon
  <1>5. frame.subs \in ItemTails(contents) \cup {<< >>}
    BY Zenon
  <1> QED
    BY <1>1, <1>4, <1>5, AdvanceAhead, Zenon

LEMMA FilterNodeAhead ==
    ASSUME ReadingTyped, ReadingTyped', FramesAhead, StillAhead, FilterNode
    PROVE  FramesAhead' /\ StillAhead'
  <1> DEFINE known == Head(Top.nodes).name \in DOMAIN filter_config_map
             frame == IF known THEN Top ELSE NextSequential(Top)
  <1>1. AtNode(AllFilters) /\ stack' = Advance(frame) /\ Handled /\ UNCHANGED contents
    BY Zenon DEF FilterNode
  <1>2. stack # << >> /\ Top.subs = << >>
    BY <1>1, Zenon DEF AtNode
  <1>3. Top \in FrameType /\ Top.sequential \in Nat
    BY <1>2, TopTyping, Zenon
  <1>4. NextSequential(Top) \in FrameType /\ NextSequential(Top).nodes = Top.nodes /\ NextSequential(Top).subs = Top.subs
    BY <1>3 DEF NextSequential, FrameType
  <1>5. frame \in FrameType /\ frame.nodes = Top.nodes /\ frame.subs = << >>
    BY <1>2, <1>3, <1>4, Zenon
  <1> HIDE DEF frame
  <1> QED
    BY <1>1, <1>5, PlainNodeAhead, Zenon

LEMMA IncludeNodeAhead ==
    ASSUME ReadingTyped, ReadingTyped', FramesAhead, StillAhead, IncludeNode
    PROVE  FramesAhead' /\ StillAhead'
  <1> DEFINE items == Head(Top.nodes).items
             frame == [Top EXCEPT !.subs = items]
  <1>1. AtNode({"include"}) /\ stack' = Advance(frame) /\ Handled /\ UNCHANGED contents
    BY Zenon DEF IncludeNode
  <1>2. stack # << >> /\ Top.subs = << >> /\ Top.nodes # << >> /\ Head(Top.nodes).name = "include"
    BY <1>1, Zenon DEF AtNode
  <1>3. Top \in FrameType /\ Top.nodes \in Seq(Node)
    BY <1>2, TopTyping, Zenon
  <1>4. items \in Seq(STRING)
    <2>1. Head(Top.nodes) \in Node
      BY <1>2, <1>3
    <2> QED
      BY <2>1, Zenon DEF Node
  <1>5. frame \in FrameType /\ frame.nodes = Top.nodes /\ frame.subs = items
    BY <1>3, <1>4, Zenon DEF FrameType
  <1>6. stack \in Seq(FrameType) /\ contents \in Configurations
    BY Zenon DEF ReadingTyped
  <1>7. Top = stack[1] /\ 1 \in 1..Len(stack)
    BY <1>2, <1>6 DEF Top
  <1>8. items \in ItemTails(contents)
    BY <1>2, <1>6, <1>7, NodesAhead, Zenon DEF FramesAhead
  <1> HIDE DEF frame
  <1>9. WalkFiles(contents, frame.subs) = Included(contents, Head(Top.nodes))
    <2>1. Included(contents, Head(Top.nodes)) = WalkFiles(contents, items)
      BY <1>2 DEF Included
    <2> HIDE DEF items
    <2> QED
      BY <1>5, <2>1, Zenon
  <1> HIDE DEF items
  <1> QED
    BY <1>1, <1>2, <1>5, <1>8, <1>9, AdvanceAhead, Zenon

LEMMA SameAhead ==
    ASSUME FramesAhead, StillAhead, UNCHANGED <<contents, stack, read>>
    PROVE  FramesAhead' /\ StillAhead'
  BY Zenon DEF FramesAhead, StillAhead, ReadNodes

LEMMA WalkStep ==
    ASSUME ReadingTyped, ReadingTyped', WalkInvariant, [ConfNext]_ConfVars
    PROVE  WalkInvariant'
  <1>1. FramesAhead /\ StillAhead
    BY Zenon DEF WalkInvariant
  <1>2. CASE FilterNode
    <2>1. phase = "reading" /\ phase' = "reading"
      BY <1>2, Zenon DEF FilterNode, AtNode, Continue
    <2> QED
      BY <1>1, <1>2, <2>1, FilterNodeAhead, Zenon DEF WalkInvariant
  <1>3. CASE PriorityNode
    <2>1. phase = "reading" /\ AtNode({"priority"}) /\ UNCHANGED contents
      BY <1>3, Zenon DEF PriorityNode, AtNode
    <2>2. CASE priorities # Empty
      <3>1. phase' = "aborted" /\ UNCHANGED <<stack, read>>
        BY <1>3, <2>2, Zenon DEF PriorityNode, Abort, reading
      <3> QED
        BY <1>1, <2>1, <3>1, SameAhead, Zenon DEF WalkInvariant
    <2>3. CASE priorities = Empty
      <3>1. phase' = "reading" /\ stack' = Advance(Top) /\ Handled
        BY <1>3, <2>1, <2>3, Zenon DEF PriorityNode, Continue
      <3>2. Top \in FrameType /\ Top.subs = << >>
        BY <2>1, TopTyping, Zenon DEF AtNode
      <3> QED
        BY <1>1, <2>1, <3>1, <3>2, PlainNodeAhead, Zenon DEF WalkInvariant
    <2> QED
      BY <2>2, <2>3, Zenon
  <1>4. CASE SettingNode
    <2>1. /\ phase = "reading" /\ phase' = "reading" /\ AtNode(SettingNames) /\ UNCHANGED contents
          /\ stack' = Advance(Top) /\ Handled
      BY <1>4, Zenon DEF SettingNode, AtNode, SettingNames, Continue
    <2>2. Top \in FrameType /\ Top.subs = << >>
      BY <2>1, TopTyping, Zenon DEF AtNode
    <2> QED
      BY <1>1, <2>1, <2>2, PlainNodeAhead, Zenon DEF WalkInvariant
  <1>5. CASE IncludeNode
    <2>1. phase = "reading" /\ phase' = "reading"
      BY <1>5, Zenon DEF IncludeNode, AtNode, Continue
    <2> QED
      BY <1>1, <1>5, <2>1, IncludeNodeAhead, Zenon DEF WalkInvariant
  <1>6. CASE IncludeFile
    <2>1. phase = "reading" /\ stack # << >> /\ Top.subs # << >> /\ UNCHANGED contents
      BY <1>6, Zenon DEF IncludeFile
    <2>2. CASE Head(Top.subs) \in DOMAIN contents
      <3>1. phase' = "reading" /\ stack' = <<Frame(Head(Top.subs), calls + 1)>> \o AfterInclude /\ UNCHANGED read
        BY <1>6, <2>1, <2>2, Zenon DEF IncludeFile, Continue
      <3>2. calls \in Nat
        BY Zenon DEF ReadingTyped
      <3> QED
        BY <1>1, <2>1, <2>2, <3>1, <3>2, IncludeAhead, Zenon DEF WalkInvariant
    <2>3. CASE Head(Top.subs) \notin DOMAIN contents
      <3>1. phase' = "aborted" /\ UNCHANGED <<stack, read>>
        BY <1>6, <2>3, Zenon DEF IncludeFile, Abort, reading
      <3> QED
        BY <1>1, <2>1, <3>1, SameAhead, Zenon DEF WalkInvariant
    <2> QED
      BY <2>2, <2>3, Zenon
  <1>7. CASE EndOfFile
    <2>1. /\ phase = "reading" /\ stack # << >> /\ Top.subs = << >> /\ Top.nodes = << >> /\ UNCHANGED <<contents, read>>
          /\ stack' = Tail(stack) /\ (Tail(stack) # << >> => phase' = phase)
      BY <1>7, Zenon DEF EndOfFile, AfterFile
    <2>2. FramesAhead' /\ StillAhead'
      BY <1>1, <2>1, ReturnAhead, Zenon
    <2> QED
      BY <2>1, <2>2, Zenon DEF WalkInvariant
  <1>8. CASE UnknownNode
    <2>1. phase' = "aborted" /\ UNCHANGED <<contents, stack, read>>
      BY <1>8, Zenon DEF UnknownNode, Abort, reading
    <2> QED
      BY <1>1, <2>1, SameAhead, Zenon DEF WalkInvariant
  <1>9. CASE \/ \E i \in DOMAIN FilterNames : AssignPriority(i)
             \/ EndAssign \/ \E p \in DOMAIN priority_map : BuildFilter(p)
             \/ EndBuild
    <2>1. phase \in {"prioritising", "building"} /\ UNCHANGED <<contents, stack, read>>
      BY <1>9, Zenon DEF AssignPriority, EndAssign, BuildFilter, EndBuild, reading
    <2>2. stack = << >>
      BY <2>1 DEF WalkInvariant
    <2> QED
      BY <1>1, <2>1, <2>2, SameAhead, Zenon DEF WalkInvariant
  <1>10. CASE UNCHANGED ConfVars
    <2>1. UNCHANGED <<contents, stack, read, phase>>
      BY <1>10, Zenon DEF ConfVars, reading
    <2> QED
      BY <1>1, <2>1, SameAhead, Zenon DEF WalkInvariant
  <1> QED
    BY <1>2, <1>3, <1>4, <1>5, <1>6, <1>7, <1>8, <1>9, <1>10, Zenon DEF ConfNext

-----------------------------------------------------------------------------
(* The sections of the filters, and the filters that are built from them *)

\* A list has the nodes called f, all of them, in their order: pos is where.
InPlace(list, nodes, f, pos) ==
    /\ pos \in [1..Len(list) -> 1..Len(nodes)]
    /\ \A i \in 1..Len(list) : nodes[pos[i]] = list[i] /\ list[i].name = f
    /\ \A i, j \in 1..Len(list) : i < j => pos[i] < pos[j]
    /\ \A k \in 1..Len(nodes) : nodes[k].name = f => \E i \in 1..Len(list) : pos[i] = k
HasAll(list, nodes, f) == \E pos : InPlace(list, nodes, f, pos)

LEMMA HasNone ==
    ASSUME NEW nodes \in Seq(Node), NEW f, \A k \in 1..Len(nodes) : nodes[k].name # f
    PROVE  HasAll(<< >>, nodes, f)
  <1>1. Len(<< >>) = 0 /\ \A i : i \notin 1..0
    OBVIOUS
  <1> DEFINE pos == [i \in 1..0 |-> 1]
  <1>2. pos \in [1..0 -> 1..Len(nodes)]
    BY <1>1, Zenon
  <1> HIDE DEF pos
  <1>3. InPlace(<< >>, nodes, f, pos)
    BY <1>1, <1>2, Zenon DEF InPlace
  <1> QED
    BY <1>3, Zenon DEF HasAll

LEMMA AppendFacts ==
    ASSUME NEW S, NEW s \in Seq(S), NEW e \in S
    PROVE  /\ Append(s, e) \in Seq(S) /\ Len(s) \in Nat /\ Len(Append(s, e)) = Len(s) + 1
           /\ Append(s, e)[Len(s) + 1] = e /\ \A i \in 1..Len(s) : Append(s, e)[i] = s[i]
           /\ Len(s) + 1 \in 1..Len(s) + 1
           /\ \A i \in 1..Len(s) : i \in 1..Len(s) + 1 /\ i < Len(s) + 1 /\ ~(Len(s) + 1 < i) /\ i # Len(s) + 1
           /\ \A i \in 1..Len(s) + 1 : i \in 1..Len(s) \/ i = Len(s) + 1
           /\ ~(Len(s) + 1 < Len(s) + 1)
  OBVIOUS

LEMMA HasAllOther ==
    ASSUME NEW nodes \in Seq(Node), NEW list, NEW f, HasAll(list, nodes, f),
           NEW n \in Node, n.name # f
    PROVE  HasAll(list, Append(nodes, n), f)
  <1>1. PICK pos : InPlace(list, nodes, f, pos)
    BY Zenon DEF HasAll
  <1> DEFINE more == Append(nodes, n)
  <1>2. /\ Len(nodes) \in Nat /\ Len(more) = Len(nodes) + 1
        /\ more[Len(nodes) + 1] = n /\ \A i \in 1..Len(nodes) : more[i] = nodes[i]
        /\ \A i \in 1..Len(nodes) : i \in 1..Len(nodes) + 1
        /\ \A i \in 1..Len(nodes) + 1 : i \in 1..Len(nodes) \/ i = Len(nodes) + 1
    BY AppendFacts
  <1> HIDE DEF more
  <1>3. pos \in [1..Len(list) -> 1..Len(more)]
    BY <1>1, <1>2, Zenon DEF InPlace
  <1>4. \A i \in 1..Len(list) : more[pos[i]] = list[i] /\ list[i].name = f
    BY <1>1, <1>2, Zenon DEF InPlace
  <1>5. \A k \in 1..Len(more) : more[k].name = f => \E i \in 1..Len(list) : pos[i] = k
    BY <1>1, <1>2, Zenon DEF InPlace
  <1>6. InPlace(list, more, f, pos)
    BY <1>1, <1>3, <1>4, <1>5, Zenon DEF InPlace
  <1> QED
    BY <1>6, Zenon DEF HasAll, more

LEMMA HasAllMore ==
    ASSUME NEW nodes \in Seq(Node), NEW list \in Seq(Node), NEW f, HasAll(list, nodes, f),
           NEW n \in Node, n.name = f
    PROVE  HasAll(Append(list, n), Append(nodes, n), f)
  <1>1. PICK old : InPlace(list, nodes, f, old)
    BY Zenon DEF HasAll
  <1> DEFINE more == Append(nodes, n)
             longer == Append(list, n)
             a == Len(list) + 1
             b == Len(nodes) + 1
             pos == [i \in 1..a |-> IF i = a THEN b ELSE old[i]]
  <1>2. /\ Len(nodes) \in Nat /\ Len(more) = b /\ more[b] = n /\ \A i \in 1..Len(nodes) : more[i] = nodes[i]
        /\ b \in 1..b /\ \A i \in 1..Len(nodes) : i \in 1..b /\ i < b /\ i # b
        /\ \A i \in 1..b : i \in 1..Len(nodes) \/ i = b
    BY AppendFacts
  <1>3. /\ Len(list) \in Nat /\ Len(longer) = a /\ longer[a] = n /\ \A i \in 1..Len(list) : longer[i] = list[i]
        /\ a \in 1..a /\ \A i \in 1..Len(list) : i \in 1..a /\ ~(a < i) /\ i # a
        /\ \A i \in 1..a : i \in 1..Len(list) \/ i = a
        /\ ~(a < a)
    BY AppendFacts
  <1> HIDE DEF more, longer, a, b
  <1>4. pos[a] = b /\ \A i \in 1..Len(list) : pos[i] = old[i] /\ old[i] \in 1..Len(nodes)
    BY <1>1, <1>3, Zenon DEF InPlace
  <1>5. pos \in [1..Len(longer) -> 1..Len(more)]
    <2>1. \A i \in 1..a : (IF i = a THEN b ELSE old[i]) \in 1..b
      BY <1>2, <1>3, <1>4, Zenon
    <2> QED
      BY <1>2, <1>3, <2>1, Zenon
  <1> HIDE DEF pos
  <1>6. ASSUME NEW i \in 1..Len(longer) PROVE more[pos[i]] = longer[i] /\ longer[i].name = f
    <2>1. CASE i = a
      BY <1>2, <1>3, <1>4, <2>1, Zenon
    <2>2. CASE i \in 1..Len(list)
      <3>1. nodes[old[i]] = list[i] /\ list[i].name = f
        BY <1>1, <2>2, Zenon DEF InPlace
      <3> QED
        BY <1>2, <1>3, <1>4, <2>2, <3>1, Zenon
    <2> QED
      BY <1>3, <2>1, <2>2, Zenon
  <1>7. ASSUME NEW i \in 1..Len(longer), NEW j \in 1..Len(longer), i < j PROVE pos[i] < pos[j]
    <2>1. i \in 1..Len(list)
      BY <1>3, <1>7, Zenon
    <2>2. CASE j = a
      BY <1>2, <1>4, <2>1, <2>2, Zenon
    <2>3. CASE j \in 1..Len(list)
      <3>1. old[i] < old[j]
        BY <1>1, <1>7, <2>1, <2>3, Zenon DEF InPlace
      <3> QED
        BY <1>4, <2>1, <2>3, <3>1, Zenon
    <2> QED
      BY <1>3, <2>2, <2>3, Zenon
  <1>8. ASSUME NEW k \in 1..Len(more), more[k].name = f PROVE \E i \in 1..Len(longer) : pos[i] = k
    <2>1. CASE k = b
      BY <1>3, <1>4, <2>1, Zenon
    <2>2. CASE k \in 1..Len(nodes)
      <3>1. PICK i \in 1..Len(list) : old[i] = k
        BY <1>1, <1>2, <1>8, <2>2, Zenon DEF InPlace
      <3> QED
        BY <1>3, <1>4, <3>1, Zenon
    <2> QED
      BY <1>2, <2>1, <2>2, Zenon
  <1>9. InPlace(longer, more, f, pos)
    BY <1>5, <1>6, <1>7, <1>8, Zenon DEF InPlace
  <1> QED
    BY <1>9, Zenon DEF HasAll, more, longer

\* Every filter that was met has its sections, all of them.
FilterSections ==
    /\ \A k \in 1..Len(ReadNodes) :
          ReadNodes[k].name \in AllFilters => ReadNodes[k].name \in DOMAIN filter_config_map
    /\ \A f \in DOMAIN filter_config_map :
          /\ HasAll(filter_config_map[f].config_node_list, ReadNodes, f)
          /\ \E k \in 1..Len(ReadNodes) : ReadNodes[k].name = f

LEMMA SectionsOther ==
    ASSUME ReadingTyped, ReadingTyped', FilterSections, UNCHANGED filter_config_map,
           NEW n \in Node, n.name \notin AllFilters, ReadNodes' = Append(ReadNodes, n)
    PROVE  FilterSections'
  <1> DEFINE old == ReadNodes
             new == Append(old, n)
             fcm == filter_config_map
  <1>1. old \in Seq(Node)
    BY ReadNodesTyping, Zenon
  <1> HIDE DEF old
  <1>2. /\ Len(new) = Len(old) + 1 /\ new[Len(old) + 1] = n /\ \A i \in 1..Len(old) : new[i] = old[i]
        /\ \A i \in 1..Len(old) : i \in 1..Len(old) + 1
        /\ \A i \in 1..Len(old) + 1 : i \in 1..Len(old) \/ i = Len(old) + 1
    BY <1>1, AppendFacts
  <1>3. /\ \A k \in 1..Len(old) : old[k].name \in AllFilters => old[k].name \in DOMAIN fcm
        /\ \A f \in DOMAIN fcm : /\ HasAll(fcm[f].config_node_list, old, f)
                                 /\ \E k \in 1..Len(old) : old[k].name = f
    BY Zenon DEF FilterSections, old
  <1>4. DOMAIN fcm \subseteq AllFilters
    BY Zenon DEF ReadingTyped
  <1>5. \A f \in DOMAIN fcm : HasAll(fcm[f].config_node_list, new, f)
    BY <1>1, <1>3, <1>4, HasAllOther, Zenon
  <1> HIDE DEF new
  <1>6. \A f \in DOMAIN fcm : \E k \in 1..Len(new) : new[k].name = f
    <2> SUFFICES ASSUME NEW f \in DOMAIN fcm PROVE \E k \in 1..Len(new) : new[k].name = f
      BY Zenon
    <2>1. PICK k \in 1..Len(old) : old[k].name = f
      BY <1>3, Zenon
    <2> QED
      BY <1>2, <2>1, Zenon
  <1>7. \A k \in 1..Len(new) : new[k].name \in AllFilters => new[k].name \in DOMAIN fcm
    BY <1>2, <1>3, Zenon
  <1>8. ReadNodes' = new /\ filter_config_map' = fcm
    BY Zenon DEF new, old
  <1> HIDE DEF fcm
  <1> QED
    BY <1>5, <1>6, <1>7, <1>8, Zenon DEF FilterSections

LEMMA SectionsFilter ==
    ASSUME ReadingTyped, ReadingTyped', FilterSections, FilterNode
    PROVE  FilterSections'
  <1> DEFINE node == Head(Top.nodes)
             g == node.name
             fcm == filter_config_map
             section == IF g \in DOMAIN fcm THEN fcm[g] ELSE NewSection(g, Top)
             old == ReadNodes
             new == Append(old, node)
  <1>1. /\ AtNode(AllFilters) /\ Handled
        /\ filter_config_map' = Extend(fcm, g, PushBack(section, node))
    BY Zenon DEF FilterNode
  <1>2. stack # << >> /\ Top.nodes # << >> /\ g \in AllFilters
    BY <1>1, Zenon DEF AtNode
  <1>3. ReadNodes' = new /\ node \in Node
    BY <1>1, <1>2, ReadOneMore, Zenon
  <1>4. section \in SectionType
    <2>1. g \in DOMAIN fcm => fcm[g] \in SectionType
      BY Zenon DEF ReadingTyped
    <2>2. Top.call \in Nat \ {0} /\ Top.sequential \in Nat
      BY <1>2, TopTyping, Zenon
    <2>3. Len(read) + 1 \in Nat \ {0} /\ << >> \in Seq(Node)
      BY ReadNodesTyping
    <2>4. NewSection(g, Top) \in SectionType
      BY <2>2, <2>3, Zenon DEF NewSection, SectionType
    <2> QED
      BY <2>1, <2>4, Zenon
  <1>5. PushBack(section, node).config_node_list = Append(section.config_node_list, node)
    BY <1>4, Zenon DEF PushBack, SectionType
  <1>6. section.config_node_list \in Seq(Node)
    BY <1>4, Zenon DEF SectionType
  <1>7. g \notin DOMAIN fcm => section.config_node_list = << >>
    BY Zenon DEF NewSection
  <1>8. old \in Seq(Node)
    BY ReadNodesTyping, Zenon
  <1>9. /\ \A k \in 1..Len(old) : old[k].name \in AllFilters => old[k].name \in DOMAIN fcm
        /\ \A f \in DOMAIN fcm : /\ HasAll(fcm[f].config_node_list, old, f)
                                 /\ \E k \in 1..Len(old) : old[k].name = f
    BY Zenon DEF FilterSections
  <1>10. HasAll(section.config_node_list, old, g)
    <2>1. CASE g \in DOMAIN fcm
      BY <1>9, <2>1, Zenon
    <2>2. CASE g \notin DOMAIN fcm
      <3>1. \A k \in 1..Len(old) : old[k].name # g
        BY <1>2, <1>9, <2>2, Zenon
      <3>2. HasAll(<< >>, old, g)
        BY <1>8, <3>1, HasNone, Zenon
      <3> QED
        BY <1>7, <2>2, <3>2, Zenon
    <2> QED
      BY <2>1, <2>2, Zenon
  <1> HIDE DEF section, node, old
  <1> DEFINE pushed == PushBack(section, node)
  <1>11. HasAll(pushed.config_node_list, new, g)
    <2>1. HasAll(Append(section.config_node_list, node), new, g)
      BY <1>3, <1>6, <1>8, <1>10, HasAllMore, Zenon
    <2> QED
      BY <1>5, <2>1, Zenon
  <1>12. \A f \in DOMAIN fcm : f # g => HasAll(fcm[f].config_node_list, new, f)
    BY <1>3, <1>8, <1>9, HasAllOther, Zenon
  <1>13. /\ Len(new) = Len(old) + 1 /\ new[Len(old) + 1] = node /\ \A i \in 1..Len(old) : new[i] = old[i]
         /\ \A i \in 1..Len(old) : i \in 1..Len(old) + 1
         /\ \A i \in 1..Len(old) + 1 : i \in 1..Len(old) \/ i = Len(old) + 1
         /\ Len(old) + 1 \in 1..Len(old) + 1
    BY <1>3, <1>8, AppendFacts
  <1> HIDE DEF new
  <1>14. /\ DOMAIN filter_config_map' = DOMAIN fcm \cup {g} /\ filter_config_map'[g] = pushed
         /\ \A f \in DOMAIN fcm : f # g => filter_config_map'[f] = fcm[f]
    BY <1>1, Zenon DEF Extend
  <1> HIDE DEF pushed
  <1>15. \A f \in DOMAIN filter_config_map' : HasAll(filter_config_map'[f].config_node_list, new, f)
    BY <1>11, <1>12, <1>14, Zenon
  <1>16. \A f \in DOMAIN filter_config_map' : \E k \in 1..Len(new) : new[k].name = f
    <2> SUFFICES ASSUME NEW f \in DOMAIN filter_config_map' PROVE \E k \in 1..Len(new) : new[k].name = f
      BY Zenon
    <2>1. CASE f = g
      BY <1>13, <2>1, Zenon
    <2>2. CASE f # g
      <3>1. PICK k \in 1..Len(old) : old[k].name = f
        BY <1>9, <1>14, <2>2, Zenon
      <3> QED
        BY <1>13, <3>1, Zenon
    <2> QED
      BY <2>1, <2>2, Zenon
  <1>17. \A k \in 1..Len(new) : new[k].name \in AllFilters => new[k].name \in DOMAIN filter_config_map'
    BY <1>9, <1>13, <1>14, Zenon
  <1> QED
    BY <1>3, <1>15, <1>16, <1>17, Zenon DEF FilterSections

LEMMA SectionsSame ==
    ASSUME FilterSections, read' = read, filter_config_map' = filter_config_map
    PROVE  FilterSections'
  <1>1. ReadNodes' = ReadNodes
    BY Zenon DEF ReadNodes
  <1> QED
    BY <1>1, Zenon DEF FilterSections

LEMMA SectionsStep ==
    ASSUME ReadingTyped, ReadingTyped', FilterSections, [ConfNext]_ConfVars
    PROVE  FilterSections'
  <1>1. ASSUME UNCHANGED <<read, filter_config_map>> PROVE FilterSections'
    BY <1>1, SectionsSame, Zenon
  <1>2. CASE FilterNode
    BY <1>2, SectionsFilter, Zenon
  <1>3. ASSUME AtNode({"priority"}) \/ AtNode(SettingNames) \/ AtNode({"include"}), Handled, UNCHANGED filter_config_map
        PROVE  FilterSections'
    <2>1. stack # << >> /\ Top.nodes # << >>
      BY <1>3, Zenon DEF AtNode
    <2>2. Head(Top.nodes).name \notin AllFilters
      BY <1>3, NotFilters DEF AtNode, SettingNames
    <2>3. ReadNodes' = Append(ReadNodes, Head(Top.nodes)) /\ Head(Top.nodes) \in Node
      BY <1>3, <2>1, ReadOneMore, Zenon
    <2> QED
      BY <1>3, <2>2, <2>3, SectionsOther, Zenon
  <1>4. CASE PriorityNode
    <2>1. UNCHANGED read \/ (AtNode({"priority"}) /\ Handled)
      BY <1>4, Zenon DEF PriorityNode, reading
    <2> QED
      BY <1>1, <1>3, <1>4, <2>1, Zenon DEF PriorityNode
  <1>5. CASE SettingNode
    BY <1>3, <1>5, Zenon DEF SettingNode, SettingNames
  <1>6. CASE IncludeNode
    BY <1>3, <1>6, Zenon DEF IncludeNode, sections
  <1>7. CASE \/ IncludeFile \/ UnknownNode \/ EndOfFile
             \/ \E i \in DOMAIN FilterNames : AssignPriority(i)
             \/ EndAssign \/ \E p \in DOMAIN priority_map : BuildFilter(p)
             \/ EndBuild \/ UNCHANGED ConfVars
    <2>1. UNCHANGED <<read, filter_config_map>>
      BY <1>7, Zenon DEF IncludeFile, UnknownNode, EndOfFile, AssignPriority, EndAssign, BuildFilter,
                         EndBuild, ConfVars, reading, sections
    <2> QED
      BY <1>1, <2>1, Zenon
  <1> QED
    BY <1>2, <1>4, <1>5, <1>6, <1>7, Zenon DEF ConfNext

\* Every filter is built from its sections, and none is left out.
FiltersMerged ==
    /\ \A i \in 1..Len(built) :
          built[i].cfg = Merged(filter_config_map[built[i].name].config_node_list)
    /\ \A x : x \in white_list <=>
          \E i \in 1..Len(built) : built[i].name = "white_lister" /\ x \in Range(built[i].cfg.items)
    /\ phase \in {"building", "ready", "current"} => DOMAIN filter_config_map \subseteq Range(priority_map)
    /\ phase \in {"ready", "current"} => Range(priority_map) \subseteq Names(built)

WholeInvariant == WalkInvariant /\ FilterSections /\ FiltersMerged

LEMMA NothingMergedYet ==
    ASSUME built = << >>, \A x : x \notin white_list, phase \notin {"building", "ready", "current"}
    PROVE  FiltersMerged
  <1>1. Len(built) = 0 /\ \A i : i \notin 1..0
    OBVIOUS
  <1> QED
    BY <1>1, Zenon DEF FiltersMerged

LEMMA NoneOnWhiteList ==
    ASSUME FiltersMerged, built = << >>
    PROVE  \A x : x \notin white_list
  <1>1. Len(built) = 0 /\ \A i : i \notin 1..0
    OBVIOUS
  <1> QED
    BY <1>1, Zenon DEF FiltersMerged

LEMMA BuildMerges ==
    ASSUME ConfigurationInvariant, FiltersMerged, NEW p \in DOMAIN priority_map, BuildFilter(p)
    PROVE  FiltersMerged'
  <1> DEFINE f == priority_map[p]
             cfg == Merged(filter_config_map[f].config_node_list)
             entry == [name |-> f, cfg |-> cfg]
  <1>1. phase = "building" /\ UNCHANGED <<filter_config_map, priority_map>>
    BY Zenon DEF BuildFilter, sections
  <1>2. DOMAIN filter_config_map' \subseteq Range(priority_map')
    BY <1>1, Zenon DEF FiltersMerged
  <1>3. CASE Loads(f, cfg)
    <2>1. /\ built' = Append(built, entry) /\ phase' = phase
          /\ white_list' = white_list \cup (IF f = "white_lister" THEN Range(cfg.items) ELSE {})
      BY <1>3, Zenon DEF BuildFilter, Continue
    <2>2. entry.name = f /\ entry.cfg = cfg
      BY Zenon
    <2> HIDE DEF entry, cfg, f
    <2>3. PICK S : built \in Seq(S)
      BY Zenon DEF ConfigurationInvariant, BuiltInOrder
    <2>4. /\ Len(built') = Len(built) + 1 /\ built'[Len(built) + 1] = entry
          /\ \A i \in 1..Len(built) : built'[i] = built[i]
          /\ \A i \in 1..Len(built) : i \in 1..Len(built) + 1
          /\ \A i \in 1..Len(built) + 1 : i \in 1..Len(built) \/ i = Len(built) + 1
          /\ Len(built) + 1 \in 1..Len(built) + 1
      BY <2>1, <2>3
    <2>5. \A i \in 1..Len(built') :
              built'[i].cfg = Merged(filter_config_map[built'[i].name].config_node_list)
      <3> SUFFICES ASSUME NEW i \in 1..Len(built')
                   PROVE  built'[i].cfg = Merged(filter_config_map[built'[i].name].config_node_list)
        BY Zenon
      <3>1. CASE i \in 1..Len(built)
        BY <2>4, <3>1, Zenon DEF FiltersMerged
      <3>2. CASE i = Len(built) + 1
        <4>1. built'[i] = entry
          BY <2>4, <3>2, Zenon
        <4> QED
          BY <2>2, <4>1, Zenon DEF cfg
      <3> QED
        BY <2>4, <3>1, <3>2, Zenon
    <2>6. ASSUME NEW x
          PROVE  x \in white_list' <=>
                   \E i \in 1..Len(built') : built'[i].name = "white_lister" /\ x \in Range(built'[i].cfg.items)
      <3>1. x \in white_list' <=> x \in white_list \/ (f = "white_lister" /\ x \in Range(cfg.items))
        BY <2>1, Zenon
      <3>2. x \in white_list <=>
              \E i \in 1..Len(built) : built[i].name = "white_lister" /\ x \in Range(built[i].cfg.items)
        BY Zenon DEF FiltersMerged
      <3>3. (\E i \in 1..Len(built') : built'[i].name = "white_lister" /\ x \in Range(built'[i].cfg.items))
             <=> \/ \E i \in 1..Len(built) : built[i].name = "white_lister" /\ x \in Range(built[i].cfg.items)
                 \/ entry.name = "white_lister" /\ x \in Range(entry.cfg.items)
        BY <2>4, Zenon
      <3> QED
        BY <2>2, <3>1, <3>2, <3>3, Zenon
    <2>7. phase' = "building"
      BY <1>1, <2>1, Zenon
    <2>8. phase' \notin {"ready", "current"}
      BY <2>7
    <2> QED
      BY <1>1, <1>2, <2>5, <2>6, <2>8, Zenon DEF FiltersMerged
  <1>4. CASE ~Loads(f, cfg)
    <2>1. phase' = "aborted" /\ UNCHANGED <<built, white_list>>
      BY <1>4, Zenon DEF BuildFilter, Abort
    <2>2. phase' \notin {"building", "ready", "current"}
      BY <2>1
    <2> QED
      BY <1>1, <2>1, <2>2, Zenon DEF FiltersMerged
  <1> QED
    BY <1>3, <1>4, Zenon

LEMMA FiltersStep ==
    ASSUME ConfigurationInvariant, ConfigurationInvariant', FiltersMerged, [ConfNext]_ConfVars
    PROVE  FiltersMerged'
  <1>1. ASSUME UNCHANGED outcome, phase \in {"reading", "prioritising"}, phase' \in {"reading", "prioritising", "aborted"}
        PROVE  FiltersMerged'
    <2>1. built = << >>
      BY <1>1, Zenon DEF ConfigurationInvariant, PhaseInvariant
    <2>2. built' = << >> /\ white_list' = white_list
      BY <1>1, <2>1, Zenon DEF outcome
    <2>3. \A x : x \notin white_list
      BY <2>1, NoneOnWhiteList, Zenon
    <2>4. phase' \notin {"building", "ready", "current"}
      BY <1>1
    <2>5. Len(built') = 0 /\ \A i : i \notin 1..0
      BY <2>2
    <2> QED
      BY <2>2, <2>3, <2>4, <2>5, Zenon DEF FiltersMerged
  <1>2. CASE \/ FilterNode \/ PriorityNode \/ SettingNode \/ IncludeNode \/ IncludeFile
             \/ UnknownNode \/ EndOfFile
    <2>1. UNCHANGED outcome /\ phase = "reading"
      BY <1>2, Zenon DEF FilterNode, PriorityNode, SettingNode, IncludeNode, IncludeFile, UnknownNode,
                         EndOfFile, AtNode
    <2>2. phase' = phase \/ phase' = "aborted" \/ phase' = "prioritising"
      BY <1>2, Zenon DEF FilterNode, PriorityNode, SettingNode, IncludeNode, IncludeFile, UnknownNode,
                         EndOfFile, AfterFile, Abort, Continue
    <2> QED
      BY <1>1, <2>1, <2>2
  <1>3. CASE \E i \in DOMAIN FilterNames : AssignPriority(i)
    <2>1. UNCHANGED outcome /\ phase = "prioritising" /\ (phase' = phase \/ phase' = "aborted")
      BY <1>3, Zenon DEF AssignPriority, Continue, Abort
    <2> QED
      BY <1>1, <2>1
  <1>4. CASE EndAssign
    <2>1. /\ UNCHANGED <<built, white_list, filter_config_map, priority_map>> /\ phase' = "building"
          /\ DOMAIN filter_config_map \subseteq Range(priority_map)
      BY <1>4, Zenon DEF EndAssign, Unassigned, outcome, sections
    <2>2. phase' \notin {"ready", "current"}
      BY <2>1
    <2> QED
      BY <2>1, <2>2, Zenon DEF FiltersMerged
  <1>5. CASE \E p \in DOMAIN priority_map : BuildFilter(p)
    BY <1>5, BuildMerges, Zenon
  <1>6. CASE EndBuild
    <2>1. /\ UNCHANGED <<built, white_list, filter_config_map, priority_map>> /\ phase = "building"
          /\ Range(priority_map) \subseteq Names(built)
      BY <1>6, Zenon DEF EndBuild, sections
    <2> QED
      BY <2>1, Zenon DEF FiltersMerged, Names
  <1>7. CASE UNCHANGED ConfVars
    BY <1>7, Zenon DEF FiltersMerged, ConfVars, outcome, sections, Names
  <1> QED
    BY <1>2, <1>3, <1>4, <1>5, <1>6, <1>7, Zenon DEF ConfNext

LEMMA WholeInit ==
    ASSUME ConfInit, ConfigurationInvariant
    PROVE  WholeInvariant
  <1>1. ReadingTyped
    BY Zenon DEF ConfigurationInvariant, ReadingInvariant
  <1>2. WalkInvariant
    BY <1>1, WalkInit, Zenon
  <1>3. Len(ReadNodes) = 0 /\ DOMAIN filter_config_map = {} /\ \A i : i \notin 1..0
    <2>1. Len(ReadNodes) = Len(read) /\ read = << >> /\ filter_config_map = Empty
      BY <1>1, ReadNodesTyping, Zenon DEF ConfInit
    <2> QED
      BY <2>1 DEF Empty
  <1>4. FilterSections
    BY <1>3, Zenon DEF FilterSections
  <1>5. FiltersMerged
    <2>1. built = << >> /\ white_list = {} /\ phase = "reading"
      BY Zenon DEF ConfInit
    <2>2. phase \notin {"building", "ready", "current"}
      BY <2>1
    <2> QED
      BY <2>1, <2>2, NothingMergedYet, Zenon
  <1> QED
    BY <1>2, <1>4, <1>5, Zenon DEF WholeInvariant

LEMMA WholeStep ==
    ASSUME ConfigurationInvariant, ConfigurationInvariant', WholeInvariant, [ConfNext]_ConfVars
    PROVE  WholeInvariant'
  <1>1. ReadingTyped /\ ReadingTyped'
    BY Zenon DEF ConfigurationInvariant, ReadingInvariant
  <1>2. WalkInvariant'
    BY <1>1, WalkStep, Zenon DEF WholeInvariant
  <1>3. FilterSections'
    BY <1>1, SectionsStep, Zenon DEF WholeInvariant
  <1>4. FiltersMerged'
    BY FiltersStep, Zenon DEF WholeInvariant
  <1> QED
    BY <1>2, <1>3, <1>4, Zenon DEF WholeInvariant

\* When the filters are being numbered and built, the whole walk was read.
LEMMA AllRead ==
    ASSUME ConfigurationInvariant, WalkInvariant, phase = "ready"
    PROVE  ReadNodes = Walk(contents, contents[MainFile]) /\ ReadNodes \in Seq(Node)
  <1>1. PICK r \in Seq(Node) : /\ HasRest(contents, stack, r)
                               /\ ReadNodes \o r = Walk(contents, contents[MainFile])
    BY Zenon DEF WalkInvariant, StillAhead
  <1>2. stack = << >>
    BY DEF WalkInvariant
  <1>3. r = << >>
    BY <1>1, <1>2, NothingLeft, Zenon
  <1>4. ReadNodes \in Seq(Node)
    BY ReadNodesTyping, Zenon DEF ConfigurationInvariant, ReadingInvariant
  <1>5. ReadNodes \o << >> = ReadNodes
    BY <1>4, EmptyNodes, Zenon
  <1> QED
    BY <1>1, <1>3, <1>4, <1>5, Zenon

LEMMA WholeSafe == ServerSpec => [](ConfigurationInvariant /\ WholeInvariant)
<1>1. ServerInvariant /\ ServerInvariant' /\ WholeInvariant /\ [ServerNext]_ServerVars => WholeInvariant'
  <2> SUFFICES ASSUME ServerInvariant, ServerInvariant', WholeInvariant, [ServerNext]_ServerVars
               PROVE  WholeInvariant'
    BY Zenon
  <2>1. ConfigurationInvariant /\ ConfigurationInvariant'
    BY Zenon DEF ServerInvariant
  <2>2. CASE [ConfNext]_ConfVars
    BY <2>1, <2>2, WholeStep, Zenon
  <2>3. CASE Register
    <3>1. /\ phase = "ready" /\ phase' = "current"
          /\ UNCHANGED <<contents, stack, read, filter_config_map, priority_map, built, white_list>>
      BY <2>3, Zenon DEF Register, reading, sections, outcome
    <3>2. stack = << >>
      BY <3>1 DEF WholeInvariant, WalkInvariant
    <3>3. WalkInvariant'
      BY <3>1, <3>2, SameAhead, Zenon DEF WholeInvariant, WalkInvariant
    <3>4. FilterSections'
      BY <3>1, SectionsSame, Zenon DEF WholeInvariant
    <3>5. FiltersMerged'
      BY <3>1, Zenon DEF WholeInvariant, FiltersMerged, Names
    <3> QED
      BY <3>3, <3>4, <3>5, Zenon DEF WholeInvariant
  <2> QED
    BY <2>2, <2>3, Zenon DEF ServerNext, Configure, Serve, ServerVars
<1>2. ServerInit => WholeInvariant
  BY ConfigurationInit, WholeInit, Zenon DEF ServerInit
<1>3. ServerInvariant => ConfigurationInvariant
  BY Zenon DEF ServerInvariant
<1> QED
  BY <1>1, <1>2, <1>3, ServerSafe, PTL DEF ServerSpec

-----------------------------------------------------------------------------
(* The sections of a filter, merged: what the recursion of Merged computes,  *)
(* by induction on the length of the list.                                   *)

INSTANCE WellFoundedInduction

LEMMA LeastElement ==
    ASSUME NEW T \in SUBSET Nat, T # {}
    PROVE  \E m \in T : \A n \in T : m <= n
  <1> DEFINE R == {ss \in Nat \X Nat : ss[1] < ss[2]}
  <1>1. OpToRel(<, Nat) = R
    BY DEF OpToRel
  <1>2. IsWellFoundedOn(R, Nat)
    BY <1>1, NatLessThanWellFounded
  <1>3. PICK x \in T : \A y \in T : ~ (<<y, x>> \in R)
    BY <1>2, WFMin
  <1>4. ASSUME NEW y \in T PROVE x <= y
    <2>1. x \in Nat /\ y \in Nat /\ <<y, x>> \notin R
      BY <1>3
    <2>2. y < x => <<y, x>> \in R
      BY <2>1
    <2> QED
      BY <2>1, <2>2
  <1> QED
    BY <1>4

\* The first n sections of a list, merged.
NothingMerged == [items |-> << >>, key |-> Unset]
MergesUpto(f, nodes, m) ==
    f = [n \in 0..m |-> IF n = 0 THEN NothingMerged ELSE merge_nodes(f[n - 1], nodes[n])]

LEMMA MergesFurther ==
    ASSUME NEW nodes, NEW m \in Nat \ {0}, NEW f, MergesUpto(f, nodes, m - 1)
    PROVE  \E g : MergesUpto(g, nodes, m)
  <1> DEFINE g == [n \in 0..m |-> IF n < m THEN f[n] ELSE merge_nodes(f[m - 1], nodes[m])]
  <1>1. ASSUME NEW n \in 0..m
        PROVE  g[n] = IF n = 0 THEN NothingMerged ELSE merge_nodes(g[n - 1], nodes[n])
    <2>1. CASE n = m
      <3>1. g[n] = merge_nodes(f[m - 1], nodes[m]) /\ m - 1 \in 0..m /\ m - 1 < m
        BY <2>1
      <3>2. g[m - 1] = f[m - 1]
        BY <3>1
      <3> HIDE DEF g
      <3> QED
        BY <2>1, <3>1, <3>2
    <2>2. CASE n # m
      <3>1. n \in 0..m - 1 /\ n < m /\ (n # 0 => n - 1 \in 0..m /\ n - 1 < m)
        BY <2>2
      <3>2. f[n] = IF n = 0 THEN NothingMerged ELSE merge_nodes(f[n - 1], nodes[n])
        BY <3>1, Zenon DEF MergesUpto
      <3>3. g[n] = f[n] /\ (n # 0 => g[n - 1] = f[n - 1])
        BY <3>1
      <3> HIDE DEF g
      <3> QED
        BY <3>2, <3>3, Zenon
    <2> QED
      BY <2>1, <2>2, Zenon
  <1>2. g = [n \in 0..m |-> g[n]]
    BY Zenon
  <1> HIDE DEF g
  <1>3. g = [n \in 0..m |-> IF n = 0 THEN NothingMerged ELSE merge_nodes(g[n - 1], nodes[n])]
    BY <1>1, <1>2, Zenon
  <1> QED
    BY <1>3, Zenon DEF MergesUpto

LEMMA MergesExists ==
    ASSUME NEW nodes, NEW m \in Nat
    PROVE  \E f : MergesUpto(f, nodes, m)
  <1> DEFINE T == {n \in Nat : ~\E f : MergesUpto(f, nodes, n)}
  <1>1. SUFFICES ASSUME T # {} PROVE FALSE
    BY Zenon
  <1>2. PICK k \in T : \A n \in T : k <= n
    BY <1>1, LeastElement
  <1>3. k \in Nat /\ ~\E f : MergesUpto(f, nodes, k)
    BY <1>2, Zenon
  <1>4. CASE k = 0
    <2> DEFINE f == [n \in 0..0 |-> NothingMerged]
    <2>1. f = [n \in 0..0 |-> IF n = 0 THEN NothingMerged ELSE merge_nodes(f[n - 1], nodes[n])]
      BY SMT
    <2> HIDE DEF f
    <2> QED
      BY <1>3, <1>4, <2>1, Zenon DEF MergesUpto
  <1>5. CASE k # 0
    <2>1. k \in Nat \ {0} /\ k - 1 \in Nat /\ ~(k <= k - 1)
      BY <1>3, <1>5
    <2>2. \E f : MergesUpto(f, nodes, k - 1)
      BY <1>2, <2>1, Zenon
    <2> QED
      BY <1>3, <2>1, <2>2, MergesFurther, Zenon
  <1> QED
    BY <1>4, <1>5, Zenon

LEMMA MergedSteps ==
    ASSUME NEW nodes \in Seq(Node)
    PROVE  \E f : MergesUpto(f, nodes, Len(nodes)) /\ Merged(nodes) = f[Len(nodes)]
  <1>1. Len(nodes) \in Nat
    OBVIOUS
  <1>2. \E f : MergesUpto(f, nodes, Len(nodes))
    BY <1>1, MergesExists, Zenon
  <1> DEFINE f == CHOOSE f : MergesUpto(f, nodes, Len(nodes))
  <1>3. MergesUpto(f, nodes, Len(nodes))
    BY <1>2, Zenon
  <1>4. Merged(nodes) = f[Len(nodes)]
    BY Zenon DEF Merged, MergesUpto, NothingMerged
  <1> QED
    BY <1>3, <1>4, Zenon

\* A list of sections: the entries of all of them, the last of their keys.
HasEntries(merged, nodes, n) ==
    \A x : x \in Range(merged.items) <=> \E i \in 1..n : x \in Range(nodes[i].items)
HasLastKey(merged, nodes, n) ==
    \/ merged.key = Unset /\ \A i \in 1..n : nodes[i].key = Unset
    \/ \E i \in 1..n : /\ nodes[i].key # Unset /\ merged.key = nodes[i].key
                       /\ \A j \in 1..n : nodes[j].key # Unset => j <= i

LEMMA RangeConcat ==
    ASSUME NEW s \in Seq(STRING), NEW t \in Seq(STRING), NEW x
    PROVE  x \in Range(s \o t) <=> x \in Range(s) \/ x \in Range(t)
  <1>1. /\ s \o t \in Seq(STRING) /\ Len(s \o t) = Len(s) + Len(t)
        /\ Len(s) \in Nat /\ Len(t) \in Nat
        /\ \A i \in 1..Len(s) : (s \o t)[i] = s[i]
        /\ \A i \in 1..Len(t) : (s \o t)[Len(s) + i] = t[i]
        /\ DOMAIN (s \o t) = 1..Len(s \o t) /\ DOMAIN s = 1..Len(s) /\ DOMAIN t = 1..Len(t)
    OBVIOUS
  <1> DEFINE u == s \o t
  <1> HIDE DEF u
  <1>2. /\ Len(u) = Len(s) + Len(t) /\ DOMAIN u = 1..Len(u)
        /\ \A i \in 1..Len(s) : u[i] = s[i]
        /\ \A i \in 1..Len(t) : u[Len(s) + i] = t[i]
    BY <1>1, Zenon DEF u
  <1>3. ASSUME NEW i \in 1..Len(u)
        PROVE  i \in 1..Len(s) \/ (i - Len(s) \in 1..Len(t) /\ Len(s) + (i - Len(s)) = i)
    BY <1>1, <1>2
  <1>4. \A i \in 1..Len(s) : i \in 1..Len(u)
    BY <1>1, <1>2
  <1>5. \A i \in 1..Len(t) : Len(s) + i \in 1..Len(u)
    BY <1>1, <1>2
  <1>6. x \in Range(u) => x \in Range(s) \/ x \in Range(t)
    <2> SUFFICES ASSUME NEW i \in 1..Len(u), x = u[i] PROVE x \in Range(s) \/ x \in Range(t)
      BY <1>2, Zenon DEF Range
    <2>1. CASE i \in 1..Len(s)
      BY <1>1, <1>2, <2>1, Zenon DEF Range
    <2>2. CASE i - Len(s) \in 1..Len(t) /\ Len(s) + (i - Len(s)) = i
      <3>1. u[i] = t[i - Len(s)]
        BY <1>2, <2>2
      <3> QED
        BY <1>1, <2>2, <3>1, Zenon DEF Range
    <2> QED
      BY <1>3, <2>1, <2>2, Zenon
  <1>7. x \in Range(s) => x \in Range(u)
    BY <1>1, <1>2, <1>4, Zenon DEF Range
  <1>8. x \in Range(t) => x \in Range(u)
    <2> SUFFICES ASSUME NEW i \in 1..Len(t), x = t[i] PROVE x \in Range(u)
      BY <1>1, Zenon DEF Range
    <2>1. Len(s) + i \in DOMAIN u /\ u[Len(s) + i] = x
      BY <1>2, <1>5, Zenon
    <2> QED
      BY <2>1, Zenon DEF Range
  <1> QED
    BY <1>6, <1>7, <1>8, Zenon DEF u

LEMMA MergeStep ==
    ASSUME NEW nodes \in Seq(Node), NEW n \in 1..Len(nodes),
           NEW a, a.items \in Seq(STRING), HasEntries(a, nodes, n - 1), HasLastKey(a, nodes, n - 1)
    PROVE  /\ merge_nodes(a, nodes[n]).items \in Seq(STRING)
           /\ HasEntries(merge_nodes(a, nodes[n]), nodes, n)
           /\ HasLastKey(merge_nodes(a, nodes[n]), nodes, n)
  <1> DEFINE b == nodes[n]
             c == merge_nodes(a, b)
  <1>1. b \in Node
    OBVIOUS
  <1>2. b.items \in Seq(STRING)
    BY <1>1 DEF Node
  <1>3. c.items = a.items \o b.items /\ c.key = IF b.key = Unset THEN a.key ELSE b.key
    BY Zenon DEF merge_nodes
  <1>4. n \in Nat /\ n - 1 \in Nat /\ 1..n = 1..(n - 1) \cup {n} /\ \A i \in 1..n - 1 : i <= n /\ ~(n <= i)
    OBVIOUS
  <1>5. c.items \in Seq(STRING)
    <2>1. \A s, t \in Seq(STRING) : s \o t \in Seq(STRING)
      OBVIOUS
    <2> QED
      BY <1>2, <1>3, <2>1, Zenon
  <1>6. HasEntries(c, nodes, n)
    <2>1. \A x : x \in Range(c.items) <=> x \in Range(a.items) \/ x \in Range(b.items)
      BY <1>2, <1>3, RangeConcat, Zenon
    <2> HIDE DEF c
    <2> QED
      BY <1>4, <2>1, Zenon DEF HasEntries
  <1>7. HasLastKey(c, nodes, n)
    <2>1. CASE b.key = Unset
      <3>1. c.key = a.key
        BY <1>3, <2>1, Zenon
      <3> HIDE DEF c
      <3> QED
        BY <1>4, <2>1, <3>1, Zenon DEF HasLastKey
    <2>2. CASE b.key # Unset
      <3>1. c.key = b.key
        BY <1>3, <2>2, Zenon
      <3>2. n \in 1..n /\ \A j \in 1..n : j <= n
        OBVIOUS
      <3> HIDE DEF c
      <3> QED
        BY <2>2, <3>1, <3>2, Zenon DEF HasLastKey
    <2> QED
      BY <2>1, <2>2, Zenon
  <1> QED
    BY <1>5, <1>6, <1>7, Zenon

\* BanjaxFilter's constructor loses nothing of the sections.
LEMMA MergedAll ==
    ASSUME NEW nodes \in Seq(Node)
    PROVE  /\ HasEntries(Merged(nodes), nodes, Len(nodes))
           /\ HasLastKey(Merged(nodes), nodes, Len(nodes))
  <1> DEFINE L == Len(nodes)
             Good(a, n) == /\ a.items \in Seq(STRING)
                           /\ HasEntries(a, nodes, n) /\ HasLastKey(a, nodes, n)
  <1>1. PICK f : MergesUpto(f, nodes, L) /\ Merged(nodes) = f[L]
    BY MergedSteps, Zenon
  <1>2. L \in Nat
    OBVIOUS
  <1> HIDE DEF L
  <1>3. 0 \in 0..L /\ L \in 0..L /\ \A n \in 1..L : n \in 0..L /\ n # 0 /\ n \in Nat
    BY <1>2
  <1>4. f[0] = NothingMerged /\ \A n \in 1..L : f[n] = merge_nodes(f[n - 1], nodes[n])
    BY <1>1, <1>3, Zenon DEF MergesUpto
  <1>5. Good(f[0], 0)
    <2>1. f[0].items = << >> /\ f[0].key = Unset /\ f[0].items \in Seq(STRING)
      <3>1. << >> \in Seq(STRING)
        BY SMT
      <3>2. NothingMerged.items = << >> /\ NothingMerged.key = Unset
        BY Zenon DEF NothingMerged
      <3> QED
        BY <1>4, <3>1, <3>2, Zenon
    <2>2. \A x : x \notin Range(f[0].items)
      BY <2>1 DEF Range
    <2>3. \A i : i \notin 1..0
      OBVIOUS
    <2> QED
      BY <2>1, <2>2, <2>3, Zenon DEF HasEntries, HasLastKey
  <1> DEFINE T == {n \in 0..L : ~Good(f[n], n)}
  <1>6. T = {}
    <2> SUFFICES ASSUME T # {} PROVE FALSE
      OBVIOUS
    <2>1. T \in SUBSET Nat
      BY <1>2
    <2>2. PICK k \in T : \A n \in T : k <= n
      BY <2>1, LeastElement
    <2>3. k \in 0..L /\ ~Good(f[k], k)
      BY <2>2, Zenon
    <2>4. k # 0
      BY <1>5, <2>3, Zenon
    <2>5. k \in 1..L /\ k - 1 \in 0..L /\ ~(k <= k - 1)
      BY <1>2, <2>3, <2>4
    <2>6. Good(f[k - 1], k - 1)
      BY <2>2, <2>5, Zenon
    <2>7. Good(f[k], k)
      BY <1>4, <2>5, <2>6, MergeStep, Zenon DEF L
    <2> QED
      BY <2>3, <2>7, Zenon
  <1>7. Good(f[L], L)
    BY <1>3, <1>6, Zenon
  <1> QED
    BY <1>1, <1>7, Zenon DEF L

\* What a filter is given has everything that the nodes say of it.
SaysAll(cfg, nodes, f) ==
    /\ \A x : x \in Range(cfg.items) <=>
          \E k \in 1..Len(nodes) : nodes[k].name = f /\ x \in Range(nodes[k].items)
    /\ \/ cfg.key = Unset /\ \A k \in 1..Len(nodes) : nodes[k].name = f => nodes[k].key = Unset
       \/ \E k \in 1..Len(nodes) :
             /\ nodes[k].name = f /\ nodes[k].key # Unset /\ cfg.key = nodes[k].key
             /\ \A l \in 1..Len(nodes) : nodes[l].name = f /\ nodes[l].key # Unset => l <= k

LEMMA AllMerged ==
    ASSUME NEW nodes \in Seq(Node), NEW list \in Seq(Node), NEW f, HasAll(list, nodes, f)
    PROVE  SaysAll(Merged(list), nodes, f)
  <1> DEFINE cfg == Merged(list)
  <1>1. HasEntries(cfg, list, Len(list)) /\ HasLastKey(cfg, list, Len(list))
    BY MergedAll, Zenon
  <1>2. PICK pos : InPlace(list, nodes, f, pos)
    BY Zenon DEF HasAll
  <1> HIDE DEF cfg
  <1>3. \A i \in 1..Len(list) : pos[i] \in 1..Len(nodes) /\ nodes[pos[i]] = list[i] /\ nodes[pos[i]].name = f
    BY <1>2, Zenon DEF InPlace
  <1>4. \A k \in 1..Len(nodes) : nodes[k].name = f => \E i \in 1..Len(list) : pos[i] = k /\ list[i] = nodes[k]
    <2>1. \A k \in 1..Len(nodes) : nodes[k].name = f => \E i \in 1..Len(list) : pos[i] = k
      BY <1>2, Zenon DEF InPlace
    <2>2. \A i \in 1..Len(list) : nodes[pos[i]] = list[i]
      BY <1>3, Zenon
    <2> QED
      BY <2>1, <2>2, Zenon
  <1>5. ASSUME NEW i \in 1..Len(list), NEW j \in 1..Len(list), j <= i PROVE pos[j] <= pos[i]
    <2>1. i \in Nat /\ j \in Nat /\ pos[i] \in Nat /\ pos[j] \in Nat
      BY <1>3
    <2>2. j < i => pos[j] < pos[i]
      BY <1>2, Zenon DEF InPlace
    <2>3. j = i \/ j < i
      BY <1>5, <2>1
    <2> QED
      BY <2>1, <2>2, <2>3
  <1>6. \A x : x \in Range(cfg.items) <=>
            \E k \in 1..Len(nodes) : nodes[k].name = f /\ x \in Range(nodes[k].items)
    <2>1. ASSUME NEW x, x \in Range(cfg.items)
          PROVE  \E k \in 1..Len(nodes) : nodes[k].name = f /\ x \in Range(nodes[k].items)
      <3>1. PICK i \in 1..Len(list) : x \in Range(list[i].items)
        BY <1>1, <2>1, Zenon DEF HasEntries
      <3> QED
        BY <1>3, <3>1, Zenon
    <2>2. ASSUME NEW x, NEW k \in 1..Len(nodes), nodes[k].name = f, x \in Range(nodes[k].items)
          PROVE  x \in Range(cfg.items)
      <3>1. PICK i \in 1..Len(list) : list[i] = nodes[k]
        BY <1>4, <2>2, Zenon
      <3> QED
        BY <1>1, <2>2, <3>1, Zenon DEF HasEntries
    <2> QED
      BY <2>1, <2>2, Zenon
  <1>7. CASE cfg.key = Unset /\ \A i \in 1..Len(list) : list[i].key = Unset
    <2>1. \A k \in 1..Len(nodes) : nodes[k].name = f => nodes[k].key = Unset
      <3> SUFFICES ASSUME NEW k \in 1..Len(nodes), nodes[k].name = f PROVE nodes[k].key = Unset
        BY Zenon
      <3>1. PICK i \in 1..Len(list) : list[i] = nodes[k]
        BY <1>4, Zenon
      <3>2. list[i].key = Unset
        BY <1>7, Zenon
      <3> QED
        BY <3>1, <3>2, Zenon
    <2> QED
      BY <1>6, <1>7, <2>1, Zenon DEF cfg, SaysAll
  <1>8. CASE \E i \in 1..Len(list) : /\ list[i].key # Unset /\ cfg.key = list[i].key
                                     /\ \A j \in 1..Len(list) : list[j].key # Unset => j <= i
    <2>1. PICK i \in 1..Len(list) : /\ list[i].key # Unset /\ cfg.key = list[i].key
                                    /\ \A j \in 1..Len(list) : list[j].key # Unset => j <= i
      BY <1>8, Zenon
    <2>2. ASSUME NEW l \in 1..Len(nodes), nodes[l].name = f, nodes[l].key # Unset
          PROVE  l <= pos[i]
      <3>1. PICK j \in 1..Len(list) : pos[j] = l /\ list[j] = nodes[l]
        BY <1>4, <2>2, Zenon
      <3>2. j <= i
        BY <2>1, <2>2, <3>1, Zenon
      <3> QED
        BY <1>5, <3>1, <3>2, Zenon
    <2>3. \E k \in 1..Len(nodes) :
              /\ nodes[k].name = f /\ nodes[k].key # Unset /\ cfg.key = nodes[k].key
              /\ \A l \in 1..Len(nodes) : nodes[l].name = f /\ nodes[l].key # Unset => l <= k
      BY <1>3, <2>1, <2>2, Zenon
    <2> QED
      BY <1>6, <2>3, Zenon DEF cfg, SaysAll
  <1> QED
    BY <1>1, <1>7, <1>8, Zenon DEF HasLastKey

LEMMA WholeIsMerged ==
    ASSUME ConfigurationInvariant, WholeInvariant
    PROVE  MergedWhole
  <1> SUFFICES ASSUME phase = "ready" PROVE MergedWhole
    BY Zenon DEF MergedWhole
  <1> DEFINE walk == Walk(contents, contents[MainFile])
             fcm == filter_config_map
             Of(f) == {k \in DOMAIN walk : walk[k].name = f}
             Entries(f) == UNION {Range(walk[k].items) : k \in Of(f)}
             Set(f) == {k \in Of(f) : walk[k].key # Unset}
             IsLastKey(f, key) ==
                 \/ Set(f) = {} /\ key = Unset
                 \/ \E k \in Set(f) : key = walk[k].key /\ \A l \in Set(f) : l <= k
  <1>1. walk = ReadNodes /\ walk \in Seq(Node)
    BY AllRead, Zenon DEF WholeInvariant
  <1>2. DOMAIN walk = 1..Len(walk)
    BY <1>1
  <1>3. /\ \A k \in 1..Len(walk) : walk[k].name \in AllFilters => walk[k].name \in DOMAIN fcm
        /\ \A f \in DOMAIN fcm : /\ HasAll(fcm[f].config_node_list, walk, f)
                                 /\ \E k \in 1..Len(walk) : walk[k].name = f
    BY <1>1, Zenon DEF WholeInvariant, FilterSections
  <1> HIDE DEF walk
  <1>4. /\ DOMAIN fcm \subseteq AllFilters
        /\ \A f \in DOMAIN fcm : fcm[f].config_node_list \in Seq(Node)
    BY DEF ConfigurationInvariant, ReadingInvariant, ReadingTyped, SectionType
  <1>5. /\ \E S : built \in Seq(S)
        /\ \A i \in 1..Len(built) : built[i].name \in DOMAIN fcm
    BY Zenon DEF ConfigurationInvariant, BuiltInOrder, Numbered
  <1>6. DOMAIN built = 1..Len(built)
    BY <1>5
  <1>7. /\ DOMAIN fcm \subseteq Range(priority_map) /\ Range(priority_map) \subseteq Names(built)
        /\ \A i \in 1..Len(built) : built[i].cfg = Merged(fcm[built[i].name].config_node_list)
        /\ \A x : x \in white_list <=>
              \E i \in 1..Len(built) : built[i].name = "white_lister" /\ x \in Range(built[i].cfg.items)
    BY DEF WholeInvariant, FiltersMerged
  <1> HIDE DEF fcm
  <1>8. \A f \in DOMAIN fcm : \E i \in 1..Len(built) : built[i].name = f
    BY <1>6, <1>7, Zenon DEF Names
  <1>9. Names(built) = {walk[k].name : k \in DOMAIN walk} \cap AllFilters
    <2>1. ASSUME NEW f \in Names(built) PROVE f \in {walk[k].name : k \in DOMAIN walk} \cap AllFilters
      <3>1. f \in DOMAIN fcm
        BY <1>5, <1>6, Zenon DEF Names
      <3>2. PICK k \in 1..Len(walk) : walk[k].name = f
        BY <1>3, <3>1, Zenon
      <3> QED
        BY <1>2, <1>4, <3>1, <3>2, Zenon
    <2>2. ASSUME NEW f \in {walk[k].name : k \in DOMAIN walk} \cap AllFilters PROVE f \in Names(built)
      BY <1>2, <1>3, <1>7, <2>2, Zenon
    <2> QED
      BY <2>1, <2>2, Zenon
  <1>10. ASSUME NEW i \in DOMAIN built
         PROVE  /\ \A x : x \in Range(built[i].cfg.items) <=>
                      \E k \in 1..Len(walk) : walk[k].name = built[i].name /\ x \in Range(walk[k].items)
                /\ IsLastKey(built[i].name, built[i].cfg.key)
    <2> DEFINE f == built[i].name
               list == fcm[f].config_node_list
               key == built[i].cfg.key
    <2>1. f \in DOMAIN fcm /\ built[i].cfg = Merged(list)
      BY <1>5, <1>6, <1>7, Zenon
    <2>2. list \in Seq(Node) /\ HasAll(list, walk, f)
      BY <1>3, <1>4, <2>1, Zenon
    <2> HIDE DEF f, list
    <2>3. /\ \A x : x \in Range(Merged(list).items) <=>
                \E k \in 1..Len(walk) : walk[k].name = f /\ x \in Range(walk[k].items)
          /\ \/ Merged(list).key = Unset /\ \A k \in 1..Len(walk) : walk[k].name = f => walk[k].key = Unset
             \/ \E k \in 1..Len(walk) :
                   /\ walk[k].name = f /\ walk[k].key # Unset /\ Merged(list).key = walk[k].key
                   /\ \A l \in 1..Len(walk) : walk[l].name = f /\ walk[l].key # Unset => l <= k
      <3>1. SaysAll(Merged(list), walk, f)
        BY <1>1, <2>2, AllMerged, Zenon
      <3> QED
        BY <3>1, Zenon DEF SaysAll
    <2>4. key = Merged(list).key
      BY <2>1, Zenon
    <2> HIDE DEF key
    <2>5. \A k : k \in Set(f) <=> k \in 1..Len(walk) /\ walk[k].name = f /\ walk[k].key # Unset
      BY <1>2, Zenon
    <2>6. IsLastKey(f, key)
      <3> HIDE DEF Set
      <3>1. CASE Merged(list).key = Unset /\ \A k \in 1..Len(walk) : walk[k].name = f => walk[k].key = Unset
        BY <2>4, <2>5, <3>1, Zenon
      <3>2. CASE \E k \in 1..Len(walk) :
                   /\ walk[k].name = f /\ walk[k].key # Unset /\ Merged(list).key = walk[k].key
                   /\ \A l \in 1..Len(walk) : walk[l].name = f /\ walk[l].key # Unset => l <= k
        <4>1. PICK k \in 1..Len(walk) :
                   /\ walk[k].name = f /\ walk[k].key # Unset /\ Merged(list).key = walk[k].key
                   /\ \A l \in 1..Len(walk) : walk[l].name = f /\ walk[l].key # Unset => l <= k
          BY <3>2, Zenon
        <4>2. k \in Set(f) /\ key = walk[k].key /\ \A l \in Set(f) : l <= k
          BY <2>4, <2>5, <4>1, Zenon
        <4> QED
          BY <4>2, Zenon
      <3> QED
        BY <2>3, <3>1, <3>2, Zenon
    <2> HIDE DEF IsLastKey
    <2> QED
      BY <2>1, <2>3, <2>6, Zenon DEF f, key
  <1>11. \A f, x : x \in Entries(f) <=> \E k \in 1..Len(walk) : walk[k].name = f /\ x \in Range(walk[k].items)
    BY <1>2, Zenon
  <1> HIDE DEF Entries, IsLastKey
  <1>12. \A i \in DOMAIN built : Range(built[i].cfg.items) = Entries(built[i].name)
    <2> SUFFICES ASSUME NEW i \in DOMAIN built PROVE Range(built[i].cfg.items) = Entries(built[i].name)
      BY Zenon
    <2>1. \A x : x \in Range(built[i].cfg.items) <=> x \in Entries(built[i].name)
      BY <1>10, <1>11, Zenon
    <2> QED
      BY <2>1
  <1>13. white_list = Entries("white_lister")
    <2>1. ASSUME NEW x, x \in white_list PROVE x \in Entries("white_lister")
      BY <1>6, <1>7, <1>12, <2>1, Zenon
    <2>2. ASSUME NEW x, x \in Entries("white_lister") PROVE x \in white_list
      <3>1. PICK k \in 1..Len(walk) : walk[k].name = "white_lister" /\ x \in Range(walk[k].items)
        BY <1>11, <2>2, Zenon
      <3>2. "white_lister" \in AllFilters
        BY SMTT(30) DEF AllFilters, FilterNames, Range
      <3>3. PICK i \in 1..Len(built) : built[i].name = "white_lister"
        BY <1>3, <1>8, <3>1, <3>2, Zenon
      <3>4. Range(built[i].cfg.items) = Entries("white_lister")
        BY <1>6, <1>12, <3>3, Zenon
      <3> QED
        BY <1>7, <2>2, <3>3, <3>4, Zenon
    <2>3. \A x : x \in white_list <=> x \in Entries("white_lister")
      BY <2>1, <2>2, Zenon
    <2> QED
      BY <2>3
  <1>14. /\ Names(built) = {walk[k].name : k \in DOMAIN walk} \cap AllFilters
         /\ \A i \in DOMAIN built : /\ Range(built[i].cfg.items) = Entries(built[i].name)
                                    /\ IsLastKey(built[i].name, built[i].cfg.key)
         /\ white_list = Entries("white_lister")
    BY <1>9, <1>10, <1>12, <1>13, Zenon
  <1> QED
    BY <1>14, Zenon DEF MergedWhole, walk, Entries, IsLastKey

(* Every filter that the walk through the files meets is built, from all of  *)
(* its sections in the order of the walk, and the white list is whole, for   *)
(* any files that do not include themselves (process_config, BanjaxFilter's  *)
(* constructor, build_filters).                                              *)
THEOREM SectionsMerged == ServerSpec => []MergedWhole
<1>1. ConfigurationInvariant /\ WholeInvariant => MergedWhole
  BY WholeIsMerged, Zenon
<1> QED
  BY <1>1, WholeSafe, PTL
=============================================================================
