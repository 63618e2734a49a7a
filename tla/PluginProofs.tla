---------------------------- MODULE PluginProofs ----------------------------
(***************************************************************************)
(* What holds across reloads, for any number of transactions and reloads:  *)
(* TypeOK, ConsumerTargetsBuilt, HandedOver and FreedWhenUnused of Plugin. *)
(***************************************************************************)
EXTENDS Plugin, FiniteSetTheorems, TLAPS

-----------------------------------------------------------------------------
(* The inductive invariant                                                 *)

\* Where reload_config is before it assigns current_state.
Preparing == {"release_swabber", "release_sniffer", "construct", "build", "kafka",
              "store", "join", "swap_ptr"}

\* The two words of current_state name the old or the new instance.
Place ==
    /\ reloader.pc # "idle" => reloader.new - 1 \in Instances
    /\ current.ptr = IF reloader.pc \in Preparing THEN reloader.new - 1 ELSE reloader.new
    /\ current.ctrl = IF reloader.pc \in Preparing \cup {"swap_ctrl"}
                      THEN reloader.new - 1 ELSE reloader.new

\* Instances are born one after the other.
Unborn(i) == \/ i > reloader.new
             \/ /\ i = reloader.new
                /\ reloader.pc \in {"release_swabber", "release_sniffer", "construct"}
Born == \A i \in Instances :
            /\ life[i] = "unborn" <=> Unborn(i)
            /\ life[i] = "building" <=> i = reloader.new /\ reloader.pc = "build"

\* The control blocks that count a reference of the plugin itself.
Owners == {current.ctrl} \cup (IF reloader.pc = "swap_ctrl" THEN {reloader.new} ELSE {})
                         \cup (IF reloader.pc = "drop" THEN {reloader.new - 1} ELSE {})
\* new_banjax holds an instance that nobody else knows yet.
Fresh(i) == i > reloader.new \/ (i = reloader.new /\ reloader.pc \in Preparing)
Kept == Owners \cup (IF reloader.pc \in {"kafka", "store", "join", "swap_ptr"}
                     THEN {reloader.new} ELSE {})
Alive == \A i \in Kept : life[i] = "built"

\* use_count is the number of transactions that hold the instance, plus one
\* for the plugin.
Holders(i) == {t \in Transactions : txn[t].pc \in Holding /\ txn[t].ctrl = i}
Counts(i) ==
    /\ IsFiniteSet(Holders(i))
    /\ refs[i] = Cardinality(Holders(i)) + (IF i \in Owners THEN 1 ELSE 0)
    /\ refs[i] = 0 <=> life[i] = "destroyed" \/ Fresh(i)
Counted == ~undefined => \A i \in Instances : Counts(i)

\* A transaction has read a pointer to an instance that was current.
Pointers == \A t \in Transactions :
    /\ txn[t].pc # "idle" => txn[t].ptr \in Instances
    /\ txn[t].pc \in {"add_ref"} \cup Holding => txn[t].ctrl \in Instances /\ ~Fresh(txn[t].ctrl)

\* The consumer works for the instance whose turn it is.
Target == IF reloader.pc \in {"idle", "swap_ptr", "swap_ctrl", "drop"}
          THEN reloader.new ELSE reloader.new - 1
Consumes ==
    /\ consumer.pc # "none" => consumer.banjax = Target
    /\ reloader.pc # "join" => /\ consumer.pc # "none" <=> conf[Target].kafka
                               /\ consumer.pc # "none" => ~consumer.shutting_down
    /\ reloader.pc = "join" => ~conf[reloader.new].kafka
    /\ reloader.pc = "store" => conf[reloader.new].kafka /\ consumer.pc # "none"

\* One bound socket, with the swabber whose turn it is or on its way.
Owner == IF reloader.pc = "release_swabber" THEN reloader.new - 1
         ELSE IF reloader.pc \in {"release_sniffer", "construct"} THEN 0 ELSE reloader.new
Bans == /\ \A i \in Instances : swabber_socket[i] = IF i = Owner THEN "bound" ELSE "none"
        /\ reloader.pc \in {"release_sniffer", "construct"} => hand.swabber = "bound"

PluginInvariant == Place /\ Born /\ Alive /\ Counted /\ Pointers /\ Consumes /\ Bans
-----------------------------------------------------------------------------
(* Types                                                                   *)

LEMMA TypeInit == Init => TypeOK
<1> SUFFICES ASSUME Init PROVE TypeOK
  OBVIOUS
<1>0. PICK first \in Config : BanjaxPlugin(first)
  BY DEF Init
<1>1. 1 \in Instances
  BY PluginAssumption DEF Instances
<1>2. /\ life \in [Instances -> {"unborn", "building", "built", "destroyed"}]
      /\ conf \in [Instances -> Config]
      /\ refs \in [Instances -> Nat]
      /\ current \in [ptr : Instances, ctrl : Instances]
  BY <1>0, <1>1 DEF BanjaxPlugin
<1>3. /\ {swabber_socket, sniffer_socket, parked} \subseteq [Instances -> Socket]
      /\ hand \in [swabber : Socket, sniffer : Socket]
      /\ sniffer_mutex \in [Instances -> Transactions \cup {Nobody}]
  BY <1>0 DEF BanjaxPlugin, Socket
<1>4. reloader \in [pc : ReloaderPc, new : Instances] /\ reloader.pc = "idle"
  BY <1>0, <1>1 DEF BanjaxPlugin, ReloaderPc
<1>5. txn \in [Transactions -> [pc : TxnPc, ptr : Instances \cup {0}, ctrl : Instances \cup {0}]]
  BY <1>0 DEF BanjaxPlugin, TxnPc, NoTransaction
<1>6. /\ consumer \in [pc : ConsumerPc, banjax : Instances \cup {0},
                       loaded : Instances \cup {0}, config_valid : BOOLEAN, shutting_down : BOOLEAN]
      /\ consumer.pc # "dispatch"
  BY <1>0, <1>1, Zenon DEF BanjaxPlugin, ConsumerPc, NoConsumer, NewConsumer
<1> QED
  BY <1>0, <1>2, <1>3, <1>4, <1>5, <1>6, PluginAssumption, Zenon DEF BanjaxPlugin, TypeOK

\* A reference that goes away leaves the types alone.
LEMMA TypeDropRef ==
    ASSUME TypeOK, NEW i, DropRef(i)
    PROVE  /\ life' \in [Instances -> {"unborn", "building", "built", "destroyed"}]
           /\ refs' \in [Instances -> Nat]
           /\ {swabber_socket, sniffer_socket, parked}' \subseteq [Instances -> Socket]
<1>1. refs' \in [Instances -> Nat]
  <2>1. refs \in [Instances -> Nat] /\ refs' = [refs EXCEPT ![i] = @ - 1]
    BY DEF TypeOK, DropRef
  <2>2. CASE i \in Instances
    <3>1. refs[i] \in Nat /\ (refs[i] = 1 \/ refs[i] > 1)
      BY <2>1, <2>2 DEF DropRef
    <3>2. refs[i] - 1 \in Nat
      BY <3>1
    <3> QED
      BY <2>1, <3>2, Zenon
  <2>3. CASE i \notin Instances
    BY <2>1, <2>3, Zenon
  <2> QED
    BY <2>2, <2>3
<1>2. CASE Destroy(i)
  <2>1. /\ life \in [Instances -> {"unborn", "building", "built", "destroyed"}]
        /\ swabber_socket \in [Instances -> Socket]
        /\ sniffer_socket \in [Instances -> Socket]
        /\ parked \in [Instances -> Socket]
    BY DEF TypeOK
  <2>2. "none" \in Socket
    BY DEF Socket
  <2>3. /\ life' \in [Instances -> {"unborn", "building", "built", "destroyed"}]
        /\ swabber_socket' \in [Instances -> Socket]
        /\ sniffer_socket' \in [Instances -> Socket]
        /\ parked' \in [Instances -> Socket]
    BY <1>2, <2>1, <2>2, Zenon DEF Destroy
  <2> QED
    BY <1>1, <2>3
<1>3. CASE UNCHANGED <<life, sockets>>
  BY <1>1, <1>3 DEF TypeOK, sockets
<1> QED
  BY <1>2, <1>3 DEF DropRef

LEMMA TypeReload ==
    ASSUME TypeOK, ReloadLock \/ ReloadStep
    PROVE  TypeOK'
<1>1. CASE ReloadLock
  BY <1>1, PluginAssumption, SMTT(30) DEF TypeOK, ReloadLock, Instances, ReloaderPc, sockets
<1>2. CASE ReleaseSwabberSocket
  BY <1>2, PluginAssumption DEF TypeOK, ReleaseSwabberSocket, ReloaderPc, ReloadGoto, Taken, Socket
<1>3. CASE ReleaseSnifferSocket
  BY <1>3, PluginAssumption DEF TypeOK, ReleaseSnifferSocket, ReloaderPc, ReloadGoto, Socket
<1>4. ASSUME NEW c \in Config, Construct(c) PROVE TypeOK'
  BY <1>4, PluginAssumption DEF TypeOK, Construct, ReloaderPc, ReloadGoto, Socket
<1>5. CASE BuildFilters
  BY <1>5, PluginAssumption DEF TypeOK, BuildFilters, ReloaderPc, ReloadGoto, Socket, Bound
<1>6. CASE KafkaReset
  BY <1>6, PluginAssumption, ZenonT(40) DEF TypeOK, KafkaReset, ReloaderPc, ReloadGoto, sockets
<1>7. CASE KafkaJoin
  BY <1>7, PluginAssumption DEF TypeOK, KafkaJoin, ReloaderPc, ReloadGoto, NoConsumer, ConsumerPc, sockets
<1>8. CASE KafkaConstruct
  BY <1>8, PluginAssumption, Zenon DEF TypeOK, KafkaConstruct, ReloaderPc, ReloadGoto, NewConsumer, NoConsumer, ConsumerPc, sockets
<1>9. CASE KafkaLock
  BY <1>9, PluginAssumption DEF TypeOK, KafkaLock, ReloaderPc, ReloadGoto, sockets
<1>10. CASE KafkaStore
  BY <1>10, PluginAssumption, Zenon DEF TypeOK, KafkaStore, ReloaderPc, ReloadGoto, Reloaded, sockets
<1>11. CASE SwapPtr
  BY <1>11, PluginAssumption DEF TypeOK, SwapPtr, ReloaderPc, ReloadGoto, sockets
<1>12. CASE SwapCtrl
  BY <1>12, PluginAssumption DEF TypeOK, SwapCtrl, ReloaderPc, ReloadGoto, sockets
<1>13. CASE ReloadDone
  <2>1. DropRef(reloader.new - 1)
    BY <1>13 DEF ReloadDone, DropOld
  <2> QED
    BY <1>13, <2>1, TypeDropRef, PluginAssumption, SMTT(30)
    DEF TypeOK, ReloadDone, ReloaderPc, ReloadGoto, UnlockReload
<1> QED
  BY <1>1, <1>2, <1>3, <1>4, <1>5, <1>6, <1>7, <1>8, <1>9, <1>10, <1>11, <1>12, <1>13 DEF ReloadStep

\* What a transaction may remember of itself.
TxnType == [Transactions -> [pc : TxnPc, ptr : Instances \cup {0}, ctrl : Instances \cup {0}]]

LEMMA TypeTxn ==
    ASSUME txn \in TxnType, NEW t \in Transactions, NEW pc \in TxnPc
    PROVE  /\ [txn EXCEPT ![t].pc = pc] \in TxnType
           /\ \A i \in Instances : [txn EXCEPT ![t].pc = pc, ![t].ctrl = i] \in TxnType
  BY Zenon DEF TxnType

LEMMA TypeTransaction ==
    ASSUME TypeOK, NEW t \in Transactions, ReadPtr(t) \/ TxnStep(t)
    PROVE  TypeOK'
<1>0. txn \in TxnType
  BY DEF TypeOK, TxnType
<1>1. CASE ReadPtr(t)
  BY <1>1 DEF TypeOK, ReadPtr, TxnPc, sockets
<1>2. CASE ReadCtrl(t)
  <2>1. txn' \in TxnType
    BY <1>0, <1>2, TypeTxn, Zenon DEF TypeOK, ReadCtrl, TxnPc
  <2> QED
    BY <1>2, <2>1 DEF TypeOK, ReadCtrl, sockets, TxnType
<1>3. CASE AddRef(t)
  <2>1. txn' \in TxnType
    BY <1>0, <1>3, TypeTxn, Zenon DEF AddRef, TxnGoto, TxnPc
  <2>2. refs' \in [Instances -> Nat]
    BY <1>3 DEF TypeOK, AddRef
  <2> QED
    BY <1>3, <2>1, <2>2, Zenon DEF TypeOK, AddRef, Undefined, sockets, TxnType
<1>4. CASE HandleRequest(t)
  BY <1>4, ZenonT(40) DEF TypeOK, HandleRequest, TxnGoto, TxnPc, Undefined, sockets
<1>5. CASE CloseTry(t)
  <2>1. txn' \in TxnType
    BY <1>0, <1>5, TypeTxn, Zenon DEF CloseTry, TxnGoto, TxnPc
  <2>2. sniffer_mutex' \in [Instances -> Transactions \cup {Nobody}]
    BY <1>5 DEF TypeOK, CloseTry
  <2> QED
    BY <1>5, <2>1, <2>2, Zenon DEF TypeOK, CloseTry, Undefined, sockets, TxnType
<1>6. CASE CloseHeld(t)
  <2>1. txn' \in TxnType
    BY <1>0, <1>6, TypeTxn, Zenon DEF CloseHeld, TxnGoto, TxnPc
  <2>2. sniffer_mutex' \in [Instances -> Transactions \cup {Nobody}]
    BY <1>6 DEF TypeOK, CloseHeld
  <2>3. sniffer_socket' \in [Instances -> Socket]
    BY <1>6 DEF TypeOK, CloseHeld, Rebind, Bound, Socket
  <2> QED
    BY <1>6, <2>1, <2>2, <2>3, Zenon DEF TypeOK, CloseHeld, Undefined, TxnType
<1>7. CASE ReleaseRef(t)
  <2>1. DropRef(txn[t].ctrl)
    BY <1>7 DEF ReleaseRef
  <2> QED
    BY <1>7, <2>1, TypeDropRef DEF TypeOK, ReleaseRef, NoTransaction, TxnPc
<1> QED
  BY <1>1, <1>2, <1>3, <1>4, <1>5, <1>6, <1>7 DEF TxnStep

LEMMA TypeOthers ==
    ASSUME TypeOK, KafkaStep \/ TaskLock \/ TaskDone \/ UNCHANGED vars
    PROVE  TypeOK'
<1>1. CASE LoadStored
  BY <1>1, Zenon DEF TypeOK, LoadStored, ConsumerStep, ConsumerPc, sockets
<1>2. CASE Check
  BY <1>2, SMTT(30) DEF TypeOK, Check, AfterCheck, ConsumerStep, ConsumerPc, sockets
<1>3. CASE Consume
  BY <1>3, PluginAssumption DEF TypeOK, Consume, ConsumerStep, ConsumerPc, sockets
<1>4. CASE Dispatch
  BY <1>4, PluginAssumption DEF TypeOK, Dispatch, ConsumerStep, ConsumerPc, sockets
<1>5. CASE TaskLock
  BY <1>5, PluginAssumption DEF TypeOK, TaskLock, sockets
<1>6. CASE TaskDone
  BY <1>6, PluginAssumption DEF TypeOK, TaskDone, sockets
<1>7. CASE UNCHANGED vars
  BY <1>7 DEF TypeOK, vars, sockets
<1> QED
  BY <1>1, <1>2, <1>3, <1>4, <1>5, <1>6, <1>7 DEF KafkaStep

LEMMA TypeStep == TypeOK /\ [Next]_vars => TypeOK'
  BY TypeReload, TypeTransaction, TypeOthers DEF Next

\* Types, and the reloader holds reload_mutex and stored_config_lock exactly
\* between the statements of reload_config that take and release them.
THEOREM TypeCorrect == Spec => []TypeOK
  BY TypeInit, TypeStep, PTL DEF Spec

-----------------------------------------------------------------------------
(* The initial state                                                       *)

LEMMA InvariantInit == Init => PluginInvariant
<1> SUFFICES ASSUME Init PROVE PluginInvariant
  OBVIOUS
<1>0. PICK first \in Config : BanjaxPlugin(first)
  BY DEF Init
<1>1. 1 \in Instances /\ Instances \subseteq Nat /\ \A i \in Instances : i >= 1
  BY PluginAssumption DEF Instances
<1>2. /\ reloader.pc = "idle" /\ reloader.new = 1 /\ current.ptr = 1 /\ current.ctrl = 1
      /\ \A t \in Transactions : txn[t].pc = "idle"
  BY <1>0 DEF BanjaxPlugin, NoTransaction
<1>3. Place /\ Owners = {1} /\ Kept = {1} /\ Owner = 1 /\ Target = 1
  BY <1>2 DEF Place, Preparing, Owners, Kept, Owner, Target
<1>4. Born /\ Alive
  BY <1>0, <1>1, <1>2, <1>3 DEF BanjaxPlugin, Born, Unborn, Alive
<1>5. Counted
  <2> SUFFICES ASSUME NEW i \in Instances PROVE Counts(i)
    BY DEF Counted
  <2>1. Holders(i) = {}
    BY <1>2 DEF Holders, Holding
  <2>2. IsFiniteSet(Holders(i)) /\ Cardinality(Holders(i)) = 0
    <3>1. IsFiniteSet({}) /\ Cardinality({}) = 0
      BY FS_EmptySet, Zenon
    <3> QED
      BY <2>1, <3>1, Zenon
  <2>3. Fresh(i) <=> i # 1
    BY <1>1, <1>2 DEF Fresh, Preparing
  <2> QED
    BY <1>0, <1>3, <2>2, <2>3 DEF BanjaxPlugin, Counts
<1>6. Pointers
  BY <1>2 DEF Pointers, Holding
<1>7. Consumes
  BY <1>0, <1>1, <1>2, <1>3 DEF BanjaxPlugin, Consumes, NoConsumer, NewConsumer
<1>8. Bans
  BY <1>0, <1>2, <1>3 DEF BanjaxPlugin, Bans
<1> QED
  BY <1>3, <1>4, <1>5, <1>6, <1>7, <1>8 DEF PluginInvariant

-----------------------------------------------------------------------------
(* reload_config                                                           *)

LEMMA Numbers ==
    ASSUME TypeOK
    PROVE  /\ reloader.new \in Nat /\ reloader.new >= 1 /\ reloader.new <= MaxReloads + 1
           /\ Instances \subseteq Nat /\ MaxReloads \in Nat
           /\ \A i \in Nat : i \in Instances <=> i >= 1 /\ i <= MaxReloads + 1
  BY PluginAssumption DEF TypeOK, Instances

LEMMA SameHolders ==
    ASSUME txn' = txn
    PROVE  \A i : Holders(i)' = Holders(i)
  BY DEF Holders

\* The statements that only move sockets and the consumer.
Unmade == {"release_swabber", "release_sniffer", "construct"}
LEMMA QuietReload ==
    ASSUME TypeOK, PluginInvariant, reloader'.new = reloader.new,
           reloader.pc \in Preparing \ {"build"}, reloader'.pc \in Preparing \ {"build"},
           reloader.pc \in Unmade <=> reloader'.pc \in Unmade,
           UNCHANGED <<life, refs, current, txn, undefined>>
    PROVE  Place' /\ Born' /\ Alive' /\ Counted' /\ Pointers'
<1>1. Place /\ Born /\ Alive /\ Counted /\ Pointers
  BY DEF PluginInvariant
<1>2. Place'
  BY <1>1 DEF Place, Preparing
<1>3. \A i : Unborn(i)' <=> Unborn(i)
  BY DEF Unborn, Unmade
<1>4. Born'
  BY <1>1, <1>3 DEF Born
<1>5. Owners' = Owners /\ Kept' = Kept
  BY DEF Owners, Kept, Preparing, Unmade
<1>6. Alive'
  BY <1>1, <1>5 DEF Alive
<1>7. \A i : Fresh(i)' <=> Fresh(i)
  BY DEF Fresh
<1>8. Counted'
  BY <1>1, <1>5, <1>7, SameHolders DEF Counted, Counts
<1>9. Pointers'
  BY <1>1, <1>7 DEF Pointers
<1> QED
  BY <1>2, <1>4, <1>6, <1>8, <1>9

LEMMA QuietReloadStep ==
    ASSUME TypeOK, PluginInvariant,
           \/ ReleaseSwabberSocket \/ ReleaseSnifferSocket
           \/ KafkaReset \/ KafkaJoin \/ KafkaConstruct \/ KafkaLock \/ KafkaStore
    PROVE  PluginInvariant'
<1> DEFINE pc == reloader.pc
           new == reloader.new
<1>0. Place /\ Consumes /\ Bans /\ Alive
  BY DEF PluginInvariant
<1>1. \A x : ReloadGoto(x) => reloader'.pc = x /\ reloader'.new = new
  BY DEF TypeOK, ReloadGoto
<1>2. /\ current.ptr = IF pc \in Preparing THEN new - 1 ELSE new
      /\ new \in Nat /\ new >= 1
  BY <1>0, Numbers DEF Place
<1>3. CASE ReleaseSwabberSocket
  <2>1. /\ pc = "release_swabber" /\ reloader'.pc = "release_sniffer" /\ reloader'.new = new
        /\ UNCHANGED <<life, refs, current, txn, undefined>>
        /\ consumer' = consumer /\ conf' = conf
        /\ hand' = [hand EXCEPT !.swabber = swabber_socket[current.ptr]]
        /\ swabber_socket' = [swabber_socket EXCEPT ![current.ptr] = "none"]
    BY <1>1, <1>3 DEF ReleaseSwabberSocket, Taken
  <2>2. Place' /\ Born' /\ Alive' /\ Counted' /\ Pointers'
    BY <2>1, QuietReload DEF Preparing, Unmade
  <2>3. Consumes'
    BY <1>0, <2>1 DEF Consumes, Target
  <2>4. Bans'
    <3>1. current.ptr = new - 1 /\ current.ptr \in Instances /\ 0 \notin Instances
      BY <1>2, <2>1, Numbers DEF TypeOK, Preparing
    <3>2. Owner = current.ptr /\ Owner' = 0
      BY <2>1, <3>1 DEF Owner
    <3>3. swabber_socket \in [Instances -> Socket] /\ hand \in [swabber : Socket, sniffer : Socket]
      BY DEF TypeOK
    <3>4. swabber_socket[current.ptr] = "bound" /\ hand'.swabber = "bound"
      BY <1>0, <2>1, <3>1, <3>2, <3>3 DEF Bans
    <3>5. \A i \in Instances : swabber_socket'[i] = "none"
      BY <1>0, <2>1, <3>1, <3>2, <3>3 DEF Bans
    <3> QED
      BY <2>1, <3>1, <3>2, <3>4, <3>5 DEF Bans
  <2> QED
    BY <2>2, <2>3, <2>4 DEF PluginInvariant
<1>4. CASE ReleaseSnifferSocket
  <2>1. /\ pc = "release_sniffer" /\ reloader'.pc = "construct" /\ reloader'.new = new
        /\ UNCHANGED <<life, refs, current, txn, undefined>>
        /\ consumer' = consumer /\ conf' = conf /\ hand'.swabber = hand.swabber
        /\ swabber_socket' = swabber_socket
    BY <1>1, <1>4 DEF ReleaseSnifferSocket, TypeOK
  <2>2. Place' /\ Born' /\ Alive' /\ Counted' /\ Pointers'
    BY <2>1, QuietReload DEF Preparing, Unmade
  <2>3. Consumes'
    BY <1>0, <2>1 DEF Consumes, Target
  <2>4. Bans'
    BY <1>0, <2>1 DEF Bans, Owner
  <2> QED
    BY <2>2, <2>3, <2>4 DEF PluginInvariant
<1>5. ASSUME pc \in {"kafka", "join", "store"}, reloader'.pc \in {"join", "store", "swap_ptr"},
             reloader'.new = new, conf' = conf, swabber_socket' = swabber_socket,
             UNCHANGED <<life, refs, current, txn, undefined>>, Consumes'
      PROVE  PluginInvariant'
  <2>1. Place' /\ Born' /\ Alive' /\ Counted' /\ Pointers'
    BY <1>5, QuietReload DEF Preparing, Unmade
  <2>2. Bans'
    BY <1>0, <1>5 DEF Bans, Owner
  <2> QED
    BY <1>5, <2>1, <2>2 DEF PluginInvariant
<1>6. CASE KafkaReset
  <2>1. /\ pc = "kafka" /\ ~conf[new].kafka /\ reloader'.new = new
        /\ \/ consumer.pc = "none" /\ reloader'.pc = "swap_ptr" /\ consumer' = consumer
           \/ reloader'.pc = "join" /\ consumer'.pc = consumer.pc /\ consumer'.banjax = consumer.banjax
        /\ UNCHANGED <<life, refs, current, txn, undefined>> /\ conf' = conf
        /\ swabber_socket' = swabber_socket
    BY <1>1, <1>6 DEF KafkaReset, TypeOK, sockets
  <2>2. Consumes'
    BY <1>0, <2>1 DEF Consumes, Target
  <2> QED
    BY <1>5, <2>1, <2>2
<1>7. CASE KafkaJoin
  <2>1. /\ pc = "join" /\ reloader'.new = new /\ reloader'.pc = "swap_ptr" /\ consumer'.pc = "none"
        /\ UNCHANGED <<life, refs, current, txn, undefined>> /\ conf' = conf
        /\ swabber_socket' = swabber_socket
    BY <1>1, <1>7 DEF KafkaJoin, NoConsumer, sockets
  <2>2. Consumes'
    BY <1>0, <2>1 DEF Consumes, Target
  <2> QED
    BY <1>5, <2>1, <2>2
<1>8. CASE KafkaConstruct
  <2>1. /\ pc = "kafka" /\ reloader'.new = new /\ reloader'.pc = "swap_ptr" /\ conf[new].kafka
        /\ consumer'.pc = "load" /\ consumer'.banjax = new /\ consumer'.shutting_down = FALSE
        /\ UNCHANGED <<life, refs, current, txn, undefined>> /\ conf' = conf
        /\ swabber_socket' = swabber_socket
    BY <1>1, <1>8 DEF KafkaConstruct, NewConsumer, NoConsumer, sockets
  <2>2. Consumes'
    BY <1>0, <2>1 DEF Consumes, Target
  <2> QED
    BY <1>5, <2>1, <2>2
<1>9. CASE KafkaLock
  <2>1. /\ pc = "kafka" /\ reloader'.new = new /\ reloader'.pc = "store" /\ conf[new].kafka
        /\ consumer' = consumer /\ consumer.pc # "none"
        /\ UNCHANGED <<life, refs, current, txn, undefined>> /\ conf' = conf
        /\ swabber_socket' = swabber_socket
    BY <1>1, <1>9 DEF KafkaLock, sockets
  <2>2. Consumes'
    BY <1>0, <2>1 DEF Consumes, Target
  <2> QED
    BY <1>5, <2>1, <2>2
<1>10. CASE KafkaStore
  <2>1. /\ pc = "store" /\ reloader'.new = new /\ reloader'.pc = "swap_ptr"
        /\ consumer'.pc = consumer.pc /\ consumer'.banjax = new
        /\ consumer'.shutting_down = consumer.shutting_down
        /\ UNCHANGED <<life, refs, current, txn, undefined>> /\ conf' = conf
        /\ swabber_socket' = swabber_socket
    BY <1>1, <1>10 DEF KafkaStore, Reloaded, TypeOK, sockets
  <2>2. Consumes'
    BY <1>0, <2>1 DEF Consumes, Target
  <2> QED
    BY <1>5, <2>1, <2>2
<1> QED
  BY <1>3, <1>4, <1>6, <1>7, <1>8, <1>9, <1>10

\* A new instance is numbered.
LEMMA ReloadLockStep ==
    ASSUME TypeOK, PluginInvariant, ReloadLock
    PROVE  PluginInvariant'
<1>0. Place /\ Born /\ Alive /\ Counted /\ Pointers /\ Consumes /\ Bans
  BY DEF PluginInvariant
<1>1. /\ reloader.pc = "idle" /\ reloader.new <= MaxReloads
      /\ reloader'.pc = "release_swabber" /\ reloader'.new = reloader.new + 1
      /\ UNCHANGED <<life, refs, current, txn, undefined>>
      /\ consumer' = consumer /\ conf' = conf /\ swabber_socket' = swabber_socket
  BY DEF ReloadLock, sockets
<1>2. /\ reloader.new \in Instances /\ reloader'.new \in Instances /\ reloader'.new - 1 = reloader.new
      /\ Instances \subseteq Nat
  BY <1>1, Numbers
<1>3. current.ptr = reloader.new /\ current.ctrl = reloader.new
  BY <1>0, <1>1 DEF Place, Preparing
<1>4. Place'
  BY <1>1, <1>2, <1>3 DEF Place, Preparing
<1>5. ASSUME NEW i \in Instances
      PROVE  /\ Unborn(i)' <=> Unborn(i)
             /\ Fresh(i)' <=> Fresh(i)
             /\ i # reloader'.new \/ reloader'.pc # "build"
             /\ i # reloader.new \/ reloader.pc # "build"
  <2>1. i \in Nat /\ reloader.new \in Nat
    BY <1>2, Zenon
  <2>2. i >= reloader.new + 1 <=> i > reloader.new
    BY <2>1
  <2>3. i >= reloader.new + 1 <=> i > reloader.new + 1 \/ i = reloader.new + 1
    BY <2>1
  <2> QED
    BY <1>1, <2>2, <2>3 DEF Unborn, Fresh, Preparing
<1>6. Born'
  BY <1>0, <1>1, <1>5 DEF Born
<1>7. Owners' = Owners /\ Kept' = Kept /\ Owner' = Owner /\ Target' = Target
  BY <1>1, <1>2, <1>3 DEF Owners, Kept, Owner, Target
<1>8. Alive'
  BY <1>0, <1>1, <1>7 DEF Alive
<1>9. Counted'
  <2> SUFFICES ASSUME ~undefined, NEW i \in Instances PROVE Counts(i)'
    BY <1>1 DEF Counted
  <2>1. Counts(i) /\ Holders(i)' = Holders(i) /\ (Fresh(i)' <=> Fresh(i))
    BY <1>0, <1>1, <1>2, <1>5, SameHolders DEF Counted
  <2> QED
    BY <1>1, <1>7, <2>1 DEF Counts
<1>10. Pointers'
  BY <1>0, <1>1, <1>2, <1>5, Zenon DEF Pointers
<1>11. Consumes' /\ Bans'
  BY <1>0, <1>1, <1>7 DEF Consumes, Bans
<1> QED
  BY <1>4, <1>6, <1>8, <1>9, <1>10, <1>11 DEF PluginInvariant

LEMMA ConstructStep ==
    ASSUME TypeOK, PluginInvariant, NEW c \in Config, Construct(c)
    PROVE  PluginInvariant'
<1> DEFINE new == reloader.new
<1>0. Place /\ Born /\ Alive /\ Counted /\ Pointers /\ Consumes /\ Bans
  BY DEF PluginInvariant
<1>1. /\ reloader.pc = "construct" /\ reloader'.pc = "build" /\ reloader'.new = new
      /\ UNCHANGED <<refs, current, txn, undefined>> /\ consumer' = consumer
      /\ life' = [life EXCEPT ![new] = "building"] /\ conf' = [conf EXCEPT ![new] = c]
  BY DEF Construct, ReloadGoto, TypeOK
<1>2. new \in Instances /\ Instances \subseteq Nat /\ new - 1 \in Instances /\ new - 1 # new
  BY <1>0, <1>1, Numbers DEF Place, TypeOK
<1>3. \A i \in Instances : /\ life'[i] = IF i = new THEN "building" ELSE life[i]
                           /\ conf'[i] = IF i = new THEN c ELSE conf[i]
  BY <1>1 DEF TypeOK
<1>4. Place'
  BY <1>0, <1>1 DEF Place, Preparing
<1>5. life[new] = "unborn"
  BY <1>0, <1>1, <1>2, Zenon DEF Born, Unborn
<1>6. \A i \in Instances : Unborn(i)' <=> Unborn(i) /\ i # new
  BY <1>1, <1>2 DEF Unborn
<1>7. Born'
  BY <1>0, <1>1, <1>3, <1>5, <1>6 DEF Born
<1>8. /\ Owners' = Owners /\ Kept' = Kept /\ Target' = Target /\ Target = new - 1
      /\ Kept = {new - 1}
  BY <1>0, <1>1 DEF Owners, Kept, Target, Place, Preparing
<1>9. Alive'
  BY <1>0, <1>2, <1>3, <1>8 DEF Alive
<1>10. \A i : Fresh(i)' <=> Fresh(i)
  BY <1>1 DEF Fresh, Preparing
<1>11. Counted'
  <2> SUFFICES ASSUME ~undefined, NEW i \in Instances PROVE Counts(i)'
    BY <1>1 DEF Counted
  <2>1. Counts(i) /\ Holders(i)' = Holders(i) /\ (Fresh(i)' <=> Fresh(i))
    BY <1>0, <1>1, <1>10, SameHolders DEF Counted
  <2>2. life'[i] = "destroyed" <=> life[i] = "destroyed"
    BY <1>3, <1>5
  <2> QED
    BY <1>1, <1>8, <2>1, <2>2 DEF Counts
<1>12. Pointers'
  BY <1>0, <1>1, <1>10 DEF Pointers
<1>13. Consumes'
  BY <1>0, <1>1, <1>2, <1>3, <1>8 DEF Consumes
<1>14. Bans'
  <2>1. /\ hand.swabber = "bound" /\ \A i \in Instances : swabber_socket[i] = "none"
        /\ swabber_socket \in [Instances -> Socket]
    BY <1>0, <1>1, Numbers DEF Bans, Owner, TypeOK
  <2>2. swabber_socket' = [swabber_socket EXCEPT ![new] = "bound"]
    BY <2>1 DEF Construct
  <2>3. \A i \in Instances : swabber_socket'[i] = IF i = new THEN "bound" ELSE "none"
    BY <2>1, <2>2
  <2> QED
    BY <1>1, <2>3 DEF Bans, Owner
<1> QED
  BY <1>4, <1>7, <1>9, <1>11, <1>12, <1>13, <1>14 DEF PluginInvariant

LEMMA BuildFiltersStep ==
    ASSUME TypeOK, PluginInvariant, BuildFilters
    PROVE  PluginInvariant'
<1> DEFINE new == reloader.new
<1>0. Place /\ Born /\ Alive /\ Counted /\ Pointers /\ Consumes /\ Bans
  BY DEF PluginInvariant
<1>1. /\ reloader.pc = "build" /\ reloader'.pc = "kafka" /\ reloader'.new = new
      /\ UNCHANGED <<refs, current, txn, undefined>> /\ consumer' = consumer /\ conf' = conf
      /\ life' = [life EXCEPT ![new] = "built"] /\ swabber_socket' = swabber_socket
  BY DEF BuildFilters, ReloadGoto, TypeOK
<1>2. new \in Instances /\ Instances \subseteq Nat /\ new - 1 \in Instances /\ new - 1 # new
  BY <1>0, <1>1, Numbers DEF Place, TypeOK
<1>3. \A i \in Instances : life'[i] = IF i = new THEN "built" ELSE life[i]
  BY <1>1 DEF TypeOK
<1>4. Place'
  BY <1>0, <1>1 DEF Place, Preparing
<1>5. life[new] = "building"
  BY <1>0, <1>1, <1>2, Zenon DEF Born
<1>6. \A i \in Instances : Unborn(i)' <=> Unborn(i)
  BY <1>1, <1>2 DEF Unborn
<1>7. Born'
  BY <1>0, <1>1, <1>3, <1>5, <1>6 DEF Born
<1>8. /\ Owners' = Owners /\ Kept' = {new - 1, new} /\ Target' = Target /\ Owner' = Owner
      /\ Kept = {new - 1}
  BY <1>0, <1>1 DEF Owners, Kept, Target, Place, Preparing, Owner
<1>9. Alive'
  BY <1>0, <1>2, <1>3, <1>8 DEF Alive
<1>10. \A i : Fresh(i)' <=> Fresh(i)
  BY <1>1 DEF Fresh, Preparing
<1>11. Counted'
  <2> SUFFICES ASSUME ~undefined, NEW i \in Instances PROVE Counts(i)'
    BY <1>1 DEF Counted
  <2>1. Counts(i) /\ Holders(i)' = Holders(i) /\ (Fresh(i)' <=> Fresh(i))
    BY <1>0, <1>1, <1>10, SameHolders DEF Counted
  <2>2. life'[i] = "destroyed" <=> life[i] = "destroyed"
    BY <1>3, <1>5
  <2> QED
    BY <1>1, <1>8, <2>1, <2>2 DEF Counts
<1>12. Pointers'
  BY <1>0, <1>1, <1>10 DEF Pointers
<1>13. Consumes' /\ Bans'
  BY <1>0, <1>1, <1>8 DEF Consumes, Bans
<1> QED
  BY <1>4, <1>7, <1>9, <1>11, <1>12, <1>13 DEF PluginInvariant

\* current_state's object pointer is swapped: the control block of the new
\* instance counts it from here on.
LEMMA SwapPtrStep ==
    ASSUME TypeOK, PluginInvariant, SwapPtr
    PROVE  PluginInvariant'
<1> DEFINE new == reloader.new
<1>0. Place /\ Born /\ Alive /\ Counted /\ Pointers /\ Consumes /\ Bans
  BY DEF PluginInvariant
<1>1. /\ reloader.pc = "swap_ptr" /\ reloader'.pc = "swap_ctrl" /\ reloader'.new = new
      /\ UNCHANGED <<life, conf, txn, undefined>> /\ consumer' = consumer
      /\ swabber_socket' = swabber_socket
      /\ refs' = [refs EXCEPT ![new] = 1] /\ current'.ptr = new /\ current'.ctrl = current.ctrl
  BY DEF SwapPtr, ReloadGoto, TypeOK, sockets
<1>2. new \in Instances /\ Instances \subseteq Nat /\ new - 1 \in Instances /\ new - 1 # new
  BY <1>0, <1>1, Numbers DEF Place, TypeOK
<1>3. current.ctrl = new - 1
  BY <1>0, <1>1 DEF Place, Preparing
<1>4. Place'
  BY <1>1, <1>2, <1>3 DEF Place, Preparing
<1>5. Born'
  BY <1>0, <1>1 DEF Born, Unborn
<1>6. /\ Owners = {new - 1} /\ Owners' = {new - 1, new} /\ Kept = {new - 1, new}
      /\ Kept' = {new - 1, new} /\ Target' = Target /\ Owner' = Owner
  BY <1>1, <1>3 DEF Owners, Kept, Target, Owner
<1>7. Alive'
  BY <1>0, <1>1, <1>6 DEF Alive
<1>8. \A i : Fresh(i)' => Fresh(i)
  BY <1>1 DEF Fresh, Preparing
<1>9. Counted'
  <2> SUFFICES ASSUME ~undefined, NEW i \in Instances PROVE Counts(i)'
    BY <1>1 DEF Counted
  <2>1. Counts(i) /\ Holders(i)' = Holders(i)
    BY <1>0, <1>1, SameHolders DEF Counted
  <2>2. refs \in [Instances -> Nat]
    BY DEF TypeOK
  <2>3. CASE i = new
    <3>1. Fresh(i) /\ i \notin Owners /\ i \in Owners' /\ life'[i] = "built"
      BY <1>0, <1>1, <1>2, <1>6, <2>3 DEF Fresh, Preparing, Alive
    <3>2. refs[i] = 0 /\ refs[i] = Cardinality(Holders(i)) + 0
      BY <2>1, <3>1 DEF Counts
    <3>3. refs'[i] = 1 /\ refs'[i] = Cardinality(Holders(i)) + 1
      <4>1. Cardinality(Holders(i)) \in Nat
        BY <2>1, FS_CardinalityType DEF Counts
      <4>2. refs'[i] = 1
        BY <1>1, <2>2, <2>3
      <4> QED
        BY <3>2, <4>1, <4>2
    <3>4. ~Fresh(i)'
      BY <1>1, <1>2, <2>3 DEF Fresh, Preparing
    <3> QED
      BY <2>1, <3>1, <3>3, <3>4 DEF Counts
  <2>4. CASE i # new
    <3>1. (Fresh(i)' <=> Fresh(i)) /\ (i \in Owners' <=> i \in Owners) /\ refs'[i] = refs[i]
      BY <1>1, <1>6, <2>2, <2>4 DEF Fresh, Preparing
    <3> QED
      BY <1>1, <2>1, <3>1 DEF Counts
  <2> QED
    BY <2>3, <2>4
<1>10. Pointers'
  BY <1>0, <1>1, <1>8 DEF Pointers
<1>11. Consumes' /\ Bans'
  BY <1>0, <1>1, <1>6 DEF Consumes, Bans
<1> QED
  BY <1>4, <1>5, <1>7, <1>9, <1>10, <1>11 DEF PluginInvariant

LEMMA SwapCtrlStep ==
    ASSUME TypeOK, PluginInvariant, SwapCtrl
    PROVE  PluginInvariant'
<1> DEFINE new == reloader.new
<1>0. Place /\ Born /\ Alive /\ Counted /\ Pointers /\ Consumes /\ Bans
  BY DEF PluginInvariant
<1>1. /\ reloader.pc = "swap_ctrl" /\ reloader'.pc = "drop" /\ reloader'.new = new
      /\ UNCHANGED <<life, refs, conf, txn, undefined>> /\ consumer' = consumer
      /\ swabber_socket' = swabber_socket /\ current'.ctrl = new /\ current'.ptr = current.ptr
  BY DEF SwapCtrl, ReloadGoto, TypeOK, sockets
<1>2. current.ctrl = new - 1 /\ current.ptr = new /\ new - 1 \in Instances
  BY <1>0, <1>1 DEF Place, Preparing
<1>3. Place'
  BY <1>1, <1>2 DEF Place, Preparing
<1>4. Born'
  BY <1>0, <1>1 DEF Born, Unborn
<1>5. Owners' = Owners /\ Kept' = Kept /\ Target' = Target /\ Owner' = Owner
  BY <1>1, <1>2 DEF Owners, Kept, Target, Owner
<1>6. Alive'
  BY <1>0, <1>1, <1>5 DEF Alive
<1>7. \A i : Fresh(i)' <=> Fresh(i)
  BY <1>1 DEF Fresh, Preparing
<1>8. Counted'
  BY <1>0, <1>1, <1>5, <1>7, SameHolders DEF Counted, Counts
<1>9. Pointers'
  BY <1>0, <1>1, <1>7 DEF Pointers
<1>10. Consumes' /\ Bans'
  BY <1>0, <1>1, <1>5 DEF Consumes, Bans
<1> QED
  BY <1>3, <1>4, <1>6, <1>8, <1>9, <1>10 DEF PluginInvariant

\* What a reference that goes away changes: the last one takes the instance
\* with it, and its sockets.
LEMMA DropRefEffect ==
    ASSUME TypeOK, NEW k \in Instances, DropRef(k)
    PROVE  /\ \A i \in Instances : i # k =>
                 /\ refs'[i] = refs[i] /\ life'[i] = life[i]
                 /\ swabber_socket'[i] = swabber_socket[i]
           /\ refs'[k] = refs[k] - 1 /\ refs[k] >= 1
           /\ refs[k] = 1 => life'[k] = "destroyed"
           /\ refs[k] > 1 => life'[k] = life[k] /\ swabber_socket'[k] = swabber_socket[k]
           /\ swabber_socket'[k] \in {swabber_socket[k], "none"}
<1>1. /\ refs \in [Instances -> Nat] /\ life \in [Instances -> {"unborn", "building", "built", "destroyed"}]
      /\ swabber_socket \in [Instances -> Socket]
  BY DEF TypeOK
<1>2. refs' = [refs EXCEPT ![k] = @ - 1]
  BY DEF DropRef
<1>3. refs'[k] = refs[k] - 1 /\ \A i \in Instances : i # k => refs'[i] = refs[i]
  BY <1>1, <1>2
<1>4. CASE refs[k] = 1 /\ Destroy(k)
  BY <1>1, <1>3, <1>4 DEF Destroy
<1>5. CASE refs[k] > 1 /\ UNCHANGED <<life, sockets>>
  <2>1. refs[k] \in Nat /\ refs[k] > 1 /\ life' = life /\ swabber_socket' = swabber_socket
    BY <1>1, <1>5 DEF sockets
  <2>2. refs[k] >= 1 /\ refs[k] # 1
    BY <2>1
  <2> QED
    BY <1>3, <2>1, <2>2
<1> QED
  BY <1>4, <1>5 DEF DropRef

\* The old instance loses the plugin's reference.
LEMMA ReloadDoneStep ==
    ASSUME TypeOK, PluginInvariant, ReloadDone
    PROVE  PluginInvariant'
<1> DEFINE new == reloader.new
           old == reloader.new - 1
<1>0. Place /\ Born /\ Alive /\ Counted /\ Pointers /\ Consumes /\ Bans
  BY DEF PluginInvariant
<1>1. /\ reloader.pc = "drop" /\ reloader'.pc = "idle" /\ reloader'.new = new
      /\ UNCHANGED <<conf, current, txn, undefined>> /\ consumer' = consumer /\ DropRef(old)
  BY DEF ReloadDone, ReloadGoto, TypeOK, DropOld
<1>2. new \in Instances /\ Instances \subseteq Nat /\ old \in Instances /\ old # new
  BY <1>0, <1>1, Numbers DEF Place, TypeOK
<1>3. current.ctrl = new /\ current.ptr = new
  BY <1>0, <1>1 DEF Place, Preparing
<1>4. Place'
  BY <1>1, <1>2, <1>3 DEF Place, Preparing
<1>5. /\ \A i \in Instances : i # old => /\ refs'[i] = refs[i] /\ life'[i] = life[i]
                                         /\ swabber_socket'[i] = swabber_socket[i]
      /\ refs'[old] = refs[old] - 1 /\ refs[old] >= 1
      /\ refs[old] = 1 => life'[old] = "destroyed"
      /\ refs[old] > 1 => life'[old] = life[old]
      /\ swabber_socket'[old] \in {swabber_socket[old], "none"}
      /\ refs[old] \in Nat
  BY <1>1, <1>2, DropRefEffect, Zenon DEF TypeOK
<1>6. /\ Owners = {new, old} /\ Owners' = {new} /\ Kept = {new, old}
      /\ Kept' = {new} /\ Target' = Target /\ Owner' = Owner /\ Owner = new
  BY <1>1, <1>3 DEF Owners, Kept, Target, Owner
<1>7. life[old] = "built" /\ life'[old] \in {"built", "destroyed"}
  <2>1. life[old] = "built"
    BY <1>0, <1>6 DEF Alive
  <2>2. refs[old] = 1 \/ refs[old] > 1
    BY <1>5
  <2> QED
    BY <1>5, <2>1, <2>2
<1>8. Born'
  <2>1. \A i \in Instances : Unborn(i)' <=> Unborn(i)
    BY <1>1 DEF Unborn
  <2>2. \A i \in Instances : life'[i] = life[i] \/ (i = old /\ life'[i] = "destroyed")
    BY <1>5, <1>7
  <2> QED
    BY <1>0, <1>1, <1>7, <2>1, <2>2 DEF Born
<1>9. Alive'
  BY <1>0, <1>2, <1>5, <1>6, Zenon DEF Alive
<1>10. \A i : Fresh(i)' <=> Fresh(i)
  BY <1>1 DEF Fresh, Preparing
<1>11. Counted'
  <2> SUFFICES ASSUME ~undefined, NEW i \in Instances PROVE Counts(i)'
    BY <1>1 DEF Counted
  <2>1. Counts(i) /\ Holders(i)' = Holders(i) /\ (Fresh(i)' <=> Fresh(i))
    BY <1>0, <1>1, <1>10, SameHolders DEF Counted
  <2>2. CASE i = old
    <3>1. Cardinality(Holders(i)) \in Nat
      BY <2>1, FS_CardinalityType DEF Counts
    <3>2. i \in Owners /\ i \notin Owners'
      BY <1>2, <1>6, <2>2
    <3>3. refs'[i] = Cardinality(Holders(i)) + 0
      BY <1>5, <2>1, <2>2, <3>1, <3>2 DEF Counts
    <3>4. ~Fresh(i)
      <4>0. new \in Nat
        BY <1>2, Zenon
      <4>1. ~(old > new)
        BY <4>0
      <4> QED
        BY <1>1, <1>2, <2>2, <4>1 DEF Fresh, Preparing
    <3>5. refs'[i] = 0 <=> refs[old] = 1
      BY <1>5, <2>2
    <3>6. life'[i] = "destroyed" <=> refs[old] = 1
      BY <1>5, <1>7, <2>2
    <3> QED
      BY <2>1, <3>2, <3>3, <3>4, <3>5, <3>6 DEF Counts
  <2>3. CASE i # old
    <3>1. (i \in Owners' <=> i \in Owners) /\ refs'[i] = refs[i] /\ life'[i] = life[i]
      BY <1>5, <1>6, <2>3
    <3> QED
      BY <2>1, <3>1 DEF Counts
  <2> QED
    BY <2>2, <2>3
<1>12. Pointers'
  BY <1>0, <1>1, <1>10 DEF Pointers
<1>13. Consumes'
  BY <1>0, <1>1, <1>6 DEF Consumes
<1>14. Bans'
  <2>1. \A i \in Instances : swabber_socket'[i] = swabber_socket[i]
    BY <1>0, <1>2, <1>5, <1>6 DEF Bans
  <2> QED
    BY <1>0, <1>1, <1>6, <2>1 DEF Bans
<1> QED
  BY <1>4, <1>8, <1>9, <1>11, <1>12, <1>13, <1>14 DEF PluginInvariant

LEMMA ReloadInvariant ==
    ASSUME TypeOK, PluginInvariant, ReloadLock \/ ReloadStep
    PROVE  PluginInvariant'
  BY ReloadLockStep, QuietReloadStep, ConstructStep, BuildFiltersStep, SwapPtrStep,
     SwapCtrlStep, ReloadDoneStep DEF ReloadStep

-----------------------------------------------------------------------------
(* Transactions                                                            *)

LEMMA TxnEffect ==
    ASSUME txn \in TxnType, NEW t \in Transactions, NEW pc \in TxnPc, NEW i
    PROVE  /\ txn' = [txn EXCEPT ![t].pc = pc] =>
                /\ txn'[t].pc = pc /\ txn'[t].ptr = txn[t].ptr /\ txn'[t].ctrl = txn[t].ctrl
                /\ \A u \in Transactions : u # t => txn'[u] = txn[u]
           /\ txn' = [txn EXCEPT ![t].pc = pc, ![t].ctrl = i] =>
                /\ txn'[t].pc = pc /\ txn'[t].ptr = txn[t].ptr /\ txn'[t].ctrl = i
                /\ \A u \in Transactions : u # t => txn'[u] = txn[u]
  BY DEF TxnType

\* Steps of a transaction that leave everything but its own record, and what
\* the invariant does not speak of, alone.
Elsewhere == /\ UNCHANGED <<reloader, current, conf, consumer, hand>>
             /\ swabber_socket' = swabber_socket /\ life' = life
LEMMA ElsewhereKeeps ==
    ASSUME PluginInvariant, Elsewhere
    PROVE  /\ Place' /\ Born' /\ Alive' /\ Consumes' /\ Bans'
           /\ Owners' = Owners /\ \A i : Fresh(i)' <=> Fresh(i)
<1>1. Place' /\ Born' /\ Consumes' /\ Bans'
  BY DEF PluginInvariant, Elsewhere, Place, Born, Unborn, Consumes, Target, Bans, Owner
<1>2. Owners' = Owners /\ Kept' = Kept
  BY DEF Elsewhere, Owners, Kept
<1>3. Alive'
  BY <1>2 DEF PluginInvariant, Elsewhere, Alive
<1>4. \A i : Fresh(i)' <=> Fresh(i)
  BY DEF Elsewhere, Fresh
<1> QED
  BY <1>1, <1>2, <1>3, <1>4

\* current_state's words are read: a control block that the plugin counts.
LEMMA ReadStep ==
    ASSUME TypeOK, PluginInvariant, NEW t \in Transactions, ReadPtr(t) \/ ReadCtrl(t)
    PROVE  PluginInvariant'
<1>1. Elsewhere /\ refs' = refs /\ undefined' = undefined
  BY DEF ReadPtr, ReadCtrl, Elsewhere, sockets
<1>2. Place' /\ Born' /\ Alive' /\ Consumes' /\ Bans' /\ Owners' = Owners /\ \A i : Fresh(i)' <=> Fresh(i)
  BY <1>1, ElsewhereKeeps
<1>3. /\ txn \in [Transactions -> [pc : TxnPc, ptr : Instances \cup {0}, ctrl : Instances \cup {0}]]
      /\ current.ptr \in Instances /\ current.ctrl \in Instances
  BY DEF TypeOK
<1>4. /\ txn[t].pc \notin Holding /\ txn'[t].pc \notin Holding
      /\ txn'[t].ptr \in Instances
      /\ txn'[t].pc = "add_ref" => txn'[t].ctrl = current.ctrl
      /\ \A u \in Transactions : u # t => txn'[u] = txn[u]
  <2>1. CASE ReadPtr(t)
    BY <1>3, <2>1 DEF ReadPtr, Holding
  <2>2. CASE ReadCtrl(t)
    <3>1. /\ txn'[t].pc = "add_ref" /\ txn'[t].ptr = txn[t].ptr /\ txn'[t].ctrl = current.ctrl
          /\ \A u \in Transactions : u # t => txn'[u] = txn[u]
      BY <1>3, <2>2, TxnEffect, Zenon DEF ReadCtrl, TxnType, TxnPc
    <3>2. txn[t].ptr \in Instances
      BY <2>2 DEF ReadCtrl, PluginInvariant, Pointers
    <3> QED
      BY <2>2, <3>1, <3>2, Zenon DEF ReadCtrl, Holding
  <2> QED
    BY <2>1, <2>2
<1>5. \A i : Holders(i)' = Holders(i)
  BY <1>4 DEF Holders
<1>6. Counted'
  BY <1>1, <1>2, <1>5 DEF PluginInvariant, Counted, Counts, Elsewhere
<1>7. ~Fresh(current.ctrl)
  <2>1. Place /\ reloader.new \in Nat
    BY Numbers DEF PluginInvariant
  <2> QED
    BY <2>1 DEF Place, Fresh, Preparing
<1>8. Pointers'
  <2> SUFFICES ASSUME NEW u \in Transactions
               PROVE  /\ txn'[u].pc # "idle" => txn'[u].ptr \in Instances
                      /\ txn'[u].pc \in {"add_ref"} \cup Holding
                            => txn'[u].ctrl \in Instances /\ ~Fresh(txn'[u].ctrl)
    BY <1>2 DEF Pointers
  <2>1. CASE u = t
    BY <1>3, <1>4, <1>7, <2>1
  <2>2. CASE u # t
    BY <1>4, <2>2 DEF PluginInvariant, Pointers
  <2> QED
    BY <2>1, <2>2
<1> QED
  BY <1>2, <1>6, <1>8 DEF PluginInvariant

\* A transaction goes from one statement to the next with what it holds.
LEMMA HoldStep ==
    ASSUME TypeOK, PluginInvariant, ~undefined, NEW t \in Transactions,
           HandleRequest(t) \/ CloseTry(t) \/ CloseHeld(t)
    PROVE  PluginInvariant'
<1>1. Elsewhere /\ refs' = refs
  BY DEF HandleRequest, CloseTry, CloseHeld, Elsewhere, sockets
<1>2. Place' /\ Born' /\ Alive' /\ Consumes' /\ Bans' /\ Owners' = Owners /\ \A i : Fresh(i)' <=> Fresh(i)
  BY <1>1, ElsewhereKeeps
<1>3. txn[t].pc \in Holding /\ \E pc \in Holding : TxnGoto(t, pc)
  BY Zenon DEF HandleRequest, CloseTry, CloseHeld, Holding
<1>4. /\ txn'[t].pc \in Holding /\ txn'[t].ptr = txn[t].ptr /\ txn'[t].ctrl = txn[t].ctrl
      /\ \A u \in Transactions : u # t => txn'[u] = txn[u]
  <2>1. PICK pc \in Holding : TxnGoto(t, pc)
    BY <1>3
  <2>2. pc \in TxnPc /\ txn \in TxnType
    BY DEF Holding, TxnPc, TypeOK, TxnType
  <2> QED
    BY <2>1, <2>2, TxnEffect, Zenon DEF TxnGoto
<1>5. \A i : Holders(i)' = Holders(i)
  BY <1>3, <1>4 DEF Holders
<1>6. Counted'
  BY <1>1, <1>2, <1>5 DEF PluginInvariant, Counted, Counts, Elsewhere
<1>7. Pointers'
  <2> SUFFICES ASSUME NEW u \in Transactions
               PROVE  /\ txn'[u].pc # "idle" => txn'[u].ptr \in Instances
                      /\ txn'[u].pc \in {"add_ref"} \cup Holding
                            => txn'[u].ctrl \in Instances /\ ~Fresh(txn'[u].ctrl)
    BY <1>2 DEF Pointers
  <2>1. /\ txn[u].pc # "idle" => txn[u].ptr \in Instances
        /\ txn[u].pc \in {"add_ref"} \cup Holding => txn[u].ctrl \in Instances /\ ~Fresh(txn[u].ctrl)
    BY DEF PluginInvariant, Pointers
  <2>2. CASE u = t
    <3>1. txn[t].pc # "idle"
      BY <1>3 DEF Holding
    <3> QED
      BY <1>3, <1>4, <2>1, <2>2, <3>1
  <2>3. CASE u # t
    BY <1>4, <2>1, <2>3
  <2> QED
    BY <2>2, <2>3
<1> QED
  BY <1>2, <1>6, <1>7 DEF PluginInvariant

\* The copy of the shared_ptr counts itself, unless its control block is gone.
LEMMA AddRefStep ==
    ASSUME TypeOK, PluginInvariant, ~undefined, NEW t \in Transactions, AddRef(t)
    PROVE  PluginInvariant'
<1>0. PICK k : k = txn[t].ctrl
  OBVIOUS
<1>1. Elsewhere /\ txn[t].pc = "add_ref"
  BY DEF AddRef, Elsewhere, sockets
<1>2. Place' /\ Born' /\ Alive' /\ Consumes' /\ Bans' /\ Owners' = Owners /\ \A i : Fresh(i)' <=> Fresh(i)
  BY <1>1, ElsewhereKeeps
<1>3. /\ txn'[t].pc = "open" /\ txn'[t].ptr = txn[t].ptr /\ txn'[t].ctrl = k
      /\ \A u \in Transactions : u # t => txn'[u] = txn[u]
  BY <1>0, TxnEffect, Zenon DEF AddRef, TxnGoto, TypeOK, TxnType, TxnPc
<1>4. txn[t].ptr \in Instances /\ k \in Instances /\ ~Fresh(k)
  BY <1>0, <1>1 DEF PluginInvariant, Pointers
<1>5. Pointers'
  <2> SUFFICES ASSUME NEW u \in Transactions
               PROVE  /\ txn'[u].pc # "idle" => txn'[u].ptr \in Instances
                      /\ txn'[u].pc \in {"add_ref"} \cup Holding
                            => txn'[u].ctrl \in Instances /\ ~Fresh(txn'[u].ctrl)
    BY <1>2 DEF Pointers
  <2>1. CASE u = t
    BY <1>3, <1>4, <2>1
  <2>2. CASE u # t
    BY <1>3, <2>2 DEF PluginInvariant, Pointers
  <2> QED
    BY <2>1, <2>2
<1>6. Counted'
  <2>1. CASE undefined'
    BY <2>1 DEF Counted
  <2>2. CASE ~undefined'
    <3>1. life[k] # "destroyed" /\ refs' = [refs EXCEPT ![k] = @ + 1]
      BY <1>0, <2>2 DEF AddRef, Undefined
    <3> SUFFICES ASSUME NEW i \in Instances PROVE Counts(i)'
      BY DEF Counted
    <3>2. Counts(i) /\ refs \in [Instances -> Nat] /\ (Fresh(i)' <=> Fresh(i))
      BY <1>2 DEF PluginInvariant, Counted, TypeOK
    <3>3. CASE i = k
      <4>1. t \notin Holders(k) /\ Holders(k)' = Holders(k) \cup {t}
        BY <1>0, <1>1, <1>3 DEF Holders, Holding
      <4>2. /\ IsFiniteSet(Holders(k)') /\ Cardinality(Holders(k)') = Cardinality(Holders(k)) + 1
            /\ Cardinality(Holders(k)) \in Nat
        BY <3>2, <3>3, <4>1, FS_AddElement, FS_CardinalityType DEF Counts
      <4>3. refs'[k] = refs[k] + 1 /\ refs[k] \in Nat
        BY <1>4, <3>1, <3>2
      <4>4. refs'[k] = Cardinality(Holders(k)') + (IF k \in Owners THEN 1 ELSE 0) /\ refs'[k] # 0
        BY <3>2, <3>3, <4>2, <4>3 DEF Counts
      <4> QED
        BY <1>1, <1>2, <1>4, <3>1, <3>2, <3>3, <4>2, <4>4 DEF Counts, Elsewhere
    <3>4. CASE i # k
      <4>1. Holders(i)' = Holders(i)
        BY <1>0, <1>1, <1>3, <3>4 DEF Holders, Holding
      <4>2. refs'[i] = refs[i]
        BY <3>1, <3>2, <3>4
      <4> QED
        BY <1>1, <1>2, <3>2, <4>1, <4>2 DEF Counts, Elsewhere
    <3> QED
      BY <3>3, <3>4
  <2> QED
    BY <2>1, <2>2
<1> QED
  BY <1>2, <1>5, <1>6 DEF PluginInvariant

\* ~TransactionData: the last reference destroys the instance, which is then
\* neither the plugin's nor the swabber's that owns the socket.
LEMMA ReleaseRefStep ==
    ASSUME TypeOK, PluginInvariant, ~undefined, NEW t \in Transactions, ReleaseRef(t)
    PROVE  PluginInvariant'
<1>k. PICK k : k = txn[t].ctrl
  OBVIOUS
<1>0. Place /\ Born /\ Alive /\ Counted /\ Pointers /\ Consumes /\ Bans
  BY DEF PluginInvariant
<1>1. /\ txn[t].pc = "release" /\ DropRef(k)
      /\ UNCHANGED <<reloader, current, conf, consumer, hand, undefined>>
  BY <1>k DEF ReleaseRef
<1>2. txn'[t].pc = "idle" /\ \A u \in Transactions : u # t => txn'[u] = txn[u]
  BY DEF ReleaseRef, TypeOK, NoTransaction
<1>3. k \in Instances /\ ~Fresh(k)
  BY <1>k, <1>0, <1>1 DEF Pointers, Holding
<1>4. /\ \A i \in Instances : i # k => /\ refs'[i] = refs[i] /\ life'[i] = life[i]
                                       /\ swabber_socket'[i] = swabber_socket[i]
      /\ refs'[k] = refs[k] - 1 /\ refs[k] >= 1
      /\ refs[k] = 1 => life'[k] = "destroyed"
      /\ refs[k] > 1 => life'[k] = life[k] /\ swabber_socket'[k] = swabber_socket[k]
      /\ swabber_socket'[k] \in {swabber_socket[k], "none"}
      /\ refs[k] \in Nat
  BY <1>1, <1>3, DropRefEffect DEF TypeOK
<1>5. Owners' = Owners /\ Kept' = Kept /\ Owner' = Owner /\ Target' = Target
  BY <1>1 DEF Owners, Kept, Owner, Target
<1>6. \A i : (Fresh(i)' <=> Fresh(i)) /\ (Unborn(i)' <=> Unborn(i)) /\ (Unborn(i) => Fresh(i))
  BY <1>1 DEF Fresh, Unborn, Preparing
<1>7. Counts(k) /\ Cardinality(Holders(k)) \in Nat
  BY <1>0, <1>3, FS_CardinalityType DEF Counted, Counts
<1>8. /\ t \in Holders(k) /\ Holders(k)' = Holders(k) \ {t}
      /\ \A i : i # k => Holders(i)' = Holders(i)
  BY <1>k, <1>1, <1>2 DEF Holders, Holding
<1>9. /\ IsFiniteSet(Holders(k)') /\ Cardinality(Holders(k)') = Cardinality(Holders(k)) - 1
      /\ Cardinality(Holders(k)') \in Nat
  BY <1>7, <1>8, FS_RemoveElement, FS_CardinalityType DEF Counts
<1>10. k \in Owners => refs[k] > 1
  <2>1. k \in Owners => refs[k] = Cardinality(Holders(k)) + 1
    BY <1>7 DEF Counts
  <2>2. Cardinality(Holders(k)) >= 1
    BY <1>7, <1>9
  <2> QED
    BY <1>4, <1>7, <2>1, <2>2
<1>11. life[k] \notin {"unborn", "building", "destroyed"}
  <2>1. refs[k] # 0
    BY <1>4
  <2>2. ~Unborn(k) /\ ~(k = reloader.new /\ reloader.pc = "build")
    BY <1>3, <1>6 DEF Fresh, Preparing
  <2> QED
    BY <1>0, <1>3, <1>7, <2>1, <2>2 DEF Born, Counts
<1>12. life'[k] = life[k] \/ life'[k] = "destroyed"
  <2>1. refs[k] = 1 \/ refs[k] > 1
    BY <1>4
  <2> QED
    BY <1>4, <2>1
<1>13. Place' /\ Consumes'
  BY <1>0, <1>1, <1>5 DEF Place, Consumes
<1>14. Born'
  BY <1>0, <1>1, <1>4, <1>6, <1>11, <1>12 DEF Born
<1>15. Alive'
  <2> SUFFICES ASSUME NEW i \in Kept PROVE life'[i] = "built"
    BY <1>5 DEF Alive
  <2>1. i \in Instances
    BY <1>0, Numbers DEF Kept, Owners, Place, TypeOK
  <2>2. CASE i # k
    BY <1>0, <1>4, <2>1, <2>2 DEF Alive
  <2>3. CASE i = k
    <3>1. k \in Owners
      BY <1>3, <2>3 DEF Kept, Fresh, Preparing
    <3> QED
      BY <1>0, <1>4, <1>10, <2>3, <3>1 DEF Alive
  <2> QED
    BY <2>2, <2>3
<1>16. Bans'
  <2>1. k = Owner => k \in Owners
    <3>1. k = Owner => reloader.pc \notin Preparing \/ reloader.pc = "release_swabber"
      BY <1>3, Numbers DEF Owner, Fresh, Preparing
    <3> QED
      BY <1>0, <3>1 DEF Owner, Owners, Place, Preparing
  <2>2. \A i \in Instances : swabber_socket'[i] = swabber_socket[i]
    BY <1>0, <1>4, <1>10, <2>1 DEF Bans
  <2> QED
    BY <1>0, <1>1, <1>5, <2>2 DEF Bans
<1>17. Counted'
  <2> SUFFICES ASSUME NEW i \in Instances PROVE Counts(i)'
    BY DEF Counted
  <2>1. CASE i = k
    <3>1. refs'[k] = Cardinality(Holders(k)') + (IF k \in Owners THEN 1 ELSE 0)
      BY <1>4, <1>7, <1>9 DEF Counts
    <3>2. refs'[k] = 0 <=> refs[k] = 1
      BY <1>4
    <3>3. life'[k] = "destroyed" <=> refs[k] = 1
      <4>1. refs[k] = 1 \/ refs[k] > 1
        BY <1>4
      <4> QED
        BY <1>4, <1>11, <4>1
    <3> QED
      BY <1>3, <1>5, <1>6, <1>9, <2>1, <3>1, <3>2, <3>3 DEF Counts
  <2>2. CASE i # k
    BY <1>0, <1>4, <1>5, <1>6, <1>8, <2>2 DEF Counted, Counts
  <2> QED
    BY <2>1, <2>2
<1>18. Pointers'
  BY <1>0, <1>2, <1>6 DEF Pointers, Holding
<1> QED
  BY <1>13, <1>14, <1>15, <1>16, <1>17, <1>18 DEF PluginInvariant

-----------------------------------------------------------------------------
(* The consumer and the tasks                                              *)

LEMMA OthersStep ==
    ASSUME TypeOK, PluginInvariant, KafkaStep \/ TaskLock \/ TaskDone \/ UNCHANGED vars
    PROVE  PluginInvariant'
<1>0. Place /\ Born /\ Alive /\ Counted /\ Pointers /\ Consumes /\ Bans
  BY DEF PluginInvariant
<1>1. /\ UNCHANGED <<reloader, current, conf, hand, life, refs, txn, undefined>>
      /\ swabber_socket' = swabber_socket
  BY DEF KafkaStep, LoadStored, Check, Consume, Dispatch, ConsumerStep, TaskLock, TaskDone,
         vars, sockets
<1>2. /\ Owners' = Owners /\ Kept' = Kept /\ Owner' = Owner /\ Target' = Target
      /\ \A i : (Fresh(i)' <=> Fresh(i)) /\ (Unborn(i)' <=> Unborn(i)) /\ Holders(i)' = Holders(i)
  BY <1>1 DEF Owners, Kept, Owner, Target, Fresh, Unborn, Holders
<1>3. Place' /\ Born' /\ Alive' /\ Pointers' /\ Bans'
  BY <1>0, <1>1, <1>2 DEF Place, Born, Alive, Pointers, Bans
<1>4. Counted'
  BY <1>0, <1>1, <1>2, Zenon DEF Counted, Counts
<1>5. /\ consumer'.banjax = consumer.banjax /\ consumer'.shutting_down = consumer.shutting_down
      /\ \/ consumer'.pc = consumer.pc
         \/ consumer'.pc # "none" /\ consumer.pc # "none"
         \/ consumer'.pc = "none" /\ consumer.pc # "none" /\ consumer.shutting_down
  BY Zenon DEF TypeOK, KafkaStep, LoadStored, Check, AfterCheck, Consume, Dispatch, TaskLock,
         TaskDone, vars
<1>6. Consumes'
  BY <1>0, <1>1, <1>2, <1>5, Zenon DEF Consumes
<1> QED
  BY <1>3, <1>4, <1>6 DEF PluginInvariant

LEMMA InvariantStep == TypeOK /\ PluginInvariant /\ [Next]_vars => PluginInvariant'
  BY ReloadInvariant, ReadStep, HoldStep, AddRefStep, ReleaseRefStep, OthersStep DEF Next, TxnStep

LEMMA InvariantAlways == Spec => [](TypeOK /\ PluginInvariant)
  BY TypeInit, TypeStep, InvariantInit, InvariantStep, PTL DEF Spec

-----------------------------------------------------------------------------
(* What a reader of reload_config wants to know                            *)

\* The raw pointer that KafkaConsumer keeps never outlives its instance: every
\* reload moves the consumer, or joins its thread, before current_state is
\* assigned and the old instance can die.
THEOREM ConsumerSafe == Spec => []ConsumerTargetsBuilt
<1>1. TypeOK /\ PluginInvariant => ConsumerTargetsBuilt
  <2> SUFFICES ASSUME TypeOK, PluginInvariant, consumer.pc # "none"
               PROVE  life[consumer.banjax] = "built"
    BY DEF ConsumerTargetsBuilt
  <2>1. consumer.banjax = Target
    BY DEF PluginInvariant, Consumes
  <2>2. Target \in Kept
    BY DEF PluginInvariant, Place, Target, Kept, Owners, Preparing, TypeOK, ReloaderPc
  <2> QED
    BY <2>1, <2>2 DEF PluginInvariant, Alive
<1> QED
  BY <1>1, InvariantAlways, PTL

\* Once reload_config is done, the consumer and the bound socket of the
\* swabber belong to the instance that is current now, and to no other.
THEOREM HandOver == Spec => []HandedOver
<1>1. TypeOK /\ PluginInvariant => HandedOver
  <2> SUFFICES ASSUME TypeOK, PluginInvariant, reloader.pc = "idle"
               PROVE  /\ consumer.pc # "none" <=> conf[current.ptr].kafka
                      /\ consumer.pc # "none" => consumer.banjax = current.ptr /\ ~consumer.shutting_down
                      /\ \A i \in Instances : swabber_socket[i] = IF i = current.ptr THEN "bound" ELSE "none"
    BY DEF HandedOver
  <2>1. current.ptr = Target /\ current.ptr = Owner
    BY DEF PluginInvariant, Place, Preparing, Target, Owner
  <2> QED
    BY <2>1 DEF PluginInvariant, Consumes, Bans
<1> QED
  BY <1>1, InvariantAlways, PTL

\* Reference counting frees an instance exactly when current_state and the
\* transactions have let go of it, as long as no transaction touched a dead one.
THEOREM Freed == Spec => []FreedWhenUnused
<1>1. TypeOK /\ PluginInvariant => FreedWhenUnused
  <2> SUFFICES ASSUME TypeOK, PluginInvariant, reloader.pc = "idle", ~undefined,
                      NEW i \in Instances, life[i] # "unborn"
               PROVE  life[i] = "destroyed" <=>
                        /\ current.ctrl # i
                        /\ \A t \in Transactions : txn[t].pc \in Holding => txn[t].ctrl # i
    BY DEF FreedWhenUnused
  <2>1. Counts(i) /\ Cardinality(Holders(i)) \in Nat
    BY FS_CardinalityType DEF PluginInvariant, Counted, Counts
  <2>2. Owners = {current.ctrl}
    BY DEF Owners
  <2>3. ~Fresh(i)
    BY DEF PluginInvariant, Born, Unborn, Fresh, Preparing
  <2>4. life[i] = "destroyed" <=> refs[i] = 0
    BY <2>1, <2>3 DEF Counts
  <2>5. refs[i] = 0 <=> Cardinality(Holders(i)) = 0 /\ current.ctrl # i
    BY <2>1, <2>2 DEF Counts
  <2>6. Cardinality(Holders(i)) = 0 <=> Holders(i) = {}
    BY <2>1, FS_EmptySet DEF Counts
  <2>7. Holders(i) = {} <=> \A t \in Transactions : txn[t].pc \in Holding => txn[t].ctrl # i
    BY DEF Holders
  <2> QED
    BY <2>4, <2>5, <2>6, <2>7
<1> QED
  BY <1>1, InvariantAlways, PTL
=============================================================================
