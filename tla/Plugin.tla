------------------------------- MODULE Plugin -------------------------------
(***************************************************************************)
(* The life of the plugin's state across configuration reloads.  A reload  *)
(* builds a new Banjax instance, hands it the sockets and the Kafka        *)
(* consumer of the old one and swaps current_state, a shared_ptr that the  *)
(* hook of a starting transaction copies without a lock: the two words of  *)
(* the pointer are read, and swapped, one after the other.  A transaction  *)
(* holds its instance until it closes; the last holder destroys it.  The   *)
(* consumer thread calls into the instance it was last told of.            *)
(*                                                                         *)
(* A step that touches a destroyed instance sets undefined, after which    *)
(* the model says nothing more of the program.                             *)
(***************************************************************************)
EXTENDS Naturals, FiniteSets

CONSTANTS Transactions, Reloader, Task, Nobody, MaxReloads

ASSUME PluginAssumption ==
    /\ MaxReloads \in Nat
    /\ Reloader \notin Transactions /\ Task \notin Transactions
    /\ Nobody \notin Transactions \cup {Reloader, Task} /\ Reloader # Task
    /\ "consumer" \notin {Nobody, Reloader}

Instances == 1..(MaxReloads + 1)
Config == [kafka : BOOLEAN, sniffer : BOOLEAN]

VARIABLES
    life,             \* instance -> unborn, building, built (its filters) or destroyed
    conf,             \* instance -> the configuration it was built from
    refs,             \* instance -> use_count of its control block
    current,          \* current_state: object and control block
    swabber_socket,   \* instance -> Swabber's socket
    sniffer_socket,   \* instance -> BotSniffer's socket
    parked,           \* instance -> botsniffer_socket_reuse
    sniffer_mutex,    \* instance -> holder of BotSniffer's mutex
    hand,             \* swab_s and snif_s of reload_config
    reload_mutex,
    reloader,         \* reload_config: its statement and the instance it makes
    txn,              \* per transaction: its statement and its shared_ptr
    consumer,         \* KafkaConsumer: its thread's statement and its fields
    stored_config_lock,
    undefined

sockets == <<swabber_socket, sniffer_socket, parked>>
vars == <<life, conf, refs, current, sockets, sniffer_mutex, hand, reload_mutex, reloader,
          txn, consumer, stored_config_lock, undefined>>

Socket == {"none", "unbound", "bound"}
ReloaderPc == {"idle", "release_swabber", "release_sniffer", "construct", "build",
               "kafka", "store", "join", "swap_ptr", "swap_ctrl", "drop"}
TxnPc == {"idle", "read_ctrl", "add_ref", "open", "close", "close_held", "release"}
ConsumerPc == {"none", "load", "check", "consume", "dispatch"}

\* Instance 0 stands for no instance.
NoTransaction == [pc |-> "idle", ptr |-> 0, ctrl |-> 0]
NoConsumer == [pc |-> "none", banjax |-> 0, loaded |-> 0,
               config_valid |-> FALSE, shutting_down |-> FALSE]
NewConsumer(i) == [NoConsumer EXCEPT !.pc = "load", !.banjax = i]

\* BanjaxPlugin makes the first instance; its thread, if any, is starting.
BanjaxPlugin(first) ==
    /\ life = [i \in Instances |-> IF i = 1 THEN "built" ELSE "unborn"]
    /\ conf = [i \in Instances |-> first]
    /\ refs = [i \in Instances |-> IF i = 1 THEN 1 ELSE 0]
    /\ current = [ptr |-> 1, ctrl |-> 1]
    /\ swabber_socket = [i \in Instances |-> IF i = 1 THEN "bound" ELSE "none"]
    /\ sniffer_socket =
           [i \in Instances |-> IF i = 1 /\ first.sniffer THEN "bound" ELSE "none"]
    /\ parked = [i \in Instances |-> "none"]
    /\ sniffer_mutex = [i \in Instances |-> Nobody]
    /\ hand = [swabber |-> "none", sniffer |-> "none"]
    /\ reload_mutex = Nobody
    /\ reloader = [pc |-> "idle", new |-> 1]
    /\ txn = [t \in Transactions |-> NoTransaction]
    /\ consumer = IF first.kafka THEN NewConsumer(1) ELSE NoConsumer
    /\ stored_config_lock = Nobody
    /\ undefined = FALSE

Init == \E first \in Config : BanjaxPlugin(first)

-----------------------------------------------------------------------------
\* ~Banjax: the members' destructors close the sockets of the instance.
Destroy(i) ==
    /\ life' = [life EXCEPT ![i] = "destroyed"]
    /\ swabber_socket' = [swabber_socket EXCEPT ![i] = "none"]
    /\ sniffer_socket' = [sniffer_socket EXCEPT ![i] = "none"]
    /\ parked' = [parked EXCEPT ![i] = "none"]

\* A shared_ptr to instance i goes away.
DropRef(i) ==
    /\ refs' = [refs EXCEPT ![i] = @ - 1]
    /\ \/ refs[i] = 1 /\ Destroy(i)
       \/ refs[i] > 1 /\ UNCHANGED <<life, sockets>>

\* ZeroMQ refuses to bind an endpoint that another socket is bound to.
EndpointFree == /\ hand.sniffer # "bound"
                /\ \A i \in Instances : sniffer_socket[i] # "bound" /\ parked[i] # "bound"
Bound == IF EndpointFree THEN "bound" ELSE "unbound"

-----------------------------------------------------------------------------
(* reload_config                                                           *)

ReloadGoto(statement) == reloader' = [reloader EXCEPT !.pc = statement]

ReloadLock ==
    /\ reloader.pc = "idle" /\ reloader.new <= MaxReloads
    /\ reload_mutex = Nobody
    /\ reload_mutex' = Reloader
    /\ reloader' = [pc |-> "release_swabber", new |-> reloader.new + 1]
    /\ UNCHANGED <<life, conf, refs, current, sockets, sniffer_mutex, hand, txn, consumer,
                   stored_config_lock, undefined>>

\* The old Swabber is left without a socket.
TakenCopied == swabber_socket
Taken == [swabber_socket EXCEPT ![current.ptr] = "none"]

ReleaseSwabberSocket ==
    /\ reloader.pc = "release_swabber"
    /\ hand' = [hand EXCEPT !.swabber = swabber_socket[current.ptr]]
    /\ swabber_socket' = Taken
    /\ ReloadGoto("release_sniffer")
    /\ UNCHANGED <<life, conf, refs, current, sniffer_socket, parked, sniffer_mutex,
                   reload_mutex, txn, consumer, stored_config_lock, undefined>>

\* Without a bot_sniffer there is nothing to release, not even a parked socket.
ReleaseSnifferSocket ==
    /\ reloader.pc = "release_sniffer"
    /\ sniffer_mutex[current.ptr] = Nobody
    /\ hand' = [hand EXCEPT !.sniffer = sniffer_socket[current.ptr]]
    /\ sniffer_socket' = [sniffer_socket EXCEPT ![current.ptr] = "none"]
    /\ ReloadGoto("construct")
    /\ UNCHANGED <<life, conf, refs, current, swabber_socket, parked, sniffer_mutex,
                   reload_mutex, txn, consumer, stored_config_lock, undefined>>

\* The members of the new instance, its configuration, Swabber::load_config:
\* a bound socket is kept, otherwise a new one is bound.
Construct(c) ==
    /\ reloader.pc = "construct"
    /\ life' = [life EXCEPT ![reloader.new] = "building"]
    /\ conf' = [conf EXCEPT ![reloader.new] = c]
    /\ swabber_socket' = [swabber_socket EXCEPT ![reloader.new] =
           IF hand.swabber = "bound" \/ \A i \in Instances : swabber_socket[i] # "bound"
           THEN "bound" ELSE "unbound"]
    /\ parked' = [parked EXCEPT ![reloader.new] = hand.sniffer]
    /\ hand' = [swabber |-> "none", sniffer |-> "none"]
    /\ ReloadGoto("build")
    /\ UNCHANGED <<refs, current, sniffer_socket, sniffer_mutex, reload_mutex, txn,
                   consumer, stored_config_lock, undefined>>

\* build_filters; BotSniffer::load_config keeps a bound socket that it is
\* handed and otherwise tries to bind a new one.
BuildFilters ==
    LET new == reloader.new
    IN  /\ reloader.pc = "build"
        /\ life' = [life EXCEPT ![new] = "built"]
        /\ \/ /\ conf[new].sniffer
              /\ sniffer_socket' = [sniffer_socket EXCEPT ![new] =
                     IF parked[new] = "bound" THEN "bound" ELSE Bound]
              /\ parked' = [parked EXCEPT ![new] = "none"]
           \/ ~conf[new].sniffer /\ UNCHANGED <<sniffer_socket, parked>>
        /\ ReloadGoto("kafka")
        /\ UNCHANGED <<conf, refs, current, swabber_socket, sniffer_mutex, hand,
                       reload_mutex, txn, consumer, stored_config_lock, undefined>>

\* No kafka section: kafka_consumer.reset(), whose destructor stops the thread.
KafkaReset ==
    /\ reloader.pc = "kafka" /\ ~conf[reloader.new].kafka
    /\ \/ /\ consumer.pc = "none"
          /\ ReloadGoto("swap_ptr")
          /\ UNCHANGED consumer
       \/ /\ consumer.pc # "none"
          /\ consumer' = [consumer EXCEPT !.shutting_down = TRUE]
          /\ ReloadGoto("join")
    /\ UNCHANGED <<life, conf, refs, current, sockets, sniffer_mutex, hand, reload_mutex, txn,
                   stored_config_lock, undefined>>

KafkaJoin ==
    /\ reloader.pc = "join" /\ consumer.pc = "none"
    /\ consumer' = NoConsumer
    /\ ReloadGoto("swap_ptr")
    /\ UNCHANGED <<life, conf, refs, current, sockets, sniffer_mutex, hand, reload_mutex, txn,
                   stored_config_lock, undefined>>

KafkaConstruct ==
    /\ reloader.pc = "kafka" /\ conf[reloader.new].kafka /\ consumer.pc = "none"
    /\ consumer' = NewConsumer(reloader.new)
    /\ ReloadGoto("swap_ptr")
    /\ UNCHANGED <<life, conf, refs, current, sockets, sniffer_mutex, hand, reload_mutex, txn,
                   stored_config_lock, undefined>>

KafkaLock ==
    /\ reloader.pc = "kafka" /\ conf[reloader.new].kafka /\ consumer.pc # "none"
    /\ stored_config_lock = Nobody
    /\ stored_config_lock' = Reloader
    /\ ReloadGoto("store")
    /\ UNCHANGED <<life, conf, refs, current, sockets, sniffer_mutex, hand, reload_mutex, txn,
                   consumer, undefined>>

\* KafkaConsumer::reload_config; stored_config is the one of consumer.banjax.
ReloadedKeepsOld == [consumer EXCEPT !.config_valid = FALSE]
ReloadedStillValid == [consumer EXCEPT !.banjax = reloader.new]
Reloaded == [consumer EXCEPT !.banjax = reloader.new, !.config_valid = FALSE]

KafkaStore ==
    /\ reloader.pc = "store"
    /\ consumer' = Reloaded
    /\ stored_config_lock' = Nobody
    /\ ReloadGoto("swap_ptr")
    /\ UNCHANGED <<life, conf, refs, current, sockets, sniffer_mutex, hand, reload_mutex, txn, undefined>>

\* current_state = std::move(new_banjax): object, control block, old reference.
SwapPtr ==
    /\ reloader.pc = "swap_ptr"
    /\ current' = [current EXCEPT !.ptr = reloader.new]
    /\ refs' = [refs EXCEPT ![reloader.new] = 1]
    /\ ReloadGoto("swap_ctrl")
    /\ UNCHANGED <<life, conf, sockets, sniffer_mutex, hand, reload_mutex, txn, consumer,
                   stored_config_lock, undefined>>

SwapCtrl ==
    /\ reloader.pc = "swap_ctrl"
    /\ current' = [current EXCEPT !.ctrl = reloader.new]
    /\ ReloadGoto("drop")
    /\ UNCHANGED <<life, conf, refs, sockets, sniffer_mutex, hand, reload_mutex, txn, consumer,
                   stored_config_lock, undefined>>

DropOldForgotten == UNCHANGED <<refs, life, sockets>>
DropOld == DropRef(reloader.new - 1)

UnlockReloadForgotten == UNCHANGED reload_mutex
UnlockReload == reload_mutex' = Nobody

ReloadDone ==
    /\ reloader.pc = "drop"
    /\ DropOld
    /\ UnlockReload
    /\ ReloadGoto("idle")
    /\ UNCHANGED <<conf, current, sniffer_mutex, hand, txn, consumer, stored_config_lock, undefined>>

-----------------------------------------------------------------------------
(* handle_transaction_start and the transaction's events                   *)

\* A transaction goes on with what it holds, or has touched freed memory.
TxnGoto(t, statement) == txn' = [txn EXCEPT ![t].pc = statement]
Undefined == undefined' = TRUE

ReadPtr(t) ==
    /\ txn[t].pc = "idle"
    /\ txn' = [txn EXCEPT ![t] = [pc |-> "read_ctrl", ptr |-> current.ptr, ctrl |-> 0]]
    /\ UNCHANGED <<life, conf, refs, current, sockets, sniffer_mutex, hand, reload_mutex,
                   reloader, consumer, stored_config_lock, undefined>>

ReadCtrl(t) ==
    /\ txn[t].pc = "read_ctrl"
    /\ txn' = [txn EXCEPT ![t].pc = "add_ref", ![t].ctrl = current.ctrl]
    /\ UNCHANGED <<life, conf, refs, current, sockets, sniffer_mutex, hand, reload_mutex,
                   reloader, consumer, stored_config_lock, undefined>>

AddRef(t) ==
    /\ txn[t].pc = "add_ref"
    /\ TxnGoto(t, "open")
    /\ \/ /\ life[txn[t].ctrl] = "destroyed"
          /\ Undefined
          /\ UNCHANGED refs
       \/ /\ life[txn[t].ctrl] # "destroyed"
          /\ refs' = [refs EXCEPT ![txn[t].ctrl] = @ + 1]
          /\ UNCHANGED undefined
    /\ UNCHANGED <<life, conf, current, sockets, sniffer_mutex, hand, reload_mutex, reloader,
                   consumer, stored_config_lock>>

\* handle_request: the filters of the instance run.
HandleRequest(t) ==
    /\ txn[t].pc = "open"
    /\ \/ life[txn[t].ptr] = "destroyed" /\ Undefined
       \/ life[txn[t].ptr] # "destroyed" /\ UNCHANGED undefined
    /\ TxnGoto(t, "close")
    /\ UNCHANGED <<life, conf, refs, current, sockets, sniffer_mutex, hand, reload_mutex,
                   reloader, consumer, stored_config_lock>>

\* handle_http_close: BotSniffer::on_http_close tries its mutex.
CloseTry(t) ==
    LET i == txn[t].ptr
    IN  /\ txn[t].pc = "close"
        /\ \/ /\ life[i] = "destroyed"
              /\ Undefined /\ TxnGoto(t, "release") /\ UNCHANGED sniffer_mutex
           \/ /\ life[i] # "destroyed" /\ conf[i].sniffer /\ sniffer_mutex[i] = Nobody
              /\ sniffer_mutex' = [sniffer_mutex EXCEPT ![i] = t]
              /\ TxnGoto(t, "close_held") /\ UNCHANGED undefined
           \/ /\ life[i] # "destroyed" /\ (~conf[i].sniffer \/ sniffer_mutex[i] # Nobody)
              /\ TxnGoto(t, "release") /\ UNCHANGED <<sniffer_mutex, undefined>>
        /\ UNCHANGED <<life, conf, refs, current, sockets, hand, reload_mutex, reloader,
                       consumer, stored_config_lock>>

\* An unbound socket is bound now if its endpoint has become free.
RebindNever(i) == UNCHANGED sniffer_socket
Rebind(i) == sniffer_socket' = IF sniffer_socket[i] = "unbound"
                               THEN [sniffer_socket EXCEPT ![i] = Bound]
                               ELSE sniffer_socket

CloseHeld(t) ==
    LET i == txn[t].ptr
    IN  /\ txn[t].pc = "close_held"
        /\ \/ /\ life[i] = "destroyed"
              /\ Undefined /\ UNCHANGED <<sniffer_socket, sniffer_mutex>>
           \/ /\ life[i] # "destroyed"
              /\ Rebind(i)
              /\ sniffer_mutex' = [sniffer_mutex EXCEPT ![i] = Nobody]
              /\ UNCHANGED undefined
        /\ TxnGoto(t, "release")
        /\ UNCHANGED <<life, conf, refs, current, swabber_socket, parked, hand, reload_mutex,
                       reloader, consumer, stored_config_lock>>

\* ~TransactionData
ReleaseRef(t) ==
    /\ txn[t].pc = "release"
    /\ DropRef(txn[t].ctrl)
    /\ txn' = [txn EXCEPT ![t] = NoTransaction]
    /\ UNCHANGED <<conf, current, sniffer_mutex, hand, reload_mutex, reloader, consumer,
                   stored_config_lock, undefined>>

-----------------------------------------------------------------------------
(* The thread of KafkaConsumer                                             *)

ConsumerStep == UNCHANGED <<life, conf, refs, current, sockets, sniffer_mutex, hand,
                            reload_mutex, reloader, txn, undefined>>

\* The stored configuration is loaded under the lock, then subscribed to.
LoadStored ==
    /\ consumer.pc = "load" /\ stored_config_lock = Nobody
    /\ consumer' = [consumer EXCEPT !.pc = "check", !.config_valid = TRUE,
                                    !.loaded = consumer.banjax]
    /\ ConsumerStep /\ UNCHANGED stored_config_lock

\* while (config_valid && !shutting_down), and while (!shutting_down) around it.
AfterCheckDeaf == IF consumer.config_valid THEN "consume"
                  ELSE IF consumer.shutting_down THEN "none" ELSE "load"
AfterCheck == IF consumer.shutting_down THEN "none"
              ELSE IF consumer.config_valid THEN "consume" ELSE "load"

Check ==
    /\ consumer.pc = "check"
    /\ consumer' = [consumer EXCEPT !.pc = AfterCheck]
    /\ ConsumerStep /\ UNCHANGED stored_config_lock

\* consume(2000) returns a message or an error; msg_consume skips it when it
\* does not get the lock.
Consume ==
    /\ consumer.pc = "consume"
    /\ \/ /\ stored_config_lock = Nobody
          /\ stored_config_lock' = "consumer"
          /\ consumer' = [consumer EXCEPT !.pc = "dispatch"]
       \/ /\ stored_config_lock # Nobody
          /\ consumer' = [consumer EXCEPT !.pc = "check"]
          /\ UNCHANGED stored_config_lock
    /\ ConsumerStep

\* banjax->kafka_message_consume, end of msg_consume.
Dispatch ==
    /\ consumer.pc = "dispatch"
    /\ consumer' = [consumer EXCEPT !.pc = "check"]
    /\ stored_config_lock' = Nobody
    /\ ConsumerStep

-----------------------------------------------------------------------------
\* A scheduled task (report_status, remove_expired_challenges) works on
\* current_state under reload_mutex.
TaskLock ==
    /\ reload_mutex = Nobody
    /\ reload_mutex' = Task
    /\ UNCHANGED <<life, conf, refs, current, sockets, sniffer_mutex, hand, reloader, txn,
                   consumer, stored_config_lock, undefined>>

TaskDone ==
    /\ reload_mutex = Task
    /\ reload_mutex' = Nobody
    /\ UNCHANGED <<life, conf, refs, current, sockets, sniffer_mutex, hand, reloader, txn,
                   consumer, stored_config_lock, undefined>>

ReloadStep ==
    \/ ReleaseSwabberSocket \/ ReleaseSnifferSocket
    \/ \E c \in Config : Construct(c)
    \/ BuildFilters
    \/ KafkaReset \/ KafkaJoin \/ KafkaConstruct \/ KafkaLock \/ KafkaStore
    \/ SwapPtr \/ SwapCtrl \/ ReloadDone

TxnStep(t) ==
    \/ ReadCtrl(t) \/ AddRef(t) \/ HandleRequest(t)
    \/ CloseTry(t) \/ CloseHeld(t) \/ ReleaseRef(t)

KafkaStep == LoadStored \/ Check \/ Consume \/ Dispatch

Defined(A) == ~undefined /\ A

Next == /\ ~undefined
        /\ \/ ReloadLock \/ ReloadStep
           \/ \E t \in Transactions : ReadPtr(t) \/ TxnStep(t)
           \/ KafkaStep
           \/ TaskLock \/ TaskDone

Spec == Init /\ [][Next]_vars

\* Whoever started goes on: transactions end, consume returns after at most
\* two seconds, the task ends.  The two locks that a reload waits for are held
\* for a moment at a time, the thread being elsewhere in between.
FairSpec ==
    /\ Spec
    /\ WF_vars(Defined(ReloadStep))
    /\ SF_vars(Defined(ReleaseSnifferSocket)) /\ SF_vars(Defined(KafkaLock))
    /\ \A t \in Transactions : WF_vars(Defined(TxnStep(t)))
    /\ WF_vars(Defined(KafkaStep))
    /\ WF_vars(Defined(TaskDone))

-----------------------------------------------------------------------------
\* The types of the variables; the reloader holds each lock just where the code
\* of reload_config does.
TypeOK ==
    /\ life \in [Instances -> {"unborn", "building", "built", "destroyed"}]
    /\ conf \in [Instances -> Config]
    /\ refs \in [Instances -> Nat]
    /\ current \in [ptr : Instances, ctrl : Instances]
    /\ {swabber_socket, sniffer_socket, parked} \subseteq [Instances -> Socket]
    /\ sniffer_mutex \in [Instances -> Transactions \cup {Nobody}]
    /\ hand \in [swabber : Socket, sniffer : Socket]
    /\ reload_mutex \in {Nobody, Reloader, Task}
    /\ reloader \in [pc : ReloaderPc, new : Instances]
    /\ txn \in [Transactions -> [pc : TxnPc, ptr : Instances \cup {0}, ctrl : Instances \cup {0}]]
    /\ consumer \in [pc : ConsumerPc, banjax : Instances \cup {0},
                     loaded : Instances \cup {0}, config_valid : BOOLEAN, shutting_down : BOOLEAN]
    /\ stored_config_lock \in {Nobody, Reloader, "consumer"}
    /\ reload_mutex = Reloader <=> reloader.pc # "idle"
    /\ stored_config_lock = Reloader <=> reloader.pc = "store"
    /\ stored_config_lock = "consumer" <=> consumer.pc = "dispatch"
    /\ undefined \in BOOLEAN

Holding == {"open", "close", "close_held", "release"}

\* The raw pointer of the consumer thread: at every moment of its life it
\* points to an instance whose filters are built and that is not destroyed,
\* whichever reloads and closing transactions the thread runs beside.
ConsumerTargetsBuilt == consumer.pc # "none" => life[consumer.banjax] = "built"

\* Between reloads the consumer exists just when the current configuration has
\* a kafka section, and works for the current instance; the current swabber,
\* and no other, owns the socket that bans go to, and it is bound.
HandedOver ==
    reloader.pc = "idle" =>
        /\ consumer.pc # "none" <=> conf[current.ptr].kafka
        /\ consumer.pc # "none" => consumer.banjax = current.ptr /\ ~consumer.shutting_down
        /\ \A i \in Instances : swabber_socket[i] = IF i = current.ptr THEN "bound" ELSE "none"

\* Nothing leaks and nothing dies early: between reloads an instance that was
\* made is destroyed just when it is not current and no open transaction
\* holds a reference to it.
FreedWhenUnused ==
    reloader.pc = "idle" /\ ~undefined =>
        \A i \in Instances : life[i] # "unborn" =>
            (life[i] = "destroyed" <=>
                /\ current.ctrl # i
                /\ \A t \in Transactions : txn[t].pc \in Holding => txn[t].ctrl # i)

\* What "This happens atomically, so (in theory) we don't need to wrap in in
\* mutex in the handle_transaction_start hook" says: an open transaction's
\* instance is alive.
TransactionsUseLive ==
    \A t \in Transactions : txn[t].pc \in Holding => life[txn[t].ptr] # "destroyed"

\* A reload that started ends, although it waits for the sniffer's mutex, for
\* the consumer's lock and for the consumer's thread.
ReloadEnds == (reloader.pc = "release_swabber") ~> (reloader.pc = "idle" \/ undefined)

\* The consumer takes up the configuration of the instance it works for.
ConsumerFollows ==
    (consumer.pc # "none" /\ consumer.loaded # consumer.banjax)
        ~> (consumer.loaded = consumer.banjax \/ consumer.pc = "none" \/ undefined)

\* If transactions keep closing, the bot sniffer of the last configuration gets
\* its endpoint, even when an instance that lingers had parked the socket.
SnifferBinds ==
    []<>(\E t \in Transactions : txn[t].pc = "close")
        => <>[](undefined \/ (conf[current.ptr].sniffer => sniffer_socket[current.ptr] = "bound"))
=============================================================================
