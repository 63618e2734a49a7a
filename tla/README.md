# A TLA+ model of banjax

banjax is a plugin of Apache Traffic Server (ATS). It looks at every request, asks
suspicious clients to solve a challenge, counts their failures and hits, and reports
addresses to *swabber*, a separate program that bans them. This directory holds TLA+
modules translated from the C++ sources, the TLC runs that check them on small
instances, and proofs checked by TLAPS. `PROJECT.json` links every definition to the
lines it models, every property to its runs, and lists findings, hazards and theorems.

## The system and its parts

| part | source | what it does |
|---|---|---|
| plugin | banjax.cpp, banjax.h | owns the current `Banjax` instance; a reload makes a new one, hands sockets and the Kafka consumer over and swaps a shared pointer; two scheduled tasks |
| transaction | transaction_data, transaction_muncher | follows the events of one HTTP transaction, retrieves the parts filters asked for, runs the filter chain, builds the answer |
| filters | white_lister, regex_manager, challenger, bot_sniffer, denialator | each looks at a request and returns a verdict |
| swabber interface | swabber.cpp | flags an address, waits for a grace period, publishes the ban on a ZeroMQ socket |
| ip databases | ip_db.h | one map per filter behind a mutex that is only tried, never waited for |
| challenger | challenger.cpp, cookiehash.cpp, config/*.html | captcha, computational and password challenges, cookies, failure counts, challenges set by Kafka |
| Kafka | kafka.cpp | a consumer thread that receives commands, a producer of reports |
| configuration | banjax.cpp 103-147 and 402-602, banjax_filter.h | YAML files with includes, merged sections, priorities of the filters |
| request data | cookie.cpp, base64.cpp, global_white_list.h, util.cpp | parse and decode what a client sends, look its address up |
| helpers | util, libcaptcha.c, defer.h, ... | pure functions and wrappers |

ATS calls the plugin from many threads. Almost all locks are try-locks, so an
operation that meets another thread gives up: state read in one critical section is
used in a later one, updates are lost, bans are dropped. A reload runs beside the
transactions, and so do the Kafka thread and the tasks. That is what the models are
about.

## Modules

| module | models | grain |
|---|---|---|
| `IpDb` | ip_db.h | operators on a map; the lock is in the modules that use it |
| `BanService` | what the swabber interface promises | abstract |
| `Swabber` | swabber.cpp, denialator.cpp | one step per lock operation |
| `FailureCount` | report_failure, report_success | one step per lock operation |
| `DynamicChallenges` | the two Kafka-fed maps of the challenger | one step per lock operation |
| `Challenger` | challenger.cpp, cookiehash.cpp, the scripts of the pages | one step per handler |
| `Plugin` | reload_config, hand-over, Kafka thread | one step per lock or pointer operation |
| `RegexManager` | regex_manager.cpp | one step per rule and lock operation |
| `Transaction` | transaction_data.cpp, transaction_muncher.cpp, bot_sniffer.cpp | one step per handler and per filter |
| `Configuration` | process_config, read_configuration, build_filters, merge_nodes | one step per node, per included file, per filter |
| `ConfiguredTransaction` | TSPluginInit: `Configuration`, then `Transaction` on what it built | composition |
| `WhiteList` | global_white_list.h, white_lister.cpp, the masks of util.cpp | one step per entry and per request |
| `Cookie` | cookie.cpp, the loop of check_cookie | one step per token |
| `Base64` | base64.cpp | one step per turn of a loop |
| `RequestData` | a request with a cookie: `WhiteList`, `Cookie` and `Base64` | composition |
| `MC*` | constants of the runs | |
| `*Proofs` | theorems | |

In the lock-level modules `pc[t]` is the statement thread `t` is at, `call[t]` its
locals, and a `..._held` value of `pc` means that the mutex is held. A failed try is
the disjunct in which another thread owns the mutex. `Tick` moves the clock; the clock
never goes back (the code uses wall time).

**Swabber.** `ban` is the path Enter, Get, GetHeld, (Set, SetHeld, Flag), Lock,
LockHeld, Send, Drop, DropHeld; `Denialator::on_http_request` is Request, DenyGet,
DenyGetHeld, DenyCheck and then `ban`. `asked` records every request to ban with its
time, `wire` what was sent, `ban_ip_list` the log. The Reloader takes the socket.
`overlapped` records that two handlers have been under way at once; each step of the
program (`ProgramStep`) comes with it. `BanService` has no locks: an address may be banned when two requests lie the grace
period apart and the service is open.

**FailureCount.** The ban and the database operation after it are separate steps.
`failures`, `recent`, `solved`, `credit`, `bans` and `overlapped` are history variables. A threshold
of 0 means no counting in `on_http_request`, so thresholds are positive.

**DynamicChallenges.** A lookup takes the mutex of the host map and keeps it to the end
of its block, but gives the mutex of the ip map back earlier. Nodes have identities, so
an iterator whose node was erased, or erased and inserted again, is told apart from a
valid one.

**Challenger.** A browser holds one cookie, since all challenges use the same name
(`deflect`, src/README.md:215). The hash is perfect: a cookie is its address, text and
expiry. Whether a client solves the computational problem or knows the password is a
choice of the browser. The whole of a handler is one step; how its database accesses
interleave is the subject of `FailureCount`. `AdmittedRecently` speaks of content
past a computational challenge or a captcha; for captchas it leaves out one kind of
cookie, the one that auth.html makes of a wrong password (`Guarded`). This limit is needed
on a host with both a password and a captcha, and after a reload from one to the other: the
check of a captcha's cookie does not look at what a script appended to it. For the same
reason `CaptchaSolved` speaks of hosts that had captchas only so far (`CaptchasOnly`).

**Plugin.** An instance is unborn, building, built or destroyed. Copying and assigning
the `shared_ptr` are two words each, read and written separately, because nothing
orders them; the use of a destroyed instance sets `undefined` and stops the model,
since nothing can be said of the program afterwards. There is one swabber and one
sniffer endpoint.

**RegexManager.** A request is the set of rules it matches. Rates are kept as exact
numbers of hits scaled by a common denominator; float rounding is left out. `kept` records
that requests came one at a time and that each stored what it judged: a rule that skips the
host makes `try_match` return before the vector is stored, and a busy database loses it.

**Transaction.** `filters` and `http_request_queue` are those that `Configuration` built
(its queue is `task_queue`). ATS calls that may fail
are chosen from `Unreliable`. ATS gives one event after the other and waits for the
reenable; it sends at most one request to the origin and one response to the client.
READ_CACHE_HDR and TIMEOUT are handled in the code but never hooked (banjax.cpp 171-174),
so they do not occur. An exception that leaves a handler ends the model ("thrown"). A
failed `TSHttpTxnServerRespNoStoreSet` for a white-listed client is only logged and is
left out.

**Configuration.** `stack` holds the calls of `process_config`, each with the nodes it has
still to look at, the files of an include it is in the middle of, and its
`current_sequential_priority`. A node is its name and what the code looks at in its value:
a list, one scalar, the numbers of a priority list. Every error is `abort_traffic_server`,
with its `reason`. Numbers are unbounded integers, and a priority list names only filters.
An unreadable main file is left out: nothing happens before the abort. `Walk` and `WalkFiles`
are the reference for what reading must find, the depth-first walk through the files; they
are constants, given by their equations (`WalkAssumption`), so that theorems can speak of
them, and `MCTransaction` defines them recursively.
`ConfiguredTransaction` lets transactions in only when the filters are built
(banjax.cpp 714-720) and gives them the order of `built`.

**WhiteList.** A word is the set of the positions of its one bits, so masking is an
intersection and shifting moves positions. Addresses have 3 bits in the run instead of 32. An address that does not
parse is all ones, as `inet_addr` says (so 255.255.255.255 matches it). The mask of /0
shifts a word by all of its bits, which is undefined, so both results that builds give are
explored.

**Cookie, Base64, RequestData.** Characters are their codes. `Cookie` keeps the cursor
`cookie_s` that `consume` moves, and `is_eol_at` and the skipping of `=` look past the end
of the view, at the terminating NUL of the string. The accumulators of `Base64` are words
of `Width` bits, so the bits that the code shifts out are lost in the model too. In
`RequestData` a value that was encoded is sent back among other cookies, found and decoded.
`OtherCookies` and `EndsValue` say what a browser may put around it: cookies with another
name, with or without a value, each up to its semicolon, and behind it spaces, then the end
of the header or line, or a semicolon and anything.

## Runs

| run | question | bounds | distinct states |
|---|---|---|---|
| MCSwabber | bans justified, denials asked for, log, refinement, the reload gets the socket | 2 threads, 2 ips (one white listed), 3 calls, grace 2, time 4 | 876,989 |
| MCFailureCount | bans and counts are earned; exact without overlap | 3 threads, thresholds 2 and 3, 5 calls | 187,064 |
| MCChallenger | who gets in showed a valid solution from its address, within the limit of `Guarded`; a visitor who plays along is served | 2 addresses (one globally white listed), 2 texts, 4 lists of challenges, 5 requests, 1 reload, time 3; visitor: 3 kinds of challenge, 2 reloads | 2,237,127 |
| MCDynamicChallenges | iterators valid, no early expiry, calls end | 2 threads, 3 requests, 2 messages, 2 tasks, time 3 | 527,150 |
| MCPlugin | hand-over, life time, reload ends, consumer follows, sniffer binds | 1 transaction slot, 2 reloads | 78,757 |
| MCRegexManager | bans need hits; spaced requests pass, a burst is banned | 2 threads at once: 3 rules, 2 hosts, 3 requests, time 4; one after the other: 1 rule, 6 requests, time 16 | 5,083,633 |
| MCTransaction | order of the filters, merged sections, aborts, one reenable, first verdict, answers, parts | all 326 lists of filters as priority lists, main files of up to 3 of 8 nodes with 11 included files, any failing call | 604,808 |
| MCRequestData | white list exact, cookies come back, encoder in bounds, the loop over the jar ends | lists of up to 2 entries over 3-bit addresses, payloads of up to 4 bytes, all jars of up to 4 of 8 characters, 16-bit accumulator | 126,103 |

Two threads suffice to interleave any two critical sections, and the third of
`MCFailureCount` lets a stale write meet a ban and a success. Three calls are enough to
flag, ban and flag an address again, with a denial in between. A transaction slot is used
again and again; two reloads let a third instance meet one that still lingers. In
`MCRegexManager` the initial state chooses between calls of two threads at once and calls
one after the other; the latter reach four intervals, so a window moves more than once.
`MCChallenger` chooses in the same way between any browser and a patient visitor. In
`MCRequestData` one part is varied while the others are small. A 16-bit accumulator loses
bits from the third byte on, as one of 32 bits does from the fifth; four bytes are the
padding of every length and a group that follows another. The files of `MCTransaction`
have each kind of node, an include within an included file, and a list with a number twice.
`MaxCalls`, `MaxRequests`, `MaxTime` and the like only stop the generation of work. When
they are used up nothing is left to do, hence `CHECK_DEADLOCK FALSE`; that nobody waits for
ever is what the liveness properties check. Symmetry of the threads is used only in runs
without liveness.

`LogAlternates`, `CountExact`, `SpacedNotBanned` and `FirstIntervalBans` are what the readme
and the comments promise, and the code keeps these promises as long as handlers do not
overlap (`overlapped`, `kept`).

The runs check the types of `Challenger`, `Plugin` and `ConfiguredTransaction`; those of the
other state machines with proofs are proved only.

Four more runs expect a violation (`findings` in PROJECT.json). Each states what a
comment says and shows that the code does otherwise:

| run | what the run shows |
|---|---|
| MCDynamicChallengesIp | the ip iterator is used after its mutex is given back |
| MCPluginCopy | copying `current_state` races with the assignment in the reload |
| MCTransactionLog | HIT and MISS are exchanged in the sniffer's log |
| MCConfigurationKafka | a Kafka section read before an include is forgotten |

Differences between text and code that the models follow on the side of the code:

- `report_success` stores 1, not an empty record (challenger.cpp:744, comment at 736);
  `CountExact` counts with it.
- `drop_ip` after a ban fails when the database is busy, and the count survives
  (challenger.cpp:725, comment at 724).
- Two overlapping calls of `ban` both log the address as flagged (swabber.cpp:124,
  src/README.md:321).
- A reload starts with empty ip databases (banjax.cpp:54, comment at banjax.h:107).
- A rate is wiped only when it would be negative (regex_manager.cpp:114 and its comment).
- A rule that skips the host ends the matching and what earlier rules counted is not
  stored (regex_manager.cpp:66, src/README.md:160).
- The validity bit of the url with host is set although ATS refused to set the host
  (transaction_muncher.cpp:232, transaction_muncher.h:68).
- Sequential priorities start from 0 in each file (banjax.cpp:527). Filters without a number
  that are first met in two files may get the same priority, which aborts the server, or an
  order that is not the order of reading. `OrderKept` therefore promises the order of
  sections for one file only, and `DoublyAssigned` says that nothing else aborts.
- A file that includes itself is read for ever; `ReadingEnds` is about files that do not.
- The interval settings are reset with the Kafka section for every file (banjax.cpp:533).
- `config/banjax-with-kafka.conf` has `brokers`, while the code starts Kafka only for
  `metadata.broker.list` (banjax.cpp:478).

## Fairness

- `Swabber!Fairness`: weak fairness of each thread inside a call, and of the release, for
  steps that change the variables of the program (`program`, all but `overlapped`).
  A thread inside `ban` never blocks, so a running thread goes on. The reloader waits
  for a mutex that may be taken again and again; calls are finitely many in the model,
  so weak fairness is enough. With endless traffic it rests on the fairness of the
  operating system's mutex.
- `DynamicChallenges!FairSpec`: weak fairness of requests, consumer and task, with the
  same remark on finitely many requests.
- `Plugin!FairSpec`: weak fairness of every thread, and strong fairness of the two
  blocking lock operations, whose mutex is held only for short sections between which
  it is free. New transactions are not assumed except in the premise of `SnifferBinds`.
- `MCChallenger!MCSpec`: the visitor takes the next step that the page asks for.
- `ConfiguredTransaction!ServerSpec` and `RequestData!RequestSpec`: weak fairness of the
  steps of one thread in code that waits for nothing.

## Proofs

TLAPS proves the following for all values of the constants that satisfy the named
assumptions: `SwabberAssumption`, `FailureAssumption`, `DynamicAssumption`,
`RegexAssumption`, `TransactionAssumption`, `ConfAssumption`, `ChallengerAssumption`,
`PluginAssumption`, `WidthAssumption`, `WhiteListAssumption`, `RequestAssumption` and
`WalkAssumption`. They say that the process names differ, that the sets inputs are drawn from
are not empty, that numbers are naturals, and that files and white lists are sequences of
nodes and of entries. `RegexAssumption` also states two facts of `Scale`, a power of the
interval, and `WidthAssumption` two of 2^`Width`, that the provers have no rule for.
`RequestAssumption` has the shape of the header around a cookie (above). `WalkAssumption`
gives the equations of the walk; they have a solution unless a file includes itself, and
then reading does not end either. Only `SectionsMerged` uses it. TLC evaluates the
assumptions in every run.

**SwabberProofs.** `DeliveredBansJustified` is not inductive, because a thread that is
about to send carries its justification in its program counter. `BanInvariant` adds what
each thread has established at each statement (`BanSound`), that a stored flag is the
time of a request that some filter made (`FlagsAsked`), and that mutexes are held exactly
in their sections (`MutexesHeld`). The set of requests only grows (`AskedGrows`), so what
a thread established survives the steps of the others (`OthersSound`). From
`TypeOK /\ BanInvariant` follow `BanInvariantHolds`, `BansJustified`, `DenialsAskedFor`,
`ReleasedIsSilent`, and `Refinement`: each step of `Swabber` is a step of `BanService` or
leaves its variables alone, under the mapping `open <- socket # "null"`.

`LogIsAlternating` is about handlers that run one at a time. `LogInvariant` relates the log
to the database: an address has a flag in the database just when its last line says so
(`Agree`), except the one whose handler is between the two changes (`Changing`), and of that
handler its statement tells which change is missing (`CallLogged`). Whether a log alternates
is then a matter of the line that is appended.

**FailureCountProofs.** `CountsEarned` bounds every stored record and every count in
flight by the failures counted so far plus one for a success. That bound only grows
(`EarnedGrows`), so stale writes cannot break it. `CountsAreEarned` also has
`RecordBelowThreshold`; `BansAreEarned` follows. `CountIsExact` needs, for reports that do
not overlap, that the mutex is never found taken and that every record is exact but the one
that the report in progress is about to write (`ExactInvariant`).

**DynamicChallengesProofs.** Mutual exclusion (`MutexesHeld`) and the change a step can
make to a map (`MapChange`) give `LookupsSafe`: a host node can be erased only by the
holder of the mutex that the lookup still owns. `ExpiryNotEarly` rests on the time stamps
of `TypeOK`: the task's time is never later than the clock.

**RegexManagerProofs.** `TypeCorrect` bounds rates and windows. `BanNeedsHits` needs to know
that every rate, stored or in the hands of a thread, is at most the hits judged so far
(`HitsInvariant`). Judged hits only grow (`JudgedGrows`), and reducing a rate when the window
moves never raises it (`ShareNat`, `UpdatedBounds`), so writing a stale vector cannot break
the bound. `BansEarned` follows since a ban compares the scaled rate with the rule
(`ScaleDown`).

`SpacedIsSafe` and `FirstIntervalCounts` need both directions. `WindowInvariant` says that,
while `kept`, a rate agrees with what was judged wherever it is, in the database (`Stored`) or
with the one request that is under way (`Local`). In the interval that the first hit began
the rate is the number of hits; afterwards the window ends with the last hit (`Reflects`).
Spaced hits are few in the first interval, and later their rate stays below that of the rule
(`Sparse`): `FirstMove` and `LaterMove` show that what a move of the window takes away makes
room for the new hit. The attempt to prove it without a condition showed that a rule with
`hits_per_interval` 1 bans at the first hit however far hits lie apart, so no hits are spaced
for such a rule.

**ConfiguredTransactionProofs.** All theorems are about `ServerSpec`: any files are read,
the filters built, and transactions run on the result. `ServerInvariant` has three parts;
`WholeInvariant` is beside it.

- Reading and building. `ReadingInvariant` is about the stack: each call in it has its own
  number, and the sections that a call gave a priority have distinct numbers below that
  call's counter, in the order in which they were read. `PhaseInvariant`, `Numbered` and
  `BuiltInOrder` carry this through the assignment of the numbers and the building of the
  filters; `MaxOfRanks` shows that the greatest number of a finite list exists, so a filter
  of the list never meets one that is put behind it. `FilterOrder` and `AbortsExplained`
  follow for all files, those that include themselves too.
- The hand-over. No transaction starts before the instance is current, and it finds there
  the filters and the queue that were built, in their order (`Serving`). With
  `BuiltInOrder` this gives `WhiteListFirst`, a property of both components.
- The transaction. `TransactionInvariant` ties the program counter to the event and the
  number of reenables (`EventOrder`, `ReenableOrder`), the results to the position in the
  queue (`ResultOrder`), and the source of the page to what was decided before
  (`SourceOrder`, `CacheOrder`). `MuncherOrder` says that a bit that is set has its part as
  long as no call failed, and that what the filters asked for is there once they run.
  `EventsReenabledOnce`, `VerdictStands`, `AnswersStay`, `FreshIsFresh` and `PartsSuffice`
  follow, for every set of calls that may fail; `ServerTypes` has the types of both.
- The content of the sections. `SectionsMerged` compares what was built with the walk, so it
  must be known in the middle of reading that nothing is forgotten: `WalkInvariant` says that
  the nodes read so far, followed by what the calls on the stack still have ahead of them
  (`HasRest`), are the walk. Entering an included file moves its nodes from one call to the
  next and keeps that sum. `FilterSections` says that a filter's list has all of its sections
  read so far, in the order of reading (`HasAll`), and `FiltersMerged` that a filter that is
  built was merged from its list, and that the white list is that of the white lister.
  `MergedAll` says what `merge_nodes` makes of a list: all entries, and the last scalar.

**PluginProofs.** A reload passes through states in which nothing is where the properties
want it, so `PluginInvariant` says where everything is at each statement of `reload_config`:
the two words of `current_state` (`Place`), which instances are born and which must live
(`Born`, `Alive`), the consumer's instance (`Consumes`) and the one bound socket (`Bans`).
`Counted` makes `use_count` the number of transactions that hold an instance, plus one for
the plugin, as long as nothing undefined has happened; `Pointers` says that a transaction
has only seen instances that were current. From it follow `ConsumerSafe`, `HandOver` and
`Freed`, for any set of transactions and any number of reloads; `TypeCorrect` is proved
beforehand.

**ChallengerProofs.** `AdmissionInvariant` says of each cookie that could open the host
that a solution of its address was accepted, and that the cookie's time is counted from
there (`CookieEarned`, but for one made of a wrong password), and of the token in a page
that it is not older than its challenge allows (`TokenFresh`), because the script turns it
into a cookie later, after the clock moved. `CaptchaInvariant` adds, for a host with
captchas only, that such a cookie belongs to an address that gave a text, also the cookie
that a waiting transaction was sent with: the answer is judged by that one, not by the one
the browser holds meanwhile. One lemma (`Turn`) covers every step that serves a browser;
each handler then only shows that what it gives is backed. `Admission` and
`CaptchasSolved` follow, for any number of browsers and addresses and all configurations.
`TypeCorrect` includes that a count above one is below the threshold of some challenge.
They are about `Spec`, where every request is taken from the budget; the patient visitor
of `MCChallenger` is checked by TLC only.

**RequestDataProofs.** The theorems are about `RequestSpec`. `Balance` says that six times
the characters written and the bits collected make eight times the bytes taken; `EncodeSafe`
follows with the size that was reserved (`Room`). `SubnetMatch` speaks of the entries of the
section, while the lister looks at the ranges made of them: `ListInvariant` says that each
range comes from an entry that was loaded (`Sources`), that each such entry has a range
(`Covered`), and that a verdict was given by the whole list. `MaskOfPrefix` and `MatchMeans`
show what a mask compares, for both results of the shift that is undefined; `WhiteListExact`
follows for words of any length.

`CookieComesBack` follows a value from the encoder through the parser to the decoder.
`CookieInvariant` has a part for each:

- `Written`: each character that was put is the sextet at its place among the bits of the
  payload, the rest is padding, and the accumulator ends in the last two bytes, whatever was
  shifted out of it (`LowBits`, `ShiftOut`; this is where the 14 bits are needed).
- `Parsing`: `cookie_s` is always a rest of the jar, and where `consume` stands in it tells how
  much of a cookie lies ahead (`AtCookie`, `AtName`, `AfterName`, `AtValue`). Each step leads to
  the next such place and never past the deflect cookie (`SearchStep`), whose value ends
  where banjax ended it although `=` is padding as well as separator (`DeflectValueStep`).
- `Reading`: the decoder has returned the bytes of the characters read so far, and its
  word ends in their last two sextets; the padding adds nothing (`ReadChar`).

`Life` puts them in order. The characters are compared one by one, group by group (`Groups`,
`NextSextet`, `NextByte`).

Two facts about sequences of any length need induction: how far a run of characters reaches,
and that a fold over sections exists. They are proved with the least number that would be an
exception (`LeastElement`, from the well-founded order of the naturals), which needs no rule
with an operator as a parameter.

Only model-checked:

- the liveness properties `ReleaseCompletes`, `CallsComplete`, `ReloadEnds`,
  `ConsumerFollows`, `SnifferBinds`, `EventuallyServed`, `ReadingEnds` and `CheckEnds`, which
  are beyond the prover.

Every invariant and every action property of the passing runs is proved.

## What is not modelled

- YAML itself: parsing, and values of the wrong kind, except that a bad section aborts.
- Hashing (taken as perfect), encryption, the quoting of log fields and the captcha image.
- The reports that the Kafka producer sends, debug output, the text of log lines. Log
  lines are written in one step.
- `libzmq`, `librdkafka` and ATS, except as the code uses them; they are marked external.
- Exit of the process: `kafka_producer` is declared after `kafka_consumer` (banjax.h:80), so it
  is destroyed first while the consumer thread may still run. A reload takes the consumer
  away beforehand, so only the exit could show it.
- `IpDb::size` is read without the lock, for a report only (ip_db.h:109).
- `report_status` uses `challenger` without a test (banjax.cpp:236); the report is output.

## Plan

1. Compose `Swabber` with the filters that call it, and `DynamicChallenges` with `Plugin`,
   to follow a Kafka command across a reload.
2. Let `Plugin` keep the ip databases of an instance, and its exit.
