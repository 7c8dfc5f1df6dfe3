# A TLA+ model of dhcpkit's DHCPv6 server

dhcpkit is a DHCPv6 library and server in Python. Its server, `ipv6-dhcpd`, is
one master process, a pool of worker processes and a few helpers; this
directory models its processes, its stores and its decisions, checks them with
TLC and proves the most important results with TLAPS.

Every definition in a module is a translation of the source; `PROJECT.json`
says of which lines ("map"), which runs there are, which faulty variant of the
code each property catches ("mutants"), and which hazards the properties are
for. Operators with the comment "faulty variant" exist for that purpose only
and are not part of the specifications.

## 1. Inventory

### Components

| Component | Source (`src/dhcpkit/...`) | State it keeps | Operations | Model |
|---|---|---|---|---|
| Master process | `ipv6/server/main.py` | configuration, listeners, selector map, exception history, PID file, control socket | apply a configuration, select loop, signals, commands, stop | `ServerMain` |
| Worker pool | `nonblocking_pool.py`, `worker.py` | task queue, worker processes | start, fail to start (SIGUSR1), take, finish, close, join | `ServerMain` |
| Control socket | `control_socket.py` | connections, read buffer | accept, read commands, answer, close | `ServerMain` (partly) |
| Message handling | `worker.py`, `message_handler.py`, `transaction_bundle.py` | the transaction bundle, counters | parse, pre/handle/post phases, error replies, send | `MessageHandling` (decisions), `Answers` (contents and way back) |
| Standard handlers | `handlers/` | none | one decision each about a message or its IA options; copy or add an option | `MessageHandling`, `Answers` |
| Filters | `filters/` | the tree of filters and handlers | select the handlers of a message | `MessageHandling` (abstract) |
| Static assignments | `extensions/static_assignments/` | a mapping from client to address and prefix | request, confirm, renew, release, decline; import | `MessageHandling` (not the stores) |
| Prefix delegation | `extensions/prefix_delegation.py` | none | answer IA_PDs nobody took | `MessageHandling` |
| Leasequery handler | `extensions/leasequery/__init__.py`, `bulk_leasequery.py` | none | access check, look-up, lazily generated answers | `MessageHandling`, `Answers` |
| Leasequery store | `extensions/leasequery/sqlite.py` | five SQL tables shared by all workers | remember a lease, look up, clean at start-up | `LeaseStore`, `LeaseOwners` |
| Rate limiting | `extensions/rate_limit/` | a token bucket per client in a manager process | check a request | `RateLimit` |
| Statistics | `statistics.py` | counters in shared memory, by category | count, change the categories, export | `Statistics` |
| Timing limits | `extensions/timing_limits/` | bounds of the two timers | validate, construct, calculate, limit | `TimingLimits` |
| UDP listeners | `listeners/udp.py` | sockets | receive, reply | `ServerMain` (events), `Answers` (replies) |
| TCP listeners | `listeners/tcp.py` | connections, their buffers and reply locks, the sockets that are counted | accept, receive, reply, close | `TcpConnections`, `Exchanges`; as events in `ServerMain` |
| Option adding extensions | `extensions/dns`, `ntp`, `map`, `sntp`, `sip_servers`, `sol_max_rt`, `dslite` | none | add, combine or overwrite an option | `Answers` |
| Messages, options, DUIDs | `ipv6/messages.py`, `options.py`, `duids.py`, `ipv6/extensions/`, `protocol_element.py` | none | parse, validate, save | `Formats`, `Contents`, `Parsing` |
| Relay chain | `messages.py`, `ipv6/utils.py`, `handlers/basic_relay.py` | none | split, wrap, copy options of relays | `Answers` |
| Everything else | see `PROJECT.json` | | log queue, privileges, socket factories, tools | not modelled, reasons there |

### How they interact

* The **kernel** reports readable sockets to the **master**'s `select()`. The
  master receives one complete request per event and puts it in the pool's
  task queue; it never handles a request itself.
* **Signals** (SIGHUP, SIGTERM, SIGINT, and SIGUSR1 from a worker that cannot be
  initialised) are bytes in a pipe that `select()` watches. The commands
  `reload` and `shutdown` of a **control connection** write the same bytes.
* A reload leaves the inner loop, closes and joins the pool, removes the files
  and enters the outer loop again with the new configuration. Listeners are new
  objects over recycled sockets; TCP connections of the old configuration go.
* A **worker** parses the message, runs it through the handlers that the
  filters select, in the phases pre, handle and post, and sends the answers
  itself. Handlers read and write what workers share: the **leasequery store**
  (SQLite, a connection per worker), the **rate limiter** (a manager process
  with a thread per worker) and the **statistics** (shared memory with locks).
* Log records go through a queue to a thread of the master.

### What is hard about it

* **Concurrency**: transactions of workers in the store interleave; so do
  threads of the rate limiter; all workers increment the same counters; signals,
  commands, connections and requests arrive in any order.
* **Reloads** replace nearly everything while connections are open, requests
  are queued and events of the last `select()` are unhandled.
* **Failure**: configurations that load but cannot be applied, workers that
  cannot start, handlers that raise, transactions that time out half way
  through recording a lease, peers that go away.
* **Order**: which handler takes an IA option first; an error after an answer
  was prepared; commands and signals that contradict each other.
* **Streams**: requests come in pieces over connections that block, several
  workers answer on one connection, and a worker changes how the master reads.
* **Nesting**: options in options in messages in options, each with a length
  of its own that is only compared afterwards with what was used.
* **Numbers**: an exception window, a token bucket in fractions of a request,
  timers limited by bounds that depend on each other.
* **Progress**: `pool.join()` waits for the workers, whatever state they are in.

What makes the components correct:

* master: the selector watches what the configuration says, nothing is lost
  in a reload, the files in use exist and no others, the exception budget is
  what it says, and stopping is final and always ends;
* message handling: every message is accounted for, every IA is answered
  once, commitments are only made if allowed and asked for, leases are kept;
* store: one owner per address, disjoint prefixes, no orphaned rows, ids and
  answers that belong to one request;
* answers: they hold what their type demands and go back the way that the
  request came, whatever handlers are configured;
* parsing: what is accepted has been used to its end, element by element, and
  is saved as it was read;
* TCP: requests are whole and in order, replies are not mixed, the limit on
  connections holds and clients are answered;
* rate limiter, statistics, timers: the limit holds and is not stricter than
  it has to be, no count is lost, the timers are ordered and within bounds.

## 2. Modules

| Module | What it is |
|---|---|
| `ServerMain`, `ServerMain_proofs` | master, pool and the world around them; `MCServerMain` |
| `MessageHandling`, `MessageHandling_proofs` | one worker and the whole handler chain; `MCMessageHandling` |
| `LeaseStore` | transactions of `remember_lease()`, a look-up, start-up cleaning; `MCLeaseStore` |
| `LeaseOwners` | what the address table promises: who owns an address |
| `LeaseStore_proofs` | the store's invariants and that it implements `LeaseOwners` |
| `RateLimit`, `RateLimit_proofs` | the token bucket and its concurrent callers; `MCRateLimit` |
| `Formats` | every class of option, suboption, message and DUID as lengths and kinds of contents; the registries |
| `Contents` | the tables of `add_may_contain()` and `validate_contains()` |
| `Parsing`, `Parsing_proofs` | parsing a datagram, element by element; extends `Formats`; `MCParsing`. The proofs are also those of `Answers` |
| `Answers` | options and relay-replies of what a worker sends; extends `Contents`; `MCAnswers` |
| `TcpConnections`, `TcpConnections_proofs` | octets, messages and replies on TCP connections; `MCTcpConnections` |
| `Exchanges` | what these connections promise: each message taken once, each reply sent once or given up |
| `Selections` | options and handlers selected from lists; extended by `MessageHandling` and `Answers` |
| `Statistics`, `Statistics_proofs` | shared counters and their categories; `MCStatistics` |
| `TimingLimits`, `TimingLimits_proofs` | the timers T1 and T2 of an IA; `MCTimingLimits` |

### ServerMain

`pc` is where the master is: `top`, `files`, `register`, `start` are the
statements of the outer loop in order, `select` and `events` the inner loop,
`commands` the loop over the commands of one control connection, `closing`,
`joining`, `cleanup` what follows the inner loop. Local variables of `main()`
keep their names: `running`, `stopping`, `config`, `listeners`,
`history` (`exception_history`), `count` (`count_exception`). `reg` is the selector's map,
`todo` the events of this `select()` not handled yet (in any order: the order
of the map is the operating system's). A listener object is named by its
address and by the generation (`gen`) that created it, because a reload creates
new objects for the same address and the code compares objects. A request is a
count: its content is `MessageHandling`'s.

`multiprocessing.Pool` is external, modelled from how `main.py` uses it: close
lets queued tasks finish, join waits for them, dead workers are replaced as
long as the pool is open or results are missing. The world is external as well:
packets, clients, operators, signals, an edited configuration file, the clock.

A configuration can fail in three places: opening a listener, creating the
control socket, creating the message handler.

### MessageHandling

`stage` and `pos` say which handler of which phase is next; `request`,
`response`, `handled` are the fields of the bundle. A response is its type, its
status, and one record per IA option in it with the addresses that live and
those withdrawn (lifetime zero). Every error path of `handle()` is there: the
exceptions that ignore a message, those that answer with a status, and any
other, which ends in `handle_message()`. `more` is what is left of the list
that a bulk leasequery's iterator produces while the answer is sent. The
leasequery store and the rate limiter are nondeterministic here; their own
modules say what they do. `leased` is the client's memory: what replies that
arrived have given it (replies may get lost).

The options of a message that a handler may still take are picked by the recursive
functions of `Selections` (`Those`, `Among`) in the order of the message, as the list
comprehensions of the code do.

Filters are abstract: a configured handler carries the ways to come in
(multicast, unicast, relayed, TCP) that the filters around it match.

What comes in is what the tables of `Contents` let through: requests for
another server or without a server-id where one is demanded, IA_PDs in a
decline and IAs in an information-request are refused before.

### Formats, Contents and Parsing

`Formats` has one definition for each class that reads and writes octets:
what its `load_from()` demands of the length in the header (`least`, `most`),
the fields that are always read (`fixed`) and what follows them until the length has
been used up (`rest`). Values are left out; whether `load_from()` or
`validate()` refuses one is a choice of `Parsing` (`RefuseElement`, `Validate`).

`Parsing` runs through a datagram with the position (`pos`) and a stack of the
elements that are being read (`elements`): where each is to end, and whether
its class compares that with where its contents ended. Options are parsed with no limit
but the end of the datagram, as in the code: an inner element may run past the
outer one, and only the comparison refuses it. `altered` notes an element
whose length on saving differs from the length read. The contents of the
datagram are chosen on the way.

`Contents` has the calls of `add_may_contain()` as rows: for some classes of
containers, [class of the element -> minimum and maximum]. What a class may contain is
what the rows say about it and its base classes together
(`MayContain`, a `ChainMap` in the code), and an element counts
as the most specific class named (`ElementClasses`).

### Answers

The same phases as in `MessageHandling`, seen from the response: `response`
is its type and the list of its options, `following` the messages of a bulk
answer after it, `incoming` and `outgoing` are the chains of relay-forwards and relay-replies,
with a relay-forward of the server's own around what was received. Chains are
kept innermost first, as `incoming_relay_messages` is. The handlers of the
code that put options into messages are of five kinds: overwrite, copy, add
(with the two forms of `combine()` and the one that fails), copy for every
relay, and leasequery; a configuration is a sequence of them. Which errors
are raised is left open: any handler may refuse what its phase allows. The
specification is called `AnswersSpec` because one module of proofs extends
`Parsing` and `Answers`.

### TcpConnections and Exchanges

An octet is the message it belongs to and its place in it, so that framing is
about the octets themselves. `arriving` is the kernel's receive buffer,
`buffer` is `TCPConnection.buffer`, `reading` is the connection whose second `recv()`
waits: then the master does nothing else. `nonblocking` is the flag of the
open file that master and workers share. `newListener`, `replier` and `events` are
local variables of `main()` that keep closed connections alive, which
`open_sockets` (weak references) counts.

`Exchanges` has no octets, pieces, queue or locks: how many messages of each
client were taken, which of them wait for their replies and which have them.
`ImplementsExchanges` is the refinement: a message is taken by the
step that receives its last octet, waits in the queue and then with the worker that took it, and
is answered by the step that writes the last octet of its reply. `GiveUp` is
what `FailToReply` maps to, if octets were left.

### LeaseStore and LeaseOwners

One action is one SQL transaction, or one statement outside of one. That is the
point of the module: Python's `sqlite3` starts a transaction at the first
INSERT, UPDATE or DELETE, and not at `with self.db`, so that a SELECT before it
is a step of its own. `pc` is the part of `remember_lease()` a worker is in.
`stale` is whether the database has changed since a worker's open SELECT:
SQLite then refuses to upgrade the snapshot ("database is locked").
`LockTimeout` cuts `remember_lease()` short before any transaction.
Prefixes are sets of subnets so that overlapping is intersection.

`LeaseOwners` has one function, from address to owner, and the steps grant and
forget. `ImplementsOwners` is the refinement with
`owner[a] = the client of the row for a`.

### RateLimit

`check_request()` cut into reading the clock, reading the stored state and
storing the new one, for each thread of the manager process. Arithmetic is
exact in units of 1/`Per` of a request, where the code has floats. The clock
does not go back (`time.time()` can; nothing is promised then).

### Statistics

`set_categories()` of the master and the counting of the workers.
`UpdatedCategories` is the code as it is: its set of categories to remove is
pruned only inside `if key not in container`, so that it always is all existing
ones (see section 6).

### TimingLimits

Sections that the configuration accepts, the bounds a constructor makes of them
(a minimum never above its maximum, T2's at least T1's), and the timers
of an option with any leases through a chain of such handlers. `Infinity` is
the greatest time, zero is "not set". Factors are in units of 1/`Parts`, and
the rounding of floats is not modelled.

## 3. What the runs show

| Run | Instance | Shows |
|---|---|---|
| `server_reload` | two UDP addresses, a TCP address, a TCP connection, two workers, two packets, two signals, five configurations of which three fail to apply in the three possible places | `SelectorFollowsListeners`, `RequestsAccounted`, `NothingLeftBehind`, `FilesFollowConfig` |
| `server_stopping` | a control connection, a UDP listener, one worker that may fail to start, one handler that raises, two signals or commands | under fairness: `TerminationLeadsToExit`, `ShutdownKept`, `RequestsServed` |
| `server_exceptions` | two limits on exceptions with windows of 1 and 2, two workers, two raising handlers and a failing worker, a clock of three times, two signals | `ExceptionBudget`, `NoRevival` |
| `server_workers_fail` | two workers that always fail to start | **violated**: `TooManyExceptionsStop` |
| `lease_leases` | two clients, two addresses, overlapping prefixes, relay-ids and remote-ids, two workers, three jobs, one transaction that times out, expiry | `AddressHasOneOwner`, `PrefixesDisjoint`, `RowsHaveClients`, `ImplementsOwners`, `IdsReplaced` |
| `rate_one_thread` | 2 requests per 3 s, burst 2, up to 7 requests in 6 s | `RateLimited`, `RefusalsJustified` |
| `handling_messages` | three messages of one client in sequence, of every type, eight lists of IA options, four ways to come in, leasequeries simple and bulk, seven configured or optional handlers | `MessagesAccounted`, `IAsAnswered`, `RapidCommitGrantsAll`, `LeasesKept`, `ErrorsStandAlone` |
| `stats_count` | three workers, two categories, three packets, three reloads | `NothingLost`, `UnwantedRemoved` |
| `parsing_datagrams` | 11 datagrams of several kinds and sizes, 11 header lengths around every minimum and maximum, every class of `Formats`, nesting up to a message in an option in a message | `AcceptedWhole`, `ElementsAreTheirBytes` |
| `answers_sent` | 11 requests (valid, invalid, with and without an option-request), 5 chains of up to two relays, multicast, unicast and TCP, every pair of 10 handlers, up to 3 leases | `ResponsesValid`, `RelayRepliesMirror` |
| `tcp_connections` | 3 clients for 2 places, up to 2 messages of 0 or 1 octets each, every way to cut them, 2 workers, replies of 2 octets in pieces | `RequestsAsSent`, `RepliesWhole`, `ConnectionsLimited`, `ImplementsExchanges`; under fairness `RequestsAnswered` |
| `timing_limits` | chains of two sections out of bounds that agree, meet, cross and are refused; times from zero to infinity | `TimersOrdered`, `LimitsKept`, `Settled` |

### Why the bounds are enough

* *Reloads*: two signals give two reloads, or a reload and a termination in
  either order; the selector's pruning and the file names compare the last two
  generations only.
* *Exceptions*: the windows are 1 and 2 and the limits 1 and 2, so three exceptions over
  three times put some inside, at the edge of and outside the shorter window, and go
  over either limit, also after a reload from one to the other. `ExceptionBudget`
  counts within the shortest window, since the history may have been pruned
  with it. `InWindowStrict` (the edge is outside) is caught.
* *Pipe*: in `server_stopping` and `server_exceptions` six bytes hold all
  signals these instances can send, since a real pipe holds 65536. The branch
  for a full pipe (a lost SIGUSR1, `BlockingIOError` for a command) is modelled
  and not expected to be reached by the liveness runs: with a full pipe a
  client can be told of a shutdown whose signal is then not written.
* *Store*: every pair of transactions of two workers interleaves; three jobs
  let a third one meet the outcome of two. That more clients, addresses and
  workers change nothing is proved.
* *Rate*: seven requests are more than any burst and refill of the instance;
  for all rates it is proved.
* *Parsing*: 62 octets are a relay-forward with room for a relayed message that
  has an option in an option. `MaxDepth` is the interpreter's recursion limit,
  which real datagrams do not reach and the refusal at which is that of any error.
* *Answers*: handlers interact through the options of one class, so that pairs
  show it: the same kind twice, in either order. Two relays are the shortest
  chain whose order matters.
* *TCP*: lengths 0 and 1 are the smallest message and the smallest that takes a
  second `recv()`; two messages on a connection let the end of one and the
  beginning of the next arrive together.
* *Handling*: handlers look at one message at a time. What three messages add
  is what a client got before (grant, loss, renewal) and counters that add up.
* *Timers*: timers and lifetimes lie below, between and above the bounds of a
  section, and are zero or infinite; for all times it is proved.

Deadlock checking is off where the system may rest: no more requests,
packets or messages. It is on for `ServerMain`, whose `exited` state stutters
explicitly, and for `LeaseStore` and `TimingLimits`.

### Fairness

`FairSpec` of `ServerMain` has weak fairness of the master and of each worker's
process: the operating system schedules runnable processes. It is justified
because no step of theirs that the model contains depends on anything else: in
`events` and `commands` there is always a next step, and `select()` is enabled
when an event is ready. The environment has no fairness: nobody has to send,
connect, edit a file or advance the clock. Worker initialisation fails finitely
often in `server_stopping` ("flaky"); in `server_workers_fail` it
always fails. A master blocked in `recv()` on a half-sent TCP message breaks this
assumption; TCP is not in that run. Requests end (`FinishRequest`): handlers have no loops that wait.

`TcpConnections` has weak fairness of the master's receiving and of the
workers, and of clients in the middle of a message, who send more or close
the connection. The last is an assumption about the environment, and no small one: without it one
client stops the whole server, since accepted sockets block (`tcp.py:113`).
Accepting is not assumed to happen: a client may stay in the backlog.

## 4. What is proved

TLAPS proves 38 theorems, for every value of the constants that the assumptions
in the modules allow. The assumptions are typing of the inputs, and besides:

* `ServerMain`: the workers are finitely many and at least one;
  names, addresses and connections are told apart;
* `LeaseStore`, `TcpConnections`, `Statistics`, `TimingLimits`: the value for "none" is none of the others;
  a reply has two octets or more (`TcpConnections`), and
  the workers are finitely many (`Statistics`);
* `RateLimit`: rate, period and burst are positive, as the configuration demands;
* `MessageHandling`: requests hold sequences of IA options of the three kinds, and the
  configured handlers are of the five classes that the module has; for
  `EveryIAIsAnswered` also `RequestsAreDistinct`: an IAID is used once per kind of IA,
  as `options.py` lines 411 and 637 say (the code does not check it), a decline has no IA_PD,
  and an information-request or leasequery has no IA (the tables in `Contents`).
  `MCMessageHandling` assumes it too, so that TLC evaluates it. For `LeasesAreKept`
  also `OneAssignment`: at most one handler assigns statically, and no filter keeps a
  message from it. With two, or with filters by which a client's messages find different
  handlers, what one has assigned another withdraws: that is a
  property of the configuration, and the code does not check it either;
* `Parsing`: datagrams have lengths, headers say at most 2^16 - 1;
* `Answers`: options, relays and handlers are lists, and a handler is one of the
  kinds that the module has: none is configured to add what only a leasequery puts into
  its answer, and none copies the relayed message from one relay to the other.

The bounds that keep runs finite (`MaxPackets`, `MaxJobs`, ...) are arbitrary, so
that the theorems say nothing less for having them.

* **ServerMain** (`ServerMain_proofs`), for any listeners, connections, workers and
  configurations: `TypeCorrect`, `RequestsAreAccounted`, `NothingIsLeftBehind`,
  `SelectorIsCorrect`, `FilesAreCorrect`, `NothingIsRevived`, `BudgetIsKept`.
  Each property holds in some phases of the master and needs to know what the
  phases before left. `PoolInv`: between two pools nothing is queued and
  no process works, so that the counts of two generations add up.
  `SelectorInv`: the events of a round are registered whatever handlers before
  them have unregistered, and while the files and the pool are made anew the map
  still holds objects of the old configuration. `FilesInv`: the names are those of
  the files in use, also after a hang-up signal has changed the configuration,
  until the end of the inner loop deletes them. `DecidedInv`: once the server
  has decided, no event is left in the round from which a reload could come.
  `HistoryInv`: the exception history is what is left of all exceptions counted
  after some were popped from its front, each outside of the shortest window.
* **MessageHandling** (`MessageHandling_proofs`), for any requests, chains of handlers
  and options: `TypeCorrect`, `MessagesAreAccounted`, `ErrorsAreAlone`,
  `RapidCommitOnlyGrants`, `EveryIAIsAnswered`. `HandlingInv` has four parts. `TypeInv`: the response is a
  record with a type when it matters, and only options of the request at hand
  are handled. `CountInv`: the message at hand has been counted as it came in and
  not yet as it goes, so that what is open is one more than in between.
  `MoreInv`: data messages are left only for the answer to a leasequery that tells
  of no error, and there are none before the handle phase. `RapidInv`: what a
  handler took from a solicit it has granted, and the advertise is turned into
  a reply only when that is every IA option. `AnswersInv` is for `EveryIAIsAnswered`:
  from the handle phase to sending, exactly the IA options that are `Due` have an
  answer, one each: those that a handler took and those whose clean-up handler
  has had its turn. It needs to know where the clean-up handlers are in any
  chain (`ChainEnd`), that none is passed over (`Turn`), and that what a handler adds
  is for options that were not due (`OncePicked`, `OnceConcat`). `LeasesAreKept` rests on
  `KeptInv`: what has been leased is assigned, answers give what is assigned only and
  withdraw none of it, and once the assigning handler has had its turn, every IA of
  a renewal that holds an assigned address has been taken and given it again.
* **Parsing** (`Parsing_proofs`), for all datagrams, lengths and depths: `TypeCorrect`,
  `AcceptedIsWhole`, `BytesAreKept`. `WholeInv`: only the outermost element is not
  compared with its length, and it is the datagram. So if an element ended elsewhere, it
  was that one, and then the position is beyond the datagram's end, which is what
  `validate()` finds as a transaction-id that is too short. `BytesAreKept` rests on
  a reading of the whole table of options: every class but the seven that the
  property names has a kind of contents that uses what the header says, or
  fields no longer than the least length (`Dependable`).
* **Answers** (also in `Parsing_proofs`), for all requests, relays and chains of handlers:
  `RelaysAreMirrored`, `ResponsesAreValid`. `MirrorInv` has three parts. `Mirrored`: the outgoing chain, once it has
  been made, is as long as the incoming one and has its hop counts and addresses.
  `Echoed`: from the fifth handler on, the interface-ids of each outgoing relay are
  those of the incoming one, whatever handlers put in or take out. `UnderWay`: what came in
  stays as it was. The lemmas are about options selected from lists
  (`ThoseJoined`, `ThoseOfThose`): an option of a class is neither lost nor doubled by
  a handler for a class that is neither a part nor a kind of it.
  `ResponsesAreValid` needs two more invariants. `AnswerInv` says what the response holds
  after each handler (`Held`): no class of options twice and none that its table lacks,
  the server-id from the second handler on and the client-id from the third, and what a
  leasequery adds only once one has been answered. That is more than the tables ask, and
  inductive, unlike what they ask: they allow any number of some options, but to bring in one
  of a class a handler takes out all there were. `EchoInv` is the same for each
  relay-reply: it holds one message, and of every other class all that the relay-forward
  held, or none (`Echoing`); a valid relay-forward holds no more than a relay-reply
  may (`ForwardIsBounded`). The tables themselves are read row by row (`AnswerTable`, `RelayTable`):
  an answer must hold the server-id and the client-id at most, no class is both
  in a table and a base of another one there, and what an advertise may hold a reply may
  hold too, which the rapid commit relies on (`KeysHandedOn`). The property
  excepts leasequeries with several client-ids, all of which are copied, and the messages
  of a bulk answer, about which there are no tables.
* **TcpConnections** (`TcpConnections_proofs`), for any messages, clients and workers:
  `ConnectionsAreLimited`, `RequestsAreAsSent`, `RepliesAreWhole`. `RequestInv`:
  what is in the connection's buffer, in the kernel's and with the client are exactly the
  messages after those received, and the buffer never holds a whole one when the
  master leaves it. The proof is about octets in sequences, whose rest is
  a recursive function (`LastMessages`). `ReplyInv`: who holds the lock of a
  connection has a job for it, and the octet written last is the one before
  what the holder has left; it is about connections on which no send has failed.
  `ConnectionsImplementExchanges`: the listener implements `Exchanges`, in which every
  message of a connection is taken once, in order, and answered at most once. `OnceInv`
  says what that needs: a request is in the queue or with one worker, once, and its
  number is that of a message received. Each action maps to a step of `Exchanges`
  (a message taken, an answer completed, or given up) or a stutter.
* **LeaseStore** (`LeaseStore_proofs`), for any number of workers: `TypeCorrect`, `OneOwner`,
  `DisjointPrefixes`, `ClientRowsStay`, `IdsAreReplaced`, `StoreImplementsOwners`. The table
  invariants are inductive given types and row/client references: the only
  transaction that adds address rows removes all rows for the same addresses
  first, in the same action. `RowsHaveClients` has to speak of workers in the
  middle of a recording, or start-up cleaning would not preserve it: it runs
  only when no worker does. `IdsAreReplaced` needs `SeenIsCurrent`: a worker whose
  SELECT is not stale has seen what is stored. The refinement maps every
  transaction to `Grant`, `Forget` or a stutter.
* **RateLimit** (`RateLimit_proofs`): `TypeCorrect` for any number of threads;
  `OneWorkerLimits` and `OneWorkerJustified` for one. `RateLimited` is not
  inductive. The strengthening is a potential: for each accepted request, what
  was accepted since, plus the allowance stored now, is at most a full bucket and
  the refill up to the last check. `NothingForfeited` is the opposite bound: the bucket is
  full, or holds at least what is left of a full one after the requests
  accepted since it last was. Both need `NoLostUpdate`: what the thread has read is
  still what is stored, which is false for two threads (section 6).
* **Statistics** (`Statistics_proofs`): `TypeCorrect`, `CountsKept`,
  `OnlyWanted`. The strengthening `Locked` says that a worker between the read
  and the write holds the lock of its counter alone and has read its current
  value. Then a write adds one to the counter and takes one worker from the
  pending ones.
* **TimingLimits** (`TimingLimits_proofs`): `TypeCorrect`, `Ordered`, `Kept`,
  `Idempotent`. The argument needs that a set of lifetimes has a least element,
  then a lemma about limiting with bounds that a constructor made, and that
  what one application returns is a fixed point of the next.

Only model-checked is liveness (`TerminationLeadsToExit`, `ShutdownKept`,
`RequestsServed`, `RequestsAnswered`), since neither ENABLED nor fairness can be
reasoned about with the provers at hand. Every other property that a run checks and
should hold is a theorem.

The induction principles of the library take operators as parameters, which the
provers cannot instantiate. Where a proof needs induction (sequences in
`TcpConnections`, `MessageHandling` and `Answers`, how many options of a class a
list has, least elements in `TimingLimits`) it is about a set: the numbers for which
the statement holds. No module declares a
RECURSIVE operator.

## 5. Plan

Done: the modules of section 2, in the order of their importance: master and
pool, lease store, rate limiter, message handling, statistics, timers; then
TCP connections, parsing, contents of messages, answers.

Proofs: the modules `ServerMain`, `MessageHandling`, `Parsing`, `TcpConnections`, `LeaseStore`,
`Answers`, `RateLimit`, `Statistics` and `TimingLimits` have theirs (section 4).

An abstract specification worth having: a server that is up, reloading or down
for `ServerMain`.

## 6. Where code and documentation disagree

With a run (`PROJECT.json`, "findings"): **a server that has decided to stop
can hang** (`server_workers_fail`). Too many exceptions are to stop the server
(`config_file.rst`). When `worker_init()` keeps failing and a request is
queued, `pool.join()` waits for a result while the pool starts workers that
fail again.

Visible in the models, and not restricted by any property:

* `sqlite.py:439`: relay-ids of two requests of a client can mix: the SELECT of
  `replace_relay_ids()` precedes its transaction. `IdsReplaced` has the
  condition under which it does not happen.
* `sqlite.py:126`: "Run everything in one transaction" does not, and client data are
  generated lazily: a leasequery can be answered with data of a client
  that does not have the address any more.
* `manager.py:33`: `check_request()` has no lock and the manager a thread for each
  worker; with two threads in `RateLimit` more than the burst is accepted.
* `statistics.py:302`: a reload removes categories that stay configured
  (`UpdatedCategories`; `UnwantedRemoved` is the half that holds).
* `static_assignments/__init__.py:169`: a confirm with the assigned address and
  others in one IA_NA is a success, where the comment at
  `unanswered_ia.py:49-51` wants all addresses tested (`StaticConfirm`).
* `handlers/unicast.py:27`: a message over TCP counts as unwanted unicast, so
  bulk leasequery needs a `server-unicast` option (`RejectUnwantedUnicastPre`).
  A leasequery that is refused so is answered with a plain REPLY.
* `leasequery/__init__.py:402`: without `allow-from` everybody is refused,
  where `leasequery.rst:33` says everybody is allowed (`LeasequeryPre`).
* `worker.py:191`: a message over TCP that is not a request raises outside of
  the part that counts errors (`ReceiveNoRequest`).
* The docstring of every `load_from()` calls `length` "the amount of data we are
  allowed to read from the buffer". Zero counts as no limit, options in options
  are parsed without one, and DUIDs and remote-ids that are too short read on beyond it
  (`UseOctets`, `UseDomains`; `ElementsAreTheirBytes` names the classes).
* `relay_echo_request.py`: a handler answers echo requests of relays, but no table
  lets a relay-forward hold the option, so that such messages are refused.
* `leasequery.py:685-704`: queries may not hold the relay-id or remote-id that
  bulk queries of these kinds ask for; a leasequery may hold several
  client-ids, its reply one, and `CopyOptionHandler` copies all of them. The data and done messages of
  a bulk answer have no tables.
* `extensions/dns/__init__.py:80`, `extensions/ntp/__init__.py:39`: `combine()`
  uses `dns_servers` of options that have none: with two such handlers a
  request is not answered (`FailToAddOption`).
* `worker.py:126`: the answer that goes out is never validated, except for its
  having relay-replies around it. A request refused in the pre phase is
  answered through relays without their interface-ids (`RefuseUnicast`,
  `RefuseLeasequery`).
* `tcp.py:199-201`: a failed send leaves part of a reply in the stream, the
  connection open and its timeout set (`FailToReply`); a timeout set by a worker
  makes the master's `recv()` raise (`NothingThere`).
* `tcp.py:293`: closed connections count against the limit as long as variables
  of `main()` refer to them (`OpenSockets`).

## 7. Not modelled

* Values: of fields of options, names and addresses, and whether they are
  acceptable; only lengths, classes and nesting.
* Reading configurations and assignments: ZConfig, CSV files, importers.
* Filter conditions, which look at a message and have no state.
* The rounding of floats in the rate limiter and in the timers.
* Schema migration, sensitive options and look-ups other than by address.
* Export of statistics: it reads counters one by one and promises no snapshot.
* The log queue: it drops records when full, and nothing else depends on it.
* Opening, inheriting and matching sockets at a reload; `ServerMain` has which
  listeners go and stay.
* A socket file that a crashed server left: there is one server in the model.
* ZConfig, SQLite, `multiprocessing` and the kernel, except for what the code
  relies on.
* Command line tools, documentation generators, vendored code.

## 8. Running it

    tlc -config ServerReload.cfg MCServerMain.tla
    tlapm LeaseStore_proofs.tla

Each configuration belongs to the module that `PROJECT.json` names with it.
