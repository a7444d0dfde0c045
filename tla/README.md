# libptpmgmt: TLA+ models and proofs

libptpmgmt is a C++ library for the PTP management messages of IEEE 1588,
together with tools, `pmc` first of all, and the *Clock Manager* (`clkmgr`), a
proxy daemon and a client library that tell applications about the
synchronisation status of ptp4l and chronyd. This directory holds TLA+ models of
the Clock Manager, of the core of the library and of `pmc`, the TLC
configurations that check them on small instances, and TLAPS proofs of their
main properties for all values of the constants. `PROJECT.json` links every
definition to the lines it models and lists components, runs, mutants, findings,
hazards and theorems. Paths below are relative to the sources.

## 1. The system

### Parts

| Part | Source | Module |
|---|---|---|
| proxy: sessions, subscriptions, notification, goodbye | `clkmgr/proxy/client.cpp`, `*_msg.cpp` | `ProxyClients` |
| proxy: thread of a ptp4l instance | `clkmgr/proxy/connect_ptp4l.cpp`, `connect_srv.hpp` | `Ptp4lSource`, `TimeSource` |
| proxy: thread of a chronyd instance | `clkmgr/proxy/connect_chrony.cpp`, `connect_srv.hpp` | `ChronySource`, `TimeSource` |
| client: calls of the API, connection, stop | `clkmgr/client/clockmanager.cpp`, `client_state.cpp` | `ClientRuntime` |
| client: event detection and counts | `clkmgr/client/timebase_state.cpp`, `clock_event.cpp` | `TimeBaseState` |
| common: message queues, listener thread, orderly stop | `clkmgr/common/msgq_tport.cpp`, `termin.cpp` | `ProxyClients`, `ClientRuntime` |
| library: table and layout of management TLVs | `src/mngIds.m4`, `ids_base.m4`, `mngTlvs.cpp`, `mngTlvs.m4` | `MngTlvs` |
| library: building messages | `src/msg.cpp` | `Message` |
| library: parsing messages | `src/msg.cpp`, `msgCall.cpp` | `MessageParse` |
| library: C memory of a TLV, C builder and C wrapper | `src/msg.cpp`, `msgCall.cpp` | `TlvMem` |
| library: configuration and security association files | `src/cfg.cpp` | `ConfigFile` |
| library: options and start-up | `src/opt.cpp`, `init.cpp` | `Settings` |
| library: sockets | `src/sock.cpp` | `Sockets`, `Pmc` (poll) |
| `pmc` | `ptp-tools/pmc.cpp`, `pmc_dump.cpp` | `Pmc` |

Section 5 lists the parts that are not modelled.

### State, operations, interactions

* **Proxy.** A session map (id to message queue of a client), per time base a
  set of subscribed sessions and the last status of ptp4l and chronyd. The
  *listener* thread serves CONNECT, SUBSCRIBE and DISCONNECT from one bounded
  POSIX message queue and writes the replies to the client's queue. Each ptp4l
  and each chronyd has a *publisher* thread: it stores a new status and sends a
  NOTIFY to every subscriber, dropping those whose queue is full. The *main*
  thread waits for a signal, says goodbye to all clients and stops the rest.
* **Publishers.** The ptp4l thread subscribes to ptp4l's events, turns management
  messages into a `ptp_event` and looks for a lost connection when nothing comes
  for a second. The chronyd thread asks, publishes, sleeps, and reconnects.
* **Client process.** Application threads call `connect`, `subscribe`,
  `statusWait` and `disconnect`; a listener thread handles replies,
  notifications and the goodbye. They share the connection state and, under one
  mutex, the state of each time base.
* **Library.** A `Message` keeps the action, id and data of the next message and
  what the last received one held. An application sets an action, asks for the
  planned length, builds into a buffer, sends it through a socket, and parses what
  it receives. C programs keep the data in a `ptpmgmt_tlv_mem`, which owns its
  allocations, and the wrapper of the Message makes a C++ copy. `Init::process`
  combines command line, configuration file and security associations into the
  parameters of the Message and a socket.
* **`pmc`.** It sends the commands of its command line or input and shows the
  answers, waiting for them with a timeout, over a Unix socket or the network.

### What is hard here

Two threads that remove one session; a status change between the steps of a
subscription; ids that wrap around; a queue that is full, blocking in one
direction and not in the other; replies that come after their timeout; a signal
that comes just before the call it is to interrupt; a second life after
`disconnect`; counts that every read resets; events outside the mask that
others depend on; daemons that restart between a request and its reply; lengths
that are planned by one piece of code and built by another; memory and data that
outlive the call they were made for; a wait whose remaining time reaches the zero
that means for ever; one of several settings, or of several system calls, failing.
`PROJECT.json` lists these under "hazards", each at its line with the properties
that would notice it going wrong.

## 2. The modules

All models keep the control flow of the code and abstract the data: a status is
a number or a small record, a message a record, time is left out (a timeout may
come whenever the code waits), logging is dropped.

* **`ProxyClients`.** `sessionMap`, `subscribed` and `ev` are `sessionMap`,
  `subscribedClients` and the stored events of `client.cpp`. Every thread has a
  program counter `pc[t]`; an action is the code between two points where
  another thread can interfere: a critical section, a queue operation. The
  shared lock a publisher keeps during its scan is explicit (`Readers`), as
  `removeClient` waits for it. A transmitter is named by its session and becomes
  `FreedTx` when the session is erased under a thread that holds it. Clients
  are the environment. History variables record who got which id (`owner`),
  which status a session was sent (`informed`, `fresh`) and whose queue was full.
* **`Ptp4lSource`.** The four callbacks and `thread_loop`, with ptp4l as the
  environment: it changes port state, grandmaster and capability, answers in
  order, ends and starts. `event` is the thread's own `ptp_event`, `stored` the
  copy that clients are sent. `gmIdentity` starts with any value, as the code
  does not initialise it. A test of `stopThread` is a step of its own (`GoOn`):
  the main thread may set it between the test and what the test lets through.
* **`ChronySource`.** `subscribe_to_chronyd`, `process_chronyd_data`, `close`
  and `thread_loop`, with chronyd and libchrony as the environment. `peer` says
  whether the socket's peer is the chronyd that runs now; `leaked` counts
  sockets nothing refers to any more. The tests of `stopThread` are steps here
  too, and so are closing a failed session and publishing the failure.
* **`ClientRuntime`.** The API calls of one application thread as sequences of
  steps (`pc`), the listener thread (`thread`), `End::stopAll`, and a proxy that
  answers, dies with its queue left behind, or says goodbye. `init` can fail
  before or after it has opened the proxy's queue.
* **`TimeBaseState`.** The state of one time base: `setTimeBaseStatePtp`,
  `setTimeBaseStateSys`, `subscribeReply`, `subscribe` and `statusWait`, for
  several application threads. Thresholds are unsigned numbers used as signed
  ones (`AsSigned`), counts wrap at `CountMod`. `MinNegated` is what the build
  makes of the one negation that overflows.

* **`TimeSource`.** What both sources promise: a thread tells what it has learned
  before it learns more; when it loses the daemon all it knows is void, and that
  is told before it uses another connection; asked to stop, it completes at most
  the step it is in (`phase` is then "last"), and once ended it tells nothing.
  `Ptp4lSource` implements it with `known` the thread's `event` and `told` the
  stored copy, `ChronySource` with `known` the reply about to be published. At the
  end `known` is what was told, as a stop drops the rest.
* **`MngTlvs`**, **`Message`**. The table of ids (allowed actions, fixed sizes),
  the layouts the `*_f` functions write and the lengths the `*_s` functions
  compute, kept apart as in the code; `setAction`, `getMsgPlanedLen`, `build` with
  its errors. A value is the sequence of the lengths of its variable parts, and of
  a number of 48 bits it says whether it is in range; the length of an address is
  cut to 16 bits, as `proc` of a `Binary` does; the digest of a message may fail.
  Where the two
  tables differ it shows: `CLOCK_DESCRIPTION_s` (`mngTlvs.cpp:605`) counts 13 fixed
  octets and `CLOCK_DESCRIPTION_f` (`mngTlvs.cpp:682`) has 14, which has no effect, as
  the id only has GET and a GET sends zeros of the planned length. There are no
  variables here: `TlvMem`, `Settings` and `Pmc` hold the Message.
* **`MessageParse`**. `parse` with `parseAuth` and `parseSig`, as a function from a
  datagram and the members of the object (`rx`) to an error code and new members.
  A member that an error path leaves alone keeps its old value.
* **`TlvMem`**. The memory object (`mem`: `tlv`, `id` and the vector of its
  allocations), the C builder and the C wrapper of a Message. `live` are the
  allocated addresses, `held` those the application still may use; `malloc` may
  fail and may return an address again. A copy of a TLV allocates its parts one
  by one and, when a part is empty or `malloc` fails, frees those it has
  (`FreeCopies`). `EraseElement` is `vector::erase` on the
  code's element class, whose assignment does nothing.
* **`ConfigFile`**. What the readers of both files do with a line and at the end
  of the file, and, as reference, what a file says without reading it in order
  (`CfgSays`, `SaSays`: the last line that sets a value, the keys that follow an spp).
  `UINT32_MAX`, the largest key id, is a constant: TLC has no integers of 33 bits.
* **`Sockets`**. The four kinds of sockets: setters, `initBase` with the system
  calls it makes in order, each of which may fail, `closeBase` and the destructor.
  Addresses of Unix sockets are files or abstract, and other programs take them too.
* **`Settings`**. An application reads a file by itself, uses a socket by itself,
  or parses a command line and calls `Init::process`, whose steps are `process_cfg`,
  `process_auth`, `process_key`, `process_net` and `process_socket`. A file is read
  a line per step (`cfg_turn`, `sa_turn`), also by `process`; `lines` are those read
  so far. `process` reads the associations of `-F` and then those of the
  configuration.
* **`Pmc`**. The main loop of `pmc` in its modes batch, uds and net, `rcv` and
  `rcv_timeout`, and a network that loses, repeats, delays and reorders.
  `built` says whose data the last build read, `shown` what was shown and for
  which datagram.

The modules meet at these interfaces: `Ptp4lSource` and `ChronySource` end in a
publication, which `ProxyClients` takes up as `Publish`; the messages
`ProxyClients` sends are those `ClientRuntime` and `TimeBaseState` receive; and
the requests clients make in `ProxyClients` are those `ClientRuntime` sends.
There each module over-approximates its neighbours: any order of their steps. In
the library the composition is direct: `TlvMem` extends `Message`, `Settings`
extends `Message` and `Sockets`, which extends `ConfigFile`, and `Pmc` extends
`MessageParse`, which extends `Message`.

## 3. The runs

`tlc -config X.cfg M`, with M the MC module of the component. Runs marked *no*
are expected to fail: what a document or a comment of the repository says, and
the code does not do. `PROJECT.json` quotes the line under "findings".

| Run | Module | Checks | Holds |
|---|---|---|---|
| `ProxyClients` | `MCProxyClients` | sessions are not mixed up, and one in use is never given away when the ids wrap around; only slow or leaving clients are dropped; no status falls between a notification round and a subscription | yes |
| `ProxyLive` | | dangling subscriptions are removed; the shutdown gets all its locks and ends | yes |
| `Ptp4lSource` | `MCPtp4lSource` | it is a `TimeSource`; a loss is noticed and leaves nothing published; only a time receiver counts as synchronised; the thread ends when stopped | yes |
| `ChronySource` | `MCChronySource` | it is a `TimeSource`; sessions are used with their socket; the status follows a chronyd that stays, unless a reply is lost; the thread ends | yes |
| `ChronyLostReply` | | status follows chronyd also if a reply was lost | no |
| `ClientRuntime` | `MCClientRuntime` | the listener's queue outlives its thread; a disconnect is clean, and leaves nothing that a later `init` would open twice; one session per client; calls return while the proxy serves | yes |
| `ClientReconnect` | | a connect after a disconnect returns | no |
| `TimeBaseState` | `MCTimeBaseState` | each event is reported once; counts explain the binary events; `statusWait` never waits on while something has happened | yes |
| `TlvMem` | `MCTlvMem` | every allocated block is owned exactly once, by the memory object, whatever fails, copies that fail half way included; the wrapper owns one copy | yes |
| `TlvFreeMem` | | what the application got and did not release is allocated | no |
| `Settings` | `MCSettings` | files are read as written; `process` authenticates exactly when told to, with a usable key; every management message has the planned length or is refused for a value that has no encoding; sockets leak nothing and unlink only their own address | yes |
| `Pmc` | `MCPmc` | only what `allow_unauth` accepts is shown, but for messages over a Unix socket that are no reply; a message is built from its own data; no wait is endless | yes |

Some properties say for which part of the behaviour they hold: `NoLostStatus`
and `OwnSession` until all 32768 session ids were used (`Wrapped`); `NoLostStatus`
while the listener thread lives; `OnlyLateReplyConnects` and `OneSession` as long
as no connect timed out; `DisconnectIsClean` for a disconnect that succeeds and,
of a client that counts as not initialised, for its thread and its own queue;
`ShownIsAccepted` but for messages that are no reply, over a Unix socket and with
`allow_unauth` 1; `AuthenticatesAsTold`, as to the version and the tolerated
errors, while `updateParams` takes the parameters. The next table shows what lies
beyond them.

The modules also state properties that the code does not have and for which no
run is kept. TLC refutes each when it is added to the configuration of its module,
`LastStatusIsCurrent` with one client, `MaxSession = 1`, `Depth = 2` and
`MaxEvent = 2`.

| Property | Module | What happens instead |
|---|---|---|
| `GoodbyeToAll` | `ProxyClients` | `notifyDisconnect` (`client.cpp:293`, "Notify disconnect to ALL subscribed clients") lists the sessions once while the listener still serves: a client that subscribes after that is told nothing |
| `LastStatusIsCurrent` | `ProxyClients` | the listener reads the status for a reply before it sends it; a notification sent in between is followed by the older status |
| `SyncedIsCurrent` | `Ptp4lSource` | after a reconnection nothing asks for the port state (`connect_ptp4l.cpp:272`): clients see a lost clock until ptp4l reports a change |
| `SyncIntervalIsCurrent` | `Ptp4lSource` | the interval in microseconds is cut to 8 bits and compared with the exponent (`connect_ptp4l.cpp:146`): a logSyncInterval of 0 never sets it. With other values the property fails after a reconnection |
| `SyncIntervalIsKnown` | `Ptp4lSource` | a port that stops being master and becomes it again returns early (`connect_ptp4l.cpp:167`), and the interval stays 0 |
| `DisconnectedAfterDisconnect` | `ClientRuntime` | the reply to a connect that timed out arrives late and marks the client connected |
| `SubscribesWithSession` | `ClientRuntime` | `m_connected` is set before `m_sessionId` (`client_state.cpp:115`) |
| `FinalizesAll` | `ClientRuntime` | `End::stopAll` finalizes nothing more once one stop or finalize failed (`termin.cpp:35`, a short-circuit), against its description in `termin.hpp` |
| `NothingLeftOpen` | `ClientRuntime` | when `init` fails after it has opened the proxy's queue, that stays open: the client counts as not initialised, and `disconnect` returns true without closing anything |
| `CallsAlwaysReturn` | `ClientRuntime` | a request is written to a blocking queue before its timeout starts: with a dead proxy and a full queue the call blocks |
| `AllClosed` | `ChronySource` | where `chrony_init_session` fails the socket is forgotten (`connect_chrony.cpp:151`), although `finalize` is to "close all sockets" |
| `ThresholdIsSymmetric` | `TimeBaseState` | a threshold of 2^31 or more is negative where it is used: the range of `subscription.h` ("a symmetric range of clock offset") is empty, or a single offset |
| `OffsetInRangeIsCurrent` | `TimeBaseState` | whether the offset is in range is evaluated when the offset changes only (`timebase_state.cpp:189`), not for a new threshold or the first data |
| `CompositeIsCurrent` | `TimeBaseState` | the composite event reads binary events that are not updated outside the event mask, or lag behind (`timebase_state.cpp:241`) |
| `SubscribeReturnsCurrent` | `TimeBaseState` | `subscribed` is never reset (`timebase_state.cpp:358`): a later subscribe returns with old data |
| `SendDataAlive` | `TlvMem` | `setAction` of the C wrapper deletes its old copy before `Message::setAction` refuses the new one (an action the id does not allow): the Message still refers to the deleted copy |
| `CommandLineOverrides` | `Settings` | against `man/pmc.8:126`: the file of `-F` is replaced at once by that of the configuration (`init.cpp:49`), and without one there `process` fails; with `-t` above 15 `updateParams` refuses all parameters and `process` ignores it (`init.cpp:178`) |
| `AuthenticatesInNewVersion` | `Settings` | with `-t` above 15 the refused parameters include the minor version: messages are authenticated in version 2.0, against `init.cpp:57` and `man/pmc.8:222` |
| `BoundToAny` | `Sockets` | the address an IP socket binds to is overwritten by the multicast address (`sock.cpp:672`): after `close` and `init`, which `pub/sock.h:506` offers, it binds to that one and misses what is sent to its own address |
| `AddressesRemoved` | `Sockets` | the destructor runs `closeBase` in the base class, where `closeChild` does nothing (`sock.cpp:131`): the file of a Unix socket stays unless `close` was called |
| `ShownAsDocumented` | `Pmc` | over a Unix socket the cases of a wrong header or action fall through to that of a missing authentication (`pmc.cpp:111`): with `allow_unauth` 1 such a message is shown also if its authentication is wrong |
| `ShownIsReceived` | `Pmc` | an answer without dataField, or an error without text, leaves the data or the text of an earlier one for the getters (`msg.cpp:574`, `556`) |

For each property of a run that holds, `PROJECT.json` names a mutant: a plausible
mistake in one definition (a dropped guard, a lock kept too long, a missing
close), written next to it and marked "Mutant", which TLC finds to violate the
property in that run.

### Bounds

* `ProxyClients`: two clients with two requests each (`ProxyClients`), or one
  client with three (`ProxyLive`); queues of one message, so that they are full
  after the first message nobody reads; one or two status changes. Two clients
  are enough for one to take the place of another; with three ids, two clients
  that connect twice make them wrap around and run out. Several publishers of one
  time base are beyond these instances and covered by the proofs.
* `Ptp4lSource`: two changes of its state (port, capability, a synchronisation) and
  one restart. From the state it starts in a port takes every two others in turn, in
  one life or with the restart between them, and messages of one state are still on
  their way in the next. The safety properties of this run are also proved, for any
  number of changes and restarts.
* `ChronySource`: two samples, two changes, two ends, two failed sessions: a
  failure after a reconnection after a failure.
* `ClientRuntime`: five calls (connect, subscribe, wait, disconnect and the
  connect of a second life) and queues of two messages, the capacity the code gives them.
* `TimeBaseState`: two threads with three calls, three messages from five sets
  of PTP data and two of system data that cover both limits of the range; three
  subscriptions, one with a threshold that is negative as a signed number, in
  integers of four bits; counts that wrap at 2, as only their parity and their sum
  matter.
* `TlvMem`: four addresses, two C++ objects, up to three allocations besides the
  TLV, so that a block is freed from the front, the middle and the end; an id with
  a text, one with six parts, whose copy runs out of memory at each of the first
  four allocations, one without data, and one of fixed length that ptp4l alone has.
  Addresses and objects are symmetric, as the code only compares them.
* `Settings`: command lines of up to five of 30 arguments, with values in and out
  of range; five configuration files and five files of associations that use every
  source of the spp, the key and the transport; files of up to six lines from
  ten and eleven kinds of lines, wrong ones included. `UINT32_MAX` is 15, and there
  are key ids at it and above it, in files and, as -1, on the command line. Lengths
  are checked for every id and action, with texts of 0, 1, 255 and 256 octets,
  tables of 0 to 2 entries with addresses of 0, 1, 2 and 65535 octets, numbers of 48
  bits in and out of range, and a digest that succeeds or fails. This covers both
  parities of the padding (for all other lengths `MessagesFitAsPlanned` is proved).
  Sockets have two
  descriptors, so that one can leak, and two files and an abstract address.
* `Pmc`: a GET of a table and a SET, up to two commands, one datagram waiting in
  the socket, one that is no answer, a wait of one unit of time, and
  authentication that is missing, wrong or right. Two commands are needed for data
  of an earlier one to be left over.

Deadlock is checked for `TlvMem` only: the bounds, and a process that has ended,
stop the other models; that threads get on is stated by the liveness properties.

### Fairness

Weak fairness is assumed of the threads of the code only: the operating system
schedules them, and waits with timeouts end. Of the environment `Ptp4lSource`
and `ChronySource` assume that a daemon that runs takes the requests in its socket;
without it a blocking send need never return. Application calls, status changes,
signals and the reading of a client's queue are not fair. In `ProxyClients` the
interrupt of the listener's receive is not fair either, as the signal may come
before the call it is to interrupt. `Pmc` assumes fairness of the loop of
`rcv_timeout` only, whose wait ends with its timeout; the user and the network may
do nothing.

## 4. The proofs

`tlapm M.tla` checks each module; there are no unproved steps and no assumptions
but those on the constants (`ConstantsAssumption` of the Clock Manager's modules:
sets are disjoint, bounds are naturals, a queue holds at least one message, ptp4l's
socket the first four requests; `BlocksAssumption` of `TlvMem`: the null pointers
are no addresses; `AddressAssumption` of `Sockets`: files and abstract addresses
are no other kind of address, and there is a file; `UINT32Assumption` of
`ConfigFile`: the largest key id is a natural number; of `Settings`: there is a global
section, a line that is neither ignored nor wrong has a known key or type, and values
of options are integers; of `Pmc`: bounds are naturals,
the wait is not zero, commands are an action and an id, authentication is one of the
five cases of `parseAuth`). Each theorem holds for any number of clients, threads,
ids, messages, calls and addresses. The argument is the usual one: an inductive
invariant holds initially and is kept by each action, and implies the property.

* `ProxyClients_proofs`: `TypeCorrect`. `TypeOK` is inductive once strengthened
  by `ReplyInv`, which follows the reply the listener builds: it names a
  configured time base while the subscription is entered, and a session until it
  is sent.
  `SessionOwnership`, `OnlySlowDropped`, `NeverStolen`: `SessionInv` says that ids
  are given out in order until all were used (so a new id is unused before a wrap),
  that every id held by a client, written in a request or waiting in a reply was
  last given to that client, that a thread's transmitter is of the session it works
  on, and that a session marked for removal is of a client that left or was slow.
  `IdsKept` disposes of the steps that touch none of this. `NeverStolen` is an
  action property and needs the types only.
  `NothingLost`: by `CaredFor` every live subscriber was sent the current status, or
  a publisher still has it in its scan, or the listener is about to read the status
  for its answer. `ErasedInv` says that a session on its way out of the time bases
  has left the map.
* `TimeBaseState_proofs`: `TypeCorrect`, `ReportedOnce`, `FlagsExplained`,
  `NothingHidden`. `AccountInv` adds that counts are zero as long as a clock has no
  data and as long as `event_changed` is not set, which makes a read that throws
  its copy away harmless; with the parity of the counts it gives `NothingHidden`.
* `ClientRuntime_proofs`: `TypeCorrect`, `ThreadBeforeQueue`, `CleanDisconnect`,
  `AtMostOneSession`, `ConnectedByLateReply`. `StopInv`
  follows the stop through its steps: `doInit` is cleared only after the thread
  has ended, and until it is set again only the steps of `init` open anything.
  `SessionInv` is about a client of which no connect timed out: at most one connect
  is under way, in one of the two queues or with the listener thread, and only while
  the application waits for it (`OneUnderWay`); the client asks for a new session
  only before the proxy opened its first one (`FirstSession`); from the end of a
  disconnect until the next connect it is not connected (`OffLine`).
* `Ptp4lSource_proofs`: `TypeCorrect`, `ImplementsTimeSource`, `LossIsTold`,
  `SyncedFromSlave`.
  `PublishInv`: a callback returns to the loop without publication only with the
  event unchanged, at every test of `stopThread` too, and while the connection is lost nothing is on its way that
  could change the event. With it `StepIsSource` maps every step to one of
  `TimeSource` or to none: a callback is `Learn`, a publication `Tell`, a failed
  subscription `Lose`, a successful one `Regain`; a step in progress at a stop is
  the last one. `SyncedFromSlave` depends on the
  order of all messages on their way: a time status sets `gmIdentity`, port data
  decide by it. `SyncInv` says that there is a labelling of the thread before and
  after each message in the socket (`Way`), TRUE where the grandmaster is not the
  own clock and FALSE where the event is not synchronised, such that each message
  carries its label to the next (`Carries`), the first label fits the thread and
  the last one fits ptp4l. To receive a message drops the first label, a report of
  ptp4l adds one at the end; so no message needs to be looked at twice.
* `ChronySource_proofs`: `TypeCorrect`, `SessionsAreOpen`, `ImplementsTimeSource`.
  The invariant says which of socket and session exist at each point of the loop,
  and that nothing stays published while there is no connection.
* `TlvMem_proofs`: `NoLeakNoDoubleFree`, `WrapperOwnsItsCopy`. `MemInv` adds the
  type of the memory object to `OwnedIsLive`. The functions on the vector of
  allocations (`Sound` before, `Sound` after: appending, moving and erasing an
  element, starting anew) are lemmas about sequences alone; the actions follow.
  A copy that fails frees what it allocated, which was not in use before.
  `CopyInv` does the same for the copy of the wrapper.
* `Settings_proofs`: `SocketsKeepTheirOwn`, `SettingsAuthenticate`. `SockInv` says
  that the system has no descriptor but the object's, to which address it is bound
  in each state of the object, and that names of others stay; `InitOwns` proves it
  of `initBase` for every system call that may fail, `CloseFree` of `closeBase`.
  `ProcessInv` adds that `process` makes its socket from nothing and of a network
  that exists. `AuthInv` says what the settings have told the Message (`Told`)
  between the authentication step and the end, where `updateParams` may still
  refuse all parameters; whether it does is decided by the value of
  `transportSpecific`, which no step in between changes.
  `SettingsReadAsWritten`, `SettingsTyped`: a reader and the lines it has read agree
  (`CfgAgrees`, `SaAgrees`): the reader of a configuration is in the section of the
  last line and has the values that `CfgSays` finds in the lines; the reader of
  associations is after the spp that the last line belongs to, with the keys of that
  association, and has stored the ones before it. `CfgTurnAgrees` and `SaTurnAgrees`
  show that one more line keeps this, from lemmas on what one more line adds to the
  reference definitions (`SppLineNext`, `KeysOfNext`, `CfgSaysNext`). `FileInv` and
  `SaInv` carry it through the steps of `process`: what is read is a prefix of the
  file, and its whole at the end. `ValueInv` adds the types of what `process` makes
  of the values.
  `MessagesFitAsPlanned` is about `getMsgPlanedLen` and `build` alone, for texts and
  tables of any length, addresses of up to 65535 octets and an ICV of any length: a
  buffer of the planned length is filled, a shorter one refused, and a text or a
  number that has no encoding refused. It is one theorem
  with its lemmas as steps: sums over sequences (their prefixes, concatenations and
  equal parts), the octets of each table of fields, and then the planned against the
  built length per kind of id. That a sum has a value for a sequence of any length
  takes induction, which `NatMin` provides: a set of naturals that is not empty
  has a least element, so the set of lengths for which a claim fails is empty when
  its least element cannot exist. `SettingsPlanIsBuilt` follows, as `ValueInv` says
  which settings `process` can make.
* `Pmc_proofs`: `TypeCorrect`, `ShownAccepted`, `BuildReadsOwn`. `PmcInv` has the
  count of answers to wait for (`CountInv`: positive while `pmc` waits, at most the
  commands sent), what the datagrams in the socket are (`NetworkInv`) and the
  members of the Message. `ParseOutcome` says that `parse` returns an error of the
  message, the result of its authentication, or an error or signaling message whose
  authentication is right; `ReplyOutcome` that a reply is never taken for a
  message of a wrong header or action. Over a Unix socket `rcv` does not skip messages of a wrong header
  or action and `allow_unauth` tolerates these errors, also when the authentication
  was not looked at. Any datagram may come there, and `ShownIsAccepted` names the
  messages that are shown for this reason.

Every invariant and every action property of the runs is proved. Model-checked only
are the liveness properties, as the prover does not handle fairness: `WaitEnds`,
`LossNoticed`, `StopEnds`, `CallsReturn`, `StatusFollows`, `DeadSubscriptionDropped`,
`ShutdownEnds`. The refinement of `TimeSource` is one of safety: that what is known is eventually told is not part of it, as a
stop may come first.

## 5. What is not modelled

Parts of the system:

* The conversions of the library: JSON (`json.cpp`, `jsonParser.cpp`), base types
  and binaries (`types.cpp`, `bin.cpp`), names of ids and states. They keep no
  state, and what they do is about characters and digits.
* System calls on PTP clocks and interfaces (`ptp.cpp`), HMAC libraries
  (`hmac.cpp`, `hmac/`): a HMAC library is there or not, and an ICV is right or not.
* Serialization, logging, the configuration of the proxy (read once; a wrong one
  ends the process), the client's list of time bases and the C API of the Clock
  Manager, which forward to what is modelled.
* Generated language wrappers, samples.

Within the modelled parts:

* Time: intervals, the length of sleeps and timeouts, the 200 ms of the liveness
  test, the rate of notifications. In `Pmc` time passes in units; `tpoll` rounds the
  time that passed down to milliseconds, so that datagrams in quick succession
  cost none; `MaxNoise` bounds them.
* Memory: what is read through a transmitter that was deleted. The model says
  that it was (`FreedTx`) and treats the send as failed.
* Start-up of the proxy: sources start before others have entered their time base.
* Messages: the fields of signaling TLVs, an AUTHENTICATION TLV that is not the
  last one, the SMPTE extension, `changeAuth`, the getters of the C interface.
  Datagrams are those of well-behaved peers, with the defects of header and length
  that `parse` has error codes for; over a Unix socket, answers without them.
* `pmc`: the values of a command and the text shown. It never compares sequence
  numbers, and neither does the model: any answer counts as one that is waited for.
* `Settings`: options an application adds, values that are not numbers, a second
  call of `process`. When a setter of the socket refuses a value, `process` fails
  and what the other setters were given is left out.
* `Sockets`: several objects in one process; another one is one of the other
  programs. What is sent and received is in `Pmc`.

## 6. Plan

1. An abstract specification of what a subscriber is promised (a status sequence
   that ends in the current status), implemented by `ProxyClients` under a
   refinement mapping; a module that composes the proxy's start-up with its threads.
2. The proxy's configuration and the client's list of time bases; the JSON parser.
3. A theorem that `parse` accepts every message `build` makes, with its lengths.
