# A TLA+ verification project for n6

n6 (Network Security Incident eXchange) collects security event data from many
sources, pushes them through a pipeline of AMQP components, stores them in a
database and gives organizations access to them through a REST API, a portal,
mail notifications and a streaming API.

This directory holds TLA+ models of the parts of n6 whose correctness depends on
the order in which things happen: on threads, processes and transactions that
interleave, on messages that are lost, repeated or late, and on programs that end
in the middle of their work; and of the one computation on which several programs
must agree, who may see which event.  TLC checks them on small instances; for
eleven of them TLAPS checks proofs that hold for every instance.  Paths below are
relative to `src/`.

1. [The system and its components](#1-the-system-and-its-components)
2. [The modules and how they are composed](#2-the-modules-and-how-they-are-composed)
3. [Module by module](#3-module-by-module)
4. [The runs](#4-the-runs)
5. [Fairness](#5-fairness)
6. [The proofs](#6-the-proofs)
7. [Where the code departs from what it says](#7-where-the-code-departs-from-what-it-says)
8. [Abstractions and what is left out](#8-abstractions-and-what-is-left-out)
9. [The plan](#9-the-plan)

## 1. The system and its components

Data flow: a *collector* fetches raw data and publishes them to RabbitMQ; a
*parser* turns them into events; *aggregator* (for high-frequency sources) and
*comparator* (for blacklists) turn streams of events into fewer ones; *enricher*
adds data; *filter* decides whom an event concerns; *recorder* stores it in the
Event DB and publishes it again for *counter*, whose numbers the *notifier* mails;
*anonymizer* sends it to the subscribers of the Stream API.  All of these but the
notifier are single-threaded programs built on one base class, which talks to the
broker.  They and the web applications read the *Auth DB* through the Auth API,
whose data each process prefetches in a background thread; all of them log to
RabbitMQ through a threaded pusher.  The Auth DB is written by the Admin Panel
and, on behalf of users, by the portal.

Components that are modelled (at least partly):

| Component | State it keeps | Operations | Interacts with | What is hard about it | What makes it correct |
|---|---|---|---|---|---|
| Auth API prefetching (`N6Lib/n6lib/auth_api.py`) | in each process: the prefetched root node; shared: pickle file, metadata file, four lock files | a prefetching attempt: `__enter__`, choosing where to take the data from, the loading-and-pickling job, letting others unpickle, `__exit__` | other processes through flock(2) and files; the Auth DB | any number of processes; switching a flock is not atomic; an exception or a kill at any point; files that expire while they are being looked at | one process does the job while no other is inside; the others take its outcome; data never go back in time; nobody waits for ever |
| Files of the pickle cache (`_PrefetchingPickleStorage` in `auth_api.py`) and file helpers (`N6Lib/n6lib/file_helpers.py`; `AtomicallySavedFile` in `common_helpers.py`) | two files under two names, each with a timestamp and a signature; temporary files | storing both, removing the metadata after an exception, reading one and then the other | the prefetching processes, which read while one of them stores | each file is replaced atomically, not both; an exception or a kill between the commits; files get too old at different moments | who reads gets complete files, and those that belong together unless one has just been replaced |
| Threaded asynchronous tasks (`N6Lib/n6lib/threaded_async.py`) | a future (status, outcome, a condition variable), the thread of a task, its trigger event | `result()`, the peek methods, `cancel()`, the loop with its hook, the cancellation at exit | the threads that read the prefetched data; the main thread | cancelling and finishing race; the methods are to be combined without a lock; a thread that is not woken waits for ever | what a test says stays true; newer outcomes replace older ones, and cancelling is final; nobody hangs |
| AMQP pushers (`N6Lib/n6lib/amqp_getters_pushers.py`) and the logging handler on them (`N6Lib/n6lib/log_helpers.py`) | four flags, a bounded fifo, three locks, a connection | `push()`, `shutdown()`, the publishing thread, reconnection | threads through locks and the fifo; the broker | `push()` races `shutdown()`; the thread logs through its own pusher; timeouts of `shutdown()` race the thread; a broken connection hides whether a message was sent | nothing accepted is lost silently or overtaken; `shutdown()` returns; the thread ends |
| Pipeline component base (`N6DataPipeline/n6datapipeline/base.py`) | channels, consumer tag, the flags of a stop and of a graceful shutdown | setting up two channels, message handling with ack / nack / requeue, `stop()`, graceful shutdown, handling of closed channels, consumers, connections | the broker, through one connection whose frames are buffered | the two channels are set up independently; deliveries in flight while the consumer is cancelled; work that goes on over a connection already lost | a message leaves the queue only after its output reached the broker; nothing is repeated without a breakdown; stopping ends |
| Iterative publishing (the same file) and the MISP collector (`N6DataSources/n6datasources/collectors/misp.py`) | a generator with what it waits for, the outbound buffer; a state file with two times and a list | a run: searching for events, downloading samples, publishing, flushing, confirming in the state file | the base class's IO loop; MISP; earlier and later runs through the file | a run ends anywhere: by a failure, an interrupt, a kill; what has been published may still be in a buffer; the outbound buffer is flushed before an exception gets through | the file confirms only what has been sent; what it confirms is not sent again; a run ends |
| Aggregator (`N6DataPipeline/n6datapipeline/aggregator.py`) | per source: time, groups, a buffer of finished groups; a data file and a payload storage file | processing a message, the inactivity timeout, storing and restoring state, storage maintenance | the base class: redelivery | late events, midnight, tolerance; a publication that fails after the state has changed; two files that refer to each other | each event is counted once, in a part of its group that does not overlap with others; the files agree |
| Comparator (`N6DataPipeline/n6datapipeline/comparator.py`) | per source: time and blacklist (in a file), open series (not in the file) with their timeouts | processing a message of a series, finalizing a series, the timeout, storing state | the base class: redelivery, timers | duplicates and disorder; two series at once; redelivery after an end in the middle | a series is finalized only if whole, but for messages without a key; consumers know the blacklist that the comparator knows; ids refer to events emitted earlier |
| Collectors of time-ordered rows (`N6DataSources/n6datasources/collectors/base.py`) | state file: newest time, its rows, row count | load the state, select fresh rows, publish, save the state | the source, whose rows come and go; other runs of itself | overlapping runs; breaking off between publication and saving; rows with equal times that come later | no row is passed over; none is published twice without a reason |
| Recorder (`N6DataPipeline/n6datapipeline/recorder.py`) | the Event DB: rows by id, with the status of blacklist entries | eight kinds of events, each a transaction and, if new, a publication | the broker: redelivery; the comparator and the aggregator, whose order it relies on | commit, publication and acknowledgement are three steps; what comes again meets its own traces | an event is published once, as what it is; a closed entry stays closed; a change is seen whole |
| Raw-data archiver and blacklist compacter (`N6DataPipeline/n6datapipeline/archive_raw.py`) | MongoDB: documents with times and, for blacklists, a marker and the previous document's id | archiving a stream, a file, a blacklist; the patch to what the patches so far give; retrying | the base class: redelivery; MongoDB, whose answers get lost; diff(1) and patch(1) | the chain of patches is read in the order of the messages' times, which is not that of their archiving; retried and redelivered documents are in it twice | whatever has been acknowledged can be got out of the archive |
| Counter and notifier (`counter.py`, `notifier.py` in `N6DataPipeline/n6datapipeline`) | Redis: a hash per client, its last number and time | counting in an optimistic transaction; at notification times, mailing what has come since the last mail | each other, through single Redis commands; the recorder; mail | they read and delete each other's fields between any two commands; the counter is delivered a message twice; a run breaks off among clients | every event is counted and mailed once; mails follow on each other without a gap |
| Data selection conditions (`N6Lib/n6lib/data_selection_tools.py`) | immutable trees | construction with reductions, transformers, predicates | -- | each pass rewrites a tree; negation and absent values | a pass does not change what a condition means |
| Access conditions (`N6Lib/n6lib/auth_api.py`), filter, anonymizer | per organization and access zone: SQL conditions and predicates, made from the same data in two ways | preparing them; who owns an event; who gets it | the REST API, the Stream API, the counter: the same answer is asked of all three | three-valued SQL; events of several addresses stored as several rows; two code paths | an organization gets the same events wherever it looks |
| Organization requests (portal and Admin Panel: `N6Lib/n6lib/auth_db/api.py`, `N6AdminPanel/n6adminpanel/org_request_helpers.py`) | requests with a status, organizations, users | posting a registration or an update; administrators process, discard or accept it | each other, through transactions; an RT system; mail | submitted forms are of any age; two administrators at once; mails and tickets do not roll back | one pending update at most; an accepted update has its effect once; mails tell what is so |
| Cached advisories (`auth_db/auxiliary_cache.py`, `moje_cve_advisories_retriever.py`, `moje_api_client.py` in `N6Lib/n6lib`) | a row of the Auth DB: the advisories of each CVE, the latest change known, the time of the last update | `retrieve()`: read, update from the service if too old, store | the portal's requests, each in a transaction; the service of moje.cert.pl | the service changes while its pages are read; an update names advisories, not what they are no longer about; requests wait for each other | what is cached is what the service had; the service is not asked too often |
| Portal: login, MFA, forgotten passwords (the auth-related views in `N6Lib/n6lib/pyramid_commons/_pyramid_commons.py`, `AuthManageAPI` in `auth_db/api.py`, `mfa_helpers.py`) | web tokens, provisional and actual MFA keys, spent MFA codes, passwords, who is blocked | the first and the second step of logging in, a new MFA configuration and its confirmation, asking for a new password and setting it; the forms of the Admin Panel | each other, through tokens that the client brings back; mail; the system clock | tokens are outdated, superseded, used twice; spent codes are forgotten while the clock may be put back | a code is accepted once; what has been issued before a success is useless after it |
| Event DB queries of the REST API (`N6Lib/n6lib/data_backend_api.py`) | a position in the time interval, rows not yet grouped, the number of results | a step, a query, a row, a result | the Event DB, in one transaction; the client, who may go away | rows, groups, queries and steps have borders of their own, and the order of rows of the same time is open | exactly the newest events that match, each once |

Components that are not modelled; `PROJECT.json` names their files:

| Component | Why not |
|---|---|
| Enricher, templates renderer, exchange updater, IntelMQ integration | no state of their own: a computation per message, in the frame of QueuedComponent, or a tool |
| Parsers, data specifications, records, conversions | pure functions on strings; better tested than model-checked |
| Other collectors | downloading, e-mail; I/O with little state |
| The rest of the REST API, Broker Auth API | read-only requests; whose events they may concern is in EventAccess |
| Portal: its configuration | settings and the set-up of the application; no part of the data flow |
| Admin Panel but for organization requests; Auth DB models and migrations | forms over database rows; the database's own transactions.  PrefetchCache sees a version number that moves on |
| AMQP and logging helpers, general helpers | connection parameters, configuration, small utilities; the reentrant push of the logging handler is in ThreadedPusher |
| Build, deployment, documentation | no program logic |

## 2. The modules and how they are composed

```
PrefetchJob  <=implements=  PrefetchSync  <--extends--  PrefetchCache  <--extends--  PrefetchProofs
                                                      | its files change by the actions of
                                                      v
PickleFiles  <=implements=  PickleStorage  <--extends--  PrefetchProofs

Promise  <=implements=  ThreadedAsync  <--extends--  ThreadedAsyncProofs
                             |  a call of its target is an attempt of
                             +--> PrefetchCache

PublishingQueue  <=implements=  ThreadedPusher  <--extends--  ThreadedPusherProofs

AtLeastOnce  <=implements=  QueuedComponent  <--extends--  ComponentsProofs
                 |  redelivery, exits, interrupts: the environment of
                 +--> SourceAggregation, AggregatorStorage   (the aggregator)  <--extends--  StateFilesProofs
                 +--> Comparator  <--extends--  ComparatorProofs
                 +--> Recorder  <--extends--  Notices  (counter and notifier)  <--extends--  NoticesProofs
                 +--> RawArchive

IterativePublishing  <--extends--  MispCollector  <--extends--  ComponentsProofs

RowsCollector  <--extends--  StateFilesProofs

Conditions  <--extends--  EventAccess

EventQuery

OrgRegister  <=implements=  OrgRequests  <--extends--  PortalProofs

AuxiliaryCache, PortalLogin  <--extends--  PortalProofs
```

Six modules are abstract specifications, of what a component promises:

* **PrefetchJob** -- processes are out of the block, in it, or doing the job; who
  does the job is alone in the block.
* **PickleFiles** -- two files that change at once: a new pickle, metadata that describe
  the pickle there is, the loss of the metadata, and, with time, of both.
* **Promise** -- those who ask are told the outcome as it is at some moment of
  asking; outcomes are replaced by newer ones until one is final; who asks when
  there is an outcome is told one.
* **PublishingQueue** -- messages are accepted and settled, in order; a
  `shutdown()` that returns leaves nothing unsettled and nothing is accepted
  afterwards.
* **AtLeastOnce** -- a message leaves the input queue only when its whole output
  has been produced, or, if it cannot be processed, for the dead-letter queue.
* **OrgRegister** -- organizations, users and requests, changed one operation at a
  time by the rules of `AuthManageAPI`, the model classes and the handler kits.

PrefetchSync, PickleStorage, ThreadedAsync, ThreadedPusher, QueuedComponent and OrgRequests are
shown to implement them: each has an `INSTANCE` with a refinement mapping (for
OrgRequests: of the committed data, which have the same names), and the abstract
`Spec` is a property of a run (`ImplementsJob`, `StoredAtOnce`, `ImplementsPromise`,
`ImplementsQueue`, `KeepsPromise`, `ImplementsRegister`).

PrefetchCache composes the synchronizer with what happens inside its `with`
block: every action of PrefetchCache that crosses the border of the synchronizer
is a conjunction with the action of PrefetchSync, so each behaviour of the cache
is one of the synchronizer; and the files of PrefetchCache change by the actions of
PickleFiles, which is what PickleStorage implements.  Notices composes the recorder with the counter and the
notifier in the same way, through the events that the recorder has published.
MispCollector is the coroutine of a subclass, interleaved with the machinery of
IterativePublishing.  The aggregator, the comparator, the recorder and the archiver are not
conjoined with QueuedComponent, whose state space is large; they take from it what
it shows: a message whose handling is broken off comes again.

The `MC*` modules only define the instances for TLC: model values, lists,
symmetry sets.  Six of them, MCPrefetching, MCPrefetchFiles, MCStateFiles, MCComponents, MCEvents and MCPortal, join modules that share
no variable, to check them in one run.  In each behaviour only one of the joined
modules leaves its initial state: as no action or property of one speaks of the
variables of another, nothing is lost by that, and the product of their states is
not explored.

Some modules have definitions that `Next` does not use, such as
`BeginGroupAnyway` next to `BeginGroup`.  These are variants of the
definition that follows them, with the kind of mistake that the code could have
(a dropped guard, a missing reset, a swapped order).  With the variant in place of
the definition the property that `PROJECT.json` names under `mutants` is violated:
that is how we know that each property can fail.

## 3. Module by module

`PROJECT.json` maps each definition to its lines in the source.  What follows is
the correspondence in the large.

### PrefetchSync, PrefetchCache

`_InterprocessPrefetchingSynchronizer` guards the pickle-file cache with four
flock(2) locks.  `held[p][l]` is the mode in which process `p` holds lock `l`;
`pc[p]` is the point it has reached.  Each blocking or non-blocking flock() call is
an action of its own, because other processes run between any two of them;
switching the mode of a lock is two actions, since flock(2) gives up the old mode
before it waits for the new one.

| Actions | Code |
|---|---|
| `StartEntering` ... `LateReleaseJob` | `__enter__()`; the `Late...` ones are the path of a process that finds the JOB lock taken |
| `StartAsking` ... `WonReacquireShared` | `designate_loading_and_pickling_job()` |
| `FinishJob`, `Serve...` | `wait_giving_others_chance_to_unpickle()` |
| `StartLeaving` ... `ReleaseGetjob` | `__exit__()` and `_release_all_locks()` |
| `Raise` | an exception at any point where the code can raise one |
| `Crash`, `KernelCloses`, `Vanish`, `Restart` | a killed process; the kernel closes its files one by one, in any order |

PrefetchCache adds the root node (`last`), the files (`meta`, `pickle`), the
database (`dbVer`), how old each version is (`age`), and where the attempt is
(`task`).  A version is fresh, "discounted" (old enough for a job, still usable) or
outdated: what `Adjusted` and `Choose` tell apart is what
`_get_root_node()` and its `_initial_checks_and_adjustments()` tell apart.
`owed` is a history variable: those who were blocked on the JOB lock when the
owner released it.

### PickleFiles, PickleStorage

`dir` is what the two paths name: a file with the timestamp of its header, the version
of the data in it, and whether its real signature has been written.  Files are values:
once a file has its final name nobody writes to it, and who has opened it keeps it
although the name is given to another (`reading[r].file`).  `store` is
`store_everything()` with its temporary files, `reading[r]` a process that looks at the
metadata and then, if it likes, at the pickle.

| Actions | Code |
|---|---|
| `OpenMetadata`, `OpenPickle`, `Dump` | `store_everything()`, with the temporary files and headers of `StampedFileAccessor` and `AtomicallySavedFile` |
| `SignPickle`, `RenamePickle`, `SignMetadata`, `RenameMetadata`, `LeaveStore` | the ends of its context managers, the pickle's first: `SignedStampedFileAccessor._atomic_writer_cm()`, `AtomicallySavedFile.__exit__()` |
| `FailStoring`, `RemoveMetadata`, `KillStoring` | an exception at any step, with `_removing_metadata_file_on_exception()` once it has been entered (the removal may fail); a kill at any step |
| `RetrieveMetadata`, `RetrieveRootNode`, `LeavePickle`, `OpenFile`, `ReadFile` | `retrieve_metadata_or_none()`, `retrieve_root_node()`, with the lowest timestamp each of them computes first |

`rough` and `reading[r].disturbed` are history variables.  PickleFiles has the two
versions only; what maps to them is what somebody who asks now would be shown
(`Shown`), so a file that gets too old is one that disappears.

### Promise, ThreadedAsync

The variables are the attributes of `Future` (`done`, `res`, `excInfo`,
`cancelEvent`) and the positions of the threads: `task`, `main`, and the readers
(`at`), who call `result()` or make one of the two-part tests that the documentation
of `Future` recommends (`Part`: what each of the two calls looks at).  Every method
holds the lock of the condition variable from its beginning to its end, so it is one
step; only `result()` gives the lock up, to wait.

| Actions | Code |
|---|---|
| `AsyncStart`, `SetTrigger`, `CancelAtExit`, `Join` | the constructor of `AuthAPIWithPrefetching` with `async_start()` and the trigger; `cancel()` and `join()` at exit; all in the main thread |
| `TriggerComes` ... `WakeUp` (`TaskRuns`) | the thread of the task: the trigger, the tests for cancellation, the target, its result or exception, the hook with its sleep |
| `CallResult`, `Wait`, `Answer` | `result()` |
| `StartTest`, `FinishTest`, `Leave` | `peek_result()`, `peek_exc_info()`, `cancelled()` in pairs |

`told`, `lateCalls` and `triggerTimeout` are history variables.

### ThreadedPusher

The variables are the attributes of `AMQPThreadedPusher`: four flags, the fifo,
the locks (`push`, `shutdown`, `connection`), the connection, the positions of the
threads.  Each action is a stretch of code between two points where another
thread can be told apart.

| Actions | Code |
|---|---|
| `PushBegin` ... `PushPut` | `push()` |
| `CloseBegin` ... `CloseEnd` | `shutdown()`: the shutdown and push locks, the flag, the sentinel, `join()` with the liveliness indicator, the check of the state, then the connection lock with its timeout and the closing of the connection |
| `LoopCondition` ... `EndThread` | `_publishing_loop()`, `_handle_data()`, `_publish()`, `_handle_error()`, with reconnection and republication |
| `LogLock`, `LogCheck`, `LogPut` | a record that the AMQP library logs while it publishes comes back to `push()` through `AMQPHandler.emit()`, in the same thread |
| `CrashThread` | an exception that is not an `Exception` stops the thread |

`fate` and `sent` are history variables: what became of each message, and what
the AMQP library may have sent.

### QueuedComponent

`comp` is the component: the callback it is in, its channels, which bindings and
exchanges are declared, the flags of a stop, the phase of a graceful shutdown.
`wire` and `inbox` are the frames on the connection, in both directions: what the
component "publishes" or "acknowledges" is only in the outbound buffer until the
broker takes it, and is lost with the connection.  `queue`, `unacked`, `dead`,
`copies` are the broker's.

| Actions | Code |
|---|---|
| `OpenInput`, `OnBindOk`, `OpenOutput`, `OnOutputExchangeDeclared` | the chains of set-up callbacks of the two channels |
| `OnDeliver`, `Publish`, `Acknowledge`, `Reject`, `ExitInCallback` | `on_message()` and `input_callback()` with `publish_output()` |
| `InnerStop`, `Interrupt`, `InterruptInCallback` | `inner_stop()`, `stop()` |
| `TriggerGracefulStop`, `InputHasShutDown`, `OutputIsFlushed` | the graceful shutdown |
| `On...Closed`, `OnCancelOk`, `OnConsumerCancelled` | the close and cancel callbacks |
| `BrokerTakes...`, `Deliver`, `CancelConsumer`, `LoseConnection`, `Restart` | the broker, the network, the supervisor: the environment |

### IterativePublishing, MispCollector

`gen` is the publishing generator (`_publishing_generator`): whether it is waiting
for its next iteration, running, waiting for the outbound buffer to be flushed, or
over; `outcome` is how the coroutine has ended, which is remembered while the buffer
is flushed for the last time.  The operators `Put`, `MayPause`, `FlushOut`, `Ends`
are what a coroutine may do; the subclass says when.  MispCollector is such a
subclass: `file` is its state file, `run` the attributes of the collector object,
`run.step` the place in `run_collection()` and `publish_iteratively()`.

| Actions | Code |
|---|---|
| `StartIterativePublishing` ... `CloseConnection` (`Machinery`), `Transmit` | `base.py`: the iterations, the flushes, the end of the generator, `stop()`; pika's IO loop |
| `InterruptPublishing`, `Breakdown` | KeyboardInterrupt in the coroutine or in the IO loop; a kill, a lost connection |
| `Start`, `FetchEvents` | `run_collection()`, with the case in which there is nothing to publish |
| `PublishEvents`, `ConfirmEvents` | the first part of `publish_iteratively()`; what is saved in the state file |
| `FindSamples` ... `ConfirmSample`, `RecapDownloads`, `Finish` | the samples, one by one, what failed, and the final state |
| `Tick`, `AddEvent` | time and MISP: the environment |

`sent` and `givenUp` are history variables.

### SourceAggregation, AggregatorStorage

SourceAggregation is `SourceData` of one source with `process_event()`, and
`on_timeout()`.  `groups` and `buffer` are ordered dicts, as sequences, since the
code relies on their order.  The generators yield one event at a time and a
publication may fail at each, so the loops over the groups (`MoveFinishedGroup`, then
`DropFinishedGroups`) and over the buffer (`ReportBuffered`, then `CleanBuffer`) are one
action per entry; `done` is how far they have come.  A message is received
(`Receive`), processed (`ProcessEvent`, whose disjuncts exclude each other), published if it is
the first of its group, and then the loops run; `msg` is `NoMessage` in between.  `accepted` and
`reported` are history variables; `last`, `announced` and `outOfOrder` in an entry serve the
properties only.

AggregatorStorage is the pair of files.  A payload of size *n* is *n* blocks, the
first of which can be recognized (as the code recognizes the beginning of a
payload); handles are offsets and sizes.  A start reads the data file (`RestoreState`), goes
through its handles one by one (`ShrinkDiskSpace`: a handle no longer needed is dropped, a
payload still needed is copied behind the last one, or the files are found corrupted), and
writes both files.  `shrunk` is what the loop has kept so far.  `BufferIsWritten` lets any part of the
file object's buffer reach the file early.  `Kill` may come between the two writes
of `MaintainDataFile` and `MaintainPayloadFile`.

### Comparator

One source.  A message is a pair of series and number; `open`, `count` are the
numbers seen; `armed` the timeouts; `file` what `store_state()` wrote, possibly a
truncated file.  A message may be refused as invalid for its series (`RejectInvalid`), or
after it has been counted and the timeout has been set: with its whole list, which is older
than the latest one (`RejectOutOfOrder`), or alone, for lack of a key (`RejectKeyless`).
`EventKey` is what `get_event_key()` returns; a `url` stands for the url or, if there is
none, the fqdn, and `NoUrl` for neither.  `applied` are the messages of the open series
that have been accepted.  `listed` and `emitted` are what the consumers have been told.
`PublishEvent` publishes one pending event; `Exit` ends the process without
storing, `Interrupt` ends it with storing, at any step.

### RowsCollector

`available` is what the source has, `state` the state file; each run in `Run` has
a state it loaded, a state it will save, and rows to publish.  `published` and
`again` are history variables, and so is `unusual` (removal, return, overlap).

### RawArchive

`docs` are the documents of one collection in the order of their insertion (`received`
is the time the message was created, `marker` 0 begins a period, `prev` is `prev_id`);
`raw` is the message in `input_callback()`; `draft` the document about to be inserted.
A document of a blacklist is a patch, that is a pair of contents: `from`, what the
patches of the period gave when it was made, and `to`.

| Actions | Code |
|---|---|
| `Consume` | a message of the source channel comes, perhaps a `late` one: with a time not after those of all before it |
| `Prepare` | up to the document: `preparations_data()`; `get_patches()`, `generate_orig_file()`, `start()`, and diff(1), as `Patches`, `Recovered`, `PeriodGoesOn`, `Diff` |
| `Insert`, `AcknowledgeRaw` | `write()`, `save_file_in_db()`; `on_message()` |
| `InsertUnanswered` | AutoReconnect when the document has been stored, and `safe_mongocall()` |
| `RejectRaw`, `Redeliver` | an exception on the way; a kill, an exit, a lost connection |

`archived` is a history variable, and so is `late`.

### Recorder, Notices

The recorder's messages come in the order of the queue; `db` has the status and a
value of each stored event.  Each handler is a few steps that end with a commit
(`NewEvent`; `MarkReplaced`, `InsertReplacing`; `BlacklistDelist`, `BlacklistExpire`,
`UpdateOrInsert`), then `Finish` puts the publication and the acknowledgement into
the outbound buffer, which `Flush` empties.  `Kill` may come at any step, and
`DatabaseError` in place of a commit.

Notices adds the counter and the notifier, and Redis: for each client a `hash` (the
numbers of its events, `_tmin`, `_tmax`, `_time`), `lastSent` and `lastTime`.  Each
action is one Redis command with the code before it: `Watch`, `ReadTime`, `SetTime`,
`Exec` or `Retry` for the counter's optimistic transaction; `Snapshot`, `Decide`,
`Compare`, `Send`, `SaveCounter`, `SaveTMin`, `SaveTime`, `DeleteTime` for the
notifier's work on one client.  The number of a hash is kept as the sequence of
events it counts, so that the properties can tell which.

### Conditions, EventAccess

A condition is a record with an operator and its subconditions; `AndCond`, `OrCond`,
`NotCond` construct it with the reductions of the code.  `FactoredSet`, `Merged`,
`DeMorgan` are the transformers, and `Holds` the predicate made of a condition.
Where the result depends on the order of subconditions, every result is taken.

EventAccess begins with data of the Auth DB (`authData`), prepares the conditions in
the code's passes, one action each (`Collect` ... `MakeNullSafe`), and then has
events go through `FilterEvent`, `Store`, `Anonymize`, `Count`.  `SQLValue` is the
evaluation of a condition by the database, in three-valued logic on one row per
address; `LegacyPredicate` is the predicate that the Stream API and the counter use.

### EventQuery

`window` is the step, `passed` the rows that the current query has given or skipped,
`group` the events with the time of the last row, `results` what the client has got.
`Receive` takes a request and what the database has for it; `Execute` is a query with
its limit and offset, in any order that the times allow; `FetchRow` a row with what its
coming completes; `QueryAgain`, `NextStep`, `Finish` what follows the last row of a query;
`EndRequest` an error, a client that goes away, or the end.

### OrgRegister, OrgRequests

OrgRegister has the organizations, the users and the requests, and each operation as
one step.  In OrgRequests each handler runs one HTTP request (`jobs[h]`): it reads
and checks, writes, commits, and then sends mails, one step each; another
handler's steps come in between unless a row lock forbids it (`MayRead`, `MayWrite`).

| Actions | Code |
|---|---|
| `PostUpdate`, `PostRegistration`, `Insert`, `CreateTicket`, `StoreRequest` | the portal's views, `AuthManageAPI.create_*_request()`, the RT ticket between the writing and the commit |
| `Submit`, `Commit`, `Reject` | the Admin Panel's form views with the handler kits; a failed check, a deadlock |
| `LookUpRecipients`, `SendMail` | the mail notices after the commit |
| `Break` | an exception or a kill at any step |
| `OtherTransaction` | users created and blocked elsewhere |

### AuxiliaryCache

`entry` is the row of the cache, `service` what the advisories' service has, and
`request` what each request of the portal is doing: it reads the time (`ReadTime`),
gets the row and its lock (`Query`), reads the pages of the list of changed advisories,
again from the first one when their number has changed (`FetchPage`,
`FetchFromBeginning`), then those of each CVE in question (`FetchCVE`), and stores
what it has made of it (`InsertEntry`, `UpdateEntry`), or nothing (`NothingNew`,
`FailRequest`).  `ServiceUpdate` may come between any two of these.

### PortalLogin

A web token is known by its number in `issued`, which tells its type, owner and time;
`live` are those in the database.  A provisional MFA configuration is deleted with its
token, so the number of the token stands for its key, and `mfaKey[u]` is the number of the
token whose configuration became actual.  `spent` is the table of spent codes, `wallClock`
what the system clock shows; `latest`, the latest time it has shown, and `uses`, what tokens
have been used for with success, are history variables.  A request is one serializable
transaction, so it is one action.

| Actions | Code |
|---|---|
| `LogIn`, `LogInWithCode`, `ConfirmFirstConfig` | `N6LoginView`, `N6LoginMFAView`, `N6LoginMFAConfigConfirmView` |
| `RequestConfig`, `ConfirmConfig` | `N6MFAConfigView`, `N6MFAConfigConfirmView`, of a user who is logged in |
| `ForgetPassword`, `ResetPassword` | `N6PasswordForgottenView`, `N6PasswordResetView` |
| `DeleteAfterFailure` | `ensure_deleting_token_on_exception()`: another transaction, which may not happen |
| `BlockOrUnblock`, `EraseConfig`, `SetPassword` | the form of a user in the Admin Panel |
| `ClockTurns` | time goes on, or the clock is put back, by `Turbulence` at most |

`Issue`, `IsLegit`, `DeleteAll` and `Authenticate` are the methods of `AuthManageAPI`
that the views share; the removal of outdated tokens and codes is part of them.

## 4. The runs

| Run | Instance | Distinct states | Question |
|---|---|---|---|
| `prefetching` | PrefetchSync: 2 processes, exceptions and kills.  ThreadedAsync: 2 readers, 2 versions | 23,141 | Do the code's assertions hold? Is PrefetchJob implemented? Does nobody wait for ever? Is Promise implemented? What can still happen after a cancellation, and between two calls of a test? |
| `prefetch_cache` | PrefetchCache: 2 processes, the same faults, 2 database versions, expiring files.  PickleStorage: 1 reader, 2 versions, times 0-3, files usable for 1 | 812,083 | Do files and memories stay consistent, is no job repeated in vain, are those who waited served? Are the files what PickleFiles says, at whatever step the storing breaks off? |
| `prefetch_deadlock` | 3 processes, no faults | *(violation)* | Can processes wait in a circle? They can. |
| `pusher` | 1 pushing and 1 closing thread (2 calls each), fifo of 1, 2 items, timeouts, crash of the thread, logging | 538,988 | Is anything lost, reordered, accepted too late? Does `shutdown()` return, does the thread end? |
| `components` | QueuedComponent: 3 messages (1 bad) with 2 outputs each, prefetch 2, 2 disturbances.  MispCollector: 2 events with a sample each, leeway 1, times 1-4, 1 trouble | 264,936 | Is the promise of AtLeastOnce kept, is anything repeated without a breakdown? Does the state file tell the truth? Does every stop and every collection end? |
| `state_files` | SourceAggregation: 3 groups, 5 events, times 0-4, day 4, wait 2, tolerances 0 and 2, 1 failure.  AggregatorStorage: 4 payloads of sizes 1, 2, 1, 2; 3 ends.  RowsCollector: 3 rows (2 of one time), 2 runs, 1 failure.  RawArchive: 4 messages of 3 contents, 1 late, periods of 2, 2 mishaps | 2,088,215 | Is each event counted once, in parts that do not overlap, last too long or wait too long? Do the two files agree at each start? Is a row lost, repeated, passed over? Can what has been archived be recovered? |
| `aggregation_first` | SourceAggregation, tolerance 0 | *(violation)* | Is the first event of a group always published? It is not. |
| `comparator` | 3 lists of 2 or 3 entries, 5 deliveries, 1 exit, 1 interrupt | 3,662,120 | Do consumers know what the comparator knows? Is a series finalized only if whole, but for messages without a key? |
| `events` | EventAccess: 2 organizations, 10 subsources of which up to 3 are linked, 2 sources, 3 addresses.  EventQuery: 4 events at times 0-3, up to 2 with two rows, up to 1 dropped; steps of 2, limits 1, 2, none | 704,108 | Do all the ways to an event agree? Does a client get the events that it asked for? |
| `notices` | 2 clients; several scenarios of messages, kills, database errors, notification times, broken-off runs | 130,944 | Do entries stay closed, are events published, counted and mailed once, without a gap? |
| `portal` | OrgRequests: 2 handlers, 2 organizations, 2 logins, 2 registrations, 2 updates.  AuxiliaryCache: 2 requests, 3 advisories of 1 CVE, 4 changes, times 1-2.  PortalLogin: 2 users, 3 tokens, times 0, 4, 8, time steps 1, 4, 8, 1 act of an administrator | 1,574,625 | Is OrgRegister implemented? Do updates have their effect, do mails tell what is so? Is what is cached what the service had? Is a code accepted once, does a used token void the earlier ones? |
| `advisories_spacing` | AuxiliaryCache: 1 advisory | *(violation)* | Is the service left alone for the validity period? It is not. |

### What the passing runs show

* **prefetching**: of the synchronizer `AssertionsHold` (also that the non-blocking acquisition in
  `__enter__()` cannot fail for the reason its error message names), `ImplementsJob`
  (nobody is in the block while someone does the job, which the non-atomic switch of
  the ACTIVITY lock puts at risk), and under fairness, if faults cease,
  `NobodyWaitsForEver`: neither those who want to enter nor the one who lets others
  unpickle; of the task `ImplementsPromise` with its liveness, `StateIsReliable` (a
  test made in two calls, in the order the documentation gives, is true when its
  second call returns, and at most one of the target and the hook is still called after a
  cancellation), `NobodyHangs`.
* **prefetch_cache**: `AttemptsMakeSense`: `NothingUnexpected` (the situations the code
  logs as impossible are) and `JobsAreOfUse` (no job is futile, and the owner of a job goes on
  only when those blocked on it have had their chance), `NeverBackInTime`; of the files
  `RetrievedAsStored` (no exception leaves metadata that describe another pickle; a reader
  gets complete files, and the pickle that the metadata have announced unless another has
  been committed since, or a kill or a failed removal has come between two commits) and
  `StoredAtOnce` (PickleFiles is implemented: at any time the metadata get too old
  first, since they have been opened first, although they are committed last).
* **pusher**: `SentAsAccepted` (no silent omission, no overtaking),
  `ReopenedOnlyAfterGivingUp` (reconnection does not reopen what `shutdown()` has
  closed, unless `shutdown()` has said that it gave up), `ImplementsQueue`,
  `ShutdownEnds` (the call returns in spite of the thread's own push through the
  logging handler, and the thread ends).
* **components**: of the queued component `KeepsPromise`,
  `DuplicatesOnlyAfterBreakdown`, and its part of `NothingHangs` (every message is
  dealt with once the component runs again, a stop ends); of the collector
  `ConfirmedIsSent` (the state file never confirms what is still in the outbound
  buffer or lost with it), `ConfirmedIsNotRepeated` (nothing is sent that it
  confirms, unless the leeway takes it in again), `CollectionsEnd`.
* **state_files**: of the aggregation `GroupsAreRight`: `EverythingCounted` (exactly, for
  a zero tolerance; never twice, for any) and `PartsOfGroups` (parts do not overlap, `until`
  is the last time, no part is longer than a day, no group is forgotten unless an event out of
  order has been counted in the first one); of the
  storage `FilesAgreeUnlessTorn` (of all the points where the aggregator may end,
  only that between the two writes of a start does harm); of the collector
  `RowsAreKept` and `TroubleHasACause`; of the archiver `ArchiveRecovers` (each blacklist
  acknowledged is what the patches up to one of its documents give, each patch belongs to
  the document that its `prev_id` names, and after a late message the chain is right
  again from the next blacklist but one on).
* **comparator**: `SeriesEndProperly` (a series is finalized only when all its messages
  have come and those with a key have been accepted, none is left waiting that has been
  accepted as a whole, and exactly the open ones have a timeout), `ConsumersAgree` (with the comparator, on addresses
  and expiry times and on what is not listed any more; and with what they were told
  before, so that no event refers to one never emitted).
* **events**: `PassesAreSound` (a pass changes no condition's meaning and
  leaves what the next one requires), `AccessAgrees` (the database's answers are the
  predicates'; what is streamed is what is found, and what is counted; the filter's
  interval search finds those whose networks have the address); `ResultsAreRight` (the
  newest events that match, in order, each once; at any moment, what has been sent is a
  prefix of that, so an error only shortens it).
* **notices**: `EntriesAreRight` (a blacklist entry that is closed stays so, though the
  messages that made it active may be handled again; a change that is done with has
  replaced the old version by the new one),
  `PublishedCountedMailed` (an event is published once; it is counted once, and once more for
  each kill of the counter; the link of a mail begins where the previous one ended),
  `EveryEventIsCounted` (under fairness:
  the notifier does not starve the counter).
* **portal**: `ImplementsRegister` (concurrent transactions amount to some
  order of them), `ConstraintIsNotNeeded` (the checks in the code suffice to keep an
  organization from having two pending updates), `UpdateTakesEffect`,
  `MailsAndTicketsAreTrue`; of the cached advisories `CachedIsTrue` (an advisory is
  shown for the CVEs it is about, and for no other, though the service changed while it
  was asked; section 7 has the exception); of logging in `CodesAreUsedOnce` (no MFA code is
  accepted twice, although spent codes are forgotten and the clock may be put back) and
  `EarlierAreVoid` (what has been issued to a user before a successful use serves nobody
  afterwards).

### The bounds and why they are enough

* *Processes of the synchronizer.*  Its locks are compared pairwise, so two
  processes exercise each conflict; the proofs (section 6) cover any number.  The
  liveness properties are checked for two processes only: with three they do not
  hold, which is what `prefetch_deadlock` shows.  That run needs the cache, because
  the circle needs a process that finds the fresh outcome already too old.
* *Two versions* of the database: an old and a new one; every guard compares two.
* *Files of the cache.*  Readers do not notice each other, so one is enough; it may look
  at the files while they are stored for the second time.  Times 0 to 3 let a file get too
  old before it is committed, between the commits, and while it is being read.
* *Asynchronous tasks.*  Two readers, one of which may wait while the other is
  between the calls of a test; two versions, so that an outcome is replaced; the
  proofs cover any number of both.
* *Pusher.*  A fifo of one is both empty and full at the least cost, so that the
  sentinel is sometimes not put.  The closing thread may call `shutdown()` twice,
  to reach the branch of a pusher already closed, and no more often: each further
  call may put a further sentinel, so that a thread could be kept busy
  by endless calls.  `Attempts` = 2 has one repeated connection attempt.
* *Queued component.*  Three messages are more than `Prefetch`, so one waits in the
  queue while others are in flight; two outputs per message put a disturbance between
  them; two disturbances include one that comes while the first is being handled.
* *MISP collector.*  Times up to 4 have room for three runs, so one that repairs what
  an earlier one has left undone, and one after it; with a leeway of 1 an event can
  be taken in again, or be too old for that.  The searches come within the leeway of
  the run's start, as the leeway is there to ensure.  A larger
  instance (three samples, two troubles: 3,469,048 states) has no error either, but
  takes four minutes.
* *Aggregation.*  Times 0 to 4 are a day of length 4 and the first moment of the next one;
  five events let a group begin, be finished by waiting or by midnight, begin again and get a
  late event, with other groups in between.  Three groups are the least with which one that
  got an event out of order can keep another one back, behind which a third one is moved.  The
  proofs cover any number of groups and events, any times and any tolerance.
* *Storage.*  Sizes 1, 2, 1, 2 make shifted offsets detectable in one case and not
  in another; three ends let a file written by a start that followed an end be
  read again.
* *Comparator.*  The lists add, remove, change and prolong an entry and include an
  expired one.  An entry known by its address only has lost it in the second list, so its
  message has no key; that message comes first, in between, or last, in a complete series
  or not.  Five deliveries complete two series, with one duplicate if both are of two
  entries, or interleave three.
* *Archive.*  A period of two patches after its initial document begins anew with the
  fourth message, or the third if one is doubled; two mishaps double or repeat a document
  and then meet the result.  A shorter period with five messages (2,715,630 states
  alone) has no error either.
* *Rows.*  Two rows of the same time and an older one are the cases of `Selected`
  and `NewestRows`; two runs overlap.  The proofs cover any number.
* *Event access.*  The pool of subsources has every kind of criterion, alone,
  together, excluded, empty, and shared by several, so that there is something to
  factor out and to merge; up to three of them make an organization's condition.
  Addresses are 1 to 3, of which one is ignored; networks begin at 0, as
  `0.0.0.0/0` does.  25 pairs of organizations' criteria have nested, adjacent, equal
  and no networks, ASNs and domains of different depth.  Events have no, one or two
  addresses, with and without ASN and name.
* *Event queries.*  A reserve of 1 makes queries of two or three rows, so a group of four
  events of one time takes up to four queries; windows of 2 cut the interval in two, at a time that
  events have; requests end before, at, and after the times of events, right-closed and
  right-open, with an empty interval among them.
* *Notices.*  A scenario fixes the messages and which faults may come: for the
  recorder an aggregated event, and entries that are changed, updated, delisted and
  expire, with two kills and a database error; for the counter and the notifier
  up to three events of one client, or two of one or both clients, in and out of the
  order of their times, with up to three notification times and a kill of the
  counter or a broken-off run of the notifier.  All faults at once would only
  multiply the states: they meet in Redis, which the scenarios with one of each have.
* *Organization requests.*  Two handlers are a conflict.  Both registrations ask for
  the same new organization; both updates are of the same existing one, add and
  remove the same logins in opposite ways, and one of them has a ticket.  The proofs
  cover any number of all of these.
* *Cached advisories.*  Three advisories and four changes are the least with which the
  restart of a fetch matters: without it, `CachedIsTrue` is violated with these numbers,
  not with fewer.  A second CVE (1,939,524 states) shows nothing else.  Two
  requests wait for each other, or both find no entry.
* *Logging in.*  Windows of one unit with a drift of one make codes valid for 3; with a
  margin of 4 a code is remembered for 7.  At times 0, 4, 8, and with a clock that goes back
  by up to 4, a code can be used, forgotten, and presented when it would be valid again;
  tokens aged 4 get outdated.  Three tokens are one that is used and two that it may void; one
  user has a password and may have all three, the other one asks for a new password.  The
  proofs cover any numbers.

`CHECK_DEADLOCK FALSE` is set where a model may stop: when its bounded supply of
messages, events, runs, ends or requests is used up (`components`, `state_files`,
`aggregation_first`, `comparator`, `notices`, `portal`).
In the prefetching, pusher and access models, and in `advisories_spacing`, deadlock is
checked; there `Exited` tells the end of a process from a deadlock.

## 5. Fairness

* **PrefetchSync**: each process goes on with its code (weak fairness of
  `Proceed`), its job and its stay in the block end (`FinishJob`, `StartLeaving`),
  and the kernel finishes with killed processes (`Die`).  Acquisitions of the
  GETJOB lock, and of the OUTCOME lock on entering, have strong fairness: these
  locks are held for moments, and flock(2) wakes its waiters.  Nothing of the kind is
  assumed of JOB and ACTIVITY, which are held for a long time.  Nobody has to start
  entering, to ask for a job, to fail or to restart.  The liveness properties are conditional
  on `FaultsCease`: an endless series of failures may keep others waiting.
* **ThreadedAsync**: the threads execute, the target and the hook's sleep end, the
  constructor goes on (weak fairness; every wait in the code is for a condition that
  stays true).  Nobody has to ask for a result, and the process does not have to exit.
  The wait for the trigger times out only while the trigger is not set.
* **ThreadedPusher**: threads execute, timed waits end, calls of the library
  return (weak fairness); who waits for a lock is not passed over for ever (strong
  fairness of the three acquisitions).  Nothing makes anyone call `push()` or
  `shutdown()`, lose the connection, time out, or crash.
* **QueuedComponent**: the IO loop, the timers, the broker and the supervisor do
  what is enabled (weak fairness of each group, and of the delivery of each
  message).  Disturbances never have to happen.  `Restart` stands for the
  supervisor (`etc/supervisord/programs/*.conf`: `autorestart=unexpected`) after a
  breakdown, and for the operator after an intended stop; that messages are dealt
  with (`NothingHangs`) means nothing without one or the other.
* **MispCollector**: a run that is in progress goes on (`RunSteps`), and the IO loop
  transmits what is in the buffer (`IOLoop`).  Time, new events, further runs and
  troubles need not happen.
* **Notices**: the recorder, the counter and the notifier go on (`Handle`, `Count`,
  `Notify`).  Kills, errors, broken-off runs and notification times never have to happen.

## 6. The proofs

### PrefetchSync, for any set of processes and any faults (`PrefetchProofs`)

That nobody is inside while another process does the job (`JobIsExclusive`) is not
inductive: that a process may begin to work depends on the locks that it and the
others hold.  The inductive invariant is

    SyncInvariant == TypeOK /\ Compatible /\ (\A p : Possession(p)) /\ JobIsExclusive

* `Compatible`: of two processes, none has a lock that the other has exclusively
  -- what flock(2) guarantees at each acquisition;
* `Possession(p)`: lock by lock, which mode each point of the code implies, plus
  `ActivityUnderJob`: who has ACTIVITY exclusively has JOB exclusively, unless it is
  being killed (the kernel may close the JOB file first).

`StepKeepsTypes`, `StepKeepsCompatible` (from `AcquireKeepsCompatible` and
`ReleaseKeepsCompatible`) and `StepIsLocal` (a step changes one process's locks and
point) prepare `StepKeepsPossession` and `StepKeepsJobExclusive`.  The argument of
the latter: who begins to work has just acquired ACTIVITY exclusively, so nobody
else holds it, while everyone inside (but another worker between two modes) holds
it shared; a worker between two modes holds JOB exclusively, and so does the one
who begins; who enters holds JOB shared, which no worker allows.

Theorems: `TypeCorrect`, `JobExclusive`, `ActivityImmediate`,
`AssertionsNeverFail`, and `ImplementsPrefetchJob`: every step maps, under the
refinement mapping, to a step of PrefetchJob or a stutter (`Transitions` lists how
the phase of a process may change, `StepImplementsJob` uses `JobIsExclusive` for
the steps that begin a job or enter).  The only assumption is `FaultsAssumption`,
that `Faults` is a set of fault kinds.

### PrefetchCache, for any processes, versions and faults (`PrefetchProofs`)

    CacheInvariant == SyncInvariant /\ CacheTypes
                        /\ (\A p : TaskFollows(p) /\ AttemptIsRight(p) /\ DebtsAreHeld(p))
                        /\ FilesAreAhead

* `TaskFollows(p)`: where the attempt is, given the point of the synchronizer;
* `FilesAreAhead`: usable metadata name a version that is not older than any in memory.
  A process gets its version from the pickle that the metadata name, or from the job
  that has written it, and never later than the files do;
* `AttemptIsRight(p)`: what the attempt has found out still holds.  Here the exclusiveness
  of the job does its work: from the choice to the end of its job no other process writes
  the files, and while it has loaded data and not stored them, no other gets newer
  ones (`OthersRemainRight`).  In the meantime the files may only become unusable;
* `DebtsAreHeld(p)`: those who were blocked on the JOB lock when p released it have the
  OUTCOME lock until they have got the outcome or given it up, which is what p waits for.

Each step of the cache is one of the synchronizer or leaves it alone
(`AttemptSynchronizes`), so `SyncInvariant` carries over.  Theorems:
`AttemptsAlwaysMakeSense`, and `NeverGoesBack`, an action property.  The assumptions are
`FaultsAssumption` and `CacheAssumption`.

### ThreadedAsync, for any readers and versions (`ThreadedAsyncProofs`)

The inductive invariant has six parts:

    AsyncInvariant == AsyncTypes /\ FutureIsWhole /\ TaskKnowsFuture
                        /\ WaitersHaveReason /\ TestsHoldOn /\ LateCallsAreDue

`FutureIsWhole` relates the attributes of the future; `TaskKnowsFuture` says what
each place of the task's thread implies about them, since nobody but that thread and
a canceller changes them.  `WaitersHaveReason`: a thread that sleeps in `result()`
finds the future unfinished, so the notification that wakes it is still to come.
`TestsHoldOn`: what the first call of a test has seen still holds as far as the
second call depends on it; this is where the order of the two matters.
`LateCallsAreDue`: where the thread is about to call something, no late call has been
made yet.  Theorems: `OneLateCallAtMost`, `TestsAreTrue`, both together `StateReliable`,
`NoWakeUpIsLost`, and `PromiseIsImplemented`, the safety part of `ImplementsPromise`.
The assumption is `AsyncAssumption`.

### ThreadedPusher, for any threads, size of the fifo and number of attempts (`ThreadedPusherProofs`)

    PusherInvariant == PusherTypeOK /\ PushLockIsExclusive /\ InOrder /\ SentInOrder
                         /\ EndsInOrder /\ StopsInOrder /\ ClosesInOrder

* `PushLockIsExclusive`: one at a time is between its check of the flag and its put, or
  between taking the push lock in `shutdown()` and switching the flag off;
* `InOrder`: the fifo holds, besides sentinels, exactly the accepted messages that the thread
  has not taken out, in order -- so what the thread takes is the next one;
* `SentInOrder`: how far sending has come at each place of the thread;
* `EndsInOrder`: unless the thread has crashed, nobody puts once the flag is off, and the
  thread that ends has found nothing left.  This is why `shutdown()` takes the push lock;
* `StopsInOrder`, `ClosesInOrder`: what a closing thread has found out about the publishing
  thread is still so when it closes the connection or returns.

A lemma per kind of thread preserves each part (`...KeptByPush`, `...KeptByClosers`,
`...KeptByThread`).  Theorems: `PusherTypesCorrect`, `SentAsAcceptedHolds`,
`ReopenedAfterGivingUp`, and `QueueImplemented`, a refinement: each step accepts a message,
settles the next one, lets a `shutdown()` return, or changes nothing of that (`QueueSteps`).
The assumption is `PusherAssumption`.

### QueuedComponent, for any messages, outputs, set-up and disturbances (`ComponentsProofs`)

That nothing is published twice without a breakdown needs an account of every message and
every frame.  The inductive invariant is

    CountsInvariant == Consistent /\ Limits
                         /\ (link = "up" => Regular \/ ("early interrupt" \in Events /\ Interrupted))

* `Limits`: each output has reached the broker, or is on the wire, at most once more than there
  were breakdowns (`Count`); a message that is in the queue (again) has been published
  before a breakdown only (`Stale`);
* `Regular`, while the connection holds: `ChannelsAgree` (which frames there may be in each
  state of the channels, the consumer, and a stop: after the closing of a channel nothing
  follows), `EachInOnePlace` (a delivered message is on its way to the component, in its
  hands, or answered; outputs without an answer are those of the message in hand) and `CountsAgree` (of
  what is unacknowledged, the parts not yet published are stale, so publishing them
  stays within the limits);
* `Interrupted`: after a KeyboardInterrupt before the input channel is open (`base.py:617`)
  nothing is published any more.

The actions are sorted by what they do to the frames: quiet steps (`Quiet`: set-up, stop, shutdown
and replies, which send control frames at most), answers (`Answering`), publications, what
the broker takes and sends, and collapses of the connection; a lemma per kind preserves
the invariant.  `InOrder` of the wire, and how it is kept when a frame is appended or taken, are
lemmas on sequences of their own.

That no message is lost follows from

    PromiseInvariant == CountsInvariant /\ (Consumer(comp) => OutputReady(comp))
                          /\ (link = "up" => NothingIsLost)

`NothingIsLost`: an ack on the wire is preceded by those outputs of its message that have not
reached the broker yet (`AcksComeLast`), the parts already published of the message in hand have
reached it or are on the wire (`InHandIsOnItsWay`), only bad messages are rejected
(`OnlyBadAreRejected`).  This holds under the hypothesis `Orderly`, that neither
`"early interrupt"` nor `"slow output"` is among the `Events`: either of these lets
messages be buried that are not bad (section 7).  Theorems:
`NoDuplicatesWithoutBreakdown`, without that hypothesis, and `PromiseIsKept`, a refinement:
with it every step is one of AtLeastOnce or a stutter.  The assumption is
`QueuedAssumption`.

### OrgRequests, for any handlers, organizations, users and requests (`PortalProofs`)

    RequestsInvariant == Types /\ Register /\ Locks /\ Checks /\ OwnRequests /\ ~rejected

What a handler has checked is about rows that it has read, and nobody else may write
these before the handler is done (`Locks`); so at the time of its commit, its check
still holds (`Checks`), and the commit is one step of OrgRegister.  `OwnRequests`: no
two handlers post the same request.  `Register` is the invariant of the committed
data (an organization has at most one pending update, with which the constraint
of the database is never violated, hence `~rejected`).  `Mails` and `Tickets` extend it for
the history variables.

Theorems: `RegisterImplemented`, `ConstraintNeverNeeded`, `UpdatesTakeEffect`,
`MailsAndTicketsTrue`; the assumptions are `OrgRegisterAssumption` and
`OrgRequestsAssumption`.

### RowsCollector, for any rows, times, runs and failures (`StateFilesProofs`)

`NothingIsLost` speaks of the state file only.  It is preserved when a run saves
its state because of what holds of that state while it is in memory, and when a
row arrives because the newest time of a state is the time of a row that has been
collected, and the source adds no rows older than those collected.  The inductive
invariant is

    RowsInvariant == Types /\ NewestIsFresh /\ AllAtNewest /\ AllSafe

where `AllSafe` says, of the state file and of each state in memory, that saving it
is safe given what has been (or will by then have been) published; `AllAtNewest`,
that all rows of a state are of its newest time, which is why some of the newest
rows are fresh whenever any row is (`NewestIsFresh`, the sanity assertion in the
code).  Theorems: `RowsTypeCorrect`, `NoRowIsLost`, and `RowsKept`, which
adds the lemma `NoRowIsPassedOver`; that one follows from `AllSafe` for the loaded state.

`TroubleHasACause` blames what goes wrong on what has happened, so its invariant describes
runs to which nothing has happened:

    CausesInvariant == RowsInvariant /\ (Undisturbed => EachOnce)
                         /\ ("removal" \notin unusual => AllCounted)

`EachOnce`: without failures, overlaps and returning rows, what has been published is
passed over by the state file, or will be by the one state that is about to be saved.
`AllCounted`: as long as the source has dropped nothing, the count of each state is the
number of rows there are that it passes over, so the comparison of counts finds
nothing wrong.  Theorem: `TroubleHasCauses`.  The assumption is `RowsAssumption`:
finitely many rows, times positive numbers.

### AggregatorStorage, for any payloads, ends and writes of the buffer (`StateFilesProofs`)

    StorageInvariant == StorageTypes /\ NothingTwice
                          /\ (~torn => FilesAgree /\ ContentAgrees /\ NothingWrong)

The file that counts is the whole one, `WholeFile`: what is in the payload file and then what
the file object still has in its buffer.  It only ever grows at the end while the aggregator is
working, and how much of it is written does not matter to the handles.

* `FilesAgree`: each handle in the data file, needed or not, is `Placed` -- it has its own
  payload's blocks at its offset -- and the handles are `Separate`, each beginning behind the
  one before.  Between the two writes of a start this holds of the file that is going to
  replace the payload file (`shrunk.blocks`), and not of the one there is: hence `torn`;
* `ContentAgrees`: the same of the handles in memory and the whole file; and while the
  payloads are copied, of the handles that are left and the old file, and of the new handles
  and the blocks copied so far.  No handle that is left lies before `shrunk.upto`, so the
  check at `aggregator.py:269` never fails;
* `NothingTwice`, for which torn files do not matter: what is copied comes from ever later
  places of the old file, and what is saved is new.

`Reading` says that a placed handle reads its payload, `PlacedInLonger` that it stays placed when
the file gets longer, `WritingOut` that to write the buffer out leaves the whole file as it
is.  That `store_state()` closes the payload file first is used for the handles in the data file,
which must be placed in what has been written (`EndingKeepsAgreement`).  Theorem:
`FilesAlwaysAgree`; the assumption is `StorageAssumption` (sizes are positive).

### SourceAggregation, for any groups, events, times and tolerance (`StateFilesProofs`)

    AggregationInvariant == Basics /\ DatesAgree /\ PartsInOrder /\ MovedBecauseFinished
                              /\ (tolerance = 0 => Prompt)
                              /\ (failedOutputs = 0 => Counting)

* `DatesAgree`: why no part lasts longer than a day.  The code never compares an event with the
  beginning of its group, only with the latest time: it relies on the groups being of today
  (`OfToday`, but for the tolerance).  They are not while the first event of a day is being
  processed; then all groups but its own, the last one, are of earlier days, so that the loop
  over the groups is about to remove them (`DayHasBegun`) -- also if a publication fails in
  between and the message comes again;
* `PartsInOrder`: a part in the buffer has ended before the one in `groups` begins, entries
  that the loop has already moved aside;
* `Prompt`, without a tolerance: `GroupsInOrder`, the groups end in the order in which they are in the
  dict, except for those with an event out of order; so if the loop stops at a group that is
  waited for, those behind it are, unless that one is such an exception
  (`NoneIsForgotten`);
* `Counting`, while no publication has failed: `Balance`, what has been reported and what is
  pending is no more than what has been accepted, and the same without a tolerance.  For
  the latter a part that is moved to the buffer must not replace another one there:
  `BufferIsFlushed`, the buffer is empty between two messages, as all in it is older than
  the latest time, and of a part in the buffer with a successor in `groups`, the
  successor has just begun, and so is not going to be moved.

A lemma per action (`BeginGroupKeeps` ... `ClearInactiveKeeps`) preserves the invariant; they rest
on lemmas about ordered dicts (`Assigning`, `MovingToEnd`, `CuttingFrom`) and about what these do
to the counts (`CountsAssigning`, `CountsMovingToEnd`, `CountsFrom`).  TLC has checked the
invariant, without symmetry, on 3 groups and 4 events (4.27 million states).  One clause of
`PartsOfGroups` was found wrong by trying to prove it: it did not have the exception for
`outOfOrder` (section 7).  Theorem: `GroupsStayRight`; the assumption is
`AggregationAssumption`.

### MispCollector, for any events, samples, times and troubles (`ComponentsProofs`)

`ConfirmedIsSent` speaks of the state file alone, and a step that saves it must know what
has become of all that it confirms; `ConfirmedIsNotRepeated` speaks of the outbound
buffer, and a step that fills it must know that nothing of it is confirmed.  Both follow from

    MispInvariant == MispTypes /\ StateIsSaved /\ TimesAgree /\ BufferHolds /\ FlushedIsSent
                       /\ EventsInHand /\ SamplesInHand /\ WorkIsDue /\ ConfirmedIsSent

* `TimesAgree`: the times in the file lie behind and in their order, and while no search
  is to come any more, the time of the events is that of this run;
* `BufferHolds` and `FlushedIsSent`: the coroutine gets the control back only with an
  empty buffer, so at a confirmation what was published has been sent -- the argument for
  `await PubIterFlushOut` before each `save_state()`;
* `EventsInHand` and `SamplesInHand`: whatever is older than this run has been sent, is
  confirmed already, or is in the hands of the run, at each place of its code;
* `WorkIsDue`: what the run has in hand is neither listed in the file nor older, by more
  than the leeway, than its times, and no sample is in hand twice.

There is a lemma per action (`FetchEventsKeeps` ... `FinishKeeps`, `IOLoopKeeps`);
`SearchIsComplete` is where the leeway matters: a search made in time finds
everything new.  `RunGoesOnOrEnds` covers the machinery and all troubles at once: either
the run goes on with its buffer, or all that it has in hand is lost, and then nothing of it
has been confirmed.  Theorems: `MispInvariantHolds`, `OnlySentIsConfirmed`,
`NothingConfirmedIsRepeated`; the assumptions are `MispAssumption` (samples belong to one
event and are no events, numbers are natural) and `PublishingAssumption`.

### PickleStorage, for any readers, versions and ages (`PrefetchProofs`)

    PickleInvariant == Types /\ FilesAreComplete /\ InOrder /\ Progress /\ Matching
                         /\ ReadersInformed

* `InOrder`: timestamps follow each other as the files were opened -- both files of one
  storing are younger than what they replace, and its metadata are not younger than its
  pickle.  So the metadata are never the younger ones of the two files there are, and a
  pickle that is too old when it is committed replaces one that was;
* `Progress`: what each step of `store_everything()` implies about its files; between the
  commits (`store.half`) the new pickle is in its place;
* `Matching`: unless `store.half` or `rough`, the metadata describe the pickle;
* `ReadersInformed`: what an undisturbed reader has been told is still true.

`TypesPreserved`, `KeptPreserved` and `ReadersPreserved` make the invariant inductive.
Theorems: `RetrievedAsStoredHolds`, and `StoredAtOnceHolds`, a refinement: of all steps
only `Tick`, `RenamePickle`, `RenameMetadata` and `RemoveMetadata` change what is shown,
and for each of them it is shown which action of PickleFiles it is, or that it is none when
the file concerned has got too old.  The assumption is `PickleAssumption`.

### AuxiliaryCache, for any advisories, CVEs and requests (`PortalProofs`)

    CacheInvariant == CacheTypes /\ OneAtWork /\ SinceIsKnown
                        /\ (\A p : WorkIsRight(p)) /\ CachedIsTrue

`OneAtWork`: once there is an entry, its lock lets one request at a time work on it.
`WorkIsRight(p)` is what a request knows at each step: what it has read was so, and is so
unless changed later (`ListIsRight`); while the number of results is that of the page read
last, the pages read are the first ones of the list there is now (`PagesAgree`) -- as a list
of changed advisories only grows, the same number means the same members; what is not in
the complete list has not changed since, or has changed later than all of it
(`ListIsWhole`); what has been found for a CVE is so for each advisory that is as it was when the
list was read (`FoundIsRight`).  That the greatest time of a list bounds the
others is `BoundedMax`, from the well-foundedness of `<`.  Theorem: `CachedStaysTrue`; the
assumption is `AuxiliaryCacheAssumption`.

### PortalLogin, for any users, times, ages and acts (`PortalProofs`)

    LoginInvariant == LoginTypeOK /\ ClockIsNear /\ UsesAreOfTokens
                        /\ AcceptedAreRemembered /\ LeftAreLater
                        /\ CodesAreUsedOnce /\ EarlierAreVoid

`AcceptedAreRemembered`: a code once accepted is in the table of spent codes, or so old that it
is not valid even when the clock is put back as far as it may be: this is what the margin in
`DELAY_TO_BE_SURE_THAT_MFA_CODE_EXPIRES` is for, and the only use of
`Turbulence <= Margin` in `LoginAssumption`.  `LeftAreLater`: a token that is left is a later
one than those that were there at any success of its owner with its type.  Theorems:
`LoginTypesCorrect`, `CodesUsedOnce`, `EarlierVoid`.

### Comparator, for any lists, deliveries, exits and interrupts (`ComparatorProofs`)

    ComparatorInvariant == /\ ComparatorTypes /\ SeriesInvariant /\ WaitingInvariant
                           /\ KnowledgeInvariant /\ ConsumersInvariant

* `SeriesInvariant`: which messages of a series have been counted, which series has a
  timeout at each step (`ArmedAgree`), and that what has been counted of the latest list and
  has a key has been accepted (`CountedAreApplied`), hence, when the series is complete, all of
  it that has a key (`AllApplied`);
* `WaitingInvariant`: what has been accepted has been counted (`AppliedAreOpen`); so when
  the comparator goes on after a message, its series, being incomplete, lacks one that has not
  been accepted, and no series ever waits that has been accepted as a whole
  (`NoneIsLeftWaiting`);
* `KnowledgeInvariant` rests on time: that of the comparator only grows, so while it is that
  of a list, no other list has touched the blacklist since the first message of that one,
  and what has been accepted of it is still flagged (`AppliedAreFlagged`).  An entry keeps
  the id of the message that has made it, whose key it has (`KnownIsSound`);
* `ConsumersInvariant`: so different entries have different ids, and an event pending about
  one of them does not disturb what the consumers know of another. What is unflagged at the
  end of a series is in its list, if at all, without a key (`DelistedAreNotListed`), and
  each id in the blacklist, or in the file, has been announced or is about to be
  (`Emitted`).

Theorems: `SeriesAlwaysEndProperly`, `ConsumersAlwaysAgree`.  `ComparatorAssumption` says
that lists have different times and that the messages of a list are numbered from 1.

### Recorder, counter and notifier, for any messages, clients and mishaps (`NoticesProofs`)

    NoticesInvariant == RecorderTypes /\ EachOnce /\ NoneMissing
                          /\ NoticesTypes /\ Counted /\ CountedOnce
                          /\ HashesAreRight /\ WatchHolds /\ SnapshotIsRight /\ MailsAreRight

* `EachOnce`: an event is published, or due in the outbound buffer, or in the hands of the
  transaction that has inserted it -- one of these at most, and only if it is stored.
  `NoneMissing`: one of these at least, unless the recorder has been killed;
* `Counted` and `CountedOnce`: how far the counter has come among the clients of an event says
  for whom it is counted; it is counted more than once only after as many cuts;
* `WatchHolds`: at each place of the counter, what it has read of the hash is so or the
  watch is broken.  So when the transaction goes through, the time in the hash is not later
  than the event's; but a mail may be being made (`raced`), which has its own copy of the hash;
* `HashesAreRight`, `SnapshotIsRight`, `MailsAreRight`: the bounds in the hash, in the copy and in
  a mail cover the events after the last mail's (`Covering`), except those that have raced.

The three processes are taken one by one (`RecorderKeeps...`, `Counting...`,
`Notifying...`); how the occurrences of a number in a sequence grow with an `Append` is a
lemma of its own (`OccurrencesGrow`), and that the next client is the least one after
that in hand needs the well-foundedness of `<` (`NextClientIsTheNext`).  Theorem:
`AlwaysPublishedCountedMailed`; the assumptions are `RecorderAssumption` and
`NoticesAssumption` (events have positive times and clients among the numbers there are).

### What is only model-checked

Liveness (`NobodyWaitsForEver`, `NobodyHangs`, the liveness in `ImplementsPromise`,
`ShutdownEnds`, `NothingHangs`, `CollectionsEnd`, `EveryEventIsCounted`): fairness and
ENABLED are out of this prover's reach.  `ArchiveRecovers` (RawArchive) compares contents with what
a fold over all the patches of a period gives, and `ResultsAreRight` (EventQuery) speaks of
sorted sequences of a set (`SetToSortSeq`): both would need an induction over data.
`EntriesAreRight` compares each scenario of the recorder with what should come of it, so it is a
statement about the scenarios of the instance.  Conditions and EventAccess recurse over conditions with RECURSIVE
operators, which the prover does not support: their properties stay with TLC, as would any
statement by induction over conditions.

## 7. Where the code departs from what it says

Each of these has a run whose property states what the repository says and is
violated by what the code does.

1. **Prefetching processes can wait in a circle** (`prefetch_deadlock`,
   `auth_api.py:3030`).  The process that did the job waits for the OUTCOME lock,
   still holding ACTIVITY.  A process let in after the job finds the outcome already
   too old, takes JOB and waits for ACTIVITY.  A third one arrives, takes OUTCOME and
   waits for JOB.  The comment at line 2981 assumes that every other process is
   outside or blocked in `__enter__()`.
2. **The first event of a group may never be published** (`aggregation_first`,
   `aggregator.py:1009`).  The state is changed before the publication; if that
   fails because of an AMQP problem, the state is stored, and the redelivered
   message is taken for the second one of its group.
3. **The advisories' service is asked again and again** (`advisories_spacing`,
   `auxiliary_cache.py:59`).  `moje_data_cache_validity_period_seconds` is to say for how
   long data are kept "before trying to fetch another update"
   (`n6portal/__init__.py:124`).  If the answer is that nothing is new, the same content
   is assigned again, for which SQLAlchemy emits no UPDATE; so `updated_at` stays as it
   was, and each further request of the portal asks the service, with the row locked.

Other observations made while modelling, which no run of their own demonstrates;
some of them explain a restriction in a property:

* `base.py:1159`: a message that comes before the output channel is ready is buried.
  "The message will be requeueud" (line 1162); but `publish_output()` raises
  `RuntimeError`, which leads to a nack without requeuing.  The event `"slow output"`
  of QueuedComponent shows it.
* `base.py:617`: if KeyboardInterrupt comes before the input channel has been
  opened, `stop()` restarts a loop that nothing ends, and every message is buried
  by a component that is stopping.  The event `"early interrupt"` of
  QueuedComponent shows it (`NothingHangs` is then violated).
* `base.py:1900`: an exception in the coroutine of an iterative publisher, an
  interrupt included, is raised again only after the outbound buffer has been flushed.
* `amqp_getters_pushers.py:578`: the thread's `finally` switches the flag off
  without the push lock, unlike what the comment at line 560 explains for
  `shutdown()`.  A `push()` that has passed its check then puts a message that
  nobody takes out; the model has it (`EndThread`), and `SentAsAccepted` excepts
  crashed threads.
* `comparator.py:84`: a message with neither a url nor a fqdn nor an address is refused
  (`get_event_key()`), but only after it has been counted in its series (`:455`).  A
  blacklist event known by its address alone is one when the enricher has excluded that address
  (`enrich.py:171`, `:238`).  If a later message completes the series, it is finalized
  although one of its messages has never been accepted, and the entry, if it is known by its
  address from an earlier list, is delisted though still on the list.  If the message
  without a key is the last one to come, the series is not finalized and ends by its
  timeout.  The model has all of it (`RejectKeyless`), and its instance reaches it; hence
  `HasEventKey` in `SeriesEndProperly` and in `SameBlacklist`.
* `comparator.py:463`: `stop()` stores a blacklist that contains an entry whose
  `bl-new` has not been published, and the entry is updated later with an id that was
  never announced (`docs/src/usage/streamapi.md:99`); hence `EmittedEarlier` in
  `ConsumersAgree` excepts interrupts.
* `comparator.py:112`: only addresses and expiry times are compared, so a change of
  another attribute (a `name`, say) is neither published nor remembered, while
  `docs/src/usage/streamapi.md:107` says that `bl-change` stands for "a change to any
  attribute except the expiration time"; hence `SameBlacklist` speaks of
  these two only.
* `comparator.py:206`: the state file is not written atomically; after a kill during
  the write the comparator does not start until the file is removed (step
  `broken`).
* `aggregator.py:633`: with a time tolerance, a finished part of a group overwrites
  an earlier part that is still in the buffer, and its count is never reported;
  late events counted in the buffer do not move `until` (`:588`).
  Hence the restriction to a zero tolerance in `EverythingCounted` and in parts of
  `PartsOfGroups`.
* `aggregator.py:574`: an event out of order that belongs to a group still aggregated moves the
  group's `until`, but not the group, while the loop at `:631` stops at the first group that
  is still waited for.  So if that group is the first one, the finished groups of the same day
  behind it are reported late, even with a zero tolerance.  Hence the exception for
  `outOfOrder` in `PartsOfGroups`.
* `aggregator.py:786`: a kill between the two writes of a start leaves handles that
  do not fit the payload file.  The next start either notices, or -- if the shifted
  bytes happen to begin a payload of the right size -- loads another group's
  payload.
* `aggregator.py:973`: an aggregator that is killed, or exits on an unexpected
  exception, does not store its state, and forgets what it has acknowledged since
  the last time it did.
* `collectors/base.py:1662`: when some of the newest rows vanish from the source and
  nothing is fresh, a sanity assertion fails (`aborted = "assertion"`);
  `TroubleHasACause` says that this takes a removal.
* `misp.py:614`: one successful download is enough for the samples whose download
  has failed to be given up, as its comments say (`givenUp`).  Events within the
  leeway are published again by the next run.
* `threaded_async.py:641` and `:699`: cancellation is checked before a call is made, so
  one call may begin after `cancel()` has returned, while its docstring (370-378) says
  that neither the target nor the hook will be invoked anymore; hence
  the one late call in `StateIsReliable`.  After a timeout of the trigger (`:596`) the future stays
  unfinished, and those who call `result()` wait until the process exits; hence the
  exception in `NobodyHangs`.
* `notifier.py`: the field `_time` is deleted after the mail, although events may have
  been counted since the snapshot; the next mail's link then begins too late (the set
  `raced` in `MailsFollowOn`), or the next run ends with a `KeyError`.  If the mail to a
  second address of a client fails, the first one gets it again in the next run.
* `counter.py:135`: that `modified` is not decreasing relies on there being one recorder,
  as a FIXME says.  A blacklist row's `modified` changes later, so the link of an
  earlier mail does not show it any more.
* `archive_raw.py:768`: patches are applied in the order of the messages' times.  One that
  comes late was made for another place in the chain, so neither its blacklist nor the
  ones until the next patch can be recovered, although "the differences recovers file
  ORIGINAL" (line 616); hence `late = 0` in `EachIsThere`.
* `archive_raw.py:82`: when the connection breaks after a document has been stored, it is
  stored again.  patch(1) skips a patch already applied, but not one that begins with the
  empty file, such as the first one of each period; hence `Doubled`.  A stream's document
  has been given its id by then, so the second insertion fails with a duplicate key, and
  a message that has been archived is rejected.
* `client_to_event` has no primary key in SQL; its rows are single because they are
  inserted in one transaction with the event's own, which has one.
* `db_filtering_abstractions.py:1354`: the predicates drop ASN 0, which matches in SQL.
  An event with several addresses is one record to a predicate but several rows to the
  database, so conditions on different addresses meet only in the former.  Hence
  `Ordinary` in `AccessAgrees`.  MariaDB's `ascii_general_ci` compares names regardless
  of case; the predicates do not.
* `moje_api_client.py:161`: only a change of the number of results restarts the fetch of a
  list.  If a page that has been read changes while a later one is read, and the later
  one brings a newer time, the cache is wrong about the former until it changes again,
  since updates begin after the newest time; hence `missed` in `CachedIsTrue`.
* `data_backend_api.py:1268`: rows are ordered by time only, so the database may put those
  of one time in another order for the next query of a step, and an event may be missed;
  hence `stable` in `ResultsAreRight`.  Only steps with more rows than the limit and
  its reserve (of 100 or more) take a second query.
* `org_request_helpers.py:478`: the mail about a new organization goes to the address
  read from the request after the commit, which a later edit may have changed; an
  accepted request may still be edited and saved, which has no other effect.  Two
  messages in `mail_notices_helpers.py` about missing recipients lack the prefix that
  would have their placeholders filled in.

## 8. Abstractions and what is left out

* Messages, rows, payloads and groups are model values or small records; ids,
  serialization and wording are left out.  Versions of the Auth DB are numbers;
  ages have the three values that the code's thresholds tell apart.
* flock(2) is modelled as the kernel implements it: a conversion is not atomic, and
  a process that exits gives up its locks one by one.
* **PickleStorage**: the clock does not go back, one process at a time stores files (as
  PrefetchSync ensures), nobody else has the secret key or writes to the files.  The loss
  of power and what the file system forgets then are left out (the code does not call
  fsync(2)), and so are temporary files that a killed process leaves.  The data of a version
  are always the same; the second check of a root node, of its timestamp, is left out.
* **ThreadedAsync**: an initial sleep and a task that is not looped are not used by n6.
  Exceptions between two lines of a method and spurious wake-ups are not modelled.
* **The environment of QueuedComponent** is modelled from how the code uses pika
  and RabbitMQ: a cancelled consumer rejects what is still delivered to it; the
  broker takes the frames of a connection in order; publications are not
  confirmed; the broker notices at once that a process is dead and gives its
  messages back; it does not lose what it has taken.  Setting up communicates in
  one exchange per binding or exchange.  The component of the model has an input
  and an output; a graceful shutdown of a component without output is not modelled.
* **IterativePublishing, MispCollector**: "sent" is what has left pika's outbound
  buffer.  An interrupt before the channels are open is left to QueuedComponent's
  `"early interrupt"`.  The state file exists from an earlier run and is saved
  atomically; there is one run at a time; n6 and MISP have the same clock; the samples
  of an event do not change and belong to it alone.  The branch for an undeclared
  exchange of samples, the translation of old state files, HTTP and its retries are
  left out.
* **Pusher**: construction and its start timeout are not modelled; the error
  callback does not call the pusher.  `MaxItems` keeps `push()` from starting once
  so many messages have been accepted.
* **Aggregation** of one source; payload cleaning and the legacy format of the
  state are not modelled.  AggregatorStorage does not look at which groups the
  payloads belong to beyond whether they are still needed.
* **Comparator**: lists of one source have times of their own.  An interrupted or
  superseded series may keep an absent entry listed for one more series (its flag
  is that of the series that was not finished); `ConsumersAgree` allows that.
  The cleaning of entries is not modelled.
* **RowsCollector**: what the class requires of a source is in `Add`: new rows are
  not older than those already collected (base.py, class docstring).  Saving the
  state is one step, as AtomicallySavedFile makes it; the publishing phase is one
  step that happens or breaks off.
* **Recorder**: one row stands for the rows of an event's addresses; the set-up of the
  session, the recovery mode and the conversion of records are left out.
* **RawArchive**: patch(1) as GNU patch 2.7 does it when nobody answers its questions: a
  patch already applied is rejected, and so is one to an empty file; a patch that makes a
  file out of nothing is applied to any file.  Blacklists are text whose lines are enough
  context for a patch to fit one place.  Documents of the same time may be returned in
  either order.  One archiver runs at a time.  Checking the names of collections, their
  indexes, the backup files of `backup_msg()`, the connecting itself, and messages with
  `write_to_mongo` false are left out.
* **Notices**: Redis keeps what it has been told; one run of the notifier at a time;
  a tick is a notification time that has come (days off and the calendar are left out);
  one category of events stands for all; the limit on the difference between an
  event's time and `modified` is left out.
* **Conditions, EventAccess**: comparisons other than equality, membership and
  intervals; country codes, which go the way of ASNs; URL criteria; the zone "search";
  resource limits.  The Auth DB's data are constant in a behaviour.
* **EventQuery**: what matches the other parameters is given; the database's answers are
  those of one snapshot (the isolation level is REPEATABLE READ).  Rows that a JOIN doubles are
  rows like others.
* **OrgRequests**: locks on requests and organizations stand for those on all their
  rows; transactions are serializable, as the Auth DB's are configured to be.  Other
  views of the Admin Panel (deleted, renamed, moved rows), credentials and the audit log
  are left out.  Whether a kind of request gets an RT ticket is the constant `Ticketed`.

* **AuxiliaryCache**: changes of the service's advisories have times of their own, which
  only grow; a page has one advisory, and the list of a CVE one page.  The lock of a missing
  row is InnoDB's gap lock.  The limit on the number of pages, and the validation of what
  the service answers, are left out but for the exception that they raise (`FailRequest`).
  Advisories never vanish from the service (the updates could not tell of it).
* **PortalLogin**: MFA codes of different keys or time steps are different numbers (two
  equal ones by chance are left out), a wrong code or password changes nothing but what
  `DeleteAfterFailure` does; cookies do not expire.  Logging in through OIDC, API keys and the
  wording of mails are left out.  The real margin is 3 seconds, with windows of 30.

## 9. The plan

The modules on which most of n6 depends came first.  Done:

1. PrefetchJob, PrefetchSync, PrefetchCache; PublishingQueue, ThreadedPusher;
   AtLeastOnce, QueuedComponent; SourceAggregation, AggregatorStorage; Comparator;
   RowsCollector; the proofs about PrefetchSync and RowsCollector.
2. Promise, ThreadedAsync; IterativePublishing, MispCollector; Recorder, Notices;
   Conditions, EventAccess; OrgRegister, OrgRequests; RawArchive; the proofs about ThreadedAsync,
   OrgRequests and MispCollector.

3. PickleFiles, PickleStorage with the file helpers, and the proofs about them;
   AuxiliaryCache; EventQuery.
4. PortalLogin; the proofs about it, AuxiliaryCache, PrefetchCache, ThreadedPusher and
   QueuedComponent, and the rest of those about RowsCollector and ThreadedAsync.
5. The proofs about Comparator, Recorder and Notices, and those about AggregatorStorage and
   SourceAggregation.

Left to model: nothing that is hard because of what comes in which order; other parts are
listed in section 1 with the reasons.

Left to prove: of what TLC checks, the properties named at the end of section 6, which are out of
this prover's reach, or, like `EntriesAreRight`, speak of given scenarios.
