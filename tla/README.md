# BGIocpServer in TLA+

BGIocpServer is a C++ game-server framework on top of Windows I/O completion
ports: worker threads, overlapped sockets, a timer thread, pooled buffers and
sockets, home-made locks. This directory models it in TLA+, checks the models
with TLC and proves the main theorems with TLAPS.

* `X.tla` models a component; `MCX.tla` and `X*.cfg` instantiate it for TLC;
  `XProofs.tla` holds its theorems.
* `PROJECT.json` lists components, runs, mutants (a plausible bug per property,
  with which TLC finds the property violated), the source lines of every
  definition, findings, hazards and theorems.

Check one run with `tlc -workers 2 -config SendQueue.cfg MCSendQueue`, one proof
module with `tlapm SendQueueProofs.tla`.

## 1. Inventory

| component | state | operations | what makes it correct |
|---|---|---|---|
| Connection, send side (`BGIOSocket::Write`, `WriteCallback`) | list `m_pFirstBuf..m_pLastBuf`, `m_nPendingWrite`, one `OVERLAPPED` | queue, merge, `WSASend`, completion, next send | one send at a time; bytes in order, none lost or doubled; references and buffers exact; no stall |
| Connection, receive side and closing (`Read`, `ReadCallback`, `Close`, `GracefulClose`) | `m_pReadBuf`, `m_hSocket` | post a read, frame packets, exchange the handle on close | one read at a time, handle closed once, reference released once |
| `BGRWLock` | packed `m_nCount`, spin lock, two auto-reset events | `ReadLock/Unlock`, `WriteLock/Unlock`, `WriteTryLock` | writers exclude; fields never carry into each other; no lost wake-up |
| Lock bookkeeping (`BGLockInfo`, `BGILock`, critical section, spin lock, scoped lock) | per-thread `m_dwPendingLock`, map of all threads | count pending locks, `IsDeadLock` | the counter is the number of locks a thread waits for or holds |
| Buffer pool `BGIOBuffer` | two free lists, running counters, `g_nStop` | `Alloc`, `Free`, `FreeAll` | one owner per buffer; recycling bounds memory; shutdown leaves little behind |
| `BGIOObject` | `m_nRef`, `m_nTimerRef`, `m_nGeneralRef` | `AddRef`, `Release`, `AddTimer`, `OnIOCallback`, `OnFree` | freed once, after the last reference of either kind |
| `BGIOTimerThread` | priority queue, `s_n64TopTime`, `s_nStop`, event | `AddTimer`, `Run`, `OnTerminate` | the queue is never empty; no timer early, none slept past; references returned at stop |
| Accepting (`BGIOServer`, `BGIOAcceptThread`) | listening socket, accept event | wait, `Reset`, post, `accept`, `CreateSocket` | no connection waits for ever; close once |
| Connection slots (`BGTestServer`, `BGTestSocket`, `BGTestPlayer`, `BGGameWorld`) | arrays of sockets and players, used bits, world maps | `CreateSocket`, `LoginOn`, `OnClose`, `Disconnect` | a slot serves one connection at a time and is reset before it is used again |
| Framing (`BGTestSocket::OnRead`, `Process`) | read buffer with a rest of a packet | split the stream into packets, answer pings, limit the answers | every packet once, whatever the read sizes; closed only for a reason |
| Stress-test client (`BGThreadFunc`, `BGDummyClient`) | a packet in parts (`m_uncomplete_packet`, `m_current_packet_size`) | connect, send, put packets together | every answer once, whatever the read sizes |
| Workers and shutdown (`BGIOWorkerThread`, `BGIOCompletionHandler`, `BGIOTerminate`) | completion port, `s_threadList`, the object on `main`'s stack | dequeue, `OnIOCallback`, terminate | every worker ends, none where others wait for it; `main` comes to its end |
| `BGLogManager` | queue, files, hour of the files | `Start`, `PushLog`, `Run`, `Stop`, renew the files | what is pushed before the stop is written, in order; files of the right hour |
| `BGLayer`, configuration, singleton, `main` | start-up data | fill once, shut down | sequential but for the shutdown |
| Game objects, stubs | data | - | no behaviour of their own |

**How the parts interact.** Every asynchronous object is a `BGIOObject`. A socket
or a server registers its handle with the completion port of a layer; the kernel
(or `Post`) queues packets there, and `BGIOWorkerThread::Run` dequeues each one and
calls `OnIOCallback` of the object it names. An overlapped operation or a posted
packet holds one reference of its object, given back at the end of the callback.
The accept thread waits on the socket event and posts the server to the port; the
timer thread posts due objects. Connections allocate their buffers from the pool.
All threads share the locks of `BGLock.cpp`, and all of
them write to the log, whose thread puts the entries into files. `main` starts
the log first and stops it last.

**Hard behaviours.** Two workers run callbacks of one connection at the same time;
a completion may be handled before the thread that posted the operation has gone
on; a send may be refused, aborted or cut short; sockets are closed while sends
are outstanding; slots are used again; five counters share one word; the last
thread out must wake the right sleeper; shutdown races with everything. Each is a
hazard in `PROJECT.json`, with its line and the properties that watch it.

## 2. What is modelled

| module | system | promise it implements |
|---|---|---|
| `SendQueue` | the send side of a connection | `SendStream`, a byte stream |
| `Framing` | packets between the stress-test client and the server | `PacketChannel`, once in each direction |
| `LogManager`, `Shutdown` | the log; the end of the program, composed with the log | `LogFiles`, ordered and complete files |
| `SocketSlots` | the life of a connection object | |
| `AcceptPipeline` | accepting connections | |
| `TimerThread` | the timer queue | |
| `IOObject`, `BufferPool`, `RWLock` | what the others are built on | |

### SendQueue and SendStream: the send side of a connection

`SendStream` is the promise: callers add bytes to one stream, and the socket takes
its bytes in that order, without gaps or repetitions, until a send fails.
`SendQueue` is the code. A critical section of `m_lock` is one action (`Enqueue`,
`WriteCallback`); what the code does after leaving the lock is a step of its own:
`AddRef`, `SendFirst` (`WSASend`), `Refused` (the `Release` when it fails), `Free`,
`Release`. The kernel completes a send with `Complete`: entirely, with an error
after some bytes, or with success and fewer bytes. `Dequeue` is a worker that takes
a packet from the port; `Close` stands for the other code that closes the socket.

`queue` is the linked list, `pending` is `m_nPendingWrite`, `sent` the sends in the
kernel, `done` their packets. A byte is its position in the stream of accepted
bytes and a buffer is the sequence of its bytes. `accepted`, `wire`, `broken` and
`lost` are history. A worker that calls `Write` inside a callback is one of the
`Writers`: `Write` uses nothing of its caller.

Two behaviours of the code are kept as they are. A failed write completion is only
logged (BGIOSocket.cpp 178-181): its reference is never released - `lost` counts
them - and the queue is never driven again. A short completion leaves the buffer
queued without sending it again (213-244). Both set `broken`, after which
`SendStream` promises only that nothing wrong is sent.

### Framing and PacketChannel: packets from end to end

One connection, with the stress-test client at the other end. `up` and `down` are
the bytes on the way; `Complete`, `ClientRecv` and `Transmit` cut them anywhere.
At the server, `ReadCallback`, `Read`, `BadSize`, `Process` and `CloseHandle` are
`OnRead` and what it calls, on the read buffer byte by byte: `szBuffer` and
`dwSize` are the local variables, and the rest of a packet goes through `Rest`
into the next read. A ping is answered through the send queue, of which only the
number of answers matters here (`SendQueue` shows the rest), and counted in
`m_nPendingWrite`, which `OnRead` compares with its limit once per read. At the
client, `Assemble` is one turn of the loop of `WorkerThread`.

`LoginOn` finds no world - the only one has the number 0 and `m_nWorldId` is 1 -
and returns with the lock of the connection held (BGTestSocket.cpp 245). `m_lock`
is the worker that keeps it: `Process`, `WriteCallback` and `CloseHandle` of another
worker wait for it (`Waits`). `bg_config.ini` has one worker, for which the lock,
which its owner may enter again, is harmless.

`PacketChannel` is instantiated twice: upwards the packets of the client against
those given to `Process`, downwards the answers against those given to
`ProcessPacket`.

### LogManager, LogFiles and Shutdown: the log and the end of the program

`LogFiles` is the promise of the log: entries are accepted one after the other, and
written in that order, the serious ones to the err file too; the files are closed
when everything accepted before the request to stop is in them.

`LogManager` is `BGLogManager`: `PushLog` and `Stop` make an entry, `Lock` and `Push`
queue it, `Pick` and `Write` are the thread `Run`, `MustRenew` is the test of
`CheckLogFileNameAndRenew`, `Join` the end of `Stop`. An entry is who wrote it and its
level: the words of an entry decide nothing, and no other entry than that of `Stop`
has the text `STOP`, because `PushLog` puts the time and the function in front.
`Start` works only if `m_pRunThread`, which no constructor initializes, happens to be
null; the model starts with either.

`Shutdown` EXTENDS `LogManager` with everybody who writes to the log: `main` from
`Start` to its end, and the workers. For each worker in turn `main` posts a
`BGIOTerminate` object (`PostObject`, or `CreateEventFails` and no object is posted), waits
for its event (`WaitEnds`) and deletes the worker's object (`Delete`); whichever worker
takes the packet sets the event and then suspends the thread the object names. Then
`main` empties the pool (`FreeAll`), deletes the completion handlers and their ports
(`Clear`, `BGLayer::Clear`) and stops the log. A worker is suspended wherever it is:
between the lock of the log and its unlock too, or in a section of another lock
(`section`), which is why these are steps of their own.

Nothing stops a worker between `SetEvent` and `SuspendThread`, and what it uses next
may be gone. The `BGIOTerminate` object is a local variable of `OnTerminate`; `m_pThread`
is its place on the stack, used again for the next worker. When `main` has left that
frame (`~InFrame`), `SuspendThread` may read what was there, or a handle of nothing, or
break the program down. A worker that was never suspended calls `Get` through its own
object (`Deleted`) and the handler (`Cleared`): the deleted memory may still hold what it
held, or not; and with the port closed `Get` fails, leaves `pObject` null, and `Run` calls it
all the same (`GetFails`). `undefined` is the end of such a behaviour.

The shutdown stands behind an endless loop in `main` (BGIocpServer.cpp 64-67), so it
runs only if that loop is left; it is modelled because the code is written for it.
What `BGTestServer::Stop` and the other two threads of `s_threadList` do there is in
`AcceptPipeline` and `TimerThread`.

### SocketSlots: the life of a connection object

The elements of `s_arrSocket` are slots. A worker that runs the server's callback
takes one (`Scan` without a lock, `Take` or `Retry` under `m_lock`), registers the socket
(`Initialize`) and posts the first read. From then on the connection lives by the
chain of its reads: `Complete` (the system), `OnIOCallback`, `OnRead`, `Read`, `Recv`. The
chain ends in `Close`: `Exchange`, `OnClose`, `CloseHandle`, where the slot is already free
for the next connection after `OnClose`. Everything that can fail does: `accept`,
`HandleAdd`, `WSARecv` and the read. No player exists, for the reason given above.
`delete this` on an array element is undefined, so a behaviour ends there
(`deleted`). Sends are left out, which `SendQueue` models.

### AcceptPipeline: accepting connections

Winsock signals a new connection once, and again only after a call of `accept`.
So there is one signal for any number of connections, which `OnWaitCallback` and
`OnIOCallback` pass on: the event, the accept thread (`Reset`, `Post`), the packet, `accept`, the
event again. `ListenFails` is a `Start` whose `socket`, `bind` or `listen` fails: `main` goes
on without a server. `Connect`, `GiveUp`, `Disconnect` and `Enable` are Winsock; they model
what `WSAEventSelect` does with `FD_ACCEPT` as `Start` uses it.

### TimerThread: the timer queue

Each section of `s_lockTimer` is one action; the steps outside it are
kept: the comparison with `s_n64TopTime` and the `SetEvent` of
`AddTimer`, the reading of the clock, the wait computed from it. Time is a bounded
clock that stops at `MaxTime`; `Half` is where a difference cut to a `LONG` turns
negative, `Day` is the 24-hour entry of `Init`. `OnTerminate` may come at any time. When
the 24-hour entry is due it is posted and not pushed again. From then on the queue
may be empty, and a behaviour that reads its top ends there (`undefined`); or a timer
that a `LONG` cannot hold comes to the top. So `NoOversleep` excepts an entry that is
overdue by more than a `LONG`, `EarlyOnlyFar` allows such a timer to be posted early, and
no other.

### RWLock: the reader/writer lock

`m_nCount` is a record of its five fields and every `Interlocked` operation, section
of the internal spin lock, `SetEvent` and wait is one action. The local copy
`nCount` that `ReadLock` branches on is kept where it may differ from the word
(`bit31`, `others`). `pending` is `m_dwPendingLock`, modulo `Word`. The program takes
one such lock for writing only (`BGILock::s_rwLock`) and one per layer for both;
`WriteTryLock` is part of the class and has no caller.

### BufferPool: recycling of buffers

`slot` is the array of free lists. The choice of a slot (`Alloc`, `Index`), the
section under its lock (`Pop`, `Push`, `Drain`) and the test of `g_nStop`
(`CheckStop`) are separate steps. `New` takes any address that is not live. The
masks make the counters modulo `BUFFER_POOL_SIZE`. `FreeAll` is the documented end of
the pool, after the same endless loop.

### IOObject: the reference counts

`BGIOObject` counts its references twice: all of them in `m_nRef`, and by kind in
`m_nGeneralRef` and `m_nTimerRef`. Each `Interlocked` operation and each read of a
counter in `AddRef` and `Release` is a step. `Refs` are the references: whoever
holds one - a thread, an outstanding operation, a timer - may add another and
must release it once. The branches that log an error and set a counter to 100 are
kept.

## 3. Runs

| run | instance | what it shows |
|---|---|---|
| `send_queue` | 2 writers, 2 workers, limit 2, messages of 0..3 bytes, 5 bytes, all failures | the send side implements `SendStream`; one send at a time, exact counts, buffers in order, everything sent unless a send fails |
| `framing` | 2 workers, read buffer of 6 bytes, limit 3, four scripts of the client | both directions implement `PacketChannel`; the connection is closed only for a reason, answers are bounded, everything arrives |
| `shutdown` | 2 workers, 1 job, hours 0 to 2 with a day of 2, `CreateEvent` may fail | the log implements `LogFiles` although workers are suspended anywhere; entries are misfiled only after a day; what is gone is used only if a worker outlives its object; the shutdown ends otherwise, unless a worker is suspended where others wait for it |
| `socket_slots` | 2 slots, 2 workers, 3 connections, 2 retries | no socket lost or shared, one chain of reads, clean slots, exact references |
| `accept_pipeline` | 3 clients, backlog of 2, 2 workers, a `Start` that works or fails | one signal, everybody accepted, the thread ends |
| `timer_thread` | 2 timers, delays up to one beyond a `LONG`, through the end of the first day, stop at any time | a timer is posted early only if it is beyond a `LONG` and the 24-hour entry is gone; none slept past, references exact, every timer fires or is returned, the thread ends - unless the top of an empty queue is read |
| `rwlock` | 4 threads writing only; 3 threads with readers; 3 with all operations | exclusion, exact fields; with writers only no wake-up is lost and somebody gets the lock; otherwise one is lost in two known ways only |
| `buffer_pool` | 2 threads, 2 slots, 3 buffers in use, 6 addresses | one owner, bounded memory |
| `io_object` | 4 references of either kind | deleted once and only at the end |
| `worker_shutdown` | as `shutdown`, 2 jobs, no failing `CreateEvent` | **violated**: see Findings |
| `timer_empty` | as `timer_thread`, other delays | **violated**: see Findings |
| `slots_stay` | as `socket_slots` | **violated**: see Findings |

**Bounds.** `send_queue`: 5 bytes with limit 2 are enough for a first buffer in flight, a
second one that is filled by a merge, and a third one linked behind it; a message
of 3 is refused by the limit. Two workers are needed because the one that posted
the next send may still be freeing the old buffer when its completion is handled.
`framing`: a read buffer of 6 holds two pings, or a login and a part of the next
packet, or one unknown packet that fills it; the scripts contain each of these, a
size that is smaller than a header, and enough pings to pass the limit. Two
workers let one keep the lock of `LoginOn` while the other wants it.
`shutdown`: two workers let one take the packet meant for the other, twice, suspend it
in the middle of a job, and let one run on while the other has ended; of the levels 2 and 5 the first
is dropped by the `LogLevel` of the instance (2), the second goes to the err file too. A day of
two hours and the hours 0, 1 and 2 let a whole day pass between two entries.
`socket_slots`: three connections on two slots make two workers race for a slot, use
a slot again and find none; two retries stand for three (`s_createSocketRetryCnt`).
`accept_pipeline`: three clients and a backlog of 2 leave one who is refused and
comes again.
`timer_thread`: the delays are at once, soon, and longer than a `LONG` can hold; two
entries let an earlier one come in while the thread computes its wait for a later
one, and `MaxLost` bounds the entries that a stopped service refuses. The clock goes
on for two ticks after the 24-hour entry is due, so both a server of the first day
and one that runs on are in the run.
`rwlock`: one thread holds, one is woken, one parks and one arrives: four, for
writers, whose liveness is at stake. With readers three threads show each way a
wake-up is lost; that the fields are exact, that writers exclude and that no other
wake-up is lost is proved for any number below 128. `Word` is small so that a pending count that misses zero is seen.
`buffer_pool`: two threads and two slots let a thread pop from the slot another one is
about to push to; `NoGrowth` is reached exactly there, so six addresses never run out.
`io_object`: four references let two be added while one is released and one is out.

**Deadlock.** No run checks it, because every behaviour may stop: at a bound, when the
clients and callers want nothing more, after the end of the thread or the program,
or at an undefined step (`deleted`, `undefined`). What must not stop is stated by the
liveness properties instead.

**Fairness.** A step of a thread that nothing makes wait is fair, since Windows schedules
every thread; so is a completion, since Windows completes or aborts an operation;
nothing is ever assumed of callers and clients.
`send_queue`: a thread inside `Write` or `OnIOCallback` goes on, some worker takes a packet
that is in the port, and the system completes every send.
`framing`: the same, and the worker of the client goes on; it need not send.
`shutdown`: `main`, `Run` and the workers that are not suspended go on. A packet
is taken by some worker as long as one is left.
`rwlock`: a thread inside a call goes on and a holder unlocks; nothing obliges a thread
to lock. A spin-lock acquisition that is only possible from time to time is not
assumed to succeed: `SomeWriterGetsIt` says that some thread gets the lock, not a
given one.
`timer_thread`: the timer thread runs on, the clock advances, and a caller that is
inside `AddTimer` goes on; `StopsWhenQuiet` promises the end only if callers become
quiet.
`accept_pipeline`: the accept thread runs on, some worker takes the packet and ends
`CreateSocket`, the main thread ends `Start` and the join; nobody has to stop the
service.

## 4. Proofs

All are machine-checked for every value of the constants under the named
assumptions of the modules: the writers and the workers are disjoint, finitely many
(`ThreadsFinite`), and `BUFFER_SIZE` > 0 (`ConstantsOK`); fewer than 128 threads (`ThreadsOK`: the width of
the narrowest field) and no empty word (`WordOK`); finite sets of threads, at least one, and of buffers (`PoolOK`); a finite set of references
(`RefsFinite`); a read buffer that holds more than a header, and clients that send at least
one packet and none larger than that buffer (`FramingOK`: a size is one byte and
`BUFFER_SIZE` is 8000); at least one slot (`SlotsOK`); finitely
many timers and a day that fits into a `LONG` (`TimerOK`); a main
thread among the callers and a day of at least an hour (`LogOK`, `WorkersOK`). The bounds of
the models are constants, so a theorem holds for any bound.

* `SendQueueProofs`: `TypeCorrect`, `NeverTwoSends`, `QueueInOrder`, `ImplementsStream`,
  `BooksBalance`.
  `Inv1`: `OneSend` is not inductive, since `WriteCallback` takes the head of the list, so
  whoever drives the queue must find one (`HeadThere`), and what is linked must have
  passed the size check (`SizeChecked`). `Inv2` relates the list to the stream: its
  buffers are consecutive up to the last accepted byte (`Ordered`), the system reads
  the first one (`SendsFirst`), and as long as nothing is broken the socket has taken
  exactly what is in front of the first unsent byte (`InStep`) - which of the two sides
  of the completion of a send we are on is `Waiting`. With it every step maps to a step
  of `SendStream` or to a stutter. `Inv3` is `CountsExact` with `Roles`, which labels a
  caller and which a worker may have: the three sets that are counted change only by
  the thread that moves, so each step is one line of arithmetic (`MovesCounted`).
* `ShutdownProofs`: `LogImplementsFiles` for the log alone, whoever calls it;
  `LogKeptByProgram` for the log under the shutdown, by showing that every step of
  the program is a step of the log or leaves it alone; `TypeCorrect`; `Misfiled`;
  `BrokenOnlyByOutliving`. The
  invariant (`LogInv`) says that what was accepted is what was written, then the picked
  entry, then the queue, and where in it the entry of `Stop` is; it changes when
  `Stop` queues its entry, when that is picked and when the thread has ended, which are
  its three cases. `Misfiled` needs to know which hour the open files stand for
  (`HourInv`) and that equal hours of different days are a day apart (`SameHour`).
  `BrokenOnlyByOutliving` counts (`ShutInv`): one packet is under way at a time
  (`OnePacket`), and the threads suspended, those about to suspend one and the packet in
  the port are together no more than the packets posted (`Enough`). So if every worker
  whose object is deleted is suspended, nobody is left who could still reach what
  is gone.
* `SocketSlotsProofs`: `TypeCorrect`, `UnusedIsClean`, `ReadsAreOneChain`,
  `SocketsAreHeldOnce`, `NoReferenceIsLeft`. `OneChain` and `CleanWhenUnused` are proved together (`ChainInv`, one
  statement per slot): a slot's bits, socket and lock are tied to the one read, packet
  or worker that drives it. `SocketHeldOnce` (`SocketInv`) is counted per connection, and
  needs that a worker without a socket in its hands has none. `OwnReference` says
  nothing of a connection that is open, so its invariant (`RefInv`) gives every worker a
  share of the references of its slot, one or two by what it still has to release
  (`Share`): the references are at most the slot's own, one for the read outstanding
  and the shares. At rest no share is left, and a slot that is not deleted has at least
  one reference, so it has one.
* `RWLockProofs`: `TypeCorrect`, `CountIsExact`, `WritersExclude`, `WakeUpsAreLostOnlySo`.
  Exclusion rests
  on the counter: a thread enters on what the fields say, so each field must be the
  number of threads in a set (`CountExact`). Bit 31 is *flipped* by adding 2^31, so
  it is exact only because one thread at a time is in the spin lock (`SpinExact`) and
  the copy a reader branches on agrees with the word (`CopyAgrees`). Type
  correctness - no field leaves its bits - follows from `CountExact` and the bound
  on the number of threads. That wake-ups are lost only in two ways (`WakeInv`) is one
  statement for each use: the readers parked on `m_hREvent` are passed from one wake-up
  to the next (`Passed`), without `WriteTryLock` some thread is on its way to look at
  who is parked (`Roused`), and with writers only nobody signals a reader (`NoReaders`).
* `MemoryProofs` extends `BufferPool` and `IOObject`, whose common names begin with
  `Object` in the latter.
  Buffers: `TypeCorrect`, `NeverShared`, `RecyclingWorks`. `OneOwner` needs `HandsFull` (a
  thread at `push` really holds a buffer); it is split into five pairwise facts
  (`Apart`) because each action disturbs only some. `NoGrowth` bounds a whole history,
  and no step keeps it for a reason of its own. But the counters go round the slots,
  so they tell how often `Alloc` came to each slot and found it empty (`Found`: from
  the list, the threads about to push and to pop, and the two counters). `FewInv`
  bounds that number slot by slot, since it grows only at an empty list, when all that
  is out is what is in use (`UseInv`); the bounds of the slots add up to the property
  (`SumAll`, by the least slot at which the sum would fail).
  References: `CountersTyped`, `CountsAreExact`, `FreedOnceAtTheEnd`, `NeverAlarmed`. Beside the exact counters (`CountsExact`): an `AddRef` under way is
  protected by a reference somebody holds (`Protected`), who has brought `m_nRef` to
  zero is alone (`LastAlone`), and the object is deleted if and only if nothing is
  counted and nobody is left to delete it (`FreedExact`).
* `AcceptPipelineProofs`: `TypeCorrect`, `SignalHandedOn`. Added to `TypeOK`: what the main
  thread has done decides which sockets and threads exist (`Stages`), the thread that
  is about to reset the event has seen it set, so that it takes the signal and no
  other (`Seen`), and no two holders have the signal (`Apart`).
* `FramingProofs`: `TypeCorrect`, `ClosesForAReason`, `PendingIsBounded`,
  `ImplementsBothChannels`. Where a packet begins in a stream is a sum over all
  packets before it, and an induction over sums is out of reach. The invariant avoids it:
  the bytes of one direction are a stream `T`, and each buffer on the way carries what
  `T` has behind its first `p` bytes (`Lies`), which every cut and every join keeps. The
  answers are all the same three bytes, so their stream is periodic (`DownInv`). For
  the client's packets the invariant says that places exist at which they begin
  (`Cuts`), and that the rest of the read buffer, the bytes of a read and those on the
  way lie behind the place of the last processed packet (`Carried`); a packet that is
  sent puts one place behind the others, and `Process` moves to the next one
  (`CarryNext`). So what `OnRead` takes for a header is one (`CarryHeader`), which is
  all that `ClosedForAReason` needs beside `RoomInv`: a posted read has room. The limit
  on what waits to be sent holds because `OnRead` queues three bytes for at least three
  that it goes on in the buffer (`PendInv`).
* `TimerThreadProofs`: `TypeCorrect`, `ReferencesExact`, `PostedInTime` and `SleepsNoLonger`,
  on the first day and after it, for any clock. The references need only that an entry
  is in one place at a time (`Places`). The other two (`SleepInv`) need that
  `s_n64TopTime` is the earliest time (`TopExact`) and that who puts in an earlier one
  will signal the thread (`Signalled`). What cutting a difference to a `LONG` does is
  said once, for every difference, in `Cut`: it makes one that is ahead look overdue
  only from `Half` on, and one that is overdue look ahead only beyond `-Half`. With the
  24-hour entry in the queue the earliest time is at most a day ahead, which is less
  than `Half`; so an entry that is posted early finds that entry gone.

Model-checked only: liveness under fairness, which is outside the prover's reach. Every
invariant and every refinement of a passing run is proved, and so is every action
property. `TypeOK` of `AcceptPipeline` is proved and not checked by its run, where
`OneSignal` says what matters of it.

## 5. Findings

* `worker_shutdown`: ReadMe.txt 12 says that no worker is ended while it runs
  another job. Any worker may take the packet, and it suspends the one that is
  named (BGIOTerminate.cpp 15). The shutdown in `main` stands behind an endless loop.
* `timer_empty`: `Init` pushes an entry of 24 hours so that the queue is never empty
  (comments at BGIOTimerThread.cpp 15 and BGIOTimerThread.h 46). Nothing pushes it
  again when it is due, and `Run` reads the top of the queue without asking (89).
* `slots_stay`: a connection that ends with the end of its stream, a bad packet or a
  failing `HandleAdd` releases one reference more than it took. The slot's own
  reference goes with it, and `delete this` runs on an element of the array that
  ReadMe.txt 113-114 describes as made once. The `AddRef` of
  `BGTestServer::Initialize` applies to copies (BGTestServer.cpp 41-43).

What the models show beside, where no text of the repository promises otherwise, so
that the property states what does hold:

* `ReadUnlock` tests whether threads are parked on `m_hWEvent` and signals `m_hREvent`
  (BGLock.cpp 262-264); `WriteUnlock` signals `m_hWEvent` after the same test
  (305-307). A writer that parks while the last reader holds the lock is not woken
  by it. A failing `WriteTryLock` (313-317) is counted for a moment, in which others
  leave the waking to it. `ForgottenOnlyBy` says that these are the only ways, and
  that the one use the running program makes, for writing only, is free of them.
* A worker suspended with the lock of the log, in a section of another lock, or before
  it has set the event, may keep `main` for ever (`Blocks`).
* One worker is enough for a thread that outlives its object: it sets the event first
  and suspends afterwards (BGIOTerminate.cpp 14-15), so `main` may return from
  `OnTerminate`, delete the thread's object and clear the layer while the thread still
  runs. BGIOThread.h 11 means the threads to be ended before they are deleted. What
  follows is undefined: `ShutdownEnds` says that the shutdown ends, or a worker was
  suspended where others wait for it, or the program has broken down, and
  `BrokenByOutliving` that it breaks down only in this way.
* A timer 2^31 ms or more ahead is posted at once when it comes to the top of the
  queue (BGIOTimerThread.cpp 78, 90), which the 24-hour entry prevents as long as it is
  there: `EarlyOnlyFar`. No timer of the program is that long; `AddTimer` takes a
  `ULONGLONG`.
* The lock `LoginOn` keeps stops every other worker that wants it; `Served` names this
  deadlock and does not forbid it, as `ForgottenOnlyBy` does with the lost wake-ups.
* Entries are misfiled after exactly a day, or several, without any
  (BGLogManager.cpp 290): `MisfiledOnlyAfterADay`.
* The log starts only if uninitialized memory happens to be null (BGLogManager.cpp 81).
* A failed write completion keeps its reference for ever (BGIOSocket.cpp 178): `lost` in
  `CountsExact`. `OwnReference` speaks of accepting, reading and closing; sends are not
  in `SocketSlots`.
* A slot taken for a socket that `accept` did not return is never given back
  (BGIOServer.cpp 109); `OneChain` names it.

## 6. Not modelled, and why

* A connection's send queue over several lives of its slot. What one connection
  leaves in `m_pFirstBuf` the next one inherits (BGTestSocket.cpp 86 does not look at
  it); this follows at once from the code, and no text promises a clean queue.
* `BG_BUFFER_SIZE` (4096) against `BUFFER_SIZE` (8000): what a write behind an array does
  is undefined. The models have the one size the code compares with.
* `BGTestPlayer` and the maps of `BGGameWorld`: `LoginOn` returns before a player exists.
  `BGTestServer::Stop` closes the connections of the slots; `main` never comes to it.
* `GracefulClose`, `IsDeadLock` and the map of `BGLockInfo`, `BGTestOtherSocket` and
  `BGIOOverlapEx` have no caller. The spin lock and the critical section are atomic
  steps wherever other modules use them.
* The map of `BGLayer` is filled before the server starts, and the configuration is read
  once: both are sequential. That `Clear` deletes the handlers is a step of `Shutdown`.
* The game objects hold data and have no behaviour of their own.
