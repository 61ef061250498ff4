# A TLA+ model of caimr

caimr is a small reactor-style C++ network library: one event loop per thread,
connections bound to a loop, a server that spreads connections over a pool of
loops, a thread pool and a logger. This directory holds TLA+ modules of its
concurrent parts, of its byte buffer and of its logger, TLC configurations for small instances, and TLAPS
proofs of the main invariants. Paths below are relative to the repository.

`tlc -config X.cfg M` runs a model, `tlapm M.tla` checks a proof module.
`PROJECT.json` maps every definition to the lines it models.

## The system

| Component | State | Operations | Hard behaviour |
|---|---|---|---|
| `eloop` (src/net/eloop.cpp) | `quit_`, `calling_pending_functors_`, `pending_functors_` under `mutex_`, the eventfd | `loop`, `quit`, `run_in_loop`, `queue_in_loop`, `wakeup`, `do_pending_functors` | calls from any thread race with a loop that is about to block |
| `eloop_thread` (src/net/eloop_thread.cpp) | `loop_`, a thread, a condition variable | `start_loop`, `thread_func`, destructor | the eloop is a local variable of another thread |
| `thread` (src/thread/thread.cpp) | started, joined | `start`, `join`, detach in the destructor | a detached thread outlives the object |
| `tpool` (src/thread/tpool.cpp) | `queue_`, `running_`, workers, a condition variable | `start`, `stop`, `add`, `run`, destructor | lost notifications, exceptions, stop with work left |
| `tcp_conn` (src/net/tcp_conn.cpp) | atomic `state_`, channel interest, `output_buf_` | `send`, `shutdown`, `establish_conn`, `destroy_conn`, channel callbacks | tests of `state_` in one thread, actions in another; partial writes |
| `buffer` (include/net/buffer.h) | a vector, two indices | `append`, `retrieve`, `read_fd`, `make_space` | index arithmetic at the boundaries |
| `tcp_server` + `acceptor` + `eloop_tpool` | `conns_`, `next_idx_`, the pool's loops | `start`, `new_conn`, `remove_conn`, `get_next_loop`, the destructors | a connection's removal crosses two loops and back; the server goes while its I/O loops run |
| `chan` + `epoll_poller` | interest, `index_`, `chs_`, the epoll set, the event list | `enable_*`, `disable_*`, `tie`, `handle_event`, `update_chan`, `remove_chan`, `poll` | events for channels that are removed, or whose owner is going away, while a batch is handled; fds used again; `epoll_ctl` failing |
| logging (include/log, src/log) | a fixed buffer per record, stdout | `LOG_*`, `operator<<`, `~logger` | the end of the buffer, negative numbers, abort while others log |
| `socket`, `address`, time, `cthread` | none that others depend on | system calls, formatting | - |

Interaction: every thread may call into an `eloop`; the call puts a functor into
its queue and wakes it through the eventfd. `tcp_server` runs in its base loop;
it accepts a connection, picks the connection's I/O loop and runs
`establish_conn` there. From then on the connection's channel callbacks run in
its own loop; `send` and `shutdown` of other threads become functors of that
loop. A close goes from the I/O loop to the base loop (`remove_conn`: erase
from `conns_`) and back (`destroy_conn`: leave the epoll set). `shared_ptr`s in
the map, in functors and with the user decide when a `tcp_conn` is freed.

What makes each part correct:

* `eloop`: no functor and no `quit()` is slept on; functors are executed once
  and in order; `quit()` ends the loop.
* `eloop_thread`: `start_loop` returns; the destructor finds its loop alive, returns
  and leaves no thread behind.
* `tpool`: no task waits while a worker sleeps; stop leaves nobody asleep; the
  destructor returns; tasks are executed.
* `tcp_conn`: the bytes on the wire are the messages, in order; interest in
  EPOLLOUT matches the buffered output; FIN comes after the output; after the
  end sends are refused, and the user is told of it.
* `tcp_server`: no loop keeps a channel of a freed connection; open connections
  are in the map, where the destructor looks for them; closed ones are freed; functors run on the loop they are meant
  for; the destructor leaves neither a connection nor a thread behind, and nobody
  calls what is gone.
* `chan` and `epoll_poller`: `index_`, `events_` and `chs_` say what the kernel
  has; ready channels are handled; dead ones are not.
* logging: no overrun, correct numerals, whole records where they fit, and
  nothing lost that was logged before a FATAL abort.
* `buffer`: a byte queue in bounded memory.

`PROJECT.json` lists under `hazards` what in this code is hard to test, at the
line where it bites, with the properties that cover it.

## Modules

### FunctorQueue and EventLoop (`eloop`)

`FunctorQueue` is the promise: a FIFO with one consumer. `EventLoop` is the
code. `queue_in_loop(t, f)` and `quit(t)` are the calls up to `wakeup()`, which
is a step of its own, since the loop runs in between; `caller[t]` remembers
that it is due. The owner's program counter `pc` goes through `loop`, `while`
(the test of `quit_`), `poll`, the channel callbacks with `handle_read` among
them, `swap_functors`, `run_functor` and `end_functors`. `poll(w)` returns with
or without `wakeup_ch_`: other channels, the time-out and a full ready list all
look like that to this component. User code in callbacks and functors is any
call it can make. The eventfd is a Boolean (the counter is read as a whole).

### EloopThread (`eloop_thread`, with `thread`)

Extends `EventLoop` with the user thread `Starter` and with `thread_func`:
`start_loop` / `start_loop_wait`, `publish` / `retract` (the two critical
sections), `return` (`~eloop`), and the destructor. `start_loop_wait` is the test
of `loop_` under the lock and the wait, which `notify_one` or a `spurious_wakeup`
ends. The destructor reads `loop_` twice without the lock: `dtor` is its test,
`dtor_quit` the second read, `dtor_store` and `dtor_wakeup` are the two halves of
the `quit()` it calls on what it read, `dtor_join` is the join. When the loop was
quit from inside, the second read may find null, or a pointer to an eloop that is
gone by the time `quit()` runs: null ends in the state `crashed`, a call on a dead
eloop in a crash or in a call without effect. The constant `DtorWaits` describes the user: the object is destroyed
only after the loop has executed a functor, so `loop()` has begun. `self_quit`
is history: code that runs in the loop has called its `quit()`. `DtorOrder` says
what is safe without such a call; with one, `DtorReturns` only says that the
destructor does not wait for ever.

### TcpConn (`tcp_conn`)

One connection in its loop. The loop is the FIFO that `EventLoop` implements,
with channel events between any two functors. `send` and `shutdown` of a worker
are split at every access to shared state (`send` / `send_queue`, `shutdown` /
`shutdown_store` / `shutdown_queue`). `send_in_loop` is the whole function, with
every partial write, the error path, the high-water test and `enable_writing`.
`handle_write`, `handle_read` (end of stream), `handle_hup` and `handle_close`
are the channel's callbacks; `callback_send` and `callback_shutdown` are what
user callbacks do in the loop's thread. A byte is `<<message, index>>`, so loss,
repetition and reordering show; `Garbage` stands for bytes of a string that was
destroyed before the queued send ran. Empty messages are left out (they write
nothing). `server_dtor` is what `~tcp_server` queues for a connection in its map;
`loop_ends` is the pool's destruction after it: the loop is quit and its queue goes
with it, a `destroy_conn` that has not run included (`loop_` is `dropped` then).
A connection of the base loop, which is destroyed on the spot, is `TcpServer`'s.
`wire`, `accepted`, `closed`, `downTold` and `told` are history; `told` counts the
high-water callbacks since the output was last below the mark.

A write to a socket that was shut down or reset fails with EPIPE or ECONNRESET
here. In the code such a write first raises SIGPIPE, which nothing in src ignores and
which ends the process: the model is of a program whose user ignores the signal.

The model has three behaviours that a reader of the code would not expect. A
send whose test of `state_` came before `shutdown()` is executed after our FIN,
since `send_in_loop` refuses only `DISCONNECTED` (src/net/tcp_conn.cpp:70 says
that nothing can be sent after shutdown). `shutdown()`'s store can turn the
`DISCONNECTED` of a close in between into `DISCONNENTING`, and sends already
queued are then taken on a closed connection. A queued send reads the caller's
string when it may be gone. No run has a property against them, they are what
the code does; `EndedRefusesSends` and `EndTold` state what it guarantees around
them, `TcpServer` has the second with its consequences for the epoll set, and
`tcp_server_raw_this` shows the worst of their kin, a queued send on a freed
connection.

### TcpServer (`tcp_server`, `acceptor`, `eloop_tpool`)

Connections and loops together: each loop polls, handles its active channels
one by one, swaps and runs its functors, and keeps their captures until the
batch ends. `alive(c)` is the reference count: the map, the functors that bind a
`shared_ptr`, the user. `accept` is `acceptor::handle_read` with `new_conn` and
`get_next_loop`; `handle_event` (with the test of `tie_`), `handle_close`, `remove_conn`, `remove_conn_in_loop` and
`destroyed` are the removal. The user may hand a connection to two workers
(`user_keeps`): one that sends (`send`, `send_queue`, and in the loop
`send_in_loop`, which may queue a callback and `enable_writing`; `handle_write`
drains the output again) and one that shuts it down (`shutdown`, `shutdown_store`,
`shutdown_queue`). How much was written is left to `TcpConn`. What a functor that
binds the raw `this` does with an object that is gone is undefined and is a step
without effect here; `tcp_server_raw_this` is about it. `start` creates as many loops as the user asked for; the
number of descriptors is fixed in the initial state. Wakeups are `EventLoop`'s
matter and left out here.

Two properties make an exception for `overwritten` connections, a history variable
set in `shutdown_store`. The steps behind it: a worker's send and another worker's
shutdown have both tested `CONNECTED`; the peer closes, `handle_close` sets
`DISCONNECTED`, the connection is erased and `destroy_conn` takes its channel out of
the epoll set; now shutdown stores `DISCONNENTING`; the send is queued, is not
refused (src/net/tcp_conn.cpp:71), and `enable_writing` registers the channel again.
Nothing will remove it any more, so when the worker that has the last reference lets
go of it the channel is freed while it is registered: closing the descriptor takes it
out of the epoll set, but not out of a batch that the loop has fetched. `ChannelsAlive` and `OpenMeansMapped` say
that this store is the only way to get there. (Two threads have to use the connection
at once for it.)

With `Teardown` the user may `quit` the base loop; when it has returned,
`server_dtor` begins and `destroy_each` calls or queues `destroy_conn` for every
connection left, `members_pool` and `pool_thread_dtor` quit and join the pool's
threads one by one (`exit_loop` destroys the thread's `eloop` with its queue and
its epoll set), `members_acceptor` and `base_dtor` end it. Workers must be done
with their connections before (`server_dtor`'s guard): the loops of the
connections go with the server.

### Poller (`chan`, `epoll_poller`, `poller`)

The channels of one loop and the kernel's epoll set. The owner of a channel is
free: `update` (any of `enable_*`, `disable_*`), `remove`, in any order and as
often as it likes, between any two steps of the loop, since callbacks run in
its thread. `expire` is the end of the tied object, `dtor` that of the channel
and its fd, which another channel may then get (`chan`). `update_chan` and
`remove_chan` are the poller's two calls, `EPOLL_CTL_*` the kernel's answer,
refusals included. `poll` takes a batch no longer than the event list, in the
kernel's round-robin order of ready entries (`Requeued`: what stays ready keeps
its order, what becomes ready comes after it, in any order); `handle_event` locks `tie_` and
fixes the callbacks from `revents_`; each `callback` is a step of its own, so
that everything can happen in between. That a channel is not freed while the
loop is about to handle it is an assumption of this module (the guard of `dtor`), not
something this code guarantees: for the connections of a server it is `TcpServer`'s
`ChannelsAlive`, with the exception made there.

### Logging

One record per thread at a time: `LOG` / `logger` fix the items that will be
streamed (prefix, message, newline), `append`, `format_double` and
`format_integer` / `digit` place or drop them, `logger_dtor` gives the record to
stdout, `flush` and `abort` follow for FATAL. A text is its length, a number is
formatted digit by digit with C's truncating division. `MaxNumber` is the largest
magnitude of an integer, `Left[k]` the most that `k` divisions by 10 leave of it; that
it reaches 0 in `MAX_NUM_SIZE - 2` steps says how long a numeral can be (20 digits of
the 46 that the code's 48 allow).

### TPool (`tpool`)

Critical sections are steps: `add`, `stop`, `dtor`, and for a worker `run_init`
(`t_init_callback_` returns or throws), `run_wait` (return or wait), `run_take`, and
`run_task` (the task ends or throws). Both throws end the worker, because the
handler is outside of `run`'s loop. `InitThrows` names the workers in which the
callback throws. With no workers `start` calls the callback itself, in the user's
thread: nothing of the pool changes by it.
`notify_one` picks any waiter; `spurious_wakeup` ends a wait at any time.

### Buffer (`buffer`)

The member functions are operators on a buffer value (cells, size, two indices);
the actions apply them. A byte is its position in the stream, so `StreamKept`
can say which bytes must be where.

### MC modules

`MCEventLoop`, `MCEloopThread`, `MCTcpConn`, `MCTcpServer`, `MCTPool`, `MCPoller`
and `MCLogging` define the small sets the configurations use. `Buffer` takes numbers only. Operators
whose names carry a suffix after `_` and a comment "Mutant" (for example
`quit_NoWakeup`) are plausible mistakes; replacing the original by one makes the
named property fail, which shows that the property depends on that code.

## Runs

| Run | Checks | Instance |
|---|---|---|
| `event_loop` | `NoLostWakeup`, `QuitNotMissed`, `ImplementsFunctorQueue`, `EveryFunctorRuns`, `QuitStopsLoop` | owner, 2 threads, 3 functors (one queued before `loop()`) |
| `eloop_thread` | `DtorOrder`, `StartLoopReturns`, `DtorReturns` | one user, 2 functors, loops that quit themselves, `DtorWaits` |
| `tcp_conn` | `StreamIntegrity`, `WritingIffPending`, `FinMeansDrained`, `HighWaterTold`, `EndedRefusesSends`, `EndTold`, `BufferFlushed`, `ShutdownCompletes` | a worker and the loop's callbacks, messages of 1 and 2 bytes, mark 2, 2 closes |
| `tcp_server` | `TypeOK`, `ChannelsAlive`, `OpenMeansMapped`, `ClosedConnsFreed` | 2 connections, one of them with a worker that sends and one that shuts it down, 0 or 2 I/O loops, 1 descriptor, 2 closes each |
| `tcp_server_dtor` | `ChannelsAlive`, `TeardownOrder`, `TeardownFrees` | 2 connections, one of them shut down by a worker, the server's destruction at any time, 2 descriptors, 1 close each |
| `poller` | `KernelMirrors`, `MapFollows`, `StaleOnlyInBatch`, `ReadyHandled` | 2 channels, 2 fds (one that hangs up), an event list of 1, one refused addition |
| `log` | `TypeOK`, `NumeralsRight`, `ShortRecordsWhole`, `UnterminatedOnlyWhenFull`, `FatalFlushed` | 2 threads, a buffer of 24, room for numbers 5, all 8-bit numbers, pairs of texts and numbers at the boundaries |
| `tpool` | `NoSleepingOnWork`, `StopWakesAll`, `DtorReturns`, `TasksRun` | 4 workers, one lost to its init callback, 4 tasks, 3 throw |
| `buffer` | `TypeOK`, `StreamKept`, `CompactionMoves`, `BufferBounded` | reserve 2, initial 3, extra 3, lengths to 5, backlog 7, 12 bytes |

`TypeOK` is proved for every module; the runs check it where it says more than
types: functors on the right loops and an index inside the pool (`TcpServer`), no
overrun (`Logging`, `Buffer`).

Runs that end in a counterexample, each against a line of the repository
(`findings` in `PROJECT.json` quotes it):

| Run | Property | What happens |
|---|---|---|
| `eloop_thread_lost_quit` | `DtorReturns` | `loop()` resets a `quit()` that came first; `join` waits for ever |
| `tcp_server_raw_this` | `FunctorsTargetAlive` | the queued send runs on a freed `tcp_conn` |
| `tpool_throw` | `ThrowContained` | exceptions end the workers, tasks stay in the queue |

Bounds. Two threads besides the owner are enough to have one between store and
wakeup while another acts; three functors let one be queued in each phase of a
loop iteration. In `TcpConn` the two message lengths reach every case of a
partial write, and one worker besides the loop's own callbacks gives every race
of a test of `state_` with its use (the proofs hold for any number); a mark of 2 is reached by one message, by two, and skipped
over. `MaxCloses` bounds the repeated close events of a connection that was
reset (2: one repetition). In `TcpServer` one descriptor for
two connections reaches the failing accept and has the second connection accepted
when the first is freed; `tcp_server_dtor` has two descriptors, and so both
connections in the same batch of functors; for the teardown one close per connection is enough to
have a removal in every queue when the loops quit. In `Poller` an event list of
one place and two fds make every poll leave a ready channel behind, and two
channels with two fds let either fd be used again. In `TPool` three throwing tasks can end
all workers that came through the init callback. In `Logging` the buffer is
just larger than a prefix, so two items reach its end in every way; 8-bit
numbers include the most negative one and the longest numeral. In `Buffer` the lengths are smaller and
larger than the reserve, the free space and the extra buffer. Deadlock is not
checked: every bounded system here ends when its functors, messages, tasks or
bytes are used up.

Fairness. Weak fairness for each thread's own steps (the operating system runs
every thread, and a mutex is eventually acquired), for the loop's dispatch of
ready events, and for `epoll_wait` when the eventfd is readable; `ReadyHandled`
needs no more than the loop's own steps, because the kernel's list is in turn.
`TeardownFrees` assumes that a destructor that was entered goes on. No fairness for
the poll time-out, other channels, spurious wakeups, users and peers, except that
in `TcpConn` a peer that has not closed goes on reading. Tasks and functors of the user
end.

## Proofs

TLAPS checks, for all values of the constants that satisfy the named
assumptions:

* `EventLoopProofs` (assumption: the owner is a thread, `InitFunctors` are
  functors). `IInv == TypeOK /\ WakeupInv /\ QuitNotMissed`. `NoLostWakeup`
  speaks about `poll` only and is not inductive: `WakeupInv` says the same of
  every place but the handling of events, where the owner may consume the
  eventfd because the swap that follows takes the whole queue.
  `TypeOK` is needed because the owner's own calls wake the loop only while the
  flag is up. Results: `TypeCorrect`, `WakeupNeverLost`, `QuitNeverMissed`, and
  `QueueRefined`, the refinement of `FunctorQueue` step by step. The abstract queue
  lets a functor be handed over again; `HeldOnce` adds that the executed functors,
  the batch and the queue, one after the other, have every functor that was handed
  over once and nothing else: a call appends to that sequence, and executing and
  swapping leave it as it is. Result: `FunctorsExecutedOnce`.
* `TcpConnProofs` (assumptions: lengths and mark are positive, garbage is no
  message). `IInv == TypeOK /\ EstablishFirst /\ Safety`: before
  `establish_conn` has run nothing else can have happened to the connection and
  it is the first functor of the queue, which makes `TypeOK`'s clause about
  `CONNENTING` inductive; `Safety` joins the stream, the interest and the FIN,
  because each of the three is kept only with the others (a direct write is in
  order only if nothing is buffered, which the interest tells). Results:
  `TypeCorrect`, `StreamIntact`, `InterestMatchesOutput`, `ShutdownKeepsOutput`.
  `EndInv` adds what is still queued: a shutdown that waits in the queue or in a
  worker has already set the state, and a waiting `destroy_conn` comes from a
  close the user was told of or from `~tcp_server`. Results: `NoSendAfterEnd`
  and, with `DropInv` about the loop's end (what was dropped with its queue),
  `UserToldOfEnd`. `MarkAlwaysTold` follows from the lengths before and after
  every `append`; `HighWaterTold` is inductive with the types. `EndsForGood` is an
  action property: the stores of `shutdown` and of a close come in any order, but no
  step leads from either back to an open connection (only `establish_conn` could, and
  `EstablishFirst` has it run once), and no byte is written after our FIN.
* `BufferProofs` (assumption: sizes are natural numbers). `IInv` is the shape of
  the buffer, its content and its size; one lemma per member function says what
  it does to all three, and the actions follow from the lemmas. Results:
  `TypeCorrect`, `StreamIsKept`, `CompactionAlwaysMoves`, `MemoryBounded`.
* `EloopThreadProofs` (assumption: `Starter` is a thread other than the owner).
  Every step of the composition is a step of `EventLoop` or leaves the loop
  alone, so `ThreadSpec` implies `EventLoop`'s specification (`LoopInThread`)
  and what is proved of a loop holds of this one (`ThreadLoopWakes`,
  `ThreadQueueRefined`). For
  `DtorOrder` the invariant `JoinInv` says why the destructor may find `loop_`
  null and skip the join: the thread has not been started, or the loop has
  returned, which it does only after a `quit()` from inside or the destructor's
  own; so without the former the loop is there until the destructor has stored the
  flag. Results: also `ThreadTypeCorrect`, `DtorJoinsThread`.
* `TPoolProofs` (assumptions: finitely many workers; `Idle` is no task). The two
  properties are inductive with `TypeOK`; the work is in what moving one worker
  from one place to another does to a cardinality. Results: `TypeCorrect`,
  `OneNotificationEnough`, `StopLeavesNobodyAsleep`. `EachOnce` says that a task is in
  the queue once, or taken, by one worker. With it, workers and exceptions can be
  counted against each other (`LostInv`): a pool that was not stopped has lost at most
  one worker to each task that threw, besides those that `t_init_callback_` ended.
  `tpool_throw` shows that exceptions can end every worker; these say that it takes
  as many of them as workers came through the callback.
  Results: `TasksTakenOnce`, `ThrowsCostOneWorker`.
* `TcpServerProofs` (assumptions: the pool's loops are different from each other
  and from the base loop; the acceptor's channel is no connection). `alive` counts
  every reference, but a registered channel is safe for a smaller reason, `Held`:
  its connection is in the map, or its removal is queued on the base loop, or
  `destroy_conn` is queued on its own loop. That is inductive only with
  `NotOvertaken` (in a queue nothing of a connection comes before its
  `establish_conn`, which would otherwise register the channel again after
  `destroy_conn`), with `FreshInv` (a connection that was not accepted has left
  no trace), with `LoopInv` (what was reported is registered and belongs to the
  loop) and with `DownInv`, the order of the teardown: the base loop is out
  before the destructor begins, pool loops quit only in it, and one that is gone
  has neither functors nor channels (together `CInv`). A queued send could register a
  channel after `destroy_conn`. It does not, because it finds the channel registered
  or the connection closed, and then it is refused: `SendInv` says so, and needs that
  while the server is up only closed connections are destroyed, and that the
  `destroy_conn`s of `~tcp_server` come behind every send of their connection, since
  the workers are done by then. `UserInv` has workers on opened connections only.
  `Closed` counts a connection as closed also when `shutdown` has overwritten its
  state, and only for those does `Held` fail. Results: `TypeCorrect`, `ChannelsStayAlive`,
  `OpenIsMapped`, `TeardownOrdered`, for any number of loops and connections,
  with and without the teardown. Two action properties follow from the same
  invariant: `ConnectionsOpenOnce` (a connection's state is left backwards only by a
  `shutdown` whose test came before the close, and only then can its channel come back
  into an epoll set it was taken out of, although `handle_close`, `handle_write` and
  `send_in_loop` end in an `update_chan`) and `FreedConnsStayFreed` (no step makes a
  reference to a connection that has none left).
* `PollerProofs` (assumptions: a finite, nonempty set of descriptors; flags are
  `IN` and `OUT`). `PollerInv` joins the three properties with what they lean on:
  no two channels that exist have the same descriptor, the kernel has nothing
  for a descriptor without a channel, the map has no channel that was never
  made, and what is ready has an entry. Results: `KernelMirrored`,
  `MapFollowed`, `BatchesFresh`. `BatchInv` says more of the ready list: it has
  exactly the ready descriptors, each once (an injection between finite sets of the
  same size is onto, and taking a batch only turns the list). So the channels of a
  batch are different, each has something to call, and a list that was full had no
  more places than there are descriptors. Results: `TypeCorrect`,
  `HandledOncePerBatch`, `EventListBounded`.
* `LoggingProofs` (assumptions: `SIZE` is positive, `MAX_NUM_SIZE` at least 3,
  integers have at most `MAX_NUM_SIZE - 2` digits, doubles less than
  `MAX_NUM_SIZE` characters; 1024, 48, 20 and 19 in the code). Room for a number
  is tested once, before its first digit; `DigitsInv` ties the digits that are
  there to what is left to divide, so the loop ends within that room. `RecordInv`
  says that every record under way ends with the newline, `NewlineInv` that one
  that is complete has it or is full, `FlushInv` that a thread about to abort has
  had its records flushed. Results: `TypeCorrect`, `NewlineUnlessFull`,
  `FatalRecordWritten`. `ContentInv` says what the bytes are: the digits written so far
  and what is left to divide give the number again, with C's truncating division for
  negative ones; every item is where `placed` says; and a short record has dropped
  nothing and has room for the items still to come. Results: `ContentInvariant`,
  `NumeralsCorrect`, `ShortRecordsKept`. These need inductions, over the digits of a
  number and over the items of a record. The library's induction rules take an operator,
  which the provers cannot instantiate; the module derives its own rule for *sets* of
  numbers from the well-foundedness of `<` (`Induction`), and from it what each
  recursive function of `Logging` computes step by step (`Iteration`, then `LeftSteps`,
  `WeightSteps`, `SumsSteps`, `DividedSteps`).

TLC finds every one of these inductive invariants true on the instances above.

Every invariant, and the one refinement, that a passing run checks has a theorem.
Only model-checked: the liveness properties (`EveryFunctorRuns`, `QuitStopsLoop`,
`StartLoopReturns`, both `DtorReturns`, `BufferFlushed`, `ShutdownCompletes`,
`ClosedConnsFreed`, `TeardownFrees`, `TasksRun`, `ReadyHandled`), which are out of
the prover's reach because they need fairness and `ENABLED`.

## Not modelled

* `address`, `callbacks.h`, `time`, `cthread`, `noncopyable`, socket options:
  no state, or plain system calls.
* `set_level`, `set_output` and `set_flush` of the logger (nothing calls them; the
  macros' test of the level reads no variable), and what texts say.
* The bytes `handle_read` receives between the socket and `msg_callback_` (they
  are `Buffer`'s), and `handle_error`, which only reads and logs the error.
* The wrap of `next_conn_id_` after 2^32 connections; a second `tpool::start`, which
  nothing calls; `retrieve_as_string` of more than is readable.
* SIGPIPE: the models are of a process that ignores it (see TcpConn).
* What a call on a freed object does: a functor on a freed `tcp_conn` is a step
  without effect, a destructor that uses a dead eloop stops in `crashed` or goes on.
* A base loop that runs on after its server was destroyed, and workers that keep
  a connection longer than the server: both are left to the user by the code.
* Failures of `eventfd`, `epoll_create1`, and of reads and writes of the
  eventfd: the code logs them and goes on or aborts.

## Plan

Done: all modules above, and theorems for every invariant that the runs check. Left:

1. The queues of `TcpConn` and `TcpServer` against `FunctorQueue`. It is not a
   step-by-step refinement: one step there executes a functor and queues the callbacks
   it causes, two steps of the abstract queue.
2. Failures of the eventfd's reads and writes, and a base loop that outlives its
   server, if the code comes to handle them.
