------------------------------ MODULE TcpConn ------------------------------
(***************************************************************************)
(* The life and the output path of one tcp_conn (src/net/tcp_conn.cpp) in  *)
(* its I/O loop: establish_conn, the channel's callbacks, the functors     *)
(* that send and shutdown queue, destroy_conn; Workers are the threads     *)
(* other than the loop's that call send and shutdown.                      *)
(*                                                                         *)
(* The loop is what EventLoop implements, a FIFO of functors, in which     *)
(* channel events come between any two functors.  send and shutdown are    *)
(* the several steps they are in the code: the load of state_, the store,  *)
(* the call of queue_in_loop.  The socket and the peer are external: a     *)
(* write takes any part of the data, or fails once the socket is shut down *)
(* or reset.  Callbacks of the user are the calls they can make; all are   *)
(* set.  The server is the destroy_conn it queues after close_callback_    *)
(* and in its destructor, which runs after the base loop has returned; it  *)
(* goes on to end the pool's loops, this one among them, with what is left *)
(* in their queues.  (A connection of the base loop is destroyed on the    *)
(* spot: TcpServer has both.)  Bytes are <<message, index>>.               *)
(*                                                                         *)
(* A write to a socket that was shut down or reset raises SIGPIPE, which   *)
(* nothing in src ignores: the model is of a process whose user does, so   *)
(* that the write fails with EPIPE, the case the code is written for.      *)
(***************************************************************************)
EXTENDS Naturals, Sequences

CONSTANTS Workers,       \* threads that use the connection, not its loop's
          Messages,      \* the strings given to send, one identity per call
          Length,        \* their lengths
          HighWaterMark,
          Garbage,       \* a byte read from a string that is gone
          MaxCloses    \* bound: close callbacks of one connection

ASSUME LengthAssumption == Length \in [Messages -> Nat \ {0}]
ASSUME MarkAssumption == HighWaterMark \in Nat \ {0}
ASSUME GarbageAssumption == Garbage \notin Messages
ASSUME BoundAssumption == MaxCloses \in Nat

VARIABLES
    state_,
    events_,      \* ch_'s interest: a subset of {"read", "write"}
    registered,   \* ch_'s fd is in the epoll set
    output_buf_,
    functors,     \* the I/O loop's queue
    caller,       \* where each worker is in send or shutdown
    sent,         \* messages whose send was called
    freed,        \* messages whose string is gone
    sock,         \* "open", or "fin" after shutdown_write
    peer,         \* "open", "fin" or "reset"
    closes,       \* calls of close_callback_
    removals,     \* of the remove_conn calls it makes, those not yet executed
    serverGone,   \* ~tcp_server ran
    loop_,        \* the I/O loop "runs", or has "ended", and "dropped" if
                  \* destroy_conn was still in its queue
    wire,         \* history: the bytes the kernel took, in order
    accepted,     \* history: the bytes of the messages send_in_loop took
    closed,       \* history: handle_close or destroy_conn ran
    downTold,     \* history: conn_callback_ was called for the end of the connection
    told          \* history: how often high_water_mark_callback_ was queued
                  \* since the output was last below the mark

connVars == <<state_, events_, registered, output_buf_>>
dataVars == <<output_buf_, wire, accepted, told>>
vars == <<state_, events_, registered, output_buf_, functors, caller, sent, freed,
          sock, peer, closes, removals, serverGone, loop_, wire, accepted, closed, downTold,
          told>>

States == {"CONNENTING", "CONNECTED", "DISCONNENTING", "DISCONNECTED"}
Bytes == (Messages \cup {Garbage}) \X Nat
Functors ==
    [op : {"send"}, msg : Messages] \cup
    [op : {"establish", "shutdown", "destroy", "write_complete", "high_water_mark"}]
Calls ==
    [op : {"send"}, msg : Messages] \cup
    [op : {"idle", "shutdown_store", "shutdown_queue"}]

Idle == [op |-> "idle"]

\* The values each variable may have; only after establish_conn has registered
\* the channel can there be interest in events.
TypeOK ==
    /\ state_ \in States
    /\ events_ \subseteq {"read", "write"}
    /\ registered \in BOOLEAN
    /\ state_ = "CONNENTING" => events_ = {} /\ ~registered
    /\ output_buf_ \in Seq(Bytes)
    /\ functors \in Seq(Functors)
    /\ caller \in [Workers -> Calls]
    /\ sent \subseteq Messages
    /\ freed \subseteq Messages
    /\ sock \in {"open", "fin"}
    /\ peer \in {"open", "fin", "reset"}
    /\ closes \in 0 .. MaxCloses
    /\ removals \in 0 .. closes
    /\ serverGone \in BOOLEAN
    /\ loop_ \in {"runs", "ended", "dropped"}
    /\ wire \in Seq(Bytes)
    /\ accepted \in Seq(Bytes)
    /\ closed \in BOOLEAN
    /\ downTold \in BOOLEAN
    /\ told \in Nat

\* tcp_server::new_conn has constructed the object and queued establish_conn.
Init ==
    /\ state_ = "CONNENTING"
    /\ events_ = {}
    /\ registered = FALSE
    /\ output_buf_ = <<>>
    /\ functors = <<[op |-> "establish"]>>
    /\ caller = [t \in Workers |-> Idle]
    /\ sent = {}
    /\ freed = {}
    /\ sock = "open"
    /\ peer = "open"
    /\ closes = 0
    /\ removals = 0
    /\ serverGone = FALSE
    /\ loop_ = "runs"
    /\ wire = <<>>
    /\ accepted = <<>>
    /\ closed = FALSE
    /\ downTold = FALSE
    /\ told = 0

is_writing == "write" \in events_

\* The bytes send_in_loop finds behind the pointer it was given.
Data(m) == [i \in 1 .. Length[m] |-> <<IF m \in freed THEN Garbage ELSE m, i>>]

\* ::write fails with EPIPE or ECONNRESET (SIGPIPE being ignored).
WriteFails == sock = "fin" \/ peer = "reset"

----------------------------------------------------------------------------
(* send and shutdown in a worker.                                          *)

\* In any other state send does nothing.  No worker calls send or shutdown when the
\* loop is gone: the user's duty.
send(t, m) ==
    /\ loop_ = "runs"
    /\ caller[t] = Idle
    /\ state_ = "CONNECTED"
    /\ m \notin sent
    /\ sent' = sent \cup {m}
    /\ caller' = [caller EXCEPT ![t] = [op |-> "send", msg |-> m]]
    /\ UNCHANGED <<connVars, functors, freed, sock, peer, closes, removals, serverGone, loop_,
                   wire, accepted, closed, downTold, told>>

\* run_in_loop(send_in_loop(data.data(), data.size())), and the return.
send_queue(t) ==
    /\ caller[t].op = "send"
    /\ functors' = Append(functors, caller[t])
    /\ caller' = [caller EXCEPT ![t] = Idle]
    /\ UNCHANGED <<connVars, sent, freed, sock, peer, closes, removals, serverGone, loop_, wire,
                   accepted, closed, downTold, told>>

\* The worker's string is destroyed after send returned, while the functor
\* that points into it is queued.
free_string(m) ==
    /\ m \notin freed
    /\ \E i \in 1 .. Len(functors) : functors[i] = [op |-> "send", msg |-> m]
    /\ freed' = freed \cup {m}
    /\ UNCHANGED <<connVars, functors, caller, sent, sock, peer, closes, removals,
                   serverGone, loop_, wire, accepted, closed, downTold, told>>

shutdown(t) ==
    /\ loop_ = "runs"
    /\ caller[t] = Idle
    /\ state_ = "CONNECTED"
    /\ caller' = [caller EXCEPT ![t] = [op |-> "shutdown_store"]]
    /\ UNCHANGED <<connVars, functors, sent, freed, sock, peer, closes, removals,
                   serverGone, loop_, wire, accepted, closed, downTold, told>>

\* Mutant: the state is left as it is.
shutdown_store_Not(t) ==
    /\ caller[t].op = "shutdown_store"
    /\ caller' = [caller EXCEPT ![t] = [op |-> "shutdown_queue"]]
    /\ UNCHANGED <<connVars, functors, sent, freed, sock, peer, closes, removals,
                   serverGone, loop_, wire, accepted, closed, downTold, told>>

shutdown_store(t) ==
    /\ caller[t].op = "shutdown_store"
    /\ state_' = "DISCONNENTING"
    /\ caller' = [caller EXCEPT ![t] = [op |-> "shutdown_queue"]]
    /\ UNCHANGED <<events_, registered, output_buf_, functors, sent, freed, sock,
                   peer, closes, removals, serverGone, loop_, wire, accepted, closed, downTold, told>>

shutdown_queue(t) ==
    /\ caller[t].op = "shutdown_queue"
    /\ functors' = Append(functors, [op |-> "shutdown"])
    /\ caller' = [caller EXCEPT ![t] = Idle]
    /\ UNCHANGED <<connVars, sent, freed, sock, peer, closes, removals, serverGone, loop_, wire,
                   accepted, closed, downTold, told>>

----------------------------------------------------------------------------
(* The bodies that run in the loop; q is the functor queue without the one *)
(* that is running.                                                        *)

\* Mutant: chan::enable_writing does not reach epoll.
enable_writing_Missing == UNCHANGED <<events_, registered>>

enable_writing ==
    /\ events_' = events_ \cup {"write"}
    /\ registered' = TRUE

\* Mutant: the interest stays.
disable_writing_Missing == UNCHANGED events_

disable_writing == events_' = events_ \ {"write"}

\* Mutant: the part that was written is buffered again.
remaining_NoOffset(m, n) == IF n = Length[m] THEN <<>> ELSE Data(m)

\* What is left of a message of which n bytes were written.
remaining(m, n) == SubSeq(Data(m), n + 1, Length[m])

\* Mutant: off by one.
crosses_mark_Above(old_len, new_len) ==
    new_len > HighWaterMark /\ old_len < HighWaterMark

crosses_mark(old_len, new_len) ==
    new_len >= HighWaterMark /\ old_len < HighWaterMark

\* The first n bytes were written, and that was all of them.
complete(m, n, direct, q) ==
    /\ remaining(m, n) = <<>>
    /\ functors' = IF direct THEN Append(q, [op |-> "write_complete"]) ELSE q
    /\ UNCHANGED <<events_, registered, output_buf_, told>>

\* The rest has to wait in the buffer.
append(m, n, q) ==
    LET rest == remaining(m, n)
        crosses == crosses_mark(Len(output_buf_), Len(output_buf_) + Len(rest))
    IN  /\ rest # <<>>
        /\ functors' = IF crosses THEN Append(q, [op |-> "high_water_mark"]) ELSE q
        /\ told' = IF crosses THEN told + 1 ELSE told
        /\ output_buf_' = output_buf_ \o rest
        /\ IF is_writing THEN UNCHANGED <<events_, registered>> ELSE enable_writing

take(m, n, direct, q) ==
    /\ wire' = wire \o SubSeq(Data(m), 1, n)
    /\ accepted' = accepted \o Data(m)
    /\ complete(m, n, direct, q) \/ append(m, n, q)

send_in_loop(m, q) ==
    LET direct == ~is_writing /\ output_buf_ = <<>>
    IN  /\ \/ /\ state_ = "DISCONNECTED"
              /\ functors' = q
              /\ UNCHANGED <<events_, registered, dataVars>>
           \/ /\ state_ # "DISCONNECTED"
              /\ direct /\ WriteFails
              /\ functors' = q
              /\ UNCHANGED <<events_, registered, output_buf_, wire, accepted, told>>
           \/ /\ state_ # "DISCONNECTED"
              /\ direct => ~WriteFails
              /\ \E n \in 0 .. IF direct THEN Length[m] ELSE 0 : take(m, n, direct, q)
        /\ UNCHANGED <<state_, freed, sock, peer, closes, removals, serverGone, loop_, closed, downTold>>

\* shutdown(fd, SHUT_WR); it fails on a connection that was reset.
shutdown_write == sock' = IF peer = "reset" THEN sock ELSE "fin"

\* Mutant: does not wait for the output.
shutdown_in_loop_Immediate == shutdown_write

shutdown_in_loop == IF is_writing THEN UNCHANGED sock ELSE shutdown_write

handle_close ==
    /\ closes < MaxCloses
    /\ closes' = closes + 1
    /\ state_' = "DISCONNECTED"
    /\ events_' = {}
    /\ registered' = TRUE
    /\ removals' = removals + 1
    /\ closed' = TRUE
    /\ downTold' = TRUE
    /\ UNCHANGED <<output_buf_, functors, caller, sent, freed, sock, peer,
                   serverGone, loop_, wire, accepted, told>>

----------------------------------------------------------------------------
(* Functors.                                                               *)

\* The loop executes the next functor, which is op.
Runs(op) == functors # <<>> /\ Head(functors).op = op

establish_conn ==
    /\ Runs("establish")
    /\ functors' = Tail(functors)
    /\ state_' = "CONNECTED"
    /\ events_' = {"read"}
    /\ registered' = TRUE
    /\ UNCHANGED <<output_buf_, caller, sent, freed, sock, peer, closes, removals,
                   serverGone, loop_, wire, accepted, closed, downTold, told>>

RunSend ==
    /\ Runs("send")
    /\ send_in_loop(Head(functors).msg, Tail(functors))
    /\ UNCHANGED <<caller, sent>>

RunShutdown ==
    /\ Runs("shutdown")
    /\ functors' = Tail(functors)
    /\ shutdown_in_loop
    /\ UNCHANGED <<connVars, caller, sent, freed, peer, closes, removals, serverGone, loop_, wire,
                   accepted, closed, downTold, told>>

\* write_complete_callback_ or high_water_mark_callback_.
RunCallback ==
    /\ Runs("write_complete") \/ Runs("high_water_mark")
    /\ functors' = Tail(functors)
    /\ UNCHANGED <<connVars, caller, sent, freed, sock, peer, closes, removals, serverGone, loop_,
                   wire, accepted, closed, downTold, told>>

\* A connection that is not CONNECTED is only taken out of epoll.
destroy_conn ==
    /\ Runs("destroy")
    /\ functors' = Tail(functors)
    /\ IF state_ = "CONNECTED"
         THEN state_' = "DISCONNECTED" /\ events_' = {} /\ downTold' = TRUE
         ELSE UNCHANGED <<state_, events_, downTold>>
    /\ registered' = FALSE
    /\ closed' = TRUE
    /\ UNCHANGED <<output_buf_, caller, sent, freed, sock, peer, closes, removals,
                   serverGone, loop_, wire, accepted, told>>

----------------------------------------------------------------------------
(* Channel events, and the calls of user callbacks in the loop thread.     *)

\* The read event finds the end of the stream (after a reset handle_error has
\* taken the error, and the read finds the end as well).
handle_read ==
    /\ registered /\ "read" \in events_
    /\ peer # "open"
    /\ handle_close

\* EPOLLHUP is reported whatever the interest; with EPOLLIN masked it goes to
\* the close callback.
handle_hup ==
    /\ registered /\ "read" \notin events_
    /\ peer = "reset" \/ (peer = "fin" /\ sock = "fin")
    /\ handle_close

\* Mutant: a shutdown that had to wait is forgotten.
drained_NoShutdown == UNCHANGED sock

\* handle_write's call of shutdown_in_loop, after disable_writing.
drained == IF state_ = "DISCONNENTING" THEN shutdown_write ELSE UNCHANGED sock

\* The write event: the kernel takes n bytes.  A write that fails changes
\* nothing.
handle_write(n) ==
    /\ registered /\ is_writing
    /\ ~WriteFails
    /\ n \in 1 .. Len(output_buf_)
    /\ wire' = wire \o SubSeq(output_buf_, 1, n)
    /\ output_buf_' = SubSeq(output_buf_, n + 1, Len(output_buf_))
    /\ told' = IF Len(output_buf_') >= HighWaterMark THEN told ELSE 0
    /\ IF output_buf_' = <<>>
         THEN /\ disable_writing
              /\ functors' = Append(functors, [op |-> "write_complete"])
              /\ drained
         ELSE UNCHANGED <<events_, functors, sock>>
    /\ UNCHANGED <<state_, registered, caller, sent, freed, peer, closes, removals,
                   serverGone, loop_, accepted, closed, downTold>>

\* A callback in the loop thread calls send: no queue is involved.
callback_send(m) ==
    /\ loop_ = "runs"
    /\ state_ = "CONNECTED"
    /\ m \notin sent
    /\ sent' = sent \cup {m}
    /\ send_in_loop(m, functors)
    /\ UNCHANGED caller

callback_shutdown ==
    /\ loop_ = "runs"
    /\ state_ = "CONNECTED"
    /\ state_' = "DISCONNENTING"
    /\ shutdown_in_loop
    /\ UNCHANGED <<events_, registered, output_buf_, functors, caller, sent, freed,
                   peer, closes, removals, serverGone, loop_, wire, accepted, closed, downTold, told>>

----------------------------------------------------------------------------
(* The server and the peer.                                                *)

\* tcp_server::remove_conn_in_loop for this connection, in the base loop.
remove_conn_in_loop ==
    /\ ~serverGone
    /\ removals > 0
    /\ removals' = removals - 1
    /\ functors' = Append(functors, [op |-> "destroy"])
    /\ UNCHANGED <<connVars, caller, sent, freed, sock, peer, closes, serverGone, loop_, wire,
                   accepted, closed, downTold, told>>

\* No removal was executed, so the connection is still in the server's map.
mapped == removals = closes

\* Mutant: the connection is only dropped from the map.
server_dtor_Drops ==
    /\ ~serverGone
    /\ serverGone' = TRUE
    /\ UNCHANGED <<connVars, functors, caller, sent, freed, sock, peer, closes, removals, loop_,
                   wire, accepted, closed, downTold, told>>

\* ~tcp_server destroys the connections it still has.
server_dtor ==
    /\ ~serverGone
    /\ serverGone' = TRUE
    /\ functors' = IF mapped THEN Append(functors, [op |-> "destroy"]) ELSE functors
    /\ UNCHANGED <<connVars, caller, sent, freed, sock, peer, closes, removals, loop_, wire,
                   accepted, closed, downTold, told>>

DestroyQueued == \E i \in 1 .. Len(functors) : functors[i].op = "destroy"

\* The pool goes after it: the loop was told to quit and returns at the end of a
\* batch, and the eloop takes its queue and its epoll set along.
loop_ends ==
    /\ serverGone /\ loop_ = "runs"
    /\ \A t \in Workers : caller[t] = Idle
    /\ loop_' = IF DestroyQueued THEN "dropped" ELSE "ended"
    /\ functors' = <<>>
    /\ registered' = FALSE
    /\ UNCHANGED <<state_, events_, output_buf_, caller, sent, freed, sock, peer, closes,
                   removals, serverGone, wire, accepted, closed, downTold, told>>

peer_closes ==
    /\ \/ peer = "open" /\ peer' = "fin"
       \/ peer # "reset" /\ peer' = "reset"
    /\ UNCHANGED <<connVars, functors, caller, sent, freed, sock, closes, removals,
                   serverGone, loop_, wire, accepted, closed, downTold, told>>

----------------------------------------------------------------------------
WorkerStep(t) == send_queue(t) \/ shutdown_store(t) \/ shutdown_queue(t)

Worker(t) == shutdown(t) \/ WorkerStep(t) \/ \E m \in Messages : send(t, m)

RunFunctor == establish_conn \/ RunSend \/ RunShutdown \/ RunCallback \/ destroy_conn

HandleWrite == \E n \in 1 .. Len(output_buf_) : handle_write(n)

Callback == callback_shutdown \/ \E m \in Messages : callback_send(m)

Environment ==
    \/ remove_conn_in_loop \/ server_dtor \/ loop_ends \/ peer_closes
    \/ \E m \in Messages : free_string(m)

Next ==
    \/ \E t \in Workers : Worker(t)
    \/ RunFunctor
    \/ handle_read \/ handle_hup \/ HandleWrite
    \/ Callback
    \/ Environment

Spec == Init /\ [][Next]_vars

\* Threads that can run do, the loop dispatches what is ready, and the peer
\* goes on reading: an EPOLLOUT event finds room for at least one byte.  That the
\* loop ends after the server is not assumed (its quit() can be lost: EloopThread).
Fairness ==
    /\ \A t \in Workers : WF_vars(WorkerStep(t))
    /\ WF_vars(RunFunctor)
    /\ WF_vars(handle_read)
    /\ WF_vars(HandleWrite)
    /\ WF_vars(remove_conn_in_loop)

FairSpec == Spec /\ Fairness

----------------------------------------------------------------------------
(* Properties.                                                             *)

\* Partial writes, buffering and flushing keep the stream: what the kernel has
\* and what is buffered are the bytes of the messages taken, in order, none
\* lost or repeated.
StreamIntegrity == wire \o output_buf_ = accepted

\* As long as the connection has not been closed, the channel waits for
\* EPOLLOUT exactly when there is something to write: with no interest the
\* buffer would never be flushed, with too much the loop would spin.
WritingIffPending == ~closed => (is_writing <=> output_buf_ # <<>>)

\* Our FIN is sent only after everything that was taken for sending.
FinMeansDrained == sock = "fin" /\ ~closed => output_buf_ = <<>>

\* high_water_mark_callback_ is queued once for every time the output comes to the
\* mark, over several messages and partial writes: while it is there or above, once,
\* and below it not at all.
HighWaterTold == told = IF Len(output_buf_) >= HighWaterMark THEN 1 ELSE 0

\* send's test of state_ refuses every call that is made after our FIN or after the
\* connection was closed, however shutdown's load and store interleave with the
\* loop.  (A call whose test came before may still be queued, and is executed in
\* state DISCONNENTING, where send_in_loop does not refuse it.)
EndedRefusesSends == closed \/ sock = "fin" => state_ \in {"DISCONNENTING", "DISCONNECTED"}

\* The user hears of the end of every connection, by handle_close or by destroy_conn,
\* with two exceptions, both of ~tcp_server: destroy_conn says nothing of a connection
\* that is shutting down, and it may never run, because the pool's loop ends with it
\* in the queue.
EndTold ==
    (closed \/ loop_ # "runs") /\ ~downTold
      => serverGone /\ (loop_ = "dropped" \/ state_ = "DISCONNENTING")

\* What is buffered is written, unless the connection closes or its loop ends.
BufferFlushed ==
    output_buf_ # <<>> ~> (output_buf_ = <<>> \/ peer = "reset" \/ closed \/ loop_ # "runs")

\* shutdown ends the output: our FIN is sent, unless the connection closes or its
\* loop ends.
ShutdownCompletes ==
    state_ = "DISCONNENTING" ~> (sock = "fin" \/ peer = "reset" \/ closed \/ loop_ # "runs")
=============================================================================
