----------------------------- MODULE TcpServer -----------------------------
(***************************************************************************)
(* tcp_server (src/net/tcp_server.cpp) with its acceptor, its eloop_tpool  *)
(* and the part of tcp_conn, chan and epoll_poller that decides when a     *)
(* connection is registered, closed and freed.  Every loop is the          *)
(* iteration of eloop::loop: poll takes the ready channels, they are       *)
(* handled one by one, then the queue is swapped out and run.  Wakeups are *)
(* EventLoop's business: here poll returns when there is something to do.  *)
(*                                                                         *)
(* A tcp_conn lives as long as a shared_ptr to it: the one in conns_, those*)
(* bound to functors (a batch keeps its functors until all have run), and  *)
(* those the user keeps.  The functors that send and shutdown queue from   *)
(* another thread bind only the raw this; what such a functor does with an *)
(* object that is gone is undefined and not modelled (FunctorsTargetAlive  *)
(* is about it).  External: connections arrive, peers close them (FIN) or  *)
(* reset them.                                                             *)
(*                                                                         *)
(* The user may hand a connection to two workers, one that sends on it and *)
(* one that shuts it down.  What a callback calls in the loop's own thread *)
(* is the case in which nothing happens between the steps of the call.     *)
(*                                                                         *)
(* With Teardown the base loop may be quit and the server destroyed after  *)
(* it, in the base thread, while the I/O loops go on: the destructor's     *)
(* body, the pool with its threads, the acceptor, and last the base loop.  *)
(***************************************************************************)
EXTENDS Naturals, Sequences, FiniteSets

CONSTANTS Conns,      \* connections that may arrive
          Base,       \* loop_, the server's own loop
          IoLoops,    \* the loops eloop_tpool can create, a sequence
          PoolSizes,  \* what the user may give to set_thread_num
          Kept,       \* those the user hands to a worker that sends
          Shut,       \* those the user hands to a worker that shuts them down
          Teardown,   \* the server may be destroyed
          FdLimits,   \* how many descriptors may be left for connections
          MaxCloses   \* bound: close callbacks of one connection

Elements(s) == {s[i] : i \in 1 .. Len(s)}

ASSUME PoolAssumption ==
    /\ IoLoops \in Seq(Elements(IoLoops))
    /\ \A i, j \in 1 .. Len(IoLoops) : i # j => IoLoops[i] # IoLoops[j]
    /\ \A i \in 1 .. Len(IoLoops) : IoLoops[i] # Base
    /\ PoolSizes \subseteq 0 .. Len(IoLoops)
ASSUME ServerBounds == /\ Teardown \in BOOLEAN /\ FdLimits \subseteq Nat /\ MaxCloses \in Nat
                       /\ Kept \subseteq Conns /\ Shut \subseteq Conns

Loops == {Base} \cup Elements(IoLoops)
Acceptor == "accept_ch_"

ASSUME AcceptorAssumption == Acceptor \notin Conns

VARIABLES
    fd_limit,     \* external: descriptors the process has for connections
    started_,     \* started_ > 0: how often is never asked
    listening,    \* accept_ch_ is registered
    server,       \* "up", "dtor" (in the destructor), "pool" (its threads are
                  \* being joined), "gone", and "ended" when the base loop is gone too
    quit_,        \* the loops that were told to quit
    loops_,       \* eloop_tpool's loops; none: Base does it all
    next_idx_,    \* 0 .. Len(loops_) - 1
    conns_,       \* the connections in the map
    peer,         \* peer[c]: "none", "backlog", "open", "fin" or "reset"
    io_loop,      \* io_loop[c]: the loop of c's tcp_conn, once it exists
    state_,       \* state_[c]: "none" before new_conn
    reading,      \* the interest of c's channel in EPOLLIN
    writing,      \* ... and in EPOLLOUT
    registered,   \* c's fd is in its loop's epoll set
    downs,        \* downs[c]: conn_callback_ calls in handle_close
    phase,        \* phase[l]: "poll", "handle", "functors", or "exited" from loop()
    active,       \* active[l]: the channels not handled yet
    pending,      \* pending[l]: pending_functors_
    batch,        \* batch[l]: the swapped-out functors that have not run
    ran,          \* ran[l]: those that have, and still hold what they bind
    user,         \* user[c]: where the worker that sends is with c: "none", "keeps",
                  \* "sending" (past send's test of state_) or "done"
    closer,       \* closer[c]: where the worker that shuts c down is: "none", "keeps",
                  \* "tested" (past shutdown's test), "stored" or "done"
    overwritten   \* history: connections whose DISCONNECTED a shutdown overwrote

startVars == <<fd_limit, started_, listening, server, quit_, loops_>>
serverVars == <<startVars, next_idx_, conns_>>
connVars == <<io_loop, state_, reading, writing, registered, downs>>
loopVars == <<phase, active, pending, batch, ran>>
userVars == <<user, closer, overwritten>>
vars == <<serverVars, peer, connVars, loopVars, userVars>>

\* "callback" is write_complete_callback_ or high_water_mark_callback_.
Ops == {"establish", "remove", "destroy", "send", "shutdown", "callback"}
Functor(o, c) == [op |-> o, conn |-> c]
Functors == [op : Ops, conn : Conns]

\* The functors that bind a shared_ptr to c.
Binds(f, c) == f.conn = c /\ f.op \notin {"send", "shutdown"}

\* A worker has a shared_ptr to c.
Holds(c) == user[c] \in {"keeps", "sending"} \/ closer[c] \in {"keeps", "tested", "stored"}

\* The tcp_conn of c exists: something holds it.
alive(c) ==
    \/ c \in conns_
    \/ Holds(c)
    \/ \E l \in Loops : \E f \in Elements(pending[l]) \cup Elements(batch[l]) \cup ran[l] :
         Binds(f, c)

States == {"none", "CONNENTING", "CONNECTED", "DISCONNENTING", "DISCONNECTED"}

\* The values each variable may have; a functor is only ever queued on the loop
\* its code is written for: remove_conn_in_loop on Base, the others on the
\* connection's own loop.
TypeOK ==
    /\ fd_limit \in FdLimits
    /\ started_ \in BOOLEAN
    /\ listening \in BOOLEAN
    /\ server \in {"up", "dtor", "pool", "gone", "ended"}
    /\ quit_ \subseteq Loops
    /\ \E n \in PoolSizes \cup {0} : loops_ = SubSeq(IoLoops, 1, n)
    /\ next_idx_ \in Nat
    /\ Len(loops_) > 0 => next_idx_ < Len(loops_)
    /\ conns_ \subseteq Conns
    /\ peer \in [Conns -> {"none", "backlog", "open", "fin", "reset"}]
    /\ io_loop \in [Conns -> Loops]
    /\ state_ \in [Conns -> States]
    /\ reading \in [Conns -> BOOLEAN]
    /\ writing \in [Conns -> BOOLEAN]
    /\ registered \in [Conns -> BOOLEAN]
    /\ downs \in [Conns -> 0 .. MaxCloses]
    /\ phase \in [Loops -> {"poll", "handle", "functors", "exited"}]
    /\ active \in [Loops -> SUBSET (Conns \cup {Acceptor})]
    /\ pending \in [Loops -> Seq(Functors)]
    /\ batch \in [Loops -> Seq(Functors)]
    /\ ran \in [Loops -> SUBSET Functors]
    /\ \A l \in Loops : \A f \in Elements(pending[l]) \cup Elements(batch[l]) \cup ran[l] :
         l = IF f.op = "remove" THEN Base ELSE io_loop[f.conn]
    /\ user \in [Conns -> {"none", "keeps", "sending", "done"}]
    /\ closer \in [Conns -> {"none", "keeps", "tested", "stored", "done"}]
    /\ overwritten \subseteq Conns

Init ==
    /\ fd_limit \in FdLimits
    /\ started_ = FALSE
    /\ listening = FALSE
    /\ server = "up"
    /\ quit_ = {}
    /\ loops_ = <<>>
    /\ next_idx_ = 0
    /\ conns_ = {}
    /\ peer = [c \in Conns |-> "none"]
    /\ io_loop = [c \in Conns |-> Base]
    /\ state_ = [c \in Conns |-> "none"]
    /\ reading = [c \in Conns |-> FALSE]
    /\ writing = [c \in Conns |-> FALSE]
    /\ registered = [c \in Conns |-> FALSE]
    /\ downs = [c \in Conns |-> 0]
    /\ phase = [l \in Loops |-> "poll"]
    /\ active = [l \in Loops |-> {}]
    /\ pending = [l \in Loops |-> <<>>]
    /\ batch = [l \in Loops |-> <<>>]
    /\ ran = [l \in Loops |-> {}]
    /\ user = [c \in Conns |-> "none"]
    /\ closer = [c \in Conns |-> "none"]
    /\ overwritten = {}

queue_in_loop(l, f) == pending' = [pending EXCEPT ![l] = Append(@, f)]

----------------------------------------------------------------------------
(* tcp_server and acceptor.                                                *)

\* eloop_tpool::start: n threads, each with its loop.
pool_start(n) == loops_' = SubSeq(IoLoops, 1, n)

\* acceptor::listen.
listen == listening' = TRUE

\* start, after set_thread_num(n), in the base thread before its loop runs;
\* only the first call starts the pool and listens.
start(n) ==
    /\ phase[Base] # "exited"
    /\ started_' = TRUE
    /\ IF started_
         THEN UNCHANGED <<listening, loops_>>
         ELSE pool_start(n) /\ listen
    /\ UNCHANGED <<fd_limit, server, quit_, next_idx_, conns_, peer, connVars, loopVars, userVars>>

\* eloop_tpool::get_next_loop: the choice, and the index afterwards.
get_next_loop == IF loops_ = <<>> THEN Base ELSE loops_[next_idx_ + 1]
next_loop_index == IF loops_ = <<>> THEN next_idx_ ELSE (next_idx_ + 1) % Len(loops_)

\* epoll_poller::update_chan and remove_chan, as far as the epoll set goes.
update_chan(c) == registered' = [registered EXCEPT ![c] = TRUE]
remove_chan(c) == registered' = [registered EXCEPT ![c] = FALSE]

\* tcp_conn::establish_conn, with conn_callback_.
established(c) ==
    /\ state_' = [state_ EXCEPT ![c] = "CONNECTED"]
    /\ reading' = [reading EXCEPT ![c] = TRUE]
    /\ update_chan(c)

\* Mutant: the connection is not entered in the map.
mapped_Not(c) == conns_

\* conns_[conn_name] = conn.
mapped(c) == conns_ \cup {c}

\* tcp_server::new_conn: run_in_loop is a call when the connection's loop is
\* the base loop, where new_conn runs.
new_conn(c) ==
    /\ next_idx_' = next_loop_index
    /\ conns_' = mapped(c)
    /\ io_loop' = [io_loop EXCEPT ![c] = get_next_loop]
    /\ IF get_next_loop = Base
         THEN established(c) /\ UNCHANGED pending
         ELSE /\ state_' = [state_ EXCEPT ![c] = "CONNENTING"]
              /\ queue_in_loop(get_next_loop, Functor("establish", c))
              /\ UNCHANGED <<reading, registered>>

\* Descriptors in use: accepted connections whose tcp_conn exists.
OpenFds == {c \in Conns : state_[c] # "none" /\ alive(c)}

\* socket::accept gets a descriptor.
can_accept == Cardinality(OpenFds) < fd_limit

\* acceptor::handle_read: one accept per event; it fails when there is no
\* descriptor left.
accept ==
    /\ phase[Base] = "handle" /\ Acceptor \in active[Base]
    /\ active' = [active EXCEPT ![Base] = @ \ {Acceptor}]
    /\ IF can_accept
         THEN \E c \in Conns : /\ peer[c] = "backlog"
                               /\ peer' = [peer EXCEPT ![c] = "open"]
                               /\ new_conn(c)
         ELSE UNCHANGED <<peer, next_idx_, conns_, io_loop, state_, reading,
                          registered, pending>>
    /\ UNCHANGED <<startVars, writing, downs, phase, batch, ran, userVars>>

\* Mutant: the connection stays in the map.
erased_Not(c) == conns_

\* conns_.erase.
erased(c) == conns_ \ {c}

\* Mutant: destroy_conn is queued on the server's loop.
destroy_loop_Base(c) == Base

\* conn->get_loop().
destroy_loop(c) == io_loop[c]

\* tcp_server::remove_conn_in_loop.
remove_conn_in_loop(c) ==
    /\ conns_' = erased(c)
    /\ queue_in_loop(destroy_loop(c), Functor("destroy", c))

\* tcp_server::remove_conn, called in loop l.
remove_conn(l, c) ==
    IF l = Base
      THEN remove_conn_in_loop(c)
      ELSE queue_in_loop(Base, Functor("remove", c)) /\ UNCHANGED conns_

----------------------------------------------------------------------------
(* tcp_conn's close, and the loops.                                        *)

\* A channel that epoll reports as closed: the end of the stream while there is
\* interest in reading, EPOLLHUP after a reset (or when both ends have shut down)
\* whatever the interest: until destroy_conn has run, the loop is told again and
\* again (bounded by MaxCloses).  A descriptor that ~socket has closed is not in
\* the set any more.
Ready(c) ==
    /\ registered[c] /\ alive(c)
    /\ peer[c] = "reset" \/ (reading[c] /\ peer[c] = "fin")
    /\ downs[c] < MaxCloses

ReadyChans(l) ==
    {c \in Conns : io_loop[c] = l /\ Ready(c)} \cup
    (IF l = Base /\ listening /\ \E c \in Conns : peer[c] = "backlog" THEN {Acceptor} ELSE {})

\* A channel that epoll may report as writable.
Writable(l, c) == io_loop[c] = l /\ registered[c] /\ writing[c] /\ alive(c)

poll(l) ==
    /\ phase[l] = "poll"
    /\ ReadyChans(l) # {} \/ (\E c \in Conns : Writable(l, c)) \/ pending[l] # <<>> \/ l \in quit_
    /\ active' = [active EXCEPT ![l] = ReadyChans(l)]
    /\ phase' = [phase EXCEPT ![l] = "handle"]
    /\ UNCHANGED <<serverVars, peer, connVars, pending, batch, ran, userVars>>

\* tcp_conn::handle_close, with conn_callback_ and close_callback_; its
\* disable_all reaches epoll through update_chan.
handle_close(l, c) ==
    /\ state_' = [state_ EXCEPT ![c] = "DISCONNECTED"]
    /\ reading' = [reading EXCEPT ![c] = FALSE]
    /\ writing' = [writing EXCEPT ![c] = FALSE]
    /\ downs' = [downs EXCEPT ![c] = @ + 1]
    /\ update_chan(c)
    /\ remove_conn(l, c)

\* chan::handle_event: tie_ is locked, and the callback, handle_close directly or
\* through handle_read, is called if the tcp_conn still exists.
handle_event(l, c) ==
    /\ phase[l] = "handle" /\ c \in active[l]
    /\ active' = [active EXCEPT ![l] = @ \ {c}]
    /\ IF alive(c)
         THEN handle_close(l, c)
         ELSE UNCHANGED <<state_, reading, writing, downs, registered, pending, conns_>>
    /\ UNCHANGED <<startVars, next_idx_, peer, io_loop, phase, batch, ran, userVars>>

\* A functor with a callback of the user's is queued, if one was set.
may_call_back(c) ==
    queue_in_loop(io_loop[c], Functor("callback", c)) \/ UNCHANGED pending

\* tcp_conn::handle_write of a writable channel, when the output is drained by it
\* (otherwise nothing changes here): disable_writing, and write_complete_callback_.
handle_write(l, c) ==
    /\ phase[l] = "handle" /\ Writable(l, c)
    /\ writing' = [writing EXCEPT ![c] = FALSE]
    /\ update_chan(c)
    /\ may_call_back(c)
    /\ UNCHANGED <<serverVars, peer, io_loop, state_, reading, downs, phase, active, batch,
                   ran, userVars>>

swap_functors(l) ==
    /\ phase[l] = "handle" /\ active[l] = {}
    /\ phase' = [phase EXCEPT ![l] = "functors"]
    /\ batch' = [batch EXCEPT ![l] = pending[l]]
    /\ pending' = [pending EXCEPT ![l] = <<>>]
    /\ UNCHANGED <<serverVars, peer, connVars, active, ran, userVars>>

\* Mutant: the channel stays in the epoll set.
destroyed_KeepsChan(c) ==
    /\ state_' = [state_ EXCEPT ![c] = "DISCONNECTED"]
    /\ reading' = [reading EXCEPT ![c] = FALSE]
    /\ UNCHANGED <<writing, registered>>

\* tcp_conn::destroy_conn: a connection that is shutting down keeps its state and
\* its interest, and only leaves the epoll set.
destroyed(c) ==
    /\ IF state_[c] = "CONNECTED"
         THEN /\ state_' = [state_ EXCEPT ![c] = "DISCONNECTED"]
              /\ reading' = [reading EXCEPT ![c] = FALSE]
              /\ writing' = [writing EXCEPT ![c] = FALSE]
         ELSE UNCHANGED <<state_, reading, writing>>
    /\ remove_chan(c)

\* enable_writing, which puts a channel that was removed back into the epoll set.
enable_writing(c) ==
    /\ ~writing[c]
    /\ writing' = [writing EXCEPT ![c] = TRUE]
    /\ update_chan(c)

\* tcp_conn::send_in_loop: refused when the connection is DISCONNECTED; otherwise
\* all, a part or nothing is written, what is left makes the channel write when it
\* did not, and a callback is queued for a write that is complete or an output that
\* comes to the mark.
send_in_loop(c) ==
    IF alive(c) /\ state_[c] # "DISCONNECTED"
      THEN /\ enable_writing(c) \/ UNCHANGED <<writing, registered>>
           /\ may_call_back(c)
      ELSE UNCHANGED <<writing, registered, pending>>

\* One functor of the batch.  shutdown_in_loop (the FIN) and the callbacks change
\* nothing of what is modelled here.
run_functor(l) ==
    /\ phase[l] = "functors" /\ batch[l] # <<>>
    /\ LET f == Head(batch[l])
       IN  /\ ran' = [ran EXCEPT ![l] = @ \cup {f}]
           /\ \/ /\ f.op = "establish"
                 /\ established(f.conn)
                 /\ UNCHANGED <<conns_, pending, writing>>
              \/ /\ f.op = "remove"
                 /\ remove_conn_in_loop(f.conn)
                 /\ UNCHANGED <<state_, reading, writing, registered>>
              \/ /\ f.op = "destroy"
                 /\ destroyed(f.conn)
                 /\ UNCHANGED <<conns_, pending>>
              \/ /\ f.op = "send"
                 /\ send_in_loop(f.conn)
                 /\ UNCHANGED <<conns_, state_, reading>>
              \/ /\ f.op \in {"shutdown", "callback"}
                 /\ UNCHANGED <<conns_, pending, state_, reading, writing, registered>>
    /\ batch' = [batch EXCEPT ![l] = Tail(@)]
    /\ UNCHANGED <<startVars, next_idx_, peer, io_loop, downs, phase,
                   active, userVars>>

\* loop() returns.  The eloop of a pool thread is a local of thread_func and goes
\* with its queue and its epoll set; the base loop is the user's and stays.
exit_loop(l) ==
    /\ phase' = [phase EXCEPT ![l] = "exited"]
    /\ IF l = Base
         THEN UNCHANGED <<pending, registered>>
         ELSE /\ pending' = [pending EXCEPT ![l] = <<>>]
              /\ registered' = [c \in Conns |-> registered[c] /\ io_loop[c] # l]

\* The batch is destroyed, and with it the shared_ptrs its functors bind; then
\* comes loop()'s test of quit_.
end_functors(l) ==
    /\ phase[l] = "functors" /\ batch[l] = <<>>
    /\ ran' = [ran EXCEPT ![l] = {}]
    /\ IF l \in quit_
         THEN exit_loop(l)
         ELSE /\ phase' = [phase EXCEPT ![l] = "poll"]
              /\ UNCHANGED <<pending, registered>>
    /\ UNCHANGED <<serverVars, peer, io_loop, state_, reading, writing, downs, active, batch,
                   userVars>>

----------------------------------------------------------------------------
(* The end of the server.                                                  *)

\* The user ends the base loop.
quit ==
    /\ Teardown /\ phase[Base] # "exited"
    /\ quit_' = quit_ \cup {Base}
    /\ UNCHANGED <<fd_limit, started_, listening, server, loops_, next_idx_, conns_,
                   peer, connVars, loopVars, userVars>>

\* ~tcp_server begins: loop() has returned, and the user's workers are done with
\* their connections (the user's duty).
server_dtor ==
    /\ server = "up" /\ phase[Base] = "exited"
    /\ \A c \in Conns : ~Holds(c)
    /\ server' = "dtor"
    /\ UNCHANGED <<fd_limit, started_, listening, quit_, loops_, next_idx_, conns_,
                   peer, connVars, loopVars, userVars>>

\* Mutant: the connection is only dropped.
destroy_each_Drops(c) ==
    /\ server = "dtor"
    /\ c \in conns_ /\ conns_' = conns_ \ {c}
    /\ UNCHANGED <<startVars, next_idx_, peer, connVars, loopVars, userVars>>

\* One turn of its loop over conns_: destroy_conn is called when the connection
\* is on the base loop, whose thread this is, and queued otherwise.
destroy_each(c) ==
    /\ server = "dtor"
    /\ c \in conns_ /\ conns_' = conns_ \ {c}
    /\ IF io_loop[c] = Base
         THEN destroyed(c) /\ UNCHANGED pending
         ELSE /\ queue_in_loop(io_loop[c], Functor("destroy", c))
              /\ UNCHANGED <<state_, reading, writing, registered>>
    /\ UNCHANGED <<startVars, next_idx_, peer, io_loop, downs, phase, active, batch, ran, userVars>>

\* Mutant: the thread is not told to stop.
pool_thread_dtor_NoQuit(l) ==
    /\ server = "pool" /\ \A k \in quit_ : phase[k] = "exited"
    /\ UNCHANGED quit_

\* ~eloop_thread of the next thread of the pool: quit(); its join() is the guard
\* of what comes after it.
pool_thread_dtor(l) ==
    /\ server = "pool" /\ \A k \in quit_ : phase[k] = "exited"
    /\ quit_' = quit_ \cup {l}

\* The members: thread_pool_ ...
members_pool ==
    /\ \/ /\ server = "dtor" /\ conns_ = {}
          /\ server' = "pool"
          /\ UNCHANGED quit_
       \/ /\ \E l \in Elements(loops_) \ quit_ : pool_thread_dtor(l)
          /\ UNCHANGED server
    /\ UNCHANGED <<fd_limit, started_, listening, loops_, next_idx_, conns_,
                   peer, connVars, loopVars, userVars>>

\* Mutant: the last thread is not joined.
joined_Not == Elements(loops_) \subseteq quit_

\* All threads of the pool were joined.
joined == \A l \in Elements(loops_) : l \in quit_ /\ phase[l] = "exited"

\* ... and acceptor_, whose destructor takes accept_ch_ out of the base loop.
members_acceptor ==
    /\ server = "pool" /\ joined
    /\ server' = "gone"
    /\ listening' = FALSE
    /\ UNCHANGED <<fd_limit, started_, quit_, loops_, next_idx_, conns_,
                   peer, connVars, loopVars, userVars>>

\* ~eloop of the base loop: what was queued on it since it returned is dropped.
base_dtor ==
    /\ server = "gone"
    /\ server' = "ended"
    /\ pending' = [pending EXCEPT ![Base] = <<>>]
    /\ registered' = [c \in Conns |-> registered[c] /\ io_loop[c] # Base]
    /\ UNCHANGED <<fd_limit, started_, listening, quit_, loops_, next_idx_, conns_,
                   peer, io_loop, state_, reading, writing, downs, phase, active, batch, ran,
                   userVars>>

Destruction ==
    server_dtor \/ (\E c \in Conns : destroy_each(c)) \/ members_pool \/ members_acceptor \/ base_dtor

----------------------------------------------------------------------------
(* The user's threads and the peers.                                       *)

\* conn_callback_ or msg_callback_ hands its shared_ptr to a worker; not while the
\* server is being destroyed, when the loops of the connections go (the user's duty).
user_keeps(c) ==
    /\ server = "up" /\ state_[c] = "CONNECTED"
    /\ \/ /\ c \in Kept /\ user[c] = "none"
          /\ user' = [user EXCEPT ![c] = "keeps"]
          /\ UNCHANGED closer
       \/ /\ c \in Shut /\ closer[c] = "none"
          /\ closer' = [closer EXCEPT ![c] = "keeps"]
          /\ UNCHANGED user
    /\ UNCHANGED <<serverVars, peer, connVars, loopVars, overwritten>>

\* The worker calls tcp_conn::send: the test of state_ ...
send(c) ==
    /\ user[c] = "keeps"
    /\ user' = [user EXCEPT ![c] = IF state_[c] = "CONNECTED" THEN "sending" ELSE "done"]
    /\ UNCHANGED <<serverVars, peer, connVars, loopVars, closer, overwritten>>

\* ... and run_in_loop, with a functor that binds the raw this.  The worker is
\* done with the connection when send returns.
send_queue(c) ==
    /\ user[c] = "sending"
    /\ user' = [user EXCEPT ![c] = "done"]
    /\ queue_in_loop(io_loop[c], Functor("send", c))
    /\ UNCHANGED <<serverVars, peer, connVars, phase, active, batch, ran, closer, overwritten>>

\* The other worker calls tcp_conn::shutdown: the test of state_, ...
shutdown(c) ==
    /\ closer[c] = "keeps"
    /\ closer' = [closer EXCEPT ![c] = IF state_[c] = "CONNECTED" THEN "tested" ELSE "done"]
    /\ UNCHANGED <<serverVars, peer, connVars, loopVars, user, overwritten>>

\* ... the store, whatever the state has become, ...
shutdown_store(c) ==
    /\ closer[c] = "tested"
    /\ closer' = [closer EXCEPT ![c] = "stored"]
    /\ state_' = [state_ EXCEPT ![c] = "DISCONNENTING"]
    /\ overwritten' = IF state_[c] = "DISCONNECTED" THEN overwritten \cup {c} ELSE overwritten
    /\ UNCHANGED <<serverVars, peer, io_loop, reading, writing, registered, downs, loopVars, user>>

\* ... and run_in_loop, again with the raw this.
shutdown_queue(c) ==
    /\ closer[c] = "stored"
    /\ closer' = [closer EXCEPT ![c] = "done"]
    /\ queue_in_loop(io_loop[c], Functor("shutdown", c))
    /\ UNCHANGED <<serverVars, peer, connVars, phase, active, batch, ran, user, overwritten>>

UserStep(c) ==
    send(c) \/ send_queue(c) \/ shutdown(c) \/ shutdown_store(c) \/ shutdown_queue(c)

connect(c) ==
    /\ peer[c] = "none"
    /\ peer' = [peer EXCEPT ![c] = "backlog"]
    /\ UNCHANGED <<serverVars, connVars, loopVars, userVars>>

peer_closes(c) ==
    /\ \/ peer[c] = "open" /\ peer' = [peer EXCEPT ![c] = "fin"]
       \/ peer[c] \in {"open", "fin"} /\ peer' = [peer EXCEPT ![c] = "reset"]
    /\ UNCHANGED <<serverVars, connVars, loopVars, userVars>>

----------------------------------------------------------------------------
LoopStep(l) ==
    \/ poll(l)
    \/ l = Base /\ accept
    \/ \E c \in Conns : handle_event(l, c) \/ handle_write(l, c)
    \/ swap_functors(l)
    \/ run_functor(l)
    \/ end_functors(l)

Next ==
    \/ \E n \in PoolSizes : start(n)
    \/ \E l \in Loops : LoopStep(l)
    \/ quit \/ Destruction
    \/ \E c \in Conns : user_keeps(c) \/ UserStep(c) \/ connect(c) \/ peer_closes(c)

Spec == Init /\ [][Next]_vars

\* Every loop thread and every worker that can run does, and a server whose loop
\* has returned is destroyed.
FairSpec ==
    /\ Spec
    /\ \A l \in Loops : WF_vars(LoopStep(l))
    /\ WF_vars(Destruction)
    /\ \A c \in Conns : WF_vars(UserStep(c))

----------------------------------------------------------------------------
(* Properties.                                                             *)

\* A loop never touches the channel of a freed connection, nor leaves one in its
\* epoll set: chan is a member of tcp_conn, so the check of tie_ comes too late.
\* That the two-step removal (erase in the base loop, destroy_conn in the
\* connection's loop after the events) guarantees it is the design's core.  Except
\* for a connection that one thread shuts down while it closes: when shutdown's
\* store turns DISCONNECTED into DISCONNENTING, a send that another thread has
\* queued is not refused any more and its enable_writing registers the removed
\* channel again, which nothing will remove.
ChannelsAlive ==
    \A c \in Conns \ overwritten :
        (registered[c] \/ \E l \in Loops : c \in active[l]) => alive(c)

\* A connection that is open, about to be, or shutting down is in the map when
\* ~tcp_server comes: it finds it there to destroy it, and no establish_conn that
\* comes late on another loop reopens a connection that was already removed.  (One
\* whose close a late shutdown overwrote only looks as if it were shutting down.)
OpenMeansMapped ==
    server = "up" =>
        \A c \in Conns \ overwritten :
            state_[c] \in {"CONNENTING", "CONNECTED", "DISCONNENTING"} => c \in conns_

\* tie (chan.h) exists because callbacks must not run on a dead tcp_conn; the
\* functor that send queues is held to the same: it runs on a live one.
FunctorsTargetAlive ==
    \A l \in Loops : batch[l] # <<>> => alive(Head(batch[l]).conn)

\* A connection that its peer has closed is removed and freed: no reference is
\* kept and no functor forgotten, in any order of the two loops.
ClosedConnsFreed ==
    \A c \in Conns :
        (state_[c] # "none" /\ peer[c] \in {"fin", "reset"}) ~> ~alive(c)

\* Who is called is still there while the server is torn down: I/O threads call
\* remove_conn on the server, so it outlives them; and nothing is queued on a
\* loop that is gone, by the destructor or by a close that comes late.
TeardownOrder ==
    /\ server \in {"gone", "ended"} => \A l \in Elements(loops_) : phase[l] = "exited"
    /\ \A l \in Elements(IoLoops) : phase[l] = "exited" => pending[l] = <<>>

\* The teardown ends, and leaves no connection behind, also when a loop quits
\* with destroy_conn, or the removal of a connection, still in its queue.  (The
\* pool's loops run here; that quit() is lost before they do is EloopThread's.)
TeardownFrees == server = "dtor" ~> (server = "ended" /\ \A c \in Conns : ~alive(c))
=============================================================================
