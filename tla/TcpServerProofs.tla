-------------------------- MODULE TcpServerProofs --------------------------
(***************************************************************************)
(* Proofs about TcpServer, for any connections, pool sizes, limits and     *)
(* bounds, with and without a teardown.                                    *)
(*                                                                         *)
(* ChannelsAlive speaks of everything that keeps a connection; a channel   *)
(* is safe for a smaller reason (Held): until destroy_conn has taken it    *)
(* out of the epoll set, the connection is in the map, or its removal is   *)
(* still queued on the base loop, or destroy_conn is still queued on its   *)
(* own loop.  For this destroy_conn must not overtake establish_conn,      *)
(* which would register the channel again (InOrder, NotOvertaken), and a   *)
(* loop must not be gone while something is queued on it (Teardown order). *)
(*                                                                         *)
(* A send that finds its channel removed would register it again too.  A   *)
(* closed connection refuses it (SendInv): while the server is up only     *)
(* closed connections are destroyed, and the destructor's destroy_conn     *)
(* comes behind every send.  This fails for the connections whose          *)
(* DISCONNECTED a shutdown has overwritten (UserInv); they are left out.   *)
(***************************************************************************)
EXTENDS TcpServer, SequenceTheorems, TLAPS

\* The functors of a loop that have not run.
Unrun == [l \in Loops |-> Elements(pending[l]) \cup Elements(batch[l])]

\* Within a queue the functors of a connection come after its establish_conn.
InOrder(s) ==
    \A i, j \in 1 .. Len(s) : s[i].op = "establish" /\ s[j].conn = s[i].conn => i <= j

NotOvertaken ==
    \A l \in Loops :
        /\ InOrder(batch[l])
        /\ InOrder(pending[l])
        /\ \A f \in Elements(pending[l]), g \in Elements(batch[l]) :
             f.op = "establish" => g.conn # f.conn

\* Where the loops are, and what epoll_wait has told them.
LoopInv ==
    /\ \A l \in Loops : phase[l] # "functors" => batch[l] = <<>>
    /\ \A l \in Loops : \A c \in Conns :
         c \in active[l] => /\ phase[l] = "handle" /\ io_loop[c] = l
                            /\ registered[c] /\ downs[c] < MaxCloses
    /\ ~started_ => loops_ = <<>>
    /\ loops_ = <<>> => next_idx_ = 0
    /\ \A c \in Conns : io_loop[c] \in {Base} \cup Elements(loops_)

\* The order of the teardown.
DownInv ==
    /\ server # "up" => phase[Base] = "exited"
    /\ server # "up" => \A c \in Conns : ~Holds(c)
    /\ \A l \in Loops : phase[l] = "exited" => l \in quit_
    /\ \A l \in quit_ : l # Base => server \in {"pool", "gone", "ended"}
    /\ server \in {"gone", "ended"} => \A l \in Elements(loops_) : phase[l] = "exited"
    /\ \A l \in Loops : phase[l] = "exited" /\ l # Base => pending[l] = <<>>
    /\ \A c \in Conns : phase[io_loop[c]] = "exited" /\ io_loop[c] # Base => ~registered[c]

\* A connection that was not accepted yet has left no trace.
FreshInv ==
    \A c \in Conns :
        /\ state_[c] = "none" <=> peer[c] \in {"none", "backlog"}
        /\ state_[c] = "none" =>
             /\ c \notin conns_ /\ ~registered[c] /\ user[c] = "none"
             /\ \A l \in Loops : \A f \in Unrun[l] \cup ran[l] : f.conn # c

\* The connection was closed, also when shutdown's store has hidden it since.
Closed(c) == state_[c] = "DISCONNECTED" \/ c \in overwritten

\* Why the object of a registered channel exists.
Held(c) ==
    \/ c \in conns_
    \/ Functor("remove", c) \in Unrun[Base]
    \/ Functor("destroy", c) \in Unrun[io_loop[c]]

HoldInv ==
    /\ \A c \in Conns : state_[c] = "CONNENTING" => ~registered[c]
    /\ \A l \in Loops : \A f \in Unrun[l] :
         /\ f.op = "remove" => Closed(f.conn)
         /\ f.op = "establish" =>
              /\ l # Base /\ state_[f.conn] = "CONNENTING"
              /\ f.conn \in conns_ \/ Functor("destroy", f.conn) \in Unrun[l]
    /\ \A c \in Conns : registered[c] /\ c \notin overwritten => Held(c)

\* A worker gets a connection when it is open, and only a closed one is overwritten.
UserInv ==
    /\ \A c \in Conns : user[c] # "none" \/ closer[c] # "none" =>
                          state_[c] \notin {"none", "CONNENTING"}
    /\ \A c \in Conns : c \in overwritten => state_[c] \in {"DISCONNENTING", "DISCONNECTED"}

\* Within a queue no send comes behind the destroy_conn of a connection that is not
\* in D.
Ahead(s, D) ==
    \A i, j \in 1 .. Len(s) :
        s[i].op = "destroy" /\ s[j].op = "send" /\ s[j].conn = s[i].conn /\ s[i].conn \notin D
          => j <= i

AllAhead(p, b, D) ==
    \A l \in Loops :
        /\ Ahead(b[l], D)
        /\ Ahead(p[l], D)
        /\ \A f \in Elements(p[l]), g \in Elements(b[l]) :
             f.op = "send" /\ g.op = "destroy" /\ f.conn = g.conn => f.conn \in D

ClosedConns == {c \in Conns : Closed(c)}

\* A send that is not refused finds its channel registered: while the server is up
\* only a closed connection is taken out of the epoll set, and after it every send
\* is ahead of the destroy_conn that ~tcp_server queues.
SendInv ==
    /\ AllAhead(pending, batch, ClosedConns)
    /\ \A l \in Loops : \A f \in Unrun[l] : f.op = "destroy" => server # "up" \/ Closed(f.conn)
    /\ \A c \in Conns :
         server = "up" /\ state_[c] \in {"CONNECTED", "DISCONNENTING"} /\ ~Closed(c) => registered[c]
    /\ \A l \in Loops : \A f \in Unrun[l] :
         f.op = "send" => registered[f.conn] \/ Closed(f.conn) \/ phase[l] = "exited"

CInv == TypeOK /\ NotOvertaken /\ LoopInv /\ DownInv /\ FreshInv /\ HoldInv /\ OpenMeansMapped
IInv == CInv /\ UserInv /\ SendInv

USE PoolAssumption, AcceptorAssumption, ServerBounds DEF States, userVars, Holds, Closed

----------------------------------------------------------------------------
(* Sequences of functors.                                                  *)

LEMMA FunctorFields ==
    ASSUME NEW o \in Ops, NEW c \in Conns
    PROVE  /\ Functor(o, c) \in Functors
           /\ Functor(o, c).op = o /\ Functor(o, c).conn = c
  BY DEF Functor, Functors

\* The functors by name.
LEMMA Removal ==
    ASSUME NEW c \in Conns
    PROVE  /\ Functor("remove", c) \in Functors /\ Functor("destroy", c) \in Functors
           /\ Functor("remove", c).op = "remove" /\ Functor("destroy", c).op = "destroy"
           /\ Functor("remove", c).conn = c /\ Functor("destroy", c).conn = c
  BY FunctorFields DEF Ops

LEMMA EmptyElements == Elements(<<>>) = {} /\ InOrder(<<>>)
  BY DEF Elements, InOrder

\* What a call of queue_in_loop does to a queue.
LEMMA AppendFunctor ==
    ASSUME NEW s \in Seq(Functors), NEW f \in Functors
    PROVE  /\ Append(s, f) \in Seq(Functors)
           /\ Elements(Append(s, f)) = Elements(s) \cup {f}
           /\ InOrder(s) /\ (f.op = "establish" => \A g \in Elements(s) : g.conn # f.conn)
                => InOrder(Append(s, f))
<1> DEFINE a == Append(s, f)
<1>1. a \in Seq(Functors) /\ Len(a) = Len(s) + 1 /\ Len(s) \in Nat
  OBVIOUS
<1>2. (\A i \in 1 .. Len(s) : a[i] = s[i]) /\ a[Len(s) + 1] = f
  OBVIOUS
<1> HIDE DEF a
<1>3. 1 .. Len(a) = (1 .. Len(s)) \cup {Len(s) + 1}
  BY <1>1
<1>4. Elements(a) = Elements(s) \cup {f}
  <2>1. ASSUME NEW i \in 1 .. Len(a) PROVE a[i] \in Elements(s) \cup {f}
    BY <1>2, <1>3 DEF Elements
  <2>2. ASSUME NEW i \in 1 .. Len(s) PROVE s[i] \in Elements(a)
    BY <1>2, <1>3 DEF Elements
  <2>3. f \in Elements(a)
    BY <1>2, <1>3 DEF Elements
  <2> QED
    BY <2>1, <2>2, <2>3 DEF Elements
<1>5. ASSUME InOrder(s), f.op = "establish" => \A g \in Elements(s) : g.conn # f.conn
      PROVE  InOrder(a)
  <2> SUFFICES ASSUME NEW i \in 1 .. Len(a), NEW j \in 1 .. Len(a),
                      a[i].op = "establish", a[j].conn = a[i].conn
               PROVE  i <= j
    BY DEF InOrder
  <2>1. CASE i \in 1 .. Len(s) /\ j \in 1 .. Len(s)
    BY <1>2, <1>5, <2>1 DEF InOrder
  <2>2. CASE j = Len(s) + 1
    BY <1>1, <2>2
  <2>3. CASE i = Len(s) + 1 /\ j \in 1 .. Len(s)
    BY <1>2, <1>5, <2>3 DEF Elements
  <2> QED
    BY <1>3, <2>1, <2>2, <2>3
<1> QED
  BY <1>1, <1>4, <1>5 DEF a

\* What the run of the first functor of a batch leaves: no establish_conn of a
\* connection comes after any of its functors.
LEMMA FirstFunctor ==
    ASSUME NEW s \in Seq(Functors), s # <<>>
    PROVE  /\ Head(s) \in Functors
           /\ Tail(s) \in Seq(Functors)
           /\ Elements(s) = {Head(s)} \cup Elements(Tail(s))
           /\ InOrder(s) => /\ InOrder(Tail(s))
                            /\ \A f \in Elements(Tail(s)) :
                                 f.op = "establish" => f.conn # Head(s).conn
<1> DEFINE t == Tail(s)
<1>1. /\ Head(s) \in Functors /\ Head(s) = s[1]
      /\ t \in Seq(Functors)
      /\ Len(s) \in Nat \ {0} /\ Len(t) = Len(s) - 1
      /\ \A i \in 1 .. Len(t) : t[i] = s[i + 1]
  BY HeadTailProperties, EmptySeq
<1> HIDE DEF t
<1>2. \A i \in 1 .. Len(s) : i # 1 => i - 1 \in 1 .. Len(t) /\ s[i] = t[i - 1]
  BY <1>1
<1>3. \A i \in 1 .. Len(t) : i + 1 \in 1 .. Len(s)
  BY <1>1
<1>4. 1 \in 1 .. Len(s)
  BY <1>1
<1>5. Elements(s) \subseteq {Head(s)} \cup Elements(t)
  <2> SUFFICES ASSUME NEW i \in 1 .. Len(s), i # 1 PROVE s[i] \in Elements(t)
    BY <1>1 DEF Elements
  <2> QED
    BY <1>2 DEF Elements
<1>6. {Head(s)} \cup Elements(t) \subseteq Elements(s)
  <2>1. Head(s) \in Elements(s)
    BY <1>1, <1>4 DEF Elements
  <2>2. ASSUME NEW i \in 1 .. Len(t) PROVE t[i] \in Elements(s)
    BY <1>1, <1>3 DEF Elements
  <2> QED
    BY <2>1, <2>2 DEF Elements
<1>7. ASSUME InOrder(s) PROVE InOrder(t)
  <2> SUFFICES ASSUME NEW i \in 1 .. Len(t), NEW j \in 1 .. Len(t),
                      t[i].op = "establish", t[j].conn = t[i].conn
               PROVE  i <= j
    BY DEF InOrder
  <2>1. i + 1 <= j + 1
    BY <1>1, <1>3, <1>7 DEF InOrder
  <2> QED
    BY <2>1
<1>8. ASSUME InOrder(s), NEW f \in Elements(t), f.op = "establish" PROVE f.conn # Head(s).conn
  <2>1. PICK i \in 1 .. Len(t) : f = t[i]
    BY DEF Elements
  <2>2. ~(i + 1 <= 1)
    OBVIOUS
  <2> QED
    BY <1>1, <1>3, <1>4, <1>8, <2>1, <2>2 DEF InOrder
<1> QED
  BY <1>1, <1>5, <1>6, <1>7, <1>8 DEF t

----------------------------------------------------------------------------
(* The loops and what is queued on them.                                   *)

\* The pool's loops are not the base loop, and a connection gets one of them or
\* the base loop.
LEMMA LoopFacts ==
    /\ Base \in Loops /\ Base \notin Elements(IoLoops)
    /\ \A l \in Loops : l # Base => l \in Elements(IoLoops)
    /\ TypeOK => /\ Elements(loops_) \subseteq Elements(IoLoops)
                 /\ loops_ \in Seq(Elements(IoLoops))
                 /\ get_next_loop \in {Base} \cup Elements(loops_)
                 /\ next_loop_index \in Nat
                 /\ Len(loops_) > 0 => next_loop_index < Len(loops_)
<1>1. Base \in Loops /\ Base \notin Elements(IoLoops) /\ \A l \in Loops : l # Base => l \in Elements(IoLoops)
  BY DEF Loops, Elements
<1>2. ASSUME NEW n \in PoolSizes \cup {0}
      PROVE  /\ SubSeq(IoLoops, 1, n) \in Seq(Elements(IoLoops))
             /\ Len(SubSeq(IoLoops, 1, n)) = n
             /\ Elements(SubSeq(IoLoops, 1, n)) \subseteq Elements(IoLoops)
  <2>1. n \in 0 .. Len(IoLoops) /\ Len(IoLoops) \in Nat
    OBVIOUS
  <2>2. \A i \in 1 .. n : IoLoops[i] \in Elements(IoLoops)
    BY <2>1 DEF Elements
  <2>3. /\ SubSeq(IoLoops, 1, n) \in Seq(Elements(IoLoops))
        /\ Len(SubSeq(IoLoops, 1, n)) = n
        /\ \A i \in 1 .. n : SubSeq(IoLoops, 1, n)[i] = IoLoops[i]
    BY <2>1, <2>2, SubSeqProperties
  <2> QED
    BY <2>2, <2>3 DEF Elements
<1>3. ASSUME TypeOK
      PROVE  /\ Elements(loops_) \subseteq Elements(IoLoops)
             /\ loops_ \in Seq(Elements(IoLoops))
             /\ get_next_loop \in {Base} \cup Elements(loops_)
             /\ next_loop_index \in Nat
             /\ Len(loops_) > 0 => next_loop_index < Len(loops_)
  <2>1. loops_ \in Seq(Elements(IoLoops)) /\ Elements(loops_) \subseteq Elements(IoLoops)
    BY <1>2, <1>3 DEF TypeOK
  <2>2. Len(loops_) \in Nat /\ next_idx_ \in Nat /\ (Len(loops_) > 0 => next_idx_ < Len(loops_))
    BY <1>3, <2>1 DEF TypeOK
  <2>3. loops_ # <<>> => Len(loops_) > 0
    BY <2>1, EmptySeq
  <2>4. get_next_loop \in {Base} \cup Elements(loops_)
    BY <2>2, <2>3 DEF get_next_loop, Elements
  <2>5. next_loop_index \in Nat /\ (Len(loops_) > 0 => next_loop_index < Len(loops_))
    <3>1. CASE Len(loops_) > 0
      <4>1. (next_idx_ + 1) % Len(loops_) \in 0 .. Len(loops_) - 1
        BY <2>2, <3>1
      <4> QED
        BY <2>2, <3>1, <4>1 DEF next_loop_index
    <3>2. CASE ~(Len(loops_) > 0)
      BY <2>2, <2>3, <3>2 DEF next_loop_index
    <3> QED
      BY <3>1, <3>2
  <2> QED
    BY <2>1, <2>4, <2>5
<1> QED
  BY <1>1, <1>3

\* queue_in_loop, whatever else the step does: the functor is at the end.
LEMMA Queued ==
    ASSUME TypeOK, NEW l \in Loops, NEW f \in Functors,
           pending' = [pending EXCEPT ![l] = Append(@, f)], batch' = batch
    PROVE  /\ pending' \in [Loops -> Seq(Functors)]
           /\ Unrun' = [Unrun EXCEPT ![l] = @ \cup {f}]
           /\ NotOvertaken /\ (f.op = "establish" => \A g \in Unrun[l] : g.conn # f.conn)
                => NotOvertaken'
<1>1. /\ pending \in [Loops -> Seq(Functors)] /\ pending[l] \in Seq(Functors)
      /\ pending' \in [Loops -> Seq(Functors)]
      /\ pending'[l] = Append(pending[l], f)
      /\ \A k \in Loops : k # l => pending'[k] = pending[k]
  BY AppendFunctor DEF TypeOK
<1>2. Elements(pending'[l]) = Elements(pending[l]) \cup {f}
  BY <1>1, AppendFunctor
<1>3. Unrun' = [Unrun EXCEPT ![l] = @ \cup {f}]
  BY <1>1, <1>2 DEF Unrun
<1>4. ASSUME NotOvertaken, f.op = "establish" => \A g \in Unrun[l] : g.conn # f.conn
      PROVE  NotOvertaken'
  <2>1. InOrder(pending'[l])
    BY <1>1, <1>4, AppendFunctor DEF NotOvertaken, Unrun
  <2>2. \A g \in Elements(pending'[l]), h \in Elements(batch[l]) : g.op = "establish" => h.conn # g.conn
    BY <1>2, <1>4 DEF NotOvertaken, Unrun
  <2> QED
    BY <1>1, <1>4, <2>1, <2>2 DEF NotOvertaken
<1> QED
  BY <1>1, <1>3, <1>4

\* A step that leaves the queues alone.
LEMMA QueuesSame ==
    ASSUME UNCHANGED <<pending, batch>>
    PROVE  Unrun' = Unrun /\ (NotOvertaken => NotOvertaken')
  BY DEF Unrun, NotOvertaken

\* The queue of a loop is dropped.
LEMMA Dropped ==
    ASSUME TypeOK, NEW l \in Loops, pending' = [pending EXCEPT ![l] = <<>>], batch' = batch
    PROVE  /\ pending' \in [Loops -> Seq(Functors)]
           /\ Unrun' = [Unrun EXCEPT ![l] = Elements(batch[l])]
           /\ NotOvertaken => NotOvertaken'
<1>1. /\ pending' \in [Loops -> Seq(Functors)]
      /\ pending'[l] = <<>>
      /\ \A k \in Loops : k # l => pending'[k] = pending[k]
  BY DEF TypeOK
<1>2. Unrun' = [Unrun EXCEPT ![l] = Elements(batch[l])]
  BY <1>1, EmptyElements DEF Unrun
<1>3. NotOvertaken => NotOvertaken'
  BY <1>1, EmptyElements DEF NotOvertaken
<1> QED
  BY <1>1, <1>2, <1>3

\* do_pending_functors takes the queue.
LEMMA Swapped ==
    ASSUME TypeOK, LoopInv, NEW l \in Loops, swap_functors(l)
    PROVE  /\ pending' \in [Loops -> Seq(Functors)] /\ batch' \in [Loops -> Seq(Functors)]
           /\ Unrun' = Unrun
           /\ NotOvertaken => NotOvertaken'
<1>1. batch[l] = <<>>
  BY DEF LoopInv, swap_functors
<1>2. /\ pending' \in [Loops -> Seq(Functors)] /\ batch' \in [Loops -> Seq(Functors)]
      /\ pending'[l] = <<>> /\ batch'[l] = pending[l]
      /\ \A k \in Loops : k # l => pending'[k] = pending[k] /\ batch'[k] = batch[k]
  BY DEF TypeOK, swap_functors
<1>3. Unrun' = Unrun
  BY <1>1, <1>2, EmptyElements DEF Unrun
<1>4. NotOvertaken => NotOvertaken'
  BY <1>2, EmptyElements DEF NotOvertaken
<1> QED
  BY <1>2, <1>3, <1>4

\* The first functor of the batch leaves it.
LEMMA Popped ==
    ASSUME TypeOK, NEW l \in Loops, batch[l] # <<>>,
           batch' = [batch EXCEPT ![l] = Tail(@)], pending' = pending
    PROVE  /\ batch' \in [Loops -> Seq(Functors)]
           /\ \A k \in Loops : k # l => Unrun'[k] = Unrun[k]
           /\ Unrun[l] = {Head(batch[l])} \cup Unrun'[l]
           /\ NotOvertaken => NotOvertaken'
<1>1. batch[l] \in Seq(Functors)
  BY DEF TypeOK
<1>2. /\ batch' \in [Loops -> Seq(Functors)] /\ batch'[l] = Tail(batch[l])
      /\ \A k \in Loops : k # l => batch'[k] = batch[k]
  BY <1>1, FirstFunctor DEF TypeOK
<1>3. Elements(batch[l]) = {Head(batch[l])} \cup Elements(batch'[l])
  BY <1>1, <1>2, FirstFunctor
<1>4. NotOvertaken => NotOvertaken'
  BY <1>1, <1>2, <1>3, FirstFunctor DEF NotOvertaken
<1> QED
  BY <1>2, <1>3, <1>4 DEF Unrun

\* A functor that runs finds no establish_conn of its connection behind it.
LEMMA NoneBehind ==
    ASSUME TypeOK, NotOvertaken, NEW l \in Loops, batch[l] # <<>>,
           batch' = [batch EXCEPT ![l] = Tail(@)],
           \A f \in Elements(pending'[l]) : f.op = "establish" => f \in Elements(pending[l])
    PROVE  /\ Head(batch[l]) \in Functors /\ Head(batch[l]) \in Unrun[l]
           /\ \A f \in Unrun'[l] : f.op = "establish" => f.conn # Head(batch[l]).conn
<1>1. batch[l] \in Seq(Functors) /\ batch'[l] = Tail(batch[l])
  BY DEF TypeOK
<1>2. Head(batch[l]) \in Functors /\ Head(batch[l]) \in Elements(batch[l])
  BY <1>1, FirstFunctor
<1>3. \A f \in Elements(batch'[l]) : f.op = "establish" => f.conn # Head(batch[l]).conn
  BY <1>1, FirstFunctor DEF NotOvertaken
<1>4. \A f \in Elements(pending'[l]) : f.op = "establish" => f.conn # Head(batch[l]).conn
  BY <1>2 DEF NotOvertaken
<1> QED
  BY <1>2, <1>3, <1>4 DEF Unrun

\* A functor runs and queues another one, which is no establish_conn.
LEMMA PoppedQueued ==
    ASSUME TypeOK, NEW l \in Loops, NEW k \in Loops, NEW f \in Functors, f.op # "establish",
           batch[l] # <<>>, batch' = [batch EXCEPT ![l] = Tail(@)],
           pending' = [pending EXCEPT ![k] = Append(@, f)]
    PROVE  /\ pending' \in [Loops -> Seq(Functors)] /\ batch' \in [Loops -> Seq(Functors)]
           /\ Head(batch[l]) \in Functors /\ Head(batch[l]) \in Unrun[l]
           /\ \A m \in Loops : /\ Unrun'[m] \subseteq Unrun[m] \cup {f}
                               /\ m # k => Unrun'[m] \subseteq Unrun[m]
                               /\ Unrun[m] \subseteq Unrun'[m] \cup {Head(batch[l])}
                               /\ m # l => Unrun[m] \subseteq Unrun'[m]
           /\ f \in Unrun'[k]
           /\ NotOvertaken => NotOvertaken'
<1>1. /\ batch[l] \in Seq(Functors) /\ pending[k] \in Seq(Functors)
  BY DEF TypeOK
<1>2. /\ batch' \in [Loops -> Seq(Functors)] /\ batch'[l] = Tail(batch[l])
      /\ \A m \in Loops : m # l => batch'[m] = batch[m]
  BY <1>1, FirstFunctor DEF TypeOK
<1>3. /\ pending' \in [Loops -> Seq(Functors)] /\ pending'[k] = Append(pending[k], f)
      /\ \A m \in Loops : m # k => pending'[m] = pending[m]
  BY <1>1, AppendFunctor DEF TypeOK
<1>4. /\ Head(batch[l]) \in Functors
      /\ Elements(batch[l]) = {Head(batch[l])} \cup Elements(batch'[l])
  BY <1>1, <1>2, FirstFunctor
<1>5. Elements(pending'[k]) = Elements(pending[k]) \cup {f}
  BY <1>1, <1>3, AppendFunctor
<1>6. \A m \in Loops : Elements(batch'[m]) \subseteq Elements(batch[m])
  BY <1>2, <1>4
<1>7. ASSUME NotOvertaken PROVE NotOvertaken'
  <2>1. \A m \in Loops : InOrder(batch'[m]) /\ InOrder(pending'[m])
    BY <1>1, <1>2, <1>3, <1>7, AppendFunctor, FirstFunctor DEF NotOvertaken
  <2>2. ASSUME NEW m \in Loops, NEW g \in Elements(pending'[m]), NEW h \in Elements(batch'[m]),
               g.op = "establish"
        PROVE  h.conn # g.conn
    <3>1. g \in Elements(pending[m]) /\ h \in Elements(batch[m])
      BY <1>3, <1>5, <1>6, <2>2
    <3> QED
      BY <1>7, <2>2, <3>1 DEF NotOvertaken
  <2> QED
    BY <2>1, <2>2 DEF NotOvertaken
<1> QED
  BY <1>2, <1>3, <1>4, <1>5, <1>6, <1>7 DEF Unrun

\* Every functor that is queued, runs or has run is on the loop it is meant for.
Placed ==
    \A l \in Loops : \A f \in Unrun[l] \cup ran[l] :
        l = IF f.op = "remove" THEN Base ELSE io_loop[f.conn]

LEMMA TypePlaced == TypeOK => /\ Placed
                              /\ \A l \in Loops : Unrun[l] \in SUBSET Functors
<1>1. ASSUME TypeOK PROVE Placed
  BY <1>1 DEF TypeOK, Placed, Unrun
<1>2. ASSUME TypeOK, NEW l \in Loops PROVE Unrun[l] \in SUBSET Functors
  BY <1>2 DEF TypeOK, Unrun, Elements
<1> QED
  BY <1>1, <1>2

----------------------------------------------------------------------------
(* The invariant holds initially.                                          *)

LEMMA InitIInv == Init => IInv
<1> SUFFICES ASSUME Init PROVE IInv
  OBVIOUS
<1>1. loops_ = SubSeq(IoLoops, 1, 0)
  BY SubSeqEmpty DEF Init
<1>2. /\ Unrun = [l \in Loops |-> {}] /\ NotOvertaken
      /\ pending \in [Loops -> Seq(Functors)] /\ batch \in [Loops -> Seq(Functors)]
  BY EmptyElements DEF Init, Unrun, NotOvertaken
<1>3. TypeOK
  <2>1. /\ \E n \in PoolSizes \cup {0} : loops_ = SubSeq(IoLoops, 1, n)
        /\ next_idx_ \in Nat /\ (Len(loops_) > 0 => next_idx_ < Len(loops_))
    BY <1>1 DEF Init
  <2>2. \A l \in Loops : \A f \in Elements(pending[l]) \cup Elements(batch[l]) \cup ran[l] :
          l = IF f.op = "remove" THEN Base ELSE io_loop[f.conn]
    BY EmptyElements DEF Init
  <2>3. io_loop \in [Conns -> Loops] /\ downs \in [Conns -> 0 .. MaxCloses]
    BY LoopFacts DEF Init
  <2> QED
    BY <1>2, <2>1, <2>2, <2>3 DEF Init, TypeOK
<1>4. LoopInv
  BY LoopFacts DEF Init, LoopInv
<1>5. DownInv /\ OpenMeansMapped
  BY LoopFacts DEF Init, DownInv, OpenMeansMapped
<1>6. FreshInv /\ HoldInv /\ UserInv
  BY <1>2 DEF Init, FreshInv, HoldInv, UserInv
<1>7. SendInv
  <2>1. AllAhead(pending, batch, ClosedConns)
    BY EmptyElements DEF Init, AllAhead, Ahead
  <2> QED
    BY <1>2, <2>1 DEF Init, SendInv
<1> QED
  BY <1>2, <1>3, <1>4, <1>5, <1>6, <1>7 DEF IInv, CInv

----------------------------------------------------------------------------
(* Every step preserves it.  First the parts that a step leaves alone.     *)

LEMMA LoopSame ==
    ASSUME LoopInv, UNCHANGED <<phase, batch, active, io_loop, registered, downs,
                                started_, loops_, next_idx_>>
    PROVE  LoopInv'
  BY DEF LoopInv

LEMMA DownSame ==
    ASSUME DownInv, UNCHANGED <<server, phase, user, closer, quit_, loops_, pending, io_loop, registered>>
    PROVE  DownInv'
  BY DEF DownInv

LEMMA FreshSame ==
    ASSUME FreshInv, UNCHANGED <<state_, peer, conns_, registered, user, ran>>, Unrun' = Unrun
    PROVE  FreshInv'
  BY DEF FreshInv

LEMMA HoldSame ==
    ASSUME HoldInv, UNCHANGED <<state_, conns_, registered, io_loop, overwritten>>, Unrun' = Unrun
    PROVE  HoldInv'
  BY DEF HoldInv, Held

LEMMA MappedSame ==
    ASSUME OpenMeansMapped, UNCHANGED <<server, state_, conns_, overwritten>>
    PROVE  OpenMeansMapped'
  BY DEF OpenMeansMapped

\* start: no connection has another loop than the base loop before it.
LEMMA StartStep ==
    ASSUME IInv, NEW n \in PoolSizes, start(n)
    PROVE  CInv'
<1> USE DEF IInv, CInv
<1>1. Unrun' = Unrun /\ NotOvertaken'
  BY QueuesSame DEF start, loopVars
<1>2. CASE started_
  <2>1. UNCHANGED <<started_, loops_, listening>>
    BY <1>2 DEF start
  <2>2. TypeOK'
    BY <2>1 DEF TypeOK, start, connVars, loopVars
  <2> QED
    BY <1>1, <2>1, <2>2, LoopSame, DownSame, FreshSame, HoldSame, MappedSame
       DEF start, connVars, loopVars
<1>3. CASE ~started_
  <2>1. loops_ = <<>> /\ next_idx_ = 0 /\ loops_' = SubSeq(IoLoops, 1, n)
    BY <1>3 DEF LoopInv, start, pool_start
  <2>2. \A c \in Conns : io_loop[c] = Base
    BY <2>1, EmptyElements DEF LoopInv
  <2>3. n \in 0 .. Len(IoLoops) /\ Len(IoLoops) \in Nat
    OBVIOUS
  <2>4. Len(loops_') = n
    <3>1. \A i \in 1 .. n : IoLoops[i] \in Elements(IoLoops)
      BY <2>3 DEF Elements
    <3> QED
      BY <2>1, <2>3, <3>1, SubSeqProperties
  <2>5. TypeOK'
    BY <1>3, <2>1, <2>3, <2>4 DEF TypeOK, start, listen, connVars, loopVars
  <2>6. LoopInv'
    BY <2>1, <2>2 DEF LoopInv, start, connVars, loopVars
  <2>7. DownInv'
    BY DEF DownInv, start, connVars, loopVars
  <2> QED
    BY <1>1, <2>5, <2>6, <2>7, FreshSame, HoldSame, MappedSame DEF start, connVars, loopVars
<1> QED
  BY <1>2, <1>3

\* epoll_wait reports channels that are registered.
LEMMA PollStep ==
    ASSUME IInv, NEW l \in Loops, poll(l)
    PROVE  CInv'
<1> USE DEF IInv, CInv
<1>1. Unrun' = Unrun /\ NotOvertaken'
  BY QueuesSame DEF poll
<1>2. UNCHANGED <<server, user, closer, overwritten, quit_, loops_, pending, io_loop, registered, downs, started_,
                  next_idx_, state_, peer, conns_, ran, batch>>
  BY DEF poll, serverVars, startVars, connVars
<1>3. TypeOK'
  <2>1. ReadyChans(l) \in SUBSET (Conns \cup {Acceptor})
    BY DEF ReadyChans
  <2> QED
    BY <2>1 DEF TypeOK, poll, serverVars, startVars, connVars
<1>4. LoopInv'
  <2>1. ASSUME NEW k \in Loops, NEW c \in Conns, c \in active'[k]
        PROVE  phase'[k] = "handle" /\ io_loop[c] = k /\ registered[c] /\ downs[c] < MaxCloses
    BY <2>1 DEF LoopInv, poll, TypeOK, ReadyChans, Ready
  <2>2. \A k \in Loops : phase'[k] # "functors" => batch[k] = <<>>
    BY DEF LoopInv, poll, TypeOK
  <2> QED
    BY <1>2, <2>1, <2>2 DEF LoopInv
<1>5. DownInv'
  BY <1>2 DEF DownInv, poll, TypeOK
<1> QED
  BY <1>1, <1>2, <1>3, <1>4, <1>5, FreshSame, HoldSame, MappedSame

\* The swap loses nothing and keeps the order.
LEMMA SwapStep ==
    ASSUME IInv, NEW l \in Loops, swap_functors(l)
    PROVE  CInv'
<1> USE DEF IInv, CInv
<1>1. /\ pending' \in [Loops -> Seq(Functors)] /\ batch' \in [Loops -> Seq(Functors)]
      /\ Unrun' = Unrun /\ NotOvertaken'
  BY Swapped
<1>2. UNCHANGED <<server, user, closer, overwritten, quit_, loops_, io_loop, registered, downs, started_,
                  next_idx_, state_, peer, conns_, ran, active>>
  BY DEF swap_functors, serverVars, startVars, connVars
<1>3. TypeOK'
  <2>1. \A k \in Loops : \A f \in Elements(pending'[k]) \cup Elements(batch'[k]) \cup ran[k] :
          k = IF f.op = "remove" THEN Base ELSE io_loop[f.conn]
    BY <1>1, TypePlaced DEF Placed, Unrun
  <2> QED
    BY <1>1, <2>1 DEF TypeOK, swap_functors, serverVars, startVars, connVars
<1>4. LoopInv'
  <2>1. ASSUME NEW k \in Loops, NEW c \in Conns, c \in active[k]
        PROVE  phase'[k] = "handle" /\ io_loop[c] = k /\ registered[c] /\ downs[c] < MaxCloses
    BY <2>1 DEF LoopInv, swap_functors, TypeOK
  <2>2. \A k \in Loops : phase'[k] # "functors" => batch'[k] = <<>>
    BY DEF LoopInv, swap_functors, TypeOK
  <2> QED
    BY <1>2, <2>1, <2>2 DEF LoopInv
<1>5. DownInv'
  BY <1>2 DEF DownInv, swap_functors, TypeOK
<1> QED
  BY <1>1, <1>2, <1>3, <1>4, <1>5, FreshSame, HoldSame, MappedSame

\* A batch ends, and the loop with it when it was told to quit: what a loop of the
\* pool drops then concerns its own connections only, which leave its epoll set.
LEMMA EndStep ==
    ASSUME IInv, NEW l \in Loops, end_functors(l)
    PROVE  CInv'
<1> USE DEF IInv, CInv
<1>1. UNCHANGED <<server, user, closer, overwritten, quit_, loops_, io_loop, downs, started_,
                  next_idx_, state_, peer, conns_, active, batch>>
  BY DEF end_functors, serverVars, startVars
<1>2. CASE l \in quit_ /\ l # Base
  <2>1. /\ pending' = [pending EXCEPT ![l] = <<>>]
        /\ registered' = [c \in Conns |-> registered[c] /\ io_loop[c] # l]
        /\ phase' = [phase EXCEPT ![l] = "exited"]
        /\ ran' = [ran EXCEPT ![l] = {}]
        /\ batch[l] = <<>> /\ phase[l] = "functors"
    BY <1>2 DEF end_functors, exit_loop
  <2>2. /\ pending' \in [Loops -> Seq(Functors)]
        /\ Unrun' = [Unrun EXCEPT ![l] = {}] /\ NotOvertaken'
    BY <1>1, <2>1, Dropped, EmptyElements
  <2>3. Unrun'[l] = {} /\ \A k \in Loops : k # l => Unrun'[k] = Unrun[k]
    BY <2>2 DEF Unrun
  <2>4. TypeOK'
    <3>1. \A k \in Loops : \A f \in Unrun'[k] \cup ran'[k] :
            k = IF f.op = "remove" THEN Base ELSE io_loop[f.conn]
      BY <2>1, <2>3, TypePlaced DEF Placed, TypeOK
    <3>2. \A k \in Loops : \A f \in Elements(pending'[k]) \cup Elements(batch'[k]) \cup ran'[k] :
            k = IF f.op = "remove" THEN Base ELSE io_loop[f.conn]
      BY <3>1 DEF Unrun
    <3>3. /\ registered' \in [Conns -> BOOLEAN] /\ ran' \in [Loops -> SUBSET Functors]
          /\ phase' \in [Loops -> {"poll", "handle", "functors", "exited"}]
      BY <2>1 DEF TypeOK
    <3> QED
      BY <2>2, <3>2, <3>3 DEF TypeOK, end_functors, serverVars, startVars
  <2>5. LoopInv'
    <3>1. ASSUME NEW k \in Loops, NEW c \in Conns, c \in active[k]
          PROVE  phase'[k] = "handle" /\ io_loop[c] = k /\ registered'[c] /\ downs[c] < MaxCloses
      BY <2>1, <3>1 DEF LoopInv, TypeOK
    <3>2. \A k \in Loops : phase'[k] # "functors" => batch[k] = <<>>
      BY <2>1 DEF LoopInv, TypeOK
    <3> QED
      BY <1>1, <3>1, <3>2 DEF LoopInv
  <2>6. DownInv'
    <3>1. \A c \in Conns : registered'[c] => registered[c] /\ io_loop[c] # l
      BY <2>1
    <3>2. \A k \in Loops : k # l => phase'[k] = phase[k] /\ pending'[k] = pending[k]
      BY <2>1 DEF TypeOK
    <3>3. phase'[l] = "exited" /\ pending'[l] = <<>> /\ l # Base /\ l \in quit_
      BY <1>2, <2>1 DEF TypeOK
    <3>4. /\ Base \in Loops /\ \A c \in Conns : io_loop[c] \in Loops
          /\ Elements(loops_) \subseteq Loops
      BY LoopFacts DEF TypeOK, Loops
    <3> QED
      BY <1>1, <3>1, <3>2, <3>3, <3>4 DEF DownInv
  <2>7. FreshInv'
    <3>1. \A c \in Conns : registered'[c] => registered[c]
      BY <2>1
    <3>2. \A k \in Loops : Unrun'[k] \cup ran'[k] \subseteq Unrun[k] \cup ran[k]
      BY <2>1, <2>3 DEF TypeOK
    <3> QED
      BY <1>1, <3>1, <3>2 DEF FreshInv
  <2>8. HoldInv'
    <3>1. ASSUME NEW c \in Conns, registered'[c], c \notin overwritten PROVE Held(c)'
      <4>1. registered[c] /\ io_loop[c] # l /\ io_loop[c] \in Loops
        BY <2>1, <3>1 DEF TypeOK
      <4>2. Unrun'[Base] = Unrun[Base] /\ Unrun'[io_loop[c]] = Unrun[io_loop[c]]
        BY <1>2, <2>3, <4>1, LoopFacts
      <4> QED
        BY <1>1, <3>1, <4>1, <4>2 DEF HoldInv, Held
    <3>2. ASSUME NEW c \in Conns, state_[c] = "CONNENTING" PROVE ~registered'[c]
      BY <2>1, <3>2 DEF HoldInv
    <3>3. ASSUME NEW k \in Loops, NEW f \in Unrun'[k]
          PROVE  k # l /\ f \in Unrun[k] /\ Unrun'[k] = Unrun[k]
      BY <2>3, <3>3
    <3> QED
      BY <1>1, <3>1, <3>2, <3>3 DEF HoldInv
  <2> QED
    BY <1>1, <2>2, <2>4, <2>5, <2>6, <2>7, <2>8, MappedSame
<1>3. CASE ~(l \in quit_ /\ l # Base)
  <2>1. /\ UNCHANGED <<pending, registered>>
        /\ ran' = [ran EXCEPT ![l] = {}]
        /\ batch[l] = <<>> /\ phase[l] = "functors"
    BY <1>3 DEF end_functors, exit_loop
  <2>2. PICK p \in {"poll", "exited"} : phase' = [phase EXCEPT ![l] = p] /\ (p = "exited" => l = Base /\ l \in quit_)
    BY <1>3 DEF end_functors, exit_loop
  <2>3. Unrun' = Unrun /\ NotOvertaken'
    BY <1>1, <2>1, QueuesSame
  <2>4. TypeOK'
    <3>1. \A k \in Loops : \A f \in Elements(pending[k]) \cup Elements(batch[k]) \cup ran'[k] :
            k = IF f.op = "remove" THEN Base ELSE io_loop[f.conn]
      BY <2>1 DEF TypeOK
    <3>2. ran' \in [Loops -> SUBSET Functors] /\ phase' \in [Loops -> {"poll", "handle", "functors", "exited"}]
      BY <2>1, <2>2 DEF TypeOK
    <3> QED
      BY <2>1, <3>1, <3>2 DEF TypeOK, end_functors, serverVars, startVars
  <2>5. LoopInv'
    <3>1. ASSUME NEW k \in Loops, NEW c \in Conns, c \in active[k]
          PROVE  phase'[k] = "handle" /\ io_loop[c] = k /\ registered[c] /\ downs[c] < MaxCloses
      BY <2>1, <2>2, <3>1 DEF LoopInv, TypeOK
    <3>2. \A k \in Loops : phase'[k] # "functors" => batch[k] = <<>>
      BY <2>1, <2>2 DEF LoopInv, TypeOK
    <3> QED
      BY <1>1, <2>1, <3>1, <3>2 DEF LoopInv
  <2>6. DownInv'
    <3>1. \A k \in Loops : phase'[k] = "exited" => phase[k] = "exited" \/ (k = Base /\ k \in quit_)
      BY <2>2 DEF TypeOK
    <3>2. \A k \in Loops : phase[k] = "exited" => phase'[k] = "exited"
      BY <2>1, <2>2 DEF TypeOK
    <3>3. /\ Base \in Loops /\ \A c \in Conns : io_loop[c] \in Loops
          /\ Elements(loops_) \subseteq Loops
      BY LoopFacts DEF TypeOK, Loops
    <3> QED
      BY <1>1, <2>1, <3>1, <3>2, <3>3 DEF DownInv
  <2>7. FreshInv'
    BY <1>1, <2>1, <2>3 DEF FreshInv, TypeOK
  <2> QED
    BY <1>1, <2>1, <2>3, <2>4, <2>5, <2>6, <2>7, HoldSame, MappedSame
<1> QED
  BY <1>2, <1>3

\* new_conn, on the base loop or another: a connection that has left no trace is
\* entered in the map before its channel is registered.
LEMMA AcceptStep ==
    ASSUME IInv, accept
    PROVE  CInv'
<1> USE DEF IInv, CInv
<1>1. /\ UNCHANGED <<startVars, writing, downs, phase, batch, ran, user, closer, overwritten>>
      /\ UNCHANGED <<server, quit_, loops_, started_, fd_limit, listening>>
      /\ active' = [active EXCEPT ![Base] = @ \ {Acceptor}] /\ phase[Base] = "handle"
  BY DEF accept, startVars
<1>2. Base \in Loops /\ \A l \in Loops : active'[l] \cap Conns = active[l] \cap Conns
  BY <1>1, LoopFacts DEF TypeOK
<1>3. active' \in [Loops -> SUBSET (Conns \cup {Acceptor})]
  BY <1>1 DEF TypeOK
<1>4. server = "up" /\ \A l \in Loops : phase[l] = "exited" => l = Base
  BY <1>1 DEF DownInv
<1>5. CASE ~can_accept
  <2>1. UNCHANGED <<peer, next_idx_, conns_, io_loop, state_, reading, writing, registered, pending>>
    BY <1>5 DEF accept
  <2>2. Unrun' = Unrun /\ NotOvertaken'
    BY <1>1, <2>1, QueuesSame
  <2>3. TypeOK'
    BY <1>1, <1>3, <2>1 DEF TypeOK
  <2>4. LoopInv'
    <3>1. \A l \in Loops, c \in Conns : c \in active'[l] => c \in active[l]
      BY <1>2
    <3> QED
      BY <1>1, <2>1, <3>1 DEF LoopInv
  <2> QED
    BY <1>1, <2>1, <2>2, <2>3, <2>4, DownSame, FreshSame, HoldSame, MappedSame
<1>6. CASE can_accept
  <2>1. PICK c \in Conns : /\ peer[c] = "backlog"
                           /\ peer' = [peer EXCEPT ![c] = "open"]
                           /\ new_conn(c)
    BY <1>6 DEF accept
  <2>2. /\ state_[c] = "none" /\ c \notin conns_ /\ ~registered[c] /\ user[c] = "none"
        /\ \A l \in Loops : \A f \in Unrun[l] \cup ran[l] : f.conn # c
    BY <2>1 DEF FreshInv
  <2>3. PICK l \in {Base} \cup Elements(loops_) : l = get_next_loop
    BY LoopFacts
  <2>4. l \in Loops /\ (l = Base \/ phase[l] # "exited")
    BY <1>4, LoopFacts DEF Loops
  <2>5. /\ next_idx_' = next_loop_index /\ conns_' = conns_ \cup {c}
        /\ io_loop' = [io_loop EXCEPT ![c] = l]
    BY <2>1, <2>3 DEF new_conn, mapped
  <2>6. /\ next_idx_' \in Nat /\ (Len(loops_) > 0 => next_idx_' < Len(loops_))
        /\ loops_ = <<>> => next_idx_' = next_idx_
    BY <2>5, LoopFacts DEF next_loop_index
  <2>7. \A d \in Conns : /\ d # c => io_loop'[d] = io_loop[d] /\ peer'[d] = peer[d]
                         /\ io_loop'[c] = l /\ peer'[c] = "open"
    BY <2>1, <2>5 DEF TypeOK
  <2>8. \A k \in Loops : c \notin active[k]
    BY <2>2 DEF LoopInv
  <2>9. ASSUME NEW s \in {"CONNENTING", "CONNECTED"}, state_' = [state_ EXCEPT ![c] = s],
               NEW r \in BOOLEAN, registered' = [registered EXCEPT ![c] = r],
               reading' \in [Conns -> BOOLEAN] /\ writing' \in [Conns -> BOOLEAN],
               r => s = "CONNECTED",
               pending' \in [Loops -> Seq(Functors)], NotOvertaken',
               \A k \in Loops : /\ Unrun[k] \subseteq Unrun'[k]
                                /\ Unrun'[k] \subseteq Unrun[k] \cup {Functor("establish", c)},
               \A k \in Loops : Functor("establish", c) \in Unrun'[k] =>
                                  k = l /\ l # Base /\ s = "CONNENTING",
               \A k \in Loops : phase[k] = "exited" => pending'[k] = pending[k]
        PROVE  CInv'
    <3>1. \A d \in Conns : /\ d # c => state_'[d] = state_[d] /\ registered'[d] = registered[d]
                           /\ state_'[c] = s /\ registered'[c] = r
      BY <2>9 DEF TypeOK
    <3>2. Functor("establish", c).op = "establish" /\ Functor("establish", c).conn = c
      BY DEF Functor
    <3>3. Placed'
      <4> SUFFICES ASSUME NEW k \in Loops, NEW f \in Unrun'[k] \cup ran[k]
                   PROVE  k = IF f.op = "remove" THEN Base ELSE io_loop'[f.conn]
        BY <1>1 DEF Placed
      <4>1. CASE f = Functor("establish", c)
        <5>1. f \in Unrun'[k]
          BY <2>2, <3>2, <4>1
        <5> QED
          BY <2>7, <2>9, <3>2, <4>1, <5>1
      <4>2. CASE f # Functor("establish", c)
        <5>1. f \in Unrun[k] \cup ran[k] /\ f.conn # c /\ f \in Functors
          BY <2>2, <2>9, <4>2, TypePlaced DEF TypeOK
        <5>2. f.conn \in Conns
          BY <5>1 DEF Functors
        <5> QED
          BY <2>7, <5>1, <5>2, TypePlaced DEF Placed
      <4> QED
        BY <4>1, <4>2
    <3>4. TypeOK'
      <4>1. \A k \in Loops : \A f \in Elements(pending'[k]) \cup Elements(batch'[k]) \cup ran'[k] :
              k = IF f.op = "remove" THEN Base ELSE io_loop'[f.conn]
        BY <3>3 DEF Placed, Unrun
      <4>2. /\ state_' \in [Conns -> States]
            /\ registered' \in [Conns -> BOOLEAN]
            /\ io_loop' \in [Conns -> Loops] /\ conns_' \subseteq Conns
            /\ peer' \in [Conns -> {"none", "backlog", "open", "fin", "reset"}]
        BY <2>1, <2>4, <2>5, <2>9 DEF TypeOK
      <4> QED
        BY <1>1, <1>3, <2>6, <2>9, <4>1, <4>2 DEF TypeOK
    <3>5. LoopInv'
      <4>1. ASSUME NEW k \in Loops, NEW d \in Conns, d \in active'[k]
            PROVE  phase[k] = "handle" /\ io_loop'[d] = k /\ registered'[d] /\ downs[d] < MaxCloses
        <5>1. d \in active[k] /\ d # c
          BY <1>2, <2>8, <4>1
        <5> QED
          BY <2>7, <3>1, <5>1 DEF LoopInv
      <4>2. \A d \in Conns : io_loop'[d] \in {Base} \cup Elements(loops_)
        BY <2>7 DEF LoopInv
      <4> QED
        BY <1>1, <2>6, <4>1, <4>2 DEF LoopInv
    <3>6. DownInv'
      <4>1. \A d \in Conns : ~(phase[io_loop'[d]] = "exited" /\ io_loop'[d] # Base)
        BY <1>4, <2>4, <2>7 DEF TypeOK
      <4>2. \A k \in Loops : ~(phase[k] = "exited" /\ k # Base)
        BY <1>4
      <4> QED
        BY <1>1, <1>4, <4>1, <4>2 DEF DownInv
    <3>7. FreshInv'
      <4>1. ASSUME NEW d \in Conns
            PROVE  /\ state_'[d] = "none" <=> peer'[d] \in {"none", "backlog"}
                   /\ state_'[d] = "none" =>
                        /\ d \notin conns_' /\ ~registered'[d] /\ user[d] = "none"
                        /\ \A k \in Loops : \A f \in Unrun'[k] \cup ran[k] : f.conn # d
        <5>1. CASE d = c
          BY <2>7, <3>1, <5>1
        <5>2. CASE d # c
          BY <2>5, <2>7, <2>9, <3>1, <3>2, <5>2 DEF FreshInv
        <5> QED
          BY <5>1, <5>2
      <4> QED
        BY <1>1, <4>1 DEF FreshInv
    <3>8. HoldInv'
      <4>1. ASSUME NEW d \in Conns, registered'[d], d \notin overwritten PROVE Held(d)'
        <5>1. CASE d = c
          BY <2>5, <5>1 DEF Held
        <5>2. CASE d # c
          <6>1. Held(d) /\ io_loop'[d] = io_loop[d] /\ io_loop[d] \in Loops
            BY <2>7, <3>1, <4>1, <5>2 DEF HoldInv, TypeOK
          <6> QED
            BY <1>2, <2>5, <2>9, <6>1 DEF Held
        <5> QED
          BY <5>1, <5>2
      <4>2. ASSUME NEW k \in Loops, NEW f \in Unrun'[k]
            PROVE  /\ f.op = "remove" => Closed(f.conn)'
                   /\ f.op = "establish" =>
                        /\ k # Base /\ state_'[f.conn] = "CONNENTING"
                        /\ f.conn \in conns_' \/ Functor("destroy", f.conn) \in Unrun'[k]
        <5>1. CASE f = Functor("establish", c)
          BY <2>5, <2>9, <3>1, <3>2, <4>2, <5>1
        <5>2. CASE f # Functor("establish", c)
          <6>1. f \in Unrun[k] /\ f.conn # c /\ f \in Functors
            BY <2>2, <2>9, <4>2, <5>2, TypePlaced
          <6>2. state_'[f.conn] = state_[f.conn]
            BY <3>1, <6>1 DEF Functors
          <6> QED
            BY <1>1, <2>5, <2>9, <6>1, <6>2 DEF HoldInv
        <5> QED
          BY <5>1, <5>2
      <4>3. \A d \in Conns : state_'[d] = "CONNENTING" => ~registered'[d]
        BY <2>9, <3>1 DEF HoldInv
      <4> QED
        BY <1>1, <4>1, <4>2, <4>3 DEF HoldInv
    <3>9. OpenMeansMapped'
      BY <1>1, <1>4, <2>5, <3>1 DEF OpenMeansMapped
    <3> QED
      BY <2>9, <3>4, <3>5, <3>6, <3>7, <3>8, <3>9
  <2>10. CASE l = Base
    <3>1. established(c) /\ UNCHANGED pending
      BY <2>1, <2>3, <2>10 DEF new_conn
    <3>2. /\ state_' = [state_ EXCEPT ![c] = "CONNECTED"]
          /\ registered' = [registered EXCEPT ![c] = TRUE]
          /\ reading' \in [Conns -> BOOLEAN] /\ writing' \in [Conns -> BOOLEAN]
      BY <1>1, <3>1 DEF established, update_chan, TypeOK
    <3>3. Unrun' = Unrun /\ NotOvertaken' /\ pending' \in [Loops -> Seq(Functors)]
      BY <1>1, <3>1, QueuesSame DEF TypeOK
    <3>4. \A k \in Loops : Functor("establish", c) \notin Unrun'[k]
      BY <2>2, <3>3 DEF Functor
    <3> QED
      BY <2>9, <3>1, <3>2, <3>3, <3>4
  <2>11. CASE l # Base
    <3>1. /\ state_' = [state_ EXCEPT ![c] = "CONNENTING"]
          /\ pending' = [pending EXCEPT ![l] = Append(@, Functor("establish", c))]
          /\ UNCHANGED <<reading, registered>>
      BY <2>1, <2>3, <2>11 DEF new_conn, queue_in_loop
    <3>2. PICK e \in Functors : e = Functor("establish", c) /\ e.op = "establish" /\ e.conn = c
      <4>1. "establish" \in Ops
        BY DEF Ops
      <4> QED
        BY <4>1, FunctorFields
    <3>3. \A g \in Unrun[l] : g.conn # c
      BY <2>2, <2>4
    <3>4. /\ pending' \in [Loops -> Seq(Functors)]
          /\ Unrun' = [Unrun EXCEPT ![l] = @ \cup {e}]
          /\ NotOvertaken'
      <4>1. TypeOK /\ NotOvertaken /\ batch' = batch /\ pending' = [pending EXCEPT ![l] = Append(@, e)]
        BY <1>1, <3>1, <3>2
      <4>2. e.op = "establish" => \A g \in Unrun[l] : g.conn # e.conn
        BY <3>2, <3>3
      <4> HIDE DEF IInv
      <4> QED
        BY <2>4, <4>1, <4>2, Queued
    <3>5. \A k \in Loops : /\ Unrun'[k] = IF k = l THEN Unrun[k] \cup {e} ELSE Unrun[k]
                           /\ e \notin Unrun[k]
      BY <2>2, <3>2, <3>4 DEF Unrun
    <3>6. \A k \in Loops : phase[k] = "exited" => pending'[k] = pending[k]
      BY <2>4, <2>11, <3>1 DEF TypeOK
    <3>7. registered' = [registered EXCEPT ![c] = FALSE] /\ reading' \in [Conns -> BOOLEAN] /\ writing' \in [Conns -> BOOLEAN]
      BY <1>1, <2>2, <3>1 DEF TypeOK
    <3>8. \A k \in Loops : /\ Unrun[k] \subseteq Unrun'[k]
                           /\ Unrun'[k] \subseteq Unrun[k] \cup {Functor("establish", c)}
                           /\ Functor("establish", c) \in Unrun'[k] => k = l
      BY <3>2, <3>5
    <3> QED
      BY <2>9, <2>11, <3>1, <3>4, <3>6, <3>7, <3>8
  <2> QED
    BY <2>10, <2>11
<1> QED
  BY <1>5, <1>6

\* handle_close, on the base loop or another: from now on a functor on the base
\* loop keeps the connection, whether the map does or not.
LEMMA EventStep ==
    ASSUME IInv, NEW l \in Loops, NEW c \in Conns, handle_event(l, c)
    PROVE  CInv'
<1> USE DEF IInv, CInv
<1>1. /\ UNCHANGED <<server, quit_, loops_, started_, fd_limit, listening>>
      /\ UNCHANGED <<next_idx_, peer, io_loop, phase, batch, ran, user, closer, overwritten>>
      /\ active' = [active EXCEPT ![l] = @ \ {c}] /\ phase[l] = "handle" /\ c \in active[l]
  BY DEF handle_event, startVars
<1>2. io_loop[c] = l /\ registered[c] /\ downs[c] < MaxCloses
  BY <1>1 DEF LoopInv
<1>3. /\ active' \in [Loops -> SUBSET (Conns \cup {Acceptor})]
      /\ \A k \in Loops : active'[k] \subseteq active[k]
      /\ \A k \in Loops : c \notin active'[k]
  BY <1>1, <1>2 DEF TypeOK, LoopInv
<1>4. CASE ~alive(c)
  <2>1. UNCHANGED <<state_, reading, writing, downs, registered, pending, conns_>>
    BY <1>4 DEF handle_event
  <2>2. Unrun' = Unrun /\ NotOvertaken'
    BY <1>1, <2>1, QueuesSame
  <2>3. TypeOK'
    BY <1>1, <1>3, <2>1 DEF TypeOK
  <2>4. LoopInv'
    BY <1>1, <1>3, <2>1 DEF LoopInv
  <2> QED
    BY <1>1, <2>1, <2>2, <2>3, <2>4, DownSame, FreshSame, HoldSame, MappedSame
<1>5. CASE alive(c)
  <2>1. handle_close(l, c)
    BY <1>5 DEF handle_event
  <2>2. /\ state_' = [state_ EXCEPT ![c] = "DISCONNECTED"]
        /\ reading' = [reading EXCEPT ![c] = FALSE] /\ writing' = [writing EXCEPT ![c] = FALSE]
        /\ downs' = [downs EXCEPT ![c] = @ + 1]
        /\ registered' = [registered EXCEPT ![c] = TRUE]
    BY <2>1 DEF handle_close, update_chan
  <2>3. PICK f \in Functors :
          /\ pending' = [pending EXCEPT ![Base] = Append(@, f)]
          /\ f.conn = c /\ f.op \in {"remove", "destroy"}
          /\ f = Functor(f.op, c)
          /\ f.op = "destroy" => l = Base
          /\ conns_ \ {c} \subseteq conns_' /\ conns_' \subseteq conns_
    <3>1. "remove" \in Ops /\ "destroy" \in Ops
      BY DEF Ops
    <3>2. CASE l = Base
      <4>1. conns_' = conns_ \ {c} /\ pending' = [pending EXCEPT ![Base] = Append(@, Functor("destroy", c))]
        BY <1>2, <2>1, <3>2 DEF handle_close, remove_conn, remove_conn_in_loop, erased, destroy_loop, queue_in_loop
      <4>2. PICK e \in Functors : e = Functor("destroy", c) /\ e.op = "destroy" /\ e.conn = c
        BY Removal
      <4> QED
        BY <3>2, <4>1, <4>2
    <3>3. CASE l # Base
      <4>1. conns_' = conns_ /\ pending' = [pending EXCEPT ![Base] = Append(@, Functor("remove", c))]
        BY <2>1, <3>3 DEF handle_close, remove_conn, queue_in_loop
      <4>2. PICK e \in Functors : e = Functor("remove", c) /\ e.op = "remove" /\ e.conn = c
        BY <3>1, FunctorFields
      <4> QED
        BY <4>1, <4>2
    <3> QED
      BY <3>2, <3>3
  <2>4. /\ pending' \in [Loops -> Seq(Functors)]
        /\ Unrun' = [Unrun EXCEPT ![Base] = @ \cup {f}] /\ NotOvertaken'
    <3>1. Base \in Loops /\ TypeOK /\ NotOvertaken /\ batch' = batch /\ f.op # "establish"
      BY <1>1, <2>3, LoopFacts
    <3> HIDE DEF IInv
    <3> QED
      BY <2>3, <3>1, Queued
  <2>5. /\ Base \in Loops
        /\ \A k \in Loops : Unrun'[k] = IF k = Base THEN Unrun[k] \cup {f} ELSE Unrun[k]
        /\ \A k \in Loops : k # Base => pending'[k] = pending[k]
    BY <2>3, <2>4, LoopFacts DEF Unrun, TypeOK
  <2>6. \A d \in Conns : /\ registered'[d] <=> registered[d]
                         /\ d # c => state_'[d] = state_[d] /\ downs'[d] = downs[d]
                         /\ state_'[c] = "DISCONNECTED"
    <3>1. \A d \in Conns : registered'[d] = IF d = c THEN TRUE ELSE registered[d]
      BY <2>2 DEF TypeOK
    <3> QED
      BY <1>2, <2>2, <3>1 DEF TypeOK
  <2>7. TypeOK'
    <3>1. \A k \in Loops : \A g \in Unrun'[k] \cup ran[k] :
            k = IF g.op = "remove" THEN Base ELSE io_loop[g.conn]
      <4>1. Base = IF f.op = "remove" THEN Base ELSE io_loop[f.conn]
        BY <1>2, <2>3
      <4>2. \A k \in Loops : \A g \in Unrun[k] \cup ran[k] :
              k = IF g.op = "remove" THEN Base ELSE io_loop[g.conn]
        BY TypePlaced DEF Placed
      <4>3. ASSUME NEW k \in Loops, NEW g \in Unrun'[k] \cup ran[k]
            PROVE  (g = f /\ k = Base) \/ g \in Unrun[k] \cup ran[k]
        BY <2>5
      <4> HIDE DEF IInv
      <4> QED
        BY <4>1, <4>2, <4>3
    <3>2. \A k \in Loops : \A g \in Elements(pending'[k]) \cup Elements(batch'[k]) \cup ran'[k] :
            k = IF g.op = "remove" THEN Base ELSE io_loop'[g.conn]
      BY <1>1, <3>1 DEF Unrun
    <3>3. /\ state_' \in [Conns -> States]
          /\ reading' \in [Conns -> BOOLEAN] /\ writing' \in [Conns -> BOOLEAN] /\ registered' \in [Conns -> BOOLEAN]
          /\ conns_' \subseteq Conns
      BY <2>2, <2>3 DEF TypeOK
    <3>4. downs' \in [Conns -> 0 .. MaxCloses]
      BY <1>2, <2>2 DEF TypeOK
    <3> QED
      BY <1>1, <1>3, <2>4, <3>2, <3>3, <3>4 DEF TypeOK
  <2>8. LoopInv'
    <3>1. \A k \in Loops : \A d \in Conns : d \in active'[k] => d # c /\ d \in active[k]
      BY <1>3
    <3> QED
      BY <1>1, <2>6, <3>1 DEF LoopInv
  <2>9. DownInv'
    BY <1>1, <2>5, <2>6 DEF DownInv
  <2>10. state_[c] # "none" /\ state_[c] # "CONNENTING" /\ peer[c] \notin {"none", "backlog"}
    BY <1>2 DEF FreshInv, HoldInv
  <2>11. FreshInv'
    <3>1. ASSUME NEW d \in Conns
          PROVE  /\ state_'[d] = "none" <=> peer[d] \in {"none", "backlog"}
                 /\ state_'[d] = "none" =>
                      /\ d \notin conns_' /\ ~registered'[d] /\ user[d] = "none"
                      /\ \A k \in Loops : \A g \in Unrun'[k] \cup ran[k] : g.conn # d
      <4>1. CASE d = c
        BY <2>6, <2>10, <4>1
      <4>2. CASE d # c
        <5>1. f.conn # d /\ (d \in conns_' => d \in conns_)
          BY <2>3, <4>2
        <5>2. state_'[d] = state_[d] /\ (registered'[d] <=> registered[d])
          BY <2>6, <4>2
        <5>3. ASSUME NEW k \in Loops, NEW g \in Unrun'[k] \cup ran[k]
              PROVE  g = f \/ g \in Unrun[k] \cup ran[k]
          BY <2>5
        <5>4. /\ state_[d] = "none" <=> peer[d] \in {"none", "backlog"}
              /\ state_[d] = "none" =>
                   /\ d \notin conns_ /\ ~registered[d] /\ user[d] = "none"
                   /\ \A k \in Loops : \A g \in Unrun[k] \cup ran[k] : g.conn # d
          BY DEF FreshInv
        <5> HIDE DEF IInv
        <5> QED
          BY <5>1, <5>2, <5>3, <5>4
      <4> QED
        BY <4>1, <4>2
    <3> QED
      BY <1>1, <3>1 DEF FreshInv
  <2>12. HoldInv'
    <3>1. ASSUME NEW d \in Conns, registered'[d], d \notin overwritten PROVE Held(d)'
      <4>1. CASE d = c
        <5>1. f = Functor("remove", c) \/ (f = Functor("destroy", c) /\ io_loop[c] = Base)
          BY <1>2, <2>3
        <5> QED
          BY <1>1, <2>5, <4>1, <5>1 DEF Held
      <4>2. CASE d # c
        <5>1. Held(d) /\ io_loop[d] \in Loops
          BY <2>6, <3>1 DEF HoldInv, TypeOK
        <5> QED
          BY <1>1, <2>3, <2>5, <4>2, <5>1 DEF Held
      <4> QED
        BY <4>1, <4>2
    <3>2. ASSUME NEW k \in Loops, NEW g \in Unrun'[k]
          PROVE  /\ g.op = "remove" => Closed(g.conn)'
                 /\ g.op = "establish" =>
                      /\ k # Base /\ state_'[g.conn] = "CONNENTING"
                      /\ g.conn \in conns_' \/ Functor("destroy", g.conn) \in Unrun'[k]
      <4>1. CASE g.conn = c
        <5>1. g.op # "establish"
          <6>1. f.op # "establish" /\ (g = f \/ g \in Unrun[k])
            BY <2>3, <2>5, <3>2
          <6> QED
            BY <2>10, <4>1, <6>1 DEF HoldInv
        <5> QED
          BY <2>6, <4>1, <5>1
      <4>2. CASE g.conn # c
        <5>1. g \in Unrun[k] /\ g \in Functors
          BY <2>3, <2>5, <3>2, <4>2, TypePlaced
        <5>2. state_'[g.conn] = state_[g.conn]
          BY <2>6, <4>2, <5>1 DEF Functors
        <5> QED
          BY <1>1, <2>3, <2>5, <4>2, <5>1, <5>2 DEF HoldInv
      <4> QED
        BY <4>1, <4>2
    <3>3. \A d \in Conns : state_'[d] = "CONNENTING" => ~registered'[d]
      BY <2>6 DEF HoldInv
    <3> QED
      BY <1>1, <3>1, <3>2, <3>3 DEF HoldInv
  <2>13. OpenMeansMapped'
    BY <1>1, <2>3, <2>6 DEF OpenMeansMapped
  <2> QED
    BY <2>4, <2>7, <2>8, <2>9, <2>11, <2>12, <2>13
<1> QED
  BY <1>4, <1>5

\* What is the same for every functor: it was queued on the loop that runs it, and
\* what it bound is bound until the batch ends.
LEMMA RunFacts ==
    ASSUME IInv, NEW l \in Loops, run_functor(l)
    PROVE  /\ Head(batch[l]) \in Functors /\ Head(batch[l]) \in Unrun[l]
           /\ Head(batch[l]).conn \in Conns
           /\ state_[Head(batch[l]).conn] # "none"
           /\ l = IF Head(batch[l]).op = "remove" THEN Base ELSE io_loop[Head(batch[l]).conn]
           /\ ran' \in [Loops -> SUBSET Functors]
           /\ \A k \in Loops : ran'[k] \subseteq Unrun[k] \cup ran[k]
<1> DEFINE f == Head(batch[l])
<1>1. TypeOK /\ FreshInv
  BY DEF IInv, CInv
<1>2. /\ batch[l] \in Seq(Functors) /\ batch[l] # <<>>
      /\ ran' = [ran EXCEPT ![l] = @ \cup {f}] /\ ran \in [Loops -> SUBSET Functors]
  BY <1>1 DEF TypeOK, run_functor
<1>3. f \in Functors /\ f \in Elements(batch[l])
  BY <1>2, FirstFunctor
<1> HIDE DEF f
<1>4. f \in Unrun[l] /\ f.conn \in Conns
  BY <1>3 DEF Unrun, Functors
<1>5. l = IF f.op = "remove" THEN Base ELSE io_loop[f.conn]
  BY <1>1, <1>4, TypePlaced DEF Placed
<1>6. state_[f.conn] # "none"
  BY <1>1, <1>4 DEF FreshInv
<1>7. \A k \in Loops : ran'[k] = IF k = l THEN ran[k] \cup {f} ELSE ran[k]
  BY <1>2
<1>8. ran' \in [Loops -> SUBSET Functors]
  BY <1>2, <1>3
<1> QED
  BY <1>3, <1>4, <1>5, <1>6, <1>7, <1>8 DEF f

\* The loop runs a functor of c other than remove_conn_in_loop, and a callback may be
\* queued by it.
RunsOwn(l, c) == run_functor(l) /\ c = Head(batch[l]).conn /\ Head(batch[l]).op # "remove"
MayQueue(l, c, e) ==
    /\ e.op = "callback" /\ e.conn = c
    /\ pending' = pending \/ pending' = [pending EXCEPT ![l] = Append(@, e)]

\* A functor that runs in its connection's own loop and concerns no other connection,
\* and may queue a callback there: establish_conn, destroy_conn, shutdown_in_loop and
\* send_in_loop.  What has to be shown of each is that it leaves the channel
\* registered only when something still holds the connection.
LEMMA OwnFunctor ==
    ASSUME IInv, NEW l \in Loops, NEW c \in Conns, RunsOwn(l, c), conns_' = conns_,
           NEW e \in Functors, MayQueue(l, c, e),
           state_' \in [Conns -> States],
           registered' \in [Conns -> BOOLEAN],
           reading' \in [Conns -> BOOLEAN], writing' \in [Conns -> BOOLEAN],
           \A d \in Conns : d # c => state_'[d] = state_[d] /\ (registered'[d] <=> registered[d]),
           state_'[c] # "none",
           state_'[c] # "DISCONNECTED" => state_[c] # "DISCONNECTED",
           state_'[c] = "CONNENTING" => ~registered'[c],
           registered'[c] /\ c \notin overwritten => Held(c)'
    PROVE  CInv'
<1> USE DEF IInv, CInv
<1>1. PICK f \in Functors : f = Head(batch[l])
  BY RunFacts DEF RunsOwn
<1>2. /\ f \in Unrun[l] /\ f.conn = c /\ l = io_loop[c] /\ state_[c] # "none"
      /\ ran' \in [Loops -> SUBSET Functors]
      /\ \A k \in Loops : ran'[k] \subseteq Unrun[k] \cup ran[k]
  BY <1>1, RunFacts DEF RunsOwn
<1>3. /\ UNCHANGED <<server, quit_, loops_, started_, fd_limit, listening>>
      /\ UNCHANGED <<next_idx_, peer, io_loop, downs, phase, active, user, closer, overwritten>>
      /\ phase[l] = "functors" /\ batch[l] # <<>> /\ batch' = [batch EXCEPT ![l] = Tail(@)]
  BY DEF RunsOwn, run_functor, startVars
<1>4. TypeOK /\ NotOvertaken /\ e.op = "callback" /\ e.conn = c
  BY DEF MayQueue
<1>5. /\ batch' \in [Loops -> Seq(Functors)] /\ pending' \in [Loops -> Seq(Functors)]
      /\ NotOvertaken'
      /\ \A k \in Loops : k # l => Unrun'[k] = Unrun[k] /\ pending'[k] = pending[k]
      /\ Unrun[l] \subseteq {f} \cup Unrun'[l]
      /\ Unrun'[l] \subseteq Unrun[l] \cup {e}
      /\ \A g \in Unrun'[l] : g.op = "establish" => g.conn # c
  <2> HIDE DEF IInv
  <2>1. CASE pending' = pending
    <3>1. /\ batch' \in [Loops -> Seq(Functors)] /\ NotOvertaken'
          /\ \A k \in Loops : k # l => Unrun'[k] = Unrun[k]
          /\ Unrun[l] = {Head(batch[l])} \cup Unrun'[l]
      BY <1>3, <1>4, <2>1, Popped
    <3>2. \A g \in Unrun'[l] : g.op = "establish" => g.conn # Head(batch[l]).conn
      BY <1>3, <1>4, <2>1, NoneBehind
    <3>3. pending' \in [Loops -> Seq(Functors)]
      BY <1>4, <2>1 DEF TypeOK
    <3> QED
      BY <1>1, <1>2, <2>1, <3>1, <3>2, <3>3
  <2>2. CASE pending' = [pending EXCEPT ![l] = Append(@, e)]
    <3>1. batch[l] # <<>> /\ batch' = [batch EXCEPT ![l] = Tail(@)] /\ e.op # "establish"
      BY <1>3, <1>4
    <3>2. /\ pending' \in [Loops -> Seq(Functors)] /\ batch' \in [Loops -> Seq(Functors)]
          /\ Head(batch[l]) \in Functors /\ Head(batch[l]) \in Unrun[l]
          /\ \A m \in Loops : /\ Unrun'[m] \subseteq Unrun[m] \cup {e}
                              /\ m # l => Unrun'[m] \subseteq Unrun[m]
                              /\ Unrun[m] \subseteq Unrun'[m] \cup {Head(batch[l])}
                              /\ m # l => Unrun[m] \subseteq Unrun'[m]
          /\ e \in Unrun'[l]
          /\ NotOvertaken => NotOvertaken'
      BY <1>4, <2>2, <3>1, PoppedQueued, Zenon
    <3>3. pending[l] \in Seq(Functors) /\ pending'[l] = Append(pending[l], e)
          /\ \A k \in Loops : k # l => pending'[k] = pending[k]
      BY <1>4, <2>2 DEF TypeOK
    <3>4. Elements(pending'[l]) = Elements(pending[l]) \cup {e}
      BY <3>3, AppendFunctor
    <3>5. \A g \in Elements(pending'[l]) : g.op = "establish" => g \in Elements(pending[l])
      BY <3>1, <3>4
    <3>6. \A g \in Unrun'[l] : g.op = "establish" => g.conn # Head(batch[l]).conn
      BY <1>4, <3>1, <3>5, NoneBehind
    <3>7. \A k \in Loops : k # l => Unrun'[k] = Unrun[k]
      BY <3>2
    <3> QED
      BY <1>1, <1>2, <1>4, <3>2, <3>3, <3>6, <3>7
  <2> QED
    BY <2>1, <2>2 DEF MayQueue
<1>6. /\ \A k \in Loops : \A g \in Unrun'[k] \cup ran'[k] :
           (g = e /\ k = l) \/ g \in Unrun[k] \cup ran[k]
      /\ \A k \in Loops : \A g \in Unrun'[k] : g = e \/ g \in Unrun[k]
      /\ \A k \in Loops : \A g \in Unrun[k] : g # f => g \in Unrun'[k]
  <2>1. \A k \in Loops : \A g \in Unrun'[k] : (g = e /\ k = l) \/ g \in Unrun[k]
    BY <1>5
  <2>2. \A k \in Loops : \A g \in Unrun[k] : g # f => g \in Unrun'[k]
    BY <1>5
  <2> QED
    BY <1>2, <2>1, <2>2
<1>7. \A k \in Loops : c \notin active[k]
  BY <1>2, <1>3 DEF LoopInv
<1>8. TypeOK'
  <2>1. \A k \in Loops : \A g \in Unrun[k] \cup ran[k] :
          k = IF g.op = "remove" THEN Base ELSE io_loop[g.conn]
    BY TypePlaced DEF Placed
  <2>4. l = IF e.op = "remove" THEN Base ELSE io_loop[e.conn]
    BY <1>2, <1>4
  <2>2. \A k \in Loops : \A g \in Unrun'[k] \cup ran'[k] :
          k = IF g.op = "remove" THEN Base ELSE io_loop[g.conn]
    <3> HIDE DEF IInv, CInv
    <3> QED
      BY <1>6, <2>1, <2>4
  <2>3. \A k \in Loops : \A g \in Elements(pending'[k]) \cup Elements(batch'[k]) \cup ran'[k] :
          k = IF g.op = "remove" THEN Base ELSE io_loop'[g.conn]
    BY <1>3, <2>2 DEF Unrun
  <2> QED
    BY <1>2, <1>3, <1>5, <2>3 DEF TypeOK
<1>9. LoopInv'
  <2>1. \A k \in Loops : phase[k] # "functors" => batch'[k] = <<>>
    BY <1>3 DEF LoopInv, TypeOK
  <2>2. ASSUME NEW k \in Loops, NEW d \in Conns, d \in active[k]
        PROVE  phase[k] = "handle" /\ io_loop[d] = k /\ registered'[d] /\ downs[d] < MaxCloses
    BY <1>7, <2>2 DEF LoopInv
  <2> QED
    BY <1>3, <2>1, <2>2 DEF LoopInv
<1>10. DownInv'
  <2>1. ASSUME NEW d \in Conns, phase[io_loop[d]] = "exited" /\ io_loop[d] # Base PROVE ~registered'[d]
    <3>1. d # c
      BY <1>2, <1>3, <2>1
    <3> QED
      BY <2>1, <3>1 DEF DownInv
  <2> QED
    BY <1>3, <1>5, <2>1 DEF DownInv
<1>11. FreshInv'
  <2>1. ASSUME NEW d \in Conns
        PROVE  /\ state_'[d] = "none" <=> peer[d] \in {"none", "backlog"}
               /\ state_'[d] = "none" =>
                    /\ d \notin conns_ /\ ~registered'[d] /\ user[d] = "none"
                    /\ \A k \in Loops : \A g \in Unrun'[k] \cup ran'[k] : g.conn # d
    <3>1. CASE d = c
      BY <1>2, <3>1 DEF FreshInv
    <3>2. CASE d # c
      <4>1. state_'[d] = state_[d] /\ (registered'[d] <=> registered[d])
        BY <3>2
      <4>2. /\ state_[d] = "none" <=> peer[d] \in {"none", "backlog"}
            /\ state_[d] = "none" =>
                 /\ d \notin conns_ /\ ~registered[d] /\ user[d] = "none"
                 /\ \A k \in Loops : \A g \in Unrun[k] \cup ran[k] : g.conn # d
        BY DEF FreshInv
      <4>3. \A k \in Loops : \A g \in Unrun'[k] \cup ran'[k] : g.conn = c \/ g \in Unrun[k] \cup ran[k]
        BY <1>4, <1>6
      <4> HIDE DEF IInv
      <4> QED
        BY <3>2, <4>1, <4>2, <4>3
    <3> QED
      BY <3>1, <3>2
  <2> QED
    BY <1>3, <2>1 DEF FreshInv
<1>12. HoldInv'
  <2>1. ASSUME NEW d \in Conns, registered'[d], d \notin overwritten, d # c PROVE Held(d)'
    <3>1. Held(d) /\ io_loop[d] \in Loops /\ Base \in Loops
      BY <2>1, LoopFacts DEF HoldInv, TypeOK
    <3>2. Functor("remove", d) # f /\ Functor("destroy", d) # f
      <4> HIDE DEF IInv
      <4>1. d # c /\ f.conn = c
        BY <1>2, <2>1
      <4> QED
        BY <4>1, Removal
    <3> QED
      BY <1>3, <1>6, <3>1, <3>2 DEF Held
  <2>2. ASSUME NEW k \in Loops, NEW g \in Unrun'[k]
        PROVE  /\ g.op = "remove" => Closed(g.conn)'
               /\ g.op = "establish" =>
                    /\ k # Base /\ state_'[g.conn] = "CONNENTING"
                    /\ g.conn \in conns_' \/ Functor("destroy", g.conn) \in Unrun'[k]
    <3>0. CASE g = e
      BY <1>4, <3>0
    <3> SUFFICES ASSUME g # e
                 PROVE  /\ g.op = "remove" => Closed(g.conn)'
                        /\ g.op = "establish" =>
                             /\ k # Base /\ state_'[g.conn] = "CONNENTING"
                             /\ g.conn \in conns_' \/ Functor("destroy", g.conn) \in Unrun'[k]
      BY <3>0
    <3>1. /\ g \in Unrun[k] /\ g \in Functors
          /\ k = IF g.op = "remove" THEN Base ELSE io_loop[g.conn]
      BY <1>6, <2>2, TypePlaced DEF Placed
    <3>2. /\ g.op = "remove" => Closed(g.conn)
          /\ g.op = "establish" =>
               /\ k # Base /\ state_[g.conn] = "CONNENTING"
               /\ g.conn \in conns_ \/ Functor("destroy", g.conn) \in Unrun[k]
      BY <3>1 DEF HoldInv
    <3>3. CASE g.conn = c
      <4>1. g.op # "establish"
        <5>1. g.op = "establish" => k = l
          BY <1>2, <3>1, <3>3
        <5> QED
          BY <1>5, <2>2, <3>3, <5>1
      <4> QED
        BY <1>3, <3>2, <3>3, <4>1
    <3>4. CASE g.conn # c
      <4>1. state_'[g.conn] = state_[g.conn]
        BY <3>1, <3>4 DEF Functors
      <4>2. Functor("destroy", g.conn) # f
        <5>1. g.conn \in Conns
          BY <3>1 DEF Functors
        <5> HIDE DEF IInv
        <5> QED
          BY <1>2, <3>1, <3>4, <5>1, Removal
      <4>3. Functor("destroy", g.conn) \in Unrun[k] => Functor("destroy", g.conn) \in Unrun'[k]
        BY <1>6, <4>2
      <4> QED
        BY <1>3, <3>2, <4>1, <4>3
    <3> QED
      BY <3>3, <3>4
  <2>3. \A d \in Conns : state_'[d] = "CONNENTING" => ~registered'[d]
    BY DEF HoldInv
  <2> QED
    BY <1>3, <2>1, <2>2, <2>3 DEF HoldInv
<1>13. OpenMeansMapped'
  <2>1. ASSUME server = "up", NEW d \in Conns, d \notin overwritten,
               state_'[d] \in {"CONNENTING", "CONNECTED", "DISCONNENTING"}
        PROVE  state_[d] \in {"CONNENTING", "CONNECTED", "DISCONNENTING"}
    <3>1. CASE d = c
      <4>1. state_[c] \in States /\ state_[c] # "none" /\ state_[c] # "DISCONNECTED"
        BY <1>2, <2>1, <3>1 DEF TypeOK
      <4> QED
        BY <3>1, <4>1
    <3>2. CASE d # c
      BY <2>1, <3>2
    <3> QED
      BY <3>1, <3>2
  <2> QED
    BY <1>3, <2>1 DEF OpenMeansMapped
<1> QED
  BY <1>5, <1>8, <1>9, <1>10, <1>11, <1>12, <1>13

\* remove_conn_in_loop: the connection leaves the map, and destroy_conn, which is
\* queued on its own loop, holds it from now on.
LEMMA RemoveFunctor ==
    ASSUME IInv, NEW l \in Loops, run_functor(l), NEW c \in Conns, c = Head(batch[l]).conn,
           Head(batch[l]).op = "remove", remove_conn_in_loop(c),
           UNCHANGED <<state_, reading, writing, registered>>
    PROVE  CInv'
<1> USE DEF IInv, CInv
<1>1. PICK f \in Functors : f = Head(batch[l])
  BY RunFacts
<1>2. /\ f \in Unrun[l] /\ f.conn = c /\ f.op = "remove" /\ l = Base /\ state_[c] # "none"
      /\ ran' \in [Loops -> SUBSET Functors]
      /\ \A k \in Loops : ran'[k] \subseteq Unrun[k] \cup ran[k]
  BY <1>1, RunFacts
<1>3. /\ UNCHANGED <<server, quit_, loops_, started_, fd_limit, listening>>
      /\ UNCHANGED <<next_idx_, peer, io_loop, downs, phase, active, user, closer, overwritten>>
      /\ phase[l] = "functors" /\ batch[l] # <<>> /\ batch' = [batch EXCEPT ![l] = Tail(@)]
  BY DEF run_functor, startVars
<1>4. Closed(c) /\ state_[c] # "CONNENTING"
  BY <1>2 DEF HoldInv, UserInv
<1>5. PICK e \in Functors : e = Functor("destroy", c) /\ e.op = "destroy" /\ e.conn = c
  BY Removal
<1>6. PICK k \in Loops : k = io_loop[c]
  BY DEF TypeOK
<1>7. /\ conns_' = conns_ \ {c}
      /\ pending' = [pending EXCEPT ![k] = Append(@, e)]
  BY <1>5, <1>6 DEF remove_conn_in_loop, erased, destroy_loop, queue_in_loop
<1>8. /\ pending' \in [Loops -> Seq(Functors)] /\ batch' \in [Loops -> Seq(Functors)]
      /\ \A m \in Loops : /\ Unrun'[m] \subseteq Unrun[m] \cup {e}
                          /\ m # k => Unrun'[m] \subseteq Unrun[m]
                          /\ Unrun[m] \subseteq Unrun'[m] \cup {f}
      /\ e \in Unrun'[k] /\ NotOvertaken'
  <2>1. TypeOK /\ NotOvertaken /\ e.op # "establish"
    BY <1>5
  <2>2. batch[l] # <<>> /\ batch' = [batch EXCEPT ![l] = Tail(@)]
    BY <1>3
  <2> HIDE DEF IInv
  <2>3. /\ pending' \in [Loops -> Seq(Functors)] /\ batch' \in [Loops -> Seq(Functors)]
        /\ Head(batch[l]) \in Functors /\ Head(batch[l]) \in Unrun[l]
        /\ \A m \in Loops : /\ Unrun'[m] \subseteq Unrun[m] \cup {e}
                            /\ m # k => Unrun'[m] \subseteq Unrun[m]
                            /\ Unrun[m] \subseteq Unrun'[m] \cup {Head(batch[l])}
                            /\ m # l => Unrun[m] \subseteq Unrun'[m]
        /\ e \in Unrun'[k]
        /\ NotOvertaken => NotOvertaken'
    BY <1>7, <2>1, <2>2, PoppedQueued, Zenon
  <2> QED
    BY <1>1, <2>1, <2>3
<1>9. \A m \in Loops : phase[m] = "exited" => m = Base
  BY <1>2, <1>3 DEF DownInv
<1>10. server = "up"
  BY <1>2, <1>3 DEF DownInv
<1>11. \A m \in Loops : \A g \in Unrun'[m] \cup ran'[m] :
         (g = e /\ m = k) \/ g \in Unrun[m] \cup ran[m]
  BY <1>2, <1>8
<1>12. TypeOK'
  <2>1. \A m \in Loops : \A g \in Unrun[m] \cup ran[m] :
          m = IF g.op = "remove" THEN Base ELSE io_loop[g.conn]
    BY TypePlaced DEF Placed
  <2>2. k = IF e.op = "remove" THEN Base ELSE io_loop[e.conn]
    BY <1>5, <1>6
  <2>3. \A m \in Loops : \A g \in Unrun'[m] \cup ran'[m] :
          m = IF g.op = "remove" THEN Base ELSE io_loop[g.conn]
    <3> HIDE DEF IInv
    <3> QED
      BY <1>11, <2>1, <2>2
  <2>4. \A m \in Loops : \A g \in Elements(pending'[m]) \cup Elements(batch'[m]) \cup ran'[m] :
          m = IF g.op = "remove" THEN Base ELSE io_loop'[g.conn]
    BY <1>3, <2>3 DEF Unrun
  <2> QED
    BY <1>2, <1>3, <1>7, <1>8, <2>4 DEF TypeOK
<1>13. LoopInv'
  <2>1. \A m \in Loops : phase[m] # "functors" => batch'[m] = <<>>
    BY <1>3 DEF LoopInv, TypeOK
  <2> QED
    BY <1>3, <2>1 DEF LoopInv
<1>14. DownInv'
  <2>1. \A d \in Conns : ~(phase[io_loop[d]] = "exited" /\ io_loop[d] # Base)
    BY <1>9 DEF TypeOK
  <2> QED
    BY <1>3, <1>9, <1>10, <2>1 DEF DownInv
<1>15. FreshInv'
  <2>1. ASSUME NEW d \in Conns, state_[d] = "none"
        PROVE  /\ d \notin conns_'
               /\ \A m \in Loops : \A g \in Unrun'[m] \cup ran'[m] : g.conn # d
    <3>1. /\ d \notin conns_ /\ d # c
          /\ \A m \in Loops : \A g \in Unrun[m] \cup ran[m] : g.conn # d
      BY <1>2, <2>1 DEF FreshInv
    <3> HIDE DEF IInv
    <3> QED
      BY <1>5, <1>7, <1>11, <3>1
  <2> QED
    BY <1>3, <2>1 DEF FreshInv
<1>16. HoldInv'
  <2>1. ASSUME NEW d \in Conns, registered[d], d \notin overwritten PROVE Held(d)'
    <3>1. CASE d = c
      BY <1>3, <1>5, <1>6, <1>8, <3>1 DEF Held
    <3>2. CASE d # c
      <4>1. Held(d) /\ io_loop[d] \in Loops /\ Base \in Loops
        BY <2>1, LoopFacts DEF HoldInv, TypeOK
      <4>2. Functor("remove", d) # f /\ Functor("destroy", d) # f
        <5> HIDE DEF IInv
        <5> QED
          BY <1>2, <3>2, Removal
      <4>3. \A m \in Loops : \A g \in Unrun[m] : g # f => g \in Unrun'[m]
        BY <1>8
      <4> QED
        BY <1>3, <1>7, <3>2, <4>1, <4>2, <4>3 DEF Held
    <3> QED
      BY <3>1, <3>2
  <2>2. ASSUME NEW m \in Loops, NEW g \in Unrun'[m]
        PROVE  /\ g.op = "remove" => Closed(g.conn)
               /\ g.op = "establish" =>
                    /\ m # Base /\ state_[g.conn] = "CONNENTING"
                    /\ g.conn \in conns_' \/ Functor("destroy", g.conn) \in Unrun'[m]
    <3>1. CASE g = e
      BY <1>5, <3>1
    <3>2. CASE g # e
      <4>1. g \in Unrun[m] /\ g \in Functors /\ g.conn \in Conns
        BY <1>8, <2>2, <3>2, TypePlaced DEF Functors
      <4>2. /\ g.op = "remove" => Closed(g.conn)
            /\ g.op = "establish" =>
                 /\ m # Base /\ state_[g.conn] = "CONNENTING"
                 /\ g.conn \in conns_ \/ Functor("destroy", g.conn) \in Unrun[m]
        BY <4>1 DEF HoldInv
      <4>3. Functor("destroy", g.conn) # f
        <5> HIDE DEF IInv
        <5> QED
          BY <1>2, <4>1, Removal
      <4>4. Functor("destroy", g.conn) \in Unrun[m] => Functor("destroy", g.conn) \in Unrun'[m]
        BY <1>8, <4>3
      <4>5. g.op = "establish" => g.conn # c
        BY <1>4, <4>2
      <4> QED
        BY <1>7, <4>2, <4>4, <4>5
    <3> QED
      BY <3>1, <3>2
  <2>3. \A d \in Conns : state_[d] = "CONNENTING" => ~registered[d]
    BY DEF HoldInv
  <2> QED
    BY <1>3, <2>1, <2>2, <2>3 DEF HoldInv
<1>17. OpenMeansMapped'
  BY <1>3, <1>4, <1>7 DEF OpenMeansMapped
<1> QED
  BY <1>8, <1>12, <1>13, <1>14, <1>15, <1>16, <1>17

LEMMA RunFunctorStep ==
    ASSUME IInv, NEW l \in Loops, run_functor(l)
    PROVE  CInv'
<1>1. PICK f \in Functors : f = Head(batch[l])
  BY RunFacts
<1>2. PICK c \in Conns : c = f.conn
  BY <1>1 DEF Functors
<1>3. /\ TypeOK /\ FreshInv /\ HoldInv /\ NotOvertaken
      /\ f \in Unrun[l] /\ state_[c] # "none" /\ Base \in Loops
      /\ l = IF f.op = "remove" THEN Base ELSE io_loop[c]
  BY <1>1, <1>2, RunFacts, LoopFacts DEF IInv, CInv
<1>4. /\ UNCHANGED <<io_loop>> /\ batch[l] # <<>> /\ batch' = [batch EXCEPT ![l] = Tail(@)]
      /\ \/ f.op = "establish" /\ established(c) /\ UNCHANGED <<conns_, pending>>
         \/ f.op = "remove" /\ remove_conn_in_loop(c) /\ UNCHANGED <<state_, reading, writing, registered>>
         \/ f.op = "destroy" /\ destroyed(c) /\ UNCHANGED <<conns_, pending>>
         \/ f.op = "send" /\ send_in_loop(c) /\ UNCHANGED <<conns_, state_, reading>>
         \/ f.op \in {"shutdown", "callback"} /\ UNCHANGED <<conns_, pending, state_, reading, writing, registered>>
      /\ f.op = "establish" => UNCHANGED writing
      /\ f.op = "remove" => UNCHANGED writing
      /\ overwritten' = overwritten
  BY <1>1, <1>2 DEF run_functor
<1>41. PICK e \in Functors : e = Functor("callback", c) /\ e.op = "callback" /\ e.conn = c
  BY FunctorFields DEF Ops
<1>5. CASE f.op = "remove"
  BY <1>1, <1>2, <1>4, <1>5, RemoveFunctor
<1>6. ASSUME f.op \in {"send", "shutdown", "callback"}, registered[c], c \notin overwritten,
             pending' = pending \/ pending' = [pending EXCEPT ![l] = Append(@, e)]
      PROVE  Held(c)'
  <2>1. conns_' = conns_
    BY <1>4, <1>6
  <2>2. \A k \in Loops : \A g \in Unrun[k] : g # f => g \in Unrun'[k]
    <3>1. CASE pending' = pending
      BY <1>1, <1>3, <1>4, <3>1, Popped
    <3>2. CASE pending' = [pending EXCEPT ![l] = Append(@, e)]
      <4>1. \A m \in Loops : Unrun[m] \subseteq Unrun'[m] \cup {Head(batch[l])}
        <5>1. batch[l] # <<>> /\ batch' = [batch EXCEPT ![l] = Tail(@)] /\ e.op # "establish" /\ TypeOK
          BY <1>3, <1>4, <1>41
        <5> QED
          BY <3>2, <5>1, PoppedQueued, Zenon
      <4> QED
        BY <1>1, <4>1
    <3> QED
      BY <1>6, <3>1, <3>2
  <2>3. Functor("remove", c) # f /\ Functor("destroy", c) # f
    BY <1>6, Removal
  <2>4. Held(c) /\ io_loop[c] \in Loops
    BY <1>3, <1>6 DEF HoldInv, TypeOK
  <2> QED
    BY <1>3, <1>4, <2>1, <2>2, <2>3, <2>4 DEF Held
<1>7. CASE f.op \in {"send", "shutdown", "callback"}
  <2>1. /\ UNCHANGED <<conns_, state_, reading>>
        /\ pending' = pending \/ pending' = [pending EXCEPT ![l] = Append(@, e)]
        /\ \/ UNCHANGED <<writing, registered>>
           \/ /\ f.op = "send" /\ state_[c] # "DISCONNECTED"
              /\ writing' = [writing EXCEPT ![c] = TRUE]
              /\ registered' = [registered EXCEPT ![c] = TRUE]
    <3>1. CASE f.op = "send"
      <4>1. send_in_loop(c) /\ UNCHANGED <<conns_, state_, reading>> /\ l = io_loop[c]
        BY <1>3, <1>4, <3>1
      <4> QED
        BY <1>41, <3>1, <4>1 DEF send_in_loop, enable_writing, update_chan, may_call_back, queue_in_loop
    <3>2. CASE f.op \in {"shutdown", "callback"}
      BY <1>4, <3>2
    <3> QED
      BY <1>7, <3>1, <3>2
  <2>2. /\ state_ \in [Conns -> States]
        /\ registered \in [Conns -> BOOLEAN] /\ reading \in [Conns -> BOOLEAN]
        /\ writing \in [Conns -> BOOLEAN]
    BY <1>3 DEF TypeOK
  <2>3. /\ registered' \in [Conns -> BOOLEAN] /\ writing' \in [Conns -> BOOLEAN]
        /\ \A d \in Conns : d # c => (registered'[d] <=> registered[d])
    <3>1. \/ registered' = registered
          \/ \A d \in Conns : registered'[d] = IF d = c THEN TRUE ELSE registered[d]
      BY <2>1, <2>2
    <3> QED
      BY <2>1, <2>2, <3>1
  <2>4. (registered'[c] <=> registered[c]) \/ c \in overwritten
    <3>1. CASE f.op = "send" /\ state_[c] # "DISCONNECTED"
      <4>1. registered[c] \/ Closed(c) \/ phase[l] = "exited"
        BY <1>2, <1>3, <3>1 DEF IInv, SendInv
      <4>2. phase[l] = "functors"
        BY DEF run_functor
      <4>3. registered[c] \/ c \in overwritten
        BY <3>1, <4>1, <4>2
      <4>4. registered[c] => registered'[c]
        BY <2>1, <2>2
      <4> QED
        BY <4>3, <4>4
    <3>2. CASE ~(f.op = "send" /\ state_[c] # "DISCONNECTED")
      BY <2>1, <3>2
    <3> QED
      BY <3>1, <3>2
  <2>5. state_[c] = "CONNENTING" => ~registered'[c]
    <3>1. state_[c] = "CONNENTING" => ~registered[c] /\ c \notin overwritten
      BY <1>3 DEF HoldInv, IInv, UserInv
    <3> QED
      BY <2>4, <3>1
  <2>6. registered'[c] /\ c \notin overwritten => Held(c)'
    BY <1>6, <1>7, <2>1, <2>4
  <2>7. \A d \in Conns : d # c => state_'[d] = state_[d] /\ (registered'[d] <=> registered[d])
    BY <2>1, <2>3
  <2>8. /\ state_'[c] # "none" /\ (state_'[c] = "CONNENTING" => ~registered'[c])
        /\ state_' \in [Conns -> States] /\ reading' \in [Conns -> BOOLEAN]
        /\ state_'[c] # "DISCONNECTED" => state_[c] # "DISCONNECTED"
        /\ conns_' = conns_
    BY <1>3, <2>1, <2>2, <2>5
  <2>9. RunsOwn(l, c)
    BY <1>1, <1>2, <1>7 DEF RunsOwn
  <2>10. MayQueue(l, c, e)
    BY <1>41, <2>1 DEF MayQueue
  <2> QED
    BY <1>41, <2>1, <2>3, <2>6, <2>7, <2>8, <2>9, <2>10, OwnFunctor
<1>8. CASE f.op = "destroy"
  <2>1. destroyed(c) /\ UNCHANGED <<conns_, pending>>
    BY <1>4, <1>8
  <2>2. /\ registered' = [registered EXCEPT ![c] = FALSE]
        /\ \/ state_' = [state_ EXCEPT ![c] = "DISCONNECTED"] /\ reading' = [reading EXCEPT ![c] = FALSE]
              /\ writing' = [writing EXCEPT ![c] = FALSE]
           \/ state_[c] # "CONNECTED" /\ UNCHANGED <<state_, reading, writing>>
    BY <2>1 DEF destroyed, remove_chan
  <2>3. /\ state_ \in [Conns -> States]
        /\ registered \in [Conns -> BOOLEAN] /\ reading \in [Conns -> BOOLEAN] /\ writing \in [Conns -> BOOLEAN]
    BY <1>3 DEF TypeOK
  <2>4. \A d \in Conns : registered'[d] = IF d = c THEN FALSE ELSE registered[d]
    BY <2>2, <2>3
  <2>5. /\ ~registered'[c] /\ \A d \in Conns : d # c => (registered'[d] <=> registered[d])
        /\ registered' \in [Conns -> BOOLEAN] /\ reading' \in [Conns -> BOOLEAN] /\ writing' \in [Conns -> BOOLEAN]
    BY <2>2, <2>3, <2>4
  <2>6. /\ state_' \in [Conns -> States]
        /\ \A d \in Conns : d # c => state_'[d] = state_[d]
        /\ state_'[c] # "none"
        /\ state_'[c] # "DISCONNECTED" => state_[c] # "DISCONNECTED"
    BY <1>3, <2>2, <2>3
  <2>7. RunsOwn(l, c)
    BY <1>1, <1>2, <1>8 DEF RunsOwn
  <2>8. MayQueue(l, c, e)
    BY <1>41, <2>1 DEF MayQueue
  <2> QED
    BY <2>8, <2>1, <2>5, <2>6, <2>7, OwnFunctor
<1>9. CASE f.op = "establish"
  <2>1. established(c) /\ UNCHANGED <<conns_, pending>>
    BY <1>4, <1>9
  <2>2. /\ registered' = [registered EXCEPT ![c] = TRUE]
        /\ state_' = [state_ EXCEPT ![c] = "CONNECTED"] /\ reading' = [reading EXCEPT ![c] = TRUE]
    BY <2>1 DEF established, update_chan
  <2>3. /\ state_ \in [Conns -> States]
        /\ registered \in [Conns -> BOOLEAN] /\ reading \in [Conns -> BOOLEAN] /\ writing \in [Conns -> BOOLEAN]
    BY <1>3 DEF TypeOK
  <2>4. \A d \in Conns : registered'[d] = IF d = c THEN TRUE ELSE registered[d]
    BY <2>2, <2>3
  <2>5. /\ \A d \in Conns : d # c => (registered'[d] <=> registered[d])
        /\ registered' \in [Conns -> BOOLEAN] /\ reading' \in [Conns -> BOOLEAN] /\ writing' \in [Conns -> BOOLEAN]
    BY <1>4, <1>9, <2>2, <2>3, <2>4
  <2>6. state_[c] = "CONNENTING" /\ (c \in conns_ \/ Functor("destroy", c) \in Unrun[l])
    BY <1>2, <1>3, <1>9 DEF HoldInv
  <2>7. /\ state_' \in [Conns -> States]
        /\ \A d \in Conns : d # c => state_'[d] = state_[d]
        /\ state_'[c] = "CONNECTED"
    BY <2>2, <2>3
  <2>8. Held(c)'
    <3>1. \A g \in Unrun[l] : g # f => g \in Unrun'[l]
      BY <1>1, <1>3, <1>4, <2>1, Popped
    <3>2. Functor("destroy", c) # f
      BY <1>9, Removal
    <3>3. l = io_loop[c]
      BY <1>3, <1>9
    <3> QED
      BY <1>4, <2>1, <2>6, <3>1, <3>2, <3>3 DEF Held
  <2>9. RunsOwn(l, c)
    BY <1>1, <1>2, <1>9 DEF RunsOwn
  <2>10. MayQueue(l, c, e)
    BY <1>41, <2>1 DEF MayQueue
  <2> QED
    BY <2>10, <2>1, <2>5, <2>6, <2>7, <2>8, <2>9, OwnFunctor
<1> QED
  BY <1>4, <1>5, <1>7, <1>8, <1>9

----------------------------------------------------------------------------
(* The end of the server.                                                  *)

LEMMA QuitStep ==
    ASSUME IInv, quit
    PROVE  CInv'
<1> USE DEF IInv, CInv
<1>1. Unrun' = Unrun /\ NotOvertaken'
  BY QueuesSame DEF quit, loopVars
<1>2. TypeOK'
  BY LoopFacts DEF TypeOK, quit, connVars, loopVars
<1>3. DownInv'
  BY DEF DownInv, quit, connVars, loopVars
<1> QED
  BY <1>1, <1>2, <1>3, LoopSame, FreshSame, HoldSame, MappedSame DEF quit, connVars, loopVars

LEMMA ServerDtorStep ==
    ASSUME IInv, server_dtor
    PROVE  CInv'
<1> USE DEF IInv, CInv
<1>1. Unrun' = Unrun /\ NotOvertaken'
  BY QueuesSame DEF server_dtor, loopVars
<1>2. TypeOK'
  BY DEF TypeOK, server_dtor, connVars, loopVars
<1>3. DownInv'
  BY DEF DownInv, server_dtor, connVars, loopVars
<1>4. OpenMeansMapped'
  BY DEF OpenMeansMapped, server_dtor
<1> QED
  BY <1>1, <1>2, <1>3, <1>4, LoopSame, FreshSame, HoldSame DEF server_dtor, connVars, loopVars

\* The threads are joined one after the other, the destructor's body behind them.
LEMMA MembersStep ==
    ASSUME IInv, members_pool \/ members_acceptor
    PROVE  CInv'
<1> USE DEF IInv, CInv
<1>1. /\ UNCHANGED <<fd_limit, started_, loops_, next_idx_, conns_, peer, connVars, loopVars, user, closer, overwritten>>
      /\ UNCHANGED <<io_loop, state_, reading, writing, registered, downs, phase, active, pending, batch, ran>>
  BY DEF members_pool, members_acceptor, connVars, loopVars
<1>2. Unrun' = Unrun /\ NotOvertaken'
  BY <1>1, QueuesSame
<1>3. /\ server \in {"dtor", "pool"} /\ server' \in {"pool", "gone"}
      /\ quit_ \subseteq quit_' /\ quit_' \subseteq Loops
      /\ listening' \in BOOLEAN
      /\ server' = "gone" => \A l \in Elements(loops_) : phase[l] = "exited"
  <2>1. Elements(loops_) \subseteq Loops
    BY LoopFacts DEF Loops
  <2> QED
    BY <2>1 DEF members_pool, pool_thread_dtor, members_acceptor, joined, TypeOK
<1>4. TypeOK'
  BY <1>1, <1>3 DEF TypeOK
<1>5. DownInv'
  BY <1>1, <1>3 DEF DownInv
<1>6. OpenMeansMapped'
  BY <1>3 DEF OpenMeansMapped
<1> QED
  BY <1>1, <1>2, <1>4, <1>5, <1>6, LoopSame, FreshSame, HoldSame

\* What is still queued on the base loop goes with it: the loops of the pool, which
\* had channels, have exited before, and its own channels go too.
LEMMA BaseDtorStep ==
    ASSUME IInv, base_dtor
    PROVE  CInv'
<1> USE DEF IInv, CInv
<1>1. /\ UNCHANGED <<fd_limit, started_, listening, quit_, loops_, next_idx_, conns_, peer>>
      /\ UNCHANGED <<io_loop, state_, reading, writing, downs, phase, active, batch, ran, user, closer, overwritten>>
      /\ server = "gone" /\ server' = "ended"
      /\ pending' = [pending EXCEPT ![Base] = <<>>]
      /\ registered' = [c \in Conns |-> registered[c] /\ io_loop[c] # Base]
  BY DEF base_dtor
<1>2. Base \in Loops /\ phase[Base] = "exited" /\ \A l \in Elements(loops_) : phase[l] = "exited"
  BY <1>1, LoopFacts DEF DownInv
<1>3. \A c \in Conns : phase[io_loop[c]] = "exited"
  BY <1>2 DEF LoopInv
<1>4. \A c \in Conns : ~registered'[c]
  BY <1>1, <1>3 DEF DownInv
<1>5. \A l \in Loops : \A c \in Conns : c \notin active[l]
  BY <1>3 DEF LoopInv
<1>6. batch[Base] = <<>>
  BY <1>2 DEF LoopInv
<1>7. /\ pending' \in [Loops -> Seq(Functors)]
      /\ Unrun' = [Unrun EXCEPT ![Base] = {}] /\ NotOvertaken'
  BY <1>1, <1>2, <1>6, Dropped, EmptyElements
<1>8. /\ \A l \in Loops : l # Base => pending'[l] = pending[l] /\ Unrun'[l] = Unrun[l]
      /\ Unrun'[Base] = {}
  BY <1>1, <1>2, <1>7 DEF TypeOK, Unrun
<1>9. \A l \in Loops : Unrun'[l] \subseteq Unrun[l]
  BY <1>8
<1>10. TypeOK'
  <2>1. \A k \in Loops : \A f \in Unrun'[k] \cup ran[k] :
          k = IF f.op = "remove" THEN Base ELSE io_loop[f.conn]
    BY <1>9, TypePlaced DEF Placed
  <2>2. \A k \in Loops : \A f \in Elements(pending'[k]) \cup Elements(batch'[k]) \cup ran'[k] :
          k = IF f.op = "remove" THEN Base ELSE io_loop'[f.conn]
    BY <1>1, <2>1 DEF Unrun
  <2>3. registered' \in [Conns -> BOOLEAN]
    BY <1>1 DEF TypeOK
  <2> QED
    BY <1>1, <1>7, <2>2, <2>3 DEF TypeOK
<1>11. LoopInv'
  BY <1>1, <1>5 DEF LoopInv
<1>12. DownInv'
  BY <1>1, <1>4, <1>8 DEF DownInv
<1>13. FreshInv'
  BY <1>1, <1>4, <1>9 DEF FreshInv
<1>14. HoldInv'
  <2>1. ASSUME NEW k \in Loops, NEW f \in Unrun'[k]
        PROVE  f \in Unrun[k] /\ Unrun'[k] = Unrun[k]
    BY <1>8
  <2> QED
    BY <1>1, <1>4, <2>1 DEF HoldInv
<1>15. OpenMeansMapped'
  BY <1>1 DEF OpenMeansMapped
<1> QED
  BY <1>7, <1>10, <1>11, <1>12, <1>13, <1>14, <1>15

\* A functor that is no establish_conn and no remove_conn_in_loop is queued on its
\* connection's loop, which has not exited, and nothing else happens to the channels.
QueuesOwn(c, e, k) ==
    /\ e.conn = c /\ e.op \in {"destroy", "send", "shutdown", "callback"}
    /\ k = io_loop[c] /\ (k # Base => phase[k] # "exited") /\ state_[c] # "none"
    /\ pending' = [pending EXCEPT ![k] = Append(@, e)]
    /\ UNCHANGED <<server, quit_, loops_, started_, fd_limit, listening, next_idx_, peer>>
    /\ UNCHANGED <<io_loop, downs, phase, active, batch, ran, state_, reading, registered, overwritten>>
    /\ writing' \in [Conns -> BOOLEAN]
    /\ conns_' \subseteq conns_
    /\ user' \in [Conns -> {"none", "keeps", "sending", "done"}]
    /\ closer' \in [Conns -> {"none", "keeps", "tested", "stored", "done"}]
    /\ server # "up" => user' = user /\ closer' = closer
    /\ \A d \in Conns : user[d] = "none" => user'[d] = "none"

LEMMA QueueOwn ==
    ASSUME IInv, NEW c \in Conns, NEW e \in Functors, NEW k \in Loops, QueuesOwn(c, e, k)
    PROVE  /\ TypeOK' /\ NotOvertaken' /\ LoopInv' /\ DownInv' /\ FreshInv'
           /\ Unrun'[k] = Unrun[k] \cup {e} /\ \A m \in Loops : m # k => Unrun'[m] = Unrun[m]
<1> USE DEF IInv, CInv, QueuesOwn
<1>1. /\ pending' \in [Loops -> Seq(Functors)]
      /\ Unrun' = [Unrun EXCEPT ![k] = @ \cup {e}] /\ NotOvertaken'
  <2>1. TypeOK /\ NotOvertaken /\ batch' = batch /\ e.op # "establish"
    OBVIOUS
  <2> HIDE DEF IInv
  <2> QED
    BY <2>1, Queued
<1>2. /\ \A m \in Loops : Unrun'[m] = IF m = k THEN Unrun[m] \cup {e} ELSE Unrun[m]
      /\ Unrun'[k] = Unrun[k] \cup {e} /\ \A m \in Loops : m # k => Unrun'[m] = Unrun[m]
      /\ \A m \in Loops : m # k => pending'[m] = pending[m]
  <2>1. TypeOK /\ pending' = [pending EXCEPT ![k] = Append(@, e)]
    OBVIOUS
  <2> HIDE DEF IInv, CInv, QueuesOwn
  <2>2. \A m \in Loops : m # k => pending'[m] = pending[m]
    BY <2>1 DEF TypeOK
  <2>3. Unrun'[k] = Unrun[k] \cup {e} /\ \A m \in Loops : m # k => Unrun'[m] = Unrun[m]
    BY <1>1 DEF Unrun
  <2> QED
    BY <2>2, <2>3
<1>3. \A m \in Loops : \A g \in Elements(pending'[m]) \cup Elements(batch'[m]) \cup ran'[m] :
        m = IF g.op = "remove" THEN Base ELSE io_loop'[g.conn]
  <2>1. \A m \in Loops : \A g \in Unrun[m] \cup ran[m] :
          m = IF g.op = "remove" THEN Base ELSE io_loop[g.conn]
    BY TypePlaced DEF Placed
  <2>2. k = IF e.op = "remove" THEN Base ELSE io_loop[e.conn]
    OBVIOUS
  <2>3. \A m \in Loops : \A g \in Unrun'[m] \cup ran[m] :
          (g = e /\ m = k) \/ g \in Unrun[m] \cup ran[m]
    <3> HIDE DEF IInv
    <3>1. ASSUME NEW m \in Loops, NEW g \in Unrun'[m] PROVE (g = e /\ m = k) \/ g \in Unrun[m]
      <4>1. CASE m = k
        <5>1. g \in Unrun[k] \cup {e}
          BY <1>2, <4>1, Zenon
        <5> QED
          BY <4>1, <5>1, Zenon
      <4>2. CASE m # k
        BY <1>2, <4>2, Zenon
      <4> QED
        BY <4>1, <4>2
    <3> QED
      BY <3>1
  <2>4. \A m \in Loops : \A g \in Unrun'[m] \cup ran[m] :
          m = IF g.op = "remove" THEN Base ELSE io_loop[g.conn]
    <3> HIDE DEF IInv
    <3> QED
      BY <2>1, <2>2, <2>3
  <2> QED
    BY <2>4 DEF Unrun
<1>4. \A d \in Conns : state_[d] = "none" => \A m \in Loops : \A g \in Unrun'[m] \cup ran[m] : g.conn # d
  <2> SUFFICES ASSUME NEW d \in Conns, state_[d] = "none", NEW m \in Loops, NEW g \in Unrun'[m] \cup ran[m]
               PROVE  g.conn # d
    OBVIOUS
  <2>1. g = e \/ g \in Unrun[m] \cup ran[m]
    <3> HIDE DEF IInv
    <3>1. CASE m = k
      BY <1>2, <3>1, Zenon
    <3>2. CASE m # k
      BY <1>2, <3>2, Zenon
    <3> QED
      BY <3>1, <3>2
  <2> QED
    BY <2>1 DEF FreshInv
<1>5. LoopInv'
  BY DEF LoopInv
<1>6. \A m \in Loops : phase[m] = "exited" /\ m # Base => pending'[m] = <<>>
  BY <1>2 DEF DownInv
<1>7. TypeOK'
  BY <1>1, <1>3 DEF TypeOK
<1>8. DownInv'
  BY <1>6 DEF DownInv
<1>9. FreshInv'
  BY <1>4 DEF FreshInv
<1> QED
  BY <1>1, <1>2, <1>5, <1>7, <1>8, <1>9

\* ~tcp_server lets go of a connection only after destroy_conn has run, or with
\* destroy_conn queued on a loop that is still running.
LEMMA DestroyEachStep ==
    ASSUME IInv, NEW c \in Conns, destroy_each(c)
    PROVE  CInv'
<1> USE DEF IInv, CInv
<1>1. /\ UNCHANGED <<server, quit_, loops_, started_, fd_limit, listening, next_idx_, peer>>
      /\ UNCHANGED <<io_loop, downs, phase, active, batch, ran, user, closer, overwritten>>
      /\ server = "dtor" /\ conns_' = conns_ \ {c} /\ c \in conns_
  BY DEF destroy_each, startVars
<1>2. /\ phase[Base] = "exited" /\ state_[c] # "none" /\ Base \in Loops
      /\ \A l \in Loops : l # Base => phase[l] # "exited"
  BY <1>1, LoopFacts DEF DownInv, FreshInv
<1>3. OpenMeansMapped'
  BY <1>1 DEF OpenMeansMapped
<1>4. CASE io_loop[c] # Base
  <2>1. PICK e \in Functors : e = Functor("destroy", c) /\ e.op = "destroy" /\ e.conn = c
    BY Removal
  <2>2. PICK k \in Loops : k = io_loop[c]
    BY DEF TypeOK
  <2>3. pending' = [pending EXCEPT ![k] = Append(@, e)] /\ UNCHANGED <<state_, reading, writing, registered>>
    BY <1>4, <2>1, <2>2 DEF destroy_each, queue_in_loop
  <2>4. /\ conns_' \subseteq conns_ /\ user' \in [Conns -> {"none", "keeps", "sending", "done"}]
        /\ \A d \in Conns : user[d] = "none" => user'[d] = "none"
    BY <1>1 DEF TypeOK
  <2>5. k # Base => phase[k] # "exited"
    BY <1>2
  <2>6. /\ TypeOK' /\ NotOvertaken' /\ LoopInv' /\ DownInv' /\ FreshInv'
        /\ \A m \in Loops : Unrun'[m] = IF m = k THEN Unrun[m] \cup {e} ELSE Unrun[m]
    <3>1. UNCHANGED <<server, quit_, loops_, started_, fd_limit, listening, next_idx_, peer>>
      BY <1>1
    <3>2. UNCHANGED <<io_loop, downs, phase, active, batch, ran, state_, reading, registered, overwritten>>
      BY <1>1, <2>3
    <3>3. e.conn = c /\ e.op \in {"destroy", "send", "shutdown", "callback"} /\ state_[c] # "none"
      BY <1>2, <2>1
    <3>4. /\ server # "up" => user' = user /\ closer' = closer
          /\ writing' \in [Conns -> BOOLEAN]
          /\ closer' \in [Conns -> {"none", "keeps", "tested", "stored", "done"}]
      BY <1>1, <2>3 DEF TypeOK
    <3>5. QueuesOwn(c, e, k)
      BY <2>2, <2>3, <2>4, <2>5, <3>1, <3>2, <3>3, <3>4 DEF QueuesOwn
    <3>6. IInv
      OBVIOUS
    <3> HIDE DEF IInv
    <3>7. /\ TypeOK' /\ NotOvertaken' /\ LoopInv' /\ DownInv' /\ FreshInv'
          /\ Unrun'[k] = Unrun[k] \cup {e} /\ \A m \in Loops : m # k => Unrun'[m] = Unrun[m]
      BY <3>5, <3>6, QueueOwn
    <3> QED
      BY <3>7
  <2>7. HoldInv'
    <3>1. ASSUME NEW d \in Conns, registered[d], d \notin overwritten PROVE Held(d)'
      <4>1. Held(d) /\ io_loop[d] \in Loops
        BY <3>1 DEF HoldInv, TypeOK
      <4>2. CASE d = c
        BY <1>1, <2>1, <2>2, <2>6, <4>2 DEF Held
      <4>3. CASE d # c
        BY <1>1, <1>2, <2>6, <4>1, <4>3 DEF Held
      <4> QED
        BY <4>2, <4>3
    <3>2. ASSUME NEW m \in Loops, NEW g \in Unrun'[m]
          PROVE  /\ g.op = "remove" => Closed(g.conn)
                 /\ g.op = "establish" =>
                      /\ m # Base /\ state_[g.conn] = "CONNENTING"
                      /\ g.conn \in conns_' \/ Functor("destroy", g.conn) \in Unrun'[m]
      <4>1. CASE g = e
        BY <2>1, <4>1
      <4>2. CASE g # e
        <5>1. g \in Unrun[m] /\ Unrun[m] \subseteq Unrun'[m]
          BY <2>6, <3>2, <4>2
        <5>2. m = IF g.op = "remove" THEN Base ELSE io_loop[g.conn]
          BY <5>1, TypePlaced DEF Placed
        <5>3. g.op = "establish" /\ g.conn = c => Functor("destroy", g.conn) \in Unrun'[m]
          BY <2>1, <2>2, <2>6, <5>2
        <5>4. /\ g.op = "remove" => Closed(g.conn)
              /\ g.op = "establish" =>
                   /\ m # Base /\ state_[g.conn] = "CONNENTING"
                   /\ g.conn \in conns_ \/ Functor("destroy", g.conn) \in Unrun[m]
          BY <5>1 DEF HoldInv
        <5> QED
          BY <1>1, <5>1, <5>3, <5>4
      <4> QED
        BY <4>1, <4>2
    <3>3. \A d \in Conns : state_[d] = "CONNENTING" => ~registered[d]
      BY DEF HoldInv
    <3> QED
      BY <1>1, <2>3, <3>1, <3>2, <3>3 DEF HoldInv
  <2> QED
    BY <1>3, <2>6, <2>7
<1>5. CASE io_loop[c] = Base
  <2>1. destroyed(c) /\ pending' = pending
    BY <1>5 DEF destroy_each
  <2>2. /\ registered' = [registered EXCEPT ![c] = FALSE]
        /\ \/ state_' = [state_ EXCEPT ![c] = "DISCONNECTED"] /\ reading' = [reading EXCEPT ![c] = FALSE]
              /\ writing' = [writing EXCEPT ![c] = FALSE]
           \/ UNCHANGED <<state_, reading, writing>>
    BY <2>1 DEF destroyed, remove_chan
  <2>3. /\ state_ \in [Conns -> States]
        /\ registered \in [Conns -> BOOLEAN] /\ reading \in [Conns -> BOOLEAN] /\ writing \in [Conns -> BOOLEAN]
    BY DEF TypeOK
  <2>4. \A d \in Conns : registered'[d] = IF d = c THEN FALSE ELSE registered[d]
    BY <2>2, <2>3
  <2>5. /\ ~registered'[c] /\ \A d \in Conns : d # c => (registered'[d] <=> registered[d])
        /\ registered' \in [Conns -> BOOLEAN] /\ reading' \in [Conns -> BOOLEAN] /\ writing' \in [Conns -> BOOLEAN]
    BY <2>2, <2>3, <2>4
  <2>6. /\ state_' \in [Conns -> States]
        /\ \A d \in Conns : d # c => state_'[d] = state_[d]
        /\ state_'[c] # "none"
        /\ state_[c] = "DISCONNECTED" => state_'[c] = "DISCONNECTED"
    BY <1>2, <2>2, <2>3
  <2>7. Unrun' = Unrun /\ NotOvertaken'
    BY <1>1, <2>1, QueuesSame
  <2>8. TypeOK'
    BY <1>1, <2>1, <2>5, <2>6 DEF TypeOK
  <2>9. LoopInv'
    <3>1. \A l \in Loops : c \notin active[l]
      BY <1>2, <1>5 DEF LoopInv
    <3> QED
      BY <1>1, <2>5, <3>1 DEF LoopInv
  <2>10. DownInv'
    <3>1. \A d \in Conns : registered'[d] => registered[d]
      BY <2>5
    <3> QED
      BY <1>1, <2>1, <3>1 DEF DownInv
  <2>11. FreshInv'
    <3>1. ASSUME NEW d \in Conns
          PROVE  /\ state_'[d] = "none" <=> peer[d] \in {"none", "backlog"}
                 /\ state_'[d] = "none" =>
                      /\ d \notin conns_' /\ ~registered'[d] /\ user[d] = "none"
                      /\ \A k \in Loops : \A g \in Unrun[k] \cup ran[k] : g.conn # d
      <4>1. CASE d = c
        BY <1>2, <2>6, <4>1 DEF FreshInv
      <4>2. CASE d # c
        BY <1>1, <2>5, <2>6, <4>2 DEF FreshInv
      <4> QED
        BY <4>1, <4>2
    <3> QED
      BY <1>1, <2>7, <3>1 DEF FreshInv
  <2>12. HoldInv'
    <3>1. ASSUME NEW d \in Conns, registered'[d], d \notin overwritten PROVE Held(d)'
      <4>1. d # c /\ Held(d)
        BY <2>5, <3>1 DEF HoldInv
      <4> QED
        BY <1>1, <2>7, <4>1 DEF Held
    <3>2. ASSUME NEW m \in Loops, NEW g \in Unrun[m]
          PROVE  /\ g.op = "remove" => Closed(g.conn)'
                 /\ g.op = "establish" =>
                      /\ m # Base /\ state_'[g.conn] = "CONNENTING"
                      /\ g.conn \in conns_' \/ Functor("destroy", g.conn) \in Unrun[m]
      <4>1. /\ g \in Functors /\ g.conn \in Conns
            /\ m = IF g.op = "remove" THEN Base ELSE io_loop[g.conn]
        BY TypePlaced DEF Placed, Functors
      <4>2. /\ g.op = "remove" => Closed(g.conn)
            /\ g.op = "establish" =>
                 /\ m # Base /\ state_[g.conn] = "CONNENTING"
                 /\ g.conn \in conns_ \/ Functor("destroy", g.conn) \in Unrun[m]
        BY DEF HoldInv
      <4>3. CASE g.conn = c
        <5>1. g.op # "establish"
          BY <1>5, <4>1, <4>2, <4>3
        <5> QED
          BY <1>1, <2>6, <4>2, <4>3, <5>1
      <4>4. CASE g.conn # c
        <5>1. state_'[g.conn] = state_[g.conn]
          BY <2>6, <4>1, <4>4
        <5> QED
          BY <1>1, <4>2, <4>4, <5>1
      <4> QED
        BY <4>3, <4>4
    <3>3. ASSUME NEW d \in Conns, state_'[d] = "CONNENTING" PROVE ~registered'[d]
      <4>1. CASE d = c
        BY <2>5, <4>1
      <4>2. CASE d # c
        BY <2>5, <2>6, <3>3, <4>2 DEF HoldInv
      <4> QED
        BY <4>1, <4>2
    <3> QED
      BY <1>1, <2>7, <3>1, <3>2, <3>3 DEF HoldInv
  <2> QED
    BY <1>3, <2>7, <2>8, <2>9, <2>10, <2>11, <2>12
<1> QED
  BY <1>4, <1>5

----------------------------------------------------------------------------
(* The user's threads and the peers.                                       *)

\* A functor that is no destroy_conn either: nothing that holds a connection goes.
LEMMA QueueOwnHold ==
    ASSUME IInv, NEW c \in Conns, NEW e \in Functors, NEW k \in Loops, QueuesOwn(c, e, k),
           e.op # "destroy", conns_' = conns_
    PROVE  CInv'
<1>1. /\ TypeOK' /\ NotOvertaken' /\ LoopInv' /\ DownInv' /\ FreshInv'
      /\ Unrun'[k] = Unrun[k] \cup {e} /\ \A m \in Loops : m # k => Unrun'[m] = Unrun[m]
  BY QueueOwn
<1>2. /\ UNCHANGED <<server, state_, registered, io_loop, overwritten>>
      /\ e.op \notin {"remove", "establish"}
  BY DEF QueuesOwn
<1>3. TypeOK /\ HoldInv /\ OpenMeansMapped
  BY DEF IInv, CInv
<1>4. \A m \in Loops : /\ Unrun[m] \subseteq Unrun'[m]
                       /\ \A g \in Unrun'[m] : g = e \/ g \in Unrun[m]
  <2>1. ASSUME NEW m \in Loops PROVE /\ Unrun[m] \subseteq Unrun'[m]
                                     /\ \A g \in Unrun'[m] : g = e \/ g \in Unrun[m]
    <3>1. CASE m = k
      BY <1>1, <3>1
    <3>2. CASE m # k
      BY <1>1, <3>2
    <3> QED
      BY <3>1, <3>2
  <2> QED
    BY <2>1
<1>5. HoldInv'
  <2>1. ASSUME NEW d \in Conns, registered[d], d \notin overwritten PROVE Held(d)'
    <3>1. Held(d) /\ io_loop[d] \in Loops /\ Base \in Loops
      BY <1>3, <2>1, LoopFacts DEF HoldInv, TypeOK
    <3> QED
      BY <1>2, <1>4, <3>1 DEF Held
  <2>2. ASSUME NEW m \in Loops, NEW g \in Unrun'[m]
        PROVE  /\ g.op = "remove" => Closed(g.conn)
               /\ g.op = "establish" =>
                    /\ m # Base /\ state_[g.conn] = "CONNENTING"
                    /\ g.conn \in conns_ \/ Functor("destroy", g.conn) \in Unrun'[m]
    <3>1. CASE g = e
      BY <1>2, <3>1
    <3>2. CASE g # e
      <4>1. g \in Unrun[m] /\ Unrun[m] \subseteq Unrun'[m]
        BY <1>4, <2>2, <3>2
      <4> QED
        BY <1>3, <4>1 DEF HoldInv
    <3> QED
      BY <3>1, <3>2
  <2>3. \A d \in Conns : state_[d] = "CONNENTING" => ~registered[d]
    BY <1>3 DEF HoldInv
  <2> QED
    BY <1>2, <2>1, <2>2, <2>3 DEF HoldInv
<1> QED
  BY <1>1, <1>2, <1>3, <1>5, MappedSame DEF CInv

\* A worker gets a connection, or tests its state.
LEMMA UserTestStep ==
    ASSUME IInv, NEW c \in Conns, user_keeps(c) \/ send(c) \/ shutdown(c)
    PROVE  CInv'
<1> USE DEF IInv, CInv
<1>1. UNCHANGED <<serverVars, startVars, connVars, loopVars, server, quit_, loops_, started_,
                  fd_limit, listening, next_idx_, peer, conns_, io_loop, state_, reading, writing, registered,
                  downs, phase, active, pending, batch, ran, overwritten>>
  BY DEF user_keeps, send, shutdown, serverVars, startVars, connVars, loopVars
<1>2. Unrun' = Unrun /\ NotOvertaken'
  BY <1>1, QueuesSame
<1>3. server = "up" /\ state_[c] # "none"
  BY DEF user_keeps, send, shutdown, DownInv, UserInv
<1>4. /\ user' \in [Conns -> {"none", "keeps", "sending", "done"}]
      /\ closer' \in [Conns -> {"none", "keeps", "tested", "stored", "done"}]
      /\ \A d \in Conns : d # c => user'[d] = user[d]
  BY DEF user_keeps, send, shutdown, TypeOK
<1>5. TypeOK'
  BY <1>1, <1>4 DEF TypeOK
<1>6. DownInv'
  BY <1>1, <1>3 DEF DownInv
<1>7. FreshInv'
  BY <1>1, <1>2, <1>3, <1>4 DEF FreshInv
<1> QED
  BY <1>1, <1>2, <1>5, <1>6, <1>7, LoopSame, HoldSame, MappedSame

\* send and shutdown queue a functor while the server is up, so on a loop that runs.
LEMMA UserQueueStep ==
    ASSUME IInv, NEW c \in Conns, send_queue(c) \/ shutdown_queue(c)
    PROVE  CInv'
<1>0. TypeOK /\ DownInv /\ UserInv
  BY DEF IInv, CInv
<1>1. /\ UNCHANGED <<server, quit_, loops_, started_, fd_limit, listening, next_idx_, peer>>
      /\ UNCHANGED <<io_loop, downs, phase, active, batch, ran, state_, reading, registered, overwritten>>
      /\ UNCHANGED <<conns_, writing>>
  BY DEF send_queue, shutdown_queue, serverVars, startVars, connVars
<1>2. user[c] = "sending" \/ closer[c] = "stored"
  BY DEF send_queue, shutdown_queue
<1>3. server = "up" /\ state_[c] # "none" /\ \A l \in Loops : l # Base => phase[l] # "exited"
  BY <1>0, <1>2 DEF DownInv, UserInv
<1>4. PICK e \in Functors : /\ e.op \in {"send", "shutdown"} /\ e.conn = c
                            /\ queue_in_loop(io_loop[c], e)
  <2>1. "send" \in Ops /\ "shutdown" \in Ops
    BY DEF Ops
  <2> QED
    BY <2>1, FunctorFields DEF send_queue, shutdown_queue
<1>5. PICK k \in Loops : k = io_loop[c]
  BY <1>0 DEF TypeOK
<1>6. pending' = [pending EXCEPT ![k] = Append(@, e)]
  BY <1>4, <1>5 DEF queue_in_loop
<1>7. /\ user' \in [Conns -> {"none", "keeps", "sending", "done"}]
      /\ closer' \in [Conns -> {"none", "keeps", "tested", "stored", "done"}]
      /\ \A d \in Conns : user[d] = "none" => user'[d] = "none"
  <2>1. CASE send_queue(c)
    <3>1. user[c] = "sending" /\ user' = [user EXCEPT ![c] = "done"] /\ closer' = closer
      BY <2>1 DEF send_queue
    <3> QED
      BY <1>0, <3>1 DEF TypeOK
  <2>2. CASE shutdown_queue(c)
    <3>1. user' = user /\ closer' = [closer EXCEPT ![c] = "done"]
      BY <2>2 DEF shutdown_queue
    <3> QED
      BY <1>0, <3>1 DEF TypeOK
  <2> QED
    BY <2>1, <2>2
<1>8. conns_' \subseteq conns_ /\ (k # Base => phase[k] # "exited") /\ writing' \in [Conns -> BOOLEAN]
  BY <1>0, <1>1, <1>3 DEF TypeOK
<1>9. e.conn = c /\ e.op \in {"destroy", "send", "shutdown", "callback"} /\ e.op # "destroy"
  BY <1>4
<1>10. QueuesOwn(c, e, k)
  BY <1>1, <1>3, <1>5, <1>6, <1>7, <1>8, <1>9 DEF QueuesOwn
<1> QED
  BY <1>1, <1>9, <1>10, QueueOwnHold

\* The store of shutdown: a connection that was closed is remembered as overwritten.
LEMMA StoreStep ==
    ASSUME IInv, NEW c \in Conns, shutdown_store(c)
    PROVE  CInv'
<1> USE DEF IInv, CInv
<1>1. /\ UNCHANGED <<serverVars, startVars, loopVars, server, quit_, loops_, started_,
                     fd_limit, listening, next_idx_, peer, conns_, io_loop, reading, writing, registered,
                     downs, phase, active, pending, batch, ran, user>>
      /\ closer[c] = "tested" /\ closer' = [closer EXCEPT ![c] = "stored"]
      /\ state_' = [state_ EXCEPT ![c] = "DISCONNENTING"]
      /\ overwritten' = IF state_[c] = "DISCONNECTED" THEN overwritten \cup {c} ELSE overwritten
  BY DEF shutdown_store, serverVars, startVars, connVars, loopVars
<1>2. Unrun' = Unrun /\ NotOvertaken'
  BY <1>1, QueuesSame
<1>3. server = "up" /\ state_[c] \notin {"none", "CONNENTING"}
  BY <1>1 DEF DownInv, UserInv
<1>4. /\ state_' \in [Conns -> States]
      /\ closer' \in [Conns -> {"none", "keeps", "tested", "stored", "done"}]
      /\ overwritten' \subseteq Conns
  BY <1>1 DEF TypeOK
<1>5. /\ \A d \in Conns : d # c => state_'[d] = state_[d] /\ (d \in overwritten' <=> d \in overwritten)
      /\ state_'[c] = "DISCONNENTING" /\ overwritten \subseteq overwritten'
      /\ c \notin overwritten' => c \notin overwritten /\ state_[c] \in {"CONNECTED", "DISCONNENTING"}
  BY <1>1, <1>3 DEF TypeOK
<1>6. \A d \in Conns : Closed(d) => Closed(d)'
  BY <1>1, <1>5
<1>7. TypeOK'
  BY <1>1, <1>4 DEF TypeOK
<1>8. DownInv'
  BY <1>1, <1>3 DEF DownInv
<1>9. FreshInv'
  BY <1>1, <1>2, <1>3, <1>5 DEF FreshInv
<1>10. HoldInv'
  <2>1. ASSUME NEW d \in Conns, registered[d], d \notin overwritten' PROVE Held(d)'
    <3>1. Held(d)
      BY <1>5, <2>1 DEF HoldInv
    <3> QED
      BY <1>1, <1>2, <3>1 DEF Held
  <2>2. ASSUME NEW m \in Loops, NEW g \in Unrun[m]
        PROVE  /\ g.op = "remove" => Closed(g.conn)'
               /\ g.op = "establish" =>
                    /\ m # Base /\ state_'[g.conn] = "CONNENTING"
                    /\ g.conn \in conns_ \/ Functor("destroy", g.conn) \in Unrun[m]
    <3>1. g.conn \in Conns
      BY TypePlaced DEF Functors
    <3>2. /\ g.op = "remove" => Closed(g.conn)
          /\ g.op = "establish" =>
               /\ m # Base /\ state_[g.conn] = "CONNENTING"
               /\ g.conn \in conns_ \/ Functor("destroy", g.conn) \in Unrun[m]
      BY DEF HoldInv
    <3>3. g.op = "establish" => g.conn # c
      BY <1>3, <3>2
    <3> QED
      BY <1>5, <1>6, <3>1, <3>2, <3>3
  <2>3. \A d \in Conns : state_'[d] = "CONNENTING" => ~registered[d]
    BY <1>5 DEF HoldInv
  <2> QED
    BY <1>1, <1>2, <2>1, <2>2, <2>3 DEF HoldInv
<1>11. OpenMeansMapped'
  BY <1>1, <1>5 DEF OpenMeansMapped
<1> QED
  BY <1>1, <1>2, <1>7, <1>8, <1>9, <1>10, <1>11, LoopSame

\* handle_write: the channel it changes is registered, so the epoll set is the same.
LEMMA WriteStep ==
    ASSUME IInv, NEW l \in Loops, NEW c \in Conns, handle_write(l, c)
    PROVE  CInv'
<1>0. TypeOK /\ NotOvertaken /\ LoopInv /\ DownInv /\ FreshInv /\ HoldInv /\ OpenMeansMapped
  BY DEF IInv, CInv
<1>1. /\ UNCHANGED <<server, quit_, loops_, started_, fd_limit, listening, next_idx_, peer>>
      /\ UNCHANGED <<io_loop, downs, phase, active, batch, ran, state_, reading, overwritten>>
      /\ UNCHANGED <<conns_, user, closer>>
      /\ writing' = [writing EXCEPT ![c] = FALSE]
      /\ registered' = [registered EXCEPT ![c] = TRUE]
      /\ phase[l] = "handle" /\ io_loop[c] = l /\ registered[c]
      /\ may_call_back(c)
  BY DEF handle_write, Writable, update_chan, serverVars, startVars
<1>2. writing' \in [Conns -> BOOLEAN]
  BY <1>0, <1>1 DEF TypeOK
<1>3. registered' = registered
  <2>1. registered \in [Conns -> BOOLEAN] /\ registered[c] = TRUE
    BY <1>0, <1>1 DEF TypeOK
  <2> QED
    BY <1>1, <2>1
<1>4. state_[c] # "none"
  BY <1>0, <1>1 DEF FreshInv
<1>5. CASE pending' = pending
  <2>1. Unrun' = Unrun /\ NotOvertaken'
    BY <1>0, <1>1, <1>5, QueuesSame
  <2>2. TypeOK'
    BY <1>0, <1>1, <1>2, <1>3, <1>5 DEF TypeOK
  <2> QED
    BY <1>0, <1>1, <1>3, <1>5, <2>1, <2>2, LoopSame, DownSame, FreshSame, HoldSame, MappedSame DEF CInv
<1>6. CASE pending' # pending
  <2>1. PICK e \in Functors : e.op = "callback" /\ e.conn = c /\ pending' = [pending EXCEPT ![l] = Append(@, e)]
    <3>1. "callback" \in Ops
      BY DEF Ops
    <3> QED
      BY <1>1, <1>6, <3>1, FunctorFields DEF may_call_back, queue_in_loop
  <2>2. /\ user' \in [Conns -> {"none", "keeps", "sending", "done"}]
        /\ closer' \in [Conns -> {"none", "keeps", "tested", "stored", "done"}]
        /\ \A d \in Conns : user[d] = "none" => user'[d] = "none"
        /\ conns_' \subseteq conns_ /\ phase[l] # "exited"
    BY <1>0, <1>1 DEF TypeOK
  <2>3. QueuesOwn(c, e, l)
    BY <1>1, <1>2, <1>3, <1>4, <2>1, <2>2 DEF QueuesOwn
  <2>4. e.op # "destroy" /\ conns_' = conns_
    BY <1>1, <2>1
  <2> QED
    BY <2>3, <2>4, QueueOwnHold
<1> QED
  BY <1>5, <1>6

LEMMA PeerStep ==
    ASSUME IInv, NEW c \in Conns, connect(c) \/ peer_closes(c)
    PROVE  CInv'
<1> USE DEF IInv, CInv
<1>1. UNCHANGED <<serverVars, startVars, connVars, loopVars, server, quit_, loops_, started_,
                  fd_limit, listening, next_idx_, conns_, io_loop, state_, reading, writing, registered,
                  downs, phase, active, pending, batch, ran, user, closer, overwritten>>
  BY DEF connect, peer_closes, serverVars, startVars, connVars, loopVars
<1>2. Unrun' = Unrun /\ NotOvertaken'
  BY <1>1, QueuesSame
<1>3. /\ peer' \in [Conns -> {"none", "backlog", "open", "fin", "reset"}]
      /\ \A d \in Conns : peer'[d] \in {"none", "backlog"} <=> peer[d] \in {"none", "backlog"}
  <2>1. peer \in [Conns -> {"none", "backlog", "open", "fin", "reset"}]
    BY DEF TypeOK
  <2>2. \/ peer[c] = "none" /\ peer' = [peer EXCEPT ![c] = "backlog"]
        \/ peer[c] \in {"open", "fin"} /\ peer' = [peer EXCEPT ![c] = "fin"]
        \/ peer[c] \in {"open", "fin"} /\ peer' = [peer EXCEPT ![c] = "reset"]
    BY DEF connect, peer_closes
  <2> HIDE DEF IInv, CInv
  <2> QED
    BY <2>1, <2>2
<1>4. TypeOK'
  BY <1>1, <1>3 DEF TypeOK
<1>5. FreshInv'
  BY <1>1, <1>2, <1>3 DEF FreshInv
<1> QED
  BY <1>1, <1>2, <1>4, <1>5, LoopSame, DownSame, HoldSame, MappedSame

LEMMA StutterStep ==
    ASSUME IInv, UNCHANGED vars
    PROVE  CInv'
<1>1. UNCHANGED <<server, quit_, loops_, started_, fd_limit, listening, next_idx_, conns_, peer,
                  io_loop, state_, reading, writing, registered, downs, phase, active, pending, batch, ran, user, closer, overwritten>>
  BY DEF vars, serverVars, startVars, connVars, loopVars
<1>2. Unrun' = Unrun /\ NotOvertaken'
  BY <1>1, QueuesSame DEF IInv, CInv
<1>3. TypeOK'
  BY <1>1 DEF TypeOK, IInv, CInv
<1> QED
  BY <1>1, <1>2, <1>3, LoopSame, DownSame, FreshSame, HoldSame, MappedSame DEF IInv, CInv

----------------------------------------------------------------------------
(* The theorems.                                                           *)

LEMMA LoopStepIInv ==
    ASSUME IInv, NEW l \in Loops, LoopStep(l)
    PROVE  CInv'
  BY PollStep, AcceptStep, EventStep, WriteStep, SwapStep, RunFunctorStep, EndStep DEF LoopStep

LEMMA DestructionIInv ==
    ASSUME IInv, Destruction
    PROVE  CInv'
  BY ServerDtorStep, DestroyEachStep, MembersStep, BaseDtorStep DEF Destruction

\* Every step keeps the part of the invariant that does not need the order of sends.
LEMMA CInvStep ==
    ASSUME IInv, [Next]_vars
    PROVE  CInv'
<1>1. ASSUME NEW n \in PoolSizes, start(n) PROVE CInv'
  BY <1>1, StartStep
<1>2. ASSUME NEW l \in Loops, LoopStep(l) PROVE CInv'
  BY <1>2, LoopStepIInv
<1>3. CASE quit
  BY <1>3, QuitStep
<1>4. CASE Destruction
  BY <1>4, DestructionIInv
<1>5. ASSUME NEW c \in Conns, user_keeps(c) \/ UserStep(c) \/ connect(c) \/ peer_closes(c)
      PROVE  CInv'
  BY <1>5, UserTestStep, UserQueueStep, StoreStep, PeerStep DEF UserStep
<1>6. CASE UNCHANGED vars
  BY <1>6, StutterStep
<1> QED
  BY <1>1, <1>2, <1>3, <1>4, <1>5, <1>6 DEF Next

----------------------------------------------------------------------------
(* What a step does to the state of a connection and to its channel.       *)

\* The states are gone through in order, but for a shutdown that tested state_ before
\* the connection was closed and stores after it.
StateMoves(c) ==
    /\ state_[c] \in {"none", "CONNENTING"} =>
         state_'[c] \in {"none", "CONNENTING"} \/ (state_'[c] = "CONNECTED" /\ registered'[c])
    /\ state_[c] = "CONNECTED" => state_'[c] \in {"CONNECTED", "DISCONNENTING", "DISCONNECTED"}
    /\ state_[c] = "DISCONNENTING" => state_'[c] \in {"DISCONNENTING", "DISCONNECTED"}
    /\ state_[c] = "DISCONNECTED" =>
         \/ state_'[c] = "DISCONNECTED"
         \/ state_'[c] = "DISCONNENTING" /\ closer[c] = "tested" /\ c \in overwritten'
    /\ c \in overwritten => c \in overwritten'
    /\ c \in overwritten' => c \in overwritten \/ state_'[c] = "DISCONNENTING"

\* A channel comes into the epoll set when its connection opens, or after a close that
\* was overwritten; it leaves it through destroy_conn or with its loop.
RegMoves(c) ==
    /\ ~registered[c] /\ registered'[c] => state_[c] \in {"none", "CONNENTING"} \/ c \in overwritten
    /\ registered[c] /\ ~registered'[c] =>
         \/ \E l \in Loops : run_functor(l) /\ Head(batch[l]).op = "destroy" /\ Head(batch[l]).conn = c
         \/ server # "up" /\ phase'[io_loop[c]] = "exited"

\* What holds of a connection the step leaves alone.
LEMMA ConnSame ==
    ASSUME NEW c \in Conns, state_[c] \in States, state_'[c] = state_[c], overwritten' = overwritten,
           registered'[c] <=> registered[c]
    PROVE  StateMoves(c) /\ RegMoves(c)
  BY DEF StateMoves, RegMoves

\* send_in_loop finds the channel registered, or the connection was overwritten.
LEMMA SendRegistered ==
    ASSUME IInv, NEW l \in Loops, run_functor(l), Head(batch[l]).op = "send",
           state_[Head(batch[l]).conn] # "DISCONNECTED"
    PROVE  registered[Head(batch[l]).conn] \/ Head(batch[l]).conn \in overwritten
<1>1. PICK f \in Functors : f = Head(batch[l])
  BY RunFacts
<1>2. f \in Unrun[l] /\ f.op = "send" /\ state_[f.conn] # "DISCONNECTED"
  BY <1>1, RunFacts
<1>3. phase[l] # "exited"
  BY DEF run_functor
<1>4. registered[f.conn] \/ f.conn \in overwritten
  BY <1>2, <1>3 DEF IInv, SendInv
<1> QED
  BY <1>1, <1>4

LEMMA RunMoves ==
    ASSUME IInv, NEW l \in Loops, run_functor(l), NEW c \in Conns
    PROVE  StateMoves(c) /\ RegMoves(c)
<1>1. PICK f \in Functors : f = Head(batch[l])
  BY RunFacts
<1>2. PICK d \in Conns : d = f.conn
  BY <1>1 DEF Functors
<1>3. /\ state_ \in [Conns -> States] /\ registered \in [Conns -> BOOLEAN]
      /\ f \in Unrun[l] /\ HoldInv
  BY <1>1, RunFacts DEF IInv, CInv, TypeOK
<1>4. overwritten' = overwritten /\ state_[c] \in States
  BY <1>3 DEF run_functor
<1>5. \/ f.op = "establish" /\ established(d)
      \/ f.op = "send" /\ send_in_loop(d) /\ state_' = state_
      \/ f.op = "destroy" /\ destroyed(d)
      \/ UNCHANGED <<state_, registered>>
  BY <1>1, <1>2 DEF run_functor
<1>6. CASE UNCHANGED <<state_, registered>>
  BY <1>4, <1>6, ConnSame
<1>7. CASE f.op = "establish" /\ established(d)
  <2>1. /\ state_' = [state_ EXCEPT ![d] = "CONNECTED"]
        /\ registered' = [registered EXCEPT ![d] = TRUE]
    BY <1>7 DEF established, update_chan
  <2>2. state_[d] = "CONNENTING"
    BY <1>2, <1>3, <1>7 DEF HoldInv
  <2>3. CASE c = d
    <3>1. state_'[c] = "CONNECTED" /\ registered'[c] /\ state_[c] = "CONNENTING"
      BY <1>3, <2>1, <2>2, <2>3
    <3> QED
      BY <1>4, <3>1 DEF StateMoves, RegMoves
  <2>4. CASE c # d
    <3>1. state_'[c] = state_[c] /\ registered'[c] = registered[c]
      BY <1>3, <2>1, <2>4
    <3> QED
      BY <1>4, <3>1, ConnSame
  <2> QED
    BY <2>3, <2>4
<1>8. CASE f.op = "send" /\ send_in_loop(d) /\ state_' = state_
  <2>1. \/ registered' = registered
        \/ registered' = [registered EXCEPT ![d] = TRUE] /\ state_[d] # "DISCONNECTED"
    BY <1>8 DEF send_in_loop, enable_writing, update_chan
  <2>2. CASE registered' = registered
    BY <1>4, <1>8, <2>2, ConnSame
  <2>3. CASE registered' = [registered EXCEPT ![d] = TRUE] /\ state_[d] # "DISCONNECTED"
    <3>1. registered[d] \/ d \in overwritten
      BY <1>1, <1>2, <1>8, <2>3, SendRegistered
    <3>2. \A b \in Conns : registered'[b] = IF b = d THEN TRUE ELSE registered[b]
      BY <1>3, <2>3
    <3>3. RegMoves(c)
      BY <3>1, <3>2 DEF RegMoves
    <3>4. StateMoves(c)
      BY <1>4, <1>8 DEF StateMoves
    <3> QED
      BY <3>3, <3>4
  <2> QED
    BY <2>1, <2>2, <2>3
<1>9. CASE f.op = "destroy" /\ destroyed(d)
  <2>1. /\ registered' = [registered EXCEPT ![d] = FALSE]
        /\ \/ state_' = state_
           \/ state_[d] = "CONNECTED" /\ state_' = [state_ EXCEPT ![d] = "DISCONNECTED"]
    BY <1>9 DEF destroyed, remove_chan
  <2>2. CASE c = d
    <3>1. ~registered'[c] /\ (state_'[c] = state_[c] \/ (state_[c] = "CONNECTED" /\ state_'[c] = "DISCONNECTED"))
      BY <1>3, <2>1, <2>2
    <3>2. Head(batch[l]).op = "destroy" /\ Head(batch[l]).conn = c
      BY <1>1, <1>2, <1>9, <2>2
    <3>3. RegMoves(c)
      BY <3>1, <3>2 DEF RegMoves
    <3>4. StateMoves(c)
      BY <1>4, <3>1 DEF StateMoves
    <3> QED
      BY <3>3, <3>4
  <2>3. CASE c # d
    <3>1. state_'[c] = state_[c] /\ registered'[c] = registered[c]
      BY <1>3, <2>1, <2>3
    <3> QED
      BY <1>4, <3>1, ConnSame
  <2> QED
    BY <2>2, <2>3
<1> QED
  BY <1>5, <1>6, <1>7, <1>8, <1>9

LEMMA LoopMoves ==
    ASSUME IInv, NEW l \in Loops, LoopStep(l), NEW c \in Conns
    PROVE  StateMoves(c) /\ RegMoves(c)
<1>1. /\ state_ \in [Conns -> States] /\ registered \in [Conns -> BOOLEAN]
      /\ state_[c] \in States /\ phase \in [Loops -> {"poll", "handle", "functors", "exited"}]
      /\ TypeOK /\ LoopInv /\ FreshInv /\ HoldInv /\ DownInv
  BY DEF IInv, CInv, TypeOK
<1>2. CASE poll(l) \/ swap_functors(l)
  <2>1. UNCHANGED <<state_, registered, overwritten>>
    BY <1>2 DEF poll, swap_functors, connVars
  <2> QED
    BY <1>1, <2>1, ConnSame
<1>3. CASE accept
  <2>1. overwritten' = overwritten
    BY <1>3 DEF accept
  <2>2. CASE can_accept
    <3>1. PICK d \in Conns : peer[d] = "backlog" /\ new_conn(d)
      BY <1>3, <2>2 DEF accept
    <3>2. state_[d] = "none" /\ ~registered[d]
      BY <1>1, <3>1 DEF FreshInv
    <3>3. /\ \A b \in Conns : b # d => state_'[b] = state_[b] /\ (registered'[b] <=> registered[b])
          /\ state_'[d] = "CONNENTING" \/ (state_'[d] = "CONNECTED" /\ registered'[d])
      BY <1>1, <3>1 DEF new_conn, established, update_chan
    <3>4. CASE c = d
      BY <2>1, <3>2, <3>3, <3>4 DEF StateMoves, RegMoves
    <3>5. CASE c # d
      BY <1>1, <2>1, <3>3, <3>5, ConnSame
    <3> QED
      BY <3>4, <3>5
  <2>3. CASE ~can_accept
    <3>1. UNCHANGED <<state_, registered>>
      BY <1>3, <2>3 DEF accept
    <3> QED
      BY <1>1, <2>1, <3>1, ConnSame
  <2> QED
    BY <2>2, <2>3
<1>4. ASSUME NEW d \in Conns, handle_event(l, d) PROVE StateMoves(c) /\ RegMoves(c)
  <2>1. registered[d] /\ overwritten' = overwritten
    BY <1>1, <1>4 DEF handle_event, LoopInv
  <2>2. state_[d] \notin {"none", "CONNENTING"}
    BY <1>1, <2>1 DEF FreshInv, HoldInv
  <2>3. CASE alive(d)
    <3>1. /\ state_' = [state_ EXCEPT ![d] = "DISCONNECTED"]
          /\ registered' = [registered EXCEPT ![d] = TRUE]
      BY <1>4, <2>3 DEF handle_event, handle_close, update_chan
    <3>2. /\ \A b \in Conns : b # d => state_'[b] = state_[b] /\ (registered'[b] <=> registered[b])
          /\ state_'[d] = "DISCONNECTED" /\ registered'[d]
      BY <1>1, <3>1
    <3>3. CASE c = d
      BY <2>1, <2>2, <3>2, <3>3 DEF StateMoves, RegMoves
    <3>4. CASE c # d
      BY <1>1, <2>1, <3>2, <3>4, ConnSame
    <3> QED
      BY <3>3, <3>4
  <2>4. CASE ~alive(d)
    <3>1. UNCHANGED <<state_, registered>>
      BY <1>4, <2>4 DEF handle_event
    <3> QED
      BY <1>1, <2>1, <3>1, ConnSame
  <2> QED
    BY <2>3, <2>4
<1>5. ASSUME NEW d \in Conns, handle_write(l, d) PROVE StateMoves(c) /\ RegMoves(c)
  <2>1. /\ UNCHANGED <<state_, overwritten>> /\ registered[d]
        /\ registered' = [registered EXCEPT ![d] = TRUE]
    BY <1>5 DEF handle_write, Writable, update_chan
  <2>2. registered'[c] <=> registered[c]
    BY <1>1, <2>1
  <2> QED
    BY <1>1, <2>1, <2>2, ConnSame
<1>6. CASE end_functors(l)
  <2>1. UNCHANGED <<state_, overwritten>>
    BY <1>6 DEF end_functors
  <2>2. CASE l \in quit_ /\ l # Base
    <3>1. /\ phase' = [phase EXCEPT ![l] = "exited"]
          /\ registered' = [b \in Conns |-> registered[b] /\ io_loop[b] # l]
      BY <1>6, <2>2 DEF end_functors, exit_loop
    <3>2. server # "up" /\ phase'[l] = "exited"
      BY <1>1, <2>2, <3>1 DEF DownInv
    <3>3. RegMoves(c)
      BY <3>1, <3>2 DEF RegMoves
    <3>4. StateMoves(c)
      BY <1>1, <2>1 DEF StateMoves
    <3> QED
      BY <3>3, <3>4
  <2>3. CASE ~(l \in quit_ /\ l # Base)
    <3>1. registered' = registered
      BY <1>6, <2>3 DEF end_functors, exit_loop
    <3> QED
      BY <1>1, <2>1, <3>1, ConnSame
  <2> QED
    BY <2>2, <2>3
<1> QED
  BY <1>2, <1>3, <1>4, <1>5, <1>6, RunMoves DEF LoopStep

LEMMA ConnMoves ==
    ASSUME IInv, [Next]_vars, NEW c \in Conns
    PROVE  StateMoves(c) /\ RegMoves(c)
<1>1. /\ state_ \in [Conns -> States] /\ registered \in [Conns -> BOOLEAN]
      /\ state_[c] \in States /\ TypeOK /\ DownInv /\ UserInv
  BY DEF IInv, CInv, TypeOK
<1>2. ASSUME UNCHANGED <<state_, registered, overwritten>> PROVE StateMoves(c) /\ RegMoves(c)
  BY <1>1, <1>2, ConnSame
<1>3. ASSUME NEW n \in PoolSizes, start(n) PROVE StateMoves(c) /\ RegMoves(c)
  BY <1>2, <1>3 DEF start, connVars
<1>4. CASE quit \/ server_dtor \/ members_pool \/ members_acceptor
  BY <1>2, <1>4 DEF quit, server_dtor, members_pool, members_acceptor, connVars
<1>5. ASSUME NEW d \in Conns, destroy_each(d) PROVE StateMoves(c) /\ RegMoves(c)
  <2>1. overwritten' = overwritten /\ phase' = phase /\ server = "dtor"
    BY <1>5 DEF destroy_each
  <2>2. CASE io_loop[d] = Base
    <3>1. /\ registered' = [registered EXCEPT ![d] = FALSE]
          /\ \/ state_' = state_
             \/ state_[d] = "CONNECTED" /\ state_' = [state_ EXCEPT ![d] = "DISCONNECTED"]
      BY <1>5, <2>2 DEF destroy_each, destroyed, remove_chan
    <3>2. phase[Base] = "exited"
      BY <1>1, <2>1 DEF DownInv
    <3>3. CASE c = d
      <4>1. ~registered'[c] /\ (state_'[c] = state_[c] \/ (state_[c] = "CONNECTED" /\ state_'[c] = "DISCONNECTED"))
        BY <1>1, <3>1, <3>3
      <4>2. StateMoves(c)
        BY <1>1, <2>1, <4>1 DEF StateMoves
      <4>3. RegMoves(c)
        BY <2>1, <2>2, <3>2, <3>3, <4>1 DEF RegMoves
      <4> QED
        BY <4>2, <4>3
    <3>4. CASE c # d
      <4>1. state_'[c] = state_[c] /\ registered'[c] = registered[c]
        BY <1>1, <3>1, <3>4
      <4> QED
        BY <1>1, <2>1, <4>1, ConnSame
    <3> QED
      BY <3>3, <3>4
  <2>3. CASE io_loop[d] # Base
    BY <1>2, <1>5, <2>1, <2>3 DEF destroy_each
  <2> QED
    BY <2>2, <2>3
<1>6. CASE base_dtor
  <2>1. /\ UNCHANGED <<state_, overwritten, phase>> /\ server = "gone"
        /\ registered' = [b \in Conns |-> registered[b] /\ io_loop[b] # Base]
    BY <1>6 DEF base_dtor
  <2>2. phase[Base] = "exited"
    BY <1>1, <2>1 DEF DownInv
  <2>3. RegMoves(c)
    BY <2>1, <2>2 DEF RegMoves
  <2>4. StateMoves(c)
    BY <1>1, <2>1 DEF StateMoves
  <2> QED
    BY <2>3, <2>4
<1>7. ASSUME NEW d \in Conns, shutdown_store(d) PROVE StateMoves(c) /\ RegMoves(c)
  <2>1. /\ closer[d] = "tested" /\ registered' = registered
        /\ state_' = [state_ EXCEPT ![d] = "DISCONNENTING"]
        /\ overwritten' = IF state_[d] = "DISCONNECTED" THEN overwritten \cup {d} ELSE overwritten
    BY <1>7 DEF shutdown_store
  <2>2. state_[d] \notin {"none", "CONNENTING"}
    BY <1>1, <2>1 DEF UserInv
  <2>3. RegMoves(c)
    BY <2>1 DEF RegMoves
  <2>4. CASE c = d
    <3>1. state_'[c] = "DISCONNENTING" /\ (c \in overwritten => c \in overwritten')
      BY <1>1, <2>1, <2>4
    <3>2. state_[c] = "DISCONNECTED" => c \in overwritten'
      BY <2>1, <2>4
    <3> QED
      BY <2>1, <2>2, <2>3, <2>4, <3>1, <3>2 DEF StateMoves
  <2>5. CASE c # d
    <3>1. state_'[c] = state_[c] /\ (c \in overwritten' <=> c \in overwritten)
      BY <1>1, <2>1, <2>5
    <3>2. StateMoves(c)
      BY <1>1, <3>1 DEF StateMoves
    <3> QED
      BY <2>3, <3>2
  <2> QED
    BY <2>4, <2>5
<1>8. ASSUME NEW d \in Conns,
             user_keeps(d) \/ send(d) \/ send_queue(d) \/ shutdown(d) \/ shutdown_queue(d)
               \/ connect(d) \/ peer_closes(d)
      PROVE  StateMoves(c) /\ RegMoves(c)
  BY <1>2, <1>8 DEF user_keeps, send, send_queue, shutdown, shutdown_queue, connect, peer_closes, connVars
<1>9. CASE UNCHANGED vars
  BY <1>2, <1>9 DEF vars, connVars
<1>10. ASSUME Destruction PROVE StateMoves(c) /\ RegMoves(c)
  BY <1>4, <1>5, <1>6, <1>10 DEF Destruction
<1> QED
  BY <1>3, <1>4, <1>7, <1>8, <1>9, <1>10, LoopMoves DEF Next, UserStep

\* Workers get connections that are open.
LEMMA WorkerMoves ==
    ASSUME IInv, [Next]_vars, NEW c \in Conns, user'[c] # "none" \/ closer'[c] # "none"
    PROVE  user[c] # "none" \/ closer[c] # "none" \/ state_[c] = "CONNECTED"
<1> DEFINE P == user[c] # "none" \/ closer[c] # "none" \/ state_[c] = "CONNECTED"
<1>1. /\ user \in [Conns -> {"none", "keeps", "sending", "done"}]
      /\ closer \in [Conns -> {"none", "keeps", "tested", "stored", "done"}]
  BY DEF IInv, CInv, TypeOK
<1>2. ASSUME UNCHANGED <<user, closer>> PROVE P
  BY <1>2
<1>3. ASSUME NEW n \in PoolSizes, start(n) PROVE P
  BY <1>2, <1>3 DEF start
<1>4. ASSUME NEW l \in Loops, LoopStep(l) PROVE P
  BY <1>2, <1>4 DEF LoopStep, poll, accept, handle_event, handle_write, swap_functors, run_functor, end_functors
<1>5. CASE quit \/ Destruction
  BY <1>2, <1>5 DEF quit, Destruction, server_dtor, destroy_each, members_pool, members_acceptor, base_dtor
<1>6. ASSUME NEW d \in Conns, user_keeps(d) PROVE P
  BY <1>1, <1>6 DEF user_keeps
<1>7. ASSUME NEW d \in Conns, UserStep(d) PROVE P
  <2>1. CASE send(d) \/ send_queue(d)
    <3>1. user[d] # "none" /\ closer' = closer /\ \A b \in Conns : b # d => user'[b] = user[b]
      BY <1>1, <2>1 DEF send, send_queue
    <3> QED
      BY <3>1
  <2>2. CASE shutdown(d) \/ shutdown_store(d) \/ shutdown_queue(d)
    <3>1. closer[d] # "none" /\ user' = user /\ \A b \in Conns : b # d => closer'[b] = closer[b]
      BY <1>1, <2>2 DEF shutdown, shutdown_store, shutdown_queue
    <3> QED
      BY <3>1
  <2> QED
    BY <1>7, <2>1, <2>2 DEF UserStep
<1>8. ASSUME NEW d \in Conns, connect(d) \/ peer_closes(d) PROVE P
  BY <1>2, <1>8 DEF connect, peer_closes
<1>9. CASE UNCHANGED vars
  BY <1>2, <1>9 DEF vars
<1>10. P
  BY <1>3, <1>4, <1>5, <1>6, <1>7, <1>8, <1>9 DEF Next
<1> QED
  BY <1>10

LEMMA UserInvStep ==
    ASSUME IInv, [Next]_vars
    PROVE  UserInv'
<1>1. ASSUME NEW c \in Conns, user'[c] # "none" \/ closer'[c] # "none"
      PROVE  state_'[c] \notin {"none", "CONNENTING"}
  <2>1. state_[c] \notin {"none", "CONNENTING"} /\ state_[c] \in States
    BY <1>1, WorkerMoves DEF IInv, CInv, TypeOK, UserInv
  <2>2. StateMoves(c)
    BY ConnMoves
  <2> QED
    BY <2>1, <2>2 DEF StateMoves
<1>2. ASSUME NEW c \in Conns, c \in overwritten'
      PROVE  state_'[c] \in {"DISCONNENTING", "DISCONNECTED"}
  <2>1. StateMoves(c)
    BY ConnMoves
  <2>2. c \in overwritten => state_[c] \in {"DISCONNENTING", "DISCONNECTED"}
    BY DEF IInv, UserInv
  <2> QED
    BY <1>2, <2>1, <2>2 DEF StateMoves
<1> QED
  BY <1>1, <1>2 DEF UserInv

----------------------------------------------------------------------------
(* What a step does to the queues, and the order of send and destroy_conn. *)

LEMMA AheadAppend ==
    ASSUME NEW D, NEW s \in Seq(Functors), NEW f \in Functors, Ahead(s, D),
           f.op = "send" => \A g \in Elements(s) : g.op = "destroy" /\ g.conn = f.conn => g.conn \in D
    PROVE  Ahead(Append(s, f), D)
<1> DEFINE a == Append(s, f)
<1>1. a \in Seq(Functors) /\ Len(a) = Len(s) + 1 /\ Len(s) \in Nat
  OBVIOUS
<1>2. (\A i \in 1 .. Len(s) : a[i] = s[i]) /\ a[Len(s) + 1] = f
  OBVIOUS
<1> HIDE DEF a
<1>3. 1 .. Len(a) = (1 .. Len(s)) \cup {Len(s) + 1}
  BY <1>1
<1>4. SUFFICES ASSUME NEW i \in 1 .. Len(a), NEW j \in 1 .. Len(a), a[i].op = "destroy",
                      a[j].op = "send", a[j].conn = a[i].conn, a[i].conn \notin D
               PROVE  j <= i
  BY DEF Ahead, a
<1>5. CASE i \in 1 .. Len(s) /\ j \in 1 .. Len(s)
  BY <1>2, <1>4, <1>5 DEF Ahead
<1>6. CASE i = Len(s) + 1
  BY <1>1, <1>6
<1>7. CASE j = Len(s) + 1 /\ i \in 1 .. Len(s)
  <2>1. a[i] = s[i] /\ a[j] = f /\ s[i] \in Elements(s)
    BY <1>2, <1>7 DEF Elements
  <2> QED
    BY <1>4, <2>1
<1> QED
  BY <1>3, <1>5, <1>6, <1>7

LEMMA AheadTail ==
    ASSUME NEW D, NEW s \in Seq(Functors), s # <<>>, Ahead(s, D)
    PROVE  /\ Ahead(Tail(s), D)
           /\ \A f \in Elements(Tail(s)) :
                Head(s).op = "destroy" /\ f.op = "send" /\ f.conn = Head(s).conn => f.conn \in D
<1> DEFINE t == Tail(s)
<1>1. /\ Head(s) = s[1] /\ t \in Seq(Functors)
      /\ Len(s) \in Nat \ {0} /\ Len(t) = Len(s) - 1
      /\ \A i \in 1 .. Len(t) : t[i] = s[i + 1]
  BY HeadTailProperties, EmptySeq
<1> HIDE DEF t
<1>2. \A i \in 1 .. Len(t) : i + 1 \in 1 .. Len(s)
  BY <1>1
<1>3. 1 \in 1 .. Len(s)
  BY <1>1
<1>4. ASSUME NEW i \in 1 .. Len(t), NEW j \in 1 .. Len(t), t[i].op = "destroy",
             t[j].op = "send", t[j].conn = t[i].conn, t[i].conn \notin D
      PROVE  j <= i
  <2>1. j + 1 <= i + 1
    BY <1>1, <1>2, <1>4 DEF Ahead
  <2> QED
    BY <2>1
<1>5. ASSUME NEW f \in Elements(t), Head(s).op = "destroy", f.op = "send", f.conn = Head(s).conn
      PROVE  f.conn \in D
  <2>1. PICK j \in 1 .. Len(t) : f = t[j]
    BY DEF Elements
  <2>2. ~(j + 1 <= 1)
    OBVIOUS
  <2> QED
    BY <1>1, <1>2, <1>3, <1>5, <2>1, <2>2 DEF Ahead
<1>6. Ahead(t, D)
  BY <1>4 DEF Ahead
<1> QED
  BY <1>5, <1>6 DEF t

LEMMA AheadEmpty == ASSUME NEW D PROVE Ahead(<<>>, D)
  BY DEF Ahead

\* What the queues may lose and get: a closed connection more, the whole of one queue,
\* the first functor of a batch, a new functor at the end, the swap.
LEMMA AheadMono ==
    ASSUME NEW p, NEW b, NEW D, NEW E, AllAhead(p, b, D), D \subseteq E
    PROVE  AllAhead(p, b, E)
  BY DEF AllAhead, Ahead

LEMMA AllAheadAppend ==
    ASSUME NEW D, NEW p \in [Loops -> Seq(Functors)], NEW b \in [Loops -> Seq(Functors)],
           AllAhead(p, b, D), NEW k \in Loops, NEW f \in Functors,
           f.op = "send" => \A g \in Elements(p[k]) \cup Elements(b[k]) :
                              g.op = "destroy" /\ g.conn = f.conn => g.conn \in D
    PROVE  AllAhead([p EXCEPT ![k] = Append(@, f)], b, D)
<1> DEFINE q == [p EXCEPT ![k] = Append(@, f)]
<1>1. /\ p[k] \in Seq(Functors) /\ q[k] = Append(p[k], f)
      /\ \A l \in Loops : l # k => q[l] = p[l]
  OBVIOUS
<1> HIDE DEF q
<1>2. Elements(q[k]) = Elements(p[k]) \cup {f}
  BY <1>1, AppendFunctor
<1>3. Ahead(p[k], D)
  BY DEF AllAhead
<1>4. Ahead(q[k], D)
  BY <1>1, <1>3, AheadAppend
<1>5. ASSUME NEW h \in Elements(q[k]), NEW g \in Elements(b[k]), h.op = "send", g.op = "destroy", h.conn = g.conn
      PROVE  h.conn \in D
  <2>1. CASE h = f
    BY <1>5, <2>1
  <2>2. CASE h # f
    <3>1. h \in Elements(p[k])
      BY <1>2, <1>5, <2>2
    <3> QED
      BY <1>5, <3>1 DEF AllAhead
  <2> QED
    BY <2>1, <2>2
<1>6. ASSUME NEW l \in Loops
      PROVE  /\ Ahead(b[l], D) /\ Ahead(q[l], D)
             /\ \A h \in Elements(q[l]), g \in Elements(b[l]) :
                  h.op = "send" /\ g.op = "destroy" /\ h.conn = g.conn => h.conn \in D
  <2>1. CASE l = k
    BY <1>4, <1>5, <2>1 DEF AllAhead
  <2>2. CASE l # k
    BY <1>1, <2>2 DEF AllAhead
  <2> QED
    BY <2>1, <2>2
<1>7. AllAhead(q, b, D)
  BY <1>6 DEF AllAhead
<1> QED
  BY <1>7 DEF q

LEMMA AllAheadTail ==
    ASSUME NEW D, NEW p \in [Loops -> Seq(Functors)], NEW b \in [Loops -> Seq(Functors)],
           AllAhead(p, b, D), NEW l \in Loops, b[l] # <<>>
    PROVE  /\ AllAhead(p, [b EXCEPT ![l] = Tail(@)], D)
           /\ \A f \in Elements(p[l]) \cup Elements(Tail(b[l])) :
                Head(b[l]).op = "destroy" /\ f.op = "send" /\ f.conn = Head(b[l]).conn => f.conn \in D
<1> DEFINE q == [b EXCEPT ![l] = Tail(@)]
<1>1. /\ b[l] \in Seq(Functors) /\ q[l] = Tail(b[l])
      /\ \A k \in Loops : k # l => q[k] = b[k]
  OBVIOUS
<1> HIDE DEF q
<1>2. Elements(b[l]) = {Head(b[l])} \cup Elements(q[l])
  BY <1>1, FirstFunctor
<1>3. Ahead(b[l], D)
  BY DEF AllAhead
<1>4. /\ Ahead(q[l], D)
      /\ \A f \in Elements(q[l]) :
           Head(b[l]).op = "destroy" /\ f.op = "send" /\ f.conn = Head(b[l]).conn => f.conn \in D
  BY <1>1, <1>3, AheadTail
<1>5. \A f \in Elements(p[l]) :
        Head(b[l]).op = "destroy" /\ f.op = "send" /\ f.conn = Head(b[l]).conn => f.conn \in D
  BY <1>2 DEF AllAhead
<1>6. ASSUME NEW k \in Loops
      PROVE  /\ Ahead(q[k], D) /\ Ahead(p[k], D)
             /\ \A h \in Elements(p[k]), g \in Elements(q[k]) :
                  h.op = "send" /\ g.op = "destroy" /\ h.conn = g.conn => h.conn \in D
  <2>1. CASE k = l
    BY <1>2, <1>4, <2>1 DEF AllAhead
  <2>2. CASE k # l
    BY <1>1, <2>2 DEF AllAhead
  <2> QED
    BY <2>1, <2>2
<1>7. AllAhead(p, q, D)
  BY <1>6 DEF AllAhead
<1> QED
  BY <1>1, <1>4, <1>5, <1>7 DEF q

LEMMA AllAheadDrop ==
    ASSUME NEW D, NEW p \in [Loops -> Seq(Functors)], NEW b \in [Loops -> Seq(Functors)],
           AllAhead(p, b, D), NEW l \in Loops
    PROVE  /\ AllAhead([p EXCEPT ![l] = <<>>], b, D)
           /\ b[l] = <<>> => AllAhead([p EXCEPT ![l] = <<>>], [b EXCEPT ![l] = p[l]], D)
<1> DEFINE q == [p EXCEPT ![l] = <<>>]
           r == [b EXCEPT ![l] = p[l]]
<1>1. /\ q[l] = <<>> /\ r[l] = p[l]
      /\ \A k \in Loops : k # l => q[k] = p[k] /\ r[k] = b[k]
  OBVIOUS
<1> HIDE DEF q, r
<1>2. Elements(q[l]) = {} /\ Ahead(q[l], D)
  BY <1>1, EmptyElements, AheadEmpty
<1>3. AllAhead(q, b, D)
  BY <1>1, <1>2 DEF AllAhead
<1>4. AllAhead(q, r, D)
  BY <1>1, <1>2 DEF AllAhead
<1> QED
  BY <1>3, <1>4 DEF q, r

\* A functor that a step queues: a send while the server is up, a destroy_conn when it
\* is not or when the connection was closed.
NewFunctor(f) ==
    /\ f.op = "send" => send_queue(f.conn)
    /\ f.op = "destroy" => \/ server # "up"
                           \/ state_'[f.conn] = "DISCONNECTED" \/ f.conn \in overwritten'

Appended(k, f) == pending' = [pending EXCEPT ![k] = Append(@, f)] /\ NewFunctor(f)

QueueMoves ==
    \/ pending' = pending /\ batch' = batch
    \/ batch' = batch /\ \E k \in Loops : \E f \in Functors : Appended(k, f)
    \/ \E l \in Loops : swap_functors(l)
    \/ \E l \in Loops : batch' = batch /\ pending' = [pending EXCEPT ![l] = <<>>]
    \/ \E l \in Loops : run_functor(l)

LEMMA QueueStep ==
    ASSUME IInv, [Next]_vars
    PROVE  QueueMoves
<1>0. TypeOK /\ Base \in Loops /\ \A c \in Conns : io_loop[c] \in Loops
  BY LoopFacts DEF IInv, CInv, TypeOK
<1>1. ASSUME pending' = pending, batch' = batch PROVE QueueMoves
  BY <1>1 DEF QueueMoves
<1>2. ASSUME batch' = batch, NEW k \in Loops, NEW o \in Ops, NEW c \in Conns,
             queue_in_loop(k, Functor(o, c)), NewFunctor(Functor(o, c))
      PROVE  QueueMoves
  <2>1. Functor(o, c) \in Functors /\ Appended(k, Functor(o, c))
    BY <1>2, FunctorFields DEF queue_in_loop, Appended
  <2> QED
    BY <1>2, <2>1 DEF QueueMoves
<1>3. ASSUME NEW o \in Ops, NEW c \in Conns, o \notin {"send", "destroy"} PROVE NewFunctor(Functor(o, c))
  <2>1. Functor(o, c).op = o
    BY FunctorFields
  <2> QED
    BY <1>3, <2>1 DEF NewFunctor
<1>4. "establish" \in Ops /\ "remove" \in Ops /\ "destroy" \in Ops /\ "send" \in Ops
      /\ "shutdown" \in Ops /\ "callback" \in Ops
  BY DEF Ops
<1>5. CASE accept
  <2>1. batch' = batch
    BY <1>5 DEF accept
  <2>2. CASE pending' = pending
    BY <1>1, <2>1, <2>2
  <2>3. CASE pending' # pending
    <3>1. PICK c \in Conns : new_conn(c)
      BY <1>5, <2>3 DEF accept
    <3>2. queue_in_loop(get_next_loop, Functor("establish", c))
      BY <2>3, <3>1 DEF new_conn
    <3>3. get_next_loop \in Loops
      BY <1>0, LoopFacts DEF Loops
    <3> QED
      BY <1>2, <1>3, <1>4, <2>1, <3>2, <3>3
  <2> QED
    BY <2>2, <2>3
<1>6. ASSUME NEW l \in Loops, NEW c \in Conns, handle_event(l, c) PROVE QueueMoves
  <2>1. batch' = batch
    BY <1>6 DEF handle_event
  <2>2. CASE ~alive(c)
    <3>1. pending' = pending
      BY <1>6, <2>2 DEF handle_event
    <3> QED
      BY <1>1, <2>1, <3>1
  <2>3. CASE alive(c)
    <3>1. state_'[c] = "DISCONNECTED" /\ remove_conn(l, c)
      <4>1. state_' = [state_ EXCEPT ![c] = "DISCONNECTED"] /\ remove_conn(l, c)
        BY <1>6, <2>3 DEF handle_event, handle_close
      <4> QED
        BY <1>0, <4>1 DEF TypeOK
    <3>2. CASE l = Base
      <4>1. queue_in_loop(io_loop[c], Functor("destroy", c))
        BY <3>1, <3>2 DEF remove_conn, remove_conn_in_loop, destroy_loop
      <4>2. NewFunctor(Functor("destroy", c))
        <5>1. Functor("destroy", c).op = "destroy" /\ Functor("destroy", c).conn = c
          BY Removal
        <5> QED
          BY <3>1, <5>1 DEF NewFunctor
      <4> QED
        BY <1>0, <1>2, <1>4, <2>1, <4>1, <4>2
    <3>3. CASE l # Base
      <4>1. queue_in_loop(Base, Functor("remove", c))
        BY <3>1, <3>3 DEF remove_conn
      <4> QED
        BY <1>0, <1>2, <1>3, <1>4, <2>1, <4>1
    <3> QED
      BY <3>2, <3>3
  <2> QED
    BY <2>2, <2>3
<1>7. ASSUME NEW l \in Loops, NEW c \in Conns, handle_write(l, c) PROVE QueueMoves
  <2>1. batch' = batch /\ (pending' = pending \/ queue_in_loop(io_loop[c], Functor("callback", c)))
    BY <1>7 DEF handle_write, may_call_back
  <2> QED
    BY <1>0, <1>1, <1>2, <1>3, <1>4, <2>1
<1>8. ASSUME NEW l \in Loops, end_functors(l) PROVE QueueMoves
  <2>1. batch' = batch /\ (pending' = pending \/ pending' = [pending EXCEPT ![l] = <<>>])
    BY <1>8 DEF end_functors, exit_loop
  <2> QED
    BY <2>1 DEF QueueMoves
<1>9. ASSUME NEW l \in Loops, LoopStep(l) PROVE QueueMoves
  <2>1. CASE poll(l)
    BY <1>1, <2>1 DEF poll
  <2>2. CASE swap_functors(l) \/ run_functor(l)
    BY <2>2 DEF QueueMoves
  <2> QED
    BY <1>5, <1>6, <1>7, <1>8, <1>9, <2>1, <2>2 DEF LoopStep
<1>10. ASSUME NEW c \in Conns, destroy_each(c) PROVE QueueMoves
  <2>1. batch' = batch /\ server = "dtor"
    BY <1>10 DEF destroy_each
  <2>2. CASE io_loop[c] = Base
    <3>1. pending' = pending
      BY <1>10, <2>2 DEF destroy_each
    <3> QED
      BY <1>1, <2>1, <3>1
  <2>3. CASE io_loop[c] # Base
    <3>1. queue_in_loop(io_loop[c], Functor("destroy", c))
      BY <1>10, <2>3 DEF destroy_each
    <3>2. NewFunctor(Functor("destroy", c))
      <4>1. Functor("destroy", c).op = "destroy"
        BY Removal
      <4> QED
        BY <2>1, <4>1 DEF NewFunctor
    <3> QED
      BY <1>0, <1>2, <1>4, <2>1, <3>1, <3>2
  <2> QED
    BY <2>2, <2>3
<1>11. CASE base_dtor
  BY <1>0, <1>11 DEF base_dtor, QueueMoves
<1>12. CASE quit \/ server_dtor \/ members_pool \/ members_acceptor
  BY <1>1, <1>12 DEF quit, server_dtor, members_pool, members_acceptor, loopVars
<1>13. ASSUME NEW n \in PoolSizes, start(n) PROVE QueueMoves
  BY <1>1, <1>13 DEF start, loopVars
<1>14. ASSUME NEW c \in Conns,
              user_keeps(c) \/ send(c) \/ shutdown(c) \/ shutdown_store(c) \/ connect(c) \/ peer_closes(c)
       PROVE  QueueMoves
  BY <1>1, <1>14 DEF user_keeps, send, shutdown, shutdown_store, connect, peer_closes, loopVars
<1>15. ASSUME NEW c \in Conns, send_queue(c) PROVE QueueMoves
  <2>1. batch' = batch /\ queue_in_loop(io_loop[c], Functor("send", c))
    BY <1>15 DEF send_queue
  <2>2. NewFunctor(Functor("send", c))
    <3>1. Functor("send", c).op = "send" /\ Functor("send", c).conn = c
      BY <1>4, FunctorFields
    <3> QED
      BY <1>15, <3>1 DEF NewFunctor
  <2> QED
    BY <1>0, <1>2, <1>4, <2>1, <2>2
<1>16. ASSUME NEW c \in Conns, shutdown_queue(c) PROVE QueueMoves
  <2>1. batch' = batch /\ queue_in_loop(io_loop[c], Functor("shutdown", c))
    BY <1>16 DEF shutdown_queue
  <2> QED
    BY <1>0, <1>2, <1>3, <1>4, <2>1
<1>17. CASE UNCHANGED vars
  BY <1>1, <1>17 DEF vars, loopVars
<1>18. ASSUME Destruction PROVE QueueMoves
  BY <1>10, <1>11, <1>12, <1>18 DEF Destruction
<1> QED
  BY <1>9, <1>12, <1>13, <1>14, <1>15, <1>16, <1>17, <1>18 DEF Next, UserStep

\* What a functor that runs may queue.
LEMMA RunQueues ==
    ASSUME IInv, NEW l \in Loops, run_functor(l)
    PROVE  /\ batch[l] # <<>> /\ batch' = [batch EXCEPT ![l] = Tail(@)]
           /\ pending' = pending \/ \E k \in Loops : \E f \in Functors : f.op \in {"destroy", "callback"} /\ Appended(k, f)
           /\ Head(batch[l]).op = "destroy" => pending' = pending
<1>1. PICK f \in Functors : f = Head(batch[l])
  BY RunFacts
<1>2. PICK c \in Conns : c = f.conn
  BY <1>1 DEF Functors
<1>3. /\ f \in Unrun[l] /\ HoldInv /\ io_loop[c] \in Loops
  BY <1>1, RunFacts DEF IInv, CInv, TypeOK
<1>4. /\ batch[l] # <<>> /\ batch' = [batch EXCEPT ![l] = Tail(@)]
      /\ overwritten' = overwritten
      /\ \/ f.op = "remove" /\ remove_conn_in_loop(c) /\ state_' = state_
         \/ f.op = "send" /\ send_in_loop(c)
         \/ f.op # "remove" /\ pending' = pending
      /\ f.op = "destroy" => pending' = pending
  BY <1>1, <1>2 DEF run_functor
<1>5. CASE f.op = "remove" /\ remove_conn_in_loop(c) /\ state_' = state_
  <2>1. PICK e \in Functors : e = Functor("destroy", c) /\ e.op = "destroy" /\ e.conn = c
    BY Removal
  <2>2. pending' = [pending EXCEPT ![io_loop[c]] = Append(@, e)]
    BY <1>5, <2>1 DEF remove_conn_in_loop, destroy_loop, queue_in_loop
  <2>3. state_'[c] = "DISCONNECTED" \/ c \in overwritten'
    BY <1>2, <1>3, <1>4, <1>5 DEF HoldInv
  <2>4. Appended(io_loop[c], e)
    BY <2>1, <2>2, <2>3 DEF Appended, NewFunctor
  <2> QED
    BY <1>1, <1>3, <1>4, <1>5, <2>1, <2>4
<1>6. CASE f.op = "send" /\ send_in_loop(c)
  <2>1. PICK e \in Functors : e = Functor("callback", c) /\ e.op = "callback" /\ e.conn = c
    BY FunctorFields DEF Ops
  <2>2. pending' = pending \/ pending' = [pending EXCEPT ![io_loop[c]] = Append(@, e)]
    BY <1>6, <2>1 DEF send_in_loop, may_call_back, queue_in_loop
  <2>3. pending' = pending \/ Appended(io_loop[c], e)
    BY <2>1, <2>2 DEF Appended, NewFunctor
  <2> QED
    BY <1>1, <1>3, <1>4, <1>6, <2>1, <2>3
<1> QED
  BY <1>1, <1>4, <1>5, <1>6

\* The functors after a step: those from before, and new ones.
LEMMA UnrunMoves ==
    ASSUME IInv, [Next]_vars, NEW m \in Loops, NEW g \in Unrun'[m]
    PROVE  g \in Unrun[m] \/ NewFunctor(g)
<1>0. TypeOK /\ LoopInv /\ NotOvertaken
  BY DEF IInv, CInv
<1>1. QueueMoves
  BY QueueStep
<1>2. CASE pending' = pending /\ batch' = batch
  BY <1>2, QueuesSame
<1>3. ASSUME batch' = batch, NEW k \in Loops, NEW f \in Functors, Appended(k, f)
      PROVE  g \in Unrun[m] \/ NewFunctor(g)
  <2>1. pending' = [pending EXCEPT ![k] = Append(@, f)] /\ NewFunctor(f)
    BY <1>3 DEF Appended
  <2>2. Unrun' = [Unrun EXCEPT ![k] = @ \cup {f}]
    BY <1>0, <1>3, <2>1, Queued
  <2>3. Unrun'[m] \subseteq Unrun[m] \cup {f}
    BY <2>2 DEF Unrun
  <2> QED
    BY <2>1, <2>3
<1>4. ASSUME NEW l \in Loops, swap_functors(l) PROVE g \in Unrun[m]
  BY <1>0, <1>4, Swapped
<1>5. ASSUME NEW l \in Loops, batch' = batch, pending' = [pending EXCEPT ![l] = <<>>]
      PROVE  g \in Unrun[m]
  <2>1. Unrun' = [Unrun EXCEPT ![l] = Elements(batch[l])]
    BY <1>0, <1>5, Dropped
  <2> QED
    BY <2>1 DEF Unrun
<1>6. ASSUME NEW l \in Loops, run_functor(l) PROVE g \in Unrun[m] \/ NewFunctor(g)
  <2>1. /\ batch[l] # <<>> /\ batch' = [batch EXCEPT ![l] = Tail(@)]
        /\ pending' = pending \/ \E k \in Loops : \E f \in Functors : f.op \in {"destroy", "callback"} /\ Appended(k, f)
    BY <1>6, RunQueues
  <2>2. CASE pending' = pending
    BY <1>0, <2>1, <2>2, Popped
  <2>3. ASSUME NEW k \in Loops, NEW f \in Functors, f.op \in {"destroy", "callback"}, Appended(k, f)
        PROVE  g \in Unrun[m] \/ NewFunctor(g)
    <3>1. pending' = [pending EXCEPT ![k] = Append(@, f)] /\ NewFunctor(f) /\ f.op # "establish"
      BY <2>3 DEF Appended
    <3>2. batch[l] # <<>> /\ batch' = [batch EXCEPT ![l] = Tail(@)]
      BY <2>1
    <3>3. Unrun'[m] \subseteq Unrun[m] \cup {f}
      BY <1>0, <3>1, <3>2, PoppedQueued, Zenon
    <3> QED
      BY <3>1, <3>3
  <2> QED
    BY <2>1, <2>2, <2>3
<1> QED
  BY <1>1, <1>2, <1>3, <1>4, <1>5, <1>6 DEF QueueMoves

\* A connection that was closed stays so, behind a shutdown's store or not.
LEMMA ClosedStep ==
    ASSUME IInv, [Next]_vars
    PROVE  ClosedConns \subseteq ClosedConns'
<1>1. ASSUME NEW c \in Conns, Closed(c) PROVE state_'[c] = "DISCONNECTED" \/ c \in overwritten'
  <2>1. StateMoves(c)
    BY ConnMoves
  <2> QED
    BY <1>1, <2>1 DEF StateMoves
<1> QED
  BY <1>1 DEF ClosedConns

\* A send is queued while the server is up, when destroy_conn is queued for closed
\* connections only; what the destructor queues comes after it.
LEMMA AheadStep ==
    ASSUME IInv, [Next]_vars
    PROVE  AllAhead(pending', batch', ClosedConns')
<1>0. /\ TypeOK /\ LoopInv /\ DownInv /\ SendInv
      /\ pending \in [Loops -> Seq(Functors)] /\ batch \in [Loops -> Seq(Functors)]
  BY DEF IInv, CInv, TypeOK
<1>1. PICK D : D = ClosedConns'
  OBVIOUS
<1>2. AllAhead(pending, batch, D)
  BY <1>0, <1>1, ClosedStep, AheadMono DEF SendInv
<1>3. ASSUME NEW f \in Functors, f.op = "send", NewFunctor(f), NEW k \in Loops, NEW g \in Unrun[k],
             g.op = "destroy", g.conn = f.conn
      PROVE  g.conn \in D
  <2>1. user[f.conn] = "sending"
    BY <1>3 DEF NewFunctor, send_queue
  <2>2. f.conn \in Conns
    BY DEF Functors
  <2>3. server = "up"
    BY <1>0, <2>1, <2>2 DEF DownInv
  <2>4. Closed(g.conn)
    BY <1>0, <1>3, <2>3 DEF SendInv
  <2> QED
    BY <1>1, <1>3, <2>2, <2>4, ClosedStep DEF ClosedConns
<1>4. QueueMoves
  BY QueueStep
<1>5. ASSUME pending' = pending, batch' = batch PROVE AllAhead(pending', batch', D)
  BY <1>2, <1>5
<1>6. ASSUME batch' = batch, NEW k \in Loops, NEW f \in Functors, Appended(k, f)
      PROVE  AllAhead(pending', batch', D)
  <2>1. pending' = [pending EXCEPT ![k] = Append(@, f)] /\ NewFunctor(f)
    BY <1>6 DEF Appended
  <2>2. f.op = "send" => \A g \in Elements(pending[k]) \cup Elements(batch[k]) :
                           g.op = "destroy" /\ g.conn = f.conn => g.conn \in D
    BY <1>3, <2>1 DEF Unrun
  <2>3. AllAhead([pending EXCEPT ![k] = Append(@, f)], batch, D)
    BY <1>0, <1>2, <2>2, AllAheadAppend
  <2> QED
    BY <1>6, <2>1, <2>3
<1>7. ASSUME NEW l \in Loops, swap_functors(l) PROVE AllAhead(pending', batch', D)
  <2>1. /\ batch[l] = <<>> /\ pending' = [pending EXCEPT ![l] = <<>>]
        /\ batch' = [batch EXCEPT ![l] = pending[l]]
    BY <1>0, <1>7 DEF LoopInv, swap_functors
  <2>2. AllAhead([pending EXCEPT ![l] = <<>>], [batch EXCEPT ![l] = pending[l]], D)
    BY <1>0, <1>2, <2>1, AllAheadDrop
  <2> QED
    BY <2>1, <2>2
<1>8. ASSUME NEW l \in Loops, batch' = batch, pending' = [pending EXCEPT ![l] = <<>>]
      PROVE  AllAhead(pending', batch', D)
  <2>1. AllAhead([pending EXCEPT ![l] = <<>>], batch, D)
    BY <1>0, <1>2, AllAheadDrop
  <2> QED
    BY <1>8, <2>1
<1>9. ASSUME NEW l \in Loops, run_functor(l) PROVE AllAhead(pending', batch', D)
  <2>1. /\ batch[l] # <<>> /\ batch' = [batch EXCEPT ![l] = Tail(@)]
        /\ pending' = pending \/ \E k \in Loops : \E f \in Functors : f.op \in {"destroy", "callback"} /\ Appended(k, f)
    BY <1>9, RunQueues
  <2>2. AllAhead(pending, [batch EXCEPT ![l] = Tail(@)], D)
    BY <1>0, <1>2, <2>1, AllAheadTail
  <2>3. AllAhead(pending, batch', D)
    BY <2>1, <2>2
  <2>4. CASE pending' = pending
    BY <2>3, <2>4
  <2>5. ASSUME NEW k \in Loops, NEW f \in Functors, f.op \in {"destroy", "callback"}, Appended(k, f)
        PROVE  AllAhead(pending', batch', D)
    <3>1. pending' = [pending EXCEPT ![k] = Append(@, f)] /\ f.op # "send"
      BY <2>5 DEF Appended
    <3>2. batch' \in [Loops -> Seq(Functors)]
      <4>1. batch[l] \in Seq(Functors)
        BY <1>0
      <4>2. Tail(batch[l]) \in Seq(Functors)
        BY <2>1, <4>1, FirstFunctor
      <4> QED
        BY <1>0, <2>1, <4>2
    <3>3. AllAhead([pending EXCEPT ![k] = Append(@, f)], batch', D)
      BY <1>0, <2>3, <3>1, <3>2, AllAheadAppend
    <3> QED
      BY <3>1, <3>3
  <2> QED
    BY <2>1, <2>4, <2>5
<1>10. AllAhead(pending', batch', D)
  BY <1>4, <1>5, <1>6, <1>7, <1>8, <1>9 DEF QueueMoves
<1> QED
  BY <1>1, <1>10

\* No loop comes back, and no server.
LEMMA EndedStaysEnded ==
    ASSUME IInv, [Next]_vars
    PROVE  /\ server # "up" => server' # "up"
           /\ \A l \in Loops : phase[l] = "exited" => phase'[l] = "exited"
<1> DEFINE P == /\ server # "up" => server' # "up"
                /\ \A l \in Loops : phase[l] = "exited" => phase'[l] = "exited"
<1>1. phase \in [Loops -> {"poll", "handle", "functors", "exited"}]
  BY DEF IInv, CInv, TypeOK
<1>2. ASSUME UNCHANGED <<server, phase>> PROVE P
  BY <1>2
<1>3. ASSUME NEW n \in PoolSizes, start(n) PROVE P
  BY <1>2, <1>3 DEF start, loopVars
<1>4. ASSUME NEW l \in Loops, poll(l) \/ swap_functors(l) \/ end_functors(l) PROVE P
  <2>1. server' = server /\ phase[l] # "exited" /\ \E q \in {"poll", "handle", "functors", "exited"} : phase' = [phase EXCEPT ![l] = q]
    BY <1>4 DEF poll, swap_functors, end_functors, exit_loop, serverVars, startVars
  <2> QED
    BY <1>1, <2>1
<1>5. ASSUME NEW l \in Loops, LoopStep(l) PROVE P
  <2>1. CASE accept
    BY <1>2, <2>1 DEF accept, startVars
  <2>2. ASSUME NEW c \in Conns, handle_event(l, c) \/ handle_write(l, c) PROVE P
    BY <1>2, <2>2 DEF handle_event, handle_write, serverVars, startVars
  <2>3. CASE run_functor(l)
    BY <1>2, <2>3 DEF run_functor, startVars
  <2> QED
    BY <1>4, <1>5, <2>1, <2>2, <2>3 DEF LoopStep
<1>6. CASE quit
  BY <1>2, <1>6 DEF quit, loopVars
<1>7. CASE Destruction
  BY <1>7 DEF Destruction, server_dtor, destroy_each, members_pool, members_acceptor, base_dtor,
              startVars, loopVars
<1>8. ASSUME NEW c \in Conns, user_keeps(c) \/ UserStep(c) \/ connect(c) \/ peer_closes(c) PROVE P
  BY <1>2, <1>8 DEF user_keeps, UserStep, send, send_queue, shutdown, shutdown_store, shutdown_queue,
                    connect, peer_closes, serverVars, startVars, loopVars
<1>9. CASE UNCHANGED vars
  BY <1>2, <1>9 DEF vars, serverVars, startVars, loopVars
<1>10. P
  BY <1>3, <1>5, <1>6, <1>7, <1>8, <1>9 DEF Next
<1> QED
  BY <1>10

LEMMA SendInvStep ==
    ASSUME IInv, [Next]_vars
    PROVE  SendInv'
<1>0. /\ TypeOK /\ DownInv /\ UserInv /\ SendInv /\ TypeOK'
      /\ state_ \in [Conns -> States]
      /\ pending \in [Loops -> Seq(Functors)] /\ batch \in [Loops -> Seq(Functors)]
  BY CInvStep DEF IInv, CInv, TypeOK
<1>1. AllAhead(pending', batch', ClosedConns')
  BY AheadStep
<1>2. \A c \in Conns : Closed(c) => state_'[c] = "DISCONNECTED" \/ c \in overwritten'
  BY ClosedStep DEF ClosedConns
<1>3. /\ server # "up" => server' # "up"
      /\ \A l \in Loops : phase[l] = "exited" => phase'[l] = "exited"
  BY EndedStaysEnded
<1>4. ASSUME NEW l \in Loops, NEW f \in Unrun'[l], f.op = "destroy"
      PROVE  server' # "up" \/ state_'[f.conn] = "DISCONNECTED" \/ f.conn \in overwritten'
  <2>1. CASE NewFunctor(f)
    BY <1>3, <1>4, <2>1 DEF NewFunctor
  <2>2. CASE f \in Unrun[l]
    <3>1. f.conn \in Conns
      BY <1>0, <2>2, TypePlaced DEF Functors
    <3>2. server # "up" \/ Closed(f.conn)
      BY <1>0, <1>4, <2>2 DEF SendInv
    <3> QED
      BY <1>2, <1>3, <3>1, <3>2
  <2> QED
    BY <2>1, <2>2, UnrunMoves
<1>5. ASSUME NEW c \in Conns, server' = "up", state_'[c] \in {"CONNECTED", "DISCONNENTING"},
             ~(state_'[c] = "DISCONNECTED" \/ c \in overwritten')
      PROVE  registered'[c]
  <2>1. server = "up" /\ ~Closed(c)
    BY <1>2, <1>3, <1>5
  <2>2. StateMoves(c) /\ RegMoves(c)
    BY ConnMoves
  <2>3. state_[c] \in {"CONNECTED", "DISCONNENTING"} \/ registered'[c]
    <3>1. state_[c] \in States
      BY <1>0
    <3> QED
      BY <1>5, <2>1, <2>2, <3>1 DEF StateMoves
  <2>4. CASE state_[c] \in {"CONNECTED", "DISCONNENTING"}
    <3>1. registered[c]
      BY <1>0, <2>1, <2>4 DEF SendInv
    <3>2. ASSUME NEW l \in Loops, run_functor(l), Head(batch[l]).op = "destroy", Head(batch[l]).conn = c
          PROVE  FALSE
      <4>1. PICK f \in Functors : f = Head(batch[l])
        BY <3>2, RunFacts
      <4>2. f \in Unrun[l] /\ f.op = "destroy" /\ f.conn = c
        BY <3>2, <4>1, RunFacts
      <4> QED
        BY <1>0, <2>1, <4>2 DEF SendInv
    <3> QED
      BY <2>1, <2>2, <3>1, <3>2 DEF RegMoves
  <2> QED
    BY <2>3, <2>4
<1>6. ASSUME NEW l \in Loops, NEW f \in Unrun'[l], f.op = "send"
      PROVE  \/ registered'[f.conn]
             \/ state_'[f.conn] = "DISCONNECTED" \/ f.conn \in overwritten'
             \/ phase'[l] = "exited"
  <2>1. CASE NewFunctor(f)
    <3>1. send_queue(f.conn)
      BY <1>6, <2>1 DEF NewFunctor
    <3>2. user[f.conn] = "sending" /\ UNCHANGED <<registered, state_, overwritten>>
      BY <3>1 DEF send_queue, connVars
    <3>3. f.conn \in Conns
      <4>1. f \in Functors
        BY <1>0, <1>6 DEF TypeOK, Unrun, Elements
      <4> QED
        BY <4>1 DEF Functors
    <3>4. server = "up" /\ state_[f.conn] \notin {"none", "CONNENTING"} /\ state_[f.conn] \in States
      BY <1>0, <3>2, <3>3 DEF DownInv, UserInv
    <3>5. registered[f.conn] \/ Closed(f.conn)
      BY <1>0, <3>3, <3>4 DEF SendInv
    <3> QED
      BY <3>2, <3>5
  <2>2. CASE f \in Unrun[l]
    <3>1. PICK c \in Conns : c = f.conn /\ l = io_loop[c]
      BY <1>0, <1>6, <2>2, TypePlaced DEF Placed, Functors
    <3>2. registered[c] \/ Closed(c) \/ phase[l] = "exited"
      BY <1>0, <1>6, <2>2, <3>1 DEF SendInv
    <3>3. ASSUME registered[c], ~registered'[c], ~(state_'[c] = "DISCONNECTED" \/ c \in overwritten')
          PROVE  phase'[l] = "exited"
      <4>1. RegMoves(c) /\ ~Closed(c)
        BY <1>2, <3>3, ConnMoves
      <4>2. ASSUME NEW k \in Loops, run_functor(k), Head(batch[k]).op = "destroy", Head(batch[k]).conn = c
            PROVE  FALSE
        <5>1. k = l
          BY <3>1, <4>2, RunFacts
        <5>2. /\ batch[k] # <<>> /\ batch' = [batch EXCEPT ![k] = Tail(@)] /\ pending' = pending
          BY <4>2, RunQueues
        <5>3. batch'[k] = Tail(batch[k])
          BY <1>0, <5>2
        <5>4. f \in Elements(pending[k]) \cup Elements(Tail(batch[k]))
          BY <1>6, <5>1, <5>2, <5>3 DEF Unrun
        <5>5. AllAhead(pending, batch, ClosedConns)
          BY <1>0 DEF SendInv
        <5>6. f.conn \in ClosedConns
          BY <1>0, <1>6, <3>1, <4>2, <5>2, <5>4, <5>5, AllAheadTail
        <5> QED
          BY <3>1, <4>1, <5>6 DEF ClosedConns
      <4> QED
        BY <3>1, <3>3, <4>1, <4>2 DEF RegMoves
    <3> QED
      BY <1>2, <1>3, <3>1, <3>2, <3>3
  <2> QED
    BY <2>1, <2>2, UnrunMoves
<1> QED
  BY <1>1, <1>4, <1>5, <1>6 DEF SendInv

\* Every step of the loops, of the server's owner, of the user's threads and of the
\* peers keeps IInv: every functor on the loop it is meant for and none that overtakes
\* establish_conn, a registered channel held by the map or by a functor still to
\* run, no send left behind destroy_conn, and the teardown in its order.
THEOREM InductiveInvariant == Spec => []IInv
<1>1. Init => IInv
  BY InitIInv
<1>2. IInv /\ [Next]_vars => IInv'
  BY CInvStep, UserInvStep, SendInvStep DEF IInv
<1> QED
  BY <1>1, <1>2, PTL DEF Spec

\* Every variable keeps its type, and every functor is queued on the loop its code is
\* written for.
THEOREM TypeCorrect == Spec => []TypeOK
<1>1. IInv => TypeOK
  BY DEF IInv, CInv
<1> QED
  BY <1>1, InductiveInvariant, PTL

\* No loop has the channel of a freed connection in its epoll set or in its list of
\* active channels, for any number of loops and connections: the two-step removal
\* (erase on the base loop, destroy_conn on the connection's own) is enough, also for
\* connections that workers send on and shut down meanwhile, unless the store of a
\* shutdown turns DISCONNECTED into DISCONNENTING.
THEOREM ChannelsStayAlive == Spec => []ChannelsAlive
<1>1. IInv => ChannelsAlive
  <2> SUFFICES ASSUME IInv, NEW c \in Conns, c \notin overwritten,
                      registered[c] \/ \E l \in Loops : c \in active[l]
               PROVE  alive(c)
    BY DEF ChannelsAlive
  <2>1. registered[c]
    BY DEF IInv, CInv, LoopInv
  <2>2. Held(c) /\ Base \in Loops /\ io_loop[c] \in Loops
    BY <2>1, LoopFacts DEF IInv, CInv, HoldInv, TypeOK
  <2>3. ASSUME NEW l \in Loops, NEW f \in Unrun[l], Binds(f, c) PROVE alive(c)
    BY <2>3 DEF Unrun, alive
  <2>4. Binds(Functor("remove", c), c) /\ Binds(Functor("destroy", c), c)
    BY Removal DEF Binds
  <2>5. c \in conns_ => alive(c)
    BY DEF alive
  <2> QED
    BY <2>2, <2>3, <2>4, <2>5 DEF Held
<1> QED
  BY <1>1, InductiveInvariant, PTL

\* While the server is up, a connection that is open, on its way to be or shutting
\* down is in conns_, where ~tcp_server will find it, unless it was closed and a
\* shutdown has overwritten the state since.
THEOREM OpenIsMapped == Spec => []OpenMeansMapped
<1>1. IInv => OpenMeansMapped
  BY DEF IInv, CInv
<1> QED
  BY <1>1, InductiveInvariant, PTL

\* The server outlives the pool's threads, and nothing is queued on a loop of the
\* pool after it has gone.
THEOREM TeardownOrdered == Spec => []TeardownOrder
<1>1. IInv => TeardownOrder
  <2>1. \A l \in Elements(IoLoops) : l \in Loops /\ l # Base
    BY LoopFacts DEF Loops
  <2> QED
    BY <2>1 DEF IInv, CInv, DownInv, TeardownOrder
<1> QED
  BY <1>1, InductiveInvariant, PTL

----------------------------------------------------------------------------
(* What no step does.                                                      *)

\* A connection is opened once: a state is never left backwards, and a channel that
\* destroy_conn or a loop's end took out of the epoll set never comes back into it,
\* whether through an establish_conn that comes late or through the update_chan that
\* handle_close, handle_write and send_in_loop end in.  The one way back is a shutdown
\* that tested state_ before the connection was closed and stores after it.
OpensOnce ==
    [][\A c \in Conns :
         /\ state_[c] = "CONNECTED" => state_'[c] \in {"CONNECTED", "DISCONNENTING", "DISCONNECTED"}
         /\ state_[c] = "DISCONNENTING" => state_'[c] \in {"DISCONNENTING", "DISCONNECTED"}
         /\ state_[c] = "DISCONNECTED" => state_'[c] = "DISCONNECTED" \/ closer[c] = "tested"
         /\ ~registered[c] /\ registered'[c] =>
              state_[c] \in {"none", "CONNENTING"} \/ c \in overwritten]_vars

\* When the last reference to a connection is gone nothing makes a new one: no
\* functor is bound to a freed connection, and the map does not get it back.
FreedForGood ==
    [][\A c \in Conns : state_[c] # "none" /\ ~alive(c) => ~alive(c)']_vars

\* Whatever the other threads do meanwhile, a connection goes through its states in
\* order and is registered once, up to that store.
THEOREM ConnectionsOpenOnce == Spec => OpensOnce
<1>1. IInv /\ [Next]_vars =>
        [\A c \in Conns :
           /\ state_[c] = "CONNECTED" => state_'[c] \in {"CONNECTED", "DISCONNENTING", "DISCONNECTED"}
           /\ state_[c] = "DISCONNENTING" => state_'[c] \in {"DISCONNENTING", "DISCONNECTED"}
           /\ state_[c] = "DISCONNECTED" => state_'[c] = "DISCONNECTED" \/ closer[c] = "tested"
           /\ ~registered[c] /\ registered'[c] =>
                state_[c] \in {"none", "CONNENTING"} \/ c \in overwritten]_vars
  BY ConnMoves DEF StateMoves, RegMoves
<1> QED
  BY <1>1, InductiveInvariant, PTL DEF Spec, OpensOnce

\* Something that binds a connection keeps it.
LEMMA BoundIsAlive ==
    ASSUME NEW c \in Conns, NEW l \in Loops, NEW f \in Unrun[l] \cup ran[l], Binds(f, c)
    PROVE  alive(c)
  BY DEF alive, Unrun

\* A step that gives a freed connection no new reference.
LEMMA StaysFreed ==
    ASSUME NEW c \in Conns, ~alive(c), c \notin conns_', ~Holds(c)',
           \A l \in Loops : \A f \in Unrun'[l] \cup ran'[l] : Binds(f, c) => f \in Unrun[l] \cup ran[l]
    PROVE  ~alive(c)'
<1>1. SUFFICES ASSUME alive(c)' PROVE FALSE
  OBVIOUS
<1>2. PICK l \in Loops : \E f \in Unrun'[l] \cup ran'[l] : Binds(f, c)
  BY <1>1 DEF alive, Unrun, Binds
<1>3. \E f \in Unrun[l] \cup ran[l] : Binds(f, c)
  BY <1>2
<1> QED
  BY <1>3, BoundIsAlive

\* No step gives a freed connection a reference.
LEMMA FreedStep ==
    ASSUME IInv, [Next]_vars, NEW c \in Conns, state_[c] # "none", ~alive(c)
    PROVE  ~alive(c)'
<1>0. TypeOK /\ LoopInv /\ NotOvertaken
  BY DEF IInv, CInv
<1>1. c \notin conns_ /\ ~Holds(c)
  BY DEF alive
<1>2. \A l \in Loops : \A f \in Unrun[l] \cup ran[l] : ~Binds(f, c)
  BY BoundIsAlive
<1>3. ASSUME conns_' \subseteq conns_, user' = user, closer' = closer,
             \A l \in Loops : Unrun'[l] \subseteq Unrun[l] /\ ran'[l] \subseteq Unrun[l] \cup ran[l]
      PROVE  ~alive(c)'
  BY <1>1, <1>3, StaysFreed
<1>4. ASSUME NEW d \in Conns, d # c, conns_' \subseteq conns_ \cup {d}, user' = user, closer' = closer,
             NEW o \in Ops,
             \A l \in Loops : /\ Unrun'[l] \subseteq Unrun[l] \cup {Functor(o, d)}
                              /\ ran'[l] \subseteq Unrun[l] \cup ran[l]
      PROVE  ~alive(c)'
  <2>1. ~Binds(Functor(o, d), c)
    BY <1>4, FunctorFields DEF Binds
  <2> QED
    BY <1>1, <1>4, <2>1, StaysFreed
<1>5. ASSUME NEW n \in PoolSizes, start(n) PROVE ~alive(c)'
  <2>1. UNCHANGED <<pending, batch, ran, conns_, user, closer, overwritten>>
    BY <1>5 DEF start, loopVars
  <2> QED
    BY <1>3, <2>1, QueuesSame
<1>6. ASSUME NEW l \in Loops, poll(l) PROVE ~alive(c)'
  <2>1. UNCHANGED <<pending, batch, ran, conns_, user, closer, overwritten>>
    BY <1>6 DEF poll, serverVars
  <2> QED
    BY <1>3, <2>1, QueuesSame
<1>7. CASE accept
  <2>1. batch' = batch /\ ran' = ran /\ user' = user /\ closer' = closer
    BY <1>7 DEF accept
  <2>2. CASE can_accept
    <3>1. PICK d \in Conns : peer[d] = "backlog" /\ new_conn(d)
      BY <1>7, <2>2 DEF accept
    <3>2. d # c
      BY <3>1 DEF IInv, CInv, FreshInv
    <3>3. conns_' = conns_ \cup {d}
      BY <3>1 DEF new_conn, mapped
    <3>4. "establish" \in Ops /\ Functor("establish", d) \in Functors
      BY FunctorFields DEF Ops
    <3>5. get_next_loop \in Loops
      BY <1>0, LoopFacts DEF Loops
    <3>6. \A l \in Loops : Unrun'[l] \subseteq Unrun[l] \cup {Functor("establish", d)}
      <4>1. CASE get_next_loop = Base
        <5>1. pending' = pending
          BY <3>1, <4>1 DEF new_conn
        <5> QED
          BY <2>1, <5>1, QueuesSame
      <4>2. CASE get_next_loop # Base
        <5>1. pending' = [pending EXCEPT ![get_next_loop] = Append(@, Functor("establish", d))]
          BY <3>1, <4>2 DEF new_conn, queue_in_loop
        <5>2. Unrun' = [Unrun EXCEPT ![get_next_loop] = @ \cup {Functor("establish", d)}]
          BY <1>0, <2>1, <3>4, <3>5, <5>1, Queued
        <5> QED
          BY <5>2 DEF Unrun
      <4> QED
        BY <4>1, <4>2
    <3> QED
      BY <1>4, <2>1, <3>2, <3>3, <3>4, <3>6
  <2>3. CASE ~can_accept
    <3>1. UNCHANGED <<pending, conns_>>
      BY <1>7, <2>3 DEF accept
    <3> QED
      BY <1>3, <2>1, <3>1, QueuesSame
  <2> QED
    BY <2>2, <2>3
<1>8. ASSUME NEW l \in Loops, NEW d \in Conns, handle_event(l, d) PROVE ~alive(c)'
  <2>1. batch' = batch /\ ran' = ran /\ user' = user /\ closer' = closer
    BY <1>8 DEF handle_event
  <2>2. CASE alive(d)
    <3>1. remove_conn(l, d) /\ d # c
      BY <1>8, <2>2 DEF handle_event, handle_close
    <3>2. /\ Functor("remove", d) \in Functors /\ Functor("destroy", d) \in Functors
          /\ "remove" \in Ops /\ "destroy" \in Ops
      BY Removal DEF Ops
    <3>3. Base \in Loops /\ io_loop[d] \in Loops
      BY <1>0, LoopFacts DEF TypeOK
    <3>4. CASE l = Base
      <4>1. /\ conns_' \subseteq conns_
            /\ pending' = [pending EXCEPT ![io_loop[d]] = Append(@, Functor("destroy", d))]
        BY <3>1, <3>4 DEF remove_conn, remove_conn_in_loop, erased, destroy_loop, queue_in_loop
      <4>2. Unrun' = [Unrun EXCEPT ![io_loop[d]] = @ \cup {Functor("destroy", d)}]
        BY <1>0, <2>1, <3>2, <3>3, <4>1, Queued
      <4>3. \A k \in Loops : Unrun'[k] \subseteq Unrun[k] \cup {Functor("destroy", d)}
        BY <4>2 DEF Unrun
      <4> QED
        BY <1>4, <2>1, <3>1, <3>2, <4>1, <4>3
    <3>5. CASE l # Base
      <4>1. /\ conns_' = conns_
            /\ pending' = [pending EXCEPT ![Base] = Append(@, Functor("remove", d))]
        BY <3>1, <3>5 DEF remove_conn, queue_in_loop
      <4>2. Unrun' = [Unrun EXCEPT ![Base] = @ \cup {Functor("remove", d)}]
        BY <1>0, <2>1, <3>2, <3>3, <4>1, Queued
      <4>3. \A k \in Loops : Unrun'[k] \subseteq Unrun[k] \cup {Functor("remove", d)}
        BY <4>2 DEF Unrun
      <4> QED
        BY <1>4, <2>1, <3>1, <3>2, <4>1, <4>3
    <3> QED
      BY <3>4, <3>5
  <2>3. CASE ~alive(d)
    <3>1. UNCHANGED <<pending, conns_>>
      BY <1>8, <2>3 DEF handle_event
    <3> QED
      BY <1>3, <2>1, <3>1, QueuesSame
  <2> QED
    BY <2>2, <2>3
<1>81. ASSUME NEW l \in Loops, NEW d \in Conns, handle_write(l, d) PROVE ~alive(c)'
  <2>1. UNCHANGED <<batch, ran, conns_, user, closer>> /\ alive(d) /\ may_call_back(d)
    BY <1>81 DEF handle_write, Writable, serverVars
  <2>2. CASE pending' = pending
    BY <1>3, <2>1, <2>2, QueuesSame
  <2>3. CASE pending' # pending
    <3>1. /\ d # c /\ Functor("callback", d) \in Functors /\ "callback" \in Ops /\ io_loop[d] \in Loops
      BY <1>0, <2>1, FunctorFields DEF Ops, TypeOK
    <3>2. pending' = [pending EXCEPT ![io_loop[d]] = Append(@, Functor("callback", d))]
      BY <2>1, <2>3 DEF may_call_back, queue_in_loop
    <3>3. Unrun' = [Unrun EXCEPT ![io_loop[d]] = @ \cup {Functor("callback", d)}]
      BY <1>0, <2>1, <3>1, <3>2, Queued
    <3>4. \A k \in Loops : Unrun'[k] \subseteq Unrun[k] \cup {Functor("callback", d)}
      BY <3>3 DEF Unrun
    <3> QED
      BY <1>4, <2>1, <3>1, <3>4
  <2> QED
    BY <2>2, <2>3
<1>9. ASSUME NEW l \in Loops, swap_functors(l) PROVE ~alive(c)'
  <2>1. Unrun' = Unrun /\ ran' = ran /\ conns_' = conns_ /\ user' = user /\ closer' = closer
    BY <1>0, <1>9, Swapped DEF swap_functors, serverVars
  <2> QED
    BY <1>3, <2>1
<1>10. ASSUME NEW l \in Loops, run_functor(l) PROVE ~alive(c)'
  <2> DEFINE f == Head(batch[l])
  <2>1. /\ f \in Functors /\ f \in Unrun[l] /\ f.conn \in Conns
        /\ \A k \in Loops : ran'[k] \subseteq Unrun[k] \cup ran[k]
    BY <1>10, RunFacts
  <2>2. batch[l] # <<>> /\ batch' = [batch EXCEPT ![l] = Tail(@)] /\ UNCHANGED <<user, closer>>
    BY <1>10 DEF run_functor
  <2>3. \/ f.op = "remove" /\ remove_conn_in_loop(f.conn)
        \/ f.op = "send" /\ send_in_loop(f.conn) /\ UNCHANGED conns_
        \/ UNCHANGED <<conns_, pending>>
    BY <1>10 DEF run_functor
  <2>4. CASE UNCHANGED <<conns_, pending>>
    <3>1. \A k \in Loops : Unrun'[k] \subseteq Unrun[k]
      BY <1>0, <2>2, <2>4, Popped
    <3> QED
      BY <1>3, <2>1, <2>2, <2>4, <3>1
  <2>5. CASE f.op = "remove" /\ remove_conn_in_loop(f.conn)
    <3> DEFINE d == f.conn
               g == Functor("destroy", d)
    <3>1. d \in Conns /\ d # c
      BY <1>2, <2>1, <2>5 DEF Binds
    <3>2. g \in Functors /\ "destroy" \in Ops /\ g.op = "destroy" /\ io_loop[d] \in Loops
      BY <1>0, <3>1, Removal DEF Ops, TypeOK
    <3>3. conns_' \subseteq conns_ /\ pending' = [pending EXCEPT ![io_loop[d]] = Append(@, g)]
      BY <2>5 DEF remove_conn_in_loop, erased, destroy_loop, queue_in_loop
    <3> HIDE DEF f, d
    <3>4. \A k \in Loops : Unrun'[k] \subseteq Unrun[k] \cup {g}
      BY <1>0, <2>2, <3>2, <3>3, PoppedQueued
    <3> QED
      BY <1>4, <2>1, <2>2, <3>1, <3>2, <3>3, <3>4
  <2>6. CASE f.op = "send" /\ send_in_loop(f.conn) /\ UNCHANGED conns_ /\ pending' # pending
    <3> DEFINE d == f.conn
               g == Functor("callback", d)
    <3>1. d \in Conns /\ d # c
      BY <2>1, <2>6 DEF send_in_loop
    <3>2. g \in Functors /\ "callback" \in Ops /\ g.op = "callback" /\ io_loop[d] \in Loops
      BY <1>0, <3>1, FunctorFields DEF Ops, TypeOK
    <3>3. conns_' \subseteq conns_ /\ pending' = [pending EXCEPT ![io_loop[d]] = Append(@, g)]
      BY <2>6 DEF send_in_loop, may_call_back, queue_in_loop
    <3> HIDE DEF f, d
    <3>4. \A k \in Loops : Unrun'[k] \subseteq Unrun[k] \cup {g}
      BY <1>0, <2>2, <3>2, <3>3, PoppedQueued
    <3> QED
      BY <1>4, <2>1, <2>2, <3>1, <3>2, <3>3, <3>4
  <2> QED
    BY <2>3, <2>4, <2>5, <2>6
<1>11. ASSUME NEW l \in Loops, end_functors(l) PROVE ~alive(c)'
  <2>1. /\ conns_' = conns_ /\ UNCHANGED <<user, closer>> /\ batch' = batch
        /\ ran' = [ran EXCEPT ![l] = {}] /\ ran \in [Loops -> SUBSET Functors]
        /\ pending' = pending \/ pending' = [pending EXCEPT ![l] = <<>>]
    BY <1>0, <1>11 DEF end_functors, exit_loop, serverVars, TypeOK
  <2>2. \A k \in Loops : ran'[k] \subseteq ran[k]
    BY <2>1
  <2>3. \A k \in Loops : Unrun'[k] \subseteq Unrun[k]
    <3>1. CASE pending' = pending
      BY <2>1, <3>1, QueuesSame
    <3>2. CASE pending' = [pending EXCEPT ![l] = <<>>]
      <4>1. Unrun' = [Unrun EXCEPT ![l] = Elements(batch[l])]
        BY <1>0, <2>1, <3>2, Dropped
      <4> QED
        BY <4>1 DEF Unrun
    <3> QED
      BY <2>1, <3>1, <3>2
  <2> QED
    BY <1>3, <2>1, <2>2, <2>3
<1>12. CASE quit \/ server_dtor \/ members_pool \/ members_acceptor
  <2>1. UNCHANGED <<pending, batch, ran, conns_, user, closer, overwritten>>
    BY <1>12 DEF quit, server_dtor, members_pool, members_acceptor, loopVars
  <2> QED
    BY <1>3, <2>1, QueuesSame
<1>13. ASSUME NEW d \in Conns, destroy_each(d) PROVE ~alive(c)'
  <2>1. d # c /\ conns_' \subseteq conns_ /\ UNCHANGED <<batch, ran, user, closer, overwritten>>
    BY <1>1, <1>13 DEF destroy_each
  <2>2. CASE io_loop[d] = Base
    <3>1. UNCHANGED pending
      BY <1>13, <2>2 DEF destroy_each
    <3> QED
      BY <1>3, <2>1, <3>1, QueuesSame
  <2>3. CASE io_loop[d] # Base
    <3>1. pending' = [pending EXCEPT ![io_loop[d]] = Append(@, Functor("destroy", d))]
      BY <1>13, <2>3 DEF destroy_each, queue_in_loop
    <3>2. Functor("destroy", d) \in Functors /\ "destroy" \in Ops /\ io_loop[d] \in Loops
      BY <1>0, Removal DEF Ops, TypeOK
    <3>3. Unrun' = [Unrun EXCEPT ![io_loop[d]] = @ \cup {Functor("destroy", d)}]
      BY <1>0, <2>1, <3>1, <3>2, Queued
    <3>4. \A k \in Loops : Unrun'[k] \subseteq Unrun[k] \cup {Functor("destroy", d)}
      BY <3>3 DEF Unrun
    <3> QED
      BY <1>4, <2>1, <3>2, <3>4
  <2> QED
    BY <2>2, <2>3
<1>14. CASE base_dtor
  <2>1. pending' = [pending EXCEPT ![Base] = <<>>] /\ UNCHANGED <<batch, ran, conns_, user, closer, overwritten>>
    BY <1>14 DEF base_dtor
  <2>2. Unrun' = [Unrun EXCEPT ![Base] = Elements(batch[Base])]
    BY <1>0, <2>1, Dropped, LoopFacts
  <2>3. \A k \in Loops : Unrun'[k] \subseteq Unrun[k]
    BY <2>2 DEF Unrun
  <2> QED
    BY <1>3, <2>1, <2>3
<1>15. ASSUME NEW d \in Conns, user_keeps(d) \/ send(d) \/ shutdown(d) \/ shutdown_store(d) PROVE ~alive(c)'
  <2>1. UNCHANGED <<pending, batch, ran, conns_>>
    BY <1>15 DEF user_keeps, send, shutdown, shutdown_store, serverVars, loopVars
  <2>2. alive(d)
    <3>1. CASE user_keeps(d)
      <4>1. server = "up" /\ state_[d] = "CONNECTED"
        BY <3>1 DEF user_keeps
      <4>2. d \notin overwritten
        BY <4>1 DEF IInv, UserInv
      <4> QED
        BY <4>1, <4>2 DEF IInv, CInv, OpenMeansMapped, alive
    <3>2. CASE send(d) \/ shutdown(d) \/ shutdown_store(d)
      BY <3>2 DEF send, shutdown, shutdown_store, alive
    <3> QED
      BY <1>15, <3>1, <3>2
  <2>3. user'[c] = user[c] /\ closer'[c] = closer[c]
    <3>1. c # d
      BY <2>2
    <3> QED
      BY <1>0, <1>15, <3>1 DEF user_keeps, send, shutdown, shutdown_store, TypeOK
  <2> QED
    BY <1>1, <2>1, <2>3, QueuesSame, StaysFreed
<1>16. ASSUME NEW d \in Conns, send_queue(d) \/ shutdown_queue(d) PROVE ~alive(c)'
  <2>1. PICK o \in {"send", "shutdown"} :
          /\ UNCHANGED <<batch, ran, conns_>>
          /\ pending' = [pending EXCEPT ![io_loop[d]] = Append(@, Functor(o, d))]
    BY <1>16 DEF send_queue, shutdown_queue, queue_in_loop, serverVars
  <2>2. Functor(o, d) \in Functors /\ ~Binds(Functor(o, d), c) /\ io_loop[d] \in Loops
    <3>1. o \in Ops
      BY DEF Ops
    <3> QED
      BY <1>0, <3>1, FunctorFields DEF Binds, TypeOK
  <2>3. Unrun' = [Unrun EXCEPT ![io_loop[d]] = @ \cup {Functor(o, d)}]
    <3>1. Functor(o, d).op # "establish"
      BY DEF Functor
    <3> QED
      BY <1>0, <2>1, <2>2, <3>1, Queued
  <2>4. \A k \in Loops : Unrun'[k] \subseteq Unrun[k] \cup {Functor(o, d)}
    BY <2>3 DEF Unrun
  <2>5. ~Holds(c)'
    <3>1. CASE send_queue(d)
      <4>1. closer' = closer /\ user' = [user EXCEPT ![d] = "done"]
        BY <3>1 DEF send_queue
      <4> QED
        BY <1>0, <1>1, <4>1 DEF TypeOK
    <3>2. CASE shutdown_queue(d)
      <4>1. user' = user /\ closer' = [closer EXCEPT ![d] = "done"]
        BY <3>2 DEF shutdown_queue
      <4> QED
        BY <1>0, <1>1, <4>1 DEF TypeOK
    <3> QED
      BY <1>16, <3>1, <3>2
  <2> QED
    BY <1>1, <2>1, <2>2, <2>4, <2>5, StaysFreed
<1>17. ASSUME NEW d \in Conns, connect(d) \/ peer_closes(d) PROVE ~alive(c)'
  <2>1. UNCHANGED <<pending, batch, ran, conns_, user, closer, overwritten>>
    BY <1>17 DEF connect, peer_closes, serverVars, loopVars
  <2> QED
    BY <1>3, <2>1, QueuesSame
<1>18. CASE UNCHANGED vars
  <2>1. UNCHANGED <<pending, batch, ran, conns_, user, closer, overwritten>>
    BY <1>18 DEF vars, serverVars, loopVars
  <2> QED
    BY <1>3, <2>1, QueuesSame
<1>19. ASSUME NEW l \in Loops, LoopStep(l) PROVE ~alive(c)'
  BY <1>6, <1>7, <1>8, <1>81, <1>9, <1>10, <1>11, <1>19 DEF LoopStep
<1>20. ASSUME Destruction PROVE ~alive(c)'
  BY <1>12, <1>13, <1>14, <1>20 DEF Destruction
<1> QED
  BY <1>5, <1>12, <1>15, <1>16, <1>17, <1>18, <1>19, <1>20 DEF Next, UserStep

\* The object of a connection is destroyed once: after the last shared_ptr to it
\* has gone no callback, functor or map entry refers to it again through one.
THEOREM FreedConnsStayFreed == Spec => FreedForGood
<1>1. IInv /\ [Next]_vars =>
        [\A c \in Conns : state_[c] # "none" /\ ~alive(c) => ~alive(c)']_vars
  BY FreedStep
<1> QED
  BY <1>1, InductiveInvariant, PTL DEF Spec, FreedForGood
=============================================================================
