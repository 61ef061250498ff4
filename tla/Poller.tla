------------------------------- MODULE Poller -------------------------------
(***************************************************************************)
(* The channels of one event loop and its epoll_poller (net/chan.cpp,      *)
(* net/epoll_poller.cpp, net/poller.cpp): the interest a channel keeps in  *)
(* events_, its copy in the kernel, the state index_ by which the poller   *)
(* chooses between adding and modifying, the map chs_, the list events_    *)
(* that epoll_wait fills and that doubles when it was full, and the        *)
(* dispatch of one batch of events to the callbacks.                       *)
(*                                                                         *)
(* The owners of the channels are free: between any two steps of the       *)
(* loop, its thread (a callback or a functor) may change the interest of   *)
(* any channel, remove it, or add a removed one again.  An owner may die   *)
(* in another thread; its channel and its fd go when the loop is not about *)
(* to dispatch to it (TcpServer's ChannelsAlive), and the fd is then used  *)
(* by another channel.  The kernel may refuse to add an fd.                *)
(***************************************************************************)
EXTENDS Integers, Sequences, FiniteSets, SequencesExt

CONSTANTS Chans, Fds,
          NoChan,      \* nullptr
          InitSize,    \* INIT_EVENT_LIST_SIZE
          Flags,       \* the events the owners are interested in: within IN, OUT
          Conditions,  \* what can be true of each fd: within IN, OUT, HUP, ERR
          MaxFaults    \* bound: additions the kernel refuses

ASSUME PollerAssumption ==
    /\ NoChan \notin Chans
    /\ Fds # {} /\ IsFiniteSet(Fds)
    /\ InitSize \in Nat \ {0} /\ MaxFaults \in Nat
    /\ Flags \subseteq {"IN", "OUT"}
    /\ Conditions \in [Fds -> SUBSET {"IN", "OUT", "HUP", "ERR"}]

VARIABLES life,      \* life[c]: "unborn", "live", "expired" (tie_ cannot be locked), "gone"
          fd_, events_, index_,   \* the fields of the channels
          chs_,      \* chs_[fd]: the channel the map has for fd, or NoChan
          size,      \* events_.size() of the poller
          epoll,     \* the kernel: epoll[fd] is the entry [ptr, events] of fd
          cond,      \* the kernel: what is true of each fd
          rdlist,    \* the kernel: the entries that are ready, in the order of their turn
          active_chs_, \* the channels of the batch that wait for handle_event, with revents_
          handling,  \* the channel whose handle_event runs
          callbacks, \* what it has still to call
          faults,    \* additions refused so far
          refused,   \* history: the channels whose last addition was refused
          removed    \* history: the channels removed since the last poll

chanVars == <<life, fd_>>
kernelVars == <<epoll, rdlist, faults, refused>>
batchVars == <<active_chs_, handling, callbacks, size>>
vars == <<chanVars, events_, index_, chs_, cond, kernelVars, batchVars, removed>>

NEW_ == -1
ADDED == 1
DELETED == 2
Exists(c) == life[c] \in {"live", "expired"}

\* The kernel's entry for an fd that is not in the epoll set.
NoEntry == [ptr |-> NoChan, events |-> {}]

\* The events epoll reports for an entry: those of its interest that are true of
\* the fd, and HUP and ERR whatever the interest is.
Reported(ep, cn, fd) ==
    IF ep[fd].ptr = NoChan THEN {} ELSE cn[fd] \cap (ep[fd].events \cup {"HUP", "ERR"})

\* The ready list after a change: what is no longer ready leaves it, what has
\* become ready goes to its end, and the others keep their order: whoever is before
\* an entry that was in the list was in it, before that entry.
Requeued(ep, cn) ==
    LET ready == {fd \in Fds : Reported(ep, cn, fd) # {}}
        Before(fd, gd) == \E k, l \in DOMAIN rdlist : k < l /\ rdlist[k] = fd /\ rdlist[l] = gd
    IN  {q \in [1 .. Cardinality(ready) -> ready] :
           /\ IsInjective(q)
           /\ \A i, j \in DOMAIN q : i < j /\ Contains(rdlist, q[j]) => Before(q[i], q[j])}

\* The values each variable may have; rdlist holds exactly the entries that are
\* ready, and live channels have different fds.
TypeOK ==
    /\ life \in [Chans -> {"unborn", "live", "expired", "gone"}]
    /\ fd_ \in [Chans -> Fds]
    /\ \A c, d \in Chans : Exists(c) /\ Exists(d) /\ fd_[c] = fd_[d] => c = d
    /\ events_ \in [Chans -> SUBSET Flags]
    /\ index_ \in [Chans -> {NEW_, ADDED, DELETED}]
    /\ chs_ \in [Fds -> Chans \cup {NoChan}]
    /\ size \in Nat \ {0}
    /\ epoll \in [Fds -> [ptr : Chans \cup {NoChan}, events : SUBSET Flags]]
    /\ \A fd \in Fds : cond[fd] \subseteq Conditions[fd]
    /\ IsInjective(rdlist)
    /\ ToSet(rdlist) = {fd \in Fds : Reported(epoll, cond, fd) # {}}
    /\ active_chs_ \in Seq([ch : Chans, revents_ : SUBSET {"IN", "OUT", "HUP", "ERR"}])
    /\ handling \in Chans \cup {NoChan}
    /\ callbacks \in Seq({"close", "error", "read", "write"})
    /\ faults \in 0 .. MaxFaults
    /\ refused \subseteq Chans
    /\ removed \subseteq Chans

Init ==
    /\ life = [c \in Chans |-> "unborn"]
    /\ fd_ = [c \in Chans |-> CHOOSE fd \in Fds : TRUE]
    /\ events_ = [c \in Chans |-> {}]
    /\ index_ = [c \in Chans |-> NEW_]
    /\ chs_ = [fd \in Fds |-> NoChan]
    /\ size = InitSize
    /\ epoll = [fd \in Fds |-> NoEntry]
    /\ cond = [fd \in Fds |-> {}]
    /\ rdlist = <<>>
    /\ active_chs_ = <<>> /\ handling = NoChan /\ callbacks = <<>>
    /\ faults = 0
    /\ refused = {}
    /\ removed = {}

----------------------------------------------------------------------------
(* epoll_ctl (external) and the poller's two calls.  The calls that change *)
(* a channel end in one of them.                                           *)

EPOLL_CTL_ADD(c, ev) ==
    \/ /\ epoll[fd_[c]].ptr = NoChan
       /\ epoll' = [epoll EXCEPT ![fd_[c]] = [ptr |-> c, events |-> ev]]
       /\ refused' = refused \ {c}
       /\ faults' = faults
    \/ /\ faults < MaxFaults /\ epoll[fd_[c]].ptr = NoChan
       /\ faults' = faults + 1
       /\ refused' = refused \cup {c}
       /\ epoll' = epoll
    \/ /\ epoll[fd_[c]].ptr # NoChan     \* EEXIST
       /\ UNCHANGED <<epoll, refused, faults>>

EPOLL_CTL_MOD(c, ev) ==
    /\ epoll' = IF epoll[fd_[c]].ptr = NoChan    \* ENOENT
                  THEN epoll
                  ELSE [epoll EXCEPT ![fd_[c]] = [ptr |-> c, events |-> ev]]
    /\ UNCHANGED <<refused, faults>>

EPOLL_CTL_DEL(c) ==
    /\ epoll' = [epoll EXCEPT ![fd_[c]] = NoEntry]
    /\ refused' = refused \ {c}
    /\ faults' = faults

\* Mutant: a channel that is added again is not told from one that was never removed.
update_chan_Always(c, ev) ==
    /\ chs_' = [chs_ EXCEPT ![fd_[c]] = c]
    /\ index_' = [index_ EXCEPT ![c] = ADDED]
    /\ IF index_[c] = NEW_ THEN EPOLL_CTL_ADD(c, ev) ELSE EPOLL_CTL_MOD(c, ev)

\* update_chan: what epoll_ctl answers is only logged.
update_chan(c, ev) ==
    /\ index_' = [index_ EXCEPT ![c] = ADDED]
    /\ chs_' = IF index_[c] = NEW_ THEN [chs_ EXCEPT ![fd_[c]] = c] ELSE chs_
    /\ IF index_[c] \in {NEW_, DELETED} THEN EPOLL_CTL_ADD(c, ev) ELSE EPOLL_CTL_MOD(c, ev)

\* enable_reading, disable_reading, enable_writing, disable_writing, disable_all:
\* the new interest ev, and update().
interests(c) == UNION {{events_[c] \cup {e}, events_[c] \ {e}, {}} : e \in Flags}

update(c, ev) ==
    /\ Exists(c)
    /\ events_' = [events_ EXCEPT ![c] = ev]
    /\ update_chan(c, ev)
    /\ rdlist' \in Requeued(epoll', cond)
    /\ UNCHANGED <<chanVars, cond, batchVars, removed>>

\* Mutant: the map keeps the channel.
remove_chan_KeepsMap(c) ==
    /\ index_' = [index_ EXCEPT ![c] = DELETED]
    /\ EPOLL_CTL_DEL(c)
    /\ UNCHANGED chs_

\* Mutant: the kernel is not told.
remove_chan_NoCtl(c) ==
    /\ chs_' = [chs_ EXCEPT ![fd_[c]] = NoChan]
    /\ index_' = [index_ EXCEPT ![c] = DELETED]
    /\ UNCHANGED <<epoll, refused, faults>>

\* remove_chan, of a channel that may not be there any more.
remove_chan(c) ==
    /\ chs_' = [chs_ EXCEPT ![fd_[c]] = NoChan]
    /\ index_' = [index_ EXCEPT ![c] = DELETED]
    /\ EPOLL_CTL_DEL(c)

remove(c) ==
    /\ Exists(c)
    /\ remove_chan(c)
    /\ rdlist' \in Requeued(epoll', cond)
    /\ removed' = removed \cup {c}
    /\ UNCHANGED <<chanVars, events_, cond, batchVars>>

\* has_chan: the map has this channel for its fd.
has_chan(c) == chs_[fd_[c]] = c

----------------------------------------------------------------------------
(* The life of a channel, and the kernel's side of its fd.                 *)

\* chan::chan, on an fd that no other channel has.
chan(c, fd) ==
    /\ life[c] = "unborn"
    /\ \A d \in Chans : Exists(d) => fd_[d] # fd
    /\ life' = [life EXCEPT ![c] = "live"]
    /\ fd_' = [fd_ EXCEPT ![c] = fd]
    /\ UNCHANGED <<events_, index_, chs_, cond, kernelVars, batchVars, removed>>

\* The loop is in handle_event of c, or has still to come to c in this batch.
Pending(c) == handling = c \/ \E i \in DOMAIN active_chs_ : active_chs_[i].ch = c

\* The last reference to the object that the channel is tied to goes; handle_event
\* holds one while it calls the callbacks.
expire(c) ==
    /\ life[c] = "live"
    /\ handling # c
    /\ life' = [life EXCEPT ![c] = "expired"]
    /\ UNCHANGED <<fd_, events_, index_, chs_, cond, kernelVars, batchVars, removed>>

\* The channel is freed with its fields, and its fd closed, which takes the fd
\* out of the epoll set.  That nobody frees a channel which the loop has still to
\* handle is assumed here, not guaranteed by this code: for the connections of a
\* server it is TcpServer's ChannelsAlive, with the exception stated there.
dtor(c) ==
    /\ life[c] = "expired" /\ ~Pending(c)
    /\ life' = [life EXCEPT ![c] = "gone"]
    /\ cond' = [cond EXCEPT ![fd_[c]] = {}]
    /\ epoll' = [epoll EXCEPT ![fd_[c]] = NoEntry]
    /\ rdlist' \in Requeued(epoll', cond')
    /\ events_' = [events_ EXCEPT ![c] = {}]
    /\ index_' = [index_ EXCEPT ![c] = NEW_]
    /\ refused' = refused \ {c}
    /\ removed' = removed \ {c}
    /\ UNCHANGED <<fd_, chs_, faults, batchVars>>

\* Data, room in the send buffer, a hangup or an error comes, or is consumed.
fd_changes(fd, e) ==
    /\ \E c \in Chans : Exists(c) /\ fd_[c] = fd
    /\ cond' = [cond EXCEPT ![fd] = IF e \in @ THEN @ \ {e} ELSE @ \cup {e}]
    /\ rdlist' \in Requeued(epoll, cond')
    /\ UNCHANGED <<chanVars, events_, index_, chs_, epoll, faults, refused, batchVars, removed>>

----------------------------------------------------------------------------
(* One iteration of the loop.                                              *)

\* Mutant: the last event of a batch is forgotten.
fill_active_chs_Misses(fds) ==
    [i \in 1 .. Len(fds) - 1 |->
       [ch |-> epoll[fds[i]].ptr, revents_ |-> Reported(epoll, cond, fds[i])]]

\* fill_active_chs: the channels are what the entries point to, chs_ is not asked.
fill_active_chs(fds) ==
    [i \in DOMAIN fds |->
       [ch |-> epoll[fds[i]].ptr, revents_ |-> Reported(epoll, cond, fds[i])]]

resize(n) == IF n = size THEN size * 2 ELSE size

\* poll, when there is something: epoll_wait reports at most size entries, and
\* what it reports goes to the end of the ready list.
poll ==
    /\ active_chs_ = <<>> /\ handling = NoChan /\ rdlist # <<>>
    /\ LET n == IF Len(rdlist) < size THEN Len(rdlist) ELSE size
           fds == SubSeq(rdlist, 1, n)
       IN  /\ rdlist' = SubSeq(rdlist, n + 1, Len(rdlist)) \o fds
           /\ active_chs_' = fill_active_chs(fds)
           /\ size' = resize(n)
    /\ removed' = {}
    /\ UNCHANGED <<chanVars, events_, index_, chs_, cond, epoll, faults, refused, handling, callbacks>>

\* The callbacks of handle_event_with_guard, in its order; what they depend on,
\* revents_, stays as poll set it.
handle_event_with_guard(re) ==
    (IF "HUP" \in re /\ "IN" \notin re THEN <<"close">> ELSE <<>>) \o
    (IF "ERR" \in re THEN <<"error">> ELSE <<>>) \o
    (IF "IN" \in re THEN <<"read">> ELSE <<>>) \o
    (IF "OUT" \in re THEN <<"write">> ELSE <<>>)

\* handle_event of the next channel of the batch: the guard is taken; nothing is
\* called when the object the channel is tied to is dead.
handle_event ==
    /\ handling = NoChan /\ active_chs_ # <<>>
    /\ active_chs_' = Tail(active_chs_)
    /\ LET a == Head(active_chs_)
       IN  IF life[a.ch] = "live"
             THEN handling' = a.ch /\ callbacks' = handle_event_with_guard(a.revents_)
             ELSE UNCHANGED <<handling, callbacks>>
    /\ UNCHANGED <<chanVars, events_, index_, chs_, cond, kernelVars, size, removed>>

\* A callback returns; handle_event does when there is none left.
callback ==
    /\ handling # NoChan
    /\ callbacks' = Tail(callbacks)
    /\ handling' = IF callbacks' = <<>> THEN NoChan ELSE handling
    /\ UNCHANGED <<chanVars, events_, index_, chs_, cond, kernelVars, active_chs_, size, removed>>

----------------------------------------------------------------------------
Owners ==
    \E c \in Chans :
        \/ \E fd \in Fds : chan(c, fd)
        \/ \E ev \in interests(c) : update(c, ev)
        \/ remove(c) \/ expire(c) \/ dtor(c)

Loop == poll \/ handle_event \/ callback

Next == Owners \/ (\E fd \in Fds : \E e \in Conditions[fd] : fd_changes(fd, e)) \/ Loop

Spec == Init /\ [][Next]_vars

\* The loop's thread runs and callbacks return.
FairSpec == Spec /\ WF_vars(Loop)

----------------------------------------------------------------------------
(* Properties.                                                             *)

\* index_ and events_ say what the kernel has, through any sequence of calls,
\* double removals and additions after a removal included; the exception is a
\* channel whose addition the kernel refused: it stays ADDED and unregistered.
KernelMirrors ==
    \A c \in Chans : Exists(c) =>
        epoll[fd_[c]] = IF index_[c] = ADDED /\ c \notin refused
                          THEN [ptr |-> c, events |-> events_[c]]
                          ELSE NoEntry

\* The map (has_chan) never has a channel that was removed, and for an fd that is used again
\* it does not keep the pointer to the dead channel.  A channel that is added
\* again after a removal is registered without being in the map.
MapFollows ==
    \A c \in Chans : Exists(c) =>
        /\ index_[c] = NEW_ => ~has_chan(c)
        /\ index_[c] = ADDED => has_chan(c) \/ chs_[fd_[c]] = NoChan
        /\ index_[c] = DELETED => chs_[fd_[c]] = NoChan

\* handle_event is called for channels that exist, and for a channel that is not
\* registered only when it was removed while the batch was being handled: a
\* batch never reports what was removed before it.
StaleOnlyInBatch ==
    \A c \in Chans : Pending(c) => Exists(c) /\ (index_[c] = ADDED \/ c \in removed)

\* However small the list is and however many other fds are busy, a channel with
\* an event that stays is handled.
IsReady(c) == life[c] = "live" /\ Reported(epoll, cond, fd_[c]) # {} /\ epoll[fd_[c]].ptr = c
ReadyHandled == \A c \in Chans : IsReady(c) ~> (handling = c \/ ~IsReady(c))
=============================================================================
