---------------------------- MODULE PollerProofs ----------------------------
(***************************************************************************)
(* Proofs about Poller, for any channels, descriptors, interests and       *)
(* sizes of the event list.                                                *)
(*                                                                         *)
(* That index_ says what the kernel has is only inductive with what holds  *)
(* of the descriptors no channel has (the kernel has nothing for them) and *)
(* of channels that are not there (NEW).  That no batch reports a removed  *)
(* channel rests on it: what is ready has an entry, and the entry of a     *)
(* descriptor belongs to the one channel that has it.                      *)
(*                                                                         *)
(* That no batch has a channel twice, and that the event list stays small, *)
(* rest on the ready list having each descriptor once.                     *)
(***************************************************************************)
EXTENDS Poller, SequenceTheorems, FiniteSetTheorems, TLAPS

Happenings == {"IN", "OUT", "HUP", "ERR"}
Entries == [ptr : Chans \cup {NoChan}, events : SUBSET Flags]
Reports == [ch : Chans, revents_ : SUBSET Happenings]

FieldsOK ==
    /\ life \in [Chans -> {"unborn", "live", "expired", "gone"}]
    /\ fd_ \in [Chans -> Fds]
    /\ events_ \in [Chans -> SUBSET Flags]
    /\ index_ \in [Chans -> {NEW_, ADDED, DELETED}]
    /\ chs_ \in [Fds -> Chans \cup {NoChan}]
    /\ size \in Nat \ {0}
    /\ epoll \in [Fds -> Entries]
    /\ cond \in [Fds -> SUBSET Happenings]
    /\ rdlist \in Seq(Fds)
    /\ active_chs_ \in Seq(Reports)
    /\ handling \in Chans \cup {NoChan}

OwnFds == \A c, d \in Chans : Exists(c) /\ Exists(d) /\ fd_[c] = fd_[d] => c = d

\* The kernel has nothing for a descriptor that no channel has, and a channel
\* that is not there is NEW.
NothingLeft ==
    /\ \A fd \in Fds : (\A c \in Chans : Exists(c) => fd_[c] # fd) => epoll[fd] = NoEntry
    /\ \A c \in Chans : ~Exists(c) => index_[c] = NEW_

\* The map has no channel that has not been made.
MapKnown == \A fd \in Fds : \A c \in Chans : chs_[fd] = c => life[c] # "unborn"

\* What is ready is in the epoll set.
ReadyEntries == \A i \in 1 .. Len(rdlist) : epoll[rdlist[i]].ptr # NoChan

PollerInv ==
    /\ FieldsOK /\ OwnFds /\ KernelMirrors /\ NothingLeft
    /\ MapFollows /\ MapKnown /\ ReadyEntries /\ StaleOnlyInBatch

USE PollerAssumption
USE DEF NEW_, ADDED, DELETED

----------------------------------------------------------------------------
(* The ready list.                                                         *)

\* Whatever the change, what is in the list afterwards has an entry.
LEMMA RequeuedReady ==
    ASSUME NEW ep, NEW cn, NEW q \in Requeued(ep, cn)
    PROVE  q \in Seq(Fds) /\ \A i \in 1 .. Len(q) : ep[q[i]].ptr # NoChan
<1> DEFINE ready == {fd \in Fds : Reported(ep, cn, fd) # {}}
<1>1. IsFiniteSet(ready)
  BY FS_Subset
<1>2. PICK n \in Nat : n = Cardinality(ready)
  BY <1>1, FS_CardinalityType
<1>3. q \in [1 .. n -> ready]
  BY <1>2 DEF Requeued
<1>4. \A fd \in ready : fd \in Fds /\ ep[fd].ptr # NoChan
  BY DEF Reported
<1> HIDE DEF ready
<1>5. q \in Seq(ready) /\ Len(q) = n
  BY <1>3
<1>6. \A i \in 1 .. Len(q) : q[i] \in ready
  BY <1>3, <1>5
<1>7. q \in Seq(Fds)
  BY <1>3, <1>4
<1> QED
  BY <1>4, <1>6, <1>7

\* The entry of a descriptor is that of the channel that has the descriptor.
LEMMA EntryOwner ==
    ASSUME FieldsOK, KernelMirrors, NothingLeft, NEW fd \in Fds, epoll[fd].ptr # NoChan
    PROVE  /\ epoll[fd].ptr \in Chans /\ Exists(epoll[fd].ptr)
           /\ fd_[epoll[fd].ptr] = fd /\ index_[epoll[fd].ptr] = ADDED
<1>1. epoll[fd] # NoEntry
  BY DEF NoEntry
<1>2. PICK c \in Chans : Exists(c) /\ fd_[c] = fd
  BY <1>1 DEF NothingLeft
<1>3. index_[c] = ADDED /\ epoll[fd] = [ptr |-> c, events |-> events_[c]]
  BY <1>1, <1>2 DEF KernelMirrors
<1>4. epoll[fd].ptr = c
  BY <1>3
<1> QED
  BY <1>2, <1>3, <1>4

\* What the kernel has for a channel that is there.
LEMMA EntryOf ==
    ASSUME KernelMirrors, NEW c \in Chans, Exists(c)
    PROVE  /\ index_[c] = ADDED /\ c \notin refused =>
                epoll[fd_[c]] = [ptr |-> c, events |-> events_[c]] /\ epoll[fd_[c]].ptr = c
           /\ index_[c] # ADDED \/ c \in refused =>
                epoll[fd_[c]] = NoEntry /\ epoll[fd_[c]].ptr = NoChan
<1>1. epoll[fd_[c]] = IF index_[c] = ADDED /\ c \notin refused
                        THEN [ptr |-> c, events |-> events_[c]] ELSE NoEntry
  BY DEF KernelMirrors
<1>2. CASE index_[c] = ADDED /\ c \notin refused
  BY <1>1, <1>2
<1>3. CASE ~(index_[c] = ADDED /\ c \notin refused)
  BY <1>1, <1>3 DEF NoEntry
<1> QED
  BY <1>2, <1>3

----------------------------------------------------------------------------
(* The invariant.                                                          *)

LEMMA InitPoller == Init => PollerInv
<1> SUFFICES ASSUME Init PROVE PollerInv
  OBVIOUS
<1>1. FieldsOK
  BY DEF Init, FieldsOK, Entries, NoEntry
<1>2. OwnFds /\ KernelMirrors /\ NothingLeft /\ MapFollows /\ MapKnown
  BY DEF Init, OwnFds, KernelMirrors, NothingLeft, MapFollows, MapKnown, Exists
<1>3. ReadyEntries
  BY DEF Init, ReadyEntries
<1>4. StaleOnlyInBatch
  BY DEF Init, StaleOnlyInBatch, Pending
<1> QED
  BY <1>1, <1>2, <1>3, <1>4 DEF PollerInv

\* update: ADD for a channel that is not registered, MOD for one that is.
LEMMA UpdateStep ==
    ASSUME PollerInv, NEW c \in Chans, NEW ev \in interests(c), update(c, ev)
    PROVE  PollerInv'
<1> USE DEF PollerInv
<1>1. /\ Exists(c) /\ fd_[c] \in Fds
      /\ events_' = [events_ EXCEPT ![c] = ev]
      /\ index_' = [index_ EXCEPT ![c] = ADDED]
      /\ chs_' = IF index_[c] = NEW_ THEN [chs_ EXCEPT ![fd_[c]] = c] ELSE chs_
      /\ rdlist' \in Requeued(epoll', cond)
      /\ UNCHANGED <<life, fd_, cond, active_chs_, handling, callbacks, size, removed>>
  BY DEF update, update_chan, chanVars, batchVars, FieldsOK
<1>2. ev \in SUBSET Flags
  BY DEF interests, FieldsOK
<1>3. \/ /\ index_[c] = ADDED => c \notin refused
         /\ epoll' = [epoll EXCEPT ![fd_[c]] = [ptr |-> c, events |-> ev]]
         /\ refused' = refused \ {c}
      \/ /\ epoll[fd_[c]] = NoEntry /\ epoll' = epoll
         /\ refused' = refused \cup {c}
  <2>1. CASE index_[c] = ADDED
    <3>1. EPOLL_CTL_MOD(c, ev)
      BY <2>1 DEF update, update_chan
    <3>2. CASE c \in refused
      <4>1. epoll[fd_[c]] = NoEntry /\ epoll[fd_[c]].ptr = NoChan
        BY <1>1, <3>2, EntryOf
      <4> QED
        BY <3>1, <3>2, <4>1 DEF EPOLL_CTL_MOD
    <3>3. CASE c \notin refused
      <4>1. epoll[fd_[c]].ptr = c
        BY <1>1, <2>1, <3>3, EntryOf
      <4> QED
        BY <3>1, <3>3, <4>1 DEF EPOLL_CTL_MOD
    <3> QED
      BY <3>2, <3>3
  <2>2. CASE index_[c] # ADDED
    <3>1. EPOLL_CTL_ADD(c, ev)
      BY <2>2 DEF update, update_chan, FieldsOK
    <3>2. epoll[fd_[c]] = NoEntry /\ epoll[fd_[c]].ptr = NoChan
      BY <1>1, <2>2, EntryOf
    <3> QED
      BY <2>2, <3>1, <3>2 DEF EPOLL_CTL_ADD
  <2> QED
    BY <2>1, <2>2
<1>4. /\ epoll' \in [Fds -> Entries]
      /\ \A fd \in Fds : fd # fd_[c] => epoll'[fd] = epoll[fd]
      /\ epoll'[fd_[c]] = IF c \notin refused' THEN [ptr |-> c, events |-> ev] ELSE NoEntry
      /\ \A d \in Chans : d # c => (d \in refused' <=> d \in refused)
  <2>1. [ptr |-> c, events |-> ev] \in Entries
    BY <1>2 DEF Entries
  <2>2. \A d \in Chans : d # c => (d \in refused' <=> d \in refused)
    BY <1>3
  <2>3. epoll \in [Fds -> Entries]
    BY DEF FieldsOK
  <2>4. CASE epoll' = [epoll EXCEPT ![fd_[c]] = [ptr |-> c, events |-> ev]] /\ refused' = refused \ {c}
    BY <1>1, <2>1, <2>2, <2>3, <2>4
  <2>5. CASE epoll[fd_[c]] = NoEntry /\ epoll' = epoll /\ refused' = refused \cup {c}
    BY <1>1, <2>2, <2>3, <2>5
  <2> QED
    BY <1>3, <2>4, <2>5
<1>5. rdlist' \in Seq(Fds) /\ ReadyEntries'
  <2>1. rdlist' \in Seq(Fds) /\ \A i \in 1 .. Len(rdlist') : epoll'[rdlist'[i]].ptr # NoChan
    BY <1>1, RequeuedReady
  <2> QED
    BY <2>1 DEF ReadyEntries
<1>6. FieldsOK'
  BY <1>1, <1>2, <1>4, <1>5 DEF FieldsOK
<1>7. \A d \in Chans : /\ Exists(d)' <=> Exists(d)
                       /\ Pending(d)' <=> Pending(d)
  BY <1>1 DEF Exists, Pending
<1>8. /\ index_'[c] = ADDED /\ events_'[c] = ev
      /\ \A d \in Chans : d # c => index_'[d] = index_[d] /\ events_'[d] = events_[d]
  BY <1>1, <1>2 DEF FieldsOK
<1>9. OwnFds'
  BY <1>1 DEF OwnFds, Exists
<1>10. KernelMirrors'
  <2> SUFFICES ASSUME NEW d \in Chans, Exists(d)
               PROVE  epoll'[fd_[d]] = IF index_'[d] = ADDED /\ d \notin refused'
                                         THEN [ptr |-> d, events |-> events_'[d]]
                                         ELSE NoEntry
    BY <1>1 DEF KernelMirrors, Exists, NoEntry
  <2>1. CASE d = c
    BY <1>4, <1>8, <2>1
  <2>2. CASE d # c
    <3>1. fd_[d] # fd_[c] /\ fd_[d] \in Fds
      BY <1>1, <2>2 DEF OwnFds, FieldsOK
    <3> QED
      BY <1>4, <1>8, <2>2, <3>1 DEF KernelMirrors
  <2> QED
    BY <2>1, <2>2
<1>11. NothingLeft'
  BY <1>1, <1>4, <1>8 DEF NothingLeft, Exists, NoEntry
<1>12. /\ \A fd \in Fds : fd # fd_[c] => chs_'[fd] = chs_[fd]
       /\ chs_'[fd_[c]] = IF index_[c] = NEW_ THEN c ELSE chs_[fd_[c]]
  BY <1>1 DEF FieldsOK
<1>13. MapFollows'
  <2> SUFFICES ASSUME NEW d \in Chans, Exists(d)
               PROVE  /\ index_'[d] = NEW_ => chs_'[fd_[d]] # d
                      /\ index_'[d] = ADDED => chs_'[fd_[d]] \in {d, NoChan}
                      /\ index_'[d] = DELETED => chs_'[fd_[d]] = NoChan
    BY <1>1 DEF MapFollows, Exists, has_chan
  <2>1. CASE d = c
    BY <1>1, <1>8, <1>12, <2>1 DEF MapFollows, has_chan, FieldsOK
  <2>2. CASE d # c
    <3>1. fd_[d] # fd_[c] /\ fd_[d] \in Fds
      BY <1>1, <2>2 DEF OwnFds, FieldsOK
    <3> QED
      BY <1>8, <1>12, <2>2, <3>1 DEF MapFollows, has_chan
  <2> QED
    BY <2>1, <2>2
<1>14. MapKnown'
  BY <1>1, <1>12 DEF MapKnown, Exists
<1>15. StaleOnlyInBatch'
  BY <1>1, <1>7, <1>8 DEF StaleOnlyInBatch
<1> QED
  BY <1>5, <1>6, <1>9, <1>10, <1>11, <1>13, <1>14, <1>15

\* remove, of a channel that is registered or not.
LEMMA RemoveStep ==
    ASSUME PollerInv, NEW c \in Chans, remove(c)
    PROVE  PollerInv'
<1> USE DEF PollerInv
<1>1. /\ Exists(c) /\ fd_[c] \in Fds
      /\ index_' = [index_ EXCEPT ![c] = DELETED]
      /\ chs_' = [chs_ EXCEPT ![fd_[c]] = NoChan]
      /\ epoll' = [epoll EXCEPT ![fd_[c]] = NoEntry]
      /\ refused' = refused \ {c}
      /\ rdlist' \in Requeued(epoll', cond)
      /\ removed' = removed \cup {c}
      /\ UNCHANGED <<life, fd_, events_, cond, active_chs_, handling, callbacks, size>>
  BY DEF remove, remove_chan, EPOLL_CTL_DEL, chanVars, batchVars, FieldsOK
<1>2. /\ epoll' \in [Fds -> Entries]
      /\ \A fd \in Fds : fd # fd_[c] => epoll'[fd] = epoll[fd] /\ chs_'[fd] = chs_[fd]
      /\ epoll'[fd_[c]] = NoEntry /\ chs_'[fd_[c]] = NoChan
  BY <1>1 DEF FieldsOK, Entries, NoEntry
<1>3. rdlist' \in Seq(Fds) /\ ReadyEntries'
  <2>1. rdlist' \in Seq(Fds) /\ \A i \in 1 .. Len(rdlist') : epoll'[rdlist'[i]].ptr # NoChan
    BY <1>1, RequeuedReady
  <2> QED
    BY <2>1 DEF ReadyEntries
<1>4. FieldsOK'
  BY <1>1, <1>2, <1>3 DEF FieldsOK
<1>5. \A d \in Chans : /\ Exists(d)' <=> Exists(d)
                       /\ Pending(d)' <=> Pending(d)
  BY <1>1 DEF Exists, Pending
<1>6. index_'[c] = DELETED /\ \A d \in Chans : d # c => index_'[d] = index_[d]
  BY <1>1 DEF FieldsOK
<1>7. OwnFds'
  BY <1>1 DEF OwnFds, Exists
<1>8. KernelMirrors'
  <2> SUFFICES ASSUME NEW d \in Chans, Exists(d)
               PROVE  epoll'[fd_[d]] = IF index_'[d] = ADDED /\ d \notin refused'
                                         THEN [ptr |-> d, events |-> events_[d]]
                                         ELSE NoEntry
    BY <1>1 DEF KernelMirrors, Exists, NoEntry
  <2>1. CASE d = c
    BY <1>2, <1>6, <2>1
  <2>2. CASE d # c
    <3>1. fd_[d] # fd_[c] /\ fd_[d] \in Fds
      BY <1>1, <2>2 DEF OwnFds, FieldsOK
    <3> QED
      BY <1>1, <1>2, <1>6, <2>2, <3>1 DEF KernelMirrors
  <2> QED
    BY <2>1, <2>2
<1>9. NothingLeft'
  <2>1. ASSUME NEW fd \in Fds, \A d \in Chans : Exists(d) => fd_[d] # fd PROVE epoll'[fd] = NoEntry
    BY <1>1, <1>2, <2>1 DEF NothingLeft
  <2>2. \A d \in Chans : ~Exists(d) => index_'[d] = NEW_
    BY <1>1, <1>6 DEF NothingLeft
  <2> QED
    BY <1>1, <2>1, <2>2 DEF NothingLeft, Exists, NoEntry
<1>10. MapFollows'
  <2> SUFFICES ASSUME NEW d \in Chans, Exists(d)
               PROVE  /\ index_'[d] = NEW_ => chs_'[fd_[d]] # d
                      /\ index_'[d] = ADDED => chs_'[fd_[d]] \in {d, NoChan}
                      /\ index_'[d] = DELETED => chs_'[fd_[d]] = NoChan
    BY <1>1 DEF MapFollows, Exists, has_chan
  <2>1. CASE d = c
    BY <1>2, <1>6, <2>1
  <2>2. CASE d # c
    <3>1. fd_[d] # fd_[c] /\ fd_[d] \in Fds
      BY <1>1, <2>2 DEF OwnFds, FieldsOK
    <3> QED
      BY <1>2, <1>6, <2>2, <3>1 DEF MapFollows, has_chan
  <2> QED
    BY <2>1, <2>2
<1>11. MapKnown'
  BY <1>1, <1>2 DEF MapKnown
<1>12. StaleOnlyInBatch'
  BY <1>1, <1>5, <1>6 DEF StaleOnlyInBatch
<1> QED
  BY <1>3, <1>4, <1>7, <1>8, <1>9, <1>10, <1>11, <1>12

\* A channel is made on a descriptor that no other has: the kernel has nothing for
\* it, and the map at most the pointer to a channel that is gone.
LEMMA ChanStep ==
    ASSUME PollerInv, NEW c \in Chans, NEW fd \in Fds, chan(c, fd)
    PROVE  PollerInv'
<1> USE DEF PollerInv
<1>1. /\ life[c] = "unborn" /\ \A d \in Chans : Exists(d) => fd_[d] # fd
      /\ life' = [life EXCEPT ![c] = "live"] /\ fd_' = [fd_ EXCEPT ![c] = fd]
      /\ UNCHANGED <<events_, index_, chs_, cond, epoll, rdlist, refused>>
      /\ UNCHANGED <<active_chs_, handling, callbacks, size, removed>>
  BY DEF chan, kernelVars, batchVars
<1>2. FieldsOK'
  BY <1>1 DEF FieldsOK
<1>3. \A d \in Chans : /\ d # c => (Exists(d)' <=> Exists(d)) /\ fd_'[d] = fd_[d] /\ life'[d] = life[d]
                       /\ Pending(d)' <=> Pending(d)
  BY <1>1 DEF Exists, Pending, FieldsOK
<1>4. Exists(c)' /\ ~Exists(c) /\ fd_'[c] = fd /\ life'[c] = "live"
  BY <1>1 DEF Exists, FieldsOK
<1>5. epoll[fd] = NoEntry /\ index_[c] = NEW_ /\ chs_[fd] # c
  BY <1>1, <1>4 DEF NothingLeft, MapKnown
<1>6. OwnFds'
  BY <1>1, <1>3, <1>4 DEF OwnFds
<1>7. KernelMirrors'
  <2> SUFFICES ASSUME NEW d \in Chans, Exists(d)'
               PROVE  epoll[fd_'[d]] = IF index_[d] = ADDED /\ d \notin refused
                                         THEN [ptr |-> d, events |-> events_[d]]
                                         ELSE NoEntry
    BY <1>1 DEF KernelMirrors, NoEntry
  <2>1. CASE d = c
    BY <1>4, <1>5, <2>1
  <2>2. CASE d # c
    BY <1>3, <2>2 DEF KernelMirrors
  <2> QED
    BY <2>1, <2>2
<1>8. NothingLeft'
  <2>1. ASSUME NEW gd \in Fds, \A d \in Chans : Exists(d)' => fd_'[d] # gd PROVE epoll[gd] = NoEntry
    <3>1. \A d \in Chans : Exists(d) => fd_[d] # gd
      BY <1>3, <1>4, <2>1
    <3> QED
      BY <3>1 DEF NothingLeft
  <2>2. \A d \in Chans : ~Exists(d)' => index_[d] = NEW_
    BY <1>3, <1>4 DEF NothingLeft
  <2> QED
    BY <1>1, <2>1, <2>2 DEF NothingLeft, NoEntry
<1>9. MapFollows'
  <2> SUFFICES ASSUME NEW d \in Chans, Exists(d)'
               PROVE  /\ index_[d] = NEW_ => chs_[fd_'[d]] # d
                      /\ index_[d] = ADDED => chs_[fd_'[d]] \in {d, NoChan}
                      /\ index_[d] = DELETED => chs_[fd_'[d]] = NoChan
    BY <1>1 DEF MapFollows, has_chan
  <2>1. CASE d = c
    BY <1>4, <1>5, <2>1
  <2>2. CASE d # c
    BY <1>3, <2>2 DEF MapFollows, has_chan
  <2> QED
    BY <2>1, <2>2
<1>10. MapKnown'
  BY <1>1, <1>3, <1>4 DEF MapKnown
<1>11. ReadyEntries'
  BY <1>1 DEF ReadyEntries
<1>12. StaleOnlyInBatch'
  <2> SUFFICES ASSUME NEW d \in Chans, Pending(d)
               PROVE  Exists(d)' /\ (index_[d] = ADDED \/ d \in removed)
    BY <1>1, <1>3 DEF StaleOnlyInBatch
  <2>1. Exists(d) /\ (index_[d] = ADDED \/ d \in removed)
    BY DEF StaleOnlyInBatch
  <2> QED
    BY <1>3, <1>4, <2>1
<1> QED
  BY <1>2, <1>6, <1>7, <1>8, <1>9, <1>10, <1>11, <1>12

LEMMA ExpireStep ==
    ASSUME PollerInv, NEW c \in Chans, expire(c)
    PROVE  PollerInv'
<1> USE DEF PollerInv
<1>1. /\ life[c] = "live" /\ life' = [life EXCEPT ![c] = "expired"]
      /\ UNCHANGED <<fd_, events_, index_, chs_, cond, epoll, rdlist, refused>>
      /\ UNCHANGED <<active_chs_, handling, callbacks, size, removed>>
  BY DEF expire, kernelVars, batchVars
<1>2. FieldsOK'
  BY <1>1 DEF FieldsOK
<1>3. \A d \in Chans : /\ Exists(d)' <=> Exists(d)
                       /\ Pending(d)' <=> Pending(d)
                       /\ life'[d] = "unborn" <=> life[d] = "unborn"
  BY <1>1 DEF Exists, Pending, FieldsOK
<1>4. OwnFds' /\ KernelMirrors' /\ NothingLeft'
  BY <1>1, <1>3 DEF OwnFds, KernelMirrors, NothingLeft, NoEntry
<1>5. MapFollows' /\ MapKnown'
  BY <1>1, <1>3 DEF MapFollows, has_chan, MapKnown
<1>6. ReadyEntries' /\ StaleOnlyInBatch'
  BY <1>1, <1>3 DEF ReadyEntries, StaleOnlyInBatch
<1> QED
  BY <1>2, <1>4, <1>5, <1>6

\* A channel goes, with its descriptor: not while the loop is about to use it.
LEMMA DtorStep ==
    ASSUME PollerInv, NEW c \in Chans, dtor(c)
    PROVE  PollerInv'
<1> USE DEF PollerInv
<1>1. /\ life[c] = "expired" /\ ~Pending(c) /\ fd_[c] \in Fds
      /\ life' = [life EXCEPT ![c] = "gone"]
      /\ cond' = [cond EXCEPT ![fd_[c]] = {}]
      /\ epoll' = [epoll EXCEPT ![fd_[c]] = NoEntry]
      /\ rdlist' \in Requeued(epoll', cond')
      /\ events_' = [events_ EXCEPT ![c] = {}]
      /\ index_' = [index_ EXCEPT ![c] = NEW_]
      /\ refused' = refused \ {c} /\ removed' = removed \ {c}
      /\ UNCHANGED <<fd_, chs_, active_chs_, handling, callbacks, size>>
  BY DEF dtor, batchVars, FieldsOK
<1>2. /\ epoll' \in [Fds -> Entries]
      /\ \A fd \in Fds : fd # fd_[c] => epoll'[fd] = epoll[fd]
      /\ epoll'[fd_[c]] = NoEntry
  BY <1>1 DEF FieldsOK, Entries, NoEntry
<1>3. rdlist' \in Seq(Fds) /\ ReadyEntries'
  <2>1. rdlist' \in Seq(Fds) /\ \A i \in 1 .. Len(rdlist') : epoll'[rdlist'[i]].ptr # NoChan
    BY <1>1, RequeuedReady
  <2> QED
    BY <2>1 DEF ReadyEntries
<1>4. FieldsOK'
  BY <1>1, <1>2, <1>3 DEF FieldsOK
<1>5. Exists(c) /\ ~Exists(c)' /\ index_'[c] = NEW_ /\ life'[c] = "gone"
  BY <1>1 DEF Exists, FieldsOK
<1>6. \A d \in Chans : /\ d # c => /\ Exists(d)' <=> Exists(d)
                                   /\ index_'[d] = index_[d] /\ events_'[d] = events_[d]
                                   /\ life'[d] = life[d]
                                   /\ d \in refused' <=> d \in refused
                                   /\ d \in removed' <=> d \in removed
                       /\ Pending(d)' <=> Pending(d)
  BY <1>1 DEF Exists, Pending, FieldsOK
<1>7. OwnFds'
  BY <1>1, <1>5, <1>6 DEF OwnFds
<1>8. KernelMirrors'
  <2> SUFFICES ASSUME NEW d \in Chans, Exists(d)'
               PROVE  epoll'[fd_[d]] = IF index_'[d] = ADDED /\ d \notin refused'
                                         THEN [ptr |-> d, events |-> events_'[d]]
                                         ELSE NoEntry
    BY <1>1 DEF KernelMirrors, NoEntry
  <2>1. d # c /\ Exists(d)
    BY <1>5, <1>6
  <2>2. fd_[d] # fd_[c] /\ fd_[d] \in Fds
    BY <1>5, <2>1 DEF OwnFds, FieldsOK
  <2> QED
    BY <1>2, <1>6, <2>1, <2>2 DEF KernelMirrors
<1>9. NothingLeft'
  <2>1. ASSUME NEW fd \in Fds, \A d \in Chans : Exists(d)' => fd_[d] # fd PROVE epoll'[fd] = NoEntry
    <3>1. CASE fd = fd_[c]
      BY <1>2, <3>1
    <3>2. CASE fd # fd_[c]
      <4>1. \A d \in Chans : Exists(d) => fd_[d] # fd
        BY <1>6, <2>1, <3>2
      <4> QED
        BY <1>2, <3>2, <4>1 DEF NothingLeft
    <3> QED
      BY <3>1, <3>2
  <2>2. \A d \in Chans : ~Exists(d)' => index_'[d] = NEW_
    BY <1>5, <1>6 DEF NothingLeft
  <2> QED
    BY <1>1, <2>1, <2>2 DEF NothingLeft, NoEntry
<1>10. MapFollows'
  <2> SUFFICES ASSUME NEW d \in Chans, Exists(d)'
               PROVE  /\ index_'[d] = NEW_ => chs_[fd_[d]] # d
                      /\ index_'[d] = ADDED => chs_[fd_[d]] \in {d, NoChan}
                      /\ index_'[d] = DELETED => chs_[fd_[d]] = NoChan
    BY <1>1 DEF MapFollows, has_chan
  <2>1. d # c /\ Exists(d)
    BY <1>5, <1>6
  <2> QED
    BY <1>6, <2>1 DEF MapFollows, has_chan
<1>11. MapKnown'
  BY <1>1, <1>5, <1>6 DEF MapKnown
<1>12. StaleOnlyInBatch'
  <2> SUFFICES ASSUME NEW d \in Chans, Pending(d)
               PROVE  Exists(d)' /\ (index_'[d] = ADDED \/ d \in removed')
    BY <1>6 DEF StaleOnlyInBatch
  <2>1. d # c /\ Exists(d) /\ (index_[d] = ADDED \/ d \in removed)
    BY <1>1 DEF StaleOnlyInBatch
  <2> QED
    BY <1>6, <2>1
<1> QED
  BY <1>3, <1>4, <1>7, <1>8, <1>9, <1>10, <1>11, <1>12

LEMMA FdStep ==
    ASSUME PollerInv, NEW fd \in Fds, NEW e \in Conditions[fd], fd_changes(fd, e)
    PROVE  PollerInv'
<1> USE DEF PollerInv
<1>1. /\ cond' = [cond EXCEPT ![fd] = IF e \in @ THEN @ \ {e} ELSE @ \cup {e}]
      /\ rdlist' \in Requeued(epoll, cond')
      /\ UNCHANGED <<life, fd_, events_, index_, chs_, epoll, refused>>
      /\ UNCHANGED <<active_chs_, handling, callbacks, size, removed>>
  BY DEF fd_changes, chanVars, batchVars
<1>2. cond' \in [Fds -> SUBSET Happenings]
  BY <1>1 DEF FieldsOK, Happenings
<1>3. rdlist' \in Seq(Fds) /\ ReadyEntries'
  <2>1. rdlist' \in Seq(Fds) /\ \A i \in 1 .. Len(rdlist') : epoll[rdlist'[i]].ptr # NoChan
    BY <1>1, RequeuedReady
  <2> QED
    BY <1>1, <2>1 DEF ReadyEntries
<1>4. FieldsOK'
  BY <1>1, <1>2, <1>3 DEF FieldsOK
<1>5. OwnFds' /\ KernelMirrors' /\ NothingLeft'
  BY <1>1 DEF OwnFds, KernelMirrors, NothingLeft, NoEntry, Exists
<1>6. MapFollows' /\ MapKnown'
  BY <1>1 DEF MapFollows, has_chan, MapKnown, Exists
<1>7. StaleOnlyInBatch'
  BY <1>1 DEF StaleOnlyInBatch, Pending, Exists
<1> QED
  BY <1>3, <1>4, <1>5, <1>6, <1>7

\* poll: the batch is made of the channels the entries point to, and each of them is
\* registered.
LEMMA PollStep ==
    ASSUME PollerInv, poll
    PROVE  PollerInv'
<1> USE DEF PollerInv
<1> DEFINE n == IF Len(rdlist) < size THEN Len(rdlist) ELSE size
           fds == SubSeq(rdlist, 1, n)
           rest == SubSeq(rdlist, n + 1, Len(rdlist))
<1>1. /\ handling = NoChan
      /\ rdlist' = rest \o fds
      /\ active_chs_' = fill_active_chs(fds)
      /\ size' = resize(n)
      /\ removed' = {}
      /\ UNCHANGED <<life, fd_, events_, index_, chs_, cond, epoll, refused, handling>>
  BY DEF poll, chanVars
<1>2. rdlist \in Seq(Fds) /\ Len(rdlist) \in Nat /\ size \in Nat \ {0}
  BY DEF FieldsOK
<1>3. n \in 0 .. Len(rdlist)
  BY <1>2
<1> HIDE DEF n
<1>4. /\ fds \in Seq(Fds) /\ Len(fds) = n
      /\ \A i \in 1 .. Len(fds) : i \in 1 .. Len(rdlist) /\ fds[i] = rdlist[i]
  BY <1>2, <1>3
<1>5. /\ rest \in Seq(Fds)
      /\ \A i \in 1 .. Len(rest) : i + n \in 1 .. Len(rdlist) /\ rest[i] = rdlist[i + n]
  BY <1>2, <1>3
<1>6. \A i \in 1 .. Len(fds) : epoll[fds[i]].ptr # NoChan
  BY <1>4 DEF ReadyEntries
<1>7. \A i \in 1 .. Len(rest) : epoll[rest[i]].ptr # NoChan
  BY <1>5 DEF ReadyEntries
<1> HIDE DEF fds, rest
<1>8. rdlist' \in Seq(Fds) /\ ReadyEntries'
  <2>1. /\ rdlist' \in Seq(Fds) /\ Len(rdlist') = Len(rest) + Len(fds)
        /\ \A i \in 1 .. Len(rdlist') :
             rdlist'[i] = IF i <= Len(rest) THEN rest[i] ELSE fds[i - Len(rest)]
    BY <1>1, <1>4, <1>5, ConcatProperties
  <2>2. ASSUME NEW i \in 1 .. Len(rdlist') PROVE epoll[rdlist'[i]].ptr # NoChan
    <3>1. Len(rest) \in Nat /\ Len(fds) \in Nat
      BY <1>4, <1>5
    <3>2. CASE i <= Len(rest)
      BY <1>7, <2>1, <3>1, <3>2
    <3>3. CASE ~(i <= Len(rest))
      BY <1>6, <2>1, <3>1, <3>3
    <3> QED
      BY <3>2, <3>3
  <2> QED
    BY <1>1, <2>1, <2>2 DEF ReadyEntries
<1>9. ASSUME NEW i \in 1 .. Len(fds)
      PROVE  /\ [ch |-> epoll[fds[i]].ptr, revents_ |-> Reported(epoll, cond, fds[i])] \in Reports
             /\ epoll[fds[i]].ptr \in Chans /\ Exists(epoll[fds[i]].ptr)
             /\ index_[epoll[fds[i]].ptr] = ADDED
  <2>1. fds[i] \in Fds /\ epoll[fds[i]].ptr # NoChan
    BY <1>4, <1>6
  <2>2. epoll[fds[i]].ptr \in Chans /\ Exists(epoll[fds[i]].ptr) /\ index_[epoll[fds[i]].ptr] = ADDED
    BY <2>1, EntryOwner
  <2>3. Reported(epoll, cond, fds[i]) \in SUBSET Happenings
    BY <2>1 DEF Reported, FieldsOK
  <2> QED
    BY <2>2, <2>3 DEF Reports
<1>10. /\ active_chs_' \in Seq(Reports) /\ Len(active_chs_') = Len(fds)
       /\ DOMAIN active_chs_' = 1 .. Len(fds)
       /\ \A i \in 1 .. Len(fds) : active_chs_'[i].ch = epoll[fds[i]].ptr
  <2>1. DOMAIN fds = 1 .. Len(fds) /\ Len(fds) \in Nat
    BY <1>4
  <2>2. active_chs_' = [i \in 1 .. Len(fds) |->
                          [ch |-> epoll[fds[i]].ptr, revents_ |-> Reported(epoll, cond, fds[i])]]
    BY <1>1, <2>1 DEF fill_active_chs
  <2>3. active_chs_' \in [1 .. Len(fds) -> Reports]
    BY <1>9, <2>2
  <2>4. active_chs_' \in Seq(Reports)
    BY <2>1, <2>3
  <2> QED
    BY <2>1, <2>2, <2>3, <2>4
<1>11. FieldsOK'
  <2>1. size' \in Nat \ {0}
    BY <1>1, <1>2 DEF resize
  <2> QED
    BY <1>1, <1>8, <1>10, <2>1 DEF FieldsOK
<1>12. OwnFds' /\ KernelMirrors' /\ NothingLeft'
  BY <1>1 DEF OwnFds, KernelMirrors, NothingLeft, NoEntry, Exists
<1>13. MapFollows' /\ MapKnown'
  BY <1>1 DEF MapFollows, has_chan, MapKnown, Exists
<1>14. StaleOnlyInBatch'
  <2> SUFFICES ASSUME NEW c \in Chans, Pending(c)'
               PROVE  Exists(c) /\ index_[c] = ADDED
    BY <1>1 DEF StaleOnlyInBatch, Exists
  <2>1. handling' # c
    BY <1>1
  <2>2. PICK i \in 1 .. Len(fds) : active_chs_'[i].ch = c
    BY <1>10, <2>1 DEF Pending
  <2> QED
    BY <1>9, <1>10, <2>2
<1> QED
  BY <1>8, <1>11, <1>12, <1>13, <1>14

\* The batch shrinks, and the channel that is handled comes from it.
LEMMA HandleStep ==
    ASSUME PollerInv, handle_event \/ callback
    PROVE  PollerInv'
<1> USE DEF PollerInv
<1>1. UNCHANGED <<life, fd_, events_, index_, chs_, cond, epoll, rdlist, refused, size, removed>>
  BY DEF handle_event, callback, chanVars, kernelVars
<1>2. /\ active_chs_' \in Seq(Reports) /\ handling' \in Chans \cup {NoChan}
      /\ \A c \in Chans : Pending(c)' => Pending(c)
  <2>1. CASE callback
    BY <2>1 DEF callback, Pending, FieldsOK
  <2>2. CASE handle_event
    <3>1. active_chs_ \in Seq(Reports) /\ active_chs_ # <<>> /\ active_chs_' = Tail(active_chs_)
      BY <2>2 DEF handle_event, FieldsOK
    <3>2. /\ active_chs_' \in Seq(Reports) /\ Len(active_chs_') = Len(active_chs_) - 1
          /\ Head(active_chs_) = active_chs_[1] /\ Head(active_chs_) \in Reports
          /\ Len(active_chs_) \in Nat \ {0}
          /\ \A i \in 1 .. Len(active_chs_') : active_chs_'[i] = active_chs_[i + 1]
      BY <3>1, HeadTailProperties, EmptySeq
    <3>3. /\ handling' \in {Head(active_chs_).ch, handling}
          /\ Head(active_chs_).ch \in Chans
      BY <2>2, <3>2 DEF handle_event, Reports
    <3>4. handling' \in Chans \cup {NoChan}
      BY <3>3 DEF FieldsOK
    <3>5. ASSUME NEW c \in Chans, Pending(c)' PROVE Pending(c)
      <4>1. 1 \in DOMAIN active_chs_
        BY <3>1, <3>2
      <4>2. CASE handling' = c
        BY <3>2, <3>3, <4>1, <4>2 DEF Pending
      <4>3. CASE handling' # c
        <5>1. PICK i \in 1 .. Len(active_chs_') : active_chs_'[i].ch = c
          BY <3>2, <3>5, <4>3 DEF Pending
        <5>2. i + 1 \in DOMAIN active_chs_ /\ active_chs_[i + 1].ch = c
          BY <3>1, <3>2, <5>1
        <5> QED
          BY <5>2 DEF Pending
      <4> QED
        BY <4>2, <4>3
    <3> QED
      BY <3>2, <3>4, <3>5
  <2> QED
    BY <2>1, <2>2
<1>3. FieldsOK'
  BY <1>1, <1>2 DEF FieldsOK
<1>4. OwnFds' /\ KernelMirrors' /\ NothingLeft'
  BY <1>1 DEF OwnFds, KernelMirrors, NothingLeft, NoEntry, Exists
<1>5. MapFollows' /\ MapKnown'
  BY <1>1 DEF MapFollows, has_chan, MapKnown, Exists
<1>6. ReadyEntries'
  BY <1>1 DEF ReadyEntries
<1>7. StaleOnlyInBatch'
  BY <1>1, <1>2 DEF StaleOnlyInBatch, Exists
<1> QED
  BY <1>3, <1>4, <1>5, <1>6, <1>7

----------------------------------------------------------------------------
(* The theorems.                                                           *)

\* Every call of an owner, every change of a descriptor and every step of the loop
\* keeps PollerInv.
THEOREM PollerInvariant == Spec => []PollerInv
<1>1. Init => PollerInv
  BY InitPoller
<1>2. PollerInv /\ [Next]_vars => PollerInv'
  <2> SUFFICES ASSUME PollerInv, [Next]_vars PROVE PollerInv'
    OBVIOUS
  <2>1. CASE Owners
    BY <2>1, ChanStep, UpdateStep, RemoveStep, ExpireStep, DtorStep DEF Owners
  <2>2. ASSUME NEW fd \in Fds, NEW e \in Conditions[fd], fd_changes(fd, e) PROVE PollerInv'
    BY <2>2, FdStep
  <2>3. CASE Loop
    BY <2>3, PollStep, HandleStep DEF Loop
  <2>4. CASE UNCHANGED vars
    <3>1. UNCHANGED <<life, fd_, events_, index_, chs_, cond, epoll, rdlist, refused, size, removed,
                      active_chs_, handling>>
      BY <2>4 DEF vars, chanVars, kernelVars, batchVars
    <3> QED
      BY <3>1 DEF PollerInv, FieldsOK, OwnFds, KernelMirrors, NothingLeft, MapFollows, MapKnown,
                  ReadyEntries, StaleOnlyInBatch, Exists, Pending, has_chan, NoEntry
  <2> QED
    BY <2>1, <2>2, <2>3, <2>4 DEF Next
<1> QED
  BY <1>1, <1>2, PTL DEF Spec

\* index_ and events_ of a channel say what the kernel has for its descriptor, after
\* any calls in any order, unless the kernel refused to add it.
THEOREM KernelMirrored == Spec => []KernelMirrors
<1>1. PollerInv => KernelMirrors
  BY DEF PollerInv
<1> QED
  BY <1>1, PollerInvariant, PTL

\* The map never has a removed channel, nor a dead one for a descriptor that is
\* registered again.
THEOREM MapFollowed == Spec => []MapFollows
<1>1. PollerInv => MapFollows
  BY DEF PollerInv
<1> QED
  BY <1>1, PollerInvariant, PTL

\* handle_event is called for channels that exist, and for an unregistered one only
\* when it was removed while the batch was handled.
THEOREM BatchesFresh == Spec => []StaleOnlyInBatch
<1>1. PollerInv => StaleOnlyInBatch
  BY DEF PollerInv
<1> QED
  BY <1>1, PollerInvariant, PTL

----------------------------------------------------------------------------
(* The batches.                                                            *)

\* The descriptors with something to report, and that the ready list has each of
\* them once.
Ready == {fd \in Fds : Reported(epoll, cond, fd) # {}}
ListExact == IsInjective(rdlist) /\ ToSet(rdlist) = Ready

\* The fields that FieldsOK leaves out.
RestOK ==
    /\ \A fd \in Fds : cond[fd] \subseteq Conditions[fd]
    /\ callbacks \in Seq({"close", "error", "read", "write"})
    /\ faults \in 0 .. MaxFaults
    /\ refused \subseteq Chans
    /\ removed \subseteq Chans

\* Every channel of a batch has something to call.
BatchCalls ==
    /\ \A i \in 1 .. Len(active_chs_) : active_chs_[i].revents_ # {}
    /\ handling # NoChan => callbacks # <<>>

\* A batch has a channel once: it is not handled again before the next poll.
BatchOnce ==
    /\ \A i, j \in 1 .. Len(active_chs_) : active_chs_[i].ch = active_chs_[j].ch => i = j
    /\ \A i \in 1 .. Len(active_chs_) : active_chs_[i].ch # handling

\* The list for epoll_wait grows to less than twice what it can ever be filled with.
ListBounded == size <= InitSize \/ size <= 2 * Cardinality(Fds)

BatchInv == RestOK /\ ListExact /\ BatchCalls /\ BatchOnce /\ ListBounded

\* A change leaves in the list what is ready, once.
LEMMA RequeuedExact ==
    ASSUME NEW ep, NEW cn, NEW q \in Requeued(ep, cn)
    PROVE  /\ IsInjective(q)
           /\ ToSet(q) = {fd \in Fds : Reported(ep, cn, fd) # {}}
<1> DEFINE ready == {fd \in Fds : Reported(ep, cn, fd) # {}}
<1>1. IsFiniteSet(ready)
  BY FS_Subset
<1>2. PICK n \in Nat : n = Cardinality(ready)
  BY <1>1, FS_CardinalityType
<1>3. q \in [1 .. n -> ready] /\ IsInjective(q)
  BY <1>2 DEF Requeued
<1> HIDE DEF ready
<1>4. q \in Injection(1 .. n, ready)
  BY <1>3 DEF Injection
<1>5. Cardinality(1 .. n) = Cardinality(ready)
  BY <1>2, FS_Interval
<1>6. q \in Surjection(1 .. n, ready)
  BY <1>1, <1>4, <1>5, FS_Injection
<1>7. ToSet(q) = ready
  BY <1>3, <1>6 DEF Surjection, ToSet
<1> QED
  BY <1>3, <1>7 DEF ready

\* The list is not longer than there are descriptors.
LEMMA ListShort ==
    ASSUME FieldsOK, ListExact
    PROVE  Cardinality(Fds) \in Nat /\ Len(rdlist) \in Nat /\ Len(rdlist) <= Cardinality(Fds)
<1>1. Len(rdlist) \in Nat /\ rdlist \in [1 .. Len(rdlist) -> Fds]
  BY DEF FieldsOK
<1>2. rdlist \in Injection(1 .. Len(rdlist), Fds)
  BY <1>1 DEF ListExact, Injection
<1>3. Cardinality(1 .. Len(rdlist)) <= Cardinality(Fds)
  BY <1>2, FS_Injection
<1>4. Cardinality(1 .. Len(rdlist)) = Len(rdlist)
  BY <1>1, FS_Interval
<1> QED
  BY <1>1, <1>3, <1>4, FS_CardinalityType

\* What was at the front of a list goes to its end.
Turned(s, n) == SubSeq(s, n + 1, Len(s)) \o SubSeq(s, 1, n)

\* The list then has what it had, once.
LEMMA Rotated ==
    ASSUME NEW S, NEW s \in Seq(S), IsInjective(s),
           NEW m \in Nat, NEW n \in Nat, Len(s) = m + n
    PROVE  IsInjective(Turned(s, n)) /\ ToSet(Turned(s, n)) = ToSet(s)
<1> DEFINE u == SubSeq(s, n + 1, m + n)
           v == SubSeq(s, 1, n)
           r == u \o v
           At(i) == IF i <= m THEN i + n ELSE i - m
           From(i) == IF i <= n THEN i + m ELSE i - n
<1>0. DOMAIN s = 1 .. m + n /\ \A i \in 1 .. m + n : s[i] \in S
  OBVIOUS
<1>1. /\ u \in Seq(S) /\ Len(u) = m
      /\ \A i \in 1 .. m : u[i] = s[i + n]
  <2>1. \A i \in n + 1 .. m + n : s[i] \in S
    BY <1>0
  <2>2. /\ u \in Seq(S) /\ Len(u) = IF n + 1 <= m + n THEN (m + n) - (n + 1) + 1 ELSE 0
        /\ \A i \in 1 .. (m + n) - (n + 1) + 1 : u[i] = s[(n + 1) + i - 1]
    BY <2>1, SubSeqProperties
  <2>3. \A i \in 1 .. m : i \in 1 .. (m + n) - (n + 1) + 1 /\ (n + 1) + i - 1 = i + n
    OBVIOUS
  <2>4. (IF n + 1 <= m + n THEN (m + n) - (n + 1) + 1 ELSE 0) = m
    OBVIOUS
  <2> QED
    BY <2>2, <2>3, <2>4
<1>2. /\ v \in Seq(S) /\ Len(v) = n
      /\ \A i \in 1 .. n : v[i] = s[i]
  <2>1. \A i \in 1 .. n : s[i] \in S
    BY <1>0
  <2>2. /\ v \in Seq(S) /\ Len(v) = IF 1 <= n THEN n - 1 + 1 ELSE 0
        /\ \A i \in 1 .. n - 1 + 1 : v[i] = s[1 + i - 1]
    BY <2>1, SubSeqProperties
  <2>3. \A i \in 1 .. n : i \in 1 .. n - 1 + 1 /\ 1 + i - 1 = i
    OBVIOUS
  <2>4. (IF 1 <= n THEN n - 1 + 1 ELSE 0) = n
    OBVIOUS
  <2> QED
    BY <2>2, <2>3, <2>4
<1> HIDE DEF u, v
<1>3. /\ r \in Seq(S) /\ Len(r) = m + n
      /\ \A i \in 1 .. m + n : r[i] = IF i <= m THEN u[i] ELSE v[i - m]
  <2>1. /\ u \o v \in Seq(S) /\ Len(u \o v) = Len(u) + Len(v)
        /\ \A i \in 1 .. Len(u) + Len(v) :
             (u \o v)[i] = IF i <= Len(u) THEN u[i] ELSE v[i - Len(u)]
    BY <1>1, <1>2, ConcatProperties
  <2> QED
    BY <1>1, <1>2, <2>1
<1> HIDE DEF r
<1>4. \A i \in 1 .. m + n : r[i] = s[At(i)]
  <2> SUFFICES ASSUME NEW i \in 1 .. m + n PROVE r[i] = s[At(i)]
    OBVIOUS
  <2>1. CASE i <= m
    <3>1. i \in 1 .. m /\ At(i) = i + n
      BY <2>1
    <3> QED
      BY <1>1, <1>3, <2>1, <3>1
  <2>2. CASE ~(i <= m)
    <3>1. i - m \in 1 .. n /\ At(i) = i - m
      BY <2>2
    <3> QED
      BY <1>2, <1>3, <2>2, <3>1
  <2> QED
    BY <2>1, <2>2
<1>5. \A i \in 1 .. m + n : /\ At(i) \in 1 .. m + n /\ From(i) \in 1 .. m + n
                            /\ At(From(i)) = i
  OBVIOUS
<1>6. \A i, j \in 1 .. m + n : At(i) = At(j) => i = j
  OBVIOUS
<1>7. DOMAIN r = 1 .. m + n
  BY <1>3
<1> HIDE DEF At, From
<1>8. IsInjective(r)
  BY <1>0, <1>4, <1>5, <1>6, <1>7 DEF IsInjective
<1>9. ToSet(r) \subseteq ToSet(s)
  BY <1>0, <1>4, <1>5, <1>7 DEF ToSet
<1>10. ToSet(s) \subseteq ToSet(r)
  <2> SUFFICES ASSUME NEW i \in 1 .. m + n PROVE s[i] \in ToSet(r)
    BY <1>0 DEF ToSet
  <2>1. From(i) \in 1 .. m + n /\ r[From(i)] = s[i]
    BY <1>4, <1>5
  <2> QED
    BY <1>7, <2>1 DEF ToSet
<1> QED
  BY <1>8, <1>9, <1>10 DEF r, u, v, Turned

\* The list stays exact.
LEMMA ListStep == PollerInv /\ ListExact /\ [Next]_vars => ListExact'
<1> SUFFICES ASSUME PollerInv, ListExact, [Next]_vars PROVE ListExact'
  OBVIOUS
<1>1. ASSUME rdlist' \in Requeued(epoll', cond') PROVE ListExact'
  BY <1>1, RequeuedExact DEF ListExact, Ready
<1>2. ASSUME UNCHANGED <<rdlist, epoll, cond>> PROVE ListExact'
  BY <1>2 DEF ListExact, Ready, Reported
<1>3. CASE Owners
  <2>1. PICK c \in Chans : \/ \E fd \in Fds : chan(c, fd)
                           \/ \E ev \in interests(c) : update(c, ev)
                           \/ remove(c) \/ expire(c) \/ dtor(c)
    BY <1>3 DEF Owners
  <2>2. CASE (\E fd \in Fds : chan(c, fd)) \/ expire(c)
    BY <1>2, <2>2 DEF chan, expire, kernelVars
  <2>3. CASE (\E ev \in interests(c) : update(c, ev)) \/ remove(c) \/ dtor(c)
    <3>1. CASE \E ev \in interests(c) : update(c, ev)
      BY <1>1, <3>1 DEF update
    <3>2. CASE remove(c)
      BY <1>1, <3>2 DEF remove
    <3>3. CASE dtor(c)
      BY <1>1, <3>3 DEF dtor
    <3> QED
      BY <2>3, <3>1, <3>2, <3>3
  <2> QED
    BY <2>1, <2>2, <2>3
<1>4. ASSUME NEW fd \in Fds, NEW e \in Conditions[fd], fd_changes(fd, e) PROVE ListExact'
  BY <1>1, <1>4 DEF fd_changes
<1>5. CASE poll
  <2> DEFINE n == IF Len(rdlist) < size THEN Len(rdlist) ELSE size
  <2>1. /\ rdlist' = SubSeq(rdlist, n + 1, Len(rdlist)) \o SubSeq(rdlist, 1, n)
        /\ UNCHANGED <<epoll, cond>>
    BY <1>5 DEF poll
  <2>2. rdlist \in Seq(Fds) /\ Len(rdlist) \in Nat /\ n \in 0 .. Len(rdlist)
    BY DEF PollerInv, FieldsOK
  <2> HIDE DEF n
  <2>3. PICK m \in Nat : n \in Nat /\ Len(rdlist) = m + n
    BY <2>2
  <2>4. rdlist' = Turned(rdlist, n)
    BY <2>1 DEF Turned
  <2>5. IsInjective(rdlist') /\ ToSet(rdlist') = ToSet(rdlist)
    <3>1. IsInjective(rdlist)
      BY DEF ListExact
    <3> QED
      BY <2>2, <2>3, <2>4, <3>1, Rotated
  <2> QED
    BY <2>1, <2>5 DEF ListExact, Ready, Reported
<1>6. CASE handle_event \/ callback
  BY <1>2, <1>6 DEF handle_event, callback, kernelVars
<1>7. CASE UNCHANGED vars
  BY <1>2, <1>7 DEF vars, kernelVars
<1> QED
  BY <1>3, <1>4, <1>5, <1>6, <1>7 DEF Next, Loop

\* What is reported has a callback, and the callbacks are known ones.
LEMMA GuardCalls ==
    ASSUME NEW re \in SUBSET Happenings, re # {}
    PROVE  /\ handle_event_with_guard(re) \in Seq({"close", "error", "read", "write"})
           /\ handle_event_with_guard(re) # <<>>
<1> DEFINE a == IF "HUP" \in re /\ "IN" \notin re THEN <<"close">> ELSE <<>>
           b == IF "ERR" \in re THEN <<"error">> ELSE <<>>
           c == IF "IN" \in re THEN <<"read">> ELSE <<>>
           d == IF "OUT" \in re THEN <<"write">> ELSE <<>>
           C == {"close", "error", "read", "write"}
<1>0. /\ \A x \in C : <<x>> \in Seq(C) /\ Len(<<x>>) = 1
      /\ <<>> \in Seq(C)
  <2> HIDE DEF C
  <2> QED
    OBVIOUS
<1>1. a \in Seq(C) /\ b \in Seq(C) /\ c \in Seq(C) /\ d \in Seq(C)
  <2>1. /\ <<"close">> \in Seq(C) /\ <<"error">> \in Seq(C)
        /\ <<"read">> \in Seq(C) /\ <<"write">> \in Seq(C)
    BY <1>0
  <2> QED
    BY <1>0, <2>1, Zenon
<1>2. Len(a) > 0 \/ Len(b) > 0 \/ Len(c) > 0 \/ Len(d) > 0
  <2>1. \/ "IN" \in re \/ "ERR" \in re \/ "OUT" \in re
        \/ ("HUP" \in re /\ "IN" \notin re)
    BY DEF Happenings
  <2>2. CASE "IN" \in re
    BY <2>2
  <2>3. CASE "ERR" \in re
    BY <2>3
  <2>4. CASE "OUT" \in re
    BY <2>4
  <2>5. CASE "HUP" \in re /\ "IN" \notin re
    BY <2>5
  <2> QED
    BY <2>1, <2>2, <2>3, <2>4, <2>5
<1>3. handle_event_with_guard(re) = a \o b \o c \o d
  BY DEF handle_event_with_guard
<1> HIDE DEF a, b, c, d, C
<1>4. /\ a \o b \o c \o d \in Seq(C)
      /\ Len(a \o b \o c \o d) = Len(a) + Len(b) + Len(c) + Len(d)
      /\ Len(a) \in Nat /\ Len(b) \in Nat /\ Len(c) \in Nat /\ Len(d) \in Nat
  BY <1>1
<1>5. Len(a \o b \o c \o d) # 0
  BY <1>2, <1>4
<1> QED
  BY <1>3, <1>4, <1>5 DEF C

\* The steps that touch no batch.
LEMMA OwnerBatches ==
    ASSUME BatchCalls, BatchOnce, ListBounded,
           UNCHANGED <<active_chs_, handling, callbacks, size>>
    PROVE  BatchCalls' /\ BatchOnce' /\ ListBounded'
  BY DEF BatchCalls, BatchOnce, ListBounded

\* poll makes a batch of different channels, and doubles a list that was full.
LEMMA PollBatches ==
    ASSUME PollerInv, ListExact, BatchCalls, ListBounded, poll
    PROVE  BatchCalls' /\ BatchOnce' /\ ListBounded'
<1> DEFINE n == IF Len(rdlist) < size THEN Len(rdlist) ELSE size
           fds == SubSeq(rdlist, 1, n)
<1>1. /\ handling = NoChan /\ handling' = NoChan
      /\ active_chs_' = fill_active_chs(fds)
      /\ size' = resize(n)
  BY DEF poll
<1>2. rdlist \in Seq(Fds) /\ Len(rdlist) \in Nat /\ size \in Nat \ {0}
  BY DEF PollerInv, FieldsOK
<1>3. n \in 0 .. Len(rdlist)
  BY <1>2
<1>4. ListBounded'
  <2>1. Cardinality(Fds) \in Nat /\ Len(rdlist) <= Cardinality(Fds)
    BY ListShort DEF PollerInv
  <2>2. CASE n = size
    BY <1>1, <1>2, <1>3, <2>1, <2>2 DEF ListBounded, resize
  <2>3. CASE n # size
    BY <1>1, <2>3 DEF ListBounded, resize
  <2> QED
    BY <2>2, <2>3
<1> HIDE DEF n
<1>5. /\ fds \in Seq(Fds) /\ Len(fds) \in Nat /\ DOMAIN fds = 1 .. Len(fds)
      /\ \A i \in 1 .. Len(fds) : i \in 1 .. Len(rdlist) /\ fds[i] = rdlist[i]
  BY <1>2, <1>3
<1> HIDE DEF fds
<1>6. \A i, j \in 1 .. Len(fds) : fds[i] = fds[j] => i = j
  BY <1>2, <1>5 DEF ListExact, IsInjective
<1>7. \A i \in 1 .. Len(fds) : fds[i] \in Fds /\ Reported(epoll, cond, fds[i]) # {}
  <2> SUFFICES ASSUME NEW i \in 1 .. Len(fds)
               PROVE  fds[i] \in Fds /\ Reported(epoll, cond, fds[i]) # {}
    OBVIOUS
  <2>1. fds[i] \in ToSet(rdlist)
    BY <1>2, <1>5 DEF ToSet
  <2> QED
    BY <2>1 DEF ListExact, Ready
<1>8. \A i \in 1 .. Len(fds) : /\ epoll[fds[i]].ptr \in Chans
                               /\ fd_[epoll[fds[i]].ptr] = fds[i]
  <2> SUFFICES ASSUME NEW i \in 1 .. Len(fds)
               PROVE  epoll[fds[i]].ptr \in Chans /\ fd_[epoll[fds[i]].ptr] = fds[i]
    OBVIOUS
  <2>1. fds[i] \in Fds /\ epoll[fds[i]].ptr # NoChan
    BY <1>7 DEF Reported
  <2> QED
    BY <2>1, EntryOwner DEF PollerInv
<1>9. active_chs_' = [i \in 1 .. Len(fds) |->
                        [ch |-> epoll[fds[i]].ptr, revents_ |-> Reported(epoll, cond, fds[i])]]
  BY <1>1, <1>5 DEF fill_active_chs
<1>10. /\ Len(active_chs_') = Len(fds)
       /\ \A i \in 1 .. Len(fds) : /\ active_chs_'[i].ch = epoll[fds[i]].ptr
                                   /\ active_chs_'[i].revents_ = Reported(epoll, cond, fds[i])
  BY <1>5, <1>9
<1>11. BatchCalls'
  BY <1>1, <1>7, <1>10 DEF BatchCalls
<1>12. BatchOnce'
  BY <1>1, <1>6, <1>8, <1>10 DEF BatchOnce
<1> QED
  BY <1>4, <1>11, <1>12

\* The loop takes the first channel of a batch from it, and calls it to the end.
LEMMA HandleBatches ==
    ASSUME PollerInv, RestOK, BatchCalls, BatchOnce, handle_event \/ callback
    PROVE  /\ BatchCalls' /\ BatchOnce'
           /\ callbacks' \in Seq({"close", "error", "read", "write"})
<1> DEFINE C == {"close", "error", "read", "write"}
<1>0. callbacks \in Seq(C)
  BY DEF RestOK
<1>1. CASE callback
  <2>1. /\ handling # NoChan /\ callbacks' = Tail(callbacks) /\ active_chs_' = active_chs_
        /\ handling' = IF callbacks' = <<>> THEN NoChan ELSE handling
    BY <1>1 DEF callback
  <2>2. callbacks # <<>>
    BY <2>1 DEF BatchCalls
  <2> HIDE DEF C
  <2>3. callbacks' \in Seq(C)
    BY <1>0, <2>1, <2>2
  <2>4. \A i \in 1 .. Len(active_chs_) : active_chs_[i].ch # NoChan
    <3>1. active_chs_ \in Seq(Reports) /\ \A x \in Reports : x.ch # NoChan
      BY DEF PollerInv, FieldsOK, Reports
    <3>2. \A i \in 1 .. Len(active_chs_) : active_chs_[i] \in Reports
      BY <3>1
    <3> QED
      BY <3>1, <3>2
  <2>5. BatchCalls'
    BY <2>1 DEF BatchCalls
  <2>6. BatchOnce'
    BY <2>1, <2>4 DEF BatchOnce
  <2> QED
    BY <2>3, <2>5, <2>6 DEF C
<1>2. CASE handle_event
  <2>1. /\ handling = NoChan /\ active_chs_ # <<>> /\ active_chs_' = Tail(active_chs_)
        /\ \/ /\ handling' = Head(active_chs_).ch
              /\ callbacks' = handle_event_with_guard(Head(active_chs_).revents_)
           \/ UNCHANGED <<handling, callbacks>>
    BY <1>2 DEF handle_event
  <2>2. active_chs_ \in Seq(Reports)
    BY DEF PollerInv, FieldsOK
  <2>3. /\ active_chs_' \in Seq(Reports) /\ Len(active_chs_') = Len(active_chs_) - 1
        /\ Head(active_chs_) = active_chs_[1] /\ Head(active_chs_) \in Reports
        /\ Len(active_chs_) \in Nat \ {0}
        /\ \A i \in 1 .. Len(active_chs_') : active_chs_'[i] = active_chs_[i + 1]
    BY <2>1, <2>2, HeadTailProperties, EmptySeq
  <2>4. /\ 1 \in 1 .. Len(active_chs_)
        /\ \A i \in 1 .. Len(active_chs_') : i \in Nat /\ i + 1 \in 1 .. Len(active_chs_) /\ i + 1 # 1
    BY <2>3
  <2>5. /\ Head(active_chs_).revents_ \in SUBSET Happenings
        /\ Head(active_chs_).revents_ # {}
    BY <2>3, <2>4 DEF Reports, BatchCalls
  <2>6. callbacks' \in Seq(C)
    BY <1>0, <2>1, <2>5, GuardCalls
  <2>7. BatchCalls'
    <3>1. handling' # NoChan => callbacks' # <<>>
      BY <2>1, <2>5, GuardCalls
    <3>2. \A i \in 1 .. Len(active_chs_') : active_chs_'[i].revents_ # {}
      BY <2>3, <2>4 DEF BatchCalls
    <3> QED
      BY <3>1, <3>2 DEF BatchCalls
  <2>8. BatchOnce'
    <3>1. ASSUME NEW i \in 1 .. Len(active_chs_'), NEW j \in 1 .. Len(active_chs_'),
                 active_chs_'[i].ch = active_chs_'[j].ch
          PROVE  i = j
      <4>1. i + 1 = j + 1
        BY <2>3, <2>4, <3>1 DEF BatchOnce
      <4> QED
        BY <2>4, <4>1
    <3>2. ASSUME NEW i \in 1 .. Len(active_chs_') PROVE active_chs_'[i].ch # handling'
      <4>1. active_chs_'[i].ch = active_chs_[i + 1].ch /\ active_chs_[i + 1].ch # active_chs_[1].ch
        BY <2>3, <2>4 DEF BatchOnce
      <4>2. active_chs_[i + 1].ch # handling
        BY <2>4 DEF BatchOnce
      <4> QED
        BY <2>1, <2>3, <4>1, <4>2
    <3> QED
      BY <3>1, <3>2 DEF BatchOnce
  <2> QED
    BY <2>6, <2>7, <2>8
<1> QED
  BY <1>1, <1>2

\* What the owners' calls and the kernel do to the other fields.
LEMMA RestStep ==
    ASSUME PollerInv, RestOK, UNCHANGED callbacks,
           Owners \/ (\E fd \in Fds : \E e \in Conditions[fd] : fd_changes(fd, e))
    PROVE  RestOK'
<1>0. cond \in [Fds -> SUBSET Happenings] /\ fd_ \in [Chans -> Fds]
  BY DEF PollerInv, FieldsOK
<1>1. ASSUME UNCHANGED cond, faults' \in 0 .. MaxFaults, refused' \subseteq Chans,
             removed' \subseteq Chans
      PROVE  RestOK'
  BY <1>1 DEF RestOK
<1>2. ASSUME NEW fd \in Fds, NEW e \in Conditions[fd], fd_changes(fd, e) PROVE RestOK'
  <2>1. \A f \in Fds : cond'[f] \subseteq cond[f] \cup (IF f = fd THEN {e} ELSE {})
    BY <1>0, <1>2 DEF fd_changes
  <2>2. \A f \in Fds : cond'[f] \subseteq Conditions[f]
    BY <2>1 DEF RestOK
  <2> QED
    BY <1>2, <2>2 DEF fd_changes, RestOK
<1>3. CASE Owners
  <2>1. PICK c \in Chans : \/ \E fd \in Fds : chan(c, fd)
                           \/ \E ev \in interests(c) : update(c, ev)
                           \/ remove(c) \/ expire(c) \/ dtor(c)
    BY <1>3 DEF Owners
  <2>2. CASE (\E fd \in Fds : chan(c, fd)) \/ expire(c)
    BY <1>1, <2>2 DEF chan, expire, kernelVars, RestOK
  <2>3. CASE \E ev \in interests(c) : update(c, ev)
    <3>1. faults' \in 0 .. MaxFaults /\ refused' \subseteq Chans
      BY <2>3 DEF update, update_chan, EPOLL_CTL_ADD, EPOLL_CTL_MOD, RestOK
    <3> QED
      BY <1>1, <2>3, <3>1 DEF update, RestOK
  <2>4. CASE remove(c)
    BY <1>1, <2>4 DEF remove, remove_chan, EPOLL_CTL_DEL, RestOK
  <2>5. CASE dtor(c)
    <3>1. \A f \in Fds : cond'[f] \subseteq cond[f]
      BY <1>0, <2>5 DEF dtor
    <3> QED
      BY <2>5, <3>1 DEF dtor, RestOK
  <2> QED
    BY <2>1, <2>2, <2>3, <2>4, <2>5
<1> QED
  BY <1>2, <1>3

\* Every step preserves what is said of the batches.
LEMMA BatchStep == PollerInv /\ BatchInv /\ [Next]_vars => BatchInv'
<1> SUFFICES ASSUME PollerInv, BatchInv, [Next]_vars PROVE BatchInv'
  OBVIOUS
<1>0. RestOK /\ ListExact /\ BatchCalls /\ BatchOnce /\ ListBounded
  BY DEF BatchInv
<1>1. ListExact'
  BY <1>0, ListStep
<1>2. CASE Owners \/ (\E fd \in Fds : \E e \in Conditions[fd] : fd_changes(fd, e))
  <2>1. UNCHANGED <<active_chs_, handling, callbacks, size>>
    BY <1>2 DEF Owners, chan, update, remove, expire, dtor, fd_changes, batchVars
  <2>2. RestOK'
    BY <1>0, <1>2, <2>1, RestStep
  <2> QED
    BY <1>0, <1>1, <2>1, <2>2, OwnerBatches DEF BatchInv
<1>3. CASE poll
  <2>1. RestOK'
    BY <1>0, <1>3 DEF poll, RestOK
  <2> QED
    BY <1>0, <1>1, <1>3, <2>1, PollBatches DEF BatchInv
<1>4. CASE handle_event \/ callback
  <2>1. UNCHANGED <<cond, faults, refused, removed, size>>
    BY <1>4 DEF handle_event, callback, kernelVars
  <2>2. BatchCalls' /\ BatchOnce' /\ callbacks' \in Seq({"close", "error", "read", "write"})
    BY <1>0, <1>4, HandleBatches
  <2>3. RestOK' /\ ListBounded'
    BY <1>0, <2>1, <2>2 DEF RestOK, ListBounded
  <2> QED
    BY <1>1, <2>2, <2>3 DEF BatchInv
<1>5. CASE UNCHANGED vars
  <2>1. UNCHANGED <<active_chs_, handling, callbacks, size, cond, faults, refused, removed>>
    BY <1>5 DEF vars, batchVars, kernelVars
  <2>2. RestOK'
    BY <1>0, <2>1 DEF RestOK
  <2> QED
    BY <1>0, <1>1, <2>1, <2>2, OwnerBatches DEF BatchInv
<1> QED
  BY <1>2, <1>3, <1>4, <1>5 DEF Next, Loop

\* Nothing is ready at first.
LEMMA InitBatch == Init => BatchInv
<1> SUFFICES ASSUME Init PROVE BatchInv
  OBVIOUS
<1>1. RestOK
  BY DEF Init, RestOK
<1>2. ListExact
  <2>1. \A fd \in Fds : Reported(epoll, cond, fd) = {}
    BY DEF Init, Reported, NoEntry
  <2>2. DOMAIN rdlist = {}
    BY DEF Init
  <2> QED
    BY <2>1, <2>2 DEF ListExact, Ready, IsInjective, ToSet
<1>3. BatchCalls /\ BatchOnce
  BY DEF Init, BatchCalls, BatchOnce
<1>4. ListBounded
  BY DEF Init, ListBounded
<1> QED
  BY <1>1, <1>2, <1>3, <1>4 DEF BatchInv

\* BatchInv holds in every reachable state.
THEOREM BatchInvariant == Spec => []BatchInv
  BY PollerInvariant, InitBatch, BatchStep, PTL DEF Spec

\* The variables keep their types: among other things no two channels that exist
\* have the same descriptor, and the kernel's list is exact.
THEOREM TypeCorrect == Spec => []TypeOK
<1>1. PollerInv /\ BatchInv => TypeOK
  BY DEF PollerInv, BatchInv, RestOK, ListExact, Ready, FieldsOK, OwnFds, TypeOK,
         Entries, Reports, Happenings
<1> QED
  BY <1>1, PollerInvariant, BatchInvariant, PTL

\* Whatever the callbacks of a batch do to their own and to other channels, no channel
\* is handled twice in it, and every one that is handled has a callback to call.
THEOREM HandledOncePerBatch == Spec => [](BatchOnce /\ BatchCalls)
<1>1. BatchInv => BatchOnce /\ BatchCalls
  BY DEF BatchInv
<1> QED
  BY <1>1, BatchInvariant, PTL

\* The list that poll doubles when it was full stays within twice
\* the number of descriptors, or what it was at first.
THEOREM EventListBounded == Spec => []ListBounded
<1>1. BatchInv => ListBounded
  BY DEF BatchInv
<1> QED
  BY <1>1, BatchInvariant, PTL
=============================================================================
