------------------------------- MODULE Buffer -------------------------------
(***************************************************************************)
(* buffer (include/net/buffer.h, src/net/buffer.cpp): the byte queue of a  *)
(* tcp_conn, one vector with a reader and a writer index and a reserve of  *)
(* CHEAP_PREPEND bytes in front.  When the space behind the writer is too  *)
(* short, the unread bytes move to the front or the vector grows.          *)
(*                                                                         *)
(* A byte is its position in the stream that goes through the buffer (1,   *)
(* 2, ...), and 0 where nothing was ever written, so that a byte that is   *)
(* lost, repeated or moved shows.  A write outside of the vector is lost.  *)
(***************************************************************************)
EXTENDS Integers

CONSTANTS CHEAP_PREPEND,
          INITIAL_SIZE,
          ExtraSize,   \* sizeof(extrabuf) in read_fd
          MaxLen,      \* the largest length given to one call
          Backlog,     \* the unread bytes that the callers let pile up
          MaxBytes     \* bound: bytes that go through the buffer

ASSUME SizesAssumption ==
    /\ CHEAP_PREPEND \in Nat /\ INITIAL_SIZE \in Nat /\ ExtraSize \in Nat
    /\ MaxLen \in Nat /\ Backlog \in Nat /\ MaxBytes \in Nat

VARIABLES b,       \* the buffer: buf_ (indexed from 0), size = buf_.size(),
                   \* reader_index_ and writer_index_
          given,   \* bytes written into the buffer so far
          taken    \* bytes retrieved so far

vars == <<b, given, taken>>

Buf(cells, n, r, w) ==
    [buf_ |-> cells, size |-> n, reader_index_ |-> r, writer_index_ |-> w]

readable_bytes(x) == x.writer_index_ - x.reader_index_
writable_bytes(x) == x.size - x.writer_index_
prependable_bytes(x) == x.reader_index_

\* The values each variable may have; the indices stay in order and within the
\* vector, so that none of the size_t differences wraps.
TypeOK ==
    /\ b \in [buf_ : [0 .. b.size - 1 -> Nat], size : Nat,
              reader_index_ : Nat, writer_index_ : Nat]
    /\ CHEAP_PREPEND <= b.reader_index_
    /\ b.reader_index_ <= b.writer_index_
    /\ b.writer_index_ <= b.size
    /\ given \in Nat
    /\ taken \in Nat

Init ==
    /\ b = Buf([i \in 0 .. CHEAP_PREPEND + INITIAL_SIZE - 1 |-> 0],
               CHEAP_PREPEND + INITIAL_SIZE, CHEAP_PREPEND, CHEAP_PREPEND)
    /\ given = 0
    /\ taken = 0

----------------------------------------------------------------------------
(* The member functions, as functions of the buffer.                       *)

retrieve_all(x) == Buf(x.buf_, x.size, CHEAP_PREPEND, CHEAP_PREPEND)

retrieve(x, len) ==
    IF len < readable_bytes(x)
      THEN Buf(x.buf_, x.size, x.reader_index_ + len, x.writer_index_)
      ELSE retrieve_all(x)

\* Mutant: the reserve in front is taken for free space.
must_grow_NoReserve(x, len) == writable_bytes(x) + prependable_bytes(x) < len

\* Mutant: the space in front is never reused.
must_grow_Always(x, len) == TRUE

\* make_space's test: the bytes would not fit even after moving the unread ones.
must_grow(x, len) == writable_bytes(x) + prependable_bytes(x) < len + CHEAP_PREPEND

\* buf_.resize(n), which fills with zeroes.
resize(x, n) ==
    Buf([i \in 0 .. n - 1 |-> IF i < x.size THEN x.buf_[i] ELSE 0], n,
        x.reader_index_, x.writer_index_)

\* std::copy of the unread bytes to the front.
moved(x) ==
    [i \in 0 .. x.size - 1 |->
       IF i \in CHEAP_PREPEND .. CHEAP_PREPEND + readable_bytes(x) - 1
         THEN x.buf_[x.reader_index_ + (i - CHEAP_PREPEND)]
         ELSE x.buf_[i]]

\* Mutant: the writer index is not moved with the bytes.
compact_KeepsWriter(x) == Buf(moved(x), x.size, CHEAP_PREPEND, x.writer_index_)

\* make_space's other branch.
compact(x) == Buf(moved(x), x.size, CHEAP_PREPEND, CHEAP_PREPEND + readable_bytes(x))

make_space(x, len) ==
    IF must_grow(x, len) THEN resize(x, x.writer_index_ + len) ELSE compact(x)

\* Mutant: space is made when there is just enough of it.
needs_space_OrEqual(x, len) == writable_bytes(x) <= len

needs_space(x, len) == writable_bytes(x) < len

ensure_writable_bytes(x, len) == IF needs_space(x, len) THEN make_space(x, len) ELSE x

\* std::copy to begin_write() and the new writer_index_: the bytes put in are
\* the ones after the first n of the stream.
fill(x, n, len) ==
    Buf([i \in 0 .. x.size - 1 |->
           IF i \in x.writer_index_ .. x.writer_index_ + len - 1
             THEN n + (i - x.writer_index_) + 1
             ELSE x.buf_[i]],
        x.size, x.reader_index_, x.writer_index_ + len)

append(x, n, len) == fill(ensure_writable_bytes(x, len), n, len)

\* What readv may store: the space behind the writer, and extrabuf as well when
\* that space is smaller than it.
iov_room(x) == IF writable_bytes(x) < ExtraSize THEN writable_bytes(x) + ExtraSize
                                                ELSE writable_bytes(x)

\* read_fd after readv has returned len bytes.
read_fd(x, n, len) ==
    IF len <= writable_bytes(x)
      THEN fill(x, n, len)
      ELSE append(fill(x, n, writable_bytes(x)), n + writable_bytes(x), len - writable_bytes(x))

----------------------------------------------------------------------------
(* The calls.                                                              *)

\* The callers' side: how many bytes may come in one call.
Accepts(len) == readable_bytes(b) + len <= Backlog /\ given + len <= MaxBytes

Append(len) ==
    /\ Accepts(len)
    /\ b' = append(b, given, len)
    /\ given' = given + len
    /\ taken' = taken

ReadFd(len) ==
    /\ Accepts(len) /\ len <= iov_room(b)
    /\ b' = read_fd(b, given, len)
    /\ given' = given + len
    /\ taken' = taken

EnsureWritableBytes(len) ==
    /\ readable_bytes(b) + len <= Backlog
    /\ b' = ensure_writable_bytes(b, len)
    /\ UNCHANGED <<given, taken>>

\* retrieve, alone, after a write_fd of len bytes, and at the end of
\* retrieve_as_string and retrieve_all_as_string; more than there is takes all.
Retrieve(len) ==
    /\ b' = retrieve(b, len)
    /\ taken' = IF len < readable_bytes(b) THEN taken + len ELSE taken + readable_bytes(b)
    /\ given' = given

Next == \E len \in 0 .. MaxLen : Append(len) \/ ReadFd(len) \/ EnsureWritableBytes(len) \/ Retrieve(len)

Spec == Init /\ [][Next]_vars

----------------------------------------------------------------------------
(* Properties.                                                             *)

\* What peek() shows is what was put in and not retrieved yet, in order, through
\* any sequence of growing, moving, scattered reads and partial retrieves.
StreamKept ==
    /\ readable_bytes(b) = given - taken
    /\ \A i \in b.reader_index_ .. b.writer_index_ - 1 :
         b.buf_[i] = taken + (i - b.reader_index_) + 1

\* When make_space moves the unread bytes they do move: std::copy is undefined
\* when the destination lies in the range that is copied.
CompactionMoves ==
    \A len \in 0 .. MaxLen :
        needs_space(b, len) /\ ~must_grow(b, len) => b.reader_index_ > CHEAP_PREPEND

\* Memory: the vector is never larger than its initial size or than the unread
\* bytes the callers allow, the reserve, and less than one call's bytes more.
BufferBounded ==
    \/ b.size <= CHEAP_PREPEND + INITIAL_SIZE
    \/ b.size < CHEAP_PREPEND + Backlog + MaxLen
=============================================================================
