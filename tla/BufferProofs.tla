---------------------------- MODULE BufferProofs ----------------------------
(***************************************************************************)
(* Proofs about Buffer, for all sizes.  Shape and Holds restate TypeOK and *)
(* StreamKept for an arbitrary buffer value, so that each member function  *)
(* gets a lemma of its own.                                                *)
(***************************************************************************)
EXTENDS Buffer, TLAPS

Shape(x) ==
    /\ x \in [buf_ : [0 .. x.size - 1 -> Nat], size : Nat,
              reader_index_ : Nat, writer_index_ : Nat]
    /\ CHEAP_PREPEND <= x.reader_index_
    /\ x.reader_index_ <= x.writer_index_
    /\ x.writer_index_ <= x.size

\* The unread bytes of x are those of the stream after the first t.
Holds(x, t) ==
    \A i \in x.reader_index_ .. x.writer_index_ - 1 :
        x.buf_[i] = t + (i - x.reader_index_) + 1

Small(n) == n <= CHEAP_PREPEND + INITIAL_SIZE \/ n < CHEAP_PREPEND + Backlog + MaxLen

IInv ==
    /\ Shape(b) /\ given \in Nat /\ taken \in Nat
    /\ readable_bytes(b) = given - taken
    /\ Holds(b, taken)
    /\ Small(b.size)

\* A well-formed buffer that holds the stream, field by field ...
LEMMA Fields ==
    ASSUME NEW x, Shape(x), NEW t \in Nat, Holds(x, t)
    PROVE  /\ x.size \in Nat /\ x.reader_index_ \in Nat /\ x.writer_index_ \in Nat
           /\ x.buf_ \in [0 .. x.size - 1 -> Nat]
           /\ CHEAP_PREPEND <= x.reader_index_
           /\ x.reader_index_ <= x.writer_index_
           /\ x.writer_index_ <= x.size
           /\ \A i \in x.reader_index_ .. x.writer_index_ - 1 :
                x.buf_[i] = t + (i - x.reader_index_) + 1
  BY DEF Shape, Holds

\* ... and one put together from such fields.
LEMMA BufFields ==
    ASSUME NEW cells, NEW n, NEW r, NEW w
    PROVE  /\ Buf(cells, n, r, w).buf_ = cells
           /\ Buf(cells, n, r, w).size = n
           /\ Buf(cells, n, r, w).reader_index_ = r
           /\ Buf(cells, n, r, w).writer_index_ = w
  BY DEF Buf

LEMMA BufHolds ==
    ASSUME NEW n \in Nat, NEW r \in Nat, NEW w \in Nat, NEW cells \in [0 .. n - 1 -> Nat],
           CHEAP_PREPEND <= r, r <= w, w <= n,
           NEW t \in Nat, \A i \in r .. w - 1 : cells[i] = t + (i - r) + 1
    PROVE  Shape(Buf(cells, n, r, w)) /\ Holds(Buf(cells, n, r, w), t)
  <1>1. Shape(Buf(cells, n, r, w))
    BY DEF Buf, Shape
  <1>2. Holds(Buf(cells, n, r, w), t)
    <2> DEFINE y == Buf(cells, n, r, w)
    <2>1. y.buf_ = cells /\ y.reader_index_ = r /\ y.writer_index_ = w
      BY BufFields
    <2> HIDE DEF y
    <2>2. Holds(y, t)
      BY <2>1 DEF Holds
    <2> QED  BY <2>2 DEF y
  <1> QED  BY <1>1, <1>2

\* buf_.resize to more bytes keeps what is unread.
LEMMA ResizeKeeps ==
    ASSUME NEW x, Shape(x), NEW t \in Nat, Holds(x, t), NEW n \in Nat, x.size <= n
    PROVE  /\ Shape(resize(x, n))
           /\ Holds(resize(x, n), t)
           /\ resize(x, n).size = n
           /\ resize(x, n).reader_index_ = x.reader_index_
           /\ resize(x, n).writer_index_ = x.writer_index_
  <1> USE SizesAssumption
  <1> DEFINE c == x.buf_
             s == x.size
             r == x.reader_index_
             w == x.writer_index_
  <1>1. /\ s \in Nat /\ r \in Nat /\ w \in Nat /\ c \in [0 .. s - 1 -> Nat]
        /\ CHEAP_PREPEND <= r /\ r <= w /\ w <= s
        /\ \A i \in r .. w - 1 : c[i] = t + (i - r) + 1
    BY Fields
  <1> DEFINE d == [i \in 0 .. n - 1 |-> IF i < s THEN c[i] ELSE 0]
  <1>2. resize(x, n) = Buf(d, n, r, w) /\ s <= n
    BY DEF resize
  <1> HIDE DEF c, s, r, w
  <1>3. d \in [0 .. n - 1 -> Nat]
    BY <1>1
  <1>4. \A i \in r .. w - 1 : d[i] = t + (i - r) + 1
    BY <1>1, <1>2
  <1> HIDE DEF d
  <1>5. w <= n
    BY <1>1, <1>2
  <1>6. Shape(Buf(d, n, r, w)) /\ Holds(Buf(d, n, r, w), t)
    BY <1>1, <1>3, <1>4, <1>5, BufHolds
  <1> QED  BY <1>2, <1>6, BufFields DEF r, w

\* Moving the unread bytes to the front keeps them.
LEMMA CompactKeeps ==
    ASSUME NEW x, Shape(x), NEW t \in Nat, Holds(x, t)
    PROVE  /\ Shape(compact(x))
           /\ Holds(compact(x), t)
           /\ compact(x).size = x.size
           /\ compact(x).reader_index_ = CHEAP_PREPEND
           /\ compact(x).writer_index_ = CHEAP_PREPEND + (x.writer_index_ - x.reader_index_)
  <1> USE SizesAssumption
  <1> DEFINE c == x.buf_
             s == x.size
             r == x.reader_index_
             w == x.writer_index_
  <1>1. /\ s \in Nat /\ r \in Nat /\ w \in Nat /\ c \in [0 .. s - 1 -> Nat]
        /\ CHEAP_PREPEND <= r /\ r <= w /\ w <= s
        /\ \A i \in r .. w - 1 : c[i] = t + (i - r) + 1
    BY Fields
  <1> DEFINE k == CHEAP_PREPEND + (w - r)
             d == [i \in 0 .. s - 1 |->
                     IF i \in CHEAP_PREPEND .. CHEAP_PREPEND + (w - r) - 1
                       THEN c[r + (i - CHEAP_PREPEND)]
                       ELSE c[i]]
  <1>2. compact(x) = Buf(d, s, CHEAP_PREPEND, k)
    BY Zenon DEF compact, moved, readable_bytes
  <1> HIDE DEF c, s, r, w
  <1>3. k \in Nat /\ CHEAP_PREPEND <= CHEAP_PREPEND /\ CHEAP_PREPEND <= k /\ k <= s
    BY <1>1
  <1>4. d \in [0 .. s - 1 -> Nat]
    <2> SUFFICES ASSUME NEW i \in 0 .. s - 1
                 PROVE  d[i] \in Nat
      BY Zenon
    <2>1. CASE i \in CHEAP_PREPEND .. CHEAP_PREPEND + (w - r) - 1
      <3>1. r + (i - CHEAP_PREPEND) \in 0 .. s - 1
        BY <1>1, <2>1
      <3>2. d[i] = c[r + (i - CHEAP_PREPEND)]
        BY <2>1
      <3> QED  BY <1>1, <3>1, <3>2
    <2>2. CASE i \notin CHEAP_PREPEND .. CHEAP_PREPEND + (w - r) - 1
      BY <1>1, <2>2
    <2> QED  BY <2>1, <2>2
  <1>5. \A i \in CHEAP_PREPEND .. k - 1 : d[i] = t + (i - CHEAP_PREPEND) + 1
    <2> SUFFICES ASSUME NEW i \in CHEAP_PREPEND .. k - 1
                 PROVE  d[i] = t + (i - CHEAP_PREPEND) + 1
      OBVIOUS
    <2>1. /\ i \in 0 .. s - 1 /\ r + (i - CHEAP_PREPEND) \in r .. w - 1
          /\ i \in CHEAP_PREPEND .. CHEAP_PREPEND + (w - r) - 1
      BY <1>1, <1>3
    <2>2. d[i] = c[r + (i - CHEAP_PREPEND)]
      BY <2>1
    <2> QED  BY <1>1, <2>1, <2>2
  <1> HIDE DEF d, k
  <1>6. Shape(Buf(d, s, CHEAP_PREPEND, k)) /\ Holds(Buf(d, s, CHEAP_PREPEND, k), t)
    BY <1>1, <1>3, <1>4, <1>5, BufHolds
  <1> QED  BY <1>2, <1>6, BufFields DEF s, r, w, k

\* ensure_writable_bytes makes the room it is asked for, keeps the unread bytes
\* and does not grow the vector more than it has to.
LEMMA EnsureMakesRoom ==
    ASSUME NEW x, Shape(x), NEW t \in Nat, Holds(x, t), NEW len \in 0 .. MaxLen,
           readable_bytes(x) + len <= Backlog, Small(x.size)
    PROVE  /\ Shape(ensure_writable_bytes(x, len))
           /\ Holds(ensure_writable_bytes(x, len), t)
           /\ readable_bytes(ensure_writable_bytes(x, len)) = readable_bytes(x)
           /\ len <= writable_bytes(ensure_writable_bytes(x, len))
           /\ Small(ensure_writable_bytes(x, len).size)
  <1> USE SizesAssumption
  <1>1. CASE ~needs_space(x, len)
    BY <1>1 DEF needs_space, ensure_writable_bytes, writable_bytes, Shape
  <1>2. CASE needs_space(x, len) /\ must_grow(x, len)
    <2> DEFINE n == x.writer_index_ + len
    <2>1. ensure_writable_bytes(x, len) = resize(x, n)
      BY <1>2 DEF ensure_writable_bytes, make_space
    <2>2. n \in Nat /\ x.size <= n /\ n < CHEAP_PREPEND + Backlog + MaxLen
      BY <1>2 DEF Shape, needs_space, must_grow, writable_bytes, prependable_bytes, readable_bytes
    <2> HIDE DEF n
    <2>3. /\ Shape(resize(x, n)) /\ Holds(resize(x, n), t) /\ resize(x, n).size = n
          /\ resize(x, n).reader_index_ = x.reader_index_
          /\ resize(x, n).writer_index_ = x.writer_index_
      BY <2>2, ResizeKeeps
    <2>4. /\ readable_bytes(resize(x, n)) = readable_bytes(x)
          /\ len <= writable_bytes(resize(x, n))
      BY <2>3, Fields DEF n, readable_bytes, writable_bytes
    <2> QED  BY <2>1, <2>2, <2>3, <2>4 DEF Small
  <1>3. CASE needs_space(x, len) /\ ~must_grow(x, len)
    <2>1. ensure_writable_bytes(x, len) = compact(x)
      BY <1>3 DEF ensure_writable_bytes, make_space
    <2>2. /\ Shape(compact(x)) /\ Holds(compact(x), t) /\ compact(x).size = x.size
          /\ compact(x).reader_index_ = CHEAP_PREPEND
          /\ compact(x).writer_index_ = CHEAP_PREPEND + (x.writer_index_ - x.reader_index_)
      BY CompactKeeps
    <2> QED
      BY <1>3, <2>1, <2>2 DEF must_grow, writable_bytes, prependable_bytes, readable_bytes, Shape
  <1> QED  BY <1>1, <1>2, <1>3

\* Bytes that fit behind the writer index are added at the end.
LEMMA FillAppends ==
    ASSUME NEW x, Shape(x), NEW t \in Nat, Holds(x, t), NEW len \in Nat,
           len <= writable_bytes(x), NEW n \in Nat, n = t + readable_bytes(x)
    PROVE  /\ Shape(fill(x, n, len))
           /\ Holds(fill(x, n, len), t)
           /\ readable_bytes(fill(x, n, len)) = readable_bytes(x) + len
           /\ writable_bytes(fill(x, n, len)) = writable_bytes(x) - len
           /\ fill(x, n, len).size = x.size
  <1> USE SizesAssumption
  <1> DEFINE c == x.buf_
             s == x.size
             r == x.reader_index_
             w == x.writer_index_
  <1>1. /\ s \in Nat /\ r \in Nat /\ w \in Nat /\ c \in [0 .. s - 1 -> Nat]
        /\ CHEAP_PREPEND <= r /\ r <= w /\ w <= s
        /\ \A i \in r .. w - 1 : c[i] = t + (i - r) + 1
    BY Fields
  <1> DEFINE d == [i \in 0 .. s - 1 |->
                     IF i \in w .. w + len - 1 THEN n + (i - w) + 1 ELSE c[i]]
  <1>2. fill(x, n, len) = Buf(d, s, r, w + len)
    BY DEF fill
  <1>3. n = t + (w - r) /\ len <= s - w
    BY DEF readable_bytes, writable_bytes
  <1>4. readable_bytes(x) = w - r /\ writable_bytes(x) = s - w /\ x.size = s
    BY DEF readable_bytes, writable_bytes
  <1> HIDE DEF c, s, r, w
  <1>5. d \in [0 .. s - 1 -> Nat]
    BY <1>1
  <1>6. \A i \in r .. w + len - 1 : d[i] = t + (i - r) + 1
    <2> SUFFICES ASSUME NEW i \in r .. w + len - 1 PROVE d[i] = t + (i - r) + 1
      OBVIOUS
    <2>1. i \in 0 .. s - 1
      BY <1>1, <1>3
    <2>2. CASE i \in w .. w + len - 1
      <3>1. d[i] = n + (i - w) + 1
        BY <2>1, <2>2
      <3>2. r \in Int /\ w \in Int /\ i \in Int
        BY <1>1, <2>1
      <3>3. n = t + (w - r)
        BY <1>3
      <3>4. n + (i - w) + 1 = t + (i - r) + 1
        BY <3>2, <3>3
      <3> QED  BY <3>1, <3>4
    <2>3. CASE i \notin w .. w + len - 1
      <3>1. i \in r .. w - 1
        BY <1>1, <2>3
      <3>2. d[i] = c[i]
        BY <2>1, <2>3
      <3> QED  BY <1>1, <3>1, <3>2
    <2> QED  BY <2>2, <2>3
  <1> HIDE DEF d
  <1> DEFINE v == w + len
  <1>7. v \in Nat /\ r <= v /\ v <= s
    BY <1>1, <1>3
  <1> HIDE DEF v
  <1>8. Shape(Buf(d, s, r, v)) /\ Holds(Buf(d, s, r, v), t)
    <2>1. \A i \in r .. v - 1 : d[i] = t + (i - r) + 1
      BY <1>1, <1>6 DEF v
    <2> QED  BY <1>1, <1>5, <1>7, <2>1, BufHolds
  <1>9. /\ readable_bytes(Buf(d, s, r, v)) = (w - r) + len
        /\ writable_bytes(Buf(d, s, r, v)) = (s - w) - len
        /\ Buf(d, s, r, v).size = s
    BY <1>1, BufFields DEF readable_bytes, writable_bytes, v
  <1> QED  BY <1>2, <1>4, <1>8, <1>9 DEF v

\* append puts its bytes at the end, whatever room there was.
LEMMA AppendAppends ==
    ASSUME NEW x, Shape(x), NEW t \in Nat, Holds(x, t), NEW len \in 0 .. MaxLen,
           readable_bytes(x) + len <= Backlog, Small(x.size),
           NEW n \in Nat, n = t + readable_bytes(x)
    PROVE  /\ Shape(append(x, n, len))
           /\ Holds(append(x, n, len), t)
           /\ readable_bytes(append(x, n, len)) = readable_bytes(x) + len
           /\ Small(append(x, n, len).size)
  <1> DEFINE y == ensure_writable_bytes(x, len)
  <1>1. /\ Shape(y) /\ Holds(y, t) /\ readable_bytes(y) = readable_bytes(x)
        /\ len <= writable_bytes(y) /\ Small(y.size)
    BY EnsureMakesRoom
  <1>2. append(x, n, len) = fill(y, n, len)
    BY DEF append
  <1> HIDE DEF y
  <1>3. len \in Nat
    BY SizesAssumption
  <1>4. /\ Shape(fill(y, n, len)) /\ Holds(fill(y, n, len), t)
        /\ readable_bytes(fill(y, n, len)) = readable_bytes(y) + len
        /\ fill(y, n, len).size = y.size
    BY <1>1, <1>3, FillAppends
  <1> QED  BY <1>1, <1>2, <1>4

\* read_fd does the same with bytes that the kernel scatters over the vector and
\* extrabuf.
LEMMA ReadFdAppends ==
    ASSUME NEW x, Shape(x), NEW t \in Nat, Holds(x, t), NEW len \in 0 .. MaxLen,
           readable_bytes(x) + len <= Backlog, Small(x.size),
           NEW n \in Nat, n = t + readable_bytes(x)
    PROVE  /\ Shape(read_fd(x, n, len))
           /\ Holds(read_fd(x, n, len), t)
           /\ readable_bytes(read_fd(x, n, len)) = readable_bytes(x) + len
           /\ Small(read_fd(x, n, len).size)
  <1> USE SizesAssumption
  <1>0. readable_bytes(x) \in Nat /\ writable_bytes(x) \in Nat /\ len \in Nat
    BY DEF Shape, readable_bytes, writable_bytes
  <1>1. CASE len <= writable_bytes(x)
    <2>1. read_fd(x, n, len) = fill(x, n, len)
      BY <1>1 DEF read_fd
    <2> QED  BY <1>0, <1>1, <2>1, FillAppends
  <1>2. CASE ~(len <= writable_bytes(x))
    <2> DEFINE k == writable_bytes(x)
               y == fill(x, n, k)
               m == len - k
    <2>1. read_fd(x, n, len) = append(y, n + k, m)
      BY <1>2 DEF read_fd
    <2>2. k \in Nat /\ k <= writable_bytes(x) /\ m \in 0 .. MaxLen /\ len = k + m /\ n + k \in Nat
      BY <1>0, <1>2
    <2>3. /\ Shape(y) /\ Holds(y, t) /\ readable_bytes(y) = readable_bytes(x) + k
          /\ y.size = x.size
      BY <2>2, FillAppends
    <2> HIDE DEF k, y, m
    <2>4. readable_bytes(y) + m <= Backlog /\ n + k = t + readable_bytes(y)
      BY <1>0, <2>2, <2>3
    <2>5. Small(y.size)
      BY <2>3
    <2>6. /\ Shape(append(y, n + k, m)) /\ Holds(append(y, n + k, m), t)
          /\ readable_bytes(append(y, n + k, m)) = readable_bytes(y) + m
          /\ Small(append(y, n + k, m).size)
      BY <2>2, <2>3, <2>4, <2>5, AppendAppends
    <2> QED  BY <1>0, <2>1, <2>2, <2>3, <2>6
  <1> QED  BY <1>1, <1>2

\* retrieve drops the first len of the unread bytes, or all of them.
LEMMA RetrieveDrops ==
    ASSUME NEW x, Shape(x), NEW t \in Nat, Holds(x, t), NEW len \in Nat
    PROVE  /\ Shape(retrieve(x, len))
           /\ retrieve(x, len).size = x.size
           /\ len < readable_bytes(x) =>
                /\ Holds(retrieve(x, len), t + len)
                /\ readable_bytes(retrieve(x, len)) = readable_bytes(x) - len
           /\ ~(len < readable_bytes(x)) =>
                /\ Holds(retrieve(x, len), t + readable_bytes(x))
                /\ readable_bytes(retrieve(x, len)) = 0
  <1> USE SizesAssumption
  <1> DEFINE c == x.buf_
             s == x.size
             r == x.reader_index_
             w == x.writer_index_
  <1>1. /\ s \in Nat /\ r \in Nat /\ w \in Nat /\ c \in [0 .. s - 1 -> Nat]
        /\ CHEAP_PREPEND <= r /\ r <= w /\ w <= s
        /\ \A i \in r .. w - 1 : c[i] = t + (i - r) + 1
    BY Fields
  <1>2. readable_bytes(x) = w - r /\ x.size = s
    BY DEF readable_bytes
  <1>3. retrieve(x, len) = IF len < w - r THEN Buf(c, s, r + len, w)
                                          ELSE Buf(c, s, CHEAP_PREPEND, CHEAP_PREPEND)
    BY DEF retrieve, retrieve_all, readable_bytes
  <1> HIDE DEF c, s, r, w
  <1>4. CASE len < w - r
    <2>1. /\ r + len \in Nat /\ CHEAP_PREPEND <= r + len /\ r + len <= w /\ t + len \in Nat
          /\ \A i \in r + len .. w - 1 : c[i] = (t + len) + (i - (r + len)) + 1
      BY <1>1, <1>4
    <2>2. Shape(Buf(c, s, r + len, w)) /\ Holds(Buf(c, s, r + len, w), t + len)
      BY <1>1, <2>1, BufHolds
    <2>3. readable_bytes(Buf(c, s, r + len, w)) = (w - r) - len /\ Buf(c, s, r + len, w).size = s
      BY <1>1, BufFields DEF readable_bytes
    <2> QED  BY <1>2, <1>3, <1>4, <2>2, <2>3
  <1>5. CASE ~(len < w - r)
    <2> DEFINE p == CHEAP_PREPEND
               u == t + (w - r)
    <2>1. /\ p \in Nat /\ p <= p /\ p <= s /\ u \in Nat
          /\ \A i \in p .. p - 1 : c[i] = u + (i - p) + 1
      BY <1>1
    <2> HIDE DEF u
    <2>2. Shape(Buf(c, s, p, p)) /\ Holds(Buf(c, s, p, p), u)
      BY <1>1, <2>1, BufHolds
    <2>3. readable_bytes(Buf(c, s, p, p)) = 0 /\ Buf(c, s, p, p).size = s
      BY <1>1, BufFields DEF readable_bytes
    <2> QED  BY <1>2, <1>3, <1>5, <2>2, <2>3 DEF u
  <1> QED  BY <1>4, <1>5

\* The conjunction of the type, the content and the size is inductive.
THEOREM InductiveInvariant == Spec => []IInv
  <1> USE SizesAssumption
  <1>1. Init => IInv
    BY DEF Init, Buf, IInv, Shape, Holds, Small, readable_bytes
  <1>2. IInv /\ [Next]_vars => IInv'
    <2> SUFFICES ASSUME IInv, [Next]_vars PROVE IInv'
      OBVIOUS
    <2>0. readable_bytes(b) \in Nat /\ given = taken + readable_bytes(b)
      BY DEF IInv, Shape, readable_bytes
    <2>1. ASSUME NEW len \in 0 .. MaxLen, Append(len) PROVE IInv'
      <3>1. /\ Shape(b') /\ Holds(b', taken) /\ Small(b'.size)
            /\ readable_bytes(b') = readable_bytes(b) + len
        BY <2>0, <2>1, AppendAppends DEF IInv, Append, Accepts
      <3> QED  BY <2>0, <2>1, <3>1 DEF IInv, Append
    <2>2. ASSUME NEW len \in 0 .. MaxLen, ReadFd(len) PROVE IInv'
      <3>1. /\ Shape(b') /\ Holds(b', taken) /\ Small(b'.size)
            /\ readable_bytes(b') = readable_bytes(b) + len
        BY <2>0, <2>2, ReadFdAppends DEF IInv, ReadFd, Accepts
      <3> QED  BY <2>0, <2>2, <3>1 DEF IInv, ReadFd
    <2>3. ASSUME NEW len \in 0 .. MaxLen, EnsureWritableBytes(len) PROVE IInv'
      <3>1. /\ Shape(b') /\ Holds(b', taken) /\ Small(b'.size)
            /\ readable_bytes(b') = readable_bytes(b)
        BY <2>0, <2>3, EnsureMakesRoom DEF IInv, EnsureWritableBytes
      <3> QED  BY <2>0, <2>3, <3>1 DEF IInv, EnsureWritableBytes
    <2>4. ASSUME NEW len \in 0 .. MaxLen, Retrieve(len) PROVE IInv'
      <3>0. len \in Nat
        OBVIOUS
      <3>1. /\ Shape(b') /\ b'.size = b.size
            /\ len < readable_bytes(b) =>
                 /\ Holds(b', taken + len) /\ readable_bytes(b') = readable_bytes(b) - len
            /\ ~(len < readable_bytes(b)) =>
                 /\ Holds(b', taken + readable_bytes(b)) /\ readable_bytes(b') = 0
        BY <2>4, <3>0, RetrieveDrops DEF IInv, Retrieve
      <3> QED  BY <2>0, <2>4, <3>0, <3>1 DEF IInv, Retrieve
    <2>5. CASE UNCHANGED vars
      BY <2>5 DEF IInv, vars, Shape, Holds, Small, readable_bytes
    <2> QED  BY <2>1, <2>2, <2>3, <2>4, <2>5 DEF Next
  <1> QED  BY <1>1, <1>2, PTL DEF Spec

\* The indices of buffer stay in order and within the vector.
THEOREM TypeCorrect == Spec => []TypeOK
  <1>1. IInv => TypeOK
    BY DEF IInv, Shape, TypeOK
  <1> QED  BY <1>1, InductiveInvariant, PTL

\* No byte is lost, repeated or reordered by buffer.
THEOREM StreamIsKept == Spec => []StreamKept
  <1>1. IInv => StreamKept
    BY DEF IInv, Holds, StreamKept
  <1> QED  BY <1>1, InductiveInvariant, PTL

\* make_space never copies the unread bytes onto themselves.
THEOREM CompactionAlwaysMoves == Spec => []CompactionMoves
  <1>1. IInv => CompactionMoves
    BY SizesAssumption DEF IInv, Shape, CompactionMoves, needs_space, must_grow,
       writable_bytes, prependable_bytes
  <1> QED  BY <1>1, InductiveInvariant, PTL

\* The memory of buffer is bounded by what its callers leave unread.
THEOREM MemoryBounded == Spec => []BufferBounded
  <1>1. IInv => BufferBounded
    BY DEF IInv, Small, BufferBounded
  <1> QED  BY <1>1, InductiveInvariant, PTL
=============================================================================
