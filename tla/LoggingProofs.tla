--------------------------- MODULE LoggingProofs ---------------------------
(***************************************************************************)
(* What holds of the logger for every size of its buffer, every message,   *)
(* integers of every width and any number of threads: no item overruns the *)
(* buffer, the numbers that are written digit by digit behind cur_         *)
(* included; every numeral in a record stands for the number that was      *)
(* streamed; a short record loses nothing; a record without its newline is *)
(* full; what a FATAL record found in the output is written before the     *)
(* process aborts.                                                         *)
(*                                                                         *)
(* A number is tested for room once, before its first digit.  DigitsInv    *)
(* therefore ties the digits that are there to what is still to divide:    *)
(* after k of them at most Left[k] is left, so the loop ends in time.      *)
(* ContentInv, on top of it, says which digits they are, where each item   *)
(* is, and that a short record has room for what is still to come.         *)
(***************************************************************************)
EXTENDS Logging, SequenceTheorems, WellFoundedInduction, TLAPS

AllItems == Items \cup {End}
Chars == 0 .. 12
Placed == [item : AllItems, from : Int, to : Int]
Entries == [by : Threads, items : Seq(AllItems), chars : Seq(Chars), placed : Seq(Placed)]

\* Every variable has a value of its kind.
FieldsOK ==
    /\ pc \in [Threads -> {"idle", "stream", "digits", "flush", "abort"}]
    /\ level_ \in [Threads -> {"FATAL", "other"}]
    /\ items \in [Threads -> Seq(AllItems)]
    /\ next \in [Threads -> Nat \ {0}]
    /\ buffer_ \in [Threads -> Seq(Chars)]
    /\ num \in [Threads -> Int]
    /\ digits \in [Threads -> Seq(Chars)]
    /\ placed \in [Threads -> Seq(Placed)]
    /\ output \in Seq(Entries)
    /\ flushed \in 0 .. Len(output)
    /\ aborted \in Threads \cup {NoThread}

Busy == {"stream", "digits"}

\* A record under way ends with finish()'s newline; a thread without one has
\* nothing to stream.  One byte of every buffer is free.
RecordInv ==
    \A t \in Threads :
        /\ next[t] <= Len(items[t]) + 1
        /\ Len(placed[t]) < next[t]
        /\ Len(buffer_[t]) < SIZE
        /\ pc[t] \in Busy => Len(items[t]) > 0 /\ items[t][Len(items[t])] = End
        /\ pc[t] \notin Busy => items[t] = <<>>

\* In format_integer's loop there is room for the longest number, and what is
\* still to divide shrinks with every digit.
DigitsInv ==
    \A t \in Threads :
        /\ pc[t] # "digits" => digits[t] = <<>>
        /\ pc[t] = "digits" =>
             /\ next[t] <= Len(items[t]) /\ items[t][next[t]].kind = "int"
             /\ SIZE - Len(buffer_[t]) >= MAX_NUM_SIZE
             /\ Len(digits[t]) <= MAX_NUM_SIZE - 3
             /\ -Left[Len(digits[t])] <= num[t] /\ num[t] <= Left[Len(digits[t])]

\* Characters that end with the newline, or leave no room for it.
Terminated(cs) == cs[Len(cs)] = Newline \/ Len(cs) = SIZE - 1

\* Every record that is complete, in a buffer or in the output, is terminated.
NewlineInv ==
    /\ \A t \in Threads : pc[t] = "stream" /\ next[t] > Len(items[t]) => Terminated(buffer_[t])
    /\ \A i \in 1 .. Len(output) : Terminated(output[i].chars)

\* A thread that is about to abort has had its records flushed.
FlushInv ==
    /\ \A t \in Threads : pc[t] = "abort" =>
         \A i \in 1 .. Len(output) : output[i].by = t => i <= flushed
    /\ aborted \in Threads => pc[aborted] = "abort"

IInv == FieldsOK /\ RecordInv /\ DigitsInv /\ NewlineInv /\ FlushInv

----------------------------------------------------------------------------
(* Induction and recursive definitions.  The order of the natural numbers  *)
(* is well founded; stated with sets, the provers can use it.              *)

\* Induction from 0 to N.
LEMMA Induction ==
    ASSUME NEW N \in Nat, NEW S, 0 \in S, \A n \in 0 .. N - 1 : n \in S => n + 1 \in S
    PROVE  \A n \in 0 .. N : n \in S
<1> DEFINE R == OpToRel(<, Nat)
           T == (0 .. N) \ S
<1>1. SUFFICES ASSUME T # {} PROVE FALSE
  OBVIOUS
<1>2. IsWellFoundedOn(R, Nat)
  BY NatLessThanWellFounded
<1>3. \E x \in T : \A y \in T : ~(<<y, x>> \in R)
  <2>1. T \subseteq Nat
    OBVIOUS
  <2> HIDE DEF R, T
  <2> QED
    BY <1>1, <1>2, <2>1, WFMin
<1>4. PICK x \in T : \A y \in T : ~(<<y, x>> \in R)
  BY <1>3
<1>5. x \in Nat /\ x \in 1 .. N /\ x - 1 \in 0 .. N - 1 /\ x - 1 < x
  OBVIOUS
<1>6. <<x - 1, x>> \in R
  BY <1>5 DEF OpToRel
<1> HIDE DEF R
<1>7. x - 1 \in S
  BY <1>4, <1>5, <1>6
<1>8. (x - 1) + 1 \in S
  BY <1>5, <1>7
<1> QED
  BY <1>4, <1>5, <1>8

\* What holds of a value and of every step from it holds of all.
LEMMA Typed ==
    ASSUME NEW N \in Nat, NEW T, NEW f, f[0] \in T,
           \A i \in 1 .. N : f[i - 1] \in T => f[i] \in T
    PROVE  \A n \in 0 .. N : f[n] \in T
<1> DEFINE S == {n \in 0 .. N : f[n] \in T}
<1>1. 0 \in S
  OBVIOUS
<1>2. ASSUME NEW n \in 0 .. N - 1, n \in S PROVE n + 1 \in S
  <2>1. n + 1 \in 1 .. N /\ (n + 1) - 1 = n
    OBVIOUS
  <2> QED
    BY <1>2, <2>1
<1> HIDE DEF S
<1>3. \A n \in 0 .. N : n \in S
  BY <1>1, <1>2, Induction
<1> QED
  BY <1>3 DEF S

\* The values that F[1], F[2], ... F[N] lead to, one after the other, from a.
Iterates(N, T, a, F) ==
    {g \in [0 .. N -> T] : g[0] = a /\ \A i \in 1 .. N : g[i] = F[i][g[i - 1]]}

\* There are such values: what a recursive definition asks for exists.
LEMMA Iteration ==
    ASSUME NEW N \in Nat, NEW T, NEW a \in T, NEW F \in [1 .. N -> [T -> T]]
    PROVE  Iterates(N, T, a, F) # {}
<1> DEFINE Steps(n, g) == g[0] = a /\ \A i \in 1 .. n : g[i] = F[i][g[i - 1]]
           S == {n \in 0 .. N : \E g \in [0 .. n -> T] : Steps(n, g)}
<1>1. 0 \in S
  <2> DEFINE g == [i \in 0 .. 0 |-> a]
  <2>1. g \in [0 .. 0 -> T] /\ Steps(0, g) /\ 0 \in 0 .. N
    OBVIOUS
  <2> HIDE DEF Steps, g
  <2> QED
    BY <2>1
<1>2. ASSUME NEW n \in 0 .. N - 1, n \in S PROVE n + 1 \in S
  <2>1. PICK g \in [0 .. n -> T] : Steps(n, g)
    BY <1>2
  <2> DEFINE h == [i \in 0 .. n + 1 |-> IF i = n + 1 THEN F[n + 1][g[n]] ELSE g[i]]
  <2>2. n + 1 \in 1 .. N /\ n \in 0 .. n /\ n \in Nat
    OBVIOUS
  <2>3. F[n + 1][g[n]] \in T
    BY <2>2
  <2>4. h \in [0 .. n + 1 -> T]
    BY <2>2, <2>3
  <2>5. h[0] = a
    BY <2>1, <2>2
  <2>6. ASSUME NEW i \in 1 .. n + 1 PROVE h[i] = F[i][h[i - 1]]
    <3>1. CASE i = n + 1
      BY <2>2, <3>1
    <3>2. CASE i # n + 1
      <4>1. i \in 1 .. n /\ i \in 0 .. n + 1 /\ i - 1 \in 0 .. n + 1 /\ i - 1 # n + 1
        BY <2>2, <3>2
      <4>2. h[i] = g[i] /\ h[i - 1] = g[i - 1]
        BY <3>2, <4>1
      <4> QED
        BY <2>1, <4>1, <4>2
    <3> QED
      BY <3>1, <3>2
  <2>7. Steps(n + 1, h)
    BY <2>5, <2>6
  <2>8. n + 1 \in 0 .. N
    OBVIOUS
  <2> HIDE DEF Steps
  <2> QED
    BY <2>4, <2>7, <2>8
<1> HIDE DEF S
<1>3. \A n \in 0 .. N : n \in S
  BY <1>1, <1>2, Induction
<1>4. N \in S
  BY <1>3
<1> QED
  BY <1>4 DEF S, Iterates

\* What is left of the greatest number.
LEMMA LeftSteps ==
    /\ Left \in [0 .. MAX_NUM_SIZE - 2 -> Nat]
    /\ Left[0] = MaxNumber
    /\ \A k \in 0 .. MAX_NUM_SIZE - 3 : Left[k + 1] = Left[k] \div 10
    /\ Left[MAX_NUM_SIZE - 2] = 0
<1> DEFINE N == MAX_NUM_SIZE - 2
           F == [i \in 1 .. N |-> [x \in Nat |-> x \div 10]]
<1>1. N \in Nat /\ MaxNumber \in Nat /\ Left[N] = 0 /\ 0 .. N - 1 = 0 .. MAX_NUM_SIZE - 3
  BY LoggingAssumption, DigitsAssumption
<1>2. Left = CHOOSE l : l = [k \in 0 .. N |-> IF k = 0 THEN MaxNumber ELSE l[k - 1] \div 10]
  BY DEF Left
<1> HIDE DEF N
<1>3. F \in [1 .. N -> [Nat -> Nat]]
  OBVIOUS
<1>4. PICK g \in [0 .. N -> Nat] : g[0] = MaxNumber /\ \A i \in 1 .. N : g[i] = F[i][g[i - 1]]
  <2> DEFINE T == Nat
  <2>1. N \in Nat
    BY <1>1
  <2>2. MaxNumber \in T
    BY <1>1
  <2>3. F \in [1 .. N -> [T -> T]]
    BY <1>3
  <2> HIDE DEF F, T
  <2>4. Iterates(N, T, MaxNumber, F) # {}
    BY <2>1, <2>2, <2>3, Iteration
  <2> QED
    BY <2>4 DEF T, Iterates
<1>5. ASSUME NEW i \in 1 .. N PROVE i - 1 \in 0 .. N /\ g[i] = g[i - 1] \div 10
  <2>1. i - 1 \in 0 .. N
    BY <1>1
  <2>2. g[i - 1] \in Nat
    BY <2>1
  <2>3. g[i] = F[i][g[i - 1]]
    BY <1>4
  <2>4. F[i] = [x \in Nat |-> x \div 10]
    OBVIOUS
  <2> HIDE DEF F
  <2> QED
    BY <2>1, <2>2, <2>3, <2>4
<1>6. g = [k \in 0 .. N |-> IF k = 0 THEN MaxNumber ELSE g[k - 1] \div 10]
  BY <1>1, <1>4, <1>5
<1>7. Left = [k \in 0 .. N |-> IF k = 0 THEN MaxNumber ELSE Left[k - 1] \div 10]
  BY <1>2, <1>6
<1>8. Left[0] = MaxNumber /\ \A i \in 1 .. N : Left[i] = Left[i - 1] \div 10
  BY <1>1, <1>7
<1>9. \A n \in 0 .. N : Left[n] \in Nat
  <2>1. Left[0] \in Nat
    BY <1>1, <1>8
  <2>2. \A i \in 1 .. N : Left[i - 1] \in Nat => Left[i] \in Nat
    BY <1>8
  <2>3. N \in Nat
    BY <1>1
  <2> HIDE DEF F
  <2> QED
    BY <2>1, <2>2, <2>3, Typed
<1>10. Left \in [0 .. N -> Nat]
  BY <1>7, <1>9
<1>11. \A k \in 0 .. N - 1 : Left[k + 1] = Left[k] \div 10
  <2>1. \A k \in 0 .. N - 1 : k + 1 \in 1 .. N /\ (k + 1) - 1 = k
    BY <1>1
  <2> QED
    BY <1>8, <2>1
<1> QED
  BY <1>1, <1>8, <1>10, <1>11 DEF N

----------------------------------------------------------------------------
(* Items, numerals and characters.                                         *)

\* Facts about the constants in the form the provers use.
LEMMA Constants ==
    /\ SIZE \in Nat /\ SIZE > 0
    /\ MAX_NUM_SIZE \in Nat /\ MAX_NUM_SIZE > 2
    /\ NoThread \notin Threads
    /\ Left[0] \in Nat /\ Left[0] = MaxNumber
  BY LoggingAssumption, DigitsAssumption, LeftSteps

\* What is known of an item of each kind.
LEMMA ItemValues ==
    /\ \A it \in AllItems : it.kind \in {"text", "end"} => it.value \in Nat
    /\ \A it \in AllItems : it.kind = "int" =>
         it.value \in Int /\ -Left[0] <= it.value /\ it.value <= Left[0]
    /\ \A it \in AllItems : it.kind = "double" =>
         it.value \in Nat /\ it.value < MAX_NUM_SIZE
    /\ End \in AllItems /\ End.kind = "end" /\ End.value = 1
  BY Constants DEF AllItems, Items, End

\* n equal characters.
LEMMA Repeated ==
    ASSUME NEW n \in Nat, NEW c \in Chars
    PROVE  /\ [i \in 1 .. n |-> c] \in Seq(Chars)
           /\ Len([i \in 1 .. n |-> c]) = n
  OBVIOUS

\* Concatenation of characters.
LEMMA Concat ==
    ASSUME NEW S, NEW x \in Seq(S), NEW y \in Seq(S)
    PROVE  /\ x \o y \in Seq(S)
           /\ Len(x \o y) = Len(x) + Len(y)
           /\ Len(y) > 0 => (x \o y)[Len(x \o y)] = y[Len(y)]
           /\ Len(x) \in Nat /\ Len(y) \in Nat
  OBVIOUS

\* Appending one element.
LEMMA AppendSeq ==
    ASSUME NEW S, NEW s \in Seq(S), NEW e \in S
    PROVE  /\ Append(s, e) \in Seq(S)
           /\ Len(Append(s, e)) = Len(s) + 1
           /\ \A i \in 1 .. Len(s) : Append(s, e)[i] = s[i]
           /\ Append(s, e)[Len(s) + 1] = e
           /\ Len(s) \in Nat
  OBVIOUS

\* Reversal keeps the characters and their number.
LEMMA Reversed ==
    ASSUME NEW cs \in Seq(Chars)
    PROVE  Reverse(cs) \in Seq(Chars) /\ Len(Reverse(cs)) = Len(cs)
<1>1. \A i \in 1 .. Len(cs) : (Len(cs) - i) + 1 \in 1 .. Len(cs)
  BY LenProperties
<1>2. \A i \in 1 .. Len(cs) : cs[(Len(cs) - i) + 1] \in Chars
  BY <1>1, ElementOfSeq
<1> QED
  BY <1>2, LenProperties DEF Reverse

\* A number and what one division by 10 makes of it.
LEMMA Division ==
    ASSUME NEW n \in Int, NEW most \in Nat, -most <= n, n <= most
    PROVE  /\ quotient(n) \in Int
           /\ -(most \div 10) <= quotient(n) /\ quotient(n) <= most \div 10
           /\ remainder(n) \in -9 .. 9
  BY DEF quotient, remainder

\* The table has a digit for every remainder.
LEMMA Digit ==
    ASSUME NEW r \in -9 .. 9
    PROVE  zero(r) \in Chars
<1> DEFINE table == <<9, 8, 7, 6, 5, 4, 3, 2, 1, 0, 1, 2, 3, 4, 5, 6, 7, 8, 9>>
<1>1. table \in Seq(Chars) /\ Len(table) = 19
  BY DEF Chars
<1>2. 10 + r \in 1 .. 19
  OBVIOUS
<1> HIDE DEF table
<1>3. table[10 + r] \in Chars
  BY <1>1, <1>2, ElementOfSeq
<1> QED
  BY <1>3 DEF zero, table

----------------------------------------------------------------------------
(* The steps.                                                              *)

\* Initially.
LEMMA InitIInv == Init => IInv
<1> SUFFICES ASSUME Init PROVE IInv
  OBVIOUS
<1>1. FieldsOK
  BY DEF Init, FieldsOK
<1>2. RecordInv /\ DigitsInv
  BY Constants DEF Init, RecordInv, DigitsInv, Busy
<1>3. NewlineInv /\ FlushInv
  BY Constants DEF Init, NewlineInv, FlushInv
<1> QED
  BY <1>1, <1>2, <1>3 DEF IInv

\* The current item is done with: p was placed, or nothing, and the buffer holds b.
LEMMA ItemDone ==
    ASSUME IInv, NEW t \in Threads, Advance(t), next[t] <= Len(items[t]), pc[t] \in Busy,
           aborted = NoThread,
           NEW b \in Seq(Chars), buffer_' = [buffer_ EXCEPT ![t] = b], Len(b) < SIZE,
           NEW p \in Seq(Placed), placed' = [placed EXCEPT ![t] = p], Len(p) <= Len(placed[t]) + 1,
           digits' = [digits EXCEPT ![t] = <<>>],
           NEW n \in Int, num' = [num EXCEPT ![t] = n],
           next[t] = Len(items[t]) => Terminated(b)
    PROVE  IInv'
<1> USE DEF IInv, Advance
<1>1. /\ pc'[t] = "stream" /\ next'[t] = next[t] + 1
      /\ items'[t] = items[t] /\ buffer_'[t] = b /\ placed'[t] = p /\ digits'[t] = <<>>
  BY DEF FieldsOK
<1>2. \A u \in Threads : u # t =>
        /\ pc'[u] = pc[u] /\ next'[u] = next[u] /\ items'[u] = items[u]
        /\ buffer_'[u] = buffer_[u] /\ placed'[u] = placed[u] /\ digits'[u] = digits[u]
        /\ num'[u] = num[u]
  BY DEF FieldsOK
<1>3. next[t] \in Nat /\ Len(items[t]) \in Nat /\ Len(placed[t]) \in Nat /\ Len(p) \in Nat
  BY LenProperties DEF FieldsOK
<1>4. FieldsOK'
  BY DEF FieldsOK
<1>5. RecordInv'
  <2>1. ASSUME NEW u \in Threads, u # t
        PROVE  /\ next'[u] <= Len(items'[u]) + 1
               /\ Len(placed'[u]) < next'[u]
               /\ Len(buffer_'[u]) < SIZE
               /\ pc'[u] \in Busy => Len(items'[u]) > 0 /\ items'[u][Len(items'[u])] = End
               /\ pc'[u] \notin Busy => items'[u] = <<>>
    BY <1>2, <2>1 DEF RecordInv
  <2>2. /\ next'[t] <= Len(items'[t]) + 1
        /\ Len(placed'[t]) < next'[t]
        /\ Len(buffer_'[t]) < SIZE
        /\ pc'[t] \in Busy => Len(items'[t]) > 0 /\ items'[t][Len(items'[t])] = End
        /\ pc'[t] \notin Busy => items'[t] = <<>>
    <3>1. Len(placed[t]) < next[t] /\ Len(items[t]) > 0 /\ items[t][Len(items[t])] = End
      BY DEF RecordInv
    <3> QED
      BY <1>1, <1>3, <3>1 DEF Busy
  <2> QED
    BY <2>1, <2>2 DEF RecordInv
<1>6. DigitsInv'
  BY <1>1, <1>2 DEF DigitsInv
<1>7. NewlineInv'
  <2>1. ASSUME NEW u \in Threads, pc'[u] = "stream", next'[u] > Len(items'[u])
        PROVE  Terminated(buffer_'[u])
    <3>1. CASE u = t
      <4>1. next[t] = Len(items[t])
        BY <1>1, <1>3, <2>1, <3>1
      <4> QED
        BY <1>1, <3>1, <4>1
    <3>2. CASE u # t
      BY <1>2, <2>1, <3>2 DEF NewlineInv
    <3> QED
      BY <3>1, <3>2
  <2> QED
    BY <2>1 DEF NewlineInv, Terminated
<1>8. FlushInv'
  BY <1>1, <1>2, Constants DEF FlushInv
<1> QED
  BY <1>4, <1>5, <1>6, <1>7, <1>8

\* Streaming an item that is placed: cs are its characters.
LEMMA ItemPlaced ==
    ASSUME IInv, NEW t \in Threads, pc[t] \in Busy, aborted = NoThread,
           next[t] <= Len(items[t]), NEW cs \in Seq(Chars), add(t, cs), Advance(t),
           Len(buffer_[t]) + Len(cs) < SIZE,
           digits' = [digits EXCEPT ![t] = <<>>],
           NEW n \in Int, num' = [num EXCEPT ![t] = n],
           next[t] = Len(items[t]) => Len(cs) > 0 /\ cs[Len(cs)] = Newline
    PROVE  IInv'
<1> DEFINE b == buffer_[t] \o cs
           e == [item |-> items[t][next[t]], from |-> Len(buffer_[t]) + 1,
                 to |-> Len(buffer_[t]) + Len(cs)]
           p == Append(placed[t], e)
<1>1. /\ items[t] \in Seq(AllItems) /\ next[t] \in Nat \ {0}
      /\ buffer_[t] \in Seq(Chars) /\ placed[t] \in Seq(Placed)
  BY DEF IInv, FieldsOK
<1>2. items[t][next[t]] \in AllItems
  BY <1>1, LenProperties, ElementOfSeq
<1>3. /\ b \in Seq(Chars) /\ Len(b) = Len(buffer_[t]) + Len(cs)
      /\ Len(cs) > 0 => b[Len(b)] = cs[Len(cs)]
      /\ Len(buffer_[t]) \in Nat /\ Len(cs) \in Nat
  BY <1>1, Concat
<1>4. e \in Placed
  BY <1>2, <1>3 DEF Placed
<1>5. p \in Seq(Placed) /\ Len(p) <= Len(placed[t]) + 1
  BY <1>1, <1>4, AppendSeq
<1>6. buffer_' = [buffer_ EXCEPT ![t] = b] /\ placed' = [placed EXCEPT ![t] = p]
  BY DEF add
<1>7. next[t] = Len(items[t]) => Terminated(b)
  BY <1>3 DEF Terminated
<1>8. Len(b) < SIZE
  BY <1>3
<1> HIDE DEF b, p
<1> QED
  BY <1>3, <1>5, <1>6, <1>7, <1>8, ItemDone

\* Streaming an item that is dropped.
LEMMA ItemDropped ==
    ASSUME IInv, NEW t \in Threads, pc[t] = "stream", aborted = NoThread,
           next[t] <= Len(items[t]), Advance(t), UNCHANGED <<buffer_, placed, num, digits>>,
           next[t] = Len(items[t]) => Len(buffer_[t]) = SIZE - 1
    PROVE  IInv'
<1>1. /\ buffer_[t] \in Seq(Chars) /\ placed[t] \in Seq(Placed) /\ num[t] \in Int
      /\ buffer_' = [buffer_ EXCEPT ![t] = buffer_[t]]
      /\ placed' = [placed EXCEPT ![t] = placed[t]]
      /\ num' = [num EXCEPT ![t] = num[t]]
  BY DEF IInv, FieldsOK
<1>2. digits[t] = <<>> /\ digits' = [digits EXCEPT ![t] = <<>>]
  BY DEF IInv, DigitsInv, FieldsOK
<1>3. Len(buffer_[t]) < SIZE /\ Len(placed[t]) <= Len(placed[t]) + 1
  BY <1>1, LenProperties DEF IInv, RecordInv
<1>4. pc[t] \in Busy /\ (next[t] = Len(items[t]) => Terminated(buffer_[t]))
  BY DEF Busy, Terminated
<1> QED
  BY <1>1, <1>2, <1>3, <1>4, ItemDone

\* The item that is next has its type; the last one is the newline.
LEMMA NextItem ==
    ASSUME IInv, NEW t \in Threads, pc[t] \in Busy, next[t] <= Len(items[t])
    PROVE  /\ items[t][next[t]] \in AllItems
           /\ next[t] = Len(items[t]) => items[t][next[t]] = End
<1>1. items[t] \in Seq(AllItems) /\ next[t] \in Nat \ {0}
  BY DEF IInv, FieldsOK
<1>2. items[t][next[t]] \in AllItems
  BY <1>1, LenProperties, ElementOfSeq
<1> QED
  BY <1>2 DEF IInv, RecordInv

\* append, of a text or of the newline.
LEMMA AppendStep ==
    ASSUME IInv, NEW t \in Threads, append(t)
    PROVE  IInv'
<1> DEFINE it == items[t][next[t]]
           c == IF it.kind = "end" THEN Newline ELSE Other
           cs == [i \in 1 .. it.value |-> c]
<1>1. /\ aborted = NoThread /\ pc[t] = "stream" /\ next[t] <= Len(items[t])
      /\ it.kind \in {"text", "end"}
      /\ IF fits(t, it.value) THEN add(t, cs) ELSE UNCHANGED <<buffer_, placed>>
      /\ Advance(t)
      /\ UNCHANGED <<num, digits>>
  BY DEF append, Streams
<1>2. it \in AllItems /\ (next[t] = Len(items[t]) => it = End) /\ pc[t] \in Busy
  BY <1>1, NextItem DEF Busy
<1>3. it.value \in Nat /\ (it = End => it.value = 1 /\ c = Newline)
  BY <1>1, <1>2, ItemValues
<1>4. c \in Chars
  BY DEF Newline, Other, Chars
<1>5. cs \in Seq(Chars) /\ Len(cs) = it.value
  BY <1>3, <1>4, Repeated
<1>6. it = End => Len(cs) > 0 /\ cs[Len(cs)] = Newline
  BY <1>3, <1>5
<1>7. Len(buffer_[t]) \in Nat /\ Len(buffer_[t]) < SIZE /\ SIZE \in Nat
  BY LenProperties, Constants DEF IInv, FieldsOK, RecordInv
<1>8. CASE fits(t, it.value)
  <2>1. Len(buffer_[t]) + Len(cs) < SIZE
    BY <1>3, <1>5, <1>7, <1>8 DEF fits, size
  <2>2. digits' = [digits EXCEPT ![t] = <<>>]
    BY <1>1 DEF IInv, FieldsOK, DigitsInv
  <2>3. num[t] \in Int /\ num' = [num EXCEPT ![t] = num[t]]
    BY <1>1 DEF IInv, FieldsOK
  <2>4. add(t, cs)
    BY <1>1, <1>8
  <2> HIDE DEF it, cs
  <2> QED
    BY <1>1, <1>2, <1>5, <1>6, <2>1, <2>2, <2>3, <2>4, ItemPlaced
<1>9. CASE ~fits(t, it.value)
  <2>1. next[t] = Len(items[t]) => Len(buffer_[t]) = SIZE - 1
    BY <1>2, <1>3, <1>7, <1>9 DEF fits, size
  <2>2. UNCHANGED <<buffer_, placed, num, digits>>
    BY <1>1, <1>9
  <2> QED
    BY <1>1, <2>1, <2>2, ItemDropped
<1> QED
  BY <1>8, <1>9

\* A number without room for the longest one, and a double.
LEMMA NumberStep ==
    ASSUME IInv, NEW t \in Threads, drop_number(t) \/ format_double(t)
    PROVE  IInv'
<1> DEFINE it == items[t][next[t]]
           cs == [i \in 1 .. it.value |-> Other]
<1>1. /\ aborted = NoThread /\ pc[t] = "stream" /\ next[t] <= Len(items[t])
      /\ it.kind \in {"int", "double"}
      /\ Advance(t)
  BY DEF drop_number, format_double, Streams
<1>2. it \in AllItems /\ next[t] # Len(items[t]) /\ pc[t] \in Busy
  BY <1>1, NextItem, ItemValues DEF Busy
<1>3. CASE drop_number(t)
  BY <1>1, <1>2, <1>3, ItemDropped DEF drop_number
<1>4. CASE format_double(t)
  <2>1. it.kind = "double" /\ size(t) >= MAX_NUM_SIZE /\ add(t, cs) /\ UNCHANGED <<num, digits>>
    BY <1>4 DEF format_double, Streams
  <2>2. it.value \in Nat /\ it.value < MAX_NUM_SIZE
    BY <1>2, <2>1, ItemValues
  <2>3. cs \in Seq(Chars) /\ Len(cs) = it.value
    BY <2>2, Repeated DEF Other, Chars
  <2>4. Len(buffer_[t]) + Len(cs) < SIZE
    BY <2>1, <2>2, <2>3, LenProperties, Constants DEF size, IInv, FieldsOK
  <2>5. digits' = [digits EXCEPT ![t] = <<>>]
    BY <1>1, <2>1 DEF IInv, FieldsOK, DigitsInv
  <2>6. num[t] \in Int /\ num' = [num EXCEPT ![t] = num[t]]
    BY <2>1 DEF IInv, FieldsOK
  <2> HIDE DEF it, cs
  <2> QED
    BY <1>1, <1>2, <2>1, <2>3, <2>4, <2>5, <2>6, ItemPlaced
<1> QED
  BY <1>3, <1>4

\* format_integer's test and the entry of its loop.
LEMMA FormatStep ==
    ASSUME IInv, NEW t \in Threads, format_integer(t)
    PROVE  IInv'
<1> DEFINE it == items[t][next[t]]
<1>1. /\ aborted = NoThread /\ pc[t] = "stream" /\ next[t] <= Len(items[t]) /\ it.kind = "int"
      /\ size(t) >= MAX_NUM_SIZE
      /\ pc' = [pc EXCEPT ![t] = "digits"]
      /\ num' = [num EXCEPT ![t] = it.value]
      /\ UNCHANGED <<level_, items, next, buffer_, digits, placed, output, flushed, aborted>>
  BY DEF format_integer, Streams
<1>2. it \in AllItems /\ pc[t] \in Busy
  BY <1>1, NextItem DEF Busy
<1>3. it.value \in Int /\ -Left[0] <= it.value /\ it.value <= Left[0]
  BY <1>1, <1>2, ItemValues
<1> HIDE DEF it
<1>4. pc'[t] = "digits" /\ num'[t] = it.value
  BY <1>1 DEF IInv, FieldsOK
<1>5. \A u \in Threads : u # t => pc'[u] = pc[u] /\ num'[u] = num[u]
  BY <1>1 DEF IInv, FieldsOK
<1>6. FieldsOK'
  BY <1>1, <1>3 DEF IInv, FieldsOK
<1>7. RecordInv'
  BY <1>1, <1>2, <1>4, <1>5 DEF IInv, RecordInv, Busy
<1>8. DigitsInv'
  <2>1. digits[t] = <<>> /\ Len(digits[t]) = 0 /\ 0 <= MAX_NUM_SIZE - 3
    BY <1>1, Constants DEF IInv, DigitsInv
  <2>2. /\ next'[t] <= Len(items'[t]) /\ items'[t][next'[t]].kind = "int"
        /\ SIZE - Len(buffer_'[t]) >= MAX_NUM_SIZE
        /\ Len(digits'[t]) <= MAX_NUM_SIZE - 3
        /\ -Left[Len(digits'[t])] <= num'[t] /\ num'[t] <= Left[Len(digits'[t])]
    BY <1>1, <1>3, <1>4, <2>1 DEF size, it
  <2>3. ASSUME NEW u \in Threads, u # t
        PROVE  /\ pc'[u] # "digits" => digits'[u] = <<>>
               /\ pc'[u] = "digits" =>
                    /\ next'[u] <= Len(items'[u]) /\ items'[u][next'[u]].kind = "int"
                    /\ SIZE - Len(buffer_'[u]) >= MAX_NUM_SIZE
                    /\ Len(digits'[u]) <= MAX_NUM_SIZE - 3
                    /\ -Left[Len(digits'[u])] <= num'[u] /\ num'[u] <= Left[Len(digits'[u])]
    BY <1>1, <1>5, <2>3 DEF IInv, DigitsInv
  <2> QED
    BY <1>4, <2>2, <2>3 DEF DigitsInv
<1>9. NewlineInv'
  BY <1>1, <1>4, <1>5 DEF IInv, NewlineInv, Terminated
<1>10. FlushInv'
  BY <1>1, <1>4, <1>5, Constants DEF IInv, FlushInv
<1> QED
  BY <1>6, <1>7, <1>8, <1>9, <1>10 DEF IInv

\* One digit: the loop goes on with room to spare, or ends within the room.
LEMMA DigitStep ==
    ASSUME IInv, NEW t \in Threads, digit(t)
    PROVE  IInv'
<1> DEFINE d == zero(remainder(num[t]))
           ds == Append(digits[t], d)
           q == quotient(num[t])
           k == Len(digits[t])
           it == items[t][next[t]]
<1>1. /\ pc[t] = "digits" /\ aborted = NoThread
      /\ num' = [num EXCEPT ![t] = q]
      /\ IF q # 0
           THEN /\ digits' = [digits EXCEPT ![t] = ds]
                /\ UNCHANGED <<pc, level_, items, next, buffer_, placed, output, flushed, aborted>>
           ELSE /\ add(t, Reverse(ds \o sign(it.value)))
                /\ digits' = [digits EXCEPT ![t] = <<>>]
                /\ Advance(t)
  BY DEF digit
<1>2. /\ next[t] <= Len(items[t]) /\ it.kind = "int"
      /\ SIZE - Len(buffer_[t]) >= MAX_NUM_SIZE
      /\ k <= MAX_NUM_SIZE - 3
      /\ -Left[k] <= num[t] /\ num[t] <= Left[k]
  BY <1>1 DEF IInv, DigitsInv
<1>3. /\ num[t] \in Int /\ digits[t] \in Seq(Chars) /\ k \in Nat
      /\ Len(buffer_[t]) \in Nat
  BY LenProperties DEF IInv, FieldsOK
<1>4. k \in 0 .. MAX_NUM_SIZE - 3 /\ k \in 0 .. MAX_NUM_SIZE - 2
  BY <1>2, <1>3, Constants
<1>5. Left[k] \in Nat /\ Left[k + 1] = Left[k] \div 10
  BY <1>4, LeftSteps
<1>6. /\ q \in Int
      /\ -Left[k + 1] <= q /\ q <= Left[k + 1]
      /\ remainder(num[t]) \in -9 .. 9
  BY <1>2, <1>3, <1>5, Division
<1>7. d \in Chars
  BY <1>6, Digit
<1>8. ds \in Seq(Chars) /\ Len(ds) = k + 1
  BY <1>3, <1>7, AppendSeq
<1> HIDE DEF d, ds, q, it
<1>9. CASE q # 0
  <2>1. /\ UNCHANGED <<pc, level_, items, next, buffer_, placed, output, flushed, aborted>>
        /\ digits' = [digits EXCEPT ![t] = ds]
    BY <1>1, <1>9
  <2>2. Len(ds) <= MAX_NUM_SIZE - 3
    <3>1. Left[MAX_NUM_SIZE - 2] = 0 /\ MAX_NUM_SIZE \in Nat
      BY LeftSteps, Constants
    <3>2. k + 1 # MAX_NUM_SIZE - 2
      BY <1>6, <1>9, <3>1
    <3> QED
      BY <1>2, <1>3, <1>8, <3>1, <3>2
  <2>3. digits'[t] = ds /\ num'[t] = q
    BY <1>1, <2>1 DEF IInv, FieldsOK
  <2>4. \A u \in Threads : u # t => digits'[u] = digits[u] /\ num'[u] = num[u]
    BY <1>1, <2>1 DEF IInv, FieldsOK
  <2>5. FieldsOK'
    BY <1>1, <1>6, <1>8, <2>1 DEF IInv, FieldsOK
  <2>6. RecordInv' /\ NewlineInv' /\ FlushInv'
    BY <2>1 DEF IInv, RecordInv, NewlineInv, FlushInv, Terminated
  <2>7. DigitsInv'
    <3>1. /\ next'[t] <= Len(items'[t]) /\ items'[t][next'[t]].kind = "int"
          /\ SIZE - Len(buffer_'[t]) >= MAX_NUM_SIZE
          /\ Len(digits'[t]) <= MAX_NUM_SIZE - 3
          /\ -Left[Len(digits'[t])] <= num'[t] /\ num'[t] <= Left[Len(digits'[t])]
      BY <1>2, <1>6, <1>8, <2>1, <2>2, <2>3 DEF it
    <3>2. ASSUME NEW u \in Threads, u # t
          PROVE  /\ pc'[u] # "digits" => digits'[u] = <<>>
                 /\ pc'[u] = "digits" =>
                      /\ next'[u] <= Len(items'[u]) /\ items'[u][next'[u]].kind = "int"
                      /\ SIZE - Len(buffer_'[u]) >= MAX_NUM_SIZE
                      /\ Len(digits'[u]) <= MAX_NUM_SIZE - 3
                      /\ -Left[Len(digits'[u])] <= num'[u] /\ num'[u] <= Left[Len(digits'[u])]
      BY <2>1, <2>4, <3>2 DEF IInv, DigitsInv
    <3>3. pc'[t] = "digits"
      BY <1>1, <2>1
    <3> QED
      BY <3>1, <3>2, <3>3 DEF DigitsInv
  <2> QED
    BY <2>5, <2>6, <2>7 DEF IInv
<1>10. CASE q = 0
  <2> DEFINE s == sign(it.value)
             cs == Reverse(ds \o s)
  <2>1. add(t, cs) /\ digits' = [digits EXCEPT ![t] = <<>>] /\ Advance(t)
    BY <1>1, <1>10
  <2>2. s \in Seq(Chars) /\ Len(s) <= 1 /\ Len(s) \in Nat
    <3>1. CASE it.value < 0
      <4>1. s = <<Minus>>
        BY <3>1 DEF sign
      <4> QED
        BY <4>1 DEF Minus, Chars
    <3>2. CASE ~(it.value < 0)
      <4>1. s = <<>>
        BY <3>2 DEF sign
      <4> QED
        BY <4>1
    <3> QED
      BY <3>1, <3>2
  <2> HIDE DEF s
  <2>3. ds \o s \in Seq(Chars) /\ Len(ds \o s) = Len(ds) + Len(s)
    BY <1>8, <2>2, Concat
  <2>4. cs \in Seq(Chars) /\ Len(cs) = k + 1 + Len(s)
    BY <1>8, <2>3, Reversed
  <2> HIDE DEF cs
  <2>5. Len(buffer_[t]) + Len(cs) < SIZE
    <3>1. Len(cs) <= MAX_NUM_SIZE - 1 /\ Len(cs) \in Nat
      BY <1>2, <1>3, <2>2, <2>4, Constants
    <3>2. SIZE - Len(buffer_[t]) >= MAX_NUM_SIZE
      BY <1>2
    <3> QED
      BY <1>3, <3>1, <3>2, Constants
  <2>6. pc[t] \in Busy
    BY <1>1 DEF Busy
  <2>7. next[t] # Len(items[t])
    BY <1>2, <2>6, NextItem, ItemValues DEF it
  <2> QED
    BY <1>1, <1>2, <1>6, <2>1, <2>4, <2>5, <2>6, <2>7, ItemPlaced
<1> QED
  BY <1>9, <1>10

\* A logger is made.
LEMMA LoggerStep ==
    ASSUME IInv, NEW t \in Threads, NEW msg \in Messages[t], NEW level \in {"FATAL", "other"},
           logger(t, msg, level)
    PROVE  IInv'
<1> DEFINE its == prefix \o msg \o finish
<1>1. /\ aborted = NoThread /\ pc[t] = "idle"
      /\ pc' = [pc EXCEPT ![t] = "stream"]
      /\ level_' = [level_ EXCEPT ![t] = level]
      /\ items' = [items EXCEPT ![t] = its]
      /\ UNCHANGED <<next, buffer_, num, digits, placed, output, flushed, aborted>>
  BY DEF logger
<1>2. prefix \in Seq(AllItems)
  <2>1. Text(Head1) \in Items /\ Number(Line) \in Items /\ Text(Head2) \in Items
    BY LoggingAssumption, MessagesAssumption, Constants DEF Text, Number, Items
  <2> QED
    BY <2>1 DEF prefix, AllItems
<1>3. msg \in Seq(AllItems)
  <2>1. msg \in Seq(Items)
    BY MessagesAssumption
  <2> QED
    BY <2>1, SeqMonotonic DEF AllItems
<1>4. finish \in Seq(AllItems) /\ Len(finish) = 1 /\ finish[1] = End
  BY DEF finish, AllItems
<1>5. prefix \o msg \in Seq(AllItems) /\ Len(prefix \o msg) \in Nat
  BY <1>2, <1>3, Concat
<1>6. its \in Seq(AllItems) /\ Len(its) > 0 /\ its[Len(its)] = End
  <2> DEFINE head == prefix \o msg
  <2> HIDE DEF head
  <2>1. head \in Seq(AllItems)
    BY <1>5 DEF head
  <2>2. /\ head \o finish \in Seq(AllItems) /\ Len(head \o finish) = Len(head) + Len(finish)
        /\ Len(finish) > 0 => (head \o finish)[Len(head \o finish)] = finish[Len(finish)]
        /\ Len(head) \in Nat
    BY <1>4, <2>1, Concat
  <2>3. its = head \o finish
    BY DEF head
  <2> QED
    BY <1>4, <2>2, <2>3
<1> HIDE DEF its
<1>7. pc'[t] = "stream" /\ items'[t] = its
  BY <1>1 DEF IInv, FieldsOK
<1>8. \A u \in Threads : u # t => pc'[u] = pc[u] /\ items'[u] = items[u]
  BY <1>1 DEF IInv, FieldsOK
<1>9. next[t] <= 1 /\ Len(its) \in Nat /\ next[t] \in Nat
  <2>1. items[t] = <<>> /\ next[t] <= Len(items[t]) + 1
    BY <1>1 DEF IInv, RecordInv, Busy
  <2>2. next[t] \in Nat /\ Len(its) \in Nat
    BY <1>6, LenProperties DEF IInv, FieldsOK
  <2> QED
    BY <2>1, <2>2
<1>10. FieldsOK'
  BY <1>1, <1>6 DEF IInv, FieldsOK
<1>11. RecordInv'
  <2>1. next'[t] <= Len(items'[t]) + 1
    BY <1>1, <1>6, <1>7, <1>9
  <2> QED
    BY <1>1, <1>6, <1>7, <1>8, <2>1 DEF IInv, RecordInv, Busy
<1>12. DigitsInv'
  BY <1>1, <1>7, <1>8 DEF IInv, DigitsInv
<1>13. NewlineInv'
  <2>1. ~(next'[t] > Len(items'[t]))
    BY <1>1, <1>6, <1>7, <1>9
  <2> QED
    BY <1>1, <1>8, <2>1 DEF IInv, NewlineInv, Terminated
<1>14. FlushInv'
  BY <1>1, <1>7, <1>8, Constants DEF IInv, FlushInv
<1> QED
  BY <1>10, <1>11, <1>12, <1>13, <1>14 DEF IInv

\* The destructor of the logger.
LEMMA DtorStep ==
    ASSUME IInv, NEW t \in Threads, logger_dtor(t)
    PROVE  IInv'
<1> DEFINE r == [by |-> t, items |-> items[t], chars |-> buffer_[t], placed |-> placed[t]]
<1>1. /\ aborted = NoThread /\ pc[t] = "stream" /\ next[t] > Len(items[t])
      /\ output' = Append(output, r)
      /\ pc' = [pc EXCEPT ![t] = after_output(level_[t])]
      /\ level_' = [level_ EXCEPT ![t] = "other"]
      /\ items' = [items EXCEPT ![t] = <<>>]
      /\ next' = [next EXCEPT ![t] = 1]
      /\ buffer_' = [buffer_ EXCEPT ![t] = <<>>]
      /\ placed' = [placed EXCEPT ![t] = <<>>]
      /\ UNCHANGED <<num, digits, flushed, aborted>>
  BY DEF logger_dtor
<1>2. after_output(level_[t]) \in {"idle", "flush"}
  BY DEF after_output
<1>3. r \in Entries /\ r.by = t /\ r.chars = buffer_[t]
  BY DEF IInv, FieldsOK, Entries
<1> HIDE DEF r
<1>4. /\ output' \in Seq(Entries) /\ Len(output') = Len(output) + 1 /\ Len(output) \in Nat
      /\ \A i \in 1 .. Len(output) : output'[i] = output[i]
      /\ output'[Len(output) + 1] = r
  <2>1. output \in Seq(Entries)
    BY DEF IInv, FieldsOK
  <2> QED
    BY <1>1, <1>3, <2>1, AppendSeq
<1>5. /\ pc'[t] \in {"idle", "flush"} /\ items'[t] = <<>> /\ next'[t] = 1
      /\ buffer_'[t] = <<>> /\ placed'[t] = <<>>
  BY <1>1, <1>2 DEF IInv, FieldsOK
<1>6. \A u \in Threads : u # t =>
        /\ pc'[u] = pc[u] /\ items'[u] = items[u] /\ next'[u] = next[u]
        /\ buffer_'[u] = buffer_[u] /\ placed'[u] = placed[u]
  BY <1>1 DEF IInv, FieldsOK
<1>7. FieldsOK'
  <2>1. flushed' \in 0 .. Len(output')
    BY <1>1, <1>4 DEF IInv, FieldsOK
  <2> QED
    BY <1>1, <1>2, <1>4, <2>1 DEF IInv, FieldsOK
<1>8. RecordInv'
  BY <1>5, <1>6, Constants DEF IInv, RecordInv, Busy
<1>9. DigitsInv'
  BY <1>1, <1>5, <1>6 DEF IInv, DigitsInv
<1>10. NewlineInv'
  <2>1. Terminated(r.chars)
    BY <1>1, <1>3 DEF IInv, NewlineInv
  <2>2. ASSUME NEW i \in 1 .. Len(output') PROVE Terminated(output'[i].chars)
    BY <1>4, <2>1 DEF IInv, NewlineInv
  <2>3. ASSUME NEW u \in Threads, pc'[u] = "stream", next'[u] > Len(items'[u])
        PROVE  Terminated(buffer_'[u])
    BY <1>5, <1>6, <2>3 DEF IInv, NewlineInv
  <2> QED
    BY <2>2, <2>3 DEF NewlineInv, Terminated
<1>11. FlushInv'
  <2>1. ASSUME NEW u \in Threads, pc'[u] = "abort", NEW i \in 1 .. Len(output'), output'[i].by = u
        PROVE  i <= flushed'
    <3>1. u # t /\ pc[u] = "abort"
      BY <1>5, <1>6, <2>1
    <3>2. i \in 1 .. Len(output) /\ output[i].by = u
      BY <1>3, <1>4, <2>1, <3>1
    <3> QED
      BY <1>1, <3>1, <3>2 DEF IInv, FlushInv
  <2> QED
    BY <1>1, <2>1, Constants DEF FlushInv
<1> QED
  BY <1>7, <1>8, <1>9, <1>10, <1>11 DEF IInv

\* Flushing, by the FATAL record or by stdio, and the abort.
LEMMA FlushStep ==
    ASSUME IInv, (\E t \in Threads : flush(t) \/ abort(t)) \/ stdio_writes
    PROVE  IInv'
<1>1. output \in Seq(Entries) /\ Len(output) \in Nat /\ flushed \in 0 .. Len(output)
  BY LenProperties DEF IInv, FieldsOK
<1>2. ASSUME NEW t \in Threads, flush(t) PROVE IInv'
  <2>1. /\ pc[t] = "flush" /\ pc'[t] = "abort" /\ aborted = NoThread
        /\ \A u \in Threads : u # t => pc'[u] = pc[u]
        /\ flushed' = Len(output)
        /\ UNCHANGED <<level_, items, next, buffer_, num, digits, placed, output, aborted>>
    BY <1>2 DEF flush, IInv, FieldsOK
  <2>2. FieldsOK'
    BY <1>1, <1>2 DEF flush, IInv, FieldsOK
  <2>3. RecordInv' /\ DigitsInv' /\ NewlineInv'
    BY <2>1 DEF IInv, RecordInv, DigitsInv, NewlineInv, Terminated, Busy
  <2>4. FlushInv'
    BY <1>1, <2>1, Constants DEF IInv, FlushInv
  <2> QED
    BY <2>2, <2>3, <2>4 DEF IInv
<1>3. ASSUME NEW t \in Threads, abort(t) PROVE IInv'
  <2>1. FieldsOK'
    BY <1>3 DEF abort, threadVars, IInv, FieldsOK
  <2>2. RecordInv' /\ DigitsInv' /\ NewlineInv' /\ FlushInv'
    BY <1>3 DEF abort, threadVars, IInv, RecordInv, DigitsInv, NewlineInv, FlushInv, Terminated
  <2> QED
    BY <2>1, <2>2 DEF IInv
<1>4. CASE stdio_writes
  <2>1. FieldsOK'
    BY <1>1, <1>4 DEF stdio_writes, threadVars, IInv, FieldsOK
  <2>2. RecordInv' /\ DigitsInv' /\ NewlineInv'
    BY <1>4 DEF stdio_writes, threadVars, IInv, RecordInv, DigitsInv, NewlineInv, Terminated
  <2>3. FlushInv'
    BY <1>1, <1>4 DEF stdio_writes, threadVars, IInv, FlushInv
  <2> QED
    BY <2>1, <2>2, <2>3 DEF IInv
<1> QED
  BY <1>2, <1>3, <1>4

----------------------------------------------------------------------------
(* The theorems.                                                           *)

\* The inductive invariant holds in every reachable state.
THEOREM InductiveInvariant == Spec => []IInv
<1>1. IInv /\ [Next]_vars => IInv'
  <2> SUFFICES ASSUME IInv, [Next]_vars PROVE IInv'
    OBVIOUS
  <2>1. ASSUME NEW t \in Threads, LOG(t) PROVE IInv'
    BY <2>1, LoggerStep DEF LOG
  <2>2. ASSUME UNCHANGED vars PROVE IInv'
    BY <2>2 DEF vars, threadVars, IInv, FieldsOK, RecordInv, DigitsInv, NewlineInv, FlushInv,
                Terminated
  <2> QED
    BY <2>1, <2>2, AppendStep, NumberStep, FormatStep, DigitStep, DtorStep, FlushStep DEF Next
<1> QED
  BY InitIInv, <1>1, PTL DEF Spec

\* The pointers of every buffer stay inside of its array, whatever is streamed
\* into it: append's test, made with > and once per item, and the test for
\* MAX_NUM_SIZE, made once per number, leave a byte free at every moment of
\* format_integer's loop.
THEOREM TypeCorrect == Spec => []TypeOK
<1>1. IInv => TypeOK
  <2> SUFFICES ASSUME IInv PROVE TypeOK
    OBVIOUS
  <2>1. ASSUME NEW t \in Threads
        PROVE  /\ next[t] \in 1 .. Len(items[t]) + 1
               /\ buffer_[t] \in Seq(0 .. 12)
               /\ num[t] \in Int /\ digits[t] \in Seq(0 .. 12) /\ size(t) > Len(digits[t])
               /\ Len(placed[t]) < next[t]
    <3>1. /\ next[t] \in Nat \ {0} /\ items[t] \in Seq(AllItems) /\ Len(items[t]) \in Nat
          /\ buffer_[t] \in Seq(Chars) /\ Len(buffer_[t]) \in Nat
          /\ digits[t] \in Seq(Chars) /\ Len(digits[t]) \in Nat /\ num[t] \in Int
      BY LenProperties DEF IInv, FieldsOK
    <3>2. /\ next[t] <= Len(items[t]) + 1 /\ Len(placed[t]) < next[t] /\ Len(buffer_[t]) < SIZE
      BY DEF IInv, RecordInv
    <3>3. CASE pc[t] = "digits"
      <4>1. SIZE - Len(buffer_[t]) >= MAX_NUM_SIZE /\ Len(digits[t]) <= MAX_NUM_SIZE - 3
        BY <3>3 DEF IInv, DigitsInv
      <4> QED
        BY <3>1, <3>2, <4>1, Constants DEF size, Chars
    <3>4. CASE pc[t] # "digits"
      <4>1. Len(digits[t]) = 0
        BY <3>4 DEF IInv, DigitsInv
      <4> QED
        BY <3>1, <3>2, <4>1, Constants DEF size, Chars
    <3> QED
      BY <3>3, <3>4
  <2> QED
    BY <2>1 DEF TypeOK, IInv, FieldsOK
<1> QED
  BY InductiveInvariant, <1>1, PTL

\* A record that was given to the output without its newline had one byte left.
THEOREM NewlineUnlessFull == Spec => []UnterminatedOnlyWhenFull
<1>1. IInv => UnterminatedOnlyWhenFull
  <2> SUFFICES ASSUME IInv, NEW r \in Records
               PROVE  r.chars[Len(r.chars)] = Newline \/ Len(r.chars) = SIZE - 1
    BY DEF UnterminatedOnlyWhenFull
  <2>1. output \in Seq(Entries)
    BY DEF IInv, FieldsOK
  <2>2. PICK i \in 1 .. Len(output) : r = output[i]
    BY <2>1 DEF Records, ToSet
  <2> QED
    BY <2>2 DEF IInv, NewlineInv, Terminated
<1> QED
  BY InductiveInvariant, <1>1, PTL

\* When a FATAL record aborts the process, it and the records before it are out
\* of stdio's buffer, whatever the other threads log in the meantime.
THEOREM FatalRecordWritten == Spec => []FatalFlushed
<1>1. IInv => FatalFlushed
  <2> SUFFICES ASSUME IInv, NEW i \in DOMAIN output, output[i].by = aborted PROVE i <= flushed
    BY DEF FatalFlushed
  <2>1. output \in Seq(Entries) /\ i \in 1 .. Len(output) /\ output[i] \in Entries
    BY DEF IInv, FieldsOK
  <2>2. output[i].by \in Threads
    BY <2>1 DEF Entries
  <2> QED
    BY <2>1, <2>2 DEF IInv, FlushInv
<1> QED
  BY InductiveInvariant, <1>1, PTL

----------------------------------------------------------------------------
(* Numerals: the digits of a number, reversed and with its sign, stand for *)
(* it.                                                                     *)

\* Divided(v)[n]: what n turns of format_integer's loop leave of v.
Divided(v) ==
    LET d[n \in 0 .. MAX_NUM_SIZE] == IF n = 0 THEN v ELSE quotient(d[n - 1])
    IN  d

\* The length of an item is a number of characters.
LEMMA ItemLengths ==
    ASSUME NEW it \in AllItems
    PROVE  ItemLength(it) \in Nat
  BY ItemValues, Constants DEF ItemLength, AllItems, Items, End

\* The number the first characters stand for.
LEMMA WeightSteps ==
    ASSUME NEW cs \in Seq(Chars)
    PROVE  /\ Weight(cs) \in [0 .. Len(cs) -> Nat]
           /\ Weight(cs)[0] = 0
           /\ \A i \in 1 .. Len(cs) : Weight(cs)[i] = ReadOn(Weight(cs)[i - 1], cs[i])
<1> DEFINE N == Len(cs)
           f == Weight(cs)
           F == [i \in 1 .. N |-> [x \in Nat |-> ReadOn(x, cs[i])]]
<1>1. N \in Nat /\ 0 \in Nat
  BY LenProperties
<1>2. f = CHOOSE g : g = [n \in 0 .. N |-> IF n = 0 THEN 0 ELSE ReadOn(g[n - 1], cs[n])]
  BY DEF Weight
<1> HIDE DEF N, f
<1>3. \A i \in 1 .. N : cs[i] \in Nat
  BY ElementOfSeq DEF N, Chars
<1>4. F \in [1 .. N -> [Nat -> Nat]]
  BY <1>3 DEF ReadOn
<1>5. PICK g \in [0 .. N -> Nat] : g[0] = 0 /\ \A i \in 1 .. N : g[i] = F[i][g[i - 1]]
  <2> DEFINE T == Nat
  <2>1. N \in Nat
    BY <1>1
  <2>2. 0 \in T
    BY <1>1
  <2>3. F \in [1 .. N -> [T -> T]]
    BY <1>4
  <2> HIDE DEF F, T
  <2>4. Iterates(N, T, 0, F) # {}
    BY <2>1, <2>2, <2>3, Iteration
  <2> QED
    BY <2>4 DEF T, Iterates
<1>6. ASSUME NEW i \in 1 .. N PROVE i - 1 \in 0 .. N /\ g[i] = ReadOn(g[i - 1], cs[i])
  <2>1. i - 1 \in 0 .. N
    BY <1>1
  <2>2. g[i - 1] \in Nat
    BY <2>1
  <2>3. g[i] = F[i][g[i - 1]]
    BY <1>5
  <2>4. F[i] = [x \in Nat |-> ReadOn(x, cs[i])]
    OBVIOUS
  <2> HIDE DEF F
  <2> QED
    BY <2>1, <2>2, <2>3, <2>4
<1>7. g = [n \in 0 .. N |-> IF n = 0 THEN 0 ELSE ReadOn(g[n - 1], cs[n])]
  BY <1>1, <1>5, <1>6
<1>8. f = [n \in 0 .. N |-> IF n = 0 THEN 0 ELSE ReadOn(f[n - 1], cs[n])]
  BY <1>2, <1>7
<1>9. f[0] = 0 /\ \A i \in 1 .. N : f[i] = ReadOn(f[i - 1], cs[i])
  BY <1>1, <1>8
<1>10. \A n \in 0 .. N : f[n] \in Nat
  <2> DEFINE T == Nat
  <2>1. N \in Nat
    BY <1>1
  <2>2. f[0] \in T
    BY <1>1, <1>9
  <2>3. \A i \in 1 .. N : f[i - 1] \in T => f[i] \in T
    BY <1>3, <1>9 DEF ReadOn
  <2> HIDE DEF F, T
  <2>4. \A n \in 0 .. N : f[n] \in T
    BY <2>1, <2>2, <2>3, Typed
  <2> QED
    BY <2>4 DEF T
<1>11. f \in [0 .. N -> Nat]
  BY <1>8, <1>10
<1> QED
  BY <1>9, <1>11 DEF N, f

\* The length of the first items, a number at its longest.
LEMMA SumsSteps ==
    ASSUME NEW its \in Seq(AllItems)
    PROVE  /\ Sums(its) \in [0 .. Len(its) -> Nat]
           /\ Sums(its)[0] = 0
           /\ \A i \in 1 .. Len(its) : Sums(its)[i] = Sums(its)[i - 1] + ItemLength(its[i])
<1> DEFINE N == Len(its)
           f == Sums(its)
           F == [i \in 1 .. N |-> [x \in Nat |-> x + ItemLength(its[i])]]
<1>1. N \in Nat /\ 0 \in Nat
  BY LenProperties
<1>2. f = CHOOSE g : g = [n \in 0 .. N |-> IF n = 0 THEN 0 ELSE g[n - 1] + ItemLength(its[n])]
  BY DEF Sums
<1> HIDE DEF N, f
<1>3. \A i \in 1 .. N : ItemLength(its[i]) \in Nat
  BY ElementOfSeq, ItemLengths DEF N
<1>4. F \in [1 .. N -> [Nat -> Nat]]
  BY <1>3
<1>5. PICK g \in [0 .. N -> Nat] : g[0] = 0 /\ \A i \in 1 .. N : g[i] = F[i][g[i - 1]]
  <2> DEFINE T == Nat
  <2>1. N \in Nat
    BY <1>1
  <2>2. 0 \in T
    BY <1>1
  <2>3. F \in [1 .. N -> [T -> T]]
    BY <1>4
  <2> HIDE DEF F, T
  <2>4. Iterates(N, T, 0, F) # {}
    BY <2>1, <2>2, <2>3, Iteration
  <2> QED
    BY <2>4 DEF T, Iterates
<1>6. ASSUME NEW i \in 1 .. N PROVE i - 1 \in 0 .. N /\ g[i] = g[i - 1] + ItemLength(its[i])
  <2>1. i - 1 \in 0 .. N
    BY <1>1
  <2>2. g[i - 1] \in Nat
    BY <2>1
  <2>3. g[i] = F[i][g[i - 1]]
    BY <1>5
  <2>4. F[i] = [x \in Nat |-> x + ItemLength(its[i])]
    OBVIOUS
  <2> HIDE DEF F
  <2> QED
    BY <2>1, <2>2, <2>3, <2>4
<1>7. g = [n \in 0 .. N |-> IF n = 0 THEN 0 ELSE g[n - 1] + ItemLength(its[n])]
  BY <1>1, <1>5, <1>6
<1>8. f = [n \in 0 .. N |-> IF n = 0 THEN 0 ELSE f[n - 1] + ItemLength(its[n])]
  BY <1>2, <1>7
<1>9. f[0] = 0 /\ \A i \in 1 .. N : f[i] = f[i - 1] + ItemLength(its[i])
  BY <1>1, <1>8
<1>10. \A n \in 0 .. N : f[n] \in Nat
  <2> DEFINE T == Nat
  <2>1. N \in Nat
    BY <1>1
  <2>2. f[0] \in T
    BY <1>1, <1>9
  <2>3. \A i \in 1 .. N : f[i - 1] \in T => f[i] \in T
    BY <1>3, <1>9
  <2> HIDE DEF F, T
  <2>4. \A n \in 0 .. N : f[n] \in T
    BY <2>1, <2>2, <2>3, Typed
  <2> QED
    BY <2>4 DEF T
<1>11. f \in [0 .. N -> Nat]
  BY <1>8, <1>10
<1> QED
  BY <1>9, <1>11 DEF N, f

\* What the divisions leave of v.
LEMMA DividedSteps ==
    ASSUME NEW v \in Int
    PROVE  /\ Divided(v) \in [0 .. MAX_NUM_SIZE -> Int]
           /\ Divided(v)[0] = v
           /\ \A i \in 1 .. MAX_NUM_SIZE : Divided(v)[i] = quotient(Divided(v)[i - 1])
<1> DEFINE N == MAX_NUM_SIZE
           f == Divided(v)
           F == [i \in 1 .. N |-> [x \in Int |-> quotient(x)]]
<1>1. N \in Nat /\ v \in Int
  BY Constants
<1>2. f = CHOOSE g : g = [n \in 0 .. N |-> IF n = 0 THEN v ELSE quotient(g[n - 1])]
  BY DEF Divided
<1> HIDE DEF N, f
<1>3. \A x \in Int : quotient(x) \in Int
  BY DEF quotient
<1>4. F \in [1 .. N -> [Int -> Int]]
  BY <1>3
<1>5. PICK g \in [0 .. N -> Int] : g[0] = v /\ \A i \in 1 .. N : g[i] = F[i][g[i - 1]]
  <2> DEFINE T == Int
  <2>1. N \in Nat
    BY <1>1
  <2>2. v \in T
    BY <1>1
  <2>3. F \in [1 .. N -> [T -> T]]
    BY <1>4
  <2> HIDE DEF F, T
  <2>4. Iterates(N, T, v, F) # {}
    BY <2>1, <2>2, <2>3, Iteration
  <2> QED
    BY <2>4 DEF T, Iterates
<1>6. ASSUME NEW i \in 1 .. N PROVE i - 1 \in 0 .. N /\ g[i] = quotient(g[i - 1])
  <2>1. i - 1 \in 0 .. N
    BY <1>1
  <2>2. g[i - 1] \in Int
    BY <2>1
  <2>3. g[i] = F[i][g[i - 1]]
    BY <1>5
  <2>4. F[i] = [x \in Int |-> quotient(x)]
    OBVIOUS
  <2> HIDE DEF F
  <2> QED
    BY <2>1, <2>2, <2>3, <2>4
<1>7. g = [n \in 0 .. N |-> IF n = 0 THEN v ELSE quotient(g[n - 1])]
  BY <1>1, <1>5, <1>6
<1>8. f = [n \in 0 .. N |-> IF n = 0 THEN v ELSE quotient(f[n - 1])]
  BY <1>2, <1>7
<1>9. f[0] = v /\ \A i \in 1 .. N : f[i] = quotient(f[i - 1])
  BY <1>1, <1>8
<1>10. \A n \in 0 .. N : f[n] \in Int
  <2> DEFINE T == Int
  <2>1. N \in Nat
    BY <1>1
  <2>2. f[0] \in T
    BY <1>1, <1>9
  <2>3. \A i \in 1 .. N : f[i - 1] \in T => f[i] \in T
    BY <1>3, <1>9
  <2> HIDE DEF F, T
  <2>4. \A n \in 0 .. N : f[n] \in T
    BY <2>1, <2>2, <2>3, Typed
  <2> QED
    BY <2>4 DEF T
<1>11. f \in [0 .. N -> Int]
  BY <1>8, <1>10
<1> QED
  BY <1>9, <1>11 DEF N, f

\* The absolute value.
Abs(n) == IF n < 0 THEN -n ELSE n

\* A division splits the absolute value; the quotient has the sign of the number.
LEMMA DivisionSplits ==
    ASSUME NEW n \in Int
    PROVE  /\ quotient(n) \in Int /\ remainder(n) \in -9 .. 9
           /\ Abs(n) = 10 * Abs(quotient(n)) + Abs(remainder(n))
  BY DEF quotient, remainder, Abs

\* The table gives the absolute value of the remainder.
LEMMA DigitValue ==
    ASSUME NEW r \in -9 .. 9
    PROVE  zero(r) = Abs(r) /\ zero(r) \in 0 .. 9 /\ zero(r) # Minus
<1> DEFINE table == <<9, 8, 7, 6, 5, 4, 3, 2, 1, 0, 1, 2, 3, 4, 5, 6, 7, 8, 9>>
<1>1. \A i \in 1 .. 19 : table[i] = IF i < 10 THEN 10 - i ELSE i - 10
  OBVIOUS
<1>2. 10 + r \in 1 .. 19
  OBVIOUS
<1> HIDE DEF table
<1>3. table[10 + r] = Abs(r)
  BY <1>1, <1>2 DEF Abs
<1> QED
  BY <1>3 DEF zero, table, Abs, Minus

\* The characters of the numeral: the sign, then the digits from the last to the first.
LEMMA NumeralChars ==
    ASSUME NEW v \in Int, NEW ds \in Seq(Chars), NEW cs, cs = Reverse(ds \o sign(v))
    PROVE  /\ cs \in Seq(Chars)
           /\ v < 0 => /\ Len(cs) = Len(ds) + 1 /\ cs[1] = Minus
                       /\ \A j \in 1 .. Len(ds) : cs[j + 1] = ds[(Len(ds) + 1) - j]
           /\ ~(v < 0) => /\ Len(cs) = Len(ds)
                          /\ \A j \in 1 .. Len(ds) : cs[j] = ds[(Len(ds) + 1) - j]
<1>1. CASE v < 0
  <2>1. sign(v) = <<Minus>>
    BY <1>1 DEF sign
  <2> DEFINE all == ds \o <<Minus>>
  <2>2. /\ all \in Seq(Chars) /\ Len(all) = Len(ds) + 1 /\ Len(ds) \in Nat
        /\ all[Len(ds) + 1] = Minus
        /\ \A i \in 1 .. Len(ds) : all[i] = ds[i]
    BY DEF Minus, Chars
  <2> HIDE DEF all
  <2>3. cs = Reverse(all)
    BY <2>1 DEF all
  <2>4. cs \in Seq(Chars) /\ Len(cs) = Len(all)
    BY <2>2, <2>3, Reversed
  <2>5. cs = [i \in 1 .. Len(all) |-> all[(Len(all) - i) + 1]]
    BY <2>3 DEF Reverse
  <2>6. cs[1] = Minus
    BY <2>2, <2>5
  <2>7. ASSUME NEW j \in 1 .. Len(ds) PROVE cs[j + 1] = ds[(Len(ds) + 1) - j]
    <3>1. j + 1 \in 1 .. Len(all) /\ (Len(all) - (j + 1)) + 1 = (Len(ds) + 1) - j
      BY <2>2
    <3>2. (Len(ds) + 1) - j \in 1 .. Len(ds)
      BY <2>2
    <3> QED
      BY <2>2, <2>5, <3>1, <3>2
  <2> QED
    BY <1>1, <2>2, <2>4, <2>6, <2>7
<1>2. CASE ~(v < 0)
  <2>1. sign(v) = <<>>
    BY <1>2 DEF sign
  <2>2. ds \o <<>> = ds
    OBVIOUS
  <2>3. cs = Reverse(ds)
    BY <2>1, <2>2
  <2>4. cs \in Seq(Chars) /\ Len(cs) = Len(ds) /\ Len(ds) \in Nat
    BY <2>3, Reversed
  <2>5. cs = [i \in 1 .. Len(ds) |-> ds[(Len(ds) - i) + 1]]
    BY <2>3 DEF Reverse
  <2>6. ASSUME NEW j \in 1 .. Len(ds) PROVE cs[j] = ds[(Len(ds) + 1) - j]
    <3>1. (Len(ds) - j) + 1 = (Len(ds) + 1) - j
      BY <2>4
    <3> QED
      BY <2>5, <3>1
  <2> QED
    BY <1>2, <2>4, <2>6
<1> QED
  BY <1>1, <1>2

\* ds are the digits of v: its loop has ended after all of them, and not before.
DigitsOf(v, ds) ==
    /\ \A i \in 1 .. Len(ds) : ds[i] = zero(remainder(Divided(v)[i - 1]))
    /\ \A i \in 1 .. Len(ds) - 1 : Divided(v)[i] # 0

\* What the loop of format_integer wrote, reversed, is the numeral.
LEMMA NumeralRead ==
    ASSUME NEW v \in Int, NEW ds \in Seq(Chars), Len(ds) \in 1 .. MAX_NUM_SIZE,
           DigitsOf(v, ds), Divided(v)[Len(ds)] = 0
    PROVE  IsNumeral(Reverse(ds \o sign(v)), v)
<1> DEFINE n == Len(ds)
           D == Divided(v)
           cs == Reverse(ds \o sign(v))
           o == IF v < 0 THEN 1 ELSE 0
           W == Weight(cs)
<1>1. n \in Nat /\ n >= 1 /\ n <= MAX_NUM_SIZE /\ MAX_NUM_SIZE \in Nat
  BY Constants
<1>2. /\ D[0] = v /\ D[n] = 0
      /\ \A i \in 0 .. n : D[i] \in Int
      /\ \A i \in 1 .. n : D[i] = quotient(D[i - 1])
  <2>1. /\ D \in [0 .. MAX_NUM_SIZE -> Int] /\ D[0] = v
        /\ \A i \in 1 .. MAX_NUM_SIZE : D[i] = quotient(D[i - 1])
    BY DividedSteps
  <2>2. D[n] = 0
    OBVIOUS
  <2> HIDE DEF D, n
  <2> QED
    BY <1>1, <2>1, <2>2
<1>3. /\ cs \in Seq(Chars) /\ Len(cs) = n + o /\ o \in 0 .. 1
      /\ o = 1 => cs[1] = Minus
      /\ \A j \in 1 .. n : cs[j + o] = ds[(n + 1) - j]
  <2> HIDE DEF cs, n
  <2>1. CASE v < 0
    BY <1>1, <2>1, NumeralChars DEF cs, n
  <2>2. CASE ~(v < 0)
    BY <1>1, <2>2, NumeralChars DEF cs, n
  <2> QED
    BY <2>1, <2>2
<1>4. ASSUME NEW j \in 1 .. n
      PROVE  /\ cs[j + o] = Abs(remainder(D[n - j]))
             /\ cs[j + o] \in 0 .. 9 /\ cs[j + o] # Minus
             /\ Abs(D[n - j]) = 10 * Abs(D[n - (j - 1)]) + cs[j + o]
  <2> DEFINE i == (n + 1) - j
  <2>1. i \in 1 .. n /\ i - 1 = n - j /\ n - j \in 0 .. n /\ i = n - (j - 1)
    BY <1>1
  <2>2. ds[i] = zero(remainder(D[i - 1])) /\ D[i] = quotient(D[i - 1]) /\ D[i - 1] \in Int
    BY <1>2, <2>1 DEF DigitsOf
  <2>3. cs[j + o] = ds[i]
    BY <1>3
  <2> HIDE DEF D, cs, o, i, n
  <2>4. /\ remainder(D[i - 1]) \in -9 .. 9
        /\ Abs(D[i - 1]) = 10 * Abs(D[i]) + Abs(remainder(D[i - 1]))
    BY <2>2, DivisionSplits
  <2>5. ds[i] = Abs(remainder(D[i - 1])) /\ ds[i] \in 0 .. 9 /\ ds[i] # Minus
    BY <2>2, <2>4, DigitValue
  <2> QED
    BY <2>1, <2>3, <2>4, <2>5
<1>5. /\ W[0] = 0
      /\ \A i \in 0 .. n + o : W[i] \in Nat
      /\ \A i \in 1 .. n + o : W[i] = ReadOn(W[i - 1], cs[i])
  <2> HIDE DEF cs, n, o
  <2> QED
    BY <1>3, WeightSteps
<1> HIDE DEF D, cs, W, o, n
<1>6. W[o] = 0
  <2>1. CASE o = 0
    BY <1>5, <2>1
  <2>2. CASE o = 1
    <3>1. 1 \in 1 .. n + o /\ 1 - 1 = 0
      BY <1>1, <2>2
    <3>2. W[1] = W[0]
      BY <1>3, <1>5, <2>2, <3>1 DEF ReadOn
    <3> QED
      BY <1>5, <2>2, <3>2
  <2> QED
    BY <1>3, <2>1, <2>2
<1>7. \A j \in 0 .. n : W[j + o] = Abs(D[n - j])
  <2> DEFINE S == {j \in 0 .. n : W[j + o] = Abs(D[n - j])}
  <2>1. 0 \in S
    <3>1. 0 + o = o /\ n - 0 = n /\ 0 \in 0 .. n
      BY <1>1, <1>3
    <3>2. Abs(0) = 0
      BY DEF Abs
    <3> QED
      BY <1>2, <1>6, <3>1, <3>2
  <2>2. ASSUME NEW j \in 0 .. n - 1, j \in S PROVE j + 1 \in S
    <3>1. /\ j + 1 \in 1 .. n /\ (j + 1) - 1 = j /\ (j + 1) + o \in 1 .. n + o
          /\ ((j + 1) + o) - 1 = j + o
      BY <1>1, <1>3
    <3>2. W[(j + 1) + o] = 10 * W[j + o] + cs[(j + 1) + o]
      BY <1>4, <1>5, <3>1 DEF ReadOn
    <3>3. Abs(D[n - (j + 1)]) = 10 * Abs(D[n - j]) + cs[(j + 1) + o]
      BY <1>4, <3>1
    <3>4. W[j + o] = Abs(D[n - j])
      BY <2>2
    <3> QED
      BY <1>1, <3>1, <3>2, <3>3, <3>4
  <2> HIDE DEF S
  <2>3. \A j \in 0 .. n : j \in S
    BY <1>1, <2>1, <2>2, Induction
  <2> QED
    BY <2>3 DEF S
<1>8. W[Len(cs)] = Abs(v)
  BY <1>1, <1>2, <1>3, <1>7
<1>9. cs[1] = Minus <=> v < 0
  <2>1. CASE v < 0
    BY <1>3, <2>1 DEF o
  <2>2. CASE ~(v < 0)
    <3>1. o = 0 /\ 1 \in 1 .. n /\ 1 + o = 1
      BY <1>1, <2>2 DEF o
    <3> QED
      BY <1>4, <2>2, <3>1
  <2> QED
    BY <2>1, <2>2
<1>10. Value(cs) = v
  BY <1>8, <1>9 DEF Value, W, Abs
<1>11. ASSUME NEW i \in 2 .. Len(cs) PROVE cs[i] # Minus
  <2>1. i - o \in 1 .. n /\ (i - o) + o = i
    BY <1>1, <1>3
  <2> QED
    BY <1>4, <2>1
<1>12. cs[1 + o] = Abs(D[n - 1])
  <2>1. 1 \in 1 .. n /\ n - (1 - 1) = n
    BY <1>1
  <2>2. Abs(D[n - 1]) = 10 * Abs(0) + cs[1 + o] /\ cs[1 + o] \in 0 .. 9
    BY <1>2, <1>4, <2>1
  <2> QED
    BY <2>2 DEF Abs
<1>13. n > 1 => D[n - 1] \in Int /\ D[n - 1] # 0
  BY <1>1, <1>2 DEF DigitsOf, D, n
<1>14. n = 1 => D[n - 1] = v
  BY <1>2
<1>15. cs[1] = 0 => Len(cs) = 1
  <2> SUFFICES ASSUME cs[1] = 0 PROVE Len(cs) = 1
    OBVIOUS
  <2>1. o = 0
    BY <1>3, <1>9 DEF o, Minus
  <2>2. Abs(D[n - 1]) = 0
    BY <1>12, <2>1
  <2>3. n = 1
    BY <1>1, <1>13, <2>2 DEF Abs
  <2> QED
    BY <1>3, <2>1, <2>3
<1>16. Len(cs) > 1 /\ cs[1] = Minus => cs[2] # 0
  <2> SUFFICES ASSUME cs[1] = Minus PROVE cs[2] # 0
    OBVIOUS
  <2>1. v < 0 /\ o = 1
    BY <1>9 DEF o
  <2>2. cs[2] = Abs(D[n - 1])
    BY <1>12, <2>1
  <2>3. D[n - 1] \in Int /\ D[n - 1] # 0
    BY <1>1, <1>13, <1>14, <2>1
  <2> QED
    BY <2>2, <2>3 DEF Abs
<1> QED
  BY <1>10, <1>11, <1>15, <1>16 DEF IsNumeral, cs

----------------------------------------------------------------------------
(* What is in a record.                                                    *)

\* The digits ds are the first ones of v, and n is what their divisions leave of it.
Loop(v, n, ds) ==
    /\ n = Divided(v)[Len(ds)]
    /\ \A i \in 1 .. Len(ds) : ds[i] = zero(remainder(Divided(v)[i - 1])) /\ Divided(v)[i] # 0

\* The item p is inside of the characters cs, and reads as it should.
PlacedIn(cs, p) ==
    /\ 1 <= p.from /\ p.to <= Len(cs)
    /\ p.item.kind = "int" => IsNumeral(SubSeq(cs, p.from, p.to), p.item.value)
AllIn(cs, ps) == \A j \in 1 .. Len(ps) : PlacedIn(cs, ps[j])

\* its is short enough to be written whole.
Short(its) == Total(its) + MAX_NUM_SIZE <= SIZE

\* The first n items of its are the ones in ps.
Kept(its, n, ps) == Len(ps) = n /\ \A j \in 1 .. n : ps[j].item = its[j]

\* Of a short record nothing was dropped, and its characters are not more than its
\* items take at their longest, so that there is room for the rest.
Whole(its, n, b, ps) == Short(its) => Kept(its, n, ps) /\ Len(b) <= Sums(its)[n]

\* What is in the buffers and in the output is what was streamed.
ContentInv ==
    /\ \A t \in Threads :
         /\ pc[t] \notin Busy => buffer_[t] = <<>>
         /\ pc[t] = "digits" => Loop(items[t][next[t]].value, num[t], digits[t])
         /\ AllIn(buffer_[t], placed[t])
         /\ Whole(items[t], next[t] - 1, buffer_[t], placed[t])
    /\ \A i \in 1 .. Len(output) :
         /\ AllIn(output[i].chars, output[i].placed)
         /\ Whole(output[i].items, Len(output[i].items), output[i].chars, output[i].placed)

\* The first items are not longer than all of them.
LEMMA SumsGrow ==
    ASSUME NEW its \in Seq(AllItems), NEW n \in 0 .. Len(its)
    PROVE  Sums(its)[n] <= Total(its) /\ Sums(its)[n] \in Nat /\ Total(its) \in Nat
<1> DEFINE N == Len(its)
           f == Sums(its)
           S == {j \in 0 .. N : f[N - j] <= f[N]}
<1>1. /\ N \in Nat /\ f \in [0 .. N -> Nat] /\ f[0] = 0
      /\ \A i \in 1 .. N : f[i] = f[i - 1] + ItemLength(its[i])
      /\ \A i \in 1 .. N : ItemLength(its[i]) \in Nat
  BY SumsSteps, LenProperties, ElementOfSeq, ItemLengths
<1> HIDE DEF N, f
<1>2. 0 \in S
  BY <1>1
<1>3. ASSUME NEW j \in 0 .. N - 1, j \in S PROVE j + 1 \in S
  <2>1. N - j \in 1 .. N /\ (N - j) - 1 = N - (j + 1) /\ N - (j + 1) \in 0 .. N /\ j + 1 \in 0 .. N
    BY <1>1
  <2>2. f[N - j] = f[N - (j + 1)] + ItemLength(its[N - j]) /\ ItemLength(its[N - j]) \in Nat
    BY <1>1, <2>1
  <2>3. f[N - j] <= f[N] /\ f[N - j] \in Nat /\ f[N] \in Nat /\ f[N - (j + 1)] \in Nat
    BY <1>1, <1>3, <2>1
  <2> QED
    BY <2>1, <2>2, <2>3
<1> HIDE DEF S
<1>4. \A j \in 0 .. N : j \in S
  BY <1>1, <1>2, <1>3, Induction
<1>5. N - n \in 0 .. N /\ N - (N - n) = n /\ n \in 0 .. N
  BY <1>1 DEF N
<1>6. f[n] <= f[N]
  BY <1>4, <1>5 DEF S
<1> QED
  BY <1>1, <1>5, <1>6 DEF f, N, Total

\* A concatenation and its two parts.
LEMMA Parts ==
    ASSUME NEW b \in Seq(Chars), NEW cs \in Seq(Chars)
    PROVE  /\ \A from, to \in Int : 1 <= from /\ to <= Len(b) =>
                SubSeq(b \o cs, from, to) = SubSeq(b, from, to)
           /\ SubSeq(b \o cs, Len(b) + 1, Len(b) + Len(cs)) = cs
<1>1. Len(b) \in Nat /\ Len(cs) \in Nat
  BY LenProperties
<1>2. ASSUME NEW from \in Int, NEW to \in Int, 1 <= from, to <= Len(b)
      PROVE  SubSeq(b \o cs, from, to) = SubSeq(b, from, to)
  <2>1. CASE to < from
    BY <2>1, SubSeqEmpty
  <2>2. CASE ~(to < from)
    <3>1. from \in 1 .. Len(b) /\ to \in 1 .. Len(b)
      BY <1>1, <1>2, <2>2
    <3> QED
      BY <3>1, SubSeqOfConcat1
  <2> QED
    BY <2>1, <2>2
<1>3. SubSeq(b \o cs, Len(b) + 1, Len(b) + Len(cs)) = cs
  <2>1. CASE Len(cs) = 0
    <3>1. cs = <<>>
      BY <2>1, EmptySeq
    <3>2. Len(b) + 1 \in Int /\ Len(b) + Len(cs) \in Int /\ Len(b) + Len(cs) < Len(b) + 1
      BY <1>1, <2>1
    <3> QED
      BY <3>1, <3>2, SubSeqEmpty
  <2>2. CASE Len(cs) # 0
    <3> DEFINE from == Len(b) + 1
               to == Len(b) + Len(cs)
    <3>1. /\ from \in Len(b) + 1 .. Len(b) + Len(cs) /\ to \in Len(b) + 1 .. Len(b) + Len(cs)
          /\ from - Len(b) = 1 /\ to - Len(b) = Len(cs)
      BY <1>1, <2>2
    <3> HIDE DEF from, to
    <3>2. SubSeq(b \o cs, from, to) = SubSeq(cs, from - Len(b), to - Len(b))
      BY <3>1, SubSeqOfConcat2
    <3>3. SubSeq(cs, 1, Len(cs)) = cs
      BY SubSeqFull
    <3> QED
      BY <3>1, <3>2, <3>3 DEF from, to
  <2> QED
    BY <2>1, <2>2
<1> QED
  BY <1>2, <1>3

\* What is placed stays where it is when characters are added behind it.
LEMMA PlacedStays ==
    ASSUME NEW b \in Seq(Chars), NEW cs \in Seq(Chars), NEW p \in Placed, PlacedIn(b, p)
    PROVE  PlacedIn(b \o cs, p)
<1>1. p.from \in Int /\ p.to \in Int
  BY DEF Placed
<1>2. 1 <= p.from /\ p.to <= Len(b)
  BY DEF PlacedIn
<1>3. SubSeq(b \o cs, p.from, p.to) = SubSeq(b, p.from, p.to)
  <2>1. \A from, to \in Int : 1 <= from /\ to <= Len(b) =>
          SubSeq(b \o cs, from, to) = SubSeq(b, from, to)
    BY Parts
  <2> QED
    BY <1>1, <1>2, <2>1
<1>4. p.to <= Len(b \o cs)
  BY <1>1, <1>2, Concat
<1> QED
  BY <1>2, <1>3, <1>4 DEF PlacedIn

\* A record without items.
LEMMA EmptyRecord == AllIn(<<>>, <<>>) /\ Whole(<<>>, 0, <<>>, <<>>)
<1>1. <<>> \in Seq(AllItems) /\ Len(<<>>) = 0
  OBVIOUS
<1>2. Sums(<<>>)[0] = 0
  BY <1>1, SumsSteps
<1> QED
  BY <1>1, <1>2 DEF AllIn, Whole, Kept

\* What is in the buffers initially: nothing.
LEMMA InitContent == Init => ContentInv
<1> SUFFICES ASSUME Init PROVE ContentInv
  OBVIOUS
<1>1. ASSUME NEW t \in Threads
      PROVE  /\ pc[t] = "idle" /\ buffer_[t] = <<>> /\ placed[t] = <<>> /\ items[t] = <<>>
             /\ next[t] - 1 = 0
  BY DEF Init
<1>2. output = <<>>
  BY DEF Init
<1> QED
  BY <1>1, <1>2, EmptyRecord DEF ContentInv, Busy

\* A step of thread t that leaves the output and the other threads alone.
LEMMA ContentFrame ==
    ASSUME ContentInv, NEW t \in Threads,
           \A u \in Threads : u # t =>
             /\ pc'[u] = pc[u] /\ items'[u] = items[u] /\ next'[u] = next[u]
             /\ buffer_'[u] = buffer_[u] /\ num'[u] = num[u] /\ digits'[u] = digits[u]
             /\ placed'[u] = placed[u],
           output' = output,
           pc'[t] \notin Busy => buffer_'[t] = <<>>,
           pc'[t] = "digits" => Loop(items'[t][next'[t]].value, num'[t], digits'[t]),
           AllIn(buffer_'[t], placed'[t]),
           Whole(items'[t], next'[t] - 1, buffer_'[t], placed'[t])
    PROVE  ContentInv'
<1>1. ASSUME NEW u \in Threads
      PROVE  /\ pc'[u] \notin Busy => buffer_'[u] = <<>>
             /\ pc'[u] = "digits" => Loop(items'[u][next'[u]].value, num'[u], digits'[u])
             /\ AllIn(buffer_'[u], placed'[u])
             /\ Whole(items'[u], next'[u] - 1, buffer_'[u], placed'[u])
  BY DEF ContentInv
<1>2. ASSUME NEW i \in 1 .. Len(output')
      PROVE  /\ AllIn(output'[i].chars, output'[i].placed)
             /\ Whole(output'[i].items, Len(output'[i].items), output'[i].chars, output'[i].placed)
  BY DEF ContentInv
<1> QED
  BY <1>1, <1>2 DEF ContentInv

\* The current item is placed: what was there stays, and a short record goes on
\* being whole.
LEMMA ContentPlaced ==
    ASSUME IInv, ContentInv, NEW t \in Threads, pc[t] \in Busy, next[t] <= Len(items[t]),
           NEW cs \in Seq(Chars), add(t, cs), Advance(t),
           Len(cs) <= ItemLength(items[t][next[t]]),
           items[t][next[t]].kind = "int" => IsNumeral(cs, items[t][next[t]].value),
           NEW n, num' = [num EXCEPT ![t] = n], NEW ds, digits' = [digits EXCEPT ![t] = ds]
    PROVE  ContentInv'
<1> DEFINE it == items[t][next[t]]
           b == buffer_[t]
           p == placed[t]
           e == [item |-> it, from |-> Len(b) + 1, to |-> Len(b) + Len(cs)]
<1>1. /\ items[t] \in Seq(AllItems) /\ next[t] \in Nat \ {0} /\ b \in Seq(Chars) /\ p \in Seq(Placed)
      /\ Len(items[t]) \in Nat /\ Len(b) \in Nat /\ Len(cs) \in Nat /\ Len(p) \in Nat
  BY LenProperties DEF IInv, FieldsOK
<1>2. it \in AllItems /\ ItemLength(it) \in Nat /\ next[t] \in 1 .. Len(items[t])
  BY <1>1, ElementOfSeq, ItemLengths
<1>3. /\ pc'[t] = "stream" /\ items'[t] = items[t] /\ next'[t] = next[t] + 1
      /\ buffer_'[t] = b \o cs /\ placed'[t] = Append(p, e)
      /\ output' = output
      /\ \A u \in Threads : u # t =>
           /\ pc'[u] = pc[u] /\ items'[u] = items[u] /\ next'[u] = next[u]
           /\ buffer_'[u] = buffer_[u] /\ num'[u] = num[u] /\ digits'[u] = digits[u]
           /\ placed'[u] = placed[u]
  BY DEF add, Advance, IInv, FieldsOK
<1>4. e \in Placed /\ e.item = it /\ e.from = Len(b) + 1 /\ e.to = Len(b) + Len(cs)
  BY <1>1, <1>2 DEF Placed
<1>5. AllIn(b, p) /\ Whole(items[t], next[t] - 1, b, p)
  BY DEF ContentInv
<1>6. it.kind = "int" => IsNumeral(cs, it.value)
  OBVIOUS
<1>7. Len(cs) <= ItemLength(it)
  OBVIOUS
<1> HIDE DEF it, e, b, p
<1>8. /\ Len(Append(p, e)) = Len(p) + 1 /\ Append(p, e)[Len(p) + 1] = e
      /\ \A j \in 1 .. Len(p) : Append(p, e)[j] = p[j]
      /\ \A j \in 1 .. Len(p) : p[j] \in Placed
  BY <1>1, <1>4, AppendSeq, ElementOfSeq
<1>9. Len(b \o cs) = Len(b) + Len(cs) /\ SubSeq(b \o cs, Len(b) + 1, Len(b) + Len(cs)) = cs
  BY <1>1, Concat, Parts
<1>10. AllIn(b \o cs, Append(p, e))
  <2>1. PlacedIn(b \o cs, e)
    <3>1. 1 <= e.from /\ e.to <= Len(b \o cs)
      BY <1>1, <1>4, <1>9
    <3>2. SubSeq(b \o cs, e.from, e.to) = cs
      BY <1>4, <1>9
    <3> QED
      BY <1>4, <1>6, <3>1, <3>2 DEF PlacedIn
  <2>2. ASSUME NEW j \in 1 .. Len(p) PROVE PlacedIn(b \o cs, p[j])
    <3>1. p[j] \in Placed /\ PlacedIn(b, p[j])
      BY <1>5, <1>8 DEF AllIn
    <3> QED
      BY <1>1, <3>1, PlacedStays
  <2>3. ASSUME NEW j \in 1 .. Len(p) + 1 PROVE PlacedIn(b \o cs, Append(p, e)[j])
    <3>1. j = Len(p) + 1 \/ j \in 1 .. Len(p)
      BY <1>1
    <3> QED
      BY <1>8, <2>1, <2>2, <3>1
  <2> QED
    BY <1>8, <2>3 DEF AllIn
<1>11. Whole(items[t], next[t], b \o cs, Append(p, e))
  <2> SUFFICES ASSUME Short(items[t])
               PROVE  Kept(items[t], next[t], Append(p, e)) /\ Len(b \o cs) <= Sums(items[t])[next[t]]
    BY DEF Whole
  <2>1. /\ Len(p) = next[t] - 1 /\ \A j \in 1 .. next[t] - 1 : p[j].item = items[t][j]
        /\ Len(b) <= Sums(items[t])[next[t] - 1]
    BY <1>5 DEF Whole, Kept
  <2>2. ASSUME NEW j \in 1 .. next[t] PROVE Append(p, e)[j].item = items[t][j]
    <3>1. j = next[t] \/ j \in 1 .. next[t] - 1
      BY <1>1
    <3>2. next[t] = Len(p) + 1
      BY <1>1, <2>1
    <3> QED
      BY <1>4, <1>8, <2>1, <3>1, <3>2 DEF it
  <2>3. Kept(items[t], next[t], Append(p, e))
    BY <1>1, <1>8, <2>1, <2>2 DEF Kept
  <2>4. /\ Sums(items[t])[next[t]] = Sums(items[t])[next[t] - 1] + ItemLength(it)
        /\ Sums(items[t])[next[t] - 1] \in Nat
    <3>1. next[t] - 1 \in 0 .. Len(items[t])
      BY <1>2
    <3> QED
      BY <1>1, <1>2, <3>1, SumsSteps DEF it
  <2> QED
    BY <1>1, <1>2, <1>7, <1>9, <2>1, <2>3, <2>4
<1>12. next'[t] - 1 = next[t]
  BY <1>1, <1>3
<1>13. pc'[t] \in Busy /\ pc'[t] # "digits"
  BY <1>3 DEF Busy
<1> QED
  BY <1>3, <1>10, <1>11, <1>12, <1>13, ContentFrame

\* The current item is dropped, which a short record never meets.
LEMMA ContentDropped ==
    ASSUME IInv, ContentInv, NEW t \in Threads, next[t] <= Len(items[t]), Advance(t),
           UNCHANGED <<buffer_, placed, num, digits>>, ~Short(items[t])
    PROVE  ContentInv'
<1>1. /\ pc'[t] = "stream" /\ items'[t] = items[t] /\ buffer_'[t] = buffer_[t]
      /\ placed'[t] = placed[t] /\ output' = output
      /\ \A u \in Threads : u # t =>
           /\ pc'[u] = pc[u] /\ items'[u] = items[u] /\ next'[u] = next[u]
           /\ buffer_'[u] = buffer_[u] /\ num'[u] = num[u] /\ digits'[u] = digits[u]
           /\ placed'[u] = placed[u]
  BY DEF Advance, IInv, FieldsOK
<1>2. pc'[t] \in Busy /\ pc'[t] # "digits"
  BY <1>1 DEF Busy
<1>3. AllIn(buffer_'[t], placed'[t])
  BY <1>1 DEF ContentInv
<1>4. Whole(items'[t], next'[t] - 1, buffer_'[t], placed'[t])
  BY <1>1 DEF Whole
<1> QED
  BY <1>1, <1>2, <1>3, <1>4, ContentFrame

\* In a short record there is room for the current item, and MAX_NUM_SIZE bytes more
\* than it takes.
LEMMA ShortHasRoom ==
    ASSUME IInv, ContentInv, NEW t \in Threads, next[t] <= Len(items[t]), Short(items[t])
    PROVE  size(t) >= ItemLength(items[t][next[t]]) + MAX_NUM_SIZE
<1> DEFINE n == next[t]
           f == Sums(items[t])
<1>1. /\ items[t] \in Seq(AllItems) /\ n \in Nat \ {0} /\ Len(items[t]) \in Nat
      /\ Len(buffer_[t]) \in Nat /\ SIZE \in Nat /\ MAX_NUM_SIZE \in Nat
  BY LenProperties, Constants DEF IInv, FieldsOK
<1>2. n \in 1 .. Len(items[t]) /\ n \in 0 .. Len(items[t]) /\ n - 1 \in 0 .. Len(items[t])
  BY <1>1
<1>3. ItemLength(items[t][n]) \in Nat
  BY <1>1, <1>2, ElementOfSeq, ItemLengths
<1>4. f[n] = f[n - 1] + ItemLength(items[t][n])
  BY <1>1, <1>2, SumsSteps
<1>5. f[n] <= Total(items[t]) /\ f[n] \in Nat /\ Total(items[t]) \in Nat /\ f[n - 1] \in Nat
  BY <1>1, <1>2, SumsGrow
<1>6. Len(buffer_[t]) <= f[n - 1]
  BY DEF ContentInv, Whole
<1>7. Total(items[t]) + MAX_NUM_SIZE <= SIZE
  BY DEF Short
<1> HIDE DEF n, f
<1>8. SIZE - Len(buffer_[t]) >= ItemLength(items[t][n]) + MAX_NUM_SIZE
  BY <1>1, <1>3, <1>4, <1>5, <1>6, <1>7
<1> QED
  BY <1>8 DEF size, n

\* append, and the numbers that are not written digit by digit.
LEMMA ContentAppend ==
    ASSUME IInv, ContentInv, NEW t \in Threads, append(t) \/ drop_number(t) \/ format_double(t)
    PROVE  ContentInv'
<1> DEFINE it == items[t][next[t]]
<1>1. /\ pc[t] = "stream" /\ pc[t] \in Busy /\ next[t] <= Len(items[t])
      /\ Advance(t) /\ UNCHANGED <<num, digits>>
  BY DEF append, drop_number, format_double, Streams, Busy
<1>2. it \in AllItems
  BY <1>1, NextItem
<1>3. num' = [num EXCEPT ![t] = num[t]] /\ digits' = [digits EXCEPT ![t] = digits[t]]
  BY <1>1 DEF IInv, FieldsOK
<1>4. ItemLength(it) \in Nat /\ SIZE \in Nat /\ MAX_NUM_SIZE \in Nat /\ MAX_NUM_SIZE > 2
  BY <1>2, ItemLengths, Constants
<1>5. size(t) \in Int
  BY LenProperties, <1>4 DEF size, IInv, FieldsOK
<1>6. Short(items[t]) => size(t) >= ItemLength(it) + MAX_NUM_SIZE
  BY <1>1, ShortHasRoom
<1>7. CASE append(t)
  <2> DEFINE c == IF it.kind = "end" THEN Newline ELSE Other
             cs == [i \in 1 .. it.value |-> c]
  <2>1. /\ it.kind \in {"text", "end"}
        /\ IF fits(t, it.value) THEN add(t, cs) ELSE UNCHANGED <<buffer_, placed>>
    BY <1>7 DEF append, Streams
  <2>2. it.value \in Nat /\ c \in Chars /\ ItemLength(it) = it.value
    BY <1>2, <2>1, ItemValues DEF Newline, Other, Chars, ItemLength
  <2>3. cs \in Seq(Chars) /\ Len(cs) = it.value
    BY <2>2, Repeated
  <2>4. CASE fits(t, it.value)
    <3>1. add(t, cs)
      BY <2>1, <2>4
    <3>2. Len(cs) <= ItemLength(it) /\ it.kind # "int"
      BY <2>1, <2>2, <2>3
    <3> HIDE DEF cs
    <3> QED
      BY <1>1, <1>3, <2>3, <3>1, <3>2, ContentPlaced
  <2>5. CASE ~fits(t, it.value)
    <3>1. ~Short(items[t])
      BY <1>4, <1>5, <1>6, <2>2, <2>5 DEF fits
    <3>2. UNCHANGED <<buffer_, placed, num, digits>>
      BY <1>1, <2>1, <2>5
    <3> QED
      BY <1>1, <3>1, <3>2, ContentDropped
  <2> QED
    BY <2>4, <2>5
<1>8. CASE drop_number(t)
  <2>1. size(t) < MAX_NUM_SIZE /\ UNCHANGED <<buffer_, placed, num, digits>>
    BY <1>8 DEF drop_number
  <2>2. ~Short(items[t])
    BY <1>4, <1>5, <1>6, <2>1
  <2> QED
    BY <1>1, <2>1, <2>2, ContentDropped
<1>9. CASE format_double(t)
  <2> DEFINE cs == [i \in 1 .. it.value |-> Other]
  <2>1. it.kind = "double" /\ add(t, cs)
    BY <1>9 DEF format_double, Streams
  <2>2. it.value \in Nat /\ ItemLength(it) = it.value
    BY <1>2, <2>1, ItemValues DEF ItemLength
  <2>3. cs \in Seq(Chars) /\ Len(cs) = it.value
    BY <2>2, Repeated DEF Other, Chars
  <2>4. Len(cs) <= ItemLength(it) /\ it.kind # "int"
    BY <2>1, <2>2, <2>3
  <2> HIDE DEF cs
  <2> QED
    BY <1>1, <1>3, <2>1, <2>3, <2>4, ContentPlaced
<1> QED
  BY <1>7, <1>8, <1>9

\* format_integer enters its loop with the number undivided.
LEMMA ContentFormat ==
    ASSUME IInv, ContentInv, NEW t \in Threads, format_integer(t)
    PROVE  ContentInv'
<1> DEFINE v == items[t][next[t]].value
<1>1. /\ pc[t] = "stream" /\ next[t] <= Len(items[t]) /\ items[t][next[t]].kind = "int"
      /\ pc[t] \in Busy
  BY DEF format_integer, Streams, Busy
<1>2. v \in Int
  BY <1>1, NextItem, ItemValues
<1>3. /\ pc'[t] = "digits" /\ num'[t] = v /\ items'[t] = items[t] /\ next'[t] = next[t]
      /\ buffer_'[t] = buffer_[t] /\ placed'[t] = placed[t] /\ output' = output
      /\ \A u \in Threads : u # t =>
           /\ pc'[u] = pc[u] /\ items'[u] = items[u] /\ next'[u] = next[u]
           /\ buffer_'[u] = buffer_[u] /\ num'[u] = num[u] /\ digits'[u] = digits[u]
           /\ placed'[u] = placed[u]
  BY DEF format_integer, IInv, FieldsOK
<1>4. digits'[t] = <<>>
  BY <1>1 DEF format_integer, IInv, DigitsInv
<1>5. Divided(v)[0] = v
  BY <1>2, DividedSteps
<1>6. Loop(v, v, <<>>)
  BY <1>5 DEF Loop
<1>7. pc'[t] \in Busy
  BY <1>3 DEF Busy
<1>8. AllIn(buffer_[t], placed[t]) /\ Whole(items[t], next[t] - 1, buffer_[t], placed[t])
  BY DEF ContentInv
<1> QED
  BY <1>3, <1>4, <1>6, <1>7, <1>8, ContentFrame

\* One digit: one more of the number's, or the last one, and then the numeral is
\* complete.
LEMMA ContentDigit ==
    ASSUME IInv, ContentInv, NEW t \in Threads, digit(t)
    PROVE  ContentInv'
<1> DEFINE d == zero(remainder(num[t]))
           ds == Append(digits[t], d)
           q == quotient(num[t])
           k == Len(digits[t])
           it == items[t][next[t]]
           D == Divided(it.value)
<1>1. /\ pc[t] = "digits" /\ pc[t] \in Busy /\ num' = [num EXCEPT ![t] = q]
      /\ IF q # 0
           THEN /\ digits' = [digits EXCEPT ![t] = ds]
                /\ UNCHANGED <<pc, level_, items, next, buffer_, placed, output, flushed, aborted>>
           ELSE /\ add(t, Reverse(ds \o sign(it.value)))
                /\ digits' = [digits EXCEPT ![t] = <<>>]
                /\ Advance(t)
  BY DEF digit, Busy
<1>2. next[t] <= Len(items[t]) /\ it.kind = "int" /\ k <= MAX_NUM_SIZE - 3
  BY <1>1 DEF IInv, DigitsInv
<1>3. num[t] \in Int /\ digits[t] \in Seq(Chars) /\ k \in Nat /\ MAX_NUM_SIZE \in Nat
  BY LenProperties, Constants DEF IInv, FieldsOK
<1>4. it \in AllItems /\ it.value \in Int
  BY <1>1, <1>2, NextItem, ItemValues
<1>5. d \in Chars /\ ds \in Seq(Chars) /\ Len(ds) = k + 1 /\ ds[k + 1] = d
      /\ \A i \in 1 .. k : ds[i] = digits[t][i]
  <2>1. d \in Chars
    BY <1>3, DivisionSplits, Digit
  <2> QED
    BY <1>3, <2>1, AppendSeq
<1>6. Loop(it.value, num[t], digits[t])
  BY <1>1 DEF ContentInv
<1>7. /\ num[t] = D[k]
      /\ \A i \in 1 .. k : digits[t][i] = zero(remainder(D[i - 1])) /\ D[i] # 0
  BY <1>6 DEF Loop
<1>8. D[k + 1] = q
  <2>1. k + 1 \in 1 .. MAX_NUM_SIZE /\ (k + 1) - 1 = k
    BY <1>2, <1>3
  <2>2. D[k + 1] = quotient(D[(k + 1) - 1])
    BY <1>4, <2>1, DividedSteps
  <2> QED
    BY <1>7, <2>1, <2>2
<1>9. AllIn(buffer_[t], placed[t]) /\ Whole(items[t], next[t] - 1, buffer_[t], placed[t])
  BY DEF ContentInv
<1>10. \A i \in 1 .. k + 1 : ds[i] = zero(remainder(D[i - 1]))
  <2> HIDE DEF ds, D, k
  <2>1. ASSUME NEW i \in 1 .. k + 1 PROVE ds[i] = zero(remainder(D[i - 1]))
    <3>1. i \in 1 .. k \/ (i = k + 1 /\ i - 1 = k)
      BY <1>3
    <3> QED
      BY <1>5, <1>7, <3>1
  <2> QED
    BY <2>1
<1> HIDE DEF ds, q, k, it, D, d
<1>11. CASE q # 0
  <2>1. /\ digits' = [digits EXCEPT ![t] = ds]
        /\ UNCHANGED <<pc, level_, items, next, buffer_, placed, output, flushed, aborted>>
    BY <1>1, <1>11
  <2>2. digits'[t] = ds /\ num'[t] = q
    BY <1>1, <2>1 DEF IInv, FieldsOK
  <2>3. \A u \in Threads : u # t => num'[u] = num[u] /\ digits'[u] = digits[u]
    BY <1>1, <2>1 DEF IInv, FieldsOK
  <2>4. Loop(it.value, q, ds)
    <3>1. ASSUME NEW i \in 1 .. k + 1 PROVE D[i] # 0
      <4>1. i \in 1 .. k \/ i = k + 1
        BY <1>3
      <4> QED
        BY <1>7, <1>8, <1>11, <4>1
    <3>2. Len(ds) = k + 1 /\ q = D[k + 1]
      BY <1>5, <1>8
    <3> QED
      BY <1>10, <3>1, <3>2 DEF Loop, D
  <2>5. items'[t][next'[t]].value = it.value
    BY <2>1 DEF it
  <2> QED
    BY <1>1, <1>9, <2>1, <2>2, <2>3, <2>4, <2>5, ContentFrame
<1>12. CASE q = 0
  <2> DEFINE cs == Reverse(ds \o sign(it.value))
  <2>1. add(t, cs) /\ digits' = [digits EXCEPT ![t] = <<>>] /\ Advance(t)
    BY <1>1, <1>12
  <2>2. IsNumeral(cs, it.value)
    <3>1. DigitsOf(it.value, ds)
      <4>1. \A i \in 1 .. Len(ds) : ds[i] = zero(remainder(Divided(it.value)[i - 1]))
        BY <1>5, <1>10 DEF D
      <4>2. \A i \in 1 .. Len(ds) - 1 : Divided(it.value)[i] # 0
        <5>1. Len(ds) - 1 = k
          BY <1>3, <1>5
        <5> QED
          BY <1>7, <5>1 DEF D
      <4> QED
        BY <4>1, <4>2 DEF DigitsOf
    <3>2. Len(ds) \in 1 .. MAX_NUM_SIZE
      BY <1>2, <1>3, <1>5
    <3>3. Divided(it.value)[Len(ds)] = 0
      BY <1>5, <1>8, <1>12 DEF D
    <3> QED
      BY <1>4, <1>5, <3>1, <3>2, <3>3, NumeralRead
  <2>3. cs \in Seq(Chars) /\ (Len(cs) = Len(ds) + 1 \/ Len(cs) = Len(ds))
    BY <1>4, <1>5, NumeralChars
  <2>4. Len(cs) <= ItemLength(it)
    BY <1>2, <1>3, <1>5, <2>3 DEF ItemLength
  <2> HIDE DEF cs
  <2> QED
    BY <1>1, <1>2, <2>1, <2>2, <2>3, <2>4, ContentPlaced DEF it
<1> QED
  BY <1>11, <1>12

\* A new record has nothing in it.
LEMMA ContentLogger ==
    ASSUME IInv, ContentInv, NEW t \in Threads, NEW msg \in Messages[t],
           NEW level \in {"FATAL", "other"}, logger(t, msg, level), IInv'
    PROVE  ContentInv'
<1>1. /\ pc[t] = "idle" /\ pc'[t] = "stream" /\ next'[t] = next[t]
      /\ buffer_'[t] = buffer_[t] /\ placed'[t] = placed[t] /\ output' = output
      /\ \A u \in Threads : u # t =>
           /\ pc'[u] = pc[u] /\ items'[u] = items[u] /\ next'[u] = next[u]
           /\ buffer_'[u] = buffer_[u] /\ num'[u] = num[u] /\ digits'[u] = digits[u]
           /\ placed'[u] = placed[u]
  BY DEF logger, IInv, FieldsOK
<1>2. items[t] = <<>> /\ next[t] <= Len(items[t]) + 1 /\ Len(placed[t]) < next[t]
  BY <1>1 DEF IInv, RecordInv, Busy
<1>3. next[t] \in Nat \ {0} /\ placed[t] \in Seq(Placed) /\ Len(placed[t]) \in Nat
  BY LenProperties DEF IInv, FieldsOK
<1>4. next[t] - 1 = 0 /\ placed[t] = <<>>
  BY <1>2, <1>3, EmptySeq
<1>5. buffer_[t] = <<>>
  BY <1>1 DEF ContentInv, Busy
<1>6. items'[t] \in Seq(AllItems)
  BY DEF IInv, FieldsOK
<1>7. Whole(items'[t], 0, <<>>, <<>>) /\ AllIn(<<>>, <<>>)
  BY <1>6, SumsSteps DEF Whole, Kept, AllIn
<1>8. pc'[t] \in Busy /\ pc'[t] # "digits"
  BY <1>1 DEF Busy
<1> QED
  BY <1>1, <1>4, <1>5, <1>7, <1>8, ContentFrame

\* The destructor gives the record to the output as it is.
LEMMA ContentDtor ==
    ASSUME IInv, ContentInv, NEW t \in Threads, logger_dtor(t)
    PROVE  ContentInv'
<1> DEFINE r == [by |-> t, items |-> items[t], chars |-> buffer_[t], placed |-> placed[t]]
<1>1. /\ pc[t] = "stream" /\ next[t] > Len(items[t])
      /\ output' = Append(output, r)
      /\ pc' = [pc EXCEPT ![t] = after_output(level_[t])]
      /\ items' = [items EXCEPT ![t] = <<>>] /\ next' = [next EXCEPT ![t] = 1]
      /\ buffer_' = [buffer_ EXCEPT ![t] = <<>>] /\ placed' = [placed EXCEPT ![t] = <<>>]
      /\ UNCHANGED <<num, digits>>
  BY DEF logger_dtor
<1>2. pc'[t] \in {"idle", "flush"} /\ items'[t] = <<>> /\ next'[t] = 1
      /\ buffer_'[t] = <<>> /\ placed'[t] = <<>>
  BY <1>1 DEF after_output, IInv, FieldsOK
<1>3. \A u \in Threads : u # t =>
        /\ pc'[u] = pc[u] /\ items'[u] = items[u] /\ next'[u] = next[u]
        /\ buffer_'[u] = buffer_[u] /\ num'[u] = num[u] /\ digits'[u] = digits[u]
        /\ placed'[u] = placed[u]
  BY <1>1 DEF IInv, FieldsOK
<1>4. /\ r \in Entries /\ r.items = items[t] /\ r.chars = buffer_[t] /\ r.placed = placed[t]
  BY DEF IInv, FieldsOK, Entries
<1> HIDE DEF r
<1>5. /\ Len(output') = Len(output) + 1 /\ Len(output) \in Nat
      /\ \A i \in 1 .. Len(output) : output'[i] = output[i]
      /\ output'[Len(output) + 1] = r
  <2>1. output \in Seq(Entries)
    BY DEF IInv, FieldsOK
  <2> QED
    BY <1>1, <1>4, <2>1, AppendSeq
<1>6. next[t] - 1 = Len(items[t])
  <2>1. next[t] <= Len(items[t]) + 1 /\ next[t] \in Nat /\ Len(items[t]) \in Nat
    BY LenProperties DEF IInv, FieldsOK, RecordInv
  <2> QED
    BY <1>1, <2>1
<1>7. AllIn(r.chars, r.placed) /\ Whole(r.items, Len(r.items), r.chars, r.placed)
  BY <1>4, <1>6 DEF ContentInv
<1>8. ASSUME NEW i \in 1 .. Len(output')
      PROVE  /\ AllIn(output'[i].chars, output'[i].placed)
             /\ Whole(output'[i].items, Len(output'[i].items), output'[i].chars, output'[i].placed)
  <2>1. i \in 1 .. Len(output) \/ i = Len(output) + 1
    BY <1>5
  <2>2. CASE i \in 1 .. Len(output)
    BY <1>5, <2>2 DEF ContentInv
  <2>3. CASE i = Len(output) + 1
    BY <1>5, <1>7, <2>3
  <2> QED
    BY <2>1, <2>2, <2>3
<1>9. ASSUME NEW u \in Threads
      PROVE  /\ pc'[u] \notin Busy => buffer_'[u] = <<>>
             /\ pc'[u] = "digits" => Loop(items'[u][next'[u]].value, num'[u], digits'[u])
             /\ AllIn(buffer_'[u], placed'[u])
             /\ Whole(items'[u], next'[u] - 1, buffer_'[u], placed'[u])
  <2>1. CASE u = t
    BY <1>2, <2>1, EmptyRecord DEF Busy
  <2>2. CASE u # t
    BY <1>3, <2>2 DEF ContentInv
  <2> QED
    BY <2>1, <2>2
<1> QED
  BY <1>8, <1>9 DEF ContentInv

\* Flushing and aborting touch no record.
LEMMA ContentFlush ==
    ASSUME IInv, ContentInv, (\E t \in Threads : flush(t) \/ abort(t)) \/ stdio_writes
    PROVE  ContentInv'
<1>1. UNCHANGED <<items, next, buffer_, num, digits, placed, output>>
  BY DEF flush, abort, stdio_writes, threadVars
<1>2. ASSUME NEW u \in Threads
      PROVE  (pc'[u] \notin Busy => pc[u] \notin Busy) /\ (pc'[u] = "digits" => pc[u] = "digits")
  BY DEF flush, abort, stdio_writes, threadVars, IInv, FieldsOK, Busy
<1> QED
  BY <1>1, <1>2 DEF ContentInv

\* What was streamed is in the buffers and in the output, in every reachable state.
THEOREM ContentInvariant == Spec => []ContentInv
<1>1. IInv /\ ContentInv /\ [Next]_vars /\ IInv' => ContentInv'
  <2> SUFFICES ASSUME IInv, ContentInv, [Next]_vars, IInv' PROVE ContentInv'
    OBVIOUS
  <2>1. ASSUME NEW t \in Threads, LOG(t) PROVE ContentInv'
    BY <2>1, ContentLogger DEF LOG
  <2>2. ASSUME UNCHANGED vars PROVE ContentInv'
    BY <2>2 DEF vars, threadVars, ContentInv
  <2> QED
    BY <2>1, <2>2, ContentAppend, ContentFormat, ContentDigit, ContentDtor, ContentFlush DEF Next
<1> QED
  BY InductiveInvariant, InitContent, <1>1, PTL DEF Spec

\* Every integer that is in a record reads as the number that was streamed, for
\* integers of every width: format_integer divides a negative number as it is,
\* and its table gives the digit of a negative remainder.
THEOREM NumeralsCorrect == Spec => []NumeralsRight
<1>1. IInv /\ ContentInv => NumeralsRight
  <2> SUFFICES ASSUME IInv, ContentInv, NEW r \in Records, NEW p \in ToSet(r.placed),
                      p.item.kind = "int"
               PROVE  IsNumeral(SubSeq(r.chars, p.from, p.to), p.item.value)
    BY DEF NumeralsRight
  <2>1. output \in Seq(Entries)
    BY DEF IInv, FieldsOK
  <2>2. PICK i \in 1 .. Len(output) : r = output[i]
    BY <2>1 DEF Records, ToSet
  <2>3. r.placed \in Seq(Placed)
    <3>1. r \in Entries
      BY <2>1, <2>2, ElementOfSeq
    <3> QED
      BY <3>1 DEF Entries
  <2>4. PICK j \in 1 .. Len(r.placed) : p = r.placed[j]
    BY <2>3 DEF ToSet
  <2>5. AllIn(r.chars, r.placed)
    BY <2>2 DEF ContentInv
  <2>6. PlacedIn(r.chars, p)
    BY <2>4, <2>5 DEF AllIn
  <2> QED
    BY <2>6 DEF PlacedIn
<1> QED
  BY InductiveInvariant, ContentInvariant, <1>1, PTL

\* A record whose items, with the largest numbers, leave MAX_NUM_SIZE bytes of the
\* buffer is written whole: neither append nor a test for MAX_NUM_SIZE drops
\* anything of it, its newline included.
THEOREM ShortRecordsKept == Spec => []ShortRecordsWhole
<1>1. IInv /\ ContentInv => ShortRecordsWhole
  <2> SUFFICES ASSUME IInv, ContentInv, NEW r \in Records, Total(r.items) + MAX_NUM_SIZE <= SIZE
               PROVE  [i \in DOMAIN r.placed |-> r.placed[i].item] = r.items
    BY DEF ShortRecordsWhole
  <2>1. output \in Seq(Entries)
    BY DEF IInv, FieldsOK
  <2>2. PICK i \in 1 .. Len(output) : r = output[i]
    BY <2>1 DEF Records, ToSet
  <2>3. r.items \in Seq(AllItems) /\ r.placed \in Seq(Placed)
    <3>1. r \in Entries
      BY <2>1, <2>2, ElementOfSeq
    <3> QED
      BY <3>1 DEF Entries
  <2>4. Kept(r.items, Len(r.items), r.placed)
    BY <2>2 DEF ContentInv, Whole, Short
  <2>5. DOMAIN r.placed = 1 .. Len(r.items) /\ \A j \in 1 .. Len(r.items) : r.placed[j].item = r.items[j]
    BY <2>3, <2>4, LenProperties DEF Kept
  <2>6. r.items = [j \in 1 .. Len(r.items) |-> r.items[j]]
    BY <2>3
  <2> QED
    BY <2>5, <2>6
<1> QED
  BY InductiveInvariant, ContentInvariant, <1>1, PTL
=============================================================================
