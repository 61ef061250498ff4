------------------------------ MODULE Logging ------------------------------
(***************************************************************************)
(* The logger (include/log/, src/log/): every LOG_ macro makes a logger,   *)
(* whose constructor streams a prefix into a buffer of fixed size, the     *)
(* user streams the message, and the destructor adds the newline, gives    *)
(* the record to the output in one call and, for FATAL, flushes and        *)
(* aborts.  An item that does not fit is dropped, whole, and the next one  *)
(* is tried.  Several threads log; stdout is a buffer they share.          *)
(*                                                                         *)
(* A text is its length; a number is formatted digit by digit.  The test   *)
(* of the level in LOG_DEBUG and LOG_INFO is cai::logger::loglevel(),      *)
(* which makes a value of the enumeration (TRACE) and does not read        *)
(* g_loglevel: it always holds, so every macro logs.                       *)
(***************************************************************************)
EXTENDS Integers, Sequences, FiniteSets, SequencesExt

CONSTANTS Threads, NoThread,
          SIZE,          \* KB_BUFFER_SIZE
          MAX_NUM_SIZE,
          Messages,      \* Messages[t]: what the code of t streams, sequences of items
          Head1, Head2,  \* the prefix before and after the line number: lengths
          Line,          \* __LINE__
          MaxNumber,     \* no integer type has a greater absolute value
          MaxRecords     \* bound: records of each thread

ASSUME LoggingAssumption ==
    /\ NoThread \notin Threads
    /\ SIZE \in Nat \ {0} /\ MAX_NUM_SIZE \in Nat \ 0 .. 2 /\ MaxRecords \in Nat
    /\ Head1 \in Nat /\ Head2 \in Nat

\* Left[k]: the most that k divisions by 10 leave of a number.
Left ==
    LET left[k \in 0 .. MAX_NUM_SIZE - 2] == IF k = 0 THEN MaxNumber ELSE left[k - 1] \div 10
    IN  left

\* An integer has at most MAX_NUM_SIZE - 2 digits: 20, of the 46 that 48 bytes hold
\* with a sign and one byte to spare.
ASSUME DigitsAssumption == MaxNumber \in Nat /\ Left[MAX_NUM_SIZE - 2] = 0

VARIABLES pc,       \* pc[t]: "idle", "stream", "digits", "flush", "abort"
          level_,   \* level_[t]: "FATAL" or "other"
          items,    \* items[t]: what is streamed into t's record, the newline included
          next,     \* next[t]: the item that is next
          buffer_,  \* buffer_[t]: the characters before cur_
          num,      \* num[t]: what format_integer has still to divide ...
          digits,   \* ... and digits[t], what it has written behind cur_
          placed,   \* history: placed[t], the items in the buffer, and from where to where
          output,   \* stdout: the records given to g_output, with the thread and the level
          flushed,  \* how many of them are out of stdio's buffer
          aborted   \* the thread that has aborted the process, or NoThread

threadVars == <<pc, level_, items, next, buffer_, num, digits, placed>>
vars == <<threadVars, output, flushed, aborted>>

\* Characters: the digits are themselves.
Minus == 10
Other == 11
Newline == 12
Text(len) == [kind |-> "text", value |-> len]
Number(n) == [kind |-> "int", value |-> n]
Double(len) == [kind |-> "double", value |-> len]
End == [kind |-> "end", value |-> 1]

\* What the code of a thread may stream: "%.12g" gives less than MAX_NUM_SIZE characters.
Items ==
    [kind : {"text"}, value : Nat] \cup
    [kind : {"int"}, value : -MaxNumber .. MaxNumber] \cup
    [kind : {"double"}, value : 0 .. MAX_NUM_SIZE - 1]

ASSUME MessagesAssumption ==
    /\ Line \in 0 .. MaxNumber
    /\ \A t \in Threads : \A msg \in Messages[t] : msg \in Seq(Items)

size(t) == SIZE - Len(buffer_[t])

\* The values each variable may have; the buffer is never quite full, so what
\* its pointers delimit is inside of the array.
TypeOK ==
    /\ pc \in [Threads -> {"idle", "stream", "digits", "flush", "abort"}]
    /\ level_ \in [Threads -> {"FATAL", "other"}]
    /\ \A t \in Threads :
         /\ next[t] \in 1 .. Len(items[t]) + 1
         /\ buffer_[t] \in Seq(0 .. 12)
         /\ num[t] \in Int /\ digits[t] \in Seq(0 .. 12) /\ size(t) > Len(digits[t])
         /\ Len(placed[t]) < next[t]
    /\ flushed \in 0 .. Len(output)
    /\ aborted \in Threads \cup {NoThread}
Init ==
    /\ pc = [t \in Threads |-> "idle"]
    /\ level_ = [t \in Threads |-> "other"]
    /\ items = [t \in Threads |-> <<>>]
    /\ next = [t \in Threads |-> 1]
    /\ buffer_ = [t \in Threads |-> <<>>]
    /\ num = [t \in Threads |-> 0]
    /\ digits = [t \in Threads |-> <<>>]
    /\ placed = [t \in Threads |-> <<>>]
    /\ output = <<>>
    /\ flushed = 0
    /\ aborted = NoThread

----------------------------------------------------------------------------
(* logstream and fixedbuffer.                                              *)

\* cur_ moves over the characters cs of the current item.
add(t, cs) ==
    /\ buffer_' = [buffer_ EXCEPT ![t] = @ \o cs]
    /\ placed' = [placed EXCEPT ![t] = Append(@, [item |-> items[t][next[t]],
                     from |-> Len(buffer_[t]) + 1, to |-> Len(buffer_[t]) + Len(cs)])]

\* t streams an item of one of these kinds.
Streams(t, kinds) ==
    /\ aborted = NoThread
    /\ pc[t] = "stream" /\ next[t] <= Len(items[t])
    /\ items[t][next[t]].kind \in kinds

\* The current item is done with, placed or dropped.
Advance(t) ==
    /\ next' = [next EXCEPT ![t] = @ + 1]
    /\ pc' = [pc EXCEPT ![t] = "stream"]
    /\ UNCHANGED <<level_, items, output, flushed, aborted>>

\* Mutants: the last byte is used, two bytes are kept, the wrong end is compared.
fits_OrEqual(t, len) == size(t) >= len
fits_KeepsTwo(t, len) == size(t) > len + 1
fits_Used(t, len) == Len(buffer_[t]) >= len

\* append's test: one byte is always left.
fits(t, len) == size(t) > len

\* operator<< of strings, characters and gtemplate: append.
append(t) ==
    /\ Streams(t, {"text", "end"})
    /\ LET it == items[t][next[t]]
           c == IF it.kind = "end" THEN Newline ELSE Other
       IN  IF fits(t, it.value) THEN add(t, [i \in 1 .. it.value |-> c])
                                ELSE UNCHANGED <<buffer_, placed>>
    /\ Advance(t)
    /\ UNCHANGED <<num, digits>>

\* operator<< of a number, when there is no room for the longest one.
drop_number(t) ==
    /\ Streams(t, {"int", "double"})
    /\ size(t) < MAX_NUM_SIZE
    /\ Advance(t)
    /\ UNCHANGED <<buffer_, placed, num, digits>>

\* operator<<(double): snprintf to cur_.
format_double(t) ==
    /\ Streams(t, {"double"})
    /\ size(t) >= MAX_NUM_SIZE
    /\ add(t, [i \in 1 .. items[t][next[t]].value |-> Other])
    /\ Advance(t)
    /\ UNCHANGED <<num, digits>>

\* format_integer up to its loop.
format_integer(t) ==
    /\ Streams(t, {"int"})
    /\ size(t) >= MAX_NUM_SIZE
    /\ pc' = [pc EXCEPT ![t] = "digits"]
    /\ num' = [num EXCEPT ![t] = items[t][next[t]].value]
    /\ UNCHANGED <<level_, items, next, buffer_, digits, placed, output, flushed, aborted>>

\* num / 10 and num % 10, which truncate towards zero.
quotient(n) == IF n < 0 THEN -((-n) \div 10) ELSE n \div 10
remainder(n) == n - 10 * quotient(n)

\* zero[remainder]: the table has the digits on both sides of zero.
zero(r) == <<9, 8, 7, 6, 5, 4, 3, 2, 1, 0, 1, 2, 3, 4, 5, 6, 7, 8, 9>>[10 + r]

\* Mutant: the sign is looked for when the number has been divided down to 0.
sign_Late(n) == <<>>

\* "negative", which was taken from the number before the loop.
sign(n) == IF n < 0 THEN <<Minus>> ELSE <<>>

\* One turn of the do loop, and after the last one the sign, the reversal and add.
digit(t) ==
    LET ds == Append(digits[t], zero(remainder(num[t])))
        q == quotient(num[t])
    IN  /\ pc[t] = "digits" /\ aborted = NoThread
        /\ num' = [num EXCEPT ![t] = q]
        /\ IF q # 0
             THEN /\ digits' = [digits EXCEPT ![t] = ds]
                  /\ UNCHANGED <<pc, level_, items, next, buffer_, placed, output, flushed, aborted>>
             ELSE /\ add(t, Reverse(ds \o sign(items[t][next[t]].value)))
                  /\ digits' = [digits EXCEPT ![t] = <<>>]
                  /\ Advance(t)

----------------------------------------------------------------------------
(* logger.                                                                 *)

\* What impl::impl streams: the time and the file name, the line, the level.
prefix == <<Text(Head1), Number(Line), Text(Head2)>>

\* What ~logger's finish() streams.
finish == <<End>>

\* logger::logger.
logger(t, msg, level) ==
    /\ aborted = NoThread /\ pc[t] = "idle"
    /\ Cardinality({i \in DOMAIN output : output[i].by = t}) < MaxRecords
    /\ pc' = [pc EXCEPT ![t] = "stream"]
    /\ level_' = [level_ EXCEPT ![t] = level]
    /\ items' = [items EXCEPT ![t] = prefix \o msg \o finish]
    /\ UNCHANGED <<next, buffer_, num, digits, placed, output, flushed, aborted>>

\* A LOG_ macro: of the levels only FATAL is told from the others; the function
\* name of LOG_DEBUG and the text of the formatting macros are items of msg.
LOG(t) == \E msg \in Messages[t], level \in {"FATAL", "other"} : logger(t, msg, level)

\* Mutant: the process is aborted with the output in stdio's buffer.
after_output_NoFlush(level) == IF level = "FATAL" THEN "abort" ELSE "idle"

after_output(level) == IF level = "FATAL" THEN "flush" ELSE "idle"

\* ~logger: the record is complete and goes to g_output.
logger_dtor(t) ==
    /\ aborted = NoThread /\ pc[t] = "stream" /\ next[t] > Len(items[t])
    /\ output' = Append(output, [by |-> t, items |-> items[t], chars |-> buffer_[t], placed |-> placed[t]])
    /\ pc' = [pc EXCEPT ![t] = after_output(level_[t])]
    /\ level_' = [level_ EXCEPT ![t] = "other"]
    /\ items' = [items EXCEPT ![t] = <<>>]
    /\ next' = [next EXCEPT ![t] = 1]
    /\ buffer_' = [buffer_ EXCEPT ![t] = <<>>]
    /\ placed' = [placed EXCEPT ![t] = <<>>]
    /\ UNCHANGED <<num, digits, flushed, aborted>>

\* g_flush.
flush(t) ==
    /\ aborted = NoThread /\ pc[t] = "flush"
    /\ flushed' = Len(output)
    /\ pc' = [pc EXCEPT ![t] = "abort"]
    /\ UNCHANGED <<level_, items, next, buffer_, num, digits, placed, output, aborted>>

abort(t) ==
    /\ aborted = NoThread /\ pc[t] = "abort"
    /\ aborted' = t
    /\ UNCHANGED <<threadVars, output, flushed>>

\* stdio writes its buffer when it is full (external).
stdio_writes ==
    /\ aborted = NoThread
    /\ flushed < Len(output)
    /\ flushed' = Len(output)
    /\ UNCHANGED <<threadVars, output, aborted>>

----------------------------------------------------------------------------
Next ==
    \/ \E t \in Threads :
         \/ LOG(t) \/ append(t) \/ drop_number(t) \/ format_double(t) \/ format_integer(t) \/ digit(t)
         \/ logger_dtor(t) \/ flush(t) \/ abort(t)
    \/ stdio_writes

Spec == Init /\ [][Next]_vars

----------------------------------------------------------------------------
(* Properties.                                                             *)

Records == ToSet(output)

\* The number that was read, when c comes next.
ReadOn(number, c) == IF c = Minus THEN number ELSE 10 * number + c

\* Weight(cs)[n]: the number the first n characters stand for, without the sign.
Weight(cs) ==
    LET weight[n \in 0 .. Len(cs)] ==
          IF n = 0 THEN 0 ELSE ReadOn(weight[n - 1], cs[n])
    IN  weight

\* The number a numeral stands for.
Value(cs) == LET v == Weight(cs)[Len(cs)] IN IF cs[1] = Minus THEN -v ELSE v

\* cs is n, with a sign in front only and without leading zeroes.
IsNumeral(cs, n) ==
    /\ Value(cs) = n
    /\ \A i \in 2 .. Len(cs) : cs[i] # Minus
    /\ cs[1] = 0 => Len(cs) = 1
    /\ Len(cs) > 1 /\ cs[1] = Minus => cs[2] # 0

\* Every integer in a record reads as the number that was streamed, without
\* leading zeroes, the most negative one included (format_integer never negates).
NumeralsRight ==
    \A r \in Records : \A p \in ToSet(r.placed) :
        p.item.kind = "int" => IsNumeral(SubSeq(r.chars, p.from, p.to), p.item.value)

ItemLength(it) == IF it.kind = "int" THEN MAX_NUM_SIZE ELSE it.value

\* Sums(its)[n]: the length of the first n items.
Sums(its) ==
    LET sum[n \in 0 .. Len(its)] == IF n = 0 THEN 0 ELSE sum[n - 1] + ItemLength(its[n])
    IN  sum
Total(its) == Sums(its)[Len(its)]

\* A record that is short enough loses nothing: when its items, with the largest
\* numbers, leave MAX_NUM_SIZE bytes, all of them are in it, in order, newline included.
ShortRecordsWhole ==
    \A r \in Records :
        Total(r.items) + MAX_NUM_SIZE <= SIZE => [i \in DOMAIN r.placed |-> r.placed[i].item] = r.items

\* finish() appends the newline like anything else: a record ends without one,
\* and runs into the next, only when exactly one byte was left.
UnterminatedOnlyWhenFull ==
    \A r \in Records : r.chars[Len(r.chars)] = Newline \/ Len(r.chars) = SIZE - 1

\* When the process is aborted by a FATAL record, that record and all that were
\* given to the output before it have been written.
FatalFlushed == \A i \in DOMAIN output : output[i].by = aborted => i <= flushed
=============================================================================
