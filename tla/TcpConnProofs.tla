--------------------------- MODULE TcpConnProofs ---------------------------
(***************************************************************************)
(* Proofs about TcpConn, for any workers, messages, lengths, high-water    *)
(* mark and bound on close callbacks.                                      *)
(*                                                                         *)
(* The three safety properties need each other: bytes go straight to the   *)
(* kernel only when nothing is buffered (WritingIffPending), the FIN waits *)
(* for the buffer only because the interest in EPOLLOUT stands for it, and *)
(* nothing is buffered after the FIN because the buffer is empty, so the   *)
(* write is tried and fails.  EstablishFirst says that establish_conn,     *)
(* which sets the interest anew, runs once and before everything else, and *)
(* that nothing runs when the loop has ended.                              *)
(***************************************************************************)
EXTENDS TcpConn, SequenceTheorems, TLAPS

EstablishFirst ==
    /\ state_ = "CONNENTING" =>
         /\ output_buf_ = <<>>
         /\ sock = "open"
         /\ \A t \in Workers : caller[t] = Idle
         /\ loop_ = "runs" => functors # <<>> /\ functors[1].op = "establish"
    /\ loop_ # "runs" =>
         /\ functors = <<>> /\ ~registered /\ serverGone
         /\ \A t \in Workers : caller[t] = Idle
    /\ \A i \in 1 .. Len(functors) :
         functors[i].op = "establish" => i = 1 /\ state_ = "CONNENTING"

Safety == StreamIntegrity /\ WritingIffPending /\ FinMeansDrained

IInv == TypeOK /\ EstablishFirst /\ Safety

----------------------------------------------------------------------------
(* Sequences.                                                              *)

\* A sequence, cut anywhere, is its two parts in order.
LEMMA SplitSeq ==
    ASSUME NEW S, NEW s \in Seq(S), NEW n \in 0 .. Len(s)
    PROVE  /\ SubSeq(s, 1, n) \in Seq(S)
           /\ SubSeq(s, n + 1, Len(s)) \in Seq(S)
           /\ SubSeq(s, n + 1, Len(s)) = <<>> <=> n = Len(s)
           /\ SubSeq(s, 1, n) \o SubSeq(s, n + 1, Len(s)) = s
<1>1. Len(s) \in Nat /\ n \in Nat /\ \A i \in 1 .. Len(s) : s[i] \in S
  OBVIOUS
<1>2. SubSeq(s, 1, n) \in Seq(S)
  BY <1>1, SubSeqProperties
<1>3. /\ SubSeq(s, n + 1, Len(s)) \in Seq(S)
      /\ Len(SubSeq(s, n + 1, Len(s))) = IF n + 1 <= Len(s) THEN Len(s) - (n + 1) + 1 ELSE 0
  BY <1>1, SubSeqProperties
<1>4. SubSeq(s, n + 1, Len(s)) = <<>> <=> n = Len(s)
  <2> DEFINE b == SubSeq(s, n + 1, Len(s))
  <2>1. b = <<>> <=> Len(b) = 0
    BY <1>3, EmptySeq
  <2>2. Len(b) = 0 <=> n = Len(s)
    BY <1>1, <1>3
  <2> QED
    BY <2>1, <2>2
<1>5. SubSeq(s, 1, n) \o SubSeq(s, n + 1, Len(s)) = SubSeq(s, 1, Len(s))
  <2>1. 1 \in 1 .. Len(s) + 1 /\ n \in 1 - 1 .. Len(s) /\ Len(s) \in n .. Len(s)
    BY <1>1
  <2> QED
    BY <2>1, ConcatAdjacentSubSeq, Zenon
<1>6. SubSeq(s, 1, Len(s)) = s
  BY SubSeqFull
<1> QED
  BY <1>2, <1>3, <1>4, <1>5, <1>6

\* Concatenation of byte sequences is associative.
LEMMA ConcatBytes ==
    ASSUME NEW x \in Seq(Bytes), NEW y \in Seq(Bytes), NEW z \in Seq(Bytes)
    PROVE  (x \o y) \o z = x \o (y \o z)
  BY ConcatAssociative

\* Appending keeps the elements and adds one at the end.
LEMMA AppendSeq ==
    ASSUME NEW S, NEW s \in Seq(S), NEW e \in S
    PROVE  /\ Append(s, e) \in Seq(S)
           /\ Append(s, e) # <<>>
           /\ Len(Append(s, e)) = Len(s) + 1
           /\ \A i \in 1 .. Len(s) : Append(s, e)[i] = s[i]
           /\ Append(s, e)[Len(s) + 1] = e
           /\ Len(s) \in Nat
  OBVIOUS

\* A nonempty sequence's head is its first element, its tail the others.
LEMMA TailSeq ==
    ASSUME NEW S, NEW s \in Seq(S), s # <<>>
    PROVE  /\ Head(s) = s[1] /\ Head(s) \in S
           /\ Tail(s) \in Seq(S)
           /\ Len(Tail(s)) = Len(s) - 1
           /\ Len(s) \in Nat \ {0}
           /\ \A i \in 1 .. Len(s) - 1 : Tail(s)[i] = s[i + 1]
  OBVIOUS

\* The bytes of a message are a sequence of its length.
LEMMA DataType ==
    ASSUME NEW m \in Messages
    PROVE  /\ Data(m) \in Seq(Bytes)
           /\ Len(Data(m)) = Length[m]
           /\ Length[m] \in Nat \ {0}
<1>1. Length[m] \in Nat \ {0}
  BY LengthAssumption
<1>2. \A i \in 1 .. Length[m] : <<IF m \in freed THEN Garbage ELSE m, i>> \in Bytes
  BY <1>1 DEF Bytes
<1> QED
  BY <1>1, <1>2 DEF Data

----------------------------------------------------------------------------
(* send_in_loop.                                                           *)

\* What send_in_loop does to the types and to the queue.
LEMMA SendTypes ==
    ASSUME TypeOK, NEW m \in Messages, NEW q \in Seq(Functors), send_in_loop(m, q)
    PROVE  /\ events_' \subseteq {"read", "write"}
           /\ registered' \in BOOLEAN
           /\ output_buf_' \in Seq(Bytes) /\ wire' \in Seq(Bytes) /\ accepted' \in Seq(Bytes)
           /\ functors' \in Seq(Functors)
           /\ told' \in Nat
           /\ \/ functors' = q
              \/ functors' = Append(q, [op |-> "write_complete"])
              \/ functors' = Append(q, [op |-> "high_water_mark"])
           /\ UNCHANGED <<state_, freed, sock, peer, closes, removals, serverGone, loop_, closed,
                         downTold>>
<1> DEFINE direct == ~is_writing /\ output_buf_ = <<>>
<1>1. /\ [op |-> "write_complete"] \in Functors
      /\ [op |-> "high_water_mark"] \in Functors
  BY DEF Functors
<1>2. Data(m) \in Seq(Bytes) /\ Len(Data(m)) = Length[m] /\ Length[m] \in Nat \ {0}
  BY DataType
<1>3. CASE state_ = "DISCONNECTED" /\ functors' = q /\ UNCHANGED <<events_, registered, dataVars>>
  BY <1>3 DEF send_in_loop, TypeOK, dataVars
<1>4. CASE /\ state_ # "DISCONNECTED" /\ direct /\ WriteFails
           /\ functors' = q
           /\ UNCHANGED <<events_, registered, output_buf_, wire, accepted, told>>
  BY <1>4 DEF send_in_loop, TypeOK
<1>5. ASSUME NEW n \in 0 .. Length[m], take(m, n, direct, q)
      PROVE  /\ events_' \subseteq {"read", "write"}
             /\ registered' \in BOOLEAN
             /\ output_buf_' \in Seq(Bytes) /\ wire' \in Seq(Bytes) /\ accepted' \in Seq(Bytes)
             /\ functors' \in Seq(Functors)
             /\ told' \in Nat
             /\ \/ functors' = q
                \/ functors' = Append(q, [op |-> "write_complete"])
                \/ functors' = Append(q, [op |-> "high_water_mark"])
  <2>1. SubSeq(Data(m), 1, n) \in Seq(Bytes) /\ remaining(m, n) \in Seq(Bytes)
    BY <1>2, SplitSeq DEF remaining
  <2>2. wire' \in Seq(Bytes) /\ accepted' \in Seq(Bytes)
    BY <1>2, <1>5, <2>1, ConcatProperties DEF take, TypeOK
  <2>3. CASE complete(m, n, direct, q)
    BY <1>1, <1>5, <2>2, <2>3 DEF complete, TypeOK
  <2>4. CASE append(m, n, q)
    <3>1. output_buf_' \in Seq(Bytes)
      BY <2>1, <2>4, ConcatProperties DEF append, TypeOK
    <3>2. events_' \subseteq {"read", "write"} /\ registered' \in BOOLEAN
      BY <2>4 DEF append, enable_writing, TypeOK
    <3>3. told' \in Nat
      BY <2>4 DEF append, TypeOK, crosses_mark
    <3> QED
      BY <1>1, <1>5, <2>2, <2>4, <3>1, <3>2, <3>3 DEF append, TypeOK
  <2> QED
    BY <1>5, <2>3, <2>4 DEF take
<1>6. UNCHANGED <<state_, freed, sock, peer, closes, removals, serverGone, loop_, closed,
                         downTold>>
  BY DEF send_in_loop
<1>7. CASE \E n \in 0 .. IF direct THEN Length[m] ELSE 0 : take(m, n, direct, q)
  <2>1. PICK n \in 0 .. IF direct THEN Length[m] ELSE 0 : take(m, n, direct, q)
    BY <1>7
  <2>2. n \in 0 .. Length[m]
    BY <1>2, <2>1
  <2> QED
    BY <1>5, <1>6, <2>1, <2>2
<1> QED
  BY <1>3, <1>4, <1>6, <1>7 DEF send_in_loop

\* send_in_loop preserves the safety properties.
LEMMA SendSafety ==
    ASSUME TypeOK, Safety, NEW m \in Messages, NEW q \in Seq(Functors), send_in_loop(m, q)
    PROVE  Safety'
<1> DEFINE direct == ~is_writing /\ output_buf_ = <<>>
<1>1. CASE UNCHANGED <<events_, output_buf_, wire, accepted>>
  BY <1>1 DEF send_in_loop, Safety, StreamIntegrity, WritingIffPending, FinMeansDrained,
              is_writing
<1>2. Data(m) \in Seq(Bytes) /\ Len(Data(m)) = Length[m] /\ Length[m] \in Nat \ {0}
  BY DataType
<1>3. ASSUME NEW n \in 0 .. Length[m], ~direct => n = 0, direct => ~WriteFails,
             take(m, n, direct, q)
      PROVE  Safety'
  <2> DEFINE a == SubSeq(Data(m), 1, n)
             b == remaining(m, n)
  <2>1. /\ a \in Seq(Bytes) /\ b \in Seq(Bytes)
        /\ b = <<>> <=> n = Length[m]
        /\ a \o b = Data(m)
    <3>1. n \in 0 .. Len(Data(m)) /\ b = SubSeq(Data(m), n + 1, Len(Data(m)))
      BY <1>2 DEF remaining
    <3>2. /\ a \in Seq(Bytes) /\ SubSeq(Data(m), n + 1, Len(Data(m))) \in Seq(Bytes)
          /\ SubSeq(Data(m), n + 1, Len(Data(m))) = <<>> <=> n = Len(Data(m))
          /\ a \o SubSeq(Data(m), n + 1, Len(Data(m))) = Data(m)
      BY <1>2, <3>1, SplitSeq, Zenon
    <3> QED
      BY <1>2, <3>1, <3>2, Zenon
  <2>2. output_buf_' = output_buf_ \o b
    <3>1. CASE complete(m, n, direct, q)
      BY <3>1, ConcatEmptySeq DEF complete, TypeOK
    <3>2. CASE append(m, n, q)
      BY <3>2 DEF append
    <3> QED
      BY <1>3, <3>1, <3>2 DEF take
  <2>3. a = <<>> \/ output_buf_ = <<>>
    BY <1>2, <1>3, SubSeqEmpty
  <2>4. a \o (output_buf_ \o b) = output_buf_ \o Data(m)
    <3>1. CASE a = <<>>
      <4>1. output_buf_ \in Seq(Bytes) /\ output_buf_ \o b \in Seq(Bytes)
        BY <2>1, ConcatProperties DEF TypeOK
      <4>2. <<>> \o (output_buf_ \o b) = output_buf_ \o b /\ <<>> \o b = b
        BY <2>1, <4>1, ConcatEmptySeq, Zenon
      <4> QED
        BY <2>1, <3>1, <4>2, Zenon
    <3>2. CASE output_buf_ = <<>>
      BY <1>2, <2>1, <3>2, ConcatEmptySeq
    <3> QED
      BY <2>3, <3>1, <3>2
  <2>5. StreamIntegrity'
    <3> DEFINE ob == output_buf_ \o b
    <3>1. wire' = wire \o a /\ accepted' = accepted \o Data(m) /\ output_buf_' = ob
      BY <1>3, <2>2 DEF take
    <3>2. ob \in Seq(Bytes)
      BY <2>1, ConcatProperties DEF TypeOK
    <3> HIDE DEF ob, a, b
    <3>5. wire \in Seq(Bytes) /\ output_buf_ \in Seq(Bytes)
      BY DEF TypeOK
    <3>3. (wire \o a) \o ob = wire \o (a \o ob)
      BY <2>1, <3>2, <3>5, ConcatBytes
    <3>4. (wire \o output_buf_) \o Data(m) = wire \o (output_buf_ \o Data(m))
      BY <1>2, <3>5, ConcatBytes
    <3> QED
      BY <2>4, <3>1, <3>3, <3>4 DEF Safety, StreamIntegrity, ob, a, b
  <2>6. WritingIffPending'
    <3>1. CASE complete(m, n, direct, q)
      BY <1>3, <3>1 DEF complete, Safety, WritingIffPending, is_writing, send_in_loop
    <3>2. CASE append(m, n, q)
      <4>1. output_buf_' # <<>>
        BY <2>1, <2>2, <3>2, ConcatEqualIffEmpty DEF append, TypeOK
      <4>2. is_writing'
        BY <3>2 DEF append, enable_writing, is_writing
      <4> QED
        BY <4>1, <4>2 DEF WritingIffPending
    <3> QED
      BY <1>3, <3>1, <3>2 DEF take
  <2>7. FinMeansDrained'
    <3>1. sock' = "fin" /\ ~closed' => direct
      BY DEF send_in_loop, Safety, WritingIffPending, FinMeansDrained
    <3> QED
      BY <1>3, <3>1 DEF send_in_loop, WriteFails, FinMeansDrained
  <2> QED
    BY <2>5, <2>6, <2>7 DEF Safety
<1> QED
  <2>1. CASE state_ = "DISCONNECTED" /\ UNCHANGED dataVars /\ UNCHANGED events_
    BY <1>1, <2>1 DEF dataVars
  <2>2. CASE \E n \in 0 .. IF direct THEN Length[m] ELSE 0 :
                (direct => ~WriteFails) /\ take(m, n, direct, q)
    BY <1>2, <1>3, <2>2
  <2> QED
    BY <1>1, <2>1, <2>2 DEF send_in_loop

----------------------------------------------------------------------------
(* The steps.                                                              *)

\* The initial state satisfies the inductive invariant.
LEMMA InitIInv == Init => IInv
<1> SUFFICES ASSUME Init PROVE IInv
  OBVIOUS
<1>1. [op |-> "establish"] \in Functors /\ Idle \in Calls
  BY DEF Functors, Calls, Idle
<1>2. <<>> \in Seq(Bytes) /\ <<[op |-> "establish"]>> \in Seq(Functors)
  BY <1>1
<1>3. TypeOK
  <2>1. caller \in [Workers -> Calls]
    BY <1>1 DEF Init
  <2>2. closes \in 0 .. MaxCloses /\ removals \in 0 .. closes
    BY BoundAssumption DEF Init
  <2>3. output_buf_ \in Seq(Bytes) /\ wire \in Seq(Bytes) /\ accepted \in Seq(Bytes)
        /\ functors \in Seq(Functors)
    BY <1>2 DEF Init
  <2> QED
    BY <2>1, <2>2, <2>3 DEF Init, TypeOK, States
<1>4. EstablishFirst
  BY DEF Init, EstablishFirst
<1>5. Safety
  <2>1. <<>> \o <<>> = <<>>
    BY <1>2, ConcatEmptySeq
  <2> QED
    BY <2>1 DEF Init, Safety, StreamIntegrity, WritingIffPending, FinMeansDrained, is_writing
<1> QED
  BY <1>3, <1>4, <1>5 DEF IInv

\* The functors and calls that the actions build have their types.
LEMMA RecordTypes ==
    /\ \A m \in Messages : [op |-> "send", msg |-> m] \in Functors \cap Calls
    /\ [op |-> "shutdown"] \in Functors
    /\ [op |-> "destroy"] \in Functors
    /\ [op |-> "write_complete"] \in Functors
    /\ [op |-> "high_water_mark"] \in Functors
    /\ Idle \in Calls
    /\ [op |-> "shutdown_store"] \in Calls
    /\ [op |-> "shutdown_queue"] \in Calls
    /\ \A c \in Calls : c.op = "send" => c \in Functors
    /\ \A f \in Functors : f.op = "send" => f.msg \in Messages
  BY DEF Functors, Calls, Idle

\* Executing the next functor: its type, and the queue without it.
LEMMA RunsTypes ==
    ASSUME TypeOK, NEW op, Runs(op)
    PROVE  /\ Head(functors) \in Functors /\ Tail(functors) \in Seq(Functors)
           /\ functors # <<>> /\ functors[1].op = op
  BY TailSeq DEF Runs, TypeOK

\* Every step preserves the type invariant.
LEMMA TypeStep == IInv /\ [Next]_vars => TypeOK'
<1> SUFFICES ASSUME TypeOK, EstablishFirst, [Next]_vars PROVE TypeOK'
  BY DEF IInv
<1> USE RecordTypes
<1>1. ASSUME NEW t \in Workers, NEW m \in Messages, send(t, m) PROVE TypeOK'
  BY <1>1 DEF send, TypeOK, connVars
<1>2. ASSUME NEW t \in Workers, send_queue(t) PROVE TypeOK'
  <2>1. caller[t] \in Functors
    BY <1>2 DEF send_queue, TypeOK
  <2> QED
    BY <1>2, <2>1 DEF send_queue, TypeOK, connVars
<1>3. ASSUME NEW m \in Messages, free_string(m) PROVE TypeOK'
  BY <1>3 DEF free_string, TypeOK, connVars
<1>4. ASSUME NEW t \in Workers, shutdown(t) PROVE TypeOK'
  BY <1>4 DEF shutdown, TypeOK, connVars
<1>5. ASSUME NEW t \in Workers, shutdown_store(t) PROVE TypeOK'
  BY <1>5 DEF shutdown_store, TypeOK, States
<1>6. ASSUME NEW t \in Workers, shutdown_queue(t) PROVE TypeOK'
  BY <1>6 DEF shutdown_queue, TypeOK, connVars
<1>7. CASE establish_conn
  BY <1>7, RunsTypes DEF establish_conn, TypeOK, States
<1>8. CASE RunSend
  <2>1. Head(functors).msg \in Messages /\ Tail(functors) \in Seq(Functors)
    BY <1>8, RunsTypes DEF RunSend, Runs
  <2>2. state_ # "CONNENTING"
    BY <1>8, RunsTypes DEF RunSend, EstablishFirst
  <2> QED
    BY <1>8, <2>1, <2>2, SendTypes DEF RunSend, TypeOK
<1>9. CASE RunShutdown
  BY <1>9, RunsTypes DEF RunShutdown, shutdown_in_loop, shutdown_write, TypeOK, connVars
<1>10. CASE RunCallback
  BY <1>10, RunsTypes DEF RunCallback, TypeOK, connVars
<1>11. CASE destroy_conn
  BY <1>11, RunsTypes DEF destroy_conn, TypeOK, States
<1>12. CASE handle_close
  BY <1>12, BoundAssumption DEF handle_close, TypeOK, States
<1>13. ASSUME NEW n \in 1 .. Len(output_buf_), handle_write(n) PROVE TypeOK'
  <2>1. /\ SubSeq(output_buf_, 1, n) \in Seq(Bytes)
        /\ SubSeq(output_buf_, n + 1, Len(output_buf_)) \in Seq(Bytes)
    BY SplitSeq DEF TypeOK
  <2>2. wire' \in Seq(Bytes) /\ output_buf_' \in Seq(Bytes)
    BY <1>13, <2>1, ConcatProperties DEF handle_write, TypeOK
  <2>5. told' \in Nat
    <3>1. told \in Nat /\ told' = IF Len(output_buf_') >= HighWaterMark THEN told ELSE 0
      BY <1>13 DEF handle_write, TypeOK
    <3> QED
      BY ONLY <3>1
  <2>6. sock' \in {"open", "fin"}
    BY <1>13 DEF handle_write, drained, shutdown_write, TypeOK
  <2>3. functors' \in Seq(Functors)
    <3>1. functors' = functors \/ functors' = Append(functors, [op |-> "write_complete"])
      BY <1>13 DEF handle_write
    <3>2. functors \in Seq(Functors) /\ [op |-> "write_complete"] \in Functors
      BY DEF TypeOK
    <3>3. Append(functors, [op |-> "write_complete"]) \in Seq(Functors)
      BY ONLY <3>2, AppendSeq
    <3> QED
      BY ONLY <3>1, <3>2, <3>3
  <2>4. events_' \subseteq events_
    BY <1>13 DEF handle_write, disable_writing
  <2> QED
    BY <1>13, <2>2, <2>3, <2>4, <2>5, <2>6 DEF handle_write, TypeOK
<1>14. ASSUME NEW m \in Messages, callback_send(m) PROVE TypeOK'
  <2>1. functors \in Seq(Functors)
    BY DEF TypeOK
  <2> QED
    BY <1>14, <2>1, SendTypes DEF callback_send, TypeOK
<1>15. CASE callback_shutdown
  BY <1>15 DEF callback_shutdown, shutdown_in_loop, shutdown_write, TypeOK, States
<1>16. CASE remove_conn_in_loop
  BY <1>16 DEF remove_conn_in_loop, TypeOK, connVars
<1>17. CASE server_dtor
  BY <1>17 DEF server_dtor, TypeOK, connVars
<1>20. CASE loop_ends
  <2>1. <<>> \in Seq(Functors)
    OBVIOUS
  <2>2. loop_' \in {"runs", "ended", "dropped"}
    BY <1>20 DEF loop_ends
  <2>3. functors' \in Seq(Functors) /\ registered' \in BOOLEAN
        /\ (state_ = "CONNENTING" => ~registered')
    BY <1>20, <2>1 DEF loop_ends
  <2> QED
    BY <1>20, <2>2, <2>3 DEF loop_ends, TypeOK
<1>18. CASE peer_closes
  BY <1>18 DEF peer_closes, TypeOK, connVars
<1>19. CASE UNCHANGED vars
  BY <1>19 DEF vars, TypeOK
<1> QED
  BY <1>1, <1>2, <1>3, <1>4, <1>5, <1>6, <1>7, <1>8, <1>9, <1>10, <1>11, <1>12, <1>13,
     <1>14, <1>15, <1>16, <1>17, <1>18, <1>19, <1>20
     DEF Next, Worker, WorkerStep, RunFunctor, HandleWrite, Callback, Environment,
         handle_read, handle_hup

\* Every step preserves EstablishFirst.
LEMMA EstablishStep == IInv /\ [Next]_vars => EstablishFirst'
<1> SUFFICES ASSUME TypeOK, EstablishFirst, [Next]_vars PROVE EstablishFirst'
  BY DEF IInv
<1>0. functors \in Seq(Functors) /\ Len(functors) \in Nat
  BY DEF TypeOK
\* An action that queues a functor.
<1>1. ASSUME NEW f \in Functors, f.op # "establish",
             functors' = Append(functors, f),
             state_' = state_ \/ (state_ # "CONNENTING" /\ state_' # "CONNENTING"),
             state_ = "CONNENTING" => UNCHANGED <<output_buf_, sock, caller>>,
             loop_ = "runs", UNCHANGED loop_
      PROVE  EstablishFirst'
  BY <1>0, <1>1, AppendSeq DEF EstablishFirst
\* An action that leaves the queue alone.
<1>2. ASSUME UNCHANGED functors,
             state_' = state_ \/ (state_ # "CONNENTING" /\ state_' # "CONNENTING"),
             state_ = "CONNENTING" => UNCHANGED <<output_buf_, sock, caller>>,
             UNCHANGED loop_, loop_ = "runs" \/ UNCHANGED <<registered, serverGone, caller>>
      PROVE  EstablishFirst'
  BY <1>2 DEF EstablishFirst
\* The execution of a functor, and what it queues.
<1>3. ASSUME functors # <<>>, state_' # "CONNENTING", UNCHANGED loop_,
             \/ functors' = Tail(functors)
             \/ functors' = Append(Tail(functors), [op |-> "write_complete"])
             \/ functors' = Append(Tail(functors), [op |-> "high_water_mark"])
      PROVE  EstablishFirst'
  <2> DEFINE q == Tail(functors)
  <2>1. /\ q \in Seq(Functors) /\ Len(q) = Len(functors) - 1
        /\ \A i \in 1 .. Len(q) : q[i] = functors[i + 1]
    BY <1>0, <1>3, TailSeq
  <2>2. \A i \in 1 .. Len(q) : q[i].op # "establish"
    BY <1>0, <2>1 DEF EstablishFirst
  <2> HIDE DEF q
  <2>3. \A i \in 1 .. Len(functors') : functors'[i].op # "establish"
    <3>1. CASE functors' = q
      BY <2>2, <3>1
    <3>2. ASSUME NEW f \in Functors, f.op # "establish", functors' = Append(q, f)
          PROVE  \A i \in 1 .. Len(functors') : functors'[i].op # "establish"
      BY <2>1, <2>2, <3>2, AppendSeq
    <3>3. /\ [op |-> "write_complete"] \in Functors
          /\ [op |-> "high_water_mark"] \in Functors
      BY RecordTypes
    <3> QED
      BY <1>3, <3>1, <3>2, <3>3 DEF q
  <2> QED
    BY <1>3, <2>3 DEF EstablishFirst
<1>4. \A t \in Workers : caller[t] # Idle => state_ # "CONNENTING" /\ loop_ = "runs"
  BY DEF EstablishFirst
<1>18. registered \/ ~serverGone => loop_ = "runs"
  BY DEF EstablishFirst
<1>5. \A op : Runs(op) => functors # <<>> /\ (state_ = "CONNENTING" => op = "establish")
  BY RunsTypes DEF EstablishFirst
<1>6. ASSUME NEW t \in Workers, Worker(t) PROVE EstablishFirst'
  <2>1. ASSUME NEW m \in Messages, send(t, m) PROVE EstablishFirst'
    BY <1>2, <2>1 DEF send, connVars
  <2>2. CASE send_queue(t)
    <3>1. caller[t] \in Functors /\ caller[t].op # "establish" /\ caller[t] # Idle
      BY <2>2, RecordTypes DEF send_queue, TypeOK, Idle
    <3> QED
      BY <1>1, <1>4, <2>2, <3>1 DEF send_queue, connVars
  <2>3. CASE shutdown(t)
    BY <1>2, <2>3 DEF shutdown, connVars
  <2>4. CASE shutdown_store(t)
    <3>1. state_ # "CONNENTING" /\ loop_ = "runs"
      BY <1>4, <2>4 DEF shutdown_store, Idle
    <3> QED
      BY <1>2, <2>4, <3>1 DEF shutdown_store
  <2>5. CASE shutdown_queue(t)
    <3>1. state_ # "CONNENTING" /\ loop_ = "runs"
      BY <1>4, <2>5 DEF shutdown_queue, Idle
    <3> QED
      BY <1>1, <2>5, <3>1, RecordTypes DEF shutdown_queue, connVars
  <2> QED
    BY <1>6, <2>1, <2>2, <2>3, <2>4, <2>5 DEF Worker, WorkerStep
<1>7. CASE establish_conn
  BY <1>3, <1>7, RunsTypes DEF establish_conn
<1>8. CASE RunSend
  <2>1. state_ # "CONNENTING" /\ functors # <<>>
    BY <1>5, <1>8 DEF RunSend
  <2>2. Head(functors).msg \in Messages /\ Tail(functors) \in Seq(Functors)
    BY <1>8, RunsTypes, RecordTypes DEF RunSend, Runs
  <2> QED
    BY <1>3, <1>8, <2>1, <2>2, SendTypes DEF RunSend
<1>9. CASE RunShutdown
  BY <1>3, <1>5, <1>9 DEF RunShutdown, connVars
<1>10. CASE RunCallback
  BY <1>3, <1>5, <1>10 DEF RunCallback, connVars
<1>11. CASE destroy_conn
  BY <1>3, <1>5, <1>11 DEF destroy_conn
<1>12. CASE handle_read \/ handle_hup
  <2>1. state_ # "CONNENTING" /\ loop_ = "runs"
    BY <1>12, <1>18 DEF handle_read, handle_hup, TypeOK
  <2> QED
    BY <1>2, <1>12, <2>1 DEF handle_read, handle_hup, handle_close
<1>13. ASSUME NEW n \in 1 .. Len(output_buf_), handle_write(n) PROVE EstablishFirst'
  <2>1. state_ # "CONNENTING" /\ loop_ = "runs"
    BY <1>13, <1>18 DEF handle_write, TypeOK
  <2> QED
    BY <1>1, <1>2, <1>13, <2>1, RecordTypes DEF handle_write
<1>14. ASSUME NEW m \in Messages, callback_send(m) PROVE EstablishFirst'
  BY <1>0, <1>1, <1>2, <1>14, SendTypes, RecordTypes DEF callback_send
<1>15. CASE callback_shutdown
  BY <1>2, <1>15 DEF callback_shutdown
<1>16. CASE Environment
  <2>1. CASE loop_ends
    BY <2>1 DEF loop_ends, EstablishFirst
  <2>2. CASE remove_conn_in_loop \/ server_dtor
    BY <1>1, <1>2, <1>18, <2>2, RecordTypes DEF remove_conn_in_loop, server_dtor, connVars
  <2>3. CASE peer_closes \/ \E m \in Messages : free_string(m)
    BY <1>2, <2>3 DEF peer_closes, free_string, connVars
  <2> QED
    BY <1>16, <2>1, <2>2, <2>3 DEF Environment
<1>17. CASE UNCHANGED vars
  BY <1>2, <1>17 DEF vars
<1> QED
  BY <1>6, <1>7, <1>8, <1>9, <1>10, <1>11, <1>12, <1>13, <1>14, <1>15, <1>16, <1>17
     DEF Next, RunFunctor, HandleWrite, Callback

\* Every step preserves the safety properties.
LEMMA SafetyStep == IInv /\ [Next]_vars => Safety'
<1> SUFFICES ASSUME TypeOK, EstablishFirst, Safety, [Next]_vars PROVE Safety'
  BY DEF IInv
<1> USE DEF Safety, StreamIntegrity, WritingIffPending, FinMeansDrained, is_writing
\* An action that touches neither the output nor the socket.
<1>1. ASSUME UNCHANGED <<output_buf_, wire, accepted>>,
             closed' \/ UNCHANGED <<events_, sock, closed>>
      PROVE  Safety'
  BY <1>1
<1>2. ASSUME NEW t \in Workers, Worker(t) PROVE Safety'
  BY <1>1, <1>2 DEF Worker, WorkerStep, send, send_queue, shutdown, shutdown_store,
                    shutdown_queue, connVars
<1>3. CASE establish_conn
  <2>1. functors # <<>> /\ functors[1].op = "establish"
    BY <1>3, RunsTypes DEF establish_conn
  <2>2. 1 \in 1 .. Len(functors)
    BY <2>1, TailSeq DEF TypeOK
  <2>3. state_ = "CONNENTING"
    BY <2>1, <2>2 DEF EstablishFirst
  <2> QED
    BY <1>3, <2>3 DEF establish_conn, EstablishFirst
<1>4. CASE RunSend
  <2>1. Head(functors).msg \in Messages /\ Tail(functors) \in Seq(Functors)
    BY <1>4, RunsTypes, RecordTypes DEF RunSend, Runs
  <2> QED
    BY <1>4, <2>1, SendSafety DEF RunSend
<1>5. CASE RunShutdown
  BY <1>5 DEF RunShutdown, shutdown_in_loop, shutdown_write, connVars
<1>6. CASE RunCallback
  BY <1>1, <1>6 DEF RunCallback, connVars
<1>7. CASE destroy_conn
  BY <1>1, <1>7 DEF destroy_conn
<1>8. CASE handle_read \/ handle_hup
  BY <1>1, <1>8 DEF handle_read, handle_hup, handle_close
<1>9. ASSUME NEW n \in 1 .. Len(output_buf_), handle_write(n) PROVE Safety'
  <2> DEFINE a == SubSeq(output_buf_, 1, n)
             b == SubSeq(output_buf_, n + 1, Len(output_buf_))
  <2>1. output_buf_ \in Seq(Bytes) /\ wire \in Seq(Bytes) /\ n \in 0 .. Len(output_buf_)
    BY DEF TypeOK
  <2>2. a \in Seq(Bytes) /\ b \in Seq(Bytes) /\ a \o b = output_buf_
    BY <2>1, SplitSeq
  <2>3. wire' = wire \o a /\ output_buf_' = b /\ accepted' = accepted
    BY <1>9 DEF handle_write
  <2> HIDE DEF a, b
  <2>4. (wire \o a) \o b = wire \o (a \o b)
    BY <2>1, <2>2, ConcatBytes
  <2>5. StreamIntegrity'
    BY <2>2, <2>3, <2>4
  <2>6. WritingIffPending' /\ FinMeansDrained'
    BY <1>9 DEF handle_write, disable_writing, drained, shutdown_write, WriteFails
  <2> QED
    BY <2>5, <2>6
<1>10. ASSUME NEW m \in Messages, callback_send(m) PROVE Safety'
  <2>1. functors \in Seq(Functors)
    BY DEF TypeOK
  <2> QED
    BY <1>10, <2>1, SendSafety DEF callback_send
<1>11. CASE callback_shutdown
  BY <1>11 DEF callback_shutdown, shutdown_in_loop, shutdown_write
<1>12. CASE Environment
  BY <1>1, <1>12
     DEF Environment, remove_conn_in_loop, server_dtor, loop_ends, peer_closes, free_string,
         connVars
<1>13. CASE UNCHANGED vars
  BY <1>1, <1>13 DEF vars
<1> QED
  BY <1>2, <1>3, <1>4, <1>5, <1>6, <1>7, <1>8, <1>9, <1>10, <1>11, <1>12, <1>13
     DEF Next, RunFunctor, HandleWrite, Callback

----------------------------------------------------------------------------
(* The end of the connection.  EndedRefusesSends and EndTold rest on what  *)
(* is still queued: a shutdown that waits in the queue, or in a worker,    *)
(* has already set the state, and a destroy_conn that waits comes from a   *)
(* close, of which the user was told, or from ~tcp_server.                 *)

Ended == state_ \in {"DISCONNENTING", "DISCONNECTED"}

Justified(f) ==
    /\ f.op = "shutdown" => Ended
    /\ f.op = "destroy" => serverGone \/ downTold

\* EndTold for a connection that was closed.
ClosedTold == closed /\ ~downTold => serverGone /\ state_ = "DISCONNENTING"

EndInv ==
    /\ EndedRefusesSends
    /\ ClosedTold
    /\ \A t \in Workers : caller[t].op = "shutdown_queue" => Ended
    /\ \A i \in 1 .. Len(functors) : Justified(functors[i])
    /\ removals > 0 \/ state_ = "DISCONNECTED" => downTold

\* What is queued stays justified when the end is not taken back, and what a
\* step adds is justified.
LEMMA QueueJustified ==
    ASSUME TypeOK, EndInv, Ended => Ended', serverGone \/ downTold => (serverGone \/ downTold)',
           NEW q \in Seq(Functors), q = functors \/ (functors # <<>> /\ q = Tail(functors)),
           \/ functors' = q
           \/ \E f \in Functors : functors' = Append(q, f) /\ Justified(f)'
    PROVE  \A i \in 1 .. Len(functors') : Justified(functors[i])'
<1>1. functors \in Seq(Functors) /\ Len(functors) \in Nat /\ Len(q) \in Nat
  BY DEF TypeOK
<1>2. \A i \in 1 .. Len(functors) : (functors[i].op = "shutdown" => Ended')
                                 /\ (functors[i].op = "destroy" => (serverGone \/ downTold)')
  BY DEF EndInv, Justified
<1>3. \A i \in 1 .. Len(q) : (q[i].op = "shutdown" => Ended')
                          /\ (q[i].op = "destroy" => (serverGone \/ downTold)')
  <2>1. CASE q = functors
    BY <1>2, <2>1
  <2>2. CASE functors # <<>> /\ q = Tail(functors)
    BY <1>1, <1>2, <2>2, TailSeq
  <2> QED
    BY <2>1, <2>2
<1>4. CASE functors' = q
  BY <1>3, <1>4 DEF Justified
<1>5. ASSUME NEW f \in Functors, functors' = Append(q, f), Justified(f)'
      PROVE  \A i \in 1 .. Len(functors') : Justified(functors[i])'
  BY <1>1, <1>3, <1>5, AppendSeq DEF Justified
<1> QED
  BY <1>4, <1>5

\* Every step preserves it.
LEMMA EndStep == IInv /\ EndInv /\ [Next]_vars => EndInv'
<1> SUFFICES ASSUME TypeOK, EstablishFirst, EndInv, [Next]_vars PROVE EndInv'
  BY DEF IInv
<1> USE RecordTypes
<1>0. functors \in Seq(Functors)
  BY DEF TypeOK
<1>16. \A op : Runs(op) => /\ functors # <<>> /\ Tail(functors) \in Seq(Functors)
                          /\ functors[1].op = op /\ Len(functors) \in Nat \ {0}
  BY RunsTypes, TailSeq, <1>0
<1>17. \A op : Runs(op) /\ op # "establish" => state_ # "CONNENTING"
  BY <1>16 DEF EstablishFirst
\* The three parts about the state, when a step changes little.
<1>1. ASSUME UNCHANGED <<state_, sock, closed, downTold>>, serverGone => serverGone',
             removals' > 0 => removals > 0 \/ downTold,
             \A t \in Workers : caller'[t].op = "shutdown_queue" => caller[t].op = "shutdown_queue",
             NEW q \in Seq(Functors), q = functors \/ (functors # <<>> /\ q = Tail(functors)),
             \/ functors' = q
             \/ \E f \in Functors : functors' = Append(q, f) /\ Justified(f)'
      PROVE  EndInv'
  <2>1. \A i \in 1 .. Len(functors') : Justified(functors[i])'
    BY <1>1, QueueJustified DEF Ended
  <2> QED
    BY <1>1, <2>1 DEF EndInv, EndedRefusesSends, ClosedTold, Ended
<1>2. ASSUME NEW t \in Workers, Worker(t) PROVE EndInv'
  <2>1. ASSUME NEW m \in Messages, send(t, m) PROVE EndInv'
    <3>1. \A u \in Workers : caller'[u].op = "shutdown_queue" => caller[u].op = "shutdown_queue"
      BY <2>1 DEF send, TypeOK
    <3> QED
      BY <1>0, <1>1, <2>1, <3>1 DEF send, connVars
  <2>2. CASE send_queue(t)
    <3>1. \A u \in Workers : caller'[u].op = "shutdown_queue" => caller[u].op = "shutdown_queue"
      BY <2>2 DEF send_queue, TypeOK, Idle
    <3>2. caller[t] \in Functors /\ caller[t].op = "send"
      BY <2>2 DEF send_queue, TypeOK
    <3>3. \E f \in Functors : functors' = Append(functors, f) /\ Justified(f)'
      BY <2>2, <3>2 DEF send_queue, Justified
    <3> QED
      BY <1>0, <1>1, <2>2, <3>1, <3>3 DEF send_queue, connVars
  <2>3. CASE shutdown(t)
    <3>1. \A u \in Workers : caller'[u].op = "shutdown_queue" => caller[u].op = "shutdown_queue"
      BY <2>3 DEF shutdown, TypeOK
    <3> QED
      BY <1>0, <1>1, <2>3, <3>1 DEF shutdown, connVars
  <2>4. CASE shutdown_store(t)
    <3>1. Ended' /\ state_' = "DISCONNENTING"
      BY <2>4 DEF shutdown_store, Ended
    <3>2. \A i \in 1 .. Len(functors') : Justified(functors[i])'
      BY <1>0, <2>4, <3>1, QueueJustified DEF shutdown_store
    <3> QED
      BY <2>4, <3>1, <3>2 DEF shutdown_store, EndInv, EndedRefusesSends, ClosedTold
  <2>5. CASE shutdown_queue(t)
    <3>1. \A u \in Workers : caller'[u].op = "shutdown_queue" => caller[u].op = "shutdown_queue"
      BY <2>5 DEF shutdown_queue, TypeOK, Idle
    <3>2. Justified([op |-> "shutdown"])'
      BY <2>5 DEF shutdown_queue, EndInv, Justified, Ended, connVars
    <3> QED
      BY <1>0, <1>1, <2>5, <3>1, <3>2 DEF shutdown_queue, connVars
  <2> QED
    BY <1>2, <2>1, <2>2, <2>3, <2>4, <2>5 DEF Worker, WorkerStep
<1>3. CASE establish_conn
  <2>1. state_ = "CONNENTING" /\ sock = "open"
    BY <1>3, <1>16 DEF establish_conn, EstablishFirst
  <2>2. ~closed /\ ~Ended /\ removals' = removals
    BY <1>3, <2>1 DEF EndInv, EndedRefusesSends, Ended, establish_conn
  <2>3. \A i \in 1 .. Len(functors') : Justified(functors[i])'
    BY <1>3, <1>16, <2>2, QueueJustified DEF establish_conn
  <2> QED
    BY <1>3, <2>1, <2>2, <2>3 DEF establish_conn, EndInv, EndedRefusesSends, ClosedTold, Ended
<1>4. CASE RunSend
  <2>1. Head(functors).msg \in Messages /\ Tail(functors) \in Seq(Functors) /\ functors # <<>>
    BY <1>4, RunsTypes DEF RunSend, Runs
  <2>2. \/ functors' = Tail(functors)
        \/ functors' = Append(Tail(functors), [op |-> "write_complete"])
        \/ functors' = Append(Tail(functors), [op |-> "high_water_mark"])
    BY <1>4, <2>1, SendTypes DEF RunSend
  <2>3. Justified([op |-> "write_complete"])' /\ Justified([op |-> "high_water_mark"])'
    BY DEF Justified
  <2>4. UNCHANGED <<state_, sock, closed, downTold, serverGone, removals, caller>>
    BY <1>4, <2>1, SendTypes DEF RunSend
  <2> QED
    BY <1>1, <2>1, <2>2, <2>3, <2>4
<1>5. CASE RunShutdown
  <2>1. Ended
    BY <1>5, <1>16 DEF RunShutdown, EndInv, Justified
  <2>2. \A i \in 1 .. Len(functors') : Justified(functors[i])'
    BY <1>5, <1>16, QueueJustified DEF RunShutdown, Ended, connVars
  <2> QED
    BY <1>5, <2>1, <2>2 DEF RunShutdown, EndInv, EndedRefusesSends, ClosedTold, Ended, connVars
<1>6. CASE RunCallback
  BY <1>1, <1>6, <1>16 DEF RunCallback, connVars
<1>7. CASE destroy_conn
  <2>1. state_ # "CONNENTING" /\ (serverGone \/ downTold)
    BY <1>7, <1>16, <1>17 DEF destroy_conn, EndInv, Justified
  <2>2. Ended' /\ (Ended => Ended') /\ (serverGone \/ downTold)'
    BY <1>7, <2>1 DEF destroy_conn, TypeOK, States, Ended
  <2>3. \A i \in 1 .. Len(functors') : Justified(functors[i])'
    BY <1>7, <1>16, <2>2, QueueJustified DEF destroy_conn
  <2>4. ClosedTold' /\ (removals' > 0 \/ state_' = "DISCONNECTED" => downTold')
    BY <1>7, <2>1 DEF destroy_conn, EndInv, ClosedTold, TypeOK, States
  <2> QED
    BY <1>7, <2>2, <2>3, <2>4 DEF destroy_conn, EndInv, EndedRefusesSends, Ended
<1>8. CASE handle_close
  <2>1. Ended' /\ downTold'
    BY <1>8 DEF handle_close, Ended
  <2>2. \A i \in 1 .. Len(functors') : Justified(functors[i])'
    BY <1>0, <1>8, <2>1, QueueJustified DEF handle_close
  <2> QED
    BY <1>8, <2>1, <2>2 DEF handle_close, EndInv, EndedRefusesSends, ClosedTold, Ended
<1>9. ASSUME NEW n \in 1 .. Len(output_buf_), handle_write(n) PROVE EndInv'
  <2>1. \/ functors' = functors
        \/ functors' = Append(functors, [op |-> "write_complete"])
    BY <1>9 DEF handle_write
  <2>2. Justified([op |-> "write_complete"])'
    BY DEF Justified
  <2>3. UNCHANGED <<state_, closed, downTold, serverGone, removals, caller>>
    BY <1>9 DEF handle_write
  <2>4. sock' = sock \/ Ended
    BY <1>9 DEF handle_write, drained, Ended
  <2>5. \A i \in 1 .. Len(functors') : Justified(functors[i])'
    BY <1>0, <2>1, <2>2, <2>3, QueueJustified DEF Ended
  <2> QED
    BY <2>3, <2>4, <2>5 DEF EndInv, EndedRefusesSends, ClosedTold, Ended
<1>10. ASSUME NEW m \in Messages, callback_send(m) PROVE EndInv'
  <2>1. \/ functors' = functors
        \/ functors' = Append(functors, [op |-> "write_complete"])
        \/ functors' = Append(functors, [op |-> "high_water_mark"])
    BY <1>0, <1>10, SendTypes DEF callback_send
  <2>2. Justified([op |-> "write_complete"])' /\ Justified([op |-> "high_water_mark"])'
    BY DEF Justified
  <2>3. UNCHANGED <<state_, sock, closed, downTold, serverGone, removals, caller>>
    BY <1>0, <1>10, SendTypes DEF callback_send
  <2> QED
    BY <1>0, <1>1, <2>1, <2>2, <2>3
<1>11. CASE callback_shutdown
  <2>1. Ended' /\ ~closed /\ state_' = "DISCONNENTING"
    BY <1>11 DEF callback_shutdown, Ended, EndInv, EndedRefusesSends
  <2>2. \A i \in 1 .. Len(functors') : Justified(functors[i])'
    BY <1>0, <1>11, <2>1, QueueJustified DEF callback_shutdown
  <2> QED
    BY <1>11, <2>1, <2>2 DEF callback_shutdown, EndInv, EndedRefusesSends, ClosedTold, Ended
<1>12. CASE remove_conn_in_loop
  <2>1. Justified([op |-> "destroy"])'
    BY <1>12 DEF remove_conn_in_loop, EndInv, Justified
  <2>2. removals' > 0 => removals > 0
    BY <1>12 DEF remove_conn_in_loop
  <2> QED
    BY <1>0, <1>1, <1>12, <2>1, <2>2 DEF remove_conn_in_loop, connVars
<1>13. CASE server_dtor
  <2>1. Justified([op |-> "destroy"])'
    BY <1>13 DEF server_dtor, Justified
  <2> QED
    BY <1>0, <1>1, <1>13, <2>1 DEF server_dtor, connVars
<1>18. CASE loop_ends
  BY <1>18 DEF loop_ends, EndInv, EndedRefusesSends, ClosedTold, Ended
<1>14. CASE peer_closes \/ \E m \in Messages : free_string(m)
  BY <1>0, <1>1, <1>14 DEF peer_closes, free_string, connVars
<1>15. CASE UNCHANGED vars
  BY <1>0, <1>1, <1>15 DEF vars
<1> QED
  BY <1>2, <1>3, <1>4, <1>5, <1>6, <1>7, <1>8, <1>9, <1>10, <1>11, <1>12, <1>13, <1>14, <1>15,
     <1>18
     DEF Next, RunFunctor, HandleWrite, Callback, Environment, handle_read, handle_hup

----------------------------------------------------------------------------
(* The end of the loop.  A connection that the destructor of the server    *)
(* finds open, and that nothing has closed, has its destroy_conn in the    *)
(* queue until it runs.                                                    *)

DropInv ==
    /\ ~closed => closes = 0
    /\ serverGone /\ ~closed /\ loop_ = "runs" => DestroyQueued
    /\ loop_ = "ended" => closed
    /\ loop_ # "runs" => serverGone

\* What a step leaves of the queue, but for the functor that ran.
LEMMA DestroyStays ==
    ASSUME TypeOK, DestroyQueued, NEW q \in Seq(Functors),
           q = functors \/ (functors # <<>> /\ functors[1].op # "destroy" /\ q = Tail(functors)),
           functors' = q \/ \E f \in Functors : functors' = Append(q, f)
    PROVE  DestroyQueued'
<1>1. functors \in Seq(Functors) /\ Len(functors) \in Nat /\ Len(q) \in Nat
  BY DEF TypeOK
<1>2. \E i \in 1 .. Len(q) : q[i].op = "destroy"
  <2>1. CASE q = functors
    BY <2>1 DEF DestroyQueued
  <2>2. CASE functors # <<>> /\ functors[1].op # "destroy" /\ q = Tail(functors)
    <3>1. PICK i \in 1 .. Len(functors) : functors[i].op = "destroy"
      BY DEF DestroyQueued
    <3>2. /\ Len(q) = Len(functors) - 1
          /\ \A j \in 1 .. Len(functors) - 1 : q[j] = functors[j + 1]
      BY <1>1, <2>2, TailSeq
    <3>3. i # 1
      BY <2>2, <3>1
    <3>4. i - 1 \in 1 .. Len(functors) - 1 /\ (i - 1) + 1 = i
      BY <1>1, <3>3
    <3>5. q[i - 1] = functors[i]
      BY <3>2, <3>4
    <3> QED
      BY <3>1, <3>2, <3>4, <3>5
  <2> QED
    BY <2>1, <2>2
<1>3. ASSUME NEW f \in Functors, functors' = Append(q, f) PROVE DestroyQueued'
  BY <1>1, <1>2, <1>3, AppendSeq DEF DestroyQueued
<1> QED
  BY <1>2, <1>3 DEF DestroyQueued

\* Every step preserves it.
LEMMA DropStep == IInv /\ DropInv /\ [Next]_vars => DropInv'
<1> SUFFICES ASSUME TypeOK, EstablishFirst, DropInv, [Next]_vars PROVE DropInv'
  BY DEF IInv
<1> USE RecordTypes
<1>0. functors \in Seq(Functors)
  BY DEF TypeOK
\* A step that keeps what was queued, but for a functor that is not destroy_conn.
<1>1. ASSUME UNCHANGED <<closed, closes, serverGone, loop_>>,
             NEW q \in Seq(Functors),
             q = functors \/ (functors # <<>> /\ functors[1].op # "destroy" /\ q = Tail(functors)),
             functors' = q \/ \E f \in Functors : functors' = Append(q, f)
      PROVE  DropInv'
  BY <1>1, DestroyStays DEF DropInv
<1>2. ASSUME NEW t \in Workers, Worker(t) PROVE DropInv'
  <2>1. functors' = functors \/ \E f \in Functors : functors' = Append(functors, f)
    BY <1>2 DEF Worker, WorkerStep, send, send_queue, shutdown, shutdown_store, shutdown_queue,
                TypeOK, connVars
  <2>2. UNCHANGED <<closed, closes, serverGone, loop_>>
    BY <1>2 DEF Worker, WorkerStep, send, send_queue, shutdown, shutdown_store, shutdown_queue
  <2> QED
    BY <1>0, <1>1, <2>1, <2>2
<1>3. \A op : Runs(op) => functors # <<>> /\ functors[1].op = op /\ Tail(functors) \in Seq(Functors)
  BY RunsTypes
<1>4. CASE RunSend
  <2>1. Head(functors).msg \in Messages
    BY <1>4, RunsTypes DEF RunSend, Runs
  <2>2. functors # <<>> /\ functors[1].op # "destroy" /\ Tail(functors) \in Seq(Functors)
    BY <1>3, <1>4 DEF RunSend
  <2>3. /\ functors' = Tail(functors) \/ \E f \in Functors : functors' = Append(Tail(functors), f)
        /\ UNCHANGED <<closed, closes, serverGone, loop_>>
    BY <1>4, <2>1, <2>2, SendTypes DEF RunSend
  <2> QED
    BY <1>1, <2>2, <2>3
<1>5. CASE establish_conn \/ RunShutdown \/ RunCallback
  <2>1. functors # <<>> /\ functors[1].op # "destroy" /\ Tail(functors) \in Seq(Functors)
    BY <1>3, <1>5 DEF establish_conn, RunShutdown, RunCallback
  <2>2. functors' = Tail(functors) /\ UNCHANGED <<closed, closes, serverGone, loop_>>
    BY <1>5 DEF establish_conn, RunShutdown, RunCallback
  <2> QED
    BY <1>1, <2>1, <2>2
<1>6. CASE destroy_conn
  BY <1>6 DEF destroy_conn, DropInv
<1>7. CASE handle_read \/ handle_hup
  BY <1>7 DEF handle_read, handle_hup, handle_close, DropInv
<1>8. ASSUME NEW n \in 1 .. Len(output_buf_), handle_write(n) PROVE DropInv'
  <2>1. functors' = functors \/ functors' = Append(functors, [op |-> "write_complete"])
    BY <1>8 DEF handle_write
  <2>2. UNCHANGED <<closed, closes, serverGone, loop_>>
    BY <1>8 DEF handle_write
  <2> QED
    BY <1>0, <1>1, <2>1, <2>2
<1>9. ASSUME NEW m \in Messages, callback_send(m) PROVE DropInv'
  <2>1. /\ functors' = functors \/ \E f \in Functors : functors' = Append(functors, f)
        /\ UNCHANGED <<closed, closes, serverGone, loop_>>
    BY <1>0, <1>9, SendTypes DEF callback_send
  <2> QED
    BY <1>0, <1>1, <2>1
<1>10. CASE callback_shutdown
  BY <1>0, <1>1, <1>10 DEF callback_shutdown
<1>11. CASE remove_conn_in_loop
  BY <1>0, <1>1, <1>11 DEF remove_conn_in_loop
<1>12. CASE server_dtor
  <2>1. closed' = closed /\ closes' = closes /\ serverGone' /\ loop_' = loop_
    BY <1>12 DEF server_dtor
  <2>2. ~closed => closes = 0 /\ removals = closes
    BY DEF DropInv, TypeOK
  <2>3. ~closed => functors' = Append(functors, [op |-> "destroy"])
    BY <1>12, <2>2 DEF server_dtor, mapped
  <2>4. functors' = Append(functors, [op |-> "destroy"]) => DestroyQueued'
    <3>1. /\ Len(Append(functors, [op |-> "destroy"])) = Len(functors) + 1
          /\ Append(functors, [op |-> "destroy"])[Len(functors) + 1] = [op |-> "destroy"]
          /\ Len(functors) \in Nat
      BY <1>0, AppendSeq
    <3>2. Len(functors) + 1 \in 1 .. Len(functors) + 1
      BY <3>1
    <3> QED
      BY <3>1, <3>2 DEF DestroyQueued
  <2> QED
    BY <2>1, <2>3, <2>4 DEF DropInv
<1>13. CASE loop_ends
  BY <1>13 DEF loop_ends, DropInv
<1>14. CASE peer_closes \/ \E m \in Messages : free_string(m)
  BY <1>0, <1>1, <1>14 DEF peer_closes, free_string
<1>15. CASE UNCHANGED vars
  BY <1>0, <1>1, <1>15 DEF vars
<1> QED
  BY <1>2, <1>4, <1>5, <1>6, <1>7, <1>8, <1>9, <1>10, <1>11, <1>12, <1>13, <1>14, <1>15
     DEF Next, RunFunctor, HandleWrite, Callback, Environment

----------------------------------------------------------------------------
(* The high-water mark: the output passes it only by append, which looks   *)
(* at its length before and after.                                         *)

\* send_in_loop keeps the promise, whatever it writes and buffers.
LEMMA SendTold ==
    ASSUME TypeOK, HighWaterTold, NEW m \in Messages, NEW q \in Seq(Functors), send_in_loop(m, q)
    PROVE  HighWaterTold'
<1> DEFINE direct == ~is_writing /\ output_buf_ = <<>>
<1>1. CASE UNCHANGED <<output_buf_, told>>
  BY <1>1 DEF HighWaterTold
<1>2. ASSUME NEW n \in 0 .. (IF direct THEN Length[m] ELSE 0), append(m, n, q)
      PROVE  HighWaterTold'
  <2>1. Length[m] \in Nat /\ Data(m) \in Seq(Bytes) /\ Len(Data(m)) = Length[m]
    BY DataType
  <2>2. n \in 0 .. Len(Data(m))
    BY <2>1
  <2>3. remaining(m, n) \in Seq(Bytes)
    BY <2>1, <2>2, SplitSeq DEF remaining
  <2>4. output_buf_ \in Seq(Bytes) /\ told \in Nat
    BY DEF TypeOK
  <2> DEFINE old == Len(output_buf_)
             new == Len(output_buf_) + Len(remaining(m, n))
  <2>5. Len(output_buf_') = new /\ old \in Nat /\ new \in Nat
    BY <1>2, <2>3, <2>4, ConcatProperties, LenProperties DEF append
  <2>6. told' = IF crosses_mark(old, new) THEN told + 1 ELSE told
    BY <1>2 DEF append
  <2>7. CASE old >= HighWaterMark
    <3>1. ~crosses_mark(old, new) /\ new >= HighWaterMark
      BY <2>3, <2>5, <2>7, LenProperties, MarkAssumption DEF crosses_mark
    <3> QED
      BY <2>5, <2>6, <2>7, <3>1 DEF HighWaterTold
  <2>8. CASE old < HighWaterMark
    <3>1. new >= HighWaterMark <=> crosses_mark(old, new)
      BY <2>8 DEF crosses_mark
    <3>2. told = 0
      BY <2>5, <2>8, MarkAssumption DEF HighWaterTold
    <3> QED
      BY <2>5, <2>6, <3>1, <3>2 DEF HighWaterTold
  <2> QED
    BY <2>5, <2>7, <2>8, MarkAssumption
<1>3. ASSUME NEW n \in 0 .. (IF direct THEN Length[m] ELSE 0), take(m, n, direct, q)
      PROVE  HighWaterTold'
  BY <1>1, <1>2, <1>3 DEF take, complete
<1> QED
  BY <1>1, <1>3 DEF send_in_loop, dataVars

\* Every step keeps the promise.
LEMMA ToldStep == IInv /\ HighWaterTold /\ [Next]_vars => HighWaterTold'
<1> SUFFICES ASSUME TypeOK, HighWaterTold, [Next]_vars PROVE HighWaterTold'
  BY DEF IInv
\* An action that leaves the output alone.
<1>1. ASSUME UNCHANGED <<output_buf_, told>> PROVE HighWaterTold'
  BY <1>1 DEF HighWaterTold
<1>2. ASSUME NEW t \in Workers, Worker(t) PROVE HighWaterTold'
  BY <1>1, <1>2 DEF Worker, WorkerStep, send, send_queue, shutdown, shutdown_store,
                    shutdown_queue, connVars
<1>3. CASE establish_conn \/ RunShutdown \/ RunCallback \/ destroy_conn
  BY <1>1, <1>3 DEF establish_conn, RunShutdown, RunCallback, destroy_conn, connVars
<1>4. CASE RunSend
  <2>1. Head(functors).msg \in Messages /\ Tail(functors) \in Seq(Functors)
    BY <1>4, RunsTypes, RecordTypes DEF RunSend, Runs
  <2> QED
    BY <1>4, <2>1, SendTold DEF RunSend
<1>5. CASE handle_read \/ handle_hup
  BY <1>1, <1>5 DEF handle_read, handle_hup, handle_close
<1>6. ASSUME NEW n \in 1 .. Len(output_buf_), handle_write(n) PROVE HighWaterTold'
  <2>1. output_buf_ \in Seq(Bytes) /\ Len(output_buf_) \in Nat /\ n \in 0 .. Len(output_buf_)
    BY LenProperties DEF TypeOK
  <2>2. output_buf_' = SubSeq(output_buf_, n + 1, Len(output_buf_))
    BY <1>6 DEF handle_write
  <2>3. output_buf_' \in Seq(Bytes)
    BY <2>1, <2>2, SplitSeq
  <2>4. \A i \in n + 1 .. Len(output_buf_) : output_buf_[i] \in Bytes
    BY <2>1
  <2>5. Len(output_buf_') = IF n + 1 <= Len(output_buf_) THEN Len(output_buf_) - (n + 1) + 1 ELSE 0
    BY <2>1, <2>2, <2>4, SubSeqProperties
  <2>6. Len(output_buf_') <= Len(output_buf_) /\ Len(output_buf_') \in Nat
    BY <2>1, <2>5
  <2>7. told' = IF Len(output_buf_') >= HighWaterMark THEN told ELSE 0
    BY <1>6 DEF handle_write
  <2>8. Len(output_buf_') >= HighWaterMark => Len(output_buf_) >= HighWaterMark
    BY <2>1, <2>6, MarkAssumption
  <2> QED
    BY <2>7, <2>8 DEF HighWaterTold
<1>7. ASSUME NEW m \in Messages, callback_send(m) PROVE HighWaterTold'
  <2>1. functors \in Seq(Functors)
    BY DEF TypeOK
  <2> QED
    BY <1>7, <2>1, SendTold DEF callback_send
<1>8. CASE callback_shutdown
  BY <1>1, <1>8 DEF callback_shutdown
<1>9. CASE Environment
  BY <1>1, <1>9
     DEF Environment, remove_conn_in_loop, server_dtor, loop_ends, peer_closes, free_string,
         connVars
<1>10. CASE UNCHANGED vars
  BY <1>1, <1>10 DEF vars
<1> QED
  BY <1>2, <1>3, <1>4, <1>5, <1>6, <1>7, <1>8, <1>9, <1>10
     DEF Next, RunFunctor, HandleWrite, Callback

----------------------------------------------------------------------------
(* The theorems.                                                           *)

\* The inductive invariant holds in every reachable state.
THEOREM InductiveInvariant == Spec => []IInv
<1>1. IInv /\ [Next]_vars => IInv'
  BY TypeStep, EstablishStep, SafetyStep DEF IInv
<1> QED
  BY InitIInv, <1>1, PTL DEF Spec

\* The variables keep their types.
THEOREM TypeCorrect == Spec => []TypeOK
<1>1. IInv => TypeOK
  BY DEF IInv
<1> QED
  BY InductiveInvariant, <1>1, PTL

\* What the kernel has and what is buffered are the bytes that send_in_loop
\* took, in order, none lost or repeated, however writes are cut and mixed.
THEOREM StreamIntact == Spec => []StreamIntegrity
<1>1. IInv => StreamIntegrity
  BY DEF IInv, Safety
<1> QED
  BY InductiveInvariant, <1>1, PTL

\* An open connection waits for EPOLLOUT exactly when it has output.
THEOREM InterestMatchesOutput == Spec => []WritingIffPending
<1>1. IInv => WritingIffPending
  BY DEF IInv, Safety
<1> QED
  BY InductiveInvariant, <1>1, PTL

\* A shutdown never cuts off output that was taken for sending.
THEOREM ShutdownKeepsOutput == Spec => []FinMeansDrained
<1>1. IInv => FinMeansDrained
  BY DEF IInv, Safety
<1> QED
  BY InductiveInvariant, <1>1, PTL

\* EndInv holds in every reachable state.
LEMMA EndInvariant == Spec => []EndInv
<1>1. Init => EndInv
  BY DEF Init, EndInv, EndedRefusesSends, ClosedTold, Justified, Ended, Idle
<1> QED
  BY <1>1, InductiveInvariant, EndStep, PTL DEF Spec

\* However shutdown's load and store interleave with the loop, a connection that
\* has sent its FIN or was closed is in a state in which send refuses.
THEOREM NoSendAfterEnd == Spec => []EndedRefusesSends
<1>1. EndInv => EndedRefusesSends
  BY DEF EndInv
<1> QED
  BY EndInvariant, <1>1, PTL

\* The user is told of the end of every connection, but for one that the server's
\* destructor finds shutting down, and one whose destroy_conn was still in the queue
\* of its loop when the loop ended: no other way of ending is silent.
THEOREM UserToldOfEnd == Spec => []EndTold
<1>1. Init => DropInv
  BY DEF Init, DropInv, DestroyQueued
<1>2. IInv /\ EndInv /\ DropInv => EndTold
  BY DEF IInv, TypeOK, EndInv, DropInv, ClosedTold, EndTold
<1>3. Spec => []DropInv
  BY <1>1, InductiveInvariant, DropStep, PTL DEF Spec
<1> QED
  BY InductiveInvariant, EndInvariant, <1>2, <1>3, PTL

\* Whatever messages, buffering and partial writes lead there, the callback is queued
\* once for every time the output comes to the mark.
THEOREM MarkAlwaysTold == Spec => []HighWaterTold
<1>1. Init => HighWaterTold
  <2>1. Len(<<>>) = 0 /\ ~(0 >= HighWaterMark)
    BY MarkAssumption
  <2> QED
    BY <2>1 DEF Init, HighWaterTold
<1> QED
  BY <1>1, InductiveInvariant, ToldStep, PTL DEF Spec

----------------------------------------------------------------------------
(* What no step takes back.                                                *)

\* A connection that is shutting down or closed is not opened again, by whatever
\* order of stores to state_, and after our FIN not a byte is written.
EndIsFinal ==
    [][/\ Ended => Ended'
       /\ closed => closed'
       /\ sock = "fin" => sock' = "fin" /\ wire' = wire]_vars

\* send_in_loop writes only where the kernel takes it.
LEMMA SendAfterFin ==
    ASSUME TypeOK, NEW m \in Messages, NEW q, send_in_loop(m, q), sock = "fin"
    PROVE  wire' = wire
<1> DEFINE direct == ~is_writing /\ output_buf_ = <<>>
<1>1. \/ wire' = wire
      \/ ~direct /\ \E n \in 0 .. IF direct THEN Length[m] ELSE 0 : take(m, n, direct, q)
  BY DEF send_in_loop, WriteFails, dataVars
<1>2. CASE ~direct /\ \E n \in 0 .. IF direct THEN Length[m] ELSE 0 : take(m, n, direct, q)
  <2>1. take(m, 0, direct, q)
    BY <1>2
  <2>2. wire' = wire \o SubSeq(Data(m), 1, 0)
    BY <2>1 DEF take
  <2>3. SubSeq(Data(m), 1, 0) = <<>>
    BY SubSeqEmpty
  <2>4. wire \in Seq(Bytes)
    BY DEF TypeOK
  <2> QED
    BY <2>2, <2>3, <2>4
<1> QED
  BY <1>1, <1>2

\* No step of the connection takes its end back.
LEMMA FinalStep ==
    ASSUME IInv, [Next]_vars
    PROVE  /\ Ended => Ended'
           /\ closed => closed'
           /\ sock = "fin" => sock' = "fin" /\ wire' = wire
<1> DEFINE Final == /\ Ended => Ended'
                    /\ closed => closed'
                    /\ sock = "fin" => sock' = "fin" /\ wire' = wire
<1>0. TypeOK /\ EstablishFirst
  BY DEF IInv
<1>1. ASSUME UNCHANGED <<state_, closed, sock, wire>> PROVE Final
  BY <1>1 DEF Ended
<1>2. ASSUME NEW t \in Workers, Worker(t) PROVE Final
  <2>1. CASE shutdown_store(t)
    BY <2>1 DEF shutdown_store, Ended
  <2>2. CASE \E m \in Messages : send(t, m)
    BY <1>1, <2>2 DEF send, connVars
  <2>3. CASE shutdown(t) \/ send_queue(t) \/ shutdown_queue(t)
    BY <1>1, <2>3 DEF shutdown, send_queue, shutdown_queue, connVars
  <2> QED
    BY <1>2, <2>1, <2>2, <2>3 DEF Worker, WorkerStep
<1>3. CASE establish_conn
  <2>1. functors # <<>> /\ functors[1].op = "establish"
    BY <1>0, <1>3, RunsTypes DEF establish_conn
  <2>2. 1 \in 1 .. Len(functors)
    BY <1>0, <2>1, TailSeq DEF TypeOK
  <2>3. state_ = "CONNENTING"
    BY <1>0, <2>1, <2>2 DEF EstablishFirst
  <2> QED
    BY <1>3, <2>3 DEF establish_conn, Ended
<1>4. ASSUME NEW m \in Messages, NEW q, send_in_loop(m, q) PROVE Final
  <2>1. UNCHANGED <<state_, closed, sock>>
    BY <1>4 DEF send_in_loop
  <2>2. sock = "fin" => wire' = wire
    BY <1>0, <1>4, SendAfterFin
  <2> QED
    BY <2>1, <2>2 DEF Ended
<1>5. CASE RunSend
  <2>1. Head(functors).msg \in Messages
    BY <1>0, <1>5, RunsTypes, RecordTypes DEF RunSend, Runs
  <2> QED
    BY <1>4, <1>5, <2>1 DEF RunSend
<1>6. CASE RunShutdown
  BY <1>6 DEF RunShutdown, shutdown_in_loop, shutdown_write, connVars, Ended
<1>7. CASE RunCallback
  BY <1>1, <1>7 DEF RunCallback, connVars
<1>8. CASE destroy_conn
  BY <1>8 DEF destroy_conn, Ended
<1>9. CASE handle_read \/ handle_hup
  BY <1>9 DEF handle_read, handle_hup, handle_close, Ended
<1>10. ASSUME NEW n \in 1 .. Len(output_buf_), handle_write(n) PROVE Final
  <2>1. sock # "fin" /\ UNCHANGED <<state_, closed>>
    BY <1>10 DEF handle_write, WriteFails
  <2> QED
    BY <2>1 DEF Ended
<1>11. CASE Callback
  <2>1. CASE callback_shutdown
    BY <2>1 DEF callback_shutdown, shutdown_in_loop, shutdown_write, Ended
  <2>2. ASSUME NEW m \in Messages, callback_send(m) PROVE Final
    BY <1>4, <2>2 DEF callback_send
  <2> QED
    BY <1>11, <2>1, <2>2 DEF Callback
<1>12. CASE Environment
  BY <1>1, <1>12 DEF Environment, remove_conn_in_loop, server_dtor, loop_ends, peer_closes,
                     free_string, connVars
<1>13. CASE UNCHANGED vars
  BY <1>1, <1>13 DEF vars
<1>14. Final
  BY <1>2, <1>3, <1>5, <1>6, <1>7, <1>8, <1>9, <1>10, <1>11, <1>12, <1>13
     DEF Next, RunFunctor, HandleWrite
<1> QED
  BY <1>14

\* Shutting down and closing are final, although shutdown's test and store of state_
\* may come on either side of a close, and our FIN is the last of the stream.
THEOREM EndsForGood == Spec => EndIsFinal
<1>1. IInv /\ [Next]_vars => [/\ Ended => Ended'
                              /\ closed => closed'
                              /\ sock = "fin" => sock' = "fin" /\ wire' = wire]_vars
  BY FinalStep
<1> QED
  BY InductiveInvariant, <1>1, PTL DEF Spec, EndIsFinal
=============================================================================
