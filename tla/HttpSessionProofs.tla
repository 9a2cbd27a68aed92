------------------------- MODULE HttpSessionProofs -------------------------
(***************************************************************************)
(* IInv is an inductive invariant of HttpSession for every queue limit and *)
(* every set of requests, and the safety properties follow from it.        *)
(***************************************************************************)
EXTENDS HttpSession, TLAPS

\* The part of TypeOK that is not about counters and sequences.
FlagsOK ==
    /\ kind \in {"detect", "plain", "ssl"}
    /\ doomed \subseteq Op
    /\ open \in BOOLEAN
    /\ over \in BOOLEAN
    /\ running \in BOOLEAN

\* TypeOK, split into the part about flags and the part about counters
\* and sequences.
LEMMA TypeParts ==
  TypeOK <=> /\ FlagsOK
             /\ pending \in [Op -> Nat]
             /\ items \in Seq(Response) /\ written \in Seq(Response)
             /\ handled \in Nat
             /\ eofs \in [{"read", "write"} -> Nat]
  BY DEF TypeOK, FlagsOK

\* Removing the first element of a sequence.
LEMMA TailFacts ==
  ASSUME NEW S, NEW q \in Seq(S), q # <<>>
  PROVE  /\ Tail(q) \in Seq(S) /\ Len(Tail(q)) = Len(q) - 1
         /\ \A k \in 1..Len(Tail(q)) : Tail(q)[k] = q[k + 1]
         /\ Tail(q) = <<>> <=> Len(q) = 1
<1>1. Tail(q) \in Seq(S) /\ Len(Tail(q)) = Len(q) - 1 /\ Len(q) \in Nat
  OBVIOUS
<1>2. \A k \in 1..Len(Tail(q)) : Tail(q)[k] = q[k + 1]
  OBVIOUS
<1>3. \A r \in Seq(S) : r = <<>> <=> Len(r) = 0
  OBVIOUS
<1> QED
  BY <1>1, <1>2, <1>3

\* Adding an element at the end of a sequence.
LEMMA AppendFacts ==
  ASSUME NEW S, NEW q \in Seq(S), NEW e \in S
  PROVE  /\ Append(q, e) \in Seq(S) /\ Len(Append(q, e)) = Len(q) + 1
         /\ \A k \in 1..Len(q) : Append(q, e)[k] = q[k]
         /\ Append(q, e)[Len(q) + 1] = e
         /\ Len(q) \in Nat
  OBVIOUS

\* A connection that has just been accepted satisfies IInv.
LEMMA InitIInv == Init => IInv
<1> SUFFICES ASSUME Init PROVE IInv
  OBVIOUS
<1> USE LimitAssumption DEF Init, Op
<1>1. TypeOK
  <2>1. FlagsOK
    BY DEF FlagsOK
  <2>2. items \in Seq(Response) /\ written \in Seq(Response)
    OBVIOUS
  <2>3. pending \in [Op -> Nat] /\ eofs \in [{"read", "write"} -> Nat] /\ handled \in Nat
    OBVIOUS
  <2> QED
    BY <2>1, <2>2, <2>3, TypeParts
<1>2. NoOverlappingOps /\ QueueBounded /\ InOrder /\ NoStall /\ NothingAfterClose /\ EofOnce
  BY DEF NoOverlappingOps, QueueBounded, InOrder, NoStall, NothingAfterClose, EofOnce
<1>3. StageInv
  BY DEF StageInv, SendShut
<1>4. ReadInv /\ WriteInv
  BY DEF ReadInv, WriteInv, WriteHasItem
<1>5. OrderInv
  <2>1. items = <<>> /\ written = <<>> /\ handled = 0
    OBVIOUS
  <2>2. Len(items) = 0 /\ Len(written) = 0 /\ 1..0 = {}
    BY <2>1
  <2>3. Len(items) <= handled /\ Len(written) = handled - Len(items)
    <3>1. 0 <= 0 /\ 0 = 0 - 0
      OBVIOUS
    <3> QED
      BY ONLY <3>1, <2>1, <2>2, Zenon
  <2>4. (\A k \in 1..Len(items) : items[k].id = handled - Len(items) + k)
        /\ (\A k \in 1..Len(written) : written[k].eof => eofs["write"] > 0)
    BY ONLY <2>2
  <2> QED
    BY <2>3, <2>4 DEF OrderInv
<1> QED
  BY <1>1, <1>2, <1>3, <1>4, <1>5 DEF IInv

\* What a handler does to the outstanding operations.
LEMMA SwitchEffect ==
  ASSUME TypeOK, NEW done \in Op, pending[done] > 0,
         NEW started \in SUBSET Op, Switch(done, started)
  PROVE  /\ pending' \in [Op -> Nat]
         /\ doomed' \subseteq Op
         /\ \A o \in Op :
              pending'[o] = (IF o = done THEN pending[o] - 1 ELSE pending[o])
                              + (IF o \in started THEN 1 ELSE 0)
<1>1. pending \in [Op -> Nat] /\ doomed \subseteq Op
  BY DEF TypeOK
<1>2. \A o \in Op : pending[o] \in Nat
  BY <1>1
<1>3. pending' = [o \in Op |-> pending[o] - (IF o = done THEN 1 ELSE 0)
                                           + (IF o \in started THEN 1 ELSE 0)]
  BY DEF Switch
<1>4. \A o \in Op :
        /\ pending'[o] = (IF o = done THEN pending[o] - 1 ELSE pending[o])
                              + (IF o \in started THEN 1 ELSE 0)
        /\ pending'[o] \in Nat
  BY <1>2, <1>3
<1>5. pending' \in [Op -> Nat]
  BY <1>3, <1>4
<1>6. doomed' \subseteq Op
  BY <1>1 DEF Switch
<1> QED
  BY <1>4, <1>5, <1>6

\* A handler that starts nothing and leaves the queue alone.
LEMMA DropStep ==
  ASSUME IInv, NEW o \in Op, pending[o] > 0, Switch(o, {}),
         over' \in BOOLEAN, over' \/ (o = "shutdown" /\ over' = over),
         UNCHANGED <<kind, open, items, handled, written, eofs, running>>
  PROVE  IInv'
<1>1. TypeOK /\ pending \in [Op -> Nat]
  BY DEF IInv, TypeOK
<1>2. /\ pending' \in [Op -> Nat]
      /\ doomed' \subseteq Op
      /\ \A p \in Op : pending'[p] = IF p = o THEN pending[p] - 1 ELSE pending[p]
  <2>1. /\ pending' \in [Op -> Nat]
        /\ doomed' \subseteq Op
        /\ \A p \in Op : pending'[p] = (IF p = o THEN pending[p] - 1 ELSE pending[p])
                              + (IF p \in {} THEN 1 ELSE 0)
    BY <1>1, SwitchEffect
  <2> QED
    BY <2>1, <1>1
<1>3. \A p \in Op : pending'[p] \in Nat /\ pending[p] \in Nat /\ pending'[p] <= pending[p]
  BY <1>1, <1>2
<1>4. TypeOK'
  <2>1. FlagsOK'
    BY <1>1, <1>2 DEF TypeOK, FlagsOK
  <2> QED
    BY <2>1, <1>1, <1>2, TypeParts DEF TypeOK, FlagsOK
<1>5. NoOverlappingOps'
  BY <1>3 DEF IInv, NoOverlappingOps
<1>6. (QueueBounded /\ InOrder /\ NothingAfterClose /\ EofOnce)'
  BY DEF IInv, QueueBounded, InOrder, NothingAfterClose, EofOnce
<1> USE DEF Op
<1>7. NoStall'
  BY <1>2 DEF IInv, NoStall
<1>8. StageInv'
  <2>1. SendShut' <=> SendShut
    BY DEF SendShut
  <2> QED
    BY <1>3, <2>1 DEF IInv, StageInv
<1>9. ReadInv' /\ WriteInv'
  BY <1>3 DEF IInv, ReadInv, WriteInv, WriteHasItem
<1>10. OrderInv'
  BY <1>3 DEF IInv, OrderInv
<1> QED
  BY <1>4, <1>5, <1>6, <1>7, <1>8, <1>9, <1>10 DEF IInv

\* A handler that reports an error and ends.
LEMMA FailsStep ==
  ASSUME IInv, NEW o \in Op, Fails(o)
  PROVE  IInv'
  BY DropStep DEF Fails

\* The end of the TLS shutdown.
LEMMA ShutdownStep == IInv /\ on_shutdown => IInv'
<1> SUFFICES ASSUME IInv, on_shutdown PROVE IInv'
  OBVIOUS
<1>1. over' \in BOOLEAN
  BY DEF on_shutdown, IInv, TypeOK
<1>2. "shutdown" \in Op
  BY DEF Op
<1> QED
  BY <1>1, <1>2, DropStep DEF on_shutdown

\* Before the first request nothing is queued and do_eof has not been called.
LEMMA SetupStep ==
  ASSUME IInv, NEW done \in {"run", "detect", "handshake"}, pending[done] > 0,
         NEW next \in {"detect", "handshake", "read"}, Switch(done, {next}),
         \/ done = "run" /\ next = "detect" /\ kind' = kind
         \/ done = "detect" /\ next = "handshake" /\ kind' = "ssl"
         \/ done = "detect" /\ next = "read" /\ kind' = "plain"
         \/ done = "handshake" /\ next = "read" /\ kind' = kind,
         UNCHANGED <<open, items, handled, written, eofs, over, running>>
  PROVE  IInv'
<1>1. TypeOK /\ pending \in [Op -> Nat] /\ done \in Op /\ {next} \in SUBSET Op
  BY DEF IInv, TypeOK, Op
<1>2. /\ pending' \in [Op -> Nat]
      /\ doomed' \subseteq Op
      /\ \A p \in Op : pending'[p] = (IF p = done THEN pending[p] - 1 ELSE pending[p])
                              + (IF p \in {next} THEN 1 ELSE 0)
  BY <1>1, SwitchEffect
<1>3. TypeOK'
  <2>1. FlagsOK'
    BY <1>1, <1>2 DEF TypeOK, FlagsOK
  <2> QED
    BY <2>1, <1>1, <1>2, TypeParts DEF TypeOK, FlagsOK
<1>4. (InOrder /\ NothingAfterClose /\ EofOnce)'
  BY DEF IInv, InOrder, NothingAfterClose, EofOnce
<1> USE DEF Op
<1>5. items = <<>> /\ Len(items) = 0 /\ pending["read"] = 0 /\ pending["write"] = 0
  BY <1>1 DEF IInv, StageInv, TypeOK, WriteInv, WriteHasItem
<1>6. eofs["read"] = 0 /\ eofs["write"] = 0
  <2>1. ~SendShut
    BY <1>1 DEF IInv, StageInv
  <2> QED
    BY <2>1, <1>1 DEF SendShut, TypeOK
<1>7. \A p \in Op \ {"shutdown", done} : pending[p] = 0
  BY <1>1, <1>5 DEF IInv, StageInv
<1>8. pending[done] = 1
  BY <1>1 DEF IInv, NoOverlappingOps
<1>9. /\ \A p \in Op \ {"shutdown"} : pending'[p] = IF p = next THEN 1 ELSE 0
      /\ pending'["shutdown"] = pending["shutdown"]
  BY <1>1, <1>2, <1>7, <1>8
<1>10. /\ pending'["read"] = IF next = "read" THEN 1 ELSE 0
       /\ pending'["write"] = 0
       /\ pending'["handshake"] = IF next = "handshake" THEN 1 ELSE 0
       /\ pending'["detect"] = IF next = "detect" THEN 1 ELSE 0
       /\ pending'["run"] = 0
  BY <1>9
<1>11. NoOverlappingOps'
  BY <1>9 DEF NoOverlappingOps
<1>12. QueueBounded' /\ ReadInv' /\ WriteInv'
  <2>1. items' = <<>> /\ Len(items') = 0 /\ eofs'["read"] = 0 /\ eofs'["write"] = 0
    BY <1>5, <1>6
  <2> QED
    BY <2>1, <1>10, LimitAssumption DEF QueueBounded, ReadInv, WriteInv, WriteHasItem
<1>13. kind = "detect" <=> done \in {"run", "detect"}
  BY <1>1 DEF IInv, StageInv
<1>14. NoStall'
  <2>1. items' = <<>> /\ Len(items') = 0
    BY <1>5
  <2> QED
    BY <2>1, <1>10, <1>13, LimitAssumption DEF NoStall
<1>15. StageInv'
  <2>1. items' = <<>> /\ ~SendShut'
    BY <1>5, <1>6 DEF SendShut
  <2>2. kind' = "detect" => pending'["shutdown"] = 0
    BY <1>9, <1>13 DEF IInv, StageInv
  <2> QED
    BY <2>1, <2>2, <1>10, <1>13 DEF StageInv, IInv
<1>16. OrderInv'
  BY <1>5, <1>10 DEF OrderInv, IInv
<1> QED
  BY <1>3, <1>4, <1>11, <1>12, <1>14, <1>15, <1>16 DEF IInv

\* The handlers before the first request.
LEMMA SetupSteps == IInv /\ (on_run \/ on_detect \/ on_handshake) => IInv'
<1> SUFFICES ASSUME IInv, on_run \/ on_detect \/ on_handshake PROVE IInv'
  OBVIOUS
<1>1. CASE on_run
  BY <1>1, SetupStep DEF on_run
<1>2. CASE on_detect
  <2>1. CASE Fails("detect")
    BY <2>1, FailsStep DEF Op
  <2>2. CASE ~Fails("detect")
    BY <1>2, <2>2, SetupStep DEF on_detect, Succeeds
  <2> QED
    BY <2>1, <2>2
<1>3. CASE on_handshake
  <2>1. CASE Fails("handshake")
    BY <2>1, FailsStep DEF Op
  <2>2. CASE ~Fails("handshake")
    BY <1>3, <2>2, SetupStep DEF on_handshake, Succeeds
  <2> QED
    BY <2>1, <2>2
<1> QED
  BY <1>1, <1>2, <1>3

\* After ioc.stop() or an uncaught exception nothing is outstanding.
LEMMA HaltStep == IInv /\ Halt => IInv'
<1> SUFFICES ASSUME IInv, Halt PROVE IInv'
  OBVIOUS
<1>1. \A o \in Op : pending'[o] = 0
  BY DEF Halt
<1>2. TypeOK'
  <2>1. FlagsOK'
    BY DEF Halt, IInv, TypeOK, FlagsOK
  <2>2. pending' \in [Op -> Nat]
    BY DEF Halt
  <2> QED
    BY <2>1, <2>2, TypeParts DEF Halt, IInv, TypeOK
<1>3. NoOverlappingOps'
  BY <1>1 DEF NoOverlappingOps
<1>4. (QueueBounded /\ InOrder /\ NothingAfterClose /\ EofOnce)'
  BY DEF Halt, IInv, QueueBounded, InOrder, NothingAfterClose, EofOnce
<1>5. NoStall'
  BY DEF Halt, NoStall
<1> USE DEF Op
<1>6. StageInv'
  <2>1. SendShut' <=> SendShut
    BY DEF SendShut, Halt
  <2> QED
    BY <1>1, <2>1 DEF IInv, StageInv, Halt
<1>7. ReadInv' /\ WriteInv'
  BY <1>1 DEF IInv, ReadInv, WriteInv, WriteHasItem, Halt
<1>8. OrderInv'
  BY <1>1 DEF IInv, OrderInv, Halt
<1> QED
  BY <1>2, <1>3, <1>4, <1>5, <1>6, <1>7, <1>8 DEF IInv

\* A timeout only dooms operations and closes the socket.
LEMMA TimeoutStep == IInv /\ Timeout => IInv'
<1> SUFFICES ASSUME IInv, Timeout PROVE IInv'
  OBVIOUS
<1>1. TypeOK'
  <2>1. FlagsOK'
    BY DEF Timeout, IInv, TypeOK, FlagsOK
  <2> QED
    BY <2>1, TypeParts DEF Timeout, IInv, TypeOK
<1> QED
  BY <1>1 DEF Timeout, IInv, NoOverlappingOps, QueueBounded, InOrder, NothingAfterClose,
              EofOnce, NoStall, StageInv, SendShut, ReadInv, WriteInv, WriteHasItem, OrderInv

\* A new response at the end of the queue.
LEMMA RequestStep == IInv /\ on_read_request => IInv'
<1> SUFFICES ASSUME IInv, on_read_request PROVE IInv'
  OBVIOUS
<1>1. PICK req \in Requests :
        /\ handled' = handled + 1
        /\ items' = Append(items, [id |-> handled + 1, eof |-> need_eof(req)])
        /\ Switch("read", AfterRead(items'))
  BY DEF on_read_request
<1>2. pending["read"] > 0 /\ UNCHANGED <<kind, open, written, eofs, over, running>>
  BY DEF on_read_request, Succeeds
<1> DEFINE r == [id |-> handled + 1, eof |-> need_eof(req)]
<1>3. r \in Response /\ r.id = handled + 1
  <2>1. req \in Request
    BY RequestsAssumption
  <2>2. need_eof(req) \in BOOLEAN
    BY <2>1 DEF need_eof, Request
  <2> QED
    BY <2>2 DEF IInv, TypeOK, Response
<1> HIDE DEF r
<1>4. TypeOK /\ pending \in [Op -> Nat] /\ items \in Seq(Response) /\ handled \in Nat
  BY DEF IInv, TypeOK
<1>5. items' = Append(items, r)
  BY <1>1 DEF r
<1>6. /\ items' \in Seq(Response)
      /\ Len(items') = Len(items) + 1
      /\ Len(items) \in Nat
      /\ items' # <<>>
      /\ \A k \in 1..Len(items) : items'[k] = items[k]
      /\ items'[Len(items) + 1] = r
  BY <1>3, <1>4, <1>5
<1> HIDE DEF AfterRead
<1>7. /\ pending' \in [Op -> Nat]
      /\ doomed' \subseteq Op
      /\ \A p \in Op : pending'[p] = (IF p = "read" THEN pending[p] - 1 ELSE pending[p])
                              + (IF p \in AfterRead(items') THEN 1 ELSE 0)
  <2>1. "read" \in Op /\ AfterRead(items') \in SUBSET Op
    BY DEF Op, AfterRead
  <2> QED
    BY <1>1, <1>2, <1>4, <2>1, SwitchEffect
<1>8. /\ Len(items) < Limit
      /\ kind # "detect" /\ pending["handshake"] = 0
      /\ pending["read"] = 1
      /\ eofs["read"] = 0
      /\ eofs["write"] > 0 => pending["write"] = 0 /\ items # <<>>
      /\ items = <<>> => pending["write"] = 0
  BY <1>2, <1>4 DEF IInv, ReadInv, StageInv, WriteInv, WriteHasItem, NoOverlappingOps, TypeOK, Op
<1>9. items = <<>> <=> Len(items) = 0
  BY <1>4
<1>10. /\ pending'["read"] = IF Len(items) + 1 < Limit THEN 1 ELSE 0
       /\ pending'["write"] = IF items = <<>> THEN 1 ELSE pending["write"]
       /\ \A p \in Op \ {"read", "write"} : pending'[p] = pending[p]
  <2>1. "read" \in AfterRead(items') <=> Len(items) + 1 < Limit
    BY <1>6, LimitAssumption DEF AfterRead, is_full
  <2>2. "write" \in AfterRead(items') <=> items = <<>>
    BY <1>6, <1>9 DEF AfterRead, starts_write
  <2>3. \A p \in AfterRead(items') : p \in {"read", "write"}
    BY DEF AfterRead
  <2>4. pending'["read"] = IF Len(items) + 1 < Limit THEN 1 ELSE 0
    BY <1>7, <1>8, <2>1 DEF Op
  <2>5. pending'["write"] = IF items = <<>> THEN 1 ELSE pending["write"]
    <3>1. pending["write"] \in Nat
      BY <1>4 DEF Op
    <3> QED
      BY <3>1, <1>7, <1>8, <2>2 DEF Op
  <2>6. \A p \in Op \ {"read", "write"} : pending'[p] = pending[p]
    BY <1>4, <1>7, <2>3
  <2> QED
    BY <2>4, <2>5, <2>6
<1>11. TypeOK'
  <2>1. FlagsOK'
    BY <1>2, <1>4, <1>7 DEF TypeOK, FlagsOK
  <2> QED
    BY <2>1, <1>1, <1>2, <1>4, <1>6, <1>7, TypeParts DEF TypeOK
<1>12. NoOverlappingOps'
  BY <1>8, <1>10 DEF IInv, NoOverlappingOps, Op
<1>13. (QueueBounded /\ InOrder /\ NothingAfterClose /\ EofOnce)'
  BY <1>2, <1>6, <1>8, LimitAssumption DEF IInv, QueueBounded, InOrder, NothingAfterClose, EofOnce
<1>14. NoStall'
  BY <1>2, <1>4, <1>6, <1>8, <1>9, <1>10, LimitAssumption DEF IInv, NoStall, Op
<1>15. StageInv'
  BY <1>2, <1>8, <1>10 DEF IInv, StageInv, Op
<1>16. ReadInv' /\ WriteInv'
  BY <1>2, <1>6, <1>8, <1>10, LimitAssumption DEF IInv, ReadInv, WriteInv, WriteHasItem
<1>17. OrderInv'
  <2>1. Len(items') <= handled' /\ handled' - Len(items') = handled - Len(items)
    BY <1>1, <1>4, <1>6 DEF IInv, OrderInv
  <2>2. \A k \in 1..Len(items') : items'[k].id = handled' - Len(items') + k
    <3> SUFFICES ASSUME NEW k \in 1..Len(items') PROVE items'[k].id = handled' - Len(items') + k
      OBVIOUS
    <3>1. CASE k \in 1..Len(items)
      BY <3>1, <2>1, <1>6 DEF IInv, OrderInv
    <3>2. CASE k = Len(items) + 1
      BY <3>2, <2>1, <1>1, <1>3, <1>4, <1>6
    <3> QED
      BY <3>1, <3>2, <1>6
  <2>3. (pending'["write"] > 0 \/ items' = <<>>) => Len(written') = handled' - Len(items')
    BY <2>1, <1>2, <1>6, <1>10 DEF IInv, OrderInv
  <2>4. \A k \in 1..Len(written') : written'[k].eof => eofs'["write"] > 0
    BY <1>2 DEF IInv, OrderInv
  <2> QED
    BY <2>1, <2>2, <2>3, <2>4 DEF OrderInv
<1> QED
  BY <1>11, <1>12, <1>13, <1>14, <1>15, <1>16, <1>17 DEF IInv

\* While a response is being written it continues the sequence of the written
\* ones, and none of those was a closing one.
LEMMA WritingNext ==
  ASSUME IInv, pending["write"] > 0
  PROVE  /\ items # <<>> /\ Len(items) > 0 /\ Len(items) \in Nat
         /\ kind # "detect" /\ pending["handshake"] = 0
         /\ pending["write"] = 1
         /\ eofs["write"] = 0
         /\ Len(written) = handled - Len(items)
         /\ Head(items) \in Response
         /\ Head(items).id = Len(written) + 1
         /\ \A k \in 1..Len(written) : ~written[k].eof
<1>1. /\ pending \in [Op -> Nat] /\ items \in Seq(Response) /\ written \in Seq(Response)
      /\ handled \in Nat /\ eofs["write"] \in Nat
  BY DEF IInv, TypeOK
<1>2. items # <<>> /\ eofs["write"] = 0 /\ pending["write"] = 1
  BY <1>1 DEF IInv, WriteInv, WriteHasItem, NoOverlappingOps, Op
<1>3. Len(items) > 0 /\ Len(items) \in Nat /\ Head(items) = items[1] /\ items[1] \in Response
  BY <1>1, <1>2
<1>4. kind # "detect" /\ pending["handshake"] = 0
  BY <1>1, <1>2 DEF IInv, StageInv, Op
<1>5. Len(written) = handled - Len(items) /\ \A k \in 1..Len(written) : ~written[k].eof
  BY <1>1, <1>2 DEF IInv, OrderInv
<1>6. items[1].id = handled - Len(items) + 1
  BY <1>3 DEF IInv, OrderInv
<1> QED
  BY <1>2, <1>3, <1>4, <1>5, <1>6

\* The end of the request stream.
LEMMA ReadEofStep == IInv /\ on_read_eof => IInv'
<1> SUFFICES ASSUME IInv, on_read_eof PROVE IInv'
  OBVIOUS
<1>1. /\ pending["read"] > 0 /\ over' = TRUE /\ Switch("read", EofOps)
      /\ eofs' = [eofs EXCEPT !["read"] = @ + 1]
      /\ UNCHANGED <<kind, open, items, handled, written, running>>
  BY DEF on_read_eof, do_eof, Succeeds
<1>2. TypeOK /\ pending \in [Op -> Nat] /\ eofs \in [{"read", "write"} -> Nat]
  BY DEF IInv, TypeOK
<1>3. /\ pending' \in [Op -> Nat]
      /\ doomed' \subseteq Op
      /\ \A p \in Op : pending'[p] = (IF p = "read" THEN pending[p] - 1 ELSE pending[p])
                              + (IF p \in EofOps THEN 1 ELSE 0)
  <2>1. "read" \in Op /\ EofOps \in SUBSET Op
    BY DEF Op, EofOps
  <2> QED
    BY <1>1, <1>2, <2>1, SwitchEffect
<1>4. /\ pending["read"] = 1 /\ eofs["read"] = 0 /\ Len(items) < Limit
      /\ kind # "detect" /\ pending["handshake"] = 0
  BY <1>1, <1>2 DEF IInv, NoOverlappingOps, ReadInv, StageInv, Op
<1>5. pending'["read"] = 0 /\ \A p \in Op \ {"read", "shutdown"} : pending'[p] = pending[p]
  <2>1. \A p \in Op \ {"shutdown"} : p \notin EofOps
    BY DEF EofOps
  <2>2. pending'["read"] = 0
    BY <2>1, <1>3, <1>4 DEF Op
  <2>3. \A p \in Op \ {"read", "shutdown"} : pending'[p] = pending[p]
    BY <2>1, <1>2, <1>3
  <2> QED
    BY <2>2, <2>3
<1>6. eofs' \in [{"read", "write"} -> Nat] /\ eofs'["read"] = 1 /\ eofs'["write"] = eofs["write"]
  BY <1>1, <1>2, <1>4
<1>7. TypeOK'
  <2>1. FlagsOK'
    BY <1>1, <1>2, <1>3 DEF TypeOK, FlagsOK
  <2> QED
    BY <2>1, <1>1, <1>2, <1>3, <1>6, TypeParts DEF TypeOK
<1>8. NoOverlappingOps'
  BY <1>4, <1>5 DEF IInv, NoOverlappingOps, Op
<1>9. (QueueBounded /\ InOrder /\ NothingAfterClose)'
  BY <1>1 DEF IInv, QueueBounded, InOrder, NothingAfterClose
<1>10. EofOnce' /\ NoStall'
  BY <1>1, <1>6 DEF IInv, EofOnce, NoStall
<1>11. StageInv'
  BY <1>1, <1>4, <1>5 DEF IInv, StageInv, Op
<1>12. ReadInv' /\ WriteInv'
  BY <1>1, <1>4, <1>5, <1>6 DEF IInv, ReadInv, WriteInv, WriteHasItem, Op
<1>13. OrderInv'
  BY <1>1, <1>5, <1>6 DEF IInv, OrderInv, Op
<1> QED
  BY <1>7, <1>8, <1>9, <1>10, <1>11, <1>12, <1>13 DEF IInv

\* A closing response has been written.
LEMMA WriteCloseStep == IInv /\ on_write_close => IInv'
<1> SUFFICES ASSUME IInv, on_write_close PROVE IInv'
  OBVIOUS
<1>1. /\ pending["write"] > 0 /\ over' = TRUE /\ Switch("write", EofOps)
      /\ written' = Append(written, Head(items))
      /\ eofs' = [eofs EXCEPT !["write"] = @ + 1]
      /\ UNCHANGED <<kind, open, items, handled, running>>
  BY DEF on_write_close, do_eof, Succeeds
<1>2. /\ TypeOK /\ pending \in [Op -> Nat] /\ eofs \in [{"read", "write"} -> Nat]
      /\ written \in Seq(Response) /\ handled \in Nat
  BY DEF IInv, TypeOK
<1>3. /\ items # <<>> /\ kind # "detect" /\ pending["handshake"] = 0
      /\ pending["write"] = 1 /\ eofs["write"] = 0
      /\ Head(items) \in Response /\ Head(items).id = Len(written) + 1
      /\ \A k \in 1..Len(written) : ~written[k].eof
  BY <1>1, WritingNext
<1>4. /\ pending' \in [Op -> Nat]
      /\ doomed' \subseteq Op
      /\ \A p \in Op : pending'[p] = (IF p = "write" THEN pending[p] - 1 ELSE pending[p])
                              + (IF p \in EofOps THEN 1 ELSE 0)
  <2>1. "write" \in Op /\ EofOps \in SUBSET Op
    BY DEF Op, EofOps
  <2> QED
    BY <1>1, <1>2, <2>1, SwitchEffect
<1>5. pending'["write"] = 0 /\ \A p \in Op \ {"write", "shutdown"} : pending'[p] = pending[p]
  <2>1. \A p \in Op \ {"shutdown"} : p \notin EofOps
    BY DEF EofOps
  <2>2. pending'["write"] = 0
    BY <2>1, <1>4, <1>3 DEF Op
  <2>3. \A p \in Op \ {"write", "shutdown"} : pending'[p] = pending[p]
    BY <2>1, <1>2, <1>4
  <2> QED
    BY <2>2, <2>3
<1>6. eofs' \in [{"read", "write"} -> Nat] /\ eofs'["write"] = 1 /\ eofs'["read"] = eofs["read"]
  BY <1>1, <1>2, <1>3
<1>7. /\ written' \in Seq(Response) /\ Len(written') = Len(written) + 1
      /\ \A k \in 1..Len(written) : written'[k] = written[k]
      /\ written'[Len(written) + 1] = Head(items)
      /\ Len(written) \in Nat
  BY <1>1, <1>2, <1>3
<1>8. TypeOK'
  <2>1. FlagsOK'
    BY <1>1, <1>2, <1>4 DEF TypeOK, FlagsOK
  <2> QED
    BY <2>1, <1>1, <1>2, <1>4, <1>6, <1>7, TypeParts DEF TypeOK
<1>9. NoOverlappingOps' /\ QueueBounded'
  BY <1>1, <1>3, <1>5 DEF IInv, NoOverlappingOps, QueueBounded, Op
<1>10. InOrder'
  BY <1>3, <1>7 DEF IInv, InOrder
<1>11. NothingAfterClose'
  BY <1>3, <1>7 DEF NothingAfterClose
<1>12. EofOnce' /\ NoStall'
  BY <1>1, <1>6 DEF IInv, EofOnce, NoStall
<1>13. StageInv'
  BY <1>1, <1>3, <1>5 DEF IInv, StageInv, Op
<1>14. ReadInv' /\ WriteInv'
  BY <1>1, <1>3, <1>5, <1>6 DEF IInv, ReadInv, WriteInv, WriteHasItem, Op
<1>15. OrderInv'
  BY <1>1, <1>3, <1>5, <1>6 DEF IInv, OrderInv, Op
<1> QED
  BY <1>8, <1>9, <1>10, <1>11, <1>12, <1>13, <1>14, <1>15 DEF IInv

\* The written response leaves the queue, the next one is started, and reading
\* resumes if the queue had been full.
LEMMA WriteNextStep == IInv /\ on_write_next => IInv'
<1> SUFFICES ASSUME IInv, on_write_next PROVE IInv'
  OBVIOUS
<1>1. /\ pending["write"] > 0 /\ ~Head(items).eof
      /\ written' = Append(written, Head(items))
      /\ items' = Tail(items)
      /\ Switch("write", AfterWrite(items))
      /\ UNCHANGED <<kind, open, handled, eofs, over, running>>
  BY DEF on_write_next, Succeeds
<1>2. /\ TypeOK /\ pending \in [Op -> Nat] /\ items \in Seq(Response)
      /\ written \in Seq(Response) /\ handled \in Nat
  BY DEF IInv, TypeOK
<1>3. /\ items # <<>> /\ Len(items) > 0 /\ Len(items) \in Nat
      /\ kind # "detect" /\ pending["handshake"] = 0
      /\ pending["write"] = 1 /\ eofs["write"] = 0
      /\ Len(written) = handled - Len(items)
      /\ Head(items) \in Response /\ Head(items).id = Len(written) + 1
      /\ \A k \in 1..Len(written) : ~written[k].eof
  BY <1>1, WritingNext
<1>4. /\ items' \in Seq(Response) /\ Len(items') = Len(items) - 1
      /\ \A k \in 1..Len(items') : items'[k] = items[k + 1]
      /\ items' = <<>> <=> Len(items) = 1
  BY <1>1, <1>2, <1>3, TailFacts
<1>5. /\ written' \in Seq(Response) /\ Len(written') = Len(written) + 1
      /\ \A k \in 1..Len(written) : written'[k] = written[k]
      /\ written'[Len(written) + 1] = Head(items)
      /\ Len(written) \in Nat
  <2>1. written \in Seq(Response) /\ Head(items) \in Response
    BY <1>2, <1>3
  <2> QED
    BY <2>1, <1>1, AppendFacts
<1>6. /\ pending' \in [Op -> Nat]
      /\ doomed' \subseteq Op
      /\ \A p \in Op : pending'[p] = (IF p = "write" THEN pending[p] - 1 ELSE pending[p])
                              + (IF p \in AfterWrite(items) THEN 1 ELSE 0)
  <2>1. "write" \in Op /\ AfterWrite(items) \in SUBSET Op
    BY DEF Op, AfterWrite
  <2> QED
    BY <1>1, <1>2, <2>1, SwitchEffect
<1>7. /\ Len(items) <= Limit
      /\ pending["read"] > 0 => Len(items) < Limit
      /\ pending["read"] \in Nat
      /\ eofs["read"] > 0 => pending["read"] = 0 /\ Len(items) < Limit
  BY <1>2 DEF IInv, QueueBounded, ReadInv, Op
<1>8. /\ pending'["write"] = IF items' = <<>> THEN 0 ELSE 1
      /\ pending'["read"] = IF Len(items) < Limit THEN pending["read"] ELSE 1
      /\ \A p \in Op \ {"read", "write"} : pending'[p] = pending[p]
  <2>1. "write" \in AfterWrite(items) <=> items' # <<>>
    BY <1>1 DEF AfterWrite
  <2>2. "read" \in AfterWrite(items) <=> ~(Len(items) < Limit)
    BY <1>3, LimitAssumption DEF AfterWrite, is_full
  <2>3. \A p \in AfterWrite(items) : p \in {"read", "write"}
    BY DEF AfterWrite
  <2>4. pending'["write"] = IF items' = <<>> THEN 0 ELSE 1
    BY <1>3, <1>6, <2>1 DEF Op
  <2>5. pending'["read"] = IF Len(items) < Limit THEN pending["read"] ELSE 1
    BY <1>6, <1>7, <2>2, LimitAssumption DEF Op
  <2>6. \A p \in Op \ {"read", "write"} : pending'[p] = pending[p]
    BY <1>2, <1>6, <2>3
  <2> QED
    BY <2>4, <2>5, <2>6
<1>9. TypeOK'
  <2>1. FlagsOK'
    BY <1>1, <1>2, <1>6 DEF TypeOK, FlagsOK
  <2> QED
    BY <2>1, <1>1, <1>2, <1>4, <1>5, <1>6, TypeParts DEF TypeOK
<1>10. NoOverlappingOps'
  BY <1>8 DEF IInv, NoOverlappingOps, Op
<1>11. QueueBounded' /\ EofOnce'
  BY <1>1, <1>3, <1>4, LimitAssumption DEF IInv, QueueBounded, EofOnce
<1>12. InOrder'
  BY <1>3, <1>5 DEF IInv, InOrder
<1>13. NothingAfterClose'
  BY <1>1, <1>3, <1>5 DEF NothingAfterClose
<1>14. NoStall'
  BY <1>1, <1>3, <1>4, <1>7, <1>8, LimitAssumption DEF IInv, NoStall, Op
<1>15. StageInv'
  BY <1>1, <1>3, <1>8 DEF IInv, StageInv, Op
<1>16. ReadInv' /\ WriteInv'
  BY <1>1, <1>3, <1>4, <1>7, <1>8, LimitAssumption DEF ReadInv, WriteInv, WriteHasItem
<1>17. OrderInv'
  <2>1. Len(items') <= handled' /\ Len(written') = handled' - Len(items')
    <3>1. Len(items) <= handled
      BY DEF IInv, OrderInv
    <3> QED
      BY <3>1, <1>1, <1>2, <1>3, <1>4, <1>5
  <2>2. \A k \in 1..Len(items') : items'[k].id = handled' - Len(items') + k
    BY <1>1, <1>2, <1>3, <1>4 DEF IInv, OrderInv
  <2>3. \A k \in 1..Len(written') : written'[k].eof => eofs'["write"] > 0
    BY <1>1, <1>3, <1>5
  <2> QED
    BY <2>1, <2>2, <2>3 DEF OrderInv
<1> QED
  BY <1>9, <1>10, <1>11, <1>12, <1>13, <1>14, <1>15, <1>16, <1>17 DEF IInv

\* The queue protocol is inductive: whatever handler runs next, timeout, stop
\* and failure included, IInv is preserved.
THEOREM IInvInductive == IInv /\ [Next]_vars => IInv'
<1> SUFFICES ASSUME IInv, [Next]_vars PROVE IInv'
  OBVIOUS
<1>1. CASE on_run \/ on_detect \/ on_handshake
  BY <1>1, SetupSteps
<1>2. CASE on_read
  BY <1>2, RequestStep, ReadEofStep, HaltStep, FailsStep DEF on_read, on_read_throw, Op
<1>3. CASE on_write
  BY <1>3, WriteCloseStep, WriteNextStep, FailsStep DEF on_write, Op
<1>4. CASE on_shutdown
  BY <1>4, ShutdownStep
<1>5. CASE Timeout
  BY <1>5, TimeoutStep
<1>6. CASE Stop
  BY <1>6, HaltStep DEF Stop
<1>7. CASE UNCHANGED vars
  BY <1>7 DEF vars, IInv, TypeOK, NoOverlappingOps, QueueBounded, InOrder, NothingAfterClose,
              EofOnce, NoStall, StageInv, SendShut, ReadInv, WriteInv, WriteHasItem, OrderInv
<1> QED
  BY <1>1, <1>2, <1>3, <1>4, <1>5, <1>6, <1>7 DEF Next

\* All parts of the invariant hold in every reachable state of a connection.
THEOREM SessionInvariant == Spec => []IInv
<1>1. Init => IInv
  BY InitIInv
<1>2. IInv /\ [Next]_vars => IInv'
  BY IInvInductive
<1> QED
  BY <1>1, <1>2, PTL DEF Spec

\* Type correctness of the session state.
THEOREM SessionTypes == Spec => []TypeOK
<1>1. IInv => TypeOK
  BY DEF IInv
<1> QED
  BY <1>1, SessionInvariant, PTL

\* do_read and the queue never start an operation that is still outstanding.
THEOREM SessionNoOverlap == Spec => []NoOverlappingOps
<1>1. IInv => NoOverlappingOps
  BY DEF IInv
<1> QED
  BY <1>1, SessionInvariant, PTL

\* The queue never holds more than Limit responses.
THEOREM SessionQueueBounded == Spec => []QueueBounded
<1>1. IInv => QueueBounded
  BY DEF IInv
<1> QED
  BY <1>1, SessionInvariant, PTL

\* The assertion in queue::on_write never fails.
THEOREM SessionWriteHasItem == Spec => []WriteHasItem
<1>1. IInv => WriteHasItem
  BY DEF IInv, WriteInv
<1> QED
  BY <1>1, SessionInvariant, PTL

\* Responses leave in the order of their requests.
THEOREM SessionInOrder == Spec => []InOrder
<1>1. IInv => InOrder
  BY DEF IInv
<1> QED
  BY <1>1, SessionInvariant, PTL

\* A session without error or close is always reading, writing or both.
THEOREM SessionNoStall == Spec => []NoStall
<1>1. IInv => NoStall
  BY DEF IInv
<1> QED
  BY <1>1, SessionInvariant, PTL

\* A closing response is the last one written.
THEOREM SessionNothingAfterClose == Spec => []NothingAfterClose
<1>1. IInv => NothingAfterClose
  BY DEF IInv
<1> QED
  BY <1>1, SessionInvariant, PTL

\* on_read and on_write each call do_eof at most once.
THEOREM SessionEofOnce == Spec => []EofOnce
<1>1. IInv => EofOnce
  BY DEF IInv
<1> QED
  BY <1>1, SessionInvariant, PTL
=============================================================================
