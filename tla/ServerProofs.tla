---------------------------- MODULE ServerProofs ----------------------------
(***************************************************************************)
(* Proofs about Server, for any number of clients, threads and descriptors *)
(* and any configuration.                                                  *)
(***************************************************************************)
EXTENDS Server, FiniteSetTheorems, SequenceTheorems, TLAPS

----------------------------------------------------------------------------
(* Configuration                                                           *)

\* What an unsigned integer of Width bits is taken modulo.
LEMMA ModulusType == 2^Width \in Nat /\ ThreadLimit + 1 < 2^Width
  BY BoundsAssumption, LimitAssumption

\* A predecessor without a sign: that of 0 is the largest number.
LEMMA Predecessor ==
  ASSUME NEW m \in Nat \ {0}, NEW n \in 0..m
  PROVE  (n - 1) % m = IF n = 0 THEN m - 1 ELSE n - 1
  OBVIOUS

\* threads of config.toml, or its default, is what main() counts with: it is
\* the number of workers plus one unless it is 0.
LEMMA WorkersValue ==
  ASSUME config \in Configs
  PROVE  Workers = IF get_config_threads = 0 THEN 2^Width - 1 ELSE get_config_threads - 1
  <1>1. get_config_threads \in 0..2^Width
    BY ModulusType, ConfigsAssumption, BoundsAssumption DEF get_config_threads, value
  <1> QED
    BY <1>1, ModulusType, BoundsAssumption, Predecessor DEF Workers

----------------------------------------------------------------------------
(* Counting handlers                                                       *)

\* The threads are finitely many numbers, the main thread among them.
LEMMA ThreadsType == Threads \subseteq Nat /\ IsFiniteSet(Threads) /\ Main \in Threads
  BY BoundsAssumption, FS_Interval DEF Threads, Main

\* Finitely many handlers of any kind are in the queue.
LEMMA PositionsFinite ==
  ASSUME NEW queue \in Seq(Handler), NEW S
  PROVE  IsFiniteSet(Positions(queue, S)) /\ Cardinality(Positions(queue, S)) \in Nat
  <1>1. Positions(queue, S) \in SUBSET (1..Len(queue)) /\ Len(queue) \in Nat
    BY DEF Positions
  <1>2. IsFiniteSet(1..Len(queue))
    BY <1>1, FS_Interval
  <1>3. IsFiniteSet(Positions(queue, S))
    BY <1>1, <1>2, FS_Subset
  <1> QED
    BY <1>3, FS_CardinalityType

\* Finitely many threads run handlers of any kind.
LEMMA HoldersFinite ==
  ASSUME NEW held, NEW S
  PROVE  IsFiniteSet(Holders(held, S)) /\ Cardinality(Holders(held, S)) \in Nat
  <1>1. Holders(held, S) \in SUBSET Threads
    BY DEF Holders
  <1> QED
    BY <1>1, ThreadsType, FS_Subset, FS_CardinalityType

\* A handler at the end of the queue is one more.
LEMMA PositionsPost ==
  ASSUME NEW queue \in Seq(Handler), NEW h \in Handler, NEW S
  PROVE  Cardinality(Positions(post(queue, h), S))
         = Cardinality(Positions(queue, S)) + (IF h \in S THEN 1 ELSE 0)
  <1> DEFINE n == Len(queue) + 1
  <1>1. IsFiniteSet(Positions(queue, S)) /\ Cardinality(Positions(queue, S)) \in Nat
    BY PositionsFinite
  <1>2. n \notin Positions(queue, S)
    BY DEF Positions
  <1>3. Positions(post(queue, h), S)
        = IF h \in S THEN Positions(queue, S) \cup {n} ELSE Positions(queue, S)
    BY DEF post, Positions
  <1>4. Cardinality(Positions(queue, S) \cup {n}) = Cardinality(Positions(queue, S)) + 1
    BY <1>1, <1>2, FS_AddElement
  <1> QED
    BY <1>1, <1>3, <1>4

\* The oldest handler is taken out of the queue.
LEMMA PositionsTail ==
  ASSUME NEW queue \in Seq(Handler), queue # <<>>, NEW S
  PROVE  Cardinality(Positions(queue, S))
         = Cardinality(Positions(Tail(queue), S)) + (IF Head(queue) \in S THEN 1 ELSE 0)
  <1> DEFINE f == [i \in Positions(Tail(queue), S) |-> i + 1]
  <1>1. /\ IsFiniteSet(Positions(Tail(queue), S))
        /\ IsFiniteSet(Positions(queue, S)) /\ Cardinality(Positions(queue, S)) \in Nat
    BY PositionsFinite, HeadTailProperties
  <1>2. f \in Bijection(Positions(Tail(queue), S), Positions(queue, S) \ {1})
    <2>1. f \in [Positions(Tail(queue), S) -> Positions(queue, S) \ {1}]
      BY DEF Positions
    <2>2. \A i, j \in Positions(Tail(queue), S) : f[i] = f[j] => i = j
      BY DEF Positions
    <2>3. \A j \in Positions(queue, S) \ {1} : \E i \in Positions(Tail(queue), S) : f[i] = j
      <3> TAKE j \in Positions(queue, S) \ {1}
      <3>1. j \in 2..Len(queue) /\ queue[j] \in S
        BY DEF Positions
      <3>2. j - 1 \in DOMAIN Tail(queue) /\ Tail(queue)[j - 1] = queue[j]
        BY <3>1
      <3>3. j - 1 \in Positions(Tail(queue), S)
        BY <3>1, <3>2 DEF Positions
      <3> QED
        BY <3>1, <3>3
    <2> HIDE DEF f
    <2> QED
      BY <2>1, <2>2, <2>3 DEF Bijection, Injection, IsInjective, Surjection
  <1>3. Cardinality(Positions(queue, S) \ {1}) = Cardinality(Positions(Tail(queue), S))
    BY <1>1, <1>2, FS_Bijection DEF ExistsBijection
  <1>4. (1 \in Positions(queue, S)) <=> (Head(queue) \in S)
    BY DEF Positions
  <1>5. Cardinality(Positions(queue, S) \ {1})
        = IF 1 \in Positions(queue, S) THEN Cardinality(Positions(queue, S)) - 1
          ELSE Cardinality(Positions(queue, S))
    BY <1>1, FS_RemoveElement
  <1> QED
    BY <1>1, <1>3, <1>4, <1>5

\* A thread exchanges what it runs.
LEMMA HoldersStep ==
  ASSUME NEW t \in Threads, NEW S, \A u \in Threads \ {t} : handler'[u] = handler[u]
  PROVE  Cardinality(Holders(handler', S))
         = Cardinality(Holders(handler, S)) - (IF handler[t] \in S THEN 1 ELSE 0)
                                            + (IF handler'[t] \in S THEN 1 ELSE 0)
  <1> DEFINE R == Holders(handler, S) \ {t}
  <1>1. IsFiniteSet(Holders(handler, S)) /\ Cardinality(Holders(handler, S)) \in Nat
    BY HoldersFinite
  <1>2. IsFiniteSet(R) /\ t \notin R
    BY <1>1, FS_RemoveElement
  <1>3. Holders(handler', S) = IF handler'[t] \in S THEN R \cup {t} ELSE R
    BY DEF Holders
  <1>4. (t \in Holders(handler, S)) <=> (handler[t] \in S)
    BY DEF Holders
  <1>5. Cardinality(R) = IF t \in Holders(handler, S) THEN Cardinality(Holders(handler, S)) - 1
                         ELSE Cardinality(Holders(handler, S))
    BY <1>1, FS_RemoveElement
  <1>6. Cardinality(R \cup {t}) = Cardinality(R) + 1
    BY <1>2, FS_AddElement
  <1> QED
    BY <1>1, <1>3, <1>4, <1>5, <1>6

----------------------------------------------------------------------------
(* What steps do to the counts                                             *)

\* Handlers are counted in the queue and in the threads, before and after a step.
LEMMA CountDef ==
  ASSUME NEW S
  PROVE  /\ Count(S) = Cardinality(Positions(ready, S)) + Cardinality(Holders(handler, S))
         /\ Count(S)' = Cardinality(Positions(ready', S)) + Cardinality(Holders(handler', S))
  BY DEF Count

\* There are finitely many handlers of any kind.
LEMMA CountNat ==
  ASSUME TypeOK, NEW S
  PROVE  Count(S) \in Nat
  <1>1. Cardinality(Positions(ready, S)) \in Nat /\ Cardinality(Holders(handler, S)) \in Nat
    BY PositionsFinite, HoldersFinite DEF TypeOK
  <1> QED
    BY <1>1, CountDef

\* Taking a handler moves it.
LEMMA CountTake ==
  ASSUME TypeOK, NEW t \in Threads, take(t), NEW S, None \notin S
  PROVE  Count(S)' = Count(S)
  <1>1. ready \in Seq(Handler) /\ ready # <<>> /\ handler \in [Threads -> Handler \cup {None}]
    BY DEF TypeOK, take
  <1>2. ready' = Tail(ready) /\ handler'[t] = Head(ready)
    BY <1>1 DEF take
  <1>3. handler[t] \notin S /\ \A u \in Threads \ {t} : handler'[u] = handler[u]
    BY <1>1 DEF take
  <1>4. Cardinality(Positions(ready, S))
        = Cardinality(Positions(ready', S)) + (IF Head(ready) \in S THEN 1 ELSE 0)
    BY <1>1, <1>2, PositionsTail
  <1>5. Cardinality(Holders(handler', S))
        = Cardinality(Holders(handler, S)) + (IF handler'[t] \in S THEN 1 ELSE 0)
    BY <1>3, HoldersStep, HoldersFinite
  <1>6. Cardinality(Positions(ready', S)) \in Nat /\ Cardinality(Holders(handler, S)) \in Nat
    BY <1>1, <1>2, PositionsFinite, HoldersFinite, HeadTailProperties
  <1> QED
    BY <1>2, <1>4, <1>5, <1>6, CountDef

\* A thread exchanges its handler, and the queue stays.
LEMMA CountExchange ==
  ASSUME TypeOK, NEW t \in Threads, \A u \in Threads \ {t} : handler'[u] = handler[u],
         ready' = ready, NEW S
  PROVE  /\ Count(S) \in Nat
         /\ Count(S)' = Count(S) - (IF handler[t] \in S THEN 1 ELSE 0)
                                 + (IF handler'[t] \in S THEN 1 ELSE 0)
  <1>1. Cardinality(Holders(handler', S))
        = Cardinality(Holders(handler, S)) - (IF handler[t] \in S THEN 1 ELSE 0)
                                           + (IF handler'[t] \in S THEN 1 ELSE 0)
    BY HoldersStep
  <1>2. Cardinality(Holders(handler, S)) \in Nat /\ Cardinality(Positions(ready, S)) \in Nat
    BY HoldersFinite, PositionsFinite DEF TypeOK
  <1>3. /\ Count(S) = Cardinality(Positions(ready, S)) + Cardinality(Holders(handler, S))
        /\ Count(S)' = Cardinality(Positions(ready, S)) + Cardinality(Holders(handler', S))
    BY CountDef
  <1>4. CASE handler[t] \in S
    BY <1>1, <1>2, <1>3, <1>4
  <1>5. CASE handler[t] \notin S
    BY <1>1, <1>2, <1>3, <1>5
  <1> QED
    BY <1>4, <1>5

\* A handler that is posted is one more.
LEMMA CountPost ==
  ASSUME TypeOK, NEW h \in Handler, ready' = post(ready, h), NEW S
  PROVE  /\ Cardinality(Positions(ready, S)) \in Nat
         /\ Cardinality(Positions(ready', S)) \in Nat
         /\ Cardinality(Positions(ready', S))
            = Cardinality(Positions(ready, S)) + (IF h \in S THEN 1 ELSE 0)
  BY PositionsPost, PositionsFinite DEF TypeOK

\* A handler that some thread runs is counted.
LEMMA CountHeld ==
  ASSUME TypeOK, NEW t \in Threads, NEW S, handler[t] \in S
  PROVE  Count(S) > 0
  <1>1. Holders(handler, S) # {}
    BY DEF Holders
  <1>2. Cardinality(Holders(handler, S)) # 0
    BY <1>1, HoldersFinite, FS_EmptySet
  <1> QED
    BY <1>2, HoldersFinite, PositionsFinite, CountDef DEF TypeOK

\* A handler is posted, and no thread changes its own.
LEMMA CountArrives ==
  ASSUME TypeOK, NEW h \in Handler, ready' = post(ready, h), handler' = handler, NEW S
  PROVE  /\ Count(S) \in Nat
         /\ Count(S)' = Count(S) + (IF h \in S THEN 1 ELSE 0)
  <1>1. Cardinality(Holders(handler, S)) \in Nat
    BY HoldersFinite
  <1> QED
    BY <1>1, CountPost, CountDef

\* A thread is done with its handler.
LEMMA HoldersDone ==
  ASSUME TypeOK, NEW t \in Threads, Done(t), NEW S, None \notin S
  PROVE  /\ Cardinality(Holders(handler, S)) \in Nat
         /\ Cardinality(Holders(handler', S))
            = Cardinality(Holders(handler, S)) - (IF handler[t] \in S THEN 1 ELSE 0)
  <1>1. handler \in [Threads -> Handler \cup {None}]
    BY DEF TypeOK
  <1>2. handler'[t] = None /\ \A u \in Threads \ {t} : handler'[u] = handler[u]
    BY <1>1 DEF Done
  <1> QED
    BY <1>2, HoldersStep, HoldersFinite

\* A thread is done with its handler, and one is posted.
LEMMA CountReplaced ==
  ASSUME TypeOK, NEW t \in Threads, Done(t), NEW h \in Handler, ready' = post(ready, h),
         NEW S, None \notin S
  PROVE  /\ Count(S) \in Nat
         /\ Count(S)' = Count(S) - (IF handler[t] \in S THEN 1 ELSE 0) + (IF h \in S THEN 1 ELSE 0)
  BY HoldersDone, CountPost, CountDef

\* Which handlers are accepts of a listener, bring a client, belong to an
\* operation of a session, or run its strand.
LEMMA HandlerKinds ==
  /\ \A p \in Ports, c \in Clients \cup {None} : Accepted(p, c) \in Handler
  /\ \A c \in Clients : Completed(c) \in Handler /\ Invoker(c) \in Handler
  /\ Signal \in Handler
  /\ \A p \in Ports : None \notin AcceptsOf(p) /\ Signal \notin AcceptsOf(p)
  /\ \A c \in Clients : None \notin ArrivalsOf(c) /\ Signal \notin ArrivalsOf(c)
  /\ \A c \in Clients : None # Completed(c) /\ None # Invoker(c)
  /\ \A c \in Clients : Signal # Completed(c) /\ Signal # Invoker(c)
  /\ \A p, q \in Ports, c \in Clients \cup {None} : Accepted(p, c) \in AcceptsOf(q) <=> p = q
  /\ \A p \in Ports, c \in Clients, d \in Clients \cup {None} :
        Accepted(p, d) \in ArrivalsOf(c) <=> c = d
  /\ \A p \in Ports, c \in Clients, d \in Clients \cup {None} :
        Accepted(p, d) # Completed(c) /\ Accepted(p, d) # Invoker(c)
  /\ \A p \in Ports, c \in Clients : Completed(c) \notin AcceptsOf(p) /\ Invoker(c) \notin AcceptsOf(p)
  /\ \A c, d \in Clients : /\ Completed(d) \notin ArrivalsOf(c) /\ Invoker(d) \notin ArrivalsOf(c)
                           /\ Completed(d) = Completed(c) <=> c = d
                           /\ Invoker(d) = Invoker(c) <=> c = d
                           /\ Completed(d) # Invoker(c)
  BY NoneAssumption, HandlerAssumption
  DEF Handler, Accepted, Completed, Invoker, Signal, AcceptsOf, ArrivalsOf

\* A handler is known by its kind and what it brings.
LEMMA HandlerRuns ==
  ASSUME TypeOK, NEW t \in Threads
  PROVE  /\ Runs(t, "on_accept") =>
               \E p \in Ports, c \in Clients \cup {None} :
                  handler[t] = Accepted(p, c) /\ handler[t].port = p /\ handler[t].client = c
         /\ Runs(t, "completed") =>
               \E c \in Clients : handler[t] = Completed(c) /\ handler[t].client = c
         /\ Runs(t, "invoker") =>
               \E c \in Clients : handler[t] = Invoker(c) /\ handler[t].client = c
         /\ Runs(t, "signal") => handler[t] = Signal
  BY DEF TypeOK, Runs, Handler, Accepted, Completed, Invoker, Signal

----------------------------------------------------------------------------
(* Accepts                                                                 *)

\* do_accept, client by client: the accept waits, or it is queued, with an
\* error or with a client that waited.
LEMMA AcceptOutcome ==
  ASSUME TypeOK, NEW p \in Ports, NEW acc, NEW new \in Clients \cup {None}, do_accept(p, acc, new)
  PROVE  \/ /\ ready' = ready /\ pending' = pending \cup {p} /\ Waiting(p) = {}
            /\ free' = free
            /\ \A c \in Clients : conn'[c] = IF c = new THEN "open" ELSE conn[c]
         \/ \E d \in Clients \cup {None} :
            /\ ready' = post(ready, Accepted(p, d)) /\ pending' = pending \ {p}
            /\ d = None => free' = free
            /\ d # None => conn[d] = p /\ free > 0 /\ free' = free - 1
            /\ \A c \in Clients :
                 conn'[c] = IF c = d THEN "accepted" ELSE IF c = new THEN "open" ELSE conn[c]
  <1> USE DEF do_accept, Waiting, TypeOK
  <1> DEFINE conn0 == [c \in Clients |-> IF c = new THEN "open" ELSE conn[c]]
  <1>1. CASE /\ ready' = post(ready, Accepted(p, None))
             /\ pending' = pending \ {p}
             /\ conn' = conn0 /\ UNCHANGED free
    BY <1>1, NoneAssumption
  <1>2. CASE /\ Waiting(p) = {}
             /\ pending' = pending \cup {p}
             /\ conn' = conn0 /\ UNCHANGED <<ready, free>>
    BY <1>2
  <1>3. CASE /\ free > 0 /\ pending' = pending \ {p} /\ free' = free - 1
             /\ \E c \in Waiting(p) : /\ ready' = post(ready, Accepted(p, c))
                                      /\ conn' = [conn0 EXCEPT ![c] = "accepted"]
    BY <1>3, NoneAssumption
  <1> QED
    BY <1>1, <1>2, <1>3

\* What do_accept does to the queue.
LEMMA AcceptCount ==
  ASSUME TypeOK, NEW p \in Ports, NEW d \in Clients \cup {None}, ready' = post(ready, Accepted(p, d))
  PROVE  /\ \A q \in Ports : Cardinality(Positions(ready', AcceptsOf(q)))
                = Cardinality(Positions(ready, AcceptsOf(q))) + (IF q = p THEN 1 ELSE 0)
         /\ \A c \in Clients :
              /\ Cardinality(Positions(ready', ArrivalsOf(c)))
                 = Cardinality(Positions(ready, ArrivalsOf(c))) + (IF c = d THEN 1 ELSE 0)
              /\ Cardinality(Positions(ready', {Completed(c)})) = Cardinality(Positions(ready, {Completed(c)}))
              /\ Cardinality(Positions(ready', {Invoker(c)})) = Cardinality(Positions(ready, {Invoker(c)}))
  <1>1. Accepted(p, d) \in Handler
    BY HandlerKinds
  <1>2. ASSUME NEW q \in Ports
        PROVE  Cardinality(Positions(ready', AcceptsOf(q)))
               = Cardinality(Positions(ready, AcceptsOf(q))) + (IF q = p THEN 1 ELSE 0)
    <2>1. Accepted(p, d) \in AcceptsOf(q) <=> p = q
      BY HandlerKinds
    <2> QED
      BY <1>1, <2>1, CountPost
  <1>3. ASSUME NEW c \in Clients
        PROVE  Cardinality(Positions(ready', ArrivalsOf(c)))
               = Cardinality(Positions(ready, ArrivalsOf(c))) + (IF c = d THEN 1 ELSE 0)
    <2>1. Accepted(p, d) \in ArrivalsOf(c) <=> c = d
      BY HandlerKinds
    <2> QED
      BY <1>1, <2>1, CountPost
  <1>4. ASSUME NEW c \in Clients
        PROVE  /\ Cardinality(Positions(ready', {Completed(c)})) = Cardinality(Positions(ready, {Completed(c)}))
               /\ Cardinality(Positions(ready', {Invoker(c)})) = Cardinality(Positions(ready, {Invoker(c)}))
    <2>1. Accepted(p, d) \notin {Completed(c)} /\ Accepted(p, d) \notin {Invoker(c)}
      BY HandlerKinds
    <2> QED
      BY <1>1, <2>1, CountPost
  <1> QED
    BY <1>2, <1>3, <1>4

----------------------------------------------------------------------------
(* Threads                                                                 *)

\* What is known about threads holds at the start.
LEMMA ThreadsInit == Init => /\ ThreadsAsConfigured
                             /\ \A t \in Threads : handler[t] # None => t \in running
                             /\ pc = "terminated" => running = {}
  BY DEF Init, ThreadsAsConfigured

\* Every step keeps the threads as configured, and handlers inside ioc.run().
LEMMA ThreadsStep ==
  ASSUME IInv, [Next]_vars
  PROVE  /\ ThreadsAsConfigured'
         /\ \A t \in Threads : handler'[t] # None => t \in running'
         /\ pc' = "terminated" => running' = {}
  <1> DEFINE I == /\ ThreadsAsConfigured
                  /\ \A t \in Threads : handler[t] # None => t \in running
                  /\ pc = "terminated" => running = {}
  <1> USE DEF ThreadsAsConfigured, get_config_threads
  <1>0. I /\ handler \in [Threads -> Handler \cup {None}] /\ running \subseteq Threads
    BY DEF IInv, TypeOK
  <1>1. CASE Terminate
    BY <1>1 DEF Terminate
  <1>2. CASE listener \/ listener2
    BY <1>0, <1>2 DEF listener, listener2, listen
  <1>3. CASE no_listener2 \/ reserve \/ run_returns
    BY <1>0, <1>3 DEF no_listener2, reserve, run_returns, MainOnly
  <1>4. CASE spawn
    BY <1>0, <1>4 DEF spawn
  <1>5. CASE run
    <2>1. created + 1 = get_config_threads
      <3>1. created = Workers /\ created \in 0..ThreadLimit /\ config \in Configs
        BY <1>5 DEF run, IInv, TypeOK
      <3>2. get_config_threads \in Int
        BY <3>1, ConfigsAssumption, ModulusType DEF value
      <3> HIDE DEF get_config_threads
      <3> QED
        BY <3>1, <3>2, WorkersValue, ModulusType, BoundsAssumption
    <2> QED
      BY <1>0, <1>5, <2>1 DEF run
  <1>6. CASE join
    BY <1>0, <1>6 DEF join, MainOnly
  <1>7. ASSUME NEW t \in Threads, thread(t)
        PROVE  I'
    <2>1. CASE take(t)
      BY <1>0, <2>1 DEF take, mainvars
    <2>2. CASE leave(t)
      BY <1>0, <2>2 DEF leave
    <2>3. CASE on_accept(t) \/ on_signal(t) \/ session_handler(t)
      BY <1>0, <2>3 DEF on_accept, on_signal, session_handler, leave_strand, Done, mainvars
    <2>4. CASE dispatch(t)
      BY <1>0, <2>4 DEF dispatch, Runs, mainvars
    <2> QED
      BY <1>7, <2>1, <2>2, <2>3, <2>4 DEF thread
  <1>8. CASE UNCHANGED <<mainvars, handler>>
    BY <1>0, <1>8 DEF mainvars
  <1> QED
    BY <1>1, <1>2, <1>3, <1>4, <1>5, <1>6, <1>7, <1>8
    DEF Next, main, reserve_throws, spawn_throws, session_throws, signal, Ended, connect,
        reactor_complete, reactor_accept, reactor_signal, vars

\* Only a process that has not been terminated takes a step.
LEMMA StepUp ==
  ASSUME IInv
  PROVE  /\ \A t \in Threads : (handler[t] # None \/ t \in running) => pc # "terminated"
         /\ Polled => pc # "terminated"
         /\ Up => pc # "terminated"
  BY DEF IInv, Polled, Up

\* An accept is one more accept of its port, queued or waiting, and touches no
\* other port.
LEMMA LoopAccept ==
  ASSUME TypeOK, NEW p \in Ports, NEW acc, NEW new \in Clients \cup {None}, do_accept(p, acc, new),
         NEW q \in Ports
  PROVE  LET n == Cardinality(Positions(ready, AcceptsOf(q)))
         IN  /\ n \in Nat
             /\ q # p => /\ Cardinality(Positions(ready', AcceptsOf(q))) = n
                         /\ (q \in pending') <=> (q \in pending)
             /\ q = p => \/ /\ Cardinality(Positions(ready', AcceptsOf(q))) = n + 1
                            /\ q \notin pending'
                         \/ /\ Cardinality(Positions(ready', AcceptsOf(q))) = n
                            /\ q \in pending'
                            /\ Waiting(q) = {}
  <1>1. Cardinality(Positions(ready, AcceptsOf(q))) \in Nat
    BY PositionsFinite DEF TypeOK
  <1>2. CASE ready' = ready /\ pending' = pending \cup {p} /\ Waiting(p) = {}
    BY <1>1, <1>2
  <1>3. ASSUME NEW d \in Clients \cup {None}, ready' = post(ready, Accepted(p, d)),
               pending' = pending \ {p}
        PROVE  /\ Cardinality(Positions(ready', AcceptsOf(q)))
                  = Cardinality(Positions(ready, AcceptsOf(q))) + (IF q = p THEN 1 ELSE 0)
               /\ (q \in pending') <=> (q \in pending /\ q # p)
    BY <1>3, AcceptCount
  <1> QED
    BY <1>1, <1>2, <1>3, AcceptOutcome

\* No accept is under way before a listener is started.
LEMMA LoopInit == Init => AcceptLoopAlive
  <1> SUFFICES ASSUME Init, NEW p \in Ports
               PROVE  Count(AcceptsOf(p)) = 0 /\ p \notin pending /\ ~Started(p)
    BY DEF AcceptLoopAlive
  <1>1. Positions(ready, AcceptsOf(p)) = {}
    BY DEF Init, Positions
  <1>2. Holders(handler, AcceptsOf(p)) = {}
    BY HandlerKinds DEF Init, Holders
  <1>3. Count(AcceptsOf(p)) = 0
    BY <1>1, <1>2, FS_EmptySet DEF Count
  <1> QED
    BY <1>3 DEF Init, Started, Ports

\* Every step keeps exactly one accept of a started listener under way.
LEMMA LoopStep ==
  ASSUME IInv, [Next]_vars
  PROVE  AcceptLoopAlive'
  <1> SUFFICES ASSUME NEW p \in Ports, pc' # "terminated"
               PROVE  Count(AcceptsOf(p))' + (IF p \in pending' THEN 1 ELSE 0)
                      = (IF Started(p)' THEN 1 ELSE 0)
    BY DEF AcceptLoopAlive
  <1> DEFINE S == AcceptsOf(p)
             Q == Cardinality(Positions(ready, S))
             H == Cardinality(Holders(handler, S))
  <1>1. TypeOK /\ Q \in Nat /\ H \in Nat
    BY PositionsFinite, HoldersFinite DEF IInv, TypeOK
  <1>2. pc # "terminated" => Q + H + (IF p \in pending THEN 1 ELSE 0) = (IF Started(p) THEN 1 ELSE 0)
    BY DEF IInv, AcceptLoopAlive, Count
  <1>3. None \notin S
    BY HandlerKinds
  <1> DEFINE Goal == Cardinality(Positions(ready', S)) + Cardinality(Holders(handler', S))
                     + (IF p \in pending' THEN 1 ELSE 0) = (IF Started(p)' THEN 1 ELSE 0)
  <1> SUFFICES Goal
    BY CountDef
  <1>4. CASE UNCHANGED <<ready, handler, pending, pc, config>>
    BY <1>2, <1>4 DEF Started, get_config_port2
  <1>5. CASE listener
    <2>1. p = "port" => Q = 0 /\ H = 0 /\ p \notin pending
      BY <1>1, <1>2, <1>5 DEF listener, Started
    <2>2. \E acc \in Outcomes : do_accept("port", acc, None)
      BY <1>5 DEF listener, listen
    <2>3. handler' = handler /\ (Started(p)' <=> p = "port") /\ (p # "port" => ~Started(p))
      BY <1>5 DEF listener, listen, Started, Ports
    <2> QED
      BY <1>1, <1>2, <1>5, <2>1, <2>2, <2>3, LoopAccept DEF listener, Ports
  <1>6. CASE listener2
    <2>1. p = "port2" => Q = 0 /\ H = 0 /\ p \notin pending
      BY <1>1, <1>2, <1>6 DEF listener2, Started
    <2>2. \E acc \in Outcomes : do_accept("port2", acc, None)
      BY <1>6 DEF listener2, listen
    <2>3. handler' = handler /\ Started(p)' /\ (p # "port2" => Started(p))
      BY <1>6 DEF listener2, listen, Started, Ports, get_config_port2
    <2> QED
      BY <1>1, <1>2, <1>6, <2>1, <2>2, <2>3, LoopAccept DEF listener2, Ports
  <1>7. CASE no_listener2 \/ reserve \/ spawn \/ run \/ run_returns \/ join
    <2>1. UNCHANGED <<ready, handler, pending, config>> /\ pc # "terminated"
      BY <1>7 DEF no_listener2, reserve, spawn, run, run_returns, join, MainOnly, netvars
    <2>2. Started(p)' <=> Started(p)
      BY <1>7 DEF no_listener2, reserve, spawn, run, run_returns, join, MainOnly, Started,
                  get_config_port2
    <2> QED
      BY <1>2, <2>1, <2>2
  <1>8. CASE reactor_signal
    <2>1. Signal \in Handler /\ Signal \notin S
      BY HandlerKinds
    <2>2. Cardinality(Positions(ready', S)) = Q
      BY <1>1, <1>8, <2>1, CountPost DEF reactor_signal
    <2> QED
      BY <1>2, <1>8, <2>2 DEF reactor_signal, netvars, mainvars, Started, get_config_port2
  <1>9. ASSUME NEW c \in Clients, reactor_complete(c)
        PROVE  Goal
    <2>1. Completed(c) \in Handler /\ Completed(c) \notin S
      BY HandlerKinds
    <2>2. Cardinality(Positions(ready', S)) = Q
      BY <1>1, <1>9, <2>1, CountPost DEF reactor_complete
    <2> QED
      BY <1>2, <1>9, <2>2 DEF reactor_complete, netvars, mainvars, Started, get_config_port2
  <1>10. ASSUME NEW q \in Ports, reactor_accept(q)
         PROVE  Goal
    <2>1. do_accept(q, acceptor[q], None) /\ q \in pending /\ Waiting(q) # {}
      BY <1>10 DEF reactor_accept
    <2>2. UNCHANGED <<handler, pc, config>>
      BY <1>10 DEF reactor_accept, mainvars
    <2> QED
      BY <1>1, <1>2, <2>1, <2>2, LoopAccept DEF Started, get_config_port2
  <1>11. ASSUME NEW t \in Threads, thread(t)
         PROVE  Goal
    <2>1. CASE take(t)
      <3>1. Count(S)' = Count(S)
        BY <1>1, <1>3, <2>1, CountTake
      <3> QED
        BY <1>2, <2>1, <3>1, CountDef DEF take, mainvars, netvars, Started, get_config_port2
    <2>2. CASE leave(t)
      BY <1>4, <2>2 DEF leave, netvars
    <2>3. CASE on_accept(t)
      <3>1. PICK q \in Ports, new \in Clients \cup {None} :
               handler[t] = Accepted(q, new) /\ handler[t].port = q /\ handler[t].client = new
        BY <1>1, <2>3, HandlerRuns DEF on_accept
      <3>2. do_accept(q, acceptor[q], new) /\ Done(t) /\ UNCHANGED <<pc, config>>
        BY <2>3, <3>1 DEF on_accept, mainvars
      <3>3. handler[t] \in S <=> p = q
        BY <3>1, HandlerKinds
      <3>4. Cardinality(Holders(handler', S)) = H - (IF p = q THEN 1 ELSE 0)
        BY <1>1, <1>3, <3>2, <3>3, HoldersDone
      <3>5. p = q => Q + H > 0
        BY <1>1, <3>3, CountHeld, CountDef
      <3>6. pc # "terminated" /\ (Started(p)' <=> Started(p))
        BY <2>3, <3>2, StepUp DEF on_accept, Runs, Started, get_config_port2
      <3>7. CASE p = q
        BY <1>1, <1>2, <3>2, <3>4, <3>5, <3>6, <3>7, LoopAccept
      <3>8. CASE p # q
        <4>1. Cardinality(Positions(ready', S)) = Q /\ (p \in pending' <=> p \in pending)
          BY <1>1, <3>2, <3>8, LoopAccept
        <4>2. Cardinality(Holders(handler', S)) = H
          BY <1>1, <3>4, <3>8
        <4> QED
          BY <1>2, <3>6, <4>1, <4>2
      <3> QED
        BY <3>7, <3>8
    <2>4. CASE on_signal(t)
      <3>1. Done(t) /\ UNCHANGED <<ready, pending, pc, config>>
        BY <2>4 DEF on_signal, netvars, mainvars
      <3>2. handler[t] \notin S
        BY <2>4 DEF on_signal, Runs, AcceptsOf
      <3>3. Cardinality(Holders(handler', S)) = H
        BY <1>1, <1>3, <3>1, <3>2, HoldersDone
      <3> QED
        BY <1>2, <3>1, <3>3 DEF Started, get_config_port2
    <2>5. CASE dispatch(t)
      <3>1. PICK c \in Clients : handler[t] = Completed(c) /\ handler[t].client = c
        BY <1>1, <2>5, HandlerRuns DEF dispatch
      <3>2. /\ handler'[t] \in {Invoker(c), None}
            /\ \A u \in Threads \ {t} : handler'[u] = handler[u]
        BY <1>1, <2>5, <3>1 DEF dispatch, TypeOK
      <3>3. handler'[t] \notin S /\ handler[t] \notin S
        BY <1>3, <3>1, <3>2, HandlerKinds
      <3>4. UNCHANGED <<ready, pending, pc, config>>
        BY <2>5 DEF dispatch, netvars, mainvars
      <3>5. /\ Count(S) \in Nat
            /\ Count(S)' = Count(S) - (IF handler[t] \in S THEN 1 ELSE 0)
                                    + (IF handler'[t] \in S THEN 1 ELSE 0)
        BY <1>1, <3>2, <3>4, CountExchange
      <3>6. Count(S)' = Count(S)
        BY <3>3, <3>5
      <3> QED
        BY <1>2, <3>4, <3>6, CountDef DEF Started, get_config_port2
    <2>6. CASE session_handler(t)
      <3>1. PICK c \in Clients : handler[t] = Invoker(c) /\ handler[t].client = c
        BY <1>1, <2>6, HandlerRuns DEF session_handler
      <3>2. /\ UNCHANGED <<pending, pc, config>> /\ Done(t)
            /\ ready' = ready \/ ready' = post(ready, Invoker(c))
        BY <2>6, <3>1 DEF session_handler, leave_strand, mainvars
      <3>3. Invoker(c) \in Handler /\ Invoker(c) \notin S
        BY HandlerKinds
      <3>4. Cardinality(Positions(ready', S)) = Q
        BY <1>1, <3>2, <3>3, CountPost
      <3>5. Cardinality(Holders(handler', S)) = H
        BY <1>1, <1>3, <3>1, <3>2, <3>3, HoldersDone
      <3> QED
        BY <1>2, <3>2, <3>4, <3>5 DEF Started, get_config_port2
    <2> QED
      BY <1>11, <2>1, <2>2, <2>3, <2>4, <2>5, <2>6 DEF thread
  <1>12. CASE signal \/ \E c \in Clients : connect(c)
    BY <1>4, <1>12 DEF signal, connect, mainvars, netvars
  <1>13. CASE Ended \/ UNCHANGED vars
    BY <1>4, <1>13 DEF Ended, vars, mainvars, netvars
  <1>14. CASE Terminate
    BY <1>14 DEF Terminate
  <1> HIDE DEF Goal
  <1> QED
    BY <1>5, <1>6, <1>7, <1>8, <1>9, <1>10, <1>11, <1>12, <1>13, <1>14
    DEF Next, main, reserve_throws, spawn_throws, session_throws

----------------------------------------------------------------------------
(* Sessions                                                                *)

\* What SessionInv and DescriptorsBalanced say of one client.
SessionOf(c) ==
    /\ Count(ArrivalsOf(c)) = (IF conn[c] = "accepted" THEN 1 ELSE 0)
    /\ Count({Invoker(c)}) = (IF strand[c] > 0 THEN 1 ELSE 0)
    /\ refs[c] = ops[c] + Count({Completed(c)}) + strand[c]
    /\ conn[c] = "open" <=> refs[c] > 0

\* Nobody is connected at the start.
LEMMA SessionInit ==
  ASSUME Init, NEW c \in Clients
  PROVE  SessionOf(c)
  <1>1. ASSUME NEW S, None \notin S
        PROVE  Count(S) = 0
    <2>1. Positions(ready, S) = {} /\ Holders(handler, S) = {}
      BY <1>1 DEF Init, Positions, Holders
    <2> QED
      BY <2>1, FS_EmptySet DEF Count
  <1>2. Count(ArrivalsOf(c)) = 0 /\ Count({Invoker(c)}) = 0 /\ Count({Completed(c)}) = 0
    BY <1>1, HandlerKinds
  <1> QED
    BY <1>2 DEF Init, SessionOf

\* Every step keeps the handlers, the strand and the owners of a session in
\* agreement.
LEMMA SessionStep ==
  ASSUME IInv, [Next]_vars, pc' # "terminated", NEW c \in Clients
  PROVE  SessionOf(c)'
  <1> DEFINE A == ArrivalsOf(c)
             C == {Completed(c)}
             I == {Invoker(c)}
             Goal == /\ Count(A)' = (IF conn'[c] = "accepted" THEN 1 ELSE 0)
                     /\ Count(I)' = (IF strand'[c] > 0 THEN 1 ELSE 0)
                     /\ refs'[c] = ops'[c] + Count(C)' + strand'[c]
                     /\ conn'[c] = "open" <=> refs'[c] > 0
  <1> SUFFICES Goal
    BY DEF SessionOf
  <1>1. /\ TypeOK
        /\ Count(A) \in Nat /\ Count(C) \in Nat /\ Count(I) \in Nat
        /\ ops[c] \in Nat /\ strand[c] \in Nat /\ refs[c] \in Nat
    <2>1. TypeOK /\ ops[c] \in Nat /\ strand[c] \in Nat /\ refs[c] \in Nat
      BY DEF IInv, TypeOK
    <2>2. Count(A) \in Nat /\ Count(C) \in Nat /\ Count(I) \in Nat
      BY <2>1, CountNat
    <2> QED
      BY <2>1, <2>2
  <1>2. None \notin A /\ None \notin C /\ None \notin I
    BY HandlerKinds
  <1>3. pc # "terminated" =>
          /\ Count(A) = (IF conn[c] = "accepted" THEN 1 ELSE 0)
          /\ Count(I) = (IF strand[c] > 0 THEN 1 ELSE 0)
          /\ refs[c] = ops[c] + Count(C) + strand[c]
          /\ conn[c] = "open" <=> refs[c] > 0
    BY DEF IInv, SessionInv, DescriptorsBalanced, Outstanding
  <1>4. CASE UNCHANGED <<ready, handler, conn, ops, strand, refs>> /\ pc # "terminated"
    <2>1. Count(A)' = Count(A) /\ Count(C)' = Count(C) /\ Count(I)' = Count(I)
      BY <1>4, CountDef
    <2> QED
      BY <1>3, <1>4, <2>1
  <1>5. CASE UNCHANGED vars
    BY <1>4, <1>5 DEF vars, mainvars, netvars, sessionvars
  <1>6. CASE no_listener2 \/ reserve \/ spawn \/ run \/ run_returns \/ join
    BY <1>4, <1>6
    DEF no_listener2, reserve, spawn, run, run_returns, join, MainOnly, netvars, sessionvars
  <1>7. CASE signal
    BY <1>4, <1>7 DEF signal, netvars, sessionvars
  <1>8. CASE reactor_signal
    <2>1. Signal \in Handler /\ Signal \notin A /\ Signal \notin C /\ Signal \notin I
      BY HandlerKinds
    <2>2. ready' = post(ready, Signal) /\ UNCHANGED <<handler, conn, ops, strand, refs>>
      BY <1>8 DEF reactor_signal, netvars, sessionvars
    <2>3. Count(A)' = Count(A) /\ Count(C)' = Count(C) /\ Count(I)' = Count(I)
      BY <1>1, <2>1, <2>2, CountArrives
    <2>4. pc # "terminated"
      BY <1>8, StepUp DEF reactor_signal
    <2> QED
      BY <1>3, <2>2, <2>3, <2>4
  <1>9. ASSUME NEW d \in Clients, connect(d)
        PROVE  Goal
    <2>1. /\ conn[d] = "away" /\ conn'[d] \in Ports
          /\ \A e \in Clients \ {d} : conn'[e] = conn[e]
      BY <1>1, <1>9 DEF connect, TypeOK, Ports
    <2>2. UNCHANGED <<ready, handler, ops, strand, refs>> /\ pc # "terminated"
      BY <1>9, StepUp DEF connect, sessionvars
    <2>3. Count(A)' = Count(A) /\ Count(C)' = Count(C) /\ Count(I)' = Count(I)
      BY <2>2, CountDef
    <2>4. (conn'[c] = "open" <=> conn[c] = "open") /\ (conn'[c] = "accepted" <=> conn[c] = "accepted")
      BY <2>1 DEF Ports
    <2> QED
      BY <1>3, <2>2, <2>3, <2>4
  <1>10. ASSUME NEW d \in Clients, reactor_complete(d)
         PROVE  Goal
    <2>1. /\ Completed(d) \in Handler /\ Completed(d) \notin A /\ Completed(d) \notin I
          /\ Completed(d) \in C <=> c = d
      BY HandlerKinds
    <2>2. /\ ready' = post(ready, Completed(d)) /\ UNCHANGED <<handler, conn, strand, refs>>
          /\ ops' = [ops EXCEPT ![d] = ops[d] - 1]
      BY <1>10 DEF reactor_complete, netvars
    <2>3. /\ Count(A)' = Count(A) /\ Count(I)' = Count(I)
          /\ Count(C)' = Count(C) + (IF c = d THEN 1 ELSE 0)
      BY <1>1, <2>1, <2>2, CountArrives
    <2>4. ops'[c] = ops[c] - (IF c = d THEN 1 ELSE 0)
      BY <1>1, <2>2 DEF TypeOK
    <2>5. pc # "terminated"
      BY <1>10, StepUp DEF reactor_complete
    <2>6. ops'[c] + Count(C)' = ops[c] + Count(C)
      BY <1>1, <2>3, <2>4
    <2>7. refs'[c] = ops'[c] + Count(C)' + strand'[c]
      BY <1>3, <2>2, <2>5, <2>6
    <2> QED
      BY <1>3, <2>2, <2>3, <2>5, <2>7
  \* A step that accepts, from one that leaves the handlers as they are.
  <1>11. ASSUME NEW p \in Ports, NEW acc, do_accept(p, acc, None), pc # "terminated",
                UNCHANGED <<handler, ops, strand, refs>>
         PROVE  Goal
    <2>1. c # None
      BY NoneAssumption
    <2>2. CASE /\ ready' = ready
               /\ \A e \in Clients : conn'[e] = IF e = None THEN "open" ELSE conn[e]
      <3>1. Count(A)' = Count(A) /\ Count(C)' = Count(C) /\ Count(I)' = Count(I)
        BY <1>11, <2>2, CountDef
      <3> QED
        BY <1>3, <1>11, <2>1, <2>2, <3>1
    <2>3. ASSUME NEW d \in Clients \cup {None}, ready' = post(ready, Accepted(p, d)),
                 d # None => conn[d] = p,
                 \A e \in Clients :
                    conn'[e] = IF e = d THEN "accepted" ELSE IF e = None THEN "open" ELSE conn[e]
          PROVE  Goal
      <3>1. /\ Accepted(p, d) \in Handler /\ Accepted(p, d) \notin C /\ Accepted(p, d) \notin I
            /\ Accepted(p, d) \in A <=> c = d
        BY HandlerKinds
      <3>2. /\ Count(A)' = Count(A) + (IF c = d THEN 1 ELSE 0)
            /\ Count(C)' = Count(C) /\ Count(I)' = Count(I)
        BY <1>1, <1>11, <2>3, <3>1, CountArrives
      <3>3. CASE c = d
        <4>1. conn[c] = p /\ conn[c] # "accepted" /\ conn[c] # "open" /\ conn'[c] = "accepted"
          BY <2>1, <2>3, <3>3 DEF Ports
        <4> QED
          BY <1>1, <1>3, <1>11, <3>2, <3>3, <4>1
      <3>4. CASE c # d
        BY <1>1, <1>3, <1>11, <2>1, <2>3, <3>2, <3>4
      <3> QED
        BY <3>3, <3>4
    <2> HIDE DEF Goal
    <2> QED
      BY <1>1, <1>11, <2>2, <2>3, AcceptOutcome
  <1>12. CASE listener \/ listener2
    <2>1. PICK p \in Ports : \E acc \in Outcomes : do_accept(p, acc, None)
      BY <1>12 DEF listener, listener2, listen, Ports
    <2>2. UNCHANGED <<handler, ops, strand, refs>> /\ pc # "terminated"
      BY <1>12 DEF listener, listener2, listen, sessionvars
    <2> QED
      BY <1>11, <2>1, <2>2
  <1>13. ASSUME NEW p \in Ports, reactor_accept(p)
         PROVE  Goal
    <2>1. do_accept(p, acceptor[p], None) /\ UNCHANGED <<handler, ops, strand, refs>>
      BY <1>13 DEF reactor_accept, sessionvars
    <2>2. pc # "terminated"
      BY <1>13, StepUp DEF reactor_accept
    <2> QED
      BY <1>11, <2>1, <2>2
  <1>14. ASSUME NEW t \in Threads, take(t) \/ leave(t) \/ on_signal(t)
         PROVE  Goal
    <2>1. UNCHANGED <<conn, ops, strand, refs>> /\ pc # "terminated"
      BY <1>14, StepUp DEF take, leave, on_signal, Runs, netvars, sessionvars
    <2>2. CASE take(t)
      BY <1>1, <1>2, <1>3, <2>1, <2>2, CountTake
    <2>3. CASE leave(t)
      BY <1>4, <2>1, <2>3 DEF leave
    <2>4. CASE on_signal(t)
      <3>1. /\ handler[t] = Signal /\ ready' = ready /\ handler'[t] = None
            /\ \A u \in Threads \ {t} : handler'[u] = handler[u]
        BY <1>1, <2>4, HandlerRuns DEF on_signal, Done, TypeOK
      <3>2. handler[t] \notin A /\ handler[t] \notin C /\ handler[t] \notin I
        BY <3>1, HandlerKinds
      <3>3. Count(A)' = Count(A) /\ Count(C)' = Count(C) /\ Count(I)' = Count(I)
        BY <1>1, <1>2, <3>1, <3>2, CountExchange
      <3> QED
        BY <1>3, <2>1, <3>3
    <2> QED
      BY <1>14, <2>2, <2>3, <2>4
  <1>15. ASSUME NEW t \in Threads, on_accept(t)
         PROVE  Goal
    <2>1. PICK p \in Ports, new \in Clients \cup {None} :
             handler[t] = Accepted(p, new) /\ handler[t].port = p /\ handler[t].client = new
      BY <1>1, <1>15, HandlerRuns DEF on_accept
    <2>2. do_accept(p, acceptor[p], new) /\ new_session(new) /\ Done(t)
      BY <1>15, <2>1 DEF on_accept
    <2>3. pc # "terminated"
      BY <1>15, StepUp DEF on_accept, Runs
    <2>4. /\ strand'[c] = strand[c]
          /\ ops'[c] = (IF c = new THEN 1 ELSE ops[c])
          /\ refs'[c] = (IF c = new THEN 1 ELSE refs[c])
      BY <2>2 DEF new_session
    <2>5. handler[t] \notin C /\ handler[t] \notin I /\ (handler[t] \in A <=> c = new)
      BY <2>1, HandlerKinds
    <2>6. handler'[t] = None /\ \A u \in Threads \ {t} : handler'[u] = handler[u]
      BY <1>1, <2>2 DEF Done, TypeOK
    <2>7. c = new => conn[c] = "accepted" /\ refs[c] = 0 /\ ops[c] = 0 /\ Count(C) = 0 /\ strand[c] = 0
      <3>1. c = new => Count(A) > 0
        BY <1>1, <2>5, CountHeld
      <3> QED
        BY <1>1, <1>3, <2>3, <3>1
    <2>8. CASE /\ ready' = ready
               /\ \A e \in Clients : conn'[e] = IF e = new THEN "open" ELSE conn[e]
      <3>1. /\ Count(A)' = Count(A) - (IF c = new THEN 1 ELSE 0)
            /\ Count(C)' = Count(C) /\ Count(I)' = Count(I)
        BY <1>1, <1>2, <2>5, <2>6, <2>8, CountExchange
      <3>2. CASE c = new
        BY <1>1, <1>3, <2>3, <2>4, <2>7, <2>8, <3>1, <3>2
      <3>3. CASE c # new
        BY <1>1, <1>3, <2>3, <2>4, <2>8, <3>1, <3>3
      <3> QED
        BY <3>2, <3>3
    <2>9. ASSUME NEW d \in Clients \cup {None}, ready' = post(ready, Accepted(p, d)),
                 d # None => conn[d] = p,
                 \A e \in Clients :
                    conn'[e] = IF e = d THEN "accepted" ELSE IF e = new THEN "open" ELSE conn[e]
          PROVE  Goal
      <3>1. /\ Accepted(p, d) \in Handler /\ Accepted(p, d) \notin C /\ Accepted(p, d) \notin I
            /\ Accepted(p, d) \in A <=> c = d
        BY HandlerKinds
      <3>2. /\ Count(A)' = Count(A) - (IF c = new THEN 1 ELSE 0) + (IF c = d THEN 1 ELSE 0)
            /\ Count(C)' = Count(C) /\ Count(I)' = Count(I)
        BY <1>1, <1>2, <2>2, <2>5, <2>9, <3>1, CountReplaced
      <3>3. CASE c = d
        <4>1. conn[c] = p /\ conn[c] # "accepted" /\ conn[c] # "open" /\ conn'[c] = "accepted"
          BY <2>9, <3>3, NoneAssumption DEF Ports
        <4>2. c # new
          BY <2>7, <4>1
        <4> QED
          BY <1>1, <1>3, <2>3, <2>4, <3>2, <3>3, <4>1, <4>2
      <3>4. CASE c # d /\ c = new
        BY <1>1, <1>3, <2>3, <2>4, <2>7, <2>9, <3>2, <3>4
      <3>5. CASE c # d /\ c # new
        BY <1>1, <1>3, <2>3, <2>4, <2>9, <3>2, <3>5
      <3> QED
        BY <3>3, <3>4, <3>5
    <2> HIDE DEF Goal
    <2> QED
      BY <1>1, <2>2, <2>8, <2>9, AcceptOutcome
  <1>16. ASSUME NEW t \in Threads, dispatch(t)
         PROVE  Goal
    <2>1. PICK d \in Clients : handler[t] = Completed(d) /\ handler[t].client = d
      BY <1>1, <1>16, HandlerRuns DEF dispatch
    <2> DEFINE h == IF strand[d] = 0 THEN Invoker(d) ELSE None
    <2>2. /\ UNCHANGED <<ready, conn, ops, refs>> /\ pc # "terminated"
          /\ handler'[t] = h /\ \A u \in Threads \ {t} : handler'[u] = handler[u]
          /\ strand' = [strand EXCEPT ![d] = strand[d] + 1]
      BY <1>1, <1>16, <2>1, StepUp DEF dispatch, Runs, netvars, TypeOK
    <2>3. strand'[c] = strand[c] + (IF c = d THEN 1 ELSE 0)
      BY <1>1, <2>2 DEF TypeOK
    <2>4. /\ handler[t] \notin A /\ handler[t] \notin I /\ (handler[t] \in C <=> c = d)
          /\ h \notin A /\ h \notin C
          /\ h \in I <=> (c = d /\ strand[c] = 0)
      BY <1>2, <2>1, HandlerKinds
    <2> HIDE DEF h
    <2>5. /\ Count(A)' = Count(A)
          /\ Count(C)' = Count(C) - (IF c = d THEN 1 ELSE 0)
          /\ Count(I)' = Count(I) + (IF c = d /\ strand[c] = 0 THEN 1 ELSE 0)
      BY <1>1, <2>2, <2>4, CountExchange
    <2>6. CASE c = d
      BY <1>1, <1>3, <2>2, <2>3, <2>5, <2>6
    <2>7. CASE c # d
      BY <1>1, <1>3, <2>2, <2>3, <2>5, <2>7
    <2> QED
      BY <2>6, <2>7
  <1>17. ASSUME NEW t \in Threads, session_handler(t)
         PROVE  Goal
    <2>1. PICK d \in Clients : handler[t] = Invoker(d) /\ handler[t].client = d
      BY <1>1, <1>17, HandlerRuns DEF session_handler
    <2>2. PICK n \in 0..MaxOps :
             /\ ops' = [ops EXCEPT ![d] = ops[d] + n]
             /\ release(d, n) /\ leave_strand(t, d)
      BY <1>17, <2>1 DEF session_handler
    <2>3. n \in Nat /\ pc # "terminated"
      BY <1>17, StepUp DEF session_handler, Runs, MaxOps
    <2>4. /\ ops'[c] = ops[c] + (IF c = d THEN n ELSE 0)
          /\ strand'[c] = strand[c] - (IF c = d THEN 1 ELSE 0)
          /\ refs'[c] = (IF c = d THEN refs[c] - 1 + n ELSE refs[c])
          /\ conn'[c] = (IF c = d /\ refs[c] - 1 + n = 0 THEN "closed" ELSE conn[c])
      <3>1. /\ refs' = [refs EXCEPT ![d] = refs[d] - 1 + n]
            /\ strand' = [strand EXCEPT ![d] = strand[d] - 1]
            /\ conn' = (IF refs'[d] = 0 THEN [conn EXCEPT ![d] = "closed"] ELSE conn)
        BY <2>2 DEF release, leave_strand
      <3>2. CASE c = d
        BY <1>1, <2>2, <3>1, <3>2 DEF TypeOK
      <3>3. CASE c # d
        BY <1>1, <2>2, <3>1, <3>3 DEF TypeOK
      <3> QED
        BY <3>2, <3>3
    <2>5. handler[t] \notin A /\ handler[t] \notin C /\ (handler[t] \in I <=> c = d)
      BY <2>1, HandlerKinds
    <2>6. c = d => Count(I) = 1 /\ strand[c] > 0
      <3>1. c = d => Count(I) > 0
        BY <1>1, <2>5, CountHeld
      <3> QED
        BY <1>3, <2>3, <3>1
    <2>7. /\ Count(A)' = Count(A)
          /\ Count(C)' = Count(C)
          /\ Count(I)' = Count(I) - (IF c = d THEN 1 ELSE 0) + (IF c = d /\ strand[d] > 1 THEN 1 ELSE 0)
      <3>1. Done(t) /\ handler'[t] = None /\ \A u \in Threads \ {t} : handler'[u] = handler[u]
        BY <1>1, <2>2 DEF leave_strand, Done, TypeOK
      <3>2. CASE strand[d] > 1
        <4>1. ready' = post(ready, Invoker(d))
          BY <2>2, <3>2 DEF leave_strand
        <4>2. /\ Invoker(d) \in Handler /\ Invoker(d) \notin A /\ Invoker(d) \notin C
              /\ Invoker(d) \in I <=> c = d
          BY HandlerKinds
        <4> QED
          BY <1>1, <1>2, <2>5, <3>1, <3>2, <4>1, <4>2, CountReplaced
      <3>3. CASE ~(strand[d] > 1)
        <4>1. ready' = ready
          BY <2>2, <3>3 DEF leave_strand
        <4> QED
          BY <1>1, <1>2, <2>5, <3>1, <3>3, <4>1, CountExchange
      <3> QED
        BY <3>2, <3>3
    <2>8. CASE c = d
      <3>1. refs'[c] = refs[c] - 1 + n /\ strand'[c] = strand[c] - 1 /\ ops'[c] = ops[c] + n
        BY <2>4, <2>8
      <3>2. refs[c] > 0 /\ conn[c] = "open"
        BY <1>1, <1>3, <2>3, <2>6, <2>8
      <3>3. /\ refs'[c] = ops'[c] + Count(C)' + strand'[c]
            /\ conn'[c] = "open" <=> refs'[c] > 0
        BY <1>1, <1>3, <2>3, <2>4, <2>7, <2>8, <3>1, <3>2
      <3>4. Count(I)' = (IF strand'[c] > 0 THEN 1 ELSE 0)
        BY <1>1, <2>6, <2>7, <2>8, <3>1
      <3>5. Count(A)' = (IF conn'[c] = "accepted" THEN 1 ELSE 0)
        BY <1>3, <2>3, <2>4, <2>7, <3>2
      <3> QED
        BY <3>3, <3>4, <3>5
    <2>9. CASE c # d
      BY <1>1, <1>3, <2>3, <2>4, <2>7, <2>9
    <2> QED
      BY <2>8, <2>9
  <1>18. CASE Terminate
    BY <1>18 DEF Terminate
  <1> HIDE DEF Goal
  <1> QED
    BY <1>5, <1>6, <1>7, <1>8, <1>9, <1>10, <1>12, <1>13, <1>14, <1>15, <1>16, <1>17, <1>18
    DEF Next, main, thread, reserve_throws, spawn_throws, session_throws, Ended

----------------------------------------------------------------------------
(* Descriptors                                                             *)

\* do_accept takes a descriptor for the connection that becomes live.
LEMMA AcceptBalance ==
  ASSUME TypeOK, IsFiniteSet(Live), NEW p \in Ports, NEW acc, NEW new \in Clients \cup {None},
         new \in Clients => conn[new] = "accepted", do_accept(p, acc, new)
  PROVE  /\ IsFiniteSet(Live')
         /\ free' + Cardinality(Live') = free + Cardinality(Live)
  <1>1. free \in Nat /\ Cardinality(Live) \in Nat
    BY FS_CardinalityType, BoundsAssumption DEF TypeOK
  <1>2. CASE /\ free' = free
             /\ \A c \in Clients : conn'[c] = IF c = new THEN "open" ELSE conn[c]
    <2>1. Live' = Live
      BY <1>2 DEF Live
    <2> QED
      BY <1>2, <2>1
  <1>3. ASSUME NEW d \in Clients, conn[d] = p, free' = free - 1,
               \A c \in Clients :
                 conn'[c] = IF c = d THEN "accepted" ELSE IF c = new THEN "open" ELSE conn[c]
        PROVE  /\ IsFiniteSet(Live')
               /\ free' + Cardinality(Live') = free + Cardinality(Live)
    <2>1. d # new /\ d \notin Live /\ Live' = Live \cup {d}
      BY <1>3 DEF Live, Ports
    <2>2. IsFiniteSet(Live') /\ Cardinality(Live') = Cardinality(Live) + 1
      BY <2>1, FS_AddElement
    <2> QED
      BY <1>1, <1>3, <2>2
  <1> QED
    BY <1>2, <1>3, AcceptOutcome, NoneAssumption

\* A step that concerns one connection: what it does to the descriptors.
LEMMA LiveStep ==
  ASSUME IsFiniteSet(Live), NEW d \in Clients, \A c \in Clients \ {d} : conn'[c] = conn[c]
  PROVE  /\ IsFiniteSet(Live')
         /\ Cardinality(Live) \in Nat
         /\ (d \in Live <=> d \in Live') => Cardinality(Live') = Cardinality(Live)
         /\ (d \in Live /\ d \notin Live') => Cardinality(Live') = Cardinality(Live) - 1
  <1>1. Live' \ {d} = Live \ {d}
    BY DEF Live
  <1>2. CASE d \in Live <=> d \in Live'
    <2>1. Live' = Live
      BY <1>1, <1>2
    <2> QED
      BY <1>2, <2>1, FS_CardinalityType
  <1>3. CASE d \in Live /\ d \notin Live'
    <2>1. Live' = Live \ {d}
      BY <1>1, <1>3
    <2> QED
      BY <1>3, <2>1, FS_CardinalityType, FS_RemoveElement
  <1>4. CASE d \notin Live /\ d \in Live'
    <2>1. Live' = Live \cup {d}
      BY <1>1, <1>4
    <2> QED
      BY <1>4, <2>1, FS_CardinalityType, FS_AddElement
  <1> QED
    BY <1>2, <1>3, <1>4

\* All descriptors are free at the start, and no session exists.
LEMMA BalanceInit == Init => DescriptorsBalanced /\ SessionInv /\ IsFiniteSet(Live)
  <1> SUFFICES ASSUME Init
               PROVE  DescriptorsBalanced /\ SessionInv /\ IsFiniteSet(Live)
    OBVIOUS
  <1>1. Live = {} /\ free = Descriptors
    BY DEF Init, Live
  <1>2. IsFiniteSet(Live) /\ free + Cardinality(Live) = Descriptors
    BY <1>1, FS_EmptySet, BoundsAssumption
  <1>3. \A c \in Clients : SessionOf(c)
    BY SessionInit
  <1> QED
    BY <1>2, <1>3 DEF DescriptorsBalanced, SessionInv, SessionOf, Outstanding

\* What a thread's handler says of its client.
LEMMA HandlerClient ==
  ASSUME IInv, NEW t \in Threads, NEW c \in Clients
  PROVE  /\ handler[t] \in ArrivalsOf(c) => conn[c] = "accepted"
         /\ handler[t] = Invoker(c) => strand[c] > 0 /\ refs[c] > 0 /\ conn[c] = "open"
         /\ handler[t] = Completed(c) => refs[c] > 0
  <1>1. TypeOK /\ Count({Completed(c)}) \in Nat
    BY CountNat DEF IInv
  <1>2. ops[c] \in Nat /\ strand[c] \in Nat /\ refs[c] \in Nat
    BY <1>1 DEF TypeOK
  <1>3. handler[t] # None => SessionOf(c)
    BY StepUp DEF IInv, SessionInv, DescriptorsBalanced, SessionOf, Outstanding
  <1>4. ASSUME handler[t] \in ArrivalsOf(c)
        PROVE  conn[c] = "accepted"
    <2>1. Count(ArrivalsOf(c)) > 0 /\ handler[t] # None
      BY <1>1, <1>4, CountHeld, HandlerKinds
    <2> QED
      BY <1>3, <2>1 DEF SessionOf
  <1>5. ASSUME handler[t] = Invoker(c)
        PROVE  strand[c] > 0 /\ refs[c] > 0 /\ conn[c] = "open"
    <2>1. Count({Invoker(c)}) > 0 /\ handler[t] # None
      BY <1>1, <1>5, CountHeld, HandlerKinds
    <2>2. strand[c] > 0
      BY <1>3, <2>1 DEF SessionOf
    <2>3. refs[c] > 0
      BY <1>1, <1>2, <1>3, <2>1, <2>2 DEF SessionOf
    <2> QED
      BY <1>3, <2>1, <2>2, <2>3 DEF SessionOf
  <1>6. ASSUME handler[t] = Completed(c)
        PROVE  refs[c] > 0
    <2>1. Count({Completed(c)}) > 0 /\ handler[t] # None
      BY <1>1, <1>6, CountHeld, HandlerKinds
    <2> QED
      BY <1>1, <1>2, <1>3, <2>1 DEF SessionOf
  <1> QED
    BY <1>4, <1>5, <1>6

\* Every step keeps each descriptor free or with a live connection.
LEMMA LiveBalance ==
  ASSUME IInv, [Next]_vars
  PROVE  /\ IsFiniteSet(Live')
         /\ pc' # "terminated" => free' + Cardinality(Live') = Descriptors
  <1> DEFINE Goal == /\ IsFiniteSet(Live')
                     /\ pc' # "terminated" => free' + Cardinality(Live') = Descriptors
  <1> SUFFICES Goal
    OBVIOUS
  <1>1. TypeOK /\ IsFiniteSet(Live) /\ free \in Nat /\ Cardinality(Live) \in Nat
    BY FS_CardinalityType, BoundsAssumption DEF IInv, TypeOK
  <1>2. pc # "terminated" => free + Cardinality(Live) = Descriptors
    BY DEF IInv, DescriptorsBalanced
  <1>3. CASE UNCHANGED <<conn, free>> /\ (pc' # "terminated" => pc # "terminated")
    <2>1. Live' = Live
      BY <1>3 DEF Live
    <2> QED
      BY <1>1, <1>2, <1>3, <2>1
  <1>4. CASE UNCHANGED vars
    BY <1>3, <1>4 DEF vars, mainvars, netvars
  <1>5. CASE Terminate
    BY <1>3, <1>5 DEF Terminate, netvars
  <1>6. CASE no_listener2 \/ reserve \/ spawn \/ run \/ run_returns \/ join \/ signal \/ reactor_signal
    BY <1>3, <1>6
    DEF no_listener2, reserve, spawn, run, run_returns, join, MainOnly, netvars, signal,
        reactor_signal, mainvars
  <1>7. CASE listener \/ listener2
    <2>1. PICK p \in Ports : \E acc \in Outcomes : do_accept(p, acc, None)
      BY <1>7 DEF listener, listener2, listen, Ports
    <2>2. pc # "terminated"
      BY <1>7 DEF listener, listener2
    <2> QED
      BY <1>1, <1>2, <2>1, <2>2, AcceptBalance, NoneAssumption
  <1>8. ASSUME NEW d \in Clients, connect(d)
        PROVE  Goal
    <2>1. /\ d \notin Live /\ d \notin Live'
          /\ \A c \in Clients \ {d} : conn'[c] = conn[c]
      BY <1>1, <1>8 DEF connect, Live, TypeOK, Ports
    <2>2. free' = free /\ pc # "terminated"
      BY <1>8, StepUp DEF connect
    <2> QED
      BY <1>1, <1>2, <2>1, <2>2, LiveStep
  <1>9. ASSUME NEW d \in Clients, reactor_complete(d)
        PROVE  Goal
    BY <1>3, <1>9 DEF reactor_complete, netvars, mainvars
  <1>10. ASSUME NEW p \in Ports, reactor_accept(p)
         PROVE  Goal
    <2>1. do_accept(p, acceptor[p], None) /\ pc # "terminated"
      BY <1>10, StepUp DEF reactor_accept
    <2> QED
      BY <1>1, <1>2, <2>1, AcceptBalance, NoneAssumption
  <1>11. ASSUME NEW t \in Threads, take(t) \/ leave(t) \/ on_signal(t) \/ dispatch(t)
         PROVE  Goal
    BY <1>3, <1>11 DEF take, leave, on_signal, dispatch, netvars, mainvars
  <1>12. ASSUME NEW t \in Threads, on_accept(t)
         PROVE  Goal
    <2>1. PICK p \in Ports, new \in Clients \cup {None} :
             handler[t] = Accepted(p, new) /\ handler[t].port = p /\ handler[t].client = new
      BY <1>1, <1>12, HandlerRuns DEF on_accept
    <2>2. do_accept(p, acceptor[p], new)
      BY <1>12, <2>1 DEF on_accept
    <2>3. pc # "terminated"
      BY <1>12, StepUp DEF on_accept, Runs
    <2>4. new \in Clients => conn[new] = "accepted"
      BY <2>1, HandlerKinds, HandlerClient
    <2> QED
      BY <1>1, <1>2, <2>2, <2>3, <2>4, AcceptBalance
  <1>13. ASSUME NEW t \in Threads, session_handler(t)
         PROVE  Goal
    <2>1. PICK d \in Clients : handler[t] = Invoker(d) /\ handler[t].client = d
      BY <1>1, <1>13, HandlerRuns DEF session_handler
    <2>2. PICK n \in 0..MaxOps : release(d, n)
      BY <1>13, <2>1 DEF session_handler
    <2>3. pc # "terminated"
      BY <1>13, StepUp DEF session_handler, Runs
    <2>4. conn[d] = "open" /\ d \in Live
      BY <2>1, HandlerClient DEF Live
    <2>5. \/ conn' = conn /\ free' = free
          \/ conn' = [conn EXCEPT ![d] = "closed"] /\ free' = free + 1
      BY <2>2 DEF release
    <2>6. CASE conn' = conn /\ free' = free
      BY <1>3, <2>3, <2>6
    <2>7. CASE conn' = [conn EXCEPT ![d] = "closed"] /\ free' = free + 1
      <3>1. d \notin Live' /\ \A c \in Clients \ {d} : conn'[c] = conn[c]
        BY <1>1, <2>7 DEF Live, TypeOK
      <3>2. IsFiniteSet(Live') /\ Cardinality(Live') = Cardinality(Live) - 1
        BY <1>1, <2>4, <3>1, LiveStep
      <3> QED
        BY <1>1, <1>2, <2>3, <2>7, <3>2
    <2> QED
      BY <2>5, <2>6, <2>7
  <1> HIDE DEF Goal
  <1> QED
    BY <1>4, <1>5, <1>6, <1>7, <1>8, <1>9, <1>10, <1>11, <1>12, <1>13
    DEF Next, main, thread, reserve_throws, spawn_throws, session_throws, Ended

\* Every step keeps sessions and descriptors in balance.
LEMMA BalanceStep ==
  ASSUME IInv, [Next]_vars
  PROVE  DescriptorsBalanced' /\ SessionInv' /\ IsFiniteSet(Live')
  <1>1. pc' # "terminated" => \A c \in Clients : SessionOf(c)'
    BY SessionStep
  <1> QED
    BY <1>1, LiveBalance DEF DescriptorsBalanced, SessionInv, SessionOf, Outstanding

----------------------------------------------------------------------------
(* Types                                                                   *)

\* The types are right at the start.
LEMMA TypeInit == Init => TypeOK
  <1> SUFFICES ASSUME Init
               PROVE  TypeOK
    OBVIOUS
  <1>1. 0 \in 0..ThreadLimit /\ Descriptors \in 0..Descriptors /\ 0 \in 0..MaxRuns
    BY BoundsAssumption
  <1>2. ready \in Seq(Handler) /\ handler \in [Threads -> Handler \cup {None}]
    BY DEF Init
  <1>3. /\ acceptor \in [Ports -> Outcomes] /\ runs \in [Clients -> 0..MaxRuns]
        /\ ops \in [Clients -> Nat] /\ strand \in [Clients -> Nat] /\ refs \in [Clients -> Nat]
    BY <1>1 DEF Init, Outcomes
  <1>4. conn \in [Clients -> Ports \cup {"away", "accepted", "open", "closed"}]
    BY DEF Init
  <1> QED
    BY <1>1, <1>2, <1>3, <1>4 DEF Init, TypeOK

\* do_accept keeps the types.
LEMMA AcceptTypes ==
  ASSUME TypeOK, NEW p \in Ports, NEW acc, NEW new \in Clients \cup {None}, do_accept(p, acc, new)
  PROVE  /\ ready' \in Seq(Handler)
         /\ pending' \subseteq Ports
         /\ conn' \in [Clients -> Ports \cup {"away", "accepted", "open", "closed"}]
         /\ free' \in 0..Descriptors
  <1>1. \A c \in Clients \cup {None} : Accepted(p, c) \in Handler
    BY HandlerKinds
  <1> QED
    <2>1. ready' \in Seq(Handler) /\ pending' \subseteq Ports
      <3>1. /\ \/ ready' = ready
               \/ \E c \in Clients \cup {None} : ready' = post(ready, Accepted(p, c))
            /\ pending' = pending \ {p} \/ pending' = pending \cup {p}
        BY AcceptOutcome
      <3>2. \A h \in Handler : post(ready, h) \in Seq(Handler)
        BY DEF TypeOK, post
      <3>3. ready \in Seq(Handler) /\ pending \subseteq Ports
        BY DEF TypeOK
      <3> QED
        BY <1>1, <3>1, <3>2, <3>3
    <2>2. conn' \in [Clients -> Ports \cup {"away", "accepted", "open", "closed"}]
      <3> DEFINE conn0 == [c \in Clients |-> IF c = new THEN "open" ELSE conn[c]]
      <3>1. conn' = conn0 \/ \E c \in Clients : conn' = [conn0 EXCEPT ![c] = "accepted"]
        BY DEF do_accept, Waiting
      <3>2. conn0 \in [Clients -> Ports \cup {"away", "accepted", "open", "closed"}]
        BY DEF TypeOK
      <3> HIDE DEF conn0
      <3> QED
        BY <3>1, <3>2
    <2>3. free' \in 0..Descriptors
      <3>1. free' = free \/ (free > 0 /\ free' = free - 1)
        BY AcceptOutcome
      <3> QED
        BY <3>1, BoundsAssumption DEF TypeOK
    <2> QED
      BY <2>1, <2>2, <2>3

\* Every step keeps the types.
LEMMA TypeStep ==
  ASSUME IInv, [Next]_vars
  PROVE  TypeOK'
  <1> USE DEF TypeOK
  <1>1. TypeOK
    BY DEF IInv
  <1>2. CASE listener \/ listener2
    <2>1. PICK p \in Ports, acc \in Outcomes :
             do_accept(p, acc, None) /\ acceptor' = [acceptor EXCEPT ![p] = acc]
      BY <1>2 DEF listener, listener2, listen, Ports
    <2>2. acceptor' \in [Ports -> Outcomes]
      BY <1>1, <2>1
    <2> QED
      BY <1>1, <1>2, <2>1, <2>2, AcceptTypes, NoneAssumption
      DEF listener, listener2, listen, sessionvars, signalvars
  <1>3. CASE no_listener2 \/ reserve \/ run_returns \/ join
    BY <1>1, <1>3 DEF no_listener2, reserve, run_returns, join, MainOnly, netvars, sessionvars, signalvars
  <1>4. CASE spawn \/ run
    <2>1. CASE spawn
      <3>1. created' \in 0..ThreadLimit /\ running' \subseteq Threads
        BY <1>1, <2>1, BoundsAssumption DEF spawn, Threads
      <3> QED
        BY <1>1, <2>1, <3>1 DEF spawn, netvars, sessionvars, signalvars
    <2>2. CASE run
      BY <1>1, <2>2, ThreadsType DEF run, netvars, sessionvars, signalvars
    <2> QED
      BY <1>4, <2>1, <2>2
  <1>5. CASE Terminate
    BY <1>1, <1>5 DEF Terminate, netvars, sessionvars, signalvars
  <1>6. CASE signal \/ reactor_signal
    <2>1. Signal \in Handler
      BY HandlerKinds
    <2>2. CASE signal
      <3>1. pipe' \in BOOLEAN /\ signalled' \in BOOLEAN /\ stopped' \in BOOLEAN
        BY <1>1, <2>2, Zenon DEF signal
      <3> QED
        BY <1>1, <2>2, <3>1 DEF signal, mainvars, netvars, sessionvars
    <2>3. CASE reactor_signal
      <3>1. pipe' \in BOOLEAN /\ signalled' \in BOOLEAN /\ stopped' \in BOOLEAN
        BY <1>1, <2>3, Zenon DEF reactor_signal
      <3> QED
        BY <1>1, <2>1, <2>3, <3>1 DEF reactor_signal, mainvars, netvars, sessionvars, post
    <2> QED
      BY <1>6, <2>2, <2>3
  <1>7. ASSUME NEW c \in Clients, connect(c) \/ reactor_complete(c)
        PROVE  TypeOK'
    <2>1. Completed(c) \in Handler
      BY HandlerKinds
    <2>2. CASE connect(c)
      BY <1>1, <2>2 DEF connect, mainvars, sessionvars, signalvars
    <2>3. CASE reactor_complete(c)
      BY <1>1, <2>1, <2>3 DEF reactor_complete, mainvars, netvars, signalvars, post
    <2> QED
      BY <1>7, <2>2, <2>3
  <1>8. ASSUME NEW p \in Ports, reactor_accept(p)
        PROVE  TypeOK'
    BY <1>1, <1>8, AcceptTypes DEF reactor_accept, mainvars, sessionvars, signalvars
  <1>9. ASSUME NEW t \in Threads, thread(t)
        PROVE  TypeOK'
    <2>1. CASE take(t)
      BY <1>1, <2>1 DEF take, mainvars, netvars, sessionvars, signalvars
    <2>2. CASE leave(t)
      BY <1>1, <2>2 DEF leave, netvars, sessionvars, signalvars
    <2>3. CASE on_accept(t)
      <3>0. PICK p \in Ports, new \in Clients \cup {None} :
               handler[t] = Accepted(p, new) /\ handler[t].port = p /\ handler[t].client = new
        BY <1>1, <2>3, HandlerRuns DEF on_accept
      <3>1. do_accept(p, acceptor[p], new)
        BY <2>3, <3>0 DEF on_accept
      <3>2. /\ runs' \in [Clients -> 0..MaxRuns]
            /\ ops' \in [Clients -> Nat] /\ strand' \in [Clients -> Nat] /\ refs' \in [Clients -> Nat]
        BY <1>1, <2>3, BoundsAssumption DEF on_accept, new_session
      <3> QED
        BY <1>1, <2>3, <3>1, <3>2, AcceptTypes DEF on_accept, Done, mainvars, signalvars
    <2>4. CASE on_signal(t)
      BY <1>1, <2>4 DEF on_signal, Done, mainvars, netvars, sessionvars
    <2>5. CASE dispatch(t)
      <3>1. PICK c \in Clients : handler[t] = Completed(c) /\ handler[t].client = c
        BY <1>1, <2>5, HandlerRuns DEF dispatch
      <3>2. Invoker(c) \in Handler
        BY HandlerKinds
      <3>3. strand' \in [Clients -> Nat] /\ handler' \in [Threads -> Handler \cup {None}]
        BY <1>1, <2>5, <3>1, <3>2 DEF dispatch
      <3> QED
        BY <1>1, <2>5, <3>3 DEF dispatch, mainvars, netvars, signalvars
    <2>6. CASE session_handler(t)
      <3>1. PICK c \in Clients : handler[t] = Invoker(c) /\ handler[t].client = c
        BY <1>1, <2>6, HandlerRuns DEF session_handler
      <3>2. PICK n \in 0..MaxOps :
               /\ runs[c] + n <= MaxRuns
               /\ runs' = [runs EXCEPT ![c] = runs[c] + n]
               /\ ops' = [ops EXCEPT ![c] = ops[c] + n]
               /\ release(c, n) /\ leave_strand(t, c)
        BY <2>6, <3>1 DEF session_handler
      <3>3. UNCHANGED <<mainvars, acceptor, pending, signalvars>> /\ pc # "terminated"
        BY <2>6, StepUp DEF session_handler, Runs
      <3>4. strand[c] > 0 /\ refs[c] > 0 /\ n \in Nat
        BY <3>1, HandlerClient DEF MaxOps
      <3>5. runs' \in [Clients -> 0..MaxRuns] /\ ops' \in [Clients -> Nat]
        BY <1>1, <3>2, <3>4, BoundsAssumption
      <3>6. refs' \in [Clients -> Nat] /\ strand' \in [Clients -> Nat]
        <4>1. refs[c] - 1 + n \in Nat /\ strand[c] - 1 \in Nat
          BY <1>1, <3>4
        <4> QED
          BY <1>1, <3>2, <4>1 DEF release, leave_strand
      <3>7. ready' \in Seq(Handler) /\ handler' \in [Threads -> Handler \cup {None}]
        <4>1. Invoker(c) \in Handler
          BY HandlerKinds
        <4>2. post(ready, Invoker(c)) \in Seq(Handler)
          BY <1>1, <4>1 DEF post
        <4> QED
          BY <1>1, <3>2, <4>2 DEF leave_strand, Done
      <3>8. /\ conn' \in [Clients -> Ports \cup {"away", "accepted", "open", "closed"}]
            /\ free' = free \/ free' = free + 1
        BY <1>1, <3>2 DEF release
      <3>9. free' + Cardinality(Live') = Descriptors /\ Cardinality(Live') \in Nat
        BY <3>3, LiveBalance, FS_CardinalityType DEF mainvars
      <3>10. free' \in 0..Descriptors
        BY <1>1, <3>8, <3>9, BoundsAssumption
      <3> QED
        BY <1>1, <3>3, <3>5, <3>6, <3>7, <3>8, <3>10 DEF mainvars, signalvars
    <2> QED
      BY <1>9, <2>1, <2>2, <2>3, <2>4, <2>5, <2>6 DEF thread
  <1>10. CASE UNCHANGED vars
    BY <1>1, <1>10 DEF vars, mainvars, netvars, sessionvars, signalvars
  <1> HIDE DEF TypeOK
  <1> QED
    BY <1>2, <1>3, <1>4, <1>5, <1>6, <1>7, <1>8, <1>9, <1>10
    DEF Next, main, reserve_throws, spawn_throws, session_throws, Ended

----------------------------------------------------------------------------
(* The theorems                                                            *)

\* IInv is an invariant: the threads, the queue, the accept loops and the
\* descriptors of main() and the listeners stay consistent, for any number of
\* clients, threads, descriptors and operations.
THEOREM ServerInvariant == Spec => []IInv
  <1>1. Init => IInv
    BY TypeInit, LoopInit, BalanceInit, ThreadsInit DEF IInv
  <1>2. IInv /\ [Next]_vars => IInv'
    BY TypeStep, LoopStep, BalanceStep, ThreadsStep DEF IInv
  <1> QED
    BY <1>1, <1>2, PTL DEF Spec

\* The variables keep their types; no descriptor is given back twice.
THEOREM ServerTypes == Spec => []TypeOK
  BY ServerInvariant, PTL DEF IInv

\* listener::do_accept and on_accept keep exactly one accept of every started
\* port alive, whatever errors there are.
THEOREM ServerAcceptLoop == Spec => []AcceptLoopAlive
  BY ServerInvariant, PTL DEF IInv

\* A session is destroyed, and its socket closed, when the last of its
\* outstanding operations has been handled and not before: bind_front_handler
\* with shared_from_this() in each of them. No descriptor is lost.
THEOREM ServerDescriptors == Spec => []DescriptorsBalanced
  BY ServerInvariant, PTL DEF IInv

\* main() serves with exactly get_config_threads() threads and returns only
\* after all of them have left ioc.run().
THEOREM ServerThreads == Spec => []ThreadsAsConfigured
  BY ServerInvariant, PTL DEF IInv

----------------------------------------------------------------------------
(* Mutual exclusion                                                        *)

\* While a thread runs a handler of S, no other thread does and none is queued.
Exclusive(S) ==
    \A t \in Threads : handler[t] \in S =>
       /\ \A u \in Threads : handler[u] \in S => u = t
       /\ \A i \in DOMAIN ready : ready[i] \notin S

\* With one handler of a kind at most, no two threads run handlers of that kind.
LEMMA CountExclusive ==
  ASSUME TypeOK, NEW S, Count(S) \in {0, 1}
  PROVE  Exclusive(S)
  <1> SUFFICES ASSUME NEW t \in Threads, handler[t] \in S
               PROVE  /\ \A u \in Threads : handler[u] \in S => u = t
                      /\ \A i \in DOMAIN ready : ready[i] \notin S
    BY DEF Exclusive
  <1> DEFINE P == Positions(ready, S)
             R == Holders(handler, S)
  <1>1. /\ IsFiniteSet(P) /\ Cardinality(P) \in Nat
        /\ IsFiniteSet(R) /\ Cardinality(R) \in Nat
        /\ Cardinality(P) + Cardinality(R) \in {0, 1}
    BY PositionsFinite, HoldersFinite DEF TypeOK, Count
  <1>2. t \in R
    BY DEF Holders
  <1>3. Cardinality(R) # 0
    BY <1>1, <1>2, FS_EmptySet
  <1>4. Cardinality(P) = 0 /\ Cardinality(R) = 1
    BY <1>1, <1>3
  <1>5. P = {}
    BY <1>1, <1>4, FS_EmptySet
  <1>6. \E x : R = {x}
    BY <1>1, <1>4, FS_Singleton
  <1>7. \A u \in Threads : handler[u] \in S => u = t
    BY <1>2, <1>6 DEF Holders
  <1> QED
    BY <1>5, <1>7 DEF Positions

\* make_strand in listener::do_accept: no two threads run handlers of one
\* session at a time, however many of its operations complete at once.
THEOREM ServerSessionExclusive == Spec => []SessionExclusive
  <1>1. ASSUME IInv
        PROVE  SessionExclusive
    <2> SUFFICES ASSUME NEW c \in Clients, NEW t \in Threads, NEW u \in Threads,
                        handler[t] = Invoker(c), handler[u] = Invoker(c)
                 PROVE  t = u
      BY DEF SessionExclusive
    <2>1. pc # "terminated"
      BY <1>1, StepUp, HandlerKinds
    <2>2. TypeOK /\ Count({Invoker(c)}) \in {0, 1}
      BY <1>1, <2>1 DEF IInv, SessionInv
    <2> QED
      BY <2>2, CountExclusive DEF Exclusive
  <1> QED
    BY <1>1, ServerInvariant, PTL

\* on_accept starts the next accept of its listener only when it is done: no
\* two threads run a handler of one listener at a time, and none is queued
\* meanwhile, so that acceptor_ needs no lock.
THEOREM ServerAcceptExclusive == Spec => [](\A p \in Ports : Exclusive(AcceptsOf(p)))
  <1>1. ASSUME IInv, NEW p \in Ports
        PROVE  Exclusive(AcceptsOf(p))
    <2>1. CASE pc = "terminated"
      <3>1. \A t \in Threads : handler[t] = None
        BY <1>1, <2>1 DEF IInv
      <3> QED
        BY <3>1, HandlerKinds DEF Exclusive
    <2>2. CASE pc # "terminated"
      <3>1. TypeOK /\ Count(AcceptsOf(p)) \in Nat
        BY <1>1, CountNat DEF IInv
      <3>2. Count(AcceptsOf(p)) + (IF p \in pending THEN 1 ELSE 0) = (IF Started(p) THEN 1 ELSE 0)
        BY <1>1, <2>2 DEF IInv, AcceptLoopAlive
      <3>3. Count(AcceptsOf(p)) \in {0, 1}
        BY <3>1, <3>2
      <3> QED
        BY <3>1, <3>3, CountExclusive
    <2> QED
      BY <2>1, <2>2
  <1>2. IInv => \A p \in Ports : Exclusive(AcceptsOf(p))
    BY <1>1
  <1> QED
    BY <1>2, ServerInvariant, PTL

=============================================================================
