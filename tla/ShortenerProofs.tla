-------------------------- MODULE ShortenerProofs --------------------------
(***************************************************************************)
(* IInv is an inductive invariant of Shortener for any number of threads,  *)
(* tokens and URLs; the safety properties and the refinement of UrlMap     *)
(* follow from it.                                                         *)
(***************************************************************************)
EXTENDS Shortener, TLAPS

USE DEF Plain, Page, Redirect

\* An empty table, idle threads and free locks satisfy IInv.
LEMMA InitIInv == Init => IInv
<1> SUFFICES ASSUME Init PROVE IInv
  OBVIOUS
<1>1. TypeOK
  BY DEF Init, TypeOK, Reply, Pc, Job, NoJob
<1>2. LockInv /\ JobInv
  BY NoneAssumption DEF Init, LockInv, JobInv
<1>3. Injective /\ CheckedRowFresh /\ ToldRows /\ FreshPage
  BY DEF Init, Injective, CheckedRowFresh, ToldRows, FreshPage
<1>4. RedirectTrue /\ OneReply
  BY DEF Init, RedirectTrue, OneReply
<1> QED
  BY <1>1, <1>2, <1>3, <1>4 DEF IInv

\* A crash frees all locks and keeps the table.
LEMMA CrashStep == IInv /\ Crash => IInv'
<1> SUFFICES ASSUME IInv, Crash PROVE IInv'
  OBVIOUS
<1>1. TypeOK'
  BY DEF IInv, Crash, TypeOK, Reply, Pc, Job, NoJob
<1>2. LockInv' /\ JobInv'
  BY NoneAssumption DEF Crash, LockInv, JobInv
<1>3. (Injective /\ CheckedRowFresh /\ ToldRows /\ FreshPage)'
  BY DEF IInv, Crash, Injective, CheckedRowFresh, ToldRows, FreshPage
<1>4. (RedirectTrue /\ OneReply)'
  BY DEF Crash, RedirectTrue, OneReply
<1> QED
  BY <1>1, <1>2, <1>3, <1>4 DEF IInv

\* Sending a response and leaving the handler, from a point where the thread
\* holds no lock.
LEMMA FinishStep ==
  ASSUME IInv, NEW w \in Workers, NEW r \in Reply,
         Finish(w, r), r.kind # "awaiting",
         r.kind = "redirect" => r.url = Fallback,
         pc[w] \notin {"commit", "write", "finalize"},
         UNCHANGED <<urls, told, locks>>
  PROVE  IInv'
<1> USE DEF Finish, Say, locks, IInv
<1>1. TypeOK'
  BY DEF TypeOK, Pc, Job, NoJob
<1>2. /\ pc' = [pc EXCEPT ![w] = "idle"]
      /\ job' = [job EXCEPT ![w] = NoJob]
      /\ reply' = [reply EXCEPT ![w] = r]
      /\ UNCHANGED <<urls, told, shared, reserved, exclusive>>
  OBVIOUS
<1>3. \A v \in Workers : /\ pc'[v] = IF v = w THEN "idle" ELSE pc[v]
                         /\ v # w => job'[v] = job[v]
                         /\ reply'[v] = IF v = w THEN r ELSE reply[v]
  BY <1>2 DEF TypeOK
<1>4. LockInv' /\ JobInv'
  BY <1>2, <1>3 DEF LockInv, JobInv
<1>5. (Injective /\ ToldRows)'
  BY <1>2 DEF Injective, ToldRows
<1>6. CheckedRowFresh' /\ FreshPage'
  BY <1>2, <1>3 DEF CheckedRowFresh, FreshPage, Unique
<1>7. (RedirectTrue /\ OneReply)'
  BY <1>2, <1>3 DEF RedirectTrue, OneReply
<1> QED
  BY <1>1, <1>4, <1>5, <1>6, <1>7

\* The beginning of a handler.
LEMMA StartStep ==
  ASSUME IInv, NEW w \in Workers, NEW to \in {"ins_prepare", "sel_prepare"}, NEW j \in Job,
         Start(w, to, j), j.tok \in Tokens, to = "ins_prepare" => j.url \in Urls
  PROVE  IInv'
<1>1. /\ pc[w] = "idle"
      /\ pc' = [pc EXCEPT ![w] = to]
      /\ job' = [job EXCEPT ![w] = j]
      /\ reply' = [reply EXCEPT ![w] = Plain("awaiting")]
      /\ UNCHANGED <<urls, told, shared, reserved, exclusive>>
  BY DEF Start, Say, locks
<1> USE DEF IInv
<1>2. TypeOK'
  BY <1>1 DEF TypeOK, Pc, Reply
<1>3. \A v \in Workers : /\ pc'[v] = IF v = w THEN to ELSE pc[v]
                         /\ job'[v] = IF v = w THEN j ELSE job[v]
                         /\ reply'[v] = IF v = w THEN Plain("awaiting") ELSE reply[v]
  BY <1>1 DEF TypeOK
<1>4. LockInv' /\ JobInv'
  BY <1>1, <1>3 DEF LockInv, JobInv
<1>5. (Injective /\ ToldRows)'
  BY <1>1 DEF Injective, ToldRows
<1>6. CheckedRowFresh' /\ FreshPage'
  BY <1>1, <1>3 DEF CheckedRowFresh, FreshPage, Unique
<1>7. (RedirectTrue /\ OneReply)'
  BY <1>1, <1>3 DEF RedirectTrue, OneReply
<1> QED
  BY <1>2, <1>4, <1>5, <1>6, <1>7

\* sqlite3_prepare_v2 succeeds or the handler gives up.
LEMMA PrepareStep ==
  ASSUME IInv, NEW w \in Workers, prepare(w)
  PROVE  IInv'
<1>1. CASE Finish(w, Plain("server_error"))
  <2>1. Plain("server_error") \in Reply
    BY DEF Reply
  <2> QED
    BY <1>1, <2>1, FinishStep DEF prepare
<1>2. CASE Goto(w, IF pc[w] = "ins_prepare" THEN "insert" ELSE "select")
  <2>1. PICK to \in {"insert", "select"} :
          /\ pc' = [pc EXCEPT ![w] = to]
          /\ to = "insert" <=> pc[w] = "ins_prepare"
    BY <1>2 DEF Goto
  <2>2. pc[w] \in {"ins_prepare", "sel_prepare"}
        /\ UNCHANGED <<urls, told, reply, job, shared, reserved, exclusive>>
    BY <1>2 DEF prepare, Goto, locks
  <2> USE DEF IInv
  <2>3. TypeOK'
    BY <2>1, <2>2 DEF TypeOK, Pc
  <2>4. \A v \in Workers : pc'[v] = IF v = w THEN to ELSE pc[v]
    BY <2>1 DEF TypeOK
  <2>5. LockInv' /\ JobInv'
    BY <2>1, <2>2, <2>4 DEF LockInv, JobInv
  <2>6. (Injective /\ ToldRows)'
    BY <2>2 DEF Injective, ToldRows
  <2>7. CheckedRowFresh' /\ FreshPage'
    BY <2>2, <2>4 DEF CheckedRowFresh, FreshPage, Unique
  <2>8. (RedirectTrue /\ OneReply)'
    BY <2>2, <2>4 DEF RedirectTrue, OneReply
  <2> QED
    BY <2>3, <2>5, <2>6, <2>7, <2>8
<1> QED
  BY <1>1, <1>2 DEF prepare

\* The uniqueness check and RESERVED together make the row fresh until commit.
LEMMA InsertStep ==
  ASSUME IInv, NEW w \in Workers, insert(w)
  PROVE  IInv'
<1>1. /\ pc[w] = "insert" /\ reserved = None
      /\ Unique(job[w].tok, CStr[job[w].url])
      /\ shared' = shared \cup {w} /\ reserved' = w
      /\ pc' = [pc EXCEPT ![w] = "commit"]
      /\ UNCHANGED <<urls, told, reply, job, exclusive>>
  BY DEF insert, Goto
<1> USE DEF IInv
<1>2. TypeOK'
  BY <1>1 DEF TypeOK, Pc
<1>3. \A v \in Workers : pc'[v] = IF v = w THEN "commit" ELSE pc[v]
  BY <1>1 DEF TypeOK
<1>4. LockInv' /\ JobInv'
  BY <1>1, <1>3, NoneAssumption DEF LockInv, JobInv
<1>5. (Injective /\ ToldRows)'
  BY <1>1 DEF Injective, ToldRows
<1>6. CheckedRowFresh' /\ FreshPage'
  BY <1>1, <1>3 DEF CheckedRowFresh, FreshPage, Unique
<1>7. (RedirectTrue /\ OneReply)'
  BY <1>1, <1>3 DEF RedirectTrue, OneReply
<1> QED
  BY <1>2, <1>4, <1>5, <1>6, <1>7

\* PENDING is taken by the holder of RESERVED.
LEMMA CommitStep ==
  ASSUME IInv, NEW w \in Workers, commit(w)
  PROVE  IInv'
<1>1. /\ pc[w] = "commit" /\ exclusive' = TRUE
      /\ pc' = [pc EXCEPT ![w] = "write"]
      /\ UNCHANGED <<urls, told, reply, job, shared, reserved>>
  BY DEF commit, Goto
<1> USE DEF IInv
<1>2. TypeOK'
  BY <1>1 DEF TypeOK, Pc
<1>3. \A v \in Workers : pc'[v] = IF v = w THEN "write" ELSE pc[v]
  BY <1>1 DEF TypeOK
<1>4. LockInv' /\ JobInv'
  BY <1>1, <1>3 DEF LockInv, JobInv
<1>5. (Injective /\ ToldRows)'
  BY <1>1 DEF Injective, ToldRows
<1>6. CheckedRowFresh' /\ FreshPage'
  BY <1>1, <1>3 DEF CheckedRowFresh, FreshPage, Unique
<1>7. (RedirectTrue /\ OneReply)'
  BY <1>1, <1>3 DEF RedirectTrue, OneReply
<1> QED
  BY <1>2, <1>4, <1>5, <1>6, <1>7

\* The locks after sqlite3_finalize or the end of a transaction.
LEMMA ReleaseLocks ==
  ASSUME IInv, NEW w \in Workers, NEW to \in {"idle", "render"}, Release(w),
         pc' = [pc EXCEPT ![w] = to]
  PROVE  LockInv' /\ shared' \subseteq Workers /\ reserved' \in Workers \cup {None}
         /\ exclusive' \in BOOLEAN
<1>1. \A v \in Workers : pc'[v] = IF v = w THEN to ELSE pc[v]
  BY DEF IInv, TypeOK
<1>2. shared' \subseteq Workers /\ reserved' \in Workers \cup {None} /\ exclusive' \in BOOLEAN
  BY DEF IInv, TypeOK, Release
<1>3. \A v \in Workers : reserved' = v <=> pc'[v] \in {"commit", "write"}
  BY <1>1, NoneAssumption DEF IInv, LockInv, Release
<1>4. \A v \in Workers : v \in shared' <=> pc'[v] \in {"commit", "write", "finalize"}
  BY <1>1 DEF IInv, LockInv, Release
<1>5. exclusive' <=> \E v \in Workers : pc'[v] = "write"
  BY <1>1 DEF IInv, LockInv, Release
<1> QED
  BY <1>2, <1>3, <1>4, <1>5 DEF LockInv

\* The commit: the only step that adds a row.
LEMMA WriteStep ==
  ASSUME IInv, NEW w \in Workers, write(w)
  PROVE  IInv'
<1> DEFINE t == job[w].tok
           u == CStr[job[w].url]
<1>1. /\ pc[w] = "write"
      /\ urls' = urls \cup {<<t, u>>}
      /\ Release(w)
      /\ pc' = [pc EXCEPT ![w] = "render"]
      /\ UNCHANGED <<told, reply, job>>
  BY DEF write, Goto
<1> USE DEF IInv
<1>2. t \in Tokens /\ job[w].url \in Urls /\ u \in Urls
  BY <1>1, CStrAssumption DEF JobInv
<1>3. Unique(t, u)
  BY <1>1 DEF CheckedRowFresh
<1>4. \A v \in Workers : pc'[v] = IF v = w THEN "render" ELSE pc[v]
  BY <1>1 DEF TypeOK
<1>5. LockInv' /\ shared' \subseteq Workers /\ reserved' \in Workers \cup {None}
      /\ exclusive' \in BOOLEAN
  BY <1>1, ReleaseLocks
<1>6. TypeOK'
  <2>1. urls' \subseteq Tokens \X Urls
    BY <1>1, <1>2 DEF TypeOK
  <2>2. (pc \in [Workers -> Pc])'
    BY <1>1 DEF TypeOK, Pc
  <2> QED
    BY <1>1, <1>5, <2>1, <2>2 DEF TypeOK
<1>7. JobInv'
  BY <1>1, <1>2, <1>4 DEF JobInv
<1>8. Injective'
  BY <1>1, <1>3 DEF Injective, Unique
<1>9. \A v \in Workers : v # w => pc[v] \notin {"commit", "write"}
  BY <1>1 DEF LockInv
<1>10. CheckedRowFresh'
  BY <1>4, <1>9 DEF CheckedRowFresh
<1>11. ToldRows'
  BY <1>1 DEF ToldRows
<1>12. FreshPage'
  <2>1. \A p \in told : p[1] # t
    BY <1>3 DEF ToldRows, Unique
  <2>2. \A v \in Workers \ {w} : pc[v] = "render" => job[v].tok # t
    BY <1>3 DEF FreshPage, Unique
  <2> QED
    BY <1>1, <1>4, <2>1, <2>2 DEF FreshPage
<1>13. (RedirectTrue /\ OneReply)'
  BY <1>1, <1>4 DEF RedirectTrue, OneReply
<1> QED
  BY <1>5, <1>6, <1>7, <1>8, <1>10, <1>11, <1>12, <1>13

\* Leaving a handler together with its locks; the table is as before.
LEMMA ReleaseStep ==
  ASSUME IInv, NEW w \in Workers, Release(w), pc[w] # "render",
         pc' = [pc EXCEPT ![w] = "idle"],
         job' = [job EXCEPT ![w] = NoJob],
         reply' = [reply EXCEPT ![w] = Plain("server_error")] \/ (reply' = reply /\ reply[w].kind # "awaiting"),
         UNCHANGED <<urls, told>>
  PROVE  IInv'
<1> USE DEF IInv
<1>1. \A v \in Workers : /\ pc'[v] = IF v = w THEN "idle" ELSE pc[v]
                         /\ v # w => job'[v] = job[v]
                         /\ v # w => reply'[v] = reply[v]
                         /\ reply'[w] = reply[w] \/ reply'[w] = Plain("server_error")
                         /\ reply'[w].kind # "awaiting"
  BY DEF TypeOK
<1>2. LockInv' /\ shared' \subseteq Workers /\ reserved' \in Workers \cup {None}
      /\ exclusive' \in BOOLEAN
  BY ReleaseLocks
<1>3. TypeOK'
  <2>1. (pc \in [Workers -> Pc])' /\ (job \in [Workers -> Job])'
    BY DEF TypeOK, Pc, Job, NoJob
  <2>2. (reply \in [Workers -> Reply])'
    BY DEF TypeOK, Reply
  <2> QED
    BY <1>2, <2>1, <2>2 DEF TypeOK
<1>4. JobInv'
  BY <1>1 DEF JobInv
<1>5. (Injective /\ ToldRows)'
  BY DEF Injective, ToldRows
<1>6. CheckedRowFresh' /\ FreshPage'
  BY <1>1 DEF CheckedRowFresh, FreshPage, Unique
<1>7. (RedirectTrue /\ OneReply)'
  BY <1>1 DEF RedirectTrue, OneReply
<1> QED
  BY <1>2, <1>3, <1>4, <1>5, <1>6, <1>7

\* The success page, or the failure to render it.
LEMMA RenderStep ==
  ASSUME IInv, NEW w \in Workers, render(w)
  PROVE  IInv'
<1> DEFINE t == job[w].tok
           u == job[w].url
<1>1. pc[w] = "render" /\ UNCHANGED <<urls, shared, reserved, exclusive>>
  BY DEF render, locks
<1>2. CASE told' = told /\ Finish(w, Plain("bad_request"))
  <2>1. Plain("bad_request") \in Reply
    BY DEF Reply
  <2> QED
    BY <1>1, <1>2, <2>1, FinishStep DEF locks
<1>3. CASE told' = told \cup {<<t, u>>} /\ Finish(w, Page(t, u))
  <2> USE DEF IInv
  <2>1. t \in Tokens /\ u \in Urls /\ <<t, CStr[u]>> \in urls
    BY <1>1 DEF JobInv, FreshPage
  <2>2. \A v \in Workers \ {w} : pc[v] = "render" => job[v].tok # t
    BY <1>1 DEF FreshPage
  <2>3. /\ pc' = [pc EXCEPT ![w] = "idle"]
        /\ job' = [job EXCEPT ![w] = NoJob]
        /\ reply' = [reply EXCEPT ![w] = Page(t, u)]
    BY <1>3 DEF Finish, Say
  <2>4. \A v \in Workers : /\ pc'[v] = IF v = w THEN "idle" ELSE pc[v]
                           /\ v # w => job'[v] = job[v]
                           /\ v # w => reply'[v] = reply[v]
                           /\ reply'[w].kind = "page"
    BY <2>3 DEF TypeOK
  <2>5. TypeOK'
    <3>1. (pc \in [Workers -> Pc])' /\ (job \in [Workers -> Job])'
      BY <2>3 DEF TypeOK, Pc, Job, NoJob
    <3>2. (reply \in [Workers -> Reply])'
      <4>1. Page(t, u) \in Reply
        BY <2>1 DEF Reply
      <4> QED
        BY <4>1, <2>3 DEF TypeOK
    <3> QED
      BY <1>1, <1>3, <2>1, <3>1, <3>2 DEF TypeOK
  <2>6. LockInv' /\ JobInv'
    BY <1>1, <2>4 DEF LockInv, JobInv
  <2>7. Injective' /\ ToldRows'
    BY <1>1, <1>3, <2>1 DEF Injective, ToldRows
  <2>8. CheckedRowFresh'
    BY <1>1, <2>4 DEF CheckedRowFresh, Unique
  <2>9. FreshPage'
    BY <1>1, <1>3, <2>2, <2>4 DEF FreshPage
  <2>10. (RedirectTrue /\ OneReply)'
    BY <1>1, <2>4 DEF RedirectTrue, OneReply
  <2> QED
    BY <2>5, <2>6, <2>7, <2>8, <2>9, <2>10
<1> QED
  BY <1>2, <1>3 DEF render

\* A row is found and redirected to.
LEMMA SelectRowStep ==
  ASSUME IInv, NEW w \in Workers, select_row(w)
  PROVE  IInv'
<1>1. PICK u \in Urls : <<job[w].tok, u>> \in urls
                        /\ reply' = [reply EXCEPT ![w] = Redirect(job[w].tok, u)]
  BY DEF select_row, Say
<1>2. /\ pc[w] = "select"
      /\ shared' = shared \cup {w}
      /\ pc' = [pc EXCEPT ![w] = "finalize"]
      /\ UNCHANGED <<urls, told, job, reserved, exclusive>>
  BY DEF select_row
<1> USE DEF IInv
<1>3. \A v \in Workers : /\ pc'[v] = IF v = w THEN "finalize" ELSE pc[v]
                         /\ reply'[v] = IF v = w THEN Redirect(job[w].tok, u) ELSE reply[v]
  BY <1>1, <1>2 DEF TypeOK
<1>4. TypeOK'
  <2>1. Redirect(job[w].tok, u) \in Reply
    BY <1>2 DEF JobInv, Reply
  <2>2. (reply \in [Workers -> Reply])'
    BY <1>1, <2>1 DEF TypeOK
  <2>3. (pc \in [Workers -> Pc])'
    BY <1>2 DEF TypeOK, Pc
  <2> QED
    BY <1>2, <2>2, <2>3 DEF TypeOK
<1>5. LockInv' /\ JobInv'
  BY <1>2, <1>3 DEF LockInv, JobInv
<1>6. (Injective /\ ToldRows)'
  BY <1>2 DEF Injective, ToldRows
<1>7. CheckedRowFresh' /\ FreshPage'
  BY <1>2, <1>3 DEF CheckedRowFresh, FreshPage, Unique
<1>8. (RedirectTrue /\ OneReply)'
  BY <1>1, <1>2, <1>3 DEF RedirectTrue, OneReply
<1> QED
  BY <1>4, <1>5, <1>6, <1>7, <1>8

\* Every step of handle_post preserves IInv.
LEMMA PostStep ==
  ASSUME IInv, NEW w \in Workers, handle_post(w)
  PROVE  IInv'
<1>1. CASE post_reject(w)
  <2>1. Plain("bad_request") \in Reply
    BY DEF Reply
  <2> QED
    BY <1>1, <2>1, FinishStep DEF post_reject
<1>2. CASE post_start(w)
  <2>1. PICK t \in Tokens, u \in Urls : Start(w, "ins_prepare", [tok |-> t, url |-> u])
    BY <1>2 DEF post_start
  <2>2. [tok |-> t, url |-> u] \in Job
    BY DEF Job
  <2> QED
    BY <2>1, <2>2, StartStep
<1>3. CASE step_fails(w)
  BY <1>3, ReleaseStep DEF step_fails, Finish, Say
<1> QED
  BY <1>1, <1>2, <1>3, InsertStep, CommitStep, WriteStep, RenderStep DEF handle_post

\* Every step of handle_get_url preserves IInv.
LEMMA GetStep ==
  ASSUME IInv, NEW w \in Workers, handle_get_url(w)
  PROVE  IInv'
<1>1. CASE get_start(w)
  <2>1. PICK t \in Tokens : Start(w, "sel_prepare", [tok |-> t, url |-> None])
    BY <1>1 DEF get_start
  <2>2. [tok |-> t, url |-> None] \in Job
    BY DEF Job
  <2> QED
    BY <2>1, <2>2, StartStep
<1>2. CASE select_else(w)
  <2>1. Redirect(job[w].tok, Fallback) \in Reply
    BY <1>2 DEF IInv, JobInv, Reply, select_else
  <2> QED
    BY <1>2, <2>1, FinishStep DEF select_else
<1>3. CASE finalize(w)
  <2>1. reply[w].kind # "awaiting"
    BY <1>3 DEF finalize, IInv, OneReply
  <2> QED
    BY <1>3, <2>1, ReleaseStep DEF finalize
<1>4. CASE get_reject(w)
  <2>1. Plain("bad_request") \in Reply
    BY DEF Reply
  <2> QED
    BY <1>4, <2>1, FinishStep DEF get_reject
<1> QED
  BY <1>1, <1>2, <1>3, <1>4, SelectRowStep DEF handle_get_url

\* Whatever thread takes the next step of its handler, and when the process
\* dies, IInv is preserved.
THEOREM IInvInductive == IInv /\ [Next]_vars => IInv'
<1> SUFFICES ASSUME IInv, [Next]_vars PROVE IInv'
  OBVIOUS
<1>1. CASE \E w \in Workers : handle_post(w) \/ handle_get_url(w) \/ prepare(w)
  BY <1>1, PostStep, GetStep, PrepareStep
<1>2. CASE Crash
  BY <1>2, CrashStep
<1>3. CASE UNCHANGED vars
  BY <1>3 DEF vars, IInv, TypeOK, LockInv, JobInv, Injective, CheckedRowFresh, ToldRows,
              FreshPage, RedirectTrue, OneReply, Unique
<1> QED
  BY <1>1, <1>2, <1>3 DEF Next

\* The invariant holds in every reachable state.
THEOREM ShortenerInvariant == Spec => []IInv
<1>1. Init => IInv
  BY InitIInv
<1>2. IInv /\ [Next]_vars => IInv'
  BY IInvInductive
<1> QED
  BY <1>1, <1>2, PTL DEF Spec

\* Type correctness of the request handlers and the locks.
THEOREM ShortenerTypes == Spec => []TypeOK
<1>1. IInv => TypeOK
  BY DEF IInv
<1> QED
  BY <1>1, ShortenerInvariant, PTL

\* Concurrent POSTs never give a token two URLs or a URL two tokens.
THEOREM ShortenerInjective == Spec => []Injective
<1>1. IInv => Injective
  BY DEF IInv
<1> QED
  BY <1>1, ShortenerInvariant, PTL

\* A URL without NUL bytes that a page announced is stored as announced.
THEOREM ShortenerToldStored == Spec => []ToldStored
<1>1. IInv => ToldStored
  BY DEF IInv, TypeOK, ToldRows, ToldStored, Whole
<1> QED
  BY <1>1, ShortenerInvariant, PTL

\* Every token is disclosed at most once.
THEOREM ShortenerFreshPage == Spec => []FreshPage
<1>1. IInv => FreshPage
  BY DEF IInv
<1> QED
  BY <1>1, ShortenerInvariant, PTL

\* Redirects follow the table or go to the fallback.
THEOREM ShortenerRedirectTrue == Spec => []RedirectTrue
<1>1. IInv => RedirectTrue
  BY DEF IInv
<1> QED
  BY <1>1, ShortenerInvariant, PTL

\* No path through the handlers leaves a file lock behind.
THEOREM ShortenerNoLockLeak == Spec => []NoLockLeak
<1>1. IInv => NoLockLeak
  BY DEF IInv, LockInv, NoLockLeak
<1> QED
  BY <1>1, ShortenerInvariant, PTL

\* Every path through the handlers sends exactly one response.
THEOREM ShortenerOneReply == Spec => []OneReply
<1>1. IInv => OneReply
  BY DEF IInv
<1> QED
  BY <1>1, ShortenerInvariant, PTL

----------------------------------------------------------------------------
(* Refinement                                                              *)

\* An error response is a refusal of the abstract map.
LEMMA RefuseMaps ==
  ASSUME NEW w \in Workers, NEW k \in {"bad_request", "server_error"},
         Finish(w, Plain(k)), UNCHANGED <<urls, told>>
  PROVE  UM!MapNext
<1>1. UM!Refuse(w)
  BY DEF UM!Refuse, UM!Say, UM!Plain, Finish, Say
<1> QED
  BY <1>1 DEF UM!MapNext

\* The beginning of a handler is an accepted request of the abstract map.
LEMMA AcceptMaps ==
  ASSUME NEW w \in Workers, NEW to, NEW j, Start(w, to, j)
  PROVE  UM!MapNext
<1>1. UM!Accept(w)
  BY DEF UM!Accept, UM!Say, UM!Plain, Start, Say
<1> QED
  BY <1>1 DEF UM!MapNext

\* A redirect is an answer of the abstract map.
LEMMA AnswerMaps ==
  ASSUME NEW w \in Workers, NEW t \in Tokens, NEW u \in UM!Targets(t),
         reply' = [reply EXCEPT ![w] = Redirect(t, u)], UNCHANGED <<urls, told>>
  PROVE  UM!MapNext
<1>1. UM!Answer(w, t)
  BY DEF UM!Answer, UM!Say, UM!Redirect
<1> QED
  BY <1>1 DEF UM!MapNext

\* Every step of a handler is a step of the abstract map or leaves it alone.
LEMMA StepMaps == IInv /\ [Next]_vars => [UM!MapNext]_(UM!mapVars)
<1> SUFFICES ASSUME IInv, [Next]_vars PROVE UM!MapNext \/ UNCHANGED UM!mapVars
  OBVIOUS
<1>1. ASSUME NEW w \in Workers, handle_post(w) PROVE UM!MapNext \/ UNCHANGED UM!mapVars
  <2>1. CASE post_reject(w)
    BY <2>1, RefuseMaps DEF post_reject
  <2>2. CASE post_start(w)
    BY <2>2, AcceptMaps DEF post_start
  <2>3. CASE insert(w) \/ commit(w)
    BY <2>3 DEF insert, commit, Goto, UM!mapVars
  <2>4. CASE write(w)
    <3>1. job[w].tok \in Tokens /\ CStr[job[w].url] \in Urls
      BY <2>4, CStrAssumption DEF IInv, JobInv, write
    <3>2. UM!Unstored(job[w].tok, CStr[job[w].url])
      BY <2>4 DEF IInv, CheckedRowFresh, write, Unique, UM!Unstored
    <3>3. UM!Store(job[w].tok, CStr[job[w].url])
      BY <2>4, <3>2 DEF write, Goto, UM!Store
    <3> QED
      BY <3>1, <3>3 DEF UM!MapNext
  <2>5. CASE step_fails(w)
    BY <2>5, RefuseMaps DEF step_fails
  <2>6. CASE render(w)
    <3>1. CASE Finish(w, Plain("bad_request")) /\ told' = told
      BY <2>6, <3>1, RefuseMaps DEF render
    <3>2. CASE /\ told' = told \cup {<<job[w].tok, job[w].url>>}
               /\ Finish(w, Page(job[w].tok, job[w].url))
      <4>1. /\ job[w].tok \in Tokens /\ job[w].url \in Urls
            /\ <<job[w].tok, CStr[job[w].url]>> \in urls
            /\ \A p \in told : p[1] # job[w].tok
        BY <2>6 DEF IInv, JobInv, FreshPage, render
      <4>2. /\ CStr[job[w].url] \in Urls
            /\ job[w].url \in Whole => CStr[job[w].url] = job[w].url
        BY <4>1, CStrAssumption DEF Whole
      <4>3. UM!Announce(w, job[w].tok, job[w].url)
        BY <2>6, <3>2, <4>1, <4>2 DEF render, Finish, Say, UM!Announce, UM!Say, UM!Page
      <4> QED
        BY <4>1, <4>3 DEF UM!MapNext
    <3> QED
      BY <2>6, <3>1, <3>2 DEF render
  <2> QED
    BY <1>1, <2>1, <2>2, <2>3, <2>4, <2>5, <2>6 DEF handle_post
<1>2. ASSUME NEW w \in Workers, handle_get_url(w) PROVE UM!MapNext \/ UNCHANGED UM!mapVars
  <2>1. CASE get_start(w)
    BY <2>1, AcceptMaps DEF get_start
  <2>2. CASE select_row(w)
    <3>1. job[w].tok \in Tokens
      BY <2>2 DEF IInv, JobInv, select_row
    <3>2. PICK u \in UM!Targets(job[w].tok) : reply' = [reply EXCEPT ![w] = Redirect(job[w].tok, u)]
      BY <2>2 DEF select_row, Say, UM!Targets
    <3> QED
      BY <2>2, <3>1, <3>2, AnswerMaps DEF select_row
  <2>3. CASE select_else(w)
    <3>1. job[w].tok \in Tokens /\ Fallback \in UM!Targets(job[w].tok)
      BY <2>3 DEF IInv, JobInv, select_else, UM!Targets
    <3> QED
      BY <2>3, <3>1, AnswerMaps DEF select_else, Finish, Say
  <2>4. CASE finalize(w)
    BY <2>4 DEF finalize, UM!mapVars
  <2>5. CASE get_reject(w)
    BY <2>5, RefuseMaps DEF get_reject
  <2> QED
    BY <1>2, <2>1, <2>2, <2>3, <2>4, <2>5 DEF handle_get_url
<1>3. ASSUME NEW w \in Workers, prepare(w) PROVE UM!MapNext \/ UNCHANGED UM!mapVars
  BY <1>3, RefuseMaps DEF prepare, Goto, UM!mapVars
<1>4. CASE Crash
  BY <1>4 DEF Crash, UM!MapNext, UM!Restart, UM!Plain
<1>5. CASE UNCHANGED vars
  BY <1>5 DEF vars, UM!mapVars
<1> QED
  BY <1>1, <1>2, <1>3, <1>4, <1>5 DEF Next

\* The handlers, run by any number of threads over the locked file, implement
\* the abstract map.
THEOREM ShortenerRefinesMap == Spec => ImplementsMap
<1>1. Init => UM!MapInit
  BY DEF Init, UM!MapInit, UM!Plain
<1>2. IInv /\ [Next]_vars => [UM!MapNext]_(UM!mapVars)
  BY StepMaps
<1> QED
  BY <1>1, <1>2, ShortenerInvariant, PTL DEF Spec, ImplementsMap, UM!MapSpec
=============================================================================
