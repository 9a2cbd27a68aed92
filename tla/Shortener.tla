----------------------------- MODULE Shortener -----------------------------
(***************************************************************************)
(* The threads of the server running handle_post and handle_get_url        *)
(* against the shared SQLite file. Every request opens its own connection, *)
(* so the requests meet in SQLite's file locks: SHARED, RESERVED and       *)
(* PENDING/EXCLUSIVE (rollback journal, no busy handler: a lock that is    *)
(* not free is an error at once). A handler is split at the calls where    *)
(* those locks are taken or released.                                      *)
(***************************************************************************)
EXTENDS Naturals

CONSTANTS
    Workers,    \* the threads that run ioc.run()
    Tokens,     \* what generate_random_filename may return
    Urls,       \* the URLs that clients submit
    Fallback,   \* where handle_get_url redirects when it has no row
    CStr,       \* what a C string keeps of a URL (up to the first NUL byte)
    None        \* no token, no URL, no worker

ASSUME CStrAssumption == CStr \in [Urls -> Urls]
ASSUME NoneAssumption == None \notin Workers

VARIABLES
    urls,       \* the table: rows <<token, url>>
    told,       \* history: the pairs <<token, url>> announced by a page
    reply,      \* the latest response of each thread
    pc,         \* where the thread is; "idle" between two requests
    job,        \* the token and the URL the handler works on
    shared,     \* connections that hold SHARED
    reserved,   \* the connection that holds RESERVED, or None
    exclusive   \* that connection also keeps new readers out

locks == <<shared, reserved, exclusive>>
vars == <<urls, told, reply, pc, job, shared, reserved, exclusive>>

Reply == [kind : {"none", "awaiting", "page", "redirect", "bad_request", "server_error"},
          tok : Tokens \cup {None},
          url : Urls \cup {Fallback, None}]
Plain(k) == [kind |-> k, tok |-> None, url |-> None]
Page(t, u) == [kind |-> "page", tok |-> t, url |-> u]
Redirect(t, u) == [kind |-> "redirect", tok |-> t, url |-> u]

Pc == {"idle", "ins_prepare", "insert", "commit", "write", "render",
       "sel_prepare", "select", "finalize"}
Job == [tok : Tokens \cup {None}, url : Urls \cup {None}]
NoJob == [tok |-> None, url |-> None]

----------------------------------------------------------------------------
(* Helpers                                                                 *)

Say(w, r) == reply' = [reply EXCEPT ![w] = r]

\* The handler goes on to `to`; the response is not sent yet.
Goto(w, to) ==
    /\ pc' = [pc EXCEPT ![w] = to]
    /\ UNCHANGED <<job, reply>>

\* return send(r): the response is sent and the handler is left.
Finish(w, r) ==
    /\ pc' = [pc EXCEPT ![w] = "idle"]
    /\ job' = [job EXCEPT ![w] = NoJob]
    /\ Say(w, r)

Start(w, to, j) ==
    /\ pc[w] = "idle"
    /\ pc' = [pc EXCEPT ![w] = to]
    /\ job' = [job EXCEPT ![w] = j]
    /\ Say(w, Plain("awaiting"))
    /\ UNCHANGED <<urls, told, locks>>

\* sqlite3_finalize, or the end of the transaction: the connection gives up
\* its locks.
Release(w) ==
    /\ shared' = shared \ {w}
    /\ reserved' = IF reserved = w THEN None ELSE reserved
    /\ exclusive' = (exclusive /\ reserved # w)

\* Faulty variant: the table is created without UNIQUE on url.
FaultyUnique(t, u) == \A row \in urls : row[1] # t
\* The UNIQUE constraints on token and url.
Unique(t, u) == \A row \in urls : row[1] # t /\ row[2] # u

----------------------------------------------------------------------------
(* POST /post.html                                                         *)

\* Another method, or a form without a valid URL, is refused before the
\* database is opened.
post_reject(w) ==
    /\ pc[w] = "idle"
    /\ Finish(w, Plain("bad_request"))
    /\ UNCHANGED <<urls, told, locks>>

\* A valid URL: draw a token and open the database.
post_start(w) ==
    \E t \in Tokens, u \in Urls : Start(w, "ins_prepare", [tok |-> t, url |-> u])

\* Faulty variant: an error is logged but not sent.
FaultyPrepare(w) ==
    /\ pc[w] \in {"ins_prepare", "sel_prepare"}
    /\ \/ /\ ~exclusive
          /\ Goto(w, IF pc[w] = "ins_prepare" THEN "insert" ELSE "select")
       \/ Finish(w, Plain("awaiting"))
    /\ UNCHANGED <<urls, told, locks>>

\* sqlite3_prepare_v2 reads the schema, for which it needs SHARED. Opening,
\* preparing and binding fail for other reasons too.
prepare(w) ==
    /\ pc[w] \in {"ins_prepare", "sel_prepare"}
    /\ \/ /\ ~exclusive
          /\ Goto(w, IF pc[w] = "ins_prepare" THEN "insert" ELSE "select")
       \/ Finish(w, Plain("server_error"))
    /\ UNCHANGED <<urls, told, locks>>

\* sqlite3_step, first part: SHARED, then RESERVED, then the two unique
\* indexes, in a transaction that is not visible to anyone yet.
insert(w) ==
    /\ pc[w] = "insert"
    /\ reserved = None
    /\ Unique(job[w].tok, CStr[job[w].url])
    /\ shared' = shared \cup {w}
    /\ reserved' = w
    /\ Goto(w, "commit")
    /\ UNCHANGED <<urls, told, exclusive>>

\* sqlite3_step, second part: PENDING keeps new readers out.
commit(w) ==
    /\ pc[w] = "commit"
    /\ exclusive' = TRUE
    /\ Goto(w, "write")
    /\ UNCHANGED <<urls, told, shared, reserved>>

\* sqlite3_step, last part: once no other reader is left, EXCLUSIVE; the row
\* is written and the journal deleted.
write(w) ==
    /\ pc[w] = "write"
    /\ shared = {w}
    /\ urls' = urls \cup {<<job[w].tok, CStr[job[w].url]>>}
    /\ Release(w)
    /\ Goto(w, "render")
    /\ UNCHANGED told

\* Faulty variants: the result of sqlite3_step is ignored; it is tried again
\* until it succeeds; the statement is not finalized.
FaultyIgnoreStep(w) ==
    /\ pc[w] \in {"insert", "commit", "write"}
    /\ Release(w)
    /\ Goto(w, "render")
    /\ UNCHANGED <<urls, told>>
FaultyRetry(w) ==
    /\ pc[w] \in {"insert", "commit", "write"}
    /\ Release(w)
    /\ Goto(w, "insert")
    /\ UNCHANGED <<urls, told>>
FaultyLeak(w) ==
    /\ pc[w] \in {"insert", "commit", "write"}
    /\ Finish(w, Plain("server_error"))
    /\ UNCHANGED <<urls, told, locks>>

\* step != SQLITE_DONE: another writer or a reader is in the way, a row with
\* this token or URL exists, or the disk is full. Everything is rolled back.
step_fails(w) ==
    /\ pc[w] \in {"insert", "commit", "write"}
    /\ Release(w)
    /\ Finish(w, Plain("server_error"))
    /\ UNCHANGED <<urls, told>>

\* The template is rendered with the token and the URL as submitted, or it
\* cannot be read: the row stays either way.
render(w) ==
    /\ pc[w] = "render"
    /\ \/ /\ told' = told \cup {<<job[w].tok, job[w].url>>}
          /\ Finish(w, Page(job[w].tok, job[w].url))
       \/ /\ told' = told
          /\ Finish(w, Plain("bad_request"))
    /\ UNCHANGED <<urls, locks>>

----------------------------------------------------------------------------
(* GET /<token>                                                            *)

\* Any method but GET is refused.
get_reject(w) ==
    /\ pc[w] = "idle"
    /\ Finish(w, Plain("bad_request"))
    /\ UNCHANGED <<urls, told, locks>>

\* Faulty variant: the URL starts out as the fallback.
FaultyGetStart(w) ==
    \E t \in Tokens : Start(w, "sel_prepare", [tok |-> t, url |-> Fallback])

\* The target names a token, which may or may not be in the table.
get_start(w) ==
    \E t \in Tokens : Start(w, "sel_prepare", [tok |-> t, url |-> None])

\* Faulty variant: the query has no WHERE clause.
FaultySelectRow(w) ==
    /\ pc[w] = "select"
    /\ ~exclusive
    /\ \E row \in urls : Say(w, Redirect(job[w].tok, row[2]))
    /\ shared' = shared \cup {w}
    /\ pc' = [pc EXCEPT ![w] = "finalize"]
    /\ UNCHANGED <<urls, told, job, reserved, exclusive>>

\* SQLITE_ROW: redirect to the stored URL. The statement is finalized only
\* after the response has been sent, so SHARED is kept until then.
select_row(w) ==
    /\ pc[w] = "select"
    /\ ~exclusive
    /\ \E u \in Urls :
         /\ <<job[w].tok, u>> \in urls
         /\ Say(w, Redirect(job[w].tok, u))
    /\ shared' = shared \cup {w}
    /\ pc' = [pc EXCEPT ![w] = "finalize"]
    /\ UNCHANGED <<urls, told, job, reserved, exclusive>>

\* SQLITE_DONE and SQLITE_BUSY: no row, or a commit is in progress. Both are
\* answered with the fallback.
select_else(w) ==
    /\ pc[w] = "select"
    /\ exclusive \/ \A row \in urls : row[1] # job[w].tok
    /\ Finish(w, Redirect(job[w].tok, Fallback))
    /\ UNCHANGED <<urls, told, locks>>

\* The end of the handler: scope_exit finalizes the statement.
finalize(w) ==
    /\ pc[w] = "finalize"
    /\ Release(w)
    /\ pc' = [pc EXCEPT ![w] = "idle"]
    /\ job' = [job EXCEPT ![w] = NoJob]
    /\ UNCHANGED <<urls, told, reply>>

----------------------------------------------------------------------------

\* The process dies and is started again; SQLite rolls an unfinished
\* transaction back from its journal.
Crash ==
    /\ reply' = [w \in Workers |-> Plain("none")]
    /\ pc' = [w \in Workers |-> "idle"]
    /\ job' = [w \in Workers |-> NoJob]
    /\ shared' = {}
    /\ reserved' = None
    /\ exclusive' = FALSE
    /\ UNCHANGED <<urls, told>>

Init ==
    /\ urls = {}
    /\ told = {}
    /\ reply = [w \in Workers |-> Plain("none")]
    /\ pc = [w \in Workers |-> "idle"]
    /\ job = [w \in Workers |-> NoJob]
    /\ shared = {}
    /\ reserved = None
    /\ exclusive = FALSE

handle_post(w) ==
    \/ post_reject(w) \/ post_start(w) \/ insert(w) \/ commit(w)
    \/ write(w) \/ step_fails(w) \/ render(w)
handle_get_url(w) ==
    \/ get_reject(w) \/ get_start(w)
    \/ select_row(w) \/ select_else(w) \/ finalize(w)

Next ==
    \/ \E w \in Workers : handle_post(w) \/ handle_get_url(w) \/ prepare(w)
    \/ Crash

Spec == Init /\ [][Next]_vars

\* No call waits for a lock: a thread inside a handler always goes on.
Fairness == \A w \in Workers :
    WF_vars(pc[w] # "idle" /\ (handle_post(w) \/ handle_get_url(w) \/ prepare(w)))

FairSpec == Spec /\ Fairness

----------------------------------------------------------------------------
(* Properties                                                              *)

TypeOK ==
    /\ urls \subseteq Tokens \X Urls
    /\ told \subseteq Tokens \X Urls
    /\ reply \in [Workers -> Reply]
    /\ pc \in [Workers -> Pc]
    /\ job \in [Workers -> Job]
    /\ shared \subseteq Workers
    /\ reserved \in Workers \cup {None}
    /\ exclusive \in BOOLEAN

\* A token leads to one URL and a URL has one token, whatever POSTs with the
\* same token or URL run at the same time.
Injective == \A r1, r2 \in urls : r1 # r2 => r1[1] # r2[1] /\ r1[2] # r2[2]

\* URLs without a NUL byte. For the others the page and the row disagree: the
\* page shows the URL as submitted, the database gets it as a C string.
Whole == {u \in Urls : CStr[u] = u}

\* What a page announced is in the table, exactly as announced, and stays
\* there through failing requests and crashes: the page comes after the
\* commit. This does not hold of a URL with a NUL byte.
ToldStored == \A p \in told : p[2] \in Whole => p \in urls

\* The page about to be rendered is the first one for its row, and no other
\* thread is about to render it too: each token is disclosed at most once.
FreshPage ==
    \A w \in Workers : pc[w] = "render" =>
        /\ <<job[w].tok, CStr[job[w].url]>> \in urls
        /\ \A p \in told : p[1] # job[w].tok
        /\ \A v \in Workers \ {w} : pc[v] = "render" => job[v].tok # job[w].tok

\* A redirect goes where the table says, now and forever, or to the fallback.
RedirectTrue ==
    \A w \in Workers : reply[w].kind = "redirect" =>
        reply[w].url = Fallback \/ <<reply[w].tok, reply[w].url>> \in urls

\* No error path leaves a lock behind: a thread between two requests holds
\* none, and new readers are kept out only while a thread is writing.
NoLockLeak ==
    /\ \A w \in Workers : pc[w] = "idle" => w \notin shared /\ reserved # w
    /\ exclusive => \E w \in Workers : reserved = w /\ pc[w] = "write"

\* handle_request sends exactly one response on every path, which is what the
\* session's queue relies on: a response is missing just as long as the
\* handler has not come to its end, where the statement is finalized.
OneReply ==
    \A w \in Workers : reply[w].kind = "awaiting" <=> pc[w] \notin {"idle", "finalize"}

(* The inductive invariant the proofs rest on.                             *)

\* RESERVED keeps the uniqueness check of the insert valid up to the commit.
CheckedRowFresh ==
    \A w \in Workers : pc[w] \in {"commit", "write"} => Unique(job[w].tok, CStr[job[w].url])

\* The row behind every announced pair, with the URL as the database has it.
ToldRows == \A p \in told : <<p[1], CStr[p[2]]>> \in urls

\* Which locks go with which point of the handlers.
LockInv ==
    /\ \A w \in Workers : reserved = w <=> pc[w] \in {"commit", "write"}
    /\ \A w \in Workers : w \in shared <=> pc[w] \in {"commit", "write", "finalize"}
    /\ exclusive <=> \E w \in Workers : pc[w] = "write"

\* What a handler has determined at which point.
JobInv ==
    \A w \in Workers :
        /\ pc[w] # "idle" => job[w].tok \in Tokens
        /\ pc[w] \in {"ins_prepare", "insert", "commit", "write", "render"} => job[w].url \in Urls

\* Together with the properties these are preserved by every step.
IInv ==
    /\ TypeOK
    /\ LockInv
    /\ JobInv
    /\ Injective
    /\ CheckedRowFresh
    /\ ToldRows
    /\ FreshPage
    /\ RedirectTrue
    /\ OneReply

\* The shortener implements the abstract map: a multi-step POST under locks
\* looks like one atomic insertion, followed at most once by its page.
UM == INSTANCE UrlMap WITH map <- urls
ImplementsMap == UM!MapSpec

\* Every request is answered and its locks are released, whatever the other
\* threads do.
Completes == \A w \in Workers : pc[w] # "idle" ~> pc[w] = "idle"

\* The success page says that the token "goes to" the URL: once told, no
\* redirect for this token goes anywhere else.
GoesTo ==
    [][\A w \in Workers, p \in told :
          (reply'[w] # reply[w] /\ reply'[w].kind = "redirect" /\ reply'[w].tok = p[1])
             => reply'[w].url = p[2]]_vars
=============================================================================
