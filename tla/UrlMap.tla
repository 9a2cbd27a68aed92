------------------------------- MODULE UrlMap -------------------------------
(***************************************************************************)
(* What the shortener promises: an injective map from tokens to URLs that  *)
(* only grows, pages that announce stored rows only, and redirects that    *)
(* follow the map or go to the fallback.                                   *)
(***************************************************************************)
EXTENDS Naturals

CONSTANTS
    Workers,    \* the threads that run ioc.run()
    Tokens,     \* what generate_random_filename may return
    Urls,       \* the URLs that clients submit
    Fallback,   \* where handle_get_url redirects when it has no row
    Whole,      \* the URLs that are stored as submitted: no NUL byte in them
    None        \* no token, no URL, no worker

\* A response, as far as the shortener is concerned.
Plain(k) == [kind |-> k, tok |-> None, url |-> None]
Page(t, u) == [kind |-> "page", tok |-> t, url |-> u]
Redirect(t, u) == [kind |-> "redirect", tok |-> t, url |-> u]

VARIABLES
    map,     \* the stored rows <<token, url>>
    told,    \* the pairs <<token, url>> announced to a client, ever
    reply    \* for each thread its latest response, if any

mapVars == <<map, told, reply>>

Unstored(t, u) == \A row \in map : row[1] # t /\ row[2] # u
Targets(t) == {u \in Urls : <<t, u>> \in map} \cup {Fallback}

MapInit ==
    /\ map = {}
    /\ told = {}
    /\ reply = [w \in Workers |-> Plain("none")]

\* A request arrives, or is refused.
Say(w, r) == reply' = [reply EXCEPT ![w] = r]
Accept(w) == Say(w, Plain("awaiting")) /\ UNCHANGED <<map, told>>
Refuse(w) ==
    /\ \E k \in {"bad_request", "server_error"} : Say(w, Plain(k))
    /\ UNCHANGED <<map, told>>

\* A new row; nothing is said yet.
Store(t, u) ==
    /\ Unstored(t, u)
    /\ map' = map \cup {<<t, u>>}
    /\ UNCHANGED <<told, reply>>

\* The page that announces a row, with its URL if that was stored whole. No
\* token is ever announced twice.
Announce(w, t, u) ==
    /\ \E v \in Urls : <<t, v>> \in map /\ (u \in Whole => v = u)
    /\ \A p \in told : p[1] # t
    /\ told' = told \cup {<<t, u>>}
    /\ Say(w, Page(t, u))
    /\ UNCHANGED map

Answer(w, t) ==
    /\ \E u \in Targets(t) : Say(w, Redirect(t, u))
    /\ UNCHANGED <<map, told>>

\* The process ends; the rows and what clients know survive.
Restart ==
    /\ reply' = [w \in Workers |-> Plain("none")]
    /\ UNCHANGED <<map, told>>

MapNext ==
    \/ \E w \in Workers : Accept(w) \/ Refuse(w)
    \/ \E t \in Tokens, u \in Urls : Store(t, u)
    \/ \E w \in Workers, t \in Tokens, u \in Urls : Announce(w, t, u)
    \/ \E w \in Workers, t \in Tokens : Answer(w, t)
    \/ Restart

MapSpec == MapInit /\ [][MapNext]_mapVars
=============================================================================
