----------------------------- MODULE Lifecycle -----------------------------
(***************************************************************************)
(* The processes of the program on one host, from main() to its end: the   *)
(* pid file that is meant to keep a second server from starting, the       *)
(* double fork of daemonise, the listening port and the dropping of        *)
(* privileges. Process ids are reused, also by other programs, and a       *)
(* process may be killed between any two steps.                            *)
(***************************************************************************)
EXTENDS Naturals

CONSTANTS
    Pids,      \* process ids
    None,      \* no process
    Configs,   \* possible contents of config.toml
    Starters,  \* the users who start the program, for each configuration
    Serial     \* TRUE: nobody starts the program while another start is going on

\* get_config_daemon(), and whether get_config_user() and get_config_group()
\* are set.
Config == [daemon : BOOLEAN, user : BOOLEAN, group : BOOLEAN]

\* root, the user named in the configuration, and anyone else.
Users == {"root", "service", "other"}

ASSUME ConfigsAssumption == Configs \subseteq Config
ASSUME StartersAssumption == Starters \in [Configs -> SUBSET Users]
ASSUME SerialAssumption == Serial \in BOOLEAN
ASSUME NoneAssumption == None \notin Pids
ASSUME PidsAssumption == "absent" \notin Pids /\ "empty" \notin Pids

VARIABLES
    config,    \* config.toml
    pc,        \* where each process is in main()
    uid,       \* as which user it runs
    pidfile,   \* "absent", "empty" or a process id
    anyone,    \* whether the pid file can be written by every user
    port       \* the process that listens, or None

vars == <<config, pc, uid, pidfile, anyone, port>>

Starting == {"check", "configure", "fork", "write_pid", "pid_opened", "drop_privs"}
Pc == Starting \cup {"free", "foreign", "serve", "stopping", "joining"}

----------------------------------------------------------------------------
(* Helpers                                                                 *)

\* The process ends, by return, _exit or a signal: the kernel closes its
\* sockets and its id can be reused.
Gone(p) ==
    /\ pc' = [pc EXCEPT ![p] = "free"]
    /\ port' = IF port = p THEN None ELSE port

\* return EXIT_FAILURE.
Fail(p) == Gone(p) /\ UNCHANGED <<config, uid, pidfile, anyone>>

Goto(p, to) == pc' = [pc EXCEPT ![p] = to]

\* kill(q, 0) by p succeeds: the process exists and p may send it signals.
kill0(p, q) == pc[q] # "free" /\ uid[p] \in {"root", uid[q]}

\* Faulty variant: the result of kill is read the wrong way round.
FaultyCheck(p) ==
    CASE pidfile = "absent" -> {TRUE}
      [] pidfile = "empty" -> {TRUE, FALSE}
      [] OTHER -> {kill0(p, pidfile)}

\* The results check_pid may have. With an empty file `pid` stays
\* uninitialized, so kill may find any process or none.
check_pid(p) ==
    CASE pidfile = "absent" -> {TRUE}
      [] pidfile = "empty" -> {TRUE, FALSE}
      [] OTHER -> {~kill0(p, pidfile)}

----------------------------------------------------------------------------
(* main()                                                                  *)

\* Somebody starts the program, in the directory with config.toml.
exec(p) ==
    /\ pc[p] = "free"
    /\ Serial => \A q \in Pids : pc[q] \notin Starting
    /\ Goto(p, "check")
    /\ \E u \in Starters[config] : uid' = [uid EXCEPT ![p] = u]
    /\ UNCHANGED <<config, pidfile, anyone, port>>

\* "Process already running", or go on.
check(p) ==
    /\ pc[p] = "check"
    /\ \/ TRUE \in check_pid(p) /\ Goto(p, "configure") /\ UNCHANGED port
       \/ FALSE \in check_pid(p) /\ Gone(p)
    /\ UNCHANGED <<config, uid, pidfile, anyone>>

\* Configuration, MIME types and certificate are loaded or the program ends;
\* then the listeners are created. A listener that cannot bind only logs it.
configure(p) ==
    /\ pc[p] = "configure"
    /\ \/ Fail(p)
       \/ /\ Goto(p, "fork")
          /\ port' = IF port = None THEN p ELSE port
          /\ UNCHANGED <<config, uid, pidfile, anyone>>

\* The two forks, with setsid between them: the grandchild goes on with the
\* sockets of the process that was started.
daemonise(p) ==
    /\ pc[p] = "fork"
    /\ config.daemon
    /\ \/ Fail(p)
       \/ \E q \in Pids :
            /\ pc[q] = "free"
            /\ pc' = [pc EXCEPT ![p] = "free", ![q] = "write_pid"]
            /\ uid' = [uid EXCEPT ![q] = uid[p]]
            /\ port' = IF port = p THEN q ELSE port
            /\ UNCHANGED <<config, pidfile, anyone>>

foreground(p) ==
    /\ pc[p] = "fork"
    /\ ~config.daemon
    /\ Goto(p, "write_pid")
    /\ UNCHANGED <<config, uid, pidfile, anyone, port>>

\* Faulty variant: the umask is cleared in the foreground too.
FaultyOpenPid(p) ==
    /\ pc[p] = "write_pid"
    /\ \/ /\ uid[p] = "root" \/ (pidfile # "absent" /\ anyone)
          /\ anyone' = TRUE
          /\ pidfile' = "empty"
          /\ Goto(p, "pid_opened")
          /\ UNCHANGED <<config, uid, port>>
       \/ /\ uid[p] # "root" /\ (pidfile = "absent" \/ ~anyone)
          /\ Fail(p)

\* write_pid: opening the file truncates it. Only root can create it in
\* /var/run; a daemon has cleared its umask, so every user can write to the
\* file it creates.
open_pid(p) ==
    /\ pc[p] = "write_pid"
    /\ \/ /\ uid[p] = "root" \/ (pidfile # "absent" /\ anyone)
          /\ anyone' = IF pidfile = "absent" THEN config.daemon ELSE anyone
          /\ pidfile' = "empty"
          /\ Goto(p, "pid_opened")
          /\ UNCHANGED <<config, uid, port>>
       \/ /\ uid[p] # "root" /\ (pidfile = "absent" \/ ~anyone)
          /\ Fail(p)

\* Faulty variant: the parent's id, taken before the fork, is written.
FaultyWritePid(p) ==
    /\ pc[p] = "pid_opened"
    /\ pidfile' \in Pids \ {p}
    /\ Goto(p, "drop_privs")
    /\ UNCHANGED <<config, uid, anyone, port>>

\* ... and its contents are written when it is closed.
write_pid(p) ==
    /\ pc[p] = "pid_opened"
    /\ pidfile' = p
    /\ Goto(p, "drop_privs")
    /\ UNCHANGED <<config, uid, anyone, port>>

\* An unknown user or group, or a call that is refused, ends the program, and
\* the pid file stays. Only root can change its groups.
drop_privs(p) ==
    /\ pc[p] = "drop_privs"
    /\ \/ (config.user \/ config.group) /\ Fail(p)
       \/ /\ config.user \/ config.group => uid[p] = "root"
          /\ Goto(p, "serve")
          /\ uid' = IF config.user THEN [uid EXCEPT ![p] = "service"] ELSE uid
          /\ UNCHANGED <<config, pidfile, anyone, port>>

\* SIGINT or SIGTERM: ioc.stop(), and ioc.run() of the main thread returns.
stop(p) ==
    /\ pc[p] = "serve"
    /\ Goto(p, "stopping")
    /\ UNCHANGED <<config, uid, pidfile, anyone, port>>

\* Faulty variant: the contents are cleared, the file is kept.
FaultyRemove(p) ==
    /\ pc[p] = "stopping"
    /\ pidfile' = IF uid[p] = "root" THEN None ELSE pidfile
    /\ Goto(p, "joining")
    /\ UNCHANGED <<config, uid, anyone, port>>

\* unlink in /var/run; its result is ignored.
remove_pid(p) ==
    /\ pc[p] = "stopping"
    /\ pidfile' = IF uid[p] = "root" THEN "absent" ELSE pidfile
    /\ Goto(p, "joining")
    /\ UNCHANGED <<config, uid, anyone, port>>

\* The other threads finish the handler they are in; main() returns and the
\* io_context closes its sockets.
join(p) ==
    /\ pc[p] = "joining"
    /\ Gone(p)
    /\ UNCHANGED <<config, uid, pidfile, anyone>>

----------------------------------------------------------------------------
(* Environment                                                             *)

\* SIGKILL, a signal before the handler is installed, or an exception that
\* nothing catches.
die(p) ==
    /\ pc[p] \notin {"free", "foreign"}
    /\ Fail(p)

\* Another program gets a process id, and gives it back.
other(p) ==
    \/ /\ pc[p] = "free"
       /\ Goto(p, "foreign")
       /\ \E u \in Users : uid' = [uid EXCEPT ![p] = u]
       /\ UNCHANGED <<config, pidfile, anyone, port>>
    \/ /\ pc[p] = "foreign"
       /\ Fail(p)

Init ==
    /\ config \in Configs
    /\ pc = [p \in Pids |-> "free"]
    /\ uid = [p \in Pids |-> "other"]
    /\ pidfile = "absent"
    /\ anyone = FALSE
    /\ port = None

main(p) ==
    \/ check(p) \/ configure(p) \/ daemonise(p) \/ foreground(p)
    \/ open_pid(p) \/ write_pid(p) \/ drop_privs(p)
    \/ remove_pid(p) \/ join(p)

Next == \E p \in Pids : exec(p) \/ main(p) \/ stop(p) \/ die(p) \/ other(p)

Spec == Init /\ [][Next]_vars

----------------------------------------------------------------------------
(* Properties                                                              *)

TypeOK ==
    /\ config \in Configs
    /\ pc \in [Pids -> Pc]
    /\ uid \in [Pids -> Users]
    /\ pidfile \in Pids \cup {"absent", "empty"}
    /\ anyone \in BOOLEAN
    /\ port \in Pids \cup {None}

\* "Process already running": the check of the pid file keeps a second server
\* from serving next to the first one.
SingleServer == \A p, q \in Pids : pc[p] = "serve" /\ pc[q] = "serve" => p = q

\* As long as a process serves, the pid file names it: nothing overwrites,
\* truncates or removes it, neither a start that is refused or fails nor the
\* end of an earlier server.
PidFileNamesServer == \A p \in Pids : pc[p] = "serve" => pidfile = p

(* The inductive invariant the proofs rest on; it needs starts that do not *)
(* overlap (Serial), and daemons that only root starts (RootDaemons): a     *)
(* daemon's pid file can be written by everybody, and kill fails with       *)
(* EPERM for the process of another user.                                   *)

RootDaemons == \A c \in Configs : c.daemon => Starters[c] \subseteq {"root"}

\* At most one start is going on, and only root's gets to the pid file.
StartInv ==
    /\ \A p, q \in Pids : pc[p] \in Starting /\ pc[q] \in Starting => p = q
    /\ \A p \in Pids : pc[p] \in Starting /\ config.daemon => uid[p] = "root"
    /\ \A p \in Pids : pc[p] \in {"pid_opened", "drop_privs"} => uid[p] = "root"
    /\ anyone => config.daemon

\* The pid file follows the process that has opened it, and no start of
\* root's gets past the check while there is a server.
FileInv ==
    /\ \A p \in Pids : pc[p] = "pid_opened" => pidfile = "empty"
    /\ \A p \in Pids : pc[p] \in {"drop_privs", "serve", "stopping"} => pidfile = p
    /\ \A p, q \in Pids :
         pc[p] \in {"serve", "stopping"} /\ pc[q] \in Starting =>
             pc[q] = "check" \/ uid[q] # "root"

\* Preserved by every step of every process.
IInv == TypeOK /\ StartInv /\ FileInv

\* "perform a clean shutdown": once remove_pid has run, the pid file does not
\* name the process any more.
CleanShutdown == \A p \in Pids : pc[p] = "joining" => pidfile # p

\* "Create and launch a listening port": a process that serves listens.
ServerListens == \A p \in Pids : pc[p] = "serve" => port = p
=============================================================================
