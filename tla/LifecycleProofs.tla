-------------------------- MODULE LifecycleProofs --------------------------
(***************************************************************************)
(* When starts do not overlap and only root starts a daemon, the pid file  *)
(* does what it is for: for any number of processes, any configuration,    *)
(* and with processes killed at any point.                                 *)
(***************************************************************************)
EXTENDS Lifecycle, TLAPS

\* The initial state has no process of the program.
LEMMA InitIInv == Init => IInv
  BY NoneAssumption DEF Init, IInv, TypeOK, StartInv, FileInv, Starting, Pc, Users, Config

\* A process that ends takes nothing with it but its port.
LEMMA GoneStep ==
  ASSUME IInv, NEW p \in Pids, Gone(p), UNCHANGED <<config, uid, pidfile, anyone>>
  PROVE  IInv'
<1>1. \A q \in Pids : pc'[q] = IF q = p THEN "free" ELSE pc[q]
  BY DEF IInv, TypeOK, Gone
<1>2. TypeOK'
  BY DEF IInv, TypeOK, Gone, Pc
<1>3. StartInv' /\ FileInv'
  BY <1>1 DEF IInv, StartInv, FileInv, Starting
<1> QED
  BY <1>2, <1>3 DEF IInv

\* Going on within main() with the pid file left alone.
LEMMA GotoStep ==
  ASSUME IInv, NEW p \in Pids, NEW to \in Pc, Goto(p, to),
         UNCHANGED <<config, pidfile, anyone>>,
         port' \in Pids \cup {None},
         uid' \in [Pids -> Users], \A q \in Pids : q # p => uid'[q] = uid[q],
         to \notin {"check", "pid_opened", "drop_privs"},
         to \in Starting => uid' = uid /\ pc[p] \in Starting,
         to \in Starting => uid[p] # "root" \/ \A q \in Pids : pc[q] \notin {"serve", "stopping"},
         to = "serve" => pc[p] = "drop_privs",
         to = "stopping" => pc[p] = "serve"
  PROVE  IInv'
<1>1. \A q \in Pids : pc'[q] = IF q = p THEN to ELSE pc[q]
  BY DEF IInv, TypeOK, Goto
<1>2. TypeOK'
  BY DEF IInv, TypeOK, Goto
<1>3. StartInv'
  BY <1>1 DEF IInv, StartInv
<1>4. FileInv'
  BY <1>1 DEF IInv, StartInv, FileInv, Starting
<1> QED
  BY <1>2, <1>3, <1>4 DEF IInv

\* A start while no other one is going on, by root if it becomes a daemon.
LEMMA ExecStep ==
  ASSUME IInv, Serial, RootDaemons, NEW p \in Pids, exec(p)
  PROVE  IInv'
<1>1. /\ pc[p] = "free" /\ \A q \in Pids : pc[q] \notin Starting
      /\ pc' = [pc EXCEPT ![p] = "check"]
      /\ UNCHANGED <<config, pidfile, anyone, port>>
  BY DEF exec, Goto
<1>2. PICK u \in Starters[config] : uid' = [uid EXCEPT ![p] = u]
  BY DEF exec
<1>3. u \in Users /\ (config.daemon => u = "root")
  BY StartersAssumption DEF IInv, TypeOK, RootDaemons
<1>4. \A q \in Pids : /\ pc'[q] = IF q = p THEN "check" ELSE pc[q]
                      /\ uid'[q] = IF q = p THEN u ELSE uid[q]
  BY <1>1, <1>2 DEF IInv, TypeOK
<1>5. TypeOK'
  BY <1>1, <1>2, <1>3 DEF IInv, TypeOK, Pc, Starting
<1>6. StartInv'
  BY <1>1, <1>3, <1>4 DEF IInv, StartInv, Starting
<1>7. FileInv'
  BY <1>1, <1>4 DEF IInv, FileInv, Starting
<1> QED
  BY <1>5, <1>6, <1>7 DEF IInv

\* A start of root's passes the check only when there is no server.
LEMMA CheckStep ==
  ASSUME IInv, NEW p \in Pids, check(p)
  PROVE  IInv'
<1>1. pc[p] = "check" /\ UNCHANGED <<config, uid, pidfile, anyone>>
  BY DEF check, IInv, StartInv, Starting
<1>2. CASE Gone(p)
  BY <1>1, <1>2, GoneStep
<1>3. CASE TRUE \in check_pid(p) /\ Goto(p, "configure") /\ UNCHANGED port
  <2>1. uid[p] # "root" \/ \A q \in Pids : pc[q] \notin {"serve", "stopping"}
    <3> SUFFICES ASSUME uid[p] = "root", NEW q \in Pids, pc[q] \in {"serve", "stopping"}
                 PROVE  FALSE
      OBVIOUS
    <3>1. pidfile = q
      BY DEF IInv, FileInv
    <3>2. kill0(p, q)
      BY DEF kill0
    <3>3. check_pid(p) = {FALSE}
      BY <3>1, <3>2, PidsAssumption DEF check_pid
    <3> QED
      BY <1>3, <3>3
  <2>2. uid' \in [Pids -> Users] /\ port' \in Pids \cup {None}
    BY <1>1, <1>3 DEF IInv, TypeOK
  <2> QED
    BY <1>1, <1>3, <2>1, <2>2, GotoStep DEF Pc, Starting
<1> QED
  BY <1>2, <1>3 DEF check

\* No start of root's beyond the check runs next to a server.
LEMMA BeyondCheck ==
  ASSUME IInv, NEW p \in Pids, pc[p] \in Starting \ {"check"}, uid[p] = "root"
  PROVE  \A q \in Pids : pc[q] \notin {"serve", "stopping"}
  BY DEF IInv, FileInv

\* Configuration and the step over daemonise keep the start alone.
LEMMA SetupStep ==
  ASSUME IInv, NEW p \in Pids, configure(p) \/ foreground(p)
  PROVE  IInv'
<1>1. CASE configure(p)
  <2>1. CASE Fail(p)
    BY <2>1, GoneStep DEF Fail
  <2>2. CASE ~Fail(p)
    <3>1. pc[p] = "configure" /\ Goto(p, "fork") /\ UNCHANGED <<config, uid, pidfile, anyone>>
          /\ port' \in Pids \cup {None}
      BY <1>1, <2>2 DEF configure, IInv, TypeOK
    <3>2. uid \in [Pids -> Users]
      BY DEF IInv, TypeOK
    <3>3. uid[p] # "root" \/ \A q \in Pids : pc[q] \notin {"serve", "stopping"}
      BY <3>1, BeyondCheck DEF Starting
    <3> QED
      BY <3>1, <3>2, <3>3, GotoStep DEF Pc, Starting
  <2> QED
    BY <2>1, <2>2
<1>2. CASE foreground(p)
  <2>1. pc[p] = "fork" /\ Goto(p, "write_pid") /\ UNCHANGED <<config, uid, pidfile, anyone, port>>
    BY <1>2 DEF foreground
  <2>2. uid \in [Pids -> Users] /\ port \in Pids \cup {None}
    BY DEF IInv, TypeOK
  <2>3. uid[p] # "root" \/ \A q \in Pids : pc[q] \notin {"serve", "stopping"}
    BY <2>1, BeyondCheck DEF Starting
  <2> QED
    BY <2>1, <2>2, <2>3, GotoStep DEF Pc, Starting
<1> QED
  BY <1>1, <1>2

\* The grandchild takes the place of the process that was started.
LEMMA DaemoniseStep ==
  ASSUME IInv, NEW p \in Pids, daemonise(p)
  PROVE  IInv'
<1>1. CASE Fail(p)
  BY <1>1, GoneStep DEF Fail
<1>2. CASE ~Fail(p)
  <2>1. PICK q \in Pids :
          /\ pc[q] = "free"
          /\ pc' = [pc EXCEPT ![p] = "free", ![q] = "write_pid"]
          /\ uid' = [uid EXCEPT ![q] = uid[p]]
          /\ port' = IF port = p THEN q ELSE port
          /\ UNCHANGED <<config, pidfile, anyone>>
    BY <1>2 DEF daemonise
  <2>2. pc[p] = "fork" /\ p # q /\ config.daemon
    BY <2>1 DEF daemonise
  <2>3. \A r \in Pids :
          /\ pc'[r] = IF r = q THEN "write_pid" ELSE IF r = p THEN "free" ELSE pc[r]
          /\ uid'[r] = IF r = q THEN uid[p] ELSE uid[r]
    BY <2>1 DEF IInv, TypeOK
  <2>4. uid[p] = "root" /\ \A r \in Pids \ {p} : pc[r] \notin Starting
    BY <2>2 DEF IInv, StartInv, Starting
  <2>5. \A r \in Pids : pc[r] \notin {"serve", "stopping"}
    BY <2>2, <2>4, BeyondCheck DEF Starting
  <2>6. TypeOK'
    BY <2>1 DEF IInv, TypeOK, Pc, Starting
  <2>7. StartInv'
    <3>1. config' = config /\ config.daemon
      BY <2>1, <2>2
    <3> QED
      BY <2>3, <2>4, <3>1 DEF StartInv, Starting
  <2>8. FileInv'
    BY <2>3, <2>4, <2>5 DEF FileInv, Starting
  <2> QED
    BY <2>6, <2>7, <2>8 DEF IInv
<1> QED
  BY <1>1, <1>2

\* The pid file is truncated only when there is no server: a file that others
\* than root can write to is a daemon's, and then every start is root's.
LEMMA OpenPidStep ==
  ASSUME IInv, NEW p \in Pids, open_pid(p)
  PROVE  IInv'
<1>1. CASE Fail(p)
  BY <1>1, GoneStep DEF Fail
<1>2. CASE ~Fail(p)
  <2>1. /\ pc[p] = "write_pid" /\ pidfile' = "empty"
        /\ anyone' = IF pidfile = "absent" THEN config.daemon ELSE anyone
        /\ pc' = [pc EXCEPT ![p] = "pid_opened"]
        /\ UNCHANGED <<config, uid, port>>
        /\ uid[p] = "root" \/ anyone
    BY <1>2 DEF open_pid, Goto
  <2>2. \A q \in Pids : pc'[q] = IF q = p THEN "pid_opened" ELSE pc[q]
    BY <2>1 DEF IInv, TypeOK
  <2>3. uid[p] = "root"
    BY <2>1 DEF IInv, StartInv, Starting
  <2>4. \A q \in Pids : pc[q] \notin {"serve", "stopping"} /\ (q # p => pc[q] \notin Starting)
    BY <2>1, <2>3, BeyondCheck DEF IInv, StartInv, Starting
  <2>5. TypeOK'
    <3>1. anyone' \in BOOLEAN
      BY <2>1, ConfigsAssumption DEF IInv, TypeOK, Config
    <3> QED
      BY <2>1, <3>1 DEF IInv, TypeOK, Pc, Starting
  <2>6. StartInv'
    BY <2>1, <2>2, <2>3 DEF IInv, StartInv, Starting
  <2>7. FileInv'
    BY <2>1, <2>2, <2>4 DEF IInv, FileInv, Starting
  <2> QED
    BY <2>5, <2>6, <2>7 DEF IInv
<1> QED
  BY <1>1, <1>2

\* The pid file is given the number of the process that goes on to serve.
LEMMA WritePidStep ==
  ASSUME IInv, NEW p \in Pids, write_pid(p)
  PROVE  IInv'
<1>1. /\ pc[p] = "pid_opened" /\ pidfile' = p
      /\ pc' = [pc EXCEPT ![p] = "drop_privs"]
      /\ UNCHANGED <<config, uid, anyone, port>>
  BY DEF write_pid, Goto
<1>2. \A q \in Pids : pc'[q] = IF q = p THEN "drop_privs" ELSE pc[q]
  BY <1>1 DEF IInv, TypeOK
<1>3. \A q \in Pids : pc[q] \notin {"serve", "stopping"} /\ (q # p => pc[q] \notin Starting)
  BY <1>1, BeyondCheck DEF IInv, StartInv, Starting
<1>4. TypeOK'
  BY <1>1 DEF IInv, TypeOK, Pc, Starting
<1>5. StartInv' /\ FileInv'
  BY <1>1, <1>2, <1>3 DEF IInv, StartInv, FileInv, Starting
<1> QED
  BY <1>4, <1>5 DEF IInv

\* The process named in the pid file begins and stops to serve.
LEMMA ServeStep ==
  ASSUME IInv, NEW p \in Pids, drop_privs(p) \/ stop(p)
  PROVE  IInv'
<1>1. CASE drop_privs(p)
  <2>1. CASE Fail(p)
    BY <2>1, GoneStep DEF Fail
  <2>2. CASE ~Fail(p)
    <3>1. /\ pc[p] = "drop_privs" /\ Goto(p, "serve")
          /\ uid' = IF config.user THEN [uid EXCEPT ![p] = "service"] ELSE uid
          /\ UNCHANGED <<config, pidfile, anyone, port>>
      BY <1>1, <2>2 DEF drop_privs
    <3>2. uid' \in [Pids -> Users] /\ (\A q \in Pids : q # p => uid'[q] = uid[q])
          /\ port' \in Pids \cup {None}
      BY <3>1 DEF IInv, TypeOK, Users
    <3> QED
      BY <3>1, <3>2, GotoStep DEF Pc, Starting
  <2> QED
    BY <2>1, <2>2
<1>2. CASE stop(p)
  <2>1. uid' \in [Pids -> Users] /\ port' \in Pids \cup {None}
    BY <1>2 DEF stop, IInv, TypeOK
  <2> QED
    BY <1>2, <2>1, GotoStep DEF stop, Pc, Starting
<1> QED
  BY <1>1, <1>2

\* The pid file is removed, or not, by the process it names.
LEMMA RemovePidStep ==
  ASSUME IInv, NEW p \in Pids, remove_pid(p)
  PROVE  IInv'
<1>1. /\ pc[p] = "stopping" /\ pidfile' \in {"absent", pidfile}
      /\ pc' = [pc EXCEPT ![p] = "joining"]
      /\ UNCHANGED <<config, uid, anyone, port>>
  BY DEF remove_pid, Goto
<1>2. \A q \in Pids : pc'[q] = IF q = p THEN "joining" ELSE pc[q]
  BY <1>1 DEF IInv, TypeOK
<1>3. pidfile = p /\ \A q \in Pids : pc[q] # "pid_opened"
  BY <1>1, PidsAssumption DEF IInv, FileInv
<1>4. \A q \in Pids : q # p => pc[q] \notin {"drop_privs", "serve", "stopping"}
  BY <1>3 DEF IInv, FileInv
<1>5. TypeOK'
  BY <1>1 DEF IInv, TypeOK, Pc, Starting
<1>6. StartInv'
  BY <1>1, <1>2 DEF IInv, StartInv, Starting
<1>7. FileInv'
  BY <1>1, <1>2, <1>3, <1>4 DEF IInv, FileInv, Starting
<1> QED
  BY <1>5, <1>6, <1>7 DEF IInv

\* Another program comes and goes.
LEMMA OtherStep ==
  ASSUME IInv, NEW p \in Pids, other(p)
  PROVE  IInv'
<1>1. CASE Fail(p)
  BY <1>1, GoneStep DEF Fail
<1>2. CASE ~Fail(p)
  <2>1. PICK u \in Users : uid' = [uid EXCEPT ![p] = u]
    BY <1>2 DEF other
  <2>2. pc[p] = "free" /\ Goto(p, "foreign") /\ UNCHANGED <<config, pidfile, anyone, port>>
    BY <1>2 DEF other
  <2>3. uid' \in [Pids -> Users] /\ (\A q \in Pids : q # p => uid'[q] = uid[q])
        /\ port' \in Pids \cup {None}
    BY <2>1, <2>2 DEF IInv, TypeOK
  <2> QED
    BY <2>2, <2>3, GotoStep DEF Pc, Starting
<1> QED
  BY <1>1, <1>2

\* Every step of every process preserves IInv when starts do not overlap and
\* only root starts a daemon.
THEOREM IInvInductive ==
  ASSUME Serial, RootDaemons
  PROVE  IInv /\ [Next]_vars => IInv'
<1> SUFFICES ASSUME IInv, [Next]_vars PROVE IInv'
  OBVIOUS
<1>1. ASSUME NEW p \in Pids, exec(p) \/ main(p) \/ stop(p) \/ die(p) \/ other(p) PROVE IInv'
  <2>1. CASE exec(p)
    BY <2>1, ExecStep
  <2>2. CASE main(p)
    <3>1. CASE join(p)
      BY <3>1, GoneStep DEF join
    <3> QED
      BY <2>2, <3>1, CheckStep, SetupStep, DaemoniseStep, OpenPidStep, WritePidStep, ServeStep,
         RemovePidStep DEF main
  <2>3. CASE stop(p) \/ other(p)
    BY <2>3, ServeStep, OtherStep
  <2>4. CASE die(p)
    BY <2>4, GoneStep DEF die, Fail
  <2> QED
    BY <1>1, <2>1, <2>2, <2>3, <2>4
<1>2. CASE UNCHANGED vars
  BY <1>2 DEF vars, IInv, TypeOK, StartInv, FileInv
<1> QED
  BY <1>1, <1>2 DEF Next

\* The inductive invariant holds for every number of processes, when starts do
\* not overlap and only root starts a daemon.
THEOREM LifecycleInvariant ==
  ASSUME Serial, RootDaemons
  PROVE  Spec => []IInv
<1>1. IInv /\ [Next]_vars => IInv'
  BY IInvInductive
<1> QED
  BY <1>1, InitIInv, PTL DEF Spec

\* Type correctness of the processes and the pid file.
THEOREM LifecycleTypes ==
  ASSUME Serial, RootDaemons
  PROVE  Spec => []TypeOK
<1>1. IInv /\ [Next]_vars => IInv'
  BY IInvInductive
<1>2. IInv => TypeOK
  BY DEF IInv
<1> QED
  BY <1>1, <1>2, InitIInv, PTL DEF Spec

\* The pid file names the serving process as long as it serves.
THEOREM LifecyclePidFile ==
  ASSUME Serial, RootDaemons
  PROVE  Spec => []PidFileNamesServer
<1>1. IInv /\ [Next]_vars => IInv'
  BY IInvInductive
<1>2. IInv => PidFileNamesServer
  BY DEF IInv, FileInv, PidFileNamesServer
<1> QED
  BY <1>1, <1>2, InitIInv, PTL DEF Spec

\* The check of the pid file keeps a second server from serving.
THEOREM LifecycleSingleServer ==
  ASSUME Serial, RootDaemons
  PROVE  Spec => []SingleServer
<1>1. IInv /\ [Next]_vars => IInv'
  BY IInvInductive
<1>2. IInv => SingleServer
  BY DEF IInv, FileInv, SingleServer
<1> QED
  BY <1>1, <1>2, InitIInv, PTL DEF Spec
=============================================================================
