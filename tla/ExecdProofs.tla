----------------------------- MODULE ExecdProofs ------------------------------
(* Theorems about Execd, for any number of processes, failed starts and      *)
(* failing look-ups in /proc.                                                *)
EXTENDS Execd, TLAPS

\* The answer of IsRunning as a fact about the current process: a look-up that is
\* counted as no failure tells the truth.
LEMMA IsRunningAnswer ==
    ASSUME TypeOK, NEW result \in BOOLEAN, IsRunning(result)
    PROVE  /\ psErrors' \in 0..MaxPsErrors
           /\ psErrors' = 0 => psErrors = 0
           /\ psErrors' = 0 => (result <=> Listed(cur))
           /\ result => Listed(cur)
  <1>1. CASE result = Listed(cur) /\ UNCHANGED psErrors
    <2>1. result <=> Listed(cur)
      BY <1>1, Zenon DEF Listed
    <2> QED
      BY <1>1, <2>1 DEF TypeOK
  <1>2. CASE /\ cur # 0 /\ psErrors < MaxPsErrors
             /\ result = FALSE
             /\ psErrors' = psErrors + 1
    BY <1>2, ExecdAssumption DEF TypeOK
  <1> QED
    BY <1>1, <1>2 DEF IsRunning

\* A step of shutdown, by Stop or by keepalive: where it goes on, and that it kills
\* nothing but the current process.
LEMMA ShutdownStep ==
    ASSUME TypeOK, NEW who \in {"Stop", "keepalive"}, NEW pc, NEW next, NEW end,
           panicked = "no", Shutdown(who, pc, next, end)
    PROVE  /\ procs' \in [Procs -> {"none", "running", "zombie", "gone"}]
           /\ psErrors' \in 0..MaxPsErrors
           /\ panicked' \in {"no", who}
           /\ pc \in ShutdownSteps
           /\ next \in ShutdownSteps \cup {end}
           /\ psErrors' = 0 => psErrors = 0
           /\ \A i \in Procs : \/ procs'[i] = procs[i]
                               \/ i = cur /\ procs[i] = "running" /\ procs'[i] = "zombie"
           /\ (next = end /\ end \notin ShutdownSteps /\ psErrors' = 0 /\ cur # 0)
                => procs'[cur] # "running"
  <1>1. CASE ShutdownSignal(who, pc, next, end)
    BY <1>1 DEF ShutdownSignal, ShutdownSteps, TypeOK, Procs
  <1>2. CASE ShutdownWait(pc, next)
    BY <1>2 DEF ShutdownWait, ShutdownSteps, TypeOK
  <1>3. CASE ShutdownCheck(pc, next, end)
    BY <1>3 DEF ShutdownCheck, ShutdownSteps, TypeOK
  <1>4. CASE ShutdownLookup(who, pc, next, end)
    <2>1. pc = "lookup" /\ procs' = procs
      BY <1>4 DEF ShutdownLookup
    <2>2. CASE cur = 0
      BY <1>4, <2>1, <2>2 DEF ShutdownLookup, ShutdownSteps, TypeOK
    <2>3. CASE cur # 0
      <3>1. PICK running \in BOOLEAN :
              /\ IsRunning(running)
              /\ next = IF running THEN "kill" ELSE end
        BY <1>4, <2>3 DEF ShutdownLookup
      <3>2. /\ psErrors' \in 0..MaxPsErrors
            /\ psErrors' = 0 => psErrors = 0
            /\ psErrors' = 0 => (running <=> Listed(cur))
        BY <3>1, IsRunningAnswer
      <3>3. psErrors' = 0 /\ ~running => procs[cur] # "running"
        BY <2>3, <3>2 DEF Listed
      <3>4. panicked' = panicked
        BY <1>4, <2>3 DEF ShutdownLookup
      <3> QED
        BY <2>1, <3>1, <3>2, <3>3, <3>4 DEF ShutdownSteps, TypeOK
    <2> QED
      BY <2>2, <2>3
  <1>5. CASE ShutdownKill(who, pc, next, end)
    <2>1. CASE cur = 0
      BY <1>5, <2>1 DEF ShutdownKill, ShutdownSteps, TypeOK
    <2>2. CASE cur # 0
      <3>1. cur \in Procs
        BY <2>2 DEF TypeOK, Procs
      <3>2. procs' = [procs EXCEPT ![cur] = IF procs[cur] = "running" THEN "zombie"
                                            ELSE procs[cur]]
        BY <1>5, <2>2 DEF ShutdownKill
      <3> QED
        BY <1>5, <2>2, <3>1, <3>2 DEF ShutdownKill, ShutdownSteps, TypeOK
    <2> QED
      BY <2>1, <2>2
  <1> QED
    BY <1>1, <1>2, <1>3, <1>4, <1>5 DEF Shutdown

-----------------------------------------------------------------------------
(* Type correctness                                                         *)

\* Every variable of the supervisor keeps its type; in particular the counter of
\* failed starts never passes CrashBackoff.
THEOREM TypeCorrect == Spec => []TypeOK
  <1>1. Init => TypeOK
    <2> SUFFICES ASSUME Init PROVE TypeOK
      OBVIOUS
    <2>1. 0 \in 0..MaxProcs /\ 0 \in 0..CrashBackoff /\ 0 \in 0..MaxPsErrors
      BY ExecdAssumption
    <2>2. /\ procs \in [Procs -> {"none", "running", "zombie", "gone"}]
          /\ waiter \in [Procs -> {"none", "wait", "send", "done"}]
      BY DEF Init
    <2> QED
      BY <2>1, <2>2 DEF Init, TypeOK
  <1>2. TypeOK /\ [Next]_vars => TypeOK'
    <2> SUFFICES ASSUME TypeOK, [Next]_vars PROVE TypeOK'
      OBVIOUS
    <2>1. ASSUME NEW i \in Procs, Run(i) PROVE TypeOK'
      BY <2>1 DEF Run, StartProcess, TypeOK, Procs
    <2>2. CASE RunFails
      BY <2>2 DEF RunFails, TypeOK
    <2>3. CASE StartKeepalive
      BY <2>3 DEF StartKeepalive, TypeOK
    <2>4. CASE StartReportError
      BY <2>4 DEF StartReportError, TypeOK
    <2>5. CASE KeepaliveTick
      <3>1. PICK running \in BOOLEAN :
              IsRunning(running) /\ kpc' = IF running THEN "select" ELSE "dead"
        BY <2>5 DEF KeepaliveTick
      <3>2. psErrors' \in 0..MaxPsErrors
        BY <3>1, IsRunningAnswer
      <3> QED
        BY <2>5, <3>1, <3>2 DEF KeepaliveTick, TypeOK
    <2>5a. CASE KeepaliveDelegate
      BY <2>5a, ExecdAssumption DEF KeepaliveDelegate, TypeOK
    <2>6. ASSUME NEW i \in Procs, KeepaliveRun(i) PROVE TypeOK'
      BY <2>6 DEF KeepaliveRun, StartProcess, TypeOK, Procs
    <2>7. CASE KeepaliveRunFails
      BY <2>7, ExecdAssumption DEF KeepaliveRunFails, ShutdownSteps, TypeOK
    <2>8. CASE Alive /\ KeepaliveShutdown
      <3>1. Shutdown("keepalive", kpc, kpc', "exited") /\ panicked = "no"
        BY <2>8 DEF KeepaliveShutdown, Alive
      <3>2. /\ procs' \in [Procs -> {"none", "running", "zombie", "gone"}]
            /\ psErrors' \in 0..MaxPsErrors
            /\ panicked' \in {"no", "keepalive"}
            /\ kpc' \in ShutdownSteps \cup {"exited"}
        BY <3>1, ShutdownStep
      <3> QED
        BY <2>8, <3>2 DEF KeepaliveShutdown, TypeOK
    <2>9. CASE KeepaliveStop
      BY <2>9 DEF KeepaliveStop, TypeOK
    <2>10. CASE StopClose
      BY <2>10 DEF StopClose, ShutdownSteps, TypeOK
    <2>11. CASE Alive /\ StopShutdown
      <3>1. Shutdown("Stop", spc, spc', "done") /\ panicked = "no"
        BY <2>11 DEF StopShutdown, Alive
      <3>2. /\ procs' \in [Procs -> {"none", "running", "zombie", "gone"}]
            /\ psErrors' \in 0..MaxPsErrors
            /\ panicked' \in {"no", "Stop"}
            /\ spc' \in ShutdownSteps \cup {"done"}
        BY <3>1, ShutdownStep
      <3> QED
        BY <2>11, <3>2 DEF StopShutdown, TypeOK
    <2>12. ASSUME NEW i \in Procs, Crash(i) PROVE TypeOK'
      BY <2>12 DEF Crash, TypeOK
    <2>13. ASSUME NEW i \in Procs, Reap(i) PROVE TypeOK'
      BY <2>13 DEF Reap, TypeOK
    <2>14. ASSUME NEW i \in Procs, ReportError(i) PROVE TypeOK'
      BY <2>14 DEF ReportError, TypeOK
    <2>15. CASE ReportStop
      BY <2>15 DEF ReportStop, TypeOK
    <2>16. CASE UNCHANGED vars
      BY <2>16 DEF vars, TypeOK
    <2> QED
      BY <2>1, <2>2, <2>3, <2>4, <2>5, <2>6, <2>7, <2>8, <2>9, <2>10, <2>11, <2>12, <2>13, <2>14,
         <2>15, <2>16, <2>5a DEF Next, RunForever, Keepalive
  <1> QED
    BY <1>1, <1>2, PTL DEF Spec

-----------------------------------------------------------------------------
(* One daemon at a time                                                     *)

\* What keepalive relies on when it starts a process: RunForever has started the
\* first one before keepalive exists, a tick that is about to replace c.cmd has seen
\* its process gone, one that is about to start another has let go of the old one, and c.cmd is never a process that was not started.
Bookkeeping ==
    /\ rpc = "init" => kpc = "off" /\ \A i \in Procs : procs[i] = "none"
    /\ kpc = "dead" /\ psErrors = 0 => ~Listed(cur)
    /\ kpc = "spawn" => cur = 0
    /\ cur # 0 => procs[cur] # "none"
    /\ victim # 0 => procs[victim] # "none"

\* A daemon that Stop has in hand: while Stop runs, and after it, the process that
\* was current is only alive as long as Stop has still to kill it.
Victimised ==
    /\ spc = "idle" => victim = 0
    /\ (spc = "done" /\ victim # 0 /\ psErrors = 0) => procs[victim] # "running"

DaemonInv == Bookkeeping /\ OneDaemon /\ Victimised

\* A step that starts process i keeps what keepalive relies on.
LEMMA StartProcessKeeps ==
    ASSUME TypeOK, DaemonInv, NEW i \in Procs, StartProcess(i), cur = 0,
           UNCHANGED <<spc, victim, psErrors>>, rpc' # "init", kpc' \notin {"dead", "spawn"}
    PROVE  DaemonInv'
  <1>1. /\ procs' = [procs EXCEPT ![i] = "running"]
        /\ procs[i] = "none"
        /\ cur' = i
        /\ i # 0
    BY DEF StartProcess, Procs, ExecdAssumption
  <1>2. psErrors = 0 => \A j \in Procs : procs[j] # "running"
    BY ExecdAssumption DEF DaemonInv, OneDaemon, Procs
  <1> QED
    BY <1>1, <1>2 DEF DaemonInv, Bookkeeping, OneDaemon, Victimised, TypeOK, Procs

\* A step that starts no process, and changes a process that runs at most to a dead
\* one, keeps it as long as c.cmd stays.
LEMMA OthersKeep ==
    ASSUME TypeOK, DaemonInv, UNCHANGED <<cur, victim>>, spc' = spc,
           psErrors' = 0 => psErrors = 0,
           \A i \in Procs : \/ procs'[i] = procs[i]
                            \/ procs[i] = "running" /\ procs'[i] = "zombie"
                            \/ procs[i] = "zombie" /\ procs'[i] = "gone",
           rpc' = "init" => rpc = "init" /\ kpc' = kpc /\ procs' = procs,
           kpc' = "dead" => kpc = "dead",
           kpc' = "spawn" => kpc = "spawn"
    PROVE  DaemonInv'
  <1>1. cur # 0 => cur \in Procs
    BY DEF TypeOK, Procs
  <1>2. victim # 0 => victim \in Procs
    BY DEF TypeOK, Procs
  <1> QED
    BY <1>1, <1>2 DEF DaemonInv, Bookkeeping, Listed, OneDaemon, Victimised

\* DaemonInv is inductive.
LEMMA DaemonInvCorrect == Spec => []DaemonInv
  <1>1. Init => DaemonInv
    BY DEF Init, DaemonInv, Bookkeeping, OneDaemon, Victimised, Procs
  <1>2. TypeOK /\ DaemonInv /\ [Next]_vars => DaemonInv'
    <2> SUFFICES ASSUME TypeOK, DaemonInv, [Next]_vars PROVE DaemonInv'
      OBVIOUS
    <2>1. ASSUME NEW i \in Procs, Run(i) PROVE DaemonInv'
      <3>1. cur = 0 /\ kpc = "off"
        BY <2>1 DEF Run, DaemonInv, Bookkeeping, TypeOK, Procs
      <3> QED
        BY <2>1, <3>1, StartProcessKeeps DEF Run
    <2>2. CASE RunFails
      BY <2>2, OthersKeep DEF RunFails
    <2>3. CASE StartKeepalive
      BY <2>3, OthersKeep DEF StartKeepalive
    <2>4. CASE StartReportError
      BY <2>4, OthersKeep DEF StartReportError
    <2>5. CASE KeepaliveTick
      <3>1. PICK running \in BOOLEAN :
              IsRunning(running) /\ kpc' = IF running THEN "select" ELSE "dead"
        BY <2>5 DEF KeepaliveTick
      <3>2. /\ psErrors' = 0 => psErrors = 0
            /\ psErrors' = 0 => (running <=> Listed(cur))
        BY <3>1, IsRunningAnswer
      <3>3. /\ kpc = "select"
            /\ UNCHANGED <<procs, cur, rpc, spc, victim>>
        BY <2>5 DEF KeepaliveTick
      <3>4. kpc' = "dead" /\ psErrors' = 0 => ~Listed(cur)'
        BY <3>1, <3>2, <3>3 DEF Listed
      <3> QED
        BY <3>1, <3>2, <3>3, <3>4 DEF DaemonInv, Bookkeeping, OneDaemon, Victimised
    <2>5a. CASE KeepaliveDelegate
      <3>1. psErrors = 0 => \A i \in Procs : procs[i] # "running"
        BY <2>5a DEF KeepaliveDelegate, DaemonInv, Bookkeeping, OneDaemon, Listed, Procs
      <3> QED
        BY <2>5a, <3>1 DEF KeepaliveDelegate, DaemonInv, Bookkeeping, OneDaemon, Victimised
    <2>6. ASSUME NEW i \in Procs, KeepaliveRun(i) PROVE DaemonInv'
      <3>1. cur = 0 /\ rpc # "init"
        BY <2>6 DEF KeepaliveRun, DaemonInv, Bookkeeping
      <3> QED
        BY <2>6, <3>1, StartProcessKeeps DEF KeepaliveRun
    <2>7. CASE KeepaliveRunFails
      <3>1. /\ kpc = "spawn" /\ rpc # "init"
            /\ kpc' # "dead"
            /\ UNCHANGED <<procs, cur, rpc, spc, victim, psErrors>>
        BY <2>7 DEF KeepaliveRunFails, DaemonInv, Bookkeeping
      <3> QED
        BY <3>1, OthersKeep
    <2>8. CASE Alive /\ KeepaliveShutdown
      <3>1. Shutdown("keepalive", kpc, kpc', "exited") /\ panicked = "no"
        BY <2>8 DEF KeepaliveShutdown, Alive
      <3>2. /\ kpc \in ShutdownSteps
            /\ kpc' \in ShutdownSteps \cup {"exited"}
            /\ psErrors' = 0 => psErrors = 0
            /\ \A i \in Procs : \/ procs'[i] = procs[i]
                                \/ i = cur /\ procs[i] = "running" /\ procs'[i] = "zombie"
        BY <3>1, ShutdownStep
      <3>3. rpc # "init" /\ UNCHANGED <<cur, rpc, spc, victim>>
        BY <2>8, <3>2 DEF KeepaliveShutdown, ShutdownSteps, DaemonInv, Bookkeeping
      <3>4. kpc' \notin {"dead", "spawn"}
        BY <3>2 DEF ShutdownSteps
      <3> QED
        BY <3>2, <3>3, <3>4, OthersKeep
    <2>9. CASE KeepaliveStop
      <3>1. rpc # "init"
        BY <2>9 DEF KeepaliveStop, DaemonInv, Bookkeeping
      <3> QED
        BY <2>9, <3>1, OthersKeep DEF KeepaliveStop
    <2>10. CASE StopClose
      BY <2>10 DEF StopClose, DaemonInv, Bookkeeping, Listed, OneDaemon, Victimised
    <2>11. CASE Alive /\ StopShutdown
      <3>1. Shutdown("Stop", spc, spc', "done") /\ panicked = "no"
        BY <2>11 DEF StopShutdown, Alive
      <3>2. /\ procs' \in [Procs -> {"none", "running", "zombie", "gone"}]
            /\ spc \in ShutdownSteps
            /\ spc' \in ShutdownSteps \cup {"done"}
            /\ psErrors' = 0 => psErrors = 0
            /\ \A i \in Procs : \/ procs'[i] = procs[i]
                                \/ i = cur /\ procs[i] = "running" /\ procs'[i] = "zombie"
            /\ spc' = "done" /\ psErrors' = 0 /\ cur # 0 => procs'[cur] # "running"
        BY <3>1, ShutdownStep DEF ShutdownSteps
      <3>3. UNCHANGED <<cur, rpc, kpc, victim>>
        BY <2>11 DEF StopShutdown
      <3>4. Bookkeeping' /\ OneDaemon'
        BY <3>2, <3>3 DEF DaemonInv, Bookkeeping, Listed, OneDaemon, TypeOK, Procs
      <3>5. (spc' = "done" /\ victim # 0 /\ psErrors' = 0) => procs'[victim] # "running"
        BY <3>2, <3>3 DEF DaemonInv, OneDaemon, TypeOK, Procs
      <3> QED
        BY <3>2, <3>3, <3>4, <3>5 DEF ShutdownSteps, DaemonInv, Victimised
    <2>12. ASSUME NEW i \in Procs, Crash(i) PROVE DaemonInv'
      <3>1. rpc # "init"
        BY <2>12 DEF Crash, DaemonInv, Bookkeeping
      <3>2. \A j \in Procs : procs'[j] = procs[j] \/ (procs[j] = "running" /\ procs'[j] = "zombie")
        BY <2>12 DEF Crash, TypeOK
      <3> QED
        BY <2>12, <3>1, <3>2, OthersKeep DEF Crash
    <2>13. ASSUME NEW i \in Procs, Reap(i) PROVE DaemonInv'
      <3>1. rpc # "init"
        BY <2>13 DEF Reap, DaemonInv, Bookkeeping
      <3>2. \A j \in Procs : procs'[j] = procs[j] \/ (procs[j] = "zombie" /\ procs'[j] = "gone")
        BY <2>13 DEF Reap, TypeOK
      <3> QED
        BY <2>13, <3>1, <3>2, OthersKeep DEF Reap
    <2>14. ASSUME NEW i \in Procs, ReportError(i) PROVE DaemonInv'
      BY <2>14, OthersKeep DEF ReportError
    <2>15. CASE ReportStop
      BY <2>15, OthersKeep DEF ReportStop
    <2>16. CASE UNCHANGED vars
      BY <2>16, OthersKeep DEF vars
    <2> QED
      BY <2>1, <2>2, <2>3, <2>4, <2>5, <2>6, <2>7, <2>8, <2>9, <2>10, <2>11, <2>12, <2>13, <2>14,
         <2>15, <2>16, <2>5a DEF Next, RunForever, Keepalive
  <1> QED
    BY <1>1, <1>2, TypeCorrect, PTL DEF Spec

\* As long as /proc can be read, keepalive never starts a daemon next to a living
\* one, and never loses track of one that lives.
THEOREM OneDaemonCorrect == Spec => []OneDaemon
  BY DaemonInvCorrect, PTL DEF DaemonInv

\* When Stop has returned, the process that was current when it closed stopCh is
\* dead, whatever the daemon and keepalive did in between, as long as /proc can be
\* read.
THEOREM StopKillsCurrentCorrect == Spec => []StopKillsCurrent
  <1>1. DaemonInv => StopKillsCurrent
    BY DEF DaemonInv, Victimised, StopKillsCurrent
  <1> QED
    BY <1>1, DaemonInvCorrect, PTL
=============================================================================
