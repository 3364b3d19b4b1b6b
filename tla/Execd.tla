-------------------------------- MODULE Execd --------------------------------
(***************************************************************************)
(* pkg/execd.D: a daemon process (keepalived) that is started by           *)
(* RunForever, watched by the keepalive goroutine, reaped by one Wait      *)
(* goroutine per process, and stopped by Stop.                             *)
(*                                                                         *)
(* Processes are numbered in the order they are started. A process that    *)
(* died is a zombie until its Wait returns, and /proc still lists it.      *)
(* The grace period is not measured: its end comes at any later moment.    *)
(***************************************************************************)
EXTENDS Integers

CONSTANTS CrashBackoff,   \* crashBackoff
          Grace,          \* gracePeriod > 0
          MaxProcs,       \* bound: processes ever started
          MaxPsErrors     \* bound: failing look-ups in /proc

ASSUME ExecdAssumption ==
    /\ CrashBackoff \in Nat
    /\ Grace \in BOOLEAN
    /\ MaxProcs \in Nat \ {0}
    /\ MaxPsErrors \in Nat

VARIABLES procs,            \* state of each process
          cur,              \* process of c.cmd; 0 when c.cmd.Process is nil
          stopCh,           \* "nil", "open" or "closed"
          rpc,              \* program counter of RunForever
          kpc,              \* program counter of the keepalive goroutine
          restartErrTimes,  \* its counter
          reporting,        \* the reportError goroutine runs
          waiter,           \* the Wait goroutine of each process
          spc,              \* program counter of the caller of Stop
          victim,           \* the process that was current when it closed stopCh
          psErrors,         \* failed look-ups so far
          panicked          \* the goroutine whose panic ended the program

vars == <<procs, cur, stopCh, rpc, kpc, restartErrTimes, reporting, waiter, spc, victim, psErrors,
          panicked>>

Procs == 1..MaxProcs

\* Where shutdown may be: before the SIGTERM, in the grace period, before and in
\* the middle of IsRunning, before the SIGKILL.
ShutdownSteps == {"signal", "wait", "check", "lookup", "kill"}

TypeOK ==
    /\ procs \in [Procs -> {"none", "running", "zombie", "gone"}]
    /\ cur \in 0..MaxProcs
    /\ stopCh \in {"nil", "open", "closed"}
    /\ rpc \in {"init", "started", "watched", "returned", "failed"}
    /\ kpc \in {"off", "select", "dead", "spawn", "exited"} \cup ShutdownSteps
    /\ restartErrTimes \in 0..CrashBackoff
    /\ reporting \in BOOLEAN
    /\ waiter \in [Procs -> {"none", "wait", "send", "done"}]
    /\ spc \in {"idle", "done"} \cup ShutdownSteps
    /\ victim \in 0..MaxProcs
    /\ psErrors \in 0..MaxPsErrors
    /\ panicked \in {"no", "Stop", "keepalive"}

Init ==
    /\ procs = [i \in Procs |-> "none"]
    /\ cur = 0
    /\ stopCh = "nil"
    /\ rpc = "init"
    /\ kpc = "off"
    /\ restartErrTimes = 0
    /\ reporting = FALSE
    /\ waiter = [i \in Procs |-> "none"]
    /\ spc = "idle"
    /\ victim = 0
    /\ psErrors = 0
    /\ panicked = "no"

-----------------------------------------------------------------------------
(* Processes                                                                *)

Listed(i) == i # 0 /\ procs[i] \in {"running", "zombie"}

\* IsRunning: a look-up that fails counts as a process that is not there.
IsRunning(result) ==
    \/ result = Listed(cur) /\ UNCHANGED psErrors
    \/ /\ cur # 0 /\ psErrors < MaxPsErrors
       /\ result = FALSE
       /\ psErrors' = psErrors + 1

\* run: cmd.Start succeeds and the Wait goroutine of the process is created.
StartProcess(i) ==
    /\ procs[i] = "none"
    /\ \A j \in Procs : j < i => procs[j] # "none"
    /\ procs' = [procs EXCEPT ![i] = "running"]
    /\ waiter' = [waiter EXCEPT ![i] = "wait"]
    /\ cur' = i

\* The daemon dies by itself or of a SIGTERM; the last process that fits the
\* bound stays alive.
Crash(i) ==
    /\ procs[i] = "running"
    /\ i < MaxProcs
    /\ procs' = [procs EXCEPT ![i] = "zombie"]
    /\ UNCHANGED <<cur, stopCh, rpc, kpc, restartErrTimes, reporting, waiter, spc, victim, psErrors,
                   panicked>>

\* cmd.Wait returns and the process is reaped.
Reap(i) ==
    /\ waiter[i] = "wait"
    /\ procs[i] = "zombie"
    /\ procs' = [procs EXCEPT ![i] = "gone"]
    /\ waiter' = [waiter EXCEPT ![i] = "send"]
    /\ UNCHANGED <<cur, stopCh, rpc, kpc, restartErrTimes, reporting, spc, victim, psErrors, panicked>>

\* reportError receives what a Wait goroutine sends.
ReportError(i) ==
    /\ reporting
    /\ waiter[i] = "send"
    /\ waiter' = [waiter EXCEPT ![i] = "done"]
    /\ UNCHANGED <<procs, cur, stopCh, rpc, kpc, restartErrTimes, reporting, spc, victim, psErrors,
                   panicked>>

ReportStop ==
    /\ reporting
    /\ stopCh = "closed"
    /\ reporting' = FALSE
    /\ UNCHANGED <<procs, cur, stopCh, rpc, kpc, restartErrTimes, waiter, spc, victim, psErrors,
                   panicked>>

-----------------------------------------------------------------------------
(* RunForever                                                               *)

Run(i) ==
    /\ rpc = "init"
    /\ stopCh' = "open"
    /\ StartProcess(i)
    /\ rpc' = "started"
    /\ UNCHANGED <<kpc, restartErrTimes, reporting, spc, victim, psErrors, panicked>>

RunFails ==
    /\ rpc = "init"
    /\ stopCh' = "closed"
    /\ rpc' = "failed"
    /\ UNCHANGED <<procs, cur, kpc, restartErrTimes, reporting, waiter, spc, victim, psErrors,
                   panicked>>

StartKeepalive ==
    /\ rpc = "started"
    /\ kpc' = "select"
    /\ rpc' = "watched"
    /\ UNCHANGED <<procs, cur, stopCh, restartErrTimes, reporting, waiter, spc, victim, psErrors,
                   panicked>>

StartReportError ==
    /\ rpc = "watched"
    /\ reporting' = TRUE
    /\ rpc' = "returned"
    /\ UNCHANGED <<procs, cur, stopCh, kpc, restartErrTimes, waiter, spc, victim, psErrors, panicked>>

-----------------------------------------------------------------------------
(* keepalive                                                                *)

\* Mutant: a tick does not look whether the daemon runs.
KeepaliveTickBlind ==
    /\ kpc = "select"
    /\ kpc' = "dead"
    /\ UNCHANGED <<procs, cur, stopCh, rpc, restartErrTimes, reporting, waiter, spc, victim,
                   psErrors, panicked>>

\* Mutant: a command that was never started is not looked at.
KeepaliveTickStarted ==
    /\ kpc = "select"
    /\ \E running \in BOOLEAN :
        /\ IsRunning(running)
        /\ IF running \/ cur = 0
           THEN UNCHANGED kpc
           ELSE kpc' = "dead"
    /\ UNCHANGED <<procs, cur, stopCh, rpc, restartErrTimes, reporting, waiter, spc, victim,
                   panicked>>

\* A tick looks whether the daemon runs. Nobody else writes c.cmd, so that its reads
\* in IsRunning are one step.
KeepaliveTick ==
    /\ kpc = "select"
    /\ \E running \in BOOLEAN :
        /\ IsRunning(running)
        /\ kpc' = IF running THEN "select" ELSE "dead"
    /\ UNCHANGED <<procs, cur, stopCh, rpc, restartErrTimes, reporting, waiter, spc, victim,
                   panicked>>

\* c.cmd is replaced by a fresh one.
KeepaliveDelegate ==
    /\ kpc = "dead"
    /\ cur' = 0
    /\ kpc' = "spawn"
    /\ UNCHANGED <<procs, stopCh, rpc, restartErrTimes, reporting, waiter, spc, victim, psErrors,
                   panicked>>

KeepaliveRun(i) ==
    /\ kpc = "spawn"
    /\ StartProcess(i)
    /\ kpc' = "select"
    /\ UNCHANGED <<stopCh, rpc, restartErrTimes, reporting, spc, victim, psErrors, panicked>>

\* Mutant: keepalive gives up one failure too late.
KeepaliveRunFailsLate ==
    /\ kpc = "spawn"
    /\ IF restartErrTimes > CrashBackoff
       THEN /\ IF stopCh = "closed"
               THEN panicked' = "keepalive" /\ UNCHANGED <<stopCh, kpc>>
               ELSE stopCh' = "closed" /\ kpc' = "signal" /\ UNCHANGED panicked
            /\ UNCHANGED restartErrTimes
       ELSE /\ restartErrTimes' = restartErrTimes + 1
            /\ kpc' = "select"
            /\ UNCHANGED <<stopCh, panicked>>
    /\ UNCHANGED <<procs, cur, rpc, reporting, waiter, spc, victim, psErrors>>

\* run fails: too many times and keepalive calls Stop, which closes stopCh.
KeepaliveRunFails ==
    /\ kpc = "spawn"
    /\ IF restartErrTimes >= CrashBackoff
       THEN /\ IF stopCh = "closed"
               THEN panicked' = "keepalive" /\ UNCHANGED <<stopCh, kpc>>
               ELSE stopCh' = "closed" /\ kpc' = "signal" /\ UNCHANGED panicked
            /\ UNCHANGED restartErrTimes
       ELSE /\ restartErrTimes' = restartErrTimes + 1
            /\ kpc' = "select"
            /\ UNCHANGED <<stopCh, panicked>>
    /\ UNCHANGED <<procs, cur, rpc, reporting, waiter, spc, victim, psErrors>>

\* Mutant: the select leaves only after the daemon has died.
KeepaliveStopLate ==
    /\ kpc = "select"
    /\ stopCh = "closed"
    /\ ~Listed(cur)
    /\ kpc' = "exited"
    /\ UNCHANGED <<procs, cur, stopCh, rpc, restartErrTimes, reporting, waiter, spc, victim, psErrors,
                   panicked>>

KeepaliveStop ==
    /\ kpc = "select"
    /\ stopCh = "closed"
    /\ kpc' = "exited"
    /\ UNCHANGED <<procs, cur, stopCh, rpc, restartErrTimes, reporting, waiter, spc, victim, psErrors,
                   panicked>>

-----------------------------------------------------------------------------
(* Stop, called from outside (spc) or by keepalive (kpc)                    *)

\* Stop before RunForever is refused and changes nothing.
StopClose ==
    /\ spc = "idle"
    /\ stopCh # "nil"
    /\ IF stopCh = "closed"
       THEN panicked' = "Stop" /\ UNCHANGED <<stopCh, spc, victim>>
       ELSE stopCh' = "closed" /\ spc' = "signal" /\ victim' = cur /\ UNCHANGED panicked
    /\ UNCHANGED <<procs, cur, rpc, kpc, restartErrTimes, reporting, waiter, psErrors>>

\* shutdown: SIGTERM and the grace period. A nil Process panics, and one that
\* Wait has already reaped returns an error.
ShutdownSignal(who, pc, next, end) ==
    /\ pc = "signal"
    /\ \/ ~Grace /\ next = "check" /\ UNCHANGED panicked
       \/ Grace /\ cur = 0 /\ next = pc /\ panicked' = who
       \/ Grace /\ cur # 0 /\ procs[cur] = "gone" /\ next = end /\ UNCHANGED panicked
       \/ Grace /\ cur # 0 /\ procs[cur] # "gone" /\ next = "wait" /\ UNCHANGED panicked
    /\ UNCHANGED <<procs, psErrors>>

\* Mutant: a daemon that was given its grace period is not killed.
ShutdownWaitOnly(pc, next) ==
    /\ pc = "wait"
    /\ next = "done"
    /\ UNCHANGED <<procs, psErrors, panicked>>

ShutdownWait(pc, next) ==
    /\ pc = "wait"
    /\ next = "check"
    /\ UNCHANGED <<procs, psErrors, panicked>>

\* IsRunning reads c.cmd twice: is there a process, and which?
ShutdownCheck(pc, next, end) ==
    /\ pc = "check"
    /\ next = IF cur = 0 THEN end ELSE "lookup"
    /\ UNCHANGED <<procs, psErrors, panicked>>

\* keepalive may have replaced c.cmd since, by one whose Process is nil.
ShutdownLookup(who, pc, next, end) ==
    /\ pc = "lookup"
    /\ IF cur = 0
       THEN next = pc /\ panicked' = who /\ UNCHANGED psErrors
       ELSE /\ \E running \in BOOLEAN :
                /\ IsRunning(running)
                /\ next = IF running THEN "kill" ELSE end
            /\ UNCHANGED panicked
    /\ UNCHANGED procs

\* The process of c.cmd, the one that was looked up or not, is killed.
ShutdownKill(who, pc, next, end) ==
    /\ pc = "kill"
    /\ IF cur = 0
       THEN next = pc /\ panicked' = who /\ UNCHANGED procs
       ELSE /\ next = end
            /\ procs' = [procs EXCEPT ![cur] = IF @ = "running" THEN "zombie" ELSE @]
            /\ UNCHANGED panicked
    /\ UNCHANGED psErrors

Shutdown(who, pc, next, end) ==
    \/ ShutdownSignal(who, pc, next, end)
    \/ ShutdownWait(pc, next)
    \/ ShutdownCheck(pc, next, end)
    \/ ShutdownLookup(who, pc, next, end)
    \/ ShutdownKill(who, pc, next, end)

StopShutdown ==
    /\ Shutdown("Stop", spc, spc', "done")
    /\ UNCHANGED <<cur, stopCh, rpc, kpc, restartErrTimes, reporting, waiter, victim>>

KeepaliveShutdown ==
    /\ Shutdown("keepalive", kpc, kpc', "exited")
    /\ UNCHANGED <<cur, stopCh, rpc, restartErrTimes, reporting, waiter, spc, victim>>

-----------------------------------------------------------------------------
RunForever ==
    \/ \E i \in Procs : Run(i)
    \/ RunFails
    \/ StartKeepalive
    \/ StartReportError

Keepalive ==
    \/ KeepaliveTick
    \/ KeepaliveDelegate
    \/ \E i \in Procs : KeepaliveRun(i)
    \/ KeepaliveRunFails
    \/ KeepaliveShutdown

Alive == panicked = "no"

Next ==
    \/ Alive /\ RunForever
    \/ Alive /\ Keepalive
    \/ Alive /\ KeepaliveStop
    \/ Alive /\ StopClose
    \/ Alive /\ StopShutdown
    \/ Alive /\ \E i \in Procs : Crash(i)
    \/ Alive /\ \E i \in Procs : Reap(i)
    \/ Alive /\ \E i \in Procs : ReportError(i)
    \/ Alive /\ ReportStop
    \/ ~Alive /\ UNCHANGED vars

Spec == Init /\ [][Next]_vars

\* The goroutines run, the ticker ticks and the grace period ends. select takes
\* a ready case at random, so a closed stopCh cannot be passed over for ever.
\* Nothing makes the daemon die or the provider call Stop.
Fairness ==
    /\ WF_vars(Alive /\ RunForever)
    /\ WF_vars(Alive /\ Keepalive)
    /\ SF_vars(Alive /\ KeepaliveStop)
    /\ WF_vars(Alive /\ StopShutdown)
    /\ \A i \in Procs : WF_vars(Alive /\ Reap(i))
    /\ \A i \in Procs : WF_vars(Alive /\ ReportError(i))
    /\ SF_vars(Alive /\ ReportStop)

FairSpec == Spec /\ Fairness

-----------------------------------------------------------------------------
(* Properties                                                               *)

\* keepalive never starts a second daemon next to a living one (two
\* keepaliveds would fight over the VIPs), and never loses track of one, as long
\* as /proc can be read.
OneDaemon == psErrors = 0 => \A i \in Procs : procs[i] = "running" => i = cur

\* The process that was current when Stop closed stopCh is dead when Stop
\* returns, whether it obeyed the SIGTERM, ignored it or died on its own, as long
\* as /proc can be read.
StopKillsCurrent == (spc = "done" /\ victim # 0 /\ psErrors = 0) => procs[victim] # "running"

\* A daemon that died is replaced, unless keepalive gave up or was stopped.
DaemonRestarted ==
    (rpc = "returned" /\ (cur = 0 \/ procs[cur] # "running")) ~>
        ((cur # 0 /\ procs[cur] = "running") \/ stopCh = "closed" \/ ~Alive)

\* After Stop the keepalive goroutine ends: no daemon is started for ever.
KeepaliveEnds == (stopCh = "closed") ~> (kpc \in {"off", "exited"} \/ ~Alive)

\* "Stop stops the daemon process": when Stop has returned no daemon runs.
StopIsFinal == spc = "done" => \A i \in Procs : procs[i] # "running"

=============================================================================
