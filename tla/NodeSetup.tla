------------------------------ MODULE NodeSetup ------------------------------
(***************************************************************************)
(* What the ipvsdr provider and the ingress sidecar change on their node   *)
(* while they run, and undo when they stop: kernel parameters, saved and   *)
(* adjusted one by one by sysctl.BulkModify, and the iptables chains of    *)
(* ipvsdr.Provider, which OnUpdate flushes and fills. Start, OnUpdate and  *)
(* Stop run on threads of their own (see GenericProvider); the process may *)
(* be killed at any time and be started again.                             *)
(*                                                                         *)
(* Simplifications: one process at a time, for the two providers touch     *)
(* neither each other's parameters nor each other's chains; one valid VIP  *)
(* and so one IP version; keepalived itself is in Execd.                   *)
(***************************************************************************)
EXTENDS Integers, Sequences, SequencesExt

CONSTANTS Keys,       \* kernel parameters
          Adjusts,    \* the ones each provider adjusts
          Macs,       \* MAC addresses of the other nodes
          Ports,      \* ports that may be exported
          MaxRuns,    \* bound: starts of a provider
          MaxUpdates, \* bound: runs of OnUpdate
          MaxFaults   \* bound: failing calls and kills

Providers == {"ipvsdr", "ingress"}

\* The two lists of sysctlAdjustments have no key in common.
ASSUME NodeAssumption ==
    /\ Adjusts \in [Providers -> SUBSET Keys]
    /\ Adjusts["ipvsdr"] \cap Adjusts["ingress"] = {}
    /\ {MaxRuns, MaxUpdates, MaxFaults} \subseteq Nat

VARIABLES sys,        \* "orig" or "adjusted", for each kernel parameter
          provider,   \* which provider the process is
          main,       \* where its Start is, "off" when there is no process
          stop,       \* where Stop is
          default,    \* Provider.sysctlDefault: the saved values
          todo,       \* what BulkModify has still to set, by thread
          saved,      \* the originals BulkModify has read so far
          made,       \* tables that have our chain
          chain,      \* the rules in it
          jump,       \* tables whose built-in chain jumps to it
          cmds,       \* iptables commands each thread of ipvsdr has still to run
          worker,     \* where OnUpdate is
          lb,         \* what it makes the rules from
          left,       \* rules it has still to make
          used,       \* how much of each bound is used
          lost,       \* providers whose saved values cannot be right any more
          messy       \* why the chains may be left over

sysVars == <<sys, default, todo, saved>>
chainVars == <<made, chain, jump, cmds>>
workVars == <<worker, lb, left>>
vars == <<sysVars, provider, main, stop, chainVars, workVars, used, lost, messy>>

-----------------------------------------------------------------------------
Tables == {"mangle", "filter"}
Threads == {"main", "stop"}
Runners == Threads \cup {"worker"}

\* What ensureChain, flushChain and deleteChain do, command by command.
flushChain == <<<<"FlushChain", "mangle">>, <<"FlushChain", "filter">>>>
ensureChain == <<<<"EnsureChain", "mangle">>, <<"EnsureRule", "mangle">>,
                 <<"EnsureChain", "filter">>, <<"EnsureRule", "filter">>>>

\* Mutant: the chain is deleted while the jump to it is there.
deleteChainInUse == flushChain \o <<<<"DeleteChain", "mangle">>, <<"DeleteRule", "mangle">>,
                                    <<"DeleteChain", "filter">>, <<"DeleteRule", "filter">>>>

deleteChain == flushChain \o <<<<"DeleteRule", "mangle">>, <<"DeleteChain", "mangle">>,
                               <<"DeleteRule", "filter">>, <<"DeleteChain", "filter">>>>

\* What each thread runs.
Program(t) == CASE t = "main" -> ensureChain
                [] t = "stop" -> deleteChain
                [] OTHER -> flushChain
Commands == {"EnsureChain", "EnsureRule", "FlushChain", "DeleteRule", "DeleteChain"} \X Tables

Values == {"orig", "adjusted"}

\* Traffic of a neighbour is marked 0, traffic to a port 1; the rules of the
\* filter table drop what has the drop mark.
Reset(m) == <<0, m>>
Accept(p) == <<1, p>>
Drop == <<0, "drop">>
MangleRules == {Reset(m) : m \in Macs} \cup {Accept(p) : p \in Ports}

\* neighbors: MACs in nodeIPs; ports: tcps and udps; active: the HA mode is not
\* ActivePassive.
Configs == [neighbors : SUBSET Macs, ports : SUBSET Ports, active : BOOLEAN]
NoConfig == [neighbors |-> {}, ports |-> {}, active |-> FALSE]

\* Partial functions from keys to values.
Settings == UNION {[S -> Values] : S \in SUBSET Keys}
NoSettings == [k \in {} |-> "orig"]

TypeOK ==
    /\ sys \in [Keys -> Values]
    /\ provider \in Providers
    /\ main \in {"off", "sysctl", "chain", "up"}
    /\ stop \in {"off", "reset", "chain", "exit"}
    /\ default \in Settings
    /\ todo \in [Threads -> Settings]
    /\ saved \in [Threads -> Settings]
    /\ chain \in [Tables -> Seq(MangleRules \cup {Drop})]
    /\ made \subseteq Tables /\ jump \subseteq made
    /\ cmds \in [Runners -> Seq(Commands)]
    /\ \A t \in Runners : cmds[t] \in Suffixes(Program(t))
    /\ worker \in {"off", "idle", "flush", "reset", "accept", "drop"}
    /\ lb \in Configs
    /\ left \subseteq (Macs \cup Ports)
    /\ worker = "reset" => left \subseteq Macs
    /\ worker = "accept" => left \subseteq Ports
    /\ used \in [runs : 0..MaxRuns, updates : 0..MaxUpdates, faults : 0..MaxFaults]
    /\ lost \subseteq Providers
    /\ messy \subseteq {"kill", "fault", "start", "update"}

Init ==
    /\ sys = [k \in Keys |-> "orig"]
    /\ provider \in Providers
    /\ main = "off"
    /\ stop = "off"
    /\ default = NoSettings
    /\ todo = [t \in Threads |-> NoSettings]
    /\ saved = [t \in Threads |-> NoSettings]
    /\ made = {}
    /\ chain = [t \in Tables |-> <<>>]
    /\ jump = {}
    /\ cmds = [t \in Runners |-> <<>>]
    /\ worker = "off"
    /\ lb = NoConfig
    /\ left = {}
    /\ used = [runs |-> 0, updates |-> 0, faults |-> 0]
    /\ lost = {}
    /\ messy = {}

Fault == used.faults < MaxFaults /\ used' = [used EXCEPT !.faults = @ + 1]

-----------------------------------------------------------------------------
(* sysctl.BulkModify                                                        *)

Restricted(f, S) == [k \in S |-> f[k]]
With(f, k, v) == [x \in DOMAIN f \cup {k} |-> IF x = k THEN v ELSE f[x]]

\* Thread t calls BulkModify(settings).
BulkModify(t, settings) ==
    /\ todo' = [todo EXCEPT ![t] = settings]
    /\ saved' = [saved EXCEPT ![t] = NoSettings]

Modifying(t) == IF t = "main" THEN main = "sysctl" ELSE stop = "reset"

\* Mutant: the key is set before its value is saved.
ModifyKeyFirst(t, k) ==
    /\ Modifying(t)
    /\ k \in DOMAIN todo[t]
    /\ sys' = [sys EXCEPT ![k] = todo[t][k]]
    /\ saved' = [saved EXCEPT ![t] = With(@, k, sys'[k])]
    /\ todo' = [todo EXCEPT ![t] = Restricted(@, DOMAIN @ \ {k})]
    /\ UNCHANGED <<default, provider, main, stop, chainVars, workVars, used, lost, messy>>

\* One key, in any order: its value is saved, then it is set.
ModifyKey(t, k) ==
    /\ Modifying(t)
    /\ k \in DOMAIN todo[t]
    /\ saved' = [saved EXCEPT ![t] = With(@, k, sys[k])]
    /\ sys' = [sys EXCEPT ![k] = todo[t][k]]
    /\ todo' = [todo EXCEPT ![t] = Restricted(@, DOMAIN @ \ {k})]
    /\ UNCHANGED <<default, provider, main, stop, chainVars, workVars, used, lost, messy>>

\* changeSysctl ends, with or without an error, and Start goes on.
changeSysctlDone(originals) ==
    /\ default' = originals
    /\ BulkModify("main", NoSettings)
    /\ main' = IF provider = "ipvsdr" THEN "chain" ELSE "up"
    /\ cmds' = IF provider = "ipvsdr" THEN [cmds EXCEPT !["main"] = ensureChain] ELSE cmds
    /\ UNCHANGED <<provider, stop>>

\* Mutant: Stop makes the chains again instead of deleting them.
resetSysctlDoneEnsure ==
    /\ BulkModify("stop", NoSettings)
    /\ stop' = IF provider = "ipvsdr" THEN "chain" ELSE "exit"
    /\ cmds' = IF provider = "ipvsdr" THEN [cmds EXCEPT !["stop"] = ensureChain] ELSE cmds
    /\ UNCHANGED <<default, provider, main>>

\* resetSysctl ends, with or without an error, and Stop goes on.
resetSysctlDone ==
    /\ BulkModify("stop", NoSettings)
    /\ stop' = IF provider = "ipvsdr" THEN "chain" ELSE "exit"
    /\ cmds' = IF provider = "ipvsdr" THEN [cmds EXCEPT !["stop"] = deleteChain] ELSE cmds
    /\ UNCHANGED <<default, provider, main>>

ModifyReturn(t) ==
    /\ Modifying(t)
    /\ todo[t] = NoSettings
    /\ IF t = "main" THEN changeSysctlDone(saved[t]) ELSE resetSysctlDone
    /\ UNCHANGED <<sys, made, chain, jump, workVars, used, lost, messy>>

\* A key cannot be read, or is saved and cannot be set: the rest is left as it is.
ModifyError(t) ==
    /\ Modifying(t)
    /\ Fault
    /\ \E k \in DOMAIN todo[t], read \in BOOLEAN :
        LET originals == IF read THEN With(saved[t], k, sys[k]) ELSE saved[t] IN
        IF t = "main" THEN changeSysctlDone(originals) ELSE resetSysctlDone
    /\ lost' = IF t = "stop" THEN lost \cup {provider} ELSE lost
    /\ UNCHANGED <<sys, made, chain, jump, workVars, messy>>

-----------------------------------------------------------------------------
(* Start, Stop and the end of the process                                   *)

Start(p) ==
    /\ main = "off"
    /\ used.runs < MaxRuns
    /\ used' = [used EXCEPT !.runs = @ + 1]
    /\ provider' = p
    /\ main' = "sysctl"
    /\ BulkModify("main", [k \in Adjusts[p] |-> "adjusted"])
    /\ messy' = IF p = "ipvsdr" THEN {} ELSE messy
    /\ UNCHANGED <<sys, default, stop, chainVars, workVars, lost>>

\* Stop does not wait for Start or for OnUpdate.
Stop ==
    /\ main # "off" /\ stop = "off"
    /\ stop' = "reset"
    /\ BulkModify("stop", default)
    /\ lost' = IF main = "sysctl" THEN lost \cup {provider} ELSE lost
    /\ messy' = IF provider = "ipvsdr"
                THEN messy \cup (IF main # "up" THEN {"start"} ELSE {})
                           \cup (IF worker \notin {"off", "idle"} THEN {"update"} ELSE {})
                ELSE messy
    /\ UNCHANGED <<sys, default, provider, main, chainVars, workVars, used>>

\* The process is gone, and what it remembers with it.
Down ==
    /\ main' = "off"
    /\ stop' = "off"
    /\ default' = NoSettings
    /\ todo' = [t \in Threads |-> NoSettings]
    /\ saved' = [t \in Threads |-> NoSettings]
    /\ cmds' = [t \in Runners |-> <<>>]
    /\ worker' = "off"
    /\ lb' = NoConfig
    /\ left' = {}
    /\ UNCHANGED <<provider, sys, made, chain, jump>>

Exit ==
    /\ stop = "exit"
    /\ Down
    /\ UNCHANGED <<used, lost, messy>>

Kill ==
    /\ main # "off"
    /\ Fault
    /\ Down
    /\ lost' = lost \cup {provider}
    /\ messy' = IF provider = "ipvsdr" THEN messy \cup {"kill"} ELSE messy

-----------------------------------------------------------------------------
(* iptables                                                                 *)

\* The effect of one command. Nothing jumps to a chain that is not there, and a
\* chain in use or with rules is not deleted.
Execute(op, t) ==
    /\ made' = CASE op = "EnsureChain" -> made \cup {t}
                 [] op = "DeleteChain" /\ chain[t] = <<>> /\ t \notin jump -> made \ {t}
                 [] OTHER -> made
    /\ chain' = IF op = "FlushChain" THEN [chain EXCEPT ![t] = <<>>] ELSE chain
    /\ jump' = CASE op = "EnsureRule" -> jump \cup ({t} \cap made)
                 [] op = "DeleteRule" -> jump \ {t}
                 [] OTHER -> jump

\* Where each thread of ipvsdr is when its commands are done.
Proceed(t) ==
    /\ main' = IF t = "main" /\ cmds'[t] = <<>> THEN "up" ELSE main
    /\ stop' = IF t = "stop" /\ cmds'[t] = <<>> THEN "exit" ELSE stop
    /\ worker' = IF t = "main" /\ cmds'[t] = <<>> THEN "idle"
                 ELSE IF t = "worker" /\ cmds'[t] = <<>>
                 THEN IF lb.active THEN "reset" ELSE "idle"
                 ELSE worker
    /\ left' = IF t = "worker" /\ cmds'[t] = <<>> /\ lb.active THEN lb.neighbors ELSE left

RunCommand(t) ==
    /\ cmds[t] # <<>>
    /\ Execute(Head(cmds[t])[1], Head(cmds[t])[2])
    /\ cmds' = [cmds EXCEPT ![t] = Tail(@)]
    /\ Proceed(t)
    /\ UNCHANGED <<sysVars, provider, lb, used, lost, messy>>

\* A failing command is ignored, except for EnsureChain, which is fatal.
CommandError(t) ==
    /\ cmds[t] # <<>>
    /\ Fault
    /\ messy' = messy \cup {"fault"}
    /\ IF Head(cmds[t])[1] = "EnsureChain"
       THEN Down /\ lost' = lost \cup {provider}
       ELSE /\ cmds' = [cmds EXCEPT ![t] = Tail(@)]
            /\ Proceed(t)
            /\ UNCHANGED <<sysVars, provider, made, chain, jump, lb, lost>>

-----------------------------------------------------------------------------
(* OnUpdate: onUpdateIPtables                                               *)

OnUpdate(c) ==
    /\ worker = "idle"
    /\ used.updates < MaxUpdates
    /\ used' = [used EXCEPT !.updates = @ + 1]
    /\ lb' = c
    /\ worker' = "flush"
    /\ cmds' = [cmds EXCEPT !["worker"] = flushChain]
    /\ messy' = IF stop # "off" THEN messy \cup {"update"} ELSE messy
    /\ UNCHANGED <<sysVars, provider, main, stop, made, chain, jump, left, lost>>

\* Mutant: a port's rule is appended as well.
PrependedLast(t, r) == IF t \notin made \/ Contains(chain[t], r) THEN chain
                       ELSE [chain EXCEPT ![t] = Append(@, r)]

\* EnsureRule leaves a rule that is there where it is, and fails without a chain.
Appended(t, r) == IF t \notin made \/ Contains(chain[t], r) THEN chain
                  ELSE [chain EXCEPT ![t] = Append(@, r)]

Prepended(t, r) == IF t \notin made \/ Contains(chain[t], r) THEN chain
                   ELSE [chain EXCEPT ![t] = <<r>> \o @]

\* The next stage of ensureIptablesMark when nothing is left of this one.
Advance(rest, next, its) ==
    IF rest = {} THEN worker' = next /\ left' = its ELSE worker' = worker /\ left' = rest

\* Mutant: the neighbours after the first are forgotten.
appendIptablesMarkOnce ==
    /\ worker = "reset"
    /\ IF left = {}
       THEN chain' = chain
       ELSE \E m \in left : chain' = Appended("mangle", Reset(m))
    /\ Advance({}, "accept", lb.ports)
    /\ UNCHANGED <<sysVars, provider, main, stop, made, jump, cmds, lb, used, lost, messy>>

\* A neighbour's rule is appended; an error is logged and the next one tried.
appendIptablesMark ==
    /\ worker = "reset"
    /\ IF left = {}
       THEN Advance({}, "accept", lb.ports) /\ UNCHANGED <<chain, used, messy>>
       ELSE \E m \in left :
             /\ Advance(left \ {m}, "accept", lb.ports)
             /\ \/ /\ chain' = Appended("mangle", Reset(m))
                   /\ UNCHANGED <<used, messy>>
                \/ Fault /\ messy' = messy \cup {"fault"} /\ UNCHANGED chain
    /\ UNCHANGED <<sysVars, provider, main, stop, made, jump, cmds, lb, lost>>

\* A port's rule is prepended; an error ends the ports of its protocol.
prependIptablesMark ==
    /\ worker = "accept"
    /\ IF left = {}
       THEN Advance({}, "drop", {}) /\ UNCHANGED <<chain, used, messy>>
       ELSE \E p \in left :
             \/ /\ Advance(left \ {p}, "drop", {})
                /\ chain' = Prepended("mangle", Accept(p))
                /\ UNCHANGED <<used, messy>>
             \/ /\ \E rest \in SUBSET (left \ {p}) : Advance(rest, "drop", {})
                /\ Fault /\ messy' = messy \cup {"fault"} /\ UNCHANGED chain
    /\ UNCHANGED <<sysVars, provider, main, stop, made, jump, cmds, lb, lost>>

ensureIptablesOutputDrop ==
    /\ worker = "drop"
    /\ worker' = "idle"
    /\ \/ chain' = Appended("filter", Drop) /\ UNCHANGED <<used, messy>>
       \/ Fault /\ messy' = messy \cup {"fault"} /\ UNCHANGED chain
    /\ UNCHANGED <<sysVars, provider, main, stop, made, jump, cmds, lb, left, lost>>

-----------------------------------------------------------------------------
Next ==
    \/ \E p \in Providers : Start(p)
    \/ Stop
    \/ Exit
    \/ Kill
    \/ \E t \in Threads : \/ \E k \in Keys : ModifyKey(t, k)
                          \/ ModifyReturn(t)
                          \/ ModifyError(t)
    \/ \E t \in Runners : RunCommand(t) \/ CommandError(t)
    \/ \E c \in Configs : OnUpdate(c)
    \/ appendIptablesMark
    \/ prependIptablesMark
    \/ ensureIptablesOutputDrop

Spec == Init /\ [][Next]_vars

-----------------------------------------------------------------------------
(* Properties                                                               *)

Mangle == chain["mangle"]

\* When no process runs, every kernel parameter has the value it had before the
\* providers touched it, also when changeSysctl failed half-way. Lost are only
\* the providers that were killed, stopped inside changeSysctl (ipvsdr.go:489,
\* Stop resets from the map of before) or failed to reset.
Restored ==
    main = "off" => \A p \in Providers \ lost : \A k \in Adjusts[p] : sys[k] = "orig"

\* When ipvsdr has stopped, nothing jumps to its chains and they are gone, what
\* an earlier run left behind included. An OnUpdate that Stop overtakes may
\* refill a flushed chain, which is then not deleted, but no longer in use.
Traceless ==
    main = "off" =>
        /\ messy \subseteq {"update"} => jump = {}
        /\ messy = {} => made = {}

\* The rules that mark a neighbour's traffic 0 are below those that mark a port's
\* 1, so that the last mark is the neighbour's (the comment of
\* ensureIptablesMark), whatever fails, overlaps or is left from earlier runs.
NeighborsOverride ==
    \A i, j \in DOMAIN Mangle : i < j => ~(Mangle[i][1] = 0 /\ Mangle[j][1] = 1)

\* From the first port rule on, all neighbours of the current node list have their
\* rule: at no moment of an OnUpdate does LVS take traffic back from a neighbour
\* ("we must add the mark 0 firstly"). Faults and an overlapping Stop excepted:
\* their errors are only logged.
NeighborsReset ==
    (/\ worker # "flush"
     /\ messy = {}
     /\ \E p \in Ports : Contains(Mangle, Accept(p)))
    => \A m \in lb.neighbors : Contains(Mangle, Reset(m))
=============================================================================
