---------------------------- MODULE NodeSetupProofs ---------------------------
(* Theorems about NodeSetup, for any kernel parameters, neighbours and ports   *)
(* and any number of runs, updates and faults.                                 *)
EXTENDS NodeSetup, SequenceTheorems, TLAPS

-----------------------------------------------------------------------------
(* iptables commands                                                        *)

\* The commands of each thread, by position.
LEMMA Programs ==
    /\ flushChain \in Seq(Commands) /\ Len(flushChain) = 2
    /\ flushChain[1] = <<"FlushChain", "mangle">>
    /\ flushChain[2] = <<"FlushChain", "filter">>
    /\ ensureChain \in Seq(Commands) /\ Len(ensureChain) = 4
    /\ ensureChain[1] = <<"EnsureChain", "mangle">>
    /\ ensureChain[2] = <<"EnsureRule", "mangle">>
    /\ ensureChain[3] = <<"EnsureChain", "filter">>
    /\ ensureChain[4] = <<"EnsureRule", "filter">>
    /\ deleteChain \in Seq(Commands) /\ Len(deleteChain) = 6
    /\ deleteChain[1] = <<"FlushChain", "mangle">>
    /\ deleteChain[2] = <<"FlushChain", "filter">>
    /\ deleteChain[3] = <<"DeleteRule", "mangle">>
    /\ deleteChain[4] = <<"DeleteChain", "mangle">>
    /\ deleteChain[5] = <<"DeleteRule", "filter">>
    /\ deleteChain[6] = <<"DeleteChain", "filter">>
  <1> DEFINE delete == <<<<"DeleteRule", "mangle">>, <<"DeleteChain", "mangle">>,
                         <<"DeleteRule", "filter">>, <<"DeleteChain", "filter">>>>
  <1>1. /\ flushChain \in Seq(Commands) /\ Len(flushChain) = 2
        /\ flushChain[1] = <<"FlushChain", "mangle">>
        /\ flushChain[2] = <<"FlushChain", "filter">>
    BY DEF flushChain, Commands, Tables
  <1>2. /\ ensureChain \in Seq(Commands) /\ Len(ensureChain) = 4
        /\ ensureChain[1] = <<"EnsureChain", "mangle">>
        /\ ensureChain[2] = <<"EnsureRule", "mangle">>
        /\ ensureChain[3] = <<"EnsureChain", "filter">>
        /\ ensureChain[4] = <<"EnsureRule", "filter">>
    BY DEF ensureChain, Commands, Tables
  <1>3. /\ delete \in Seq(Commands) /\ Len(delete) = 4
        /\ delete[1] = <<"DeleteRule", "mangle">>
        /\ delete[2] = <<"DeleteChain", "mangle">>
        /\ delete[3] = <<"DeleteRule", "filter">>
        /\ delete[4] = <<"DeleteChain", "filter">>
    BY DEF Commands, Tables
  <1>4. deleteChain = flushChain \o delete
    BY DEF deleteChain
  <1> HIDE DEF delete
  <1>5. /\ deleteChain \in Seq(Commands)
        /\ Len(deleteChain) = 6
        /\ \A i \in 1..6 : deleteChain[i] = IF i <= 2 THEN flushChain[i] ELSE delete[i - 2]
    <2>1. /\ flushChain \o delete \in Seq(Commands)
          /\ Len(flushChain \o delete) = Len(flushChain) + Len(delete)
          /\ \A i \in 1 .. Len(flushChain) + Len(delete) :
                (flushChain \o delete)[i] = IF i <= Len(flushChain) THEN flushChain[i]
                                            ELSE delete[i - Len(flushChain)]
      BY <1>1, <1>3, ConcatProperties
    <2> QED
      BY <1>1, <1>3, <1>4, <2>1
  <1> QED
    BY <1>1, <1>2, <1>3, <1>5

LEMMA ProgramType ==
    ASSUME NEW t \in Runners
    PROVE  Program(t) \in Seq(Commands)
  BY Programs DEF Program

\* A thread runs its commands in order: how many are left tells which is next.
LEMMA NextCommand ==
    ASSUME TypeOK, NEW t \in Runners, cmds[t] # <<>>
    PROVE  LET n == Len(cmds[t]) IN
           /\ n \in 1..Len(Program(t))
           /\ Head(cmds[t]) = Program(t)[Len(Program(t)) - n + 1]
           /\ Head(cmds[t]) \in Commands
           /\ Tail(cmds[t]) \in Seq(Commands)
           /\ Tail(cmds[t]) \in Suffixes(Program(t))
           /\ Len(Tail(cmds[t])) = n - 1
  <1> DEFINE p == Program(t)
             n == Len(cmds[t])
  <1>1. p \in Seq(Commands)
    BY ProgramType
  <1>2. PICK i \in 1..Len(p) : cmds[t] = SubSeq(p, i, Len(p))
    BY DEF TypeOK, Suffixes
  <1> HIDE DEF p
  <1>3. Len(p) \in Nat
    BY <1>1, LenProperties
  <1>4. n = Len(p) - i + 1
    BY <1>1, <1>2, <1>3, SubSeqProperties
  <1>5. /\ Head(cmds[t]) = p[i]
        /\ Tail(cmds[t]) = SubSeq(p, i + 1, Len(p))
    BY <1>1, <1>2, <1>3, HeadTailOfSubSeq
  <1>6. p[i] \in Commands
    BY <1>1, <1>2, ElementOfSeq
  <1>7. Tail(cmds[t]) \in Seq(Commands) /\ Len(Tail(cmds[t])) = n - 1
    BY HeadTailProperties DEF TypeOK
  <1>8. Tail(cmds[t]) \in Suffixes(p)
    <2>1. CASE i + 1 \in 1..Len(p)
      BY <1>5, <2>1 DEF Suffixes
    <2>2. CASE i + 1 > Len(p)
      <3>1. Tail(cmds[t]) = <<>>
        BY <1>3, <1>5, <2>2, SubSeqEmpty
      <3> QED
        BY <3>1 DEF Suffixes
    <2> QED
      BY <1>3, <2>1, <2>2
  <1>9. n \in 1..Len(p) /\ i = Len(p) - n + 1
    BY <1>3, <1>4
  <1> QED
    BY <1>5, <1>6, <1>7, <1>8, <1>9 DEF p

\* The whole program is left when it begins, and nothing when it is done.
LEMMA ProgramSuffixes ==
    ASSUME NEW t \in Runners
    PROVE  Program(t) \in Suffixes(Program(t)) /\ <<>> \in Suffixes(Program(t))
  <1>1. Program(t) \in Seq(Commands) /\ Len(Program(t)) \in Nat \ {0}
    BY Programs DEF Program
  <1>2. SubSeq(Program(t), 1, Len(Program(t))) = Program(t)
    BY <1>1, SubSeqFull
  <1> QED
    BY <1>1, <1>2 DEF Suffixes

-----------------------------------------------------------------------------
(* Settings and chains                                                      *)

LEMMA SettingsDef ==
    ASSUME NEW f
    PROVE  f \in Settings <=> DOMAIN f \subseteq Keys /\ f \in [DOMAIN f -> Values]
  BY DEF Settings

LEMMA NoSettingsType == NoSettings \in Settings /\ DOMAIN NoSettings = {}
  <1>1. DOMAIN NoSettings = {} /\ NoSettings \in [{} -> Values]
    BY DEF NoSettings
  <1> QED
    BY <1>1 DEF Settings

\* A map to which the value of one more key is added, or from which a key is taken.
LEMMA WithType ==
    ASSUME NEW f \in Settings, NEW k \in Keys, NEW v \in Values
    PROVE  /\ With(f, k, v) \in Settings
           /\ DOMAIN With(f, k, v) = DOMAIN f \cup {k}
           /\ With(f, k, v)[k] = v
           /\ \A x \in DOMAIN f \ {k} : With(f, k, v)[x] = f[x]
  BY SettingsDef DEF With

LEMMA RestrictedType ==
    ASSUME NEW f \in Settings, NEW S \in SUBSET DOMAIN f
    PROVE  /\ Restricted(f, S) \in Settings
           /\ DOMAIN Restricted(f, S) = S
           /\ \A x \in S : Restricted(f, S)[x] = f[x]
  BY SettingsDef DEF Restricted

\* What EnsureRule makes of the chains: nothing, or one rule more at an end.
LEMMA EnsuredChain ==
    ASSUME TypeOK, NEW t \in Tables, NEW r \in MangleRules \cup {Drop}
    PROVE  /\ Appended(t, r) \in [Tables -> Seq(MangleRules \cup {Drop})]
           /\ Prepended(t, r) \in [Tables -> Seq(MangleRules \cup {Drop})]
  <1>1. chain[t] \in Seq(MangleRules \cup {Drop})
    BY DEF TypeOK
  <1>2. Append(chain[t], r) \in Seq(MangleRules \cup {Drop})
    BY <1>1
  <1>3. <<r>> \in Seq(MangleRules \cup {Drop})
    OBVIOUS
  <1>4. <<r>> \o chain[t] \in Seq(MangleRules \cup {Drop})
    BY <1>1, <1>3, ConcatProperties
  <1> QED
    BY <1>2, <1>4 DEF Appended, Prepended, TypeOK

LEMMA FaultType ==
    ASSUME TypeOK, Fault
    PROVE  used' \in [runs : 0..MaxRuns, updates : 0..MaxUpdates, faults : 0..MaxFaults]
  <1>1. used \in [runs : 0..MaxRuns, updates : 0..MaxUpdates, faults : 0..MaxFaults]
    BY DEF TypeOK
  <1>2. used.faults + 1 \in 0..MaxFaults
    BY <1>1, NodeAssumption DEF Fault
  <1>3. used' = [used EXCEPT !.faults = used.faults + 1]
    BY DEF Fault
  <1> QED
    BY <1>1, <1>2, <1>3

LEMMA BulkModifyType ==
    ASSUME TypeOK, NEW t \in Threads, NEW f \in Settings, BulkModify(t, f)
    PROVE  /\ todo' \in [Threads -> Settings] /\ saved' \in [Threads -> Settings]
           /\ todo'[t] = f /\ saved'[t] = NoSettings
           /\ \A u \in Threads \ {t} : todo'[u] = todo[u] /\ saved'[u] = saved[u]
  BY NoSettingsType DEF BulkModify, TypeOK

\* A thread of ipvsdr begins its commands.
LEMMA BeginType ==
    ASSUME TypeOK, NEW t \in Runners, cmds' = [cmds EXCEPT ![t] = Program(t)]
    PROVE  /\ cmds' \in [Runners -> Seq(Commands)]
           /\ \A u \in Runners : cmds'[u] \in Suffixes(Program(u))
           /\ cmds'[t] # <<>>
           /\ \A u \in Runners \ {t} : cmds'[u] = cmds[u]
  <1>1. Program(t) \in Seq(Commands) /\ Program(t) # <<>>
    BY Programs DEF Program
  <1> QED
    BY <1>1, ProgramSuffixes DEF TypeOK

\* A thread is one command further.
LEMMA TailType ==
    ASSUME TypeOK, NEW t \in Runners, cmds[t] # <<>>, cmds' = [cmds EXCEPT ![t] = Tail(cmds[t])]
    PROVE  /\ cmds' \in [Runners -> Seq(Commands)]
           /\ \A u \in Runners : cmds'[u] \in Suffixes(Program(u))
           /\ cmds'[t] = Tail(cmds[t])
           /\ \A u \in Runners \ {t} : cmds'[u] = cmds[u]
  BY NextCommand DEF TypeOK

LEMMA DownType ==
    ASSUME TypeOK, Down
    PROVE  /\ default' \in Settings
           /\ todo' \in [Threads -> Settings] /\ saved' \in [Threads -> Settings]
           /\ cmds' \in [Runners -> Seq(Commands)]
           /\ \A t \in Runners : cmds'[t] \in Suffixes(Program(t)) /\ cmds'[t] = <<>>
           /\ lb' \in Configs
  <1>1. default' \in Settings /\ todo' \in [Threads -> Settings] /\ saved' \in [Threads -> Settings]
    BY NoSettingsType DEF Down
  <1>2. cmds' \in [Runners -> Seq(Commands)] /\ \A t \in Runners : cmds'[t] = <<>>
    BY DEF Down
  <1>3. \A t \in Runners : cmds'[t] \in Suffixes(Program(t))
    BY <1>2, ProgramSuffixes
  <1>4. lb' \in Configs
    BY DEF Down, Configs, NoConfig
  <1> QED
    BY <1>1, <1>2, <1>3, <1>4

LEMMA ProceedType ==
    ASSUME TypeOK, NEW t \in Runners, Proceed(t)
    PROVE  /\ main' \in {"off", "sysctl", "chain", "up"}
           /\ stop' \in {"off", "reset", "chain", "exit"}
           /\ worker' \in {"off", "idle", "flush", "reset", "accept", "drop"}
           /\ left' \subseteq (Macs \cup Ports)
           /\ worker' = "reset" => left' \subseteq Macs
           /\ worker' = "accept" => left' \subseteq Ports
  BY DEF TypeOK, Proceed, Configs

LEMMA ExecuteType ==
    ASSUME TypeOK, NEW op, NEW t \in Tables, Execute(op, t)
    PROVE  /\ chain' \in [Tables -> Seq(MangleRules \cup {Drop})]
           /\ made' \subseteq Tables /\ jump' \subseteq made'
  <1>1. chain' \in [Tables -> Seq(MangleRules \cup {Drop})]
    <2>1. <<>> \in Seq(MangleRules \cup {Drop})
      OBVIOUS
    <2> QED
      BY <2>1 DEF TypeOK, Execute
  <1>2. CASE op = "EnsureChain"
    BY <1>1, <1>2 DEF TypeOK, Execute
  <1>3. CASE op = "DeleteChain"
    BY <1>1, <1>3 DEF TypeOK, Execute
  <1>4. CASE op \notin {"EnsureChain", "DeleteChain"}
    <2>1. made' = made
      BY <1>4 DEF Execute
    <2>2. jump' \subseteq jump \cup ({t} \cap made)
      BY DEF Execute
    <2> QED
      BY <1>1, <2>1, <2>2 DEF TypeOK
  <1> QED
    BY <1>2, <1>3, <1>4

-----------------------------------------------------------------------------
(* Type correctness                                                         *)

LEMMA ChangeSysctlType ==
    ASSUME TypeOK, NEW originals \in Settings, changeSysctlDone(originals)
    PROVE  /\ default' \in Settings
           /\ todo' \in [Threads -> Settings] /\ saved' \in [Threads -> Settings]
           /\ main' \in {"chain", "up"} /\ stop' = stop /\ provider' = provider
           /\ cmds' \in [Runners -> Seq(Commands)]
           /\ \A t \in Runners : cmds'[t] \in Suffixes(Program(t))
  <1>1. BulkModify("main", NoSettings) /\ "main" \in Threads
    BY DEF changeSysctlDone, Threads
  <1>2. todo' \in [Threads -> Settings] /\ saved' \in [Threads -> Settings]
    BY <1>1, BulkModifyType, NoSettingsType
  <1>3. \/ cmds' = [cmds EXCEPT !["main"] = Program("main")]
        \/ cmds' = cmds
    BY DEF changeSysctlDone, Program
  <1>4. "main" \in Runners
    BY DEF Runners, Threads
  <1>5. /\ cmds' \in [Runners -> Seq(Commands)]
        /\ \A t \in Runners : cmds'[t] \in Suffixes(Program(t))
    BY <1>3, <1>4, BeginType DEF TypeOK
  <1> QED
    BY <1>2, <1>5 DEF changeSysctlDone

LEMMA ResetSysctlType ==
    ASSUME TypeOK, resetSysctlDone
    PROVE  /\ todo' \in [Threads -> Settings] /\ saved' \in [Threads -> Settings]
           /\ stop' \in {"chain", "exit"} /\ UNCHANGED <<default, provider, main>>
           /\ cmds' \in [Runners -> Seq(Commands)]
           /\ \A t \in Runners : cmds'[t] \in Suffixes(Program(t))
  <1>1. BulkModify("stop", NoSettings) /\ "stop" \in Threads
    BY DEF resetSysctlDone, Threads
  <1>2. todo' \in [Threads -> Settings] /\ saved' \in [Threads -> Settings]
    BY <1>1, BulkModifyType, NoSettingsType
  <1>3. \/ cmds' = [cmds EXCEPT !["stop"] = Program("stop")]
        \/ cmds' = cmds
    BY DEF resetSysctlDone, Program
  <1>4. "stop" \in Runners
    BY DEF Runners, Threads
  <1>5. /\ cmds' \in [Runners -> Seq(Commands)]
        /\ \A t \in Runners : cmds'[t] \in Suffixes(Program(t))
    BY <1>3, <1>4, BeginType DEF TypeOK
  <1> QED
    BY <1>2, <1>5 DEF resetSysctlDone

\* Saving and setting one key, with the maps before and after.
LEMMA ModifyKeyType ==
    ASSUME TypeOK, NEW t \in Threads, NEW k \in Keys, ModifyKey(t, k)
    PROVE  /\ k \in DOMAIN todo[t] /\ todo[t][k] \in Values /\ sys[k] \in Values
           /\ sys' = [sys EXCEPT ![k] = todo[t][k]]
           /\ todo' \in [Threads -> Settings] /\ saved' \in [Threads -> Settings]
           /\ DOMAIN todo'[t] = DOMAIN todo[t] \ {k}
           /\ \A x \in DOMAIN todo'[t] : todo'[t][x] = todo[t][x]
           /\ DOMAIN saved'[t] = DOMAIN saved[t] \cup {k}
           /\ saved'[t][k] = sys[k]
           /\ \A x \in DOMAIN saved[t] \ {k} : saved'[t][x] = saved[t][x]
           /\ \A u \in Threads \ {t} : todo'[u] = todo[u] /\ saved'[u] = saved[u]
  <1> DEFINE rest == Restricted(todo[t], DOMAIN todo[t] \ {k})
             more == With(saved[t], k, sys[k])
  <1>1. todo[t] \in Settings /\ saved[t] \in Settings /\ sys[k] \in Values
    BY DEF TypeOK
  <1>2. k \in DOMAIN todo[t] /\ sys' = [sys EXCEPT ![k] = todo[t][k]]
    BY DEF ModifyKey
  <1>3. todo[t][k] \in Values
    BY <1>1, <1>2, SettingsDef
  <1>4. todo' = [todo EXCEPT ![t] = rest] /\ saved' = [saved EXCEPT ![t] = more]
    BY DEF ModifyKey
  <1>5. /\ rest \in Settings /\ DOMAIN rest = DOMAIN todo[t] \ {k}
        /\ \A x \in DOMAIN rest : rest[x] = todo[t][x]
    BY <1>1, RestrictedType
  <1>6. /\ more \in Settings /\ DOMAIN more = DOMAIN saved[t] \cup {k}
        /\ more[k] = sys[k] /\ \A x \in DOMAIN saved[t] \ {k} : more[x] = saved[t][x]
    BY <1>1, WithType
  <1> HIDE DEF rest, more
  <1>7. /\ todo'[t] = rest /\ saved'[t] = more
        /\ todo' \in [Threads -> Settings] /\ saved' \in [Threads -> Settings]
        /\ \A u \in Threads \ {t} : todo'[u] = todo[u] /\ saved'[u] = saved[u]
    BY <1>4, <1>5, <1>6 DEF TypeOK
  <1> QED
    BY <1>1, <1>2, <1>3, <1>5, <1>6, <1>7

\* The originals that a failing changeSysctl remembers.
LEMMA ModifyErrorType ==
    ASSUME TypeOK, NEW t \in Threads, ModifyError(t)
    PROVE  \E k \in DOMAIN todo[t], originals \in Settings :
             /\ \/ originals = saved[t]
                \/ originals = With(saved[t], k, sys[k])
             /\ IF t = "main" THEN changeSysctlDone(originals) ELSE resetSysctlDone
  <1>1. PICK k \in DOMAIN todo[t], read \in BOOLEAN :
          LET originals == IF read THEN With(saved[t], k, sys[k]) ELSE saved[t] IN
          IF t = "main" THEN changeSysctlDone(originals) ELSE resetSysctlDone
    BY DEF ModifyError
  <1>2. saved[t] \in Settings /\ todo[t] \in Settings
    BY DEF TypeOK
  <1>3. k \in Keys
    BY <1>2, SettingsDef
  <1>4. With(saved[t], k, sys[k]) \in Settings
    BY <1>2, <1>3, WithType DEF TypeOK
  <1> DEFINE originals == IF read THEN With(saved[t], k, sys[k]) ELSE saved[t]
  <1>5. originals \in Settings
    BY <1>2, <1>4
  <1>6. originals = saved[t] \/ originals = With(saved[t], k, sys[k])
    OBVIOUS
  <1>7. IF t = "main" THEN changeSysctlDone(originals) ELSE resetSysctlDone
    BY <1>1
  <1> HIDE DEF originals
  <1> QED
    BY <1>5, <1>6, <1>7

\* Every variable keeps its type; in particular a thread has always an end of its
\* own list of commands to run, and nothing jumps to a chain that is not there.
THEOREM TypeCorrect == Spec => []TypeOK
  <1>1. Init => TypeOK
    <2> SUFFICES ASSUME Init PROVE TypeOK
      OBVIOUS
    <2>1. /\ default \in Settings /\ todo \in [Threads -> Settings]
          /\ saved \in [Threads -> Settings]
      BY NoSettingsType DEF Init
    <2>2. cmds \in [Runners -> Seq(Commands)] /\ \A t \in Runners : cmds[t] = <<>>
      BY DEF Init
    <2>3. \A t \in Runners : cmds[t] \in Suffixes(Program(t))
      BY <2>2, ProgramSuffixes
    <2>4. chain \in [Tables -> Seq(MangleRules \cup {Drop})]
      BY DEF Init
    <2>5. 0 \in 0..MaxRuns /\ 0 \in 0..MaxUpdates /\ 0 \in 0..MaxFaults
      BY NodeAssumption
    <2>6. used \in [runs : 0..MaxRuns, updates : 0..MaxUpdates, faults : 0..MaxFaults]
      BY <2>5 DEF Init
    <2>7. sys \in [Keys -> Values] /\ lb \in Configs
      BY DEF Init, Values, Configs, NoConfig
    <2> QED
      BY <2>1, <2>2, <2>3, <2>4, <2>6, <2>7 DEF Init, TypeOK
  <1>2. TypeOK /\ [Next]_vars => TypeOK'
    <2> SUFFICES ASSUME TypeOK, [Next]_vars PROVE TypeOK'
      OBVIOUS
    <2>1. ASSUME NEW p \in Providers, Start(p) PROVE TypeOK'
      <3> DEFINE f == [k \in Adjusts[p] |-> "adjusted"]
      <3>1. f \in Settings
        BY NodeAssumption DEF Settings, Values
      <3>2. BulkModify("main", f) /\ "main" \in Threads
        BY <2>1 DEF Start, Threads
      <3> HIDE DEF f
      <3>3. todo' \in [Threads -> Settings] /\ saved' \in [Threads -> Settings]
        BY <3>1, <3>2, BulkModifyType
      <3>4. used.runs + 1 \in 0..MaxRuns
        BY <2>1, NodeAssumption DEF Start, TypeOK
      <3>5. used' = [used EXCEPT !.runs = used.runs + 1]
        BY <2>1 DEF Start
      <3>6. used' \in [runs : 0..MaxRuns, updates : 0..MaxUpdates, faults : 0..MaxFaults]
        BY <3>4, <3>5 DEF TypeOK
      <3> QED
        BY <2>1, <3>3, <3>6 DEF Start, TypeOK, chainVars, workVars
    <2>2. CASE Stop
      <3>1. BulkModify("stop", default) /\ "stop" \in Threads /\ default \in Settings
        BY <2>2 DEF Stop, Threads, TypeOK
      <3>2. todo' \in [Threads -> Settings] /\ saved' \in [Threads -> Settings]
        BY <3>1, BulkModifyType
      <3>3. lost' \subseteq Providers /\ messy' \subseteq {"kill", "fault", "start", "update"}
        BY <2>2 DEF Stop, TypeOK
      <3> QED
        BY <2>2, <3>2, <3>3 DEF Stop, TypeOK, chainVars, workVars
    <2>3. CASE Exit
      <3>1. Down /\ UNCHANGED <<used, lost, messy>>
        BY <2>3 DEF Exit
      <3> QED
        BY <3>1, DownType DEF Down, TypeOK
    <2>4. CASE Kill
      <3>1. Down /\ Fault
        BY <2>4 DEF Kill
      <3>2. lost' \subseteq Providers /\ messy' \subseteq {"kill", "fault", "start", "update"}
        BY <2>4 DEF Kill, TypeOK
      <3> QED
        BY <3>1, <3>2, DownType, FaultType DEF Down, TypeOK
    <2>5. ASSUME NEW t \in Threads, NEW k \in Keys, ModifyKey(t, k) PROVE TypeOK'
      <3>1. /\ todo' \in [Threads -> Settings] /\ saved' \in [Threads -> Settings]
            /\ sys' = [sys EXCEPT ![k] = todo[t][k]] /\ todo[t][k] \in Values
        BY <2>5, ModifyKeyType
      <3>2. sys' \in [Keys -> Values]
        BY <3>1 DEF TypeOK
      <3> QED
        BY <2>5, <3>1, <3>2 DEF ModifyKey, TypeOK, chainVars, workVars
    <2>6. ASSUME NEW t \in Threads, ModifyReturn(t) PROVE TypeOK'
      <3>1. CASE t = "main"
        <4>1. changeSysctlDone(saved[t]) /\ saved[t] \in Settings
          BY <2>6, <3>1 DEF ModifyReturn, TypeOK
        <4> QED
          BY <2>6, <4>1, ChangeSysctlType DEF ModifyReturn, TypeOK, workVars
      <3>2. CASE t # "main"
        <4>1. resetSysctlDone
          BY <2>6, <3>2 DEF ModifyReturn
        <4> QED
          BY <2>6, <4>1, ResetSysctlType DEF ModifyReturn, TypeOK, workVars
      <3> QED
        BY <3>1, <3>2
    <2>7. ASSUME NEW t \in Threads, ModifyError(t) PROVE TypeOK'
      <3>1. PICK originals \in Settings :
              IF t = "main" THEN changeSysctlDone(originals) ELSE resetSysctlDone
        BY <2>7, ModifyErrorType
      <3>2. /\ used' \in [runs : 0..MaxRuns, updates : 0..MaxUpdates, faults : 0..MaxFaults]
            /\ lost' \subseteq Providers
        BY <2>7, FaultType DEF ModifyError, TypeOK
      <3>3. CASE t = "main"
        <4>1. changeSysctlDone(originals)
          BY <3>1, <3>3
        <4> QED
          BY <2>7, <3>2, <4>1, ChangeSysctlType DEF ModifyError, TypeOK, workVars
      <3>4. CASE t # "main"
        <4>1. resetSysctlDone
          BY <3>1, <3>4
        <4> QED
          BY <2>7, <3>2, <4>1, ResetSysctlType DEF ModifyError, TypeOK, workVars
      <3> QED
        BY <3>3, <3>4
    <2>8. ASSUME NEW t \in Runners, RunCommand(t) PROVE TypeOK'
      <3>1. /\ cmds[t] # <<>> /\ Execute(Head(cmds[t])[1], Head(cmds[t])[2]) /\ Proceed(t)
            /\ cmds' = [cmds EXCEPT ![t] = Tail(cmds[t])]
        BY <2>8 DEF RunCommand
      <3>2. Head(cmds[t])[2] \in Tables
        BY <3>1, NextCommand DEF Commands
      <3>3. /\ chain' \in [Tables -> Seq(MangleRules \cup {Drop})]
            /\ made' \subseteq Tables /\ jump' \subseteq made'
        BY <3>1, <3>2, ExecuteType
      <3> QED
        BY <2>8, <3>1, <3>3, TailType, ProceedType DEF RunCommand, TypeOK, sysVars
    <2>9. ASSUME NEW t \in Runners, CommandError(t) PROVE TypeOK'
      <3>1. /\ used' \in [runs : 0..MaxRuns, updates : 0..MaxUpdates, faults : 0..MaxFaults]
            /\ messy' \subseteq {"kill", "fault", "start", "update"} /\ cmds[t] # <<>>
        BY <2>9, FaultType DEF CommandError, TypeOK
      <3>2. CASE Down /\ lost' = lost \cup {provider}
        BY <3>1, <3>2, DownType DEF Down, TypeOK
      <3>3. CASE /\ cmds' = [cmds EXCEPT ![t] = Tail(cmds[t])]
                 /\ Proceed(t)
                 /\ UNCHANGED <<sysVars, provider, made, chain, jump, lb, lost>>
        BY <3>1, <3>3, TailType, ProceedType DEF TypeOK, sysVars
      <3> QED
        BY <2>9, <3>2, <3>3 DEF CommandError
    <2>10. ASSUME NEW c \in Configs, OnUpdate(c) PROVE TypeOK'
      <3>1. used.updates + 1 \in 0..MaxUpdates
        BY <2>10, NodeAssumption DEF OnUpdate, TypeOK
      <3>2. used' = [used EXCEPT !.updates = used.updates + 1]
        BY <2>10 DEF OnUpdate
      <3>3. used' \in [runs : 0..MaxRuns, updates : 0..MaxUpdates, faults : 0..MaxFaults]
        BY <3>1, <3>2 DEF TypeOK
      <3>4. "worker" \in Runners /\ cmds' = [cmds EXCEPT !["worker"] = Program("worker")]
        BY <2>10 DEF OnUpdate, Program, Runners
      <3>5. messy' \subseteq {"kill", "fault", "start", "update"}
        BY <2>10 DEF OnUpdate, TypeOK
      <3> QED
        BY <2>10, <3>3, <3>4, <3>5, BeginType DEF OnUpdate, TypeOK, sysVars
    <2>11. CASE appendIptablesMark
      <3>1. /\ worker = "reset" /\ left \subseteq Macs /\ lb.ports \subseteq Ports
        BY <2>11 DEF appendIptablesMark, TypeOK, Configs
      <3>2. CASE left = {}
        BY <2>11, <3>1, <3>2 DEF appendIptablesMark, Advance, TypeOK, sysVars
      <3>3. CASE left # {}
        <4>1. PICK m \in left :
                /\ Advance(left \ {m}, "accept", lb.ports)
                /\ \/ chain' = Appended("mangle", Reset(m)) /\ UNCHANGED <<used, messy>>
                   \/ Fault /\ messy' = messy \cup {"fault"} /\ UNCHANGED chain
          BY <2>11, <3>3 DEF appendIptablesMark
        <4>2. Appended("mangle", Reset(m)) \in [Tables -> Seq(MangleRules \cup {Drop})]
          BY <3>1, EnsuredChain DEF MangleRules, Tables
        <4>3. /\ left' \subseteq (Macs \cup Ports) /\ worker' \in {"reset", "accept"}
              /\ worker' = "reset" => left' \subseteq Macs
              /\ worker' = "accept" => left' \subseteq Ports
          BY <3>1, <4>1 DEF Advance
        <4>4. /\ chain' \in [Tables -> Seq(MangleRules \cup {Drop})]
              /\ used' \in [runs : 0..MaxRuns, updates : 0..MaxUpdates, faults : 0..MaxFaults]
              /\ messy' \subseteq {"kill", "fault", "start", "update"}
          BY <4>1, <4>2, FaultType DEF TypeOK
        <4> QED
          BY <2>11, <4>3, <4>4 DEF appendIptablesMark, TypeOK, sysVars
      <3> QED
        BY <3>2, <3>3
    <2>12. CASE prependIptablesMark
      <3>1. worker = "accept" /\ left \subseteq Ports
        BY <2>12 DEF prependIptablesMark, TypeOK
      <3>2. CASE left = {}
        BY <2>12, <3>1, <3>2 DEF prependIptablesMark, Advance, TypeOK, sysVars
      <3>3. CASE left # {}
        <4>1. PICK p \in left :
                \/ /\ Advance(left \ {p}, "drop", {})
                   /\ chain' = Prepended("mangle", Accept(p))
                   /\ UNCHANGED <<used, messy>>
                \/ /\ \E rest \in SUBSET (left \ {p}) : Advance(rest, "drop", {})
                   /\ Fault /\ messy' = messy \cup {"fault"} /\ UNCHANGED chain
          BY <2>12, <3>3 DEF prependIptablesMark
        <4>2. Prepended("mangle", Accept(p)) \in [Tables -> Seq(MangleRules \cup {Drop})]
          BY <3>1, EnsuredChain DEF MangleRules, Tables
        <4>3. left' \subseteq Ports /\ worker' \in {"accept", "drop"}
          BY <3>1, <4>1 DEF Advance
        <4>4. /\ chain' \in [Tables -> Seq(MangleRules \cup {Drop})]
              /\ used' \in [runs : 0..MaxRuns, updates : 0..MaxUpdates, faults : 0..MaxFaults]
              /\ messy' \subseteq {"kill", "fault", "start", "update"}
          BY <4>1, <4>2, FaultType DEF TypeOK
        <4> QED
          BY <2>12, <4>3, <4>4 DEF prependIptablesMark, TypeOK, sysVars
      <3> QED
        BY <3>2, <3>3
    <2>13. CASE ensureIptablesOutputDrop
      <3>1. Appended("filter", Drop) \in [Tables -> Seq(MangleRules \cup {Drop})]
        BY EnsuredChain DEF Tables
      <3>2. /\ chain' \in [Tables -> Seq(MangleRules \cup {Drop})]
            /\ used' \in [runs : 0..MaxRuns, updates : 0..MaxUpdates, faults : 0..MaxFaults]
            /\ messy' \subseteq {"kill", "fault", "start", "update"}
        BY <2>13, <3>1, FaultType DEF ensureIptablesOutputDrop, TypeOK
      <3> QED
        BY <2>13, <3>2 DEF ensureIptablesOutputDrop, TypeOK, sysVars
    <2>14. CASE UNCHANGED vars
      BY <2>14 DEF vars, sysVars, chainVars, workVars, TypeOK
    <2> QED
      BY <2>1, <2>2, <2>3, <2>4, <2>5, <2>6, <2>7, <2>8, <2>9, <2>10, <2>11, <2>12, <2>13, <2>14
         DEF Next
  <1> QED
    BY <1>1, <1>2, PTL DEF Spec

-----------------------------------------------------------------------------
(* Neighbours override ports                                                *)

\* All that ever happens to our chain of the mangle table.
MangleStep ==
    \/ Mangle' = Mangle
    \/ Mangle' = <<>>
    \/ \E m \in Macs : Mangle' = Append(Mangle, Reset(m))
    \/ \E p \in Ports : Mangle' = <<Accept(p)>> \o Mangle

LEMMA MangleSteps ==
    ASSUME TypeOK, [Next]_vars
    PROVE  MangleStep
  <1> USE DEF Mangle
  <1>1. CASE UNCHANGED chain
    BY <1>1 DEF MangleStep
  <1>2. ASSUME NEW t \in Runners, RunCommand(t) PROVE MangleStep
    <2>1. PICK op, u : chain' = IF op = "FlushChain" THEN [chain EXCEPT ![u] = <<>>] ELSE chain
      BY <1>2 DEF RunCommand, Execute
    <2> QED
      BY <2>1 DEF MangleStep, TypeOK, Tables
  <1>3. CASE appendIptablesMark
    <2>1. \/ UNCHANGED chain
          \/ \E m \in left : chain' = Appended("mangle", Reset(m))
      BY <1>3 DEF appendIptablesMark
    <2>2. left \subseteq Macs
      BY <1>3 DEF appendIptablesMark, TypeOK
    <2>3. ASSUME NEW m \in left, chain' = Appended("mangle", Reset(m)) PROVE MangleStep
      BY <2>2, <2>3 DEF Appended, MangleStep, TypeOK, Tables
    <2> QED
      BY <1>1, <2>1, <2>3
  <1>4. CASE prependIptablesMark
    <2>1. \/ UNCHANGED chain
          \/ \E p \in left : chain' = Prepended("mangle", Accept(p))
      BY <1>4 DEF prependIptablesMark
    <2>2. left \subseteq Ports
      BY <1>4 DEF prependIptablesMark, TypeOK
    <2>3. ASSUME NEW p \in left, chain' = Prepended("mangle", Accept(p)) PROVE MangleStep
      BY <2>2, <2>3 DEF Prepended, MangleStep, TypeOK, Tables
    <2> QED
      BY <1>1, <2>1, <2>3
  <1>5. CASE ensureIptablesOutputDrop
    <2>1. chain' = Appended("filter", Drop) \/ chain' = chain
      BY <1>5 DEF ensureIptablesOutputDrop
    <2> QED
      BY <2>1 DEF Appended, MangleStep, TypeOK, Tables
  <1>6. ASSUME NEW p \in Providers, Start(p) PROVE UNCHANGED chain
    BY <1>6 DEF Start, chainVars
  <1>7. CASE Stop
    BY <1>1, <1>7 DEF Stop, chainVars
  <1>8. CASE Exit \/ Kill
    BY <1>1, <1>8 DEF Exit, Kill, Down
  <1>9. ASSUME NEW t \in Threads, NEW k \in Keys, ModifyKey(t, k) PROVE UNCHANGED chain
    BY <1>9 DEF ModifyKey, chainVars
  <1>10. ASSUME NEW t \in Threads, ModifyReturn(t) \/ ModifyError(t) PROVE UNCHANGED chain
    BY <1>10 DEF ModifyReturn, ModifyError
  <1>11. ASSUME NEW t \in Runners, CommandError(t) PROVE UNCHANGED chain
    BY <1>11 DEF CommandError, Down
  <1>12. ASSUME NEW c \in Configs, OnUpdate(c) PROVE UNCHANGED chain
    BY <1>12 DEF OnUpdate
  <1>13. CASE UNCHANGED vars
    BY <1>1, <1>13 DEF vars, chainVars
  <1> QED
    BY <1>1, <1>2, <1>3, <1>4, <1>5, <1>6, <1>7, <1>8, <1>9, <1>10, <1>11, <1>12, <1>13 DEF Next

\* Whatever fails, overlaps or is left over from earlier runs, the rules that mark a
\* neighbour's traffic 0 stay below those that mark a port's 1, so that LVS never
\* takes up what a neighbour has already handled.
THEOREM NeighborsOverrideCorrect == Spec => []NeighborsOverride
  <1>1. Init => NeighborsOverride
    BY DEF Init, NeighborsOverride, Mangle, Tables
  <1>2. TypeOK /\ NeighborsOverride /\ [Next]_vars => NeighborsOverride'
    <2> SUFFICES ASSUME TypeOK, NeighborsOverride, [Next]_vars PROVE NeighborsOverride'
      OBVIOUS
    <2>1. Mangle \in Seq(MangleRules \cup {Drop})
      BY DEF TypeOK, Mangle, Tables
    <2>2. MangleStep
      BY MangleSteps
    <2>3. ASSUME NEW m \in Macs, Mangle' = Append(Mangle, Reset(m)) PROVE NeighborsOverride'
      <3>1. \A i \in DOMAIN Mangle' : \/ i \in DOMAIN Mangle /\ Mangle'[i] = Mangle[i]
                                      \/ i = Len(Mangle) + 1 /\ Mangle'[i] = Reset(m)
        BY <2>1, <2>3
      <3>2. Reset(m)[1] # 1
        BY DEF Reset
      <3> QED
        BY <2>1, <3>1, <3>2 DEF NeighborsOverride
    <2>4. ASSUME NEW p \in Ports, Mangle' = <<Accept(p)>> \o Mangle PROVE NeighborsOverride'
      <3>1. \A i \in DOMAIN Mangle' : \/ i - 1 \in DOMAIN Mangle /\ Mangle'[i] = Mangle[i - 1]
                                      \/ i = 1 /\ Mangle'[i] = Accept(p)
        BY <2>1, <2>4
      <3>2. Accept(p)[1] # 0
        BY DEF Accept
      <3>3. DOMAIN Mangle' \subseteq Int
        BY <2>1, <2>4
      <3> QED
        BY <2>1, <3>1, <3>2, <3>3 DEF NeighborsOverride
    <2>5. CASE Mangle' = Mangle
      BY <2>5 DEF NeighborsOverride
    <2>6. CASE Mangle' = <<>>
      BY <2>6 DEF NeighborsOverride
    <2> QED
      BY <2>2, <2>3, <2>4, <2>5, <2>6 DEF MangleStep
  <1> QED
    BY <1>1, <1>2, TypeCorrect, PTL DEF Spec

-----------------------------------------------------------------------------
(* Where the threads are                                                    *)

\* How the positions of the threads hang together: who has commands left to run, and
\* that OnUpdate runs only once ipvsdr is up.
Where ==
    /\ main = "off" => stop = "off"
    /\ worker # "off" => main = "up" /\ provider = "ipvsdr"
    /\ worker = "off" => lb = NoConfig
    /\ provider = "ingress" => main # "chain" /\ stop # "chain"
    /\ cmds["main"] # <<>> <=> main = "chain"
    /\ cmds["stop"] # <<>> <=> stop = "chain"
    /\ cmds["worker"] # <<>> <=> worker = "flush"

LEMMA WhereDown ==
    ASSUME TypeOK, Down
    PROVE  Where'
  <1>1. \A t \in Runners : cmds'[t] = <<>>
    BY DownType
  <1> QED
    BY <1>1 DEF Where, Down, Runners, Threads

\* A thread of ipvsdr takes its next command and goes on.
LEMMA WhereProceed ==
    ASSUME TypeOK, Where, NEW t \in Runners, cmds[t] # <<>>,
           cmds' = [cmds EXCEPT ![t] = Tail(cmds[t])], Proceed(t), UNCHANGED <<provider, lb>>
    PROVE  Where'
  <1>1. cmds'[t] = Tail(cmds[t]) /\ \A u \in Runners \ {t} : cmds'[u] = cmds[u]
    BY TailType
  <1>2. t \in {"main", "stop", "worker"} /\ Runners = {"main", "stop", "worker"}
    BY DEF Runners, Threads
  <1>3. provider \in Providers
    BY DEF TypeOK
  <1>4. CASE t = "main"
    <2>1. cmds'["stop"] = cmds["stop"] /\ cmds'["worker"] = cmds["worker"]
      BY <1>1, <1>2, <1>4
    <2> QED
      BY <1>1, <1>3, <1>4, <2>1 DEF Where, Proceed, Providers
  <1>5. CASE t = "stop"
    <2>1. cmds'["main"] = cmds["main"] /\ cmds'["worker"] = cmds["worker"]
      BY <1>1, <1>2, <1>5
    <2> QED
      BY <1>1, <1>3, <1>5, <2>1 DEF Where, Proceed, Providers
  <1>6. CASE t = "worker"
    <2>1. cmds'["main"] = cmds["main"] /\ cmds'["stop"] = cmds["stop"]
      BY <1>1, <1>2, <1>6
    <2> QED
      BY <1>1, <1>3, <1>6, <2>1 DEF Where, Proceed, Providers
  <1> QED
    BY <1>2, <1>4, <1>5, <1>6

LEMMA WhereChangeSysctl ==
    ASSUME TypeOK, Where, main = "sysctl", NEW f, changeSysctlDone(f), UNCHANGED workVars
    PROVE  Where'
  <1>1. /\ provider' = provider /\ stop' = stop /\ worker' = worker /\ lb' = lb
        /\ main' = IF provider = "ipvsdr" THEN "chain" ELSE "up"
    BY DEF changeSysctlDone, workVars
  <1>2. CASE provider = "ipvsdr"
    <2>1. cmds' = [cmds EXCEPT !["main"] = Program("main")] /\ "main" \in Runners
      BY <1>2 DEF changeSysctlDone, Program, Runners, Threads
    <2>2. cmds'["main"] # <<>> /\ \A u \in Runners \ {"main"} : cmds'[u] = cmds[u]
      BY <2>1, BeginType
    <2>3. cmds'["stop"] = cmds["stop"] /\ cmds'["worker"] = cmds["worker"]
      BY <2>2 DEF Runners, Threads
    <2> QED
      BY <1>1, <1>2, <2>2, <2>3 DEF Where
  <1>3. CASE provider # "ipvsdr"
    BY <1>1, <1>3 DEF Where, changeSysctlDone
  <1> QED
    BY <1>2, <1>3

LEMMA WhereResetSysctl ==
    ASSUME TypeOK, Where, stop = "reset", resetSysctlDone, UNCHANGED workVars
    PROVE  Where'
  <1>1. /\ provider' = provider /\ main' = main /\ worker' = worker /\ lb' = lb
        /\ stop' = IF provider = "ipvsdr" THEN "chain" ELSE "exit"
    BY DEF resetSysctlDone, workVars
  <1>2. CASE provider = "ipvsdr"
    <2>1. cmds' = [cmds EXCEPT !["stop"] = Program("stop")] /\ "stop" \in Runners
      BY <1>2 DEF resetSysctlDone, Program, Runners, Threads
    <2>2. cmds'["stop"] # <<>> /\ \A u \in Runners \ {"stop"} : cmds'[u] = cmds[u]
      BY <2>1, BeginType
    <2>3. cmds'["main"] = cmds["main"] /\ cmds'["worker"] = cmds["worker"]
      BY <2>2 DEF Runners, Threads
    <2> QED
      BY <1>1, <1>2, <2>2, <2>3 DEF Where
  <1>3. CASE provider # "ipvsdr"
    BY <1>1, <1>3 DEF Where, resetSysctlDone
  <1> QED
    BY <1>2, <1>3

LEMMA WhereCorrect == Spec => []Where
  <1>1. Init => Where
    BY DEF Init, Where, Runners, Threads
  <1>2. TypeOK /\ Where /\ [Next]_vars => Where'
    <2> SUFFICES ASSUME TypeOK, Where, [Next]_vars PROVE Where'
      OBVIOUS
    <2>1. ASSUME NEW p \in Providers, Start(p) PROVE Where'
      BY <2>1 DEF Start, Where, chainVars, workVars
    <2>2. CASE Stop
      BY <2>2 DEF Stop, Where, chainVars, workVars
    <2>3. CASE Exit \/ Kill
      BY <2>3, WhereDown DEF Exit, Kill
    <2>4. ASSUME NEW t \in Threads, NEW k \in Keys, ModifyKey(t, k) PROVE Where'
      BY <2>4 DEF ModifyKey, Where, chainVars, workVars
    <2>5. ASSUME NEW t \in Threads, ModifyReturn(t) \/ ModifyError(t) PROVE Where'
      <3>1. /\ UNCHANGED workVars
            /\ \E f : IF t = "main" THEN changeSysctlDone(f) ELSE resetSysctlDone
        BY <2>5, ModifyErrorType DEF ModifyReturn, ModifyError
      <3>2. IF t = "main" THEN main = "sysctl" ELSE stop = "reset"
        BY <2>5 DEF ModifyReturn, ModifyError, Modifying
      <3> QED
        BY <3>1, <3>2, WhereChangeSysctl, WhereResetSysctl
    <2>6. ASSUME NEW t \in Runners, RunCommand(t) PROVE Where'
      BY <2>6, WhereProceed DEF RunCommand
    <2>7. ASSUME NEW t \in Runners, CommandError(t) PROVE Where'
      BY <2>7, WhereProceed, WhereDown DEF CommandError
    <2>8. ASSUME NEW c \in Configs, OnUpdate(c) PROVE Where'
      <3>1. "worker" \in Runners /\ cmds' = [cmds EXCEPT !["worker"] = Program("worker")]
        BY <2>8 DEF OnUpdate, Program, Runners
      <3>2. cmds'["worker"] # <<>> /\ \A u \in Runners \ {"worker"} : cmds'[u] = cmds[u]
        BY <3>1, BeginType
      <3>3. cmds'["main"] = cmds["main"] /\ cmds'["stop"] = cmds["stop"]
        BY <3>2 DEF Runners, Threads
      <3> QED
        BY <2>8, <3>2, <3>3 DEF OnUpdate, Where
    <2>9. CASE appendIptablesMark
      <3>1. /\ worker = "reset" /\ worker' \in {"reset", "accept"}
            /\ UNCHANGED <<provider, main, stop, cmds, lb>>
        BY <2>9 DEF appendIptablesMark, Advance
      <3> QED
        BY <3>1 DEF Where
    <2>10. CASE prependIptablesMark
      <3>1. /\ worker = "accept" /\ worker' \in {"accept", "drop"}
            /\ UNCHANGED <<provider, main, stop, cmds, lb>>
        BY <2>10 DEF prependIptablesMark, Advance
      <3> QED
        BY <3>1 DEF Where
    <2>11. CASE ensureIptablesOutputDrop
      BY <2>11 DEF ensureIptablesOutputDrop, Where
    <2>12. CASE UNCHANGED vars
      BY <2>12 DEF vars, sysVars, chainVars, workVars, Where
    <2> QED
      BY <2>1, <2>2, <2>3, <2>4, <2>5, <2>6, <2>7, <2>8, <2>9, <2>10, <2>11, <2>12 DEF Next
  <1> QED
    BY <1>1, <1>2, TypeCorrect, PTL DEF Spec

-----------------------------------------------------------------------------
(* Kernel parameters                                                        *)

\* The process handles the parameters of its own provider only.
OwnKeys ==
    /\ DOMAIN default \subseteq Adjusts[provider]
    /\ \A t \in Threads : /\ DOMAIN todo[t] \subseteq Adjusts[provider]
                          /\ DOMAIN saved[t] \subseteq Adjusts[provider]
    /\ main = "off" => /\ DOMAIN default = {}
                       /\ \A t \in Threads : DOMAIN todo[t] = {} /\ DOMAIN saved[t] = {}

\* What has become of a parameter of a provider that is not lost: it has its original
\* value, or the original is where the next step looks for it.
Recoverable(k) ==
    /\ main = "sysctl" =>
        /\ stop = "off"
        /\ IF k \in DOMAIN todo["main"] THEN sys[k] = "orig" ELSE k \in DOMAIN saved["main"]
        /\ k \in DOMAIN saved["main"] => saved["main"][k] = "orig"
    /\ (main # "sysctl" /\ stop = "off") =>
        IF k \in DOMAIN default THEN default[k] = "orig" ELSE sys[k] = "orig"
    /\ stop = "reset" =>
        IF k \in DOMAIN todo["stop"] THEN todo["stop"][k] = "orig" ELSE sys[k] = "orig"
    /\ stop \in {"chain", "exit"} => sys[k] = "orig"

Accounted(p, k) == IF p = provider /\ main # "off" THEN Recoverable(k) ELSE sys[k] = "orig"

SysInv == OwnKeys /\ \A p \in Providers \ lost : \A k \in Adjusts[p] : Accounted(p, k)

\* No parameter belongs to both providers.
LEMMA AdjustsApart ==
    ASSUME NEW p \in Providers, NEW q \in Providers, p # q
    PROVE  Adjusts[p] \cap Adjusts[q] = {} /\ Adjusts[p] \subseteq Keys
  BY NodeAssumption DEF Providers

\* A step that leaves the parameters alone, at most ending the commands of Start or
\* of Stop.
LEMMA SysKept ==
    ASSUME TypeOK, SysInv, UNCHANGED <<sysVars, provider, lost>>,
           main' = main \/ (main = "chain" /\ main' = "up"),
           stop' = stop \/ (stop = "chain" /\ stop' = "exit")
    PROVE  SysInv'
  <1>1. OwnKeys'
    BY DEF SysInv, OwnKeys, sysVars
  <1>2. ASSUME NEW p \in Providers, NEW k \in Adjusts[p], Accounted(p, k) PROVE Accounted(p, k)'
    BY <1>2 DEF Accounted, Recoverable, sysVars
  <1> QED
    BY <1>1, <1>2 DEF SysInv

\* The end of the process, by itself when everything is reset, or as one whose values
\* are lost.
LEMMA SysDown ==
    ASSUME TypeOK, SysInv, Down, main # "off",
           (stop = "exit" /\ lost' = lost) \/ lost' = lost \cup {provider}
    PROVE  SysInv'
  <1>1. OwnKeys'
    BY NoSettingsType DEF Down, OwnKeys
  <1>2. sys' = sys /\ main' = "off"
    BY DEF Down
  <1>3. ASSUME NEW p \in Providers \ lost', NEW k \in Adjusts[p] PROVE sys[k] = "orig"
    <2>1. Accounted(p, k)
      BY DEF SysInv
    <2> QED
      BY <2>1 DEF Accounted, Recoverable
  <1> QED
    BY <1>1, <1>2, <1>3 DEF SysInv, Accounted

\* changeSysctl ends: the originals of all keys that it may have set are remembered.
LEMMA SysChange ==
    ASSUME TypeOK, SysInv, main = "sysctl", NEW f \in Settings, changeSysctlDone(f),
           DOMAIN saved["main"] \subseteq DOMAIN f,
           \A x \in DOMAIN f : \/ x \in DOMAIN saved["main"] /\ f[x] = saved["main"][x]
                               \/ x \in DOMAIN todo["main"] /\ f[x] = sys[x],
           UNCHANGED <<sys, lost>>
    PROVE  SysInv'
  <1>1. /\ default' = f /\ main' \in {"chain", "up"} /\ stop' = stop /\ provider' = provider
        /\ BulkModify("main", NoSettings)
    BY DEF changeSysctlDone
  <1>2. /\ todo'["main"] = NoSettings /\ saved'["main"] = NoSettings
        /\ todo'["stop"] = todo["stop"] /\ saved'["stop"] = saved["stop"]
    BY <1>1, BulkModifyType, NoSettingsType DEF Threads
  <1>3. OwnKeys'
    <2>1. DOMAIN f \subseteq Adjusts[provider]
      BY DEF SysInv, OwnKeys, Threads
    <2> QED
      BY <1>1, <1>2, <2>1, NoSettingsType DEF SysInv, OwnKeys, Threads
  <1>4. ASSUME NEW p \in Providers \ lost, NEW k \in Adjusts[p] PROVE Accounted(p, k)'
    <2>1. Accounted(p, k)
      BY DEF SysInv
    <2>2. CASE p = provider
      <3>1. Recoverable(k)
        BY <2>1, <2>2 DEF Accounted
      <3>2. /\ stop = "off"
            /\ IF k \in DOMAIN f THEN f[k] = "orig" ELSE sys[k] = "orig"
        BY <3>1 DEF Recoverable
      <3> QED
        BY <1>1, <2>2, <3>2 DEF Accounted, Recoverable
    <2>3. CASE p # provider
      BY <1>1, <2>1, <2>3 DEF Accounted
    <2> QED
      BY <2>2, <2>3
  <1> QED
    BY <1>3, <1>4 DEF SysInv

\* resetSysctl ends: everything is reset, or the values are lost.
LEMMA SysReset ==
    ASSUME TypeOK, SysInv, stop = "reset", resetSysctlDone, sys' = sys,
           (DOMAIN todo["stop"] = {} /\ lost' = lost) \/ lost' = lost \cup {provider}
    PROVE  SysInv'
  <1>1. /\ default' = default /\ main' = main /\ stop' \in {"chain", "exit"}
        /\ provider' = provider /\ BulkModify("stop", NoSettings)
    BY DEF resetSysctlDone
  <1>2. /\ todo'["stop"] = NoSettings /\ saved'["stop"] = NoSettings
        /\ todo'["main"] = todo["main"] /\ saved'["main"] = saved["main"]
    BY <1>1, BulkModifyType, NoSettingsType DEF Threads
  <1>3. OwnKeys'
    BY <1>1, <1>2, NoSettingsType DEF SysInv, OwnKeys, Threads
  <1>4. ASSUME NEW p \in Providers \ lost', NEW k \in Adjusts[p] PROVE Accounted(p, k)'
    <2>1. Accounted(p, k)
      BY DEF SysInv
    <2> QED
      BY <1>1, <2>1 DEF Accounted, Recoverable
  <1> QED
    BY <1>3, <1>4 DEF SysInv

\* A key is saved, then set.
LEMMA SysModifyKey ==
    ASSUME TypeOK, SysInv, NEW t \in Threads, NEW k0 \in Keys, ModifyKey(t, k0)
    PROVE  SysInv'
  <1>1. /\ k0 \in DOMAIN todo[t] /\ sys' = [sys EXCEPT ![k0] = todo[t][k0]]
        /\ DOMAIN todo'[t] = DOMAIN todo[t] \ {k0}
        /\ \A x \in DOMAIN todo'[t] : todo'[t][x] = todo[t][x]
        /\ DOMAIN saved'[t] = DOMAIN saved[t] \cup {k0}
        /\ saved'[t][k0] = sys[k0]
        /\ \A x \in DOMAIN saved[t] \ {k0} : saved'[t][x] = saved[t][x]
        /\ \A u \in Threads \ {t} : todo'[u] = todo[u] /\ saved'[u] = saved[u]
    BY ModifyKeyType
  <1>2. UNCHANGED <<default, provider, main, stop, lost>>
    BY DEF ModifyKey
  <1>3. IF t = "main" THEN main = "sysctl" ELSE stop = "reset"
    BY DEF ModifyKey, Modifying
  <1>4. k0 \in Adjusts[provider] /\ main # "off"
    BY <1>1 DEF SysInv, OwnKeys
  <1>5. OwnKeys'
    <2>1. \A u \in Threads : /\ DOMAIN todo'[u] \subseteq Adjusts[provider]
                             /\ DOMAIN saved'[u] \subseteq Adjusts[provider]
      BY <1>1, <1>4 DEF SysInv, OwnKeys
    <2> QED
      BY <1>2, <1>4, <2>1 DEF SysInv, OwnKeys
  <1>6. ASSUME NEW p \in Providers \ lost, NEW k \in Adjusts[p] PROVE Accounted(p, k)'
    <2>1. Accounted(p, k) /\ provider \in Providers
      BY DEF SysInv, TypeOK
    <2>2. CASE p # provider
      <3>1. k # k0 /\ k \in Keys
        BY <1>4, <2>1, <2>2, AdjustsApart
      <3> QED
        BY <1>1, <1>2, <2>1, <2>2, <3>1 DEF Accounted, TypeOK
    <2>3. CASE p = provider /\ t = "main"
      <3>1. Recoverable(k) /\ main = "sysctl" /\ "stop" \in Threads \ {t} /\ k \in Keys
        BY <1>3, <1>4, <2>1, <2>3, NodeAssumption DEF Accounted, Threads
      <3>2. /\ IF k \in DOMAIN todo'["main"] THEN sys'[k] = "orig" ELSE k \in DOMAIN saved'["main"]
            /\ k \in DOMAIN saved'["main"] => saved'["main"][k] = "orig"
            /\ stop = "off"
        BY <1>1, <2>3, <3>1 DEF Recoverable, TypeOK
      <3> QED
        BY <1>2, <1>4, <2>3, <3>1, <3>2 DEF Accounted, Recoverable
    <2>4. CASE p = provider /\ t = "stop"
      <3>1. Recoverable(k) /\ stop = "reset" /\ k \in Keys
        BY <1>3, <1>4, <2>1, <2>4, NodeAssumption DEF Accounted, Threads
      <3>2. /\ IF k \in DOMAIN todo'["stop"] THEN todo'["stop"][k] = "orig" ELSE sys'[k] = "orig"
            /\ main # "sysctl"
        BY <1>1, <2>4, <3>1 DEF Recoverable, TypeOK
      <3> QED
        BY <1>2, <1>4, <2>4, <3>1, <3>2 DEF Accounted, Recoverable
    <2> QED
      BY <2>2, <2>3, <2>4 DEF Threads
  <1> QED
    BY <1>2, <1>5, <1>6 DEF SysInv

LEMMA SysInvCorrect == Spec => []SysInv
  <1>1. Init => SysInv
    <2> SUFFICES ASSUME Init PROVE SysInv
      OBVIOUS
    <2>1. OwnKeys
      BY NoSettingsType DEF Init, OwnKeys
    <2>2. \A p \in Providers : \A k \in Adjusts[p] : sys[k] = "orig"
      BY NodeAssumption DEF Init
    <2> QED
      BY <2>1, <2>2 DEF Init, SysInv, Accounted
  <1>2. TypeOK /\ Where /\ SysInv /\ [Next]_vars => SysInv'
    <2> SUFFICES ASSUME TypeOK, Where, SysInv, [Next]_vars PROVE SysInv'
      OBVIOUS
    <2>1. ASSUME NEW p \in Providers, Start(p) PROVE SysInv'
      <3> DEFINE f == [k \in Adjusts[p] |-> "adjusted"]
      <3>1. f \in Settings /\ DOMAIN f = Adjusts[p]
        BY NodeAssumption DEF Settings, Values
      <3>2. /\ main = "off" /\ BulkModify("main", f) /\ main' = "sysctl" /\ provider' = p
            /\ UNCHANGED <<sys, default, stop, lost>>
        BY <2>1 DEF Start
      <3> HIDE DEF f
      <3>3. /\ todo'["main"] = f /\ saved'["main"] = NoSettings
            /\ todo'["stop"] = todo["stop"] /\ saved'["stop"] = saved["stop"]
        BY <3>1, <3>2, BulkModifyType DEF Threads
      <3>4. OwnKeys'
        BY <3>1, <3>2, <3>3, NoSettingsType DEF SysInv, OwnKeys, Threads
      <3>5. ASSUME NEW q \in Providers \ lost, NEW k \in Adjusts[q] PROVE Accounted(q, k)'
        <4>1. sys[k] = "orig"
          BY <3>2 DEF SysInv, Accounted
        <4> QED
          BY <3>1, <3>2, <3>3, <4>1, NoSettingsType DEF Accounted, Recoverable, Where
      <3> QED
        BY <3>2, <3>4, <3>5 DEF SysInv
    <2>2. CASE Stop
      <3>1. /\ main # "off" /\ stop = "off" /\ stop' = "reset" /\ BulkModify("stop", default)
            /\ lost' = IF main = "sysctl" THEN lost \cup {provider} ELSE lost
            /\ UNCHANGED <<sys, default, provider, main>>
        BY <2>2 DEF Stop
      <3>2. /\ todo'["stop"] = default /\ saved'["stop"] = NoSettings
            /\ todo'["main"] = todo["main"] /\ saved'["main"] = saved["main"]
        BY <3>1, BulkModifyType DEF Threads, TypeOK
      <3>3. OwnKeys'
        BY <3>1, <3>2, NoSettingsType DEF SysInv, OwnKeys, Threads
      <3>4. ASSUME NEW p \in Providers \ lost', NEW k \in Adjusts[p] PROVE Accounted(p, k)'
        <4>1. Accounted(p, k)
          BY <3>1 DEF SysInv
        <4> QED
          BY <3>1, <3>2, <4>1 DEF Accounted, Recoverable
      <3> QED
        BY <3>3, <3>4 DEF SysInv
    <2>3. CASE Exit
      BY <2>3, SysDown DEF Exit, Where
    <2>4. CASE Kill
      BY <2>4, SysDown DEF Kill
    <2>5. ASSUME NEW t \in Threads, NEW k \in Keys, ModifyKey(t, k) PROVE SysInv'
      BY <2>5, SysModifyKey
    <2>6. ASSUME NEW t \in Threads, ModifyReturn(t) PROVE SysInv'
      <3>1. CASE t = "main"
        <4>1. changeSysctlDone(saved["main"]) /\ main = "sysctl" /\ saved["main"] \in Settings
          BY <2>6, <3>1 DEF ModifyReturn, Modifying, TypeOK
        <4> QED
          BY <2>6, <4>1, SysChange DEF ModifyReturn
      <3>2. CASE t = "stop"
        <4>1. resetSysctlDone /\ stop = "reset" /\ todo["stop"] = NoSettings
          BY <2>6, <3>2 DEF ModifyReturn, Modifying
        <4> QED
          BY <2>6, <4>1, SysReset, NoSettingsType DEF ModifyReturn
      <3> QED
        BY <3>1, <3>2 DEF Threads
    <2>7. ASSUME NEW t \in Threads, ModifyError(t) PROVE SysInv'
      <3>1. PICK k \in DOMAIN todo[t], f \in Settings :
              /\ f = saved[t] \/ f = With(saved[t], k, sys[k])
              /\ IF t = "main" THEN changeSysctlDone(f) ELSE resetSysctlDone
        BY <2>7, ModifyErrorType
      <3>2. CASE t = "main"
        <4>1. changeSysctlDone(f) /\ main = "sysctl" /\ UNCHANGED <<sys, lost>>
          BY <2>7, <3>1, <3>2 DEF ModifyError, Modifying
        <4>4. CASE f = saved["main"]
          BY <4>1, <4>4, SysChange
        <4>5. CASE f = With(saved["main"], k, sys[k])
          <5>1. /\ DOMAIN f = DOMAIN saved["main"] \cup {k} /\ f[k] = sys[k]
                /\ \A x \in DOMAIN saved["main"] \ {k} : f[x] = saved["main"][x]
            BY <4>5 DEF With
          <5>2. /\ DOMAIN saved["main"] \subseteq DOMAIN f
                /\ \A x \in DOMAIN f : \/ x \in DOMAIN saved["main"] /\ f[x] = saved["main"][x]
                                       \/ x \in DOMAIN todo["main"] /\ f[x] = sys[x]
            BY <3>2, <5>1
          <5> QED
            BY <4>1, <5>2, SysChange
        <4> QED
          BY <3>1, <3>2, <4>4, <4>5
      <3>3. CASE t = "stop"
        <4>1. resetSysctlDone /\ stop = "reset" /\ sys' = sys /\ lost' = lost \cup {provider}
          BY <2>7, <3>1, <3>3 DEF ModifyError, Modifying
        <4> QED
          BY <4>1, SysReset
      <3> QED
        BY <3>2, <3>3 DEF Threads
    <2>8. ASSUME NEW t \in Runners, RunCommand(t) PROVE SysInv'
      <3>1. /\ main' = main \/ (main = "chain" /\ main' = "up")
            /\ stop' = stop \/ (stop = "chain" /\ stop' = "exit")
        BY <2>8 DEF RunCommand, Proceed, Where
      <3> QED
        BY <2>8, <3>1, SysKept DEF RunCommand
    <2>9. ASSUME NEW t \in Runners, CommandError(t) PROVE SysInv'
      <3>1. CASE Down /\ lost' = lost \cup {provider}
        <4>1. main # "off"
          BY <2>9 DEF CommandError, Where, Runners, Threads
        <4> QED
          BY <3>1, <4>1, SysDown
      <3>2. CASE Proceed(t) /\ UNCHANGED <<sysVars, provider, lost>>
        <4>1. /\ main' = main \/ (main = "chain" /\ main' = "up")
              /\ stop' = stop \/ (stop = "chain" /\ stop' = "exit")
          BY <2>9, <3>2 DEF CommandError, Proceed, Where
        <4> QED
          BY <3>2, <4>1, SysKept
      <3> QED
        BY <2>9, <3>1, <3>2 DEF CommandError
    <2>10. ASSUME NEW c \in Configs, OnUpdate(c) PROVE SysInv'
      BY <2>10, SysKept DEF OnUpdate
    <2>11. CASE appendIptablesMark
      BY <2>11, SysKept DEF appendIptablesMark
    <2>12. CASE prependIptablesMark
      BY <2>12, SysKept DEF prependIptablesMark
    <2>13. CASE ensureIptablesOutputDrop
      BY <2>13, SysKept DEF ensureIptablesOutputDrop
    <2>14. CASE UNCHANGED vars
      BY <2>14, SysKept DEF vars
    <2> QED
      BY <2>1, <2>2, <2>3, <2>4, <2>5, <2>6, <2>7, <2>8, <2>9, <2>10, <2>11, <2>12, <2>13, <2>14
         DEF Next
  <1> QED
    BY <1>1, <1>2, TypeCorrect, WhereCorrect, PTL DEF Spec

\* When no process runs, every kernel parameter has the value it had before the
\* providers touched it, also when changeSysctl failed half-way; exempt are providers
\* that were killed, stopped inside changeSysctl or failed to reset.
THEOREM RestoredCorrect == Spec => []Restored
  <1>1. SysInv => Restored
    BY DEF SysInv, Accounted, Restored
  <1> QED
    BY <1>1, SysInvCorrect, PTL

-----------------------------------------------------------------------------
(* What the commands do                                                     *)

\* The next command of a thread, by the number of those that are left.
LEMMA CommandOf ==
    ASSUME TypeOK, NEW t \in Runners, RunCommand(t)
    PROVE  LET p == Program(t)
               n == Len(cmds[t])
           IN /\ n \in 1..Len(p)
              /\ Execute(p[Len(p) - n + 1][1], p[Len(p) - n + 1][2])
              /\ Len(cmds'[t]) = n - 1
              /\ \A u \in Runners \ {t} : cmds'[u] = cmds[u]
  <1>1. /\ cmds[t] # <<>> /\ Execute(Head(cmds[t])[1], Head(cmds[t])[2])
        /\ cmds' = [cmds EXCEPT ![t] = Tail(cmds[t])]
    BY DEF RunCommand
  <1>2. cmds'[t] = Tail(cmds[t]) /\ \A u \in Runners \ {t} : cmds'[u] = cmds[u]
    BY <1>1, TailType
  <1> QED
    BY <1>1, <1>2, NextCommand

\* ensureChain never takes a chain away.
LEMMA MainCommand ==
    ASSUME TypeOK, RunCommand("main")
    PROVE  /\ Len(cmds["main"]) \in 1..4 /\ Len(cmds'["main"]) = Len(cmds["main"]) - 1
           /\ cmds'["stop"] = cmds["stop"] /\ cmds'["worker"] = cmds["worker"]
           /\ chain' = chain /\ made \subseteq made'
           /\ Len(cmds["main"]) = 4 => "mangle" \in made'
  <1> DEFINE n == Len(cmds["main"])
  <1>1. /\ n \in 1..4 /\ Execute(ensureChain[5 - n][1], ensureChain[5 - n][2])
        /\ Len(cmds'["main"]) = n - 1
        /\ \A u \in Runners \ {"main"} : cmds'[u] = cmds[u]
    <2>1. "main" \in Runners /\ Program("main") = ensureChain /\ Len(ensureChain) = 4
      BY Programs DEF Program, Runners, Threads
    <2>2. /\ n \in 1..4 /\ Execute(ensureChain[4 - n + 1][1], ensureChain[4 - n + 1][2])
          /\ Len(cmds'["main"]) = n - 1
          /\ \A u \in Runners \ {"main"} : cmds'[u] = cmds[u]
      BY <2>1, CommandOf
    <2>3. 4 - n + 1 = 5 - n
      BY <2>2
    <2> QED
      BY <2>2, <2>3
  <1>2. cmds'["stop"] = cmds["stop"] /\ cmds'["worker"] = cmds["worker"]
    BY <1>1 DEF Runners, Threads
  <1> HIDE DEF n
  <1>3. CASE n = 4
    <2>1. Execute("EnsureChain", "mangle")
      BY <1>1, <1>3, Programs
    <2> QED
      BY <1>1, <1>2, <1>3, <2>1 DEF Execute, n
  <1>4. CASE n = 3
    <2>1. Execute("EnsureRule", "mangle")
      BY <1>1, <1>4, Programs
    <2> QED
      BY <1>1, <1>2, <1>4, <2>1 DEF Execute, n
  <1>5. CASE n = 2
    <2>1. Execute("EnsureChain", "filter")
      BY <1>1, <1>5, Programs
    <2> QED
      BY <1>1, <1>2, <1>5, <2>1 DEF Execute, n
  <1>6. CASE n = 1
    <2>1. Execute("EnsureRule", "filter")
      BY <1>1, <1>6, Programs
    <2> QED
      BY <1>1, <1>2, <1>6, <2>1 DEF Execute, n
  <1> QED
    BY <1>1, <1>3, <1>4, <1>5, <1>6

\* deleteChain takes the jump away before the chain, and a chain in use or with rules
\* is not deleted.
LEMMA StopCommand ==
    ASSUME TypeOK, RunCommand("stop")
    PROVE  LET n == Len(cmds["stop"]) IN
           /\ n \in 1..6 /\ Len(cmds'["stop"]) = n - 1
           /\ cmds'["main"] = cmds["main"] /\ cmds'["worker"] = cmds["worker"]
           /\ made' \subseteq made /\ jump' \subseteq jump
           /\ \A t \in Tables : chain'[t] = chain[t] \/ chain'[t] = <<>>
           /\ n = 6 => chain'["mangle"] = <<>>
           /\ n = 5 => chain'["filter"] = <<>>
           /\ n = 4 => "mangle" \notin jump'
           /\ (n = 3 /\ chain["mangle"] = <<>> /\ "mangle" \notin jump) => "mangle" \notin made'
           /\ n = 2 => "filter" \notin jump'
           /\ (n = 1 /\ chain["filter"] = <<>> /\ "filter" \notin jump) => "filter" \notin made'
  <1> DEFINE n == Len(cmds["stop"])
  <1>1. /\ n \in 1..6 /\ Execute(deleteChain[7 - n][1], deleteChain[7 - n][2])
        /\ Len(cmds'["stop"]) = n - 1
        /\ \A u \in Runners \ {"stop"} : cmds'[u] = cmds[u]
    <2>1. "stop" \in Runners /\ Program("stop") = deleteChain /\ Len(deleteChain) = 6
      BY Programs DEF Program, Runners, Threads
    <2>2. /\ n \in 1..6 /\ Execute(deleteChain[6 - n + 1][1], deleteChain[6 - n + 1][2])
          /\ Len(cmds'["stop"]) = n - 1
          /\ \A u \in Runners \ {"stop"} : cmds'[u] = cmds[u]
      BY <2>1, CommandOf
    <2>3. 6 - n + 1 = 7 - n
      BY <2>2
    <2> QED
      BY <2>2, <2>3
  <1>2. cmds'["main"] = cmds["main"] /\ cmds'["worker"] = cmds["worker"]
    BY <1>1 DEF Runners, Threads
  <1>3. chain \in [Tables -> Seq(MangleRules \cup {Drop})]
    BY DEF TypeOK
  <1> HIDE DEF n
  <1> DEFINE Effect ==
           /\ made' \subseteq made /\ jump' \subseteq jump
           /\ \A t \in Tables : chain'[t] = chain[t] \/ chain'[t] = <<>>
           /\ n = 6 => chain'["mangle"] = <<>>
           /\ n = 5 => chain'["filter"] = <<>>
           /\ n = 4 => "mangle" \notin jump'
           /\ (n = 3 /\ chain["mangle"] = <<>> /\ "mangle" \notin jump) => "mangle" \notin made'
           /\ n = 2 => "filter" \notin jump'
           /\ (n = 1 /\ chain["filter"] = <<>> /\ "filter" \notin jump) => "filter" \notin made'
  <1>4. ASSUME n = 6 PROVE Effect
    <2>1. Execute("FlushChain", "mangle")
      BY <1>1, <1>4, Programs
    <2> QED
      BY <1>3, <1>4, <2>1 DEF Execute, Tables
  <1>5. ASSUME n = 5 PROVE Effect
    <2>1. Execute("FlushChain", "filter")
      BY <1>1, <1>5, Programs
    <2> QED
      BY <1>3, <1>5, <2>1 DEF Execute, Tables
  <1>6. ASSUME n = 4 PROVE Effect
    <2>1. Execute("DeleteRule", "mangle")
      BY <1>1, <1>6, Programs
    <2> QED
      BY <1>6, <2>1 DEF Execute
  <1>7. ASSUME n = 3 PROVE Effect
    <2>1. Execute("DeleteChain", "mangle")
      BY <1>1, <1>7, Programs
    <2> QED
      BY <1>7, <2>1 DEF Execute
  <1>8. ASSUME n = 2 PROVE Effect
    <2>1. Execute("DeleteRule", "filter")
      BY <1>1, <1>8, Programs
    <2> QED
      BY <1>8, <2>1 DEF Execute
  <1>9. ASSUME n = 1 PROVE Effect
    <2>1. Execute("DeleteChain", "filter")
      BY <1>1, <1>9, Programs
    <2> QED
      BY <1>9, <2>1 DEF Execute
  <1>10. Effect
    BY <1>1, <1>4, <1>5, <1>6, <1>7, <1>8, <1>9
  <1> QED
    BY <1>1, <1>2, <1>10 DEF n

\* The flush of OnUpdate empties the mangle chain first.
LEMMA WorkerCommand ==
    ASSUME TypeOK, RunCommand("worker")
    PROVE  LET n == Len(cmds["worker"]) IN
           /\ n \in 1..2 /\ Len(cmds'["worker"]) = n - 1
           /\ cmds'["main"] = cmds["main"] /\ cmds'["stop"] = cmds["stop"]
           /\ made' = made /\ jump' = jump
           /\ \A t \in Tables : chain'[t] = chain[t] \/ chain'[t] = <<>>
           /\ n = 2 => chain'["mangle"] = <<>>
  <1> DEFINE n == Len(cmds["worker"])
  <1>1. /\ n \in 1..2 /\ Execute(flushChain[3 - n][1], flushChain[3 - n][2])
        /\ Len(cmds'["worker"]) = n - 1
        /\ \A u \in Runners \ {"worker"} : cmds'[u] = cmds[u]
    <2>1. "worker" \in Runners /\ Program("worker") = flushChain /\ Len(flushChain) = 2
      BY Programs DEF Program, Runners, Threads
    <2>2. /\ n \in 1..2 /\ Execute(flushChain[2 - n + 1][1], flushChain[2 - n + 1][2])
          /\ Len(cmds'["worker"]) = n - 1
          /\ \A u \in Runners \ {"worker"} : cmds'[u] = cmds[u]
      BY <2>1, CommandOf
    <2>3. 2 - n + 1 = 3 - n
      BY <2>2
    <2> QED
      BY <2>2, <2>3
  <1>2. cmds'["main"] = cmds["main"] /\ cmds'["stop"] = cmds["stop"]
    BY <1>1 DEF Runners, Threads
  <1>3. chain \in [Tables -> Seq(MangleRules \cup {Drop})]
    BY DEF TypeOK
  <1> HIDE DEF n
  <1>4. CASE n = 2
    <2>1. Execute("FlushChain", "mangle")
      BY <1>1, <1>4, Programs
    <2> QED
      BY <1>1, <1>2, <1>3, <1>4, <2>1 DEF Execute, Tables, n
  <1>5. CASE n = 1
    <2>1. Execute("FlushChain", "filter")
      BY <1>1, <1>5, Programs
    <2> QED
      BY <1>1, <1>2, <1>3, <1>5, <2>1 DEF Execute, Tables, n
  <1> QED
    BY <1>1, <1>4, <1>5

-----------------------------------------------------------------------------
(* No trace of a stopped ipvsdr                                             *)

\* What ipvsdr has left behind when it has stopped.
Gone ==
    /\ messy \subseteq {"update"} => jump = {}
    /\ messy = {} => made = {}

\* A Stop that did not overtake Start finds it done, and unless it overlaps with an
\* OnUpdate nothing is at work on the chains any more.
Settled ==
    stop # "off" => /\ "start" \notin messy => main = "up"
                    /\ messy = {} => worker \in {"off", "idle"}

\* How far Stop is with the chains.
Undone ==
    LET n == Len(cmds["stop"]) IN
    stop \in {"chain", "exit"} =>
        /\ messy \subseteq {"update"} => /\ n <= 3 => "mangle" \notin jump
                                         /\ n <= 1 => "filter" \notin jump
        /\ messy = {} => /\ n <= 5 => chain["mangle"] = <<>>
                         /\ n <= 4 => chain["filter"] = <<>>
                         /\ n <= 2 => "mangle" \notin made
                         /\ n = 0 => "filter" \notin made

ChainInv == IF main = "off" \/ provider = "ingress" THEN Gone ELSE Settled /\ Undone

\* A step of anything but the chains.
LEMMA ChainKept ==
    ASSUME Where, ChainInv, UNCHANGED <<made, chain, jump, provider, messy, stop>>,
           cmds'["stop"] = cmds["stop"], main # "off", main' # "off",
           main' = main \/ main # "up",
           worker' = worker \/ messy # {} \/ stop = "off"
    PROVE  ChainInv'
  BY DEF ChainInv, Gone, Settled, Undone, Where

\* The end of the process: it has stopped, or its end is known to be untidy.
LEMMA ChainDown ==
    ASSUME TypeOK, Where, ChainInv, main # "off", Down,
           \/ stop = "exit" /\ messy' = messy
           \/ provider = "ingress" /\ messy' = messy
           \/ messy' \cap {"kill", "fault"} # {}
    PROVE  ChainInv'
  <1>1. main' = "off" /\ UNCHANGED <<provider, made, chain, jump>>
    BY DEF Down
  <1>2. CASE messy' \cap {"kill", "fault"} # {}
    BY <1>1, <1>2 DEF ChainInv, Gone
  <1>3. CASE provider = "ingress" /\ messy' = messy
    BY <1>1, <1>3 DEF ChainInv, Gone
  <1>4. CASE provider # "ingress" /\ stop = "exit" /\ messy' = messy
    <2>1. Len(cmds["stop"]) = 0
      BY <1>4 DEF Where
    <2>2. Undone /\ jump \subseteq Tables /\ made \subseteq Tables
      BY <1>4 DEF ChainInv, TypeOK
    <2>3. Gone
      BY <1>4, <2>1, <2>2 DEF Undone, Gone, Tables
    <2> QED
      BY <1>1, <1>4, <2>3 DEF ChainInv, Gone
  <1> QED
    BY <1>2, <1>3, <1>4

\* A command of Stop.
LEMMA ChainStop ==
    ASSUME TypeOK, Where, ChainInv, RunCommand("stop")
    PROVE  ChainInv'
  <1> DEFINE n == Len(cmds["stop"])
  <1>1. /\ UNCHANGED <<provider, messy, main, worker>>
        /\ stop' \in {"chain", "exit"}
    BY DEF RunCommand, Proceed, Where
  <1>2. stop = "chain" /\ provider # "ingress" /\ main # "off"
    BY DEF RunCommand, Where
  <1>3. /\ n \in 1..6 /\ Len(cmds'["stop"]) = n - 1
        /\ made' \subseteq made /\ jump' \subseteq jump
        /\ \A t \in Tables : chain'[t] = chain[t] \/ chain'[t] = <<>>
        /\ n = 6 => chain'["mangle"] = <<>>
        /\ n = 5 => chain'["filter"] = <<>>
        /\ n = 4 => "mangle" \notin jump'
        /\ (n = 3 /\ chain["mangle"] = <<>> /\ "mangle" \notin jump) => "mangle" \notin made'
        /\ n = 2 => "filter" \notin jump'
        /\ (n = 1 /\ chain["filter"] = <<>> /\ "filter" \notin jump) => "filter" \notin made'
    BY StopCommand
  <1>4. /\ chain'["mangle"] = chain["mangle"] \/ chain'["mangle"] = <<>>
        /\ chain'["filter"] = chain["filter"] \/ chain'["filter"] = <<>>
    BY <1>3 DEF Tables
  <1>5. Settled /\ Undone
    BY <1>2 DEF ChainInv
  <1>6. Settled'
    BY <1>1, <1>2, <1>5 DEF Settled
  <1> HIDE DEF n
  <1>7. ASSUME messy \subseteq {"update"}
        PROVE  /\ n - 1 <= 3 => "mangle" \notin jump'
               /\ n - 1 <= 1 => "filter" \notin jump'
    <2>1. (n <= 3 => "mangle" \notin jump) /\ (n <= 1 => "filter" \notin jump)
      BY <1>2, <1>5, <1>7 DEF Undone, n
    <2> QED
      BY <1>3, <2>1
  <1>8. ASSUME messy = {}
        PROVE  /\ n - 1 <= 5 => chain'["mangle"] = <<>>
               /\ n - 1 <= 4 => chain'["filter"] = <<>>
               /\ n - 1 <= 2 => "mangle" \notin made'
               /\ n - 1 = 0 => "filter" \notin made'
    <2>1. /\ n <= 3 => "mangle" \notin jump
          /\ n <= 1 => "filter" \notin jump
          /\ n <= 5 => chain["mangle"] = <<>>
          /\ n <= 4 => chain["filter"] = <<>>
          /\ n <= 2 => "mangle" \notin made
          /\ n = 0 => "filter" \notin made
      BY <1>2, <1>5, <1>8 DEF Undone, n
    <2> QED
      BY <1>3, <1>4, <2>1
  <1>9. Undone'
    BY <1>1, <1>3, <1>7, <1>8 DEF Undone, n
  <1> QED
    BY <1>1, <1>2, <1>6, <1>9 DEF ChainInv

LEMMA ChainInvCorrect == Spec => []ChainInv
  <1>1. Init => ChainInv
    BY DEF Init, ChainInv, Gone
  <1>2. TypeOK /\ Where /\ ChainInv /\ [Next]_vars => ChainInv'
    <2> SUFFICES ASSUME TypeOK, Where, ChainInv, [Next]_vars PROVE ChainInv'
      OBVIOUS
    <2>1. ASSUME NEW p \in Providers, Start(p) PROVE ChainInv'
      <3>1. /\ main = "off" /\ main' = "sysctl" /\ provider' = p /\ stop' = stop
            /\ messy' = IF p = "ipvsdr" THEN {} ELSE messy
            /\ UNCHANGED <<made, jump>>
        BY <2>1 DEF Start, chainVars
      <3>2. stop = "off" /\ Gone
        BY <3>1 DEF Where, ChainInv
      <3> QED
        BY <3>1, <3>2 DEF ChainInv, Gone, Settled, Undone, Providers
    <2>2. CASE Stop
      <3>1. /\ main # "off" /\ stop' = "reset" /\ UNCHANGED <<provider, main, made, jump, worker>>
            /\ messy' = IF provider = "ipvsdr"
                        THEN messy \cup (IF main # "up" THEN {"start"} ELSE {})
                                   \cup (IF worker \notin {"off", "idle"} THEN {"update"} ELSE {})
                        ELSE messy
        BY <2>2 DEF Stop, chainVars, workVars
      <3>2. CASE provider = "ipvsdr"
        BY <3>1, <3>2 DEF ChainInv, Settled, Undone
      <3>3. CASE provider # "ipvsdr"
        <4>1. provider = "ingress"
          BY <3>3 DEF TypeOK, Providers
        <4> QED
          BY <3>1, <3>3, <4>1 DEF ChainInv, Gone
      <3> QED
        BY <3>2, <3>3
    <2>3. CASE Exit
      BY <2>3, ChainDown DEF Exit, Where
    <2>4. CASE Kill
      <3>1. provider = "ingress" \/ provider = "ipvsdr"
        BY DEF TypeOK, Providers
      <3> QED
        BY <2>4, <3>1, ChainDown DEF Kill
    <2>5. ASSUME NEW t \in Threads, NEW k \in Keys, ModifyKey(t, k) PROVE ChainInv'
      BY <2>5 DEF ModifyKey, chainVars, workVars, ChainInv, Gone, Settled, Undone
    <2>6. ASSUME NEW t \in Threads, ModifyReturn(t) \/ ModifyError(t) PROVE ChainInv'
      <3>1. /\ UNCHANGED <<made, chain, jump, worker, messy>>
            /\ \E f : IF t = "main" THEN changeSysctlDone(f) ELSE resetSysctlDone
        BY <2>6, ModifyErrorType DEF ModifyReturn, ModifyError, workVars
      <3>2. IF t = "main" THEN main = "sysctl" ELSE stop = "reset"
        BY <2>6 DEF ModifyReturn, ModifyError, Modifying
      <3>3. CASE t = "main"
        <4>1. PICK f : changeSysctlDone(f)
          BY <3>1, <3>3
        <4>2. cmds'["stop"] = cmds["stop"]
          BY <4>1 DEF changeSysctlDone, TypeOK, Runners, Threads
        <4> QED
          BY <3>1, <3>2, <3>3, <4>1, <4>2, ChainKept DEF changeSysctlDone
      <3>4. CASE t # "main"
        <4>1. /\ resetSysctlDone /\ main # "off"
              /\ UNCHANGED <<provider, main>>
          BY <3>1, <3>2, <3>4 DEF resetSysctlDone, Where
        <4>2. CASE provider = "ipvsdr"
          <5>1. stop' = "chain" /\ cmds' = [cmds EXCEPT !["stop"] = deleteChain]
            BY <4>1, <4>2 DEF resetSysctlDone
          <5>2. Len(cmds'["stop"]) = 6
            BY <5>1, Programs DEF TypeOK, Runners, Threads
          <5>3. Settled
            BY <4>1, <4>2 DEF ChainInv
          <5>4. Settled'
            BY <3>1, <3>2, <3>4, <4>1, <5>3 DEF Settled
          <5>5. Undone'
            BY <5>2 DEF Undone
          <5> QED
            BY <4>1, <4>2, <5>4, <5>5 DEF ChainInv
        <4>3. CASE provider # "ipvsdr"
          <5>1. provider = "ingress"
            BY <4>3 DEF TypeOK, Providers
          <5> QED
            BY <3>1, <4>1, <5>1 DEF ChainInv, Gone
        <4> QED
          BY <4>2, <4>3
      <3> QED
        BY <3>3, <3>4
    <2>7. CASE RunCommand("main")
      <3>1. /\ main = "chain" /\ main' \in {"chain", "up"} /\ stop' = stop
            /\ UNCHANGED <<provider, messy>>
        BY <2>7 DEF RunCommand, Proceed, Where
      <3>2. provider # "ingress"
        BY <3>1 DEF Where
      <3>3. Settled
        BY <3>1, <3>2 DEF ChainInv
      <3> QED
        BY <3>1, <3>2, <3>3 DEF ChainInv, Settled, Undone
    <2>8. CASE RunCommand("stop")
      BY <2>8, ChainStop
    <2>9. CASE RunCommand("worker")
      <3>1. /\ worker = "flush" /\ UNCHANGED <<provider, messy, main, stop>>
        BY <2>9 DEF RunCommand, Proceed, Where
      <3>2. cmds'["stop"] = cmds["stop"] /\ made' = made /\ jump' = jump
        BY <2>9, WorkerCommand
      <3>3. provider # "ingress" /\ main = "up"
        BY <3>1 DEF Where
      <3> QED
        BY <3>1, <3>2, <3>3 DEF ChainInv, Settled, Undone
    <2>10. ASSUME NEW t \in Runners, CommandError(t) PROVE ChainInv'
      <3>1. main # "off" /\ provider # "ingress" /\ messy' = messy \cup {"fault"}
        BY <2>10 DEF CommandError, Where, Runners, Threads
      <3>2. CASE Down
        BY <3>1, <3>2, ChainDown
      <3>3. CASE Proceed(t) /\ UNCHANGED provider
        <4>1. /\ main' = main \/ main' = "up"
              /\ stop' = stop \/ stop # "off"
          BY <2>10, <3>3 DEF CommandError, Proceed, Where
        <4> QED
          BY <3>1, <3>3, <4>1 DEF ChainInv, Settled, Undone
      <3> QED
        BY <2>10, <3>2, <3>3 DEF CommandError
    <2>11. ASSUME NEW c \in Configs, OnUpdate(c) PROVE ChainInv'
      <3>1. /\ worker = "idle" /\ messy' = IF stop # "off" THEN messy \cup {"update"} ELSE messy
            /\ UNCHANGED <<provider, main, stop, made, chain, jump>>
            /\ cmds' = [cmds EXCEPT !["worker"] = flushChain]
        BY <2>11 DEF OnUpdate
      <3>2. provider # "ingress" /\ main = "up" /\ cmds'["stop"] = cmds["stop"]
        BY <3>1 DEF Where, TypeOK, Runners, Threads
      <3> QED
        BY <3>1, <3>2 DEF ChainInv, Settled, Undone
    <2>12. CASE appendIptablesMark \/ prependIptablesMark \/ ensureIptablesOutputDrop
      <3>1. /\ worker \in {"reset", "accept", "drop"}
            /\ messy' = messy \/ messy' = messy \cup {"fault"}
            /\ UNCHANGED <<provider, main, stop, made, jump, cmds>>
        BY <2>12 DEF appendIptablesMark, prependIptablesMark, ensureIptablesOutputDrop
      <3>2. provider # "ingress" /\ main = "up"
        BY <3>1 DEF Where
      <3> QED
        BY <3>1, <3>2 DEF ChainInv, Settled, Undone
    <2>13. CASE UNCHANGED vars
      BY <2>13 DEF vars, chainVars, workVars, ChainInv, Gone, Settled, Undone
    <2> QED
      BY <2>1, <2>2, <2>3, <2>4, <2>5, <2>6, <2>7, <2>8, <2>9, <2>10, <2>11, <2>12, <2>13
         DEF Next, Runners, Threads
  <1> QED
    BY <1>1, <1>2, TypeCorrect, WhereCorrect, PTL DEF Spec

\* When ipvsdr has stopped, nothing jumps to its chains and they are gone, what an
\* earlier run left behind included; a Stop that overtakes an OnUpdate leaves at most
\* chains that nothing uses.
THEOREM TracelessCorrect == Spec => []Traceless
  <1>1. ChainInv => Traceless
    BY DEF ChainInv, Gone, Traceless
  <1> QED
    BY <1>1, ChainInvCorrect, PTL

-----------------------------------------------------------------------------
(* Neighbours are reset before ports are accepted                           *)

Resets(ms) == \A m \in ms : Contains(Mangle, Reset(m))
NoPort == \A p \in Ports : ~Contains(Mangle, Accept(p))

\* How far an OnUpdate is that nothing disturbs: there is a chain to fill, it was
\* flushed, and the neighbours come before the first port.
Marking ==
    /\ (stop = "off" /\ main \in {"chain", "up"} /\ Len(cmds["main"]) <= 3) => "mangle" \in made
    /\ (worker = "flush" /\ Len(cmds["worker"]) <= 1) => NoPort
    /\ worker = "reset" => NoPort /\ Resets(lb.neighbors \ left)
    /\ worker \in {"accept", "drop"} => Resets(lb.neighbors)
    /\ worker = "idle" => NoPort \/ Resets(lb.neighbors)

MarkInv == (messy = {} /\ provider = "ipvsdr") => Marking

\* What a step does to the rules that are there.
LEMMA MangleContents ==
    ASSUME TypeOK
    PROVE  /\ \A m \in Macs : Mangle' = Append(Mangle, Reset(m)) =>
                /\ Contains(Mangle', Reset(m))
                /\ \A r : Contains(Mangle, r) => Contains(Mangle', r)
                /\ NoPort => NoPort'
           /\ \A p \in Ports : Mangle' = <<Accept(p)>> \o Mangle =>
                \A r : Contains(Mangle, r) => Contains(Mangle', r)
           /\ Mangle' = <<>> => NoPort'
  <1>1. Mangle \in Seq(MangleRules \cup {Drop})
    BY DEF TypeOK, Mangle, Tables
  <1>2. ASSUME NEW m \in Macs, Mangle' = Append(Mangle, Reset(m))
        PROVE  /\ Contains(Mangle', Reset(m))
               /\ \A r : Contains(Mangle, r) => Contains(Mangle', r)
               /\ NoPort => NoPort'
    <2>1. /\ Len(Mangle') = Len(Mangle) + 1 /\ Len(Mangle) \in Nat
          /\ \A i \in 1..Len(Mangle) : Mangle'[i] = Mangle[i]
          /\ Mangle'[Len(Mangle) + 1] = Reset(m)
      BY <1>1, <1>2
    <2>2. \A i \in 1..Len(Mangle') : i \in 1..Len(Mangle) \/ i = Len(Mangle) + 1
      BY <2>1
    <2>3. \A p \in Ports : Reset(m) # Accept(p)
      BY DEF Reset, Accept
    <2>4. \A i \in 1..Len(Mangle) : i \in 1..Len(Mangle')
      BY <2>1
    <2>5. Len(Mangle) + 1 \in 1..Len(Mangle')
      BY <2>1
    <2> QED
      BY <2>1, <2>2, <2>3, <2>4, <2>5 DEF Contains, NoPort
  <1>3. ASSUME NEW p \in Ports, Mangle' = <<Accept(p)>> \o Mangle,
               NEW r, Contains(Mangle, r)
        PROVE  Contains(Mangle', r)
    <2>1. PICK i \in 1..Len(Mangle) : Mangle[i] = r
      BY <1>3 DEF Contains
    <2>2. i + 1 \in 1..Len(Mangle') /\ Mangle'[i + 1] = Mangle[i]
      BY <1>1, <1>3
    <2> QED
      BY <2>1, <2>2 DEF Contains
  <1>4. Mangle' = <<>> => NoPort'
    BY DEF Contains, NoPort
  <1> QED
    BY <1>2, <1>3, <1>4

\* A step of anything but the chain.
LEMMA MarkKept ==
    ASSUME MarkInv, UNCHANGED <<made, chain, worker, lb, left, messy, provider>>,
           cmds'["worker"] = cmds["worker"],
           (stop' = "off" /\ main' \in {"chain", "up"} /\ Len(cmds'["main"]) <= 3) =>
                (stop = "off" /\ main \in {"chain", "up"} /\ Len(cmds["main"]) <= 3)
    PROVE  MarkInv'
  BY DEF MarkInv, Marking, NoPort, Resets, Mangle

LEMMA MarkInvCorrect == Spec => []MarkInv
  <1>1. Init => MarkInv
    BY DEF Init, MarkInv, Marking
  <1>2. TypeOK /\ Where /\ ChainInv /\ MarkInv /\ [Next]_vars => MarkInv'
    <2> SUFFICES ASSUME TypeOK, Where, ChainInv, MarkInv, [Next]_vars PROVE MarkInv'
      OBVIOUS
    <2>1. ASSUME NEW p \in Providers, Start(p) PROVE MarkInv'
      <3>1. main = "off" /\ main' = "sysctl" /\ worker' = worker
        BY <2>1 DEF Start, workVars
      <3>2. worker = "off"
        BY <3>1 DEF Where
      <3> QED
        BY <3>1, <3>2 DEF MarkInv, Marking
    <2>2. CASE Stop
      <3>1. stop' = "reset" /\ UNCHANGED <<made, chain, cmds, worker, lb, left, provider>>
        BY <2>2 DEF Stop, chainVars, workVars
      <3>2. messy' = {} => messy = {}
        BY <2>2 DEF Stop
      <3> QED
        BY <3>1, <3>2 DEF MarkInv, Marking, NoPort, Resets, Mangle
    <2>3. CASE Exit \/ Kill
      <3>1. main' = "off" /\ worker' = "off"
        BY <2>3 DEF Exit, Kill, Down
      <3> QED
        BY <3>1 DEF MarkInv, Marking
    <2>4. ASSUME NEW t \in Threads, NEW k \in Keys, ModifyKey(t, k) PROVE MarkInv'
      BY <2>4, MarkKept DEF ModifyKey, chainVars, workVars
    <2>5. ASSUME NEW t \in Threads, ModifyReturn(t) \/ ModifyError(t) PROVE MarkInv'
      <3>1. /\ UNCHANGED <<made, chain, worker, lb, left, messy>>
            /\ \E f : IF t = "main" THEN changeSysctlDone(f) ELSE resetSysctlDone
        BY <2>5, ModifyErrorType DEF ModifyReturn, ModifyError, workVars
      <3>2. CASE t = "main"
        <4>1. PICK f : changeSysctlDone(f)
          BY <3>1, <3>2
        <4>2. cmds'["worker"] = cmds["worker"] /\ provider' = provider
          BY <4>1 DEF changeSysctlDone, TypeOK, Runners, Threads
        <4>3. CASE provider = "ipvsdr"
          <5>1. cmds' = [cmds EXCEPT !["main"] = ensureChain]
            BY <4>1, <4>3 DEF changeSysctlDone
          <5>2. Len(cmds'["main"]) = 4
            BY <5>1, Programs DEF TypeOK, Runners, Threads
          <5> QED
            BY <3>1, <4>2, <5>2, MarkKept
        <4>4. CASE provider # "ipvsdr"
          BY <4>2, <4>4 DEF MarkInv
        <4> QED
          BY <4>3, <4>4
      <3>3. CASE t # "main"
        <4>1. resetSysctlDone
          BY <3>1, <3>3
        <4>2. /\ cmds'["worker"] = cmds["worker"] /\ provider' = provider
              /\ stop' \in {"chain", "exit"}
          BY <4>1 DEF resetSysctlDone, TypeOK, Runners, Threads
        <4> QED
          BY <3>1, <4>2, MarkKept
      <3> QED
        BY <3>2, <3>3
    <2>6. CASE RunCommand("main")
      <3>1. /\ Len(cmds["main"]) \in 1..4 /\ Len(cmds'["main"]) = Len(cmds["main"]) - 1
            /\ cmds'["worker"] = cmds["worker"] /\ chain' = chain /\ made \subseteq made'
            /\ Len(cmds["main"]) = 4 => "mangle" \in made'
        BY <2>6, MainCommand
      <3>2. /\ main = "chain" /\ worker = "off" /\ lb = NoConfig
            /\ UNCHANGED <<messy, provider, stop, lb>> /\ worker' \in {"off", "idle"}
        BY <2>6 DEF RunCommand, Proceed, Where
      <3>3. lb.neighbors = {}
        BY <3>2 DEF NoConfig
      <3>4. ASSUME messy = {}, provider = "ipvsdr" PROVE Marking'
        <4>1. Marking
          BY <3>4 DEF MarkInv
        <4>2. stop = "off" => "mangle" \in made'
          <5>1. CASE Len(cmds["main"]) = 4
            BY <3>1, <5>1
          <5>2. CASE Len(cmds["main"]) # 4
            <6>1. Len(cmds["main"]) <= 3
              <7>1. \A n \in 1..4 : n # 4 => n <= 3
                OBVIOUS
              <7> QED
                BY <3>1, <5>2, <7>1, Zenon
            <6>2. stop = "off" => "mangle" \in made
              BY <3>2, <4>1, <6>1 DEF Marking
            <6> QED
              BY <3>1, <6>2
          <5> QED
            BY <5>1, <5>2
        <4>3. Resets(lb.neighbors)'
          BY <3>2, <3>3 DEF Resets
        <4>4. (stop = "off" /\ main \in {"chain", "up"} /\ Len(cmds["main"]) <= 3 =>
                 "mangle" \in made)'
          BY <3>2, <4>2
        <4> QED
          BY <3>2, <4>3, <4>4 DEF Marking
      <3> QED
        BY <3>2, <3>4 DEF MarkInv
    <2>7. CASE RunCommand("stop")
      <3>1. /\ cmds'["worker"] = cmds["worker"]
            /\ chain'["mangle"] = chain["mangle"] \/ chain'["mangle"] = <<>>
        BY <2>7, StopCommand DEF Tables
      <3>2. /\ stop = "chain" /\ stop' # "off"
            /\ UNCHANGED <<messy, provider, worker, lb, left>>
        BY <2>7 DEF RunCommand, Proceed, Where
      <3>3. ASSUME messy = {}, provider = "ipvsdr" PROVE Marking'
        <4>1. Marking
          BY <3>3 DEF MarkInv
        <4>2. worker \in {"off", "idle"}
          BY <3>2, <3>3 DEF ChainInv, Settled, Where
        <4>3. CASE Mangle' = Mangle
          BY <3>2, <4>1, <4>2, <4>3 DEF Marking, NoPort, Resets
        <4>4. CASE Mangle' = <<>>
          <5>1. NoPort'
            BY <4>4, MangleContents
          <5> QED
            BY <3>2, <4>2, <5>1 DEF Marking
        <4> QED
          BY <3>1, <4>3, <4>4 DEF Mangle
      <3> QED
        BY <3>2, <3>3 DEF MarkInv
    <2>8. CASE RunCommand("worker")
      <3> DEFINE n == Len(cmds["worker"])
      <3>1. /\ n \in 1..2 /\ Len(cmds'["worker"]) = n - 1 /\ made' = made
            /\ cmds'["main"] = cmds["main"]
            /\ chain'["mangle"] = chain["mangle"] \/ chain'["mangle"] = <<>>
            /\ n = 2 => chain'["mangle"] = <<>>
        BY <2>8, WorkerCommand DEF Tables
      <3>2. /\ worker = "flush" /\ worker' \in {"flush", "reset", "idle"}
            /\ worker' = "reset" => left' = lb.neighbors
            /\ UNCHANGED <<messy, provider, stop, main, lb>>
        BY <2>8 DEF RunCommand, Proceed, Where
      <3>3. ASSUME messy = {}, provider = "ipvsdr" PROVE Marking'
        <4>1. Marking
          BY <3>3 DEF MarkInv
        <4>2. NoPort'
          <5>1. CASE n = 2
            BY <3>1, <5>1, MangleContents DEF Mangle
          <5>2. CASE n = 1
            <6>1. NoPort
              BY <3>2, <4>1, <5>2 DEF Marking
            <6>2. CASE Mangle' = Mangle
              BY <6>1, <6>2 DEF NoPort
            <6>3. CASE Mangle' = <<>>
              BY <6>3, MangleContents
            <6> QED
              BY <3>1, <6>2, <6>3 DEF Mangle
          <5> QED
            BY <3>1, <5>1, <5>2
        <4>3. worker' = "reset" => lb'.neighbors \ left' = {}
          BY <3>2
        <4> QED
          BY <3>1, <3>2, <4>1, <4>2, <4>3 DEF Marking, Resets
      <3> QED
        BY <3>2, <3>3 DEF MarkInv
    <2>9. ASSUME NEW t \in Runners, CommandError(t) PROVE MarkInv'
      BY <2>9 DEF CommandError, MarkInv
    <2>10. ASSUME NEW c \in Configs, OnUpdate(c) PROVE MarkInv'
      <3>1. /\ cmds' = [cmds EXCEPT !["worker"] = flushChain] /\ worker' = "flush"
            /\ UNCHANGED <<made, chain, provider, main, stop>>
            /\ messy' = {} => messy = {}
        BY <2>10 DEF OnUpdate
      <3>2. Len(cmds'["worker"]) = 2 /\ cmds'["main"] = cmds["main"]
        BY <3>1, Programs DEF TypeOK, Runners, Threads
      <3>3. ASSUME messy = {}, provider = "ipvsdr" PROVE Marking'
        <4>1. Marking
          BY <3>3 DEF MarkInv
        <4>2. (stop = "off" /\ main \in {"chain", "up"} /\ Len(cmds["main"]) <= 3 =>
                 "mangle" \in made)'
          BY <3>1, <3>2, <4>1 DEF Marking
        <4>3. ~(Len(cmds["worker"]) <= 1)'
          BY <3>2
        <4> QED
          BY <3>1, <4>2, <4>3 DEF Marking
      <3> QED
        BY <3>1, <3>3 DEF MarkInv
    <2>11. CASE appendIptablesMark
      <3>1. /\ worker = "reset" /\ UNCHANGED <<provider, main, stop, made, cmds, lb>>
            /\ messy' = {} => messy = {}
        BY <2>11 DEF appendIptablesMark
      <3>2. ASSUME messy' = {}, provider = "ipvsdr" PROVE Marking'
        <4>1. Marking /\ NoPort /\ Resets(lb.neighbors \ left)
          BY <3>1, <3>2 DEF MarkInv, Marking
        <4>2. "mangle" \in made
          <5>1. main = "up" /\ stop = "off" /\ cmds["main"] = <<>>
            BY <3>1, <3>2 DEF ChainInv, Settled, Where
          <5> QED
            BY <4>1, <5>1 DEF Marking
        <4>3. CASE left = {}
          <5>1. worker' = "accept" /\ chain' = chain
            BY <2>11, <4>3 DEF appendIptablesMark, Advance
          <5> QED
            BY <3>1, <4>1, <4>2, <4>3, <5>1 DEF Marking, Resets, Mangle
        <4>4. CASE left # {}
          <5>1. PICK m \in left :
                  /\ Advance(left \ {m}, "accept", lb.ports)
                  /\ chain' = Appended("mangle", Reset(m))
            BY <2>11, <3>2, <4>4 DEF appendIptablesMark
          <5>2. m \in Macs
            BY <3>1 DEF TypeOK
          <5>3. \/ Mangle' = Mangle /\ Contains(Mangle, Reset(m))
                \/ Mangle' = Append(Mangle, Reset(m))
            BY <4>2, <5>1 DEF Appended, Mangle, TypeOK, Tables
          <5>4. /\ NoPort' /\ Contains(Mangle', Reset(m))
                /\ \A x \in lb.neighbors \ left : Contains(Mangle', Reset(x))
            <6>1. CASE Mangle' = Mangle /\ Contains(Mangle, Reset(m))
              BY <4>1, <6>1 DEF NoPort, Resets
            <6>2. CASE Mangle' = Append(Mangle, Reset(m))
              BY <4>1, <5>2, <6>2, MangleContents DEF Resets
            <6> QED
              BY <5>3, <6>1, <6>2
          <5>5. \A x \in lb.neighbors \ (left \ {m}) : Contains(Mangle', Reset(x))
            BY <5>4
          <5>6. CASE left \ {m} = {}
            <6>1. worker' = "accept"
              BY <5>1, <5>6 DEF Advance
            <6>2. Resets(lb.neighbors)'
              BY <3>1, <5>5, <5>6 DEF Resets
            <6> QED
              BY <3>1, <4>2, <6>1, <6>2 DEF Marking
          <5>7. CASE left \ {m} # {}
            <6>1. worker' = "reset" /\ left' = left \ {m}
              BY <3>1, <5>1, <5>7 DEF Advance
            <6>2. Resets(lb.neighbors \ left)'
              BY <3>1, <5>5, <6>1 DEF Resets
            <6> QED
              BY <3>1, <4>2, <5>4, <6>1, <6>2 DEF Marking
          <5> QED
            BY <5>6, <5>7
        <4> QED
          BY <4>3, <4>4
      <3> QED
        BY <3>1, <3>2 DEF MarkInv
    <2>12. CASE prependIptablesMark
      <3>1. /\ worker = "accept" /\ worker' \in {"accept", "drop"}
            /\ UNCHANGED <<provider, main, stop, made, cmds, lb>>
            /\ messy' = {} => messy = {}
        BY <2>12 DEF prependIptablesMark, Advance
      <3>2. ASSUME messy' = {}, provider = "ipvsdr" PROVE Marking'
        <4>1. Marking /\ Resets(lb.neighbors)
          BY <3>1, <3>2 DEF MarkInv, Marking
        <4>2. \/ Mangle' = Mangle
              \/ \E p \in Ports : Mangle' = <<Accept(p)>> \o Mangle
          <5>1. left \subseteq Ports
            BY <3>1 DEF TypeOK
          <5>2. \/ UNCHANGED chain
                \/ \E p \in left : chain' = Prepended("mangle", Accept(p))
            BY <2>12 DEF prependIptablesMark
          <5> QED
            BY <5>1, <5>2 DEF Prepended, Mangle, TypeOK, Tables
        <4>3. Resets(lb.neighbors)'
          <5>1. \A r : Contains(Mangle, r) => Contains(Mangle', r)
            BY <4>2, MangleContents
          <5> QED
            BY <3>1, <4>1, <5>1 DEF Resets
        <4> QED
          BY <3>1, <4>1, <4>3 DEF Marking
      <3> QED
        BY <3>1, <3>2 DEF MarkInv
    <2>13. CASE ensureIptablesOutputDrop
      <3>1. /\ worker = "drop" /\ worker' = "idle"
            /\ UNCHANGED <<provider, main, stop, made, cmds, lb>>
            /\ messy' = {} => messy = {}
            /\ chain' = Appended("filter", Drop) \/ chain' = chain
        BY <2>13 DEF ensureIptablesOutputDrop
      <3>2. Mangle' = Mangle
        BY <3>1 DEF Appended, Mangle, TypeOK, Tables
      <3> QED
        BY <3>1, <3>2 DEF MarkInv, Marking, Resets
    <2>14. CASE UNCHANGED vars
      BY <2>14, MarkKept DEF vars, chainVars, workVars
    <2> QED
      BY <2>1, <2>2, <2>3, <2>4, <2>5, <2>6, <2>7, <2>8, <2>9, <2>10, <2>11, <2>12, <2>13, <2>14
         DEF Next, Runners, Threads
  <1> QED
    BY <1>1, <1>2, TypeCorrect, WhereCorrect, ChainInvCorrect, PTL DEF Spec

\* From the first port rule on, every neighbour of the current node list has its
\* rule, at every moment of an OnUpdate that no fault and no Stop disturbs.
THEOREM NeighborsResetCorrect == Spec => []NeighborsReset
  <1>1. TypeOK /\ Where /\ MarkInv => NeighborsReset
    <2> SUFFICES ASSUME TypeOK, Where, MarkInv, worker # "flush", messy = {},
                        NEW p \in Ports, Contains(Mangle, Accept(p))
                 PROVE  Resets(lb.neighbors)
      BY DEF NeighborsReset, Resets
    <2>1. ~NoPort
      BY DEF NoPort
    <2>2. CASE worker = "off"
      BY <2>2 DEF Where, NoConfig, Resets
    <2>3. CASE worker # "off"
      <3>1. Marking
        BY <2>3 DEF Where, MarkInv
      <3> QED
        BY <2>1, <2>3, <3>1 DEF Marking, TypeOK
    <2> QED
      BY <2>2, <2>3
  <1> QED
    BY <1>1, TypeCorrect, WhereCorrect, MarkInvCorrect, PTL

=============================================================================
