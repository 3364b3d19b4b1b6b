------------------------ MODULE AzureSecurityGroups --------------------------
(***************************************************************************)
(* The synchronisation of security groups of the azure provider            *)
(* (syncSecurityGroupRules and cleanUpSecurityGroup): the groups of the    *)
(* detached network interfaces lose the generated rules, the groups of the *)
(* attached ones get one rule per exported port.                           *)
(*                                                                         *)
(* A group is read, changed and written back whole, without a version      *)
(* check, while its owner may edit it. A generated rule is known by the    *)
(* prefix of its name (kind "tcp" or "udp"), every other rule is the       *)
(* owner's. Of a rule, its port, its priority and whether its remaining    *)
(* settings are the default ones are kept.                                 *)
(***************************************************************************)
EXTENDS Integers, FiniteSets, Functions

CONSTANTS Groups,         \* security groups
          Exported,       \* ports that the config maps may export, besides 80 and 443
          PriorityStart,  \* defaultSecurityGroupPriorityStart
          PriorityStep,   \* defaultSecurityGroupPriorityIncrease
          PriorityMax,    \* maxSecurityGroupPriority
          NoGroup,        \* no group is being worked on
          MaxCalls,       \* bound: synchronisations
          MaxEdits        \* bound: edits of the owner

ASSUME SecurityGroupsAssumption ==
    /\ NoGroup \notin Groups
    /\ IsFiniteSet(Groups)
    /\ Exported \subseteq Nat
    /\ IsFiniteSet(Exported)
    /\ PriorityStart \in Nat \ {0}
    /\ PriorityStep \in Nat \ {0}
    /\ PriorityMax \in Nat
    /\ PriorityStart <= PriorityMax
    /\ MaxCalls \in Nat
    /\ MaxEdits \in Nat

VARIABLES groups,   \* the rules of each group, at Azure
          pc,       \* where the synchronisation is
          deleteSg, \* groups still to be cleaned
          syncSg,   \* groups still to be synchronised
          want,     \* the maps tcp and udp
          group,    \* the group that was read and not yet written
          newRules, \* what will be written
          asked,    \* history: the groups the call has to synchronise
          ports,    \* history: the ports it was called with
          raced,    \* history: groups edited since the call read them
          owners,   \* history: the owner's rules when the call began or after a later edit
          calls,
          edits

vars == <<groups, pc, deleteSg, syncSg, want, group, newRules, asked, ports, raced, owners, calls,
          edits>>

-----------------------------------------------------------------------------
(* Data                                                                     *)

Protos == {"tcp", "udp"}

Ports == Exported \cup {80, 443}

Rule == [kind : Protos \cup {"owner"}, port : Ports, priority : PriorityStart..PriorityMax,
         default : BOOLEAN]

\* Mutant: rules are told apart by their port.
generatedByPort(r) == r.kind \in Protos \/ r.port = 443

\* The name of the rule has one of the two prefixes.
generated(r) == r.kind \in Protos

ownerRules(rules) == {r \in rules : r.kind = "owner"}

Wanted == [Protos -> SUBSET Ports]

TypeOK ==
    /\ groups \in [Groups -> SUBSET Rule]
    /\ pc \in {"idle", "delete", "sync", "ok", "error"}
    /\ deleteSg \subseteq Groups
    /\ syncSg \subseteq Groups
    /\ want \in Wanted
    /\ group \in Groups \cup {NoGroup}
    /\ newRules \subseteq Rule
    /\ asked \subseteq Groups
    /\ ports \in Wanted
    /\ raced \subseteq Groups
    /\ owners \in [Groups -> SUBSET Rule]
    /\ calls \in 0..MaxCalls
    /\ edits \in 0..MaxEdits

Nothing == [p \in Protos |-> {}]

\* Every group starts with one rule of its owner, which has a priority of the
\* range that generated rules use.
OwnerRule(n, p) == [kind |-> "owner", port |-> n, priority |-> p, default |-> FALSE]

Init ==
    /\ groups = [g \in Groups |-> {OwnerRule(80, PriorityStart)}]
    /\ pc = "idle"
    /\ deleteSg = {}
    /\ syncSg = {}
    /\ want = Nothing
    /\ group = NoGroup
    /\ newRules = {}
    /\ asked = {}
    /\ ports = Nothing
    /\ raced = {}
    /\ owners = groups
    /\ calls = 0
    /\ edits = 0

-----------------------------------------------------------------------------
(* The owner of a group                                                     *)

\* Azure refuses two rules of one direction and priority. The code does not look at
\* the direction, and all rules here are inbound.
Unique(rules) == \A r, s \in rules : r.priority = s.priority => r = s

\* The owner adds or deletes a rule, or changes a generated one.
Edit(g, rules) ==
    /\ edits < MaxEdits
    /\ rules # groups[g]
    /\ Unique(rules)
    /\ groups' = [groups EXCEPT ![g] = rules]
    /\ owners' = [owners EXCEPT ![g] = ownerRules(rules)]
    /\ raced' = IF g \in deleteSg \cup syncSg THEN raced ELSE raced \cup {g}
    /\ edits' = edits + 1
    /\ UNCHANGED <<pc, deleteSg, syncSg, want, group, newRules, asked, ports, calls>>

Edits(g) ==
    \/ \E p \in PriorityStart..PriorityMax :
        Edit(g, groups[g] \cup {OwnerRule(443, p)})
    \/ \E r \in groups[g] : Edit(g, groups[g] \ {r})
    \/ \E r \in groups[g], p \in Ports :
        generated(r) /\ Edit(g, (groups[g] \ {r}) \cup {[r EXCEPT !.port = p, !.default = FALSE]})

-----------------------------------------------------------------------------
(* The synchronisation                                                      *)

\* getSuitableSecurityGroup: a group that an attached interface uses too is not
\* cleaned. The HTTP ports are always wanted.
Call(detached, attached, w) ==
    /\ pc \in {"idle", "ok", "error"}
    /\ calls < MaxCalls
    /\ calls' = calls + 1
    /\ deleteSg' = detached \ attached
    /\ syncSg' = attached
    /\ want' = [w EXCEPT !["tcp"] = @ \cup {80, 443}]
    /\ pc' = "delete"
    /\ group' = NoGroup
    /\ newRules' = {}
    /\ asked' = attached
    /\ ports' = want'
    /\ raced' = {}
    /\ owners' = [g \in Groups |-> ownerRules(groups[g])]
    /\ UNCHANGED <<groups, edits>>

\* deleteUselessSecurityRules: the group is read, and written without its
\* generated rules if it had any.
DeleteGet(g) ==
    /\ pc = "delete"
    /\ group = NoGroup
    /\ g \in deleteSg
    /\ deleteSg' = deleteSg \ {g}
    /\ newRules' = {r \in groups[g] : ~generated(r)}
    /\ group' = IF newRules' = groups[g] THEN NoGroup ELSE g
    /\ UNCHANGED <<groups, pc, syncSg, want, asked, ports, raced, owners, calls, edits>>

DeleteDone ==
    /\ pc = "delete"
    /\ group = NoGroup
    /\ deleteSg = {}
    /\ pc' = "sync"
    /\ UNCHANGED <<groups, deleteSg, syncSg, want, group, newRules, asked, ports, raced, owners,
                   calls, edits>>

steps(last) == {p \in PriorityStart..last : (p - PriorityStart) % PriorityStep = 0}

\* What n calls of getValidPriority may return when the priorities in free are
\* not in use: first those of the deleted rules in any order, then the smallest.
taken(free, del, n) ==
    {S \in SUBSET (del \cup free) :
        /\ Cardinality(S) = n
        /\ S \subseteq del \/ del \subseteq S
        /\ \A p \in S \ del, q \in free \ S : p < q}

\* Mutant: the priorities in use are not looked at.
getValidPriorityUsed(used, del, n) == taken(steps(PriorityMax) \ del, del, n)

\* Mutant: the last priority is not looked at.
getValidPriorityNoMax(used, del, n) ==
    taken(steps(PriorityMax + PriorityStep) \ (used \cup del), del, n)

\* No result: the priorities are used up, an error.
getValidPriority(used, del, n) == taken(steps(PriorityMax) \ (used \cup del), del, n)

\* The udp ports get their priorities before the tcp ports.
udpFirst(f, del) ==
    \A x, y \in DOMAIN f :
        (x[1] = "udp" /\ y[1] = "tcp") => f[x] \in del \/ (f[y] \notin del /\ f[x] < f[y])

\* Mutant: rules that are not wanted any more are kept.
remainingUnwanted(rules, w) == {{r \in rules : generated(r)}}

\* ensureSyncWithDefaultSetting: of the generated rules for a wanted port, the
\* first one in the list remains.
remaining(rules, w) ==
    LET wanted == {r \in rules : generated(r) /\ r.port \in w[r.kind]} IN
    {K \in SUBSET wanted :
        \A r \in wanted : Cardinality({s \in K : s.kind = r.kind /\ s.port = r.port}) = 1}

\* What is left of the maps: the ports of the rules that remain are deleted.
left(w, kept) == [p \in Protos |-> w[p] \ {r.port : r \in {s \in kept : s.kind = p}}]

pairs(w) == UNION {{<<p, n>> : n \in w[p]} : p \in Protos}

priorities(rules) == {r.priority : r \in rules}

\* ensureSettingDefaultRules: the settings of a rule that remains become the default ones.
reset(r) == [r EXCEPT !.default = TRUE]

\* ensureSyncRulesToSecurityGroups, the body of its loop up to CreateOrUpdate. Azure
\* answers with a list of rules, if an empty one, which the code dereferences.
SyncGet(g) ==
    /\ pc = "sync"
    /\ group = NoGroup
    /\ g \in syncSg
    /\ syncSg' = syncSg \ {g}
    /\ \E kept \in remaining(groups[g], want) :
        LET other == {r \in groups[g] : ~generated(r)}
            gone == groups[g] \ (other \cup kept)
            fresh == pairs(left(want, kept))
        IN /\ want' = left(want, kept)
           /\ \E S \in getValidPriority(priorities(other \cup kept), priorities(gone),
                                        Cardinality(fresh)) :
              \E f \in Bijection(fresh, S) :
                /\ udpFirst(f, priorities(gone))
                /\ newRules' =
                    other \cup {reset(r) : r \in kept}
                          \cup {[kind |-> x[1], port |-> x[2], priority |-> f[x],
                                 default |-> TRUE] : x \in fresh}
    /\ group' = IF newRules' = groups[g] THEN NoGroup ELSE g
    /\ UNCHANGED <<groups, pc, deleteSg, asked, ports, raced, owners, calls, edits>>

\* CreateOrUpdate replaces the whole group.
Put ==
    /\ group # NoGroup
    /\ groups' = [groups EXCEPT ![group] = newRules]
    /\ group' = NoGroup
    /\ newRules' = {}
    /\ UNCHANGED <<pc, deleteSg, syncSg, want, asked, ports, raced, owners, calls, edits>>

SyncDone ==
    /\ pc = "sync"
    /\ group = NoGroup
    /\ syncSg = {}
    /\ pc' = "ok"
    /\ UNCHANGED <<groups, deleteSg, syncSg, want, group, newRules, asked, ports, raced, owners,
                   calls, edits>>

\* A call to Azure fails, or the priorities are used up.
Fail ==
    /\ pc \in {"delete", "sync"}
    /\ pc' = "error"
    /\ group' = NoGroup
    /\ newRules' = {}
    /\ UNCHANGED <<groups, deleteSg, syncSg, want, asked, ports, raced, owners, calls, edits>>

-----------------------------------------------------------------------------
Next ==
    \/ \E g \in Groups : Edits(g)
    \/ \E d, a \in SUBSET Groups, w \in [Protos -> SUBSET Exported] : Call(d, a, w)
    \/ \E g \in Groups : DeleteGet(g)
    \/ DeleteDone
    \/ \E g \in Groups : SyncGet(g)
    \/ Put
    \/ SyncDone
    \/ Fail

Spec == Init /\ [][Next]_vars

-----------------------------------------------------------------------------
(* Properties                                                               *)

\* "priority value is unique in the sg rules": what is written back has unique
\* priorities, although the priorities of deleted rules are reused and the
\* owner's rules lie in the same range.
UniquePriorities ==
    /\ \A g \in Groups : Unique(groups[g])
    /\ Unique(newRules)

\* "remain others rules": a call, successful or not, keeps the rules of the owner,
\* his edits before the Get included. Only an edit after the Get may be lost.
OwnerRulesKept ==
    \A g \in Groups \ raced : ownerRules(groups[g]) = owners[g]

\* A call that succeeds and has one group to synchronise leaves exactly one rule
\* with default settings for every wanted port in it, whatever earlier calls
\* (also failed ones) and the owner have made of the group.
SingleGroupSynced ==
    (pc = "ok" /\ Cardinality(asked) = 1) =>
        \A g \in asked \ raced :
            LET made == groups[g] \ ownerRules(groups[g]) IN
            /\ pairs(ports) = {<<r.kind, r.port>> : r \in made}
            /\ Cardinality(made) = Cardinality(pairs(ports))
            /\ \A r \in made : r.default

\* "ensureSyncRulesToSecurityGroups sync security group rules": a call that
\* succeeds opens every wanted port in every group it was called for. It does
\* not: the rules found in the first group are deleted from the shared maps tcp
\* and udp, so the other groups lose theirs.
AllGroupsSynced ==
    pc = "ok" =>
        \A g \in asked \ raced : pairs(ports) \subseteq {<<r.kind, r.port>> : r \in groups[g]}

=============================================================================
