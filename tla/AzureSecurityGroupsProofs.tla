----------------------- MODULE AzureSecurityGroupsProofs ----------------------
(* Theorems about AzureSecurityGroups, for any finite number of groups and    *)
(* ports, any range of priorities and any number of calls and edits.          *)
EXTENDS AzureSecurityGroups, FiniteSetTheorems, TLAPS

-----------------------------------------------------------------------------
(* The rules that are written                                               *)

\* The fields of a rule, and of one that was changed.
LEMMA RuleFields ==
    ASSUME NEW r \in Rule
    PROVE  /\ r.kind \in Protos \cup {"owner"}
           /\ r.port \in Ports
           /\ r.priority \in PriorityStart..PriorityMax
           /\ r.default \in BOOLEAN
           /\ r = [kind |-> r.kind, port |-> r.port, priority |-> r.priority,
                   default |-> r.default]
  BY DEF Rule

LEMMA ResetFields ==
    ASSUME NEW r \in Rule
    PROVE  /\ reset(r) \in Rule
           /\ reset(r).kind = r.kind
           /\ reset(r).port = r.port
           /\ reset(r).priority = r.priority
           /\ reset(r).default = TRUE
  BY DEF Rule, reset

\* An edit of the owner, whichever of the three it is, replaces the rules of one
\* group by rules with unique priorities.
LEMMA EditsStep ==
    ASSUME TypeOK, NEW g \in Groups, Edits(g)
    PROVE  \E rules \in SUBSET Rule : Edit(g, rules)
  <1>1. groups[g] \subseteq Rule
    BY DEF TypeOK
  <1>2. ASSUME NEW p \in PriorityStart..PriorityMax
        PROVE  groups[g] \cup {OwnerRule(443, p)} \subseteq Rule
    <2>1. OwnerRule(443, p) \in Rule
      BY DEF OwnerRule, Rule, Ports
    <2> QED
      BY <1>1, <2>1
  <1>3. ASSUME NEW r \in groups[g], NEW p \in Ports
        PROVE  (groups[g] \ {r}) \cup {[r EXCEPT !.port = p, !.default = FALSE]} \subseteq Rule
    <2>1. [r EXCEPT !.port = p, !.default = FALSE] \in Rule
      BY <1>1 DEF Rule
    <2> QED
      BY <1>1, <2>1
  <1>4. ASSUME NEW r \in groups[g] PROVE groups[g] \ {r} \subseteq Rule
    BY <1>1
  <1>5. CASE \E p \in PriorityStart..PriorityMax : Edit(g, groups[g] \cup {OwnerRule(443, p)})
    BY <1>2, <1>5
  <1>6. CASE \E r \in groups[g] : Edit(g, groups[g] \ {r})
    BY <1>4, <1>6
  <1>7. CASE \E r \in groups[g], p \in Ports :
               Edit(g, (groups[g] \ {r}) \cup {[r EXCEPT !.port = p, !.default = FALSE]})
    <2>1. PICK r \in groups[g], p \in Ports :
               Edit(g, (groups[g] \ {r}) \cup {[r EXCEPT !.port = p, !.default = FALSE]})
      BY <1>7
    <2> DEFINE rules == (groups[g] \ {r}) \cup {[r EXCEPT !.port = p, !.default = FALSE]}
    <2>2. rules \in SUBSET Rule
      BY <1>3
    <2> HIDE DEF rules
    <2> QED
      BY <2>1, <2>2, Zenon DEF rules
  <1> QED
    BY <1>5, <1>6, <1>7, Zenon DEF Edits

\* Of the wanted ports, those without a rule that remains are still wanted.
LEMMA LeftType ==
    ASSUME NEW w \in Wanted, NEW kept
    PROVE  left(w, kept) \in Wanted
  BY DEF left, Wanted

LEMMA PairsOf ==
    ASSUME NEW w, NEW x
    PROVE  x \in pairs(w) <=> \E p \in Protos : \E n \in w[p] : x = <<p, n>>
  BY DEF pairs

otherRules(g) == {r \in groups[g] : ~generated(r)}
goneRules(g, kept) == groups[g] \ (otherRules(g) \cup kept)
freshPairs(kept) == pairs(left(want, kept))
createdRules(kept, f) == {[kind |-> x[1], port |-> x[2], priority |-> f[x], default |-> TRUE] :
                    x \in freshPairs(kept)}

\* What SyncGet does with the rules that remain and the priorities it was given:
\* it writes the rules of others, the rules that remain and a rule for every wanted
\* port that has none. The priorities are pairwise different, and each is free or
\* that of a rule that is gone.
Writes(g, kept, f) ==
    /\ want' = left(want, kept)
    /\ \A x \in freshPairs(kept) :
        /\ f[x] \in PriorityStart..PriorityMax
        /\ \/ f[x] \in priorities(goneRules(g, kept))
           \/ f[x] \notin priorities(otherRules(g) \cup kept)
    /\ \A x, y \in freshPairs(kept) : f[x] = f[y] => x = y
    /\ newRules' = otherRules(g) \cup {reset(r) : r \in kept} \cup createdRules(kept, f)

LEMMA SyncGetWrites ==
    ASSUME TypeOK, NEW g \in Groups, SyncGet(g)
    PROVE  \E kept, f : kept \in remaining(groups[g], want) /\ Writes(g, kept, f)
  <1>1. PICK kept \in remaining(groups[g], want) :
          /\ want' = left(want, kept)
          /\ \E S \in getValidPriority(priorities(otherRules(g) \cup kept),
                                       priorities(goneRules(g, kept)),
                                       Cardinality(freshPairs(kept))) :
             \E f \in Bijection(freshPairs(kept), S) :
               newRules' = otherRules(g) \cup {reset(r) : r \in kept} \cup createdRules(kept, f)
    BY Zenon DEF SyncGet, otherRules, goneRules, freshPairs, createdRules
  <1>2. PICK S \in getValidPriority(priorities(otherRules(g) \cup kept),
                                    priorities(goneRules(g, kept)),
                                    Cardinality(freshPairs(kept))) :
          \E f \in Bijection(freshPairs(kept), S) :
            newRules' = otherRules(g) \cup {reset(r) : r \in kept} \cup createdRules(kept, f)
    BY <1>1
  <1>3. PICK f \in Bijection(freshPairs(kept), S) :
          newRules' = otherRules(g) \cup {reset(r) : r \in kept} \cup createdRules(kept, f)
    BY <1>2
  <1>4. /\ f \in [freshPairs(kept) -> S]
        /\ \A x, y \in freshPairs(kept) : f[x] = f[y] => x = y
    BY DEF Bijection, Injection, IsInjective
  <1>5. S \subseteq priorities(goneRules(g, kept))
                    \cup (steps(PriorityMax)
                          \ (priorities(otherRules(g) \cup kept)
                              \cup priorities(goneRules(g, kept))))
    BY DEF getValidPriority, taken
  <1>6. goneRules(g, kept) \subseteq Rule
    BY DEF TypeOK, goneRules
  <1>7. priorities(goneRules(g, kept)) \subseteq PriorityStart..PriorityMax
    BY <1>6, RuleFields DEF priorities
  <1>8. steps(PriorityMax) \subseteq PriorityStart..PriorityMax
    BY DEF steps
  <1>9. \A x \in freshPairs(kept) :
          /\ f[x] \in PriorityStart..PriorityMax
          /\ \/ f[x] \in priorities(goneRules(g, kept))
             \/ f[x] \notin priorities(otherRules(g) \cup kept)
    BY <1>4, <1>5, <1>7, <1>8
  <1> QED
    BY <1>1, <1>3, <1>4, <1>9 DEF Writes

\* The rules that remain are generated ones of the group.
LEMMA RemainingRules ==
    ASSUME TypeOK, NEW g \in Groups, NEW kept \in remaining(groups[g], want)
    PROVE  /\ groups[g] \subseteq Rule
           /\ kept \subseteq groups[g]
           /\ \A r \in kept : r.kind \in Protos /\ r.port \in want[r.kind]
  BY DEF TypeOK, remaining, generated

\* The new rules.
LEMMA MadeRules ==
    ASSUME TypeOK, NEW g \in Groups, NEW kept, NEW f, Writes(g, kept, f),
           NEW r \in createdRules(kept, f)
    PROVE  \E x \in freshPairs(kept) :
             /\ r \in Rule
             /\ x = <<r.kind, r.port>>
             /\ r.kind \in Protos
             /\ r.port \in left(want, kept)[r.kind]
             /\ r.priority = f[x]
             /\ r = [kind |-> x[1], port |-> x[2], priority |-> f[x], default |-> TRUE]
  <1>1. PICK x \in freshPairs(kept) :
          r = [kind |-> x[1], port |-> x[2], priority |-> f[x], default |-> TRUE]
    BY DEF createdRules
  <1>a. PICK p \in Protos : \E n \in left(want, kept)[p] : x = <<p, n>>
    BY PairsOf DEF freshPairs
  <1>2. PICK n \in left(want, kept)[p] : x = <<p, n>>
    BY <1>a
  <1>3. n \in Ports
    BY LeftType DEF Wanted, TypeOK
  <1>4. f[x] \in PriorityStart..PriorityMax
    BY DEF Writes
  <1>5. /\ r.kind = p
        /\ r.port = n
        /\ r.priority = f[x]
        /\ r \in Rule
    BY <1>1, <1>2, <1>3, <1>4 DEF Rule
  <1> QED
    BY <1>1, <1>2, <1>5

\* The rules that SyncGet writes are rules.
LEMMA SyncGetType ==
    ASSUME TypeOK, NEW g \in Groups, SyncGet(g)
    PROVE  want' \in Wanted /\ newRules' \subseteq Rule
  <1>1. PICK kept, f : kept \in remaining(groups[g], want) /\ Writes(g, kept, f)
    BY SyncGetWrites
  <1>2. want' \in Wanted
    BY <1>1, LeftType DEF TypeOK, Writes
  <1>3. groups[g] \subseteq Rule /\ kept \subseteq groups[g]
    BY <1>1, RemainingRules
  <1>4. \A r \in kept : reset(r) \in Rule
    BY <1>3, ResetFields
  <1>5. createdRules(kept, f) \subseteq Rule
    BY <1>1, MadeRules
  <1>6. otherRules(g) \subseteq Rule
    BY <1>3 DEF otherRules
  <1> QED
    BY <1>1, <1>2, <1>4, <1>5, <1>6 DEF Writes

-----------------------------------------------------------------------------
(* Type correctness                                                         *)

\* Every variable keeps its type; in particular the priority that getValidPriority
\* hands out, new or of a deleted rule, stays within the range that Azure allows.
THEOREM TypeCorrect == Spec => []TypeOK
  <1>1. Init => TypeOK
    <2> SUFFICES ASSUME Init PROVE TypeOK
      OBVIOUS
    <2>1. 0 \in 0..MaxCalls /\ 0 \in 0..MaxEdits /\ PriorityStart \in PriorityStart..PriorityMax
      BY SecurityGroupsAssumption
    <2>2. OwnerRule(80, PriorityStart) \in Rule
      BY <2>1 DEF OwnerRule, Rule, Ports
    <2>3. groups \in [Groups -> SUBSET Rule]
      BY <2>2 DEF Init
    <2>4. Nothing \in Wanted
      BY DEF Nothing, Wanted
    <2> QED
      BY <2>1, <2>3, <2>4 DEF Init, TypeOK
  <1>2. TypeOK /\ [Next]_vars => TypeOK'
    <2> SUFFICES ASSUME TypeOK, [Next]_vars PROVE TypeOK'
      OBVIOUS
    <2>1. ASSUME NEW g \in Groups, Edits(g) PROVE TypeOK'
      <3>1. PICK rules \in SUBSET Rule : Edit(g, rules)
        BY <2>1, EditsStep
      <3>2. ownerRules(rules) \subseteq Rule
        BY DEF ownerRules
      <3>3. groups' \in [Groups -> SUBSET Rule] /\ owners' \in [Groups -> SUBSET Rule]
        BY <3>1, <3>2 DEF Edit, TypeOK
      <3>4. raced' \subseteq Groups
        BY <3>1 DEF Edit, TypeOK
      <3>5. edits' \in 0..MaxEdits
        BY <3>1, SecurityGroupsAssumption DEF Edit, TypeOK
      <3> QED
        BY <3>1, <3>3, <3>4, <3>5 DEF Edit, TypeOK
    <2>2. ASSUME NEW d \in SUBSET Groups, NEW a \in SUBSET Groups,
                 NEW w \in [Protos -> SUBSET Exported], Call(d, a, w)
          PROVE  TypeOK'
      <3>1. want' \in Wanted
        BY <2>2 DEF Call, Wanted, Ports, Protos
      <3>2. owners' \in [Groups -> SUBSET Rule]
        BY <2>2 DEF Call, TypeOK, ownerRules
      <3>3. calls' \in 0..MaxCalls
        BY <2>2, SecurityGroupsAssumption DEF Call, TypeOK
      <3> QED
        BY <2>2, <3>1, <3>2, <3>3 DEF Call, TypeOK
    <2>3. ASSUME NEW g \in Groups, DeleteGet(g) PROVE TypeOK'
      BY <2>3 DEF DeleteGet, TypeOK
    <2>4. CASE DeleteDone
      BY <2>4 DEF DeleteDone, TypeOK
    <2>5. ASSUME NEW g \in Groups, SyncGet(g) PROVE TypeOK'
      <3>1. want' \in Wanted /\ newRules' \subseteq Rule
        BY <2>5, SyncGetType
      <3> QED
        BY <2>5, <3>1 DEF SyncGet, TypeOK
    <2>6. CASE Put
      BY <2>6 DEF Put, TypeOK
    <2>7. CASE SyncDone
      BY <2>7 DEF SyncDone, TypeOK
    <2>8. CASE Fail
      BY <2>8 DEF Fail, TypeOK
    <2>9. CASE UNCHANGED vars
      BY <2>9 DEF vars, TypeOK
    <2> QED
      BY <2>1, <2>2, <2>3, <2>4, <2>5, <2>6, <2>7, <2>8, <2>9 DEF Next
  <1> QED
    BY <1>1, <1>2, PTL DEF Spec

-----------------------------------------------------------------------------
(* Unique priorities                                                        *)

\* What is written has unique priorities when what was read has: a reused priority
\* belongs to a rule that is gone, and to no rule that stays.
LEMMA SyncGetUnique ==
    ASSUME TypeOK, NEW g \in Groups, SyncGet(g), Unique(groups[g])
    PROVE  Unique(newRules')
  <1>1. PICK kept, f : kept \in remaining(groups[g], want) /\ Writes(g, kept, f)
    BY SyncGetWrites
  <1>2. groups[g] \subseteq Rule /\ kept \subseteq groups[g] /\ \A r \in kept : r.kind \in Protos
    BY <1>1, RemainingRules
  <1>3. \A r \in kept : reset(r).priority = r.priority /\ reset(r) \in Rule
    BY <1>2, ResetFields
  <1>4. ASSUME NEW r \in otherRules(g) \cup {reset(k) : k \in kept}
        PROVE  \E o \in otherRules(g) \cup kept : /\ r.priority = o.priority
                                             /\ r = IF o \in kept THEN reset(o) ELSE o
    <2>1. CASE r \in otherRules(g)
      <3>1. r \notin kept
        BY <1>2, <2>1 DEF otherRules, generated
      <3> QED
        BY <2>1, <3>1
    <2>2. CASE r \in {reset(k) : k \in kept}
      BY <1>3, <2>2
    <2> QED
      BY <2>1, <2>2
  <1>5. otherRules(g) \cup kept \subseteq groups[g]
    BY <1>2 DEF otherRules
  <1>6. ASSUME NEW r \in otherRules(g) \cup {reset(k) : k \in kept},
               NEW q \in otherRules(g) \cup {reset(k) : k \in kept}, r.priority = q.priority
        PROVE  r = q
    <2>1. PICK o \in otherRules(g) \cup kept : /\ r.priority = o.priority
                                          /\ r = IF o \in kept THEN reset(o) ELSE o
      BY <1>4
    <2>2. PICK t \in otherRules(g) \cup kept : /\ q.priority = t.priority
                                          /\ q = IF t \in kept THEN reset(t) ELSE t
      BY <1>4
    <2>3. o = t
      BY <1>5, <1>6, <2>1, <2>2 DEF Unique
    <2> QED
      BY <2>1, <2>2, <2>3
  <1>7. ASSUME NEW r \in otherRules(g) \cup {reset(k) : k \in kept}, NEW q \in createdRules(kept, f)
        PROVE  r.priority # q.priority
    <2>1. PICK o \in otherRules(g) \cup kept : r.priority = o.priority
      BY <1>4
    <2>2. PICK x \in freshPairs(kept) : q.priority = f[x]
      BY <1>1, MadeRules
    <2>3. f[x] \in priorities(goneRules(g, kept)) \/ f[x] \notin priorities(otherRules(g) \cup kept)
      BY <1>1 DEF Writes
    <2>4. CASE f[x] \in priorities(goneRules(g, kept))
      <3>1. PICK t \in goneRules(g, kept) : f[x] = t.priority
        BY <2>4 DEF priorities
      <3>2. t \in groups[g] /\ t \notin otherRules(g) \cup kept
        BY DEF goneRules
      <3> QED
        BY <1>5, <2>1, <2>2, <3>1, <3>2 DEF Unique
    <2>5. CASE f[x] \notin priorities(otherRules(g) \cup kept)
      BY <2>1, <2>2, <2>5 DEF priorities
    <2> QED
      BY <2>3, <2>4, <2>5
  <1>8. ASSUME NEW r \in createdRules(kept, f), NEW q \in createdRules(kept, f),
               r.priority = q.priority
        PROVE  r = q
    <2>1. PICK x \in freshPairs(kept) :
            /\ r.priority = f[x]
            /\ r = [kind |-> x[1], port |-> x[2], priority |-> f[x], default |-> TRUE]
      BY <1>1, MadeRules
    <2>2. PICK y \in freshPairs(kept) :
            /\ q.priority = f[y]
            /\ q = [kind |-> y[1], port |-> y[2], priority |-> f[y], default |-> TRUE]
      BY <1>1, MadeRules
    <2>3. x = y
      BY <1>1, <1>8, <2>1, <2>2 DEF Writes
    <2> QED
      BY <2>1, <2>2, <2>3
  <1>9. newRules' = (otherRules(g) \cup {reset(k) : k \in kept}) \cup createdRules(kept, f)
    BY <1>1 DEF Writes
  <1> QED
    BY <1>6, <1>7, <1>8, <1>9 DEF Unique

\* No group ever holds two rules of one priority, neither at Azure nor in the update
\* that is about to be sent, although the synchronisation reuses the priorities of
\* the rules it deletes and the owner's rules lie in the same range.
THEOREM UniquePrioritiesCorrect == Spec => []UniquePriorities
  <1>1. Init => UniquePriorities
    BY DEF Init, UniquePriorities, Unique
  <1>2. TypeOK /\ UniquePriorities /\ [Next]_vars => UniquePriorities'
    <2> SUFFICES ASSUME TypeOK, UniquePriorities, [Next]_vars PROVE UniquePriorities'
      OBVIOUS
    <2>1. ASSUME NEW g \in Groups, Edits(g) PROVE UniquePriorities'
      <3>1. PICK rules \in SUBSET Rule : Edit(g, rules)
        BY <2>1, EditsStep
      <3>2. /\ Unique(rules) /\ newRules' = newRules
            /\ groups' = [groups EXCEPT ![g] = rules]
        BY <3>1 DEF Edit
      <3>3. \A h \in Groups : groups'[h] = rules \/ groups'[h] = groups[h]
        BY <3>2 DEF TypeOK
      <3> QED
        BY <3>2, <3>3 DEF UniquePriorities, Unique
    <2>2. ASSUME NEW d \in SUBSET Groups, NEW a \in SUBSET Groups,
                 NEW w \in [Protos -> SUBSET Exported], Call(d, a, w)
          PROVE  UniquePriorities'
      BY <2>2 DEF Call, UniquePriorities, Unique
    <2>3. ASSUME NEW g \in Groups, DeleteGet(g) PROVE UniquePriorities'
      BY <2>3 DEF DeleteGet, UniquePriorities, Unique
    <2>4. CASE DeleteDone
      BY <2>4 DEF DeleteDone, UniquePriorities, Unique
    <2>5. ASSUME NEW g \in Groups, SyncGet(g) PROVE UniquePriorities'
      <3>1. Unique(newRules')
        BY <2>5, SyncGetUnique DEF UniquePriorities
      <3>2. groups' = groups
        BY <2>5 DEF SyncGet
      <3> QED
        BY <3>1, <3>2 DEF UniquePriorities, Unique
    <2>6. CASE Put
      <3>1. /\ newRules' = {}
            /\ groups' = [groups EXCEPT ![group] = newRules]
        BY <2>6 DEF Put
      <3>2. \A h \in Groups : groups'[h] = newRules \/ groups'[h] = groups[h]
        BY <3>1 DEF TypeOK
      <3> QED
        BY <3>1, <3>2 DEF UniquePriorities, Unique
    <2>7. CASE SyncDone
      BY <2>7 DEF SyncDone, UniquePriorities, Unique
    <2>8. CASE Fail
      BY <2>8 DEF Fail, UniquePriorities, Unique
    <2>9. CASE UNCHANGED vars
      BY <2>9 DEF vars, UniquePriorities, Unique
    <2> QED
      BY <2>1, <2>2, <2>3, <2>4, <2>5, <2>6, <2>7, <2>8, <2>9 DEF Next
  <1> QED
    BY <1>1, <1>2, TypeCorrect, PTL DEF Spec

-----------------------------------------------------------------------------
(* The rules of the owner                                                   *)

\* The group whose update is about to be sent was taken from the lists, which have
\* no group in common, so that an edit of it counts as a race; unless it is raced,
\* the update carries the owner's rules.
OwnerInv ==
    /\ deleteSg \cap syncSg = {}
    /\ group # NoGroup => group \notin deleteSg \cup syncSg
    /\ (group # NoGroup /\ group \notin raced) => ownerRules(newRules) = owners[group]
    /\ OwnerRulesKept

\* Neither of the two updates touches a rule of the owner.
LEMMA WritesOwnerRules ==
    ASSUME TypeOK, NEW g \in Groups, DeleteGet(g) \/ SyncGet(g)
    PROVE  ownerRules(newRules') = ownerRules(groups[g])
  <1>1. groups[g] \subseteq Rule
    BY DEF TypeOK
  <1>2. \A r \in groups[g] : ~generated(r) <=> r.kind = "owner"
    BY <1>1, RuleFields DEF generated, Protos
  <1>3. CASE DeleteGet(g)
    BY <1>2, <1>3 DEF DeleteGet, ownerRules
  <1>4. CASE SyncGet(g)
    <2>1. PICK kept, f : kept \in remaining(groups[g], want) /\ Writes(g, kept, f)
      BY <1>4, SyncGetWrites
    <2>2. \A r \in kept : r \in Rule /\ r.kind \in Protos
      BY <2>1, RemainingRules
    <2>3. \A r \in kept : reset(r).kind # "owner"
      BY <2>2, ResetFields DEF Protos
    <2>4. \A r \in createdRules(kept, f) : r.kind # "owner"
      BY <2>1, MadeRules DEF Protos
    <2>5. newRules' = otherRules(g) \cup {reset(r) : r \in kept} \cup createdRules(kept, f)
      BY <2>1 DEF Writes
    <2> QED
      BY <1>2, <2>3, <2>4, <2>5 DEF ownerRules, otherRules
  <1> QED
    BY <1>3, <1>4

LEMMA OwnerInvCorrect == Spec => []OwnerInv
  <1>1. Init => OwnerInv
    <2> SUFFICES ASSUME Init PROVE OwnerInv
      OBVIOUS
    <2>1. \A g \in Groups : ownerRules(groups[g]) = groups[g]
      BY DEF Init, ownerRules, OwnerRule
    <2> QED
      BY <2>1 DEF Init, OwnerInv, OwnerRulesKept
  <1>2. TypeOK /\ OwnerInv /\ [Next]_vars => OwnerInv'
    <2> SUFFICES ASSUME TypeOK, OwnerInv, [Next]_vars PROVE OwnerInv'
      OBVIOUS
    <2>1. ASSUME NEW g \in Groups, Edits(g) PROVE OwnerInv'
      <3>1. PICK rules \in SUBSET Rule : Edit(g, rules)
        BY <2>1, EditsStep
      <3>2. /\ groups' = [groups EXCEPT ![g] = rules]
            /\ owners' = [owners EXCEPT ![g] = ownerRules(rules)]
            /\ raced' = IF g \in deleteSg \cup syncSg THEN raced ELSE raced \cup {g}
            /\ UNCHANGED <<deleteSg, syncSg, group, newRules>>
        BY <3>1 DEF Edit
      <3>3. \A h \in Groups : \/ h # g /\ groups'[h] = groups[h] /\ owners'[h] = owners[h]
                              \/ h = g /\ groups'[h] = rules /\ owners'[h] = ownerRules(rules)
        BY <3>2 DEF TypeOK
      <3>4. OwnerRulesKept'
        BY <3>2, <3>3 DEF OwnerInv, OwnerRulesKept, ownerRules
      <3>5. ASSUME group # NoGroup, group \notin raced'
            PROVE  ownerRules(newRules) = owners'[group]
        <4>1. group # g /\ group \notin raced /\ group \in Groups
          BY <3>2, <3>5 DEF OwnerInv, TypeOK
        <4> QED
          BY <3>3, <3>5, <4>1 DEF OwnerInv
      <3> QED
        BY <3>2, <3>4, <3>5 DEF OwnerInv, ownerRules
    <2>2. ASSUME NEW d \in SUBSET Groups, NEW a \in SUBSET Groups,
                 NEW w \in [Protos -> SUBSET Exported], Call(d, a, w)
          PROVE  OwnerInv'
      BY <2>2 DEF Call, OwnerInv, OwnerRulesKept, ownerRules
    <2>3. ASSUME NEW g \in Groups, DeleteGet(g) PROVE OwnerInv'
      <3>1. ownerRules(newRules') = ownerRules(groups[g])
        BY <2>3, WritesOwnerRules
      <3>2. /\ group' \in {NoGroup, g} /\ g \in deleteSg /\ deleteSg' = deleteSg \ {g}
            /\ UNCHANGED <<groups, syncSg, raced, owners>>
        BY <2>3 DEF DeleteGet
      <3> QED
        BY <3>1, <3>2 DEF OwnerInv, OwnerRulesKept, ownerRules
    <2>4. CASE DeleteDone
      BY <2>4 DEF DeleteDone, OwnerInv, OwnerRulesKept, ownerRules
    <2>5. ASSUME NEW g \in Groups, SyncGet(g) PROVE OwnerInv'
      <3>1. ownerRules(newRules') = ownerRules(groups[g])
        BY <2>5, WritesOwnerRules
      <3>2. /\ group' \in {NoGroup, g} /\ g \in syncSg /\ syncSg' = syncSg \ {g}
            /\ UNCHANGED <<groups, deleteSg, raced, owners>>
        BY <2>5 DEF SyncGet
      <3> QED
        BY <3>1, <3>2 DEF OwnerInv, OwnerRulesKept, ownerRules
    <2>6. CASE Put
      <3>1. \A h \in Groups : groups'[h] = IF h = group THEN newRules ELSE groups[h]
        BY <2>6 DEF Put, TypeOK
      <3> QED
        BY <2>6, <3>1 DEF Put, OwnerInv, OwnerRulesKept, ownerRules
    <2>7. CASE SyncDone
      BY <2>7 DEF SyncDone, OwnerInv, OwnerRulesKept, ownerRules
    <2>8. CASE Fail
      BY <2>8 DEF Fail, OwnerInv, OwnerRulesKept, ownerRules
    <2>9. CASE UNCHANGED vars
      BY <2>9 DEF vars, OwnerInv, OwnerRulesKept, ownerRules
    <2> QED
      BY <2>1, <2>2, <2>3, <2>4, <2>5, <2>6, <2>7, <2>8, <2>9 DEF Next
  <1> QED
    BY <1>1, <1>2, TypeCorrect, PTL DEF Spec

\* A synchronisation, successful or not, keeps every rule of the owner, the edits he
\* made before the group was read included; only an edit that races with the call
\* may be lost.
THEOREM OwnerRulesKeptCorrect == Spec => []OwnerRulesKept
  <1>1. OwnerInv => OwnerRulesKept
    BY DEF OwnerInv
  <1> QED
    BY <1>1, OwnerInvCorrect, PTL

-----------------------------------------------------------------------------
(* Success                                                                  *)

\* One rule with default settings for every wanted port, and no other generated
\* rule: SingleGroupSynced without its cardinalities.
Synced(rules, w) ==
    LET gen == rules \ ownerRules(rules) IN
    /\ pairs(w) = {<<r.kind, r.port>> : r \in gen}
    /\ \A r, q \in gen : r.kind = q.kind /\ r.port = q.port => r = q
    /\ \A r \in gen : r.default

\* How a call for one group gets there. Until the group is read the wanted ports are
\* those of the call; then the update in hand, and after it was sent the group
\* itself, is as wanted unless somebody edits the group.
Progress(g) ==
    /\ pc = "delete" => syncSg = {g}
    /\ pc \in {"delete", "sync"} => syncSg \subseteq {g}
    /\ (pc \in {"delete", "sync"} /\ g \in syncSg) => want = ports
    /\ (pc = "sync" /\ group = g) => Synced(newRules, ports)
    /\ (pc \in {"sync", "ok"} /\ g \notin syncSg /\ group # g) => Synced(groups[g], ports)

SyncInv ==
    /\ asked \cap deleteSg = {}
    /\ pc = "ok" => group = NoGroup /\ syncSg = {}
    /\ \A g \in Groups : (asked = {g} /\ g \notin raced) => Progress(g)

\* There are finitely many rules: the cardinalities in the model mean something.
LEMMA FiniteRules == IsFiniteSet(Ports) /\ IsFiniteSet(Rule)
  <1>1. IsFiniteSet({80, 443})
    <2>1. {80, 443} = {80} \cup {443}
      OBVIOUS
    <2>2. IsFiniteSet({80}) /\ IsFiniteSet({443})
      BY FS_Singleton
    <2>3. IsFiniteSet({80} \cup {443})
      BY <2>2, FS_Union
    <2> QED
      BY <2>1, <2>3, Zenon
  <1>2. IsFiniteSet(Ports)
    BY <1>1, FS_Union, SecurityGroupsAssumption DEF Ports
  <1> DEFINE K == Protos \cup {"owner"}
             Q == PriorityStart..PriorityMax
             D == (K \X Ports) \X (Q \X BOOLEAN)
             F == [x \in D |-> [kind |-> x[1][1], port |-> x[1][2], priority |-> x[2][1],
                                default |-> x[2][2]]]
  <1>3. IsFiniteSet(K)
    <2>1. K = ({"tcp"} \cup {"udp"}) \cup {"owner"}
      BY DEF Protos
    <2> QED
      BY <2>1, FS_Singleton, FS_AddElement
  <1>4. IsFiniteSet(BOOLEAN)
    <2>1. BOOLEAN = {TRUE} \cup {FALSE}
      OBVIOUS
    <2>2. IsFiniteSet({TRUE})
      BY FS_Singleton
    <2>3. IsFiniteSet({TRUE} \cup {FALSE})
      BY <2>2, FS_AddElement, Zenon
    <2> QED
      BY <2>1, <2>3, Zenon
  <1>5. IsFiniteSet(Q)
    BY FS_Interval, SecurityGroupsAssumption
  <1>6. IsFiniteSet(K \X Ports) /\ IsFiniteSet(Q \X BOOLEAN)
    BY <1>2, <1>3, <1>4, <1>5, FS_Product
  <1>7. IsFiniteSet(D)
    BY <1>6, FS_Product
  <1>8. \A x \in D : F[x] \in Rule
    BY DEF Rule
  <1>9. ASSUME NEW r \in Rule PROVE \E x \in D : F[x] = r
    <2>1. /\ r.kind \in K /\ r.port \in Ports /\ r.priority \in Q /\ r.default \in BOOLEAN
          /\ r = [kind |-> r.kind, port |-> r.port, priority |-> r.priority,
                  default |-> r.default]
      BY RuleFields
    <2>2. <<<<r.kind, r.port>>, <<r.priority, r.default>>>> \in D
      BY <2>1
    <2>3. F[<<<<r.kind, r.port>>, <<r.priority, r.default>>>>] = r
      BY <2>1, <2>2
    <2> QED
      BY <2>2, <2>3
  <1>10. F \in Surjection(D, Rule)
    BY <1>8, <1>9 DEF Surjection
  <1> QED
    BY <1>2, <1>7, <1>10, FS_Surjection

\* Two generated rules that remain are for different ports.
LEMMA RemainingOnce ==
    ASSUME TypeOK, NEW g \in Groups, NEW kept \in remaining(groups[g], want),
           NEW r \in kept, NEW q \in kept, r.kind = q.kind, r.port = q.port
    PROVE  r = q
  <1> DEFINE same == {t \in kept : t.kind = r.kind /\ t.port = r.port}
  <1>1. groups[g] \subseteq Rule /\ kept \subseteq groups[g]
    BY RemainingRules
  <1>2. Cardinality(same) = 1
    BY DEF remaining
  <1>3. same \in SUBSET Rule
    BY <1>1
  <1>4. IsFiniteSet(same)
    BY <1>3, FiniteRules, FS_Subset
  <1>5. \E x : same = {x}
    BY <1>2, <1>4, FS_Singleton
  <1>6. r \in same /\ q \in same
    OBVIOUS
  <1> HIDE DEF same
  <1> QED
    BY <1>5, <1>6

\* The update of a group that is read while all ports are still wanted.
LEMMA SyncGetSynced ==
    ASSUME TypeOK, NEW g \in Groups, SyncGet(g), want = ports
    PROVE  Synced(newRules', ports)
  <1>1. PICK kept, f : kept \in remaining(groups[g], want) /\ Writes(g, kept, f)
    BY SyncGetWrites
  <1> DEFINE old == {reset(r) : r \in kept}
             gen == old \cup createdRules(kept, f)
  <1>2. /\ groups[g] \subseteq Rule
        /\ kept \subseteq groups[g]
        /\ \A r \in kept : r.kind \in Protos /\ r.port \in want[r.kind]
    BY <1>1, RemainingRules
  <1>3. \A r \in kept : /\ reset(r).kind = r.kind /\ reset(r).port = r.port
                        /\ reset(r).default = TRUE
    BY <1>2, ResetFields
  <1>4. \A r \in createdRules(kept, f) :
          /\ r.kind \in Protos /\ r.port \in left(want, kept)[r.kind]
          /\ r.default = TRUE
          /\ r = [kind |-> r.kind, port |-> r.port, priority |-> f[<<r.kind, r.port>>],
                  default |-> TRUE]
    <2> SUFFICES ASSUME NEW r \in createdRules(kept, f)
                 PROVE /\ r.kind \in Protos /\ r.port \in left(want, kept)[r.kind]
                       /\ r.default = TRUE
                       /\ r = [kind |-> r.kind, port |-> r.port,
                               priority |-> f[<<r.kind, r.port>>], default |-> TRUE]
      OBVIOUS
    <2>1. PICK x \in freshPairs(kept) :
             /\ x = <<r.kind, r.port>>
             /\ r.kind \in Protos
             /\ r.port \in left(want, kept)[r.kind]
             /\ r = [kind |-> x[1], port |-> x[2], priority |-> f[x], default |-> TRUE]
      BY <1>1, MadeRules
    <2> QED
      BY <2>1
  <1>a. \A r \in createdRules(kept, f) :
          r.kind \in Protos /\ r.port \in left(want, kept)[r.kind] /\ r.default = TRUE
    BY <1>4
  <1>b. \A r \in gen : r \in createdRules(kept, f) \/ \E k \in kept : r = reset(k)
    OBVIOUS
  <1>5. newRules' \ ownerRules(newRules') = gen
    <2>1. \A r \in otherRules(g) : r.kind = "owner"
      BY <1>2, RuleFields DEF otherRules, generated
    <2>2. \A r \in gen : r.kind # "owner"
      BY <1>2, <1>3, <1>a, <1>b DEF Protos
    <2>3. newRules' = otherRules(g) \cup gen
      BY <1>1 DEF Writes
    <2> HIDE DEF gen
    <2> QED
      BY <2>1, <2>2, <2>3 DEF ownerRules
  <1>6. \A r \in gen : r.default
    BY <1>3, <1>a, <1>b
  <1>7. \A p \in Protos : left(want, kept)[p] = want[p] \ {r.port : r \in {s \in kept : s.kind = p}}
    BY DEF left
  <1>8. ASSUME NEW r \in gen, NEW q \in gen, r.kind = q.kind, r.port = q.port PROVE r = q
    <2>1. CASE r \in old /\ q \in old
      <3>1. PICK k \in kept, l \in kept : r = reset(k) /\ q = reset(l)
        BY <2>1
      <3>2. k.kind = l.kind /\ k.port = l.port
        BY <1>3, <1>8, <3>1
      <3>3. k = l
        BY <1>1, <3>2, RemainingOnce
      <3> QED
        BY <3>1, <3>3
    <2>2. CASE r \in createdRules(kept, f) /\ q \in createdRules(kept, f)
      <3>1. /\ r = [kind |-> r.kind, port |-> r.port, priority |-> f[<<r.kind, r.port>>],
                    default |-> TRUE]
            /\ q = [kind |-> q.kind, port |-> q.port, priority |-> f[<<q.kind, q.port>>],
                    default |-> TRUE]
        BY <1>4, <2>2, Zenon
      <3> QED
        BY <1>8, <3>1, Zenon
    <2>3. ASSUME NEW k \in kept, NEW t \in createdRules(kept, f)
          PROVE  reset(k).kind # t.kind \/ reset(k).port # t.port
      BY <1>3, <1>7, <1>a, <1>2
    <2> QED
      BY <1>8, <2>1, <2>2, <2>3
  <1>9. ASSUME NEW x \in pairs(ports) PROVE x \in {<<r.kind, r.port>> : r \in gen}
    <2>1. PICK p \in Protos : \E n \in want[p] : x = <<p, n>>
      BY PairsOf
    <2>2. PICK n \in want[p] : x = <<p, n>>
      BY <2>1
    <2>3. CASE \E k \in kept : k.kind = p /\ k.port = n
      BY <1>3, <2>2, <2>3
    <2>4. CASE ~\E k \in kept : k.kind = p /\ k.port = n
      <3>1. n \in left(want, kept)[p]
        BY <1>7, <2>4
      <3>2. x \in freshPairs(kept)
        BY <2>2, <3>1, PairsOf DEF freshPairs
      <3> DEFINE t == [kind |-> x[1], port |-> x[2], priority |-> f[x], default |-> TRUE]
      <3>3. t \in createdRules(kept, f)
        BY <3>2 DEF createdRules
      <3>4. <<t.kind, t.port>> = x
        BY <2>2
      <3> QED
        BY <3>3, <3>4
    <2> QED
      BY <2>3, <2>4
  <1>10. ASSUME NEW r \in gen PROVE <<r.kind, r.port>> \in pairs(ports)
    <2>1. r.kind \in Protos /\ r.port \in want[r.kind]
      BY <1>2, <1>3, <1>7, <1>a, <1>b
    <2> QED
      BY <2>1, PairsOf
  <1> HIDE DEF gen
  <1>11. pairs(ports) = {<<r.kind, r.port>> : r \in gen}
    BY <1>9, <1>10
  <1> QED
    BY <1>5, <1>6, <1>8, <1>11 DEF Synced

LEMMA SyncInvCorrect == Spec => []SyncInv
  <1>1. Init => SyncInv
    BY DEF Init, SyncInv
  <1>2. TypeOK /\ OwnerInv /\ SyncInv /\ [Next]_vars => SyncInv'
    <2> SUFFICES ASSUME TypeOK, OwnerInv, SyncInv, [Next]_vars PROVE SyncInv'
      OBVIOUS
    <2>1. ASSUME NEW g \in Groups, Edits(g) PROVE SyncInv'
      <3>1. PICK rules \in SUBSET Rule : Edit(g, rules)
        BY <2>1, EditsStep
      <3>2. /\ groups' = [groups EXCEPT ![g] = rules]
            /\ raced' = IF g \in deleteSg \cup syncSg THEN raced ELSE raced \cup {g}
            /\ UNCHANGED <<pc, deleteSg, syncSg, want, group, newRules, asked, ports>>
        BY <3>1 DEF Edit
      <3>3. ASSUME NEW h \in Groups, asked = {h}, h \notin raced'
            PROVE  /\ h \notin raced
                   /\ h \notin syncSg => groups'[h] = groups[h]
        <4>1. h \notin raced
          BY <3>2, <3>3
        <4>2. h \notin syncSg => h # g
          BY <3>2, <3>3 DEF SyncInv
        <4> QED
          BY <3>2, <4>1, <4>2 DEF TypeOK
      <3>4. ASSUME NEW h \in Groups, asked = {h}, h \notin raced' PROVE Progress(h)'
        <4>1. Progress(h)
          BY <3>3, <3>4 DEF SyncInv
        <4> QED
          BY <3>2, <3>3, <3>4, <4>1 DEF Progress
      <3> QED
        BY <3>2, <3>4 DEF SyncInv
    <2>2. ASSUME NEW d \in SUBSET Groups, NEW a \in SUBSET Groups,
                 NEW w \in [Protos -> SUBSET Exported], Call(d, a, w)
          PROVE  SyncInv'
      <3>1. /\ deleteSg' = d \ a /\ syncSg' = a /\ asked' = a /\ ports' = want'
            /\ pc' = "delete"
        BY <2>2 DEF Call
      <3> QED
        BY <3>1 DEF SyncInv, Progress
    <2>3. ASSUME NEW g \in Groups, DeleteGet(g) PROVE SyncInv'
      <3>1. /\ pc = "delete" /\ deleteSg' = deleteSg \ {g}
            /\ UNCHANGED <<pc, syncSg, want, asked, ports, raced>>
        BY <2>3 DEF DeleteGet
      <3> QED
        BY <3>1 DEF SyncInv, Progress
    <2>4. CASE DeleteDone
      <3>1. /\ pc = "delete" /\ pc' = "sync" /\ group = NoGroup
            /\ UNCHANGED <<groups, deleteSg, syncSg, want, group, newRules, asked, ports, raced>>
        BY <2>4 DEF DeleteDone
      <3>2. ASSUME NEW h \in Groups, asked = {h}, h \notin raced PROVE Progress(h)'
        <4>1. syncSg = {h} /\ want = ports /\ group # h
          BY <3>1, <3>2, SecurityGroupsAssumption DEF SyncInv, Progress
        <4> QED
          BY <3>1, <4>1 DEF Progress
      <3> QED
        BY <3>1, <3>2 DEF SyncInv
    <2>5. ASSUME NEW g \in Groups, SyncGet(g) PROVE SyncInv'
      <3>1. /\ pc = "sync" /\ g \in syncSg /\ syncSg' = syncSg \ {g}
            /\ group' = IF newRules' = groups[g] THEN NoGroup ELSE g
            /\ UNCHANGED <<groups, pc, deleteSg, asked, ports, raced>>
        BY <2>5 DEF SyncGet
      <3>2. ASSUME NEW h \in Groups, asked = {h}, h \notin raced PROVE Progress(h)'
        <4>1. syncSg = {h} /\ g = h /\ want = ports
          BY <3>1, <3>2 DEF SyncInv, Progress
        <4>2. Synced(newRules', ports)
          BY <2>5, <4>1, SyncGetSynced
        <4> QED
          BY <3>1, <4>1, <4>2 DEF Progress
      <3> QED
        BY <3>1, <3>2 DEF SyncInv
    <2>6. CASE Put
      <3>1. /\ group # NoGroup /\ group' = NoGroup
            /\ groups' = [groups EXCEPT ![group] = newRules]
            /\ UNCHANGED <<pc, deleteSg, syncSg, want, asked, ports, raced>>
        BY <2>6 DEF Put
      <3>2. pc # "ok"
        BY <3>1 DEF SyncInv
      <3>3. ASSUME NEW h \in Groups, asked = {h}, h \notin raced PROVE Progress(h)'
        <4>1. Progress(h)
          BY <3>3 DEF SyncInv
        <4>2. groups'[h] = IF h = group THEN newRules ELSE groups[h]
          BY <3>1 DEF TypeOK
        <4>3. group' # h
          BY <3>1, SecurityGroupsAssumption
        <4> QED
          BY <3>1, <3>2, <4>1, <4>2, <4>3 DEF Progress
      <3> QED
        BY <3>1, <3>2, <3>3 DEF SyncInv
    <2>7. CASE SyncDone
      <3>1. /\ pc = "sync" /\ pc' = "ok" /\ group = NoGroup /\ syncSg = {}
            /\ UNCHANGED <<groups, deleteSg, syncSg, want, group, newRules, asked, ports, raced>>
        BY <2>7 DEF SyncDone
      <3> QED
        BY <3>1 DEF SyncInv, Progress
    <2>8. CASE Fail
      <3>1. pc' = "error" /\ UNCHANGED <<deleteSg, asked, raced>>
        BY <2>8 DEF Fail
      <3> QED
        BY <3>1 DEF SyncInv, Progress
    <2>9. CASE UNCHANGED vars
      BY <2>9 DEF vars, SyncInv, Progress
    <2> QED
      BY <2>1, <2>2, <2>3, <2>4, <2>5, <2>6, <2>7, <2>8, <2>9 DEF Next
  <1> QED
    BY <1>1, <1>2, TypeCorrect, OwnerInvCorrect, PTL DEF Spec

\* One rule per pair: there are as many rules as pairs.
LEMMA SyncedCounts ==
    ASSUME NEW rules \in SUBSET Rule, NEW w \in Wanted, Synced(rules, w)
    PROVE  Cardinality(rules \ ownerRules(rules)) = Cardinality(pairs(w))
  <1> DEFINE gen == rules \ ownerRules(rules)
             h == [r \in gen |-> <<r.kind, r.port>>]
  <1>1. pairs(w) = {<<r.kind, r.port>> : r \in gen}
    BY DEF Synced
  <1>2. \A r, q \in gen : r.kind = q.kind /\ r.port = q.port => r = q
    BY DEF Synced
  <1> HIDE DEF gen
  <1>3. h \in [gen -> pairs(w)]
    BY <1>1
  <1>4. \A r, q \in gen : h[r] = h[q] => r = q
    BY <1>2
  <1>5. \A x \in pairs(w) : \E r \in gen : h[r] = x
    BY <1>1
  <1> HIDE DEF h
  <1>6. h \in Bijection(gen, pairs(w))
    BY <1>3, <1>4, <1>5 DEF Bijection, Injection, Surjection, IsInjective
  <1>7. gen \in SUBSET Rule
    BY DEF gen
  <1>8. IsFiniteSet(gen)
    BY <1>7, FiniteRules, FS_Subset
  <1>9. Cardinality(pairs(w)) = Cardinality(gen)
    BY <1>6, <1>8, FS_Bijection DEF ExistsBijection
  <1> QED
    BY <1>9 DEF gen

\* A call that succeeds and has one group to synchronise leaves exactly one rule with
\* default settings for each wanted port in it, whatever earlier calls, also failed
\* ones, and the owner have made of the group, unless it is edited during the call.
THEOREM SingleGroupSyncedCorrect == Spec => []SingleGroupSynced
  <1>1. TypeOK /\ SyncInv => SingleGroupSynced
    <2> SUFFICES ASSUME TypeOK, SyncInv, pc = "ok", Cardinality(asked) = 1,
                        NEW g \in asked \ raced
                 PROVE  LET made == groups[g] \ ownerRules(groups[g]) IN
                        /\ pairs(ports) = {<<r.kind, r.port>> : r \in made}
                        /\ Cardinality(made) = Cardinality(pairs(ports))
                        /\ \A r \in made : r.default
      BY DEF SingleGroupSynced
    <2>1. asked \in SUBSET Groups
      BY DEF TypeOK
    <2>2. IsFiniteSet(asked)
      BY <2>1, FS_Subset, SecurityGroupsAssumption
    <2>3. asked = {g}
      BY <2>2, FS_Singleton
    <2>4. Progress(g) /\ syncSg = {} /\ group # g /\ g \in Groups
      BY <2>1, <2>3, SecurityGroupsAssumption DEF SyncInv
    <2>5. Synced(groups[g], ports)
      BY <2>4 DEF Progress
    <2>6. groups[g] \in SUBSET Rule /\ ports \in Wanted
      BY <2>4 DEF TypeOK
    <2>7. Cardinality(groups[g] \ ownerRules(groups[g])) = Cardinality(pairs(ports))
      BY <2>5, <2>6, SyncedCounts
    <2> QED
      BY <2>5, <2>7 DEF Synced
  <1> QED
    BY <1>1, TypeCorrect, SyncInvCorrect, PTL

=============================================================================
