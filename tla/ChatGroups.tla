------------------------------ MODULE ChatGroups ------------------------------
(***************************************************************************)
(* The groups an administrator sorts users into (turtle_chat/store.py):    *)
(* resource groups with their capacities, the model groups of one provider *)
(* with their rules, and the assignments of users to both.  Every          *)
(* statement on model groups is made once for each provider; one stands    *)
(* here for all.  An older interface knows only combined groups: a         *)
(* resource group with rules, of which each provider has a projection, a   *)
(* model group linked to it by legacy_group_id.  Every start of the        *)
(* program projects what has not been projected.                           *)
(*                                                                         *)
(* A transaction looks first and writes later; the advisory locks of two   *)
(* operations often differ, and the foreign keys decide.                   *)
(***************************************************************************)
EXTENDS Naturals, FiniteSets

CONSTANTS
    Members,        \* users
    GroupIds,       \* ids of resource groups
    ModelIds,       \* ids of model groups
    Projection,     \* the id of a combined group's projection
    System,         \* resource groups of the deployment, the default among them
    DefaultGroup,
    Names, RuleSets,
    NoId, NoRules,  \* in place of an id, of rules
    Admins

ASSUME GroupsAssumption ==
    /\ Projection \in [GroupIds -> ModelIds]
    /\ \A g, h \in GroupIds : Projection[g] = Projection[h] => g = h
    /\ System \subseteq GroupIds /\ DefaultGroup \in System
    /\ NoId \notin GroupIds \cup ModelIds /\ NoRules \notin RuleSets
    /\ Cardinality(Names) >= Cardinality(System)

VARIABLES
    groups,     \* chat_group with chat_group_rule
    models,     \* chat_model_group with chat_model_group_rule
    memberOf,   \* chat_user_group
    modelOf,    \* chat_user_model_group
    override,   \* users with a row in chat_policy
    spent,      \* ids of deleted groups: a new group gets a new one
    looked      \* what an administrator's transaction has seen and will write

groupsVars == <<groups, models, memberOf, modelOf, override, spent, looked>>

Gone == [there |-> FALSE, name |-> NoId, rules |-> NoRules, legacy |-> NoId]
Idle == [op |-> "none", user |-> NoId, id |-> NoId]

GroupsTypeOK ==
    /\ groups \in [GroupIds -> [there : BOOLEAN, name : Names \cup {NoId},
                                rules : RuleSets \cup {NoRules}, legacy : {NoId}]]
    /\ models \in [ModelIds -> [there : BOOLEAN, name : Names \cup {NoId},
                                rules : RuleSets \cup {NoRules}, legacy : GroupIds \cup {NoId}]]
    /\ memberOf \in [Members -> GroupIds \cup {NoId}]
    /\ modelOf \in [Members -> ModelIds \cup {NoId}]
    /\ override \subseteq Members /\ spent \subseteq GroupIds \cup ModelIds
    /\ looked \in [Admins -> [op : {"none", "assign", "assignModel", "delete", "deleteModel"},
                              user : Members \cup {NoId}, id : GroupIds \cup ModelIds \cup {NoId}]]

Row(name, rules, legacy) == [there |-> TRUE, name |-> name, rules |-> rules, legacy |-> legacy]

\* UNIQUE (name), UNIQUE (provider_family, name)
NameFree(table, id, name) == \A x \in DOMAIN table \ {id} : table[x].there => table[x].name # name

-----------------------------------------------------------------------------
(***************************************************************************)
(* The start of the program: _migrate_model_groups().                      *)
(***************************************************************************)
Combined == {g \in GroupIds : groups[g].there /\ groups[g].rules # NoRules}

\* An insert that meets a row with its id or its name does nothing.
Projected(g, table) ==
    IF table[Projection[g]].there THEN table
    ELSE [table EXCEPT ![Projection[g]] = Row(groups[g].name, groups[g].rules, g)]
ProjectedAll == [m \in ModelIds |->
    IF \E g \in Combined : Projection[g] = m
    THEN Projected(CHOOSE g \in Combined : Projection[g] = m, models)[m] ELSE models[m]]

\* ... and then the rules refer to a model group that is not there.
Clash == \E g \in Combined :
    ~models[Projection[g]].there /\ ~NameFree(models, Projection[g], groups[g].name)

Heir(g, table) == {m \in ModelIds : table[m].there /\ table[m].legacy = g}

Assigned(table, assigned) == [u \in Members |->
    IF assigned[u] = NoId /\ memberOf[u] # NoId /\ Heir(memberOf[u], table) # {}
    THEN CHOOSE m \in Heir(memberOf[u], table) : TRUE ELSE assigned[u]]

\* Mutant: users are assigned before the groups are projected.
StartedEarly ==
    /\ models' = ProjectedAll
    /\ modelOf' = Assigned(models, modelOf)
Started ==
    /\ models' = ProjectedAll
    /\ modelOf' = Assigned(ProjectedAll, modelOf)

\* Every transaction under way is lost.
Start ==
    /\ ~Clash /\ Started
    /\ looked' = [a \in Admins |-> Idle]
    /\ UNCHANGED <<groups, memberOf, override, spent>>

GroupsInit ==
    /\ \E name \in [System -> Names], rules \in [System -> RuleSets] :
          /\ \A g, h \in System : name[g] = name[h] => g = h
          /\ groups = [g \in GroupIds |-> IF g \in System THEN Row(name[g], rules[g], NoId) ELSE Gone]
          /\ models = [m \in ModelIds |->
                IF \E g \in System : Projection[g] = m
                THEN LET g == CHOOSE x \in System : Projection[x] = m IN Row(name[g], rules[g], g)
                ELSE Gone]
    /\ memberOf = [u \in Members |-> NoId] /\ modelOf = [u \in Members |-> NoId]
    /\ override = {} /\ spent = {}
    /\ looked = [a \in Admins |-> Idle]

-----------------------------------------------------------------------------
(***************************************************************************)
(* Groups.  One transaction each, undone by a name that is taken.          *)
(***************************************************************************)
\* _sync_legacy_model_groups(): the projection follows the combined group.
Synced(g, name, rules) == [models EXCEPT ![Projection[g]] = Row(name, rules, g)]

\* create_group(), update_group()
WriteGroup(g, name, rules) ==
    /\ g \notin spent /\ NameFree(groups, g, name)
    /\ NameFree(models, Projection[g], name)
    /\ groups' = [groups EXCEPT ![g] = Row(name, rules, NoId)]
    /\ models' = Synced(g, name, rules)
    /\ <<groups', models'>> # <<groups, models>>
    /\ UNCHANGED <<memberOf, modelOf, override, spent, looked>>

\* create_resource_group(), update_resource_group(): rules are left alone.
WriteResource(g, name) ==
    /\ g \notin spent /\ NameFree(groups, g, name)
    /\ groups' = [groups EXCEPT ![g] = Row(name, groups[g].rules, NoId)]
    /\ groups' # groups
    /\ UNCHANGED <<models, memberOf, modelOf, override, spent, looked>>

\* create_model_group(), update_model_group()
WriteModel(m, name, rules) ==
    /\ models[m].there \/ (m \notin spent /\ \A g \in GroupIds : Projection[g] # m)
    /\ NameFree(models, m, name)
    /\ models' = [models EXCEPT ![m] = Row(name, rules, models[m].legacy)]
    /\ models' # models
    /\ UNCHANGED <<groups, memberOf, modelOf, override, spent, looked>>

-----------------------------------------------------------------------------
(***************************************************************************)
(* Assignments and deletions look first: assign_resource_group(),          *)
(* assign_model_group(), delete_group(), delete_model_group().             *)
(***************************************************************************)
SystemModel(m) == models[m].legacy \in System

Look(a, op, u, id) ==
    /\ looked[a] = Idle
    /\ CASE op = "assign" -> groups[id].there
         [] op = "assignModel" -> models[id].there
         [] op = "delete" -> groups[id].there /\ id \notin System
                             /\ \A v \in Members : memberOf[v] # id
         [] op = "deleteModel" -> models[id].there /\ ~SystemModel(id)
                                  /\ \A v \in Members : modelOf[v] # id
    /\ looked' = [looked EXCEPT ![a] = [op |-> op, user |-> u, id |-> id]]
    /\ UNCHANGED <<groups, models, memberOf, modelOf, override, spent>>

Wrote(a) == looked' = [looked EXCEPT ![a] = Idle]
Refused(a) == Wrote(a) /\ UNCHANGED <<groups, models, memberOf, modelOf, override, spent>>

AssignGroupRow(a) ==
    /\ looked[a].op = "assign"
    /\ IF groups[looked[a].id].there
       THEN /\ memberOf' = [memberOf EXCEPT ![looked[a].user] = looked[a].id] /\ Wrote(a)
            /\ UNCHANGED <<groups, models, modelOf, override, spent>>
       ELSE Refused(a)

AssignModelRow(a) ==
    /\ looked[a].op = "assignModel"
    /\ IF models[looked[a].id].there
       THEN /\ modelOf' = [modelOf EXCEPT ![looked[a].user] = looked[a].id] /\ Wrote(a)
            /\ UNCHANGED <<groups, models, memberOf, override, spent>>
       ELSE Refused(a)

DeleteGroupRow(a) ==
    /\ looked[a].op = "delete"
    /\ IF \A u \in Members : memberOf[u] # looked[a].id
       THEN /\ groups' = [groups EXCEPT ![looked[a].id] = Gone] /\ Wrote(a)
            /\ spent' = spent \cup {looked[a].id}
            /\ UNCHANGED <<models, memberOf, modelOf, override>>
       ELSE Refused(a)

NoMembers(m) == \A u \in Members : modelOf[u] # m

DeleteModelRow(a) ==
    /\ looked[a].op = "deleteModel"
    /\ IF NoMembers(looked[a].id)
       THEN /\ models' = [models EXCEPT ![looked[a].id] = Gone] /\ Wrote(a)
            /\ spent' = spent \cup {looked[a].id}
            /\ UNCHANGED <<groups, memberOf, modelOf, override>>
       ELSE Refused(a)

\* assign_group(): the combined group and its projection at once.
AssignBoth(u, g) ==
    /\ groups[g].there /\ Heir(g, models) # {}
    /\ memberOf' = [memberOf EXCEPT ![u] = g]
    /\ \E m \in Heir(g, models) : modelOf' = [modelOf EXCEPT ![u] = m]
    /\ <<memberOf', modelOf'>> # <<memberOf, modelOf>>
    /\ UNCHANGED <<groups, models, override, spent, looked>>

\* bulk_assign_groups(): all of them or none.
BulkAssign(users, g, m) ==
    /\ g # NoId \/ m # NoId
    /\ g # NoId => groups[g].there
    /\ m # NoId => models[m].there
    /\ memberOf' = [u \in Members |-> IF u \in users /\ g # NoId THEN g ELSE memberOf[u]]
    /\ modelOf' = [u \in Members |-> IF u \in users /\ m # NoId THEN m ELSE modelOf[u]]
    /\ <<memberOf', modelOf'>> # <<memberOf, modelOf>>
    /\ UNCHANGED <<groups, models, override, spent, looked>>

\* set_policy(): the user's own list of models, instead of groups.
SetPolicy(u) ==
    /\ memberOf' = [memberOf EXCEPT ![u] = NoId]
    /\ modelOf' = [modelOf EXCEPT ![u] = NoId]
    /\ override' = override \cup {u}
    /\ <<memberOf', modelOf', override'>> # <<memberOf, modelOf, override>>
    /\ UNCHANGED <<groups, models, spent, looked>>

Administration ==
    \/ \E g \in GroupIds, name \in Names, rules \in RuleSets : WriteGroup(g, name, rules)
    \/ \E g \in GroupIds, name \in Names : WriteResource(g, name)
    \/ \E m \in ModelIds, name \in Names, rules \in RuleSets : WriteModel(m, name, rules)
    \/ \E a \in Admins :
          \/ \E u \in Members :
                \/ \E g \in GroupIds : Look(a, "assign", u, g)
                \/ \E m \in ModelIds : Look(a, "assignModel", u, m)
          \/ \E g \in GroupIds : Look(a, "delete", NoId, g)
          \/ \E m \in ModelIds : Look(a, "deleteModel", NoId, m)
          \/ AssignGroupRow(a) \/ AssignModelRow(a) \/ DeleteGroupRow(a) \/ DeleteModelRow(a)
    \/ \E u \in Members, g \in GroupIds : AssignBoth(u, g)
    \/ \E users \in SUBSET Members \ {{}}, g \in GroupIds \cup {NoId}, m \in ModelIds \cup {NoId} :
          BulkAssign(users, g, m)
    \/ \E u \in Members : SetPolicy(u)

GroupsNext == Administration \/ Start
GroupsSpec == GroupsInit /\ [][GroupsNext]_groupsVars

-----------------------------------------------------------------------------
(***************************************************************************)
(* What a user may do: _resolved_policy().                                 *)
(***************************************************************************)
PolicyOf(u) ==
    IF modelOf[u] # NoId THEN [source |-> "assigned", rules |-> models[modelOf[u]].rules]
    ELSE IF u \in override THEN [source |-> "legacy", rules |-> NoRules]
    ELSE [source |-> "default", rules |-> models[Projection[DefaultGroup]].rules]

\* No assignment refers to a group that is gone, in whatever order
\* administrators assign, count members and delete.
Referenced == \A u \in Members :
    /\ memberOf[u] # NoId => groups[memberOf[u]].there
    /\ modelOf[u] # NoId => models[modelOf[u]].there

\* Every user has rules to be judged by, also when groups have been deleted
\* under them, unless a list of their own replaces the groups
\* (_resolved_policy).
RulesResolve == \A u \in Members :
    PolicyOf(u).source # "legacy" => PolicyOf(u).rules \in RuleSets

\* A start leaves nothing for the next one to do (_migrate_model_groups:
\* "additive and idempotent").
StartIsIdempotent ==
    [][\/ \A u \in Members :
             modelOf'[u] = NoId => memberOf'[u] = NoId \/ Heir(memberOf'[u], models') = {}
       \/ ~Start]_groupsVars

\* What a start finds assigned it leaves: a user keeps the group, and the
\* group its name and rules (_migrate_model_groups).
AssignmentsWin ==
    [][\/ /\ \A u \in Members : modelOf[u] # NoId => modelOf'[u] = modelOf[u]
          /\ \A m \in ModelIds : models[m].there => models'[m] = models[m]
       \/ ~Start]_groupsVars

\* Administrators and restarts together: no assignment dangles, and the
\* migration converges without taking back what is assigned.
GroupsSafety == [](GroupsTypeOK /\ Referenced /\ RulesResolve) /\ StartIsIdempotent /\ AssignmentsWin
=============================================================================
