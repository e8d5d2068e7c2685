------------------------------- MODULE Policy -------------------------------
(***************************************************************************)
(* Authorization policies: documents, their merge, the expansion of role   *)
(* bindings and unions, the validation, and the schema made from a policy. *)
(*                                                                         *)
(* A name of a relation or an action is the sequence of its words, so that *)
(* the suffix of a relation made from an action is a word of its own.      *)
(* Lists in which order and repetition mean nothing are sets.  Where an    *)
(* entry may be repeated with an effect, the document has the list, and    *)
(* what is made of it carries its place in the document, or 0 or <<>> when *)
(* the code generates it.                                                  *)
(***************************************************************************)
EXTENDS Naturals, Sequences

CONSTANT Prefixes   \* the ID prefixes that gidx accepts

NoName    == <<>>
IsName(n) == n \in Seq({n[i] : i \in DOMAIN n})

Elements(list) == {list[i] : i \in DOMAIN list}

(* action.Name + PermissionRelationSuffix                                  *)
ActionRelation(a) == Append(a, "_rel")

RoleOwnerRelation           == <<"owner">>
RoleOwnerMemberRoleRelation == <<"member_role">>
AvailableRolesList          == <<"avail_role">>
RolebindingRoleRelation     == <<"role">>
RolebindingSubjectRelation  == <<"subject">>
GrantRelationship           == <<"grant">>

(* the type a V1 condition names, whatever types the policy has            *)
RoleTypeV1 == "role"

RoleBindingActions == {<<"iam_rolebinding_create">>, <<"iam_rolebinding_update">>,
                       <<"iam_rolebinding_delete">>, <<"iam_rolebinding_get">>,
                       <<"iam_rolebinding_list">>}

-----------------------------------------------------------------------------
(* Documents.                                                              *)

Target(n)           == [name |-> n, wild |-> FALSE, subrel |-> NoName]
Everyone(n)         == [name |-> n, wild |-> TRUE, subrel |-> NoName]
MembersOf(n, r)     == [name |-> n, wild |-> FALSE, subrel |-> r]
Relationship(r, ts) == [relation |-> r, targets |-> ts]

(* RoleBindingV2 of a resource type: absent, or where it inherits from     *)
NoRoleBindingV2        == [on |-> FALSE, from |-> {}, all |-> FALSE]
RoleBindingV2(fs, all) == [on |-> TRUE, from |-> fs, all |-> all]

(* A condition carries the clauses that are present, and how many of the   *)
(* same its list has before it.                                            *)
ConditionClauses == {"RoleBinding", "RoleBindingV2", "RelationshipAction"}

Condition(clause, r, a) == [clauses |-> {clause}, relation |-> r, action |-> a, nth |-> 0]

ConditionRoleBinding              == Condition("RoleBinding", NoName, NoName)
ConditionRoleBindingV2            == Condition("RoleBindingV2", NoName, NoName)
ConditionRelationshipAction(r, a) == Condition("RelationshipAction", r, a)

NoRBAC == [on |-> FALSE]

EmptyDocument == [types |-> <<>>, unions |-> <<>>, actions |-> {}, bindings |-> <<>>,
                  rbac |-> NoRBAC]

(* mutant: a document without RBAC removes that of the others              *)
MergeReplacingRBAC(p, other) ==
    [types    |-> p.types \o other.types,
     unions   |-> p.unions \o other.unions,
     actions  |-> p.actions \cup other.actions,
     bindings |-> p.bindings \o other.bindings,
     rbac     |-> other.rbac]

MergeWithPolicyDocument(p, other) ==
    [types    |-> p.types \o other.types,
     unions   |-> p.unions \o other.unions,
     actions  |-> p.actions \cup other.actions,
     bindings |-> p.bindings \o other.bindings,
     rbac     |-> IF other.rbac.on THEN other.rbac ELSE p.rbac]

(* A map filled from a list, by name: of equal names the last one stays.   *)
ByName(list) ==
    [n \in {list[i].name : i \in DOMAIN list} |->
        list[CHOOSE i \in DOMAIN list :
                /\ list[i].name = n
                /\ \A j \in DOMAIN list : list[j].name = n => j <= i]]

-----------------------------------------------------------------------------
(* NewPolicy.                                                              *)

Put(f, n, x) == [m \in DOMAIN f \cup {n} |-> IF m = n THEN x ELSE f[m]]

At(i, r) == [relation |-> r.relation, targets |-> r.targets, at |-> i]

Declared(t) == [prefix |-> t.prefix, v2 |-> t.v2,
                rels |-> {At(i, t.rels[i]) : i \in DOMAIN t.rels}]

DeclaredTypes(p) == LET rt == ByName(p.types) IN [n \in DOMAIN rt |-> Declared(rt[n])]

ActionNames(p) ==
    p.actions \cup (IF p.rbac.on THEN RoleBindingActions \cup {AvailableRolesList} ELSE {})

Generated(prefix, rels) ==
    [prefix |-> prefix, v2 |-> NoRoleBindingV2, rels |-> {At(0, r) : r \in rels}]

createV2RoleResourceType(p) ==
    Generated(p.rbac.role.prefix,
        {Relationship(RoleOwnerRelation,
                      [i \in DOMAIN p.rbac.owners |-> Target(p.rbac.owners[i])])}
        \cup {Relationship(ActionRelation(a), [i \in DOMAIN p.rbac.subjectTypes |->
                                                  Everyone(p.rbac.subjectTypes[i])]) :
                 a \in ActionNames(p)})

createRoleBindingResourceType(p) ==
    Generated(p.rbac.roleBinding.prefix,
        {Relationship(RolebindingRoleRelation, <<Target(p.rbac.role.name)>>),
         Relationship(RolebindingSubjectRelation, p.rbac.subjects)})

ActionBinding(a, t, conds, sets, at) ==
    [action |-> a, type |-> t, conds |-> conds, sets |-> sets, at |-> at]

(* mutant: the binding's subjects may do what any role may                 *)
RoleBindingBindingsEither(p) ==
    {ActionBinding(a, p.rbac.roleBinding.name, {},
         {{ConditionRelationshipAction(RolebindingRoleRelation, ActionRelation(a)),
           ConditionRelationshipAction(RolebindingSubjectRelation, NoName)}}, <<>>) :
        a \in ActionNames(p)}

(* ... and its action bindings: the subjects who hold the role's action    *)
RoleBindingBindings(p) ==
    {ActionBinding(a, p.rbac.roleBinding.name, {},
         {{ConditionRelationshipAction(RolebindingRoleRelation, ActionRelation(a))},
          {ConditionRelationshipAction(RolebindingSubjectRelation, NoName)}}, <<>>) :
        a \in ActionNames(p)}

(* The types with the two that role bindings need, the owners' relation to *)
(* their roles added.                                                      *)
TypesWithRoles(p) ==
    LET rt == Put(Put(DeclaredTypes(p), p.rbac.role.name, createV2RoleResourceType(p)),
                  p.rbac.roleBinding.name, createRoleBindingResourceType(p))
        memberRole == At(0, Relationship(RoleOwnerMemberRoleRelation,
                                         <<Target(p.rbac.role.name)>>)) IN
    [n \in DOMAIN rt |-> IF n \in Elements(p.rbac.owners)
                         THEN [rt[n] EXCEPT !.rels = @ \cup {memberRole}] ELSE rt[n]]

(* mutant: a type that owns roles does not inherit any                     *)
AvailableRolesOwnOnly(p, n, t) ==
    IF n \in Elements(p.rbac.owners)
    THEN {ConditionRelationshipAction(RoleOwnerMemberRoleRelation, NoName)}
    ELSE {ConditionRelationshipAction(f, AvailableRolesList) : f \in t.v2.from}

(* expandRBACV2Relationships: the roles available on a type                *)
AvailableRoles(p, n, t) ==
    (IF n \in Elements(p.rbac.owners)
     THEN {ConditionRelationshipAction(RoleOwnerMemberRoleRelation, NoName)} ELSE {})
    \cup {ConditionRelationshipAction(f, AvailableRolesList) : f \in t.v2.from}

AvailableRolesBindings(p) ==
    LET rt == TypesWithRoles(p) IN
    {ActionBinding(AvailableRolesList, n, AvailableRoles(p, n, rt[n]), {}, <<>>) :
        n \in {m \in DOMAIN rt : AvailableRoles(p, m, rt[m]) # {}}}

(* A target or a bound type that names a union stands for its members, as  *)
(* the union lists them.                                                   *)
MemberList(un, t) == IF t.name \in DOMAIN un THEN un[t.name].members ELSE <<t>>
Members(un, t)    == Elements(MemberList(un, t))

(* No entry is twice in the list that the members of all targets make.     *)
ListedOnce(un, ts) ==
    \A i, j \in DOMAIN ts :
        \A k \in DOMAIN MemberList(un, ts[i]), l \in DOMAIN MemberList(un, ts[j]) :
            MemberList(un, ts[i])[k] = MemberList(un, ts[j])[l] => i = j /\ k = l

Expanded(un, r) ==
    [relation |-> r.relation, targets |-> UNION {Members(un, t) : t \in Elements(r.targets)},
     once |-> ListedOnce(un, r.targets), at |-> r.at]

ExpandedTypes(un, rt) ==
    [n \in DOMAIN rt |-> [rt[n] EXCEPT !.rels = {Expanded(un, r) : r \in @}]]

ExpandedBindings(un, bindings) ==
    UNION {LET ms == MemberList(un, Target(bindings[i].type)) IN
           {ActionBinding(bindings[i].action, ms[k].name, bindings[i].conds, bindings[i].sets,
                          <<i, k>>) : k \in DOMAIN ms} : i \in DOMAIN bindings}

NewPolicy(p) ==
    LET un == ByName(p.unions) IN
    [rt |-> ExpandedTypes(un, IF p.rbac.on THEN TypesWithRoles(p) ELSE DeclaredTypes(p)),
     ac |-> ActionNames(p),
     bn |-> ExpandedBindings(un, p.bindings)
            \cup IF p.rbac.on THEN RoleBindingBindings(p) \cup AvailableRolesBindings(p)
                              ELSE {},
     p  |-> p]

-----------------------------------------------------------------------------
(* Validate.                                                               *)

findRelationship(t, r)      == \E rel \in t.rels : rel.relation = r
findActionBinding(pol, a, n) == \E b \in pol.bn : b.action = a /\ b.type = n

ValidUnions(pol) ==
    \A i \in DOMAIN pol.p.unions :
        /\ pol.p.unions[i].name \notin DOMAIN pol.rt
        /\ \A m \in Elements(pol.p.unions[i].members) : m.name \in DOMAIN pol.rt

(* mutant: the relation of a target's subjects is not looked up            *)
ValidTargetName(pol, t) == t.name \in DOMAIN pol.rt

ValidTarget(pol, t) ==
    /\ t.name \in DOMAIN pol.rt
    /\ \/ t.subrel = NoName
       \/ findRelationship(pol.rt[t.name], t.subrel)
       \/ findActionBinding(pol, t.subrel, t.name)

ValidResourceTypes(pol) ==
    \A n \in DOMAIN pol.rt :
        /\ pol.rt[n].prefix \in Prefixes
        /\ \A rel \in pol.rt[n].rels : \A t \in rel.targets : ValidTarget(pol, t)

(* The relation is there, and the action on every type it leads to: of     *)
(* relations with the same name the first counts.                          *)
ValidConditionRelationshipAction(pol, t, c) ==
    \E rel \in t.rels :
        /\ rel.relation = c.relation
        /\ \A other \in t.rels : other.relation = c.relation => rel.at <= other.at
        /\ \/ c.action = NoName
           \/ \A target \in rel.targets : findActionBinding(pol, c.action, target.name)

ValidConditions(pol, t, conds) ==
    \A c \in conds :
        /\ \E clause \in ConditionClauses : c.clauses = {clause}
        /\ "RelationshipAction" \in c.clauses => ValidConditionRelationshipAction(pol, t, c)

ValidActionBindings(pol) ==
    \A b \in pol.bn :
        /\ b.action # NoName /\ b.action \in pol.ac
        /\ b.type # "" /\ b.type \in DOMAIN pol.rt
        /\ \A other \in pol.bn : other.action = b.action /\ other.type = b.type => other = b
        /\ ValidConditions(pol, pol.rt[b.type], b.conds)

ValidRoles(pol) == pol.p.rbac.on => Elements(pol.p.rbac.owners) \subseteq DOMAIN pol.rt

Validate(pol) ==
    /\ ValidUnions(pol) /\ ValidResourceTypes(pol)
    /\ ValidActionBindings(pol) /\ ValidRoles(pol)

-----------------------------------------------------------------------------
(* Schema.  An arrow without an action is the relation itself; NoArrow is  *)
(* the clause of a condition that names none.                              *)

Arrow(r, a) == [relation |-> r, action |-> a]
NoArrow     == Arrow(NoName, NoName)

CreateRoleBindingConditionsForAction(a, from) ==
    {Arrow(GrantRelationship, a)} \cup {Arrow(f, a) : f \in from}

(* mutant: grants are never inherited                                      *)
ConditionArrowsOwn(t, a, c) ==
    CASE "RoleBinding" \in c.clauses -> {Arrow(ActionRelation(a), NoName)}
      [] "RoleBindingV2" \in c.clauses /\ t.v2.on -> CreateRoleBindingConditionsForAction(a, {})
      [] "RelationshipAction" \in c.clauses -> {Arrow(c.relation, c.action)}
      [] OTHER -> {NoArrow}

ConditionArrows(t, a, c) ==
    CASE "RoleBinding" \in c.clauses ->
            {Arrow(ActionRelation(a), NoName)}
      [] "RoleBindingV2" \in c.clauses /\ t.v2.on ->
            CreateRoleBindingConditionsForAction(a, IF t.v2.all THEN t.v2.from ELSE {})
      [] "RelationshipAction" \in c.clauses ->
            {Arrow(c.relation, c.action)}
      [] OTHER -> {NoArrow}

Clause(c) == IF "RelationshipAction" \in c.clauses THEN Arrow(c.relation, c.action) ELSE NoArrow

(* A permission is granted by any arrow of "any", or, if there is none, by *)
(* one of each set of "all": the template renders the sets only for an     *)
(* action without conditions.                                              *)
Permission(a, any, all, at) == [name |-> a, any |-> any, all |-> all, at |-> at]

RoleBindingActionsOf(t) ==
    {Permission(a, CreateRoleBindingConditionsForAction(a, t.v2.from), {}, <<>>) :
        a \in RoleBindingActions}

BindingsOn(pol, n) == {b \in pol.bn : b.type = n}

UsesV2(pol, n) ==
    pol.rt[n].v2.on /\ \E b \in BindingsOn(pol, n) : \E c \in b.conds :
        "RoleBindingV2" \in c.clauses /\ "RoleBinding" \notin c.clauses

SchemaActions(pol, n) ==
    {Permission(b.action, UNION {ConditionArrows(pol.rt[n], b.action, c) : c \in b.conds},
                {{Clause(c) : c \in s} : s \in b.sets}, b.at) : b \in BindingsOn(pol, n)}
    \cup IF UsesV2(pol, n) THEN RoleBindingActionsOf(pol.rt[n]) ELSE {}

(* the relation to V1 roles is appended once per condition that needs it   *)
V1Relation(a, nth) ==
    [relation |-> ActionRelation(a),
     targets  |-> {MembersOf(RoleTypeV1, RolebindingSubjectRelation)}, once |-> TRUE, at |-> nth]

SchemaRelations(pol, n) ==
    pol.rt[n].rels
    \cup UNION {{V1Relation(b.action, c.nth) : c \in {d \in b.conds : "RoleBinding" \in d.clauses}} :
                   b \in BindingsOn(pol, n)}

Schema(pol) ==
    [n \in DOMAIN pol.rt |-> [prefix    |-> pol.rt[n].prefix,
                              relations |-> SchemaRelations(pol, n),
                              actions   |-> SchemaActions(pol, n)]]

-----------------------------------------------------------------------------
(* What Validate leaves to the authors of the documents.                   *)

ReservedRelations == {RoleOwnerRelation, RoleOwnerMemberRoleRelation,
                      RolebindingRoleRelation, RolebindingSubjectRelation}

DeclaredRelations(p) ==
    UNION {{p.types[i].rels[j].relation : j \in DOMAIN p.types[i].rels} : i \in DOMAIN p.types}

(* a relation of a type once; no name is an action's and a relation's; a   *)
(* type with role bindings has their actions whether RBAC is on or not     *)
CarefulNames(p) ==
    LET Names == ActionNames(p) \cup RoleBindingActions IN
    /\ \A i \in DOMAIN p.types : \A j, k \in DOMAIN p.types[i].rels :
          p.types[i].rels[j].relation = p.types[i].rels[k].relation => j = k
    /\ \A a \in Names : /\ a \notin DeclaredRelations(p) \cup ReservedRelations
                       /\ ActionRelation(a) \notin DeclaredRelations(p) \cup Names
    /\ RoleOwnerMemberRoleRelation \notin DeclaredRelations(p)

NoWildcard(pol, n, r) ==
    \A rel \in pol.rt[n].rels : rel.relation = r => \A t \in rel.targets : ~t.wild

(* a relation that grants or roles are inherited along                     *)
Inheritable(pol, n, r) == findRelationship(pol.rt[n], r) /\ NoWildcard(pol, n, r)

CarefulTypes(pol) ==
    \A n \in DOMAIN pol.rt :
        /\ \A rel \in pol.rt[n].rels : rel.targets # {}
        /\ pol.rt[n].v2.on => Inheritable(pol, n, GrantRelationship)
        /\ \A f \in pol.rt[n].v2.from : Inheritable(pol, n, f)

CarefulCondition(pol, n, c) ==
    /\ "RoleBinding" \in c.clauses =>
          /\ RoleTypeV1 \in DOMAIN pol.rt
          /\ Inheritable(pol, RoleTypeV1, RolebindingSubjectRelation)
          /\ ~(pol.p.rbac.on /\ n = pol.p.rbac.role.name)
    /\ "RoleBindingV2" \in c.clauses => pol.rt[n].v2.on
    /\ "RelationshipAction" \in c.clauses /\ c.action # NoName => NoWildcard(pol, n, c.relation)

CarefulBinding(pol, b, n) ==
    /\ b.conds # {} /\ b.sets = {}
    /\ \A c \in b.conds : CarefulCondition(pol, n, c)
    /\ \A c, d \in b.conds : "RoleBinding" \in c.clauses \cap d.clauses => c = d
    /\ pol.rt[n].v2.on => b.action \notin RoleBindingActions

CarefulBindings(pol) ==
    \A i \in DOMAIN pol.p.bindings :
        \A m \in Members(ByName(pol.p.unions), Target(pol.p.bindings[i].type)) :
            m.name \in DOMAIN pol.rt => CarefulBinding(pol, pol.p.bindings[i], m.name)

CarefulRBAC(p) ==
    p.rbac.on => /\ p.rbac.role.name # p.rbac.roleBinding.name
                 /\ {p.rbac.role.name, p.rbac.roleBinding.name}
                        \cap DOMAIN DeclaredTypes(p) = {}

Careful(pol) ==
    /\ CarefulNames(pol.p) /\ CarefulTypes(pol) /\ CarefulBindings(pol) /\ CarefulRBAC(pol.p)
=============================================================================
