--------------------------- MODULE Authorization ---------------------------
(***************************************************************************)
(* From policy files to permissions.  Operators put files into the policy  *)
(* directory; the schema command writes the schema of the directory's      *)
(* policy to SpiceDB; a server reads the directory when it starts and      *)
(* serves requests under what it read.  The command and the server read    *)
(* the directory at different times.                                       *)
(*                                                                         *)
(* An identifier of a resource is <<prefix, number>>.  Requests are single *)
(* steps here: their interleavings and failures are the other modules'.    *)
(***************************************************************************)
EXTENDS Policy, SpiceDB

CONSTANTS Files,          \* the documents, in the order of their files' names
          Drafts,         \* documents that authors may add to those
          Events,         \* relationships that resource owners announce
          Ids,            \* identifiers of resources
          Subjects,       \* identifiers of users and groups
          ActionChoices,  \* sets of actions that requests give to a role
          RoleNumbers, RoleBindingNumbers, RoleV1Numbers

(* the types, unions and bindings of all documents, and what a document    *)
(* is: a type without role bindings inherits from nowhere                  *)
Documents    == Drafts \cup Elements(Files)
FileTypes    == UNION {Elements(d.types) : d \in Documents}
FileUnions   == UNION {Elements(d.unions) : d \in Documents}
FileBindings == UNION {Elements(d.bindings) : d \in Documents}

IsDocument(p) ==
    /\ p.types \in Seq(FileTypes) /\ p.unions \in Seq(FileUnions)
    /\ p.bindings \in Seq(FileBindings)
    /\ \A a \in p.actions : IsName(a)
    /\ \A i \in DOMAIN p.types : p.types[i].v2.on \/ p.types[i].v2.from = {}
    /\ p.rbac.on \/ p.rbac = NoRBAC
    /\ p.rbac.on => p.rbac.subjects \in Seq(Elements(p.rbac.subjects))

ASSUME FilesAssumption == /\ Files \in Seq(Elements(Files))
                          /\ \A d \in Documents : IsDocument(d)

ASSUME IdsAssumption ==
    /\ Wildcard \notin Ids \cup Subjects
    /\ \A e \in Events : Wildcard \notin {e.resource, e.subject}
    /\ \A as \in ActionChoices : \A a \in as : IsName(a)

VARIABLES
    directory,      \* files in the policy directory
    policy,         \* what a program makes of the directory now
    applied,        \* the policy whose schema SpiceDB has
    schema,         \* the schema SpiceDB has
    engine,         \* what the running server has read
    roleBindings,   \* rows of role bindings: what was asked for
    roles,          \* rows of roles: the actions asked for
    relationships   \* the tuples SpiceDB has

vars == <<directory, policy, applied, schema, engine, relationships, roles, roleBindings>>

(* the document p with file i, if it is there                              *)
Merged(p, i, fs) == IF i \in fs THEN MergeWithPolicyDocument(p, Files[i]) ELSE p

(* LoadPolicyDocumentFromFiles, for the files in the order of their names  *)
Document(fs) ==
    LET merged[i \in 0..Len(Files)] ==
            IF i = 0 THEN EmptyDocument ELSE Merged(merged[i - 1], i, fs) IN
    merged[Len(Files)]

NoPolicy == NewPolicy(EmptyDocument)
NoEngine == [on |-> FALSE, policy |-> NoPolicy]

Init ==
    /\ directory = {} /\ policy = NoPolicy
    /\ applied = NoPolicy /\ schema = <<>>
    /\ engine = NoEngine
    /\ relationships = {} /\ roles = {} /\ roleBindings = {}

-----------------------------------------------------------------------------
(* Files, the schema command, the server's start.                          *)

AddFile(i) ==
    /\ i \notin directory
    /\ directory' = directory \cup {i}
    /\ policy' = NewPolicy(Document(directory'))
    /\ UNCHANGED <<applied, schema, engine, relationships, roles, roleBindings>>

(* the directory's policy, if it is valid: the programs end otherwise      *)
LoadedPolicy == {pol \in {policy} : Validate(pol)}

(* SpiceDB refuses a schema that a relationship it has does not fit.       *)
Applicable(s) == ~(~SchemaTaken(s) \/ \E t \in relationships : ~Admits(s, t))

WriteSchema ==
    /\ \E pol \in LoadedPolicy :
          /\ Applicable(Schema(pol))
          /\ schema' = Schema(pol) /\ applied' = pol
    /\ UNCHANGED <<directory, policy, engine, relationships, roles, roleBindings>>

(* cacheSchemaResources: of types with one prefix any may be the last      *)
SchemaPrefixMaps(s) ==
    LET OnePerPrefix == {W \in SUBSET DOMAIN s : \A n \in DOMAIN s :
                            Cardinality({m \in W : s[m].prefix = s[n].prefix}) = 1} IN
    {[p \in {s[n].prefix : n \in W} |-> CHOOSE n \in W : s[n].prefix = p] : W \in OnePerPrefix}

StartServer ==
    /\ \E pol \in LoadedPolicy : \E m \in SchemaPrefixMaps(Schema(pol)) :
          engine' = [on |-> TRUE, policy |-> pol, schema |-> Schema(pol),
                     schemaPrefixMap |-> m, rbac |-> pol.p.rbac]
    /\ UNCHANGED <<directory, policy, applied, schema, relationships, roles, roleBindings>>

-----------------------------------------------------------------------------
(* Requests.                                                               *)

KnownPrefix(id)       == engine.on /\ id[1] \in DOMAIN engine.schemaPrefixMap
NewResourceFromID(id) == Object(engine.schemaPrefixMap[id[1]], id)

(* SpiceDB takes all the relationships of a write or none: if one is not   *)
(* admitted the request fails, and its transaction is rolled back          *)
NotAdmitted(ts) == {t \in ts : ~Admits(schema, t)}
Write(ts)       == NotAdmitted(ts) = {} /\ relationships' = relationships \cup ts

(* types only: neither a wildcard nor the relation of a subject counts     *)
validateRelationship(s, r, o) ==
    LET rels == {rel \in engine.schema[o.type].relations : rel.relation = r} IN
    s.type \in {t.name : t \in UNION {rel.targets : rel \in rels}}

RelationshipOf(e) == Tuple(NewResourceFromID(e.resource), e.relation,
                           NewResourceFromID(e.subject))

Relatable(e) ==
    /\ KnownPrefix(e.resource) /\ KnownPrefix(e.subject)
    /\ validateRelationship(NewResourceFromID(e.subject), e.relation,
                            NewResourceFromID(e.resource))

CreateRelationships(e) ==
    /\ Relatable(e)
    /\ Write({RelationshipOf(e)})
    /\ UNCHANGED <<directory, policy, applied, schema, engine, roles, roleBindings>>

DeleteRelationships(e) ==
    /\ Relatable(e)
    /\ relationships' = relationships \ {RelationshipOf(e)}
    /\ UNCHANGED <<directory, policy, applied, schema, engine, roles, roleBindings>>

(* V2 roles                                                                *)
roleV2Relationships(role, as) ==
    {Tuple(role, ActionRelation(a), All(s)) : a \in as, s \in Elements(engine.rbac.subjectTypes)}

roleV2OwnerRelationship(role, owner) ==
    {Tuple(role, RoleOwnerRelation, owner), Tuple(owner, RoleOwnerMemberRoleRelation, role)}

(* mutant: a second row of the same identifier is stored                   *)
CreateRoleV2Again(owner, n, as) ==
    LET id == <<engine.rbac.role.prefix, n>>
        ts == roleV2Relationships(NewResourceFromID(id), as)
              \cup roleV2OwnerRelationship(NewResourceFromID(id), NewResourceFromID(owner)) IN
    /\ KnownPrefix(owner) /\ engine.rbac.on
    /\ Write(ts)
    /\ roles' = roles \cup {[id |-> id, resource |-> owner, actions |-> as]}
    /\ UNCHANGED <<directory, policy, applied, schema, engine, roleBindings>>

CreateRoleV2(owner, n, as) ==
    LET id == <<engine.rbac.role.prefix, n>>
        ts == roleV2Relationships(NewResourceFromID(id), as)
              \cup roleV2OwnerRelationship(NewResourceFromID(id), NewResourceFromID(owner)) IN
    /\ KnownPrefix(owner) /\ engine.rbac.on
    /\ id \notin {r.id : r \in roles}
    /\ Write(ts)
    /\ roles' = roles \cup {[id |-> id, resource |-> owner, actions |-> as]}
    /\ UNCHANGED <<directory, policy, applied, schema, engine, roleBindings>>

isRoleBindable(r, x) ==
    LET role == Object(engine.rbac.role.name, r) IN
    <<x, AvailableRolesList, role>> \in Holds(schema, relationships, {role})

(* mutant: the relation of a group's members is forgotten                  *)
rolebindingSubjectPlain(rb, s) == Tuple(rb, RolebindingSubjectRelation, s)

(* rolebindingSubjectsMap: of subjects with one type the last counts       *)
rolebindingSubjectRelationship(rb, s) ==
    LET conf == ByName(engine.rbac.subjects)[s.type] IN
    TupleTo(rb, RolebindingSubjectRelation, s, conf.subrel)

rolebindingRelationships(rb, x, r, s) ==
    {Tuple(rb, RolebindingRoleRelation, Object(engine.rbac.role.name, r)),
     Tuple(x, GrantRelationship, rb),
     rolebindingSubjectRelationship(rb, s)}

RoleBindingID(n) == Object(engine.rbac.roleBinding.name, <<engine.rbac.roleBinding.prefix, n>>)

(* what CreateRoleBinding checks before it writes                          *)
Bindable(x, r, s) ==
    /\ KnownPrefix(x) /\ KnownPrefix(r) /\ KnownPrefix(s) /\ engine.rbac.on
    /\ isRoleBindable(r, NewResourceFromID(x))
    /\ r \in {row.id : row \in roles}
    /\ NewResourceFromID(s).type \in DOMAIN ByName(engine.rbac.subjects)

(* mutant: the row names the role where the resource belongs               *)
CreateRoleBindingSwapped(x, n, r, s) ==
    /\ Bindable(x, r, s)
    /\ RoleBindingID(n).id \notin {b.id : b \in roleBindings}
    /\ Write(rolebindingRelationships(RoleBindingID(n), NewResourceFromID(x), r,
                                      NewResourceFromID(s)))
    /\ roleBindings' = roleBindings \cup {[id |-> RoleBindingID(n).id, resource |-> r,
                                            role |-> x, subject |-> s]}
    /\ UNCHANGED <<directory, policy, applied, schema, engine, roles>>

CreateRoleBinding(x, n, r, s) ==
    /\ Bindable(x, r, s)
    /\ RoleBindingID(n).id \notin {b.id : b \in roleBindings}
    /\ Write(rolebindingRelationships(RoleBindingID(n), NewResourceFromID(x), r,
                                      NewResourceFromID(s)))
    /\ roleBindings' = roleBindings \cup {[id |-> RoleBindingID(n).id, resource |-> x,
                                            role |-> r, subject |-> s]}
    /\ UNCHANGED <<directory, policy, applied, schema, engine, roles>>

(* V1 roles: the type of a role is fixed where it is assigned, and found   *)
(* by its prefix where it is created (the code panics if there is none,    *)
(* before it writes)                                                       *)
RolePrefix == "permrol"

validateResourceActions(x, as) == as \subseteq ActionNamesOf(engine.schema[x.type])

roleRelationships(role, x, as) ==
    {TupleTo(x, ActionRelation(a), role, RolebindingSubjectRelation) : a \in as}

CreateRole(x, n, as) ==
    LET id == <<RolePrefix, n>>
        ts == roleRelationships(NewResourceFromID(id), NewResourceFromID(x), as) IN
    /\ KnownPrefix(x) /\ validateResourceActions(NewResourceFromID(x), as)
    /\ KnownPrefix(id)
    /\ id \notin {r.id : r \in roles}
    /\ Write(ts)
    /\ roles' = roles \cup {[id |-> id, resource |-> x, actions |-> as]}
    /\ UNCHANGED <<directory, policy, applied, schema, engine, roleBindings>>

(* the row of either kind of role will do                                  *)
AssignSubjectRole(r, s) ==
    LET t == Tuple(Object(RoleTypeV1, r), RolebindingSubjectRelation, NewResourceFromID(s)) IN
    /\ KnownPrefix(r) /\ KnownPrefix(s)
    /\ r \in {row.id : row \in {q \in roles : KnownPrefix(q.resource)}}
    /\ t \notin relationships
    /\ Write({t})
    /\ UNCHANGED <<directory, policy, applied, schema, engine, roles, roleBindings>>

(* relationToAction: cut where the suffix first occurs                     *)
relationToAction(r) ==
    LET i == CHOOSE i \in DOMAIN r : r[i] = "_rel" /\ \A j \in 1..(i - 1) : r[j] # "_rel" IN
    SubSeq(r, 1, i - 1)

(* Listings of relationships: those of a resource, and those to a subject, *)
(* looked for in the types that can relate to its type.                    *)
(* The type of an object is found by its prefix, the relation of a subject *)
(* is left out.                                                            *)
relationshipsToNonRoles(ts) ==
    {Tuple(NewResourceFromID(t.obj.id), t.rel, NewResourceFromID(t.sub.id)) :
        t \in {u \in ts : u.sub.type # RoleTypeV1 /\ u.sub.id # Wildcard}}

ListRelationshipsFrom(x) == relationshipsToNonRoles({t \in relationships : t.obj = x})

(* mutant: types related to the members of x's type only are forgotten     *)
schemaSubjectTypesPlain(type) ==
    {n \in DOMAIN engine.schema : \E rel \in engine.schema[n].relations :
        \E t \in rel.targets : t.name = type /\ t.subrel = NoName}

schemaSubjectTypes(type) ==
    {n \in DOMAIN engine.schema : \E rel \in engine.schema[n].relations :
        \E t \in rel.targets : t.name = type}

ListRelationshipsTo(x) ==
    relationshipsToNonRoles({t \in relationships :
        t.obj.type \in schemaSubjectTypes(x.type) /\ t.sub = x})

-----------------------------------------------------------------------------
Next ==
    \/ \E i \in DOMAIN Files : AddFile(i)
    \/ WriteSchema
    \/ StartServer
    \/ \E e \in Events : CreateRelationships(e) \/ DeleteRelationships(e)
    \/ \E x \in Ids, n \in RoleNumbers, as \in ActionChoices : CreateRoleV2(x, n, as)
    \/ \E x \in Ids, s \in Subjects, n \in RoleBindingNumbers : \E row \in roles :
          CreateRoleBinding(x, n, row.id, s)
    \/ \E x \in Ids, n \in RoleV1Numbers, as \in ActionChoices : CreateRole(x, n, as)
    \/ \E row \in roles, s \in Subjects : AssignSubjectRole(row.id, s)

Spec == Init /\ [][Next]_vars

-----------------------------------------------------------------------------
(* Properties.                                                             *)

TypeOK ==
    /\ directory \subseteq DOMAIN Files /\ engine.on \in BOOLEAN
    /\ \E fs \in SUBSET directory : applied = NewPolicy(Document(fs))
    /\ \E fs \in SUBSET directory : engine.policy = NewPolicy(Document(fs))
    /\ \A r \in roles : r.resource \in Ids /\ r.actions \in ActionChoices
    /\ \A b \in roleBindings : b.resource \in Ids /\ b.subject \in Subjects

(* Validate lets pass a subject that a relation names twice, itself or     *)
(* through unions, and the holders of a relation that everyone may have.   *)
PlainTargets(pol) ==
    \A n \in DOMAIN pol.rt : \A rel \in pol.rt[n].rels :
        /\ rel.once
        /\ \A t \in rel.targets :
              t.subrel # NoName => ~t.wild /\ NoWildcard(pol, t.name, t.subrel)

(* A policy that Validate accepts, of the directory's documents and one    *)
(* more, which keep the other rules that Validate does not check, gives a  *)
(* schema that SpiceDB takes, unless it has such a target: then, and only  *)
(* then, the schema command fails although a server would start.           *)
AcceptedSchemaTaken ==
    \A d \in Drafts :
        LET pol == NewPolicy(MergeWithPolicyDocument(policy.p, d)) IN
        Careful(pol) /\ Validate(pol) => (SchemaTaken(Schema(pol)) <=> PlainTargets(pol))

(* What src/docs/iapl.md says of a policy that passes the validation: no   *)
(* two objects of the merged document have the same name.                  *)
NamedOnce(list) == \A i, j \in DOMAIN list : list[i].name = list[j].name => i = j

DuplicatesRefused ==
    Validate(policy) => NamedOnce(policy.p.types) /\ NamedOnce(policy.p.unions)

(* The order of the files' names does not matter to the policy, as long as *)
(* each name is defined once and RBAC in one file only: the last definition *)
(* silently replaces the others.                                           *)
Disjoint(p, q) ==
    /\ DOMAIN ByName(p.types) \cap DOMAIN ByName(q.types) = {}
    /\ DOMAIN ByName(p.unions) \cap DOMAIN ByName(q.unions) = {}
    /\ ~(p.rbac.on /\ q.rbac.on)

WithoutPlaces(pol) ==
    [types    |-> pol.rt,
     actions  |-> pol.ac,
     bindings |-> {[b EXCEPT !.at = <<>>] : b \in pol.bn},
     rbac     |-> pol.p.rbac]

SamePolicy(p, q) == WithoutPlaces(NewPolicy(p)) = WithoutPlaces(NewPolicy(q))

OrderInconsequential ==
    [][\A i \in directory' \ directory :
          LET before == Document(directory) IN
          Disjoint(before, Files[i]) =>
              SamePolicy(MergeWithPolicyDocument(before, Files[i]),
                         MergeWithPolicyDocument(Files[i], before))]_vars

(* ... and what a request further relies on: a prefix tells the type,      *)
(* roles have their own, subjects are neither unions nor wildcards nor     *)
(* roles, an owner of roles can be granted roles on, grants are to role    *)
(* bindings, avail_role is left to the program, and the name of an action  *)
(* survives its relation                                                   *)
CarefulUse(pol) ==
    LET p == pol.p IN
    /\ Careful(pol)
    /\ \A m, n \in DOMAIN pol.rt : pol.rt[m].prefix = pol.rt[n].prefix => m = n
    /\ \A n \in DOMAIN pol.rt : pol.rt[n].prefix = RolePrefix <=> n = RoleTypeV1
    /\ p.rbac.on =>
          /\ RoleTypeV1 \notin {p.rbac.role.name, p.rbac.roleBinding.name}
          /\ Elements(p.rbac.subjectTypes) \cap DOMAIN ByName(p.unions) = {}
          /\ \A i \in DOMAIN p.rbac.subjects :
                /\ p.rbac.subjects[i].name \notin DOMAIN ByName(p.unions)
                /\ ~p.rbac.subjects[i].wild
          /\ p.rbac.role.name \notin Elements(p.rbac.subjectTypes)
          /\ \A n \in Elements(p.rbac.owners) : pol.rt[n].v2.on
          /\ \A n \in DOMAIN pol.rt : pol.rt[n].v2.on =>
                \E rel \in pol.rt[n].rels : /\ rel.relation = GrantRelationship
                                            /\ rel.targets = {Target(p.rbac.roleBinding.name)}
          /\ \A i \in DOMAIN p.bindings : p.bindings[i].action # AvailableRolesList
    /\ \A a \in pol.ac : \A i \in DOMAIN a : a[i] # "_rel"

(* Whatever files are there, a valid policy of theirs keeps the rules; a    *)
(* type keeps its prefix and RBAC its settings when files are added.       *)
SteadyFiles ==
    \A fs, gs \in SUBSET DOMAIN Files :
        LET p == NewPolicy(Document(fs))
            q == NewPolicy(Document(gs)) IN
        Validate(p) /\ Validate(q) =>
            /\ CarefulUse(p)
            /\ p.p.rbac.on /\ q.p.rbac.on => p.p.rbac = q.p.rbac
            /\ \A n \in DOMAIN p.rt \cap DOMAIN q.rt : p.rt[n].prefix = q.rt[n].prefix

(* Owners of resources announce relationships between these, not those of  *)
(* roles and role bindings.                                                *)
OwnEvents ==
    \A fs \in SUBSET DOMAIN Files :
        LET rbac == Document(fs).rbac IN
        rbac.on => \A e \in Events : {e.resource[1], e.subject[1]}
                                      \cap {rbac.role.prefix, rbac.roleBinding.prefix} = {}

(* A server that serves the policy of SpiceDB's schema never has a role    *)
(* binding refused that it took for bindable: what avail_role answers, the *)
(* schema's grant relation and the table of subjects agree.                *)
BindableIsWritable ==
    engine.on /\ engine.policy = applied /\ CarefulUse(applied) =>
        \A x \in Ids, s \in Subjects, n \in RoleBindingNumbers, row \in roles :
            Bindable(x, row.id, s) =>
                NotAdmitted(rolebindingRelationships(RoleBindingID(n), NewResourceFromID(x),
                                                     row.id, NewResourceFromID(s))) = {}

(* What the documents say of an action on a type: whether roles grant it   *)
(* there, and the relations it is inherited along.                         *)
BoundWith(p, n, a, clause) ==
    {c \in UNION {p.bindings[i].conds : i \in {j \in DOMAIN p.bindings :
                     /\ p.bindings[j].action = a
                     /\ \E m \in Members(ByName(p.unions), Target(p.bindings[j].type)) :
                           m.name = n}} : clause \in c.clauses}

GrantsV1(p, n, a) == BoundWith(p, n, a, "RoleBinding") # {}
GrantsV2(p, n, a) ==
    \/ BoundWith(p, n, a, "RoleBindingV2") # {}
    \/ /\ a \in RoleBindingActions
       /\ \E other \in p.actions : BoundWith(p, n, other, "RoleBindingV2") # {}

DeclaredV2(p, n) ==
    IF n \in DOMAIN DeclaredTypes(p) THEN DeclaredTypes(p)[n].v2 ELSE NoRoleBindingV2

InheritedAlong(p, n, a) ==
    {c.relation : c \in BoundWith(p, n, a, "RelationshipAction")}
    \cup IF GrantsV2(p, n, a) /\ (DeclaredV2(p, n).all \/ a \in RoleBindingActions)
         THEN DeclaredV2(p, n).from ELSE {}

(* the objects from which x inherits, along the relations of each type,    *)
(* itself among them: the least set of objects that has x and, with an     *)
(* object, those that it inherits from                                     *)
Above(x, Along(_)) ==
    LET up  == {t \in relationships : t.rel \in Along(t.obj.type)}
        all == {x} \cup {t.sub : t \in up} IN
    {y \in all : \A C \in SUBSET all :
        x \in C /\ (\A t \in up : t.obj \in C => t.sub \in C) => y \in C}

(* the resources of the documents' types                                   *)
TypeOf(id)   == CHOOSE n \in DOMAIN applied.rt : applied.rt[n].prefix = id[1]
Resource(id) == Object(TypeOf(id), id)
Resources(p) == {Resource(id) : id \in {i \in Ids \cup Subjects :
    \E n \in DOMAIN DeclaredTypes(p) : DeclaredTypes(p)[n].prefix = i[1]}}

(* the subject itself, or the group's members for a group                  *)
SubjectOf(p, b, s, holds) ==
    LET conf == ByName(p.rbac.subjects)[TypeOf(b.subject)] IN
    IF conf.subrel = NoName THEN s.id = b.subject
    ELSE <<Resource(b.subject), conf.subrel, s>> \in holds

Granted(p, y, a, s, holds) ==
    \/ /\ GrantsV2(p, y.type, a)
       /\ \E b \in roleBindings, r \in roles :
             /\ b.resource = y.id /\ b.role = r.id /\ a \in r.actions
             /\ SubjectOf(p, b, s, holds)
    \/ /\ GrantsV1(p, y.type, a)
       /\ \E r \in roles :
             /\ r.id[1] = RolePrefix /\ r.resource = y.id /\ a \in r.actions
             /\ Tuple(Object(RoleTypeV1, r.id), RolebindingSubjectRelation, s) \in relationships

(* the actions that roles grant, and what a document says of them: where   *)
(* another resource is looked at, it is for the same action, and it is one *)
(* of the documents' types                                                 *)
GrantedActions(pol) ==
    {a \in UNION ActionChoices \cup RoleBindingActions : a \in pol.ac /\ a # AvailableRolesList}

InheritsPlainly(pol) ==
    \A n \in DOMAIN pol.rt, a \in GrantedActions(pol) :
        /\ \A c \in BoundWith(pol.p, n, a, "RelationshipAction") : c.action = a
        /\ \A rel \in pol.rt[n].rels : rel.relation \in InheritedAlong(pol.p, n, a) =>
              \A target \in rel.targets : target.name \in DOMAIN DeclaredTypes(pol.p)

SubjectsOf(p) == {x \in Resources(p) : x.type \in Elements(p.rbac.subjectTypes)}

(* A subject may do what the roles say that were granted to it on the      *)
(* resource or above it, as far as the documents let the action inherit:   *)
(* no more, through unions, groups, both kinds of roles, a changed policy  *)
(* and relationships that come and go ...                                  *)
PermissionsOnlyAsGranted ==
    LET p     == applied.p
        holds == Holds(schema, relationships, SubjectsOf(p)) IN
    p.rbac.on /\ CarefulUse(applied) /\ InheritsPlainly(applied) =>
        \A x \in Resources(p), a \in GrantedActions(applied), s \in SubjectsOf(p) :
            <<x, a, s>> \in holds =>
                \E y \in Above(x, LAMBDA n : InheritedAlong(p, n, a)) :
                    Granted(p, y, a, s, holds)

(* ... and no less.                                                        *)
PermissionsAsGranted ==
    LET p     == applied.p
        holds == Holds(schema, relationships, SubjectsOf(p)) IN
    p.rbac.on /\ CarefulUse(applied) /\ InheritsPlainly(applied) =>
        \A x \in Resources(p), a \in GrantedActions(applied), s \in SubjectsOf(p) :
            (\E y \in Above(x, LAMBDA n : InheritedAlong(p, n, a)) :
                Granted(p, y, a, s, holds)) => <<x, a, s>> \in holds

(* The roles available on a resource are those that it or a resource above *)
(* it owns, whatever else was written to SpiceDB: no others ...            *)
AvailableOnlyAbove ==
    LET p    == applied.p
        Subs == {Object(p.rbac.role.name, r.id) : r \in roles} IN
    p.rbac.on /\ CarefulUse(applied) =>
        \A x \in Resources(p), r \in roles :
            <<x, AvailableRolesList, Object(p.rbac.role.name, r.id)>>
                \in Holds(schema, relationships, Subs) =>
            /\ r.id[1] = p.rbac.role.prefix
            /\ \E y \in Above(x, LAMBDA n : DeclaredV2(p, n).from) : y.id = r.resource

(* ... and all of them.                                                    *)
AvailableAsAbove ==
    LET p    == applied.p
        Subs == {Object(p.rbac.role.name, r.id) : r \in roles} IN
    p.rbac.on /\ CarefulUse(applied) =>
        \A x \in Resources(p), r \in roles :
            /\ r.id[1] = p.rbac.role.prefix
            /\ \E y \in Above(x, LAMBDA n : DeclaredV2(p, n).from) : y.id = r.resource
            => <<x, AvailableRolesList, Object(p.rbac.role.name, r.id)>>
                   \in Holds(schema, relationships, Subs)

(* A role's actions read back from its relationships are those asked for.  *)
RolesShowTheirActions ==
    LET p == applied.p IN
    p.rbac.on /\ CarefulUse(applied) =>
        \A r \in roles : r.id[1] = p.rbac.role.prefix =>
            {relationToAction(t.rel) : t \in {u \in relationships :
                u.obj = Object(p.rbac.role.name, r.id) /\ u.sub.id = Wildcard}} = r.actions

(* A relationship that is not a role's is in the list from its resource    *)
(* and in the list to its subject, a group among the subjects included.    *)
(* (A V2 role that was assigned as if it were a V1 role is listed under    *)
(* the type of its prefix, which has no such relation.)                    *)
RelationshipsListed ==
    engine.on /\ engine.policy = applied /\ CarefulUse(applied) =>
        \A t \in relationships :
            /\ t.sub.id # Wildcard /\ t.sub.type # RoleTypeV1
            /\ t.obj = NewResourceFromID(t.obj.id)
            => Tuple(t.obj, t.rel, t.sub) \in ListRelationshipsFrom(t.obj)
                                              \cap ListRelationshipsTo(t.sub)
=============================================================================
