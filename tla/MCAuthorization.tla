-------------------------- MODULE MCAuthorization --------------------------
(***************************************************************************)
(* A small policy in three files: the types and RBAC; the actions of       *)
(* tenants, which inherit everything from their parents; and load          *)
(* balancers, which inherit some actions from their owners, named by a     *)
(* union.                                                                  *)
(***************************************************************************)
EXTENDS Authorization

Member == <<"member">>
View   == <<"view">>
Edit   == <<"lb", "edit">>

Type(n, p, v2, rels) == [name |-> n, prefix |-> p, v2 |-> v2, rels |-> rels]
Binding(a, t, conds) == [action |-> a, type |-> t, conds |-> conds, sets |-> {}]

Grant == Relationship(GrantRelationship, <<Target("rolebinding")>>)

TypesFile == [EmptyDocument EXCEPT
    !.types = <<
        Type("user", "idntusr", NoRoleBindingV2, <<>>),
        Type("group", "idntgrp", NoRoleBindingV2,
             <<Relationship(<<"direct_member">>, <<Target("user")>>)>>),
        Type("role", RolePrefix, NoRoleBindingV2,
             <<Relationship(<<"subject">>, <<Target("user"), MembersOf("group", Member)>>)>>),
        Type("tenant", "tnntten", RoleBindingV2({<<"parent">>}, TRUE),
             <<Relationship(<<"parent">>, <<Target("tenant")>>), Grant>>)>>,
    !.actions = {Member},
    !.rbac = [on           |-> TRUE,
              role         |-> [name |-> "rolev2", prefix |-> "permrv2"],
              roleBinding  |-> [name |-> "rolebinding", prefix |-> "permrbn"],
              subjectTypes |-> <<"user">>,
              owners       |-> <<"tenant">>,
              subjects     |-> <<Target("user"), MembersOf("group", Member)>>]]

TenantFile == [EmptyDocument EXCEPT
    !.actions  = {View},
    !.bindings = <<
        Binding(Member, "group", {ConditionRelationshipAction(<<"direct_member">>, NoName)}),
        Binding(View, "tenant", {ConditionRoleBinding, ConditionRoleBindingV2})>>]

BalancerFile == [EmptyDocument EXCEPT
    !.types = <<
        Type("loadbalancer", "loadbal", RoleBindingV2({<<"owner">>}, FALSE),
             <<Relationship(<<"owner">>, <<Target("resourceowner")>>), Grant>>)>>,
    !.unions   = <<[name |-> "resourceowner", members |-> <<Target("tenant")>>]>>,
    !.actions  = {Edit},
    !.bindings = <<
        Binding(Edit, "resourceowner", {ConditionRoleBindingV2}),
        Binding(Edit, "loadbalancer", {ConditionRoleBindingV2}),
        Binding(View, "loadbalancer", {ConditionRelationshipAction(<<"owner">>, View)})>>]

MCFiles    == <<TypesFile, TenantFile, BalancerFile>>
MCPrefixes == {"idntusr", "idntgrp", "tnntten", "loadbal", "loadprt", "imagimg",
               "permrol", "permrv2", "permrbn"}

(* What an author may try next: a port whose owner is a tenant twice, by   *)
(* name and through the union; an image that everyone may view, and those  *)
(* who view one may comment; the same, with viewers listed one by one.     *)
PortDraft == [EmptyDocument EXCEPT
    !.types = <<
        Type("port", "loadprt", NoRoleBindingV2,
             <<Relationship(<<"owner">>, <<Target("tenant"), Target("resourceowner")>>)>>)>>]

ImageDraft(viewers) == [EmptyDocument EXCEPT
    !.types = <<
        Type("image", "imagimg", NoRoleBindingV2,
             <<Relationship(<<"viewer">>, viewers),
               Relationship(<<"commenter">>, <<MembersOf("image", <<"viewer">>)>>)>>)>>]

MCDrafts == {EmptyDocument, PortDraft, ImageDraft(<<Target("user"), Everyone("user")>>),
             ImageDraft(<<Target("user"), MembersOf("group", Member)>>)}

(* two services that both define what a group is                           *)
GroupFile == [EmptyDocument EXCEPT
    !.types = <<
        Type("group", "idntgrp", NoRoleBindingV2,
             <<Relationship(<<"direct_member">>, <<Target("user"), MembersOf("group", Member)>>)>>)>>]

RivalFiles == <<TypesFile, TenantFile, GroupFile>>

Event(x, r, s) == [resource |-> x, relation |-> r, subject |-> s]

User1    == <<"idntusr", 1>>
Group    == <<"idntgrp", 1>>
Root     == <<"tnntten", 1>>
Child    == <<"tnntten", 2>>
Balancer == <<"loadbal", 1>>

MCIds      == {Root, Child, Balancer}
MCSubjects == {User1, Group}

MCEvents == {Event(Child, <<"parent">>, Root),
             Event(Balancer, <<"owner">>, Child),
             Event(Group, <<"direct_member">>, User1)}

MCActionChoices == {{View}, {Edit, <<"iam_rolebinding_get">>}}

ASSUME MCAssumption == SteadyFiles /\ OwnEvents
=============================================================================
