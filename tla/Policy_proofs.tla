--------------------------- MODULE Policy_proofs ---------------------------
(***************************************************************************)
(* What follows from the policy files, for every set of files: which       *)
(* schemas of accepted policies SpiceDB takes, that the order of the files *)
(* does not matter, that what a server takes for bindable is written, and  *)
(* that what SpiceDB then answers is what was asked for: no more, and,     *)
(* where it has reached all there is, no less.                             *)
(*                                                                         *)
(* The policy that a program loads is made of a document, the merge of the *)
(* directory's files (DocumentIsDocument, by induction over the files).    *)
(* About one document: what the types and bindings of its policy are, and  *)
(* then, definition by definition of the schema, that names differ, that   *)
(* subjects are defined and that arrows lead somewhere.                    *)
(*                                                                         *)
(* About the steps: every policy that is applied or served is that of some *)
(* document (Typed), and every relationship was written by a request of a  *)
(* known kind, whose row still is there (Kept).  What SpiceDB holds is     *)
(* then taken apart one permission at a time: what holds at a depth follows *)
(* from what holds at a smaller one (HoldsInduction).                      *)
(* The other way, what a row stands for is among the relationships as long *)
(* as the row is (Stored), and a search that took all the steps that reach *)
(* something new is closed under the permissions (Settled).                *)
(***************************************************************************)
EXTENDS Authorization, TLAPS, FiniteSetTheorems, SequenceTheorems, WellFoundedInduction

-----------------------------------------------------------------------------
(* Documents.                                                              *)

(* A set of naturals has a smallest: induction, by a counterexample that   *)
(* has none before it.                                                     *)
LEMMA Smallest ==
    ASSUME NEW T \in SUBSET Nat, T # {}
    PROVE  \E m \in T : \A k \in T : m <= k
<1> DEFINE R == OpToRel(<, Nat)
<1>1. IsWellFoundedOn(R, Nat)
  BY NatLessThanWellFounded
<1>2. \A x, y \in Nat : x < y => <<x, y>> \in R
  BY SMT DEF OpToRel
<1> HIDE DEF R
<1>3. PICK m \in T : \A k \in T : ~(<<k, m>> \in R)
  BY <1>1, WFMin, Zenon
<1>4. \A x \in T : x \in Nat
  OBVIOUS
<1>5. \A k \in T : ~(k < m)
  BY <1>2, <1>3, <1>4, Zenon
<1> QED
  BY <1>3, <1>4, <1>5, SMT

(* The function by which Document is defined, for the first n files        *)
Merging(fs, n, g) ==
    g = [i \in 0..n |-> IF i = 0 THEN EmptyDocument ELSE Merged(g[i - 1], i, fs)]

(* ... exists for one file more.                                           *)
LEMMA MergingOneMore ==
    ASSUME NEW fs, NEW m \in Nat \ {0}, NEW h, Merging(fs, m - 1, h)
    PROVE  \E g : Merging(fs, m, g)
<1> DEFINE g == [i \in 0..m |-> IF i = m THEN Merged(h[m - 1], m, fs) ELSE h[i]]
<1>1. ASSUME NEW i \in 0..m
      PROVE  g[i] = IF i = 0 THEN EmptyDocument ELSE Merged(g[i - 1], i, fs)
  <2>1. CASE i = m
    BY <2>1
  <2>2. CASE i # m
    <3>1. i \in 0..(m - 1)
      BY <2>2
    <3>2. h[i] = IF i = 0 THEN EmptyDocument ELSE Merged(h[i - 1], i, fs)
      BY <3>1 DEF Merging
    <3>3. i # 0 => i - 1 \in 0..m /\ i - 1 # m
      BY <3>1
    <3> QED
      BY <2>2, <3>2, <3>3
  <2> QED
    BY <2>1, <2>2
<1>2. g = [i \in 0..m |-> g[i]]
  OBVIOUS
<1> HIDE DEF g
<1> QED
  BY <1>1, <1>2 DEF Merging

(* Document is what its definition says.                                   *)
LEMMA DocumentMerged ==
    ASSUME NEW fs
    PROVE  \E g : Merging(fs, Len(Files), g) /\ Document(fs) = g[Len(Files)]
<1> DEFINE T == {n \in Nat : ~ \E g : Merging(fs, n, g)}
<1>1. T = {}
  <2>1. SUFFICES ASSUME T # {} PROVE FALSE
    OBVIOUS
  <2>2. PICK m \in T : \A k \in T : m <= k
    BY <2>1, Smallest
  <2>3. CASE m = 0
    <3> DEFINE g == [i \in 0..0 |-> EmptyDocument]
    <3>1. Merging(fs, 0, g)
      BY DEF Merging
    <3> QED
      BY <2>2, <2>3, <3>1
  <2>4. CASE m # 0
    <3>1. m - 1 \in Nat /\ m - 1 < m
      BY <2>4
    <3>2. PICK h : Merging(fs, m - 1, h)
      BY <2>2, <3>1
    <3> QED
      BY <2>4, <3>2, MergingOneMore
  <2> QED
    BY <2>3, <2>4
<1>2. Document(fs) = (CHOOSE g : Merging(fs, Len(Files), g))[Len(Files)]
  BY DEF Document, Merging
<1>3. Len(Files) \in Nat
  BY FilesAssumption
<1> QED
  BY <1>1, <1>2, <1>3

(* The elements of two lists put together.                                 *)
LEMMA Concatenation ==
    ASSUME NEW S, NEW s \in Seq(S), NEW t \in Seq(S)
    PROVE  /\ s \o t \in Seq(S)
           /\ \A i \in DOMAIN s : i \in DOMAIN (s \o t) /\ (s \o t)[i] = s[i] /\ i <= Len(s)
           /\ \A i \in DOMAIN t : /\ Len(s) + i \in DOMAIN (s \o t)
                                  /\ (s \o t)[Len(s) + i] = t[i] /\ i > 0
           /\ \A i \in DOMAIN (s \o t) :
                 i \in DOMAIN s \/ (i - Len(s) \in DOMAIN t /\ i = Len(s) + (i - Len(s)))
<1>1. /\ s \o t \in Seq(S) /\ Len(s \o t) = Len(s) + Len(t)
      /\ \A i \in 1..(Len(s) + Len(t)) :
            (s \o t)[i] = IF i <= Len(s) THEN s[i] ELSE t[i - Len(s)]
  BY ConcatProperties
<1>2. /\ Len(s) \in Nat /\ Len(t) \in Nat
      /\ DOMAIN s = 1..Len(s) /\ DOMAIN t = 1..Len(t) /\ DOMAIN (s \o t) = 1..(Len(s) + Len(t))
  BY <1>1, LenProperties
<1>3. \A i \in DOMAIN s : i \in DOMAIN (s \o t) /\ (s \o t)[i] = s[i] /\ i <= Len(s)
  BY <1>1, <1>2
<1>4. ASSUME NEW i \in DOMAIN t
      PROVE  Len(s) + i \in DOMAIN (s \o t) /\ (s \o t)[Len(s) + i] = t[i] /\ i > 0
  <2>1. i \in 1..Len(t) /\ Len(s) + i \in 1..(Len(s) + Len(t)) /\ ~(Len(s) + i <= Len(s))
        /\ (Len(s) + i) - Len(s) = i
    BY <1>2
  <2> QED
    BY <1>1, <1>2, <2>1
<1>5. \A i \in DOMAIN (s \o t) :
         i \in DOMAIN s \/ (i - Len(s) \in DOMAIN t /\ i = Len(s) + (i - Len(s)))
  BY <1>2
<1> QED
  BY <1>1, <1>3, <1>4, <1>5

(* A document merged with another is a document.                           *)
LEMMA MergeIsDocument ==
    ASSUME NEW p, NEW q, IsDocument(p), IsDocument(q)
    PROVE  IsDocument(MergeWithPolicyDocument(p, q))
<1> DEFINE r == MergeWithPolicyDocument(p, q)
<1>1. /\ r.types = p.types \o q.types /\ r.unions = p.unions \o q.unions
      /\ r.bindings = p.bindings \o q.bindings /\ r.actions = p.actions \cup q.actions
      /\ r.rbac = p.rbac \/ r.rbac = q.rbac
  BY DEF MergeWithPolicyDocument
<1>2. /\ p.types \in Seq(FileTypes) /\ q.types \in Seq(FileTypes)
      /\ p.unions \in Seq(FileUnions) /\ q.unions \in Seq(FileUnions)
      /\ p.bindings \in Seq(FileBindings) /\ q.bindings \in Seq(FileBindings)
  BY DEF IsDocument
<1>3. \A a \in p.actions \cup q.actions : IsName(a)
  BY DEF IsDocument
<1>4. \A i \in DOMAIN r.types : r.types[i].v2.on \/ r.types[i].v2.from = {}
  <2> SUFFICES ASSUME NEW i \in DOMAIN r.types
               PROVE  r.types[i].v2.on \/ r.types[i].v2.from = {}
    OBVIOUS
  <2>1. \/ i \in DOMAIN p.types /\ r.types[i] = p.types[i]
        \/ i - Len(p.types) \in DOMAIN q.types /\ r.types[i] = q.types[i - Len(p.types)]
    <3> DEFINE s == p.types
               t == q.types
    <3>1. s \in Seq(FileTypes) /\ t \in Seq(FileTypes) /\ r.types = s \o t
      BY <1>1, <1>2
    <3> HIDE DEF s, t
    <3>2. \/ i \in DOMAIN s /\ r.types[i] = s[i]
          \/ i - Len(s) \in DOMAIN t /\ r.types[i] = t[i - Len(s)]
      <4>1. i \in DOMAIN s \/ (i - Len(s) \in DOMAIN t /\ i = Len(s) + (i - Len(s)))
        BY <3>1, Concatenation
      <4>2. i \in DOMAIN s => r.types[i] = s[i]
        BY <3>1, Concatenation
      <4>3. i - Len(s) \in DOMAIN t => r.types[Len(s) + (i - Len(s))] = t[i - Len(s)]
        BY <3>1, Concatenation
      <4> QED
        BY <4>1, <4>2, <4>3
    <3> QED
      BY <3>2 DEF s, t
  <2> QED
    BY <2>1 DEF IsDocument
<1>5. r.types \in Seq(FileTypes)
  BY <1>1, <1>2
<1>6. r.unions \in Seq(FileUnions)
  BY <1>1, <1>2
<1>7. r.bindings \in Seq(FileBindings)
  BY <1>1, <1>2
<1>8. r.rbac.on \/ r.rbac = NoRBAC
  BY <1>1 DEF IsDocument
<1>9. r.rbac.on =>
         r.rbac.subjects \in Seq(Elements(r.rbac.subjects))
  <2> HIDE DEF r
  <2>1. CASE r.rbac = p.rbac
    BY <2>1, Zenon DEF IsDocument
  <2>2. CASE r.rbac = q.rbac
    BY <2>2, Zenon DEF IsDocument
  <2> QED
    BY <1>1, <2>1, <2>2
<1> HIDE DEF r
<1>10. IsDocument(r)
  BY <1>1, <1>3, <1>4, <1>5, <1>6, <1>7, <1>8, <1>9, Zenon DEF IsDocument
<1> QED
  BY <1>10 DEF r

LEMMA EmptyIsDocument == IsDocument(EmptyDocument)
<1>1. EmptyDocument.rbac = NoRBAC /\ ~NoRBAC.on
  BY DEF EmptyDocument, NoRBAC
<1> QED
  BY <1>1 DEF IsDocument, EmptyDocument

(* The merge of documents is a document.                                   *)
LEMMA DocumentIsDocument ==
    ASSUME NEW fs
    PROVE  IsDocument(Document(fs))
<1>1. PICK g : Merging(fs, Len(Files), g) /\ Document(fs) = g[Len(Files)]
  BY DocumentMerged
<1> DEFINE T == {i \in 0..Len(Files) : ~IsDocument(g[i])}
<1>2. Len(Files) \in Nat
  BY FilesAssumption
<1>3. T = {}
  <2>1. SUFFICES ASSUME T # {} PROVE FALSE
    OBVIOUS
  <2>2. T \in SUBSET Nat
    BY <1>2
  <2>3. PICK m \in T : \A k \in T : m <= k
    BY <2>1, <2>2, Smallest
  <2>4. m \in 0..Len(Files)
    OBVIOUS
  <2>5. g[m] = IF m = 0 THEN EmptyDocument ELSE Merged(g[m - 1], m, fs)
    BY <1>1, <2>4 DEF Merging
  <2>6. CASE m = 0
    <3> QED
      BY <2>3, <2>5, <2>6, EmptyIsDocument
  <2>7. CASE m # 0
    <3>1. m \in DOMAIN Files
      BY <1>2, <2>4, <2>7, FilesAssumption
    <3>2. IsDocument(Files[m])
      BY <3>1, FilesAssumption DEF Documents, Elements
    <3>3. m - 1 \in 0..Len(Files) /\ m - 1 < m
      BY <1>2, <2>4, <2>7
    <3>4. IsDocument(g[m - 1])
      BY <2>3, <3>3
    <3>5. IsDocument(MergeWithPolicyDocument(g[m - 1], Files[m]))
      BY <3>2, <3>4, MergeIsDocument
    <3> QED
      BY <2>3, <2>5, <2>7, <3>4, <3>5 DEF Merged
  <2> QED
    BY <2>6, <2>7
<1> QED
  BY <1>1, <1>2, <1>3

(* What ByName finds is in the list.                                       *)
LEMMA ByNameFound ==
    ASSUME NEW S, NEW list \in Seq(S), NEW n \in DOMAIN ByName(list)
    PROVE  \E i \in DOMAIN list : ByName(list)[n] = list[i]
<1> DEFINE Named == {i \in DOMAIN list : list[i].name = n}
           T     == {Len(list) - i : i \in Named}
<1>1. Named # {}
  BY DEF ByName
<1>2. T \in SUBSET Nat /\ T # {}
  BY <1>1
<1>3. PICK m \in T : \A k \in T : m <= k
  BY <1>2, Smallest
<1>4. PICK i \in Named : m = Len(list) - i
  OBVIOUS
<1>5. \A j \in Named : j <= i
  <2>1. \A j \in Named : Len(list) - i <= Len(list) - j
    BY <1>3, <1>4
  <2> QED
    BY <2>1
<1>6. \E j \in DOMAIN list : list[j].name = n
                             /\ \A k \in DOMAIN list : list[k].name = n => k <= j
  BY <1>5
<1> QED
  BY <1>6 DEF ByName

-----------------------------------------------------------------------------
(* Names.                                                                  *)

(* Names of actions are sequences of words; a reserved relation is none,   *)
(* nor the relation of an action, which tells the action.                  *)
LEMMA ActionNamesAreNames ==
    ASSUME NEW p, IsDocument(p)
    PROVE  \A a \in ActionNames(p) : IsName(a)
<1>1. \A w : IsName(<<w>>)
  BY DEF IsName
<1>2. ASSUME NEW a \in RoleBindingActions \cup {AvailableRolesList}
      PROVE  IsName(a)
  BY <1>1, Zenon DEF RoleBindingActions, AvailableRolesList
<1>3. ActionNames(p) \subseteq p.actions \cup RoleBindingActions \cup {AvailableRolesList}
  BY DEF ActionNames
<1> QED
  BY <1>2, <1>3, Zenon DEF IsDocument

LEMMA ActionRelations ==
    ASSUME NEW a, IsName(a)
    PROVE  /\ ActionRelation(a) \notin ReservedRelations /\ ActionRelation(a) # NoName
           /\ \A b : IsName(b) /\ ActionRelation(a) = ActionRelation(b) => a = b
<1> DEFINE Words(n) == {n[i] : i \in DOMAIN n}
<1>1. a \in Seq(Words(a)) /\ \A b : IsName(b) => b \in Seq(Words(b))
  BY Zenon DEF IsName
<1> HIDE DEF Words
<1>2. ActionRelation(a)[Len(a) + 1] = "_rel" /\ Len(ActionRelation(a)) = Len(a) + 1
  BY <1>1 DEF ActionRelation
<1>3. ActionRelation(a) \notin ReservedRelations
  BY <1>1, <1>2 DEF ReservedRelations, RoleOwnerRelation, RoleOwnerMemberRoleRelation,
                    RolebindingRoleRelation, RolebindingSubjectRelation
<1>4. ASSUME NEW b, IsName(b), ActionRelation(a) = ActionRelation(b)
      PROVE  a = b
  <2>1. b \in Seq(Words(b))
    BY <1>1, <1>4
  <2>2. Len(a) = Len(b)
    BY <1>1, <1>4, <2>1 DEF ActionRelation
  <2>3. \A i \in 1..Len(a) : a[i] = ActionRelation(a)[i] /\ b[i] = ActionRelation(b)[i]
    BY <1>1, <2>1, <2>2 DEF ActionRelation
  <2> QED
    BY <1>1, <1>4, <2>1, <2>2, <2>3
<1> QED
  BY <1>1, <1>2, <1>3, <1>4 DEF NoName

-----------------------------------------------------------------------------
(* The types and bindings of a document's policy.                          *)

BaseTypes(p)  == IF p.rbac.on THEN TypesWithRoles(p) ELSE DeclaredTypes(p)
MemberRole(p) == At(0, Relationship(RoleOwnerMemberRoleRelation, <<Target(p.rbac.role.name)>>))

(* what a type is made of: one of the documents', the roles' or the role   *)
(* bindings', with the relation of owners or without                       *)
IsDeclared(p, t) == \E i \in DOMAIN p.types : t = Declared(p.types[i])
IsRoleType(p, n, t) ==
    p.rbac.on /\ n = p.rbac.role.name /\ t = createV2RoleResourceType(p)
IsRoleBindingType(p, n, t) ==
    p.rbac.on /\ n = p.rbac.roleBinding.name /\ t = createRoleBindingResourceType(p)

LEMMA TypeIsRecord ==
    ASSUME NEW p, NEW n, NEW t,
           IsDeclared(p, t) \/ IsRoleType(p, n, t) \/ IsRoleBindingType(p, n, t)
    PROVE  t = [prefix |-> t.prefix, v2 |-> t.v2, rels |-> t.rels]
BY DEF IsDeclared, IsRoleType, IsRoleBindingType, Declared, createV2RoleResourceType,
       createRoleBindingResourceType, Generated

LEMMA DeclaredFound ==
    ASSUME NEW p, IsDocument(p), NEW n \in DOMAIN DeclaredTypes(p)
    PROVE  IsDeclared(p, DeclaredTypes(p)[n])
<1>1. n \in DOMAIN ByName(p.types) /\ DeclaredTypes(p)[n] = Declared(ByName(p.types)[n])
  BY DEF DeclaredTypes
<1>2. PICK i \in DOMAIN p.types : ByName(p.types)[n] = p.types[i]
  BY <1>1, ByNameFound DEF IsDocument
<1> QED
  BY <1>1, <1>2 DEF IsDeclared

LEMMA BaseCases ==
    ASSUME NEW p, IsDocument(p), NEW n \in DOMAIN BaseTypes(p)
    PROVE  \E t, more :
              /\ IsDeclared(p, t) \/ IsRoleType(p, n, t) \/ IsRoleBindingType(p, n, t)
              /\ BaseTypes(p)[n] = [prefix |-> t.prefix, v2 |-> t.v2, rels |-> t.rels \cup more]
              /\ more = {} \/ (more = {MemberRole(p)} /\ p.rbac.on)
<1> DEFINE rt == Put(Put(DeclaredTypes(p), p.rbac.role.name, createV2RoleResourceType(p)),
                     p.rbac.roleBinding.name, createRoleBindingResourceType(p))
<1>1. CASE ~p.rbac.on
  <2>1. BaseTypes(p) = DeclaredTypes(p)
    BY <1>1 DEF BaseTypes
  <2>2. IsDeclared(p, BaseTypes(p)[n])
    BY <2>1, DeclaredFound
  <2>3. BaseTypes(p)[n].rels \cup {} = BaseTypes(p)[n].rels
    OBVIOUS
  <2> QED
    BY <2>2, <2>3, TypeIsRecord
<1>2. CASE p.rbac.on
  <2>1. TypesWithRoles(p) = [m \in DOMAIN rt |-> IF m \in Elements(p.rbac.owners)
            THEN [rt[m] EXCEPT !.rels = @ \cup {MemberRole(p)}] ELSE rt[m]]
    BY DEF TypesWithRoles, MemberRole
  <2>2. ASSUME n \in DOMAIN rt
        PROVE  IsDeclared(p, rt[n]) \/ IsRoleType(p, n, rt[n]) \/ IsRoleBindingType(p, n, rt[n])
    <3>1. CASE n = p.rbac.roleBinding.name
      BY <1>2, <2>2, <3>1 DEF Put, IsRoleBindingType
    <3>2. CASE n # p.rbac.roleBinding.name /\ n = p.rbac.role.name
      BY <1>2, <2>2, <3>2 DEF Put, IsRoleType
    <3>3. CASE n # p.rbac.roleBinding.name /\ n # p.rbac.role.name
      <4>1. n \in DOMAIN DeclaredTypes(p) /\ rt[n] = DeclaredTypes(p)[n]
        BY <2>2, <3>3 DEF Put
      <4> QED
        BY <4>1, DeclaredFound
    <3> QED
      BY <3>1, <3>2, <3>3
  <2> HIDE DEF rt
  <2>3. n \in DOMAIN rt /\ BaseTypes(p)[n] = IF n \in Elements(p.rbac.owners)
            THEN [rt[n] EXCEPT !.rels = @ \cup {MemberRole(p)}] ELSE rt[n]
    BY <1>2, <2>1 DEF BaseTypes
  <2>4. rt[n] = [prefix |-> rt[n].prefix, v2 |-> rt[n].v2, rels |-> rt[n].rels]
    BY <2>2, <2>3, TypeIsRecord
  <2>5. CASE n \in Elements(p.rbac.owners)
    <3>1. BaseTypes(p)[n] = [prefix |-> rt[n].prefix, v2 |-> rt[n].v2,
                             rels |-> rt[n].rels \cup {MemberRole(p)}]
      BY <2>3, <2>4, <2>5
    <3> QED
      BY <1>2, <2>2, <2>3, <3>1
  <2>6. CASE n \notin Elements(p.rbac.owners)
    <3>1. BaseTypes(p)[n] = [prefix |-> rt[n].prefix, v2 |-> rt[n].v2, rels |-> rt[n].rels \cup {}]
      BY <2>3, <2>4, <2>6
    <3> QED
      BY <2>2, <2>3, <3>1
  <2> QED
    BY <2>5, <2>6
<1> QED
  BY <1>1, <1>2

LEMMA DeclaredRelationFound ==
    ASSUME NEW p, NEW i \in DOMAIN p.types, NEW j \in DOMAIN p.types[i].rels
    PROVE  p.types[i].rels[j].relation \in DeclaredRelations(p)
<1> DEFINE of(k) == {p.types[k].rels[l].relation : l \in DOMAIN p.types[k].rels}
<1>1. p.types[i].rels[j].relation \in of(i)
  OBVIOUS
<1>2. DeclaredRelations(p) = UNION {of(k) : k \in DOMAIN p.types}
  BY Zenon DEF DeclaredRelations
<1> HIDE DEF of
<1> QED
  BY <1>1, <1>2

RoleOwner(p)     ==
    At(0, Relationship(RoleOwnerRelation,
                       [i \in DOMAIN p.rbac.owners |-> Target(p.rbac.owners[i])]))
Everyones(p)     == [i \in DOMAIN p.rbac.subjectTypes |-> Everyone(p.rbac.subjectTypes[i])]
RoleAction(p, a) == At(0, Relationship(ActionRelation(a), Everyones(p)))

(* the targets of the relation of an action of roles *)
LEMMA EveryonesAre ==
    ASSUME NEW p
    PROVE  \A t : t \in Elements(Everyones(p)) <=>
                  \E s \in Elements(p.rbac.subjectTypes) : t = Everyone(s)
BY Zenon DEF Everyones, Elements

LEMMA RoleTypeRelations ==
    ASSUME NEW p, NEW n, NEW t, IsRoleType(p, n, t), NEW r \in t.rels
    PROVE  r = RoleOwner(p) \/ \E a \in ActionNames(p) : r = RoleAction(p, a)
<1> DEFINE Rels == {Relationship(RoleOwnerRelation,
                                 [i \in DOMAIN p.rbac.owners |-> Target(p.rbac.owners[i])])}
                   \cup {Relationship(ActionRelation(a), Everyones(p)) : a \in ActionNames(p)}
<1>1. t.rels = {At(0, q) : q \in Rels}
  BY Zenon DEF IsRoleType, createV2RoleResourceType, Generated, Everyones
<1>2. PICK q \in Rels : r = At(0, q)
  <2> HIDE DEF Rels
  <2> QED
    BY <1>1, Zenon
<1> QED
  BY <1>2, Zenon DEF RoleOwner, RoleAction

(* The relations of a type: what each is named, and that a name is used    *)
(* once.                                                                   *)
LEMMA BaseRelations ==
    ASSUME NEW p, IsDocument(p), NEW n \in DOMAIN BaseTypes(p), NEW r \in BaseTypes(p)[n].rels
    PROVE  /\ r = [relation |-> r.relation, targets |-> r.targets, at |-> r.at]
           /\ \/ r.relation \in DeclaredRelations(p) \cup ReservedRelations
              \/ /\ p.rbac.on /\ n = p.rbac.role.name
                 /\ \E a \in ActionNames(p) : r.relation = ActionRelation(a)
<1>1. PICK t, more :
         /\ IsDeclared(p, t) \/ IsRoleType(p, n, t) \/ IsRoleBindingType(p, n, t)
         /\ BaseTypes(p)[n] = [prefix |-> t.prefix, v2 |-> t.v2, rels |-> t.rels \cup more]
         /\ more = {} \/ (more = {MemberRole(p)} /\ p.rbac.on)
  BY BaseCases
<1>2. r \in t.rels \/ r = MemberRole(p)
  BY <1>1
<1>3. CASE r = MemberRole(p)
  BY <1>3 DEF MemberRole, At, Relationship, ReservedRelations
<1>4. CASE r \in t.rels /\ IsDeclared(p, t)
  <2>1. PICK i \in DOMAIN p.types : t = Declared(p.types[i])
    BY <1>4 DEF IsDeclared
  <2>2. PICK j \in DOMAIN p.types[i].rels : r = At(j, p.types[i].rels[j])
    BY <1>4, <2>1 DEF Declared
  <2>3. r = [relation |-> p.types[i].rels[j].relation, targets |-> p.types[i].rels[j].targets,
             at |-> j]
    BY <2>2 DEF At
  <2>4. p.types[i].rels[j].relation \in DeclaredRelations(p)
    BY DeclaredRelationFound
  <2> QED
    BY <2>3, <2>4
<1>5. CASE r \in t.rels /\ IsRoleType(p, n, t)
  <2>1. r = RoleOwner(p) \/ \E a \in ActionNames(p) : r = RoleAction(p, a)
    BY <1>5, RoleTypeRelations
  <2>2. CASE r = RoleOwner(p)
    BY <2>2 DEF RoleOwner, At, Relationship, ReservedRelations
  <2>3. CASE \E a \in ActionNames(p) : r = RoleAction(p, a)
    BY <1>5, <2>3 DEF RoleAction, At, Relationship, IsRoleType
  <2> QED
    BY <2>1, <2>2, <2>3
<1>6. CASE r \in t.rels /\ IsRoleBindingType(p, n, t)
  BY <1>6 DEF IsRoleBindingType, createRoleBindingResourceType, Generated, At, Relationship,
              ReservedRelations
<1> QED
  BY <1>1, <1>2, <1>3, <1>4, <1>5, <1>6

(* the names of the relations of the role bindings' type and of the roles' *)
LEMMA ReservedDiffer ==
    /\ RoleOwnerMemberRoleRelation \notin {RoleOwnerRelation, RolebindingRoleRelation,
                                           RolebindingSubjectRelation}
    /\ RolebindingRoleRelation # RolebindingSubjectRelation
    /\ RolebindingRoleRelation # NoName /\ RolebindingSubjectRelation # NoName
    /\ AvailableRolesList \notin RoleBindingActions \cup {NoName}
    /\ GrantRelationship # NoName
BY DEF RoleOwnerMemberRoleRelation, RoleOwnerRelation, RolebindingRoleRelation,
       RolebindingSubjectRelation, NoName, AvailableRolesList, RoleBindingActions, GrantRelationship

LEMMA BaseOnce ==
    ASSUME NEW p, IsDocument(p), CarefulNames(p), NEW n \in DOMAIN BaseTypes(p),
           NEW r \in BaseTypes(p)[n].rels, NEW s \in BaseTypes(p)[n].rels,
           r.relation = s.relation
    PROVE  r = s
<1>1. PICK t, more :
         /\ IsDeclared(p, t) \/ IsRoleType(p, n, t) \/ IsRoleBindingType(p, n, t)
         /\ BaseTypes(p)[n] = [prefix |-> t.prefix, v2 |-> t.v2, rels |-> t.rels \cup more]
         /\ more = {} \/ (more = {MemberRole(p)} /\ p.rbac.on)
  BY BaseCases
<1>2. MemberRole(p).relation = RoleOwnerMemberRoleRelation
  BY DEF MemberRole, At, Relationship
<1>3. CASE IsDeclared(p, t)
  <2>1. PICK i \in DOMAIN p.types : t = Declared(p.types[i])
    BY <1>3 DEF IsDeclared
  <2>2. t.rels = {At(j, p.types[i].rels[j]) : j \in DOMAIN p.types[i].rels}
    BY <2>1 DEF Declared
  <2>3. \A q \in t.rels : q.relation \in DeclaredRelations(p)
    BY <2>2 DEF At, DeclaredRelations
  <2>4. RoleOwnerMemberRoleRelation \notin DeclaredRelations(p)
    BY DEF CarefulNames
  <2>5. \A j, k \in DOMAIN p.types[i].rels :
           p.types[i].rels[j].relation = p.types[i].rels[k].relation => j = k
    BY DEF CarefulNames
  <2>6. \A q, u \in t.rels : q.relation = u.relation => q = u
    BY <2>2, <2>5 DEF At
  <2> QED
    BY <1>1, <1>2, <2>3, <2>4, <2>6
<1>4. CASE IsRoleType(p, n, t)
  <2>1. \A q \in t.rels : q = RoleOwner(p) \/ \E a \in ActionNames(p) : q = RoleAction(p, a)
    BY <1>4, RoleTypeRelations
  <2>2. /\ RoleOwner(p).relation = RoleOwnerRelation
        /\ \A a : RoleAction(p, a).relation = ActionRelation(a)
    BY DEF RoleOwner, RoleAction, At, Relationship
  <2>3. \A a, b \in ActionNames(p) : ActionRelation(a) = ActionRelation(b) => a = b
    BY ActionNamesAreNames, ActionRelations
  <2>4. \A a \in ActionNames(p) : /\ ActionRelation(a) # RoleOwnerRelation
                                 /\ ActionRelation(a) # RoleOwnerMemberRoleRelation
    BY ActionNamesAreNames, ActionRelations DEF ReservedRelations
  <2>5. ASSUME NEW q \in t.rels, NEW u \in t.rels, q.relation = u.relation
        PROVE  q = u
    <3>1. CASE q = RoleOwner(p)
      BY <2>1, <2>2, <2>4, <2>5, <3>1
    <3>2. ASSUME NEW a \in ActionNames(p), q = RoleAction(p, a)
          PROVE  q = u
      BY <2>1, <2>2, <2>3, <2>4, <2>5, <3>2
    <3> QED
      BY <2>1, <3>1, <3>2
  <2>6. \A q \in t.rels : q.relation # RoleOwnerMemberRoleRelation
    BY <2>1, <2>2, <2>4, ReservedDiffer
  <2> QED
    BY <1>1, <1>2, <2>5, <2>6
<1>5. CASE IsRoleBindingType(p, n, t)
  <2>1. \A q \in t.rels : q.relation \in {RolebindingRoleRelation, RolebindingSubjectRelation}
    BY <1>5 DEF IsRoleBindingType, createRoleBindingResourceType, Generated, At, Relationship
  <2>2. \A q, u \in t.rels : q.relation = u.relation => q = u
    BY <1>5, ReservedDiffer DEF IsRoleBindingType, createRoleBindingResourceType, Generated, At,
                                Relationship
  <2> QED
    BY <1>1, <1>2, <2>1, <2>2, ReservedDiffer
<1> QED
  BY <1>1, <1>3, <1>4, <1>5

(* The policy has the types of the documents, unions replaced in targets.  *)
ExpandedRelations(p, n) == {Expanded(ByName(p.unions), r) : r \in BaseTypes(p)[n].rels}

LEMMA PolicyTypes ==
    ASSUME NEW p, IsDocument(p)
    PROVE  /\ DOMAIN NewPolicy(p).rt = DOMAIN BaseTypes(p)
           /\ \A n \in DOMAIN BaseTypes(p) :
                 /\ NewPolicy(p).rt[n].v2 = BaseTypes(p)[n].v2
                 /\ NewPolicy(p).rt[n].rels = ExpandedRelations(p, n)
           /\ NewPolicy(p).ac = ActionNames(p) /\ NewPolicy(p).p = p
<1> DEFINE un == ByName(p.unions)
<1>1. /\ NewPolicy(p).rt = ExpandedTypes(un, BaseTypes(p))
      /\ NewPolicy(p).ac = ActionNames(p) /\ NewPolicy(p).p = p
  BY DEF NewPolicy, BaseTypes
<1>2. ExpandedTypes(un, BaseTypes(p)) =
         [n \in DOMAIN BaseTypes(p) |->
             [BaseTypes(p)[n] EXCEPT !.rels = {Expanded(un, r) : r \in BaseTypes(p)[n].rels}]]
  BY Zenon DEF ExpandedTypes
<1>3. ASSUME NEW n \in DOMAIN BaseTypes(p)
      PROVE  /\ NewPolicy(p).rt[n].v2 = BaseTypes(p)[n].v2
             /\ NewPolicy(p).rt[n].rels = ExpandedRelations(p, n)
  <2>1. BaseTypes(p)[n] = [prefix |-> BaseTypes(p)[n].prefix, v2 |-> BaseTypes(p)[n].v2,
                           rels |-> BaseTypes(p)[n].rels]
    BY BaseCases
  <2> QED
    BY <1>1, <1>2, <2>1 DEF ExpandedRelations
<1>4. DOMAIN ExpandedTypes(un, BaseTypes(p)) = DOMAIN BaseTypes(p)
  BY <1>2
<1> QED
  BY <1>1, <1>3, <1>4, Zenon

(* A type has a relation once, by what the documents declare or RBAC needs.*)
LEMMA PolicyRelations ==
    ASSUME NEW p, IsDocument(p), CarefulNames(p), NEW n \in DOMAIN NewPolicy(p).rt,
           NEW rel \in NewPolicy(p).rt[n].rels
    PROVE  /\ \A other \in NewPolicy(p).rt[n].rels : other.relation = rel.relation => other = rel
           /\ \/ rel.relation \in DeclaredRelations(p) \cup ReservedRelations
              \/ /\ p.rbac.on /\ n = p.rbac.role.name
                 /\ \E a \in ActionNames(p) : rel.relation = ActionRelation(a)
<1>1. n \in DOMAIN BaseTypes(p)
  BY PolicyTypes
<1>2. NewPolicy(p).rt[n].rels = ExpandedRelations(p, n)
  BY <1>1, PolicyTypes
<1>3. PICK r \in BaseTypes(p)[n].rels : rel = Expanded(ByName(p.unions), r)
  BY <1>2 DEF ExpandedRelations
<1>4. \A q : Expanded(ByName(p.unions), q).relation = q.relation
  BY DEF Expanded
<1>5. ASSUME NEW other \in NewPolicy(p).rt[n].rels, other.relation = rel.relation
      PROVE  other = rel
  <2>1. PICK q \in BaseTypes(p)[n].rels : other = Expanded(ByName(p.unions), q)
    BY <1>2 DEF ExpandedRelations
  <2>2. q.relation = r.relation
    BY <1>3, <1>4, <1>5, <2>1
  <2> QED
    BY <1>1, <1>3, <2>1, <2>2, BaseOnce
<1>6. rel.relation = r.relation
  BY <1>3, <1>4
<1> QED
  BY <1>1, <1>5, <1>6, BaseRelations

(* where an action binding comes from: the documents or RBAC               *)
BoundTypes(p, i) == MemberList(ByName(p.unions), Target(p.bindings[i].type))
BindingAt(p, i, k) ==
    ActionBinding(p.bindings[i].action, BoundTypes(p, i)[k].name, p.bindings[i].conds,
                  p.bindings[i].sets, <<i, k>>)

IsDocumentBinding(p, b) ==
    \E i \in DOMAIN p.bindings : \E k \in DOMAIN BoundTypes(p, i) : b = BindingAt(p, i, k)

LEMMA PolicyBindings ==
    ASSUME NEW p, NEW b \in NewPolicy(p).bn
    PROVE  \/ IsDocumentBinding(p, b)
           \/ p.rbac.on /\ b \in RoleBindingBindings(p)
           \/ p.rbac.on /\ b \in AvailableRolesBindings(p)
<1> DEFINE un == ByName(p.unions)
<1>1. \/ b \in ExpandedBindings(un, p.bindings)
      \/ p.rbac.on /\ b \in RoleBindingBindings(p)
      \/ p.rbac.on /\ b \in AvailableRolesBindings(p)
  BY DEF NewPolicy
<1>2. ASSUME b \in ExpandedBindings(un, p.bindings)
      PROVE  IsDocumentBinding(p, b)
  BY <1>2, Zenon DEF ExpandedBindings, IsDocumentBinding, BindingAt, BoundTypes
<1> QED
  BY <1>1, <1>2


(* The type of role bindings is as RBAC makes it, whatever the documents   *)
(* declare.                                                                *)
LEMMA RoleBindingTypeOf ==
    ASSUME NEW p, p.rbac.on, NEW n, n = p.rbac.roleBinding.name
    PROVE  /\ n \in DOMAIN BaseTypes(p) /\ p.rbac.role.name \in DOMAIN BaseTypes(p)
           /\ ~BaseTypes(p)[n].v2.on
           /\ createRoleBindingResourceType(p).rels \subseteq BaseTypes(p)[n].rels
<1> DEFINE t  == createRoleBindingResourceType(p)
           rt == Put(Put(DeclaredTypes(p), p.rbac.role.name, createV2RoleResourceType(p)), n, t)
<1>1. BaseTypes(p) = [m \in DOMAIN rt |-> IF m \in Elements(p.rbac.owners)
          THEN [rt[m] EXCEPT !.rels = @ \cup {MemberRole(p)}] ELSE rt[m]]
  BY DEF BaseTypes, TypesWithRoles, MemberRole
<1>2. n \in DOMAIN rt /\ p.rbac.role.name \in DOMAIN rt /\ rt[n] = t
  BY DEF Put
<1>3. t = [prefix |-> t.prefix, v2 |-> NoRoleBindingV2, rels |-> t.rels]
  BY DEF createRoleBindingResourceType, Generated
<1> HIDE DEF rt, t
<1>4. BaseTypes(p)[n] = IF n \in Elements(p.rbac.owners)
          THEN [rt[n] EXCEPT !.rels = @ \cup {MemberRole(p)}] ELSE rt[n]
  BY <1>1, <1>2
<1>5. BaseTypes(p)[n].v2 = NoRoleBindingV2 /\ t.rels \subseteq BaseTypes(p)[n].rels
  <2>1. rt[n] = [prefix |-> t.prefix, v2 |-> NoRoleBindingV2, rels |-> t.rels]
    BY <1>2, <1>3
  <2>2. [rt[n] EXCEPT !.rels = @ \cup {MemberRole(p)}] =
           [prefix |-> t.prefix, v2 |-> NoRoleBindingV2, rels |-> t.rels \cup {MemberRole(p)}]
    BY <2>1
  <2> QED
    BY <1>4, <2>1, <2>2
<1>6. ~NoRoleBindingV2.on
  BY DEF NoRoleBindingV2
<1>7. n \in DOMAIN BaseTypes(p) /\ p.rbac.role.name \in DOMAIN BaseTypes(p)
  BY <1>1, <1>2
<1> QED
  BY <1>5, <1>6, <1>7 DEF t

-----------------------------------------------------------------------------
(* Accepted documents.                                                     *)

Accepted(p) == IsDocument(p) /\ Careful(NewPolicy(p)) /\ Validate(NewPolicy(p))

LEMMA AcceptedParts ==
    ASSUME NEW p, Accepted(p)
    PROVE  /\ IsDocument(p) /\ CarefulNames(p) /\ CarefulRBAC(p)
           /\ CarefulTypes(NewPolicy(p)) /\ CarefulBindings(NewPolicy(p))
           /\ ValidUnions(NewPolicy(p)) /\ ValidResourceTypes(NewPolicy(p))
           /\ ValidActionBindings(NewPolicy(p))
BY PolicyTypes DEF Accepted, Careful, Validate

LEMMA BoundActions ==
    ASSUME NEW p, Accepted(p), NEW b \in NewPolicy(p).bn
    PROVE  /\ b.action \in ActionNames(p) /\ b.action # NoName /\ IsName(b.action)
           /\ b.type \in DOMAIN NewPolicy(p).rt
<1>1. b.action \in ActionNames(p) /\ b.action # NoName /\ b.type \in DOMAIN NewPolicy(p).rt
  <2>1. ValidActionBindings(NewPolicy(p)) /\ NewPolicy(p).ac = ActionNames(p)
    BY AcceptedParts, PolicyTypes
  <2> QED
    BY <2>1 DEF ValidActionBindings
<1> QED
  BY <1>1, AcceptedParts, ActionNamesAreNames

(* the name of an action is no relation's, nor is its relation's an action *)
LEMMA ActionsDiffer ==
    ASSUME NEW p, Accepted(p), NEW a \in ActionNames(p) \cup RoleBindingActions
    PROVE  /\ a \notin DeclaredRelations(p) \cup ReservedRelations
           /\ ActionRelation(a) \notin DeclaredRelations(p)
           /\ ActionRelation(a) \notin ActionNames(p) \cup RoleBindingActions
<1>1. CarefulNames(p)
  BY AcceptedParts
<1> QED
  BY <1>1 DEF CarefulNames

LEMMA DocumentBindings ==
    ASSUME NEW p, Accepted(p), NEW b \in NewPolicy(p).bn, IsDocumentBinding(p, b)
    PROVE  CarefulBinding(NewPolicy(p), b, b.type)
<1>1. PICK i \in DOMAIN p.bindings : \E k \in DOMAIN BoundTypes(p, i) : b = BindingAt(p, i, k)
  BY DEF IsDocumentBinding
<1>2. PICK k \in DOMAIN BoundTypes(p, i) : b = BindingAt(p, i, k)
  BY <1>1
<1> DEFINE m == BoundTypes(p, i)[k]
<1>0. /\ b.action = p.bindings[i].action /\ b.type = m.name
      /\ b.conds = p.bindings[i].conds /\ b.sets = p.bindings[i].sets
  BY <1>2 DEF BindingAt, ActionBinding
<1>3. m.name \in DOMAIN NewPolicy(p).rt
  BY <1>0, BoundActions
<1>4. CarefulBinding(NewPolicy(p), p.bindings[i], m.name)
  <2>1. NewPolicy(p).p = p /\ CarefulBindings(NewPolicy(p))
    BY AcceptedParts, PolicyTypes
  <2>2. m \in Members(ByName(p.unions), Target(p.bindings[i].type))
    BY DEF BoundTypes, Members, Elements
  <2> HIDE DEF m
  <2> QED
    BY <1>3, <2>1, <2>2, Zenon DEF CarefulBindings
<1> QED
  BY <1>0, <1>4 DEF CarefulBinding

LEMMA RoleBindingsBindings ==
    ASSUME NEW p, NEW b \in RoleBindingBindings(p)
    PROVE  /\ b.type = p.rbac.roleBinding.name /\ b.conds = {} /\ b.action \in ActionNames(p)
           /\ b.sets = {{ConditionRelationshipAction(RolebindingRoleRelation,
                                                  ActionRelation(b.action))},
                        {ConditionRelationshipAction(RolebindingSubjectRelation, NoName)}}
BY DEF RoleBindingBindings, ActionBinding

LEMMA AvailableBindings ==
    ASSUME NEW p, NEW b \in AvailableRolesBindings(p)
    PROVE  /\ b.action = AvailableRolesList /\ b.conds # {} /\ b.sets = {}
           /\ \A c \in b.conds :
                 /\ c.clauses = {"RelationshipAction"}
                 /\ c.action # NoName =>
                       c.relation \in TypesWithRoles(p)[b.type].v2.from
<1>1. PICK n : /\ AvailableRoles(p, n, TypesWithRoles(p)[n]) # {}
               /\ b = ActionBinding(AvailableRolesList, n,
                                    AvailableRoles(p, n, TypesWithRoles(p)[n]), {}, <<>>)
  BY DEF AvailableRolesBindings
<1>2. /\ b.action = AvailableRolesList /\ b.type = n /\ b.sets = {}
      /\ b.conds = AvailableRoles(p, n, TypesWithRoles(p)[n])
  BY <1>1 DEF ActionBinding
<1>3. ASSUME NEW c \in AvailableRoles(p, n, TypesWithRoles(p)[n])
      PROVE  /\ c.clauses = {"RelationshipAction"}
             /\ c.action # NoName => c.relation \in TypesWithRoles(p)[n].v2.from
  BY <1>3 DEF AvailableRoles, ConditionRelationshipAction, Condition
<1> QED
  BY <1>1, <1>2, <1>3

(* only documents bind with roles' clauses                                 *)
LEMMA RoleClauses ==
    ASSUME NEW p, NEW b \in NewPolicy(p).bn, NEW c \in b.conds,
           "RoleBinding" \in c.clauses \/ "RoleBindingV2" \in c.clauses
    PROVE  IsDocumentBinding(p, b)
<1>1. ~(b \in RoleBindingBindings(p))
  BY RoleBindingsBindings
<1>2. ~(b \in AvailableRolesBindings(p))
  BY AvailableBindings
<1> QED
  BY <1>1, <1>2, PolicyBindings

-----------------------------------------------------------------------------
(* The schema of an accepted document.                                     *)

BoundV1(b)         == \E c \in b.conds : "RoleBinding" \in c.clauses
BoundRelation(b, r) ==
    \E c \in b.conds : "RoleBinding" \in c.clauses /\ r = V1Relation(b.action, c.nth)

BoundPermission(pol, n, b) ==
    Permission(b.action, UNION {ConditionArrows(pol.rt[n], b.action, c) : c \in b.conds},
               {{Clause(c) : c \in s} : s \in b.sets}, b.at)

LEMMA SchemaRelationsOf ==
    ASSUME NEW p, NEW n
    PROVE  \A r : r \in SchemaRelations(NewPolicy(p), n) <=>
              \/ r \in NewPolicy(p).rt[n].rels
              \/ \E b \in NewPolicy(p).bn : b.type = n /\ BoundRelation(b, r)
<1> DEFINE bn    == {b \in NewPolicy(p).bn : b.type = n}
           of(b) == {V1Relation(b.action, c.nth) :
                        c \in {d \in b.conds : "RoleBinding" \in d.clauses}}
<1>1. SchemaRelations(NewPolicy(p), n) = NewPolicy(p).rt[n].rels \cup UNION {of(b) : b \in bn}
  BY Zenon DEF SchemaRelations, BindingsOn
<1>2. \A b, r : r \in of(b) <=> BoundRelation(b, r)
  BY Zenon DEF BoundRelation
<1> HIDE DEF of
<1> QED
  BY <1>1, <1>2

(* the relation that a binding needs is one, to the V1 roles' subjects     *)
LEMMA BoundRelationIs ==
    ASSUME NEW p, Accepted(p), NEW b \in NewPolicy(p).bn, NEW r, BoundRelation(b, r)
    PROVE  /\ BoundV1(b) /\ r.relation = ActionRelation(b.action) /\ r.once
           /\ r.targets = {MembersOf(RoleTypeV1, RolebindingSubjectRelation)}
           /\ \A s : BoundRelation(b, s) => s = r
<1>1. PICK c \in b.conds : "RoleBinding" \in c.clauses /\ r = V1Relation(b.action, c.nth)
  BY DEF BoundRelation
<1>2. CarefulBinding(NewPolicy(p), b, b.type)
  BY <1>1, RoleClauses, DocumentBindings
<1>3. ASSUME NEW s, BoundRelation(b, s)
      PROVE  s = r
  <2>1. PICK d \in b.conds : "RoleBinding" \in d.clauses /\ s = V1Relation(b.action, d.nth)
    BY <1>3 DEF BoundRelation
  <2>2. c = d
    BY <1>1, <1>2, <2>1 DEF CarefulBinding
  <2> QED
    BY <1>1, <2>1, <2>2
<1> QED
  BY <1>1, <1>3 DEF BoundV1, V1Relation

LEMMA SchemaActionsOf ==
    ASSUME NEW p, NEW n, NEW a \in SchemaActions(NewPolicy(p), n)
    PROVE  \/ \E b \in NewPolicy(p).bn : b.type = n /\ a = BoundPermission(NewPolicy(p), n, b)
           \/ /\ UsesV2(NewPolicy(p), n) /\ NewPolicy(p).rt[n].v2.on
              /\ a \in RoleBindingActionsOf(NewPolicy(p).rt[n])
<1>1. \/ a \in {BoundPermission(NewPolicy(p), n, b) : b \in BindingsOn(NewPolicy(p), n)}
      \/ UsesV2(NewPolicy(p), n) /\ a \in RoleBindingActionsOf(NewPolicy(p).rt[n])
  BY DEF SchemaActions, BoundPermission
<1>2. UsesV2(NewPolicy(p), n) => NewPolicy(p).rt[n].v2.on
  BY DEF UsesV2
<1> QED
  BY <1>1, <1>2 DEF BindingsOn

LEMMA RoleBindingActionsNamed ==
    ASSUME NEW t, NEW a \in RoleBindingActionsOf(t)
    PROVE  /\ a.name \in RoleBindingActions
           /\ a = Permission(a.name, CreateRoleBindingConditionsForAction(a.name, t.v2.from),
                             {}, <<>>)
BY DEF RoleBindingActionsOf, Permission

(* the names of the actions of a type                                      *)
LEMMA SchemaActionNames ==
    ASSUME NEW p, Accepted(p), NEW n, NEW a \in SchemaActions(NewPolicy(p), n)
    PROVE  a.name \in ActionNames(p) \cup RoleBindingActions
<1>1. \A b : BoundPermission(NewPolicy(p), n, b).name = b.action
  BY DEF BoundPermission, Permission
<1> QED
  BY <1>1, SchemaActionsOf, BoundActions, RoleBindingActionsNamed

(* ... and of the relations: those made for a role's action are not there  *)
(* already                                                                 *)
LEMMA V1RelationNew ==
    ASSUME NEW p, Accepted(p), NEW b \in NewPolicy(p).bn, BoundV1(b),
           NEW r \in NewPolicy(p).rt[b.type].rels
    PROVE  r.relation # ActionRelation(b.action)
<1>1. PICK c \in b.conds : "RoleBinding" \in c.clauses
  BY DEF BoundV1
<1>2. CarefulCondition(NewPolicy(p), b.type, c)
  BY <1>1, RoleClauses, DocumentBindings DEF CarefulBinding
<1>3. ~(p.rbac.on /\ b.type = p.rbac.role.name)
  <2>1. NewPolicy(p).p = p
    BY AcceptedParts, PolicyTypes
  <2> QED
    BY <1>1, <1>2, <2>1 DEF CarefulCondition
<1>4. r.relation \in DeclaredRelations(p) \cup ReservedRelations
  BY <1>3, AcceptedParts, BoundActions, PolicyRelations
<1>5. ActionRelation(b.action) \notin DeclaredRelations(p) \cup ReservedRelations
  BY BoundActions, ActionsDiffer, ActionRelations
<1> QED
  BY <1>4, <1>5

LEMMA NoRelationIsAction ==
    ASSUME NEW p, Accepted(p), NEW n \in DOMAIN NewPolicy(p).rt,
           NEW r \in SchemaRelations(NewPolicy(p), n),
           NEW a \in ActionNames(p) \cup RoleBindingActions
    PROVE  r.relation # a
<1>1. \A x \in ActionNames(p) : ActionRelation(x) # a
  BY ActionsDiffer
<1>2. \/ r.relation \in DeclaredRelations(p) \cup ReservedRelations
      \/ \E x \in ActionNames(p) : r.relation = ActionRelation(x)
  <2>1. CASE r \in NewPolicy(p).rt[n].rels
    BY <2>1, AcceptedParts, PolicyRelations
  <2>2. CASE \E b \in NewPolicy(p).bn : BoundRelation(b, r)
    BY <2>2, BoundActions, BoundRelationIs
  <2> QED
    BY <2>1, <2>2, SchemaRelationsOf
<1> QED
  BY <1>1, <1>2, ActionsDiffer

LEMMA NamesOfSchemaDiffer ==
    ASSUME NEW p, Accepted(p), NEW n \in DOMAIN NewPolicy(p).rt
    PROVE  /\ \A r \in SchemaRelations(NewPolicy(p), n), a \in SchemaActions(NewPolicy(p), n) :
                 r.relation # a.name
           /\ \A r, s \in SchemaRelations(NewPolicy(p), n) : r.relation = s.relation => r = s
           /\ \A a, b \in SchemaActions(NewPolicy(p), n) : a.name = b.name => a = b
<1> DEFINE rels == SchemaRelations(NewPolicy(p), n)
           acts == SchemaActions(NewPolicy(p), n)
<1>1. ASSUME NEW r \in rels, NEW a \in acts
      PROVE  r.relation # a.name
  BY <1>1, SchemaActionNames, NoRelationIsAction
<1>2. ASSUME NEW r \in rels, NEW s \in rels, r.relation = s.relation
      PROVE  r = s
  <2>1. ASSUME NEW b \in NewPolicy(p).bn, b.type = n, NEW u, BoundRelation(b, u),
               NEW v \in NewPolicy(p).rt[n].rels
        PROVE  u.relation # v.relation
    BY <2>1, BoundRelationIs, V1RelationNew
  <2>2. CASE r \in NewPolicy(p).rt[n].rels /\ s \in NewPolicy(p).rt[n].rels
    BY <1>2, <2>2, AcceptedParts, PolicyRelations
  <2>3. CASE r \in NewPolicy(p).rt[n].rels /\ s \notin NewPolicy(p).rt[n].rels
    BY <1>2, <2>1, <2>3, SchemaRelationsOf
  <2>4. CASE r \notin NewPolicy(p).rt[n].rels /\ s \in NewPolicy(p).rt[n].rels
    BY <1>2, <2>1, <2>4, SchemaRelationsOf
  <2>5. CASE r \notin NewPolicy(p).rt[n].rels /\ s \notin NewPolicy(p).rt[n].rels
    <3>1. PICK b \in NewPolicy(p).bn : b.type = n /\ BoundRelation(b, r)
      BY <1>2, <2>5, SchemaRelationsOf
    <3>2. PICK d \in NewPolicy(p).bn : d.type = n /\ BoundRelation(d, s)
      BY <1>2, <2>5, SchemaRelationsOf
    <3>3. b.action = d.action
      <4>1. ActionRelation(b.action) = ActionRelation(d.action)
        BY <1>2, <3>1, <3>2, BoundRelationIs
      <4> QED
        BY <4>1, BoundActions, ActionRelations
    <3>4. b = d
      BY <3>1, <3>2, <3>3, AcceptedParts DEF ValidActionBindings
    <3> QED
      BY <3>1, <3>2, <3>4, BoundRelationIs
  <2> QED
    BY <2>2, <2>3, <2>4, <2>5
<1>3. ASSUME NEW a \in acts, NEW b \in acts, a.name = b.name
      PROVE  a = b
  <2>1. \A x : BoundPermission(NewPolicy(p), n, x).name = x.action
    BY DEF BoundPermission, Permission
  <2>2. ASSUME NEW x \in NewPolicy(p).bn, x.type = n, NewPolicy(p).rt[n].v2.on
        PROVE  x.action \notin RoleBindingActions
    <3>1. CASE IsDocumentBinding(p, x)
      BY <2>2, <3>1, DocumentBindings DEF CarefulBinding
    <3>2. CASE p.rbac.on /\ x \in RoleBindingBindings(p)
      <4>1. n = p.rbac.roleBinding.name
        BY <2>2, <3>2, RoleBindingsBindings
      <4> QED
        BY <2>2, <3>2, <4>1, AcceptedParts, PolicyTypes, RoleBindingTypeOf
    <3>3. CASE p.rbac.on /\ x \in AvailableRolesBindings(p)
      BY <3>3, AvailableBindings, ReservedDiffer
    <3> QED
      BY <3>1, <3>2, <3>3, PolicyBindings
  <2>3. ASSUME NEW x \in NewPolicy(p).bn, NEW y \in NewPolicy(p).bn,
               x.type = n, y.type = n, x.action = y.action
        PROVE  x = y
    BY <2>3, AcceptedParts DEF ValidActionBindings
  <2> QED
    BY <1>3, <2>1, <2>2, <2>3, SchemaActionsOf, RoleBindingActionsNamed
<1> QED
  BY <1>1, <1>2, <1>3

(* every relation and action that Validate finds is in the schema          *)
LEMMA FoundInSchema ==
    ASSUME NEW p, NEW n \in DOMAIN NewPolicy(p).rt
    PROVE  LET d == Schema(NewPolicy(p))[n] IN
           /\ \A r : findRelationship(NewPolicy(p).rt[n], r) => r \in RelationNames(d)
           /\ \A a : findActionBinding(NewPolicy(p), a, n) => a \in ActionNamesOf(d)
<1> DEFINE d == Schema(NewPolicy(p))[n]
<1>1. d.relations = SchemaRelations(NewPolicy(p), n) /\ d.actions = SchemaActions(NewPolicy(p), n)
  BY DEF Schema
<1>2. ASSUME NEW r, findRelationship(NewPolicy(p).rt[n], r)
      PROVE  r \in RelationNames(d)
  <2>1. PICK rel \in NewPolicy(p).rt[n].rels : rel.relation = r
    BY <1>2 DEF findRelationship
  <2>2. rel \in d.relations
    BY <1>1, <2>1, SchemaRelationsOf
  <2> HIDE DEF d
  <2> QED
    BY <2>1, <2>2 DEF RelationNames
<1>3. ASSUME NEW a, findActionBinding(NewPolicy(p), a, n)
      PROVE  a \in ActionNamesOf(d)
  <2>1. PICK b \in NewPolicy(p).bn : b.action = a /\ b.type = n
    BY <1>3 DEF findActionBinding
  <2>2. BoundPermission(NewPolicy(p), n, b) \in d.actions
    BY <1>1, <2>1 DEF SchemaActions, BindingsOn, BoundPermission
  <2>3. BoundPermission(NewPolicy(p), n, b).name = a
    BY <2>1 DEF BoundPermission, Permission
  <2> HIDE DEF d
  <2> QED
    BY <2>2, <2>3 DEF ActionNamesOf
<1> QED
  BY <1>2, <1>3

(* A subject relation of a V1 condition is one of V1 roles, who are no    *)
(* wildcard.                                                               *)
LEMMA V1Target ==
    ASSUME NEW p, Accepted(p), NEW b \in NewPolicy(p).bn, BoundV1(b)
    PROVE  /\ RoleTypeV1 \in DOMAIN NewPolicy(p).rt
           /\ Inheritable(NewPolicy(p), RoleTypeV1, RolebindingSubjectRelation)
<1>1. PICK c \in b.conds : "RoleBinding" \in c.clauses
  BY DEF BoundV1
<1>2. CarefulCondition(NewPolicy(p), b.type, c)
  BY <1>1, RoleClauses, DocumentBindings DEF CarefulBinding
<1> QED
  BY <1>1, <1>2 DEF CarefulCondition

(* Wildcards of a type's relations in the schema are those of its policy,  *)
(* as far as the name is a relation's.                                     *)
LEMMA WildcardsOf ==
    ASSUME NEW p, Accepted(p), NEW n \in DOMAIN NewPolicy(p).rt, NEW r
    PROVE  WildcardFree(Schema(NewPolicy(p))[n], r) <=> NoWildcard(NewPolicy(p), n, r)
<1> DEFINE d == Schema(NewPolicy(p))[n]
<1>1. d.relations = SchemaRelations(NewPolicy(p), n)
  BY DEF Schema
<1>2. NewPolicy(p).rt[n].rels \subseteq d.relations
  BY <1>1, SchemaRelationsOf
<1>3. ASSUME NoWildcard(NewPolicy(p), n, r), NEW s \in d.relations, s.relation = r,
             NEW t \in s.targets
      PROVE  ~t.wild
  <2>1. CASE s \in NewPolicy(p).rt[n].rels
    BY <1>3, <2>1 DEF NoWildcard
  <2>2. ASSUME NEW b \in NewPolicy(p).bn, BoundRelation(b, s)
        PROVE  ~t.wild
    BY <1>3, <2>2, BoundRelationIs DEF MembersOf
  <2> QED
    BY <1>1, <1>3, <2>1, <2>2, SchemaRelationsOf
<1> HIDE DEF d
<1>4. WildcardFree(d, r) <=> NoWildcard(NewPolicy(p), n, r)
  BY <1>2, <1>3 DEF WildcardFree, NoWildcard
<1> QED
  BY <1>4 DEF d

(* The subjects of relations are of types that are defined,                *)
LEMMA TargetsNamed ==
    ASSUME NEW p, Accepted(p), NEW n \in DOMAIN NewPolicy(p).rt,
           NEW r \in SchemaRelations(NewPolicy(p), n), NEW t \in r.targets
    PROVE  t.name \in DOMAIN NewPolicy(p).rt
<1>1. CASE r \in NewPolicy(p).rt[n].rels
  BY <1>1, AcceptedParts DEF ValidResourceTypes, ValidTarget
<1>2. ASSUME NEW b \in NewPolicy(p).bn, BoundRelation(b, r)
      PROVE  t.name \in DOMAIN NewPolicy(p).rt
  BY <1>2, BoundRelationIs, V1Target DEF MembersOf
<1> QED
  BY <1>1, <1>2, SchemaRelationsOf

(* ... and are defined themselves, if they are plain.                      *)
LEMMA TargetsDefined ==
    ASSUME NEW p, Accepted(p), PlainTargets(NewPolicy(p)), NEW n \in DOMAIN NewPolicy(p).rt,
           NEW r \in SchemaRelations(NewPolicy(p), n), NEW t \in r.targets
    PROVE  r.once /\ TargetDefined(Schema(NewPolicy(p)), t)
<1>1. DOMAIN Schema(NewPolicy(p)) = DOMAIN NewPolicy(p).rt
  BY DEF Schema
<1>2. CASE r \in NewPolicy(p).rt[n].rels
  <2>1. ValidTarget(NewPolicy(p), t)
    BY <1>2, AcceptedParts DEF ValidResourceTypes
  <2>2. r.once /\ (t.subrel # NoName => ~t.wild /\ NoWildcard(NewPolicy(p), t.name, t.subrel))
    BY <1>2 DEF PlainTargets
  <2>3. t.name \in DOMAIN NewPolicy(p).rt
    BY <2>1 DEF ValidTarget
  <2>4. t.subrel # NoName => WildcardFree(Schema(NewPolicy(p))[t.name], t.subrel)
    BY <2>2, <2>3, WildcardsOf
  <2> QED
    BY <1>1, <2>1, <2>2, <2>4, FoundInSchema DEF ValidTarget, TargetDefined, NoName
<1>3. ASSUME NEW b \in NewPolicy(p).bn, b.type = n, BoundRelation(b, r)
      PROVE  r.once /\ TargetDefined(Schema(NewPolicy(p)), t)
  <2>1. r.once /\ r.targets = {MembersOf(RoleTypeV1, RolebindingSubjectRelation)} /\ BoundV1(b)
    BY <1>3, BoundRelationIs
  <2>2. t.name = RoleTypeV1 /\ t.subrel = RolebindingSubjectRelation /\ ~t.wild
    BY <2>1 DEF MembersOf
  <2>3. /\ RoleTypeV1 \in DOMAIN NewPolicy(p).rt
        /\ findRelationship(NewPolicy(p).rt[RoleTypeV1], RolebindingSubjectRelation)
        /\ WildcardFree(Schema(NewPolicy(p))[RoleTypeV1], RolebindingSubjectRelation)
    BY <2>1, V1Target, WildcardsOf DEF Inheritable
  <2> QED
    BY <1>1, <2>1, <2>2, <2>3, FoundInSchema DEF TargetDefined
<1> QED
  BY <1>2, <1>3, SchemaRelationsOf

(* They are plain if they are defined and listed once.                     *)
LEMMA TargetsPlain ==
    ASSUME NEW p, Accepted(p), SchemaTaken(Schema(NewPolicy(p)))
    PROVE  PlainTargets(NewPolicy(p))
<1> DEFINE sch == Schema(NewPolicy(p))
<1>1. DOMAIN sch = DOMAIN NewPolicy(p).rt
  BY DEF Schema
<1>2. ASSUME NEW n \in DOMAIN NewPolicy(p).rt, NEW r \in NewPolicy(p).rt[n].rels
      PROVE  r.once /\ \A t \in r.targets : TargetDefined(sch, t)
  <2>1. r \in sch[n].relations
    BY <1>2, SchemaRelationsOf DEF Schema
  <2> HIDE DEF sch
  <2>2. DefinitionTaken(sch, n)
    BY <1>1 DEF SchemaTaken, sch
  <2> QED
    BY <2>1, <2>2 DEF DefinitionTaken
<1>3. ASSUME NEW n \in DOMAIN NewPolicy(p).rt, NEW r \in NewPolicy(p).rt[n].rels,
             NEW t \in r.targets, t.subrel # NoName
      PROVE  ~t.wild /\ NoWildcard(NewPolicy(p), t.name, t.subrel)
  <2>1. t.name \in DOMAIN sch /\ ~t.wild /\ WildcardFree(sch[t.name], t.subrel)
    BY <1>2, <1>3 DEF TargetDefined, NoName
  <2> QED
    BY <1>1, <2>1, WildcardsOf
<1> QED
  BY <1>2, <1>3 DEF PlainTargets

(* ... and there are some.                                                 *)
LEMMA TargetsPresent ==
    ASSUME NEW p, Accepted(p), NEW n \in DOMAIN NewPolicy(p).rt,
           NEW r \in SchemaRelations(NewPolicy(p), n)
    PROVE  r.targets # {}
<1>1. CASE r \in NewPolicy(p).rt[n].rels
  BY <1>1, AcceptedParts DEF CarefulTypes
<1>2. ASSUME NEW b \in NewPolicy(p).bn, BoundRelation(b, r)
      PROVE  r.targets # {}
  BY <1>2, BoundRelationIs
<1> QED
  BY <1>1, <1>2, SchemaRelationsOf

(* An arrow along a relation that the documents declare without wildcards  *)
(* leads somewhere.                                                        *)
LEMMA ArrowAlong ==
    ASSUME NEW p, Accepted(p), NEW n \in DOMAIN NewPolicy(p).rt, NEW r, NEW a,
           findRelationship(NewPolicy(p).rt[n], r),
           a # NoName => NoWildcard(NewPolicy(p), n, r)
    PROVE  ArrowResolved(Schema(NewPolicy(p))[n], Arrow(r, a))
<1>1. r \in RelationNames(Schema(NewPolicy(p))[n])
  BY FoundInSchema
<1>2. a # NoName => WildcardFree(Schema(NewPolicy(p))[n], r)
  BY WildcardsOf
<1>3. Arrow(r, a).relation = r /\ Arrow(r, a).action = a
  BY DEF Arrow
<1> QED
  BY <1>1, <1>2, <1>3 DEF ArrowResolved, NoName

LEMMA InheritedArrows ==
    ASSUME NEW p, Accepted(p), NEW n \in DOMAIN NewPolicy(p).rt, NewPolicy(p).rt[n].v2.on,
           NEW from, \A f \in from : f \in NewPolicy(p).rt[n].v2.from,
           NEW a, NEW w \in CreateRoleBindingConditionsForAction(a, from)
    PROVE  ArrowResolved(Schema(NewPolicy(p))[n], w)
<1>1. PICK r : w = Arrow(r, a) /\ (r = GrantRelationship \/ r \in from)
  BY DEF CreateRoleBindingConditionsForAction
<1>2. Inheritable(NewPolicy(p), n, r)
  BY <1>1, AcceptedParts DEF CarefulTypes
<1> QED
  BY <1>1, <1>2, ArrowAlong DEF Inheritable

(* The clause that names a relation is one of a relation that is there.    *)
LEMMA RelationshipActionArrow ==
    ASSUME NEW p, Accepted(p), NEW b \in NewPolicy(p).bn, NEW c \in b.conds,
           "RelationshipAction" \in c.clauses
    PROVE  ArrowResolved(Schema(NewPolicy(p))[b.type], Arrow(c.relation, c.action))
<1>1. b.type \in DOMAIN NewPolicy(p).rt
  BY BoundActions
<1>2. ValidConditionRelationshipAction(NewPolicy(p), NewPolicy(p).rt[b.type], c)
  BY AcceptedParts DEF ValidActionBindings, ValidConditions
<1>3. findRelationship(NewPolicy(p).rt[b.type], c.relation)
  BY <1>2 DEF ValidConditionRelationshipAction, findRelationship
<1>4. ASSUME c.action # NoName
      PROVE  NoWildcard(NewPolicy(p), b.type, c.relation)
  <2>1. CASE IsDocumentBinding(p, b)
    BY <1>4, <2>1, DocumentBindings DEF CarefulBinding, CarefulCondition
  <2>2. CASE p.rbac.on /\ b \in AvailableRolesBindings(p)
    <3>1. c.relation \in TypesWithRoles(p)[b.type].v2.from
      BY <1>4, <2>2, AvailableBindings
    <3>2. TypesWithRoles(p)[b.type].v2 = NewPolicy(p).rt[b.type].v2
      BY <1>1, <2>2, AcceptedParts, PolicyTypes DEF BaseTypes
    <3> QED
      BY <1>1, <3>1, <3>2, AcceptedParts DEF CarefulTypes, Inheritable
  <2>3. CASE p.rbac.on /\ b \in RoleBindingBindings(p)
    BY <2>3, RoleBindingsBindings
  <2> QED
    BY <2>1, <2>2, <2>3, PolicyBindings
<1> QED
  BY <1>1, <1>3, <1>4, ArrowAlong

(* A condition has arrows, and they lead somewhere.                        *)
LEMMA ConditionArrowsResolved ==
    ASSUME NEW p, Accepted(p), NEW b \in NewPolicy(p).bn, NEW c \in b.conds
    PROVE  LET arrows == ConditionArrows(NewPolicy(p).rt[b.type], b.action, c) IN
           arrows # {} /\ \A w \in arrows : ArrowResolved(Schema(NewPolicy(p))[b.type], w)
<1> DEFINE t      == NewPolicy(p).rt[b.type]
           arrows == ConditionArrows(t, b.action, c)
<1>1. b.type \in DOMAIN NewPolicy(p).rt
  BY BoundActions
<1>2. PICK clause \in ConditionClauses : c.clauses = {clause}
  BY AcceptedParts DEF ValidActionBindings, ValidConditions
<1>3. CASE clause = "RoleBinding"
  <2>1. arrows = {Arrow(ActionRelation(b.action), NoName)}
    BY <1>2, <1>3 DEF ConditionArrows
  <2>2. V1Relation(b.action, c.nth) \in Schema(NewPolicy(p))[b.type].relations
    <3>1. BoundRelation(b, V1Relation(b.action, c.nth))
      BY <1>2, <1>3 DEF BoundRelation
    <3> QED
      BY <1>1, <3>1, SchemaRelationsOf DEF Schema
  <2>3. V1Relation(b.action, c.nth).relation = ActionRelation(b.action)
    BY DEF V1Relation
  <2>4. ActionRelation(b.action) \in RelationNames(Schema(NewPolicy(p))[b.type])
    BY <2>2, <2>3, Zenon DEF RelationNames
  <2>5. ArrowResolved(Schema(NewPolicy(p))[b.type], Arrow(ActionRelation(b.action), NoName))
    BY <2>4 DEF ArrowResolved, Arrow, NoName
  <2> QED
    BY <2>1, <2>5
<1>4. CASE clause = "RoleBindingV2"
  <2>1. t.v2.on
    BY <1>2, <1>4, RoleClauses, DocumentBindings DEF CarefulBinding, CarefulCondition
  <2>2. arrows = CreateRoleBindingConditionsForAction(b.action, IF t.v2.all THEN t.v2.from ELSE {})
    BY <1>2, <1>4, <2>1 DEF ConditionArrows
  <2>3. arrows # {}
    BY <2>2 DEF CreateRoleBindingConditionsForAction
  <2>4. ASSUME NEW w \in arrows PROVE ArrowResolved(Schema(NewPolicy(p))[b.type], w)
    <3> DEFINE from == IF t.v2.all THEN t.v2.from ELSE {}
    <3>1. \A f \in from : f \in t.v2.from
      OBVIOUS
    <3>2. w \in CreateRoleBindingConditionsForAction(b.action, from)
      BY <2>2
    <3> HIDE DEF from
    <3> QED
      BY <1>1, <2>1, <3>1, <3>2, InheritedArrows
  <2> QED
    BY <2>3, <2>4
<1>5. CASE clause = "RelationshipAction"
  <2>1. arrows = {Arrow(c.relation, c.action)}
    BY <1>2, <1>5 DEF ConditionArrows
  <2> QED
    BY <1>2, <1>5, <2>1, RelationshipActionArrow
<1> QED
  BY <1>3, <1>4, <1>5 DEF ConditionClauses

(* A role binding grants what its role grants, to its subjects: the        *)
(* relations are there, and no wildcard is among the roles.                *)
LEMMA RoleBindingArrows ==
    ASSUME NEW p, Accepted(p), p.rbac.on, NEW a
    PROVE  LET d == Schema(NewPolicy(p))[p.rbac.roleBinding.name] IN
           /\ ArrowResolved(d, Arrow(RolebindingRoleRelation, a))
           /\ ArrowResolved(d, Arrow(RolebindingSubjectRelation, NoName))
<1> DEFINE role == At(0, Relationship(RolebindingRoleRelation, <<Target(p.rbac.role.name)>>))
           subj == At(0, Relationship(RolebindingSubjectRelation, p.rbac.subjects))
           un   == ByName(p.unions)
<1>1. PICK n : n = p.rbac.roleBinding.name
  OBVIOUS
<1>2. role \in BaseTypes(p)[n].rels /\ subj \in BaseTypes(p)[n].rels
  <2>1. /\ role \in createRoleBindingResourceType(p).rels
        /\ subj \in createRoleBindingResourceType(p).rels
    BY DEF createRoleBindingResourceType, Generated
  <2> HIDE DEF role, subj
  <2> QED
    BY <1>1, <2>1, RoleBindingTypeOf
<1>3. n \in DOMAIN NewPolicy(p).rt /\ p.rbac.role.name \in DOMAIN NewPolicy(p).rt
  BY <1>1, AcceptedParts, PolicyTypes, RoleBindingTypeOf
<1>4. /\ Expanded(un, role) \in NewPolicy(p).rt[n].rels
      /\ Expanded(un, subj) \in NewPolicy(p).rt[n].rels
  <2> HIDE DEF role, subj
  <2> QED
    BY <1>2, <1>3, AcceptedParts, PolicyTypes DEF ExpandedRelations
<1>5. Expanded(un, role).relation = RolebindingRoleRelation
  BY DEF Expanded, At, Relationship
<1>6. Expanded(un, subj).relation = RolebindingSubjectRelation
  BY DEF Expanded, At, Relationship
<1>7. Expanded(un, role).targets = {Target(p.rbac.role.name)}
  <2>1. p.rbac.role.name \notin DOMAIN un
    <3>1. \A i \in DOMAIN p.unions : p.unions[i].name \notin DOMAIN NewPolicy(p).rt
      BY AcceptedParts, PolicyTypes DEF ValidUnions
    <3> QED
      BY <1>3, <3>1 DEF ByName
  <2>2. Members(un, Target(p.rbac.role.name)) = {Target(p.rbac.role.name)}
    <3>1. MemberList(un, Target(p.rbac.role.name)) = <<Target(p.rbac.role.name)>>
      BY <2>1 DEF MemberList, Target
    <3>2. \A t : Elements(<<t>>) = {t}
      BY DEF Elements
    <3> QED
      BY <3>1, <3>2, Zenon DEF Members
  <2> HIDE DEF un
  <2>3. Expanded(un, role).targets = UNION {Members(un, t) : t \in {Target(p.rbac.role.name)}}
    BY DEF Expanded, At, Relationship, Elements
  <2> QED
    BY <2>2, <2>3
<1> HIDE DEF role, subj
<1>8. NoWildcard(NewPolicy(p), n, RolebindingRoleRelation)
  <2>1. ASSUME NEW rel \in NewPolicy(p).rt[n].rels, rel.relation = RolebindingRoleRelation
        PROVE  rel = Expanded(un, role)
    BY <1>3, <1>4, <1>5, <2>1, AcceptedParts, PolicyRelations
  <2>2. ~Target(p.rbac.role.name).wild
    BY DEF Target
  <2> QED
    BY <1>7, <2>1, <2>2 DEF NoWildcard
<1>9. /\ findRelationship(NewPolicy(p).rt[n], RolebindingRoleRelation)
      /\ findRelationship(NewPolicy(p).rt[n], RolebindingSubjectRelation)
  BY <1>4, <1>5, <1>6 DEF findRelationship
<1> QED
  BY <1>1, <1>3, <1>8, <1>9, ArrowAlong

(* A permission is one of something, and all of it is there.               *)
PermissionResolved(d, a) ==
    /\ ArrowsIn(a) # {} /\ (a.any = {} => {} \notin a.all)
    /\ \A w \in ArrowsIn(a) : ArrowResolved(d, w)

LEMMA BoundPermissionResolved ==
    ASSUME NEW p, Accepted(p), NEW b \in NewPolicy(p).bn
    PROVE  PermissionResolved(Schema(NewPolicy(p))[b.type],
                              BoundPermission(NewPolicy(p), b.type, b))
<1> DEFINE d         == Schema(NewPolicy(p))[b.type]
           a         == BoundPermission(NewPolicy(p), b.type, b)
           arrows(c) == ConditionArrows(NewPolicy(p).rt[b.type], b.action, c)
<1>1. a.any = UNION {arrows(c) : c \in b.conds} /\ a.all = {{Clause(c) : c \in s} : s \in b.sets}
  BY DEF BoundPermission, Permission
<1>2. \A c \in b.conds : arrows(c) # {} /\ \A w \in arrows(c) : ArrowResolved(d, w)
  BY ConditionArrowsResolved
<1>3. ASSUME NEW c \in b.conds
      PROVE  PermissionResolved(d, a)
  <2> HIDE DEF d, a, arrows
  <2>1. a.any # {} /\ \A w \in a.any : ArrowResolved(d, w)
    BY <1>1, <1>2, <1>3
  <2> QED
    BY <2>1 DEF PermissionResolved, ArrowsIn
<1>4. ASSUME p.rbac.on, b \in RoleBindingBindings(p)
      PROVE  PermissionResolved(d, a)
  <2> DEFINE x    == ConditionRelationshipAction(RolebindingRoleRelation, ActionRelation(b.action))
             y    == ConditionRelationshipAction(RolebindingSubjectRelation, NoName)
             role == Arrow(RolebindingRoleRelation, ActionRelation(b.action))
             subj == Arrow(RolebindingSubjectRelation, NoName)
  <2>1. Clause(x) = role /\ Clause(y) = subj
    BY DEF Clause, ConditionRelationshipAction, Condition
  <2>2. ArrowResolved(d, role) /\ ArrowResolved(d, subj)
    BY <1>4, RoleBindingsBindings, RoleBindingArrows
  <2>3. b.conds = {} /\ b.sets = {{x}, {y}}
    BY <1>4, RoleBindingsBindings
  <2> HIDE DEF d, a, x, y, role, subj
  <2>4. a.any = {} /\ a.all = {{role}, {subj}}
    <3>1. {Clause(c) : c \in {x}} = {role} /\ {Clause(c) : c \in {y}} = {subj}
      BY <2>1
    <3>2. {{Clause(c) : c \in s} : s \in {{x}, {y}}}
             = {{Clause(c) : c \in {x}}, {Clause(c) : c \in {y}}}
      OBVIOUS
    <3> QED
      BY <1>1, <2>3, <3>1, <3>2
  <2>5. ArrowsIn(a) = {role, subj}
    BY <2>4 DEF ArrowsIn
  <2> QED
    BY <2>2, <2>4, <2>5 DEF PermissionResolved
<1>5. b.conds = {} => p.rbac.on /\ b \in RoleBindingBindings(p)
  BY PolicyBindings, DocumentBindings, AvailableBindings DEF CarefulBinding
<1> HIDE DEF d, a
<1> QED
  BY <1>3, <1>4, <1>5 DEF d, a

LEMMA PermissionsResolved ==
    ASSUME NEW p, Accepted(p), NEW n \in DOMAIN NewPolicy(p).rt,
           NEW a \in SchemaActions(NewPolicy(p), n)
    PROVE  PermissionResolved(Schema(NewPolicy(p))[n], a)
<1>1. CASE NewPolicy(p).rt[n].v2.on /\ a \in RoleBindingActionsOf(NewPolicy(p).rt[n])
  <2> DEFINE arrows == CreateRoleBindingConditionsForAction(a.name, NewPolicy(p).rt[n].v2.from)
  <2>1. a.any = arrows
    BY <1>1, RoleBindingActionsNamed DEF Permission
  <2>2. arrows # {}
    BY DEF CreateRoleBindingConditionsForAction
  <2>3. \A w \in arrows : ArrowResolved(Schema(NewPolicy(p))[n], w)
    BY <1>1, InheritedArrows
  <2> QED
    BY <2>1, <2>2, <2>3 DEF PermissionResolved, ArrowsIn
<1> QED
  BY <1>1, SchemaActionsOf, BoundPermissionResolved

(* SpiceDB takes an accepted document's schema if, and only if, no relation *)
(* has a subject twice and no subject is one of a relation that everyone    *)
(* may have: what Validate and Careful leave open decides it alone.         *)
THEOREM AcceptedDocumentTaken ==
    ASSUME NEW p, Accepted(p)
    PROVE  SchemaTaken(Schema(NewPolicy(p))) <=> PlainTargets(NewPolicy(p))
<1>1. ASSUME PlainTargets(NewPolicy(p)), NEW n \in DOMAIN NewPolicy(p).rt
      PROVE  DefinitionTaken(Schema(NewPolicy(p)), n)
  <2> DEFINE d == Schema(NewPolicy(p))[n]
  <2>1. d.relations = SchemaRelations(NewPolicy(p), n) /\ d.actions = SchemaActions(NewPolicy(p), n)
    BY DEF Schema
  <2>2. NamesDiffer(d)
    <3> HIDE DEF d
    <3> QED
      BY <2>1, NamesOfSchemaDiffer DEF NamesDiffer, RelationNames, ActionNamesOf
  <2>3. ASSUME NEW r \in d.relations
        PROVE  /\ r.targets # {} /\ r.once
               /\ \A t \in r.targets : TargetDefined(Schema(NewPolicy(p)), t)
    <3>1. r \in SchemaRelations(NewPolicy(p), n)
      BY <2>1
    <3>2. r.targets # {}
      BY <3>1, TargetsPresent
    <3>3. PICK t \in r.targets : TRUE
      BY <3>2
    <3> QED
      BY <1>1, <3>1, <3>2, <3>3, TargetsDefined
  <2>4. \A a \in d.actions : PermissionResolved(d, a)
    BY <2>1, PermissionsResolved
  <2> QED
    BY <2>2, <2>3, <2>4 DEF DefinitionTaken, PermissionResolved
<1>2. DOMAIN Schema(NewPolicy(p)) = DOMAIN NewPolicy(p).rt
  BY DEF Schema
<1> QED
  BY <1>1, <1>2, TargetsPlain DEF SchemaTaken

-----------------------------------------------------------------------------
(* The policy of the directory is a document's, whatever the files and the *)
(* requests.                                                               *)
OfDocument == \E p : IsDocument(p) /\ policy = NewPolicy(p)

LEMMA InitOfDocument == Init => OfDocument
BY EmptyIsDocument DEF Init, NoPolicy, OfDocument

(* Only a file that is added changes the directory and its policy.         *)
Added(i) == /\ directory' = directory \cup {i}
            /\ policy' = NewPolicy(Document(directory'))

LEMMA NextPolicy ==
    ASSUME [Next]_vars
    PROVE  UNCHANGED <<directory, policy>> \/ \E i \in DOMAIN Files : Added(i)
<1>1. ASSUME NEW i \in DOMAIN Files, AddFile(i)
      PROVE  Added(i)
  BY <1>1 DEF AddFile, Added
<1>2. ASSUME WriteSchema \/ StartServer
      PROVE  UNCHANGED <<directory, policy>>
  BY <1>2 DEF WriteSchema, StartServer
<1>3. ASSUME NEW e \in Events, CreateRelationships(e) \/ DeleteRelationships(e)
      PROVE  UNCHANGED <<directory, policy>>
  BY <1>3 DEF CreateRelationships, DeleteRelationships
<1>4. ASSUME NEW x \in Ids, NEW n \in RoleNumbers, NEW as \in ActionChoices,
             CreateRoleV2(x, n, as)
      PROVE  UNCHANGED <<directory, policy>>
  BY <1>4 DEF CreateRoleV2
<1>5. ASSUME NEW x \in Ids, NEW s \in Subjects, NEW n \in RoleBindingNumbers, NEW row \in roles,
             CreateRoleBinding(x, n, row.id, s)
      PROVE  UNCHANGED <<directory, policy>>
  BY <1>5 DEF CreateRoleBinding
<1>6. ASSUME NEW x \in Ids, NEW n \in RoleV1Numbers, NEW as \in ActionChoices, CreateRole(x, n, as)
      PROVE  UNCHANGED <<directory, policy>>
  BY <1>6 DEF CreateRole
<1>7. ASSUME NEW row \in roles, NEW s \in Subjects, AssignSubjectRole(row.id, s)
      PROVE  UNCHANGED <<directory, policy>>
  BY <1>7 DEF AssignSubjectRole
<1>8. UNCHANGED vars => UNCHANGED <<directory, policy>>
  BY DEF vars
<1> QED
  BY <1>1, <1>2, <1>3, <1>4, <1>5, <1>6, <1>7, <1>8 DEF Next

(* Whatever the files are that operators put into the directory, in        *)
(* whatever order, and whatever document authors add to them: a policy that *)
(* Validate accepts and whose documents keep the rules of Careful gives a   *)
(* schema that SpiceDB takes exactly when its subjects are plain.           *)
THEOREM AcceptedTaken == Spec => []AcceptedSchemaTaken
<1>1. OfDocument /\ [Next]_vars => OfDocument'
  BY NextPolicy, DocumentIsDocument DEF OfDocument, Added
<1>2. ASSUME OfDocument
      PROVE  AcceptedSchemaTaken
  <2>1. PICK p : IsDocument(p) /\ policy = NewPolicy(p)
    BY <1>2 DEF OfDocument
  <2>2. policy.p = p
    BY <2>1, PolicyTypes
  <2>3. ASSUME NEW d \in Drafts
        PROVE  IsDocument(MergeWithPolicyDocument(policy.p, d))
    <3>1. IsDocument(d)
      BY FilesAssumption DEF Documents
    <3> QED
      BY <2>1, <2>2, <3>1, MergeIsDocument
  <2> QED
    BY <2>3, AcceptedDocumentTaken DEF AcceptedSchemaTaken, Accepted
<1>3. OfDocument => AcceptedSchemaTaken
  BY <1>2
<1> QED
  BY <1>1, <1>3, InitOfDocument, PTL DEF Spec

-----------------------------------------------------------------------------
(* The order of the files.                                                 *)

(* ByName finds the last of a name, and the last of a name is what it      *)
(* finds.                                                                  *)
LEMMA ByNameLast ==
    ASSUME NEW S, NEW list \in Seq(S), NEW n \in DOMAIN ByName(list)
    PROVE  \E i \in DOMAIN list : /\ list[i].name = n /\ ByName(list)[n] = list[i]
                                 /\ \A j \in DOMAIN list : list[j].name = n => j <= i
<1> DEFINE Last(i) == /\ i \in DOMAIN list /\ list[i].name = n
                      /\ \A j \in DOMAIN list : list[j].name = n => j <= i
           Named == {i \in DOMAIN list : list[i].name = n}
           T     == {Len(list) - i : i \in Named}
<1>1. Named # {}
  BY DEF ByName
<1>2. T \in SUBSET Nat /\ T # {}
  BY <1>1
<1>3. PICK m \in T : \A k \in T : m <= k
  BY <1>2, Smallest
<1>4. PICK i \in Named : m = Len(list) - i
  OBVIOUS
<1>5. \A j \in Named : j <= i
  <2>1. \A j \in Named : Len(list) - i <= Len(list) - j
    BY <1>3, <1>4
  <2> QED
    BY <2>1
<1>6. Last(i)
  BY <1>5
<1>7. ByName(list)[n] = list[CHOOSE j \in DOMAIN list : Last(j)]
  BY DEF ByName
<1> QED
  BY <1>6, <1>7

LEMMA ByNameIs ==
    ASSUME NEW S, NEW list \in Seq(S), NEW i \in DOMAIN list,
           \A j \in DOMAIN list : list[j].name = list[i].name => j <= i
    PROVE  list[i].name \in DOMAIN ByName(list) /\ ByName(list)[list[i].name] = list[i]
<1>1. list[i].name \in DOMAIN ByName(list)
  BY DEF ByName
<1>2. PICK j \in DOMAIN list : /\ list[j].name = list[i].name
                               /\ ByName(list)[list[i].name] = list[j]
                               /\ \A k \in DOMAIN list : list[k].name = list[i].name => k <= j
  BY <1>1, ByNameLast
<1>3. i <= j /\ j <= i /\ i \in Int /\ j \in Int
  BY <1>2
<1> QED
  BY <1>1, <1>2, <1>3

LastNamed(list, n, i) == /\ i \in DOMAIN list /\ list[i].name = n
                         /\ \A j \in DOMAIN list : list[j].name = n => j <= i

LEMMA ByNameAt ==
    ASSUME NEW S, NEW list \in Seq(S), NEW n, NEW i, LastNamed(list, n, i)
    PROVE  ByName(list)[n] = list[i]
BY ByNameIs DEF LastNamed

LEMMA NamedIn ==
    ASSUME NEW list, NEW i \in DOMAIN list
    PROVE  list[i].name \in DOMAIN ByName(list)
BY DEF ByName

LEMMA NameOf ==
    ASSUME NEW list, NEW n \in DOMAIN ByName(list)
    PROVE  \E i \in DOMAIN list : n = list[i].name
BY DEF ByName

(* Of two lists without a name in common, each keeps its own.              *)
Apart(s, t) == DOMAIN ByName(s) \cap DOMAIN ByName(t) = {}
Joins(c, s, t) == /\ DOMAIN ByName(c) = DOMAIN ByName(s) \cup DOMAIN ByName(t)
                  /\ \A n \in DOMAIN ByName(s) : ByName(c)[n] = ByName(s)[n]
                  /\ \A n \in DOMAIN ByName(t) : ByName(c)[n] = ByName(t)[n]

LEMMA ByNameConcat ==
    ASSUME NEW S, NEW s \in Seq(S), NEW t \in Seq(S), Apart(s, t)
    PROVE  Joins(s \o t, s, t)
<1> USE DEF Apart
<1> DEFINE c == s \o t
<1>1. /\ c \in Seq(S)
      /\ \A i \in DOMAIN s : i \in DOMAIN c /\ c[i] = s[i] /\ i <= Len(s)
      /\ \A i \in DOMAIN t : Len(s) + i \in DOMAIN c /\ c[Len(s) + i] = t[i] /\ i > 0
      /\ \A i \in DOMAIN c :
            i \in DOMAIN s \/ (i - Len(s) \in DOMAIN t /\ i = Len(s) + (i - Len(s)))
  BY Concatenation
<1>2. /\ DOMAIN s \subseteq Int /\ DOMAIN t \subseteq Int /\ DOMAIN c \subseteq Int
      /\ Len(s) \in Nat
  BY <1>1, LenProperties
<1> HIDE DEF c
<1>4. DOMAIN ByName(c) = DOMAIN ByName(s) \cup DOMAIN ByName(t)
  <2>1. ASSUME NEW n \in DOMAIN ByName(c) PROVE n \in DOMAIN ByName(s) \cup DOMAIN ByName(t)
    <3>1. PICK i \in DOMAIN c : n = c[i].name
      BY NameOf
    <3>2. CASE i \in DOMAIN s
      <4>1. n = s[i].name
        BY <1>1, <3>1, <3>2
      <4> QED
        BY <3>2, <4>1, NamedIn
    <3>3. CASE i - Len(s) \in DOMAIN t /\ i = Len(s) + (i - Len(s))
      <4>1. n = t[i - Len(s)].name
        BY <1>1, <3>1, <3>3
      <4> QED
        BY <3>3, <4>1, NamedIn
    <3> QED
      BY <1>1, <3>2, <3>3
  <2>2. ASSUME NEW n \in DOMAIN ByName(s) PROVE n \in DOMAIN ByName(c)
    <3>1. PICK i \in DOMAIN s : n = s[i].name
      BY NameOf
    <3>2. i \in DOMAIN c /\ n = c[i].name
      BY <1>1, <3>1
    <3> QED
      BY <3>2, NamedIn
  <2>3. ASSUME NEW n \in DOMAIN ByName(t) PROVE n \in DOMAIN ByName(c)
    <3>1. PICK i \in DOMAIN t : n = t[i].name
      BY NameOf
    <3>2. Len(s) + i \in DOMAIN c /\ n = c[Len(s) + i].name
      BY <1>1, <3>1
    <3> QED
      BY <3>2, NamedIn
  <2> QED
    BY <2>1, <2>2, <2>3
<1>5. ASSUME NEW n \in DOMAIN ByName(s) PROVE ByName(c)[n] = ByName(s)[n]
  <2>1. PICK i \in DOMAIN s : /\ s[i].name = n /\ ByName(s)[n] = s[i]
                              /\ \A j \in DOMAIN s : s[j].name = n => j <= i
    BY ByNameLast
  <2>2. i \in DOMAIN c /\ c[i] = s[i]
    BY <1>1
  <2>3. ASSUME NEW j \in DOMAIN c, c[j].name = n PROVE j <= i
    <3>1. CASE j \in DOMAIN s
      BY <1>1, <2>1, <2>3, <3>1
    <3>2. CASE j - Len(s) \in DOMAIN t /\ j = Len(s) + (j - Len(s))
      <4>1. t[j - Len(s)].name = n
        BY <1>1, <2>3, <3>2
      <4>2. n \in DOMAIN ByName(t)
        BY <3>2, <4>1, NamedIn
      <4> QED
        BY <4>2
    <3> QED
      BY <1>1, <3>1, <3>2
  <2>4. LastNamed(c, n, i)
    BY <2>1, <2>2, <2>3 DEF LastNamed
  <2> QED
    BY <1>1, <2>1, <2>2, <2>4, ByNameAt
<1>6. ASSUME NEW n \in DOMAIN ByName(t) PROVE ByName(c)[n] = ByName(t)[n]
  <2>1. PICK i \in DOMAIN t : /\ t[i].name = n /\ ByName(t)[n] = t[i]
                              /\ \A j \in DOMAIN t : t[j].name = n => j <= i
    BY ByNameLast
  <2> DEFINE k == Len(s) + i
  <2>2. k \in DOMAIN c /\ c[k] = t[i]
    BY <1>1
  <2>3. ASSUME NEW j \in DOMAIN c, c[j].name = n PROVE j <= k
    <3>1. CASE j \in DOMAIN s
      BY <1>1, <1>2, <3>1
    <3>2. CASE j - Len(s) \in DOMAIN t /\ j = Len(s) + (j - Len(s))
      <4>1. t[j - Len(s)].name = n
        BY <1>1, <2>3, <3>2
      <4>2. j - Len(s) <= i
        BY <2>1, <3>2, <4>1
      <4> QED
        BY <1>2, <4>2
    <3> QED
      BY <1>1, <3>1, <3>2
  <2> HIDE DEF k
  <2>4. LastNamed(c, n, k)
    BY <2>1, <2>2, <2>3 DEF LastNamed
  <2> QED
    BY <1>1, <2>1, <2>2, <2>4, ByNameAt
<1> QED
  BY <1>4, <1>5, <1>6 DEF c, Joins

LEMMA SameByName ==
    ASSUME NEW a, NEW b, DOMAIN ByName(a) = DOMAIN ByName(b),
           \A n \in DOMAIN ByName(a) : ByName(a)[n] = ByName(b)[n]
    PROVE  ByName(a) = ByName(b)
BY DEF ByName

LEMMA JoinsSame ==
    ASSUME NEW a, NEW b, NEW s, NEW t, Joins(a, s, t), Joins(b, t, s)
    PROVE  ByName(a) = ByName(b)
<1>1. DOMAIN ByName(a) = DOMAIN ByName(b)
  BY DEF Joins
<1>2. \A n \in DOMAIN ByName(a) : ByName(a)[n] = ByName(b)[n]
  BY DEF Joins
<1> QED
  BY <1>1, <1>2, SameByName

LEMMA ByNameSwap ==
    ASSUME NEW S, NEW s \in Seq(S), NEW t \in Seq(S), Apart(s, t)
    PROVE  ByName(s \o t) = ByName(t \o s)
<1>1. Joins(s \o t, s, t)
  BY ByNameConcat
<1>2. Apart(t, s)
  BY DEF Apart
<1>3. Joins(t \o s, t, s)
  BY <1>2, ByNameConcat
<1> HIDE DEF Joins
<1> QED
  BY <1>1, <1>3, JoinsSame

(* What a policy is made of, the places of the bindings aside.             *)
SameParts(p, q) ==
    /\ ByName(p.types) = ByName(q.types) /\ ByName(p.unions) = ByName(q.unions)
    /\ p.actions = q.actions /\ p.rbac = q.rbac
    /\ Elements(p.bindings) = Elements(q.bindings)

Unplaced(bs) == {[b EXCEPT !.at = <<>>] : b \in bs}

LEMMA UnplacedBindings ==
    ASSUME NEW un, NEW bs, NEW x
    PROVE  x \in Unplaced(ExpandedBindings(un, bs)) <=>
              \E e \in Elements(bs) : \E m \in Members(un, Target(e.type)) :
                  x = ActionBinding(e.action, m.name, e.conds, e.sets, <<>>)
<1> DEFINE ms(e)       == MemberList(un, Target(e.type))
           made(e, l, at) == ActionBinding(e.action, l.name, e.conds, e.sets, at)
           of(j)       == {made(bs[j], ms(bs[j])[k], <<j, k>>) : k \in DOMAIN ms(bs[j])}
<1>1. \A e, l, at : [made(e, l, at) EXCEPT !.at = <<>>] = made(e, l, <<>>)
  BY DEF ActionBinding
<1>2. ExpandedBindings(un, bs) = UNION {of(j) : j \in DOMAIN bs}
  BY Zenon DEF ExpandedBindings
<1>3. \A e : Members(un, Target(e.type)) = {ms(e)[k] : k \in DOMAIN ms(e)}
  BY Zenon DEF Members, Elements
<1>4. \A b : b \in ExpandedBindings(un, bs) <=>
                \E j \in DOMAIN bs : \E k \in DOMAIN ms(bs[j]) :
                    b = made(bs[j], ms(bs[j])[k], <<j, k>>)
  <2>1. \A b, j : b \in of(j) <=>
                     \E k \in DOMAIN ms(bs[j]) : b = made(bs[j], ms(bs[j])[k], <<j, k>>)
    BY Zenon
  <2> HIDE DEF of, ms, made
  <2>2. \A b : b \in ExpandedBindings(un, bs) <=> \E j \in DOMAIN bs : b \in of(j)
    BY <1>2
  <2> QED
    BY <2>1, <2>2, Zenon
<1> HIDE DEF ms, of
<1>5. ASSUME x \in Unplaced(ExpandedBindings(un, bs))
      PROVE  \E e \in Elements(bs) : \E m \in Members(un, Target(e.type)) : x = made(e, m, <<>>)
  <2> HIDE DEF made
  <2>1. PICK b \in ExpandedBindings(un, bs) : x = [b EXCEPT !.at = <<>>]
    BY <1>5 DEF Unplaced
  <2>2. PICK j \in DOMAIN bs : \E k \in DOMAIN ms(bs[j]) : b = made(bs[j], ms(bs[j])[k], <<j, k>>)
    BY <1>4
  <2>3. PICK k \in DOMAIN ms(bs[j]) : b = made(bs[j], ms(bs[j])[k], <<j, k>>)
    BY <2>2
  <2>4. bs[j] \in Elements(bs) /\ ms(bs[j])[k] \in Members(un, Target(bs[j].type))
    BY <1>3 DEF Elements
  <2>5. x = made(bs[j], ms(bs[j])[k], <<>>)
    BY <1>1, <2>1, <2>3
  <2> QED
    BY <2>4, <2>5
<1>6. ASSUME NEW e \in Elements(bs), NEW m \in Members(un, Target(e.type)), x = made(e, m, <<>>)
      PROVE  x \in Unplaced(ExpandedBindings(un, bs))
  <2> HIDE DEF made
  <2>1. PICK j \in DOMAIN bs : e = bs[j]
    BY DEF Elements
  <2>2. PICK k \in DOMAIN ms(e) : m = ms(e)[k]
    BY <1>3
  <2>3. made(e, m, <<j, k>>) \in ExpandedBindings(un, bs)
    BY <1>4, <2>1, <2>2
  <2> QED
    BY <1>1, <1>6, <2>3 DEF Unplaced
<1> QED
  BY <1>5, <1>6

LEMMA SamePartsSamePolicy ==
    ASSUME NEW p, NEW q, SameParts(p, q)
    PROVE  SamePolicy(p, q)
<1>1. DeclaredTypes(p) = DeclaredTypes(q)
  BY DEF DeclaredTypes, SameParts
<1>2. ActionNames(p) = ActionNames(q)
  BY DEF ActionNames, SameParts
<1>3. p.rbac = q.rbac /\ ByName(p.unions) = ByName(q.unions)
  BY DEF SameParts
<1>4. createV2RoleResourceType(p) = createV2RoleResourceType(q)
  BY <1>2, <1>3 DEF createV2RoleResourceType
<1>5. createRoleBindingResourceType(p) = createRoleBindingResourceType(q)
  BY <1>3 DEF createRoleBindingResourceType
<1>6. TypesWithRoles(p) = TypesWithRoles(q)
  BY <1>1, <1>3, <1>4, <1>5 DEF TypesWithRoles
<1>7. RoleBindingBindings(p) = RoleBindingBindings(q)
  BY <1>2, <1>3 DEF RoleBindingBindings
<1>8. \A n, t : AvailableRoles(p, n, t) = AvailableRoles(q, n, t)
  BY <1>3 DEF AvailableRoles
<1>9. AvailableRolesBindings(p) = AvailableRolesBindings(q)
  BY <1>6, <1>8 DEF AvailableRolesBindings
<1> DEFINE made(r) == IF r.rbac.on THEN RoleBindingBindings(r) \cup AvailableRolesBindings(r)
                                   ELSE {}
           un == ByName(p.unions)
<1>10. made(p) = made(q)
  BY <1>3, <1>7, <1>9
<1>11. Unplaced(ExpandedBindings(un, p.bindings)) = Unplaced(ExpandedBindings(un, q.bindings))
  <2>1. Elements(p.bindings) = Elements(q.bindings)
    BY DEF SameParts
  <2> HIDE DEF un
  <2>2. \A bs, x : x \in Unplaced(ExpandedBindings(un, bs)) <=>
                      \E e \in Elements(bs) : \E l \in Members(un, Target(e.type)) :
                          x = ActionBinding(e.action, l.name, e.conds, e.sets, <<>>)
    BY UnplacedBindings
  <2>3. \A x : x \in Unplaced(ExpandedBindings(un, p.bindings)) <=>
                   x \in Unplaced(ExpandedBindings(un, q.bindings))
    BY <2>1, <2>2
  <2> QED
    BY <2>3
<1>12. Unplaced(NewPolicy(p).bn) = Unplaced(NewPolicy(q).bn)
  <2>1. \A A, B : Unplaced(A \cup B) = Unplaced(A) \cup Unplaced(B)
    BY DEF Unplaced
  <2>2. /\ NewPolicy(p).bn = ExpandedBindings(un, p.bindings) \cup made(p)
        /\ NewPolicy(q).bn = ExpandedBindings(un, q.bindings) \cup made(q)
    BY <1>3 DEF NewPolicy
  <2> HIDE DEF made, un
  <2>3. Unplaced(NewPolicy(p).bn) =
           Unplaced(ExpandedBindings(un, p.bindings)) \cup Unplaced(made(p))
    BY <2>1, <2>2
  <2>4. Unplaced(NewPolicy(q).bn) =
           Unplaced(ExpandedBindings(un, q.bindings)) \cup Unplaced(made(q))
    BY <2>1, <2>2
  <2> QED
    BY <1>10, <1>11, <2>3, <2>4
<1>13. NewPolicy(p).rt = NewPolicy(q).rt /\ NewPolicy(p).ac = NewPolicy(q).ac
  BY <1>1, <1>2, <1>3, <1>6 DEF NewPolicy
<1>14. NewPolicy(p).p.rbac = NewPolicy(q).p.rbac
  BY <1>3 DEF NewPolicy
<1> QED
  BY <1>12, <1>13, <1>14 DEF SamePolicy, WithoutPlaces, Unplaced

LEMMA ElementsSwap ==
    ASSUME NEW S, NEW s \in Seq(S), NEW t \in Seq(S)
    PROVE  Elements(s \o t) = Elements(t \o s)
<1>1. ASSUME NEW T, NEW a \in Seq(T), NEW b \in Seq(T)
      PROVE  Elements(a \o b) = Elements(a) \cup Elements(b)
  <2> DEFINE c == a \o b
  <2>1. /\ \A i \in DOMAIN a : i \in DOMAIN c /\ c[i] = a[i] /\ i <= Len(a)
        /\ \A i \in DOMAIN b : Len(a) + i \in DOMAIN c /\ c[Len(a) + i] = b[i] /\ i > 0
        /\ \A i \in DOMAIN c :
              i \in DOMAIN a \/ (i - Len(a) \in DOMAIN b /\ i = Len(a) + (i - Len(a)))
    BY Concatenation
  <2> HIDE DEF c
  <2>2. Elements(c) \subseteq Elements(a) \cup Elements(b)
    BY <2>1 DEF Elements
  <2>3. Elements(a) \subseteq Elements(c)
    BY <2>1 DEF Elements
  <2>4. Elements(b) \subseteq Elements(c)
    BY <2>1 DEF Elements
  <2> QED
    BY <2>2, <2>3, <2>4 DEF c
<1>2. Elements(s \o t) = Elements(s) \cup Elements(t)
  BY <1>1
<1>3. Elements(t \o s) = Elements(t) \cup Elements(s)
  BY <1>1
<1> QED
  BY <1>2, <1>3

(* The order in which two documents without a name in common are merged    *)
(* does not matter to the policy.                                          *)
LEMMA MergeSwap ==
    ASSUME NEW p, NEW q, IsDocument(p), IsDocument(q), Disjoint(p, q)
    PROVE  SamePolicy(MergeWithPolicyDocument(p, q), MergeWithPolicyDocument(q, p))
<1> DEFINE m == MergeWithPolicyDocument(p, q)
           w == MergeWithPolicyDocument(q, p)
<1>1. ByName(m.types) = ByName(w.types)
  <2>1. Apart(p.types, q.types)
    BY DEF Disjoint, Apart
  <2>2. p.types \in Seq(FileTypes) /\ q.types \in Seq(FileTypes)
    BY DEF IsDocument
  <2> QED
    BY <2>1, <2>2, ByNameSwap DEF MergeWithPolicyDocument
<1>2. ByName(m.unions) = ByName(w.unions)
  <2>1. Apart(p.unions, q.unions)
    BY DEF Disjoint, Apart
  <2>2. p.unions \in Seq(FileUnions) /\ q.unions \in Seq(FileUnions)
    BY DEF IsDocument
  <2> QED
    BY <2>1, <2>2, ByNameSwap DEF MergeWithPolicyDocument
<1>3. Elements(m.bindings) = Elements(w.bindings)
  <2>1. p.bindings \in Seq(FileBindings) /\ q.bindings \in Seq(FileBindings)
    BY DEF IsDocument
  <2> QED
    BY <2>1, ElementsSwap DEF MergeWithPolicyDocument
<1>4. m.actions = w.actions
  BY DEF MergeWithPolicyDocument
<1>5. m.rbac = w.rbac
  BY DEF MergeWithPolicyDocument, Disjoint, IsDocument
<1>6. SameParts(m, w)
  BY <1>1, <1>2, <1>3, <1>4, <1>5 DEF SameParts
<1> HIDE DEF m, w
<1>7. SamePolicy(m, w)
  BY <1>6, SamePartsSamePolicy
<1> QED
  BY <1>7 DEF m, w

(* Whatever the files, and whenever one is added: if the names that it     *)
(* defines are new to the directory, then its place among the files' names *)
(* does not matter to the policy.                                          *)
THEOREM OrderOfFiles == Spec => OrderInconsequential
<1>1. ASSUME [Next]_vars
      PROVE  [\A i \in directory' \ directory :
                 LET before == Document(directory) IN
                 Disjoint(before, Files[i]) =>
                     SamePolicy(MergeWithPolicyDocument(before, Files[i]),
                                MergeWithPolicyDocument(Files[i], before))]_vars
  <2> SUFFICES ASSUME ~UNCHANGED vars, NEW i \in directory' \ directory,
                      Disjoint(Document(directory), Files[i])
               PROVE  SamePolicy(MergeWithPolicyDocument(Document(directory), Files[i]),
                                 MergeWithPolicyDocument(Files[i], Document(directory)))
    OBVIOUS
  <2>1. i \in DOMAIN Files
    BY <1>1, NextPolicy DEF Added
  <2>2. IsDocument(Files[i])
    BY <2>1, FilesAssumption DEF Documents, Elements
  <2>3. IsDocument(Document(directory))
    BY DocumentIsDocument
  <2> QED
    BY <2>2, <2>3, MergeSwap
<1> QED
  BY <1>1, PTL DEF Spec, OrderInconsequential

-----------------------------------------------------------------------------
(* What is where: files, policies and rows.                                *)

(* No files make an empty document.                                        *)
LEMMA DocumentOfNone == Document({}) = EmptyDocument
<1>1. PICK g : Merging({}, Len(Files), g) /\ Document({}) = g[Len(Files)]
  BY DocumentMerged
<1> DEFINE T == {i \in 0..Len(Files) : g[i] # EmptyDocument}
<1>2. Len(Files) \in Nat
  BY FilesAssumption
<1>3. T = {}
  <2>1. SUFFICES ASSUME T # {} PROVE FALSE
    OBVIOUS
  <2>2. T \in SUBSET Nat
    BY <1>2
  <2>3. PICK m \in T : \A k \in T : m <= k
    BY <2>1, <2>2, Smallest
  <2>4. m \in 0..Len(Files)
    OBVIOUS
  <2>5. g[m] = IF m = 0 THEN EmptyDocument ELSE g[m - 1]
    BY <1>1, <2>4 DEF Merging, Merged
  <2>6. CASE m = 0
    BY <2>3, <2>5, <2>6
  <2>7. CASE m # 0
    <3>1. m - 1 \in 0..Len(Files) /\ m - 1 < m
      BY <1>2, <2>4, <2>7
    <3>2. g[m - 1] = EmptyDocument
      BY <2>3, <3>1
    <3> QED
      BY <2>3, <2>5, <2>7, <3>2
  <2> QED
    BY <2>6, <2>7
<1> QED
  BY <1>1, <1>2, <1>3

MadeOf(pol, fs) == pol = NewPolicy(Document(fs))

LEMMA NoPolicyOfNone == MadeOf(NoPolicy, {})
BY DocumentOfNone DEF MadeOf, NoPolicy

Rows ==
    /\ \A r \in roles : r.resource \in Ids /\ r.actions \in ActionChoices
    /\ \A b \in roleBindings : b.resource \in Ids /\ b.subject \in Subjects

(* TypeOK, and the policy is that of the directory                         *)
Typed ==
    /\ directory \subseteq DOMAIN Files /\ engine.on \in BOOLEAN
    /\ MadeOf(policy, directory)
    /\ \E fs \in SUBSET directory : MadeOf(applied, fs)
    /\ \E fs \in SUBSET directory : MadeOf(engine.policy, fs)
    /\ Rows

LEMMA TypedIsTypeOK == Typed => TypeOK
BY DEF Typed, Rows, TypeOK, MadeOf

LEMMA InitTyped == Init => Typed
<1> SUFFICES ASSUME Init PROVE Typed
  OBVIOUS
<1>1. MadeOf(policy, directory) /\ MadeOf(applied, {}) /\ MadeOf(engine.policy, {})
  BY NoPolicyOfNone DEF Init, NoEngine
<1> QED
  BY <1>1 DEF Init, NoEngine, Typed, Rows

LEMMA PairsAreNotWildcard == \A a, b : <<a, b>> # Wildcard
<1>1. \A a, b : Len(<<a, b>>) = 2
  OBVIOUS
<1>2. Len(Wildcard) = 1
  BY DEF Wildcard
<1> QED
  BY <1>1, <1>2

RequestOf(rs, bs) ==
    /\ UNCHANGED <<directory, policy, applied, schema, engine>>
    /\ roles' = roles \cup rs /\ roleBindings' = roleBindings \cup bs
    /\ \A r \in rs : r.resource \in Ids /\ r.actions \in ActionChoices /\ r.id # Wildcard
    /\ \A b \in bs : b.resource \in Ids /\ b.subject \in Subjects
    /\ \A t \in relationships' : t \in relationships \/ Admits(schema, t)

LEMMA WriteAdmits ==
    ASSUME NEW ts, Write(ts)
    PROVE  \A t \in relationships' : t \in relationships \/ Admits(schema, t)
BY DEF Write, NotAdmitted

(* A request adds rows that it was asked for and relationships that the    *)
(* schema admits.                                                          *)
LEMMA NextStep ==
    ASSUME Next
    PROVE  \/ \E i \in DOMAIN Files : AddFile(i)
           \/ WriteSchema
           \/ StartServer
           \/ \E rs, bs : RequestOf(rs, bs)
<1>1. ASSUME NEW e \in Events, CreateRelationships(e) \/ DeleteRelationships(e)
      PROVE  RequestOf({}, {})
  <2>1. \A t \in relationships' : t \in relationships \/ Admits(schema, t)
    BY <1>1, WriteAdmits DEF CreateRelationships, DeleteRelationships
  <2> QED
    BY <1>1, <2>1 DEF CreateRelationships, DeleteRelationships, RequestOf
<1>2. ASSUME NEW x \in Ids, NEW n \in RoleNumbers, NEW as \in ActionChoices,
             CreateRoleV2(x, n, as)
      PROVE  \E rs, bs : RequestOf(rs, bs)
  <2> DEFINE row == [id |-> <<engine.rbac.role.prefix, n>>, resource |-> x, actions |-> as]
  <2>1. /\ roles' = roles \cup {row}
        /\ UNCHANGED <<directory, policy, applied, schema, engine, roleBindings>>
        /\ \E ts : Write(ts)
    BY <1>2, Zenon DEF CreateRoleV2
  <2>2. row.resource \in Ids /\ row.actions \in ActionChoices /\ row.id # Wildcard
    BY PairsAreNotWildcard
  <2> HIDE DEF row
  <2>3. RequestOf({row}, {})
    BY <2>1, <2>2, WriteAdmits DEF RequestOf
  <2> QED
    BY <2>3
<1>3. ASSUME NEW x \in Ids, NEW s \in Subjects, NEW n \in RoleBindingNumbers, NEW r \in roles,
             CreateRoleBinding(x, n, r.id, s)
      PROVE  \E rs, bs : RequestOf(rs, bs)
  <2> DEFINE row == [id |-> RoleBindingID(n).id, resource |-> x, role |-> r.id, subject |-> s]
  <2>1. /\ roleBindings' = roleBindings \cup {row}
        /\ UNCHANGED <<directory, policy, applied, schema, engine, roles>>
        /\ \E ts : Write(ts)
    BY <1>3, Zenon DEF CreateRoleBinding
  <2>2. row.resource \in Ids /\ row.subject \in Subjects
    OBVIOUS
  <2> HIDE DEF row
  <2>3. RequestOf({}, {row})
    BY <2>1, <2>2, WriteAdmits DEF RequestOf
  <2> QED
    BY <2>3
<1>4. ASSUME NEW x \in Ids, NEW n \in RoleV1Numbers, NEW as \in ActionChoices, CreateRole(x, n, as)
      PROVE  \E rs, bs : RequestOf(rs, bs)
  <2> DEFINE row == [id |-> <<RolePrefix, n>>, resource |-> x, actions |-> as]
  <2>1. /\ roles' = roles \cup {row}
        /\ UNCHANGED <<directory, policy, applied, schema, engine, roleBindings>>
        /\ \E ts : Write(ts)
    BY <1>4, Zenon DEF CreateRole
  <2>2. row.resource \in Ids /\ row.actions \in ActionChoices /\ row.id # Wildcard
    BY PairsAreNotWildcard
  <2> HIDE DEF row
  <2>3. RequestOf({row}, {})
    BY <2>1, <2>2, WriteAdmits DEF RequestOf
  <2> QED
    BY <2>3
<1>5. ASSUME NEW r \in roles, NEW s \in Subjects, AssignSubjectRole(r.id, s)
      PROVE  RequestOf({}, {})
  <2>1. \A t \in relationships' : t \in relationships \/ Admits(schema, t)
    BY <1>5, WriteAdmits DEF AssignSubjectRole
  <2> QED
    BY <1>5, <2>1 DEF AssignSubjectRole, RequestOf
<1> QED
  BY <1>1, <1>2, <1>3, <1>4, <1>5 DEF Next

LEMMA NextTyped == Typed /\ [Next]_vars => Typed'
<1> SUFFICES ASSUME Typed, [Next]_vars PROVE Typed'
  OBVIOUS
<1>1. ASSUME NEW i \in DOMAIN Files, AddFile(i) PROVE Typed'
  <2>1. /\ directory' = directory \cup {i} /\ MadeOf(policy', directory')
        /\ UNCHANGED <<applied, engine, roles, roleBindings>>
    BY <1>1 DEF AddFile, MadeOf
  <2> QED
    BY <2>1 DEF Typed, Rows
<1>2. ASSUME WriteSchema PROVE Typed'
  <2>1. /\ applied' = policy
        /\ UNCHANGED <<directory, policy, engine, roles, roleBindings>>
    BY <1>2 DEF WriteSchema, LoadedPolicy
  <2> QED
    BY <2>1 DEF Typed, Rows
<1>3. ASSUME StartServer PROVE Typed'
  <2>1. /\ engine'.on = TRUE /\ engine'.policy = policy
        /\ UNCHANGED <<directory, policy, applied, roles, roleBindings>>
    BY <1>3 DEF StartServer, LoadedPolicy
  <2> QED
    BY <2>1 DEF Typed, Rows
<1>4. ASSUME NEW rs, NEW bs, RequestOf(rs, bs) PROVE Typed'
  BY <1>4 DEF RequestOf, Typed, Rows
<1>5. CASE UNCHANGED vars
  BY <1>5 DEF vars, Typed, Rows
<1> QED
  BY <1>1, <1>2, <1>3, <1>4, <1>5, NextStep

(* The policies that SpiceDB's schema and the server are made of are those *)
(* of files that were put into the directory; rows hold what requests      *)
(* named.                                                                  *)
THEOREM TypeCorrect == Spec => []TypeOK
<1> QED
  BY TypedIsTypeOK, InitTyped, NextTyped, PTL DEF Spec

-----------------------------------------------------------------------------
(* Who holds a permission: the last steps of what SpiceDB reaches.         *)

Related(sch, tuples, Subs, known) ==
    UNION {{<<o, r, s>> : s \in {x \in Subs : InRelation(known, tuples, o, r, x)}} :
              o \in {o \in {t.obj : t \in tuples} : o.type \in DOMAIN sch},
              r \in {t.rel : t \in tuples}}

Permitted(sch, tuples, Subs, known) ==
    UNION {UNION {{<<o, a.name, s>> : s \in {x \in Subs : Permits(known, tuples, o, a, x)}} :
                     a \in sch[o.type].actions} :
              o \in {o \in {t.obj : t \in tuples} : o.type \in DOMAIN sch}}

Reaching(sch, tuples, Subs, n, g) ==
    g = [i \in 0..n |-> IF i = 0 THEN {} ELSE Related(sch, tuples, Subs, g[i - 1])
                                              \cup Permitted(sch, tuples, Subs, g[i - 1])]

LEMMA ReachingOneMore ==
    ASSUME NEW sch, NEW tuples, NEW Subs, NEW m \in Nat \ {0}, NEW h,
           Reaching(sch, tuples, Subs, m - 1, h)
    PROVE  \E g : Reaching(sch, tuples, Subs, m, g)
<1> DEFINE next(known) == Related(sch, tuples, Subs, known) \cup Permitted(sch, tuples, Subs, known)
           g == [i \in 0..m |-> IF i = m THEN next(h[m - 1]) ELSE h[i]]
<1>0. /\ h = [i \in 0..(m - 1) |-> IF i = 0 THEN {} ELSE next(h[i - 1])]
      /\ \A f : Reaching(sch, tuples, Subs, m, f) <=>
                f = [i \in 0..m |-> IF i = 0 THEN {} ELSE next(f[i - 1])]
  BY Zenon DEF Reaching
<1> HIDE DEF next
<1>1. ASSUME NEW i \in 0..m
      PROVE  g[i] = IF i = 0 THEN {} ELSE next(g[i - 1])
  <2>1. CASE i = m
    BY <2>1
  <2>2. CASE i # m
    <3>1. i \in 0..(m - 1)
      BY <2>2
    <3>2. h[i] = IF i = 0 THEN {} ELSE next(h[i - 1])
      BY <1>0, <3>1
    <3>3. i # 0 => i - 1 \in 0..m /\ i - 1 # m
      BY <3>1
    <3> QED
      BY <2>2, <3>2, <3>3
  <2> QED
    BY <2>1, <2>2
<1>2. g = [i \in 0..m |-> g[i]]
  OBVIOUS
<1> HIDE DEF g
<1>3. g = [i \in 0..m |-> IF i = 0 THEN {} ELSE next(g[i - 1])]
  BY <1>1, <1>2
<1> QED
  BY <1>0, <1>3

(* Holds is what its definition says.                                      *)
LEMMA HoldsReached ==
    ASSUME NEW sch, NEW tuples, NEW Subs
    PROVE  \E g : Reaching(sch, tuples, Subs, Depth, g) /\ Holds(sch, tuples, Subs) = g[Depth]
<1> DEFINE T == {n \in Nat : ~ \E g : Reaching(sch, tuples, Subs, n, g)}
<1>1. T = {}
  <2>1. SUFFICES ASSUME T # {} PROVE FALSE
    OBVIOUS
  <2>2. PICK m \in T : \A k \in T : m <= k
    BY <2>1, Smallest
  <2>3. CASE m = 0
    <3> DEFINE g == [i \in 0..0 |-> {}]
    <3>1. Reaching(sch, tuples, Subs, 0, g)
      BY DEF Reaching
    <3> QED
      BY <2>2, <2>3, <3>1
  <2>4. CASE m # 0
    <3>1. m - 1 \in Nat /\ m - 1 < m
      BY <2>4
    <3>2. PICK h : Reaching(sch, tuples, Subs, m - 1, h)
      BY <2>2, <3>1
    <3> QED
      BY <2>4, <3>2, ReachingOneMore
  <2> QED
    BY <2>3, <2>4
<1>2. Holds(sch, tuples, Subs) = (CHOOSE g : Reaching(sch, tuples, Subs, Depth, g))[Depth]
  BY DEF Holds, Reaching, Related, Permitted
<1>3. Depth \in Nat
  BY DepthAssumption
<1> QED
  BY <1>1, <1>2, <1>3

(* A step: by a relationship of the object, or by an action of its type.   *)
StepTo(sch, tuples, Subs, known, o, r, s) ==
    /\ s \in Subs /\ o.type \in DOMAIN sch
    /\ \/ InRelation(known, tuples, o, r, s)
       \/ \E a \in sch[o.type].actions : a.name = r /\ Permits(known, tuples, o, a, s)

LEMMA StepsReach ==
    ASSUME NEW sch, NEW tuples, NEW Subs, NEW known, NEW o, NEW r, NEW s,
           <<o, r, s>> \in Related(sch, tuples, Subs, known)
                           \cup Permitted(sch, tuples, Subs, known)
    PROVE  StepTo(sch, tuples, Subs, known, o, r, s)
<1>1. ASSUME <<o, r, s>> \in Related(sch, tuples, Subs, known)
      PROVE  s \in Subs /\ o.type \in DOMAIN sch /\ InRelation(known, tuples, o, r, s)
  <2> DEFINE by(y, q) == {<<y, q, x>> : x \in {x \in Subs : InRelation(known, tuples, y, q, x)}}
             Objs == {y \in {t.obj : t \in tuples} : y.type \in DOMAIN sch}
  <2>0. Related(sch, tuples, Subs, known) =
           UNION {by(y, q) : y \in Objs, q \in {t.rel : t \in tuples}}
    BY DEF Related
  <2>1. PICK o1 \in Objs : \E r1 \in {t.rel : t \in tuples} : <<o, r, s>> \in by(o1, r1)
    <3> HIDE DEF by, Objs
    <3> QED
      BY <1>1, <2>0
  <2>5. PICK r1 : <<o, r, s>> \in by(o1, r1)
    BY <2>1
  <2>2. PICK x \in Subs : InRelation(known, tuples, o1, r1, x) /\ <<o, r, s>> = <<o1, r1, x>>
    BY <2>5, Zenon
  <2>3. o = o1 /\ r = r1 /\ s = x
    BY <2>2
  <2> QED
    BY <2>1, <2>2, <2>3, Zenon
<1>2. ASSUME <<o, r, s>> \in Permitted(sch, tuples, Subs, known)
      PROVE  /\ s \in Subs /\ o.type \in DOMAIN sch
             /\ \E a \in sch[o.type].actions : a.name = r /\ Permits(known, tuples, o, a, s)
  <2> DEFINE by(y, a) == {<<y, a.name, x>> : x \in {x \in Subs : Permits(known, tuples, y, a, x)}}
             Objs == {y \in {t.obj : t \in tuples} : y.type \in DOMAIN sch}
  <2>0. Permitted(sch, tuples, Subs, known) =
           UNION {UNION {by(y, a) : a \in sch[y.type].actions} : y \in Objs}
    BY DEF Permitted
  <2>1. PICK o1 \in Objs : \E a \in sch[o1.type].actions : <<o, r, s>> \in by(o1, a)
    <3> HIDE DEF by, Objs
    <3> QED
      BY <1>2, <2>0
  <2>2. PICK a \in sch[o1.type].actions : <<o, r, s>> \in by(o1, a)
    BY <2>1
  <2>3. PICK x \in Subs : Permits(known, tuples, o1, a, x) /\ <<o, r, s>> = <<o1, a.name, x>>
    BY <2>2, Zenon
  <2>4. o = o1 /\ r = a.name /\ s = x
    BY <2>3
  <2> QED
    BY <2>1, <2>2, <2>3, <2>4, Zenon
<1> QED
  BY <1>1, <1>2 DEF StepTo

LEMMA StepsAreTriples ==
    ASSUME NEW sch, NEW tuples, NEW Subs, NEW known,
           NEW h \in Related(sch, tuples, Subs, known) \cup Permitted(sch, tuples, Subs, known)
    PROVE  \E o, r, s : h = <<o, r, s>>
<1>1. ASSUME h \in Related(sch, tuples, Subs, known)
      PROVE  \E o, r, s : h = <<o, r, s>>
  <2> DEFINE by(y, q) == {<<y, q, x>> : x \in {x \in Subs : InRelation(known, tuples, y, q, x)}}
             Objs == {y \in {t.obj : t \in tuples} : y.type \in DOMAIN sch}
  <2>1. Related(sch, tuples, Subs, known) =
           UNION {by(y, q) : y \in Objs, q \in {t.rel : t \in tuples}}
    BY DEF Related
  <2>2. \A y, q : \A e \in by(y, q) : \E o, r, s : e = <<o, r, s>>
    BY Zenon
  <2> HIDE DEF by, Objs
  <2> QED
    BY <1>1, <2>1, <2>2
<1>2. ASSUME h \in Permitted(sch, tuples, Subs, known)
      PROVE  \E o, r, s : h = <<o, r, s>>
  <2> DEFINE by(y, a) == {<<y, a.name, x>> : x \in {x \in Subs : Permits(known, tuples, y, a, x)}}
             Objs == {y \in {t.obj : t \in tuples} : y.type \in DOMAIN sch}
  <2>1. Permitted(sch, tuples, Subs, known) =
           UNION {UNION {by(y, a) : a \in sch[y.type].actions} : y \in Objs}
    BY DEF Permitted
  <2>2. \A y, a : \A e \in by(y, a) : \E o, r, s : e = <<o, r, s>>
    BY Zenon
  <2> HIDE DEF by, Objs
  <2> QED
    BY <1>2, <2>1, <2>2
<1> QED
  BY <1>1, <1>2

(* The last two steps to what is held.                                     *)
LEMMA HoldsSteps ==
    ASSUME NEW sch, NEW tuples, NEW Subs, NEW o, NEW r, NEW s,
           <<o, r, s>> \in Holds(sch, tuples, Subs)
    PROVE  \E known : /\ StepTo(sch, tuples, Subs, known, o, r, s)
                      /\ \A o1, r1, s1 : <<o1, r1, s1>> \in known =>
                            \E k : StepTo(sch, tuples, Subs, k, o1, r1, s1)
<1>1. PICK g : Reaching(sch, tuples, Subs, Depth, g) /\ Holds(sch, tuples, Subs) = g[Depth]
  BY HoldsReached
<1>2. Depth \in Nat
  BY DepthAssumption
<1>3. ASSUME NEW i \in 0..Depth, NEW o1, NEW r1, NEW s1, <<o1, r1, s1>> \in g[i]
      PROVE  i # 0 /\ i - 1 \in 0..Depth /\ StepTo(sch, tuples, Subs, g[i - 1], o1, r1, s1)
  <2>1. g[i] = IF i = 0 THEN {} ELSE Related(sch, tuples, Subs, g[i - 1])
                                     \cup Permitted(sch, tuples, Subs, g[i - 1])
    BY <1>1 DEF Reaching
  <2>2. i # 0
    BY <1>3, <2>1
  <2>3. <<o1, r1, s1>> \in Related(sch, tuples, Subs, g[i - 1])
                           \cup Permitted(sch, tuples, Subs, g[i - 1])
    BY <1>3, <2>1, <2>2
  <2> QED
    BY <1>2, <2>2, <2>3, StepsReach
<1>4. Depth \in 0..Depth
  BY <1>2
<1>5. Depth - 1 \in 0..Depth /\ StepTo(sch, tuples, Subs, g[Depth - 1], o, r, s)
  BY <1>1, <1>3, <1>4
<1>6. \A o1, r1, s1 : <<o1, r1, s1>> \in g[Depth - 1] =>
         \E k : StepTo(sch, tuples, Subs, k, o1, r1, s1)
  BY <1>3, <1>5
<1> QED
  BY <1>5, <1>6

(* What is reached in a step is reached in any number of steps more.       *)
LEMMA StepsGrow ==
    ASSUME NEW sch, NEW tuples, NEW Subs, NEW known, NEW more, known \subseteq more
    PROVE  /\ Related(sch, tuples, Subs, known) \subseteq Related(sch, tuples, Subs, more)
           /\ Permitted(sch, tuples, Subs, known) \subseteq Permitted(sch, tuples, Subs, more)
<1>1. \A o, r, s : InRelation(known, tuples, o, r, s) => InRelation(more, tuples, o, r, s)
  BY DEF InRelation
<1>2. \A o, w, s : AlongArrow(known, tuples, o, w, s) => AlongArrow(more, tuples, o, w, s)
  BY DEF AlongArrow
<1>3. \A o, a, s : Permits(known, tuples, o, a, s) => Permits(more, tuples, o, a, s)
  BY <1>2 DEF Permits
<1>4. Related(sch, tuples, Subs, known) \subseteq Related(sch, tuples, Subs, more)
  <2> DEFINE by(k, y, q) == {<<y, q, x>> : x \in {x \in Subs : InRelation(k, tuples, y, q, x)}}
             Objs        == {y \in {t.obj : t \in tuples} : y.type \in DOMAIN sch}
  <2>1. \A k : Related(sch, tuples, Subs, k) =
                  UNION {by(k, y, q) : y \in Objs, q \in {t.rel : t \in tuples}}
    BY DEF Related
  <2>2. \A y, q : by(known, y, q) \subseteq by(more, y, q)
    BY <1>1
  <2> HIDE DEF by, Objs
  <2> QED
    BY <2>1, <2>2
<1>5. Permitted(sch, tuples, Subs, known) \subseteq Permitted(sch, tuples, Subs, more)
  <2> DEFINE by(k, y, a) == {<<y, a.name, x>> : x \in {x \in Subs : Permits(k, tuples, y, a, x)}}
             of(k, y)    == UNION {by(k, y, a) : a \in sch[y.type].actions}
             Objs        == {y \in {t.obj : t \in tuples} : y.type \in DOMAIN sch}
  <2>1. \A k : Permitted(sch, tuples, Subs, k) = UNION {of(k, y) : y \in Objs}
    BY DEF Permitted
  <2>2. \A y, a : by(known, y, a) \subseteq by(more, y, a)
    BY <1>3
  <2> HIDE DEF by
  <2>3. \A y : of(known, y) \subseteq of(more, y)
    BY <2>2
  <2> HIDE DEF of, Objs
  <2> QED
    BY <2>1, <2>3
<1> QED
  BY <1>4, <1>5

LEMMA ReachingStep ==
    ASSUME NEW sch, NEW tuples, NEW Subs, NEW g, Reaching(sch, tuples, Subs, Depth, g),
           NEW i \in Nat, i + 1 \in 0..Depth
    PROVE  g[i] \subseteq g[i + 1]
<1> DEFINE next(known) == Related(sch, tuples, Subs, known) \cup Permitted(sch, tuples, Subs, known)
           Stays == {k \in Nat : k + 1 \in 0..Depth /\ ~(g[k] \subseteq g[k + 1])}
<1>1. Depth \in Nat
  BY DepthAssumption
<1>2. \A k \in 0..Depth : g[k] = IF k = 0 THEN {} ELSE next(g[k - 1])
  BY DEF Reaching
<1>3. \A known, more : known \subseteq more => next(known) \subseteq next(more)
  BY StepsGrow
<1> HIDE DEF next
<1>4. Stays = {}
  <2>1. SUFFICES ASSUME Stays # {} PROVE FALSE
    OBVIOUS
  <2>2. PICK m \in Stays : \A k \in Stays : m <= k
    BY <2>1, Smallest
  <2>3. m \in Nat /\ m + 1 \in 0..Depth /\ m \in 0..Depth
    BY <1>1
  <2>4. g[m + 1] = next(g[m])
    BY <1>2, <2>3
  <2>5. m # 0
    BY <1>2, <2>2, <2>3
  <2>6. m - 1 \in Nat /\ m - 1 \in 0..Depth /\ m - 1 < m /\ (m - 1) + 1 = m
    BY <1>1, <2>3, <2>5
  <2>9. m - 1 \notin Stays
    BY <2>2, <2>3, <2>6
  <2>7. g[m - 1] \subseteq g[m]
    BY <2>3, <2>6, <2>9
  <2>8. g[m] = next(g[m - 1])
    BY <1>2, <2>3, <2>5
  <2> QED
    BY <1>3, <2>2, <2>4, <2>7, <2>8
<1> QED
  BY <1>4

LEMMA ReachingGrows ==
    ASSUME NEW sch, NEW tuples, NEW Subs, NEW g, Reaching(sch, tuples, Subs, Depth, g),
           NEW i \in 0..Depth
    PROVE  g[i] \subseteq g[Depth]
<1> DEFINE Last == {k \in Nat : k <= Depth /\ ~(g[Depth - k] \subseteq g[Depth])}
<1>1. Depth \in Nat
  BY DepthAssumption
<1>2. Last = {}
  <2>1. SUFFICES ASSUME Last # {} PROVE FALSE
    OBVIOUS
  <2>2. PICK m \in Last : \A k \in Last : m <= k
    BY <2>1, Smallest
  <2>3. m \in Nat /\ m <= Depth /\ m # 0
    BY <1>1, <2>2
  <2>4. m - 1 \in Nat /\ m - 1 <= Depth /\ m - 1 \notin Last
    BY <1>1, <2>2, <2>3
  <2>5. g[Depth - (m - 1)] \subseteq g[Depth]
    BY <2>4
  <2>6. /\ Depth - m \in Nat /\ (Depth - m) + 1 \in 0..Depth
        /\ (Depth - m) + 1 = Depth - (m - 1)
    BY <1>1, <2>3
  <2>7. g[Depth - m] \subseteq g[Depth - (m - 1)]
    BY <2>6, ReachingStep
  <2> QED
    BY <2>2, <2>5, <2>7
<1>3. Depth - i \in Nat /\ Depth - i <= Depth /\ Depth - (Depth - i) = i
  BY <1>1
<1> QED
  BY <1>2, <1>3

(* What is so of a step from what it is so of is so of all that is held.   *)
LEMMA HoldsInduction ==
    ASSUME NEW sch, NEW tuples, NEW Subs, NEW G,
           \A known, o, r, s :
              /\ known \subseteq Holds(sch, tuples, Subs) /\ known \subseteq G
              /\ <<o, r, s>> \in Holds(sch, tuples, Subs)
              /\ StepTo(sch, tuples, Subs, known, o, r, s)
              => <<o, r, s>> \in G
    PROVE  Holds(sch, tuples, Subs) \subseteq G
<1>1. PICK g : Reaching(sch, tuples, Subs, Depth, g) /\ Holds(sch, tuples, Subs) = g[Depth]
  BY HoldsReached
<1> DEFINE T == {k \in Nat : k <= Depth /\ ~(g[k] \subseteq G)}
<1>2. Depth \in Nat
  BY DepthAssumption
<1>3. T = {}
  <2>1. SUFFICES ASSUME T # {} PROVE FALSE
    OBVIOUS
  <2>2. PICK m \in T : \A k \in T : m <= k
    BY <2>1, Smallest
  <2>3. m \in 0..Depth
    BY <1>2
  <2>4. g[m] = IF m = 0 THEN {} ELSE Related(sch, tuples, Subs, g[m - 1])
                                     \cup Permitted(sch, tuples, Subs, g[m - 1])
    BY <1>1, <2>3 DEF Reaching
  <2>5. m # 0
    BY <2>2, <2>4
  <2>6. m - 1 \in 0..Depth /\ m - 1 \in Nat /\ m - 1 <= Depth /\ m - 1 \notin T
    BY <1>2, <2>2, <2>3, <2>5
  <2>7. g[m - 1] \subseteq G /\ g[m - 1] \subseteq g[Depth] /\ g[m] \subseteq g[Depth]
    BY <1>1, <2>3, <2>6, ReachingGrows
  <2>8. ASSUME NEW h \in g[m]
        PROVE  h \in G
    <3>1. h \in Related(sch, tuples, Subs, g[m - 1]) \cup Permitted(sch, tuples, Subs, g[m - 1])
      BY <2>4, <2>5
    <3>2. PICK o, r, s : h = <<o, r, s>>
      BY <3>1, StepsAreTriples
    <3>3. StepTo(sch, tuples, Subs, g[m - 1], o, r, s)
      BY <3>1, <3>2, StepsReach
    <3> QED
      BY <1>1, <2>7, <3>2, <3>3
  <2> QED
    BY <2>2, <2>8
<1>4. Depth \notin T
  BY <1>3
<1> QED
  BY <1>1, <1>2, <1>4

(* Who is held has a relationship, or one of its type's wildcard.          *)
LEMMA HoldsSource ==
    ASSUME NEW sch, NEW tuples, NEW Subs, NEW o, NEW r, NEW s,
           <<o, r, s>> \in Holds(sch, tuples, Subs)
    PROVE  \E t \in tuples : t.subrel = <<>> /\ t.sub \in {s, All(s.type)}
<1> DEFINE H == Holds(sch, tuples, Subs)
           Sourced(q) == \E t \in tuples : t.subrel = <<>> /\ t.sub \in {q, All(q.type)}
           G == {h \in H : Sourced(h[3])}
<1>1. ASSUME NEW known, NEW o1, NEW r1, NEW s1, known \subseteq H, known \subseteq G,
             <<o1, r1, s1>> \in H, StepTo(sch, tuples, Subs, known, o1, r1, s1)
      PROVE  <<o1, r1, s1>> \in G
  <2>1. \A y, q : <<y, q, s1>> \in known => Sourced(s1)
    <3>1. \A y, q : <<y, q, s1>>[3] = s1
      OBVIOUS
    <3> HIDE DEF Sourced, H
    <3> QED
      BY <1>1, <3>1
  <2>2. InRelation(known, tuples, o1, r1, s1) => Sourced(s1)
    BY <2>1 DEF InRelation
  <2>3. \A w : AlongArrow(known, tuples, o1, w, s1) => Sourced(s1)
    <3> HIDE DEF Sourced
    <3> QED
      BY <2>1 DEF AlongArrow
  <2>4. \A a : Permits(known, tuples, o1, a, s1) => Sourced(s1)
    <3> HIDE DEF Sourced
    <3> QED
      BY <2>3 DEF Permits
  <2>5. Sourced(s1)
    <3> HIDE DEF Sourced
    <3> QED
      BY <1>1, <2>2, <2>4 DEF StepTo
  <2>6. <<o1, r1, s1>>[3] = s1
    OBVIOUS
  <2> HIDE DEF Sourced, H
  <2> QED
    BY <1>1, <2>5, <2>6
<1>2. H \subseteq G
  <2> HIDE DEF G
  <2> QED
    BY <1>1, HoldsInduction
<1>3. <<o, r, s>>[3] = s
  OBVIOUS
<1> HIDE DEF Sourced, H
<1>4. Sourced(s)
  <2>1. <<o, r, s>> \in G
    BY <1>2 DEF H
  <2> QED
    BY <1>3, <2>1
<1> QED
  BY <1>4 DEF Sourced

-----------------------------------------------------------------------------
(* Role bindings under the policy of SpiceDB's schema.                     *)

LEMMA NotAUnion ==
    ASSUME NEW p, Accepted(p), NEW t,
           t.name \in DOMAIN NewPolicy(p).rt \/ t.name \notin DOMAIN ByName(p.unions)
    PROVE  Members(ByName(p.unions), t) = {t}
<1>1. ASSUME t.name \in DOMAIN ByName(p.unions)
      PROVE  t.name \notin DOMAIN NewPolicy(p).rt
  <2>1. PICK i \in DOMAIN p.unions : t.name = p.unions[i].name
    BY <1>1, NameOf
  <2>2. ValidUnions(NewPolicy(p)) /\ NewPolicy(p).p = p
    BY AcceptedParts, PolicyTypes
  <2> QED
    BY <2>1, <2>2 DEF ValidUnions
<1>2. t.name \notin DOMAIN ByName(p.unions)
  BY <1>1
<1> QED
  BY <1>2 DEF Members, MemberList, Elements

(* The relations of the type of role bindings.                             *)
LEMMA RoleBindingRelations ==
    ASSUME NEW p, Accepted(p), p.rbac.on, NEW n, n = p.rbac.roleBinding.name
    PROVE  /\ n \in DOMAIN NewPolicy(p).rt /\ p.rbac.role.name \in DOMAIN NewPolicy(p).rt
           /\ \E r \in NewPolicy(p).rt[n].rels : /\ r.relation = RolebindingRoleRelation
                                                 /\ r.targets = {Target(p.rbac.role.name)}
           /\ \E r \in NewPolicy(p).rt[n].rels :
                 /\ r.relation = RolebindingSubjectRelation
                 /\ \A i \in DOMAIN p.rbac.subjects :
                       p.rbac.subjects[i].name \notin DOMAIN ByName(p.unions) =>
                          p.rbac.subjects[i] \in r.targets
<1> DEFINE roleRel    == At(0, Relationship(RolebindingRoleRelation, <<Target(p.rbac.role.name)>>))
           subjectRel == At(0, Relationship(RolebindingSubjectRelation, p.rbac.subjects))
           un         == ByName(p.unions)
<1>1. /\ n \in DOMAIN BaseTypes(p) /\ p.rbac.role.name \in DOMAIN BaseTypes(p)
      /\ createRoleBindingResourceType(p).rels \subseteq BaseTypes(p)[n].rels
  BY RoleBindingTypeOf
<1>2. /\ DOMAIN NewPolicy(p).rt = DOMAIN BaseTypes(p)
      /\ NewPolicy(p).rt[n].rels = ExpandedRelations(p, n)
  BY <1>1, AcceptedParts, PolicyTypes
<1>3. roleRel \in createRoleBindingResourceType(p).rels
  BY DEF createRoleBindingResourceType, Generated
<1>4. subjectRel \in createRoleBindingResourceType(p).rels
  BY DEF createRoleBindingResourceType, Generated
<1>5. /\ roleRel.relation = RolebindingRoleRelation
      /\ Elements(roleRel.targets) = {Target(p.rbac.role.name)}
  BY DEF At, Relationship, Elements
<1>6. subjectRel.relation = RolebindingSubjectRelation /\ subjectRel.targets = p.rbac.subjects
  BY DEF At, Relationship
<1> HIDE DEF roleRel, subjectRel
<1>7. \A r : /\ Expanded(un, r).relation = r.relation
             /\ \A t : t \in Expanded(un, r).targets <=>
                          \E u \in Elements(r.targets) : t \in Members(un, u)
  BY DEF Expanded
<1>8. Expanded(un, roleRel) \in NewPolicy(p).rt[n].rels
  BY <1>1, <1>2, <1>3 DEF ExpandedRelations
<1>9. Expanded(un, subjectRel) \in NewPolicy(p).rt[n].rels
  BY <1>1, <1>2, <1>4 DEF ExpandedRelations
<1>10. Members(un, Target(p.rbac.role.name)) = {Target(p.rbac.role.name)}
  <2>1. Target(p.rbac.role.name).name = p.rbac.role.name
    BY DEF Target
  <2> QED
    BY <1>1, <1>2, <2>1, NotAUnion
<1>11. Expanded(un, roleRel).targets = {Target(p.rbac.role.name)}
  BY <1>5, <1>7, <1>10
<1>12. ASSUME NEW i \in DOMAIN p.rbac.subjects, p.rbac.subjects[i].name \notin DOMAIN un
       PROVE  p.rbac.subjects[i] \in Expanded(un, subjectRel).targets
  <2>1. Members(un, p.rbac.subjects[i]) = {p.rbac.subjects[i]}
    BY <1>12, NotAUnion
  <2>2. p.rbac.subjects[i] \in Elements(subjectRel.targets)
    BY <1>6 DEF Elements
  <2> QED
    BY <1>7, <2>1, <2>2
<1> QED
  BY <1>1, <1>2, <1>5, <1>6, <1>7, <1>8, <1>9, <1>11, <1>12

(* A role's relation of an action has wildcards for subjects, of the types *)
(* of subjects.                                                            *)
LEMMA RoleActionTargets ==
    ASSUME NEW p, Accepted(p), p.rbac.on,
           Elements(p.rbac.subjectTypes) \cap DOMAIN ByName(p.unions) = {},
           NEW a \in ActionNames(p),
           NEW r \in SchemaRelations(NewPolicy(p), p.rbac.role.name),
           r.relation = ActionRelation(a),
           NEW t \in r.targets
    PROVE  \E s \in Elements(p.rbac.subjectTypes) : t = Everyone(s)
<1> DEFINE n == p.rbac.role.name
<1>1. ActionRelation(a) \notin DeclaredRelations(p) \cup ReservedRelations
  BY AcceptedParts, ActionNamesAreNames, ActionRelations, ActionsDiffer
<1>2. r \in NewPolicy(p).rt[n].rels
  <2>1. SUFFICES ASSUME NEW b \in NewPolicy(p).bn, b.type = n, BoundV1(b)
                 PROVE  FALSE
    BY SchemaRelationsOf, BoundRelationIs
  <2>2. PICK c \in b.conds : "RoleBinding" \in c.clauses
    BY <2>1 DEF BoundV1
  <2>3. CarefulCondition(NewPolicy(p), n, c)
    BY <2>1, <2>2, RoleClauses, DocumentBindings DEF CarefulBinding
  <2>4. NewPolicy(p).p = p
    BY AcceptedParts, PolicyTypes
  <2> QED
    BY <2>2, <2>3, <2>4 DEF CarefulCondition
<1>3. n \in DOMAIN BaseTypes(p)
  BY RoleBindingTypeOf
<1>4. NewPolicy(p).rt[n].rels = ExpandedRelations(p, n)
  BY <1>3, AcceptedParts, PolicyTypes
<1>5. PICK q \in BaseTypes(p)[n].rels : r = Expanded(ByName(p.unions), q)
  BY <1>2, <1>4 DEF ExpandedRelations
<1>6. /\ q.relation = ActionRelation(a)
      /\ \E u \in Elements(q.targets) : t \in Members(ByName(p.unions), u)
  BY <1>5 DEF Expanded
<1>7. \A u \in Elements(q.targets) : \E s \in Elements(p.rbac.subjectTypes) : u = Everyone(s)
  <2>1. PICK y, more :
           /\ IsDeclared(p, y) \/ IsRoleType(p, n, y) \/ IsRoleBindingType(p, n, y)
           /\ BaseTypes(p)[n] = [prefix |-> y.prefix, v2 |-> y.v2, rels |-> y.rels \cup more]
           /\ more = {} \/ (more = {MemberRole(p)} /\ p.rbac.on)
    BY <1>3, AcceptedParts, BaseCases
  <2>2. q \in y.rels \/ q = MemberRole(p)
    BY <2>1
  <2>3. CASE q = MemberRole(p)
    BY <1>1, <1>6, <2>3 DEF MemberRole, At, Relationship, ReservedRelations
  <2>4. CASE q \in y.rels /\ IsDeclared(p, y)
    <3>1. PICK i \in DOMAIN p.types : y = Declared(p.types[i])
      BY <2>4 DEF IsDeclared
    <3>2. PICK j \in DOMAIN p.types[i].rels : q = At(j, p.types[i].rels[j])
      BY <2>4, <3>1 DEF Declared
    <3>3. q.relation = p.types[i].rels[j].relation
      BY <3>2 DEF At
    <3>4. p.types[i].rels[j].relation \in DeclaredRelations(p)
      BY DeclaredRelationFound
    <3> QED
      BY <1>1, <1>6, <3>3, <3>4
  <2>5. CASE q \in y.rels /\ IsRoleType(p, n, y)
    <3>1. q = RoleOwner(p) \/ \E b \in ActionNames(p) : q = RoleAction(p, b)
      BY <2>5, RoleTypeRelations
    <3>2. RoleOwner(p).relation = RoleOwnerRelation
      BY DEF RoleOwner, At, Relationship
    <3>3. PICK b \in ActionNames(p) : q = RoleAction(p, b)
      BY <1>1, <1>6, <3>1, <3>2 DEF ReservedRelations
    <3>4. q.targets = Everyones(p)
      BY <3>3 DEF RoleAction, At, Relationship
    <3> QED
      BY <3>4, EveryonesAre
  <2>6. CASE q \in y.rels /\ IsRoleBindingType(p, n, y)
    BY <1>1, <1>6, <2>6 DEF IsRoleBindingType, createRoleBindingResourceType, Generated, At,
                            Relationship, ReservedRelations
  <2> QED
    BY <2>1, <2>2, <2>3, <2>4, <2>5, <2>6
<1>8. PICK u \in Elements(q.targets) : t \in Members(ByName(p.unions), u)
  BY <1>6
<1>9. PICK s \in Elements(p.rbac.subjectTypes) : u = Everyone(s)
  BY <1>7
<1>10. u.name = s
  BY <1>9 DEF Everyone
<1>11. Members(ByName(p.unions), u) = {u}
  BY <1>10, NotAUnion
<1> QED
  BY <1>8, <1>9, <1>11

(* What a role binding needs of the documents.                             *)
Usable(p) ==
    /\ Accepted(p) /\ p.rbac.on
    /\ Elements(p.rbac.subjectTypes) \cap DOMAIN ByName(p.unions) = {}
    /\ \A i \in DOMAIN p.rbac.subjects :
          /\ p.rbac.subjects[i].name \notin DOMAIN ByName(p.unions)
          /\ ~p.rbac.subjects[i].wild
    /\ p.rbac.role.name \notin Elements(p.rbac.subjectTypes)
    /\ \A n \in Elements(p.rbac.owners) : NewPolicy(p).rt[n].v2.on
    /\ \A n \in DOMAIN NewPolicy(p).rt : NewPolicy(p).rt[n].v2.on =>
          \E rel \in NewPolicy(p).rt[n].rels :
             /\ rel.relation = GrantRelationship
             /\ rel.targets = {Target(p.rbac.roleBinding.name)}
    /\ \A i \in DOMAIN p.bindings : p.bindings[i].action # AvailableRolesList

LEMMA CarefulUseUsable ==
    ASSUME NEW p, IsDocument(p), Validate(NewPolicy(p)), CarefulUse(NewPolicy(p)), p.rbac.on
    PROVE  Usable(p)
<1>1. NewPolicy(p).p = p
  BY PolicyTypes
<1>2. Accepted(p)
  BY DEF Accepted, CarefulUse
<1> QED
  BY <1>1, <1>2 DEF CarefulUse, Usable

(* Roles are available on types with role bindings only.                   *)
LEMMA AvailableTypes ==
    ASSUME NEW p, Usable(p), NEW b \in AvailableRolesBindings(p), b.type \in DOMAIN NewPolicy(p).rt
    PROVE  NewPolicy(p).rt[b.type].v2.on
<1>1. PICK n : /\ AvailableRoles(p, n, TypesWithRoles(p)[n]) # {}
               /\ b = ActionBinding(AvailableRolesList, n,
                                    AvailableRoles(p, n, TypesWithRoles(p)[n]), {}, <<>>)
  BY DEF AvailableRolesBindings
<1>2. b.type = n
  BY <1>1 DEF ActionBinding
<1>3. n \in Elements(p.rbac.owners) \/ TypesWithRoles(p)[n].v2.from # {}
  BY <1>1 DEF AvailableRoles
<1>4. CASE n \in Elements(p.rbac.owners)
  BY <1>2, <1>4 DEF Usable
<1>5. CASE TypesWithRoles(p)[n].v2.from # {}
  <2>0. IsDocument(p) /\ p.rbac.on
    BY AcceptedParts DEF Usable
  <2>1. /\ n \in DOMAIN BaseTypes(p) /\ BaseTypes(p) = TypesWithRoles(p)
        /\ NewPolicy(p).rt[n].v2 = BaseTypes(p)[n].v2
    BY <1>2, <2>0, PolicyTypes DEF BaseTypes
  <2>2. PICK y, more :
           /\ IsDeclared(p, y) \/ IsRoleType(p, n, y) \/ IsRoleBindingType(p, n, y)
           /\ BaseTypes(p)[n] = [prefix |-> y.prefix, v2 |-> y.v2, rels |-> y.rels \cup more]
    BY <2>0, <2>1, BaseCases
  <2>3. y.v2.on \/ y.v2.from = {}
    <3>1. CASE IsDeclared(p, y)
      <4>1. PICK i \in DOMAIN p.types : y = Declared(p.types[i])
        BY <3>1 DEF IsDeclared
      <4>2. y.v2 = p.types[i].v2
        BY <4>1 DEF Declared
      <4> QED
        BY <2>0, <4>2 DEF IsDocument
    <3>2. CASE IsRoleType(p, n, y)
      BY <3>2 DEF IsRoleType, createV2RoleResourceType, Generated, NoRoleBindingV2
    <3>3. CASE IsRoleBindingType(p, n, y)
      BY <3>3 DEF IsRoleBindingType, createRoleBindingResourceType, Generated, NoRoleBindingV2
    <3> QED
      BY <2>2, <3>1, <3>2, <3>3
  <2>4. BaseTypes(p)[n].v2 = y.v2
    BY <2>2
  <2> QED
    BY <1>2, <1>5, <2>1, <2>3, <2>4
<1> QED
  BY <1>3, <1>4, <1>5

(* What SpiceDB has when its schema is that of a policy.                   *)
SchemaIs(sch, pol) ==
    /\ DOMAIN sch = DOMAIN pol.rt
    /\ \A n \in DOMAIN pol.rt : /\ sch[n].relations = SchemaRelations(pol, n)
                               /\ sch[n].actions = SchemaActions(pol, n)

Fits(p, sch, tuples) == /\ Usable(p) /\ SchemaIs(sch, NewPolicy(p))
                        /\ \A t \in tuples : Admits(sch, t)

(* a relationship that SpiceDB has is of a relation of the schema          *)
LEMMA FitsAdmits ==
    ASSUME NEW p, NEW sch, NEW tuples, Fits(p, sch, tuples), NEW t \in tuples
    PROVE  /\ t.obj.type \in DOMAIN NewPolicy(p).rt
           /\ \E r \in SchemaRelations(NewPolicy(p), t.obj.type) :
                 /\ r.relation = t.rel
                 /\ \E target \in r.targets : Allows(target, t.sub, t.subrel)
BY DEF Fits, SchemaIs, Admits

(* A role has no action that role bindings could ask for to list roles.    *)
LEMMA NotByBinding ==
    ASSUME NEW p, NEW sch, NEW tuples, Fits(p, sch, tuples), NEW Subs, NEW known, NEW o, NEW s,
           o.type = p.rbac.role.name, s.type = p.rbac.role.name,
           StepTo(sch, tuples, Subs, known, o, ActionRelation(AvailableRolesList), s)
    PROVE  FALSE
<1> DEFINE rel == ActionRelation(AvailableRolesList)
           pol == NewPolicy(p)
<1>1. /\ Accepted(p) /\ p.rbac.on /\ SchemaIs(sch, pol)
      /\ Elements(p.rbac.subjectTypes) \cap DOMAIN ByName(p.unions) = {}
      /\ p.rbac.role.name \notin Elements(p.rbac.subjectTypes)
  BY DEF Fits, Usable
<1>2. AvailableRolesList \in ActionNames(p)
  BY <1>1 DEF ActionNames
<1>3. CASE InRelation(known, tuples, o, rel, s)
  <2>1. PICK t \in tuples :
           /\ t.obj = o /\ t.rel = rel
           /\ \/ t.subrel = <<>> /\ t.sub \in {s, All(s.type)}
              \/ t.subrel # <<>>
    BY <1>3 DEF InRelation
  <2>2. PICK r \in SchemaRelations(pol, o.type) :
           r.relation = rel /\ \E target \in r.targets : Allows(target, t.sub, t.subrel)
    BY <2>1, FitsAdmits
  <2>3. PICK target \in r.targets : Allows(target, t.sub, t.subrel)
    BY <2>2
  <2>4. PICK y \in Elements(p.rbac.subjectTypes) : target = Everyone(y)
    BY <1>1, <1>2, <2>2, <2>3, RoleActionTargets
  <2>5. t.sub.type = y /\ t.subrel = NoName
    BY <2>3, <2>4 DEF Allows, Everyone
  <2>6. t.sub.type = s.type
    BY <2>1, <2>5 DEF All, Object, NoName
  <2> QED
    BY <1>1, <2>5, <2>6
<1>4. CASE o.type \in DOMAIN sch /\ \E a \in sch[o.type].actions : a.name = rel
  <2>1. PICK a \in SchemaActions(pol, o.type) : a.name = rel
    BY <1>1, <1>4 DEF SchemaIs
  <2>2. rel \in ActionNames(p) \cup RoleBindingActions
    BY <1>1, <2>1, SchemaActionNames
  <2> QED
    BY <1>1, <1>2, <2>2, ActionsDiffer
<1> QED
  BY <1>3, <1>4 DEF StepTo

(* A resource for which avail_role gives a role can be granted roles on.   *)
LEMMA AvailableMeansV2 ==
    ASSUME NEW p, NEW sch, NEW tuples, Fits(p, sch, tuples), NEW Subs, NEW x, NEW s,
           s.type = p.rbac.role.name,
           <<x, AvailableRolesList, s>> \in Holds(sch, tuples, Subs)
    PROVE  x.type \in DOMAIN NewPolicy(p).rt /\ NewPolicy(p).rt[x.type].v2.on
<1> DEFINE pol == NewPolicy(p)
           n   == x.type
<1>1. PICK known : /\ StepTo(sch, tuples, Subs, known, x, AvailableRolesList, s)
                   /\ \A o1, r1, s1 : <<o1, r1, s1>> \in known =>
                         \E k : StepTo(sch, tuples, Subs, k, o1, r1, s1)
  BY HoldsSteps
<1>2. /\ Usable(p) /\ Accepted(p) /\ p.rbac.on /\ SchemaIs(sch, pol)
      /\ \A i \in DOMAIN p.bindings : p.bindings[i].action # AvailableRolesList
  BY DEF Fits, Usable
<1>3. n \in DOMAIN sch /\ n \in DOMAIN pol.rt /\ sch[n].actions = SchemaActions(pol, n)
  BY <1>1, <1>2 DEF StepTo, SchemaIs
<1>4. AvailableRolesList \in ActionNames(p)
  BY <1>2 DEF ActionNames
<1>5. ~InRelation(known, tuples, x, AvailableRolesList, s)
  <2>1. SUFFICES ASSUME NEW t \in tuples, t.obj = x, t.rel = AvailableRolesList PROVE FALSE
    BY DEF InRelation
  <2>2. \E r \in SchemaRelations(pol, n) : r.relation = AvailableRolesList
    BY <2>1, FitsAdmits
  <2> QED
    BY <1>2, <1>3, <1>4, <2>2, NoRelationIsAction
<1>6. PICK a \in SchemaActions(pol, n) :
         a.name = AvailableRolesList /\ Permits(known, tuples, x, a, s)
  BY <1>1, <1>3, <1>5 DEF StepTo
<1>7. CASE pol.rt[n].v2.on
  BY <1>3, <1>7
<1>8. ASSUME NEW b \in pol.bn, b.type = n, a = BoundPermission(pol, n, b)
      PROVE  pol.rt[n].v2.on
  <2>1. b.action = AvailableRolesList
    BY <1>6, <1>8 DEF BoundPermission, Permission
  <2>2. CASE IsDocumentBinding(p, b)
    <3>1. PICK i \in DOMAIN p.bindings : b.action = p.bindings[i].action
      BY <2>2 DEF IsDocumentBinding, BindingAt, ActionBinding
    <3> QED
      BY <1>2, <2>1, <3>1
  <2>3. CASE b \in AvailableRolesBindings(p)
    BY <1>2, <1>3, <1>8, <2>3, AvailableTypes
  <2>4. CASE b \in RoleBindingBindings(p)
    <3> DEFINE rel == ActionRelation(AvailableRolesList)
    <3>1. /\ n = p.rbac.roleBinding.name /\ b.conds = {}
          /\ {ConditionRelationshipAction(RolebindingRoleRelation, rel)} \in b.sets
      BY <1>8, <2>1, <2>4, RoleBindingsBindings
    <3>2. a.any = {}
      BY <1>8, <3>1 DEF BoundPermission, Permission
    <3>3. {Clause(c) : c \in {ConditionRelationshipAction(RolebindingRoleRelation, rel)}} \in a.all
      BY <1>8, <3>1 DEF BoundPermission, Permission
    <3>4. Clause(ConditionRelationshipAction(RolebindingRoleRelation, rel)) =
             Arrow(RolebindingRoleRelation, rel)
      BY DEF Clause, ConditionRelationshipAction, Condition
    <3>5. AlongArrow(known, tuples, x, Arrow(RolebindingRoleRelation, rel), s)
      BY <1>6, <3>2, <3>3, <3>4 DEF Permits
    <3>6. rel # <<>>
      BY <1>2, <1>4, AcceptedParts, ActionNamesAreNames, ActionRelations DEF NoName
    <3>7. PICK t \in tuples : /\ t.obj = x /\ t.rel = RolebindingRoleRelation
                              /\ <<t.sub, rel, s>> \in known
      BY <3>5, <3>6 DEF AlongArrow, Arrow
    <3>8. PICK r \in SchemaRelations(pol, n) :
             /\ r.relation = RolebindingRoleRelation
             /\ \E target \in r.targets : Allows(target, t.sub, t.subrel)
      BY <3>7, FitsAdmits
    <3>9. r.targets = {Target(p.rbac.role.name)}
      <4>1. PICK q \in pol.rt[n].rels : /\ q.relation = RolebindingRoleRelation
                                        /\ q.targets = {Target(p.rbac.role.name)}
        BY <1>2, <3>1, RoleBindingRelations
      <4>2. q \in SchemaRelations(pol, n)
        BY SchemaRelationsOf
      <4>3. r = q
        BY <1>2, <1>3, <3>8, <4>1, <4>2, NamesOfSchemaDiffer
      <4> QED
        BY <4>1, <4>3
    <3>10. t.sub.type = p.rbac.role.name
      BY <3>8, <3>9 DEF Allows, Target
    <3>11. \E k : StepTo(sch, tuples, Subs, k, t.sub, rel, s)
      BY <1>1, <3>7
    <3> QED
      BY <3>10, <3>11, NotByBinding
  <2> QED
    BY <2>2, <2>3, <2>4, PolicyBindings
<1> QED
  BY <1>2, <1>3, <1>6, <1>7, <1>8, SchemaActionsOf

(* The relationships of a role binding are of relations of the schema.     *)
LEMMA BindingAdmitted ==
    ASSUME NEW p, NEW sch, Usable(p), SchemaIs(sch, NewPolicy(p)),
           NEW rb, rb.type = p.rbac.roleBinding.name, rb.id # Wildcard,
           NEW role, role.type = p.rbac.role.name, role.id # Wildcard,
           NEW x, x.type \in DOMAIN NewPolicy(p).rt, NewPolicy(p).rt[x.type].v2.on,
           NEW s, s.type \in DOMAIN ByName(p.rbac.subjects), s.id # Wildcard
    PROVE  /\ Admits(sch, Tuple(rb, RolebindingRoleRelation, role))
           /\ Admits(sch, Tuple(x, GrantRelationship, rb))
           /\ Admits(sch, TupleTo(rb, RolebindingSubjectRelation, s,
                                  ByName(p.rbac.subjects)[s.type].subrel))
<1> DEFINE pol == NewPolicy(p)
           n   == p.rbac.roleBinding.name
<1>1. Accepted(p) /\ IsDocument(p) /\ p.rbac.on
  BY AcceptedParts DEF Usable
<1>2. ASSUME NEW m \in DOMAIN pol.rt, NEW r \in pol.rt[m].rels, NEW target \in r.targets,
             NEW t, t.obj.type = m, t.rel = r.relation, Allows(target, t.sub, t.subrel)
      PROVE  Admits(sch, t)
  <2>1. r \in SchemaRelations(pol, m)
    BY SchemaRelationsOf
  <2>2. m \in DOMAIN sch /\ r \in sch[m].relations
    BY <2>1 DEF SchemaIs
  <2> QED
    BY <1>2, <2>2 DEF Admits
<1>3. Admits(sch, Tuple(rb, RolebindingRoleRelation, role))
  <2> DEFINE t == Tuple(rb, RolebindingRoleRelation, role)
  <2>1. n \in DOMAIN pol.rt /\ \E r \in pol.rt[n].rels : /\ r.relation = RolebindingRoleRelation
                                                         /\ r.targets = {Target(p.rbac.role.name)}
    BY <1>1, RoleBindingRelations
  <2>2. PICK r \in pol.rt[n].rels : /\ r.relation = RolebindingRoleRelation
                                    /\ r.targets = {Target(p.rbac.role.name)}
    BY <2>1
  <2>3. /\ t.obj.type = n /\ t.rel = r.relation
        /\ Allows(Target(p.rbac.role.name), t.sub, t.subrel)
    BY <2>2 DEF Tuple, Allows, Target, NoName
  <2> HIDE DEF t
  <2>4. Admits(sch, t)
    BY <1>2, <2>1, <2>2, <2>3
  <2> QED
    BY <2>4 DEF t
<1>4. Admits(sch, Tuple(x, GrantRelationship, rb))
  <2> DEFINE t == Tuple(x, GrantRelationship, rb)
  <2>1. PICK r \in pol.rt[x.type].rels : /\ r.relation = GrantRelationship
                                         /\ Target(n) \in r.targets
    BY DEF Usable
  <2>2. t.obj.type = x.type /\ t.rel = r.relation /\ Allows(Target(n), t.sub, t.subrel)
    BY <2>1 DEF Tuple, Allows, Target, NoName
  <2> HIDE DEF t
  <2>3. Admits(sch, t)
    BY <1>2, <2>1, <2>2
  <2> QED
    BY <2>3 DEF t
<1>5. Admits(sch, TupleTo(rb, RolebindingSubjectRelation, s,
                          ByName(p.rbac.subjects)[s.type].subrel))
  <2> DEFINE conf == ByName(p.rbac.subjects)[s.type]
             t    == TupleTo(rb, RolebindingSubjectRelation, s, conf.subrel)
  <2>1. p.rbac.subjects \in Seq(Elements(p.rbac.subjects))
    BY <1>1 DEF IsDocument
  <2>2. PICK i \in DOMAIN p.rbac.subjects : p.rbac.subjects[i].name = s.type
                                            /\ conf = p.rbac.subjects[i]
    <3> HIDE DEF conf
    <3>1. PICK list : list = p.rbac.subjects
      OBVIOUS
    <3>2. list \in Seq(Elements(list)) /\ s.type \in DOMAIN ByName(list)
      BY <2>1, <3>1
    <3>3. \E i \in DOMAIN list : list[i].name = s.type /\ ByName(list)[s.type] = list[i]
      BY <3>2, ByNameLast
    <3> QED
      BY <3>1, <3>3 DEF conf
  <2>3. conf.name = s.type /\ conf.name \notin DOMAIN ByName(p.unions) /\ ~conf.wild
    BY <2>2 DEF Usable
  <2>4. n \in DOMAIN pol.rt /\ \E r \in pol.rt[n].rels :
           /\ r.relation = RolebindingSubjectRelation
           /\ \A j \in DOMAIN p.rbac.subjects :
                 p.rbac.subjects[j].name \notin DOMAIN ByName(p.unions) =>
                    p.rbac.subjects[j] \in r.targets
    BY <1>1, RoleBindingRelations
  <2>5. PICK r \in pol.rt[n].rels :
           /\ r.relation = RolebindingSubjectRelation
           /\ \A j \in DOMAIN p.rbac.subjects :
                 p.rbac.subjects[j].name \notin DOMAIN ByName(p.unions) =>
                    p.rbac.subjects[j] \in r.targets
    BY <2>4
  <2> HIDE DEF conf
  <2>6. conf \in r.targets
    BY <2>2, <2>3, <2>5
  <2>7. t.obj.type = n /\ t.rel = r.relation /\ Allows(conf, t.sub, t.subrel)
    BY <2>3, <2>5 DEF TupleTo, Allows
  <2> HIDE DEF t
  <2>8. Admits(sch, t)
    BY <1>2, <2>4, <2>5, <2>6, <2>7
  <2> QED
    BY <2>8 DEF t, conf
<1> QED
  BY <1>3, <1>4, <1>5

(* SpiceDB has the schema of a policy that is valid, and relationships     *)
(* that it admits; a server has the RBAC of the policy it read; a role's   *)
(* identifier is no wildcard.                                              *)
Served ==
    /\ Typed
    /\ Validate(applied) /\ SchemaIs(schema, applied)
    /\ \A t \in relationships : Admits(schema, t)
    /\ engine.on => engine.rbac = engine.policy.p.rbac
    /\ \A r \in roles : r.id # Wildcard

LEMMA NoPolicyValid == Validate(NoPolicy) /\ SchemaIs(<<>>, NoPolicy)
<1>1. /\ EmptyDocument.types = <<>> /\ EmptyDocument.unions = <<>> /\ EmptyDocument.bindings = <<>>
      /\ ~EmptyDocument.rbac.on
  BY DEF EmptyDocument, NoRBAC
<1>2. /\ DOMAIN NoPolicy.rt = DOMAIN BaseTypes(EmptyDocument) /\ NoPolicy.p = EmptyDocument
  BY EmptyIsDocument, PolicyTypes DEF NoPolicy
<1>3. DOMAIN NoPolicy.rt = {}
  BY <1>1, <1>2 DEF BaseTypes, DeclaredTypes, ByName
<1>4. NoPolicy.bn = {}
  <2>1. ASSUME NEW b \in NoPolicy.bn PROVE FALSE
    <3>1. IsDocumentBinding(EmptyDocument, b)
      BY <1>1, PolicyBindings DEF NoPolicy
    <3> QED
      BY <1>1, <3>1 DEF IsDocumentBinding
  <2> QED
    BY <2>1
<1>5. Validate(NoPolicy)
  BY <1>1, <1>2, <1>3, <1>4
     DEF Validate, ValidUnions, ValidResourceTypes, ValidActionBindings, ValidRoles
<1>6. SchemaIs(<<>>, NoPolicy)
  BY <1>3 DEF SchemaIs
<1> QED
  BY <1>5, <1>6

LEMMA InitServed == Init => Served
<1> SUFFICES ASSUME Init PROVE Served
  OBVIOUS
<1>1. applied = NoPolicy /\ schema = <<>>
  BY DEF Init
<1>2. Validate(applied) /\ SchemaIs(schema, applied)
  BY <1>1, NoPolicyValid
<1>3. ~engine.on /\ relationships = {} /\ roles = {}
  BY DEF Init, NoEngine
<1> QED
  BY <1>2, <1>3, InitTyped DEF Served

LEMMA NextServed == Served /\ [Next]_vars => Served'
<1> SUFFICES ASSUME Served, [Next]_vars PROVE Served'
  OBVIOUS
<1>0. Typed'
  BY NextTyped DEF Served
<1>1. ASSUME NEW i \in DOMAIN Files, AddFile(i) PROVE Served'
  <2>1. UNCHANGED <<applied, schema, engine, relationships, roles>>
    BY <1>1 DEF AddFile
  <2> QED
    BY <1>0, <2>1 DEF Served
<1>2. ASSUME WriteSchema PROVE Served'
  <2>1. /\ applied' = policy /\ schema' = Schema(policy) /\ Validate(policy)
        /\ Applicable(Schema(policy))
        /\ UNCHANGED <<engine, relationships, roles>>
    BY <1>2 DEF WriteSchema, LoadedPolicy
  <2>2. \A t \in relationships' : Admits(schema', t)
    BY <2>1 DEF Applicable
  <2>3. SchemaIs(schema', applied')
    BY <2>1 DEF SchemaIs, Schema
  <2> QED
    BY <1>0, <2>1, <2>2, <2>3 DEF Served
<1>3. ASSUME StartServer PROVE Served'
  <2>1. /\ engine'.on = TRUE /\ engine'.rbac = engine'.policy.p.rbac
        /\ UNCHANGED <<applied, schema, relationships, roles>>
    BY <1>3 DEF StartServer
  <2> QED
    BY <1>0, <2>1 DEF Served
<1>4. ASSUME NEW rs, NEW bs, RequestOf(rs, bs) PROVE Served'
  BY <1>0, <1>4 DEF RequestOf, Served
<1>5. CASE UNCHANGED vars
  BY <1>0, <1>5 DEF vars, Served
<1> QED
  BY <1>1, <1>2, <1>3, <1>4, <1>5, NextStep

LEMMA ServedWritable ==
    ASSUME Served, engine.on, engine.policy = applied, CarefulUse(applied),
           NEW x \in Ids, NEW s \in Subjects, NEW n \in RoleBindingNumbers, NEW row \in roles,
           Bindable(x, row.id, s)
    PROVE  NotAdmitted(rolebindingRelationships(RoleBindingID(n), NewResourceFromID(x),
                                                row.id, NewResourceFromID(s))) = {}
<1> DEFINE X    == NewResourceFromID(x)
           S    == NewResourceFromID(s)
           rb   == RoleBindingID(n)
           role == Object(engine.rbac.role.name, row.id)
<1>1. PICK fs : applied = NewPolicy(Document(fs))
  BY DEF Served, Typed, MadeOf
<1>2. PICK p : p = Document(fs)
  OBVIOUS
<1>3. IsDocument(p) /\ applied = NewPolicy(p)
  BY <1>1, <1>2, DocumentIsDocument
<1>4. engine.rbac = p.rbac
  BY <1>3, PolicyTypes DEF Served
<1>5. /\ p.rbac.on /\ S.type \in DOMAIN ByName(p.rbac.subjects)
      /\ <<X, AvailableRolesList, role>> \in Holds(schema, relationships, {role})
  BY <1>4 DEF Bindable, isRoleBindable
<1>6. Usable(p) /\ SchemaIs(schema, NewPolicy(p)) /\ Fits(p, schema, relationships)
  BY <1>3, <1>5, CarefulUseUsable DEF Served, Fits
<1>7. rb.type = p.rbac.roleBinding.name /\ rb.id # Wildcard
  BY <1>4, PairsAreNotWildcard DEF RoleBindingID, Object
<1>8. role.type = p.rbac.role.name /\ role.id # Wildcard
  BY <1>4 DEF Object, Served
<1>9. S.id # Wildcard
  BY IdsAssumption DEF NewResourceFromID, Object
<1> HIDE DEF X, S, rb, role
<1>10. X.type \in DOMAIN NewPolicy(p).rt /\ NewPolicy(p).rt[X.type].v2.on
  BY <1>5, <1>6, <1>8, AvailableMeansV2
<1>11. /\ Admits(schema, Tuple(rb, RolebindingRoleRelation, role))
       /\ Admits(schema, Tuple(X, GrantRelationship, rb))
       /\ Admits(schema, TupleTo(rb, RolebindingSubjectRelation, S,
                                 ByName(p.rbac.subjects)[S.type].subrel))
  BY <1>5, <1>6, <1>7, <1>8, <1>9, <1>10, BindingAdmitted
<1>12. rolebindingRelationships(rb, X, row.id, S) =
          {Tuple(rb, RolebindingRoleRelation, role), Tuple(X, GrantRelationship, rb),
           TupleTo(rb, RolebindingSubjectRelation, S, ByName(p.rbac.subjects)[S.type].subrel)}
  BY <1>4 DEF rolebindingRelationships, rolebindingSubjectRelationship, role
<1>13. NotAdmitted(rolebindingRelationships(rb, X, row.id, S)) = {}
  BY <1>11, <1>12 DEF NotAdmitted
<1> QED
  BY <1>13 DEF rb, X, S

(* Whatever the files, requests and restarts: a server that serves the     *)
(* policy of SpiceDB's schema never has a role binding refused that it     *)
(* took for bindable, if the documents keep the rules of CarefulUse.       *)
THEOREM BindableWritable == Spec => []BindableIsWritable
<1>1. Served => BindableIsWritable
  BY ServedWritable DEF BindableIsWritable
<1> QED
  BY <1>1, InitServed, NextServed, PTL DEF Spec

-----------------------------------------------------------------------------
(* Servers over time: policies that were loaded, and the objects that a    *)
(* server names under one.                                                 *)

(* a policy that is valid, of files that may be in the directory           *)
Loadable(pol) == Validate(pol) /\ \E fs \in SUBSET DOMAIN Files : MadeOf(pol, fs)

LEMMA LoadableAgree ==
    ASSUME SteadyFiles, NEW p, Loadable(p), NEW q, Loadable(q)
    PROVE  /\ CarefulUse(p)
           /\ p.p.rbac.on /\ q.p.rbac.on => p.p.rbac = q.p.rbac
           /\ \A n \in DOMAIN p.rt \cap DOMAIN q.rt : p.rt[n].prefix = q.rt[n].prefix
<1>1. PICK fs \in SUBSET DOMAIN Files : p = NewPolicy(Document(fs))
  BY DEF Loadable, MadeOf
<1>2. PICK gs \in SUBSET DOMAIN Files : q = NewPolicy(Document(gs))
  BY DEF Loadable, MadeOf
<1> QED
  BY <1>1, <1>2, Zenon DEF Loadable, SteadyFiles

LEMMA LoadableAccepted ==
    ASSUME SteadyFiles, NEW pol, Loadable(pol)
    PROVE  /\ Accepted(pol.p) /\ pol = NewPolicy(pol.p)
           /\ pol.p.rbac.on => Usable(pol.p)
<1>1. PICK fs : pol = NewPolicy(Document(fs))
  BY DEF Loadable, MadeOf
<1>2. PICK d : d = Document(fs)
  OBVIOUS
<1>3. IsDocument(d) /\ pol = NewPolicy(d)
  BY <1>1, <1>2, DocumentIsDocument
<1>4. pol.p = d
  BY <1>3, PolicyTypes
<1>5. CarefulUse(pol) /\ Validate(pol)
  BY LoadableAgree DEF Loadable
<1>6. Accepted(d)
  BY <1>3, <1>5 DEF Accepted, CarefulUse
<1> QED
  BY <1>3, <1>4, <1>5, <1>6, CarefulUseUsable

LEMMA PolicyPrefixes ==
    ASSUME NEW p, IsDocument(p), NEW n \in DOMAIN NewPolicy(p).rt
    PROVE  NewPolicy(p).rt[n].prefix = BaseTypes(p)[n].prefix
<1>1. n \in DOMAIN BaseTypes(p)
  BY PolicyTypes
<1>2. BaseTypes(p)[n] = [prefix |-> BaseTypes(p)[n].prefix, v2 |-> BaseTypes(p)[n].v2,
                         rels |-> BaseTypes(p)[n].rels]
  BY <1>1, BaseCases
<1>3. \E rels : NewPolicy(p).rt[n] = [BaseTypes(p)[n] EXCEPT !.rels = rels]
  BY <1>1 DEF NewPolicy, ExpandedTypes, BaseTypes
<1> QED
  BY <1>2, <1>3

(* the prefixes of roles and role bindings                                 *)
LEMMA RolePrefixes ==
    ASSUME NEW p, Accepted(p), p.rbac.on
    PROVE  /\ p.rbac.role.name \in DOMAIN NewPolicy(p).rt
           /\ p.rbac.roleBinding.name \in DOMAIN NewPolicy(p).rt
           /\ NewPolicy(p).rt[p.rbac.role.name].prefix = p.rbac.role.prefix
           /\ NewPolicy(p).rt[p.rbac.roleBinding.name].prefix = p.rbac.roleBinding.prefix
<1> DEFINE m  == p.rbac.role.name
           n  == p.rbac.roleBinding.name
           rt == Put(Put(DeclaredTypes(p), m, createV2RoleResourceType(p)),
                     n, createRoleBindingResourceType(p))
<1>1. BaseTypes(p) = [k \in DOMAIN rt |-> IF k \in Elements(p.rbac.owners)
          THEN [rt[k] EXCEPT !.rels = @ \cup {MemberRole(p)}] ELSE rt[k]]
  BY DEF BaseTypes, TypesWithRoles, MemberRole
<1>2. m # n
  BY AcceptedParts DEF CarefulRBAC
<1>3. /\ m \in DOMAIN rt /\ n \in DOMAIN rt
      /\ rt[m] = createV2RoleResourceType(p) /\ rt[n] = createRoleBindingResourceType(p)
  BY <1>2 DEF Put
<1>4. /\ createV2RoleResourceType(p).prefix = p.rbac.role.prefix
      /\ createRoleBindingResourceType(p).prefix = p.rbac.roleBinding.prefix
  BY DEF createV2RoleResourceType, createRoleBindingResourceType, Generated
<1> HIDE DEF rt
<1>5. \A t, more : [t EXCEPT !.rels = more].prefix = t.prefix
  OBVIOUS
<1>6. /\ m \in DOMAIN BaseTypes(p) /\ n \in DOMAIN BaseTypes(p)
      /\ BaseTypes(p)[m].prefix = p.rbac.role.prefix
      /\ BaseTypes(p)[n].prefix = p.rbac.roleBinding.prefix
  BY <1>1, <1>3, <1>4, <1>5
<1> QED
  BY <1>6, AcceptedParts, PolicyTypes, PolicyPrefixes

(* a map from prefixes to types of a policy                                *)
TellsTypes(m, pol) ==
    /\ DOMAIN m = {pol.rt[n].prefix : n \in DOMAIN pol.rt}
    /\ \A p \in DOMAIN m : m[p] \in DOMAIN pol.rt /\ pol.rt[m[p]].prefix = p

LEMMA MapsTellTypes ==
    ASSUME NEW pol, NEW m \in SchemaPrefixMaps(Schema(pol))
    PROVE  TellsTypes(m, pol)
<1> DEFINE s == Schema(pol)
<1>1. DOMAIN s = DOMAIN pol.rt /\ \A n \in DOMAIN s : s[n].prefix = pol.rt[n].prefix
  BY DEF Schema
<1> HIDE DEF s
<1>2. PICK W \in SUBSET DOMAIN s :
         /\ \A n \in DOMAIN s : Cardinality({k \in W : s[k].prefix = s[n].prefix}) = 1
         /\ m = [p \in {s[n].prefix : n \in W} |-> CHOOSE n \in W : s[n].prefix = p]
  BY DEF SchemaPrefixMaps, s
<1>3. \A n \in DOMAIN s : \E k \in W : s[k].prefix = s[n].prefix
  <2>1. ASSUME NEW n \in DOMAIN s, ~ \E k \in W : s[k].prefix = s[n].prefix
        PROVE  FALSE
    <3>1. {k \in W : s[k].prefix = s[n].prefix} = {}
      BY <2>1
    <3>2. Cardinality({}) = 1
      BY <1>2, <3>1
    <3> QED
      BY <3>2, FS_EmptySet
  <2> QED
    BY <2>1
<1>4. \A p \in {s[n].prefix : n \in W} : m[p] \in W /\ s[m[p]].prefix = p
  BY <1>2
<1>5. DOMAIN m = {s[n].prefix : n \in W}
  BY <1>2
<1>6. {s[n].prefix : n \in W} = {s[n].prefix : n \in DOMAIN s}
  BY <1>3
<1>7. \A p \in DOMAIN m : m[p] \in DOMAIN pol.rt /\ pol.rt[m[p]].prefix = p
  <2>1. ASSUME NEW p \in DOMAIN m
        PROVE  m[p] \in DOMAIN pol.rt /\ pol.rt[m[p]].prefix = p
    <3>1. m[p] \in DOMAIN s /\ s[m[p]].prefix = p
      BY <1>4, <1>5
    <3> QED
      BY <1>1, <3>1
  <2> QED
    BY <2>1
<1>8. DOMAIN m = {pol.rt[n].prefix : n \in DOMAIN pol.rt}
  BY <1>1, <1>5, <1>6
<1> QED
  BY <1>7, <1>8 DEF TellsTypes

(* What a server has read: all of it is of one policy.                     *)
Reading ==
    engine.on => /\ Loadable(engine.policy) /\ engine.rbac = engine.policy.p.rbac
                 /\ SchemaIs(engine.schema, engine.policy)
                 /\ TellsTypes(engine.schemaPrefixMap, engine.policy)

(* an object whose type its prefix tells, under some policy                *)
Identified(o) ==
    /\ o = Object(o.type, o.id)
    /\ \E pol : /\ Loadable(pol)
                /\ o.type \in DOMAIN pol.rt /\ pol.rt[o.type].prefix = o.id[1]

LEMMA NewResources ==
    ASSUME Reading, NEW id, KnownPrefix(id)
    PROVE  /\ Identified(NewResourceFromID(id)) /\ NewResourceFromID(id).id = id
           /\ NewResourceFromID(id).type \in DOMAIN engine.policy.rt
           /\ engine.policy.rt[NewResourceFromID(id).type].prefix = id[1]
<1>1. /\ NewResourceFromID(id).type = engine.schemaPrefixMap[id[1]]
      /\ NewResourceFromID(id).id = id
      /\ NewResourceFromID(id) = Object(NewResourceFromID(id).type, NewResourceFromID(id).id)
  BY DEF NewResourceFromID, Object
<1>2. engine.on /\ id[1] \in DOMAIN engine.schemaPrefixMap
  BY DEF KnownPrefix
<1>3. /\ Loadable(engine.policy)
      /\ engine.schemaPrefixMap[id[1]] \in DOMAIN engine.policy.rt
      /\ engine.policy.rt[engine.schemaPrefixMap[id[1]]].prefix = id[1]
  BY <1>2 DEF Reading, TellsTypes
<1> DEFINE x == NewResourceFromID(id)
<1>4. /\ x.type \in DOMAIN engine.policy.rt
      /\ engine.policy.rt[x.type].prefix = id[1]
      /\ x.id = id /\ x = Object(x.type, x.id)
  BY <1>1, <1>3
<1> HIDE DEF x
<1>5. Identified(x)
  BY <1>3, <1>4 DEF Identified
<1> QED
  BY <1>4, <1>5 DEF x

(* ... which has the same type under every policy that has the type        *)
LEMMA IdentifiedAgain ==
    ASSUME SteadyFiles, Reading, engine.on, NEW o, Identified(o),
           o.type \in DOMAIN engine.policy.rt
    PROVE  /\ o.id[1] = engine.policy.rt[o.type].prefix
           /\ KnownPrefix(o.id) /\ NewResourceFromID(o.id) = o
<1>1. PICK pol : /\ Loadable(pol)
                 /\ o.type \in DOMAIN pol.rt /\ pol.rt[o.type].prefix = o.id[1]
  BY DEF Identified
<1>2. Loadable(engine.policy)
  BY DEF Reading
<1>3. o.id[1] = engine.policy.rt[o.type].prefix
  BY <1>1, <1>2, LoadableAgree
<1>4. KnownPrefix(o.id)
  BY <1>3 DEF KnownPrefix, Reading, TellsTypes
<1>5. /\ NewResourceFromID(o.id).type \in DOMAIN engine.policy.rt
      /\ engine.policy.rt[NewResourceFromID(o.id).type].prefix = o.id[1]
  BY <1>4, NewResources
<1>6. \A m, n \in DOMAIN engine.policy.rt :
         engine.policy.rt[m].prefix = engine.policy.rt[n].prefix => m = n
  BY <1>2, LoadableAgree DEF CarefulUse
<1>7. NewResourceFromID(o.id).type = o.type
  BY <1>3, <1>5, <1>6
<1>8. NewResourceFromID(o.id) = Object(o.type, o.id)
  BY <1>7 DEF NewResourceFromID, Object
<1>9. o = Object(o.type, o.id)
  BY DEF Identified
<1> QED
  BY <1>3, <1>4, <1>8, <1>9

-----------------------------------------------------------------------------
(* Where each relationship comes from.  R is the RBAC of all policies that *)
(* have one.                                                               *)
Common(R) == \A pol : Loadable(pol) /\ pol.p.rbac.on => pol.p.rbac = R

LEMMA CommonExists == SteadyFiles => \E R : Common(R)
<1> SUFFICES ASSUME SteadyFiles PROVE \E R : Common(R)
  OBVIOUS
<1>1. CASE \E pol : Loadable(pol) /\ pol.p.rbac.on
  <2>1. PICK pol : Loadable(pol) /\ pol.p.rbac.on
    BY <1>1
  <2>2. Common(pol.p.rbac)
    BY <2>1, LoadableAgree DEF Common
  <2> QED
    BY <2>2
<1>2. CASE ~ \E pol : Loadable(pol) /\ pol.p.rbac.on
  BY <1>2 DEF Common
<1> QED
  BY <1>1, <1>2

(* an identifier that is neither a role's nor a role binding's             *)
Foreign(id) == \A pol : Loadable(pol) /\ pol.p.rbac.on =>
                  id[1] \notin {pol.p.rbac.role.prefix, pol.p.rbac.roleBinding.prefix}

Announced(t) == /\ t = Tuple(t.obj, t.rel, t.sub)
                /\ OwnEvents => Foreign(t.obj.id) /\ Foreign(t.sub.id)

(* the relationships of a V2 role: of its actions, to and from its owner   *)
RoleObject(R, r) == Object(R.role.name, r.id)

Shows(R, t, r) ==
    /\ r.id[1] = R.role.prefix
    /\ \E a \in r.actions, s \in Elements(R.subjectTypes) :
          t = Tuple(RoleObject(R, r), ActionRelation(a), All(s))

Owns(R, t, r) ==
    /\ r.id[1] = R.role.prefix
    /\ \/ t = Tuple(RoleObject(R, r), RoleOwnerRelation, t.sub)
       \/ t = Tuple(t.obj, RoleOwnerMemberRoleRelation, RoleObject(R, r)) /\ t.obj.id = r.resource

(* ... of a V1 role: of its actions, and of a subject it is assigned to    *)
GivesV1(t, r) ==
    /\ r.id[1] = RolePrefix /\ t.obj.id = r.resource
    /\ \E a \in r.actions : t = TupleTo(t.obj, ActionRelation(a), Object(RoleTypeV1, r.id),
                                        RolebindingSubjectRelation)

Assigns(t, r) == t = Tuple(Object(RoleTypeV1, r.id), RolebindingSubjectRelation, t.sub)

(* ... of a role binding                                                   *)
BindingObject(R, b) == Object(R.roleBinding.name, b.id)

Binds(R, t, b) ==
    /\ b.id[1] = R.roleBinding.prefix
    /\ \/ t = Tuple(BindingObject(R, b), RolebindingRoleRelation, Object(R.role.name, b.role))
       \/ t = Tuple(t.obj, GrantRelationship, BindingObject(R, b)) /\ t.obj.id = b.resource
       \/ /\ t.sub.id = b.subject
          /\ t = TupleTo(BindingObject(R, b), RolebindingSubjectRelation, t.sub,
                         ByName(R.subjects)[t.sub.type].subrel)

Kind(R, t, rs, bs) ==
    \/ \E r \in rs : Shows(R, t, r)
    \/ /\ t.sub.id # Wildcard /\ Identified(t.sub)
       /\ t.obj.type = RoleTypeV1 \/ Identified(t.obj)
       /\ \/ Announced(t)
          \/ \E r \in rs : Owns(R, t, r) \/ GivesV1(t, r) \/ Assigns(t, r)
          \/ \E b \in bs : Binds(R, t, b)

LEMMA KindGrows ==
    ASSUME NEW R, NEW t, NEW rs, NEW bs, NEW rs1, NEW bs1, rs \subseteq rs1, bs \subseteq bs1,
           Kind(R, t, rs, bs)
    PROVE  Kind(R, t, rs1, bs1)
BY DEF Kind

(* a role's row: a V2 role has the relationships of its actions            *)
RowShown(R, r, ts) ==
    \/ r.id[1] = RolePrefix
    \/ /\ r.id[1] = R.role.prefix
       /\ \A a \in r.actions, s \in Elements(R.subjectTypes) :
             Tuple(RoleObject(R, r), ActionRelation(a), All(s)) \in ts

Once(rows) == \A r, q \in rows : r.id = q.id => r = q

Kept(R) ==
    /\ Served /\ Reading
    /\ \A t \in relationships : Kind(R, t, roles, roleBindings)
    /\ \A r \in roles : RowShown(R, r, relationships)
    /\ Once(roles) /\ Once(roleBindings)

LEMMA InitKept == ASSUME NEW R PROVE Init => Kept(R)
BY InitServed DEF Init, NoEngine, Kept, Reading, Once

(* A request keeps what its new relationships and rows keep.               *)
LEMMA RequestKept ==
    ASSUME NEW R, Kept(R), Served', UNCHANGED engine,
           NEW rs, NEW bs, roles' = roles \cup rs, roleBindings' = roleBindings \cup bs,
           \A t \in relationships' : t \in relationships \/ Kind(R, t, roles', roleBindings'),
           \A t \in relationships : t.sub.id = Wildcard => t \in relationships',
           \A r \in rs : /\ RowShown(R, r, relationships')
                        /\ \A q \in roles \cup rs : r.id = q.id => r = q,
           \A b \in bs : \A c \in roleBindings \cup bs : b.id = c.id => b = c
    PROVE  Kept(R)'
<1>1. Reading'
  BY DEF Kept, Reading
<1>2. \A t \in relationships' : Kind(R, t, roles', roleBindings')
  BY KindGrows DEF Kept
<1>3. ASSUME NEW r \in roles' PROVE RowShown(R, r, relationships')
  <2>1. CASE r \in rs
    BY <2>1
  <2>2. CASE r \in roles
    <3>1. \A a, s : /\ Tuple(RoleObject(R, r), ActionRelation(a), All(s)).sub.id = Wildcard
      BY DEF Tuple, All, Object
    <3> QED
      BY <2>2, <3>1 DEF Kept, RowShown
  <2> QED
    BY <2>1, <2>2
<1>4. Once(roles') /\ Once(roleBindings')
  BY DEF Kept, Once
<1> QED
  BY <1>1, <1>2, <1>3, <1>4 DEF Kept

LEMMA NoRowKept ==
    ASSUME NEW R, Kept(R), Served', UNCHANGED <<engine, roles, roleBindings>>,
           \A t \in relationships' : t \in relationships \/ Kind(R, t, roles', roleBindings'),
           \A t \in relationships : t.sub.id = Wildcard => t \in relationships'
    PROVE  Kept(R)'
<1>1. PICK none : none = {}
  OBVIOUS
<1>2. roles' = roles \cup none /\ roleBindings' = roleBindings \cup none
  BY <1>1
<1>3. UNCHANGED engine /\ \A r : r \notin none
  BY <1>1
<1> HIDE <1>1
<1> QED
  BY <1>2, <1>3, RequestKept

(* What a server names by the identifier of a role or a role binding.      *)
LEMMA ServerRBAC ==
    ASSUME SteadyFiles, NEW R, Common(R), Reading, engine.on, engine.rbac.on
    PROVE  /\ engine.rbac = R /\ engine.policy.p.rbac = R /\ R.on /\ Usable(engine.policy.p)
           /\ Loadable(engine.policy) /\ engine.policy = NewPolicy(engine.policy.p)
           /\ R.role.name \in DOMAIN engine.policy.rt
           /\ engine.policy.rt[R.role.name].prefix = R.role.prefix
           /\ R.roleBinding.name \in DOMAIN engine.policy.rt
           /\ engine.policy.rt[R.roleBinding.name].prefix = R.roleBinding.prefix
<1>1. Loadable(engine.policy) /\ engine.rbac = engine.policy.p.rbac
  BY DEF Reading
<1>2. engine.rbac = R
  BY <1>1 DEF Common
<1>3. /\ Usable(engine.policy.p) /\ Accepted(engine.policy.p)
      /\ engine.policy = NewPolicy(engine.policy.p)
  BY <1>1, LoadableAccepted
<1>4. PICK d : d = engine.policy.p
  OBVIOUS
<1>5. d.rbac = R /\ R.on /\ Accepted(d) /\ engine.policy = NewPolicy(d)
  BY <1>1, <1>2, <1>3, <1>4
<1>6. /\ R.role.name \in DOMAIN NewPolicy(d).rt
      /\ NewPolicy(d).rt[R.role.name].prefix = R.role.prefix
      /\ R.roleBinding.name \in DOMAIN NewPolicy(d).rt
      /\ NewPolicy(d).rt[R.roleBinding.name].prefix = R.roleBinding.prefix
  BY <1>5, RolePrefixes
<1> QED
  BY <1>1, <1>2, <1>3, <1>4, <1>5, <1>6

LEMMA RoleOrBindingObject ==
    ASSUME SteadyFiles, NEW R, Common(R), Reading, engine.on, engine.rbac.on, NEW id,
           NEW n, \/ n = R.role.name /\ id[1] = R.role.prefix
                  \/ n = R.roleBinding.name /\ id[1] = R.roleBinding.prefix
    PROVE  /\ Identified(Object(n, id)) /\ KnownPrefix(id)
           /\ NewResourceFromID(id) = Object(n, id)
<1>1. n \in DOMAIN engine.policy.rt /\ engine.policy.rt[n].prefix = id[1] /\ Loadable(engine.policy)
  BY ServerRBAC
<1>2. Object(n, id).type = n /\ Object(n, id).id = id
  BY DEF Object
<1>3. Identified(Object(n, id))
  BY <1>1, <1>2 DEF Identified
<1>4. KnownPrefix(id) /\ NewResourceFromID(id) = Object(n, id)
  BY <1>1, <1>2, <1>3, IdentifiedAgain
<1> QED
  BY <1>3, <1>4

(* ... and the prefix of what it calls a role                              *)
LEMMA RoleHasPrefix ==
    ASSUME SteadyFiles, NEW R, Common(R), Reading, engine.on, engine.rbac.on, NEW id,
           Identified(Object(R.role.name, id))
    PROVE  id[1] = R.role.prefix
<1>1. Object(R.role.name, id).type = R.role.name /\ Object(R.role.name, id).id = id
  BY DEF Object
<1>2. id[1] = engine.policy.rt[R.role.name].prefix
  BY <1>1, ServerRBAC, IdentifiedAgain
<1> QED
  BY <1>2, ServerRBAC

(* A role that is bindable is one of RBAC's roles.                         *)
LEMMA BindableIsRole ==
    ASSUME SteadyFiles, NEW R, Common(R), Kept(R), NEW x, NEW s, NEW row \in roles,
           Bindable(x, row.id, s)
    PROVE  row.id[1] = R.role.prefix
<1> DEFINE role == Object(engine.rbac.role.name, row.id)
<1>1. /\ engine.on /\ engine.rbac.on
      /\ <<NewResourceFromID(x), AvailableRolesList, role>> \in Holds(schema, relationships, {role})
  BY DEF Bindable, isRoleBindable, KnownPrefix
<1>2. PICK t \in relationships : t.subrel = <<>> /\ t.sub \in {role, All(role.type)}
  BY <1>1, HoldsSource
<1>3. Reading /\ Kind(R, t, roles, roleBindings) /\ row.id # Wildcard
  BY DEF Kept, Served
<1>4. engine.rbac = R /\ Usable(engine.policy.p) /\ engine.policy.p.rbac = R
  BY <1>1, <1>3, ServerRBAC
<1>5. role.type = R.role.name /\ role.id = row.id /\ role = Object(R.role.name, row.id)
  BY <1>4 DEF Object
<1>6. R.role.name \notin Elements(R.subjectTypes)
  BY <1>4 DEF Usable
<1>7. \A y : All(y).type = y /\ All(y).id = Wildcard
  BY DEF All, Object
<1> HIDE DEF role
<1>8. t.sub.type = R.role.name
  BY <1>2, <1>5, <1>7
<1>9. ~ \E r \in roles : Shows(R, t, r)
  <2>1. SUFFICES ASSUME NEW r \in roles, Shows(R, t, r) PROVE FALSE
    OBVIOUS
  <2>2. PICK a \in r.actions, y \in Elements(R.subjectTypes) :
           t = Tuple(RoleObject(R, r), ActionRelation(a), All(y))
    BY <2>1 DEF Shows
  <2>3. t.sub = All(y)
    BY <2>2 DEF Tuple
  <2> QED
    BY <1>6, <1>7, <1>8, <2>3
<1>10. t.sub.id # Wildcard /\ Identified(t.sub)
  BY <1>3, <1>9 DEF Kind
<1>11. Identified(role)
  BY <1>2, <1>7, <1>10
<1> QED
  BY <1>1, <1>3, <1>5, <1>11, RoleHasPrefix

(* The relationships that requests write.                                  *)
LEMMA EventAnnounced ==
    ASSUME Reading, NEW e \in Events, Relatable(e)
    PROVE  /\ Announced(RelationshipOf(e)) /\ RelationshipOf(e).sub.id # Wildcard
           /\ Identified(RelationshipOf(e).obj) /\ Identified(RelationshipOf(e).sub)
<1> DEFINE t == RelationshipOf(e)
<1>1. KnownPrefix(e.resource) /\ KnownPrefix(e.subject) /\ engine.on
  BY DEF Relatable, KnownPrefix
<1>2. /\ t.obj = NewResourceFromID(e.resource) /\ t.rel = e.relation
      /\ t.sub = NewResourceFromID(e.subject)
      /\ t = Tuple(t.obj, t.rel, t.sub)
  BY DEF RelationshipOf, Tuple
<1> HIDE DEF t
<1>3. /\ Identified(t.obj) /\ t.obj.id = e.resource
      /\ Identified(t.sub) /\ t.sub.id = e.subject
  BY <1>1, <1>2, NewResources
<1>4. t.sub.id # Wildcard
  BY <1>3, IdsAssumption
<1>5. OwnEvents => Foreign(e.resource) /\ Foreign(e.subject)
  <2>1. SUFFICES ASSUME OwnEvents, NEW pol, Loadable(pol), pol.p.rbac.on
                 PROVE  /\ e.resource[1] \notin {pol.p.rbac.role.prefix,
                                                  pol.p.rbac.roleBinding.prefix}
                        /\ e.subject[1] \notin {pol.p.rbac.role.prefix,
                                                 pol.p.rbac.roleBinding.prefix}
    BY DEF Foreign
  <2>2. PICK fs \in SUBSET DOMAIN Files : pol = NewPolicy(Document(fs))
    BY <2>1 DEF Loadable, MadeOf
  <2>3. pol.p = Document(fs)
    BY <2>2 DEF NewPolicy
  <2>4. {e.resource[1], e.subject[1]}
           \cap {Document(fs).rbac.role.prefix, Document(fs).rbac.roleBinding.prefix} = {}
    BY <2>1, <2>3, Zenon DEF OwnEvents
  <2> QED
    BY <2>3, <2>4
<1>6. Announced(t)
  BY <1>2, <1>3, <1>5 DEF Announced
<1> QED
  BY <1>3, <1>4, <1>6 DEF t

LEMMA EventKind ==
    ASSUME SteadyFiles, NEW R, Common(R), Reading, NEW e \in Events, Relatable(e),
           NEW rs, NEW bs
    PROVE  Kind(R, RelationshipOf(e), rs, bs) /\ RelationshipOf(e).sub.id # Wildcard
BY EventAnnounced DEF Kind

LEMMA RoleV2Kinds ==
    ASSUME SteadyFiles, NEW R, Common(R), Reading, engine.on, engine.rbac.on,
           NEW owner \in Ids, KnownPrefix(owner),
           NEW r, r.id[1] = R.role.prefix, r.resource = owner, r.id # Wildcard,
           NEW t \in roleV2Relationships(NewResourceFromID(r.id), r.actions)
                     \cup roleV2OwnerRelationship(NewResourceFromID(r.id),
                                                  NewResourceFromID(owner)),
           NEW rs, r \in rs, NEW bs
    PROVE  Kind(R, t, rs, bs)
<1> DEFINE role == NewResourceFromID(r.id)
           own  == NewResourceFromID(owner)
<1>1. role = RoleObject(R, r) /\ Identified(RoleObject(R, r))
  BY RoleOrBindingObject DEF RoleObject
<1>2. Identified(own) /\ own.id = owner /\ own.id # Wildcard
  BY NewResources, IdsAssumption
<1>3. Elements(engine.rbac.subjectTypes) = Elements(R.subjectTypes)
  BY ServerRBAC
<1>4. RoleObject(R, r).id = r.id
  BY DEF RoleObject, Object
<1>5. CASE t \in roleV2Relationships(role, r.actions)
  <2>1. PICK a \in r.actions, s \in Elements(R.subjectTypes) :
           t = Tuple(role, ActionRelation(a), All(s))
    BY <1>3, <1>5 DEF roleV2Relationships
  <2>2. Shows(R, t, r)
    BY <1>1, <2>1 DEF Shows
  <2> QED
    BY <2>2 DEF Kind
<1>6. CASE t = Tuple(role, RoleOwnerRelation, own)
  <2>1. t.obj = role /\ t.sub = own
    BY <1>6 DEF Tuple
  <2>2. Owns(R, t, r)
    BY <1>1, <1>6, <2>1 DEF Owns
  <2> HIDE DEF role, own
  <2> QED
    BY <1>1, <1>2, <2>1, <2>2 DEF Kind
<1>7. CASE t = Tuple(own, RoleOwnerMemberRoleRelation, role)
  <2>1. t.obj = own /\ t.sub = role
    BY <1>7 DEF Tuple
  <2>2. Owns(R, t, r)
    BY <1>1, <1>2, <1>7, <2>1 DEF Owns
  <2> HIDE DEF role, own
  <2> QED
    BY <1>1, <1>2, <1>4, <2>1, <2>2 DEF Kind
<1> QED
  BY <1>5, <1>6, <1>7 DEF roleV2OwnerRelationship

LEMMA RoleV1Object ==
    ASSUME SteadyFiles, Reading, NEW id, id[1] = RolePrefix, KnownPrefix(id)
    PROVE  NewResourceFromID(id) = Object(RoleTypeV1, id) /\ Identified(NewResourceFromID(id))
<1> DEFINE role == NewResourceFromID(id)
<1>1. /\ Identified(role) /\ role.type \in DOMAIN engine.policy.rt
      /\ engine.policy.rt[role.type].prefix = RolePrefix
  BY NewResources
<1>2. role.type = RoleTypeV1
  <2>1. CarefulUse(engine.policy)
    BY LoadableAgree DEF Reading, KnownPrefix
  <2> QED
    BY <1>1, <2>1 DEF CarefulUse
<1> QED
  BY <1>1, <1>2 DEF NewResourceFromID, Object

LEMMA RoleV1Kinds ==
    ASSUME SteadyFiles, NEW R, Common(R), Reading, engine.on,
           NEW x \in Ids, KnownPrefix(x),
           NEW r, r.id[1] = RolePrefix, r.resource = x, r.id # Wildcard, KnownPrefix(r.id),
           NEW t \in roleRelationships(NewResourceFromID(r.id), NewResourceFromID(x), r.actions),
           NEW rs, r \in rs, NEW bs
    PROVE  Kind(R, t, rs, bs) /\ t.sub.id # Wildcard
<1> DEFINE role == NewResourceFromID(r.id)
           X    == NewResourceFromID(x)
<1>1. Identified(X) /\ X.id = x
  BY NewResources
<1>2. /\ Identified(role) /\ role.id = r.id /\ role = Object(RoleTypeV1, r.id)
  BY NewResources, RoleV1Object
<1>3. PICK a \in r.actions : t = TupleTo(X, ActionRelation(a), role, RolebindingSubjectRelation)
  BY DEF roleRelationships
<1>4. t.obj = X /\ t.sub = role
  BY <1>3 DEF TupleTo
<1>5. GivesV1(t, r)
  BY <1>1, <1>2, <1>3, <1>4 DEF GivesV1
<1> HIDE DEF role, X
<1> QED
  BY <1>1, <1>2, <1>4, <1>5 DEF Kind

LEMMA BindingKinds ==
    ASSUME SteadyFiles, NEW R, Common(R), Reading, engine.on, engine.rbac.on,
           NEW x \in Ids, KnownPrefix(x), NEW s \in Subjects, KnownPrefix(s),
           NEW b, b.id[1] = R.roleBinding.prefix, b.id # Wildcard,
           b.resource = x, b.subject = s, b.role[1] = R.role.prefix, b.role # Wildcard,
           NEW t \in rolebindingRelationships(Object(R.roleBinding.name, b.id),
                         NewResourceFromID(x), b.role, NewResourceFromID(s)),
           NEW rs, NEW bs, b \in bs
    PROVE  Kind(R, t, rs, bs) /\ t.sub.id # Wildcard
<1> DEFINE rb   == BindingObject(R, b)
           X    == NewResourceFromID(x)
           S    == NewResourceFromID(s)
           role == Object(R.role.name, b.role)
<1>1. Identified(rb) /\ Identified(role)
  BY RoleOrBindingObject DEF BindingObject
<1>2. Identified(X) /\ X.id = x /\ Identified(S) /\ S.id = s /\ S.id # Wildcard
  BY NewResources, IdsAssumption
<1>3. rb.id = b.id /\ role.id = b.role
  BY DEF BindingObject, Object
<1>4. engine.rbac = R
  BY ServerRBAC
<1>5. \/ t = Tuple(rb, RolebindingRoleRelation, role)
      \/ t = Tuple(X, GrantRelationship, rb)
      \/ t = TupleTo(rb, RolebindingSubjectRelation, S, ByName(R.subjects)[S.type].subrel)
  BY <1>4 DEF rolebindingRelationships, rolebindingSubjectRelationship, BindingObject
<1> HIDE DEF rb, X, S, role
<1>6. CASE t = Tuple(rb, RolebindingRoleRelation, role)
  <2>1. t.obj = rb /\ t.sub = role
    BY <1>6 DEF Tuple
  <2>2. Binds(R, t, b)
    BY <1>6 DEF Binds, rb, role
  <2> QED
    BY <1>1, <1>3, <2>1, <2>2 DEF Kind
<1>7. CASE t = Tuple(X, GrantRelationship, rb)
  <2>1. t.obj = X /\ t.sub = rb
    BY <1>7 DEF Tuple
  <2>2. Binds(R, t, b)
    BY <1>2, <1>7, <2>1 DEF Binds, rb
  <2> QED
    BY <1>1, <1>2, <1>3, <2>1, <2>2 DEF Kind
<1>8. CASE t = TupleTo(rb, RolebindingSubjectRelation, S, ByName(R.subjects)[S.type].subrel)
  <2>1. t.obj = rb /\ t.sub = S
    BY <1>8 DEF TupleTo
  <2>2. Binds(R, t, b)
    BY <1>2, <1>8, <2>1 DEF Binds, rb
  <2> QED
    BY <1>1, <1>2, <2>1, <2>2 DEF Kind
<1> QED
  BY <1>5, <1>6, <1>7, <1>8

LEMMA CreateRoleV2Kept ==
    ASSUME SteadyFiles, NEW R, Common(R), Kept(R), Served',
           NEW x \in Ids, NEW n \in RoleNumbers, NEW as \in ActionChoices, CreateRoleV2(x, n, as)
    PROVE  Kept(R)'
<1> DEFINE r  == [id |-> <<engine.rbac.role.prefix, n>>, resource |-> x, actions |-> as]
           ts == roleV2Relationships(NewResourceFromID(r.id), as)
                 \cup roleV2OwnerRelationship(NewResourceFromID(r.id), NewResourceFromID(x))
<1>1. /\ KnownPrefix(x) /\ engine.on /\ engine.rbac.on
      /\ r.id \notin {q.id : q \in roles}
      /\ Write(ts) /\ roles' = roles \cup {r} /\ UNCHANGED <<engine, roleBindings>>
  BY Zenon DEF CreateRoleV2, KnownPrefix
<1>2. /\ r.id = <<engine.rbac.role.prefix, n>> /\ r.resource = x /\ r.actions = as
      /\ r.id # Wildcard /\ r.id[1] = engine.rbac.role.prefix
  BY PairsAreNotWildcard
<1>3. Reading /\ engine.rbac = R
  BY <1>1, ServerRBAC DEF Kept
<1>4. relationships' = relationships \cup ts
  BY <1>1 DEF Write
<1> HIDE DEF r
<1>5. \A t \in ts : Kind(R, t, roles', roleBindings')
  BY <1>1, <1>2, <1>3, RoleV2Kinds
<1>6. RowShown(R, r, relationships')
  <2>1. ASSUME NEW a \in r.actions, NEW s \in Elements(R.subjectTypes)
        PROVE  Tuple(RoleObject(R, r), ActionRelation(a), All(s)) \in ts
    <3>1. NewResourceFromID(r.id) = RoleObject(R, r)
      BY <1>1, <1>2, <1>3, RoleOrBindingObject DEF RoleObject
    <3>2. a \in as /\ s \in Elements(engine.rbac.subjectTypes)
      BY <1>2, <1>3, <2>1
    <3>3. \A role, t : t \in roleV2Relationships(role, as) <=>
             \E b \in as, y \in Elements(engine.rbac.subjectTypes) :
                 t = Tuple(role, ActionRelation(b), All(y))
      BY DEF roleV2Relationships
    <3>4. Tuple(RoleObject(R, r), ActionRelation(a), All(s))
             \in roleV2Relationships(RoleObject(R, r), as)
      BY <3>2, <3>3
    <3> QED
      BY <3>1, <3>4
  <2> HIDE DEF ts
  <2> QED
    BY <1>2, <1>3, <1>4, <2>1 DEF RowShown
<1> HIDE DEF ts
<1>7. /\ roles' = roles \cup {r} /\ roleBindings' = roleBindings \cup {}
      /\ \A t \in relationships' : t \in relationships \/ Kind(R, t, roles', roleBindings')
      /\ \A t \in relationships : t.sub.id = Wildcard => t \in relationships'
  BY <1>1, <1>4, <1>5
<1>8. \A q \in roles \cup {r} : r.id = q.id => r = q
  BY <1>1
<1> QED
  BY <1>1, <1>6, <1>7, <1>8, RequestKept

LEMMA CreateRoleKept ==
    ASSUME SteadyFiles, NEW R, Common(R), Kept(R), Served',
           NEW x \in Ids, NEW n \in RoleV1Numbers, NEW as \in ActionChoices, CreateRole(x, n, as)
    PROVE  Kept(R)'
<1> DEFINE r  == [id |-> <<RolePrefix, n>>, resource |-> x, actions |-> as]
           ts == roleRelationships(NewResourceFromID(r.id), NewResourceFromID(x), as)
<1>1. /\ KnownPrefix(x) /\ KnownPrefix(r.id) /\ engine.on
      /\ r.id \notin {q.id : q \in roles}
      /\ Write(ts) /\ roles' = roles \cup {r} /\ UNCHANGED <<engine, roleBindings>>
  BY Zenon DEF CreateRole, KnownPrefix
<1>2. /\ r.id = <<RolePrefix, n>> /\ r.resource = x /\ r.actions = as
      /\ r.id # Wildcard /\ r.id[1] = RolePrefix
  BY PairsAreNotWildcard
<1>3. Reading
  BY DEF Kept
<1>4. relationships' = relationships \cup ts
  BY <1>1 DEF Write
<1> HIDE DEF r
<1>5. \A t \in ts : Kind(R, t, roles', roleBindings')
  BY <1>1, <1>2, <1>3, RoleV1Kinds
<1>6. RowShown(R, r, relationships')
  BY <1>2 DEF RowShown
<1> HIDE DEF ts
<1>7. /\ roles' = roles \cup {r} /\ roleBindings' = roleBindings \cup {}
      /\ \A t \in relationships' : t \in relationships \/ Kind(R, t, roles', roleBindings')
      /\ \A t \in relationships : t.sub.id = Wildcard => t \in relationships'
  BY <1>1, <1>4, <1>5
<1>8. \A q \in roles \cup {r} : r.id = q.id => r = q
  BY <1>1
<1> QED
  BY <1>1, <1>6, <1>7, <1>8, RequestKept

LEMMA CreateRoleBindingKept ==
    ASSUME SteadyFiles, NEW R, Common(R), Kept(R), Served',
           NEW x \in Ids, NEW s \in Subjects, NEW n \in RoleBindingNumbers, NEW row \in roles,
           CreateRoleBinding(x, n, row.id, s)
    PROVE  Kept(R)'
<1> DEFINE b  == [id |-> RoleBindingID(n).id, resource |-> x, role |-> row.id, subject |-> s]
           ts == rolebindingRelationships(RoleBindingID(n), NewResourceFromID(x), row.id,
                                          NewResourceFromID(s))
<1>1. /\ Bindable(x, row.id, s) /\ RoleBindingID(n).id \notin {c.id : c \in roleBindings}
      /\ Write(ts) /\ roleBindings' = roleBindings \cup {b} /\ UNCHANGED <<engine, roles>>
  BY Zenon DEF CreateRoleBinding
<1>2. KnownPrefix(x) /\ KnownPrefix(s) /\ engine.on /\ engine.rbac.on
  BY <1>1 DEF Bindable, KnownPrefix
<1>3. /\ b.id = RoleBindingID(n).id /\ b.resource = x /\ b.role = row.id /\ b.subject = s
  OBVIOUS
<1>4. Reading /\ engine.rbac = R /\ row.id # Wildcard
  BY <1>2, ServerRBAC DEF Kept, Served
<1>5. relationships' = relationships \cup ts
  BY <1>1 DEF Write
<1> HIDE DEF b
<1>6. b.id = <<R.roleBinding.prefix, n>> /\ RoleBindingID(n) = Object(R.roleBinding.name, b.id)
  BY <1>3, <1>4 DEF RoleBindingID, Object
<1>7. b.id # Wildcard /\ b.id[1] = R.roleBinding.prefix
  BY <1>6, PairsAreNotWildcard
<1>8. row.id[1] = R.role.prefix
  BY <1>1, BindableIsRole
<1>9. \A t \in ts : Kind(R, t, roles', roleBindings')
  <2>1. ts = rolebindingRelationships(Object(R.roleBinding.name, b.id), NewResourceFromID(x),
                                      b.role, NewResourceFromID(s))
    BY <1>3, <1>6
  <2>2. b \in roleBindings'
    BY <1>1
  <2> HIDE DEF ts
  <2> QED
    BY <1>2, <1>3, <1>4, <1>7, <1>8, <2>1, <2>2, BindingKinds
<1> HIDE DEF ts
<1>10. /\ roles' = roles \cup {} /\ roleBindings' = roleBindings \cup {b}
       /\ \A t \in relationships' : t \in relationships \/ Kind(R, t, roles', roleBindings')
       /\ \A t \in relationships : t.sub.id = Wildcard => t \in relationships'
  BY <1>1, <1>5, <1>9
<1>11. \A c \in roleBindings \cup {b} : b.id = c.id => b = c
  BY <1>1, <1>3
<1> QED
  BY <1>1, <1>10, <1>11, RequestKept

LEMMA EventKept ==
    ASSUME SteadyFiles, NEW R, Common(R), Kept(R), Served',
           NEW e \in Events, CreateRelationships(e) \/ DeleteRelationships(e)
    PROVE  Kept(R)'
<1>1. /\ Relatable(e) /\ UNCHANGED <<engine, roles, roleBindings>>
      /\ \/ relationships' = relationships \cup {RelationshipOf(e)}
         \/ relationships' = relationships \ {RelationshipOf(e)}
  BY DEF CreateRelationships, DeleteRelationships, Write
<1>2. /\ Kind(R, RelationshipOf(e), roles', roleBindings')
      /\ RelationshipOf(e).sub.id # Wildcard
  BY <1>1, EventKind DEF Kept
<1>3. /\ \A t \in relationships' : t \in relationships \/ Kind(R, t, roles', roleBindings')
      /\ \A t \in relationships : t.sub.id = Wildcard => t \in relationships'
  BY <1>1, <1>2
<1> QED
  BY <1>1, <1>3, NoRowKept

LEMMA AssignKept ==
    ASSUME SteadyFiles, NEW R, Common(R), Kept(R), Served',
           NEW r \in roles, NEW s \in Subjects, AssignSubjectRole(r.id, s)
    PROVE  Kept(R)'
<1> DEFINE S == NewResourceFromID(s)
           t == Tuple(Object(RoleTypeV1, r.id), RolebindingSubjectRelation, S)
<1>1. /\ KnownPrefix(s) /\ Write({t}) /\ UNCHANGED <<engine, roles, roleBindings>>
  BY Zenon DEF AssignSubjectRole
<1>2. Identified(S) /\ S.id = s /\ S.id # Wildcard
  BY <1>1, NewResources, IdsAssumption DEF Kept
<1>3. t.sub = S /\ t.obj.type = RoleTypeV1
  BY DEF Tuple, Object
<1>4. Assigns(t, r)
  BY <1>3 DEF Assigns
<1>5. relationships' = relationships \cup {t}
  BY <1>1 DEF Write
<1> HIDE DEF t, S
<1>6. Kind(R, t, roles', roleBindings')
  BY <1>1, <1>2, <1>3, <1>4 DEF Kind
<1>7. /\ \A u \in relationships' : u \in relationships \/ Kind(R, u, roles', roleBindings')
      /\ \A u \in relationships : u.sub.id = Wildcard => u \in relationships'
  BY <1>5, <1>6
<1> QED
  BY <1>1, <1>7, NoRowKept

LEMMA NextKept ==
    ASSUME SteadyFiles, NEW R, Common(R), Kept(R), [Next]_vars
    PROVE  Kept(R)'
<1>0. Served'
  BY NextServed DEF Kept
<1>1. ASSUME NEW i \in DOMAIN Files, AddFile(i) PROVE Kept(R)'
  <2>1. UNCHANGED <<engine, relationships, roles, roleBindings>>
    BY <1>1 DEF AddFile
  <2> QED
    BY <1>0, <2>1 DEF Kept, Reading
<1>2. ASSUME WriteSchema PROVE Kept(R)'
  <2>1. UNCHANGED <<engine, relationships, roles, roleBindings>>
    BY <1>2 DEF WriteSchema
  <2> QED
    BY <1>0, <2>1 DEF Kept, Reading
<1>3. ASSUME StartServer PROVE Kept(R)'
  <2>1. PICK m \in SchemaPrefixMaps(Schema(policy)) :
           engine' = [on |-> TRUE, policy |-> policy, schema |-> Schema(policy),
                      schemaPrefixMap |-> m, rbac |-> policy.p.rbac]
    BY <1>3 DEF StartServer, LoadedPolicy
  <2>2. Validate(policy) /\ UNCHANGED <<relationships, roles, roleBindings>>
    BY <1>3 DEF StartServer, LoadedPolicy
  <2>3. Loadable(policy)
    BY <2>2 DEF Kept, Served, Typed, Loadable
  <2>4. SchemaIs(Schema(policy), policy)
    BY DEF SchemaIs, Schema
  <2>5. TellsTypes(m, policy)
    BY MapsTellTypes
  <2>6. Reading'
    BY <2>1, <2>3, <2>4, <2>5 DEF Reading
  <2> QED
    BY <1>0, <2>2, <2>6 DEF Kept
<1>4. ASSUME Next, ~ \E i \in DOMAIN Files : AddFile(i), ~WriteSchema, ~StartServer
      PROVE  Kept(R)'
  BY <1>0, <1>4, EventKept, CreateRoleV2Kept, CreateRoleBindingKept, CreateRoleKept, AssignKept
     DEF Next
<1>5. CASE UNCHANGED vars
  BY <1>0, <1>5 DEF vars, Kept, Reading
<1> QED
  BY <1>1, <1>2, <1>3, <1>4, <1>5

LEMMA KeptAlways ==
    ASSUME SteadyFiles, NEW R, Common(R)
    PROVE  Spec => []Kept(R)
<1>1. Init => Kept(R)
  BY InitKept
<1>2. Kept(R) /\ [Next]_vars => Kept(R)'
  BY NextKept
<1> QED
  BY <1>1, <1>2, PTL DEF Spec

-----------------------------------------------------------------------------
(* Listings.                                                               *)

LEMMA AppliedLoadable == Served => Loadable(applied) /\ SchemaIs(schema, applied)
BY DEF Served, Typed, Loadable

(* the subject of a relationship that SpiceDB has is of one of its types   *)
LEMMA SubjectsTyped ==
    ASSUME SteadyFiles, Served, NEW t \in relationships
    PROVE  /\ t.obj.type \in DOMAIN applied.rt /\ t.sub.type \in DOMAIN applied.rt
           /\ \E r \in SchemaRelations(applied, t.obj.type) :
                 \E target \in r.targets : target.name = t.sub.type
<1>1. /\ Loadable(applied) /\ SchemaIs(schema, applied) /\ Admits(schema, t)
  BY AppliedLoadable DEF Served
<1>2. PICK d : d = applied.p
  OBVIOUS
<1>3. Accepted(d) /\ applied = NewPolicy(d)
  BY <1>1, <1>2, LoadableAccepted
<1>4. /\ t.obj.type \in DOMAIN applied.rt
      /\ \E r \in SchemaRelations(applied, t.obj.type) :
            \E target \in r.targets : Allows(target, t.sub, t.subrel)
  BY <1>1 DEF Admits, SchemaIs
<1>5. PICK r \in SchemaRelations(applied, t.obj.type) :
         \E target \in r.targets : Allows(target, t.sub, t.subrel)
  BY <1>4
<1>6. PICK target \in r.targets : target.name = t.sub.type
  BY <1>5 DEF Allows
<1>7. target.name \in DOMAIN applied.rt
  BY <1>3, <1>4, TargetsNamed
<1>8. t.sub.type \in DOMAIN applied.rt
  BY <1>6, <1>7
<1> QED
  BY <1>4, <1>6, <1>8

LEMMA KeptListed ==
    ASSUME SteadyFiles, NEW R, Common(R), Kept(R), engine.on, engine.policy = applied,
           NEW t \in relationships, t.sub.id # Wildcard, t.sub.type # RoleTypeV1,
           t.obj = NewResourceFromID(t.obj.id)
    PROVE  Tuple(t.obj, t.rel, t.sub) \in ListRelationshipsFrom(t.obj)
                                          \cap ListRelationshipsTo(t.sub)
<1>1. ~ \E r \in roles : Shows(R, t, r)
  <2>1. \A o, a, s : Tuple(o, a, All(s)).sub.id = Wildcard
    BY DEF Tuple, All, Object
  <2> QED
    BY <2>1 DEF Shows
<1>2. Identified(t.sub)
  BY <1>1 DEF Kept, Kind
<1>3. Served /\ Reading
  BY DEF Kept
<1>4. NewResourceFromID(t.sub.id) = t.sub
  BY <1>2, <1>3, SubjectsTyped, IdentifiedAgain
<1>5. \A ts : t \in ts => Tuple(t.obj, t.rel, t.sub) \in relationshipsToNonRoles(ts)
  <2>1. ASSUME NEW ts, t \in ts
        PROVE  Tuple(t.obj, t.rel, t.sub) \in relationshipsToNonRoles(ts)
    <3>1. \A u \in ts : u.sub.type # RoleTypeV1 /\ u.sub.id # Wildcard =>
             Tuple(NewResourceFromID(u.obj.id), u.rel, NewResourceFromID(u.sub.id))
                \in relationshipsToNonRoles(ts)
      BY DEF relationshipsToNonRoles
    <3> QED
      BY <1>4, <2>1, <3>1
  <2> QED
    BY <2>1
<1>6. t.obj.type \in schemaSubjectTypes(t.sub.type)
  <2>1. SchemaIs(engine.schema, engine.policy)
    BY <1>3 DEF Reading
  <2>2. t.obj.type \in DOMAIN engine.schema
    BY <1>3, <2>1, SubjectsTyped DEF SchemaIs
  <2>3. \E rel \in engine.schema[t.obj.type].relations :
           \E target \in rel.targets : target.name = t.sub.type
    BY <1>3, <2>1, SubjectsTyped DEF SchemaIs
  <2> QED
    BY <2>2, <2>3 DEF schemaSubjectTypes
<1>7. t \in {u \in relationships : u.obj = t.obj}
  OBVIOUS
<1>8. t \in {u \in relationships : u.obj.type \in schemaSubjectTypes(t.sub.type) /\ u.sub = t.sub}
  BY <1>6
<1> QED
  BY <1>5, <1>7, <1>8 DEF ListRelationshipsFrom, ListRelationshipsTo

(* A relationship that is not a role's is in the list from its resource    *)
(* and in the list to its subject, for all files whose types keep their    *)
(* prefixes.                                                               *)
THEOREM ListedBothWays ==
    ASSUME SteadyFiles
    PROVE  Spec => []RelationshipsListed
<1>1. PICK R : Common(R)
  BY CommonExists
<1>2. Kept(R) => RelationshipsListed
  BY <1>1, KeptListed DEF RelationshipsListed
<1>3. Spec => []Kept(R)
  BY <1>1, KeptAlways
<1> QED
  BY <1>2, <1>3, PTL

(* The name of an action is read back from its relation.                   *)
LEMMA ReadBack ==
    ASSUME NEW a, IsName(a), \A i \in DOMAIN a : a[i] # "_rel"
    PROVE  relationToAction(ActionRelation(a)) = a
<1> DEFINE Words == {a[i] : i \in DOMAIN a}
           r     == ActionRelation(a)
<1>1. a \in Seq(Words)
  BY Zenon DEF IsName
<1> HIDE DEF Words
<1>2. /\ Len(r) = Len(a) + 1 /\ DOMAIN r = 1..(Len(a) + 1) /\ Len(a) \in Nat
      /\ r[Len(a) + 1] = "_rel" /\ \A i \in 1..Len(a) : r[i] = a[i]
  BY <1>1 DEF ActionRelation
<1>3. DOMAIN a = 1..Len(a)
  BY <1>1
<1>4. SubSeq(r, 1, Len(a)) = a
  BY <1>1 DEF ActionRelation
<1> HIDE DEF r
<1>5. /\ Len(a) + 1 \in DOMAIN r /\ r[Len(a) + 1] = "_rel"
      /\ \A j \in 1..((Len(a) + 1) - 1) : r[j] # "_rel"
  BY <1>2, <1>3
<1>6. \A i \in DOMAIN r : r[i] = "_rel" => i = Len(a) + 1
  BY <1>2, <1>3
<1>7. (CHOOSE i \in DOMAIN r : r[i] = "_rel" /\ \A j \in 1..(i - 1) : r[j] # "_rel") = Len(a) + 1
  BY <1>5, <1>6
<1>8. (Len(a) + 1) - 1 = Len(a)
  BY <1>2
<1> QED
  BY <1>4, <1>7, <1>8 DEF relationToAction, r

(* The type of roles: it has the relation of each action, and no other     *)
(* relation is named like an action's.                                     *)
LEMMA RoleTypeIs ==
    ASSUME NEW p, Accepted(p), p.rbac.on
    PROVE  /\ p.rbac.role.name \in DOMAIN BaseTypes(p)
           /\ \E more \in SUBSET {MemberRole(p)} :
                 BaseTypes(p)[p.rbac.role.name].rels = createV2RoleResourceType(p).rels \cup more
<1> DEFINE m  == p.rbac.role.name
           n  == p.rbac.roleBinding.name
           t  == createV2RoleResourceType(p)
           rt == Put(Put(DeclaredTypes(p), m, t), n, createRoleBindingResourceType(p))
<1>1. BaseTypes(p) = [k \in DOMAIN rt |-> IF k \in Elements(p.rbac.owners)
          THEN [rt[k] EXCEPT !.rels = @ \cup {MemberRole(p)}] ELSE rt[k]]
  BY DEF BaseTypes, TypesWithRoles, MemberRole
<1>2. m # n
  BY AcceptedParts DEF CarefulRBAC
<1>3. m \in DOMAIN rt /\ rt[m] = t
  BY <1>2 DEF Put
<1>4. t = [prefix |-> t.prefix, v2 |-> t.v2, rels |-> t.rels]
  BY DEF createV2RoleResourceType, Generated
<1> HIDE DEF rt, t
<1>5. [t EXCEPT !.rels = @ \cup {MemberRole(p)}].rels = t.rels \cup {MemberRole(p)}
  BY <1>4
<1>6. BaseTypes(p)[m].rels \in {t.rels, t.rels \cup {MemberRole(p)}}
  BY <1>1, <1>3, <1>5
<1>7. t.rels = t.rels \cup {}
  OBVIOUS
<1>8. m \in DOMAIN BaseTypes(p)
  BY <1>1, <1>3
<1> QED
  BY <1>6, <1>7, <1>8 DEF t

LEMMA RoleRelationsThere ==
    ASSUME NEW p, Accepted(p), p.rbac.on, NEW a \in ActionNames(p)
    PROVE  \E r \in SchemaRelations(NewPolicy(p), p.rbac.role.name) :
              r.relation = ActionRelation(a)
<1> DEFINE m == p.rbac.role.name
           Rels == {Relationship(RoleOwnerRelation,
                                 [i \in DOMAIN p.rbac.owners |-> Target(p.rbac.owners[i])])}
                   \cup {Relationship(ActionRelation(b), Everyones(p)) : b \in ActionNames(p)}
<1>1. createV2RoleResourceType(p).rels = {At(0, q) : q \in Rels}
  BY Zenon DEF createV2RoleResourceType, Generated, Everyones
<1>2. Relationship(ActionRelation(a), Everyones(p)) \in Rels
  OBVIOUS
<1> HIDE DEF Rels
<1>3. RoleAction(p, a) \in createV2RoleResourceType(p).rels
  BY <1>1, <1>2 DEF RoleAction
<1>4. m \in DOMAIN BaseTypes(p) /\ RoleAction(p, a) \in BaseTypes(p)[m].rels
  BY <1>3, RoleTypeIs
<1>5. Expanded(ByName(p.unions), RoleAction(p, a)) \in NewPolicy(p).rt[m].rels
  BY <1>4, AcceptedParts, PolicyTypes DEF ExpandedRelations
<1>6. Expanded(ByName(p.unions), RoleAction(p, a)).relation = ActionRelation(a)
  BY DEF Expanded, RoleAction, At, Relationship
<1> QED
  BY <1>5, <1>6, SchemaRelationsOf

LEMMA RoleRelationsNamed ==
    ASSUME NEW p, Accepted(p), p.rbac.on,
           NEW r \in SchemaRelations(NewPolicy(p), p.rbac.role.name)
    PROVE  \/ r.relation \in ReservedRelations
           \/ \E a \in ActionNames(p) : r.relation = ActionRelation(a)
<1> DEFINE n == p.rbac.role.name
<1>1. CASE \E b \in NewPolicy(p).bn : BoundRelation(b, r)
  BY <1>1, BoundActions, BoundRelationIs
<1>2. CASE r \in NewPolicy(p).rt[n].rels
  <2>1. n \in DOMAIN BaseTypes(p)
    BY RoleTypeIs
  <2>2. PICK q \in BaseTypes(p)[n].rels : r = Expanded(ByName(p.unions), q)
    BY <1>2, <2>1, AcceptedParts, PolicyTypes DEF ExpandedRelations
  <2>3. q.relation = r.relation
    BY <2>2 DEF Expanded
  <2>4. q \in createV2RoleResourceType(p).rels \/ q = MemberRole(p)
    BY RoleTypeIs
  <2>5. CASE q = MemberRole(p)
    BY <2>3, <2>5 DEF MemberRole, At, Relationship, ReservedRelations
  <2>6. CASE q \in createV2RoleResourceType(p).rels
    <3>1. IsRoleType(p, n, createV2RoleResourceType(p))
      BY DEF IsRoleType
    <3>2. q = RoleOwner(p) \/ \E a \in ActionNames(p) : q = RoleAction(p, a)
      BY <2>6, <3>1, RoleTypeRelations
    <3>3. /\ RoleOwner(p).relation = RoleOwnerRelation
          /\ \A a : RoleAction(p, a).relation = ActionRelation(a)
      BY DEF RoleOwner, RoleAction, At, Relationship
    <3> QED
      BY <2>3, <3>2, <3>3 DEF ReservedRelations
  <2> QED
    BY <2>4, <2>5, <2>6
<1> QED
  BY <1>1, <1>2, SchemaRelationsOf

(* A policy with RBAC has subjects that wildcards of roles stand for.      *)
LEMMA SubjectTypesThere ==
    ASSUME NEW p, Usable(p)
    PROVE  Elements(p.rbac.subjectTypes) # {}
<1>1. /\ Accepted(p) /\ p.rbac.on /\ Elements(p.rbac.subjectTypes) \cap DOMAIN ByName(p.unions) = {}
      /\ p.rbac.role.name \in DOMAIN NewPolicy(p).rt
  BY RolePrefixes DEF Usable
<1>2. AvailableRolesList \in ActionNames(p)
  BY <1>1 DEF ActionNames
<1>3. PICK r \in SchemaRelations(NewPolicy(p), p.rbac.role.name) :
         r.relation = ActionRelation(AvailableRolesList)
  BY <1>1, <1>2, RoleRelationsThere
<1>4. PICK t : t \in r.targets
  BY <1>1, TargetsPresent
<1> QED
  BY <1>1, <1>2, <1>3, <1>4, RoleActionTargets

(* What a server wrote for a role shows the role's actions, under every    *)
(* policy that SpiceDB's schema has been made of since.                    *)
LEMMA KeptShown ==
    ASSUME SteadyFiles, NEW R, Common(R), Kept(R), applied.p.rbac.on,
           NEW r \in roles, r.id[1] = R.role.prefix
    PROVE  {relationToAction(t.rel) : t \in {u \in relationships :
               u.obj = RoleObject(R, r) /\ u.sub.id = Wildcard}} = r.actions
<1> DEFINE p    == applied.p
           Told == {u \in relationships : u.obj = RoleObject(R, r) /\ u.sub.id = Wildcard}
<1>1. /\ Served /\ Rows /\ Once(roles) /\ \A t \in relationships : Kind(R, t, roles, roleBindings)
      /\ RowShown(R, r, relationships)
  BY DEF Kept, Served, Typed
<1>2. Loadable(applied) /\ SchemaIs(schema, applied)
  BY <1>1, AppliedLoadable
<1>3. CarefulUse(applied) /\ p.rbac = R
  BY <1>2, LoadableAgree DEF Common
<1>4. Accepted(p) /\ Usable(p) /\ applied = NewPolicy(p) /\ IsDocument(p)
  BY <1>2, LoadableAccepted DEF Accepted
<1>5. R.role.name \in DOMAIN applied.rt /\ applied.rt[R.role.name].prefix = R.role.prefix
  BY <1>3, <1>4, RolePrefixes
<1>6. R.role.prefix # RolePrefix
  BY <1>3, <1>5 DEF CarefulUse
<1>7. applied.ac = ActionNames(p)
  BY <1>4, PolicyTypes
<1>8. ASSUME NEW a \in r.actions, NEW t \in relationships, t.obj = RoleObject(R, r),
             t.rel = ActionRelation(a)
      PROVE  relationToAction(t.rel) = a
  <2>1. IsName(a)
    BY <1>1, IdsAssumption DEF Rows
  <2>2. PICK rel \in SchemaRelations(applied, R.role.name) : rel.relation = ActionRelation(a)
    <3>1. Admits(schema, t) /\ t.obj.type = R.role.name
      BY <1>1, <1>8 DEF Served, RoleObject, Object
    <3>2. schema[R.role.name].relations = SchemaRelations(applied, R.role.name)
      BY <1>2, <1>5 DEF SchemaIs
    <3> QED
      BY <1>8, <3>1, <3>2 DEF Admits
  <2>3. PICK b \in ActionNames(p) : rel.relation = ActionRelation(b)
    BY <2>1, <2>2, <1>3, <1>4, RoleRelationsNamed, ActionRelations
  <2>4. IsName(b)
    BY <1>4, ActionNamesAreNames
  <2>5. a = b
    BY <2>1, <2>2, <2>3, <2>4, ActionRelations
  <2>6. \A i \in DOMAIN a : a[i] # "_rel"
    BY <2>5, <1>3, <1>7 DEF CarefulUse
  <2> QED
    BY <1>8, <2>1, <2>6, ReadBack
<1>9. ASSUME NEW t \in Told
      PROVE  relationToAction(t.rel) \in r.actions
  <2>1. t \in relationships /\ t.obj = RoleObject(R, r) /\ t.sub.id = Wildcard
    OBVIOUS
  <2>2. PICK q \in roles : Shows(R, t, q)
    BY <1>1, <2>1 DEF Kind
  <2>3. PICK a \in q.actions, s \in Elements(R.subjectTypes) :
           t = Tuple(RoleObject(R, q), ActionRelation(a), All(s))
    BY <2>2 DEF Shows
  <2>4. t.obj = RoleObject(R, q) /\ t.rel = ActionRelation(a)
    BY <2>3 DEF Tuple
  <2>5. q.id = r.id
    BY <2>1, <2>4 DEF RoleObject, Object
  <2>6. q = r
    BY <2>5, <1>1 DEF Once
  <2> QED
    BY <2>1, <2>4, <2>6, <1>8
<1>10. ASSUME NEW a \in r.actions
       PROVE  \E t \in Told : relationToAction(t.rel) = a
  <2>1. PICK s : s \in Elements(R.subjectTypes)
    BY <1>3, <1>4, SubjectTypesThere
  <2> DEFINE t == Tuple(RoleObject(R, r), ActionRelation(a), All(s))
  <2>2. t \in relationships
    BY <1>1, <1>6, <2>1 DEF RowShown
  <2>3. t.obj = RoleObject(R, r) /\ t.rel = ActionRelation(a) /\ t.sub.id = Wildcard
    BY DEF Tuple, All, Object
  <2>4. t \in Told
    BY <2>2, <2>3
  <2> QED
    BY <1>8, <2>2, <2>3, <2>4
<1> QED
  BY <1>9, <1>10

(* A role's actions read back from its relationships are those asked for,  *)
(* whatever files were added and whatever schema was written since.        *)
THEOREM RolesShown ==
    ASSUME SteadyFiles
    PROVE  Spec => []RolesShowTheirActions
<1>1. PICK R : Common(R)
  BY CommonExists
<1>2. Kept(R) => RolesShowTheirActions
  <2> SUFFICES ASSUME Kept(R), applied.p.rbac.on, NEW r \in roles,
                      r.id[1] = applied.p.rbac.role.prefix
               PROVE  {relationToAction(t.rel) : t \in {u \in relationships :
                           /\ u.obj = Object(applied.p.rbac.role.name, r.id)
                           /\ u.sub.id = Wildcard}} = r.actions
    BY DEF RolesShowTheirActions
  <2>1. applied.p.rbac = R
    BY <1>1, AppliedLoadable DEF Kept, Common
  <2> QED
    BY <2>1, <1>1, KeptShown DEF RoleObject
<1> QED
  BY <1>1, <1>2, KeptAlways, PTL

-----------------------------------------------------------------------------
(* Which request wrote a relationship, by its relation.                    *)

LEMMA ActionRelationIsNoGrant ==
    ASSUME NEW a, IsName(a)
    PROVE  ActionRelation(a) # GrantRelationship
<1> DEFINE Words == {a[i] : i \in DOMAIN a}
<1>1. a \in Seq(Words)
  BY Zenon DEF IsName
<1> HIDE DEF Words
<1>2. /\ Len(ActionRelation(a)) = Len(a) + 1 /\ Len(a) \in Nat
      /\ ActionRelation(a)[Len(a) + 1] = "_rel"
  BY <1>1 DEF ActionRelation
<1>3. Len(GrantRelationship) = 1 /\ GrantRelationship[1] = "grant"
  BY DEF GrantRelationship
<1>4. SUFFICES ASSUME ActionRelation(a) = GrantRelationship PROVE FALSE
  OBVIOUS
<1>5. Len(a) + 1 = 1
  BY <1>2, <1>3, <1>4
<1> QED
  BY <1>2, <1>3, <1>4, <1>5

LEMMA RelationsDiffer ==
    /\ RoleOwnerMemberRoleRelation \notin {RoleOwnerRelation, RolebindingRoleRelation,
                                           RolebindingSubjectRelation, GrantRelationship}
    /\ RolebindingRoleRelation \notin {RoleOwnerRelation, RolebindingSubjectRelation,
                                       GrantRelationship}
    /\ RolebindingSubjectRelation \notin {RoleOwnerRelation, GrantRelationship}
    /\ RoleOwnerRelation # GrantRelationship
BY DEF RoleOwnerMemberRoleRelation, RoleOwnerRelation, RolebindingRoleRelation,
       RolebindingSubjectRelation, GrantRelationship

(* what is known where requests were served and SpiceDB's schema has RBAC  *)
LEMMA AppliedRBAC ==
    ASSUME SteadyFiles, NEW R, Common(R), Served, applied.p.rbac.on
    PROVE  /\ Loadable(applied) /\ SchemaIs(schema, applied) /\ CarefulUse(applied)
           /\ applied.p.rbac = R /\ applied = NewPolicy(applied.p)
           /\ Accepted(applied.p) /\ Usable(applied.p)
           /\ Fits(applied.p, schema, relationships)
           /\ R.role.name \in DOMAIN applied.rt /\ R.roleBinding.name \in DOMAIN applied.rt
           /\ applied.rt[R.role.name].prefix = R.role.prefix
           /\ applied.rt[R.roleBinding.name].prefix = R.roleBinding.prefix
           /\ RoleTypeV1 \notin {R.role.name, R.roleBinding.name}
<1> DEFINE p == applied.p
<1>1. Loadable(applied) /\ SchemaIs(schema, applied)
  BY AppliedLoadable
<1>2. CarefulUse(applied) /\ p.rbac = R
  BY <1>1, LoadableAgree DEF Common
<1>3. Accepted(p) /\ Usable(p) /\ applied = NewPolicy(p)
  BY <1>1, LoadableAccepted
<1>4. Fits(p, schema, relationships)
  BY <1>1, <1>3 DEF Fits, Served
<1>5. /\ R.role.name \in DOMAIN applied.rt /\ R.roleBinding.name \in DOMAIN applied.rt
      /\ applied.rt[R.role.name].prefix = R.role.prefix
      /\ applied.rt[R.roleBinding.name].prefix = R.roleBinding.prefix
  BY <1>2, <1>3, RolePrefixes
<1>6. RoleTypeV1 \notin {R.role.name, R.roleBinding.name}
  BY <1>2 DEF CarefulUse
<1> QED
  BY <1>1, <1>2, <1>3, <1>4, <1>5, <1>6

(* the prefix of an object's identifier is that of its type                *)
LEMMA IdentifiedPrefix ==
    ASSUME SteadyFiles, Served, NEW o, Identified(o), o.type \in DOMAIN applied.rt
    PROVE  applied.rt[o.type].prefix = o.id[1] /\ o = Object(o.type, o.id)
BY AppliedLoadable, LoadableAgree DEF Identified

(* Owners' relationships are not of roles and role bindings.               *)
LEMMA NotForeign ==
    ASSUME SteadyFiles, NEW R, Common(R), Served, applied.p.rbac.on, NEW o, Identified(o),
           o.type \in {R.role.name, R.roleBinding.name}
    PROVE  ~Foreign(o.id)
<1>1. /\ Loadable(applied) /\ applied.p.rbac = R /\ o.type \in DOMAIN applied.rt
      /\ applied.rt[o.type].prefix \in {R.role.prefix, R.roleBinding.prefix}
  BY AppliedRBAC
<1>2. o.id[1] \in {R.role.prefix, R.roleBinding.prefix}
  BY <1>1, IdentifiedPrefix
<1> QED
  BY <1>1, <1>2 DEF Foreign

(* A relationship that is not of an action's relation.                     *)
LEMMA WrittenBy ==
    ASSUME NEW R, Kept(R), NEW t \in relationships,
           t.rel \in ReservedRelations \cup {GrantRelationship}
    PROVE  /\ t.sub.id # Wildcard /\ Identified(t.sub)
           /\ t.obj.type = RoleTypeV1 \/ Identified(t.obj)
           /\ \/ Announced(t)
              \/ \E r \in roles : Owns(R, t, r) \/ Assigns(t, r)
              \/ \E b \in roleBindings : Binds(R, t, b)
<1>1. Kind(R, t, roles, roleBindings)
  BY DEF Kept
<1>2. \A r \in roles : \A a \in r.actions : t.rel # ActionRelation(a)
  <2>1. \A r \in roles : \A a \in r.actions : IsName(a)
    BY IdsAssumption DEF Kept, Served, Typed, Rows
  <2> QED
    BY <2>1, ActionRelations, ActionRelationIsNoGrant
<1>3. \A o, a, s, via : Tuple(o, a, s).rel = a /\ TupleTo(o, a, s, via).rel = a
  BY DEF Tuple, TupleTo
<1>4. \A r \in roles : ~Shows(R, t, r) /\ ~GivesV1(t, r)
  BY <1>2, <1>3 DEF Shows, GivesV1
<1> QED
  BY <1>1, <1>4 DEF Kind

LEMMA TupleParts ==
    \A o, a, s, via :
        /\ Tuple(o, a, s).obj = o /\ Tuple(o, a, s).rel = a /\ Tuple(o, a, s).sub = s
        /\ Tuple(o, a, s).subrel = NoName
        /\ TupleTo(o, a, s, via).obj = o /\ TupleTo(o, a, s, via).rel = a
        /\ TupleTo(o, a, s, via).sub = s /\ TupleTo(o, a, s, via).subrel = via
BY DEF Tuple, TupleTo, NoName

(* the role that a resource owns                                           *)
LEMMA OwnedRole ==
    ASSUME SteadyFiles, OwnEvents, NEW R, Common(R), Kept(R), applied.p.rbac.on,
           NEW t \in relationships, t.rel = RoleOwnerMemberRoleRelation, t.sub.type = R.role.name
    PROVE  \E q \in roles : /\ q.id[1] = R.role.prefix /\ t.obj.id = q.resource
                            /\ t.sub = RoleObject(R, q)
<1>1. t.rel \in ReservedRelations /\ Served
  BY DEF ReservedRelations, Kept
<1>2. ~Announced(t)
  BY <1>1, WrittenBy, NotForeign DEF Announced
<1>3. \A r : ~Assigns(t, r)
  BY RelationsDiffer, TupleParts DEF Assigns
<1>4. \A b : ~Binds(R, t, b)
  BY RelationsDiffer, TupleParts DEF Binds
<1>5. PICK q \in roles : Owns(R, t, q)
  BY <1>1, <1>2, <1>3, <1>4, WrittenBy
<1> QED
  BY <1>5, RelationsDiffer, TupleParts DEF Owns

-----------------------------------------------------------------------------
(* What a resource inherits from.                                          *)

(* the least set that has x and is closed under the relationships          *)
Reachable(x, up) ==
    {y \in {x} \cup {t.sub : t \in up} : \A C \in SUBSET ({x} \cup {t.sub : t \in up}) :
        x \in C /\ (\A t \in up : t.obj \in C => t.sub \in C) => y \in C}

LEMMA ReachesItself ==
    ASSUME NEW x, NEW up
    PROVE  x \in Reachable(x, up)
BY DEF Reachable

LEMMA ReachesOn ==
    ASSUME NEW up, NEW t \in up, NEW y \in Reachable(t.sub, up)
    PROVE  y \in Reachable(t.obj, up)
<1> DEFINE x    == t.obj
           subs == {u.sub : u \in up}
<1>1. t.sub \in subs /\ {t.sub} \cup subs = subs
  OBVIOUS
<1>2. /\ y \in subs
      /\ \A C \in SUBSET subs :
            t.sub \in C /\ (\A u \in up : u.obj \in C => u.sub \in C) => y \in C
  BY <1>1 DEF Reachable
<1>3. \A u \in up : u.sub \in subs
  OBVIOUS
<1> HIDE DEF subs
<1>4. ASSUME NEW C \in SUBSET ({x} \cup subs), x \in C, \A u \in up : u.obj \in C => u.sub \in C
      PROVE  y \in C
  <2> DEFINE D == C \cap subs
  <2>1. D \in SUBSET subs /\ t.sub \in D
    BY <1>1, <1>4
  <2>2. \A u \in up : u.obj \in D => u.sub \in D
    BY <1>3, <1>4
  <2>3. y \in D
    BY <1>2, <2>1, <2>2
  <2> QED
    BY <2>3
<1>5. y \in {x} \cup subs
  BY <1>2
<1> QED
  BY <1>4, <1>5 DEF Reachable, subs

(* the relationships of some relations of each type                        *)
LEMMA AboveReachable ==
    ASSUME NEW x, NEW Along(_)
    PROVE  Above(x, Along) = Reachable(x, {t \in relationships : t.rel \in Along(t.obj.type)})
BY DEF Above, Reachable

(* The types that the documents declare are declared as they say; the two  *)
(* that role bindings need inherit from nowhere.                           *)
LEMMA InheritanceDeclared ==
    ASSUME NEW p, Accepted(p), p.rbac.on, NEW n \in DOMAIN NewPolicy(p).rt
    PROVE  /\ NewPolicy(p).rt[n].v2 = DeclaredV2(p, n) /\ TypesWithRoles(p)[n].v2 = DeclaredV2(p, n)
           /\ DOMAIN NewPolicy(p).rt
                 = DOMAIN DeclaredTypes(p) \cup {p.rbac.role.name, p.rbac.roleBinding.name}
           /\ n \in DOMAIN DeclaredTypes(p) =>
                 NewPolicy(p).rt[n].prefix = DeclaredTypes(p)[n].prefix
           /\ p.rbac.role.name \notin DOMAIN DeclaredTypes(p)
           /\ p.rbac.roleBinding.name \notin DOMAIN DeclaredTypes(p)
<1> DEFINE m  == p.rbac.role.name
           k  == p.rbac.roleBinding.name
           D  == DeclaredTypes(p)
           rt == Put(Put(D, m, createV2RoleResourceType(p)), k, createRoleBindingResourceType(p))
<1>1. m # k /\ m \notin DOMAIN D /\ k \notin DOMAIN D
  BY AcceptedParts DEF CarefulRBAC
<1>2. /\ BaseTypes(p) = TypesWithRoles(p)
      /\ BaseTypes(p) = [j \in DOMAIN rt |-> IF j \in Elements(p.rbac.owners)
             THEN [rt[j] EXCEPT !.rels = @ \cup {MemberRole(p)}] ELSE rt[j]]
  BY DEF BaseTypes, TypesWithRoles, MemberRole
<1>3. /\ createV2RoleResourceType(p).v2 = NoRoleBindingV2
      /\ createRoleBindingResourceType(p).v2 = NoRoleBindingV2
  BY DEF createV2RoleResourceType, createRoleBindingResourceType, Generated
<1>4. /\ DOMAIN rt = DOMAIN D \cup {m, k}
      /\ \A j \in DOMAIN rt :
            rt[j] = IF j = k THEN createRoleBindingResourceType(p)
                    ELSE IF j = m THEN createV2RoleResourceType(p) ELSE D[j]
  BY DEF Put
<1> HIDE DEF D, rt
<1>5. \A t, more : /\ [t EXCEPT !.rels = more].v2 = t.v2
                   /\ [t EXCEPT !.rels = more].prefix = t.prefix
  OBVIOUS
<1>6. DOMAIN NewPolicy(p).rt = DOMAIN rt /\ NewPolicy(p).rt[n].v2 = BaseTypes(p)[n].v2
  <2>1. DOMAIN NewPolicy(p).rt = DOMAIN BaseTypes(p)
    BY AcceptedParts, PolicyTypes
  <2>2. NewPolicy(p).rt[n].v2 = BaseTypes(p)[n].v2
    BY <2>1, AcceptedParts, PolicyTypes
  <2>3. DOMAIN BaseTypes(p) = DOMAIN rt
    BY <1>2
  <2> QED
    BY <2>1, <2>2, <2>3
<1>7. BaseTypes(p)[n].v2 = rt[n].v2 /\ BaseTypes(p)[n].prefix = rt[n].prefix
  BY <1>2, <1>5, <1>6
<1>8. rt[n].v2 = DeclaredV2(p, n)
  BY <1>1, <1>3, <1>4, <1>6 DEF DeclaredV2, D
<1>9. n \in DOMAIN DeclaredTypes(p) => NewPolicy(p).rt[n].prefix = DeclaredTypes(p)[n].prefix
  <2>1. NewPolicy(p).rt[n].prefix = BaseTypes(p)[n].prefix
    BY AcceptedParts, PolicyPrefixes
  <2>2. n \in DOMAIN D => rt[n] = D[n]
    BY <1>1, <1>4
  <2> QED
    BY <1>7, <2>1, <2>2 DEF D
<1> QED
  BY <1>1, <1>2, <1>4, <1>6, <1>7, <1>8, <1>9 DEF D

-----------------------------------------------------------------------------
(* The roles that are available on a resource.                             *)

(* the arrows of the permission that lists them                            *)
LEMMA AvailableArrows ==
    ASSUME NEW p, Accepted(p), p.rbac.on, NEW b \in AvailableRolesBindings(p),
           b.type \in DOMAIN NewPolicy(p).rt, NEW t, NEW a
    PROVE  \A w \in UNION {ConditionArrows(t, a, c) : c \in b.conds} :
              \/ w = Arrow(RoleOwnerMemberRoleRelation, NoName)
              \/ \E f \in DeclaredV2(p, b.type).from : w = Arrow(f, AvailableRolesList)
<1> DEFINE n == b.type
           rt == TypesWithRoles(p)
<1>1. b.conds = AvailableRoles(p, n, rt[n])
  <2>1. PICK m \in DOMAIN rt :
           b = ActionBinding(AvailableRolesList, m, AvailableRoles(p, m, rt[m]), {}, <<>>)
    BY DEF AvailableRolesBindings
  <2>2. b.type = m /\ b.conds = AvailableRoles(p, m, rt[m])
    BY <2>1 DEF ActionBinding
  <2> QED
    BY <2>2
<1>2. rt[n].v2.from = DeclaredV2(p, n).from
  BY InheritanceDeclared
<1>3. ASSUME NEW c \in b.conds, NEW w \in ConditionArrows(t, a, c)
      PROVE  \/ w = Arrow(RoleOwnerMemberRoleRelation, NoName)
             \/ \E f \in DeclaredV2(p, n).from : w = Arrow(f, AvailableRolesList)
  <2>1. \/ c = ConditionRelationshipAction(RoleOwnerMemberRoleRelation, NoName)
        \/ \E f \in DeclaredV2(p, n).from : c = ConditionRelationshipAction(f, AvailableRolesList)
    BY <1>1, <1>2 DEF AvailableRoles
  <2>2. \A r, z : ConditionArrows(t, a, ConditionRelationshipAction(r, z)) = {Arrow(r, z)}
    BY DEF ConditionArrows, ConditionRelationshipAction, Condition
  <2> QED
    BY <1>3, <2>1, <2>2
<1> QED
  BY <1>3

(* A step to a role among those available on a resource goes over the      *)
(* resource's relation to its own roles, or over one that it inherits      *)
(* along.                                                                  *)
LEMMA AvailableStep ==
    ASSUME NEW p, NEW sch, NEW tuples, Fits(p, sch, tuples), NEW Subs, NEW x, NEW s,
           s.type = p.rbac.role.name,
           <<x, AvailableRolesList, s>> \in Holds(sch, tuples, Subs),
           NEW known, StepTo(sch, tuples, Subs, known, x, AvailableRolesList, s)
    PROVE  \/ <<x, RoleOwnerMemberRoleRelation, s>> \in known
           \/ \E t \in tuples : /\ t.obj = x /\ t.rel \in DeclaredV2(p, x.type).from
                                /\ <<t.sub, AvailableRolesList, s>> \in known
<1> DEFINE pol == NewPolicy(p)
           n   == x.type
<1>1. /\ Usable(p) /\ Accepted(p) /\ p.rbac.on /\ SchemaIs(sch, pol)
      /\ \A i \in DOMAIN p.bindings : p.bindings[i].action # AvailableRolesList
  BY DEF Fits, Usable
<1>2. n \in DOMAIN pol.rt /\ pol.rt[n].v2.on /\ sch[n].actions = SchemaActions(pol, n)
  BY <1>1, AvailableMeansV2 DEF SchemaIs
<1>3. AvailableRolesList \in ActionNames(p)
  BY <1>1 DEF ActionNames
<1>4. ~InRelation(known, tuples, x, AvailableRolesList, s)
  <2>1. SUFFICES ASSUME NEW t \in tuples, t.obj = x, t.rel = AvailableRolesList PROVE FALSE
    BY DEF InRelation
  <2>2. \E r \in SchemaRelations(pol, n) : r.relation = AvailableRolesList
    BY <2>1, FitsAdmits
  <2> QED
    BY <1>1, <1>2, <1>3, <2>2, NoRelationIsAction
<1>5. PICK a \in SchemaActions(pol, n) :
         a.name = AvailableRolesList /\ Permits(known, tuples, x, a, s)
  BY <1>2, <1>4 DEF StepTo
<1>6. a \notin RoleBindingActionsOf(pol.rt[n])
  BY <1>5, RoleBindingActionsNamed, ReservedDiffer
<1>7. PICK b \in pol.bn : b.type = n /\ a = BoundPermission(pol, n, b)
  BY <1>6, SchemaActionsOf
<1>8. b.action = AvailableRolesList
  BY <1>5, <1>7 DEF BoundPermission, Permission
<1>9. b \in AvailableRolesBindings(p)
  <2>1. ~IsDocumentBinding(p, b)
    <3>1. SUFFICES ASSUME NEW i \in DOMAIN p.bindings, b.action = p.bindings[i].action
                   PROVE  FALSE
      BY DEF IsDocumentBinding, BindingAt, ActionBinding
    <3> QED
      BY <1>1, <1>8, <3>1
  <2>2. b \notin RoleBindingBindings(p)
    <3>1. ~BaseTypes(p)[p.rbac.roleBinding.name].v2.on /\ n \in DOMAIN BaseTypes(p)
      BY <1>1, <1>2, RoleBindingTypeOf, AcceptedParts, PolicyTypes
    <3>2. n # p.rbac.roleBinding.name
      BY <1>1, <1>2, <3>1, AcceptedParts, PolicyTypes
    <3> QED
      BY <1>7, <3>2, RoleBindingsBindings
  <2> QED
    BY <2>1, <2>2, PolicyBindings
<1>10. PICK w \in UNION {ConditionArrows(pol.rt[n], b.action, c) : c \in b.conds} :
          AlongArrow(known, tuples, x, w, s)
  <2>1. b.sets = {}
    BY <1>9, AvailableBindings
  <2>2. a.all = {}
    BY <1>7, <2>1 DEF BoundPermission, Permission
  <2>3. a.any = UNION {ConditionArrows(pol.rt[n], b.action, c) : c \in b.conds}
    BY <1>7 DEF BoundPermission, Permission
  <2>4. \E w \in a.any : AlongArrow(known, tuples, x, w, s)
    BY <1>5, <2>2 DEF Permits
  <2> QED
    BY <2>3, <2>4
<1>11. \/ w = Arrow(RoleOwnerMemberRoleRelation, NoName)
       \/ \E f \in DeclaredV2(p, n).from : w = Arrow(f, AvailableRolesList)
  BY <1>1, <1>2, <1>7, <1>9, <1>10, AvailableArrows
<1>12. CASE w = Arrow(RoleOwnerMemberRoleRelation, NoName)
  BY <1>10, <1>12 DEF AlongArrow, Arrow, NoName
<1>13. CASE \E f \in DeclaredV2(p, n).from : w = Arrow(f, AvailableRolesList)
  <2>1. PICK f \in DeclaredV2(p, n).from : w = Arrow(f, AvailableRolesList)
    BY <1>13
  <2>2. AvailableRolesList # <<>>
    BY ReservedDiffer DEF NoName
  <2> QED
    BY <1>10, <2>1, <2>2 DEF AlongArrow, Arrow
<1> QED
  BY <1>11, <1>12, <1>13

(* A name that no permission has is reached by a relationship of that name. *)
LEMMA StepByRelation ==
    ASSUME NEW p, NEW sch, NEW tuples, Fits(p, sch, tuples), NEW Subs, NEW known, NEW o, NEW s,
           NEW r, r \notin ActionNames(p) \cup RoleBindingActions,
           StepTo(sch, tuples, Subs, known, o, r, s)
    PROVE  \E t \in tuples : /\ t.obj = o /\ t.rel = r
                             /\ \/ t.subrel = NoName /\ t.sub \in {s, All(s.type)}
                                \/ t.subrel # NoName /\ <<t.sub, t.subrel, s>> \in known
<1>1. Accepted(p) /\ SchemaIs(sch, NewPolicy(p))
  BY DEF Fits, Usable
<1>2. \A a : o.type \in DOMAIN sch /\ a \in sch[o.type].actions => a.name # r
  BY <1>1, SchemaActionNames DEF SchemaIs
<1>3. InRelation(known, tuples, o, r, s)
  BY <1>2 DEF StepTo
<1> QED
  BY <1>3 DEF InRelation, NoName

(* A role among those that a resource owns is one that it owns.            *)
LEMMA OwnStep ==
    ASSUME SteadyFiles, OwnEvents, NEW R, Common(R), Kept(R), applied.p.rbac.on,
           NEW r \in roles, NEW Subs, NEW x,
           <<x, RoleOwnerMemberRoleRelation, RoleObject(R, r)>>
               \in Holds(schema, relationships, Subs)
    PROVE  r.id[1] = R.role.prefix /\ x.id = r.resource
<1> DEFINE p    == applied.p
           role == RoleObject(R, r)
<1>1. /\ Served /\ Once(roles) /\ r.id # Wildcard
      /\ role.type = R.role.name /\ role.id = r.id
  BY DEF Kept, Served, RoleObject, Object
<1>2. Fits(p, schema, relationships) /\ Accepted(p)
  BY <1>1, AppliedRBAC
<1>3. PICK known : StepTo(schema, relationships, Subs, known, x, RoleOwnerMemberRoleRelation, role)
  BY HoldsSteps
<1>4. RoleOwnerMemberRoleRelation \notin ActionNames(p) \cup RoleBindingActions
  BY <1>2, ActionsDiffer DEF ReservedRelations
<1>5. PICK t \in relationships :
         /\ t.obj = x /\ t.rel = RoleOwnerMemberRoleRelation
         /\ \/ t.subrel = NoName /\ t.sub \in {role, All(role.type)}
            \/ t.subrel # NoName /\ <<t.sub, t.subrel, role>> \in known
  <2> HIDE DEF role, p
  <2> QED
    BY <1>2, <1>3, <1>4, StepByRelation
<1>6. /\ t.sub.id # Wildcard /\ Identified(t.sub)
      /\ \/ Announced(t)
         \/ \E q \in roles : Owns(R, t, q) \/ Assigns(t, q)
         \/ \E b \in roleBindings : Binds(R, t, b)
  BY <1>5, WrittenBy DEF ReservedRelations
<1>7. t.subrel = NoName
  <2>1. \A b : ~Binds(R, t, b)
    BY <1>5, RelationsDiffer, TupleParts DEF Binds
  <2> QED
    BY <1>6, <2>1, TupleParts DEF Announced, Owns, Assigns
<1>8. t.sub = role
  BY <1>5, <1>6, <1>7 DEF All, Object
<1>9. PICK q \in roles : /\ q.id[1] = R.role.prefix /\ t.obj.id = q.resource
                         /\ t.sub = RoleObject(R, q)
  BY <1>1, <1>5, <1>8, OwnedRole
<1>10. q = r
  BY <1>1, <1>8, <1>9 DEF RoleObject, Object, Once
<1> QED
  BY <1>5, <1>9, <1>10

LEMMA KeptAvailable ==
    ASSUME SteadyFiles, OwnEvents, NEW R, Common(R), Kept(R), applied.p.rbac.on,
           NEW r \in roles, NEW Subs, NEW x,
           <<x, AvailableRolesList, RoleObject(R, r)>> \in Holds(schema, relationships, Subs)
    PROVE  /\ r.id[1] = R.role.prefix
           /\ \E y \in Above(x, LAMBDA n : DeclaredV2(applied.p, n).from) : y.id = r.resource
<1> DEFINE p    == applied.p
           role == RoleObject(R, r)
           H    == Holds(schema, relationships, Subs)
           up   == {t \in relationships : t.rel \in DeclaredV2(p, t.obj.type).from}
           Found(o) == r.id[1] = R.role.prefix /\ \E y \in Reachable(o, up) : y.id = r.resource
           G    == {h \in H : h[2] = AvailableRolesList /\ h[3] = role => Found(h[1])}
<1>1. Fits(p, schema, relationships) /\ role.type = p.rbac.role.name
  BY AppliedRBAC DEF Kept, RoleObject, Object
<1>2. ASSUME NEW known, NEW o, NEW m, NEW s, known \subseteq H, known \subseteq G,
             <<o, m, s>> \in H, StepTo(schema, relationships, Subs, known, o, m, s)
      PROVE  <<o, m, s>> \in G
  <2> HIDE DEF H, up
  <2>1. SUFFICES ASSUME m = AvailableRolesList, s = role PROVE Found(o)
    BY <1>2
  <2>2. \/ <<o, RoleOwnerMemberRoleRelation, role>> \in known
        \/ \E t \in relationships : /\ t.obj = o /\ t.rel \in DeclaredV2(p, o.type).from
                                    /\ <<t.sub, AvailableRolesList, role>> \in known
    BY <1>1, <1>2, <2>1, AvailableStep DEF H
  <2>3. CASE <<o, RoleOwnerMemberRoleRelation, role>> \in known
    <3>1. r.id[1] = R.role.prefix /\ o.id = r.resource
      BY <1>2, <2>3, OwnStep DEF H
    <3> QED
      BY <3>1, ReachesItself
  <2>4. CASE \E t \in relationships : /\ t.obj = o /\ t.rel \in DeclaredV2(p, o.type).from
                                      /\ <<t.sub, AvailableRolesList, role>> \in known
    <3>1. PICK t \in relationships : /\ t.obj = o /\ t.rel \in DeclaredV2(p, o.type).from
                                     /\ <<t.sub, AvailableRolesList, role>> \in known
      BY <2>4
    <3>2. t \in up
      BY <3>1 DEF up
    <3>3. Found(t.sub)
      <4>1. <<t.sub, AvailableRolesList, role>> \in G
        BY <1>2, <3>1
      <4> HIDE DEF Found, role
      <4> QED
        BY <4>1
    <3> QED
      BY <3>1, <3>2, <3>3, ReachesOn
  <2> QED
    BY <2>2, <2>3, <2>4
<1>3. H \subseteq G
  <2> HIDE DEF G
  <2> QED
    BY <1>2, HoldsInduction
<1>4. Found(x)
  <2>1. <<x, AvailableRolesList, role>> \in G
    BY <1>3
  <2> HIDE DEF Found, H, role
  <2> QED
    BY <2>1
<1>5. Above(x, LAMBDA n : DeclaredV2(p, n).from) = Reachable(x, up)
  BY AboveReachable
<1> QED
  BY <1>4, <1>5

(* The roles available on a resource are those that it or a resource above *)
(* it owns: whoever writes which relationships, and however long the chain *)
(* of resources, no others are.                                            *)
THEOREM AvailableOnlyFromAbove ==
    ASSUME SteadyFiles, OwnEvents
    PROVE  Spec => []AvailableOnlyAbove
<1>1. PICK R : Common(R)
  BY CommonExists
<1>2. Kept(R) => AvailableOnlyAbove
  <2> SUFFICES ASSUME Kept(R), applied.p.rbac.on PROVE AvailableOnlyAbove
    BY DEF AvailableOnlyAbove
  <2>1. applied.p.rbac = R
    BY <1>1, AppliedRBAC DEF Kept
  <2> DEFINE Subs == {Object(applied.p.rbac.role.name, r.id) : r \in roles}
  <2>2. SUFFICES ASSUME NEW x, NEW r \in roles,
                        <<x, AvailableRolesList, Object(applied.p.rbac.role.name, r.id)>>
                            \in Holds(schema, relationships, Subs)
                 PROVE  /\ r.id[1] = applied.p.rbac.role.prefix
                        /\ \E y \in Above(x, LAMBDA n : DeclaredV2(applied.p, n).from) :
                              y.id = r.resource
    BY DEF AvailableOnlyAbove
  <2>3. Object(applied.p.rbac.role.name, r.id) = RoleObject(R, r)
    BY <2>1 DEF RoleObject
  <2> HIDE DEF Subs
  <2> QED
    BY <1>1, <2>1, <2>2, <2>3, KeptAvailable
<1> QED
  BY <1>1, <1>2, KeptAlways, PTL

-----------------------------------------------------------------------------
(* Who granted an action.                                                  *)

(* what is held is reached in a step from what is held                     *)
LEMMA HeldStep ==
    ASSUME NEW sch, NEW tuples, NEW Subs, NEW o, NEW r, NEW s,
           <<o, r, s>> \in Holds(sch, tuples, Subs)
    PROVE  \E known : /\ known \subseteq Holds(sch, tuples, Subs)
                      /\ StepTo(sch, tuples, Subs, known, o, r, s)
<1> DEFINE H == Holds(sch, tuples, Subs)
           Stepped(a, b, c) == \E k : k \subseteq H /\ StepTo(sch, tuples, Subs, k, a, b, c)
           G == {h \in H : Stepped(h[1], h[2], h[3])}
<1>1. ASSUME NEW known, NEW o1, NEW r1, NEW s1, known \subseteq H, known \subseteq G,
             <<o1, r1, s1>> \in H, StepTo(sch, tuples, Subs, known, o1, r1, s1)
      PROVE  <<o1, r1, s1>> \in G
  <2>1. Stepped(o1, r1, s1)
    BY <1>1
  <2> HIDE DEF Stepped, H
  <2> QED
    BY <1>1, <2>1
<1>2. H \subseteq G
  <2> HIDE DEF G
  <2> QED
    BY <1>1, HoldsInduction
<1>3. Stepped(o, r, s)
  <2>1. <<o, r, s>> \in G
    BY <1>2
  <2> HIDE DEF Stepped, H
  <2> QED
    BY <2>1
<1> QED
  BY <1>3

(* a relationship that SpiceDB has is of the one relation of its name      *)
LEMMA AdmittedBy ==
    ASSUME NEW p, NEW sch, NEW tuples, Fits(p, sch, tuples), NEW t \in tuples,
           NEW r \in SchemaRelations(NewPolicy(p), t.obj.type), r.relation = t.rel
    PROVE  \E target \in r.targets : Allows(target, t.sub, t.subrel)
<1>1. /\ t.obj.type \in DOMAIN NewPolicy(p).rt
      /\ \E q \in SchemaRelations(NewPolicy(p), t.obj.type) :
            /\ q.relation = t.rel
            /\ \E target \in q.targets : Allows(target, t.sub, t.subrel)
  BY FitsAdmits
<1>2. Accepted(p)
  BY DEF Fits, Usable
<1> QED
  BY <1>1, <1>2, NamesOfSchemaDiffer

(* The permission of a role binding: its role has the action, and the      *)
(* subject is among its subjects.                                          *)
LEMMA RoleBindingStep ==
    ASSUME NEW p, NEW sch, NEW tuples, Fits(p, sch, tuples), NEW Subs, NEW known, NEW rb, NEW s,
           rb.type = p.rbac.roleBinding.name, NEW a \in ActionNames(p),
           StepTo(sch, tuples, Subs, known, rb, a, s)
    PROVE  /\ \E t \in tuples : /\ t.obj = rb /\ t.rel = RolebindingRoleRelation
                                /\ <<t.sub, ActionRelation(a), s>> \in known
           /\ <<rb, RolebindingSubjectRelation, s>> \in known
<1> DEFINE pol  == NewPolicy(p)
           n    == p.rbac.roleBinding.name
           one  == {ConditionRelationshipAction(RolebindingRoleRelation, ActionRelation(a))}
           two  == {ConditionRelationshipAction(RolebindingSubjectRelation, NoName)}
           mine == ActionBinding(a, n, {}, {one, two}, <<>>)
<1>1. /\ Accepted(p) /\ p.rbac.on /\ SchemaIs(sch, pol) /\ IsName(a)
      /\ n \in DOMAIN pol.rt
  BY RolePrefixes, ActionNamesAreNames DEF Fits, Usable, Accepted
<1>2. sch[n].actions = SchemaActions(pol, n)
  BY <1>1 DEF SchemaIs
<1>3. ~InRelation(known, tuples, rb, a, s)
  <2>1. SUFFICES ASSUME NEW t \in tuples, t.obj = rb, t.rel = a PROVE FALSE
    BY DEF InRelation
  <2>2. \E r \in SchemaRelations(pol, n) : r.relation = a
    BY <2>1, FitsAdmits
  <2> QED
    BY <1>1, <2>2, NoRelationIsAction
<1>4. PICK ap \in SchemaActions(pol, n) : ap.name = a /\ Permits(known, tuples, rb, ap, s)
  BY <1>2, <1>3 DEF StepTo
<1>5. ~pol.rt[n].v2.on
  <2>1. ~BaseTypes(p)[n].v2.on /\ n \in DOMAIN BaseTypes(p)
    BY <1>1, RoleBindingTypeOf
  <2> QED
    BY <1>1, <2>1, AcceptedParts, PolicyTypes
<1>6. PICK b \in pol.bn : b.type = n /\ ap = BoundPermission(pol, n, b)
  BY <1>5, SchemaActionsOf
<1>7. b.action = a
  BY <1>4, <1>6 DEF BoundPermission, Permission
<1>8. mine \in pol.bn /\ mine.action = a /\ mine.type = n
  BY <1>1 DEF NewPolicy, RoleBindingBindings, ActionBinding
<1>9. b = mine
  BY <1>6, <1>7, <1>8, AcceptedParts, <1>1 DEF ValidActionBindings
<1>10. mine.conds = {} /\ mine.sets = {one, two}
  BY DEF ActionBinding
<1> HIDE DEF mine
<1>11. /\ ap.any = {}
       /\ ap.all = {{Clause(c) : c \in one}, {Clause(c) : c \in two}}
  BY <1>6, <1>9, <1>10 DEF BoundPermission, Permission
<1>12. /\ {Clause(c) : c \in one} = {Arrow(RolebindingRoleRelation, ActionRelation(a))}
       /\ {Clause(c) : c \in two} = {Arrow(RolebindingSubjectRelation, NoName)}
  BY DEF Clause, ConditionRelationshipAction, Condition
<1>13. /\ AlongArrow(known, tuples, rb, Arrow(RolebindingRoleRelation, ActionRelation(a)), s)
       /\ AlongArrow(known, tuples, rb, Arrow(RolebindingSubjectRelation, NoName), s)
  BY <1>4, <1>11, <1>12 DEF Permits
<1>14. ActionRelation(a) # <<>>
  BY <1>1, ActionRelations DEF NoName
<1> QED
  BY <1>13, <1>14 DEF AlongArrow, Arrow, NoName

(* A role's relation of an action holds whoever the role's row lists the   *)
(* action for.                                                             *)
LEMMA RoleGives ==
    ASSUME SteadyFiles, NEW R, Common(R), Kept(R), applied.p.rbac.on,
           NEW Subs, NEW o, NEW s, o.type = R.role.name, NEW a \in ActionNames(applied.p),
           <<o, ActionRelation(a), s>> \in Holds(schema, relationships, Subs)
    PROVE  \E r \in roles : r.id = o.id /\ a \in r.actions
<1> DEFINE p   == applied.p
           rel == ActionRelation(a)
<1>1. /\ Served /\ Fits(p, schema, relationships) /\ Accepted(p) /\ Usable(p)
      /\ p.rbac = R /\ applied = NewPolicy(p) /\ IsName(a)
  BY AppliedRBAC, ActionNamesAreNames DEF Kept, Accepted
<1>2. PICK known : StepTo(schema, relationships, Subs, known, o, rel, s)
  BY HoldsSteps
<1>3. rel \notin ActionNames(p) \cup RoleBindingActions
  BY <1>1, ActionsDiffer
<1>4. PICK t \in relationships : t.obj = o /\ t.rel = rel
  <2> HIDE DEF p, rel
  <2>1. \E t \in relationships :
           /\ t.obj = o /\ t.rel = rel
           /\ \/ t.subrel = NoName /\ t.sub \in {s, All(s.type)}
              \/ t.subrel # NoName /\ <<t.sub, t.subrel, s>> \in known
    BY <1>1, <1>2, <1>3, StepByRelation
  <2> QED
    BY <2>1
<1>5. PICK r \in SchemaRelations(applied, o.type) :
         r.relation = rel /\ \E target \in r.targets : Allows(target, t.sub, t.subrel)
  BY <1>1, <1>4, FitsAdmits
<1>6. PICK target \in r.targets : Allows(target, t.sub, t.subrel)
  BY <1>5
<1>7. \E y \in Elements(R.subjectTypes) : target = Everyone(y)
  BY <1>1, <1>5, <1>6, RoleActionTargets DEF Usable
<1>8. t.sub.id = Wildcard
  BY <1>6, <1>7 DEF Allows, Everyone
<1>9. PICK q \in roles : Shows(R, t, q)
  BY <1>8 DEF Kept, Kind
<1>10. PICK b \in q.actions, y \in Elements(R.subjectTypes) :
          t = Tuple(RoleObject(R, q), ActionRelation(b), All(y))
  BY <1>9 DEF Shows
<1>11. o = RoleObject(R, q) /\ rel = ActionRelation(b)
  BY <1>4, <1>10, TupleParts
<1>12. IsName(b)
  BY IdsAssumption DEF Kept, Served, Typed, Rows
<1>13. a = b
  BY <1>1, <1>11, <1>12, ActionRelations
<1> QED
  BY <1>11, <1>13 DEF RoleObject, Object

(* The type of an identifier is found by its prefix.                       *)
LEMMA TypeFound ==
    ASSUME SteadyFiles, NEW R, Common(R), Served, applied.p.rbac.on,
           NEW o, Identified(o), o.type \in DOMAIN applied.rt
    PROVE  TypeOf(o.id) = o.type /\ Resource(o.id) = o
<1>1. applied.rt[o.type].prefix = o.id[1] /\ o = Object(o.type, o.id)
  BY IdentifiedPrefix
<1>2. \A n \in DOMAIN applied.rt : applied.rt[n].prefix = o.id[1] => n = o.type
  <2>1. CarefulUse(applied)
    BY AppliedRBAC
  <2>2. \A m, n \in DOMAIN applied.rt : applied.rt[m].prefix = applied.rt[n].prefix => m = n
    BY <2>1 DEF CarefulUse
  <2> QED
    BY <1>1, <2>2
<1>3. TypeOf(o.id) = o.type
  BY <1>1, <1>2 DEF TypeOf
<1> QED
  BY <1>1, <1>3 DEF Resource

LEMMA ResourcesDeclared ==
    ASSUME SteadyFiles, NEW R, Common(R), Served, applied.p.rbac.on, NEW x \in Resources(applied.p)
    PROVE  x.type \in DOMAIN DeclaredTypes(applied.p)
<1> DEFINE p == applied.p
           Named(id) == \E n \in DOMAIN DeclaredTypes(p) : DeclaredTypes(p)[n].prefix = id[1]
<1>a. PICK id : Named(id) /\ x = Resource(id)
  <2>1. \E id \in {i \in Ids \cup Subjects : Named(i)} : x = Resource(id)
    BY Zenon DEF Resources
  <2> HIDE DEF Named
  <2> QED
    BY <2>1
<1>1. PICK n \in DOMAIN DeclaredTypes(p) : DeclaredTypes(p)[n].prefix = id[1]
  BY <1>a
<1>2. n \in DOMAIN applied.rt /\ applied.rt[n].prefix = id[1]
  <2>1. applied = NewPolicy(p) /\ Accepted(p) /\ p.rbac.on /\ R.role.name \in DOMAIN applied.rt
    BY AppliedRBAC
  <2>2. DOMAIN DeclaredTypes(p) \subseteq DOMAIN NewPolicy(p).rt
    BY <2>1, InheritanceDeclared
  <2> QED
    BY <1>1, <2>1, <2>2, InheritanceDeclared
<1>3. \A m \in DOMAIN applied.rt : applied.rt[m].prefix = id[1] => m = n
  BY <1>2, AppliedRBAC DEF CarefulUse
<1>4. TypeOf(id) = n
  BY <1>2, <1>3 DEF TypeOf
<1> QED
  BY <1>a, <1>1, <1>4 DEF Resource, Object

(* A subject of a role binding is the one that its row names, or, for a    *)
(* group, one of its members.                                              *)
LEMMA BoundSubject ==
    ASSUME SteadyFiles, OwnEvents, NEW R, Common(R), Kept(R), applied.p.rbac.on,
           NEW Subs, NEW rb, NEW s, rb.type = R.roleBinding.name,
           <<rb, RolebindingSubjectRelation, s>> \in Holds(schema, relationships, Subs)
    PROVE  \E b \in roleBindings :
              b.id = rb.id /\ SubjectOf(applied.p, b, s, Holds(schema, relationships, Subs))
<1> DEFINE p == applied.p
           H == Holds(schema, relationships, Subs)
<1>1. /\ Served /\ Fits(p, schema, relationships) /\ Accepted(p) /\ p.rbac = R
      /\ RoleTypeV1 # R.roleBinding.name
  BY AppliedRBAC DEF Kept
<1> HIDE DEF H, p
<1>2. PICK known : /\ known \subseteq H
                   /\ StepTo(schema, relationships, Subs, known, rb, RolebindingSubjectRelation, s)
  BY HeldStep DEF H
<1>3. RolebindingSubjectRelation \notin ActionNames(p) \cup RoleBindingActions
  BY <1>1, ActionsDiffer DEF ReservedRelations
<1>4. PICK t \in relationships :
         /\ t.obj = rb /\ t.rel = RolebindingSubjectRelation
         /\ \/ t.subrel = NoName /\ t.sub \in {s, All(s.type)}
            \/ t.subrel # NoName /\ <<t.sub, t.subrel, s>> \in known
  BY <1>1, <1>2, <1>3, StepByRelation
<1>5. /\ t.sub.id # Wildcard /\ Identified(t.sub)
      /\ t.obj.type = RoleTypeV1 \/ Identified(t.obj)
      /\ \/ Announced(t)
         \/ \E r \in roles : Owns(R, t, r) \/ Assigns(t, r)
         \/ \E b \in roleBindings : Binds(R, t, b)
  BY <1>4, WrittenBy DEF ReservedRelations
<1>6. ~Announced(t)
  BY <1>1, <1>4, <1>5, NotForeign DEF Announced
<1>7. \A r : ~Owns(R, t, r) /\ ~Assigns(t, r)
  <2>1. \A r : ~Owns(R, t, r)
    BY <1>4, RelationsDiffer, TupleParts DEF Owns
  <2>2. \A r : Object(RoleTypeV1, r).type = RoleTypeV1
    BY DEF Object
  <2>3. \A r : ~Assigns(t, r)
    BY <1>1, <1>4, <2>2, TupleParts DEF Assigns
  <2> QED
    BY <2>1, <2>3
<1>8. PICK b \in roleBindings :
         /\ t.sub.id = b.subject
         /\ t = TupleTo(BindingObject(R, b), RolebindingSubjectRelation, t.sub,
                        ByName(R.subjects)[t.sub.type].subrel)
  BY <1>4, <1>5, <1>6, <1>7, RelationsDiffer, TupleParts DEF Binds
<1>9. rb = BindingObject(R, b) /\ t.subrel = ByName(R.subjects)[t.sub.type].subrel
  BY <1>4, <1>8, TupleParts
<1>10. rb.id = b.id
  BY <1>9 DEF BindingObject, Object
<1>11. TypeOf(b.subject) = t.sub.type /\ Resource(b.subject) = t.sub
  BY <1>1, <1>5, <1>8, SubjectsTyped, TypeFound DEF p
<1>12. t.subrel = NoName => t.sub = s
  BY <1>4, <1>5 DEF All, Object
<1>13. t.subrel # NoName => <<t.sub, t.subrel, s>> \in H
  BY <1>2, <1>4
<1>14. SubjectOf(p, b, s, H)
  BY <1>1, <1>8, <1>9, <1>11, <1>12, <1>13 DEF SubjectOf
<1> QED
  BY <1>10, <1>14 DEF p, H

(* ... and the role of a role binding is its row's.                        *)
LEMMA BoundRole ==
    ASSUME SteadyFiles, OwnEvents, NEW R, Common(R), Kept(R), applied.p.rbac.on,
           NEW t \in relationships, t.rel = RolebindingRoleRelation,
           t.obj.type = R.roleBinding.name
    PROVE  \E b \in roleBindings : t.obj.id = b.id /\ t.sub = Object(R.role.name, b.role)
<1>1. Served /\ RoleTypeV1 # R.roleBinding.name
  BY AppliedRBAC DEF Kept
<1>2. /\ t.obj.type = RoleTypeV1 \/ Identified(t.obj)
      /\ \/ Announced(t)
         \/ \E r \in roles : Owns(R, t, r) \/ Assigns(t, r)
         \/ \E b \in roleBindings : Binds(R, t, b)
  BY WrittenBy DEF ReservedRelations
<1>3. ~Announced(t)
  BY <1>1, <1>2, NotForeign DEF Announced
<1>4. \A r : ~Owns(R, t, r) /\ ~Assigns(t, r)
  BY RelationsDiffer, TupleParts DEF Owns, Assigns
<1>5. PICK b \in roleBindings :
         t = Tuple(BindingObject(R, b), RolebindingRoleRelation, Object(R.role.name, b.role))
  BY <1>2, <1>3, <1>4, RelationsDiffer, TupleParts DEF Binds
<1>6. BindingObject(R, b).id = b.id
  BY DEF BindingObject, Object
<1> QED
  BY <1>5, <1>6, TupleParts

(* ... and so is the resource of a grant.                                  *)
LEMMA BoundResource ==
    ASSUME SteadyFiles, OwnEvents, NEW R, Common(R), Kept(R), applied.p.rbac.on,
           NEW t \in relationships, t.rel = GrantRelationship, t.sub.type = R.roleBinding.name
    PROVE  \E b \in roleBindings : t.sub.id = b.id /\ t.obj.id = b.resource
<1>1. Served
  BY DEF Kept
<1>2. /\ Identified(t.sub)
      /\ \/ Announced(t)
         \/ \E r \in roles : Owns(R, t, r) \/ Assigns(t, r)
         \/ \E b \in roleBindings : Binds(R, t, b)
  BY WrittenBy
<1>3. ~Announced(t)
  BY <1>1, <1>2, NotForeign DEF Announced
<1>4. \A r : ~Owns(R, t, r) /\ ~Assigns(t, r)
  BY RelationsDiffer, TupleParts DEF Owns, Assigns
<1>5. PICK b \in roleBindings :
         t = Tuple(t.obj, GrantRelationship, BindingObject(R, b)) /\ t.obj.id = b.resource
  BY <1>2, <1>3, <1>4, RelationsDiffer, TupleParts DEF Binds
<1>6. BindingObject(R, b).id = b.id
  BY DEF BindingObject, Object
<1> QED
  BY <1>5, <1>6, TupleParts

(* An action that a role binding grants is one of its role's, to one of    *)
(* its subjects.                                                           *)
LEMMA BindingGives ==
    ASSUME SteadyFiles, OwnEvents, NEW R, Common(R), Kept(R), applied.p.rbac.on,
           NEW Subs, NEW rb, NEW s, rb.type = R.roleBinding.name, NEW a \in ActionNames(applied.p),
           <<rb, a, s>> \in Holds(schema, relationships, Subs)
    PROVE  \E b \in roleBindings, r \in roles :
              /\ b.id = rb.id /\ b.role = r.id /\ a \in r.actions
              /\ SubjectOf(applied.p, b, s, Holds(schema, relationships, Subs))
<1> DEFINE p == applied.p
           H == Holds(schema, relationships, Subs)
<1>1. /\ Served /\ Fits(p, schema, relationships) /\ p.rbac = R /\ Once(roleBindings)
  BY AppliedRBAC DEF Kept
<1> HIDE DEF H, p
<1>2. PICK known : known \subseteq H /\ StepTo(schema, relationships, Subs, known, rb, a, s)
  BY HeldStep DEF H
<1>3. /\ \E t \in relationships : /\ t.obj = rb /\ t.rel = RolebindingRoleRelation
                                  /\ <<t.sub, ActionRelation(a), s>> \in known
      /\ <<rb, RolebindingSubjectRelation, s>> \in known
  BY <1>1, <1>2, RoleBindingStep DEF p
<1>4. PICK t \in relationships : /\ t.obj = rb /\ t.rel = RolebindingRoleRelation
                                 /\ <<t.sub, ActionRelation(a), s>> \in known
  BY <1>3
<1>5. PICK b \in roleBindings : rb.id = b.id /\ t.sub = Object(R.role.name, b.role)
  BY <1>4, BoundRole
<1>6. t.sub.type = R.role.name /\ t.sub.id = b.role
  BY <1>5 DEF Object
<1>7. PICK r \in roles : r.id = b.role /\ a \in r.actions
  <2>1. <<t.sub, ActionRelation(a), s>> \in Holds(schema, relationships, Subs)
    BY <1>2, <1>4 DEF H
  <2> QED
    BY <1>6, <2>1, RoleGives
<1>8. PICK c \in roleBindings : c.id = rb.id /\ SubjectOf(p, c, s, H)
  <2>1. <<rb, RolebindingSubjectRelation, s>> \in Holds(schema, relationships, Subs)
    BY <1>2, <1>3 DEF H
  <2> QED
    BY <2>1, BoundSubject DEF p, H
<1>9. c = b
  BY <1>1, <1>5, <1>8 DEF Once
<1> QED
  BY <1>5, <1>7, <1>8, <1>9 DEF p, H

-----------------------------------------------------------------------------
(* Permissions.                                                            *)

(* What a binding of the documents asks for, as the documents say it.      *)
LEMMA BoundClause ==
    ASSUME NEW p, NEW b, IsDocumentBinding(p, b), NEW c \in b.conds, NEW clause \in c.clauses
    PROVE  c \in BoundWith(p, b.type, b.action, clause)
<1>a. PICK i \in DOMAIN p.bindings : \E k \in DOMAIN BoundTypes(p, i) : b = BindingAt(p, i, k)
  BY DEF IsDocumentBinding
<1>1. PICK k \in DOMAIN BoundTypes(p, i) : b = BindingAt(p, i, k)
  BY <1>a
<1> DEFINE m == BoundTypes(p, i)[k]
<1>b. m \in Members(ByName(p.unions), Target(p.bindings[i].type))
  BY DEF BoundTypes, Members, Elements
<1>2. b.action = p.bindings[i].action /\ b.type = m.name /\ b.conds = p.bindings[i].conds
  BY <1>1 DEF BindingAt, ActionBinding
<1> HIDE DEF m
<1> DEFINE On(j) == /\ p.bindings[j].action = b.action
                    /\ \E l \in Members(ByName(p.unions), Target(p.bindings[j].type)) :
                          l.name = b.type
           Fam == {p.bindings[j].conds : j \in {l \in DOMAIN p.bindings : On(l)}}
<1>3. BoundWith(p, b.type, b.action, clause) = {d \in UNION Fam : clause \in d.clauses}
  BY Zenon DEF BoundWith
<1>4. On(i)
  BY <1>b, <1>2
<1> HIDE DEF On
<1>5. b.conds \in Fam
  BY <1>2, <1>4
<1> HIDE DEF Fam
<1> QED
  BY <1>3, <1>5

(* An action of a type is bound once; the bindings that it is made from    *)
(* are those that the documents give the type.                             *)
LEMMA DeclaredBinding ==
    ASSUME NEW p, Accepted(p), p.rbac.on, NEW b \in NewPolicy(p).bn,
           b.type \in DOMAIN DeclaredTypes(p), b.action # AvailableRolesList
    PROVE  /\ IsDocumentBinding(p, b) /\ b.conds # {} /\ b.sets = {}
           /\ \A c \in b.conds : /\ CarefulCondition(NewPolicy(p), b.type, c)
                                 /\ \E clause \in ConditionClauses : c.clauses = {clause}
                                 /\ "RelationshipAction" \in c.clauses =>
                                       findRelationship(NewPolicy(p).rt[b.type], c.relation)
<1> DEFINE pol == NewPolicy(p)
<1>1. b.type \in DOMAIN pol.rt /\ ValidActionBindings(pol)
  BY BoundActions, AcceptedParts
<1>2. p.rbac.roleBinding.name \notin DOMAIN DeclaredTypes(p)
  BY <1>1, InheritanceDeclared
<1>3. IsDocumentBinding(p, b)
  BY <1>2, PolicyBindings, RoleBindingsBindings, AvailableBindings
<1>4. CarefulBinding(pol, b, b.type)
  BY <1>3, DocumentBindings
<1>5. ASSUME NEW c \in b.conds
      PROVE  /\ \E clause \in ConditionClauses : c.clauses = {clause}
             /\ "RelationshipAction" \in c.clauses => findRelationship(pol.rt[b.type], c.relation)
  <2>1. ValidConditions(pol, pol.rt[b.type], b.conds)
    BY <1>1 DEF ValidActionBindings
  <2> DEFINE t == pol.rt[b.type]
  <2> HIDE DEF t
  <2>2. /\ \E clause \in ConditionClauses : c.clauses = {clause}
        /\ "RelationshipAction" \in c.clauses => ValidConditionRelationshipAction(pol, t, c)
    BY <1>5, <2>1 DEF ValidConditions, t
  <2>3. ValidConditionRelationshipAction(pol, t, c) => findRelationship(t, c.relation)
    BY DEF ValidConditionRelationshipAction, findRelationship
  <2> QED
    BY <2>2, <2>3 DEF t
<1> QED
  BY <1>3, <1>4, <1>5 DEF CarefulBinding

(* A way to hold an action on an object of a type that the documents       *)
(* declare: from a V1 role, from a role binding, from another object that  *)
(* the documents name, or from one that grants are inherited from.         *)
GivenV1(p, known, x, a, s) ==
    GrantsV1(p, x.type, a) /\ <<x, ActionRelation(a), s>> \in known
GivenV2(p, tuples, known, x, a, s) ==
    /\ GrantsV2(p, x.type, a) /\ NewPolicy(p).rt[x.type].v2.on
    /\ \E t \in tuples : t.obj = x /\ t.rel = GrantRelationship /\ <<t.sub, a, s>> \in known
GivenBy(p, tuples, known, x, a, s) ==
    \E c \in BoundWith(p, x.type, a, "RelationshipAction") :
        /\ findRelationship(NewPolicy(p).rt[x.type], c.relation)
        /\ AlongArrow(known, tuples, x, Arrow(c.relation, c.action), s)
GivenAbove(p, tuples, known, x, a, s) ==
    \E f \in InheritedAlong(p, x.type, a) :
        /\ findRelationship(NewPolicy(p).rt[x.type], f)
        /\ \E t \in tuples : t.obj = x /\ t.rel = f /\ <<t.sub, a, s>> \in known

Given(p, tuples, known, x, a, s) ==
    \/ GivenV1(p, known, x, a, s) \/ GivenV2(p, tuples, known, x, a, s)
    \/ GivenBy(p, tuples, known, x, a, s) \/ GivenAbove(p, tuples, known, x, a, s)

(* the arrows for role bindings                                            *)
LEMMA ArrowsToBindings ==
    ASSUME NEW p, Accepted(p), p.rbac.on, NEW tuples, NEW known, NEW x, NEW a, NEW s,
           a # NoName, x.type \in DOMAIN NewPolicy(p).rt, NewPolicy(p).rt[x.type].v2.on,
           GrantsV2(p, x.type, a),
           NEW from, from \subseteq DeclaredV2(p, x.type).from,
           from = {} \/ DeclaredV2(p, x.type).all \/ a \in RoleBindingActions,
           NEW w \in CreateRoleBindingConditionsForAction(a, from),
           AlongArrow(known, tuples, x, w, s)
    PROVE  GivenV2(p, tuples, known, x, a, s) \/ GivenAbove(p, tuples, known, x, a, s)
<1> DEFINE n == x.type
<1>1. \A r : Arrow(r, a).relation = r /\ Arrow(r, a).action = a
  BY DEF Arrow
<1>2. CASE w = Arrow(GrantRelationship, a)
  BY <1>1, <1>2 DEF AlongArrow, GivenV2, NoName
<1>3. ASSUME NEW f \in from, w = Arrow(f, a)
      PROVE  GivenAbove(p, tuples, known, x, a, s)
  <2>1. f \in InheritedAlong(p, n, a)
    BY <1>3 DEF InheritedAlong
  <2>2. findRelationship(NewPolicy(p).rt[n], f)
    <3>1. f \in NewPolicy(p).rt[n].v2.from
      BY InheritanceDeclared
    <3> QED
      BY <3>1, AcceptedParts DEF CarefulTypes, Inheritable
  <2>3. \E t \in tuples : t.obj = x /\ t.rel = f /\ <<t.sub, a, s>> \in known
    BY <1>1, <1>3 DEF AlongArrow, NoName
  <2> QED
    BY <2>1, <2>2, <2>3 DEF GivenAbove
<1> QED
  BY <1>2, <1>3 DEF CreateRoleBindingConditionsForAction

(* ... and those of a condition                                            *)
LEMMA ArrowsOfCondition ==
    ASSUME NEW p, Accepted(p), p.rbac.on, NEW tuples, NEW known, NEW x, NEW s,
           NEW b \in NewPolicy(p).bn, b.type = x.type, x.type \in DOMAIN DeclaredTypes(p),
           b.action # AvailableRolesList, NEW c \in b.conds,
           NEW w \in ConditionArrows(NewPolicy(p).rt[x.type], b.action, c),
           AlongArrow(known, tuples, x, w, s)
    PROVE  Given(p, tuples, known, x, b.action, s)
<1> DEFINE pol == NewPolicy(p)
           n   == x.type
           a   == b.action
<1>1. /\ IsDocumentBinding(p, b) /\ CarefulCondition(pol, n, c)
      /\ \E clause \in ConditionClauses : c.clauses = {clause}
      /\ "RelationshipAction" \in c.clauses => findRelationship(pol.rt[n], c.relation)
  BY DeclaredBinding
<1>2. n \in DOMAIN pol.rt /\ a # NoName /\ IsName(a)
  BY BoundActions
<1>3. pol.rt[n].v2 = DeclaredV2(p, n)
  BY <1>2, InheritanceDeclared
<1>4. c \in BoundWith(p, n, a, "RoleBinding") \/ "RoleBinding" \notin c.clauses
  BY <1>1, BoundClause
<1>5. c \in BoundWith(p, n, a, "RoleBindingV2") \/ "RoleBindingV2" \notin c.clauses
  BY <1>1, BoundClause
<1>6. c \in BoundWith(p, n, a, "RelationshipAction") \/ "RelationshipAction" \notin c.clauses
  BY <1>1, BoundClause
<1> HIDE DEF pol, n, a
<1>7. CASE c.clauses = {"RoleBinding"}
  <2>1. w = Arrow(ActionRelation(a), NoName)
    BY <1>7 DEF ConditionArrows, pol, n, a
  <2>2. <<x, ActionRelation(a), s>> \in known
    BY <2>1 DEF AlongArrow, Arrow, NoName
  <2> QED
    BY <1>4, <1>7, <2>2 DEF Given, GivenV1, GrantsV1, n, a
<1>8. CASE c.clauses = {"RoleBindingV2"}
  <2>1. pol.rt[n].v2.on
    BY <1>1, <1>8 DEF CarefulCondition
  <2> DEFINE from == IF pol.rt[n].v2.all THEN pol.rt[n].v2.from ELSE {}
  <2>2. ConditionArrows(pol.rt[n], a, c) = CreateRoleBindingConditionsForAction(a, from)
    BY <1>8, <2>1 DEF ConditionArrows
  <2>3. GrantsV2(p, n, a)
    BY <1>5, <1>8 DEF GrantsV2
  <2>4. /\ from \subseteq DeclaredV2(p, n).from
        /\ from = {} \/ DeclaredV2(p, n).all
    BY <1>3
  <2> HIDE DEF from
  <2>5. GivenV2(p, tuples, known, x, a, s) \/ GivenAbove(p, tuples, known, x, a, s)
    BY <1>2, <2>1, <2>2, <2>3, <2>4, ArrowsToBindings DEF pol, n, a
  <2> QED
    BY <2>5 DEF Given, a
<1>9. CASE c.clauses = {"RelationshipAction"}
  <2>1. w = Arrow(c.relation, c.action)
    BY <1>9 DEF ConditionArrows, pol, n, a
  <2> QED
    BY <1>1, <1>6, <1>9, <2>1 DEF Given, GivenBy, pol, n, a
<1> QED
  BY <1>1, <1>7, <1>8, <1>9 DEF ConditionClauses

(* With RBAC every action has a name: role bindings ask for each of them.  *)
LEMMA ActionsNamed ==
    ASSUME NEW p, Accepted(p), p.rbac.on, NEW a \in ActionNames(p)
    PROVE  a # NoName
<1> DEFINE sets == {{ConditionRelationshipAction(RolebindingRoleRelation, ActionRelation(a))},
                    {ConditionRelationshipAction(RolebindingSubjectRelation, NoName)}}
           mine == ActionBinding(a, p.rbac.roleBinding.name, {}, sets, <<>>)
<1>1. mine \in NewPolicy(p).bn /\ mine.action = a
  BY DEF NewPolicy, RoleBindingBindings, ActionBinding
<1> QED
  BY <1>1, BoundActions

(* A step to an action of a type that the documents declare.               *)
LEMMA ActionStep ==
    ASSUME NEW p, NEW sch, NEW tuples, Fits(p, sch, tuples), NEW Subs, NEW known, NEW x, NEW s,
           x.type \in DOMAIN DeclaredTypes(p),
           NEW a \in ActionNames(p), a # AvailableRolesList,
           StepTo(sch, tuples, Subs, known, x, a, s)
    PROVE  Given(p, tuples, known, x, a, s)
<1> DEFINE pol == NewPolicy(p)
           n   == x.type
<1>1. /\ Accepted(p) /\ p.rbac.on /\ SchemaIs(sch, pol) /\ n \in DOMAIN sch
      /\ \A i \in DOMAIN p.bindings : p.bindings[i].action # AvailableRolesList
  BY DEF Fits, Usable, StepTo
<1>2. n \in DOMAIN pol.rt /\ sch[n].actions = SchemaActions(pol, n)
  BY <1>1 DEF SchemaIs
<1>3. ~InRelation(known, tuples, x, a, s)
  <2>1. SUFFICES ASSUME NEW t \in tuples, t.obj = x, t.rel = a PROVE FALSE
    BY DEF InRelation
  <2>2. \E r \in SchemaRelations(pol, n) : r.relation = a
    BY <2>1, FitsAdmits
  <2> QED
    BY <1>1, <1>2, <2>2, NoRelationIsAction
<1>4. PICK ap \in SchemaActions(pol, n) : ap.name = a /\ Permits(known, tuples, x, ap, s)
  BY <1>2, <1>3 DEF StepTo
<1>5. CASE \E b \in pol.bn : b.type = n /\ ap = BoundPermission(pol, n, b)
  <2>1. PICK b \in pol.bn : b.type = n /\ ap = BoundPermission(pol, n, b)
    BY <1>5
  <2>2. /\ b.action = a /\ ap.all = {{Clause(c) : c \in q} : q \in b.sets}
        /\ ap.any = UNION {ConditionArrows(pol.rt[n], a, c) : c \in b.conds}
    BY <1>4, <2>1 DEF BoundPermission, Permission
  <2>3. b.sets = {}
    BY <1>1, <2>1, <2>2, DeclaredBinding
  <2>4. ap.all = {}
    BY <2>2, <2>3
  <2>5. PICK w \in ap.any : AlongArrow(known, tuples, x, w, s)
    BY <1>4, <2>4 DEF Permits
  <2>6. PICK c \in b.conds : w \in ConditionArrows(pol.rt[n], a, c)
    BY <2>2, <2>5
  <2> QED
    BY <1>1, <2>1, <2>2, <2>5, <2>6, ArrowsOfCondition
<1>6. CASE UsesV2(pol, n) /\ pol.rt[n].v2.on /\ ap \in RoleBindingActionsOf(pol.rt[n])
  <2>1. /\ a \in RoleBindingActions
        /\ ap = Permission(a, CreateRoleBindingConditionsForAction(a, pol.rt[n].v2.from), {}, <<>>)
    BY <1>4, <1>6, RoleBindingActionsNamed
  <2>2. /\ ap.any = CreateRoleBindingConditionsForAction(a, pol.rt[n].v2.from) /\ ap.all = {}
    BY <2>1 DEF Permission
  <2>3. PICK w \in CreateRoleBindingConditionsForAction(a, pol.rt[n].v2.from) :
           AlongArrow(known, tuples, x, w, s)
    BY <1>4, <2>2 DEF Permits
  <2>4. PICK b \in pol.bn : b.type = n /\ \E c \in b.conds : "RoleBindingV2" \in c.clauses
    BY <1>6 DEF UsesV2, BindingsOn
  <2>5. PICK c \in b.conds : "RoleBindingV2" \in c.clauses
    BY <2>4
  <2>6. IsDocumentBinding(p, b)
    BY <2>5, RoleClauses
  <2>7. c \in BoundWith(p, n, b.action, "RoleBindingV2")
    BY <2>4, <2>5, <2>6, BoundClause
  <2>8. b.action \in p.actions
    <3>1. b.action \in ActionNames(p)
      BY <1>1, BoundActions
    <3>2. b.action \notin RoleBindingActions
      BY <1>1, <1>6, <2>4, <2>6, DocumentBindings DEF CarefulBinding
    <3>3. b.action # AvailableRolesList
      <4>1. \E i \in DOMAIN p.bindings : b.action = p.bindings[i].action
        BY <2>6 DEF IsDocumentBinding, BindingAt, ActionBinding
      <4> QED
        BY <1>1, <4>1
    <3> QED
      BY <3>1, <3>2, <3>3 DEF ActionNames
  <2>9. GrantsV2(p, n, a)
    BY <2>1, <2>7, <2>8 DEF GrantsV2
  <2>10. pol.rt[n].v2.from \subseteq DeclaredV2(p, n).from
    BY <1>1, <1>2, InheritanceDeclared
  <2>11. a # NoName
    BY <1>1, ActionsNamed
  <2> HIDE DEF pol, n
  <2>12. GivenV2(p, tuples, known, x, a, s) \/ GivenAbove(p, tuples, known, x, a, s)
    BY <1>1, <1>2, <1>6, <2>1, <2>3, <2>9, <2>10, <2>11, ArrowsToBindings DEF pol, n
  <2> QED
    BY <2>12 DEF Given
<1> QED
  BY <1>4, <1>5, <1>6, SchemaActionsOf

(* What a V1 role gives on a resource.                                     *)
LEMMA V1Gives ==
    ASSUME SteadyFiles, NEW R, Common(R), Kept(R), applied.p.rbac.on,
           NEW Subs, NEW x, NEW s, x.type \in DOMAIN DeclaredTypes(applied.p),
           NEW a \in ActionNames(applied.p),
           <<x, ActionRelation(a), s>> \in Holds(schema, relationships, Subs)
    PROVE  \E r \in roles :
              /\ r.id[1] = RolePrefix /\ r.resource = x.id /\ a \in r.actions
              /\ Tuple(Object(RoleTypeV1, r.id), RolebindingSubjectRelation, s) \in relationships
<1> DEFINE p   == applied.p
           rel == ActionRelation(a)
           H   == Holds(schema, relationships, Subs)
<1>1. /\ Served /\ Fits(p, schema, relationships) /\ Accepted(p) /\ p.rbac = R
      /\ applied = NewPolicy(p) /\ IsName(a) /\ RoleTypeV1 \notin {R.role.name, R.roleBinding.name}
      /\ R.role.name \notin DOMAIN DeclaredTypes(p)
      /\ R.roleBinding.name \notin DOMAIN DeclaredTypes(p)
      /\ x.type \in DOMAIN applied.rt
  <2>1. /\ Served /\ Fits(p, schema, relationships) /\ Accepted(p) /\ p.rbac = R
        /\ applied = NewPolicy(p) /\ RoleTypeV1 \notin {R.role.name, R.roleBinding.name}
        /\ R.role.name \in DOMAIN applied.rt
    BY AppliedRBAC DEF Kept
  <2>2. IsName(a)
    BY <2>1, ActionNamesAreNames DEF Accepted
  <2> QED
    BY <2>1, <2>2, InheritanceDeclared
<1> HIDE DEF p, H
<1>2. \A r \in roles : \A b \in r.actions : IsName(b)
  BY IdsAssumption DEF Kept, Served, Typed, Rows
<1>3. PICK known : known \subseteq H /\ StepTo(schema, relationships, Subs, known, x, rel, s)
  BY HeldStep DEF H, p
<1>4. rel \notin ActionNames(p) \cup RoleBindingActions
  BY <1>1, ActionsDiffer DEF p
<1>5. PICK t \in relationships :
         /\ t.obj = x /\ t.rel = rel
         /\ \/ t.subrel = NoName /\ t.sub \in {s, All(s.type)}
            \/ t.subrel # NoName /\ <<t.sub, t.subrel, s>> \in known
  <2> HIDE DEF rel
  <2> QED
    BY <1>1, <1>3, <1>4, StepByRelation
<1>6. t.subrel = RolebindingSubjectRelation
  <2>1. PICK r \in SchemaRelations(NewPolicy(p), x.type) :
           r.relation = rel /\ \E target \in r.targets : Allows(target, t.sub, t.subrel)
    BY <1>1, <1>5, FitsAdmits
  <2>2. r \notin NewPolicy(p).rt[x.type].rels
    <3>1. rel \notin DeclaredRelations(p) \cup ReservedRelations
      BY <1>1, ActionsDiffer, ActionRelations DEF p
    <3>2. IsDocument(p) /\ CarefulNames(p) /\ x.type \in DOMAIN NewPolicy(p).rt
      BY <1>1, AcceptedParts
    <3>3. x.type # p.rbac.role.name
      BY <1>1 DEF p
    <3> QED
      BY <2>1, <3>1, <3>2, <3>3, PolicyRelations
  <2>3. \E b \in NewPolicy(p).bn : BoundRelation(b, r)
    BY <2>1, <2>2, SchemaRelationsOf
  <2>4. r.targets = {MembersOf(RoleTypeV1, RolebindingSubjectRelation)}
    BY <1>1, <2>3, BoundRelationIs
  <2> QED
    BY <2>1, <2>4 DEF Allows, MembersOf
<1>7. RolebindingSubjectRelation # NoName /\ RolebindingSubjectRelation \in ReservedRelations
  BY ReservedDiffer DEF ReservedRelations
<1>8. rel \notin ReservedRelations \cup {GrantRelationship}
  BY <1>1, ActionRelations, ActionRelationIsNoGrant
<1>9. PICK r \in roles : GivesV1(t, r)
  <2>1. Kind(R, t, roles, roleBindings)
    BY DEF Kept
  <2>2. ~Announced(t) /\ \A r : ~Owns(R, t, r) /\ ~Assigns(t, r) /\ ~Shows(R, t, r)
    BY <1>6, <1>7, TupleParts DEF Announced, Owns, Assigns, Shows, RoleOwnerRelation
  <2>3. \A b : ~Binds(R, t, b)
    BY <1>5, <1>8, TupleParts DEF Binds, ReservedRelations
  <2> QED
    BY <2>1, <2>2, <2>3 DEF Kind
<1>10. PICK b \in r.actions : t = TupleTo(t.obj, ActionRelation(b), Object(RoleTypeV1, r.id),
                                          RolebindingSubjectRelation)
  BY <1>9 DEF GivesV1
<1>11. rel = ActionRelation(b) /\ t.sub = Object(RoleTypeV1, r.id)
  BY <1>5, <1>10, TupleParts
<1>12. a = b
  BY <1>1, <1>2, <1>11, ActionRelations
<1> DEFINE role == Object(RoleTypeV1, r.id)
<1>13. <<role, RolebindingSubjectRelation, s>> \in H
  BY <1>3, <1>5, <1>6, <1>7, <1>11
<1>14. role.type = RoleTypeV1
  BY DEF Object
<1> HIDE DEF role
<1>15. PICK k : k \subseteq H /\ StepTo(schema, relationships, Subs, k, role,
                                        RolebindingSubjectRelation, s)
  BY <1>13, HeldStep DEF H
<1>16. RolebindingSubjectRelation \notin ActionNames(p) \cup RoleBindingActions
  BY <1>1, <1>7, ActionsDiffer
<1>17. PICK u \in relationships :
          /\ u.obj = role /\ u.rel = RolebindingSubjectRelation
          /\ \/ u.subrel = NoName /\ u.sub \in {s, All(s.type)}
             \/ u.subrel # NoName /\ <<u.sub, u.subrel, s>> \in k
  BY <1>1, <1>15, <1>16, StepByRelation
<1>18. /\ u.sub.id # Wildcard
       /\ \/ Announced(u)
          \/ \E q \in roles : Owns(R, u, q) \/ Assigns(u, q)
          \/ \E c \in roleBindings : Binds(R, u, c)
  BY <1>7, <1>17, WrittenBy
<1>19. \A c : ~Binds(R, u, c)
  <2>1. \A c : BindingObject(R, c).type # RoleTypeV1
    BY <1>1 DEF BindingObject, Object
  <2> QED
    BY <1>14, <1>17, <2>1, RelationsDiffer, TupleParts DEF Binds
<1>20. \A q : ~Owns(R, u, q)
  BY <1>17, RelationsDiffer, TupleParts DEF Owns
<1>21. u = Tuple(role, RolebindingSubjectRelation, u.sub)
  BY <1>17, <1>18, <1>19, <1>20, TupleParts DEF Announced, Assigns
<1>22. u.sub = s
  <2>1. u.subrel = NoName
    BY <1>21, TupleParts
  <2> QED
    BY <1>17, <1>18, <2>1 DEF All, Object
<1> QED
  BY <1>5, <1>9, <1>12, <1>10, <1>21, <1>22 DEF GivesV1, role

(* What is inherited along a relation is inherited from a resource.        *)
LEMMA InheritedTyped ==
    ASSUME SteadyFiles, NEW R, Common(R), Served, applied.p.rbac.on, InheritsPlainly(applied),
           NEW a \in GrantedActions(applied), NEW t \in relationships,
           t.rel \in InheritedAlong(applied.p, t.obj.type, a),
           findRelationship(applied.rt[t.obj.type], t.rel)
    PROVE  t.sub.type \in DOMAIN DeclaredTypes(applied.p)
<1> DEFINE p == applied.p
           n == t.obj.type
<1>1. Fits(p, schema, relationships) /\ applied = NewPolicy(p)
  BY AppliedRBAC
<1>2. n \in DOMAIN applied.rt
  BY SubjectsTyped
<1>3. PICK rel \in applied.rt[n].rels : rel.relation = t.rel
  BY DEF findRelationship
<1>4. rel \in SchemaRelations(applied, n)
  BY <1>1, <1>3, SchemaRelationsOf
<1>5. PICK target \in rel.targets : Allows(target, t.sub, t.subrel)
  BY <1>1, <1>3, <1>4, AdmittedBy
<1>6. target.name \in DOMAIN DeclaredTypes(p)
  BY <1>2, <1>3, <1>5 DEF InheritsPlainly
<1> QED
  BY <1>5, <1>6 DEF Allows

(* Grants are to role bindings.                                            *)
LEMMA GrantsTyped ==
    ASSUME NEW p, NEW sch, NEW tuples, Fits(p, sch, tuples), NEW t \in tuples,
           t.rel = GrantRelationship, t.obj.type \in DOMAIN NewPolicy(p).rt,
           NewPolicy(p).rt[t.obj.type].v2.on
    PROVE  t.sub.type = p.rbac.roleBinding.name
<1>1. PICK rel \in NewPolicy(p).rt[t.obj.type].rels :
         rel.relation = GrantRelationship /\ rel.targets = {Target(p.rbac.roleBinding.name)}
  BY DEF Fits, Usable
<1>2. rel \in SchemaRelations(NewPolicy(p), t.obj.type)
  BY <1>1, SchemaRelationsOf
<1>3. PICK target \in rel.targets : Allows(target, t.sub, t.subrel)
  BY <1>1, <1>2, AdmittedBy
<1> QED
  BY <1>1, <1>3 DEF Allows, Target

(* A way to hold an action is a role's grant on the object, or the same    *)
(* action on an object that it inherits from.                              *)
LEMMA GivenMeans ==
    ASSUME SteadyFiles, OwnEvents, NEW R, Common(R), Kept(R), applied.p.rbac.on,
           InheritsPlainly(applied), NEW a \in GrantedActions(applied), NEW Subs, NEW x, NEW s,
           x.type \in DOMAIN DeclaredTypes(applied.p),
           NEW known, known \subseteq Holds(schema, relationships, Subs),
           Given(applied.p, relationships, known, x, a, s)
    PROVE  \/ Granted(applied.p, x, a, s, Holds(schema, relationships, Subs))
           \/ \E t \in relationships :
                 /\ t.obj = x /\ t.rel \in InheritedAlong(applied.p, x.type, a)
                 /\ t.sub.type \in DOMAIN DeclaredTypes(applied.p)
                 /\ <<t.sub, a, s>> \in known
<1> DEFINE p == applied.p
           H == Holds(schema, relationships, Subs)
           n == x.type
           Above1 == \E t \in relationships :
                        /\ t.obj = x /\ t.rel \in InheritedAlong(p, n, a)
                        /\ t.sub.type \in DOMAIN DeclaredTypes(p) /\ <<t.sub, a, s>> \in known
<1>1. /\ Served /\ Fits(p, schema, relationships) /\ Accepted(p) /\ p.rbac = R
      /\ applied = NewPolicy(p) /\ Once(roleBindings)
  BY AppliedRBAC DEF Kept
<1>2. a \in ActionNames(p) /\ a # AvailableRolesList
  <2>1. applied.ac = ActionNames(p)
    BY <1>1, AcceptedParts, PolicyTypes
  <2> QED
    BY <2>1 DEF GrantedActions
<1>3. n \in DOMAIN applied.rt
  BY <1>1, AppliedRBAC, InheritanceDeclared
<1>4. CASE GivenV1(p, known, x, a, s)
  <2>1. GrantsV1(p, n, a) /\ <<x, ActionRelation(a), s>> \in Holds(schema, relationships, Subs)
    BY <1>4 DEF GivenV1
  <2>2. PICK r \in roles :
           /\ r.id[1] = RolePrefix /\ r.resource = x.id /\ a \in r.actions
           /\ Tuple(Object(RoleTypeV1, r.id), RolebindingSubjectRelation, s) \in relationships
    BY <1>2, <2>1, V1Gives
  <2> QED
    BY <2>1, <2>2 DEF Granted
<1>5. CASE GivenV2(p, relationships, known, x, a, s)
  <2>1. PICK t \in relationships :
           t.obj = x /\ t.rel = GrantRelationship /\ <<t.sub, a, s>> \in known
    BY <1>5 DEF GivenV2
  <2>2. t.sub.type = R.roleBinding.name
    BY <1>1, <1>3, <1>5, <2>1, GrantsTyped DEF GivenV2
  <2>3. PICK b \in roleBindings : t.sub.id = b.id /\ t.obj.id = b.resource
    BY <2>1, <2>2, BoundResource
  <2>4. <<t.sub, a, s>> \in Holds(schema, relationships, Subs)
    BY <2>1
  <2> HIDE DEF H, n
  <2>5. PICK c \in roleBindings, r \in roles :
           c.id = t.sub.id /\ c.role = r.id /\ a \in r.actions /\ SubjectOf(p, c, s, H)
    <3>1. PICK rb : rb = t.sub
      OBVIOUS
    <3>2. rb.type = R.roleBinding.name /\ <<rb, a, s>> \in Holds(schema, relationships, Subs)
      BY <2>2, <2>4, <3>1
    <3>3. \E c \in roleBindings, r \in roles :
             /\ c.id = rb.id /\ c.role = r.id /\ a \in r.actions
             /\ SubjectOf(applied.p, c, s, Holds(schema, relationships, Subs))
      <4>1. a \in ActionNames(applied.p)
        BY <1>2
      <4>2. \A z \in ActionNames(applied.p) : <<rb, z, s>> \in Holds(schema, relationships, Subs) =>
           \E c \in roleBindings, r \in roles :
             /\ c.id = rb.id /\ c.role = r.id /\ z \in r.actions
             /\ SubjectOf(applied.p, c, s, Holds(schema, relationships, Subs))
        BY <3>2, BindingGives
      <4> QED
        BY <4>1, <4>2, <3>2
    <3> QED
      BY <3>1, <3>3 DEF H
  <2>6. c = b
    BY <1>1, <2>3, <2>5 DEF Once
  <2>7. GrantsV2(p, n, a) /\ b.resource = x.id
    BY <1>5, <2>1, <2>3 DEF GivenV2, n
  <2> QED
    BY <2>5, <2>6, <2>7 DEF Granted, H, n
<1>6. ASSUME NEW t \in relationships, t.obj = x, t.rel \in InheritedAlong(p, n, a),
             findRelationship(applied.rt[n], t.rel), <<t.sub, a, s>> \in known
      PROVE  Above1
  BY <1>1, <1>6, InheritedTyped
<1>7. CASE GivenBy(p, relationships, known, x, a, s)
  <2>1. PICK c \in BoundWith(p, n, a, "RelationshipAction") :
           /\ findRelationship(applied.rt[n], c.relation)
           /\ AlongArrow(known, relationships, x, Arrow(c.relation, c.action), s)
    BY <1>1, <1>7 DEF GivenBy
  <2>2. c.action = a
    BY <1>3, <2>1 DEF InheritsPlainly
  <2>3. a # <<>>
    BY <1>1, <1>2, ActionsNamed DEF NoName
  <2>4. PICK t \in relationships : t.obj = x /\ t.rel = c.relation /\ <<t.sub, a, s>> \in known
    BY <2>1, <2>2, <2>3 DEF AlongArrow, Arrow
  <2>5. c.relation \in InheritedAlong(p, n, a)
    BY <2>1 DEF InheritedAlong
  <2> QED
    BY <1>6, <2>1, <2>4, <2>5
<1>8. CASE GivenAbove(p, relationships, known, x, a, s)
  <2>1. PICK f \in InheritedAlong(p, n, a) :
           /\ findRelationship(applied.rt[n], f)
           /\ \E t \in relationships : t.obj = x /\ t.rel = f /\ <<t.sub, a, s>> \in known
    BY <1>1, <1>8 DEF GivenAbove
  <2>2. PICK t \in relationships : t.obj = x /\ t.rel = f /\ <<t.sub, a, s>> \in known
    BY <2>1
  <2> QED
    BY <1>6, <2>1, <2>2
<1> QED
  BY <1>4, <1>5, <1>7, <1>8 DEF Given

LEMMA KeptGranted ==
    ASSUME SteadyFiles, OwnEvents, NEW R, Common(R), Kept(R), applied.p.rbac.on,
           InheritsPlainly(applied), NEW a \in GrantedActions(applied), NEW Subs, NEW x, NEW s,
           x.type \in DOMAIN DeclaredTypes(applied.p),
           <<x, a, s>> \in Holds(schema, relationships, Subs)
    PROVE  \E y \in Above(x, LAMBDA n : InheritedAlong(applied.p, n, a)) :
              Granted(applied.p, y, a, s, Holds(schema, relationships, Subs))
<1> DEFINE p  == applied.p
           H  == Holds(schema, relationships, Subs)
           up == {t \in relationships : t.rel \in InheritedAlong(p, t.obj.type, a)}
           Found(o) == \E y \in Reachable(o, up) : Granted(p, y, a, s, H)
           Asked(h) == h[2] = a /\ h[3] = s /\ h[1].type \in DOMAIN DeclaredTypes(p)
           G  == {h \in H : Asked(h) => Found(h[1])}
<1>1. Fits(p, schema, relationships)
  BY AppliedRBAC DEF Kept
<1>2. a \in ActionNames(p) /\ a # AvailableRolesList
  <2>1. applied = NewPolicy(p) /\ Accepted(p)
    BY AppliedRBAC DEF Kept
  <2>2. applied.ac = ActionNames(p)
    BY <2>1, AcceptedParts, PolicyTypes
  <2> QED
    BY <2>2 DEF GrantedActions
<1>3. ASSUME NEW known, NEW o, NEW m, NEW q, known \subseteq H, known \subseteq G,
             <<o, m, q>> \in H, StepTo(schema, relationships, Subs, known, o, m, q)
      PROVE  <<o, m, q>> \in G
  <2>1. SUFFICES ASSUME m = a, q = s, o.type \in DOMAIN DeclaredTypes(p) PROVE Found(o)
    <3> HIDE DEF H, up
    <3> QED
      BY <1>3
  <2>2. Given(p, relationships, known, o, a, s)
    BY <1>1, <1>2, <1>3, <2>1, ActionStep
  <2>3. known \subseteq Holds(schema, relationships, Subs)
    BY <1>3
  <2>4. \/ Granted(p, o, a, s, H)
        \/ \E t \in relationships :
              /\ t.obj = o /\ t.rel \in InheritedAlong(p, o.type, a)
              /\ t.sub.type \in DOMAIN DeclaredTypes(p) /\ <<t.sub, a, s>> \in known
    BY <2>1, <2>2, <2>3, GivenMeans
  <2>5. CASE Granted(p, o, a, s, H)
    <3> HIDE DEF H, up
    <3> QED
      BY <2>5, ReachesItself
  <2>6. CASE \E t \in relationships :
                /\ t.obj = o /\ t.rel \in InheritedAlong(p, o.type, a)
                /\ t.sub.type \in DOMAIN DeclaredTypes(p) /\ <<t.sub, a, s>> \in known
    <3>1. PICK t \in relationships :
             /\ t.obj = o /\ t.rel \in InheritedAlong(p, o.type, a)
             /\ t.sub.type \in DOMAIN DeclaredTypes(p) /\ <<t.sub, a, s>> \in known
      BY <2>6
    <3>2. t \in up
      BY <3>1
    <3>3. Found(t.sub)
      <4>1. <<t.sub, a, s>> \in G
        BY <1>3, <3>1
      <4> HIDE DEF Found, H
      <4> QED
        BY <3>1, <4>1
    <3> HIDE DEF up, H
    <3> QED
      BY <3>1, <3>2, <3>3, ReachesOn
  <2> QED
    BY <2>4, <2>5, <2>6
<1>4. H \subseteq G
  <2> HIDE DEF G
  <2> QED
    BY <1>3, HoldsInduction
<1>5. Found(x)
  <2>1. <<x, a, s>> \in G
    BY <1>4
  <2> HIDE DEF Found, H
  <2> QED
    BY <2>1
<1>6. Above(x, LAMBDA n : InheritedAlong(p, n, a)) = Reachable(x, up)
  BY AboveReachable
<1> QED
  BY <1>5, <1>6

(* A subject may do no more than the roles say that were granted to it on  *)
(* the resource or above it: for every policy of the files, through unions *)
(* and groups, by both kinds of roles, along chains of any length, after   *)
(* any requests and changes of the policy.                                 *)
THEOREM OnlyAsGranted ==
    ASSUME SteadyFiles, OwnEvents
    PROVE  Spec => []PermissionsOnlyAsGranted
<1>1. PICK R : Common(R)
  BY CommonExists
<1>2. Kept(R) => PermissionsOnlyAsGranted
  <2> DEFINE p    == applied.p
             Subs == SubjectsOf(p)
             H    == Holds(schema, relationships, Subs)
  <2>1. SUFFICES ASSUME Kept(R), p.rbac.on, InheritsPlainly(applied),
                        NEW x \in Resources(p), NEW a \in GrantedActions(applied), NEW s,
                        <<x, a, s>> \in H
                 PROVE  \E y \in Above(x, LAMBDA n : InheritedAlong(p, n, a)) :
                           Granted(p, y, a, s, H)
    BY DEF PermissionsOnlyAsGranted
  <2>2. x.type \in DOMAIN DeclaredTypes(p)
    BY <1>1, <2>1, ResourcesDeclared DEF Kept
  <2> HIDE DEF Subs
  <2> QED
    BY <1>1, <2>1, <2>2, KeptGranted
<1> QED
  BY <1>1, <1>2, KeptAlways, PTL

-----------------------------------------------------------------------------
(* No fewer.  Nothing is missing from what SpiceDB answers where its       *)
(* search has settled: one more step reaches nothing else.                 *)
Settled(sch, tuples, Subs) ==
    LET H == Holds(sch, tuples, Subs) IN
    Related(sch, tuples, Subs, H) \cup Permitted(sch, tuples, Subs, H) \subseteq H

LEMMA SettledStep ==
    ASSUME NEW sch, NEW tuples, NEW Subs, Settled(sch, tuples, Subs),
           NEW t \in tuples, NEW r, NEW s,
           StepTo(sch, tuples, Subs, Holds(sch, tuples, Subs), t.obj, r, s)
    PROVE  <<t.obj, r, s>> \in Holds(sch, tuples, Subs)
<1> DEFINE H == Holds(sch, tuples, Subs)
           o == t.obj
           Objs == {y \in {u.obj : u \in tuples} : y.type \in DOMAIN sch}
<1>1. Related(sch, tuples, Subs, H) \subseteq H /\ Permitted(sch, tuples, Subs, H) \subseteq H
  BY DEF Settled
<1>2. o \in Objs /\ s \in Subs
  BY DEF StepTo
<1> HIDE DEF H, o
<1>3. CASE InRelation(H, tuples, o, r, s)
  <2> DEFINE by(y, q) == {<<y, q, x>> : x \in {x \in Subs : InRelation(H, tuples, y, q, x)}}
  <2>1. Related(sch, tuples, Subs, H) =
           UNION {by(y, q) : y \in Objs, q \in {u.rel : u \in tuples}}
    BY DEF Related
  <2>2. r \in {u.rel : u \in tuples}
    BY <1>3 DEF InRelation
  <2>3. <<o, r, s>> \in by(o, r)
    BY <1>2, <1>3
  <2> HIDE DEF by, Objs
  <2>4. <<o, r, s>> \in Related(sch, tuples, Subs, H)
    BY <1>2, <2>1, <2>2, <2>3
  <2> QED
    BY <1>1, <2>4 DEF H, o
<1>4. ASSUME NEW a \in sch[o.type].actions, a.name = r, Permits(H, tuples, o, a, s)
      PROVE  <<o, r, s>> \in H
  <2> DEFINE by(y, b) == {<<y, b.name, x>> : x \in {x \in Subs : Permits(H, tuples, y, b, x)}}
             of(y)    == UNION {by(y, b) : b \in sch[y.type].actions}
  <2>1. Permitted(sch, tuples, Subs, H) = UNION {of(y) : y \in Objs}
    BY DEF Permitted
  <2>2. <<o, r, s>> \in by(o, a)
    BY <1>2, <1>4
  <2> HIDE DEF by
  <2>3. <<o, r, s>> \in of(o)
    BY <2>2
  <2> HIDE DEF of, Objs
  <2> QED
    BY <1>1, <1>2, <2>1, <2>3
<1> QED
  BY <1>3, <1>4 DEF StepTo, H, o

(* what a relationship gives, and what a permission gives                  *)
LEMMA HeldByRelation ==
    ASSUME NEW sch, NEW tuples, NEW Subs, Settled(sch, tuples, Subs),
           NEW t \in tuples, t.obj.type \in DOMAIN sch, NEW s \in Subs,
           \/ t.subrel = NoName /\ t.sub \in {s, All(s.type)}
           \/ t.subrel # NoName /\ <<t.sub, t.subrel, s>> \in Holds(sch, tuples, Subs)
    PROVE  <<t.obj, t.rel, s>> \in Holds(sch, tuples, Subs)
<1>1. InRelation(Holds(sch, tuples, Subs), tuples, t.obj, t.rel, s)
  BY DEF InRelation, NoName
<1> QED
  BY <1>1, SettledStep DEF StepTo

LEMMA HeldByPermission ==
    ASSUME NEW sch, NEW tuples, NEW Subs, Settled(sch, tuples, Subs),
           NEW t \in tuples, t.obj.type \in DOMAIN sch, NEW s \in Subs,
           NEW a \in sch[t.obj.type].actions, NEW w \in a.any,
           AlongArrow(Holds(sch, tuples, Subs), tuples, t.obj, w, s)
    PROVE  <<t.obj, a.name, s>> \in Holds(sch, tuples, Subs)
<1>1. Permits(Holds(sch, tuples, Subs), tuples, t.obj, a, s)
  BY DEF Permits
<1> QED
  BY <1>1, SettledStep DEF StepTo

(* A permission that the schema makes of a binding without sets is had by  *)
(* any of the arrows of its conditions.                                    *)
LEMMA HeldByBinding ==
    ASSUME NEW p, NEW sch, NEW tuples, Fits(p, sch, tuples), NEW Subs, Settled(sch, tuples, Subs),
           NEW t \in tuples, NEW s \in Subs,
           NEW b \in NewPolicy(p).bn, b.type = t.obj.type, b.sets = {}, NEW c \in b.conds,
           NEW w \in ConditionArrows(NewPolicy(p).rt[b.type], b.action, c),
           AlongArrow(Holds(sch, tuples, Subs), tuples, t.obj, w, s)
    PROVE  <<t.obj, b.action, s>> \in Holds(sch, tuples, Subs)
<1> DEFINE pol == NewPolicy(p)
           n   == b.type
           a   == BoundPermission(pol, n, b)
<1>1. SchemaIs(sch, pol) /\ t.obj.type \in DOMAIN sch /\ n \in DOMAIN pol.rt
  BY FitsAdmits DEF Fits, SchemaIs
<1>2. a \in SchemaActions(pol, n)
  BY DEF SchemaActions, BindingsOn, BoundPermission
<1>3. a \in sch[t.obj.type].actions
  BY <1>1, <1>2 DEF SchemaIs
<1>4. a.any = UNION {ConditionArrows(pol.rt[n], b.action, d) : d \in b.conds} /\ a.name = b.action
  BY DEF BoundPermission, Permission
<1>5. w \in a.any
  BY <1>4
<1> HIDE DEF a
<1>6. <<t.obj, a.name, s>> \in Holds(sch, tuples, Subs)
  BY <1>1, <1>3, <1>5, HeldByPermission
<1> QED
  BY <1>4, <1>6

(* The roles available on a resource: those of its relation to its own     *)
(* roles, if it may own some, and those of what it inherits from.          *)
LEMMA HeldAvailable ==
    ASSUME NEW p, NEW sch, NEW tuples, Fits(p, sch, tuples), NEW Subs, Settled(sch, tuples, Subs),
           NEW t \in tuples, NEW s \in Subs,
           \/ /\ t.obj.type \in Elements(p.rbac.owners)
              /\ <<t.obj, RoleOwnerMemberRoleRelation, s>> \in Holds(sch, tuples, Subs)
           \/ /\ t.rel \in DeclaredV2(p, t.obj.type).from
              /\ <<t.sub, AvailableRolesList, s>> \in Holds(sch, tuples, Subs)
    PROVE  <<t.obj, AvailableRolesList, s>> \in Holds(sch, tuples, Subs)
<1> DEFINE H   == Holds(sch, tuples, Subs)
           n   == t.obj.type
           rt  == TypesWithRoles(p)
           own == ConditionRelationshipAction(RoleOwnerMemberRoleRelation, NoName)
           up(f) == ConditionRelationshipAction(f, AvailableRolesList)
           b   == ActionBinding(AvailableRolesList, n, AvailableRoles(p, n, rt[n]), {}, <<>>)
<1>1. /\ Accepted(p) /\ p.rbac.on /\ n \in DOMAIN NewPolicy(p).rt
  BY FitsAdmits DEF Fits, Usable
<1>2. n \in DOMAIN rt /\ rt[n].v2 = DeclaredV2(p, n)
  <2>1. DOMAIN NewPolicy(p).rt = DOMAIN rt
    BY <1>1, AcceptedParts, PolicyTypes DEF BaseTypes
  <2> QED
    BY <1>1, <2>1, InheritanceDeclared
<1>3. /\ n \in Elements(p.rbac.owners) => own \in AvailableRoles(p, n, rt[n])
      /\ \A f \in DeclaredV2(p, n).from : up(f) \in AvailableRoles(p, n, rt[n])
  BY <1>2 DEF AvailableRoles
<1>4. b.action = AvailableRolesList /\ b.type = n /\ b.sets = {} /\ b.conds = AvailableRoles(p, n, rt[n])
  BY DEF ActionBinding
<1>5. ASSUME NEW c \in AvailableRoles(p, n, rt[n]) PROVE b \in NewPolicy(p).bn
  BY <1>1, <1>2, <1>5 DEF NewPolicy, AvailableRolesBindings
<1>6. \A u, a, r, z : ConditionArrows(u, a, ConditionRelationshipAction(r, z)) = {Arrow(r, z)}
  BY DEF ConditionArrows, ConditionRelationshipAction, Condition
<1>7. \A r, z : Arrow(r, z).relation = r /\ Arrow(r, z).action = z
  BY DEF Arrow
<1>8. CASE n \in Elements(p.rbac.owners) /\ <<t.obj, RoleOwnerMemberRoleRelation, s>> \in H
  <2>1. AlongArrow(H, tuples, t.obj, Arrow(RoleOwnerMemberRoleRelation, NoName), s)
    BY <1>7, <1>8 DEF AlongArrow, NoName
  <2>2. b \in NewPolicy(p).bn /\ own \in b.conds
    BY <1>3, <1>4, <1>5, <1>8
  <2>3. Arrow(RoleOwnerMemberRoleRelation, NoName)
           \in ConditionArrows(NewPolicy(p).rt[b.type], b.action, own)
    BY <1>6
  <2> HIDE DEF b, own
  <2> QED
    BY <1>4, <2>1, <2>2, <2>3, HeldByBinding
<1>9. CASE t.rel \in DeclaredV2(p, n).from /\ <<t.sub, AvailableRolesList, s>> \in H
  <2> DEFINE w == Arrow(t.rel, AvailableRolesList)
             c == up(t.rel)
  <2>1. AlongArrow(H, tuples, t.obj, w, s)
    BY <1>7, <1>9, ReservedDiffer DEF AlongArrow, NoName
  <2>2. b \in NewPolicy(p).bn /\ c \in b.conds
    BY <1>3, <1>4, <1>5, <1>9
  <2>3. w \in ConditionArrows(NewPolicy(p).rt[b.type], b.action, c)
    BY <1>6
  <2> HIDE DEF b, c, w
  <2> QED
    BY <1>4, <2>1, <2>2, <2>3, HeldByBinding
<1> QED
  BY <1>8, <1>9

(* Only a type that may own roles has the relation to its roles.           *)
LEMMA OwnersTyped ==
    ASSUME NEW p, NEW sch, NEW tuples, Fits(p, sch, tuples),
           NEW t \in tuples, t.rel = RoleOwnerMemberRoleRelation
    PROVE  t.obj.type \in Elements(p.rbac.owners)
<1> DEFINE n  == t.obj.type
           m  == p.rbac.role.name
           k  == p.rbac.roleBinding.name
           D  == DeclaredTypes(p)
           rt == Put(Put(D, m, createV2RoleResourceType(p)), k, createRoleBindingResourceType(p))
<1>1. Accepted(p) /\ p.rbac.on /\ n \in DOMAIN NewPolicy(p).rt
  BY FitsAdmits DEF Fits, Usable
<1>2. SUFFICES ASSUME n \notin Elements(p.rbac.owners) PROVE FALSE
  OBVIOUS
<1>3. PICK r \in SchemaRelations(NewPolicy(p), n) : r.relation = RoleOwnerMemberRoleRelation
  BY FitsAdmits
<1>4. r \in NewPolicy(p).rt[n].rels
  <2>1. ASSUME NEW b \in NewPolicy(p).bn, BoundRelation(b, r) PROVE FALSE
    <3>1. ActionRelation(b.action) = RoleOwnerMemberRoleRelation
      BY <1>1, <1>3, <2>1, BoundRelationIs
    <3> QED
      BY <1>1, <3>1, BoundActions, ActionRelations DEF ReservedRelations
  <2> QED
    BY <1>3, <2>1, SchemaRelationsOf
<1>5. PICK q \in BaseTypes(p)[n].rels : q.relation = RoleOwnerMemberRoleRelation
  <2>1. /\ n \in DOMAIN BaseTypes(p)
        /\ \E q \in BaseTypes(p)[n].rels : r = Expanded(ByName(p.unions), q)
    BY <1>1, <1>4, AcceptedParts, PolicyTypes DEF ExpandedRelations
  <2> QED
    BY <1>3, <2>1 DEF Expanded
<1>6. /\ BaseTypes(p)[n] = rt[n] /\ n \in DOMAIN rt
  <2>1. BaseTypes(p) = [j \in DOMAIN rt |-> IF j \in Elements(p.rbac.owners)
             THEN [rt[j] EXCEPT !.rels = @ \cup {MemberRole(p)}] ELSE rt[j]]
    BY <1>1 DEF BaseTypes, TypesWithRoles, MemberRole
  <2>2. DOMAIN NewPolicy(p).rt = DOMAIN BaseTypes(p)
    BY <1>1, AcceptedParts, PolicyTypes
  <2> HIDE DEF rt
  <2> QED
    BY <1>1, <1>2, <2>1, <2>2
<1>7. rt[n] = IF n = k THEN createRoleBindingResourceType(p)
              ELSE IF n = m THEN createV2RoleResourceType(p) ELSE D[n]
  BY <1>6 DEF Put
<1>8. n \in DOMAIN D \/ n \in {k, m}
  BY <1>6 DEF Put
<1>9. q \in rt[n].rels
  BY <1>5, <1>6
<1> HIDE DEF D, rt
<1>10. CASE n = k
  <2>1. q.relation \in {RolebindingRoleRelation, RolebindingSubjectRelation}
    BY <1>7, <1>9, <1>10 DEF createRoleBindingResourceType, Generated, At, Relationship
  <2> QED
    BY <1>5, <2>1, RelationsDiffer
<1>11. CASE n = m /\ n # k
  <2>1. IsRoleType(p, n, createV2RoleResourceType(p)) /\ q \in createV2RoleResourceType(p).rels
    BY <1>1, <1>7, <1>9, <1>11 DEF IsRoleType
  <2>2. q = RoleOwner(p) \/ \E a \in ActionNames(p) : q = RoleAction(p, a)
    BY <2>1, RoleTypeRelations
  <2>3. q.relation = RoleOwnerRelation \/ \E a \in ActionNames(p) : q.relation = ActionRelation(a)
    BY <2>2 DEF RoleOwner, RoleAction, At, Relationship
  <2>4. \A a \in ActionNames(p) : ActionRelation(a) # RoleOwnerMemberRoleRelation
    BY <1>1, ActionNamesAreNames, ActionRelations DEF Accepted, ReservedRelations
  <2> QED
    BY <1>5, <2>3, <2>4, RelationsDiffer
<1>12. CASE n \notin {k, m}
  <2>1. IsDeclared(p, D[n])
    BY <1>1, <1>8, <1>12, DeclaredFound DEF D, Accepted
  <2>2. PICK i \in DOMAIN p.types : D[n] = Declared(p.types[i])
    BY <2>1 DEF IsDeclared
  <2>3. PICK j \in DOMAIN p.types[i].rels : q = At(j, p.types[i].rels[j])
    BY <1>7, <1>9, <1>12, <2>2 DEF Declared
  <2>4. q.relation \in DeclaredRelations(p)
    BY <2>3, DeclaredRelationFound DEF At
  <2> QED
    BY <1>1, <1>5, <2>4, AcceptedParts DEF CarefulNames
<1> QED
  BY <1>10, <1>11, <1>12

(* What a document says of an action on a type is in a binding of the      *)
(* policy, of that clause and no other.                                    *)
LEMMA BoundBinding ==
    ASSUME NEW p, Accepted(p), NEW n, NEW a, NEW clause, NEW c \in BoundWith(p, n, a, clause)
    PROVE  \E b \in NewPolicy(p).bn :
              /\ b.type = n /\ b.action = a /\ b.sets = {} /\ c \in b.conds
              /\ c.clauses = {clause} /\ n \in DOMAIN NewPolicy(p).rt
              /\ CarefulBinding(NewPolicy(p), b, n)
<1> DEFINE On(j) == /\ p.bindings[j].action = a
                    /\ \E k \in Members(ByName(p.unions), Target(p.bindings[j].type)) : k.name = n
           Fam == {p.bindings[j].conds : j \in {k \in DOMAIN p.bindings : On(k)}}
<1>1. BoundWith(p, n, a, clause) = {d \in UNION Fam : clause \in d.clauses}
  BY Zenon DEF BoundWith
<1>2. PICK i \in DOMAIN p.bindings : On(i) /\ c \in p.bindings[i].conds
  <2> HIDE DEF On
  <2> QED
    BY <1>1
<1>3. clause \in c.clauses
  BY <1>1
<1>4. PICK l \in DOMAIN BoundTypes(p, i) : BoundTypes(p, i)[l].name = n
  BY <1>2 DEF Members, Elements, BoundTypes
<1> DEFINE b == BindingAt(p, i, l)
<1>5. b.action = a /\ b.type = n /\ c \in b.conds
  BY <1>2, <1>4 DEF BindingAt, ActionBinding
<1>6. IsDocumentBinding(p, b)
  BY <1>2, <1>4 DEF IsDocumentBinding
<1>7. b \in NewPolicy(p).bn
  <2> DEFINE of(j) == {BindingAt(p, j, k) : k \in DOMAIN BoundTypes(p, j)}
  <2>1. b \in of(i)
    BY <1>4
  <2>2. ExpandedBindings(ByName(p.unions), p.bindings) = UNION {of(j) : j \in DOMAIN p.bindings}
    BY Zenon DEF ExpandedBindings, BindingAt, BoundTypes
  <2> HIDE DEF of, b
  <2>3. b \in ExpandedBindings(ByName(p.unions), p.bindings)
    BY <2>1, <2>2
  <2> QED
    BY <2>3 DEF NewPolicy
<1> HIDE DEF b
<1>8. CarefulBinding(NewPolicy(p), b, n) /\ b.sets = {}
  BY <1>5, <1>6, <1>7, DocumentBindings DEF CarefulBinding
<1>9. n \in DOMAIN NewPolicy(p).rt
  BY <1>5, <1>7, BoundActions
<1>10. c.clauses = {clause}
  <2>1. ValidConditions(NewPolicy(p), NewPolicy(p).rt[n], b.conds)
    BY <1>5, <1>7, AcceptedParts DEF ValidActionBindings
  <2>2. \E one : c.clauses = {one}
    BY <1>5, <2>1 DEF ValidConditions
  <2> QED
    BY <1>3, <2>2
<1> QED
  BY <1>5, <1>7, <1>8, <1>9, <1>10

(* The permission of a role binding is had by who its role gives it to and *)
(* is among its subjects.                                                  *)
LEMMA HeldByRoleBinding ==
    ASSUME NEW p, NEW sch, NEW tuples, Fits(p, sch, tuples), NEW Subs, Settled(sch, tuples, Subs),
           NEW t \in tuples, t.obj.type = p.rbac.roleBinding.name,
           t.rel = RolebindingRoleRelation, NEW s \in Subs, NEW a \in ActionNames(p),
           <<t.sub, ActionRelation(a), s>> \in Holds(sch, tuples, Subs),
           <<t.obj, RolebindingSubjectRelation, s>> \in Holds(sch, tuples, Subs)
    PROVE  <<t.obj, a, s>> \in Holds(sch, tuples, Subs)
<1> DEFINE H    == Holds(sch, tuples, Subs)
           pol  == NewPolicy(p)
           n    == p.rbac.roleBinding.name
           one  == {ConditionRelationshipAction(RolebindingRoleRelation, ActionRelation(a))}
           two  == {ConditionRelationshipAction(RolebindingSubjectRelation, NoName)}
           mine == ActionBinding(a, n, {}, {one, two}, <<>>)
           ap   == BoundPermission(pol, n, mine)
<1>1. /\ Accepted(p) /\ p.rbac.on /\ SchemaIs(sch, pol) /\ IsName(a)
      /\ n \in DOMAIN pol.rt
  BY RolePrefixes, ActionNamesAreNames DEF Fits, Usable, Accepted
<1>2. sch[n].actions = SchemaActions(pol, n) /\ n \in DOMAIN sch
  BY <1>1 DEF SchemaIs
<1>3. /\ mine \in pol.bn /\ mine.action = a /\ mine.type = n
      /\ mine.conds = {} /\ mine.sets = {one, two}
  BY <1>1 DEF NewPolicy, RoleBindingBindings, ActionBinding
<1> HIDE DEF mine
<1>4. ap \in SchemaActions(pol, n)
  BY <1>3 DEF SchemaActions, BindingsOn, BoundPermission
<1>5. /\ ap.name = a /\ ap.any = {}
      /\ ap.all = {{Clause(c) : c \in one}, {Clause(c) : c \in two}}
  BY <1>3 DEF BoundPermission, Permission
<1>6. /\ {Clause(c) : c \in one} = {Arrow(RolebindingRoleRelation, ActionRelation(a))}
      /\ {Clause(c) : c \in two} = {Arrow(RolebindingSubjectRelation, NoName)}
  BY DEF Clause, ConditionRelationshipAction, Condition
<1>7. ActionRelation(a) # <<>>
  BY <1>1, ActionRelations DEF NoName
<1>8. /\ AlongArrow(H, tuples, t.obj, Arrow(RolebindingRoleRelation, ActionRelation(a)), s)
      /\ AlongArrow(H, tuples, t.obj, Arrow(RolebindingSubjectRelation, NoName), s)
  BY <1>7 DEF AlongArrow, Arrow, NoName
<1> HIDE DEF ap, H
<1>9. Permits(H, tuples, t.obj, ap, s)
  BY <1>5, <1>6, <1>8 DEF Permits
<1> QED
  BY <1>2, <1>4, <1>5, <1>9, SettledStep DEF StepTo, H

(* Where roles grant an action by role bindings: by a grant on the object, *)
(* and by what it inherits from, if it inherits the action.                *)
LEMMA HeldByGrant ==
    ASSUME NEW p, NEW sch, NEW tuples, Fits(p, sch, tuples), NEW Subs, Settled(sch, tuples, Subs),
           NEW t \in tuples, NEW s \in Subs, NEW a, a # NoName, GrantsV2(p, t.obj.type, a),
           \/ t.rel = GrantRelationship
           \/ /\ t.rel \in DeclaredV2(p, t.obj.type).from
              /\ DeclaredV2(p, t.obj.type).all \/ a \in RoleBindingActions,
           <<t.sub, a, s>> \in Holds(sch, tuples, Subs)
    PROVE  <<t.obj, a, s>> \in Holds(sch, tuples, Subs)
<1> DEFINE H   == Holds(sch, tuples, Subs)
           pol == NewPolicy(p)
           n   == t.obj.type
           w   == Arrow(t.rel, a)
<1>1. /\ Accepted(p) /\ p.rbac.on /\ SchemaIs(sch, pol) /\ n \in DOMAIN pol.rt
      /\ n \in DOMAIN sch
  BY FitsAdmits DEF Fits, Usable, SchemaIs
<1>2. pol.rt[n].v2 = DeclaredV2(p, n)
  BY <1>1, InheritanceDeclared
<1>3. AlongArrow(H, tuples, t.obj, w, s)
  BY DEF AlongArrow, Arrow, NoName
<1> HIDE DEF w
<1>4. CASE BoundWith(p, n, a, "RoleBindingV2") # {}
  <2>1. PICK c : c \in BoundWith(p, n, a, "RoleBindingV2")
    BY <1>4
  <2>2. PICK b \in pol.bn :
           /\ b.type = n /\ b.action = a /\ b.sets = {} /\ c \in b.conds
           /\ c.clauses = {"RoleBindingV2"} /\ CarefulBinding(pol, b, n)
    BY <1>1, <2>1, BoundBinding
  <2>3. pol.rt[n].v2.on /\ a \notin RoleBindingActions
    BY <2>2 DEF CarefulBinding, CarefulCondition
  <2> DEFINE from == IF pol.rt[n].v2.all THEN pol.rt[n].v2.from ELSE {}
  <2>4. ConditionArrows(pol.rt[n], a, c) = CreateRoleBindingConditionsForAction(a, from)
    BY <2>2, <2>3 DEF ConditionArrows
  <2>5. t.rel = GrantRelationship \/ t.rel \in from
    BY <1>2, <2>3
  <2> HIDE DEF from
  <2>6. w \in ConditionArrows(pol.rt[n], a, c)
    BY <2>4, <2>5 DEF CreateRoleBindingConditionsForAction, w
  <2> QED
    BY <1>3, <2>2, <2>6, HeldByBinding
<1>5. CASE /\ a \in RoleBindingActions
           /\ \E other \in p.actions : BoundWith(p, n, other, "RoleBindingV2") # {}
  <2>1. PICK other \in p.actions : BoundWith(p, n, other, "RoleBindingV2") # {}
    BY <1>5
  <2>2. PICK c : c \in BoundWith(p, n, other, "RoleBindingV2")
    BY <2>1
  <2>3. PICK b \in pol.bn :
           /\ b.type = n /\ c \in b.conds
           /\ c.clauses = {"RoleBindingV2"} /\ CarefulBinding(pol, b, n)
    BY <1>1, <2>2, BoundBinding
  <2>4. pol.rt[n].v2.on
    BY <2>3 DEF CarefulBinding, CarefulCondition
  <2>5. UsesV2(pol, n)
    BY <2>3, <2>4 DEF UsesV2, BindingsOn
  <2> DEFINE ap == Permission(a, CreateRoleBindingConditionsForAction(a, pol.rt[n].v2.from), {},
                              <<>>)
  <2>6. ap \in RoleBindingActionsOf(pol.rt[n])
    BY <1>5 DEF RoleBindingActionsOf
  <2>7. ap \in SchemaActions(pol, n)
    BY <2>5, <2>6 DEF SchemaActions
  <2>8. ap.name = a /\ ap.any = CreateRoleBindingConditionsForAction(a, pol.rt[n].v2.from)
    BY DEF Permission
  <2> HIDE DEF ap
  <2>9. w \in ap.any
    BY <1>2, <2>8 DEF CreateRoleBindingConditionsForAction, w
  <2>10. ap \in sch[n].actions
    BY <1>1, <2>7 DEF SchemaIs
  <2> QED
    BY <1>1, <1>3, <2>8, <2>9, <2>10, HeldByPermission
<1> QED
  BY <1>4, <1>5 DEF GrantsV2

(* ... by V1 roles: by the relation of the action ...                      *)
LEMMA HeldByV1 ==
    ASSUME NEW p, NEW sch, NEW tuples, Fits(p, sch, tuples), NEW Subs, Settled(sch, tuples, Subs),
           NEW t \in tuples, NEW s \in Subs, NEW a, GrantsV1(p, t.obj.type, a),
           <<t.obj, ActionRelation(a), s>> \in Holds(sch, tuples, Subs)
    PROVE  <<t.obj, a, s>> \in Holds(sch, tuples, Subs)
<1> DEFINE H == Holds(sch, tuples, Subs)
           n == t.obj.type
<1>1. Accepted(p)
  BY DEF Fits, Usable
<1>2. PICK c : c \in BoundWith(p, n, a, "RoleBinding")
  BY DEF GrantsV1
<1>3. PICK b \in NewPolicy(p).bn : /\ b.type = n /\ b.action = a /\ b.sets = {} /\ c \in b.conds
                                   /\ c.clauses = {"RoleBinding"}
  BY <1>1, <1>2, BoundBinding
<1>4. ConditionArrows(NewPolicy(p).rt[n], a, c) = {Arrow(ActionRelation(a), NoName)}
  BY <1>3 DEF ConditionArrows
<1>5. AlongArrow(H, tuples, t.obj, Arrow(ActionRelation(a), NoName), s)
  BY DEF AlongArrow, Arrow, NoName
<1> QED
  BY <1>3, <1>4, <1>5, HeldByBinding

(* ... and where the documents name the relation.                          *)
LEMMA HeldByCondition ==
    ASSUME NEW p, NEW sch, NEW tuples, Fits(p, sch, tuples), NEW Subs, Settled(sch, tuples, Subs),
           NEW t \in tuples, NEW s \in Subs, NEW a, a # NoName,
           NEW c \in BoundWith(p, t.obj.type, a, "RelationshipAction"),
           c.relation = t.rel, c.action = a,
           <<t.sub, a, s>> \in Holds(sch, tuples, Subs)
    PROVE  <<t.obj, a, s>> \in Holds(sch, tuples, Subs)
<1> DEFINE H == Holds(sch, tuples, Subs)
           n == t.obj.type
<1>1. Accepted(p)
  BY DEF Fits, Usable
<1>2. PICK b \in NewPolicy(p).bn : /\ b.type = n /\ b.action = a /\ b.sets = {} /\ c \in b.conds
                                   /\ c.clauses = {"RelationshipAction"}
  BY <1>1, BoundBinding
<1>3. ConditionArrows(NewPolicy(p).rt[n], a, c) = {Arrow(t.rel, a)}
  BY <1>2 DEF ConditionArrows
<1>4. AlongArrow(H, tuples, t.obj, Arrow(t.rel, a), s)
  BY DEF AlongArrow, Arrow, NoName
<1> QED
  BY <1>2, <1>3, <1>4, HeldByBinding

-----------------------------------------------------------------------------
(* What is written stays: what a row stands for is among the relationships *)
(* for as long as the row is.  Only owners of resources take relationships *)
(* back, those that they announce.                                         *)
Lasting(t) == t.subrel # NoName \/ ~Foreign(t.obj.id) \/ ~Foreign(t.sub.id)

(* a V1 role's actions on its resource; a V2 role among its owner's        *)
GivenTo(r, a, ts) ==
    \E x : /\ Identified(x) /\ x.id = r.resource
           /\ TupleTo(x, ActionRelation(a), Object(RoleTypeV1, r.id),
                      RolebindingSubjectRelation) \in ts

OwnedBy(R, r, ts) ==
    /\ ~Foreign(r.id)
    /\ \E x : /\ Identified(x) /\ x.id = r.resource
              /\ Tuple(x, RoleOwnerMemberRoleRelation, RoleObject(R, r)) \in ts

RowWritten(R, r, ts) == IF r.id[1] = RolePrefix THEN \A a \in r.actions : GivenTo(r, a, ts)
                                                ELSE OwnedBy(R, r, ts)

(* a role binding's role, the grant on its resource, and its subject       *)
RoleOf(R, b)      == Tuple(BindingObject(R, b), RolebindingRoleRelation, Object(R.role.name, b.role))
GrantOn(R, b, x)  == Tuple(x, GrantRelationship, BindingObject(R, b))
SubjectIs(R, b, s) == TupleTo(BindingObject(R, b), RolebindingSubjectRelation, s,
                              ByName(R.subjects)[s.type].subrel)

BindingWritten(R, b, ts) ==
    /\ ~Foreign(b.id) /\ b.role[1] = R.role.prefix
    /\ RoleOf(R, b) \in ts
    /\ \E x : Identified(x) /\ x.id = b.resource /\ GrantOn(R, b, x) \in ts
    /\ \E s : Identified(s) /\ s.id = b.subject /\ SubjectIs(R, b, s) \in ts

Stored(R) ==
    /\ \A r \in roles : RowWritten(R, r, relationships)
    /\ \A b \in roleBindings : BindingWritten(R, b, relationships)

LEMMA InitStored == ASSUME NEW R PROVE Init => Stored(R)
BY DEF Init, Stored

(* the identifiers of roles and role bindings that a server makes          *)
LEMMA MadeNotForeign ==
    ASSUME SteadyFiles, NEW R, Common(R), Reading, engine.on, engine.rbac.on,
           NEW id, id[1] \in {R.role.prefix, R.roleBinding.prefix}
    PROVE  ~Foreign(id)
BY ServerRBAC DEF Foreign

LEMMA RolePrefixesDiffer ==
    ASSUME SteadyFiles, NEW R, Common(R), Reading, engine.on, engine.rbac.on
    PROVE  R.role.prefix # RolePrefix
<1>1. /\ Loadable(engine.policy) /\ engine.policy.p.rbac = R /\ R.on
      /\ R.role.name \in DOMAIN engine.policy.rt
      /\ engine.policy.rt[R.role.name].prefix = R.role.prefix
  BY ServerRBAC
<1>2. CarefulUse(engine.policy)
  BY <1>1, LoadableAgree
<1>3. /\ RoleTypeV1 # R.role.name
      /\ \A n \in DOMAIN engine.policy.rt :
            engine.policy.rt[n].prefix = RolePrefix <=> n = RoleTypeV1
  BY <1>1, <1>2 DEF CarefulUse
<1> QED
  BY <1>1, <1>3

(* What was written is still there where what lasts is.                    *)
LEMMA WrittenStays ==
    ASSUME NEW R, NEW ts, NEW more, \A t \in ts : Lasting(t) => t \in more
    PROVE  /\ \A r : RowWritten(R, r, ts) => RowWritten(R, r, more)
           /\ \A b : BindingWritten(R, b, ts) => BindingWritten(R, b, more)
<1>1. \A x, a, r : LET t == TupleTo(x, a, r, RolebindingSubjectRelation) IN Lasting(t)
  BY TupleParts, ReservedDiffer DEF Lasting
<1>2. ASSUME NEW r, RowWritten(R, r, ts) PROVE RowWritten(R, r, more)
  <2>1. CASE r.id[1] = RolePrefix
    <3>1. \A a : GivenTo(r, a, ts) => GivenTo(r, a, more)
      BY <1>1 DEF GivenTo
    <3> QED
      BY <1>2, <2>1, <3>1 DEF RowWritten
  <2>2. CASE r.id[1] # RolePrefix
    <3>1. ~Foreign(RoleObject(R, r).id)
      BY <1>2, <2>2 DEF RowWritten, OwnedBy, RoleObject, Object
    <3>2. \A x, a : Lasting(Tuple(x, a, RoleObject(R, r)))
      BY <3>1, TupleParts DEF Lasting
    <3> QED
      BY <1>2, <2>2, <3>2 DEF RowWritten, OwnedBy
  <2> QED
    BY <2>1, <2>2
<1>3. ASSUME NEW b, BindingWritten(R, b, ts) PROVE BindingWritten(R, b, more)
  <2>1. ~Foreign(BindingObject(R, b).id)
    BY <1>3 DEF BindingWritten, BindingObject, Object
  <2>2. /\ Lasting(RoleOf(R, b)) /\ \A x : Lasting(GrantOn(R, b, x))
        /\ \A s : Lasting(SubjectIs(R, b, s))
    BY <2>1, TupleParts DEF Lasting, RoleOf, GrantOn, SubjectIs
  <2> QED
    BY <1>3, <2>2 DEF BindingWritten
<1> QED
  BY <1>2, <1>3

LEMMA LastingStays ==
    ASSUME SteadyFiles, OwnEvents, NEW R, Common(R), Kept(R), [Next]_vars
    PROVE  \A t \in relationships : Lasting(t) => t \in relationships'
<1>1. ASSUME NEW e \in Events, DeleteRelationships(e),
             NEW t \in relationships, Lasting(t)
      PROVE  t \in relationships'
  <2>1. Relatable(e) /\ relationships' = relationships \ {RelationshipOf(e)}
    BY <1>1 DEF DeleteRelationships
  <2>2. Reading
    BY DEF Kept
  <2>3. t # RelationshipOf(e)
    BY <1>1, <2>1, <2>2, EventAnnounced, TupleParts DEF Announced, Lasting
  <2> QED
    BY <2>1, <2>3
<1>2. ASSUME Next, ~ \E e \in Events : DeleteRelationships(e)
      PROVE  relationships \subseteq relationships'
  <2>1. ASSUME NEW ts, Write(ts) PROVE relationships \subseteq relationships'
    BY <2>1 DEF Write
  <2>2. ASSUME NEW i \in DOMAIN Files, AddFile(i) PROVE relationships \subseteq relationships'
    BY <2>2 DEF AddFile
  <2>3. ASSUME WriteSchema \/ StartServer PROVE relationships \subseteq relationships'
    BY <2>3 DEF WriteSchema, StartServer
  <2>4. ASSUME NEW e \in Events, CreateRelationships(e) PROVE \E ts : Write(ts)
    BY <2>4 DEF CreateRelationships
  <2>5. ASSUME NEW x, NEW n, NEW as, CreateRoleV2(x, n, as) PROVE \E ts : Write(ts)
    BY <2>5, Zenon DEF CreateRoleV2
  <2>6. ASSUME NEW x, NEW n, NEW as, CreateRole(x, n, as) PROVE \E ts : Write(ts)
    BY <2>6, Zenon DEF CreateRole
  <2>7. ASSUME NEW x, NEW n, NEW r, NEW s, CreateRoleBinding(x, n, r, s) PROVE \E ts : Write(ts)
    BY <2>7, Zenon DEF CreateRoleBinding
  <2>8. ASSUME NEW r, NEW s, AssignSubjectRole(r, s) PROVE \E ts : Write(ts)
    BY <2>8, Zenon DEF AssignSubjectRole
  <2> QED
    BY <1>2, <2>1, <2>2, <2>3, <2>4, <2>5, <2>6, <2>7, <2>8 DEF Next
<1>3. CASE UNCHANGED vars
  BY <1>3 DEF vars
<1> QED
  BY <1>1, <1>2, <1>3

-----------------------------------------------------------------------------
(* The rows that requests add.                                             *)
LEMMA CreateRoleV2Stored ==
    ASSUME SteadyFiles, NEW R, Common(R), Kept(R), Stored(R),
           \A r \in roles : RowWritten(R, r, relationships'),
           NEW x \in Ids, NEW n \in RoleNumbers, NEW as \in ActionChoices, CreateRoleV2(x, n, as)
    PROVE  \A r \in roles' : RowWritten(R, r, relationships')
<1> DEFINE r  == [id |-> <<engine.rbac.role.prefix, n>>, resource |-> x, actions |-> as]
           ts == roleV2Relationships(NewResourceFromID(r.id), as)
                 \cup roleV2OwnerRelationship(NewResourceFromID(r.id), NewResourceFromID(x))
<1>1. /\ KnownPrefix(x) /\ engine.on /\ engine.rbac.on
      /\ Write(ts) /\ roles' = roles \cup {r}
  BY Zenon DEF CreateRoleV2, KnownPrefix
<1>2. r.resource = x /\ r.id[1] = engine.rbac.role.prefix
  OBVIOUS
<1>3. Reading /\ engine.rbac = R
  BY <1>1, ServerRBAC DEF Kept
<1>4. ts \subseteq relationships'
  BY <1>1 DEF Write
<1> HIDE DEF r
<1>5. NewResourceFromID(r.id) = RoleObject(R, r)
  BY <1>1, <1>2, <1>3, RoleOrBindingObject DEF RoleObject
<1>6. Tuple(NewResourceFromID(x), RoleOwnerMemberRoleRelation, RoleObject(R, r)) \in ts
  BY <1>5 DEF roleV2OwnerRelationship
<1>7. Identified(NewResourceFromID(x)) /\ NewResourceFromID(x).id = r.resource
  BY <1>1, <1>2, <1>3, NewResources
<1>8. ~Foreign(r.id) /\ r.id[1] # RolePrefix
  BY <1>1, <1>2, <1>3, MadeNotForeign, RolePrefixesDiffer
<1> HIDE DEF ts
<1>9. RowWritten(R, r, relationships')
  BY <1>4, <1>6, <1>7, <1>8 DEF RowWritten, OwnedBy
<1> QED
  BY <1>1, <1>9

LEMMA CreateRoleStored ==
    ASSUME SteadyFiles, NEW R, Common(R), Kept(R), Stored(R),
           \A r \in roles : RowWritten(R, r, relationships'),
           NEW x \in Ids, NEW n \in RoleV1Numbers, NEW as \in ActionChoices, CreateRole(x, n, as)
    PROVE  \A r \in roles' : RowWritten(R, r, relationships')
<1> DEFINE r    == [id |-> <<RolePrefix, n>>, resource |-> x, actions |-> as]
           role == NewResourceFromID(r.id)
           X    == NewResourceFromID(x)
           ts   == roleRelationships(role, X, as)
<1>1. /\ KnownPrefix(x) /\ KnownPrefix(r.id) /\ engine.on
      /\ Write(ts) /\ roles' = roles \cup {r}
  BY Zenon DEF CreateRole, KnownPrefix
<1>2. r.resource = x /\ r.actions = as /\ r.id[1] = RolePrefix
  OBVIOUS
<1>3. Reading
  BY DEF Kept
<1>4. ts \subseteq relationships'
  BY <1>1 DEF Write
<1> HIDE DEF r
<1>5. role = Object(RoleTypeV1, r.id)
  BY <1>1, <1>2, <1>3, RoleV1Object
<1>6. Identified(X) /\ X.id = r.resource
  BY <1>1, <1>2, <1>3, NewResources
<1> HIDE DEF role, X
<1>7. ASSUME NEW a \in r.actions PROVE GivenTo(r, a, relationships')
  <2>1. TupleTo(X, ActionRelation(a), role, RolebindingSubjectRelation) \in ts
    BY <1>2, <1>7 DEF roleRelationships
  <2> HIDE DEF ts
  <2> QED
    BY <1>4, <1>5, <1>6, <2>1 DEF GivenTo
<1>8. RowWritten(R, r, relationships')
  BY <1>2, <1>7 DEF RowWritten
<1> QED
  BY <1>1, <1>8

LEMMA CreateRoleBindingStored ==
    ASSUME SteadyFiles, NEW R, Common(R), Kept(R), Stored(R),
           \A b \in roleBindings : BindingWritten(R, b, relationships'),
           NEW x \in Ids, NEW s \in Subjects, NEW n \in RoleBindingNumbers, NEW row \in roles,
           CreateRoleBinding(x, n, row.id, s)
    PROVE  \A b \in roleBindings' : BindingWritten(R, b, relationships')
<1> DEFINE b  == [id |-> RoleBindingID(n).id, resource |-> x, role |-> row.id, subject |-> s]
           X  == NewResourceFromID(x)
           S  == NewResourceFromID(s)
           ts == rolebindingRelationships(RoleBindingID(n), X, row.id, S)
<1>1. Bindable(x, row.id, s) /\ Write(ts) /\ roleBindings' = roleBindings \cup {b}
  BY Zenon DEF CreateRoleBinding
<1>2. KnownPrefix(x) /\ KnownPrefix(s) /\ engine.on /\ engine.rbac.on
  BY <1>1 DEF Bindable, KnownPrefix
<1>3. b.id = RoleBindingID(n).id /\ b.resource = x /\ b.role = row.id /\ b.subject = s
  OBVIOUS
<1>4. Reading /\ engine.rbac = R
  BY <1>2, ServerRBAC DEF Kept
<1>5. ts \subseteq relationships'
  BY <1>1 DEF Write
<1> HIDE DEF b
<1>6. RoleBindingID(n) = BindingObject(R, b) /\ b.id[1] = R.roleBinding.prefix
  BY <1>3, <1>4 DEF RoleBindingID, BindingObject, Object
<1>7. ~Foreign(b.id) /\ b.role[1] = R.role.prefix
  BY <1>1, <1>2, <1>3, <1>4, <1>6, MadeNotForeign, BindableIsRole
<1>8. Identified(X) /\ X.id = b.resource /\ Identified(S) /\ S.id = b.subject
  BY <1>2, <1>3, <1>4, NewResources
<1> HIDE DEF X, S
<1>9. RoleOf(R, b) \in ts /\ GrantOn(R, b, X) \in ts /\ SubjectIs(R, b, S) \in ts
  BY <1>3, <1>4, <1>6
     DEF rolebindingRelationships, rolebindingSubjectRelationship, RoleOf, GrantOn, SubjectIs
<1> HIDE DEF ts
<1>10. BindingWritten(R, b, relationships')
  BY <1>5, <1>7, <1>8, <1>9 DEF BindingWritten
<1> QED
  BY <1>1, <1>10

LEMMA NextStored ==
    ASSUME SteadyFiles, OwnEvents, NEW R, Common(R), Kept(R), Stored(R), [Next]_vars
    PROVE  Stored(R)'
<1>1. \A t \in relationships : Lasting(t) => t \in relationships'
  BY LastingStays
<1>2. /\ \A r : RowWritten(R, r, relationships) => RowWritten(R, r, relationships')
      /\ \A b : BindingWritten(R, b, relationships) => BindingWritten(R, b, relationships')
  BY <1>1, WrittenStays
<1>3. /\ \A r \in roles : RowWritten(R, r, relationships')
      /\ \A b \in roleBindings : BindingWritten(R, b, relationships')
  BY <1>2 DEF Stored
<1>4. ASSUME NEW i \in DOMAIN Files, AddFile(i) PROVE UNCHANGED <<roles, roleBindings>>
  BY <1>4 DEF AddFile
<1>5. ASSUME WriteSchema \/ StartServer PROVE UNCHANGED <<roles, roleBindings>>
  BY <1>5 DEF WriteSchema, StartServer
<1>6. ASSUME NEW e \in Events, CreateRelationships(e) \/ DeleteRelationships(e)
      PROVE  UNCHANGED <<roles, roleBindings>>
  BY <1>6 DEF CreateRelationships, DeleteRelationships
<1>7. ASSUME NEW x \in Ids, NEW n \in RoleNumbers, NEW as \in ActionChoices, CreateRoleV2(x, n, as)
      PROVE  Stored(R)'
  <2>1. UNCHANGED roleBindings
    BY <1>7, Zenon DEF CreateRoleV2
  <2> QED
    BY <1>3, <1>7, <2>1, CreateRoleV2Stored DEF Stored
<1>8. ASSUME NEW x \in Ids, NEW n \in RoleV1Numbers, NEW as \in ActionChoices, CreateRole(x, n, as)
      PROVE  Stored(R)'
  <2>1. UNCHANGED roleBindings
    BY <1>8, Zenon DEF CreateRole
  <2> QED
    BY <1>3, <1>8, <2>1, CreateRoleStored DEF Stored
<1>9. ASSUME NEW x \in Ids, NEW s \in Subjects, NEW n \in RoleBindingNumbers, NEW row \in roles,
             CreateRoleBinding(x, n, row.id, s)
      PROVE  Stored(R)'
  <2>1. UNCHANGED roles
    BY <1>9, Zenon DEF CreateRoleBinding
  <2> QED
    BY <1>3, <1>9, <2>1, CreateRoleBindingStored DEF Stored
<1>10. ASSUME NEW row \in roles, NEW s \in Subjects, AssignSubjectRole(row.id, s)
       PROVE  UNCHANGED <<roles, roleBindings>>
  BY <1>10, Zenon DEF AssignSubjectRole
<1>11. UNCHANGED <<roles, roleBindings>> => Stored(R)'
  BY <1>3 DEF Stored
<1>12. UNCHANGED vars => UNCHANGED <<roles, roleBindings>>
  BY DEF vars
<1> QED
  BY <1>4, <1>5, <1>6, <1>7, <1>8, <1>9, <1>10, <1>11, <1>12 DEF Next

LEMMA StoredAlways ==
    ASSUME SteadyFiles, OwnEvents, NEW R, Common(R)
    PROVE  Spec => [](Kept(R) /\ Stored(R))
<1>1. Init => Kept(R) /\ Stored(R)
  BY InitKept, InitStored
<1>2. Kept(R) /\ Stored(R) /\ [Next]_vars => (Kept(R) /\ Stored(R))'
  BY NextKept, NextStored
<1> QED
  BY <1>1, <1>2, PTL DEF Spec

-----------------------------------------------------------------------------
(* What holds of an object and goes back along the relationships holds of  *)
(* all the objects from which it is reached.                               *)
LEMMA ReachesBack ==
    ASSUME NEW x, NEW up, NEW y \in Reachable(x, up), NEW Good, y \in Good,
           \A t \in up : t.sub \in Good => t.obj \in Good
    PROVE  x \in Good
<1> DEFINE all == {x} \cup {t.sub : t \in up}
           C   == {z \in all : z \in Good => x \in Good}
<1>1. \A t \in up : t.sub \in all
  OBVIOUS
<1>2. \A t \in up : t.obj \in C => t.sub \in C
  BY <1>1
<1>3. C \in SUBSET all /\ x \in C
  OBVIOUS
<1>4. y \in C
  <2> HIDE DEF C
  <2> QED
    BY <1>2, <1>3 DEF Reachable
<1> QED
  BY <1>4

(* The object that a row names is the one that is meant there.             *)
LEMMA ReachedIs ==
    ASSUME SteadyFiles, NEW R, Common(R), Kept(R), applied.p.rbac.on,
           NEW x \in Resources(applied.p), NEW up \in SUBSET relationships,
           NEW y \in Reachable(x, up),
           NEW o, Identified(o), o.type \in DOMAIN applied.rt, y.id = o.id, o.id # Wildcard
    PROVE  y = o
<1>1. Served /\ Resource(o.id) = o
  BY TypeFound DEF Kept
<1>2. CASE y = x
  <2>1. PICK id : x = Resource(id)
    BY Zenon DEF Resources
  <2>2. x.id = id
    BY <2>1 DEF Resource, Object
  <2> QED
    BY <1>1, <1>2, <2>1, <2>2
<1>3. ASSUME NEW t \in up, y = t.sub PROVE y = o
  <2>1. t \in relationships /\ Kind(R, t, roles, roleBindings)
    BY DEF Kept
  <2>2. \A r : ~Shows(R, t, r)
    <3>1. \A s : All(s).id = Wildcard
      BY DEF All, Object
    <3> QED
      BY <1>3, <3>1, TupleParts DEF Shows
  <2>3. Identified(y)
    BY <1>3, <2>1, <2>2 DEF Kind
  <2>4. y.type \in DOMAIN applied.rt
    BY <1>1, <1>3, <2>1, SubjectsTyped
  <2> QED
    BY <1>1, <2>3, <2>4, TypeFound
<1> QED
  BY <1>2, <1>3 DEF Reachable

(* a V2 role is told from a V1 role by its prefix                           *)
LEMMA V2PrefixApplied ==
    ASSUME SteadyFiles, NEW R, Common(R), Served, applied.p.rbac.on
    PROVE  R.role.prefix # RolePrefix
<1>1. /\ CarefulUse(applied) /\ R.role.name \in DOMAIN applied.rt
      /\ applied.rt[R.role.name].prefix = R.role.prefix /\ RoleTypeV1 # R.role.name
  BY AppliedRBAC
<1> QED
  BY <1>1 DEF CarefulUse

(* All roles are available below their owner.                              *)
LEMMA StoredAvailable ==
    ASSUME SteadyFiles, OwnEvents, NEW R, Common(R), Kept(R), Stored(R), applied.p.rbac.on,
           NEW r \in roles, r.id[1] = R.role.prefix,
           NEW Subs, RoleObject(R, r) \in Subs, Settled(schema, relationships, Subs),
           NEW x \in Resources(applied.p),
           \E y \in Above(x, LAMBDA n : DeclaredV2(applied.p, n).from) : y.id = r.resource
    PROVE  <<x, AvailableRolesList, RoleObject(R, r)>> \in Holds(schema, relationships, Subs)
<1> DEFINE p    == applied.p
           role == RoleObject(R, r)
           H    == Holds(schema, relationships, Subs)
           up   == {t \in relationships : t.rel \in DeclaredV2(p, t.obj.type).from}
           Good == {z \in {h[1] : h \in H} : <<z, AvailableRolesList, role>> \in H}
<1>1. /\ Served /\ Fits(p, schema, relationships) /\ DOMAIN schema = DOMAIN applied.rt
      /\ r.resource # Wildcard
  BY AppliedRBAC, IdsAssumption DEF Kept, Served, Typed, Rows, SchemaIs
<1>2. Above(x, LAMBDA n : DeclaredV2(p, n).from) = Reachable(x, up)
  BY AboveReachable
<1>3. PICK y \in Reachable(x, up) : y.id = r.resource
  BY <1>2
<1> HIDE DEF H, role
<1>4. \A z : z \in Good <=> <<z, AvailableRolesList, role>> \in H
  OBVIOUS
<1>5. ASSUME NEW t \in up, t.sub \in Good PROVE t.obj \in Good
  <2>1. t \in relationships /\ t.rel \in DeclaredV2(p, t.obj.type).from
    OBVIOUS
  <2>2. <<t.sub, AvailableRolesList, role>> \in H
    BY <1>4, <1>5
  <2> HIDE DEF Good, up
  <2>3. <<t.obj, AvailableRolesList, role>> \in H
    BY <1>1, <2>1, <2>2, HeldAvailable DEF H, role
  <2> QED
    BY <1>4, <2>3
<1>6. r.id[1] # RolePrefix
  BY <1>1, V2PrefixApplied
<1>7. PICK o : /\ Identified(o) /\ o.id = r.resource
               /\ Tuple(o, RoleOwnerMemberRoleRelation, role) \in relationships
  BY <1>6 DEF Stored, RowWritten, OwnedBy, role
<1>8. PICK t \in relationships : t = Tuple(o, RoleOwnerMemberRoleRelation, role)
  BY <1>7
<1>9. /\ t.obj = o /\ t.rel = RoleOwnerMemberRoleRelation /\ t.sub = role /\ t.subrel = NoName
      /\ o.type \in DOMAIN applied.rt
  BY <1>1, <1>8, TupleParts, SubjectsTyped
<1>10. <<o, AvailableRolesList, role>> \in H
  <2>1. o.type \in Elements(p.rbac.owners)
    BY <1>1, <1>9, OwnersTyped
  <2>2. <<o, RoleOwnerMemberRoleRelation, role>> \in H
    BY <1>1, <1>9, HeldByRelation DEF H, role
  <2> QED
    BY <1>1, <1>9, <2>1, <2>2, HeldAvailable DEF H, role
<1>11. y = o
  <2>1. up \in SUBSET relationships
    OBVIOUS
  <2> HIDE DEF up
  <2> QED
    BY <1>1, <1>3, <1>7, <1>9, <2>1, ReachedIs
<1>12. y \in Good
  BY <1>4, <1>10, <1>11
<1>13. x \in Good
  <2> HIDE DEF Good, up
  <2> QED
    BY <1>3, <1>5, <1>12, ReachesBack
<1> QED
  BY <1>4, <1>13 DEF H, role

(* What a role binding's row grants, its resource gives.                   *)
LEMMA StoredBindingHeld ==
    ASSUME SteadyFiles, NEW R, Common(R), Kept(R), Stored(R), applied.p.rbac.on,
           NEW b \in roleBindings, NEW r \in roles, b.role = r.id,
           NEW a \in r.actions, a \in ActionNames(applied.p),
           NEW Subs, Settled(schema, relationships, Subs),
           NEW s \in Subs, s.type \in Elements(R.subjectTypes), s \in Resources(applied.p),
           SubjectOf(applied.p, b, s, Holds(schema, relationships, Subs))
    PROVE  \E t \in relationships :
              /\ Identified(t.obj) /\ t.obj.id = b.resource /\ t.rel = GrantRelationship
              /\ <<t.sub, a, s>> \in Holds(schema, relationships, Subs)
<1> DEFINE p  == applied.p
           H  == Holds(schema, relationships, Subs)
           rb == BindingObject(R, b)
<1>1. /\ Served /\ Fits(p, schema, relationships) /\ DOMAIN schema = DOMAIN applied.rt
      /\ p.rbac = R /\ p.rbac.role = R.role
  BY AppliedRBAC DEF Kept, SchemaIs
<1>2. b.role[1] = R.role.prefix /\ BindingWritten(R, b, relationships)
  BY DEF Stored, BindingWritten
<1>3. \A t \in relationships : t.obj.type \in DOMAIN schema /\ t.sub.type \in DOMAIN applied.rt
  BY <1>1, SubjectsTyped
<1> HIDE DEF H, p
<1>4. <<Object(R.role.name, b.role), ActionRelation(a), s>> \in H
  <2>1. R.role.prefix # RolePrefix
    BY <1>1, V2PrefixApplied
  <2>2. Tuple(RoleObject(R, r), ActionRelation(a), All(s.type)) \in relationships
    BY <1>2, <2>1 DEF Kept, RowShown
  <2>3. PICK t \in relationships : t = Tuple(RoleObject(R, r), ActionRelation(a), All(s.type))
    BY <2>2
  <2>4. /\ t.obj = Object(R.role.name, b.role) /\ t.rel = ActionRelation(a)
        /\ t.sub = All(s.type) /\ t.subrel = NoName
    BY <2>3, TupleParts DEF RoleObject
  <2> QED
    BY <1>3, <2>4, HeldByRelation DEF H
<1>5. <<rb, RolebindingSubjectRelation, s>> \in H
  <2>1. PICK z : Identified(z) /\ z.id = b.subject /\ SubjectIs(R, b, z) \in relationships
    BY <1>2 DEF BindingWritten
  <2>2. PICK t \in relationships : t = SubjectIs(R, b, z)
    BY <2>1
  <2>3. /\ t.obj = rb /\ t.rel = RolebindingSubjectRelation /\ t.sub = z
        /\ t.subrel = ByName(R.subjects)[z.type].subrel
    BY <2>2, TupleParts DEF SubjectIs
  <2>4. TypeOf(b.subject) = z.type /\ Resource(b.subject) = z
    BY <1>1, <1>3, <2>1, <2>3, TypeFound DEF p
  <2>5. SubjectOf(p, b, s, H)
    BY DEF p, H
  <2>6. CASE t.subrel = NoName
    <3>1. s.id = b.subject
      BY <1>1, <2>3, <2>4, <2>5, <2>6 DEF SubjectOf
    <3>2. PICK id : s = Resource(id)
      BY Zenon DEF Resources
    <3>3. s = z
      BY <2>4, <3>1, <3>2 DEF Resource, Object
    <3> QED
      BY <1>3, <2>3, <2>6, <3>3, HeldByRelation DEF H
  <2>7. CASE t.subrel # NoName
    <3>1. <<t.sub, t.subrel, s>> \in H
      BY <1>1, <2>3, <2>4, <2>5, <2>7 DEF SubjectOf
    <3> QED
      BY <1>3, <2>3, <2>7, <3>1, HeldByRelation DEF H
  <2> QED
    BY <2>6, <2>7
<1>6. <<rb, a, s>> \in H
  <2>1. PICK t \in relationships : t = RoleOf(R, b)
    BY <1>2 DEF BindingWritten
  <2>2. /\ t.obj = rb /\ t.rel = RolebindingRoleRelation
        /\ t.sub = Object(R.role.name, b.role) /\ rb.type = R.roleBinding.name
    BY <2>1, TupleParts DEF RoleOf, BindingObject, Object
  <2>3. t.obj.type = p.rbac.roleBinding.name /\ a \in ActionNames(p)
    BY <1>1, <2>2 DEF p
  <2> HIDE DEF rb
  <2>4. \A c \in ActionNames(p) :
           /\ <<t.sub, ActionRelation(c), s>> \in Holds(schema, relationships, Subs)
           /\ <<t.obj, RolebindingSubjectRelation, s>> \in Holds(schema, relationships, Subs)
           => <<t.obj, c, s>> \in Holds(schema, relationships, Subs)
    BY <1>1, <2>2, <2>3, HeldByRoleBinding
  <2> QED
    BY <1>4, <1>5, <2>2, <2>3, <2>4 DEF H
<1>7. PICK x : Identified(x) /\ x.id = b.resource /\ GrantOn(R, b, x) \in relationships
  BY <1>2 DEF BindingWritten
<1>8. PICK t \in relationships : t = GrantOn(R, b, x)
  BY <1>7
<1>9. t.obj = x /\ t.rel = GrantRelationship /\ t.sub = rb
  BY <1>8, TupleParts DEF GrantOn
<1> QED
  BY <1>6, <1>7, <1>9 DEF H

(* ... and what the row of a V1 role grants.                               *)
LEMMA StoredRoleHeld ==
    ASSUME SteadyFiles, NEW R, Common(R), Kept(R), Stored(R), applied.p.rbac.on,
           NEW r \in roles, r.id[1] = RolePrefix, NEW a \in r.actions,
           NEW Subs, Settled(schema, relationships, Subs), NEW s \in Subs,
           Tuple(Object(RoleTypeV1, r.id), RolebindingSubjectRelation, s) \in relationships
    PROVE  \E t \in relationships :
              /\ Identified(t.obj) /\ t.obj.id = r.resource
              /\ <<t.obj, ActionRelation(a), s>> \in Holds(schema, relationships, Subs)
<1> DEFINE H    == Holds(schema, relationships, Subs)
           role == Object(RoleTypeV1, r.id)
<1>1. \A t \in relationships : t.obj.type \in DOMAIN schema
  BY AppliedRBAC, SubjectsTyped DEF Kept, SchemaIs
<1> HIDE DEF H
<1>2. <<role, RolebindingSubjectRelation, s>> \in H
  <2>1. PICK t \in relationships : t = Tuple(role, RolebindingSubjectRelation, s)
    OBVIOUS
  <2>2. t.obj = role /\ t.rel = RolebindingSubjectRelation /\ t.sub = s /\ t.subrel = NoName
    BY <2>1, TupleParts
  <2> QED
    BY <1>1, <2>2, HeldByRelation DEF H
<1>3. PICK x : /\ Identified(x) /\ x.id = r.resource
               /\ TupleTo(x, ActionRelation(a), role, RolebindingSubjectRelation) \in relationships
  BY DEF Stored, RowWritten, GivenTo
<1>4. PICK t \in relationships :
         t = TupleTo(x, ActionRelation(a), role, RolebindingSubjectRelation)
  BY <1>3
<1>5. /\ t.obj = x /\ t.rel = ActionRelation(a) /\ t.sub = role
      /\ t.subrel = RolebindingSubjectRelation /\ RolebindingSubjectRelation # NoName
  BY <1>4, TupleParts, ReservedDiffer
<1>6. <<x, ActionRelation(a), s>> \in H
  BY <1>1, <1>2, <1>5, HeldByRelation DEF H
<1> QED
  BY <1>3, <1>5, <1>6 DEF H

(* What is granted on an object is held there ...                          *)
LEMMA GrantedHeld ==
    ASSUME SteadyFiles, NEW R, Common(R), Kept(R), Stored(R), applied.p.rbac.on,
           NEW a \in ActionNames(applied.p),
           NEW Subs, Settled(schema, relationships, Subs),
           NEW s \in Subs, s.type \in Elements(R.subjectTypes), s \in Resources(applied.p),
           NEW x \in Resources(applied.p), NEW up \in SUBSET relationships,
           NEW y \in Reachable(x, up),
           Granted(applied.p, y, a, s, Holds(schema, relationships, Subs))
    PROVE  <<y, a, s>> \in Holds(schema, relationships, Subs)
<1> DEFINE p == applied.p
           H == Holds(schema, relationships, Subs)
<1>1. /\ Served /\ Fits(p, schema, relationships) /\ a # NoName
  BY AppliedRBAC, ActionsNamed DEF Kept
<1>2. /\ \A b \in roleBindings : b.resource # Wildcard
      /\ \A r \in roles : r.resource # Wildcard
  BY <1>1, IdsAssumption DEF Served, Typed, Rows
<1>3. ASSUME NEW t \in relationships, Identified(t.obj), t.obj.id = y.id, t.obj.id # Wildcard
      PROVE  t.obj = y
  BY <1>1, <1>3, SubjectsTyped, ReachedIs
<1> HIDE DEF H
<1>4. CASE /\ GrantsV2(p, y.type, a)
           /\ \E b \in roleBindings, r \in roles :
                 /\ b.resource = y.id /\ b.role = r.id /\ a \in r.actions
                 /\ SubjectOf(p, b, s, H)
  <2>1. PICK b \in roleBindings, r \in roles :
                 /\ b.resource = y.id /\ b.role = r.id /\ a \in r.actions
                 /\ SubjectOf(p, b, s, Holds(schema, relationships, Subs))
    BY <1>4 DEF H
  <2>2. PICK c \in r.actions : c = a
    BY <2>1
  <2>3. PICK t \in relationships :
              /\ Identified(t.obj) /\ t.obj.id = b.resource /\ t.rel = GrantRelationship
              /\ <<t.sub, c, s>> \in Holds(schema, relationships, Subs)
    BY <2>1, <2>2, StoredBindingHeld
  <2>4. t.obj = y
    BY <1>2, <1>3, <2>1, <2>3
  <2> QED
    BY <1>1, <1>4, <2>2, <2>3, <2>4, HeldByGrant DEF H
<1>5. CASE /\ GrantsV1(p, y.type, a)
           /\ \E r \in roles :
                 /\ r.id[1] = RolePrefix /\ r.resource = y.id /\ a \in r.actions
                 /\ Tuple(Object(RoleTypeV1, r.id), RolebindingSubjectRelation, s) \in relationships
  <2>1. PICK r \in roles :
                 /\ r.id[1] = RolePrefix /\ r.resource = y.id /\ a \in r.actions
                 /\ Tuple(Object(RoleTypeV1, r.id), RolebindingSubjectRelation, s) \in relationships
    BY <1>5
  <2>2. PICK c \in r.actions : c = a
    BY <2>1
  <2>3. PICK t \in relationships :
              /\ Identified(t.obj) /\ t.obj.id = r.resource
              /\ <<t.obj, ActionRelation(c), s>> \in Holds(schema, relationships, Subs)
    BY <2>1, <2>2, StoredRoleHeld
  <2>4. t.obj = y
    BY <1>2, <1>3, <2>1, <2>3
  <2> QED
    BY <1>1, <1>5, <2>2, <2>3, <2>4, HeldByV1 DEF H
<1> QED
  BY <1>4, <1>5 DEF Granted, H

(* ... and by what inherits it.                                            *)
LEMMA InheritedHeld ==
    ASSUME SteadyFiles, NEW R, Common(R), Kept(R), applied.p.rbac.on,
           InheritsPlainly(applied), NEW a \in GrantedActions(applied), a \in ActionNames(applied.p),
           NEW Subs, Settled(schema, relationships, Subs), NEW s \in Subs,
           NEW t \in relationships, t.rel \in InheritedAlong(applied.p, t.obj.type, a),
           <<t.sub, a, s>> \in Holds(schema, relationships, Subs)
    PROVE  <<t.obj, a, s>> \in Holds(schema, relationships, Subs)
<1> DEFINE p == applied.p
           n == t.obj.type
<1>1. /\ Served /\ Fits(p, schema, relationships) /\ a # NoName /\ n \in DOMAIN applied.rt
  BY AppliedRBAC, ActionsNamed, SubjectsTyped DEF Kept
<1>2. ASSUME NEW c \in BoundWith(p, n, a, "RelationshipAction"), c.relation = t.rel
      PROVE  <<t.obj, a, s>> \in Holds(schema, relationships, Subs)
  <2>1. c.action = a
    BY <1>1 DEF InheritsPlainly
  <2> QED
    BY <1>1, <1>2, <2>1, HeldByCondition
<1>3. ASSUME GrantsV2(p, n, a), DeclaredV2(p, n).all \/ a \in RoleBindingActions,
             t.rel \in DeclaredV2(p, n).from
      PROVE  <<t.obj, a, s>> \in Holds(schema, relationships, Subs)
  BY <1>1, <1>3, HeldByGrant
<1> QED
  BY <1>2, <1>3 DEF InheritedAlong

LEMMA StoredGranted ==
    ASSUME SteadyFiles, NEW R, Common(R), Kept(R), Stored(R), applied.p.rbac.on,
           InheritsPlainly(applied), NEW a \in GrantedActions(applied),
           NEW Subs, Settled(schema, relationships, Subs),
           NEW s \in Subs, s.type \in Elements(R.subjectTypes), s \in Resources(applied.p),
           NEW x \in Resources(applied.p),
           \E y \in Above(x, LAMBDA n : InheritedAlong(applied.p, n, a)) :
              Granted(applied.p, y, a, s, Holds(schema, relationships, Subs))
    PROVE  <<x, a, s>> \in Holds(schema, relationships, Subs)
<1> DEFINE p    == applied.p
           H    == Holds(schema, relationships, Subs)
           up   == {t \in relationships : t.rel \in InheritedAlong(p, t.obj.type, a)}
           Good == {z \in {h[1] : h \in H} : <<z, a, s>> \in H}
<1>1. a \in ActionNames(p)
  <2>1. applied = NewPolicy(p) /\ Accepted(p)
    BY AppliedRBAC DEF Kept
  <2>2. applied.ac = ActionNames(p)
    BY <2>1, AcceptedParts, PolicyTypes
  <2> QED
    BY <2>2 DEF GrantedActions
<1>2. Above(x, LAMBDA n : InheritedAlong(p, n, a)) = Reachable(x, up)
  BY AboveReachable
<1>3. PICK y \in Reachable(x, up) : Granted(p, y, a, s, Holds(schema, relationships, Subs))
  BY <1>2
<1> HIDE DEF H
<1>4. \A z : z \in Good <=> <<z, a, s>> \in H
  OBVIOUS
<1>5. up \in SUBSET relationships
  OBVIOUS
<1>6. ASSUME NEW t \in up, t.sub \in Good PROVE t.obj \in Good
  <2>1. t \in relationships /\ t.rel \in InheritedAlong(p, t.obj.type, a)
    OBVIOUS
  <2>2. <<t.sub, a, s>> \in H
    BY <1>4, <1>6
  <2> HIDE DEF Good, up
  <2>3. <<t.obj, a, s>> \in H
    BY <1>1, <2>1, <2>2, InheritedHeld DEF H
  <2> QED
    BY <1>4, <2>3
<1> HIDE DEF Good, up
<1>7. \A c \in ActionNames(p) : Granted(p, y, c, s, Holds(schema, relationships, Subs)) =>
         <<y, c, s>> \in Holds(schema, relationships, Subs)
  BY <1>3, <1>5, GrantedHeld
<1>8. y \in Good
  BY <1>1, <1>3, <1>4, <1>7 DEF H
<1>9. x \in Good
  BY <1>3, <1>6, <1>8, ReachesBack
<1> QED
  BY <1>4, <1>9 DEF H

-----------------------------------------------------------------------------
(* All the roles of a resource and of those above it are available there,  *)
(* where SpiceDB's search for them has settled.                            *)
THEOREM AvailableFromAbove ==
    ASSUME SteadyFiles, OwnEvents
    PROVE  Spec => [](Settled(schema, relationships,
                              {Object(applied.p.rbac.role.name, r.id) : r \in roles})
                         => AvailableAsAbove)
<1> DEFINE Subs == {Object(applied.p.rbac.role.name, r.id) : r \in roles}
<1>1. PICK R : Common(R)
  BY CommonExists
<1>2. Kept(R) /\ Stored(R) => (Settled(schema, relationships, Subs) => AvailableAsAbove)
  <2> SUFFICES ASSUME Kept(R), Stored(R), Settled(schema, relationships, Subs), applied.p.rbac.on
               PROVE  AvailableAsAbove
    BY DEF AvailableAsAbove
  <2>1. applied.p.rbac = R
    BY <1>1, AppliedRBAC DEF Kept
  <2>2. SUFFICES ASSUME NEW x \in Resources(applied.p), NEW r \in roles,
                        r.id[1] = applied.p.rbac.role.prefix,
                        \E y \in Above(x, LAMBDA n : DeclaredV2(applied.p, n).from) :
                           y.id = r.resource
                 PROVE  <<x, AvailableRolesList, Object(applied.p.rbac.role.name, r.id)>>
                            \in Holds(schema, relationships, Subs)
    BY DEF AvailableAsAbove
  <2>3. Object(applied.p.rbac.role.name, r.id) = RoleObject(R, r) /\ RoleObject(R, r) \in Subs
    BY <2>1 DEF RoleObject
  <2> HIDE DEF Subs
  <2> QED
    BY <1>1, <2>1, <2>2, <2>3, StoredAvailable
<1> QED
  BY <1>1, <1>2, StoredAlways, PTL

(* A subject may do no less than the roles say that were granted to it on  *)
(* the resource or above it, where SpiceDB's search has settled.           *)
THEOREM AllAsGranted ==
    ASSUME SteadyFiles, OwnEvents
    PROVE  Spec => [](Settled(schema, relationships, SubjectsOf(applied.p))
                         => PermissionsAsGranted)
<1>1. PICK R : Common(R)
  BY CommonExists
<1>2. Kept(R) /\ Stored(R) =>
         (Settled(schema, relationships, SubjectsOf(applied.p)) => PermissionsAsGranted)
  <2> DEFINE p    == applied.p
             Subs == SubjectsOf(p)
             H    == Holds(schema, relationships, Subs)
  <2>1. SUFFICES ASSUME Kept(R), Stored(R), Settled(schema, relationships, Subs),
                        p.rbac.on, InheritsPlainly(applied),
                        NEW x \in Resources(p), NEW a \in GrantedActions(applied), NEW s \in Subs,
                        \E y \in Above(x, LAMBDA n : InheritedAlong(p, n, a)) :
                           Granted(p, y, a, s, H)
                 PROVE  <<x, a, s>> \in H
    BY DEF PermissionsAsGranted
  <2>2. s.type \in Elements(R.subjectTypes) /\ s \in Resources(p)
    BY <1>1, <2>1, AppliedRBAC DEF Kept, SubjectsOf
  <2> HIDE DEF Subs
  <2> QED
    BY <1>1, <2>1, <2>2, StoredGranted
<1> QED
  BY <1>1, <1>2, StoredAlways, PTL

=============================================================================
