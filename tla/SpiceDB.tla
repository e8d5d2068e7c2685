------------------------------ MODULE SpiceDB ------------------------------
(***************************************************************************)
(* What SpiceDB makes of a schema: which schemas it takes, which           *)
(* relationships it lets be written under one, and who holds a permission. *)
(* The program talks to it only; this is what its code relies on.          *)
(*                                                                         *)
(* A schema is what Policy's operator Schema returns; "once" says that no  *)
(* subject is listed twice for a relation.  A relationship is              *)
(* [obj, rel, sub, subrel], an object [type, id]; the identifier Wildcard  *)
(* stands for every object of the type.                                    *)
(***************************************************************************)
EXTENDS Naturals, Sequences, FiniteSets

CONSTANT Depth   \* bound on the steps between a resource and a subject

ASSUME DepthAssumption == Depth \in Nat

Object(type, id) == [type |-> type, id |-> id]
Wildcard         == <<"*">>
All(type)        == Object(type, Wildcard)

Tuple(o, r, s)        == [obj |-> o, rel |-> r, sub |-> s, subrel |-> <<>>]
TupleTo(o, r, s, via) == [obj |-> o, rel |-> r, sub |-> s, subrel |-> via]

RelationNames(d) == {r.relation : r \in d.relations}
ActionNamesOf(d) == {a.name : a \in d.actions}

(* the names of a definition: no two relations or permissions share one    *)
NamesDiffer(d) ==
    /\ RelationNames(d) \cap ActionNamesOf(d) = {}
    /\ \A r, s \in d.relations : r.relation = s.relation => r = s
    /\ \A a, b \in d.actions : a.name = b.name => a = b

WildcardFree(d, name) ==
    \A r \in d.relations : r.relation = name => \A t \in r.targets : ~t.wild

(* a subject of a relation: a type that is defined, everyone of the type,  *)
(* or those of a relation or permission of it, but not of a relation that  *)
(* everyone may have                                                       *)
TargetDefined(schema, t) ==
    /\ t.name \in DOMAIN schema
    /\ \/ t.subrel = <<>>
       \/ /\ t.subrel \in RelationNames(schema[t.name]) \cup ActionNamesOf(schema[t.name])
          /\ ~t.wild /\ WildcardFree(schema[t.name], t.subrel)

(* a name of the definition itself, or an arrow along one of its relations *)
(* that no wildcard is a subject of                                        *)
ArrowResolved(d, w) ==
    IF w.action = <<>>
    THEN w.relation \in RelationNames(d) \cup ActionNamesOf(d)
    ELSE w.relation \in RelationNames(d) /\ WildcardFree(d, w.relation)

(* what the schema says of a permission: see Permission                    *)
ArrowsIn(a) == IF a.any # {} THEN a.any ELSE UNION a.all

DefinitionTaken(schema, n) ==
    LET d == schema[n] IN
    /\ NamesDiffer(d)
    /\ \A r \in d.relations : /\ r.targets # {} /\ r.once
                              /\ \A t \in r.targets : TargetDefined(schema, t)
    /\ \A a \in d.actions : /\ ArrowsIn(a) # {} /\ (a.any = {} => {} \notin a.all)
                            /\ \A w \in ArrowsIn(a) : ArrowResolved(d, w)

SchemaTaken(schema) == \A n \in DOMAIN schema : DefinitionTaken(schema, n)

-----------------------------------------------------------------------------
(* A relationship may be written if a target of its relation allows its    *)
(* subject.                                                                *)
Allows(t, s, subrel) ==
    /\ t.name = s.type /\ (t.wild <=> s.id = Wildcard) /\ t.subrel = subrel

Admits(schema, t) ==
    /\ t.obj.type \in DOMAIN schema
    /\ \E r \in schema[t.obj.type].relations :
          r.relation = t.rel /\ \E target \in r.targets : Allows(target, t.sub, t.subrel)

-----------------------------------------------------------------------------
(* Holds(schema, tuples, Subs) is the set of the <<object, name, subject>> *)
(* such that the subject, one of Subs, is among the object's relation or   *)
(* permission of that name: what is reached from the relationships in at   *)
(* most Depth steps.                                                       *)
InRelation(known, tuples, o, r, s) ==
    \E t \in tuples :
        /\ t.obj = o /\ t.rel = r
        /\ \/ t.subrel = <<>> /\ t.sub \in {s, All(s.type)}
           \/ t.subrel # <<>> /\ <<t.sub, t.subrel, s>> \in known

AlongArrow(known, tuples, o, w, s) ==
    IF w.action = <<>>
    THEN <<o, w.relation, s>> \in known
    ELSE \E t \in tuples : /\ t.obj = o /\ t.rel = w.relation
                           /\ <<t.sub, w.action, s>> \in known

Permits(known, tuples, o, a, s) ==
    IF a.any # {}
    THEN \E w \in a.any : AlongArrow(known, tuples, o, w, s)
    ELSE a.all # {} /\ \A ws \in a.all : \E w \in ws : AlongArrow(known, tuples, o, w, s)

Holds(schema, tuples, Subs) ==
    LET Objs == {o \in {t.obj : t \in tuples} : o.type \in DOMAIN schema}
        related(known) ==
            UNION {{<<o, r, s>> : s \in {x \in Subs : InRelation(known, tuples, o, r, x)}} :
                      o \in Objs, r \in {t.rel : t \in tuples}}
        permitted(known) ==
            UNION {UNION {{<<o, a.name, s>> :
                              s \in {x \in Subs : Permits(known, tuples, o, a, x)}} :
                                 a \in schema[o.type].actions} : o \in Objs}
        reached[n \in 0..Depth] ==
            IF n = 0 THEN {}
            ELSE LET known == reached[n - 1] IN related(known) \cup permitted(known) IN
    reached[Depth]
=============================================================================
