--------------------------- MODULE ProductCatalog ---------------------------
(***************************************************************************)
(* Product types and the offers, relationships, instances and packages     *)
(* made of them.  A stored entry or instance holds the type object it was  *)
(* made with: redefining a type leaves it as it was.                       *)
(***************************************************************************)
EXTENDS ProductRules

CONSTANTS TypeCommands,  \* what product types may be asked for
          Categories,
          Dates,         \* 1..n; NoDate stands for an open end
          RelationTypes,
          Policy(_, _, _), \* the relationship policy of the caller
          Values,        \* feature values instances may be given
          Structures,    \* sequences of selection rules
          MaxQuantity,   \* bound: quantity of a line of a package selection
          MaxObjects     \* bound: entries, relations, instances and packages made

NoDate == 0

ASSUME CatalogAssumption ==
  /\ \A s \in Structures : s \in Seq(SelectionRules)
  /\ Dates \subseteq Nat \ {NoDate}
  /\ MaxQuantity \in Nat

NoType == [id |-> "none"]

VARIABLES types,      \* the type repository
          entries,    \* catalog entries, by number of creation
          relations,  \* relationships that exist
          instances,  \* product instances, in order of creation
          packages,   \* package instances
          made,       \* objects made so far, the source of identifiers
          offered     \* history: the last dates each entry was given

cvars == <<types, entries, relations, instances, packages, made, offered>>

CInit == /\ types = [p \in ProductIds |-> NoType]
         /\ entries = <<>>
         /\ relations = {}
         /\ instances = <<>>
         /\ packages = {}
         /\ made = 0
         /\ offered = <<>>

IsDefined(p) == types[p] # NoType
Make == made < MaxObjects /\ made' = made + 1

(***************************************************************************)
(* Types                                                                   *)
(***************************************************************************)
Strategies == {"UNIQUE", "INDIVIDUALLY_TRACKED", "BATCH_TRACKED",
               "INDIVIDUALLY_AND_BATCH_TRACKED", "IDENTICAL"}

\* ProductTypeBuilder.build; nothing is built for a strategy the enumeration lacks.
BuildProductType(c) ==
  [id |-> c.id, strategy |-> c.strategy, applicability |-> c.applicability,
   features |-> FeatureTypes(DefinitionsOf(c.mandatory, c.optional))]

\* save replaces the type that has the identifier.
Save(type) ==
  /\ type.strategy \in Strategies
  /\ types' = [types EXCEPT ![type.id] = type]
  /\ UNCHANGED <<entries, relations, instances, packages, made, offered>>

\* A command has no constraint to give; a type with one is built and saved by its
\* author, who shares the repository with the facade.
DefineProductType(c) == c.applicability = AlwaysTrue /\ Save(BuildProductType(c))
SaveProductType(c) == c.applicability # AlwaysTrue /\ Save(BuildProductType(c))

\* The type objects a caller may hold: those stored and those entries keep.
TypeObjects == { types[p] : p \in { q \in ProductIds : IsDefined(q) } }
                 \union { entries[e].product : e \in DOMAIN entries }

(***************************************************************************)
(* The catalog                                                             *)
(***************************************************************************)
IsValidity(from, to) == from = NoDate \/ to = NoDate \/ from <= to
IsValidAt(entry, date) == /\ entry.from = NoDate \/ entry.from <= date
                          /\ entry.to = NoDate \/ date <= entry.to

AddToOffer(p, categories, from, to) ==
  /\ Make /\ IsDefined(p) /\ IsValidity(from, to)
  /\ entries' = Append(entries, [product |-> types[p], categories |-> categories,
                                 from |-> from, to |-> to, metadata |-> {}])
  /\ offered' = Append(offered, [from |-> from, to |-> to])
  /\ UNCHANGED <<types, relations, instances, packages>>

\* The end the entry has is not looked at: a later date prolongs the offer.
Discontinue_KeepsEarlierEnd(e, date) ==
  /\ IsValidity(entries[e].from, date)
  /\ entries' = [entries EXCEPT ![e].to = IF @ # NoDate /\ @ < date THEN @ ELSE date]
  /\ offered' = [offered EXCEPT ![e].to = date]
  /\ UNCHANGED <<types, relations, instances, packages, made>>
Discontinue(e, date) ==
  /\ IsValidity(entries[e].from, date)
  /\ entries' = [entries EXCEPT ![e].to = date]
  /\ offered' = [offered EXCEPT ![e].to = date]
  /\ UNCHANGED <<types, relations, instances, packages, made>>

UpdateMetadata(e, metadata) ==
  /\ entries' = [entries EXCEPT ![e].metadata = metadata]
  /\ UNCHANGED <<types, relations, instances, packages, made, offered>>

FindByCategory(category) == { e \in DOMAIN entries : category \in entries[e].categories }
FindByAvailableAt(date) == { e \in DOMAIN entries : IsValidAt(entries[e], date) }

\* findBySearch: an empty criterion admits every entry.  Requested feature values
\* are texts, so a feature of another type than TEXT or DATE is never matched.
HasFeature(entry, name, texts) ==
  /\ name \in DOMAIN entry.product.features
  /\ \E text \in texts : IsValid(entry.product.features[name], text)
FindBySearch(categories, date, p, features) ==
  { e \in DOMAIN entries :
      /\ categories = {} \/ categories \intersect entries[e].categories # {}
      /\ date = NoDate \/ IsValidAt(entries[e], date)
      /\ p = "" \/ entries[e].product.id = p
      /\ \A f \in features : HasFeature(entries[e], f.name, f.texts) }

(***************************************************************************)
(* Relationships                                                           *)
(***************************************************************************)
CanRelate(from, to, type) == IsDefined(from) /\ IsDefined(to) /\ Policy(from, to, type)

DefineProductRelationship(from, to, type) ==
  /\ Make /\ CanRelate(from, to, type)
  /\ relations' = relations \union { [id |-> made, from |-> from, to |-> to, type |-> type] }
  /\ UNCHANGED <<types, entries, instances, packages, offered>>

RemoveProductRelationship(id) ==
  /\ relations' = { r \in relations : r.id # id }
  /\ UNCHANGED <<types, entries, instances, packages, made, offered>>

(***************************************************************************)
(* Instances                                                               *)
(***************************************************************************)
\* The features are given values under the feature types of "source", which need
\* not be the version of the type the instance is built for.
BuildInstance(type, source, values, hasSerial, hasBatch) ==
  /\ Make
  /\ \A n \in DOMAIN values : IsValid(source.features[n], values[n])
  /\ MeetsTracking(type.strategy, hasSerial, hasBatch)
  /\ MeetsFeatures(values, type.features)
  /\ instances' = Append(instances, [type |-> type, source |-> source, values |-> values])
  /\ UNCHANGED <<types, entries, relations, packages, offered>>

\* A selection is a sequence of [instance, quantity].
Products(selection) ==
  [ k \in DOMAIN selection |-> [product  |-> instances[selection[k].instance].type.id,
                                quantity |-> selection[k].quantity] ]

BuildPackage(structure, strategy, selection, hasSerial, hasBatch) ==
  /\ Make /\ selection # <<>>
  /\ PackageMeetsTracking(strategy, hasSerial, hasBatch)
  /\ Violated(structure, Products(selection)) = {}
  /\ packages' = packages \union { [structure |-> structure, selection |-> selection] }
  /\ UNCHANGED <<types, entries, relations, instances, offered>>

Selections == UNION { [1..n -> [instance : DOMAIN instances, quantity : 1..MaxQuantity]]
                      : n \in 1..2 }

CNext ==
  \/ \E c \in TypeCommands : DefineProductType(c) \/ SaveProductType(c)
  \/ \E p \in ProductIds, categories \in SUBSET Categories,
        from, to \in Dates \union {NoDate} : AddToOffer(p, categories, from, to)
  \/ \E e \in DOMAIN entries : \/ \E date \in Dates : Discontinue(e, date)
                               \/ \E m \in SUBSET {"promo"} : UpdateMetadata(e, m)
  \/ \E from, to \in ProductIds, type \in RelationTypes : DefineProductRelationship(from, to, type)
  \/ \E id \in 0..made : RemoveProductRelationship(id)
  \/ \E type, source \in TypeObjects, hasSerial, hasBatch \in BOOLEAN :
       \E names \in SUBSET DOMAIN source.features : \E values \in [names -> Values] :
         BuildInstance(type, source, values, hasSerial, hasBatch)
  \/ \E structure \in Structures, strategy \in Strategies, selection \in Selections,
        hasSerial, hasBatch \in BOOLEAN :
       BuildPackage(structure, strategy, selection, hasSerial, hasBatch)

CSpec == CInit /\ [][CNext]_cvars

(***************************************************************************)
(* Properties                                                              *)
(***************************************************************************)

\* An entry is on offer from the first to the last date it was last given, both
\* included, whatever was done to it or its type in between, and the combined
\* search finds just the entries that each of the single searches finds
\* (CatalogEntry.withValidity, ProductCatalog.findBySearch, findByAvailableAt).
OfferWindow ==
  \A date \in Dates :
    /\ FindByAvailableAt(date) =
         { e \in DOMAIN entries : /\ offered[e].from = NoDate \/ date >= offered[e].from
                                  /\ offered[e].to = NoDate \/ date <= offered[e].to }
    /\ \A category \in Categories :
         FindBySearch({category}, date, "", {}) =
           FindByAvailableAt(date) \intersect FindByCategory(category)

\* A package is judged by how many of each product it holds, not by how its
\* selection is split into lines, and what it holds was built whole: every
\* instance has the mandatory features of its type, with values its type accepts
\* when they were given under that same type (PackageInstance, ProductInstance,
\* IsSubsetOf.isSatisfiedBy).
PerProduct(held) ==
  LET ids == SetToSeq({ held[k].product : k \in DOMAIN held })
  IN [ n \in DOMAIN ids |->
         [product  |-> ids[n],
          quantity |-> MapThenSumSet(LAMBDA k : held[k].quantity,
                                     { k \in DOMAIN held : held[k].product = ids[n] })] ]

PackagesHoldTheirRules ==
  \A b \in packages :
    /\ Violated(b.structure, PerProduct(Products(b.selection))) = {}
    /\ \A k \in DOMAIN b.selection :
         LET i == instances[b.selection[k].instance]
         IN /\ \A n \in DOMAIN i.type.features :
                 i.type.features[n].mandatory => n \in DOMAIN i.values
            /\ i.source = i.type =>
                 \A n \in DOMAIN i.values : IsValid(i.type.features[n], i.values[n])
=============================================================================
