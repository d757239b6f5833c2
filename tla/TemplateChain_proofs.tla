------------------------- MODULE TemplateChain_proofs -------------------------
(***************************************************************************)
(* Theorems about TemplateChain, for any number of edits, commands and     *)
(* faults: types, the marks that the window shows, and that the commands   *)
(* change nothing of what is built.                                        *)
(***************************************************************************)
EXTENDS TemplateChain, FiniteSetTheorems, SequenceTheorems, TLAPS

-----------------------------------------------------------------------------
(* The inductive invariant.                                                *)

Section == {"log", "api", "routing", "inbounds"}
Tag == {NoTag, "socks", "http"}
Text == {"api", "mixed", "warning", "direct", "none", "noauth", "socks"}
ItemRecord == [tag : Tag, val : Seq(Text)]
ComponentRecord == [type : Section, tag : Tag, val : Seq(Text)]
BundleRecord == [components : Seq(ComponentRecord), version : 1 .. 2]

\* A section that a configuration has is not empty, and only inbounds have several items.
IsConfig(c) ==
    /\ DOMAIN c \subseteq Section
    /\ \A s \in DOMAIN c :
          /\ c[s] \in Seq(ItemRecord) /\ c[s] # <<>>
          /\ s # "inbounds" => \E item : c[s] = <<item>>

IsChain(c) == \E ids : c \in Seq(ids)

IsRow(row) ==
    /\ row = [config |-> row.config, chain |-> row.chain, recorded |-> row.recorded]
    /\ IsConfig(row.config)
    /\ IsChain(row.chain)
    /\ DOMAIN row.recorded \subseteq ToSet(row.chain)

IsWrite(w) ==
    \/ w = SaveBundle(w.id, w.bundle) /\ w.bundle \in BundleRecord
    \/ w = DeleteBundle(w.id)
    \/ w = SaveChain(w.template, w.chain) /\ w.template \in Template /\ IsChain(w.chain)
    \/ w = SyncConfig(w.template) /\ w.template \in Template

AreWrites(work) == \A w \in work : IsWrite(w)

TemplatesTyped ==
    /\ templates = [t \in Template |-> templates[t]]
    /\ \A t \in Template : IsRow(templates[t])

BundlesTyped == \A id \in DOMAIN bundles : bundles[id] \in BundleRecord

CommandTyped ==
    /\ command = [op |-> command.op, work |-> command.work]
    /\ command.op \in {"none", "window", "rebuild", "sync", "decompose"}
    /\ AreWrites(command.work)

EffortTyped ==
    /\ effort \in [edits : 0 .. MaxTemplateEdits, faults : 0 .. MaxTemplateFaults,
                   commands : 0 .. MaxCommands]
    /\ disturbed \in BOOLEAN

TemplatesWellFormed == TemplatesTyped /\ BundlesTyped /\ CommandTyped /\ EffortTyped

\* A write that changes the bundle id, and one that changes the chain of t.
Changes(w, id) == w.do \in {"save", "delete"} /\ w.id = id
Relinks(w, t) == w.do = "chain" /\ w.template = t

\* Nothing that is left to do touches the template or a bundle of its chain, those of -DC
\* apart.
Untouched(work, t) ==
    \A w \in work :
        /\ ~Relinks(w, t)
        /\ \A id \in ToSet(templates[t].chain) : Changes(w, id) => id[1] = "template"

\* A chain that resolves, and not by a bundle of -DC, has its configuration in the row.
IsApplied(t) ==
    LET chain == templates[t].chain IN
    IsPlain(chain) /\ resolveToConfig(chain).ok =>
        resolveToConfig(chain) = [ok |-> TRUE, config |-> templates[t].config]

\* What is not yet to be synced is left alone, and its mark is true.
MarksAreTrue ==
    ~disturbed =>
        \A t \in Template :
            SyncConfig(t) \notin command.work => Untouched(command.work, t) /\ IsApplied(t)

\* A chain that a rebuild is going to write consists of bundles that will be there by then.
ChainCanBeBuilt(work, chain) ==
    \A id \in ToSet(chain) :
        /\ id \in DOMAIN bundles \/ \E w \in work : w.do = "save" /\ w.id = id
        /\ \A w \in work : ~(w.do = "delete" /\ w.id = id)

IsRebuilt(work, t) ==
    /\ isTemplateInSync(t)
    /\ \A w \in work, id \in ToSet(templates[t].chain) : ~Changes(w, id)

RebuildGoesOn ==
    ~disturbed /\ command.op = "rebuild" =>
        /\ \A w \in command.work : w.do = "chain" => ChainCanBeBuilt(command.work, w.chain)
        /\ \A t \in Template : (\E w \in command.work : Relinks(w, t)) \/ IsRebuilt(command.work, t)

TemplateInv == TemplatesWellFormed /\ MarksAreTrue /\ RebuildGoesOn

-----------------------------------------------------------------------------
(* What the operators return.                                              *)

LEMMA ListsOfSections ==
    /\ ToSet(ComponentType) = Section
    /\ DOMAIN ComponentType = 1 .. 4
    /\ \A n \in 1 .. 4 : ComponentType[n] \in Section
<1>1. DOMAIN ComponentType = 1 .. 4 /\ \A n \in 1 .. 4 : ComponentType[n] \in Section
  BY DEF ComponentType, Section
<1>2. ComponentType[1] = "log" /\ ComponentType[2] = "api" /\ ComponentType[3] = "routing"
      /\ ComponentType[4] = "inbounds"
  BY DEF ComponentType
<1>3. ToSet(ComponentType) = {ComponentType[n] : n \in 1 .. 4}
  BY <1>1 DEF ToSet
<1>4. Section \subseteq {ComponentType[n] : n \in 1 .. 4}
  BY <1>2, 1 \in 1 .. 4, 2 \in 1 .. 4, 3 \in 1 .. 4, 4 \in 1 .. 4 DEF Section
<1> QED
  BY <1>1, <1>3, <1>4

\* The loops over components, bundles and sections.
Keep(c, kept, o) == IF Replaces(c, o) THEN kept ELSE Append(kept, o)
Others(r, c) == FoldLeft(LAMBDA kept, o : IF Replaces(c, o) THEN kept ELSE Append(kept, o), <<>>, r)
MergeOne(k, r, c) == Append(Others(r, c), c)
MergeBundle(k, base, override) == mergeComponents(base, override)
ApplyOne(k, config, c) == applyComponent(config, c)
AddComponents(config, all, type) == all \o Components(config, type)
AddIds(t, chain, type) == chain \o PlannedIds(t, type)

AreComponents(k, list) == list \in Seq(ComponentRecord)
GivesConfig(k, config) == IsConfig(config)
ArePlanned(t, chain) == chain \in Seq(DOMAIN PlannedBundles)

Keeping == INSTANCE FoldTheory WITH op <- Keep, Good <- AreComponents
Merging == INSTANCE FoldTheory WITH op <- MergeOne, Good <- AreComponents
Gathering == INSTANCE FoldTheory WITH op <- MergeBundle, Good <- AreComponents
Applying == INSTANCE FoldTheory WITH op <- ApplyOne, Good <- GivesConfig
Decomposing == INSTANCE FoldTheory WITH op <- AddComponents, Good <- AreComponents
Planning == INSTANCE FoldTheory WITH op <- AddIds, Good <- ArePlanned

LEMMA OthersAreComponents ==
    ASSUME NEW r \in Seq(ComponentRecord), NEW c
    PROVE  Others(r, c) \in Seq(ComponentRecord)
<1>1. Len(r) \in Nat /\ DOMAIN r = 1 .. Len(r) /\ \A i \in 1 .. Len(r) : r[i] \in ComponentRecord
  OBVIOUS
<1>2. AreComponents(c, <<>>)
  BY DEF AreComponents
<1>3. ASSUME NEW kept, NEW i, i \in 1 .. Len(r) /\ AreComponents(c, kept)
      PROVE  AreComponents(c, Keep(c, kept, r[i]))
  BY <1>1, <1>3 DEF AreComponents, Keep
<1>4. AreComponents(c, Keeping!Result(c, <<>>, r))
  BY <1>1, <1>2, <1>3, Keeping!FoldKeeps
<1>5. Others(r, c) = Keeping!Result(c, <<>>, r)
  BY Zenon DEF Others, FoldLeft, MapThenFoldSet, Max, Keeping!Result, Keeping!MapThenFoldSet,
               Keeping!Greatest, Keep
<1> QED
  BY <1>4, <1>5 DEF AreComponents

LEMMA MergedAreComponents ==
    ASSUME NEW base \in Seq(ComponentRecord), NEW override \in Seq(ComponentRecord)
    PROVE  mergeComponents(base, override) \in Seq(ComponentRecord)
<1>1. Len(override) \in Nat /\ DOMAIN override = 1 .. Len(override)
      /\ \A i \in 1 .. Len(override) : override[i] \in ComponentRecord
  OBVIOUS
<1>2. AreComponents(0, base)
  BY DEF AreComponents
<1>3. ASSUME NEW r, NEW i, i \in 1 .. Len(override) /\ AreComponents(0, r)
      PROVE  AreComponents(0, MergeOne(0, r, override[i]))
  BY <1>1, <1>3, OthersAreComponents DEF AreComponents, MergeOne
<1>4. AreComponents(0, Merging!Result(0, base, override))
  BY <1>1, <1>2, <1>3, Merging!FoldKeeps
<1>5. mergeComponents(base, override) = Merging!Result(0, base, override)
  BY Zenon DEF mergeComponents, FoldLeft, MapThenFoldSet, Max, Merging!Result,
               Merging!MapThenFoldSet, Merging!Greatest, MergeOne, Others
<1> QED
  BY <1>4, <1>5 DEF AreComponents

\* What the bundles of a list hold together.
Merged(lists) == FoldLeft(mergeComponents, <<>>, lists)

LEMMA MergedListIsComponents ==
    ASSUME NEW n \in Nat, NEW lists, DOMAIN lists = 1 .. n,
           \A i \in 1 .. n : lists[i] \in Seq(ComponentRecord)
    PROVE  Merged(lists) \in Seq(ComponentRecord)
<1>1. AreComponents(0, <<>>)
  BY DEF AreComponents
<1>2. ASSUME NEW r, NEW i, i \in 1 .. n /\ AreComponents(0, r)
      PROVE  AreComponents(0, MergeBundle(0, r, lists[i]))
  BY <1>2, MergedAreComponents DEF AreComponents, MergeBundle
<1>3. AreComponents(0, Gathering!Result(0, <<>>, lists))
  BY <1>1, <1>2, Gathering!FoldKeeps
<1>4. Merged(lists) = Gathering!Result(0, <<>>, lists)
  BY Zenon DEF Merged, FoldLeft, MapThenFoldSet, Max, Gathering!Result,
               Gathering!MapThenFoldSet, Gathering!Greatest, MergeBundle
<1> QED
  BY <1>3, <1>4 DEF AreComponents

LEMMA WithSectionIsConfig ==
    ASSUME NEW config, IsConfig(config), NEW type \in Section,
           NEW items \in Seq(ItemRecord), items # <<>>,
           type # "inbounds" => \E item : items = <<item>>
    PROVE  IsConfig(WithSection(config, type, items))
BY DEF IsConfig, WithSection

\* The items of a section after a component was applied to it.
Changed(items, c) ==
    LET same == {n \in DOMAIN items : c.tag # NoTag /\ items[n].tag = c.tag}
    IN CASE Strategy(c.type) = "append" /\ same # {} ->
                [n \in DOMAIN items |-> IF n \in same THEN Item(c.tag, c.val) ELSE items[n]]
         [] Strategy(c.type) = "append" /\ same = {} -> Append(items, Item(c.tag, c.val))
         [] Strategy(c.type) = "merge" /\ items # <<>> ->
                <<Item(c.tag, items[1].val \o c.val)>>
         [] OTHER -> <<Item(c.tag, c.val)>>

LEMMA ChangedItems ==
    ASSUME NEW items \in Seq(ItemRecord), NEW c \in ComponentRecord
    PROVE  /\ Changed(items, c) \in Seq(ItemRecord) /\ Changed(items, c) # <<>>
           /\ c.type # "inbounds" => \E item : Changed(items, c) = <<item>>
<1> DEFINE same == {n \in DOMAIN items : c.tag # NoTag /\ items[n].tag = c.tag}
           item == Item(c.tag, c.val)
           first == [n \in DOMAIN items |-> IF n \in same THEN item ELSE items[n]]
           joint == <<Item(c.tag, items[1].val \o c.val)>>
<1>1. item \in ItemRecord
  BY DEF Item, ItemRecord, ComponentRecord
<1>2. same # {} => first \in Seq(ItemRecord) /\ first # <<>>
  <2> SUFFICES ASSUME same # {} PROVE first \in Seq(ItemRecord) /\ first # <<>>
    OBVIOUS
  <2>1. DOMAIN items = 1 .. Len(items) /\ Len(items) \in Nat /\ DOMAIN items # {}
    OBVIOUS
  <2>2. \A n \in 1 .. Len(items) : items[n] \in ItemRecord
    OBVIOUS
  <2> HIDE DEF item, same
  <2>3. first \in [1 .. Len(items) -> ItemRecord]
    BY <1>1, <2>1, <2>2
  <2>4. DOMAIN first # {}
    BY <2>1
  <2> QED
    BY <2>1, <2>3, <2>4
<1>3. Append(items, item) \in Seq(ItemRecord) /\ Append(items, item) # <<>>
  BY <1>1
<1>4. items # <<>> => joint \in Seq(ItemRecord) /\ joint # <<>>
  <2> SUFFICES ASSUME items # <<>> PROVE joint \in Seq(ItemRecord) /\ joint # <<>>
    OBVIOUS
  <2>1. items[1] \in ItemRecord
    OBVIOUS
  <2>2. items[1].val \in Seq(Text) /\ c.val \in Seq(Text) /\ c.tag \in Tag
    BY <2>1 DEF ItemRecord, ComponentRecord
  <2>3. items[1].val \o c.val \in Seq(Text)
    BY <2>2
  <2>4. Item(c.tag, items[1].val \o c.val) \in ItemRecord
    BY <2>2, <2>3 DEF Item, ItemRecord
  <2> QED
    BY <2>4
<1>5. <<item>> \in Seq(ItemRecord) /\ <<item>> # <<>>
  BY <1>1
<1>6. \/ same # {} /\ Changed(items, c) = first
      \/ Changed(items, c) = Append(items, item)
      \/ items # <<>> /\ Changed(items, c) = joint
      \/ Changed(items, c) = <<item>>
  BY Zenon DEF Changed
<1>7. c.type # "inbounds" => Changed(items, c) = joint \/ Changed(items, c) = <<item>>
  <2>1. c.type # "inbounds" => Strategy(c.type) # "append"
    BY DEF Strategy
  <2> QED
    BY <2>1, Zenon DEF Changed
<1>8. c.type # "inbounds" => \E x : Changed(items, c) = <<x>>
  BY <1>7, Zenon
<1> HIDE DEF same, item, first, joint
<1> QED
  BY <1>2, <1>3, <1>4, <1>5, <1>6, <1>8

LEMMA AppliedIsConfig ==
    ASSUME NEW config, IsConfig(config), NEW c \in ComponentRecord
    PROVE  IsConfig(applyComponent(config, c))
<1> DEFINE items == IF c.type \in DOMAIN config THEN config[c.type] ELSE <<>>
<1>1. items \in Seq(ItemRecord) /\ c.type \in Section
  BY DEF IsConfig, ComponentRecord
<1>2. applyComponent(config, c) = WithSection(config, c.type, Changed(items, c))
  BY Zenon DEF applyComponent, Changed
<1> HIDE DEF items
<1> QED
  BY <1>1, <1>2, ChangedItems, WithSectionIsConfig

LEMMA ResolvedIsConfig ==
    ASSUME NEW comps \in Seq(ComponentRecord)
    PROVE  IsConfig(Resolved(comps).config)
<1>1. Len(comps) \in Nat /\ DOMAIN comps = 1 .. Len(comps)
      /\ \A i \in 1 .. Len(comps) : comps[i] \in ComponentRecord
  OBVIOUS
<1>2. GivesConfig(0, <<>>)
  BY DEF GivesConfig, IsConfig
<1>3. ASSUME NEW config, NEW i, i \in 1 .. Len(comps) /\ GivesConfig(0, config)
      PROVE  GivesConfig(0, ApplyOne(0, config, comps[i]))
  BY <1>1, <1>3, AppliedIsConfig DEF GivesConfig, ApplyOne
<1>4. GivesConfig(0, Applying!Result(0, <<>>, comps))
  BY <1>1, <1>2, <1>3, Applying!FoldKeeps
<1>5. FoldLeft(applyComponent, <<>>, comps) = Applying!Result(0, <<>>, comps)
  BY Zenon DEF FoldLeft, MapThenFoldSet, Max, Applying!Result,
               Applying!MapThenFoldSet, Applying!Greatest, ApplyOne
<1>6. Resolved(comps).config = FoldLeft(applyComponent, <<>>, comps)
  BY Zenon DEF Resolved
<1> QED
  BY <1>4, <1>5, <1>6 DEF GivesConfig

\* What the components of a template are.
LEMMA ComponentsOfSection ==
    ASSUME NEW config, IsConfig(config), NEW type \in Section
    PROVE  /\ Components(config, type) \in Seq(ComponentRecord)
           /\ type \in DOMAIN config => Components(config, type)[1] \in ComponentRecord
<1>1. CASE type \notin DOMAIN config
  BY <1>1 DEF Components
<1>2. CASE type \in DOMAIN config
  <2> DEFINE items == config[type]
             comps == [k \in DOMAIN items |-> Component(type, items[k].tag, items[k].val)]
  <2>1. items \in Seq(ItemRecord) /\ items # <<>>
    BY <1>2 DEF IsConfig
  <2>2. Components(config, type) = comps
    BY <1>2 DEF Components
  <2> HIDE DEF items
  <2>3. Len(items) \in Nat /\ DOMAIN items = 1 .. Len(items) /\ Len(items) # 0
    BY <2>1
  <2>4. ASSUME NEW k \in 1 .. Len(items)
        PROVE  Component(type, items[k].tag, items[k].val) \in ComponentRecord
    <3>1. items[k] \in ItemRecord
      BY <2>1
    <3>2. items[k].tag \in Tag /\ items[k].val \in Seq(Text)
      BY <3>1 DEF ItemRecord
    <3> QED
      BY <3>2 DEF Component, ComponentRecord
  <2>5. comps \in [1 .. Len(items) -> ComponentRecord]
    BY <2>3, <2>4
  <2> HIDE DEF comps
  <2> QED
    BY <2>2, <2>3, <2>5
<1> QED
  BY <1>1, <1>2

LEMMA DecomposedIsComponents ==
    ASSUME NEW config, IsConfig(config)
    PROVE  Decomposed(config) \in Seq(ComponentRecord)
<1>1. AreComponents(config, <<>>)
  BY DEF AreComponents
<1>2. ASSUME NEW all, NEW i, i \in 1 .. 4 /\ AreComponents(config, all)
      PROVE  AreComponents(config, AddComponents(config, all, ComponentType[i]))
  <2>1. Components(config, ComponentType[i]) \in Seq(ComponentRecord)
    BY <1>2, ListsOfSections, ComponentsOfSection
  <2> QED
    BY <1>2, <2>1 DEF AreComponents, AddComponents
<1>3. AreComponents(config, Decomposing!Result(config, <<>>, ComponentType))
  BY <1>1, <1>2, ListsOfSections, Decomposing!FoldKeeps
<1>4. Decomposed(config) = Decomposing!Result(config, <<>>, ComponentType)
  BY Zenon DEF Decomposed, FoldLeft, MapThenFoldSet, Max, Decomposing!Result,
               Decomposing!MapThenFoldSet, Decomposing!Greatest, AddComponents
<1> QED
  BY <1>3, <1>4 DEF AreComponents

\* What a rebuild plans.
RoleOf(id) == IF id[2] = AllRoles THEN CHOOSE t \in Roles(id[1]) : TRUE ELSE id[2]

PlannedId(id) == \E type \in Section : \E t \in Roles(type) : id = BundleId(type, t)

LEMMA BundlesPlanned ==
    /\ \A id : id \in DOMAIN PlannedBundles <=> PlannedId(id)
    /\ \A id \in DOMAIN PlannedBundles :
          PlannedBundles[id] = Bundle(<<First(RoleOf(id), id[1])>>, 1)
<1> DEFINE types == {type \in ToSet(ComponentType) : Roles(type) # {}}
           ids == UNION {{BundleId(type, t) : t \in Roles(type)} : type \in types}
<1>1. PlannedBundles = [id \in ids |-> Bundle(<<First(RoleOf(id), id[1])>>, 1)]
  BY Zenon DEF PlannedBundles, RoleOf
<1>2. ASSUME NEW id PROVE id \in ids <=> PlannedId(id)
  <2>1. id \in ids <=> \E type \in types : id \in {BundleId(type, t) : t \in Roles(type)}
    BY Zenon
  <2>2. id \in ids <=> \E type \in types : \E t \in Roles(type) : id = BundleId(type, t)
    BY <2>1, Zenon
  <2>3. types = {type \in Section : Roles(type) # {}}
    BY ListsOfSections
  <2> HIDE DEF types
  <2> QED
    BY <2>2, <2>3, Zenon DEF PlannedId
<1> HIDE DEF ids
<1>3. DOMAIN PlannedBundles = ids
  BY <1>1
<1>4. \A id \in ids : PlannedBundles[id] = Bundle(<<First(RoleOf(id), id[1])>>, 1)
  BY <1>1, Zenon
<1> QED
  BY <1>2, <1>3, <1>4, Zenon

LEMMA RolesAreTemplates ==
    ASSUME NEW type PROVE Roles(type) \subseteq Template
BY DEF Roles

LEMMA PlannedBundlesTyped ==
    ASSUME TemplatesTyped, NEW id \in DOMAIN PlannedBundles
    PROVE  PlannedBundles[id] \in BundleRecord
<1>0. PICK type \in Section : \E t \in Roles(type) : id = BundleId(type, t)
  BY BundlesPlanned, Zenon DEF PlannedId
<1>1. PICK t \in Roles(type) : id = BundleId(type, t)
  BY <1>0
<1>2. id[1] = type /\ id[2] \in {AllRoles, t}
  BY <1>1 DEF BundleId
<1>3. RoleOf(id) \in Roles(type)
  BY <1>1, <1>2 DEF RoleOf
<1>4. HasType(RoleOf(id), type) /\ IsConfig(templates[RoleOf(id)].config)
  BY <1>3 DEF Roles, TemplatesTyped, IsRow
<1>5. First(RoleOf(id), type) \in ComponentRecord
  BY <1>4, ComponentsOfSection DEF First, HasType
<1>6. PlannedBundles[id] = Bundle(<<First(RoleOf(id), type)>>, 1)
  BY <1>2, BundlesPlanned
<1> QED
  BY <1>5, <1>6 DEF Bundle, BundleRecord

LEMMA IdsPlanned ==
    ASSUME NEW t \in Template, NEW type \in Section
    PROVE  PlannedIds(t, type) \in Seq(DOMAIN PlannedBundles)
<1>1. ASSUME NEW r \in Roles(type)
      PROVE  <<BundleId(type, r)>> \in Seq(DOMAIN PlannedBundles)
  <2>1. BundleId(type, r) \in DOMAIN PlannedBundles
    BY BundlesPlanned, Zenon DEF PlannedId
  <2> QED
    BY <2>1
<1>2. HasType(t, type) => t \in Roles(type)
  BY DEF Roles
<1>3. Cardinality(Roles(type)) = 1 => (CHOOSE r \in Roles(type) : TRUE) \in Roles(type)
  <2>1. Roles(type) = {} => Cardinality(Roles(type)) = 0
    BY FS_EmptySet
  <2> QED
    BY <2>1
<1>4. \/ PlannedIds(t, type) = <<>>
      \/ \E r \in Roles(type) : PlannedIds(t, type) = <<BundleId(type, r)>>
  BY <1>2, <1>3, Zenon DEF PlannedIds
<1>5. <<>> \in Seq(DOMAIN PlannedBundles)
  OBVIOUS
<1> QED
  BY <1>1, <1>4, <1>5, Zenon

LEMMA ChainPlanned ==
    ASSUME NEW t \in Template
    PROVE  PlannedChain(t) \in Seq(DOMAIN PlannedBundles)
<1>1. ArePlanned(t, <<>>)
  BY DEF ArePlanned
<1>2. ASSUME NEW chain, NEW i, i \in 1 .. 4 /\ ArePlanned(t, chain)
      PROVE  ArePlanned(t, AddIds(t, chain, ComponentType[i]))
  <2>1. PlannedIds(t, ComponentType[i]) \in Seq(DOMAIN PlannedBundles)
    BY <1>2, ListsOfSections, IdsPlanned
  <2> QED
    BY <1>2, <2>1 DEF ArePlanned, AddIds
<1>3. ArePlanned(t, Planning!Result(t, <<>>, ComponentType))
  BY <1>1, <1>2, ListsOfSections, Planning!FoldKeeps
<1>4. PlannedChain(t) = Planning!Result(t, <<>>, ComponentType)
  BY Zenon DEF PlannedChain, FoldLeft, MapThenFoldSet, Max, Planning!Result,
               Planning!MapThenFoldSet, Planning!Greatest, AddIds
<1> QED
  BY <1>3, <1>4 DEF ArePlanned

-----------------------------------------------------------------------------
(* Bundles that stay keep what is built from them.                         *)

\* A step leaves the bundles of a chain alone.
Stay(chain) ==
    \A id \in ToSet(chain) :
        /\ id \in DOMAIN bundles' <=> id \in DOMAIN bundles
        /\ id \in DOMAIN bundles => bundles'[id] = bundles[id]

LEMMA SyncKept ==
    ASSUME NEW t \in Template, templates'[t].chain = templates[t].chain,
           templates'[t].recorded = templates[t].recorded, Stay(templates[t].chain)
    PROVE  isTemplateInSync(t)' <=> isTemplateInSync(t)
BY DEF isTemplateInSync, Stay

LEMMA ResolveKept ==
    ASSUME NEW chain, Stay(chain)
    PROVE  resolveToConfig(chain)' = resolveToConfig(chain)
<1>1. ToSet(chain) \subseteq DOMAIN bundles' <=> ToSet(chain) \subseteq DOMAIN bundles
  BY DEF Stay
<1>2. ASSUME ToSet(chain) \subseteq DOMAIN bundles PROVE Gathered(chain)' = Gathered(chain)
  <2> DEFINE before == [n \in DOMAIN chain |-> bundles[chain[n]].components]
             after == [n \in DOMAIN chain |-> bundles'[chain[n]].components]
  <2>1. \A n \in DOMAIN chain : bundles'[chain[n]] = bundles[chain[n]]
    BY <1>2 DEF Stay, ToSet
  <2>2. after = before
    BY <2>1
  <2>3. Gathered(chain) = Merged(before) /\ Gathered(chain)' = Merged(after)
    BY Zenon DEF Gathered, Merged
  <2> QED
    BY <2>2, <2>3
<1> QED
  BY <1>1, <1>2, Zenon DEF resolveToConfig

LEMMA AppliedKept ==
    ASSUME NEW t \in Template, templates'[t] = templates[t],
           IsPlain(templates[t].chain) => Stay(templates[t].chain),
           IsApplied(t)
    PROVE  IsApplied(t)'
<1>0. PICK chain, plain, result :
         chain = templates[t].chain /\ (plain <=> IsPlain(chain)) /\ result = resolveToConfig(chain)
  OBVIOUS
<1>1. CASE plain
  <2>1. resolveToConfig(chain)' = result
    BY <1>0, <1>1, ResolveKept
  <2>2. resolveToConfig(templates[t].chain)' = result
    BY <1>0, <2>1, Zenon DEF resolveToConfig, Gathered
  <2>3. result.ok => result = [ok |-> TRUE, config |-> templates[t].config]
    BY <1>0, <1>1, Zenon DEF IsApplied
  <2> QED
    BY <2>2, <2>3, Zenon DEF IsApplied
<1>2. CASE ~plain
  <2>1. ~IsPlain(templates[t].chain)'
    BY <1>0, <1>2, Zenon DEF IsPlain
  <2> QED
    BY <2>1, Zenon DEF IsApplied
<1> QED
  BY <1>1, <1>2

LEMMA ResolveCases ==
    ASSUME NEW chain
    PROVE  \/ /\ chain = <<>> \/ ~(ToSet(chain) \subseteq DOMAIN bundles)
              /\ resolveToConfig(chain).ok = FALSE
           \/ /\ ToSet(chain) \subseteq DOMAIN bundles
              /\ resolveToConfig(chain).ok = TRUE
              /\ resolveToConfig(chain).config = Resolved(Gathered(chain)).config
              /\ resolveToConfig(chain) =
                    [ok |-> TRUE, config |-> resolveToConfig(chain).config]
<1>1. CASE chain = <<>> \/ ~(ToSet(chain) \subseteq DOMAIN bundles)
  <2>1. resolveToConfig(chain) = Unresolved
    BY <1>1, Zenon DEF resolveToConfig
  <2>2. resolveToConfig(chain).ok = FALSE
    BY <2>1 DEF Unresolved
  <2> QED
    BY <1>1, <2>2
<1>2. CASE chain # <<>> /\ ToSet(chain) \subseteq DOMAIN bundles
  <2> DEFINE config == FoldLeft(applyComponent, <<>>, Gathered(chain))
  <2>1. resolveToConfig(chain) = Resolved(Gathered(chain))
    BY <1>2, Zenon DEF resolveToConfig
  <2>2. Resolved(Gathered(chain)) = [ok |-> TRUE, config |-> config]
    BY Zenon DEF Resolved
  <2> HIDE DEF config
  <2> QED
    BY <1>2, <2>1, <2>2
<1> QED
  BY <1>1, <1>2

LEMMA GatheredIsComponents ==
    ASSUME BundlesTyped, NEW chain, IsChain(chain), ToSet(chain) \subseteq DOMAIN bundles
    PROVE  Gathered(chain) \in Seq(ComponentRecord)
<1> DEFINE lists == [n \in DOMAIN chain |-> bundles[chain[n]].components]
<1>1. PICK ids : chain \in Seq(ids)
  BY DEF IsChain
<1>2. Len(chain) \in Nat /\ DOMAIN chain = 1 .. Len(chain)
  BY <1>1
<1>3. ASSUME NEW n \in 1 .. Len(chain) PROVE lists[n] \in Seq(ComponentRecord)
  <2>1. chain[n] \in DOMAIN bundles
    BY <1>2 DEF ToSet
  <2>2. bundles[chain[n]] \in BundleRecord
    BY <2>1 DEF BundlesTyped
  <2> QED
    BY <1>2, <2>2 DEF BundleRecord
<1>4. Gathered(chain) = Merged(lists)
  BY Zenon DEF Gathered, Merged
<1>5. DOMAIN lists = 1 .. Len(chain)
  BY <1>2
<1> HIDE DEF lists
<1> QED
  BY <1>2, <1>3, <1>4, <1>5, MergedListIsComponents

-----------------------------------------------------------------------------
(* A handler or a command begins.                                          *)

LEMMA ChainsOfWrites ==
    ASSUME NEW t \in Template, NEW id, NEW b \in BundleRecord, NEW chain, IsChain(chain)
    PROVE  /\ IsWrite(SaveBundle(id, b)) /\ IsWrite(DeleteBundle(id))
           /\ IsWrite(SaveChain(t, chain)) /\ IsWrite(SyncConfig(t))
BY DEF IsWrite, SaveBundle, DeleteBundle, SaveChain, SyncConfig

LEMMA WorkBegins ==
    ASSUME TemplateInv, NEW op \in {"none", "window", "rebuild", "sync", "decompose"},
           NEW work, AreWrites(work), Starts(op, work), EffortTyped'
    PROVE  TemplatesWellFormed'
<1>1. TemplatesTyped' /\ BundlesTyped'
  BY DEF TemplateInv, TemplatesWellFormed, Starts, TemplatesTyped, BundlesTyped
<1>2. CommandTyped'
  BY DEF Starts, CommandTyped
<1> QED
  BY <1>1, <1>2 DEF TemplatesWellFormed

\* A job other than a rebuild syncs each template whose chain or bundles it touches.
LEMMA JobBegins ==
    ASSUME TemplateInv, NEW op \in {"window", "sync", "decompose"},
           NEW work, AreWrites(work), Starts(op, work), EffortTyped', disturbed' = disturbed,
           \A t \in Template : SyncConfig(t) \in work \/ Untouched(work, t)
    PROVE  TemplateInv'
<1>1. command'.op = op /\ command'.work = work /\ command.work = {}
      /\ templates' = templates /\ bundles' = bundles
  BY DEF Starts, NoWork
<1>2. MarksAreTrue'
  <2> SUFFICES ASSUME ~disturbed, NEW t \in Template, SyncConfig(t) \notin work
               PROVE  Untouched(work, t)' /\ IsApplied(t)'
    BY <1>1, Zenon DEF MarksAreTrue
  <2>1. IsApplied(t)
    BY <1>1 DEF TemplateInv, MarksAreTrue
  <2>2. Stay(templates[t].chain)
    BY <1>1 DEF Stay
  <2>3. IsApplied(t)'
    BY <1>1, <2>1, <2>2, AppliedKept
  <2>4. Untouched(work, t)'
    BY <1>1 DEF Untouched
  <2> QED
    BY <2>3, <2>4
<1>3. RebuildGoesOn'
  BY <1>1 DEF RebuildGoesOn
<1> QED
  BY <1>2, <1>3, WorkBegins DEF TemplateInv

LEMMA EditBegins ==
    ASSUME TemplateInv, NEW work, AreWrites(work), Edit("window", work),
           \A t \in Template : SyncConfig(t) \in work \/ Untouched(work, t)
    PROVE  TemplateInv'
<1>1. EffortTyped' /\ disturbed' = disturbed
  BY TemplateAssumption DEF Edit, EffortTyped, TemplateInv, TemplatesWellFormed
<1>2. Starts("window", work)
  BY DEF Edit
<1> QED
  BY <1>1, <1>2, JobBegins

\* One bundle is changed, and the templates that refer to it are synced.
LEMMA BundleEditBegins ==
    ASSUME TemplateInv, NEW id, NEW w, IsWrite(w), w.do \in {"save", "delete"}, w.id = id,
           Edit("window", {w} \cup Syncs(Referencing(id)))
    PROVE  TemplateInv'
<1> DEFINE work == {w} \cup Syncs(Referencing(id))
<1>1. AreWrites(work)
  <2>1. \A t \in Template : IsWrite(SyncConfig(t))
    BY DEF IsWrite, SyncConfig
  <2> QED
    BY <2>1 DEF AreWrites, Syncs, Referencing
<1>2. ASSUME NEW t \in Template, SyncConfig(t) \notin work
      PROVE  Untouched(work, t)
  <2>1. id \notin ToSet(templates[t].chain)
    BY <1>2 DEF Syncs, Referencing
  <2>2. \A v \in work : v = w \/ v.do = "sync"
    BY DEF Syncs, SyncConfig
  <2> QED
    BY <2>1, <2>2 DEF Untouched, Relinks, Changes
<1> QED
  BY <1>1, <1>2, EditBegins

LEMMA ContentsAreComponents ==
    \A c \in Contents : c \in Seq(ComponentRecord)
<1>1. ASSUME NEW type \in Section, NEW tag \in Tag, NEW val \in Text
      PROVE  Component(type, tag, <<val>>) \in ComponentRecord
  BY DEF Component, ComponentRecord
<1>s. /\ NoTag \in Tag /\ "socks" \in Tag /\ "http" \in Tag
      /\ "none" \in Text /\ "mixed" \in Text /\ "noauth" \in Text /\ "warning" \in Text
      /\ "socks" \in Text /\ "log" \in Section /\ "inbounds" \in Section /\ "routing" \in Section
  BY DEF Tag, Text, Section
<1>2. /\ Component("log", NoTag, <<"none">>) \in ComponentRecord
      /\ Component("inbounds", "socks", <<"mixed">>) \in ComponentRecord
      /\ Component("inbounds", "http", <<"noauth">>) \in ComponentRecord
      /\ Component("log", NoTag, <<"warning">>) \in ComponentRecord
      /\ Component("routing", NoTag, <<"socks">>) \in ComponentRecord
  BY <1>1, <1>s, Zenon
<1>3. \A a \in ComponentRecord, b \in ComponentRecord :
         <<a>> \in Seq(ComponentRecord) /\ <<a, b>> \in Seq(ComponentRecord)
  OBVIOUS
<1> QED
  BY <1>2, <1>3, Zenon DEF Contents

LEMMA BundleSaved ==
    ASSUME TemplateInv, NEW id, onBundleSave(id)
    PROVE  TemplateInv'
<1>1. id \in DOMAIN bundles
  BY DEF onBundleSave
<1>2. PICK c \in Contents, advance \in BOOLEAN :
         LET b == Bundle(c, IF advance THEN 2 ELSE bundles[id].version)
         IN \/ Edit("window", {SaveBundle(id, b)} \cup Syncs(Referencing(id)))
            \/ /\ Custom \notin DOMAIN bundles
               /\ Edit("window", {SaveBundle(Custom, b)} \cup Syncs(Referencing(Custom)))
  BY Zenon DEF onBundleSave
<1> DEFINE b == Bundle(c, IF advance THEN 2 ELSE bundles[id].version)
<1>3. b \in BundleRecord
  <2>1. bundles[id].version \in 1 .. 2
    BY <1>1 DEF TemplateInv, TemplatesWellFormed, BundlesTyped, BundleRecord
  <2>2. c \in Seq(ComponentRecord)
    BY ContentsAreComponents
  <2> QED
    BY <2>1, <2>2 DEF Bundle, BundleRecord
<1> HIDE DEF b
<1>4. ASSUME NEW x PROVE IsWrite(SaveBundle(x, b)) /\ SaveBundle(x, b).do = "save"
                         /\ SaveBundle(x, b).id = x
  BY <1>3 DEF IsWrite, SaveBundle
<1>5. \/ Edit("window", {SaveBundle(id, b)} \cup Syncs(Referencing(id)))
      \/ Edit("window", {SaveBundle(Custom, b)} \cup Syncs(Referencing(Custom)))
  BY <1>2, Zenon DEF b
<1> QED
  BY <1>4, <1>5, BundleEditBegins

LEMMA BundleAdded ==
    ASSUME TemplateInv, NEW id, onBundleNew(id)
    PROVE  TemplateInv'
<1> DEFINE b == Bundle(<<>>, 1)
<1>1. b \in BundleRecord
  BY DEF Bundle, BundleRecord
<1>2. Edit("window", {SaveBundle(id, b)} \cup Syncs(Referencing(id)))
  BY DEF onBundleNew
<1> HIDE DEF b
<1>3. IsWrite(SaveBundle(id, b)) /\ SaveBundle(id, b).do = "save" /\ SaveBundle(id, b).id = id
  BY <1>1 DEF IsWrite, SaveBundle
<1> QED
  BY <1>2, <1>3, BundleEditBegins

LEMMA BundleRemoved ==
    ASSUME TemplateInv, NEW id, onBundleDelete(id)
    PROVE  TemplateInv'
<1>1. Edit("window", {DeleteBundle(id)} \cup Syncs(Referencing(id)))
  BY DEF onBundleDelete
<1>2. IsWrite(DeleteBundle(id)) /\ DeleteBundle(id).do = "delete" /\ DeleteBundle(id).id = id
  BY DEF IsWrite, DeleteBundle
<1> QED
  BY <1>1, <1>2, BundleEditBegins

LEMMA EditedIsChain ==
    ASSUME NEW chain, IsChain(chain), NEW edited \in ChainEdits(chain)
    PROVE  IsChain(edited)
<1>1. PICK ids : chain \in Seq(ids)
  BY DEF IsChain
<1>2. ASSUME NEW id PROVE IsChain(Append(chain, id))
  <2>1. chain \in Seq(ids \cup {id})
    BY <1>1
  <2>2. Append(chain, id) \in Seq(ids \cup {id})
    BY <2>1
  <2> QED
    BY <2>2 DEF IsChain
<1>3. ASSUME NEW n \in DOMAIN chain PROVE IsChain(RemoveAt(chain, n))
  <2>1. n \in 1 .. Len(chain) /\ Len(chain) \in Nat
    BY <1>1
  <2>2. SubSeq(chain, 1, n - 1) \in Seq(ids) /\ SubSeq(chain, n + 1, Len(chain)) \in Seq(ids)
    BY <1>1, <2>1
  <2>3. RemoveAt(chain, n) \in Seq(ids)
    BY <2>2 DEF RemoveAt
  <2> QED
    BY <2>3 DEF IsChain
<1> QED
  BY <1>2, <1>3 DEF ChainEdits

LEMMA ChainSaved ==
    ASSUME TemplateInv, NEW t \in Template, onChainSave(t)
    PROVE  TemplateInv'
<1>1. PICK chain \in ChainEdits(templates[t].chain) :
         Edit("window", {SaveChain(t, chain), SyncConfig(t)})
  BY DEF onChainSave
<1>2. IsChain(templates[t].chain)
  BY DEF TemplateInv, TemplatesWellFormed, TemplatesTyped, IsRow
<1>3. IsChain(chain)
  BY <1>2, EditedIsChain
<1> DEFINE work == {SaveChain(t, chain), SyncConfig(t)}
<1>4. AreWrites(work)
  BY <1>3 DEF AreWrites, IsWrite, SaveChain, SyncConfig
<1>5. ASSUME NEW u \in Template PROVE SyncConfig(u) \in work \/ Untouched(work, u)
  <2>1. CASE u = t
    BY <2>1
  <2>2. CASE u # t
    BY <2>2 DEF Untouched, Relinks, Changes, SaveChain, SyncConfig
  <2> QED
    BY <2>1, <2>2
<1> QED
  BY <1>1, <1>4, <1>5, EditBegins

LEMMA TemplateSaved ==
    ASSUME TemplateInv, NEW t \in Template, onTemplateSave(t)
    PROVE  TemplateInv'
<1> DEFINE work == {SyncConfig(t)}
<1>1. AreWrites(work)
  BY DEF AreWrites, IsWrite, SyncConfig
<1>2. ASSUME NEW u \in Template PROVE Untouched(work, u)
  BY DEF Untouched, Relinks, Changes, SyncConfig
<1>3. Edit("window", work)
  BY DEF onTemplateSave
<1> QED
  BY <1>1, <1>2, <1>3, EditBegins

LEMMA CommandCounted ==
    ASSUME TemplateInv, NEW op, NEW work, Command(op, work), disturbed' \in BOOLEAN
    PROVE  EffortTyped' /\ Starts(op, work)
BY TemplateAssumption DEF Command, EffortTyped, TemplateInv, TemplatesWellFormed

LEMMA SyncCommanded ==
    ASSUME TemplateInv, syncConfigsFromChains
    PROVE  TemplateInv'
<1> DEFINE work == Syncs(Template)
<1>1. AreWrites(work)
  BY DEF AreWrites, IsWrite, Syncs, SyncConfig
<1>2. \A t \in Template : SyncConfig(t) \in work
  BY DEF Syncs
<1>3. Command("sync", work) /\ disturbed' = disturbed /\ disturbed' \in BOOLEAN
  BY DEF syncConfigsFromChains, TemplateInv, TemplatesWellFormed, EffortTyped
<1> HIDE DEF work
<1>4. EffortTyped' /\ Starts("sync", work)
  BY <1>3, CommandCounted
<1> QED
  BY <1>1, <1>2, <1>3, <1>4, JobBegins

LEMMA DecomposeCommanded ==
    ASSUME TemplateInv, decomposeAndSave
    PROVE  TemplateInv'
<1> DEFINE b(t) == Bundle(Decomposed(templates[t].config), 1)
           work == {SaveBundle(<<"template", t>>, b(t)) : t \in Template}
<1>1. Command("decompose", work) /\ disturbed' = disturbed /\ disturbed' \in BOOLEAN
  BY DEF decomposeAndSave, TemplateInv, TemplatesWellFormed, EffortTyped
<1>2. ASSUME NEW t \in Template PROVE b(t) \in BundleRecord
  <2>1. IsConfig(templates[t].config)
    BY DEF TemplateInv, TemplatesWellFormed, TemplatesTyped, IsRow
  <2>2. Decomposed(templates[t].config) \in Seq(ComponentRecord)
    BY <2>1, DecomposedIsComponents
  <2> QED
    BY <2>2 DEF Bundle, BundleRecord
<1> HIDE DEF b
<1>3. ASSUME NEW w \in work
      PROVE  IsWrite(w) /\ w.do = "save" /\ w.id[1] = "template"
  <2>1. PICK t \in Template : w = SaveBundle(<<"template", t>>, b(t))
    OBVIOUS
  <2> QED
    BY <1>2, <2>1 DEF IsWrite, SaveBundle
<1> HIDE DEF work
<1>4. AreWrites(work)
  BY <1>3 DEF AreWrites
<1>5. ASSUME NEW t \in Template PROVE Untouched(work, t)
  BY <1>3 DEF Untouched, Relinks, Changes
<1>6. EffortTyped' /\ Starts("decompose", work)
  BY <1>1, CommandCounted
<1> QED
  BY <1>1, <1>4, <1>5, <1>6, JobBegins

\* The writes of a rebuild.
Deletes == {DeleteBundle(id) : id \in DOMAIN bundles \ DOMAIN PlannedBundles}
Saves == {SaveBundle(id, PlannedBundles[id]) : id \in DOMAIN PlannedBundles}
Chains == {SaveChain(t, PlannedChain(t)) : t \in Template}
RebuildWork == Deletes \cup Saves \cup Chains \cup Syncs(Template)

LEMMA RebuildWrites ==
    ASSUME TemplateInv
    PROVE  /\ AreWrites(RebuildWork)
           /\ \A t \in Template : SyncConfig(t) \in RebuildWork
           /\ \A t \in Template : SaveChain(t, PlannedChain(t)) \in RebuildWork
           /\ \A id \in DOMAIN PlannedBundles :
                 \E w \in RebuildWork : w.do = "save" /\ w.id = id
           /\ \A w \in RebuildWork :
                 /\ w.do = "delete" => w.id \notin DOMAIN PlannedBundles
                 /\ w.do = "chain" => w.chain \in Seq(DOMAIN PlannedBundles)
<1>1. ASSUME NEW w \in Deletes
      PROVE  IsWrite(w) /\ w.do = "delete" /\ w.id \notin DOMAIN PlannedBundles
  BY DEF Deletes, IsWrite, DeleteBundle
<1>2. ASSUME NEW w \in Saves PROVE IsWrite(w) /\ w.do = "save"
  <2>1. PICK id \in DOMAIN PlannedBundles : w = SaveBundle(id, PlannedBundles[id])
    BY DEF Saves
  <2>2. PlannedBundles[id] \in BundleRecord
    BY PlannedBundlesTyped DEF TemplateInv, TemplatesWellFormed
  <2> QED
    BY <2>1, <2>2 DEF IsWrite, SaveBundle
<1>3. ASSUME NEW w \in Chains
      PROVE  IsWrite(w) /\ w.do = "chain" /\ w.chain \in Seq(DOMAIN PlannedBundles)
  <2>1. PICK t \in Template : w = SaveChain(t, PlannedChain(t))
    BY DEF Chains
  <2>2. PlannedChain(t) \in Seq(DOMAIN PlannedBundles)
    BY ChainPlanned
  <2>3. IsChain(PlannedChain(t))
    BY <2>2 DEF IsChain
  <2> QED
    BY <2>1, <2>2, <2>3 DEF IsWrite, SaveChain
<1>4. ASSUME NEW w \in Syncs(Template) PROVE IsWrite(w) /\ w.do = "sync"
  BY DEF Syncs, IsWrite, SyncConfig
<1>5. ASSUME NEW id \in DOMAIN PlannedBundles
      PROVE  \E w \in RebuildWork : w.do = "save" /\ w.id = id
  <2>1. SaveBundle(id, PlannedBundles[id]) \in RebuildWork
    BY Zenon DEF RebuildWork, Saves
  <2>2. SaveBundle(id, PlannedBundles[id]).do = "save"
        /\ SaveBundle(id, PlannedBundles[id]).id = id
    BY DEF SaveBundle
  <2> QED
    BY <2>1, <2>2, Zenon
<1>6. ASSUME NEW t \in Template
      PROVE  SyncConfig(t) \in RebuildWork /\ SaveChain(t, PlannedChain(t)) \in RebuildWork
  BY Zenon DEF RebuildWork, Syncs, Chains
<1>7. ASSUME NEW w \in RebuildWork
      PROVE  /\ IsWrite(w)
             /\ w.do = "delete" => w.id \notin DOMAIN PlannedBundles
             /\ w.do = "chain" => w.chain \in Seq(DOMAIN PlannedBundles)
  <2>1. w \in Deletes \/ w \in Saves \/ w \in Chains \/ w \in Syncs(Template)
    BY DEF RebuildWork
  <2> QED
    BY <2>1, <1>1, <1>2, <1>3, <1>4
<1> QED
  BY <1>5, <1>6, <1>7 DEF AreWrites

LEMMA RebuildCommanded ==
    ASSUME TemplateInv, rebuildBundlesAndChains
    PROVE  TemplateInv'
<1>1. Command("rebuild", RebuildWork) /\ disturbed' = FALSE
  BY Zenon DEF rebuildBundlesAndChains, RebuildWork, Deletes, Saves, Chains
<1>0. PICK work, planned : work = RebuildWork /\ planned = DOMAIN PlannedBundles
  OBVIOUS
<1>2. EffortTyped' /\ Starts("rebuild", work)
  BY <1>0, <1>1, CommandCounted
<1>3. /\ AreWrites(work)
      /\ \A t \in Template : SyncConfig(t) \in work
      /\ \A t \in Template : SaveChain(t, PlannedChain(t)) \in work
      /\ \A id \in planned : \E w \in work : w.do = "save" /\ w.id = id
      /\ \A w \in work :
            /\ w.do = "delete" => w.id \notin planned
            /\ w.do = "chain" => w.chain \in Seq(planned)
  BY <1>0, RebuildWrites
<1>4. TemplatesWellFormed'
  BY <1>2, <1>3, WorkBegins
<1>5. command'.op = "rebuild" /\ command'.work = work
  BY <1>2 DEF Starts
<1>6. MarksAreTrue'
  BY <1>3, <1>5, Zenon DEF MarksAreTrue
<1>7. ASSUME NEW w \in work, w.do = "chain" PROVE ChainCanBeBuilt(work, w.chain)'
  <2>1. w.chain \in Seq(planned)
    BY <1>3, <1>7
  <2>2. ToSet(w.chain) \subseteq planned
    BY <2>1 DEF ToSet
  <2> QED
    BY <1>3, <2>2, Zenon DEF ChainCanBeBuilt
<1>8. ASSUME NEW t \in Template PROVE \E w \in work : Relinks(w, t)
  <2>1. Relinks(SaveChain(t, PlannedChain(t)), t)
    BY DEF Relinks, SaveChain
  <2> QED
    BY <1>3, <2>1, Zenon
<1>9. RebuildGoesOn'
  BY <1>5, <1>7, <1>8, Zenon DEF RebuildGoesOn
<1> QED
  BY <1>4, <1>6, <1>9 DEF TemplateInv

-----------------------------------------------------------------------------
(* One write after the other.                                              *)

LEMMA KindsOfWrites ==
    ASSUME NEW w, IsWrite(w)
    PROVE  /\ w.do \in {"delete", "save", "chain", "sync"} /\ Rank(w) \in 1 .. 4
           /\ w.do = "delete" <=> Rank(w) = 1
           /\ w.do = "save" <=> Rank(w) = 2
           /\ w.do = "chain" <=> Rank(w) = 3
           /\ w.do = "sync" <=> Rank(w) = 4
           /\ w.do = "save" => w.bundle \in BundleRecord
           /\ w.do = "chain" => w.template \in Template /\ IsChain(w.chain)
           /\ w.do = "sync" => w.template \in Template /\ w = SyncConfig(w.template)
<1>1. \/ w.do = "save" /\ w.bundle \in BundleRecord
      \/ w.do = "delete"
      \/ w.do = "chain" /\ w.template \in Template /\ IsChain(w.chain)
      \/ w.do = "sync" /\ w.template \in Template /\ w = SyncConfig(w.template)
  BY DEF IsWrite, SaveBundle, DeleteBundle, SaveChain, SyncConfig
<1>2. /\ w.do = "delete" => Rank(w) = 1
      /\ w.do = "save" => Rank(w) = 2
      /\ w.do = "chain" => Rank(w) = 3
      /\ w.do = "sync" => Rank(w) = 4
  BY DEF Rank
<1> QED
  BY <1>1, <1>2

\* The next write is one that the handler has left, and no other kind comes before it.
LEMMA FirstWrite ==
    ASSUME AreWrites(command.work), ~NoWork
    PROVE  /\ Head1 \in command.work
           /\ \A w \in command.work : Rank(Head1) <= Rank(w)
<1> DEFINE work == command.work
           ranks == {Rank(w) : w \in work}
<1>1. ranks \subseteq Nat /\ ranks # {}
  <2>1. \A w \in work : Rank(w) \in Nat
    BY KindsOfWrites DEF AreWrites
  <2> QED
    BY <2>1 DEF NoWork
<1>2. PICK r \in ranks : \A s \in ranks : r <= s
  BY <1>1, Keeping!FoldLeast
<1>3. PICK w \in work : r = Rank(w)
  OBVIOUS
<1>4. \A v \in work : Rank(w) <= Rank(v)
  BY <1>2, <1>3
<1> QED
  BY <1>3, <1>4, Zenon DEF Head1

\* The write that is made.
LEMMA WriteIsMade ==
    ASSUME TemplateInv, ~NoWork, NEW w, w = Head1
    PROVE  /\ w \in command.work /\ IsWrite(w)
           /\ w.do = "chain" => \A v \in command.work : v.do \in {"chain", "sync"}
           /\ w.do = "sync" => \A v \in command.work : v.do = "sync"
<1>1. AreWrites(command.work)
  BY DEF TemplateInv, TemplatesWellFormed, CommandTyped
<1>2. w \in command.work /\ \A v \in command.work : Rank(w) <= Rank(v)
  BY <1>1, FirstWrite
<1>3. IsWrite(w) /\ \A v \in command.work : IsWrite(v)
  BY <1>1, <1>2 DEF AreWrites
<1>4. ASSUME NEW v \in command.work
      PROVE  /\ w.do = "chain" => v.do \in {"chain", "sync"}
             /\ w.do = "sync" => v.do = "sync"
  <2>1. Rank(w) <= Rank(v) /\ IsWrite(v)
    BY <1>2, <1>3
  <2>2. Rank(w) \in 1 .. 4 /\ Rank(v) \in 1 .. 4
    BY <1>3, <2>1, KindsOfWrites
  <2>3. (w.do = "chain" => Rank(w) = 3) /\ (w.do = "sync" => Rank(w) = 4)
    BY <1>3, KindsOfWrites
  <2>4. (Rank(v) = 3 => v.do = "chain") /\ (Rank(v) = 4 => v.do = "sync")
    BY <2>1, KindsOfWrites
  <2> QED
    BY <2>1, <2>2, <2>3, <2>4
<1> QED
  BY <1>2, <1>3, <1>4

\* What is left when the write w is done.
LEMMA WorkShrinks ==
    ASSUME TemplateInv, NEW w, command' = [command EXCEPT !.work = @ \ {w}]
    PROVE  CommandTyped' /\ command'.work = command.work \ {w} /\ command'.op = command.op
BY DEF TemplateInv, TemplatesWellFormed, CommandTyped, AreWrites

LEMMA NextIsLeft ==
    ASSUME Next1
    PROVE  command' = [command EXCEPT !.work = @ \ {Head1}]
BY Zenon DEF Next1

\* A step leaves all bundles but one alone.
OthersStay(id) ==
    \A x : x # id =>
        /\ x \in DOMAIN bundles' <=> x \in DOMAIN bundles
        /\ x \in DOMAIN bundles => bundles'[x] = bundles[x]

\* A bundle is written or removed.
LEMMA BundleChanges ==
    ASSUME TemplateInv, ~NoWork, NEW w, w = Head1, Changes(w, w.id),
           command' = [command EXCEPT !.work = @ \ {w}], BundlesTyped',
           UNCHANGED <<templates, effort, disturbed>>,
           OthersStay(w.id),
           w.do = "save" => w.id \in DOMAIN bundles'
    PROVE  TemplateInv'
<1>0. PICK work, left : work = command.work /\ left = work \ {w}
  OBVIOUS
<1>1. w \in work /\ w.do \in {"save", "delete"}
  BY <1>0, WriteIsMade DEF Changes
<1>2. CommandTyped' /\ command'.work = left /\ command'.op = command.op
  BY <1>0, WorkShrinks
<1>3. TemplatesWellFormed'
  BY <1>2 DEF TemplatesWellFormed, TemplateInv, TemplatesTyped, EffortTyped
<1>4. ASSUME NEW t \in Template, w.id \notin ToSet(templates[t].chain)
      PROVE  Stay(templates[t].chain)
  BY <1>4, Zenon DEF Stay, OthersStay
<1>5. MarksAreTrue'
  <2> SUFFICES ASSUME ~disturbed, NEW t \in Template, SyncConfig(t) \notin left
               PROVE  Untouched(left, t)' /\ IsApplied(t)'
    BY <1>2, Zenon DEF MarksAreTrue
  <2>1. SyncConfig(t) \notin work
    BY <1>0, <1>1 DEF SyncConfig
  <2>2. Untouched(work, t) /\ IsApplied(t)
    BY <1>0, <2>1 DEF TemplateInv, MarksAreTrue
  <2>3. Untouched(left, t)'
    BY <1>0, <2>2 DEF Untouched
  <2>4. IsPlain(templates[t].chain) => Stay(templates[t].chain)
    BY <1>0, <1>1, <1>4, <2>2 DEF Untouched, Changes, IsPlain
  <2> QED
    BY <2>2, <2>3, <2>4, AppliedKept
<1>6. RebuildGoesOn'
  <2> SUFFICES ASSUME ~disturbed, command.op = "rebuild"
               PROVE  /\ \A v \in left : v.do = "chain" => ChainCanBeBuilt(left, v.chain)'
                      /\ \A t \in Template :
                            (\E v \in left : Relinks(v, t)) \/ IsRebuilt(left, t)'
    BY <1>2, Zenon DEF RebuildGoesOn
  <2>1. /\ \A v \in work : v.do = "chain" => ChainCanBeBuilt(work, v.chain)
        /\ \A t \in Template : (\E v \in work : Relinks(v, t)) \/ IsRebuilt(work, t)
    BY <1>0 DEF TemplateInv, RebuildGoesOn
  <2>2. ASSUME NEW v \in left, v.do = "chain" PROVE ChainCanBeBuilt(left, v.chain)'
    <3> SUFFICES ASSUME NEW id \in ToSet(v.chain)
                 PROVE  /\ id \in DOMAIN bundles' \/ \E u \in left : u.do = "save" /\ u.id = id
                        /\ \A u \in left : ~(u.do = "delete" /\ u.id = id)
      BY DEF ChainCanBeBuilt
    <3>1. /\ id \in DOMAIN bundles \/ \E u \in work : u.do = "save" /\ u.id = id
          /\ \A u \in work : ~(u.do = "delete" /\ u.id = id)
      BY <1>0, <2>1, <2>2 DEF ChainCanBeBuilt
    <3>2. CASE id = w.id
      BY <1>0, <1>1, <3>1, <3>2
    <3>3. CASE id # w.id
      BY <1>0, <3>1, <3>3 DEF OthersStay
    <3> QED
      BY <3>2, <3>3
  <2>3. ASSUME NEW t \in Template, ~ \E v \in left : Relinks(v, t) PROVE IsRebuilt(left, t)'
    <3>1. ~ Relinks(w, t)
      BY <1>1 DEF Relinks
    <3>2. IsRebuilt(work, t)
      BY <1>0, <2>1, <2>3, <3>1
    <3>3. w.id \notin ToSet(templates[t].chain)
      BY <1>1, <3>2 DEF IsRebuilt
    <3>4. isTemplateInSync(t)'
      BY <1>4, <3>2, <3>3, SyncKept DEF IsRebuilt
    <3> QED
      BY <1>0, <3>2, <3>4 DEF IsRebuilt
  <2> QED
    BY <2>2, <2>3
<1> QED
  BY <1>3, <1>5, <1>6 DEF TemplateInv

LEMMA BundleWritten ==
    ASSUME TemplateInv, WriteBundle
    PROVE  TemplateInv'
<1> DEFINE w == Head1
<1>1. ~NoWork /\ w.do = "save" /\ UNCHANGED <<templates, effort, disturbed>>
      /\ command' = [command EXCEPT !.work = @ \ {w}]
  BY NextIsLeft DEF WriteBundle
<1>2. bundles' = [id \in DOMAIN bundles \cup {w.id} |->
                    IF id = w.id THEN w.bundle ELSE bundles[id]]
  BY DEF WriteBundle
<1> HIDE DEF w
<1>3. IsWrite(w)
  BY <1>1, WriteIsMade DEF w
<1>4. w.bundle \in BundleRecord
  BY <1>1, <1>3, KindsOfWrites
<1>5. BundlesTyped'
  BY <1>2, <1>4 DEF BundlesTyped, TemplateInv, TemplatesWellFormed
<1>6. Changes(w, w.id)
  BY <1>1 DEF Changes
<1>7. w = Head1
  BY DEF w
<1>8. OthersStay(w.id) /\ w.id \in DOMAIN bundles'
  BY <1>2 DEF OthersStay
<1> QED
  BY <1>1, <1>5, <1>6, <1>7, <1>8, BundleChanges

LEMMA BundleDeleted ==
    ASSUME TemplateInv, RemoveBundle
    PROVE  TemplateInv'
<1> DEFINE w == Head1
<1>1. ~NoWork /\ w.do = "delete" /\ UNCHANGED <<templates, effort, disturbed>>
      /\ command' = [command EXCEPT !.work = @ \ {w}]
  BY NextIsLeft DEF RemoveBundle
<1>2. bundles' = [id \in DOMAIN bundles \ {w.id} |-> bundles[id]]
  BY DEF RemoveBundle
<1> HIDE DEF w
<1>5. BundlesTyped'
  BY <1>2 DEF BundlesTyped, TemplateInv, TemplatesWellFormed
<1>6. Changes(w, w.id)
  BY <1>1 DEF Changes
<1>7. w = Head1
  BY DEF w
<1>8. OthersStay(w.id)
  BY <1>2 DEF OthersStay
<1> QED
  BY <1>1, <1>5, <1>6, <1>7, <1>8, BundleChanges

LEMMA VersionsAreOfChain ==
    ASSUME NEW chain
    PROVE  DOMAIN getCurrentVersions(chain) \subseteq ToSet(chain)
BY DEF getCurrentVersions

\* A row with the versions of now is in sync if its bundles are there.
LEMMA CurrentIsInSync ==
    ASSUME BundlesTyped', NEW t \in Template, ToSet(templates'[t].chain) \subseteq DOMAIN bundles',
           templates'[t].recorded = getCurrentVersions(templates'[t].chain), bundles' = bundles
    PROVE  isTemplateInSync(t)'
<1> DEFINE chain == templates'[t].chain
<1>1. ASSUME NEW id \in ToSet(chain)
      PROVE  /\ id \in DOMAIN getCurrentVersions(chain) /\ id \in DOMAIN bundles'
             /\ bundles'[id].version <= getCurrentVersions(chain)[id]
  <2>1. id \in DOMAIN bundles
    OBVIOUS
  <2>2. bundles[id].version \in 1 .. 2
    BY <2>1 DEF BundlesTyped, BundleRecord
  <2>3. id \in DOMAIN getCurrentVersions(chain)
        /\ getCurrentVersions(chain)[id] = bundles[id].version
    BY <2>1 DEF getCurrentVersions
  <2> QED
    BY <2>1, <2>2, <2>3
<1> QED
  BY <1>1 DEF isTemplateInSync

LEMMA ChainWritten ==
    ASSUME TemplateInv, WriteChain
    PROVE  TemplateInv'
<1>0. PICK w, work, left, u :
         w = Head1 /\ work = command.work /\ left = work \ {w} /\ u = w.template
  OBVIOUS
<1>1. ~NoWork /\ w.do = "chain" /\ UNCHANGED <<bundles, effort, disturbed>>
      /\ command' = [command EXCEPT !.work = @ \ {w}]
  BY <1>0, NextIsLeft DEF WriteChain
<1>2. templates' = [templates EXCEPT ![u].chain = w.chain,
                                     ![u].recorded = getCurrentVersions(w.chain)]
  BY <1>0 DEF WriteChain
<1>3. w \in work /\ IsWrite(w) /\ \A v \in work : v.do \in {"chain", "sync"}
  BY <1>0, <1>1, WriteIsMade
<1>4. u \in Template /\ IsChain(w.chain)
  BY <1>0, <1>1, <1>3, KindsOfWrites
<1>5. CommandTyped' /\ command'.work = left /\ command'.op = command.op
  BY <1>0, <1>1, WorkShrinks
<1>6. TemplatesTyped /\ BundlesTyped
  BY DEF TemplateInv, TemplatesWellFormed
<1>7. /\ templates'[u] = [config |-> templates[u].config, chain |-> w.chain,
                          recorded |-> getCurrentVersions(w.chain)]
      /\ \A t \in Template : t # u => templates'[t] = templates[t]
      /\ templates' = [t \in Template |-> templates'[t]]
  <2>1. templates[u] = [config |-> templates[u].config, chain |-> templates[u].chain,
                        recorded |-> templates[u].recorded]
    BY <1>4, <1>6 DEF TemplatesTyped, IsRow
  <2>2. DOMAIN templates = Template
    BY <1>6 DEF TemplatesTyped
  <2> QED
    BY <1>2, <1>4, <2>1, <2>2
<1>8. TemplatesTyped'
  <2>1. IsRow(templates'[u])
    BY <1>4, <1>6, <1>7, VersionsAreOfChain DEF TemplatesTyped, IsRow
  <2>2. \A t \in Template : IsRow(templates'[t])
    BY <1>6, <1>7, <2>1 DEF TemplatesTyped
  <2> QED
    BY <1>7, <2>2 DEF TemplatesTyped
<1>9. TemplatesWellFormed' /\ BundlesTyped'
  BY <1>1, <1>5, <1>8 DEF TemplatesWellFormed, TemplateInv, BundlesTyped, EffortTyped
<1>10. MarksAreTrue'
  <2> SUFFICES ASSUME ~disturbed, NEW t \in Template, SyncConfig(t) \notin left
               PROVE  Untouched(left, t)' /\ IsApplied(t)'
    BY <1>1, <1>5, Zenon DEF MarksAreTrue
  <2>1. SyncConfig(t) \notin work
    BY <1>0, <1>1 DEF SyncConfig
  <2>2. Untouched(work, t) /\ IsApplied(t)
    BY <1>0, <2>1 DEF TemplateInv, MarksAreTrue
  <2>3. t # u
    BY <1>0, <1>1, <1>3, <2>2 DEF Untouched, Relinks
  <2>4. templates'[t] = templates[t]
    BY <1>7, <2>3
  <2>5. Untouched(left, t)'
    BY <1>0, <2>2, <2>4 DEF Untouched
  <2>6. Stay(templates[t].chain)
    BY <1>1 DEF Stay
  <2> QED
    BY <2>2, <2>4, <2>5, <2>6, AppliedKept
<1>11. RebuildGoesOn'
  <2> SUFFICES ASSUME ~disturbed, command.op = "rebuild"
               PROVE  /\ \A v \in left : v.do = "chain" => ChainCanBeBuilt(left, v.chain)'
                      /\ \A t \in Template :
                            (\E v \in left : Relinks(v, t)) \/ IsRebuilt(left, t)'
    BY <1>1, <1>5, Zenon DEF RebuildGoesOn
  <2>1. /\ \A v \in work : v.do = "chain" => ChainCanBeBuilt(work, v.chain)
        /\ \A t \in Template : (\E v \in work : Relinks(v, t)) \/ IsRebuilt(work, t)
    BY <1>0 DEF TemplateInv, RebuildGoesOn
  <2>2. ASSUME NEW v \in left, v.do = "chain" PROVE ChainCanBeBuilt(left, v.chain)'
    BY <1>0, <1>1, <1>3, <2>1, <2>2 DEF ChainCanBeBuilt
  <2>3. ASSUME NEW t \in Template, ~ \E v \in left : Relinks(v, t) PROVE IsRebuilt(left, t)'
    <3>1. CASE t = u
      <4>1. ToSet(w.chain) \subseteq DOMAIN bundles
        BY <1>0, <1>1, <1>3, <2>1 DEF ChainCanBeBuilt
      <4>2. isTemplateInSync(t)'
        BY <1>1, <1>7, <1>9, <3>1, <4>1, CurrentIsInSync
      <4> QED
        BY <1>0, <1>3, <4>2 DEF IsRebuilt, Changes
    <3>2. CASE t # u
      <4>1. ~Relinks(w, t)
        BY <1>0, <3>2 DEF Relinks
      <4>2. IsRebuilt(work, t)
        BY <1>0, <2>1, <2>3, <4>1
      <4>3. templates'[t] = templates[t]
        BY <1>7, <3>2
      <4>4. Stay(templates[t].chain)
        BY <1>1 DEF Stay
      <4>5. isTemplateInSync(t)'
        BY <4>2, <4>3, <4>4, SyncKept DEF IsRebuilt
      <4> QED
        BY <1>0, <4>2, <4>3, <4>5 DEF IsRebuilt
    <3> QED
      BY <3>1, <3>2
  <2> QED
    BY <2>2, <2>3
<1> QED
  BY <1>9, <1>10, <1>11 DEF TemplateInv

LEMMA ConfigSynced ==
    ASSUME TemplateInv, syncConfigFromChain
    PROVE  TemplateInv'
<1>0. PICK w, work, left, u, chain, result :
         /\ w = Head1 /\ work = command.work /\ left = work \ {w}
         /\ u = w.template /\ chain = templates[u].chain /\ result = resolveToConfig(chain)
  OBVIOUS
<1>1. ~NoWork /\ w.do = "sync" /\ UNCHANGED <<bundles, effort, disturbed>>
      /\ command' = [command EXCEPT !.work = @ \ {w}]
  BY <1>0, NextIsLeft DEF syncConfigFromChain
<1>2. templates' = IF ~result.ok THEN templates
                   ELSE [templates EXCEPT ![u] = [config |-> result.config, chain |-> chain,
                                                  recorded |-> getCurrentVersions(chain)]]
  BY <1>0, Zenon DEF syncConfigFromChain
<1>3. w \in work /\ IsWrite(w) /\ \A v \in work : v.do = "sync"
  BY <1>0, <1>1, WriteIsMade
<1>4. u \in Template /\ w = SyncConfig(u)
  BY <1>0, <1>1, <1>3, KindsOfWrites
<1>5. CommandTyped' /\ command'.work = left /\ command'.op = command.op
  BY <1>0, <1>1, WorkShrinks
<1>6. TemplatesTyped /\ BundlesTyped /\ IsRow(templates[u])
  BY <1>4 DEF TemplateInv, TemplatesWellFormed, TemplatesTyped
<1>7. \/ /\ chain = <<>> \/ ~(ToSet(chain) \subseteq DOMAIN bundles)
         /\ result.ok = FALSE
      \/ /\ ToSet(chain) \subseteq DOMAIN bundles
         /\ result.ok = TRUE
         /\ result.config = Resolved(Gathered(chain)).config
         /\ result = [ok |-> TRUE, config |-> result.config]
  BY <1>0, ResolveCases
<1>8. \A t \in Template : Stay(templates[t].chain)
  BY <1>1 DEF Stay
<1>9. /\ \A t \in Template : t # u => templates'[t] = templates[t]
      /\ \A t \in Template : templates'[t].chain = templates[t].chain
      /\ ~result.ok => templates' = templates
      /\ result.ok => templates'[u] = [config |-> result.config, chain |-> chain,
                                       recorded |-> getCurrentVersions(chain)]
      /\ templates' = [t \in Template |-> templates'[t]]
  <2>1. templates[u] = [config |-> templates[u].config, chain |-> chain,
                        recorded |-> templates[u].recorded]
    BY <1>0, <1>6 DEF IsRow
  <2>2. DOMAIN templates = Template /\ templates = [t \in Template |-> templates[t]]
    BY <1>6 DEF TemplatesTyped
  <2>3. CASE ~result.ok
    BY <1>2, <2>2, <2>3
  <2>4. CASE result.ok
    <3>1. templates' = [templates EXCEPT ![u] = [config |-> result.config, chain |-> chain,
                                                 recorded |-> getCurrentVersions(chain)]]
      BY <1>2, <2>4
    <3>2. templates'[u] = [config |-> result.config, chain |-> chain,
                           recorded |-> getCurrentVersions(chain)]
      <4>1. DOMAIN templates = Template
        BY <2>2
      <4> QED
        BY <1>4, <3>1, <4>1
    <3>3. \A t \in Template : t # u => templates'[t] = templates[t]
      BY <2>2, <3>1
    <3>4. templates' = [t \in Template |-> templates'[t]]
      BY <2>2, <3>1
    <3>5. templates'[u].chain = templates[u].chain
      BY <1>0, <3>2
    <3> QED
      BY <2>4, <3>2, <3>3, <3>4, <3>5
  <2> QED
    BY <2>3, <2>4
<1>10. TemplatesTyped'
  <2>1. ASSUME result.ok PROVE IsRow(templates'[u])
    <3>1. ToSet(chain) \subseteq DOMAIN bundles /\ IsChain(chain)
      BY <1>0, <1>6, <1>7, <2>1 DEF IsRow
    <3>2. Gathered(chain) \in Seq(ComponentRecord)
      BY <1>6, <3>1, GatheredIsComponents
    <3>3. IsConfig(result.config)
      BY <1>7, <2>1, <3>2, ResolvedIsConfig
    <3> QED
      BY <1>9, <2>1, <3>1, <3>3, VersionsAreOfChain DEF IsRow
  <2>2. ASSUME NEW t \in Template PROVE IsRow(templates'[t])
    <3>1. IsRow(templates[t])
      BY <1>6 DEF TemplatesTyped
    <3> QED
      BY <1>9, <2>1, <3>1
  <2> QED
    BY <1>9, <2>2 DEF TemplatesTyped
<1>11. TemplatesWellFormed' /\ BundlesTyped'
  BY <1>1, <1>5, <1>10 DEF TemplatesWellFormed, TemplateInv, BundlesTyped, EffortTyped
<1>12. ASSUME NEW t \in Template PROVE isTemplateInSync(t) => isTemplateInSync(t)'
  <2>1. CASE t # u \/ ~result.ok
    BY <1>8, <1>9, <2>1, SyncKept
  <2>2. CASE t = u /\ result.ok
    <3>1. ToSet(chain) \subseteq DOMAIN bundles
      BY <1>7, <2>2
    <3> QED
      BY <1>1, <1>9, <1>11, <2>2, <3>1, CurrentIsInSync
  <2> QED
    BY <2>1, <2>2
<1>13. MarksAreTrue'
  <2> SUFFICES ASSUME ~disturbed, NEW t \in Template, SyncConfig(t) \notin left
               PROVE  Untouched(left, t)' /\ IsApplied(t)'
    BY <1>1, <1>5, Zenon DEF MarksAreTrue
  <2>1. Untouched(left, t)'
    BY <1>0, <1>3 DEF Untouched, Relinks, Changes
  <2>2. CASE t # u
    <3>1. SyncConfig(t) \notin work
      BY <1>0, <1>4, <2>2 DEF SyncConfig
    <3>2. IsApplied(t)
      BY <1>0, <3>1 DEF TemplateInv, MarksAreTrue
    <3> QED
      BY <1>8, <1>9, <2>1, <2>2, <3>2, AppliedKept
  <2>3. CASE t = u /\ result.ok
    <3>1. resolveToConfig(chain)' = result
      BY <1>0, <1>4, <1>8, ResolveKept
    <3>2. templates'[t].chain = chain /\ templates'[t].config = result.config
      BY <1>9, <2>3
    <3>3. (resolveToConfig(chain)') = [ok |-> TRUE, config |-> templates'[t].config]
      BY <1>7, <2>3, <3>1, <3>2
    <3>4. resolveToConfig(templates[t].chain)' = [ok |-> TRUE, config |-> templates'[t].config]
      BY <3>2, <3>3, Zenon DEF resolveToConfig, Gathered
    <3> QED
      BY <2>1, <3>4, Zenon DEF IsApplied
  <2>4. CASE t = u /\ ~result.ok
    <3>1. chain = <<>> \/ ~(ToSet(chain) \subseteq DOMAIN bundles)
      BY <1>7, <2>4
    <3>2. templates'[t].chain = chain /\ bundles' = bundles
      BY <1>0, <1>1, <1>9, <2>4
    <3>3. resolveToConfig(templates[t].chain)' = Unresolved
      BY <3>1, <3>2, Zenon DEF resolveToConfig
    <3>4. Unresolved.ok = FALSE
      BY DEF Unresolved
    <3> QED
      BY <2>1, <3>3, <3>4, Zenon DEF IsApplied
  <2> QED
    BY <2>2, <2>3, <2>4
<1>14. RebuildGoesOn'
  <2> SUFFICES ASSUME ~disturbed, command.op = "rebuild"
               PROVE  /\ \A v \in left : v.do = "chain" => ChainCanBeBuilt(left, v.chain)'
                      /\ \A t \in Template :
                            (\E v \in left : Relinks(v, t)) \/ IsRebuilt(left, t)'
    BY <1>1, <1>5, Zenon DEF RebuildGoesOn
  <2>1. \A v \in left : v.do # "chain"
    BY <1>0, <1>3
  <2>2. ASSUME NEW t \in Template PROVE IsRebuilt(left, t)'
    <3>1. IsRebuilt(work, t)
      BY <1>0, <1>3 DEF TemplateInv, RebuildGoesOn, Relinks
    <3>2. isTemplateInSync(t)'
      BY <1>12, <3>1 DEF IsRebuilt
    <3> QED
      BY <1>0, <1>3, <3>2 DEF IsRebuilt, Changes
  <2> QED
    BY <2>1, <2>2
<1> QED
  BY <1>11, <1>13, <1>14 DEF TemplateInv

\* A write fails, or the program ends.
LEMMA WorkIsLost ==
    ASSUME TemplateInv, Fault, NEW left \in SUBSET command.work,
           command' = [command EXCEPT !.work = left]
    PROVE  TemplateInv'
<1>1. EffortTyped' /\ disturbed' = TRUE /\ templates' = templates /\ bundles' = bundles
  BY TemplateAssumption DEF Fault, EffortTyped, TemplateInv, TemplatesWellFormed
<1>2. CommandTyped'
  BY DEF TemplateInv, TemplatesWellFormed, CommandTyped, AreWrites
<1>3. TemplatesWellFormed'
  BY <1>1, <1>2 DEF TemplateInv, TemplatesWellFormed, TemplatesTyped, BundlesTyped
<1> QED
  BY <1>1, <1>3 DEF TemplateInv, MarksAreTrue, RebuildGoesOn

LEMMA WriteFailed ==
    ASSUME TemplateInv, WriteFails \/ ProgramEnds
    PROVE  TemplateInv'
<1>1. Fault
  BY DEF WriteFails, ProgramEnds
<1>2. \/ command' = [command EXCEPT !.work = {}]
      \/ command' = [command EXCEPT !.work = @ \ {Head1}]
  BY NextIsLeft DEF WriteFails, ProgramEnds
<1>3. CASE command' = [command EXCEPT !.work = {}]
  BY <1>1, <1>3, WorkIsLost
<1>4. CASE command' = [command EXCEPT !.work = @ \ {Head1}]
  <2> DEFINE left == command.work \ {Head1}
  <2>1. left \in SUBSET command.work /\ command' = [command EXCEPT !.work = left]
    BY <1>4
  <2> HIDE DEF left
  <2> QED
    BY <1>1, <2>1, WorkIsLost
<1> QED
  BY <1>2, <1>3, <1>4

-----------------------------------------------------------------------------
(* The theorems.                                                           *)

LEMMA TemplatesInitially ==
    ASSUME TemplateInit PROVE TemplateInv
<1>1. \A t \in Template : IsConfig(Seed[t])
  <2>1. ASSUME NEW tag \in Tag, NEW val \in Seq(Text)
        PROVE  <<Item(tag, val)>> \in Seq(ItemRecord) /\ <<Item(tag, val)>> # <<>>
    BY DEF Item, ItemRecord
  <2>3. /\ NoTag \in Tag /\ "socks" \in Tag /\ "api" \in Text /\ "mixed" \in Text
        /\ "warning" \in Text /\ "direct" \in Text
    BY DEF Tag, Text
  <2>0. \A a \in Text, b \in Text : <<a>> \in Seq(Text) /\ <<a, b>> \in Seq(Text)
    OBVIOUS
  <2>2. /\ <<"api">> \in Seq(Text) /\ <<"mixed">> \in Seq(Text)
        /\ <<"warning">> \in Seq(Text) /\ <<"api", "direct">> \in Seq(Text)
    BY <2>3, <2>0, Zenon
  <2>4. ASSUME NEW rules \in Seq(Text)
        PROVE  IsConfig([api |-> <<Item(NoTag, <<"api">>)>>,
                         inbounds |-> <<Item("socks", <<"mixed">>)>>,
                         routing |-> <<Item(NoTag, rules)>>])
    <3> DEFINE api == <<Item(NoTag, <<"api">>)>>
               inbounds == <<Item("socks", <<"mixed">>)>>
               routing == <<Item(NoTag, rules)>>
    <3>1. /\ api \in Seq(ItemRecord) /\ api # <<>>
          /\ inbounds \in Seq(ItemRecord) /\ inbounds # <<>>
          /\ routing \in Seq(ItemRecord) /\ routing # <<>>
      BY <2>1, <2>2, <2>3, Zenon
    <3>3. (\E item : api = <<item>>) /\ (\E item : routing = <<item>>)
      BY Zenon
    <3> HIDE DEF api, inbounds, routing
    <3>4. PICK c : c = [api |-> api, inbounds |-> inbounds, routing |-> routing]
      OBVIOUS
    <3>5. /\ DOMAIN c = {"api", "inbounds", "routing"}
          /\ c["api"] = api /\ c["inbounds"] = inbounds /\ c["routing"] = routing
      BY <3>4
    <3>6. IsConfig(c)
      BY <3>1, <3>3, <3>5 DEF IsConfig, Section
    <3>2. IsConfig([api |-> api, inbounds |-> inbounds, routing |-> routing])
      BY <3>4, <3>6
    <3> QED
      BY <3>2 DEF api, inbounds, routing
  <2>5. IsConfig([log |-> <<Item(NoTag, <<"warning">>)>>])
    <3> DEFINE log == <<Item(NoTag, <<"warning">>)>>
    <3>1. log \in Seq(ItemRecord) /\ log # <<>> /\ \E item : log = <<item>>
      BY <2>1, <2>2, <2>3, Zenon
    <3> HIDE DEF log
    <3>3. PICK c : c = [log |-> log]
      OBVIOUS
    <3>4. DOMAIN c = {"log"} /\ c["log"] = log
      BY <3>3
    <3>5. IsConfig(c)
      BY <3>1, <3>4 DEF IsConfig, Section
    <3>2. IsConfig([log |-> log])
      BY <3>3, <3>5
    <3> QED
      BY <3>2 DEF log
  <2>6. /\ Seed["base"] = [log |-> <<Item(NoTag, <<"warning">>)>>]
        /\ \A t \in {"test", "pool"} : \E rules \in Seq(Text) :
              Seed[t] = [api |-> <<Item(NoTag, <<"api">>)>>,
                         inbounds |-> <<Item("socks", <<"mixed">>)>>,
                         routing |-> <<Item(NoTag, rules)>>]
    <3>1. /\ Seed.base = [log |-> <<Item(NoTag, <<"warning">>)>>]
          /\ Seed.test = [api |-> <<Item(NoTag, <<"api">>)>>,
                           inbounds |-> <<Item("socks", <<"mixed">>)>>,
                           routing |-> <<Item(NoTag, <<"api">>)>>]
          /\ Seed.pool = [api |-> <<Item(NoTag, <<"api">>)>>,
                           inbounds |-> <<Item("socks", <<"mixed">>)>>,
                           routing |-> <<Item(NoTag, <<"api", "direct">>)>>]
      BY DEF Seed
    <3> QED
      BY <2>2, <3>1, Zenon
  <2> QED
    BY <2>4, <2>5, <2>6, Zenon DEF Template
<1>2. <<>> \in Seq(Text) /\ DOMAIN <<>> = {}
  OBVIOUS
<1>3. TemplatesTyped /\ BundlesTyped /\ CommandTyped /\ EffortTyped
  <2>1. TemplatesTyped
    BY <1>1, <1>2, Zenon DEF TemplateInit, TemplatesTyped, IsRow, IsChain, ToSet
  <2>2. BundlesTyped
    BY <1>2 DEF TemplateInit, BundlesTyped
  <2>3. CommandTyped
    BY DEF TemplateInit, CommandTyped, AreWrites
  <2>4. EffortTyped
    <3>1. MaxTemplateEdits \in Nat /\ MaxTemplateFaults \in Nat /\ MaxCommands \in Nat
      BY TemplateAssumption
    <3>2. effort = [edits |-> 0, faults |-> 0, commands |-> 0]
      BY Zenon DEF TemplateInit
    <3>3. disturbed = FALSE
      BY Zenon DEF TemplateInit
    <3>4. effort \in [edits : 0 .. MaxTemplateEdits, faults : 0 .. MaxTemplateFaults,
                      commands : 0 .. MaxCommands]
      BY <3>1, <3>2
    <3> QED
      BY <3>3, <3>4, Zenon DEF EffortTyped
  <2> QED
    BY <2>1, <2>2, <2>3, <2>4
<1>4. MarksAreTrue
  <2>1. ASSUME NEW t \in Template PROVE IsApplied(t)
    <3>1. templates[t].chain = <<>>
      BY DEF TemplateInit
    <3>2. resolveToConfig(templates[t].chain) = Unresolved
      BY <3>1, Zenon DEF resolveToConfig
    <3>3. Unresolved.ok = FALSE
      BY DEF Unresolved
    <3> QED
      BY <3>2, <3>3, Zenon DEF IsApplied
  <2>2. \A t \in Template : Untouched(command.work, t)
    BY DEF TemplateInit, Untouched
  <2> QED
    BY <2>1, <2>2 DEF MarksAreTrue
<1>5. RebuildGoesOn
  BY DEF TemplateInit, RebuildGoesOn
<1> QED
  BY <1>3, <1>4, <1>5 DEF TemplateInv, TemplatesWellFormed

LEMMA TemplateInvStep == TemplateInv /\ [TemplateNext]_templateVars => TemplateInv'
<1> SUFFICES ASSUME TemplateInv, [TemplateNext]_templateVars PROVE TemplateInv'
  OBVIOUS
<1>1. CASE \E id \in BundleIds : onBundleSave(id) \/ onBundleNew(id) \/ onBundleDelete(id)
  BY <1>1, BundleSaved, BundleAdded, BundleRemoved
<1>2. CASE \E t \in Template : onChainSave(t) \/ onTemplateSave(t)
  BY <1>2, ChainSaved, TemplateSaved
<1>3. CASE rebuildBundlesAndChains \/ syncConfigsFromChains \/ decomposeAndSave
  BY <1>3, RebuildCommanded, SyncCommanded, DecomposeCommanded
<1>4. CASE WriteBundle \/ RemoveBundle \/ WriteChain \/ syncConfigFromChain
  BY <1>4, BundleWritten, BundleDeleted, ChainWritten, ConfigSynced
<1>5. CASE WriteFails \/ ProgramEnds
  BY <1>5, WriteFailed
<1>6. CASE UNCHANGED templateVars
  <2>1. UNCHANGED <<templates, bundles, command, effort, expected, disturbed>>
    BY <1>6 DEF templateVars
  <2>2. TemplatesWellFormed'
    BY <2>1 DEF TemplateInv, TemplatesWellFormed, TemplatesTyped, BundlesTyped, CommandTyped,
                EffortTyped
  <2>3. \A t \in Template : Stay(templates[t].chain)
    BY <2>1 DEF Stay
  <2>4. MarksAreTrue'
    BY <2>1, <2>3, AppliedKept DEF TemplateInv, MarksAreTrue, Untouched
  <2>5. RebuildGoesOn'
    BY <2>1, <2>3, SyncKept DEF TemplateInv, RebuildGoesOn, IsRebuilt, ChainCanBeBuilt
  <2> QED
    BY <2>2, <2>4, <2>5 DEF TemplateInv
<1> QED
  BY <1>1, <1>2, <1>3, <1>4, <1>5, <1>6 DEF TemplateNext

LEMMA TemplateInvAlways == TemplateSpec => []TemplateInv
BY TemplatesInitially, TemplateInvStep, PTL DEF TemplateSpec

\* Type correctness of templates, bundles and the command in progress: a configuration
\* has known sections only, and versions are recorded of bundles of the chain only.
THEOREM TemplateTypeCorrect == TemplateSpec => []TemplateTypeOK
<1>1. TemplateInv => TemplateTypeOK
  <2> SUFFICES ASSUME TemplateInv PROVE TemplateTypeOK
    OBVIOUS
  <2>1. ASSUME NEW t \in Template
        PROVE  /\ DOMAIN templates[t].config \subseteq ToSet(ComponentType)
               /\ DOMAIN templates[t].recorded \subseteq ToSet(templates[t].chain)
    BY ListsOfSections DEF TemplateInv, TemplatesWellFormed, TemplatesTyped, IsRow, IsConfig
  <2>2. \A id \in DOMAIN bundles : bundles[id].version \in 1 .. 2
    BY DEF TemplateInv, TemplatesWellFormed, BundlesTyped, BundleRecord
  <2> QED
    BY <2>1, <2>2 DEF TemplateTypeOK, TemplateInv, TemplatesWellFormed, CommandTyped, EffortTyped
<1> QED
  BY <1>1, TemplateInvAlways, PTL

\* A template that the window shows as in sync has the configuration that its chain
\* resolves to, whatever edits, commands and rewrites of bundles under chains came before,
\* and a rebuild that no fault disturbed leaves every template in sync
\* (FullConfigTemplateDAO::isTemplateInSync(), rebuildBundlesAndChains()).
THEOREM SyncMarkIsTrueAlways == TemplateSpec => []SyncMarkIsTrue
<1>1. TemplateInv => SyncMarkIsTrue
  <2> SUFFICES ASSUME TemplateInv, NoWork, ~disturbed, NEW t \in Template
               PROVE  /\ /\ templates[t].chain # <<>> /\ isTemplateInSync(t)
                         /\ IsPlain(templates[t].chain)
                         => resolveToConfig(templates[t].chain) =
                               [ok |-> TRUE, config |-> templates[t].config]
                      /\ command.op = "rebuild" => isTemplateInSync(t)
    BY Zenon DEF SyncMarkIsTrue, IsPlain
  <2>1. IsApplied(t)
    BY DEF TemplateInv, MarksAreTrue, NoWork
  <2>2. command.op = "rebuild" => isTemplateInSync(t)
    BY DEF TemplateInv, RebuildGoesOn, NoWork, IsRebuilt
  <2>3. ASSUME templates[t].chain # <<>>, isTemplateInSync(t)
        PROVE  resolveToConfig(templates[t].chain).ok
    <3>1. ToSet(templates[t].chain) \subseteq DOMAIN bundles
      BY <2>3 DEF isTemplateInSync
    <3> QED
      BY <2>3, <3>1, Zenon DEF resolveToConfig, Resolved
  <2>4. /\ templates[t].chain # <<>> /\ isTemplateInSync(t)
        /\ IsPlain(templates[t].chain)
        => resolveToConfig(templates[t].chain) = [ok |-> TRUE, config |-> templates[t].config]
    BY <2>1, <2>3, Zenon DEF IsApplied
  <2> QED
    BY <2>2, <2>4
<1> QED
  BY <1>1, TemplateInvAlways, PTL

-----------------------------------------------------------------------------
(* What bundles of one component each resolve to.                          *)

\* No two of one type.
AreSingle(comps) == \A i, j \in DOMAIN comps : comps[i].type = comps[j].type => i = j

LEMMA AppliedFirst ==
    ASSUME NEW config, NEW c \in ComponentRecord, c.type \notin DOMAIN config
    PROVE  applyComponent(config, c) = WithSection(config, c.type, <<Item(c.tag, c.val)>>)
<1>1. applyComponent(config, c) = WithSection(config, c.type, Changed(<<>>, c))
  BY Zenon DEF applyComponent, Changed
<1>2. Changed(<<>>, c) = <<Item(c.tag, c.val)>>
  <2> DEFINE items == <<>>
             same == {n \in DOMAIN items : c.tag # NoTag /\ items[n].tag = c.tag}
             item == Item(c.tag, c.val)
  <2>1. same = {} /\ Append(items, item) = <<item>>
    OBVIOUS
  <2>2. Changed(items, c) = Append(items, item) \/ Changed(items, c) = <<item>>
    <3>1. Strategy(c.type) = "append" /\ same = {} => Changed(items, c) = Append(items, item)
      BY <2>1, Zenon DEF Changed
    <3>2. Strategy(c.type) # "append" => Changed(items, c) = <<item>>
      BY Zenon DEF Changed
    <3> QED
      BY <2>1, <3>1, <3>2, Zenon
  <2> QED
    BY <2>1, <2>2
<1> QED
  BY <1>1, <1>2

LEMMA ResolvedSingles ==
    ASSUME NEW comps \in Seq(ComponentRecord), AreSingle(comps),
           NEW config, config = Resolved(comps).config
    PROVE  /\ DOMAIN config = {comps[i].type : i \in DOMAIN comps}
           /\ \A i \in DOMAIN comps : config[comps[i].type] = <<Item(comps[i].tag, comps[i].val)>>
<1>1. PICK n \in Nat : DOMAIN comps = 1 .. n
  OBVIOUS
<1>2. \A i \in 1 .. n : comps[i] \in ComponentRecord
  BY <1>1
<1>3. PICK acc : Applying!InTurn(0, acc, <<>>, comps, n, Applying!Result(0, <<>>, comps))
  BY <1>1, Applying!FoldsInTurn
<1>4. config = Applying!Result(0, <<>>, comps)
  BY Zenon DEF Resolved, FoldLeft, MapThenFoldSet, Max, Applying!Result,
               Applying!MapThenFoldSet, Applying!Greatest, ApplyOne
<1>5. /\ acc[0] = <<>> /\ acc[n] = config
      /\ \A i \in 1 .. n : acc[i] = applyComponent(acc[i - 1], comps[i])
  BY <1>3, <1>4, Zenon DEF Applying!InTurn, ApplyOne
<1> DEFINE Holds(i) ==
               /\ DOMAIN acc[i] = {comps[j].type : j \in 1 .. i}
               /\ \A j \in 1 .. i : acc[i][comps[j].type] = <<Item(comps[j].tag, comps[j].val)>>
           H == {i \in 0 .. n : Holds(i)}
<1>6. 0 \in H
  <2>1. DOMAIN acc[0] = {} /\ 1 .. 0 = {}
    BY <1>5
  <2> QED
    BY <2>1
<1>7. ASSUME NEW i \in 1 .. n, i - 1 \in H PROVE i \in H
  <2>1. PICK c, before, item : c = comps[i] /\ before = acc[i - 1] /\ item = <<Item(c.tag, c.val)>>
    OBVIOUS
  <2>2. /\ DOMAIN before = {comps[j].type : j \in 1 .. (i - 1)}
        /\ \A j \in 1 .. (i - 1) : before[comps[j].type] = <<Item(comps[j].tag, comps[j].val)>>
    BY <1>7, <2>1
  <2>3. \A j \in 1 .. (i - 1) : comps[j].type # c.type
    BY <1>1, <2>1 DEF AreSingle
  <2>4. acc[i] = WithSection(before, c.type, item)
    BY <1>2, <1>5, <2>1, <2>2, <2>3, AppliedFirst
  <2>5. /\ DOMAIN acc[i] = DOMAIN before \cup {c.type}
        /\ acc[i][c.type] = item
        /\ \A s \in DOMAIN before : s # c.type => acc[i][s] = before[s]
    BY <2>4 DEF WithSection
  <2>6. 1 .. i = 1 .. (i - 1) \cup {i}
    OBVIOUS
  <2>7. DOMAIN acc[i] = {comps[j].type : j \in 1 .. i}
    BY <2>1, <2>2, <2>5, <2>6
  <2>8. ASSUME NEW j \in 1 .. i
        PROVE  acc[i][comps[j].type] = <<Item(comps[j].tag, comps[j].val)>>
    <3>1. CASE j = i
      BY <2>1, <2>5, <3>1
    <3>2. CASE j # i
      <4>1. j \in 1 .. (i - 1)
        BY <2>6, <3>2
      <4> QED
        BY <2>2, <2>3, <2>5, <4>1
    <3> QED
      BY <3>1, <3>2
  <2> QED
    BY <2>7, <2>8
<1> HIDE DEF H
<1>8. n \in H
  BY <1>6, <1>7, n \in 0 .. n, Applying!FoldInduction
<1>9. Holds(n)
  BY <1>8 DEF H
<1> QED
  BY <1>1, <1>5, <1>9

LEMMA AppendNext ==
    ASSUME NEW S, NEW n \in Nat, NEW i \in 1 .. n, NEW r, DOMAIN r = 1 .. n,
           \A j \in 1 .. n : r[j] \in S, NEW before, before = [j \in 1 .. (i - 1) |-> r[j]]
    PROVE  Append(before, r[i]) = [j \in 1 .. i |-> r[j]]
<1>1. before \in Seq(S) /\ Len(before) = i - 1
  <2>1. before \in [1 .. (i - 1) -> S]
    OBVIOUS
  <2> QED
    BY <2>1
<1>2. PICK x : x = r[i] /\ x \in S
  OBVIOUS
<1>3. PICK after : after = Append(before, x)
  OBVIOUS
<1>4. after \in Seq(S) /\ Len(after) = i /\ after[i] = x
      /\ \A j \in 1 .. (i - 1) : after[j] = before[j]
  BY <1>1, <1>2, <1>3
<1>5. DOMAIN after = 1 .. i /\ after = [j \in 1 .. i |-> after[j]]
  BY <1>4
<1>6. \A j \in 1 .. i : after[j] = r[j]
  BY <1>2, <1>4
<1> QED
  BY <1>2, <1>3, <1>5, <1>6

LEMMA OthersAreAll ==
    ASSUME NEW r \in Seq(ComponentRecord), NEW c, \A i \in DOMAIN r : r[i].type # c.type
    PROVE  Others(r, c) = r
<1>1. PICK n \in Nat : DOMAIN r = 1 .. n
  OBVIOUS
<1>2. PICK acc : Keeping!InTurn(c, acc, <<>>, r, n, Keeping!Result(c, <<>>, r))
  BY <1>1, Keeping!FoldsInTurn
<1>3. Others(r, c) = Keeping!Result(c, <<>>, r)
  BY Zenon DEF Others, FoldLeft, MapThenFoldSet, Max, Keeping!Result, Keeping!MapThenFoldSet,
               Keeping!Greatest, Keep
<1>4. /\ acc[0] = <<>> /\ acc[n] = Others(r, c)
      /\ \A i \in 1 .. n : acc[i] = Keep(c, acc[i - 1], r[i])
  BY <1>2, <1>3, Zenon DEF Keeping!InTurn
<1>5. \A i \in 1 .. n : acc[i] = Append(acc[i - 1], r[i])
  BY <1>1, <1>4, Zenon DEF Keep, Replaces
<1> DEFINE H == {i \in 0 .. n : acc[i] = [j \in 1 .. i |-> r[j]]}
<1>6. 0 \in H
  BY <1>4
<1>7. ASSUME NEW i \in 1 .. n, i - 1 \in H PROVE i \in H
  <2>1. PICK before, after, item : before = acc[i - 1] /\ after = acc[i] /\ item = r[i]
    OBVIOUS
  <2>2. before = [j \in 1 .. (i - 1) |-> r[j]]
    BY <1>7, <2>1
  <2>3. \A j \in 1 .. n : r[j] \in ComponentRecord
    BY <1>1
  <2>4. Append(before, r[i]) = [j \in 1 .. i |-> r[j]]
    BY <1>1, <2>2, <2>3, AppendNext
  <2>5. after = Append(before, r[i])
    BY <1>5, <2>1, Zenon
  <2>6. i \in 0 .. n
    OBVIOUS
  <2> QED
    BY <2>1, <2>4, <2>5, <2>6, Zenon
<1> HIDE DEF H
<1>8. n \in H
  BY <1>6, <1>7, n \in 0 .. n, Keeping!FoldInduction
<1>9. acc[n] = [j \in 1 .. n |-> r[j]]
  BY <1>8 DEF H
<1>10. [j \in 1 .. n |-> r[j]] = r
  BY <1>1
<1> QED
  BY <1>4, <1>9, <1>10

LEMMA MergedSingle ==
    ASSUME NEW base \in Seq(ComponentRecord), NEW c, \A i \in DOMAIN base : base[i].type # c.type
    PROVE  mergeComponents(base, <<c>>) = Append(base, c)
<1>1. DOMAIN <<c>> = 1 .. 1 /\ <<c>>[1] = c
  OBVIOUS
<1>2. PICK acc : Merging!InTurn(0, acc, base, <<c>>, 1, Merging!Result(0, base, <<c>>))
  BY <1>1, Merging!FoldsInTurn
<1>3. mergeComponents(base, <<c>>) = Merging!Result(0, base, <<c>>)
  BY Zenon DEF mergeComponents, FoldLeft, MapThenFoldSet, Max, Merging!Result,
               Merging!MapThenFoldSet, Merging!Greatest, MergeOne, Others
<1>4. /\ acc[0] = base /\ acc[1] = mergeComponents(base, <<c>>)
      /\ \A i \in 1 .. 1 : acc[i] = Append(Others(acc[i - 1], <<c>>[i]), <<c>>[i])
  BY <1>2, <1>3, Zenon DEF Merging!InTurn, MergeOne
<1>5. acc[1] = Append(Others(base, c), c)
  <2>1. 1 \in 1 .. 1 /\ 1 - 1 = 0
    OBVIOUS
  <2> QED
    BY <1>1, <1>4, <2>1
<1> QED
  BY <1>4, <1>5, OthersAreAll

LEMMA GatheredSingles ==
    ASSUME NEW comps \in Seq(ComponentRecord), AreSingle(comps),
           NEW chain, DOMAIN chain = DOMAIN comps,
           \A i \in DOMAIN chain : bundles[chain[i]].components = <<comps[i]>>
    PROVE  Gathered(chain) = comps
<1>1. PICK n \in Nat : DOMAIN comps = 1 .. n
  OBVIOUS
<1>2. PICK lists : lists = [i \in DOMAIN chain |-> bundles[chain[i]].components]
  OBVIOUS
<1>3. DOMAIN lists = 1 .. n /\ \A i \in 1 .. n : lists[i] = <<comps[i]>>
  BY <1>1, <1>2
<1>4. PICK acc : Gathering!InTurn(0, acc, <<>>, lists, n, Gathering!Result(0, <<>>, lists))
  BY <1>3, Gathering!FoldsInTurn
<1>5. Merged(lists) = Gathering!Result(0, <<>>, lists)
  BY Zenon DEF Merged, FoldLeft, MapThenFoldSet, Max, Gathering!Result,
               Gathering!MapThenFoldSet, Gathering!Greatest, MergeBundle
<1>6. /\ acc[0] = <<>> /\ acc[n] = Merged(lists)
      /\ \A i \in 1 .. n : acc[i] = mergeComponents(acc[i - 1], lists[i])
  BY <1>4, <1>5, Zenon DEF Gathering!InTurn, MergeBundle
<1> DEFINE H == {i \in 0 .. n : acc[i] = [j \in 1 .. i |-> comps[j]]}
<1>7. 0 \in H
  BY <1>6
<1>8. ASSUME NEW i \in 1 .. n, i - 1 \in H PROVE i \in H
  <2>1. acc[i - 1] = [j \in 1 .. (i - 1) |-> comps[j]]
    BY <1>8
  <2>2. Len(acc[i - 1]) = i - 1 /\ acc[i - 1] \in Seq(ComponentRecord)
    BY <1>1, <2>1
  <2>3. \A j \in DOMAIN acc[i - 1] : acc[i - 1][j].type # comps[i].type
    BY <1>1, <2>1 DEF AreSingle
  <2>4. acc[i] = Append(acc[i - 1], comps[i])
    BY <1>3, <1>6, <2>2, <2>3, MergedSingle
  <2>5. Append(acc[i - 1], comps[i]) = [j \in 1 .. i |-> comps[j]]
    BY <1>1, <2>1, AppendNext
  <2> QED
    BY <2>4, <2>5
<1> HIDE DEF H
<1>9. n \in H
  BY <1>7, <1>8, n \in 0 .. n, Gathering!FoldInduction
<1>10. acc[n] = [j \in 1 .. n |-> comps[j]]
  BY <1>9 DEF H
<1>11. [j \in 1 .. n |-> comps[j]] = comps
  BY <1>1
<1>12. Gathered(chain) = Merged(lists)
  BY <1>2, Zenon DEF Gathered, Merged
<1> QED
  BY <1>6, <1>10, <1>11, <1>12

-----------------------------------------------------------------------------
(* A chain that narrows a configuration.                                   *)

\* Where a template, or else its parent, has a section from.
Giver(own, base, type) == IF type \in DOMAIN own THEN own ELSE base

\* A bundle with the first item of the section that the template has or inherits.
Suits(own, base, type, b) ==
    \E c \in ComponentRecord :
        /\ b.components = <<c>> /\ c.type = type
        /\ type \in DOMAIN Giver(own, base, type) =>
              Item(c.tag, c.val) = Giver(own, base, type)[type][1]

\* A section that is not the template's own: the pool writes down the log.
Gains(t, type) == t = "pool" /\ type = "log"

\* A bundle for each section of the template.
IsShaped(t, own, chain) ==
    /\ \A i, j \in DOMAIN chain : chain[i][1] = chain[j][1] => i = j
    /\ \A s \in DOMAIN own : \E id \in ToSet(chain) : id[1] = s
    /\ \A id \in ToSet(chain) : id[1] \in DOMAIN own \/ Gains(t, id[1])

\* Of every section the first item is left, and no section is new but the pool's log.
Narrows(t, own, base, new) ==
    /\ \A s \in DOMAIN own : s \in DOMAIN new /\ new[s] = <<own[s][1]>>
    /\ \A s \in DOMAIN new :
          s \in DOMAIN own \/ (Gains(t, s) /\ (s \in DOMAIN base => new[s] = <<base[s][1]>>))

LEMMA SuitsNarrowed ==
    ASSUME NEW t, NEW own, NEW base, NEW own2, NEW base2, NEW type, NEW b,
           own2 = own \/ (Narrows(t, own, base, own2) /\ "log" \in DOMAIN base),
           base2 = base \/ Narrows("base", base, base, base2),
           Suits(own, base, type, b)
    PROVE  Suits(own2, base2, type, b)
<1>1. PICK c \in ComponentRecord :
         /\ b.components = <<c>> /\ c.type = type
         /\ type \in DOMAIN Giver(own, base, type) =>
               Item(c.tag, c.val) = Giver(own, base, type)[type][1]
  BY Zenon DEF Suits
<1>2. PICK item : item = Item(c.tag, c.val)
  OBVIOUS
<1>3. DOMAIN base2 = DOMAIN base /\ \A s \in DOMAIN base : base2[s][1] = base[s][1]
  BY DEF Narrows, Gains
<1>4. /\ \A s \in DOMAIN own : s \in DOMAIN own2 /\ own2[s][1] = own[s][1]
      /\ \A s \in DOMAIN own2 : s \in DOMAIN own \/ (s \in DOMAIN base /\ own2[s][1] = base[s][1])
  BY DEF Narrows, Gains
<1>5. ASSUME type \in DOMAIN Giver(own2, base2, type)
      PROVE  item = Giver(own2, base2, type)[type][1]
  <2>1. CASE type \in DOMAIN own
    BY <1>1, <1>2, <1>4, <2>1 DEF Giver
  <2>2. CASE type \notin DOMAIN own /\ type \in DOMAIN own2
    BY <1>1, <1>2, <1>4, <2>2 DEF Giver
  <2>3. CASE type \notin DOMAIN own /\ type \notin DOMAIN own2
    BY <1>1, <1>2, <1>3, <1>5, <2>3 DEF Giver
  <2> QED
    BY <2>1, <2>2, <2>3
<1> QED
  BY <1>1, <1>2, <1>5, Zenon DEF Suits

\* A chain of such bundles narrows the configuration.
LEMMA ChainNarrows ==
    ASSUME NEW t, NEW own, NEW base, NEW chain, IsChain(chain), IsShaped(t, own, chain),
           \A id \in ToSet(chain) : Suits(own, base, id[1], bundles[id]),
           NEW config, config = Resolved(Gathered(chain)).config
    PROVE  Narrows(t, own, base, config) /\ IsShaped(t, config, chain)
<1>1. PICK n \in Nat : DOMAIN chain = 1 .. n
  BY DEF IsChain
<1>2. \A i \in 1 .. n : chain[i] \in ToSet(chain)
  BY <1>1 DEF ToSet
<1> DEFINE Fitting(i, c) ==
               /\ bundles[chain[i]].components = <<c>> /\ c.type = chain[i][1]
               /\ chain[i][1] \in DOMAIN Giver(own, base, chain[i][1]) =>
                     Item(c.tag, c.val) = Giver(own, base, chain[i][1])[chain[i][1]][1]
           comps == [i \in 1 .. n |-> CHOOSE c \in ComponentRecord : Fitting(i, c)]
<1>3. ASSUME NEW i \in 1 .. n PROVE comps[i] \in ComponentRecord /\ Fitting(i, comps[i])
  <2>1. \E c \in ComponentRecord : Fitting(i, c)
    BY <1>2, Zenon DEF Suits
  <2>2. comps[i] = CHOOSE c \in ComponentRecord : Fitting(i, c)
    OBVIOUS
  <2> HIDE DEF Fitting, comps
  <2> QED
    BY <2>1, <2>2
<1>4. DOMAIN comps = 1 .. n
  OBVIOUS
<1>5. PICK all : all = comps
  OBVIOUS
<1>0. all = [i \in 1 .. n |-> all[i]]
  BY <1>5
<1> HIDE DEF comps
<1>6. /\ DOMAIN all = 1 .. n
      /\ \A i \in 1 .. n : all[i] \in ComponentRecord /\ Fitting(i, all[i])
      /\ all = [i \in 1 .. n |-> all[i]]
  BY <1>0, <1>3, <1>4, <1>5, Zenon
<1>7. all \in Seq(ComponentRecord)
  <2>1. all \in [1 .. n -> ComponentRecord]
    BY <1>6
  <2> QED
    BY <2>1
<1>8. AreSingle(all)
  BY <1>1, <1>6 DEF AreSingle, IsShaped
<1>9. Gathered(chain) = all
  BY <1>1, <1>6, <1>7, <1>8, GatheredSingles
<1>10. /\ DOMAIN config = {all[i].type : i \in 1 .. n}
       /\ \A i \in 1 .. n : config[all[i].type] = <<Item(all[i].tag, all[i].val)>>
  BY <1>6, <1>7, <1>8, <1>9, ResolvedSingles
<1>11. ASSUME NEW i \in 1 .. n, NEW s, s = chain[i][1]
       PROVE  /\ s \in DOMAIN config
              /\ s \in DOMAIN Giver(own, base, s) => config[s] = <<Giver(own, base, s)[s][1]>>
  <2>1. s \in DOMAIN config /\ config[s] = <<Item(all[i].tag, all[i].val)>>
    BY <1>6, <1>10, <1>11
  <2>2. s \in DOMAIN Giver(own, base, s) =>
           Item(all[i].tag, all[i].val) = Giver(own, base, s)[s][1]
    BY <1>6, <1>11, Zenon
  <2> QED
    BY <2>1, <2>2, Zenon
<1>12. ToSet(chain) = {chain[i] : i \in 1 .. n}
  BY <1>1 DEF ToSet
<1>13. DOMAIN config = {id[1] : id \in ToSet(chain)}
  <2>1. \A i \in 1 .. n : all[i].type = chain[i][1]
    BY <1>6
  <2>2. {all[i].type : i \in 1 .. n} = {chain[i][1] : i \in 1 .. n}
    BY <2>1
  <2> QED
    BY <1>10, <1>12, <2>2
<1>14. ASSUME NEW s \in DOMAIN own PROVE s \in DOMAIN config /\ config[s] = <<own[s][1]>>
  <2>1. PICK i \in 1 .. n : chain[i][1] = s
    BY <1>12 DEF IsShaped
  <2>2. Giver(own, base, s) = own
    BY DEF Giver
  <2> QED
    BY <1>11, <2>1, <2>2
<1>15. ASSUME NEW s \in DOMAIN config, s \notin DOMAIN own
       PROVE  Gains(t, s) /\ (s \in DOMAIN base => config[s] = <<base[s][1]>>)
  <2>1. PICK i \in 1 .. n : chain[i][1] = s
    BY <1>12, <1>13
  <2>2. Giver(own, base, s) = base
    BY <1>15 DEF Giver
  <2>3. Gains(t, s)
    BY <1>2, <1>15, <2>1 DEF IsShaped
  <2> QED
    BY <1>11, <2>1, <2>2, <2>3
<1>16. IsShaped(t, config, chain)
  BY <1>13 DEF IsShaped
<1> QED
  BY <1>14, <1>15, <1>16 DEF Narrows

-----------------------------------------------------------------------------
(* What is built from a narrowed configuration.                            *)

\* loadTemplateById(), and what is built from it.
Loaded(own, base) == [s \in DOMAIN own \cup DOMAIN base |-> Giver(own, base, s)[s]]

Built(t, own, base) ==
    LET config == Loaded(own, base)
        rules == IF "routing" \in DOMAIN config THEN config["routing"][1].val ELSE <<>>
        tag == IF t = "pool" THEN "balancer-out" ELSE "proxy"
    IN WithSection(config, "routing", <<Item(NoTag, Routed(rules, tag))>>)

LEMMA BuildIsBuilt ==
    ASSUME NEW t \in Template
    PROVE  build(t) = Built(t, templates[t].config, templates["base"].config)
<1>1. PICK own, base : own = templates[t].config /\ base = templates["base"].config
  OBVIOUS
<1>2. UNION {DOMAIN templates[p].config : p \in ParentId(t)} =
         IF t = "base" THEN {} ELSE DOMAIN base
  BY <1>1 DEF ParentId
<1>3. DOMAIN own \cup UNION {DOMAIN templates[p].config : p \in ParentId(t)} =
         DOMAIN own \cup DOMAIN base
  BY <1>1, <1>2
<1>4. loadTemplate(t) = [s \in DOMAIN own \cup DOMAIN base |->
                           IF s \in DOMAIN own THEN own[s] ELSE base[s]]
  BY <1>1, <1>3, Zenon DEF loadTemplate
<1>5. \A s : Giver(own, base, s)[s] = IF s \in DOMAIN own THEN own[s] ELSE base[s]
  BY DEF Giver
<1>6. loadTemplate(t) = Loaded(own, base)
  BY <1>4, <1>5 DEF Loaded
<1> QED
  BY <1>1, <1>6, Zenon DEF build, Built

\* The sections that the user gets as before.
Same(before, after) ==
    \A s \in DOMAIN before :
        ~(s = "inbounds" /\ Len(before[s]) > 1) => s \in DOMAIN after /\ after[s] = before[s]

LEMMA LoadedIsConfig ==
    ASSUME NEW own, IsConfig(own), NEW base, IsConfig(base)
    PROVE  IsConfig(Loaded(own, base))
BY DEF IsConfig, Loaded, Giver

LEMMA BuiltNarrowed ==
    ASSUME NEW t, NEW own, IsConfig(own), NEW base, IsConfig(base), NEW own2, NEW base2,
           own2 = own \/ Narrows(t, own, base, own2),
           base2 = base \/ Narrows("base", base, base, base2),
           NEW before, Same(before, Built(t, own, base))
    PROVE  Same(before, Built(t, own2, base2))
<1>1. PICK load, load2 : load = Loaded(own, base) /\ load2 = Loaded(own2, base2)
  OBVIOUS
<1>2. IsConfig(load)
  BY <1>1, LoadedIsConfig
<1>3. \A s \in DOMAIN load : load[s] \in Seq(ItemRecord) /\ load[s] # <<>>
                             /\ (s # "inbounds" => \E item : load[s] = <<item>>)
  BY <1>2 DEF IsConfig
<1>4. DOMAIN base2 = DOMAIN base
      /\ \A s \in DOMAIN base : base2[s] = base[s] \/ base2[s] = <<base[s][1]>>
  BY DEF Narrows, Gains
<1>5. /\ \A s \in DOMAIN own :
            s \in DOMAIN own2 /\ (own2[s] = own[s] \/ own2[s] = <<own[s][1]>>)
      /\ \A s \in DOMAIN own2 :
            \/ s \in DOMAIN own
            \/ s = "log" /\ (s \in DOMAIN base => own2[s] = <<base[s][1]>>)
  BY DEF Narrows, Gains
<1>6. /\ DOMAIN load = DOMAIN own \cup DOMAIN base /\ DOMAIN load2 = DOMAIN own2 \cup DOMAIN base2
      /\ \A s \in DOMAIN load : load[s] = IF s \in DOMAIN own THEN own[s] ELSE base[s]
      /\ \A s \in DOMAIN load2 : load2[s] = IF s \in DOMAIN own2 THEN own2[s] ELSE base2[s]
  BY <1>1 DEF Loaded, Giver
<1>7. ASSUME NEW s \in DOMAIN load
      PROVE  s \in DOMAIN load2 /\ (load2[s] = load[s] \/ load2[s] = <<load[s][1]>>)
  <2>1. CASE s \in DOMAIN own
    BY <1>5, <1>6, <2>1
  <2>2. CASE s \notin DOMAIN own /\ s \in DOMAIN own2
    BY <1>5, <1>6, <2>2
  <2>3. CASE s \notin DOMAIN own /\ s \notin DOMAIN own2
    BY <1>4, <1>6, <2>3
  <2> QED
    BY <2>1, <2>2, <2>3
<1>8. \A s \in DOMAIN load2 : s \in DOMAIN load \/ s = "log"
  BY <1>4, <1>5, <1>6
<1>9. ASSUME NEW s \in DOMAIN load, s # "inbounds" \/ Len(load[s]) = 1
      PROVE  load2[s] = load[s]
  <2>1. load[s] = <<load[s][1]>>
    BY <1>3, <1>9
  <2> QED
    BY <1>7, <2>1
<1> DEFINE rules(config) == IF "routing" \in DOMAIN config THEN config["routing"][1].val ELSE <<>>
           tag == IF t = "pool" THEN "balancer-out" ELSE "proxy"
           routing(config) == <<Item(NoTag, Routed(rules(config), tag))>>
<1>10. rules(load2) = rules(load)
  <2>1. CASE "routing" \in DOMAIN load
    BY <1>7, <1>9, <2>1
  <2>2. CASE "routing" \notin DOMAIN load
    BY <1>8, <2>2
  <2> QED
    BY <2>1, <2>2
<1>11. /\ Built(t, own, base) = WithSection(load, "routing", routing(load))
       /\ Built(t, own2, base2) = WithSection(load2, "routing", routing(load2))
  BY <1>1, Zenon DEF Built
<1> HIDE DEF rules
<1>12. routing(load2) = routing(load)
  BY <1>10
<1> HIDE DEF routing
<1>13. PICK built, built2, r : /\ built = Built(t, own, base) /\ built2 = Built(t, own2, base2)
                               /\ r = routing(load)
  OBVIOUS
<1>14. /\ DOMAIN built = DOMAIN load \cup {"routing"}
       /\ DOMAIN built2 = DOMAIN load2 \cup {"routing"}
       /\ built["routing"] = r /\ built2["routing"] = r
       /\ \A s \in DOMAIN load : s # "routing" => built[s] = load[s]
       /\ \A s \in DOMAIN load2 : s # "routing" => built2[s] = load2[s]
  BY <1>11, <1>12, <1>13 DEF WithSection
<1>15. ASSUME NEW s \in DOMAIN before, ~(s = "inbounds" /\ Len(before[s]) > 1)
       PROVE  s \in DOMAIN built2 /\ built2[s] = before[s]
  <2>1. s \in DOMAIN built /\ built[s] = before[s]
    BY <1>13, <1>15 DEF Same
  <2>2. CASE s = "routing"
    BY <1>14, <2>1, <2>2
  <2>3. CASE s # "routing"
    <3>1. s \in DOMAIN load /\ load[s] = before[s]
      BY <1>14, <2>1, <2>3
    <3>2. s # "inbounds" \/ Len(load[s]) = 1
      <4>1. load[s] \in Seq(ItemRecord) /\ load[s] # <<>>
        BY <1>3, <3>1
      <4>2. Len(load[s]) \in Nat /\ Len(load[s]) # 0
        BY <4>1
      <4>3. PICK k : k = Len(load[s])
        OBVIOUS
      <4>4. Len(before[s]) = k
        BY <3>1, <4>3, Zenon
      <4>5. ~(s = "inbounds" /\ k > 1)
        BY <1>15, <4>4, Zenon
      <4>6. k \in Nat /\ k # 0
        BY <4>2, <4>3, Zenon
      <4>7. s # "inbounds" \/ k = 1
        BY <4>5, <4>6
      <4> QED
        BY <4>3, <4>7, Zenon
    <3>3. load2[s] = load[s] /\ s \in DOMAIN load2
      BY <1>7, <1>9, <3>1, <3>2
    <3> QED
      BY <1>14, <2>3, <3>1, <3>3
  <2> QED
    BY <2>2, <2>3
<1> QED
  BY <1>13, <1>15 DEF Same

-----------------------------------------------------------------------------
(* What a rebuild plans suits its templates.                               *)

OwnConfig(t) == templates[t].config
BaseConfig == templates["base"].config

\* A bundle of a rebuild that a chain of t may have.
IsRoleId(t, id) == id[1] \in Section /\ id[2] \in {AllRoles, t}

LEMMA FirstItem ==
    ASSUME TemplatesTyped, NEW t \in Template, NEW type \in Section, HasType(t, type)
    PROVE  /\ First(t, type) \in ComponentRecord /\ First(t, type).type = type
           /\ Item(First(t, type).tag, First(t, type).val) = OwnConfig(t)[type][1]
<1>1. PICK config, items, c : config = OwnConfig(t) /\ items = config[type] /\ c = First(t, type)
  OBVIOUS
<1>2. IsConfig(config) /\ type \in DOMAIN config
  BY <1>1 DEF TemplatesTyped, IsRow, OwnConfig, HasType
<1>3. items \in Seq(ItemRecord) /\ items # <<>>
  BY <1>1, <1>2 DEF IsConfig
<1>4. 1 \in DOMAIN items /\ items[1] \in ItemRecord
  BY <1>3
<1>5. c = Component(type, items[1].tag, items[1].val)
  <2>1. Components(config, type) =
           [k \in DOMAIN items |-> Component(type, items[k].tag, items[k].val)]
    BY <1>1, <1>2, Zenon DEF Components
  <2>2. c = Components(config, type)[1]
    BY <1>1, Zenon DEF First, OwnConfig
  <2> QED
    BY <1>4, <2>1, <2>2, Zenon
<1>6. PICK item : item = items[1]
  OBVIOUS
<1>7. item \in ItemRecord /\ c = [type |-> type, tag |-> item.tag, val |-> item.val]
  BY <1>4, <1>5, <1>6 DEF Component
<1>8. c \in ComponentRecord /\ c.type = type
  BY <1>7 DEF ItemRecord, ComponentRecord
<1>9. Item(c.tag, c.val) = item
  BY <1>7 DEF Item, ItemRecord
<1> QED
  BY <1>1, <1>6, <1>8, <1>9

LEMMA FirstsAreFinite ==
    ASSUME NEW type
    PROVE  IsFiniteSet({First(t, type) : t \in Roles(type)}) /\ IsFiniteSet(Roles(type))
<1>1. ASSUME NEW a, NEW b, NEW c PROVE IsFiniteSet({a, b, c})
  <2>1. IsFiniteSet({a})
    BY FS_Singleton
  <2>2. IsFiniteSet({a} \cup {b})
    BY <2>1, FS_AddElement
  <2>3. IsFiniteSet(({a} \cup {b}) \cup {c})
    BY <2>2, FS_AddElement
  <2>4. ({a} \cup {b}) \cup {c} = {a, b, c}
    OBVIOUS
  <2> QED
    BY <2>3, <2>4
<1>2. {First(t, type) : t \in Roles(type)} \in
         SUBSET {First("base", type), First("test", type), First("pool", type)}
  BY DEF Roles, Template
<1>3. Roles(type) \in SUBSET {"base", "test", "pool"}
  BY DEF Roles, Template
<1> QED
  BY <1>1, <1>2, <1>3, FS_Subset

LEMMA SharedIsSame ==
    ASSUME NEW type, Shared(type), NEW t \in Roles(type), NEW u \in Roles(type)
    PROVE  First(t, type) = First(u, type)
<1> DEFINE firsts == {First(r, type) : r \in Roles(type)}
<1>1. IsFiniteSet(firsts) /\ Cardinality(firsts) = 1
  BY FirstsAreFinite DEF Shared
<1>2. First(t, type) \in firsts /\ First(u, type) \in firsts
  OBVIOUS
<1> HIDE DEF firsts
<1>3. PICK x : firsts = {x}
  BY <1>1, FS_Singleton
<1> QED
  BY <1>2, <1>3

LEMMA OneRoleIsShared ==
    ASSUME NEW type, Cardinality(Roles(type)) = 1
    PROVE  Shared(type)
<1>1. PICK r : Roles(type) = {r}
  BY FirstsAreFinite, FS_Singleton
<1>2. {First(t, type) : t \in Roles(type)} = {First(r, type)}
  BY <1>1
<1> QED
  BY <1>2, FS_Singleton DEF Shared

LEMMA IdOfType ==
    ASSUME NEW type, NEW t
    PROVE  /\ BundleId(type, t)[1] = type
           /\ BundleId(type, t)[2] = IF Shared(type) THEN AllRoles ELSE t
BY DEF BundleId

LEMMA PlannedBundleSuits ==
    ASSUME TemplatesTyped, NEW t \in Template, NEW id \in DOMAIN PlannedBundles, IsRoleId(t, id)
    PROVE  Suits(OwnConfig(t), BaseConfig, id[1], PlannedBundles[id])
<1>0. PICK type \in Section : \E r \in Roles(type) : id = BundleId(type, r)
  BY BundlesPlanned, Zenon DEF PlannedId
<1>1. PICK r \in Roles(type) : id = BundleId(type, r)
  BY <1>0
<1>2. PICK u, c : u = RoleOf(id) /\ c = First(u, type)
  OBVIOUS
<1>3. id[1] = type /\ id[2] = IF Shared(type) THEN AllRoles ELSE r
  BY <1>1, IdOfType
<1>4. r # AllRoles /\ t # AllRoles
  BY RolesAreTemplates DEF Template, AllRoles
<1>5. u \in Roles(type) /\ (~Shared(type) => u = t)
  <2>1. CASE Shared(type)
    <3>1. u = CHOOSE x \in Roles(type) : TRUE
      BY <1>2, <1>3, <2>1, Zenon DEF RoleOf
    <3> QED
      BY <1>1, <2>1, <3>1
  <2>2. CASE ~Shared(type)
    <3>1. id[2] = r /\ r = t
      BY <1>3, <1>4, <2>2 DEF IsRoleId
    <3>2. u = r
      BY <1>2, <1>4, <3>1, Zenon DEF RoleOf
    <3> QED
      BY <3>1, <3>2
  <2> QED
    BY <2>1, <2>2
<1>6. PlannedBundles[id] = Bundle(<<c>>, 1)
  BY <1>2, <1>3, BundlesPlanned
<1>7. PlannedBundles[id].components = <<c>>
  BY <1>6 DEF Bundle
<1>8. u \in Template /\ HasType(u, type)
  BY <1>5 DEF Roles
<1>9. c \in ComponentRecord /\ c.type = type
  BY <1>2, <1>8, FirstItem
<1>10. ASSUME type \in DOMAIN Giver(OwnConfig(t), BaseConfig, type)
       PROVE  Item(c.tag, c.val) = Giver(OwnConfig(t), BaseConfig, type)[type][1]
  <2>1. PICK g \in Template : Giver(OwnConfig(t), BaseConfig, type) = OwnConfig(g) /\ (HasType(t, type) => g = t)
    <3>1. CASE type \in DOMAIN OwnConfig(t)
      BY <3>1 DEF Giver
    <3>2. CASE type \notin DOMAIN OwnConfig(t)
      BY <3>2 DEF Giver, Template, BaseConfig, OwnConfig, HasType
    <3> QED
      BY <3>1, <3>2
  <2>2. HasType(g, type) /\ g \in Roles(type)
    BY <1>10, <2>1 DEF HasType, OwnConfig, Roles
  <2>3. First(g, type) = c
    <3>1. CASE Shared(type)
      BY <1>2, <1>5, <2>2, <3>1, SharedIsSame
    <3>2. CASE ~Shared(type)
      BY <1>2, <1>5, <1>8, <2>1, <3>2
    <3> QED
      BY <3>1, <3>2
  <2> QED
    BY <2>1, <2>2, <2>3, FirstItem
<1> QED
  BY <1>3, <1>7, <1>9, <1>10, Zenon DEF Suits

LEMMA IdsOfTemplate ==
    ASSUME NEW t \in Template, NEW type \in Section
    PROVE  \/ PlannedIds(t, type) = <<>> /\ ~HasType(t, type)
           \/ \E id : /\ PlannedIds(t, type) = <<id>> /\ id[1] = type /\ IsRoleId(t, id)
                      /\ HasType(t, type) \/ Gains(t, type)
<1>1. CASE HasType(t, type)
  <2>1. PICK id : id = BundleId(type, t)
    OBVIOUS
  <2>2. PlannedIds(t, type) = <<id>>
    BY <1>1, <2>1, Zenon DEF PlannedIds
  <2>3. id[1] = type /\ IsRoleId(t, id)
    BY <2>1, IdOfType DEF IsRoleId
  <2> QED
    BY <1>1, <2>2, <2>3
<1>2. CASE ~HasType(t, type) /\ t = "pool" /\ type = "log" /\ Cardinality(Roles(type)) = 1
  <2>1. PICK id : id = BundleId(type, CHOOSE r \in Roles(type) : TRUE)
    OBVIOUS
  <2>2. PlannedIds(t, type) = <<id>>
    BY <1>2, <2>1, Zenon DEF PlannedIds
  <2>3. id[1] = type /\ IsRoleId(t, id)
    BY <1>2, <2>1, IdOfType, OneRoleIsShared DEF IsRoleId
  <2> QED
    BY <1>2, <2>2, <2>3 DEF Gains
<1>3. CASE ~HasType(t, type) /\ ~(t = "pool" /\ type = "log" /\ Cardinality(Roles(type)) = 1)
  BY <1>3, Zenon DEF PlannedIds
<1> QED
  BY <1>1, <1>2, <1>3

LEMMA PlannedChainIsShaped ==
    ASSUME TemplatesTyped, NEW t \in Template
    PROVE  /\ IsShaped(t, OwnConfig(t), PlannedChain(t))
           /\ \A id \in ToSet(PlannedChain(t)) : IsRoleId(t, id)
<1>1. /\ DOMAIN ComponentType = 1 .. 4
      /\ \A n \in 1 .. 4 : ComponentType[n] \in Section
      /\ \A s \in Section : \E n \in 1 .. 4 : ComponentType[n] = s
      /\ \A n, m \in 1 .. 4 : ComponentType[n] = ComponentType[m] => n = m
  <2>1. ComponentType[1] = "log" /\ ComponentType[2] = "api" /\ ComponentType[3] = "routing"
        /\ ComponentType[4] = "inbounds"
    BY DEF ComponentType
  <2>2. 1 .. 4 = {1, 2, 3, 4}
    OBVIOUS
  <2> QED
    BY <2>1, <2>2, ListsOfSections DEF Section
<1>2. PICK acc : Planning!InTurn(t, acc, <<>>, ComponentType, 4,
                                 Planning!Result(t, <<>>, ComponentType))
  BY <1>1, Planning!FoldsInTurn
<1>3. PlannedChain(t) = Planning!Result(t, <<>>, ComponentType)
  BY Zenon DEF PlannedChain, FoldLeft, MapThenFoldSet, Max, Planning!Result,
               Planning!MapThenFoldSet, Planning!Greatest, AddIds
<1>4. /\ acc[0] = <<>> /\ acc[4] = PlannedChain(t)
      /\ \A i \in 1 .. 4 : acc[i] = acc[i - 1] \o PlannedIds(t, ComponentType[i])
  BY <1>2, <1>3, Zenon DEF Planning!InTurn, AddIds
<1>5. PICK own : own = OwnConfig(t)
  OBVIOUS
<1> DEFINE Holds(i, chain) ==
               /\ IsChain(chain)
               /\ \A a, b \in DOMAIN chain : chain[a][1] = chain[b][1] => a = b
               /\ \A id \in ToSet(chain) :
                     /\ IsRoleId(t, id)
                     /\ id[1] \in DOMAIN own \/ Gains(t, id[1])
                     /\ \E j \in 1 .. i : id[1] = ComponentType[j]
               /\ \A j \in 1 .. i : ComponentType[j] \in DOMAIN own =>
                     \E id \in ToSet(chain) : id[1] = ComponentType[j]
           H == {i \in 0 .. 4 : Holds(i, acc[i])}
<1>6. 0 \in H
  <2>1. Holds(0, <<>>)
    BY DEF IsChain, ToSet
  <2> QED
    BY <1>4, <2>1
<1>7. ASSUME NEW i \in 1 .. 4, i - 1 \in H PROVE i \in H
  <2>1. PICK before, after, type : before = acc[i - 1] /\ after = acc[i] /\ type = ComponentType[i]
    OBVIOUS
  <2>2. Holds(i - 1, before)
    BY <1>7, <2>1
  <2>3. type \in Section /\ after = before \o PlannedIds(t, type)
    BY <1>1, <1>4, <2>1
  <2>4. 1 .. i = 1 .. (i - 1) \cup {i}
    OBVIOUS
  <2>5. HasType(t, type) <=> type \in DOMAIN own
    BY <1>5 DEF HasType, OwnConfig
  <2>6. CASE PlannedIds(t, type) = <<>> /\ ~HasType(t, type)
    <3>1. before \o <<>> = before
      BY <2>2 DEF IsChain
    <3>2. after = before
      BY <2>3, <2>6, <3>1
    <3>3. ASSUME NEW j \in 1 .. i, ComponentType[j] \in DOMAIN own
          PROVE  \E id \in ToSet(before) : id[1] = ComponentType[j]
      <4>1. j \in 1 .. (i - 1)
        BY <2>1, <2>4, <2>5, <2>6, <3>3
      <4> QED
        BY <2>2, <3>3, <4>1
    <3>4. ASSUME NEW id \in ToSet(before)
          PROVE  \E j \in 1 .. i : id[1] = ComponentType[j]
      BY <2>2, <2>4
    <3>5. Holds(i, before)
      BY <2>2, <3>3, <3>4
    <3>6. i \in 0 .. 4
      OBVIOUS
    <3> HIDE DEF Holds
    <3> QED
      BY <2>1, <3>2, <3>5, <3>6
  <2>7. ASSUME NEW id, PlannedIds(t, type) = <<id>>, id[1] = type, IsRoleId(t, id),
               HasType(t, type) \/ Gains(t, type)
        PROVE  i \in H
    <3>1. PICK ids : before \in Seq(ids)
      BY <2>2 DEF IsChain
    <3>2. PICK n \in Nat : n = Len(before) /\ DOMAIN before = 1 .. n
      BY <3>1
    <3>3. before \in Seq(ids \cup {id}) /\ after = before \o <<id>>
      BY <2>3, <2>7, <3>1
    <3>4. /\ after \in Seq(ids \cup {id}) /\ DOMAIN after = 1 .. (n + 1)
          /\ after[n + 1] = id /\ \A a \in 1 .. n : after[a] = before[a]
      BY <3>2, <3>3
    <3>5. ToSet(after) = ToSet(before) \cup {id}
      BY <3>2, <3>4 DEF ToSet
    <3>6. \A a \in 1 .. n : before[a][1] # type
      <4>1. \A a \in 1 .. n : before[a] \in ToSet(before)
        BY <3>2 DEF ToSet
      <4>2. \A x \in ToSet(before) : \E j \in 1 .. (i - 1) : x[1] = ComponentType[j]
        BY <2>2
      <4>3. \A j \in 1 .. (i - 1) : ComponentType[j] # type
        BY <1>1, <2>1
      <4> QED
        BY <4>1, <4>2, <4>3
    <3>7. ASSUME NEW a \in DOMAIN after, NEW b \in DOMAIN after, after[a][1] = after[b][1]
          PROVE  a = b
      <4>1. a \in 1 .. n \/ a = n + 1
        BY <3>4
      <4>2. b \in 1 .. n \/ b = n + 1
        BY <3>4
      <4>3. \A x, y \in 1 .. n : before[x][1] = before[y][1] => x = y
        BY <2>2, <3>2
      <4> QED
        BY <2>7, <3>4, <3>6, <3>7, <4>1, <4>2, <4>3
    <3>8. ASSUME NEW x \in ToSet(after)
          PROVE  /\ IsRoleId(t, x)
                 /\ x[1] \in DOMAIN own \/ Gains(t, x[1])
                 /\ \E j \in 1 .. i : x[1] = ComponentType[j]
      <4>1. CASE x = id
        BY <2>1, <2>4, <2>5, <2>7, <4>1
      <4>2. CASE x \in ToSet(before)
        BY <2>2, <2>4, <4>2
      <4> QED
        BY <3>5, <4>1, <4>2
    <3>9. ASSUME NEW j \in 1 .. i, ComponentType[j] \in DOMAIN own
          PROVE  \E x \in ToSet(after) : x[1] = ComponentType[j]
      <4>1. CASE j = i
        BY <2>1, <2>7, <3>5, <4>1
      <4>2. CASE j \in 1 .. (i - 1)
        BY <2>2, <3>5, <3>9, <4>2
      <4> QED
        BY <2>4, <4>1, <4>2
    <3>10. Holds(i, after)
      BY <3>4, <3>7, <3>8, <3>9 DEF IsChain
    <3>11. i \in 0 .. 4
      OBVIOUS
    <3> HIDE DEF Holds
    <3> QED
      BY <2>1, <3>10, <3>11
  <2> QED
    BY <2>3, <2>6, <2>7, IdsOfTemplate
<1> HIDE DEF H
<1>8. 4 \in H
  BY <1>6, <1>7, 4 \in 0 .. 4, Planning!FoldInduction
<1>9. Holds(4, PlannedChain(t))
  BY <1>4, <1>8 DEF H
<1>10. ASSUME NEW s \in DOMAIN own PROVE \E id \in ToSet(PlannedChain(t)) : id[1] = s
  <2>1. s \in Section
    BY <1>5 DEF TemplatesTyped, IsRow, IsConfig, OwnConfig
  <2> QED
    BY <1>1, <1>9, <2>1
<1> QED
  BY <1>5, <1>9, <1>10 DEF IsShaped

-----------------------------------------------------------------------------
(* What is built outlasts the commands.                                    *)

RoleSuits(t, id, b) == IsRoleId(t, id) => Suits(OwnConfig(t), BaseConfig, id[1], b)

OwnChain(t, chain) ==
    chain # <<>> => IsShaped(t, OwnConfig(t), chain) /\ \A id \in ToSet(chain) : IsRoleId(t, id)

\* As long as the user has edited nothing, every bundle and every chain, written or still to
\* be written, is one that a rebuild has planned.
Pristine ==
    effort.edits = 0 =>
        /\ command.op # "window"
        /\ "log" \in DOMAIN BaseConfig
        /\ \A t \in Template :
              /\ \A id \in DOMAIN bundles : RoleSuits(t, id, bundles[id])
              /\ \A w \in command.work : w.do = "save" => RoleSuits(t, w.id, w.bundle)
              /\ OwnChain(t, templates[t].chain)
              /\ \A w \in command.work : Relinks(w, t) => OwnChain(t, w.chain)

\* When the work is done, the bundle is gone or has what the template has.
WillSuit(work, t, id) ==
    /\ \A w \in work : Changes(w, id) => w.do = "save" /\ Suits(OwnConfig(t), BaseConfig, id[1], w.bundle)
    /\ (\A w \in work : ~Changes(w, id)) /\ id \in DOMAIN bundles =>
          Suits(OwnConfig(t), BaseConfig, id[1], bundles[id])

Fits(work, t, chain) ==
    IsShaped(t, OwnConfig(t), chain) /\ \A id \in ToSet(chain) : WillSuit(work, t, id)

\* A rebuild that goes well syncs a template with a chain that has all its sections.
RebuildKeeps ==
    ~disturbed /\ command.op = "rebuild" =>
        \A t \in Template : SyncConfig(t) \in command.work =>
            /\ \A w \in command.work : Relinks(w, t) => Fits(command.work, t, w.chain)
            /\ (\A w \in command.work : ~Relinks(w, t)) =>
                  Fits(command.work, t, templates[t].chain)

\* What -SM syncs has been synced before; the other commands do not sync.
SyncKeeps ==
    /\ command.op \in {"none", "decompose"} => \A w \in command.work : w.do = "save"
    /\ ~disturbed /\ command.op = "sync" =>
          /\ \A w \in command.work : w.do = "sync"
          /\ \A t \in Template : IsApplied(t)

Survives(t) == Same(expected[t], build(t))

BuildInv == Pristine /\ RebuildKeeps /\ SyncKeeps /\ BuildsSurvive

LEMMA SurviveMeans ==
    BuildsSurvive <=>
        (command.op # "window" /\ (effort.edits = 0 \/ ~disturbed) =>
            \A t \in Template : ~(command.op = "sync" /\ FromTemplates(t)) => Survives(t))
BY Zenon DEF BuildsSurvive, Survives, Same

LEMMA PristineSurvives ==
    ASSUME TemplateInv, Pristine, BuildsSurvive, effort.edits = 0, NEW t \in Template
    PROVE  Survives(t)
<1>1. ASSUME NEW u \in Template PROVE IsPlain(templates[u].chain)
  <2>1. OwnChain(u, templates[u].chain)
    BY DEF Pristine
  <2>2. CASE templates[u].chain = <<>>
    BY <2>2 DEF IsPlain, ToSet
  <2>3. CASE templates[u].chain # <<>>
    BY <2>1, <2>3 DEF IsPlain, OwnChain, IsRoleId, Section
  <2> QED
    BY <2>2, <2>3
<1>2. ~FromTemplates(t)
  BY <1>1 DEF FromTemplates, ParentId, Template
<1>3. command.op # "window"
  BY DEF Pristine
<1> QED
  BY <1>2, <1>3, SurviveMeans

LEMMA BuildsAreBuilt ==
    \A t \in Template : build(t) = Built(t, templates[t].config, templates["base"].config)
BY BuildIsBuilt

LEMMA BuildsAreBuiltNext ==
    (\A t \in Template : build(t) = Built(t, templates[t].config, templates["base"].config))'
BY BuildsAreBuilt, PTL

\* Rows that stay, or keep their configuration, give the same builds.
LEMMA RowsStay ==
    ASSUME \A t \in Template : templates'[t].config = templates[t].config
    PROVE  /\ \A t \in Template : OwnConfig(t)' = OwnConfig(t) /\ build(t)' = build(t)
           /\ BaseConfig' = BaseConfig
<1>1. \A t \in Template : OwnConfig(t)' = OwnConfig(t)
  BY DEF OwnConfig
<1>2. BaseConfig' = BaseConfig
  BY DEF BaseConfig, Template
<1>3. ASSUME NEW t \in Template PROVE build(t)' = build(t)
  <2>1. build(t) = Built(t, OwnConfig(t), BaseConfig)
    BY BuildIsBuilt DEF OwnConfig, BaseConfig
  <2>2. build(t)' = Built(t, OwnConfig(t)', BaseConfig')
    BY BuildsAreBuiltNext, Zenon DEF OwnConfig, BaseConfig
  <2> QED
    BY <1>1, <1>2, <2>1, <2>2
<1> QED
  BY <1>1, <1>2, <1>3

-----------------------------------------------------------------------------
(* Edits and commands keep what is built.                                  *)

\* An edit: from here on the bundles may be any.
LEMMA EditChangesBuilds ==
    ASSUME TemplateInv, NEW work, Edit("window", work)
    PROVE  BuildInv'
<1>1. command' = [op |-> "window", work |-> work] /\ effort' = [effort EXCEPT !.edits = @ + 1]
  BY DEF Edit, Starts
<1>2. effort \in [edits : 0 .. MaxTemplateEdits, faults : 0 .. MaxTemplateFaults,
                  commands : 0 .. MaxCommands]
  BY DEF TemplateInv, TemplatesWellFormed, EffortTyped
<1>3. effort'.edits # 0 /\ command'.op = "window"
  <2>1. effort'.edits = effort.edits + 1 /\ effort.edits \in Nat
    BY TemplateAssumption, <1>1, <1>2
  <2> QED
    BY <1>1, <2>1
<1>4. BuildsSurvive'
  BY <1>3, Zenon DEF BuildsSurvive
<1> QED
  BY <1>3, <1>4 DEF BuildInv, Pristine, RebuildKeeps, SyncKeeps

LEMMA AnyEdit ==
    ASSUME NEW id, \/ onBundleSave(id) \/ onBundleNew(id) \/ onBundleDelete(id)
                   \/ \E t \in Template : onChainSave(t) \/ onTemplateSave(t)
    PROVE  \E work : Edit("window", work)
BY Zenon DEF onBundleSave, onBundleNew, onBundleDelete, onChainSave, onTemplateSave

\* A command begins.
LEMMA CommandKeepsBuilds ==
    ASSUME TemplateInv, BuildInv, NEW op \in {"rebuild", "sync", "decompose"}, NEW work,
           Command(op, work),
           effort.edits = 0 => \A t \in Template, w \in work :
               /\ w.do = "save" => RoleSuits(t, w.id, w.bundle)
               /\ Relinks(w, t) => OwnChain(t, w.chain)
    PROVE  Pristine' /\ BuildsSurvive'
<1>1. /\ command' = [op |-> op, work |-> work] /\ effort'.edits = effort.edits
      /\ templates' = templates /\ bundles' = bundles
      /\ expected' = IF effort.edits > 0 THEN [t \in Template |-> build(t)] ELSE expected
  BY DEF Command, Starts, TemplateInv, TemplatesWellFormed, EffortTyped
<1>2. effort.edits \in Nat
  BY TemplateAssumption DEF TemplateInv, TemplatesWellFormed, EffortTyped
<1>3. \A t \in Template : templates'[t].config = templates[t].config
  BY <1>1
<1>4. /\ \A t \in Template : OwnConfig(t)' = OwnConfig(t) /\ build(t)' = build(t)
      /\ BaseConfig' = BaseConfig
  BY <1>3, RowsStay
<1>5. Pristine'
  <2> SUFFICES ASSUME effort.edits = 0
               PROVE  /\ op # "window" /\ "log" \in DOMAIN BaseConfig
                      /\ \A t \in Template :
                            /\ \A id \in DOMAIN bundles : RoleSuits(t, id, bundles[id])
                            /\ \A w \in work : w.do = "save" => RoleSuits(t, w.id, w.bundle)
                            /\ OwnChain(t, templates[t].chain)
                            /\ \A w \in work : Relinks(w, t) => OwnChain(t, w.chain)
    BY <1>1, <1>4 DEF Pristine, RoleSuits, OwnChain
  <2> QED
    BY DEF BuildInv, Pristine
<1>6. ASSUME NEW t \in Template PROVE Survives(t)'
  <2>1. CASE effort.edits = 0
    <3>1. Survives(t)
      BY <2>1, PristineSurvives DEF BuildInv
    <3>2. expected' = expected
      BY <1>1, <1>2, <2>1
    <3> QED
      BY <1>4, <3>1, <3>2 DEF Survives
  <2>2. CASE effort.edits # 0
    <3>1. expected' = [u \in Template |-> build(u)]
      BY <1>1, <1>2, <2>2
    <3>2. expected'[t] = build(t)
      BY <3>1
    <3> QED
      BY <1>4, <3>2 DEF Survives, Same
  <2> QED
    BY <2>1, <2>2
<1>7. (command.op # "window" /\ (effort.edits = 0 \/ ~disturbed) =>
         \A t \in Template : ~(command.op = "sync" /\ FromTemplates(t)) => Survives(t))'
  BY <1>6, Zenon
<1> QED
  BY <1>5, <1>7, Zenon DEF BuildsSurvive, Survives, Same

LEMMA SyncCommandKeeps ==
    ASSUME TemplateInv, BuildInv, syncConfigsFromChains
    PROVE  BuildInv'
<1>1. PICK work : work = Syncs(Template)
  OBVIOUS
<1>2. Command("sync", work) /\ disturbed' = disturbed
  BY <1>1 DEF syncConfigsFromChains
<1>3. \A w \in work : w.do = "sync"
  BY <1>1 DEF Syncs, SyncConfig
<1>4. Pristine' /\ BuildsSurvive'
  BY <1>2, <1>3, CommandKeepsBuilds DEF Relinks
<1>5. /\ command'.op = "sync" /\ command'.work = work /\ command.work = {}
      /\ templates' = templates /\ bundles' = bundles
  BY <1>2 DEF Command, Starts, NoWork
<1>6. ASSUME ~disturbed, NEW t \in Template PROVE IsApplied(t)'
  <2>1. IsApplied(t)
    BY <1>5, <1>6 DEF TemplateInv, MarksAreTrue
  <2>2. Stay(templates[t].chain)
    BY <1>5 DEF Stay
  <2> QED
    BY <1>5, <2>1, <2>2, AppliedKept
<1>7. SyncKeeps' /\ RebuildKeeps'
  BY <1>2, <1>3, <1>5, <1>6 DEF SyncKeeps, RebuildKeeps
<1> QED
  BY <1>4, <1>7 DEF BuildInv

LEMMA DecomposeCommandKeeps ==
    ASSUME TemplateInv, BuildInv, decomposeAndSave
    PROVE  BuildInv'
<1>1. PICK work : work = {SaveBundle(<<"template", t>>, Bundle(Decomposed(templates[t].config), 1)) :
                            t \in Template}
  OBVIOUS
<1>2. Command("decompose", work)
  BY <1>1 DEF decomposeAndSave
<1>3. \A w \in work : w.do = "save" /\ w.id[1] = "template"
  BY <1>1 DEF SaveBundle
<1>4. \A t \in Template, w \in work : w.do = "save" => RoleSuits(t, w.id, w.bundle)
  BY <1>3 DEF RoleSuits, IsRoleId, Section
<1>5. Pristine' /\ BuildsSurvive'
  BY <1>2, <1>3, <1>4, CommandKeepsBuilds DEF Relinks
<1>6. command'.op = "decompose" /\ command'.work = work
  BY <1>2 DEF Command, Starts
<1>7. SyncKeeps' /\ RebuildKeeps'
  BY <1>3, <1>6 DEF SyncKeeps, RebuildKeeps
<1> QED
  BY <1>5, <1>7 DEF BuildInv

LEMMA RebuildCommandKeeps ==
    ASSUME TemplateInv, BuildInv, rebuildBundlesAndChains
    PROVE  BuildInv'
<1>0. PICK work, planned : work = RebuildWork /\ planned = PlannedBundles
  OBVIOUS
<1>1. Command("rebuild", work)
  BY <1>0, Zenon DEF rebuildBundlesAndChains, RebuildWork, Deletes, Saves, Chains
<1>2. TemplatesTyped
  BY DEF TemplateInv, TemplatesWellFormed
<1>3. ASSUME NEW w \in work
      PROVE  /\ w.do = "delete" => w.id \notin DOMAIN planned
             /\ w.do = "save" => w.id \in DOMAIN planned /\ w.bundle = planned[w.id]
             /\ \A t \in Template : Relinks(w, t) => w.chain = PlannedChain(t)
  <2>1. w \in Deletes \/ w \in Saves \/ w \in Chains \/ w \in Syncs(Template)
    BY <1>0 DEF RebuildWork
  <2>2. CASE w \in Deletes
    BY <1>0, <2>2 DEF Deletes, DeleteBundle, Relinks
  <2>3. CASE w \in Saves
    <3>1. PICK id \in DOMAIN planned : w = SaveBundle(id, planned[id])
      BY <1>0, <2>3 DEF Saves
    <3> QED
      BY <3>1 DEF SaveBundle, Relinks
  <2>4. CASE w \in Chains
    <3>1. PICK t \in Template : w = SaveChain(t, PlannedChain(t))
      BY <2>4 DEF Chains
    <3> QED
      BY <3>1 DEF SaveChain, Relinks
  <2>5. CASE w \in Syncs(Template)
    BY <2>5 DEF Syncs, SyncConfig, Relinks
  <2> QED
    BY <2>1, <2>2, <2>3, <2>4, <2>5
<1>4. ASSUME NEW t \in Template, NEW id \in DOMAIN planned
      PROVE  RoleSuits(t, id, planned[id])
  BY <1>0, <1>2, PlannedBundleSuits DEF RoleSuits
<1>5. ASSUME NEW t \in Template
      PROVE  /\ IsShaped(t, OwnConfig(t), PlannedChain(t))
             /\ \A id \in ToSet(PlannedChain(t)) : IsRoleId(t, id) /\ id \in DOMAIN planned
  <2>1. PlannedChain(t) \in Seq(DOMAIN planned)
    BY <1>0, ChainPlanned
  <2>2. ToSet(PlannedChain(t)) \subseteq DOMAIN planned
    BY <2>1 DEF ToSet
  <2> QED
    BY <1>2, <2>2, PlannedChainIsShaped
<1>6. Pristine' /\ BuildsSurvive'
  <2>1. \A t \in Template, w \in work :
            /\ w.do = "save" => RoleSuits(t, w.id, w.bundle)
            /\ Relinks(w, t) => OwnChain(t, w.chain)
    BY <1>3, <1>4, <1>5 DEF OwnChain
  <2> QED
    BY <1>1, <2>1, CommandKeepsBuilds
<1>7. /\ command'.op = "rebuild" /\ command'.work = work
      /\ templates' = templates /\ bundles' = bundles
  BY <1>1 DEF Command, Starts
<1>8. ASSUME NEW t \in Template, NEW chain, chain = PlannedChain(t) PROVE Fits(work, t, chain)'
  <2>1. \A id \in ToSet(chain) : \E w \in work : Changes(w, id)
    BY <1>0, <1>5, <1>8, RebuildWrites DEF Changes
  <2>2. ASSUME NEW id \in ToSet(chain), NEW w \in work, Changes(w, id)
        PROVE  w.do = "save" /\ Suits(OwnConfig(t), BaseConfig, id[1], w.bundle)
    <3>1. w.do = "save" /\ w.bundle = planned[id]
      BY <1>3, <1>5, <1>8, <2>2 DEF Changes
    <3> QED
      BY <1>4, <1>5, <1>8, <3>1 DEF RoleSuits
  <2>3. Fits(work, t, chain)
    BY <1>5, <1>8, <2>1, <2>2, Zenon DEF Fits, WillSuit
  <2> QED
    BY <1>7, <2>3 DEF Fits, WillSuit, OwnConfig, BaseConfig
<1>9. ASSUME NEW t \in Template PROVE \E w \in work : Relinks(w, t)
  <2>1. SaveChain(t, PlannedChain(t)) \in work
    BY <1>0, RebuildWrites
  <2>2. Relinks(SaveChain(t, PlannedChain(t)), t)
    BY DEF Relinks, SaveChain
  <2> QED
    BY <2>1, <2>2
<1>10. RebuildKeeps'
  BY <1>3, <1>7, <1>8, <1>9, Zenon DEF RebuildKeeps
<1>11. SyncKeeps'
  BY <1>7 DEF SyncKeeps
<1> QED
  BY <1>6, <1>10, <1>11 DEF BuildInv

-----------------------------------------------------------------------------
(* Every write keeps what is built.                                        *)

\* What is built survives a step that changes no configuration.
LEMMA RowsKeepBuilds ==
    ASSUME TemplateInv, BuildInv, expected' = expected, effort'.edits = effort.edits,
           command'.op = command.op,
           \A t \in Template : templates'[t].config = templates[t].config,
           ~disturbed' => ~disturbed,
           ~disturbed /\ command.op = "sync" =>
               \A t \in Template : templates'[t].chain = templates[t].chain
    PROVE  BuildsSurvive'
<1>1. \A t \in Template : build(t)' = build(t)
  BY RowsStay
<1>2. ASSUME NEW t \in Template, Survives(t) PROVE Survives(t)'
  BY <1>1, <1>2 DEF Survives
<1>3. ASSUME command.op # "window", effort.edits = 0 \/ ~disturbed',
             NEW t \in Template, ~(command.op = "sync" /\ FromTemplates(t)')
      PROVE  Survives(t)
  <2>1. CASE effort.edits = 0
    BY <2>1, PristineSurvives DEF BuildInv
  <2>2. CASE effort.edits # 0
    <3>1. ~disturbed
      BY <1>3, <2>2
    <3>2. command.op = "sync" => (FromTemplates(t)' <=> FromTemplates(t))
      BY <3>1 DEF FromTemplates, IsPlain, ParentId, Template
    <3> QED
      BY <1>3, <3>1, <3>2, SurviveMeans DEF BuildInv
  <2> QED
    BY <2>1, <2>2
<1>4. (command.op # "window" /\ (effort.edits = 0 \/ ~disturbed) =>
         \A t \in Template : ~(command.op = "sync" /\ FromTemplates(t)) => Survives(t))'
  BY <1>2, <1>3, Zenon
<1> QED
  BY <1>4, Zenon DEF BuildsSurvive, Survives, Same

\* A bundle is written or removed.
LEMMA BundleKeepsBuilds ==
    ASSUME TemplateInv, BuildInv, ~NoWork, NEW w, w = Head1, Changes(w, w.id),
           command' = [command EXCEPT !.work = @ \ {w}],
           UNCHANGED <<templates, effort, expected, disturbed>>,
           OthersStay(w.id),
           w.do = "save" => w.id \in DOMAIN bundles' /\ bundles'[w.id] = w.bundle,
           w.do = "delete" => w.id \notin DOMAIN bundles'
    PROVE  BuildInv'
<1>0. PICK work, left : work = command.work /\ left = work \ {w}
  OBVIOUS
<1>1. w \in work /\ w.do \in {"save", "delete"}
  BY <1>0, WriteIsMade DEF Changes
<1>2. command'.work = left /\ command'.op = command.op
  BY <1>0, WorkShrinks
<1>3. /\ \A t \in Template : OwnConfig(t)' = OwnConfig(t)
      /\ BaseConfig' = BaseConfig
  BY RowsStay
<1>4. Pristine'
  <2> SUFFICES ASSUME effort.edits = 0
               PROVE  /\ command.op # "window" /\ "log" \in DOMAIN BaseConfig
                      /\ \A t \in Template :
                            /\ \A id \in DOMAIN bundles' : RoleSuits(t, id, bundles'[id])
                            /\ \A v \in left : v.do = "save" => RoleSuits(t, v.id, v.bundle)
                            /\ OwnChain(t, templates[t].chain)
                            /\ \A v \in left : Relinks(v, t) => OwnChain(t, v.chain)
    BY <1>2, <1>3 DEF Pristine, RoleSuits, OwnChain
  <2>1. /\ command.op # "window" /\ "log" \in DOMAIN BaseConfig
        /\ \A t \in Template :
              /\ \A id \in DOMAIN bundles : RoleSuits(t, id, bundles[id])
              /\ \A v \in work : v.do = "save" => RoleSuits(t, v.id, v.bundle)
              /\ OwnChain(t, templates[t].chain)
              /\ \A v \in work : Relinks(v, t) => OwnChain(t, v.chain)
    BY <1>0 DEF BuildInv, Pristine
  <2>2. ASSUME NEW t \in Template, NEW id \in DOMAIN bundles'
        PROVE  RoleSuits(t, id, bundles'[id])
    <3>1. CASE id = w.id
      BY <1>1, <2>1, <2>2, <3>1
    <3>2. CASE id # w.id
      BY <2>1, <2>2, <3>2 DEF OthersStay
    <3> QED
      BY <3>1, <3>2
  <2> QED
    BY <1>0, <2>1, <2>2
<1>5. ASSUME NEW t \in Template, NEW chain, Fits(work, t, chain) PROVE Fits(left, t, chain)'
  <2> SUFFICES ASSUME NEW id \in ToSet(chain) PROVE WillSuit(left, t, id)'
    BY <1>3, <1>5 DEF Fits
  <2>1. /\ \A v \in work : Changes(v, id) =>
              v.do = "save" /\ Suits(OwnConfig(t), BaseConfig, id[1], v.bundle)
        /\ (\A v \in work : ~Changes(v, id)) /\ id \in DOMAIN bundles =>
              Suits(OwnConfig(t), BaseConfig, id[1], bundles[id])
    BY <1>5 DEF Fits, WillSuit
  <2>2. ASSUME \A v \in left : ~Changes(v, id), id \in DOMAIN bundles'
        PROVE  Suits(OwnConfig(t), BaseConfig, id[1], bundles'[id])
    <3>1. CASE id = w.id
      BY <1>1, <2>1, <2>2, <3>1
    <3>2. CASE id # w.id
      <4>1. \A v \in work : ~Changes(v, id)
        BY <1>0, <2>2, <3>2 DEF Changes
      <4> QED
        BY <2>1, <2>2, <3>2, <4>1 DEF OthersStay
    <3> QED
      BY <3>1, <3>2
  <2> QED
    BY <1>0, <1>3, <2>1, <2>2 DEF WillSuit
<1>6. RebuildKeeps'
  <2> SUFFICES ASSUME ~disturbed, command.op = "rebuild", NEW t \in Template, SyncConfig(t) \in left
               PROVE  /\ \A v \in left : Relinks(v, t) => Fits(left, t, v.chain)'
                      /\ (\A v \in left : ~Relinks(v, t)) => Fits(left, t, templates[t].chain)'
    BY <1>2, Zenon DEF RebuildKeeps
  <2>1. /\ \A v \in work : Relinks(v, t) => Fits(work, t, v.chain)
        /\ (\A v \in work : ~Relinks(v, t)) => Fits(work, t, templates[t].chain)
    BY <1>0 DEF BuildInv, RebuildKeeps
  <2>2. ~Relinks(w, t)
    BY <1>1 DEF Relinks
  <2>3. PICK chain : chain = templates[t].chain
    OBVIOUS
  <2>4. (\A v \in left : ~Relinks(v, t)) => Fits(left, t, chain)'
    BY <1>0, <1>5, <2>1, <2>2, <2>3
  <2>5. \A v \in left : Relinks(v, t) => Fits(left, t, v.chain)'
    BY <1>0, <1>5, <2>1
  <2> QED
    BY <2>3, <2>4, <2>5 DEF Fits, WillSuit
<1>7. SyncKeeps'
  <2>1. ~(~disturbed /\ command.op = "sync")
    BY <1>0, <1>1 DEF BuildInv, SyncKeeps
  <2>2. command.op \in {"none", "decompose"} => \A v \in left : v.do = "save"
    BY <1>0 DEF BuildInv, SyncKeeps
  <2> QED
    BY <1>2, <2>1, <2>2 DEF SyncKeeps
<1>8. BuildsSurvive'
  BY <1>2, RowsKeepBuilds
<1> QED
  BY <1>4, <1>6, <1>7, <1>8 DEF BuildInv

LEMMA WriteKeepsBuilds ==
    ASSUME TemplateInv, BuildInv, WriteBundle \/ RemoveBundle
    PROVE  BuildInv'
<1>1. PICK w : w = Head1
  OBVIOUS
<1>2. CASE WriteBundle
  <2>1. ~NoWork /\ w.do = "save" /\ UNCHANGED <<templates, effort, expected, disturbed>>
        /\ command' = [command EXCEPT !.work = @ \ {w}]
    BY <1>1, <1>2, NextIsLeft DEF WriteBundle
  <2>2. bundles' = [id \in DOMAIN bundles \cup {w.id} |->
                      IF id = w.id THEN w.bundle ELSE bundles[id]]
    BY <1>1, <1>2 DEF WriteBundle
  <2>3. OthersStay(w.id) /\ w.id \in DOMAIN bundles' /\ bundles'[w.id] = w.bundle
    BY <2>2 DEF OthersStay
  <2>4. Changes(w, w.id)
    BY <2>1 DEF Changes
  <2> QED
    BY <1>1, <2>1, <2>3, <2>4, BundleKeepsBuilds
<1>3. CASE RemoveBundle
  <2>1. ~NoWork /\ w.do = "delete" /\ UNCHANGED <<templates, effort, expected, disturbed>>
        /\ command' = [command EXCEPT !.work = @ \ {w}]
    BY <1>1, <1>3, NextIsLeft DEF RemoveBundle
  <2>2. bundles' = [id \in DOMAIN bundles \ {w.id} |-> bundles[id]]
    BY <1>1, <1>3 DEF RemoveBundle
  <2>3. OthersStay(w.id) /\ w.id \notin DOMAIN bundles'
    BY <2>2 DEF OthersStay
  <2>4. Changes(w, w.id)
    BY <2>1 DEF Changes
  <2> QED
    BY <1>1, <2>1, <2>3, <2>4, BundleKeepsBuilds
<1> QED
  BY <1>2, <1>3

LEMMA ChainKeepsBuilds ==
    ASSUME TemplateInv, BuildInv, WriteChain
    PROVE  BuildInv'
<1>0. PICK w, work, left, u :
         w = Head1 /\ work = command.work /\ left = work \ {w} /\ u = w.template
  OBVIOUS
<1>1. ~NoWork /\ w.do = "chain" /\ UNCHANGED <<bundles, effort, expected, disturbed>>
      /\ command' = [command EXCEPT !.work = @ \ {w}]
  BY <1>0, NextIsLeft DEF WriteChain
<1>2. templates' = [templates EXCEPT ![u].chain = w.chain,
                                     ![u].recorded = getCurrentVersions(w.chain)]
  BY <1>0 DEF WriteChain
<1>3. w \in work /\ IsWrite(w)
  BY <1>0, <1>1, WriteIsMade
<1>4. u \in Template
  BY <1>0, <1>1, <1>3, KindsOfWrites
<1>5. command'.work = left /\ command'.op = command.op
  BY <1>0, <1>1, WorkShrinks
<1>6. /\ templates'[u].config = templates[u].config /\ templates'[u].chain = w.chain
      /\ \A t \in Template : t # u => templates'[t] = templates[t]
      /\ \A t \in Template : templates'[t].config = templates[t].config
  <2>1. DOMAIN templates = Template
        /\ templates[u] = [config |-> templates[u].config, chain |-> templates[u].chain,
                           recorded |-> templates[u].recorded]
    BY <1>4 DEF TemplateInv, TemplatesWellFormed, TemplatesTyped, IsRow
  <2>2. templates'[u] = [config |-> templates[u].config, chain |-> w.chain,
                         recorded |-> getCurrentVersions(w.chain)]
        /\ \A t \in Template : t # u => templates'[t] = templates[t]
    BY <1>2, <1>4, <2>1
  <2> QED
    BY <2>2
<1>7. (\A t \in Template : OwnConfig(t)' = OwnConfig(t)) /\ BaseConfig' = BaseConfig
  BY <1>6, RowsStay
<1>8. Relinks(w, u) /\ \A t \in Template : Relinks(w, t) => t = u
  BY <1>0, <1>1 DEF Relinks
<1>9. Pristine'
  <2> SUFFICES ASSUME effort.edits = 0
               PROVE  /\ command.op # "window" /\ "log" \in DOMAIN BaseConfig
                      /\ \A t \in Template :
                            /\ \A id \in DOMAIN bundles : RoleSuits(t, id, bundles[id])
                            /\ \A v \in left : v.do = "save" => RoleSuits(t, v.id, v.bundle)
                            /\ OwnChain(t, templates'[t].chain)
                            /\ \A v \in left : Relinks(v, t) => OwnChain(t, v.chain)
    BY <1>1, <1>5, <1>7 DEF Pristine, RoleSuits, OwnChain
  <2>1. /\ command.op # "window" /\ "log" \in DOMAIN BaseConfig
        /\ \A t \in Template :
              /\ \A id \in DOMAIN bundles : RoleSuits(t, id, bundles[id])
              /\ \A v \in work : v.do = "save" => RoleSuits(t, v.id, v.bundle)
              /\ OwnChain(t, templates[t].chain)
              /\ \A v \in work : Relinks(v, t) => OwnChain(t, v.chain)
    BY <1>0 DEF BuildInv, Pristine
  <2>2. \A t \in Template : OwnChain(t, templates'[t].chain)
    BY <1>3, <1>6, <1>8, <2>1
  <2> QED
    BY <1>0, <2>1, <2>2
<1>10. ASSUME NEW t \in Template, NEW chain, Fits(work, t, chain) PROVE Fits(left, t, chain)'
  <2>1. \A id : ~Changes(w, id)
    BY <1>1 DEF Changes
  <2>2. \A id : (\A v \in left : ~Changes(v, id)) => \A v \in work : ~Changes(v, id)
    BY <1>0, <2>1
  <2>3. Fits(left, t, chain)
    BY <1>0, <1>10, <2>2 DEF Fits, WillSuit
  <2> QED
    BY <1>1, <1>7, <2>3 DEF Fits, WillSuit
<1>11. RebuildKeeps'
  <2> SUFFICES ASSUME ~disturbed, command.op = "rebuild", NEW t \in Template, SyncConfig(t) \in left
               PROVE  /\ \A v \in left : Relinks(v, t) => Fits(left, t, v.chain)'
                      /\ (\A v \in left : ~Relinks(v, t)) => Fits(left, t, templates[t].chain)'
    BY <1>1, <1>5, Zenon DEF RebuildKeeps
  <2>1. /\ \A v \in work : Relinks(v, t) => Fits(work, t, v.chain)
        /\ (\A v \in work : ~Relinks(v, t)) => Fits(work, t, templates[t].chain)
    BY <1>0 DEF BuildInv, RebuildKeeps
  <2>2. PICK chain : chain = templates'[t].chain
    OBVIOUS
  <2>3. ASSUME \A v \in left : ~Relinks(v, t) PROVE Fits(left, t, chain)'
    <3>1. CASE t = u
      BY <1>3, <1>6, <1>8, <1>10, <2>1, <2>2, <3>1
    <3>2. CASE t # u
      <4>1. \A v \in work : ~Relinks(v, t)
        BY <1>0, <1>8, <2>3, <3>2
      <4>2. chain = templates[t].chain
        BY <1>6, <2>2, <3>2
      <4> QED
        BY <1>10, <2>1, <4>1, <4>2
    <3> QED
      BY <3>1, <3>2
  <2>4. \A v \in left : Relinks(v, t) => Fits(left, t, v.chain)'
    BY <1>0, <1>10, <2>1
  <2> QED
    BY <2>2, <2>3, <2>4 DEF Fits, WillSuit
<1>12. ~(~disturbed /\ command.op = "sync")
  BY <1>0, <1>1, <1>3 DEF BuildInv, SyncKeeps
<1>13. SyncKeeps'
  <2>1. command.op \in {"none", "decompose"} => \A v \in left : v.do = "save"
    BY <1>0 DEF BuildInv, SyncKeeps
  <2> QED
    BY <1>1, <1>5, <1>12, <2>1 DEF SyncKeeps
<1>14. BuildsSurvive'
  BY <1>1, <1>5, <1>6, <1>12, RowsKeepBuilds
<1> QED
  BY <1>9, <1>11, <1>13, <1>14 DEF BuildInv

\* A configuration is narrowed by what its chain resolves to.
LEMMA SyncNarrows ==
    ASSUME TemplateInv, BuildInv, ~NoWork, NEW w, w = Head1, w.do = "sync",
           NEW u, u = w.template, NEW chain, chain = templates[u].chain,
           NEW result, result = resolveToConfig(chain), result.ok,
           effort.edits = 0 \/ (~disturbed /\ command.op = "rebuild")
    PROVE  /\ Narrows(u, OwnConfig(u), BaseConfig, result.config)
           /\ IsShaped(u, result.config, chain)
<1>1. w \in command.work /\ IsWrite(w) /\ \A v \in command.work : v.do = "sync"
  BY WriteIsMade
<1>2. u \in Template /\ w = SyncConfig(u)
  BY <1>1, KindsOfWrites
<1>3. chain # <<>>
  <2>1. ASSUME chain = <<>> PROVE FALSE
    <3>1. result = Unresolved
      BY <2>1, Zenon DEF resolveToConfig
    <3> QED
      BY <3>1 DEF Unresolved
  <2> QED
    BY <2>1
<1>4. ToSet(chain) \subseteq DOMAIN bundles /\ result.config = Resolved(Gathered(chain)).config
  BY ResolveCases
<1>5. IsChain(chain)
  BY <1>2 DEF TemplateInv, TemplatesWellFormed, TemplatesTyped, IsRow
<1>6. /\ IsShaped(u, OwnConfig(u), chain)
      /\ \A id \in ToSet(chain) : Suits(OwnConfig(u), BaseConfig, id[1], bundles[id])
  <2>1. CASE effort.edits = 0
    <3>1. OwnChain(u, chain) /\ \A id \in DOMAIN bundles : RoleSuits(u, id, bundles[id])
      BY <1>2, <2>1 DEF BuildInv, Pristine
    <3> QED
      BY <1>3, <1>4, <3>1 DEF OwnChain, RoleSuits
  <2>2. CASE ~disturbed /\ command.op = "rebuild"
    <3>1. \A v \in command.work : ~Relinks(v, u)
      BY <1>1 DEF Relinks
    <3>2. Fits(command.work, u, chain)
      BY <1>1, <1>2, <2>2, <3>1 DEF BuildInv, RebuildKeeps
    <3>3. \A v \in command.work, id \in ToSet(chain) : ~Changes(v, id)
      BY <1>1 DEF Changes
    <3> QED
      BY <1>4, <3>2, <3>3 DEF Fits, WillSuit
  <2> QED
    BY <2>1, <2>2
<1> QED
  BY <1>4, <1>5, <1>6, ChainNarrows

LEMMA SyncKeepsBuilds ==
    ASSUME TemplateInv, BuildInv, TemplateInv', syncConfigFromChain
    PROVE  BuildInv'
<1>0. PICK w, work, left, u, chain, result :
         /\ w = Head1 /\ work = command.work /\ left = work \ {w}
         /\ u = w.template /\ chain = templates[u].chain /\ result = resolveToConfig(chain)
  OBVIOUS
<1>1. ~NoWork /\ w.do = "sync" /\ UNCHANGED <<bundles, effort, expected, disturbed>>
      /\ command' = [command EXCEPT !.work = @ \ {w}]
  BY <1>0, NextIsLeft DEF syncConfigFromChain
<1>2. templates' = IF ~result.ok THEN templates
                   ELSE [templates EXCEPT ![u] = [config |-> result.config, chain |-> chain,
                                                  recorded |-> getCurrentVersions(chain)]]
  BY <1>0, Zenon DEF syncConfigFromChain
<1>3. w \in work /\ IsWrite(w) /\ \A v \in work : v.do = "sync"
  BY <1>0, <1>1, WriteIsMade
<1>4. u \in Template /\ w = SyncConfig(u)
  BY <1>0, <1>1, <1>3, KindsOfWrites
<1>5. command'.work = left /\ command'.op = command.op
  BY <1>0, <1>1, WorkShrinks
<1>6. /\ \A t \in Template : t # u => templates'[t] = templates[t]
      /\ \A t \in Template : templates'[t].chain = templates[t].chain
      /\ templates'[u].config = templates[u].config
         \/ (result.ok /\ templates'[u].config = result.config)
  <2>1. DOMAIN templates = Template
    BY DEF TemplateInv, TemplatesWellFormed, TemplatesTyped
  <2>2. CASE ~result.ok
    BY <1>2, <2>2
  <2>3. CASE result.ok
    <3>1. templates'[u] = [config |-> result.config, chain |-> chain,
                           recorded |-> getCurrentVersions(chain)]
          /\ \A t \in Template : t # u => templates'[t] = templates[t]
      BY <1>2, <1>4, <2>1, <2>3
    <3> QED
      BY <1>0, <2>3, <3>1
  <2> QED
    BY <2>2, <2>3
<1>7. SyncKeeps'
  <2>1. ~(command.op \in {"none", "decompose"})
    BY <1>0, <1>1, <1>3 DEF BuildInv, SyncKeeps
  <2>2. ASSUME ~disturbed, command.op = "sync", NEW t \in Template PROVE IsApplied(t)'
    <3>1. CASE t = u
      <4>1. SyncConfig(u) \notin command'.work /\ ~disturbed'
        BY <1>0, <1>1, <1>4, <1>5, <2>2
      <4> QED
        BY <2>2, <3>1, <4>1, Zenon DEF TemplateInv, MarksAreTrue
    <3>2. CASE t # u
      <4>1. IsApplied(t)
        BY <2>2 DEF BuildInv, SyncKeeps
      <4>2. Stay(templates[t].chain)
        BY <1>1 DEF Stay
      <4> QED
        BY <1>6, <3>2, <4>1, <4>2, AppliedKept
    <3> QED
      BY <3>1, <3>2
  <2> QED
    BY <1>0, <1>1, <1>3, <1>5, <2>1, <2>2 DEF SyncKeeps
<1>8. CASE templates'[u].config = templates[u].config
  <2>1. \A t \in Template : templates'[t].config = templates[t].config
    BY <1>6, <1>8
  <2>2. (\A t \in Template : OwnConfig(t)' = OwnConfig(t)) /\ BaseConfig' = BaseConfig
    BY <2>1, RowsStay
  <2>3. BuildsSurvive'
    BY <1>1, <1>5, <1>6, <2>1, RowsKeepBuilds
  <2>4. Pristine'
    <3> SUFFICES ASSUME effort.edits = 0
                 PROVE  /\ command.op # "window" /\ "log" \in DOMAIN BaseConfig
                        /\ \A t \in Template :
                              /\ \A id \in DOMAIN bundles : RoleSuits(t, id, bundles[id])
                              /\ \A v \in left : v.do = "save" => RoleSuits(t, v.id, v.bundle)
                              /\ OwnChain(t, templates[t].chain)
                              /\ \A v \in left : Relinks(v, t) => OwnChain(t, v.chain)
      BY <1>1, <1>5, <1>6, <2>2 DEF Pristine, RoleSuits, OwnChain
    <3> QED
      BY <1>0 DEF BuildInv, Pristine
  <2>5. ASSUME NEW t \in Template, NEW x, Fits(work, t, x) PROVE Fits(left, t, x)'
    <3>1. \A id : \A v \in work : ~Changes(v, id)
      BY <1>3 DEF Changes
    <3>2. Fits(left, t, x)
      BY <1>0, <2>5, <3>1 DEF Fits, WillSuit
    <3> QED
      BY <1>1, <2>2, <3>2 DEF Fits, WillSuit
  <2>6. ASSUME ~disturbed, command.op = "rebuild", NEW t \in Template, SyncConfig(t) \in left
        PROVE  Fits(left, t, templates[t].chain)'
    <3>1. PICK x : x = templates[t].chain
      OBVIOUS
    <3>2. \A v \in work : ~Relinks(v, t)
      BY <1>3 DEF Relinks
    <3>3. Fits(work, t, x)
      BY <1>0, <2>6, <3>1, <3>2 DEF BuildInv, RebuildKeeps
    <3>4. Fits(left, t, x)'
      BY <2>5, <3>3
    <3> QED
      BY <1>6, <3>1, <3>4 DEF Fits, WillSuit
  <2>7. RebuildKeeps'
    <3>1. \A t \in Template : \A v \in left : ~Relinks(v, t)
      BY <1>0, <1>3 DEF Relinks
    <3> QED
      BY <1>1, <1>5, <2>6, <3>1, Zenon DEF RebuildKeeps
  <2> QED
    BY <1>7, <2>3, <2>4, <2>7 DEF BuildInv
<1>9. CASE result.ok /\ templates'[u].config = result.config /\ OwnConfig(u)' # OwnConfig(u)
           /\ (effort.edits = 0 \/ (~disturbed /\ command.op = "rebuild"))
  <2>1. Narrows(u, OwnConfig(u), BaseConfig, result.config) /\ IsShaped(u, result.config, chain)
    BY <1>0, <1>1, <1>9, SyncNarrows
  <2>2. PICK own2, base2 : own2 = [t \in Template |-> OwnConfig(t)'] /\ base2 = BaseConfig'
    OBVIOUS
  <2>3. /\ \A t \in Template : t # u => own2[t] = OwnConfig(t)
        /\ own2[u] = result.config
        /\ \A t \in Template : own2[t] = OwnConfig(t)'
        /\ base2 = own2["base"] /\ BaseConfig = OwnConfig("base") /\ BaseConfig' = base2
    BY <1>4, <1>6, <1>9, <2>2 DEF OwnConfig, BaseConfig, Template
  <2>4. \A t \in Template : own2[t] = OwnConfig(t) \/ Narrows(t, OwnConfig(t), BaseConfig, own2[t])
    BY <2>1, <2>3
  <2>5. base2 = BaseConfig \/ Narrows("base", BaseConfig, BaseConfig, base2)
    BY <2>3, <2>4 DEF Template
  <2>6. ASSUME NEW t \in Template, Survives(t) PROVE Survives(t)'
    <3>1. IsConfig(OwnConfig(t)) /\ IsConfig(BaseConfig)
      BY DEF TemplateInv, TemplatesWellFormed, TemplatesTyped, IsRow, OwnConfig, BaseConfig, Template
    <3>2. PICK before : before = expected[t]
      OBVIOUS
    <3>3. Same(before, Built(t, OwnConfig(t), BaseConfig))
      BY <2>6, <3>2, BuildIsBuilt DEF Survives, OwnConfig, BaseConfig
    <3>4. Same(before, Built(t, own2[t], base2))
      BY <2>4, <2>5, <3>1, <3>3, BuiltNarrowed
    <3>5. build(t)' = Built(t, own2[t], base2)
      <4>1. build(t)' = Built(t, OwnConfig(t)', BaseConfig')
        BY BuildsAreBuiltNext, Zenon DEF OwnConfig, BaseConfig
      <4> QED
        BY <2>3, <4>1
    <3>6. expected'[t] = before
      BY <1>1, <3>2
    <3> QED
      BY <3>4, <3>5, <3>6 DEF Survives
  <2>7. ASSUME NEW t \in Template, NEW type, NEW b, Suits(OwnConfig(t), BaseConfig, type, b),
               t # u \/ "log" \in DOMAIN BaseConfig
        PROVE  Suits(own2[t], base2, type, b)
    BY <2>3, <2>4, <2>5, <2>7, SuitsNarrowed
  <2>8. BuildsSurvive'
    <3>1. \A t \in Template : FromTemplates(t)' <=> FromTemplates(t)
      BY <1>6 DEF FromTemplates, IsPlain, ParentId, Template
    <3>2. (command.op # "window" /\ (effort.edits = 0 \/ ~disturbed) =>
             \A t \in Template : ~(command.op = "sync" /\ FromTemplates(t)) => Survives(t))'
      BY <1>1, <1>5, <2>6, <3>1, SurviveMeans DEF BuildInv
    <3> QED
      BY <3>2, Zenon DEF BuildsSurvive, Survives, Same
  <2>9. \A t \in Template, v \in left : v.do # "save" /\ ~Relinks(v, t) /\ v.do # "delete"
    BY <1>0, <1>3 DEF Relinks
  <2>10. Pristine'
    <3> SUFFICES ASSUME effort.edits = 0
                 PROVE  /\ command.op # "window" /\ "log" \in DOMAIN base2
                        /\ \A t \in Template :
                              /\ \A id \in DOMAIN bundles :
                                    IsRoleId(t, id) => Suits(own2[t], base2, id[1], bundles[id])
                              /\ templates[t].chain # <<>> =>
                                    /\ IsShaped(t, own2[t], templates[t].chain)
                                    /\ \A id \in ToSet(templates[t].chain) : IsRoleId(t, id)
      BY <1>1, <1>5, <1>6, <2>3, <2>9 DEF Pristine, RoleSuits, OwnChain
    <3>1. /\ command.op # "window" /\ "log" \in DOMAIN BaseConfig
          /\ \A t \in Template :
                /\ \A id \in DOMAIN bundles : RoleSuits(t, id, bundles[id])
                /\ OwnChain(t, templates[t].chain)
      BY DEF BuildInv, Pristine
    <3>2. "log" \in DOMAIN base2
      BY <2>5, <3>1 DEF Narrows
    <3>3. \A t \in Template, id \in DOMAIN bundles :
              IsRoleId(t, id) => Suits(own2[t], base2, id[1], bundles[id])
      BY <2>7, <3>1 DEF RoleSuits
    <3>4. ASSUME NEW t \in Template, templates[t].chain # <<>>
          PROVE  /\ IsShaped(t, own2[t], templates[t].chain)
                 /\ \A id \in ToSet(templates[t].chain) : IsRoleId(t, id)
      <4>1. IsShaped(t, OwnConfig(t), templates[t].chain)
            /\ \A id \in ToSet(templates[t].chain) : IsRoleId(t, id)
        BY <3>1, <3>4 DEF OwnChain
      <4>2. CASE t = u
        BY <1>0, <2>1, <2>3, <4>1, <4>2
      <4>3. CASE t # u
        BY <2>3, <4>1, <4>3
      <4> QED
        BY <4>2, <4>3
    <3> QED
      BY <3>1, <3>2, <3>3, <3>4
  <2>11. RebuildKeeps'
    <3> SUFFICES ASSUME ~disturbed, command.op = "rebuild", NEW t \in Template,
                        SyncConfig(t) \in left
                 PROVE  Fits(left, t, templates[t].chain)'
      BY <1>1, <1>5, <2>9, Zenon DEF RebuildKeeps
    <3>1. t # u
      BY <1>0, <1>4
    <3>2. \A v \in work : ~Relinks(v, t)
      BY <1>3 DEF Relinks
    <3>3. Fits(work, t, templates[t].chain)
      BY <1>0, <3>2 DEF BuildInv, RebuildKeeps
    <3>4. \A v \in work, id \in ToSet(templates[t].chain) : ~Changes(v, id)
      BY <1>3 DEF Changes
    <3>5. /\ IsShaped(t, OwnConfig(t), templates[t].chain)
          /\ \A id \in ToSet(templates[t].chain) :
                id \in DOMAIN bundles => Suits(OwnConfig(t), BaseConfig, id[1], bundles[id])
      BY <3>3, <3>4 DEF Fits, WillSuit
    <3>6. /\ IsShaped(t, own2[t], templates[t].chain)
          /\ \A id \in ToSet(templates[t].chain) :
                id \in DOMAIN bundles => Suits(own2[t], base2, id[1], bundles[id])
      BY <2>3, <2>7, <3>1, <3>5
    <3>7. templates'[t].chain = templates[t].chain /\ \A id : \A v \in left : ~Changes(v, id)
      BY <1>6, <2>9 DEF Changes
    <3> QED
      BY <1>1, <2>3, <3>6, <3>7 DEF Fits, WillSuit
  <2> QED
    BY <1>7, <2>8, <2>10, <2>11 DEF BuildInv
<1>10. CASE result.ok /\ templates'[u].config = result.config /\ OwnConfig(u)' # OwnConfig(u)
            /\ ~(effort.edits = 0 \/ (~disturbed /\ command.op = "rebuild"))
  <2>1. Pristine' /\ RebuildKeeps'
    BY <1>1, <1>5, <1>10 DEF Pristine, RebuildKeeps
  <2>2. ASSUME command.op # "window", ~disturbed,
               NEW t \in Template, ~(command.op = "sync" /\ FromTemplates(t)')
        PROVE  Survives(t)'
    <3>1. command.op = "sync"
      <4>1. command.op \in {"none", "window", "rebuild", "sync", "decompose"}
        BY DEF TemplateInv, TemplatesWellFormed, CommandTyped
      <4>2. command.op \notin {"none", "decompose"}
        BY <1>0, <1>1, <1>3 DEF BuildInv, SyncKeeps
      <4> QED
        BY <1>10, <2>2, <4>1, <4>2
    <3>2. FromTemplates(t)' <=> FromTemplates(t)
      BY <1>6 DEF FromTemplates, IsPlain, ParentId, Template
    <3>3. ~IsPlain(chain)
      <4>1. ASSUME IsPlain(chain) PROVE FALSE
        <5>1. IsApplied(u)
          BY <1>4, <2>2, <3>1 DEF BuildInv, SyncKeeps
        <5>2. result = [ok |-> TRUE, config |-> templates[u].config]
          BY <1>0, <1>10, <4>1, <5>1, Zenon DEF IsApplied
        <5> QED
          BY <1>10, <5>2 DEF OwnConfig
      <4> QED
        BY <4>1
    <3>4. t # u /\ u # "base"
      BY <1>0, <1>4, <2>2, <3>1, <3>2, <3>3 DEF FromTemplates, ParentId, Template
    <3>5. OwnConfig(t)' = OwnConfig(t) /\ BaseConfig' = BaseConfig
      BY <1>6, <3>4 DEF OwnConfig, BaseConfig, Template
    <3>6. build(t)' = build(t)
      <4>1. build(t)' = Built(t, OwnConfig(t)', BaseConfig')
        BY BuildsAreBuiltNext, Zenon DEF OwnConfig, BaseConfig
      <4>2. build(t) = Built(t, OwnConfig(t), BaseConfig)
        BY BuildIsBuilt DEF OwnConfig, BaseConfig
      <4> QED
        BY <3>5, <4>1, <4>2
    <3>7. Survives(t)
      BY <2>2, <3>1, <3>2, SurviveMeans DEF BuildInv
    <3> QED
      BY <1>1, <3>6, <3>7 DEF Survives
  <2>3. (command.op # "window" /\ (effort.edits = 0 \/ ~disturbed) =>
           \A t \in Template : ~(command.op = "sync" /\ FromTemplates(t)) => Survives(t))'
    BY <1>1, <1>5, <1>10, <2>2
  <2>4. BuildsSurvive'
    BY <2>3, Zenon DEF BuildsSurvive, Survives, Same
  <2> QED
    BY <1>7, <2>1, <2>4 DEF BuildInv
<1>11. templates'[u].config = templates[u].config <=> OwnConfig(u)' = OwnConfig(u)
  BY DEF OwnConfig
<1> QED
  BY <1>6, <1>8, <1>9, <1>10, <1>11

-----------------------------------------------------------------------------
(* Builds outlast the commands.                                            *)

\* Work is lost, or nothing happens.
LEMMA LossKeepsBuilds ==
    ASSUME TemplateInv, BuildInv, UNCHANGED <<templates, bundles, expected>>,
           effort'.edits = effort.edits, command'.op = command.op,
           NEW left \in SUBSET command.work, command'.work = left,
           disturbed' = TRUE \/ (disturbed' = disturbed /\ left = command.work)
    PROVE  BuildInv'
<1>0. PICK work : work = command.work
  OBVIOUS
<1>1. (\A t \in Template : OwnConfig(t)' = OwnConfig(t)) /\ BaseConfig' = BaseConfig
  BY RowsStay
<1>2. Pristine'
  <2> SUFFICES ASSUME effort.edits = 0
               PROVE  /\ command.op # "window" /\ "log" \in DOMAIN BaseConfig
                      /\ \A t \in Template :
                            /\ \A id \in DOMAIN bundles : RoleSuits(t, id, bundles[id])
                            /\ \A v \in left : v.do = "save" => RoleSuits(t, v.id, v.bundle)
                            /\ OwnChain(t, templates[t].chain)
                            /\ \A v \in left : Relinks(v, t) => OwnChain(t, v.chain)
    BY <1>1 DEF Pristine, RoleSuits, OwnChain
  <2> QED
    BY DEF BuildInv, Pristine
<1>3. BuildsSurvive'
  BY RowsKeepBuilds
<1>4. CASE disturbed' = TRUE
  <2>1. SyncKeeps' /\ RebuildKeeps'
    BY <1>4 DEF SyncKeeps, RebuildKeeps, BuildInv
  <2> QED
    BY <1>2, <1>3, <2>1 DEF BuildInv
<1>5. CASE disturbed' = disturbed /\ left = command.work
  <2>1. \A t \in Template : Stay(templates[t].chain)
    BY DEF Stay
  <2>2. \A t \in Template : IsApplied(t) => IsApplied(t)'
    BY <2>1, AppliedKept
  <2>3. SyncKeeps'
    BY <1>5, <2>2 DEF SyncKeeps, BuildInv
  <2>4. ASSUME NEW t \in Template, NEW chain, Fits(left, t, chain) PROVE Fits(left, t, chain)'
    BY <1>1, <2>4 DEF Fits, WillSuit
  <2>5. RebuildKeeps'
    <3> SUFFICES ASSUME ~disturbed, command.op = "rebuild", NEW t \in Template,
                        SyncConfig(t) \in left
                 PROVE  /\ \A v \in left : Relinks(v, t) => Fits(left, t, v.chain)'
                        /\ (\A v \in left : ~Relinks(v, t)) => Fits(left, t, templates[t].chain)'
      BY <1>5, Zenon DEF RebuildKeeps
    <3>1. PICK chain : chain = templates[t].chain
      OBVIOUS
    <3>2. /\ \A v \in left : Relinks(v, t) => Fits(left, t, v.chain)
          /\ (\A v \in left : ~Relinks(v, t)) => Fits(left, t, chain)
      BY <1>5, <3>1 DEF BuildInv, RebuildKeeps
    <3>3. (\A v \in left : ~Relinks(v, t)) => Fits(left, t, chain)'
      BY <2>4, <3>2
    <3> QED
      BY <2>4, <3>1, <3>2, <3>3 DEF Fits, WillSuit
  <2> QED
    BY <1>2, <1>3, <2>3, <2>5 DEF BuildInv
<1> QED
  BY <1>4, <1>5

LEMMA FaultKeepsBuilds ==
    ASSUME TemplateInv, BuildInv, WriteFails \/ ProgramEnds
    PROVE  BuildInv'
<1>1. /\ UNCHANGED <<templates, bundles, expected>> /\ disturbed' = TRUE
      /\ effort' = [effort EXCEPT !.faults = @ + 1]
  BY DEF WriteFails, ProgramEnds, Fault
<1>2. effort'.edits = effort.edits
  BY <1>1 DEF TemplateInv, TemplatesWellFormed, EffortTyped
<1>3. \/ command' = [command EXCEPT !.work = {}]
      \/ command' = [command EXCEPT !.work = @ \ {Head1}]
  BY NextIsLeft DEF WriteFails, ProgramEnds
<1>4. PICK left \in SUBSET command.work : command' = [command EXCEPT !.work = left]
  BY <1>3
<1>5. command'.op = command.op /\ command'.work = left
  BY <1>4 DEF TemplateInv, TemplatesWellFormed, CommandTyped
<1> QED
  BY <1>1, <1>2, <1>5, LossKeepsBuilds

LEMMA BuildsInitially ==
    ASSUME TemplateInit PROVE BuildInv
<1>1. "log" \in DOMAIN BaseConfig
  <2>1. Seed["base"] = [log |-> <<Item(NoTag, <<"warning">>)>>]
    <3>1. Seed.base = [log |-> <<Item(NoTag, <<"warning">>)>>]
      BY DEF Seed
    <3> QED
      BY <3>1, Zenon
  <2>2. BaseConfig = Seed["base"]
    BY DEF TemplateInit, BaseConfig, Template
  <2>3. PICK log : log = <<Item(NoTag, <<"warning">>)>>
    OBVIOUS
  <2> QED
    BY <2>1, <2>2, <2>3
<1>2. \A t \in Template : templates[t].chain = <<>>
  BY DEF TemplateInit
<1>3. DOMAIN bundles = {}
  BY DEF TemplateInit
<1>4. command.op = "none" /\ command.work = {}
  BY DEF TemplateInit
<1>5. Pristine
  BY <1>1, <1>2, <1>3, <1>4 DEF Pristine, OwnChain
<1>6. RebuildKeeps /\ SyncKeeps
  BY <1>4 DEF RebuildKeeps, SyncKeeps
<1>7. \A t \in Template : Survives(t)
  BY DEF TemplateInit, Survives, Same
<1> QED
  BY <1>5, <1>6, <1>7, SurviveMeans DEF BuildInv

LEMMA BuildStep ==
    TemplateInv /\ BuildInv /\ TemplateInv' /\ [TemplateNext]_templateVars => BuildInv'
<1> SUFFICES ASSUME TemplateInv, BuildInv, TemplateInv', [TemplateNext]_templateVars
             PROVE  BuildInv'
  OBVIOUS
<1>1. CASE \/ \E id \in BundleIds : onBundleSave(id) \/ onBundleNew(id) \/ onBundleDelete(id)
           \/ \E t \in Template : onChainSave(t) \/ onTemplateSave(t)
  <2>1. \E work : Edit("window", work)
    BY <1>1, AnyEdit
  <2> QED
    BY <2>1, EditChangesBuilds
<1>2. CASE rebuildBundlesAndChains \/ syncConfigsFromChains \/ decomposeAndSave
  BY <1>2, RebuildCommandKeeps, SyncCommandKeeps, DecomposeCommandKeeps
<1>3. CASE WriteBundle \/ RemoveBundle
  BY <1>3, WriteKeepsBuilds
<1>4. CASE WriteChain
  BY <1>4, ChainKeepsBuilds
<1>5. CASE syncConfigFromChain
  BY <1>5, SyncKeepsBuilds
<1>6. CASE WriteFails \/ ProgramEnds
  BY <1>6, FaultKeepsBuilds
<1>7. CASE UNCHANGED templateVars
  <2>1. UNCHANGED <<templates, bundles, command, effort, expected, disturbed>>
    BY <1>7 DEF templateVars
  <2>2. PICK left : left = command.work
    OBVIOUS
  <2>3. left \in SUBSET command.work
    BY <2>2
  <2> QED
    BY <2>1, <2>2, <2>3, LossKeepsBuilds
<1> QED
  BY <1>1, <1>2, <1>3, <1>4, <1>5, <1>6, <1>7 DEF TemplateNext

\* Rebuilding bundles and chains, syncing configurations from chains and decomposing
\* templates never change what a build makes of a template, however often, in whatever
\* order and wherever interrupted as long as the user has edited nothing, and for any edits
\* if the command goes well (rebuildBundlesAndChains(), syncConfigFromChain(),
\* decomposeAndSave(), ConfigGenerator::build*Config()).
THEOREM BuildsSurviveAlways == TemplateSpec => []BuildsSurvive
<1>1. TemplateInit => BuildInv
  BY BuildsInitially
<1>2. BuildInv => BuildsSurvive
  BY DEF BuildInv
<1> QED
  BY <1>1, <1>2, TemplateInvAlways, BuildStep, PTL DEF TemplateSpec

=============================================================================
