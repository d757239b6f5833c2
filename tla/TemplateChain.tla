---------------------------- MODULE TemplateChain ----------------------------
(***************************************************************************)
(* Configuration templates and the bundles they are made of                *)
(* (src/src/config/TemplateDecomposer.cpp, BundleChainResolver.cpp,        *)
(* src/src/FullConfigTemplateDAO.cpp, src/src/ui/ConfigDialog.cpp).  A     *)
(* build reads only the column Config; the window and the command line     *)
(* edit bundles and chains of bundles, and write Config anew from them,    *)
(* row after row and without a transaction: any write may fail and the     *)
(* program may end between two of them.  One program at a time.            *)
(***************************************************************************)
EXTENDS Naturals, Sequences, FiniteSets, SequencesExt, FiniteSetsExt

CONSTANTS
    MaxTemplateEdits,   \* bound: bundles and chains the user changes
    MaxTemplateFaults,  \* bound: writes that fail and programs that end early
    MaxCommands         \* bound: commands of the command line

ASSUME TemplateAssumption ==
    {MaxTemplateEdits, MaxTemplateFaults, MaxCommands} \subseteq Nat

VARIABLES
    templates,  \* FullConfigTemplateItem: config, chain and recorded versions
    bundles,    \* ComponentBundle
    command,    \* the handler or command in progress and the set of writes it has left
    effort,     \* edits, faults and commands so far
    expected,   \* what each template built before the command
    disturbed   \* some write has failed or was never made

templateVars == <<templates, bundles, command, effort, expected, disturbed>>

\* The templates of one core; each has the role its id says (inferTemplateType()), and
\* the others inherit from "base".
Template == {"base", "test", "pool"}
ParentId(t) == IF t = "base" THEN {} ELSE {"base"}

\* Sections in the order of ComponentType, and how two components of one combine.
ComponentType == <<"log", "api", "routing", "inbounds">>
Strategy(type) ==
    CASE type = "inbounds" -> "append" [] type = "routing" -> "merge" [] OTHER -> "override"

\* A configuration gives each section that it has its items: inbounds are an array,
\* any other section is one item, without a tag.
NoTag == "no tag"
Item(tag, val) == [tag |-> tag, val |-> val]
Component(type, tag, val) == [type |-> type, tag |-> tag, val |-> val]

\* seedDefaultTemplates(): test and pool share all but the routing.
Seed ==
    LET served(rules) == [api |-> <<Item(NoTag, <<"api">>)>>,
                          inbounds |-> <<Item("socks", <<"mixed">>)>>,
                          routing |-> <<Item(NoTag, rules)>>]
    IN [base |-> [log |-> <<Item(NoTag, <<"warning">>)>>],
        test |-> served(<<"api">>),
        pool |-> served(<<"api", "direct">>)]

-----------------------------------------------------------------------------
(* From a chain to a configuration.                                         *)

\* mergeComponents(): whether a later component takes the place of an earlier one.
Replaces(c, o) ==
    /\ o.type = c.type
    /\ CASE Strategy(c.type) = "append" -> c.tag # NoTag /\ o.tag = c.tag
         [] Strategy(c.type) = "merge" -> FALSE
         [] OTHER -> TRUE

mergeComponents(base, override) ==
    LET others(r, c) ==
            FoldLeft(LAMBDA kept, o : IF Replaces(c, o) THEN kept ELSE Append(kept, o), <<>>, r)
    IN FoldLeft(LAMBDA r, c : Append(others(r, c), c), base, override)

WithSection(config, type, items) ==
    [s \in DOMAIN config \cup {type} |-> IF s = type THEN items ELSE config[s]]

applyComponent(config, c) ==
    LET items == IF c.type \in DOMAIN config THEN config[c.type] ELSE <<>>
        same == {n \in DOMAIN items : c.tag # NoTag /\ items[n].tag = c.tag}
    IN WithSection(config, c.type,
         CASE Strategy(c.type) = "append" /\ same # {} ->
                 [n \in DOMAIN items |-> IF n \in same THEN Item(c.tag, c.val) ELSE items[n]]
           [] Strategy(c.type) = "append" /\ same = {} -> Append(items, Item(c.tag, c.val))
           [] Strategy(c.type) = "merge" /\ items # <<>> ->
                 <<Item(c.tag, items[1].val \o c.val)>>
           [] OTHER -> <<Item(c.tag, c.val)>>)

Unresolved == [ok |-> FALSE]
Resolved(comps) == [ok |-> TRUE, config |-> FoldLeft(applyComponent, <<>>, comps)]

Gathered(ids) == FoldLeft(mergeComponents, <<>>, [n \in DOMAIN ids |-> bundles[ids[n]].components])

\* Mutant: a bundle that is not there is passed over.
ResolvePresent(chain) ==
    LET there == SelectSeq(chain, LAMBDA id : id \in DOMAIN bundles)
    IN IF chain = <<>> THEN Unresolved ELSE Resolved(Gathered(there))

\* resolveToConfig(), for the chain of a template.
resolveToConfig(chain) ==
    IF chain = <<>> \/ ~(ToSet(chain) \subseteq DOMAIN bundles)
    THEN Unresolved
    ELSE Resolved(Gathered(chain))

\* detect(): two of one kind are an error if all of that kind are in one bundle.
HasErrors(chain) ==
    LET kind(c) == <<c.type, IF Strategy(c.type) = "append" THEN c.tag ELSE NoTag>>
        single(c) == Strategy(c.type) # "append" \/ c.tag # NoTag
        all == {x \in ToSet(chain) \X (1 .. 5) : x[2] <= Len(bundles[x[1]].components)}
        comp(x) == bundles[x[1]].components[x[2]]
    IN \E x, y \in all :
          /\ x # y /\ single(comp(x)) /\ kind(comp(x)) = kind(comp(y))
          /\ \A z \in all : kind(comp(z)) = kind(comp(x)) => z[1] = x[1]

getCurrentVersions(chain) ==
    [id \in ToSet(chain) \cap DOMAIN bundles |-> bundles[id].version]

isTemplateInSync(t) ==
    \A id \in ToSet(templates[t].chain) :
        /\ id \in DOMAIN templates[t].recorded
        /\ id \in DOMAIN bundles
        /\ bundles[id].version <= templates[t].recorded[id]

\* loadTemplateById(): the sections of the parent that the template does not have.
loadTemplate(t) ==
    LET own == templates[t].config
        inherited == UNION {DOMAIN templates[p].config : p \in ParentId(t)}
    IN [s \in DOMAIN own \cup inherited |->
          IF s \in DOMAIN own THEN own[s] ELSE templates["base"].config[s]]

\* build*Config(): rules for the inbound socks give way to the one of this build.
Routed(rules, tag) == Append(SelectSeq(rules, LAMBDA r : r # "socks"), tag)

build(t) ==
    LET config == loadTemplate(t)
        rules == IF "routing" \in DOMAIN config THEN config["routing"][1].val ELSE <<>>
        tag == IF t = "pool" THEN "balancer-out" ELSE "proxy"
    IN WithSection(config, "routing", <<Item(NoTag, Routed(rules, tag))>>)

TemplateInit ==
    /\ templates = [t \in Template |-> [config |-> Seed[t], chain |-> <<>>, recorded |-> <<>>]]
    /\ bundles = <<>>
    /\ command = [op |-> "none", work |-> {}]
    /\ effort = [edits |-> 0, faults |-> 0, commands |-> 0]
    /\ disturbed = FALSE
    /\ expected = [t \in Template |-> build(t)]

-----------------------------------------------------------------------------
(* From configurations to bundles.                                          *)

\* buildBundle(): a component for each item.
Components(config, type) ==
    IF type \notin DOMAIN config THEN <<>>
    ELSE [k \in DOMAIN config[type] |->
            Component(type, config[type][k].tag, config[type][k].val)]

Decomposed(config) ==
    FoldLeft(LAMBDA all, type : all \o Components(config, type), <<>>, ComponentType)

Bundle(components, version) == [components |-> components, version |-> version]

\* planMinimalBundles(): of each role the first component of a type; one bundle for
\* all the roles if they agree, and one for each if not.
HasType(t, type) == type \in DOMAIN templates[t].config
Roles(type) == {t \in Template : HasType(t, type)}
First(t, type) == Components(templates[t].config, type)[1]

\* Mutant: one bundle for all the roles.
AlwaysShared(type) == TRUE

Shared(type) == Cardinality({First(t, type) : t \in Roles(type)}) = 1

AllRoles == "all roles"
BundleId(type, t) == <<type, IF Shared(type) THEN AllRoles ELSE t>>

PlannedBundles ==
    LET types == {type \in ToSet(ComponentType) : Roles(type) # {}}
        role(id) == IF id[2] = AllRoles THEN CHOOSE t \in Roles(id[1]) : TRUE ELSE id[2]
    IN [id \in UNION {{BundleId(type, t) : t \in Roles(type)} : type \in types} |->
          Bundle(<<First(role(id), id[1])>>, 1)]

\* The types of the template itself, and for the pool the log of the only role that has one.
PlannedIds(t, type) ==
    IF HasType(t, type) THEN <<BundleId(type, t)>>
    ELSE IF t = "pool" /\ type = "log" /\ Cardinality(Roles(type)) = 1
         THEN <<BundleId(type, CHOOSE r \in Roles(type) : TRUE)>>
         ELSE <<>>

PlannedChain(t) ==
    FoldLeft(LAMBDA chain, type : chain \o PlannedIds(t, type), <<>>, ComponentType)

-----------------------------------------------------------------------------
(* What a handler or a command does: a set of writes, made one kind after   *)
(* the other; those of one kind in a fixed order, but no matter which.      *)

SaveBundle(id, b) == [do |-> "save", id |-> id, bundle |-> b]
DeleteBundle(id) == [do |-> "delete", id |-> id]
SaveChain(t, chain) == [do |-> "chain", template |-> t, chain |-> chain]
SyncConfig(t) == [do |-> "sync", template |-> t]
Syncs(ts) == {SyncConfig(t) : t \in ts}

Rank(write) ==
    CASE write.do = "delete" -> 1 [] write.do = "save" -> 2
      [] write.do = "chain" -> 3 [] write.do = "sync" -> 4

Referencing(id) == {t \in Template : id \in ToSet(templates[t].chain)}

NoWork == command.work = {}

Starts(op, work) ==
    /\ NoWork
    /\ command' = [op |-> op, work |-> work]
    /\ UNCHANGED <<templates, bundles>>

Edit(op, work) ==
    /\ effort.edits < MaxTemplateEdits
    /\ Starts(op, work)
    /\ effort' = [effort EXCEPT !.edits = @ + 1]
    /\ UNCHANGED <<expected, disturbed>>

\* What the user puts into a bundle.
Contents ==
    {<<Component("log", NoTag, <<"none">>)>>,
     <<Component("inbounds", "socks", <<"mixed">>), Component("inbounds", "http", <<"noauth">>)>>,
     <<Component("log", NoTag, <<"none">>), Component("log", NoTag, <<"warning">>)>>,
     <<Component("routing", NoTag, <<"socks">>)>>}

Custom == <<"custom", AllRoles>>

\* onBundleSave(): the version is what the user leaves in the editor.  A new id makes a
\* second bundle, the old one stays.
onBundleSave(id) ==
    /\ NoWork /\ id \in DOMAIN bundles
    /\ \E c \in Contents, advance \in BOOLEAN :
          LET b == Bundle(c, IF advance THEN 2 ELSE bundles[id].version)
          IN \/ Edit("window", {SaveBundle(id, b)} \cup Syncs(Referencing(id)))
             \/ /\ Custom \notin DOMAIN bundles
                /\ Edit("window",
                        {SaveBundle(Custom, b)} \cup Syncs(Referencing(Custom)))

\* Mutant: nothing refers to a bundle that is new.
onBundleNewUnused(id) ==
    /\ id \notin DOMAIN bundles
    /\ Edit("window", {SaveBundle(id, Bundle(<<>>, 1))})

\* onBundleNew(): without components, but chains may refer to it, left by a bundle of
\* the same id.
onBundleNew(id) ==
    /\ id \notin DOMAIN bundles
    /\ Edit("window",
            {SaveBundle(id, Bundle(<<>>, 1))} \cup Syncs(Referencing(id)))

onBundleDelete(id) ==
    /\ id \in DOMAIN bundles
    /\ Edit("window", {DeleteBundle(id)} \cup Syncs(Referencing(id)))

\* The editor adds a bundle at the end and removes one.
ChainEdits(chain) ==
    {Append(chain, id) : id \in DOMAIN bundles \ ToSet(chain)}
    \cup {RemoveAt(chain, n) : n \in DOMAIN chain}

\* onChainSave(): only a chain that resolves without errors.
onChainSave(t) ==
    /\ NoWork
    /\ \E chain \in ChainEdits(templates[t].chain) :
          /\ chain # <<>> /\ ToSet(chain) \subseteq DOMAIN bundles /\ ~HasErrors(chain)
          /\ Edit("window", {SaveChain(t, chain), SyncConfig(t)})

\* onTemplateSave()
onTemplateSave(t) == Edit("window", {SyncConfig(t)})

\* A command of the command line.
Command(op, work) ==
    /\ effort.commands < MaxCommands
    /\ Starts(op, work)
    /\ effort' = [effort EXCEPT !.commands = @ + 1]
    /\ expected' = IF effort.edits > 0 THEN [t \in Template |-> build(t)] ELSE expected

\* -RB
rebuildBundlesAndChains ==
    /\ Command("rebuild",
               {DeleteBundle(id) : id \in DOMAIN bundles \ DOMAIN PlannedBundles}
               \cup {SaveBundle(id, PlannedBundles[id]) : id \in DOMAIN PlannedBundles}
               \cup {SaveChain(t, PlannedChain(t)) : t \in Template}
               \cup Syncs(Template))
    /\ disturbed' = FALSE

\* -SM
syncConfigsFromChains ==
    /\ Command("sync", Syncs(Template))
    /\ UNCHANGED disturbed

\* -DC: a bundle with the id of each template.
decomposeAndSave ==
    /\ Command("decompose",
               {SaveBundle(<<"template", t>>, Bundle(Decomposed(templates[t].config), 1)) :
                    t \in Template})
    /\ UNCHANGED disturbed

Head1 == CHOOSE w \in command.work : \A v \in command.work : Rank(w) <= Rank(v)
Next1 == command' = [command EXCEPT !.work = @ \ {Head1}]

WriteBundle ==
    /\ ~NoWork /\ Head1.do = "save"
    /\ bundles' = [id \in DOMAIN bundles \cup {Head1.id} |->
                     IF id = Head1.id THEN Head1.bundle ELSE bundles[id]]
    /\ Next1
    /\ UNCHANGED <<templates, effort, expected, disturbed>>

RemoveBundle ==
    /\ ~NoWork /\ Head1.do = "delete"
    /\ bundles' = [id \in DOMAIN bundles \ {Head1.id} |-> bundles[id]]
    /\ Next1
    /\ UNCHANGED <<templates, effort, expected, disturbed>>

WriteChain ==
    /\ ~NoWork /\ Head1.do = "chain"
    /\ templates' = [templates EXCEPT ![Head1.template].chain = Head1.chain,
                                      ![Head1.template].recorded =
                                          getCurrentVersions(Head1.chain)]
    /\ Next1
    /\ UNCHANGED <<bundles, effort, expected, disturbed>>

\* syncConfigFromChain(): a chain that does not resolve leaves the row as it is.
syncConfigFromChain ==
    /\ ~NoWork /\ Head1.do = "sync"
    /\ LET t == Head1.template
           chain == templates[t].chain
           result == resolveToConfig(chain)
       IN templates' = IF ~result.ok THEN templates
                       ELSE [templates EXCEPT ![t] = [config |-> result.config, chain |-> chain,
                                                      recorded |-> getCurrentVersions(chain)]]
    /\ Next1
    /\ UNCHANGED <<bundles, effort, expected, disturbed>>

Fault ==
    /\ ~NoWork /\ effort.faults < MaxTemplateFaults
    /\ effort' = [effort EXCEPT !.faults = @ + 1]
    /\ disturbed' = TRUE
    /\ UNCHANGED <<templates, bundles, expected>>

\* A write fails: a handler gives up, unless it was syncing; a command goes on.
WriteFails ==
    /\ Fault
    /\ IF command.op = "window" /\ Head1.do # "sync"
       THEN command' = [command EXCEPT !.work = {}]
       ELSE Next1

\* The program ends.
ProgramEnds ==
    /\ Fault
    /\ command' = [command EXCEPT !.work = {}]

-----------------------------------------------------------------------------

BundleIds == DOMAIN bundles \cup {Custom} \cup UNION {ToSet(templates[t].chain) : t \in Template}

TemplateNext ==
    \/ \E id \in BundleIds : onBundleSave(id) \/ onBundleNew(id) \/ onBundleDelete(id)
    \/ \E t \in Template : onChainSave(t) \/ onTemplateSave(t)
    \/ rebuildBundlesAndChains \/ syncConfigsFromChains \/ decomposeAndSave
    \/ WriteBundle \/ RemoveBundle \/ WriteChain \/ syncConfigFromChain
    \/ WriteFails \/ ProgramEnds

TemplateSpec == TemplateInit /\ [][TemplateNext]_templateVars

-----------------------------------------------------------------------------
(* Properties.                                                              *)

TemplateTypeOK ==
    /\ \A t \in Template :
          /\ DOMAIN templates[t].config \subseteq ToSet(ComponentType)
          /\ DOMAIN templates[t].recorded \subseteq ToSet(templates[t].chain)
    /\ \A id \in DOMAIN bundles : bundles[id].version \in 1 .. 2
    /\ effort \in [edits : 0 .. MaxTemplateEdits, faults : 0 .. MaxTemplateFaults,
                   commands : 0 .. MaxCommands]
    /\ command.op \in {"none", "window", "rebuild", "sync", "decompose"}
    /\ disturbed \in BOOLEAN

\* -DC overwrites the bundles it makes; what a chain of them builds is left to -SM.
IsPlain(chain) == \A id \in ToSet(chain) : id[1] # "template"
FromTemplates(t) == \E u \in {t} \cup ParentId(t) : ~IsPlain(templates[u].chain)

\* The command line rewrites bundles, chains and configurations without changing what
\* is built: every section of every template is what it was - wherever the command is
\* interrupted, and whatever runs next, as long as the user has edited nothing; and for
\* any edited templates, if the command is not disturbed.  Of several inbounds of one
\* template a rebuild keeps the first, and -SM takes over what -DC has overwritten.
BuildsSurvive ==
    command.op # "window" /\ (effort.edits = 0 \/ ~disturbed) =>
        \A t \in Template :
            ~(command.op = "sync" /\ FromTemplates(t)) =>
                LET built == build(t) IN
                \A s \in DOMAIN expected[t] :
                    ~(s = "inbounds" /\ Len(expected[t][s]) > 1) =>
                        s \in DOMAIN built /\ built[s] = expected[t][s]

\* A template that the window shows as in sync has the configuration that its chain
\* resolves to, and an undisturbed rebuild brings every template in sync, whatever has
\* happened before it.  Chains of bundles that -DC overwrites are left out.
SyncMarkIsTrue ==
    NoWork /\ ~disturbed =>
        \A t \in Template :
            LET chain == templates[t].chain IN
            /\ chain # <<>> /\ isTemplateInSync(t) /\ IsPlain(chain)
               => resolveToConfig(chain) = [ok |-> TRUE, config |-> templates[t].config]
            /\ command.op = "rebuild" => isTemplateInSync(t)

=============================================================================
