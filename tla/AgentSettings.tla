---------------------------- MODULE AgentSettings ----------------------------
(***************************************************************************)
(* What an agent runs with: the YAML configuration of the agent, under the *)
(* admin's overrides, the user's preferences and the user's agent          *)
(* instance.  AgentService.from_user_instance builds the agent in the      *)
(* backend; a run on the Agent Server starts from a graph that knows only  *)
(* the YAML configuration and is told the rest in the metadata of the run, *)
(* by AgentService or, for a front end, by the run bundle.  The second     *)
(* part is the hierarchy of subagents that is built under an agent.        *)
(***************************************************************************)
EXTENDS Naturals, Sequences, FiniteSets, Functions

CONSTANTS
    AgentModels,   \* models of the YAML configuration
    Creatable,     \* those that LLMModelFactory can create, the agents' own among them
    YamlModel,     \* the model of every agent in the YAML configuration
    Agents,        \* agents of the YAML configuration
    Root,          \* the agent that is run
    SubInstances,  \* instances that may be subagents of the user's instance
    Settings,      \* what agents are run with: layers of settings, and lists of subagents
    Absent         \* nothing given

VARIABLES
    layers,        \* the settings of every layer
    tree,          \* the agents that each agent lists as its subagents
    ran            \* what was built: where, and its settings

settingsVars == <<layers, tree, ran>>

Maybe(S) == S \union {Absent}
FallbackLists == Seq(AgentModels)

\* The settings of an agent that the layers share; Absent is "not in this layer".
AgentLayer == [primary : Maybe(AgentModels), fallback : Maybe(FallbackLists),
               session : Maybe(BOOLEAN), instructions : Maybe(BOOLEAN)]
\* A subagent of the instance: the agent it is based on and its model.
OwnSubagent == [base : Agents, model : Maybe(AgentModels)]

\* Lists of subagents without repetition.
SubagentLists == {list \in Seq(Agents) : IsInjective(list)}

\* All layers: the agent's configuration, which has a model and a list of fallbacks, and its
\* memory tools ("all" if they are not listed), AGENT_MEMORY_AUTO_RECALL, the admin, the user,
\* the instance, its prompts and its subagents; and what the admin, or over the admin the user,
\* gives to other agents than Root as their model, one that can be created, and to Root as its
\* list of subagents.
Layers == {l \in [yaml : AgentLayer, memoryTools : {"all", "some", "none"}, autoRecall : BOOLEAN,
                  admin : AgentLayer, user : AgentLayer, instance : AgentLayer,
                  override : {Absent, "", "text"}, append : {Absent, "text"},
                  subagents : [SubInstances -> Maybe(OwnSubagent)],
                  others : [Agents \ {Root} -> Maybe(Creatable)], list : Maybe(SubagentLists)] :
             l.yaml.primary = YamlModel /\ l.yaml.fallback # Absent}

ASSUME AgentSettingsAssumption ==
    /\ Absent \notin AgentModels /\ Absent \notin BOOLEAN /\ Absent \notin {"", "text"}
    /\ Absent \notin FallbackLists /\ Absent \notin SubInstances /\ Absent \notin OwnSubagent
    /\ Absent \notin SubagentLists
    /\ YamlModel \in Creatable /\ Creatable \subseteq AgentModels
    /\ Root \in Agents /\ IsFiniteSet(Agents) /\ IsFiniteSet(SubInstances)
    /\ Settings \subseteq [layers : Layers, tree : [Agents -> SubagentLists]]

\* The agents that an agent lists.
Children(a) == {tree[a][i] : i \in DOMAIN tree[a]}

-----------------------------------------------------------------------------
(* The agent in the backend.                                               *)

First(given, otherwise) == IF given = Absent THEN otherwise ELSE given

\* with_overrides, for one agent.
WithOverrides(config, over) == [f \in DOMAIN config |-> First(over[f], config[f])]

\* get_config_with_overrides, and build_config_for_instance on top of it.
UserConfig == WithOverrides(WithOverrides(layers.yaml, layers.admin), layers.user)
InstanceConfig == WithOverrides(UserConfig, layers.instance)

\* normalize_fallback_model_names and build_model_fallback_middleware: each other model once,
\* where it comes first, if it can be created.
Fallback(names, primary) ==
    LET stays(i) == /\ names[i] \in Creatable \ {primary}
                    /\ \A j \in 1..(i - 1) : names[j] # names[i]
        kept == SelectSeq([i \in DOMAIN names |-> i], stays)
    IN [k \in DOMAIN kept |-> names[kept[k]]]

\* _apply_prompt_overrides: which texts are in the prompt.
PromptHere == CASE layers.override = "text" -> {"override"}
                [] layers.override = "" -> {}
                [] layers.override = Absent -> {"base"} \union
                     (IF layers.append = Absent THEN {} ELSE {"append"})

\* _resolve_memory_session_context_enabled and _resolve_memory_tool_instructions_enabled.
RecallHere == First(InstanceConfig.session, layers.autoRecall)
InstructionsHere == First(InstanceConfig.instructions, layers.memoryTools # "none")

\* The model of an agent in base_config, on which subagents are built too.
BasePrimary(b) == IF b = Root THEN UserConfig.primary ELSE First(layers.others[b], YamlModel)

\* from_user_instance: the instance's subagents whose model can be created.
OwnSubagents == {s \in {layers.subagents[i] : i \in SubInstances} \ {Absent} :
                   First(s.model, BasePrimary(s.base)) \in Creatable}

\* The subagents that the agent lists in base_config; Root is visited already.
ListedHere == LET list == First(layers.list, tree[Root])
              IN {list[i] : i \in DOMAIN list} \ {Root}

\* _build_subagent_specs: those of the instance, and the ones of the agent that none of them
\* is based on.
SubagentsHere ==
    {[base |-> s.base, model |-> First(s.model, BasePrimary(s.base))] : s \in OwnSubagents}
      \union {[base |-> b, model |-> BasePrimary(b)] :
                b \in ListedHere \ {s.base : s \in OwnSubagents}}

\* AgentService raises if the model cannot be created.
Here ==
    [where |-> "here", failed |-> InstanceConfig.primary \notin Creatable,
     model |-> InstanceConfig.primary,
     fallback |-> Fallback(InstanceConfig.fallback, InstanceConfig.primary),
     prompt |-> PromptHere, recall |-> RecallHere, instructions |-> InstructionsHere,
     subagents |-> SubagentsHere]

-----------------------------------------------------------------------------
(* The agent on the server.                                                *)

\* build_instance_context: by the agent that a subagent is based on, so that one of two
\* with the same is lost.
SubagentConfigs == {f \in [Agents -> Maybe(SubInstances)] :
    \A b \in Agents : LET based == {s \in SubInstances : layers.subagents[s] # Absent
                                                         /\ layers.subagents[s].base = b}
                      IN IF based = {} THEN f[b] = Absent ELSE f[b] \in based}

\* Mutant of Metadata: the model of the instance only.
MetadataInstanceModel(bundle, configs) ==
    [primary |-> layers.instance.primary, fallback |-> InstanceConfig.fallback,
     override |-> layers.override, append |-> layers.append,
     session |-> IF bundle THEN layers.instance.session ELSE Absent,
     instructions |-> IF bundle THEN layers.instance.instructions ELSE Absent,
     subagents |-> configs]

\* What the server is told: by _build_remote_metadata, or by
\* build_remote_metadata_for_user_instance for the bundle.  An agent built from an instance
\* has no switches for the memory of its own, so only the bundle tells them.
Metadata(bundle, configs) ==
    [primary |-> IF InstanceConfig.primary = layers.yaml.primary THEN Absent
                 ELSE InstanceConfig.primary,
     fallback |-> InstanceConfig.fallback,
     override |-> layers.override, append |-> layers.append,
     session |-> IF bundle THEN layers.instance.session ELSE Absent,
     instructions |-> IF bundle THEN layers.instance.instructions ELSE Absent,
     subagents |-> configs]

\* build_agent_graph: what the graph is compiled with, for the requests of every user.
Compiled == [model |-> YamlModel, fallback |-> layers.yaml.fallback, prompt |-> {"base"},
             recall |-> First(layers.yaml.session, layers.autoRecall),
             instructions |-> First(layers.yaml.instructions, layers.memoryTools # "none")]

\* InstanceConfigMiddleware: a prompt of its own replaces what the graph was built with; a
\* model that cannot be created is replaced by the graph's, unless AgentService, which
\* creates it too before it sends the run, has raised.
PromptThere(told) == IF told.override = "text" THEN {"override"}
                     ELSE Compiled.prompt \union (IF told.append = Absent THEN {} ELSE {"append"})
ModelThere(name) == IF name \in Creatable THEN name ELSE Compiled.model

\* before_agent of MemoryMiddleware: what the agent has not, a request cannot turn on.
RecallThere(told) == Compiled.recall /\ told.session # FALSE

\* _build_injection_blocks, which leaves them out if all memory tools are there.
InstructionsThere(told) ==
    /\ layers.memoryTools # "all"
    /\ First(told.instructions, Compiled.instructions)

\* SubagentConfigMiddleware of every subagent the graph was built with.
SubagentsThere(told) ==
    {[base |-> b,
      model |-> IF told.subagents[b] = Absent THEN YamlModel
                ELSE ModelThere(First(layers.subagents[told.subagents[b]].model, YamlModel))]
       : b \in Children(Root)}

There(where, told) ==
    LET name == First(told.primary, Compiled.model)
    IN [where |-> where, failed |-> where = "there" /\ name \notin Creatable,
        model |-> ModelThere(name),
        fallback |-> Fallback(First(told.fallback, Compiled.fallback), name),
        prompt |-> PromptThere(told), recall |-> RecallThere(told),
        instructions |-> InstructionsThere(told), subagents |-> SubagentsThere(told)]

-----------------------------------------------------------------------------
(* The hierarchy of subagents.                                             *)

\* Paths from Root down to a subagent, which are as long as the builder goes.
Paths == {p \in UNION {[1..n -> Agents] : n \in 1..(Cardinality(Agents) + 2)} :
            /\ p[1] = Root
            /\ \A i \in 2..Len(p) : p[i] \in Children(p[i - 1])}

\* DeepAgentService: _visited_agents is the chain of agents above.
BuiltHere == {p \in Paths : IsInjective(p)}

\* The names that the list of an agent has up to a name.
UpTo(list, name) == {list[i] : i \in 1..(CHOOSE i \in DOMAIN list : list[i] = name)}

\* Mutant of Visited: a subagent's own subagents start afresh.
VisitedAfresh(p, i) == {}

\* _build_server_subagents: visited, a copy for each nested call, when the builder comes to
\* p[i]: the names it has gone through in every list above, without Root.
Visited(p, i) == UNION {UpTo(tree[p[j - 1]], p[j]) : j \in 2..(i - 1)}
BuiltThere == {p \in Paths : \A i \in 2..Len(p) : p[i] \notin Visited(p, i)}

-----------------------------------------------------------------------------

SettingsInit == (\E s \in Settings : layers = s.layers /\ tree = s.tree) /\ ran = Absent

RunHere == ran = Absent /\ ran' = Here /\ UNCHANGED <<layers, tree>>
RunThere == /\ ran = Absent
            /\ \E configs \in SubagentConfigs : ran' = There("there", Metadata(FALSE, configs))
            /\ UNCHANGED <<layers, tree>>
RunBundle == /\ ran = Absent
             /\ \E configs \in SubagentConfigs : ran' = There("bundle", Metadata(TRUE, configs))
             /\ UNCHANGED <<layers, tree>>

SettingsNext == RunHere \/ RunThere \/ RunBundle

SettingsSpec == SettingsInit /\ [][SettingsNext]_settingsVars

-----------------------------------------------------------------------------
(* Properties.                                                             *)

SettingsTypeOK ==
    /\ layers \in Layers
    /\ tree \in [Agents -> SubagentLists]

\* The instance before the user's preference before the admin's before the YAML file.
Wanted == First(layers.instance.primary, First(layers.user.primary,
            First(layers.admin.primary, YamlModel)))

\* Where the subagents on the server may be others than in the backend.  Nobody tells it the list
\* that the admin or the user gives to the agent, or the model that they give to an agent which is
\* a subagent without a model of its own.  It builds an agent that lists itself under itself, and
\* has one subagent for each name that the agent lists, whatever the instance's are based on.
SubagentsExcused ==
    LET listed == {layers.subagents[s] : s \in SubInstances} \ {Absent}
    IN \/ layers.list # Absent
       \/ Root \in Children(Root)
       \/ \E b \in Children(Root) \ {Root} :
             /\ layers.others[b] # Absent
             /\ \A s \in listed : s.base = b => s.model = Absent
       \/ \E s \in listed : s.base \notin Children(Root) \/ s.model \notin Maybe(Creatable)
       \/ Cardinality({s.base : s \in listed})
            # Cardinality({s \in SubInstances : layers.subagents[s] # Absent})

\* Wherever an instance runs, it runs with the model and the fallbacks that its layers give
\* it, the texts of its prompt, the recall of memories, the instructions for memory tools and
\* the subagents that it has in the backend.  Excused are: a model that cannot be created; an
\* empty prompt; recall that the instance turns on and the agent does not have; agents with
\* all memory tools; the memory switches of a run that AgentService sends, and those that only
\* the admin or the user's preferences set, which nobody tells the server; and subagents as
\* SubagentsExcused has them.
ServerRunsTheInstance ==
    ran # Absent =>
        LET switched == ran.where = "there" /\ (layers.instance.session # Absent
                                                \/ layers.instance.instructions # Absent)
            above(switch) == /\ layers.instance[switch] = Absent
                             /\ {layers.admin[switch], layers.user[switch]} # {Absent}
        IN /\ ran.failed => Wanted \notin Creatable
           /\ ran.model # Wanted => Wanted \notin Creatable /\ (ran.failed \/ ran.where = "bundle")
           /\ ran.fallback = Here.fallback
           /\ layers.override # "" => ran.prompt = Here.prompt
           /\ \/ layers.instance.session = TRUE \/ switched \/ above("session")
              \/ ran.recall = Here.recall
           /\ \/ layers.memoryTools = "all" \/ switched \/ above("instructions")
              \/ ran.instructions = Here.instructions
           /\ SubagentsExcused \/ ran.subagents = SubagentsHere

\* The agents under Root, at any depth.
Under(paths) == {p[Len(p)] : p \in {p \in paths : Len(p) > 1}}

\* However agents list each other as subagents, both builders come to an end, and each agent
\* that Root reaches is built somewhere; where no agent has two parents and none is its own
\* ancestor, both build the same hierarchy.
HierarchyIsBuilt ==
    ran # Absent =>
        /\ \A p \in BuiltHere \union BuiltThere : Len(p) <= Cardinality(Agents) + 1
        /\ Under(BuiltHere) \ {Root} = Under(Paths) \ {Root}
        /\ Under(BuiltThere) \ {Root} = Under(Paths) \ {Root}
        /\ (\A a, b \in Agents, c \in Agents \ {Root} :
                c \in Children(a) \intersect Children(b) => a = b)
           /\ (\A a \in Agents : Root \notin Children(a)) => BuiltHere = BuiltThere
=============================================================================
