----------------------------- MODULE MCServices -----------------------------
(***************************************************************************)
(* The services around the agents, each on its own: a behaviour is one of  *)
(* one part, and the variables of the other parts stay as they start.  The *)
(* parts have the same model values for ids, names and calls, so that one  *)
(* set of permutations serves them all.                                    *)
(***************************************************************************)
EXTENDS Accounts, AgentInstances, AgentMemory, AgentSettings, ConfigLayers, EmailSending,
        EventLoops, SnapshotReplay, UsagePricing, VectorStore, TLC

CONSTANTS Ids, Names, Users, m1, m2

VARIABLE part

\* An agent with memories of its own and one that shares all of them.
Scopes == (m1 :> "hybrid") @@ (m2 :> "shared")

\* Pages within a batch of two, across two and beyond the first.
AskedPages == {[offset |-> 0, limit |-> 2], [offset |-> 1, limit |-> 2],
               [offset |-> 2, limit |-> 1]}

\* The settings of the template, and those of a deployment that insists on verification.
Lenient == [defaultActive |-> TRUE, mailOnRegister |-> FALSE, requireActive |-> TRUE,
            requireVerified |-> FALSE, verifyActivates |-> TRUE]
Strict == [defaultActive |-> FALSE, mailOnRegister |-> TRUE, requireActive |-> FALSE,
           requireVerified |-> TRUE, verifyActivates |-> TRUE]
ChosenDeployments == {Lenient, Strict}

\* A tariff that has no price for reasoning and audio tokens; one that charges writes to the
\* cache on top of the input, reasoning and audio on top of the output, and knows the
\* provider's other name for reads; and one with the same prices and the audio tokens in the
\* core counts.
Tariff(reasoning, audio, separate, alias, tier) ==
    [price |-> [input |-> 4, output |-> 5, cache_read |-> 1, cache_write |-> 6,
                reasoning |-> reasoning, audio |-> audio],
     separate |-> separate, alias |-> alias, tier |-> tier]
ChosenPrices == {Tariff(-1, -1, {}, FALSE, 9),
                 Tariff(7, 3, {"cache_write", "reasoning", "audio"}, TRUE, 4),
                 Tariff(7, 3, {"cache_write", "reasoning"}, TRUE, 4)}
Tokens(fresh, read, write, reasoning, audioIn, audioOut, key) ==
    [fresh |-> fresh, cache_read |-> read, cache_write |-> write, audioIn |-> audioIn,
     plain |-> 1, reasoning |-> reasoning, audioOut |-> audioOut, key |-> key]
ChosenBreakdowns == {Tokens(2, 1, 1, 0, 0, 0, "cached"), Tokens(0, 2, 1, 2, 0, 1, "cache_read"),
                     Tokens(3, 0, 0, 2, 1, 1, "cache_read"), Tokens(2, 1, 0, 0, 0, 0, "none")}

\* Two texts that differ in case, one similar to them and one that is not.
Lower == [t \in {"a", "A", "b", "c"} |-> IF t = "A" THEN "a" ELSE t]
Alike == [t, u \in {"a", "b", "c"} |-> IF t = u THEN 2 ELSE IF "c" \in {t, u} THEN 0 ELSE 1]

\* Layers and lists of subagents: all models of the layers, all memory switches and prompts, all
\* subagents of an instance under all lists of Root, and all hierarchies.
NoLayer == [primary |-> Absent, fallback |-> Absent, session |-> Absent,
            instructions |-> Absent]
Plain == [yaml |-> [NoLayer EXCEPT !.primary = YamlModel, !.fallback = <<>>],
          memoryTools |-> "all", autoRecall |-> TRUE,
          admin |-> NoLayer, user |-> NoLayer, instance |-> NoLayer,
          override |-> Absent, append |-> Absent,
          subagents |-> [s \in SubInstances |-> Absent],
          others |-> [a \in Agents \ {Root} |-> Absent], list |-> Absent]
NoTree == [a \in Agents |-> <<>>]
ShortLists == {<<>>} \union {<<a>> : a \in Agents} \union {l \in Agents \X Agents : l[1] # l[2]}

ModelCases == {[Plain EXCEPT !.yaml.fallback = list, !.admin.primary = a, !.admin.fallback = b,
                             !.user.primary = c, !.instance.primary = d, !.instance.fallback = e] :
                 list \in {<<>>, <<YamlModel>>}, a \in Maybe(AgentModels), c \in Maybe(AgentModels),
                 d \in Maybe(AgentModels), b \in Maybe({<<>>}),
                 e \in Maybe({<<>>, <<YamlModel>>} \union (AgentModels \X AgentModels))}
MemoryCases == {[Plain EXCEPT !.yaml.session = a, !.yaml.instructions = b, !.memoryTools = tools,
                              !.autoRecall = recall, !.instance.session = c,
                              !.instance.instructions = d, !.override = o, !.append = p,
                              !.admin.session = e, !.user.instructions = f] :
                  a, b, c, d \in Maybe(BOOLEAN), tools \in {"all", "some", "none"},
                  recall \in BOOLEAN, o \in {Absent, "", "text"}, p \in {Absent, "text"},
                  e, f \in Maybe({FALSE})}
SubagentCases ==
    {[Plain EXCEPT !.subagents = f, !.others = g] :
       f \in [SubInstances -> Maybe([base : Agents \ {Root}, model : Maybe(AgentModels)])],
       g \in [Agents \ {Root} -> Maybe(Creatable)]}
    \union
    {[Plain EXCEPT !.subagents = f, !.user.primary = a, !.list = list] :
       f \in [SubInstances -> Maybe([base : {Root}, model : Maybe(AgentModels)])],
       a \in Maybe(AgentModels), list \in Maybe({<<>>})}
ChosenSettings ==
    [layers : ModelCases \union MemoryCases, tree : {NoTree}]
      \union [layers : SubagentCases,
              tree : {[NoTree EXCEPT ![Root] = list] : list \in ShortLists}]
      \union [layers : {Plain}, tree : [Agents -> ShortLists]]

Symmetry == Permutations(Ids) \union Permutations(Names) \union Permutations(Users)

Init ==
    /\ part \in {"accounts", "instances", "memory", "settings", "config", "email", "vector",
                "loops", "usage", "replay"}
    /\ AccountsInit /\ (part # "accounts" => deployment = Lenient)
    /\ InstancesInit /\ MemoryInit /\ ConfigInit /\ EmailInit /\ VectorInit /\ UsageInit
    /\ LoopsInit /\ (part # "loops" => kind = "api" /\ ~redis)
    /\ ReplayInit /\ (part # "replay" => mode = "exact")
    /\ IF part = "settings" THEN SettingsInit ELSE layers = Plain /\ tree = NoTree /\ ran = Absent

Next ==
    \/ /\ part = "accounts" /\ AccountsNext
       /\ UNCHANGED <<part, instanceVars, memoryVars, settingsVars, configVars, emailVars,
                      vectorVars, loopVars, usageVars, replayVars>>
    \/ /\ part = "instances" /\ InstancesNext
       /\ UNCHANGED <<part, accountVars, memoryVars, settingsVars, configVars, emailVars,
                      vectorVars, loopVars, usageVars, replayVars>>
    \/ /\ part = "memory" /\ MemoryNext
       /\ UNCHANGED <<part, accountVars, instanceVars, settingsVars, configVars, emailVars,
                      vectorVars, loopVars, usageVars, replayVars>>
    \/ /\ part = "settings" /\ SettingsNext
       /\ UNCHANGED <<part, accountVars, instanceVars, memoryVars, configVars, emailVars,
                      vectorVars, loopVars, usageVars, replayVars>>
    \/ /\ part = "config" /\ ConfigNext
       /\ UNCHANGED <<part, accountVars, instanceVars, memoryVars, settingsVars, emailVars,
                      vectorVars, loopVars, usageVars, replayVars>>
    \/ /\ part = "email" /\ EmailNext
       /\ UNCHANGED <<part, accountVars, instanceVars, memoryVars, settingsVars, configVars,
                      vectorVars, loopVars, usageVars, replayVars>>
    \/ /\ part = "vector" /\ VectorNext
       /\ UNCHANGED <<part, accountVars, instanceVars, memoryVars, settingsVars, configVars,
                      emailVars, loopVars, usageVars, replayVars>>
    \/ /\ part = "loops" /\ LoopsNext
       /\ UNCHANGED <<part, accountVars, instanceVars, memoryVars, settingsVars, configVars,
                      emailVars, vectorVars, usageVars, replayVars>>
    \/ /\ part = "usage" /\ UsageNext
       /\ UNCHANGED <<part, accountVars, instanceVars, memoryVars, settingsVars, configVars,
                      emailVars, vectorVars, loopVars, replayVars>>
    \/ /\ part = "replay" /\ ReplayNext
       /\ UNCHANGED <<part, accountVars, instanceVars, memoryVars, settingsVars, configVars,
                      emailVars, vectorVars, loopVars, usageVars>>

Spec == Init /\ [][Next]_<<part, accountVars, instanceVars, memoryVars, settingsVars,
                           configVars, emailVars, vectorVars, loopVars, usageVars, replayVars>>
=============================================================================
