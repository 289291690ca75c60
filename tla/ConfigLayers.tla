---------------------------- MODULE ConfigLayers ----------------------------
(***************************************************************************)
(* What LLMConfigService makes of its layers: the YAML configuration, the  *)
(* admin's rows in llm_config_overrides and a user's preferences, which    *)
(* the allowlist restricts.  ConfigCache has the cache in front of it; the *)
(* agents' settings are in AgentSettings.  Rows are read without an order  *)
(* but the one the query names, so an answer is a set of possible ones.    *)
(***************************************************************************)
EXTENDS Naturals, FiniteSets

CONSTANTS
    ConfigModels,  \* models of the YAML configuration
    Overrides,     \* ids of rows of llm_config_overrides
    MaxPrefs,      \* bound: preferences of the user
    Unset          \* no row, no value

VARIABLES
    override,      \* the admin's rows, or Unset
    allowed,       \* keys on the allowlist
    pref           \* the user's preferences: a value for some keys

configVars == <<override, allowed, pref>>

Params == {"temperature", "max_tokens"}

\* What an override is for: scope, scope_key (Unset for the global ones) and config_key.
ModelKeys == {"models", "disabled_models"}
Slots == [scope : {"global"}, target : {Unset}, key : Params \union ModelKeys]
           \union [scope : {"model"}, target : ConfigModels, key : Params]

\* Values of parameters: 0 is the one in the YAML configuration, 1 and 2 an admin may set,
\* a user 3 for all models and 4 for one; the constraints of the allowlist refuse 5.
\* models and disabled_models name one model each.
AdminValues(slot) == IF slot.key \in ModelKeys THEN ConfigModels ELSE {1, 2}
OverrideRow == {r \in [slot : Slots, value : {1, 2} \union ConfigModels,
                       priority : {0, 1}, active : BOOLEAN] :
                  r.value \in AdminValues(r.slot)}

ASSUME ConfigLayersAssumption ==
    Unset \notin ConfigModels \union OverrideRow /\ IsFiniteSet(Overrides)

\* preference_key with its type: of model_params, for all models (Unset) or for one; and
\* the default model.
PrefKeys == [of : ConfigModels \union {Unset}, key : Params]
              \union {[of |-> Unset, key |-> "default_model"]}
PrefValues(k) == IF k.key = "default_model" THEN ConfigModels
                 ELSE IF k.of = Unset THEN {3, 5} ELSE {4, 5}

ConfigTypeOK ==
    /\ override \in [Overrides -> OverrideRow \union {Unset}]
    /\ allowed \subseteq Params \union {"default_model"}
    /\ pref \in [PrefKeys -> ConfigModels \union {3, 4, Unset}]

ConfigInit ==
    /\ override = [o \in Overrides |-> Unset]
    /\ allowed = {}
    /\ pref = [k \in PrefKeys |-> Unset]

Rows == {o \in Overrides : override[o] # Unset}
Prefs == {k \in PrefKeys : pref[k] # Unset}

-----------------------------------------------------------------------------
(* Overrides.                                                              *)

\* uq_llm_config_override_scope_key, which does not compare rows without a scope_key.
FreeSlot(slot) == slot.target = Unset \/ \A o \in Rows : override[o].slot # slot

CreateOverride(o) ==
    /\ o \notin Rows
    /\ \E slot \in Slots, priority \in {0, 1} : \E value \in AdminValues(slot) :
          /\ FreeSlot(slot)
          /\ override' = [override EXCEPT ![o] = [slot |-> slot, value |-> value,
                                                  priority |-> priority, active |-> TRUE]]
    /\ UNCHANGED <<allowed, pref>>

\* A change of what is given, or the row expires.
UpdateOverride(o) ==
    /\ o \in Rows
    /\ \E value \in AdminValues(override[o].slot), priority \in {0, 1}, active \in BOOLEAN :
          override' = [override EXCEPT ![o].value = value, ![o].priority = priority,
                                       ![o].active = active]
    /\ UNCHANGED <<allowed, pref>>

DeleteOverride(o) ==
    /\ o \in Rows
    /\ override' = [override EXCEPT ![o] = Unset]
    /\ UNCHANGED <<allowed, pref>>

-----------------------------------------------------------------------------
(* Preferences.                                                            *)

AllowOverride(key) ==
    /\ key \notin allowed
    /\ allowed' = allowed \union {key}
    /\ UNCHANGED <<override, pref>>

\* _validate_user_preference, for the last part of the preference's key.
Valid(k, value) == k.key \in allowed /\ value # 5

\* create_user_preference, which bulk_update_preferences calls for each preference it is
\* given, committing those before and after one that is refused.
SetPreference(k) ==
    /\ k \in Prefs \/ Cardinality(Prefs) < MaxPrefs
    /\ \E value \in PrefValues(k) : Valid(k, value) /\ pref' = [pref EXCEPT ![k] = value]
    /\ UNCHANGED <<override, allowed>>

DeletePreference(k) ==
    /\ k \in Prefs
    /\ pref' = [pref EXCEPT ![k] = Unset]
    /\ UNCHANGED <<override, allowed>>

-----------------------------------------------------------------------------
(* The answers.                                                            *)

\* The rows in force for a slot; _load_admin_overrides_dict reads them by descending
\* priority and keeps the last.
InForce(slot) == {o \in Rows : override[o].slot = slot /\ override[o].active}
Kept(slot) == {override[o].value : o \in {o \in InForce(slot) :
                 \A p \in InForce(slot) : override[o].priority <= override[p].priority}}

Slot(scope, target, key) == [scope |-> scope, target |-> target, key |-> key]
Pref(m, p) == pref[[of |-> m, key |-> p]]

\* The possible values of a setting: those given, if any, or else the ones below.
Over(given, below) == IF given = {} THEN below ELSE given
Given(value) == {value} \ {Unset}

\* Mutant of EffectiveParam: the preference for all models replaces the one for this.
EffectiveParamGeneric(m, p) ==
    LET own == IF p = "temperature" THEN Given(Pref(m, p)) ELSE {}
    IN Over(Given(Pref(Unset, p)), Over(own, Over(Kept(Slot("model", m, p)), {0})))

\* get_effective_model_params: of the preferences for one model only the temperature is
\* applied, but each keeps the preference for all models off.
EffectiveParam(m, p) ==
    LET own == IF p = "temperature" THEN Given(Pref(m, p)) ELSE {}
        all == IF Pref(m, p) = Unset THEN Given(Pref(Unset, p)) ELSE {}
    IN Over(all, Over(own, Over(Kept(Slot("model", m, p)), {0})))

\* get_resolved_config: the models on offer, where those that are named keep the disabled ones
\* from being looked at; the default model; and the default parameters, where the preferences
\* for all models and for any are not told apart.
AvailableModels ==
    LET named == Kept(Slot("global", Unset, "models"))
        disabled == Kept(Slot("global", Unset, "disabled_models"))
    IN IF named # {} THEN {{m} : m \in named}
       ELSE {ConfigModels \ {m} : m \in Over(disabled, {Unset})}
DefaultModel == {IF Pref(Unset, "default_model") \in models THEN Pref(Unset, "default_model")
                 ELSE Unset : models \in AvailableModels}
DefaultParam(p) ==
    Over({pref[k] : k \in {k \in Prefs : k.key = p}}, Over(Kept(Slot("global", Unset, p)), {0}))

ConfigNext ==
    \/ \E o \in Overrides : CreateOverride(o) \/ UpdateOverride(o) \/ DeleteOverride(o)
    \/ \E key \in Params \union {"default_model"} : AllowOverride(key)
    \/ \E k \in PrefKeys : SetPreference(k) \/ DeletePreference(k)

ConfigSpec == ConfigInit /\ [][ConfigNext]_configVars

-----------------------------------------------------------------------------
(* Properties.                                                             *)

\* What counts for a parameter of a model: the user's choice for the model, the user's
\* choice, the admin's row of the highest priority, the YAML configuration.
Highest(slot) == {override[o].value : o \in {o \in InForce(slot) :
                    \A p \in InForce(slot) : override[o].priority >= override[p].priority}}
Counts(m, p) == Over(Given(Pref(m, p)), Over(Given(Pref(Unset, p)),
                  Over(Highest(Slot("model", m, p)), {0})))

\* Later layers win and in a layer the more specific choice, and the answer is the same in
\* whatever order the rows are read: for the parameters of a model unless the user has set
\* another parameter than the temperature for that model alone (get_effective_model_params
\* ignores it); for the defaults unless two preferences name the same parameter or two
\* global rows, which no constraint prevents, have the same key.  Nobody's default model is one
\* that the admin has not named, where models are named, or, where none are, one that the admin
\* has disabled: a row for models puts the one for disabled models out of force.
LayersAreHonoured ==
    /\ \A m \in ConfigModels, p \in Params :
          p = "temperature" \/ Pref(m, p) = Unset => EffectiveParam(m, p) = Counts(m, p)
    /\ \A p \in Params :
          \/ Cardinality({k \in Prefs : k.key = p}) > 1
          \/ Cardinality(InForce(Slot("global", Unset, p))) > 1
          \/ DefaultParam(p) = Over({pref[k] : k \in {k \in Prefs : k.key = p}},
                                    Over(Highest(Slot("global", Unset, p)), {0}))
    /\ LET naming == InForce(Slot("global", Unset, "models"))
           disabling == InForce(Slot("global", Unset, "disabled_models"))
       IN /\ \A o \in naming :
                Cardinality(naming) > 1 \/ DefaultModel \subseteq {override[o].value, Unset}
          /\ naming = {} => \A o \in disabling :
                Cardinality(disabling) > 1 \/ override[o].value \notin DefaultModel
=============================================================================
