----------------------------- MODULE Governance -----------------------------
(***************************************************************************)
(* What agents may use: CapabilityRegistry is loaded from a configuration  *)
(* and checked, AgnoRuntimeFactory binds the toolkits of every agent's     *)
(* profile, one authorization after the other, and from then on each call  *)
(* of a tool passes the authorization hook before the function runs.       *)
(*                                                                         *)
(* Nothing changes the registry after it was loaded.                       *)
(***************************************************************************)
EXTENDS Naturals, Sequences, FiniteSets, SequencesExt

CONSTANTS
  BuildOrder,    \* the agents the factory builds, in its order
  Refs,          \* references to tools and MCP servers
  Servers,       \* those to MCP servers
  Function,      \* the function_name of each tool
  SideEffect,    \* the side-effect class of each reference
  Toolkit,       \* the toolkit of each reference that has one
  Exposes,       \* the functions of each toolkit
  Configs        \* what the configuration may say

ASSUME GovernanceAssumption ==
  /\ Servers \subseteq Refs
  /\ DOMAIN Function = Refs \ Servers /\ DOMAIN SideEffect = Refs
  /\ Servers \subseteq DOMAIN Toolkit /\ DOMAIN Toolkit \subseteq Refs
  /\ BuildOrder \in Seq(ToSet(BuildOrder))
  /\ \A c \in Configs : /\ c.registered \in Seq(Refs)
                        /\ c.policies \in Seq(ToSet(c.policies))

VARIABLES
  config,     \* the configuration: registered references, profiles, policies
  phase,      \* how far the runtime is
  todo,       \* the places in the agents' profiles still to bind
  toolkits,   \* the toolkits each agent was given
  ran,        \* which agent ran which function
  refused     \* which agent was refused which function

runtime == <<phase, todo, toolkits>>
registryVars == <<config, runtime, ran, refused>>

AgentSet == ToSet(BuildOrder)
Phases == {"loading", "building", "ready", "unavailable"}
NoToolkits == [a \in AgentSet |-> {}]

-----------------------------------------------------------------------------
(* The registry. *)
Registered == ToSet(config.registered)

(* The configuration has the agent. *)
Known(a) == a \in DOMAIN config.profile

(* No reference twice, and none of an agent's to what is not there. *)
ValidReferences ==
  /\ IsInjective(config.registered)
  /\ \A a \in AgentSet : Known(a) => ToSet(config.profile[a]) \subseteq Registered

(* The tools that go by a function name. *)
ToolsOf(function) == {r \in Registered \ Servers : Function[r] = function}

-----------------------------------------------------------------------------
(* decide: policies carry sets for "*" as for names; here: the policy is of *)
(* this tenant and environment.                                             *)
Matches(policy, a, r, action) ==
  /\ a \in policy.subjects /\ r \in policy.resources /\ action \in policy.actions
  /\ SideEffect[r] \in policy.sideEffects
  /\ policy.here

(* Mutant: the first policy that matches decides. *)
AllowedByFirst(a, r, action) ==
  LET matches == {n \in DOMAIN config.policies : Matches(config.policies[n], a, r, action)}
  IN matches # {} /\ config.policies[Min(matches)].effect = "allow"

(* The first denial among the policies that match, or else the first of them *)
(* that allows.                                                              *)
Allowed(a, r, action) ==
  LET matches == {n \in DOMAIN config.policies : Matches(config.policies[n], a, r, action)}
      denials == {n \in matches : config.policies[n].effect = "deny"}
      grants == {n \in matches : config.policies[n].effect = "allow"}
      selected == IF denials # {} THEN denials ELSE grants
  IN selected # {} /\ config.policies[Min(selected)].effect = "allow"

-----------------------------------------------------------------------------
(* A place is an agent's number in the build order and a reference's number *)
(* in its profile; they are bound in that order.                            *)
Missing == {n \in DOMAIN BuildOrder : ~ Known(BuildOrder[n])}
Places ==
  UNION {{n} \X DOMAIN config.profile[BuildOrder[n]] : n \in DOMAIN BuildOrder \ Missing}
AgentAt(place) == BuildOrder[place[1]]
RefAt(place) == config.profile[AgentAt(place)][place[2]]
IsNext(place) ==
  \A other \in todo : \/ place[1] < other[1]
                      \/ place[1] = other[1] /\ place[2] <= other[2]

(* A configuration that is not accepted leaves the service without runtime. *)
Load ==
  /\ phase = "loading"
  /\ IF ValidReferences
       THEN phase' = "building" /\ todo' = Places
       ELSE phase' = "unavailable" /\ UNCHANGED todo
  /\ UNCHANGED <<config, toolkits, ran, refused>>

(* The exception of one reference leaves none of the agents. *)
Abandon ==
  /\ phase' = "unavailable"
  /\ todo' = {} /\ toolkits' = NoToolkits
  /\ UNCHANGED <<config, ran, refused>>

Give(place) ==
  /\ todo' = todo \ {place}
  /\ toolkits' = [toolkits EXCEPT ![AgentAt(place)] = @ \union {Toolkit[RefAt(place)]}]
  /\ UNCHANGED <<config, phase, ran, refused>>

Bindable(place) ==
  Allowed(AgentAt(place), RefAt(place), "bind") /\ RefAt(place) \in DOMAIN Toolkit

(* Mutant: a reference that is not allowed is passed over. *)
BindOrSkip ==
  /\ phase = "building"
  /\ \E place \in todo :
       /\ IsNext(place)
       /\ IF Bindable(place)
            THEN Give(place)
            ELSE todo' = todo \ {place} /\ UNCHANGED <<config, phase, toolkits, ran, refused>>

(* The toolkit of an MCP server may lack a credential. *)
Bind ==
  /\ phase = "building"
  /\ \E place \in todo :
       /\ IsNext(place)
       /\ \/ Bindable(place) /\ Give(place)
          \/ (Bindable(place) => RefAt(place) \in Servers) /\ Abandon

(* The agents before it are built. *)
AgentMissing ==
  /\ phase = "building"
  /\ \E n \in Missing : \A place \in todo : n < place[1]
  /\ Abandon

Built ==
  /\ phase = "building" /\ todo = {} /\ Missing = {}
  /\ phase' = "ready"
  /\ UNCHANGED <<config, todo, toolkits, ran, refused>>

-----------------------------------------------------------------------------
(* The hook finds the tool by the name of the function: a name that no tool *)
(* or more than one goes by is refused.                                     *)
Invocable(a, function) ==
  /\ Cardinality(ToolsOf(function)) = 1
  /\ \A r \in ToolsOf(function) : Allowed(a, r, "invoke")

CallTool(a, function) ==
  /\ phase = "ready"
  /\ \E k \in toolkits[a] : function \in Exposes[k]
  /\ IF Invocable(a, function)
       THEN ran' = ran \union {<<a, function>>} /\ UNCHANGED refused
       ELSE refused' = refused \union {<<a, function>>} /\ UNCHANGED ran
  /\ UNCHANGED <<config, runtime>>

RegistryInit ==
  /\ config \in Configs
  /\ phase = "loading" /\ todo = {} /\ toolkits = NoToolkits
  /\ ran = {} /\ refused = {}

Functions == UNION {Exposes[k] : k \in DOMAIN Exposes}

RegistryNext ==
  \/ Load \/ Bind \/ AgentMissing \/ Built
  \/ \E a \in AgentSet, function \in Functions : CallTool(a, function)

RegistrySpec == RegistryInit /\ [][RegistryNext]_registryVars

-----------------------------------------------------------------------------
(* What the policies say, in whatever order they are listed. *)
Granted(a, r, action) ==
  LET matching == {p \in ToSet(config.policies) : Matches(p, a, r, action)} IN
  /\ \E p \in matching : p.effect = "allow"
  /\ \A p \in matching : p.effect # "deny"

(* An agent runs a function only as the one registered tool of that name,   *)
(* under a policy that allows it and none that denies it, wherever the      *)
(* policies stand in the file and whichever toolkit brought the function;   *)
(* and only what is not so granted is refused.                              *)
RunsAreGranted ==
  LET granted == {call \in AgentSet \X Functions :
                    \E r \in ToolsOf(call[2]) : ToolsOf(call[2]) = {r} /\ Granted(call[1], r, "invoke")}
  IN ran \subseteq granted /\ refused \intersect granted = {}

(* Agents come into being together and whole: when the runtime is ready,    *)
(* each has the toolkits of its profile and no other, every one of them     *)
(* under a grant; when it is not available, no agent has any.               *)
AgentsAreWhole ==
  /\ phase = "ready" =>
       \A a \in AgentSet :
         LET profile == ToSet(config.profile[a]) IN
         /\ toolkits[a] = {Toolkit[r] : r \in profile}
         /\ \A r \in profile : r \in Registered /\ Granted(a, r, "bind")
  /\ phase = "unavailable" => toolkits = NoToolkits
=============================================================================
