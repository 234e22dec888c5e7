-------------------------- MODULE OperatorConsole --------------------------
(***************************************************************************)
(* The operator's view of the capabilities: a process loads the registry   *)
(* and builds its agents (Governance), then lets requests in (AdminApi).   *)
(* An update of the bindings of an agent is checked against the registry   *)
(* of the process that takes it and filed; the page of an agent looks up   *)
(* what is on file in the registry of the process that shows it.           *)
(***************************************************************************)
EXTENDS AdminApi, Governance

CONSTANTS
  Filings,        \* what operators file: references as tools, as servers
  ServedConfigs,  \* bound: the configurations requests are sent under
  MaxRestarts     \* bound on restarts

ASSUME ConsoleAssumption ==
  /\ Agents = AgentSet
  /\ Filings \subseteq [tools : SUBSET Refs, servers : SUBSET Refs]
  /\ ServedConfigs \subseteq Configs /\ MaxRestarts \in Nat

VARIABLES
  filed,     \* what the file says of each agent it has a version for
  drafts,    \* the text each update is about to write
  restarts

consoleVars == <<vars, registryVars, filed, drafts, restarts>>

Nothing == [tools |-> {}, servers |-> {}]
NothingFiled == [a \in Agents |-> Nothing]

(* The service is up, with or without runtime. *)
Up == phase \in {"ready", "unavailable"} /\ config \in ServedConfigs

(* The registry was accepted; its agents may not have been built. *)
RegistryAvailable == ValidReferences

(* Mutant: the references are taken as they come. *)
AcceptedUnseen(a, filing) == RegistryAvailable /\ Known(a)

(* Each reference is registered, under whichever kind. *)
Accepted(a, filing) ==
  /\ RegistryAvailable /\ Known(a)
  /\ filing.tools \union filing.servers \subseteq Registered

BeginUpdate(r, filing) ==
  /\ ReadBindings(r)
  /\ (request'[r].pc = "write") <=> Accepted(request[r].agent, filing)
  /\ drafts' = [drafts EXCEPT ![r] =
       IF Accepted(request[r].agent, filing)
         THEN [IF readable THEN filed ELSE NothingFiled EXCEPT ![request[r].agent] = filing]
         ELSE NothingFiled]
  /\ UNCHANGED filed

File(r) ==
  /\ WriteBindings(r)
  /\ filed' = drafts[r]
  /\ drafts' = [drafts EXCEPT ![r] = NothingFiled]

CollideFiling(q, r) ==
  /\ \/ WritesMix(q, r) /\ UNCHANGED filed
     \/ \E w \in {q, r} : WriteSurvives(q, r, w) /\ filed' = drafts[w]
  /\ drafts' = [drafts EXCEPT ![q] = NothingFiled, ![r] = NothingFiled]

(* What the console lists for an agent: the file before the profile. *)
Shown(a) ==
  LET profile == ToSet(config.profile[a]) IN
  IF AllBindings[a] # 0
    THEN filed[a]
    ELSE [tools |-> profile \ Servers, servers |-> profile \intersect Servers]

(* The page of the agent finds each reference among those of its kind; else *)
(* it raises.                                                               *)
Resolves(a) ==
  /\ Shown(a).tools \subseteq Registered \ Servers
  /\ Shown(a).servers \subseteq Registered \intersect Servers

(* A restart ends the requests on their way and loads the configuration as  *)
(* it is by then; sessions and bindings are on file.                        *)
Restart ==
  /\ Up /\ restarts < MaxRestarts
  /\ restarts' = restarts + 1
  /\ config' \in ServedConfigs
  /\ phase' = "loading" /\ todo' = {} /\ toolkits' = NoToolkits
  /\ ran' = {} /\ refused' = {}
  /\ request' = [r \in Requests |-> IF Underway(r) THEN Request("refused") ELSE request[r]]
  /\ drafts' = [r \in Requests |-> NothingFiled]
  /\ UNCHANGED <<authVars, fileVars, overlaps, filed>>

-----------------------------------------------------------------------------
ConsoleInit ==
  /\ Init /\ RegistryInit
  /\ filed = NothingFiled /\ drafts = [r \in Requests |-> NothingFiled]
  /\ restarts = 0

ConsoleRequest ==
  \/ /\ \/ \E s \in Sessions : Login(s) \/ SessionExpires(s)
        \/ \E r \in Requests :
             \/ Authenticate(r) \/ ValidateCsrf(r) \/ HandleRead(r) \/ HandleLogout(r)
             \/ \E s \in Sessions, a \in Agents, kind \in Kinds, token \in BOOLEAN :
                  Send(r, kind, s, a, token)
     /\ UNCHANGED <<filed, drafts>>
  \/ \E r \in Requests :
       \/ \E filing \in Filings : BeginUpdate(r, filing)
       \/ File(r)
       \/ \E q \in Requests : CollideFiling(q, r)

ConsoleNext ==
  \/ RegistryNext /\ UNCHANGED <<vars, filed, drafts, restarts>>
  \/ Up /\ ConsoleRequest /\ UNCHANGED <<registryVars, restarts>>
  \/ Restart

ConsoleSpec == ConsoleInit /\ [][ConsoleNext]_consoleVars

-----------------------------------------------------------------------------
Misfiled(filing) ==
  filing.tools \intersect Servers # {} \/ filing.servers \ Servers # {}

(* However updates race, are lost or leave a file that cannot be read, the  *)
(* page of an agent raises only where an update was accepted that files a   *)
(* reference under a kind it is not of, or after a restart with another     *)
(* registry.                                                                *)
PagesResolve ==
  Up /\ RegistryAvailable /\ restarts = 0 =>
    \A a \in Agents : Known(a) => Resolves(a) \/ Misfiled(filed[a])
=============================================================================
