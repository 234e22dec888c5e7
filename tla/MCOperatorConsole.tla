-------------------------- MODULE MCOperatorConsole --------------------------
(* Two agents over four references: search and browser share the research   *)
(* toolkit, as in the default bindings; draft is a tool nobody bound, with  *)
(* the function name of browser; crawler is an MCP server whose toolkit     *)
(* exposes a function no tool is registered for, and the one of search.     *)
(* Requests and sessions are interchangeable.                               *)
EXTENDS OperatorConsole

CONSTANTS writer, scout, search, browser, draft, crawler

Symmetry == Permutations(Requests) \union Permutations(Sessions)

MCBuildOrder == <<scout, writer>>
MCRefs == {search, browser, draft, crawler}
MCServers == {crawler}
MCFunction == [r \in MCRefs \ MCServers |-> IF r = search THEN "search_web" ELSE "extract_web_page"]
MCSideEffect == [r \in MCRefs |-> IF r = draft THEN "local_write" ELSE "read_only"]
MCToolkit == [r \in {search, browser, crawler} |-> IF r = crawler THEN "crawler" ELSE "research"]
MCExposes == [k \in {"research", "crawler"} |->
                IF k = "research" THEN {"search_web", "extract_web_page"}
                                  ELSE {"search_web", "crawl"}]

Policy(effect, subjects, resources, actions, here) ==
  [effect |-> effect, subjects |-> subjects, resources |-> resources, actions |-> actions,
   sideEffects |-> {"read_only"}, here |-> here]

MCPolicies ==
  {Policy("allow", {scout, writer}, MCRefs, {"bind", "invoke"}, TRUE),
   Policy("allow", {scout}, {search, crawler}, {"bind", "invoke"}, TRUE),
   Policy("allow", {writer}, MCRefs, {"bind", "invoke"}, FALSE),
   Policy("deny", {writer}, {browser, draft}, {"invoke"}, TRUE),
   Policy("deny", {scout}, {crawler}, {"bind"}, TRUE)}

MCProfiles ==
  {f \in [{scout, writer} -> {<<>>, <<search>>, <<draft>>, <<search, browser>>, <<search, crawler>>}] :
     f[writer] \in {<<>>, <<search>>, <<draft>>} /\ f[scout] \notin {<<>>, <<draft>>}}
  \union [{scout} -> {<<search>>}]

MCRegistered ==
  {<<search, browser, crawler>>, <<search, browser, draft, crawler>>, <<search, search, crawler>>}

MCConfigs ==
  {[registered |-> refs, policies |-> policies, profile |-> profile] :
     refs \in MCRegistered,
     policies \in SeqOf(MCPolicies, 2),
     profile \in MCProfiles}

(* What requests are sent under: each registry with one grant of all. *)
MCServedConfigs ==
  {[registered |-> refs, policies |-> <<Policy("allow", {scout, writer}, MCRefs, {"bind", "invoke"}, TRUE)>>,
    profile |-> [a \in {scout, writer} |-> IF a = scout THEN <<search>> ELSE <<>>]] :
     refs \in MCRegistered}

(* One that may not be registered, and one filed under the wrong kind. *)
MCFilings ==
  {[tools |-> {draft}, servers |-> {crawler}], [tools |-> {crawler}, servers |-> {}]}
=============================================================================
