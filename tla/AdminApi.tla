------------------------------ MODULE AdminApi ------------------------------
(***************************************************************************)
(* What every request to the API passes, and the operators' own requests:  *)
(* the authentication middleware over the table of sessions (AuthService), *)
(* logout, and the update of the capability bindings of an agent, which    *)
(* AgentBindingStore reads, changes and writes back as one file.           *)
(*                                                                         *)
(* Each operation of AuthService is a transaction.  The middleware runs    *)
(* its one or two on the event loop, so that no other request is let in    *)
(* between them; the handlers run in threads and proceed meanwhile.        *)
(***************************************************************************)
EXTENDS Naturals, FiniteSets

CONSTANTS
  Requests,      \* requests of signed-in operators, each sent once
  Sessions,      \* the sessions that logins make
  Agents         \* the agents whose bindings are updated

VARIABLES
  session,      \* the row of each session
  over,         \* the sessions that a logout ended or whose time was up
  bindings,     \* the binding_version of each agent in the file; 0: none
  readable,     \* the file is JSON
  updates,      \* how often the bindings of each agent were written
  request,      \* where each request is
  overlaps      \* requests sent while another one was underway

authVars == <<session, over>>
fileVars == <<bindings, readable, updates>>
vars == <<authVars, fileVars, request, overlaps>>

None == "none"
RowStates == {"none", "valid", "expired"}
Kinds == {"read", "update", "logout"}
PCs == {"unsent", "authenticate", "csrf", "handle", "write", "answered", "refused"}

NoFile == [a \in Agents |-> 0]
AllBindings == IF readable THEN bindings ELSE NoFile

(* A request that is not underway. *)
Request(pc) == [pc |-> pc, kind |-> "read", session |-> None, agent |-> None,
                token |-> FALSE, late |-> FALSE, seen |-> NoFile]

Calls == [pc : PCs, kind : Kinds, session : Sessions \union {None},
          agent : Agents \union {None}, token : BOOLEAN, late : BOOLEAN,
          seen : [Agents -> Nat]]

At(r, pc) == request[r].pc = pc
Goto(r, pc) == request' = [request EXCEPT ![r].pc = pc]
Answer(r, pc) == request' = [request EXCEPT ![r] = Request(pc)]
Underway(r) == ~ At(r, "unsent") /\ ~ At(r, "answered") /\ ~ At(r, "refused")
SessionOf(r) == request[r].session
LoopIsFree == \A q \in Requests : ~ At(q, "csrf")

-----------------------------------------------------------------------------
(* login adds a row with a new token. *)
Login(s) ==
  /\ session[s] = "none" /\ s \notin over
  /\ session' = [session EXCEPT ![s] = "valid"]
  /\ UNCHANGED <<over, fileVars, request, overlaps>>

SessionExpires(s) ==
  /\ session[s] = "valid"
  /\ session' = [session EXCEPT ![s] = "expired"]
  /\ over' = over \union {s}
  /\ UNCHANGED <<fileVars, request, overlaps>>

(* A browser sends the session it has, ended or not, and the token that     *)
(* belongs to it or another one.  late: the session was over by then.       *)
Send(r, kind, s, a, token) ==
  /\ At(r, "unsent")
  /\ session[s] # "none" \/ s \in over
  /\ overlaps' = IF \E q \in Requests : Underway(q) THEN overlaps + 1 ELSE overlaps
  /\ request' = [request EXCEPT ![r] =
       [pc |-> "authenticate", kind |-> kind, session |-> s, agent |-> a,
        token |-> token, late |-> s \in over, seen |-> NoFile]]
  /\ UNCHANGED <<authVars, fileVars>>

(* An expired row is deleted on the way.  With a row the transaction may    *)
(* raise and leave it: under SQLite it always does, whose times come back   *)
(* without the zone of the time they are compared with.                     *)
Authenticate(r) ==
  LET s == SessionOf(r) IN
  /\ At(r, "authenticate") /\ LoopIsFree
  /\ \/ /\ session[s] = "valid"
        /\ Goto(r, IF request[r].kind = "read" THEN "handle" ELSE "csrf")
        /\ UNCHANGED session
     \/ /\ session[s] # "valid"
        /\ Answer(r, "refused")
        /\ session' = [session EXCEPT ![s] = "none"]
     \/ /\ session[s] # "none"
        /\ Answer(r, "refused")
        /\ UNCHANGED session
  /\ UNCHANGED <<over, fileVars, overlaps>>

ValidateCsrf(r) ==
  /\ At(r, "csrf")
  /\ IF session[SessionOf(r)] # "none" /\ request[r].token
       THEN Goto(r, "handle") ELSE Answer(r, "refused")
  /\ UNCHANGED <<authVars, fileVars, overlaps>>

-----------------------------------------------------------------------------
HandleRead(r) ==
  /\ At(r, "handle") /\ request[r].kind = "read"
  /\ Answer(r, "answered")
  /\ UNCHANGED <<authVars, fileVars, overlaps>>

(* Mutant: the row stays. *)
LogoutCookiesOnly(r) ==
  /\ At(r, "handle") /\ request[r].kind = "logout"
  /\ over' = over \union {SessionOf(r)}
  /\ Answer(r, "answered")
  /\ UNCHANGED <<session, fileVars, overlaps>>

HandleLogout(r) ==
  /\ At(r, "handle") /\ request[r].kind = "logout"
  /\ session' = [session EXCEPT ![SessionOf(r)] = "none"]
  /\ over' = over \union {SessionOf(r)}
  /\ Answer(r, "answered")
  /\ UNCHANGED <<fileVars, overlaps>>

(* The bindings of all agents are read, and none if the file cannot be read; *)
(* a reference that is not registered ends the request before.               *)
ReadBindings(r) ==
  /\ At(r, "handle") /\ request[r].kind = "update"
  /\ \/ request' = [request EXCEPT ![r].pc = "write", ![r].seen = AllBindings]
     \/ Answer(r, "refused")
  /\ UNCHANGED <<authVars, fileVars, overlaps>>

(* Mutant: the version is not raised. *)
WriteSameVersion(r) ==
  LET a == request[r].agent IN
  /\ At(r, "write")
  /\ bindings' = [request[r].seen EXCEPT ![a] = IF @ = 0 THEN 1 ELSE @]
  /\ readable' = TRUE
  /\ updates' = [updates EXCEPT ![a] = @ + 1]
  /\ Answer(r, "answered")
  /\ UNCHANGED <<authVars, overlaps>>

(* The text of a writer becomes the file. *)
Replaced(r) ==
  LET a == request[r].agent IN
  /\ bindings' = [request[r].seen EXCEPT ![a] = @ + 1]
  /\ readable' = TRUE
  /\ updates' = [updates EXCEPT ![a] = @ + 1]

WriteBindings(r) ==
  /\ At(r, "write")
  /\ Replaced(r)
  /\ Answer(r, "answered")
  /\ UNCHANGED <<authVars, overlaps>>

(* Two writers share the temporary file, and the second finds nothing to    *)
(* rename.                                                                  *)
Collide(q, r) ==
  /\ q # r /\ At(q, "write") /\ At(r, "write")
  /\ request' = [request EXCEPT ![q] = Request("answered"), ![r] = Request("refused")]
  /\ UNCHANGED <<authVars, overlaps>>

(* What replaces the file is empty or a mixture of their texts. *)
WritesMix(q, r) ==
  /\ Collide(q, r)
  /\ readable' = FALSE
  /\ UNCHANGED <<bindings, updates>>

(* What replaces it is the text of the one that wrote last, who may be the  *)
(* one that is refused.                                                     *)
WriteSurvives(q, r, w) ==
  /\ w \in {q, r}
  /\ Collide(q, r)
  /\ Replaced(w)

Init ==
  /\ session = [s \in Sessions |-> "none"] /\ over = {}
  /\ bindings = NoFile /\ readable = TRUE
  /\ updates = [a \in Agents |-> 0]
  /\ request = [r \in Requests |-> Request("unsent")]
  /\ overlaps = 0

Serve(r) ==
  \/ Authenticate(r) \/ ValidateCsrf(r)
  \/ HandleRead(r) \/ HandleLogout(r) \/ ReadBindings(r) \/ WriteBindings(r)

Next ==
  \/ \E s \in Sessions : Login(s) \/ SessionExpires(s)
  \/ \E r \in Requests :
       \/ Serve(r)
       \/ \E s \in Sessions, a \in Agents, kind \in Kinds, token \in BOOLEAN :
            Send(r, kind, s, a, token)
       \/ \E q \in Requests : WritesMix(q, r) \/ \E w \in {q, r} : WriteSurvives(q, r, w)

Spec == Init /\ [][Next]_vars

-----------------------------------------------------------------------------
TypeOK ==
  /\ session \in [Sessions -> RowStates] /\ over \subseteq Sessions
  /\ bindings \in [Agents -> Nat] /\ updates \in [Agents -> Nat]
  /\ readable \in BOOLEAN /\ overlaps \in Nat
  /\ request \in [Requests -> Calls]

(* A request sent after its session was over, by logout or by time, is never *)
(* handled, whatever requests of the session are still on their way.         *)
OverStaysOver ==
  \A r \in Requests : request[r].late => request[r].pc = "authenticate"

(* The binding version of an agent counts its updates while operators wait  *)
(* for each answer; when updates are lost, it never counts more than there  *)
(* were.                                                                    *)
VersionsCountUpdates ==
  \A a \in Agents :
    /\ readable => bindings[a] <= updates[a]
    /\ overlaps = 0 => readable /\ bindings[a] = updates[a]
=============================================================================
