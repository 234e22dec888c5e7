------------------------ MODULE OperatorConsoleProofs ------------------------
(***************************************************************************)
(* Theorems of OperatorConsole, for any number of requests, sessions and   *)
(* agents and any configurations: what the API lets through, what agents   *)
(* are built and run, and what the pages look up.                          *)
(***************************************************************************)
EXTENDS OperatorConsole, FiniteSetTheorems, WellFoundedInduction, TLAPS

(* A request that is on its way names a session and an agent. *)
Named ==
  \A r \in Requests : Underway(r) => SessionOf(r) \in Sessions /\ request[r].agent \in Agents

TypeInv == TypeOK /\ Named

USE DEF Underway, At, SessionOf

(* Before the first request the state is well typed.                        *)
LEMMA TypeInit == Init => TypeInv
<1> SUFFICES ASSUME Init PROVE TypeInv
  OBVIOUS
<1>1. Request("unsent") \in Calls /\ Request("unsent").pc = "unsent"
  BY DEF Request, Calls, PCs, Kinds, NoFile, None
<1>2. request \in [Requests -> Calls] /\ Named
  BY <1>1 DEF Init, Named
<1> QED
  BY <1>2 DEF Init, TypeInv, TypeOK, RowStates, NoFile

(* A request keeps its type when it moves on, and when it is answered. *)
LEMMA GoesOn ==
  ASSUME TypeInv, NEW r \in Requests, NEW pc \in PCs, Underway(r), Goto(r, pc)
  PROVE  request' \in [Requests -> Calls] /\ Named'
<1>1. [request[r] EXCEPT !.pc = pc] \in Calls
  BY DEF TypeInv, TypeOK, Calls
<1>2. request' = [request EXCEPT ![r] = [request[r] EXCEPT !.pc = pc]]
  BY DEF Goto
<1>3. request' \in [Requests -> Calls]
  BY <1>1, <1>2 DEF TypeInv, TypeOK
<1>4. \A q \in Requests : request'[q].session = request[q].session
                            /\ request'[q].agent = request[q].agent
  BY <1>2 DEF TypeInv, TypeOK, Calls
<1> QED
  BY <1>2, <1>3, <1>4 DEF TypeInv, TypeOK, Named

(* The same for a request that is answered.                                 *)
LEMMA Answers ==
  ASSUME TypeInv, NEW r \in Requests, NEW pc \in {"answered", "refused"}, Answer(r, pc)
  PROVE  request' \in [Requests -> Calls] /\ Named'
<1>1. Request(pc) \in Calls /\ Request(pc).pc = pc
  BY DEF Request, Calls, PCs, Kinds, NoFile, None
<1> QED
  BY <1>1 DEF Answer, TypeInv, TypeOK, Named

(* Every step of the API keeps the types.                                   *)
LEMMA TypeStep == TypeInv /\ [Next]_vars => TypeInv'
<1> SUFFICES ASSUME TypeInv, [Next]_vars PROVE TypeInv'
  OBVIOUS
<1>1. ASSUME NEW s \in Sessions, Login(s) \/ SessionExpires(s) PROVE TypeInv'
  BY <1>1 DEF Login, SessionExpires, fileVars, TypeInv, TypeOK, Named, RowStates
<1>2. ASSUME NEW r \in Requests, NEW s \in Sessions, NEW a \in Agents,
             NEW kind \in Kinds, NEW token \in BOOLEAN, Send(r, kind, s, a, token)
      PROVE  TypeInv'
  <2> DEFINE c == [pc |-> "authenticate", kind |-> kind, session |-> s, agent |-> a,
                   token |-> token, late |-> s \in over, seen |-> NoFile]
  <2>1. c \in Calls /\ c.session \in Sessions /\ c.agent \in Agents
    BY DEF Calls, PCs, NoFile
  <2>2. request' = [request EXCEPT ![r] = c]
    BY <1>2 DEF Send
  <2>3. request' \in [Requests -> Calls] /\ Named'
    BY <2>1, <2>2 DEF TypeInv, TypeOK, Named
  <2> QED
    BY <1>2, <2>3 DEF Send, authVars, fileVars, TypeInv, TypeOK
<1>3. ASSUME NEW r \in Requests, Authenticate(r) PROVE TypeInv'
  <2>1. request' \in [Requests -> Calls] /\ Named'
    BY <1>3, GoesOn, Answers DEF Authenticate, PCs
  <2> QED
    BY <1>3, <2>1 DEF Authenticate, fileVars, TypeInv, TypeOK, RowStates
<1>4. ASSUME NEW r \in Requests, ValidateCsrf(r) PROVE TypeInv'
  <2>1. request' \in [Requests -> Calls] /\ Named'
    BY <1>4, GoesOn, Answers DEF ValidateCsrf, PCs
  <2> QED
    BY <1>4, <2>1 DEF ValidateCsrf, authVars, fileVars, TypeInv, TypeOK
<1>5. ASSUME NEW r \in Requests, HandleRead(r) PROVE TypeInv'
  <2>1. request' \in [Requests -> Calls] /\ Named'
    BY <1>5, Answers DEF HandleRead
  <2> QED
    BY <1>5, <2>1 DEF HandleRead, authVars, fileVars, TypeInv, TypeOK
<1>6. ASSUME NEW r \in Requests, HandleLogout(r) PROVE TypeInv'
  <2>1. request' \in [Requests -> Calls] /\ Named'
    BY <1>6, Answers DEF HandleLogout
  <2>2. SessionOf(r) \in Sessions
    BY <1>6 DEF HandleLogout, TypeInv, Named
  <2> QED
    BY <1>6, <2>1, <2>2 DEF HandleLogout, fileVars, TypeInv, TypeOK, RowStates
<1>7. ASSUME NEW r \in Requests, ReadBindings(r) PROVE TypeInv'
  <2>1. AllBindings \in [Agents -> Nat]
    BY DEF AllBindings, NoFile, TypeInv, TypeOK
  <2>2. ASSUME request' = [request EXCEPT ![r].pc = "write", ![r].seen = AllBindings]
        PROVE  request' \in [Requests -> Calls] /\ Named'
    <3>1. [request[r] EXCEPT !.pc = "write", !.seen = AllBindings] \in Calls
      BY <2>1 DEF TypeInv, TypeOK, Calls, PCs
    <3>2. request' = [request EXCEPT ![r] =
                        [request[r] EXCEPT !.pc = "write", !.seen = AllBindings]]
      BY <2>2 DEF TypeInv, TypeOK
    <3>3. request' \in [Requests -> Calls]
      BY <3>1, <3>2 DEF TypeInv, TypeOK
    <3>4. \A q \in Requests : request'[q].session = request[q].session
                                /\ request'[q].agent = request[q].agent
      BY <3>2 DEF TypeInv, TypeOK, Calls
    <3>5. \A q \in Requests : q # r => request'[q] = request[q]
      BY <3>2 DEF TypeInv, TypeOK
    <3>6. Underway(r)
      BY <1>7 DEF ReadBindings
    <3> QED
      BY <3>3, <3>4, <3>5, <3>6 DEF TypeInv, Named
  <2>3. request' \in [Requests -> Calls] /\ Named'
    BY <1>7, <2>2, Answers DEF ReadBindings
  <2> QED
    BY <1>7, <2>3 DEF ReadBindings, authVars, fileVars, TypeInv, TypeOK
<1>8. ASSUME NEW r \in Requests, WriteBindings(r) PROVE TypeInv'
  <2>1. request' \in [Requests -> Calls] /\ Named'
    BY <1>8, Answers DEF WriteBindings
  <2>2. request[r].agent \in Agents /\ request[r].seen \in [Agents -> Nat]
    BY <1>8 DEF WriteBindings, TypeInv, TypeOK, Named, Calls
  <2> QED
    BY <1>8, <2>1, <2>2 DEF WriteBindings, Replaced, authVars, TypeInv, TypeOK
<1>9. ASSUME NEW q \in Requests, NEW r \in Requests,
             WritesMix(q, r) \/ \E w \in {q, r} : WriteSurvives(q, r, w)
      PROVE  TypeInv'
  <2>1. \A pc \in {"answered", "refused"} : Request(pc) \in Calls /\ Request(pc).pc = pc
    BY DEF Request, Calls, PCs, Kinds, NoFile, None
  <2>2. Collide(q, r)
    BY <1>9 DEF WritesMix, WriteSurvives
  <2>3. request' \in [Requests -> Calls] /\ Named'
    BY <2>1, <2>2 DEF Collide, TypeInv, TypeOK, Named
  <2>4. \A w \in {q, r} : request[w].agent \in Agents /\ request[w].seen \in [Agents -> Nat]
    BY <2>2 DEF Collide, TypeInv, TypeOK, Named, Calls
  <2>5. ASSUME NEW w \in {q, r}, Replaced(w)
        PROVE  bindings' \in [Agents -> Nat] /\ updates' \in [Agents -> Nat]
               /\ readable' \in BOOLEAN
    <3>1. request[w].agent \in Agents /\ request[w].seen \in [Agents -> Nat]
      BY <2>4
    <3> QED
      BY <2>5, <3>1 DEF Replaced, TypeInv, TypeOK
  <2>6. bindings' \in [Agents -> Nat] /\ updates' \in [Agents -> Nat] /\ readable' \in BOOLEAN
    BY <1>9, <2>5 DEF WritesMix, WriteSurvives, TypeInv, TypeOK
  <2> QED
    BY <2>2, <2>3, <2>6 DEF Collide, authVars, TypeInv, TypeOK
<1>10. CASE UNCHANGED vars
  BY <1>10 DEF vars, authVars, fileVars, TypeInv, TypeOK, Named
<1> QED
  BY <1>1, <1>2, <1>3, <1>4, <1>5, <1>6, <1>7, <1>8, <1>9, <1>10 DEF Next, Serve

(* A session that is over has no valid row, and a request sent afterwards   *)
(* is still to be authenticated, under that session.                        *)
OverInv ==
  /\ \A s \in over : session[s] # "valid"
  /\ \A r \in Requests :
       request[r].late => At(r, "authenticate") /\ SessionOf(r) \in over

(* No session is over at first.                                             *)
LEMMA OverInit == Init => OverInv
  BY DEF Init, OverInv, Request

(* Every step of the API keeps ended sessions out.                          *)
LEMMA OverStep == TypeInv /\ OverInv /\ [Next]_vars => OverInv'
<1> SUFFICES ASSUME TypeInv, OverInv, [Next]_vars PROVE OverInv'
  OBVIOUS
<1>1. \A pc \in PCs : Request(pc).late = FALSE
  BY DEF Request
<1>2. ASSUME NEW s \in Sessions, Login(s) \/ SessionExpires(s) PROVE OverInv'
  BY <1>2 DEF Login, SessionExpires, OverInv, TypeInv, TypeOK
<1>3. ASSUME NEW r \in Requests, NEW s \in Sessions, NEW a \in Agents,
             NEW kind \in Kinds, NEW token \in BOOLEAN, Send(r, kind, s, a, token)
      PROVE  OverInv'
  BY <1>3 DEF Send, authVars, OverInv, TypeInv, TypeOK
<1>4. ASSUME NEW r \in Requests, Authenticate(r) PROVE OverInv'
  <2>1. SessionOf(r) \in Sessions
    BY <1>4 DEF Authenticate, TypeInv, Named
  <2>2. CASE session[SessionOf(r)] = "valid"
    <3>1. CASE Answer(r, "refused")
      BY <1>1, <1>4, <2>2, <3>1 DEF Authenticate, Answer, OverInv, TypeInv, TypeOK, PCs
    <3>2. CASE Goto(r, IF request[r].kind = "read" THEN "handle" ELSE "csrf")
      BY <1>4, <2>2, <3>2 DEF Authenticate, Goto, OverInv, TypeInv, TypeOK, Calls
    <3> QED
      BY <1>4, <2>2, <3>1, <3>2 DEF Authenticate
  <2>3. CASE session[SessionOf(r)] # "valid"
    BY <1>1, <1>4, <2>1, <2>3 DEF Authenticate, Answer, OverInv, TypeInv, TypeOK, PCs
  <2> QED
    BY <2>2, <2>3
<1>5. ASSUME NEW r \in Requests,
             ValidateCsrf(r) \/ HandleRead(r) \/ ReadBindings(r) \/ WriteBindings(r)
      PROVE  OverInv'
  <2>1. /\ request[r].late = FALSE
        /\ UNCHANGED authVars
        /\ \E c : c.late = FALSE /\ request' = [request EXCEPT ![r] = c]
    <3>1. request[r].late = FALSE
      BY <1>5 DEF ValidateCsrf, HandleRead, ReadBindings, WriteBindings, OverInv, TypeInv, TypeOK, Calls
    <3>2. UNCHANGED authVars
      BY <1>5 DEF ValidateCsrf, HandleRead, ReadBindings, WriteBindings
    <3>3. ASSUME NEW pc \in PCs, Goto(r, pc) \/ Answer(r, pc)
          PROVE  \E c : c.late = FALSE /\ request' = [request EXCEPT ![r] = c]
      <4>1. [request[r] EXCEPT !.pc = pc].late = FALSE
        BY <3>1 DEF TypeInv, TypeOK, Calls
      <4> QED
        BY <1>1, <3>3, <4>1 DEF Goto, Answer
    <3>4. [request[r] EXCEPT !.pc = "write", !.seen = AllBindings].late = FALSE
      BY <3>1 DEF TypeInv, TypeOK, Calls
    <3>5. ASSUME request' = [request EXCEPT ![r].pc = "write", ![r].seen = AllBindings]
          PROVE  \E c : c.late = FALSE /\ request' = [request EXCEPT ![r] = c]
      <4>1. request' = [request EXCEPT ![r] =
                         [request[r] EXCEPT !.pc = "write", !.seen = AllBindings]]
        BY <3>5 DEF TypeInv, TypeOK
      <4> QED
        BY <3>4, <4>1
    <3>6. \E c : c.late = FALSE /\ request' = [request EXCEPT ![r] = c]
      BY <1>5, <3>3, <3>5 DEF ValidateCsrf, HandleRead, ReadBindings, WriteBindings, PCs
    <3> QED
      BY <3>1, <3>2, <3>6
  <2>2. PICK c : c.late = FALSE /\ request' = [request EXCEPT ![r] = c]
    BY <2>1
  <2>3. \A q \in Requests : request'[q] = IF q = r THEN c ELSE request[q]
    BY <2>2 DEF TypeInv, TypeOK
  <2> QED
    BY <2>1, <2>2, <2>3 DEF authVars, OverInv
<1>6. ASSUME NEW r \in Requests, HandleLogout(r) PROVE OverInv'
  <2>1. SessionOf(r) \in Sessions
    BY <1>6 DEF HandleLogout, TypeInv, Named
  <2>2. \A s \in over' : session'[s] # "valid"
    BY <1>6, <2>1 DEF HandleLogout, OverInv, TypeInv, TypeOK
  <2> QED
    BY <1>1, <1>6, <2>2 DEF HandleLogout, Answer, OverInv, TypeInv, TypeOK, PCs
<1>7. ASSUME NEW q \in Requests, NEW r \in Requests,
             WritesMix(q, r) \/ \E w \in {q, r} : WriteSurvives(q, r, w)
      PROVE  OverInv'
  <2>1. Collide(q, r)
    BY <1>7 DEF WritesMix, WriteSurvives
  <2> QED
    BY <1>1, <2>1 DEF Collide, authVars, OverInv, TypeInv, TypeOK, PCs
<1>8. CASE UNCHANGED vars
  BY <1>8 DEF vars, authVars, OverInv
<1> QED
  BY <1>2, <1>3, <1>4, <1>5, <1>6, <1>7, <1>8 DEF Next, Serve

(* What a writer read never counts more updates than were written, and is   *)
(* what the file says if requests came one at a time.                       *)
CountInv ==
  /\ \A a \in Agents : readable => bindings[a] <= updates[a]
  /\ \A r \in Requests, a \in Agents :
       At(r, "write") => request[r].seen[a] <= updates[a]
  /\ overlaps = 0 =>
       /\ readable /\ bindings = updates
       /\ \A r \in Requests : At(r, "write") => request[r].seen = bindings
       /\ \A q, r \in Requests : Underway(q) /\ Underway(r) => q = r

(* Nothing was written at first.                                            *)
LEMMA CountInit == Init => CountInv
  BY DEF Init, CountInv, Request, NoFile

(* Steps that leave the file alone and bring no request to its write. *)
LEMMA CountKept ==
  ASSUME TypeInv, CountInv, UNCHANGED <<fileVars, overlaps>>,
         \A r \in Requests : /\ Underway(r)' => Underway(r)
                             /\ At(r, "write")' => request'[r] = request[r]
  PROVE  CountInv'
  BY DEF CountInv, fileVars

(* The text that becomes the file counts one update more, for its agent.    *)
LEMMA CountReplaced ==
  ASSUME TypeInv, CountInv, NEW r \in Requests, At(r, "write"), Replaced(r)
  PROVE  /\ \A b \in Agents : bindings'[b] <= updates'[b]
         /\ \A q \in Requests, b \in Agents :
              At(q, "write") => request[q].seen[b] <= updates'[b]
<1> DEFINE a == request[r].agent
<1>1. a \in Agents /\ request[r].seen \in [Agents -> Nat]
  BY DEF TypeInv, TypeOK, Named, Calls
<1>2. /\ bindings' = [request[r].seen EXCEPT ![a] = @ + 1]
      /\ updates' = [updates EXCEPT ![a] = @ + 1]
  BY DEF Replaced
<1>3. \A b \in Agents : updates[b] \in Nat /\ updates'[b] \in Nat /\ updates[b] <= updates'[b]
  BY <1>1, <1>2 DEF TypeInv, TypeOK
<1>4. \A b \in Agents : bindings'[b] <= updates'[b]
  BY <1>1, <1>2 DEF CountInv, TypeInv, TypeOK
<1>5. \A q \in Requests, b \in Agents :
        request[q].seen[b] \in Nat /\ (At(q, "write") => request[q].seen[b] <= updates[b])
  BY DEF CountInv, TypeInv, TypeOK, Calls
<1> QED
  BY <1>3, <1>4, <1>5

(* Every step of the API keeps the versions behind the updates.             *)
LEMMA CountStep == TypeInv /\ CountInv /\ [Next]_vars => CountInv'
<1> SUFFICES ASSUME TypeInv, CountInv, [Next]_vars PROVE CountInv'
  OBVIOUS
<1>1. \A pc \in PCs : Request(pc).pc = pc
  BY DEF Request
<1>2. ASSUME NEW s \in Sessions, Login(s) \/ SessionExpires(s) PROVE CountInv'
  BY <1>2 DEF Login, SessionExpires, fileVars, CountInv
<1>3. ASSUME NEW r \in Requests, NEW s \in Sessions, NEW a \in Agents,
             NEW kind \in Kinds, NEW token \in BOOLEAN, Send(r, kind, s, a, token)
      PROVE  CountInv'
  <2>1. /\ At(r, "authenticate")'
        /\ \A q \in Requests : q # r => request'[q] = request[q]
    BY <1>3 DEF Send, TypeInv, TypeOK
  <2>2. overlaps' = 0 => overlaps = 0 /\ \A q \in Requests : ~ Underway(q)
    BY <1>3 DEF Send, TypeInv, TypeOK
  <2> QED
    BY <1>3, <2>1, <2>2 DEF Send, fileVars, CountInv
<1>4. ASSUME NEW r \in Requests,
             Authenticate(r) \/ ValidateCsrf(r) \/ HandleRead(r) \/ HandleLogout(r)
      PROVE  CountInv'
  <2>1. UNCHANGED <<fileVars, overlaps>>
    BY <1>4 DEF Authenticate, ValidateCsrf, HandleRead, HandleLogout, fileVars
  <2>2. Underway(r)
    BY <1>4 DEF Authenticate, ValidateCsrf, HandleRead, HandleLogout
  <2>3. ASSUME NEW pc \in PCs \ {"write"}, Goto(r, pc) \/ Answer(r, pc)
        PROVE  \A q \in Requests : /\ Underway(q)' => Underway(q)
                                   /\ At(q, "write")' => request'[q] = request[q]
    BY <1>1, <2>2, <2>3 DEF Goto, Answer, TypeInv, TypeOK, Calls
  <2>4. \E pc \in PCs \ {"write"} : Goto(r, pc) \/ Answer(r, pc)
    BY <1>4 DEF Authenticate, ValidateCsrf, HandleRead, HandleLogout, PCs
  <2> QED
    BY <2>1, <2>3, <2>4, CountKept
<1>5. ASSUME NEW r \in Requests, ReadBindings(r) PROVE CountInv'
  <2>1. UNCHANGED <<fileVars, overlaps>> /\ Underway(r)
    BY <1>5 DEF ReadBindings
  <2>2. CASE Answer(r, "refused")
    BY <1>1, <2>1, <2>2, CountKept DEF Answer, PCs, TypeInv, TypeOK
  <2>3. CASE request' = [request EXCEPT ![r].pc = "write", ![r].seen = AllBindings]
    <3>1. /\ \A q \in Requests : q # r => request'[q] = request[q]
          /\ request'[r].pc = "write" /\ request'[r].seen = AllBindings
      BY <2>3 DEF TypeInv, TypeOK, Calls
    <3>2. \A a \in Agents : AllBindings[a] <= updates[a]
      BY DEF AllBindings, NoFile, CountInv, TypeInv, TypeOK
    <3>3. overlaps = 0 => AllBindings = bindings
      BY DEF AllBindings, CountInv
    <3> QED
      BY <2>1, <3>1, <3>2, <3>3 DEF fileVars, CountInv
  <2> QED
    BY <1>5, <2>2, <2>3 DEF ReadBindings
<1>6. ASSUME NEW r \in Requests, WriteBindings(r) PROVE CountInv'
  <2> DEFINE a == request[r].agent
  <2>1. a \in Agents /\ request[r].seen \in [Agents -> Nat]
    BY <1>6 DEF WriteBindings, TypeInv, TypeOK, Named, Calls
  <2>2. /\ bindings' = [request[r].seen EXCEPT ![a] = @ + 1]
        /\ updates' = [updates EXCEPT ![a] = @ + 1]
        /\ readable' /\ UNCHANGED overlaps
    BY <1>6 DEF WriteBindings, Replaced
  <2>3. At(r, "answered")' /\ \A q \in Requests : q # r => request'[q] = request[q]
    BY <1>1, <1>6 DEF WriteBindings, Answer, PCs, TypeInv, TypeOK
  <2>4. /\ \A b \in Agents : bindings'[b] <= updates'[b]
        /\ \A q \in Requests, b \in Agents :
             At(q, "write") => request[q].seen[b] <= updates'[b]
    BY <1>6, CountReplaced DEF WriteBindings
  <2>5. \A q \in Requests, b \in Agents : At(q, "write")' => request'[q].seen[b] <= updates'[b]
    BY <2>3, <2>4
  <2>6. overlaps = 0 => bindings' = updates' /\ \A q \in Requests : ~ Underway(q)'
    BY <1>6, <2>2, <2>3 DEF WriteBindings, CountInv
  <2> QED
    BY <2>2, <2>4, <2>5, <2>6 DEF CountInv
<1>7. ASSUME NEW q \in Requests, NEW r \in Requests,
             WritesMix(q, r) \/ \E w \in {q, r} : WriteSurvives(q, r, w)
      PROVE  CountInv'
  <2>1. Collide(q, r)
    BY <1>7 DEF WritesMix, WriteSurvives
  <2>2. overlaps # 0 /\ UNCHANGED overlaps
    BY <2>1 DEF Collide, CountInv
  <2>3. \A p \in Requests : At(p, "write")' => At(p, "write") /\ request'[p] = request[p]
    BY <1>1, <2>1 DEF Collide, PCs, TypeInv, TypeOK
  <2>4. CASE WritesMix(q, r)
    BY <2>2, <2>3, <2>4 DEF WritesMix, CountInv
  <2>5. ASSUME NEW w \in {q, r}, WriteSurvives(q, r, w) PROVE CountInv'
    <3>1. At(w, "write") /\ Replaced(w)
      BY <2>1, <2>5 DEF WriteSurvives, Collide
    <3>2. /\ \A b \in Agents : bindings'[b] <= updates'[b]
          /\ \A p \in Requests, b \in Agents :
               At(p, "write") => request[p].seen[b] <= updates'[b]
      BY <3>1, CountReplaced
    <3> QED
      BY <2>2, <2>3, <3>2 DEF CountInv
  <2> QED
    BY <1>7, <2>4, <2>5
<1>8. CASE UNCHANGED vars
  BY <1>8 DEF vars, fileVars, CountInv
<1> QED
  BY <1>2, <1>3, <1>4, <1>5, <1>6, <1>7, <1>8 DEF Next, Serve


-----------------------------------------------------------------------------
(* Policies and names.                                                      *)

(* A set of natural numbers has a first one.                                *)
LEMMA FirstOf ==
  ASSUME NEW T, T \subseteq Nat, T # {}
  PROVE  Min(T) \in T
<1> DEFINE R == OpToRel(<, Nat)
<1>1. IsWellFoundedOn(R, Nat)  BY NatLessThanWellFounded
<1>2. \A x, y \in Nat : x < y => <<x, y>> \in R  BY DEF OpToRel
<1> HIDE DEF R
<1>3. PICK x \in T : \A y \in T : ~(<<y, x>> \in R)  BY <1>1, WFMin
<1>4. \A y \in T : x <= y
  <2> SUFFICES ASSUME NEW y \in T  PROVE x <= y
    OBVIOUS
  <2>1. x \in Nat /\ y \in Nat /\ ~(y < x)  BY <1>2, <1>3
  <2> QED  BY <2>1
<1> QED  BY <1>4 DEF Min

(* In whatever order the policies are listed, a request is allowed when one *)
(* that matches allows it and none denies it.                               *)
LEMMA AllowedIsGranted ==
  ASSUME config \in Configs, NEW a, NEW r, NEW action
  PROVE  Allowed(a, r, action) <=> Granted(a, r, action)
<1> DEFINE policies == config.policies
           matches == {n \in DOMAIN policies : Matches(policies[n], a, r, action)}
           denials == {n \in matches : policies[n].effect = "deny"}
           grants == {n \in matches : policies[n].effect = "allow"}
<1>1. DOMAIN policies \subseteq Nat
  <2>1. policies \in Seq(ToSet(policies))  BY GovernanceAssumption
  <2> QED  BY <2>1
<1>2. denials # {} => Min(denials) \in denials  BY <1>1, FirstOf
<1>3. grants # {} => Min(grants) \in grants  BY <1>1, FirstOf
<1>4. Allowed(a, r, action) <=> denials = {} /\ grants # {}
  <2>1. CASE denials # {}
    <3>1. policies[Min(denials)].effect # "allow"  BY <1>2, <2>1
    <3> QED  BY <2>1, <3>1 DEF Allowed
  <2>2. CASE denials = {}
    <3>1. grants # {} => policies[Min(grants)].effect = "allow"  BY <1>3
    <3> QED  BY <2>2, <3>1 DEF Allowed
  <2> QED  BY <2>1, <2>2
<1>5. Granted(a, r, action) <=> denials = {} /\ grants # {}
  BY DEF Granted, ToSet
<1> QED  BY <1>4, <1>5

(* What the hook lets run is the one tool of that name, under a grant.      *)
LEMMA InvocableIsGranted ==
  ASSUME config \in Configs, NEW a, NEW f
  PROVE  Invocable(a, f) <=>
           \E r \in ToolsOf(f) : ToolsOf(f) = {r} /\ Granted(a, r, "invoke")
<1>1. IsFiniteSet(ToolsOf(f))
  <2>1. config.registered \in Seq(Refs)  BY GovernanceAssumption
  <2>2. DOMAIN config.registered = 1 .. Len(config.registered)
        /\ Len(config.registered) \in Nat
    BY <2>1
  <2>3. IsFiniteSet(DOMAIN config.registered)  BY <2>2, FS_Interval
  <2>4. IsFiniteSet(Registered)
    <3> DEFINE list == config.registered
    <3>1. list \in [DOMAIN list -> Registered]  BY <2>1 DEF Registered, ToSet
    <3>2. \A r \in Registered : \E n \in DOMAIN list : list[n] = r
      BY DEF Registered, ToSet
    <3>3. list \in Surjection(DOMAIN list, Registered)  BY <3>1, <3>2 DEF Surjection
    <3> QED  BY <2>3, <3>3, FS_Surjection
  <2>5. ToolsOf(f) \subseteq Registered  BY DEF ToolsOf
  <2> QED  BY <2>4, <2>5, FS_Subset
<1>2. Cardinality(ToolsOf(f)) = 1 <=> \E r : ToolsOf(f) = {r}
  BY <1>1, FS_Singleton
<1>3. \A r : Allowed(a, r, "invoke") <=> Granted(a, r, "invoke")
  BY AllowedIsGranted
<1> QED  BY <1>2, <1>3 DEF Invocable

-----------------------------------------------------------------------------
(* The registry and the agents.                                             *)

(* While agents are built each has the toolkits of the places that were     *)
(* bound, all of them under a grant.                                        *)
Bound == Places \ todo
BoundInv ==
  /\ config \in Configs
  /\ toolkits = [a \in AgentSet |-> toolkits[a]]
  /\ phase \in {"loading", "unavailable"} => toolkits = NoToolkits
  /\ phase \in {"building", "ready"} =>
       /\ ValidReferences /\ todo \subseteq Places
       /\ \A a \in AgentSet : toolkits[a] =
            {Toolkit[RefAt(place)] : place \in {p \in Bound : AgentAt(p) = a}}
       /\ \A place \in Bound : Granted(AgentAt(place), RefAt(place), "bind")
  /\ phase = "ready" => todo = {} /\ Missing = {}

RegistryInv == BoundInv /\ RunsAreGranted

(* Before the registry is loaded no agent has anything.                     *)
LEMMA RegistryStart == RegistryInit => RegistryInv
<1> SUFFICES ASSUME RegistryInit  PROVE RegistryInv
  OBVIOUS
<1>1. BoundInv  BY DEF RegistryInit, BoundInv, NoToolkits
<1>2. RunsAreGranted  BY DEF RegistryInit, RunsAreGranted
<1> QED  BY <1>1, <1>2 DEF RegistryInv

(* Loading, binding and calling keep what is bound granted, and the         *)
(* configuration.                                                           *)
LEMMA BoundStep ==
  ASSUME BoundInv, RegistryNext
  PROVE  BoundInv' /\ config' = config
<1>1. CASE Load
  <2>1. config' = config /\ toolkits' = toolkits /\ toolkits = NoToolkits
    BY <1>1 DEF Load, BoundInv
  <2>2. CASE ValidReferences
    <3>1. phase' = "building" /\ todo' = Places  BY <1>1, <2>2 DEF Load
    <3>2. Bound' = {}  BY <2>1, <3>1 DEF Bound, Places, Missing, Known
    <3>3. ValidReferences' /\ Places' = Places
      BY <2>1, <2>2 DEF ValidReferences, Known, Registered, Places, Missing
    <3>4. \A a \in AgentSet : toolkits'[a] = {}  BY <2>1 DEF NoToolkits
    <3>5. \A a \in AgentSet :
            {Toolkit[RefAt(place)'] : place \in {p \in Bound' : AgentAt(p)' = a}} = {}
      BY <3>2
    <3>6. config' \in Configs /\ toolkits' = [a \in AgentSet |-> toolkits'[a]]
      BY <2>1 DEF BoundInv
    <3>7. todo' \subseteq Places'  BY <3>1, <3>3
    <3>8. \A place \in Bound' : Granted(AgentAt(place), RefAt(place), "bind")'
      BY <3>2
    <3> HIDE DEF Bound
    <3> QED  BY <2>1, <3>1, <3>3, <3>4, <3>5, <3>6, <3>7, <3>8 DEF BoundInv
  <2>3. CASE ~ValidReferences
    BY <1>1, <2>1, <2>3 DEF Load, BoundInv
  <2> QED  BY <2>2, <2>3
<1>2. CASE Abandon
  BY <1>2 DEF Abandon, BoundInv, NoToolkits
<1>3. ASSUME phase = "building", NEW place \in todo, Bindable(place), Give(place)
      PROVE  BoundInv' /\ config' = config
  <2>1. config' = config /\ phase' = "building" /\ todo' = todo \ {place}
    BY <1>3 DEF Give
  <2>2. Granted(AgentAt(place), RefAt(place), "bind")
    BY <1>3, AllowedIsGranted DEF Bindable, BoundInv
  <2>3. /\ ValidReferences' /\ Places' = Places
        /\ \A p : RefAt(p)' = RefAt(p) /\ AgentAt(p)' = AgentAt(p)
        /\ \A p : Granted(AgentAt(p), RefAt(p), "bind")' <=>
                    Granted(AgentAt(p), RefAt(p), "bind")
    BY <1>3, <2>1
    DEF BoundInv, ValidReferences, Known, Registered, Places, Missing, RefAt, AgentAt, Granted
  <2>4. place \in Places /\ todo \subseteq Places  BY <1>3 DEF BoundInv
  <2>5. Bound' = Bound \union {place}
    BY <2>1, <2>3, <2>4 DEF Bound
  <2>6. AgentAt(place) \in AgentSet
    BY <2>4 DEF Places, AgentAt, AgentSet, ToSet
  <2>7. /\ toolkits' = [a \in AgentSet |-> toolkits'[a]]
        /\ \A a \in AgentSet : toolkits'[a] =
             IF a = AgentAt(place) THEN toolkits[a] \union {Toolkit[RefAt(place)]} ELSE toolkits[a]
    BY <1>3, <2>6 DEF Give, BoundInv
  <2>8. \A a \in AgentSet : toolkits[a] =
          {Toolkit[RefAt(q)] : q \in {p \in Bound : AgentAt(p) = a}}
    BY <1>3 DEF BoundInv
  <2>9. ASSUME NEW a \in AgentSet
        PROVE  toolkits'[a] =
                 {Toolkit[RefAt(q)] : q \in {p \in Bound \union {place} : AgentAt(p) = a}}
    <3>1. CASE a = AgentAt(place)
      <4>1. toolkits'[a] = toolkits[a] \union {Toolkit[RefAt(place)]}  BY <2>7, <3>1
      <4> QED  BY <2>8, <3>1, <4>1
    <3>2. CASE a # AgentAt(place)
      <4>1. toolkits'[a] = toolkits[a]  BY <2>7, <3>2
      <4>2. {p \in Bound \union {place} : AgentAt(p) = a} = {p \in Bound : AgentAt(p) = a}
        BY <3>2
      <4> QED  BY <2>8, <4>1, <4>2
    <3> QED  BY <3>1, <3>2
  <2>10. \A p \in Bound' : Granted(AgentAt(p), RefAt(p), "bind")'
    BY <1>3, <2>2, <2>3, <2>5 DEF BoundInv
  <2>11. \A a \in AgentSet : toolkits'[a] =
           {Toolkit[RefAt(q)'] : q \in {p \in Bound' : AgentAt(p)' = a}}
    BY <2>3, <2>5, <2>9
  <2>12. todo' \subseteq Places'  BY <2>1, <2>3, <2>4
  <2> QED  BY <1>3, <2>1, <2>3, <2>7, <2>10, <2>11, <2>12 DEF BoundInv
<1>4. CASE Bind \/ AgentMissing
  BY <1>2, <1>3, <1>4 DEF Bind, AgentMissing, Abandon
<1>5. CASE Built
  BY <1>5
  DEF Built, BoundInv, ValidReferences, Known, Registered, Bound, Places, Missing, RefAt, AgentAt, Granted
<1>6. ASSUME NEW a \in AgentSet, NEW f \in Functions, CallTool(a, f)
      PROVE  BoundInv' /\ config' = config
  BY <1>6
  DEF CallTool, runtime, BoundInv, ValidReferences, Known, Registered, Bound, Places, Missing,
      RefAt, AgentAt, Granted
<1> QED  BY <1>1, <1>4, <1>5, <1>6 DEF RegistryNext

(* What ran stays granted, and what was refused stays not granted.          *)
LEMMA RunsStep ==
  ASSUME RegistryInv, RegistryNext
  PROVE  RunsAreGranted'
<1> DEFINE Fit(a, f) == \E r \in ToolsOf(f) : ToolsOf(f) = {r} /\ Granted(a, r, "invoke")
<1>1. config' = config  BY BoundStep DEF RegistryInv
<1>2. \A a, f : Fit(a, f)' <=> Fit(a, f)
  BY <1>1 DEF ToolsOf, Registered, Granted
<1>3. RunsAreGranted <=>
        /\ \A call \in ran : call \in AgentSet \X Functions /\ Fit(call[1], call[2])
        /\ \A call \in refused :
             ~(call \in AgentSet \X Functions /\ Fit(call[1], call[2]))
  BY DEF RunsAreGranted
<1>4. RunsAreGranted' <=>
        /\ \A call \in ran' : call \in AgentSet \X Functions /\ Fit(call[1], call[2])'
        /\ \A call \in refused' :
             ~(call \in AgentSet \X Functions /\ Fit(call[1], call[2])')
  BY DEF RunsAreGranted
<1>5. RunsAreGranted  BY DEF RegistryInv
<1>6. CASE ran' = ran /\ refused' = refused
  BY <1>2, <1>3, <1>4, <1>5, <1>6
<1>7. ASSUME NEW a \in AgentSet, NEW f \in Functions, CallTool(a, f)
      PROVE  RunsAreGranted'
  <2>1. Invocable(a, f) <=> Fit(a, f)
    BY InvocableIsGranted DEF RegistryInv, BoundInv
  <2>2. \/ Fit(a, f) /\ ran' = ran \union {<<a, f>>} /\ refused' = refused
        \/ ~Fit(a, f) /\ refused' = refused \union {<<a, f>>} /\ ran' = ran
    BY <1>7, <2>1 DEF CallTool
  <2> HIDE DEF Fit
  <2>3. <<a, f>> \in AgentSet \X Functions /\ <<a, f>>[1] = a /\ <<a, f>>[2] = f
    OBVIOUS
  <2> QED  BY <1>2, <1>3, <1>4, <1>5, <2>2, <2>3
<1>8. Load \/ Bind \/ AgentMissing \/ Built => ran' = ran /\ refused' = refused
  BY DEF Load, Bind, AgentMissing, Built, Give, Abandon
<1> QED  BY <1>6, <1>7, <1>8 DEF RegistryNext

(* When no place is left to bind, agents have the toolkits of their         *)
(* profiles.                                                                *)
LEMMA BoundIsWhole ==
  ASSUME BoundInv
  PROVE  AgentsAreWhole
<1> SUFFICES ASSUME phase = "ready", NEW a \in AgentSet
             PROVE  /\ toolkits[a] = {Toolkit[r] : r \in ToSet(config.profile[a])}
                    /\ \A r \in ToSet(config.profile[a]) :
                         r \in Registered /\ Granted(a, r, "bind")
  BY DEF AgentsAreWhole, BoundInv
<1>1. Bound = Places  BY DEF BoundInv, Bound
<1>2. PICK n \in DOMAIN BuildOrder : BuildOrder[n] = a  BY DEF AgentSet, ToSet
<1>3. \A r \in ToSet(config.profile[a]) :
        \E place \in Bound : AgentAt(place) = a /\ RefAt(place) = r
  <2> SUFFICES ASSUME NEW k \in DOMAIN config.profile[a]
               PROVE  \E place \in Bound :
                        AgentAt(place) = a /\ RefAt(place) = config.profile[a][k]
    BY DEF ToSet
  <2>1. <<n, k>> \in Places  BY <1>2 DEF BoundInv, Places
  <2>2. AgentAt(<<n, k>>) = a /\ RefAt(<<n, k>>) = config.profile[a][k]
    BY <1>2 DEF AgentAt, RefAt
  <2> QED  BY <1>1, <2>1, <2>2
<1>4. \A place \in Bound : AgentAt(place) = a => RefAt(place) \in ToSet(config.profile[a])
  BY <1>1 DEF Places, AgentAt, RefAt, ToSet
<1>5. toolkits[a] = {Toolkit[RefAt(place)] : place \in {p \in Bound : AgentAt(p) = a}}
  BY DEF BoundInv
<1>6. \A r \in ToSet(config.profile[a]) : Granted(a, r, "bind")
  BY <1>3 DEF BoundInv
<1>7. ToSet(config.profile[a]) \subseteq Registered
  BY <1>2 DEF BoundInv, Missing, ValidReferences
<1>8. toolkits[a] = {Toolkit[r] : r \in ToSet(config.profile[a])}
  BY <1>3, <1>4, <1>5
<1> QED  BY <1>6, <1>7, <1>8

(* The registry keeps its invariant while it is left alone.                 *)
LEMMA RegistryKept ==
  ASSUME RegistryInv, UNCHANGED registryVars
  PROVE  RegistryInv' /\ config' = config
<1>1. UNCHANGED <<config, phase, todo, toolkits, ran, refused>>
  BY DEF registryVars, runtime
<1>2. BoundInv'
  BY <1>1
  DEF RegistryInv, BoundInv, ValidReferences, Known, Registered, Bound, Places, Missing,
      RefAt, AgentAt, Granted
<1>3. RunsAreGranted'
  BY <1>1 DEF RegistryInv, RunsAreGranted, ToolsOf, Registered, Granted
<1> QED  BY <1>1, <1>2, <1>3 DEF RegistryInv

-----------------------------------------------------------------------------
(* Requests and restarts.                                                   *)

(* Each request of the console is one of the API.                           *)
LEMMA RequestIsStep == ConsoleRequest => Next
  BY DEF ConsoleRequest, Next, Serve, BeginUpdate, File, CollideFiling

(* A restart refuses the requests that are on their way and keeps the rest. *)
LEMMA RestartKeeps ==
  ASSUME TypeInv, OverInv, CountInv, Restart
  PROVE  TypeInv' /\ OverInv' /\ CountInv'
<1>1. Request("refused") \in Calls /\ Request("refused").pc = "refused"
      /\ Request("refused").late = FALSE
  BY DEF Request, Calls, PCs, Kinds, NoFile, None
<1>2. /\ request' \in [Requests -> Calls]
      /\ \A r \in Requests :
           ~ Underway(r)' /\ (request'[r] = request[r] \/ request'[r] = Request("refused"))
  BY <1>1 DEF Restart, TypeInv, TypeOK
<1>3. \A r \in Requests : ~ request'[r].late
  BY <1>1, <1>2 DEF OverInv
<1>4. TypeInv'  BY <1>2 DEF Restart, authVars, fileVars, TypeInv, TypeOK, Named
<1>5. OverInv'  BY <1>3 DEF Restart, authVars, OverInv
<1>6. CountInv'  BY <1>2 DEF Restart, fileVars, CountInv
<1> QED  BY <1>4, <1>5, <1>6

(* What a process starts with is a registry none of whose agents is built.  *)
LEMMA RestartedRegistry ==
  ASSUME Restart
  PROVE  RegistryInv'
<1>1. config' \in Configs  BY ConsoleAssumption DEF Restart
<1>2. BoundInv'  BY <1>1 DEF Restart, BoundInv, NoToolkits
<1>3. RunsAreGranted'  BY DEF Restart, RunsAreGranted
<1> QED  BY <1>2, <1>3 DEF RegistryInv

-----------------------------------------------------------------------------
(* The bindings on file.                                                    *)
Bindings == [tools : SUBSET Refs, servers : SUBSET Refs]
Sound(filing) == filing.tools \union filing.servers \subseteq Registered

(* Until a restart the registry is the one updates are checked against:     *)
(* what is on file for an agent that has a version, and what a writer is    *)
(* about to file, names registered references alone.                        *)
PageInv ==
  /\ filed \in [Agents -> Bindings] /\ drafts \in [Requests -> [Agents -> Bindings]]
  /\ restarts \in Nat
  /\ restarts = 0 =>
       /\ \A a \in Agents : bindings[a] # 0 => Sound(filed[a])
       /\ \A r \in Requests, a \in Agents :
            At(r, "write") /\ (request[r].seen[a] # 0 \/ a = request[r].agent)
              => Sound(drafts[r][a])

(* An empty file is typed.                                                  *)
LEMMA NothingIsBindings ==
  Nothing \in Bindings /\ NothingFiled \in [Agents -> Bindings]
  BY DEF Nothing, NothingFiled, Bindings

(* Nothing is on file at first.                                             *)
LEMMA PageStart == ConsoleInit => PageInv
<1> SUFFICES ASSUME ConsoleInit  PROVE PageInv
  OBVIOUS
<1>1. \A r \in Requests : ~ At(r, "write")
  BY DEF ConsoleInit, Init, Request
<1>2. \A a \in Agents : bindings[a] = 0
  BY DEF ConsoleInit, Init, NoFile
<1> QED  BY <1>1, <1>2, NothingIsBindings DEF ConsoleInit, PageInv

(* Only an update brings a request to its write, and only writes file.      *)
LEMMA NoneToWrite ==
  ASSUME TypeInv,
         \/ \E s \in Sessions : Login(s) \/ SessionExpires(s)
         \/ \E r \in Requests :
              \/ Authenticate(r) \/ ValidateCsrf(r) \/ HandleRead(r) \/ HandleLogout(r)
              \/ \E s \in Sessions, a \in Agents, kind \in Kinds, token \in BOOLEAN :
                   Send(r, kind, s, a, token)
  PROVE  /\ UNCHANGED fileVars
         /\ \A q \in Requests : At(q, "write")' => request'[q] = request[q]
<1>1. \A pc \in PCs : Request(pc).pc = pc
  BY DEF Request
<1>2. ASSUME NEW s \in Sessions, Login(s) \/ SessionExpires(s)
      PROVE  /\ UNCHANGED fileVars
             /\ \A q \in Requests : At(q, "write")' => request'[q] = request[q]
  BY <1>2 DEF Login, SessionExpires
<1>3. ASSUME NEW r \in Requests, NEW s \in Sessions, NEW a \in Agents,
             NEW kind \in Kinds, NEW token \in BOOLEAN, Send(r, kind, s, a, token)
      PROVE  /\ UNCHANGED fileVars
             /\ \A q \in Requests : At(q, "write")' => request'[q] = request[q]
  BY <1>3 DEF Send, TypeInv, TypeOK
<1>4. ASSUME NEW r \in Requests,
             Authenticate(r) \/ ValidateCsrf(r) \/ HandleRead(r) \/ HandleLogout(r)
      PROVE  /\ UNCHANGED fileVars
             /\ \A q \in Requests : At(q, "write")' => request'[q] = request[q]
  <2>1. UNCHANGED fileVars
    BY <1>4 DEF Authenticate, ValidateCsrf, HandleRead, HandleLogout
  <2>2. ASSUME NEW pc \in PCs \ {"write"}, Goto(r, pc) \/ Answer(r, pc)
        PROVE  \A q \in Requests : At(q, "write")' => request'[q] = request[q]
    BY <1>1, <2>2 DEF Goto, Answer, TypeInv, TypeOK, Calls
  <2>3. \E pc \in PCs \ {"write"} : Goto(r, pc) \/ Answer(r, pc)
    BY <1>4 DEF Authenticate, ValidateCsrf, HandleRead, HandleLogout, PCs
  <2> QED  BY <2>1, <2>2, <2>3
<1> QED  BY <1>2, <1>3, <1>4

(* What was sound stays so while the registry does.                         *)
LEMMA PageKept ==
  ASSUME PageInv, config' = config, UNCHANGED <<filed, drafts, restarts>>, UNCHANGED fileVars,
         \A q \in Requests : At(q, "write")' => request'[q] = request[q]
  PROVE  PageInv'
  BY DEF PageInv, fileVars, Sound, Registered

(* An update drafts registered references only, for an agent it names; the  *)
(* rest of the draft is what is on file.                                    *)
LEMMA UpdateBegins ==
  ASSUME TypeInv, PageInv, config' = config, restarts' = restarts,
         NEW r \in Requests, NEW filing \in Filings, BeginUpdate(r, filing)
  PROVE  PageInv'
<1> DEFINE old == IF readable THEN filed ELSE NothingFiled
           agent == request[r].agent
           new == [old EXCEPT ![agent] = filing]
<1>1. filing \in Bindings  BY ConsoleAssumption DEF Bindings
<1>2. old \in [Agents -> Bindings]  BY NothingIsBindings DEF PageInv
<1>3. new \in [Agents -> Bindings]
      /\ \A a \in Agents : new[a] = IF a = agent THEN filing ELSE old[a]
  BY <1>1, <1>2
<1>4. /\ \A q \in Requests : q # r => request'[q] = request[q]
      /\ \/ At(r, "write")' /\ request'[r].seen = AllBindings /\ request'[r].agent = agent
         \/ At(r, "refused")'
      /\ At(r, "write")' <=> Accepted(agent, filing)
  BY DEF BeginUpdate, ReadBindings, Answer, Request, TypeInv, TypeOK, Calls
<1>5. UNCHANGED <<filed, bindings>>
  BY DEF BeginUpdate, ReadBindings, fileVars
<1>6. /\ drafts' \in [Requests -> [Agents -> Bindings]]
      /\ \A q \in Requests : q # r => drafts'[q] = drafts[q]
      /\ Accepted(agent, filing) => drafts'[r] = new
  BY <1>3, NothingIsBindings DEF BeginUpdate, PageInv
<1>7. Registered' = Registered  BY DEF Registered
<1>8. Accepted(agent, filing) => Sound(filing)  BY DEF Accepted, Sound
<1>9. ASSUME restarts = 0, NEW a \in Agents, Accepted(agent, filing),
             AllBindings[a] # 0 \/ a = agent
      PROVE  Sound(new[a])
  <2>1. CASE a = agent  BY <1>3, <1>8, <1>9, <2>1
  <2>2. CASE a # agent
    <3>1. readable /\ bindings[a] # 0  BY <1>9, <2>2 DEF AllBindings, NoFile
    <3>2. Sound(filed[a])  BY <1>9, <3>1 DEF PageInv
    <3> QED  BY <1>3, <2>2, <3>1, <3>2
  <2> QED  BY <2>1, <2>2
<1> HIDE DEF old, agent, new
<1>10. ASSUME restarts = 0, NEW q \in Requests, NEW a \in Agents, At(q, "write")',
              request'[q].seen[a] # 0 \/ a = request'[q].agent
       PROVE  Sound(drafts'[q][a])
  <2>1. CASE q = r
    BY <1>4, <1>6, <1>9, <1>10, <2>1
  <2>2. CASE q # r
    BY <1>4, <1>6, <1>10, <2>2 DEF PageInv
  <2> QED  BY <2>1, <2>2
<1> QED  BY <1>5, <1>6, <1>7, <1>10 DEF PageInv, Sound

(* The text of a writer that becomes the file is its draft.                 *)
LEMMA DraftIsSound ==
  ASSUME TypeInv, PageInv, config' = config, restarts = 0,
         NEW r \in Requests, At(r, "write"), Replaced(r), filed' = drafts[r]
  PROVE  \A a \in Agents : bindings'[a] # 0 => Sound(filed'[a])
<1> DEFINE agent == request[r].agent
<1>1. agent \in Agents /\ request[r].seen \in [Agents -> Nat]
  BY DEF TypeInv, TypeOK, Named, Calls
<1>2. \A a \in Agents : bindings'[a] # 0 => request[r].seen[a] # 0 \/ a = agent
  BY <1>1 DEF Replaced
<1> QED  BY <1>2 DEF PageInv

(* What is filed is the draft.                                              *)
LEMMA UpdateIsFiled ==
  ASSUME TypeInv, PageInv, config' = config, restarts' = restarts,
         NEW r \in Requests, File(r)
  PROVE  PageInv'
<1>1. ~ At(r, "write")' /\ \A q \in Requests : q # r => request'[q] = request[q]
  BY DEF File, WriteBindings, Answer, Request, TypeInv, TypeOK
<1>2. /\ filed' = drafts[r] /\ filed' \in [Agents -> Bindings]
      /\ drafts' \in [Requests -> [Agents -> Bindings]]
      /\ \A q \in Requests : q # r => drafts'[q] = drafts[q]
  BY NothingIsBindings DEF File, PageInv
<1>3. Registered' = Registered  BY DEF Registered
<1>4. restarts = 0 => \A a \in Agents : bindings'[a] # 0 => Sound(filed'[a])
  BY DraftIsSound DEF File, WriteBindings
<1>5. restarts = 0 =>
        \A q \in Requests, a \in Agents :
          At(q, "write")' /\ (request'[q].seen[a] # 0 \/ a = request'[q].agent)
            => Sound(drafts'[q][a])
  BY <1>1, <1>2 DEF PageInv
<1> QED  BY <1>2, <1>3, <1>4, <1>5 DEF PageInv, Sound

(* Writers that collide file a draft of theirs or nothing new.              *)
LEMMA FilingsCollide ==
  ASSUME TypeInv, PageInv, config' = config, restarts' = restarts,
         NEW q \in Requests, NEW r \in Requests, CollideFiling(q, r)
  PROVE  PageInv'
<1>1. Collide(q, r)
  BY DEF CollideFiling, WritesMix, WriteSurvives
<1>2. /\ ~ At(q, "write")' /\ ~ At(r, "write")'
      /\ \A p \in Requests : p # q /\ p # r => request'[p] = request[p]
  BY <1>1 DEF Collide, Request, TypeInv, TypeOK
<1>3. /\ drafts' \in [Requests -> [Agents -> Bindings]]
      /\ \A p \in Requests : p # q /\ p # r => drafts'[p] = drafts[p]
  BY NothingIsBindings DEF CollideFiling, PageInv
<1>4. filed' \in [Agents -> Bindings]
  BY DEF CollideFiling, PageInv
<1>5. Registered' = Registered  BY DEF Registered
<1>6. ASSUME restarts = 0
      PROVE  \A a \in Agents : bindings'[a] # 0 => Sound(filed'[a])
  <2>1. CASE WritesMix(q, r) /\ UNCHANGED filed
    BY <1>6, <2>1 DEF WritesMix, PageInv
  <2>2. ASSUME NEW w \in {q, r}, WriteSurvives(q, r, w), filed' = drafts[w]
        PROVE  \A a \in Agents : bindings'[a] # 0 => Sound(filed'[a])
    <3>1. At(w, "write") /\ Replaced(w)  BY <1>1, <2>2 DEF WriteSurvives, Collide
    <3> QED  BY <1>6, <2>2, <3>1, DraftIsSound
  <2> QED  BY <2>1, <2>2 DEF CollideFiling
<1>7. restarts = 0 =>
        \A p \in Requests, a \in Agents :
          At(p, "write")' /\ (request'[p].seen[a] # 0 \/ a = request'[p].agent)
            => Sound(drafts'[p][a])
  BY <1>2, <1>3 DEF PageInv
<1> QED  BY <1>3, <1>4, <1>5, <1>6, <1>7 DEF PageInv, Sound

(* Every request keeps what is on file sound.                               *)
LEMMA RequestPages ==
  ASSUME TypeInv, PageInv, config' = config, restarts' = restarts, ConsoleRequest
  PROVE  PageInv'
<1>1. CASE /\ \/ \E s \in Sessions : Login(s) \/ SessionExpires(s)
              \/ \E r \in Requests :
                   \/ Authenticate(r) \/ ValidateCsrf(r) \/ HandleRead(r) \/ HandleLogout(r)
                   \/ \E s \in Sessions, a \in Agents, kind \in Kinds, token \in BOOLEAN :
                        Send(r, kind, s, a, token)
           /\ UNCHANGED <<filed, drafts>>
  BY <1>1, NoneToWrite, PageKept
<1>2. CASE \E r \in Requests :
             \/ \E filing \in Filings : BeginUpdate(r, filing)
             \/ File(r)
             \/ \E q \in Requests : CollideFiling(q, r)
  BY <1>2, UpdateBegins, UpdateIsFiled, FilingsCollide
<1> QED  BY <1>1, <1>2 DEF ConsoleRequest

(* After a restart only types are claimed.                                  *)
LEMMA PageAfterRestart ==
  ASSUME PageInv, Restart
  PROVE  PageInv'
<1>1. restarts' \in Nat /\ restarts' # 0  BY DEF Restart, PageInv
<1>2. filed' = filed /\ drafts' \in [Requests -> [Agents -> Bindings]]
  BY NothingIsBindings DEF Restart
<1> QED  BY <1>1, <1>2 DEF PageInv

(* A page finds what is on file and filed under its kind, or else what the  *)
(* profile has.                                                             *)
LEMMA PagesFind ==
  ASSUME PageInv
  PROVE  PagesResolve
<1> SUFFICES ASSUME RegistryAvailable, restarts = 0, NEW a \in Agents, Known(a),
                    ~ Misfiled(filed[a])
             PROVE  Resolves(a)
  BY DEF PagesResolve
<1>1. CASE AllBindings[a] # 0
  <2>1. bindings[a] # 0  BY <1>1 DEF AllBindings, NoFile
  <2>2. Sound(filed[a])  BY <2>1 DEF PageInv
  <2> QED  BY <1>1, <2>2 DEF Sound, Misfiled, Resolves, Shown
<1>2. CASE AllBindings[a] = 0
  <2>1. ToSet(config.profile[a]) \subseteq Registered
    BY ConsoleAssumption DEF RegistryAvailable, ValidReferences
  <2> QED  BY <1>2, <2>1 DEF Resolves, Shown
<1> QED  BY <1>1, <1>2

-----------------------------------------------------------------------------
ConsoleInv == TypeInv /\ OverInv /\ CountInv /\ RegistryInv /\ PageInv

(* The invariant holds at first.                                            *)
LEMMA ConsoleStart == ConsoleInit => ConsoleInv
  BY TypeInit, OverInit, CountInit, RegistryStart, PageStart DEF ConsoleInit, ConsoleInv

(* Every step keeps it.                                                     *)
LEMMA ConsoleStep == ConsoleInv /\ [ConsoleNext]_consoleVars => ConsoleInv'
<1> SUFFICES ASSUME ConsoleInv, [ConsoleNext]_consoleVars  PROVE ConsoleInv'
  OBVIOUS
<1> USE DEF ConsoleInv
<1>1. ASSUME [Next]_vars
      PROVE  TypeInv' /\ OverInv' /\ CountInv'
  BY <1>1, TypeStep, OverStep, CountStep
<1>2. CASE RegistryNext /\ UNCHANGED <<vars, filed, drafts, restarts>>
  <2>1. RegistryInv' /\ config' = config
    BY <1>2, BoundStep, RunsStep DEF RegistryInv
  <2>2. PageInv'
    BY <1>2, <2>1, PageKept DEF vars, fileVars
  <2> QED  BY <1>1, <1>2, <2>1, <2>2
<1>3. CASE Up /\ ConsoleRequest /\ UNCHANGED <<registryVars, restarts>>
  <2>1. RegistryInv' /\ config' = config  BY <1>3, RegistryKept
  <2>2. PageInv'  BY <1>3, <2>1, RequestPages
  <2> QED  BY <1>1, <1>3, <2>1, <2>2, RequestIsStep
<1>4. CASE Restart
  BY <1>4, RestartKeeps, RestartedRegistry, PageAfterRestart
<1>5. CASE UNCHANGED consoleVars
  <2>1. UNCHANGED vars /\ UNCHANGED registryVars /\ UNCHANGED <<filed, drafts, restarts>>
    BY <1>5 DEF consoleVars
  <2>2. RegistryInv' /\ config' = config  BY <2>1, RegistryKept
  <2>3. PageInv'  BY <2>1, <2>2, PageKept DEF vars, fileVars
  <2> QED  BY <1>1, <2>1, <2>2, <2>3
<1> QED  BY <1>2, <1>3, <1>4, <1>5 DEF ConsoleNext

(* The invariant holds in every reachable state. *)
THEOREM ConsoleInvariance == ConsoleSpec => []ConsoleInv
  BY ConsoleStart, ConsoleStep, PTL DEF ConsoleSpec

(* However requests and logouts race in the middleware and the handlers, a  *)
(* request sent after its session was over is refused by authenticate.      *)
THEOREM EndedSessionsAreRefused == ConsoleSpec => []OverStaysOver
<1>1. ConsoleInv => OverStaysOver
  BY DEF ConsoleInv, OverInv, OverStaysOver
<1> QED  BY <1>1, ConsoleInvariance, PTL

(* Lost updates never raise a binding version above the number of updates,  *)
(* and while operators wait for each answer, restarts included, none is     *)
(* lost.                                                                    *)
THEOREM BindingVersionsCount == ConsoleSpec => []VersionsCountUpdates
<1>1. ConsoleInv => VersionsCountUpdates
  BY DEF ConsoleInv, CountInv, VersionsCountUpdates
<1> QED  BY <1>1, ConsoleInvariance, PTL

(* The authorization hook lets an agent run a function only as the one      *)
(* registered tool of that name, under a grant that no policy denies, and   *)
(* refuses nothing else, in whatever order the policies are listed.         *)
THEOREM OnlyGrantedRuns == ConsoleSpec => []RunsAreGranted
<1>1. ConsoleInv => RunsAreGranted
  BY DEF ConsoleInv, RegistryInv
<1> QED  BY <1>1, ConsoleInvariance, PTL

(* The factory gives each agent the toolkits of its whole profile, each     *)
(* under a grant, or leaves no agent at all.                                *)
THEOREM AgentsComeWhole == ConsoleSpec => []AgentsAreWhole
<1>1. ConsoleInv => AgentsAreWhole
  BY BoundIsWhole DEF ConsoleInv, RegistryInv
<1> QED  BY <1>1, ConsoleInvariance, PTL

(* Until a restart, the page of an agent raises only where an accepted      *)
(* update filed a reference under a kind it is not of.                      *)
THEOREM PagesFindTheirReferences == ConsoleSpec => []PagesResolve
<1>1. ConsoleInv => PagesResolve
  BY PagesFind DEF ConsoleInv
<1> QED  BY <1>1, ConsoleInvariance, PTL
=============================================================================
