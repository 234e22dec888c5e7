------------------------- MODULE AssetServiceProofs -------------------------
(***************************************************************************)
(* Proofs about the digital assets: what is ready is stored, what failed   *)
(* or was taken back is never ready again, and a version keeps its content.*)
(***************************************************************************)
EXTENDS AssetService, FiniteSetTheorems, WellFoundedInduction, TLAPS

-----------------------------------------------------------------------------
(* The inductive invariant, part by part.                                   *)

(* The worker that makes the row of a version, from when it is pending to   *)
(* when it is settled for good.                                             *)
Makes(w) == call[w].pc \in {"store", "verify", "ready", "fail", "lineage"}

(* What is settled stays so, and as long as the catalog works a version     *)
(* that was ready once does not count as failed.                            *)
Settled == {"ready", "failed", "quarantined", "archived"}
Offered(k) == rows[k].status \in IF failures = 0 THEN Settled \ {"failed"} ELSE Settled

(* What a request knows.                                                    *)
Creates(w) ==
  /\ call[w].pc \in {"usage", "latest"} => call[w].content \in Contents
  /\ At(w, "usage") => call[w].version = 1
  /\ At(w, "latest") => call[w].id \in Contents
  /\ At(w, "put") => call[w].content \in Contents /\ Key(w) \in Keys
  /\ call[w].pc \in {"store", "verify", "ready"} =>
       Key(w) \in Keys /\ rows[Key(w)].status = "pending"
  /\ At(w, "fail") =>
       /\ Key(w) \in Keys /\ call[w].status \in {"failed", "quarantined"}
       /\ \/ rows[Key(w)].status = "pending"
          \/ rows[Key(w)].status \in Settled /\ failures # 0
  /\ At(w, "lineage") => Key(w) \in Keys /\ rows[Key(w)].status \in Settled
Handles(w) ==
  /\ call[w].pc \in {"read", "quarantine"} =>
       Key(w) \in Keys /\ Offered(Key(w))
  /\ At(w, "archive") => \A k \in call[w].todo : Offered(k)

(* Nobody else makes the same version.                                      *)
OneMaker ==
  \A v, w \in Workers : Makes(v) /\ Makes(w) /\ Key(v) = Key(w) => v = w

(* What was read back stays stored while nothing but the service touches it.*)
StoredInv ==
  damages = 0 => \A w \in Workers : At(w, "ready") => files[Key(w)] = "good"

AssetInv ==
  /\ TypeOK /\ OneMaker
  /\ \A w \in Workers : Creates(w) /\ Handles(w)
  /\ StoredInv /\ ReadyIsStored /\ LineageFollows

-----------------------------------------------------------------------------
(* The number of the next version.                                          *)

(* A set of natural numbers has a least element.                            *)
LEMMA Least ==
  ASSUME NEW T, T \subseteq Nat, T # {}
  PROVE  \E x \in T : \A y \in T : x <= y
<1> DEFINE R == OpToRel(<, Nat)
<1>1. IsWellFoundedOn(R, Nat)  BY NatLessThanWellFounded
<1>2. \A x, y \in Nat : x < y => <<x, y>> \in R  BY DEF OpToRel
<1> HIDE DEF R
<1>3. PICK x \in T : \A y \in T : ~(<<y, x>> \in R)  BY <1>1, WFMin
<1>4. \A y \in T : x <= y
  <2> SUFFICES ASSUME NEW y \in T PROVE x <= y  OBVIOUS
  <2>1. x \in Nat /\ y \in Nat /\ ~(y < x)  BY <1>2, <1>3
  <2> QED  BY <2>1
<1> QED  BY <1>4

(* Max of a set of bounded numbers is its largest element.                  *)
LEMMA Largest ==
  ASSUME NEW n \in Nat, NEW S, S \subseteq 0 .. n, S # {}
  PROVE  Max(S) \in S /\ \A y \in S : Max(S) >= y
<1> DEFINE T == {n - x : x \in S}
<1>1. T \subseteq Nat /\ T # {}
  <2>1. \A x \in 0 .. n : n - x \in Nat  OBVIOUS
  <2> QED  BY <2>1
<1>2. PICK t \in T : \A u \in T : t <= u  BY <1>1, Least
<1>3. PICK x \in S : t = n - x  OBVIOUS
<1>4. \A y \in S : n - y \in T /\ n \in Nat /\ x \in Nat /\ y \in Nat  BY <1>3
<1> HIDE DEF T
<1>5. \A y \in S : x >= y  BY <1>2, <1>3, <1>4
<1> QED  BY <1>5 DEF Max

(* An asset that has fewer than MaxVersion versions gets a next one.        *)
LEMMA NextVersion ==
  ASSUME NEW id, MaxVersion \notin VersionsOf(id)
  PROVE  Max(VersionsOf(id) \union {0}) + 1 \in 1 .. MaxVersion
<1> DEFINE S == VersionsOf(id) \union {0}
           m == Max(S)
<1>1. MaxVersion \in Nat /\ MaxVersion # 0  BY AssetAssumption
<1>2. S \subseteq 0 .. MaxVersion /\ S # {}  BY <1>1 DEF VersionsOf
<1>3. m \in S  BY <1>1, <1>2, Largest
<1>4. m \in 0 .. MaxVersion /\ m # MaxVersion  BY <1>1, <1>2, <1>3
<1> HIDE DEF m
<1> QED  BY <1>1, <1>4 DEF m

-----------------------------------------------------------------------------
(* What a step makes of the call that takes it.                             *)

(* The other calls are left as they are.                                    *)
Apart(w) == \A v \in Workers \ {w} : call'[v] = call[v]

(* The call goes on with this, or it is over.                               *)
HasFields(c, pc, content, id, version, status, todo) ==
  /\ c.pc = pc /\ c.content = content /\ c.id = id /\ c.version = version
  /\ c.status = status /\ c.todo = todo
Turn(w, pc, content, id, version, status, todo) ==
  HasFields(call'[w], pc, content, id, version, status, todo) /\ Apart(w)
Over(w) == call'[w] = IdleCall /\ Apart(w)

(* The fields of a well-typed call have their types.                        *)
LEMMA CallFields ==
  ASSUME TypeOK, NEW w \in Workers
  PROVE  /\ call[w] \in Calls
         /\ call[w].pc \in PCs /\ call[w].content \in Contents \union {NoId}
         /\ call[w].id \in Contents \union {NoId} /\ call[w].version \in Nat
         /\ call[w].status \in Statuses /\ call[w].todo \in SUBSET Keys
  BY DEF TypeOK, Calls

(* A thread without a call is typed as well.                                *)
LEMMA IdleType == IdleCall \in Calls
  BY DEF IdleCall, Calls, PCs, Statuses

(* A thread that changes its call leaves the other threads alone.           *)
LEMMA Becomes ==
  ASSUME TypeOK, NEW w \in Workers, NEW c, Become(w, c)
  PROVE  call'[w] = c /\ Apart(w) /\ (c \in Calls => call' \in [Workers -> Calls])
  BY DEF TypeOK, Become, Apart

(* A thread that returns is idle; the others stay where they are.           *)
LEMMA Returns ==
  ASSUME TypeOK, NEW w \in Workers, Return(w)
  PROVE  Over(w) /\ call' \in [Workers -> Calls]
  BY Becomes, IdleType DEF Return, Over

(* A call becomes one with these fields.                                    *)
LEMMA TurnsInto ==
  ASSUME TypeOK, NEW w \in Workers, NEW q, NEW pc, NEW content, NEW id, NEW version,
         NEW status, NEW todo, Become(w, q), q \in Calls,
         HasFields(q, pc, content, id, version, status, todo)
  PROVE  Turn(w, pc, content, id, version, status, todo) /\ call' \in [Workers -> Calls]
  BY Becomes DEF Turn

(* The call is at another step and otherwise the same.                      *)
Stays(w, pc) ==
  LET c == call[w] IN Turn(w, pc, c.content, c.id, c.version, c.status, c.todo)

(* A thread that goes on keeps what it has read.                            *)
LEMMA Goes ==
  ASSUME TypeOK, NEW w \in Workers, NEW pc \in PCs, Goto(w, pc)
  PROVE  Stays(w, pc) /\ call' \in [Workers -> Calls]
<1> DEFINE c == call[w]
           q == [call[w] EXCEPT !.pc = pc]
<1>1. q \in Calls /\ HasFields(q, pc, c.content, c.id, c.version, c.status, c.todo)
  BY CallFields DEF Calls, HasFields
<1>2. Become(w, q)  BY DEF Goto
<1> HIDE DEF c, q
<1>3. /\ Turn(w, pc, c.content, c.id, c.version, c.status, c.todo)
      /\ call' \in [Workers -> Calls]
  BY <1>1, <1>2, TurnsInto
<1> QED  BY <1>3 DEF c, Stays

(* A call begins as a creation, as a read of a ready row, or as an          *)
(* archiving of ready rows.                                                 *)
LEMMA BeginTurns ==
  ASSUME TypeOK, NEW w \in Workers, Begin(w)
  PROVE  /\ At(w, "idle") /\ call' \in [Workers -> Calls] /\ Apart(w)
         /\ \/ call'[w].pc = "usage" /\ call'[w].content \in Contents
               /\ call'[w].version = 1
            \/ call'[w].pc = "read" /\ Key(w)' \in Keys /\ rows[Key(w)'].status = "ready"
            \/ /\ call'[w].pc = "archive"
               /\ \A k \in call'[w].todo : k \in Keys /\ rows[k].status = "ready"
         /\ UNCHANGED <<rows, lineage, files, crashes, damages, failures>>
         /\ calls' = calls + 1
<1>1. At(w, "idle") /\ UNCHANGED <<rows, lineage, files, crashes, damages, failures>>
      /\ calls' = calls + 1
  BY DEF Begin, BeginCreate, BeginRead, BeginArchive, Arrive, catalogVars
<1>2. ASSUME NEW content \in Contents, NEW id \in Asked \union {NoId},
             BeginCreate(w, content, id)
      PROVE  /\ Turn(w, "usage", content, id, 1, "pending", {})
             /\ call' \in [Workers -> Calls]
  <2> DEFINE q == [IdleCall EXCEPT !.pc = "usage", !.content = content, !.id = id]
  <2>1. id \in Contents \union {NoId}  BY AssetAssumption
  <2>2. q \in Calls /\ HasFields(q, "usage", content, id, 1, "pending", {})
    BY <2>1, IdleType DEF Calls, PCs, HasFields, IdleCall
  <2>3. Become(w, q)  BY <1>2 DEF BeginCreate
  <2> HIDE DEF q
  <2> QED  BY <2>2, <2>3, TurnsInto
<1>3. ASSUME NEW k \in Keys, BeginRead(w, k)
      PROVE  /\ Turn(w, "read", NoId, k[1], k[2], "pending", {})
             /\ call' \in [Workers -> Calls]
  <2> DEFINE q == [IdleCall EXCEPT !.pc = "read", !.id = k[1], !.version = k[2]]
  <2>1. k[1] \in Contents /\ k[2] \in Nat  BY DEF Keys
  <2>2. q \in Calls /\ HasFields(q, "read", NoId, k[1], k[2], "pending", {})
    BY <2>1, IdleType DEF Calls, PCs, HasFields, IdleCall
  <2>3. Become(w, q)  BY <1>3 DEF BeginRead
  <2> HIDE DEF q
  <2> QED  BY <2>2, <2>3, TurnsInto
<1>4. ASSUME NEW due \in SUBSET {k \in Rows : rows[k].status = "ready"},
             Become(w, [IdleCall EXCEPT !.pc = "archive", !.todo = due])
      PROVE  /\ Turn(w, "archive", NoId, NoId, 1, "pending", due)
             /\ call' \in [Workers -> Calls]
  <2> DEFINE q == [IdleCall EXCEPT !.pc = "archive", !.todo = due]
  <2>1. due \in SUBSET Keys  BY DEF Rows
  <2>2. q \in Calls /\ HasFields(q, "archive", NoId, NoId, 1, "pending", due)
    BY <2>1, IdleType DEF Calls, PCs, HasFields, IdleCall
  <2>3. Become(w, q)  BY <1>4
  <2> HIDE DEF q
  <2> QED  BY <2>2, <2>3, TurnsInto
<1>5. CASE \E content \in Contents, id \in Asked \union {NoId} : BeginCreate(w, content, id)
  BY <1>1, <1>2, <1>5 DEF Turn, HasFields
<1>6. CASE \E k \in Keys : BeginRead(w, k)
  <2>1. PICK k \in Keys : BeginRead(w, k)  BY <1>6
  <2>2. k = <<k[1], k[2]>>  BY DEF Keys
  <2>3. /\ call'[w].pc = "read" /\ Key(w)' = k /\ Apart(w) /\ call' \in [Workers -> Calls]
    BY <1>3, <2>1, <2>2 DEF Turn, HasFields, Key
  <2>4. rows[k].status = "ready"  BY <2>1 DEF BeginRead
  <2> QED  BY <1>1, <2>3, <2>4
<1>7. CASE BeginArchive(w)
  <2>1. PICK due \in SUBSET {k \in Rows : rows[k].status = "ready"} :
          Become(w, [IdleCall EXCEPT !.pc = "archive", !.todo = due])
    BY <1>7 DEF BeginArchive
  <2>2. /\ call'[w].pc = "archive" /\ call'[w].todo = due /\ Apart(w)
        /\ call' \in [Workers -> Calls]
    BY <1>4, <2>1 DEF Turn, HasFields
  <2> QED  BY <1>1, <2>2 DEF Rows
<1> QED  BY <1>5, <1>6, <1>7 DEF Begin

(* The steps of a creation before there is a row.                           *)
LEMMA CheckTurns ==
  ASSUME TypeOK, NEW w \in Workers, CheckUsage(w)
  PROVE  /\ At(w, "usage") /\ call' \in [Workers -> Calls]
         /\ LET c == call[w] IN
            \/ Over(w)
            \/ Turn(w, "put", c.content, c.content, c.version, c.status, c.todo)
            \/ c.id # NoId /\ Stays(w, "latest")
<1> DEFINE c == call[w]
           q == [c EXCEPT !.pc = "put", !.id = c.content]
<1>1. At(w, "usage")  BY DEF CheckUsage
<1>2. Return(w) \/ Become(w, q) \/ (c.id # NoId /\ Goto(w, "latest"))
  BY DEF CheckUsage
<1>3. q \in Calls /\ HasFields(q, "put", c.content, c.content, c.version, c.status, c.todo)
  BY CallFields DEF Calls, PCs, HasFields
<1>4. CASE Return(w)  BY <1>1, <1>4, Returns
<1>5. CASE Become(w, q)
  <2> HIDE DEF q, c
  <2>1. /\ Turn(w, "put", c.content, c.content, c.version, c.status, c.todo)
        /\ call' \in [Workers -> Calls]
    BY <1>3, <1>5, TurnsInto
  <2> QED  BY <1>1, <2>1 DEF c
<1>6. CASE c.id # NoId /\ Goto(w, "latest")
  BY <1>1, <1>6, Goes DEF PCs
<1> QED  BY <1>2, <1>4, <1>5, <1>6

(* The look-up of the newest version gives the call up or settles on a      *)
(* version to put.                                                          *)
LEMMA LatestTurns ==
  ASSUME TypeOK, NEW w \in Workers, Latest(w)
  PROVE  /\ At(w, "latest") /\ call' \in [Workers -> Calls]
         /\ LET c == call[w] IN
            \/ Over(w)
            \/ \E n \in 1 .. MaxVersion :
                 Turn(w, "put", c.content, c.id, n, c.status, c.todo)
<1> DEFINE c == call[w]
           n == Max(VersionsOf(call[w].id) \union {0}) + 1
           q == [call[w] EXCEPT !.pc = "put", !.version = n]
<1>1. At(w, "latest")  BY DEF Latest
<1>2. CASE Return(w)  BY <1>1, <1>2, Returns
<1>3. CASE ~Return(w)
  <2>1. n \in 1 .. MaxVersion
    <3>1. MaxVersion \notin VersionsOf(call[w].id)  BY <1>3 DEF Latest
    <3> QED  BY <3>1, NextVersion
  <2>2. Become(w, q)  BY <1>3 DEF Latest
  <2> HIDE DEF n
  <2>3. n \in Nat  BY <2>1, AssetAssumption
  <2>4. q \in Calls /\ HasFields(q, "put", c.content, c.id, n, c.status, c.todo)
    BY <2>3, CallFields DEF Calls, PCs, HasFields
  <2> HIDE DEF q, c
  <2>5. /\ Turn(w, "put", c.content, c.id, n, c.status, c.todo)
        /\ call' \in [Workers -> Calls]
    BY <2>2, <2>4, TurnsInto
  <2> QED  BY <1>1, <2>1, <2>5 DEF c
<1> QED  BY <1>2, <1>3

(* A row is put only where the catalog has none.                            *)
LEMMA PutTurns ==
  ASSUME TypeOK, NEW w \in Workers, PutPending(w)
  PROVE  /\ At(w, "put") /\ call' \in [Workers -> Calls]
         /\ \/ Over(w) /\ rows' = rows
            \/ /\ Stays(w, "store") /\ Key(w) \notin Rows
               /\ rows' = [rows EXCEPT ![Key(w)] =
                             [status |-> "pending", content |-> call[w].content]]
         /\ UNCHANGED <<lineage, files, counters>>
<1>1. CASE Key(w) \in Rows  BY <1>1, Returns DEF PutPending
<1>2. CASE Key(w) \notin Rows  BY <1>2, Goes DEF PutPending, PCs
<1> QED  BY <1>1, <1>2

(* The steps of a creation while the row is pending.                        *)
LEMMA StoreTurns ==
  ASSUME TypeOK, NEW w \in Workers, StorePut(w)
  PROVE  /\ At(w, "store") /\ call' \in [Workers -> Calls] /\ UNCHANGED <<catalogVars, counters>>
         /\ LET c == call[w] IN
            \/ /\ Stays(w, "verify")
               /\ \E file \in {"good", "bad"} : files' = [files EXCEPT ![Key(w)] = file]
            \/ /\ Turn(w, "fail", c.content, c.id, c.version, "failed", c.todo)
               /\ files' = files
<1> DEFINE c == call[w]
           q == [call[w] EXCEPT !.pc = "fail", !.status = "failed"]
<1>1. At(w, "store") /\ UNCHANGED <<catalogVars, counters>>  BY DEF StorePut
<1>2. CASE Goto(w, "verify")
            /\ \E file \in {"good", "bad"} : files' = [files EXCEPT ![Key(w)] = file]
  <2>1. Stays(w, "verify") /\ call' \in [Workers -> Calls]  BY <1>2, Goes DEF PCs
  <2> QED  BY <1>1, <1>2, <2>1
<1>3. CASE Become(w, q) /\ files' = files
  <2>1. q \in Calls /\ HasFields(q, "fail", c.content, c.id, c.version, "failed", c.todo)
    BY CallFields DEF Calls, PCs, Statuses, HasFields
  <2> HIDE DEF q, c
  <2>2. /\ Turn(w, "fail", c.content, c.id, c.version, "failed", c.todo)
        /\ call' \in [Workers -> Calls]
    BY <1>3, <2>1, TurnsInto
  <2> QED  BY <1>1, <1>3, <2>2 DEF c
<1> QED  BY <1>2, <1>3 DEF StorePut

(* What was read back decides whether the row becomes ready; only a good    *)
(* file does.                                                               *)
LEMMA VerifyTurns ==
  ASSUME TypeOK, NEW w \in Workers, VerifyStored(w)
  PROVE  /\ At(w, "verify") /\ call' \in [Workers -> Calls]
         /\ UNCHANGED <<catalogVars, files, counters>>
         /\ LET c == call[w] IN
            \/ Stays(w, "ready") /\ files[Key(w)] = "good"
            \/ \E status \in {"quarantined", "failed"} :
                 Turn(w, "fail", c.content, c.id, c.version, status, c.todo)
<1> DEFINE c == call[w]
           status == IF files[Key(w)] = "bad" THEN "quarantined" ELSE "failed"
           p == [call[w] EXCEPT !.pc = "ready"]
           q == [call[w] EXCEPT !.pc = "fail", !.status = status]
<1>1. At(w, "verify") /\ UNCHANGED <<catalogVars, files, counters>>  BY DEF VerifyStored
<1>2. CASE files[Key(w)] = "good"
  <2>1. Goto(w, "ready")  BY <1>2 DEF VerifyStored, Goto
  <2> QED  BY <1>1, <1>2, <2>1, Goes DEF PCs
<1>3. CASE files[Key(w)] # "good"
  <2>1. Become(w, q)  BY <1>3 DEF VerifyStored
  <2>2. status \in {"quarantined", "failed"}  OBVIOUS
  <2> HIDE DEF status
  <2>3. q \in Calls /\ HasFields(q, "fail", c.content, c.id, c.version, status, c.todo)
    BY <2>2, CallFields DEF Calls, PCs, Statuses, HasFields
  <2> HIDE DEF q, c
  <2>4. /\ Turn(w, "fail", c.content, c.id, c.version, status, c.todo)
        /\ call' \in [Workers -> Calls]
    BY <2>1, <2>3, TurnsInto
  <2> QED  BY <1>1, <2>2, <2>4 DEF c
<1> QED  BY <1>2, <1>3

(* The steps that settle a row, and those of reading.                       *)
LEMMA SettleTurns ==
  ASSUME TypeOK, NEW w \in Workers
  PROVE  /\ MarkReady(w) \/ MarkFailed(w) \/ PutLineage(w) \/ ReadFile(w) \/ Quarantine(w) =>
              call' \in [Workers -> Calls]
         /\ MarkReady(w) => /\ At(w, "ready") /\ Stays(w, "lineage") /\ Replace(Key(w), "ready")
                            /\ UNCHANGED <<lineage, files, counters>>
         /\ MarkFailed(w) => /\ At(w, "fail") /\ Over(w) /\ Replace(Key(w), call[w].status)
                             /\ UNCHANGED <<lineage, files, counters>>
         /\ PutLineage(w) => /\ At(w, "lineage") /\ Over(w)
                             /\ lineage' = lineage \union {Key(w)}
                             /\ UNCHANGED <<rows, files, counters>>
         /\ ReadFile(w) => /\ At(w, "read") /\ (Over(w) \/ Stays(w, "quarantine"))
                           /\ UNCHANGED <<catalogVars, files, counters>>
         /\ Quarantine(w) => /\ At(w, "quarantine") /\ Over(w)
                             /\ Replace(Key(w), "quarantined")
                             /\ UNCHANGED <<lineage, files, counters>>
<1>1. MarkReady(w) => /\ At(w, "ready") /\ Stays(w, "lineage") /\ Replace(Key(w), "ready")
                      /\ UNCHANGED <<lineage, files, counters>>
                      /\ call' \in [Workers -> Calls]
  BY Goes DEF MarkReady, PCs
<1>2. MarkFailed(w) => /\ At(w, "fail") /\ Over(w) /\ Replace(Key(w), call[w].status)
                       /\ UNCHANGED <<lineage, files, counters>>
                       /\ call' \in [Workers -> Calls]
  BY Returns DEF MarkFailed
<1>3. PutLineage(w) => /\ At(w, "lineage") /\ Over(w) /\ lineage' = lineage \union {Key(w)}
                       /\ UNCHANGED <<rows, files, counters>>
                       /\ call' \in [Workers -> Calls]
  BY Returns DEF PutLineage
<1>4. ReadFile(w) => /\ At(w, "read") /\ (Over(w) \/ Stays(w, "quarantine"))
                     /\ UNCHANGED <<catalogVars, files, counters>>
                     /\ call' \in [Workers -> Calls]
  BY Goes, Returns DEF ReadFile, PCs
<1>5. Quarantine(w) => /\ At(w, "quarantine") /\ Over(w) /\ Replace(Key(w), "quarantined")
                       /\ UNCHANGED <<lineage, files, counters>>
                       /\ call' \in [Workers -> Calls]
  BY Returns DEF Quarantine
<1> QED  BY <1>1, <1>2, <1>3, <1>4, <1>5

(* Archiving replaces one row of those it selected and goes on with the     *)
(* rest.                                                                    *)
LEMMA ArchiveTurns ==
  ASSUME TypeOK, NEW w \in Workers, ArchiveOne(w)
  PROVE  /\ At(w, "archive") /\ call' \in [Workers -> Calls]
         /\ UNCHANGED <<lineage, files, counters>>
         /\ LET c == call[w] IN
            \E k \in c.todo :
              /\ Replace(k, "archived") /\ k \in Keys
              /\ \/ Over(w)
                 \/ Turn(w, "archive", c.content, c.id, c.version, c.status, c.todo \ {k})
<1>1. PICK k \in call[w].todo :
        /\ Replace(k, "archived")
        /\ Return(w) \/ Become(w, [call[w] EXCEPT !.todo = @ \ {k}])
  BY DEF ArchiveOne
<1> DEFINE c == call[w]
           q == [call[w] EXCEPT !.todo = @ \ {k}]
<1>2. At(w, "archive") /\ UNCHANGED <<lineage, files, counters>>  BY DEF ArchiveOne
<1>3. k \in Keys  BY CallFields
<1>4. CASE Return(w)  BY <1>1, <1>2, <1>3, <1>4, Returns
<1>5. CASE Become(w, q)
  <2>1. c.todo \ {k} \in SUBSET Keys /\ c.pc = "archive"  BY <1>2, CallFields DEF At
  <2>2. /\ q \in Calls
        /\ HasFields(q, "archive", c.content, c.id, c.version, c.status, c.todo \ {k})
    BY <2>1, CallFields DEF Calls, HasFields
  <2> HIDE DEF q, c
  <2>3. /\ Turn(w, "archive", c.content, c.id, c.version, c.status, c.todo \ {k})
        /\ call' \in [Workers -> Calls]
    BY <1>5, <2>2, TurnsInto
  <2> QED  BY <1>1, <1>2, <1>3, <2>3 DEF c
<1> QED  BY <1>1, <1>4, <1>5

-----------------------------------------------------------------------------
(* What a step makes of the rows and files.                                 *)

(* A row is made, settled by the one who makes it, or taken back.           *)
MakesRow(w) ==
  /\ PutPending(w) /\ Key(w) \in Keys /\ rows[Key(w)] = NoRow
  /\ call[w].content \in Contents
  /\ rows' = [rows EXCEPT ![Key(w)] = [status |-> "pending", content |-> call[w].content]]
SettlesRow(w) ==
  /\ Makes(w) /\ Key(w) \in Keys /\ rows[Key(w)].status = "pending"
  /\ \E status \in {"ready", "failed", "quarantined"} :
       /\ rows' = [rows EXCEPT ![Key(w)].status = status]
       /\ status = "ready" => MarkReady(w)
TakesBackRow ==
  \E k \in Keys, status \in {"failed", "quarantined", "archived"} :
    /\ rows[k].status \in Settled
    /\ failures = 0 => rows[k].status # "failed" /\ status # "failed"
    /\ rows' = [rows EXCEPT ![k].status = status]

(* Whatever a thread does, it leaves the rows alone, makes one, settles the *)
(* one it made, or takes one back.                                          *)
LEMMA RowStep ==
  ASSUME TypeOK, NEW w \in Workers, Creates(w), Handles(w), Begin(w) \/ Serve(w)
  PROVE  rows' = rows \/ MakesRow(w) \/ SettlesRow(w) \/ TakesBackRow
<1>1. CASE Begin(w) \/ CheckUsage(w) \/ Latest(w) \/ StorePut(w) \/ VerifyStored(w)
             \/ PutLineage(w) \/ ReadFile(w)
  BY <1>1, BeginTurns DEF CheckUsage, Latest, StorePut, VerifyStored, PutLineage, ReadFile,
                          catalogVars
<1>2. CASE PutPending(w)
  <2>1. Key(w) \in Keys /\ call[w].content \in Contents  BY <1>2, PutTurns DEF Creates
  <2>2. Key(w) \notin Rows => rows[Key(w)] = NoRow  BY <2>1 DEF Rows
  <2> QED  BY <1>2, <2>1, <2>2, PutTurns DEF MakesRow
<1>3. CASE MarkReady(w)
  <2>1. At(w, "ready") /\ rows' = [rows EXCEPT ![Key(w)].status = "ready"]
    BY <1>3, SettleTurns DEF Replace
  <2>2. Makes(w) /\ Key(w) \in Keys /\ rows[Key(w)].status = "pending"
    BY <2>1 DEF Creates, Makes, At
  <2> QED  BY <1>3, <2>1, <2>2 DEF SettlesRow
<1>4. CASE MarkFailed(w)
  <2>1. At(w, "fail") /\ rows' = [rows EXCEPT ![Key(w)].status = call[w].status]
    BY <1>4, SettleTurns DEF Replace
  <2>2. /\ Makes(w) /\ Key(w) \in Keys /\ call[w].status \in {"failed", "quarantined"}
        /\ \/ rows[Key(w)].status = "pending"
           \/ rows[Key(w)].status \in Settled /\ failures # 0
    BY <2>1 DEF Creates, Makes, At
  <2>3. CASE rows[Key(w)].status = "pending"  BY <2>1, <2>2, <2>3 DEF SettlesRow
  <2>4. CASE rows[Key(w)].status \in Settled /\ failures # 0
    BY <2>1, <2>2, <2>4 DEF TakesBackRow
  <2> QED  BY <2>2, <2>3, <2>4
<1>5. CASE Quarantine(w)
  <2>1. At(w, "quarantine") /\ rows' = [rows EXCEPT ![Key(w)].status = "quarantined"]
    BY <1>5, SettleTurns DEF Replace
  <2>2. /\ Key(w) \in Keys /\ rows[Key(w)].status \in Settled
        /\ failures = 0 => rows[Key(w)].status # "failed"
    BY <2>1 DEF Handles, Offered, At
  <2> QED  BY <2>1, <2>2 DEF TakesBackRow
<1>6. CASE ArchiveOne(w)
  <2>1. PICK k \in call[w].todo : k \in Keys /\ rows' = [rows EXCEPT ![k].status = "archived"]
    BY <1>6, ArchiveTurns DEF Replace
  <2>2. rows[k].status \in Settled /\ (failures = 0 => rows[k].status # "failed")
    BY <1>6, <2>1, ArchiveTurns DEF Handles, Offered
  <2> QED  BY <2>1, <2>2 DEF TakesBackRow
<1> QED  BY <1>1, <1>2, <1>3, <1>4, <1>5, <1>6 DEF Serve

(* A row keeps its type with another status, and the other rows stay.       *)
LEMMA RowType ==
  ASSUME TypeOK, NEW k \in Keys
  PROVE  /\ rows[k] \in Row /\ Keys = DOMAIN rows
         /\ \A status \in Statuses :
              /\ [rows EXCEPT ![k].status = status] \in [Keys -> Row]
              /\ [rows EXCEPT ![k].status = status][k].status = status
              /\ \A m \in Keys \ {k} : [rows EXCEPT ![k].status = status][m] = rows[m]
<1>1. rows[k] \in Row /\ Keys = DOMAIN rows /\ rows \in [Keys -> Row]  BY DEF TypeOK
<1>2. ASSUME NEW status \in Statuses
      PROVE  /\ [rows EXCEPT ![k].status = status] \in [Keys -> Row]
             /\ [rows EXCEPT ![k].status = status][k].status = status
             /\ \A m \in Keys \ {k} : [rows EXCEPT ![k].status = status][m] = rows[m]
  <2> DEFINE r == [rows[k] EXCEPT !.status = status]
  <2>1. r \in Row /\ r.status = status  BY <1>1 DEF Row
  <2>2. [rows EXCEPT ![k].status = status] = [rows EXCEPT ![k] = r]  OBVIOUS
  <2> HIDE DEF r
  <2> QED  BY <1>1, <2>1, <2>2
<1> QED  BY <1>1, <1>2

(* The row of any version after a step.                                     *)
LEMMA RowsKept ==
  ASSUME TypeOK, NEW w \in Workers, Creates(w), Handles(w), Begin(w) \/ Serve(w)
  PROVE  /\ rows' \in [Keys -> Row]
         /\ \A k \in Keys :
              /\ rows[k].status \in Settled => rows'[k].status \in Settled
              /\ Offered(k) => rows'[k].status \in IF failures = 0 THEN Settled \ {"failed"}
                                                   ELSE Settled
              /\ rows[k].status = "pending" /\ ~(Makes(w) /\ Key(w) = k) => rows'[k] = rows[k]
              /\ rows'[k].status = "ready" =>
                   rows[k].status = "ready" \/ (MarkReady(w) /\ Key(w) = k)
<1>1. CASE rows' = rows  BY <1>1 DEF TypeOK, Offered
<1>2. CASE MakesRow(w)
  <2> DEFINE r == [status |-> "pending", content |-> call[w].content]
  <2>1. r \in Row /\ r.status = "pending"  BY <1>2 DEF MakesRow, Row, Statuses
  <2>2. /\ Key(w) \in Keys /\ rows' = [rows EXCEPT ![Key(w)] = r]
        /\ rows[Key(w)].status = "absent" /\ rows \in [Keys -> Row]
    BY <1>2 DEF MakesRow, NoRow, TypeOK
  <2> HIDE DEF r
  <2> QED  BY <2>1, <2>2 DEF Settled, Offered
<1>3. CASE SettlesRow(w)
  <2>1. PICK status \in {"ready", "failed", "quarantined"} :
          /\ rows' = [rows EXCEPT ![Key(w)].status = status]
          /\ status = "ready" => MarkReady(w)
    BY <1>3 DEF SettlesRow
  <2>2. Makes(w) /\ Key(w) \in Keys /\ rows[Key(w)].status = "pending"  BY <1>3 DEF SettlesRow
  <2>3. status \in Statuses  BY DEF Statuses
  <2>4. /\ rows' \in [Keys -> Row] /\ rows'[Key(w)].status = status
        /\ \A m \in Keys \ {Key(w)} : rows'[m] = rows[m]
    BY <2>1, <2>2, <2>3, RowType
  <2> QED  BY <2>1, <2>2, <2>4 DEF Settled, Offered
<1>4. CASE TakesBackRow
  <2>1. PICK k \in Keys, status \in {"failed", "quarantined", "archived"} :
          /\ rows[k].status \in Settled
          /\ failures = 0 => rows[k].status # "failed" /\ status # "failed"
          /\ rows' = [rows EXCEPT ![k].status = status]
    BY <1>4 DEF TakesBackRow
  <2>2. status \in Statuses  BY DEF Statuses
  <2>3. /\ rows' \in [Keys -> Row] /\ rows'[k].status = status
        /\ \A m \in Keys \ {k} : rows'[m] = rows[m]
    BY <2>1, <2>2, RowType
  <2> QED  BY <2>1, <2>3 DEF Settled, Offered
<1> QED  BY <1>1, <1>2, <1>3, <1>4, RowStep

(* Only the one who makes a row writes its file, and only what is not there *)
(* yet becomes pending.                                                     *)
LEMMA FilesKept ==
  ASSUME TypeOK, NEW w \in Workers, Creates(w), Begin(w) \/ Serve(w)
  PROVE  /\ files' \in [Keys -> {"none", "good", "bad"}]
         /\ \A k \in Keys : ~(At(w, "store") /\ Key(w) = k) => files'[k] = files[k]
         /\ calls' \in Nat /\ crashes' = crashes /\ damages' = damages
         /\ failures' = failures
         /\ lineage' \subseteq Keys /\ lineage \subseteq lineage'
         /\ call' \in [Workers -> Calls] /\ Apart(w)
<1>1. CASE Begin(w)  BY <1>1, BeginTurns DEF TypeOK
<1>2. CASE StorePut(w)
  <2>1. At(w, "store") /\ UNCHANGED <<catalogVars, counters>> /\ call' \in [Workers -> Calls]
        /\ Apart(w)
    BY <1>2, StoreTurns DEF Stays, Turn
  <2>2. \/ files' = files
        \/ \E file \in {"good", "bad"} : files' = [files EXCEPT ![Key(w)] = file]
    BY <1>2, StoreTurns
  <2> QED  BY <2>1, <2>2 DEF TypeOK, catalogVars, counters
<1>3. CASE PutLineage(w)
  <2>1. /\ At(w, "lineage") /\ Over(w) /\ lineage' = lineage \union {Key(w)}
        /\ UNCHANGED <<rows, files, counters>> /\ call' \in [Workers -> Calls]
    BY <1>3, SettleTurns
  <2>2. Key(w) \in Keys  BY <2>1 DEF Creates
  <2> QED  BY <2>1, <2>2 DEF TypeOK, Over, counters
<1>4. CASE CheckUsage(w) \/ Latest(w)
  <2>1. UNCHANGED <<catalogVars, files, counters>>  BY <1>4 DEF CheckUsage, Latest
  <2>2. call' \in [Workers -> Calls] /\ Apart(w)
    BY <1>4, CheckTurns, LatestTurns DEF Over, Stays, Turn
  <2> QED  BY <2>1, <2>2 DEF TypeOK, catalogVars, counters
<1>5. CASE PutPending(w)
  <2>1. UNCHANGED <<lineage, files, counters>> /\ call' \in [Workers -> Calls] /\ Apart(w)
    BY <1>5, PutTurns DEF Over, Stays, Turn
  <2> QED  BY <2>1 DEF TypeOK, counters
<1>6. CASE VerifyStored(w)
  <2>1. UNCHANGED <<catalogVars, files, counters>> /\ call' \in [Workers -> Calls] /\ Apart(w)
    BY <1>6, VerifyTurns DEF Stays, Turn
  <2> QED  BY <2>1 DEF TypeOK, catalogVars, counters
<1>7. CASE MarkReady(w) \/ MarkFailed(w) \/ ReadFile(w) \/ Quarantine(w)
  <2>1. UNCHANGED <<lineage, files, counters>> /\ call' \in [Workers -> Calls] /\ Apart(w)
    BY <1>7, SettleTurns DEF Over, Stays, Turn, catalogVars
  <2> QED  BY <2>1 DEF TypeOK, counters
<1>8. CASE ArchiveOne(w)
  <2>1. UNCHANGED <<lineage, files, counters>> /\ call' \in [Workers -> Calls] /\ Apart(w)
    BY <1>8, ArchiveTurns DEF Over, Turn
  <2> QED  BY <2>1 DEF TypeOK, counters
<1> QED  BY <1>1, <1>2, <1>3, <1>4, <1>5, <1>6, <1>7, <1>8 DEF Serve

-----------------------------------------------------------------------------
(* A step keeps the invariant.                                              *)

(* The call that takes the step.                                            *)
LEMMA OwnStep ==
  ASSUME TypeOK, NEW w \in Workers, Creates(w), Handles(w), Begin(w) \/ Serve(w)
  PROVE  /\ (Creates(w) /\ Handles(w))'
         /\ Makes(w)' => \/ Makes(w) /\ Key(w)' = Key(w)
                         \/ Key(w) \notin Rows /\ Key(w)' = Key(w)
         /\ At(w, "ready")' => files[Key(w)'] = "good" /\ files' = files
         /\ At(w, "lineage") => PutLineage(w)
<1> USE DEF At, Makes
<1>k. /\ failures' = failures
      /\ \A k \in Keys : Offered(k) => Offered(k)'
  BY RowsKept, FilesKept DEF Offered
<1>i. call'[w] = IdleCall => (Creates(w) /\ Handles(w))' /\ ~Makes(w)' /\ ~At(w, "ready")'
  BY DEF Creates, Handles, IdleCall
<1>1. CASE Begin(w)
  <2>1. call[w].pc = "idle" /\ rows' = rows  BY <1>1, BeginTurns
  <2>2. CASE call'[w].pc = "usage" /\ call'[w].content \in Contents /\ call'[w].version = 1
    BY <2>1, <2>2 DEF Creates, Handles
  <2>3. CASE call'[w].pc = "read" /\ Key(w)' \in Keys /\ rows[Key(w)'].status = "ready"
    BY <2>1, <2>3 DEF Creates, Handles, Offered, Settled
  <2>4. CASE call'[w].pc = "archive" /\ \A k \in call'[w].todo : rows[k].status = "ready"
    BY <2>1, <2>4 DEF Creates, Handles, Offered, Settled
  <2> QED  BY <1>1, <2>2, <2>3, <2>4, BeginTurns
<1>2. CASE CheckUsage(w)
  <2>1. call[w].pc = "usage" /\ call[w].content \in Contents /\ call[w].version = 1
    BY <1>2, CheckTurns DEF Creates
  <2>2. CASE Over(w)  BY <2>1, <2>2, <1>i DEF Over
  <2>3. CASE LET c == call[w] IN Turn(w, "put", c.content, c.content, c.version, c.status, c.todo)
    <3>1. call'[w].pc = "put" /\ call'[w].content \in Contents /\ Key(w)' = <<call[w].content, 1>>
      BY <2>1, <2>3 DEF Turn, HasFields, Key
    <3>2. Key(w)' \in Keys  BY <2>1, <3>1, AssetAssumption DEF Keys
    <3> QED  BY <2>1, <3>1, <3>2 DEF Creates, Handles
  <2>4. CASE call[w].id # NoId /\ Stays(w, "latest")
    <3>1. /\ call'[w].pc = "latest" /\ call'[w].content = call[w].content
          /\ call'[w].id = call[w].id
      BY <2>4 DEF Stays, Turn, HasFields
    <3>2. call[w].id \in Contents  BY <2>4, CallFields
    <3> QED  BY <2>1, <3>1, <3>2 DEF Creates, Handles
  <2> QED  BY <1>2, <2>2, <2>3, <2>4, CheckTurns
<1>3. CASE Latest(w)
  <2>1. call[w].pc = "latest" /\ call[w].content \in Contents /\ call[w].id \in Contents
    BY <1>3, LatestTurns DEF Creates
  <2>2. CASE Over(w)  BY <2>1, <2>2, <1>i DEF Over
  <2>3. CASE LET c == call[w] IN
             \E n \in 1 .. MaxVersion : Turn(w, "put", c.content, c.id, n, c.status, c.todo)
    <3>1. PICK n \in 1 .. MaxVersion :
            Turn(w, "put", call[w].content, call[w].id, n, call[w].status, call[w].todo)
      BY <2>3
    <3>2. call'[w].pc = "put" /\ call'[w].content \in Contents /\ Key(w)' = <<call[w].id, n>>
      BY <2>1, <3>1 DEF Turn, HasFields, Key
    <3>3. Key(w)' \in Keys  BY <2>1, <3>2 DEF Keys
    <3> QED  BY <2>1, <3>2, <3>3 DEF Creates, Handles
  <2> QED  BY <1>3, <2>2, <2>3, LatestTurns
<1>4. CASE PutPending(w)
  <2>1. call[w].pc = "put" /\ Key(w) \in Keys  BY <1>4, PutTurns DEF Creates
  <2>2. CASE Over(w)  BY <2>1, <2>2, <1>i DEF Over
  <2>3. CASE /\ Stays(w, "store") /\ Key(w) \notin Rows
             /\ rows' = [rows EXCEPT ![Key(w)] =
                           [status |-> "pending", content |-> call[w].content]]
    <3>1. call'[w].pc = "store" /\ Key(w)' = Key(w)
      BY <2>3 DEF Stays, Turn, HasFields, Key
    <3>2. rows'[Key(w)].status = "pending"  BY <2>1, <2>3 DEF TypeOK
    <3> QED  BY <2>1, <2>3, <3>1, <3>2 DEF Creates, Handles
  <2> QED  BY <1>4, <2>2, <2>3, PutTurns
<1>5. CASE StorePut(w)
  <2>1. /\ call[w].pc = "store" /\ rows' = rows /\ Key(w) \in Keys
        /\ rows[Key(w)].status = "pending"
    BY <1>5, StoreTurns DEF Creates, catalogVars
  <2>2. /\ Key(w)' = Key(w)
        /\ \/ call'[w].pc = "verify"
           \/ call'[w].pc = "fail" /\ call'[w].status = "failed"
    BY <1>5, StoreTurns DEF Stays, Turn, HasFields, Key
  <2> QED  BY <2>1, <2>2 DEF Creates, Handles
<1>6. CASE VerifyStored(w)
  <2>1. /\ call[w].pc = "verify" /\ rows' = rows /\ files' = files /\ Key(w) \in Keys
        /\ rows[Key(w)].status = "pending"
    BY <1>6, VerifyTurns DEF Creates, catalogVars
  <2>2. /\ Key(w)' = Key(w)
        /\ \/ call'[w].pc = "ready" /\ files[Key(w)] = "good"
           \/ call'[w].pc = "fail" /\ call'[w].status \in {"quarantined", "failed"}
    <3>1. CASE Stays(w, "ready") /\ files[Key(w)] = "good"
      BY <3>1 DEF Stays, Turn, HasFields, Key
    <3>2. CASE LET c == call[w] IN
               \E status \in {"quarantined", "failed"} :
                 Turn(w, "fail", c.content, c.id, c.version, status, c.todo)
      BY <3>2 DEF Turn, HasFields, Key
    <3> QED  BY <1>6, <3>1, <3>2, VerifyTurns
  <2> QED  BY <2>1, <2>2 DEF Creates, Handles
<1>7. CASE MarkReady(w)
  <2>1. call[w].pc = "ready" /\ Key(w) \in Keys  BY <1>7, SettleTurns DEF Creates
  <2>2. call'[w].pc = "lineage" /\ Key(w)' = Key(w)
    BY <1>7, SettleTurns DEF Stays, Turn, HasFields, Key
  <2>3. rows'[Key(w)].status = "ready"
    <3>1. rows' = [rows EXCEPT ![Key(w)].status = "ready"]  BY <1>7, SettleTurns DEF Replace
    <3>2. "ready" \in Statuses  BY DEF Statuses
    <3> QED  BY <2>1, <3>1, <3>2, RowType
  <2> QED  BY <2>1, <2>2, <2>3 DEF Creates, Handles, Settled
<1>8. CASE MarkFailed(w) \/ PutLineage(w) \/ Quarantine(w)
  <2>1. call[w].pc \in {"fail", "lineage", "quarantine"} /\ Over(w)
        /\ (call[w].pc = "lineage" => PutLineage(w))
    BY <1>8, SettleTurns
  <2> QED  BY <2>1, <1>i DEF Over
<1>9. CASE ReadFile(w)
  <2>1. /\ call[w].pc = "read" /\ rows' = rows /\ Key(w) \in Keys
        /\ Offered(Key(w))
    BY <1>9, SettleTurns DEF Handles, catalogVars
  <2>2. CASE Over(w)  BY <2>1, <2>2, <1>i DEF Over
  <2>3. CASE Stays(w, "quarantine")
    <3>1. call'[w].pc = "quarantine" /\ Key(w)' = Key(w)
      BY <2>3 DEF Stays, Turn, HasFields, Key
    <3> QED  BY <1>k, <2>1, <3>1 DEF Creates, Handles
  <2> QED  BY <1>9, <2>2, <2>3, SettleTurns
<1>10. CASE ArchiveOne(w)
  <2>1. call[w].pc = "archive" /\ \A k \in call[w].todo : k \in Keys /\ Offered(k)
    BY <1>10, ArchiveTurns, CallFields DEF Handles
  <2>2. CASE Over(w)  BY <2>1, <2>2, <1>i DEF Over
  <2>3. CASE ~Over(w)
    <3>0. PICK k \in call[w].todo :
            LET c == call[w] IN
            Turn(w, "archive", c.content, c.id, c.version, c.status, c.todo \ {k})
      BY <1>10, <2>3, ArchiveTurns
    <3>1. call'[w].pc = "archive" /\ call'[w].todo \subseteq call[w].todo
      BY <3>0 DEF Turn, HasFields
    <3>2. \A m \in call'[w].todo : Offered(m)'  BY <2>1, <3>1, <1>k
    <3> QED  BY <2>1, <3>1, <3>2 DEF Creates, Handles
  <2> QED  BY <2>2, <2>3
<1> QED  BY <1>1, <1>2, <1>3, <1>4, <1>5, <1>6, <1>7, <1>8, <1>9, <1>10 DEF Serve

(* The steps of the threads keep the invariant.                             *)
LEMMA AssetStep ==
  ASSUME AssetInv, NEW w \in Workers, Begin(w) \/ Serve(w)
  PROVE  AssetInv'
<1>0. TypeOK /\ Creates(w) /\ Handles(w)  BY DEF AssetInv
<1>1. TypeOK'
  BY <1>0, RowsKept, FilesKept DEF TypeOK
<1>2. ASSUME NEW v \in Workers \ {w}
      PROVE  /\ call'[v] = call[v] /\ Key(v)' = Key(v)
             /\ (Creates(v) /\ Handles(v))'
             /\ Makes(v) => Key(v) \in Keys /\ Key(v) \in Rows /\ ~(Makes(w) /\ Key(w) = Key(v))
  <2>1. call'[v] = call[v] /\ Key(v)' = Key(v)  BY <1>0, FilesKept DEF Apart, Key
  <2>2. Creates(v) /\ Handles(v) /\ call[v].todo \in SUBSET Keys
    BY <1>0, CallFields DEF AssetInv
  <2>3. Makes(v) => /\ Key(v) \in Keys /\ rows[Key(v)].status \in {"pending"} \union Settled
                    /\ ~(Makes(w) /\ Key(w) = Key(v))
    BY <2>2 DEF AssetInv, OneMaker, Creates, Makes, At
  <2>4. Makes(v) =>
          /\ rows[Key(v)].status = "pending" => rows'[Key(v)] = rows[Key(v)]
          /\ rows[Key(v)].status \in Settled => rows'[Key(v)].status \in Settled
    BY <1>0, <2>3, RowsKept
  <2>8. failures' = failures  BY <1>0, FilesKept
  <2>5. Creates(v)'  BY <2>1, <2>2, <2>3, <2>4, <2>8 DEF Creates, Makes, At
  <2>6. Handles(v)'
    <3>1. \A k \in Keys : Offered(k) => Offered(k)'
      BY <1>0, <2>8, RowsKept DEF Offered
    <3> QED  BY <2>1, <2>2, <3>1 DEF Handles, At
  <2>7. Makes(v) => Key(v) \in Rows  BY <2>3 DEF Rows, NoRow, Settled
  <2> QED  BY <2>1, <2>3, <2>5, <2>6, <2>7
<1>3. \A v \in Workers : (Creates(v) /\ Handles(v))'
  BY <1>0, <1>2, OwnStep
<1>4. OneMaker'
  <2>1. ASSUME NEW v \in Workers \ {w}, Makes(v)', Makes(w)'
        PROVE  Key(v)' # Key(w)'
    <3>1. Makes(v) /\ Key(v)' = Key(v)  BY <1>2, <2>1 DEF Makes
    <3> QED  BY <1>0, <1>2, <2>1, <3>1, OwnStep
  <2>2. ASSUME NEW u \in Workers \ {w}, NEW v \in Workers \ {w}, Makes(u)', Makes(v)',
               Key(u)' = Key(v)'
        PROVE  u = v
    BY <1>2, <2>2 DEF AssetInv, OneMaker, Makes
  <2>3. SUFFICES ASSUME NEW u \in Workers, NEW v \in Workers, Makes(u)', Makes(v)',
                        Key(u)' = Key(v)'
                 PROVE  u = v
    BY DEF OneMaker
  <2> QED  BY <2>1, <2>2, <2>3
<1>5. StoredInv'
  <2>1. SUFFICES ASSUME damages' = 0, NEW v \in Workers, At(v, "ready")'
                 PROVE  files'[Key(v)'] = "good"
    BY DEF StoredInv
  <2>2. CASE v = w  BY <1>0, <2>1, <2>2, OwnStep
  <2>3. CASE v # w
    <3>1. At(v, "ready") /\ Makes(v) /\ Key(v)' = Key(v)  BY <1>2, <2>1, <2>3 DEF At, Makes
    <3>2. Key(v) \in Keys /\ ~(At(w, "store") /\ Key(w) = Key(v))
      BY <1>2, <2>3, <3>1 DEF At, Makes
    <3>3. damages = 0  BY <1>0, <2>1, FilesKept
    <3>4. files[Key(v)] = "good"  BY <3>1, <3>3 DEF AssetInv, StoredInv
    <3> QED  BY <1>0, <3>1, <3>2, <3>4, FilesKept
  <2> QED  BY <2>2, <2>3
<1>6. ReadyIsStored'
  <2>1. SUFFICES ASSUME damages' = 0, NEW k \in Keys, rows'[k].status = "ready"
                 PROVE  files'[k] = "good"
    BY DEF ReadyIsStored
  <2>2. damages = 0  BY <1>0, <2>1, FilesKept
  <2>3. CASE rows[k].status = "ready"
    <3>1. files[k] = "good"  BY <2>2, <2>3 DEF AssetInv, ReadyIsStored
    <3>2. ~(At(w, "store") /\ Key(w) = k)  BY <1>0, <2>3 DEF Creates, At
    <3> QED  BY <1>0, <3>1, <3>2, FilesKept
  <2>4. CASE MarkReady(w) /\ Key(w) = k
    <3>1. At(w, "ready") /\ files' = files  BY <1>0, <2>4, SettleTurns
    <3> QED  BY <2>2, <2>4, <3>1 DEF AssetInv, StoredInv
  <2> QED  BY <1>0, <2>1, <2>3, <2>4, RowsKept
<1>7. LineageFollows'
  <2>1. SUFFICES ASSUME NEW k \in Keys, rows'[k].status = "ready"
                 PROVE  \/ k \in lineage' \/ crashes' + failures' > 0
                        \/ \E v \in Workers : At(v, "lineage")' /\ Key(v)' = k
    BY DEF LineageFollows
  <2>2. CASE rows[k].status = "ready"
    <3>1. \/ k \in lineage \/ crashes + failures > 0
          \/ \E v \in Workers : At(v, "lineage") /\ Key(v) = k
      BY <2>2 DEF AssetInv, LineageFollows
    <3>2. CASE k \in lineage \/ crashes + failures > 0  BY <1>0, <3>2, FilesKept
    <3>3. CASE \E v \in Workers : At(v, "lineage") /\ Key(v) = k
      <4>1. PICK v \in Workers : At(v, "lineage") /\ Key(v) = k  BY <3>3
      <4>2. CASE v # w  BY <1>2, <4>1, <4>2 DEF At
      <4>3. CASE v = w
        <5>1. PutLineage(w)  BY <1>0, <4>1, <4>3, OwnStep
        <5> QED  BY <1>0, <4>1, <4>3, <5>1, SettleTurns
      <4> QED  BY <4>2, <4>3
    <3> QED  BY <3>1, <3>2, <3>3
  <2>3. CASE MarkReady(w) /\ Key(w) = k
    <3>1. At(w, "lineage")' /\ Key(w)' = Key(w)
      BY <1>0, <2>3, SettleTurns DEF Stays, Turn, HasFields, Key, At
    <3> QED  BY <2>3, <3>1
  <2> QED  BY <1>0, <2>1, <2>2, <2>3, RowsKept
<1> QED  BY <1>1, <1>3, <1>4, <1>5, <1>6, <1>7 DEF AssetInv

(* Damage to a file touches no row.                                         *)
LEMMA AssetDamage ==
  ASSUME AssetInv, Damage
  PROVE  AssetInv' /\ rows' = rows
<1>1. /\ UNCHANGED <<rows, lineage, call, calls, crashes, failures>> /\ damages' = damages + 1
      /\ TypeOK
  BY DEF Damage, catalogVars, AssetInv
<1>2. damages' # 0  BY <1>1 DEF TypeOK
<1>3. files' \in [Keys -> {"none", "good", "bad"}]  BY <1>1 DEF Damage, TypeOK
<1>4. TypeOK'  BY <1>1, <1>3 DEF TypeOK
<1>5. OneMaker' /\ (\A w \in Workers : Creates(w) /\ Handles(w))' /\ LineageFollows'
  BY <1>1 DEF AssetInv, OneMaker, Makes, Creates, Handles, Offered, LineageFollows, Key, At
<1> QED  BY <1>1, <1>2, <1>4, <1>5 DEF AssetInv, StoredInv, ReadyIsStored

(* A crash touches no row.                                                  *)
LEMMA AssetCrash ==
  ASSUME AssetInv, Crash
  PROVE  AssetInv' /\ rows' = rows
<1>1. /\ UNCHANGED <<rows, lineage, files, calls, damages, failures>> /\ crashes' = crashes + 1
      /\ call' = [w \in Workers |-> IdleCall] /\ TypeOK
  BY DEF Crash, catalogVars, AssetInv
<1>2. \A w \in Workers : call'[w].pc = "idle"  BY <1>1 DEF IdleCall
<1>3. TypeOK'  BY <1>1, IdleType DEF TypeOK
<1>4. crashes' + failures' > 0  BY <1>1 DEF TypeOK
<1>5. OneMaker' /\ (\A w \in Workers : Creates(w) /\ Handles(w))' /\ StoredInv'
  BY <1>2 DEF OneMaker, Makes, Creates, Handles, StoredInv, At
<1> QED  BY <1>1, <1>3, <1>4, <1>5 DEF AssetInv, ReadyIsStored, LineageFollows

(* A catalog that fails leaves the rows as they are, and ends a call or has *)
(* it mark the asset it made as failed.                                     *)
LEMMA AssetFailure ==
  ASSUME AssetInv, NEW w \in Workers, CatalogFails(w)
  PROVE  AssetInv' /\ rows' = rows /\ failures' # 0
<1> DEFINE c == call[w]
           q == [c EXCEPT !.pc = "fail", !.status = "failed"]
<1>1. /\ UNCHANGED <<rows, lineage, files, calls, crashes, damages>>
      /\ failures' = failures + 1 /\ TypeOK
      /\ Return(w) \/ (c.pc \in {"ready", "lineage"} /\ Become(w, q))
  BY DEF CatalogFails, catalogVars, AssetInv
<1>2. failures' \in Nat /\ failures' # 0 /\ crashes' + failures' > 0  BY <1>1 DEF TypeOK
<1>3. /\ Apart(w) /\ call' \in [Workers -> Calls]
      /\ \/ call'[w] = IdleCall
         \/ /\ c.pc \in {"ready", "lineage"} /\ Key(w)' = Key(w)
            /\ call'[w].pc = "fail" /\ call'[w].status = "failed"
  <2>1. CASE Return(w)  BY <1>1, <2>1, Returns DEF Over
  <2>2. CASE c.pc \in {"ready", "lineage"} /\ Become(w, q)
    <3>1. q \in Calls /\ HasFields(q, "fail", c.content, c.id, c.version, "failed", c.todo)
      BY <1>1, CallFields DEF Calls, PCs, Statuses, HasFields
    <3> HIDE DEF q
    <3>2. /\ Turn(w, "fail", c.content, c.id, c.version, "failed", c.todo)
          /\ call' \in [Workers -> Calls]
      BY <1>1, <2>2, <3>1, TurnsInto
    <3> QED  BY <2>2, <3>2 DEF Turn, HasFields, Key
  <2> QED  BY <1>1, <2>1, <2>2
<1>4. TypeOK'  BY <1>1, <1>2, <1>3 DEF TypeOK
<1>5. (Creates(w) /\ Handles(w))' /\ ~At(w, "ready")'
      /\ (Makes(w)' => Makes(w) /\ Key(w)' = Key(w))
  <2>1. CASE call'[w] = IdleCall
    BY <2>1 DEF Creates, Handles, Makes, IdleCall, At
  <2>2. CASE /\ c.pc \in {"ready", "lineage"} /\ Key(w)' = Key(w)
             /\ call'[w].pc = "fail" /\ call'[w].status = "failed"
    <3>1. Key(w) \in Keys /\ rows[Key(w)].status \in {"pending"} \union Settled
      BY <2>2 DEF AssetInv, Creates, At
    <3> QED  BY <1>1, <1>2, <2>2, <3>1 DEF Creates, Handles, Makes, At
  <2> QED  BY <1>3, <2>1, <2>2
<1>6. ASSUME NEW v \in Workers \ {w}
      PROVE  call'[v] = call[v] /\ Key(v)' = Key(v) /\ (Creates(v) /\ Handles(v))'
  <2>1. call'[v] = call[v] /\ Key(v)' = Key(v)  BY <1>3 DEF Apart, Key
  <2>2. Creates(v) /\ Handles(v)  BY DEF AssetInv
  <2> QED  BY <1>1, <1>2, <2>1, <2>2 DEF Creates, Handles, Offered, At
<1>7. \A v \in Workers : (Creates(v) /\ Handles(v))'  BY <1>5, <1>6
<1>8. OneMaker'  BY <1>5, <1>6 DEF AssetInv, OneMaker, Makes
<1>9. StoredInv'  BY <1>1, <1>5, <1>6 DEF AssetInv, StoredInv, At
<1> QED  BY <1>1, <1>2, <1>4, <1>7, <1>8, <1>9 DEF AssetInv, ReadyIsStored, LineageFollows

-----------------------------------------------------------------------------
(* The invariant and what it yields.                                        *)

(* The empty catalog satisfies the invariant.                               *)
LEMMA InitAssets == Init => AssetInv
<1> SUFFICES ASSUME Init PROVE AssetInv  OBVIOUS
<1>1. \A w \in Workers : call[w].pc = "idle"  BY DEF Init, IdleCall
<1>2. \A k \in Keys : rows[k].status = "absent"  BY DEF Init, NoRow
<1>3. NoRow \in Row  BY DEF NoRow, Row
<1>4. TypeOK  BY <1>3, IdleType DEF Init, TypeOK
<1>5. OneMaker /\ StoredInv /\ (\A w \in Workers : Creates(w) /\ Handles(w))
  BY <1>1 DEF OneMaker, StoredInv, Makes, Creates, Handles, At
<1>6. ReadyIsStored /\ LineageFollows  BY <1>2 DEF ReadyIsStored, LineageFollows
<1> QED  BY <1>4, <1>5, <1>6 DEF AssetInv

(* Every step keeps it.                                                     *)
LEMMA StepAssets == AssetInv /\ [Next]_assetVars => AssetInv'
<1> SUFFICES ASSUME AssetInv, [Next]_assetVars PROVE AssetInv'  OBVIOUS
<1>1. CASE \E w \in Workers : Begin(w) \/ Serve(w)  BY <1>1, AssetStep
<1>5. CASE \E w \in Workers : CatalogFails(w)  BY <1>5, AssetFailure
<1>2. CASE Damage  BY <1>2, AssetDamage
<1>3. CASE Crash  BY <1>3, AssetCrash
<1>4. CASE UNCHANGED assetVars
  <2>1. UNCHANGED <<rows, lineage, files, call, calls, crashes, damages, failures>>
    BY <1>4 DEF assetVars, catalogVars, counters
  <2> QED  BY <2>1 DEF AssetInv, TypeOK, OneMaker, Makes, Creates, Handles, Offered, StoredInv,
                       ReadyIsStored, LineageFollows, Key, At
<1> QED  BY <1>1, <1>2, <1>3, <1>4, <1>5 DEF Next

(* The invariant holds in every reachable state.                            *)
THEOREM AssetInvariance == Spec => []AssetInv
<1> QED  BY InitAssets, StepAssets, PTL DEF Spec

(* Any number of threads create, read and archive assets, and the process   *)
(* may die at any step: what is ready has a file with its very content,     *)
(* unless a file was touched behind the service's back.                     *)
THEOREM ReadyStaysStored == Spec => []ReadyIsStored
<1>1. AssetInv => ReadyIsStored  BY DEF AssetInv
<1> QED  BY <1>1, AssetInvariance, PTL

(* A ready asset has its lineage, but for the moment until its creator puts *)
(* it and for a creator that died, or could not put it, then.               *)
THEOREM LineageIsPut == Spec => []LineageFollows
<1>1. AssetInv => LineageFollows  BY DEF AssetInv
<1> QED  BY <1>1, AssetInvariance, PTL

(* A version is made once, with the content it keeps, and what failed or    *)
(* was taken back never becomes ready again.                                *)
THEOREM AssetsLiveOnce == Spec => ImplementsAssetLife
<1>1. Init => Promise!Init  BY DEF Init, Promise!Init
<1>2. AssetInv /\ [Next]_assetVars => [Promise!Next]_rows
  <2> SUFFICES ASSUME AssetInv, [Next]_assetVars
               PROVE  Promise!Next \/ rows' = rows
    OBVIOUS
  <2>1. CASE \E w \in Workers : Begin(w) \/ Serve(w)
    <3>1. PICK w \in Workers : Begin(w) \/ Serve(w)  BY <2>1
    <3>2. rows' = rows \/ MakesRow(w) \/ SettlesRow(w) \/ TakesBackRow
      BY <3>1, RowStep DEF AssetInv
    <3>3. CASE MakesRow(w)
      <4>1. PICK k \in Keys : k = Key(w)  BY <3>3 DEF MakesRow
      <4>2. PICK content \in Contents : content = call[w].content  BY <3>3 DEF MakesRow
      <4>3. Promise!Make(k, content)  BY <3>3, <4>1, <4>2 DEF MakesRow, Promise!Make
      <4> QED  BY <4>1, <4>2, <4>3 DEF Promise!Next
    <3>4. CASE SettlesRow(w)
      <4>1. PICK k \in Keys : k = Key(w)  BY <3>4 DEF SettlesRow
      <4>2. Promise!Settle(k)  BY <3>4, <4>1 DEF SettlesRow, Promise!Settle
      <4> QED  BY <4>1, <4>2 DEF Promise!Next
    <3>5. CASE TakesBackRow
      <4>1. PICK k \in Keys, status \in {"failed", "quarantined", "archived"} :
              rows[k].status \in Settled /\ rows' = [rows EXCEPT ![k].status = status]
        BY <3>5 DEF TakesBackRow
      <4>2. Promise!TakeBack(k)
        BY <4>1 DEF Promise!TakeBack, Promise!Over, Settled
      <4> QED  BY <4>1, <4>2 DEF Promise!Next
    <3> QED  BY <3>2, <3>3, <3>4, <3>5
  <2>2. CASE Damage \/ Crash \/ \E w \in Workers : CatalogFails(w)
    BY <2>2, AssetDamage, AssetCrash, AssetFailure
  <2>3. CASE UNCHANGED assetVars  BY <2>3 DEF assetVars, catalogVars
  <2> QED  BY <2>1, <2>2, <2>3 DEF Next
<1> QED  BY <1>1, <1>2, AssetInvariance, PTL DEF Spec, ImplementsAssetLife, Promise!Spec

-----------------------------------------------------------------------------
(* Sums are folds that take one element after the other off a set.          *)
One(S) == CHOOSE x \in S : TRUE

(* What the sum over S is, given the sums over its subsets.                 *)
SumStep(f, sum, S) == IF S = {} THEN 0 ELSE f[One(S)] + sum[S \ {One(S)}]

SumsUp(f, S, sum) == sum = [T \in SUBSET S |-> SumStep(f, sum, T)]

Total(f, S) == (CHOOSE s : SumsUp(f, S, s))[S]

(* If some subsets of a finite set are exceptions, there is a smallest one. *)
LEMMA SmallestSubset ==
  ASSUME NEW S, IsFiniteSet(S), NEW Bad \in SUBSET (SUBSET S), Bad # {}
  PROVE  \E T \in Bad : /\ IsFiniteSet(T)
                        /\ \A x \in T : T \ {x} \notin Bad
<1> DEFINE Sizes == {Cardinality(T) : T \in Bad}
<1>1. \A T \in Bad : IsFiniteSet(T) /\ Cardinality(T) \in Nat
  BY FS_Subset, FS_CardinalityType
<1>2. Sizes \subseteq Nat /\ Sizes # {}  BY <1>1
<1>3. PICK n \in Sizes : \A m \in Sizes : n <= m  BY <1>2, Least
<1>4. PICK T \in Bad : n = Cardinality(T)  OBVIOUS
<1>5. ASSUME NEW x \in T, T \ {x} \in Bad PROVE FALSE
  <2>1. Cardinality(T \ {x}) = n - 1  BY <1>1, <1>4, FS_RemoveElement
  <2>2. n - 1 \in Sizes  BY <1>5, <2>1
  <2> HIDE DEF Sizes
  <2> QED  BY <1>2, <1>3, <2>2
<1> QED  BY <1>1, <1>5

(* The element that is taken is one of the set.                             *)
LEMMA OneIsIn == ASSUME NEW S, S # {} PROVE One(S) \in S
BY DEF One

(* There are sums over every finite set, *)
LEMMA SumsExist ==
  ASSUME NEW S, IsFiniteSet(S), NEW f
  PROVE  \E sum : SumsUp(f, S, sum)
<1> DEFINE Small(n) == {T \in SUBSET S : Cardinality(T) <= n}
           Has(n) == \E sum : sum = [T \in Small(n) |-> SumStep(f, sum, T)]
           Bad == {n \in Nat : ~ Has(n)}
<1>1. \A T \in SUBSET S : IsFiniteSet(T) /\ Cardinality(T) \in Nat
  BY FS_Subset, FS_CardinalityType
<1>2. \A T \in SUBSET S : T # {} =>
         /\ T \ {One(T)} \in SUBSET S
         /\ Cardinality(T \ {One(T)}) = Cardinality(T) - 1
  BY <1>1, OneIsIn, FS_RemoveElement
<1>3. \A T \in SUBSET S : Cardinality(T) = 0 <=> T = {}
  BY <1>1, FS_EmptySet
<1>4. Has(0)
  <2> DEFINE sum == [T \in Small(0) |-> 0]
  <2>1. \A T \in Small(0) : SumStep(f, sum, T) = 0
    BY <1>1, <1>3 DEF SumStep
  <2>2. sum = [T \in Small(0) |-> SumStep(f, sum, T)]
    BY <2>1
  <2> QED  BY <2>2
<1>5. ASSUME NEW n \in Nat, Has(n) PROVE Has(n + 1)
  <2>1. PICK sum : sum = [T \in Small(n) |-> SumStep(f, sum, T)]
    BY <1>5
  <2> DEFINE more == [T \in Small(n + 1) |-> SumStep(f, sum, T)]
  <2>2. \A T \in Small(n) : T \in Small(n + 1) /\ more[T] = sum[T]
    <3>1. Small(n) \subseteq Small(n + 1)  BY <1>1
    <3>2. \A T \in Small(n) : sum[T] = SumStep(f, sum, T)  BY <2>1
    <3> QED  BY <3>1, <3>2
  <2>3. \A T \in Small(n + 1) : T # {} => T \ {One(T)} \in Small(n)
    BY <1>1, <1>2
  <2>4. \A T \in Small(n + 1) : SumStep(f, sum, T) = SumStep(f, more, T)
    BY <2>2, <2>3 DEF SumStep
  <2>5. more = [T \in Small(n + 1) |-> SumStep(f, more, T)]
    BY <2>4
  <2> QED  BY <2>5
<1> HIDE DEF Has
<1>6. Bad = {}
  <2>1. SUFFICES ASSUME Bad # {} PROVE FALSE  OBVIOUS
  <2>2. Bad \subseteq Nat  OBVIOUS
  <2>3. PICK n \in Bad : \A m \in Bad : n <= m  BY <2>1, <2>2, Least
  <2>4. n # 0 /\ n \in Nat  BY <1>4
  <2>5. n - 1 \in Nat /\ n - 1 \notin Bad /\ (n - 1) + 1 = n  BY <2>3, <2>4
  <2>6. Has(n - 1)  BY <2>5
  <2>7. Has(n)  BY <1>5, <2>5, <2>6
  <2> QED  BY <2>7
<1>7. Has(Cardinality(S))  BY <1>1, <1>6
<1>8. Small(Cardinality(S)) = SUBSET S  BY FS_Subset
<1>9. \E sum : sum = [T \in SUBSET S |-> SumStep(f, sum, T)]
  BY <1>7, <1>8 DEF Has
<1> QED  BY <1>9 DEF SumsUp

(* natural numbers if all elements count as such,                           *)
LEMMA SumsAreNumbers ==
  ASSUME NEW S, IsFiniteSet(S), NEW f \in [S -> Nat], NEW sum, SumsUp(f, S, sum)
  PROVE  \A T \in SUBSET S : sum[T] \in Nat
<1> DEFINE Bad == {T \in SUBSET S : sum[T] \notin Nat}
<1>1. SUFFICES ASSUME Bad # {} PROVE FALSE  OBVIOUS
<1>2. PICK T \in Bad : \A x \in T : T \ {x} \notin Bad  BY <1>1, SmallestSubset
<1>3. sum[T] = SumStep(f, sum, T)  BY DEF SumsUp
<1>4. CASE T = {}  BY <1>3, <1>4 DEF SumStep
<1>5. CASE T # {}
  <2>1. One(T) \in T /\ One(T) \in S  BY <1>5, OneIsIn
  <2>2. sum[T \ {One(T)}] \in Nat  BY <1>2, <2>1
  <2>3. f[One(T)] \in Nat  BY <2>1
  <2> QED  BY <1>3, <1>5, <2>2, <2>3 DEF SumStep
<1> QED  BY <1>4, <1>5

(* the same for functions that agree,                                       *)
LEMMA SumsAgree ==
  ASSUME NEW S, IsFiniteSet(S), NEW R, NEW f, NEW g,
         NEW sum, SumsUp(f, S, sum), NEW tot, SumsUp(g, R, tot)
  PROVE  \A T \in SUBSET (S \cap R) : (\A x \in T : f[x] = g[x]) => sum[T] = tot[T]
<1> DEFINE Same(T) == \A x \in T : f[x] = g[x]
           Bad == {T \in SUBSET (S \cap R) : Same(T) /\ sum[T] # tot[T]}
<1>1. SUFFICES ASSUME Bad # {} PROVE FALSE  OBVIOUS
<1>2. Bad \in SUBSET (SUBSET S)  OBVIOUS
<1>3. PICK T \in Bad : \A x \in T : T \ {x} \notin Bad  BY <1>1, <1>2, SmallestSubset
<1>4. sum[T] = SumStep(f, sum, T) /\ tot[T] = SumStep(g, tot, T)  BY DEF SumsUp
<1>5. CASE T = {}  BY <1>4, <1>5 DEF SumStep
<1>6. CASE T # {}
  <2>1. One(T) \in T  BY <1>6, OneIsIn
  <2>2. sum[T \ {One(T)}] = tot[T \ {One(T)}]  BY <1>3, <2>1
  <2>3. f[One(T)] = g[One(T)]  BY <2>1
  <2> QED  BY <1>4, <1>6, <2>2, <2>3 DEF SumStep
<1> QED  BY <1>5, <1>6

(* also over a set as a whole,                                              *)
LEMMA SumsOverAll ==
  ASSUME NEW S, IsFiniteSet(S), NEW f, NEW g, \A x \in S : f[x] = g[x],
         NEW sum, SumsUp(f, S, sum), NEW tot, SumsUp(g, S, tot)
  PROVE  sum[S] = tot[S]
<1>1. \A T \in SUBSET (S \cap S) : (\A x \in T : f[x] = g[x]) => sum[T] = tot[T]
  BY SumsAgree
<1> QED  BY <1>1, S \in SUBSET (S \cap S)

(* and whatever element is taken off first.                                 *)
LEMMA SumsInAnyOrder ==
  ASSUME NEW S, IsFiniteSet(S), NEW f \in [S -> Nat], NEW sum, SumsUp(f, S, sum)
  PROVE  \A T \in SUBSET S : \A x \in T : sum[T] = f[x] + sum[T \ {x}]
<1> DEFINE Good(T) == \A x \in T : sum[T] = f[x] + sum[T \ {x}]
           Bad == {T \in SUBSET S : ~ Good(T)}
<1>1. SUFFICES ASSUME Bad # {} PROVE FALSE  OBVIOUS
<1>2. PICK T \in Bad : \A x \in T : T \ {x} \notin Bad  BY <1>1, SmallestSubset
<1>3. PICK x \in T : sum[T] # f[x] + sum[T \ {x}]  BY <1>2
<1>4. T \in SUBSET S /\ T # {}  BY <1>3
<1> DEFINE y == One(T)
<1>5. y \in T  BY <1>4, OneIsIn
<1>6. sum[T] = f[y] + sum[T \ {y}]  BY <1>4 DEF SumsUp, SumStep
<1>7. x # y  BY <1>3, <1>6
<1>8. Good(T \ {x}) /\ Good(T \ {y})  BY <1>2, <1>4, <1>5
<1> HIDE DEF y
<1>9. /\ sum[T \ {x}] = f[y] + sum[(T \ {x}) \ {y}]
      /\ sum[T \ {y}] = f[x] + sum[(T \ {y}) \ {x}]
  <2>1. y \in T \ {x} /\ x \in T \ {y}  BY <1>5, <1>7
  <2> QED  BY <1>8, <2>1
<1>10. (T \ {x}) \ {y} = (T \ {y}) \ {x} /\ (T \ {x}) \ {y} \in SUBSET S  BY <1>4
<1>11. sum[(T \ {x}) \ {y}] \in Nat  BY <1>10, SumsAreNumbers
<1>12. f[x] \in Nat /\ f[y] \in Nat  BY <1>4, <1>5
<1> QED  BY <1>3, <1>6, <1>9, <1>10, <1>11, <1>12

(* The chosen sums are sums.                                                *)
LEMMA ChosenSums ==
  ASSUME NEW S, IsFiniteSet(S), NEW f
  PROVE  SumsUp(f, S, CHOOSE sum : SumsUp(f, S, sum))
BY SumsExist

(* A total is a number,                                                     *)
LEMMA TotalType ==
  ASSUME NEW S, IsFiniteSet(S), NEW f \in [S -> Nat]
  PROVE  Total(f, S) \in Nat
BY ChosenSums, SumsAreNumbers, S \in SUBSET S DEF Total

(* is zero of nothing, *)
LEMMA TotalOfNothing == ASSUME NEW f PROVE Total(f, {}) = 0
<1>1. SumsUp(f, {}, CHOOSE sum : SumsUp(f, {}, sum))  BY ChosenSums, FS_EmptySet
<1> QED  BY <1>1 DEF Total, SumsUp, SumStep

(* and grows by what an element counts that is added.                       *)
LEMMA TotalGrows ==
  ASSUME NEW S, IsFiniteSet(S), NEW x, x \notin S,
         NEW f \in [S \union {x} -> Nat], NEW g \in [S -> Nat],
         \A y \in S : f[y] = g[y]
  PROVE  Total(f, S \union {x}) = f[x] + Total(g, S)
<1> DEFINE T == S \union {x}
           sum == CHOOSE s : SumsUp(f, T, s)
           tot == CHOOSE s : SumsUp(g, S, s)
<1>1. IsFiniteSet(T)  BY FS_AddElement
<1>2. SumsUp(f, T, sum) /\ SumsUp(g, S, tot)  BY <1>1, ChosenSums
<1>3. Total(f, T) = sum[T] /\ Total(g, S) = tot[S]  BY DEF Total
<1> HIDE DEF sum, tot
<1>4. T \in SUBSET T /\ x \in T /\ T \ {x} = S  OBVIOUS
<1>5. S \in SUBSET (T \cap S)  OBVIOUS
<1> HIDE DEF T
<1>6. f \in [T -> Nat]  BY DEF T
<1>7. sum[T] = f[x] + sum[S]  BY <1>1, <1>2, <1>4, <1>6, SumsInAnyOrder
<1>8. sum[S] = tot[S]  BY <1>1, <1>2, <1>5, SumsAgree
<1> QED  BY <1>3, <1>7, <1>8 DEF T

(* Elements count the same in two functions that agree.                     *)
LEMMA TotalAgrees ==
  ASSUME NEW S, IsFiniteSet(S), NEW f, NEW g, \A y \in S : f[y] = g[y]
  PROVE  Total(f, S) = Total(g, S)
<1> DEFINE sum == CHOOSE s : SumsUp(f, S, s)
           tot == CHOOSE s : SumsUp(g, S, s)
<1>1. SumsUp(f, S, sum) /\ SumsUp(g, S, tot)  BY ChosenSums
<1>2. Total(f, S) = sum[S] /\ Total(g, S) = tot[S]  BY DEF Total
<1> HIDE DEF sum, tot
<1>3. sum[S] = tot[S]  BY <1>1, SumsOverAll
<1> QED  BY <1>2, <1>3

(* The sum of the sizes of some rows is such a total.                       *)
LEMMA SumIsTotal ==
  ASSUME NEW r, NEW S, IsFiniteSet(S)
  PROVE  MapThenSumSet(LAMBDA k : Size[r[k].content], S)
           = Total([k \in S |-> Size[r[k].content]], S)
<1> DEFINE f == [k \in S |-> Size[r[k].content]]
           Sums(sum) == sum = [s \in SUBSET S |->
                                 IF s = {} THEN 0
                                 ELSE LET x == CHOOSE x \in s : TRUE
                                      IN  Size[r[x].content] + sum[s \ {x}]]
<1>1. MapThenSumSet(LAMBDA k : Size[r[k].content], S) = (CHOOSE s : Sums(s))[S]
  BY DEF MapThenSumSet, MapThenFoldSet
<1>2. ASSUME NEW sum PROVE Sums(sum) <=> SumsUp(f, S, sum)
  <2>1. ASSUME NEW T \in SUBSET S
        PROVE  SumStep(f, sum, T) =
                 IF T = {} THEN 0
                 ELSE LET x == CHOOSE x \in T : TRUE
                      IN  Size[r[x].content] + sum[T \ {x}]
    <3>1. T # {} => One(T) \in S  BY OneIsIn
    <3>2. T # {} => f[One(T)] = Size[r[One(T)].content]  BY <3>1
    <3> HIDE DEF f
    <3> QED  BY <3>2 DEF SumStep, One
  <2> HIDE DEF f
  <2> QED  BY <2>1 DEF SumsUp
<1> HIDE DEF Sums
<1>3. \E sum : Sums(sum)
  <2>1. PICK sum : SumsUp(f, S, sum)  BY SumsExist
  <2> QED  BY <1>2, <2>1
<1> DEFINE sum == CHOOSE s : Sums(s)
           tot == CHOOSE s : SumsUp(f, S, s)
<1>4. Sums(sum)  BY <1>3
<1>5. SumsUp(f, S, sum) /\ SumsUp(f, S, tot)  BY <1>2, <1>4, ChosenSums
<1> HIDE DEF sum, tot, f
<1>6. sum[S] = tot[S]  BY <1>5, SumsOverAll
<1> QED  BY <1>1, <1>6 DEF sum, tot, f, Total

-----------------------------------------------------------------------------
(* The quota.                                                               *)

(* The calls that passed the check of the quota and have no row yet.        *)
Passed == {w \in Workers : call[w].pc \in {"latest", "put"}}

LargestSize == Max({Size[c] : c \in Contents})

(* With others that were checked before any of them had put its row, an     *)
(* asset fits if it does with nothing but the largest of the others.        *)
Allowed == Quota + (Cardinality(Workers) - 1) * LargestSize

(* However many calls passed the check, one of them, which passed it last,  *)
(* fits even if every other one is as large as can be.                      *)
Fits(bytes, W, cs) ==
  IF W = {} THEN bytes <= Allowed
  ELSE \E v \in W :
         bytes + Size[cs[v].content] + (Cardinality(W) - 1) * LargestSize <= Allowed

(* What is in use can be summed up.                                         *)
RowsCount == IsFiniteSet(Rows) /\ \A k \in Rows : rows[k].content \in Contents

QuotaInv == RowsCount /\ (failures = 0 => Fits(UsageBytes, Passed, call))

(* No content is larger than the largest.                                   *)
LEMMA LargestIsLargest ==
  LargestSize \in Nat /\ \A c \in Contents : Size[c] \in Nat /\ Size[c] <= LargestSize
<1> DEFINE S == {Size[c] : c \in Contents}
<1>1. \A c \in Contents : Size[c] \in Nat  BY AssetAssumption
<1>2. PICK c \in Contents : \A d \in Contents : Size[d] <= Size[c]  BY QuotaAssumption
<1>3. \E x \in S : \A y \in S : x >= y
  <2>1. Size[c] \in S /\ \A y \in S : Size[c] >= y  BY <1>1, <1>2
  <2> QED  BY <2>1
<1>4. LargestSize \in S /\ \A y \in S : LargestSize >= y
  <2> HIDE DEF S
  <2>1. Max(S) \in S /\ \A y \in S : Max(S) >= y  BY <1>3 DEF Max
  <2> QED  BY <2>1 DEF LargestSize, S
<1> QED  BY <1>1, <1>4

(* Room for n assets of the largest size.                                   *)
LEMMA RoomFor ==
  ASSUME NEW n \in Nat
  PROVE  /\ n * LargestSize \in Nat
         /\ (n + 1) * LargestSize = n * LargestSize + LargestSize
         /\ 0 * LargestSize = 0
         /\ \A m \in Nat : n <= m => n * LargestSize <= m * LargestSize
<1>1. LargestSize \in Nat  BY LargestIsLargest
<1>2. \A M \in Nat : /\ n * M \in Nat /\ 0 * M = 0
                     /\ (n + 1) * M = n * M + M
                     /\ \A m \in Nat : n <= m => n * M <= m * M
  <2> TAKE M \in Nat
  <2>1. n * M \in Nat /\ 0 * M = 0 /\ (n + 1) * M = n * M + M  OBVIOUS
  <2>2. ASSUME NEW m \in Nat, n <= m PROVE n * M <= m * M
    <3>1. PICK d \in Nat : m = n + d
      <4>1. m - n \in Nat /\ m = n + (m - n)  BY <2>2
      <4> QED  BY <4>1
    <3>2. m * M = n * M + d * M  BY <3>1
    <3>3. d * M \in Nat  OBVIOUS
    <3> QED  BY <2>1, <3>2, <3>3
  <2> QED  BY <2>1, <2>2
<1> QED  BY <1>1, <1>2

(* The calls that passed are counted.                                       *)
LEMMA PassedCount ==
  ASSUME NEW W \in SUBSET Workers
  PROVE  /\ IsFiniteSet(W) /\ Cardinality(W) \in Nat
         /\ Cardinality(Workers) \in Nat /\ Cardinality(W) <= Cardinality(Workers)
         /\ Cardinality(Workers) # 0
         /\ Cardinality(W) = 0 <=> W = {}
BY QuotaAssumption, FS_Subset, FS_CardinalityType, FS_EmptySet

(* Whoever else passed, what is in use is within what is allowed.           *)
LEMMA FitsMeansAllowed ==
  ASSUME NEW bytes \in Nat, NEW W \in SUBSET Workers, NEW cs,
         \A w \in W : cs[w].content \in Contents, Fits(bytes, W, cs)
  PROVE  bytes <= Allowed
<1> DEFINE n == Cardinality(W) - 1
           N == Cardinality(Workers) - 1
<1>1. N \in Nat /\ (W # {} => n \in Nat)  BY PassedCount
<1>2. Allowed \in Nat
  <2>1. N * LargestSize \in Nat  BY <1>1, RoomFor
  <2> QED  BY <2>1, AssetAssumption DEF Allowed
<1>3. CASE W = {}  BY <1>3 DEF Fits
<1>4. CASE W # {}
  <2>1. PICK v \in W : bytes + Size[cs[v].content] + n * LargestSize <= Allowed
    BY <1>4 DEF Fits
  <2>2. Size[cs[v].content] \in Nat  BY LargestIsLargest
  <2>3. n * LargestSize \in Nat  BY <1>1, <1>4, RoomFor
  <2> HIDE DEF n
  <2> QED  BY <1>2, <2>1, <2>2, <2>3
<1> QED  BY <1>3, <1>4

(* A call that passes the check leaves room for all who passed before it.   *)
LEMMA FitsWithOneMore ==
  ASSUME NEW bytes \in Nat, NEW W \in SUBSET Workers, NEW w \in W, NEW cs,
         cs[w].content \in Contents, bytes + Size[cs[w].content] <= Quota
  PROVE  Fits(bytes, W, cs)
<1> DEFINE n == Cardinality(W) - 1
           N == Cardinality(Workers) - 1
           size == Size[cs[w].content]
<1>1. N \in Nat /\ n \in Nat /\ n <= N  BY PassedCount
<1> HIDE DEF n, N
<1>2. /\ n * LargestSize \in Nat /\ N * LargestSize \in Nat
      /\ n * LargestSize <= N * LargestSize
  BY <1>1, RoomFor
<1>3. size \in Nat /\ Quota \in Nat  BY LargestIsLargest, AssetAssumption
<1>4. bytes + size <= Quota  OBVIOUS
<1> HIDE DEF size
<1>5. bytes + size + n * LargestSize <= Quota + N * LargestSize
  BY <1>2, <1>3, <1>4
<1> QED  BY <1>5 DEF Fits, Allowed, n, N, size

(* A call that passed puts a row or ends: what it may add was allowed for.  *)
LEMMA FitsWithOneLess ==
  ASSUME NEW bytes \in Nat, NEW more \in Nat, NEW W \in SUBSET Workers, NEW w \in W,
         NEW cs, NEW ds, \A v \in W : cs[v].content \in Contents,
         \A v \in W \ {w} : ds[v].content = cs[v].content,
         more <= bytes + Size[cs[w].content], Fits(bytes, W, cs)
  PROVE  Fits(more, W \ {w}, ds)
<1> DEFINE R == W \ {w}
           n == Cardinality(R)
           size(v) == Size[cs[v].content]
<1>1. /\ n \in Nat /\ Cardinality(W) - 1 = n /\ (n = 0 <=> R = {})
      /\ (R # {} => n - 1 \in Nat)
  <2>1. R \in SUBSET Workers  OBVIOUS
  <2>2. n = Cardinality(W) - 1  BY PassedCount, FS_RemoveElement
  <2>3. n \in Nat /\ (n = 0 <=> R = {})  BY <2>1, PassedCount
  <2>4. Cardinality(W) \in Nat  BY PassedCount
  <2> HIDE DEF n, R
  <2> QED  BY <2>2, <2>3, <2>4
<1> DEFINE room == n * LargestSize
           less == (n - 1) * LargestSize
<1>2. room \in Nat /\ (n = 0 => room = 0)  BY <1>1, RoomFor
<1>3. R # {} => less \in Nat /\ room = less + LargestSize
  <2> SUFFICES ASSUME R # {} PROVE less \in Nat /\ room = less + LargestSize  OBVIOUS
  <2>1. n - 1 \in Nat /\ (n - 1) + 1 = n  BY <1>1
  <2> HIDE DEF n
  <2>2. less \in Nat /\ ((n - 1) + 1) * LargestSize = less + LargestSize  BY <2>1, RoomFor
  <2> QED  BY <2>1, <2>2
<1>4. PICK v \in W : bytes + size(v) + room <= Allowed
  <2>1. PICK v \in W :
          bytes + Size[cs[v].content] + (Cardinality(W) - 1) * LargestSize <= Allowed
    BY DEF Fits
  <2> HIDE DEF n
  <2> QED  BY <1>1, <2>1
<1>5. \A u \in W : size(u) \in Nat /\ size(u) <= LargestSize
  BY LargestIsLargest
<1>6. LargestSize \in Nat /\ Allowed \in Int
  <2>1. LargestSize \in Nat  BY LargestIsLargest
  <2>2. (Cardinality(Workers) - 1) * LargestSize \in Nat
    <3>1. Cardinality(Workers) - 1 \in Nat  BY PassedCount
    <3> QED  BY <3>1, RoomFor
  <2> QED  BY <2>1, <2>2, AssetAssumption DEF Allowed
<1>7. more <= bytes + size(w)  OBVIOUS
<1>8. \A u \in R : Size[ds[u].content] = size(u)  OBVIOUS
<1> HIDE DEF size, room, less, n
<1>9. CASE R = {}
  <2>1. v = w /\ room = 0  BY <1>1, <1>2, <1>9
  <2>2. more <= Allowed  BY <1>4, <1>5, <1>6, <1>7, <2>1
  <2> QED  BY <1>9, <2>2 DEF Fits
<1>10. CASE R # {}
  <2>1. PICK u \in R : u = v \/ v = w  BY <1>10
  <2>2. more + size(u) + less <= Allowed
    <3>1. less \in Nat /\ room = less + LargestSize  BY <1>3, <1>10
    <3>2. CASE u = v
      BY <1>4, <1>5, <1>6, <1>7, <3>1, <3>2
    <3>3. CASE v = w
      BY <1>4, <1>5, <1>6, <1>7, <3>1, <3>3
    <3> QED  BY <2>1, <3>2, <3>3
  <2>3. more + Size[ds[u].content] + (Cardinality(R) - 1) * LargestSize <= Allowed
    BY <1>8, <2>2 DEF less, n
  <2>4. Fits(more, R, ds)
    <3> HIDE DEF R
    <3> QED  BY <1>10, <2>3 DEF Fits
  <2> QED  BY <2>4
<1> QED  BY <1>9, <1>10

(* What frees bytes, or changes nobody's content, changes nothing else.     *)
LEMMA FitsStill ==
  ASSUME NEW bytes \in Nat, NEW less \in Nat, less <= bytes, NEW W \in SUBSET Workers,
         NEW cs, NEW ds, \A v \in W : cs[v].content \in Contents,
         \A v \in W : ds[v].content = cs[v].content, Fits(bytes, W, cs)
  PROVE  Fits(less, W, ds)
<1> DEFINE n == Cardinality(W) - 1
<1>1. Allowed \in Int
  <2>1. (Cardinality(Workers) - 1) * LargestSize \in Nat
    <3>1. Cardinality(Workers) - 1 \in Nat  BY PassedCount
    <3> QED  BY <3>1, RoomFor
  <2> QED  BY <2>1, AssetAssumption DEF Allowed
<1>2. CASE W = {}  BY <1>1, <1>2 DEF Fits
<1>3. CASE W # {}
  <2>1. PICK v \in W : bytes + Size[cs[v].content] + n * LargestSize <= Allowed
    BY <1>3 DEF Fits
  <2>2. Size[cs[v].content] \in Nat /\ Size[ds[v].content] = Size[cs[v].content]
    BY LargestIsLargest
  <2>3. n * LargestSize \in Nat
    <3>1. n \in Nat  BY <1>3, PassedCount
    <3> QED  BY <3>1, RoomFor
  <2> HIDE DEF n
  <2>4. less + Size[ds[v].content] + n * LargestSize <= Allowed
    BY <1>1, <2>1, <2>2, <2>3
  <2> QED  BY <1>3, <2>4 DEF Fits, n
<1> QED  BY <1>2, <1>3

-----------------------------------------------------------------------------
(* The bytes in use.                                                        *)

(* The rows that count, in a table r, and how much each does.               *)
Counting(r) == {k \in Keys : r[k] # NoRow /\ r[k].status # "failed"}
SizesOf(r) == [k \in Counting(r) |-> Size[r[k].content]]
Bytes(r) == Total(SizesOf(r), Counting(r))

(* What can be summed up is a number.                                       *)
LEMMA BytesAreNumbers ==
  ASSUME NEW r, IsFiniteSet(Counting(r)), \A k \in Counting(r) : r[k].content \in Contents
  PROVE  SizesOf(r) \in [Counting(r) -> Nat] /\ Bytes(r) \in Nat
<1>1. SizesOf(r) \in [Counting(r) -> Nat]  BY LargestIsLargest DEF SizesOf
<1>2. Bytes(r) \in Nat  BY <1>1, TotalType DEF Bytes
<1> QED  BY <1>1, <1>2

(* Rows with the same contents count the same.                              *)
LEMMA BytesStay ==
  ASSUME NEW r, NEW q, IsFiniteSet(Counting(r)), Counting(q) = Counting(r),
         \A k \in Counting(r) : q[k].content = r[k].content
  PROVE  Bytes(q) = Bytes(r)
<1> DEFINE S == Counting(r)
<1>1. \A k \in S : SizesOf(q)[k] = SizesOf(r)[k]  BY DEF SizesOf
<1> HIDE DEF S
<1>2. Total(SizesOf(q), S) = Total(SizesOf(r), S)  BY <1>1, TotalAgrees DEF S
<1> QED  BY <1>2 DEF Bytes, S

(* A row more counts what its content does.                                 *)
LEMMA BytesGrow ==
  ASSUME NEW r, NEW q, NEW k, k \notin Counting(r), IsFiniteSet(Counting(r)),
         Counting(q) = Counting(r) \union {k},
         \A j \in Counting(r) : q[j].content = r[j].content,
         \A j \in Counting(q) : q[j].content \in Contents
  PROVE  Bytes(q) = Size[q[k].content] + Bytes(r)
<1> DEFINE S == Counting(r)
           T == S \union {k}
<1>1. IsFiniteSet(T) /\ Counting(q) = T  BY FS_AddElement
<1>2. \A j \in S : r[j].content \in Contents  OBVIOUS
<1>3. SizesOf(r) \in [S -> Nat]  BY <1>2, BytesAreNumbers
<1>4. SizesOf(q) \in [T -> Nat]  BY <1>1, BytesAreNumbers
<1>5. \A j \in S : SizesOf(q)[j] = SizesOf(r)[j]  BY DEF SizesOf
<1>6. SizesOf(q)[k] = Size[q[k].content]  BY DEF SizesOf
<1> HIDE DEF S
<1>7. IsFiniteSet(S) /\ k \notin S  BY DEF S
<1>8. Total(SizesOf(q), S \union {k}) = SizesOf(q)[k] + Total(SizesOf(r), S)
  BY <1>3, <1>4, <1>5, <1>7, TotalGrows
<1> QED  BY <1>1, <1>6, <1>8 DEF Bytes, S

(* A row less, and the rest is no more.                                     *)
LEMMA BytesShrink ==
  ASSUME NEW r, NEW q, NEW k \in Counting(r), IsFiniteSet(Counting(r)),
         Counting(q) = Counting(r) \ {k},
         \A j \in Counting(q) : q[j].content = r[j].content,
         \A j \in Counting(r) : r[j].content \in Contents
  PROVE  Bytes(q) <= Bytes(r)
<1>1. IsFiniteSet(Counting(q))  BY FS_RemoveElement
<1>2. Bytes(r) = Size[r[k].content] + Bytes(q)
  <2>1. k \notin Counting(q) /\ Counting(r) = Counting(q) \union {k}
        /\ \A j \in Counting(q) : r[j].content = q[j].content
    OBVIOUS
  <2> QED  BY <1>1, <2>1, BytesGrow
<1>3. Bytes(q) \in Nat /\ Bytes(r) \in Nat  BY <1>1, BytesAreNumbers
<1>4. Size[r[k].content] \in Nat  BY LargestIsLargest
<1> QED  BY <1>2, <1>3, <1>4

(* They are what the check of the quota looks at.                           *)
LEMMA UsageIsBytes == IsFiniteSet(Counting(rows)) => UsageBytes = Bytes(rows)
<1> SUFFICES ASSUME IsFiniteSet(Counting(rows)) PROVE UsageBytes = Bytes(rows)  OBVIOUS
<1>1. {k \in Rows : rows[k].status # "failed"} = Counting(rows)
  BY DEF Rows, Counting
<1>2. UsageBytes = MapThenSumSet(LAMBDA k : Size[rows[k].content], Counting(rows))
  BY <1>1 DEF UsageBytes, MapThenSumSet, MapThenFoldSet
<1>3. MapThenSumSet(LAMBDA k : Size[rows[k].content], Counting(rows)) = Bytes(rows)
  BY SumIsTotal DEF Bytes, SizesOf
<1> QED  BY <1>2, <1>3

(* The same of the next state.                                              *)
LEMMA UsageIsBytesNext == (IsFiniteSet(Counting(rows)) => UsageBytes = Bytes(rows))'
BY UsageIsBytes, PTL

(* Only rows count, so that what is in use is a number.                     *)
LEMMA UsageType ==
  ASSUME RowsCount
  PROVE  /\ Counting(rows) \subseteq Rows /\ IsFiniteSet(Counting(rows))
         /\ \A k \in Counting(rows) : rows[k].content \in Contents
         /\ UsageBytes = Bytes(rows) /\ UsageBytes \in Nat
<1>1. Counting(rows) \subseteq Rows  BY DEF Counting, Rows
<1>2. IsFiniteSet(Counting(rows))  BY <1>1, FS_Subset DEF RowsCount
<1>3. \A k \in Counting(rows) : rows[k].content \in Contents  BY <1>1 DEF RowsCount
<1>4. Bytes(rows) \in Nat  BY <1>2, <1>3, BytesAreNumbers
<1> QED  BY <1>1, <1>2, <1>3, <1>4, UsageIsBytes

(* The same of the next state.                                              *)
LEMMA UsageTypeNext ==
  ASSUME RowsCount'
  PROVE  /\ IsFiniteSet(Counting(rows')) /\ UsageBytes' = Bytes(rows') /\ UsageBytes' \in Nat
         /\ \A k \in Counting(rows') : rows'[k].content \in Contents
<1>1. Counting(rows') \subseteq Rows'  BY DEF Counting, Rows
<1>2. IsFiniteSet(Counting(rows'))  BY <1>1, FS_Subset DEF RowsCount
<1>3. \A k \in Counting(rows') : rows'[k].content \in Contents  BY <1>1 DEF RowsCount
<1>4. Bytes(rows') \in Nat  BY <1>2, <1>3, BytesAreNumbers
<1>5. UsageBytes' = Bytes(rows')  BY <1>2, UsageIsBytesNext
<1> QED  BY <1>2, <1>3, <1>4, <1>5

(* A row that gets another status keeps its content, and frees its bytes if *)
(* it fails; one that had failed does not count before.                     *)
LEMMA StatusFreesBytes ==
  ASSUME TypeOK, RowsCount, NEW k \in Keys, NEW status \in Statuses,
         rows[k].status # "absent",
         rows' = [rows EXCEPT ![k].status = status]
  PROVE  RowsCount' /\ (rows[k].status # "failed" => UsageBytes' <= UsageBytes)
<1>1. /\ DOMAIN rows = Keys /\ \A j \in Keys : rows[j] \in Row
      /\ DOMAIN rows' = Keys
      /\ \A j \in Keys : j # k => rows'[j] = rows[j]
  BY DEF TypeOK
<1>2. rows'[k].status = status /\ rows'[k].content = rows[k].content
  <2>1. rows[k] \in Row /\ rows'[k] = [rows[k] EXCEPT !.status = status]  BY <1>1
  <2> QED  BY <2>1 DEF Row
<1>3. status # "absent" /\ NoRow.status = "absent"  BY DEF Statuses, NoRow
<1>4. rows[k] # NoRow /\ rows'[k] # NoRow  BY <1>2, <1>3
<1>5. Rows' = Rows  BY <1>1, <1>4 DEF Rows
<1>6. RowsCount'  BY <1>1, <1>2, <1>5 DEF RowsCount, Rows
<1>7. /\ IsFiniteSet(Counting(rows)) /\ UsageBytes = Bytes(rows) /\ UsageBytes \in Nat
      /\ \A j \in Counting(rows) : rows[j].content \in Contents
  BY UsageType
<1>8. UsageBytes' = Bytes(rows')  BY <1>6, UsageTypeNext
<1>9. \A j \in Keys : rows'[j].content = rows[j].content  BY <1>1, <1>2
<1>10. rows[k].status # "failed" => k \in Counting(rows)  BY <1>4 DEF Counting
<1>11. CASE status = "failed" /\ rows[k].status # "failed"
  <2>1. Counting(rows') = Counting(rows) \ {k}  BY <1>1, <1>2, <1>11 DEF Counting
  <2>2. \A j \in Counting(rows') : rows'[j].content = rows[j].content
    BY <1>9 DEF Counting
  <2> QED  BY <1>6, <1>7, <1>8, <1>10, <2>1, <2>2, BytesShrink
<1>12. CASE status # "failed" /\ rows[k].status # "failed"
  <2>1. Counting(rows') = Counting(rows)
    BY <1>1, <1>2, <1>4, <1>12 DEF Counting
  <2>2. \A j \in Counting(rows) : rows'[j].content = rows[j].content
    BY <1>9 DEF Counting
  <2>3. Bytes(rows') = Bytes(rows)  BY <1>7, <2>1, <2>2, BytesStay
  <2> QED  BY <1>6, <1>7, <1>8, <2>3
<1> QED  BY <1>6, <1>11, <1>12

(* A row that is made takes the bytes of its content.                       *)
LEMMA NewRowTakesBytes ==
  ASSUME TypeOK, RowsCount, NEW w \in Workers, MakesRow(w)
  PROVE  RowsCount' /\ UsageBytes' = UsageBytes + Size[call[w].content]
<1> DEFINE k == Key(w)
           row == [status |-> "pending", content |-> call[w].content]
<1>1. k \in Keys /\ rows[k] = NoRow /\ call[w].content \in Contents
      /\ rows' = [rows EXCEPT ![k] = row]
  BY DEF MakesRow
<1>2. row # NoRow /\ row.status = "pending" /\ row.content = call[w].content
  BY DEF NoRow
<1> HIDE DEF k, row
<1>3. DOMAIN rows = Keys /\ rows'[k] = row /\ \A j \in Keys : j # k => rows'[j] = rows[j]
  BY <1>1 DEF TypeOK
<1>4. Rows' = Rows \union {k} /\ k \notin Rows
  BY <1>1, <1>2, <1>3 DEF Rows
<1>5. Counting(rows') = Counting(rows) \union {k} /\ k \notin Counting(rows)
  BY <1>1, <1>2, <1>3 DEF Counting
<1>6. RowsCount'
  <2>1. IsFiniteSet(Rows')  BY <1>4, FS_AddElement DEF RowsCount
  <2>2. ASSUME NEW j \in Rows' PROVE rows'[j].content \in Contents
    <3>1. CASE j = k  BY <1>1, <1>2, <1>3, <3>1
    <3>2. CASE j # k
      <4>1. j \in Rows /\ j \in Keys  BY <1>4, <3>2 DEF Rows
      <4> QED  BY <1>3, <3>2, <4>1 DEF RowsCount
    <3> QED  BY <3>1, <3>2
  <2> QED  BY <2>1, <2>2 DEF RowsCount
<1>7. /\ IsFiniteSet(Counting(rows)) /\ UsageBytes = Bytes(rows) /\ UsageBytes \in Nat
      /\ Counting(rows) \subseteq Keys
  BY UsageType DEF Counting
<1>8. /\ UsageBytes' = Bytes(rows')
      /\ \A j \in Counting(rows') : rows'[j].content \in Contents
  BY <1>6, UsageTypeNext
<1>9. \A j \in Counting(rows) : rows'[j].content = rows[j].content
  BY <1>3, <1>5, <1>7
<1>10. Bytes(rows') = Size[rows'[k].content] + Bytes(rows)
  BY <1>5, <1>7, <1>8, <1>9, BytesGrow
<1>11. Size[call[w].content] \in Nat  BY <1>1, LargestIsLargest
<1> QED  BY <1>2, <1>3, <1>6, <1>7, <1>8, <1>10, <1>11

(* Whatever a thread does to the rows, they can be summed up, and only a    *)
(* new one takes bytes.                                                     *)
LEMMA UsageStep ==
  ASSUME AssetInv, RowsCount, NEW w \in Workers, Begin(w) \/ Serve(w)
  PROVE  /\ RowsCount'
         /\ \/ UsageBytes' <= UsageBytes \/ failures # 0
            \/ PutPending(w) /\ UsageBytes' = UsageBytes + Size[call[w].content]
<1>1. TypeOK /\ Creates(w) /\ Handles(w)  BY DEF AssetInv
<1>2. rows' = rows \/ MakesRow(w) \/ SettlesRow(w) \/ TakesBackRow  BY <1>1, RowStep
<1>3. CASE rows' = rows
  <2>1. RowsCount'  BY <1>3 DEF RowsCount, Rows
  <2>2. UsageBytes' = UsageBytes
    BY <1>3, <2>1, UsageType, UsageTypeNext
  <2>3. UsageBytes \in Nat  BY UsageType
  <2> QED  BY <2>1, <2>2, <2>3
<1>4. CASE MakesRow(w)
  BY <1>1, <1>4, NewRowTakesBytes DEF MakesRow
<1>5. CASE SettlesRow(w)
  <2>1. PICK status \in {"ready", "failed", "quarantined"} :
          rows' = [rows EXCEPT ![Key(w)].status = status]
    BY <1>5 DEF SettlesRow
  <2>2. Key(w) \in Keys /\ rows[Key(w)].status = "pending"  BY <1>5 DEF SettlesRow
  <2>3. status \in Statuses  BY DEF Statuses
  <2> QED  BY <1>1, <2>1, <2>2, <2>3, StatusFreesBytes
<1>6. CASE TakesBackRow
  <2>1. PICK k \in Keys, status \in {"failed", "quarantined", "archived"} :
          /\ rows[k].status \in Settled
          /\ failures = 0 => rows[k].status # "failed"
          /\ rows' = [rows EXCEPT ![k].status = status]
    BY <1>6 DEF TakesBackRow
  <2>2. status \in Statuses /\ rows[k].status # "absent"
    BY <2>1 DEF Statuses, Settled
  <2> QED  BY <1>1, <2>1, <2>2, StatusFreesBytes
<1> QED  BY <1>2, <1>3, <1>4, <1>5, <1>6

(* A thread is checked while there is room, or goes from the check to the   *)
(* row or out; nothing else changes who passed.                             *)
LEMMA PassedStep ==
  ASSUME AssetInv, NEW w \in Workers, Begin(w) \/ Serve(w)
  PROVE  /\ \A v \in Workers \ {w} : call'[v] = call[v]
         /\ \/ /\ Passed' = Passed \union {w} /\ UNCHANGED rows
               /\ UsageBytes + Size[call'[w].content] <= Quota
            \/ w \in Passed /\ Passed' = Passed \ {w}
            \/ /\ Passed' = Passed /\ ~ PutPending(w)
               /\ w \in Passed => call'[w].content = call[w].content
<1>1. TypeOK /\ Creates(w)  BY DEF AssetInv
<1>2. \A v \in Workers \ {w} : call'[v] = call[v]  BY <1>1, FilesKept DEF Apart
<1> DEFINE Before == call[w].pc \in {"latest", "put"}
           After == call'[w].pc \in {"latest", "put"}
<1>3. /\ Before /\ ~ After => w \in Passed /\ Passed' = Passed \ {w}
      /\ ~ Before /\ After => Passed' = Passed \union {w}
      /\ (Before <=> After) => Passed' = Passed
      /\ w \in Passed <=> Before
  BY <1>2 DEF Passed
<1>4. CASE Begin(w)
  BY <1>1, <1>2, <1>3, <1>4, BeginTurns DEF At, PutPending
<1>5. CASE CheckUsage(w)
  <2>1. At(w, "usage") /\ rows' = rows  BY <1>5 DEF CheckUsage, catalogVars
  <2>2. CASE Over(w)
    <3>1. call'[w].pc = "idle"  BY <2>2 DEF Over, IdleCall
    <3> QED  BY <1>2, <1>3, <2>1, <3>1 DEF At, PutPending
  <2>3. CASE ~ Over(w)
    <3>1. call'[w].pc \in {"latest", "put"} /\ call'[w].content = call[w].content
      BY <1>1, <1>5, <2>3, CheckTurns DEF Stays, Turn, HasFields
    <3>2. FitsQuota(call[w].content)
      BY <1>1, <1>5, <2>3, Returns DEF CheckUsage
    <3> QED  BY <1>2, <1>3, <2>1, <3>1, <3>2 DEF At, FitsQuota
  <2> QED  BY <2>2, <2>3
<1>6. CASE Latest(w)
  <2>1. At(w, "latest") /\ Before /\ ~ PutPending(w)
    BY <1>1, <1>6, LatestTurns DEF At, PutPending
  <2>2. CASE Over(w)
    <3>1. call'[w].pc = "idle"  BY <2>2 DEF Over, IdleCall
    <3> QED  BY <1>2, <1>3, <2>1, <3>1
  <2>3. CASE ~ Over(w)
    <3>1. call'[w].pc = "put" /\ call'[w].content = call[w].content
      BY <1>1, <1>6, <2>3, LatestTurns DEF Turn, HasFields
    <3> QED  BY <1>2, <1>3, <2>1, <3>1
  <2> QED  BY <2>2, <2>3
<1>7. CASE PutPending(w)
  <2>1. At(w, "put")  BY <1>7 DEF PutPending
  <2>2. call'[w].pc \in {"idle", "store"}
    BY <1>1, <1>7, PutTurns DEF Over, IdleCall, Stays, Turn, HasFields
  <2> QED  BY <1>2, <1>3, <2>1, <2>2 DEF At
<1>8. CASE StorePut(w) \/ VerifyStored(w) \/ MarkReady(w) \/ MarkFailed(w) \/ PutLineage(w)
             \/ ReadFile(w) \/ Quarantine(w) \/ ArchiveOne(w)
  <2>1. call[w].pc \notin {"latest", "put"}
    BY <1>8 DEF StorePut, VerifyStored, MarkReady, MarkFailed, PutLineage, ReadFile,
                Quarantine, ArchiveOne, At
  <2>2. call'[w].pc \notin {"latest", "put"}
    <3>1. CASE StorePut(w)
      BY <1>1, <3>1, StoreTurns DEF Stays, Turn, HasFields
    <3>2. CASE VerifyStored(w)
      BY <1>1, <3>2, VerifyTurns DEF Stays, Turn, HasFields
    <3>3. CASE MarkReady(w) \/ MarkFailed(w) \/ PutLineage(w) \/ ReadFile(w) \/ Quarantine(w)
      BY <1>1, <3>3, SettleTurns DEF Over, IdleCall, Stays, Turn, HasFields
    <3>4. CASE ArchiveOne(w)
      BY <1>1, <3>4, ArchiveTurns DEF Over, IdleCall, Turn, HasFields
    <3> QED  BY <1>8, <3>1, <3>2, <3>3, <3>4
  <2>3. ~ PutPending(w)  BY <2>1 DEF PutPending, At
  <2> QED  BY <1>2, <1>3, <2>1, <2>2, <2>3
<1> QED  BY <1>4, <1>5, <1>6, <1>7, <1>8 DEF Serve

(* Whoever passed has a content.                                            *)
LEMMA PassedHaveContents ==
  ASSUME AssetInv
  PROVE  Passed \in SUBSET Workers /\ \A v \in Passed : call[v].content \in Contents
BY DEF Passed, AssetInv, Creates, At

(* The steps of the threads keep the bound.                                 *)
LEMMA QuotaStep ==
  ASSUME AssetInv, AssetInv', QuotaInv, NEW w \in Workers, Begin(w) \/ Serve(w)
  PROVE  QuotaInv'
<1>a. failures' = failures  BY FilesKept DEF AssetInv
<1>b. RowsCount'  BY UsageStep DEF QuotaInv
<1>c. SUFFICES ASSUME failures = 0 PROVE QuotaInv'  BY <1>a, <1>b DEF QuotaInv
<1>1. RowsCount /\ Fits(UsageBytes, Passed, call)  BY <1>c DEF QuotaInv
<1>2. /\ RowsCount'
      /\ \/ UsageBytes' <= UsageBytes
         \/ PutPending(w) /\ UsageBytes' = UsageBytes + Size[call[w].content]
  BY <1>1, <1>c, UsageStep
<1>3. UsageBytes \in Nat /\ UsageBytes' \in Nat
  BY <1>1, <1>2, UsageType, UsageTypeNext
<1>4. Passed \in SUBSET Workers /\ \A v \in Passed : call[v].content \in Contents
  BY PassedHaveContents
<1>5. Passed' \in SUBSET Workers /\ \A v \in Passed' : call'[v].content \in Contents
  BY DEF Passed, AssetInv, Creates, At
<1>6. \A v \in Workers \ {w} : call'[v] = call[v]  BY PassedStep
<1>7. CASE /\ Passed' = Passed \union {w} /\ UNCHANGED rows
           /\ UsageBytes + Size[call'[w].content] <= Quota
  <2>1. UsageBytes' = UsageBytes
    BY <1>1, <1>2, <1>7, UsageType, UsageTypeNext
  <2>2. w \in Passed'  BY <1>7
  <2>3. Fits(UsageBytes', Passed', call')
    BY <1>3, <1>5, <1>7, <2>1, <2>2, FitsWithOneMore
  <2> QED  BY <1>2, <2>3 DEF QuotaInv
<1>8. CASE w \in Passed /\ Passed' = Passed \ {w}
  <2>1. UsageBytes' <= UsageBytes + Size[call[w].content]
    <3>1. Size[call[w].content] \in Nat  BY <1>4, <1>8, LargestIsLargest
    <3> QED  BY <1>2, <1>3, <3>1
  <2>2. \A v \in Passed \ {w} : call'[v].content = call[v].content  BY <1>4, <1>6
  <2>3. Fits(UsageBytes', Passed \ {w}, call')
    BY <1>1, <1>3, <1>4, <1>8, <2>1, <2>2, FitsWithOneLess
  <2> QED  BY <1>2, <1>8, <2>3 DEF QuotaInv
<1>9. CASE /\ Passed' = Passed /\ ~ PutPending(w)
           /\ w \in Passed => call'[w].content = call[w].content
  <2>1. UsageBytes' <= UsageBytes  BY <1>2, <1>9
  <2>2. \A v \in Passed : call'[v].content = call[v].content  BY <1>4, <1>6, <1>9
  <2>3. Fits(UsageBytes', Passed, call')
    BY <1>1, <1>3, <1>4, <2>1, <2>2, FitsStill
  <2> QED  BY <1>2, <1>9, <2>3 DEF QuotaInv
<1> QED  BY <1>7, <1>8, <1>9, PassedStep

(* An empty catalog uses nothing.                                           *)
LEMMA InitQuota == Init => QuotaInv
<1> SUFFICES ASSUME Init PROVE QuotaInv  OBVIOUS
<1>1. Rows = {}  BY DEF Init, Rows
<1>2. RowsCount  BY <1>1, FS_EmptySet DEF RowsCount
<1>3. Passed = {}  BY DEF Init, Passed, IdleCall
<1>4. UsageBytes = 0
  <2>1. Counting(rows) = {}  BY <1>1, <1>2, UsageType
  <2>2. Bytes(rows) = 0  BY <2>1, TotalOfNothing DEF Bytes
  <2> QED  BY <1>2, <2>2, UsageType
<1>5. 0 <= Allowed
  <2>1. Cardinality(Workers) - 1 \in Nat  BY PassedCount
  <2>2. (Cardinality(Workers) - 1) * LargestSize \in Nat  BY <2>1, RoomFor
  <2> QED  BY <2>2, AssetAssumption DEF Allowed
<1>6. Fits(0, {}, call)  BY <1>5 DEF Fits
<1> QED  BY <1>2, <1>3, <1>4, <1>6 DEF QuotaInv

(* Every step keeps the bound.                                              *)
LEMMA StepQuota == AssetInv /\ AssetInv' /\ QuotaInv /\ [Next]_assetVars => QuotaInv'
<1> SUFFICES ASSUME AssetInv, AssetInv', QuotaInv, [Next]_assetVars PROVE QuotaInv'
  OBVIOUS
<1>1. CASE \E w \in Workers : Begin(w) \/ Serve(w)  BY <1>1, QuotaStep
<1>2. CASE rows' = rows
  <2>1. RowsCount /\ (failures = 0 => Fits(UsageBytes, Passed, call))  BY DEF QuotaInv
  <2>2. RowsCount'  BY <1>2, <2>1 DEF RowsCount, Rows
  <2>3. UsageBytes' = UsageBytes /\ UsageBytes \in Nat
    BY <1>2, <2>1, <2>2, UsageType, UsageTypeNext
  <2>4. CASE call' = call /\ failures' = failures
    <3>1. Passed' = Passed  BY <2>4 DEF Passed
    <3>2. failures = 0 => Fits(UsageBytes', Passed', call')  BY <2>1, <2>3, <2>4, <3>1
    <3> QED  BY <2>2, <2>4, <3>2 DEF QuotaInv
  <2>5. CASE Crash
    <3>1. Passed' = {}  BY <2>5 DEF Crash, Passed, IdleCall
    <3>2. failures = 0 => UsageBytes <= Allowed
      BY <2>1, <2>3, PassedHaveContents, FitsMeansAllowed
    <3>3. failures = 0 => Fits(UsageBytes', Passed', call')  BY <2>3, <3>1, <3>2 DEF Fits
    <3>4. failures' = failures  BY <2>5 DEF Crash
    <3> QED  BY <2>2, <3>3, <3>4 DEF QuotaInv
  <2>8. CASE \E w \in Workers : CatalogFails(w)
    BY <2>2, <2>8, AssetFailure DEF QuotaInv
  <2>6. CASE Damage \/ UNCHANGED assetVars
    <3>1. call' = call /\ failures' = failures  BY <2>6 DEF Damage, assetVars, counters
    <3> QED  BY <2>4, <3>1
  <2>7. CASE \E w \in Workers : Begin(w) \/ Serve(w)  BY <1>1, <2>7
  <2> QED  BY <2>5, <2>6, <2>7, <2>8 DEF Next
<1>3. CASE Damage \/ Crash \/ (\E w \in Workers : CatalogFails(w)) \/ UNCHANGED assetVars
  BY <1>2, <1>3, AssetDamage, AssetCrash, AssetFailure DEF assetVars, catalogVars
<1> QED  BY <1>1, <1>3 DEF Next

(* Any number of threads may have been told together that their assets fit: *)
(* what is in use exceeds the quota of the tenant by no more than one asset *)
(* of the largest size for each of the other threads, as long as the        *)
(* catalog works.                                                           *)
THEOREM QuotaIsNearlyKept == Spec => []QuotaOvershootBounded
<1>1. Init => QuotaInv  BY InitQuota
<1>2. AssetInv /\ AssetInv' /\ QuotaInv /\ [Next]_assetVars => QuotaInv'  BY StepQuota
<1>3. AssetInv /\ QuotaInv => QuotaOvershootBounded
  <2> SUFFICES ASSUME AssetInv, QuotaInv, failures = 0
               PROVE  UsageBytes <= Quota + (Cardinality(Workers) - 1) * Max({Size[c] : c \in Contents})
    BY DEF QuotaOvershootBounded
  <2>1. UsageBytes \in Nat  BY UsageType DEF QuotaInv
  <2>2. UsageBytes <= Allowed
    BY <2>1, PassedHaveContents, FitsMeansAllowed DEF QuotaInv
  <2> QED  BY <2>2 DEF Allowed, LargestSize
<1> QED  BY <1>1, <1>2, <1>3, AssetInvariance, PTL DEF Spec
=============================================================================
