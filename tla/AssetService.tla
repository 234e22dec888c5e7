---------------------------- MODULE AssetService ----------------------------
(***************************************************************************)
(* The digital assets of one tenant: AssetService over the catalog (rows   *)
(* of a SQLite table, each call a transaction of its own) and the media    *)
(* storage (files).  Stages create assets from the threads that serve      *)
(* requests, downloads read them, and retention archives them.             *)
(*                                                                         *)
(* An asset made without an id takes one from the hash of its content, so  *)
(* that a content stands for that id too.                                  *)
(***************************************************************************)
EXTENDS Naturals, FiniteSets, FiniteSetsExt

CONSTANTS
  Workers,      \* the threads that call the service
  Contents,     \* what can be stored
  Asked,        \* the asset ids that callers name
  NoId,         \* no asset id was asked for
  Size,         \* the size of each content
  Quota,        \* tenant_quota_bytes
  MaxVersion,   \* bound: how many versions of one asset are made
  MaxCalls,     \* bound: how many calls are made
  MaxCrashes,   \* bound: how often the process may die
  MaxDamages,   \* bound: how often a stored file is lost or altered
  MaxFailures   \* bound: how often a call of the catalog fails

ASSUME AssetAssumption ==
  /\ NoId \notin Contents
  /\ Asked \subseteq Contents
  /\ Size \in [Contents -> Nat \ {0}]
  /\ Quota \in Nat
  /\ MaxVersion \in Nat \ {0}

(* A process has threads, but not without end, and max_asset_bytes limits    *)
(* the size of a content: one is the largest.                               *)
ASSUME QuotaAssumption ==
  /\ IsFiniteSet(Workers) /\ Workers # {}
  /\ \E c \in Contents : \A d \in Contents : Size[d] <= Size[c]

VARIABLES
  rows,     \* the table assets
  files,    \* the media storage: how each file compares with its content
  lineage,  \* the assets that have a lineage record
  call,     \* the call each worker serves
  calls, crashes, damages, failures

catalogVars == <<rows, lineage>>
counters == <<calls, crashes, damages, failures>>
assetVars == <<catalogVars, files, call, counters>>

-----------------------------------------------------------------------------
(* The primary key. *)
Keys == Contents \X (1 .. MaxVersion)

(* GENERATING and DELETED exist in AssetStatus, but nothing assigns them. *)
Statuses == {"pending", "ready", "failed", "quarantined", "archived"}

Row == [status : Statuses \union {"absent"}, content : Contents \union {NoId}]
NoRow == [status |-> "absent", content |-> NoId]

Rows == {k \in Keys : rows[k] # NoRow}

PCs == {"idle", "usage", "latest", "put", "store", "verify", "ready",
        "fail", "lineage", "read", "quarantine", "archive"}

Calls == [pc : PCs, content : Contents \union {NoId}, id : Contents \union {NoId},
          version : Nat, status : Statuses, todo : SUBSET Keys]

IdleCall == [pc |-> "idle", content |-> NoId, id |-> NoId, version |-> 1,
             status |-> "pending", todo |-> {}]

At(w, pc) == call[w].pc = pc
Become(w, c) == call' = [call EXCEPT ![w] = c]
Goto(w, pc) == Become(w, [call[w] EXCEPT !.pc = pc])
Return(w) == Become(w, IdleCall)

AllIdle == \A w \in Workers : At(w, "idle")

Arrive(w) ==
  /\ At(w, "idle")
  /\ calls < MaxCalls
  /\ calls' = calls + 1
  /\ UNCHANGED <<crashes, damages, failures>>

(* The row that worker w works on. *)
Key(w) == <<call[w].id, call[w].version>>

(* catalog.replace *)
Replace(k, status) == rows' = [rows EXCEPT ![k].status = status]

-----------------------------------------------------------------------------
(* create.  A ready asset with the same content is used again, unless an id *)
(* was asked for; the links to runs and the limits on a single content are  *)
(* left out, and of the events only that they may fail (CatalogFails).      *)
Reusable(content, id) ==
  id = NoId /\ \E k \in Rows : rows[k] = [status |-> "ready", content |-> content]

BeginCreate(w, content, id) ==
  /\ Arrive(w)
  /\ ~Reusable(content, id)
  /\ Become(w, [IdleCall EXCEPT !.pc = "usage", !.content = content, !.id = id])
  /\ UNCHANGED <<catalogVars, files>>

UsageBytes == MapThenSumSet(LAMBDA k : Size[rows[k].content],
                            {k \in Rows : rows[k].status # "failed"})

(* Mutant: the size of the new asset is left out. *)
FitsQuotaAlready(content) == UsageBytes <= Quota

FitsQuota(content) == UsageBytes + Size[content] <= Quota

CheckUsage(w) ==
  LET c == call[w] IN
  /\ At(w, "usage")
  /\ IF ~FitsQuota(c.content) THEN Return(w)
     ELSE IF c.id = NoId THEN Become(w, [c EXCEPT !.pc = "put", !.id = c.content])
     ELSE Goto(w, "latest")
  /\ UNCHANGED <<catalogVars, files, counters>>

VersionsOf(id) == {v \in 1 .. MaxVersion : <<id, v>> \in Rows}

(* The bound on versions ends a call that would make one more. *)
Latest(w) ==
  LET c == call[w] IN
  /\ At(w, "latest")
  /\ IF MaxVersion \in VersionsOf(c.id)
       THEN Return(w)
       ELSE Become(w, [c EXCEPT !.pc = "put", !.version = Max(VersionsOf(c.id) \union {0}) + 1])
  /\ UNCHANGED <<catalogVars, files, counters>>

(* Mutant: a row that is in the way is overwritten. *)
PutOver(w) ==
  /\ At(w, "put")
  /\ rows' = [rows EXCEPT ![Key(w)] = [status |-> "pending", content |-> call[w].content]]
  /\ Goto(w, "store")
  /\ UNCHANGED <<lineage, files, counters>>

(* The insertion fails when the primary key is taken. *)
PutPending(w) ==
  /\ At(w, "put")
  /\ IF Key(w) \in Rows
       THEN Return(w) /\ UNCHANGED rows
       ELSE /\ rows' = [rows EXCEPT ![Key(w)] =
                          [status |-> "pending", content |-> call[w].content]]
            /\ Goto(w, "store")
  /\ UNCHANGED <<lineage, files, counters>>

(* The storage may refuse the file, or write it badly. *)
StorePut(w) ==
  /\ At(w, "store")
  /\ \/ \E file \in {"good", "bad"} : files' = [files EXCEPT ![Key(w)] = file]
        /\ Goto(w, "verify")
     \/ /\ Become(w, [call[w] EXCEPT !.pc = "fail", !.status = "failed"])
        /\ UNCHANGED files
  /\ UNCHANGED <<catalogVars, counters>>

(* Mutants: the file that was written is not read back; a failure to store *)
(* it is not caught.                                                        *)
VerifyNothing(w) ==
  /\ At(w, "verify")
  /\ Goto(w, "ready")
  /\ UNCHANGED <<catalogVars, files, counters>>

VerifyEscapes(w) ==
  /\ At(w, "verify")
  /\ IF files[Key(w)] = "good" THEN Goto(w, "ready") ELSE Return(w)
  /\ UNCHANGED <<catalogVars, files, counters>>

VerifyStored(w) ==
  LET c == call[w] IN
  /\ At(w, "verify")
  /\ Become(w, IF files[Key(w)] = "good" THEN [c EXCEPT !.pc = "ready"]
               ELSE [c EXCEPT !.pc = "fail",
                              !.status = IF files[Key(w)] = "bad" THEN "quarantined" ELSE "failed"])
  /\ UNCHANGED <<catalogVars, files, counters>>

(* Mutant: the creation ends when the asset is ready. *)
MarkReadyAndReturn(w) ==
  /\ At(w, "ready")
  /\ Replace(Key(w), "ready")
  /\ Return(w)
  /\ UNCHANGED <<lineage, files, counters>>

MarkReady(w) ==
  /\ At(w, "ready")
  /\ Replace(Key(w), "ready")
  /\ Goto(w, "lineage")
  /\ UNCHANGED <<lineage, files, counters>>

MarkFailed(w) ==
  /\ At(w, "fail")
  /\ Replace(Key(w), call[w].status)
  /\ Return(w)
  /\ UNCHANGED <<lineage, files, counters>>

PutLineage(w) ==
  /\ At(w, "lineage")
  /\ lineage' = lineage \union {Key(w)}
  /\ Return(w)
  /\ UNCHANGED <<rows, files, counters>>

-----------------------------------------------------------------------------
(* content: a ready asset is read and compared with its hash. *)
BeginRead(w, k) ==
  /\ Arrive(w)
  /\ rows[k].status = "ready"
  /\ Become(w, [IdleCall EXCEPT !.pc = "read", !.id = k[1], !.version = k[2]])
  /\ UNCHANGED <<catalogVars, files>>

ReadFile(w) ==
  /\ At(w, "read")
  /\ IF files[Key(w)] = "good" THEN Return(w) ELSE Goto(w, "quarantine")
  /\ UNCHANGED <<catalogVars, files, counters>>

Quarantine(w) ==
  /\ At(w, "quarantine")
  /\ Replace(Key(w), "quarantined")
  /\ Return(w)
  /\ UNCHANGED <<lineage, files, counters>>

(* archive_expired: the ready assets that are due are read at once and      *)
(* replaced one by one.                                                     *)
BeginArchive(w) ==
  /\ Arrive(w)
  /\ \E due \in SUBSET {k \in Rows : rows[k].status = "ready"} :
       /\ due # {}
       /\ Become(w, [IdleCall EXCEPT !.pc = "archive", !.todo = due])
  /\ UNCHANGED <<catalogVars, files>>

ArchiveOne(w) ==
  /\ At(w, "archive")
  /\ \E k \in call[w].todo :
       /\ Replace(k, "archived")
       /\ IF call[w].todo = {k} THEN Return(w)
                                ELSE Become(w, [call[w] EXCEPT !.todo = @ \ {k}])
  /\ UNCHANGED <<lineage, files, counters>>

-----------------------------------------------------------------------------
(* A call of the catalog fails: the row, an event or the lineage cannot be  *)
(* written.  The failure ends the call, except between the storage and the  *)
(* event of the ready asset, where create marks the asset as failed.        *)
CatalogFails(w) ==
  LET c == call[w] IN
  /\ c.pc \notin {"idle", "verify", "read"}
  /\ failures < MaxFailures
  /\ failures' = failures + 1
  /\ \/ c.pc # "ready" /\ Return(w)
     \/ /\ c.pc \in {"ready", "lineage"}
        /\ Become(w, [c EXCEPT !.pc = "fail", !.status = "failed"])
  /\ UNCHANGED <<catalogVars, files, calls, crashes, damages>>

(* A stored file is lost or altered behind the service's back. *)
Damage ==
  /\ damages < MaxDamages
  /\ damages' = damages + 1
  /\ \E k \in Rows, file \in {"none", "bad"} :
       files[k] = "good" /\ files' = [files EXCEPT ![k] = file]
  /\ UNCHANGED <<catalogVars, call, calls, crashes, failures>>

Crash ==
  /\ crashes < MaxCrashes
  /\ crashes' = crashes + 1
  /\ ~AllIdle
  /\ call' = [w \in Workers |-> IdleCall]
  /\ UNCHANGED <<catalogVars, files, calls, damages, failures>>

Init ==
  /\ rows = [k \in Keys |-> NoRow]
  /\ files = [k \in Keys |-> "none"]
  /\ lineage = {}
  /\ call = [w \in Workers |-> IdleCall]
  /\ calls = 0 /\ crashes = 0 /\ damages = 0 /\ failures = 0

Begin(w) ==
  \/ \E content \in Contents, id \in Asked \union {NoId} : BeginCreate(w, content, id)
  \/ \E k \in Keys : BeginRead(w, k)
  \/ BeginArchive(w)

Serve(w) ==
  \/ CheckUsage(w) \/ Latest(w) \/ PutPending(w)
  \/ StorePut(w) \/ VerifyStored(w) \/ MarkReady(w) \/ MarkFailed(w) \/ PutLineage(w)
  \/ ReadFile(w) \/ Quarantine(w) \/ ArchiveOne(w)

Next ==
  \/ \E w \in Workers : Begin(w) \/ Serve(w) \/ CatalogFails(w)
  \/ Damage \/ Crash

Spec == Init /\ [][Next]_assetVars
FairSpec == Spec /\ \A w \in Workers : WF_assetVars(Serve(w))

-----------------------------------------------------------------------------
TypeOK ==
  /\ rows \in [Keys -> Row]
  /\ files \in [Keys -> {"none", "good", "bad"}]
  /\ lineage \subseteq Keys
  /\ call \in [Workers -> Calls]
  /\ calls \in Nat /\ crashes \in Nat /\ damages \in Nat /\ failures \in Nat

(* A ready asset has been read back whole: while nothing but the service    *)
(* touches the files, each ready row has a file with its very content.      *)
ReadyIsStored ==
  damages = 0 => \A k \in Keys : rows[k].status = "ready" => files[k] = "good"

Promise == INSTANCE AssetLife

(* Whoever else creates, reads or archives at the same time, and whatever   *)
(* rows read earlier are written back: a version keeps the content it was   *)
(* created with, and one that failed or was taken back is never ready again.*)
ImplementsAssetLife == Promise!Spec

(* The lineage of an asset can be asked for once the asset is ready, except *)
(* for the moment until its creator has put it, and after a crash or a      *)
(* failing catalog then.                                                    *)
LineageFollows ==
  \A k \in Keys : rows[k].status = "ready" =>
    \/ k \in lineage \/ crashes + failures > 0
    \/ \E w \in Workers : At(w, "lineage") /\ Key(w) = k

(* The quota can be exceeded by calls that passed the check together, and   *)
(* by no more than one asset for each of the other threads.  (A ready asset *)
(* whose event failed stops counting, and counts again once it is archived  *)
(* from a list read before.)                                                *)
QuotaOvershootBounded ==
  failures = 0 =>
    UsageBytes <= Quota + (Cardinality(Workers) - 1) * Max({Size[c] : c \in Contents})

(* A pending asset is settled: it becomes ready, fails or is quarantined,   *)
(* unless the process dies or the catalog fails.                            *)
PendingSettles ==
  \A k \in Keys :
    rows[k].status = "pending" ~> crashes + failures > 0 \/ rows[k].status # "pending"
=============================================================================
