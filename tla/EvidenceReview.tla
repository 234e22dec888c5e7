---------------------------- MODULE EvidenceReview ----------------------------
(***************************************************************************)
(* The evidence of one run: EvidenceReviewService stores what a research   *)
(* stage collected, then checks every claim of the package against it and  *)
(* looks for subjects with incompatible claims.  Each call of the store is *)
(* a transaction of its own, except that put looks for a record and        *)
(* inserts it later: the table refuses a second record of one content.     *)
(* Threads that execute the stage of one run share the tables.             *)
(***************************************************************************)
EXTENDS Naturals, Sequences, FiniteSets, SequencesExt

CONSTANTS
  Workers,       \* the threads that execute a research stage
  Findings,      \* what a research stage can collect
  Content,       \* the source and claim of each finding, which its hash stands for
  Claim,         \* its claim, in lower case and without blanks around it
  Subject,       \* its subject, likewise
  Packages,      \* what a stage may return: the findings and the claims made
  MaxReviews,    \* bound: reviews begun
  MaxOverlaps    \* bound: reviews begun while another one is at work

ASSUME EvidenceAssumption ==
  /\ \A f, g \in Findings : Content[f] = Content[g] => Claim[f] = Claim[g]
  /\ \A p \in Packages : p.findings \in Seq(Findings) /\ p.claims \in Seq(ToSet(p.claims))
  /\ MaxReviews \in Nat /\ MaxOverlaps \in Nat

VARIABLES
  records,     \* evidence_records: the finding stored for each content, in order
  citations,   \* evidence_citations
  conflicts,   \* evidence_conflicts
  package,     \* the packages that were reviewed to the end
  review,      \* the review each worker is at
  reviews, overlaps,
  collisions   \* inserts that the table refused

tables == <<records, citations, conflicts>>
vars == <<tables, package, review, reviews, overlaps, collisions>>

RecordIds == DOMAIN records
Stored(content) == {i \in RecordIds : Content[records[i]] = content}

PCs == {"idle", "look", "insert", "agent", "cite"}

(* kept: the records of the findings stored so far; again: normalize is at  *)
(* its second pass; cited, disputed: the citations and conflicts stored.    *)
NoReview == [pc |-> "idle", findings |-> <<>>, claims |-> <<>>, kept |-> <<>>,
             again |-> FALSE, cited |-> <<>>, disputed |-> {}]

At(w, pc) == review[w].pc = pc
Quiet == \A w \in Workers : At(w, "idle")
Become(w, r) == review' = [review EXCEPT ![w] = r]
Return(w) == Become(w, NoReview)

(* normalize stores one finding after the other; then the evidence agent is *)
(* asked, or, the second time, the review goes on.                          *)
Onward(r) ==
  [r EXCEPT !.pc = IF Len(r.kept) < Len(r.findings) THEN "look"
                   ELSE IF r.again THEN "cite" ELSE "agent"]

Keep(r, id) == Onward([r EXCEPT !.kept = Append(@, id)])

(* The finding that put is to store. *)
Finding(w) == review[w].findings[Len(review[w].kept) + 1]

-----------------------------------------------------------------------------
Begin(w, p) ==
  /\ At(w, "idle") /\ reviews < MaxReviews
  /\ reviews' = reviews + 1
  /\ IF Quiet THEN UNCHANGED overlaps
              ELSE overlaps < MaxOverlaps /\ overlaps' = overlaps + 1
  /\ Become(w, Onward([NoReview EXCEPT !.findings = p.findings, !.claims = p.claims]))
  /\ UNCHANGED <<tables, package, collisions>>

(* Mutant: the record there is is not looked for. *)
LookUpNothing(w) ==
  /\ At(w, "look")
  /\ Become(w, [review[w] EXCEPT !.pc = "insert"])
  /\ UNCHANGED <<tables, package, reviews, overlaps, collisions>>

(* put: the record there is, or else a new one. *)
LookUp(w) ==
  LET found == Stored(Content[Finding(w)]) IN
  /\ At(w, "look")
  /\ IF found # {}
       THEN Become(w, Keep(review[w], CHOOSE i \in found : TRUE))
       ELSE Become(w, [review[w] EXCEPT !.pc = "insert"])
  /\ UNCHANGED <<tables, package, reviews, overlaps, collisions>>

Insert(w) ==
  /\ At(w, "insert")
  /\ IF Stored(Content[Finding(w)]) = {}
       THEN /\ records' = Append(records, Finding(w))
            /\ Become(w, Keep(review[w], Len(records) + 1))
            /\ UNCHANGED collisions
       ELSE Return(w) /\ collisions' = collisions + 1 /\ UNCHANGED records
  /\ UNCHANGED <<citations, conflicts, package, reviews, overlaps>>

(* The evidence agent may fail, and what it answers replaces the claims.    *)
(* The findings are those collected, whatever it says.                      *)
AgentAnswers(w, claims) ==
  /\ At(w, "agent")
  /\ Become(w, Onward([review[w] EXCEPT !.claims = claims, !.kept = <<>>, !.again = TRUE]))
  /\ UNCHANGED <<tables, package, reviews, overlaps, collisions>>

AgentFails(w) ==
  /\ At(w, "agent")
  /\ Return(w)
  /\ UNCHANGED <<tables, package, reviews, overlaps, collisions>>

-----------------------------------------------------------------------------
(* review, over the records kept. *)
KeptWith(r, P(_)) == {i \in ToSet(r.kept) : P(records[i])}

Supporting(r, claim) == KeptWith(r, LAMBDA f : Claim[f] = claim)

(* A review without a record does not know its run. *)
RunOf(r) == IF r.kept # <<>> THEN "this" ELSE "unknown"

Citation(r, claim) ==
  [run |-> RunOf(r), claim |-> claim, evidence |-> Supporting(r, claim),
   supported |-> Supporting(r, claim) # {}]

(* Mutant: the subject that was asked for is compared, not the one kept. *)
DisputedAsAsked(r) ==
  {s \in {Subject[f] : f \in ToSet(r.findings)} :
     Cardinality({Claim[f] : f \in {g \in ToSet(r.findings) : Subject[g] = s}}) >= 2}

(* The subjects with two or more claims; the subject of a content is the    *)
(* one it was first stored with.                                            *)
Disputed(r) ==
  {s \in {Subject[records[i]] : i \in ToSet(r.kept)} :
     Cardinality({Claim[records[i]] : i \in KeptWith(r, LAMBDA f : Subject[f] = s)}) >= 2}

Conflict(r, subject) ==
  [subject |-> subject, evidence |-> KeptWith(r, LAMBDA f : Subject[f] = subject)]

PutCitation(w) ==
  LET r == review[w] IN
  /\ At(w, "cite")
  /\ Len(r.cited) < Len(r.claims)
  /\ citations' = Append(citations, Citation(r, r.claims[Len(r.cited) + 1]))
  /\ Become(w, [r EXCEPT !.cited = Append(@, Len(citations) + 1)])
  /\ UNCHANGED <<records, conflicts, package, reviews, overlaps, collisions>>

PutConflict(w) ==
  LET r == review[w] IN
  /\ At(w, "cite")
  /\ Len(r.cited) = Len(r.claims)
  /\ \E s \in Disputed(r) \ {conflicts[i].subject : i \in r.disputed} :
       /\ conflicts' = Append(conflicts, Conflict(r, s))
       /\ Become(w, [r EXCEPT !.disputed = @ \union {Len(conflicts) + 1}])
  /\ UNCHANGED <<records, citations, package, reviews, overlaps, collisions>>

(* The package the stage goes on with. *)
Reviewed(r) ==
  [claims |-> r.claims, evidence |-> r.kept, citations |-> r.cited,
   conflicts |-> r.disputed,
   covered |-> Cardinality({i \in DOMAIN r.cited : citations[r.cited[i]].supported})]

Finish(w) ==
  LET r == review[w] IN
  /\ At(w, "cite")
  /\ Len(r.cited) = Len(r.claims)
  /\ Disputed(r) = {conflicts[i].subject : i \in r.disputed}
  /\ package' = package \union {Reviewed(r)}
  /\ Return(w)
  /\ UNCHANGED <<tables, reviews, overlaps, collisions>>

Init ==
  /\ records = <<>> /\ citations = <<>> /\ conflicts = <<>>
  /\ package = {}
  /\ review = [w \in Workers |-> NoReview]
  /\ reviews = 0 /\ overlaps = 0 /\ collisions = 0

Work(w) ==
  \/ LookUp(w) \/ Insert(w) \/ AgentFails(w)
  \/ \E p \in Packages : AgentAnswers(w, p.claims)
  \/ PutCitation(w) \/ PutConflict(w) \/ Finish(w)

Next == \E w \in Workers : Work(w) \/ \E p \in Packages : Begin(w, p)

Spec == Init /\ [][Next]_vars
-----------------------------------------------------------------------------
TypeOK ==
  /\ records \in Seq(Findings)
  /\ \A i \in DOMAIN citations : citations[i].evidence \subseteq RecordIds
  /\ \A i \in DOMAIN conflicts : conflicts[i].evidence \subseteq RecordIds
  /\ \A w \in Workers :
       LET r == review[w] IN
       /\ r.pc \in PCs
       /\ r.kept \in Seq(RecordIds) /\ Len(r.kept) <= Len(r.findings)
       /\ r.cited \in Seq(DOMAIN citations) /\ r.disputed \subseteq DOMAIN conflicts

(* A package that was reviewed rests on rows of its run: each of its claims *)
(* is cited, as supported exactly when a finding of this package makes the  *)
(* claim; its coverage counts those; and its conflicts are the subjects its *)
(* records disagree on.  Other reviews of the run change nothing of it.  The *)
(* citations are found under the run if there is any evidence, and only     *)
(* then.                                                                    *)
PackageIsBacked ==
  \A p \in package :
    LET mine == {records[p.evidence[i]] : i \in DOMAIN p.evidence}
        made == {Claim[f] : f \in mine} IN
    /\ [n \in DOMAIN p.citations |-> citations[p.citations[n]].claim] = p.claims
    /\ \A n \in DOMAIN p.claims :
         /\ citations[p.citations[n]].supported <=> p.claims[n] \in made
         /\ citations[p.citations[n]].run = "this" <=> mine # {}
    /\ p.covered = Cardinality({n \in DOMAIN p.claims : p.claims[n] \in made})
    /\ {conflicts[i].subject : i \in p.conflicts}
         = {Subject[f] : f \in {g \in mine : \E h \in mine :
                                 Subject[g] = Subject[h] /\ Claim[g] # Claim[h]}}

(* A content is stored once, and an insert is refused only when two reviews *)
(* of the run overlapped: one review stores each finding twice itself, and  *)
(* a stage that is executed again stores what is there.                     *)
StoredOnce ==
  /\ \A i, j \in RecordIds : Content[records[i]] = Content[records[j]] => i = j
  /\ overlaps = 0 => collisions = 0
=============================================================================
