------------------------ MODULE EvidenceReviewProofs ------------------------
(***************************************************************************)
(* What holds of the evidence of a run for any findings and packages and   *)
(* any number of reviews that overlap.                                     *)
(***************************************************************************)
EXTENDS EvidenceReview, SequenceTheorems, FiniteSetTheorems, TLAPS

-----------------------------------------------------------------------------
(* A list, whatever its elements are.                                        *)
IsSeq(s) == s \in Seq(ToSet(s))

(* What a review refers to is on file.                                       *)
ReviewTyped(r) ==
  /\ DOMAIN r = DOMAIN NoReview
  /\ r.pc \in PCs
  /\ r.findings \in Seq(Findings) /\ IsSeq(r.claims)
  /\ r.kept \in Seq(RecordIds) /\ Len(r.kept) <= Len(r.findings)
  /\ r.pc \in {"look", "insert"} => Len(r.kept) < Len(r.findings)
  /\ r.cited \in Seq(DOMAIN citations) /\ Len(r.cited) <= Len(r.claims)
  /\ r.disputed \subseteq DOMAIN conflicts
  /\ r.pc # "cite" => r.cited = <<>> /\ r.disputed = {}

PackageTyped(p) ==
  /\ IsSeq(p.claims) /\ p.evidence \in Seq(RecordIds)
  /\ p.citations \in Seq(DOMAIN citations) /\ Len(p.citations) = Len(p.claims)
  /\ p.conflicts \subseteq DOMAIN conflicts

TypeInv ==
  /\ records \in Seq(Findings) /\ IsSeq(citations) /\ IsSeq(conflicts)
  /\ \A i \in DOMAIN citations : citations[i].evidence \subseteq RecordIds
  /\ \A i \in DOMAIN conflicts : conflicts[i].evidence \subseteq RecordIds
  /\ DOMAIN review = Workers
  /\ \A w \in Workers : ReviewTyped(review[w])
  /\ \A p \in package : PackageTyped(p)
  /\ overlaps \in Nat /\ collisions \in Nat

(* The citations a review stored so far are those of its records.            *)
CitedInv ==
  \A w \in Workers : \A n \in DOMAIN review[w].cited :
    citations[review[w].cited[n]] = Citation(review[w], review[w].claims[n])

(* Without an overlap nobody else stores what a review is about to insert.   *)
AloneInv ==
  overlaps = 0 =>
    /\ \A v, w \in Workers : v # w => At(v, "idle") \/ At(w, "idle")
    /\ \A w \in Workers : At(w, "insert") => Stored(Content[Finding(w)]) = {}

EvidenceInv == TypeInv /\ CitedInv /\ PackageIsBacked /\ AloneInv /\ StoredOnce

-----------------------------------------------------------------------------
(* Lists, sets and reviews.                                                  *)

(* Whatever its elements are, a list is a list of those. *)
LEMMA IsItsList ==
  ASSUME NEW S, NEW s \in Seq(S)
  PROVE  IsSeq(s)
<1>1. /\ Len(s) \in Nat /\ s \in [1 .. Len(s) -> S] /\ DOMAIN s = 1 .. Len(s)
  BY LenProperties
<1>2. s \in [1 .. Len(s) -> ToSet(s)]
  BY <1>1 DEF ToSet
<1> QED  BY <1>1, <1>2, SeqDef DEF IsSeq

(* A list that is appended to is a list, and keeps what it had. *)
LEMMA AppendFacts ==
  ASSUME NEW s, IsSeq(s), NEW e
  PROVE  /\ IsSeq(Append(s, e)) /\ Len(s) \in Nat
         /\ Len(Append(s, e)) = Len(s) + 1
         /\ DOMAIN s = 1 .. Len(s) /\ DOMAIN Append(s, e) = 1 .. Len(s) + 1
         /\ \A i \in DOMAIN s : Append(s, e)[i] = s[i]
         /\ Append(s, e)[Len(s) + 1] = e
<1> DEFINE T == ToSet(s) \union {e}
           a == Append(s, e)
<1>1. s \in Seq(T) /\ e \in T
  BY SeqMonotonic, ToSet(s) \subseteq T DEF IsSeq
<1>2. /\ a \in Seq(T) /\ Len(s) \in Nat /\ Len(a) = Len(s) + 1
      /\ DOMAIN s = 1 .. Len(s) /\ DOMAIN a = 1 .. Len(s) + 1
      /\ \A i \in DOMAIN s : a[i] = s[i]
      /\ a[Len(s) + 1] = e
  BY <1>1
<1> QED  BY <1>2, IsItsList

(* The same of a list with elements of a given kind. *)
LEMMA AppendTyped ==
  ASSUME NEW S, NEW s \in Seq(S), NEW e \in S
  PROVE  /\ Append(s, e) \in Seq(S) /\ Len(s) \in Nat
         /\ Len(Append(s, e)) = Len(s) + 1
         /\ DOMAIN s = 1 .. Len(s) /\ DOMAIN Append(s, e) = 1 .. Len(s) + 1
         /\ \A i \in DOMAIN s : Append(s, e)[i] = s[i]
         /\ Append(s, e)[Len(s) + 1] = e
  OBVIOUS

(* A finite set has two elements or more if it has two that differ. *)
LEMMA TwoOrMore ==
  ASSUME NEW S, IsFiniteSet(S)
  PROVE  Cardinality(S) >= 2 <=> \E x, y \in S : x # y
<1>1. CASE S = {}
  <2>1. Cardinality(S) = 0  BY <1>1, FS_EmptySet
  <2> QED  BY <1>1, <2>1
<1>2. ASSUME NEW x \in S
      PROVE  Cardinality(S) >= 2 <=> \E y, z \in S : y # z
  <2>1. /\ IsFiniteSet(S \ {x}) /\ Cardinality(S) \in Nat
        /\ Cardinality(S \ {x}) = Cardinality(S) - 1
    BY FS_RemoveElement, FS_CardinalityType
  <2>2. Cardinality(S \ {x}) \in Nat /\ (Cardinality(S \ {x}) = 0 <=> S \ {x} = {})
    BY <2>1, FS_EmptySet, FS_CardinalityType
  <2>3. (\E y, z \in S : y # z) <=> S \ {x} # {}
    <3>1. ASSUME S \ {x} # {} PROVE \E y, z \in S : y # z
      <4>1. PICK z \in S : z # x  BY <3>1
      <4> QED  BY <4>1
    <3>2. ASSUME NEW y \in S, NEW z \in S, y # z PROVE S \ {x} # {}
      BY <3>2
    <3> QED  BY <3>1, <3>2
  <2>4. Cardinality(S) >= 2 <=> Cardinality(S \ {x}) # 0
    BY <2>1, <2>2
  <2> QED  BY <2>2, <2>3, <2>4
<1> QED  BY <1>1, <1>2

(* What a function makes of some elements of a list is finite. *)
LEMMA ImageFinite ==
  ASSUME NEW S, NEW s \in Seq(S), NEW K \in SUBSET ToSet(s), NEW f
  PROVE  IsFiniteSet({f[i] : i \in K})
<1>1. /\ Len(s) \in Nat /\ s \in [1 .. Len(s) -> S] /\ DOMAIN s = 1 .. Len(s)
  BY LenProperties
<1>2. IsFiniteSet(1 .. Len(s))
  BY <1>1, FS_Interval
<1>3. s \in Surjection(1 .. Len(s), ToSet(s))
  BY <1>1 DEF Surjection, ToSet
<1>4. IsFiniteSet(K)
  BY <1>2, <1>3, FS_Surjection, FS_Subset
<1>5. [i \in K |-> f[i]] \in Surjection(K, {f[i] : i \in K})
  BY DEF Surjection
<1> QED  BY <1>4, <1>5, FS_Surjection

(* A step of one review leaves the others as they are. *)
LEMMA Became ==
  ASSUME DOMAIN review = Workers, NEW w \in Workers, NEW r, Become(w, r)
  PROVE  /\ DOMAIN review' = Workers /\ review'[w] = r
         /\ \A v \in Workers \ {w} : review'[v] = review[v]
  BY DEF Become

(* What going on to the next finding, or past the last one, changes. *)
LEMMA OnwardFields ==
  ASSUME NEW r, DOMAIN r = DOMAIN NoReview
  PROVE  /\ DOMAIN Onward(r) = DOMAIN NoReview
         /\ Onward(r).findings = r.findings /\ Onward(r).claims = r.claims
         /\ Onward(r).kept = r.kept /\ Onward(r).again = r.again
         /\ Onward(r).cited = r.cited /\ Onward(r).disputed = r.disputed
         /\ Onward(r).pc = IF Len(r.kept) < Len(r.findings) THEN "look"
                           ELSE IF r.again THEN "cite" ELSE "agent"
  BY DEF Onward, NoReview

-----------------------------------------------------------------------------
(* Types, and that the tables only grow.                                     *)

(* Nothing in the evidence tables is ever changed or taken back.             *)
Grown ==
  /\ \A i \in RecordIds : i \in RecordIds' /\ records'[i] = records[i]
  /\ \A i \in DOMAIN citations : i \in DOMAIN citations' /\ citations'[i] = citations[i]
  /\ \A i \in DOMAIN conflicts : i \in DOMAIN conflicts' /\ conflicts'[i] = conflicts[i]

(* Then every review that rested and every package refer to what is there.  *)
LEMMA TypesKept ==
  ASSUME TypeInv, Grown, NEW w \in Workers, NEW r, Become(w, r), ReviewTyped(review[w])',
         records' \in Seq(Findings), IsSeq(citations'), IsSeq(conflicts'),
         \A i \in DOMAIN citations' :
           citations'[i].evidence \subseteq RecordIds' \/ i \in DOMAIN citations,
         \A i \in DOMAIN conflicts' :
           conflicts'[i].evidence \subseteq RecordIds' \/ i \in DOMAIN conflicts,
         \A p \in package' : p \in package \/ PackageTyped(p)',
         overlaps' \in Nat, collisions' \in Nat
  PROVE  TypeInv'
<1>1. RecordIds \subseteq RecordIds'
  BY DEF Grown
<1>2. DOMAIN citations \subseteq DOMAIN citations' /\ DOMAIN conflicts \subseteq DOMAIN conflicts'
  BY DEF Grown
<1>3. DOMAIN review' = Workers /\ \A v \in Workers \ {w} : review'[v] = review[v]
  BY Became DEF TypeInv
<1>4. ASSUME NEW v \in Workers PROVE ReviewTyped(review[v])'
  <2>1. CASE v = w  BY <2>1
  <2>2. CASE v # w
    <3>1. ReviewTyped(review[v]) /\ review'[v] = review[v]
      BY <1>3, <2>2 DEF TypeInv
    <3>2. review[v].kept \in Seq(RecordIds') /\ review[v].cited \in Seq(DOMAIN citations')
      BY <1>1, <1>2, <3>1, SeqMonotonic DEF ReviewTyped
    <3> QED  BY <1>2, <3>1, <3>2 DEF ReviewTyped
  <2> QED  BY <2>1, <2>2
<1>5. ASSUME NEW p \in package, PackageTyped(p) PROVE PackageTyped(p)'
  <2>1. p.evidence \in Seq(RecordIds') /\ p.citations \in Seq(DOMAIN citations')
    BY <1>1, <1>2, <1>5, SeqMonotonic DEF PackageTyped
  <2> QED  BY <1>2, <1>5, <2>1 DEF PackageTyped
<1>6. \A p \in package' : PackageTyped(p)'
  BY <1>5 DEF TypeInv
<1>7. \A i \in DOMAIN citations' : citations'[i].evidence \subseteq RecordIds'
  BY <1>1 DEF Grown, TypeInv
<1>8. \A i \in DOMAIN conflicts' : conflicts'[i].evidence \subseteq RecordIds'
  BY <1>1 DEF Grown, TypeInv
<1> QED  BY <1>3, <1>4, <1>6, <1>7, <1>8 DEF TypeInv

(* What a step that leaves the tables alone must not break.                  *)
LEMMA TablesKept ==
  ASSUME TypeInv, UNCHANGED tables
  PROVE  /\ Grown
         /\ records' \in Seq(Findings) /\ IsSeq(citations') /\ IsSeq(conflicts')
         /\ RecordIds' = RecordIds
         /\ \A i \in DOMAIN citations' : i \in DOMAIN citations
         /\ \A i \in DOMAIN conflicts' : i \in DOMAIN conflicts
  BY DEF TypeInv, tables, Grown, RecordIds

(* A review that ended refers to nothing. *)
LEMMA EndedTyped ==
  ASSUME TypeInv, NEW w \in Workers, Return(w)
  PROVE  ReviewTyped(review[w])'
<1>1. review'[w] = NoReview
  BY Became DEF Return, TypeInv
<1>2. /\ NoReview.findings \in Seq(Findings) /\ IsSeq(NoReview.claims)
      /\ NoReview.kept = <<>> /\ NoReview.cited = <<>> /\ NoReview.disputed = {}
      /\ NoReview.pc = "idle" /\ NoReview.claims = <<>> /\ NoReview.findings = <<>>
  BY EmptySeq, IsItsList DEF NoReview
<1>3. /\ <<>> \in Seq(RecordIds') /\ <<>> \in Seq(DOMAIN citations') /\ Len(<<>>) = 0
  BY EmptySeq
<1> QED  BY <1>1, <1>2, <1>3 DEF ReviewTyped, PCs

(* A review that has every finding it counts as kept may go on.              *)
LEMMA OnwardTyped ==
  ASSUME TypeInv, Grown, NEW w \in Workers, NEW r, Become(w, Onward(r)),
         DOMAIN r = DOMAIN NoReview,
         r.findings \in Seq(Findings), IsSeq(r.claims),
         r.kept \in Seq(RecordIds'), Len(r.kept) <= Len(r.findings),
         r.cited = <<>>, r.disputed = {}
  PROVE  ReviewTyped(review[w])'
<1> DEFINE o == Onward(r)
<1>1. review'[w] = o
  BY Became DEF TypeInv
<1>2. /\ <<>> \in Seq(DOMAIN citations') /\ Len(<<>>) = 0
  BY EmptySeq
<1>3. Len(r.claims) \in Nat /\ Len(r.kept) \in Nat /\ Len(r.findings) \in Nat
  BY LenProperties DEF IsSeq
<1>4. /\ DOMAIN o = DOMAIN NoReview /\ o.findings = r.findings /\ o.claims = r.claims
      /\ o.kept = r.kept /\ o.cited = <<>> /\ o.disputed = {}
      /\ o.pc = IF Len(r.kept) < Len(r.findings) THEN "look"
                ELSE IF r.again THEN "cite" ELSE "agent"
  BY OnwardFields
<1>5. /\ o.pc \in PCs /\ o.pc # "insert"
      /\ o.pc = "look" => Len(o.kept) < Len(o.findings)
  BY <1>4 DEF PCs
<1> HIDE DEF o
<1> QED  BY <1>1, <1>2, <1>3, <1>4, <1>5 DEF ReviewTyped

(* Storing one more record, citation or conflict only makes the table grow. *)
LEMMA RecordsGrow ==
  ASSUME TypeInv, NEW f \in Findings, records' = Append(records, f),
         UNCHANGED <<citations, conflicts>>
  PROVE  /\ Grown /\ records' \in Seq(Findings) /\ Len(records) + 1 \in RecordIds'
         /\ records'[Len(records) + 1] = f
         /\ RecordIds' = RecordIds \union {Len(records) + 1}
<1>1. records \in Seq(Findings)  BY DEF TypeInv
<1> QED  BY <1>1, AppendTyped DEF Grown, RecordIds

(* The same of the citations. *)
LEMMA CitationsGrow ==
  ASSUME TypeInv, NEW c, citations' = Append(citations, c), UNCHANGED <<records, conflicts>>
  PROVE  /\ Grown /\ IsSeq(citations') /\ Len(citations) + 1 \in DOMAIN citations'
         /\ citations'[Len(citations) + 1] = c
         /\ \A i \in DOMAIN citations' : i \in DOMAIN citations \/ citations'[i] = c
<1>1. IsSeq(citations)  BY DEF TypeInv
<1>2. /\ IsSeq(citations') /\ Len(citations) \in Nat
      /\ DOMAIN citations = 1 .. Len(citations)
      /\ DOMAIN citations' = 1 .. Len(citations) + 1
      /\ \A i \in DOMAIN citations : citations'[i] = citations[i]
      /\ citations'[Len(citations) + 1] = c
  BY <1>1, AppendFacts
<1> QED  BY <1>2 DEF Grown, RecordIds

(* The same of the conflicts. *)
LEMMA ConflictsGrow ==
  ASSUME TypeInv, NEW c, conflicts' = Append(conflicts, c), UNCHANGED <<records, citations>>
  PROVE  /\ Grown /\ IsSeq(conflicts') /\ Len(conflicts) + 1 \in DOMAIN conflicts'
         /\ conflicts'[Len(conflicts) + 1] = c
         /\ \A i \in DOMAIN conflicts' : i \in DOMAIN conflicts \/ conflicts'[i] = c
<1>1. IsSeq(conflicts)  BY DEF TypeInv
<1>2. /\ IsSeq(conflicts') /\ Len(conflicts) \in Nat
      /\ DOMAIN conflicts = 1 .. Len(conflicts)
      /\ DOMAIN conflicts' = 1 .. Len(conflicts) + 1
      /\ \A i \in DOMAIN conflicts : conflicts'[i] = conflicts[i]
      /\ conflicts'[Len(conflicts) + 1] = c
  BY <1>1, AppendFacts
<1> QED  BY <1>2 DEF Grown, RecordIds

(* The fields of a review on its way. *)
LEMMA ReviewFields ==
  ASSUME TypeInv, NEW w \in Workers
  PROVE  /\ DOMAIN review[w] = DOMAIN NoReview
         /\ review[w].findings \in Seq(Findings) /\ IsSeq(review[w].claims)
         /\ review[w].kept \in Seq(RecordIds) /\ review[w].cited \in Seq(DOMAIN citations)
         /\ Len(review[w].findings) \in Nat /\ Len(review[w].claims) \in Nat
         /\ Len(review[w].kept) \in Nat /\ Len(review[w].cited) \in Nat
         /\ Len(review[w].kept) <= Len(review[w].findings)
         /\ Len(review[w].cited) <= Len(review[w].claims)
         /\ review[w].disputed \subseteq DOMAIN conflicts
         /\ review[w].pc # "cite" => review[w].cited = <<>> /\ review[w].disputed = {}
         /\ review[w].pc \in {"look", "insert"} =>
              Finding(w) \in Findings /\ Len(review[w].kept) < Len(review[w].findings)
<1>1. ReviewTyped(review[w])  BY DEF TypeInv
<1>2. /\ Len(review[w].findings) \in Nat /\ Len(review[w].claims) \in Nat
      /\ Len(review[w].kept) \in Nat /\ Len(review[w].cited) \in Nat
  BY <1>1, LenProperties DEF ReviewTyped, IsSeq
<1>3. ASSUME review[w].pc \in {"look", "insert"} PROVE Finding(w) \in Findings
  BY <1>1, <1>2, <1>3, ElementOfSeq DEF ReviewTyped, Finding
<1> QED  BY <1>1, <1>2, <1>3 DEF ReviewTyped

(* A review that keeps one more record.                                      *)
LEMMA KeepTyped ==
  ASSUME TypeInv, Grown, NEW w \in Workers, review[w].pc \in {"look", "insert"},
         NEW id \in RecordIds', Become(w, Keep(review[w], id))
  PROVE  /\ ReviewTyped(review[w])'
         /\ review'[w].pc # "insert"
<1> DEFINE r == [review[w] EXCEPT !.kept = Append(review[w].kept, id)]
<1>1. /\ DOMAIN r = DOMAIN NoReview /\ r.findings = review[w].findings
      /\ r.claims = review[w].claims /\ r.kept = Append(review[w].kept, id)
      /\ r.cited = <<>> /\ r.disputed = {}
  BY ReviewFields DEF NoReview
<1>2. RecordIds \subseteq RecordIds'
  BY DEF Grown
<1>3. r.kept \in Seq(RecordIds') /\ Len(r.kept) = Len(review[w].kept) + 1
  <2>1. review[w].kept \in Seq(RecordIds')
    BY <1>2, ReviewFields, SeqMonotonic
  <2> QED  BY <1>1, <2>1, AppendTyped
<1>4. Keep(review[w], id) = Onward(r)
  BY DEF Keep
<1>5. r.findings \in Seq(Findings) /\ IsSeq(r.claims) /\ Len(r.kept) <= Len(r.findings)
  BY <1>1, <1>3, ReviewFields
<1>6. review'[w] = Onward(r)
  BY <1>4, Became DEF TypeInv
<1>7. Onward(r).pc # "insert"
  BY <1>1, OnwardFields
<1> HIDE DEF r
<1>8. Become(w, Onward(r))  BY <1>4
<1> QED  BY <1>1, <1>3, <1>5, <1>6, <1>7, <1>8, OnwardTyped

(* The record that a review finds was stored, with the content it looks for. *)
LEMMA FoundIsStored ==
  ASSUME NEW content, Stored(content) # {}
  PROVE  /\ (CHOOSE i \in Stored(content) : TRUE) \in Stored(content)
         /\ Stored(content) \subseteq RecordIds
  BY DEF Stored

(* What a citation or a conflict names are records the review kept. *)
LEMMA NamedAreKept ==
  ASSUME TypeInv, NEW w \in Workers, NEW c
  PROVE  /\ Citation(review[w], c).evidence \subseteq RecordIds
         /\ Conflict(review[w], c).evidence \subseteq RecordIds
<1>1. ToSet(review[w].kept) \subseteq RecordIds
  BY ReviewFields, LenProperties DEF ToSet
<1> QED  BY <1>1 DEF Citation, Conflict, Supporting, KeptWith

(* A review that cites one more claim of its package. *)
LEMMA CiteTyped ==
  ASSUME TypeInv, NEW w \in Workers, PutCitation(w)
  PROVE  /\ Grown /\ ReviewTyped(review[w])'
         /\ DOMAIN review' = Workers /\ \A v \in Workers \ {w} : review'[v] = review[v]
         /\ review'[w] = [review[w] EXCEPT !.cited = Append(@, Len(citations) + 1)]
         /\ review'[w].cited = Append(review[w].cited, Len(citations) + 1)
         /\ review'[w].claims = review[w].claims /\ review'[w].kept = review[w].kept
         /\ \A i \in DOMAIN citations' :
              citations'[i].evidence \subseteq RecordIds' \/ i \in DOMAIN citations
<1> DEFINE r == review[w]
           c == Citation(r, r.claims[Len(r.cited) + 1])
<1>1. Grown /\ IsSeq(citations') /\ Len(citations) + 1 \in DOMAIN citations'
      /\ \A i \in DOMAIN citations' : i \in DOMAIN citations \/ citations'[i] = c
  BY CitationsGrow DEF PutCitation
<1>2. /\ DOMAIN review' = Workers /\ \A v \in Workers \ {w} : review'[v] = review[v]
      /\ review'[w] = [r EXCEPT !.cited = Append(@, Len(citations) + 1)]
  BY Became DEF PutCitation, TypeInv
<1>3. /\ DOMAIN review'[w] = DOMAIN NoReview /\ review'[w].pc = "cite"
      /\ review'[w].findings = r.findings /\ review'[w].claims = r.claims
      /\ review'[w].kept = r.kept /\ review'[w].disputed = r.disputed
      /\ review'[w].cited = Append(r.cited, Len(citations) + 1)
  BY <1>2, ReviewFields DEF PutCitation, NoReview, At
<1>4. RecordIds' = RecordIds /\ DOMAIN conflicts' = DOMAIN conflicts
      /\ DOMAIN citations \subseteq DOMAIN citations'
  BY <1>1 DEF PutCitation, RecordIds, Grown
<1>5. /\ review'[w].cited \in Seq(DOMAIN citations')
      /\ Len(review'[w].cited) = Len(r.cited) + 1
  <2>1. r.cited \in Seq(DOMAIN citations')  BY <1>4, ReviewFields, SeqMonotonic
  <2> QED  BY <1>1, <1>3, <2>1, AppendTyped
<1>6. Len(r.cited) + 1 <= Len(r.claims)
  BY ReviewFields DEF PutCitation
<1>7. ReviewTyped(review[w])'
  BY <1>3, <1>4, <1>5, <1>6, ReviewFields DEF ReviewTyped, PCs
<1>8. c.evidence \subseteq RecordIds'
  BY <1>4, NamedAreKept
<1> QED  BY <1>1, <1>2, <1>3, <1>7, <1>8

(* A review that reports one more disputed subject. *)
LEMMA DisputeTyped ==
  ASSUME TypeInv, NEW w \in Workers, PutConflict(w)
  PROVE  /\ Grown /\ ReviewTyped(review[w])' /\ IsSeq(conflicts')
         /\ DOMAIN review' = Workers /\ \A v \in Workers \ {w} : review'[v] = review[v]
         /\ review'[w].cited = review[w].cited
         /\ review'[w].claims = review[w].claims /\ review'[w].kept = review[w].kept
         /\ \A i \in DOMAIN conflicts' :
              conflicts'[i].evidence \subseteq RecordIds' \/ i \in DOMAIN conflicts
<1> DEFINE r == review[w]
<1>1. PICK s : /\ conflicts' = Append(conflicts, Conflict(r, s))
               /\ Become(w, [r EXCEPT !.disputed = @ \union {Len(conflicts) + 1}])
  BY DEF PutConflict
<1>2. Grown /\ IsSeq(conflicts') /\ Len(conflicts) + 1 \in DOMAIN conflicts'
      /\ \A i \in DOMAIN conflicts' : i \in DOMAIN conflicts \/ conflicts'[i] = Conflict(r, s)
  BY <1>1, ConflictsGrow DEF PutConflict
<1>3. /\ DOMAIN review' = Workers /\ \A v \in Workers \ {w} : review'[v] = review[v]
      /\ review'[w] = [r EXCEPT !.disputed = @ \union {Len(conflicts) + 1}]
  BY <1>1, Became DEF TypeInv
<1>4. /\ DOMAIN review'[w] = DOMAIN NoReview /\ review'[w].pc = "cite"
      /\ review'[w].findings = r.findings /\ review'[w].claims = r.claims
      /\ review'[w].kept = r.kept /\ review'[w].cited = r.cited
      /\ review'[w].disputed = r.disputed \union {Len(conflicts) + 1}
  BY <1>3, ReviewFields DEF PutConflict, NoReview, At
<1>5. RecordIds' = RecordIds /\ DOMAIN citations' = DOMAIN citations
      /\ DOMAIN conflicts \subseteq DOMAIN conflicts'
  BY <1>2 DEF PutConflict, RecordIds, Grown
<1>6. ReviewTyped(review[w])'
  BY <1>2, <1>4, <1>5, ReviewFields DEF ReviewTyped, PCs
<1>7. Conflict(r, s).evidence \subseteq RecordIds'
  BY <1>5, NamedAreKept
<1> QED  BY <1>2, <1>3, <1>4, <1>6, <1>7

(* Every step of a review keeps the types, and the tables only grow. *)
LEMMA TypeWork ==
  ASSUME TypeInv, NEW w \in Workers, Work(w) \/ \E p \in Packages : Begin(w, p)
  PROVE  TypeInv' /\ Grown
<1> DEFINE r == review[w]
<1>0. overlaps \in Nat /\ collisions \in Nat
  BY DEF TypeInv
<1>1. ASSUME UNCHANGED <<tables, package, collisions>>, overlaps' \in Nat,
             NEW q, Become(w, q), ReviewTyped(review[w])'
      PROVE  TypeInv' /\ Grown
  BY <1>0, <1>1, TablesKept, TypesKept
<1>2. ASSUME NEW p \in Packages, Begin(w, p) PROVE TypeInv' /\ Grown
  <2> DEFINE q == [NoReview EXCEPT !.findings = p.findings, !.claims = p.claims]
  <2>1. /\ DOMAIN q = DOMAIN NoReview /\ q.findings = p.findings /\ q.claims = p.claims
        /\ q.kept = <<>> /\ q.cited = <<>> /\ q.disputed = {}
    BY DEF NoReview
  <2>2. /\ <<>> \in Seq(RecordIds') /\ Len(<<>>) = 0
        /\ p.findings \in Seq(Findings) /\ IsSeq(p.claims) /\ Len(p.findings) \in Nat
    BY EvidenceAssumption, EmptySeq, LenProperties DEF IsSeq
  <2>3. Become(w, Onward(q)) /\ UNCHANGED <<tables, package, collisions>>
    BY <1>2 DEF Begin
  <2>6. overlaps' \in Nat
    <3>1. overlaps' = overlaps \/ overlaps' = overlaps + 1
      BY <1>2, Zenon DEF Begin
    <3> QED  BY <1>0, <3>1
  <2>7. Grown
    BY <2>3, TablesKept
  <2> HIDE DEF q
  <2>4. Len(q.kept) <= Len(q.findings)  BY <2>1, <2>2
  <2>5. ReviewTyped(review[w])'
    BY <2>1, <2>2, <2>3, <2>4, <2>7, OnwardTyped
  <2> QED  BY <1>1, <2>3, <2>5, <2>6
<1>3. ASSUME LookUp(w) PROVE TypeInv' /\ Grown
  <2> DEFINE found == Stored(Content[Finding(w)])
  <2>1. UNCHANGED <<tables, package, collisions, overlaps>> /\ Grown /\ r.pc = "look"
        /\ RecordIds' = RecordIds
    BY <1>3, TablesKept DEF LookUp, At
  <2>2. CASE found # {}
    <3> DEFINE id == CHOOSE i \in found : TRUE
    <3>1. id \in RecordIds' /\ Become(w, Keep(r, id))
      BY <1>3, <2>1, <2>2, FoundIsStored DEF LookUp
    <3> HIDE DEF id
    <3>2. ReviewTyped(review[w])'  BY <2>1, <3>1, KeepTyped
    <3> QED  BY <1>0, <1>1, <2>1, <3>1, <3>2
  <2>3. CASE found = {}
    <3>1. Become(w, [r EXCEPT !.pc = "insert"])
      BY <1>3, <2>3 DEF LookUp
    <3>2. review'[w] = [r EXCEPT !.pc = "insert"]
      BY <3>1, Became DEF TypeInv
    <3>3. /\ DOMAIN review'[w] = DOMAIN NoReview /\ review'[w].pc = "insert"
          /\ review'[w].findings = r.findings /\ review'[w].claims = r.claims
          /\ review'[w].kept = r.kept /\ review'[w].cited = r.cited
          /\ review'[w].disputed = r.disputed
      BY <3>2, ReviewFields DEF NoReview
    <3>4. ReviewTyped(review[w])'
      BY <2>1, <3>3, ReviewFields DEF ReviewTyped, PCs, tables
    <3> QED  BY <1>0, <1>1, <2>1, <3>1, <3>4
  <2> QED  BY <2>2, <2>3
<1>4. ASSUME Insert(w) PROVE TypeInv' /\ Grown
  <2>1. UNCHANGED <<citations, conflicts, package, overlaps>> /\ r.pc = "insert"
    BY <1>4 DEF Insert, At
  <2>2. CASE Stored(Content[Finding(w)]) = {}
    <3>1. /\ records' = Append(records, Finding(w)) /\ UNCHANGED collisions
          /\ Become(w, Keep(r, Len(records) + 1))
      BY <1>4, <2>2 DEF Insert
    <3>2. Grown /\ records' \in Seq(Findings) /\ Len(records) + 1 \in RecordIds'
      BY <2>1, <3>1, ReviewFields, RecordsGrow
    <3>3. ReviewTyped(review[w])'
      BY <2>1, <3>1, <3>2, KeepTyped
    <3>4. IsSeq(citations') /\ IsSeq(conflicts')
      BY <2>1 DEF TypeInv
    <3>5. TypeInv'
      BY <1>0, <2>1, <3>1, <3>2, <3>3, <3>4, TypesKept
    <3> QED  BY <3>2, <3>5
  <2>3. CASE Stored(Content[Finding(w)]) # {}
    <3>1. Return(w) /\ collisions' = collisions + 1 /\ UNCHANGED records
      BY <1>4, <2>3 DEF Insert
    <3>2. ReviewTyped(review[w])'  BY <3>1, EndedTyped
    <3>3. UNCHANGED tables  BY <2>1, <3>1 DEF tables
    <3>4. Become(w, NoReview)  BY <3>1 DEF Return
    <3> QED  BY <1>0, <2>1, <3>1, <3>2, <3>3, <3>4, TablesKept, TypesKept
  <2> QED  BY <2>2, <2>3
<1>5. ASSUME AgentFails(w) PROVE TypeInv' /\ Grown
  BY <1>0, <1>1, <1>5, EndedTyped DEF AgentFails, Return
<1>6. ASSUME NEW p \in Packages, AgentAnswers(w, p.claims) PROVE TypeInv' /\ Grown
  <2> DEFINE q == [r EXCEPT !.claims = p.claims, !.kept = <<>>, !.again = TRUE]
  <2>1. /\ DOMAIN q = DOMAIN NoReview /\ q.findings = r.findings /\ q.claims = p.claims
        /\ q.kept = <<>> /\ q.cited = <<>> /\ q.disputed = {}
    BY <1>6, ReviewFields DEF NoReview, AgentAnswers, At
  <2>2. /\ <<>> \in Seq(RecordIds') /\ Len(<<>>) = 0
        /\ IsSeq(p.claims) /\ r.findings \in Seq(Findings) /\ Len(r.findings) \in Nat
    BY EvidenceAssumption, EmptySeq, ReviewFields DEF IsSeq
  <2>3. Grown /\ Become(w, Onward(q)) /\ UNCHANGED <<tables, package, collisions, overlaps>>
    BY <1>6, TablesKept DEF AgentAnswers
  <2> HIDE DEF q
  <2>4. Len(q.kept) <= Len(q.findings)  BY <2>1, <2>2
  <2>5. ReviewTyped(review[w])'
    BY <2>1, <2>2, <2>3, <2>4, OnwardTyped
  <2> QED  BY <1>0, <1>1, <2>3, <2>5
<1>7. ASSUME PutCitation(w) PROVE TypeInv' /\ Grown
  <2>1. /\ UNCHANGED <<records, conflicts, package, overlaps, collisions>>
        /\ Become(w, [r EXCEPT !.cited = Append(@, Len(citations) + 1)])
    BY <1>7 DEF PutCitation
  <2>2. IsSeq(citations')
    BY <1>7, CitationsGrow DEF PutCitation
  <2>3. records' \in Seq(Findings) /\ IsSeq(conflicts')
    BY <2>1 DEF TypeInv
  <2> QED  BY <1>0, <1>7, <2>1, <2>2, <2>3, CiteTyped, TypesKept
<1>8. ASSUME PutConflict(w) PROVE TypeInv' /\ Grown
  <2>1. /\ UNCHANGED <<records, citations, package, overlaps, collisions>>
    BY <1>8 DEF PutConflict
  <2>2. PICK q : Become(w, q)
    BY <1>8 DEF PutConflict
  <2>3. records' \in Seq(Findings) /\ IsSeq(citations')
    BY <2>1 DEF TypeInv
  <2> QED  BY <1>0, <1>8, <2>1, <2>2, <2>3, DisputeTyped, TypesKept
<1>9. ASSUME Finish(w) PROVE TypeInv' /\ Grown
  <2>1. /\ UNCHANGED <<tables, overlaps, collisions>> /\ Return(w)
        /\ package' = package \union {Reviewed(r)} /\ Len(r.cited) = Len(r.claims)
    BY <1>9 DEF Finish
  <2>2. PackageTyped(Reviewed(r))
    BY <2>1, ReviewFields DEF PackageTyped, Reviewed
  <2>3. \A p \in package' : p \in package \/ PackageTyped(p)'
    BY <2>1, <2>2 DEF PackageTyped, tables, RecordIds
  <2>4. ReviewTyped(review[w])'  BY <2>1, EndedTyped
  <2>5. Become(w, NoReview)  BY <2>1 DEF Return
  <2> QED  BY <1>0, <2>1, <2>3, <2>4, <2>5, TablesKept, TypesKept
<1> QED
  BY <1>2, <1>3, <1>4, <1>5, <1>6, <1>7, <1>8, <1>9 DEF Work

(* So does every step. *)
LEMMA TypeStep == TypeInv /\ [Next]_vars => TypeInv' /\ Grown
<1> SUFFICES ASSUME TypeInv, [Next]_vars PROVE TypeInv' /\ Grown
  OBVIOUS
<1>1. CASE Next
  BY <1>1, TypeWork DEF Next
<1>2. CASE UNCHANGED vars
  <2>1. TypeInv'
    BY <1>2 DEF vars, tables, TypeInv, ReviewTyped, PackageTyped, RecordIds
  <2> QED  BY <1>2, <2>1, TablesKept DEF vars
<1> QED  BY <1>1, <1>2

(* The first state is well typed. *)
LEMMA TypeInit == Init => TypeInv
<1> SUFFICES ASSUME Init PROVE TypeInv
  OBVIOUS
<1>1. /\ \A S : <<>> \in Seq(S)
      /\ Len(<<>>) = 0 /\ DOMAIN <<>> = {} /\ IsSeq(<<>>)
  <2>1. \A S : <<>> \in Seq(S)  BY EmptySeq
  <2>2. IsSeq(<<>>)  BY <2>1 DEF IsSeq
  <2> QED  BY <2>1, <2>2
<1>2. ASSUME NEW w \in Workers PROVE ReviewTyped(review[w])
  <2>1. /\ review[w] = NoReview /\ NoReview.pc = "idle" /\ NoReview.findings = <<>>
        /\ NoReview.claims = <<>> /\ NoReview.kept = <<>> /\ NoReview.cited = <<>>
        /\ NoReview.disputed = {}
    BY DEF Init, NoReview
  <2> QED  BY <1>1, <2>1 DEF ReviewTyped, PCs
<1> QED  BY <1>1, <1>2 DEF Init, TypeInv

(* The types hold in every state. *)
LEMMA TypeInvariant == Spec => []TypeInv
<1>1. TypeInv /\ [Next]_vars => TypeInv'  BY TypeStep
<1> QED  BY <1>1, TypeInit, PTL DEF Spec

-----------------------------------------------------------------------------
(* A content is stored once.                                                 *)

(* Which steps leave a review about to insert, and which change the record. *)
LEMMA InsertSteps ==
  ASSUME TypeInv, NEW w \in Workers, Work(w) \/ \E p \in Packages : Begin(w, p)
  PROVE  /\ \/ UNCHANGED <<records, collisions>>
            \/ /\ At(w, "insert") /\ Stored(Content[Finding(w)]) = {}
               /\ records' = Append(records, Finding(w)) /\ UNCHANGED collisions
            \/ /\ At(w, "insert") /\ Stored(Content[Finding(w)]) # {} /\ UNCHANGED records
         /\ \/ review'[w].pc # "insert"
            \/ /\ Stored(Content[Finding(w)]) = {} /\ UNCHANGED records
               /\ review'[w] = [review[w] EXCEPT !.pc = "insert"]
         /\ \A v \in Workers \ {w} : review'[v] = review[v]
         /\ \/ UNCHANGED overlaps /\ ~ At(w, "idle")
            \/ UNCHANGED overlaps /\ Quiet
            \/ overlaps' = overlaps + 1
<1> DEFINE r == review[w]
<1>0. Grown
  BY TypeWork
<1>1. \A q : Become(w, q) =>
        /\ review'[w] = q /\ \A v \in Workers \ {w} : review'[v] = review[v]
  BY Became DEF TypeInv
<1>2. NoReview.pc # "insert"
  BY DEF NoReview
<1>3. ASSUME NEW p \in Packages, Begin(w, p)
      PROVE  /\ UNCHANGED <<records, collisions>> /\ review'[w].pc # "insert"
             /\ \A v \in Workers \ {w} : review'[v] = review[v]
             /\ (UNCHANGED overlaps /\ Quiet) \/ overlaps' = overlaps + 1
  <2> DEFINE q == [NoReview EXCEPT !.findings = p.findings, !.claims = p.claims]
  <2>1. DOMAIN q = DOMAIN NoReview  BY DEF NoReview
  <2>2. Become(w, Onward(q)) /\ UNCHANGED <<records, collisions>>
    BY <1>3 DEF Begin, tables
  <2>3. (UNCHANGED overlaps /\ Quiet) \/ overlaps' = overlaps + 1
    BY <1>3, Zenon DEF Begin
  <2> HIDE DEF q
  <2>4. Onward(q).pc # "insert"  BY <2>1, OnwardFields
  <2> QED  BY <1>1, <2>2, <2>3, <2>4
<1>4. ASSUME LookUp(w)
      PROVE  /\ UNCHANGED <<records, collisions, overlaps>> /\ ~ At(w, "idle")
             /\ \A v \in Workers \ {w} : review'[v] = review[v]
             /\ \/ review'[w].pc # "insert"
                \/ /\ Stored(Content[Finding(w)]) = {}
                   /\ review'[w] = [r EXCEPT !.pc = "insert"]
  <2>1. UNCHANGED <<tables, collisions, overlaps>> /\ r.pc = "look"
    BY <1>4 DEF LookUp, At
  <2>2. RecordIds' = RecordIds  BY <2>1 DEF tables, RecordIds
  <2>3. CASE Stored(Content[Finding(w)]) # {}
    <3> DEFINE id == CHOOSE i \in Stored(Content[Finding(w)]) : TRUE
    <3>1. id \in RecordIds' /\ Become(w, Keep(r, id))
      BY <1>4, <2>2, <2>3, FoundIsStored DEF LookUp
    <3> HIDE DEF id
    <3> QED  BY <1>0, <1>1, <2>1, <3>1, KeepTyped DEF At, tables
  <2>4. CASE Stored(Content[Finding(w)]) = {}
    <3>1. Become(w, [r EXCEPT !.pc = "insert"])
      BY <1>4, <2>4 DEF LookUp
    <3> QED  BY <1>1, <2>1, <2>4, <3>1 DEF At, tables
  <2> QED  BY <2>3, <2>4
<1>5. ASSUME Insert(w)
      PROVE  /\ UNCHANGED overlaps /\ At(w, "insert") /\ review'[w].pc # "insert"
             /\ \A v \in Workers \ {w} : review'[v] = review[v]
             /\ \/ /\ Stored(Content[Finding(w)]) = {} /\ UNCHANGED collisions
                   /\ records' = Append(records, Finding(w))
                \/ Stored(Content[Finding(w)]) # {} /\ UNCHANGED records
  <2>1. UNCHANGED <<citations, conflicts, overlaps>> /\ At(w, "insert") /\ r.pc = "insert"
    BY <1>5 DEF Insert, At
  <2>2. CASE Stored(Content[Finding(w)]) = {}
    <3>1. /\ records' = Append(records, Finding(w)) /\ UNCHANGED collisions
          /\ Become(w, Keep(r, Len(records) + 1))
      BY <1>5, <2>2 DEF Insert
    <3>2. Len(records) + 1 \in RecordIds'
      BY <2>1, <3>1, ReviewFields, RecordsGrow
    <3> QED  BY <1>0, <1>1, <2>1, <2>2, <3>1, <3>2, KeepTyped
  <2>3. CASE Stored(Content[Finding(w)]) # {}
    BY <1>1, <1>2, <1>5, <2>1, <2>3 DEF Insert, Return
  <2> QED  BY <2>2, <2>3
<1>6. ASSUME NEW p \in Packages, AgentAnswers(w, p.claims)
      PROVE  /\ UNCHANGED <<records, collisions, overlaps>> /\ ~ At(w, "idle")
             /\ \A v \in Workers \ {w} : review'[v] = review[v]
             /\ review'[w].pc # "insert"
  <2> DEFINE q == [r EXCEPT !.claims = p.claims, !.kept = <<>>, !.again = TRUE]
  <2>1. DOMAIN q = DOMAIN NoReview  BY ReviewFields
  <2>2. /\ Become(w, Onward(q)) /\ UNCHANGED <<records, collisions, overlaps>>
        /\ ~ At(w, "idle")
    BY <1>6 DEF AgentAnswers, tables, At
  <2> HIDE DEF q
  <2>3. Onward(q).pc # "insert"  BY <2>1, OnwardFields
  <2> QED  BY <1>1, <2>2, <2>3
<1>7. ASSUME AgentFails(w) \/ Finish(w)
      PROVE  /\ UNCHANGED <<records, collisions, overlaps>> /\ ~ At(w, "idle")
             /\ \A v \in Workers \ {w} : review'[v] = review[v]
             /\ review'[w].pc # "insert"
  <2>1. /\ Become(w, NoReview) /\ UNCHANGED <<records, collisions, overlaps>>
        /\ ~ At(w, "idle")
    BY <1>7 DEF AgentFails, Finish, Return, tables, At
  <2> QED  BY <1>1, <1>2, <2>1
<1>8. ASSUME PutCitation(w) \/ PutConflict(w)
      PROVE  /\ UNCHANGED <<records, collisions, overlaps>> /\ ~ At(w, "idle")
             /\ \A v \in Workers \ {w} : review'[v] = review[v]
             /\ review'[w].pc # "insert"
  <2>1. /\ UNCHANGED <<records, collisions, overlaps>> /\ r.pc = "cite"
    BY <1>8 DEF PutCitation, PutConflict, At
  <2>2. \E q : Become(w, q) /\ q.pc = r.pc
    <3>1. CASE PutCitation(w)
      BY <2>1, <3>1, ReviewFields DEF PutCitation, NoReview
    <3>2. CASE PutConflict(w)
      <4>1. PICK s : Become(w, [r EXCEPT !.disputed = @ \union {Len(conflicts) + 1}])
        BY <3>2 DEF PutConflict
      <4> QED  BY <4>1, ReviewFields DEF NoReview
    <3> QED  BY <1>8, <3>1, <3>2
  <2> QED  BY <1>1, <2>1, <2>2 DEF At
<1> QED
  BY <1>3, <1>4, <1>5, <1>6, <1>7, <1>8 DEF Work, At

(* While reviews follow one another, what one looked for and did not find is *)
(* still missing when it inserts it; and a record is only inserted for a     *)
(* content that has none.                                                    *)
LEMMA StoredStep ==
  TypeInv /\ AloneInv /\ StoredOnce /\ [Next]_vars => AloneInv' /\ StoredOnce'
<1> SUFFICES ASSUME TypeInv, AloneInv, StoredOnce, [Next]_vars
             PROVE  AloneInv' /\ StoredOnce'
  OBVIOUS
<1>1. CASE UNCHANGED vars
  BY <1>1 DEF vars, tables, AloneInv, StoredOnce, At, Stored, RecordIds, Finding
<1>2. ASSUME NEW w \in Workers, Work(w) \/ \E p \in Packages : Begin(w, p)
      PROVE  AloneInv' /\ StoredOnce'
  <2>0. overlaps \in Nat  BY DEF TypeInv
  <2> DEFINE Unique == \A i, j \in RecordIds : Content[records[i]] = Content[records[j]] => i = j
  <2>1. Unique'
    <3>1. CASE UNCHANGED records
      BY <3>1 DEF StoredOnce, RecordIds
    <3>2. CASE /\ At(w, "insert") /\ Stored(Content[Finding(w)]) = {}
               /\ records' = Append(records, Finding(w))
      <4>1. Finding(w) \in Findings /\ records \in Seq(Findings)
        BY <3>2, ReviewFields DEF At, TypeInv
      <4>2. /\ Len(records) \in Nat /\ RecordIds = 1 .. Len(records)
            /\ RecordIds' = 1 .. Len(records) + 1
            /\ \A i \in RecordIds : records'[i] = records[i]
            /\ records'[Len(records) + 1] = Finding(w)
        BY <3>2, <4>1, AppendTyped DEF RecordIds
      <4>3. \A i \in RecordIds : Content[records[i]] # Content[Finding(w)]
        BY <3>2 DEF Stored
      <4>4. \A i, j \in RecordIds : Content[records[i]] = Content[records[j]] => i = j
        BY DEF StoredOnce
      <4> QED  BY <4>2, <4>3, <4>4
    <3> QED  BY <1>2, <3>1, <3>2, InsertSteps
  <2>2. ASSUME overlaps' = 0
        PROVE  /\ \A u, v \in Workers : u # v => At(u, "idle")' \/ At(v, "idle")'
               /\ \A v \in Workers : At(v, "insert")' => Stored(Content[Finding(v)])' = {}
               /\ collisions' = 0
    <3>1. /\ overlaps = 0
          /\ ~ At(w, "idle") \/ Quiet
          /\ \A v \in Workers \ {w} : review'[v] = review[v]
      <4>1. /\ \A v \in Workers \ {w} : review'[v] = review[v]
            /\ \/ UNCHANGED overlaps /\ ~ At(w, "idle")
               \/ UNCHANGED overlaps /\ Quiet
               \/ overlaps' = overlaps + 1
        BY <1>2, InsertSteps, Zenon
      <4>2. overlaps + 1 # 0  BY <2>0
      <4> QED  BY <2>2, <4>1, <4>2
    <3>2. /\ collisions = 0
          /\ \A v \in Workers \ {w} : At(v, "idle") /\ review'[v] = review[v]
      BY <3>1 DEF AloneInv, StoredOnce, Quiet
    <3>3. \A v \in Workers \ {w} : At(v, "idle")'
      BY <3>2 DEF At
    <3>4. collisions' = 0
      BY <1>2, <3>2, <3>1, InsertSteps DEF AloneInv
    <3>5. ASSUME At(w, "insert")' PROVE Stored(Content[Finding(w)])' = {}
      <4>1. /\ Stored(Content[Finding(w)]) = {} /\ UNCHANGED records
            /\ review'[w] = [review[w] EXCEPT !.pc = "insert"]
        BY <1>2, <3>5, InsertSteps DEF At
      <4>2. Finding(w)' = Finding(w)
        BY <4>1, ReviewFields DEF Finding, NoReview
      <4> QED  BY <4>1, <4>2 DEF Stored, RecordIds
    <3> QED  BY <3>3, <3>4, <3>5 DEF At
  <2> QED  BY <2>1, <2>2 DEF AloneInv, StoredOnce
<1> QED  BY <1>1, <1>2 DEF Next

-----------------------------------------------------------------------------
(* Citations.                                                                *)

(* What a claim is cited with is fixed by the records kept.                  *)
LEMMA CitationStays ==
  ASSUME TypeInv, Grown, NEW v \in Workers, review'[v].kept = review[v].kept, NEW c
  PROVE  Citation(review[v], c)' = Citation(review[v], c)
<1>1. \A i \in ToSet(review[v].kept) : records'[i] = records[i]
  <2>1. ToSet(review[v].kept) \subseteq RecordIds
    BY ReviewFields, LenProperties DEF ToSet
  <2> QED  BY <2>1 DEF Grown
<1>2. Supporting(review[v], c)' = Supporting(review[v], c)
  BY <1>1 DEF Supporting, KeptWith
<1>3. RunOf(review[v])' = RunOf(review[v])
  BY DEF RunOf
<1> QED  BY <1>2, <1>3 DEF Citation

(* A review whose package and records stay as they are keeps its citations. *)
LEMMA CitedKept ==
  ASSUME TypeInv, Grown, CitedInv, NEW v \in Workers, review'[v].kept = review[v].kept,
         review'[v].claims = review[v].claims, NEW n \in DOMAIN review[v].cited,
         review'[v].cited[n] = review[v].cited[n]
  PROVE  citations'[review'[v].cited[n]] = Citation(review[v], review[v].claims[n])'
<1>1. review[v].cited[n] \in DOMAIN citations
  BY ReviewFields, LenProperties
<1>2. citations[review[v].cited[n]] = Citation(review[v], review[v].claims[n])
  BY DEF CitedInv
<1>3. citations'[review'[v].cited[n]] = citations[review[v].cited[n]]
  BY <1>1 DEF Grown
<1>4. \A c : Citation(review[v], c)' = Citation(review[v], c)
  BY CitationStays
<1>5. Citation(review[v], review[v].claims[n])' = Citation(review[v], review[v].claims[n])
  <2>1. PICK c : c = review[v].claims[n]  OBVIOUS
  <2>2. Citation(review[v], c)' = Citation(review[v], c)  BY <1>4
  <2>3. Citation(review[v], review[v].claims[n])' = Citation(review[v], c)'
    BY <2>1 DEF Citation, Supporting, KeptWith, RunOf
  <2> QED  BY <2>1, <2>2, <2>3
<1> QED  BY <1>2, <1>3, <1>5

(* Only PutCitation cites, and only PutConflict keeps what was cited. *)
LEMMA NothingCited ==
  ASSUME TypeInv, NEW w \in Workers, Work(w) \/ \E p \in Packages : Begin(w, p),
         ~ PutCitation(w), ~ PutConflict(w)
  PROVE  review'[w].cited = <<>>
<1> DEFINE r == review[w]
<1>1. \A q : Become(w, q) => review'[w] = q
  BY Became DEF TypeInv
<1>2. NoReview.cited = <<>>
  BY DEF NoReview
<1>3. ASSUME NEW q, DOMAIN q = DOMAIN NoReview, q.cited = <<>>, Become(w, Onward(q))
      PROVE  review'[w].cited = <<>>
  BY <1>1, <1>3, OnwardFields
<1>4. ASSUME NEW p \in Packages, Begin(w, p) PROVE review'[w].cited = <<>>
  <2> DEFINE q == [NoReview EXCEPT !.findings = p.findings, !.claims = p.claims]
  <2>1. DOMAIN q = DOMAIN NoReview /\ q.cited = <<>>  BY DEF NoReview
  <2>2. Become(w, Onward(q))  BY <1>4 DEF Begin
  <2> HIDE DEF q
  <2> QED  BY <1>3, <2>1, <2>2
<1>5. ASSUME NEW id, r.pc \in {"look", "insert"}, Become(w, Keep(r, id))
      PROVE  review'[w].cited = <<>>
  <2> DEFINE q == [r EXCEPT !.kept = Append(@, id)]
  <2>1. DOMAIN q = DOMAIN NoReview /\ q.cited = <<>>
    BY <1>5, ReviewFields DEF NoReview
  <2>2. Become(w, Onward(q))  BY <1>5 DEF Keep
  <2> HIDE DEF q
  <2> QED  BY <1>3, <2>1, <2>2
<1>6. ASSUME LookUp(w) PROVE review'[w].cited = <<>>
  <2>1. r.pc = "look"  BY <1>6 DEF LookUp, At
  <2>2. CASE Stored(Content[Finding(w)]) # {}
    <3>1. PICK id : Become(w, Keep(r, id))  BY <1>6, <2>2 DEF LookUp
    <3> QED  BY <1>5, <2>1, <3>1
  <2>3. CASE Stored(Content[Finding(w)]) = {}
    <3>1. review'[w] = [r EXCEPT !.pc = "insert"]  BY <1>1, <1>6, <2>3 DEF LookUp
    <3> QED  BY <2>1, <3>1, ReviewFields DEF NoReview
  <2> QED  BY <2>2, <2>3
<1>7. ASSUME Insert(w) PROVE review'[w].cited = <<>>
  <2>1. r.pc = "insert"  BY <1>7 DEF Insert, At
  <2>2. CASE Stored(Content[Finding(w)]) = {}
    <3>1. Become(w, Keep(r, Len(records) + 1))  BY <1>7, <2>2 DEF Insert
    <3> QED  BY <1>5, <2>1, <3>1
  <2>3. CASE Stored(Content[Finding(w)]) # {}
    BY <1>1, <1>2, <1>7, <2>3 DEF Insert, Return
  <2> QED  BY <2>2, <2>3
<1>8. ASSUME NEW p \in Packages, AgentAnswers(w, p.claims) PROVE review'[w].cited = <<>>
  <2> DEFINE q == [r EXCEPT !.claims = p.claims, !.kept = <<>>, !.again = TRUE]
  <2>1. DOMAIN q = DOMAIN NoReview /\ q.cited = <<>>
    BY <1>8, ReviewFields DEF NoReview, AgentAnswers, At
  <2>2. Become(w, Onward(q))  BY <1>8 DEF AgentAnswers
  <2> HIDE DEF q
  <2> QED  BY <1>3, <2>1, <2>2
<1>9. ASSUME AgentFails(w) \/ Finish(w) PROVE review'[w].cited = <<>>
  BY <1>1, <1>2, <1>9 DEF AgentFails, Finish, Return
<1> QED  BY <1>4, <1>6, <1>7, <1>8, <1>9 DEF Work

(* Every citation of a review stays the one its records call for. *)
LEMMA CitedStep == TypeInv /\ CitedInv /\ [Next]_vars => CitedInv'
<1> SUFFICES ASSUME TypeInv, CitedInv, [Next]_vars PROVE CitedInv'
  OBVIOUS
<1>1. Grown  BY TypeStep
<1>2. ASSUME NEW v \in Workers, review'[v] = review[v], NEW n \in DOMAIN review'[v].cited
      PROVE  citations'[review'[v].cited[n]] = Citation(review[v], review[v].claims[n])'
  BY <1>1, <1>2, CitedKept
<1>3. CASE UNCHANGED vars
  BY <1>2, <1>3 DEF vars, CitedInv
<1>4. ASSUME NEW w \in Workers, Work(w) \/ \E p \in Packages : Begin(w, p),
             NEW n \in DOMAIN review'[w].cited
      PROVE  citations'[review'[w].cited[n]] = Citation(review[w], review[w].claims[n])'
  <2>1. CASE ~ PutCitation(w) /\ ~ PutConflict(w)
    BY <1>4, <2>1, NothingCited, EmptySeq
  <2>2. CASE PutConflict(w)
    BY <1>1, <1>4, <2>2, DisputeTyped, CitedKept
  <2>3. CASE PutCitation(w)
    <3> DEFINE r == review[w]
               k == Len(r.cited) + 1
    <3>1. /\ review'[w].cited = Append(r.cited, Len(citations) + 1)
          /\ review'[w].claims = r.claims /\ review'[w].kept = r.kept
      BY <2>3, CiteTyped
    <3>2. citations'[Len(citations) + 1] = Citation(r, r.claims[k])
      BY <2>3, CitationsGrow DEF PutCitation
    <3>3. /\ r.cited \in Seq(DOMAIN citations) /\ DOMAIN r.cited = 1 .. Len(r.cited)
          /\ Len(r.cited) \in Nat
          /\ DOMAIN review'[w].cited = 1 .. k
          /\ review'[w].cited[k] = Len(citations) + 1
          /\ \A i \in 1 .. Len(r.cited) : review'[w].cited[i] = r.cited[i]
      <4>1. /\ r.cited \in Seq(Nat) /\ IsSeq(citations) /\ r.cited \in Seq(DOMAIN citations)
        <5>1. DOMAIN citations \subseteq Nat
          BY LenProperties DEF TypeInv, IsSeq
        <5> QED  BY <5>1, ReviewFields, SeqMonotonic DEF TypeInv
      <4>2. Len(citations) + 1 \in Nat
        BY <4>1, LenProperties DEF IsSeq
      <4> QED  BY <3>1, <4>1, <4>2, AppendTyped, LenProperties
    <3>4. CASE n # k
      <4>1. n \in DOMAIN r.cited /\ review'[w].cited[n] = r.cited[n]
        BY <1>4, <3>3, <3>4
      <4> QED  BY <1>1, <3>1, <4>1, CitedKept
    <3>5. CASE n = k
      <4>1. PICK c : c = r.claims[k]  OBVIOUS
      <4>2. Citation(review[w], c)' = Citation(review[w], c)
        BY <1>1, <3>1, CitationStays
      <4>3. Citation(review[w], review[w].claims[n])' = Citation(review[w], c)'
        BY <3>1, <3>5, <4>1 DEF Citation, Supporting, KeptWith, RunOf
      <4> QED  BY <3>2, <3>3, <3>5, <4>1, <4>2, <4>3
    <3> QED  BY <3>4, <3>5
  <2> QED  BY <2>1, <2>2, <2>3
<1>5. ASSUME NEW w \in Workers, Work(w) \/ \E p \in Packages : Begin(w, p)
      PROVE  CitedInv'
  <2>1. \A v \in Workers \ {w} : review'[v] = review[v]
    BY <1>5, InsertSteps
  <2> QED  BY <1>2, <1>4, <1>5, <2>1 DEF CitedInv
<1> QED  BY <1>3, <1>5 DEF Next

-----------------------------------------------------------------------------
(* Packages.                                                                 *)

(* The findings a package rests on, and the claims they make.                *)
Mine(p) == {records[p.evidence[i]] : i \in DOMAIN p.evidence}
Made(p) == {Claim[f] : f \in Mine(p)}

(* What PackageIsBacked says of one package.                                 *)
Backed(p) ==
  /\ [n \in DOMAIN p.citations |-> citations[p.citations[n]].claim] = p.claims
  /\ \A n \in DOMAIN p.claims :
       /\ citations[p.citations[n]].supported <=> p.claims[n] \in Made(p)
       /\ citations[p.citations[n]].run = "this" <=> Mine(p) # {}
  /\ p.covered = Cardinality({n \in DOMAIN p.claims : p.claims[n] \in Made(p)})
  /\ {conflicts[i].subject : i \in p.conflicts}
       = {Subject[f] : f \in {g \in Mine(p) : \E h \in Mine(p) :
                               Subject[g] = Subject[h] /\ Claim[g] # Claim[h]}}

(* It says so of all of them. *)
LEMMA AllBacked == PackageIsBacked <=> \A p \in package : Backed(p)
  BY DEF PackageIsBacked, Backed, Made, Mine

(* What a package rests on is never changed. *)
LEMMA BackedStays ==
  ASSUME Grown, NEW p, PackageTyped(p), Backed(p)
  PROVE  Backed(p)'
<1>1. /\ DOMAIN p.evidence = 1 .. Len(p.evidence)
      /\ DOMAIN p.citations = 1 .. Len(p.citations)
      /\ DOMAIN p.claims = 1 .. Len(p.claims) /\ Len(p.claims) = Len(p.citations)
  BY LenProperties DEF PackageTyped, IsSeq
<1>2. \A i \in DOMAIN p.evidence : p.evidence[i] \in RecordIds
  BY <1>1, ElementOfSeq DEF PackageTyped
<1>3. \A n \in DOMAIN p.citations : p.citations[n] \in DOMAIN citations
  BY <1>1, ElementOfSeq DEF PackageTyped
<1>4. Mine(p)' = Mine(p)
  BY <1>2 DEF Mine, Grown
<1>5. Made(p)' = Made(p)
  BY <1>4 DEF Made
<1>6. \A n \in DOMAIN p.citations : citations'[p.citations[n]] = citations[p.citations[n]]
  BY <1>3 DEF Grown
<1>7. {conflicts'[i].subject : i \in p.conflicts} = {conflicts[i].subject : i \in p.conflicts}
  BY DEF PackageTyped, Grown
<1>8. [n \in DOMAIN p.citations |-> citations'[p.citations[n]].claim]
        = [n \in DOMAIN p.citations |-> citations[p.citations[n]].claim]
  BY <1>6
<1>9. \A n \in DOMAIN p.claims :
        /\ citations'[p.citations[n]].supported <=> p.claims[n] \in Made(p)
        /\ citations'[p.citations[n]].run = "this" <=> Mine(p) # {}
  BY <1>1, <1>6 DEF Backed
<1>10. p.covered = Cardinality({n \in DOMAIN p.claims : p.claims[n] \in Made(p)})
  BY DEF Backed
<1> QED  BY <1>4, <1>5, <1>7, <1>8, <1>9, <1>10 DEF Backed

(* The subjects reported are those that two of the kept findings disagree on. *)
LEMMA DisputedAre ==
  ASSUME TypeInv, NEW w \in Workers
  PROVE  LET mine == {records[i] : i \in ToSet(review[w].kept)} IN
         Disputed(review[w]) = {Subject[f] : f \in {g \in mine : \E h \in mine :
                                  Subject[g] = Subject[h] /\ Claim[g] # Claim[h]}}
<1> DEFINE ids == ToSet(review[w].kept)
           mine == {records[i] : i \in ids}
           On(s) == {i \in ids : Subject[records[i]] = s}
           Said(s) == {Claim[records[i]] : i \in On(s)}
<1>1. Disputed(review[w])
        = {s \in {Subject[records[i]] : i \in ids} : Cardinality(Said(s)) >= 2}
  BY DEF Disputed, KeptWith
<1>2. ASSUME NEW s PROVE Cardinality(Said(s)) >= 2 <=> \E x, y \in Said(s) : x # y
  <2>1. ids \subseteq RecordIds
    BY ReviewFields, LenProperties DEF ToSet
  <2> DEFINE f == [i \in RecordIds |-> Claim[records[i]]]
  <2>2. IsFiniteSet({f[i] : i \in On(s)})
    <3>1. On(s) \in SUBSET ToSet(review[w].kept)  OBVIOUS
    <3>2. review[w].kept \in Seq(RecordIds)  BY ReviewFields
    <3> HIDE DEF On, f
    <3> QED  BY <3>1, <3>2, ImageFinite
  <2>3. Said(s) = {f[i] : i \in On(s)}
    BY <2>1
  <2>4. IsFiniteSet(Said(s))  BY <2>2, <2>3
  <2> HIDE DEF Said
  <2> QED  BY <2>4, TwoOrMore
<1>3. \A s : (\E x, y \in Said(s) : x # y) <=>
             \E i, j \in ids : /\ Subject[records[i]] = s /\ Subject[records[j]] = s
                               /\ Claim[records[i]] # Claim[records[j]]
  OBVIOUS
<1>4. \A s : s \in Disputed(review[w]) <=>
             \E i, j \in ids : /\ Subject[records[i]] = s /\ Subject[records[j]] = s
                               /\ Claim[records[i]] # Claim[records[j]]
  <2> HIDE DEF Said, ids
  <2>1. \A s : (\E i, j \in ids : /\ Subject[records[i]] = s /\ Subject[records[j]] = s
                                  /\ Claim[records[i]] # Claim[records[j]])
               => s \in {Subject[records[i]] : i \in ids}
    OBVIOUS
  <2> QED  BY <1>1, <1>2, <1>3, <2>1
<1>5. \A s : s \in {Subject[f] : f \in {g \in mine : \E h \in mine :
                      Subject[g] = Subject[h] /\ Claim[g] # Claim[h]}} <=>
             \E i, j \in ids : /\ Subject[records[i]] = s /\ Subject[records[j]] = s
                               /\ Claim[records[i]] # Claim[records[j]]
  <2> HIDE DEF ids
  <2> QED  OBVIOUS
<1> HIDE DEF ids, On, Said
<1> QED  BY <1>4, <1>5 DEF ids

(* A review that is over leaves a package that its records back. *)
LEMMA FinishedIsBacked ==
  ASSUME TypeInv, CitedInv, NEW w \in Workers, Finish(w)
  PROVE  Backed(Reviewed(review[w]))
<1> DEFINE r == review[w]
           p == Reviewed(r)
<1>1. /\ Len(r.cited) = Len(r.claims)
      /\ Disputed(r) = {conflicts[i].subject : i \in r.disputed}
  BY DEF Finish
<1>2. /\ p.claims = r.claims /\ p.evidence = r.kept /\ p.citations = r.cited
      /\ p.conflicts = r.disputed
      /\ p.covered = Cardinality({i \in DOMAIN r.cited : citations[r.cited[i]].supported})
  BY DEF Reviewed
<1>3. /\ DOMAIN r.cited = 1 .. Len(r.cited) /\ DOMAIN r.claims = 1 .. Len(r.claims)
      /\ DOMAIN r.kept = 1 .. Len(r.kept) /\ r.kept \in Seq(RecordIds)
      /\ r.claims \in [1 .. Len(r.claims) -> ToSet(r.claims)]
  BY ReviewFields, LenProperties DEF IsSeq
<1>4. Mine(p) = {records[i] : i \in ToSet(r.kept)}
  BY <1>2 DEF Mine, ToSet
<1>5. \A n \in DOMAIN r.cited : citations[r.cited[n]] = Citation(r, r.claims[n])
  BY DEF CitedInv
<1>6. \A c : Supporting(r, c) # {} <=> c \in Made(p)
  BY <1>4 DEF Supporting, KeptWith, Made
<1>7. RunOf(r) = "this" <=> Mine(p) # {}
  <2>1. r.kept # <<>> <=> DOMAIN r.kept # {}
    <3>1. r.kept # <<>> => Len(r.kept) \in Nat \ {0}  BY <1>3, EmptySeq
    <3>2. r.kept = <<>> => DOMAIN r.kept = {}  OBVIOUS
    <3>3. Len(r.kept) \in Nat \ {0} => 1 \in DOMAIN r.kept  BY <1>3
    <3> QED  BY <3>1, <3>2, <3>3
  <2>2. Mine(p) # {} <=> DOMAIN r.kept # {}
    BY <1>2 DEF Mine
  <2> QED  BY <2>1, <2>2 DEF RunOf
<1>8. \A n \in DOMAIN r.cited :
        /\ citations[r.cited[n]].claim = r.claims[n]
        /\ citations[r.cited[n]].supported <=> r.claims[n] \in Made(p)
        /\ citations[r.cited[n]].run = "this" <=> Mine(p) # {}
  <2> SUFFICES ASSUME NEW n \in DOMAIN r.cited
               PROVE  /\ citations[r.cited[n]].claim = r.claims[n]
                      /\ citations[r.cited[n]].supported <=> r.claims[n] \in Made(p)
                      /\ citations[r.cited[n]].run = "this" <=> Mine(p) # {}
    OBVIOUS
  <2> DEFINE c == r.claims[n]
             cited == Citation(r, c)
  <2>1. /\ cited.claim = c /\ cited.run = RunOf(r)
        /\ cited.supported = (Supporting(r, c) # {})
    BY DEF Citation
  <2>2. citations[r.cited[n]] = cited  BY <1>5
  <2> HIDE DEF cited, p
  <2> QED  BY <1>6, <1>7, <2>1, <2>2
<1> HIDE DEF p
<1>9. [n \in DOMAIN p.citations |-> citations[p.citations[n]].claim] = p.claims
  BY <1>1, <1>2, <1>3, <1>8
<1>10. {i \in DOMAIN r.cited : citations[r.cited[i]].supported}
         = {n \in DOMAIN p.claims : p.claims[n] \in Made(p)}
  BY <1>1, <1>2, <1>3, <1>8
<1>11. {conflicts[i].subject : i \in p.conflicts}
         = {Subject[f] : f \in {g \in Mine(p) : \E h \in Mine(p) :
                                 Subject[g] = Subject[h] /\ Claim[g] # Claim[h]}}
  BY <1>1, <1>2, <1>4, DisputedAre
<1> QED  BY <1>1, <1>2, <1>3, <1>8, <1>9, <1>10, <1>11 DEF Backed, p

(* No step takes away what a package rests on, nor makes one without.        *)
LEMMA BackedStep ==
  TypeInv /\ CitedInv /\ PackageIsBacked /\ [Next]_vars => PackageIsBacked'
<1> SUFFICES ASSUME TypeInv, CitedInv, PackageIsBacked, [Next]_vars,
                    NEW q \in package'
             PROVE  Backed(q)'
  BY AllBacked DEF PackageIsBacked, Backed, Made, Mine
<1>1. Grown  BY TypeStep
<1>2. CASE q \in package
  BY <1>1, <1>2, AllBacked, BackedStays DEF TypeInv
<1>3. CASE q \notin package
  <2>1. PICK w \in Workers : Finish(w) /\ q = Reviewed(review[w])
    BY <1>3
    DEF Next, Work, Begin, LookUp, Insert, AgentFails, AgentAnswers, PutCitation,
        PutConflict, Finish, vars
  <2>2. Backed(q) /\ PackageTyped(q)
    <3>1. PackageTyped(q)
      BY <2>1, ReviewFields DEF Finish, PackageTyped, Reviewed
    <3> QED  BY <2>1, <3>1, FinishedIsBacked
  <2> QED  BY <1>1, <2>2, BackedStays
<1> QED  BY <1>2, <1>3

-----------------------------------------------------------------------------
(* All of it together.                                                       *)

(* The invariant holds in every state. *)
LEMMA EvidenceInvariant == Spec => []EvidenceInv
<1>1. Init => EvidenceInv
  <2> SUFFICES ASSUME Init PROVE EvidenceInv
    OBVIOUS
  <2>1. /\ \A w \in Workers : review[w] = NoReview
        /\ NoReview.pc = "idle" /\ NoReview.cited = <<>>
        /\ package = {} /\ records = <<>> /\ collisions = 0
    BY DEF Init, NoReview
  <2>2. DOMAIN <<>> = {}  OBVIOUS
  <2>3. CitedInv  BY <2>1, <2>2 DEF CitedInv
  <2>4. AloneInv /\ StoredOnce
    BY <2>1, <2>2 DEF AloneInv, StoredOnce, At, RecordIds
  <2>5. PackageIsBacked  BY <2>1, AllBacked
  <2> QED  BY <2>3, <2>4, <2>5, TypeInit DEF EvidenceInv
<1>2. EvidenceInv /\ [Next]_vars => EvidenceInv'
  BY TypeStep, CitedStep, StoredStep, BackedStep DEF EvidenceInv
<1> QED  BY <1>1, <1>2, PTL DEF Spec

(* What rows and reviews refer to is in the tables. *)
THEOREM TypeCorrect == Spec => []TypeOK
<1>1. EvidenceInv => TypeOK
  BY DEF EvidenceInv, TypeInv, ReviewTyped, TypeOK
<1> QED  BY <1>1, EvidenceInvariant, PTL

(* A reviewed package rests on rows of its run: its claims are cited, as     *)
(* supported when its findings make them, its coverage counts those, and its *)
(* conflicts are what its findings disagree on - whatever other reviews      *)
(* stored in between or store later.                                         *)
THEOREM PackagesAreBacked == Spec => []PackageIsBacked
<1>1. EvidenceInv => PackageIsBacked  BY DEF EvidenceInv
<1> QED  BY <1>1, EvidenceInvariant, PTL

(* put stores a content once, and is refused by the table only when reviews  *)
(* overlapped between its look and its insert.                               *)
THEOREM ContentsAreStoredOnce == Spec => []StoredOnce
<1>1. EvidenceInv => StoredOnce  BY DEF EvidenceInv
<1> QED  BY <1>1, EvidenceInvariant, PTL
=============================================================================
