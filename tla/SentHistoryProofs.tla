------------------------- MODULE SentHistoryProofs -------------------------
(***************************************************************************)
(* Why an application that was closed for silence has been silent, and why *)
(* reports neither undo what the queue did nor count a role twice,         *)
(* whatever the roles, the records and the waiting period.                 *)
(***************************************************************************)
EXTENDS SentHistory, FiniteSetTheorems, WellFoundedInduction, TLAPS

-----------------------------------------------------------------------------
(* The inductive invariant *)

(* An application that waits was not received, one that the queue made is  *)
(* in one of its states, and a follow-up was the employer's word before    *)
(* its last one, if not the last itself.                                   *)
AppKept(a) ==
    /\ ~a.imported => a.status \in {"pending", "submitted"}
    /\ a.status = "pending" => a.receipt = None
    /\ a.followup # None => a.employer # None /\ a.followup <= a.employer.at

(* No reply that was recorded is younger than the follow-up of its         *)
(* application.                                                            *)
HeardKept == \A h \in heard : app[h[1]].followup # None /\ h[2] <= app[h[1]].followup

HistoryKept ==
    /\ TypeOK
    /\ \A i \in Apps : AppKept(app[i])
    /\ \A at \in waiting : at <= now
    /\ HeardKept
    /\ ClosedWereSilent


-----------------------------------------------------------------------------
(* Numbers *)

LEMMA MinOf ==
    ASSUME NEW S \in SUBSET Nat, S # {}
    PROVE  Min(S) \in S
<1> DEFINE R == {ss \in Nat \X Nat : ss[1] < ss[2]}
<1>1. IsWellFoundedOn(R, Nat)
    BY NatLessThanWellFounded DEF OpToRel
<1> HIDE DEF R
<1>2. PICK x \in S : \A y \in S : ~ (<<y, x>> \in R)
    BY <1>1, WFMin
<1>3. ASSUME NEW y \in S
      PROVE  x <= y
    <2>1. y \in Nat /\ x \in Nat /\ <<y, x>> \notin R
        BY <1>2
    <2>2. ~(y < x)
        BY <2>1 DEF R
    <2> QED
        BY <2>1, <2>2
<1> QED
    BY <1>3 DEF Min

LEMMA MaxOfTwo ==
    ASSUME NEW a \in Nat, NEW b \in Nat
    PROVE  Max({a, b}) >= b /\ Max({a, b}) \in Nat
<1>1. \E x \in {a, b} : \A y \in {a, b} : x >= y
    OBVIOUS
<1> QED
    BY <1>1 DEF Max

-----------------------------------------------------------------------------
(* Applications *)

LEMMA Typed ==
    ASSUME TypeOK
    PROVE  /\ now \in Nat /\ now \in Days /\ MaxDay \in Nat /\ NoResponse \in Nat
           /\ opening \in Seq(Roles \cup {None}) /\ Openings = 1..Len(opening)
           /\ app \in Seq(Application) /\ Apps = 1..Len(app)
           /\ \A i \in Apps : app[i] \in Application /\ app[i].opp \in Openings
BY SentHistoryAssumption DEF SentHistoryAssumption, TypeOK, Days, Openings, Apps

(* What the reports and the queue leave to an application of the queue. *)
OwnKept(a, b) ==
    ~a.imported =>
        /\ ~b.imported
        /\ a.receipt # None => b.receipt = a.receipt
        /\ a.receipt = None /\ a.owner # None => b.owner = a.owner
        /\ b.status = a.status \/ (a.status = "pending" /\ b.status = "submitted")

(* The answers of the employer and the closing are other steps. *)
SameAnswers(a, b) ==
    b.employer = a.employer /\ b.followup = a.followup /\ b.lifecycle = a.lifecycle

LEMMA EvidenceAdded ==
    ASSUME NEW a \in Application, NEW k \in Records, NEW proof \in Proof
    PROVE  /\ WithEvidence(a, k, proof) \in Application
           /\ SameAnswers(a, WithEvidence(a, k, proof))
           /\ OwnKept(a, WithEvidence(a, k, proof))
           /\ WithEvidence(a, k, proof).opp = a.opp
           /\ WithEvidence(a, k, proof).imported = a.imported
           /\ WithEvidence(a, k, proof).status = a.status
           /\ WithEvidence(a, k, proof).receipt = a.receipt
           /\ a.receipt # None \/ a.owner # None => WithEvidence(a, k, proof).owner = a.owner
           /\ AppKept(a) => AppKept(WithEvidence(a, k, proof))
<1>1. PICK e \in [Records -> Proof \cup {None}] : e = [a.evidence EXCEPT ![k] = proof]
    BY DEF Application
<1>2. PICK o \in Days \cup {None} :
        o = IF ~proof.pending /\ a.receipt = None /\ a.owner = None THEN proof.date ELSE a.owner
    BY DEF Application, Proof
<1>3. PICK b : b = [a EXCEPT !.evidence = e, !.owner = o]
    OBVIOUS
<1>4. WithEvidence(a, k, proof) = b
    BY <1>1, <1>2, <1>3 DEF WithEvidence, Application
<1>5. /\ b \in Application /\ b.owner = o
      /\ b.opp = a.opp /\ b.imported = a.imported /\ b.status = a.status /\ b.receipt = a.receipt
      /\ b.employer = a.employer /\ b.followup = a.followup /\ b.lifecycle = a.lifecycle
    BY <1>3 DEF Application
<1> QED
    BY <1>2, <1>4, <1>5 DEF SameAnswers, OwnKept, AppKept

LEMMA NewTyped ==
    ASSUME NEW o \in Nat
    PROVE  /\ NewApplication(o) \in Application /\ AppKept(NewApplication(o))
           /\ NewApplication(o).opp = o /\ SentAt(NewApplication(o)) = None
BY DEF NewApplication, Application, AppKept, SentAt

(* An application stays, with its history. *)
Stays(i) ==
    /\ i \in Apps' /\ OwnKept(app[i], app'[i])

-----------------------------------------------------------------------------
(* The steps *)

(* A step keeps the invariant if no answer is recorded and none closed. *)
LEMMA QuietStep ==
    ASSUME HistoryKept, UNCHANGED <<mails, heard>>, now' \in Days, now <= now',
           \A at \in waiting' : at \in Days /\ at <= now',
           opening' \in Seq(Roles \cup {None}), Openings \subseteq Openings',
           app' \in Seq(Application), Apps \subseteq Apps',
           \A i \in Apps' : AppKept(app'[i]) /\ app'[i].opp \in Openings',
           \A i \in Apps : SameAnswers(app[i], app'[i])
    PROVE  HistoryKept'
<1>1. TypeOK /\ HeardKept /\ ClosedWereSilent /\ \A at \in waiting : at <= now
    BY DEF HistoryKept
<1>2. now \in Nat /\ now' \in Nat /\ NoResponse \in Nat
    BY <1>1, Typed DEF Days
<1>3. \A h \in heard : h[1] \in Apps /\ h[2] \in Nat
    BY <1>1, Typed DEF TypeOK, Days
<1>4. TypeOK'
    <2>1. heard' \subseteq Apps' \X Days
        BY <1>1 DEF TypeOK
    <2> QED
        BY <1>1, <2>1 DEF TypeOK, Openings, Apps, Days
<1>5. HeardKept'
    BY <1>1, <1>3 DEF HeardKept, SameAnswers
<1>6. ClosedWereSilent'
    BY <1>1, <1>2, <1>3 DEF ClosedWereSilent, SameAnswers
<1> QED
    BY <1>4, <1>5, <1>6 DEF HistoryKept, Apps

LEMMA StillWaiting ==
    ASSUME HistoryKept, UNCHANGED <<now, waiting>>
    PROVE  /\ now' \in Days /\ now <= now'
           /\ \A at \in waiting' : at \in Days /\ at <= now'
BY Typed DEF HistoryKept, TypeOK

(* One application changes. *)
LEMMA OneChanges ==
    ASSUME HistoryKept, NEW i \in Apps, NEW x \in Application,
           app' = [app EXCEPT ![i] = x]
    PROVE  /\ app' \in Seq(Application) /\ Apps' = Apps /\ app'[i] = x
           /\ \A j \in Apps : j # i => app'[j] = app[j]
BY Typed DEF HistoryKept, Apps

LEMMA OwnReflexive ==
    ASSUME NEW a
    PROVE  OwnKept(a, a) /\ SameAnswers(a, a)
BY DEF OwnKept, SameAnswers

LEMMA QuietChange ==
    ASSUME HistoryKept, NEW i \in Apps, NEW x \in Application,
           app' = [app EXCEPT ![i] = x], UNCHANGED <<now, waiting, mails, heard>>,
           opening' \in Seq(Roles \cup {None}), Openings \subseteq Openings',
           AppKept(x), x.opp \in Openings', SameAnswers(app[i], x), OwnKept(app[i], x)
    PROVE  HistoryKept' /\ \A j \in Apps : Stays(j)
<1>1. /\ app' \in Seq(Application) /\ Apps' = Apps /\ app'[i] = x
      /\ \A j \in Apps : j # i => app'[j] = app[j]
    BY OneChanges
<1>2. \A j \in Apps : AppKept(app[j]) /\ app[j].opp \in Openings
    BY Typed DEF HistoryKept
<1>3. \A j \in Apps' : AppKept(app'[j]) /\ app'[j].opp \in Openings'
    BY <1>1, <1>2
<1>4. \A j \in Apps : SameAnswers(app[j], app'[j]) /\ OwnKept(app[j], app'[j])
    BY <1>1, OwnReflexive
<1>5. HistoryKept'
    BY <1>1, <1>3, <1>4, StillWaiting, QuietStep
<1> QED
    BY <1>1, <1>4, <1>5 DEF Stays

(* One application is added, and perhaps an opening. *)
LEMMA QuietAddition ==
    ASSUME HistoryKept, NEW x \in Application,
           app' = Append(app, x), UNCHANGED <<now, waiting, mails, heard>>,
           opening' \in Seq(Roles \cup {None}), Openings \subseteq Openings',
           AppKept(x), x.opp \in Openings'
    PROVE  /\ HistoryKept' /\ \A j \in Apps : Stays(j) /\ app'[j] = app[j]
           /\ \A j \in Apps' \ Apps : app'[j] = x
<1>1. /\ app' \in Seq(Application) /\ Apps \subseteq Apps'
      /\ \A j \in Apps : app'[j] = app[j]
      /\ \A j \in Apps' \ Apps : app'[j] = x
    BY Typed DEF HistoryKept, Apps
<1>2. \A j \in Apps : AppKept(app[j]) /\ app[j].opp \in Openings
    BY Typed DEF HistoryKept
<1>3. \A j \in Apps' : AppKept(app'[j]) /\ app'[j].opp \in Openings'
    BY <1>1, <1>2
<1>4. \A j \in Apps : SameAnswers(app[j], app'[j]) /\ OwnKept(app[j], app'[j])
    BY <1>1, OwnReflexive
<1>5. HistoryKept'
    BY <1>1, <1>3, <1>4, StillWaiting, QuietStep
<1> QED
    BY <1>1, <1>4, <1>5 DEF Stays

LEMMA QueueAddsKeeps ==
    ASSUME HistoryKept, NEW r \in Roles, QueueAdds(r)
    PROVE  HistoryKept' /\ \A j \in Apps : Stays(j)
<1>1. PICK o \in Nat : o = Len(opening) + 1
    BY Typed DEF HistoryKept
<1>2. opening' \in Seq(Roles \cup {None}) /\ Openings \subseteq Openings' /\ o \in Openings'
    BY <1>1, Typed DEF HistoryKept, QueueAdds, Openings
<1>3. PICK x \in Application : x = NewApplication(o) /\ AppKept(x) /\ x.opp = o
    BY NewTyped
<1> QED
    BY <1>1, <1>2, <1>3, QuietAddition DEF QueueAdds

LEMMA QueueSubmitsKeeps ==
    ASSUME HistoryKept, NEW i \in Apps, QueueSubmits(i)
    PROVE  HistoryKept' /\ \A j \in Apps : Stays(j)
<1>1. PICK a \in Application : a = app[i] /\ a.opp \in Openings /\ AppKept(a)
    BY Typed DEF HistoryKept
<1>2. PICK x : x = [a EXCEPT !.status = "submitted", !.receipt = now]
    OBVIOUS
<1>3. now \in Days
    BY DEF HistoryKept, TypeOK
<1>4. /\ x \in Application /\ x.status = "submitted" /\ x.receipt = now
      /\ x.opp = a.opp /\ x.imported = a.imported /\ x.owner = a.owner
      /\ x.employer = a.employer /\ x.followup = a.followup /\ x.lifecycle = a.lifecycle
    BY <1>2, <1>3 DEF Application
<1>5. app' = [app EXCEPT ![i] = x]
    BY <1>1, <1>2 DEF QueueSubmits
<1>6. AppKept(x) /\ SameAnswers(a, x) /\ OwnKept(a, x)
    BY <1>1, <1>4 DEF AppKept, SameAnswers, OwnKept, QueueSubmits
<1>7. opening' \in Seq(Roles \cup {None}) /\ Openings' = Openings
    BY Typed DEF HistoryKept, QueueSubmits, Openings
<1> QED
    BY <1>1, <1>4, <1>5, <1>6, <1>7, QuietChange DEF QueueSubmits

LEMMA OpeningsTyped ==
    ASSUME TypeOK, NEW r
    PROVE  /\ OpeningsOf(r) \subseteq Openings /\ OpeningsOf(r) \in SUBSET Nat
           /\ OpeningsOf(r) # {} => Min(OpeningsOf(r)) \in OpeningsOf(r)
<1>1. OpeningsOf(r) \subseteq Openings /\ OpeningsOf(r) \in SUBSET Nat
    BY Typed DEF OpeningsOf
<1> QED
    BY <1>1, MinOf

(* At most one application is matched: one that was received, or one that  *)
(* was reported while none was received, or one that the queue still has.  *)
LEMMA MatchedOne ==
    ASSUME TypeOK, NEW strong, NEW candidates, Matched(strong, candidates) # {}
    PROVE  \E i \in Apps :
             /\ Matched(strong, candidates) = {i} /\ app[i].opp \in candidates
             /\ \/ app[i].receipt # None \/ app[i].owner # None
                \/ /\ strong # {}
                   /\ \A j \in Apps : app[j].opp \in candidates =>
                        app[j].receipt = None /\ app[j].owner = None
<1> DEFINE apps == {i \in Apps : app[i].opp \in candidates}
           received == {i \in apps : app[i].receipt # None}
           reported == {i \in apps : app[i].owner # None}
<1>1. apps \in SUBSET Nat /\ received \in SUBSET Nat /\ reported \in SUBSET Nat
    BY Typed
<1>2. /\ received # {} => Min(received) \in received
      /\ reported # {} => Min(reported) \in reported
      /\ apps # {} => Min(apps) \in apps
    BY <1>1, MinOf
<1>3. Matched(strong, candidates) =
        IF received # {} THEN {Min(received)}
        ELSE IF reported # {} THEN {Min(reported)}
        ELSE IF strong # {} /\ apps # {} THEN {Min(apps)} ELSE {}
    BY DEF Matched
<1>4. CASE received # {}
    BY <1>2, <1>3, <1>4
<1>5. CASE received = {} /\ reported # {}
    BY <1>2, <1>3, <1>5
<1>6. CASE received = {} /\ reported = {} /\ strong # {} /\ apps # {}
    BY <1>2, <1>3, <1>6
<1> QED
    BY <1>3, <1>4, <1>5, <1>6

(* A confirmation is added to an application, or to one that is imported   *)
(* for it.                                                                 *)
Joins(k, url, i, proof) ==
    /\ UNCHANGED opening
    /\ app' = [app EXCEPT ![i] = WithEvidence(app[i], k, proof)]
    /\ \/ app[i].receipt # None \/ app[i].owner # None
       \/ /\ url # None /\ app[i].opp \in OpeningsOf(url)
          /\ \A j \in Apps : app[j].opp \in OpeningsOf(url) =>
               app[j].receipt = None /\ app[j].owner = None

ReportStates == {"external_identity_pending", "owner_reported_submitted"}

Imports(k, url, o, status, proof) ==
    /\ app' = Append(app, WithEvidence([NewApplication(o) EXCEPT
                  !.imported = TRUE, !.status = status], k, proof))
    /\ \/ /\ UNCHANGED opening /\ url # None /\ o \in OpeningsOf(url)
          /\ \A j \in Apps : app[j].opp \notin OpeningsOf(url)
       \/ /\ opening' = Append(opening, url) /\ o = Len(opening) + 1
          /\ url # None => OpeningsOf(url) = {}

LEMMA RecordSendMoves ==
    ASSUME TypeOK, NEW k \in Records, NEW url \in Roles \cup {None}, NEW date \in 0..now,
           RecordSend(k, url, date)
    PROVE  \E proof \in Proof :
             \/ \E i \in Apps : Joins(k, url, i, proof)
             \/ \E o \in Nat, status \in ReportStates : Imports(k, url, o, status, proof)
<1> DEFINE strong == IF url = None THEN {} ELSE OpeningsOf(url)
           similar == IF url = None THEN Openings ELSE {}
           pending == strong = {} /\ similar # {}
           report == [url |-> url, date |-> date, pending |-> pending]
           candidates == IF strong # {} THEN strong ELSE similar
           matched == Matched(strong, candidates)
           first == IF strong # {} THEN Min(strong) ELSE Len(opening) + 1
           name == IF pending THEN "external_identity_pending" ELSE "owner_reported_submitted"
<1>1. IF matched # {}
      THEN /\ app' = [i \in Apps |-> IF i \in matched THEN WithEvidence(app[i], k, report) ELSE app[i]]
           /\ UNCHANGED opening
      ELSE /\ app' = Append(app, WithEvidence([NewApplication(first) EXCEPT
                        !.imported = TRUE, !.status = name], k, report))
           /\ opening' = IF strong # {} THEN opening ELSE Append(opening, url)
    BY DEF RecordSend
<1>2. report \in Proof
    <2>1. date \in Days
        BY Typed DEF Days
    <2> QED
        BY <2>1 DEF Proof
<1>3. strong # {} => url # None /\ strong = OpeningsOf(url) /\ candidates = OpeningsOf(url)
    OBVIOUS
<1>4. url # None /\ strong = {} => OpeningsOf(url) = {}
    OBVIOUS
<1>5. first \in Nat /\ (strong # {} => first \in OpeningsOf(url))
    BY <1>3, Typed, OpeningsTyped
<1>6. name \in ReportStates
    BY DEF ReportStates
<1> HIDE DEF report, name
<1>7. CASE matched # {}
    <2>1. PICK i \in Apps :
            /\ matched = {i} /\ app[i].opp \in candidates
            /\ \/ app[i].receipt # None \/ app[i].owner # None
               \/ /\ strong # {}
                  /\ \A j \in Apps : app[j].opp \in candidates =>
                       app[j].receipt = None /\ app[j].owner = None
        BY <1>7, MatchedOne
    <2>2. app' = [app EXCEPT ![i] = WithEvidence(app[i], k, report)]
        <3>1. app' = [j \in Apps |-> IF j \in matched THEN WithEvidence(app[j], k, report) ELSE app[j]]
            BY <1>1, <1>7
        <3>2. app' = [j \in Apps |-> IF j = i THEN WithEvidence(app[j], k, report) ELSE app[j]]
            BY <2>1, <3>1
        <3>3. app = [j \in Apps |-> app[j]]
            BY Typed
        <3> QED
            BY <3>2, <3>3
    <2>3. UNCHANGED opening
        BY <1>1, <1>7
    <2>4. Joins(k, url, i, report)
        BY <1>3, <2>1, <2>2, <2>3 DEF Joins
    <2> QED
        BY <1>2, <2>4
<1>8. CASE matched = {}
    <2>1. app' = Append(app, WithEvidence([NewApplication(first) EXCEPT
                    !.imported = TRUE, !.status = name], k, report))
        BY <1>1, <1>8
    <2>2. CASE strong # {}
        <3>1. \A j \in Apps : app[j].opp \notin OpeningsOf(url)
            <4>1. \A j \in Apps : app[j].opp \notin candidates
                BY <1>8, <2>2 DEF Matched
            <4> QED
                BY <1>3, <2>2, <4>1
        <3>2. Imports(k, url, first, name, report)
            BY <1>1, <1>3, <1>5, <1>8, <2>1, <2>2, <3>1 DEF Imports
        <3> QED
            BY <1>2, <1>5, <1>6, <3>2
    <2>3. CASE strong = {}
        <3>1. Imports(k, url, first, name, report)
            BY <1>1, <1>4, <1>8, <2>1, <2>3 DEF Imports
        <3> QED
            BY <1>2, <1>5, <1>6, <3>1
    <2> QED
        BY <2>2, <2>3
<1> QED
    BY <1>7, <1>8

LEMMA RecordSendKeeps ==
    ASSUME HistoryKept, NEW k \in Records, NEW url \in Roles \cup {None}, NEW date \in 0..now,
           RecordSend(k, url, date)
    PROVE  HistoryKept' /\ \A j \in Apps : Stays(j)
<1>1. TypeOK /\ UNCHANGED <<now, waiting, mails, heard>>
    BY DEF HistoryKept, RecordSend
<1>2. PICK proof \in Proof :
        \/ \E i \in Apps : Joins(k, url, i, proof)
        \/ \E o \in Nat, status \in ReportStates : Imports(k, url, o, status, proof)
    BY <1>1, RecordSendMoves
<1>3. ASSUME NEW i \in Apps, Joins(k, url, i, proof)
      PROVE  HistoryKept' /\ \A j \in Apps : Stays(j)
    <2>1. app' = [app EXCEPT ![i] = WithEvidence(app[i], k, proof)] /\ UNCHANGED opening
        BY <1>3 DEF Joins
    <2>2. PICK a \in Application : a = app[i] /\ a.opp \in Openings /\ AppKept(a)
        BY <1>1, Typed DEF HistoryKept
    <2>3. PICK x \in Application :
            /\ x = WithEvidence(a, k, proof) /\ AppKept(x) /\ SameAnswers(a, x) /\ OwnKept(a, x)
            /\ x.opp = a.opp
        BY <2>2, EvidenceAdded
    <2>4. opening' \in Seq(Roles \cup {None}) /\ Openings' = Openings
        BY <1>1, <2>1, Typed DEF Openings
    <2> QED
        BY <1>1, <2>1, <2>2, <2>3, <2>4, QuietChange
<1>4. ASSUME NEW o \in Nat, NEW status \in ReportStates, Imports(k, url, o, status, proof)
      PROVE  HistoryKept' /\ \A j \in Apps : Stays(j)
    <2>1. PICK a : a = [NewApplication(o) EXCEPT !.imported = TRUE, !.status = status]
        OBVIOUS
    <2>2. /\ a \in Application /\ a.opp = o /\ a.imported = TRUE
          /\ a.status = status /\ a.followup = None
        BY <2>1 DEF NewApplication, Application, ReportStates
    <2>3. AppKept(a)
        BY <2>2 DEF AppKept, ReportStates
    <2>4. PICK x \in Application :
            x = WithEvidence(a, k, proof) /\ AppKept(x) /\ x.opp = o
        BY <2>2, <2>3, EvidenceAdded
    <2>5. /\ opening' \in Seq(Roles \cup {None}) /\ Openings \subseteq Openings'
          /\ o \in Openings'
        <3>1. CASE UNCHANGED opening /\ o \in OpeningsOf(url)
            BY <1>1, <3>1, Typed, OpeningsTyped DEF Openings
        <3>2. CASE opening' = Append(opening, url) /\ o = Len(opening) + 1
            BY <1>1, <3>2, Typed DEF Openings
        <3> QED
            BY <1>4, <3>1, <3>2 DEF Imports
    <2>6. app' = Append(app, x)
        BY <1>4, <2>1, <2>4 DEF Imports
    <2> QED
        BY <1>1, <2>4, <2>5, <2>6, QuietAddition
<1> QED
    BY <1>2, <1>3, <1>4

(* The record's application is corrected, joins one that was sent, or      *)
(* becomes the application of the opening.                                 *)
Corrected(a, x) ==
    /\ x.imported = a.imported /\ x.receipt = a.receipt /\ SameAnswers(a, x)

StaysWhereItIs(i, x) ==
    /\ app' = [app EXCEPT ![i] = x] /\ UNCHANGED opening
    /\ x.owner = app[i].owner /\ x.status = app[i].status /\ x.opp = app[i].opp

JoinsSent(k, r, i, x, j, proof) ==
    /\ app[i].imported /\ j \in SentBefore(i, r) /\ UNCHANGED opening
    /\ x.owner = None /\ x.status = "external_duplicate" /\ x.opp = app[i].opp
    /\ app' = [app EXCEPT ![i] = x, ![j] = WithEvidence(app[j], k, proof)]

Becomes(r, i, x) ==
    /\ app[i].imported /\ SentBefore(i, r) = {} /\ app' = [app EXCEPT ![i] = x]
    /\ x.status = "owner_reported_submitted"
    /\ \/ UNCHANGED opening /\ x.opp \in OpeningsOf(r)
       \/ /\ OpeningsOf(r) = {} /\ x.opp = app[i].opp
          /\ opening' = [opening EXCEPT ![app[i].opp] = r]

LEMMA ResolveMoves ==
    ASSUME TypeOK, NEW k \in Records, NEW r \in Roles, ResolveIdentity(k, r)
    PROVE  \E i \in Apps, x \in Application :
             /\ Corrected(app[i], x)
             /\ \/ StaysWhereItIs(i, x)
                \/ \E j \in Apps, proof \in Proof : JoinsSent(k, r, i, x, j, proof)
                \/ Becomes(r, i, x)
<1>1. HasRecord(k) \in SUBSET Nat /\ HasRecord(k) \subseteq Apps /\ HasRecord(k) # {}
    <2>1. HasRecord(k) # {}
        BY DEF ResolveIdentity
    <2>2. HasRecord(k) \subseteq Apps
        BY DEF HasRecord
    <2>3. Apps \in SUBSET Nat
        BY Typed
    <2> QED
        BY <2>1, <2>2, <2>3
<1>2. PICK i \in Apps : i = Min(HasRecord(k)) /\ i \in HasRecord(k)
    BY <1>1, MinOf
<1>3. PICK a \in Application : a = app[i] /\ a.opp \in Openings
    BY Typed
<1>4. a.evidence \in [Records -> Proof \cup {None}] /\ a.evidence[k] \in Proof
    BY <1>2, <1>3 DEF Application, HasRecord
<1>5. PICK proof \in Proof : proof = [a.evidence[k] EXCEPT !.url = r, !.pending = FALSE]
    BY <1>4 DEF Proof
<1>6. PICK e \in [Records -> Proof \cup {None}] : e = [a.evidence EXCEPT ![k] = proof]
    BY <1>4
<1>7. PICK b : b = [a EXCEPT !.evidence = e]
    OBVIOUS
<1>8. b \in Application /\ Corrected(a, b) /\ b.owner = a.owner /\ b.status = a.status /\ b.opp = a.opp
    BY <1>7 DEF Application, Corrected, SameAnswers
<1>9. b = [app[i] EXCEPT !.evidence[k] = proof]
    BY <1>3, <1>6, <1>7
<1>10. IF ~Moves(i, r)
       THEN app' = [app EXCEPT ![i] = b] /\ UNCHANGED opening
       ELSE IF SentBefore(i, r) # {}
       THEN /\ app' = [app EXCEPT ![i] = [b EXCEPT !.owner = None, !.status = "external_duplicate"],
                                  ![Min(SentBefore(i, r))] = WithEvidence(@, k, proof)]
            /\ UNCHANGED opening
       ELSE /\ app' = [app EXCEPT ![i] =
                  [b EXCEPT !.owner = proof.date, !.status = "owner_reported_submitted",
                            !.opp = IF OpeningsOf(r) # {} THEN Min(OpeningsOf(r)) ELSE @]]
            /\ opening' = IF OpeningsOf(r) # {} THEN opening ELSE [opening EXCEPT ![app[i].opp] = r]
    BY <1>2, <1>3, <1>5, <1>9 DEF ResolveIdentity
<1>11. app[i].imported = a.imported /\ Moves(i, r) = app[i].imported
    BY <1>3 DEF Moves
<1>12. CASE ~Moves(i, r)
    <2>1. StaysWhereItIs(i, b)
        BY <1>3, <1>8, <1>10, <1>12 DEF StaysWhereItIs
    <2> QED
        BY <1>3, <1>8, <2>1
<1>13. CASE Moves(i, r) /\ SentBefore(i, r) # {}
    <2>1. PICK j : j = Min(SentBefore(i, r)) /\ j \in SentBefore(i, r) /\ j \in Apps /\ j # i
        <3>1. SentBefore(i, r) \in SUBSET Nat /\ SentBefore(i, r) \subseteq Apps \ {i}
            BY Typed DEF SentBefore
        <3> QED
            BY <1>13, <3>1, MinOf
    <2>2. PICK x : x = [b EXCEPT !.owner = None, !.status = "external_duplicate"]
        OBVIOUS
    <2>3. /\ x \in Application /\ Corrected(a, x) /\ x.owner = None
          /\ x.status = "external_duplicate" /\ x.opp = a.opp
        BY <1>8, <2>2 DEF Application, Corrected, SameAnswers
    <2>4. /\ app' = [app EXCEPT ![i] = x, ![j] = WithEvidence(@, k, proof)]
          /\ UNCHANGED opening
        BY <1>10, <1>13, <2>1, <2>2
    <2>5. app' = [app EXCEPT ![i] = x, ![j] = WithEvidence(app[j], k, proof)]
        BY <2>1, <2>4
    <2>6. JoinsSent(k, r, i, x, j, proof)
        BY <1>3, <1>11, <1>13, <2>1, <2>3, <2>4, <2>5 DEF JoinsSent
    <2> QED
        BY <1>3, <2>1, <2>3, <2>6
<1>14. CASE Moves(i, r) /\ SentBefore(i, r) = {}
    <2>1. PICK o \in Nat :
            /\ o = IF OpeningsOf(r) # {} THEN Min(OpeningsOf(r)) ELSE a.opp
            /\ IF OpeningsOf(r) # {} THEN o \in OpeningsOf(r) ELSE o = a.opp
        BY <1>3, OpeningsTyped DEF Application
    <2>2. PICK x : x = [b EXCEPT !.owner = proof.date, !.status = "owner_reported_submitted",
                                 !.opp = o]
        OBVIOUS
    <2>3. /\ x \in Application /\ Corrected(a, x) /\ x.status = "owner_reported_submitted"
          /\ x.opp = o
        BY <1>8, <2>2 DEF Application, Corrected, SameAnswers, Proof
    <2>4. app' = [app EXCEPT ![i] = x]
        <3>1. x = [b EXCEPT !.owner = proof.date, !.status = "owner_reported_submitted",
                            !.opp = IF OpeningsOf(r) # {} THEN Min(OpeningsOf(r)) ELSE @]
            BY <1>8, <2>1, <2>2
        <3> QED
            BY <1>10, <1>14, <3>1
    <2>5. opening' = IF OpeningsOf(r) # {} THEN opening ELSE [opening EXCEPT ![app[i].opp] = r]
        BY <1>10, <1>14
    <2>6. Becomes(r, i, x)
        BY <1>3, <1>11, <1>14, <2>1, <2>3, <2>4, <2>5 DEF Becomes
    <2> QED
        BY <1>3, <2>3, <2>6
<1> QED
    BY <1>12, <1>13, <1>14


LEMMA ResolveIdentityKeeps ==
    ASSUME HistoryKept, NEW k \in Records, NEW r \in Roles, ResolveIdentity(k, r)
    PROVE  HistoryKept' /\ \A j \in Apps : Stays(j)
<1>1. TypeOK /\ UNCHANGED <<now, waiting, mails, heard>>
    BY DEF HistoryKept, ResolveIdentity
<1>2. PICK i \in Apps, x \in Application :
        /\ Corrected(app[i], x)
        /\ \/ StaysWhereItIs(i, x)
           \/ \E j \in Apps, proof \in Proof : JoinsSent(k, r, i, x, j, proof)
           \/ Becomes(r, i, x)
    BY <1>1, ResolveMoves
<1>3. PICK a \in Application : a = app[i] /\ a.opp \in Openings /\ AppKept(a)
    BY <1>1, Typed DEF HistoryKept
<1>4. CASE StaysWhereItIs(i, x)
    <2>1. AppKept(x) /\ OwnKept(a, x) /\ SameAnswers(a, x) /\ x.opp = a.opp
        BY <1>2, <1>3, <1>4 DEF StaysWhereItIs, Corrected, AppKept, OwnKept, SameAnswers
    <2>2. opening' \in Seq(Roles \cup {None}) /\ Openings' = Openings
        BY <1>1, <1>4, Typed DEF Openings, StaysWhereItIs
    <2> QED
        BY <1>1, <1>3, <1>4, <2>1, <2>2, QuietChange DEF StaysWhereItIs
<1>5. ASSUME NEW j \in Apps, NEW proof \in Proof, JoinsSent(k, r, i, x, j, proof)
      PROVE  HistoryKept' /\ \A l \in Apps : Stays(l)
    <2>1. AppKept(x) /\ OwnKept(a, x) /\ SameAnswers(a, x) /\ x.opp = a.opp
        BY <1>2, <1>3, <1>5 DEF JoinsSent, Corrected, AppKept, OwnKept, SameAnswers
    <2>2. opening' \in Seq(Roles \cup {None}) /\ Openings' = Openings
        BY <1>1, <1>5, Typed DEF Openings, JoinsSent
    <2>3. j # i
        BY <1>5 DEF JoinsSent, SentBefore
    <2>4. PICK c \in Application : c = app[j] /\ c.opp \in Openings /\ AppKept(c)
        BY <1>1, Typed DEF HistoryKept
    <2>5. PICK y \in Application :
            /\ y = WithEvidence(c, k, proof) /\ AppKept(y) /\ SameAnswers(c, y) /\ OwnKept(c, y)
            /\ y.opp = c.opp
        BY <2>4, EvidenceAdded
    <2>6. app' = [app EXCEPT ![i] = x, ![j] = y]
        BY <1>5, <2>4, <2>5 DEF JoinsSent
    <2>7. /\ app' \in Seq(Application) /\ Apps' = Apps /\ app'[i] = x /\ app'[j] = y
          /\ \A l \in Apps : l # i /\ l # j => app'[l] = app[l]
        BY <1>1, <2>3, <2>6, Typed DEF Apps
    <2>8. \A l \in Apps : AppKept(app[l]) /\ app[l].opp \in Openings
        BY <1>1, Typed DEF HistoryKept
    <2>9. \A l \in Apps' : AppKept(app'[l]) /\ app'[l].opp \in Openings'
        BY <1>3, <2>1, <2>2, <2>4, <2>5, <2>7, <2>8
    <2>10. \A l \in Apps : SameAnswers(app[l], app'[l]) /\ OwnKept(app[l], app'[l])
        BY <1>3, <2>1, <2>4, <2>5, <2>7, OwnReflexive
    <2>11. HistoryKept'
        BY <1>1, <2>2, <2>7, <2>9, <2>10, StillWaiting, QuietStep
    <2> QED
        BY <2>7, <2>10, <2>11 DEF Stays
<1>6. CASE Becomes(r, i, x)
    <2>1. AppKept(x) /\ OwnKept(a, x) /\ SameAnswers(a, x)
        BY <1>2, <1>3, <1>6 DEF Becomes, Corrected, AppKept, OwnKept, SameAnswers
    <2>2. opening' \in Seq(Roles \cup {None}) /\ Openings' = Openings /\ x.opp \in Openings
        <3>1. opening \in Seq(Roles \cup {None}) /\ Openings = 1..Len(opening)
            BY <1>1, Typed
        <3>2. CASE UNCHANGED opening /\ x.opp \in OpeningsOf(r)
            BY <3>1, <3>2 DEF Openings, OpeningsOf
        <3>3. CASE x.opp = a.opp /\ opening' = [opening EXCEPT ![a.opp] = r]
            BY <1>3, <3>1, <3>3 DEF Openings
        <3> QED
            BY <1>3, <1>6, <3>2, <3>3 DEF Becomes
    <2> QED
        BY <1>1, <1>3, <1>6, <2>1, <2>2, QuietChange DEF Becomes
<1> QED
    BY <1>2, <1>4, <1>5, <1>6

(* A new mail is not older than the last one; if it is an answer, it is    *)
(* the follow-up, and an application that was closed is open again.        *)
LEMMA RecordEmployerStatusKeeps ==
    ASSUME HistoryKept, NEW i \in Apps, NEW status \in Statuses, NEW at \in 0..now,
           RecordEmployerStatus(i, status, at)
    PROVE  HistoryKept' /\ \A j \in Apps : Stays(j)
<1> DEFINE mail == [status |-> status, at |-> at]
<1>1. TypeOK /\ HeardKept /\ ClosedWereSilent /\ UNCHANGED <<now, opening, waiting>>
    BY DEF HistoryKept, RecordEmployerStatus
<1>2. at \in Days /\ at \in Nat /\ now \in Nat
    BY <1>1, Typed DEF Days
<1>3. PICK a \in Application : a = app[i] /\ a.opp \in Openings /\ AppKept(a)
    BY <1>1, Typed DEF HistoryKept
<1>4. a.followup # None => a.followup \in Nat /\ a.followup <= at
    <2>1. a.followup \in Days \cup {None} /\ a.employer \in Mails \cup {None}
        BY <1>3 DEF Application
    <2>2. a.employer # None => a.employer.at \in Days /\ a.employer.at <= at
        BY <1>3, <2>1 DEF RecordEmployerStatus, NotOlder, Mails
    <2> QED
        BY <1>1, <1>2, <1>3, <2>1, <2>2, Typed DEF AppKept, Days
<1>5. mail \in Mails /\ mail # None /\ mail.at = at
    BY <1>2, NoneAssumption DEF Mails
<1>6. PICK x :
        x = IF status \in Meaningful
            THEN [a EXCEPT !.employer = mail, !.followup = at, !.lifecycle = Reopened(a.lifecycle)]
            ELSE [a EXCEPT !.employer = mail]
    OBVIOUS
<1> HIDE DEF mail
<1>7. /\ x \in Application /\ x.employer = mail /\ x.opp = a.opp /\ x.imported = a.imported
      /\ x.status = a.status /\ x.receipt = a.receipt /\ x.owner = a.owner
      /\ IF status \in Meaningful
         THEN x.followup = at /\ x.lifecycle # "auto_closed"
         ELSE x.followup = a.followup /\ x.lifecycle = a.lifecycle
    <2>1. CASE status \in Meaningful
        <3>1. Reopened(a.lifecycle) \in {"none", "reopened"}
            BY DEF Reopened, Application
        <3> QED
            BY <1>2, <1>5, <1>6, <2>1, <3>1 DEF Application
    <2>2. CASE status \notin Meaningful
        BY <1>5, <1>6, <2>2 DEF Application
    <2> QED
        BY <2>1, <2>2
<1>8. app' = [app EXCEPT ![i] = x]
    BY <1>3, <1>6 DEF RecordEmployerStatus, mail
<1>9. /\ app' \in Seq(Application) /\ Apps' = Apps /\ app'[i] = x
      /\ \A j \in Apps : j # i => app'[j] = app[j]
    BY <1>7, <1>8, OneChanges
<1>10. AppKept(x) /\ OwnKept(a, x)
    BY <1>2, <1>3, <1>4, <1>5, <1>7 DEF AppKept, OwnKept
<1>11. heard' = IF status \in Meaningful THEN heard \cup {<<i, at>>} ELSE heard
    BY DEF RecordEmployerStatus
<1>12. TypeOK'
    <2>1. mails' \in 0..MaxMails
        <3>1. mails \in 0..MaxMails /\ mails < MaxMails /\ mails' = mails + 1 /\ MaxMails \in Nat
            BY <1>1, SentHistoryAssumption DEF TypeOK, RecordEmployerStatus, SentHistoryAssumption
        <3> QED
            BY <3>1
    <2>2. heard' \subseteq Apps' \X Days
        BY <1>1, <1>2, <1>9, <1>11 DEF TypeOK
    <2>3. \A j \in Apps' : app'[j].opp \in Openings'
        BY <1>1, <1>3, <1>7, <1>9, Typed DEF Openings
    <2> QED
        BY <1>1, <1>9, <2>1, <2>2, <2>3 DEF TypeOK
<1>13. \A h \in heard : h[1] \in Apps /\ h[2] \in Nat
    BY <1>1, Typed DEF TypeOK, Days
<1>14. HeardKept'
    <2>1. ASSUME NEW h \in heard'
          PROVE  app'[h[1]].followup # None /\ h[2] <= app'[h[1]].followup
        <3>1. at # None
            BY <1>2, SentHistoryAssumption DEF SentHistoryAssumption
        <3>2. CASE h \in heard /\ h[1] # i
            BY <1>1, <1>9, <1>13, <3>2 DEF HeardKept
        <3>3. CASE h \in heard /\ h[1] = i
            <4>1. a.followup # None /\ h[2] <= a.followup
                BY <1>1, <1>3, <3>3 DEF HeardKept
            <4> QED
                BY <1>2, <1>4, <1>7, <1>9, <1>13, <3>1, <3>3, <4>1
        <3>4. CASE h \notin heard
            <4>1. status \in Meaningful /\ h[1] = i /\ h[2] = at
                BY <1>11, <2>1, <3>4
            <4> QED
                BY <1>2, <1>7, <1>9, <3>1, <4>1
        <3> QED
            BY <3>2, <3>3, <3>4
    <2> QED
        BY <2>1 DEF HeardKept
<1>15. ClosedWereSilent'
    <2>1. ASSUME NEW h \in heard', app'[h[1]].lifecycle = "auto_closed"
          PROVE  h[2] + NoResponse < now
        <3>1. CASE status \in Meaningful
            <4>1. h[1] # i
                BY <1>7, <1>9, <2>1, <3>1
            <4>2. h \in heard
                BY <1>11, <4>1
            <4> QED
                BY <1>1, <1>9, <1>13, <2>1, <4>1, <4>2 DEF ClosedWereSilent
        <3>2. CASE status \notin Meaningful
            <4>1. h \in heard
                BY <1>11, <3>2
            <4>2. app[h[1]].lifecycle = "auto_closed"
                BY <1>3, <1>7, <1>9, <1>13, <2>1, <3>2, <4>1
            <4> QED
                BY <1>1, <4>1, <4>2 DEF ClosedWereSilent
        <3> QED
            BY <3>1, <3>2
    <2> QED
        BY <1>1, <2>1 DEF ClosedWereSilent
<1>16. \A j \in Apps : AppKept(app[j])
    BY DEF HistoryKept
<1>17. \A j \in Apps' : AppKept(app'[j])
    BY <1>9, <1>10, <1>16
<1>18. HistoryKept'
    BY <1>1, <1>12, <1>14, <1>15, <1>17, StillWaiting DEF HistoryKept
<1> QED
    BY <1>3, <1>9, <1>10, <1>18, OwnReflexive DEF Stays

LEMMA ReconcileReadsKeeps ==
    ASSUME HistoryKept, ReconcileReads
    PROVE  HistoryKept' /\ \A j \in Apps : Stays(j)
<1>1. TypeOK /\ UNCHANGED <<now, opening, app, mails, heard>> /\ waiting' = waiting \cup {now}
    BY DEF HistoryKept, ReconcileReads
<1>2. now \in Days /\ now \in Nat /\ \A at \in waiting' : at \in Days /\ at <= now
    BY <1>1, Typed DEF HistoryKept, TypeOK
<1>3. \A i \in Apps : AppKept(app[i]) /\ app[i].opp \in Openings
    BY <1>1, Typed DEF HistoryKept
<1>4. HistoryKept'
    BY <1>1, <1>2, <1>3, Typed, OwnReflexive, QuietStep DEF Openings, Apps
<1> QED
    BY <1>1, <1>4, OwnReflexive DEF Stays, Apps

(* What is closed is eligible when it is looked at again: its follow-up,   *)
(* so every answer recorded for it, is further back than the waiting       *)
(* period at a time that has passed.                                       *)
LEMMA EligibleIsSilent ==
    ASSUME NEW a \in Application, NEW at \in Days, NoResponse \in Nat, MaxDay \in Nat,
           Eligible(a, at), a.followup # None
    PROVE  a.followup \in Nat /\ a.followup + NoResponse < at
<1>1. a.followup \in Nat /\ at \in Nat
    BY DEF Application, Days
<1>2. SentAt(a) # None /\ InactivityDeadline(a) = Max({SentAt(a)} \cup ({a.followup} \ {None})) + NoResponse
    BY DEF Eligible, InactivityDeadline
<1>3. SentAt(a) \in Nat
    BY <1>2 DEF SentAt, Application, Days
<1>4. {SentAt(a)} \cup ({a.followup} \ {None}) = {SentAt(a), a.followup}
    OBVIOUS
<1>5. PICK m \in Nat : m = Max({SentAt(a), a.followup}) /\ m >= a.followup
    BY <1>1, <1>3, MaxOfTwo
<1>6. at > m + NoResponse
    BY <1>2, <1>4, <1>5 DEF Eligible
<1> QED
    BY <1>1, <1>5, <1>6

LEMMA ReconcileInactivityKeeps ==
    ASSUME HistoryKept, NEW at \in waiting, ReconcileInactivity(at)
    PROVE  HistoryKept' /\ \A j \in Apps : Stays(j)
<1>1. TypeOK /\ HeardKept /\ ClosedWereSilent /\ UNCHANGED <<now, opening, mails, heard>>
    BY DEF HistoryKept, ReconcileInactivity
<1>2. now \in Nat /\ NoResponse \in Nat /\ MaxDay \in Nat
      /\ at \in Days /\ at \in Nat /\ at <= now
    BY <1>1, Typed DEF HistoryKept, TypeOK, Days
<1>3. waiting' \subseteq waiting
    BY DEF ReconcileInactivity
<1> DEFINE Closed(a) == [a EXCEPT !.lifecycle = "auto_closed"]
<1>4. ASSUME NEW a \in Application
      PROVE  /\ Closed(a) \in Application /\ OwnKept(a, Closed(a))
             /\ AppKept(a) => AppKept(Closed(a))
             /\ Closed(a).opp = a.opp /\ Closed(a).followup = a.followup
    BY DEF Application, OwnKept, AppKept
<1>5. app' = [i \in Apps |-> IF Eligible(app[i], at) THEN Closed(app[i]) ELSE app[i]]
    BY DEF ReconcileInactivity
<1> HIDE DEF Closed
<1>6. \A i \in Apps : app[i] \in Application /\ app[i].opp \in Openings /\ AppKept(app[i])
    BY <1>1, Typed DEF HistoryKept
<1>7. \A i \in Apps :
        /\ app'[i] \in Application /\ OwnKept(app[i], app'[i]) /\ AppKept(app'[i])
        /\ app'[i].opp \in Openings /\ app'[i].followup = app[i].followup
        /\ Eligible(app[i], at) \/ app'[i] = app[i]
    BY <1>4, <1>5, <1>6, OwnReflexive
<1>8. app' \in Seq(Application) /\ Apps' = Apps
    BY <1>1, <1>5, <1>7, Typed DEF Apps
<1>9. TypeOK'
    BY <1>1, <1>3, <1>7, <1>8 DEF TypeOK, Openings
<1>10. \A h \in heard : h[1] \in Apps /\ h[2] \in Nat
    BY <1>1, Typed DEF TypeOK, Days
<1>11. HeardKept'
    BY <1>1, <1>7, <1>10 DEF HeardKept
<1>12. ClosedWereSilent'
    <2>1. ASSUME NEW h \in heard, app'[h[1]].lifecycle = "auto_closed"
          PROVE  h[2] + NoResponse < now
        <3>1. PICK a \in Application : a = app[h[1]]
            BY <1>6, <1>10
        <3>2. CASE Eligible(a, at)
            <4>1. a.followup # None /\ h[2] <= a.followup
                BY <1>1, <3>1, <2>1 DEF HeardKept
            <4>2. a.followup \in Nat /\ a.followup + NoResponse < at
                BY <1>2, <3>2, <4>1, EligibleIsSilent
            <4> QED
                BY <1>2, <1>10, <2>1, <4>1, <4>2
        <3>3. CASE ~Eligible(a, at)
            BY <1>1, <1>7, <1>10, <2>1, <3>1, <3>3 DEF ClosedWereSilent
        <3> QED
            BY <3>2, <3>3
    <2> QED
        BY <1>1, <2>1 DEF ClosedWereSilent
<1>13. \A t \in waiting : t <= now
    BY DEF HistoryKept
<1>14. HistoryKept'
    BY <1>1, <1>3, <1>7, <1>8, <1>9, <1>11, <1>12, <1>13 DEF HistoryKept
<1> QED
    BY <1>7, <1>8, <1>14 DEF Stays

LEMMA NextDayKeeps ==
    ASSUME HistoryKept, NextDay
    PROVE  HistoryKept' /\ \A j \in Apps : Stays(j)
<1>1. TypeOK /\ UNCHANGED <<opening, app, waiting, mails, heard>>
    BY DEF HistoryKept, NextDay
<1>2. now \in Nat /\ MaxDay \in Nat /\ now' = now + 1 /\ now < MaxDay
    BY <1>1, Typed DEF NextDay
<1>3. now' \in Days /\ now <= now'
    BY <1>2 DEF Days
<1>4. \A at \in waiting' : at \in Days /\ at <= now'
    BY <1>1, <1>2 DEF HistoryKept, TypeOK, Days
<1>5. \A i \in Apps : AppKept(app[i]) /\ app[i].opp \in Openings
    BY <1>1, Typed DEF HistoryKept
<1>6. HistoryKept'
    BY <1>1, <1>3, <1>4, <1>5, Typed, OwnReflexive, QuietStep DEF Openings, Apps
<1> QED
    BY <1>1, <1>6, OwnReflexive DEF Stays, Apps

LEMMA StepKeeps ==
    ASSUME HistoryKept, [Next]_vars
    PROVE  HistoryKept' /\ \A j \in Apps : Stays(j)
<1>1. CASE \E r \in Roles : QueueAdds(r)
    BY <1>1, QueueAddsKeeps
<1>2. CASE \E i \in Apps : QueueSubmits(i)
    BY <1>2, QueueSubmitsKeeps
<1>3. CASE \E k \in Records, url \in Roles \cup {None}, date \in 0..now : RecordSend(k, url, date)
    BY <1>3, RecordSendKeeps
<1>4. CASE \E k \in Records, r \in Roles : ResolveIdentity(k, r)
    BY <1>4, ResolveIdentityKeeps
<1>5. CASE \E i \in Apps, status \in Statuses, at \in 0..now : RecordEmployerStatus(i, status, at)
    BY <1>5, RecordEmployerStatusKeeps
<1>6. CASE ReconcileReads
    BY <1>6, ReconcileReadsKeeps
<1>7. CASE \E at \in waiting : ReconcileInactivity(at)
    BY <1>7, ReconcileInactivityKeeps
<1>8. CASE NextDay
    BY <1>8, NextDayKeeps
<1>9. CASE UNCHANGED vars
    <2>1. UNCHANGED <<now, opening, app, waiting, mails, heard>>
        BY <1>9 DEF vars
    <2>2. \A i \in Apps : AppKept(app[i]) /\ app[i].opp \in Openings
        BY Typed DEF HistoryKept
    <2>3. HistoryKept'
        BY <2>1, <2>2, Typed, OwnReflexive, StillWaiting, QuietStep DEF HistoryKept, Openings, Apps
    <2> QED
        BY <2>1, <2>3, OwnReflexive DEF Stays, Apps
<1> QED
    BY <1>1, <1>2, <1>3, <1>4, <1>5, <1>6, <1>7, <1>8, <1>9 DEF Next

(* The records of sends keep their invariant: every application is one the *)
(* queue or a report can have left, no clock that a closing read is ahead  *)
(* of the calendar, and no answer is younger than the follow-up its        *)
(* application shows.                                                      *)
THEOREM HistoryIsKept == Spec => []HistoryKept
<1>1. Init => HistoryKept
    <2> SUFFICES ASSUME Init
                 PROVE  HistoryKept
        OBVIOUS
    <2>1. Apps = {} /\ Openings = {} /\ waiting = {} /\ heard = {}
        BY DEF Init, Apps, Openings
    <2>2. TypeOK
        BY <2>1, SentHistoryAssumption DEF Init, TypeOK, Days, SentHistoryAssumption
    <2> QED
        BY <2>1, <2>2 DEF HistoryKept, HeardKept, ClosedWereSilent
<1>2. HistoryKept /\ [Next]_vars => HistoryKept'
    BY StepKeeps
<1> QED
    BY <1>1, <1>2, PTL DEF Spec

(* Every record has its shape, and every application an opening.           *)
THEOREM TypesAreKept == Spec => []TypeOK
<1>1. HistoryKept => TypeOK
    BY DEF HistoryKept
<1> QED
    BY <1>1, HistoryIsKept, PTL

(* An application that counts as closed for silence has been silent for    *)
(* the whole waiting period, whatever snapshot and clock the closing in    *)
(* src/service.js went by and in whatever order mails were recorded.       *)
THEOREM SilenceIsReal == Spec => []ClosedWereSilent
<1>1. HistoryKept => ClosedWereSilent
    BY DEF HistoryKept
<1> QED
    BY <1>1, HistoryIsKept, PTL

(* The owner's reports in src/external-submissions.js leave an application *)
(* of the queue its date of sending, its status and its place in the       *)
(* counts.                                                                 *)
THEOREM ReportsKeepTheQueuesHistory == Spec => QueueHistoryKept
<1>1. HistoryKept /\ [Next]_vars =>
        [\A i \in Apps : ~app[i].imported =>
           /\ IsSent(i) /\ Receipts' = Receipts => SentAt(app[i]') = SentAt(app[i])
           /\ app[i].status = "submitted" => app[i]'.status = "submitted"
           /\ ~app[i]'.imported /\ app[i]'.status # "external_duplicate"]_vars
    <2> SUFFICES ASSUME HistoryKept, [Next]_vars, NEW i \in Apps, ~app[i].imported
                 PROVE  /\ IsSent(i) /\ Receipts' = Receipts => SentAt(app[i]') = SentAt(app[i])
                        /\ app[i].status = "submitted" => app[i]'.status = "submitted"
                        /\ ~app[i]'.imported /\ app[i]'.status # "external_duplicate"
        OBVIOUS
    <2>1. HistoryKept' /\ i \in Apps' /\ OwnKept(app[i], app'[i])
        BY StepKeeps DEF Stays
    <2>2. AppKept(app'[i])
        BY <2>1 DEF HistoryKept
    <2>3. /\ ~app'[i].imported
          /\ app'[i].status = app[i].status \/ app'[i].status = "submitted"
          /\ app[i].receipt # None => app'[i].receipt = app[i].receipt
          /\ app[i].receipt = None /\ app[i].owner # None => app'[i].owner = app[i].owner
        BY <2>1 DEF OwnKept
    <2>4. app'[i].status \in {"pending", "submitted"}
        BY <2>2, <2>3 DEF AppKept
    <2>5. Receipts' = Receipts => (app'[i].receipt = None <=> app[i].receipt = None)
        BY <2>1 DEF Receipts
    <2> QED
        BY <2>3, <2>4, <2>5 DEF SentAt, IsSent
<1> QED
    BY <1>1, HistoryIsKept, PTL DEF Spec, QueueHistoryKept

-----------------------------------------------------------------------------
(* Counting roles *)

(* What a step may do to the applications that count for a role without    *)
(* making more of them.                                                    *)
CountsNoMore(r) == Counted(r) = {} \/ Receipts' # Receipts \/ Counted(r)' \subseteq Counted(r)

LEMMA NotMore ==
    ASSUME TypeOK, NEW r, CountsNoMore(r)
    PROVE  Cardinality(Counted(r)') > Cardinality(Counted(r)) =>
             Counted(r) = {} \/ Receipts' # Receipts
<1>1. IsFiniteSet(Counted(r))
    <2>1. Len(app) \in Nat
        BY Typed
    <2>2. IsFiniteSet(1..Len(app))
        BY <2>1, FS_Interval
    <2>3. Counted(r) \subseteq 1..Len(app)
        BY Typed DEF Counted
    <2> QED
        BY <2>2, <2>3, FS_Subset
<1>2. PICK later : later = Counted(r)'
    OBVIOUS
<1>3. CASE later \subseteq Counted(r)
    <2>1. /\ Cardinality(later) <= Cardinality(Counted(r))
          /\ Cardinality(later) \in Nat /\ Cardinality(Counted(r)) \in Nat
        BY <1>1, <1>3, FS_Subset, FS_CardinalityType
    <2>2. ~(Cardinality(later) > Cardinality(Counted(r)))
        BY <2>1
    <2> QED
        BY <1>2, <2>2
<1> QED
    BY <1>2, <1>3 DEF CountsNoMore

(* An application counts afterwards only if it counted before. *)
LEMMA CountsAsBefore ==
    ASSUME NEW r,
           \A i \in Apps' : SentAt(app'[i]) # None /\ opening'[app'[i].opp] = r =>
             i \in Apps /\ SentAt(app[i]) # None /\ opening[app[i].opp] = r
    PROVE  CountsNoMore(r)
BY DEF CountsNoMore, Counted, IsSent

LEMMA QueueAddsCounts ==
    ASSUME HistoryKept, NEW q \in Roles, QueueAdds(q), NEW r \in Roles
    PROVE  CountsNoMore(r)
<1>1. TypeOK
    BY DEF HistoryKept
<1>2. Len(opening) + 1 \in Nat
    BY <1>1, Typed
<1>3. \A i \in Apps' : (i \in Apps /\ app'[i] = app[i]) \/ app'[i] = NewApplication(Len(opening) + 1)
    BY <1>1, Typed DEF QueueAdds, Apps
<1>4. SentAt(NewApplication(Len(opening) + 1)) = None
    BY <1>2, NewTyped
<1>5. \A o \in Openings : opening'[o] = opening[o]
    BY <1>1, Typed DEF QueueAdds, Openings
<1> QED
    BY <1>1, <1>3, <1>4, <1>5, Typed, CountsAsBefore

LEMMA QueueSubmitsCounts ==
    ASSUME HistoryKept, NEW i \in Apps, QueueSubmits(i)
    PROVE  Receipts' # Receipts
<1>1. TypeOK /\ AppKept(app[i])
    BY DEF HistoryKept
<1>2. app[i].receipt = None /\ now # None
    BY <1>1, Typed, SentHistoryAssumption DEF AppKept, QueueSubmits, SentHistoryAssumption
<1>3. i \in Apps' /\ app'[i].receipt = now
    BY <1>1, Typed DEF QueueSubmits, Apps, Application
<1> QED
    BY <1>2, <1>3 DEF Receipts

LEMMA RecordSendCounts ==
    ASSUME HistoryKept, NEW k \in Records, NEW url \in Roles \cup {None}, NEW date \in 0..now,
           RecordSend(k, url, date), NEW r \in Roles
    PROVE  CountsNoMore(r)
<1>1. TypeOK /\ None \notin Roles
    BY SentHistoryAssumption DEF HistoryKept, SentHistoryAssumption
<1>2. PICK proof \in Proof :
        \/ \E i \in Apps : Joins(k, url, i, proof)
        \/ \E o \in Nat, status \in ReportStates : Imports(k, url, o, status, proof)
    BY <1>1, RecordSendMoves
<1>3. \A j \in Apps : app[j].opp \in Openings
    BY <1>1, Typed
<1>4. ASSUME NEW i \in Apps, Joins(k, url, i, proof)
      PROVE  CountsNoMore(r)
    <2>1. PICK a \in Application : a = app[i]
        BY <1>1, Typed
    <2>2. PICK x \in Application :
            /\ x = WithEvidence(a, k, proof) /\ x.opp = a.opp /\ x.receipt = a.receipt
            /\ a.receipt # None \/ a.owner # None => x.owner = a.owner
        BY <2>1, EvidenceAdded
    <2>3. app' = [app EXCEPT ![i] = x] /\ UNCHANGED opening
        BY <1>4, <2>1, <2>2 DEF Joins
    <2>4. Apps' = Apps /\ app'[i] = x /\ \A j \in Apps : j # i => app'[j] = app[j]
        BY <2>2, <2>3, OneChanges
    <2>5. CASE a.receipt # None \/ a.owner # None
        <3>1. SentAt(x) = SentAt(a)
            BY <2>2, <2>5 DEF SentAt
        <3> QED
            BY <2>1, <2>2, <2>3, <2>4, <3>1, CountsAsBefore
    <2>6. CASE /\ url # None /\ a.opp \in OpeningsOf(url)
               /\ \A j \in Apps : app[j].opp \in OpeningsOf(url) =>
                    app[j].receipt = None /\ app[j].owner = None
        <3>1. CASE r = url
            <4>1. Counted(r) = {}
                BY <1>3, <2>6, <3>1 DEF Counted, IsSent, SentAt, OpeningsOf
            <4> QED
                BY <4>1 DEF CountsNoMore
        <3>2. CASE r # url
            <4>1. opening[x.opp] # r
                BY <2>2, <2>6, <3>2 DEF OpeningsOf
            <4> QED
                BY <2>3, <2>4, <4>1, CountsAsBefore
        <3> QED
            BY <3>1, <3>2
    <2> QED
        BY <1>4, <2>1, <2>5, <2>6 DEF Joins
<1>5. ASSUME NEW o \in Nat, NEW status \in ReportStates, Imports(k, url, o, status, proof)
      PROVE  CountsNoMore(r)
    <2>1. PICK a : a = [NewApplication(o) EXCEPT !.imported = TRUE, !.status = status]
        OBVIOUS
    <2>2. a \in Application /\ a.opp = o
        BY <2>1 DEF NewApplication, Application, ReportStates
    <2>3. PICK x \in Application : x = WithEvidence(a, k, proof) /\ x.opp = o
        BY <2>2, EvidenceAdded
    <2>4. \A j \in Apps' : (j \in Apps /\ app'[j] = app[j]) \/ app'[j] = x
        <3>1. app' = Append(app, x)
            BY <1>5, <2>1, <2>3 DEF Imports
        <3> QED
            BY <1>1, <2>3, <3>1, Typed DEF Apps
    <2>5. \A q \in Openings : opening'[q] = opening[q]
        BY <1>1, <1>5, Typed DEF Imports, Openings
    <2>6. opening'[o] = url
        <3>1. CASE UNCHANGED opening /\ o \in OpeningsOf(url)
            BY <3>1 DEF OpeningsOf
        <3>2. CASE opening' = Append(opening, url) /\ o = Len(opening) + 1
            BY <1>1, <3>2, Typed
        <3> QED
            BY <1>5, <3>1, <3>2 DEF Imports
    <2>7. CASE r = url
        <3>1. \A j \in Apps : app[j].opp \notin OpeningsOf(url)
            BY <1>1, <1>5, <2>7 DEF Imports
        <3>2. Counted(r) = {}
            BY <1>3, <2>7, <3>1 DEF Counted, OpeningsOf
        <3> QED
            BY <3>2 DEF CountsNoMore
    <2>8. CASE r # url
        BY <1>3, <2>3, <2>4, <2>5, <2>6, <2>8, CountsAsBefore
    <2> QED
        BY <2>7, <2>8
<1> QED
    BY <1>2, <1>4, <1>5

LEMMA ResolveIdentityCounts ==
    ASSUME HistoryKept, NEW k \in Records, NEW q \in Roles, ResolveIdentity(k, q), NEW r \in Roles
    PROVE  CountsNoMore(r)
<1>1. TypeOK
    BY DEF HistoryKept
<1>2. PICK i \in Apps, x \in Application :
        /\ Corrected(app[i], x)
        /\ \/ StaysWhereItIs(i, x)
           \/ \E j \in Apps, proof \in Proof : JoinsSent(k, q, i, x, j, proof)
           \/ Becomes(q, i, x)
    BY <1>1, ResolveMoves
<1>3. x.receipt = app[i].receipt
    BY <1>2 DEF Corrected
<1>4. CASE StaysWhereItIs(i, x)
    <2>1. Apps' = Apps /\ app'[i] = x /\ \A j \in Apps : j # i => app'[j] = app[j]
        BY <1>2, <1>4, OneChanges DEF StaysWhereItIs
    <2>2. SentAt(x) = SentAt(app[i])
        BY <1>3, <1>4 DEF SentAt, StaysWhereItIs
    <2> QED
        BY <1>4, <2>1, <2>2, CountsAsBefore DEF StaysWhereItIs
<1>5. ASSUME NEW j \in Apps, NEW proof \in Proof, JoinsSent(k, q, i, x, j, proof)
      PROVE  CountsNoMore(r)
    <2>1. PICK c \in Application : c = app[j] /\ SentAt(c) # None /\ j # i
        BY <1>1, <1>5, Typed DEF JoinsSent, SentBefore, IsSent
    <2>2. PICK y \in Application :
            /\ y = WithEvidence(c, k, proof) /\ y.opp = c.opp
        BY <2>1, EvidenceAdded
    <2>3. app' = [app EXCEPT ![i] = x, ![j] = y]
        BY <1>5, <2>1, <2>2 DEF JoinsSent
    <2>4. /\ Apps' = Apps /\ app'[i] = x /\ app'[j] = y
          /\ \A l \in Apps : l # i /\ l # j => app'[l] = app[l]
        BY <1>1, <2>1, <2>2, <2>3, Typed DEF Apps
    <2>5. SentAt(x) # None => SentAt(app[i]) # None
        BY <1>3, <1>5 DEF SentAt, JoinsSent
    <2> QED
        <3>1. UNCHANGED opening /\ x.opp = app[i].opp
            BY <1>5 DEF JoinsSent
        <3>2. \A l \in Apps : /\ app'[l].opp = app[l].opp
                              /\ SentAt(app'[l]) # None => SentAt(app[l]) # None
            BY <2>1, <2>2, <2>4, <2>5, <3>1
        <3> QED
            BY <2>4, <3>1, <3>2, CountsAsBefore
<1>6. CASE Becomes(q, i, x)
    <2>1. Apps' = Apps /\ app'[i] = x /\ \A j \in Apps : j # i => app'[j] = app[j]
        BY <1>2, <1>6, OneChanges DEF Becomes
    <2>2. \A j \in Apps : app[j].opp \in Openings
        BY <1>1, Typed
    <2>3. CASE UNCHANGED opening /\ x.opp \in OpeningsOf(q)
        <3>1. CASE r = q
            <4>1. \A j \in Apps : j # i /\ SentAt(app[j]) # None => opening[app[j].opp] # q
                BY <1>6, <2>2 DEF Becomes, SentBefore, IsSent, OpeningsOf
            <4>2. Counted(r)' \subseteq {i} /\ Counted(r) \subseteq {i}
                BY <2>1, <2>3, <3>1, <4>1 DEF Counted, IsSent
            <4> QED
                BY <4>2 DEF CountsNoMore
        <3>2. CASE r # q
            <4>1. opening[x.opp] # r
                BY <2>3, <3>2 DEF OpeningsOf
            <4> QED
                BY <2>1, <2>3, <4>1, CountsAsBefore
        <3> QED
            BY <3>1, <3>2
    <2>4. CASE /\ OpeningsOf(q) = {} /\ x.opp = app[i].opp
               /\ opening' = [opening EXCEPT ![app[i].opp] = q]
        <3>1. CASE r = q
            <4>1. Counted(r) = {}
                BY <2>2, <2>4, <3>1 DEF Counted, OpeningsOf
            <4> QED
                BY <4>1 DEF CountsNoMore
        <3>2. CASE r # q
            <4>1. PICK o \in Openings : o = app[i].opp
                BY <1>2, <2>2
            <4>2. opening'[o] = q /\ \A p \in Openings : p # o => opening'[p] = opening[p]
                BY <1>1, <2>4, <4>1, Typed
            <4>3. \A j \in Apps : opening'[app'[j].opp] = r =>
                    j # i /\ app'[j] = app[j] /\ opening[app[j].opp] = r
                BY <2>1, <2>2, <2>4, <3>2, <4>1, <4>2
            <4> QED
                BY <2>1, <4>3, CountsAsBefore
        <3> QED
            BY <3>1, <3>2
    <2> QED
        BY <1>6, <2>3, <2>4 DEF Becomes
<1> QED
    BY <1>2, <1>4, <1>5, <1>6

LEMMA SendsUntouched ==
    ASSUME UNCHANGED opening, Apps' = Apps, NEW r,
           \A i \in Apps : /\ app'[i].opp = app[i].opp /\ app'[i].receipt = app[i].receipt
                           /\ app'[i].owner = app[i].owner
    PROVE  CountsNoMore(r)
<1>1. \A i \in Apps : SentAt(app'[i]) = SentAt(app[i])
    BY DEF SentAt
<1> QED
    BY <1>1, CountsAsBefore

LEMMA StepCounts ==
    ASSUME HistoryKept, [Next]_vars, NEW r \in Roles
    PROVE  CountsNoMore(r)
<1>1. \A i \in Apps : app[i] \in Application
    BY Typed DEF HistoryKept
<1>2. CASE \E q \in Roles : QueueAdds(q)
    BY <1>2, QueueAddsCounts
<1>3. CASE \E i \in Apps : QueueSubmits(i)
    BY <1>3, QueueSubmitsCounts DEF CountsNoMore
<1>4. CASE \E k \in Records, url \in Roles \cup {None}, date \in 0..now : RecordSend(k, url, date)
    BY <1>4, RecordSendCounts
<1>5. CASE \E k \in Records, q \in Roles : ResolveIdentity(k, q)
    BY <1>5, ResolveIdentityCounts
<1>6. CASE \E i \in Apps, status \in Statuses, at \in 0..now : RecordEmployerStatus(i, status, at)
    <2>1. PICK i \in Apps, status \in Statuses, at \in 0..now : RecordEmployerStatus(i, status, at)
        BY <1>6
    <2>2. Apps' = Apps /\ UNCHANGED opening /\ \A j \in Apps : j # i => app'[j] = app[j]
        BY <2>1 DEF RecordEmployerStatus, Apps
    <2>3. /\ app'[i].opp = app[i].opp /\ app'[i].receipt = app[i].receipt
          /\ app'[i].owner = app[i].owner
        BY <1>1, <2>1 DEF RecordEmployerStatus, Application, Apps
    <2> QED
        BY <2>2, <2>3, SendsUntouched
<1>7. CASE \E at \in waiting : ReconcileInactivity(at)
    <2>1. PICK at \in waiting : ReconcileInactivity(at)
        BY <1>7
    <2>2. Apps' = Apps /\ UNCHANGED opening
        BY <2>1 DEF ReconcileInactivity, Apps
    <2>3. ASSUME NEW i \in Apps
          PROVE  /\ app'[i].opp = app[i].opp /\ app'[i].receipt = app[i].receipt
                 /\ app'[i].owner = app[i].owner
        <3>1. app'[i] \in {app[i], [app[i] EXCEPT !.lifecycle = "auto_closed"]}
            BY <2>1 DEF ReconcileInactivity
        <3> QED
            BY <1>1, <3>1 DEF Application
    <2> QED
        BY <2>2, <2>3, SendsUntouched
<1>8. CASE ReconcileReads \/ NextDay \/ UNCHANGED vars
    <2>1. UNCHANGED <<opening, app>>
        BY <1>8 DEF ReconcileReads, NextDay, vars
    <2>2. Apps' = Apps
        BY <2>1 DEF Apps
    <2> QED
        BY <2>1, <2>2, SendsUntouched
<1> QED
    BY <1>2, <1>3, <1>4, <1>5, <1>6, <1>7, <1>8 DEF Next

(* The reports in src/external-submissions.js count a role once: a role    *)
(* that counts as sent gets a further application that counts only by a    *)
(* receipt of the queue.                                                   *)
THEOREM RolesCountOnce == Spec => ReportsCountOnce
<1>1. HistoryKept /\ [Next]_vars =>
        [\A r \in Roles : Cardinality(Counted(r)') > Cardinality(Counted(r)) =>
           Counted(r) = {} \/ Receipts' # Receipts]_vars
    BY StepCounts, NotMore DEF HistoryKept
<1> QED
    BY <1>1, HistoryIsKept, PTL DEF Spec, ReportsCountOnce
=============================================================================
